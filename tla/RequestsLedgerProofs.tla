------------------------ MODULE RequestsLedgerProofs ------------------------
(***************************************************************************)
(* Requests implements EntitlementLedger, for every number of users,       *)
(* weeks, grants and keys and every entitlement: what an approval read of  *)
(* its grant still holds once the grant is its own.                        *)
(***************************************************************************)
EXTENDS RequestsProofs

GrantsExclude == \A u, v \in Users : \A g \in Grants :
  HoldsGrant(u, g) /\ HoldsGrant(v, g) => u = v

Spare(g) == consumed[g] < Entitlement[g] + override[g]

Booked(w) == selection[w] \in {"committed", "reversed"}

\* What a transaction read of its grant, while the version it read stands.
GrantStands(u) ==
  /\ txn[u].at = "approving" =>
       LET g == txn[u].grant IN
         /\ txn[u].seen <= version[g]
         /\ version[g] = txn[u].seen => (txn[u].spare <=> Spare(g))
  /\ txn[u].at = "holding" => (txn[u].beyond <=> ~Spare(txn[u].grant))
  /\ txn[u].at \in {"reversing", "released"} => Booked(txn[u].week)

GrantsInv == GrantsExclude /\ \A u \in Users : GrantStands(u)

LedgerInv == RequestsInv /\ GrantsInv

\* Every change of a grant's counters counts its version up.
VersionsTell == \A g \in Grants :
  /\ version[g] <= version'[g]
  /\ version'[g] = version[g] => consumed'[g] = consumed[g] /\ override'[g] = override[g]

BookedStay == \A w \in Weeks : Booked(w) => Booked(w)' /\ grantOf'[w] = grantOf[w]

LEMMA BookedHaveGrants ==
  ASSUME LedgerInv, NEW u \in Users, txn[u].at \in {"reversing", "released"}
  PROVE  txn[u].week \in Weeks /\ Booked(txn[u].week) /\ grantOf[txn[u].week] \in Grants
<1>1. txn[u].week \in Weeks /\ Booked(txn[u].week)
  BY TxnFields DEF LedgerInv, RequestsInv, GrantsInv, GrantStands
<1> QED
  BY <1>1 DEF LedgerInv, RequestsInv, RowsInv, GrantsComeWithApproval, Booked

\* A step that writes only grants no other transaction holds.
LEMMA GrantsKept ==
  ASSUME LedgerInv, TypeOK', NEW u \in Users, OthersStand(u), GrantStands(u)',
         VersionsTell, BookedStay,
         \A g \in Grants : HoldsGrant(u, g)' => HoldsGrant(u, g) \/ GrantFree(u, g),
         \A g \in Grants : GrantFree(u, g) \/ version'[g] = version[g]
  PROVE  GrantsInv'
<1> USE DEF LedgerInv
<1>1. ASSUME NEW v \in Users \ {u}, NEW g \in Grants
      PROVE  HoldsGrant(v, g)' <=> HoldsGrant(v, g)
  BY BookedHaveGrants DEF OthersStand, HoldsGrant, BookedStay
<1>2. GrantsExclude'
  <2> SUFFICES ASSUME NEW v \in Users, NEW w \in Users, NEW g \in Grants,
                      HoldsGrant(v, g)', HoldsGrant(w, g)'
               PROVE  v = w
    BY DEF GrantsExclude
  <2>1. CASE v # u /\ w # u
    BY <1>1, <2>1 DEF GrantsInv, GrantsExclude
  <2>2. CASE v = u \/ w = u
    BY <1>1, <2>2 DEF GrantsInv, GrantsExclude, GrantFree
  <2> QED
    BY <2>1, <2>2
<1>3. ASSUME NEW v \in Users \ {u}
      PROVE  GrantStands(v)'
  <2>1. txn'[v] = txn[v] /\ GrantStands(v)
    BY DEF OthersStand, GrantsInv
  <2>2. CASE txn[v].at = "approving"
    <3>1. PICK g \in Grants, n \in Nat, spare \in BOOLEAN :
            txn[v].grant = g /\ txn[v].seen = n /\ txn[v].spare = spare
      BY <2>2, TxnFields DEF RequestsInv
    <3>2. version[g] \in Nat /\ version'[g] \in Nat
      BY DEF RequestsInv, TypeOK
    <3>3. /\ n <= version[g] /\ version[g] <= version'[g]
          /\ version[g] = n => (spare <=> Spare(g))
      BY <2>1, <2>2, <3>1 DEF GrantStands, VersionsTell
    <3>4. version'[g] = n => version'[g] = version[g] /\ version[g] = n
      BY <3>2, <3>3
    <3>5. version'[g] = version[g] => (Spare(g)' <=> Spare(g))
      BY DEF VersionsTell, Spare
    <3>6. n <= version'[g]
      BY <3>2, <3>3
    <3>7. version'[g] = n => (spare <=> Spare(g)')
      BY <3>3, <3>4, <3>5, Zenon
    <3> QED
      BY <2>1, <2>2, <3>1, <3>6, <3>7 DEF GrantStands, Spare
  <2>3. CASE txn[v].at = "holding"
    <3>1. PICK g \in Grants, beyond \in BOOLEAN : txn[v].grant = g /\ txn[v].beyond = beyond
      BY <2>3, TxnFields DEF RequestsInv
    <3>2. version'[g] = version[g]
      BY <2>3, <3>1 DEF GrantFree, HoldsGrant
    <3>3. Spare(g)' <=> Spare(g)
      BY <3>2 DEF VersionsTell, Spare
    <3>4. beyond <=> ~Spare(g)
      BY <2>1, <2>3, <3>1 DEF GrantStands
    <3>5. beyond <=> ~Spare(g)'
      BY <3>3, <3>4
    <3> QED
      BY <2>1, <2>3, <3>1, <3>5 DEF GrantStands, Spare
  <2>4. CASE txn[v].at \in {"reversing", "released"}
    <3>1. txn[v].week \in Weeks /\ Booked(txn[v].week)
      BY <2>4, BookedHaveGrants
    <3>2. Booked(txn[v].week)'
      BY <2>1, <3>1 DEF BookedStay, Booked
    <3> QED
      BY <2>1, <2>4, <3>2 DEF GrantStands
  <2>5. CASE txn[v].at \notin {"approving", "holding", "reversing", "released"}
    BY <2>1, <2>5 DEF GrantStands
  <2> QED
    BY <2>2, <2>3, <2>4, <2>5
<1> QED
  BY <1>2, <1>3 DEF GrantsInv

\* A transaction that is past its grant, or not there yet.
LEMMA NoGrantHeld ==
  ASSUME NEW u \in Users, txn'[u].at \notin {"approving", "holding", "reversing", "released"}
  PROVE  GrantStands(u)' /\ \A g \in Grants : ~HoldsGrant(u, g)'
BY DEF GrantStands, HoldsGrant
-----------------------------------------------------------------------------
Given == Ledger!LedgerNext \/ UNCHANGED Ledger!ledger

LEMMA NothingGiven ==
  ASSUME Live' = Live, grantOf' = grantOf, isOverride' = isOverride
  PROVE  Given
<1>1. Live' \intersect isOverride' = Live \intersect isOverride
      /\ Live' \ isOverride' = Live \ isOverride
  OBVIOUS
<1> QED
  BY <1>1 DEF Given, Ledger!ledger

\* A step that writes no grant.
LEMMA UntouchedKeep ==
  ASSUME LedgerInv, RequestsInv', NEW u \in Users, OthersStand(u),
         UNCHANGED <<grantVars, grantOf, isOverride>>, Live' = Live, BookedStay,
         GrantStands(u)',
         \A g \in Grants : HoldsGrant(u, g)' => HoldsGrant(u, g) \/ GrantFree(u, g)
  PROVE  LedgerInv' /\ Given
<1>1. VersionsTell /\ \A g \in Grants : version'[g] = version[g]
  BY DEF VersionsTell, grantVars, LedgerInv, RequestsInv, TypeOK
<1>2. GrantsInv'
  BY <1>1, GrantsKept DEF RequestsInv
<1> QED
  BY <1>2, NothingGiven DEF LedgerInv

LEMMA ReadsGive ==
  ASSUME LedgerInv, RequestsInv', NEW u \in Users, OthersStand(u), Reads, GrantStands(u)',
         \A g \in Grants : HoldsGrant(u, g)' => HoldsGrant(u, g) \/ GrantFree(u, g)
  PROVE  LedgerInv' /\ Given
BY UntouchedKeep DEF Reads, selectionVars, Live, BookedStay, Booked

LEMMA PlainReadsGive ==
  ASSUME LedgerInv, RequestsInv', NEW u \in Users,
         \/ \E items \in SUBSET Plain, decision \in Outcomes : BeginBatch(u, items, decision)
         \/ \E w \in Weeks : BeginWithdrawal(u, w)
         \/ \E w \in Weeks, k \in Keys : BeginDenial(u, w, k)
         \/ \E k \in RoundKeys : AskRound(u, k)
         \/ \E r \in Plain : DecideItem(u, r)
         \/ LeaveWeek(u)
         \/ \E d \in Drafts : ListRound(u, d)
         \/ BookFirst(u)
         \/ \E w \in Weeks : CommitWeek(u, w)
         \/ BeginSweep(u)
         \/ Rollback(u)
  PROVE  LedgerInv' /\ Given
<1> USE DEF LedgerInv, RequestsInv, TypeOK
<1>1. OthersStand(u) /\ Reads
  BY DEF BeginBatch, BeginWithdrawal, BeginDenial, AskRound, DecideItem, LeaveWeek, ListRound,
         BookFirst, CommitWeek, BeginSweep, Rollback, OthersStand, Step, Reads
<1>2. txn'[u].at \notin {"approving", "holding", "reversing", "released"}
  <2>0. ASSUME NEW t, Step(u, t) PROVE txn'[u] = t
    BY <2>0 DEF Step
  <2>1. ASSUME NEW items \in SUBSET Plain, NEW decision \in Outcomes,
               BeginBatch(u, items, decision)
        PROVE  txn'[u].at = "batch"
    BY <2>0, <2>1 DEF BeginBatch
  <2>4. ASSUME NEW w \in Weeks, BeginWithdrawal(u, w) PROVE txn'[u].at = "leaving"
    BY <2>0, <2>4 DEF BeginWithdrawal
  <2>5. ASSUME NEW w \in Weeks, NEW k \in Keys, BeginDenial(u, w, k)
        PROVE  txn'[u].at = "denying"
    BY <2>0, <2>5 DEF BeginDenial
  <2>6. ASSUME NEW k \in RoundKeys, AskRound(u, k) PROVE txn'[u].at = "asking"
    BY <2>0, <2>6 DEF AskRound
  <2>7. ASSUME LeaveWeek(u) PROVE txn'[u].at = "left"
    BY <2>0, <2>7 DEF LeaveWeek
  <2>8. ASSUME NEW d \in Drafts, ListRound(u, d) PROVE txn'[u].at = "round"
    BY <2>0, <2>8 DEF ListRound
  <2>9. ASSUME BeginSweep(u) PROVE txn'[u].at = "sweeping"
    BY <2>0, <2>9 DEF BeginSweep
  <2>10. ASSUME Rollback(u) PROVE txn'[u].at = "idle"
    BY <2>0, <2>10 DEF Rollback, Idle
  <2>2. ASSUME NEW r \in Plain, DecideItem(u, r)
        PROVE  txn'[u].at = "batch"
    <3>1. txn[u] \in [at : {"batch"}, as : Outcomes, todo : SUBSET Plain, done : SUBSET Plain]
      BY <2>2, TxnFields DEF DecideItem
    <3> QED
      BY <2>2, <3>1 DEF DecideItem
  <2>3. CASE BookFirst(u) \/ \E w \in Weeks : CommitWeek(u, w)
    <3>1. txn[u] \in [at : {"round", "booking"}, key : RoundKeys, draft : Drafts,
                      todo : SUBSET Weeks, done : SUBSET Weeks]
      BY <2>3, TxnFields DEF BookFirst, CommitWeek
    <3>2. CASE BookFirst(u)
      BY <3>1, <3>2 DEF BookFirst
    <3>3. ASSUME NEW w \in Weeks, CommitWeek(u, w) PROVE txn'[u].at = "booking"
      BY <3>1, <3>3 DEF CommitWeek
    <3> QED
      BY <2>3, <3>2, <3>3
  <2> QED
    BY <2>1, <2>2, <2>3, <2>4, <2>5, <2>6, <2>7, <2>8, <2>9, <2>10
<1> QED
  BY <1>1, <1>2, NoGrantHeld, ReadsGive

LEMMA GrantReadsGive ==
  ASSUME LedgerInv, RequestsInv', NEW u \in Users,
         \/ \E w \in Weeks, k \in Keys, g \in Grants : BeginApproval(u, w, k, g)
         \/ TakeUnit(u)
         \/ \E w \in Weeks : BeginReversal(u, w)
         \/ ReleaseUnit(u)
  PROVE  LedgerInv' /\ Given
<1> USE DEF LedgerInv, RequestsInv
<1>1. ASSUME NEW w \in Weeks, NEW k \in Keys, NEW g \in Grants, BeginApproval(u, w, k, g)
      PROVE  LedgerInv' /\ Given
  <2> DEFINE spare == consumed[g] < Entitlement[g] + override[g]
             t == [at |-> "approving", week |-> w, key |-> k, as |-> "approved", grant |-> g,
                   seen |-> version[g], spare |-> spare]
  <2>1. txn'[u] = t /\ OthersStand(u) /\ Reads
    BY <1>1, StepFields DEF BeginApproval, Reads
  <2>2. version'[g] = version[g] /\ version[g] \in Nat /\ (Spare(g)' <=> spare)
    BY <2>1 DEF Reads, grantVars, TypeOK, Spare
  <2>3. /\ txn'[u].at = "approving" /\ txn'[u].grant = g /\ txn'[u].seen = version[g]
        /\ txn'[u].spare = spare
    BY <2>1
  <2> HIDE DEF spare, t
  <2>4. GrantStands(u)'
    BY <2>2, <2>3 DEF GrantStands, Spare
  <2>5. \A h \in Grants : ~HoldsGrant(u, h)'
    BY <2>3 DEF HoldsGrant
  <2> QED
    BY <2>1, <2>4, <2>5, ReadsGive
<1>2. CASE TakeUnit(u)
  <2>1. PICK g \in Grants, spare \in BOOLEAN :
          txn[u].grant = g /\ txn[u].spare = spare /\ txn[u].at = "approving"
    BY <1>2, TxnFields DEF TakeUnit
  <2> DEFINE t == [at |-> "holding", week |-> txn[u].week, key |-> txn[u].key,
                   as |-> "approved", grant |-> g, beyond |-> ~spare]
  <2>2. GrantFree(u, g) /\ version[g] = txn[u].seen /\ Step(u, t) /\ Reads
    BY <1>2, <2>1 DEF TakeUnit, AsRead, Reads
  <2>3. txn'[u] = t /\ OthersStand(u)
    BY <2>2, StepFields
  <2>4. txn'[u].at = "holding" /\ txn'[u].grant = g /\ txn'[u].beyond = ~spare
    BY <2>3
  <2> HIDE DEF t
  <2>5. spare <=> Spare(g)
    BY <2>1, <2>2 DEF GrantsInv, GrantStands
  <2>6. Spare(g)' <=> Spare(g)
    BY <2>2 DEF Reads, grantVars, Spare
  <2>7. ~spare <=> ~Spare(g)'
    BY <2>5, <2>6
  <2>8. GrantStands(u)'
    BY <2>4, <2>7 DEF GrantStands, Spare
  <2>9. \A h \in Grants : HoldsGrant(u, h)' => h = g
    BY <2>4 DEF HoldsGrant
  <2> QED
    BY <2>2, <2>3, <2>8, <2>9, ReadsGive
<1>3. ASSUME NEW w \in Weeks, BeginReversal(u, w)
      PROVE  LedgerInv' /\ Given
  <2> DEFINE t == [at |-> "reversing", week |-> w, seen |-> version[grantOf[w]]]
  <2>1. txn'[u] = t /\ OthersStand(u) /\ Reads
    BY <1>3, StepFields DEF BeginReversal, Reads
  <2>2. txn'[u].at = "reversing" /\ txn'[u].week = w
    BY <2>1
  <2>3. Booked(w)'
    BY <1>3 DEF BeginReversal, Booked, selectionVars
  <2> HIDE DEF t
  <2>4. GrantStands(u)' /\ \A h \in Grants : ~HoldsGrant(u, h)'
    BY <2>2, <2>3 DEF GrantStands, HoldsGrant, Booked
  <2> QED
    BY <2>1, <2>4, ReadsGive
<1>4. CASE ReleaseUnit(u)
  <2>1. PICK w \in Weeks : txn[u].week = w /\ Booked(w) /\ grantOf[w] \in Grants
    BY <1>4, BookedHaveGrants DEF ReleaseUnit
  <2> DEFINE t == [at |-> "released", week |-> w]
  <2>2. GrantFree(u, grantOf[w]) /\ Step(u, t) /\ Reads
    BY <1>4, <2>1 DEF ReleaseUnit, Reads
  <2>3. txn'[u] = t /\ OthersStand(u)
    BY <2>2, StepFields
  <2>4. txn'[u].at = "released" /\ txn'[u].week = w
    BY <2>3
  <2> HIDE DEF t
  <2>5. Booked(w)' /\ grantOf' = grantOf
    BY <2>1, <2>2 DEF Reads, selectionVars, Booked
  <2>6. GrantStands(u)'
    BY <2>4, <2>5 DEF GrantStands, Booked
  <2>7. \A h \in Grants : HoldsGrant(u, h)' => h = grantOf[w]
    BY <2>4, <2>5 DEF HoldsGrant
  <2> QED
    BY <2>2, <2>3, <2>6, <2>7, ReadsGive
<1> QED
  BY <1>1, <1>2, <1>3, <1>4

LEMMA CommitsGive ==
  ASSUME LedgerInv, RequestsInv', NEW u \in Users,
         \/ \E r \in Plain, late \in BOOLEAN : submitRequest(u, r, late)
         \/ \E r \in Plain : withdrawRequest(u, r) \/ reverseDecision(u, r)
         \/ CommitBatch(u)
         \/ CommitSweep(u)
         \/ \E w \in Weeks, late \in BOOLEAN : submitVacationSelection(u, w, late)
         \/ denyVacationSelection(u)
         \/ CommitRound(u)
  PROVE  LedgerInv' /\ Given
<1> USE DEF LedgerInv, RequestsInv
<1>1. UNCHANGED <<grantVars, grantOf, isOverride>>
  BY DEF submitRequest, withdrawRequest, reverseDecision, CommitBatch, CommitSweep,
         submitVacationSelection, denyVacationSelection, CommitRound, selectionVars
<1>2. OthersStand(u) /\ txn'[u] = Idle
  <2>1. CASE CommitBatch(u) \/ CommitSweep(u) \/ denyVacationSelection(u) \/ CommitRound(u)
    BY <2>1, StepFields
       DEF CommitBatch, CommitSweep, denyVacationSelection, CommitRound, Commit
  <2>2. CASE \/ \E r \in Plain, late \in BOOLEAN : submitRequest(u, r, late)
             \/ \E r \in Plain : withdrawRequest(u, r) \/ reverseDecision(u, r)
             \/ \E w \in Weeks, late \in BOOLEAN : submitVacationSelection(u, w, late)
    BY <2>2 DEF submitRequest, withdrawRequest, reverseDecision, submitVacationSelection,
                OthersStand
  <2> QED
    BY <2>1, <2>2
<1>3. Live' = Live /\ BookedStay
  <2>1. CASE \/ \E r \in Plain, late \in BOOLEAN : submitRequest(u, r, late)
             \/ \E r \in Plain : withdrawRequest(u, r) \/ reverseDecision(u, r)
             \/ CommitBatch(u) \/ CommitSweep(u)
    BY <2>1 DEF submitRequest, withdrawRequest, reverseDecision, CommitBatch, CommitSweep,
                selectionVars, Live, BookedStay, Booked
  <2>2. ASSUME NEW w \in Weeks, NEW late \in BOOLEAN, submitVacationSelection(u, w, late)
        PROVE  Live' = Live /\ BookedStay
    <3>1. /\ selection[w] = "available" /\ grantOf' = grantOf
          /\ \A x \in Weeks : selection'[x] = IF x = w THEN "pending" ELSE selection[x]
      BY <2>2 DEF submitVacationSelection, TypeOK
    <3> QED
      BY <3>1 DEF Live, BookedStay, Booked
  <2>3. ASSUME denyVacationSelection(u)
        PROVE  Live' = Live /\ BookedStay
    <3>1. PICK w \in Weeks : txn[u].week = w /\ txn[u].as = "denied"
      BY <2>3, TxnFields DEF denyVacationSelection
    <3>2. /\ selection[w] = "pending" /\ grantOf' = grantOf
          /\ \A x \in Weeks : selection'[x] = IF x = w THEN "denied" ELSE selection[x]
      BY <2>3, <3>1 DEF denyVacationSelection, Decides, TypeOK
    <3> QED
      BY <3>2 DEF Live, BookedStay, Booked
  <2>4. ASSUME CommitRound(u)
        PROVE  Live' = Live /\ BookedStay
    <3>1. PICK done \in SUBSET Weeks : txn[u].done = done /\ txn[u].at = "booking"
      BY <2>4, TxnFields DEF CommitRound
    <3>2. \A w \in done : selection[w] = "approved"
      BY <3>1 DEF LocksInv, RowsStand
    <3>3. /\ grantOf' = grantOf
          /\ \A x \in Weeks : selection'[x] = IF x \in done THEN "committed" ELSE selection[x]
      BY <2>4, <3>1 DEF CommitRound
    <3> QED
      BY <3>2, <3>3 DEF Live, BookedStay, Booked
  <2> QED
    BY <2>1, <2>2, <2>3, <2>4
<1>4. txn'[u].at \notin {"approving", "holding", "reversing", "released"}
  BY <1>2 DEF Idle
<1> QED
  BY <1>1, <1>2, <1>3, <1>4, NoGrantHeld, UntouchedKeep
-----------------------------------------------------------------------------
(* The steps that take a unit or give it back.                              *)

Within(g) == {w \in Live \ isOverride : grantOf[w] = g}

LEMMA GiveBackGives ==
  ASSUME LedgerInv, NEW w \in Live, NEW h \in Grants, grantOf[w] = h,
         Live' = Live \ {w}, grantOf' = grantOf,
         \A v \in Live \ {w} : v \in isOverride' <=> v \in isOverride
  PROVE  Given
<1>1. w \in Weeks /\ w \in Within(h) \union HeldBeyond(h)
  BY DEF Live, Within, HeldBeyond
<1>2. w \in Ledger!Holding
  BY <1>1 DEF Ledger!Holding, Within, HeldBeyond
<1>3. ASSUME NEW g \in Grants
      PROVE  Within(g)' = Within(g) \ {w} /\ HeldBeyond(g)' = HeldBeyond(g) \ {w}
  BY DEF Within, HeldBeyond
<1>4. {v \in Weeks : grantOf'[v] # NoGrant /\ v \notin Live'}
        = {v \in Weeks : grantOf[v] # NoGrant /\ v \notin Live} \union {w}
  BY <1>1, RequestsAssumption
<1>5. /\ [g \in Grants |-> Within(g)'] = [g \in Grants |-> Within(g) \ {w}]
      /\ [g \in Grants |-> HeldBeyond(g)'] = [g \in Grants |-> HeldBeyond(g) \ {w}]
  BY <1>3
<1>6. Ledger!GiveBack(w)
  BY <1>2, <1>4, <1>5 DEF Ledger!GiveBack, Within, HeldBeyond
<1> QED
  BY <1>1, <1>6 DEF Given, Ledger!LedgerNext

\* A unit is to spare in the counters if and only if the ledger has one.
LEMMA SpareIsWithin ==
  ASSUME LedgerInv, NEW g \in Grants
  PROVE  Spare(g) <=> Cardinality(Within(g)) < Entitlement[g]
<1>1. /\ Within(g) = Held(g) \ HeldBeyond(g)
      /\ Held(g) \intersect HeldBeyond(g) = HeldBeyond(g)
  BY DEF Within, Held, HeldBeyond
<1>2. Cardinality(Within(g)) = Cardinality(Held(g)) - Cardinality(HeldBeyond(g))
  BY <1>1, HeldIsFinite, FS_Difference
<1>3. consumed[g] = Cardinality(Held(g)) /\ override[g] = Cardinality(HeldBeyond(g))
  BY DEF LedgerInv, RequestsInv, RowsInv, UnitsMatchSelections, Held, HeldBeyond
<1>4. consumed[g] \in Nat /\ override[g] \in Nat /\ Entitlement[g] \in Nat
  BY RequestsAssumption DEF LedgerInv, RequestsInv, TypeOK
<1> QED
  BY <1>2, <1>3, <1>4 DEF Spare

\* An instance has a Cardinality of its own, of the same definition.
LEMMA SameCardinality == ASSUME NEW S PROVE Ledger!Cardinality(S) = Cardinality(S)
BY DEF Ledger!Cardinality, Cardinality, Ledger!IsFiniteSet, IsFiniteSet

LEMMA TakeGives ==
  ASSUME LedgerInv, NEW w \in Weeks \ Live, NEW g \in Grants, NEW beyond \in BOOLEAN,
         grantOf[w] = NoGrant, w \notin isOverride, beyond <=> ~Spare(g),
         Live' = Live \union {w}, grantOf' = [grantOf EXCEPT ![w] = g],
         isOverride' = IF beyond THEN isOverride \union {w} ELSE isOverride
  PROVE  Given
<1> USE DEF LedgerInv, RequestsInv
<1>1. \A v \in Weeks : grantOf'[v] = IF v = w THEN g ELSE grantOf[v]
  BY DEF TypeOK
<1>2. w \notin Ledger!Holding
  BY DEF Ledger!Holding
<1>3. /\ w \notin {v \in Weeks : grantOf[v] # NoGrant /\ v \notin Live}
      /\ {v \in Weeks : grantOf'[v] # NoGrant /\ v \notin Live'}
           = {v \in Weeks : grantOf[v] # NoGrant /\ v \notin Live}
  BY <1>1
<1> DEFINE within == [h \in Grants |-> Within(h)]
           within_ == [h \in Grants |-> Within(h)']
           past == [h \in Grants |-> HeldBeyond(h)]
           past_ == [h \in Grants |-> HeldBeyond(h)']
<1>4. CASE beyond
  <2>1. ASSUME NEW h \in Grants
        PROVE  /\ Within(h)' = Within(h)
               /\ HeldBeyond(h)' = IF h = g THEN HeldBeyond(h) \union {w} ELSE HeldBeyond(h)
    <3>1. Live' \ isOverride' = Live \ isOverride
          /\ Live' \intersect isOverride' = (Live \intersect isOverride) \union {w}
      BY <1>4
    <3>2. \A v \in Live : v \in Weeks /\ v # w
      BY DEF Live
    <3> QED
      BY <1>1, <3>1, <3>2 DEF Within, HeldBeyond
  <2>2. within_ = within /\ past_ = [past EXCEPT ![g] = past[g] \union {w}]
    BY <2>1
  <2>3. Cardinality(within[g]) >= Entitlement[g]
    <3>1. ~(Cardinality(Within(g)) < Entitlement[g])
      BY <1>4, SpareIsWithin
    <3>2. Cardinality(Within(g)) \in Nat /\ Entitlement[g] \in Nat
      <4>1. Within(g) \in SUBSET Weeks
        BY DEF Within, Live
      <4> QED
        BY <4>1, RequestsAssumption, FS_Subset, FS_CardinalityType
    <3> QED
      BY <3>1, <3>2
  <2>4. Ledger!TakeBeyond(w, g)
    <3>1. w \notin Ledger!Holding \union {v \in Weeks : grantOf[v] # NoGrant /\ v \notin Live}
      BY <1>2, <1>3
    <3> QED
      BY <1>3, <2>2, <2>3, <3>1, SameCardinality DEF Ledger!TakeBeyond, Within, HeldBeyond
  <2> QED
    BY <2>4 DEF Given, Ledger!LedgerNext
<1>5. CASE ~beyond
  <2>1. ASSUME NEW h \in Grants
        PROVE  /\ Within(h)' = IF h = g THEN Within(h) \union {w} ELSE Within(h)
               /\ HeldBeyond(h)' = HeldBeyond(h)
    <3>1. Live' \ isOverride' = (Live \ isOverride) \union {w}
          /\ Live' \intersect isOverride' = Live \intersect isOverride
      BY <1>5
    <3>2. \A v \in Live : v \in Weeks /\ v # w
      BY DEF Live
    <3> QED
      BY <1>1, <3>1, <3>2 DEF Within, HeldBeyond
  <2>2. past_ = past /\ within_ = [within EXCEPT ![g] = within[g] \union {w}]
    BY <2>1
  <2>3. Cardinality(within[g]) < Entitlement[g]
    BY <1>5, SpareIsWithin
  <2>4. Ledger!Take(w, g)
    <3>1. w \notin Ledger!Holding \union {v \in Weeks : grantOf[v] # NoGrant /\ v \notin Live}
      BY <1>2, <1>3
    <3> QED
      BY <1>3, <2>2, <2>3, <3>1, SameCardinality DEF Ledger!Take, Within, HeldBeyond
  <2> QED
    BY <2>4 DEF Given, Ledger!LedgerNext
<1> QED
  BY <1>4, <1>5

\* A commit that changes counters of one grant that no other transaction has.
LEMMA CountersKept ==
  ASSUME LedgerInv, RequestsInv', NEW u \in Users, OthersStand(u), txn'[u] = Idle, BookedStay,
         NEW h \in Grants, GrantFree(u, h), version'[h] > version[h],
         \A g \in Grants \ {h} : /\ version'[g] = version[g]
                                 /\ consumed'[g] = consumed[g] /\ override'[g] = override[g]
  PROVE  LedgerInv'
<1>1. \A g \in Grants : version[g] \in Nat /\ version'[g] \in Nat
  BY DEF LedgerInv, RequestsInv, TypeOK
<1>2. VersionsTell
  BY <1>1 DEF VersionsTell
<1>3. txn'[u].at \notin {"approving", "holding", "reversing", "released"}
  BY DEF Idle
<1> QED
  BY <1>2, <1>3, NoGrantHeld, GrantsKept DEF LedgerInv, RequestsInv

LEMMA ReleaseCounts ==
  ASSUME RequestsInv, NEW w \in Weeks, NEW h \in Grants, grantOf[w] = h, Release(w)
  PROVE  /\ version'[h] > version[h]
         /\ \A g \in Grants \ {h} : /\ version'[g] = version[g]
                                    /\ consumed'[g] = consumed[g]
                                    /\ override'[g] = override[g]
BY DEF Release, RequestsInv, TypeOK

LEMMA WithdrawalGives ==
  ASSUME LedgerInv, RequestsInv', NEW u \in Users, CommitWithdrawal(u)
  PROVE  LedgerInv' /\ Given
<1> USE DEF LedgerInv, RequestsInv
<1>1. PICK w \in Weeks, g \in Grants \union {NoGrant} :
        /\ txn[u].week = w /\ txn[u].grant = g
        /\ grantOf[w] = g /\ selection[w] \in {"pending", "approved"}
  BY TxnFields DEF CommitWithdrawal, LocksInv, RowsStand
<1>2. OthersStand(u) /\ txn'[u] = Idle
  BY StepFields DEF CommitWithdrawal, Commit
<1>3. /\ grantOf' = grantOf /\ isOverride' = isOverride
      /\ \A x \in Weeks : selection'[x] = IF x = w THEN "withdrawn" ELSE selection[x]
  BY <1>1 DEF CommitWithdrawal, TypeOK
<1>4. BookedStay
  BY <1>1, <1>3 DEF BookedStay, Booked
<1>5. CASE g = NoGrant
  <2>1. selection[w] = "pending"
    BY <1>1, <1>5, RequestsAssumption DEF RowsInv, GrantsComeWithApproval
  <2>2. Live' = Live
    BY <1>3, <2>1 DEF Live
  <2>3. UNCHANGED grantVars
    BY <1>1, <1>5 DEF CommitWithdrawal
  <2>4. txn'[u].at \notin {"approving", "holding", "reversing", "released"}
    BY <1>2 DEF Idle
  <2> QED
    BY <1>2, <1>3, <1>4, <2>2, <2>3, <2>4, NoGrantHeld, UntouchedKeep
<1>6. CASE g # NoGrant
  <2>1. g \in Grants /\ GrantFree(u, g) /\ Release(w)
    BY <1>1, <1>6 DEF CommitWithdrawal
  <2>2. w \in Live /\ Live' = Live \ {w}
    BY <1>1, <1>3, <1>6 DEF Live, RowsInv, GrantsComeWithApproval
  <2>3. LedgerInv'
    BY <1>1, <1>2, <1>4, <2>1, ReleaseCounts, CountersKept
  <2>4. Given
    BY <1>1, <1>3, <2>1, <2>2, GiveBackGives
  <2> QED
    BY <2>3, <2>4
<1> QED
  BY <1>5, <1>6

LEMMA ReversalGives ==
  ASSUME LedgerInv, RequestsInv', NEW u \in Users, reverseVacationCommit(u)
  PROVE  LedgerInv' /\ Given
<1> USE DEF LedgerInv, RequestsInv
<1>1. PICK w \in Weeks, h \in Grants :
        /\ txn[u].week = w /\ grantOf[w] = h /\ txn[u].at = "released"
  BY BookedHaveGrants DEF reverseVacationCommit
<1>2. OthersStand(u) /\ txn'[u] = Idle
  BY StepFields DEF reverseVacationCommit, Commit
<1>3. /\ selection[w] = "committed" /\ Release(w)
      /\ grantOf' = grantOf /\ isOverride' = isOverride \union {w}
      /\ \A x \in Weeks : selection'[x] = IF x = w THEN "reversed" ELSE selection[x]
  BY <1>1 DEF reverseVacationCommit, TypeOK
<1>4. BookedStay
  BY <1>3 DEF BookedStay, Booked
<1>5. w \in Live /\ Live' = Live \ {w}
  BY <1>3 DEF Live
<1>6. GrantFree(u, h)
  BY <1>1 DEF GrantFree, GrantsInv, GrantsExclude, HoldsGrant
<1>7. LedgerInv'
  BY <1>1, <1>2, <1>3, <1>4, <1>6, ReleaseCounts, CountersKept
<1>8. Given
  BY <1>1, <1>3, <1>5, GiveBackGives
<1> QED
  BY <1>7, <1>8

LEMMA ApprovalGives ==
  ASSUME LedgerInv, RequestsInv', NEW u \in Users, approveVacationSelection(u)
  PROVE  LedgerInv' /\ Given
<1> USE DEF LedgerInv, RequestsInv
<1>1. PICK w \in Weeks, g \in Grants, beyond \in BOOLEAN :
        /\ txn[u].week = w /\ txn[u].grant = g /\ txn[u].beyond = beyond
        /\ txn[u].as = "approved" /\ txn[u].at = "holding"
  BY TxnFields DEF approveVacationSelection
<1>2. OthersStand(u) /\ txn'[u] = Idle
  BY StepFields DEF approveVacationSelection, Commit
<1>3. /\ selection[w] = "pending"
      /\ \A x \in Weeks : selection'[x] = IF x = w THEN "approved" ELSE selection[x]
  BY <1>1 DEF approveVacationSelection, Decides, TypeOK
<1>4. /\ consumed' = [consumed EXCEPT ![g] = @ + 1]
      /\ override' = [override EXCEPT ![g] = @ + IF beyond THEN 1 ELSE 0]
      /\ version' = [version EXCEPT ![g] = @ + 1 + IF beyond THEN 1 ELSE 0]
      /\ grantOf' = [grantOf EXCEPT ![w] = g]
      /\ isOverride' = IF beyond THEN isOverride \union {w} ELSE isOverride
  BY <1>1 DEF approveVacationSelection
<1>5. w \notin Live /\ Live' = Live \union {w} /\ grantOf[w] = NoGrant /\ w \notin isOverride
  BY <1>3 DEF Live, RowsInv, GrantsComeWithApproval
<1>6. BookedStay
  BY <1>3, <1>4 DEF BookedStay, Booked, TypeOK
<1>7. GrantFree(u, g)
  BY <1>1 DEF GrantFree, GrantsInv, GrantsExclude, HoldsGrant
<1>8. /\ version'[g] > version[g]
      /\ \A h \in Grants \ {g} : /\ version'[h] = version[h]
                                 /\ consumed'[h] = consumed[h] /\ override'[h] = override[h]
  BY <1>4 DEF TypeOK
<1>9. LedgerInv'
  BY <1>2, <1>6, <1>7, <1>8, CountersKept
<1>10. beyond <=> ~Spare(g)
  BY <1>1 DEF GrantsInv, GrantStands
<1>11. Given
  BY <1>4, <1>5, <1>10, TakeGives
<1> QED
  BY <1>9, <1>11
-----------------------------------------------------------------------------
LEMMA LedgerStep == LedgerInv /\ [Next]_vars => LedgerInv' /\ Given
<1> SUFFICES ASSUME LedgerInv, [Next]_vars
             PROVE  LedgerInv' /\ Given
  OBVIOUS
<1>1. RequestsInv'
  BY InvStep DEF LedgerInv
<1>2. ASSUME NEW u \in Users, Ask(u) PROVE LedgerInv' /\ Given
  <2>1. \/ \E items \in SUBSET Plain, decision \in Outcomes : BeginBatch(u, items, decision)
        \/ \E w \in Weeks : BeginWithdrawal(u, w)
        \/ \E w \in Weeks, k \in Keys : BeginDenial(u, w, k)
        \/ \E k \in RoundKeys : AskRound(u, k)
        => LedgerInv' /\ Given
    BY <1>1, PlainReadsGive
  <2>2. \/ \E w \in Weeks, k \in Keys, g \in Grants : BeginApproval(u, w, k, g)
        \/ \E w \in Weeks : BeginReversal(u, w)
        => LedgerInv' /\ Given
    BY <1>1, GrantReadsGive
  <2>3. \/ \E r \in Plain, late \in BOOLEAN : submitRequest(u, r, late)
        \/ \E r \in Plain : withdrawRequest(u, r) \/ reverseDecision(u, r)
        \/ \E w \in Weeks, late \in BOOLEAN : submitVacationSelection(u, w, late)
        => LedgerInv' /\ Given
    BY <1>1, CommitsGive
  <2> QED
    BY <1>2, <2>1, <2>2, <2>3 DEF Ask
<1>3. ASSUME NEW u \in Users, Write(u) PROVE LedgerInv' /\ Given
  <2>1. \/ \E r \in Plain : DecideItem(u, r)
        \/ LeaveWeek(u)
        \/ \E d \in Drafts : ListRound(u, d)
        \/ BookFirst(u)
        \/ \E w \in Weeks : CommitWeek(u, w)
        => LedgerInv' /\ Given
    BY <1>1, PlainReadsGive
  <2>2. TakeUnit(u) \/ ReleaseUnit(u) => LedgerInv' /\ Given
    BY <1>1, GrantReadsGive
  <2>3. CommitBatch(u) \/ denyVacationSelection(u) \/ CommitRound(u) => LedgerInv' /\ Given
    BY <1>1, CommitsGive
  <2>4. CommitWithdrawal(u) \/ approveVacationSelection(u) \/ reverseVacationCommit(u)
        => LedgerInv' /\ Given
    BY <1>1, WithdrawalGives, ApprovalGives, ReversalGives
  <2> QED
    BY <1>3, <2>1, <2>2, <2>3, <2>4 DEF Write
<1>4. ASSUME NEW u \in Users, BeginSweep(u) \/ CommitSweep(u) \/ Rollback(u)
      PROVE  LedgerInv' /\ Given
  BY <1>1, <1>4, PlainReadsGive, CommitsGive
<1>5. CASE (\E r \in Requests : DeadlinePasses(r)) \/ UNCHANGED vars
  <2>1. UNCHANGED <<selectionVars, grantVars, txn>>
    BY <1>5 DEF DeadlinePasses, vars
  <2>2. GrantsInv'
    BY <2>1 DEF LedgerInv, GrantsInv, GrantsExclude, GrantStands, HoldsGrant, Spare, Booked,
                selectionVars, grantVars
  <2>3. Given
    BY <2>1, NothingGiven DEF Live, selectionVars
  <2> QED
    BY <1>1, <2>2, <2>3 DEF LedgerInv
<1> QED
  BY <1>2, <1>3, <1>4, <1>5 DEF Next

\* The counters implement the ledger: no week takes a unit twice or gives one
\* back twice, none is taken beyond what is left, and no override is given
\* while the grant has a unit to spare, whatever approvals, withdrawals and
\* reversals cross.
THEOREM RequestsImplementLedger == Spec => KeepsTheLedger
<1>1. Init => LedgerInv /\ Ledger!LedgerInit
  <2> SUFFICES ASSUME Init PROVE LedgerInv /\ Ledger!LedgerInit
    OBVIOUS
  <2>1. GrantsInv
    BY DEF Init, GrantsInv, GrantsExclude, GrantStands, HoldsGrant, Idle
  <2>2. Live = {} /\ \A w \in Weeks : grantOf[w] = NoGrant
    BY DEF Init, Live
  <2>3. Ledger!LedgerInit
    BY <2>2 DEF Ledger!LedgerInit
  <2> QED
    BY <2>1, <2>3, InvInit DEF LedgerInv
<1>2. LedgerInv /\ [Next]_vars => LedgerInv' /\ [Ledger!LedgerNext]_Ledger!ledger
  BY LedgerStep DEF Given
<1> QED
  BY <1>1, <1>2, PTL DEF Spec, KeepsTheLedger, Ledger!LedgerSpec
=============================================================================
