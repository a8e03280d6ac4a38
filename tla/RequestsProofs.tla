--------------------------- MODULE RequestsProofs ---------------------------
(***************************************************************************)
(* Proofs about Requests, for every number of users, requests, weeks,      *)
(* grants, keys and drafts: what the open transactions have locked stands, *)
(* and so the books of the quota, the statuses of the weeks' requests, the *)
(* log of decisions and the booked drafts agree with each other.           *)
(***************************************************************************)
EXTENDS Requests, FiniteSetTheorems, SequenceTheorems, TLAPS

-----------------------------------------------------------------------------
(* The inductive invariant: of the open transactions, and of the rows.      *)

RowsExclude == \A u, v \in Users : \A r \in Rows(u) \intersect Rows(v) : u = v

\* What a transaction read of the rows it locked.
RowsStand(u) ==
  /\ txn[u].at = "left" => /\ selection[txn[u].week] \in {"pending", "approved"}
                           /\ grantOf[txn[u].week] = txn[u].grant
  /\ txn[u].at = "booking" => \A w \in txn[u].done : selection[w] = "approved"
  /\ txn[u].at = "round" => txn[u].done = {}
  /\ txn[u].at = "batch" => \A r \in txn[u].done : status[r] = "submitted"
  /\ txn[u].at = "sweeping" => \A r \in txn[u].claimed : status[r] \in Expirable

LocksInv == RowsExclude /\ \A u \in Users : RowsStand(u)

\* A grant comes with an approval, and only then an override can.
GrantsComeWithApproval == \A w \in Weeks :
  /\ selection[w] \in {"available", "pending", "denied"} =>
       grantOf[w] = NoGrant /\ w \notin isOverride
  /\ selection[w] \in {"approved", "committed", "reversed"} => grantOf[w] \in Grants

\* A week has the key of a round that was committed.
KeysAreOfRounds == \A w \in Weeks : commitKey[w] \in rounds \union {NoKey}

RowsInv ==
  /\ GrantsComeWithApproval /\ UnitsMatchSelections
  /\ PairAgrees /\ DecisionsAreRecorded
  /\ KeysAreOfRounds /\ WeekIsBookedOnce

RequestsInv == TypeOK /\ LocksInv /\ RowsInv

OthersStand(u) == \A v \in Users \ {u} : txn'[v] = txn[v]

Reads == UNCHANGED <<requestVars, selectionVars, grantVars, commands, roundVars>>

\* What the step a transaction has reached says of its fields.
LEMMA TxnFields ==
  ASSUME TypeOK, NEW u \in Users
  PROVE  /\ txn[u] \in Txns
         /\ txn[u].at = "denying" =>
              txn[u] \in [at : {"denying"}, week : Weeks, key : Keys, as : {"denied"}]
         /\ txn[u].at = "approving" =>
              txn[u] \in [at : {"approving"}, week : Weeks, key : Keys, as : {"approved"},
                          grant : Grants, seen : Nat, spare : BOOLEAN]
         /\ txn[u].at = "holding" =>
              txn[u] \in [at : {"holding"}, week : Weeks, key : Keys, as : {"approved"},
                          grant : Grants, beyond : BOOLEAN]
         /\ txn[u].at = "leaving" =>
              txn[u] \in [at : {"leaving"}, week : Weeks, from : {"pending", "approved"}]
         /\ txn[u].at = "left" =>
              txn[u] \in [at : {"left"}, week : Weeks, grant : Grants \union {NoGrant},
                          seen : Nat]
         /\ txn[u].at = "asking" => txn[u] \in [at : {"asking"}, key : RoundKeys]
         /\ txn[u].at \in {"round", "booking"} =>
              txn[u] \in [at : {"round", "booking"}, key : RoundKeys, draft : Drafts,
                          todo : SUBSET Weeks, done : SUBSET Weeks]
         /\ txn[u].at = "reversing" =>
              txn[u] \in [at : {"reversing"}, week : Weeks, seen : Nat]
         /\ txn[u].at = "released" => txn[u] \in [at : {"released"}, week : Weeks]
         /\ txn[u].at = "batch" =>
              txn[u] \in [at : {"batch"}, as : Outcomes, todo : SUBSET Plain,
                          done : SUBSET Plain]
         /\ txn[u].at = "sweeping" =>
              txn[u] \in [at : {"sweeping"}, claimed : SUBSET Requests]
BY DEF TypeOK, Txns, Idle

LEMMA StepFields ==
  ASSUME TypeOK, NEW u \in Users, NEW t, Step(u, t)
  PROVE  txn'[u] = t /\ OthersStand(u)
BY DEF TypeOK, Step, OthersStand

LEMMA StepTyped ==
  ASSUME TypeOK, NEW u \in Users, NEW t \in Txns, Step(u, t)
  PROVE  txn' \in [Users -> Txns]
BY DEF TypeOK, Step

LEMMA ReadsTyped ==
  ASSUME TypeOK, Reads, txn' \in [Users -> Txns]
  PROVE  TypeOK'
BY DEF TypeOK, Reads, requestVars, selectionVars, grantVars, roundVars

LEMMA ReadsKeepRows ==
  ASSUME RowsInv, Reads
  PROVE  RowsInv'
<1> USE DEF Reads, requestVars, selectionVars, grantVars, roundVars
<1>1. GrantsComeWithApproval'
  BY DEF RowsInv, GrantsComeWithApproval
<1>2. UnitsMatchSelections'
  BY DEF RowsInv, UnitsMatchSelections, Live
<1>3. PairAgrees'
  BY DEF RowsInv, PairAgrees
<1>4. DecisionsAreRecorded'
  BY DEF RowsInv, DecisionsAreRecorded, Commanded
<1>5. WeekIsBookedOnce'
  BY DEF RowsInv, WeekIsBookedOnce
<1>6. KeysAreOfRounds'
  BY DEF RowsInv, KeysAreOfRounds
<1> QED
  BY <1>1, <1>2, <1>3, <1>4, <1>5, <1>6 DEF RowsInv

\* A step gains only rows that were free, and what the others locked stays.
LEMMA LocksKept ==
  ASSUME TypeOK, LocksInv, NEW u \in Users, OthersStand(u), RowsStand(u)',
         \A r \in Rows(u)' : r \in Rows(u) \/ RowFree(u, r),
         \A v \in Users \ {u} : \A r \in Rows(v) :
           /\ status'[r] = status[r]
           /\ r \in Weeks => selection'[r] = selection[r] /\ grantOf'[r] = grantOf[r]
  PROVE  LocksInv'
<1>1. ASSUME NEW v \in Users \ {u}
      PROVE  Rows(v)' = Rows(v)
  BY DEF OthersStand, Rows
<1>2. RowsExclude'
  BY <1>1 DEF LocksInv, RowsExclude, RowFree
<1>3. ASSUME NEW v \in Users \ {u}
      PROVE  RowsStand(v)'
  <2>1. txn'[v] = txn[v] /\ RowsStand(v)
    BY DEF OthersStand, LocksInv
  <2>2. txn[v].at = "left" => /\ selection'[txn[v].week] = selection[txn[v].week]
                              /\ grantOf'[txn[v].week] = grantOf[txn[v].week]
    BY TxnFields DEF Rows
  <2>3. txn[v].at = "booking" => \A w \in txn[v].done : selection'[w] = selection[w]
    BY TxnFields DEF Rows
  <2>4. txn[v].at = "batch" => \A r \in txn[v].done : status'[r] = status[r]
    BY DEF Rows
  <2>5. txn[v].at = "sweeping" => \A r \in txn[v].claimed : status'[r] = status[r]
    BY DEF Rows
  <2> QED
    BY <2>1, <2>2, <2>3, <2>4, <2>5 DEF RowsStand
<1> QED
  BY <1>2, <1>3 DEF LocksInv

LEMMA ReadsKeep ==
  ASSUME RequestsInv, Reads, NEW u \in Users, txn' \in [Users -> Txns], OthersStand(u),
         RowsStand(u)', \A r \in Rows(u)' : r \in Rows(u) \/ RowFree(u, r)
  PROVE  RequestsInv'
<1>1. LocksInv'
  BY LocksKept DEF RequestsInv, Reads, requestVars, selectionVars
<1> QED
  BY <1>1, ReadsTyped, ReadsKeepRows DEF RequestsInv

LEMMA IdleHolds ==
  ASSUME NEW u \in Users, txn'[u] = Idle
  PROVE  RowsStand(u)' /\ Rows(u)' = {}
BY DEF RowsStand, Rows, Idle
-----------------------------------------------------------------------------
(* Steps that read and lock.                                                *)

LEMMA AskReads ==
  ASSUME RequestsInv, NEW u \in Users,
         \/ \E items \in SUBSET Plain, decision \in Outcomes : BeginBatch(u, items, decision)
         \/ \E w \in Weeks : BeginWithdrawal(u, w) \/ BeginReversal(u, w)
         \/ \E w \in Weeks, k \in Keys, g \in Grants : BeginApproval(u, w, k, g)
         \/ \E w \in Weeks, k \in Keys : BeginDenial(u, w, k)
         \/ \E k \in RoundKeys : AskRound(u, k)
  PROVE  RequestsInv'
<1> USE DEF RequestsInv
<1>0. ASSUME NEW t \in Txns, Step(u, t), Reads,
             t.at \in {"batch", "leaving", "reversing", "approving", "denying", "asking"},
             t.at = "batch" => t.done = {}
      PROVE  RequestsInv'
  <2>1. txn'[u] = t /\ OthersStand(u) /\ txn' \in [Users -> Txns]
    BY <1>0, StepFields, StepTyped
  <2>2. Rows(u)' = {} /\ RowsStand(u)'
    BY <1>0, <2>1 DEF Rows, RowsStand
  <2> QED
    BY <1>0, <2>1, <2>2, ReadsKeep
<1>1. ASSUME NEW items \in SUBSET Plain, NEW decision \in Outcomes,
             BeginBatch(u, items, decision)
      PROVE  RequestsInv'
  <2> DEFINE t == [at |-> "batch", as |-> decision, todo |-> items, done |-> {}]
  <2>1. t \in Txns /\ t.at = "batch" /\ t.done = {}
    BY DEF Txns
  <2> QED
    BY <1>0, <1>1, <2>1 DEF BeginBatch, Reads
<1>2. ASSUME NEW w \in Weeks, BeginWithdrawal(u, w)
      PROVE  RequestsInv'
  <2> DEFINE t == [at |-> "leaving", week |-> w, from |-> selection[w]]
  <2>1. selection[w] \in {"pending", "approved"}
    BY <1>2 DEF BeginWithdrawal, SelectionTransitions
  <2>2. t \in Txns /\ t.at = "leaving"
    BY <2>1 DEF Txns
  <2> QED
    BY <1>0, <1>2, <2>2 DEF BeginWithdrawal, Reads
<1>3. ASSUME NEW w \in Weeks, BeginReversal(u, w)
      PROVE  RequestsInv'
  <2> DEFINE t == [at |-> "reversing", week |-> w, seen |-> version[grantOf[w]]]
  <2>1. grantOf[w] \in Grants
    BY <1>3 DEF BeginReversal, RowsInv, GrantsComeWithApproval
  <2>2. t \in Txns /\ t.at = "reversing"
    BY <2>1 DEF Txns, TypeOK
  <2> QED
    BY <1>0, <1>3, <2>2 DEF BeginReversal, Reads
<1>4. ASSUME NEW w \in Weeks, NEW k \in Keys, NEW g \in Grants, BeginApproval(u, w, k, g)
      PROVE  RequestsInv'
  <2> DEFINE t == [at |-> "approving", week |-> w, key |-> k, as |-> "approved", grant |-> g,
                   seen |-> version[g],
                   spare |-> consumed[g] < Entitlement[g] + override[g]]
  <2>1. version[g] \in Nat
    BY DEF TypeOK
  <2>2. t \in Txns /\ t.at = "approving"
    BY <2>1 DEF Txns
  <2> QED
    BY <1>0, <1>4, <2>2 DEF BeginApproval, Reads
<1>5. ASSUME NEW w \in Weeks, NEW k \in Keys, BeginDenial(u, w, k)
      PROVE  RequestsInv'
  <2> DEFINE t == [at |-> "denying", week |-> w, key |-> k, as |-> "denied"]
  <2>1. t \in Txns /\ t.at = "denying"
    BY DEF Txns
  <2> QED
    BY <1>0, <1>5, <2>1 DEF BeginDenial, Reads
<1>6. ASSUME NEW k \in RoundKeys, AskRound(u, k)
      PROVE  RequestsInv'
  <2> DEFINE t == [at |-> "asking", key |-> k]
  <2>1. t \in Txns /\ t.at = "asking"
    BY DEF Txns
  <2> QED
    BY <1>0, <1>6, <2>1 DEF AskRound, Reads
<1> QED
  BY <1>1, <1>2, <1>3, <1>4, <1>5, <1>6

LEMMA RollbackReads ==
  ASSUME RequestsInv, NEW u \in Users, Rollback(u)
  PROVE  RequestsInv'
<1> USE DEF RequestsInv
<1>1. txn'[u] = Idle /\ OthersStand(u) /\ txn' \in [Users -> Txns]
  BY StepFields, StepTyped DEF Rollback, Txns
<1> QED
  BY <1>1, IdleHolds, ReadsKeep DEF Rollback, Reads

LEMMA BatchReads ==
  ASSUME RequestsInv, NEW u \in Users, NEW r \in Plain, DecideItem(u, r)
  PROVE  RequestsInv'
<1> USE DEF RequestsInv
<1> DEFINE B == [at : {"batch"}, as : Outcomes, todo : SUBSET Plain, done : SUBSET Plain]
           skipped == [txn[u] EXCEPT !.todo = @ \ {r}]
           decided == [txn[u] EXCEPT !.todo = @ \ {r}, !.done = @ \union {r}]
<1>1. txn[u] \in B /\ txn[u].at = "batch"
  BY TxnFields DEF DecideItem
<1>2. skipped \in B /\ decided \in B
  BY <1>1
<1>3. skipped \in Txns /\ decided \in Txns
  BY <1>2 DEF Txns
<1>4. OthersStand(u) /\ txn' \in [Users -> Txns]
  BY <1>3 DEF DecideItem, TypeOK, OthersStand
<1>5. /\ txn'[u].at = "batch"
      /\ txn'[u].done = IF status[r] = "submitted" THEN txn[u].done \union {r}
                        ELSE txn[u].done
  <2>1. txn'[u] = IF status[r] = "submitted" THEN decided ELSE skipped
    BY DEF DecideItem, TypeOK
  <2>2. /\ skipped.at = "batch" /\ skipped.done = txn[u].done
        /\ decided.at = "batch" /\ decided.done = txn[u].done \union {r}
    BY <1>1
  <2> QED
    BY <2>1, <2>2
<1>6. Rows(u) = txn[u].done /\ Rows(u)' = txn'[u].done
  BY <1>1, <1>5 DEF Rows
<1>7. RowsStand(u) /\ UNCHANGED status
  BY DEF LocksInv, DecideItem, requestVars
<1>8. RowsStand(u)'
  BY <1>1, <1>5, <1>7 DEF RowsStand
<1> QED
  BY <1>4, <1>5, <1>6, <1>8, ReadsKeep DEF DecideItem, Reads

LEMMA SweepReads ==
  ASSUME RequestsInv, NEW u \in Users, BeginSweep(u)
  PROVE  RequestsInv'
<1> USE DEF RequestsInv
<1> DEFINE t == [at |-> "sweeping", claimed |-> Claims(u)]
<1>1. Claims(u) \subseteq Requests
  BY DEF Claims, TypeOK
<1>2. t \in Txns
  BY <1>1 DEF Txns
<1>3. Step(u, t)
  BY DEF BeginSweep
<1>4. txn'[u] = t /\ OthersStand(u)
  BY <1>3, StepFields
<1>5. txn' \in [Users -> Txns]
  BY <1>2, <1>3, StepTyped
<1>6. Rows(u)' = Claims(u) /\ \A r \in Claims(u) : RowFree(u, r) /\ status[r] \in Expirable
  BY <1>4 DEF Rows, Claims
<1>7. RowsStand(u)'
  BY <1>4, <1>6 DEF RowsStand, BeginSweep, requestVars
<1> QED
  BY <1>4, <1>5, <1>6, <1>7, ReadsKeep DEF BeginSweep, Reads

LEMMA WithdrawalReads ==
  ASSUME RequestsInv, NEW u \in Users, LeaveWeek(u)
  PROVE  RequestsInv'
<1> USE DEF RequestsInv
<1> DEFINE w == txn[u].week
           g == grantOf[w]
           t == [at |-> "left", week |-> w, grant |-> g,
                 seen |-> IF g = NoGrant THEN 0 ELSE version[g]]
<1>1. w \in Weeks /\ selection[w] \in {"pending", "approved"}
  BY TxnFields DEF LeaveWeek
<1>2. g \in Grants \union {NoGrant} /\ (g # NoGrant => version[g] \in Nat)
  BY <1>1 DEF TypeOK
<1>3. t \in Txns
  BY <1>1, <1>2 DEF Txns
<1>4. Step(u, t) /\ RowFree(u, w)
  BY DEF LeaveWeek
<1>5. txn'[u] = t /\ OthersStand(u)
  BY <1>4, StepFields
<1>6. txn' \in [Users -> Txns]
  BY <1>3, <1>4, StepTyped
<1>7. Rows(u)' = {w}
  BY <1>5 DEF Rows
<1>8. RowsStand(u)'
  BY <1>1, <1>5 DEF RowsStand, LeaveWeek, selectionVars
<1> QED
  BY <1>4, <1>5, <1>6, <1>7, <1>8, ReadsKeep DEF LeaveWeek, Reads

LEMMA ApprovalReads ==
  ASSUME RequestsInv, NEW u \in Users, TakeUnit(u) \/ ReleaseUnit(u)
  PROVE  RequestsInv'
<1> USE DEF RequestsInv
<1>1. ASSUME NEW t \in Txns, Step(u, t), t.at \in {"holding", "released"}
      PROVE  OthersStand(u) /\ txn' \in [Users -> Txns] /\ Rows(u)' = {} /\ RowsStand(u)'
  <2>1. txn'[u] = t /\ OthersStand(u) /\ txn' \in [Users -> Txns]
    BY <1>1, StepFields, StepTyped
  <2> QED
    BY <1>1, <2>1 DEF Rows, RowsStand
<1>2. CASE TakeUnit(u)
  <2> DEFINE t == [at |-> "holding", week |-> txn[u].week, key |-> txn[u].key,
                   as |-> "approved", grant |-> txn[u].grant, beyond |-> ~txn[u].spare]
  <2>1. /\ txn[u].week \in Weeks /\ txn[u].key \in Keys /\ txn[u].spare \in BOOLEAN
        /\ txn[u].grant \in Grants
    BY <1>2, TxnFields DEF TakeUnit
  <2>2. t \in Txns /\ t.at = "holding" /\ Step(u, t)
    BY <1>2, <2>1 DEF Txns, TakeUnit
  <2> QED
    BY <1>1, <1>2, <2>2, ReadsKeep DEF TakeUnit, Reads
<1>3. CASE ReleaseUnit(u)
  <2> DEFINE t == [at |-> "released", week |-> txn[u].week]
  <2>1. txn[u].week \in Weeks
    BY <1>3, TxnFields DEF ReleaseUnit
  <2>2. t \in Txns /\ t.at = "released" /\ Step(u, t)
    BY <1>3, <2>1 DEF Txns, ReleaseUnit
  <2> QED
    BY <1>1, <1>3, <2>2, ReadsKeep DEF ReleaseUnit, Reads
<1> QED
  BY <1>2, <1>3

LEMMA RoundReads ==
  ASSUME RequestsInv, NEW u \in Users,
         \/ \E d \in Drafts : ListRound(u, d)
         \/ BookFirst(u)
         \/ \E w \in Weeks : CommitWeek(u, w)
  PROVE  RequestsInv'
<1> USE DEF RequestsInv
<1> DEFINE R == [at : {"round", "booking"}, key : RoundKeys, draft : Drafts,
                 todo : SUBSET Weeks, done : SUBSET Weeks]
<1>1. ASSUME NEW d \in Drafts, ListRound(u, d)
      PROVE  RequestsInv'
  <2> DEFINE t == [at |-> "round", key |-> txn[u].key, draft |-> d,
                   todo |-> {w \in Weeks : selection[w] = "approved"}, done |-> {}]
  <2>1. txn[u].key \in RoundKeys
    BY <1>1, TxnFields DEF ListRound
  <2>2. t \in Txns
    BY <2>1 DEF Txns
  <2>3. Step(u, t)
    BY <1>1 DEF ListRound
  <2>4. txn'[u] = t /\ OthersStand(u) /\ txn' \in [Users -> Txns]
    BY <2>2, <2>3, StepFields, StepTyped
  <2>5. Rows(u)' = {} /\ RowsStand(u)'
    BY <2>4 DEF Rows, RowsStand
  <2> QED
    BY <1>1, <2>4, <2>5, ReadsKeep DEF ListRound, Reads
<1>2. CASE BookFirst(u)
  <2> DEFINE t == [txn[u] EXCEPT !.at = "booking"]
  <2>1. txn[u] \in R /\ txn[u].done = {}
    BY <1>2, TxnFields DEF BookFirst, LocksInv, RowsStand
  <2>2. t \in R /\ t.done = {} /\ t.at = "booking"
    BY <2>1
  <2>3. t \in Txns
    BY <2>2 DEF Txns
  <2>4. txn'[u] = t /\ OthersStand(u) /\ txn' \in [Users -> Txns]
    BY <1>2, <2>3 DEF BookFirst, TypeOK, OthersStand
  <2>5. Rows(u)' = {} /\ RowsStand(u)'
    BY <2>2, <2>4 DEF Rows, RowsStand
  <2> QED
    BY <1>2, <2>4, <2>5, ReadsKeep DEF BookFirst, Reads
<1>3. ASSUME NEW w \in Weeks, CommitWeek(u, w)
      PROVE  RequestsInv'
  <2> DEFINE t == [txn[u] EXCEPT !.todo = @ \ {w}, !.done = @ \union {w}]
  <2>1. txn[u] \in R /\ txn[u].at = "booking" /\ RowsStand(u)
    BY <1>3, TxnFields DEF CommitWeek, LocksInv
  <2>2. t \in R /\ t.done = txn[u].done \union {w} /\ t.at = "booking"
    BY <2>1
  <2>3. t \in Txns
    BY <2>2 DEF Txns
  <2>4. txn'[u] = t /\ OthersStand(u) /\ txn' \in [Users -> Txns]
    BY <1>3, <2>3 DEF CommitWeek, TypeOK, OthersStand
  <2>5. Rows(u)' = Rows(u) \union {w} /\ RowFree(u, w)
    BY <1>3, <2>1, <2>2, <2>4 DEF Rows, CommitWeek
  <2>6. RowsStand(u)'
    <3>1. txn'[u].at = "booking" /\ txn'[u].done = txn[u].done \union {w}
      BY <2>2, <2>4
    <3>2. \A x \in txn[u].done \union {w} : selection[x] = "approved"
      BY <1>3, <2>1 DEF RowsStand, CommitWeek
    <3>3. selection' = selection
      BY <1>3 DEF CommitWeek, selectionVars
    <3> QED
      BY <3>1, <3>2, <3>3 DEF RowsStand
  <2> QED
    BY <1>3, <2>4, <2>5, <2>6, ReadsKeep DEF CommitWeek, Reads
<1> QED
  BY <1>1, <1>2, <1>3
-----------------------------------------------------------------------------
(* Steps that commit: what of the locks they leave, and of each invariant.  *)

LEMMA CommitsLetGo ==
  ASSUME TypeOK, LocksInv, NEW u \in Users, txn'[u] = Idle, OthersStand(u),
         \A v \in Users \ {u} : \A r \in Rows(v) :
           /\ status'[r] = status[r]
           /\ r \in Weeks => selection'[r] = selection[r] /\ grantOf'[r] = grantOf[r]
  PROVE  LocksInv'
BY IdleHolds, LocksKept

LEMMA RowsAreRequests ==
  ASSUME TypeOK, NEW u \in Users
  PROVE  Rows(u) \subseteq Requests
BY TxnFields DEF Rows, Requests

\* Nothing that has not been submitted is locked.
LEMMA RowsAreSubmitted ==
  ASSUME TypeOK, LocksInv, PairAgrees, NEW u \in Users, NEW r \in Rows(u)
  PROVE  /\ status[r] # "none"
         /\ r \in Weeks => selection[r] # "available"
<1>1. RowsStand(u)
  BY DEF LocksInv
<1>2. CASE txn[u].at = "left"
  BY <1>1, <1>2, TxnFields DEF Rows, RowsStand, PairAgrees, DerivedStatus
<1>3. CASE txn[u].at = "booking"
  <2>1. r \in Weeks /\ selection[r] = "approved"
    BY <1>1, <1>3, TxnFields DEF Rows, RowsStand
  <2> QED
    BY <2>1 DEF PairAgrees, DerivedStatus
<1>4. CASE txn[u].at = "batch"
  <2>1. r \in Plain /\ status[r] = "submitted"
    BY <1>1, <1>4, TxnFields DEF Rows, RowsStand
  <2> QED
    BY <2>1 DEF PairAgrees, DerivedStatus
<1>5. CASE txn[u].at = "sweeping"
  <2>1. status[r] \in Expirable
    BY <1>1, <1>5, TxnFields DEF Rows, RowsStand
  <2> QED
    BY <2>1 DEF PairAgrees, DerivedStatus, Expirable, Undecided
<1> QED
  BY <1>2, <1>3, <1>4, <1>5 DEF Rows

\* A step that writes nothing of a week.
LEMMA PlainKeeps ==
  ASSUME TypeOK, RowsInv, UNCHANGED <<selectionVars, grantVars, commands, roundVars>>,
         \A w \in Weeks : status'[w] = status[w] /\ approvals'[w] = approvals[w],
         \A r \in Plain : approvals'[r] \in LogsOf(status'[r])
  PROVE  RowsInv'
<1> USE DEF selectionVars, grantVars, roundVars
<1>1. GrantsComeWithApproval'
  BY DEF RowsInv, GrantsComeWithApproval
<1>2. UnitsMatchSelections'
  BY DEF RowsInv, UnitsMatchSelections, Live
<1>3. PairAgrees'
  BY DEF RowsInv, PairAgrees
<1>4. DecisionsAreRecorded'
  BY DEF RowsInv, DecisionsAreRecorded, Commanded, Requests
<1>5. WeekIsBookedOnce'
  BY DEF RowsInv, WeekIsBookedOnce
<1>6. KeysAreOfRounds'
  BY DEF RowsInv, KeysAreOfRounds
<1> QED
  BY <1>1, <1>2, <1>3, <1>4, <1>5, <1>6 DEF RowsInv

\* A decision on one plain request whose row is free, or that is new.
LEMMA PlainStep ==
  ASSUME RequestsInv, NEW u \in Users, NEW r \in Plain, NEW s \in Statuses, NEW log \in Logs,
         txn' = txn, txn[u] = Idle,
         RowFree(u, r) \/ status[r] = "none",
         status' = [status EXCEPT ![r] = s], approvals' = [approvals EXCEPT ![r] = log],
         log \in LogsOf(s), overdue' \subseteq Requests,
         UNCHANGED <<selectionVars, grantVars, commands, roundVars>>
  PROVE  RequestsInv'
<1> USE DEF RequestsInv
<1>1. TypeOK'
  BY DEF TypeOK, selectionVars, grantVars, roundVars, Requests
<1>2. \A v \in Users \ {u} : r \notin Rows(v)
  BY RowsAreSubmitted DEF RowFree, RowsInv
<1>3. LocksInv'
  BY <1>2, CommitsLetGo, RowsAreRequests DEF OthersStand, TypeOK, selectionVars
<1>4. \A q \in Plain : approvals'[q] \in LogsOf(status'[q])
  BY DEF RowsInv, DecisionsAreRecorded, TypeOK, Requests
<1>5. \A w \in Weeks : status'[w] = status[w] /\ approvals'[w] = approvals[w]
  BY RequestsAssumption DEF TypeOK, Requests
<1> QED
  BY <1>1, <1>3, <1>4, <1>5, PlainKeeps

LEMMA SubmitKeeps ==
  ASSUME RequestsInv, NEW u \in Users, NEW r \in Plain, NEW late \in BOOLEAN,
         submitRequest(u, r, late)
  PROVE  RequestsInv'
<1> USE DEF RequestsInv
<1>1. approvals[r] = <<>>
  BY DEF submitRequest, RowsInv, DecisionsAreRecorded, LogsOf, Requests
<1>2. "submitted" \in Statuses /\ <<>> \in Logs /\ <<>> \in LogsOf("submitted")
  BY DEF Statuses, Logs, LogsOf
<1>3. approvals' = [approvals EXCEPT ![r] = <<>>] /\ overdue' \subseteq Requests
  BY <1>1 DEF submitRequest, TypeOK, Requests
<1> QED
  BY <1>2, <1>3, PlainStep DEF submitRequest

LEMMA WithdrawKeeps ==
  ASSUME RequestsInv, NEW u \in Users, NEW r \in Plain, withdrawRequest(u, r)
  PROVE  RequestsInv'
<1> USE DEF RequestsInv
<1>1. status[r] \in {"submitted", "approved", "reflected_in_version"}
  BY DEF withdrawRequest, TransitionIsLegal, TypeOK, Statuses, Requests, Expirable, Undecided
<1>2. approvals[r] \in LogsOf("withdrawn") /\ approvals[r] \in Logs
  BY <1>1 DEF RowsInv, DecisionsAreRecorded, LogsOf, Requests, Logs
<1>3. approvals' = [approvals EXCEPT ![r] = approvals[r]] /\ overdue' \subseteq Requests
  BY DEF withdrawRequest, TypeOK, Requests
<1>4. "withdrawn" \in Statuses
  BY DEF Statuses
<1> QED
  BY <1>2, <1>3, <1>4, PlainStep DEF withdrawRequest

LEMMA AppendToOne ==
  ASSUME NEW D, NEW s \in Seq(D), NEW e \in D, Len(s) = 1
  PROVE  Append(s, e) \in Seq(D) /\ Len(Append(s, e)) = 2
         /\ Append(s, e)[1] = s[1] /\ Append(s, e)[2] = e
<1>1. Append(s, e) \in Seq(D) /\ Len(Append(s, e)) = Len(s) + 1
  BY AppendProperties, Zenon
<1>2. Append(s, e)[Len(s) + 1] = e
  BY AppendProperties
<1>3. ASSUME NEW i \in 1 .. Len(s) PROVE Append(s, e)[i] = s[i]
  BY AppendProperties
<1> QED
  BY <1>1, <1>2, <1>3

LEMMA ReversedLog == Append(<<"approved">>, "reversed") = <<"approved", "reversed">>
<1> DEFINE s == <<"approved">>
           t == <<"approved", "reversed">>
           e == "reversed"
           D == {"approved", "reversed"}
<1>1. s \in Seq(D)
  OBVIOUS
<1>2. t \in Seq(D)
  OBVIOUS
<1>3. Len(s) = 1 /\ Len(t) = 2 /\ s[1] = "approved" /\ t[1] = "approved" /\ t[2] = e
      /\ e \in D
  OBVIOUS
<1> HIDE DEF s, t, e, D
<1> DEFINE long == Append(s, e)
<1>4. long \in Seq(D) /\ Len(long) = 2 /\ long[1] = s[1] /\ long[2] = e
  BY <1>1, <1>3, AppendToOne
<1> HIDE DEF long
<1>5. Len(long) = Len(t) /\ \A i \in 1 .. Len(long) : long[i] = t[i]
  BY <1>3, <1>4
<1>6. long = t
  BY <1>1, <1>2, <1>4, <1>5, SeqEqual, Zenon
<1> QED
  BY <1>6 DEF s, t, e, long

LEMMA ReverseKeeps ==
  ASSUME RequestsInv, NEW u \in Users, NEW r \in Plain, reverseDecision(u, r)
  PROVE  RequestsInv'
<1> USE DEF RequestsInv
<1> DEFINE log == <<"approved", "reversed">>
<1>1. approvals[r] = <<"approved">>
  BY DEF reverseDecision, RowsInv, DecisionsAreRecorded, LogsOf, Requests
<1>2. Reversed(approvals[r]) = log
  BY <1>1, ReversedLog DEF Reversed
<1>3. log \in Logs /\ log \in LogsOf("superseded_by_revision")
      /\ "superseded_by_revision" \in Statuses
  BY DEF Logs, LogsOf, Statuses
<1>4. approvals' = [approvals EXCEPT ![r] = log] /\ overdue' \subseteq Requests
  BY <1>2 DEF reverseDecision, TypeOK, Requests
<1> QED
  BY <1>3, <1>4, PlainStep DEF reverseDecision

LEMMA BatchKeeps ==
  ASSUME RequestsInv, NEW u \in Users, CommitBatch(u)
  PROVE  RequestsInv'
<1> USE DEF RequestsInv
<1> DEFINE done == txn[u].done
<1>1. /\ txn[u].at = "batch" /\ done \subseteq Plain /\ txn[u].as \in Outcomes
      /\ Rows(u) = done
  BY TxnFields DEF CommitBatch, Rows
<1>2. txn'[u] = Idle /\ OthersStand(u) /\ txn' \in [Users -> Txns]
  BY StepFields, StepTyped DEF CommitBatch, Commit, Txns
<1>3. <<txn[u].as>> \in Logs /\ <<txn[u].as>> \in LogsOf(txn[u].as) /\ txn[u].as \in Statuses
  BY <1>1 DEF Outcomes, Logs, LogsOf, Statuses
<1>4. TypeOK'
  BY <1>2, <1>3 DEF CommitBatch, TypeOK, selectionVars, grantVars, roundVars
<1>5. \A v \in Users \ {u} : \A r \in Rows(v) : r \notin done
  BY <1>1 DEF LocksInv, RowsExclude
<1>6. LocksInv'
  BY <1>2, <1>5, CommitsLetGo, RowsAreRequests DEF CommitBatch, selectionVars
<1>7. \A r \in Plain : approvals'[r] \in LogsOf(status'[r])
  BY <1>3 DEF CommitBatch, RowsInv, DecisionsAreRecorded, Requests
<1>8. \A w \in Weeks : status'[w] = status[w] /\ approvals'[w] = approvals[w]
  BY <1>1, RequestsAssumption DEF CommitBatch, Requests
<1> QED
  BY <1>4, <1>6, <1>7, <1>8, PlainKeeps DEF CommitBatch

LEMMA SweepKeeps ==
  ASSUME RequestsInv, NEW u \in Users, CommitSweep(u)
  PROVE  RequestsInv'
<1> USE DEF RequestsInv
<1> DEFINE claimed == txn[u].claimed
<1>1. txn[u].at = "sweeping" /\ claimed \subseteq Requests /\ Rows(u) = claimed
  BY TxnFields DEF CommitSweep, Rows
<1>2. txn'[u] = Idle /\ OthersStand(u) /\ txn' \in [Users -> Txns]
  BY StepFields, StepTyped DEF CommitSweep, Commit, Txns
<1>3. \A r \in claimed : status[r] \in Expirable
  BY <1>1 DEF LocksInv, RowsStand
<1>4. ASSUME NEW w \in claimed \intersect Weeks
      PROVE  FALSE
  <2>1. status[w] = "expired"
    BY DEF CommitSweep, PairsStand, RowsInv, PairAgrees
  <2> QED
    BY <1>3, <2>1 DEF Expirable, Undecided
<1>5. TypeOK'
  BY <1>2 DEF CommitSweep, TypeOK, selectionVars, grantVars, roundVars, Statuses
<1>6. \A v \in Users \ {u} : \A r \in Rows(v) : r \notin claimed
  BY <1>1 DEF LocksInv, RowsExclude
<1>7. LocksInv'
  BY <1>2, <1>6, CommitsLetGo, RowsAreRequests DEF CommitSweep, selectionVars
<1>8. \A r \in Plain : approvals'[r] \in LogsOf(status'[r])
  <2> SUFFICES ASSUME NEW r \in Plain PROVE approvals'[r] \in LogsOf(status'[r])
    OBVIOUS
  <2>1. approvals[r] \in LogsOf(status[r])
    BY DEF RowsInv, DecisionsAreRecorded, Requests
  <2>2. CASE r \in claimed
    BY <1>3, <2>1, <2>2 DEF CommitSweep, LogsOf, Expirable, Undecided, Requests
  <2>3. CASE r \notin claimed
    BY <2>1, <2>3 DEF CommitSweep, Requests
  <2> QED
    BY <2>2, <2>3
<1>9. \A w \in Weeks : status'[w] = status[w] /\ approvals'[w] = approvals[w]
  BY <1>4 DEF CommitSweep, Requests
<1> QED
  BY <1>5, <1>7, <1>8, <1>9, PlainKeeps DEF CommitSweep

LEMMA DeadlineKeeps ==
  ASSUME RequestsInv, NEW r \in Requests, DeadlinePasses(r)
  PROVE  RequestsInv'
<1> USE DEF RequestsInv
<1>1. TypeOK'
  BY DEF DeadlinePasses, TypeOK, selectionVars, grantVars, roundVars
<1>2. LocksInv'
  BY DEF DeadlinePasses, LocksInv, RowsExclude, RowsStand, Rows, selectionVars
<1>3. RowsInv'
  BY PlainKeeps DEF DeadlinePasses, RowsInv, DecisionsAreRecorded, Requests
<1> QED
  BY <1>1, <1>2, <1>3
-----------------------------------------------------------------------------
(* Steps that write weeks.                                                  *)

Held(g) == {w \in Live : grantOf[w] = g}
HeldBeyond(g) == {w \in Live \intersect isOverride : grantOf[w] = g}

LEMMA HeldIsFinite ==
  ASSUME NEW g
  PROVE  /\ IsFiniteSet(Held(g)) /\ Cardinality(Held(g)) \in Nat
         /\ IsFiniteSet(HeldBeyond(g)) /\ Cardinality(HeldBeyond(g)) \in Nat
<1>1. Held(g) \in SUBSET Weeks /\ HeldBeyond(g) \in SUBSET Weeks
  BY DEF Held, HeldBeyond, Live
<1> QED
  BY <1>1, RequestsAssumption, FS_Subset, FS_CardinalityType

LEMMA UnitsKept ==
  ASSUME UnitsMatchSelections, Live' = Live, UNCHANGED <<consumed, override>>,
         \A w \in Live : /\ grantOf'[w] = grantOf[w]
                         /\ w \in isOverride' <=> w \in isOverride
  PROVE  UnitsMatchSelections'
<1> SUFFICES ASSUME NEW g \in Grants
             PROVE  /\ consumed'[g] = Cardinality(Held(g)')
                    /\ override'[g] = Cardinality(HeldBeyond(g)')
  BY DEF UnitsMatchSelections, Held, HeldBeyond
<1>1. Held(g)' = Held(g) /\ HeldBeyond(g)' = HeldBeyond(g)
  BY DEF Held, HeldBeyond
<1>2. consumed[g] = Cardinality(Held(g)) /\ override[g] = Cardinality(HeldBeyond(g))
  BY DEF UnitsMatchSelections, Held, HeldBeyond
<1> QED
  BY <1>1, <1>2

\* A week that gives its unit back takes it off both counters it is in.
LEMMA ReleaseKeeps ==
  ASSUME TypeOK, UnitsMatchSelections, NEW w \in Live, grantOf[w] \in Grants, Release(w),
         Live' = Live \ {w}, grantOf' = grantOf,
         \A v \in Live \ {w} : v \in isOverride' <=> v \in isOverride
  PROVE  /\ UnitsMatchSelections'
         /\ consumed' \in [Grants -> Nat] /\ override' \in [Grants -> Nat]
         /\ version' \in [Grants -> Nat]
<1> DEFINE h == grantOf[w]
<1>1. ASSUME NEW g \in Grants
      PROVE  /\ consumed[g] = Cardinality(Held(g)) /\ override[g] = Cardinality(HeldBeyond(g))
             /\ consumed[g] \in Nat /\ override[g] \in Nat
  BY DEF UnitsMatchSelections, Held, HeldBeyond, TypeOK
<1>2. ASSUME NEW g \in Grants
      PROVE  Held(g)' = Held(g) \ {w} /\ HeldBeyond(g)' = HeldBeyond(g) \ {w}
  BY DEF Held, HeldBeyond
<1>3. ASSUME NEW g \in Grants
      PROVE  /\ w \in Held(g) <=> g = h
             /\ w \in HeldBeyond(g) <=> g = h /\ w \in isOverride
  BY DEF Held, HeldBeyond
<1>4. ASSUME NEW g \in Grants
      PROVE  /\ Cardinality(Held(g) \ {w}) \in Nat /\ Cardinality(HeldBeyond(g) \ {w}) \in Nat
             /\ Cardinality(Held(g) \ {w}) = IF g = h THEN consumed[g] - 1 ELSE consumed[g]
             /\ Cardinality(HeldBeyond(g) \ {w}) =
                  IF g = h /\ w \in isOverride THEN override[g] - 1 ELSE override[g]
  BY <1>1, <1>3, HeldIsFinite, FS_RemoveElement, FS_CardinalityType
<1>5. OverrideReleased(w) = IF w \in isOverride THEN 1 ELSE 0
  <2>1. override[h] \in Nat /\ (w \in isOverride => override[h] - 1 \in Nat)
    BY <1>1, <1>4
  <2> QED
    BY <2>1 DEF OverrideReleased
<1>6. ASSUME NEW g \in Grants
      PROVE  /\ consumed'[g] = IF g = h THEN consumed[g] - 1 ELSE consumed[g]
             /\ override'[g] = IF g = h /\ w \in isOverride THEN override[g] - 1
                               ELSE override[g]
  BY <1>1, <1>5 DEF Release, TypeOK
<1>7. ASSUME NEW g \in Grants
      PROVE  /\ consumed'[g] = Cardinality(Held(g)') /\ consumed'[g] \in Nat
             /\ override'[g] = Cardinality(HeldBeyond(g)') /\ override'[g] \in Nat
  <2>1. consumed'[g] = Cardinality(Held(g) \ {w}) /\ override'[g] = Cardinality(HeldBeyond(g) \ {w})
    BY <1>4, <1>6
  <2>2. Held(g)' = Held(g) \ {w} /\ HeldBeyond(g)' = HeldBeyond(g) \ {w}
    BY <1>2
  <2> QED
    BY <1>4, <2>1, <2>2
<1>8. UnitsMatchSelections'
  BY <1>7 DEF UnitsMatchSelections, Held, HeldBeyond
<1>9. /\ consumed' = [consumed EXCEPT ![h] = consumed[h] - 1]
      /\ override' = [override EXCEPT ![h] = override[h] - OverrideReleased(w)]
      /\ version' = [version EXCEPT ![h] = version[h] + 1]
  BY DEF Release
<1>10. consumed' \in [Grants -> Nat] /\ override' \in [Grants -> Nat]
  BY <1>7, <1>9 DEF TypeOK
<1>11. version' \in [Grants -> Nat]
  BY <1>9 DEF TypeOK
<1> QED
  BY <1>8, <1>10, <1>11

\* A week that takes a unit, beyond the entitlement or not.
LEMMA TakeKeeps ==
  ASSUME TypeOK, UnitsMatchSelections, NEW w \in Weeks \ Live, NEW g \in Grants,
         NEW beyond \in BOOLEAN, w \notin isOverride,
         consumed' = [consumed EXCEPT ![g] = @ + 1],
         override' = [override EXCEPT ![g] = @ + IF beyond THEN 1 ELSE 0],
         Live' = Live \union {w}, grantOf' = [grantOf EXCEPT ![w] = g],
         isOverride' = IF beyond THEN isOverride \union {w} ELSE isOverride
  PROVE  UnitsMatchSelections'
<1>1. ASSUME NEW h \in Grants
      PROVE  /\ consumed[h] = Cardinality(Held(h)) /\ override[h] = Cardinality(HeldBeyond(h))
             /\ consumed[h] \in Nat /\ override[h] \in Nat
  BY DEF UnitsMatchSelections, Held, HeldBeyond, TypeOK
<1>2. ASSUME NEW h \in Grants
      PROVE  /\ Held(h)' = IF h = g THEN Held(h) \union {w} ELSE Held(h)
             /\ HeldBeyond(h)' = IF h = g /\ beyond THEN HeldBeyond(h) \union {w}
                                 ELSE HeldBeyond(h)
             /\ w \notin Held(h) /\ w \notin HeldBeyond(h)
  <2>1. grantOf'[w] = g /\ \A v \in Live : grantOf'[v] = grantOf[v]
    BY DEF TypeOK, Live
  <2>2. Held(h)' = IF h = g THEN Held(h) \union {w} ELSE Held(h)
    BY <2>1 DEF Held
  <2>3. HeldBeyond(h)' = IF h = g /\ beyond THEN HeldBeyond(h) \union {w}
                         ELSE HeldBeyond(h)
    <3>1. CASE beyond
      BY <2>1, <3>1 DEF HeldBeyond
    <3>2. CASE ~beyond
      BY <2>1, <3>2 DEF HeldBeyond
    <3> QED
      BY <3>1, <3>2
  <2> QED
    BY <2>2, <2>3 DEF Held, HeldBeyond
<1>3. ASSUME NEW h \in Grants
      PROVE  /\ Cardinality(Held(h)') = IF h = g THEN consumed[h] + 1 ELSE consumed[h]
             /\ Cardinality(HeldBeyond(h)') = IF h = g /\ beyond THEN override[h] + 1
                                              ELSE override[h]
  <2>1. IsFiniteSet(Held(h)) /\ IsFiniteSet(HeldBeyond(h))
    BY HeldIsFinite
  <2>2. w \notin Held(h) /\ w \notin HeldBeyond(h)
    BY <1>2
  <2>3. Cardinality(Held(h) \union {w}) = Cardinality(Held(h)) + 1
    BY <2>1, <2>2, FS_AddElement
  <2>4. Cardinality(HeldBeyond(h) \union {w}) = Cardinality(HeldBeyond(h)) + 1
    BY <2>1, <2>2, FS_AddElement
  <2> QED
    BY <1>1, <1>2, <2>3, <2>4
<1>4. ASSUME NEW h \in Grants
      PROVE  /\ consumed'[h] = IF h = g THEN consumed[h] + 1 ELSE consumed[h]
             /\ override'[h] = IF h = g /\ beyond THEN override[h] + 1 ELSE override[h]
  BY <1>1 DEF TypeOK
<1> QED
  BY <1>3, <1>4 DEF UnitsMatchSelections, Held, HeldBeyond

\* What a write of one week, its selection and its request keeps.
LEMMA WeekStep ==
  ASSUME RequestsInv, NEW u \in Users, NEW w \in Weeks, NEW s \in Selections,
         txn'[u] = Idle, OthersStand(u), \A v \in Users \ {u} : w \notin Rows(v),
         selection' = [selection EXCEPT ![w] = s],
         status' = [status EXCEPT ![w] = DerivedStatus(s)],
         \A x \in Weeks \ {w} : grantOf'[x] = grantOf[x]
  PROVE  /\ LocksInv' /\ PairAgrees'
         /\ status' \in [Requests -> Statuses] /\ selection' \in [Weeks -> Selections]
<1> USE DEF RequestsInv
<1>1. status' \in [Requests -> Statuses] /\ selection' \in [Weeks -> Selections]
  <2>1. DerivedStatus(s) \in Statuses
    BY DEF DerivedStatus, Selections, Statuses
  <2> QED
    BY <2>1 DEF TypeOK
<1>2. PairAgrees'
  BY DEF RowsInv, PairAgrees, TypeOK, Requests
<1>3. LocksInv'
  <2>1. \A v \in Users \ {u} : \A r \in Rows(v) : r # w /\ r \in Requests
    BY RowsAreRequests
  <2>2. \A r \in Requests : r # w => status'[r] = status[r]
    BY DEF TypeOK
  <2>3. \A x \in Weeks : x # w => selection'[x] = selection[x] /\ grantOf'[x] = grantOf[x]
    BY DEF TypeOK
  <2> QED
    BY <2>1, <2>2, <2>3, CommitsLetGo
<1> QED
  BY <1>1, <1>2, <1>3

\* A week that is not booked and does not become so.
LEMMA BookingKept ==
  ASSUME TypeOK, WeekIsBookedOnce, KeysAreOfRounds, NEW w \in Weeks, NEW s \in Selections,
         selection[w] \notin {"committed", "reversed"}, s \notin {"committed", "reversed"},
         selection' = [selection EXCEPT ![w] = s], UNCHANGED <<target, commitKey, roundVars>>
  PROVE  WeekIsBookedOnce' /\ KeysAreOfRounds'
<1> USE DEF roundVars
<1>1. \A x \in Weeks : selection'[x] = IF x = w THEN s ELSE selection[x]
  BY DEF TypeOK
<1>2. WeekIsBookedOnce'
  BY <1>1 DEF WeekIsBookedOnce
<1>3. KeysAreOfRounds'
  BY DEF KeysAreOfRounds
<1> QED
  BY <1>2, <1>3

LEMMA DecisionsKept ==
  ASSUME TypeOK, DecisionsAreRecorded, NEW w \in Weeks, NEW s, approvals[w] \in LogsOf(s),
         status' = [status EXCEPT ![w] = s], UNCHANGED <<approvals, commands>>
  PROVE  DecisionsAreRecorded'
<1>1. \A r \in Requests : status'[r] = IF r = w THEN s ELSE status[r]
  BY DEF TypeOK
<1> QED
  BY <1>1 DEF DecisionsAreRecorded, Commanded

LEMMA VacationSubmitKeeps ==
  ASSUME RequestsInv, NEW u \in Users, NEW w \in Weeks, NEW late \in BOOLEAN,
         submitVacationSelection(u, w, late)
  PROVE  RequestsInv'
<1> USE DEF RequestsInv
<1>1. /\ txn[u] = Idle /\ txn' = txn /\ selection[w] = "available"
      /\ selection' = [selection EXCEPT ![w] = "pending"]
      /\ status' = [status EXCEPT ![w] = DerivedStatus("pending")]
      /\ UNCHANGED <<approvals, grantOf, isOverride, target, commitKey, grantVars,
                     commands, roundVars>>
  BY DEF submitVacationSelection, DerivedStatus
<1>2. \A v \in Users \ {u} : w \notin Rows(v)
  BY <1>1, RowsAreSubmitted DEF RowsInv
<1>3. /\ LocksInv' /\ PairAgrees'
      /\ status' \in [Requests -> Statuses] /\ selection' \in [Weeks -> Selections]
  BY <1>1, <1>2, WeekStep DEF Selections, OthersStand
<1>4. overdue' \subseteq Requests
  BY DEF submitVacationSelection, TypeOK, Requests
<1>5. TypeOK'
  BY <1>1, <1>3, <1>4 DEF TypeOK, grantVars, roundVars
<1>6. \A x \in Weeks : selection'[x] = IF x = w THEN "pending" ELSE selection[x]
  BY <1>1 DEF TypeOK
<1>7. UnitsMatchSelections'
  <2>1. Live' = Live
    BY <1>1, <1>6 DEF Live
  <2> QED
    BY <1>1, <2>1, UnitsKept DEF RowsInv, grantVars
<1>8. GrantsComeWithApproval'
  BY <1>1, <1>6 DEF RowsInv, GrantsComeWithApproval
<1>9. WeekIsBookedOnce' /\ KeysAreOfRounds'
  BY <1>1, BookingKept DEF RowsInv, Selections
<1>10. DecisionsAreRecorded'
  <2>1. approvals[w] \in LogsOf("none")
    BY <1>1 DEF RowsInv, PairAgrees, DecisionsAreRecorded, DerivedStatus, Requests
  <2>2. approvals[w] \in LogsOf(DerivedStatus("pending"))
    BY <2>1 DEF LogsOf, DerivedStatus
  <2> QED
    BY <1>1, <2>2, DecisionsKept DEF RowsInv
<1> QED
  BY <1>3, <1>5, <1>7, <1>8, <1>9, <1>10 DEF RowsInv

\* A transaction that holds a row keeps the others from it.
LEMMA OthersDoNotHold ==
  ASSUME LocksInv, NEW u \in Users, NEW r, RowFree(u, r) \/ r \in Rows(u)
  PROVE  \A v \in Users \ {u} : r \notin Rows(v)
BY DEF LocksInv, RowsExclude, RowFree

LEMMA VacationWithdrawKeeps ==
  ASSUME RequestsInv, NEW u \in Users, CommitWithdrawal(u)
  PROVE  RequestsInv'
<1> USE DEF RequestsInv
<1> DEFINE w == txn[u].week
           g == txn[u].grant
<1>1. /\ w \in Weeks /\ w \in Rows(u) /\ grantOf[w] = g /\ g \in Grants \union {NoGrant}
      /\ selection[w] \in {"pending", "approved"}
  BY TxnFields DEF CommitWithdrawal, LocksInv, RowsStand, Rows
<1> HIDE DEF w, g
<1>2. /\ selection' = [selection EXCEPT ![w] = "withdrawn"]
      /\ status' = [status EXCEPT ![w] = DerivedStatus("withdrawn")]
      /\ IF g = NoGrant THEN UNCHANGED grantVars ELSE Release(w)
      /\ UNCHANGED <<overdue, approvals, grantOf, isOverride, target, commitKey, commands,
                     roundVars>>
  BY DEF CommitWithdrawal, DerivedStatus, w, g
<1>3. txn'[u] = Idle /\ OthersStand(u) /\ txn' \in [Users -> Txns]
  BY StepFields, StepTyped DEF CommitWithdrawal, Commit, Txns
<1>4. /\ LocksInv' /\ PairAgrees'
      /\ status' \in [Requests -> Statuses] /\ selection' \in [Weeks -> Selections]
  BY <1>1, <1>2, <1>3, OthersDoNotHold, WeekStep DEF Selections
<1>5. \A x \in Weeks : selection'[x] = IF x = w THEN "withdrawn" ELSE selection[x]
  BY <1>2 DEF TypeOK
<1>6. /\ UnitsMatchSelections'
      /\ consumed' \in [Grants -> Nat] /\ override' \in [Grants -> Nat]
      /\ version' \in [Grants -> Nat]
  <2>1. CASE g = NoGrant
    <3>1. selection[w] = "pending"
      BY <1>1, <2>1, RequestsAssumption DEF RowsInv, GrantsComeWithApproval
    <3>2. Live' = Live
      BY <1>5, <3>1 DEF Live
    <3> QED
      BY <1>2, <2>1, <3>2, UnitsKept DEF RowsInv, grantVars, TypeOK
  <2>2. CASE g # NoGrant
    <3>1. w \in Live /\ grantOf[w] \in Grants
      BY <1>1, <2>2 DEF RowsInv, GrantsComeWithApproval, Live
    <3>2. Live' = Live \ {w}
      BY <1>5 DEF Live
    <3> QED
      BY <1>2, <2>2, <3>1, <3>2, ReleaseKeeps DEF RowsInv
  <2> QED
    BY <2>1, <2>2
<1>7. TypeOK'
  BY <1>2, <1>3, <1>4, <1>6 DEF TypeOK, roundVars
<1>8. GrantsComeWithApproval'
  BY <1>2, <1>5 DEF RowsInv, GrantsComeWithApproval
<1>9. WeekIsBookedOnce' /\ KeysAreOfRounds'
  BY <1>1, <1>2, BookingKept DEF RowsInv, Selections
<1>10. DecisionsAreRecorded'
  <2>1. approvals[w] \in LogsOf(DerivedStatus(selection[w]))
    BY <1>1 DEF RowsInv, PairAgrees, DecisionsAreRecorded, Requests
  <2>2. approvals[w] \in LogsOf(DerivedStatus("withdrawn"))
    BY <1>1, <2>1 DEF LogsOf, DerivedStatus
  <2> QED
    BY <1>1, <1>2, <2>2, DecisionsKept DEF RowsInv
<1> QED
  BY <1>4, <1>6, <1>7, <1>8, <1>9, <1>10 DEF RowsInv

LEMMA FirstOfLog == ASSUME NEW e \in Outcomes PROVE Append(<<>>, e) = <<e>>
<1> DEFINE s == <<>>
           t == <<e>>
<1>1. s \in Seq(Outcomes)
  OBVIOUS
<1>2. t \in Seq(Outcomes)
  OBVIOUS
<1>3. Len(s) = 0 /\ Len(t) = 1 /\ t[1] = e
  OBVIOUS
<1> HIDE DEF s, t
<1> DEFINE long == Append(s, e)
<1>4. long \in Seq(Outcomes) /\ Len(long) = Len(s) + 1
  BY <1>1, AppendProperties, Zenon
<1>5. long[Len(s) + 1] = e
  BY <1>1, AppendProperties
<1> HIDE DEF long
<1>6. Len(long) = Len(t) /\ \A i \in 1 .. Len(long) : long[i] = t[i]
  BY <1>3, <1>4, <1>5
<1>7. long = t
  BY <1>2, <1>4, <1>6, SeqEqual, Zenon
<1> QED
  BY <1>7 DEF s, t, long

\* A decision writes the pair, the log and the command together.
LEMMA DecidesKeeps ==
  ASSUME RequestsInv, NEW u \in Users, NEW w \in Weeks, NEW k \in Keys, NEW d \in Outcomes,
         txn[u].week = w, txn[u].key = k, txn[u].as = d, Decides(u),
         txn'[u] = Idle, OthersStand(u),
         \A x \in Weeks \ {w} : grantOf'[x] = grantOf[x],
         UNCHANGED <<target, commitKey, roundVars>>
  PROVE  /\ LocksInv' /\ PairAgrees' /\ DecisionsAreRecorded'
         /\ KeysAreOfRounds' /\ WeekIsBookedOnce'
         /\ status' \in [Requests -> Statuses] /\ selection' \in [Weeks -> Selections]
         /\ approvals' \in [Requests -> Logs]
         /\ commands' \in [Weeks -> [Keys -> Outcomes \union {"none"}]]
         /\ selection[w] = "pending"
         /\ \A x \in Weeks : selection'[x] = IF x = w THEN d ELSE selection[x]
<1> USE DEF RequestsInv
<1>1. /\ RowFree(u, w) /\ selection[w] = "pending"
      /\ selection' = [selection EXCEPT ![w] = d]
      /\ status' = [status EXCEPT ![w] = DerivedStatus(d)]
      /\ approvals' = [approvals EXCEPT ![w] = Append(approvals[w], d)]
      /\ commands' = [commands EXCEPT ![w] = [commands[w] EXCEPT ![k] = d]]
  BY DEF Decides, DerivedStatus, Outcomes
<1>2. d \in Selections \ {"committed", "reversed"}
  BY DEF Outcomes, Selections
<1>3. /\ LocksInv' /\ PairAgrees'
      /\ status' \in [Requests -> Statuses] /\ selection' \in [Weeks -> Selections]
  BY <1>1, <1>2, OthersDoNotHold, WeekStep
<1>4. WeekIsBookedOnce' /\ KeysAreOfRounds'
  BY <1>1, <1>2, BookingKept DEF RowsInv
<1>5. approvals[w] = <<>> /\ status[w] = "submitted"
  BY <1>1 DEF RowsInv, PairAgrees, DecisionsAreRecorded, DerivedStatus, LogsOf, Requests
<1>6. approvals' = [approvals EXCEPT ![w] = <<d>>]
  BY <1>1, <1>5, FirstOfLog
<1>7. <<d>> \in Logs /\ <<d>> \in LogsOf(DerivedStatus(d)) /\ <<d>> # <<>>
  BY DEF Outcomes, Logs, LogsOf, DerivedStatus
<1>8. approvals' \in [Requests -> Logs]
  BY <1>6, <1>7 DEF TypeOK
<1>9. commands' \in [Weeks -> [Keys -> Outcomes \union {"none"}]]
  BY <1>1 DEF TypeOK
<1>10. DecisionsAreRecorded'
  <2>1. \A r \in Requests : approvals'[r] \in LogsOf(status'[r])
    BY <1>1, <1>6, <1>7 DEF RowsInv, DecisionsAreRecorded, TypeOK
  <2>2. Commanded(w) = {}
    BY <1>5 DEF RowsInv, DecisionsAreRecorded
  <2>3. commands'[w] = [commands[w] EXCEPT ![k] = d] /\ commands[w] \in
          [Keys -> Outcomes \union {"none"}]
    BY <1>1 DEF TypeOK
  <2>4. Commanded(w)' = {k} /\ commands'[w][k] = d
    BY <2>2, <2>3 DEF Commanded, Outcomes
  <2>5. approvals'[w] = <<d>>
    BY <1>6 DEF TypeOK, Requests
  <2>6. ASSUME NEW x \in Weeks, x # w
        PROVE  Commanded(x)' = Commanded(x) /\ commands'[x] = commands[x]
               /\ approvals'[x] = approvals[x]
    BY <1>1, <1>6, <2>6 DEF Commanded, TypeOK, Requests
  <2>7. ASSUME NEW x \in Weeks
        PROVE  IF approvals'[x] = <<>> THEN Commanded(x)' = {}
               ELSE \E j \in Keys : Commanded(x)' = {j} /\ approvals'[x] = <<commands'[x][j]>>
    <3>1. CASE x = w
      BY <1>7, <2>4, <2>5, <3>1
    <3>2. CASE x # w
      BY <2>6, <3>2 DEF RowsInv, DecisionsAreRecorded
    <3> QED
      BY <3>1, <3>2
  <2> QED
    BY <2>1, <2>7 DEF DecisionsAreRecorded
<1>11. \A x \in Weeks : selection'[x] = IF x = w THEN d ELSE selection[x]
  BY <1>1 DEF TypeOK
<1> QED
  BY <1>1, <1>3, <1>4, <1>8, <1>9, <1>10, <1>11

LEMMA DenyKeeps ==
  ASSUME RequestsInv, NEW u \in Users, denyVacationSelection(u)
  PROVE  RequestsInv'
<1> USE DEF RequestsInv
<1>1. PICK w \in Weeks, k \in Keys :
        txn[u].week = w /\ txn[u].key = k /\ txn[u].as = "denied"
  BY TxnFields DEF denyVacationSelection
<1>2. /\ Decides(u)
      /\ UNCHANGED <<overdue, grantOf, isOverride, target, commitKey, grantVars, roundVars>>
  BY DEF denyVacationSelection
<1>3. txn'[u] = Idle /\ OthersStand(u) /\ txn' \in [Users -> Txns]
  BY StepFields, StepTyped DEF denyVacationSelection, Commit, Txns
<1>4. /\ LocksInv' /\ PairAgrees' /\ DecisionsAreRecorded'
      /\ KeysAreOfRounds' /\ WeekIsBookedOnce'
      /\ status' \in [Requests -> Statuses] /\ selection' \in [Weeks -> Selections]
      /\ approvals' \in [Requests -> Logs]
      /\ commands' \in [Weeks -> [Keys -> Outcomes \union {"none"}]]
      /\ selection[w] = "pending"
      /\ \A x \in Weeks : selection'[x] = IF x = w THEN "denied" ELSE selection[x]
  BY <1>1, <1>2, <1>3, DecidesKeeps DEF Outcomes
<1>5. TypeOK'
  BY <1>2, <1>3, <1>4 DEF TypeOK, grantVars, roundVars
<1>6. UnitsMatchSelections'
  <2>1. Live' = Live
    BY <1>4 DEF Live
  <2> QED
    BY <1>2, <2>1, UnitsKept DEF RowsInv, grantVars
<1>7. GrantsComeWithApproval'
  BY <1>2, <1>4 DEF RowsInv, GrantsComeWithApproval
<1> QED
  BY <1>4, <1>5, <1>6, <1>7 DEF RowsInv

LEMMA ApproveKeeps ==
  ASSUME RequestsInv, NEW u \in Users, approveVacationSelection(u)
  PROVE  RequestsInv'
<1> USE DEF RequestsInv
<1>1. PICK w \in Weeks, k \in Keys, g \in Grants, beyond \in BOOLEAN :
        /\ txn[u].week = w /\ txn[u].key = k /\ txn[u].as = "approved"
        /\ txn[u].grant = g /\ txn[u].beyond = beyond
  BY TxnFields DEF approveVacationSelection
<1>2. /\ Decides(u)
      /\ consumed' = [consumed EXCEPT ![g] = @ + 1]
      /\ override' = [override EXCEPT ![g] = @ + IF beyond THEN 1 ELSE 0]
      /\ version' = [version EXCEPT ![g] = @ + 1 + IF beyond THEN 1 ELSE 0]
      /\ grantOf' = [grantOf EXCEPT ![w] = g]
      /\ isOverride' = IF beyond THEN isOverride \union {w} ELSE isOverride
      /\ UNCHANGED <<overdue, target, commitKey, roundVars>>
  BY <1>1 DEF approveVacationSelection
<1>3. txn'[u] = Idle /\ OthersStand(u) /\ txn' \in [Users -> Txns]
  BY StepFields, StepTyped DEF approveVacationSelection, Commit, Txns
<1>4. \A x \in Weeks : grantOf'[x] = IF x = w THEN g ELSE grantOf[x]
  BY <1>2 DEF TypeOK
<1>5. /\ LocksInv' /\ PairAgrees' /\ DecisionsAreRecorded'
      /\ KeysAreOfRounds' /\ WeekIsBookedOnce'
      /\ status' \in [Requests -> Statuses] /\ selection' \in [Weeks -> Selections]
      /\ approvals' \in [Requests -> Logs]
      /\ commands' \in [Weeks -> [Keys -> Outcomes \union {"none"}]]
      /\ selection[w] = "pending"
      /\ \A x \in Weeks : selection'[x] = IF x = w THEN "approved" ELSE selection[x]
  BY <1>1, <1>2, <1>3, <1>4, DecidesKeeps DEF Outcomes
<1>6. TypeOK'
  <2>1. /\ consumed' \in [Grants -> Nat] /\ override' \in [Grants -> Nat]
        /\ version' \in [Grants -> Nat]
    BY <1>2 DEF TypeOK
  <2>2. grantOf' \in [Weeks -> Grants \union {NoGrant}] /\ isOverride' \subseteq Weeks
    BY <1>2 DEF TypeOK
  <2> QED
    BY <1>2, <1>3, <1>5, <2>1, <2>2 DEF TypeOK, roundVars
<1>7. UnitsMatchSelections'
  <2>1. w \notin Live /\ Live' = Live \union {w}
    BY <1>5 DEF Live
  <2>2. w \notin isOverride
    BY <1>5 DEF RowsInv, GrantsComeWithApproval
  <2> QED
    BY <1>2, <2>1, <2>2, TakeKeeps DEF RowsInv
<1>8. GrantsComeWithApproval'
  BY <1>2, <1>4, <1>5 DEF RowsInv, GrantsComeWithApproval
<1> QED
  BY <1>5, <1>6, <1>7, <1>8 DEF RowsInv

\* What a round locked was approved, so nothing of it was booked.
LEMMA RoundKeeps ==
  ASSUME RequestsInv, NEW u \in Users, CommitRound(u)
  PROVE  RequestsInv'
<1> USE DEF RequestsInv
<1>1. PICK d \in Drafts, k \in RoundKeys, done \in SUBSET Weeks :
        /\ txn[u].draft = d /\ txn[u].key = k /\ txn[u].done = done
        /\ txn[u].at = "booking"
  BY TxnFields DEF CommitRound
<1>2. /\ k \notin rounds /\ rounds' = rounds \union {k}
      /\ selection' = [w \in Weeks |-> IF w \in done THEN "committed" ELSE selection[w]]
      /\ status' = [r \in Requests |-> IF r \in done THEN "reflected_in_version"
                                       ELSE status[r]]
      /\ target' = [w \in Weeks |-> IF w \in done THEN d ELSE target[w]]
      /\ commitKey' = [w \in Weeks |-> IF w \in done THEN k ELSE commitKey[w]]
      /\ booked' = [w \in Weeks |-> IF w \in done THEN booked[w] \union {d} ELSE booked[w]]
      /\ UNCHANGED <<overdue, approvals, grantOf, isOverride, grantVars, commands>>
  BY <1>1 DEF CommitRound, RoundIsNew
<1>3. txn'[u] = Idle /\ OthersStand(u) /\ txn' \in [Users -> Txns]
  BY StepFields, StepTyped DEF CommitRound, Commit, Txns
<1>4. Rows(u) = done /\ \A w \in done : selection[w] = "approved"
  BY <1>1 DEF Rows, LocksInv, RowsStand
<1>5. \A v \in Users \ {u} : \A r \in Rows(v) : r \in Requests /\ r \notin done
  BY <1>4, RowsAreRequests DEF LocksInv, RowsExclude
<1>6. LocksInv'
  BY <1>2, <1>3, <1>5, CommitsLetGo
<1>7. TypeOK'
  BY <1>2, <1>3 DEF TypeOK, grantVars, Selections, Statuses
<1>8. UnitsMatchSelections'
  <2>1. Live' = Live
    BY <1>2, <1>4 DEF Live
  <2> QED
    BY <1>2, <2>1, UnitsKept DEF RowsInv, grantVars
<1>9. GrantsComeWithApproval'
  BY <1>2, <1>4 DEF RowsInv, GrantsComeWithApproval
<1>10. PairAgrees'
  BY <1>2 DEF RowsInv, PairAgrees, DerivedStatus, Requests
<1>11. DecisionsAreRecorded'
  <2>1. \A w \in done : status[w] = "approved"
    BY <1>4 DEF RowsInv, PairAgrees, DerivedStatus
  <2>2. ASSUME NEW r \in Requests PROVE approvals'[r] \in LogsOf(status'[r])
    <3>1. CASE r \in done
      BY <1>2, <2>1, <3>1 DEF RowsInv, DecisionsAreRecorded, LogsOf
    <3>2. CASE r \notin done
      BY <1>2, <3>2 DEF RowsInv, DecisionsAreRecorded
    <3> QED
      BY <3>1, <3>2
  <2> QED
    BY <1>2, <2>2 DEF RowsInv, DecisionsAreRecorded, Commanded
<1>12. KeysAreOfRounds'
  BY <1>2 DEF RowsInv, KeysAreOfRounds
<1>13. WeekIsBookedOnce'
  <2>1. ASSUME NEW w \in Weeks
        PROVE  /\ w \in done => /\ booked'[w] = {d} /\ target'[w] = d /\ commitKey'[w] = k
                                /\ selection'[w] = "committed"
               /\ w \notin done => /\ booked'[w] = booked[w] /\ target'[w] = target[w]
                                   /\ commitKey'[w] = commitKey[w] /\ commitKey[w] # k
                                   /\ selection'[w] = selection[w]
    <3>1. w \in done => booked[w] = {}
      BY <1>4 DEF RowsInv, WeekIsBookedOnce
    <3>2. commitKey[w] # k
      BY <1>2, RequestsAssumption DEF RowsInv, KeysAreOfRounds
    <3> QED
      BY <1>2, <3>1, <3>2
  <2>2. ASSUME NEW w \in Weeks
        PROVE  /\ selection'[w] \notin {"committed", "reversed"} => booked'[w] = {}
               /\ selection'[w] = "committed" => booked'[w] = {target'[w]}
               /\ selection'[w] = "reversed" => Cardinality(booked'[w]) = 1
               /\ booked'[w] # {} => commitKey'[w] \in rounds'
    BY <1>2, <2>1 DEF RowsInv, WeekIsBookedOnce
  <2>3. ASSUME NEW v \in Weeks, NEW w \in Weeks, booked'[v] # {}, commitKey'[v] = commitKey'[w]
        PROVE  booked'[v] = booked'[w]
    <3>1. v \in done <=> w \in done
      BY <2>1, <2>3
    <3>2. CASE v \in done
      BY <2>1, <3>1, <3>2
    <3>3. CASE v \notin done
      BY <2>1, <2>3, <3>1, <3>3 DEF RowsInv, WeekIsBookedOnce
    <3> QED
      BY <3>2, <3>3
  <2> QED
    BY <2>2, <2>3 DEF WeekIsBookedOnce
<1> QED
  BY <1>6, <1>7, <1>8, <1>9, <1>10, <1>11, <1>12, <1>13 DEF RowsInv

LEMMA VacationReverseKeeps ==
  ASSUME RequestsInv, NEW u \in Users, reverseVacationCommit(u)
  PROVE  RequestsInv'
<1> USE DEF RequestsInv
<1>1. PICK w \in Weeks : txn[u].week = w
  BY TxnFields DEF reverseVacationCommit
<1>2. /\ RowFree(u, w) /\ selection[w] = "committed"
      /\ selection' = [selection EXCEPT ![w] = "reversed"]
      /\ status' = [status EXCEPT ![w] = DerivedStatus("reversed")]
      /\ target' = [target EXCEPT ![w] = NoDraft]
      /\ isOverride' = isOverride \union {w}
      /\ Release(w)
      /\ UNCHANGED <<overdue, approvals, grantOf, commitKey, commands, roundVars>>
  BY <1>1 DEF reverseVacationCommit, DerivedStatus
<1>3. txn'[u] = Idle /\ OthersStand(u) /\ txn' \in [Users -> Txns]
  BY StepFields, StepTyped DEF reverseVacationCommit, Commit, Txns
<1>4. /\ LocksInv' /\ PairAgrees'
      /\ status' \in [Requests -> Statuses] /\ selection' \in [Weeks -> Selections]
  BY <1>2, <1>3, OthersDoNotHold, WeekStep DEF Selections
<1>5. \A x \in Weeks : selection'[x] = IF x = w THEN "reversed" ELSE selection[x]
  BY <1>2 DEF TypeOK
<1>6. w \in Live /\ Live' = Live \ {w} /\ grantOf[w] \in Grants
  BY <1>2, <1>5 DEF Live, RowsInv, GrantsComeWithApproval
<1>7. /\ UnitsMatchSelections'
      /\ consumed' \in [Grants -> Nat] /\ override' \in [Grants -> Nat]
      /\ version' \in [Grants -> Nat]
  BY <1>2, <1>6, ReleaseKeeps DEF RowsInv
<1>8. TypeOK'
  BY <1>2, <1>3, <1>4, <1>7 DEF TypeOK, roundVars
<1>9. GrantsComeWithApproval'
  BY <1>2, <1>5, <1>6 DEF RowsInv, GrantsComeWithApproval
<1>10. DecisionsAreRecorded'
  <2>1. approvals[w] \in LogsOf(DerivedStatus(selection[w]))
    BY DEF RowsInv, PairAgrees, DecisionsAreRecorded, Requests
  <2>2. approvals[w] \in LogsOf(DerivedStatus("reversed"))
    BY <1>2, <2>1 DEF LogsOf, DerivedStatus
  <2> QED
    BY <1>2, <2>2, DecisionsKept DEF RowsInv
<1>11. KeysAreOfRounds'
  BY <1>2 DEF RowsInv, KeysAreOfRounds, roundVars
<1>12. WeekIsBookedOnce'
  <2>1. Cardinality(booked[w]) = 1
    BY <1>2, FS_Singleton DEF RowsInv, WeekIsBookedOnce
  <2>2. \A x \in Weeks : x # w => target'[x] = target[x]
    BY <1>2 DEF TypeOK
  <2> QED
    BY <1>2, <1>5, <2>1, <2>2 DEF RowsInv, WeekIsBookedOnce, roundVars
<1> QED
  BY <1>4, <1>7, <1>8, <1>9, <1>10, <1>11, <1>12 DEF RowsInv
-----------------------------------------------------------------------------
LEMMA InvInit == Init => RequestsInv
<1> SUFFICES ASSUME Init PROVE RequestsInv
  OBVIOUS
<1> USE DEF Init
<1>1. TypeOK
  BY RequestsAssumption DEF TypeOK, Statuses, Logs, Selections, Txns
<1>2. LocksInv
  BY DEF LocksInv, RowsExclude, RowsStand, Rows, Idle
<1>3. GrantsComeWithApproval /\ PairAgrees /\ KeysAreOfRounds /\ WeekIsBookedOnce
  BY DEF GrantsComeWithApproval, PairAgrees, DerivedStatus, KeysAreOfRounds,
         WeekIsBookedOnce, Requests
<1>4. UnitsMatchSelections
  <2>1. Live = {}
    BY DEF Live
  <2> QED
    BY <2>1, FS_EmptySet DEF UnitsMatchSelections
<1>5. DecisionsAreRecorded
  <2>1. \A r \in Requests : approvals[r] \in LogsOf(status[r])
    BY DEF LogsOf
  <2>2. \A w \in Weeks : approvals[w] = <<>> /\ Commanded(w) = {}
    BY DEF Commanded, Requests
  <2> QED
    BY <2>1, <2>2 DEF DecisionsAreRecorded
<1> QED
  BY <1>1, <1>2, <1>3, <1>4, <1>5 DEF RequestsInv, RowsInv

LEMMA InvStep == RequestsInv /\ [Next]_vars => RequestsInv'
<1> SUFFICES ASSUME RequestsInv, [Next]_vars PROVE RequestsInv'
  OBVIOUS
<1>1. ASSUME NEW u \in Users, Ask(u) PROVE RequestsInv'
  BY <1>1, AskReads, SubmitKeeps, WithdrawKeeps, ReverseKeeps, VacationSubmitKeeps DEF Ask
<1>2. ASSUME NEW u \in Users, Write(u) PROVE RequestsInv'
  <2>1. CASE \/ \E r \in Plain : DecideItem(u, r)
             \/ CommitBatch(u) \/ LeaveWeek(u) \/ CommitWithdrawal(u)
    BY <2>1, BatchReads, BatchKeeps, WithdrawalReads, VacationWithdrawKeeps
  <2>2. CASE \/ TakeUnit(u) \/ ReleaseUnit(u)
             \/ approveVacationSelection(u) \/ denyVacationSelection(u)
    BY <2>2, ApprovalReads, ApproveKeeps, DenyKeeps
  <2>3. CASE \/ \E d \in Drafts : ListRound(u, d)
             \/ BookFirst(u)
             \/ \E w \in Weeks : CommitWeek(u, w)
    BY <2>3, RoundReads
  <2>4. CASE CommitRound(u) \/ reverseVacationCommit(u)
    BY <2>4, RoundKeeps, VacationReverseKeeps
  <2> QED
    BY <1>2, <2>1, <2>2, <2>3, <2>4 DEF Write
<1>3. ASSUME NEW u \in Users, BeginSweep(u) \/ CommitSweep(u) \/ Rollback(u)
      PROVE  RequestsInv'
  BY <1>3, SweepReads, SweepKeeps, RollbackReads
<1>4. CASE \E r \in Requests : DeadlinePasses(r)
  BY <1>4, DeadlineKeeps
<1>5. CASE UNCHANGED vars
  <2>1. LocksInv'
    BY <1>5 DEF RequestsInv, LocksInv, RowsExclude, RowsStand, Rows, vars,
                requestVars, selectionVars
  <2>2. Reads /\ txn' \in [Users -> Txns]
    BY <1>5 DEF vars, Reads, RequestsInv, TypeOK
  <2> QED
    BY <2>1, <2>2, ReadsTyped, ReadsKeepRows DEF RequestsInv
<1> QED
  BY <1>1, <1>2, <1>3, <1>4, <1>5 DEF Next

\* The inductive invariant: the locks of the open transactions, and the rows
\* they have yet to change, stand in every state.
THEOREM RequestsInvariant == Spec => []RequestsInv
<1>1. Init => RequestsInv
  BY InvInit
<1>2. RequestsInv /\ [Next]_vars => RequestsInv'
  BY InvStep
<1> QED
  BY <1>1, <1>2, PTL DEF Spec

\* The counters never go below zero and every row has a status, log, grant,
\* draft and key that it can have.
THEOREM TypeCorrect == Spec => []TypeOK
<1>1. RequestsInv => TypeOK
  BY DEF RequestsInv
<1> QED
  BY <1>1, RequestsInvariant, PTL

\* The quota's books: consumed and override count the weeks that hold a unit.
THEOREM BooksAreTrue == Spec => []UnitsMatchSelections
<1>1. RequestsInv => UnitsMatchSelections
  BY DEF RequestsInv, RowsInv
<1> QED
  BY <1>1, RequestsInvariant, PTL

\* A week's request says what its selection says.
THEOREM PairsStayTogether == Spec => []PairAgrees
<1>1. RequestsInv => PairAgrees
  BY DEF RequestsInv, RowsInv
<1> QED
  BY <1>1, RequestsInvariant, PTL

\* Status, log and command of a decision tell the same story.
THEOREM LogTellsTheStatus == Spec => []DecisionsAreRecorded
<1>1. RequestsInv => DecisionsAreRecorded
  BY DEF RequestsInv, RowsInv
<1> QED
  BY <1>1, RequestsInvariant, PTL

\* A week is booked in one draft, by the round that committed it.
THEOREM BookedByOneRound == Spec => []WeekIsBookedOnce
<1>1. RequestsInv => WeekIsBookedOnce
  BY DEF RequestsInv, RowsInv
<1> QED
  BY <1>1, RequestsInvariant, PTL
=============================================================================
