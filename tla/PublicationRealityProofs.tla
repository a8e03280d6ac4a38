---------------------- MODULE PublicationRealityProofs ----------------------
(***************************************************************************)
(* What the line of versions carries: the rows the staff see, the race of  *)
(* publications for a period, and the keys of their requests.              *)
(***************************************************************************)
EXTENDS PublicationProofs

-----------------------------------------------------------------------------
(* Open edits.  An insertion holds the period's row, so no publication of   *)
(* it is in progress; a change holds nothing but its own row.               *)

InsertsHold == \A u \in Users : txn[u].at = "added" =>
  /\ ~Frozen(txn[u].version)
  /\ CanShare(PeriodOf[txn[u].version])

ChangesRace == \A u \in Users :
  txn[u].at = "changed" /\ Frozen(txn[u].version) => txn[u].version \in raced

EditsInv == InsertsHold /\ ChangesRace

\* Only current versions have rows, and those not raced have all of theirs.
Mirrors ==
  /\ \A r \in reality : r[1] \in isCurrent
  /\ \A v \in isCurrent \ raced, m \in Staff : <<v, m>> \in reality <=> m \in content[v]

\* Current versions are frozen, and those of one period are one.
LEMMA CurrentFrozen ==
  ASSUME LineInv, NEW p \in Periods, NEW v \in Current(p)
  PROVE  Frozen(v) /\ Current(p) = {v}
<1>1. LastIsCurrent(p) /\ Len(records[p]) \in Nat /\ (records[p] # <<>> => Len(records[p]) > 0)
  BY LenProperties, EmptySeq DEF LineInv, TypeOK, HistoryIsALine
<1> QED
  BY <1>1 DEF LastIsCurrent, Frozen

\* Nothing of a transaction but its own step moves.
LEMMA OthersStay ==
  ASSUME TypeOK, NEW u \in Users, NEW t, Step(u, t)
  PROVE  txn'[u] = t /\ \A w \in Users \ {u} : txn'[w] = txn[w]
BY DEF TypeOK, Step

LEMMA EditsInit == Init => EditsInv
BY DEF Init, EditsInv, InsertsHold, ChangesRace, Idle

\* What a step of u must respect for the open edits to stay as they are.
LEMMA EditsKept ==
  ASSUME LineInv, EditsInv, NEW u \in Users, NEW t, Step(u, t),
         \A w \in Users \ {u} : txn[w].at = "added" =>
           state'[txn[w].version] \notin {"published", "superseded"},
         \A w \in Users \ {u} :
           txn[w].at = "changed" /\ state'[txn[w].version] \in {"published", "superseded"} =>
             txn[w].version \in raced',
         t.at = "added" => /\ state'[t.version] \notin {"published", "superseded"}
                           /\ CanShare(PeriodOf[t.version]),
         t.at = "changed" => state'[t.version] \notin {"published", "superseded"},
         t.at = "publishing" => \A w \in Users :
           txn[w].at = "added" => PeriodOf[txn[w].version] # PeriodOf[t.version]
  PROVE  EditsInv'
<1>1. txn'[u] = t /\ \A w \in Users \ {u} : txn'[w] = txn[w]
  BY OthersStay DEF LineInv
<1>2. ASSUME NEW w \in Users, txn'[w].at = "added"
      PROVE  /\ state'[txn'[w].version] \notin {"published", "superseded"}
             /\ \A x \in Users : txn'[x].at = "publishing" =>
                  PeriodOf[txn'[x].version] # PeriodOf[txn'[w].version]
  <2>1. CASE w = u
    BY <1>1, <1>2, <2>1 DEF CanShare, Holders
  <2>2. CASE w # u
    <3>1. txn'[w] = txn[w] /\ txn[w].at = "added"
      BY <1>1, <1>2, <2>2
    <3>2. CanShare(PeriodOf[txn[w].version])
      BY <3>1 DEF EditsInv, InsertsHold
    <3> QED
      BY <1>1, <2>2, <3>1, <3>2 DEF CanShare, Holders
  <2> QED
    BY <2>1, <2>2
<1>3. InsertsHold'
  BY <1>2 DEF InsertsHold, Frozen, CanShare, Holders
<1>4. ChangesRace'
  BY <1>1 DEF ChangesRace, Frozen
<1> QED
  BY <1>3, <1>4 DEF EditsInv

\* A step that freezes and thaws nothing leaves the edits of the others alone.
LEMMA EditsStay ==
  ASSUME LineInv, EditsInv, NEW u \in Users, NEW t, Step(u, t), UNCHANGED raced,
         \A v \in Versions : state'[v] \in {"published", "superseded"} => Frozen(v),
         t.at = "added" => ~Frozen(t.version) /\ CanShare(PeriodOf[t.version]),
         t.at = "changed" => ~Frozen(t.version),
         t.at \in {"added", "changed"} => t.version \in Versions,
         t.at = "publishing" => \A w \in Users :
           txn[w].at = "added" => PeriodOf[txn[w].version] # PeriodOf[t.version]
  PROVE  EditsInv'
<1>1. \A w \in Users : txn[w].at \in {"added", "changed"} => txn[w].version \in Versions
  BY TxnFields DEF LineInv
<1>2. \A w \in Users \ {u} : txn[w].at = "added" =>
        state'[txn[w].version] \notin {"published", "superseded"}
  BY <1>1 DEF EditsInv, InsertsHold
<1>3. \A w \in Users \ {u} :
        txn[w].at = "changed" /\ state'[txn[w].version] \in {"published", "superseded"} =>
          txn[w].version \in raced'
  BY <1>1 DEF EditsInv, ChangesRace
<1> QED
  BY <1>2, <1>3, EditsKept

LEMMA EditsKeptByDraft ==
  ASSUME LineInv, EditsInv, NEW u \in Users, Draft(u)
  PROVE  EditsInv'
<1> USE DEF versionVars
<1>1. PICK v \in Versions :
        \/ \E source \in SUBSET Versions : BeginDraft(u, v, source)
        \/ BeginEdit(u, v)
        \/ \E to \in States : BeginTransition(u, v, to)
        \/ \E k \in Keys : Request(u, v, k)
  BY DEF Draft
<1> PICK t : t = txn'[u]
  OBVIOUS
<1>2. Step(u, t) /\ t.at \notin {"added", "changed", "publishing"}
  BY <1>1 DEF BeginDraft, BeginEdit, BeginTransition, Request, Step, LineInv, TypeOK
<1>3. UNCHANGED <<state, raced>>
  BY <1>1 DEF BeginDraft, BeginEdit, BeginTransition, Request
<1> QED
  BY <1>2, <1>3, EditsStay DEF Frozen

LEMMA EditsKeptByWrite ==
  ASSUME LineInv, EditsInv, NEW u \in Users, Write(u), ~CommitPublish(u)
  PROVE  EditsInv'
<1> USE DEF versionVars
<1>1. TypeOK
  BY DEF LineInv
<1>2. ASSUME Commit(u), UNCHANGED raced,
             \A v \in Versions : state'[v] \in {"published", "superseded"} => Frozen(v)
      PROVE  EditsInv'
  <2> PICK t : t = Idle
    OBVIOUS
  <2>1. Step(u, t) /\ t.at = "idle"
    BY <1>2 DEF Commit, Idle
  <2> QED
    BY <1>2, <2>1, EditsStay
<1>3. CASE CommitDraft(u)
  <2>1. \A v \in Versions : state'[v] \in {"published", "superseded"} => Frozen(v)
    BY <1>1, <1>3 DEF CommitDraft, TypeOK, Frozen
  <2> QED
    BY <1>2, <1>3, <2>1 DEF CommitDraft
<1>4. ASSUME NEW m \in Staff, InsertAssignment(u, m)
      PROVE  EditsInv'
  <2> PICK t : t = [at |-> "added", version |-> txn[u].version, in |-> m]
    OBVIOUS
  <2>1. Step(u, t) /\ UNCHANGED <<state, raced>>
    BY <1>4 DEF InsertAssignment
  <2>2. /\ t.at = "added" /\ t.version \in Versions
        /\ ~Frozen(t.version) /\ CanShare(PeriodOf[t.version])
    BY <1>1, <1>4, TxnFields DEF InsertAssignment
  <2> QED
    BY <2>1, <2>2, EditsStay DEF Frozen
<1>5. ASSUME NEW m \in Staff, NEW to \in Staff \union {Nobody}, UpdateAssignment(u, m, to)
      PROVE  EditsInv'
  <2> PICK t : t = [at |-> "changed", version |-> txn[u].version, out |-> m, in |-> to]
    OBVIOUS
  <2>1. Step(u, t) /\ UNCHANGED <<state, raced>>
    BY <1>5 DEF UpdateAssignment
  <2>2. t.at = "changed" /\ t.version \in Versions /\ ~Frozen(t.version)
    BY <1>1, <1>5, TxnFields DEF UpdateAssignment
  <2> QED
    BY <2>1, <2>2, EditsStay DEF Frozen
<1>6. CASE CommitInsert(u) \/ CommitUpdate(u) \/ Rollback(u)
  BY <1>2, <1>6 DEF CommitInsert, CommitUpdate, Rollback, Frozen
<1>7. CASE CommitTransition(u)
  <2>1. txn[u].to \in Moves
    BY <1>1, <1>7, TxnFields DEF CommitTransition
  <2>2. \A v \in Versions : state'[v] \in {"published", "superseded"} => Frozen(v)
    BY <1>1, <1>7, <2>1 DEF CommitTransition, TypeOK, Frozen, Moves
  <2> QED
    BY <1>2, <1>7, <2>2 DEF CommitTransition
<1>8. CASE BeginPublish(u)
  <2> PICK t : t = [txn[u] EXCEPT !.at = "publishing"]
    OBVIOUS
  <2>1. txn[u] \in [at : {"requesting", "publishing"}, version : Versions, key : Keys,
                    seen : SUBSET Versions, line : Nat]
    BY <1>1, <1>8 DEF BeginPublish, TypeOK, Txns, Idle
  <2>2. t.at = "publishing" /\ t.version = txn[u].version
    BY <2>1
  <2>3. Step(u, t) /\ UNCHANGED <<state, raced>>
    BY <1>1, <1>8 DEF BeginPublish, Step, TypeOK
  <2>4. \A w \in Users : txn[w].at = "added" => PeriodOf[txn[w].version] # PeriodOf[t.version]
    BY <1>8, <2>2 DEF BeginPublish, CanLock, Holders
  <2> QED
    BY <2>2, <2>3, <2>4, EditsStay DEF Frozen
<1> QED
  BY <1>3, <1>4, <1>5, <1>6, <1>7, <1>8 DEF Write

\* A publication is alone with its period, so whoever is adding is elsewhere;
\* whoever is changing its version is remembered in raced.
LEMMA EditsKeptByPublish ==
  ASSUME LineInv, EditsInv, NEW u \in Users, CommitPublish(u)
  PROVE  EditsInv'
<1>1. TypeOK
  BY DEF LineInv
<1> PICK v \in Versions : v = txn[u].version
  BY <1>1, TxnFields DEF CommitPublish
<1>2. /\ raced \subseteq raced'
      /\ \A w \in Users : txn[w].at = "changed" /\ txn[w].version = v => v \in raced'
  BY DEF CommitPublish
<1>3. \A x \in Versions : state'[x] = IF x = v THEN "published"
        ELSE IF x \in Current(PeriodOf[v]) THEN "superseded" ELSE state[x]
  BY DEF CommitPublish
<1>4. \A x \in Versions : state'[x] \in {"published", "superseded"} => x = v \/ Frozen(x)
  BY <1>3, PublicationAssumption, CurrentFrozen DEF Frozen
<1>5. \A w \in Users \ {u} : txn[w].at = "added" =>
        state'[txn[w].version] \notin {"published", "superseded"}
  <2> SUFFICES ASSUME NEW w \in Users \ {u}, txn[w].at = "added"
               PROVE  state'[txn[w].version] \notin {"published", "superseded"}
    OBVIOUS
  <2>1. txn[w].version \in Versions
    BY <1>1, TxnFields
  <2>2. /\ ~Frozen(txn[w].version)
        /\ PeriodOf[txn[u].version] # PeriodOf[txn[w].version]
    BY DEF EditsInv, InsertsHold, CanShare, Holders, CommitPublish
  <2> QED
    BY <1>4, <2>1, <2>2
<1>6. \A w \in Users \ {u} :
        txn[w].at = "changed" /\ state'[txn[w].version] \in {"published", "superseded"} =>
          txn[w].version \in raced'
  BY <1>1, <1>2, <1>4, TxnFields DEF EditsInv, ChangesRace
<1> PICK t : t = Idle
  OBVIOUS
<1>7. Step(u, t) /\ t.at = "idle"
  BY DEF CommitPublish, Commit, Idle
<1> QED
  BY <1>5, <1>6, <1>7, EditsKept

LEMMA EditsKeptByNext == LineInv /\ EditsInv /\ [Next]_vars => EditsInv'
<1> SUFFICES ASSUME LineInv, EditsInv, [Next]_vars PROVE EditsInv'
  OBVIOUS
<1>1. CASE Administer \/ UNCHANGED vars
  <2>1. UNCHANGED <<state, txn, raced>>
    BY <1>1 DEF Administer, setLockState, transitionPeriodStatus, versionVars, periodVars, vars
  <2> QED
    BY <2>1 DEF EditsInv, InsertsHold, ChangesRace, Frozen, CanShare, Holders
<1> QED
  BY <1>1, EditsKeptByDraft, EditsKeptByWrite, EditsKeptByPublish DEF Next
-----------------------------------------------------------------------------
(* What a published version holds, and the rows that show it.               *)

LEMMA PublishedUntouched ==
  ASSUME LineInv, EditsInv, [Next]_vars, NEW v \in Versions, Frozen(v), v \notin raced
  PROVE  content'[v] = content[v]
<1>1. TypeOK
  BY DEF LineInv
<1>2. CASE UNCHANGED content
  BY <1>2
<1>3. ASSUME NEW u \in Users, CommitDraft(u) PROVE content'[v] = content[v]
  <2>1. txn[u].version # v
    BY <1>3 DEF CommitDraft, LineInv, TxnInv, Unwritten, Frozen
  <2> QED
    BY <1>1, <1>3, <2>1 DEF CommitDraft, TypeOK
<1>4. ASSUME NEW u \in Users, CommitInsert(u) PROVE content'[v] = content[v]
  <2>1. txn[u].version # v
    BY <1>4 DEF CommitInsert, EditsInv, InsertsHold
  <2> QED
    BY <1>1, <1>4, <2>1 DEF CommitInsert, TypeOK
<1>5. ASSUME NEW u \in Users, CommitUpdate(u) PROVE content'[v] = content[v]
  <2>1. txn[u].version # v
    BY <1>5 DEF CommitUpdate, EditsInv, ChangesRace
  <2> QED
    BY <1>1, <1>5, <2>1 DEF CommitUpdate, TypeOK
<1>6. ASSUME NEW u \in Users, Draft(u) PROVE UNCHANGED content
  BY <1>6 DEF Draft, BeginDraft, BeginEdit, BeginTransition, Request
<1>7. ASSUME NEW u \in Users, Write(u), ~CommitDraft(u), ~CommitInsert(u), ~CommitUpdate(u)
      PROVE  UNCHANGED content
  BY <1>7 DEF Write, InsertAssignment, UpdateAssignment, CommitTransition, BeginPublish,
              CommitPublish, Rollback
<1>8. ASSUME Administer \/ UNCHANGED vars PROVE UNCHANGED content
  BY <1>8 DEF Administer, setLockState, transitionPeriodStatus, vars
<1> QED
  BY <1>2, <1>3, <1>4, <1>5, <1>6, <1>7, <1>8 DEF Next

LEMMA CurrentIsFrozen ==
  ASSUME LineInv, NEW v \in isCurrent
  PROVE  v \in Versions /\ Frozen(v)
<1>1. v \in Versions /\ PeriodOf[v] \in Periods
  BY PublicationAssumption DEF LineInv, TypeOK
<1>2. v \in Current(PeriodOf[v])
  BY <1>1 DEF Current, Of
<1> QED
  BY <1>1, <1>2, CurrentFrozen

\* A publication clears its predecessor's rows and writes its own.
LEMMA MirrorsPublish ==
  ASSUME LineInv, Mirrors, NEW u \in Users, CommitPublish(u)
  PROVE  Mirrors'
<1>1. TypeOK
  BY DEF LineInv
<1> PICK v \in Versions : v = txn[u].version
  BY <1>1, TxnFields DEF CommitPublish
<1> PICK p \in Periods : p = PeriodOf[v]
  BY PublicationAssumption
<1>2. /\ isCurrent' = (isCurrent \ Current(p)) \union {v}
      /\ reality' = {r \in reality : r[1] \notin Current(p)} \union ({v} \X content[v])
      /\ raced \subseteq raced'
      /\ UNCHANGED content
  BY DEF CommitPublish, RowsAfter
<1>3. v \notin isCurrent
  BY CurrentIsFrozen DEF LineInv, TxnInv, PublisherIsNotFrozen, CommitPublish
<1>4. \A r \in reality' : r[1] \in isCurrent'
  BY <1>2 DEF Mirrors
<1>5. ASSUME NEW w \in isCurrent' \ raced', NEW m \in Staff
      PROVE  <<w, m>> \in reality' <=> m \in content[w]
  <2>1. CASE w = v
    <3>1. \A r \in reality : r[1] # v
      BY <1>3 DEF Mirrors
    <3> QED
      BY <1>2, <2>1, <3>1
  <2>2. CASE w # v
    <3>1. w \in isCurrent \ raced /\ w \notin Current(p)
      BY <1>2, <1>5, <2>2
    <3>2. <<w, m>> \in reality <=> m \in content[w]
      BY <3>1 DEF Mirrors
    <3> QED
      BY <1>2, <2>2, <3>1, <3>2
  <2> QED
    BY <2>1, <2>2
<1> QED
  BY <1>2, <1>4, <1>5 DEF Mirrors

LEMMA BookedPublish ==
  ASSUME LineInv, NobodyIsBookedTwice, NEW u \in Users, CommitPublish(u)
  PROVE  NobodyIsBookedTwice'
<1> PICK v : v = txn[u].version
  OBVIOUS
<1>1. /\ reality' = {r \in reality : r[1] \notin Current(PeriodOf[v])} \union ({v} \X content[v])
      /\ \A r \in reality : r[1] \notin Current(PeriodOf[v]) => r[2] \notin content[v]
  BY DEF CommitPublish, RowsAfter, BooksNobodyTwice
<1> SUFFICES ASSUME NEW r \in reality', NEW q \in reality', r[2] = q[2] PROVE r = q
  BY DEF NobodyIsBookedTwice
<1>2. CASE r \in {v} \X content[v] /\ q \in {v} \X content[v]
  BY <1>2
<1>3. CASE r \in {v} \X content[v] /\ q \notin {v} \X content[v]
  BY <1>1, <1>3
<1>4. CASE r \notin {v} \X content[v] /\ q \in {v} \X content[v]
  BY <1>1, <1>4
<1>5. CASE r \notin {v} \X content[v] /\ q \notin {v} \X content[v]
  BY <1>1, <1>5 DEF NobodyIsBookedTwice
<1> QED
  BY <1>2, <1>3, <1>4, <1>5
-----------------------------------------------------------------------------
RealityInv == LineInv /\ EditsInv /\ Mirrors /\ NobodyIsBookedTwice

LEMMA RealityInit == Init => RealityInv
BY LineInit, EditsInit DEF RealityInv, Init, Mirrors, NobodyIsBookedTwice

LEMMA RealityKept == RealityInv /\ [Next]_vars => RealityInv'
<1> SUFFICES ASSUME RealityInv, [Next]_vars PROVE RealityInv'
  OBVIOUS
<1>1. LineInv' /\ EditsInv'
  BY LineKeptByNext, EditsKeptByNext DEF RealityInv
<1>2. CASE \E u \in Users : CommitPublish(u)
  BY <1>1, <1>2, MirrorsPublish, BookedPublish DEF RealityInv
<1>3. CASE ~\E u \in Users : CommitPublish(u)
  <2>1. UNCHANGED <<reality, isCurrent, raced>>
    <3>1. CASE Administer \/ UNCHANGED vars
      BY <3>1 DEF Administer, setLockState, transitionPeriodStatus, vars, versionVars
    <3>2. ASSUME NEW u \in Users, Draft(u) PROVE UNCHANGED <<reality, isCurrent, raced>>
      BY <3>2 DEF Draft, BeginDraft, BeginEdit, BeginTransition, Request, versionVars
    <3>3. ASSUME NEW u \in Users, Write(u) PROVE UNCHANGED <<reality, isCurrent, raced>>
      BY <1>3, <3>3 DEF Write, CommitDraft, InsertAssignment, CommitInsert, UpdateAssignment,
              CommitUpdate, CommitTransition, BeginPublish, Rollback, versionVars
    <3> QED
      BY <3>1, <3>2, <3>3 DEF Next
  <2>2. \A v \in isCurrent \ raced : content'[v] = content[v]
    BY CurrentIsFrozen, PublishedUntouched DEF RealityInv
  <2>3. Mirrors'
    BY <2>1, <2>2 DEF RealityInv, Mirrors
  <2>4. NobodyIsBookedTwice'
    BY <2>1 DEF RealityInv, NobodyIsBookedTwice
  <2> QED
    BY <1>1, <2>3, <2>4 DEF RealityInv
<1> QED
  BY <1>2, <1>3

THEOREM RealityHolds == Spec => []RealityInv
BY RealityInit, RealityKept, PTL DEF Spec

LEMMA MirrorsSaySo == RealityInv => RealityMirrorsSchedule
<1> SUFFICES ASSUME RealityInv PROVE RealityMirrorsSchedule
  OBVIOUS
<1>1. \A r \in reality : r[1] \in isCurrent
  BY DEF RealityInv, Mirrors
<1>2. ASSUME NEW v \in isCurrent \ raced
      PROVE  {r[2] : r \in {x \in reality : x[1] = v}} = content[v]
  <2>1. reality \subseteq Versions \X Staff /\ content[v] \subseteq Staff
    BY CurrentIsFrozen DEF RealityInv, LineInv, TypeOK
  <2>2. \A m \in Staff : <<v, m>> \in reality <=> m \in content[v]
    BY DEF RealityInv, Mirrors
  <2>3. ASSUME NEW m \in content[v]
        PROVE  \E r \in {x \in reality : x[1] = v} : r[2] = m
    <3>1. <<v, m>> \in reality /\ <<v, m>>[1] = v /\ <<v, m>>[2] = m
      BY <2>1, <2>2, <2>3
    <3> QED
      BY <3>1
  <2>4. ASSUME NEW r \in reality, r[1] = v PROVE r[2] \in content[v]
    <3>1. r = <<v, r[2]>> /\ r[2] \in Staff
      BY <2>1, <2>4
    <3> QED
      BY <2>2, <3>1
  <2> QED
    BY <2>3, <2>4
<1> QED
  BY <1>1, <1>2 DEF RealityMirrorsSchedule

\* Staff see the current versions and nothing else, whatever was being edited
\* as they were published, up to the changes that were open at that moment.
THEOREM StaffSeeTheSchedule == Spec => []RealityMirrorsSchedule
BY RealityHolds, MirrorsSaySo, PTL

\* No publication books a person whom another period's current version books.
THEOREM NobodyTwice == Spec => []NobodyIsBookedTwice
BY RealityHolds, PTL DEF RealityInv

\* The set of assignments of a published version does not grow.
THEOREM PublishedDoesNotGrow == Spec => PublishedGainsNobody
<1>1. RealityInv /\ [Next]_vars =>
        [\A v \in Versions : Frozen(v) /\ v \notin raced => content'[v] = content[v]]_vars
  BY PublishedUntouched DEF RealityInv
<1> QED
  BY <1>1, RealityHolds, PTL DEF Spec, PublishedGainsNobody
-----------------------------------------------------------------------------
(* The race for a period, and the keys.  What a client saw is the end of    *)
(* some prefix of the line, and the line only grows; a publisher's key      *)
(* stays unused because nobody else writes the period's records.            *)

Saw(t) ==
  /\ t.line <= Len(records[PeriodOf[t.version]])
  /\ t.seen = IF t.line = 0 THEN {} ELSE {records[PeriodOf[t.version]][t.line].version}

ClientsSaw == \A u \in Users : txn[u].at \in {"requesting", "publishing"} => Saw(txn[u])

KeysUnused == \A u \in Users :
  txn[u].at = "publishing" => KeyUnused(PeriodOf[txn[u].version], txn[u].key)

RaceInv == ClientsSaw /\ KeysUnused /\ PublishesOverWhatItSaw /\ KeyPublishesOnce

LEMMA RaceInit == Init => RaceInv
<1> SUFFICES ASSUME Init PROVE RaceInv
  OBVIOUS
<1>1. ClientsSaw /\ KeysUnused
  BY DEF Init, ClientsSaw, KeysUnused, Idle
<1>2. PublishesOverWhatItSaw /\ KeyPublishesOnce
  BY DEF Init, PublishesOverWhatItSaw, KeyPublishesOnce
<1> QED
  BY <1>1, <1>2 DEF RaceInv

\* A step that records nothing keeps all of it, if its own transaction is right.
LEMMA RaceStay ==
  ASSUME LineInv, RaceInv, NEW u \in Users, NEW t, Step(u, t), UNCHANGED records,
         t.at \in {"requesting", "publishing"} => Saw(t),
         t.at = "publishing" => KeyUnused(PeriodOf[t.version], t.key)
  PROVE  RaceInv'
<1>1. txn'[u] = t /\ \A w \in Users \ {u} : txn'[w] = txn[w]
  BY OthersStay DEF LineInv
<1>2. ClientsSaw'
  <2> SUFFICES ASSUME NEW w \in Users, txn'[w].at \in {"requesting", "publishing"}
               PROVE  Saw(txn'[w])
    BY DEF ClientsSaw, Saw
  <2> QED
    BY <1>1 DEF RaceInv, ClientsSaw
<1>3. KeysUnused'
  BY <1>1 DEF RaceInv, KeysUnused, KeyUnused
<1>4. PublishesOverWhatItSaw' /\ KeyPublishesOnce'
  BY DEF RaceInv, PublishesOverWhatItSaw, KeyPublishesOnce
<1> QED
  BY <1>2, <1>3, <1>4 DEF RaceInv

LEMMA RaceKeptByDraft ==
  ASSUME LineInv, RaceInv, NEW u \in Users, Draft(u)
  PROVE  RaceInv'
<1> USE DEF periodVars
<1>1. PICK v \in Versions :
        \/ \E source \in SUBSET Versions : BeginDraft(u, v, source)
        \/ BeginEdit(u, v)
        \/ \E to \in States : BeginTransition(u, v, to)
        \/ \E k \in Keys : Request(u, v, k)
  BY DEF Draft
<1> PICK t : t = txn'[u]
  OBVIOUS
<1>2. CASE ~\E k \in Keys : Request(u, v, k)
  <2>1. /\ Step(u, t) /\ UNCHANGED records
        /\ t.at \notin {"requesting", "publishing"}
    BY <1>1, <1>2 DEF BeginDraft, BeginEdit, BeginTransition, Step, LineInv, TypeOK
  <2> QED
    BY <2>1, RaceStay
<1>3. ASSUME NEW k \in Keys, Request(u, v, k)
      PROVE  RaceInv'
  <2> PICK p \in Periods : p = PeriodOf[v]
    BY PublicationAssumption
  <2>1. /\ Step(u, t) /\ UNCHANGED records
        /\ t = [at |-> "requesting", version |-> v, key |-> k,
                seen |-> Current(p), line |-> Len(records[p])]
    BY <1>3 DEF Request, Step, LineInv, TypeOK
  <2>2. LastIsCurrent(p) /\ Len(records[p]) \in Nat /\ (Len(records[p]) = 0 <=> records[p] = <<>>)
    BY LenProperties, EmptySeq DEF LineInv, TypeOK, HistoryIsALine
  <2>3. Saw(t) /\ t.at = "requesting"
    BY <2>1, <2>2 DEF Saw, LastIsCurrent
  <2> QED
    BY <2>1, <2>3, RaceStay
<1> QED
  BY <1>2, <1>3

LEMMA RaceKeptByWrite ==
  ASSUME LineInv, RaceInv, NEW u \in Users, Write(u), ~CommitPublish(u)
  PROVE  RaceInv'
<1> USE DEF periodVars
<1> PICK t : t = txn'[u]
  OBVIOUS
<1>1. CASE BeginPublish(u)
  <2>1. txn[u] \in [at : {"requesting", "publishing"}, version : Versions, key : Keys,
                    seen : SUBSET Versions, line : Nat]
    BY <1>1 DEF BeginPublish, LineInv, TypeOK, Txns, Idle
  <2>2. t = [txn[u] EXCEPT !.at = "publishing"] /\ Step(u, t) /\ UNCHANGED records
    BY <1>1 DEF BeginPublish, Step, LineInv, TypeOK
  <2>3. /\ t.version = txn[u].version /\ t.key = txn[u].key
        /\ t.seen = txn[u].seen /\ t.line = txn[u].line
    BY <2>1, <2>2
  <2>4. Saw(t) /\ KeyUnused(PeriodOf[t.version], t.key)
    BY <1>1, <2>3 DEF BeginPublish, RaceInv, ClientsSaw, Saw
  <2> QED
    BY <2>2, <2>4, RaceStay
<1>2. CASE ~BeginPublish(u)
  <2>1. /\ Step(u, t) /\ UNCHANGED records
        /\ t.at \notin {"requesting", "publishing"}
    BY <1>2 DEF Write, CommitDraft, InsertAssignment, CommitInsert, UpdateAssignment, CommitUpdate,
            CommitTransition, Rollback, Commit, Step, Idle, LineInv, TypeOK
  <2> QED
    BY <2>1, RaceStay
<1> QED
  BY <1>1, <1>2

\* What a client saw when the next publication replaces just that is the end
\* of the line as it is now, for no version is recorded twice.
LEMMA SawTheEnd ==
  ASSUME LineInv, RaceInv, NEW u \in Users, CommitPublish(u)
  PROVE  txn[u].line = Len(records[PeriodOf[txn[u].version]])
<1>1. TypeOK
  BY DEF LineInv
<1> PICK v \in Versions : v = txn[u].version
  BY <1>1, TxnFields DEF CommitPublish
<1> PICK p \in Periods : p = PeriodOf[v]
  BY PublicationAssumption
<1> PICK n \in Nat : n = Len(records[p])
  BY <1>1, LenProperties DEF TypeOK
<1>2. /\ txn[u].line \in Nat /\ txn[u].line <= n
      /\ txn[u].seen = IF txn[u].line = 0 THEN {} ELSE {records[p][txn[u].line].version}
  BY <1>1, TxnFields DEF CommitPublish, RaceInv, ClientsSaw, Saw
<1>3. txn[u].seen = IF n = 0 THEN {} ELSE {records[p][n].version}
  BY <1>1, EmptySeq DEF CommitPublish, PriorExpected, LineInv, HistoryIsALine, LastIsCurrent, TypeOK
<1>4. \A i, j \in 1 .. n : records[p][i].version = records[p][j].version => i = j
  BY DEF LineInv, HistoryIsALine, Numbered
<1>5. CASE n = 0
  BY <1>2, <1>5
<1>6. CASE n # 0
  <2>1. txn[u].line # 0
    BY <1>2, <1>3, <1>6
  <2>2. records[p][txn[u].line].version = records[p][n].version
    BY <1>2, <1>3, <1>6, <2>1
  <2>3. txn[u].line \in 1 .. n /\ n \in 1 .. n
    BY <1>2, <1>6, <2>1
  <2> QED
    BY <1>4, <2>2, <2>3
<1> QED
  BY <1>5, <1>6

LEMMA RaceKeptByPublish ==
  ASSUME LineInv, RaceInv, NEW u \in Users, CommitPublish(u)
  PROVE  RaceInv'
<1>1. TypeOK
  BY DEF LineInv
<1> PICK v \in Versions : v = txn[u].version
  BY <1>1, TxnFields DEF CommitPublish
<1> PICK p \in Periods : p = PeriodOf[v]
  BY PublicationAssumption
<1> PICK k \in Keys : k = txn[u].key
  BY <1>1, TxnFields DEF CommitPublish
<1> PICK n \in Nat : n = Len(records[p])
  BY <1>1, LenProperties DEF TypeOK
<1>2. PICK r : r = [version |-> v, prior |-> Current(p), number |-> NextNumber(p),
                    key |-> k, awaited |-> txn[u].line = n]
  OBVIOUS
<1>3. r \in Row /\ r.key = k /\ r.awaited = (txn[u].line = n)
  <2>1. NextNumber(p) = n + 1
    BY NextIsLength DEF LineInv, TxnInv, PublisherIsNotFrozen, CommitPublish
  <2>2. Current(p) \subseteq Versions
    BY DEF Current, Of
  <2> QED
    BY <1>2, <2>1, <2>2 DEF Row
<1>4. records' = [records EXCEPT ![p] = Append(records[p], r)]
  BY <1>1, <1>2 DEF CommitPublish, TypeOK
<1>5. /\ Len(records'[p]) = n + 1
      /\ \A i \in 1 .. n : records'[p][i] = records[p][i]
      /\ records'[p][n + 1] = r
      /\ DOMAIN records'[p] = 1 .. n + 1 /\ DOMAIN records[p] = 1 .. n
  BY <1>1, <1>3, <1>4, AppendProperties, LenProperties DEF TypeOK
<1>6. \A q \in Periods \ {p} : records'[q] = records[q]
  BY <1>1, <1>4 DEF TypeOK
<1> PICK t : t = Idle
  OBVIOUS
<1>7. t.at = "idle" /\ txn'[u] = t /\ \A w \in Users \ {u} : txn'[w] = txn[w]
  BY <1>1, OthersStay DEF CommitPublish, Commit, Idle
<1>8. txn[u].line = n
  BY SawTheEnd
<1>9. PublishesOverWhatItSaw'
  <2> SUFFICES ASSUME NEW q \in Periods, NEW i \in DOMAIN records'[q]
               PROVE  records'[q][i].awaited
    BY DEF PublishesOverWhatItSaw
  <2>1. CASE q = p /\ i = n + 1
    BY <1>3, <1>5, <1>8, <2>1
  <2>2. CASE q # p \/ i # n + 1
    <3>1. CASE q = p
      <4>1. i \in 1 .. n
        BY <1>5, <2>2, <3>1
      <4>2. records'[p][i] = records[p][i] /\ i \in DOMAIN records[p]
        BY <1>5, <4>1
      <4> QED
        BY <3>1, <4>2 DEF RaceInv, PublishesOverWhatItSaw
    <3>2. CASE q # p
      BY <1>6, <3>2 DEF RaceInv, PublishesOverWhatItSaw
    <3> QED
      BY <3>1, <3>2
  <2> QED
    BY <2>1, <2>2
<1>10. \A i \in 1 .. n : records[p][i].key # k
  BY <1>5 DEF CommitPublish, RaceInv, KeysUnused, KeyUnused
<1>11. KeyPublishesOnce'
  <2> SUFFICES ASSUME NEW q \in Periods, NEW i \in DOMAIN records'[q], NEW j \in DOMAIN records'[q],
                      records'[q][i].key = records'[q][j].key
               PROVE  i = j
    BY DEF KeyPublishesOnce
  <2>1. CASE q # p
    BY <1>6, <2>1 DEF RaceInv, KeyPublishesOnce
  <2>2. CASE q = p
    <3>1. i \in 1 .. n + 1 /\ j \in 1 .. n + 1
      BY <1>5, <2>2
    <3>2. records'[p][i].key = records'[p][j].key
      BY <2>2
    <3>3. records'[p][n + 1].key = k
      BY <1>3, <1>5
    <3>4. CASE i \in 1 .. n /\ j \in 1 .. n
      <4>1. records[p][i].key = records[p][j].key
        BY <1>5, <3>2, <3>4
      <4> QED
        BY <1>5, <3>4, <4>1 DEF RaceInv, KeyPublishesOnce
    <3>5. CASE i = n + 1 /\ j \in 1 .. n
      <4>1. records'[p][j].key # k
        BY <1>5, <1>10, <3>5
      <4> QED
        BY <3>2, <3>3, <3>5, <4>1
    <3>6. CASE i \in 1 .. n /\ j = n + 1
      <4>1. records'[p][i].key # k
        BY <1>5, <1>10, <3>6
      <4> QED
        BY <3>2, <3>3, <3>6, <4>1
    <3> QED
      BY SMTT(20), <3>1, <3>4, <3>5, <3>6
  <2> QED
    BY <2>1, <2>2
<1>12. KeysUnused'
  <2> SUFFICES ASSUME NEW w \in Users, txn'[w].at = "publishing"
               PROVE  \A i \in DOMAIN records'[PeriodOf[txn'[w].version]] :
                        records'[PeriodOf[txn'[w].version]][i].key # txn'[w].key
    BY DEF KeysUnused, KeyUnused
  <2>1. w # u /\ txn'[w] = txn[w] /\ txn[w].version \in Versions
    BY <1>1, <1>7, TxnFields
  <2>2. PeriodOf[txn[w].version] \in Periods \ {p}
    BY <2>1, PublicationAssumption DEF CommitPublish, LineInv, TxnInv, OnePublisher
  <2> QED
    BY <1>6, <2>1, <2>2 DEF RaceInv, KeysUnused, KeyUnused
<1>13. ClientsSaw'
  <2> SUFFICES ASSUME NEW w \in Users, txn'[w].at \in {"requesting", "publishing"}
               PROVE  LET q == PeriodOf[txn'[w].version] IN
                        /\ txn'[w].line <= Len(records'[q])
                        /\ txn'[w].seen = IF txn'[w].line = 0 THEN {}
                                          ELSE {records'[q][txn'[w].line].version}
    BY DEF ClientsSaw, Saw
  <2>1. /\ w # u /\ txn'[w] = txn[w]
        /\ txn[w].version \in Versions /\ txn[w].line \in Nat
    BY <1>1, <1>7, TxnFields
  <2>2. Saw(txn[w])
    BY <2>1 DEF RaceInv, ClientsSaw
  <2>3. CASE PeriodOf[txn[w].version] = p
    <3>1. /\ txn[w].line <= n
          /\ txn[w].seen = IF txn[w].line = 0 THEN {} ELSE {records[p][txn[w].line].version}
      BY <2>2, <2>3 DEF Saw
    <3> PICK l \in Nat : l = txn[w].line
      BY <2>1
    <3>2. l <= n + 1 /\ (l # 0 => l \in 1 .. n)
      <4>1. l <= n
        BY <3>1
      <4> QED
        BY <4>1
    <3>3. CASE l = 0
      BY <1>5, <2>1, <2>3, <3>1, <3>2, <3>3
    <3>4. CASE l # 0
      <4>1. records'[p][l] = records[p][l]
        BY <1>5, <3>2, <3>4
      <4>2. txn[w].seen = {records'[p][l].version}
        BY <3>1, <3>4, <4>1
      <4> QED
        BY <1>5, <2>1, <2>3, <3>2, <3>4, <4>2
    <3> QED
      BY <3>3, <3>4
  <2>4. CASE PeriodOf[txn[w].version] # p
    <3>1. records'[PeriodOf[txn[w].version]] = records[PeriodOf[txn[w].version]]
      BY <1>6, <2>1, <2>4, PublicationAssumption
    <3> QED
      BY <2>1, <2>2, <3>1 DEF Saw
  <2> QED
    BY <2>3, <2>4
<1> QED
  BY <1>9, <1>11, <1>12, <1>13 DEF RaceInv

LEMMA RaceKept == LineInv /\ RaceInv /\ [Next]_vars => RaceInv'
<1> SUFFICES ASSUME LineInv, RaceInv, [Next]_vars PROVE RaceInv'
  OBVIOUS
<1>1. CASE Administer \/ UNCHANGED vars
  <2>1. UNCHANGED <<txn, records>>
    BY <1>1 DEF Administer, setLockState, transitionPeriodStatus, periodVars, vars
  <2> QED
    BY <2>1 DEF RaceInv, ClientsSaw, Saw, KeysUnused, KeyUnused, PublishesOverWhatItSaw,
                KeyPublishesOnce
<1> QED
  BY <1>1, RaceKeptByDraft, RaceKeptByWrite, RaceKeptByPublish DEF Next

\* The loser of a race for a period fails: what is published replaces what its
\* client saw.
THEOREM LosersFail == Spec => []PublishesOverWhatItSaw
<1>1. Init => RaceInv
  BY RaceInit
<1>2. LineInv /\ RaceInv /\ [Next]_vars => RaceInv'
  BY RaceKept
<1> QED
  BY <1>1, <1>2, LineHolds, PTL DEF Spec, RaceInv

\* However often and by whomever a request is repeated, its key publishes once.
THEOREM KeysPublishOnce == Spec => []KeyPublishesOnce
<1>1. Init => RaceInv
  BY RaceInit
<1>2. LineInv /\ RaceInv /\ [Next]_vars => RaceInv'
  BY RaceKept
<1> QED
  BY <1>1, <1>2, LineHolds, PTL DEF Spec, RaceInv
-----------------------------------------------------------------------------
(* Whoever leaves published is replaced.                                    *)

LEMMA PublishReplaces ==
  ASSUME LineInv, NEW u \in Users, CommitPublish(u), NEW v \in Versions, Frozen(v)
  PROVE  /\ number'[v] = number[v]
         /\ state'[v] # state[v] =>
              /\ state[v] = "published" /\ state'[v] = "superseded"
              /\ \E i \in DOMAIN records'[PeriodOf[v]] : v \in records'[PeriodOf[v]][i].prior
<1>1. TypeOK
  BY DEF LineInv
<1> PICK x \in Versions : x = txn[u].version
  BY <1>1, TxnFields DEF CommitPublish
<1> PICK p \in Periods : p = PeriodOf[x]
  BY PublicationAssumption
<1> PICK n \in Nat : n = Len(records[p])
  BY <1>1, LenProperties DEF TypeOK
<1>2. v # x
  BY DEF LineInv, TxnInv, PublisherIsNotFrozen, CommitPublish
<1>3. number'[v] = number[v]
  BY <1>1, <1>2 DEF CommitPublish, TypeOK
<1>4. state'[v] = IF v \in Current(p) THEN "superseded" ELSE state[v]
  BY <1>2 DEF CommitPublish
<1>5. v \in Current(p) => PeriodOf[v] = p
  BY DEF Current, Of
<1>6. v \in Current(p) => state[v] = "published"
  <2>1. /\ LastIsCurrent(p)
        /\ records[p] # <<>> => n \in 1 .. n
    BY <1>1, EmptySeq DEF LineInv, HistoryIsALine, TypeOK
  <2> QED
    BY <2>1 DEF LastIsCurrent
<1>7. v \in Current(p) => \E i \in DOMAIN records'[p] : v \in records'[p][i].prior
  <2>1. PICK r : r = [version |-> x, prior |-> Current(p), number |-> NextNumber(p),
                      key |-> txn[u].key, awaited |-> txn[u].line = n]
    OBVIOUS
  <2>2. r.prior = Current(p) /\ records' = [records EXCEPT ![p] = Append(records[p], r)]
    BY <1>1, <2>1 DEF CommitPublish, TypeOK
  <2>3. r \in Row
    <3>1. NextNumber(p) = n + 1
      BY NextIsLength DEF LineInv, TxnInv, PublisherIsNotFrozen, CommitPublish
    <3>2. Current(p) \subseteq Versions /\ txn[u].key \in Keys
      BY <1>1, TxnFields DEF Current, Of, CommitPublish
    <3> QED
      BY <2>1, <3>1, <3>2 DEF Row
  <2>4. DOMAIN records'[p] = 1 .. n + 1 /\ records'[p][n + 1] = r
    BY <1>1, <2>2, <2>3, AppendProperties, LenProperties DEF TypeOK
  <2>5. n + 1 \in DOMAIN records'[p]
    BY <2>4
  <2> QED
    BY <2>2, <2>4, <2>5
<1> QED
  BY <1>3, <1>4, <1>5, <1>6, <1>7

LEMMA OthersReplaceNothing ==
  ASSUME LineInv, [Next]_vars, ~\E u \in Users : CommitPublish(u), NEW v \in Versions, Frozen(v)
  PROVE  number'[v] = number[v] /\ state'[v] = state[v]
<1>1. TypeOK
  BY DEF LineInv
<1>2. CASE Administer \/ UNCHANGED vars
  BY <1>2 DEF Administer, setLockState, transitionPeriodStatus, vars, versionVars
<1>3. ASSUME NEW u \in Users, Draft(u) PROVE UNCHANGED <<number, state>>
  BY <1>3 DEF Draft, BeginDraft, BeginEdit, BeginTransition, Request, versionVars
<1>4. ASSUME NEW u \in Users, CommitDraft(u) PROVE number' = number /\ state'[v] = state[v]
  <2>1. txn[u].version # v
    BY <1>4 DEF CommitDraft, LineInv, TxnInv, Unwritten, Frozen
  <2> QED
    BY <1>1, <1>4, <2>1 DEF CommitDraft, TypeOK
<1>5. ASSUME NEW u \in Users, CommitTransition(u) PROVE number' = number /\ state'[v] = state[v]
  BY <1>1, <1>5 DEF CommitTransition, TransitionAllowed, TypeOK
<1>6. ASSUME NEW u \in Users, Write(u), ~CommitDraft(u), ~CommitTransition(u), ~CommitPublish(u)
      PROVE  UNCHANGED <<number, state>>
  BY <1>6 DEF Write, InsertAssignment, CommitInsert, UpdateAssignment, CommitUpdate,
              BeginPublish, Rollback, versionVars
<1> QED
  BY <1>2, <1>3, <1>4, <1>5, <1>6 DEF Next

\* A published version is left by replacement only, whatever transitions read
\* before it was published.
THEOREM PublishedIsOnlyReplaced == Spec => PublishedStands
<1>1. LineInv /\ [Next]_vars =>
        [\A v \in Versions : Frozen(v) =>
           /\ number'[v] = number[v]
           /\ state'[v] # state[v] =>
                /\ state[v] = "published" /\ state'[v] = "superseded"
                /\ \E i \in DOMAIN records'[PeriodOf[v]] :
                     v \in records'[PeriodOf[v]][i].prior]_vars
  BY PublishReplaces, OthersReplaceNothing
<1> QED
  BY <1>1, LineHolds, PTL DEF Spec, PublishedStands
-----------------------------------------------------------------------------
(* The refinement.  A publication is its commit; every other step leaves    *)
(* records and rows alone.                                                  *)

Told == History!HistoryNext \/ UNCHANGED History!historyVars

LEMMA PublishTells ==
  ASSUME RealityInv, RaceInv, NEW u \in Users, CommitPublish(u)
  PROVE  Told
<1>1. LineInv /\ TypeOK
  BY DEF RealityInv, LineInv
<1> PICK v \in Versions : v = txn[u].version
  BY <1>1, TxnFields DEF CommitPublish
<1> PICK p \in Periods : p = PeriodOf[v]
  BY PublicationAssumption
<1> PICK k \in Keys : k = txn[u].key
  BY <1>1, TxnFields DEF CommitPublish
<1> PICK n \in Nat : n = Len(records[p])
  BY <1>1, LenProperties DEF TypeOK
<1>2. ~Frozen(v)
  BY <1>1 DEF LineInv, TxnInv, PublisherIsNotFrozen, CommitPublish
<1>3. DOMAIN records[p] = 1 .. n /\ LastIsCurrent(p)
  BY <1>1, LenProperties DEF TypeOK, LineInv, HistoryIsALine
<1>4. \A i \in DOMAIN records[p] : records[p][i].version # v /\ records[p][i].key # k
  <2>1. ASSUME NEW i \in DOMAIN records[p] PROVE records[p][i].version # v
    <3>1. state[records[p][i].version] = IF i = n THEN "published" ELSE "superseded"
      BY <1>3 DEF LastIsCurrent
    <3> QED
      BY <1>2, <3>1 DEF Frozen
  <2>2. KeyUnused(p, k)
    BY DEF CommitPublish, RaceInv, KeysUnused
  <2> QED
    BY <2>1, <2>2 DEF KeyUnused
<1>5. records' = [records EXCEPT ![p] = Append(records[p],
        [version |-> v, prior |-> History!Latest(p), number |-> Len(records[p]) + 1,
         key |-> k, awaited |-> TRUE])]
  <2>1. Current(p) = History!Latest(p)
    BY <1>3 DEF LastIsCurrent, History!Latest
  <2>2. NextNumber(p) = Len(records[p]) + 1
    BY <1>1, <1>2, NextIsLength
  <2>3. (txn[u].line = Len(records[p])) = TRUE
    BY <1>1, SawTheEnd
  <2> QED
    BY <1>1, <2>1, <2>2, <2>3 DEF CommitPublish, TypeOK
<1>6. History!Elsewhere(p) = {r \in reality : r[1] \notin Current(p)}
  <2>1. \A r \in reality : r[1] \in Versions /\ r[1] \in isCurrent
    BY <1>1 DEF RealityInv, Mirrors, TypeOK
  <2>2. \A r \in reality : PeriodOf[r[1]] = p <=> r[1] \in Current(p)
    BY <2>1 DEF Current, Of
  <2> QED
    BY <2>2 DEF History!Elsewhere
<1>7. /\ \A r \in History!Elsewhere(p) : r[2] \notin content[v]
      /\ reality' = History!Elsewhere(p) \union ({v} \X content[v])
  BY <1>6 DEF CommitPublish, BooksNobodyTwice, RowsAfter
<1>8. content[v] \in SUBSET Staff
  BY <1>1 DEF TypeOK
<1>9. History!Publish(v, k)
  BY <1>4, <1>5, <1>7, <1>8 DEF History!Publish
<1> QED
  BY <1>9 DEF Told, History!HistoryNext

LEMMA OthersTellNothing ==
  ASSUME [Next]_vars, ~\E u \in Users : CommitPublish(u)
  PROVE  Told
<1> USE DEF Told, History!historyVars, versionVars, periodVars
<1>1. CASE Administer \/ UNCHANGED vars
  BY <1>1 DEF Administer, setLockState, transitionPeriodStatus, vars
<1>2. ASSUME NEW u \in Users, Draft(u) PROVE Told
  BY <1>2 DEF Draft, BeginDraft, BeginEdit, BeginTransition, Request
<1>3. ASSUME NEW u \in Users, Write(u) PROVE Told
  BY <1>3 DEF Write, CommitDraft, InsertAssignment, CommitInsert, UpdateAssignment,
              CommitUpdate, CommitTransition, BeginPublish, Rollback
<1> QED
  BY <1>1, <1>2, <1>3 DEF Next

\* A publication is one step of its period's history
\* (Publication.PublishesInOneStep): the next link of the line, for a client
\* that knew the line as it was, under a key of its own, with the version's
\* people in the place of the period's and nobody in two places.
THEOREM PublicationTellsHistory == Spec => PublishesInOneStep
<1>1. Init => History!HistoryInit
  BY DEF Init, History!HistoryInit
<1>2. RealityInv /\ RaceInv /\ [Next]_vars => [History!HistoryNext]_History!historyVars
  BY PublishTells, OthersTellNothing DEF Told
<1>3. LineInv /\ RaceInv /\ [Next]_vars => RaceInv'
  BY RaceKept
<1> QED
  BY <1>1, <1>2, <1>3, RaceInit, LineHolds, RealityHolds, PTL
     DEF Spec, PublishesInOneStep, History!HistorySpec
=============================================================================
