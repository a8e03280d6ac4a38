------------------------- MODULE PublicationProofs -------------------------
(***************************************************************************)
(* Proofs about Publication, for every number of users, periods, versions, *)
(* people and keys, and without the bounds TLC needs.                      *)
(***************************************************************************)
EXTENDS Publication, SequenceTheorems, TLAPS

-----------------------------------------------------------------------------
(* The inductive invariant.  Beside the line itself: what an open           *)
(* transaction has read and cannot have changed under it, one publisher to  *)
(* a period, and no number on a version outside history.                    *)

Unwritten == \A u \in Users : txn[u].at = "creating" =>
  /\ state[txn[u].version] = "none"
  /\ \A w \in Users : txn[w].at = "creating" /\ txn[w].version = txn[u].version => w = u

Written == \A u \in Users :
  txn[u].at \in {"moving", "requesting", "publishing"} => state[txn[u].version] # "none"

PublisherIsNotFrozen == \A u \in Users :
  txn[u].at = "publishing" => ~Frozen(txn[u].version)

OnePublisher == \A u, w \in Users :
  /\ txn[u].at = "publishing" /\ txn[w].at = "publishing"
  /\ PeriodOf[txn[u].version] = PeriodOf[txn[w].version]
  => u = w

Unnumbered == \A v \in Versions : ~Frozen(v) => number[v] = 0

TxnInv == Unwritten /\ Written /\ PublisherIsNotFrozen /\ OnePublisher

LineInv == TypeOK /\ TxnInv /\ Unnumbered /\ HistoryIsALine

\* What the step a transaction has reached says of its fields.
LEMMA TxnFields ==
  ASSUME TypeOK, NEW u \in Users
  PROVE  /\ txn[u] \in Txns
         /\ txn[u].at # "idle" => txn[u].version \in Versions
         /\ txn[u].at \in {"requesting", "publishing"} =>
              txn[u].key \in Keys /\ txn[u].seen \subseteq Versions /\ txn[u].line \in Nat
         /\ txn[u].at = "moving" => txn[u].to \in Moves
         /\ txn[u].at = "creating" => txn[u].source \subseteq Versions
         /\ txn[u].at = "added" => txn[u].in \in Staff
         /\ txn[u].at = "changed" => txn[u].out \in Staff /\ txn[u].in \in Staff \union {Nobody}
         /\ txn[u].at = "idle" <=> txn[u] = Idle
BY DEF TypeOK, Txns, Idle

LEMMA LineInit == Init => LineInv
<1> SUFFICES ASSUME Init PROVE LineInv
  OBVIOUS
<1>1. TypeOK
  BY PublicationAssumption DEF Init, TypeOK, States, Statuses, Txns, Idle
<1>2. TxnInv
  BY DEF Init, TxnInv, Unwritten, Written, PublisherIsNotFrozen, OnePublisher, Idle
<1>3. Unnumbered
  BY DEF Init, Unnumbered
<1>4. HistoryIsALine
  BY PublicationAssumption
     DEF Init, HistoryIsALine, Numbered, Linked, LastIsCurrent, Recorded, Frozen, Of, Current
<1> QED
  BY <1>1, <1>2, <1>3, <1>4 DEF LineInv

\* The number a publication takes is the next one of the period's line.
LEMMA NextIsLength ==
  ASSUME LineInv, NEW v \in Versions, ~Frozen(v)
  PROVE  NextNumber(PeriodOf[v]) = Len(records[PeriodOf[v]]) + 1
<1> DEFINE p == PeriodOf[v]
           n == Len(records[p])
           N == {number[w] : w \in Of(p)}
<1>1. p \in Periods /\ n \in Nat /\ v \in Of(p)
  BY PublicationAssumption, LenProperties DEF LineInv, TypeOK, Of
<1>2. \A w \in Of(p) : number[w] \in Nat /\ number[w] <= n
  <2> SUFFICES ASSUME NEW w \in Of(p) PROVE number[w] \in Nat /\ number[w] <= n
    OBVIOUS
  <2>1. CASE Frozen(w)
    BY <2>1, <1>1 DEF LineInv, HistoryIsALine, Recorded, Numbered
  <2>2. CASE ~Frozen(w)
    BY <2>2, <1>1 DEF LineInv, Unnumbered, Of
  <2> QED
    BY <2>1, <2>2
<1>3. n \in N
  <2>1. CASE n = 0
    BY <2>1, <1>1 DEF LineInv, Unnumbered
  <2>2. CASE n > 0
    <3>1. n \in 1 .. n
      BY <2>2, <1>1
    <3> QED
      BY <3>1, <1>1 DEF LineInv, HistoryIsALine, Numbered
  <2> QED
    BY <1>1, <2>1, <2>2
<1>4. \A k \in N : (\A w \in Of(p) : number[w] <= k) => k = n
  BY <1>1, <1>2, <1>3
<1>5. (CHOOSE k \in N : \A w \in Of(p) : number[w] <= k) = n
  BY <1>2, <1>3, <1>4
<1> QED
  BY <1>5, 1 + n = n + 1 DEF NextNumber
-----------------------------------------------------------------------------
(* Type correctness.                                                        *)

LEMMA StepTyped ==
  ASSUME TypeOK, NEW u \in Users, NEW t \in Txns, Step(u, t)
  PROVE  txn' \in [Users -> Txns]
BY DEF TypeOK, Step

LEMMA IdleTyped == Idle \in Txns
BY DEF Txns

LEMMA DraftTyped ==
  ASSUME TypeOK, NEW u \in Users, Draft(u)
  PROVE  TypeOK'
<1> USE DEF versionVars, periodVars, boundVars
<1>1. PICK v \in Versions :
        \/ \E source \in SUBSET Versions : BeginDraft(u, v, source)
        \/ BeginEdit(u, v)
        \/ \E to \in States : BeginTransition(u, v, to)
        \/ \E k \in Keys : Request(u, v, k)
  BY DEF Draft
<1>2. ASSUME NEW source \in SUBSET Versions, BeginDraft(u, v, source)
      PROVE  TypeOK'
  <2>1. [at |-> "creating", version |-> v, source |-> source] \in Txns
    BY DEF Txns
  <2> QED
    BY <1>2, <2>1, StepTyped DEF BeginDraft, TypeOK
<1>3. CASE BeginEdit(u, v)
  <2>1. [at |-> "editing", version |-> v] \in Txns
    BY DEF Txns
  <2> QED
    BY <1>3, <2>1, StepTyped DEF BeginEdit, TypeOK
<1>4. ASSUME NEW to \in States, BeginTransition(u, v, to)
      PROVE  TypeOK'
  <2>1. to \in Moves
    BY <1>4 DEF BeginTransition, LegalTransitions, Moves
  <2>2. [at |-> "moving", version |-> v, to |-> to] \in Txns
    BY <2>1 DEF Txns
  <2> QED
    BY <1>4, <2>2, StepTyped DEF BeginTransition, TypeOK
<1>5. ASSUME NEW k \in Keys, Request(u, v, k)
      PROVE  TypeOK'
  <2> DEFINE t == [at |-> "requesting", version |-> v, key |-> k,
                   seen |-> Current(PeriodOf[v]), line |-> Len(records[PeriodOf[v]])]
  <2>1. Len(records[PeriodOf[v]]) \in Nat
    BY PublicationAssumption, LenProperties DEF TypeOK
  <2>2. t \in Txns
    BY <2>1 DEF Txns, Current, Of
  <2>3. Step(u, t)
    BY <1>5 DEF Request
  <2> HIDE DEF t
  <2> QED
    BY <1>5, <2>2, <2>3, StepTyped DEF Request, TypeOK
<1> QED
  BY <1>1, <1>2, <1>3, <1>4, <1>5

LEMMA WriteTyped ==
  ASSUME TypeOK, NEW u \in Users, Write(u), ~CommitPublish(u)
  PROVE  TypeOK'
<1> USE DEF versionVars, periodVars, boundVars
<1>1. CASE CommitDraft(u)
  <2>1. txn[u].version \in Versions /\ txn[u].source \subseteq Versions
    BY <1>1, TxnFields DEF CommitDraft
  <2>2. UNION {content[w] : w \in txn[u].source} \in SUBSET Staff
    BY <2>1 DEF TypeOK
  <2> QED
    BY <1>1, <2>1, <2>2, IdleTyped, StepTyped DEF CommitDraft, Commit, TypeOK, States
<1>2. ASSUME NEW m \in Staff, InsertAssignment(u, m)
      PROVE  TypeOK'
  <2>1. txn[u].version \in Versions
    BY <1>2, TxnFields DEF InsertAssignment
  <2>2. [at |-> "added", version |-> txn[u].version, in |-> m] \in Txns
    BY <2>1 DEF Txns
  <2> QED
    BY <1>2, <2>2, StepTyped, PublicationAssumption DEF InsertAssignment, TypeOK
<1>3. CASE CommitInsert(u)
  <2>1. txn[u].version \in Versions /\ txn[u].in \in Staff
    BY <1>3, TxnFields DEF CommitInsert
  <2> QED
    BY <1>3, <2>1, IdleTyped, StepTyped DEF CommitInsert, Commit, TypeOK
<1>4. ASSUME NEW m \in Staff, NEW to \in Staff \union {Nobody}, UpdateAssignment(u, m, to)
      PROVE  TypeOK'
  <2>1. txn[u].version \in Versions
    BY <1>4, TxnFields DEF UpdateAssignment
  <2>2. [at |-> "changed", version |-> txn[u].version, out |-> m, in |-> to] \in Txns
    BY <2>1 DEF Txns
  <2> QED
    BY <1>4, <2>2, StepTyped, PublicationAssumption DEF UpdateAssignment, TypeOK
<1>5. CASE CommitUpdate(u)
  <2>1. txn[u].version \in Versions /\ txn[u].in \in Staff \union {Nobody}
    BY <1>5, TxnFields DEF CommitUpdate
  <2> QED
    BY <1>5, <2>1, IdleTyped, StepTyped DEF CommitUpdate, Commit, TypeOK
<1>6. CASE CommitTransition(u)
  <2>1. txn[u].version \in Versions /\ txn[u].to \in Moves
    BY <1>6, TxnFields DEF CommitTransition
  <2> QED
    BY <1>6, <2>1, IdleTyped, StepTyped DEF CommitTransition, Commit, TypeOK, States, Moves
<1>7. CASE BeginPublish(u)
  <2>1. txn[u] \in [at : {"requesting", "publishing"}, version : Versions, key : Keys,
                    seen : SUBSET Versions, line : Nat]
    BY <1>7 DEF BeginPublish, TypeOK, Txns, Idle
  <2>2. [txn[u] EXCEPT !.at = "publishing"] \in Txns
    BY <2>1 DEF Txns
  <2>3. txn' \in [Users -> Txns]
    BY <1>7, <2>2 DEF BeginPublish, TypeOK
  <2> QED
    BY <1>7, <2>3 DEF BeginPublish, TypeOK
<1>8. CASE Rollback(u)
  BY <1>8, IdleTyped, StepTyped DEF Rollback, Commit, TypeOK
<1> QED
  BY <1>1, <1>2, <1>3, <1>4, <1>5, <1>6, <1>7, <1>8 DEF Write

LEMMA PublishTyped ==
  ASSUME LineInv, NEW u \in Users, CommitPublish(u)
  PROVE  TypeOK'
<1> DEFINE v == txn[u].version
           p == PeriodOf[v]
           r == [version |-> v, prior |-> Current(p), number |-> NextNumber(p),
                 key |-> txn[u].key, awaited |-> txn[u].line = Len(records[p])]
<1>1. TypeOK /\ v \in Versions /\ p \in Periods /\ txn[u].key \in Keys /\ ~Frozen(v)
  BY TxnFields, PublicationAssumption
     DEF LineInv, TxnInv, PublisherIsNotFrozen, TypeOK, CommitPublish
<1>2. NextNumber(p) \in Nat
  BY <1>1, NextIsLength, LenProperties DEF TypeOK
<1>3. r \in Row
  BY <1>1, <1>2 DEF Row, Current, Of
<1>4. Append(records[p], r) \in Seq(Row)
  <2> HIDE DEF r
  <2> QED
    BY <1>1, <1>3, AppendProperties DEF TypeOK
<1>5. records' \in [Periods -> Seq(Row)]
  <2>1. records' = [records EXCEPT ![p] = Append(records[p], r)]
    BY <1>1 DEF CommitPublish, TypeOK
  <2> HIDE DEF r
  <2> QED
    BY <1>1, <1>4, <2>1 DEF TypeOK
<1>6. state' \in [Versions -> States \ {"publishing"}]
  BY <1>1 DEF CommitPublish, TypeOK, States
<1>7. reality' \subseteq Versions \X Staff
  BY <1>1 DEF CommitPublish, TypeOK, RowsAfter
<1>8. number' \in [Versions -> Nat]
  BY <1>1, <1>2 DEF CommitPublish, TypeOK
<1>9. isCurrent' \subseteq Versions /\ raced' \subseteq Versions
  BY <1>1 DEF CommitPublish, TypeOK
<1>10. txn' \in [Users -> Txns]
  BY <1>1, IdleTyped, StepTyped DEF CommitPublish, Commit
<1> QED
  BY <1>1, <1>5, <1>6, <1>7, <1>8, <1>9, <1>10 DEF CommitPublish, TypeOK, boundVars

LEMMA AdministerTyped ==
  ASSUME TypeOK, Administer
  PROVE  TypeOK'
<1> USE PublicationAssumption DEF versionVars, periodVars, boundVars
<1>1. ASSUME NEW v \in Versions, setLockState(v)
      PROVE  TypeOK'
  BY <1>1 DEF setLockState, Freeze, TypeOK
<1>2. ASSUME NEW p \in Periods, NEW to \in Statuses, transitionPeriodStatus(p, to)
      PROVE  TypeOK'
  BY <1>2 DEF transitionPeriodStatus, Freeze, TypeOK
<1> QED
  BY <1>1, <1>2 DEF Administer
-----------------------------------------------------------------------------
(* What open transactions have read.                                        *)

\* A step into t keeps the invariant if t has just read what it needs.
LEMMA OpenKept ==
  ASSUME LineInv, NEW u \in Users, NEW t \in Txns, Step(u, t), UNCHANGED state,
         t.at = "creating" => /\ state[t.version] = "none"
                              /\ \A w \in Users : txn[w].at = "creating" => txn[w].version # t.version,
         t.at \in {"moving", "requesting", "publishing"} => state[t.version] # "none",
         t.at = "publishing" =>
           /\ ~Frozen(t.version)
           /\ \A w \in Users : txn[w].at = "publishing" => PeriodOf[txn[w].version] # PeriodOf[t.version]
  PROVE  TxnInv'
<1>1. txn' = [txn EXCEPT ![u] = t] /\ txn \in [Users -> Txns]
  BY DEF Step, LineInv, TypeOK
<1>2. txn'[u] = t /\ \A w \in Users : w # u => txn'[w] = txn[w]
  BY <1>1
<1>3. Unwritten'
  BY <1>2 DEF LineInv, TxnInv, Unwritten
<1>4. Written'
  BY <1>2 DEF LineInv, TxnInv, Written
<1>5. PublisherIsNotFrozen'
  BY <1>2 DEF LineInv, TxnInv, PublisherIsNotFrozen, Frozen
<1>6. OnePublisher'
  BY <1>2 DEF LineInv, TxnInv, OnePublisher
<1> QED
  BY <1>3, <1>4, <1>5, <1>6 DEF TxnInv

\* A commit keeps it if the states it writes disturb no other transaction.
LEMMA CommitKept ==
  ASSUME LineInv, NEW u \in Users, Commit(u),
         \A v \in Versions : state[v] # "none" => state'[v] # "none",
         \A w \in Users : w # u /\ txn[w].at = "creating" => state'[txn[w].version] = "none",
         \A w \in Users : w # u /\ txn[w].at = "publishing" =>
           state'[txn[w].version] \notin {"published", "superseded"}
  PROVE  TxnInv'
<1>1. txn' = [txn EXCEPT ![u] = Idle] /\ TypeOK
  BY DEF Commit, Step, LineInv
<1>2. txn'[u] = Idle /\ \A w \in Users : w # u => txn'[w] = txn[w]
  BY <1>1 DEF TypeOK
<1>3. Idle.at = "idle"
  BY DEF Idle
<1>4. Unwritten'
  BY <1>2, <1>3 DEF LineInv, TxnInv, Unwritten
<1>5. Written'
  <2> SUFFICES ASSUME NEW w \in Users, txn'[w].at \in {"moving", "requesting", "publishing"}
               PROVE  state'[txn'[w].version] # "none"
    BY DEF Written
  <2>1. w # u /\ txn'[w] = txn[w]
    BY <1>2, <1>3
  <2>2. txn[w].version \in Versions
    BY <1>1, <2>1, TxnFields
  <2> QED
    BY <2>1, <2>2 DEF LineInv, TxnInv, Written
<1>6. PublisherIsNotFrozen'
  BY <1>2, <1>3 DEF LineInv, TxnInv, PublisherIsNotFrozen, Frozen
<1>7. OnePublisher'
  BY <1>2, <1>3 DEF LineInv, TxnInv, OnePublisher
<1> QED
  BY <1>4, <1>5, <1>6, <1>7 DEF TxnInv

-----------------------------------------------------------------------------
(* The line.                                                                *)

\* It holds as long as versions and records are left alone, but for states
\* outside history.
LEMMA LineKept ==
  ASSUME LineInv, UNCHANGED <<isCurrent, number, records>>, state' \in [Versions -> States],
         \A v \in Versions : state'[v] # state[v] =>
           /\ ~Frozen(v)
           /\ state'[v] \notin {"published", "superseded"}
  PROVE  Unnumbered' /\ HistoryIsALine'
<1>1. \A v \in Versions : Frozen(v)' <=> Frozen(v)
  BY DEF Frozen
<1>2. Unnumbered'
  BY <1>1 DEF LineInv, Unnumbered
<1>3. ASSUME NEW p \in Periods
      PROVE  (Numbered(p) /\ Linked(p) /\ LastIsCurrent(p) /\ Recorded(p))'
  <2>1. Numbered(p) /\ Linked(p) /\ LastIsCurrent(p) /\ Recorded(p)
    BY DEF LineInv, HistoryIsALine
  <2>2. Numbered(p)' /\ Linked(p)'
    BY <2>1 DEF Numbered, Linked, Of
  <2>3. \A i \in 1 .. Len(records[p]) :
          state'[records[p][i].version] = state[records[p][i].version]
    BY <2>1 DEF Numbered, LastIsCurrent, Of, Frozen
  <2>4. LastIsCurrent(p)'
    BY <2>1, <2>3 DEF LastIsCurrent, Current, Of
  <2>5. Recorded(p)'
    BY <2>1, <1>1 DEF Recorded, Of
  <2> QED
    BY <2>2, <2>4, <2>5
<1> QED
  BY <1>2, <1>3 DEF HistoryIsALine
\* A publication adds the next link, and moves no other period's line.
LEMMA PublishKeepsLine ==
  ASSUME LineInv, NEW u \in Users, CommitPublish(u)
  PROVE  Unnumbered' /\ HistoryIsALine'
<1>1. TypeOK /\ txn[u].version \in Versions /\ ~Frozen(txn[u].version)
  BY TxnFields DEF LineInv, TxnInv, PublisherIsNotFrozen, CommitPublish
<1> PICK v \in Versions : v = txn[u].version
  BY <1>1
<1> PICK p \in Periods : p = PeriodOf[v]
  BY PublicationAssumption
<1> PICK n \in Nat : n = Len(records[p])
  BY <1>1, LenProperties DEF TypeOK
<1> PICK old : old = Current(p)
  OBVIOUS
<1>2. PICK r : r = [version |-> v, prior |-> old, number |-> NextNumber(p),
                  key |-> txn[u].key, awaited |-> txn[u].line = n]
  OBVIOUS
<1>3. TypeOK /\ v \in Of(p) /\ p \in Periods /\ ~Frozen(v) /\ n \in Nat
  BY <1>1 DEF Of
<1>4. NextNumber(p) = n + 1
  BY <1>3, NextIsLength DEF Of
<1>5. Numbered(p) /\ Linked(p) /\ LastIsCurrent(p) /\ Recorded(p)
  BY <1>3 DEF LineInv, HistoryIsALine
<1>6. /\ r.version = v /\ r.prior = old /\ r.number = n + 1
      /\ r \in Row
  <2>1. r.version = v /\ r.prior = old /\ r.number = n + 1
    BY <1>4, <1>2
  <2>2. txn[u].key \in Keys
    BY <1>3, TxnFields DEF CommitPublish
  <2>3. r \in Row
    BY <1>3, <1>4, <1>2, <2>2 DEF Row, Current, Of
  <2> QED
    BY <2>1, <2>3
<1>7. records' = [records EXCEPT ![p] = Append(records[p], r)]
  BY <1>3, <1>2 DEF CommitPublish, TypeOK
<1>8. isCurrent' = (isCurrent \ old) \union {v}
  BY DEF CommitPublish
<1>9. \A w \in Versions : state'[w] = IF w = v THEN "published"
                                       ELSE IF w \in old THEN "superseded" ELSE state[w]
  BY DEF CommitPublish
<1>10. \A w \in Versions : number'[w] = IF w = v THEN n + 1 ELSE number[w]
  BY <1>3, <1>4 DEF CommitPublish, TypeOK
<1>11. /\ Len(records'[p]) = n + 1
       /\ \A i \in 1 .. n : records'[p][i] = records[p][i]
       /\ records'[p][n + 1] = r
  BY <1>3, <1>6, <1>7, AppendProperties DEF TypeOK
<1>12. n = 0 <=> records[p] = <<>>
  BY <1>3, EmptySeq DEF TypeOK
<1>13. \A i \in 1 .. n : /\ records[p][i].version \in Of(p)
                         /\ records[p][i].version # v
                         /\ Frozen(records[p][i].version)
  <2>1. \A i \in 1 .. n : records[p][i].version \in Of(p)
    BY <1>5 DEF Numbered
  <2>2. \A i \in 1 .. n : Frozen(records[p][i].version)
    BY <1>5 DEF LastIsCurrent, Frozen
  <2> QED
    BY <2>1, <2>2, <1>3
<1>14. old = IF n = 0 THEN {} ELSE {records[p][n].version}
  <2>1. Current(p) = IF records[p] = <<>> THEN {} ELSE {records[p][Len(records[p])].version}
    BY <1>5 DEF LastIsCurrent
  <2> QED
    BY <2>1, <1>12
<1>15. \A w \in old : n > 0 /\ w = records[p][n].version
  BY <1>3, <1>14
<1>16. \A i \in 1 .. n : i # n => records[p][i].version \notin old
  BY SMTT(20), <1>3, <1>5, <1>15 DEF Numbered
<1>17. Numbered(p)'
  <2> SUFFICES ASSUME NEW i \in 1 .. n + 1
               PROVE  /\ records'[p][i].version \in Of(p)
                      /\ records'[p][i].number = i
                      /\ number'[records'[p][i].version] = i
    BY <1>11 DEF Numbered, Of
  <2>1. CASE i \in 1 .. n
    <3>1. records[p][i].version \in Versions
      BY <2>1, <1>13 DEF Of
    <3>2. /\ records[p][i].version \in Of(p)
          /\ records[p][i].number = i
          /\ number[records[p][i].version] = i
      BY <2>1, <1>5 DEF Numbered
    <3>3. number'[records[p][i].version] = number[records[p][i].version]
      BY <2>1, <3>1, <1>10, <1>13
    <3>4. records'[p][i] = records[p][i]
      BY <2>1, <1>11
    <3> QED
      BY <3>2, <3>3, <3>4
  <2>2. CASE i = n + 1
    BY <2>2, <1>3, <1>6, <1>10, <1>11 DEF Of
  <2> QED
    BY SMTT(20), <1>3, <2>1, <2>2
<1>18. Linked(p)'
  <2> SUFFICES ASSUME NEW i \in 1 .. n + 1
               PROVE  records'[p][i].prior = IF i = 1 THEN {} ELSE {records'[p][i - 1].version}
    BY <1>11 DEF Linked
  <2>1. CASE i \in 1 .. n
    <3>1. records[p][i].prior = IF i = 1 THEN {} ELSE {records[p][i - 1].version}
      BY <2>1, <1>5 DEF Linked
    <3>2. i # 1 => i - 1 \in 1 .. n
      BY <2>1, <1>3
    <3>3. i # 1 => records'[p][i - 1] = records[p][i - 1]
      BY <3>2, <1>11
    <3> QED
      BY <2>1, <3>1, <3>3, <1>11
  <2>2. CASE i = n + 1 /\ n = 0
    <3>1. old = {}
      BY <2>2, <1>15
    <3> QED
      BY <2>2, <3>1, <1>6, <1>11
  <2>3. CASE i = n + 1 /\ n > 0
    <3>1. i # 1 /\ i - 1 = n /\ n \in 1 .. n
      BY <2>3, <1>3
    <3>2. records'[p][i] = r /\ records'[p][i - 1] = records[p][n]
      BY <2>3, <3>1, <1>11
    <3>3. old = {records[p][n].version}
      BY <2>3, <1>14
    <3> QED
      BY <3>1, <3>2, <3>3, <1>6
  <2> QED
    BY <1>3, <2>1, <2>2, <2>3
<1>19. LastIsCurrent(p)'
  <2>1. ASSUME NEW i \in 1 .. n + 1
        PROVE  state'[records'[p][i].version] = IF i = n + 1 THEN "published" ELSE "superseded"
    <3>1. CASE i = n + 1
      BY <3>1, <1>3, <1>6, <1>9, <1>11 DEF Of
    <3>2. CASE i \in 1 .. n
      <4>0. records[p][i].version \in Versions /\ records[p][i].version # v
        BY <3>2, <1>13 DEF Of
      <4>1. i # n + 1 /\ records'[p][i] = records[p][i]
        BY <3>2, <1>3, <1>11
      <4>2. i # n => state[records[p][i].version] = "superseded"
        BY <3>2, <1>5 DEF LastIsCurrent
      <4>3. i = n => records[p][i].version \in old
        BY <3>2, <1>3, <1>14
      <4> QED
        BY <3>2, <4>0, <4>1, <4>2, <4>3, <1>9, <1>16
    <3> QED
      BY <1>3, <3>1, <3>2
  <2>2. Current(p)' = {v}
    BY <1>3, <1>8 DEF Current, Of
  <2>3. records'[p] # <<>>
    BY <1>3, <1>11
  <2>4. records'[p][Len(records'[p])].version = v
    BY <1>6, <1>11
  <2>5. Current(p)' = IF records'[p] = <<>> THEN {} ELSE {records'[p][Len(records'[p])].version}
    BY <2>2, <2>3, <2>4
  <2>6. \A i \in 1 .. Len(records'[p]) : state'[records'[p][i].version] =
          IF i = Len(records'[p]) THEN "published" ELSE "superseded"
    BY <2>1, <1>11
  <2> QED
    BY <2>5, <2>6 DEF LastIsCurrent
<1>20. Recorded(p)'
  <2> SUFFICES ASSUME NEW w \in Of(p), Frozen(w)'
               PROVE  \E i \in 1 .. n + 1 : records'[p][i].version = w
    BY <1>11 DEF Recorded, Of
  <2>1. CASE w = v
    BY <2>1, <1>3, <1>6, <1>11
  <2>2. CASE w \in old
    BY SMTT(20), <2>2, <1>3, <1>11, <1>15
  <2>3. CASE w # v /\ w \notin old
    <3>1. Frozen(w)
      BY <2>3, <1>9 DEF Frozen, Of
    <3>2. PICK i \in 1 .. n : records[p][i].version = w
      BY <3>1, <1>5 DEF Recorded
    <3> QED
      BY SMTT(20), <3>2, <1>3, <1>11
  <2> QED
    BY <2>1, <2>2, <2>3
<1>21. ASSUME NEW q \in Periods, q # p
       PROVE  (Numbered(q) /\ Linked(q) /\ LastIsCurrent(q) /\ Recorded(q))'
  <2>1. Numbered(q) /\ Linked(q) /\ LastIsCurrent(q) /\ Recorded(q)
    BY DEF LineInv, HistoryIsALine
  <2>2. records'[q] = records[q]
    BY <1>3, <1>7, <1>21 DEF TypeOK
  <2>3. \A w \in Of(q) : /\ w \in Versions /\ w # v /\ w \notin old
                         /\ state'[w] = state[w] /\ number'[w] = number[w]
    BY <1>3, <1>9, <1>10, <1>21 DEF Of, Current
  <2>4. Numbered(q)' /\ Linked(q)'
    <3>1. Numbered(q)'
      BY <2>1, <2>2, <2>3 DEF Numbered, Of
    <3>2. Linked(q)'
      BY <2>1, <2>2 DEF Linked
    <3> QED
      BY <3>1, <3>2
  <2>5. Current(q)' = Current(q)
    BY <2>3, <1>3, <1>8, <1>21 DEF Current, Of
  <2>6. LastIsCurrent(q)'
    BY <2>1, <2>2, <2>3, <2>5 DEF LastIsCurrent, Numbered
  <2>7. Recorded(q)'
    BY <2>1, <2>2, <2>3 DEF Recorded, Of, Frozen
  <2> QED
    BY <2>4, <2>6, <2>7
<1>22. Unnumbered'
  BY <1>3, <1>9, <1>10 DEF Unnumbered, Frozen, LineInv
<1> QED
  BY <1>17, <1>18, <1>19, <1>20, <1>21, <1>22 DEF HistoryIsALine
-----------------------------------------------------------------------------
(* Every step.                                                              *)

LEMMA DraftKept ==
  ASSUME LineInv, NEW u \in Users, Draft(u)
  PROVE  LineInv'
<1> USE DEF versionVars, periodVars
<1>1. TypeOK'
  BY DraftTyped DEF LineInv
<1>2. UNCHANGED <<state, isCurrent, number, records>>
  BY DEF Draft, BeginDraft, BeginEdit, BeginTransition, Request
<1>3. Unnumbered' /\ HistoryIsALine'
  BY <1>2, LineKept DEF LineInv, TypeOK, States
<1>4. TxnInv'
  <2>1. PICK v \in Versions :
          \/ \E source \in SUBSET Versions : BeginDraft(u, v, source)
          \/ BeginEdit(u, v)
          \/ \E to \in States : BeginTransition(u, v, to)
          \/ \E k \in Keys : Request(u, v, k)
    BY DEF Draft
  <2>2. ASSUME NEW source \in SUBSET Versions, BeginDraft(u, v, source)
        PROVE  TxnInv'
    <3> DEFINE t == [at |-> "creating", version |-> v, source |-> source]
    <3>1. t \in Txns
      BY DEF Txns
    <3>2. /\ Step(u, t) /\ state[v] = "none"
          /\ \A w \in Users : txn[w].at = "creating" => txn[w].version # v
      BY <2>2 DEF BeginDraft
    <3> QED
      BY <1>2, <3>1, <3>2, OpenKept
  <2>3. CASE BeginEdit(u, v)
    <3> DEFINE t == [at |-> "editing", version |-> v]
    <3>1. t \in Txns /\ Step(u, t)
      BY <2>3 DEF Txns, BeginEdit
    <3> QED
      BY <1>2, <3>1, OpenKept
  <2>4. ASSUME NEW to \in States, BeginTransition(u, v, to)
        PROVE  TxnInv'
    <3> DEFINE t == [at |-> "moving", version |-> v, to |-> to]
    <3>1. to \in Moves /\ state[v] # "none"
      BY <2>4 DEF BeginTransition, LegalTransitions, Moves
    <3>2. t \in Txns /\ Step(u, t)
      BY <2>4, <3>1 DEF Txns, BeginTransition
    <3> QED
      BY <1>2, <3>1, <3>2, OpenKept
  <2>5. ASSUME NEW k \in Keys, Request(u, v, k)
        PROVE  TxnInv'
    <3> DEFINE t == [at |-> "requesting", version |-> v, key |-> k,
                     seen |-> Current(PeriodOf[v]), line |-> Len(records[PeriodOf[v]])]
    <3>1. Len(records[PeriodOf[v]]) \in Nat
      BY PublicationAssumption, LenProperties DEF LineInv, TypeOK
    <3>2. t \in Txns
      BY <3>1 DEF Txns, Current, Of
    <3>3. Step(u, t) /\ state[v] # "none"
      BY <2>5 DEF Request
    <3>4. t.at = "requesting" /\ t.version = v
      OBVIOUS
    <3> HIDE DEF t
    <3> QED
      BY <1>2, <3>2, <3>3, <3>4, OpenKept
  <2> QED
    BY <2>1, <2>2, <2>3, <2>4, <2>5
<1> QED
  BY <1>1, <1>3, <1>4 DEF LineInv
LEMMA WriteKept ==
  ASSUME LineInv, NEW u \in Users, Write(u)
  PROVE  LineInv'
<1> USE DEF versionVars, periodVars
<1>1. TypeOK /\ TypeOK'
  BY WriteTyped, PublishTyped DEF LineInv
<1>2. ASSUME UNCHANGED <<state, isCurrent, number, records>>
      PROVE  Unnumbered' /\ HistoryIsALine'
  BY <1>1, <1>2, LineKept DEF TypeOK, States
<1>3. ASSUME Commit(u), UNCHANGED state
      PROVE  TxnInv'
  <2>1. \A w \in Users : txn[w].at = "creating" => state[txn[w].version] = "none"
    BY DEF LineInv, TxnInv, Unwritten
  <2>2. \A w \in Users : txn[w].at = "publishing" =>
          state[txn[w].version] \notin {"published", "superseded"}
    BY DEF LineInv, TxnInv, PublisherIsNotFrozen, Frozen
  <2> QED
    BY <1>3, <2>1, <2>2, CommitKept
<1>4. CASE CommitDraft(u)
  <2> PICK v \in Versions : v = txn[u].version
    BY <1>1, <1>4, TxnFields DEF CommitDraft
  <2>1. /\ state[v] = "none"
        /\ \A w \in Users : w # u /\ txn[w].at = "creating" => txn[w].version # v
    BY <1>4 DEF CommitDraft, LineInv, TxnInv, Unwritten
  <2>2. /\ Commit(u)
        /\ UNCHANGED <<isCurrent, number, records>>
        /\ \A w \in Versions : state'[w] = IF w = v THEN "draft" ELSE state[w]
    BY <1>1, <1>4 DEF CommitDraft, TypeOK
  <2>3. Unnumbered' /\ HistoryIsALine'
    BY <1>1, <2>1, <2>2, LineKept DEF TypeOK, Frozen
  <2>4. \A w \in Users : w # u /\ txn[w].at = "creating" => state'[txn[w].version] = "none"
    BY <1>1, <2>1, <2>2, TxnFields DEF LineInv, TxnInv, Unwritten
  <2>5. \A w \in Users : w # u /\ txn[w].at = "publishing" =>
          state'[txn[w].version] \notin {"published", "superseded"}
    BY <1>1, <2>2, TxnFields DEF LineInv, TxnInv, PublisherIsNotFrozen, Frozen
  <2>6. TxnInv'
    BY <2>2, <2>4, <2>5, CommitKept
  <2> QED
    BY <1>1, <2>3, <2>6 DEF LineInv
<1>5. ASSUME NEW m \in Staff, InsertAssignment(u, m)
      PROVE  LineInv'
  <2> DEFINE t == [at |-> "added", version |-> txn[u].version, in |-> m]
  <2>1. txn[u].version \in Versions
    BY <1>1, <1>5, TxnFields DEF InsertAssignment
  <2>2. t \in Txns /\ Step(u, t) /\ UNCHANGED <<state, isCurrent, number, records>>
    BY <1>5, <2>1 DEF Txns, InsertAssignment
  <2>3. TxnInv'
    BY <2>2, OpenKept
  <2> QED
    BY <1>1, <1>2, <2>2, <2>3 DEF LineInv
<1>6. ASSUME NEW m \in Staff, NEW to \in Staff \union {Nobody}, UpdateAssignment(u, m, to)
      PROVE  LineInv'
  <2> DEFINE t == [at |-> "changed", version |-> txn[u].version, out |-> m, in |-> to]
  <2>1. txn[u].version \in Versions
    BY <1>1, <1>6, TxnFields DEF UpdateAssignment
  <2>2. t \in Txns /\ Step(u, t) /\ UNCHANGED <<state, isCurrent, number, records>>
    BY <1>6, <2>1 DEF Txns, UpdateAssignment
  <2>3. TxnInv'
    BY <2>2, OpenKept
  <2> QED
    BY <1>1, <1>2, <2>2, <2>3 DEF LineInv
<1>7. CASE CommitInsert(u) \/ CommitUpdate(u) \/ Rollback(u)
  BY <1>1, <1>2, <1>3, <1>7 DEF CommitInsert, CommitUpdate, Rollback, LineInv
<1>8. CASE CommitTransition(u)
  <2> PICK v \in Versions : v = txn[u].version
    BY <1>1, <1>8, TxnFields DEF CommitTransition
  <2> PICK to \in Moves : to = txn[u].to
    BY <1>1, <1>8, TxnFields DEF CommitTransition
  <2>1. state[v] # "none" /\ ~Frozen(v)
    BY <1>8 DEF CommitTransition, TransitionAllowed, LineInv, TxnInv, Written
  <2>2. /\ Commit(u)
        /\ UNCHANGED <<isCurrent, number, records>>
        /\ \A w \in Versions : state'[w] = IF w = v THEN to ELSE state[w]
    BY <1>1, <1>8 DEF CommitTransition, TypeOK
  <2>3. to \notin {"none", "published", "superseded"}
    BY DEF Moves
  <2>4. Unnumbered' /\ HistoryIsALine'
    BY <1>1, <2>1, <2>2, <2>3, LineKept DEF TypeOK, Frozen
  <2>5. \A w \in Users : w # u /\ txn[w].at = "creating" => state'[txn[w].version] = "none"
    BY <1>1, <2>1, <2>2, TxnFields DEF LineInv, TxnInv, Unwritten
  <2>6. \A w \in Users : w # u /\ txn[w].at = "publishing" =>
          state'[txn[w].version] \notin {"published", "superseded"}
    BY <1>1, <2>2, <2>3, TxnFields DEF LineInv, TxnInv, PublisherIsNotFrozen, Frozen
  <2>7. TxnInv'
    BY <2>2, <2>3, <2>5, <2>6, CommitKept
  <2> QED
    BY <1>1, <2>4, <2>7 DEF LineInv
<1>9. CASE BeginPublish(u)
  <2> PICK t : t = [txn[u] EXCEPT !.at = "publishing"]
    OBVIOUS
  <2>1. txn[u] \in [at : {"requesting", "publishing"}, version : Versions, key : Keys,
                    seen : SUBSET Versions, line : Nat]
    BY <1>1, <1>9 DEF BeginPublish, TypeOK, Txns, Idle
  <2>2. t \in Txns /\ t.at = "publishing" /\ t.version = txn[u].version
    BY <2>1 DEF Txns
  <2>3. Step(u, t) /\ UNCHANGED <<state, isCurrent, number, records>>
    BY <1>1, <1>9 DEF BeginPublish, Step, TypeOK
  <2>4. /\ state[t.version] = "approved"
        /\ \A w \in Users : txn[w].at = "publishing" => PeriodOf[txn[w].version] # PeriodOf[t.version]
    BY <1>9, <2>2 DEF BeginPublish, CanLock, Holders
  <2>5. TxnInv'
    BY <2>2, <2>3, <2>4, OpenKept DEF Frozen
  <2> QED
    BY <1>1, <1>2, <2>3, <2>5 DEF LineInv
<1>10. CASE CommitPublish(u)
  <2> PICK v \in Versions : v = txn[u].version
    BY <1>1, <1>10, TxnFields DEF CommitPublish
  <2> PICK p \in Periods : p = PeriodOf[v]
    BY PublicationAssumption
  <2>1. /\ state[v] # "none"
        /\ \A w \in Users : w # u /\ txn[w].at = "publishing" => PeriodOf[txn[w].version] # p
    BY <1>10 DEF CommitPublish, LineInv, TxnInv, Written, OnePublisher
  <2>2. /\ Commit(u)
        /\ \A w \in Versions : state'[w] = IF w = v THEN "published"
                                           ELSE IF w \in Current(p) THEN "superseded" ELSE state[w]
    BY <1>10 DEF CommitPublish
  <2>3. \A w \in Current(p) : Frozen(w)
    <3>1. LastIsCurrent(p)
      BY DEF LineInv, HistoryIsALine
    <3>2. Len(records[p]) \in Nat /\ (records[p] # <<>> => Len(records[p]) > 0)
      BY <1>1, LenProperties, EmptySeq DEF TypeOK
    <3>3. CASE records[p] = <<>>
      BY <3>1, <3>3 DEF LastIsCurrent
    <3>4. CASE records[p] # <<>>
      <4>1. Current(p) = {records[p][Len(records[p])].version}
        BY <3>1, <3>4 DEF LastIsCurrent
      <4>2. Len(records[p]) \in 1 .. Len(records[p])
        BY <3>2, <3>4
      <4>3. state[records[p][Len(records[p])].version] = "published"
        BY <3>1, <4>2 DEF LastIsCurrent
      <4> QED
        BY <4>1, <4>3 DEF Frozen
    <3> QED
      BY <3>3, <3>4
  <2>4. \A w \in Users : w # u /\ txn[w].at = "creating" => state'[txn[w].version] = "none"
    <3> SUFFICES ASSUME NEW w \in Users, w # u, txn[w].at = "creating"
                 PROVE  state'[txn[w].version] = "none"
      OBVIOUS
    <3>1. txn[w].version \in Versions /\ state[txn[w].version] = "none"
      BY <1>1, TxnFields DEF LineInv, TxnInv, Unwritten
    <3>2. txn[w].version # v /\ txn[w].version \notin Current(p)
      BY <3>1, <2>1, <2>3 DEF Frozen
    <3> QED
      BY <3>1, <3>2, <2>2
  <2>5. \A w \in Users : w # u /\ txn[w].at = "publishing" =>
          state'[txn[w].version] \notin {"published", "superseded"}
    <3> SUFFICES ASSUME NEW w \in Users, w # u, txn[w].at = "publishing"
                 PROVE  state'[txn[w].version] \notin {"published", "superseded"}
      OBVIOUS
    <3>1. txn[w].version \in Versions /\ ~Frozen(txn[w].version)
      BY <1>1, TxnFields DEF LineInv, TxnInv, PublisherIsNotFrozen
    <3>2. txn[w].version # v /\ txn[w].version \notin Current(p)
      BY <2>1, <2>3, <3>1
    <3> QED
      BY <3>1, <3>2, <2>2 DEF Frozen
  <2>6. TxnInv'
    BY <2>2, <2>4, <2>5, CommitKept
  <2> QED
    BY <1>1, <1>10, <2>6, PublishKeepsLine DEF LineInv
<1> QED
  BY <1>4, <1>5, <1>6, <1>7, <1>8, <1>9, <1>10 DEF Write

LEMMA AdministerKept ==
  ASSUME LineInv, Administer
  PROVE  LineInv'
<1>1. TypeOK'
  BY AdministerTyped DEF LineInv
<1>2. UNCHANGED <<state, isCurrent, number, records, txn>>
  BY DEF Administer, setLockState, transitionPeriodStatus, versionVars, periodVars
<1>3. Unnumbered' /\ HistoryIsALine'
  BY <1>2, LineKept DEF LineInv, TypeOK, States
<1>4. TxnInv'
  BY <1>2 DEF LineInv, TxnInv, Unwritten, Written, PublisherIsNotFrozen, OnePublisher, Frozen
<1> QED
  BY <1>1, <1>3, <1>4 DEF LineInv

LEMMA LineKeptByNext == LineInv /\ [Next]_vars => LineInv'
<1> SUFFICES ASSUME LineInv, [Next]_vars PROVE LineInv'
  OBVIOUS
<1>1. CASE UNCHANGED vars
  <2>1. /\ UNCHANGED <<state, isCurrent, locked, number, content, reality, status, records>>
        /\ UNCHANGED <<txn, changes, freezes, raced>>
    BY <1>1 DEF vars, versionVars, periodVars, boundVars
  <2>2. TypeOK'
    BY <2>1 DEF LineInv, TypeOK
  <2>3. Unnumbered' /\ HistoryIsALine'
    BY <2>1, LineKept DEF LineInv, TypeOK, States
  <2>4. TxnInv'
    BY <2>1 DEF LineInv, TxnInv, Unwritten, Written, PublisherIsNotFrozen, OnePublisher, Frozen
  <2> QED
    BY <2>2, <2>3, <2>4 DEF LineInv
<1> QED
  BY <1>1, DraftKept, WriteKept, AdministerKept DEF Next

THEOREM LineHolds == Spec => []LineInv
BY LineInit, LineKeptByNext, PTL DEF Spec

\* The tables and the transactions over them keep their types.
THEOREM PublicationTypeCorrect == Spec => []TypeOK
BY LineHolds, PTL DEF LineInv

\* The history of a period is a straight line, however transitions, editors
\* and publishers interleave.
THEOREM HistoryStaysALine == Spec => []HistoryIsALine
BY LineHolds, PTL DEF LineInv
=============================================================================
