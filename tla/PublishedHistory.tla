-------------------------- MODULE PublishedHistory --------------------------
(***************************************************************************)
(* What publishing a schedule promises whoever reads the published ones,   *)
(* without drafts, locks and transactions: each publication of a period is *)
(* one step that adds the next link to the period's line, for a client     *)
(* that knew the line as it was, and puts the version's assignments in the *)
(* place of the period's, leaving nobody in two places                     *)
(* (apps/api/src/schedule/publication.ts publishVersion, migrations 0014   *)
(* and 0015).                                                              *)
(***************************************************************************)
EXTENDS Naturals, Sequences

CONSTANTS
  Periods,
  Versions,
  PeriodOf,   \* the period of each version
  Staff,
  Keys

VARIABLES
  line,   \* publication records of each period, in order
  rows    \* current published assignments: versions and people

historyVars == <<line, rows>>

HistoryInit == line = [p \in Periods |-> <<>>] /\ rows = {}

Latest(p) == IF line[p] = <<>> THEN {} ELSE {line[p][Len(line[p])].version}

Elsewhere(p) == {r \in rows : PeriodOf[r[1]] # p}

\* A version publishes once, and so does a key; whom it assigns is what its
\* draft came to.
Publish(v, k) ==
  LET p == PeriodOf[v] IN
  /\ \A i \in DOMAIN line[p] : line[p][i].version # v /\ line[p][i].key # k
  /\ line' = [line EXCEPT ![p] = Append(@,
       [version |-> v, prior |-> Latest(p), number |-> Len(@) + 1, key |-> k,
        awaited |-> TRUE])]
  /\ \E people \in SUBSET Staff :
       /\ \A r \in Elsewhere(p) : r[2] \notin people
       /\ rows' = Elsewhere(p) \union ({v} \X people)

HistoryNext == \E v \in Versions, k \in Keys : Publish(v, k)

HistorySpec == HistoryInit /\ [][HistoryNext]_historyVars
=============================================================================
