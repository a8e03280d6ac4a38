-------------------------- MODULE DispatchPromise --------------------------
(***************************************************************************)
(* What the outbox promises to whoever publishes an event, without pools,  *)
(* leases, claims and crashes: an announced event is owed until it has     *)
(* taken effect, takes effect once, and is recorded as dispatched once,    *)
(* after that.  How soon, or whether, depends on the processes             *)
(* (outbox/publisher.ts, outbox/dispatcher.ts, outbox/sink.ts).           *)
(***************************************************************************)
EXTENDS Naturals

CONSTANT Events

VARIABLES
  announced,  \* events that were published
  owed,       \* events somebody still has to dispatch
  effects,    \* events that took effect
  records     \* how often each event is on record as dispatched

promiseVars == <<announced, owed, effects, records>>

PromiseInit ==
  /\ announced = {} /\ owed = {} /\ effects = {}
  /\ records = [e \in Events |-> 0]

Announce(e) ==
  /\ e \notin announced
  /\ announced' = announced \union {e}
  /\ owed' = owed \union {e}
  /\ UNCHANGED <<effects, records>>

TakeEffect(e) ==
  /\ e \in owed \ effects
  /\ effects' = effects \union {e}
  /\ UNCHANGED <<announced, owed, records>>

Record(e) ==
  /\ e \in effects /\ records[e] = 0
  /\ records' = [records EXCEPT ![e] = 1]
  /\ owed' = owed \ {e}
  /\ UNCHANGED <<announced, effects>>

\* Another record, or the loss of one, does not make the event owed again.
Settle(e) ==
  /\ e \in owed \intersect effects
  /\ owed' = owed \ {e}
  /\ UNCHANGED <<announced, effects, records>>

PromiseNext == \E e \in Events : Announce(e) \/ TakeEffect(e) \/ Record(e) \/ Settle(e)

PromiseSpec == PromiseInit /\ [][PromiseNext]_promiseVars
=============================================================================
