--------------------------- MODULE WebhookContract ---------------------------
(***************************************************************************)
(* What the intake and the processing of Stripe events promise together,   *)
(* with no requests, jobs or workers in sight.  An event is first written  *)
(* down, then queued, then settled by the queue, and none of these steps   *)
(* is ever taken back; its handler runs only once it is queued, and no     *)
(* more than MaxRuns times however often Stripe redelivers the event, a    *)
(* job is retried or a worker dies.                                        *)
(***************************************************************************)
EXTENDS Naturals

CONSTANTS Events,    \* Stripe event ids
          MaxRuns    \* executions of the handler one event may cost

VARIABLES phase,     \* [Events -> Phases]
          runs       \* [Events -> Nat], executions that ran their effects

cvars == <<phase, runs>>

Phases == {"unknown", "recorded", "queued", "settled"}

Init == /\ phase = [e \in Events |-> "unknown"]
        /\ runs = [e \in Events |-> 0]

Move(e, from, to) == /\ phase[e] = from
                     /\ phase' = [phase EXCEPT ![e] = to]
                     /\ UNCHANGED runs

Record(e) == Move(e, "unknown", "recorded")
Enqueue(e) == Move(e, "recorded", "queued")
Settle(e) == Move(e, "queued", "settled")

\* A worker that lost the lock of its job may still run the handler of an
\* event the queue has settled, hence both phases.
Run(e) == /\ phase[e] \in {"queued", "settled"}
          /\ runs[e] < MaxRuns
          /\ runs' = [runs EXCEPT ![e] = @ + 1]
          /\ UNCHANGED phase

Next == \E e \in Events : Record(e) \/ Enqueue(e) \/ Settle(e) \/ Run(e)

Spec == Init /\ [][Next]_cvars
=============================================================================
