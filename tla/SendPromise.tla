----------------------------- MODULE SendPromise -----------------------------
(***************************************************************************)
(* What the send queue promises about each attempt, whoever delivers it    *)
(* and however often that is tried: it is asked for once, Gmail accepts at *)
(* most one message for it, and what the creator is told in the end is     *)
(* told once.  "sent" is only told of a message that Gmail accepted.       *)
(* "failed" and "unknown" are told whether or not Gmail accepted one.      *)
(***************************************************************************)
EXTENDS Naturals

CONSTANT Attempt

VARIABLES
  told,       \* what the creator is told of an attempt
  delivered   \* whether Gmail has accepted a message for it

promiseVars == <<told, delivered>>

Outcomes == {"nothing", "pending", "sent", "failed", "unknown"}

PromiseInit ==
  /\ told \in [Attempt -> {"nothing", "sent"}]
  /\ delivered = [a \in Attempt |-> told[a] = "sent"]

\* The outcome of an attempt moves forward only.
Forward(from, to, accepted) ==
  \/ to = from
  \/ from = "nothing" /\ to \in {"pending", "failed"}
  \/ from = "pending" /\ to \in {"failed", "unknown"}
  \/ from \in {"pending", "unknown"} /\ to = "sent" /\ accepted

\* Any number of outcomes are told in one step.
Tell ==
  /\ told' \in [Attempt -> Outcomes]
  /\ \A a \in Attempt : Forward(told[a], told'[a], delivered[a])
  /\ UNCHANGED delivered

\* Gmail accepts the one message of an attempt.
Deliver(a) ==
  /\ told[a] \in {"pending", "failed"} /\ ~delivered[a]
  /\ delivered' = [delivered EXCEPT ![a] = TRUE]
  /\ UNCHANGED told

PromiseNext == Tell \/ \E a \in Attempt : Deliver(a)

PromiseSpec == PromiseInit /\ [][PromiseNext]_promiseVars

=============================================================================
