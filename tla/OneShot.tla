------------------------------ MODULE OneShot ------------------------------
(***************************************************************************)
(* What a Promise/Future pair promises, with no shared memory in it: one   *)
(* producer settles one outcome once; one consumer may ask for it, by a    *)
(* blocking get or by leaving a callback, and is answered with that        *)
(* outcome and no other, the callback at most once.                        *)
(***************************************************************************)
EXTENDS Naturals

CONSTANTS Outcomes,   \* everything a Promise can be settled with
          Pending     \* not yet settled

VARIABLES outcome,    \* Pending, or what the producer settled
          request,    \* what the consumer is doing with its Future
          seen,       \* the outcomes the consumer has been given
          runs        \* how often the consumer's callback has run

vars == <<outcome, request, seen, runs>>

Requests == {"none", "get", "callback", "done"}

Init == /\ outcome = Pending
        /\ request = "none"
        /\ seen = {}
        /\ runs = 0

Settle(o) == /\ outcome = Pending
             /\ outcome' = o
             /\ UNCHANGED <<request, seen, runs>>

Ask(kind) == /\ request = "none"
             /\ request' = kind
             /\ UNCHANGED <<outcome, seen, runs>>

(* A blocking get returns; the Future may be used again, or not. *)
AnswerGet == /\ request = "get"
             /\ outcome # Pending
             /\ request' \in {"none", "done"}
             /\ seen' = seen \cup {outcome}
             /\ UNCHANGED <<outcome, runs>>

RunCallback == /\ request = "callback"
               /\ outcome # Pending
               /\ request' = "done"
               /\ seen' = seen \cup {outcome}
               /\ runs' = runs + 1
               /\ UNCHANGED outcome

Abandon == /\ request = "none"
           /\ request' = "done"
           /\ UNCHANGED <<outcome, seen, runs>>

Next == \/ \E o \in Outcomes : Settle(o)
        \/ \E kind \in {"get", "callback"} : Ask(kind)
        \/ AnswerGet
        \/ RunCallback
        \/ Abandon

SafeSpec == Init /\ [][Next]_vars

Fairness == /\ WF_vars(\E o \in Outcomes : Settle(o))
            /\ WF_vars(AnswerGet)
            /\ WF_vars(RunCallback)

Spec == SafeSpec /\ Fairness

=============================================================================
