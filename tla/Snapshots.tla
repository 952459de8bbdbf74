----------------------------- MODULE Snapshots -----------------------------
(***************************************************************************)
(* What transactions over versioned data promise: each sees one committed  *)
(* version, which changes under it only when it asks, and only to a newer  *)
(* one; one at a time writes, on top of the newest version, so that no     *)
(* commit is lost.                                                         *)
(***************************************************************************)
EXTENDS Naturals

CONSTANT Transactions

VARIABLES newest,  \* the version committed last
          mode,    \* of a transaction: "Ready", "Reading" or "Writing"
          view     \* the version that it sees

vars == <<newest, mode, view>>

Init == /\ newest = 1
        /\ mode = [t \in Transactions |-> "Ready"]
        /\ view = [t \in Transactions |-> 0]

NobodyWrites == \A t \in Transactions : mode[t] # "Writing"

Begin(t) == /\ mode[t] = "Ready"
            /\ mode' = [mode EXCEPT ![t] = "Reading"]
            /\ view' = [view EXCEPT ![t] = newest]
            /\ UNCHANGED newest

Advance(t) == /\ mode[t] = "Reading"
              /\ \E v \in (view[t] + 1)..newest : view' = [view EXCEPT ![t] = v]
              /\ UNCHANGED <<newest, mode>>

Promote(t) == /\ mode[t] = "Reading"
              /\ NobodyWrites
              /\ view[t] = newest
              /\ mode' = [mode EXCEPT ![t] = "Writing"]
              /\ UNCHANGED <<newest, view>>

Commit(t) == /\ mode[t] = "Writing"
             /\ newest' = newest + 1
             /\ view' = [view EXCEPT ![t] = newest']
             /\ \E m \in {"Reading", "Writing"} : mode' = [mode EXCEPT ![t] = m]

Rollback(t) == /\ mode[t] = "Writing"
               /\ mode' = [mode EXCEPT ![t] = "Reading"]
               /\ UNCHANGED <<newest, view>>

End(t) == /\ mode[t] # "Ready"
          /\ mode' = [mode EXCEPT ![t] = "Ready"]
          /\ view' = [view EXCEPT ![t] = 0]
          /\ UNCHANGED newest

Next == \E t \in Transactions : \/ Begin(t) \/ Advance(t) \/ Promote(t)
                                \/ Commit(t) \/ Rollback(t) \/ End(t)

Spec == Init /\ [][Next]_vars
=============================================================================
