-------------------------------- MODULE Fifo --------------------------------
(***************************************************************************)
(* What queues of operations promise: each holds operations in the order   *)
(* they were put in; an operation has one owner, a queue or a holder       *)
(* outside; one that is cleared away with its queue is recycled, once.     *)
(***************************************************************************)
EXTENDS Integers, Sequences, SequencesExt

CONSTANTS Opers, Queues

VARIABLES contents,   \* the operations in each queue, the first one first
          live,       \* of every operation: whether it exists, 0 or 1
          held        \* the operations held by somebody outside the queues

vars == <<contents, live, held>>

Init == /\ contents = [q \in Queues |-> <<>>]
        /\ live = [op \in Opers |-> 0]
        /\ held = {}

Create(op) == /\ live[op] = 0
              /\ live' = [live EXCEPT ![op] = 1]
              /\ held' = held \cup {op}
              /\ UNCHANGED contents

Recycle(op) == /\ op \in held
               /\ live' = [live EXCEPT ![op] = 0]
               /\ held' = held \ {op}
               /\ UNCHANGED contents

PushBack(q, op) == /\ op \in held
                   /\ contents' = [contents EXCEPT ![q] = Append(@, op)]
                   /\ held' = held \ {op}
                   /\ UNCHANGED live

(* All of r goes behind all of q. *)
Join(q, r) == /\ contents' = [contents EXCEPT ![q] = @ \o contents[r], ![r] = <<>>]
              /\ UNCHANGED <<live, held>>

PopFront(q) == /\ contents[q] # <<>>
               /\ contents' = [contents EXCEPT ![q] = Tail(@)]
               /\ held' = held \cup {Head(contents[q])}
               /\ UNCHANGED live

Clear(q) == /\ contents' = [contents EXCEPT ![q] = <<>>]
            /\ live' = [op \in Opers |-> IF op \in ToSet(contents[q]) THEN 0 ELSE live[op]]
            /\ UNCHANGED held

Next == \/ \E op \in Opers : Create(op) \/ Recycle(op)
        \/ \E q \in Queues : \/ PopFront(q) \/ Clear(q)
                             \/ \E op \in Opers : PushBack(q, op)
                             \/ \E r \in Queues \ {q} : Join(q, r)

Spec == Init /\ [][Next]_vars
=============================================================================
