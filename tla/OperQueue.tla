----------------------------- MODULE OperQueue -----------------------------
(***************************************************************************)
(* Service::OperQueue of Realm/network.hpp: a queue of operations is a     *)
(* ring, linked through the operations' m_next, of which the queue keeps   *)
(* the last, m_back.  The first is the one after it.                       *)
(***************************************************************************)
EXTENDS Integers, FiniteSets, Sequences, SequencesExt

CONSTANTS Opers, Queues, Null

ASSUME NullAssumption == Null \notin Opers

VARIABLES m_next,   \* of every operation
          m_back,   \* of every queue
          live,     \* of every operation: constructed so often, less recycled so often
          held      \* the operations that a LendersOperPtr outside the queues has

vars == <<m_next, m_back, live, held>>

Init == /\ m_next = [op \in Opers |-> Null]
        /\ m_back = [q \in Queues |-> Null]
        /\ live = [op \in Opers |-> 0]
        /\ held = {}

empty(q) == m_back[q] = Null

-----------------------------------------------------------------------------
(* An operation is handed over: the caller of push_back() gives its        *)
(* LendersOperPtr, that of pop_front() gets one.  Nothing is presumed of   *)
(* the links of an operation that is held; what push_back() asserts of     *)
(* them (network.hpp:1649) is for the refinement to show.                  *)
-----------------------------------------------------------------------------
(* Mutated forms of actions below, each the mark of a plausible mistake. *)

(* The link from the last to the first is not copied to the new last. *)
push_back_unlinked(q, op) ==
    /\ op \in held
    /\ m_next' = IF empty(q) THEN [m_next EXCEPT ![op] = op]
                             ELSE [m_next EXCEPT ![op] = m_back[q], ![m_back[q]] = op]
    /\ m_back' = [m_back EXCEPT ![q] = op]
    /\ held' = held \ {op}
    /\ UNCHANGED live

-----------------------------------------------------------------------------
construct(op) == /\ live[op] = 0
                 /\ live' = [live EXCEPT ![op] = 1]
                 /\ m_next' = [m_next EXCEPT ![op] = Null]
                 /\ held' = held \cup {op}
                 /\ UNCHANGED m_back

recycle(op) == /\ op \in held
               /\ live' = [live EXCEPT ![op] = @ - 1]
               /\ held' = held \ {op}
               /\ UNCHANGED <<m_next, m_back>>

push_back(q, op) ==
    /\ op \in held
    /\ m_next' = IF empty(q) THEN [m_next EXCEPT ![op] = op]
                             ELSE [m_next EXCEPT ![op] = m_next[m_back[q]], ![m_back[q]] = op]
    /\ m_back' = [m_back EXCEPT ![q] = op]
    /\ held' = held \ {op}
    /\ UNCHANGED live

(* push_back(OperQueue&): the two rings become one by a swap of the links  *)
(* from the last of each to its first.                                     *)
push_back_queue(q, r) ==
    /\ ~empty(r)
    /\ m_next' = IF empty(q) THEN m_next
                 ELSE [m_next EXCEPT ![m_back[q]] = m_next[m_back[r]],
                                     ![m_back[r]] = m_next[m_back[q]]]
    /\ m_back' = [m_back EXCEPT ![q] = m_back[r], ![r] = Null]
    /\ UNCHANGED <<live, held>>

pop_front(q) ==
    /\ ~empty(q)
    /\ LET op == m_next[m_back[q]]
       IN  /\ IF op # m_back[q]
                THEN /\ m_next' = [m_next EXCEPT ![m_back[q]] = m_next[op], ![op] = Null]
                     /\ UNCHANGED m_back
                ELSE /\ m_next' = [m_next EXCEPT ![op] = Null]
                     /\ m_back' = [m_back EXCEPT ![q] = Null]
           /\ held' = held \cup {op}
    /\ UNCHANGED live

(* How often the loop of clear() recycles an operation: it takes the last  *)
(* of the queue first and ends at the one whose m_next is the last again.  *)
(* It is followed for one operation more than there are.                   *)
Recycled(q, op) ==
    LET path[i \in 0..Cardinality(Opers)] ==
          IF i = 0 THEN m_back[q]
          ELSE IF path[i - 1] = Null \/ m_next[path[i - 1]] = m_back[q] THEN Null
               ELSE m_next[path[i - 1]]
    IN  Cardinality({i \in DOMAIN path : path[i] = op})

clear(q) == /\ live' = [op \in Opers |-> live[op] - Recycled(q, op)]
            /\ m_back' = [m_back EXCEPT ![q] = Null]
            /\ UNCHANGED <<m_next, held>>

(* The move constructor: q is new, so it is empty. *)
move(q, r) == /\ empty(q)
              /\ m_back' = [m_back EXCEPT ![q] = m_back[r], ![r] = Null]
              /\ UNCHANGED <<m_next, live, held>>

-----------------------------------------------------------------------------
Next == \/ \E op \in Opers : construct(op) \/ recycle(op)
        \/ \E q \in Queues : \/ pop_front(q) \/ clear(q)
                             \/ \E op \in Opers : push_back(q, op)
                             \/ \E r \in Queues \ {q} : push_back_queue(q, r) \/ move(q, r)

Spec == Init /\ [][Next]_vars

-----------------------------------------------------------------------------
(* Type correctness: no operation is recycled that was not constructed,    *)
(* and only those that exist are held.                                     *)
TypeOK == /\ m_next \in [Opers -> Opers \cup {Null}]
          /\ m_back \in [Queues -> Opers \cup {Null}]
          /\ live \in [Opers -> {0, 1}]
          /\ \A op \in held : live[op] = 1

(* A queue, read from its first operation: m_next takes as many steps to   *)
(* come back to m_back as the queue is long.                               *)
Contents(q) ==
    IF empty(q) THEN <<>>
    ELSE LET path[i \in 0..Cardinality(Opers)] ==
               IF i = 0 THEN m_back[q]
               ELSE IF path[i - 1] = Null THEN Null ELSE m_next[path[i - 1]]
             back == {i \in 1..Cardinality(Opers) : path[i] = m_back[q]}
         IN  IF back = {} THEN <<>>
             ELSE [i \in 1..(CHOOSE i \in back : \A j \in back : i <= j) |-> path[i]]

(* Only an operation with no link counts as held: one that comes out of a  *)
(* queue with its m_next set, at which the next push_back() would fail its *)
(* assertion (network.hpp:1649), is lost to the queues' promise.           *)
Queue == INSTANCE Fifo WITH contents <- [q \in Queues |-> Contents(q)],
                            held <- {op \in held : m_next[op] = Null}

(* The rings are queues: first in, first out, whatever is pushed, joined,  *)
(* moved and cleared; what comes out is linked to nothing and held by one; *)
(* clear() recycles what is in the queue, once each, and nothing else.     *)
ImplementsFifo == Queue!Spec
=============================================================================
