----------------------------- MODULE AsyncOper -----------------------------
(***************************************************************************)
(* Asynchronous operations of Realm/network.hpp: the life of the operation *)
(* objects that a socket (or any other object with asynchronous functions) *)
(* owns and lends to the Service, cancellation, and the destruction of the *)
(* socket at any time, its own completion handlers included.               *)
(*                                                                         *)
(* One thread at a time uses a Service: what the program does, it does in  *)
(* a completion handler or while the event loop is not running.  Service   *)
(* and SocketBase::cancel() are implemented outside the headers; they are  *)
(* modelled from what network.hpp documents and asserts of them.           *)
(***************************************************************************)
EXTENDS Naturals, Sequences, SequencesExt, FiniteSets

CONSTANTS Sockets,
          Slots,     \* m_read_oper and m_write_oper of each, as far as used
          None       \* no handler is running

ASSUME SlotsAssumption == /\ Slots \subseteq Sockets \X {"read", "write"}
                          /\ None \notin Slots
ASSUME FiniteAssumption == IsFiniteSet(Slots)

Socket(s) == s[1]

VARIABLES alive,      \* the sockets that have not been destroyed
          oper,       \* what is in the memory of each slot
          lent,       \* what the Service, or the initiating call, does with it
          completed,  \* the operations whose handlers can be executed, in order
          running,    \* the handler being executed: its slot and its ec
          asked       \* history: what was last asked of a slot, until answered

vars == <<alive, oper, lent, completed, running, asked>>

(* The memory of an operation is deleted, an UnusedOper, or in use.  An    *)
(* operation in use is m_complete, with what result, or not; m_canceled or *)
(* not; and has an m_stream that points at the socket, or has been orphaned*)
(* and has none.                                                           *)
Deleted == [memory |-> "deleted", m_complete |-> FALSE, ec |-> "none", m_canceled |-> FALSE,
            m_stream |-> FALSE]
Unused  == [Deleted EXCEPT !.memory = "unused"]
InUse   == [Deleted EXCEPT !.memory = "in_use", !.m_stream = TRUE]

in_use(s)   == oper[s].memory = "in_use"
orphaned(s) == ~oper[s].m_stream

Init == /\ alive = Sockets
        /\ oper = [s \in Slots |-> Deleted]
        /\ lent = [s \in Slots |-> "no"]
        /\ completed = <<>>
        /\ running = None
        /\ asked = [s \in Slots |-> "nothing"]

(* do_recycle(): what is left of an operation. *)
Recycled(s) == IF orphaned(s) THEN Deleted ELSE Unused

(* The ec that the handler is called with. *)
Told(s) == IF oper[s].m_canceled THEN "operation_aborted" ELSE oper[s].ec

(* set_is_complete() and the hand-over to the event loop. *)
Complete(s, ec) == /\ oper' = [oper EXCEPT ![s] = [InUse EXCEPT !.m_complete = TRUE, !.ec = ec]]
                   /\ lent' = [lent EXCEPT ![s] = "completed"]
                   /\ completed' = Append(completed, s)

(* Canceling: the operations of the socket that are suspended become ready *)
(* to be executed.                                                         *)
Cancels(k) ==
    LET mine == {s \in Slots : Socket(s) = k /\ lent[s] = "suspended"}
    IN  /\ lent' = [s \in Slots |-> IF s \in mine THEN "completed" ELSE lent[s]]
        /\ completed' = completed \o SetToSeq(mine)
        /\ asked' = [s \in Slots |-> IF Socket(s) = k /\ in_use(s) THEN "abort" ELSE asked[s]]
        /\ UNCHANGED running

-----------------------------------------------------------------------------
(* Mutated forms of actions below, each the mark of a plausible mistake.   *)

(* Cancellation passes by operations that are complete. *)
cancel_incomplete_only(k) ==
    /\ k \in alive
    /\ LET mine == {s \in Slots : Socket(s) = k /\ in_use(s) /\ lent[s] = "suspended"}
       IN  /\ oper' = [s \in Slots |-> IF s \in mine THEN [oper[s] EXCEPT !.m_canceled = TRUE]
                                                    ELSE oper[s]]
           /\ lent' = [s \in Slots |-> IF s \in mine THEN "completed" ELSE lent[s]]
           /\ completed' = completed \o SetToSeq(mine)
           /\ asked' = [s \in Slots |-> IF Socket(s) = k /\ asked[s] = "operation" THEN "abort"
                                                                         ELSE asked[s]]
    /\ UNCHANGED <<alive, running>>

(* What is canceled becomes ready, and nobody can tell why. *)
cancel_unmarked(k) == k \in alive /\ Cancels(k) /\ UNCHANGED <<alive, oper>>

(* Cancellation makes operations ready that have been ready before. *)
cancel_requeues(k) ==
    /\ k \in alive
    /\ LET mine == {s \in Slots : Socket(s) = k /\ in_use(s)}
       IN  /\ oper' = [s \in Slots |-> IF s \in mine THEN [oper[s] EXCEPT !.m_canceled = TRUE]
                                                    ELSE oper[s]]
           /\ lent' = [s \in Slots |-> IF s \in mine THEN "completed" ELSE lent[s]]
           /\ completed' = completed \o SetToSeq(mine)
           /\ asked' = [s \in Slots |-> IF s \in mine THEN "abort" ELSE asked[s]]
    /\ UNCHANGED <<alive, running>>

(* Cancellation does not wake up the event loop. *)
cancel_quietly(k) ==
    /\ k \in alive
    /\ LET mine == {s \in Slots : Socket(s) = k /\ in_use(s)}
       IN  /\ oper' = [s \in Slots |-> IF s \in mine THEN [oper[s] EXCEPT !.m_canceled = TRUE]
                                                    ELSE oper[s]]
           /\ asked' = [s \in Slots |-> IF s \in mine THEN "abort" ELSE asked[s]]
    /\ UNCHANGED <<alive, lent, completed, running>>

(* The socket dies and the operations keep pointing at it. *)
destroy_unorphaned(k) ==
    /\ k \in alive
    /\ alive' = alive \ {k}
    /\ oper' = [s \in Slots |-> IF Socket(s) # k THEN oper[s]
                                ELSE IF in_use(s) THEN [oper[s] EXCEPT !.m_canceled = TRUE]
                                ELSE Deleted]
    /\ LET mine == {s \in Slots : Socket(s) = k /\ lent[s] = "suspended"}
       IN  /\ lent' = [s \in Slots |-> IF s \in mine THEN "completed" ELSE lent[s]]
           /\ completed' = completed \o SetToSeq(mine)
    /\ asked' = [s \in Slots |-> IF Socket(s) = k /\ in_use(s) THEN "abort" ELSE asked[s]]
    /\ UNCHANGED running

(* do_recycle() that leaves an UnusedOper behind, with nobody to delete it. *)
execute_unused(s) ==
    /\ running = None /\ completed # <<>> /\ s = Head(completed)
    /\ completed' = Tail(completed)
    /\ oper' = [oper EXCEPT ![s] = Unused]
    /\ lent' = [lent EXCEPT ![s] = "no"]
    /\ running' = [slot |-> s, ec |-> Told(s)]
    /\ asked' = [asked EXCEPT ![s] = "nothing"]
    /\ UNCHANGED alive

-----------------------------------------------------------------------------
(* The program, in a handler or not: starting an operation.  alloc() takes *)
(* the memory of the last one if there is any and it is big enough.        *)
May(s) == Socket(s) \in alive /\ ~in_use(s)

alloc_throws(s) ==
    /\ May(s)
    /\ \E left \in {Deleted, Unused} : oper' = [oper EXCEPT ![s] = left]
    /\ UNCHANGED <<alive, lent, completed, running, asked>>

(* initiate() has to wait, or is done at once. *)
initiate(s) ==
    /\ May(s)
    /\ \/ /\ oper' = [oper EXCEPT ![s] = InUse]
          /\ lent' = [lent EXCEPT ![s] = "suspended"]
          /\ UNCHANGED completed
       \/ \E ec \in {"success", "failure"} : Complete(s, ec)
    /\ asked' = [asked EXCEPT ![s] = "operation"]
    /\ UNCHANGED <<alive, running>>

(* initiate() throws: the LendersOperPtr is on its way to be destroyed. *)
initiate_throws(s) ==
    /\ May(s)
    /\ oper' = [oper EXCEPT ![s] = InUse]
    /\ lent' = [lent EXCEPT ![s] = "unwinding"]
    /\ UNCHANGED <<alive, completed, running, asked>>

(* LendersOperDeleter: recycle(), which ends in do_recycle(orphaned).      *)
recycle(s) ==
    /\ lent[s] = "unwinding"
    /\ oper' = [oper EXCEPT ![s] = Recycled(s)]
    /\ lent' = [lent EXCEPT ![s] = "no"]
    /\ UNCHANGED <<alive, completed, running, asked>>

(* AsyncOper::cancel() asserts that the operation is not canceled already, *)
(* so SocketBase::cancel(), which is external, has to pass by those that   *)
(* are: for them nothing changes here.                                     *)
cancel(k) ==
    /\ k \in alive
    /\ Cancels(k)
    /\ oper' = [s \in Slots |-> IF Socket(s) = k /\ in_use(s) THEN [oper[s] EXCEPT !.m_canceled = TRUE]
                                                             ELSE oper[s]]
    /\ UNCHANGED alive

(* The destructor cancels; OwnersOperDeleter then orphans what is in use,  *)
(* and deletes what is not.                                                *)
destroy(k) ==
    /\ k \in alive
    /\ alive' = alive \ {k}
    /\ Cancels(k)
    /\ oper' = [s \in Slots |->
                  IF Socket(s) # k THEN oper[s]
                  ELSE IF in_use(s) THEN [oper[s] EXCEPT !.m_canceled = TRUE, !.m_stream = FALSE]
                  ELSE Deleted]

handler_returns ==
    /\ running # None
    /\ running' = None
    /\ UNCHANGED <<alive, oper, lent, completed, asked>>

-----------------------------------------------------------------------------
(* The event loop: an operation that waits for its descriptor advances, or *)
(* a handler is executed.                                                  *)
advance(s) ==
    /\ running = None
    /\ lent[s] = "suspended"
    /\ \E ec \in {"success", "failure"} : Complete(s, ec)
    /\ UNCHANGED <<alive, running, asked>>

(* recycle_and_execute(): the memory is recycled, then the handler called; *)
(* or, if the handler cannot be moved, recycled only.                      *)
execute(s) ==
    /\ running = None /\ completed # <<>> /\ s = Head(completed)
    /\ completed' = Tail(completed)
    /\ oper' = [oper EXCEPT ![s] = Recycled(s)]
    /\ lent' = [lent EXCEPT ![s] = "no"]
    /\ asked' = [asked EXCEPT ![s] = "nothing"]
    /\ \/ running' = [slot |-> s, ec |-> Told(s)]
       \/ UNCHANGED running
    /\ UNCHANGED alive

(* ~Service, after the sockets: the operations in its queues are recycled. *)
destroy_service ==
    /\ alive = {} /\ running = None
    /\ \E s \in Slots : lent[s] # "no"
    /\ oper' = [s \in Slots |-> IF lent[s] = "no" THEN oper[s]
                                ELSE Recycled(s)]
    /\ lent' = [s \in Slots |-> "no"]
    /\ completed' = <<>>
    /\ asked' = [s \in Slots |-> "nothing"]
    /\ UNCHANGED <<alive, running>>

-----------------------------------------------------------------------------
Busy == \E s \in Slots : lent[s] = "unwinding"    \* in the middle of a call

Program == \/ \E s \in Slots : alloc_throws(s) \/ initiate(s) \/ initiate_throws(s)
           \/ \E k \in Sockets : cancel(k) \/ destroy(k)
           \/ handler_returns

EventLoop == \E s \in Slots : advance(s) \/ execute(s)

Next == \/ \E s \in Slots : recycle(s)
        \/ ~Busy /\ (Program \/ EventLoop \/ destroy_service)

SafeSpec == Init /\ [][Next]_vars

(* Calls come to an end, handlers return, and somebody runs the Service.   *)
Spec == /\ SafeSpec
        /\ WF_vars(\E s \in Slots : recycle(s))
        /\ SF_vars(~Busy /\ handler_returns)
        /\ SF_vars(~Busy /\ \E s \in Slots : execute(s))

-----------------------------------------------------------------------------
Results == {"success", "failure", "operation_aborted"}

(* Type correctness. *)
TypeOK == /\ alive \subseteq Sockets
          /\ oper \in [Slots -> [memory : {"deleted", "unused", "in_use"}, m_complete : BOOLEAN,
                                 ec : {"none", "success", "failure"}, m_canceled : BOOLEAN,
                                 m_stream : BOOLEAN]]
          /\ lent \in [Slots -> {"no", "suspended", "completed", "unwinding"}]
          /\ completed \in Seq(Slots)
          /\ running \in [slot : Slots, ec : Results] \cup {None}
          /\ asked \in [Slots -> {"nothing", "operation", "abort"}]

(* The memory of an operation has an owner as long as there is any: it is  *)
(* in use exactly while it is lent, and nothing that is neither owned by a *)
(* socket nor lent is left.                                                *)
MemoryHasOwner ==
    \A s \in Slots : /\ in_use(s) <=> lent[s] # "no"
                     /\ Socket(s) \notin alive /\ lent[s] = "no" => oper[s].memory = "deleted"

(* An operation points at its socket while that lives and not longer, and  *)
(* one that the event loop may advance is neither complete nor canceled    *)
(* nor orphaned: what advance() asserts and descriptor() dereferences.     *)
NeverAdvancedTooLate ==
    \A s \in Slots : /\ in_use(s) => (oper[s].m_stream <=> Socket(s) \in alive)
                     /\ lent[s] = "suspended" =>
                          oper[s].m_stream /\ ~oper[s].m_complete /\ ~oper[s].m_canceled

(* Every operation that is ready to be executed is queued, once, and has   *)
(* something to tell: what recycle_and_execute() asserts.                  *)
QueuedOnce == /\ ToSet(completed) = {s \in Slots : lent[s] = "completed"}
              /\ IsInjective(completed)
              /\ \A s \in ToSet(completed) : oper[s].m_complete \/ oper[s].m_canceled

(* An operation that was canceled before its handler starts is aborted,    *)
(* even if it was complete, or its socket destroyed; any other is not      *)
(* (network.hpp:98-104).                                                   *)
AbortedIffCanceled ==
    [][\A s \in Slots : running = None /\ running' # None /\ running'.slot = s =>
          (running'.ec = "operation_aborted" <=> asked[s] = "abort")]_vars

(* The handler of an operation that is canceled gets its turn, however     *)
(* many operations the handlers before it start and complete.              *)
HandlerHasItsTurn == \A s \in Slots : (asked[s] = "abort") ~> (asked[s] # "abort")

(* LendersOperDeleter finds only operations whose owner has gone: the      *)
(* assertion of recycle() (network.hpp:2296).                              *)
RecycledAreOrphaned == \A s \in Slots : lent[s] = "unwinding" => orphaned(s)
=============================================================================
