----------------------------- MODULE StreamRead -----------------------------
(***************************************************************************)
(* Reading from a stream, Realm/network.hpp: the synchronous and the       *)
(* asynchronous read operations of BasicStreamOps, with and without a      *)
(* ReadAheadBuffer, over a socket or over one of the two SSL streams.      *)
(*                                                                         *)
(* A byte is its position in the input, so that a byte that is lost,       *)
(* repeated or reordered can be told from the others; all that matters of  *)
(* its value is whether it is the delimiter.  One read operation is in     *)
(* progress at a time (network.hpp:1047).  The stream, the event loop, and *)
(* ReadAheadBuffer::read() are implemented outside the headers.            *)
(***************************************************************************)
EXTENDS Naturals, Sequences, SequencesExt, FiniteSets

CONSTANTS Streams,     \* of "tcp", "openssl" and "secure_transport"
          s_size,      \* the size of the read-ahead buffer
          MaxSize,     \* bound: the size of the callers' buffers
          MaxInput     \* bound: the number of bytes that the peer sends

ASSUME StreamsAssumption == Streams \subseteq {"tcp", "openssl", "secure_transport"}
ASSUME SizesAssumption   == s_size \in Nat \ {0} /\ MaxSize \in Nat /\ MaxInput \in Nat

VARIABLES stream,        \* what is read from
          input,         \* what the peer has sent, and not been lost
          ended,         \* how the input has ended, or "no"
          renegotiation, \* must the SSL stream write before it can read on?
          taken,         \* how many bytes the stream has handed out
          rab,           \* m_begin to m_end of the ReadAheadBuffer
          oper,          \* the read operation in progress
          received       \* history: the bytes that the callers were told of

environment == <<stream, input, ended, renegotiation>>
vars == <<environment, taken, rab, oper, received>>

Idle == [kind |-> "none", sync |-> FALSE, size |-> 0, placed |-> <<>>, m_error_code |-> "none",
         want |-> "nothing", m_canceled |-> FALSE, pc |-> "idle"]

Kinds       == {"read", "read_some", "buffered_read", "buffered_read_until"}
Buffered(o) == o.kind \in {"buffered_read", "buffered_read_until"}
Until(o)    == o.kind = "buffered_read_until"
Space(o)    == o.size - Len(o.placed)          \* m_end - m_curr

Init == /\ stream \in Streams
        /\ input = <<>> /\ ended = "no" /\ renegotiation = "none"
        /\ taken = 0 /\ rab = <<>> /\ received = <<>>
        /\ oper = Idle

Least(m, n)   == IF m < n THEN m ELSE n
Bytes(m, n)   == [i \in 1 .. n |-> m + i]      \* the n bytes after the first m
Available     == Len(input) - taken
Ssl           == stream # "tcp"

-----------------------------------------------------------------------------
(* What do_read_some_async(buffer, size, ec, want) may do: hand out bytes, *)
(* fail, or want something.  A socket wants read readiness whenever it did *)
(* not fail; SSL only when it has nothing to hand out, Secure Transport in *)
(* any case that it found too little; and Secure Transport alone may hand  *)
(* out the last bytes together with end_of_input.                          *)
Outcome(n, ec, want) == [n |-> n, ec |-> ec, want |-> want]

do_read_some_async(size) ==
    LET n == Least(Available, size)
        Transferred ==
            {Outcome(k, "none", w) : k \in 1 .. n, w \in CASE stream = "tcp"     -> {"read"}
                                                       [] stream = "openssl" -> {"nothing"}
                                                       [] OTHER -> {"nothing", "read"}}
        LastOnes == IF /\ stream = "secure_transport" /\ ended = "end_of_input"
                       /\ n > 0 /\ n = Available
                    THEN {Outcome(n, ended, "nothing")} ELSE {}
    IN  IF renegotiation = "pending" THEN {Outcome(0, "none", "write")}
        ELSE IF Available > 0 THEN Transferred \cup LastOnes
        ELSE IF ended # "no" THEN {Outcome(0, ended, "nothing")}
        ELSE {Outcome(0, "none", "read")}

(* do_read_some_sync() waits instead of wanting: the descriptor blocks.    *)
do_read_some_sync(size) == {r \in do_read_some_async(size) : r.n > 0 \/ r.ec # "none"}

(* ReadAheadBuffer::read(): bytes move to the caller's buffer until that   *)
(* is full or a delimiter has moved; then it is complete, and the error    *)
(* code tells success or delim_not_found.                                  *)
RabRead(o, buffered) ==
    LET n     == Least(Len(buffered), Space(o))
        Ends(i) == Until(o) /\ input[buffered[i]] = "delim"
        found == \E i \in 1 .. n : Ends(i)
        moved == Cardinality({i \in 1 .. n : \A j \in 1 .. i - 1 : ~Ends(j)})
        now   == [o EXCEPT !.placed = @ \o SubSeq(buffered, 1, moved)]
        full  == Space(now) = 0
    IN  [left     |-> SubSeq(buffered, moved + 1, Len(buffered)),
         complete |-> found \/ full,
         oper     |-> IF found \/ (full /\ ~Until(o)) THEN [now EXCEPT !.m_error_code = "none"]
                      ELSE IF full THEN [now EXCEPT !.m_error_code = "delim_not_found"]
                      ELSE now]

-----------------------------------------------------------------------------
(* Where an operation goes from here.                                      *)
Complete(o)      == [o EXCEPT !.pc = "complete", !.want = "nothing"]
Fail(o, ec)      == Complete([o EXCEPT !.m_error_code = ec])
Continue(o)      == [o EXCEPT !.pc = "advancing", !.want = "nothing"]
Suspend(o, want) == [o EXCEPT !.pc = "suspended", !.want = want]
Proceed(o, want) == IF want = "nothing" THEN Continue(o) ELSE Suspend(o, want)

(* do_init_read_async(): a socket waits until it can be read from. *)
Begin(o) == IF o.sync \/ Ssl THEN Continue(o) ELSE Suspend(o, "read")

Starts == oper.pc = "idle" /\ UNCHANGED <<environment, taken, received>>

NewOper(kind, sync, size) == [Idle EXCEPT !.kind = kind, !.sync = sync, !.size = size]

-----------------------------------------------------------------------------
(* Mutated forms of the actions below, each the mark of a plausible bug.   *)

(* The read-ahead buffer is refilled before it has been looked at. *)
initiate_buffered_refill(kind, sync, size) ==
    /\ Starts
    /\ oper' = LET o == NewOper(kind, sync, size) IN IF size = 0 THEN Complete(o) ELSE Begin(o)
    /\ UNCHANGED rab

(* Wanting is looked at before completion. *)
advance_wanting(o) ==
    \E r \in do_read_some_async(Space(o)) :
        /\ taken' = taken + r.n
        /\ oper' = LET now == [o EXCEPT !.placed = @ \o Bytes(taken, r.n), !.m_error_code = r.ec]
                   IN  IF r.ec # "none" THEN Complete(now)
                       ELSE IF r.want # "nothing" THEN Suspend(now, r.want)
                       ELSE IF o.kind = "read_some" \/ Space(now) = 0 THEN Complete(now)
                       ELSE Continue(now)

(* Every turn asks for as many bytes as the whole buffer has room for.     *)
advance_whole(o) ==
    \E r \in do_read_some_async(o.size) :
        /\ taken' = taken + r.n
        /\ oper' = LET now == [o EXCEPT !.placed = @ \o Bytes(taken, r.n), !.m_error_code = r.ec]
                   IN  IF r.n = 0 THEN IF r.ec # "none" THEN Complete(now)
                                                       ELSE Suspend(now, r.want)
                       ELSE IF o.kind = "read_some" \/ Space(now) = 0 THEN Complete(now)
                       ELSE Proceed(now, r.want)

(* A transfer of some bytes is taken for a transfer of all. *)
advance_short(o) ==
    \E r \in do_read_some_async(Space(o)) :
        /\ taken' = taken + r.n
        /\ oper' = LET now == [o EXCEPT !.placed = @ \o Bytes(taken, r.n), !.m_error_code = r.ec]
                   IN  IF r.n = 0 /\ r.ec = "none" THEN Suspend(now, r.want) ELSE Complete(now)

(* Canceling leaves the operation to the event loop to find. *)
cancel_quietly ==
    /\ oper.pc \in {"suspended", "complete"} /\ ~oper.sync /\ ~oper.m_canceled
    /\ oper' = [oper EXCEPT !.m_canceled = TRUE]
    /\ UNCHANGED <<environment, taken, rab, received>>

-----------------------------------------------------------------------------
(* The program.  Reading without the read-ahead buffer: only after that    *)
(* has been emptied.  read_some() needs room for a byte.                   *)
initiate(kind, sync, size) ==
    /\ kind \in {"read", "read_some"} /\ rab = <<>>
    /\ sync /\ kind = "read_some" => size > 0
    /\ Starts
    /\ oper' = LET o == NewOper(kind, sync, size) IN IF size = 0 THEN Complete(o) ELSE Begin(o)
    /\ UNCHANGED rab

(* Reading through the read-ahead buffer: what is in it comes first. *)
initiate_buffered(kind, sync, size) ==
    /\ kind \in {"buffered_read", "buffered_read_until"}
    /\ Starts
    /\ LET r == RabRead(NewOper(kind, sync, size), rab)
       IN  /\ rab' = r.left
           /\ oper' = IF r.complete THEN Complete(r.oper) ELSE Begin(r.oper)

(* Discarding what has been read ahead: the program knows of those bytes.  *)
clear ==
    /\ oper.pc = "idle" /\ rab # <<>>
    /\ rab' = <<>>
    /\ received' = received \o rab
    /\ UNCHANGED <<environment, taken, oper>>

cancel ==
    /\ oper.pc \in {"suspended", "complete"} /\ ~oper.sync /\ ~oper.m_canceled
    /\ oper' = [oper EXCEPT !.m_canceled = TRUE, !.pc = "complete"]
    /\ UNCHANGED <<environment, taken, rab, received>>

-----------------------------------------------------------------------------
(* One turn of the loop in advance(), without the read-ahead buffer ...    *)
advance_turn(o) ==
    \E r \in do_read_some_async(Space(o)) :
        /\ taken' = taken + r.n
        /\ oper' = LET now == [o EXCEPT !.placed = @ \o Bytes(taken, r.n), !.m_error_code = r.ec]
                   IN  IF r.n = 0 THEN IF r.ec # "none" THEN Complete(now)
                                                       ELSE Suspend(now, r.want)
                       ELSE IF o.kind = "read_some" \/ Space(now) = 0 THEN Complete(now)
                       ELSE Proceed(now, r.want)

advance ==
    /\ oper.pc = "advancing" /\ ~oper.sync /\ ~Buffered(oper)
    /\ advance_turn(oper)
    /\ UNCHANGED <<environment, rab, received>>

(* ... and with it. *)
advance_buffered ==
    /\ oper.pc = "advancing" /\ ~oper.sync /\ Buffered(oper)
    /\ \E r \in do_read_some_async(s_size) :
          /\ taken' = taken + r.n
          /\ IF r.n = 0
             THEN /\ oper' = IF r.ec # "none" THEN Fail(oper, r.ec) ELSE Suspend(oper, r.want)
                  /\ UNCHANGED rab
             ELSE LET t == RabRead([oper EXCEPT !.m_error_code = r.ec], Bytes(taken, r.n))
                  IN  /\ rab' = t.left
                      /\ oper' = IF t.complete \/ t.oper.m_error_code = "end_of_input"
                                 THEN Complete(t.oper)
                                 ELSE Proceed(t.oper, r.want)
    /\ UNCHANGED <<environment, received>>

(* The loops of the synchronous functions.  What comes with an error is    *)
(* not counted.                                                            *)
read_sync ==
    /\ oper.pc = "advancing" /\ oper.sync /\ ~Buffered(oper)
    /\ \E r \in do_read_some_sync(Space(oper)) :
          /\ taken' = taken + r.n
          /\ oper' = LET now == [oper EXCEPT !.placed = @ \o Bytes(taken, r.n),
                                             !.m_error_code = r.ec]
                     IN  IF oper.kind = "read_some" THEN Complete(now)
                         ELSE IF r.ec # "none" THEN Fail(oper, r.ec)
                         ELSE IF Space(now) = 0 THEN Complete(now)
                         ELSE Continue(now)
    /\ UNCHANGED <<environment, rab, received>>

buffered_read_sync ==
    /\ oper.pc = "advancing" /\ oper.sync /\ Buffered(oper)
    /\ \E r \in do_read_some_sync(s_size) :
          LET buffered == IF r.n = 0 THEN rab ELSE Bytes(taken, r.n)
              t        == RabRead(oper, buffered)
          IN  /\ taken' = taken + r.n
              /\ IF r.ec # "none"
                 THEN rab' = buffered /\ oper' = Fail(oper, r.ec)
                 ELSE rab' = t.left /\ oper' = IF t.complete THEN Complete(t.oper)
                                                             ELSE Continue(t.oper)
    /\ UNCHANGED <<environment, received>>

(* SSL may come back wanting something all the same, with no byte to hand  *)
(* out: do_read_some_sync() makes it an error (network_ssl.hpp:970-977).   *)
try_again_sync ==
    /\ oper.pc = "advancing" /\ oper.sync /\ Ssl
    /\ \E r \in do_read_some_async(IF Buffered(oper) THEN s_size ELSE Space(oper)) :
          r.n = 0 /\ r.want # "nothing"
    /\ oper' = Fail(oper, "resource_unavailable_try_again")
    /\ UNCHANGED <<environment, taken, rab, received>>

-----------------------------------------------------------------------------
(* The event loop: a descriptor is ready; a handler is executed, or a      *)
(* synchronous function returns.                                           *)
Ready(want) == IF want = "write" THEN renegotiation # "pending"
               ELSE Available > 0 \/ ended # "no" \/ renegotiation = "pending"

ready ==
    /\ oper.pc = "suspended" /\ Ready(oper.want)
    /\ oper' = Continue(oper)
    /\ UNCHANGED <<environment, taken, rab, received>>

recycle_and_execute ==
    /\ oper.pc = "complete"
    /\ received' = received \o oper.placed
    /\ oper' = Idle
    /\ UNCHANGED <<environment, taken, rab>>

Told(o) == IF o.m_canceled THEN "operation_aborted" ELSE o.m_error_code

(* The peer and the network.  A broken connection loses what it holds.     *)
peer_sends ==
    /\ ended = "no" /\ Len(input) < MaxInput
    /\ \E c \in {"byte", "delim"} : input' = Append(input, c)
    /\ UNCHANGED <<stream, ended, renegotiation, taken, rab, oper, received>>

peer_closes ==
    /\ ended = "no"
    /\ \/ ended' = "end_of_input"
       \/ Ssl /\ ended' = "premature_end_of_input"
    /\ UNCHANGED <<stream, input, renegotiation, taken, rab, oper, received>>

connection_breaks ==
    /\ ended = "no"
    /\ ended' = "failure"
    /\ \E n \in taken .. Len(input) : input' = SubSeq(input, 1, n)
    /\ UNCHANGED <<stream, renegotiation, taken, rab, oper, received>>

(* Bound: one renegotiation. *)
renegotiates ==
    /\ Ssl /\ ended = "no" /\ renegotiation = "none"
    /\ renegotiation' = "pending"
    /\ UNCHANGED <<stream, input, ended, taken, rab, oper, received>>

renegotiated ==
    /\ renegotiation = "pending"
    /\ renegotiation' = "done"
    /\ UNCHANGED <<stream, input, ended, taken, rab, oper, received>>

-----------------------------------------------------------------------------
Program == \/ \E kind \in Kinds, sync \in BOOLEAN, size \in 0 .. MaxSize :
                 initiate(kind, sync, size) \/ initiate_buffered(kind, sync, size)
           \/ clear \/ cancel

Turn == advance \/ advance_buffered \/ read_sync \/ buffered_read_sync

Environment == \/ peer_sends \/ peer_closes \/ connection_breaks
               \/ renegotiates \/ renegotiated

Next == Program \/ Turn \/ try_again_sync \/ ready \/ recycle_and_execute \/ Environment

(* A thread that runs goes on, a thread runs the event loop, and what the  *)
(* SSL stream has to write can be written.  The peer may do nothing.       *)
Spec == /\ Init /\ [][Next]_vars
        /\ WF_vars(Turn) /\ WF_vars(ready) /\ WF_vars(recycle_and_execute)
        /\ WF_vars(renegotiated)

-----------------------------------------------------------------------------
Endings == {"no", "end_of_input", "premature_end_of_input", "failure"}

Errors == {"none", "delim_not_found", "resource_unavailable_try_again"} \cup (Endings \ {"no"})

(* Type correctness; the caller's buffer never overflows. *)
TypeOK ==
    /\ stream \in Streams /\ ended \in Endings /\ renegotiation \in {"none", "pending", "done"}
    /\ input \in Seq({"byte", "delim"}) /\ taken \in 0 .. Len(input)
    /\ rab \in Seq(1 .. taken) /\ Len(rab) <= s_size /\ received \in Seq(1 .. taken)
    /\ oper \in [kind : Kinds \cup {"none"}, sync : BOOLEAN, size : 0 .. MaxSize,
                 placed : Seq(1 .. taken), want : {"nothing", "read", "write"},
                 m_error_code : Errors,
                 m_canceled : BOOLEAN, pc : {"idle", "advancing", "suspended", "complete"}]
    /\ Space(oper) >= 0

(* No byte is lost, repeated or reordered: what the callers were told of,  *)
(* what has been placed for the operation in progress, and what was read   *)
(* ahead, is what the stream has handed out, whatever mix of operations    *)
(* it was, failed, and canceled operations included.                       *)
InOrder == received \o oper.placed \o rab = Bytes(0, taken)

(* An operation never waits for more when it has what it needs, and        *)
(* advance() finds what it asserts: an operation that is neither complete  *)
(* nor canceled nor failed, with room left, and nothing left to read in    *)
(* the read-ahead buffer (network.hpp:2351-2355 and 2512-2516).            *)
AdvanceFindsRoom ==
    oper.pc \in {"advancing", "suspended"} =>
        /\ ~oper.m_canceled /\ oper.m_error_code = "none"
        /\ Space(oper) > 0 /\ rab = <<>>
        /\ oper.kind = "read_some" => oper.placed = <<>>
        /\ Until(oper) => \A i \in DOMAIN oper.placed : input[oper.placed[i]] # "delim"

(* What an operation is told is true (network.hpp:997-1007 and 1039-1041):    *)
(* success exactly when the buffer is full, or the delimiter its last byte *)
(* and no other; delim_not_found, when the buffer is full without one; and *)
(* the end of the input, when all of it has been received, and none of it  *)
(* remains in the read-ahead buffer.                                       *)
Delims(o) == {i \in DOMAIN o.placed : input[o.placed[i]] = "delim"}

Succeeded(o) ==
    CASE o.kind = "read_some"           -> o.placed # <<>> \/ o.size = 0
      [] o.kind = "buffered_read_until" -> Len(o.placed) > 0 /\ Delims(o) = {Len(o.placed)}
      [] OTHER                          -> Space(o) = 0

AnswerIsRight ==
    oper.pc = "complete" =>
        /\ ~oper.m_canceled => (Told(oper) = "none" <=> Succeeded(oper))
        /\ Told(oper) = "delim_not_found" => Until(oper) /\ Space(oper) = 0 /\ Delims(oper) = {}
        /\ Told(oper) \in Endings =>
              Told(oper) = ended /\ taken = Len(input) /\ rab = <<>>

(* An operation is answered once it has what it waits for, or the input    *)
(* has ended, or it has been canceled.                                     *)
Needed(o) == IF o.kind = "read_some" THEN 1 ELSE Space(o)

Answered ==
    oper.pc # "idle" /\ (oper.m_canceled \/ ended # "no" \/ Available >= Needed(oper))
        ~> oper.pc = "idle"

(* Bytes that advance() has counted did not come with an error: the        *)
(* assertion of network.hpp:2373.                                          *)
NoErrorWithBytes ==
    [][advance /\ taken' > taken => oper'.m_error_code = "none"]_vars
=============================================================================
