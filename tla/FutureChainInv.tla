--------------------------- MODULE FutureChainInv ---------------------------
(***************************************************************************)
(* What is always so of a chain of Futures, and makes its properties hold. *)
(*                                                                         *)
(* The stacks are seen as a set of places, numbered from the outermost     *)
(* call: a step changes the call in one place and what is above it, and    *)
(* no other.  Place 0 of a thread is for the Future that has just been     *)
(* returned to its innermost call and not been taken yet.                  *)
(*                                                                         *)
(* The last section says what is asked of a step, by the call that makes it*)
(* and those that it puts in its place, for all of this to stay so.        *)
(***************************************************************************)
EXTENDS FutureChain, Integers

-----------------------------------------------------------------------------
(* Places and what is in them. *)

Operations == 1..N

Kinds == {"loop", "step", "propagate", "fill_from", "finish", "complete", "get_async"}
Pcs   == {"start", "load", "attach", "cas", "take", "drop", "propagate", "test", "bypass",
          "bind", "publish", "set", "exchange", "callback"}

Futures == {f \in [ready : BOOLEAN, outcome : Outcomes \cup {"none"}, state : States \cup {Null}] :
              f.ready => f.outcome \in Outcomes}
Calls   == [op : Kinds, pc : Pcs, k : 0..N, future : Futures, output : States \cup {Null}]

NoCall   == Call("none", "none", 0, NoFuture, Null)
Given(f) == Call("returned", "held", 0, f, Null)

(* A call that has called loop() and waits for the Future it returns. *)
Waits(c) == \/ c.op = "loop" /\ c.pc = "take"
            \/ c.op = "step" /\ c.pc = "propagate"
            \/ c.op = "get_async" /\ c.pc = "start"

Slot(calls, future, h) ==
    IF h = 0 THEN IF calls # <<>> /\ Waits(Head(calls)) THEN Given(future) ELSE NoCall
             ELSE IF h <= Len(calls) THEN calls[Len(calls) + 1 - h] ELSE NoCall

Places == Threads \X Nat

FrameIn(calls, futures, p) == Slot(calls[p[1]], futures[p[1]], p[2])
Frame(p) == FrameIn(stack, returned, p)

Over(q, p)   == q[1] = p[1] /\ p[2] # 0 /\ q[2] = p[2] + 1
Below(q, p)  == q[1] = p[1] /\ q[2] # 0 /\ q[2] < p[2]
Origin(z, p) == z[1] = p[1] /\ z[2] = 0

-----------------------------------------------------------------------------
(* What a call has to do with a state. *)

(* It has a reference to an output. *)
Held(c, s) ==
    \/ c.op = "loop" /\ c.pc = "cas" /\ s = Output(c.k)
    \/ /\ ~c.future.ready /\ s = c.future.state
       /\ \/ c.op = "loop" /\ c.pc = "drop"
          \/ c.op = "returned"
          \/ c.op = "propagate"
          \/ c.op = "get_async" /\ c.pc # "start"

(* It may still leave a callback with the state ... *)
Opens(c, s) ==
    \/ c.op = "loop" /\ c.pc \in {"load", "attach", "cas"} /\ s = c.k
    \/ Held(c, s) /\ ~(c.op \in {"propagate", "get_async"} /\ c.pc = "drop")

(* ... or it is the callback. *)
Handles(c, s) ==
    \/ c.op = "step" /\ c.pc = "start" /\ s = c.k
    \/ c.op = "fill_from" /\ s = c.future.state
    \/ c.op = "finish" /\ c.pc = "callback" /\ s = c.future.state

Uses(c, s) == Opens(c, s) \/ Handles(c, s)

(* The Future has not been given a continuation yet. *)
Fresh(c, s) ==
    /\ Held(c, s)
    /\ \/ c.op \in {"loop", "returned"}
       \/ c.op = "propagate" /\ c.pc \in {"load", "test", "bypass", "bind"}
       \/ c.op = "get_async" /\ c.pc = "set"

(* It has been given one, that is not yet in force. *)
Hooks(c, s) == /\ c.op = "propagate" /\ c.pc \in {"publish", "set", "cas"}
               /\ s = c.future.state

(* It will see to the result of the state. *)
Makes(c, s) ==
    \/ c.op = "step" /\ c.pc = "propagate" /\ s = c.output
    \/ c.op = "propagate" /\ c.pc \in {"load", "test", "bypass", "bind"} /\ s = c.output
    \/ c.op = "complete" /\ c.pc = "start" /\ s = c.k
    \/ c.op = "finish" /\ c.pc = "exchange" /\ s = c.future.state

(* State s will pass its result on to x. *)
Feeds(s, x) == ssb[s].m_continuation = x /\ ssb[s].result # "moved"

Looping(c, k)    == c.op = "loop" /\ c.k = k /\ c.pc # "start"
Completing(c, k) == c.op = "complete" /\ c.k = k

(* It keeps the state from being deleted. *)
Owns(c, s) == Looping(c, s) \/ Completing(c, s) \/ Held(c, s)

-----------------------------------------------------------------------------
(* The inductive invariant, part by part. *)

SharedStates == [m_state : {"Init", "Waiting", "Finished"},
                 result : Outcomes \cup {"none", "moved"},
                 m_callback : {"none", "then", "fill_from", "final"},
                 m_continuation : States \cup {Null},
                 m_is_just_for_continuation : BOOLEAN,
                 m_refs : Int]

Typed == /\ called_on \in Callings
         /\ ssb \in [States -> SharedStates]
         /\ created \subseteq States
         /\ stack \in [Threads -> Seq(Calls)]
         /\ returned \in [Threads -> Futures]
         /\ expected \in Outcomes \cup {"none"}
         /\ delivered \in Seq(Outcomes)
         /\ overtaken \in BOOLEAN

(* A call is where it can be, about what it can be about. *)
ProperCall(c, t, h) ==
    /\ h = 0 => c.op \in {"none", "returned"}
    /\ h # 0 => c.op # "returned"
    /\ c.op \in Kinds \cup {"none", "returned"}
    /\ c.op = "none" => c.pc = "none"
    /\ c.op = "returned" /\ ~c.future.ready => c.future.state \in Outputs
    /\ c.op = "loop" => /\ c.pc \in {"start", "load", "attach", "cas", "take", "drop"}
                        /\ c.k \in Operations
                        /\ c.pc = "drop" /\ ~c.future.ready
                             => c.future.state \in Outputs /\ c.future.state >= Output(c.k)
    /\ c.op = "step" => /\ c.pc \in {"start", "propagate"} /\ c.k \in Operations
                        /\ c.pc = "propagate" => c.output = Output(c.k) /\ c.k < N
    /\ c.op = "propagate" =>
         /\ c.pc \in {"load", "test", "bypass", "bind", "publish", "set", "cas", "drop"}
         /\ c.output \in Outputs
         /\ ~c.future.ready => c.future.state \in Outputs /\ c.output < c.future.state
         /\ c.future.ready => c.pc \in {"load", "drop"}
    /\ c.op = "fill_from" => c.pc = "start" /\ c.future.state \in Outputs
    /\ c.op = "finish" => c.pc \in {"exchange", "callback"} /\ c.future.state \in States
    /\ c.op = "complete" => c.pc \in {"start", "drop"} /\ c.k = t /\ t \in Operations /\ h = 1
    /\ c.op = "get_async" =>
         /\ c.pc \in {"start", "set", "cas", "drop"} /\ c.k = 0 /\ t = User /\ h = 1
         /\ c.pc # "start" /\ ~c.future.ready => c.future.state \in Outputs
         /\ c.future.ready => c.pc = "drop"

Proper == \A p \in Places : ProperCall(Frame(p), p[1], p[2])

(* A call is on top of one that has called it. *)
Stacked(c, a) ==
    /\ a.op # "none" => c.pc = "drop" \/ Waits(c)
    /\ a.op # "none" /\ Waits(c) => a.op = "loop"
    /\ a.op = "loop" => Waits(c) /\ a.k = c.k + 1
    /\ a.op \in {"step", "propagate"} => c.op \in {"loop", "complete"}
    /\ a.op = "step" => c.k = a.k
    /\ a.op = "propagate" => Output(c.k) = a.output
    /\ a.op = "finish" /\ a.future.state \in Operations => Completing(c, a.future.state)
    /\ a.op \notin {"complete", "get_async"}

Stacks == \A p, q \in Places : Over(q, p) => Stacked(Frame(p), Frame(q))

Bottoms == \A p \in Places : p[2] = 1 => Frame(p).op \in {"complete", "get_async", "none"}

Answers ==
    \A p, q, z \in Places :
       Over(q, p) /\ Origin(z, p) /\ Waits(Frame(p)) /\ Frame(q).op = "none" =>
          /\ Frame(z).op = "returned"
          /\ ~Frame(z).future.ready => Frame(z).future.state > Output(Frame(p).k)

Shape == Stacks /\ Bottoms /\ Answers

(* The rounds follow each other: one has been started only when the result *)
(* of the operation before has been taken.                                 *)
Past(k) == \A j \in Operations : j < k => j \in created /\ ssb[j].result = "moved"

RoundOf(c) ==
    /\ c.op = "loop" /\ c.pc = "start" => c.k \notin created /\ Past(c.k)
    /\ c.op = "loop" /\ c.pc # "start" => c.k \in created
    /\ c.op = "loop" /\ c.pc \in {"load", "attach", "take"} => Output(c.k) \notin created
    /\ c.op = "loop" /\ c.pc = "cas" => Output(c.k) \in created
    /\ c.op = "complete" /\ c.pc = "drop" => c.k \in created
    /\ c.op = "step" => Output(c.k) \in created
    /\ c.op = "step" /\ c.pc = "propagate" => ssb[c.k].result = "moved"
    /\ c.op = "propagate" => c.output \in created /\ ssb[c.output - N].result = "moved"

Rounds == /\ \A k \in Operations : k \in created => Past(k)
          /\ \A p \in Places : RoundOf(Frame(p))
          /\ \A p, q \in Places : /\ Frame(p).op = "loop" /\ Frame(q).op = "loop"
                                  /\ Frame(p).k = Frame(q).k
                                  => p = q

(* The states. *)
Creation ==
    /\ \A s \in States : s \notin created =>
         /\ ssb[s].m_state = "Init" /\ ssb[s].result = "none" /\ ssb[s].m_callback = "none"
         /\ ssb[s].m_continuation = Null /\ ~ssb[s].m_is_just_for_continuation
         /\ ssb[s].m_refs = 0
    /\ \A k \in Operations :
         /\ Output(k) \in created => /\ k \in created /\ ssb[k].m_callback = "then"
                                     /\ ssb[k].m_continuation = Output(k)
         /\ Output(k) \notin created => /\ ssb[k].m_callback = "none"
                                        /\ ssb[k].m_continuation = Null

Results ==
    \A s \in States :
       /\ ssb[s].m_state = "Finished" => ssb[s].result # "none"
       /\ ssb[s].result = "moved" => ssb[s].m_state = "Finished"
       /\ ssb[s].m_state = "Waiting" => ssb[s].m_callback # "none"

(* An output passes its result on to one made before it, and no other does *)
(* so too.                                                                 *)
Continuations ==
    /\ \A s \in Outputs :
         /\ ssb[s].m_continuation # Null => /\ ssb[s].m_continuation \in Outputs \cap created
                                            /\ ssb[s].m_continuation < s
         /\ ssb[s].m_callback \in {"none", "fill_from", "final"}
         /\ ssb[s].m_callback = "final" => ssb[s].m_continuation = Null
         /\ ssb[s].m_continuation # Null /\ ssb[s].result = "moved"
               => ssb[ssb[s].m_continuation].result # "none"
    /\ \A s, x \in Outputs : /\ ssb[s].m_continuation = ssb[x].m_continuation
                             /\ ssb[s].m_continuation # Null
                             => s = x

(* One call uses a state: the one that left the callback, or the callback. *)
UserOf(c, s) ==
    Uses(c, s) => /\ s \in created /\ ssb[s].result # "moved"
                  /\ Opens(c, s) => ssb[s].m_state # "Waiting"
                  /\ Handles(c, s) => ssb[s].m_state = "Finished" /\ ssb[s].m_callback # "none"
                  /\ c.op = "fill_from" => ssb[s].m_callback = "fill_from"
                  /\ c.op = "propagate" /\ c.pc = "cas" => ssb[s].m_callback = "fill_from"
                  /\ c.op = "get_async" /\ c.pc = "cas" => ssb[s].m_callback = "final"

OneUser ==
    /\ \A p, q \in Places, s \in States : Uses(Frame(p), s) /\ Uses(Frame(q), s) => p = q
    /\ \A p \in Places, s \in States : UserOf(Frame(p), s)

(* One call, or one other state, sees to the result of a state. *)
MakerOf(c, s) ==
    Makes(c, s) => /\ ssb[s].m_state # "Finished"
                   /\ \A x \in States : ~Feeds(x, s)
                   /\ c.op = "finish" => ssb[s].result \in Outcomes
                   /\ c.op # "finish" => ssb[s].result = "none"

OneMaker ==
    /\ \A p, q \in Places, s \in States : Makes(Frame(p), s) /\ Makes(Frame(q), s) => p = q
    /\ \A p \in Places, s \in States : MakerOf(Frame(p), s)
    /\ \A s, x, y \in States : Feeds(x, s) /\ Feeds(y, s) => x = y
    /\ \A s, x \in States : Feeds(x, s) => ssb[s].m_state # "Finished" /\ ssb[s].result = "none"

(* A state that has its result, or will have it, has somewhere to pass it  *)
(* on to, once it has been marked as a continuation.                       *)
Live(x) == \/ ssb[x].m_state = "Finished"
           \/ \E p \in Places : Makes(Frame(p), x)
           \/ \E s \in States : Feeds(s, x)

Clean(s) == /\ ssb[s].m_continuation = Null /\ ssb[s].m_callback = "none"
            /\ ~ssb[s].m_is_just_for_continuation

Hooked ==
    /\ \A p \in Places, s \in Outputs : Fresh(Frame(p), s) => Clean(s)
    /\ \A x \in Outputs : Live(x) /\ ssb[x].m_continuation = Null =>
         /\ ~ssb[x].m_is_just_for_continuation /\ ssb[x].m_callback # "fill_from"
         /\ \A p \in Places : ~Hooks(Frame(p), x)
    /\ \A p \in Places : Frame(p).op = "propagate" /\ Frame(p).pc = "bypass" =>
         ssb[Frame(p).output].m_is_just_for_continuation

(* One call has a reference to an output. *)
OneHolder ==
    /\ \A p, q \in Places, s \in States : Held(Frame(p), s) /\ Held(Frame(q), s) => p = q
    /\ \A p \in Places, s \in States : Held(Frame(p), s) => s \in created \cap Outputs

(* The references to an operation are its thread's and its round's; those  *)
(* to an output are a call's and those of the states that lead to it.      *)
One(b) == IF b THEN 1 ELSE 0

Deleted(s) == ssb[s].m_refs = 0

OperationCount(k) == One(\E p \in Places : Completing(Frame(p), k))
                     + One(\E p \in Places : Looping(Frame(p), k))

OutputCount(x) == One(\E p \in Places : Held(Frame(p), x))
                  + One(~Deleted(x - N))
                  + One(\E s \in Outputs : ssb[s].m_continuation = x /\ ~Deleted(s))

Counts == /\ \A k \in Operations : IF k \in created THEN ssb[k].m_refs = OperationCount(k)
                                       ELSE \E p \in Places : Completing(Frame(p), k)
          /\ \A x \in Outputs : x \in created => ssb[x].m_refs = OutputCount(x)

(* A result is passed on along states that calls further down the same     *)
(* stack keep from being deleted.                                          *)
KeptBelow(p, K) ==
    \A w \in K : \/ \E q \in Places : Below(q, p) /\ Owns(Frame(q), w)
                 \/ \E x \in K : ssb[x].m_continuation = w /\ ssb[x].result = "moved"

Kept ==
    \A p \in Places : Frame(p).op \in {"finish", "fill_from"} =>
        \E K \in SUBSET States : Frame(p).future.state \in K /\ KeptBelow(p, K)

IInv == /\ Typed /\ Proper /\ Shape /\ Rounds /\ Creation /\ Results /\ Continuations
        /\ OneUser /\ OneMaker /\ Hooked /\ OneHolder /\ Counts /\ Kept

-----------------------------------------------------------------------------
(* Where the outcome of the loop is.  As long as there is none, a round is *)
(* about to be started or waits for the result of its operation; then it is*)
(* in one place: a Future that a call is to hand on, the result of an      *)
(* output, or the final callback.                                          *)
Carrying(c) == /\ c.future.ready
               /\ \/ c.op = "returned"
                  \/ c.op = "loop" /\ c.pc = "drop"
                  \/ c.op = "propagate" /\ c.pc = "load"

Begins(c)  == c.op = "loop" /\ c.pc = "start"
Unmoved(k) == k \in created /\ ssb[k].result # "moved"
Pending    == \/ \E p \in Places : Begins(Frame(p))
              \/ \E k \in Operations : Unmoved(k)

Full(s)  == ssb[s].result \in Outcomes
Carriers == {p \in Places : Carrying(Frame(p))}
Stores   == {s \in Outputs : Full(s)}

Located ==
    \/ /\ Carriers = {} /\ Stores = {} /\ delivered = <<>>
       /\ expected = "none" /\ Pending
    \/ /\ expected \in Outcomes /\ ~Pending
       /\ \/ /\ \E p \in Places : Carriers = {p} /\ Frame(p).future.outcome = expected
             /\ Stores = {} /\ delivered = <<>>
          \/ /\ \E s \in Outputs : Stores = {s} /\ ssb[s].result = expected
             /\ Carriers = {} /\ delivered = <<>>
          \/ Carriers = {} /\ Stores = {} /\ delivered = <<expected>>

(* A state is looked after until its result has been moved out of it: by   *)
(* who completes it, and by who leaves the callback or is the callback.    *)
Used(s) == \E p \in Places : Uses(Frame(p), s)
Made(s) == \E p \in Places : Makes(Frame(p), s)

Attended ==
    \A s \in created :
      /\ ssb[s].result # "moved" /\ ssb[s].m_state # "Waiting" => Used(s)
      /\ ssb[s].m_state # "Finished" /\ (s \in Outputs => Full(s)) => Made(s)

(* The final callback is left by get_async(). *)
Asks(c) == c.op = "get_async" /\ c.pc = "start"

Asked == (\E s \in States : ssb[s].m_callback = "final") => \A p \in Places : ~Asks(Frame(p))

Delivery == Located /\ Attended /\ Asked

-----------------------------------------------------------------------------
(* Why chains stay short.  The first output that was made is that of the   *)
(* whole loop; a call is in a round if a continuation further down its     *)
(* stack waits for the Future that the round returns.                      *)
First(x) == \A y \in Outputs \cap created : x <= y

Inside(p) == \E q \in Places : /\ Below(q, p) \/ Origin(p, q)
                               /\ Frame(q).op = "step" /\ Frame(q).pc = "propagate"

(* A round that is in no other is the first that makes an output.          *)
Nested == \A p \in Places : Frame(p).op = "loop" =>
             Inside(p) \/ \A i \in Operations : i < Frame(p).k => Output(i) \notin created

(* An output that is kept, or waited for, and is not marked is the first.  *)
Kin == \A p \in Places, x \in Outputs :
          Held(Frame(p), x) /\ Frame(p).op # "propagate" /\ ~Inside(p) => First(x)

Marked ==
    /\ \A x \in Outputs : /\ ssb[x].m_callback = "fill_from" => ssb[x].m_is_just_for_continuation
                          /\ ssb[x].m_callback = "final" => First(x)
    /\ \A p \in Places : Frame(p).op = "propagate" /\ Frame(p).pc = "set" =>
         ssb[Frame(p).future.state].m_is_just_for_continuation

(* Unless a round was overtaken, outputs lead to the first one and no other. *)
Flat == ~overtaken =>
    /\ \A y \in Outputs : ssb[y].m_continuation # Null => First(ssb[y].m_continuation)
    /\ \A p \in Places : Frame(p).op = "propagate" /\ Frame(p).pc = "bind" =>
         First(Frame(p).output)

Lineage == Nested /\ Kin /\ Marked /\ Flat

-----------------------------------------------------------------------------
(* What a step of a thread does to the places: p1 is that of its innermost *)
(* call, p2 the one above it, and p0 its place 0.                          *)
Spot(t, p0, p1, p2) ==
    /\ p0 = <<t, 0>> /\ p1 = <<t, Len(stack[t])>> /\ p2 = <<t, Len(stack[t]) + 1>>
    /\ Len(stack[t]) \in Nat \ {0}

Turns(p0, p1, p2, c, a, r) ==
    /\ \A p \in Places : p \notin {p0, p1, p2} => FrameIn(stack', returned', p) = Frame(p)
    /\ FrameIn(stack', returned', p0) = r
    /\ FrameIn(stack', returned', p1) = c
    /\ FrameIn(stack', returned', p2) = a

Around(p0, p1, p2) ==
    /\ p0 # p1 /\ p0 # p2 /\ p1 # p2
    /\ p0[2] = 0 /\ p1[2] # 0 /\ p2[2] # 0 /\ p2[2] # 1
    /\ Over(p2, p1) /\ Origin(p0, p1) /\ Origin(p0, p2)
    /\ \A q \in Places : /\ Over(q, p1) => q = p2
                         /\ Over(p2, q) => q = p1
                         /\ ~Over(q, p0) /\ ~Over(p0, q)
                         /\ Over(p1, q) => q # p1 /\ q # p2
                         /\ Over(q, p2) => q # p1 /\ q # p2 /\ Frame(q) = NoCall
                         /\ Origin(q, p1) \/ Origin(q, p2) => q = p0
                         /\ ~Origin(p1, q) /\ ~Origin(p2, q)
    /\ \A p, q \in Places : Over(q, p) /\ Origin(p0, p) => Origin(p0, q)
    /\ \A p, q \in Places : Over(q, p) /\ Origin(p0, q) => Origin(p0, p)
    /\ \A p, q \in Places : Over(q, p) /\ Origin(p0, p) /\ p # p1 =>
         Frame(p).op = "none" \/ Frame(q).op # "none"
    /\ \A q \in Places : /\ Below(q, p2) <=> Below(q, p1) \/ q = p1
                         /\ ~Below(p0, q) /\ ~Below(q, p0) /\ ~Below(q, q)
                         /\ Below(p1, q) => q = p2 \/ Frame(q) = NoCall
                         /\ Below(p2, q) => Frame(q) = NoCall

After(c, f) == IF Waits(c) THEN Given(f) ELSE NoCall

Stepping(t, p0, p1, p2, c, a, r) ==
    /\ Around(p0, p1, p2) /\ Turns(p0, p1, p2, c, a, r)
    /\ Frame(p1) = Top(t) /\ Frame(p2) = NoCall /\ Frame(p0) = After(Top(t), returned[t])
    /\ stack' \in [Threads -> Seq(Calls)]

(* A step of thread t, by the calls alone: b is its innermost call and g   *)
(* the Future returned to it; the step puts c in the place of b, a on top  *)
(* of that, and r is what is then returned to the innermost call.          *)
Answer(t) == After(Top(t), returned[t])

Steps(t, c, a, r) == \E p0, p1, p2 \in Places : Stepping(t, p0, p1, p2, c, a, r)

(* What the invariant says of b and g. *)
Known(t, b, g) ==
    /\ b = Top(t) /\ g = Answer(t) /\ b \in Calls /\ returned[t] \in Futures
    /\ \E h \in Nat \ {0} : ProperCall(b, t, h)
    /\ RoundOf(b)
    /\ \A s \in States : /\ UserOf(b, s) /\ UserOf(g, s) /\ MakerOf(b, s)
                         /\ Held(b, s) \/ Held(g, s) => s \in created \cap Outputs
                         /\ ~(Held(b, s) /\ Held(g, s)) /\ ~(Uses(b, s) /\ Uses(g, s))
    /\ \A s \in Outputs : Fresh(b, s) \/ Fresh(g, s) => Clean(s)
    /\ b.op = "propagate" /\ b.pc = "bypass" => ssb[b.output].m_is_just_for_continuation
    /\ ~Waits(b) => g = NoCall
    /\ Waits(b) => /\ g = Given(returned[t])
                   /\ ~returned[t].ready => /\ returned[t].state \in Outputs
                                            /\ returned[t].state > Output(b.k)

-----------------------------------------------------------------------------
(* What is asked of a step, for each part of the invariant. *)

(* The calls that it makes fit those below them; f is the call it is of. *)
Fits(f, c, a, r) ==
    /\ \A x : Stacked(x, f) => Stacked(x, c)
    /\ Stacked(c, a) /\ Stacked(a, NoCall) /\ \A x : Stacked(NoCall, x) => Stacked(a, x)
    /\ f.op \in {"complete", "get_async"} => c.op \in {"complete", "get_async", "none"}
    /\ f.op # "none"
    /\ c.op = "none" =>
         \A x : Stacked(x, f) /\ Waits(x) /\ x.k \in Nat =>
           r.op = "returned" /\ (~r.future.ready => r.future.state > Output(x.k))
    /\ Waits(c) => a.op # "none"
    /\ ~Waits(a)

ProperStep(b, c, a, r) ==
    \A t \in Threads, h \in Nat \ {0} : ProperCall(b, t, h) =>
      ProperCall(c, t, h) /\ (\A d \in Nat \ {0} : ProperCall(a, t, d)) /\ ProperCall(r, t, 0)

Own(b, g, s) == Uses(b, s) \/ Uses(g, s)
Fed(s)       == \E x \in States : Feeds(x, s)
Unused(s)    == \A p \in Places : ~Uses(Frame(p), s)

UserStep(b, g, c, a, r) ==
    \A s \in States :
      /\ Uses(c, s) \/ Uses(a, s) \/ Uses(r, s) => Own(b, g, s) \/ Unused(s)
      /\ ~(Uses(c, s) /\ Uses(a, s)) /\ ~(Uses(c, s) /\ Uses(r, s)) /\ ~(Uses(a, s) /\ Uses(r, s))
      /\ UserOf(c, s)' /\ UserOf(a, s)' /\ UserOf(r, s)'

MakerStep(b, c, a) ==
    \A s \in States :
      /\ Makes(c, s) \/ Makes(a, s) => Makes(b, s) \/ Fed(s)
      /\ ~(Makes(c, s) /\ Makes(a, s))
      /\ MakerOf(c, s)' /\ MakerOf(a, s)'

OneFeed ==
    /\ \A s, x, y \in States : Feeds(x, s) /\ Feeds(y, s) => x = y
    /\ \A s, x \in States : Feeds(x, s) => ssb[s].m_state # "Finished" /\ ssb[s].result = "none"

HookStep(b, g, c, a, r) ==
    /\ \A s \in Outputs :
         /\ Fresh(c, s) \/ Fresh(a, s) \/ Fresh(r, s) => Clean(s)'
         /\ Own(b, g, s) =>
              \/ Hooks(b, s) \/ ssb'[s].m_continuation # Null
              \/ /\ ssb'[s].m_is_just_for_continuation => ssb[s].m_is_just_for_continuation
                 /\ ssb'[s].m_callback = "fill_from" => ssb[s].m_callback = "fill_from"
         /\ Hooks(c, s) => Hooks(b, s) \/ ssb'[s].m_continuation # Null
         /\ ssb'[s].m_continuation = Null =>
              \/ ssb[s].m_continuation = Null
              \/ /\ Makes(b, s) /\ ~Makes(c, s) /\ ~Makes(a, s)
                 /\ ~Fed(s)' /\ ssb'[s].m_state # "Finished"
    /\ c.op = "propagate" /\ c.pc = "bypass" => ssb'[c.output].m_is_just_for_continuation
    /\ a.op # "propagate" /\ r.op \in {"none", "returned"}

HolderStep(b, g, c, a, r) ==
    \A s \in States :
      /\ Held(c, s) \/ Held(a, s) \/ Held(r, s) =>
           /\ s \in created' \cap Outputs
           /\ Held(b, s) \/ Held(g, s) \/ s \notin created
      /\ ~(Held(c, s) /\ Held(a, s)) /\ ~(Held(c, s) /\ Held(r, s)) /\ ~(Held(a, s) /\ Held(r, s))

(* A call stays in its round, and a new round is of an operation that had  *)
(* none.                                                                   *)
RoundStep(b, c, a) ==
    /\ RoundOf(c)' /\ RoundOf(a)'
    /\ c.op = "loop" => b.op = "loop" /\ c.k = b.k
    /\ a.op = "loop" => /\ c.op = "loop" => c.k # a.k
                        /\ \A p \in Places : Frame(p).op = "loop" => Frame(p).k # a.k

(* The states that calls further down keep for the innermost one. *)
BackedBy(b, x) == \/ b.op \in {"finish", "fill_from"} /\ x = b.future.state
                  \/ b.op = "step" /\ x = b.k
                  \/ b.op = "propagate" /\ x = b.output - N

Backed(b, s) == \E x \in States : /\ BackedBy(b, x)
                                  /\ \/ s = x
                                     \/ ssb'[x].m_continuation = s /\ ssb'[x].result = "moved"

KeptStep(b, c, a) ==
    /\ c.op \in {"finish", "fill_from"} => /\ c.future.state \in States
                                           /\ Backed(b, c.future.state)
    /\ a.op \in {"finish", "fill_from"} => /\ a.future.state \in States
                                           /\ Owns(c, a.future.state) \/ Backed(b, a.future.state)

(* The states that b and g use change, and the results that b sees to. *)
Confined(b, g) ==
    /\ created \subseteq created'
    /\ \A s \in States :
         /\ ssb[s].m_state = "Finished" => ssb'[s].m_state = "Finished"
         /\ ssb'[s].m_state = "Finished" => ssb[s].m_state = "Finished" \/ Makes(b, s)
         /\ ssb[s].m_is_just_for_continuation => ssb'[s].m_is_just_for_continuation
         /\ ssb[s].result = "moved" => /\ ssb'[s].result = "moved"
                                       /\ ssb'[s].m_continuation = ssb[s].m_continuation
         /\ \/ ssb'[s].result = ssb[s].result
            \/ ssb[s].m_state = "Finished" \/ Makes(b, s) \/ Fed(s)
         /\ Fed(s)' => Fed(s) \/ Makes(b, s) \/ s \in Outputs \ created
         /\ ~Own(b, g, s) =>
              /\ ssb'[s].result = "moved" => ssb[s].result = "moved"
              /\ ssb'[s].m_state = "Waiting" => ssb[s].m_state = "Waiting"
              /\ ssb'[s].m_callback = ssb[s].m_callback
              /\ ssb'[s].m_is_just_for_continuation = ssb[s].m_is_just_for_continuation
              /\ ssb'[s].m_continuation \in {ssb[s].m_continuation, Null}

Effect(b, g) == Confined(b, g) /\ OneFeed' /\ Creation' /\ Results' /\ Continuations'

(* A step that changes no reference. *)
HoldStep(b, g, c, a, r) ==
    \A s \in States :
      /\ Completing(c, s) \/ Completing(a, s) <=> Completing(b, s)
      /\ Looping(c, s) \/ Looping(a, s) <=> Looping(b, s)
      /\ Held(c, s) \/ Held(a, s) \/ Held(r, s) <=> Held(b, s) \/ Held(g, s)

-----------------------------------------------------------------------------
(* What a step does to the outcome: the loop goes on or ends with it, it   *)
(* is taken from where it was and put somewhere else.                      *)
GoesOn(b, c, a) ==
    /\ expected' = expected
    /\ \/ /\ Begins(b) \/ \E k \in Operations : Unmoved(k)
          /\ Begins(c) \/ Begins(a) \/ \E k \in Operations : Unmoved(k)'
       \/ /\ ~Begins(b) /\ ~Begins(c) /\ ~Begins(a)
          /\ \A k \in Operations : Unmoved(k)' <=> Unmoved(k)

EndsWith(v, c, a) ==
    /\ expected' = v /\ c.op # "none" /\ ~Begins(c) /\ ~Begins(a)
    /\ \E k \in Operations : /\ Unmoved(k)
                             /\ \A j \in Operations : Unmoved(j)' => Unmoved(j) /\ j # k

Taken(b, g, c, a, x, v) ==
    \/ x = Null /\ ~Carrying(b) /\ ~Carrying(g) /\ EndsWith(v, c, a)
    \/ /\ x = Null /\ (Carrying(b) \/ Carrying(g))
       /\ Carrying(b) => b.future.outcome = v
       /\ Carrying(g) => g.future.outcome = v
       /\ GoesOn(b, c, a)
    \/ /\ x \in Outputs /\ ~Carrying(b) /\ ~Carrying(g)
       /\ ssb[x].result = v /\ ssb'[x].result = "moved"
       /\ GoesOn(b, c, a)

Put(b, c, a, r, y, v) ==
    /\ ~Carrying(a)
    /\ \/ /\ y = Null /\ delivered' = delivered
          /\ \/ Carrying(c) /\ c.future.outcome = v /\ ~Carrying(r)
             \/ Carrying(r) /\ r.future.outcome = v /\ ~Carrying(c)
       \/ /\ y \in Outputs /\ delivered' = delivered /\ ~Carrying(c) /\ ~Carrying(r)
          /\ ssb[y].result = "none" /\ ssb'[y].result = v
       \/ /\ y = Null /\ delivered' = Append(delivered, v) /\ ~Carrying(c) /\ ~Carrying(r)
          /\ expected' = expected
          /\ b.op = "get_async" \/ \E s \in States : ssb[s].m_callback = "final"

Idle(b, g, c, a, r) ==
    /\ ~Carrying(b) /\ ~Carrying(g) /\ ~Carrying(c) /\ ~Carrying(a) /\ ~Carrying(r)
    /\ \A s \in Outputs : ssb'[s].result = ssb[s].result
    /\ delivered' = delivered /\ GoesOn(b, c, a)

Hands(b, g, c, a, r) ==
    \E v \in Outcomes, x, y \in Outputs \cup {Null} :
      /\ Taken(b, g, c, a, x, v) /\ Put(b, c, a, r, y, v)
      /\ \A s \in Outputs \ {x, y} : ssb'[s].result = ssb[s].result

CargoStep(b, g, c, a, r) == Idle(b, g, c, a, r) \/ Hands(b, g, c, a, r)

(* Who looks after a state afterwards. *)
AttendStep(b, g, c, a, r) ==
    \A s \in States :
      /\ Own(b, g, s) \/ ssb[s].m_state = "Waiting" \/ s \in created' \ created =>
           \/ Uses(c, s) \/ Uses(a, s) \/ Uses(r, s)
           \/ ssb'[s].result = "moved" \/ ssb'[s].m_state = "Waiting"
      /\ /\ ssb'[s].m_state # "Finished"
         /\ IF s \in Outputs THEN Full(s)' /\ (Makes(b, s) \/ ~Full(s)) ELSE Makes(b, s)
         => Makes(c, s) \/ Makes(a, s)

(* What it does to the callbacks and the continuations. *)
LinkStep(t, b, c, a, r) ==
    /\ \A s \in States : ssb'[s].m_callback = "final" =>
                           ssb[s].m_callback = "final" \/ (b.op = "get_async" /\ Held(b, s))
    /\ \A s \in Outputs :
         /\ ssb'[s].m_callback = "fill_from" =>
              \/ ssb[s].m_callback = "fill_from"
              \/ b.op = "propagate" /\ b.pc = "set" /\ s = b.future.state
         /\ \/ ssb'[s].m_continuation \in {ssb[s].m_continuation, Null}
            \/ /\ b.op = "propagate" /\ b.pc = "bypass"
               /\ ssb'[s].m_continuation = ssb[b.output].m_continuation
            \/ b.op = "propagate" /\ b.pc = "bind" /\ ssb'[s].m_continuation = b.output
    /\ c.op = "propagate" =>
         /\ c.pc = "set" => ssb'[c.future.state].m_is_just_for_continuation
         /\ c.pc = "bind" => /\ b.op = "propagate" /\ b.pc = "test" /\ c.output = b.output
                            /\ ~ssb[b.output].m_is_just_for_continuation /\ Tested(t)
    /\ b.op \in {"step", "propagate"} => c.op \notin {"loop", "get_async", "returned"}
    /\ r.op = "returned" => b.op = "loop" /\ b.pc = "drop"
    /\ ~Asks(c)
    /\ a.op = "loop" => a.pc = "start"

(* What is made in a step: the state of an operation, or its output. *)
Growing(b) ==
    /\ created \subseteq created' /\ created' \subseteq States
    /\ \A s \in created' \ created :
         b.op = "loop" /\ (s = b.k \/ (s = Output(b.k) /\ b.pc = "attach"))

(* All that is asked of a step, and what is left to tell of it when the    *)
(* invariant is known to hold after it.                                    *)
Lawful(t, b, g, c, a, r) ==
    /\ ProperStep(b, c, a, r) /\ Fits(b, c, a, r) /\ UserStep(b, g, c, a, r) /\ MakerStep(b, c, a)
    /\ HookStep(b, g, c, a, r) /\ HolderStep(b, g, c, a, r) /\ RoundStep(b, c, a)
    /\ KeptStep(b, c, a) /\ CargoStep(b, g, c, a, r) /\ AttendStep(b, g, c, a, r)
    /\ LinkStep(t, b, c, a, r)

Outlook(t) ==
    \E b, g, c, a, r :
      /\ Known(t, b, g) /\ Steps(t, c, a, r)
      /\ HolderStep(b, g, c, a, r) /\ CargoStep(b, g, c, a, r)
      /\ AttendStep(b, g, c, a, r) /\ LinkStep(t, b, c, a, r)
      /\ a.op \notin {"get_async", "propagate"} /\ r.op \in {"none", "returned"}
      /\ c.op = "loop" => b.op = "loop" /\ c.k = b.k
      /\ Growing(b)
      /\ \A s \in States :
           /\ ssb[s].m_state = "Finished" => ssb'[s].m_state = "Finished"
           /\ ssb[s].result = "moved" => ssb'[s].result = "moved"
           /\ ssb[s].m_is_just_for_continuation => ssb'[s].m_is_just_for_continuation

=============================================================================
