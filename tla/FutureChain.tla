---------------------------- MODULE FutureChain ----------------------------
(***************************************************************************)
(* Chains of Futures: then(), on_error() and on_completion() with callbacks*)
(* that may return Futures, and propagate_result_to(), of Realm/future.hpp.*)
(* The program modelled is the asynchronous loop, or the retrying, that    *)
(* the just-for-continuation optimisation is written for                   *)
(*                                                                         *)
(*     Future<T> loop(k) { return operation(k).then(step); }               *)
(*                                                                         *)
(* where step returns a value, throws, or returns loop(k + 1).  One thread *)
(* calls loop(1) and leaves a callback with get_async() on what it gets;   *)
(* operation k is completed by a thread of its own, which may run the rest *)
(* of the loop inside its set call.  A thread is a stack of calls; a step  *)
(* is one atomic operation or one access to members that are not atomic.   *)
(* How a single state is handed over, get() included, is in SharedState.   *)
(***************************************************************************)
EXTENDS Naturals, Sequences, FiniteSets

CONSTANTS N,         \* the number of operations the loop may start
          Callings   \* the ways the callback step may be left

Outcomes == {"ok", "error"}

(* A callback is called for some outcomes: {"ok"} is that of then(),       *)
(* {"error"} of on_error(), and both of on_completion().                   *)
ASSUME NAssumption == N \in Nat \ {0}
ASSUME CallingsAssumption == Callings \subseteq (SUBSET Outcomes) \ {{}}

Null == 0

(* The state of operation k, and the state that its then() makes. *)
Operation(k) == k
Output(k)    == N + k
States       == 1..(2 * N)
Outputs      == (N + 1)..(2 * N)

User    == 0
Threads == 0..N        \* thread k > 0 completes operation k

VARIABLES called_on,  \* the outcomes that step is called for
          ssb,        \* the SharedStateBase of every operation and output
          created,    \* those that have been made; one with no m_refs is deleted
          stack,      \* the calls each thread is in, innermost first
          returned,   \* the Future the last call of a thread returned
          expected,   \* history: the outcome of the loop, once known
          delivered,  \* history: what the final callback was called with
          overtaken   \* history: an output passed on before its flag was seen

vars == <<called_on, ssb, created, stack, returned, expected, delivered, overtaken>>

(* m_data and m_status together are the result: "none", an outcome, or     *)
(* "moved" out; m_callback is what kind of callback has been left, if any. *)
NewState(refs) == [m_state |-> "Init", result |-> "none", m_callback |-> "none",
                   m_continuation |-> Null, m_is_just_for_continuation |-> FALSE,
                   m_refs |-> refs]

(* A Future is a state, or holds an outcome of its own (m_immediate). *)
Ready(outcome) == [ready |-> TRUE, outcome |-> outcome, state |-> Null]
Deferred(s)    == [ready |-> FALSE, outcome |-> "none", state |-> s]
NoFuture       == Deferred(Null)

IsReady(future) == IF future.ready THEN TRUE ELSE ssb[future.state].m_state = "Finished"

(* A call: what it is, how far it is, and the states or Future it is about. *)
Call(op, pc, k, future, output) ==
    [op |-> op, pc |-> pc, k |-> k, future |-> future, output |-> output]

Loop(k)              == Call("loop", "start", k, NoFuture, Null)
Step(k)              == Call("step", "start", k, NoFuture, Null)
Propagate(f, output) == Call("propagate", "load", 0, f, output)
FillFrom(s)          == Call("fill_from", "start", 0, Deferred(s), Null)
Finish(s)            == Call("finish", "exchange", 0, Deferred(s), Null)
Complete(k)          == Call("complete", "start", k, NoFuture, Null)
GetAsync             == Call("get_async", "start", 0, NoFuture, Null)

Init == /\ called_on \in Callings
        /\ ssb = [s \in States |-> NewState(0)]
        /\ created = {}
        /\ stack = [t \in Threads |-> IF t = User THEN <<Loop(1), GetAsync>>
                                                  ELSE <<Complete(t)>>]
        /\ returned = [t \in Threads |-> NoFuture]
        /\ expected = "none"
        /\ delivered = <<>>
        /\ overtaken = FALSE

-----------------------------------------------------------------------------
(* The innermost call of a thread, and what a step makes of the stack. *)

Top(t)    == Head(stack[t])
Future(t) == Top(t).future
Target(t) == Top(t).output
Op(t)     == Operation(Top(t).k)

At(t, op, pc) == stack[t] # <<>> /\ Top(t).op = op /\ Top(t).pc = pc

Becomes(t, calls) == stack' = [stack EXCEPT ![t] = calls \o Tail(@)]
Goes(t, pc)         == Becomes(t, <<[Top(t) EXCEPT !.pc = pc]>>)
CallsThen(t, c, pc) == Becomes(t, <<c, [Top(t) EXCEPT !.pc = pc]>>)

(* loop() is about to return a Future. *)
Holds(t, future) == [Top(t) EXCEPT !.pc = "drop", !.future = future]

(* The step ends the loop, or does not say. *)
LoopEnds(outcome) == expected' = outcome /\ UNCHANGED <<called_on, created, returned, delivered, overtaken>>
LoopGoesOn        == UNCHANGED <<called_on, created, returned, expected, delivered, overtaken>>

(* A round tests its output while the round before is still under way,     *)
(* here or in another thread, and has yet to publish the flag tested.      *)
Busy(calls) == \E i \in DOMAIN calls : calls[i].op \in {"loop", "step", "propagate"}
Tested(t) == /\ overtaken' = \/ overtaken
                             \/ Busy(Tail(stack[t]))
                             \/ \E u \in Threads \ {t} : Busy(stack[u])
             /\ UNCHANGED <<called_on, created, returned, expected, delivered>>

(* unbind_ptr: the last reference deletes the state, which lets go of its  *)
(* m_continuation, and so on down the chain: this is the least set with s  *)
(* and the m_continuation of each of its members that is deleted.          *)
LetsGoOn(R) == \A x \in R : ssb[x].m_refs = 1 /\ ssb[x].m_continuation # Null
                              => ssb[x].m_continuation \in R
Released(s) ==
    {s} \cup {x \in Outputs : \A R \in SUBSET Outputs : LetsGoOn({s} \cup R) => x \in R}

unbind(s) == ssb' = [x \in States |-> IF x \in Released(s) THEN [ssb[x] EXCEPT !.m_refs = @ - 1]
                                                           ELSE ssb[x]]

LetGo(future) == IF future.ready THEN UNCHANGED ssb ELSE unbind(future.state)

(* general_impl: Init becomes Waiting, or this side runs the callback. *)
CompareExchange(t, s, done, missed) ==
    \/ /\ ssb[s].m_state = "Init"
       /\ ssb' = [ssb EXCEPT ![s].m_state = "Waiting"]
       /\ Becomes(t, done)
    \/ /\ ssb[s].m_state = "Finished"
       /\ Becomes(t, missed \o done)
       /\ UNCHANGED ssb

-----------------------------------------------------------------------------
(* Mutated forms of actions below, each the mark of a plausible mistake.   *)

(* The output is tested after the flag of the Future has been published. *)
publish_before_test(t) ==
    /\ At(t, "propagate", "test")
    /\ ssb' = [ssb EXCEPT ![Future(t).state].m_is_just_for_continuation = TRUE]
    /\ Goes(t, IF ssb[Target(t)].m_is_just_for_continuation THEN "bypass" ELSE "bind")
    /\ Tested(t)

(* The continuation does not bind the output. *)
bind_output_unbound(t) ==
    /\ At(t, "propagate", "bind")
    /\ ssb' = [ssb EXCEPT ![Future(t).state].m_continuation = Target(t)]
    /\ Goes(t, "publish")
    /\ LoopGoesOn

(* m_continuation.reset binds, instead of adopting, the new state. *)
make_continuation_binding(t) ==
    /\ At(t, "loop", "attach")
    /\ LET o == Output(Top(t).k)
       IN  /\ created' = created \cup {o}
           /\ ssb' = [ssb EXCEPT ![o] = NewState(3), ![Op(t)].m_continuation = o,
                                 ![Op(t)].m_callback = "then"]
    /\ Goes(t, "cas")
    /\ UNCHANGED <<called_on, returned, expected, delivered, overtaken>>

(* The Promise keeps its reference when it is set, and ~Promise drops it   *)
(* a second time.                                                          *)
drop_promise_twice(t) ==
    /\ At(t, "complete", "drop")
    /\ ssb' = [ssb EXCEPT ![Op(t)].m_refs = @ - 2]
    /\ Becomes(t, <<>>)
    /\ LoopGoesOn

(* A compare_exchange that fails is taken for one that succeeds. *)
propagate_cas_ignored(t) ==
    /\ At(t, "propagate", "cas")
    /\ CompareExchange(t, Future(t).state, <<[Top(t) EXCEPT !.pc = "drop"]>>, <<>>)
    /\ LoopGoesOn

(* The bypass is never taken. *)
test_never_bypasses(t) ==
    /\ At(t, "propagate", "test")
    /\ Goes(t, "bind")
    /\ UNCHANGED ssb /\ Tested(t)

(* An outcome the callback is not called for is stored, and not announced. *)
step_passes_on_quietly(t) ==
    /\ At(t, "step", "start")
    /\ ssb[Op(t)].result \notin called_on
    /\ ssb' = [ssb EXCEPT ![ssb[Op(t)].m_continuation].result = ssb[Op(t)].result,
                          ![Op(t)].result = "moved"]
    /\ Becomes(t, <<>>)
    /\ LoopEnds(ssb[Op(t)].result)

-----------------------------------------------------------------------------
(* loop(k): start the operation, then hang step(k) on its Future. *)

start_operation(t) ==
    /\ At(t, "loop", "start")
    /\ created' = created \cup {Op(t)}
    /\ ssb' = [ssb EXCEPT ![Op(t)] = NewState(2)]
    /\ Goes(t, "load")
    /\ UNCHANGED <<called_on, returned, expected, delivered, overtaken>>

(* On a Future that is ready the callback runs on the spot, if it is for   *)
(* such an outcome.                                                        *)
then_ready(t) ==
    /\ At(t, "loop", "load")
    /\ ssb[Op(t)].m_state = "Finished"
    /\ ssb' = [ssb EXCEPT ![Op(t)].result = "moved"]
    /\ \/ \E outcome \in Outcomes :
            /\ ssb[Op(t)].result \notin called_on => outcome = ssb[Op(t)].result
            /\ Becomes(t, <<Holds(t, Ready(outcome))>>)
            /\ LoopEnds(outcome)
       \/ /\ ssb[Op(t)].result \in called_on /\ Top(t).k < N
          /\ CallsThen(t, Loop(Top(t).k + 1), "take")
          /\ LoopGoesOn

take_future(t) ==
    /\ At(t, "loop", "take")
    /\ Becomes(t, <<Holds(t, returned[t])>>)
    /\ UNCHANGED ssb /\ LoopGoesOn

then_not_ready(t) ==
    /\ At(t, "loop", "load")
    /\ ssb[Op(t)].m_state # "Finished"
    /\ Goes(t, "attach")
    /\ UNCHANGED ssb /\ LoopGoesOn

(* The new state has two references: the continuation, and the Future. *)
make_continuation(t) ==
    /\ At(t, "loop", "attach")
    /\ LET o == Output(Top(t).k)
       IN  /\ created' = created \cup {o}
           /\ ssb' = [ssb EXCEPT ![o] = NewState(2), ![Op(t)].m_continuation = o,
                                 ![Op(t)].m_callback = "then"]
    /\ Goes(t, "cas")
    /\ UNCHANGED <<called_on, returned, expected, delivered, overtaken>>

then_cas(t) ==
    /\ At(t, "loop", "cas")
    /\ CompareExchange(t, Op(t), <<Holds(t, Deferred(Output(Top(t).k)))>>, <<Step(Top(t).k)>>)
    /\ LoopGoesOn

(* The Future of the operation was a temporary of then(). *)
then_returns(t) ==
    /\ At(t, "loop", "drop")
    /\ unbind(Op(t))
    /\ returned' = [returned EXCEPT ![t] = Future(t)]
    /\ Becomes(t, <<>>)
    /\ UNCHANGED <<called_on, created, expected, delivered, overtaken>>

-----------------------------------------------------------------------------
(* The callback that then() left.  An outcome it is not called for, and    *)
(* what it throws, go straight to the output; the Future that it returns,  *)
(* ready or of another round, is propagated to it.                         *)

StepSets(t, outcome) ==
    LET o == ssb[Op(t)].m_continuation
    IN  /\ ssb' = [ssb EXCEPT ![o].result = outcome, ![Op(t)].result = "moved"]
        /\ Becomes(t, <<Finish(o)>>)
        /\ LoopEnds(outcome)

step_passes_on(t) ==
    /\ At(t, "step", "start")
    /\ ssb[Op(t)].result \notin called_on
    /\ StepSets(t, ssb[Op(t)].result)

step_throws(t) ==
    /\ At(t, "step", "start")
    /\ ssb[Op(t)].result \in called_on
    /\ StepSets(t, "error")

step_returns(t) ==
    /\ At(t, "step", "start")
    /\ ssb[Op(t)].result \in called_on
    /\ ssb' = [ssb EXCEPT ![Op(t)].result = "moved"]
    /\ \E outcome \in Outcomes :
         /\ Becomes(t, <<Propagate(Ready(outcome), ssb[Op(t)].m_continuation)>>)
         /\ LoopEnds(outcome)

step_goes_round(t) ==
    /\ At(t, "step", "start")
    /\ ssb[Op(t)].result \in called_on /\ Top(t).k < N
    /\ ssb' = [ssb EXCEPT ![Op(t)].result = "moved"]
    /\ Becomes(t, <<Loop(Top(t).k + 1),
                    [Top(t) EXCEPT !.pc = "propagate", !.output = ssb[Op(t)].m_continuation]>>)
    /\ LoopGoesOn

step_propagates(t) ==
    /\ At(t, "step", "propagate")
    /\ Becomes(t, <<Propagate(returned[t], Target(t))>>)
    /\ UNCHANGED ssb /\ LoopGoesOn

-----------------------------------------------------------------------------
(* propagate_result_to(output), on the Future the callback returned. *)

propagate_ready(t) ==
    /\ At(t, "propagate", "load")
    /\ LET f == Future(t)
       IN  /\ IsReady(f)
           /\ ssb' = IF f.ready
                       THEN [ssb EXCEPT ![Target(t)].result = f.outcome]
                       ELSE [ssb EXCEPT ![Target(t)].result = ssb[f.state].result,
                                        ![f.state].result = "moved"]
    /\ CallsThen(t, Finish(Target(t)), "drop")
    /\ LoopGoesOn

propagate_not_ready(t) ==
    /\ At(t, "propagate", "load")
    /\ ~IsReady(Future(t))
    /\ Goes(t, "test")
    /\ UNCHANGED ssb /\ LoopGoesOn

test_just_for_continuation(t) ==
    /\ At(t, "propagate", "test")
    /\ Goes(t, IF ssb[Target(t)].m_is_just_for_continuation THEN "bypass" ELSE "bind")
    /\ UNCHANGED ssb /\ Tested(t)

(* The output would only pass the result on: take over where it passes to. *)
bypass_output(t) ==
    /\ At(t, "propagate", "bypass")
    /\ ssb' = [ssb EXCEPT ![Future(t).state].m_continuation = ssb[Target(t)].m_continuation,
                          ![Target(t)].m_continuation = Null]
    /\ Goes(t, "publish")
    /\ LoopGoesOn

bind_output(t) ==
    /\ At(t, "propagate", "bind")
    /\ ssb' = [ssb EXCEPT ![Future(t).state].m_continuation = Target(t),
                          ![Target(t)].m_refs = @ + 1]
    /\ Goes(t, "publish")
    /\ LoopGoesOn

publish_just_for_continuation(t) ==
    /\ At(t, "propagate", "publish")
    /\ ssb' = [ssb EXCEPT ![Future(t).state].m_is_just_for_continuation = TRUE]
    /\ Goes(t, "set")
    /\ LoopGoesOn

set_fill_from(t) ==
    /\ At(t, "propagate", "set")
    /\ ssb' = [ssb EXCEPT ![Future(t).state].m_callback = "fill_from"]
    /\ Goes(t, "cas")
    /\ LoopGoesOn

propagate_cas(t) ==
    /\ At(t, "propagate", "cas")
    /\ CompareExchange(t, Future(t).state, <<[Top(t) EXCEPT !.pc = "drop"]>>,
                       <<FillFrom(Future(t).state)>>)
    /\ LoopGoesOn

(* The propagated Future was a temporary of the callback. *)
propagate_returns(t) ==
    /\ At(t, "propagate", "drop")
    /\ LetGo(Future(t))
    /\ Becomes(t, <<>>)
    /\ LoopGoesOn

fill_from(t) ==
    /\ At(t, "fill_from", "start")
    /\ LET s == Future(t).state
           o == ssb[s].m_continuation
       IN  /\ ssb' = [ssb EXCEPT ![o].result = ssb[s].result, ![s].result = "moved"]
           /\ Becomes(t, <<Finish(o)>>)
    /\ LoopGoesOn

-----------------------------------------------------------------------------
(* transition_to_finished *)

exchange(t) ==
    /\ At(t, "finish", "exchange")
    /\ LET s == Future(t).state
       IN  /\ ssb' = [ssb EXCEPT ![s].m_state = "Finished"]
           /\ IF ssb[s].m_state = "Init" THEN Becomes(t, <<>>) ELSE Goes(t, "callback")
    /\ LoopGoesOn

Deliver(outcome) == /\ delivered' = Append(delivered, outcome)
                    /\ UNCHANGED <<called_on, created, returned, expected, overtaken>>

call_callback(t) ==
    /\ At(t, "finish", "callback")
    /\ LET s == Future(t).state
       IN  IF ssb[s].m_callback = "final"
             THEN /\ Deliver(ssb[s].result)
                  /\ ssb' = [ssb EXCEPT ![s].result = "moved"]
                  /\ Becomes(t, <<>>)
             ELSE /\ Becomes(t, CASE ssb[s].m_callback = "then"      -> <<Step(s)>>
                                  [] ssb[s].m_callback = "fill_from" -> <<FillFrom(s)>>
                                  [] OTHER                           -> <<>>)
                  /\ UNCHANGED ssb /\ LoopGoesOn

-----------------------------------------------------------------------------
(* The threads: one completes each operation once it has been started ...  *)

complete_operation(t) ==
    /\ At(t, "complete", "start")
    /\ Op(t) \in created
    /\ \E outcome \in Outcomes : ssb' = [ssb EXCEPT ![Op(t)].result = outcome]
    /\ CallsThen(t, Finish(Op(t)), "drop")
    /\ LoopGoesOn

drop_promise(t) ==
    /\ At(t, "complete", "drop")
    /\ unbind(Op(t))
    /\ Becomes(t, <<>>)
    /\ LoopGoesOn

(* ... and one leaves a callback with the Future of the whole loop. *)
get_async_ready(t) ==
    /\ At(t, "get_async", "start")
    /\ LET f == returned[t]
       IN  /\ IsReady(f)
           /\ IF f.ready
                THEN Deliver(f.outcome) /\ UNCHANGED ssb
                ELSE /\ Deliver(ssb[f.state].result)
                     /\ ssb' = [ssb EXCEPT ![f.state].result = "moved"]
           /\ Becomes(t, <<[Top(t) EXCEPT !.pc = "drop", !.future = f]>>)

get_async_not_ready(t) ==
    /\ At(t, "get_async", "start")
    /\ ~IsReady(returned[t])
    /\ Becomes(t, <<[Top(t) EXCEPT !.pc = "set", !.future = returned[t]]>>)
    /\ UNCHANGED ssb /\ LoopGoesOn

set_final(t) ==
    /\ At(t, "get_async", "set")
    /\ ssb' = [ssb EXCEPT ![Future(t).state].m_callback = "final"]
    /\ Goes(t, "cas")
    /\ LoopGoesOn

get_async_cas(t) ==
    /\ At(t, "get_async", "cas")
    /\ CompareExchange(t, Future(t).state, <<[Top(t) EXCEPT !.pc = "drop"]>>,
                       <<[Finish(Future(t).state) EXCEPT !.pc = "callback"]>>)
    /\ LoopGoesOn

get_async_returns(t) ==
    /\ At(t, "get_async", "drop")
    /\ LetGo(Future(t))
    /\ Becomes(t, <<>>)
    /\ LoopGoesOn

-----------------------------------------------------------------------------
Run(t) == \/ start_operation(t) \/ then_ready(t) \/ take_future(t)
          \/ then_not_ready(t) \/ make_continuation(t) \/ then_cas(t) \/ then_returns(t)
          \/ step_passes_on(t) \/ step_throws(t) \/ step_returns(t)
          \/ step_goes_round(t) \/ step_propagates(t)
          \/ propagate_ready(t) \/ propagate_not_ready(t) \/ test_just_for_continuation(t)
          \/ bypass_output(t) \/ bind_output(t) \/ publish_just_for_continuation(t)
          \/ set_fill_from(t) \/ propagate_cas(t) \/ propagate_returns(t) \/ fill_from(t)
          \/ exchange(t) \/ call_callback(t)
          \/ complete_operation(t) \/ drop_promise(t)
          \/ get_async_ready(t) \/ get_async_not_ready(t) \/ set_final(t)
          \/ get_async_cas(t) \/ get_async_returns(t)

Next == \E t \in Threads : Run(t)

(* Every operation is completed, and every thread runs. *)
Spec == Init /\ [][Next]_vars /\ \A t \in Threads : WF_vars(Run(t))

-----------------------------------------------------------------------------
(* Type correctness. *)
TypeOK == /\ called_on \in Callings
          /\ ssb \in [States -> [m_state : {"Init", "Waiting", "Finished"},
                                 result : Outcomes \cup {"none", "moved"},
                                 m_callback : {"none", "then", "fill_from", "final"},
                                 m_continuation : States \cup {Null},
                                 m_is_just_for_continuation : BOOLEAN,
                                 m_refs : 0..3]]
          /\ created \subseteq States
          /\ expected \in Outcomes \cup {"none"}
          /\ delivered \in Seq(Outcomes)
          /\ overtaken \in BOOLEAN

(* The accesses that the next step of a thread makes: to members that are  *)
(* not atomic, and to atomic ones.                                         *)
Accesses(reads, writes, atomics) == [reads |-> reads, writes |-> writes, atomics |-> atomics]

Member(name, s) == <<name, s>>

(* Deleting a state touches all of it. *)
LettingGo(s) ==
    Accesses({}, {Member(m, x) : m \in {"result", "callback", "continuation"},
                                 x \in {y \in Released(s) : ssb[y].m_refs = 1}},
             Released(s))

NextAccesses(t) ==
    IF stack[t] = <<>> THEN Accesses({}, {}, {})
    ELSE LET f  == Future(t)
             s  == f.state
             o  == Target(t)
             op == Op(t)
             result(x) == Member("result", x)
             callback(x) == Member("callback", x)
             continuation(x) == Member("continuation", x)
         IN CASE At(t, "loop", "load") ->
                   Accesses({}, IF ssb[op].m_state = "Finished" THEN {result(op)} ELSE {}, {op})
              [] At(t, "loop", "attach") -> Accesses({}, {callback(op), continuation(op)}, {})
              [] At(t, "loop", "cas") -> Accesses({}, {}, {op})
              [] At(t, "loop", "drop") \/ At(t, "complete", "drop") -> LettingGo(op)
              [] At(t, "step", "start") ->
                   Accesses({continuation(op)}, {result(op), result(ssb[op].m_continuation)}, {})
              [] At(t, "propagate", "load") /\ f.ready -> Accesses({}, {result(o)}, {})
              [] At(t, "propagate", "load") /\ ~f.ready ->
                   Accesses({}, IF IsReady(f) THEN {result(o), result(s)} ELSE {}, {s})
              [] At(t, "propagate", "test") -> Accesses({}, {}, {o})
              [] At(t, "propagate", "bypass") -> Accesses({}, {continuation(s), continuation(o)}, {})
              [] At(t, "propagate", "bind") -> Accesses({}, {continuation(s)}, {o})
              [] At(t, "propagate", "set") \/ At(t, "get_async", "set") ->
                   Accesses({}, {callback(s)}, {})
              [] At(t, "propagate", "publish") \/ At(t, "propagate", "cas")
                   \/ At(t, "finish", "exchange") \/ At(t, "get_async", "cas") ->
                   Accesses({}, {}, {s})
              [] (At(t, "propagate", "drop") \/ At(t, "get_async", "drop")) /\ ~f.ready ->
                   LettingGo(s)
              [] At(t, "fill_from", "start") ->
                   Accesses({continuation(s)}, {result(s), result(ssb[s].m_continuation)}, {})
              [] At(t, "finish", "callback") ->
                   Accesses({callback(s)}, IF ssb[s].m_callback = "final" THEN {result(s)} ELSE {}, {})
              [] At(t, "complete", "start") /\ op \in created -> Accesses({}, {result(op)}, {})
              [] At(t, "get_async", "start") /\ ~returned[t].ready ->
                   Accesses({}, IF IsReady(returned[t]) THEN {result(returned[t].state)} ELSE {},
                            {returned[t].state})
              [] OTHER -> Accesses({}, {}, {})

(* No two threads are about to touch the same member that is not atomic,   *)
(* one of them writing: neither the ownership by state nor its exception,  *)
(* the m_is_just_for_continuation protocol (future.hpp:82-87), lets it     *)
(* happen.                                                                 *)
NoDataRace ==
    LET next == [t \in Threads |-> NextAccesses(t)]
    IN  \A t \in Threads : \A u \in Threads \ {t} :
          next[t].writes \cap (next[u].reads \cup next[u].writes) = {}

(* No thread is about to touch a state that has been deleted, or never was.*)
NoUseAfterFree ==
    \A t \in Threads :
      LET next == NextAccesses(t)
      IN  \A s \in {x[2] : x \in next.reads \cup next.writes} \cup next.atomics :
            s \in created /\ ssb[s].m_refs > 0

(* The states that are behind one that is being finished, as far as the    *)
(* debug build follows them: past those that somebody waits for.           *)
Behind(s) ==
    LET path[i \in 0..(2 * N)] ==
          IF i = 0 THEN ssb[s].m_continuation
          ELSE IF path[i - 1] # Null /\ ssb[path[i - 1]].m_state = "Waiting"
                 THEN ssb[path[i - 1]].m_continuation
                 ELSE Null
    IN  {path[i] : i \in 0..(2 * N)} \ {Null}

(* The bypass keeps chains from growing up to kMaxDepth (future.hpp:311):  *)
(* however many rounds the loop makes, a state that is finished has the    *)
(* output of its own round and that of the first behind it and no others,  *)
(* unless the operation of a round completes while the round before is     *)
(* still being hung up: then the bypass may be missed.                     *)
ShallowChains ==
    \A t \in Threads : At(t, "finish", "exchange") /\ ~overtaken =>
        Cardinality(Behind(Future(t).state)) <= 2

(* A thread is done, or its operation was never started. *)
Quiescent == \A t \in Threads : \/ stack[t] = <<>>
                                \/ t # User /\ Operation(t) \notin created

(* When all is done every state has been deleted, the bypassed outputs and *)
(* those that were never waited for included.                              *)
NothingLeaks == Quiescent => \A s \in States : ssb[s].m_refs = 0

(* The final callback is called once, with the outcome of the round that   *)
(* ended the loop, however the rounds' completions were interleaved.       *)
DeliveredOnce == /\ delivered \in {<<>>, <<expected>>}
                 /\ Quiescent => delivered # <<>>

-----------------------------------------------------------------------------
(* A chain of Futures is, for its user, a single one-shot promise. *)
RequestOfUser ==
    IF delivered # <<>> THEN "done"
    ELSE IF stack[User] # <<>> /\ Len(stack[User]) > 1
              /\ stack[User][Len(stack[User])].pc = "start"
    THEN "none"
    ELSE "callback"

Cell == INSTANCE OneShot
          WITH Outcomes <- Outcomes, Pending <- "none",
               outcome <- expected,
               request <- RequestOfUser,
               seen <- {delivered[i] : i \in 1..Len(delivered)},
               runs <- Len(delivered)

(* The whole chain implements the one-shot promise, liveness included: the *)
(* loop's outcome reaches the callback left with its first Future.         *)
ImplementsOneShot == Cell!Spec
=============================================================================
