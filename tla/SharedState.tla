---------------------------- MODULE SharedState ----------------------------
(***************************************************************************)
(* The state that a Promise and its Future share: SharedStateBase and      *)
(* SharedStateImpl<T> of Realm/future.hpp, driven by one producer (the     *)
(* Promise, or the CopyablePromiseHolders it was released into) and one    *)
(* consumer (the Future).  An action is one atomic operation, or one       *)
(* access to members that are not atomic, so that every interleaving of    *)
(* the lock-free hand-over is explored.  The chains that then(),           *)
(* on_completion() and on_error() build are in FutureChain.                *)
(***************************************************************************)
EXTENDS Naturals

CONSTANTS Values,         \* what emplace_value can be given
          Errors,         \* the error statuses
          BrokenPromise,  \* the status ~Promise leaves behind
          OK,             \* m_status of a state that holds no error
          NoData,         \* m_data, disengaged
          MovedFrom,      \* m_data, engaged, its value moved out
          MaxHolders      \* bound on the copies of a CopyablePromiseHolder

ASSUME ResultAssumption ==
    /\ BrokenPromise \in Errors
    /\ OK \notin Errors \cup Values
    /\ NoData \notin Errors \cup Values
    /\ MovedFrom \notin Errors \cup Values
    /\ OK # NoData /\ OK # MovedFrom /\ NoData # MovedFrom

ASSUME MaxHoldersAssumption == MaxHolders \in Nat

VARIABLES m_state,     \* the atomic SSBState
          m_data,      \* Optional<T>, owned by the Promise side until Finished
          m_status,    \* Status, owned by the Promise side until Finished
          m_callback,  \* is a callback installed? owned by the Future side until Waiting
          m_cv,        \* is the condition variable constructed? owned likewise
          m_mutex,     \* who holds the mutex of the condition variable
          m_refs,      \* the reference count; the state is deleted at 0
          producer,    \* where the promise side is
          consumer,    \* where the future side is
          holders,     \* live CopyablePromiseHolders that hold a reference
          settled,     \* history: the outcome the producer stored
          seen,        \* history: what get() returned and callbacks were given
          runs         \* history: how often the callback of get_async has run

producerVars == <<producer, holders, settled>>
consumerVars == <<consumer, seen, runs>>
members == <<m_state, m_data, m_status, m_callback, m_cv, m_mutex, m_refs>>
vars == <<members, producerVars, consumerVars>>

Outcomes == Values \cup Errors

SSBState == {"Init", "Waiting", "Finished"}

(* The producer holds a Promise ("open"), has released it into holders     *)
(* ("held"), is inside transition_to_finished, or has let the state go.    *)
ProducerPC == {"open", "held", "exchange", "callback", "cv", "lock", "notify",
               "unlock", "release", "gone", "lost"}

Getting    == {"emplace_cv", "cas_wait", "lock_cv", "predicate", "sleep",
               "asleep", "unlock_cv", "read"}
Attaching  == {"inline", "set_callback", "cas_callback", "run_callback"}
ConsumerPC == {"ready", "release", "gone"} \cup Getting \cup Attaching

Init == /\ m_state = "Init"
        /\ m_data = NoData
        /\ m_status = OK
        /\ m_callback = FALSE
        /\ m_cv = FALSE
        /\ m_mutex = "free"
        /\ m_refs = 2                    \* get_future: thread_unsafe_inc_refs_to(2)
        /\ producer = "open"
        /\ consumer = "ready"
        /\ holders = 0
        /\ settled = NoData
        /\ seen = {}
        /\ runs = 0

-----------------------------------------------------------------------------
(* What the actions have in common. *)

ProducerGoes(from, to) == producer = from /\ producer' = to

Store(data, status) == /\ m_data' = data
                       /\ m_status' = status
                       /\ settled' = IF status = OK THEN data ELSE status
                       /\ UNCHANGED <<m_state, m_callback, m_cv, m_mutex, m_refs,
                                      holders, consumerVars>>

(* What the callback of get_async does with the state it is given: it      *)
(* calls func with the status, or with the value, which it moves out.      *)
GiveToCallback == /\ runs' = runs + 1
                  /\ seen' = seen \cup {IF m_status = OK THEN m_data ELSE m_status}
                  /\ IF m_status = OK
                       THEN m_data' = MovedFrom /\ UNCHANGED m_status
                       ELSE m_status' = OK /\ UNCHANGED m_data

unbind == m_refs' = m_refs - 1

DropOneHolder == /\ holders' = holders - 1
                 /\ unbind
                 /\ UNCHANGED <<m_state, m_data, m_status, m_callback, m_cv, m_mutex,
                                settled, consumerVars>>

ConsumerGoes(from, to) == consumer = from /\ consumer' = to

(* Each public operation starts with an acquire-load of the state. *)
WhenReady(ready, otherwise) ==
    /\ ConsumerGoes("ready", IF m_state = "Finished" THEN ready ELSE otherwise)
    /\ UNCHANGED <<members, producerVars, seen, runs>>

(* compare_exchange_strong(Init, Waiting), by wait() or by general_impl(). *)
CompareExchange(from, done, failed) ==
    /\ ConsumerGoes(from, IF m_state = "Init" THEN done ELSE failed)
    /\ m_state' = IF m_state = "Init" THEN "Waiting" ELSE m_state
    /\ UNCHANGED <<m_data, m_status, m_callback, m_cv, m_mutex, m_refs,
                   producerVars, seen, runs>>

-----------------------------------------------------------------------------
(* Mutated forms of actions below, each the mark of a plausible mistake.   *)

(* The early return for the state Init is missing. *)
exchange_no_early_return ==
    /\ ProducerGoes("exchange", "callback")
    /\ m_state' = "Finished"
    /\ UNCHANGED <<m_data, m_status, m_callback, m_cv, m_mutex, m_refs,
                   holders, settled, consumerVars>>

(* ~Promise lets the state go without leaving a status. *)
break_promise_silently ==
    /\ ProducerGoes("open", "release")
    /\ UNCHANGED <<members, holders, settled, consumerVars>>

(* notify_all without the lock_guard. *)
notify_without_lock ==
    /\ ProducerGoes("lock", "notify")
    /\ UNCHANGED <<members, holders, settled, consumerVars>>

(* The holder binds a reference of its own instead of taking the Promise's. *)
make_holder_binding ==
    /\ ProducerGoes("open", "held")
    /\ holders < MaxHolders
    /\ holders' = holders + 1
    /\ m_refs' = m_refs + 1
    /\ UNCHANGED <<m_state, m_data, m_status, m_callback, m_cv, m_mutex,
                   settled, consumerVars>>

(* A holder that get_promise() emptied unbinds when it dies. *)
drop_emptied_holder == DropOneHolder /\ UNCHANGED producer

(* The wait ends when the state is no longer Init, be it Waiting. *)
predicate_not_init ==
    /\ ConsumerGoes("predicate", IF m_state # "Init" THEN "unlock_cv" ELSE "sleep")
    /\ UNCHANGED <<members, producerVars, seen, runs>>

(* The callback is forgotten when compare_exchange fails. *)
cas_callback_ignored == CompareExchange("cas_callback", "release", "release")

-----------------------------------------------------------------------------
(* The promise side. *)

(* The constructor of T may throw, which leaves an error and no value. *)
emplace_value == /\ ProducerGoes("open", "exchange")
                 /\ \/ \E v \in Values : Store(v, m_status)
                    \/ \E e \in Errors : Store(m_data, e)

set_error == /\ ProducerGoes("open", "exchange")
             /\ \E e \in Errors : Store(m_data, e)

(* ~Promise of a Promise that was never set. *)
break_promise == /\ ProducerGoes("open", "exchange")
                 /\ Store(m_data, BrokenPromise)

exchange == /\ ProducerGoes("exchange", IF m_state = "Init" THEN "release" ELSE "callback")
            /\ m_state' = "Finished"
            /\ UNCHANGED <<m_data, m_status, m_callback, m_cv, m_mutex, m_refs,
                           holders, settled, consumerVars>>

call_callback == /\ ProducerGoes("callback", "cv")
                 /\ IF m_callback THEN GiveToCallback
                                  ELSE UNCHANGED <<m_data, m_status, seen, runs>>
                 /\ UNCHANGED <<m_state, m_callback, m_cv, m_mutex, m_refs,
                                holders, settled, consumer>>

test_cv == /\ ProducerGoes("cv", IF m_cv THEN "lock" ELSE "release")
           /\ UNCHANGED <<members, holders, settled, consumerVars>>

lock_to_notify == /\ ProducerGoes("lock", "notify")
                  /\ m_mutex = "free"
                  /\ m_mutex' = "producer"
                  /\ UNCHANGED <<m_state, m_data, m_status, m_callback, m_cv, m_refs,
                                 holders, settled, consumerVars>>

(* notify_all wakes the consumer if it sleeps; it must get the mutex back. *)
notify_all == /\ ProducerGoes("notify", "unlock")
              /\ consumer' = IF consumer = "asleep" THEN "lock_cv" ELSE consumer
              /\ UNCHANGED <<members, holders, settled, seen, runs>>

unlock_after_notify == /\ ProducerGoes("unlock", "release")
                       /\ m_mutex' = "free"
                       /\ UNCHANGED <<m_state, m_data, m_status, m_callback, m_cv, m_refs,
                                      holders, settled, consumerVars>>

producer_release == /\ ProducerGoes("release", "gone")
                    /\ unbind
                    /\ UNCHANGED <<m_state, m_data, m_status, m_callback, m_cv, m_mutex,
                                   holders, settled, consumerVars>>

(* CopyablePromiseHolder(Promise&&): the reference passes to the holder. *)
make_holder == /\ ProducerGoes("open", "held")
               /\ holders < MaxHolders
               /\ holders' = holders + 1
               /\ UNCHANGED <<members, settled, consumerVars>>

copy_holder == /\ holders > 0
               /\ holders < MaxHolders
               /\ holders' = holders + 1
               /\ m_refs' = m_refs + 1
               /\ UNCHANGED <<m_state, m_data, m_status, m_callback, m_cv, m_mutex,
                              producer, settled, consumerVars>>

(* get_promise moves a holder's reference back into a Promise.  claim()    *)
(* asserts that no other Promise owns the state.                           *)
get_promise == /\ ProducerGoes("held", "open")
               /\ holders' = holders - 1
               /\ UNCHANGED <<members, settled, consumerVars>>

(* A holder dies while a Promise, or another holder, still has the state... *)
drop_holder == /\ holders > (IF producer = "held" THEN 1 ELSE 0)
               /\ DropOneHolder
               /\ UNCHANGED producer

(* ... and the last one dies without get_promise having been called. *)
drop_last_holder == /\ ProducerGoes("held", "lost")
                    /\ holders = 1
                    /\ DropOneHolder

-----------------------------------------------------------------------------
(* The future side. *)

get       == WhenReady("read", "emplace_cv")
get_async == WhenReady("inline", "set_callback")

emplace_cv == /\ ConsumerGoes("emplace_cv", "cas_wait")
              /\ m_cv' = TRUE
              /\ UNCHANGED <<m_state, m_data, m_status, m_callback, m_mutex, m_refs,
                             producerVars, seen, runs>>

cas_wait == CompareExchange("cas_wait", "lock_cv", "read")

lock_cv == /\ ConsumerGoes("lock_cv", "predicate")
           /\ m_mutex = "free"
           /\ m_mutex' = "consumer"
           /\ UNCHANGED <<m_state, m_data, m_status, m_callback, m_cv, m_refs,
                          producerVars, seen, runs>>

predicate == /\ ConsumerGoes("predicate", IF m_state = "Finished" THEN "unlock_cv" ELSE "sleep")
             /\ UNCHANGED <<members, producerVars, seen, runs>>

(* condition_variable::wait gives the mutex up and sleeps in one step. *)
sleep == /\ ConsumerGoes("sleep", "asleep")
         /\ m_mutex' = "free"
         /\ UNCHANGED <<m_state, m_data, m_status, m_callback, m_cv, m_refs,
                        producerVars, seen, runs>>

spurious_wakeup == /\ ConsumerGoes("asleep", "lock_cv")
                   /\ UNCHANGED <<members, producerVars, seen, runs>>

unlock_cv == /\ ConsumerGoes("unlock_cv", "read")
             /\ m_mutex' = "free"
             /\ UNCHANGED <<m_state, m_data, m_status, m_callback, m_cv, m_refs,
                            producerVars, seen, runs>>

(* get() & copies the value and the Future stays usable; get() && moves it *)
(* out and the Future is not used again.                                   *)
read == /\ consumer = "read"
        /\ seen' = seen \cup {IF m_status # OK THEN m_status ELSE m_data}
        /\ \/ consumer' = "ready" /\ UNCHANGED m_data
           \/ /\ consumer' = "release"
              /\ m_data' = IF m_status # OK THEN m_data ELSE MovedFrom
        /\ UNCHANGED <<m_state, m_status, m_callback, m_cv, m_mutex, m_refs,
                       producerVars, runs>>

(* general_impl on a Finished state: success of m_data, or fail of m_status. *)
inline == /\ ConsumerGoes("inline", "release")
          /\ runs' = runs + 1
          /\ seen' = seen \cup {IF m_data # NoData THEN m_data ELSE m_status}
          /\ IF m_data # NoData THEN m_data' = MovedFrom /\ UNCHANGED m_status
                                ELSE m_status' = OK /\ UNCHANGED m_data
          /\ UNCHANGED <<m_state, m_callback, m_cv, m_mutex, m_refs, producerVars>>

set_callback == /\ ConsumerGoes("set_callback", "cas_callback")
                /\ m_callback' = TRUE
                /\ UNCHANGED <<m_state, m_data, m_status, m_cv, m_mutex, m_refs,
                               producerVars, seen, runs>>

cas_callback == CompareExchange("cas_callback", "release", "run_callback")

(* The promise side finished first, so this side runs the callback. *)
run_callback == /\ ConsumerGoes("run_callback", "release")
                /\ GiveToCallback
                /\ UNCHANGED <<m_state, m_callback, m_cv, m_mutex, m_refs, producerVars>>

drop_future == /\ ConsumerGoes("ready", "release")
               /\ UNCHANGED <<members, producerVars, seen, runs>>

consumer_release == /\ ConsumerGoes("release", "gone")
                    /\ unbind
                    /\ UNCHANGED <<m_state, m_data, m_status, m_callback, m_cv, m_mutex,
                                   producerVars, seen, runs>>

-----------------------------------------------------------------------------
Settle == emplace_value \/ set_error \/ break_promise

Transition == exchange \/ call_callback \/ test_cv \/ lock_to_notify
                \/ notify_all \/ unlock_after_notify \/ producer_release

Holding == make_holder \/ copy_holder \/ get_promise \/ drop_holder \/ drop_last_holder

Wait == emplace_cv \/ cas_wait \/ lock_cv \/ predicate \/ sleep \/ unlock_cv \/ read

Attach == inline \/ set_callback \/ cas_callback \/ run_callback

Next == \/ Settle \/ Transition \/ Holding
        \/ get \/ get_async \/ drop_future
        \/ Wait \/ spurious_wakeup \/ Attach \/ consumer_release

SafeSpec == Init /\ [][Next]_vars

(* The caller does not keep a Promise unset for ever, be it by moving it   *)
(* in and out of holders, and extracts the Promise from the holder it has  *)
(* (future.hpp:561).  The rest is the scheduler running each thread.       *)
(* Nothing makes the caller use or drop the Future, a holder be copied or  *)
(* dropped, or a thread wake up spuriously.                                *)
Fairness == /\ SF_vars(Settle)
            /\ WF_vars(get_promise)
            /\ WF_vars(Transition)
            /\ WF_vars(Wait)
            /\ WF_vars(Attach)
            /\ WF_vars(consumer_release)

Spec == SafeSpec /\ Fairness

-----------------------------------------------------------------------------
(* Type correctness. *)
TypeOK == /\ m_state \in SSBState
          /\ m_data \in Values \cup {NoData, MovedFrom}
          /\ m_status \in Errors \cup {OK}
          /\ m_callback \in BOOLEAN
          /\ m_cv \in BOOLEAN
          /\ m_mutex \in {"free", "producer", "consumer"}
          /\ m_refs \in Nat
          /\ producer \in ProducerPC
          /\ consumer \in ConsumerPC
          /\ holders \in 0..MaxHolders
          /\ settled \in Outcomes \cup {NoData}
          /\ seen \subseteq Outcomes \cup {NoData, MovedFrom, OK}
          /\ runs \in Nat

(* The members that are not atomic, as the next step of each side touches  *)
(* them (the P and F marks of future.hpp:368-375).                         *)
Payload == {"m_data", "m_status"}

ProducerWrites == CASE producer \in {"open", "held"} -> Payload
                    [] producer = "callback" /\ m_callback -> Payload
                    [] OTHER -> {}

ProducerReads == CASE producer = "callback" -> {"m_callback"}
                   [] producer \in {"cv", "notify"} -> {"m_cv"}
                   [] OTHER -> {}

ConsumerWrites == CASE consumer = "emplace_cv" -> {"m_cv"}
                    [] consumer = "set_callback" -> {"m_callback"}
                    [] consumer \in {"read", "inline", "run_callback"} -> Payload
                    [] OTHER -> {}

ConsumerReads == CASE consumer = "run_callback" -> {"m_callback"}
                   [] consumer \in {"predicate", "sleep", "asleep"} -> {"m_cv"}
                   [] OTHER -> {}

(* The concurrency rules of future.hpp:347-358: no member that is not      *)
(* atomic is ever about to be touched by both sides, one of them writing.  *)
NoDataRace == /\ ProducerWrites \cap (ConsumerWrites \cup ConsumerReads) = {}
              /\ ConsumerWrites \cap (ProducerWrites \cup ProducerReads) = {}

PromiseRef == IF producer \in {"held", "gone", "lost"} THEN 0 ELSE 1
FutureRef  == IF consumer = "gone" THEN 0 ELSE 1

(* The state is deleted when, and only when, no Promise, holder or Future  *)
(* is left that points at it: no use after free, and no leak.              *)
DeletedByLastOwner == (m_refs = 0) <=> (PromiseRef + FutureRef + holders = 0)

(* Whatever get() returns and whatever callback is given is the outcome    *)
(* that the promise side stored, complete: never an empty, moved-from or   *)
(* half-written one.                                                       *)
OnlySettledSeen == seen \subseteq ({settled} \ {NoData})

CallbackOwed == m_callback /\ runs = 0

(* A callback left with get_async runs at most once, and when both sides   *)
(* are done with the state it has run: the race between exchange() on one  *)
(* side and compare_exchange() on the other loses and doubles no call.     *)
CallbackExactlyOnce ==
    /\ runs <= 1
    /\ producer = "gone" /\ consumer = "gone" => ~CallbackOwed

(* No wakeup is lost: a thread that sleeps in wait() has its notify_all    *)
(* still to come, because the predicate is tested, and the notification    *)
(* given, under the mutex.                                                 *)
NoLostWakeup == consumer = "asleep" => producer \notin {"unlock", "release", "gone"}

Lost == producer = "lost"

-----------------------------------------------------------------------------
(* The promise that the pair makes, in terms of this state: the outcome is *)
(* settled by the exchange, and a callback is pending from get_async until *)
(* it has run, on whichever side.                                          *)
RequestOfConsumer ==
    CASE consumer \in Getting -> "get"
      [] consumer \in Attaching -> "callback"
      [] consumer = "ready" -> "none"
      [] OTHER -> IF CallbackOwed THEN "callback" ELSE "done"

Cell == INSTANCE OneShot
          WITH Pending <- NoData,
               outcome <- IF m_state = "Finished" THEN settled ELSE NoData,
               request <- RequestOfConsumer

(* The lock-free hand-over implements the one-shot promise; its liveness   *)
(* included, unless the last holder dies with the Promise in it: a get()   *)
(* or a callback is answered, with the settled outcome.                    *)
ImplementsOneShot == Cell!SafeSpec /\ (([]~Lost) => Cell!Fairness)
=============================================================================
