------------------------- MODULE SharedState_proofs -------------------------
(***************************************************************************)
(* Proofs about SharedState, for any values, errors and number of holders. *)
(***************************************************************************)
EXTENDS SharedState, TLAPS

Unfinished == {"open", "held", "exchange", "lost"}
Finishing  == {"callback", "cv", "lock", "notify", "unlock"}
Leaving    == {"release", "gone"}

(* Every owner of the state is counted once. *)
Counted == /\ m_refs = PromiseRef + FutureRef + holders
           /\ producer = "held" => holders > 0
           /\ producer = "lost" => holders = 0

(* The state of the hand-over, against where the two sides are. *)
HandOver == /\ (m_state # "Finished") <=> (producer \in Unfinished)
            /\ m_state = "Waiting" =>
                 \/ m_callback /\ consumer \in Leaving
                 \/ /\ ~m_callback /\ m_cv
                    /\ consumer \in {"lock_cv", "predicate", "sleep", "asleep"}
            /\ producer \in Finishing =>
                 \/ m_callback /\ consumer \in Leaving
                 \/ /\ ~m_callback /\ m_cv
                    /\ consumer \notin {"emplace_cv", "cas_wait", "set_callback",
                                        "cas_callback", "run_callback"}
            /\ consumer \in {"read", "inline", "run_callback", "unlock_cv"} =>
                 m_state = "Finished"
            /\ consumer \in {"lock_cv", "predicate", "sleep", "asleep"} =>
                 m_state # "Init"
            /\ consumer = "cas_wait" => m_cv
            /\ m_callback => consumer \in {"cas_callback", "run_callback"} \cup Leaving
            /\ consumer \in {"cas_callback", "run_callback"} => m_callback

(* The payload is what was settled until somebody moves it out. *)
Intact == \/ m_status = OK /\ m_data = settled /\ settled \in Values
          \/ m_status = settled /\ m_data = NoData /\ settled \in Errors

PayloadInv == /\ producer \in {"open", "held", "lost"} =>
                   m_data = NoData /\ m_status = OK /\ settled = NoData
              /\ producer \notin {"open", "held", "lost"} => settled \in Outcomes
              /\ /\ producer \notin {"open", "held", "lost"}
                 /\ consumer \notin Leaving \/ CallbackOwed
                 => Intact
              /\ m_state # "Finished" => seen = {}
              /\ seen \subseteq {settled}

CallbackInv == /\ m_state # "Finished" => runs = 0
               /\ consumer \notin Leaving => runs = 0
               /\ runs <= 1
               /\ CallbackOwed /\ consumer \in Leaving =>
                    m_state = "Waiting" \/ producer = "callback"
               /\ producer = "callback" => runs = 0 \/ ~m_callback

MutexInv == /\ (m_mutex = "producer") <=> (producer \in {"notify", "unlock"})
            /\ (m_mutex = "consumer") <=> (consumer \in {"predicate", "sleep", "unlock_cv"})
            /\ consumer = "sleep" =>
                 producer \in Unfinished \cup {"callback", "cv", "lock"}
            /\ consumer = "asleep" =>
                 producer \in Unfinished \cup {"callback", "cv", "lock", "notify"}

IInv == TypeOK /\ Counted /\ HandOver /\ PayloadInv /\ CallbackInv /\ MutexInv

(* Every step keeps the types; the count never falls below 0, since only an
   owner unbinds. *)
LEMMA TypeOKStep == IInv /\ [Next]_vars => TypeOK'
<1> SUFFICES ASSUME IInv, [Next]_vars PROVE TypeOK'
  OBVIOUS
<1> USE ResultAssumption, MaxHoldersAssumption
  DEF IInv, ProducerGoes, ConsumerGoes, members, producerVars, consumerVars,
      TypeOK, Counted, PromiseRef, FutureRef, HandOver, PayloadInv, Intact, CallbackOwed,
      Finishing, Unfinished, Leaving, Outcomes, SSBState, ProducerPC, ConsumerPC, Getting,
      Attaching
<1>1. CASE Settle
  BY <1>1 DEF Settle, emplace_value, set_error, break_promise, Store
<1>2. CASE Transition
  BY <1>2 DEF Transition, exchange, call_callback, GiveToCallback, test_cv, lock_to_notify,
         notify_all, unlock_after_notify, producer_release, unbind
<1>3. CASE Holding
  BY <1>3 DEF Holding, make_holder, copy_holder, get_promise, drop_holder, drop_last_holder, DropOneHolder, unbind
<1>4. CASE get \/ get_async \/ drop_future
  BY <1>4 DEF get, get_async, drop_future, WhenReady
<1>5. CASE Wait
  <2>1. CASE emplace_cv \/ cas_wait
    BY <2>1 DEF emplace_cv, cas_wait, CompareExchange
  <2>2. CASE lock_cv \/ predicate
    BY <2>2 DEF lock_cv, predicate
  <2>3. CASE sleep \/ unlock_cv
    BY <2>3 DEF sleep, unlock_cv
  <2>4. CASE read
    BY <2>4 DEF read
  <2> QED BY <1>5, <2>1, <2>2, <2>3, <2>4 DEF Wait
<1>6. CASE spurious_wakeup
  BY <1>6 DEF spurious_wakeup
<1>7. CASE Attach
  <2>1. CASE inline
    BY <2>1 DEF inline
  <2>2. CASE set_callback
    BY <2>2 DEF set_callback
  <2>3. CASE cas_callback
    BY <2>3 DEF cas_callback, CompareExchange
  <2>4. CASE run_callback
    BY <2>4 DEF run_callback, GiveToCallback
  <2> QED BY <1>7, <2>1, <2>2, <2>3, <2>4 DEF Attach
<1>8. CASE consumer_release
  BY <1>8 DEF consumer_release, unbind
<1>9. CASE UNCHANGED vars
  BY <1>9 DEF vars
<1> QED BY <1>1, <1>2, <1>3, <1>4, <1>5, <1>6, <1>7, <1>8, <1>9 DEF Next

(* Every step moves, adds or drops a reference together with its owner. *)
LEMMA CountedStep == IInv /\ [Next]_vars => Counted'
<1> SUFFICES ASSUME IInv, [Next]_vars PROVE Counted'
  OBVIOUS
<1> USE ResultAssumption, MaxHoldersAssumption
  DEF IInv, ProducerGoes, ConsumerGoes, members, producerVars, consumerVars,
      Counted, PromiseRef, FutureRef, TypeOK, ProducerPC, ConsumerPC, Getting, Attaching
<1>1. CASE Settle
  BY <1>1 DEF Settle, emplace_value, set_error, break_promise, Store
<1>2. CASE Transition
  BY <1>2 DEF Transition, exchange, call_callback, GiveToCallback, test_cv, lock_to_notify,
         notify_all, unlock_after_notify, producer_release, unbind
<1>3. CASE Holding
  BY <1>3 DEF Holding, make_holder, copy_holder, get_promise, drop_holder, drop_last_holder, DropOneHolder, unbind
<1>4. CASE get \/ get_async \/ drop_future
  BY <1>4 DEF get, get_async, drop_future, WhenReady
<1>5. CASE Wait
  BY <1>5
     DEF Wait, emplace_cv, cas_wait, CompareExchange, lock_cv, predicate, sleep, unlock_cv, read
<1>6. CASE spurious_wakeup
  BY <1>6 DEF spurious_wakeup
<1>7. CASE Attach
  BY <1>7 DEF Attach, inline, set_callback, cas_callback, CompareExchange, run_callback,
         GiveToCallback
<1>8. CASE consumer_release
  BY <1>8 DEF consumer_release, unbind
<1>9. CASE UNCHANGED vars
  BY <1>9 DEF vars
<1> QED BY <1>1, <1>2, <1>3, <1>4, <1>5, <1>6, <1>7, <1>8, <1>9 DEF Next

(* Every step keeps m_state in agreement with where the two sides are, and
   in particular the callback and the condition variable where they are due. *)
LEMMA HandOverStep == IInv /\ [Next]_vars => HandOver'
<1> SUFFICES ASSUME IInv, [Next]_vars PROVE HandOver'
  OBVIOUS
<1> USE ResultAssumption, MaxHoldersAssumption
  DEF IInv, ProducerGoes, ConsumerGoes, members, producerVars, consumerVars,
      HandOver, Unfinished, Finishing, Leaving, TypeOK, SSBState, ProducerPC, ConsumerPC,
      Getting, Attaching
<1>1. CASE Settle
  BY <1>1 DEF Settle, emplace_value, set_error, break_promise, Store
<1>2. CASE Transition
  BY <1>2 DEF Transition, exchange, call_callback, GiveToCallback, test_cv, lock_to_notify,
         notify_all, unlock_after_notify, producer_release, unbind
<1>3. CASE Holding
  BY <1>3 DEF Holding, make_holder, copy_holder, get_promise, drop_holder, drop_last_holder, DropOneHolder, unbind
<1>4. CASE get \/ get_async \/ drop_future
  BY <1>4 DEF get, get_async, drop_future, WhenReady
<1>5. CASE Wait
  <2>1. CASE emplace_cv
    BY <2>1 DEF emplace_cv
  <2>2. CASE cas_wait
    BY <2>2 DEF cas_wait, CompareExchange
  <2>3. CASE lock_cv
    BY <2>3 DEF lock_cv
  <2>4. CASE predicate
    BY <2>4 DEF predicate
  <2>5. CASE sleep
    BY <2>5 DEF sleep
  <2>6. CASE unlock_cv
    BY <2>6 DEF unlock_cv
  <2>7. CASE read
    BY <2>7 DEF read
  <2> QED BY <1>5, <2>1, <2>2, <2>3, <2>4, <2>5, <2>6, <2>7 DEF Wait
<1>6. CASE spurious_wakeup
  BY <1>6 DEF spurious_wakeup
<1>7. CASE Attach
  BY <1>7 DEF Attach, inline, set_callback, cas_callback, CompareExchange, run_callback,
         GiveToCallback
<1>8. CASE consumer_release
  BY <1>8 DEF consumer_release, unbind
<1>9. CASE UNCHANGED vars
  BY <1>9 DEF vars
<1> QED BY <1>1, <1>2, <1>3, <1>4, <1>5, <1>6, <1>7, <1>8, <1>9 DEF Next

(* Every step leaves the settled outcome in the payload until the one who is
   to have it takes it. *)
LEMMA PayloadInvStep == IInv /\ [Next]_vars => PayloadInv'
<1> SUFFICES ASSUME IInv, [Next]_vars PROVE PayloadInv'
  OBVIOUS
<1> USE ResultAssumption, MaxHoldersAssumption
  DEF IInv, ProducerGoes, ConsumerGoes, members, producerVars, consumerVars,
      PayloadInv, Intact, CallbackOwed, CallbackInv, HandOver, Unfinished, Finishing, Leaving,
      TypeOK, SSBState, Outcomes, ProducerPC, ConsumerPC, Getting, Attaching
<1>1. CASE Settle
  BY <1>1 DEF Settle, emplace_value, set_error, break_promise, Store
<1>2. CASE Transition
  BY <1>2 DEF Transition, exchange, call_callback, GiveToCallback, test_cv, lock_to_notify,
         notify_all, unlock_after_notify, producer_release, unbind
<1>3. CASE Holding
  BY <1>3 DEF Holding, make_holder, copy_holder, get_promise, drop_holder, drop_last_holder, DropOneHolder, unbind
<1>4. CASE get \/ get_async \/ drop_future
  BY <1>4 DEF get, get_async, drop_future, WhenReady
<1>5. CASE Wait
  BY <1>5
     DEF Wait, emplace_cv, cas_wait, CompareExchange, lock_cv, predicate, sleep, unlock_cv, read
<1>6. CASE spurious_wakeup
  BY <1>6 DEF spurious_wakeup
<1>7. CASE Attach
  BY <1>7 DEF Attach, inline, set_callback, cas_callback, CompareExchange, run_callback,
         GiveToCallback
<1>8. CASE consumer_release
  BY <1>8 DEF consumer_release, unbind
<1>9. CASE UNCHANGED vars
  BY <1>9 DEF vars
<1> QED BY <1>1, <1>2, <1>3, <1>4, <1>5, <1>6, <1>7, <1>8, <1>9 DEF Next

(* Every step keeps a callback owed with exactly one side to run it. *)
LEMMA CallbackInvStep == IInv /\ [Next]_vars => CallbackInv'
<1> SUFFICES ASSUME IInv, [Next]_vars PROVE CallbackInv'
  OBVIOUS
<1> USE ResultAssumption, MaxHoldersAssumption
  DEF IInv, ProducerGoes, ConsumerGoes, members, producerVars, consumerVars,
      CallbackInv, CallbackOwed, HandOver, Unfinished, Finishing, Leaving, TypeOK, SSBState,
      ProducerPC, ConsumerPC, Getting, Attaching
<1>1. CASE Settle
  BY <1>1 DEF Settle, emplace_value, set_error, break_promise, Store
<1>2. CASE Transition
  BY <1>2 DEF Transition, exchange, call_callback, GiveToCallback, test_cv, lock_to_notify,
         notify_all, unlock_after_notify, producer_release, unbind
<1>3. CASE Holding
  BY <1>3 DEF Holding, make_holder, copy_holder, get_promise, drop_holder, drop_last_holder, DropOneHolder, unbind
<1>4. CASE get \/ get_async \/ drop_future
  BY <1>4 DEF get, get_async, drop_future, WhenReady
<1>5. CASE Wait
  BY <1>5
     DEF Wait, emplace_cv, cas_wait, CompareExchange, lock_cv, predicate, sleep, unlock_cv, read
<1>6. CASE spurious_wakeup
  BY <1>6 DEF spurious_wakeup
<1>7. CASE Attach
  BY <1>7 DEF Attach, inline, set_callback, cas_callback, CompareExchange, run_callback,
         GiveToCallback
<1>8. CASE consumer_release
  BY <1>8 DEF consumer_release, unbind
<1>9. CASE UNCHANGED vars
  BY <1>9 DEF vars
<1> QED BY <1>1, <1>2, <1>3, <1>4, <1>5, <1>6, <1>7, <1>8, <1>9 DEF Next

(* Every step keeps the mutex with its holder, and the notification ahead of
   a sleeping consumer. *)
LEMMA MutexInvStep == IInv /\ [Next]_vars => MutexInv'
<1> SUFFICES ASSUME IInv, [Next]_vars PROVE MutexInv'
  OBVIOUS
<1> USE ResultAssumption, MaxHoldersAssumption
  DEF IInv, ProducerGoes, ConsumerGoes, members, producerVars, consumerVars,
      MutexInv, HandOver, Unfinished, Finishing, Leaving, TypeOK, SSBState, ProducerPC,
      ConsumerPC, Getting, Attaching
<1>1. CASE Settle
  BY <1>1 DEF Settle, emplace_value, set_error, break_promise, Store
<1>2. CASE Transition
  BY <1>2 DEF Transition, exchange, call_callback, GiveToCallback, test_cv, lock_to_notify,
         notify_all, unlock_after_notify, producer_release, unbind
<1>3. CASE Holding
  BY <1>3 DEF Holding, make_holder, copy_holder, get_promise, drop_holder, drop_last_holder, DropOneHolder, unbind
<1>4. CASE get \/ get_async \/ drop_future
  BY <1>4 DEF get, get_async, drop_future, WhenReady
<1>5. CASE Wait
  BY <1>5
     DEF Wait, emplace_cv, cas_wait, CompareExchange, lock_cv, predicate, sleep, unlock_cv, read
<1>6. CASE spurious_wakeup
  BY <1>6 DEF spurious_wakeup
<1>7. CASE Attach
  BY <1>7 DEF Attach, inline, set_callback, cas_callback, CompareExchange, run_callback,
         GiveToCallback
<1>8. CASE consumer_release
  BY <1>8 DEF consumer_release, unbind
<1>9. CASE UNCHANGED vars
  BY <1>9 DEF vars
<1> QED BY <1>1, <1>2, <1>3, <1>4, <1>5, <1>6, <1>7, <1>8, <1>9 DEF Next

(* The invariant is inductive. *)
THEOREM Invariance == SafeSpec => []IInv
<1>1. Init => IInv
  <2> SUFFICES ASSUME Init PROVE IInv
    OBVIOUS
  <2> USE DEF Init
  <2>1. TypeOK
    <3>1. holders \in 0..MaxHolders /\ m_refs \in Nat /\ runs \in Nat
      BY MaxHoldersAssumption
    <3>2. seen \subseteq Outcomes \cup {NoData, MovedFrom, OK}
      OBVIOUS
    <3> QED
      BY <3>1, <3>2 DEF TypeOK, SSBState, ProducerPC, ConsumerPC, Getting, Attaching
  <2>2. Counted
    BY DEF Counted, PromiseRef, FutureRef
  <2>3. HandOver
    BY DEF HandOver, Unfinished, Finishing, Leaving
  <2>4. PayloadInv
    BY DEF PayloadInv, Intact, CallbackOwed, Leaving
  <2>5. CallbackInv
    BY DEF CallbackInv, CallbackOwed, Leaving
  <2>6. MutexInv
    BY DEF MutexInv, Unfinished
  <2> QED BY <2>1, <2>2, <2>3, <2>4, <2>5, <2>6 DEF IInv
<1>2. IInv /\ [Next]_vars => IInv'
  BY TypeOKStep, CountedStep, HandOverStep, PayloadInvStep, CallbackInvStep, MutexInvStep
     DEF IInv
<1> QED BY <1>1, <1>2, PTL DEF SafeSpec

(* Type correctness. *)
THEOREM TypeCorrect == SafeSpec => []TypeOK
<1>1. IInv => TypeOK
  BY DEF IInv
<1> QED BY <1>1, Invariance, PTL

(* The concurrency rules of SharedStateBase are kept: no member that is    *)
(* not atomic is touched by both sides at once.                            *)
THEOREM RaceFree == SafeSpec => []NoDataRace
<1>1. IInv => NoDataRace
  <2> SUFFICES ASSUME IInv PROVE NoDataRace
    OBVIOUS
  <2> USE DEF IInv, TypeOK, ProducerPC, ConsumerPC, Getting, Attaching, HandOver, Unfinished,
          Finishing, Leaving, CallbackInv, NoDataRace, Payload, ProducerWrites, ProducerReads,
          ConsumerWrites, ConsumerReads
  <2>1. CASE producer \in Unfinished
    BY <2>1
  <2>2. CASE producer \in Finishing
    BY <2>2
  <2>3. CASE producer \in Leaving
    BY <2>3
  <2> QED BY <2>1, <2>2, <2>3
<1> QED BY <1>1, Invariance, PTL

(* The shared state is deleted exactly when its last owner lets it go. *)
THEOREM Reclaimed == SafeSpec => []DeletedByLastOwner
<1>1. IInv => DeletedByLastOwner
  BY MaxHoldersAssumption
     DEF IInv, TypeOK, Counted, DeletedByLastOwner, PromiseRef, FutureRef
<1> QED BY <1>1, Invariance, PTL

(* The consumer is given the settled outcome and nothing else. *)
THEOREM OneOutcome == SafeSpec => []OnlySettledSeen
<1>1. IInv => OnlySettledSeen
  BY ResultAssumption
     DEF IInv, TypeOK, PayloadInv, HandOver, Unfinished, Outcomes, OnlySettledSeen
<1> QED BY <1>1, Invariance, PTL

(* The callback of get_async runs once. *)
THEOREM CalledOnce == SafeSpec => []CallbackExactlyOnce
<1>1. IInv => CallbackExactlyOnce
  BY DEF IInv, HandOver, Unfinished, Leaving, CallbackInv, CallbackOwed, CallbackExactlyOnce
<1> QED BY <1>1, Invariance, PTL

(* A sleeping consumer has its notification still to come. *)
THEOREM WakeupKept == SafeSpec => []NoLostWakeup
<1>1. IInv => NoLostWakeup
  BY DEF IInv, MutexInv, Unfinished, NoLostWakeup
<1> QED BY <1>1, Invariance, PTL

(* Every step of the hand-over is a step of the one-shot promise, or none. *)
THEOREM Refinement == SafeSpec => Cell!SafeSpec
<1>1. Init => Cell!Init
  BY DEF Init, Cell!Init, RequestOfConsumer, Getting, Attaching
<1>2. IInv /\ IInv' /\ [Next]_vars => [Cell!Next]_(Cell!vars)
  <2> SUFFICES ASSUME IInv, IInv', [Next]_vars PROVE [Cell!Next]_(Cell!vars)
    OBVIOUS
  <2> USE ResultAssumption
      DEF IInv, TypeOK, SSBState, Outcomes, ProducerPC, ConsumerPC, Getting, Attaching,
      HandOver,
          Unfinished, Finishing, Leaving, PayloadInv, Intact, CallbackInv, CallbackOwed,
          RequestOfConsumer, ProducerGoes, ConsumerGoes, members, producerVars, consumerVars,
          Cell!vars
  <2>1. CASE Settle
    BY <2>1 DEF Settle, emplace_value, set_error, break_promise, Store
  <2>2. CASE Holding
    BY <2>2 DEF Holding, make_holder, copy_holder, get_promise, drop_holder, drop_last_holder, DropOneHolder, unbind
  <2>3. CASE exchange
    BY <2>3 DEF exchange, Cell!Next, Cell!Settle
  <2>4. CASE call_callback
    BY <2>4 DEF call_callback, GiveToCallback, Cell!Next, Cell!RunCallback
  <2>5. CASE test_cv \/ lock_to_notify \/ notify_all \/ unlock_after_notify \/ producer_release
    BY <2>5
       DEF test_cv, lock_to_notify, notify_all, unlock_after_notify, producer_release, unbind
  <2>6. CASE get \/ get_async
    BY <2>6 DEF get, get_async, WhenReady, Cell!Next, Cell!Ask
  <2>7. CASE drop_future
    BY <2>7 DEF drop_future, Cell!Next, Cell!Abandon
  <2>8. CASE emplace_cv \/ cas_wait \/ lock_cv \/ predicate \/ sleep \/ unlock_cv \/ spurious_wakeup
    BY <2>8 DEF emplace_cv, cas_wait, CompareExchange, lock_cv, predicate, sleep, unlock_cv,
           spurious_wakeup
  <2>9. CASE read
    BY <2>9 DEF read, Cell!Next, Cell!AnswerGet
  <2>10. CASE inline
    BY <2>10 DEF inline, Cell!Next, Cell!RunCallback
  <2>11. CASE set_callback \/ cas_callback
    BY <2>11 DEF set_callback, cas_callback, CompareExchange
  <2>12. CASE run_callback
    BY <2>12 DEF run_callback, GiveToCallback, Cell!Next, Cell!RunCallback
  <2>13. CASE consumer_release
    BY <2>13 DEF consumer_release, unbind
  <2>14. CASE UNCHANGED vars
    BY <2>14 DEF vars
  <2> QED BY <2>1, <2>2, <2>3, <2>4, <2>5, <2>6, <2>7, <2>8, <2>9, <2>10, <2>11, <2>12, <2>13, <2>14
       DEF Next, Transition, Wait, Attach
<1> QED BY <1>1, <1>2, Invariance, PTL DEF SafeSpec, Cell!SafeSpec
=============================================================================
