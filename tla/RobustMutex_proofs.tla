------------------------ MODULE RobustMutex_proofs ------------------------
(***************************************************************************)
(* Proofs about RobustMutex: for any set of threads, mutual exclusion, the *)
(* state of the protected data, what makes the mutex not recoverable, and  *)
(* the refinement of CrashLock.                                            *)
(***************************************************************************)
EXTENDS RobustMutex, TLAPS

Step(t) == \/ lock(t) \/ lock_returns(t) \/ try_lock(t) \/ Recover(t)
           \/ wait(t) \/ wake(t) \/ unwind(t)
           \/ begin_update(t) \/ end_update(t) \/ unlock(t) \/ die(t) \/ replace(t)

Types == /\ holder \in Threads \cup {Nobody}
         /\ mutex \in {"consistent", "inconsistent", "not_recoverable"}
         /\ data \in {"clean", "dirty"}
         /\ pc \in [Threads -> PC]
         /\ op \in [Threads -> {"lock", "wait"}]

(* Being past low_level_lock() is having the mutex. *)
HasIt == /\ holder # Nobody => pc[holder] \in Recovery \cup Critical
         /\ \A t \in Threads : pc[t] \in Recovery \cup Critical => holder = t

(* What the owner is doing tells what the mutex knows. *)
Told == /\ holder # Nobody /\ pc[holder] \in Critical => mutex = "consistent"
        /\ holder # Nobody /\ pc[holder] \in Recovery => mutex = "inconsistent"
        /\ mutex = "not_recoverable" => holder = Nobody

(* The data are clean unless the mutex, or the owner, knows better. *)
Clean == /\ data = "dirty" => mutex # "consistent" \/ (holder # Nobody /\ pc[holder] = "writing")
         /\ holder # Nobody /\ pc[holder] \in {"marking", "critical"} => data = "clean"

IInv == Types /\ HasIt /\ Told /\ Clean

-----------------------------------------------------------------------------
(* The inductive invariant holds before the first thread asks for the      *)
(* mutex.                                                                  *)
LEMMA IInvInit == Init => IInv
BY NobodyAssumption
   DEF Init, IInv, Types, HasIt, Told, Clean, PC, Recovery, Critical

(* One step of one thread keeps the inductive invariant, one thread step   *)
(* after the other: this is where a death, a failing recovery function and *)
(* a wakeup that finds another owner dead are looked at.                   *)
LEMMA IInvStep == ASSUME IInv, NEW t \in Threads, Step(t) PROVE IInv'
<1> USE NobodyAssumption DEF IInv, Types, HasIt, Told, Clean, PC, Recovery, Critical
<1>1. CASE lock(t) BY <1>1 DEF lock, Goes
<1>2. CASE lock_returns(t) BY <1>2 DEF lock_returns, low_level_lock, Thrown
<1>3. CASE try_lock(t) BY <1>3 DEF try_lock, low_level_lock, Thrown
<1>4. CASE Recover(t)
  <2>1. CASE recover_func(t) BY <2>1 DEF recover_func, Goes
  <2>2. CASE recover_func_throws(t) BY <2>2 DEF recover_func_throws, Goes
  <2>3. CASE mark_as_consistent(t) BY <2>3 DEF mark_as_consistent, Goes
  <2>4. CASE give_up(t) BY <2>4 DEF give_up, Thrown
  <2> QED BY <1>4, <2>1, <2>2, <2>3, <2>4 DEF Recover
<1>5. CASE wait(t) BY <1>5 DEF wait, Goes
<1>6. CASE wake(t) BY <1>6 DEF wake, Goes
<1>7. CASE unwind(t) BY <1>7 DEF unwind, Goes
<1>8. CASE begin_update(t) BY <1>8 DEF begin_update, Goes
<1>9. CASE end_update(t) BY <1>9 DEF end_update, Goes
<1>10. CASE unlock(t) BY <1>10 DEF unlock, Goes
<1>11. CASE die(t) BY <1>11 DEF die
<1>12. CASE replace(t) BY <1>12 DEF replace, Goes
<1> QED BY <1>1, <1>2, <1>3, <1>4, <1>5, <1>6, <1>7, <1>8, <1>9, <1>10, <1>11, <1>12 DEF Step

(* IInv is an invariant of the mutex. *)
THEOREM Invariance == SafeSpec => []IInv
<1>1. IInv /\ [Next]_vars => IInv'
  <2> SUFFICES ASSUME IInv, [Next]_vars PROVE IInv'
    OBVIOUS
  <2>1. CASE Next BY <2>1, IInvStep DEF Next, Step
  <2>2. CASE UNCHANGED vars
    BY <2>2 DEF vars, IInv, Types, HasIt, Told, Clean
  <2> QED BY <2>1, <2>2
<1> QED BY <1>1, IInvInit, PTL DEF SafeSpec

-----------------------------------------------------------------------------
(* The variables keep their types, and only a thread between               *)
(* low_level_lock() and unlock() has the mutex.                            *)
THEOREM TypeCorrect == SafeSpec => []TypeOK
<1>1. IInv => TypeOK BY DEF IInv, Types, HasIt, TypeOK
<1> QED BY <1>1, Invariance, PTL

(* Whoever comes out of lock(), try_lock() or wait() normally is alone     *)
(* with the data and finds them consistent, for any number of threads, any *)
(* deaths and any order of them.                                           *)
THEOREM Consistent == SafeSpec => []CriticalIsConsistent
<1>1. IInv => CriticalIsConsistent
  BY NobodyAssumption DEF IInv, Types, HasIt, Clean, CriticalIsConsistent, Recovery, Critical
<1> QED BY <1>1, Invariance, PTL

(* Damage is never forgotten: while the data are dirty, either the thread  *)
(* that is writing them is alive, or the mutex is not consistent.          *)
THEOREM NoSilentDamage == SafeSpec => []DamageIsKnown
<1>1. IInv => DamageIsKnown BY DEF IInv, Types, Clean, DamageIsKnown
<1> QED BY <1>1, Invariance, PTL

(* The mutex becomes not recoverable only when the owner's recovery        *)
(* function has thrown, and never recovers from that.                      *)
THEOREM FinalOnlyByFailure == SafeSpec => OnlyFailedRecoveryIsFinal
<1> DEFINE A == /\ mutex = "not_recoverable" => mutex' = "not_recoverable"
                /\ mutex' # mutex /\ mutex' = "not_recoverable" =>
                     \E t \in Threads : pc[t] = "giving_up" /\ holder = t
<1>1. ASSUME IInv, [Next]_vars PROVE [A]_vars
  <2>1. CASE UNCHANGED vars BY <2>1
  <2>2. ASSUME NEW t \in Threads, Step(t) PROVE A
    BY <1>1, <2>2, NobodyAssumption
       DEF Step, IInv, Types, HasIt, Told, PC, Recovery, Critical, Goes, lock,
           lock_returns, try_lock, low_level_lock, Recover, recover_func,
           recover_func_throws, mark_as_consistent, give_up, wait, wake, unwind,
           begin_update, end_update, unlock, die, replace
  <2> QED BY <1>1, <2>1, <2>2 DEF Next, Step
<1> QED BY <1>1, Invariance, PTL DEF SafeSpec, OnlyFailedRecoveryIsFinal

-----------------------------------------------------------------------------
(* In the invariant's words: somebody is inside when the owner is in its   *)
(* critical section.                                                       *)
LEMMA InsideIsOwner ==
  ASSUME IInv
  PROVE Inside = IF holder # Nobody /\ pc[holder] \in Critical THEN holder ELSE Nobody
BY NobodyAssumption DEF IInv, Types, HasIt, Inside, Recovery, Critical

(* The first state of the mutex is the first state of the lock.            *)
LEMMA LockInit == Init => Lock!Init
BY NobodyAssumption DEF Init, Lock!Init, Inside, Health, Critical

(* Every step of a thread is one step of the lock or none: the recovery is *)
(* none, until mark_as_consistent() repairs and enters in one.             *)
LEMMA LockStep ==
  ASSUME IInv, IInv', NEW t \in Threads, Step(t)
  PROVE Lock!Next \/ UNCHANGED <<Inside, Health>>
<1> DEFINE In == IF holder # Nobody /\ pc[holder] \in Critical THEN holder ELSE Nobody
<1>1. Inside = In BY InsideIsOwner
<1>2. Inside' = In'
  BY NobodyAssumption DEF IInv, Types, HasIt, Inside, Recovery, Critical
<1> USE NobodyAssumption
    DEF IInv, Types, HasIt, Told, PC, Recovery, Critical, Health
<1> HIDE DEF Inside
<1>3. CASE lock(t) BY <1>1, <1>2, <1>3 DEF lock, Goes
<1>4. CASE lock_returns(t) \/ try_lock(t)
  <2>1. low_level_lock(t) BY <1>4 DEF lock_returns, try_lock
  <2>2. pc[t] \in {"locking", "idle"} BY <1>4 DEF lock_returns, try_lock
  <2>3. CASE mutex = "consistent" /\ holder' = t
    <3>1. Lock!Enter(t)
      BY <1>1, <1>2, <2>1, <2>2, <2>3 DEF Lock!Enter, low_level_lock
    <3> QED BY <3>1 DEF Lock!Next
  <2>4. CASE ~(mutex = "consistent" /\ holder' = t)
    BY <1>1, <1>2, <2>1, <2>2, <2>4 DEF low_level_lock, Thrown
  <2> QED BY <2>3, <2>4
<1>5. CASE Recover(t)
  <2>1. CASE recover_func(t) \/ recover_func_throws(t)
    BY <1>1, <1>2, <2>1 DEF recover_func, recover_func_throws, Goes
  <2>2. CASE mark_as_consistent(t)
    <3>1. Lock!RepairAndEnter(t)
      BY <1>1, <1>2, <2>2 DEF Lock!RepairAndEnter, mark_as_consistent, Goes
    <3> QED BY <3>1 DEF Lock!Next
  <2>3. CASE give_up(t)
    <3>1. Lock!GiveUp BY <1>1, <1>2, <2>3 DEF Lock!GiveUp, give_up
    <3> QED BY <3>1 DEF Lock!Next
  <2> QED BY <1>5, <2>1, <2>2, <2>3 DEF Recover
<1>6. CASE wait(t) \/ unlock(t)
  <2>1. Lock!Leave(t) BY <1>1, <1>2, <1>6 DEF Lock!Leave, wait, unlock, Goes
  <2> QED BY <2>1 DEF Lock!Next
<1>7. CASE wake(t) \/ unwind(t) \/ begin_update(t) \/ end_update(t) \/ replace(t)
  BY <1>1, <1>2, <1>7 DEF wake, unwind, begin_update, end_update, replace, Goes
<1>8. CASE die(t)
  <2>1. CASE pc[t] \in Critical
    <3>1. Lock!DieInside(t) BY <1>1, <1>2, <1>8, <2>1 DEF Lock!DieInside, die
    <3> QED BY <3>1 DEF Lock!Next
  <2>2. CASE pc[t] \notin Critical BY <1>1, <1>2, <1>8, <2>2 DEF die
  <2> QED BY <2>1, <2>2
<1> QED BY <1>3, <1>4, <1>5, <1>6, <1>7, <1>8 DEF Step

(* RobustMutex implements CrashLock, for any set of threads.               *)
THEOREM Refinement == SafeSpec => ImplementsCrashLock
<1>1. ASSUME IInv, IInv', [Next]_vars PROVE [Lock!Next]_Lock!vars
  <2>1. CASE UNCHANGED vars BY <2>1 DEF vars, Lock!vars, Inside, Health
  <2>2. ASSUME NEW t \in Threads, Step(t) PROVE [Lock!Next]_Lock!vars
    BY <1>1, <2>2, LockStep DEF Lock!vars
  <2> QED BY <1>1, <2>1, <2>2 DEF Next, Step
<1> QED BY <1>1, LockInit, Invariance, PTL DEF SafeSpec, ImplementsCrashLock, Lock!Spec
=============================================================================
