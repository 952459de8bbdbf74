---------------------------- MODULE RobustMutex ----------------------------
(***************************************************************************)
(* RobustMutex, RobustLockGuard and CondVar::wait of Realm/thread.hpp, on  *)
(* a platform with robust mutexes: threads of several processes lock,      *)
(* update what the mutex protects, wait, and may die at any point.  The    *)
(* POSIX calls underneath are modelled from the contract stated with       *)
(* low_level_lock(), try_low_level_lock() and mark_as_consistent().        *)
(***************************************************************************)
CONSTANTS Threads,
          Nobody    \* holder of a mutex that is not locked

ASSUME NobodyAssumption == Nobody \notin Threads

VARIABLES holder,   \* who has the mutex
          mutex,    \* "consistent", "inconsistent" or "not_recoverable"
          data,     \* what it protects: "clean", or "dirty" in mid-update
          pc,       \* where each thread is
          op        \* whether it came there by lock() or by wait()

vars == <<holder, mutex, data, pc, op>>

(* Between low_level_lock() and unlock() a thread is recovering, about to  *)
(* mark the mutex consistent, about to give up, or in its critical section *)
(* and, there, in the middle of an update.                                 *)
Recovery == {"recovering", "marking", "giving_up"}
Critical == {"critical", "writing"}
PC == {"idle", "locking", "asleep", "unwinding", "dead"} \cup Recovery \cup Critical

Init == /\ holder = Nobody
        /\ mutex = "consistent"
        /\ data = "clean"
        /\ pc = [t \in Threads |-> "idle"]
        /\ op = [t \in Threads |-> "lock"]

Goes(t, from, to) == pc[t] = from /\ pc' = [pc EXCEPT ![t] = to]

(* Where an exception leaves a thread: out of lock(), or out of wait() and *)
(* into the caller, whose critical section it unwinds.                     *)
Thrown(t) == IF op[t] = "wait" THEN "unwinding" ELSE "idle"

-----------------------------------------------------------------------------
(* Mutated forms of actions below, each the mark of a plausible mistake.   *)

(* The mutex is marked consistent before the recovery has been done. *)
recover_func_marks_first(t) ==
    /\ Goes(t, "recovering", "critical")
    /\ mutex' = "consistent"
    /\ UNCHANGED <<holder, data, op>>

(* The death of an owner is not told to the next one. *)
die_untold(t) ==
    /\ pc[t] \notin {"idle", "dead"}
    /\ pc' = [pc EXCEPT ![t] = "dead"]
    /\ holder' = IF holder = t THEN Nobody ELSE holder
    /\ UNCHANGED <<mutex, data, op>>

(* A wait that wakes up goes on without the mutex. *)
wake_without_mutex(t) ==
    /\ Goes(t, "asleep", "critical")
    /\ UNCHANGED <<holder, mutex, data, op>>

(* A recovery that fails marks the mutex consistent as well. *)
give_up_marked(t) ==
    /\ pc[t] = "giving_up"
    /\ pc' = [pc EXCEPT ![t] = Thrown(t)]
    /\ holder' = Nobody
    /\ mutex' = "consistent"
    /\ UNCHANGED <<data, op>>

(* A recovery that fails leaves the mutex locked. *)
give_up_locked(t) ==
    /\ pc[t] = "giving_up"
    /\ pc' = [pc EXCEPT ![t] = Thrown(t)]
    /\ UNCHANGED <<holder, mutex, data, op>>

(* unlock() where mark_as_consistent() should be. *)
mark_unlocks(t) ==
    /\ Goes(t, "marking", "idle")
    /\ holder' = Nobody
    /\ mutex' = "not_recoverable"
    /\ UNCHANGED <<data, op>>

-----------------------------------------------------------------------------
(* The mutex of the platform: the free mutex is locked, and the caller is  *)
(* told whether an owner has died; one that is not recoverable throws.     *)
low_level_lock(t) ==
    /\ holder = Nobody
    /\ \/ /\ mutex # "not_recoverable"
          /\ holder' = t
          /\ pc' = [pc EXCEPT ![t] = IF mutex = "consistent" THEN "critical" ELSE "recovering"]
       \/ /\ mutex = "not_recoverable"
          /\ pc' = [pc EXCEPT ![t] = Thrown(t)]
          /\ UNCHANGED holder
    /\ UNCHANGED <<mutex, data, op>>

lock(t) == /\ Goes(t, "idle", "locking")
           /\ op' = [op EXCEPT ![t] = "lock"]
           /\ UNCHANGED <<holder, mutex, data>>

(* Comes back from lock(), or from the re-locking in pthread_cond_wait(). *)
lock_returns(t) == pc[t] = "locking" /\ low_level_lock(t)

(* When the mutex is held try_lock() returns false and changes nothing. *)
try_lock(t) == pc[t] = "idle" /\ op[t] = "lock" /\ low_level_lock(t)

recover_func(t) == /\ Goes(t, "recovering", "marking")
                   /\ data' = "clean"
                   /\ UNCHANGED <<holder, mutex, op>>

recover_func_throws(t) == /\ Goes(t, "recovering", "giving_up")
                          /\ UNCHANGED <<holder, mutex, data, op>>

mark_as_consistent(t) == /\ Goes(t, "marking", "critical")
                         /\ mutex' = "consistent"
                         /\ UNCHANGED <<holder, data, op>>

(* The catch clauses: unlock() without mark_as_consistent(), and throw. *)
give_up(t) == /\ pc[t] = "giving_up"
              /\ pc' = [pc EXCEPT ![t] = Thrown(t)]
              /\ holder' = Nobody
              /\ mutex' = "not_recoverable"
              /\ UNCHANGED <<data, op>>

unlock(t) == /\ Goes(t, "critical", "idle")
             /\ holder' = Nobody
             /\ op' = [op EXCEPT ![t] = "lock"]
             /\ UNCHANGED <<mutex, data>>

(* CondVar::wait lets the mutex go and sleeps; a notification, a timeout   *)
(* or a spurious wakeup sends it for the mutex again.                      *)
wait(t) == /\ Goes(t, "critical", "asleep")
           /\ holder' = Nobody
           /\ op' = [op EXCEPT ![t] = "wait"]
           /\ UNCHANGED <<mutex, data>>

wake(t) == /\ Goes(t, "asleep", "locking")
           /\ UNCHANGED <<holder, mutex, data, op>>

(* The caller handles what wait() threw: the mutex is no longer his. *)
unwind(t) == /\ Goes(t, "unwinding", "idle")
             /\ op' = [op EXCEPT ![t] = "lock"]
             /\ UNCHANGED <<holder, mutex, data>>

-----------------------------------------------------------------------------
(* The application's critical section, and the death of a thread in it or  *)
(* anywhere else; a new thread may take its place.                         *)
begin_update(t) == /\ Goes(t, "critical", "writing")
                   /\ data' = "dirty"
                   /\ UNCHANGED <<holder, mutex, op>>

end_update(t) == /\ Goes(t, "writing", "critical")
                 /\ data' = "clean"
                 /\ UNCHANGED <<holder, mutex, op>>

die(t) == /\ pc[t] \notin {"idle", "dead"}
          /\ pc' = [pc EXCEPT ![t] = "dead"]
          /\ holder' = IF holder = t THEN Nobody ELSE holder
          /\ mutex' = IF holder = t THEN "inconsistent" ELSE mutex
          /\ UNCHANGED <<data, op>>

replace(t) == /\ Goes(t, "dead", "idle")
              /\ op' = [op EXCEPT ![t] = "lock"]
              /\ UNCHANGED <<holder, mutex, data>>

-----------------------------------------------------------------------------
Recover(t) == \/ recover_func(t) \/ recover_func_throws(t)
              \/ mark_as_consistent(t) \/ give_up(t)

Next == \E t \in Threads :
          \/ lock(t) \/ lock_returns(t) \/ try_lock(t) \/ Recover(t)
          \/ wait(t) \/ wake(t) \/ unwind(t)
          \/ begin_update(t) \/ end_update(t) \/ unlock(t) \/ die(t) \/ replace(t)

SafeSpec == Init /\ [][Next]_vars

(* A thread that has the mutex goes on, and sooner or later leaves its     *)
(* critical section; nothing is assumed of who gets a free mutex.          *)
Fairness == \A t \in Threads : /\ WF_vars(Recover(t))
                               /\ WF_vars(end_update(t))
                               /\ SF_vars(unlock(t))

Spec == SafeSpec /\ Fairness

-----------------------------------------------------------------------------
(* Type correctness; the mutex is locked only by a thread that is past     *)
(* low_level_lock() and not past unlock().                                 *)
TypeOK == /\ holder \in Threads \cup {Nobody}
          /\ mutex \in {"consistent", "inconsistent", "not_recoverable"}
          /\ data \in {"clean", "dirty"}
          /\ pc \in [Threads -> PC]
          /\ op \in [Threads -> {"lock", "wait"}]
          /\ holder # Nobody => pc[holder] \in Recovery \cup Critical

(* A thread in its critical section, entered by lock(), try_lock() or      *)
(* wait(), is alone with the data, and unless it is updating them itself   *)
(* it finds them consistent, whoever died in the middle of what.           *)
CriticalIsConsistent ==
    \A t \in Threads : /\ pc[t] = "critical" => data = "clean"
                       /\ pc[t] \in Critical =>
                            \A u \in Threads \ {t} : pc[u] \notin Critical \cup Recovery

(* The mutex becomes, and then stays, not recoverable because a recovery   *)
(* function threw, and for no other reason (thread.hpp:234-236).           *)
OnlyFailedRecoveryIsFinal ==
    [][/\ mutex = "not_recoverable" => mutex' = "not_recoverable"
       /\ mutex' # mutex /\ mutex' = "not_recoverable" =>
            \E t \in Threads : pc[t] = "giving_up" /\ holder = t]_vars

(* Half-made updates are either being made, or known to the mutex.         *)
DamageIsKnown ==
    data = "dirty" => \/ mutex # "consistent"
                      \/ \E t \in Threads : pc[t] = "writing"

(* A locked mutex is unlocked again, whatever its owner does: no death and *)
(* no failed recovery leaves it locked.                                    *)
FreedAgain == (holder # Nobody) ~> (holder = Nobody)

(* unlock() succeeds: a thread that unlocks has the mutex (the assertion   *)
(* of thread.hpp:559).  With a RobustLockGuard, unwinding is unlocking.    *)
GuardUnlocksOwnMutex == \A t \in Threads : pc[t] = "unwinding" => holder = t

(* What CrashLock calls inside and health: a thread is inside in its       *)
(* critical section; recovering, it is still outside.                      *)
Inside == IF \E t \in Threads : pc[t] \in Critical THEN holder ELSE Nobody
Health == CASE mutex = "consistent"   -> "sound"
            [] mutex = "inconsistent" -> "damaged"
            [] OTHER                  -> "broken"

Lock == INSTANCE CrashLock WITH Clients <- Threads, inside <- Inside, health <- Health

(* The mutex is a lock for clients that die: one is inside at a time, and  *)
(* a death inside is repaired before anybody goes in again, or for ever    *)
(* keeps everybody out.                                                    *)
ImplementsCrashLock == Lock!Spec
=============================================================================
