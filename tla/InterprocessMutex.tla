------------------------- MODULE InterprocessMutex -------------------------
(***************************************************************************)
(* InterprocessMutex of Realm/interprocess_mutex.hpp where robust mutexes  *)
(* are emulated: a lock on a file between processes and, between threads   *)
(* of one process, a local mutex in the LockInfo that all instances for    *)
(* the file share.  Processes may die, and files be removed, at any time.  *)
(* The instances here are for one path.  A file is an inode: it lives on   *)
(* without a name while somebody has it open, and is used again later.     *)
(***************************************************************************)
CONSTANTS Processes,
          Instances,
          Home,        \* the process that an instance lives in
          LockInfos,   \* memory for them
          Files,       \* inodes
          Nobody,      \* holder of a local mutex that is free
          None         \* no file, no LockInfo

ASSUME HomeAssumption == Home \in [Instances -> Processes]
ASSUME NoneAssumption == None \notin LockInfos \cup Files /\ Nobody \notin Instances

VARIABLES path,      \* the file that has the name
          info_map,  \* s_info_map of a process: its weak pointer for a file
          file,      \* the file that LockInfo::m_file is attached to
          local,     \* who holds LockInfo::m_local_mutex
          locked,    \* LockInfos that hold the lock on their file
          info,      \* m_lock_info
          uid,       \* m_fileuid
          given,     \* the file that set_shared_part() has been given
          pc

fs    == <<path, file, info, uid, given, info_map>>
locks == <<local, locked>>
vars  == <<fs, locks, pc>>

PC == {"unbound", "named", "opening", "failed", "rest", "releasing",
       "waiting", "local", "trying", "inside", "unlocking"}

Init == /\ path = None
        /\ info_map = [p \in Processes |-> [f \in Files |-> None]]
        /\ file = [l \in LockInfos |-> None]
        /\ local = [l \in LockInfos |-> Nobody]
        /\ locked = {}
        /\ info = [i \in Instances |-> None]
        /\ uid = [i \in Instances |-> None]
        /\ given = [i \in Instances |-> None]
        /\ pc = [i \in Instances |-> "unbound"]

At(i, place)      == pc[i] = place
Goes(i, from, to) == pc[i] = from /\ pc' = [pc EXCEPT ![i] = to]

Here(i)       == {j \in Instances : Home[j] = Home[i]}
Expired(l)    == \A i \in Instances : info[i] # l
Foreign(i)    == {info[j] : j \in Instances \ Here(i)}
s_mutex_free(i) == \A j \in Here(i) : ~At(j, "opening")

(* What the name leads to once it has been opened with mode_Write. *)
Opened(f) == IF path = None
               THEN f \in Files /\ \A l \in LockInfos : file[l] # f
                                /\ \A j \in Instances : given[j] # f
               ELSE f = path

-----------------------------------------------------------------------------
(* Mutated forms of definitions below, each the mark of a plausible        *)
(* mistake.                                                                *)

(* The weak pointer stays in the map. *)
free_lock_info_keeps(i) ==
    /\ info[i] = None \/ s_mutex_free(i)
    /\ info' = [info EXCEPT ![i] = None]
    /\ IF \E j \in Instances \ {i} : info[j] = info[i]
         THEN UNCHANGED <<file, local, locked>>
         ELSE /\ file' = [l \in LockInfos |-> IF l = info[i] THEN None ELSE file[l]]
              /\ local' = [l \in LockInfos |-> IF l = info[i] THEN Nobody ELSE local[l]]
              /\ locked' = locked \ {info[i]}
    /\ UNCHANGED info_map

(* The LockInfo is entered for the file that had the name before. *)
open_old_uid(i) ==
    /\ Goes(i, "opening", "rest")
    /\ \E f \in Files, l \in LockInfos :
         /\ Opened(f) /\ Expired(l)
         /\ path' = f
         /\ file' = [file EXCEPT ![l] = f]
         /\ info' = [info EXCEPT ![i] = l]
         /\ uid' = [uid EXCEPT ![i] = IF @ = None THEN f ELSE @]
         /\ info_map' = [info_map EXCEPT ![Home[i]] = [@ EXCEPT ![uid'[i]] = l]]
    /\ UNCHANGED <<given, locks>>

(* A try_lock() that fails keeps the local mutex. *)
try_fails_keeps(i) ==
    /\ Goes(i, "trying", "rest")
    /\ UNCHANGED <<fs, locks>>

-----------------------------------------------------------------------------
(* free_lock_info(): the last owner's destructor closes the file, and with *)
(* that unlocks it, still under s_mutex.  Who has no LockInfo to free does *)
(* not wait for s_mutex.                                                   *)
Dangling(i, f) == /\ f = uid[i]
                  /\ \A j \in Instances \ {i} : info[j] # info_map[Home[i]][f]

free_lock_info(i) ==
    /\ info[i] = None \/ s_mutex_free(i)
    /\ info' = [info EXCEPT ![i] = None]
    /\ IF \E j \in Instances \ {i} : info[j] = info[i]
         THEN UNCHANGED <<file, local, locked>>
         ELSE /\ file' = [l \in LockInfos |-> IF l = info[i] THEN None ELSE file[l]]
              /\ local' = [l \in LockInfos |-> IF l = info[i] THEN Nobody ELSE local[l]]
              /\ locked' = locked \ {info[i]}
    /\ info_map' = IF info[i] = None THEN info_map
                   ELSE [info_map EXCEPT ![Home[i]] =
                           [f \in Files |-> IF Dangling(i, f) THEN None ELSE @[f]]]

(* set_shared_part(path): first what was bound is freed; the map is looked *)
(* up; if there is nothing for the file, it is opened under the same lock  *)
(* of s_mutex, and may by then be another one, or none.                    *)

Settled(i) == pc[i] \in {"unbound", "failed", "rest"}

set_shared_part(i) ==
    /\ Settled(i)
    /\ free_lock_info(i)
    /\ pc' = [pc EXCEPT ![i] = "named"]
    /\ UNCHANGED <<path, uid, given>>

find_shared(i) ==
    /\ Goes(i, "named", "rest")
    /\ s_mutex_free(i)
    /\ given[i] = None /\ path # None
    /\ LET l == info_map[Home[i]][path] IN
         /\ l # None
         /\ info' = [info EXCEPT ![i] = IF Expired(l) THEN None ELSE l]
    /\ uid' = [uid EXCEPT ![i] = path]
    /\ UNCHANGED <<path, file, given, info_map, locks>>

find_nothing(i) ==
    /\ Goes(i, "named", "opening")
    /\ s_mutex_free(i)
    /\ given[i] = None
    /\ IF path = None
         THEN UNCHANGED uid
         ELSE /\ info_map[Home[i]][path] = None
              /\ uid' = [uid EXCEPT ![i] = path]
    /\ UNCHANGED <<path, file, info, given, info_map, locks>>

open(i) ==
    /\ Goes(i, "opening", "rest")
    /\ \E f \in Files, l \in LockInfos :
         /\ Opened(f) /\ Expired(l)
         /\ path' = f
         /\ file' = [file EXCEPT ![l] = f]
         /\ info' = [info EXCEPT ![i] = l]
         /\ uid' = [uid EXCEPT ![i] = f]
         /\ info_map' = [info_map EXCEPT ![Home[i]] = [@ EXCEPT ![f] = l]]
    /\ UNCHANGED <<given, locks>>

(* open(), or the resize() after it, throws: the LockInfo is not entered.  *)
open_throws(i) ==
    /\ Goes(i, "opening", "failed")
    /\ \E l \in LockInfos :
         /\ Expired(l)
         /\ info' = [info EXCEPT ![i] = l]
         /\ \/ UNCHANGED <<path, file>>
            \/ \E f \in Files : /\ Opened(f)
                                /\ path' = f
                                /\ file' = [file EXCEPT ![l] = f]
    /\ UNCHANGED <<uid, given, info_map, locks>>

(* get_unique_id() throws, of the name or of the file that has been given, *)
(* which stays the caller's: nothing is bound.                             *)
get_unique_id_throws(i) ==
    /\ Goes(i, "named", "unbound")
    /\ s_mutex_free(i)
    /\ given' = [given EXCEPT ![i] = None]
    /\ UNCHANGED <<path, file, info, uid, info_map, locks>>

(* set_shared_part(File&&) with a file that the caller has opened: it      *)
(* becomes the LockInfo's, or is closed.                                   *)
set_shared_part_file(i) ==
    /\ Settled(i)
    /\ free_lock_info(i)
    /\ \E f \in Files : /\ Opened(f)
                        /\ path' = f
                        /\ given' = [given EXCEPT ![i] = f]
    /\ pc' = [pc EXCEPT ![i] = "named"]
    /\ UNCHANGED uid

share_file(i) ==
    /\ Goes(i, "named", "rest")
    /\ s_mutex_free(i)
    /\ given[i] # None
    /\ given' = [given EXCEPT ![i] = None]
    /\ uid' = [uid EXCEPT ![i] = given[i]]
    /\ LET known == info_map[Home[i]][given[i]] IN
         \/ /\ known # None
            /\ info' = [info EXCEPT ![i] = IF Expired(known) THEN None ELSE known]
            /\ UNCHANGED <<file, info_map>>
         \/ /\ known = None
            /\ \E l \in LockInfos :
                 /\ Expired(l)
                 /\ file' = [file EXCEPT ![l] = given[i]]
                 /\ info' = [info EXCEPT ![i] = l]
                 /\ info_map' = [info_map EXCEPT ![Home[i]] = [@ EXCEPT ![given[i]] = l]]
    /\ UNCHANGED <<path, locks>>

(* release_shared_part(): the caller ensures that no other instance is     *)
(* bound.  It removes the file if it was bound to by name.                 *)
InUse(i) == \E j \in Instances \ {i} : \/ given[j] # None
                                       \/ info[j] # None /\ pc[j] \notin {"failed", "releasing"}

release_shared_part(i) ==
    /\ Goes(i, "rest", "releasing")
    /\ ~InUse(i)
    /\ path' \in {path, None}
    /\ UNCHANGED <<file, info, uid, given, info_map, locks>>

released(i) ==
    /\ Goes(i, "releasing", "unbound")
    /\ free_lock_info(i)
    /\ UNCHANGED <<path, uid, given>>

destroy(i) ==
    /\ Settled(i)
    /\ free_lock_info(i)
    /\ pc' = [pc EXCEPT ![i] = "unbound"]
    /\ uid' = [uid EXCEPT ![i] = None]
    /\ UNCHANGED <<path, given>>

-----------------------------------------------------------------------------
(* lock(), try_lock(), unlock().  A file lock excludes other processes: of *)
(* locks within one, on distinct File instances, the code asks nothing.    *)

Obtainable(i) == \A l \in locked \cap Foreign(i) : file[l] # file[info[i]]

lock(i) == Goes(i, "rest", "waiting") /\ UNCHANGED <<fs, locks>>

local_lock(i) ==
    /\ Goes(i, "waiting", "local")
    /\ local[info[i]] = Nobody
    /\ local' = [local EXCEPT ![info[i]] = i]
    /\ UNCHANGED <<fs, locked>>

file_lock(i) ==
    /\ Goes(i, "local", "inside")
    /\ Obtainable(i)
    /\ locked' = locked \cup {info[i]}
    /\ UNCHANGED <<fs, local>>

lock_throws(i) ==
    /\ Goes(i, "local", "rest")
    /\ local' = [local EXCEPT ![info[i]] = Nobody]
    /\ UNCHANGED <<fs, locked>>

try_lock(i) ==
    /\ Goes(i, "rest", "trying")
    /\ local[info[i]] = Nobody
    /\ local' = [local EXCEPT ![info[i]] = i]
    /\ UNCHANGED <<fs, locked>>

try_succeeds(i) ==
    /\ Goes(i, "trying", "inside")
    /\ Obtainable(i)
    /\ locked' = locked \cup {info[i]}
    /\ UNCHANGED <<fs, local>>

(* File::try_lock() returns false, or throws, which it may do at any time. *)
try_fails(i) ==
    /\ Goes(i, "trying", "rest")
    /\ local' = [local EXCEPT ![info[i]] = Nobody]
    /\ UNCHANGED <<fs, locked>>

unlock(i) ==
    /\ Goes(i, "inside", "unlocking")
    /\ locked' = locked \ {info[i]}
    /\ UNCHANGED <<fs, local>>

local_unlock(i) ==
    /\ Goes(i, "unlocking", "rest")
    /\ local' = [local EXCEPT ![info[i]] = Nobody]
    /\ UNCHANGED <<fs, locked>>

(* A process dies: its files are closed, its memory is gone, and another   *)
(* process may come in its place.                                          *)
die(p) ==
    LET dead == {i \in Instances : Home[i] = p}
        gone == {info[i] : i \in dead} IN
    /\ \E i \in dead : pc[i] # "unbound"
    /\ info_map' = [info_map EXCEPT ![p] = [f \in Files |-> None]]
    /\ file' = [l \in LockInfos |-> IF l \in gone THEN None ELSE file[l]]
    /\ local' = [l \in LockInfos |-> IF l \in gone THEN Nobody ELSE local[l]]
    /\ locked' = locked \ gone
    /\ info' = [i \in Instances |-> IF i \in dead THEN None ELSE info[i]]
    /\ uid' = [i \in Instances |-> IF i \in dead THEN None ELSE uid[i]]
    /\ given' = [i \in Instances |-> IF i \in dead THEN None ELSE given[i]]
    /\ pc' = [i \in Instances |-> IF i \in dead THEN "unbound" ELSE pc[i]]
    /\ UNCHANGED path

-----------------------------------------------------------------------------
Binding(i) == \/ set_shared_part(i) \/ find_shared(i) \/ find_nothing(i) \/ open(i)
              \/ open_throws(i) \/ get_unique_id_throws(i)
              \/ set_shared_part_file(i) \/ share_file(i)
              \/ release_shared_part(i) \/ released(i) \/ destroy(i)

Locking(i) == \/ lock(i) \/ local_lock(i) \/ file_lock(i) \/ lock_throws(i)
              \/ try_lock(i) \/ try_succeeds(i) \/ try_fails(i)
              \/ unlock(i) \/ local_unlock(i)

Next == \/ \E i \in Instances : Binding(i) \/ Locking(i)
        \/ \E p \in Processes : die(p)

(* Calls go on when they can; who has the mutex unlocks it or dies; a lock *)
(* on a file is not refused for ever to somebody who can have it.          *)
Fairness == \A i \in Instances :
              /\ WF_vars(local_lock(i))
              /\ SF_vars(file_lock(i) \/ try_succeeds(i))
              /\ WF_vars(try_succeeds(i) \/ try_fails(i))
              /\ WF_vars(unlock(i))
              /\ WF_vars(local_unlock(i))

Spec == Init /\ [][Next]_vars /\ Fairness

-----------------------------------------------------------------------------
(* Type correctness. *)
TypeOK == /\ path \in Files \cup {None}
          /\ info_map \in [Processes -> [Files -> LockInfos \cup {None}]]
          /\ file \in [LockInfos -> Files \cup {None}]
          /\ local \in [LockInfos -> Instances \cup {Nobody}]
          /\ locked \subseteq LockInfos
          /\ info \in [Instances -> LockInfos \cup {None}]
          /\ uid \in [Instances -> Files \cup {None}]
          /\ given \in [Instances -> Files \cup {None}]
          /\ pc \in [Instances -> PC]

(* All instances that a process has bound to a file share the one LockInfo *)
(* in the map (interprocess_mutex.hpp:149-151), whose weak pointers never  *)
(* expire: whoever is bound has a LockInfo, with a file open, and it is    *)
(* the file that has the name, unless the instance is about to let go.     *)
Bound(i) == pc[i] \in {"rest", "releasing", "waiting", "local", "trying", "inside", "unlocking"}

LockInfoShared ==
    /\ \A i \in Instances :
         Bound(i) => /\ info[i] # None
                     /\ file[info[i]] # None
                     /\ info_map[Home[i]][file[info[i]]] = info[i]
                     /\ path # file[info[i]] => At(i, "releasing")
    /\ \A p \in Processes, f \in Files :
         info_map[p][f] # None => \E i \in Instances : /\ Home[i] = p
                                                       /\ info[i] = info_map[p][f]

(* One instance at a time has the mutex, whatever processes die and        *)
(* whatever files are removed; who dies gives it up, and nobody is told.   *)
Inside == {i \in Instances : At(i, "inside")}
Holder == IF Inside = {} THEN Nobody ELSE CHOOSE i \in Inside : TRUE
Lock == INSTANCE CrashLock WITH Clients <- Instances, inside <- Holder, health <- "sound"
ImplementsCrashLock == Lock!Spec

(* As long as a call waits, somebody gets the mutex, over and over: what a *)
(* process that has died, or a call that has failed, held is not in the    *)
(* way.                                                                    *)
Waiting(i)     == pc[i] \in {"waiting", "local"}
SomebodyGetsIn == \A i \in Instances : []<>(Inside # {} \/ ~Waiting(i))
=============================================================================
