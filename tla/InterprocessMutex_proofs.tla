---------------------- MODULE InterprocessMutex_proofs ----------------------
(***************************************************************************)
(* Mutual exclusion by the emulated InterprocessMutex.  All who can be in  *)
(* lock() are bound to the file that has the name.  Those of one process   *)
(* find their LockInfo in the map, under that file: it is one and the same *)
(* and its local mutex excludes them from each other.  Those of different  *)
(* processes are excluded by the lock on the file.                         *)
(***************************************************************************)
EXTENDS InterprocessMutex, TLAPS

Holding == {"local", "trying", "inside", "unlocking"}
Stays   == {"rest", "waiting"} \cup Holding

(* Whoever is bound has a LockInfo, in the map, for the file with the name.*)
Bindings ==
    /\ \A i \in Instances :
         Bound(i) => /\ info[i] \in LockInfos
                     /\ file[info[i]] \in Files
                     /\ uid[i] = file[info[i]]
                     /\ info_map[Home[i]][uid[i]] = info[i]
    /\ \A i \in Instances : pc[i] \in Stays => path = file[info[i]]

(* LockInfos are not shared between processes; those who are not bound     *)
(* have none, or one that was never entered.                               *)
Owners ==
    /\ \A i, j \in Instances : info[i] # None /\ info[i] = info[j] => Home[i] = Home[j]
    /\ \A i \in Instances : info[i] # None => Bound(i) \/ pc[i] = "failed"
    /\ \A i \in Instances : pc[i] = "failed" =>
         /\ info[i] \in LockInfos
         /\ \A j \in Instances \ {i} : info[j] # info[i]

(* An entry of the map is the LockInfo of somebody who is bound.           *)
Entries ==
    \A p \in Processes, f \in Files :
      info_map[p][f] # None =>
        \E i \in Instances : Home[i] = p /\ Bound(i) /\ info[i] = info_map[p][f] /\ uid[i] = f

(* While a file is being opened nobody else of the process enters one.     *)
Opening ==
    \A i \in Instances : pc[i] = "opening" =>
      /\ path # None => info_map[Home[i]][path] = None
      /\ \A j \in Here(i) : pc[j] = "opening" => j = i

Handed == \A i \in Instances : given[i] # None => pc[i] = "named" /\ given[i] = path

(* The local mutex belongs to somebody between local_lock() and the end of *)
(* unlock(), the lock on the file to somebody inside.                      *)
Holders ==
    /\ \A i \in Instances : pc[i] \in Holding => local[info[i]] = i
    /\ \A l \in LockInfos : l \in locked <=> \E i \in Instances : pc[i] = "inside" /\ info[i] = l

(* Memory that nobody owns is as new. *)
Unowned == \A l \in LockInfos : Expired(l) => file[l] = None /\ local[l] = Nobody

Alone == \A i, j \in Instances : pc[i] = "inside" /\ pc[j] = "inside" => i = j

IInv == /\ TypeOK /\ Bindings /\ Owners /\ Entries
        /\ Opening /\ Handed /\ Holders /\ Unowned /\ Alone

-----------------------------------------------------------------------------
LEMMA InitIInv == Init => IInv
BY HomeAssumption, NoneAssumption
DEF Init, IInv, TypeOK, PC, Bindings, Bound, Stays, Holding, Owners, Entries, Opening, Handed,
    Holders, Unowned, Expired, Alone

(* What a step of lock(), try_lock() or unlock() leaves alone. *)
LEMMA LockingKeeps ==
    ASSUME IInv, NEW i \in Instances, NEW to \in Stays, pc[i] \in Stays,
           pc' = [pc EXCEPT ![i] = to], UNCHANGED fs
    PROVE  /\ \A j \in Instances : pc'[j] = IF j = i THEN to ELSE pc[j]
           /\ pc' \in [Instances -> PC]
           /\ Bindings' /\ Owners' /\ Entries' /\ Opening' /\ Handed'
<1>1. /\ \A j \in Instances : pc'[j] = IF j = i THEN to ELSE pc[j]
      /\ pc' \in [Instances -> PC]
  BY DEF IInv, TypeOK, Stays, Holding, PC
<1>2. \A j \in Instances : /\ Bound(j)' <=> Bound(j)
                           /\ pc'[j] \in Stays <=> pc[j] \in Stays
                           /\ \A place \in {"failed", "opening", "named"} :
                                pc'[j] = place <=> pc[j] = place
  BY <1>1 DEF Bound, Stays, Holding
<1>3. Bindings' BY <1>2 DEF IInv, Bindings, fs
<1>4. Owners' BY <1>2 DEF IInv, Owners, fs
<1>5. Entries' BY <1>2 DEF IInv, Entries, fs
<1>6. Opening' BY <1>2 DEF IInv, Opening, fs, Here
<1>7. Handed' BY <1>2 DEF IInv, Handed, fs
<1> QED BY <1>1, <1>3, <1>4, <1>5, <1>6, <1>7

(* The two owners of a LockInfo in one process, and the two LockInfos of   *)
(* those who are bound in it.                                              *)
LEMMA OneLockInfo ==
    ASSUME IInv, NEW i \in Instances, NEW j \in Instances, Home[i] = Home[j],
           pc[i] \in Stays, pc[j] \in Stays
    PROVE  info[i] = info[j]
<1>1. Bound(i) /\ Bound(j) BY DEF Bound, Stays, Holding
<1>2. uid[i] = path /\ uid[j] = path BY <1>1 DEF IInv, Bindings
<1> QED BY <1>1, <1>2 DEF IInv, Bindings

(* Taking, or giving back, the local mutex that one may. *)
LEMMA LocalStep ==
    ASSUME IInv, NEW i \in Instances, NEW to \in Stays, pc[i] \in Stays,
           pc' = [pc EXCEPT ![i] = to], UNCHANGED <<fs, locked>>,
           pc[i] # "inside", to # "inside",
           \/ local[info[i]] = Nobody /\ to \in Holding /\ local' = [local EXCEPT ![info[i]] = i]
           \/ pc[i] \in Holding /\ to \notin Holding /\ local' = [local EXCEPT ![info[i]] = Nobody]
           \/ pc[i] \notin Holding /\ to \notin Holding /\ UNCHANGED local
    PROVE  IInv'
<1>1. /\ \A j \in Instances : pc'[j] = IF j = i THEN to ELSE pc[j]
      /\ pc' \in [Instances -> PC]
      /\ Bindings' /\ Owners' /\ Entries' /\ Opening' /\ Handed'
      /\ UNCHANGED fs
  BY LockingKeeps
<1>2. Bound(i) BY DEF Bound, Stays, Holding
<1>3. info[i] \in LockInfos BY <1>2 DEF IInv, Bindings
<1>4. \A l \in LockInfos : local'[l] = local[l] \/ l = info[i]
  BY <1>3 DEF IInv, TypeOK
<1>5. TypeOK' BY <1>1, <1>3 DEF IInv, TypeOK, fs
<1>6. Holders'
  <2>1. ASSUME NEW j \in Instances, pc'[j] \in Holding PROVE local'[info'[j]] = j
    <3>1. CASE j = i BY <1>1, <1>3, <2>1, <3>1 DEF IInv, TypeOK, fs
    <3>2. CASE j # i
      <4>1. pc[j] \in Holding BY <1>1, <2>1, <3>2
      <4>2. local[info[j]] = j BY <4>1 DEF IInv, Holders
      <4>3. info[j] \in LockInfos BY <4>1 DEF IInv, Bindings, Bound, Holding
      <4>4. pc[i] \in Holding => local[info[i]] = i BY DEF IInv, Holders
      <4>5. info[j] = info[i] => UNCHANGED local
        BY <3>2, <4>2, <4>4, NoneAssumption
      <4> QED BY <1>1, <1>4, <4>2, <4>3, <4>5 DEF fs
    <3> QED BY <3>1, <3>2
  <2>2. \A j \in Instances : pc'[j] = "inside" <=> pc[j] = "inside" BY <1>1
  <2> QED BY <1>1, <2>1, <2>2 DEF IInv, Holders, fs
<1>7. Unowned' BY <1>1, <1>3, <1>4 DEF IInv, Unowned, Expired, fs
<1>8. Alone' BY <1>1 DEF IInv, Alone
<1> QED BY <1>1, <1>5, <1>6, <1>7, <1>8 DEF IInv

(* Who gets the lock on the file is alone: nobody of another process can   *)
(* have it, and nobody of this process has the local mutex.                *)
LEMMA EnterIInv ==
    ASSUME IInv, NEW i \in Instances, pc[i] \in {"local", "trying"}, Obtainable(i),
           pc' = [pc EXCEPT ![i] = "inside"], locked' = locked \cup {info[i]},
           UNCHANGED <<fs, local>>
    PROVE  IInv' /\ \A j \in Instances : pc[j] # "inside"
<1>1. /\ \A j \in Instances : pc'[j] = IF j = i THEN "inside" ELSE pc[j]
      /\ pc' \in [Instances -> PC]
      /\ Bindings' /\ Owners' /\ Entries' /\ Opening' /\ Handed'
      /\ UNCHANGED fs
  BY LockingKeeps DEF Stays, Holding
<1>2. info[i] \in LockInfos BY DEF IInv, Bindings, Bound
<1>3. \A j \in Instances : pc[j] # "inside"
  <2> SUFFICES ASSUME NEW j \in Instances, pc[j] = "inside" PROVE FALSE OBVIOUS
  <2>1. i # j OBVIOUS
  <2>2. pc[i] \in Stays /\ pc[j] \in Stays /\ pc[i] \in Holding /\ pc[j] \in Holding
    BY DEF Stays, Holding
  <2>3. CASE Home[i] = Home[j]
    <3>1. info[i] = info[j] BY <2>2, <2>3, OneLockInfo
    <3> QED BY <2>1, <2>2, <3>1 DEF IInv, Holders
  <2>4. CASE Home[i] # Home[j]
    <3>1. info[j] \in locked BY DEF IInv, Holders, Bindings, Bound
    <3>2. info[j] \in Foreign(i) BY <2>4 DEF Foreign, Here
    <3>3. file[info[i]] = file[info[j]] BY <2>2 DEF IInv, Bindings
    <3> QED BY <3>1, <3>2, <3>3 DEF Obtainable
  <2> QED BY <2>3, <2>4
<1>4. TypeOK' BY <1>1, <1>2 DEF IInv, TypeOK, fs
<1>5. Holders'
  <2>1. \A j \in Instances : pc'[j] \in Holding => pc[j] \in Holding BY <1>1 DEF Holding
  <2>2. \A j \in Instances : pc'[j] \in Holding => local'[info'[j]] = j
    BY <1>1, <2>1 DEF IInv, Holders, fs
  <2>3. \A l \in LockInfos : l \in locked' <=> l = info[i]
    BY <1>3 DEF IInv, Holders
  <2> QED BY <1>1, <1>3, <2>2, <2>3 DEF Holders, fs
<1>6. Unowned' BY <1>1 DEF IInv, Unowned, Expired, fs
<1>7. Alone' BY <1>1, <1>3 DEF Alone
<1> QED BY <1>1, <1>3, <1>4, <1>5, <1>6, <1>7 DEF IInv

(* Who was alone inside leaves nobody there. *)
LEMMA UnlockIInv ==
    ASSUME IInv, NEW i \in Instances, unlock(i)
    PROVE  IInv'
<1>1. /\ \A j \in Instances : pc'[j] = IF j = i THEN "unlocking" ELSE pc[j]
      /\ pc' \in [Instances -> PC]
      /\ Bindings' /\ Owners' /\ Entries' /\ Opening' /\ Handed'
      /\ UNCHANGED fs
  BY LockingKeeps DEF Stays, Holding, unlock, Goes
<1>2. pc[i] = "inside" /\ locked' = locked \ {info[i]} /\ UNCHANGED local BY DEF unlock, Goes
<1>3. TypeOK' BY <1>1, <1>2 DEF IInv, TypeOK, fs
<1>4. Holders'
  <2>1. \A j \in Instances : pc'[j] \in Holding => pc[j] \in Holding BY <1>1, <1>2 DEF Holding
  <2>2. \A j \in Instances : pc'[j] # "inside" BY <1>1, <1>2 DEF IInv, Alone
  <2>3. \A l \in LockInfos : l \notin locked' BY <1>2 DEF IInv, Holders, Alone
  <2> QED BY <1>1, <1>2, <2>1, <2>2, <2>3 DEF IInv, Holders, fs
<1>5. Unowned' BY <1>1, <1>2 DEF IInv, Unowned, Expired, fs
<1>6. Alone' BY <1>1, <1>2 DEF IInv, Alone
<1> QED BY <1>1, <1>3, <1>4, <1>5, <1>6 DEF IInv

LEMMA LockingIInv == ASSUME IInv, NEW i \in Instances, Locking(i) PROVE IInv'
<1>1. ASSUME lock(i) PROVE IInv' BY <1>1, LocalStep DEF lock, Goes, Stays, Holding, locks
<1>2. ASSUME local_lock(i) PROVE IInv' BY <1>2, LocalStep DEF local_lock, Goes, Stays, Holding
<1>3. ASSUME file_lock(i) PROVE IInv' BY <1>3, EnterIInv DEF file_lock, Goes
<1>4. ASSUME lock_throws(i) PROVE IInv' BY <1>4, LocalStep DEF lock_throws, Goes, Stays, Holding
<1>5. ASSUME try_lock(i) PROVE IInv' BY <1>5, LocalStep DEF try_lock, Goes, Stays, Holding
<1>6. ASSUME try_succeeds(i) PROVE IInv' BY <1>6, EnterIInv DEF try_succeeds, Goes
<1>7. ASSUME try_fails(i) PROVE IInv' BY <1>7, LocalStep DEF try_fails, Goes, Stays, Holding
<1>8. ASSUME unlock(i) PROVE IInv' BY <1>8, UnlockIInv
<1>9. ASSUME local_unlock(i) PROVE IInv' BY <1>9, LocalStep DEF local_unlock, Goes, Stays, Holding
<1> QED BY <1>1, <1>2, <1>3, <1>4, <1>5, <1>6, <1>7, <1>8, <1>9 DEF Locking

-----------------------------------------------------------------------------
(* What free_lock_info() does to others: nothing.  Entries that stay are   *)
(* those of somebody else who is bound.                                    *)
LEMMA FreeKeeps ==
    ASSUME IInv, NEW i \in Instances, pc[i] \in {"unbound", "failed", "rest", "releasing"},
           free_lock_info(i)
    PROVE  /\ \A j \in Instances : info'[j] = IF j = i THEN None ELSE info[j]
           /\ \A l \in LockInfos :
                IF l = info[i] /\ \A j \in Instances \ {i} : info[j] # l
                  THEN file'[l] = None /\ local'[l] = Nobody
                  ELSE file'[l] = file[l] /\ local'[l] = local[l]
           /\ \A j \in Instances \ {i} : Bound(j) => info_map'[Home[j]][uid[j]] = info[j]
           /\ \A p \in Processes, f \in Files :
                info_map'[p][f] # None =>
                  /\ info_map'[p][f] = info_map[p][f]
                  /\ \E j \in Instances \ {i} : /\ Home[j] = p /\ Bound(j)
                                                /\ info[j] = info_map[p][f] /\ uid[j] = f
           /\ locked' = locked
           /\ info' \in [Instances -> LockInfos \cup {None}]
           /\ file' \in [LockInfos -> Files \cup {None}]
           /\ local' \in [LockInfos -> Instances \cup {Nobody}]
           /\ info_map' \in [Processes -> [Files -> LockInfos \cup {None}]]
<1>1. info' = [info EXCEPT ![i] = None] BY DEF free_lock_info
<1>2. \A j \in Instances : info'[j] = IF j = i THEN None ELSE info[j]
  BY <1>1 DEF IInv, TypeOK
<1>3. info' \in [Instances -> LockInfos \cup {None}] BY <1>1 DEF IInv, TypeOK
<1>4. \A l \in LockInfos :
        IF l = info[i] /\ \A j \in Instances \ {i} : info[j] # l
          THEN file'[l] = None /\ local'[l] = Nobody
          ELSE file'[l] = file[l] /\ local'[l] = local[l]
  BY DEF free_lock_info
<1>5. /\ file' \in [LockInfos -> Files \cup {None}]
      /\ local' \in [LockInfos -> Instances \cup {Nobody}]
  BY DEF free_lock_info, IInv, TypeOK
<1>6. locked' = locked
  <2>1. CASE info[i] \in locked
    <3>1. info[i] \in LockInfos BY <2>1 DEF IInv, TypeOK
    <3>2. PICK j \in Instances : pc[j] = "inside" /\ info[j] = info[i]
      BY <2>1, <3>1 DEF IInv, Holders
    <3> QED BY <3>2 DEF free_lock_info
  <2>2. CASE info[i] \notin locked BY <2>2 DEF free_lock_info
  <2> QED BY <2>1, <2>2
<1>7. info_map' \in [Processes -> [Files -> LockInfos \cup {None}]]
  <2> DEFINE row == [f \in Files |-> IF Dangling(i, f) THEN None ELSE info_map[Home[i]][f]]
  <2>1. info_map \in [Processes -> [Files -> LockInfos \cup {None}]] BY DEF IInv, TypeOK
  <2>2. Home[i] \in Processes BY HomeAssumption
  <2>3. row \in [Files -> LockInfos \cup {None}] BY <2>1, <2>2
  <2>4. info_map' = info_map \/ info_map' = [info_map EXCEPT ![Home[i]] = row]
    BY <2>1, <2>2 DEF free_lock_info
  <2> HIDE DEF row
  <2> QED BY <2>1, <2>2, <2>3, <2>4
<1>8. \A p \in Processes, f \in Files :
        info_map'[p][f] = IF info[i] # None /\ p = Home[i] /\ Dangling(i, f)
                            THEN None ELSE info_map[p][f]
  BY HomeAssumption DEF free_lock_info, IInv, TypeOK
<1>9. ASSUME NEW j \in Instances \ {i}, Bound(j)
      PROVE  info_map'[Home[j]][uid[j]] = info[j]
  <2>1. uid[j] \in Files /\ Home[j] \in Processes /\ info_map[Home[j]][uid[j]] = info[j]
    BY <1>9, HomeAssumption DEF IInv, Bindings
  <2>2. Home[j] = Home[i] => ~Dangling(i, uid[j]) BY <2>1 DEF Dangling
  <2> QED BY <1>8, <2>1, <2>2
<1>10. ASSUME NEW p \in Processes, NEW f \in Files, info_map'[p][f] # None
       PROVE  /\ info_map'[p][f] = info_map[p][f]
              /\ \E j \in Instances \ {i} : /\ Home[j] = p /\ Bound(j)
                                            /\ info[j] = info_map[p][f] /\ uid[j] = f
  <2>1. info_map'[p][f] = info_map[p][f] BY <1>8, <1>10
  <2>2. PICK k \in Instances : Home[k] = p /\ Bound(k) /\ info[k] = info_map[p][f] /\ uid[k] = f
    BY <1>10, <2>1 DEF IInv, Entries
  <2>3. CASE k # i BY <2>1, <2>2, <2>3
  <2>4. CASE k = i
    <3>1. info[i] # None BY <2>2, <2>4, NoneAssumption DEF IInv, Bindings
    <3>2. ~Dangling(i, f) BY <1>8, <1>10, <2>2, <2>4, <3>1
    <3>3. PICK j \in Instances \ {i} : info[j] = info[i]
      BY <2>2, <2>4, <3>2 DEF Dangling
    <3>4. Bound(j) /\ Home[j] = Home[i]
      BY <3>1, <3>3 DEF IInv, Owners
    <3>5. uid[j] = uid[i] BY <2>2, <2>4, <3>3, <3>4 DEF IInv, Bindings
    <3> QED BY <2>1, <2>2, <2>4, <3>3, <3>4, <3>5
  <2> QED BY <2>3, <2>4
<1> QED BY <1>2, <1>3, <1>4, <1>5, <1>6, <1>7, <1>9, <1>10

(* A file that is opened is the one with the name, or one that nobody has  *)
(* open and for which there is no entry in any map.                        *)
LEMMA FreshFile ==
    ASSUME IInv, NEW f \in Files, Opened(f), path # f
    PROVE  /\ path = None
           /\ \A j \in Instances : pc[j] \notin Stays /\ given[j] = None
           /\ \A j \in Instances : Bound(j) => uid[j] # f
           /\ \A p \in Processes : info_map[p][f] = None
<1>1. path = None /\ \A l \in LockInfos : file[l] # f BY DEF Opened
<1>2. ASSUME NEW j \in Instances PROVE pc[j] \notin Stays /\ given[j] = None
  <2>1. pc[j] \in Stays => Bound(j) BY DEF Bound, Stays, Holding
  <2> QED BY <1>1, <2>1, NoneAssumption DEF IInv, Bindings, Handed
<1>3. \A j \in Instances : Bound(j) => uid[j] # f BY <1>1 DEF IInv, Bindings
<1>4. ASSUME NEW p \in Processes, info_map[p][f] # None PROVE FALSE
  <2>1. PICK j \in Instances : Bound(j) /\ uid[j] = f BY <1>4 DEF IInv, Entries
  <2> QED BY <1>3, <2>1
<1> QED BY <1>1, <1>2, <1>3, <1>4

(* Freeing, and what comes after it. *)
LEMMA FreeIInv ==
    ASSUME IInv, NEW i \in Instances, pc[i] \in {"unbound", "failed", "rest", "releasing"},
           free_lock_info(i), NEW to \in {"unbound", "named"}, pc' = [pc EXCEPT ![i] = to],
           \/ uid' = uid
           \/ uid' = [uid EXCEPT ![i] = None],
           \/ path' = path /\ given' = given
           \/ \E f \in Files : /\ to = "named" /\ Opened(f) /\ path' = f
                               /\ given' = [given EXCEPT ![i] = f]
    PROVE  IInv'
<1>1. /\ \A j \in Instances : info'[j] = IF j = i THEN None ELSE info[j]
      /\ \A l \in LockInfos :
           IF l = info[i] /\ \A j \in Instances \ {i} : info[j] # l
             THEN file'[l] = None /\ local'[l] = Nobody
             ELSE file'[l] = file[l] /\ local'[l] = local[l]
      /\ \A j \in Instances \ {i} : Bound(j) => info_map'[Home[j]][uid[j]] = info[j]
      /\ \A p \in Processes, f \in Files :
           info_map'[p][f] # None =>
             /\ info_map'[p][f] = info_map[p][f]
             /\ \E j \in Instances \ {i} : /\ Home[j] = p /\ Bound(j)
                                           /\ info[j] = info_map[p][f] /\ uid[j] = f
      /\ locked' = locked
      /\ info' \in [Instances -> LockInfos \cup {None}]
      /\ file' \in [LockInfos -> Files \cup {None}]
      /\ local' \in [LockInfos -> Instances \cup {Nobody}]
      /\ info_map' \in [Processes -> [Files -> LockInfos \cup {None}]]
  BY FreeKeeps
<1>2. /\ \A j \in Instances : pc'[j] = IF j = i THEN to ELSE pc[j]
      /\ pc' \in [Instances -> PC]
  BY DEF IInv, TypeOK, PC
<1>3. \A j \in Instances \ {i} : uid'[j] = uid[j] BY DEF IInv, TypeOK
<1>4. TypeOK'
  <2>1. /\ path \in Files \cup {None} /\ locked \subseteq LockInfos
        /\ uid \in [Instances -> Files \cup {None}]
        /\ given \in [Instances -> Files \cup {None}]
    BY DEF IInv, TypeOK
  <2>2. uid' \in [Instances -> Files \cup {None}] BY <2>1
  <2>3. path' \in Files \cup {None} /\ given' \in [Instances -> Files \cup {None}] BY <2>1
  <2> QED BY <1>1, <1>2, <2>1, <2>2, <2>3 DEF TypeOK
<1>5. \A j \in Instances : Bound(j)' <=> j # i /\ Bound(j) BY <1>2 DEF Bound
<1>6. \A j \in Instances : pc'[j] \in Stays <=> j # i /\ pc[j] \in Stays
  BY <1>2 DEF Stays, Holding
<1>7. \/ path' = path /\ given' = given
      \/ /\ to = "named" /\ path' \in Files
         /\ given' = [given EXCEPT ![i] = path']
         /\ path' # path => /\ path = None
                            /\ \A j \in Instances : pc[j] \notin Stays /\ given[j] = None
                            /\ \A p \in Processes : info_map[p][path'] = None
  BY FreshFile
<1>8. Bindings'
  <2>1. ASSUME NEW j \in Instances \ {i}, Bound(j)
        PROVE  /\ info'[j] = info[j] /\ info[j] \in LockInfos /\ uid'[j] = uid[j]
               /\ file'[info[j]] = file[info[j]]
    BY <1>1, <1>3, <2>1 DEF IInv, Bindings
  <2>2. \A j \in Instances \ {i} : pc[j] \in Stays => Bound(j) /\ path' = path
    BY <1>7 DEF Bound, Stays, Holding
  <2>3. ASSUME NEW j \in Instances \ {i}, Bound(j)
        PROVE  /\ info'[j] \in LockInfos /\ file'[info'[j]] \in Files
               /\ uid'[j] = file'[info'[j]] /\ info_map'[Home[j]][uid'[j]] = info'[j]
    <3>1. file[info[j]] \in Files /\ uid[j] = file[info[j]] BY <2>3 DEF IInv, Bindings
    <3>2. info_map'[Home[j]][uid[j]] = info[j] BY <1>1, <2>3
    <3> QED BY <2>1, <2>3, <3>1, <3>2
  <2>4. ASSUME NEW j \in Instances \ {i}, pc[j] \in Stays
        PROVE  path' = file'[info'[j]]
    <3>1. Bound(j) /\ path' = path BY <2>2, <2>4
    <3>2. path = file[info[j]] BY <2>4 DEF IInv, Bindings
    <3> QED BY <2>1, <3>1, <3>2
  <2> QED BY <1>5, <1>6, <2>3, <2>4 DEF Bindings
<1>9. Owners' BY <1>1, <1>2, <1>5, NoneAssumption DEF IInv, Owners
<1>10. Entries' BY <1>1, <1>3, <1>5 DEF Entries
<1>11. Opening'
  <2>1. ASSUME NEW j \in Instances, pc'[j] = "opening", path' # None
        PROVE  info_map'[Home[j]][path'] = None
    <3>1. pc[j] = "opening" /\ Home[j] \in Processes BY <1>2, <2>1, HomeAssumption
    <3>2. path' \in Files BY <2>1, <1>4 DEF TypeOK
    <3>3. info_map[Home[j]][path'] = None BY <1>7, <2>1, <3>1 DEF IInv, Opening
    <3> QED BY <1>1, <3>1, <3>2, <3>3
  <2> QED BY <1>2, <2>1 DEF IInv, Opening, Here
<1>12. Handed'
  <2>1. CASE path' = path /\ given' = given
    BY <1>2, <2>1, NoneAssumption DEF IInv, Handed
  <2>2. CASE ~(path' = path /\ given' = given)
    BY <1>2, <1>7, <2>2 DEF IInv, Handed, TypeOK
  <2> QED BY <2>1, <2>2
<1>13. Holders'
  <2>1. ASSUME NEW j \in Instances, pc'[j] \in Holding PROVE local'[info'[j]] = j
    <3>1. j # i /\ pc[j] \in Holding BY <1>2, <2>1 DEF Holding
    <3>2. info[j] \in LockInfos BY <3>1 DEF IInv, Bindings, Bound, Holding
    <3> QED BY <1>1, <3>1, <3>2 DEF IInv, Holders
  <2>2. \A j \in Instances : pc'[j] = "inside" <=> pc[j] = "inside" /\ j # i BY <1>2
  <2> QED BY <1>1, <2>1, <2>2 DEF IInv, Holders
<1>14. Unowned' BY <1>1 DEF IInv, Unowned, Expired
<1>15. Alone' BY <1>2 DEF IInv, Alone
<1> QED BY <1>4, <1>8, <1>9, <1>10, <1>11, <1>12, <1>13, <1>14, <1>15 DEF IInv

LEMMA FindSharedIInv == ASSUME IInv, NEW i \in Instances, find_shared(i) PROVE IInv'
<1> DEFINE l == info_map[Home[i]][path]
<1>1. /\ pc[i] = "named" /\ given[i] = None /\ path # None /\ l # None
      /\ info' = [info EXCEPT ![i] = IF Expired(l) THEN None ELSE l]
      /\ uid' = [uid EXCEPT ![i] = path]
      /\ pc' = [pc EXCEPT ![i] = "rest"]
      /\ UNCHANGED <<path, file, given, info_map, locks>>
  BY DEF find_shared, Goes
<1>2. path \in Files /\ Home[i] \in Processes BY <1>1, HomeAssumption DEF IInv, TypeOK
<1>3. PICK k \in Instances : Home[k] = Home[i] /\ Bound(k) /\ info[k] = l /\ uid[k] = path
  BY <1>1, <1>2 DEF IInv, Entries
<1>4. l \in LockInfos /\ file[l] = path BY <1>3 DEF IInv, Bindings
<1>5. ~Expired(l) BY <1>3 DEF Expired
<1> HIDE DEF l
<1>6. /\ \A j \in Instances : /\ info'[j] = IF j = i THEN l ELSE info[j]
                              /\ uid'[j] = IF j = i THEN path ELSE uid[j]
                              /\ pc'[j] = IF j = i THEN "rest" ELSE pc[j]
      /\ TypeOK'
  BY <1>1, <1>2, <1>4, <1>5 DEF IInv, TypeOK, PC, locks
<1>7. \A j \in Instances : Bound(j)' <=> j = i \/ Bound(j) BY <1>6 DEF Bound
<1>8. Bindings'
  <2>1. info_map[Home[i]][path] = l BY DEF l
  <2>2. \A j \in Instances : pc'[j] \in Stays <=> j = i \/ pc[j] \in Stays
    BY <1>6 DEF Stays, Holding
  <2> QED BY <1>1, <1>2, <1>4, <1>6, <1>7, <2>1, <2>2 DEF IInv, Bindings
<1>9. Owners'
  <2>1. \A j \in Instances : info[j] = l => Home[j] = Home[i]
    BY <1>3, <1>4, NoneAssumption DEF IInv, Owners
  <2>2. \A j \in Instances : pc[j] = "failed" => info[j] # l
    BY <1>3 DEF IInv, Owners, Bound
  <2> QED BY <1>1, <1>6, <1>7, <2>1, <2>2 DEF IInv, Owners
<1>10. Entries'
  <2>1. ~Bound(i) BY <1>1 DEF Bound
  <2> QED BY <1>1, <1>6, <1>7, <2>1 DEF IInv, Entries
<1>11. Opening' BY <1>1, <1>6 DEF IInv, Opening, Here
<1>12. Handed' BY <1>1, <1>6 DEF IInv, Handed
<1>13. Holders' BY <1>1, <1>6 DEF IInv, Holders, Holding, locks
<1>14. Unowned'
  <2>1. info[i] = None BY <1>1 DEF IInv, Owners, Bound
  <2> QED BY <1>1, <1>6, <2>1, NoneAssumption DEF IInv, Unowned, Expired, locks
<1>15. Alone' BY <1>6 DEF IInv, Alone
<1> QED BY <1>6, <1>8, <1>9, <1>10, <1>11, <1>12, <1>13, <1>14, <1>15 DEF IInv

LEMMA FindNothingIInv == ASSUME IInv, NEW i \in Instances, find_nothing(i) PROVE IInv'
<1>1. /\ pc[i] = "named" /\ given[i] = None /\ s_mutex_free(i)
      /\ path # None => info_map[Home[i]][path] = None
      /\ uid' = uid \/ (path # None /\ uid' = [uid EXCEPT ![i] = path])
      /\ pc' = [pc EXCEPT ![i] = "opening"]
      /\ UNCHANGED <<path, file, info, given, info_map, local, locked>>
  BY DEF find_nothing, Goes, locks
<1>2. /\ \A j \in Instances : /\ j # i => uid'[j] = uid[j]
                              /\ pc'[j] = IF j = i THEN "opening" ELSE pc[j]
      /\ TypeOK'
  BY <1>1 DEF IInv, TypeOK, PC
<1>3. \A j \in Instances : Bound(j)' <=> j # i /\ Bound(j) BY <1>1, <1>2 DEF Bound
<1>4. \A j \in Instances : pc'[j] \in Stays <=> j # i /\ pc[j] \in Stays
  BY <1>1, <1>2 DEF Stays, Holding
<1>5. ~Bound(i) /\ info[i] = None BY <1>1 DEF IInv, Owners, Bound
<1>6. Bindings' BY <1>1, <1>2, <1>3, <1>4 DEF IInv, Bindings
<1>7. Owners' BY <1>1, <1>2, <1>3, <1>5 DEF IInv, Owners
<1>8. Entries' BY <1>1, <1>2, <1>3, <1>5 DEF IInv, Entries
<1>9. Opening'
  <2>1. \A j \in Here(i) : pc[j] # "opening" BY <1>1 DEF s_mutex_free, At
  <2> QED BY <1>1, <1>2, <2>1 DEF IInv, Opening, Here
<1>10. Handed' BY <1>1, <1>2 DEF IInv, Handed
<1>11. Holders' BY <1>1, <1>2 DEF IInv, Holders, Holding
<1>12. Unowned' BY <1>1 DEF IInv, Unowned, Expired
<1>13. Alone' BY <1>2 DEF IInv, Alone
<1> QED BY <1>2, <1>6, <1>7, <1>8, <1>9, <1>10, <1>11, <1>12, <1>13 DEF IInv

(* A new LockInfo is entered: by open(), or by share_file(). *)
LEMMA NewLockInfoIInv ==
    ASSUME IInv, NEW i \in Instances, pc[i] \in {"opening", "named"},
           NEW f \in Files, NEW l \in LockInfos, Opened(f), Expired(l),
           info_map[Home[i]][f] = None,
           path' = f, pc' = [pc EXCEPT ![i] = "rest"],
           file' = [file EXCEPT ![l] = f],
           info' = [info EXCEPT ![i] = l],
           uid' = [uid EXCEPT ![i] = f],
           info_map' = [info_map EXCEPT ![Home[i]] = [@ EXCEPT ![f] = l]],
           given' = [given EXCEPT ![i] = None],
           pc[i] = "opening" \/ \A j \in Here(i) : pc[j] # "opening",
           UNCHANGED <<local, locked>>
    PROVE  IInv'
<1>1. Home[i] \in Processes /\ l # None BY HomeAssumption, NoneAssumption
<1>2. /\ \A j \in Instances : /\ info'[j] = IF j = i THEN l ELSE info[j]
                              /\ uid'[j] = IF j = i THEN f ELSE uid[j]
                              /\ pc'[j] = IF j = i THEN "rest" ELSE pc[j]
                              /\ given'[j] = IF j = i THEN None ELSE given[j]
      /\ \A m \in LockInfos : file'[m] = IF m = l THEN f ELSE file[m]
      /\ \A p \in Processes, g \in Files :
           info_map'[p][g] = IF p = Home[i] /\ g = f THEN l ELSE info_map[p][g]
  BY <1>1 DEF IInv, TypeOK
<1>3. TypeOK' BY <1>1, <1>2 DEF IInv, TypeOK, PC
<1>4. \A j \in Instances : Bound(j)' <=> j = i \/ Bound(j) BY <1>2 DEF Bound
<1>5. ~Bound(i) /\ info[i] = None /\ \A j \in Instances : info[j] # l
  BY DEF IInv, Owners, Bound, Expired
<1>6. \/ path = f
      \/ /\ path = None
         /\ \A j \in Instances : pc[j] \notin Stays /\ given[j] = None
         /\ \A p \in Processes : info_map[p][f] = None
  BY FreshFile
<1>7. Bindings'
  <2>1. \A j \in Instances : pc'[j] \in Stays => j = i \/ pc[j] \in Stays
    BY <1>2 DEF Stays, Holding
  <2>2. ASSUME NEW j \in Instances \ {i}, Bound(j)
        PROVE  /\ info'[j] = info[j] /\ info[j] \in LockInfos /\ uid'[j] = uid[j]
               /\ file'[info[j]] = file[info[j]]
               /\ info_map'[Home[j]][uid[j]] = info[j]
    <3>1. /\ info[j] \in LockInfos /\ uid[j] \in Files /\ Home[j] \in Processes
          /\ info_map[Home[j]][uid[j]] = info[j] /\ info[j] # None
      BY <2>2, HomeAssumption, NoneAssumption DEF IInv, Bindings
    <3>2. ~(Home[j] = Home[i] /\ uid[j] = f) BY <3>1
    <3> QED BY <1>2, <1>5, <3>1, <3>2
  <2>3. \A j \in Instances : pc[j] \in Stays => Bound(j) BY DEF Bound, Stays, Holding
  <2>4. /\ info'[i] = l /\ file'[l] = f /\ uid'[i] = f /\ info_map'[Home[i]][f] = l
    BY <1>1, <1>2
  <2>5. ASSUME NEW j \in Instances, Bound(j)'
        PROVE  /\ info'[j] \in LockInfos /\ file'[info'[j]] \in Files
               /\ uid'[j] = file'[info'[j]] /\ info_map'[Home[j]][uid'[j]] = info'[j]
    <3>1. CASE j = i BY <2>4, <3>1
    <3>2. CASE j # i
      <4>1. Bound(j) BY <1>4, <2>5, <3>2
      <4>2. uid[j] = file[info[j]] /\ uid[j] \in Files BY <4>1 DEF IInv, Bindings
      <4> QED BY <2>2, <3>2, <4>1, <4>2
    <3> QED BY <3>1, <3>2
  <2>6. ASSUME NEW j \in Instances, pc'[j] \in Stays
        PROVE  path' = file'[info'[j]]
    <3>1. CASE j = i BY <2>4, <3>1
    <3>2. CASE j # i
      <4>1. pc[j] \in Stays BY <2>1, <2>6, <3>2
      <4>2. Bound(j) /\ path = f BY <1>6, <2>3, <4>1
      <4>3. path = file[info[j]] BY <4>1 DEF IInv, Bindings
      <4> QED BY <2>2, <3>2, <4>2, <4>3
    <3> QED BY <3>1, <3>2
  <2> QED BY <2>5, <2>6 DEF Bindings
<1>8. Owners' BY <1>2, <1>4, <1>5 DEF IInv, Owners
<1>9. Entries'
  <2> SUFFICES ASSUME NEW p \in Processes, NEW g \in Files, info_map'[p][g] # None
               PROVE  \E j \in Instances : /\ Home[j] = p /\ Bound(j)'
                                           /\ info'[j] = info_map'[p][g] /\ uid'[j] = g
    BY DEF Entries
  <2>1. CASE p = Home[i] /\ g = f BY <1>2, <1>4, <2>1
  <2>2. CASE ~(p = Home[i] /\ g = f)
    <3>1. info_map'[p][g] = info_map[p][g] BY <1>2, <2>2
    <3>2. PICK j \in Instances : Home[j] = p /\ Bound(j) /\ info[j] = info_map[p][g] /\ uid[j] = g
      BY <3>1 DEF IInv, Entries
    <3> QED BY <1>2, <1>4, <1>5, <3>1, <3>2
  <2> QED BY <2>1, <2>2
<1>10. Opening'
  <2>1. ASSUME NEW j \in Instances, pc'[j] = "opening"
        PROVE  info_map'[Home[j]][f] = None
    <3>1. j # i /\ pc[j] = "opening" /\ Home[j] \in Processes BY <1>2, <2>1, HomeAssumption
    <3>2. Home[j] # Home[i] BY <3>1 DEF IInv, Opening, Here
    <3>3. info_map[Home[j]][f] = None
      BY <1>6, <3>1, NoneAssumption DEF IInv, Opening
    <3> QED BY <1>2, <3>1, <3>2, <3>3
  <2> QED BY <1>2, <2>1 DEF IInv, Opening, Here
<1>11. Handed' BY <1>2, <1>6 DEF IInv, Handed
<1>12. Holders'
  <2>1. l \notin locked BY <1>5 DEF IInv, Holders
  <2> QED BY <1>2, <1>5, <2>1 DEF IInv, Holders, Holding
<1>13. Unowned' BY <1>2, <1>5, NoneAssumption DEF IInv, Unowned, Expired
<1>14. Alone' BY <1>2 DEF IInv, Alone
<1> QED BY <1>3, <1>7, <1>8, <1>9, <1>10, <1>11, <1>12, <1>13, <1>14 DEF IInv

LEMMA OpenIInv == ASSUME IInv, NEW i \in Instances, open(i) PROVE IInv'
<1>1. PICK f \in Files, l \in LockInfos :
        /\ Opened(f) /\ Expired(l)
        /\ path' = f
        /\ file' = [file EXCEPT ![l] = f]
        /\ info' = [info EXCEPT ![i] = l]
        /\ uid' = [uid EXCEPT ![i] = f]
        /\ info_map' = [info_map EXCEPT ![Home[i]] = [@ EXCEPT ![f] = l]]
  BY DEF open
<1>2. pc[i] = "opening" /\ pc' = [pc EXCEPT ![i] = "rest"] /\ UNCHANGED <<given, local, locked>>
  BY DEF open, Goes, locks
<1>3. given' = [given EXCEPT ![i] = None] BY <1>2 DEF IInv, Handed, TypeOK
<1>4. info_map[Home[i]][f] = None
  <2>1. CASE path = f BY <1>2, <2>1, NoneAssumption DEF IInv, Opening
  <2>2. CASE path # f BY <1>1, <2>2, FreshFile, HomeAssumption
  <2> QED BY <2>1, <2>2
<1> QED BY <1>1, <1>2, <1>3, <1>4, NewLockInfoIInv

(* The file handed over is not known: it gets a LockInfo; or it is known,  *)
(* and then shared as if it had been found by name.                        *)
LEMMA ShareFileIInv == ASSUME IInv, NEW i \in Instances, share_file(i) PROVE IInv'
<1> DEFINE known == info_map[Home[i]][given[i]]
<1>1. /\ pc[i] = "named" /\ given[i] # None /\ s_mutex_free(i)
      /\ pc' = [pc EXCEPT ![i] = "rest"]
      /\ given' = [given EXCEPT ![i] = None]
      /\ uid' = [uid EXCEPT ![i] = given[i]]
      /\ UNCHANGED <<path, local, locked>>
  BY DEF share_file, Goes, locks
<1>2. given[i] = path /\ path \in Files /\ Home[i] \in Processes
  BY <1>1, HomeAssumption DEF IInv, Handed, TypeOK
<1>3. CASE known = None
  <2>1. PICK l \in LockInfos :
          /\ Expired(l)
          /\ file' = [file EXCEPT ![l] = path]
          /\ info' = [info EXCEPT ![i] = l]
          /\ info_map' = [info_map EXCEPT ![Home[i]] = [@ EXCEPT ![path] = l]]
    BY <1>2, <1>3 DEF share_file
  <2>2. Opened(path) BY <1>2, NoneAssumption DEF Opened
  <2>3. \A j \in Here(i) : pc[j] # "opening" BY <1>1 DEF s_mutex_free, At
  <2>4. path' = path BY <1>1
  <2> QED BY <1>1, <1>2, <1>3, <2>1, <2>2, <2>3, <2>4, NewLockInfoIInv
<1>4. CASE known # None
  <2>1. PICK k \in Instances : Home[k] = Home[i] /\ Bound(k) /\ info[k] = known /\ uid[k] = path
    BY <1>2, <1>4 DEF IInv, Entries
  <2>2. known \in LockInfos /\ file[known] = path BY <2>1 DEF IInv, Bindings
  <2>3. ~Expired(known) BY <2>1 DEF Expired
  <2>4. info' = [info EXCEPT ![i] = known] /\ UNCHANGED <<file, info_map>>
    BY <1>4, <2>3 DEF share_file
  <2>5. info_map[Home[i]][path] = known BY <1>2
  <2> HIDE DEF known
  <2>6. /\ \A j \in Instances : /\ info'[j] = IF j = i THEN known ELSE info[j]
                                /\ uid'[j] = IF j = i THEN path ELSE uid[j]
                                /\ pc'[j] = IF j = i THEN "rest" ELSE pc[j]
                                /\ given'[j] = IF j = i THEN None ELSE given[j]
        /\ TypeOK'
    BY <1>1, <1>2, <2>2, <2>4 DEF IInv, TypeOK, PC
  <2>7. \A j \in Instances : Bound(j)' <=> j = i \/ Bound(j) BY <2>6 DEF Bound
  <2>8. Bindings'
    <3>1. \A j \in Instances : pc'[j] \in Stays <=> j = i \/ pc[j] \in Stays
      BY <2>6 DEF Stays, Holding
    <3> QED BY <1>1, <1>2, <2>2, <2>4, <2>5, <2>6, <2>7, <3>1 DEF IInv, Bindings
  <2>9. Owners'
    <3>1. \A j \in Instances : info[j] = known => Home[j] = Home[i]
      BY <2>1, <2>2, NoneAssumption DEF IInv, Owners
    <3>2. \A j \in Instances : pc[j] = "failed" => info[j] # known
      BY <2>1 DEF IInv, Owners, Bound
    <3> QED BY <2>6, <2>7, <3>1, <3>2 DEF IInv, Owners
  <2>10. Entries'
    <3>1. ~Bound(i) BY <1>1 DEF Bound
    <3> QED BY <2>4, <2>6, <2>7, <3>1 DEF IInv, Entries
  <2>11. Opening' BY <1>1, <2>4, <2>6 DEF IInv, Opening, Here
  <2>12. Handed' BY <1>1, <2>6 DEF IInv, Handed
  <2>13. Holders' BY <1>1, <2>6 DEF IInv, Holders, Holding
  <2>14. Unowned'
    <3>1. info[i] = None BY <1>1 DEF IInv, Owners, Bound
    <3> QED BY <1>1, <2>4, <2>6, <3>1, NoneAssumption DEF IInv, Unowned, Expired
  <2>15. Alone' BY <2>6 DEF IInv, Alone
  <2> QED BY <2>6, <2>8, <2>9, <2>10, <2>11, <2>12, <2>13, <2>14, <2>15 DEF IInv
<1> QED BY <1>3, <1>4

(* A call of open() that fails leaves a LockInfo that is in no map. *)
LEMMA OpenThrowsIInv == ASSUME IInv, NEW i \in Instances, open_throws(i) PROVE IInv'
<1>1. PICK l \in LockInfos :
        /\ Expired(l)
        /\ info' = [info EXCEPT ![i] = l]
        /\ \/ UNCHANGED <<path, file>>
           \/ \E f \in Files : /\ Opened(f)
                               /\ path' = f
                               /\ file' = [file EXCEPT ![l] = f]
  BY DEF open_throws
<1>2. /\ pc[i] = "opening" /\ pc' = [pc EXCEPT ![i] = "failed"]
      /\ UNCHANGED <<uid, given, info_map, local, locked>>
  BY DEF open_throws, Goes, locks
<1>3. /\ \A j \in Instances : /\ info'[j] = IF j = i THEN l ELSE info[j]
                              /\ pc'[j] = IF j = i THEN "failed" ELSE pc[j]
      /\ \A m \in LockInfos \ {l} : file'[m] = file[m]
      /\ TypeOK'
  BY <1>1, <1>2 DEF IInv, TypeOK, PC
<1>4. \A j \in Instances : Bound(j)' <=> Bound(j) BY <1>2, <1>3 DEF Bound
<1>5. ~Bound(i) /\ info[i] = None /\ \A j \in Instances : info[j] # l
  BY <1>1, <1>2 DEF IInv, Owners, Bound, Expired
<1>6. \/ path' = path
      \/ /\ path = None /\ path' \in Files
         /\ \A j \in Instances : pc[j] \notin Stays /\ given[j] = None
         /\ \A p \in Processes : info_map[p][path'] = None
  BY <1>1, FreshFile
<1>7. Bindings'
  <2>1. \A j \in Instances : pc'[j] \in Stays <=> pc[j] \in Stays
    BY <1>2, <1>3 DEF Stays, Holding
  <2>2. ASSUME NEW j \in Instances, Bound(j)
        PROVE  info'[j] = info[j] /\ info[j] \in LockInfos /\ file'[info[j]] = file[info[j]]
    BY <1>3, <1>5, <2>2 DEF IInv, Bindings
  <2>3. \A j \in Instances : pc[j] \in Stays => Bound(j) BY DEF Bound, Stays, Holding
  <2> QED BY <1>2, <1>4, <1>6, <2>1, <2>2, <2>3 DEF IInv, Bindings
<1>8. Owners' BY <1>3, <1>4, <1>5 DEF IInv, Owners
<1>9. Entries'
  <2>1. \A j \in Instances : Bound(j) => j # i BY <1>5
  <2> QED BY <1>2, <1>3, <1>4, <2>1 DEF IInv, Entries
<1>10. Opening'
  <2>1. ASSUME NEW j \in Instances, pc'[j] = "opening", path' # None
        PROVE  info_map'[Home[j]][path'] = None
    <3>1. pc[j] = "opening" /\ Home[j] \in Processes BY <1>3, <2>1, HomeAssumption
    <3> QED BY <1>2, <1>6, <2>1, <3>1 DEF IInv, Opening
  <2> QED BY <1>3, <2>1 DEF IInv, Opening, Here
<1>11. Handed' BY <1>2, <1>3, <1>6 DEF IInv, Handed
<1>12. Holders'
  <2>1. l \notin locked BY <1>1, <1>5 DEF IInv, Holders
  <2> QED BY <1>2, <1>3, <1>5, <2>1 DEF IInv, Holders, Holding
<1>13. Unowned' BY <1>2, <1>3, <1>5, NoneAssumption DEF IInv, Unowned, Expired
<1>14. Alone' BY <1>3 DEF IInv, Alone
<1> QED BY <1>3, <1>7, <1>8, <1>9, <1>10, <1>11, <1>12, <1>13, <1>14 DEF IInv

(* Where no file can be told apart from others, nothing is bound. *)
LEMMA GetUniqueIdThrowsIInv ==
    ASSUME IInv, NEW i \in Instances, get_unique_id_throws(i) PROVE IInv'
<1>1. /\ pc[i] = "named" /\ pc' = [pc EXCEPT ![i] = "unbound"]
      /\ given' = [given EXCEPT ![i] = None]
      /\ UNCHANGED <<path, file, info, uid, info_map, local, locked>>
  BY DEF get_unique_id_throws, Goes, locks
<1>2. /\ \A j \in Instances : /\ pc'[j] = IF j = i THEN "unbound" ELSE pc[j]
                              /\ given'[j] = IF j = i THEN None ELSE given[j]
      /\ TypeOK'
  BY <1>1 DEF IInv, TypeOK, PC
<1>3. \A j \in Instances : Bound(j)' <=> Bound(j) BY <1>1, <1>2 DEF Bound
<1>4. \A j \in Instances : pc'[j] \in Stays <=> pc[j] \in Stays
  BY <1>1, <1>2 DEF Stays, Holding
<1>5. Bindings' BY <1>1, <1>3, <1>4 DEF IInv, Bindings
<1>6. Owners' BY <1>1, <1>2, <1>3 DEF IInv, Owners
<1>7. Entries' BY <1>1, <1>3 DEF IInv, Entries
<1>8. Opening' BY <1>1, <1>2 DEF IInv, Opening, Here
<1>9. Handed' BY <1>1, <1>2 DEF IInv, Handed
<1>10. Holders' BY <1>1, <1>2 DEF IInv, Holders, Holding
<1>11. Unowned' BY <1>1 DEF IInv, Unowned, Expired
<1>12. Alone' BY <1>2 DEF IInv, Alone
<1> QED BY <1>2, <1>5, <1>6, <1>7, <1>8, <1>9, <1>10, <1>11, <1>12 DEF IInv

(* The file loses its name when nobody else is bound to it. *)
LEMMA ReleaseIInv == ASSUME IInv, NEW i \in Instances, release_shared_part(i) PROVE IInv'
<1>1. /\ pc[i] = "rest" /\ pc' = [pc EXCEPT ![i] = "releasing"] /\ ~InUse(i)
      /\ path' \in {path, None}
      /\ UNCHANGED <<file, info, uid, given, info_map, local, locked>>
  BY DEF release_shared_part, Goes, locks
<1>2. /\ \A j \in Instances : pc'[j] = IF j = i THEN "releasing" ELSE pc[j]
      /\ TypeOK'
  BY <1>1 DEF IInv, TypeOK, PC
<1>3. \A j \in Instances : Bound(j)' <=> Bound(j) BY <1>1, <1>2 DEF Bound
<1>4. ASSUME NEW j \in Instances PROVE pc'[j] \notin Stays /\ given[j] = None
  <2>1. CASE j = i BY <1>1, <1>2, <2>1 DEF IInv, Handed, Stays, Holding
  <2>2. CASE j # i
    <3>1. given[j] = None /\ (info[j] = None \/ pc[j] \in {"failed", "releasing"})
      BY <1>1, <2>2 DEF InUse
    <3>2. pc[j] \in Stays => info[j] # None
      BY NoneAssumption DEF IInv, Bindings, Bound, Stays, Holding
    <3> QED BY <1>2, <2>2, <3>1, <3>2 DEF Stays, Holding
  <2> QED BY <2>1, <2>2
<1>5. Bindings' BY <1>1, <1>3, <1>4 DEF IInv, Bindings
<1>6. Owners' BY <1>1, <1>2, <1>3 DEF IInv, Owners
<1>7. Entries' BY <1>1, <1>3 DEF IInv, Entries
<1>8. Opening' BY <1>1, <1>2 DEF IInv, Opening, Here
<1>9. Handed' BY <1>1, <1>4 DEF Handed
<1>10. Holders' BY <1>1, <1>2 DEF IInv, Holders, Holding
<1>11. Unowned' BY <1>1 DEF IInv, Unowned, Expired
<1>12. Alone' BY <1>2 DEF IInv, Alone
<1> QED BY <1>2, <1>5, <1>6, <1>7, <1>8, <1>9, <1>10, <1>11, <1>12 DEF IInv

(* LockInfos of a process that dies are nobody else's. *)
LEMMA DieIInv == ASSUME IInv, NEW p \in Processes, die(p) PROVE IInv'
<1> DEFINE dead == {i \in Instances : Home[i] = p}
           gone == {info[i] : i \in dead}
<1>1. /\ info_map' = [info_map EXCEPT ![p] = [f \in Files |-> None]]
      /\ file' = [l \in LockInfos |-> IF l \in gone THEN None ELSE file[l]]
      /\ local' = [l \in LockInfos |-> IF l \in gone THEN Nobody ELSE local[l]]
      /\ locked' = locked \ gone
      /\ info' = [i \in Instances |-> IF i \in dead THEN None ELSE info[i]]
      /\ uid' = [i \in Instances |-> IF i \in dead THEN None ELSE uid[i]]
      /\ given' = [i \in Instances |-> IF i \in dead THEN None ELSE given[i]]
      /\ pc' = [i \in Instances |-> IF i \in dead THEN "unbound" ELSE pc[i]]
      /\ path' = path
  BY DEF die
<1>2. TypeOK' BY <1>1 DEF IInv, TypeOK, PC
<1>3. \A i \in Instances \ dead : info[i] # None => info[i] \notin gone
  BY DEF IInv, Owners
<1>4. \A i \in Instances : i \in dead <=> Home[i] = p OBVIOUS
<1>5. \A l \in gone : \E i \in dead : l = info[i] OBVIOUS
<1>6. \A i \in dead : info[i] \in gone OBVIOUS
<1> HIDE DEF dead, gone
<1>7. \A i \in Instances : IF Home[i] = p
        THEN info'[i] = None /\ given'[i] = None /\ pc'[i] = "unbound"
        ELSE info'[i] = info[i] /\ given'[i] = given[i] /\ pc'[i] = pc[i] /\ uid'[i] = uid[i]
  BY <1>1, <1>4
<1>8. \A i \in Instances : Bound(i)' <=> Home[i] # p /\ Bound(i) BY <1>7 DEF Bound
<1>9. \A q \in Processes, f \in Files : info_map'[q][f] = IF q = p THEN None ELSE info_map[q][f]
  BY <1>1 DEF IInv, TypeOK
<1>10. \A l \in LockInfos : l \notin gone => file'[l] = file[l] /\ local'[l] = local[l]
  BY <1>1
<1>11. ASSUME NEW i \in Instances, Home[i] # p, Bound(i)
       PROVE  /\ info[i] \in LockInfos /\ info[i] \notin gone
              /\ info_map'[Home[i]][uid[i]] = info_map[Home[i]][uid[i]]
  <2>1. info[i] \in LockInfos /\ uid[i] \in Files /\ Home[i] \in Processes
    BY <1>11, HomeAssumption DEF IInv, Bindings
  <2> QED BY <1>3, <1>4, <1>9, <1>11, <2>1, NoneAssumption
<1>12. Bindings'
  <2>1. \A i \in Instances : pc'[i] \in Stays <=> Home[i] # p /\ pc[i] \in Stays
    BY <1>7 DEF Stays, Holding
  <2>2. \A i \in Instances : pc[i] \in Stays => Bound(i) BY DEF Bound, Stays, Holding
  <2> QED BY <1>1, <1>7, <1>8, <1>10, <1>11, <2>1, <2>2 DEF IInv, Bindings
<1>13. Owners' BY <1>7, <1>8, NoneAssumption DEF IInv, Owners
<1>14. Entries' BY <1>7, <1>8, <1>9 DEF IInv, Entries
<1>15. Opening'
  <2>1. ASSUME NEW i \in Instances, pc'[i] = "opening", path' # None
        PROVE  info_map'[Home[i]][path'] = None
    <3>1. Home[i] # p /\ pc[i] = "opening" /\ Home[i] \in Processes BY <1>7, <2>1, HomeAssumption
    <3>2. path' = path /\ path' \in Files BY <1>1, <1>2, <2>1 DEF TypeOK
    <3> QED BY <1>9, <2>1, <3>1, <3>2 DEF IInv, Opening
  <2> QED BY <1>7, <2>1 DEF IInv, Opening, Here
<1>16. Handed' BY <1>1, <1>7 DEF IInv, Handed
<1>17. Holders'
  <2>1. ASSUME NEW i \in Instances, pc'[i] \in Holding PROVE local'[info'[i]] = i
    <3>1. Home[i] # p /\ pc[i] \in Holding /\ info'[i] = info[i]
      BY <1>7, <2>1 DEF Holding
    <3>2. Bound(i) BY <3>1 DEF Bound, Holding
    <3> QED BY <1>10, <1>11, <3>1, <3>2 DEF IInv, Holders
  <2>2. ASSUME NEW l \in LockInfos, l \in locked'
        PROVE  \E i \in Instances : pc'[i] = "inside" /\ info'[i] = l
    <3>1. l \in locked /\ l \notin gone BY <1>1, <2>2
    <3>2. PICK i \in Instances : pc[i] = "inside" /\ info[i] = l BY <3>1 DEF IInv, Holders
    <3> QED BY <1>4, <1>6, <1>7, <3>1, <3>2
  <2>3. ASSUME NEW i \in Instances, pc'[i] = "inside", info'[i] \in LockInfos
        PROVE  info'[i] \in locked'
    <3>1. Home[i] # p /\ pc[i] = "inside" /\ info'[i] = info[i] BY <1>7, <2>3
    <3>2. info[i] \notin gone BY <1>11, <3>1 DEF Bound
    <3> QED BY <1>1, <2>3, <3>1, <3>2 DEF IInv, Holders
  <2> QED BY <2>1, <2>2, <2>3 DEF Holders
<1>18. Unowned'
  <2> SUFFICES ASSUME NEW l \in LockInfos, \A i \in Instances : info'[i] # l
               PROVE  file'[l] = None /\ local'[l] = Nobody
    BY DEF Unowned, Expired
  <2>1. CASE l \in gone BY <1>1, <2>1
  <2>2. CASE l \notin gone
    <3>1. \A i \in Instances : info[i] # l BY <1>4, <1>6, <1>7, <2>2
    <3> QED BY <1>10, <2>2, <3>1 DEF IInv, Unowned, Expired
  <2> QED BY <2>1, <2>2
<1>19. Alone' BY <1>7 DEF IInv, Alone
<1> QED BY <1>2, <1>12, <1>13, <1>14, <1>15, <1>16, <1>17, <1>18, <1>19 DEF IInv

LEMMA BindingIInv == ASSUME IInv, NEW i \in Instances, Binding(i) PROVE IInv'
<1>1. ASSUME set_shared_part(i) PROVE IInv' BY <1>1, FreeIInv DEF set_shared_part, Settled
<1>2. ASSUME find_shared(i) PROVE IInv' BY <1>2, FindSharedIInv
<1>3. ASSUME find_nothing(i) PROVE IInv' BY <1>3, FindNothingIInv
<1>4. ASSUME open(i) PROVE IInv' BY <1>4, OpenIInv
<1>5. ASSUME open_throws(i) PROVE IInv' BY <1>5, OpenThrowsIInv
<1>6. ASSUME set_shared_part_file(i) PROVE IInv'
  BY <1>6, FreeIInv DEF set_shared_part_file, Settled
<1>7. ASSUME share_file(i) PROVE IInv' BY <1>7, ShareFileIInv
<1>8. ASSUME release_shared_part(i) PROVE IInv' BY <1>8, ReleaseIInv
<1>9. ASSUME released(i) PROVE IInv' BY <1>9, FreeIInv DEF released, Goes
<1>10. ASSUME destroy(i) PROVE IInv' BY <1>10, FreeIInv DEF destroy, Settled
<1>11. ASSUME get_unique_id_throws(i) PROVE IInv' BY <1>11, GetUniqueIdThrowsIInv
<1> QED BY <1>1, <1>2, <1>3, <1>4, <1>5, <1>6, <1>7, <1>8, <1>9, <1>10, <1>11 DEF Binding

LEMMA StutterIInv == IInv /\ UNCHANGED vars => IInv'
BY DEF vars, fs, locks, IInv, TypeOK, Bindings, Bound, Owners, Entries, Opening, Handed,
       Holders, Unowned, Expired, Alone

LEMMA NextIInv == IInv /\ [Next]_vars => IInv'
<1> SUFFICES ASSUME IInv, [Next]_vars PROVE IInv' OBVIOUS
<1>1. CASE UNCHANGED vars BY <1>1, StutterIInv
<1>2. ASSUME NEW i \in Instances, Binding(i) PROVE IInv' BY <1>2, BindingIInv
<1>3. ASSUME NEW i \in Instances, Locking(i) PROVE IInv' BY <1>3, LockingIInv
<1>4. ASSUME NEW p \in Processes, die(p) PROVE IInv' BY <1>4, DieIInv
<1> QED BY <1>1, <1>2, <1>3, <1>4 DEF Next

LEMMA Invariance == Spec => []IInv
BY InitIInv, NextIInv, PTL DEF Spec

(* Type correctness. *)
THEOREM TypeCorrect == Spec => []TypeOK
<1>1. IInv => TypeOK BY DEF IInv
<1> QED BY <1>1, Invariance, PTL

(* All that a process has bound to a file share one LockInfo, and nobody   *)
(* finds an expired one, for any number of processes and instances.        *)
THEOREM Shared == Spec => []LockInfoShared
<1>1. ASSUME IInv PROVE LockInfoShared
  <2>1. ASSUME NEW i \in Instances, Bound(i)
        PROVE  /\ info[i] # None
               /\ file[info[i]] # None
               /\ info_map[Home[i]][file[info[i]]] = info[i]
               /\ path # file[info[i]] => At(i, "releasing")
    <3>1. pc[i] \in Stays \/ pc[i] = "releasing" BY <2>1 DEF Bound, Stays, Holding
    <3> QED BY <1>1, <2>1, <3>1, NoneAssumption DEF IInv, Bindings, At
  <2>2. ASSUME NEW p \in Processes, NEW f \in Files, info_map[p][f] # None
        PROVE  \E i \in Instances : Home[i] = p /\ info[i] = info_map[p][f]
    BY <1>1, <2>2 DEF IInv, Entries
  <2> QED BY <2>1, <2>2 DEF LockInfoShared
<1> QED BY <1>1, Invariance, PTL

-----------------------------------------------------------------------------
(* Who is inside is the holder of the abstract lock. *)
LEMMA HolderIsInside ==
    ASSUME IInv, NEW i \in Instances
    PROVE  Holder = i <=> pc[i] = "inside"
<1>1. CASE Inside = {}
  BY <1>1, NoneAssumption DEF Holder, Inside, At
<1>2. CASE Inside # {}
  <2>1. Holder \in Inside BY <1>2 DEF Holder
  <2>2. Holder \in Instances /\ pc[Holder] = "inside" BY <2>1 DEF Inside, At
  <2> QED BY <2>2 DEF IInv, Alone
<1> QED BY <1>1, <1>2

LEMMA HolderRange == Holder \in Instances \cup {Nobody}
<1>1. CASE Inside = {} BY <1>1 DEF Holder
<1>2. CASE Inside # {}
  <2>1. Holder \in Inside BY <1>2 DEF Holder
  <2> QED BY <2>1 DEF Inside
<1> QED BY <1>1, <1>2

(* Going in is entering, coming out or dying is leaving, and all else is   *)
(* nothing to the lock.                                                    *)
LEMMA LockStep ==
    ASSUME IInv, IInv', [Next]_vars
    PROVE  [Lock!Next]_Lock!vars
<1>1. Holder \in Instances \cup {Nobody} /\ Holder' \in Instances \cup {Nobody}
  <2>1. CASE Inside' = {} BY <2>1, HolderRange DEF Holder
  <2>2. CASE Inside' # {}
    <3>1. Holder' \in Inside' BY <2>2 DEF Holder
    <3> QED BY <3>1, HolderRange DEF Inside
  <2> QED BY <2>1, <2>2
<1>2. \A i \in Instances : Holder = i <=> pc[i] = "inside" BY HolderIsInside
<1>3. \A i \in Instances : Holder' = i <=> pc'[i] = "inside"
  <2>1. CASE Inside' = {}
    BY <2>1, NoneAssumption DEF Holder, Inside, At
  <2>2. CASE Inside' # {}
    <3>1. Holder' \in Inside' BY <2>2 DEF Holder
    <3>2. Holder' \in Instances /\ pc'[Holder'] = "inside" BY <3>1 DEF Inside, At
    <3> QED BY <3>2 DEF IInv, Alone
  <2> QED BY <2>1, <2>2
<1>4. ASSUME \A i \in Instances : pc'[i] = "inside" <=> pc[i] = "inside"
      PROVE  Holder' = Holder
  BY <1>1, <1>2, <1>3, <1>4
<1>5. ASSUME NEW i \in Instances, pc'[i] = "inside", \A j \in Instances : pc[j] # "inside"
      PROVE  Lock!Next
  <2>1. Lock!Enter(i) BY <1>1, <1>2, <1>3, <1>5 DEF Lock!Enter
  <2> QED BY <2>1 DEF Lock!Next
<1>6. ASSUME NEW i \in Instances, pc[i] = "inside", \A j \in Instances : pc'[j] # "inside"
      PROVE  Lock!Next
  <2>1. Lock!Leave(i) BY <1>1, <1>2, <1>3, <1>6 DEF Lock!Leave
  <2> QED BY <2>1 DEF Lock!Next
<1>7. ASSUME NEW i \in Instances, NEW to, to # "inside", pc[i] # "inside",
             pc' = [pc EXCEPT ![i] = to]
      PROVE  Holder' = Holder
  <2>1. \A j \in Instances : pc'[j] = "inside" <=> pc[j] = "inside"
    BY <1>7 DEF IInv, TypeOK
  <2> QED BY <1>4, <2>1
<1>8. CASE UNCHANGED vars BY <1>4, <1>8 DEF vars, Lock!vars
<1>9. ASSUME NEW i \in Instances, Binding(i) PROVE Holder' = Holder
  BY <1>7, <1>9 DEF Binding, set_shared_part, Settled, find_shared, find_nothing, open, open_throws,
     get_unique_id_throws, set_shared_part_file, share_file, release_shared_part, released, destroy, Goes
<1>10. ASSUME NEW i \in Instances, Locking(i) PROVE Holder' = Holder \/ Lock!Next
  <2>1. CASE file_lock(i) \/ try_succeeds(i)
    <3>1. pc' = [pc EXCEPT ![i] = "inside"] BY <2>1 DEF file_lock, try_succeeds, Goes
    <3>2. pc'[i] = "inside" BY <3>1 DEF IInv, TypeOK
    <3>3. \A j \in Instances : pc[j] # "inside"
      BY <2>1, EnterIInv DEF file_lock, try_succeeds, Goes
    <3> QED BY <1>5, <3>2, <3>3
  <2>2. CASE unlock(i)
    <3>1. pc[i] = "inside" /\ pc' = [pc EXCEPT ![i] = "unlocking"] BY <2>2 DEF unlock, Goes
    <3>2. \A j \in Instances : pc'[j] # "inside" BY <3>1 DEF IInv, TypeOK, Alone
    <3> QED BY <1>6, <3>1, <3>2
  <2>3. CASE lock(i) \/ local_lock(i) \/ lock_throws(i) \/ try_lock(i) \/ try_fails(i) \/ local_unlock(i)
    BY <1>7, <2>3 DEF lock, local_lock, lock_throws, try_lock, try_fails, local_unlock, Goes
  <2> QED BY <1>10, <2>1, <2>2, <2>3 DEF Locking
<1>11. ASSUME NEW p \in Processes, die(p) PROVE Holder' = Holder \/ Lock!Next
  <2>1. \A i \in Instances : pc'[i] = IF Home[i] = p THEN "unbound" ELSE pc[i]
    BY <1>11 DEF die
  <2>2. CASE \A i \in Instances : pc[i] = "inside" => Home[i] # p BY <1>4, <2>1, <2>2
  <2>3. CASE \E i \in Instances : pc[i] = "inside" /\ Home[i] = p
    <3>1. PICK i \in Instances : pc[i] = "inside" /\ Home[i] = p BY <2>3
    <3>2. \A j \in Instances : pc'[j] # "inside" BY <2>1, <3>1 DEF IInv, Alone
    <3> QED BY <1>6, <3>1, <3>2
  <2> QED BY <2>2, <2>3
<1> QED BY <1>8, <1>9, <1>10, <1>11 DEF Next, Lock!vars

(* InterprocessMutex implements CrashLock, for any number of processes,    *)
(* instances and files: one at a time is inside, and deaths only let go.   *)
THEOREM MutualExclusion == Spec => ImplementsCrashLock
<1>1. Init => Lock!Init BY DEF Init, Lock!Init, Holder, Inside, At
<1> QED BY <1>1, Invariance, LockStep, PTL DEF Spec, ImplementsCrashLock, Lock!Spec
=============================================================================
