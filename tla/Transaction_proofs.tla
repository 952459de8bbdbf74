------------------------- MODULE Transaction_proofs -------------------------
(***************************************************************************)
(* Isolation, and the accounting of read locks and of the write mutex.     *)
(* What a transaction is bound to, or on its way to, it has locked, so     *)
(* that commits of others leave it alone; and who writes has the mutex, so *)
(* that the version it is bound to remains the latest.                     *)
(***************************************************************************)
EXTENDS Transaction, FiniteSetTheorems, TLAPS

(* Where a call is, in relation to what it has set up so far. *)
Advancing(t) == pc[t] \in {"viewing", "observing", "advancing"}
ReadingHistory(t) == pc[t] \in {"observing", "advancing"}

InCall(t) ==
    /\ pc[t] # "rest" => stage[t] = "Reading"
    /\ pc[t] \in {"waiting", "locked", "initiating", "catching"} => call[t] = "promote"

InOrder(t) ==
    /\ stage[t] = "Ready" <=> bound[t] = None
    /\ bound[t] <= latest
    /\ new[t] # None <=> Advancing(t)
    /\ Advancing(t) => bound[t] < new[t] /\ new[t] <= latest
    /\ Advancing(t) /\ call[t] = "promote" => new[t] = latest
    /\ ReadingHistory(t) => bound[t] <= begin[t] /\ begin[t] <= new[t]
    /\ stage[t] = "Writing" \/ At(t, "initiating") => bound[t] = latest

Accessors(t) ==
    /\ group[t] # None => group[t] = IF At(t, "advancing") THEN begin[t] ELSE bound[t]
    /\ \/ At(t, "initiating")
       \/ Idle(t, "Writing") /\ group[t] # None
       \/ ReadingHistory(t) /\ call[t] = "promote"
       => writable[t]

(* What is in use has been kept. *)
Kept ==
    /\ latest \in snapshots
    /\ \A v \in snapshots : v <= latest
    /\ \A t \in Transactions : /\ bound[t] # None => bound[t] \in snapshots
                               /\ new[t] # None => new[t] \in snapshots

Placed == \A t \in Transactions : InCall(t) /\ InOrder(t) /\ Accessors(t)

IInv == TypeOK /\ Placed /\ Kept /\ Accounted

-----------------------------------------------------------------------------
(* How many transactions a function takes to v, and how that changes.      *)
Count(f, v) == Cardinality({t \in Transactions : f[t] = v})
Delta(old, now, v) == (IF now = v THEN 1 ELSE 0) - (IF old = v THEN 1 ELSE 0)

(* A count is a number, and at least 1 if there is somebody to count. *)
LEMMA Counted ==
    ASSUME NEW f, NEW v
    PROVE  /\ IsFiniteSet({t \in Transactions : f[t] = v})
           /\ Count(f, v) \in Nat
           /\ \A t \in Transactions : f[t] = v => Count(f, v) >= 1
<1> DEFINE S == {t \in Transactions : f[t] = v}
<1>1. IsFiniteSet(S) BY FiniteAssumption, FS_Subset
<1>2. Cardinality(S) \in Nat BY <1>1, FS_CardinalityType
<1>3. Cardinality(S) = 0 <=> S = {} BY <1>1, FS_EmptySet
<1> QED BY <1>1, <1>2, <1>3 DEF Count

(* One transaction moves from one version to another. *)
LEMMA CountMoves ==
    ASSUME NEW f \in [Transactions -> Nat], NEW t \in Transactions, NEW now \in Nat, NEW v
    PROVE  Count([f EXCEPT ![t] = now], v) = Count(f, v) + Delta(f[t], now, v)
<1> DEFINE g == [f EXCEPT ![t] = now]
           F == {u \in Transactions : f[u] = v}
           G == {u \in Transactions : g[u] = v}
<1>1. IsFiniteSet(F) /\ Cardinality(F) \in Nat BY Counted DEF Count
<1>2. CASE now = v
  <2>1. G = F \cup {t} BY <1>2
  <2>2. Cardinality(G) = IF t \in F THEN Cardinality(F) ELSE Cardinality(F) + 1
    BY <1>1, <2>1, FS_AddElement
  <2> HIDE DEF F, G
  <2>3. t \in F <=> f[t] = v BY DEF F
  <2> QED BY <1>1, <1>2, <2>2, <2>3 DEF Count, Delta, F, G
<1>3. CASE now # v
  <2>1. G = F \ {t} BY <1>3
  <2>2. Cardinality(G) = IF t \in F THEN Cardinality(F) - 1 ELSE Cardinality(F)
    BY <1>1, <2>1, FS_RemoveElement
  <2> HIDE DEF F, G
  <2>3. t \in F <=> f[t] = v BY DEF F
  <2> QED BY <1>1, <1>3, <2>2, <2>3 DEF Count, Delta, F, G
<1> QED BY <1>2, <1>3

(* Locks that follow the versions of a transaction remain accounted for.   *)
LEMMA LocksFollow ==
    ASSUME IInv, NEW t \in Transactions, NEW b \in Nat, NEW n \in Nat,
           bound' = [bound EXCEPT ![t] = b], new' = [new EXCEPT ![t] = n],
           locks' \in [Versions -> Int],
           \A v \in Versions : locks'[v] = locks[v] + Delta(bound[t], b, v) + Delta(new[t], n, v)
    PROVE  ReadLocksAccounted' /\ locks' \in [Versions -> Nat]
<1> DEFINE V == Versions \cup {None}
<1>0. V \subseteq Nat BY VersionAssumption DEF Versions, None
<1>1. bound \in [Transactions -> Nat] /\ new \in [Transactions -> Nat]
  <2>1. bound \in [Transactions -> V] /\ new \in [Transactions -> V] BY DEF IInv, TypeOK
  <2> HIDE DEF V
  <2> QED BY <1>0, <2>1
<1>2. ASSUME NEW v \in Versions
      PROVE  locks'[v] = Count(bound', v) + Count(new', v) /\ locks'[v] \in Nat
  <2>1. locks[v] = Count(bound, v) + Count(new, v)
    BY DEF IInv, Accounted, ReadLocksAccounted, BoundTo, AdvancingTo, Count
  <2>2. /\ Count(bound, v) \in Nat /\ Count(new, v) \in Nat
        /\ Count(bound', v) \in Nat /\ Count(new', v) \in Nat
    BY Counted
  <2>3. Count(bound', v) = Count(bound, v) + Delta(bound[t], b, v) BY <1>1, CountMoves
  <2>4. Count(new', v) = Count(new, v) + Delta(new[t], n, v) BY <1>1, CountMoves
  <2>5. Delta(bound[t], b, v) \in Int /\ Delta(new[t], n, v) \in Int BY DEF Delta
  <2> QED BY <2>1, <2>2, <2>3, <2>4, <2>5
<1> QED BY <1>2 DEF ReadLocksAccounted, BoundTo, AdvancingTo, Count

(* What a transaction is bound to, or advances to, is locked. *)
LEMMA InUseLocked ==
    ASSUME IInv, NEW t \in Transactions
    PROVE  /\ bound[t] # None => bound[t] \in Versions /\ locks[bound[t]] > 0
           /\ new[t] # None => new[t] \in Versions /\ locks[new[t]] > 0
<1>1. \A v \in Versions : locks[v] = Count(bound, v) + Count(new, v)
  BY DEF IInv, Accounted, ReadLocksAccounted, BoundTo, AdvancingTo, Count
<1>2. bound[t] # None => bound[t] \in Versions BY DEF IInv, TypeOK
<1>3. new[t] # None => new[t] \in Versions BY DEF IInv, TypeOK
<1>4. ASSUME NEW v \in Versions, bound[t] = v \/ new[t] = v PROVE locks[v] > 0
  <2>1. Count(bound, v) \in Nat /\ (bound[t] = v => Count(bound, v) >= 1) BY Counted
  <2>2. Count(new, v) \in Nat /\ (new[t] = v => Count(new, v) >= 1) BY Counted
  <2> QED BY <1>1, <1>4, <2>1, <2>2
<1> QED BY <1>2, <1>3, <1>4

(* Initially nobody is bound, and nobody has the mutex. *)
LEMMA InitIInv == Init => IInv
<1> SUFFICES ASSUME Init PROVE IInv OBVIOUS
<1>1. TypeOK BY VersionAssumption DEF Init, TypeOK, Versions, None, PC
<1>2. Placed
  BY DEF Init, Placed, InCall, InOrder, Accessors, Advancing, ReadingHistory, At, Idle, None
<1>3. Kept BY DEF Init, Kept, None
<1>4. WriteMutexAccounted
  BY NobodyAssumption DEF Init, WriteMutexAccounted, holds_write_mutex, Promoting
<1>5. ReadLocksAccounted
  <2> SUFFICES ASSUME NEW v \in Versions
               PROVE  locks[v] = Cardinality(BoundTo(v)) + Cardinality(AdvancingTo(v))
    BY DEF ReadLocksAccounted
  <2>1. v # None BY VersionAssumption DEF Versions, None
  <2>2. BoundTo(v) = {} /\ AdvancingTo(v) = {} BY <2>1 DEF Init, BoundTo, AdvancingTo
  <2> QED BY <2>2, FS_EmptySet DEF Init
<1> QED BY <1>1, <1>2, <1>3, <1>4, <1>5 DEF IInv, Accounted

-----------------------------------------------------------------------------
(* Steps that leave versions and read locks alone. *)
LEMMA QuietStep ==
    ASSUME IInv, UNCHANGED <<db, locks, bound, new>>, TypeOK', Placed', WriteMutexAccounted'
    PROVE  IInv'
<1>1. Kept' BY DEF IInv, Kept, db
<1>2. ReadLocksAccounted' BY DEF IInv, Accounted, ReadLocksAccounted, BoundTo, AdvancingTo
<1> QED BY <1>1, <1>2 DEF IInv, Accounted

(* On the way to the write mutex, and out of promote_to_write(). *)
LEMMA PromoteIInv ==
    ASSUME IInv, NEW t \in Transactions
    PROVE  /\ promote_holding(t) \/ promote_waits(t) \/ do_try_begin_write(t) => IInv'
           /\ acquire_write_lock(t) => IInv'
           /\ promote_at_latest(t) \/ promote_throws(t) => IInv'
           /\ initiate_transact(t) \/ catch(t) => IInv'
<1> USE NobodyAssumption DEF At, Goes, Idle, Enters, db, own, pass
<1>1. CASE promote_holding(t) \/ promote_waits(t) \/ do_try_begin_write(t)
  <2>1. TypeOK' BY <1>1 DEF IInv, TypeOK, PC, promote_holding, promote_waits, do_try_begin_write
  <2>2. Placed'
    BY <1>1 DEF IInv, TypeOK, Placed, InCall, InOrder, Accessors, Advancing, ReadingHistory,
       promote_holding, promote_waits, do_try_begin_write
  <2>3. WriteMutexAccounted'
    BY <1>1 DEF IInv, TypeOK, Accounted, WriteMutexAccounted, Promoting, holds_write_mutex,
       Placed, InCall, promote_holding, promote_waits, do_try_begin_write
  <2> QED BY <1>1, <2>1, <2>2, <2>3, QuietStep
      DEF promote_holding, promote_waits, do_try_begin_write
<1>2. CASE acquire_write_lock(t)
  <2>1. TypeOK' BY <1>2 DEF IInv, TypeOK, PC, acquire_write_lock
  <2>2. Placed'
    BY <1>2 DEF IInv, TypeOK, Placed, InCall, InOrder, Accessors, Advancing, ReadingHistory,
       acquire_write_lock
  <2>3. WriteMutexAccounted'
    BY <1>2 DEF IInv, TypeOK, Accounted, WriteMutexAccounted, Promoting, holds_write_mutex,
       Placed, InCall, acquire_write_lock
  <2> QED BY <1>2, <2>1, <2>2, <2>3, QuietStep DEF acquire_write_lock
<1>3. CASE promote_at_latest(t) \/ promote_throws(t)
  <2>1. TypeOK' BY <1>3 DEF IInv, TypeOK, PC, promote_at_latest, promote_throws
  <2>2. Placed'
    BY <1>3 DEF IInv, TypeOK, Placed, InCall, InOrder, Accessors, Advancing, ReadingHistory,
       promote_at_latest, promote_throws
  <2>3. WriteMutexAccounted'
    BY <1>3 DEF IInv, TypeOK, Accounted, WriteMutexAccounted, Promoting, holds_write_mutex,
       Placed, InCall, promote_at_latest, promote_throws
  <2> QED BY <1>3, <2>1, <2>2, <2>3, QuietStep DEF promote_at_latest, promote_throws
<1>4. CASE initiate_transact(t) \/ catch(t)
  <2>1. TypeOK' BY <1>4 DEF IInv, TypeOK, PC, initiate_transact, catch, end_write
  <2>2. Placed'
    BY <1>4 DEF IInv, TypeOK, Placed, InCall, InOrder, Accessors, Advancing, ReadingHistory,
       initiate_transact, catch
  <2>3. WriteMutexAccounted'
    BY <1>4 DEF IInv, TypeOK, Accounted, WriteMutexAccounted, Promoting, holds_write_mutex,
       Placed, InCall, initiate_transact, catch, end_write
  <2> QED BY <1>4, <2>1, <2>2, <2>3, QuietStep DEF initiate_transact, catch
<1> QED BY <1>1, <1>2, <1>3, <1>4

(* All versions are numbers. *)
LEMMA Numbers ==
    ASSUME TypeOK, NEW t \in Transactions
    PROVE  latest \in Nat /\ bound[t] \in Nat /\ new[t] \in Nat /\ begin[t] \in Nat
<1>1. Versions \cup {None} \subseteq Nat BY VersionAssumption DEF Versions, None
<1> QED BY <1>1 DEF TypeOK

(* What is fetched from the history is the next portion, up to the target. *)
LEMMA FetchedPortion ==
    ASSUME IInv, NEW t \in Transactions, begin[t] < new[t]
    PROVE  Fetched(t) \in Versions /\ begin[t] <= Fetched(t) /\ Fetched(t) <= new[t]
<1>1. begin[t] \in Nat /\ new[t] \in Versions \cup {None} /\ NB_BUFFERS \in Nat \ {0}
  BY VersionAssumption DEF IInv, TypeOK, Versions, None
<1>2. new[t] \in Nat /\ new[t] \in 1..MaxVersion /\ MaxVersion \in Nat
  BY <1>1, VersionAssumption DEF Versions, None
<1>3. CASE new[t] - begin[t] > NB_BUFFERS
  <2>1. Fetched(t) = begin[t] + NB_BUFFERS BY <1>3 DEF Fetched
  <2> QED BY <1>1, <1>2, <1>3, <2>1 DEF Versions
<1>4. CASE ~(new[t] - begin[t] > NB_BUFFERS)
  <2>1. Fetched(t) = new[t] BY <1>4 DEF Fetched
  <2> QED BY <1>1, <1>2, <2>1 DEF Versions
<1> QED BY <1>3, <1>4

(* Reading the history. *)
LEMMA ReadHistoryIInv ==
    ASSUME IInv, NEW t \in Transactions
    PROVE  /\ update_reader_view(t) => IInv'
           /\ observe(t) \/ observed(t) => IInv'
           /\ advance_transact(t) => IInv'
<1> USE NobodyAssumption DEF At, Goes, Idle, Enters, db, own, pass
<1>1. Versions \subseteq Nat /\ None \in Nat /\ None \notin Versions
  BY VersionAssumption DEF Versions, None
<1>2. CASE update_reader_view(t)
  <2>1. TypeOK' BY <1>1, <1>2 DEF IInv, TypeOK, PC, update_reader_view
  <2>2. Placed'
    <3>1. ASSUME NEW u \in Transactions, u # t
          PROVE  InCall(u)' /\ InOrder(u)' /\ Accessors(u)'
      BY <1>2, <3>1
      DEF IInv, TypeOK, Placed, InCall, InOrder, Accessors, Advancing, ReadingHistory, update_reader_view
    <3>2. InCall(t)'
      BY <1>2 DEF IInv, TypeOK, Placed, InCall, update_reader_view
    <3>3. InOrder(t)'
      <4>1. begin'[t] = bound[t]
        BY <1>2 DEF IInv, TypeOK, update_reader_view
      <4>2. pc[t] = "viewing" /\ pc'[t] \in {"observing", "advancing"}
        BY <1>2 DEF IInv, TypeOK, PC, update_reader_view
      <4>3. UNCHANGED <<bound, new, latest, stage, call>> BY <1>2 DEF update_reader_view
      <4>4. InOrder(t) BY DEF IInv, Placed
      <4>5. /\ latest \in Nat /\ bound[t] \in Nat /\ new[t] \in Nat /\ begin[t] \in Nat
            /\ begin'[t] \in Nat
        BY <1>1, <2>1, Numbers DEF IInv, TypeOK
      <4> QED BY <4>1, <4>2, <4>3, <4>4, <4>5 DEF InOrder, Advancing, ReadingHistory, None
    <3>4. Accessors(t)'
      BY <1>1, <1>2 DEF IInv, TypeOK, Placed, Accessors, ReadingHistory, update_reader_view
    <3> QED BY <3>1, <3>2, <3>3, <3>4 DEF Placed
  <2>3. WriteMutexAccounted'
    BY <1>2 DEF IInv, TypeOK, Accounted, WriteMutexAccounted, Promoting, holds_write_mutex,
       Placed, InCall, update_reader_view
  <2> QED BY <1>2, <2>1, <2>2, <2>3, QuietStep DEF update_reader_view
<1>3. CASE observe(t) \/ observed(t)
  <2>1. TypeOK'
    <3>1. \E v \in Versions \cup {None} : begin' = [begin EXCEPT ![t] = v]
      BY FetchedPortion, <1>3 DEF IInv, TypeOK, observe, observed
    <3>2. pc' = pc \/ pc' = [pc EXCEPT ![t] = "advancing"]
      BY <1>3 DEF observe, observed
    <3> QED BY <1>3, <3>1, <3>2 DEF IInv, TypeOK, PC, observe, observed
  <2>2. Placed'
    <3>1. ASSUME NEW u \in Transactions, u # t
          PROVE  InCall(u)' /\ InOrder(u)' /\ Accessors(u)'
      BY <1>3, <3>1
      DEF IInv, TypeOK, Placed, InCall, InOrder, Accessors, Advancing, ReadingHistory, observe, observed
    <3>2. InCall(t)'
      BY <1>3 DEF IInv, TypeOK, Placed, InCall, observe, observed
    <3>3. InOrder(t)'
      <4>1. begin'[t] = bound[t] \/ (begin[t] <= begin'[t] /\ begin'[t] <= new[t])
        BY FetchedPortion, <1>3 DEF IInv, TypeOK, observe, observed
      <4>2. pc[t] = "observing" /\ pc'[t] \in {"observing", "advancing"}
        BY <1>3 DEF IInv, TypeOK, PC, observe, observed
      <4>3. UNCHANGED <<bound, new, latest, stage, call>> BY <1>3 DEF observe, observed
      <4>4. InOrder(t) BY DEF IInv, Placed
      <4>5. /\ latest \in Nat /\ bound[t] \in Nat /\ new[t] \in Nat /\ begin[t] \in Nat
            /\ begin'[t] \in Nat
        BY <1>1, <2>1, Numbers DEF IInv, TypeOK
      <4> QED BY <4>1, <4>2, <4>3, <4>4, <4>5 DEF InOrder, Advancing, ReadingHistory, None
    <3>4. Accessors(t)'
      BY <1>1, FetchedPortion, <1>3
      DEF IInv, TypeOK, Placed, Accessors, ReadingHistory, observe, observed
    <3> QED BY <3>1, <3>2, <3>3, <3>4 DEF Placed
  <2>3. WriteMutexAccounted'
    BY <1>3 DEF IInv, TypeOK, Accounted, WriteMutexAccounted, Promoting, holds_write_mutex,
       Placed, InCall, observe, observed
  <2> QED BY <1>3, <2>1, <2>2, <2>3, QuietStep DEF observe, observed
<1>4. CASE advance_transact(t)
  <2>1. TypeOK' BY <1>1, FetchedPortion, <1>4 DEF IInv, TypeOK, PC, advance_transact
  <2>2. Placed'
    <3>1. ASSUME NEW u \in Transactions, u # t
          PROVE  InCall(u)' /\ InOrder(u)' /\ Accessors(u)'
      BY <1>4, <3>1
      DEF IInv, TypeOK, Placed, InCall, InOrder, Accessors, Advancing, ReadingHistory, advance_transact
    <3>2. InCall(t)'
      BY <1>4 DEF IInv, TypeOK, Placed, InCall, advance_transact
    <3>3. InOrder(t)'
      <4>1. begin[t] <= begin'[t] /\ begin'[t] <= new[t]
        BY FetchedPortion, <1>4 DEF IInv, TypeOK, advance_transact
      <4>2. pc[t] = "advancing" /\ pc'[t] = "advancing"
        BY <1>4 DEF IInv, TypeOK, PC, advance_transact
      <4>3. UNCHANGED <<bound, new, latest, stage, call>> BY <1>4 DEF advance_transact
      <4>4. InOrder(t) BY DEF IInv, Placed
      <4>5. /\ latest \in Nat /\ bound[t] \in Nat /\ new[t] \in Nat /\ begin[t] \in Nat
            /\ begin'[t] \in Nat
        BY <1>1, <2>1, Numbers DEF IInv, TypeOK
      <4> QED BY <4>1, <4>2, <4>3, <4>4, <4>5 DEF InOrder, Advancing, ReadingHistory, None
    <3>4. Accessors(t)'
      BY <1>1, FetchedPortion, <1>4 DEF IInv, TypeOK, Placed, Accessors, ReadingHistory, advance_transact
    <3> QED BY <3>1, <3>2, <3>3, <3>4 DEF Placed
  <2>3. WriteMutexAccounted'
    BY <1>4 DEF IInv, TypeOK, Accounted, WriteMutexAccounted, Promoting, holds_write_mutex,
       Placed, InCall, advance_transact
  <2> QED BY <1>4, <2>1, <2>2, <2>3, QuietStep DEF advance_transact
<1> QED BY <1>2, <1>3, <1>4

(* Rolling back, and what others do with the write mutex. *)
LEMMA RollbackIInv ==
    ASSUME IInv, NEW t \in Transactions
    PROVE  /\ advance_read_stays(t) \/ rollback_and_continue_as_read(t) => IInv'
           /\ async_request_write_mutex(t) \/ write_mutex_acquired(t) => IInv'
           /\ async_complete_writes(t) => IInv'
<1> USE NobodyAssumption DEF At, Goes, Idle, Enters, db, own, pass
<1>1. CASE advance_read_stays(t) \/ rollback_and_continue_as_read(t)
  <2>1. TypeOK' BY <1>1
  DEF IInv, TypeOK, PC, advance_read_stays, rollback_and_continue_as_read, end_write
  <2>2. Placed'
    BY <1>1 DEF IInv, TypeOK, Placed, InCall, InOrder, Accessors, Advancing, ReadingHistory,
       advance_read_stays, rollback_and_continue_as_read, None
  <2>3. WriteMutexAccounted'
    BY <1>1 DEF IInv, TypeOK, Accounted, WriteMutexAccounted, Promoting, holds_write_mutex,
       Placed, InCall, advance_read_stays, rollback_and_continue_as_read, end_write
  <2> QED BY <1>1, <2>1, <2>2, <2>3, QuietStep DEF advance_read_stays, rollback_and_continue_as_read
<1>2. CASE async_request_write_mutex(t) \/ write_mutex_acquired(t)
  <2>1. TypeOK' BY <1>2 DEF IInv, TypeOK, PC, async_request_write_mutex, write_mutex_acquired
  <2>2. Placed'
    BY <1>2 DEF IInv, TypeOK, Placed, InCall, InOrder, Accessors, Advancing, ReadingHistory,
       async_request_write_mutex, write_mutex_acquired
  <2>3. WriteMutexAccounted'
    BY <1>2 DEF IInv, TypeOK, Accounted, WriteMutexAccounted, Promoting, holds_write_mutex,
       Placed, InCall, async_request_write_mutex, write_mutex_acquired
  <2> QED BY <1>2, <2>1, <2>2, <2>3, QuietStep DEF async_request_write_mutex, write_mutex_acquired
<1>3. CASE async_complete_writes(t)
  <2>1. TypeOK' BY <1>3 DEF IInv, TypeOK, PC, async_complete_writes
  <2>2. Placed'
    BY <1>3 DEF IInv, TypeOK, Placed, InCall, InOrder, Accessors, Advancing, ReadingHistory,
       async_complete_writes
  <2>3. WriteMutexAccounted'
    BY <1>3 DEF IInv, TypeOK, Accounted, WriteMutexAccounted, Promoting, holds_write_mutex,
       Placed, InCall, async_complete_writes
  <2> QED BY <1>3, <2>1, <2>2, <2>3, QuietStep DEF async_complete_writes
<1> QED BY <1>1, <1>2, <1>3

(* Steps that move a transaction t to or from a version, without a commit: *)
(* t is then bound to b and advancing to n, both of them still there, and  *)
(* the read locks follow.                                                  *)
Moves(t, b, n) ==
    /\ b \in Versions \cup {None} /\ n \in Versions \cup {None}
    /\ bound' = [bound EXCEPT ![t] = b] /\ new' = [new EXCEPT ![t] = n]
    /\ b # None => b \in snapshots
    /\ n # None => n \in snapshots
    /\ UNCHANGED db
    /\ locks' \in [Versions -> Int]
    /\ \A v \in Versions : locks'[v] = locks[v] + Delta(bound[t], b, v) + Delta(new[t], n, v)
    /\ locks' \in [Versions -> Nat] => TypeOK'

LEMMA MovingStep ==
    ASSUME IInv, NEW t \in Transactions, NEW b, NEW n, Moves(t, b, n),
           Placed', WriteMutexAccounted'
    PROVE  IInv'
<1>1. Versions \cup {None} \subseteq Nat BY VersionAssumption DEF Versions, None
<1>2. ReadLocksAccounted' /\ locks' \in [Versions -> Nat] BY <1>1, LocksFollow DEF Moves
<1>3. TypeOK' BY <1>2 DEF Moves
<1>4. Kept' BY <1>3 DEF IInv, TypeOK, Kept, db, Moves
<1> QED BY <1>2, <1>3, <1>4 DEF IInv, Accounted

(* The target of an advance is locked. *)
LEMMA GrabIInv ==
    ASSUME IInv, NEW t \in Transactions, NEW v \in snapshots, v > bound[t],
           grab_read_lock(v), new' = [new EXCEPT ![t] = v],
           pc' = [pc EXCEPT ![t] = "viewing"],
           \/ Idle(t, "Reading") /\ call' = [call EXCEPT ![t] = "advance"]
           \/ At(t, "locked") /\ v = latest /\ UNCHANGED call,
           UNCHANGED <<db, writer, async, own, begin>>
    PROVE  IInv'
<1> USE DEF At, Idle, db, own
<1>1. Versions \subseteq Nat /\ None \in Nat /\ None \notin Versions
  BY VersionAssumption DEF Versions, None
<1>2. v \in Versions /\ v <= latest /\ latest \in Nat /\ bound[t] \in Nat
  BY Numbers DEF IInv, TypeOK, Kept
<1>3. new[t] = None BY DEF IInv, Placed, InOrder, Advancing
<1>4. bound' = [bound EXCEPT ![t] = bound[t]] BY DEF IInv, TypeOK
<1>5. bound[t] # None => bound[t] \in snapshots BY DEF IInv, Kept
<1>6. locks' \in [Versions -> Int] BY <1>2 DEF IInv, TypeOK, grab_read_lock
<1>7. \A w \in Versions : locks'[w] = locks[w] + Delta(bound[t], bound[t], w) + Delta(new[t], v, w)
  BY <1>1, <1>2, <1>3 DEF IInv, TypeOK, grab_read_lock, Delta
<1>8. locks' \in [Versions -> Nat] => TypeOK' BY <1>2 DEF IInv, TypeOK, PC
<1>9. Placed'
  <2>1. ASSUME NEW u \in Transactions, u # t
        PROVE  InCall(u)' /\ InOrder(u)' /\ Accessors(u)'
    BY <2>1 DEF IInv, TypeOK, Placed, InCall, InOrder, Accessors, Advancing, ReadingHistory
  <2>2. InCall(t)' BY DEF IInv, TypeOK, Placed, InCall
  <2>3. InOrder(t)'
    BY <1>1, <1>2 DEF IInv, TypeOK, Placed, InCall, InOrder, Advancing, ReadingHistory
  <2>4. Accessors(t)' BY DEF IInv, TypeOK, Placed, Accessors, ReadingHistory
  <2> QED BY <2>1, <2>2, <2>3, <2>4 DEF Placed
<1>10. WriteMutexAccounted'
  BY DEF IInv, TypeOK, Accounted, WriteMutexAccounted, Promoting, holds_write_mutex, Placed, InCall
<1>11. bound[t] \in Versions \cup {None} BY DEF IInv, TypeOK
<1>12. v # None /\ v \in Versions \cup {None} /\ v \in snapshots /\ UNCHANGED db
  BY <1>1, <1>2
<1>13. Moves(t, bound[t], v) BY <1>4, <1>5, <1>6, <1>7, <1>8, <1>11, <1>12 DEF Moves
<1> QED BY <1>9, <1>10, <1>13, MovingStep

LEMMA AdvanceIInv ==
    ASSUME IInv, NEW t \in Transactions
    PROVE  /\ advance_read(t) => IInv'
           /\ promote_advances(t) => IInv'
<1>1. CASE advance_read(t)
  <2>1. PICK v \in snapshots : v > bound[t] /\ grab_read_lock(v) /\ new' = [new EXCEPT ![t] = v]
    BY <1>1 DEF advance_read
  <2> QED BY <1>1, <2>1, GrabIInv DEF advance_read, Enters, Idle
<1>2. CASE promote_advances(t)
  <2>1. latest \in snapshots /\ latest > bound[t]
    BY <1>2, Numbers DEF IInv, Kept, Placed, InOrder, promote_advances
  <2> QED BY <1>2, <2>1, GrabIInv DEF promote_advances, Goes, At
<1> QED BY <1>1, <1>2

(* An exception gives the new read lock back. *)
LEMMA UnwindIInv ==
    ASSUME IInv, NEW t \in Transactions, view_throws(t) \/ observer_throws(t) \/ advance_throws(t)
    PROVE  IInv'
<1> USE DEF At, Idle, db
<1>1. Versions \subseteq Nat /\ None \in Nat /\ None \notin Versions
  BY VersionAssumption DEF Versions, None
<1>2. /\ Advancing(t) /\ Unwinds(t)
      /\ \/ UNCHANGED group /\ pc[t] # "advancing"
         \/ group' = [group EXCEPT ![t] = None]
  BY DEF view_throws, observer_throws, advance_throws, Advancing
<1>3. new[t] \in Versions
  BY <1>2 DEF IInv, TypeOK, Placed, InOrder
<1>4. bound' = [bound EXCEPT ![t] = bound[t]] BY <1>2 DEF IInv, TypeOK, Unwinds
<1>5. bound[t] # None => bound[t] \in snapshots BY DEF IInv, Kept
<1>6. locks' \in [Versions -> Int] BY <1>2, <1>3 DEF IInv, TypeOK, Unwinds, release_read_lock
<1>7. \A w \in Versions : locks'[w] = locks[w] + Delta(bound[t], bound[t], w) + Delta(new[t], None, w)
  BY <1>1, <1>2, <1>3 DEF IInv, TypeOK, Unwinds, release_read_lock, Delta
<1>8. locks' \in [Versions -> Nat] => TypeOK' BY <1>2 DEF IInv, TypeOK, PC, Unwinds
<1>9. Placed'
  <2>1. ASSUME NEW u \in Transactions, u # t
        PROVE  InCall(u)' /\ InOrder(u)' /\ Accessors(u)'
    BY <1>2, <2>1
    DEF IInv, TypeOK, Placed, InCall, InOrder, Accessors, Advancing, ReadingHistory, Unwinds
  <2>2. InCall(t)' BY <1>2 DEF IInv, TypeOK, Placed, InCall, Advancing, Unwinds
  <2>3. InOrder(t)'
    BY <1>2 DEF IInv, TypeOK, Placed, InCall, InOrder, Advancing, ReadingHistory, Unwinds
  <2>4. Accessors(t)'
    BY <1>2 DEF IInv, TypeOK, Placed, InCall, Accessors, Advancing, ReadingHistory, Unwinds
  <2> QED BY <2>1, <2>2, <2>3, <2>4 DEF Placed
<1>10. WriteMutexAccounted'
  BY <1>2 DEF IInv, TypeOK, Accounted, WriteMutexAccounted, Promoting, holds_write_mutex, Placed, InCall,
     Advancing, Unwinds
<1>11. bound[t] \in Versions \cup {None} /\ UNCHANGED db /\ new' = [new EXCEPT ![t] = None]
  BY <1>2 DEF IInv, TypeOK, Unwinds
<1>12. Moves(t, bound[t], None) BY <1>4, <1>5, <1>6, <1>7, <1>8, <1>11 DEF Moves
<1> QED BY <1>9, <1>10, <1>12, MovingStep

(* The new read lock takes the place of the old one. *)
LEMMA AdvancedIInv ==
    ASSUME IInv, NEW t \in Transactions, advanced(t)
    PROVE  IInv'
<1> USE DEF At, Idle, db
<1>1. Versions \subseteq Nat /\ None \in Nat /\ None \notin Versions
  BY VersionAssumption DEF Versions, None
<1>2. /\ pc[t] = "advancing" /\ stage[t] = "Reading" /\ begin[t] = new[t]
      /\ bound[t] < new[t] /\ new[t] <= latest
      /\ call[t] = "promote" => new[t] = latest /\ writable[t]
      /\ group[t] # None => group[t] = begin[t]
  BY DEF IInv, Placed, InCall, InOrder, Accessors, Advancing, ReadingHistory, advanced
<1>3. bound[t] # None BY <1>2 DEF IInv, Placed, InOrder
<1>4. bound[t] \in Versions /\ new[t] \in Versions /\ latest \in Nat
  BY <1>1, <1>2, <1>3 DEF IInv, TypeOK, Placed, InOrder, Advancing
<1>5. new[t] \in snapshots BY <1>1, <1>4 DEF IInv, Kept
<1>6. locks' \in [Versions -> Int]
  <2>1. locks' = [locks EXCEPT ![bound[t]] = locks[bound[t]] - 1]
    BY DEF advanced, release_read_lock
  <2>2. locks \in [Versions -> Nat] BY DEF IInv, TypeOK
  <2>3. locks[bound[t]] - 1 \in Int BY <1>4, <2>2
  <2> QED BY <1>4, <2>1, <2>2, <2>3
<1>7. \A w \in Versions :
        locks'[w] = locks[w] + Delta(bound[t], new[t], w) + Delta(new[t], None, w)
  BY <1>1, <1>2, <1>4 DEF IInv, TypeOK, advanced, release_read_lock, Delta
<1>8. locks' \in [Versions -> Nat] => TypeOK' BY DEF IInv, TypeOK, PC, advanced
<1>9. Placed'
  <2>1. ASSUME NEW u \in Transactions, u # t
        PROVE  InCall(u)' /\ InOrder(u)' /\ Accessors(u)'
    BY <2>1 DEF IInv, TypeOK, Placed, InCall, InOrder, Accessors, Advancing, ReadingHistory, advanced
  <2>2. InCall(t)' BY <1>2 DEF IInv, TypeOK, InCall, advanced
  <2>3. InOrder(t)'
    BY <1>1, <1>2, <1>4 DEF IInv, TypeOK, InOrder, Advancing, ReadingHistory, advanced
  <2>4. Accessors(t)' BY <1>2 DEF IInv, TypeOK, Accessors, ReadingHistory, advanced
  <2> QED BY <2>1, <2>2, <2>3, <2>4 DEF Placed
<1>10. WriteMutexAccounted'
  BY DEF IInv, TypeOK, Accounted, WriteMutexAccounted, Promoting, holds_write_mutex, advanced
<1>11. /\ bound' = [bound EXCEPT ![t] = new[t]] /\ new' = [new EXCEPT ![t] = None]
       /\ UNCHANGED db
  BY DEF advanced
<1>12. new[t] \in Versions \cup {None} /\ None \in Versions \cup {None} BY <1>4
<1>13. Moves(t, new[t], None) BY <1>5, <1>6, <1>7, <1>8, <1>11, <1>12 DEF Moves
<1> QED BY <1>9, <1>10, <1>13, MovingStep

LEMMA StartReadIInv ==
    ASSUME IInv, NEW t \in Transactions, start_read(t)
    PROVE  IInv'
<1> USE DEF At, Idle, db
<1>1. Versions \subseteq Nat /\ None \in Nat /\ None \notin Versions
  BY VersionAssumption DEF Versions, None
<1>2. /\ pc[t] = "rest" /\ stage[t] = "Ready" /\ bound[t] = None /\ new[t] = None
      /\ latest \in Versions /\ latest \in snapshots
  BY DEF IInv, TypeOK, Kept, Placed, InOrder, Advancing, start_read
<1>3. new' = [new EXCEPT ![t] = None] BY <1>2 DEF IInv, TypeOK, start_read, pass
<1>4. locks' \in [Versions -> Int] BY <1>2 DEF IInv, TypeOK, start_read, grab_read_lock
<1>5. \A w \in Versions :
        locks'[w] = locks[w] + Delta(bound[t], latest, w) + Delta(new[t], None, w)
  BY <1>1, <1>2 DEF IInv, TypeOK, start_read, grab_read_lock, Delta
<1>6. locks' \in [Versions -> Nat] => TypeOK' BY DEF IInv, TypeOK, PC, start_read, pass
<1>7. Placed'
  <2>1. ASSUME NEW u \in Transactions, u # t
        PROVE  InCall(u)' /\ InOrder(u)' /\ Accessors(u)'
    BY <2>1
    DEF IInv, TypeOK, Placed, InCall, InOrder, Accessors, Advancing, ReadingHistory, start_read, pass
  <2>2. InCall(t)' BY <1>2 DEF IInv, TypeOK, InCall, start_read
  <2>3. InOrder(t)'
    BY <1>1, <1>2 DEF IInv, TypeOK, InOrder, Advancing, ReadingHistory, start_read, pass
  <2>4. Accessors(t)' BY <1>2 DEF IInv, TypeOK, Accessors, ReadingHistory, start_read
  <2> QED BY <2>1, <2>2, <2>3, <2>4 DEF Placed
<1>8. WriteMutexAccounted'
  BY <1>2 DEF IInv, TypeOK, Accounted, WriteMutexAccounted, Promoting, holds_write_mutex, start_read
<1>9. bound' = [bound EXCEPT ![t] = latest] /\ UNCHANGED db BY DEF start_read
<1>10. latest \in Versions \cup {None} BY <1>2
<1>11. Moves(t, latest, None) BY <1>2, <1>3, <1>4, <1>5, <1>6, <1>9, <1>10 DEF Moves
<1> QED BY <1>7, <1>8, <1>11, MovingStep

LEMMA CloseIInv ==
    ASSUME IInv, NEW t \in Transactions, close(t)
    PROVE  IInv'
<1> USE NobodyAssumption DEF At, Idle, db
<1>1. Versions \subseteq Nat /\ None \in Nat /\ None \notin Versions
  BY VersionAssumption DEF Versions, None
<1>2. pc[t] = "rest" /\ bound[t] \in Versions /\ new[t] = None
  BY DEF IInv, TypeOK, Placed, InOrder, Advancing, close
<1>3. new' = [new EXCEPT ![t] = None] BY <1>2 DEF IInv, TypeOK, close, pass
<1>4. locks' \in [Versions -> Int] BY <1>2 DEF IInv, TypeOK, close, release_read_lock
<1>5. \A w \in Versions :
        locks'[w] = locks[w] + Delta(bound[t], None, w) + Delta(new[t], None, w)
  BY <1>1, <1>2 DEF IInv, TypeOK, close, release_read_lock, Delta
<1>6. locks' \in [Versions -> Nat] => TypeOK' BY DEF IInv, TypeOK, PC, close, pass
<1>7. Placed'
  <2>1. ASSUME NEW u \in Transactions, u # t
        PROVE  InCall(u)' /\ InOrder(u)' /\ Accessors(u)'
    BY <2>1
    DEF IInv, TypeOK, Placed, InCall, InOrder, Accessors, Advancing, ReadingHistory, close, pass
  <2>2. InCall(t)' BY <1>2 DEF IInv, TypeOK, InCall, close
  <2>3. InOrder(t)'
    BY <1>1, <1>2, Numbers DEF IInv, TypeOK, InOrder, Advancing, ReadingHistory, close, pass, None
  <2>4. Accessors(t)' BY <1>2 DEF IInv, TypeOK, Accessors, ReadingHistory, close
  <2> QED BY <2>1, <2>2, <2>3, <2>4 DEF Placed
<1>8. WriteMutexAccounted'
  BY <1>2
  DEF IInv, TypeOK, Accounted, WriteMutexAccounted, Promoting, holds_write_mutex, close
<1>9. bound' = [bound EXCEPT ![t] = None] /\ UNCHANGED db BY DEF close
<1>10. None \in Versions \cup {None} OBVIOUS
<1>11. Moves(t, None, None) BY <1>3, <1>4, <1>5, <1>6, <1>9, <1>10 DEF Moves
<1> QED BY <1>7, <1>8, <1>11, MovingStep

(* A commit: the only writer was bound to the latest version, and what     *)
(* others use is locked, so that it is not reclaimed.                      *)
LEMMA CommitIInv ==
    ASSUME IInv, NEW t \in Transactions, commit(t)
    PROVE  IInv'
<1> USE NobodyAssumption DEF At, Idle
<1>1. Versions \subseteq Nat /\ None \in Nat /\ None \notin Versions
  BY VersionAssumption DEF Versions, None
<1>2. /\ pc[t] = "rest" /\ stage[t] = "Writing" /\ new[t] = None /\ bound[t] = latest
      /\ latest' = latest + 1 /\ latest' \in Versions /\ latest \in Versions
  BY VersionAssumption DEF IInv, TypeOK, Versions, Placed, InOrder, Advancing, commit
<1>3. ASSUME NEW u \in Transactions, u # t PROVE stage[u] # "Writing" /\ ~Promoting(u)
  BY <1>2, <1>3 DEF IInv, Accounted, WriteMutexAccounted
<1>4. new' = [new EXCEPT ![t] = None] /\ bound' = [bound EXCEPT ![t] = latest + 1]
  BY <1>2 DEF IInv, TypeOK, commit, pass
<1>5. ReadLocksAccounted' /\ locks' \in [Versions -> Nat]
  <2>1. locks' = [locks EXCEPT ![latest] = locks[latest] - 1, ![latest + 1] = locks[latest + 1] + 1]
    BY <1>1, <1>2 DEF IInv, TypeOK, commit
  <2>2. locks \in [Versions -> Nat] BY DEF IInv, TypeOK
  <2>3. latest \in Versions /\ latest + 1 \in Versions BY <1>2
  <2>4. locks' \in [Versions -> Int] BY <2>1, <2>2, <2>3
  <2>5. ASSUME NEW w \in Versions
        PROVE  locks'[w] = locks[w] + Delta(bound[t], latest + 1, w) + Delta(new[t], None, w)
    <3>1. Delta(new[t], None, w) = 0 BY <1>1, <1>2 DEF Delta
    <3>2. Delta(bound[t], latest + 1, w) = IF w = latest THEN -1 ELSE IF w = latest + 1 THEN 1 ELSE 0
      BY <1>1, <1>2 DEF Delta
    <3>3. /\ latest # latest + 1 /\ locks[w] \in Nat
          /\ locks[latest] \in Nat /\ locks[latest + 1] \in Nat
      BY <1>1, <2>2, <2>3
    <3>4. locks'[w] = IF w = latest THEN locks[latest] - 1
                      ELSE IF w = latest + 1 THEN locks[latest + 1] + 1 ELSE locks[w]
      BY <2>1, <2>2, <2>3, <3>3
    <3> QED BY <3>1, <3>2, <3>3, <3>4
  <2>6. latest + 1 \in Nat /\ None \in Nat BY <1>1, <2>3
  <2> QED BY <1>4, <2>4, <2>5, <2>6, LocksFollow
<1>6. TypeOK'
  BY <1>1, <1>2, <1>5 DEF IInv, TypeOK, PC, commit, pass, end_write
<1>7. Placed'
  <2>1. ASSUME NEW u \in Transactions, u # t
        PROVE  InCall(u)' /\ InOrder(u)' /\ Accessors(u)'
    <3>1. InCall(u)' /\ Accessors(u)'
      BY <2>1 DEF IInv, TypeOK, Placed, InCall, Accessors, ReadingHistory, commit, pass
    <3>2. InOrder(u)'
      <4>1. /\ pc'[u] = pc[u] /\ stage'[u] = stage[u] /\ call'[u] = call[u]
            /\ bound'[u] = bound[u] /\ new'[u] = new[u] /\ begin'[u] = begin[u]
        BY <2>1 DEF IInv, TypeOK, commit, pass
      <4>2. InOrder(u) /\ InCall(u) BY DEF IInv, Placed
      <4>3. latest \in Nat /\ bound[u] \in Nat /\ new[u] \in Nat BY Numbers DEF IInv
      <4>4. ~(Advancing(u) /\ call[u] = "promote") /\ pc[u] # "initiating"
        BY <1>3, <2>1, <4>2 DEF InCall, Advancing, Promoting
      <4>5. stage[u] # "Writing" BY <1>3, <2>1
      <4> QED BY <1>2, <4>1, <4>2, <4>3, <4>4, <4>5 DEF InOrder, Advancing, ReadingHistory
    <3> QED BY <3>1, <3>2
  <2>2. InCall(t)' BY <1>2 DEF IInv, TypeOK, InCall, commit
  <2>3. InOrder(t)'
    BY <1>1, <1>2, <1>4 DEF IInv, TypeOK, InOrder, Advancing, ReadingHistory, commit
  <2>4. Accessors(t)'
    BY <1>2 DEF IInv, TypeOK, Placed, Accessors, ReadingHistory, commit
  <2> QED BY <2>1, <2>2, <2>3, <2>4 DEF Placed
<1>8. Kept'
  <2>1. snapshots' = {v \in snapshots : locks[v] > 0} \cup {latest, latest'} BY DEF commit
  <2>2. \A v \in snapshots' : v <= latest'
    BY <1>1, <1>2, <2>1 DEF IInv, TypeOK, Kept
  <2>3. ASSUME NEW u \in Transactions
        PROVE  /\ bound'[u] # None => bound'[u] \in snapshots'
               /\ new'[u] # None => new'[u] \in snapshots'
    BY <1>2, <1>4, <2>1, InUseLocked DEF IInv, TypeOK, Kept
  <2> QED BY <2>1, <2>2, <2>3 DEF Kept
<1>9. WriteMutexAccounted'
  BY <1>2
  DEF IInv, TypeOK, Accounted, WriteMutexAccounted, Promoting, holds_write_mutex, commit, end_write
<1> QED BY <1>5, <1>6, <1>7, <1>8, <1>9 DEF IInv, Accounted

LEMMA NextIInv == IInv /\ [Next]_vars => IInv'
<1> SUFFICES ASSUME IInv, [Next]_vars PROVE IInv' OBVIOUS
<1>1. CASE UNCHANGED vars
  BY <1>1 DEF vars, db, own, pass, IInv, TypeOK, Placed, InCall, InOrder, Accessors, Advancing,
     ReadingHistory, At, Idle, Kept, Accounted, ReadLocksAccounted, BoundTo, AdvancingTo,
     WriteMutexAccounted, Promoting, holds_write_mutex
<1>2. ASSUME NEW t \in Transactions, promote_to_write(t) PROVE IInv'
  BY <1>2, PromoteIInv, AdvanceIInv DEF promote_to_write
<1>3. ASSUME NEW t \in Transactions, internal_advance_read(t) PROVE IInv'
  BY <1>3, ReadHistoryIInv, UnwindIInv, AdvancedIInv DEF internal_advance_read
<1>4. ASSUME NEW t \in Transactions,
             \/ advance_read(t) \/ advance_read_stays(t) \/ rollback_and_continue_as_read(t)
             \/ start_read(t) \/ close(t) \/ commit(t)
             \/ async_request_write_mutex(t) \/ write_mutex_acquired(t) \/ async_complete_writes(t)
      PROVE  IInv'
  BY <1>4, AdvanceIInv, RollbackIInv, StartReadIInv, CloseIInv, CommitIInv
<1> QED BY <1>1, <1>2, <1>3, <1>4 DEF Next

LEMMA Invariance == Spec => []IInv
BY InitIInv, NextIInv, PTL DEF Spec

-----------------------------------------------------------------------------
(* Type correctness: versions do not run beyond what can be locked, and no *)
(* read lock is released that nobody has.                                  *)
THEOREM TypeCorrect == Spec => []TypeOK
<1>1. IInv => TypeOK BY DEF IInv
<1> QED BY <1>1, Invariance, PTL

(* Read locks and the write mutex are those of transactions that use them, *)
(* whatever has thrown in advance_read() or promote_to_write().            *)
THEOREM LocksAccounted == Spec => []Accounted
<1>1. IInv => Accounted BY DEF IInv
<1> QED BY <1>1, Invariance, PTL

(* The changesets that internal_advance_read() has still to read are in    *)
(* the history, whatever others commit meanwhile.                          *)
THEOREM HistoryKept == Spec => []HistoryIsThere
<1>1. ASSUME IInv PROVE HistoryIsThere
  <2> SUFFICES ASSUME NEW t \in Transactions, ReadingHistory(t) PROVE ~Trimmed(begin[t])
    BY <1>1 DEF HistoryIsThere, IInv, Kept, ReadingHistory, At
  <2>1. InOrder(t) /\ bound[t] < new[t] /\ stage[t] = "Reading"
    BY <1>1 DEF IInv, Placed, InCall, InOrder, Advancing, ReadingHistory
  <2>2. bound[t] \in snapshots BY <1>1, <2>1 DEF IInv, Kept, InOrder
  <2>3. bound[t] <= begin[t] BY <2>1 DEF InOrder
  <2>4. bound[t] \in Nat /\ begin[t] \in Nat BY <1>1, Numbers DEF IInv
  <2> QED BY <2>2, <2>3, <2>4 DEF Trimmed
<1> QED BY <1>1, Invariance, PTL

(* Accessors are at the version bound until all is ready to advance them,  *)
(* and writable in a transaction that writes.                              *)
THEOREM AccessorsKept == Spec => []AccessorsAtBound
<1>1. IInv => AccessorsAtBound
  BY DEF IInv, Placed, Accessors, AccessorsAtBound, At, Idle
<1> QED BY <1>1, Invariance, PTL

-----------------------------------------------------------------------------
(* Every step is one of Snapshots, or leaves what users see as it was.     *)
LEMMA SnapshotsStep == IInv /\ [Next]_vars => [Isolation!Next]_(Isolation!vars)
<1> SUFFICES ASSUME IInv, [Next]_vars PROVE Isolation!Next \/ UNCHANGED <<latest, stage, bound>>
  BY DEF Isolation!vars
<1>1. CASE UNCHANGED vars BY <1>1 DEF vars, db, own
<1>2. ASSUME NEW t \in Transactions, promote_to_write(t)
      PROVE  Isolation!Promote(t) \/ UNCHANGED <<latest, stage, bound>>
  <2>1. CASE initiate_transact(t)
    <3>1. stage[t] = "Reading" /\ bound[t] = latest /\ Promoting(t)
      BY <2>1 DEF IInv, Placed, InCall, InOrder, Promoting, initiate_transact, Goes, At
    <3>2. \A u \in Transactions : stage[u] # "Writing"
      BY <3>1 DEF IInv, Accounted, WriteMutexAccounted
    <3> QED BY <2>1, <3>1, <3>2 DEF Isolation!Promote, Isolation!NobodyWrites, initiate_transact, db
  <2> QED BY <1>2, <2>1 DEF promote_to_write, promote_holding, promote_waits, do_try_begin_write,
             acquire_write_lock, promote_advances, promote_at_latest, promote_throws, catch, db, own
<1>3. ASSUME NEW t \in Transactions, internal_advance_read(t)
      PROVE  Isolation!Advance(t) \/ UNCHANGED <<latest, stage, bound>>
  <2>1. CASE advanced(t)
    <3>1. stage[t] = "Reading" /\ bound[t] < new[t] /\ new[t] <= latest
      BY <2>1 DEF IInv, Placed, InCall, InOrder, Advancing, advanced, At
    <3>2. new[t] \in (bound[t] + 1)..latest BY <3>1, Numbers DEF IInv
    <3> QED BY <2>1, <3>1, <3>2 DEF Isolation!Advance, advanced, db
  <2> QED BY <1>3, <2>1 DEF internal_advance_read, update_reader_view, view_throws, observe,
             observer_throws, observed, advance_transact, advance_throws, Unwinds, db, own
<1>4. ASSUME NEW t \in Transactions, commit(t) PROVE Isolation!Commit(t)
  <2>1. stage[t] = "Writing" /\ latest' = latest + 1
    BY <1>4 DEF IInv, Placed, InOrder, commit, Idle
  <2>2. \E m \in {"Reading", "Writing"} : stage' = [stage EXCEPT ![t] = m]
    <3>1. stage = [stage EXCEPT ![t] = "Writing"] BY <2>1 DEF IInv, TypeOK
    <3> QED BY <1>4, <3>1 DEF commit
  <2> QED BY <1>4, <2>1, <2>2 DEF Isolation!Commit, commit
<1>5. ASSUME NEW t \in Transactions, start_read(t) PROVE Isolation!Begin(t)
  BY <1>5 DEF Isolation!Begin, start_read, Idle, db
<1>6. ASSUME NEW t \in Transactions, close(t) PROVE Isolation!End(t)
  BY <1>6 DEF Isolation!End, close, db, None
<1>7. ASSUME NEW t \in Transactions, rollback_and_continue_as_read(t)
      PROVE  Isolation!Rollback(t) \/ UNCHANGED <<latest, stage, bound>>
  BY <1>7 DEF Isolation!Rollback, rollback_and_continue_as_read, Idle, db
<1>8. ASSUME NEW t \in Transactions,
             \/ advance_read(t) \/ advance_read_stays(t) \/ async_request_write_mutex(t)
             \/ write_mutex_acquired(t) \/ async_complete_writes(t)
      PROVE  UNCHANGED <<latest, stage, bound>>
  BY <1>8 DEF advance_read, advance_read_stays, async_request_write_mutex, write_mutex_acquired,
     async_complete_writes, db, own
<1> QED BY <1>1, <1>2, <1>3, <1>4, <1>5, <1>6, <1>7, <1>8 DEF Next, Isolation!Next

(* Transaction implements Snapshots, for any number of transactions and    *)
(* versions: isolation, no lost commits, one writer at a time.             *)
THEOREM Refinement == Spec => ImplementsSnapshots
<1>1. Init => Isolation!Init BY DEF Init, Isolation!Init, None
<1> QED BY <1>1, Invariance, SnapshotsStep, PTL DEF Spec, ImplementsSnapshots, Isolation!Spec
=============================================================================
