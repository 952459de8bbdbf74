------------------------- MODULE AsyncOper_proofs -------------------------
(***************************************************************************)
(* Proofs about AsyncOper: for any set of sockets, the memory of the       *)
(* operations, what the event loop may advance, and cancellation.          *)
(***************************************************************************)
EXTENDS AsyncOper, FiniteSetTheorems, TLAPS

Operations == [memory : {"deleted", "unused", "in_use"}, m_complete : BOOLEAN,
               ec : {"none", "success", "failure"}, m_canceled : BOOLEAN, m_stream : BOOLEAN]

Types == /\ oper \in [Slots -> Operations]
         /\ lent \in [Slots -> {"no", "suspended", "completed", "unwinding"}]
         /\ asked \in [Slots -> {"nothing", "operation", "abort"}]

(* What is lent of one slot, its flags, its socket and what was asked of   *)
(* it agree.                                                               *)
Agrees(s) == /\ in_use(s) <=> lent[s] # "no"
             /\ Socket(s) \notin alive /\ lent[s] = "no" => oper[s].memory = "deleted"
             /\ in_use(s) => (oper[s].m_stream <=> Socket(s) \in alive)
             /\ ~in_use(s) => ~oper[s].m_stream /\ ~oper[s].m_canceled
             /\ lent[s] = "suspended" => Socket(s) \in alive /\ ~oper[s].m_complete /\ ~oper[s].m_canceled
             /\ oper[s].m_canceled <=> asked[s] = "abort"
             /\ lent[s] = "unwinding" => ~oper[s].m_canceled

IInv == Types /\ \A s \in Slots : Agrees(s)

USE DEF in_use, orphaned

(* The fields of memory that is not in use, and of an operation that has   *)
(* just been constructed.                                                  *)
LEMMA Fields ==
  /\ \A x \in {Deleted, Unused, InUse} : x \in Operations /\ ~x.m_canceled /\ ~x.m_complete
  /\ Deleted.memory = "deleted" /\ ~Deleted.m_stream
  /\ Unused.memory = "unused" /\ ~Unused.m_stream
  /\ InUse.memory = "in_use" /\ InUse.m_stream
<1>1. /\ Deleted \in Operations /\ ~Deleted.m_canceled /\ ~Deleted.m_complete
      /\ Deleted.memory = "deleted" /\ ~Deleted.m_stream
  BY DEF Deleted, Operations
<1>2. /\ Unused \in Operations /\ ~Unused.m_canceled /\ ~Unused.m_complete
      /\ Unused.memory = "unused" /\ ~Unused.m_stream
  BY <1>1 DEF Unused, Operations
<1>3. /\ InUse \in Operations /\ ~InUse.m_canceled /\ ~InUse.m_complete
      /\ InUse.memory = "in_use" /\ InUse.m_stream
  BY <1>1 DEF InUse, Operations
<1> QED
  BY <1>1, <1>2, <1>3

(* An operation that completes differs from a new one in m_complete and ec.*)
LEMMA Completes ==
  ASSUME NEW ec \in {"success", "failure"}
  PROVE  LET x == [InUse EXCEPT !.m_complete = TRUE, !.ec = ec]
         IN  x \in Operations /\ x.memory = "in_use" /\ ~x.m_canceled /\ x.m_stream
BY Fields DEF Operations

(* Canceling changes m_canceled, orphaning m_stream, and nothing else.     *)
LEMMA Cancelled ==
  ASSUME NEW x \in Operations
  PROVE  /\ LET y == [x EXCEPT !.m_canceled = TRUE]
            IN  /\ y \in Operations /\ y.m_canceled
                /\ y.memory = x.memory /\ y.m_stream = x.m_stream
                /\ y.m_complete = x.m_complete /\ y.ec = x.ec
         /\ LET y == [x EXCEPT !.m_canceled = TRUE, !.m_stream = FALSE]
            IN  /\ y \in Operations /\ y.m_canceled
                /\ y.memory = x.memory /\ ~y.m_stream
                /\ y.m_complete = x.m_complete /\ y.ec = x.ec
BY DEF Operations

-----------------------------------------------------------------------------
(* Before the first operation no slot has any memory.                      *)
LEMMA IInvInit == Init => IInv
BY Fields DEF Init, IInv, Types, Agrees

(* A step that touches one slot has only to keep that slot in agreement.   *)
LEMMA OneSlot ==
  ASSUME IInv, NEW s \in Slots, NEW x \in Operations,
         NEW l \in {"no", "suspended", "completed", "unwinding"},
         NEW a \in {"nothing", "operation", "abort"},
         oper' = [oper EXCEPT ![s] = x], lent' = [lent EXCEPT ![s] = l],
         asked' = [asked EXCEPT ![s] = a], alive' = alive, Agrees(s)'
  PROVE  IInv'
<1>1. Types' /\ Types
  BY DEF IInv, Types
<1>2. ASSUME NEW u \in Slots, u # s PROVE Agrees(u)'
  <2>1. oper'[u] = oper[u] /\ lent'[u] = lent[u] /\ asked'[u] = asked[u]
    BY <1>1, <1>2 DEF Types
  <2>2. Agrees(u)
    BY DEF IInv
  <2> QED
    BY <2>1, <2>2 DEF Agrees
<1> QED
  BY <1>1, <1>2 DEF IInv

(* The slot that has become an operation x.                                *)
LEMMA SlotIs ==
  ASSUME IInv, NEW s \in Slots, NEW x, NEW l, NEW a,
         oper' = [oper EXCEPT ![s] = x], lent' = [lent EXCEPT ![s] = l],
         asked' = [asked EXCEPT ![s] = a]
  PROVE  oper'[s] = x /\ lent'[s] = l /\ asked'[s] = a
BY DEF IInv, Types

(* What initiate() and the event loop make of an operation.                *)
LEMMA Starts ==
  ASSUME IInv, NEW s \in Slots, Socket(s) \in alive, alive' = alive,
         NEW a \in {"nothing", "operation"}, asked' = [asked EXCEPT ![s] = a],
         \/ oper' = [oper EXCEPT ![s] = InUse] /\ lent' = [lent EXCEPT ![s] = "suspended"]
         \/ \E ec \in {"success", "failure"} : Complete(s, ec)
  PROVE  IInv'
<1>1. CASE oper' = [oper EXCEPT ![s] = InUse] /\ lent' = [lent EXCEPT ![s] = "suspended"]
  <2>1. oper'[s] = InUse /\ lent'[s] = "suspended" /\ asked'[s] = a
    BY <1>1, SlotIs
  <2>2. Agrees(s)'
    BY <2>1, Fields DEF Agrees
  <2>3. InUse \in Operations
    BY Fields
  <2> QED
    BY <1>1, <2>2, <2>3, OneSlot
<1>2. ASSUME NEW ec \in {"success", "failure"}, Complete(s, ec) PROVE IInv'
  <2> DEFINE x == [InUse EXCEPT !.m_complete = TRUE, !.ec = ec]
  <2>1. x \in Operations /\ x.memory = "in_use" /\ ~x.m_canceled /\ x.m_stream
    BY Completes
  <2>2. oper' = [oper EXCEPT ![s] = x] /\ lent' = [lent EXCEPT ![s] = "completed"]
    BY <1>2 DEF Complete
  <2> HIDE DEF x
  <2>3. oper'[s] = x /\ lent'[s] = "completed" /\ asked'[s] = a
    BY <2>2, SlotIs
  <2>4. Agrees(s)'
    BY <2>1, <2>3 DEF Agrees
  <2> QED
    BY <2>1, <2>2, <2>4, OneSlot
<1> QED
  BY <1>1, <1>2

(* Starting, finishing, canceling and destroying keep the operations, the  *)
(* sockets and what was asked in agreement.                                *)
LEMMA IInvNext == IInv /\ [Next]_vars => IInv'
<1> SUFFICES ASSUME IInv, [Next]_vars PROVE IInv'
  OBVIOUS
<1> USE Fields DEF IInv, Types, Agrees, May
<1>1. ASSUME NEW s \in Slots, alloc_throws(s) PROVE IInv'
  BY <1>1 DEF alloc_throws
<1>2. ASSUME NEW s \in Slots, initiate(s) PROVE IInv'
  <2> HIDE DEF IInv, Types, Agrees
  <2>1. /\ Socket(s) \in alive /\ alive' = alive
        /\ asked' = [asked EXCEPT ![s] = "operation"]
    BY <1>2 DEF initiate
  <2>2. \/ oper' = [oper EXCEPT ![s] = InUse] /\ lent' = [lent EXCEPT ![s] = "suspended"]
        \/ \E ec \in {"success", "failure"} : Complete(s, ec)
    BY <1>2 DEF initiate
  <2> QED
    BY <2>1, <2>2, Starts
<1>3. ASSUME NEW s \in Slots, initiate_throws(s) PROVE IInv'
  BY <1>3 DEF initiate_throws
<1>4. ASSUME NEW s \in Slots, recycle(s) PROVE IInv'
  BY <1>4 DEF recycle, Recycled
<1>5. ASSUME ~Busy, NEW k \in Sockets, cancel(k) PROVE IInv'
  <2>1. \A s \in Slots : lent[s] # "unwinding"
    BY <1>5 DEF Busy
  <2>2. Types'
    BY <1>5, Cancelled DEF cancel, Cancels
  <2>3. ASSUME NEW s \in Slots PROVE Agrees(s)'
    <3>1. CASE Socket(s) = k /\ in_use(s)
      <4>1. /\ oper'[s] = [oper[s] EXCEPT !.m_canceled = TRUE] /\ asked'[s] = "abort"
            /\ lent'[s] = IF lent[s] = "suspended" THEN "completed" ELSE lent[s]
            /\ alive' = alive
        BY <1>5, <3>1 DEF cancel, Cancels
      <4>2. /\ oper[s] \in Operations /\ Agrees(s) /\ in_use(s) /\ lent[s] # "unwinding"
            /\ lent[s] \in {"no", "suspended", "completed", "unwinding"}
        BY <2>1, <3>1
      <4>3. /\ oper'[s].m_canceled /\ oper'[s].memory = "in_use"
            /\ oper'[s].m_stream = oper[s].m_stream
        BY <4>1, <4>2 DEF Operations
      <4>4. lent'[s] = "completed"
        BY <4>1, <4>2
      <4> HIDE DEF Types
      <4> QED
        BY <4>1, <4>2, <4>3, <4>4
    <3>2. CASE ~(Socket(s) = k /\ in_use(s))
      BY <1>5, <3>2 DEF cancel, Cancels
    <3> QED
      BY <3>1, <3>2
  <2> QED
    BY <2>2, <2>3
<1>6. ASSUME ~Busy, NEW k \in Sockets, destroy(k) PROVE IInv'
  <2>1. \A s \in Slots : lent[s] # "unwinding"
    BY <1>6 DEF Busy
  <2>2. /\ k \in alive /\ alive' = alive \ {k}
        /\ oper' = [s \in Slots |->
                      IF Socket(s) # k THEN oper[s]
                      ELSE IF in_use(s) THEN [oper[s] EXCEPT !.m_canceled = TRUE, !.m_stream = FALSE]
                      ELSE Deleted]
    BY <1>6 DEF destroy
  <2>3. /\ lent' = [s \in Slots |-> IF Socket(s) = k /\ lent[s] = "suspended"
                                       THEN "completed" ELSE lent[s]]
        /\ asked' = [s \in Slots |-> IF Socket(s) = k /\ in_use(s) THEN "abort" ELSE asked[s]]
    BY <1>6 DEF destroy, Cancels
  <2>4. \A s \in Slots : oper'[s] \in Operations
    BY <2>2, Cancelled
  <2>5. Types'
    <3>1. oper' \in [Slots -> Operations]
      BY <2>2, <2>4
    <3> QED
      BY <2>3, <3>1
  <2>6. ASSUME NEW s \in Slots PROVE Agrees(s)'
    <3>1. oper[s] \in Operations /\ Agrees(s)
      OBVIOUS
    <3>2. CASE Socket(s) # k
      <4>1. /\ oper'[s] = oper[s] /\ lent'[s] = lent[s] /\ asked'[s] = asked[s]
            /\ Socket(s) \in alive' <=> Socket(s) \in alive
        BY <2>2, <2>3, <3>2
      <4> HIDE DEF Types
      <4> QED
        BY <3>1, <4>1
    <3>3. CASE Socket(s) = k /\ in_use(s)
      <4>1. /\ oper'[s] = [oper[s] EXCEPT !.m_canceled = TRUE, !.m_stream = FALSE]
            /\ lent'[s] = IF lent[s] = "suspended" THEN "completed" ELSE lent[s]
            /\ asked'[s] = "abort" /\ Socket(s) \notin alive'
        BY <2>2, <2>3, <3>3
      <4>2. oper'[s].m_canceled /\ oper'[s].memory = "in_use" /\ ~oper'[s].m_stream
        <5> DEFINE y == [oper[s] EXCEPT !.m_canceled = TRUE, !.m_stream = FALSE]
        <5>1. y.m_canceled /\ y.memory = oper[s].memory /\ ~y.m_stream
          BY <3>1, Cancelled
        <5> HIDE DEF y, Types, Agrees
        <5> QED
          BY <3>3, <4>1, <5>1 DEF y
      <4>3. lent'[s] # "no" /\ lent'[s] # "suspended" /\ lent'[s] # "unwinding"
        BY <2>1, <3>1, <3>3, <4>1
      <4> HIDE DEF Types
      <4> QED
        BY <4>1, <4>2, <4>3
    <3>4. CASE Socket(s) = k /\ ~in_use(s)
      <4>1. /\ oper'[s] = Deleted /\ lent'[s] = "no" /\ asked'[s] = asked[s]
            /\ Socket(s) \notin alive' /\ asked[s] # "abort"
        BY <2>2, <2>3, <3>1, <3>4
      <4> HIDE DEF Types
      <4> QED
        BY <4>1
    <3> QED
      BY <3>2, <3>3, <3>4
  <2> QED
    BY <2>5, <2>6
<1>7. CASE handler_returns
  BY <1>7 DEF handler_returns
<1>8. ASSUME NEW s \in Slots, advance(s) PROVE IInv'
  <2>1. /\ lent[s] = "suspended" /\ \E ec \in {"success", "failure"} : Complete(s, ec)
        /\ alive' = alive /\ asked' = asked
    BY <1>8 DEF advance
  <2>2. Socket(s) \in alive /\ asked[s] \in {"nothing", "operation"}
    BY <2>1
  <2>3. asked' = [asked EXCEPT ![s] = asked[s]]
    BY <2>1
  <2> HIDE DEF IInv, Types, Agrees
  <2> QED
    BY <2>1, <2>2, <2>3, Starts
<1>9. ASSUME NEW s \in Slots, execute(s) PROVE IInv'
  BY <1>9 DEF execute, Recycled
<1>10. CASE destroy_service
  BY <1>10 DEF destroy_service, Recycled
<1>11. CASE UNCHANGED vars
  BY <1>11 DEF vars
<1> QED
  BY <1>1, <1>2, <1>3, <1>4, <1>5, <1>6, <1>7, <1>8, <1>9, <1>10, <1>11
     DEF Next, Program, EventLoop

(* IInv is an invariant of the operations.                                 *)
THEOREM Invariance == SafeSpec => []IInv
BY IInvInit, IInvNext, PTL DEF SafeSpec

-----------------------------------------------------------------------------
(* The memory of an operation is in use exactly while the operation is     *)
(* lent, and does not outlive both its owner and the loan.                 *)
THEOREM NoMemoryWithoutOwner == SafeSpec => []MemoryHasOwner
<1>1. IInv => MemoryHasOwner BY DEF IInv, Agrees, MemoryHasOwner
<1> QED BY <1>1, Invariance, PTL

(* The event loop advances no operation that is complete, canceled, or     *)
(* whose socket has gone.                                                  *)
THEOREM AdvancedInTime == SafeSpec => []NeverAdvancedTooLate
<1>1. IInv => NeverAdvancedTooLate BY DEF IInv, Agrees, NeverAdvancedTooLate
<1> QED BY <1>1, Invariance, PTL

(* A handler is told operation_aborted if, and only if, its operation was  *)
(* canceled before the handler started: the guarantee that network.hpp     *)
(* makes and ASIO does not.                                                *)
THEOREM CancelableToTheEnd == SafeSpec => AbortedIffCanceled
<1> DEFINE A == \A s \in Slots : running = None /\ running' # None /\ running'.slot = s =>
                   (running'.ec = "operation_aborted" <=> asked[s] = "abort")
<1>1. ASSUME IInv, [Next]_vars PROVE [A]_vars
  <2>1. ASSUME NEW s \in Slots, execute(s) PROVE A
    <3>1. /\ oper[s].ec # "operation_aborted"
          /\ oper[s].m_canceled <=> asked[s] = "abort"
      BY <1>1, <2>1 DEF IInv, Types, Agrees, Operations
    <3>2. Told(s) = "operation_aborted" <=> asked[s] = "abort"
      BY <3>1 DEF Told
    <3>3. running' = [slot |-> s, ec |-> Told(s)] \/ UNCHANGED running
      BY <2>1 DEF execute
    <3> QED
      BY <3>2, <3>3
  <2>2. CASE UNCHANGED running
    BY <2>2
  <2> QED
    BY <1>1, <2>1, <2>2
       DEF Next, Program, EventLoop, alloc_throws, initiate, initiate_throws, recycle, cancel,
           destroy, Cancels, handler_returns, advance, destroy_service, vars
<1> QED BY <1>1, Invariance, PTL DEF SafeSpec, AbortedIffCanceled

-----------------------------------------------------------------------------
(* The queue of handlers.  Sequences without repetition, and what is done  *)
(* to them.                                                                *)

LEMMA AppendOnce ==
  ASSUME NEW q \in Seq(Slots), IsInjective(q), NEW s \in Slots, s \notin ToSet(q)
  PROVE  /\ Append(q, s) \in Seq(Slots) /\ IsInjective(Append(q, s))
         /\ ToSet(Append(q, s)) = ToSet(q) \cup {s}
<1> DEFINE r == Append(q, s)
<1>1. /\ r \in Seq(Slots) /\ DOMAIN r = 1..(Len(q) + 1) /\ DOMAIN q = 1..Len(q)
      /\ \A i \in 1..Len(q) : r[i] = q[i]
      /\ r[Len(q) + 1] = s /\ Len(q) \in Nat
  OBVIOUS
<1>2. \A i \in 1..(Len(q) + 1) : i \in 1..Len(q) \/ i = Len(q) + 1 BY <1>1
<1> HIDE DEF r
<1>3. \A i \in 1..Len(q) : r[i] \in ToSet(q) BY <1>1 DEF ToSet
<1>4. IsInjective(r) BY <1>1, <1>2, <1>3 DEF IsInjective
<1>5. ToSet(r) = ToSet(q) \cup {s}
  <2>1. \A x \in ToSet(r) : x \in ToSet(q) \cup {s} BY <1>1, <1>2, <1>3 DEF ToSet
  <2>2. \A x \in ToSet(q) : x \in ToSet(r) BY <1>1, <1>2 DEF ToSet
  <2>3. s \in ToSet(r) BY <1>1 DEF ToSet
  <2> QED BY <2>1, <2>2, <2>3
<1> QED BY <1>1, <1>4, <1>5 DEF r

LEMMA JoinOnce ==
  ASSUME NEW q \in Seq(Slots), NEW r \in Seq(Slots), IsInjective(q), IsInjective(r),
         ToSet(q) \cap ToSet(r) = {}
  PROVE  /\ q \o r \in Seq(Slots) /\ IsInjective(q \o r)
         /\ ToSet(q \o r) = ToSet(q) \cup ToSet(r)
<1> DEFINE b == q \o r
<1>1. /\ b \in Seq(Slots) /\ DOMAIN b = 1..(Len(q) + Len(r))
      /\ DOMAIN q = 1..Len(q) /\ DOMAIN r = 1..Len(r) /\ Len(q) \in Nat /\ Len(r) \in Nat
      /\ \A i \in 1..Len(q) : b[i] = q[i]
      /\ \A i \in 1..(Len(q) + Len(r)) : i > Len(q) => b[i] = r[i - Len(q)]
  OBVIOUS
<1> HIDE DEF b
<1>2. ASSUME NEW i \in DOMAIN b
      PROVE  \/ i \in DOMAIN q /\ b[i] = q[i]
             \/ i > Len(q) /\ i - Len(q) \in DOMAIN r /\ b[i] = r[i - Len(q)]
  BY <1>1
<1>3. \A i \in DOMAIN q : i \in DOMAIN b /\ b[i] = q[i] BY <1>1
<1>4. \A i \in DOMAIN r : Len(q) + i \in DOMAIN b /\ b[Len(q) + i] = r[i]
  <2> SUFFICES ASSUME NEW i \in 1..Len(r)
               PROVE  Len(q) + i \in DOMAIN b /\ b[Len(q) + i] = r[i]
    BY <1>1
  <2>1. Len(q) + i \in 1..(Len(q) + Len(r)) /\ Len(q) + i > Len(q) /\ (Len(q) + i) - Len(q) = i
    BY <1>1
  <2> QED BY <1>1, <2>1
<1>5. ToSet(b) = ToSet(q) \cup ToSet(r)
  <2>1. \A x \in ToSet(b) : x \in ToSet(q) \cup ToSet(r) BY <1>2 DEF ToSet
  <2>2. \A x \in ToSet(q) \cup ToSet(r) : x \in ToSet(b) BY <1>3, <1>4 DEF ToSet
  <2> QED BY <2>1, <2>2
<1>6. ASSUME NEW i \in DOMAIN b, NEW j \in DOMAIN b, b[i] = b[j] PROVE i = j
  <2>1. CASE i \in DOMAIN q /\ b[i] = q[i] /\ j \in DOMAIN q /\ b[j] = q[j]
    BY <1>6, <2>1 DEF IsInjective
  <2>2. CASE /\ i - Len(q) \in DOMAIN r /\ b[i] = r[i - Len(q)]
             /\ j - Len(q) \in DOMAIN r /\ b[j] = r[j - Len(q)]
    <3>1. i - Len(q) = j - Len(q) BY <1>6, <2>2 DEF IsInjective
    <3> QED BY <1>1, <3>1
  <2>3. CASE i \in DOMAIN q /\ b[i] = q[i] /\ j - Len(q) \in DOMAIN r /\ b[j] = r[j - Len(q)]
    BY <1>6, <2>3 DEF ToSet
  <2>4. CASE j \in DOMAIN q /\ b[j] = q[j] /\ i - Len(q) \in DOMAIN r /\ b[i] = r[i - Len(q)]
    BY <1>6, <2>4 DEF ToSet
  <2> QED BY <1>2, <2>1, <2>2, <2>3, <2>4
<1> QED BY <1>1, <1>5, <1>6 DEF b, IsInjective

LEMMA TailOnce ==
  ASSUME NEW q \in Seq(Slots), q # <<>>, IsInjective(q)
  PROVE  /\ Tail(q) \in Seq(Slots) /\ IsInjective(Tail(q)) /\ Head(q) \in Slots
         /\ ToSet(Tail(q)) = ToSet(q) \ {Head(q)}
<1> DEFINE r == Tail(q)
<1>1. /\ r \in Seq(Slots) /\ DOMAIN r = 1..(Len(q) - 1) /\ DOMAIN q = 1..Len(q)
      /\ Len(q) \in Nat /\ Len(q) >= 1 /\ \A i \in 1..(Len(q) - 1) : r[i] = q[i + 1]
      /\ Head(q) = q[1] /\ Head(q) \in Slots
  OBVIOUS
<1> HIDE DEF r
<1>2. \A i \in DOMAIN r : i + 1 \in DOMAIN q /\ i + 1 # 1 /\ r[i] = q[i + 1] BY <1>1
<1>3. \A i \in DOMAIN q : i # 1 => i - 1 \in DOMAIN r /\ r[i - 1] = q[i] BY <1>1
<1>4. ASSUME NEW i \in DOMAIN r, NEW j \in DOMAIN r, r[i] = r[j] PROVE i = j
  <2>1. i + 1 = j + 1 BY <1>2, <1>4 DEF IsInjective
  <2> QED BY <1>1, <2>1
<1>5. ToSet(r) = ToSet(q) \ {Head(q)}
  <2>1. 1 \in DOMAIN q BY <1>1
  <2>2. \A x \in ToSet(r) : x \in ToSet(q) \ {Head(q)} BY <1>1, <1>2, <2>1 DEF ToSet, IsInjective
  <2>3. \A x \in ToSet(q) \ {Head(q)} : x \in ToSet(r) BY <1>1, <1>3 DEF ToSet
  <2> QED BY <2>2, <2>3
<1> QED BY <1>1, <1>4, <1>5 DEF r, IsInjective

(* A set of slots as a sequence has each of them once. *)
LEMMA SetOnce ==
  ASSUME NEW S \in SUBSET Slots
  PROVE  SetToSeq(S) \in Seq(Slots) /\ IsInjective(SetToSeq(S)) /\ ToSet(SetToSeq(S)) = S
<1> DEFINE n == Cardinality(S)
           f == SetToSeq(S)
<1>1. IsFiniteSet(S) BY FiniteAssumption, FS_Subset
<1>2. n \in Nat /\ ExistsBijection(1..n, S) BY <1>1, FS_CardinalityType
<1>3. \E g \in [1..n -> S] : IsInjective(g)
  BY <1>2 DEF ExistsBijection, Bijection, Injection
<1>4. f \in [1..n -> S] /\ IsInjective(f) BY <1>3 DEF SetToSeq
<1>5. IsFiniteSet(1..n) /\ Cardinality(1..n) = n BY <1>2, FS_Interval
<1> HIDE DEF n, f
<1>6. f \in Surjection(1..n, S) BY <1>1, <1>4, <1>5, FS_Injection DEF Injection, n
<1>7. ToSet(f) = S
  <2>1. \A x \in ToSet(f) : x \in S BY <1>4 DEF ToSet
  <2>2. \A x \in S : x \in ToSet(f) BY <1>4, <1>6 DEF ToSet, Surjection
  <2> QED BY <2>1, <2>2
<1>8. f \in Seq(Slots) BY <1>2, <1>4
<1> QED BY <1>4, <1>7, <1>8 DEF f

(* The queue holds what is lent and completed, once, and each of it has    *)
(* completed, with a result, or been canceled.                             *)
Settled(x) == /\ x.m_complete \/ x.m_canceled
              /\ x.m_complete => x.ec # "none"

Completed == {s \in Slots : lent[s] = "completed"}

Queue == /\ completed \in Seq(Slots) /\ IsInjective(completed) /\ ToSet(completed) = Completed
         /\ \A s \in Slots : lent[s] = "completed" => Settled(oper[s])

People == /\ alive \subseteq Sockets
          /\ running \in [slot : Slots, ec : Results] \cup {None}

QInv == IInv /\ Queue /\ People

(* An operation that completes was not queued, and is now.                 *)
LEMMA CompleteQueues ==
  ASSUME QInv, NEW s \in Slots, lent[s] \in {"no", "suspended"},
         NEW ec \in {"success", "failure"}, Complete(s, ec)
  PROVE  Queue'
<1>1. /\ completed \in Seq(Slots) /\ IsInjective(completed) /\ s \notin ToSet(completed)
      /\ completed' = Append(completed, s)
  BY DEF QInv, Queue, Completed, Complete
<1>2. /\ completed' \in Seq(Slots) /\ IsInjective(completed')
      /\ ToSet(completed') = ToSet(completed) \cup {s}
  BY <1>1, AppendOnce
<1>3. /\ \A t \in Slots : lent'[t] = IF t = s THEN "completed" ELSE lent[t]
      /\ \A t \in Slots : t # s => oper'[t] = oper[t]
      /\ oper'[s] = [InUse EXCEPT !.m_complete = TRUE, !.ec = ec]
  BY DEF QInv, IInv, Types, Complete
<1>4. Settled(oper'[s])
  BY <1>3, Fields DEF Operations, Settled
<1>5. ToSet(completed) = Completed
  BY DEF QInv, Queue
<1>6. Completed' = Completed \cup {s}
  BY <1>3 DEF Completed
<1>7. \A t \in Slots : lent[t] = "completed" => Settled(oper[t])
  BY DEF QInv, Queue
<1>8. \A t \in Slots : lent'[t] = "completed" => Settled(oper'[t])
  BY <1>3, <1>4, <1>7
<1> QED
  BY <1>2, <1>5, <1>6, <1>8 DEF Queue

(* Canceling queues what was suspended, if it is marked as canceled.       *)
LEMMA CancelQueues ==
  ASSUME QInv, NEW k \in Sockets, Cancels(k),
         \A s \in Slots : \/ lent[s] = "no"
                          \/ oper'[s] = oper[s] /\ Socket(s) # k
                          \/ /\ oper'[s].m_canceled /\ oper'[s].ec = oper[s].ec
                             /\ oper'[s].m_complete = oper[s].m_complete
  PROVE  Queue'
<1> DEFINE mine == {s \in Slots : Socket(s) = k /\ lent[s] = "suspended"}
           r == SetToSeq(mine)
<1>1. r \in Seq(Slots) /\ IsInjective(r) /\ ToSet(r) = mine
  BY SetOnce
<1>2. /\ completed \in Seq(Slots) /\ IsInjective(completed) /\ ToSet(completed) = Completed
      /\ completed' = completed \o r
      /\ \A s \in Slots : lent'[s] = IF s \in mine THEN "completed" ELSE lent[s]
  BY DEF QInv, Queue, Cancels
<1>3. ToSet(completed) \cap ToSet(r) = {}
  BY <1>1, <1>2 DEF Completed
<1>4. \A s \in mine : s \in Slots /\ Socket(s) = k /\ lent[s] = "suspended"
  OBVIOUS
<1> HIDE DEF r, mine
<1>5. /\ completed' \in Seq(Slots) /\ IsInjective(completed')
      /\ ToSet(completed') = ToSet(completed) \cup mine
  BY <1>1, <1>2, <1>3, JoinOnce
<1>6. Completed' = Completed \cup mine
  BY <1>2, <1>4 DEF Completed
<1>7. \A s \in Slots : /\ lent[s] = "completed" => Settled(oper[s])
                       /\ lent[s] = "suspended" => ~oper[s].m_complete
  BY DEF QInv, Queue, IInv, Agrees
<1>8. \A s \in Slots : lent'[s] = "completed" => Settled(oper'[s])
  <2> SUFFICES ASSUME NEW s \in Slots, lent'[s] = "completed" PROVE Settled(oper'[s])
    OBVIOUS
  <2>1. CASE s \in mine
    <3>1. Socket(s) = k /\ lent[s] = "suspended"
      BY <1>4, <2>1
    <3>2. oper'[s].m_canceled /\ oper'[s].m_complete = oper[s].m_complete
      BY <3>1
    <3>3. ~oper'[s].m_complete
      BY <1>7, <3>1, <3>2
    <3> QED
      BY <3>2, <3>3 DEF Settled
  <2>2. CASE s \notin mine
    <3>1. lent[s] = "completed" /\ Settled(oper[s])
      BY <1>2, <1>7, <2>2
    <3>2. CASE oper'[s] = oper[s]
      BY <3>1, <3>2
    <3>3. CASE /\ oper'[s].m_canceled /\ oper'[s].ec = oper[s].ec
               /\ oper'[s].m_complete = oper[s].m_complete
      BY <3>1, <3>3 DEF Settled
    <3> QED
      BY <3>1, <3>2, <3>3
  <2> QED
    BY <2>1, <2>2
<1> QED
  BY <1>2, <1>5, <1>6, <1>8 DEF Queue

(* What touches only operations that are not queued leaves the queue as it *)
(* was.                                                                    *)
LEMMA ElsewhereKeeps ==
  ASSUME QInv, completed' = completed,
         \A s \in Slots : \/ oper'[s] = oper[s] /\ lent'[s] = lent[s]
                          \/ lent[s] # "completed" /\ lent'[s] # "completed"
  PROVE  Queue'
<1>1. Completed' = Completed
  BY DEF Completed
<1> QED
  BY <1>1 DEF QInv, Queue

(* Before the first operation the queue is empty.                          *)
LEMMA QInvInit == Init => QInv
<1> SUFFICES ASSUME Init PROVE QInv
  OBVIOUS
<1>1. Queue
  BY DEF Init, Queue, Completed, ToSet, IsInjective
<1>2. People
  BY DEF Init, People
<1> QED
  BY <1>1, <1>2, IInvInit DEF QInv

(* Operations enter the queue as they complete or are canceled, and leave  *)
(* it from its head.                                                       *)
LEMMA QueueNext == QInv /\ [Next]_vars => Queue'
<1> SUFFICES ASSUME QInv, [Next]_vars PROVE Queue'
  OBVIOUS
<1>0. /\ \A s \in Slots : (in_use(s) <=> lent[s] # "no")
      /\ lent \in [Slots -> {"no", "suspended", "completed", "unwinding"}]
      /\ oper \in [Slots -> Operations]
  BY DEF QInv, IInv, Types, Agrees
<1>1. ASSUME NEW s \in Slots, alloc_throws(s) PROVE Queue'
  BY <1>0, <1>1, ElsewhereKeeps DEF alloc_throws, May
<1>2. ASSUME NEW s \in Slots, initiate(s) PROVE Queue'
  <2>1. lent[s] = "no"
    BY <1>0, <1>2 DEF initiate, May
  <2>2. CASE /\ oper' = [oper EXCEPT ![s] = InUse]
             /\ lent' = [lent EXCEPT ![s] = "suspended"]
             /\ UNCHANGED completed
    BY <1>0, <2>1, <2>2, ElsewhereKeeps
  <2>3. ASSUME NEW ec \in {"success", "failure"}, Complete(s, ec) PROVE Queue'
    BY <2>1, <2>3, CompleteQueues
  <2> QED
    BY <1>2, <2>2, <2>3 DEF initiate
<1>3. ASSUME NEW s \in Slots, initiate_throws(s) PROVE Queue'
  BY <1>0, <1>3, ElsewhereKeeps DEF initiate_throws, May
<1>4. ASSUME NEW s \in Slots, recycle(s) PROVE Queue'
  BY <1>0, <1>4, ElsewhereKeeps DEF recycle
<1>5. ASSUME NEW k \in Sockets, cancel(k) PROVE Queue'
  <2>1. Cancels(k)
    BY <1>5 DEF cancel
  <2>2. ASSUME NEW s \in Slots
        PROVE  \/ lent[s] = "no"
               \/ oper'[s] = oper[s] /\ Socket(s) # k
               \/ /\ oper'[s].m_canceled /\ oper'[s].ec = oper[s].ec
                  /\ oper'[s].m_complete = oper[s].m_complete
    <3>1. CASE Socket(s) = k /\ in_use(s)
      <4>1. oper'[s] = [oper[s] EXCEPT !.m_canceled = TRUE] /\ oper[s] \in Operations
        BY <1>0, <1>5, <3>1 DEF cancel
      <4> DEFINE y == [oper[s] EXCEPT !.m_canceled = TRUE]
      <4>2. y.m_canceled /\ y.ec = oper[s].ec /\ y.m_complete = oper[s].m_complete
        BY <4>1, Cancelled
      <4>3. oper'[s] = y
        BY <4>1
      <4> HIDE DEF y
      <4> QED
        BY <4>2, <4>3
    <3>2. CASE ~(Socket(s) = k /\ in_use(s))
      BY <1>0, <1>5, <3>2 DEF cancel
    <3> QED
      BY <3>1, <3>2
  <2> QED
    BY <2>1, <2>2, CancelQueues
<1>6. ASSUME NEW k \in Sockets, destroy(k) PROVE Queue'
  <2>1. Cancels(k)
    BY <1>6 DEF destroy
  <2>2. ASSUME NEW s \in Slots
        PROVE  \/ lent[s] = "no"
               \/ oper'[s] = oper[s] /\ Socket(s) # k
               \/ /\ oper'[s].m_canceled /\ oper'[s].ec = oper[s].ec
                  /\ oper'[s].m_complete = oper[s].m_complete
    <3>1. CASE Socket(s) = k /\ in_use(s)
      <4>1. /\ oper'[s] = [oper[s] EXCEPT !.m_canceled = TRUE, !.m_stream = FALSE]
            /\ oper[s] \in Operations
        BY <1>0, <1>6, <3>1 DEF destroy
      <4> DEFINE y == [oper[s] EXCEPT !.m_canceled = TRUE, !.m_stream = FALSE]
      <4>2. y.m_canceled /\ y.ec = oper[s].ec /\ y.m_complete = oper[s].m_complete
        BY <4>1, Cancelled
      <4>3. oper'[s] = y
        BY <4>1
      <4> HIDE DEF y
      <4> QED
        BY <4>2, <4>3
    <3>2. CASE ~(Socket(s) = k /\ in_use(s))
      BY <1>0, <1>6, <3>2 DEF destroy
    <3> QED
      BY <3>1, <3>2
  <2> QED
    BY <2>1, <2>2, CancelQueues
<1>7. CASE handler_returns
  BY <1>7, ElsewhereKeeps DEF handler_returns
<1>8. ASSUME NEW s \in Slots, advance(s) PROVE Queue'
  BY <1>8, CompleteQueues DEF advance
<1>9. ASSUME NEW s \in Slots, execute(s) PROVE Queue'
  <2>1. /\ completed \in Seq(Slots) /\ completed # <<>> /\ IsInjective(completed)
        /\ ToSet(completed) = Completed
        /\ s = Head(completed) /\ completed' = Tail(completed)
    BY <1>9 DEF QInv, Queue, execute
  <2>2. /\ completed' \in Seq(Slots) /\ IsInjective(completed')
        /\ ToSet(completed') = Completed \ {s}
    BY <2>1, TailOnce
  <2>3. \A t \in Slots : /\ lent'[t] = IF t = s THEN "no" ELSE lent[t]
                         /\ t # s => oper'[t] = oper[t]
    BY <1>0, <1>9 DEF execute
  <2>4. Completed' = Completed \ {s}
    BY <2>3 DEF Completed
  <2> QED
    BY <2>2, <2>3, <2>4 DEF QInv, Queue
<1>10. CASE destroy_service
  <2>1. completed' = <<>> /\ \A s \in Slots : lent'[s] = "no"
    BY <1>10 DEF destroy_service
  <2> QED
    BY <2>1 DEF Queue, Completed, ToSet, IsInjective
<1>11. CASE UNCHANGED vars
  BY <1>11, ElsewhereKeeps DEF vars
<1> QED
  BY <1>1, <1>2, <1>3, <1>4, <1>5, <1>6, <1>7, <1>8, <1>9, <1>10, <1>11
     DEF Next, Program, EventLoop

(* A handler that runs is one of a slot, and is told a result.             *)
LEMMA PeopleNext == QInv /\ [Next]_vars => People'
<1> SUFFICES ASSUME QInv, [Next]_vars PROVE People'
  OBVIOUS
<1>1. ASSUME NEW s \in Slots, execute(s) PROVE People'
  <2>1. s \in ToSet(completed)
    <3>1. completed \in Seq(Slots) /\ completed # <<>> /\ s = Head(completed)
      BY <1>1 DEF QInv, Queue, execute
    <3>2. 1 \in DOMAIN completed /\ s = completed[1]
      BY <3>1
    <3> QED
      BY <3>2 DEF ToSet
  <2>2. Settled(oper[s]) /\ oper[s] \in Operations
    BY <2>1 DEF QInv, Queue, Completed, IInv, Types
  <2>3. Told(s) \in Results
    BY <2>2 DEF Told, Results, Settled, Operations
  <2> QED
    BY <1>1, <2>3 DEF QInv, People, execute
<1>2. ASSUME NEW k \in Sockets, destroy(k) PROVE People'
  BY <1>2 DEF destroy, Cancels, QInv, People
<1>3. ASSUME UNCHANGED alive, running' \in {running, None} PROVE People'
  BY <1>3 DEF QInv, People
<1> QED
  BY <1>1, <1>2, <1>3
     DEF Next, Program, EventLoop, alloc_throws, initiate, initiate_throws, recycle, cancel,
         Cancels, handler_returns, advance, destroy_service, vars

(* QInv is an invariant of the operations and their queue.                 *)
LEMMA QueueInvariance == SafeSpec => []QInv
<1>1. QInv /\ [Next]_vars => QInv'
  BY IInvNext, QueueNext, PeopleNext DEF QInv
<1> QED
  BY <1>1, QInvInit, PTL DEF SafeSpec

-----------------------------------------------------------------------------
(* Every operation that is ready is queued exactly once, and has something *)
(* to tell its handler.                                                    *)
THEOREM QueueKept == SafeSpec => []QueuedOnce
<1>1. QInv => QueuedOnce BY DEF QInv, Queue, Completed, Settled, QueuedOnce
<1> QED BY <1>1, QueueInvariance, PTL

(* Type correctness: in particular, what a handler is told is a result,    *)
(* never the absence of one.                                               *)
THEOREM TypeCorrect == SafeSpec => []TypeOK
<1>1. QInv => TypeOK BY DEF QInv, IInv, Types, Operations, Queue, People, TypeOK
<1> QED BY <1>1, QueueInvariance, PTL
=============================================================================
