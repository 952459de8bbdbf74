------------------------- MODULE StreamRead_proofs -------------------------
(***************************************************************************)
(* Proofs about StreamRead: over a socket or OpenSSL no byte is lost,      *)
(* repeated or reordered by any sequence of reads, whatever the sizes of   *)
(* the callers' buffers and of the read-ahead buffer; and what a read is   *)
(* told is true.                                                           *)
(***************************************************************************)
EXTENDS StreamRead, SequenceTheorems, FiniteSetTheorems, TLAPS

Codes == {"none", "delim_not_found", "resource_unavailable_try_again"} \cup Endings
Wants == {"nothing", "read", "write"}
Stages == {"idle", "advancing", "suspended", "complete"}

Operations == [kind : Kinds \cup {"none"}, sync : BOOLEAN, size : Nat, placed : Seq(Nat),
               m_error_code : Codes, want : Wants, m_canceled : BOOLEAN, pc : Stages]

(* An operation in progress has room left in its caller's buffer.          *)
Fits(o) == o \in Operations /\ Len(o.placed) <= o.size

(* Only an operation that is complete leaves anything in the read-ahead    *)
(* buffer, and only one in progress has placed anything.                   *)
IInv == /\ stream \in Streams /\ ended \in Endings
        /\ input \in Seq({"byte", "delim"})
        /\ taken \in Nat /\ rab \in Seq(Nat) /\ received \in Seq(Nat)
        /\ Fits(oper)
        /\ oper.pc = "idle" => oper.placed = <<>>
        /\ oper.pc \in {"advancing", "suspended"} => rab = <<>>
        /\ InOrder

-----------------------------------------------------------------------------
LEMMA BytesType ==
  ASSUME NEW m \in Nat, NEW n \in Nat
  PROVE  /\ Bytes(m, n) \in Seq(Nat) /\ Len(Bytes(m, n)) = n
         /\ \A i \in 1 .. n : Bytes(m, n)[i] = m + i
BY DEF Bytes

(* Concatenation of sequences of positions. *)
LEMMA Concat ==
  ASSUME NEW s \in Seq(Nat), NEW t \in Seq(Nat)
  PROVE  /\ s \o t \in Seq(Nat) /\ Len(s \o t) = Len(s) + Len(t)
         /\ s \o <<>> = s /\ <<>> \o s = s
<1>1. s \o t \in Seq(Nat) /\ Len(s \o t) = Len(s) + Len(t)
  BY ConcatProperties, Zenon
<1>2. s \o <<>> = s /\ <<>> \o s = s
  BY ConcatEmptySeq, Zenon
<1> QED
  BY <1>1, <1>2

Associates(a, b, c) == (a \o b) \o c = a \o (b \o c)

LEMMA Associative ==
  ASSUME NEW s \in Seq(Nat), NEW t \in Seq(Nat), NEW u \in Seq(Nat)
  PROVE  Associates(s, t, u)
<1>1. \A S : \A a, b, c \in Seq(S) : Associates(a, b, c)
  BY ConcatAssociative, Zenon DEF Associates
<1> QED
  BY <1>1, Zenon

(* The bytes that are handed out next follow those handed out before. *)
LEMMA Follow ==
  ASSUME NEW m \in Nat, NEW n \in Nat, NEW a \in Seq(Nat), NEW b \in Seq(Nat), NEW c \in Seq(Nat),
         Len(a) = m, Len(b) = n, Len(c) = m + n,
         \A i \in 1 .. m : a[i] = 0 + i,
         \A i \in 1 .. n : b[i] = m + i,
         \A i \in 1 .. m + n : c[i] = 0 + i
  PROVE  a \o b = c
<1>1. a \o b \in Seq(Nat) /\ Len(a \o b) = m + n
  BY Concat
<1>2. \A i \in 1 .. Len(a) + Len(b) : (a \o b)[i] = IF i <= Len(a) THEN a[i] ELSE b[i - Len(a)]
  BY ConcatProperties, Zenon
<1>3. \A i \in 1 .. m + n : (a \o b)[i] = c[i]
  <2> SUFFICES ASSUME NEW i \in 1 .. m + n PROVE (a \o b)[i] = c[i]
    OBVIOUS
  <2>1. CASE i <= m
    BY <2>1, <1>2
  <2>2. CASE i > m
    <3>1. i - m \in 1 .. n
      BY <2>2
    <3>2. b[i - m] = m + (i - m)
      BY <3>1
    <3> QED
      BY <2>2, <3>2, <1>2
  <2> QED
    BY <2>1, <2>2
<1> QED
  BY <1>1, <1>3, SeqEqual

LEMMA BytesFollow ==
  ASSUME NEW m \in Nat, NEW n \in Nat
  PROVE  Bytes(0, m) \o Bytes(m, n) = Bytes(0, m + n)
<1>1. 0 \in Nat /\ m + n \in Nat
  OBVIOUS
<1>2. /\ Bytes(0, m) \in Seq(Nat) /\ Len(Bytes(0, m)) = m
      /\ \A i \in 1 .. m : Bytes(0, m)[i] = 0 + i
  BY <1>1, BytesType
<1>3. /\ Bytes(m, n) \in Seq(Nat) /\ Len(Bytes(m, n)) = n
      /\ \A i \in 1 .. n : Bytes(m, n)[i] = m + i
  BY <1>1, BytesType
<1>4. /\ Bytes(0, m + n) \in Seq(Nat) /\ Len(Bytes(0, m + n)) = m + n
      /\ \A i \in 1 .. m + n : Bytes(0, m + n)[i] = 0 + i
  BY <1>1, BytesType, Zenon
<1> QED
  BY <1>2, <1>3, <1>4, Follow

(* What is cut in two is the same as before when put together. *)
LEMMA Cut ==
  ASSUME NEW s \in Seq(Nat), NEW m \in 0 .. Len(s)
  PROVE  /\ SubSeq(s, 1, m) \in Seq(Nat) /\ Len(SubSeq(s, 1, m)) = m
         /\ SubSeq(s, m + 1, Len(s)) \in Seq(Nat)
         /\ SubSeq(s, 1, m) \o SubSeq(s, m + 1, Len(s)) = s
<1>0. Len(s) \in Nat
  OBVIOUS
<1>1. SubSeq(s, 1, m) \in Seq(Nat) /\ Len(SubSeq(s, 1, m)) = m
  BY <1>0
<1>2. SubSeq(s, m + 1, Len(s)) \in Seq(Nat)
  BY <1>0
<1>3. SubSeq(s, 1, m) \o SubSeq(s, m + 1, Len(s)) = SubSeq(s, 1, Len(s))
  <2>1. 1 \in 1 .. Len(s) + 1 /\ m \in 1 - 1 .. Len(s) /\ Len(s) \in m .. Len(s)
    BY <1>0
  <2> QED
    BY <2>1, ConcatAdjacentSubSeq, Zenon
<1>4. SubSeq(s, 1, Len(s)) = s
  BY SubSeqFull
<1> QED
  BY <1>1, <1>2, <1>3, <1>4

(* The fields of an operation can be set one by one. *)
LEMMA Placing ==
  ASSUME NEW o \in Operations, NEW p \in Seq(Nat)
  PROVE  LET z == [o EXCEPT !.placed = p]
         IN  z \in Operations /\ z.placed = p /\ z.size = o.size /\ z.pc = o.pc
BY DEF Operations

LEMMA Telling ==
  ASSUME NEW o \in Operations, NEW x \in Codes
  PROVE  LET z == [o EXCEPT !.m_error_code = x]
         IN  z \in Operations /\ z.placed = o.placed /\ z.size = o.size /\ z.pc = o.pc
BY DEF Operations

LEMMA Going ==
  ASSUME NEW o \in Operations, NEW x \in Stages, NEW w \in Wants
  PROVE  LET z == [o EXCEPT !.pc = x, !.want = w]
         IN  z \in Operations /\ z.placed = o.placed /\ z.size = o.size /\ z.pc = x
BY DEF Operations

(* How many bytes move: at most what there is and what there is room for, *)
(* and all of that if no delimiter is among them.                          *)
LEMMA Moved ==
  ASSUME NEW n \in Nat, NEW T \in SUBSET (1 .. n)
  PROVE  Cardinality(T) \in 0 .. n /\ (T = 1 .. n => Cardinality(T) = n)
<1>1. IsFiniteSet(1 .. n) /\ Cardinality(1 .. n) = n
  BY FS_Interval
<1>2. Cardinality(T) <= Cardinality(1 .. n) /\ IsFiniteSet(T)
  BY <1>1, FS_Subset
<1>3. Cardinality(T) \in Nat
  BY <1>2, FS_CardinalityType
<1> QED
  BY <1>1, <1>2, <1>3

(* Moving the first bytes of a buffer to what was placed. *)
LEMMA Moves ==
  ASSUME NEW o, Fits(o), NEW b \in Seq(Nat), NEW k \in 0 .. Len(b), k <= Space(o)
  PROVE  LET now == [o EXCEPT !.placed = @ \o SubSeq(b, 1, k)]
         IN  /\ Fits(now) /\ now.pc = o.pc /\ Space(now) = Space(o) - k
             /\ SubSeq(b, k + 1, Len(b)) \in Seq(Nat)
             /\ now.placed \o SubSeq(b, k + 1, Len(b)) = o.placed \o b
<1>0. /\ o \in Operations /\ o.placed \in Seq(Nat) /\ o.size \in Nat /\ Len(o.placed) \in Nat
      /\ Len(o.placed) <= o.size
  BY DEF Fits, Operations
<1> DEFINE x == SubSeq(b, 1, k)
           y == SubSeq(b, k + 1, Len(b))
           p == o.placed \o x
           now == [o EXCEPT !.placed = p]
<1>1. x \in Seq(Nat) /\ Len(x) = k /\ y \in Seq(Nat) /\ x \o y = b
  BY Cut
<1> HIDE DEF x, y
<1>2. p \in Seq(Nat) /\ Len(p) = Len(o.placed) + k /\ p \o y = o.placed \o b
  <2>1. p \in Seq(Nat) /\ Len(p) = Len(o.placed) + Len(x)
    BY <1>0, <1>1, Concat, Zenon
  <2>2. Associates(o.placed, x, y)
    BY <1>0, <1>1, Associative, Zenon
  <2>3. p \o y = o.placed \o b
    BY <1>1, <2>2 DEF Associates
  <2> QED
    BY <1>1, <2>1, <2>3
<1> HIDE DEF p
<1>4. now \in Operations /\ now.placed = p /\ now.size = o.size /\ now.pc = o.pc
  BY <1>0, <1>2, Placing, Zenon
<1> HIDE DEF now
<1>5. Fits(now) /\ Space(now) = Space(o) - k
  BY <1>0, <1>2, <1>4 DEF Fits, Space
<1> QED
  BY <1>1, <1>2, <1>4, <1>5 DEF x, y, p, now

(* ReadAheadBuffer::read() moves bytes from the front of the buffer to the *)
(* end of what was placed, and leaves nothing unless it is complete.       *)
LEMMA RabReadMoves ==
  ASSUME NEW o, Fits(o), NEW b \in Seq(Nat)
  PROVE  LET r == RabRead(o, b)
         IN  /\ Fits(r.oper) /\ r.left \in Seq(Nat)
             /\ r.oper.placed \o r.left = o.placed \o b
             /\ ~r.complete => r.left = <<>>
             /\ r.oper.pc = o.pc
<1> DEFINE n     == Least(Len(b), Space(o))
           Ends(i) == Until(o) /\ input[b[i]] = "delim"
           found == \E i \in 1 .. n : Ends(i)
           upto  == {i \in 1 .. n : \A j \in 1 .. i - 1 : ~Ends(j)}
           k     == Cardinality(upto)
           now   == [o EXCEPT !.placed = @ \o SubSeq(b, 1, k)]
           left  == SubSeq(b, k + 1, Len(b))
           full  == Space(now) = 0
           r     == RabRead(o, b)
<1>1. /\ r.left = left /\ r.complete = (found \/ full)
      /\ r.oper = IF found \/ (full /\ ~Until(o)) THEN [now EXCEPT !.m_error_code = "none"]
                  ELSE IF full THEN [now EXCEPT !.m_error_code = "delim_not_found"]
                  ELSE now
  BY Zenon DEF RabRead
<1> HIDE DEF r, left, now
<1>2. Len(b) \in Nat /\ Space(o) \in Nat
  BY DEF Fits, Operations, Space
<1>3. n \in 0 .. Len(b) /\ n <= Space(o) /\ n \in {Len(b), Space(o)}
  BY <1>2 DEF Least
<1> HIDE DEF n
<1>4. upto \subseteq 1 .. n /\ (~found => upto = 1 .. n)
  BY <1>3
<1> HIDE DEF upto, found
<1>5. k \in 0 .. n /\ (~found => k = n)
  BY <1>3, <1>4, Moved
<1> HIDE DEF k
<1>6. k \in 0 .. Len(b) /\ k <= Space(o)
  BY <1>2, <1>3, <1>5
<1>7. /\ Fits(now) /\ now.pc = o.pc /\ Space(now) = Space(o) - k
      /\ left \in Seq(Nat) /\ now.placed \o left = o.placed \o b
  BY <1>6, Moves DEF now, left
<1>8. Fits(r.oper) /\ r.oper.placed = now.placed /\ r.oper.pc = now.pc
  <2>1. now \in Operations /\ "none" \in Codes /\ "delim_not_found" \in Codes
    BY <1>7 DEF Fits, Codes
  <2>2. CASE r.oper = now
    BY <1>7, <2>2
  <2>3. CASE r.oper = [now EXCEPT !.m_error_code = "none"]
    BY <1>7, <2>1, <2>3, Telling DEF Fits
  <2>4. CASE r.oper = [now EXCEPT !.m_error_code = "delim_not_found"]
    BY <1>7, <2>1, <2>4, Telling DEF Fits
  <2> QED
    BY <1>1, <2>2, <2>3, <2>4
<1>9. ~r.complete => r.left = <<>>
  <2> SUFFICES ASSUME ~found, ~full PROVE left = <<>>
    BY <1>1
  <2>1. k = Len(b)
    BY <1>2, <1>3, <1>5, <1>7
  <2> QED
    BY <1>2, <2>1, SubSeqEmpty DEF left
<1>10. /\ Fits(r.oper) /\ r.left \in Seq(Nat)
       /\ r.oper.placed \o r.left = o.placed \o b
       /\ ~r.complete => r.left = <<>>
       /\ r.oper.pc = o.pc
  BY <1>1, <1>7, <1>8, <1>9
<1> QED
  BY <1>10 DEF r

(* A socket and OpenSSL hand out no more bytes than they are asked for,    *)
(* and none with an error.                                                 *)
LEMMA Outcomes ==
  ASSUME "secure_transport" \notin Streams, stream \in Streams, ended \in Endings,
         input \in Seq({"byte", "delim"}), taken \in Nat, NEW size \in Nat, NEW r \in do_read_some_async(size)
  PROVE  /\ r.n \in 0 .. size /\ (r.ec # "none" => r.n = 0)
         /\ r.ec \in Codes /\ r.want \in Wants
<1> USE DEF Outcome, Codes, Wants
<1>1. stream # "secure_transport"
  OBVIOUS
<1> DEFINE n == Least(Available, size)
           W == CASE stream = "tcp"     -> {"read"}
                  [] stream = "openssl" -> {"nothing"}
                  [] OTHER -> {"nothing", "read"}
<1>2. W \subseteq Wants
  OBVIOUS
<1> HIDE DEF W
<1>3. \A k \in 1 .. n : k \in 0 .. size
  BY DEF Least, Available
<1>4. \/ \E k \in 1 .. n, w \in W : r = Outcome(k, "none", w)
      \/ r = Outcome(0, "none", "write")
      \/ r = Outcome(0, "none", "read")
      \/ r = Outcome(0, ended, "nothing")
  BY <1>1 DEF do_read_some_async, W
<1>5. ended \in Codes
  OBVIOUS
<1> QED
  BY <1>2, <1>3, <1>4, <1>5

-----------------------------------------------------------------------------
(* Where an operation goes, it takes with it what has been placed. *)
Kept(z, o) == Fits(z) /\ z.placed = o.placed /\ z.size = o.size

LEMMA Goes ==
  ASSUME NEW o, Fits(o), NEW w \in Wants
  PROVE  /\ Kept(Complete(o), o) /\ Complete(o).pc = "complete"
         /\ Kept(Continue(o), o) /\ Continue(o).pc = "advancing"
         /\ Kept(Suspend(o, w), o) /\ Suspend(o, w).pc = "suspended"
         /\ Kept(Proceed(o, w), o) /\ Proceed(o, w).pc \in {"advancing", "suspended"}
         /\ Kept(Begin(o), o) /\ Begin(o).pc \in {"advancing", "suspended"}
<1>1. ASSUME NEW x \in Stages, NEW v \in Wants
      PROVE  /\ Kept([o EXCEPT !.pc = x, !.want = v], o)
             /\ [o EXCEPT !.pc = x, !.want = v].pc = x
  <2> DEFINE z == [o EXCEPT !.pc = x, !.want = v]
  <2>1. z \in Operations /\ z.placed = o.placed /\ z.size = o.size /\ z.pc = x
    BY Going, Zenon DEF Fits
  <2> HIDE DEF z
  <2>2. Kept(z, o)
    BY <2>1 DEF Kept, Fits
  <2> QED
    BY <2>1, <2>2 DEF z
<1>2. /\ "complete" \in Stages /\ "advancing" \in Stages /\ "suspended" \in Stages
      /\ "nothing" \in Wants /\ "read" \in Wants
  BY DEF Stages, Wants
<1>3. Kept(Complete(o), o) /\ Complete(o).pc = "complete"
  BY <1>1, <1>2 DEF Complete
<1>4. Kept(Continue(o), o) /\ Continue(o).pc = "advancing"
  BY <1>1, <1>2 DEF Continue
<1>5. \A v \in Wants : Kept(Suspend(o, v), o) /\ Suspend(o, v).pc = "suspended"
  BY <1>1, <1>2 DEF Suspend
<1>6. Kept(Proceed(o, w), o) /\ Proceed(o, w).pc \in {"advancing", "suspended"}
  BY <1>4, <1>5 DEF Proceed
<1>7. Kept(Begin(o), o) /\ Begin(o).pc \in {"advancing", "suspended"}
  BY <1>2, <1>4, <1>5 DEF Begin
<1> QED
  BY <1>3, <1>4, <1>5, <1>6, <1>7

LEMMA Fails ==
  ASSUME NEW o, Fits(o), NEW ec \in Codes
  PROVE  Kept(Fail(o, ec), o) /\ Fail(o, ec).pc = "complete"
<1> DEFINE z == [o EXCEPT !.m_error_code = ec]
<1>1. Fits(z) /\ z.placed = o.placed /\ z.size = o.size
  BY Telling DEF Fits
<1> HIDE DEF z
<1>2. Kept(Complete(z), z) /\ Complete(z).pc = "complete"
  BY <1>1, "nothing" \in Wants, Goes DEF Wants
<1> QED
  BY <1>1, <1>2 DEF Fail, Kept, z

(* Bytes of the stream are placed behind those that have been. *)
Placed(o, t, k, ec) == [o EXCEPT !.placed = @ \o Bytes(t, k), !.m_error_code = ec]

LEMMA Transfers ==
  ASSUME NEW o, Fits(o), NEW t \in Nat, NEW k \in Nat, k <= Space(o), NEW ec \in Codes
  PROVE  /\ Fits(Placed(o, t, k, ec))
         /\ Placed(o, t, k, ec).placed = o.placed \o Bytes(t, k)
<1> DEFINE p == o.placed \o Bytes(t, k)
           y == [o EXCEPT !.placed = p]
           z == [y EXCEPT !.m_error_code = ec]
<1>1. o \in Operations /\ o.placed \in Seq(Nat) /\ o.size \in Nat /\ Len(o.placed) \in Nat
  BY DEF Fits, Operations
<1>2. Bytes(t, k) \in Seq(Nat) /\ Len(Bytes(t, k)) = k
  BY BytesType
<1>3. p \in Seq(Nat) /\ Len(p) = Len(o.placed) + k
  <2>1. p \in Seq(Nat) /\ Len(p) = Len(o.placed) + Len(Bytes(t, k))
    BY <1>1, <1>2, Concat, Zenon
  <2> QED
    BY <1>2, <2>1
<1> HIDE DEF p
<1>4. y \in Operations /\ y.placed = p /\ y.size = o.size
  BY <1>1, <1>3, Placing
<1> HIDE DEF y
<1>5. z \in Operations /\ z.placed = p /\ z.size = o.size
  BY <1>4, Telling
<1>6. Fits(z)
  BY <1>1, <1>3, <1>5 DEF Fits, Space
<1>7. z = Placed(o, t, k, ec)
  BY <1>1 DEF p, y, Operations, Placed
<1> QED
  BY <1>5, <1>6, <1>7 DEF p

-----------------------------------------------------------------------------
LEMMA Initially == Init => IInv
<1> SUFFICES ASSUME Init PROVE IInv
  OBVIOUS
<1>1. /\ Idle \in Operations /\ Idle.placed = <<>> /\ Idle.size = 0 /\ Idle.pc = "idle"
  BY DEF Idle, Operations, Codes, Wants, Stages, Endings, Kinds
<1>2. Fits(Idle)
  BY <1>1 DEF Fits
<1>3. Bytes(0, 0) = <<>>
  BY DEF Bytes
<1>4. (<<>> \o <<>>) \o <<>> = <<>>
  BY <<>> \in Seq(Nat), Concat
<1> QED
  BY <1>1, <1>2, <1>3, <1>4 DEF Init, IInv, InOrder, Endings

(* The parts of the invariant that say where the bytes are. *)
Places == /\ taken \in Nat /\ rab \in Seq(Nat) /\ received \in Seq(Nat) /\ Fits(oper)
          /\ oper.pc = "idle" => oper.placed = <<>>
          /\ oper.pc \in {"advancing", "suspended"} => rab = <<>>
          /\ InOrder

Surroundings == stream \in Streams /\ ended \in Endings /\ input \in Seq({"byte", "delim"})

LEMMA IInvParts == IInv <=> Surroundings /\ Places
BY DEF IInv, Surroundings, Places

LEMMA EnvironmentKeeps == IInv /\ Environment => IInv'
<1> SUFFICES ASSUME IInv, Environment PROVE IInv'
  OBVIOUS
<1>1. UNCHANGED <<stream, taken, rab, oper, received>>
  BY DEF Environment, peer_sends, peer_closes, connection_breaks, renegotiates, renegotiated
<1>2. ended' \in Endings
  BY DEF Environment, peer_sends, peer_closes, connection_breaks, renegotiates, renegotiated,
         IInv, Endings
<1>3. input' \in Seq({"byte", "delim"})
  <2>1. CASE peer_sends
    BY <2>1 DEF peer_sends, IInv
  <2>2. CASE connection_breaks
    <3>1. PICK n \in taken .. Len(input) : input' = SubSeq(input, 1, n)
      BY <2>2 DEF connection_breaks
    <3> QED
      BY <3>1 DEF IInv
  <2>3. CASE peer_closes \/ renegotiates \/ renegotiated
    BY <2>3 DEF peer_closes, renegotiates, renegotiated, IInv
  <2> QED
    BY <2>1, <2>2, <2>3 DEF Environment
<1> QED
  BY <1>1, <1>2, <1>3 DEF IInv, InOrder

(* A new operation has placed nothing. *)
LEMMA New ==
  ASSUME NEW kind \in Kinds, NEW sync \in BOOLEAN, NEW size \in 0 .. MaxSize
  PROVE  Fits(NewOper(kind, sync, size)) /\ NewOper(kind, sync, size).placed = <<>>
<1>1. Idle \in Operations /\ Idle.placed = <<>>
  BY DEF Idle, Operations, Codes, Wants, Stages, Endings, Kinds
<1>2. size \in Nat
  BY SizesAssumption
<1> DEFINE z == NewOper(kind, sync, size)
<1>3. z \in Operations
  BY <1>1, <1>2 DEF NewOper, Operations
<1>4. z.placed = <<>> /\ z.size = size
  BY <1>1 DEF NewOper, Operations
<1> QED
  BY <1>2, <1>3, <1>4 DEF Fits

LEMMA InitiateKeeps ==
  ASSUME IInv, NEW kind \in Kinds, NEW sync \in BOOLEAN, NEW size \in 0 .. MaxSize,
         initiate(kind, sync, size)
  PROVE  Places'
<1> DEFINE o == NewOper(kind, sync, size)
<1>1. Fits(o) /\ o.placed = <<>>
  BY New
<1>2. /\ rab = <<>> /\ oper.pc = "idle" /\ UNCHANGED <<taken, received, rab>>
      /\ oper' = Complete(o) \/ oper' = Begin(o)
  BY DEF initiate, Starts
<1> HIDE DEF o
<1>3. Kept(oper', o) /\ oper'.pc # "idle"
  BY <1>1, <1>2, "nothing" \in Wants, Goes DEF Wants
<1> QED
  BY <1>1, <1>2, <1>3 DEF IInv, Places, InOrder, Kept

LEMMA InitiateBufferedKeeps ==
  ASSUME IInv, NEW kind \in Kinds, NEW sync \in BOOLEAN, NEW size \in 0 .. MaxSize,
         initiate_buffered(kind, sync, size)
  PROVE  Places'
<1> DEFINE o == NewOper(kind, sync, size)
           r == RabRead(o, rab)
<1>1. Fits(o) /\ o.placed = <<>>
  BY New
<1>2. /\ oper.pc = "idle" /\ UNCHANGED <<taken, received>> /\ rab' = r.left
      /\ oper' = IF r.complete THEN Complete(r.oper) ELSE Begin(r.oper)
  BY DEF initiate_buffered, Starts
<1> HIDE DEF o
<1>3. /\ taken \in Nat /\ rab \in Seq(Nat) /\ received \in Seq(Nat) /\ oper.placed = <<>>
      /\ (received \o <<>>) \o rab = Bytes(0, taken)
  BY <1>2 DEF IInv, InOrder
<1>4. /\ Fits(r.oper) /\ r.left \in Seq(Nat) /\ r.oper.placed \o r.left = <<>> \o rab
      /\ (~r.complete => r.left = <<>>)
  <2>1. o.placed \o rab = <<>> \o rab
    BY <1>1
  <2> HIDE DEF r
  <2>2. /\ Fits(r.oper) /\ r.left \in Seq(Nat) /\ r.oper.placed \o r.left = o.placed \o rab
        /\ (~r.complete => r.left = <<>>)
    BY <1>1, <1>3, RabReadMoves DEF r
  <2> QED
    BY <2>1, <2>2
<1> HIDE DEF r
<1>5. /\ Kept(oper', r.oper) /\ oper'.pc # "idle"
      /\ oper'.pc \in {"advancing", "suspended"} => ~r.complete
  BY <1>2, <1>4, "nothing" \in Wants, Goes DEF Wants
<1>6. r.oper.placed \in Seq(Nat)
  BY <1>4 DEF Fits, Operations
<1>7. (received \o r.oper.placed) \o r.left = (received \o <<>>) \o rab
  <2>1. Associates(received, r.oper.placed, r.left)
    BY <1>3, <1>4, <1>6, Associative
  <2>2. Associates(received, <<>>, rab)
    BY <1>3, <<>> \in Seq(Nat), Associative
  <2> QED
    BY <1>4, <2>1, <2>2 DEF Associates
<1> QED
  BY <1>2, <1>3, <1>4, <1>5, <1>7 DEF Places, InOrder, Kept

(* What has been read ahead, or placed, is received. *)
LEMMA ReceivingKeeps == IInv /\ (clear \/ recycle_and_execute) => Places'
<1> SUFFICES ASSUME IInv, clear \/ recycle_and_execute PROVE Places'
  OBVIOUS
<1>1. /\ taken \in Nat /\ rab \in Seq(Nat) /\ received \in Seq(Nat) /\ oper.placed \in Seq(Nat)
      /\ (received \o oper.placed) \o rab = Bytes(0, taken) /\ Fits(oper)
      /\ (oper.pc = "idle" => oper.placed = <<>>)
  BY DEF IInv, InOrder, Fits, Operations
<1>2. CASE clear
  <2>1. received \o rab = Bytes(0, taken) /\ received \o rab \in Seq(Nat)
    BY <1>1, <1>2, Concat DEF clear
  <2>2. ((received \o rab) \o <<>>) \o <<>> = received \o rab
    BY <2>1, Concat
  <2> QED
    BY <1>1, <1>2, <2>1, <2>2, <<>> \in Seq(Nat) DEF clear, Places, InOrder
<1>3. CASE recycle_and_execute
  <2>1. /\ Idle \in Operations /\ Idle.placed = <<>> /\ Idle.size = 0 /\ Idle.pc = "idle"
    BY DEF Idle, Operations, Codes, Wants, Stages, Endings, Kinds
  <2>2. received \o oper.placed \in Seq(Nat)
    BY <1>1, Concat
  <2>3. ((received \o oper.placed) \o <<>>) \o rab = Bytes(0, taken)
    BY <1>1, <2>2, Concat
  <2> QED
    BY <1>1, <1>3, <2>1, <2>2, <2>3 DEF recycle_and_execute, Places, InOrder, Fits
<1> QED
  BY <1>2, <1>3

LEMMA WaitingKeeps == IInv /\ (cancel \/ ready) => Places'
<1> SUFFICES ASSUME IInv, cancel \/ ready PROVE Places'
  OBVIOUS
<1>1. oper \in Operations /\ Fits(oper)
  BY DEF IInv, Fits
<1>2. CASE cancel
  <2>1. oper' \in Operations /\ oper'.placed = oper.placed /\ oper'.size = oper.size
        /\ oper'.pc = "complete"
    BY <1>1, <1>2 DEF cancel, Operations, Stages
  <2> QED
    BY <1>1, <1>2, <2>1 DEF cancel, IInv, Places, InOrder, Fits
<1>3. CASE ready
  <2>1. Kept(oper', oper) /\ oper'.pc = "advancing" /\ oper.pc = "suspended"
    BY <1>1, <1>3, "nothing" \in Wants, Goes DEF ready, Wants
  <2> QED
    BY <1>1, <1>3, <2>1 DEF ready, IInv, Places, InOrder, Kept
<1> QED
  BY <1>2, <1>3

-----------------------------------------------------------------------------
(* What a turn of a loop finds. *)
LEMMA Finds ==
  ASSUME IInv, oper.pc = "advancing"
  PROVE  /\ taken \in Nat /\ received \in Seq(Nat) /\ oper.placed \in Seq(Nat) /\ Fits(oper)
         /\ rab = <<>> /\ (received \o oper.placed) \o <<>> = Bytes(0, taken)
         /\ Space(oper) \in Nat /\ s_size \in Nat
<1>1. /\ taken \in Nat /\ received \in Seq(Nat) /\ Fits(oper) /\ rab = <<>>
      /\ (received \o oper.placed) \o rab = Bytes(0, taken)
  BY DEF IInv, InOrder
<1>2. oper.placed \in Seq(Nat) /\ oper.size \in Nat /\ Len(oper.placed) <= oper.size
  BY <1>1 DEF Fits, Operations
<1>3. Space(oper) \in Nat
  BY <1>2 DEF Space
<1>4. s_size \in Nat
  BY SizesAssumption
<1> QED
  BY <1>1, <1>2, <1>3, <1>4

(* A turn in which nothing comes. *)
LEMMA StayKeeps ==
  ASSUME IInv, oper.pc = "advancing", UNCHANGED <<taken, rab, received>>,
         Kept(oper', oper), oper'.pc # "idle"
  PROVE  Places'
BY DEF IInv, Places, InOrder, Kept

(* The bytes are where they belong after a turn in which k bytes came.     *)
LEMMA TurnKeeps ==
  ASSUME IInv, oper.pc = "advancing", NEW k \in Nat, taken' = taken + k, received' = received,
         Fits(oper'), rab' \in Seq(Nat),
         oper'.placed \o rab' = oper.placed \o Bytes(taken, k),
         oper'.pc # "idle", oper'.pc \in {"advancing", "suspended"} => rab' = <<>>
  PROVE  Places'
<1>1. oper'.placed \in Seq(Nat)
  BY DEF Fits, Operations
<1>2. (received \o oper'.placed) \o rab' = Bytes(0, taken + k)
  <2>1. /\ taken \in Nat /\ received \in Seq(Nat) /\ oper.placed \in Seq(Nat)
        /\ (received \o oper.placed) \o <<>> = Bytes(0, taken)
    BY Finds
  <2> DEFINE q == oper'.placed
             l == rab'
             p == oper.placed
  <2>2. q \in Seq(Nat) /\ l \in Seq(Nat) /\ p \in Seq(Nat) /\ q \o l = p \o Bytes(taken, k)
        /\ (received \o p) \o <<>> = Bytes(0, taken)
    BY <1>1, <2>1
  <2> HIDE DEF p, q, l
  <2>3. (received \o q) \o l = Bytes(0, taken + k)
    <3> DEFINE b == Bytes(taken, k)
    <3>1. b \in Seq(Nat) /\ q \o l = p \o b
      BY <2>1, <2>2, BytesType
    <3>2. Bytes(0, taken) \o b = Bytes(0, taken + k)
      BY <2>1, BytesFollow
    <3> HIDE DEF b
    <3>3. Associates(received, q, l)
      BY <2>1, <2>2, Associative, Zenon
    <3>4. Associates(received, p, b)
      BY <2>1, <2>2, <3>1, Associative, Zenon
    <3>5. received \o p \in Seq(Nat)
      BY <2>1, <2>2, Concat, Zenon
    <3>6. received \o p = Bytes(0, taken)
      BY <2>2, <3>5, Concat
    <3> QED
      BY <3>1, <3>2, <3>3, <3>4, <3>6 DEF Associates
  <2> QED
    BY <2>3 DEF q, l
<1>3. taken + k \in Nat
  BY Finds
<1> QED
  BY <1>2, <1>3, Finds DEF Places, InOrder

LEMMA AdvanceKeeps ==
  ASSUME IInv, "secure_transport" \notin Streams, advance \/ read_sync
  PROVE  Places'
<1>0. oper.pc = "advancing" /\ UNCHANGED <<rab, received>>
  BY DEF advance, read_sync
<1>1. /\ taken \in Nat /\ received \in Seq(Nat) /\ oper.placed \in Seq(Nat) /\ Fits(oper)
      /\ rab = <<>> /\ Space(oper) \in Nat
  BY <1>0, Finds
<1> DEFINE now(r) == [oper EXCEPT !.placed = @ \o Bytes(taken, r.n), !.m_error_code = r.ec]
<1>2. PICK r \in do_read_some_async(Space(oper)) :
        /\ taken' = taken + r.n
        /\ \/ oper' = Complete(now(r)) \/ oper' = Continue(now(r))
           \/ oper' = Suspend(now(r), r.want) \/ oper' = Proceed(now(r), r.want)
           \/ r.ec # "none" /\ oper' = Fail(oper, r.ec)
  <2>1. CASE advance
    BY <2>1 DEF advance, advance_turn
  <2>2. CASE read_sync
    BY <2>2 DEF read_sync, do_read_some_sync
  <2> QED
    BY <2>1, <2>2
<1>3. r.n \in Nat /\ r.n <= Space(oper) /\ (r.ec # "none" => r.n = 0) /\ r.ec \in Codes /\ r.want \in Wants
  BY <1>1, Outcomes DEF IInv
<1>4. Fits(now(r)) /\ now(r).placed = oper.placed \o Bytes(taken, r.n)
  <2>1. now(r) = Placed(oper, taken, r.n, r.ec)
    BY Zenon DEF Placed
  <2> HIDE DEF now
  <2> QED
    <3>1. \A k \in Nat, ec \in Codes : k <= Space(oper) =>
               /\ Fits(Placed(oper, taken, k, ec))
               /\ Placed(oper, taken, k, ec).placed = oper.placed \o Bytes(taken, k)
      BY <1>1, Transfers
    <3>2. Fits(Placed(oper, taken, r.n, r.ec))
      BY <1>3, <3>1
    <3>3. Placed(oper, taken, r.n, r.ec).placed = oper.placed \o Bytes(taken, r.n)
      BY <1>3, <3>1
    <3> QED
      BY <2>1, <3>2, <3>3
<1> HIDE DEF now
<1>5. oper.placed \o Bytes(taken, r.n) \in Seq(Nat)
  <2>1. Bytes(taken, r.n) \in Seq(Nat)
    BY <1>1, <1>3, BytesType
  <2> QED
    BY <1>1, <2>1, Concat
<1>6. CASE r.ec # "none" /\ oper' = Fail(oper, r.ec)
  <2>1. Kept(oper', oper) /\ oper'.pc = "complete"
    BY <1>1, <1>3, <1>6, Fails
  <2>2. taken' = taken
    BY <1>1, <1>2, <1>3, <1>6
  <2> QED
    BY <1>0, <2>1, <2>2, StayKeeps
<1>7. CASE ~(r.ec # "none" /\ oper' = Fail(oper, r.ec))
  <2>1. Kept(oper', now(r)) /\ oper'.pc # "idle"
    BY <1>2, <1>3, <1>4, <1>7, Goes
  <2>2. oper'.placed = oper.placed \o Bytes(taken, r.n)
    BY <1>4, <2>1 DEF Kept
  <2>3. oper'.placed \o <<>> = oper.placed \o Bytes(taken, r.n)
    BY <1>5, <2>2, Concat
  <2> QED
    BY <1>0, <1>1, <1>2, <1>3, <2>1, <2>3, <<>> \in Seq(Nat), TurnKeeps DEF Kept
<1> QED
  BY <1>6, <1>7

LEMMA AdvanceBufferedKeeps ==
  ASSUME IInv, "secure_transport" \notin Streams, advance_buffered
  PROVE  Places'
<1>0. oper.pc = "advancing" /\ UNCHANGED received
  BY DEF advance_buffered
<1>1. /\ taken \in Nat /\ received \in Seq(Nat) /\ oper.placed \in Seq(Nat) /\ Fits(oper)
      /\ rab = <<>> /\ s_size \in Nat
  BY <1>0, Finds
<1> DEFINE o(r) == [oper EXCEPT !.m_error_code = r.ec]
           t(r) == RabRead(o(r), Bytes(taken, r.n))
<1>2. PICK r \in do_read_some_async(s_size) :
        /\ taken' = taken + r.n
        /\ r.n = 0 => /\ UNCHANGED rab
                      /\ oper' = IF r.ec # "none" THEN Fail(oper, r.ec) ELSE Suspend(oper, r.want)
        /\ r.n # 0 => /\ rab' = t(r).left
                      /\ oper' = IF t(r).complete \/ t(r).oper.m_error_code = "end_of_input"
                                 THEN Complete(t(r).oper) ELSE Proceed(t(r).oper, r.want)
  BY DEF advance_buffered
<1>3. r.n \in Nat /\ r.ec \in Codes /\ r.want \in Wants
  BY <1>1, Outcomes DEF IInv
<1>4. Fits(o(r)) /\ o(r).placed = oper.placed
  BY <1>1, <1>3, Telling DEF Fits
<1>5. Bytes(taken, r.n) \in Seq(Nat)
  BY <1>1, <1>3, BytesType
<1>6. CASE r.n = 0
  <2>1. Kept(oper', oper) /\ oper'.pc # "idle"
    BY <1>1, <1>2, <1>3, <1>6, Fails, Goes
  <2>2. taken' = taken
    BY <1>1, <1>2, <1>6
  <2> QED
    BY <1>0, <1>2, <1>6, <2>1, <2>2, StayKeeps
<1>7. CASE r.n # 0
  <2> HIDE DEF o
  <2>1. /\ Fits(t(r).oper) /\ t(r).left \in Seq(Nat)
        /\ t(r).oper.placed \o t(r).left = oper.placed \o Bytes(taken, r.n)
        /\ ~t(r).complete => t(r).left = <<>>
    BY <1>4, <1>5, RabReadMoves, ZenonT(40)
  <2> HIDE DEF t
  <2>2. /\ Kept(oper', t(r).oper) /\ oper'.pc # "idle"
        /\ oper'.pc \in {"advancing", "suspended"} => ~t(r).complete
    BY <1>2, <1>3, <1>7, <2>1, Goes
  <2> QED
    BY <1>0, <1>2, <1>3, <1>7, <2>1, <2>2, TurnKeeps DEF Kept
<1> QED
  BY <1>6, <1>7

LEMMA BufferedReadSyncKeeps ==
  ASSUME IInv, "secure_transport" \notin Streams, buffered_read_sync
  PROVE  Places'
<1>0. oper.pc = "advancing" /\ UNCHANGED received
  BY DEF buffered_read_sync
<1>1. /\ taken \in Nat /\ received \in Seq(Nat) /\ oper.placed \in Seq(Nat) /\ Fits(oper)
      /\ rab = <<>> /\ s_size \in Nat
  BY <1>0, Finds
<1> DEFINE t(r) == RabRead(oper, Bytes(taken, r.n))
<1>2. PICK r \in do_read_some_sync(s_size) :
        /\ taken' = taken + r.n
        /\ r.n = 0 /\ r.ec # "none" => UNCHANGED rab /\ oper' = Fail(oper, r.ec)
        /\ r.ec = "none" /\ r.n # 0 =>
              /\ rab' = t(r).left
              /\ oper' = IF t(r).complete THEN Complete(t(r).oper) ELSE Continue(t(r).oper)
  BY DEF buffered_read_sync
<1>3. r \in do_read_some_async(s_size) /\ (r.n > 0 \/ r.ec # "none")
  BY DEF do_read_some_sync
<1>4. r.n \in Nat /\ (r.ec # "none" => r.n = 0) /\ r.ec \in Codes
  BY <1>1, <1>3, Outcomes DEF IInv
<1>5. Bytes(taken, r.n) \in Seq(Nat)
  BY <1>1, <1>4, BytesType
<1>6. CASE r.ec # "none"
  <2>1. Kept(oper', oper) /\ oper'.pc = "complete"
    BY <1>1, <1>2, <1>4, <1>6, Fails
  <2>2. r.n = 0 /\ taken' = taken
    BY <1>1, <1>2, <1>4, <1>6
  <2> QED
    BY <1>0, <1>2, <1>6, <2>1, <2>2, StayKeeps
<1>7. CASE r.ec = "none"
  <2>0. r.n # 0 /\ r.n \in Nat
    BY <1>1, <1>3, <1>4, <1>7
  <2>1. /\ Fits(t(r).oper) /\ t(r).left \in Seq(Nat)
        /\ t(r).oper.placed \o t(r).left = oper.placed \o Bytes(taken, r.n)
        /\ ~t(r).complete => t(r).left = <<>>
    BY <1>1, <1>5, RabReadMoves
  <2> HIDE DEF t
  <2>2. /\ Kept(oper', t(r).oper) /\ oper'.pc # "idle"
        /\ oper'.pc \in {"advancing", "suspended"} => ~t(r).complete
    BY <1>2, <1>7, <2>0, <2>1, "nothing" \in Wants, Goes DEF Wants
  <2> QED
    BY <1>0, <1>2, <1>7, <2>0, <2>1, <2>2, TurnKeeps DEF Kept
<1> QED
  BY <1>6, <1>7

(* A synchronous function that gives up has placed what it has placed.     *)
LEMMA TryAgainKeeps == ASSUME IInv, try_again_sync PROVE Places'
<1>1. /\ oper.pc = "advancing" /\ oper' = Fail(oper, "resource_unavailable_try_again")
      /\ UNCHANGED <<taken, rab, received>>
  BY DEF try_again_sync
<1>2. Fits(oper) /\ "resource_unavailable_try_again" \in Codes
  BY DEF IInv, Codes
<1>3. Kept(oper', oper) /\ oper'.pc = "complete"
  BY <1>1, <1>2, Fails
<1> QED
  BY <1>1, <1>3, StayKeeps

-----------------------------------------------------------------------------
LEMMA SurroundingsKeep ==
  ASSUME Surroundings, UNCHANGED environment
  PROVE  Surroundings'
BY DEF Surroundings, environment

LEMMA Invariance ==
  ASSUME "secure_transport" \notin Streams
  PROVE  Spec => []IInv
<1>1. Init => IInv
  BY Initially
<1>2. IInv /\ [Next]_vars => IInv'
  <2> SUFFICES ASSUME IInv, [Next]_vars PROVE IInv'
    OBVIOUS
  <2>1. Surroundings /\ Places
    BY IInvParts
  <2>2. CASE Environment
    BY <2>2, EnvironmentKeeps
  <2>3. CASE UNCHANGED vars
    BY <2>3 DEF vars, environment, IInv, InOrder
  <2>4. CASE Program
    <3>1. UNCHANGED environment
      BY <2>4, SMTT(20) DEF Program, initiate, initiate_buffered, Starts, clear, cancel
    <3>2. Places'
      BY <2>4, InitiateKeeps, InitiateBufferedKeeps, ReceivingKeeps, WaitingKeeps DEF Program
    <3> QED
      BY <2>1, <3>1, <3>2, SurroundingsKeep DEF IInv, Surroundings, Places
  <2>5. CASE Turn
    <3>1. UNCHANGED environment
      BY <2>5 DEF Turn, advance, advance_buffered, read_sync, buffered_read_sync
    <3>2. Places'
      BY <2>5, AdvanceKeeps, AdvanceBufferedKeeps, BufferedReadSyncKeeps DEF Turn
    <3> QED
      BY <2>1, <3>1, <3>2, SurroundingsKeep DEF IInv, Surroundings, Places
  <2>6. CASE ready \/ recycle_and_execute
    <3>1. UNCHANGED environment
      BY <2>6 DEF ready, recycle_and_execute
    <3>2. Places'
      BY <2>6, WaitingKeeps, ReceivingKeeps
    <3> QED
      BY <2>1, <3>1, <3>2, SurroundingsKeep DEF IInv, Surroundings, Places
  <2>7. CASE try_again_sync
    <3>1. UNCHANGED environment
      BY <2>7 DEF try_again_sync
    <3>2. Places'
      BY <2>7, TryAgainKeeps
    <3> QED
      BY <2>1, <3>1, <3>2, SurroundingsKeep DEF IInv, Surroundings, Places
  <2> QED
    BY <2>2, <2>3, <2>4, <2>5, <2>6, <2>7 DEF Next
<1> QED
  BY <1>1, <1>2, PTL DEF Spec

(* Over a socket or OpenSSL, what the callers have received, what has been *)
(* placed for the operation in progress and what has been read ahead is,   *)
(* in this order, what the stream has handed out, for all sizes of buffers *)
(* and any number of bytes.                                                *)
THEOREM ReadsInOrder ==
  ASSUME "secure_transport" \notin Streams
  PROVE  Spec => []InOrder
<1>1. IInv => InOrder
  BY DEF IInv
<1> QED
  BY <1>1, Invariance, PTL

-----------------------------------------------------------------------------
(* Over a socket or OpenSSL an operation never waits for more when it has  *)
(* what it needs, and what it is told is true, whatever the sizes of the   *)
(* buffers and however the input arrives.                                  *)


(* The delimiters among what has been placed, for an input. *)
Marks(o, in) == {i \in DOMAIN o.placed : in[o.placed[i]] = "delim"}

(* An operation that goes on has reason to. *)
Roomy(o, in) == /\ ~o.m_canceled /\ o.m_error_code = "none" /\ Space(o) > 0
                /\ o.kind = "read_some" => o.placed = <<>>
                /\ Until(o) => Marks(o, in) = {}

(* The answer of one that is complete is right. *)
Success(o, in) ==
    CASE o.kind = "read_some"           -> o.placed # <<>> \/ o.size = 0
      [] o.kind = "buffered_read_until" -> Len(o.placed) > 0 /\ Marks(o, in) = {Len(o.placed)}
      [] OTHER                          -> Space(o) = 0

Right(o, in) ==
    /\ o.m_error_code = "none" <=> Success(o, in)
    /\ o.m_error_code = "delim_not_found" => Until(o) /\ Space(o) = 0 /\ Marks(o, in) = {}

AtEnd(o, in, end, n, left) ==
    o.m_error_code \in Endings => /\ o.m_error_code = end /\ end # "no"
                                  /\ n = Len(in) /\ left = <<>>

Sound == /\ taken <= Len(input)
         /\ oper.pc \in {"advancing", "suspended"} => Roomy(oper, input)
         /\ oper.pc = "complete" /\ ~oper.m_canceled => 
              Right(oper, input) /\ AtEnd(oper, input, ended, taken, rab)

SInv == IInv /\ Sound

-----------------------------------------------------------------------------
(* The first of some of n elements is how many there are up to it.         *)
LEMMA Upto ==
  ASSUME NEW n \in Nat, NEW E \in SUBSET (1 .. n)
  PROVE  LET k == Cardinality({i \in 1 .. n : \A j \in 1 .. i - 1 : j \notin E})
         IN  /\ k \in 0 .. n
             /\ E = {} => k = n
             /\ E # {} => k \in E /\ \A j \in 1 .. k - 1 : j \notin E
<1> DEFINE S == {i \in 1 .. n : \A j \in 1 .. i - 1 : j \notin E}
           k == Cardinality(S)
<1>1. S \subseteq 1 .. n /\ \A i \in S : 1 .. i \subseteq S
  OBVIOUS
<1>2. k \in 0 .. n /\ IsFiniteSet(S)
  <2>1. IsFiniteSet(1 .. n)
    BY FS_Interval
  <2> QED
    BY <1>1, <2>1, Moved, FS_Subset
<1>3. E = {} => k = n
  <2> SUFFICES ASSUME E = {} PROVE k = n
    OBVIOUS
  <2>1. S = 1 .. n
    OBVIOUS
  <2> QED
    BY <2>1, Moved
<1>4. S = 1 .. k
  <2> HIDE DEF S
  <2>1. \A i \in S : i <= k
    <3> SUFFICES ASSUME NEW i \in S PROVE i <= k
      OBVIOUS
    <3>1. i \in Nat
      BY <1>1
    <3>2. Cardinality(1 .. i) = i /\ 1 .. i \subseteq S
      BY <1>1, <3>1, FS_Interval
    <3> QED
      BY <1>2, <3>2, FS_Subset
  <2>2. S \subseteq 1 .. k
    BY <1>1, <1>2, <2>1
  <2>3. IsFiniteSet(1 .. k) /\ Cardinality(1 .. k) = k
    BY <1>2, FS_Interval
  <2> QED
    BY <2>2, <2>3, FS_Subset
<1>5. ASSUME E # {} PROVE k \in E /\ \A j \in 1 .. k - 1 : j \notin E
  <2>1. PICK e \in E : TRUE
    BY <1>5
  <2>2. e \in 1 .. n /\ 1 \in S
    OBVIOUS
  <2> HIDE DEF k, S
  <2>3. k >= 1 /\ k \in S
    BY <1>2, <1>4, <2>2
  <2>4. \A j \in 1 .. k - 1 : j \notin E
    BY <2>3 DEF S
  <2>5. CASE k < n
    <3>1. k + 1 \in 1 .. n /\ k + 1 \notin S
      BY <1>2, <1>4, <2>5
    <3>2. PICK j \in 1 .. (k + 1) - 1 : j \in E
      BY <3>1 DEF S
    <3>3. j = k
      BY <1>2, <2>4, <3>2
    <3> QED
      BY <2>4, <3>2, <3>3
  <2>6. CASE k = n
    <3>1. e = k
      BY <1>2, <2>2, <2>4, <2>6
    <3> QED
      BY <2>4, <3>1
  <2> QED
    BY <1>2, <2>4, <2>5, <2>6
<1> QED
  BY <1>2, <1>3, <1>5

-----------------------------------------------------------------------------
(* Two operations that differ only in where they are. *)
Same(z, o) == /\ z.kind = o.kind /\ z.size = o.size /\ z.placed = o.placed
              /\ z.m_error_code = o.m_error_code /\ z.m_canceled = o.m_canceled

(* What is right of an operation is right wherever it goes. *)
LEMMA SameSound ==
  ASSUME NEW z, NEW o, Same(z, o), NEW in, NEW end, NEW n, NEW left
  PROVE  /\ Roomy(o, in) => Roomy(z, in)
         /\ Right(o, in) => Right(z, in)
         /\ AtEnd(o, in, end, n, left) => AtEnd(z, in, end, n, left)
<1>1. Marks(z, in) = Marks(o, in)
  BY DEF Same, Marks
<1> QED
  BY <1>1 DEF Same, Roomy, Right, Success, AtEnd, Space, Until

(* Going somewhere changes nothing else. *)
LEMMA GoesSame ==
  ASSUME NEW o \in Operations, NEW w
  PROVE  /\ Same(Complete(o), o) /\ Complete(o).pc = "complete"
         /\ Same(Continue(o), o) /\ Continue(o).pc = "advancing"
         /\ Same(Suspend(o, w), o) /\ Suspend(o, w).pc = "suspended"
         /\ Same(Proceed(o, w), o) /\ Proceed(o, w).pc \in {"advancing", "suspended"}
         /\ Same(Begin(o), o) /\ Begin(o).pc \in {"advancing", "suspended"}
<1>1. Same(Complete(o), o) /\ Complete(o).pc = "complete"
  BY DEF Complete, Same, Operations
<1>2. Same(Continue(o), o) /\ Continue(o).pc = "advancing"
  BY DEF Continue, Same, Operations
<1>3. \A v : Same(Suspend(o, v), o) /\ Suspend(o, v).pc = "suspended"
  BY DEF Suspend, Same, Operations
<1>4. Same(Proceed(o, w), o) /\ Proceed(o, w).pc \in {"advancing", "suspended"}
  BY <1>2, <1>3 DEF Proceed
<1>5. Same(Begin(o), o) /\ Begin(o).pc \in {"advancing", "suspended"}
  BY <1>2, <1>3 DEF Begin
<1> QED
  BY <1>1, <1>2, <1>3, <1>4, <1>5

(* An operation that had reason to go on and fails has not succeeded.      *)
LEMMA FailsRightly ==
  ASSUME NEW o \in Operations, NEW in, Roomy(o, in), NEW z,
         z.kind = o.kind, z.size = o.size, z.placed = o.placed,
         z.m_error_code \in Codes \ {"none", "delim_not_found"}
  PROVE  Right(z, in)
<1>1. Marks(z, in) = Marks(o, in)
  BY DEF Marks
<1>2. o.size \in Nat /\ o.placed \in Seq(Nat)
  BY DEF Operations
<1>3. ~Success(z, in)
  BY <1>1, <1>2 DEF Success, Roomy, Space, Until
<1> QED
  BY <1>3 DEF Right

-----------------------------------------------------------------------------
(* Delimiters after k bytes of a buffer have been placed.                  *)
LEMMA MarksMoved ==
  ASSUME NEW s \in Seq(Nat), NEW b \in Seq(Nat), NEW k \in 0 .. Len(b), NEW in,
         \A i \in DOMAIN s : in[s[i]] # "delim",
         NEW p, p = s \o SubSeq(b, 1, k),
         NEW F, F = {i \in 1 .. k : in[b[i]] = "delim"}
  PROVE  /\ Len(p) = Len(s) + k
         /\ {i \in DOMAIN p : in[p[i]] = "delim"} = {Len(s) + i : i \in F}
<1> DEFINE m == Len(s)
           x == SubSeq(b, 1, k)
           M == {i \in DOMAIN p : in[p[i]] = "delim"}
<1>1. m \in Nat /\ DOMAIN s = 1 .. m /\ k \in Nat
  OBVIOUS
<1>2. x \in Seq(Nat) /\ Len(x) = k /\ \A i \in 1 .. k : x[i] = b[i]
  BY Cut
<1>3. p = s \o x
  OBVIOUS
<1> HIDE DEF x
<1>4. /\ p \in Seq(Nat) /\ Len(p) = m + k
      /\ \A i \in 1 .. m + k : p[i] = IF i <= m THEN s[i] ELSE x[i - m]
  BY <1>2, <1>3, ConcatProperties
<1>5. DOMAIN p = 1 .. m + k
  BY <1>4
<1>6. M \subseteq 1 .. m + k
  BY <1>5
<1>7. ASSUME NEW i \in 1 .. m + k
      PROVE  i \in M <=> i > m /\ i - m \in F
  <2>1. i \in M <=> in[p[i]] = "delim"
    BY <1>5
  <2>2. CASE i <= m
    <3>1. p[i] = s[i] /\ i \in DOMAIN s
      BY <1>1, <1>4, <2>2
    <3> QED
      BY <1>1, <2>1, <2>2, <3>1
  <2>3. CASE i > m
    <3>1. i - m \in 1 .. k
      BY <1>1, <2>3
    <3>2. p[i] = x[i - m]
      BY <1>1, <1>4, <2>3
    <3>3. x[i - m] = b[i - m]
      BY <1>1, <1>2, <3>1
    <3>4. i - m \in F <=> in[b[i - m]] = "delim"
      BY <3>1
    <3> HIDE DEF M
    <3> QED
      BY <2>1, <2>3, <3>2, <3>3, <3>4
  <2>4. i <= m \/ i > m
    BY <1>1
  <2> QED
    BY <2>2, <2>3, <2>4
<1>8. \A i \in F : m + i \in 1 .. m + k /\ m + i > m /\ (m + i) - m = i
  BY <1>1
<1> HIDE DEF m, M
<1>9. \A i \in M : \E j \in F : i = m + j
  <2> SUFFICES ASSUME NEW i \in M PROVE \E j \in F : i = m + j
    OBVIOUS
  <2>1. i \in 1 .. m + k /\ i - m \in F
    BY <1>6, <1>7
  <2>2. i = m + (i - m)
    BY <1>1, <2>1
  <2> QED
    BY <2>1, <2>2
<1>10. \A j \in F : m + j \in M
  BY <1>7, <1>8
<1>11. M = {m + i : i \in F}
  BY <1>9, <1>10
<1> QED
  BY <1>4, <1>11 DEF m, M

(* ReadAheadBuffer::read() is complete exactly when it can tell why.       *)
LEMMA RabReadAnswers ==
  ASSUME NEW o, Fits(o), Buffered(o), ~o.m_canceled, o.m_error_code = "none",
         Until(o) => Marks(o, input) = {}, NEW b \in Seq(Nat)
  PROVE  LET r == RabRead(o, b)
         IN  /\ ~r.oper.m_canceled
             /\ r.oper.m_error_code \in {"none", "delim_not_found"}
             /\ IF r.complete THEN Right(r.oper, input) ELSE Roomy(r.oper, input)
<1> DEFINE n     == Least(Len(b), Space(o))
           Ends(i) == Until(o) /\ input[b[i]] = "delim"
           found == \E i \in 1 .. n : Ends(i)
           upto  == {i \in 1 .. n : \A j \in 1 .. i - 1 : ~Ends(j)}
           E     == {i \in 1 .. n : Ends(i)}
           k     == Cardinality(upto)
           now   == [o EXCEPT !.placed = @ \o SubSeq(b, 1, k)]
           full  == Space(now) = 0
           r     == RabRead(o, b)
<1> SUFFICES /\ ~r.oper.m_canceled
             /\ r.oper.m_error_code \in {"none", "delim_not_found"}
             /\ IF r.complete THEN Right(r.oper, input) ELSE Roomy(r.oper, input)
  OBVIOUS
<1>1. /\ r.complete = (found \/ full)
      /\ r.oper = IF found \/ (full /\ ~Until(o)) THEN [now EXCEPT !.m_error_code = "none"]
                  ELSE IF full THEN [now EXCEPT !.m_error_code = "delim_not_found"]
                  ELSE now
  BY Zenon DEF RabRead
<1> HIDE DEF r, now
<1>2. Len(b) \in Nat /\ Space(o) \in Nat
  BY DEF Fits, Operations, Space
<1>3. n \in 0 .. Len(b) /\ n <= Space(o)
  BY <1>2 DEF Least
<1> HIDE DEF n
<1>4. upto = {i \in 1 .. n : \A j \in 1 .. i - 1 : j \notin E}
  BY <1>3
<1>5. E \subseteq 1 .. n /\ (found <=> E # {}) /\ (~Until(o) => E = {})
  OBVIOUS
<1>6. \A i \in 1 .. n : Until(o) => (i \in E <=> input[b[i]] = "delim")
  OBVIOUS
<1> HIDE DEF upto, found, E
<1>7. /\ k \in 0 .. n /\ (E = {} => k = n)
      /\ E # {} => k \in E /\ \A j \in 1 .. k - 1 : j \notin E
  <2> DEFINE T == {i \in 1 .. n : \A j \in 1 .. i - 1 : j \notin E}
             c == Cardinality(T)
  <2>1. /\ c \in 0 .. n /\ (E = {} => c = n)
        /\ E # {} => c \in E /\ \A j \in 1 .. c - 1 : j \notin E
    <3>1. n \in Nat /\ E \in SUBSET (1 .. n)
      BY <1>3, <1>5
    <3> QED
      BY <3>1, Upto, Zenon
  <2>2. k = c
    BY <1>4
  <2> HIDE DEF c, k
  <2> QED
    BY <2>1, <2>2
<1> HIDE DEF k
<1>8. k \in 0 .. Len(b) /\ k <= Space(o)
  BY <1>2, <1>3, <1>7
<1>9. Fits(now) /\ Space(now) = Space(o) - k
  BY <1>8, Moves DEF now
<1>10. /\ now \in Operations /\ now.placed = o.placed \o SubSeq(b, 1, k)
       /\ now.kind = o.kind /\ now.size = o.size
       /\ now.m_canceled = o.m_canceled /\ now.m_error_code = "none"
  BY <1>9 DEF Fits, Operations, now
<1> DEFINE p == now.placed
           q == o.placed
<1>11. Len(p) = Len(q) + k /\ Len(q) \in Nat /\ p = q \o SubSeq(b, 1, k) /\ q \in Seq(Nat)
  <2>1. q \in Seq(Nat) /\ p = q \o SubSeq(b, 1, k)
    BY <1>10 DEF Fits, Operations
  <2> HIDE DEF p, q
  <2>2. SubSeq(b, 1, k) \in Seq(Nat) /\ Len(SubSeq(b, 1, k)) = k
    BY <1>8, Cut
  <2>3. q \o SubSeq(b, 1, k) \in Seq(Nat) /\ Len(q \o SubSeq(b, 1, k)) = Len(q) + Len(SubSeq(b, 1, k))
    BY <2>1, <2>2, Concat, Zenon
  <2>4. Len(q) \in Nat
    BY <2>1
  <2> QED
    BY <2>1, <2>2, <2>3, <2>4
<1>20. /\ Marks(now, input) = {i \in DOMAIN p : input[p[i]] = "delim"}
       /\ Until(o) => \A i \in DOMAIN q : input[q[i]] # "delim"
  BY DEF Marks
<1> HIDE DEF p, q
<1>12. Until(o) => Marks(now, input) = IF E = {} THEN {} ELSE {Len(p)}
  <2> SUFFICES ASSUME Until(o) PROVE Marks(now, input) = IF E = {} THEN {} ELSE {Len(p)}
    OBVIOUS
  <2> DEFINE F == {i \in 1 .. k : input[b[i]] = "delim"}
  <2>0. F = {i \in 1 .. k : input[b[i]] = "delim"}
    OBVIOUS
  <2> HIDE DEF F
  <2>1. Marks(now, input) = {Len(q) + i : i \in F}
    <3>1. \A i \in DOMAIN q : input[q[i]] # "delim"
      BY <1>20
    <3>2. q \in Seq(Nat) /\ p = q \o SubSeq(b, 1, k)
      BY <1>11
    <3>3. {i \in DOMAIN p : input[p[i]] = "delim"} = {Len(q) + i : i \in F}
      BY <1>8, <2>0, <3>1, <3>2, MarksMoved, SMTT(30)
    <3> QED
      BY <1>20, <3>3
  <2> HIDE DEF E
  <2>2. F = IF E = {} THEN {} ELSE {k}
    <3>1. F = {i \in 1 .. k : i \in E}
      BY <1>3, <1>6, <1>7, <2>0
    <3>2. CASE E = {}
      BY <3>1, <3>2
    <3>3. CASE E # {}
      <4>1. k \in E /\ k \in 1 .. k /\ \A j \in 1 .. k : j \in E => j = k
        BY <1>3, <1>5, <1>7, <3>3
      <4> QED
        BY <3>1, <3>3, <4>1
    <3> QED
      BY <3>2, <3>3
  <2> QED
    BY <1>11, <2>1, <2>2
<1>13. E # {} => Until(o) /\ Len(p) > 0
  BY <1>3, <1>5, <1>7, <1>11
<1>14. ASSUME NEW c \in Codes, r.oper = [now EXCEPT !.m_error_code = c]
       PROVE  /\ r.oper.kind = o.kind /\ r.oper.size = o.size /\ r.oper.placed = p
              /\ r.oper.m_error_code = c /\ ~r.oper.m_canceled
              /\ Space(r.oper) = Space(now) /\ Marks(r.oper, input) = Marks(now, input)
  <2>1. /\ r.oper.kind = o.kind /\ r.oper.size = o.size /\ r.oper.placed = p
        /\ r.oper.m_error_code = c /\ ~r.oper.m_canceled
    BY <1>10, <1>14 DEF Operations, p
  <2> QED
    BY <1>10, <2>1 DEF Space, Marks, p
<1>15. "none" \in Codes /\ "delim_not_found" \in Codes
  BY DEF Codes
<1>16. CASE found \/ (full /\ ~Until(o))
  <2>1. r.oper = [now EXCEPT !.m_error_code = "none"] /\ r.complete
    BY <1>1, <1>16
  <2>2. Success(r.oper, input)
    <3>1. CASE found
      BY <1>5, <1>12, <1>13, <1>14, <1>15, <2>1, <3>1 DEF Success, Until
    <3>2. CASE full /\ ~Until(o)
      BY <1>14, <1>15, <2>1, <3>2 DEF Success, Until, Buffered
    <3> QED
      BY <1>16, <3>1, <3>2
  <2> QED
    BY <1>14, <1>15, <2>1, <2>2 DEF Right
<1>17. CASE ~found /\ full /\ Until(o)
  <2>1. r.oper = [now EXCEPT !.m_error_code = "delim_not_found"] /\ r.complete
    BY <1>1, <1>17
  <2>2. Marks(r.oper, input) = {}
    BY <1>5, <1>12, <1>14, <1>15, <1>17, <2>1
  <2> QED
    BY <1>14, <1>15, <1>17, <2>1, <2>2 DEF Right, Success, Until
<1>18. CASE ~found /\ ~full
  <2>1. r.oper = now /\ ~r.complete
    BY <1>1, <1>18
  <2>2. Space(now) > 0
    BY <1>2, <1>8, <1>9, <1>18
  <2>3. o.kind # "read_some"
    BY DEF Buffered
  <2> QED
    BY <1>5, <1>10, <1>12, <1>18, <2>1, <2>2, <2>3 DEF Roomy, Until
<1> QED
  BY <1>16, <1>17, <1>18

-----------------------------------------------------------------------------
(* What the stream hands out it has, and an error is the end of the input. *)
LEMMA OutcomesTrue ==
  ASSUME "secure_transport" \notin Streams, stream \in Streams, ended \in Endings,
         input \in Seq({"byte", "delim"}), taken \in Nat, taken <= Len(input),
         NEW size \in Nat, NEW r \in do_read_some_async(size)
  PROVE  /\ r.n \in Nat /\ r.n <= size /\ taken + r.n <= Len(input)
         /\ r.ec # "none" => /\ r.n = 0 /\ r.ec = ended /\ ended # "no" /\ taken = Len(input)
                             /\ r.ec \in Codes \ {"none", "delim_not_found"}
<1> DEFINE n == Least(Available, size)
           W == CASE stream = "tcp"     -> {"read"}
                  [] stream = "openssl" -> {"nothing"}
                  [] OTHER -> {"nothing", "read"}
<1>1. /\ Len(input) \in Nat /\ Available = Len(input) - taken /\ Available \in Nat
      /\ stream # "secure_transport"
  BY DEF Available
<1>2. n \in Nat /\ n <= Available /\ n <= size
  BY <1>1 DEF Least
<1> HIDE DEF W
<1>3. \/ \E k \in 1 .. n, w \in W : r = Outcome(k, "none", w)
      \/ r = Outcome(0, "none", "write")
      \/ r = Outcome(0, "none", "read")
      \/ r = Outcome(0, ended, "nothing") /\ ~(Available > 0) /\ ended # "no"
  BY <1>1 DEF do_read_some_async, W
<1> HIDE DEF n
<1>4. CASE r = Outcome(0, ended, "nothing") /\ ~(Available > 0) /\ ended # "no"
  BY <1>1, <1>4 DEF Outcome, Endings, Codes
<1>5. CASE \E k \in 0 .. n : r.n = k /\ r.ec = "none"
  BY <1>1, <1>2, <1>5
<1> QED
  BY <1>2, <1>3, <1>4, <1>5 DEF Outcome

(* The elements of a sequence are those of its two parts.                  *)
LEMMA Parts ==
  ASSUME NEW s \in Seq(Nat), NEW t \in Seq(Nat), NEW n \in Nat,
         \A i \in 1 .. Len(s \o t) : (s \o t)[i] \in 1 .. n
  PROVE  s \in Seq(1 .. n) /\ t \in Seq(1 .. n)
<1> DEFINE both == s \o t
<1>1. /\ Len(both) = Len(s) + Len(t) /\ Len(s) \in Nat /\ Len(t) \in Nat
      /\ \A i \in 1 .. Len(s) + Len(t) : both[i] = IF i <= Len(s) THEN s[i] ELSE t[i - Len(s)]
  BY ConcatProperties
<1>2. \A i \in 1 .. Len(both) : both[i] \in 1 .. n
  OBVIOUS
<1> HIDE DEF both
<1>3. ASSUME NEW i \in 1 .. Len(s) PROVE s[i] \in 1 .. n
  <2>1. i \in 1 .. Len(both) /\ both[i] = s[i]
    BY <1>1
  <2> QED
    BY <1>2, <2>1
<1>4. ASSUME NEW i \in 1 .. Len(t) PROVE t[i] \in 1 .. n
  <2>1. /\ Len(s) + i \in 1 .. Len(s) + Len(t) /\ ~(Len(s) + i <= Len(s))
        /\ (Len(s) + i) - Len(s) = i
    BY <1>1
  <2>2. both[Len(s) + i] = t[i]
    BY <1>1, <2>1
  <2> QED
    BY <1>1, <1>2, <2>1, <2>2
<1> DEFINE T == 1 .. n
<1>5. (\A i \in 1 .. Len(s) : s[i] \in T) /\ (\A i \in 1 .. Len(t) : t[i] \in T)
  BY <1>3, <1>4
<1> HIDE DEF T
<1>6. \A u \in Seq(Nat) : (\A i \in 1 .. Len(u) : u[i] \in T) => u \in Seq(T)
  <2> SUFFICES ASSUME NEW u \in Seq(Nat), \A i \in 1 .. Len(u) : u[i] \in T PROVE u \in Seq(T)
    OBVIOUS
  <2>1. Len(u) \in Nat /\ u \in [1 .. Len(u) -> Nat]
    BY LenProperties
  <2>2. u \in [1 .. Len(u) -> T]
    BY <2>1
  <2> QED
    BY <2>1, <2>2
<1>7. s \in Seq(T) /\ t \in Seq(T)
  BY <1>5, <1>6
<1> QED
  BY <1>7 DEF T

(* Whatever has been placed, read ahead or received has been taken. *)
LEMMA AllTaken ==
  ASSUME IInv
  PROVE  /\ oper.placed \in Seq(1 .. taken) /\ rab \in Seq(1 .. taken)
         /\ received \in Seq(1 .. taken)
<1> DEFINE p == oper.placed
           all == Bytes(0, taken)
           front == received \o p
<1>1. /\ received \in Seq(Nat) /\ p \in Seq(Nat) /\ rab \in Seq(Nat) /\ taken \in Nat
      /\ front \o rab = all
  BY DEF IInv, InOrder, Fits, Operations
<1> HIDE DEF p
<1>2. \A i \in 1 .. Len(all) : all[i] \in 1 .. taken
  <2>1. Len(all) = taken /\ \A i \in 1 .. taken : all[i] = 0 + i
    BY <1>1, BytesType
  <2> HIDE DEF all
  <2> QED
    BY <1>1, <2>1
<1>3. front \in Seq(Nat)
  BY <1>1, ConcatProperties
<1> HIDE DEF front, all
<1>4. front \in Seq(1 .. taken) /\ rab \in Seq(1 .. taken)
  <2>1. \A i \in 1 .. Len(front \o rab) : (front \o rab)[i] \in 1 .. taken
    BY <1>1, <1>2
  <2> QED
    BY <1>1, <1>3, <2>1, Parts
<1>5. received \in Seq(1 .. taken) /\ p \in Seq(1 .. taken)
  <2>1. \A i \in 1 .. Len(front) : front[i] \in 1 .. taken
    BY <1>4, ElementOfSeq
  <2>2. \A i \in 1 .. Len(received \o p) : (received \o p)[i] \in 1 .. taken
    BY <2>1 DEF front
  <2> QED
    BY <1>1, <2>2, Parts
<1> QED
  BY <1>4, <1>5 DEF p

(* More input, or the loss of what has not been taken, changes no answer.  *)
LEMMA EnvironmentSound == SInv /\ Environment => Sound'
<1> SUFFICES ASSUME SInv, Environment PROVE Sound'
  OBVIOUS
<1>1. UNCHANGED <<taken, rab, oper>>
  BY DEF Environment, peer_sends, peer_closes, connection_breaks, renegotiates, renegotiated
<1>2. ended # "no" => UNCHANGED <<ended, input>>
  BY DEF Environment, peer_sends, peer_closes, connection_breaks, renegotiates, renegotiated
<1>3. taken \in Nat /\ input \in Seq({"byte", "delim"}) /\ taken <= Len(input)
  BY DEF SInv, IInv, Sound
<1>4. taken <= Len(input') /\ \A i \in 1 .. taken : input'[i] = input[i]
  <2>1. CASE peer_sends
    BY <1>3, <2>1 DEF peer_sends
  <2>2. CASE connection_breaks
    <3>1. PICK n \in taken .. Len(input) : input' = SubSeq(input, 1, n)
      BY <2>2 DEF connection_breaks
    <3>2. Len(input') = n /\ \A i \in 1 .. n : input'[i] = input[i]
      BY <1>3, <3>1
    <3> QED
      BY <1>3, <3>1, <3>2
  <2>3. CASE peer_closes \/ renegotiates \/ renegotiated
    BY <1>3, <2>3 DEF peer_closes, renegotiates, renegotiated
  <2> QED
    BY <2>1, <2>2, <2>3 DEF Environment
<1>5. Marks(oper', input') = Marks(oper, input)
  <2>1. \A i \in DOMAIN oper.placed : oper.placed[i] \in 1 .. taken
    <3>1. oper.placed \in Seq(1 .. taken)
      BY AllTaken DEF SInv
    <3>2. /\ \A i \in 1 .. Len(oper.placed) : oper.placed[i] \in 1 .. taken
          /\ DOMAIN oper.placed = 1 .. Len(oper.placed)
      <4> DEFINE p == oper.placed
                 T == 1 .. taken
      <4> HIDE DEF p, T
      <4>1. p \in Seq(T)
        BY <3>1 DEF p, T
      <4>2. \A i \in 1 .. Len(p) : p[i] \in T
        BY <4>1, ElementOfSeq
      <4>3. DOMAIN p = 1 .. Len(p)
        BY <4>1
      <4> QED
        BY <4>2, <4>3 DEF p, T
    <3> QED
      BY <3>2
  <2> QED
    BY <1>1, <1>4, <2>1 DEF Marks
<1>6. Roomy(oper, input) => Roomy(oper', input')
  BY <1>1, <1>5 DEF Roomy
<1>7. Right(oper, input) => Right(oper', input')
  BY <1>1, <1>5 DEF Right, Success
<1>8. AtEnd(oper, input, ended, taken, rab) => AtEnd(oper', input', ended', taken', rab')
  BY <1>1, <1>2 DEF AtEnd
<1> QED
  BY <1>1, <1>4, <1>6, <1>7, <1>8 DEF SInv, Sound

(* The kind of an operation has been settled, and where it goes from here. *)
LEMMA SoundWaits ==
  ASSUME NEW o, Roomy(o, input'), taken' <= Len(input'), Same(oper', o),
         oper'.pc \in {"advancing", "suspended"}
  PROVE  Sound'
<1>1. Roomy(oper', input')
  BY SameSound
<1> QED
  BY <1>1 DEF Sound

LEMMA SoundCompletes ==
  ASSUME NEW o, Right(o, input'), AtEnd(o, input', ended', taken', rab'),
         taken' <= Len(input'), Same(oper', o),
         oper'.pc = "complete"
  PROVE  Sound'
<1>1. Right(oper', input')
  BY SameSound
<1>2. AtEnd(oper', input', ended', taken', rab')
  BY SameSound
<1> QED
  BY <1>1, <1>2 DEF Sound

(* The program starts an operation, or cancels one, or is answered.        *)
LEMMA NewFields ==
  ASSUME NEW kind \in Kinds, NEW sync \in BOOLEAN, NEW size \in 0 .. MaxSize
  PROVE  LET o == NewOper(kind, sync, size)
         IN  /\ Fits(o) /\ o.kind = kind /\ o.size = size /\ o.placed = <<>>
             /\ o.m_error_code = "none" /\ ~o.m_canceled /\ Space(o) = size
             /\ \A in : Marks(o, in) = {}
<1> DEFINE o == NewOper(kind, sync, size)
<1>1. /\ o.kind = kind /\ o.size = size /\ o.placed = <<>>
      /\ o.m_error_code = "none" /\ ~o.m_canceled
  BY DEF NewOper, Idle
<1>2. Fits(o)
  BY New
<1> HIDE DEF o
<1>3. size \in Nat /\ Len(<<>>) = 0
  BY SizesAssumption
<1>4. Space(o) = size
  BY <1>1, <1>3 DEF Space
<1>5. \A in : Marks(o, in) = {}
  BY <1>1 DEF Marks
<1> QED
  BY <1>1, <1>2, <1>4, <1>5 DEF o

(* The caller's buffer is empty, and there is nothing to do, or not full. *)
LEMMA InitiateSound ==
  ASSUME SInv, NEW kind \in Kinds, NEW sync \in BOOLEAN, NEW size \in 0 .. MaxSize,
         initiate(kind, sync, size)
  PROVE  Sound'
<1> DEFINE o == NewOper(kind, sync, size)
<1>1. /\ Fits(o) /\ o.kind = kind /\ o.size = size /\ o.placed = <<>>
      /\ o.m_error_code = "none" /\ ~o.m_canceled /\ Space(o) = size
      /\ \A in : Marks(o, in) = {}
  BY NewFields
<1>2. /\ kind \in {"read", "read_some"} /\ UNCHANGED <<taken, input>>
      /\ oper' = IF size = 0 THEN Complete(o) ELSE Begin(o)
  BY DEF initiate, Starts, environment
<1>3. taken' <= Len(input') /\ size \in Nat
  BY <1>2, SizesAssumption DEF SInv, Sound
<1> HIDE DEF o
<1>4. o \in Operations
  BY <1>1 DEF Fits
<1>5. CASE size = 0
  <2>1. Right(o, input') /\ AtEnd(o, input', ended', taken', rab')
    BY <1>1, <1>2, <1>5 DEF Right, Success, AtEnd, Endings
  <2> QED
    BY <1>2, <1>3, <1>4, <1>5, <2>1, GoesSame, SoundCompletes
<1>6. CASE size # 0
  <2>1. Roomy(o, input')
    BY <1>1, <1>2, <1>3, <1>6 DEF Roomy, Until
  <2> QED
    BY <1>2, <1>3, <1>4, <1>6, <2>1, GoesSame, SoundWaits
<1> QED
  BY <1>5, <1>6

(* What has been read ahead may be all that is needed. *)
LEMMA InitiateBufferedSound ==
  ASSUME SInv, NEW kind \in Kinds, NEW sync \in BOOLEAN, NEW size \in 0 .. MaxSize,
         initiate_buffered(kind, sync, size)
  PROVE  Sound'
<1> DEFINE o == NewOper(kind, sync, size)
           r == RabRead(o, rab)
<1>1. /\ Fits(o) /\ o.kind = kind /\ o.m_error_code = "none" /\ ~o.m_canceled
      /\ Marks(o, input) = {}
  BY NewFields
<1>2. /\ kind \in {"buffered_read", "buffered_read_until"} /\ UNCHANGED <<taken, input>>
      /\ oper' = IF r.complete THEN Complete(r.oper) ELSE Begin(r.oper)
  BY DEF initiate_buffered, Starts, environment
<1>3. taken' <= Len(input') /\ rab \in Seq(Nat)
  BY <1>2 DEF SInv, IInv, Sound
<1> HIDE DEF o
<1>4. Buffered(o)
  BY <1>1, <1>2 DEF Buffered
<1>5. /\ r.oper \in Operations
      /\ r.oper.m_error_code \in {"none", "delim_not_found"}
      /\ IF r.complete THEN Right(r.oper, input) ELSE Roomy(r.oper, input)
  BY <1>1, <1>3, <1>4, RabReadAnswers, RabReadMoves DEF Fits
<1> HIDE DEF r
<1>6. CASE r.complete
  <2>1. AtEnd(r.oper, input', ended', taken', rab')
    BY <1>5 DEF AtEnd, Endings
  <2>2. Same(oper', r.oper) /\ oper'.pc = "complete"
    BY <1>2, <1>5, <1>6, GoesSame
  <2>3. Right(r.oper, input')
    BY <1>2, <1>5, <1>6
  <2> QED
    BY <1>3, <2>1, <2>2, <2>3, SoundCompletes
<1>7. CASE ~r.complete
  <2>1. Same(oper', r.oper) /\ oper'.pc \in {"advancing", "suspended"}
    BY <1>2, <1>5, <1>7, GoesSame
  <2>2. Roomy(r.oper, input')
    BY <1>2, <1>5, <1>7
  <2> QED
    BY <1>3, <2>1, <2>2, SoundWaits
<1> QED
  BY <1>6, <1>7

(* Discarding, canceling, becoming ready and being answered. *)
LEMMA OthersSound ==
  SInv /\ (clear \/ cancel \/ ready \/ recycle_and_execute) => Sound'
<1> SUFFICES ASSUME SInv, clear \/ cancel \/ ready \/ recycle_and_execute PROVE Sound'
  OBVIOUS
<1>1. UNCHANGED <<taken, input>> /\ taken' <= Len(input')
  BY DEF clear, cancel, ready, recycle_and_execute, environment, SInv, Sound
<1>2. oper \in Operations
  BY DEF SInv, IInv, Fits
<1>3. CASE clear
  BY <1>1, <1>3 DEF clear, Sound
<1>4. CASE cancel
  <2>1. oper'.m_canceled /\ oper'.pc = "complete"
    BY <1>2, <1>4 DEF cancel, Operations
  <2> QED
    BY <1>1, <2>1 DEF Sound
<1>5. CASE ready
  <2>1. /\ Same(oper', oper) /\ oper'.pc = "advancing"
    BY <1>2, <1>5, GoesSame DEF ready
  <2>2. Roomy(oper, input')
    BY <1>1, <1>5 DEF ready, SInv, Sound
  <2> QED
    BY <1>1, <2>1, <2>2, SoundWaits
<1>6. CASE recycle_and_execute
  <2>1. oper'.pc = "idle"
    BY <1>6 DEF recycle_and_execute, Idle
  <2> QED
    BY <1>1, <2>1 DEF Sound
<1> QED
  BY <1>3, <1>4, <1>5, <1>6

-----------------------------------------------------------------------------
(* What a turn of a loop finds, and what it gets from the stream.          *)
LEMMA TurnFinds ==
  ASSUME SInv, "secure_transport" \notin Streams, oper.pc = "advancing"
  PROVE  /\ Fits(oper) /\ Roomy(oper, input) /\ taken \in Nat /\ rab = <<>>
         /\ Space(oper) \in Nat /\ s_size \in Nat /\ oper.placed \in Seq(Nat)
         /\ \A size \in Nat : \A r \in do_read_some_async(size) :
              /\ r.n \in Nat /\ r.n <= size /\ taken + r.n <= Len(input)
              /\ r.ec # "none" =>
                   /\ r.n = 0 /\ r.ec = ended /\ ended # "no" /\ taken = Len(input)
                   /\ r.ec \in Codes \ {"none", "delim_not_found"}
<1>1. IInv /\ Roomy(oper, input) /\ taken <= Len(input)
  BY DEF SInv, Sound
<1>2. /\ Fits(oper) /\ taken \in Nat /\ rab = <<>> /\ Space(oper) \in Nat /\ s_size \in Nat
      /\ oper.placed \in Seq(Nat)
  BY <1>1, Finds
<1>3. stream \in Streams /\ ended \in Endings /\ input \in Seq({"byte", "delim"})
  BY <1>1 DEF IInv
<1> QED
  BY <1>1, <1>2, <1>3, OutcomesTrue

(* An operation that ends because the input has. *)
LEMMA EndsSound ==
  ASSUME SInv, oper.pc = "advancing", Roomy(oper, input), rab = <<>>, NEW z, Same(oper', z),
         oper'.pc = "complete",
         z.kind = oper.kind, z.size = oper.size, z.placed = oper.placed,
         z.m_error_code \in Codes \ {"none", "delim_not_found"}, z.m_error_code = ended,
         ended # "no", taken = Len(input), UNCHANGED <<environment, taken, rab>>
  PROVE  Sound'
<1>1. oper \in Operations /\ UNCHANGED <<input, ended>>
  BY DEF SInv, IInv, Fits, environment
<1>2. Right(z, input)
  BY <1>1, FailsRightly
<1>3. AtEnd(z, input, ended, taken, rab)
  BY DEF AtEnd
<1>4. Right(z, input') /\ AtEnd(z, input', ended', taken', rab')
  BY <1>1, <1>2, <1>3
<1>5. taken' <= Len(input')
  BY <1>1 DEF SInv, Sound
<1> QED
  BY <1>4, <1>5, SoundCompletes

(* A turn of a loop without the read-ahead buffer. *)
LEMMA AdvanceSound ==
  ASSUME SInv, "secure_transport" \notin Streams, advance \/ read_sync
  PROVE  Sound'
<1>0. /\ oper.pc = "advancing" /\ ~Buffered(oper) /\ UNCHANGED <<environment, rab, input, ended>>
  BY DEF advance, read_sync, environment
<1>1. /\ Fits(oper) /\ Roomy(oper, input) /\ taken \in Nat /\ rab = <<>>
      /\ Space(oper) \in Nat /\ oper.placed \in Seq(Nat)
      /\ \A r \in do_read_some_async(Space(oper)) :
            /\ r.n \in Nat /\ r.n <= Space(oper) /\ taken + r.n <= Len(input)
            /\ r.ec # "none" =>
                 /\ r.n = 0 /\ r.ec = ended /\ ended # "no" /\ taken = Len(input)
                 /\ r.ec \in Codes \ {"none", "delim_not_found"}
  BY <1>0, TurnFinds
<1> DEFINE now(r) == [oper EXCEPT !.placed = @ \o Bytes(taken, r.n), !.m_error_code = r.ec]
           Done(r) == oper.kind = "read_some" \/ Space(now(r)) = 0
<1>2. PICK r \in do_read_some_async(Space(oper)) :
        /\ taken' = taken + r.n
        /\ r.ec # "none" /\ r.n = 0 => oper' = Complete(now(r)) \/ oper' = Fail(oper, r.ec)
        /\ r.ec = "none" /\ r.n # 0 /\ Done(r) => oper' = Complete(now(r))
        /\ r.ec = "none" /\ ~(r.n # 0 /\ Done(r)) =>
              \/ oper' = Continue(now(r)) \/ oper' = Suspend(now(r), r.want)
              \/ oper' = Proceed(now(r), r.want)
  <2>1. CASE advance
    <3>1. PICK r \in do_read_some_async(Space(oper)) :
            /\ taken' = taken + r.n
            /\ oper' = IF r.n = 0 THEN IF r.ec # "none" THEN Complete(now(r))
                                                        ELSE Suspend(now(r), r.want)
                       ELSE IF Done(r) THEN Complete(now(r)) ELSE Proceed(now(r), r.want)
      BY <2>1 DEF advance, advance_turn
    <3> HIDE DEF now, Done
    <3> QED
      BY <3>1
  <2>2. CASE read_sync
    <3>1. PICK r \in do_read_some_sync(Space(oper)) :
            /\ taken' = taken + r.n
            /\ oper' = IF oper.kind = "read_some" THEN Complete(now(r))
                       ELSE IF r.ec # "none" THEN Fail(oper, r.ec)
                       ELSE IF Space(now(r)) = 0 THEN Complete(now(r)) ELSE Continue(now(r))
      BY <2>2 DEF read_sync
    <3>2. r \in do_read_some_async(Space(oper)) /\ (r.n > 0 \/ r.ec # "none") /\ r.n \in Nat
      BY <1>1, <3>1 DEF do_read_some_sync
    <3>3. r.n # 0 \/ r.ec # "none"
      BY <3>2
    <3>4. Done(r) <=> oper.kind = "read_some" \/ Space(now(r)) = 0
      OBVIOUS
    <3> HIDE DEF now, Done
    <3> QED
      BY <3>1, <3>2, <3>3, <3>4
  <2> QED
    BY <2>1, <2>2
<1>3. /\ r.n \in Nat /\ r.n <= Space(oper) /\ taken + r.n <= Len(input)
      /\ r.ec # "none" => /\ r.n = 0 /\ r.ec = ended /\ ended # "no" /\ taken = Len(input)
                          /\ r.ec \in Codes \ {"none", "delim_not_found"}
  BY <1>1, <1>2
<1> DEFINE z == now(r)
           b == Bytes(taken, r.n)
<1>4. /\ z.kind = oper.kind /\ z.size = oper.size /\ z.placed = oper.placed \o b
      /\ z.m_error_code = r.ec /\ z.m_canceled = oper.m_canceled
  BY <1>1 DEF Fits, Operations
<1>5. b \in Seq(Nat) /\ Len(b) = r.n
  BY <1>1, <1>3, BytesType
<1> HIDE DEF b
<1> DEFINE p == oper.placed
           q == z.placed
<1>6. q = p \o b /\ p \in Seq(Nat)
  BY <1>1, <1>4
<1> HIDE DEF q, p
<1>7. q \in Seq(Nat) /\ Len(q) = Len(p) + r.n /\ Len(p) \in Nat /\ (r.n = 0 => q = p)
  <2>1. q \in Seq(Nat) /\ Len(q) = Len(p) + r.n /\ Len(p) \in Nat
    <3>1. \A s \in Seq(Nat), t \in Seq(Nat) :
            s \o t \in Seq(Nat) /\ Len(s \o t) = Len(s) + Len(t) /\ Len(s) \in Nat
      BY Concat
    <3> QED
      BY <1>5, <1>6, <3>1
  <2>2. ASSUME r.n = 0 PROVE q = p
    <3>1. b = <<>>
      BY <1>5, <2>2
    <3> QED
      BY <1>6, <3>1, Concat
  <2> QED
    BY <2>1, <2>2
<1> DEFINE done == Done(r)
<1>8. done <=> oper.kind = "read_some" \/ Space(z) = 0
  OBVIOUS
<1>9. /\ taken' = taken + r.n
      /\ r.ec # "none" /\ r.n = 0 => oper' = Complete(z) \/ oper' = Fail(oper, r.ec)
      /\ r.ec = "none" /\ r.n # 0 /\ done => oper' = Complete(z)
      /\ r.ec = "none" /\ ~(r.n # 0 /\ done) =>
            \/ oper' = Continue(z) \/ oper' = Suspend(z, r.want) \/ oper' = Proceed(z, r.want)
  BY <1>2
<1>10. z \in Operations
  BY <1>1, <1>3, <1>7, <1>4 DEF Fits, Operations, Codes, q
<1> HIDE DEF now, z, done, Done
<1>11. /\ Same(Complete(z), z) /\ Complete(z).pc = "complete"
       /\ Same(Continue(z), z) /\ Continue(z).pc = "advancing"
       /\ Same(Suspend(z, r.want), z) /\ Suspend(z, r.want).pc = "suspended"
       /\ Same(Proceed(z, r.want), z) /\ Proceed(z, r.want).pc \in {"advancing", "suspended"}
  BY <1>10, GoesSame
<1>12. taken' <= Len(input')
  BY <1>0, <1>3, <1>9
<1>13. Space(z) = Space(oper) - r.n /\ Space(z) \in Nat /\ Space(oper) > 0 /\ oper.size \in Nat
  <2>1. Space(z) = oper.size - Len(q) /\ Space(oper) = oper.size - Len(p)
    BY <1>4 DEF Space, p, q
  <2>2. oper.size \in Nat /\ Space(oper) > 0
    BY <1>1 DEF Fits, Operations, Roomy
  <2>3. Space(oper) \in Nat /\ r.n \in Nat /\ r.n <= Space(oper)
    BY <1>1, <1>3
  <2>4. Len(q) = Len(p) + r.n /\ Len(p) \in Nat
    BY <1>7
  <2> QED
    BY <2>1, <2>2, <2>3, <2>4
<1>14. ~Until(oper) /\ oper.kind # "buffered_read_until"
  BY <1>0 DEF Buffered, Until
<1>15. CASE r.ec # "none"
  <2>1. r.n = 0 /\ z.placed = oper.placed /\ UNCHANGED taken
    BY <1>1, <1>3, <1>7, <1>9, <1>15 DEF p, q
  <2>2. CASE oper' = Complete(z)
    BY <1>0, <1>1, <1>3, <1>4, <1>11, <1>15, <2>1, <2>2, EndsSound
  <2>3. CASE oper' = Fail(oper, r.ec)
    <3> DEFINE y == [oper EXCEPT !.m_error_code = r.ec]
    <3>1. /\ y.kind = oper.kind /\ y.size = oper.size /\ y.placed = oper.placed
          /\ y.m_error_code = r.ec /\ y \in Operations
      BY <1>1, <1>3, <1>15 DEF Fits, Operations
    <3>2. oper' = Complete(y)
      BY <2>3 DEF Fail
    <3> HIDE DEF y
    <3>3. Same(oper', y) /\ oper'.pc = "complete"
      BY <3>1, <3>2, GoesSame
    <3> QED
      BY <1>0, <1>1, <1>3, <1>15, <2>1, <3>1, <3>3, EndsSound
  <2> QED
    BY <1>9, <1>15, <2>1, <2>2, <2>3
<1>16. CASE r.ec = "none" /\ r.n # 0 /\ done
  <2>1. Success(z, input')
    <3>1. CASE oper.kind = "read_some"
      <4>1. q # <<>>
        BY <1>3, <1>7, <1>16
      <4> QED
        BY <1>4, <3>1, <4>1 DEF Success, q
    <3>2. CASE oper.kind # "read_some"
      BY <1>4, <1>8, <1>14, <1>16, <3>2 DEF Success
    <3> QED
      BY <3>1, <3>2
  <2>2. Right(z, input') /\ AtEnd(z, input', ended', taken', rab')
    BY <1>4, <1>16, <2>1 DEF Right, AtEnd, Endings
  <2> QED
    BY <1>9, <1>11, <1>12, <1>16, <2>2, SoundCompletes
<1>17. CASE r.ec = "none" /\ ~(r.n # 0 /\ done)
  <2>1. Space(z) > 0 /\ (z.kind = "read_some" => z.placed = <<>>)
    <3>1. CASE r.n = 0
      BY <1>1, <1>4, <1>7, <1>13, <3>1 DEF Roomy, p, q
    <3>2. CASE r.n # 0
      BY <1>4, <1>8, <1>13, <1>17, <3>2
    <3> QED
      BY <3>1, <3>2
  <2>2. Roomy(z, input')
    BY <1>1, <1>4, <1>14, <1>17, <2>1 DEF Roomy, Until
  <2>3. Same(oper', z) /\ oper'.pc \in {"advancing", "suspended"}
    BY <1>9, <1>11, <1>17
  <2> QED
    BY <1>12, <2>2, <2>3, SoundWaits
<1> QED
  BY <1>15, <1>16, <1>17

(* The read-ahead buffer is filled, and what it has is moved on.           *)
LEMMA RefillSound ==
  ASSUME SInv, oper.pc = "advancing", Fits(oper), Roomy(oper, input), Buffered(oper),
         UNCHANGED environment, taken' <= Len(input'), NEW b \in Seq(Nat), NEW w,
         LET t == RabRead(oper, b)
         IN  IF t.complete THEN oper' = Complete(t.oper)
                           ELSE oper' = Continue(t.oper) \/ oper' = Proceed(t.oper, w)
  PROVE  Sound'
<1> DEFINE t == RabRead(oper, b)
<1>1. /\ t.oper \in Operations
      /\ t.oper.m_error_code \in {"none", "delim_not_found"}
      /\ IF t.complete THEN Right(t.oper, input) ELSE Roomy(t.oper, input)
  BY RabReadAnswers, RabReadMoves DEF Fits, Roomy
<1>2. IF t.complete THEN oper' = Complete(t.oper)
                    ELSE oper' = Continue(t.oper) \/ oper' = Proceed(t.oper, w)
  OBVIOUS
<1> HIDE DEF t
<1>3. input' = input
  BY DEF environment
<1>4. CASE t.complete
  <2>1. Same(oper', t.oper) /\ oper'.pc = "complete"
    BY <1>1, <1>2, <1>4, GoesSame
  <2>2. Right(t.oper, input') /\ AtEnd(t.oper, input', ended', taken', rab')
    BY <1>1, <1>3, <1>4 DEF AtEnd, Endings
  <2> QED
    BY <2>1, <2>2, SoundCompletes
<1>5. CASE ~t.complete
  <2>1. Same(oper', t.oper) /\ oper'.pc \in {"advancing", "suspended"}
    BY <1>1, <1>2, <1>5, GoesSame
  <2>2. Roomy(t.oper, input')
    BY <1>1, <1>3, <1>5
  <2> QED
    BY <2>1, <2>2, SoundWaits
<1> QED
  BY <1>4, <1>5

(* A turn of a loop with the read-ahead buffer. *)
LEMMA BufferedSound ==
  ASSUME SInv, "secure_transport" \notin Streams, advance_buffered \/ buffered_read_sync
  PROVE  Sound'
<1>0. oper.pc = "advancing" /\ Buffered(oper) /\ UNCHANGED environment
  BY DEF advance_buffered, buffered_read_sync
<1>1. /\ Fits(oper) /\ Roomy(oper, input) /\ taken \in Nat /\ rab = <<>>
      /\ \A r \in do_read_some_async(s_size) :
            /\ r.n \in Nat /\ r.n <= s_size /\ taken + r.n <= Len(input)
            /\ r.ec # "none" =>
                 /\ r.n = 0 /\ r.ec = ended /\ ended # "no" /\ taken = Len(input)
                 /\ r.ec \in Codes \ {"none", "delim_not_found"}
  BY <1>0, TurnFinds
<1>2. oper \in Operations /\ oper.m_error_code = "none"
  BY <1>1 DEF Fits, Roomy
<1>4. [oper EXCEPT !.m_error_code = "none"] = oper
  BY <1>2 DEF Operations
<1> DEFINE t(r) == RabRead(oper, Bytes(taken, r.n))
<1>5. PICK r \in do_read_some_async(s_size) :
        /\ taken' = taken + r.n
        /\ r.ec # "none" => oper' = Fail(oper, r.ec) /\ UNCHANGED rab
        /\ r.ec = "none" /\ r.n = 0 => oper' = Suspend(oper, r.want)
        /\ r.ec = "none" /\ r.n # 0 =>
              IF t(r).complete THEN oper' = Complete(t(r).oper)
              ELSE oper' = Continue(t(r).oper) \/ oper' = Proceed(t(r).oper, r.want)
  <2>1. CASE advance_buffered
    <3> DEFINE u(r) == RabRead([oper EXCEPT !.m_error_code = r.ec], Bytes(taken, r.n))
    <3>1. PICK r \in do_read_some_async(s_size) :
            /\ taken' = taken + r.n
            /\ r.n = 0 => /\ oper' = IF r.ec # "none" THEN Fail(oper, r.ec)
                                                      ELSE Suspend(oper, r.want)
                          /\ UNCHANGED rab
            /\ r.n # 0 => oper' = IF u(r).complete \/ u(r).oper.m_error_code = "end_of_input"
                                  THEN Complete(u(r).oper) ELSE Proceed(u(r).oper, r.want)
      BY <2>1 DEF advance_buffered
    <3>2. r.n \in Nat /\ (r.ec # "none" => r.n = 0)
      BY <1>1, <3>1
    <3>3. CASE r.n = 0
      BY <3>1, <3>3
    <3>4. CASE r.n # 0
      <4>1. r.ec = "none" /\ u(r) = t(r)
        BY <1>4, <3>2, <3>4
      <4>2. t(r).oper.m_error_code \in {"none", "delim_not_found"}
        <5>1. Bytes(taken, r.n) \in Seq(Nat)
          BY <1>1, <3>2, BytesType
        <5> QED
          BY <1>0, <1>1, <5>1, RabReadAnswers DEF Roomy
      <4> HIDE DEF t, u
      <4> QED
        BY <3>1, <3>4, <4>1, <4>2
    <3> QED
      BY <3>3, <3>4
  <2>2. CASE buffered_read_sync
    <3>1. PICK r \in do_read_some_sync(s_size) :
            /\ taken' = taken + r.n
            /\ r.ec # "none" => oper' = Fail(oper, r.ec)
            /\ r.ec # "none" /\ r.n = 0 => UNCHANGED rab
            /\ r.ec = "none" /\ r.n # 0 =>
                  oper' = IF t(r).complete THEN Complete(t(r).oper) ELSE Continue(t(r).oper)
      BY <2>2 DEF buffered_read_sync
    <3>2. r \in do_read_some_async(s_size) /\ (r.n > 0 \/ r.ec # "none")
      BY <3>1 DEF do_read_some_sync
    <3>3. r.n \in Nat /\ (r.ec # "none" => r.n = 0)
      BY <1>1, <3>2
    <3> HIDE DEF t
    <3> QED
      BY <3>1, <3>2, <3>3
  <2> QED
    BY <2>1, <2>2
<1>6. /\ r.n \in Nat /\ taken + r.n <= Len(input)
      /\ r.ec # "none" => /\ r.n = 0 /\ r.ec = ended /\ ended # "no" /\ taken = Len(input)
                          /\ r.ec \in Codes \ {"none", "delim_not_found"}
  BY <1>1, <1>5
<1>7. taken' <= Len(input')
  BY <1>0, <1>5, <1>6 DEF environment
<1>8. CASE r.ec # "none"
  <2> DEFINE y == [oper EXCEPT !.m_error_code = r.ec]
  <2>1. /\ y.kind = oper.kind /\ y.size = oper.size /\ y.placed = oper.placed
        /\ y.m_error_code = r.ec /\ y \in Operations
    BY <1>2, <1>6, <1>8 DEF Operations
  <2>2. oper' = Complete(y) /\ UNCHANGED <<taken, rab>>
    BY <1>1, <1>5, <1>6, <1>8 DEF Fail
  <2> HIDE DEF y
  <2>3. Same(oper', y) /\ oper'.pc = "complete"
    BY <2>1, <2>2, GoesSame
  <2> QED
    BY <1>0, <1>1, <1>6, <1>8, <2>1, <2>2, <2>3, EndsSound
<1>9. CASE r.ec = "none" /\ r.n = 0
  <2>1. Same(oper', oper) /\ oper'.pc = "suspended"
    BY <1>2, <1>5, <1>9, GoesSame
  <2>2. Roomy(oper, input')
    BY <1>0, <1>1 DEF environment
  <2> QED
    BY <1>7, <2>1, <2>2, SoundWaits
<1>10. CASE r.ec = "none" /\ r.n # 0
  <2>1. Bytes(taken, r.n) \in Seq(Nat)
    BY <1>1, <1>6, BytesType
  <2> QED
    BY <1>0, <1>1, <1>5, <1>7, <1>10, <2>1, RefillSound
<1> QED
  BY <1>8, <1>9, <1>10

(* Who gives up has not succeeded, and is not told of any end.             *)
LEMMA TryAgainSound ==
  ASSUME SInv, "secure_transport" \notin Streams, try_again_sync
  PROVE  Sound'
<1> DEFINE c == "resource_unavailable_try_again"
           y == [oper EXCEPT !.m_error_code = c]
<1>1. /\ oper.pc = "advancing" /\ oper' = Complete(y)
      /\ UNCHANGED <<environment, taken, rab, input, ended>>
  BY DEF try_again_sync, Fail, environment
<1>2. oper \in Operations /\ Roomy(oper, input) /\ taken <= Len(input)
  BY <1>1 DEF SInv, IInv, Fits, Sound
<1>3. c \in Codes \ {"none", "delim_not_found"} /\ c \notin Endings
  BY DEF Codes, Endings
<1>4. /\ y \in Operations /\ y.kind = oper.kind /\ y.size = oper.size
      /\ y.placed = oper.placed /\ y.m_error_code = c
  BY <1>2, <1>3 DEF Operations
<1> HIDE DEF y, c
<1>5. Right(y, input)
  BY <1>2, <1>3, <1>4, FailsRightly
<1>6. AtEnd(y, input', ended', taken', rab')
  BY <1>3, <1>4 DEF AtEnd
<1>7. Same(oper', y) /\ oper'.pc = "complete"
  BY <1>1, <1>4, GoesSame
<1> QED
  BY <1>1, <1>2, <1>5, <1>6, <1>7, SoundCompletes

-----------------------------------------------------------------------------
(* SInv is an invariant of reading from a socket or from OpenSSL.          *)
LEMMA SoundAlways ==
  ASSUME "secure_transport" \notin Streams
  PROVE  Spec => []SInv
<1>1. Init => Sound
  BY DEF Init, Sound, Idle
<1>2. SInv /\ [Next]_vars => Sound'
  <2> SUFFICES ASSUME SInv, [Next]_vars PROVE Sound'
    OBVIOUS
  <2>1. CASE Environment
    BY <2>1, EnvironmentSound
  <2>2. CASE Program
    BY <2>2, InitiateSound, InitiateBufferedSound, OthersSound DEF Program
  <2>3. CASE Turn
    BY <2>3, AdvanceSound, BufferedSound DEF Turn
  <2>4. CASE ready \/ recycle_and_execute
    BY <2>4, OthersSound
  <2>5. CASE UNCHANGED vars
    BY <2>5 DEF vars, environment, SInv, Sound
  <2>6. CASE try_again_sync
    BY <2>6, TryAgainSound
  <2> QED
    BY <2>1, <2>2, <2>3, <2>4, <2>5, <2>6 DEF Next
<1>3. Spec => []IInv
  BY Invariance
<1> QED
  BY <1>1, <1>2, <1>3, PTL DEF Spec, SInv

(* Over a socket or OpenSSL, an operation that goes on has room left, no   *)
(* delimiter, no error and nothing to read in the read-ahead buffer: what  *)
(* advance() asserts holds however the input arrives.                      *)
THEOREM FindsRoom ==
  ASSUME "secure_transport" \notin Streams
  PROVE  Spec => []AdvanceFindsRoom
<1>1. SInv => AdvanceFindsRoom
  BY DEF SInv, IInv, Sound, Roomy, Marks, AdvanceFindsRoom
<1> QED
  BY <1>1, SoundAlways, PTL

(* Over a socket or OpenSSL, what an operation is told is true, for all    *)
(* sizes of buffers and any input: success, the missing delimiter, and the *)
(* end of the input.                                                       *)
THEOREM AnswersRight ==
  ASSUME "secure_transport" \notin Streams
  PROVE  Spec => []AnswerIsRight
<1>1. ASSUME SInv, oper.pc = "complete"
      PROVE  /\ ~oper.m_canceled => (Told(oper) = "none" <=> Succeeded(oper))
             /\ Told(oper) = "delim_not_found" => Until(oper) /\ Space(oper) = 0 /\ Delims(oper) = {}
             /\ Told(oper) \in Endings => Told(oper) = ended /\ taken = Len(input) /\ rab = <<>>
  <2>1. Marks(oper, input) = Delims(oper)
    BY DEF Marks, Delims
  <2>2. Success(oper, input) <=> Succeeded(oper)
    BY <2>1 DEF Success, Succeeded
  <2>3. CASE oper.m_canceled
    BY <2>3 DEF Told, Endings
  <2>4. CASE ~oper.m_canceled
    BY <1>1, <2>1, <2>2, <2>4 DEF SInv, Sound, Right, AtEnd, Told
  <2> QED
    BY <2>3, <2>4
<1>2. SInv => AnswerIsRight
  BY <1>1 DEF AnswerIsRight
<1> QED
  BY <1>2, SoundAlways, PTL

-----------------------------------------------------------------------------
(* What remains of type correctness: the caller's buffer is of a size that *)
(* was asked for, and the read-ahead buffer does not overflow.             *)
Sized == /\ oper.size \in 0 .. MaxSize /\ oper.m_error_code # "no"
         /\ Len(rab) <= s_size
         /\ renegotiation \in {"none", "pending", "done"}

(* ReadAheadBuffer::read() leaves no more than it finds. *)
LEMMA RabReadSized ==
  ASSUME NEW o, Fits(o), NEW b \in Seq(Nat), o.m_error_code # "no"
  PROVE  LET r == RabRead(o, b)
         IN  /\ r.oper \in Operations /\ r.oper.size = o.size /\ r.oper.m_error_code # "no"
             /\ Len(r.left) <= Len(b)
<1> DEFINE n     == Least(Len(b), Space(o))
           Ends(i) == Until(o) /\ input[b[i]] = "delim"
           found == \E i \in 1 .. n : Ends(i)
           upto  == {i \in 1 .. n : \A j \in 1 .. i - 1 : ~Ends(j)}
           k     == Cardinality(upto)
           now   == [o EXCEPT !.placed = @ \o SubSeq(b, 1, k)]
           full  == Space(now) = 0
           r     == RabRead(o, b)
<1> SUFFICES /\ r.oper \in Operations /\ r.oper.size = o.size /\ r.oper.m_error_code # "no"
             /\ Len(r.left) <= Len(b)
  OBVIOUS
<1>1. /\ r.left = SubSeq(b, k + 1, Len(b))
      /\ r.oper \in {now, [now EXCEPT !.m_error_code = "none"],
                     [now EXCEPT !.m_error_code = "delim_not_found"]}
  BY DEF RabRead
<1>2. r.oper \in Operations
  BY RabReadMoves DEF Fits
<1> HIDE DEF r, now, n
<1>3. Len(b) \in Nat /\ Space(o) \in Nat /\ n \in 0 .. Len(b)
  BY DEF Fits, Operations, Space, n, Least
<1>4. k \in 0 .. n
  <2>1. upto \subseteq 1 .. n /\ n \in Nat
    BY <1>3
  <2> HIDE DEF upto
  <2> QED
    BY <2>1, Moved
<1> HIDE DEF k
<1>5. Len(r.left) <= Len(b)
  BY <1>1, <1>3, <1>4
<1>6. now.size = o.size /\ now.m_error_code = o.m_error_code
  BY DEF now, Fits, Operations
<1>7. r.oper.size = o.size /\ r.oper.m_error_code # "no"
  <2>1. CASE r.oper = now
    BY <1>6, <2>1
  <2>2. ASSUME NEW c \in {"none", "delim_not_found"}, r.oper = [now EXCEPT !.m_error_code = c]
        PROVE  r.oper.size = o.size /\ r.oper.m_error_code # "no"
    <3>1. now \in Operations
      <4>1. k \in 0 .. Len(b) /\ k <= Space(o)
        BY <1>3, <1>4 DEF n, Least
      <4> QED
        BY <4>1, Moves DEF now, Fits
    <3> QED
      BY <1>6, <2>2, <3>1 DEF Operations
  <2> QED
    BY <1>1, <2>1, <2>2
<1> QED
  BY <1>2, <1>5, <1>7

(* The buffers keep their sizes. *)
LEMMA SizedNext ==
  ASSUME "secure_transport" \notin Streams, SInv, Sized, [Next]_vars
  PROVE  Sized'
<1>1. /\ IInv /\ Fits(oper) /\ oper \in Operations /\ oper.m_error_code # "no"
      /\ oper.size \in 0 .. MaxSize /\ Len(rab) <= s_size /\ rab \in Seq(Nat)
      /\ renegotiation \in {"none", "pending", "done"}
  BY DEF SInv, IInv, Fits, Sized
<1>2. s_size \in Nat \ {0} /\ MaxSize \in Nat
  BY SizesAssumption
<1>3. CASE Environment
  BY <1>1, <1>3 DEF Environment, peer_sends, peer_closes, connection_breaks, renegotiates,
     renegotiated, Sized
<1>4. CASE UNCHANGED vars
  BY <1>1, <1>4 DEF vars, environment, Sized
<1>5. ASSUME NEW z, Same(oper', z), z.size \in 0 .. MaxSize, z.m_error_code # "no",
             Len(rab') <= s_size, UNCHANGED environment
      PROVE  Sized'
  BY <1>1, <1>5 DEF Same, Sized, environment
<1>6. ASSUME NEW kind \in Kinds, NEW sync \in BOOLEAN, NEW size \in 0 .. MaxSize,
             initiate(kind, sync, size)
      PROVE  Sized'
  <2> DEFINE o == NewOper(kind, sync, size)
  <2>1. Fits(o) /\ o.size = size /\ o.m_error_code = "none"
    BY NewFields
  <2>2. /\ oper' = IF size = 0 THEN Complete(o) ELSE Begin(o)
        /\ rab' = rab /\ UNCHANGED environment
    BY <1>6 DEF initiate, Starts
  <2> HIDE DEF o
  <2>3. Same(oper', o)
    BY <2>1, <2>2, GoesSame DEF Fits
  <2> QED
    BY <1>1, <1>5, <2>1, <2>2, <2>3
<1>7. ASSUME NEW kind \in Kinds, NEW sync \in BOOLEAN, NEW size \in 0 .. MaxSize,
             initiate_buffered(kind, sync, size)
      PROVE  Sized'
  <2> DEFINE o == NewOper(kind, sync, size)
             r == RabRead(o, rab)
  <2>1. Fits(o) /\ o.size = size /\ o.m_error_code = "none"
    BY NewFields
  <2>2. /\ oper' = IF r.complete THEN Complete(r.oper) ELSE Begin(r.oper)
        /\ rab' = r.left /\ UNCHANGED environment
    BY <1>7 DEF initiate_buffered, Starts
  <2> HIDE DEF o
  <2>3. /\ r.oper \in Operations /\ r.oper.size = o.size /\ r.oper.m_error_code # "no"
        /\ Len(r.left) <= Len(rab)
    BY <1>1, <2>1, RabReadSized
  <2>4. r.left \in Seq(Nat)
    BY <1>1, <2>1, RabReadMoves
  <2> HIDE DEF r
  <2>5. Same(oper', r.oper)
    BY <2>2, <2>3, GoesSame
  <2>6. Len(rab') <= s_size
    BY <1>1, <1>2, <2>2, <2>3, <2>4
  <2> QED
    BY <1>5, <2>1, <2>2, <2>3, <2>5, <2>6
<1>8. CASE clear
  BY <1>1, <1>2, <1>8 DEF clear, environment, Sized
<1>9. CASE cancel
  BY <1>1, <1>9 DEF cancel, environment, Sized, Operations
<1>10. CASE ready
  <2>1. Same(oper', oper) /\ rab' = rab /\ UNCHANGED environment
    BY <1>1, <1>10, GoesSame DEF ready
  <2> QED
    BY <1>1, <1>5, <2>1
<1>11. CASE recycle_and_execute
  BY <1>1, <1>2, <1>11 DEF recycle_and_execute, environment, Sized, Idle
<1>12. CASE Turn
  <2>1. oper.pc = "advancing" /\ UNCHANGED environment
    BY <1>12 DEF Turn, advance, advance_buffered, read_sync, buffered_read_sync
  <2>2. rab = <<>> /\ taken \in Nat /\ Space(oper) \in Nat /\ s_size \in Nat
        /\ \A size \in Nat : \A r \in do_read_some_async(size) :
              /\ r.n \in Nat /\ r.n <= size
              /\ r.ec \in Codes \ {"no"}
    <3>1. /\ rab = <<>> /\ taken \in Nat /\ Space(oper) \in Nat /\ s_size \in Nat
          /\ \A size \in Nat : \A r \in do_read_some_async(size) :
                /\ r.n \in Nat /\ r.n <= size
                /\ r.ec # "none" => r.ec = ended /\ ended # "no"
      BY <2>1, TurnFinds
    <3>2. ended \in Endings
      BY <1>1 DEF IInv
    <3> QED
      BY <3>1, <3>2 DEF Codes, Endings
  <2>3. ASSUME NEW c \in Codes \ {"no"}
        PROVE  LET y == [oper EXCEPT !.m_error_code = c]
               IN  Fits(y) /\ y.size = oper.size /\ y.m_error_code # "no"
    BY <1>1 DEF Fits, Operations
  <2>4. ASSUME NEW c \in Codes \ {"no"}, oper' = Fail(oper, c), Len(rab') <= s_size
        PROVE  Sized'
    <3> DEFINE y == [oper EXCEPT !.m_error_code = c]
    <3>1. Fits(y) /\ y.size = oper.size /\ y.m_error_code # "no"
      BY <2>3
    <3>2. oper' = Complete(y)
      BY <2>4 DEF Fail
    <3> HIDE DEF y
    <3>3. Same(oper', y)
      BY <3>1, <3>2, GoesSame DEF Fits
    <3> QED
      BY <1>1, <1>5, <2>1, <2>4, <3>1, <3>3
  <2>5. CASE advance \/ read_sync
    <3> DEFINE now(r) == [oper EXCEPT !.placed = @ \o Bytes(taken, r.n), !.m_error_code = r.ec]
    <3>1. PICK r \in do_read_some_async(Space(oper)) :
            \/ oper' = Complete(now(r)) \/ oper' = Continue(now(r))
            \/ oper' = Suspend(now(r), r.want) \/ oper' = Proceed(now(r), r.want)
            \/ oper' = Fail(oper, r.ec)
      <4>1. CASE advance
        BY <4>1 DEF advance, advance_turn
      <4>2. CASE read_sync
        BY <4>2 DEF read_sync, do_read_some_sync
      <4> QED
        BY <2>5, <4>1, <4>2
    <3>2. r.n \in Nat /\ r.n <= Space(oper) /\ r.ec \in Codes \ {"no"}
      BY <2>2, <3>1
    <3>3. now(r) \in Operations /\ now(r).size = oper.size /\ now(r).m_error_code # "no"
      <4>1. oper.placed \o Bytes(taken, r.n) \in Seq(Nat)
        <5>1. oper.placed \in Seq(Nat) /\ Bytes(taken, r.n) \in Seq(Nat)
          BY <1>1, <2>2, <3>2, BytesType DEF Operations
        <5> QED
          BY <5>1, ConcatProperties
      <4> QED
        BY <1>1, <3>2, <4>1 DEF Operations
    <3>4. Len(rab') <= s_size
      BY <1>1, <2>5 DEF advance, read_sync
    <3> HIDE DEF now
    <3>5. CASE oper' = Fail(oper, r.ec)
      BY <2>4, <3>2, <3>4, <3>5
    <3>6. CASE oper' # Fail(oper, r.ec)
      <4>1. Same(oper', now(r))
        BY <3>1, <3>3, <3>6, GoesSame
      <4> QED
        BY <1>1, <1>5, <2>1, <3>3, <3>4, <4>1
    <3> QED
      BY <3>5, <3>6
  <2>6. CASE advance_buffered \/ buffered_read_sync
    <3> DEFINE y(c) == [oper EXCEPT !.m_error_code = c]
               b(r) == Bytes(taken, r.n)
    <3>1. PICK r \in do_read_some_async(s_size) : \E c \in {oper.m_error_code, r.ec} :
            \/ oper' = Fail(oper, r.ec) /\ rab' \in {rab, b(r)}
            \/ oper' = Suspend(oper, r.want) /\ rab' = rab
            \/ /\ rab' = RabRead(y(c), b(r)).left
               /\ LET z == RabRead(y(c), b(r)).oper
                  IN  oper' = Complete(z) \/ oper' = Continue(z) \/ oper' = Proceed(z, r.want)
      <4>1. CASE advance_buffered
        BY <4>1 DEF advance_buffered
      <4>2. CASE buffered_read_sync
        <5>1. y(oper.m_error_code) = oper
          BY <1>1 DEF Operations
        <5>2. PICK r \in do_read_some_sync(s_size) :
                \/ oper' = Fail(oper, r.ec) /\ rab' \in {rab, b(r)}
                \/ /\ r.ec = "none" /\ rab' = RabRead(oper, IF r.n = 0 THEN rab ELSE b(r)).left
                   /\ LET z == RabRead(oper, IF r.n = 0 THEN rab ELSE b(r)).oper
                      IN  oper' = Complete(z) \/ oper' = Continue(z)
          BY <4>2 DEF buffered_read_sync
        <5>3. r \in do_read_some_async(s_size) /\ (r.n > 0 \/ r.ec # "none")
          BY <5>2 DEF do_read_some_sync
        <5>4. r.ec = "none" => r.n # 0
          BY <2>2, <5>3
        <5> HIDE DEF y, b
        <5> QED
          BY <5>1, <5>2, <5>3, <5>4
      <4> QED
        BY <2>6, <4>1, <4>2
    <3>8. PICK c \in {oper.m_error_code, r.ec} :
            \/ oper' = Fail(oper, r.ec) /\ rab' \in {rab, b(r)}
            \/ oper' = Suspend(oper, r.want) /\ rab' = rab
            \/ /\ rab' = RabRead(y(c), b(r)).left
               /\ LET z == RabRead(y(c), b(r)).oper
                  IN  oper' = Complete(z) \/ oper' = Continue(z) \/ oper' = Proceed(z, r.want)
      BY <3>1
    <3>2. r.n \in Nat /\ r.n <= s_size /\ r.ec \in Codes \ {"no"}
      BY <2>2, <3>1
    <3>3. b(r) \in Seq(Nat) /\ Len(b(r)) = r.n
      BY <2>2, <3>2, BytesType
    <3>4. Fits(y(c)) /\ y(c).size = oper.size /\ y(c).m_error_code # "no"
      <4>1. c \in Codes \ {"no"}
        BY <1>1, <3>2, <3>8 DEF Operations
      <4> QED
        BY <2>3, <4>1
    <3> HIDE DEF y, b
    <3>5. CASE oper' = Fail(oper, r.ec) /\ rab' \in {rab, b(r)}
      BY <1>1, <2>4, <3>2, <3>3, <3>5
    <3>6. CASE oper' = Suspend(oper, r.want) /\ rab' = rab
      <4>1. Same(oper', oper)
        BY <1>1, <3>6, GoesSame
      <4> QED
        BY <1>1, <1>5, <2>1, <3>6, <4>1
    <3>7. CASE /\ rab' = RabRead(y(c), b(r)).left
               /\ LET z == RabRead(y(c), b(r)).oper
                  IN  oper' = Complete(z) \/ oper' = Continue(z) \/ oper' = Proceed(z, r.want)
      <4> DEFINE t == RabRead(y(c), b(r))
      <4>1. /\ t.oper \in Operations /\ t.oper.size = oper.size /\ t.oper.m_error_code # "no"
            /\ Len(t.left) <= Len(b(r)) /\ t.left \in Seq(Nat)
        BY <3>3, <3>4, RabReadSized, RabReadMoves
      <4>2. /\ rab' = t.left
            /\ oper' = Complete(t.oper) \/ oper' = Continue(t.oper) \/ oper' = Proceed(t.oper, r.want)
        BY <3>7
      <4> HIDE DEF t
      <4>3. Same(oper', t.oper)
        BY <4>1, <4>2, GoesSame
      <4>4. Len(rab') <= s_size
        BY <1>2, <3>2, <3>3, <4>1, <4>2, SMTT(20)
      <4> QED
        BY <1>1, <1>5, <2>1, <4>1, <4>3, <4>4
    <3> QED
      BY <3>5, <3>6, <3>7, <3>8
  <2> QED
    BY <1>12, <2>5, <2>6 DEF Turn
<1>13. CASE try_again_sync
  <2> DEFINE y == [oper EXCEPT !.m_error_code = "resource_unavailable_try_again"]
  <2>1. oper' = Complete(y) /\ rab' = rab /\ UNCHANGED environment
    BY <1>13 DEF try_again_sync, Fail
  <2>2. y \in Operations /\ y.size = oper.size /\ y.m_error_code # "no"
    BY <1>1 DEF Operations, Codes
  <2> HIDE DEF y
  <2>3. Same(oper', y)
    BY <2>1, <2>2, GoesSame
  <2> QED
    BY <1>1, <1>5, <2>1, <2>2, <2>3
<1> QED
  BY <1>3, <1>4, <1>6, <1>7, <1>8, <1>9, <1>10, <1>11, <1>12, <1>13 DEF Next, Program

(* Over a socket or OpenSSL, type correctness, for all sizes: neither the  *)
(* caller's buffer nor the read-ahead buffer overflows, and what is in     *)
(* them has been taken from the stream.                                    *)
THEOREM TypeCorrect ==
  ASSUME "secure_transport" \notin Streams
  PROVE  Spec => []TypeOK
<1>1. Init => Sized
  BY SizesAssumption DEF Init, Sized, Idle
<1>2. SInv /\ Sized => TypeOK
  <2> SUFFICES ASSUME SInv, Sized PROVE TypeOK
    OBVIOUS
  <2>1. IInv /\ Fits(oper) /\ oper \in Operations /\ taken <= Len(input)
    BY DEF SInv, Sound, IInv, Fits
  <2>2. /\ oper.placed \in Seq(1 .. taken) /\ rab \in Seq(1 .. taken)
        /\ received \in Seq(1 .. taken)
    BY <2>1, AllTaken
  <2>3. Space(oper) >= 0
    BY <2>1 DEF Fits, Operations, Space
  <2>4. taken \in 0 .. Len(input)
    BY <2>1 DEF IInv
  <2>5. oper \in [kind : Kinds \cup {"none"}, sync : BOOLEAN, size : 0 .. MaxSize,
                  placed : Seq(1 .. taken), want : {"nothing", "read", "write"},
                  m_error_code : Errors,
                  m_canceled : BOOLEAN, pc : {"idle", "advancing", "suspended", "complete"}]
    <3> DEFINE P == Seq(1 .. taken)
               C == Errors
               Z == 0 .. MaxSize
    <3>1. oper.placed \in P /\ oper.size \in Z
      BY <2>2 DEF Sized
    <3>2. oper.m_error_code \in C
      BY <2>1 DEF Sized, Operations, Codes, Errors
    <3> HIDE DEF P, C, Z
    <3>3. oper \in [kind : Kinds \cup {"none"}, sync : BOOLEAN, size : Z, placed : P,
                    want : {"nothing", "read", "write"}, m_error_code : C,
                    m_canceled : BOOLEAN, pc : {"idle", "advancing", "suspended", "complete"}]
      BY <2>1, <3>1, <3>2 DEF Operations, Wants, Stages
    <3> QED
      BY <3>3 DEF P, C, Z
  <2> QED
    BY <2>1, <2>2, <2>3, <2>4, <2>5 DEF TypeOK, IInv, Sized
<1> QED
  BY <1>1, <1>2, SizedNext, SoundAlways, PTL DEF Spec
=============================================================================
