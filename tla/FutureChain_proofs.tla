------------------------- MODULE FutureChain_proofs -------------------------
(***************************************************************************)
(* Proofs about FutureChain, for every number of operations and for every  *)
(* kind of continuation: the types, that no state is touched after it has  *)
(* been deleted, that none is left when all is done, that no two threads   *)
(* touch the same member at once, that the outcome of the loop reaches the *)
(* final callback, once, that the chain, for its user, is a one-shot       *)
(* promise, and that it does not grow with the rounds.                     *)
(***************************************************************************)
EXTENDS FutureChainInv, SequenceTheorems, FiniteSetTheorems, WellFoundedInduction, TLAPS

-----------------------------------------------------------------------------
(* Pushing, popping and replacing calls, seen by place. *)
LEMMA Replaced ==
    ASSUME NEW S, NEW calls \in Seq(S), calls # <<>>, NEW c \in S, NEW f, NEW g,
           NEW h \in Nat \ {0}
    PROVE  Slot(<<c>> \o Tail(calls), g, h) = IF h = Len(calls) THEN c ELSE Slot(calls, f, h)
<1>1. Len(calls) \in Nat \ {0}
  BY EmptySeq
<1>2. Tail(calls) \in Seq(S) /\ Len(Tail(calls)) = Len(calls) - 1
      /\ \A i \in 1..(Len(calls) - 1) : Tail(calls)[i] = calls[i + 1]
  BY HeadTailProperties
<1>3. <<c>> \in Seq(S) /\ Len(<<c>>) = 1 /\ <<c>>[1] = c
  OBVIOUS
<1> DEFINE new == <<c>> \o Tail(calls)
<1>4. /\ Len(new) = Len(calls)
      /\ new[1] = c
      /\ \A i \in 2..Len(calls) : new[i] = calls[i]
  BY <1>1, <1>2, <1>3
<1> HIDE DEF new
<1>5. Slot(new, g, h) = IF h = Len(calls) THEN c ELSE Slot(calls, f, h)
  <2>1. CASE h < Len(calls)
    <3>1. Len(calls) + 1 - h \in 2..Len(calls)
      BY <1>1, <2>1
    <3> QED BY <1>1, <1>4, <2>1, <3>1 DEF Slot
  <2>2. CASE h >= Len(calls)
    BY <1>1, <1>4, <2>2 DEF Slot
  <2> QED BY <1>1, <2>1, <2>2
<1> QED BY <1>5 DEF new

LEMMA Popped ==
    ASSUME NEW S, NEW calls \in Seq(S), calls # <<>>, NEW f, NEW g, NEW h \in Nat \ {0}
    PROVE  Slot(<<>> \o Tail(calls), g, h) = IF h = Len(calls) THEN NoCall ELSE Slot(calls, f, h)
<1>1. Len(calls) \in Nat \ {0}
  BY EmptySeq
<1>2. Tail(calls) \in Seq(S) /\ Len(Tail(calls)) = Len(calls) - 1
      /\ \A i \in 1..(Len(calls) - 1) : Tail(calls)[i] = calls[i + 1]
  BY HeadTailProperties
<1> DEFINE new == <<>> \o Tail(calls)
<1>3. new = Tail(calls)
  BY <1>2, ConcatEmptySeq
<1>4. /\ Len(new) = Len(calls) - 1
      /\ \A i \in 1..(Len(calls) - 1) : new[i] = calls[i + 1]
  BY <1>1, <1>2, <1>3
<1> HIDE DEF new
<1>5. Slot(new, g, h) = IF h = Len(calls) THEN NoCall ELSE Slot(calls, f, h)
  <2>1. CASE h < Len(calls)
    <3>1. Len(calls) - h \in 1..(Len(calls) - 1)
      BY <1>1, <2>1
    <3> QED BY <1>1, <1>4, <2>1, <3>1 DEF Slot
  <2>2. CASE h >= Len(calls)
    BY <1>1, <1>4, <2>2 DEF Slot
  <2> QED BY <1>1, <2>1, <2>2
<1> QED BY <1>5 DEF new

LEMMA Called ==
    ASSUME NEW calls \in Seq(Calls), calls # <<>>, NEW a \in Calls, NEW c \in Calls, NEW f, NEW g,
           NEW h \in Nat \ {0}
    PROVE  Slot(<<a, c>> \o Tail(calls), g, h)
              = IF h = Len(calls) THEN c ELSE IF h = Len(calls) + 1 THEN a ELSE Slot(calls, f, h)
<1>1. Len(calls) \in Nat \ {0}
  BY EmptySeq
<1>2. Tail(calls) \in Seq(Calls) /\ Len(Tail(calls)) = Len(calls) - 1
      /\ \A i \in 1..(Len(calls) - 1) : Tail(calls)[i] = calls[i + 1]
  BY HeadTailProperties
<1> DEFINE new == <<a, c>> \o Tail(calls)
<1>3. /\ Len(new) = Len(calls) + 1
      /\ new[1] = a /\ new[2] = c
      /\ \A i \in 3..(Len(calls) + 1) : new[i] = calls[i - 1]
  BY <1>1, <1>2
<1> HIDE DEF new
<1>4. Slot(new, g, h) = IF h = Len(calls) THEN c ELSE IF h = Len(calls) + 1
        THEN a ELSE Slot(calls, f, h)
  <2>1. CASE h < Len(calls)
    <3>1. Len(calls) + 2 - h \in 3..(Len(calls) + 1)
      BY <1>1, <2>1
    <3> QED BY <1>1, <1>3, <2>1, <3>1 DEF Slot
  <2>2. CASE h >= Len(calls)
    BY <1>1, <1>3, <2>2 DEF Slot
  <2> QED BY <1>1, <2>1, <2>2
<1> QED BY <1>4 DEF new

(* A set of numbers up to n has a greatest element. *)
LEMMA Greatest ==
    ASSUME NEW n \in Nat, NEW T \in SUBSET (0..n), T # {}
    PROVE  \E x \in T : \A y \in T : y <= x
<1> DEFINE U == {m \in Nat : n - m \in T}
<1>1. U # {}
  <2>1. PICK x \in T : TRUE
    OBVIOUS
  <2>2. n - x \in U
    BY <2>1
  <2> QED BY <2>2
<1> DEFINE R == OpToRel(<, Nat)
<1>2. PICK m \in U : \A k \in U : <<k, m>> \notin R
  <2> HIDE DEF R
  <2>1. U \subseteq Nat
    OBVIOUS
  <2>2. IsWellFoundedOn(R, Nat)
    BY NatLessThanWellFounded DEF R
  <2> HIDE DEF U
  <2> QED BY <1>1, <2>1, <2>2, WFMin
<1>3. ASSUME NEW k \in U PROVE m <= k
  <2>1. <<k, m>> \notin R
    BY <1>2
  <2>2. k \in Nat /\ m \in Nat
    OBVIOUS
  <2> QED BY <2>1, <2>2 DEF OpToRel
<1>4. \A y \in T : n - y \in U
  OBVIOUS
<1> QED BY <1>3, <1>4

-----------------------------------------------------------------------------
(* What a step of a thread does to its places. *)

LEMMA Spots ==
    ASSUME Typed, NEW t \in Threads, stack[t] # <<>>
    PROVE  \E p0, p1, p2 \in Places : Spot(t, p0, p1, p2)
<1>1. Len(stack[t]) \in Nat \ {0}
  BY EmptySeq DEF Typed
<1>2. <<t, 0>> \in Places /\ <<t, Len(stack[t])>> \in Places /\ <<t, Len(stack[t]) + 1>> \in Places
  BY <1>1 DEF Places
<1>3. Spot(t, <<t, 0>>, <<t, Len(stack[t])>>, <<t, Len(stack[t]) + 1>>)
  BY <1>1 DEF Spot
<1> QED BY <1>2, <1>3

LEMMA Surroundings ==
    ASSUME Typed, NEW t \in Threads, NEW p0 \in Places, NEW p1 \in Places, NEW p2 \in Places,
           Spot(t, p0, p1, p2)
    PROVE  /\ Around(p0, p1, p2)
           /\ Frame(p2) = NoCall /\ Frame(p1) = stack[t][1] /\
                Frame(p0) = After(stack[t][1], returned[t])
<1> DEFINE d == Len(stack[t])
<1>1. d \in Nat \ {0} /\ p0 = <<t, 0>> /\ p1 = <<t, d>> /\ p2 = <<t, d + 1>>
  BY DEF Spot
<1>2. \A q \in Places : q = <<q[1], q[2]>> /\ q[1] \in Threads /\ q[2] \in Nat
  BY DEF Places
<1>3. \A q \in Places : q[1] = t /\ q[2] > d => Frame(q) = NoCall
  BY <1>1, <1>2 DEF Frame, FrameIn, Slot
<1>4. \A q \in Places : q[1] = t /\ q[2] # 0 /\ q[2] <= d => Frame(q).op # "none"
  <2>1. ASSUME NEW q \in Places, q[1] = t, q[2] # 0, q[2] <= d
        PROVE  Frame(q).op # "none"
    <3>1. Frame(q) = stack[t][d + 1 - q[2]] /\ d + 1 - q[2] \in 1..d
      BY <1>1, <1>2, <2>1 DEF Frame, FrameIn, Slot
    <3>2. Frame(q) \in Calls
      BY <3>1 DEF Typed
    <3> QED BY <3>2 DEF Calls, Kinds
  <2> QED BY <2>1
<1>5. NoCall.op = "none"
  BY DEF NoCall, Call
<1> HIDE DEF d
<1>6. /\ p0 # p1 /\ p0 # p2 /\ p1 # p2
      /\ p0[2] = 0 /\ p1[2] # 0 /\ p2[2] # 0 /\ p2[2] # 1
      /\ Over(p2, p1) /\ Origin(p0, p1) /\ Origin(p0, p2)
  BY <1>1 DEF Over, Origin
<1>7. ASSUME NEW q \in Places
      PROVE  /\ Over(q, p1) => q = p2
             /\ Over(p2, q) => q = p1
             /\ ~Over(q, p0) /\ ~Over(p0, q)
             /\ Over(p1, q) => q # p1 /\ q # p2
             /\ Over(q, p2) => q # p1 /\ q # p2 /\ Frame(q) = NoCall
             /\ Origin(q, p1) \/ Origin(q, p2) => q = p0
             /\ ~Origin(p1, q) /\ ~Origin(p2, q)
  <2>1. q = <<q[1], q[2]>> /\ q[1] \in Threads /\ q[2] \in Nat
    BY <1>2
  <2>2. Over(q, p1) => q = p2
    BY <2>1, <1>1 DEF Over
  <2>3. Over(p2, q) => q = p1
    BY <2>1, <1>1 DEF Over
  <2>4. ~Over(q, p0) /\ ~Over(p0, q) /\ (Over(p1, q) => q # p1 /\ q # p2)
    BY <2>1, <1>1 DEF Over
  <2>5. Over(q, p2) => q # p1 /\ q # p2 /\ Frame(q) = NoCall
    BY <2>1, <1>1, <1>3 DEF Over
  <2>6. Origin(q, p1) \/ Origin(q, p2) => q = p0
    BY <2>1, <1>1 DEF Origin
  <2>7. ~Origin(p1, q) /\ ~Origin(p2, q)
    BY <2>1, <1>1 DEF Origin
  <2> QED BY <2>2, <2>3, <2>4, <2>5, <2>6, <2>7
<1>8. ASSUME NEW q \in Places
      PROVE  /\ Below(q, p2) <=> Below(q, p1) \/ q = p1
             /\ ~Below(p0, q) /\ ~Below(q, p0) /\ ~Below(q, q)
             /\ Below(p1, q) => q = p2 \/ Frame(q) = NoCall
             /\ Below(p2, q) => Frame(q) = NoCall
  <2>1. q = <<q[1], q[2]>> /\ q[1] \in Threads /\ q[2] \in Nat
    BY <1>2
  <2>2. Below(q, p2) <=> Below(q, p1) \/ q = p1
    BY <2>1, <1>1 DEF Below
  <2>3. ~Below(p0, q) /\ ~Below(q, p0) /\ ~Below(q, q)
    BY <2>1, <1>1 DEF Below
  <2>4. Below(p1, q) => q = p2 \/ Frame(q) = NoCall
    BY <2>1, <1>1, <1>3 DEF Below
  <2>5. Below(p2, q) => Frame(q) = NoCall
    BY <2>1, <1>1, <1>3 DEF Below
  <2> QED BY <2>2, <2>3, <2>4, <2>5
<1>9. \A p, q \in Places : Over(q, p) => (Origin(p0, p) <=> Origin(p0, q))
  BY <1>1 DEF Over, Origin
<1>10. Frame(p2) = NoCall /\ Frame(p1) = stack[t][1] /\ Frame(p0) = After(stack[t][1], returned[t])
  BY <1>1 DEF Frame, FrameIn, Slot, d, After
<1>11. ASSUME NEW p \in Places, NEW q \in Places, Over(q, p), Origin(p0, p), p # p1
       PROVE  Frame(p).op = "none" \/ Frame(q).op # "none"
  <2>1. p[1] = t /\ q[1] = t /\ p[2] \in Nat \ {0} /\ q[2] = p[2] + 1 /\ p[2] # d
    BY <1>1, <1>2, <1>11 DEF Over, Origin
  <2> QED BY <1>1, <1>3, <1>4, <1>5, <2>1
<1> QED BY <1>6, <1>7, <1>8, <1>9, <1>10, <1>11 DEF Around

LEMMA Turning ==
    ASSUME Typed, NEW t \in Threads, stack[t] # <<>>, NEW c \in Calls, Becomes(t, <<c>>),
           \A u \in Threads \ {t} : returned'[u] = returned[u],
           NEW p0 \in Places, NEW p1 \in Places, NEW p2 \in Places, Spot(t, p0, p1, p2)
    PROVE  /\ Turns(p0, p1, p2, c, NoCall, After(c, returned'[t]))
           /\ stack' \in [Threads -> Seq(Calls)]
<1> DEFINE calls == stack[t]
           new == <<c>> \o Tail(calls)
<1>1. calls \in Seq(Calls) /\ calls # <<>> /\ stack \in [Threads -> Seq(Calls)]
  BY DEF Typed
<1>2. Len(calls) \in Nat \ {0} /\ Tail(calls) \in Seq(Calls)
  BY <1>1, EmptySeq, HeadTailProperties
<1>3. new \in Seq(Calls) /\ new # <<>> /\ Head(new) = c
  BY <1>2
<1>4. stack'[t] = new /\ stack' \in [Threads -> Seq(Calls)]
      /\ \A u \in Threads : u # t => stack'[u] = stack[u]
  BY <1>1, <1>3 DEF Becomes
<1>5. \A h \in Nat \ {0} : Slot(new, returned'[t], h) = IF h = Len(calls)
        THEN c ELSE Slot(calls, returned[t], h)
  <2> HIDE DEF calls, new
  <2>1. ASSUME NEW h \in Nat \ {0}
        PROVE  Slot(<<c>> \o Tail(calls), returned'[t], h) = IF h = Len(calls)
                 THEN c ELSE Slot(calls, returned[t], h)
    <3>1. calls \in Seq(Calls) /\ calls # <<>> /\ h \in Nat \ {0}
      BY <1>1
    <3> QED BY <3>1, Replaced
  <2> QED BY <2>1 DEF new
<1>6. /\ p0 = <<t, 0>> /\ p1 = <<t, Len(calls)>> /\ p2 = <<t, Len(calls) + 1>>
      /\ Len(calls) \in Nat \ {0}
  BY DEF Spot
<1> HIDE DEF calls, new
<1>7. ASSUME NEW p \in Places, p \notin {p0, p1, p2}
      PROVE  FrameIn(stack', returned', p) = Frame(p)
  <2>1. p = <<p[1], p[2]>> /\ p[1] \in Threads /\ p[2] \in Nat
    BY DEF Places
  <2>2. CASE p[1] # t
    BY <2>1, <2>2, <1>4 DEF Frame, FrameIn
  <2>3. CASE p[1] = t
    <3>1. p[2] \in Nat \ {0} /\ p[2] # Len(calls) /\ p[2] # Len(calls) + 1
      BY <1>6, <1>7, <2>1, <2>3
    <3>2. Slot(new, returned'[t], p[2]) = Slot(calls, returned[t], p[2])
      BY <3>1, <1>5
    <3> QED BY <3>2, <2>3, <1>4 DEF Frame, FrameIn, calls
  <2> QED BY <2>2, <2>3
<1>8. FrameIn(stack', returned', p0) = After(c, returned'[t])
  BY <1>3, <1>4, <1>6 DEF FrameIn, Slot, After
<1>9. FrameIn(stack', returned', p1) = c /\ FrameIn(stack', returned', p2) = NoCall
  <2>1. Slot(new, returned'[t], Len(calls)) = c
    BY <1>2, <1>5
  <2>2. Slot(new, returned'[t], Len(calls) + 1) = NoCall
    <3>1. Slot(calls, returned[t], Len(calls) + 1) = NoCall
      BY <1>2 DEF Slot
    <3> QED BY <1>2, <1>5, <3>1
  <2>3. FrameIn(stack', returned', p1) = Slot(new, returned'[t], Len(calls))
    BY <1>4, <1>6 DEF FrameIn
  <2>4. FrameIn(stack', returned', p2) = Slot(new, returned'[t], Len(calls) + 1)
    BY <1>4, <1>6 DEF FrameIn
  <2> QED BY <2>1, <2>2, <2>3, <2>4
<1> QED BY <1>4, <1>7, <1>8, <1>9 DEF Turns

LEMMA Calling ==
    ASSUME Typed, NEW t \in Threads, stack[t] # <<>>, NEW a \in Calls, NEW c \in Calls,
           Becomes(t, <<a, c>>),
           \A u \in Threads \ {t} : returned'[u] = returned[u],
           NEW p0 \in Places, NEW p1 \in Places, NEW p2 \in Places, Spot(t, p0, p1, p2)
    PROVE  /\ Turns(p0, p1, p2, c, a, After(a, returned'[t]))
           /\ stack' \in [Threads -> Seq(Calls)]
<1> DEFINE calls == stack[t]
           new == <<a, c>> \o Tail(calls)
<1>1. calls \in Seq(Calls) /\ calls # <<>> /\ stack \in [Threads -> Seq(Calls)]
  BY DEF Typed
<1>2. Len(calls) \in Nat \ {0} /\ Tail(calls) \in Seq(Calls)
  BY <1>1, EmptySeq, HeadTailProperties
<1>3. new \in Seq(Calls) /\ new # <<>> /\ Head(new) = a
  BY <1>2
<1>4. stack'[t] = new /\ stack' \in [Threads -> Seq(Calls)]
      /\ \A u \in Threads : u # t => stack'[u] = stack[u]
  BY <1>1, <1>3 DEF Becomes
<1>5. \A h \in Nat \ {0} : Slot(new, returned'[t], h) = IF h = Len(calls) THEN c
         ELSE IF h = Len(calls) + 1 THEN a ELSE Slot(calls, returned[t], h)
  <2> HIDE DEF calls, new
  <2>1. ASSUME NEW h \in Nat \ {0}
        PROVE  Slot(<<a, c>> \o Tail(calls), returned'[t], h) = IF h = Len(calls) THEN c
         ELSE IF h = Len(calls) + 1 THEN a ELSE Slot(calls, returned[t], h)
    <3>1. calls \in Seq(Calls) /\ calls # <<>> /\ h \in Nat \ {0}
      BY <1>1
    <3>2. PICK f : f = returned[t]
      OBVIOUS
    <3>3. PICK g : g = returned'[t]
      OBVIOUS
    <3>4. Slot(<<a, c>> \o Tail(calls), g, h) = IF h = Len(calls) THEN c
            ELSE IF h = Len(calls) + 1 THEN a ELSE Slot(calls, f, h)
      BY <3>1, Called
    <3> QED BY <3>2, <3>3, <3>4
  <2> QED BY <2>1 DEF new
<1>6. /\ p0 = <<t, 0>> /\ p1 = <<t, Len(calls)>> /\ p2 = <<t, Len(calls) + 1>>
      /\ Len(calls) \in Nat \ {0}
  BY DEF Spot
<1> HIDE DEF calls, new
<1>7. ASSUME NEW p \in Places, p \notin {p0, p1, p2}
      PROVE  FrameIn(stack', returned', p) = Frame(p)
  <2>1. p = <<p[1], p[2]>> /\ p[1] \in Threads /\ p[2] \in Nat
    BY DEF Places
  <2>2. CASE p[1] # t
    BY <2>1, <2>2, <1>4 DEF Frame, FrameIn
  <2>3. CASE p[1] = t
    <3>1. p[2] \in Nat \ {0} /\ p[2] # Len(calls) /\ p[2] # Len(calls) + 1
      BY <1>6, <1>7, <2>1, <2>3
    <3>2. Slot(new, returned'[t], p[2]) = Slot(calls, returned[t], p[2])
      BY <3>1, <1>5
    <3> QED BY <3>2, <2>3, <1>4 DEF Frame, FrameIn, calls
  <2> QED BY <2>2, <2>3
<1>8. FrameIn(stack', returned', p0) = After(a, returned'[t])
  BY <1>3, <1>4, <1>6 DEF FrameIn, Slot, After
<1>9. FrameIn(stack', returned', p1) = c /\ FrameIn(stack', returned', p2) = a
  <2>1. Slot(new, returned'[t], Len(calls)) = c
    BY <1>2, <1>5
  <2>2. Slot(new, returned'[t], Len(calls) + 1) = a
    <3>1. Slot(calls, returned[t], Len(calls) + 1) = NoCall
      BY <1>2 DEF Slot
    <3> QED BY <1>2, <1>5, <3>1
  <2>3. FrameIn(stack', returned', p1) = Slot(new, returned'[t], Len(calls))
    BY <1>4, <1>6 DEF FrameIn
  <2>4. FrameIn(stack', returned', p2) = Slot(new, returned'[t], Len(calls) + 1)
    BY <1>4, <1>6 DEF FrameIn
  <2> QED BY <2>1, <2>2, <2>3, <2>4
<1> QED BY <1>4, <1>7, <1>8, <1>9 DEF Turns

LEMMA Returning ==
    ASSUME Typed, NEW t \in Threads, stack[t] # <<>>, Becomes(t, <<>>),
           \A u \in Threads \ {t} : returned'[u] = returned[u],
           NEW p0 \in Places, NEW p1 \in Places, NEW p2 \in Places, Spot(t, p0, p1, p2)
    PROVE  /\ Turns(p0, p1, p2, NoCall, NoCall,
                    IF \E q \in Places : Over(p1, q) /\ Waits(Frame(q))
                      THEN Given(returned'[t]) ELSE NoCall)
           /\ stack' \in [Threads -> Seq(Calls)]
<1> DEFINE calls == stack[t]
           new == <<>> \o Tail(calls)
<1>1. calls \in Seq(Calls) /\ calls # <<>> /\ stack \in [Threads -> Seq(Calls)]
  BY DEF Typed
<1>2. Len(calls) \in Nat \ {0} /\ Tail(calls) \in Seq(Calls)
  BY <1>1, EmptySeq, HeadTailProperties
<1>3. new \in Seq(Calls) /\ new = Tail(calls)
  BY <1>2, ConcatEmptySeq
<1>4. stack'[t] = new /\ stack' \in [Threads -> Seq(Calls)]
      /\ \A u \in Threads : u # t => stack'[u] = stack[u]
  BY <1>1, <1>3 DEF Becomes
<1>5. \A h \in Nat \ {0} : Slot(new, returned'[t], h) = IF h = Len(calls)
        THEN NoCall ELSE Slot(calls, returned[t], h)
  <2> HIDE DEF calls, new
  <2>1. ASSUME NEW h \in Nat \ {0}
        PROVE  Slot(<<>> \o Tail(calls), returned'[t], h) = IF h = Len(calls)
                 THEN NoCall ELSE Slot(calls, returned[t], h)
    <3>1. calls \in Seq(Calls) /\ calls # <<>> /\ h \in Nat \ {0}
      BY <1>1
    <3> QED BY <3>1, Popped
  <2> QED BY <2>1 DEF new
<1>6. /\ p0 = <<t, 0>> /\ p1 = <<t, Len(calls)>> /\ p2 = <<t, Len(calls) + 1>>
      /\ Len(calls) \in Nat \ {0}
  BY DEF Spot
<1>7. Len(calls) = 1 => new = <<>>
  <2>1. new \in Seq(Calls) /\ Len(new) = Len(calls) - 1
    BY <1>1, <1>3, HeadTailProperties
  <2>2. Len(calls) = 1 => Len(new) = 0
    BY <2>1
  <2> HIDE DEF new, calls
  <2> QED BY <2>1, <2>2, EmptySeq
<1>8. Len(calls) > 1 => new # <<>> /\ Head(new) = Slot(calls, returned[t], Len(calls) - 1)
  <2> SUFFICES ASSUME Len(calls) > 1
               PROVE  new # <<>> /\ Head(new) = Slot(calls, returned[t], Len(calls) - 1)
    OBVIOUS
  <2>1. Len(new) = Len(calls) - 1 /\ \A i \in 1..(Len(calls) - 1) : new[i] = calls[i + 1]
    BY <1>1, <1>3, HeadTailProperties
  <2> DEFINE n == Len(calls)
  <2>2. n \in Nat /\ n > 1 /\ Len(new) = n - 1 /\ (1 \in 1..(n - 1) => new[1] = calls[1 + 1])
    BY <1>2, <2>1
  <2>3. \A m : Slot(calls, returned[t], m) = IF m = 0 THEN Slot(calls, returned[t], 0)
                                             ELSE IF m <= n THEN calls[n + 1 - m] ELSE NoCall
    BY DEF Slot
  <2>4. new # <<>> => Head(new) = new[1]
    BY <1>2, <1>3, HeadTailProperties
  <2>5. Len(<<>>) = 0
    OBVIOUS
  <2> HIDE DEF n, calls, new
  <2>6. 1 \in 1..(n - 1) /\ n - 1 # 0 /\ n - 1 <= n /\ n + 1 - (n - 1) = 1 + 1
    BY <2>2
  <2>7. Slot(calls, returned[t], n - 1) = calls[1 + 1]
    BY <2>3, <2>6
  <2> QED BY <2>2, <2>4, <2>5, <2>6, <2>7 DEF n
<1> HIDE DEF calls, new
<1>9. ASSUME NEW p \in Places, p \notin {p0, p1, p2}
      PROVE  FrameIn(stack', returned', p) = Frame(p)
  <2>1. p = <<p[1], p[2]>> /\ p[1] \in Threads /\ p[2] \in Nat
    BY DEF Places
  <2>2. CASE p[1] # t
    BY <2>1, <2>2, <1>4 DEF Frame, FrameIn
  <2>3. CASE p[1] = t
    <3>1. p[2] \in Nat \ {0} /\ p[2] # Len(calls) /\ p[2] # Len(calls) + 1
      BY <1>6, <1>9, <2>1, <2>3
    <3>2. Slot(new, returned'[t], p[2]) = Slot(calls, returned[t], p[2])
      BY <3>1, <1>5
    <3> QED BY <3>2, <2>3, <1>4 DEF Frame, FrameIn, calls
  <2> QED BY <2>2, <2>3
<1>10. FrameIn(stack', returned', p0) = IF \E q \in Places : Over(p1, q) /\ Waits(Frame(q))
         THEN Given(returned'[t]) ELSE NoCall
  <2>1. FrameIn(stack', returned', p0) = IF new # <<>> /\ Waits(Head(new))
          THEN Given(returned'[t]) ELSE NoCall
    BY <1>4, <1>6 DEF FrameIn, Slot
  <2>2. CASE Len(calls) = 1
    <3>1. ASSUME NEW q \in Places PROVE ~Over(p1, q)
      BY <1>6, <2>2 DEF Over, Places
    <3> QED BY <2>1, <2>2, <3>1, <1>7
  <2>3. CASE Len(calls) > 1
    <3> DEFINE under == <<t, Len(calls) - 1>>
    <3>1. under \in Places /\ Over(p1, under)
      BY <1>6, <2>3 DEF Places, Over
    <3>2. ASSUME NEW q \in Places, Over(p1, q) PROVE q = under
      <4>1. q = <<q[1], q[2]>> /\ q[1] \in Threads /\ q[2] \in Nat
        BY DEF Places
      <4> QED BY <4>1, <3>2, <1>6 DEF Over
    <3>3. Frame(under) = Slot(calls, returned[t], Len(calls) - 1)
      BY DEF Frame, FrameIn, calls
    <3> QED BY <2>1, <2>3, <3>1, <3>2, <3>3, <1>8
  <2> QED BY <1>6, <2>2, <2>3
<1>11. FrameIn(stack', returned', p1) = NoCall /\ FrameIn(stack', returned', p2) = NoCall
  <2>1. Slot(new, returned'[t], Len(calls)) = NoCall
    BY <1>2, <1>5
  <2>2. Slot(new, returned'[t], Len(calls) + 1) = NoCall
    <3>1. Slot(calls, returned[t], Len(calls) + 1) = NoCall
      BY <1>2 DEF Slot
    <3> QED BY <1>2, <1>5, <3>1
  <2>3. FrameIn(stack', returned', p1) = Slot(new, returned'[t], Len(calls))
    BY <1>4, <1>6 DEF FrameIn
  <2>4. FrameIn(stack', returned', p2) = Slot(new, returned'[t], Len(calls) + 1)
    BY <1>4, <1>6 DEF FrameIn
  <2> QED BY <2>1, <2>2, <2>3, <2>4
<1> QED BY <1>4, <1>9, <1>10, <1>11 DEF Turns

-----------------------------------------------------------------------------
(* The same, with what is known of the call that makes the step. *)

LEMMA Nothing == NoCall.op = "none" /\ NoCall.pc = "none"
BY DEF NoCall, Call

LEMMA Returned ==
    ASSUME NEW f
    PROVE  /\ Given(f).op = "returned" /\ Given(f).pc = "held" /\ Given(f).k = 0
           /\ Given(f).future = f
BY DEF Given, Call

LEMMA ProperNothing == \A t \in Threads, h \in Nat : ProperCall(NoCall, t, h)
BY Nothing DEF ProperCall

LEMMA Properly ==
    ASSUME Proper, NEW p0 \in Places, NEW p1 \in Places, NEW p2 \in Places,
           NEW c, NEW a, NEW r, Turns(p0, p1, p2, c, a, r),
           ProperCall(c, p1[1], p1[2]), ProperCall(a, p2[1], p2[2]), ProperCall(r, p0[1], p0[2])
    PROVE  Proper'
BY DEF Proper, Turns, Frame

LEMMA Ranges ==
    /\ \A k \in Operations : k \in States /\ k \notin Outputs /\ k # Null
                            /\ Output(k) \in Outputs /\ Output(k) - N = k
    /\ \A x \in Outputs : x \in States /\ x \notin Operations /\ x # Null
                         /\ x - N \in Operations /\ Output(x - N) = x
    /\ \A s \in States : s \in Operations \/ s \in Outputs
    /\ \A j, k \in Operations : Output(j) = Output(k) => j = k
BY NAssumption DEF Operations, Outputs, States, Output, Null

LEMMA Changed ==
    ASSUME NEW x \in SharedStates
    PROVE  /\ \A v \in {"Init", "Waiting", "Finished"} : [x EXCEPT !.m_state = v] \in SharedStates
           /\ \A v \in Outcomes \cup {"none", "moved"} : [x EXCEPT !.result = v] \in SharedStates
           /\ \A v \in {"none", "then", "fill_from", "final"} :
                [x EXCEPT !.m_callback = v] \in SharedStates
           /\ \A v \in States \cup {Null} : [x EXCEPT !.m_continuation = v] \in SharedStates
           /\ \A v \in BOOLEAN : [x EXCEPT !.m_is_just_for_continuation = v] \in SharedStates
           /\ \A v \in Int : [x EXCEPT !.m_refs = v] \in SharedStates
BY DEF SharedStates

LEMMA NewStates ==
    /\ NewState(2) \in SharedStates
    /\ NewState(2).m_refs = 2 /\ NewState(2).m_state = "Init" /\ NewState(2).result = "none"
    /\ NewState(2).m_callback = "none" /\ NewState(2).m_continuation = Null
    /\ NewState(2).m_is_just_for_continuation = FALSE
BY DEF NewState, SharedStates

LEMMA Untouched ==
    ASSUME Typed, Creation, NEW s \in States, s \notin created
    PROVE  /\ ssb[s].m_state = "Init" /\ ssb[s].result = "none" /\ ssb[s].m_callback = "none"
           /\ ssb[s].m_continuation = Null /\ ssb[s].m_is_just_for_continuation = FALSE
           /\ ssb[s].m_refs = 0
BY DEF Creation, Typed, SharedStates

LEMMA TopCall ==
    ASSUME Typed, NEW t \in Threads, stack[t] # <<>>
    PROVE  Top(t) \in Calls /\ Top(t) = stack[t][1] /\ returned[t] \in Futures
BY HeadTailProperties DEF Typed, Top

LEMMA TopProper ==
    ASSUME Typed, Proper, NEW t \in Threads, stack[t] # <<>>
    PROVE  \E h \in Nat \ {0} : ProperCall(Top(t), t, h)
<1>1. PICK p0 \in Places, p1 \in Places, p2 \in Places : Spot(t, p0, p1, p2)
  BY Spots
<1>2. Frame(p1) = Top(t) /\ p1[1] = t /\ p1[2] \in Nat \ {0}
  BY <1>1, Surroundings, TopCall DEF Spot
<1> QED BY <1>2 DEF Proper

LEMMA Replacing ==
    ASSUME Typed, NEW t \in Threads, stack[t] # <<>>, NEW c \in Calls, Becomes(t, <<c>>),
           \A u \in Threads \ {t} : returned'[u] = returned[u], ~Waits(c)
    PROVE  \E p0, p1, p2 \in Places : Stepping(t, p0, p1, p2, c, NoCall, NoCall)
<1>1. PICK p0 \in Places, p1 \in Places, p2 \in Places : Spot(t, p0, p1, p2)
  BY Spots
<1>2. Turns(p0, p1, p2, c, NoCall, After(c, returned'[t])) /\ stack' \in [Threads -> Seq(Calls)]
  BY <1>1, Turning
<1>3. After(c, returned'[t]) = NoCall
  BY DEF After
<1> QED BY <1>1, <1>2, <1>3, Surroundings, TopCall DEF Stepping

LEMMA Pushing ==
    ASSUME Typed, NEW t \in Threads, stack[t] # <<>>, NEW a \in Calls, NEW c \in Calls,
           Becomes(t, <<a, c>>),
           \A u \in Threads \ {t} : returned'[u] = returned[u], ~Waits(a)
    PROVE  \E p0, p1, p2 \in Places : Stepping(t, p0, p1, p2, c, a, NoCall)
<1>1. PICK p0 \in Places, p1 \in Places, p2 \in Places : Spot(t, p0, p1, p2)
  BY Spots
<1>2. Turns(p0, p1, p2, c, a, After(a, returned'[t])) /\ stack' \in [Threads -> Seq(Calls)]
  BY <1>1, Calling
<1>3. After(a, returned'[t]) = NoCall
  BY DEF After
<1> QED BY <1>1, <1>2, <1>3, Surroundings, TopCall DEF Stepping

(* Only a loop() returns to a call that waits for it, and it always does. *)
LEMMA Leaving ==
    ASSUME Typed, Shape, NEW t \in Threads, stack[t] # <<>>, Becomes(t, <<>>),
           \A u \in Threads \ {t} : returned'[u] = returned[u]
    PROVE  \E p0, p1, p2 \in Places :
             /\ Top(t).op = "loop" => Stepping(t, p0, p1, p2, NoCall, NoCall, Given(returned'[t]))
             /\ Top(t).op # "loop" => Stepping(t, p0, p1, p2, NoCall, NoCall, NoCall)
<1>1. PICK p0 \in Places, p1 \in Places, p2 \in Places : Spot(t, p0, p1, p2)
  BY Spots
<1> DEFINE w == \E q \in Places : Over(p1, q) /\ Waits(Frame(q))
<1>2. /\ Turns(p0, p1, p2, NoCall, NoCall, IF w THEN Given(returned'[t]) ELSE NoCall)
      /\ stack' \in [Threads -> Seq(Calls)]
  BY <1>1, Returning
<1>3. /\ Around(p0, p1, p2) /\ Frame(p2) = NoCall /\ Frame(p1) = Top(t) /\ Top(t) \in Calls
      /\ Frame(p0) = After(Top(t), returned[t])
  BY <1>1, Surroundings, TopCall
<1>4. CASE Top(t).op = "loop"
  <2>1. PICK q \in Places : Over(p1, q)
    <3>1. p1[2] # 1
      BY <1>3, <1>4 DEF Shape, Bottoms
    <3>2. p1 = <<p1[1], p1[2]>> /\ p1[1] \in Threads /\ p1[2] \in Nat
      BY DEF Places
    <3>3. p1[2] # 0
      BY <1>3 DEF Around
    <3>4. <<p1[1], p1[2] - 1>> \in Places /\ Over(p1, <<p1[1], p1[2] - 1>>)
      BY <3>1, <3>2, <3>3 DEF Places, Over
    <3> QED BY <3>4
  <2>2. Waits(Frame(q))
    BY <1>3, <1>4, <2>1 DEF Shape, Stacks, Stacked
  <2> QED BY <1>2, <1>3, <1>4, <2>1, <2>2 DEF Stepping
<1>5. CASE Top(t).op # "loop"
  <2>1. ASSUME NEW q \in Places, Over(p1, q) PROVE ~Waits(Frame(q))
    <3>1. Top(t).op # "none"
      BY <1>3 DEF Calls, Kinds
    <3> QED BY <1>3, <1>5, <2>1, <3>1 DEF Shape, Stacks, Stacked
  <2> QED BY <1>2, <1>3, <1>5, <2>1 DEF Stepping
<1> QED BY <1>4, <1>5

(* The Futures and the calls that steps make. *)
LEMMA NewFuture ==
    /\ \A s \in States : Deferred(s) \in Futures /\ ~Deferred(s).ready /\ Deferred(s).state = s
    /\ \A o \in Outcomes : Ready(o) \in Futures /\ Ready(o).ready /\ Ready(o).outcome = o
    /\ NoFuture \in Futures
BY DEF Futures, Deferred, Ready, NoFuture, Null

LEMMA NewCall ==
    /\ \A k \in 0..N : /\ Loop(k) \in Calls /\ Step(k) \in Calls
                       /\ Loop(k).op = "loop" /\ Loop(k).pc = "start" /\ Loop(k).k = k
                       /\ Step(k).op = "step" /\ Step(k).pc = "start" /\ Step(k).k = k
    /\ \A f \in Futures, o \in States :
         /\ Propagate(f, o) \in Calls
         /\ Propagate(f, o).op = "propagate" /\ Propagate(f, o).pc = "load"
         /\ Propagate(f, o).future = f /\ Propagate(f, o).output = o
    /\ \A s \in States :
         /\ FillFrom(s) \in Calls /\ Finish(s) \in Calls
         /\ FillFrom(s).op = "fill_from" /\ FillFrom(s).pc = "start"
         /\ FillFrom(s).future.state = s
         /\ Finish(s).op = "finish" /\ Finish(s).pc = "exchange" /\ Finish(s).future.state = s
<1>1. NoFuture \in Futures /\ \A s \in States : Deferred(s) \in Futures /\ Deferred(s).state = s
  BY NewFuture
<1>2. Null \in States \cup {Null} /\ 0 \in 0..N
  BY NAssumption
<1>3. \A k \in 0..N : /\ Loop(k) \in Calls /\ Step(k) \in Calls
                      /\ Loop(k).op = "loop" /\ Loop(k).pc = "start" /\ Loop(k).k = k
                      /\ Step(k).op = "step" /\ Step(k).pc = "start" /\ Step(k).k = k
  BY <1>1, <1>2 DEF Calls, Kinds, Pcs, Loop, Step, Call
<1>4. ASSUME NEW f \in Futures, NEW o \in States
      PROVE  /\ Propagate(f, o) \in Calls
             /\ Propagate(f, o).op = "propagate" /\ Propagate(f, o).pc = "load"
             /\ Propagate(f, o).future = f /\ Propagate(f, o).output = o
  BY <1>2 DEF Calls, Kinds, Pcs, Propagate, Call
<1>5. ASSUME NEW s \in States
      PROVE  /\ FillFrom(s) \in Calls /\ Finish(s) \in Calls
             /\ FillFrom(s).op = "fill_from" /\ FillFrom(s).pc = "start"
             /\ FillFrom(s).future.state = s
             /\ Finish(s).op = "finish" /\ Finish(s).pc = "exchange" /\ Finish(s).future.state = s
  BY <1>1, <1>2 DEF Calls, Kinds, Pcs, FillFrom, Finish, Call
<1> QED BY <1>3, <1>4, <1>5

(* What a step says of the call it makes. *)
LEMMA HoldsCall ==
    ASSUME NEW t \in Threads, Top(t) \in Calls, NEW f \in Futures
    PROVE  /\ Holds(t, f) \in Calls
           /\ Holds(t, f).op = Top(t).op /\ Holds(t, f).pc = "drop" /\ Holds(t, f).k = Top(t).k
           /\ Holds(t, f).future = f
BY DEF Calls, Pcs, Holds

LEMMA Two ==
    ASSUME NEW S, NEW a \in S, NEW c \in S
    PROVE  <<a>> \o <<c>> = <<a, c>>
<1>1. /\ <<a>> \in Seq(S) /\ <<c>> \in Seq(S) /\ <<a, c>> \in Seq(S)
      /\ Len(<<a>>) = 1 /\ Len(<<c>>) = 1 /\ Len(<<a, c>>) = 2
  OBVIOUS
<1> DEFINE l == <<a>> \o <<c>>
           r == <<a, c>>
<1>2. l \in Seq(S) /\ Len(l) = 2 /\ l[1] = a /\ l[2] = c
  BY <1>1
<1>3. r \in Seq(S) /\ Len(r) = 2 /\ r[1] = a /\ r[2] = c
  BY <1>1
<1> HIDE DEF l, r
<1>4. \A i \in 1..Len(l) : l[i] = r[i]
  BY <1>2, <1>3
<1>5. l = r
  BY <1>2, <1>3, <1>4, SeqEqual
<1> QED BY <1>5 DEF l, r

-----------------------------------------------------------------------------
(* Parts of the invariant that take more than a look at the places that    *)
(* change.                                                                 *)

LEMMA Stacking ==
    ASSUME Shape, NEW p0 \in Places, NEW p1 \in Places, NEW p2 \in Places, Around(p0, p1, p2),
           NEW c, NEW a, NEW r, Turns(p0, p1, p2, c, a, r), Frame(p2) = NoCall,
           \A x : Stacked(x, Frame(p1)) => Stacked(x, c),
           Stacked(c, a), Stacked(a, NoCall), \A x : Stacked(NoCall, x) => Stacked(a, x)
    PROVE  Stacks'
<1> SUFFICES ASSUME NEW p \in Places, NEW q \in Places, Over(q, p)
             PROVE  Stacked(FrameIn(stack', returned', p), FrameIn(stack', returned', q))
  BY DEF Stacks, Frame
<1>1. Stacked(Frame(p), Frame(q))
  BY DEF Shape, Stacks
<1>2. CASE q = p2
  BY <1>2 DEF Around, Turns
<1>3. CASE q = p1
  BY <1>1, <1>3 DEF Around, Turns
<1>4. CASE p = p2
  BY <1>1, <1>4 DEF Around, Turns
<1> QED BY <1>1, <1>2, <1>3, <1>4 DEF Around, Turns

LEMMA Answering ==
    ASSUME Shape, Proper, NEW p0 \in Places, NEW p1 \in Places, NEW p2 \in Places,
           Around(p0, p1, p2),
           NEW c, NEW a, NEW r, Turns(p0, p1, p2, c, a, r),
           c.op = "none" =>
             \A x : Stacked(x, Frame(p1)) /\ Waits(x) /\ x.k \in Nat =>
               r.op = "returned" /\ (~r.future.ready => r.future.state > Output(x.k)),
           Waits(c) => a.op # "none", ~Waits(a)
    PROVE  Answers'
<1> SUFFICES ASSUME NEW p \in Places, NEW q \in Places, NEW z \in Places, Over(q, p), Origin(z, p),
                    Waits(FrameIn(stack', returned', p)), FrameIn(stack', returned', q).op = "none"
             PROVE  LET f == FrameIn(stack', returned', z)
                    IN  /\ f.op = "returned"
                        /\ ~f.future.ready =>
                             f.future.state > Output(FrameIn(stack', returned', p).k)
  BY DEF Answers, Frame
<1>1. Stacked(Frame(p), Frame(q))
  BY DEF Shape, Stacks
<1>2. p # p1 /\ p # p2 /\ p # p0
  BY DEF Around, Turns
<1>3. FrameIn(stack', returned', p) = Frame(p)
  BY <1>2 DEF Turns
<1>4. CASE Origin(p0, p)
  <2>1. z = p0
    BY <1>4 DEF Origin, Places
  <2>2. CASE q = p1
    <3>1. ProperCall(Frame(p), p[1], p[2])
      BY DEF Proper
    <3>2. Frame(p).k \in Nat
      BY <1>3, <3>1, NAssumption DEF ProperCall, Waits, Operations, Frame
    <3> QED BY <1>1, <1>3, <2>1, <2>2, <3>2 DEF Turns
  <2>3. CASE q # p1
    <3>1. q # p2 /\ q # p0
      BY <1>2 DEF Around
    <3>2. Frame(q).op = "none"
      BY <2>3, <3>1 DEF Turns
    <3>3. Frame(p).op = "none"
      BY <1>2, <1>4, <3>2 DEF Around
    <3> QED BY <1>3, <3>3 DEF Waits
  <2> QED BY <2>2, <2>3
<1>5. CASE ~Origin(p0, p)
  <2>1. z \notin {p0, p1, p2}
    BY <1>5 DEF Around
  <2>2. ~Origin(p0, q)
    BY <1>5 DEF Around
  <2>3. q \notin {p0, p1, p2}
    BY <2>2 DEF Around, Origin
  <2> QED BY <1>3, <2>1, <2>3 DEF Turns, Shape, Answers
<1> QED BY <1>4, <1>5

LEMMA Shaping ==
    ASSUME Shape, Proper, NEW p0 \in Places, NEW p1 \in Places, NEW p2 \in Places,
           Around(p0, p1, p2),
           NEW c, NEW a, NEW r, Turns(p0, p1, p2, c, a, r), Frame(p2) = NoCall,
           Fits(Frame(p1), c, a, r)
    PROVE  Shape'
<1>1. Stacks'
  BY Stacking DEF Fits
<1>2. Answers'
  BY Answering DEF Fits
<1>3. Bottoms'
  BY DEF Shape, Bottoms, Fits, Around, Turns, Frame
<1> QED BY <1>1, <1>2, <1>3 DEF Shape

(* What has called the innermost call of a thread. *)
LEMMA Under ==
    ASSUME Shape, NEW p1 \in Places, p1[2] # 0,
           Frame(p1).op \notin {"complete", "get_async", "none"}
    PROVE  \E q \in Places : Over(p1, q) /\ Below(q, p1) /\ Stacked(Frame(q), Frame(p1))
<1>1. p1[2] # 1
  BY DEF Shape, Bottoms
<1>2. p1 = <<p1[1], p1[2]>> /\ p1[1] \in Threads /\ p1[2] \in Nat
  BY DEF Places
<1> DEFINE q == <<p1[1], p1[2] - 1>>
<1>3. q \in Places /\ Over(p1, q) /\ Below(q, p1)
  BY <1>1, <1>2 DEF Places, Over, Below
<1> HIDE DEF q
<1>4. Stacked(Frame(q), Frame(p1))
  BY <1>3 DEF Shape, Stacks
<1> QED BY <1>3, <1>4

-----------------------------------------------------------------------------
(* A step, by the calls that it makes. *)

LEMMA TopFacts ==
    ASSUME IInv, NEW t \in Threads, stack[t] # <<>>, NEW b, b = Top(t), NEW g, g = Answer(t)
    PROVE  Known(t, b, g)
<1> USE DEF IInv
<1>1. PICK p0 \in Places, p1 \in Places, p2 \in Places : Spot(t, p0, p1, p2)
  BY Spots
<1>2. /\ Around(p0, p1, p2) /\ Frame(p2) = NoCall /\ Frame(p1) = b /\ Frame(p0) = g
      /\ b \in Calls /\ returned[t] \in Futures
  BY <1>1, Surroundings, TopCall DEF Answer
<1>3. \E h \in Nat \ {0} : ProperCall(b, t, h)
  BY TopProper
<1>4. ~Waits(b) => g = NoCall
  BY DEF Answer, After
<1>5. Waits(b) => /\ g = Given(returned[t])
                  /\ ~returned[t].ready => /\ returned[t].state \in Outputs
                                           /\ returned[t].state > Output(b.k)
  <2>1. Waits(b) => g = Given(returned[t])
    BY DEF Answer, After
  <2>2. Over(p2, p1) /\ Origin(p0, p1) /\ NoCall.op = "none"
    BY <1>2, Nothing DEF Around
  <2>3. ProperCall(Frame(p0), p0[1], p0[2])
    BY DEF Proper
  <2> QED BY <1>2, <2>1, <2>2, <2>3, Returned DEF Shape, Answers, ProperCall
<1>6. /\ RoundOf(b)
      /\ \A s \in Outputs : Fresh(b, s) \/ Fresh(g, s) => Clean(s)
      /\ b.op = "propagate" /\ b.pc = "bypass" => ssb[b.output].m_is_just_for_continuation
  BY <1>2 DEF Rounds, Hooked
<1>7. ASSUME NEW s \in States
      PROVE  /\ UserOf(b, s) /\ UserOf(g, s) /\ MakerOf(b, s)
             /\ Held(b, s) \/ Held(g, s) => s \in created \cap Outputs
             /\ ~(Held(b, s) /\ Held(g, s)) /\ ~(Uses(b, s) /\ Uses(g, s))
  <2>1. p0 # p1
    BY <1>2 DEF Around
  <2> QED BY <1>2, <2>1 DEF OneUser, OneMaker, OneHolder
<1> QED BY <1>2, <1>3, <1>4, <1>5, <1>6, <1>7 DEF Known

(* The parts of the invariant that are about calls, one by one. *)
LEMMA ProperAfter ==
    ASSUME Proper, NEW t \in Threads, NEW b, b = Top(t), NEW c, NEW a, NEW r,
           Steps(t, c, a, r), ProperStep(b, c, a, r)
    PROVE  Proper'
<1>1. PICK p0 \in Places, p1 \in Places, p2 \in Places : Stepping(t, p0, p1, p2, c, a, r)
  BY DEF Steps
<1>2. /\ p0[1] = p1[1] /\ p2[1] = p1[1] /\ p0[2] = 0 /\ p1[2] \in Nat \ {0} /\ p2[2] \in Nat \ {0}
      /\ p1[1] \in Threads
  BY <1>1 DEF Stepping, Around, Origin, Over, Places
<1>3. Frame(p1) = b /\ ProperCall(Frame(p1), p1[1], p1[2])
  BY <1>1 DEF Proper, Stepping
<1>4. /\ ProperCall(c, p1[1], p1[2]) /\ ProperCall(a, p2[1], p2[2]) /\ ProperCall(r, p0[1], p0[2])
  BY <1>2, <1>3 DEF ProperStep
<1> QED BY <1>1, <1>4, Properly DEF Stepping

LEMMA UsersAfter ==
    ASSUME IInv, NEW t \in Threads, NEW b, b = Top(t), NEW g, g = Answer(t),
           NEW c, NEW a, NEW r, Steps(t, c, a, r), Confined(b, g), UserStep(b, g, c, a, r)
    PROVE  OneUser'
<1> USE DEF IInv
<1>1. PICK p0 \in Places, p1 \in Places, p2 \in Places : Stepping(t, p0, p1, p2, c, a, r)
  BY DEF Steps
<1>2. /\ p0 # p1 /\ p0 # p2 /\ p1 # p2 /\ Frame(p0) = g /\ Frame(p1) = b
      /\ FrameIn(stack', returned', p0) = r /\ FrameIn(stack', returned', p1) = c
      /\ FrameIn(stack', returned', p2) = a
      /\ \A p \in Places \ {p0, p1, p2} : FrameIn(stack', returned', p) = Frame(p)
  BY <1>1 DEF Stepping, Around, Turns, Answer
<1>3. ASSUME NEW p \in Places \ {p0, p1, p2}, NEW s \in States, Uses(Frame(p), s)
      PROVE  ~Own(b, g, s) /\ ~Unused(s) /\ UserOf(Frame(p), s)
  BY <1>2, <1>3 DEF OneUser, Own, Unused
<1>4. ASSUME NEW p \in Places, NEW q \in Places, NEW s \in States,
             Uses(FrameIn(stack', returned', p), s), Uses(FrameIn(stack', returned', q), s)
      PROVE  p = q
  <2>1. \A f \in Places \ {p0, p1, p2} :
          Uses(FrameIn(stack', returned', f), s) => Uses(Frame(f), s) /\ ~Own(b, g, s) /\ ~Unused(s)
    BY <1>2, <1>3
  <2>2. CASE p \in {p0, p1, p2} /\ q \in {p0, p1, p2}
    BY <1>2, <1>4, <2>2 DEF UserStep
  <2>3. CASE p \in {p0, p1, p2} /\ q \notin {p0, p1, p2}
    BY <1>2, <1>4, <2>1, <2>3 DEF UserStep
  <2>4. CASE p \notin {p0, p1, p2} /\ q \in {p0, p1, p2}
    BY <1>2, <1>4, <2>1, <2>4 DEF UserStep
  <2>5. CASE p \notin {p0, p1, p2} /\ q \notin {p0, p1, p2}
    BY <1>4, <2>1, <2>5 DEF OneUser
  <2> QED BY <2>2, <2>3, <2>4, <2>5
<1>5. ASSUME NEW p \in Places, NEW s \in States, NEW d, d = FrameIn(stack', returned', p)
      PROVE  UserOf(d, s)'
  <2>1. CASE p \in {p0, p1, p2}
    BY <1>2, <1>5, <2>1 DEF UserStep
  <2>2. CASE p \notin {p0, p1, p2}
    <3>1. UserOf(Frame(p), s) /\ (Uses(Frame(p), s) => ~Own(b, g, s))
      BY <1>3, <2>2 DEF OneUser
    <3>2. d = Frame(p)
      BY <1>2, <1>5, <2>2
    <3> QED BY <3>1, <3>2 DEF UserOf, Confined
  <2> QED BY <2>1, <2>2
<1> QED BY <1>4, <1>5 DEF OneUser, Frame

LEMMA MakersAfter ==
    ASSUME IInv, NEW t \in Threads, NEW b, b = Top(t), NEW g, g = Answer(t),
           NEW c, NEW a, NEW r, r.op \in {"none", "returned"}, Steps(t, c, a, r), Confined(b, g),
           MakerStep(b, c, a), OneFeed'
    PROVE  OneMaker'
<1> USE DEF IInv
<1>1. PICK p0 \in Places, p1 \in Places, p2 \in Places : Stepping(t, p0, p1, p2, c, a, r)
  BY DEF Steps
<1>2. /\ p0 # p1 /\ p0 # p2 /\ p1 # p2 /\ Frame(p1) = b
      /\ FrameIn(stack', returned', p0) = r /\ FrameIn(stack', returned', p1) = c
      /\ FrameIn(stack', returned', p2) = a
      /\ \A p \in Places \ {p0, p1, p2} : FrameIn(stack', returned', p) = Frame(p)
  BY <1>1 DEF Stepping, Around, Turns
<1>3. ASSUME NEW p \in Places \ {p0, p1, p2}, NEW s \in States, Makes(Frame(p), s)
      PROVE  /\ ~Makes(b, s) /\ ~Fed(s) /\ MakerOf(Frame(p), s)
             /\ s \in Outputs => s \in created
  <2>1. ~Makes(b, s) /\ MakerOf(Frame(p), s)
    BY <1>2, <1>3 DEF OneMaker
  <2>2. ~Fed(s)
    BY <1>3, <2>1 DEF MakerOf, Fed
  <2>3. ProperCall(Frame(p), p[1], p[2]) /\ RoundOf(Frame(p))
    BY DEF Proper, Rounds
  <2>4. s \in Outputs => s \in created
    BY <1>3, <2>1, <2>3, Ranges DEF ProperCall, RoundOf, Makes, MakerOf, Creation, Outcomes
  <2> QED BY <2>1, <2>2, <2>4
<1>4. \A s : ~Makes(r, s)
  BY DEF Makes
<1>5. ASSUME NEW p \in Places, NEW q \in Places, NEW s \in States,
             Makes(FrameIn(stack', returned', p), s), Makes(FrameIn(stack', returned', q), s)
      PROVE  p = q
  <2>1. \A f \in Places \ {p0, p1, p2} :
          Makes(FrameIn(stack', returned', f), s) => Makes(Frame(f), s) /\ ~Makes(b, s) /\ ~Fed(s)
    BY <1>2, <1>3
  <2>2. CASE p \in {p0, p1, p2} /\ q \in {p0, p1, p2}
    BY <1>2, <1>4, <1>5, <2>2 DEF MakerStep
  <2>3. CASE p \in {p0, p1, p2} /\ q \notin {p0, p1, p2}
    BY <1>2, <1>4, <1>5, <2>1, <2>3 DEF MakerStep
  <2>4. CASE p \notin {p0, p1, p2} /\ q \in {p0, p1, p2}
    BY <1>2, <1>4, <1>5, <2>1, <2>4 DEF MakerStep
  <2>5. CASE p \notin {p0, p1, p2} /\ q \notin {p0, p1, p2}
    BY <1>5, <2>1, <2>5 DEF OneMaker
  <2> QED BY <2>2, <2>3, <2>4, <2>5
<1>6. ASSUME NEW p \in Places, NEW s \in States, NEW d, d = FrameIn(stack', returned', p)
      PROVE  MakerOf(d, s)'
  <2>1. CASE p \in {p1, p2}
    BY <1>2, <1>6, <2>1 DEF MakerStep
  <2>2. CASE p = p0
    BY <1>2, <1>4, <1>6, <2>2 DEF MakerOf
  <2>3. CASE p \notin {p0, p1, p2}
    <3> SUFFICES ASSUME Makes(d, s) PROVE MakerOf(d, s)'
      BY DEF MakerOf
    <3>0. d = Frame(p)
      BY <1>2, <1>6, <2>3
    <3>1. ~Makes(b, s) /\ ~Fed(s) /\ MakerOf(d, s) /\ (s \in Outputs => s \in created)
      BY <1>3, <2>3, <3>0
    <3>2. ~Fed(s)' /\ ssb'[s].m_state # "Finished" /\ ssb'[s].result = ssb[s].result
      BY <3>1 DEF Confined, MakerOf
    <3> QED BY <3>1, <3>2 DEF MakerOf, Fed
  <2> QED BY <2>1, <2>2, <2>3
<1> QED BY <1>5, <1>6 DEF OneMaker, OneFeed, Frame

LEMMA HoldersAfter ==
    ASSUME IInv, NEW t \in Threads, NEW b, b = Top(t), NEW g, g = Answer(t),
           NEW c, NEW a, NEW r, Steps(t, c, a, r), created \subseteq created',
           HolderStep(b, g, c, a, r)
    PROVE  OneHolder'
<1> USE DEF IInv
<1>1. PICK p0 \in Places, p1 \in Places, p2 \in Places : Stepping(t, p0, p1, p2, c, a, r)
  BY DEF Steps
<1>2. /\ p0 # p1 /\ p0 # p2 /\ p1 # p2 /\ Frame(p0) = g /\ Frame(p1) = b
      /\ FrameIn(stack', returned', p0) = r /\ FrameIn(stack', returned', p1) = c
      /\ FrameIn(stack', returned', p2) = a
      /\ \A p \in Places \ {p0, p1, p2} : FrameIn(stack', returned', p) = Frame(p)
  BY <1>1 DEF Stepping, Around, Turns, Answer
<1>3. ASSUME NEW p \in Places \ {p0, p1, p2}, NEW s \in States, Held(Frame(p), s)
      PROVE  ~Held(b, s) /\ ~Held(g, s) /\ s \in created \cap Outputs
  BY <1>2, <1>3 DEF OneHolder
<1>4. ASSUME NEW p \in Places, NEW q \in Places, NEW s \in States,
             Held(FrameIn(stack', returned', p), s), Held(FrameIn(stack', returned', q), s)
      PROVE  p = q /\ s \in created' \cap Outputs
  <2>1. \A f \in Places \ {p0, p1, p2} : Held(FrameIn(stack', returned', f), s) =>
          Held(Frame(f), s) /\ ~Held(b, s) /\ ~Held(g, s) /\ s \in created \cap Outputs
    BY <1>2, <1>3
  <2>2. CASE p \in {p0, p1, p2} /\ q \in {p0, p1, p2}
    BY <1>2, <1>4, <2>2 DEF HolderStep
  <2>3. CASE p \in {p0, p1, p2} /\ q \notin {p0, p1, p2}
    BY <1>2, <1>4, <2>1, <2>3 DEF HolderStep
  <2>4. CASE p \notin {p0, p1, p2} /\ q \in {p0, p1, p2}
    BY <1>2, <1>4, <2>1, <2>4 DEF HolderStep
  <2>5. CASE p \notin {p0, p1, p2} /\ q \notin {p0, p1, p2}
    BY <1>4, <2>1, <2>5 DEF OneHolder
  <2> QED BY <2>2, <2>3, <2>4, <2>5
<1> QED BY <1>4 DEF OneHolder, Frame

LEMMA HooksAfter ==
    ASSUME IInv, NEW t \in Threads, NEW b, b = Top(t), NEW g, g = Answer(t),
           NEW c, NEW a, NEW r, Steps(t, c, a, r), Confined(b, g), MakerStep(b, c, a),
           HookStep(b, g, c, a, r)
    PROVE  Hooked'
<1> USE DEF IInv
<1>1. PICK p0 \in Places, p1 \in Places, p2 \in Places : Stepping(t, p0, p1, p2, c, a, r)
  BY DEF Steps
<1>2. /\ p0 # p1 /\ p0 # p2 /\ p1 # p2 /\ Frame(p0) = g /\ Frame(p1) = b
      /\ FrameIn(stack', returned', p0) = r /\ FrameIn(stack', returned', p1) = c
      /\ FrameIn(stack', returned', p2) = a
      /\ \A p \in Places \ {p0, p1, p2} : FrameIn(stack', returned', p) = Frame(p)
  BY <1>1 DEF Stepping, Around, Turns, Answer
<1>3. ASSUME NEW p \in Places, NEW s \in Outputs, Fresh(Frame(p), s) \/ Hooks(Frame(p), s)
      PROVE  s \in States /\ s \in created /\ (p \notin {p0, p1, p2} => ~Own(b, g, s))
  <2>1. ProperCall(Frame(p), p[1], p[2]) /\ s \in States
    BY Ranges DEF Proper
  <2>2. Uses(Frame(p), s)
    BY <1>3, <2>1 DEF ProperCall, Fresh, Hooks, Uses, Opens, Held
  <2> QED BY <1>2, <2>1, <2>2 DEF OneUser, UserOf, Own
<1>4. ASSUME NEW p \in Places, NEW s \in Outputs, Fresh(FrameIn(stack', returned', p), s)
      PROVE  Clean(s)'
  <2>1. CASE p \in {p0, p1, p2}
    BY <1>2, <1>4, <2>1 DEF HookStep
  <2>2. CASE p \notin {p0, p1, p2}
    <3>1. Fresh(Frame(p), s) /\ Clean(s)
      BY <1>2, <1>4, <2>2 DEF Hooked
    <3> QED BY <1>3, <2>2, <3>1 DEF Clean, Confined
  <2> QED BY <2>1, <2>2
<1>5. ASSUME NEW p \in Places, NEW x \in States, Makes(FrameIn(stack', returned', p), x)
      PROVE  Makes(c, x) \/ Makes(a, x) \/ (Makes(Frame(p), x) /\ p # p1)
  BY <1>2, <1>5 DEF HookStep, Makes
<1>6. ASSUME NEW x \in Outputs, Live(x)', ssb'[x].m_continuation = Null
      PROVE  /\ ~ssb'[x].m_is_just_for_continuation /\ ssb'[x].m_callback # "fill_from"
             /\ \A p \in Places : ~Hooks(FrameIn(stack', returned', p), x)
  <2>1. /\ x \in States
        /\ ssb'[x].m_state = "Finished" \/ Fed(x)' \/ Makes(c, x) \/ Makes(a, x)
             \/ \E p \in Places : Makes(Frame(p), x) /\ p # p1
    BY <1>5, <1>6, Ranges DEF Live, Fed, Frame
  <2>2. x \in created => Live(x)
    BY <1>2, <2>1 DEF Live, Fed, Confined, MakerStep
  <2>3. ssb[x].m_continuation = Null
    <3>1. ASSUME Makes(b, x), NEW p \in Places, Makes(Frame(p), x) PROVE p = p1
      BY <1>2, <2>1, <3>1 DEF OneMaker
    <3> QED BY <1>6, <2>1, <3>1 DEF HookStep
  <2>4. /\ ~ssb[x].m_is_just_for_continuation /\ ssb[x].m_callback # "fill_from"
        /\ \A p \in Places : ~Hooks(Frame(p), x)
    <3>1. CASE x \in created
      BY <2>2, <2>3, <3>1 DEF Hooked
    <3>2. CASE x \notin created
      BY <1>3, <2>1, <3>2 DEF Creation
    <3> QED BY <3>1, <3>2
  <2>5. ~Hooks(b, x)
    BY <1>2, <2>4
  <2>6. ~ssb'[x].m_is_just_for_continuation /\ ssb'[x].m_callback # "fill_from"
    BY <1>6, <2>1, <2>4, <2>5 DEF HookStep, Confined
  <2>7. ~Hooks(c, x) /\ ~Hooks(a, x) /\ ~Hooks(r, x)
    BY <1>6, <2>5 DEF HookStep, Hooks
  <2> QED BY <1>2, <2>4, <2>6, <2>7
<1>7. ASSUME NEW p \in Places, NEW d, d = FrameIn(stack', returned', p),
             d.op = "propagate", d.pc = "bypass"
      PROVE  ssb'[d.output].m_is_just_for_continuation
  <2>1. CASE p \in {p0, p1, p2}
    BY <1>2, <1>7, <2>1 DEF HookStep
  <2>2. CASE p \notin {p0, p1, p2}
    <3>1. d = Frame(p) /\ ProperCall(d, p[1], p[2])
      BY <1>2, <1>7, <2>2 DEF Proper
    <3>2. ssb[d.output].m_is_just_for_continuation /\ d.output \in States
      BY <1>7, <3>1, Ranges DEF Hooked, ProperCall
    <3> QED BY <3>2 DEF Confined
  <2> QED BY <2>1, <2>2
<1> QED BY <1>4, <1>6, <1>7 DEF Hooked, Frame

LEMMA ShapeAfter ==
    ASSUME Shape, Proper, NEW t \in Threads, NEW b, b = Top(t), NEW c, NEW a, NEW r,
           Steps(t, c, a, r), Fits(b, c, a, r)
    PROVE  Shape'
BY Shaping DEF Steps, Stepping

(* A step that does not change what can be known of a round. *)
LEMMA RoundsAfter ==
    ASSUME Rounds, Proper, NEW t \in Threads, NEW b, b = Top(t), NEW c, NEW a, NEW r,
           Steps(t, c, a, r), r.op \in {"none", "returned"}, created \subseteq created',
           \A k \in Operations : ssb[k].result = "moved" => ssb'[k].result = "moved",
           \A k \in Operations : k \in created' \ created => Past(k)',
           \A s \in created' \ created : b.op = "loop" /\ s \in {b.k, Output(b.k)},
           RoundOf(c)' /\ RoundOf(a)',
           c.op = "loop" => b.op = "loop" /\ c.k = b.k,
           a.op = "loop" => c.op # "loop" \/ c.k # a.k,
           a.op = "loop" => \A p \in Places : Frame(p).op = "loop" => Frame(p).k # a.k
    PROVE  Rounds'
<1>1. PICK p0 \in Places, p1 \in Places, p2 \in Places : Stepping(t, p0, p1, p2, c, a, r)
  BY DEF Steps
<1>2. /\ p0 # p1 /\ p0 # p2 /\ p1 # p2 /\ Frame(p1) = b
      /\ FrameIn(stack', returned', p0) = r /\ FrameIn(stack', returned', p1) = c
      /\ FrameIn(stack', returned', p2) = a
      /\ \A p \in Places \ {p0, p1, p2} : FrameIn(stack', returned', p) = Frame(p)
  BY <1>1 DEF Stepping, Around, Turns
<1>3. \A k \in Operations : k \in created' => Past(k)'
  BY DEF Rounds, Past
<1>4. ASSUME NEW p \in Places, NEW d, d = FrameIn(stack', returned', p) PROVE RoundOf(d)'
  <2>1. CASE p \in {p0, p1, p2}
    BY <1>2, <1>4, <2>1 DEF RoundOf
  <2>2. CASE p \notin {p0, p1, p2}
    <3>1. /\ ProperCall(d, p[1], p[2]) /\ RoundOf(d)
          /\ d.op = "loop" /\ b.op = "loop" => d.k # b.k
      BY <1>2, <1>4, <2>2 DEF Proper, Rounds
    <3>2. b.op = "loop" => b.k \in Operations
      BY <1>2 DEF Proper, ProperCall
    <3> QED BY <3>1, <3>2, Ranges DEF ProperCall, RoundOf, Past
  <2> QED BY <2>1, <2>2
<1>5. ASSUME NEW p \in Places, NEW q \in Places, NEW d, d = FrameIn(stack', returned', p),
             NEW e, e = FrameIn(stack', returned', q), d.op = "loop", e.op = "loop", d.k = e.k
      PROVE  p = q
  BY <1>2, <1>5 DEF Rounds
<1> QED BY <1>3, <1>4, <1>5 DEF Rounds, Frame

LEMMA BackedBelow ==
    ASSUME IInv, NEW p \in Places, p[2] # 0, NEW x \in States, BackedBy(Frame(p), x)
    PROVE  \E K \in SUBSET States : x \in K /\ KeptBelow(p, K)
<1> USE DEF IInv
<1>1. CASE Frame(p).op \in {"finish", "fill_from"}
  BY <1>1 DEF BackedBy, Kept
<1>2. CASE Frame(p).op \in {"step", "propagate"}
  <2>1. PICK q \in Places : Below(q, p) /\ Stacked(Frame(q), Frame(p))
    BY <1>2, Under
  <2>2. ProperCall(Frame(p), p[1], p[2]) /\ ProperCall(Frame(q), q[1], q[2])
    BY DEF Proper
  <2>3. Frame(q).k = x
    BY <1>2, <2>1, <2>2, NAssumption
    DEF Stacked, BackedBy, ProperCall, Output, Outputs, Operations
  <2>4. Owns(Frame(q), x)
    BY <1>2, <2>1, <2>3 DEF Stacked, Owns, Looping, Completing, Waits
  <2>5. KeptBelow(p, {x})
    BY <2>1, <2>4 DEF KeptBelow
  <2> QED BY <2>5
<1> QED BY <1>1, <1>2 DEF BackedBy

LEMMA KeptAfter ==
    ASSUME IInv, NEW t \in Threads, NEW b, b = Top(t), NEW c, NEW a, NEW r, Steps(t, c, a, r),
           r.op \in {"none", "returned"},
           \A x \in States : ssb[x].result = "moved" =>
             ssb'[x].result = "moved" /\ ssb'[x].m_continuation = ssb[x].m_continuation,
           c.op \in {"finish", "fill_from"} => c.future.state \in States /\ Backed(b, c.future.state),
           a.op \in {"finish", "fill_from"} =>
             a.future.state \in States /\ (Owns(c, a.future.state) \/ Backed(b, a.future.state))
    PROVE  Kept'
<1> USE DEF IInv
<1>1. PICK p0 \in Places, p1 \in Places, p2 \in Places : Stepping(t, p0, p1, p2, c, a, r)
  BY DEF Steps
<1>2. /\ p0 # p1 /\ p0 # p2 /\ p1 # p2 /\ Frame(p1) = b /\ p1[2] # 0
      /\ FrameIn(stack', returned', p0) = r /\ FrameIn(stack', returned', p1) = c
      /\ FrameIn(stack', returned', p2) = a
      /\ \A p \in Places \ {p0, p1, p2} : FrameIn(stack', returned', p) = Frame(p)
      /\ \A q \in Places : /\ Below(q, p2) <=> Below(q, p1) \/ q = p1
                           /\ ~Below(p0, q) /\ ~Below(q, q)
                           /\ Below(p1, q) => q = p2 \/ Frame(q) = NoCall
                           /\ Below(p2, q) => Frame(q) = NoCall
  BY <1>1 DEF Stepping, Around, Turns
<1>3. ASSUME NEW p \in Places, p # p2, Frame(p) # NoCall, NEW K \in SUBSET States, KeptBelow(p, K)
      PROVE  KeptBelow(p, K)'
  <2>1. \A q \in Places : Below(q, p) => q \notin {p0, p1, p2}
    BY <1>2, <1>3
  <2>2. \A q \in Places : Below(q, p) => FrameIn(stack', returned', q) = Frame(q)
    BY <1>2, <2>1
  <2> QED BY <1>3, <2>2 DEF KeptBelow, Frame
<1>4. ASSUME NEW s \in States, Backed(b, s)
      PROVE  \E K \in SUBSET States : s \in K /\ KeptBelow(p1, K)'
  <2>1. PICK x \in States : /\ BackedBy(b, x)
                            /\ \/ s = x
                               \/ ssb'[x].m_continuation = s /\ ssb'[x].result = "moved"
    BY <1>4 DEF Backed
  <2>2. PICK K \in SUBSET States : x \in K /\ KeptBelow(p1, K)
    BY <1>2, <2>1, BackedBelow
  <2>3. KeptBelow(p1, K)'
    BY <1>2, <1>3, <2>1, <2>2, Nothing DEF BackedBy
  <2>4. KeptBelow(p1, K \cup {s})'
    BY <2>1, <2>2, <2>3 DEF KeptBelow
  <2> QED BY <2>4
<1>5. ASSUME NEW p \in Places, NEW d, d = FrameIn(stack', returned', p),
             d.op \in {"finish", "fill_from"}
      PROVE  \E K \in SUBSET States : d.future.state \in K /\ KeptBelow(p, K)'
  <2>1. CASE p = p1
    BY <1>2, <1>4, <1>5, <2>1
  <2>2. CASE p = p2
    <3>1. d = a /\ a.future.state \in States
      BY <1>2, <1>5, <2>2
    <3>2. CASE Owns(c, a.future.state)
      <4>1. KeptBelow(p2, {a.future.state})'
        BY <1>2, <3>1, <3>2 DEF KeptBelow, Frame
      <4> QED BY <2>2, <3>1, <4>1
    <3>3. CASE Backed(b, a.future.state)
      <4>1. PICK K \in SUBSET States : a.future.state \in K /\ KeptBelow(p1, K)'
        BY <1>4, <3>1, <3>3
      <4>2. KeptBelow(p2, K)'
        BY <1>2, <4>1 DEF KeptBelow
      <4> QED BY <2>2, <3>1, <4>1, <4>2
    <3> QED BY <1>5, <3>1, <3>2, <3>3
  <2>3. CASE p \notin {p0, p1, p2}
    <3>1. d = Frame(p) /\ Frame(p) # NoCall
      BY <1>2, <1>5, <2>3, Nothing
    <3>2. PICK K \in SUBSET States : d.future.state \in K /\ KeptBelow(p, K)
      BY <1>5, <3>1 DEF Kept
    <3> QED BY <1>3, <2>3, <3>1, <3>2
  <2>4. p # p0
    BY <1>2, <1>5
  <2> QED BY <2>1, <2>2, <2>3, <2>4
<1> QED BY <1>5 DEF Kept, Frame

(* Who has a reference, after a step. *)
Completed(s)      == \E p \in Places : Completing(Frame(p), s)
Looped(s)         == \E p \in Places : Looping(Frame(p), s)
HeldSomewhere(s)  == \E p \in Places : Held(Frame(p), s)
LedTo(x)          == \E s \in Outputs : ssb[s].m_continuation = x /\ ~Deleted(s)

LEMMA Whereabouts ==
    ASSUME IInv, NEW t \in Threads, NEW b, b = Top(t), NEW g, g = Answer(t),
           NEW c, NEW a, NEW r, Steps(t, c, a, r), r.op \in {"none", "returned"},
           g.op \in {"none", "returned"}, NEW s \in States
    PROVE  /\ Completed(s)' <=> \/ Completing(c, s) \/ Completing(a, s)
                                \/ Completed(s) /\ ~Completing(b, s)
           /\ Looped(s)' <=> \/ Looping(c, s) \/ Looping(a, s)
                             \/ Looped(s) /\ ~Looping(b, s)
           /\ HeldSomewhere(s)' <=> \/ Held(c, s) \/ Held(a, s) \/ Held(r, s)
                                    \/ HeldSomewhere(s) /\ ~Held(b, s) /\ ~Held(g, s)
<1> USE DEF IInv
<1>1. PICK p0 \in Places, p1 \in Places, p2 \in Places : Stepping(t, p0, p1, p2, c, a, r)
  BY DEF Steps
<1>2. /\ p0 # p1 /\ p0 # p2 /\ p1 # p2 /\ Frame(p0) = g /\ Frame(p1) = b /\ Frame(p2) = NoCall
      /\ FrameIn(stack', returned', p0) = r /\ FrameIn(stack', returned', p1) = c
      /\ FrameIn(stack', returned', p2) = a
      /\ \A p \in Places \ {p0, p1, p2} : FrameIn(stack', returned', p) = Frame(p)
  BY <1>1 DEF Stepping, Around, Turns, Answer
<1>3. /\ ~Completing(NoCall, s) /\ ~Looping(NoCall, s) /\ ~Held(NoCall, s)
      /\ ~Completing(g, s) /\ ~Looping(g, s) /\ ~Completing(r, s) /\ ~Looping(r, s)
  BY Nothing DEF Completing, Looping, Held
<1>4. ASSUME NEW p \in Places, NEW q \in Places, Completing(Frame(p), s), Completing(Frame(q), s)
      PROVE  p = q
  <2>1. /\ ProperCall(Frame(p), p[1], p[2]) /\ ProperCall(Frame(q), q[1], q[2])
        /\ p = <<p[1], p[2]>> /\ q = <<q[1], q[2]>>
    BY DEF Proper, Places
  <2> QED BY <1>4, <2>1 DEF ProperCall, Completing
<1>5. ASSUME NEW p \in Places, NEW q \in Places, Looping(Frame(p), s), Looping(Frame(q), s)
      PROVE  p = q
  BY <1>5 DEF Rounds, Looping
<1>6. Completed(s)' <=> \E p \in Places : Completing(FrameIn(stack', returned', p), s)
  BY DEF Completed, Frame, Completing
<1>7. Looped(s)' <=> \E p \in Places : Looping(FrameIn(stack', returned', p), s)
  BY DEF Looped, Frame, Looping
<1>8. HeldSomewhere(s)' <=> \E p \in Places : Held(FrameIn(stack', returned', p), s)
  BY DEF HeldSomewhere, Frame, Held
<1>9. Completed(s)' <=> \/ Completing(c, s) \/ Completing(a, s)
                        \/ Completed(s) /\ ~Completing(b, s)
  BY <1>2, <1>3, <1>4, <1>6 DEF Completed
<1>10. Looped(s)' <=> \/ Looping(c, s) \/ Looping(a, s)
                      \/ Looped(s) /\ ~Looping(b, s)
  BY <1>2, <1>3, <1>5, <1>7 DEF Looped
<1>11. HeldSomewhere(s)' <=> \/ Held(c, s) \/ Held(a, s) \/ Held(r, s)
                             \/ HeldSomewhere(s) /\ ~Held(b, s) /\ ~Held(g, s)
  <2>1. \A p \in Places \ {p0, p1, p2} : Held(Frame(p), s) => ~Held(b, s) /\ ~Held(g, s)
    BY <1>2 DEF OneHolder
  <2>2. HeldSomewhere(s)' <=> \/ Held(c, s) \/ Held(a, s) \/ Held(r, s)
                              \/ \E p \in Places \ {p0, p1, p2} : Held(Frame(p), s)
    BY <1>2, <1>8
  <2>3. HeldSomewhere(s) /\ ~Held(b, s) /\ ~Held(g, s) =>
          \E p \in Places \ {p0, p1, p2} : Held(Frame(p), s)
    BY <1>2, <1>3 DEF HeldSomewhere
  <2>4. (\E p \in Places \ {p0, p1, p2} : Held(Frame(p), s)) => HeldSomewhere(s)
    BY DEF HeldSomewhere
  <2> QED BY <2>1, <2>2, <2>3, <2>4, Zenon
<1> QED BY <1>9, <1>10, <1>11

LEMMA CountsAfter ==
    ASSUME IInv, NEW t \in Threads, NEW b, b = Top(t), NEW g, g = Answer(t),
           NEW c, NEW a, NEW r, Steps(t, c, a, r), r.op \in {"none", "returned"},
           g.op \in {"none", "returned"}, HoldStep(b, g, c, a, r), created' = created,
           \A s \in States : ssb'[s].m_refs = ssb[s].m_refs,
           \A x \in Outputs : LedTo(x)' <=> LedTo(x)
    PROVE  Counts'
<1>1. ASSUME NEW s \in States
      PROVE  /\ Completed(s)' <=> Completed(s)
             /\ Looped(s)' <=> Looped(s)
             /\ HeldSomewhere(s)' <=> HeldSomewhere(s)
  <2>1. /\ Completing(b, s) => Completed(s)
        /\ Looping(b, s) => Looped(s)
        /\ Held(b, s) \/ Held(g, s) => HeldSomewhere(s)
    <3>1. PICK p0 \in Places, p1 \in Places, p2 \in Places : Stepping(t, p0, p1, p2, c, a, r)
      BY DEF Steps
    <3>2. Frame(p0) = g /\ Frame(p1) = b
      BY <3>1 DEF Stepping, Answer
    <3> QED BY <3>2, Zenon DEF Completed, Looped, HeldSomewhere
  <2> QED BY <2>1, Whereabouts DEF HoldStep
<1>2. \A k \in Operations : OperationCount(k)' = OperationCount(k)
  BY <1>1, Ranges DEF OperationCount, One, Completed, Looped
<1>3. \A x \in Outputs : OutputCount(x)' = OutputCount(x)
  BY <1>1, Ranges DEF OutputCount, One, Deleted, HeldSomewhere, LedTo
<1> QED BY <1>1, <1>2, <1>3, Ranges DEF IInv, Counts, Completed

-----------------------------------------------------------------------------
(* What a step does to the states, whatever it does to the calls.          *)

(* Nothing, but for references, or to make an operation. *)
LEMMA Resting ==
    ASSUME IInv, NEW b, NEW g, created \subseteq created', created' \ created \subseteq Operations,
           \A s \in States : /\ ssb'[s].m_state = ssb[s].m_state
                             /\ ssb'[s].result = ssb[s].result
                             /\ ssb'[s].m_callback = ssb[s].m_callback
                             /\ ssb'[s].m_continuation = ssb[s].m_continuation
                             /\ ssb'[s].m_is_just_for_continuation = ssb[s].m_is_just_for_continuation
                             /\ s \notin created' => ssb'[s].m_refs = ssb[s].m_refs
    PROVE  Effect(b, g)
<1> USE DEF IInv
<1>1. \A s, x \in States : Feeds(x, s)' <=> Feeds(x, s)
  BY DEF Feeds
<1>2. OneFeed'
  BY <1>1 DEF OneFeed, OneMaker
<1>3. Confined(b, g)
  BY <1>1 DEF Confined, Fed
<1>4. Creation'
  BY Ranges DEF Creation
<1>5. Results'
  BY DEF Results
<1>6. Continuations'
  BY Ranges DEF Continuations
<1> QED BY <1>2, <1>3, <1>4, <1>5, <1>6 DEF Effect

(* Results are stored, by the call that sees to them or by the state that  *)
(* passes them on, and moved out, by the call that uses them.              *)
LEMMA Handing ==
    ASSUME IInv, NEW b, NEW g, created' = created,
           \A s \in States : /\ ssb'[s].m_state = ssb[s].m_state
                             /\ ssb'[s].m_callback = ssb[s].m_callback
                             /\ ssb'[s].m_continuation = ssb[s].m_continuation
                             /\ ssb'[s].m_is_just_for_continuation = ssb[s].m_is_just_for_continuation
                             /\ ssb'[s].m_refs = ssb[s].m_refs,
           \A s \in States :
             \/ ssb'[s].result = ssb[s].result
             \/ /\ ssb'[s].result = "moved" /\ ssb[s].m_state = "Finished" /\ s \in created
                /\ Own(b, g, s)
                /\ s \in Outputs => \/ ssb[s].m_continuation = Null
                                    \/ ssb'[ssb[s].m_continuation].result # "none"
             \/ /\ ssb'[s].result \in Outcomes /\ s \in created
                /\ ssb[s].result = "none"
                /\ Makes(b, s) \/ Fed(s)
                /\ \A x \in States : Feeds(x, s) => ssb'[x].result = "moved"
    PROVE  Effect(b, g) /\ (\A x \in Outputs : LedTo(x)' <=> LedTo(x))
<1> USE DEF IInv
<1>1. ASSUME NEW s \in States, NEW x \in States, Feeds(x, s)'
      PROVE  Feeds(x, s) /\ ssb'[s].result = ssb[s].result
  <2>1. ssb[x].m_continuation = s /\ ssb'[x].result # "moved"
    BY <1>1 DEF Feeds
  <2>2. Feeds(x, s)
    BY <2>1 DEF Feeds
  <2>3. ssb[s].m_state # "Finished" /\ ssb[s].result = "none"
    BY <2>2 DEF OneMaker
  <2> QED BY <2>1, <2>2, <2>3
<1>2. OneFeed'
  BY <1>1 DEF OneFeed, OneMaker
<1>3. \A s \in States : Fed(s)' => Fed(s)
  BY <1>1 DEF Fed
<1>4. \A s \in States : Fed(s) => ssb[s].result = "none"
  BY DEF Fed, OneMaker
<1>5. \A s \in States : ssb[s].result = "moved" => ssb'[s].result = "moved"
  BY <1>4 DEF Outcomes
<1>6. \A s \in States : ssb[s].result # "none" => ssb'[s].result # "none"
  BY DEF Outcomes
<1>7. Confined(b, g)
  BY <1>3, <1>5 DEF Confined, Outcomes
<1>8. Creation'
  BY Ranges DEF Creation
<1>9. Results'
  BY <1>6 DEF Results, Outcomes
<1>10. Continuations'
  <2>1. ASSUME NEW s \in Outputs, ssb'[s].m_continuation # Null, ssb'[s].result = "moved"
        PROVE  ssb'[ssb'[s].m_continuation].result # "none"
    BY <1>6, <2>1, Ranges DEF Continuations, Outcomes
  <2> QED BY <2>1, Ranges DEF Continuations
<1>11. \A x \in Outputs : LedTo(x)' <=> LedTo(x)
  BY Ranges DEF LedTo, Deleted
<1> QED BY <1>2, <1>7, <1>8, <1>9, <1>10, <1>11 DEF Effect

(* One state is marked, by a call that uses it. *)
Marks(y) ==
    /\ created' = created /\ y \in created
    /\ \A s \in States : /\ ssb'[s].result = ssb[s].result
                         /\ ssb'[s].m_continuation = ssb[s].m_continuation
                         /\ ssb'[s].m_refs = ssb[s].m_refs
    /\ \A s \in States : s # y =>
         /\ ssb'[s].m_state = ssb[s].m_state
         /\ ssb'[s].m_callback = ssb[s].m_callback
         /\ ssb'[s].m_is_just_for_continuation = ssb[s].m_is_just_for_continuation
    /\ ssb'[y].m_state = "Finished" <=> ssb[y].m_state = "Finished"
    /\ ssb'[y].m_state = "Waiting" => ssb'[y].m_callback # "none"
    /\ ssb[y].m_is_just_for_continuation => ssb'[y].m_is_just_for_continuation
    /\ y \in Operations => ssb'[y].m_callback = ssb[y].m_callback
    /\ y \in Outputs => /\ ssb'[y].m_callback \in {"none", "fill_from", "final"}
                        /\ ssb'[y].m_callback = "final" => ssb[y].m_continuation = Null

LEMMA Marking ==
    ASSUME IInv, NEW b, NEW g, NEW y, Own(b, g, y), Marks(y)
    PROVE  Effect(b, g) /\ (\A x \in Outputs : LedTo(x)' <=> LedTo(x))
<1> USE DEF IInv, Marks
<1>1. \A s, x \in States : Feeds(x, s)' <=> Feeds(x, s)
  BY DEF Feeds
<1>2. \A s \in States : ssb'[s].m_state = "Finished" <=> ssb[s].m_state = "Finished"
  OBVIOUS
<1>3. OneFeed'
  BY <1>1, <1>2 DEF OneFeed, OneMaker
<1>4. Confined(b, g)
  BY <1>1, <1>2 DEF Confined, Fed
<1>5. Creation'
  BY Ranges DEF Creation
<1>6. Results'
  BY DEF Results
<1>7. Continuations'
  BY Ranges DEF Continuations
<1>8. \A x \in Outputs : LedTo(x)' <=> LedTo(x)
  BY Ranges DEF LedTo, Deleted
<1> QED BY <1>3, <1>4, <1>5, <1>6, <1>7, <1>8 DEF Effect

-----------------------------------------------------------------------------
(* The outcome stays where it is. *)
LEMMA Onward ==
    ASSUME NEW b, NEW c, NEW a, ~Begins(b), ~Begins(c), ~Begins(a), expected' = expected,
           \A k \in Operations : Unmoved(k)' <=> Unmoved(k)
    PROVE  GoesOn(b, c, a)
BY DEF GoesOn

LEMMA Stays ==
    ASSUME NEW b, NEW g, NEW c, NEW a, NEW r, ~Begins(b), ~Begins(c), ~Begins(a),
           ~Carrying(b), ~Carrying(g), ~Carrying(c), ~Carrying(a), ~Carrying(r),
           expected' = expected, delivered' = delivered,
           \A k \in Operations : /\ k \in created' <=> k \in created
                                 /\ ssb'[k].result = "moved" <=> ssb[k].result = "moved",
           \A s \in Outputs : ssb'[s].result = ssb[s].result
    PROVE  Idle(b, g, c, a, r)
<1>1. \A k \in Operations : Unmoved(k)' <=> Unmoved(k)
  BY DEF Unmoved
<1> QED BY <1>1 DEF Idle, GoesOn

-----------------------------------------------------------------------------
(* All of the invariant, from what is asked of the calls and the states.   *)
LEMMA Lawfully ==
    ASSUME IInv, NEW t \in Threads, NEW b, NEW g, Known(t, b, g),
           NEW c, NEW a, NEW r, Steps(t, c, a, r), Lawful(t, b, g, c, a, r), Effect(b, g),
           \A k \in Operations : k \in created' \ created => Past(k)',
           \A s \in created' \ created :
             b.op = "loop" /\ (s = b.k \/ (s = Output(b.k) /\ b.pc = "attach")),
           Typed', Counts'
    PROVE  IInv' /\ Outlook(t)
<1>1. Typed /\ Proper /\ Shape /\ Rounds /\ b = Top(t) /\ g = Answer(t)
  BY DEF IInv, Known
<1>2. Confined(b, g) /\ OneFeed' /\ Creation' /\ Results' /\ Continuations'
  BY DEF Effect
<1>3. /\ ProperStep(b, c, a, r) /\ Fits(b, c, a, r) /\ UserStep(b, g, c, a, r)
      /\ MakerStep(b, c, a) /\ HookStep(b, g, c, a, r) /\ HolderStep(b, g, c, a, r)
      /\ RoundStep(b, c, a) /\ KeptStep(b, c, a)
  BY DEF Lawful
<1>4. /\ created \subseteq created' /\ r.op \in {"none", "returned"}
      /\ \A s \in States : ssb[s].result = "moved" =>
           ssb'[s].result = "moved" /\ ssb'[s].m_continuation = ssb[s].m_continuation
  BY <1>2, <1>3 DEF Confined, HookStep
<1>5. Proper'
  BY <1>1, <1>3, ProperAfter
<1>6. Shape'
  BY <1>1, <1>3, ShapeAfter
<1>7. OneUser'
  BY <1>1, <1>2, <1>3, UsersAfter
<1>8. OneMaker'
  BY <1>1, <1>2, <1>3, <1>4, MakersAfter
<1>9. Hooked'
  BY <1>1, <1>2, <1>3, HooksAfter
<1>10. OneHolder'
  BY <1>1, <1>3, <1>4, HoldersAfter
<1>11. Kept'
  <2>1. /\ c.op \in {"finish", "fill_from"} => /\ c.future.state \in States
                                               /\ Backed(b, c.future.state)
        /\ a.op \in {"finish", "fill_from"} =>
             /\ a.future.state \in States
             /\ Owns(c, a.future.state) \/ Backed(b, a.future.state)
    BY <1>3 DEF KeptStep
  <2> QED BY <1>1, <1>4, <2>1, KeptAfter
<1>12. Rounds'
  <2>1. /\ RoundOf(c)' /\ RoundOf(a)'
        /\ c.op = "loop" => b.op = "loop" /\ c.k = b.k
        /\ a.op = "loop" => c.op # "loop" \/ c.k # a.k
        /\ a.op = "loop" => \A p \in Places : Frame(p).op = "loop" => Frame(p).k # a.k
    BY <1>3 DEF RoundStep
  <2>2. \A k \in Operations : ssb[k].result = "moved" => ssb'[k].result = "moved"
    BY <1>4, Ranges
  <2> QED BY <1>1, <1>4, <2>1, <2>2, RoundsAfter
<1>13. Outlook(t)
  <2>1. CargoStep(b, g, c, a, r) /\ AttendStep(b, g, c, a, r) /\ LinkStep(t, b, c, a, r)
    BY DEF Lawful
  <2>2. /\ a.op \notin {"get_async", "propagate"} /\ r.op \in {"none", "returned"}
        /\ c.op = "loop" => b.op = "loop" /\ c.k = b.k
    BY <1>3 DEF Fits, Stacked, HookStep, RoundStep
  <2>3. /\ Growing(b)
        /\ \A s \in States :
             /\ ssb[s].m_state = "Finished" => ssb'[s].m_state = "Finished"
             /\ ssb[s].result = "moved" => ssb'[s].result = "moved"
             /\ ssb[s].m_is_just_for_continuation => ssb'[s].m_is_just_for_continuation
    BY <1>2 DEF Confined, Typed, Growing
  <2> QED BY <1>3, <2>1, <2>2, <2>3, Zenon DEF Outlook
<1>14. IInv'
  BY <1>2, <1>5, <1>6, <1>7, <1>8, <1>9, <1>10, <1>11, <1>12 DEF IInv
<1> QED BY <1>13, <1>14

(* What may be told of the loop by a step that makes no state and returns  *)
(* no Future.                                                              *)
Happens(t) == \/ LoopGoesOn \/ Tested(t)
              \/ \E outcome \in Outcomes : LoopEnds(outcome) \/ Deliver(outcome)

LEMMA TypedAfter ==
    ASSUME Typed, NEW t, NEW c, NEW a, NEW r, Steps(t, c, a, r), Happens(t),
           ssb' \in [States -> SharedStates]
    PROVE  Typed' /\ created' = created
<1>1. /\ overtaken' \in BOOLEAN /\ created' = created /\ called_on' = called_on
      /\ returned' = returned /\ expected' \in Outcomes \cup {"none"}
      /\ delivered' \in Seq(Outcomes)
  <2>1. CASE Tested(t)
    BY <2>1, Zenon DEF Typed, Tested
  <2>2. CASE LoopGoesOn
    BY <2>2 DEF Typed, LoopGoesOn
  <2>3. ASSUME NEW outcome \in Outcomes, LoopEnds(outcome)
        PROVE  /\ overtaken' \in BOOLEAN /\ created' = created /\ called_on' = called_on
               /\ returned' = returned /\ expected' \in Outcomes \cup {"none"}
               /\ delivered' \in Seq(Outcomes)
    BY <2>3 DEF Typed, LoopEnds
  <2>4. ASSUME NEW outcome \in Outcomes, Deliver(outcome)
        PROVE  /\ overtaken' \in BOOLEAN /\ created' = created /\ called_on' = called_on
               /\ returned' = returned /\ expected' \in Outcomes \cup {"none"}
               /\ delivered' \in Seq(Outcomes)
    <3>1. delivered' \in Seq(Outcomes)
      BY <2>4 DEF Typed, Deliver
    <3> QED BY <2>4, <3>1 DEF Typed, Deliver
  <2> QED BY <2>1, <2>2, <2>3, <2>4 DEF Happens
<1> QED BY <1>1 DEF Typed, Steps, Stepping

(* A step that makes no state and changes no reference, ... *)
LEMMA Lightly ==
    ASSUME IInv, NEW t \in Threads, NEW b, NEW g, Known(t, b, g),
           NEW c, NEW a, NEW r, Steps(t, c, a, r), Lawful(t, b, g, c, a, r),
           HoldStep(b, g, c, a, r), Effect(b, g), created' = created,
           \A s \in States : ssb'[s].m_refs = ssb[s].m_refs,
           \A x \in Outputs : LedTo(x)' <=> LedTo(x),
           Typed'
    PROVE  IInv' /\ Outlook(t)
<1>1. r.op \in {"none", "returned"}
  BY DEF Lawful, HookStep
<1>2. b = Top(t) /\ g = Answer(t) /\ g.op \in {"none", "returned"}
  BY Nothing, Returned DEF Known
<1>3. Counts'
  BY <1>1, <1>2, CountsAfter
<1> QED BY <1>2, <1>3, Lawfully

(* ... or that changes no state at all. *)
LEMMA Quietly ==
    ASSUME IInv, NEW t \in Threads, NEW b, NEW g, Known(t, b, g),
           NEW c, NEW a, NEW r, Steps(t, c, a, r), Lawful(t, b, g, c, a, r),
           HoldStep(b, g, c, a, r), ssb' = ssb, LoopGoesOn \/ Tested(t)
    PROVE  IInv' /\ Outlook(t)
<1>1. Typed' /\ created' = created
  BY TypedAfter DEF IInv, Typed, Happens
<1>2. Effect(b, g)
  BY <1>1, Resting
<1>3. \A x \in Outputs : LedTo(x)' <=> LedTo(x)
  BY DEF LedTo, Deleted
<1> QED BY <1>1, <1>2, <1>3, Lightly

(* The steps, by what they do to the stack. *)
LEMMA Replaces ==
    ASSUME Typed, NEW t \in Threads, stack[t] # <<>>, NEW c \in Calls, Becomes(t, <<c>>),
           \A u \in Threads \ {t} : returned'[u] = returned[u], ~Waits(c)
    PROVE  Steps(t, c, NoCall, NoCall)
BY Replacing DEF Steps

LEMMA Pushes ==
    ASSUME Typed, NEW t \in Threads, stack[t] # <<>>, NEW a \in Calls, NEW c \in Calls,
           Becomes(t, <<a, c>>),
           \A u \in Threads \ {t} : returned'[u] = returned[u], ~Waits(a)
    PROVE  Steps(t, c, a, NoCall)
BY Pushing DEF Steps

LEMMA Leaves ==
    ASSUME Typed, Shape, NEW t \in Threads, stack[t] # <<>>, Becomes(t, <<>>),
           \A u \in Threads \ {t} : returned'[u] = returned[u]
    PROVE  /\ Top(t).op = "loop" => Steps(t, NoCall, NoCall, Given(returned'[t]))
           /\ Top(t).op # "loop" => Steps(t, NoCall, NoCall, NoCall)
BY Leaving DEF Steps

-----------------------------------------------------------------------------
(* A result goes from one state to another. *)
Passes(x, v, y) == ssb' = [ssb EXCEPT ![x].result = v, ![y].result = "moved"]

LEMMA Passing ==
    ASSUME Typed, NEW x \in States, NEW y \in States, x # y,
           NEW v \in Outcomes \cup {"none", "moved"}, Passes(x, v, y)
    PROVE  /\ ssb' \in [States -> SharedStates]
           /\ ssb'[x].result = v /\ ssb'[y].result = "moved"
           /\ \A s \in States : s # x /\ s # y => ssb'[s].result = ssb[s].result
           /\ \A s \in States : ssb'[s].m_state = ssb[s].m_state
           /\ \A s \in States : ssb'[s].m_callback = ssb[s].m_callback
           /\ \A s \in States : ssb'[s].m_continuation = ssb[s].m_continuation
           /\ \A s \in States : ssb'[s].m_is_just_for_continuation =
                ssb[s].m_is_just_for_continuation
           /\ \A s \in States : ssb'[s].m_refs = ssb[s].m_refs
<1> DEFINE m == [ssb EXCEPT ![x].result = v]
<1>1. ssb' = [m EXCEPT ![y].result = "moved"]
  BY Zenon DEF Passes
<1>2. m \in [States -> SharedStates]
  BY DEF Typed, SharedStates
<1>3. m[x].result = v /\ \A s \in States : s # x => m[s].result = ssb[s].result
  BY DEF Typed, SharedStates
<1>4. \A s \in States :
        /\ m[s].m_state = ssb[s].m_state /\ m[s].m_callback = ssb[s].m_callback
        /\ m[s].m_continuation = ssb[s].m_continuation
        /\ m[s].m_is_just_for_continuation = ssb[s].m_is_just_for_continuation
        /\ m[s].m_refs = ssb[s].m_refs
  BY DEF Typed, SharedStates
<1> HIDE DEF m
<1>5. ssb' \in [States -> SharedStates]
  BY <1>1, <1>2 DEF SharedStates
<1>6. ssb'[y].result = "moved" /\ \A s \in States : s # y => ssb'[s].result = m[s].result
  BY <1>1, <1>2 DEF SharedStates
<1>7. \A s \in States :
        /\ ssb'[s].m_state = m[s].m_state /\ ssb'[s].m_callback = m[s].m_callback
        /\ ssb'[s].m_continuation = m[s].m_continuation
        /\ ssb'[s].m_is_just_for_continuation = m[s].m_is_just_for_continuation
        /\ ssb'[s].m_refs = m[s].m_refs
  BY <1>1, <1>2 DEF SharedStates
<1> QED BY <1>3, <1>4, <1>5, <1>6, <1>7

(* A result is stored. *)
Sets(s, v) == ssb' = [ssb EXCEPT ![s].result = v]

LEMMA Setting ==
    ASSUME Typed, NEW y \in States, NEW v \in Outcomes \cup {"none", "moved"}, Sets(y, v)
    PROVE  /\ ssb' \in [States -> SharedStates]
           /\ ssb'[y].result = v
           /\ \A s \in States : s # y => ssb'[s].result = ssb[s].result
           /\ \A s \in States : ssb'[s].m_state = ssb[s].m_state
           /\ \A s \in States : ssb'[s].m_callback = ssb[s].m_callback
           /\ \A s \in States : ssb'[s].m_continuation = ssb[s].m_continuation
           /\ \A s \in States : ssb'[s].m_is_just_for_continuation =
                ssb[s].m_is_just_for_continuation
           /\ \A s \in States : ssb'[s].m_refs = ssb[s].m_refs
<1>1. ssb' \in [States -> SharedStates]
  BY Changed DEF Typed, Sets
<1>2. ssb'[y] = [ssb[y] EXCEPT !.result = v] /\ \A s \in States : s # y => ssb'[s] = ssb[s]
  BY Zenon DEF Typed, Sets
<1>3. ssb[y] \in SharedStates
  BY DEF Typed
<1> QED BY <1>1, <1>2, <1>3 DEF SharedStates

Moves(s) == ssb' = [ssb EXCEPT ![s].result = "moved"]

LEMMA Moving ==
    ASSUME Typed, NEW y \in States, Moves(y)
    PROVE  /\ ssb' \in [States -> SharedStates]
           /\ ssb'[y].result = "moved"
           /\ \A s \in States : s # y => ssb'[s].result = ssb[s].result
           /\ \A s \in States : ssb'[s].m_state = ssb[s].m_state
           /\ \A s \in States : ssb'[s].m_callback = ssb[s].m_callback
           /\ \A s \in States : ssb'[s].m_continuation = ssb[s].m_continuation
           /\ \A s \in States : ssb'[s].m_is_just_for_continuation =
                ssb[s].m_is_just_for_continuation
           /\ \A s \in States : ssb'[s].m_refs = ssb[s].m_refs
<1>1. Sets(y, "moved") /\ "moved" \in Outcomes \cup {"none", "moved"}
  BY DEF Moves, Sets
<1> QED BY <1>1, Setting

(* A continuation is set, or taken over from another state. *)
Bypasses(x, y, o) == ssb' = [ssb EXCEPT ![x].m_continuation = y, ![o].m_continuation = Null]
Binds(x, o)       == ssb' = [ssb EXCEPT ![x].m_continuation = o, ![o].m_refs = @ + 1]

LEMMA Bypassing ==
    ASSUME Typed, NEW x \in States, NEW o \in States, x # o, NEW y \in States \cup {Null},
           Bypasses(x, y, o)
    PROVE  /\ ssb' \in [States -> SharedStates]
           /\ ssb'[x].m_continuation = y /\ ssb'[o].m_continuation = Null
           /\ \A s \in States : s # x /\ s # o => ssb'[s].m_continuation = ssb[s].m_continuation
           /\ \A s \in States : ssb'[s].m_state = ssb[s].m_state
           /\ \A s \in States : ssb'[s].result = ssb[s].result
           /\ \A s \in States : ssb'[s].m_callback = ssb[s].m_callback
           /\ \A s \in States : ssb'[s].m_is_just_for_continuation =
                ssb[s].m_is_just_for_continuation
           /\ \A s \in States : ssb'[s].m_refs = ssb[s].m_refs
<1> DEFINE m == [ssb EXCEPT ![x].m_continuation = y]
<1>1. ssb' = [m EXCEPT ![o].m_continuation = Null]
  BY Zenon DEF Bypasses
<1>2. m \in [States -> SharedStates]
  BY DEF Typed, SharedStates
<1>3. m[x].m_continuation = y /\ \A s \in States : s # x =>
        m[s].m_continuation = ssb[s].m_continuation
  BY DEF Typed, SharedStates
<1>4. \A s \in States :
        /\ m[s].m_state = ssb[s].m_state /\ m[s].m_callback = ssb[s].m_callback
        /\ m[s].result = ssb[s].result
        /\ m[s].m_is_just_for_continuation = ssb[s].m_is_just_for_continuation
        /\ m[s].m_refs = ssb[s].m_refs
  BY DEF Typed, SharedStates
<1> HIDE DEF m
<1>5. ssb' \in [States -> SharedStates]
  BY <1>1, <1>2 DEF SharedStates
<1>6. /\ ssb'[o].m_continuation = Null
      /\ \A s \in States : s # o => ssb'[s].m_continuation = m[s].m_continuation
  BY <1>1, <1>2 DEF SharedStates
<1>7. \A s \in States :
        /\ ssb'[s].m_state = m[s].m_state /\ ssb'[s].m_callback = m[s].m_callback
        /\ ssb'[s].result = m[s].result
        /\ ssb'[s].m_is_just_for_continuation = m[s].m_is_just_for_continuation
        /\ ssb'[s].m_refs = m[s].m_refs
  BY <1>1, <1>2 DEF SharedStates
<1> QED BY <1>3, <1>4, <1>5, <1>6, <1>7

LEMMA Binding ==
    ASSUME Typed, NEW x \in States, NEW o \in States, x # o, Binds(x, o)
    PROVE  /\ ssb' \in [States -> SharedStates]
           /\ ssb'[x].m_continuation = o /\ ssb'[o].m_refs = ssb[o].m_refs + 1
           /\ \A s \in States : s # x => ssb'[s].m_continuation = ssb[s].m_continuation
           /\ \A s \in States : ssb'[s].m_state = ssb[s].m_state
           /\ \A s \in States : ssb'[s].result = ssb[s].result
           /\ \A s \in States : ssb'[s].m_callback = ssb[s].m_callback
           /\ \A s \in States : ssb'[s].m_is_just_for_continuation =
                ssb[s].m_is_just_for_continuation
           /\ \A s \in States : s # o => ssb'[s].m_refs = ssb[s].m_refs
<1> DEFINE m == [ssb EXCEPT ![x].m_continuation = o]
<1>1. ssb' = [m EXCEPT ![o].m_refs = @ + 1]
  BY Zenon DEF Binds
<1>2. m \in [States -> SharedStates]
  BY DEF Typed, SharedStates
<1>3. m[x].m_continuation = o /\ \A s \in States : s # x =>
        m[s].m_continuation = ssb[s].m_continuation
  BY DEF Typed, SharedStates
<1>4. \A s \in States :
        /\ m[s].m_state = ssb[s].m_state /\ m[s].m_callback = ssb[s].m_callback
        /\ m[s].result = ssb[s].result
        /\ m[s].m_is_just_for_continuation = ssb[s].m_is_just_for_continuation
        /\ m[s].m_refs = ssb[s].m_refs
  BY DEF Typed, SharedStates
<1> HIDE DEF m
<1>5. ssb' \in [States -> SharedStates]
  BY <1>1, <1>2 DEF SharedStates
<1>6. /\ ssb'[o].m_refs = m[o].m_refs + 1
      /\ \A s \in States : s # o => ssb'[s].m_refs = m[s].m_refs
  BY <1>1, <1>2 DEF SharedStates
<1>7. \A s \in States :
        /\ ssb'[s].m_state = m[s].m_state /\ ssb'[s].m_callback = m[s].m_callback
        /\ ssb'[s].result = m[s].result
        /\ ssb'[s].m_is_just_for_continuation = m[s].m_is_just_for_continuation
        /\ ssb'[s].m_continuation = m[s].m_continuation
  BY <1>1, <1>2 DEF SharedStates
<1> QED BY <1>3, <1>4, <1>5, <1>6, <1>7

(* States that calls keep from being deleted. *)
LEMMA HeldAlive ==
    ASSUME Counts, OneHolder, NEW p \in Places, NEW s \in States, Held(Frame(p), s)
    PROVE  ssb[s].m_refs > 0
<1>1. s \in created /\ s \in Outputs
  BY DEF OneHolder
<1> QED BY <1>1 DEF Counts, OutputCount, One

LEMMA OwnedAlive ==
    ASSUME Counts, NEW p \in Places, NEW k \in Operations, k \in created,
           Looping(Frame(p), k) \/ Completing(Frame(p), k)
    PROVE  ssb[k].m_refs > 0
BY DEF Counts, OperationCount, One

LEMMA TargetAlive ==
    ASSUME Proper, Shape, Rounds, Creation, Counts, NEW p1 \in Places, p1[2] # 0,
           Frame(p1).op = "propagate", NEW o, o = Frame(p1).output
    PROVE  o \in Outputs /\ ssb[o].m_refs > 0
<1>1. PICK q \in Places : Over(p1, q) /\ Stacked(Frame(q), Frame(p1))
  BY Under
<1>2. ProperCall(Frame(q), q[1], q[2]) /\ ProperCall(Frame(p1), p1[1], p1[2])
  BY DEF Proper
<1>3. o \in Outputs /\ o \in created
  BY <1>2 DEF ProperCall, Rounds, RoundOf
<1>4. PICK k \in Operations : k = o - N /\ Output(k) = o
  BY <1>3, Ranges
<1>5. Frame(q).k = k
  BY <1>1, <1>2, <1>4, NAssumption DEF Stacked, ProperCall, Output, Operations
<1>6. Looping(Frame(q), k) \/ Completing(Frame(q), k)
  BY <1>1, <1>5 DEF Stacked, Waits, Looping, Completing
<1>7. k \in created
  BY <1>3, <1>4 DEF Creation
<1>8. ~Deleted(k)
  BY <1>6, <1>7, OwnedAlive DEF Deleted
<1> QED BY <1>3, <1>4, <1>8 DEF Counts, OutputCount, One

-----------------------------------------------------------------------------
(* What is known of the states that the innermost call is about.           *)

(* The callback of a round has the result of the operation to pass on. *)
LEMMA StepFrom ==
    ASSUME IInv, NEW t \in Threads, NEW b, NEW g, Known(t, b, g), b.op = "step", b.pc = "start",
           NEW j, j = b.k, NEW o, o = ssb[j].m_continuation
    PROVE  /\ j \in Operations /\ j \in States /\ j \in created
           /\ ssb[j].result # "moved" /\ ssb[j].m_state = "Finished" /\ Own(b, g, j)
           /\ o \in Outputs /\ o \in States /\ o # j /\ o = Output(j) /\ o \in created
           /\ Fed(o) /\ (\A x \in States : Feeds(x, o) => x = j)
           /\ ssb[o].result = "none" /\ ssb[o].m_state # "Finished"
<1>1. j \in Operations /\ j \in States
  BY Ranges DEF Known, ProperCall
<1>2. Uses(b, j)
  BY DEF Uses, Handles
<1>3. j \in created /\ ssb[j].result # "moved" /\ ssb[j].m_state = "Finished"
  BY <1>1, <1>2 DEF Known, UserOf, Handles
<1>4. o = Output(j) /\ o \in created
  BY <1>1 DEF Known, RoundOf, IInv, Creation
<1>5. o \in Outputs /\ o \in States /\ o # j
  BY <1>1, <1>4, Ranges
<1>6. Feeds(j, o)
  BY <1>3 DEF Feeds
<1>7. /\ ssb[o].result = "none" /\ ssb[o].m_state # "Finished"
      /\ \A x \in States : Feeds(x, o) => x = j
  BY <1>1, <1>5, <1>6 DEF IInv, OneMaker
<1> QED BY <1>1, <1>2, <1>3, <1>4, <1>5, <1>6, <1>7 DEF Own, Fed

(* fill_from() has that of an output. *)
LEMMA FillFromFrom ==
    ASSUME IInv, NEW t \in Threads, NEW b, NEW g, Known(t, b, g), b.op = "fill_from",
           NEW s, s = b.future.state, NEW o, o = ssb[s].m_continuation
    PROVE  /\ s \in Outputs /\ s \in States /\ s \in created
           /\ ssb[s].result \in Outcomes /\ ssb[s].m_state = "Finished" /\ Own(b, g, s)
           /\ o \in Outputs /\ o \in States /\ o # s /\ o \in created
           /\ Fed(o) /\ (\A x \in States : Feeds(x, o) => x = s)
           /\ ssb[o].result = "none" /\ ssb[o].m_state # "Finished"
<1>1. s \in Outputs /\ s \in States
  BY Ranges DEF Known, ProperCall
<1>2. Uses(b, s) /\ Handles(b, s)
  BY DEF Uses, Handles
<1>3. /\ s \in created /\ ssb[s].result # "moved" /\ ssb[s].m_state = "Finished"
      /\ ssb[s].m_callback = "fill_from"
  BY <1>1, <1>2 DEF Known, UserOf
<1>4. ssb[s].result \in Outcomes
  BY <1>1, <1>3 DEF IInv, Results, Typed, SharedStates
<1>5. o # Null
  BY <1>1, <1>3 DEF IInv, Hooked, Live
<1>6. o \in Outputs /\ o \in created /\ o < s
  BY <1>1, <1>5 DEF IInv, Continuations
<1>7. o \in States /\ o # s
  BY <1>1, <1>6, Ranges DEF States
<1>8. Feeds(s, o)
  BY <1>3 DEF Feeds
<1>9. /\ ssb[o].result = "none" /\ ssb[o].m_state # "Finished"
      /\ \A x \in States : Feeds(x, o) => x = s
  BY <1>1, <1>7, <1>8 DEF IInv, OneMaker
<1> QED BY <1>1, <1>2, <1>3, <1>4, <1>6, <1>7, <1>8, <1>9 DEF Own, Fed

(* The next round has not been started before the result of this one has   *)
(* been taken.                                                             *)
LEMMA NextRound ==
    ASSUME IInv, NEW j \in Operations, j \in created, ssb[j].result # "moved",
           j + 1 \in Operations, created' = created, ssb'[j].result = "moved",
           \A s \in States : s # j => ssb'[s].result = ssb[s].result
    PROVE  /\ j + 1 \notin created /\ Past(j + 1)'
           /\ \A p \in Places : Frame(p).op = "loop" => Frame(p).k # j + 1
<1>1. j < j + 1 /\ \A i \in Operations : i < j + 1 => i = j \/ i < j
  BY NAssumption DEF Operations
<1>2. ~Past(j + 1)
  BY <1>1 DEF Past
<1>3. j + 1 \notin created
  BY <1>2 DEF IInv, Rounds
<1>4. \A p \in Places : Frame(p).op = "loop" => Frame(p).k # j + 1
  BY <1>2, <1>3 DEF IInv, Rounds, RoundOf
<1>5. Past(j)
  BY DEF IInv, Rounds
<1>6. Past(j + 1)'
  BY <1>1, <1>5, Ranges DEF Past
<1> QED BY <1>3, <1>4, <1>6

(* The output that a Future is propagated to still waits for its result. *)
LEMMA TargetFrom ==
    ASSUME IInv, NEW t \in Threads, NEW b, NEW g, Known(t, b, g), b.op = "propagate",
           b.pc \in {"load", "test", "bypass", "bind"}, NEW o, o = b.output
    PROVE  /\ o \in Outputs /\ o \in States /\ o \in created /\ Makes(b, o) /\ ~Fed(o)
           /\ ssb[o].result = "none" /\ ssb[o].m_state # "Finished"
           /\ o - N \in Operations /\ o - N \in States /\ o - N # o
           /\ ssb[o - N].result = "moved" /\ ssb[o - N].m_continuation = o
<1>1. o \in Outputs /\ o \in States /\ o - N \in Operations /\ o - N \in States /\ o - N # o
      /\ Output(o - N) = o
  BY Ranges DEF Known, ProperCall
<1>2. Makes(b, o)
  BY DEF Makes
<1>3. ssb[o].result = "none" /\ ssb[o].m_state # "Finished" /\ ~Fed(o)
  BY <1>1, <1>2 DEF Known, MakerOf, Fed
<1>4. o \in created /\ ssb[o - N].result = "moved"
  BY <1>1 DEF Known, RoundOf
<1>5. ssb[o - N].m_continuation = o
  BY <1>1, <1>4 DEF IInv, Creation
<1> QED BY <1>1, <1>2, <1>3, <1>4, <1>5

(* The Future that is propagated has no continuation yet, and is younger   *)
(* than the output.                                                        *)
LEMMA SourceFrom ==
    ASSUME IInv, NEW t \in Threads, NEW b, NEW g, Known(t, b, g), b.op = "propagate",
           b.pc \in {"load", "test", "bypass", "bind"}, ~b.future.ready,
           NEW o, o = b.output, NEW s, s = b.future.state
    PROVE  /\ s \in Outputs /\ s \in States /\ s \in created /\ Own(b, g, s) /\ Clean(s)
           /\ ssb[s].result # "moved" /\ ssb[s].m_state # "Waiting"
           /\ o < s /\ s # o /\ o - N # s
<1>1. s \in Outputs /\ s \in States /\ o < s /\ s # o /\ o - N # s
  BY Ranges, NAssumption DEF Known, ProperCall, Outputs
<1>2. Held(b, s) /\ Opens(b, s) /\ Uses(b, s) /\ Fresh(b, s)
  BY DEF Held, Opens, Uses, Fresh
<1>3. s \in created /\ ssb[s].result # "moved" /\ ssb[s].m_state # "Waiting" /\ Clean(s)
  BY <1>1, <1>2 DEF Known, UserOf
<1> QED BY <1>1, <1>2, <1>3 DEF Own

LEMMA TopFrame ==
    ASSUME IInv, NEW t \in Threads, stack[t] # <<>>
    PROVE  \E p \in Places : Frame(p) = Top(t) /\ p[1] = t /\ p[2] # 0
<1>1. PICK p0 \in Places, p1 \in Places, p2 \in Places : Spot(t, p0, p1, p2)
  BY Spots DEF IInv
<1> QED BY <1>1, Surroundings, TopCall DEF IInv, Spot

(* The states that it is about have not been deleted. *)
LEMMA TopAlive ==
    ASSUME IInv, NEW t \in Threads, stack[t] # <<>>, NEW b, b = Top(t)
    PROVE  /\ b.op = "propagate" => ssb[b.output].m_refs > 0
           /\ \A s \in States : Held(b, s) => HeldSomewhere(s) /\ ssb[s].m_refs > 0
           /\ \A s \in States : Looping(b, s) => Looped(s)
           /\ \A s \in States : Completing(b, s) => Completed(s)
           /\ \A s \in Operations : s \in created /\ (Looping(b, s) \/ Completing(b, s))
                                      => ssb[s].m_refs > 0
           /\ \A s \in Outputs : Makes(b, s) => Live(s)
<1>1. PICK p \in Places : Frame(p) = b /\ p[2] # 0
  BY TopFrame
<1>2. b.op = "propagate" => ssb[b.output].m_refs > 0
  BY <1>1, TargetAlive DEF IInv
<1>3. \A s \in States : Held(b, s) => ssb[s].m_refs > 0
  BY <1>1, HeldAlive DEF IInv
<1>4. \A s \in Operations : s \in created /\ (Looping(b, s) \/ Completing(b, s))
                              => ssb[s].m_refs > 0
  BY <1>1, OwnedAlive DEF IInv
<1> QED BY <1>1, <1>2, <1>3, <1>4 DEF HeldSomewhere, Looped, Completed, Live

(* A state is finished, by the call that sees to it. *)
LEMMA Finishing ==
    ASSUME IInv, NEW b, NEW g, created' = created, NEW y \in States, y \in created, Makes(b, y),
           ~Fed(y), ssb[y].result \in Outcomes, ssb'[y].m_state = "Finished",
           \A s \in States : s # y => ssb'[s].m_state = ssb[s].m_state,
           \A s \in States : /\ ssb'[s].result = ssb[s].result
                             /\ ssb'[s].m_callback = ssb[s].m_callback
                             /\ ssb'[s].m_continuation = ssb[s].m_continuation
                             /\ ssb'[s].m_is_just_for_continuation = ssb[s].m_is_just_for_continuation
                             /\ ssb'[s].m_refs = ssb[s].m_refs
    PROVE  Effect(b, g) /\ (\A x \in Outputs : LedTo(x)' <=> LedTo(x))
<1> USE DEF IInv
<1>1. \A s, x \in States : Feeds(x, s)' <=> Feeds(x, s)
  BY DEF Feeds
<1>2. OneFeed'
  BY <1>1 DEF OneFeed, OneMaker, Fed
<1>3. Confined(b, g)
  BY <1>1 DEF Confined, Fed
<1>4. Creation'
  BY Ranges DEF Creation
<1>5. Results'
  BY DEF Results, Outcomes
<1>6. Continuations'
  BY Ranges DEF Continuations
<1>7. \A x \in Outputs : LedTo(x)' <=> LedTo(x)
  BY Ranges DEF LedTo, Deleted
<1> QED BY <1>2, <1>3, <1>4, <1>5, <1>6, <1>7 DEF Effect

-----------------------------------------------------------------------------
(* Deleting states. *)

(* What Released(s) is: s, and what the deleted ones among them lead to. *)
LEMMA Releases ==
    ASSUME Typed, Creation, Continuations, NEW s \in States
    PROVE  /\ s \in Released(s) /\ Released(s) \subseteq States
           /\ \A x \in Released(s) : x # s => x \in Outputs
           /\ \A x \in Released(s) : ssb[x].m_refs = 1 /\ ssb[x].m_continuation # Null
                => ssb[x].m_continuation \in Released(s)
           /\ \A x \in Released(s) : x # s =>
                \E y \in Released(s) : ssb[y].m_refs = 1 /\ ssb[y].m_continuation = x
           /\ \A x \in Released(s) : x # s => x <= (IF s \in Outputs THEN s ELSE Output(s))
<1> DEFINE D == Released(s)
<1>1. s \in D /\ D \subseteq States /\ \A x \in D : x # s => x \in Outputs
  BY Ranges DEF Released
<1>2. \A x \in States : ssb[x].m_continuation # Null => ssb[x].m_continuation \in Outputs
  BY Ranges DEF Creation, Continuations
<1>3. ASSUME NEW x \in D, ssb[x].m_refs = 1, ssb[x].m_continuation # Null
      PROVE  ssb[x].m_continuation \in D
  <2> SUFFICES ASSUME ssb[x].m_continuation # s PROVE ssb[x].m_continuation \in D
    BY <1>1
  <2>1. ASSUME NEW R \in SUBSET Outputs, LetsGoOn({s} \cup R) PROVE ssb[x].m_continuation \in R
    <3>1. x \in {s} \cup R
      BY <2>1 DEF Released
    <3> QED BY <1>3, <2>1, <3>1 DEF LetsGoOn
  <2> QED BY <1>1, <1>2, <1>3, <2>1 DEF Released
<1>4. ASSUME NEW x \in D, x # s
      PROVE  \E y \in D : ssb[y].m_refs = 1 /\ ssb[y].m_continuation = x
  <2> SUFFICES ASSUME \A y \in D : ~(ssb[y].m_refs = 1 /\ ssb[y].m_continuation = x) PROVE FALSE
    OBVIOUS
  <2> DEFINE R == (D \ {s}) \ {x}
  <2>1. R \in SUBSET Outputs
    BY <1>1
  <2>2. LetsGoOn({s} \cup R)
    BY <1>1, <1>3 DEF LetsGoOn
  <2>3. x \in R
    BY <1>4, <2>1, <2>2 DEF Released
  <2> QED BY <2>3
<1>5. ASSUME NEW x \in D, x # s PROVE x <= (IF s \in Outputs THEN s ELSE Output(s))
  <2> DEFINE b == IF s \in Outputs THEN s ELSE Output(s)
             R == {y \in Outputs : y <= b}
  <2>1. b \in Nat /\ \A y \in Outputs : y \in Nat
    BY NAssumption DEF Outputs, Output, States
  <2>2. \A y \in Outputs : ssb[y].m_continuation # Null => ssb[y].m_continuation < y
    BY DEF Continuations
  <2>3. s \notin Outputs /\ ssb[s].m_continuation # Null => ssb[s].m_continuation = b
    BY Ranges DEF Creation
  <2> HIDE DEF b
  <2>4. s \in Outputs => s <= b
    BY <2>1 DEF b
  <2>5. ASSUME NEW y \in {s} \cup R, ssb[y].m_continuation # Null PROVE ssb[y].m_continuation \in R
    <3>1. y \in States /\ ssb[y].m_continuation \in Outputs
      BY <1>2, <2>5, Ranges
    <3>2. CASE y \in Outputs
      <4>1. y <= b
        BY <2>4, <2>5, <3>2
      <4>2. ssb[y].m_continuation < y /\ ssb[y].m_continuation \in Nat /\ y \in Nat
        BY <2>1, <2>2, <2>5, <3>1, <3>2
      <4> QED BY <2>1, <3>1, <4>1, <4>2
    <3>3. CASE y \notin Outputs
      BY <2>1, <2>3, <2>5, <3>1, <3>3
    <3> QED BY <3>2, <3>3
  <2>6. LetsGoOn({s} \cup R)
    BY <2>5 DEF LetsGoOn
  <2>7. x \in R
    BY <1>1, <1>5, <2>6 DEF Released
  <2> QED BY <2>7 DEF b
<1> QED BY <1>1, <1>3, <1>4, <1>5

(* A state that a state which is not deleted leads to is not deleted. *)
LEMMA LeadsOn ==
    ASSUME Creation, Continuations, Counts, Typed, NEW y \in States, NEW x \in States,
           ssb[y].m_refs # 0, ssb[y].m_continuation = x
    PROVE  x \in Outputs /\ x \in created /\ ssb[x].m_refs > 0
<1>1. x # Null
  BY Ranges
<1>2. CASE y \in Outputs
  BY <1>1, <1>2 DEF Continuations, Counts, OutputCount, One, Deleted
<1>3. CASE y \in Operations
  <2>1. x = Output(y) /\ x \in created
    BY <1>1, <1>3 DEF Creation
  <2>2. x \in Outputs /\ x - N = y
    BY <1>3, <2>1, Ranges
  <2> QED BY <2>1, <2>2 DEF Counts, OutputCount, One, Deleted
<1> QED BY <1>2, <1>3, Ranges

LEMMA ReleasesAlive ==
    ASSUME Typed, Creation, Continuations, Counts, NEW s \in States, ssb[s].m_refs > 0
    PROVE  \A x \in Released(s) : ssb[x].m_refs > 0
<1> SUFFICES ASSUME NEW x \in Released(s), x # s PROVE ssb[x].m_refs > 0
  OBVIOUS
<1>1. PICK y \in Released(s) : ssb[y].m_refs = 1 /\ ssb[y].m_continuation = x
  BY Releases
<1>2. x \in States /\ y \in States
  BY Releases
<1> QED BY <1>1, <1>2, LeadsOn

LEMMA Unbound ==
    ASSUME Typed, NEW s \in States, unbind(s)
    PROVE  /\ ssb' \in [States -> SharedStates]
           /\ \A x \in States : x \in Released(s) => ssb'[x].m_refs = ssb[x].m_refs - 1
           /\ \A x \in States : x \notin Released(s) => ssb'[x].m_refs = ssb[x].m_refs
           /\ \A x \in States : ssb'[x].m_state = ssb[x].m_state
           /\ \A x \in States : ssb'[x].result = ssb[x].result
           /\ \A x \in States : ssb'[x].m_callback = ssb[x].m_callback
           /\ \A x \in States : ssb'[x].m_continuation = ssb[x].m_continuation
           /\ \A x \in States : ssb'[x].m_is_just_for_continuation =
                ssb[x].m_is_just_for_continuation
<1>1. ssb' = [x \in States |-> IF x \in Released(s)
        THEN [ssb[x] EXCEPT !.m_refs = @ - 1] ELSE ssb[x]]
  BY DEF unbind
<1> HIDE DEF Released
<1>2. \A x \in States : ssb[x] \in SharedStates
  BY DEF Typed
<1>3. \A x \in States : ssb'[x] = IF x \in Released(s)
        THEN [ssb[x] EXCEPT !.m_refs = @ - 1] ELSE ssb[x]
  BY <1>1
<1>4. \A v \in SharedStates :
        LET w == [v EXCEPT !.m_refs = @ - 1]
        IN  /\ w \in SharedStates /\ w.m_refs = v.m_refs - 1 /\ w.m_state = v.m_state
            /\ w.result = v.result /\ w.m_callback = v.m_callback
            /\ w.m_continuation = v.m_continuation
            /\ w.m_is_just_for_continuation = v.m_is_just_for_continuation
  BY DEF SharedStates
<1>5. \A x \in States : ssb'[x] \in SharedStates
  BY <1>2, <1>3, <1>4
<1> QED BY <1>1, <1>2, <1>3, <1>4, <1>5

(* A reference to s is given up. *)
LEMMA Unbinding ==
    ASSUME Typed, Creation, Continuations, Counts, NEW s \in States, s \in created,
           ssb[s].m_refs > 0,
           unbind(s), created' = created,
           \A k \in Operations : (\E p \in Places : Completing(Frame(p), k))
                                   => k \in created \/ \E p \in Places : Completing(Frame(p), k)',
           \A k \in Operations : IF k = s THEN OperationCount(k)' = OperationCount(k) - 1
                                          ELSE OperationCount(k)' = OperationCount(k),
           \A x \in Outputs : IF x = s THEN /\ \E p \in Places : Held(Frame(p), x)
                                            /\ ~\E p \in Places : Held(Frame(p), x)'
                              ELSE (\E p \in Places : Held(Frame(p), x)')
                                      <=> \E p \in Places : Held(Frame(p), x)
    PROVE  Counts'
<1>1. /\ \A x \in States : x \in Released(s) => ssb'[x].m_refs = ssb[x].m_refs - 1
      /\ \A x \in States : x \notin Released(s) => ssb'[x].m_refs = ssb[x].m_refs
      /\ \A x \in States : ssb'[x].m_continuation = ssb[x].m_continuation
  BY Unbound
<1>2. /\ s \in Released(s)
      /\ \A x \in Released(s) : ssb[x].m_refs > 0 /\ x \in States /\ (x # s => x \in Outputs)
  BY Releases, ReleasesAlive
<1>3. \A x \in States : ssb[x].m_refs \in Int
  BY DEF Typed, SharedStates
<1>4. \A x \in States : Deleted(x)' <=> Deleted(x) \/ (x \in Released(s) /\ ssb[x].m_refs = 1)
  <2> SUFFICES ASSUME NEW x \in States
               PROVE  Deleted(x)' <=> Deleted(x) \/ (x \in Released(s) /\ ssb[x].m_refs = 1)
    OBVIOUS
  <2>1. PICK n \in Int : n = ssb[x].m_refs
    BY <1>3
  <2>2. CASE x \in Released(s)
    BY <1>1, <1>2, <2>1, <2>2 DEF Deleted
  <2>3. CASE x \notin Released(s)
    BY <1>1, <2>3 DEF Deleted
  <2> QED BY <2>2, <2>3
<1>5. ASSUME NEW k \in Operations
      PROVE  IF k \in created' THEN ssb'[k].m_refs = OperationCount(k)'
                               ELSE \E p \in Places : Completing(Frame(p), k)'
  <2>1. k \in States /\ (k \in Released(s) <=> k = s)
    BY <1>2, Ranges
  <2> QED BY <1>1, <1>2, <2>1 DEF Counts
<1>6. ASSUME NEW x \in Outputs, x \in created PROVE ssb'[x].m_refs = OutputCount(x)'
  <2>1. /\ x \in States /\ x # Null /\ x - N \in Operations /\ x - N \in States /\
             x - N \notin Outputs
        /\ Output(x - N) = x
    BY Ranges
  <2>2. PICK j \in Operations : j = x - N /\ j \in States /\ j \notin Outputs /\ Output(j) = x
    BY <2>1
  <2>3. ssb[j].m_continuation = x
    BY <1>6, <2>2 DEF Creation
  <2> DEFINE h == \E p \in Places : Held(Frame(p), x)
             f == \E y \in Outputs : ssb[y].m_continuation = x /\ ~Deleted(y)
             g == \E y \in Outputs : ssb[y].m_continuation = x /\ ~Deleted(y)'
  <2>4. ssb[x].m_refs = One(h) + One(~Deleted(j)) + One(f)
    BY <1>6, <2>2 DEF Counts, OutputCount
  <2>5. g <=> \E y \in Outputs : ssb'[y].m_continuation = x /\ ~Deleted(y)'
    BY <1>1, Ranges
  <2>6. OutputCount(x)' = One(\E p \in Places : Held(Frame(p), x)') + One(~Deleted(j)') + One(g)
    BY <2>2, <2>5 DEF OutputCount, One
  <2>7. \A y, z \in Outputs : ssb[y].m_continuation = x /\ ssb[z].m_continuation = x => y = z
    BY <2>1 DEF Continuations
  <2>8. g <=> f /\ ~\E y \in Released(s) : y \in Outputs /\ ssb[y].m_refs = 1 /\
          ssb[y].m_continuation = x
    BY <1>4, <2>7, Ranges DEF Deleted
  <2>9. ASSUME NEW y \in Released(s), y \in Outputs, ssb[y].m_continuation = x
        PROVE  x < (IF s \in Outputs THEN s ELSE Output(s))
    <3>1. x < y
      BY <2>1, <2>9 DEF Continuations
    <3>2. y = s \/ y <= (IF s \in Outputs THEN s ELSE Output(s))
      BY Releases
    <3>3. x \in Nat /\ y \in Nat /\ Output(s) \in Nat /\ s \in Nat
      BY <2>9, NAssumption DEF Outputs, Output, States
    <3>4. CASE y = s
      BY <2>9, <3>1, <3>4
    <3>5. CASE y <= (IF s \in Outputs THEN s ELSE Output(s))
      <4> DEFINE b == IF s \in Outputs THEN s ELSE Output(s)
      <4>1. b \in Nat /\ y <= b
        BY <3>3, <3>5
      <4> HIDE DEF b
      <4>2. x < b
        BY <3>1, <3>3, <4>1
      <4> QED BY <4>2 DEF b
    <3> QED BY <3>2, <3>4, <3>5
  <2>10. CASE x \notin Released(s)
    <3>1. x # s
      BY <1>2, <2>10
    <3>2. \A y \in Released(s) : ~(ssb[y].m_refs = 1 /\ ssb[y].m_continuation = x)
      BY <2>1, <2>10, Releases
    <3>3. g <=> f
      BY <2>8, <3>2
    <3>4. Deleted(j)' <=> Deleted(j)
      BY <1>4, <2>2, <2>3, <3>2
    <3>5. (\E p \in Places : Held(Frame(p), x)') <=> h
      BY <3>1
    <3>6. ssb'[x].m_refs = ssb[x].m_refs
      BY <1>1, <2>1, <2>10
    <3> QED BY <2>4, <2>6, <3>3, <3>4, <3>5, <3>6 DEF One
  <2>11. CASE x = s
    <3>1. ~\E y \in Released(s) : y \in Outputs /\ ssb[y].m_refs = 1 /\ ssb[y].m_continuation = x
      <4>1. x \in Nat
        BY NAssumption DEF Outputs
      <4> QED BY <2>9, <2>11, <4>1
    <3>2. g <=> f
      BY <2>8, <3>1
    <3>3. Deleted(j)' <=> Deleted(j)
      BY <1>2, <1>4, <2>2, <2>11
    <3>4. h /\ ~\E p \in Places : Held(Frame(p), x)'
      BY <2>11
    <3>5. ssb'[x].m_refs = ssb[x].m_refs - 1
      BY <1>1, <1>2, <2>1, <2>11
    <3> QED BY <2>4, <2>6, <3>2, <3>3, <3>4, <3>5 DEF One
  <2>12. CASE x \in Released(s) /\ x # s
    <3>1. PICK y \in Released(s) : ssb[y].m_refs = 1 /\ ssb[y].m_continuation = x
      BY <2>12, Releases
    <3>2. (\E p \in Places : Held(Frame(p), x)') <=> h
      BY <2>12
    <3>3. ssb'[x].m_refs = ssb[x].m_refs - 1
      BY <1>1, <2>1, <2>12
    <3>4. CASE y \in Outputs
      <4>1. f /\ ~g
        BY <2>8, <3>1, <3>4 DEF Deleted
      <4>2. j # s
        <5>1. ~(x < x)
          BY NAssumption DEF Outputs
        <5> QED BY <2>2, <2>9, <3>1, <3>4, <5>1
      <4>3. Deleted(j)' <=> Deleted(j)
        BY <1>2, <1>4, <2>2, <4>2
      <4> QED BY <2>4, <2>6, <3>2, <3>3, <4>1, <4>3 DEF One
    <3>5. CASE y \notin Outputs
      <4>1. y = s /\ y \in Operations
        BY <1>2, <3>5, Ranges
      <4>2. y = j
        BY <2>1, <2>2, <3>1, <4>1, Ranges DEF Creation
      <4>3. ~Deleted(j) /\ Deleted(j)'
        BY <1>4, <2>2, <3>1, <4>2 DEF Deleted
      <4>4. ~\E z \in Released(s) : z \in Outputs /\ ssb[z].m_refs = 1 /\ ssb[z].m_continuation = x
        <5>1. ~(x < x)
          BY NAssumption DEF Outputs
        <5> QED BY <2>2, <2>9, <4>1, <4>2, <5>1
      <4>5. g <=> f
        BY <2>8, <4>4
      <4> QED BY <2>4, <2>6, <3>2, <3>3, <4>3, <4>5 DEF One
    <3> QED BY <3>4, <3>5
  <2> QED BY <2>10, <2>11, <2>12
<1> QED BY <1>5, <1>6 DEF Counts

(* A step that gives up one reference, and the states that go with it. *)
Loses(b, r, s) ==
    /\ \A x \in States : Looping(b, x) <=> x = s /\ b.op = "loop"
    /\ \A x \in States : Completing(b, x) <=> x = s /\ b.op = "complete"
    /\ \A x \in States : Held(b, x) <=> \/ Held(r, x)
                                        \/ x = s /\ b.op \in {"propagate", "get_async"}
    /\ ~Held(r, s)
    /\ IF s \in Outputs THEN Held(b, s) ELSE Looping(b, s) \/ Completing(b, s)

LEMMA Dropping ==
    ASSUME IInv, NEW t \in Threads, stack[t] # <<>>, NEW b, NEW g, Known(t, b, g), g = NoCall,
           NEW r, Steps(t, NoCall, NoCall, r), Lawful(t, b, g, NoCall, NoCall, r),
           NEW s \in States, s \in created, unbind(s), Loses(b, r, s),
           created' = created, called_on' = called_on, returned' \in [Threads -> Futures],
           expected' = expected, delivered' = delivered, overtaken' = overtaken
    PROVE  IInv' /\ Outlook(t)
<1> USE DEF IInv
<1>1. b = Top(t) /\ g = Answer(t) /\ g.op \in {"none", "returned"} /\ r.op \in {"none", "returned"}
  BY Nothing, Returned DEF Known, Lawful, HookStep
<1>2. ssb[s].m_refs > 0
  BY <1>1, TopAlive, Ranges DEF Loses
<1>3. ASSUME NEW x \in States, x \notin created PROVE x \notin Released(s)
  <2>1. ssb[x].m_refs = 0
    BY <1>3, Untouched
  <2>2. x \in Released(s) => ssb[x].m_refs > 0
    BY <1>2, ReleasesAlive
  <2> QED BY <2>1, <2>2
<1>4. Effect(b, g)
  BY <1>3, Unbound, Resting
<1>5. Typed'
  BY Unbound DEF Typed, Steps, Stepping
<1>6. ASSUME NEW x \in States
      PROVE  /\ Completed(x)' <=> Completed(x) /\ ~(x = s /\ b.op = "complete")
             /\ Looped(x)' <=> Looped(x) /\ ~(x = s /\ b.op = "loop")
             /\ HeldSomewhere(x)' <=> /\ HeldSomewhere(x)
                                      /\ ~(x = s /\ b.op \in {"propagate", "get_async"})
  <2>1. /\ Completed(x)' <=> \/ Completing(NoCall, x) \/ Completing(NoCall, x)
                             \/ Completed(x) /\ ~Completing(b, x)
        /\ Looped(x)' <=> \/ Looping(NoCall, x) \/ Looping(NoCall, x)
                          \/ Looped(x) /\ ~Looping(b, x)
        /\ HeldSomewhere(x)' <=> \/ Held(NoCall, x) \/ Held(NoCall, x) \/ Held(r, x)
                                 \/ HeldSomewhere(x) /\ ~Held(b, x) /\ ~Held(g, x)
    BY <1>1, Whereabouts
  <2>2. ~Completing(NoCall, x) /\ ~Looping(NoCall, x) /\ ~Held(NoCall, x) /\ ~Held(g, x)
    BY Nothing DEF Completing, Looping, Held
  <2>3. Held(b, x) => HeldSomewhere(x)
    BY <1>1, TopAlive
  <2>4. /\ Looping(b, x) <=> x = s /\ b.op = "loop"
        /\ Completing(b, x) <=> x = s /\ b.op = "complete"
        /\ Held(b, x) <=> Held(r, x) \/ (x = s /\ b.op \in {"propagate", "get_async"})
        /\ x = s => ~Held(r, x)
    BY DEF Loses
  <2>5. HeldSomewhere(x)' <=> /\ HeldSomewhere(x)
                              /\ ~(x = s /\ b.op \in {"propagate", "get_async"})
    BY <2>1, <2>2, <2>3, <2>4, Zenon
  <2> QED BY <2>1, <2>2, <2>4, <2>5, Zenon
<1>7. Counts'
  <2>1. ASSUME NEW k \in Operations
        PROVE  /\ OperationCount(k) = One(Completed(k)) + One(Looped(k))
               /\ OperationCount(k)' = One(Completed(k)') + One(Looped(k)')
    BY DEF OperationCount, Completed, Looped
  <2>2. s \in Operations => /\ b.op = "loop" => Looped(s)
                            /\ b.op = "complete" => Completed(s)
                            /\ b.op \in {"loop", "complete"}
    BY <1>1, TopAlive, Ranges DEF Loses
  <2>3. s \in Outputs => HeldSomewhere(s) /\ b.op \in {"propagate", "get_async"}
    BY <1>1, TopAlive, Ranges DEF Loses
  <2>4. \A k \in Operations : IF k = s THEN OperationCount(k)' = OperationCount(k) - 1
                                       ELSE OperationCount(k)' = OperationCount(k)
    BY <1>6, <2>1, <2>2, Ranges DEF One
  <2>5. \A k \in Operations : Completed(k) => k \in created \/ Completed(k)'
    BY <1>6, Ranges
  <2>6. \A x \in Outputs : IF x = s THEN HeldSomewhere(x) /\ ~HeldSomewhere(x)'
                                    ELSE HeldSomewhere(x)' <=> HeldSomewhere(x)
    BY <1>6, <2>3, Ranges
  <2> QED BY <1>2, <2>4, <2>5, <2>6, Unbinding DEF Completed, HeldSomewhere
<1> QED BY <1>1, <1>4, <1>5, <1>7, Lawfully

(* A step that changes the references to an output. *)
Recounted(x) ==
    ssb'[x].m_refs = One(HeldSomewhere(x)') + One(~Deleted(x - N)) + One(LedTo(x)')

LEMMA Counted ==
    ASSUME IInv, NEW t \in Threads, NEW b, b = Top(t), NEW g, g = Answer(t),
           NEW c, NEW a, NEW r, Steps(t, c, a, r), r.op \in {"none", "returned"},
           g.op \in {"none", "returned"},
           \A x \in States : /\ Completing(c, x) \/ Completing(a, x) <=> Completing(b, x)
                             /\ Looping(c, x) \/ Looping(a, x) <=> Looping(b, x),
           \A k \in Operations : /\ ssb'[k].m_refs = ssb[k].m_refs
                                 /\ k \in created' <=> k \in created,
           \A x \in Outputs : x \in created' => Recounted(x)
    PROVE  Counts'
<1>1. ASSUME NEW k \in Operations
      PROVE  IF k \in created' THEN ssb'[k].m_refs = OperationCount(k)'
                               ELSE \E p \in Places : Completing(Frame(p), k)'
  <2>1. k \in States
    BY Ranges
  <2>2. (Completed(k)' <=> Completed(k)) /\ (Looped(k)' <=> Looped(k))
    <3>1. /\ Completed(k)' <=> \/ Completing(c, k) \/ Completing(a, k)
                               \/ Completed(k) /\ ~Completing(b, k)
          /\ Looped(k)' <=> \/ Looping(c, k) \/ Looping(a, k)
                            \/ Looped(k) /\ ~Looping(b, k)
      BY <2>1, Whereabouts
    <3>2. (Completing(b, k) => Completed(k)) /\ (Looping(b, k) => Looped(k))
      <4>1. PICK p0 \in Places, p1 \in Places, p2 \in Places : Stepping(t, p0, p1, p2, c, a, r)
        BY DEF Steps
      <4>2. Frame(p1) = b
        BY <4>1 DEF Stepping, Answer
      <4> QED BY <4>2, Zenon DEF Completed, Looped
    <3> QED BY <2>1, <3>1, <3>2, Zenon
  <2>3. /\ OperationCount(k)' = One(Completed(k)') + One(Looped(k)')
        /\ OperationCount(k) = One(Completed(k)) + One(Looped(k))
        /\ Completed(k)' <=> \E p \in Places : Completing(Frame(p), k)'
    BY DEF OperationCount, Completed, Looped
  <2>4. IF k \in created THEN ssb[k].m_refs = OperationCount(k) ELSE Completed(k)
    BY DEF IInv, Counts, Completed
  <2>5. OperationCount(k)' = OperationCount(k)
    BY <2>2, <2>3 DEF One
  <2> QED BY <2>2, <2>3, <2>4, <2>5
<1>2. ASSUME NEW x \in Outputs, x \in created' PROVE ssb'[x].m_refs = OutputCount(x)'
  <2>1. OutputCount(x)' = One(HeldSomewhere(x)') + One(~Deleted(x - N)') + One(LedTo(x)')
    BY DEF OutputCount, HeldSomewhere, LedTo
  <2>2. ssb'[x].m_refs = One(HeldSomewhere(x)') + One(~Deleted(x - N)) + One(LedTo(x)')
    BY <1>2, Zenon DEF Recounted
  <2>3. Deleted(x - N)' <=> Deleted(x - N)
    BY Ranges DEF Deleted
  <2> QED BY <2>1, <2>2, <2>3 DEF One
<1> QED BY <1>1, <1>2 DEF Counts

-----------------------------------------------------------------------------
(* The operations, one by one.  First those that change no state, ...       *)

LEMMA TakeFuture ==
    ASSUME IInv, NEW t \in Threads, take_future(t)
    PROVE  IInv' /\ Outlook(t)
<1>1. PICK b, g : Known(t, b, g)
  BY TopFacts DEF IInv, take_future, At
<1>2. /\ b = Top(t) /\ stack[t] # <<>> /\ b \in Calls /\ b.op = "loop" /\ b.pc = "take"
      /\ b.k \in Operations /\ returned[t] \in Futures /\ g.op = "returned"
      /\ g.future = returned[t]
      /\ ~g.future.ready => g.future.state \in Outputs /\ g.future.state > Output(b.k)
  BY <1>1, Ranges, Returned DEF IInv, Known, At, ProperCall, Waits, take_future
<1>3. PICK c \in Calls :
         /\ Steps(t, c, NoCall, NoCall)
         /\ c.op = "loop" /\ c.pc = "drop" /\ c.k = b.k /\ c.future = g.future
  <2> DEFINE c == Holds(t, returned[t])
  <2>1. c \in Calls /\ c.op = "loop" /\ c.pc = "drop" /\ c.k = b.k /\ c.future = g.future
    BY <1>2, HoldsCall, NewFuture, Ranges
  <2>2. Becomes(t, <<c>>) /\ \A u \in Threads \ {t} : returned'[u] = returned[u]
    BY <1>2 DEF take_future, LoopGoesOn
  <2> HIDE DEF c
  <2> QED BY <1>2, <2>1, <2>2, Replaces DEF IInv, Waits
<1>4. ssb' = ssb /\ created' = created /\ LoopGoesOn
  BY <1>2 DEF take_future, LoopGoesOn
<1>5. Lawful(t, b, g, c, NoCall, NoCall)
  <2> USE <1>1, <1>2, <1>3, <1>4, Nothing
  <2>1. ProperStep(b, c, NoCall, NoCall)
    BY ProperNothing, NAssumption
     DEF Known, ProperStep, ProperCall, Kinds, Output, Outputs, Operations
  <2>2. Fits(b, c, NoCall, NoCall)
    BY DEF Fits, Stacked, Waits, Completing
  <2>3. UserStep(b, g, c, NoCall, NoCall)
    BY DEF Known, UserStep, Own, UserOf, Uses, Opens, Handles, Held
  <2>4. MakerStep(b, c, NoCall)
    BY DEF Known, MakerStep, MakerOf, Makes, Feeds
  <2>5. HookStep(b, g, c, NoCall, NoCall)
    BY Ranges DEF Known, HookStep, Own, Clean, Fresh, Hooks, Held
  <2>6. HolderStep(b, g, c, NoCall, NoCall)
    BY DEF Known, HolderStep, Held
  <2>7. RoundStep(b, c, NoCall)
    BY DEF Known, RoundStep, RoundOf, Past
  <2>8. KeptStep(b, c, NoCall)
    BY DEF KeptStep
  <2>9. CargoStep(b, g, c, NoCall, NoCall)
    <3>1. /\ ~Begins(b) /\ ~Begins(c) /\ ~Begins(NoCall)
          /\ ~Carrying(b) /\ ~Carrying(NoCall)
          /\ (Carrying(g) <=> g.future.ready) /\ (Carrying(c) <=> g.future.ready)
      BY DEF Carrying, Begins
    <3>2. expected' = expected /\ delivered' = delivered
      BY DEF take_future, LoopGoesOn
    <3>3. GoesOn(b, c, NoCall)
      BY <3>1, <3>2, Ranges, Onward DEF Unmoved
    <3>4. \A z \in Outputs : ssb'[z].result = ssb[z].result
      BY Ranges
    <3>5. CASE ~g.future.ready
      <4>1. Idle(b, g, c, NoCall, NoCall)
        BY <3>1, <3>2, <3>3, <3>4, <3>5 DEF Idle
      <4> QED BY <4>1 DEF CargoStep
    <3>6. CASE g.future.ready
      <4>1. g.future.outcome \in Outcomes
        BY <3>6 DEF Futures
      <4>2. Taken(b, g, c, NoCall, Null, g.future.outcome)
        BY <3>1, <3>3, <3>6 DEF Taken
      <4>3. Put(b, c, NoCall, NoCall, Null, g.future.outcome)
        BY <3>1, <3>2, <3>6 DEF Put
      <4> QED BY <3>4, <4>1, <4>2, <4>3 DEF CargoStep, Hands
    <3> QED BY <3>5, <3>6
  <2>10. AttendStep(b, g, c, NoCall, NoCall)
    BY DEF AttendStep, Own, Uses, Opens, Handles, Held, Makes, Full
  <2>11. LinkStep(t, b, c, NoCall, NoCall)
    BY Ranges DEF LinkStep, Held, Asks
  <2> QED BY <2>1, <2>2, <2>3, <2>4, <2>5, <2>6, <2>7, <2>8, <2>9, <2>10, <2>11 DEF Lawful
<1>6. HoldStep(b, g, c, NoCall, NoCall)
  BY <1>2, <1>3, Nothing DEF HoldStep, Completing, Looping, Held
<1> QED BY <1>1, <1>3, <1>4, <1>5, <1>6, Quietly

LEMMA ThenCasMissed ==
    ASSUME IInv, NEW t \in Threads, then_cas(t), ssb[Op(t)].m_state # "Init"
    PROVE  IInv' /\ Outlook(t)
<1>1. PICK b, g : Known(t, b, g)
  BY TopFacts DEF IInv, then_cas, At
<1>2. /\ b = Top(t) /\ stack[t] # <<>> /\ b \in Calls /\ b.op = "loop" /\ b.pc = "cas"
      /\ b.k \in Operations /\ b.k \in 0..N /\ Op(t) = b.k /\ g = NoCall
      /\ ssb[b.k].m_state = "Finished" /\ ssb[b.k].m_callback # "none" /\ Output(b.k) \in created
  BY <1>1, Ranges DEF IInv, Known, At, ProperCall, Waits, then_cas, Op, Operation, Operations,
     CompareExchange, RoundOf, Creation
<1>3. PICK a \in Calls, c \in Calls :
         /\ Steps(t, c, a, NoCall)
         /\ c.op = "loop" /\ c.pc = "drop" /\ c.k = b.k /\ ~c.future.ready /\ c.future.state = Output(b.k)
         /\ a.op = "step" /\ a.pc = "start" /\ a.k = b.k
  <2> DEFINE c == Holds(t, Deferred(Output(b.k)))
             a == Step(b.k)
  <2>1. /\ c \in Calls /\ c.op = "loop" /\ c.pc = "drop" /\ c.k = b.k /\ ~c.future.ready
        /\ c.future.state = Output(b.k)
    BY <1>2, HoldsCall, NewFuture, Ranges
  <2>2. a \in Calls /\ a.op = "step" /\ a.pc = "start" /\ a.k = b.k
    BY <1>2, NewCall
  <2>3. <<a>> \o <<c>> = <<a, c>>
    BY <2>1, <2>2, Two
  <2>4. Becomes(t, <<a, c>>) /\ \A u \in Threads \ {t} : returned'[u] = returned[u]
    BY <1>2, <2>3 DEF then_cas, LoopGoesOn, CompareExchange
  <2> HIDE DEF c, a
  <2> QED BY <1>2, <2>1, <2>2, <2>4, Pushes DEF IInv, Waits
<1>4. ssb' = ssb /\ created' = created /\ LoopGoesOn
  BY <1>2 DEF then_cas, LoopGoesOn, CompareExchange
<1>5. Lawful(t, b, g, c, a, NoCall)
  <2> USE <1>1, <1>2, <1>3, <1>4, Nothing
  <2>1. ProperStep(b, c, a, NoCall)
    <3>1. Output(b.k) \in Outputs /\ Output(b.k) >= Output(b.k)
      BY Ranges, NAssumption DEF Output, Operations
    <3> QED BY <1>2, <1>3, <3>1, Nothing, ProperNothing DEF ProperStep, ProperCall, Kinds
  <2>2. Fits(b, c, a, NoCall)
    BY DEF Fits, Stacked, Waits, Completing
  <2>3. UserStep(b, g, c, a, NoCall)
    BY Ranges DEF Known, UserStep, Own, UserOf, Uses, Opens, Handles, Held
  <2>4. MakerStep(b, c, a)
    BY DEF Known, MakerStep, MakerOf, Makes, Feeds
  <2>5. HookStep(b, g, c, a, NoCall)
    BY Ranges DEF Known, HookStep, Own, Clean, Fresh, Hooks, Held
  <2>6. HolderStep(b, g, c, a, NoCall)
    BY DEF Known, HolderStep, Held
  <2>7. RoundStep(b, c, a)
    BY DEF Known, RoundStep, RoundOf, Past
  <2>8. KeptStep(b, c, a)
    BY DEF KeptStep
  <2>9. Idle(b, g, c, a, NoCall)
    BY DEF Idle, Carrying, GoesOn, Begins, Unmoved, LoopGoesOn
  <2>10. AttendStep(b, g, c, a, NoCall)
    BY DEF AttendStep, Own, Uses, Opens, Handles, Held, Makes, Full
  <2>11. LinkStep(t, b, c, a, NoCall)
    BY Ranges DEF LinkStep, Held, Asks
  <2> QED BY <2>1, <2>2, <2>3, <2>4, <2>5, <2>6, <2>7, <2>8, <2>9, <2>10, <2>11
        DEF Lawful, CargoStep
<1>6. HoldStep(b, g, c, a, NoCall)
  BY <1>2, <1>3, Nothing DEF HoldStep, Completing, Looping, Held
<1> QED BY <1>1, <1>3, <1>4, <1>5, <1>6, Quietly

LEMMA ThenNotReady ==
    ASSUME IInv, NEW t \in Threads, then_not_ready(t)
    PROVE  IInv' /\ Outlook(t)
<1>1. PICK b, g : Known(t, b, g)
  BY TopFacts DEF IInv, then_not_ready, At
<1>2. /\ b = Top(t) /\ stack[t] # <<>> /\ b \in Calls /\ b.op = "loop" /\ b.pc = "load"
      /\ b.k \in Operations /\ g = NoCall
  BY <1>1, Ranges DEF IInv, Known, At, ProperCall, Waits, then_not_ready
<1>3. PICK c \in Calls :
         /\ Steps(t, c, NoCall, NoCall)
         /\ c.op = b.op /\ c.pc = "attach" /\ c.k = b.k /\ c.future = b.future /\ c.output = b.output
  <2> DEFINE c == [Top(t) EXCEPT !.pc = "attach"]
  <2>1. /\ c \in Calls /\ c.op = b.op /\ c.pc = "attach" /\ c.k = b.k /\ c.future = b.future
        /\ c.output = b.output
    BY <1>2 DEF Calls, Pcs
  <2>2. Becomes(t, <<c>>) /\ \A u \in Threads \ {t} : returned'[u] = returned[u]
    BY <1>2 DEF then_not_ready, LoopGoesOn, Goes
  <2> HIDE DEF c
  <2> QED BY <1>2, <2>1, <2>2, Replaces DEF IInv, Waits
<1>4. ssb' = ssb /\ created' = created /\ LoopGoesOn
  BY <1>2 DEF then_not_ready, LoopGoesOn
<1>5. Lawful(t, b, g, c, NoCall, NoCall)
  <2> USE <1>1, <1>2, <1>3, <1>4, Nothing
  <2>1. ProperStep(b, c, NoCall, NoCall)
    BY ProperNothing, NAssumption DEF Known, ProperStep, ProperCall, Kinds
  <2>2. Fits(b, c, NoCall, NoCall)
    BY DEF Fits, Stacked, Waits, Completing
  <2>3. UserStep(b, g, c, NoCall, NoCall)
    BY DEF Known, UserStep, Own, UserOf, Uses, Opens, Handles, Held
  <2>4. MakerStep(b, c, NoCall)
    BY DEF Known, MakerStep, MakerOf, Makes, Feeds
  <2>5. HookStep(b, g, c, NoCall, NoCall)
    BY Ranges DEF Known, HookStep, Own, Clean, Fresh, Hooks, Held
  <2>6. HolderStep(b, g, c, NoCall, NoCall)
    BY DEF Known, HolderStep, Held
  <2>7. RoundStep(b, c, NoCall)
    BY DEF Known, RoundStep, RoundOf, Past
  <2>8. KeptStep(b, c, NoCall)
    BY DEF KeptStep
  <2>9. Idle(b, g, c, NoCall, NoCall)
    BY DEF Idle, Carrying, GoesOn, Begins, Unmoved, LoopGoesOn
  <2>10. AttendStep(b, g, c, NoCall, NoCall)
    BY DEF AttendStep, Own, Uses, Opens, Handles, Held, Makes, Full
  <2>11. LinkStep(t, b, c, NoCall, NoCall)
    BY Ranges DEF LinkStep, Held, Asks
  <2> QED BY <2>1, <2>2, <2>3, <2>4, <2>5, <2>6, <2>7, <2>8, <2>9, <2>10, <2>11
        DEF Lawful, CargoStep
<1>6. HoldStep(b, g, c, NoCall, NoCall)
  BY <1>2, <1>3, Nothing DEF HoldStep, Completing, Looping, Held
<1> QED BY <1>1, <1>3, <1>4, <1>5, <1>6, Quietly

LEMMA StepPropagates ==
    ASSUME IInv, NEW t \in Threads, step_propagates(t)
    PROVE  IInv' /\ Outlook(t)
<1>1. PICK b, g : Known(t, b, g)
  BY TopFacts DEF IInv, step_propagates, At
<1>2. /\ b = Top(t) /\ stack[t] # <<>> /\ b \in Calls /\ b.op = "step" /\ b.pc = "propagate"
      /\ b.k \in Operations /\ Target(t) = Output(b.k) /\ b.output = Output(b.k)
      /\ returned[t] \in Futures /\ g.op = "returned" /\ g.future = returned[t]
      /\ ~g.future.ready => g.future.state \in Outputs /\ g.future.state > Output(b.k)
  BY <1>1, Ranges, Returned DEF IInv, Known, At, ProperCall, Waits, step_propagates, Target
<1>3. PICK c \in Calls :
         /\ Steps(t, c, NoCall, NoCall)
         /\ c.op = "propagate" /\ c.pc = "load" /\ c.future = g.future /\ c.output = Output(b.k)
  <2> DEFINE c == Propagate(returned[t], Target(t))
  <2>1. /\ c \in Calls /\ c.op = "propagate" /\ c.pc = "load" /\ c.future = g.future
        /\ c.output = Output(b.k)
    BY <1>2, NewCall, Ranges
  <2>2. Becomes(t, <<c>>) /\ \A u \in Threads \ {t} : returned'[u] = returned[u]
    BY <1>2 DEF step_propagates, LoopGoesOn
  <2> HIDE DEF c
  <2> QED BY <1>2, <2>1, <2>2, Replaces DEF IInv, Waits
<1>4. ssb' = ssb /\ created' = created /\ LoopGoesOn
  BY <1>2 DEF step_propagates, LoopGoesOn
<1>5. Lawful(t, b, g, c, NoCall, NoCall)
  <2> USE <1>1, <1>2, <1>3, <1>4, Nothing
  <2>1. ProperStep(b, c, NoCall, NoCall)
    BY ProperNothing, NAssumption, Ranges DEF Known, ProperStep, ProperCall, Kinds
  <2>2. Fits(b, c, NoCall, NoCall)
    BY DEF Fits, Stacked, Waits, Completing
  <2>3. UserStep(b, g, c, NoCall, NoCall)
    BY DEF Known, UserStep, Own, UserOf, Uses, Opens, Handles, Held
  <2>4. MakerStep(b, c, NoCall)
    BY DEF Known, MakerStep, MakerOf, Makes, Feeds
  <2>5. HookStep(b, g, c, NoCall, NoCall)
    BY Ranges DEF Known, HookStep, Own, Clean, Fresh, Hooks, Held
  <2>6. HolderStep(b, g, c, NoCall, NoCall)
    BY DEF Known, HolderStep, Held
  <2>7. RoundStep(b, c, NoCall)
    BY Ranges DEF Known, RoundStep, RoundOf, Past
  <2>8. KeptStep(b, c, NoCall)
    BY DEF KeptStep
  <2>9. CargoStep(b, g, c, NoCall, NoCall)
    <3>1. /\ ~Begins(b) /\ ~Begins(c) /\ ~Begins(NoCall)
          /\ ~Carrying(b) /\ ~Carrying(NoCall)
          /\ (Carrying(g) <=> g.future.ready) /\ (Carrying(c) <=> g.future.ready)
      BY DEF Carrying, Begins
    <3>2. expected' = expected /\ delivered' = delivered
      BY DEF step_propagates, LoopGoesOn
    <3>3. GoesOn(b, c, NoCall)
      BY <3>1, <3>2, Ranges, Onward DEF Unmoved
    <3>4. \A z \in Outputs : ssb'[z].result = ssb[z].result
      BY Ranges
    <3>5. CASE ~g.future.ready
      <4>1. Idle(b, g, c, NoCall, NoCall)
        BY <3>1, <3>2, <3>3, <3>4, <3>5 DEF Idle
      <4> QED BY <4>1 DEF CargoStep
    <3>6. CASE g.future.ready
      <4>1. g.future.outcome \in Outcomes
        BY <3>6 DEF Futures
      <4>2. Taken(b, g, c, NoCall, Null, g.future.outcome)
        BY <3>1, <3>3, <3>6 DEF Taken
      <4>3. Put(b, c, NoCall, NoCall, Null, g.future.outcome)
        BY <3>1, <3>2, <3>6 DEF Put
      <4> QED BY <3>4, <4>1, <4>2, <4>3 DEF CargoStep, Hands
    <3> QED BY <3>5, <3>6
  <2>10. AttendStep(b, g, c, NoCall, NoCall)
    BY DEF AttendStep, Own, Uses, Opens, Handles, Held, Makes, Full
  <2>11. LinkStep(t, b, c, NoCall, NoCall)
    BY Ranges DEF LinkStep, Held, Asks
  <2> QED BY <2>1, <2>2, <2>3, <2>4, <2>5, <2>6, <2>7, <2>8, <2>9, <2>10, <2>11 DEF Lawful
<1>6. HoldStep(b, g, c, NoCall, NoCall)
  BY <1>2, <1>3, Nothing DEF HoldStep, Completing, Looping, Held
<1> QED BY <1>1, <1>3, <1>4, <1>5, <1>6, Quietly

LEMMA PropagateNotReady ==
    ASSUME IInv, NEW t \in Threads, propagate_not_ready(t)
    PROVE  IInv' /\ Outlook(t)
<1>1. PICK b, g : Known(t, b, g)
  BY TopFacts DEF IInv, propagate_not_ready, At
<1>2. /\ b = Top(t) /\ stack[t] # <<>> /\ b \in Calls /\ b.op = "propagate" /\ b.pc = "load"
      /\ ~b.future.ready /\ g = NoCall
  BY <1>1, Ranges DEF IInv, Known, At, ProperCall, Waits, propagate_not_ready, IsReady, Future
<1>3. PICK c \in Calls :
         /\ Steps(t, c, NoCall, NoCall)
         /\ c.op = b.op /\ c.pc = "test" /\ c.k = b.k /\ c.future = b.future /\ c.output = b.output
  <2> DEFINE c == [Top(t) EXCEPT !.pc = "test"]
  <2>1. /\ c \in Calls /\ c.op = b.op /\ c.pc = "test" /\ c.k = b.k /\ c.future = b.future
        /\ c.output = b.output
    BY <1>2 DEF Calls, Pcs
  <2>2. Becomes(t, <<c>>) /\ \A u \in Threads \ {t} : returned'[u] = returned[u]
    BY <1>2 DEF propagate_not_ready, LoopGoesOn, Goes
  <2> HIDE DEF c
  <2> QED BY <1>2, <2>1, <2>2, Replaces DEF IInv, Waits
<1>4. ssb' = ssb /\ created' = created /\ LoopGoesOn
  BY <1>2 DEF propagate_not_ready, LoopGoesOn
<1>5. Lawful(t, b, g, c, NoCall, NoCall)
  <2> USE <1>1, <1>2, <1>3, <1>4, Nothing
  <2>1. ProperStep(b, c, NoCall, NoCall)
    BY ProperNothing, NAssumption DEF Known, ProperStep, ProperCall, Kinds
  <2>2. Fits(b, c, NoCall, NoCall)
    BY DEF Fits, Stacked, Waits, Completing
  <2>3. UserStep(b, g, c, NoCall, NoCall)
    BY DEF Known, UserStep, Own, UserOf, Uses, Opens, Handles, Held
  <2>4. MakerStep(b, c, NoCall)
    BY DEF Known, MakerStep, MakerOf, Makes, Feeds
  <2>5. HookStep(b, g, c, NoCall, NoCall)
    BY Ranges DEF Known, HookStep, Own, Clean, Fresh, Hooks, Held
  <2>6. HolderStep(b, g, c, NoCall, NoCall)
    BY DEF Known, HolderStep, Held
  <2>7. RoundStep(b, c, NoCall)
    BY DEF Known, RoundStep, RoundOf, Past
  <2>8. KeptStep(b, c, NoCall)
    BY DEF KeptStep
  <2>9. Idle(b, g, c, NoCall, NoCall)
    BY DEF Idle, Carrying, GoesOn, Begins, Unmoved, LoopGoesOn
  <2>10. AttendStep(b, g, c, NoCall, NoCall)
    BY DEF AttendStep, Own, Uses, Opens, Handles, Held, Makes, Full
  <2>11. LinkStep(t, b, c, NoCall, NoCall)
    BY Ranges DEF LinkStep, Held, Asks
  <2> QED BY <2>1, <2>2, <2>3, <2>4, <2>5, <2>6, <2>7, <2>8, <2>9, <2>10, <2>11
        DEF Lawful, CargoStep
<1>6. HoldStep(b, g, c, NoCall, NoCall)
  BY <1>2, <1>3, Nothing DEF HoldStep, Completing, Looping, Held
<1> QED BY <1>1, <1>3, <1>4, <1>5, <1>6, Quietly

LEMMA Tests ==
    ASSUME IInv, NEW t \in Threads, test_just_for_continuation(t)
    PROVE  IInv' /\ Outlook(t)
<1>1. PICK b, g : Known(t, b, g)
  BY TopFacts DEF IInv, test_just_for_continuation, At
<1>2. /\ b = Top(t) /\ stack[t] # <<>> /\ b \in Calls /\ b.op = "propagate" /\ b.pc = "test"
      /\ g = NoCall
  BY <1>1, Ranges DEF IInv, Known, At, ProperCall, Waits, test_just_for_continuation
<1>3. PICK c \in Calls :
         /\ Steps(t, c, NoCall, NoCall)
         /\ c.op = b.op /\ c.k = b.k /\ c.future = b.future /\ c.output = b.output
         /\ c.pc \in {"bypass", "bind"}
         /\ c.pc = "bypass" => ssb[b.output].m_is_just_for_continuation
         /\ c.pc = "bind" => ~ssb[b.output].m_is_just_for_continuation
  <2> DEFINE c == [Top(t) EXCEPT !.pc = IF ssb[Target(t)].m_is_just_for_continuation
                                   THEN "bypass" ELSE "bind"]
  <2>1. /\ c \in Calls /\ c.op = b.op /\ c.k = b.k /\ c.future = b.future /\ c.output = b.output
        /\ c.pc \in {"bypass", "bind"}
        /\ (c.pc = "bypass" => ssb[b.output].m_is_just_for_continuation)
        /\ (c.pc = "bind" => ~ssb[b.output].m_is_just_for_continuation)
    BY <1>2 DEF Calls, Pcs, Target
  <2>2. Becomes(t, <<c>>) /\ \A u \in Threads \ {t} : returned'[u] = returned[u]
    BY <1>2 DEF test_just_for_continuation, LoopGoesOn, Goes, Tested
  <2> HIDE DEF c
  <2> QED BY <1>2, <2>1, <2>2, Replaces DEF IInv, Waits
<1>4. ssb' = ssb /\ created' = created /\ Tested(t)
  BY <1>2 DEF test_just_for_continuation, LoopGoesOn, Tested
<1>5. Lawful(t, b, g, c, NoCall, NoCall)
  <2> USE <1>1, <1>2, <1>3, <1>4, Nothing
  <2>1. ProperStep(b, c, NoCall, NoCall)
    BY ProperNothing, NAssumption DEF Known, ProperStep, ProperCall, Kinds
  <2>2. Fits(b, c, NoCall, NoCall)
    BY DEF Fits, Stacked, Waits, Completing
  <2>3. UserStep(b, g, c, NoCall, NoCall)
    BY DEF Known, UserStep, Own, UserOf, Uses, Opens, Handles, Held
  <2>4. MakerStep(b, c, NoCall)
    BY DEF Known, MakerStep, MakerOf, Makes, Feeds
  <2>5. HookStep(b, g, c, NoCall, NoCall)
    BY Ranges DEF Known, HookStep, Own, Clean, Fresh, Hooks, Held
  <2>6. HolderStep(b, g, c, NoCall, NoCall)
    BY DEF Known, HolderStep, Held
  <2>7. RoundStep(b, c, NoCall)
    BY DEF Known, RoundStep, RoundOf, Past
  <2>8. KeptStep(b, c, NoCall)
    BY DEF KeptStep
  <2>9. CargoStep(b, g, c, NoCall, NoCall)
    <3>1. /\ ~Carrying(b) /\ ~Carrying(g) /\ ~Carrying(c) /\ ~Carrying(NoCall)
          /\ ~Begins(b) /\ ~Begins(c) /\ ~Begins(NoCall)
      BY DEF Carrying, Begins
    <3>2. expected' = expected /\ delivered' = delivered
      BY DEF test_just_for_continuation, Tested
    <3>3. Idle(b, g, c, NoCall, NoCall)
      BY <3>1, <3>2, Ranges, Stays
    <3> QED BY <3>3 DEF CargoStep
  <2>10. AttendStep(b, g, c, NoCall, NoCall)
    BY DEF AttendStep, Own, Uses, Opens, Handles, Held, Makes, Full
  <2>11. LinkStep(t, b, c, NoCall, NoCall)
    BY Ranges DEF LinkStep, Held, Asks
  <2> QED BY <2>1, <2>2, <2>3, <2>4, <2>5, <2>6, <2>7, <2>8, <2>9, <2>10, <2>11 DEF Lawful
<1>6. HoldStep(b, g, c, NoCall, NoCall)
  BY <1>2, <1>3, Nothing DEF HoldStep, Completing, Looping, Held
<1> QED BY <1>1, <1>3, <1>4, <1>5, <1>6, Quietly

LEMMA PropagateCasMissed ==
    ASSUME IInv, NEW t \in Threads, propagate_cas(t), ssb[Future(t).state].m_state # "Init"
    PROVE  IInv' /\ Outlook(t)
<1>1. PICK b, g : Known(t, b, g)
  BY TopFacts DEF IInv, propagate_cas, At
<1>2. /\ b = Top(t) /\ stack[t] # <<>> /\ b \in Calls /\ b.op = "propagate" /\ b.pc = "cas"
      /\ ~b.future.ready /\ Future(t) = b.future /\ b.future.state \in Outputs
      /\ b.future.state \in States /\ g = NoCall /\ ssb[b.future.state].m_state = "Finished"
  BY <1>1, Ranges DEF IInv, Known, At, ProperCall, Waits, propagate_cas, CompareExchange, Future
<1>3. PICK a \in Calls, c \in Calls :
         /\ Steps(t, c, a, NoCall)
         /\ c.op = b.op /\ c.pc = "drop" /\ c.k = b.k /\ c.future = b.future /\ c.output = b.output
         /\ a.op = "fill_from" /\ a.pc = "start" /\ a.future.state = b.future.state
  <2> DEFINE c == [Top(t) EXCEPT !.pc = "drop"]
             a == FillFrom(Future(t).state)
  <2>1. /\ c \in Calls /\ c.op = b.op /\ c.pc = "drop" /\ c.k = b.k /\ c.future = b.future
        /\ c.output = b.output
    BY <1>2 DEF Calls, Pcs
  <2>2. a \in Calls /\ a.op = "fill_from" /\ a.pc = "start" /\ a.future.state = b.future.state
    BY <1>2, NewCall
  <2>3. <<a>> \o <<c>> = <<a, c>>
    BY <2>1, <2>2, Two
  <2>4. Becomes(t, <<a, c>>) /\ \A u \in Threads \ {t} : returned'[u] = returned[u]
    BY <1>2, <2>3 DEF propagate_cas, LoopGoesOn, CompareExchange
  <2> HIDE DEF c, a
  <2> QED BY <1>2, <2>1, <2>2, <2>4, Pushes DEF IInv, Waits
<1>4. ssb' = ssb /\ created' = created /\ LoopGoesOn
  BY <1>2 DEF propagate_cas, LoopGoesOn, CompareExchange
<1>5. Lawful(t, b, g, c, a, NoCall)
  <2> USE <1>1, <1>2, <1>3, <1>4, Nothing
  <2>1. ProperStep(b, c, a, NoCall)
    BY ProperNothing, NAssumption DEF Known, ProperStep, ProperCall, Kinds
  <2>2. Fits(b, c, a, NoCall)
    BY DEF Fits, Stacked, Waits, Completing
  <2>3. UserStep(b, g, c, a, NoCall)
    BY DEF Known, UserStep, Own, UserOf, Uses, Opens, Handles, Held
  <2>4. MakerStep(b, c, a)
    BY DEF Known, MakerStep, MakerOf, Makes, Feeds
  <2>5. HookStep(b, g, c, a, NoCall)
    BY Ranges DEF Known, HookStep, Own, Clean, Fresh, Hooks, Held
  <2>6. HolderStep(b, g, c, a, NoCall)
    BY DEF Known, HolderStep, Held
  <2>7. RoundStep(b, c, a)
    BY DEF Known, RoundStep, RoundOf, Past
  <2>8. KeptStep(b, c, a)
    BY DEF KeptStep, Owns, Held
  <2>9. Idle(b, g, c, a, NoCall)
    BY DEF Idle, Carrying, GoesOn, Begins, Unmoved, LoopGoesOn
  <2>10. AttendStep(b, g, c, a, NoCall)
    BY DEF AttendStep, Own, Uses, Opens, Handles, Held, Makes, Full
  <2>11. LinkStep(t, b, c, a, NoCall)
    BY Ranges DEF LinkStep, Held, Asks
  <2> QED BY <2>1, <2>2, <2>3, <2>4, <2>5, <2>6, <2>7, <2>8, <2>9, <2>10, <2>11
        DEF Lawful, CargoStep
<1>6. HoldStep(b, g, c, a, NoCall)
  BY <1>2, <1>3, Nothing DEF HoldStep, Completing, Looping, Held
<1> QED BY <1>1, <1>3, <1>4, <1>5, <1>6, Quietly

LEMMA CallsThenCallback ==
    ASSUME IInv, NEW t \in Threads, call_callback(t), ssb[Future(t).state].m_callback = "then"
    PROVE  IInv' /\ Outlook(t)
<1>1. PICK b, g : Known(t, b, g)
  BY TopFacts DEF IInv, call_callback, At
<1>2. /\ b = Top(t) /\ stack[t] # <<>> /\ b \in Calls /\ b.op = "finish" /\ b.pc = "callback"
      /\ Future(t) = b.future /\ b.future.state \in Operations /\ b.future.state \in States
      /\ b.future.state \in 0..N /\ g = NoCall /\ ssb[b.future.state].m_callback = "then"
      /\ Output(b.future.state) \in created
  BY <1>1, Ranges DEF IInv, Known, At, ProperCall, Waits, call_callback, Future, Creation,
     Continuations, Operations
<1>3. PICK c \in Calls :
         /\ Steps(t, c, NoCall, NoCall)
         /\ c.op = "step" /\ c.pc = "start" /\ c.k = b.future.state
  <2> DEFINE c == Step(Future(t).state)
  <2>1. c \in Calls /\ c.op = "step" /\ c.pc = "start" /\ c.k = b.future.state
    BY <1>2, NewCall
  <2>2. Becomes(t, <<c>>) /\ \A u \in Threads \ {t} : returned'[u] = returned[u]
    BY <1>2 DEF call_callback, LoopGoesOn
  <2> HIDE DEF c
  <2> QED BY <1>2, <2>1, <2>2, Replaces DEF IInv, Waits
<1>4. ssb' = ssb /\ created' = created /\ LoopGoesOn
  BY <1>2 DEF call_callback, LoopGoesOn
<1>5. Lawful(t, b, g, c, NoCall, NoCall)
  <2> USE <1>1, <1>2, <1>3, <1>4, Nothing
  <2>1. ProperStep(b, c, NoCall, NoCall)
    BY ProperNothing, NAssumption DEF Known, ProperStep, ProperCall, Kinds
  <2>2. Fits(b, c, NoCall, NoCall)
    BY DEF Fits, Stacked, Waits, Completing
  <2>3. UserStep(b, g, c, NoCall, NoCall)
    BY DEF Known, UserStep, Own, UserOf, Uses, Opens, Handles, Held
  <2>4. MakerStep(b, c, NoCall)
    BY DEF Known, MakerStep, MakerOf, Makes, Feeds
  <2>5. HookStep(b, g, c, NoCall, NoCall)
    BY Ranges DEF Known, HookStep, Own, Clean, Fresh, Hooks, Held
  <2>6. HolderStep(b, g, c, NoCall, NoCall)
    BY DEF Known, HolderStep, Held
  <2>7. RoundStep(b, c, NoCall)
    BY DEF Known, RoundStep, RoundOf, Past
  <2>8. KeptStep(b, c, NoCall)
    BY DEF KeptStep
  <2>9. Idle(b, g, c, NoCall, NoCall)
    BY DEF Idle, Carrying, GoesOn, Begins, Unmoved, LoopGoesOn
  <2>10. AttendStep(b, g, c, NoCall, NoCall)
    BY DEF AttendStep, Own, Uses, Opens, Handles, Held, Makes, Full
  <2>11. LinkStep(t, b, c, NoCall, NoCall)
    BY Ranges DEF LinkStep, Held, Asks
  <2> QED BY <2>1, <2>2, <2>3, <2>4, <2>5, <2>6, <2>7, <2>8, <2>9, <2>10, <2>11
        DEF Lawful, CargoStep
<1>6. HoldStep(b, g, c, NoCall, NoCall)
  BY <1>2, <1>3, Nothing DEF HoldStep, Completing, Looping, Held
<1> QED BY <1>1, <1>3, <1>4, <1>5, <1>6, Quietly

LEMMA CallsFillFrom ==
    ASSUME IInv, NEW t \in Threads, call_callback(t), ssb[Future(t).state].m_callback = "fill_from"
    PROVE  IInv' /\ Outlook(t)
<1>1. PICK b, g : Known(t, b, g)
  BY TopFacts DEF IInv, call_callback, At
<1>2. /\ b = Top(t) /\ stack[t] # <<>> /\ b \in Calls /\ b.op = "finish" /\ b.pc = "callback"
      /\ Future(t) = b.future /\ b.future.state \in Outputs /\ b.future.state \in States
      /\ g = NoCall /\ ssb[b.future.state].m_callback = "fill_from"
  BY <1>1, Ranges DEF IInv, Known, At, ProperCall, Waits, call_callback, Future, Creation
<1>3. PICK c \in Calls :
         /\ Steps(t, c, NoCall, NoCall)
         /\ c.op = "fill_from" /\ c.pc = "start" /\ c.future.state = b.future.state
  <2> DEFINE c == FillFrom(Future(t).state)
  <2>1. c \in Calls /\ c.op = "fill_from" /\ c.pc = "start" /\ c.future.state = b.future.state
    BY <1>2, NewCall
  <2>2. Becomes(t, <<c>>) /\ \A u \in Threads \ {t} : returned'[u] = returned[u]
    BY <1>2 DEF call_callback, LoopGoesOn
  <2> HIDE DEF c
  <2> QED BY <1>2, <2>1, <2>2, Replaces DEF IInv, Waits
<1>4. ssb' = ssb /\ created' = created /\ LoopGoesOn
  BY <1>2 DEF call_callback, LoopGoesOn
<1>5. Lawful(t, b, g, c, NoCall, NoCall)
  <2> USE <1>1, <1>2, <1>3, <1>4, Nothing
  <2>1. ProperStep(b, c, NoCall, NoCall)
    BY ProperNothing, NAssumption DEF Known, ProperStep, ProperCall, Kinds
  <2>2. Fits(b, c, NoCall, NoCall)
    BY DEF Fits, Stacked, Waits, Completing
  <2>3. UserStep(b, g, c, NoCall, NoCall)
    BY DEF Known, UserStep, Own, UserOf, Uses, Opens, Handles, Held
  <2>4. MakerStep(b, c, NoCall)
    BY DEF Known, MakerStep, MakerOf, Makes, Feeds
  <2>5. HookStep(b, g, c, NoCall, NoCall)
    BY Ranges DEF Known, HookStep, Own, Clean, Fresh, Hooks, Held
  <2>6. HolderStep(b, g, c, NoCall, NoCall)
    BY DEF Known, HolderStep, Held
  <2>7. RoundStep(b, c, NoCall)
    BY DEF Known, RoundStep, RoundOf, Past
  <2>8. KeptStep(b, c, NoCall)
    BY DEF KeptStep, Backed, BackedBy
  <2>9. Idle(b, g, c, NoCall, NoCall)
    BY DEF Idle, Carrying, GoesOn, Begins, Unmoved, LoopGoesOn
  <2>10. AttendStep(b, g, c, NoCall, NoCall)
    BY DEF AttendStep, Own, Uses, Opens, Handles, Held, Makes, Full
  <2>11. LinkStep(t, b, c, NoCall, NoCall)
    BY Ranges DEF LinkStep, Held, Asks
  <2> QED BY <2>1, <2>2, <2>3, <2>4, <2>5, <2>6, <2>7, <2>8, <2>9, <2>10, <2>11
        DEF Lawful, CargoStep
<1>6. HoldStep(b, g, c, NoCall, NoCall)
  BY <1>2, <1>3, Nothing DEF HoldStep, Completing, Looping, Held
<1> QED BY <1>1, <1>3, <1>4, <1>5, <1>6, Quietly

LEMMA GetAsyncNotReady ==
    ASSUME IInv, NEW t \in Threads, get_async_not_ready(t)
    PROVE  IInv' /\ Outlook(t)
<1>1. PICK b, g : Known(t, b, g)
  BY TopFacts DEF IInv, get_async_not_ready, At
<1>2. /\ b = Top(t) /\ stack[t] # <<>> /\ b \in Calls /\ b.op = "get_async" /\ b.pc = "start"
      /\ ~returned[t].ready /\ returned[t] \in Futures /\ g.op = "returned"
      /\ g.future = returned[t] /\ g.future.state \in Outputs
  BY <1>1, Ranges, Returned DEF IInv, Known, At, ProperCall, Waits, get_async_not_ready, IsReady
<1>3. PICK c \in Calls :
         /\ Steps(t, c, NoCall, NoCall)
         /\ c.op = b.op /\ c.pc = "set" /\ c.k = b.k /\ c.future = g.future
  <2> DEFINE c == [Top(t) EXCEPT !.pc = "set", !.future = returned[t]]
  <2>1. c \in Calls /\ c.op = b.op /\ c.pc = "set" /\ c.k = b.k /\ c.future = g.future
    BY <1>2 DEF Calls, Pcs
  <2>2. Becomes(t, <<c>>) /\ \A u \in Threads \ {t} : returned'[u] = returned[u]
    BY <1>2 DEF get_async_not_ready, LoopGoesOn
  <2> HIDE DEF c
  <2> QED BY <1>2, <2>1, <2>2, Replaces DEF IInv, Waits
<1>4. ssb' = ssb /\ created' = created /\ LoopGoesOn
  BY <1>2 DEF get_async_not_ready, LoopGoesOn
<1>5. Lawful(t, b, g, c, NoCall, NoCall)
  <2> USE <1>1, <1>2, <1>3, <1>4, Nothing
  <2>1. ProperStep(b, c, NoCall, NoCall)
    BY ProperNothing, NAssumption DEF Known, ProperStep, ProperCall, Kinds
  <2>2. Fits(b, c, NoCall, NoCall)
    BY DEF Fits, Stacked, Waits, Completing
  <2>3. UserStep(b, g, c, NoCall, NoCall)
    BY DEF Known, UserStep, Own, UserOf, Uses, Opens, Handles, Held
  <2>4. MakerStep(b, c, NoCall)
    BY DEF Known, MakerStep, MakerOf, Makes, Feeds
  <2>5. HookStep(b, g, c, NoCall, NoCall)
    BY Ranges DEF Known, HookStep, Own, Clean, Fresh, Hooks, Held
  <2>6. HolderStep(b, g, c, NoCall, NoCall)
    BY DEF Known, HolderStep, Held
  <2>7. RoundStep(b, c, NoCall)
    BY DEF Known, RoundStep, RoundOf, Past
  <2>8. KeptStep(b, c, NoCall)
    BY DEF KeptStep
  <2>9. Idle(b, g, c, NoCall, NoCall)
    BY DEF Idle, Carrying, GoesOn, Begins, Unmoved, LoopGoesOn
  <2>10. AttendStep(b, g, c, NoCall, NoCall)
    BY DEF AttendStep, Own, Uses, Opens, Handles, Held, Makes, Full
  <2>11. LinkStep(t, b, c, NoCall, NoCall)
    BY Ranges DEF LinkStep, Held, Asks
  <2> QED BY <2>1, <2>2, <2>3, <2>4, <2>5, <2>6, <2>7, <2>8, <2>9, <2>10, <2>11
        DEF Lawful, CargoStep
<1>6. HoldStep(b, g, c, NoCall, NoCall)
  BY <1>2, <1>3, Nothing DEF HoldStep, Completing, Looping, Held
<1> QED BY <1>1, <1>3, <1>4, <1>5, <1>6, Quietly

LEMMA GetAsyncCasMissed ==
    ASSUME IInv, NEW t \in Threads, get_async_cas(t), ssb[Future(t).state].m_state # "Init"
    PROVE  IInv' /\ Outlook(t)
<1>1. PICK b, g : Known(t, b, g)
  BY TopFacts DEF IInv, get_async_cas, At
<1>2. /\ b = Top(t) /\ stack[t] # <<>> /\ b \in Calls /\ b.op = "get_async" /\ b.pc = "cas"
      /\ ~b.future.ready /\ Future(t) = b.future /\ b.future.state \in Outputs
      /\ b.future.state \in States /\ g = NoCall /\ ssb[b.future.state].m_state = "Finished"
  BY <1>1, Ranges DEF IInv, Known, At, ProperCall, Waits, get_async_cas, CompareExchange, Future
<1>3. PICK a \in Calls, c \in Calls :
         /\ Steps(t, c, a, NoCall)
         /\ c.op = b.op /\ c.pc = "drop" /\ c.k = b.k /\ c.future = b.future /\ c.output = b.output
         /\ a.op = "finish" /\ a.pc = "callback" /\ a.future.state = b.future.state
  <2> DEFINE c == [Top(t) EXCEPT !.pc = "drop"]
             a == [Finish(Future(t).state) EXCEPT !.pc = "callback"]
  <2>1. /\ c \in Calls /\ c.op = b.op /\ c.pc = "drop" /\ c.k = b.k /\ c.future = b.future
        /\ c.output = b.output
    BY <1>2 DEF Calls, Pcs
  <2>2. a \in Calls /\ a.op = "finish" /\ a.pc = "callback" /\ a.future.state = b.future.state
    BY <1>2, NewCall DEF Calls, Pcs
  <2>3. <<a>> \o <<c>> = <<a, c>>
    BY <2>1, <2>2, Two
  <2>4. Becomes(t, <<a, c>>) /\ \A u \in Threads \ {t} : returned'[u] = returned[u]
    BY <1>2, <2>3 DEF get_async_cas, LoopGoesOn, CompareExchange
  <2> HIDE DEF c, a
  <2> QED BY <1>2, <2>1, <2>2, <2>4, Pushes DEF IInv, Waits
<1>4. ssb' = ssb /\ created' = created /\ LoopGoesOn
  BY <1>2 DEF get_async_cas, LoopGoesOn, CompareExchange
<1>5. Lawful(t, b, g, c, a, NoCall)
  <2> USE <1>1, <1>2, <1>3, <1>4, Nothing
  <2>1. ProperStep(b, c, a, NoCall)
    BY ProperNothing, NAssumption DEF Known, ProperStep, ProperCall, Kinds
  <2>2. Fits(b, c, a, NoCall)
    BY Ranges DEF Fits, Stacked, Waits, Completing, Operations
  <2>3. UserStep(b, g, c, a, NoCall)
    BY DEF Known, UserStep, Own, UserOf, Uses, Opens, Handles, Held
  <2>4. MakerStep(b, c, a)
    BY DEF Known, MakerStep, MakerOf, Makes, Feeds
  <2>5. HookStep(b, g, c, a, NoCall)
    BY Ranges DEF Known, HookStep, Own, Clean, Fresh, Hooks, Held
  <2>6. HolderStep(b, g, c, a, NoCall)
    BY DEF Known, HolderStep, Held
  <2>7. RoundStep(b, c, a)
    BY DEF Known, RoundStep, RoundOf, Past
  <2>8. KeptStep(b, c, a)
    BY DEF KeptStep, Owns, Held
  <2>9. Idle(b, g, c, a, NoCall)
    BY DEF Idle, Carrying, GoesOn, Begins, Unmoved, LoopGoesOn
  <2>10. AttendStep(b, g, c, a, NoCall)
    BY DEF AttendStep, Own, Uses, Opens, Handles, Held, Makes, Full
  <2>11. LinkStep(t, b, c, a, NoCall)
    BY Ranges DEF LinkStep, Held, Asks
  <2> QED BY <2>1, <2>2, <2>3, <2>4, <2>5, <2>6, <2>7, <2>8, <2>9, <2>10, <2>11
        DEF Lawful, CargoStep
<1>6. HoldStep(b, g, c, a, NoCall)
  BY <1>2, <1>3, Nothing DEF HoldStep, Completing, Looping, Held
<1> QED BY <1>1, <1>3, <1>4, <1>5, <1>6, Quietly

LEMMA PropagateReturnsReady ==
    ASSUME IInv, NEW t \in Threads, propagate_returns(t), Future(t).ready
    PROVE  IInv' /\ Outlook(t)
<1>1. PICK b, g : Known(t, b, g)
  BY TopFacts DEF IInv, propagate_returns, At
<1>2. /\ b = Top(t) /\ stack[t] # <<>> /\ b \in Calls /\ b.op = "propagate" /\ b.pc = "drop"
      /\ b.future.ready /\ g = NoCall
  BY <1>1, Ranges DEF IInv, Known, At, ProperCall, Waits, propagate_returns, Future
<1>3. Steps(t, NoCall, NoCall, NoCall)
  <2>1. Becomes(t, <<>>) /\ \A u \in Threads \ {t} : returned'[u] = returned[u]
    BY <1>2 DEF propagate_returns, LoopGoesOn
  <2> QED BY <1>2, <2>1, Leaves DEF IInv
<1>4. ssb' = ssb /\ created' = created /\ LoopGoesOn
  BY <1>2 DEF propagate_returns, LoopGoesOn, LetGo, Future
<1>5. Lawful(t, b, g, NoCall, NoCall, NoCall)
  <2> USE <1>1, <1>2, <1>3, <1>4, Nothing
  <2>1. ProperStep(b, NoCall, NoCall, NoCall)
    BY ProperNothing, NAssumption DEF Known, ProperStep, ProperCall, Kinds
  <2>2. Fits(b, NoCall, NoCall, NoCall)
    BY DEF Fits, Stacked, Waits, Completing
  <2>3. UserStep(b, g, NoCall, NoCall, NoCall)
    BY DEF Known, UserStep, Own, UserOf, Uses, Opens, Handles, Held
  <2>4. MakerStep(b, NoCall, NoCall)
    BY DEF Known, MakerStep, MakerOf, Makes, Feeds
  <2>5. HookStep(b, g, NoCall, NoCall, NoCall)
    BY Ranges DEF Known, HookStep, Own, Clean, Fresh, Hooks, Held
  <2>6. HolderStep(b, g, NoCall, NoCall, NoCall)
    BY DEF Known, HolderStep, Held
  <2>7. RoundStep(b, NoCall, NoCall)
    BY DEF Known, RoundStep, RoundOf, Past
  <2>8. KeptStep(b, NoCall, NoCall)
    BY DEF KeptStep
  <2>9. Idle(b, g, NoCall, NoCall, NoCall)
    BY DEF Idle, Carrying, GoesOn, Begins, Unmoved, LoopGoesOn
  <2>10. AttendStep(b, g, NoCall, NoCall, NoCall)
    BY DEF AttendStep, Own, Uses, Opens, Handles, Held, Makes, Full
  <2>11. LinkStep(t, b, NoCall, NoCall, NoCall)
    BY Ranges DEF LinkStep, Held, Asks
  <2> QED BY <2>1, <2>2, <2>3, <2>4, <2>5, <2>6, <2>7, <2>8, <2>9, <2>10, <2>11
        DEF Lawful, CargoStep
<1>6. HoldStep(b, g, NoCall, NoCall, NoCall)
  BY <1>2, <1>3, Nothing DEF HoldStep, Completing, Looping, Held
<1> QED BY <1>1, <1>3, <1>4, <1>5, <1>6, Quietly

LEMMA GetAsyncReturnsReady ==
    ASSUME IInv, NEW t \in Threads, get_async_returns(t), Future(t).ready
    PROVE  IInv' /\ Outlook(t)
<1>1. PICK b, g : Known(t, b, g)
  BY TopFacts DEF IInv, get_async_returns, At
<1>2. /\ b = Top(t) /\ stack[t] # <<>> /\ b \in Calls /\ b.op = "get_async" /\ b.pc = "drop"
      /\ b.future.ready /\ g = NoCall
  BY <1>1, Ranges DEF IInv, Known, At, ProperCall, Waits, get_async_returns, Future
<1>3. Steps(t, NoCall, NoCall, NoCall)
  <2>1. Becomes(t, <<>>) /\ \A u \in Threads \ {t} : returned'[u] = returned[u]
    BY <1>2 DEF get_async_returns, LoopGoesOn
  <2> QED BY <1>2, <2>1, Leaves DEF IInv
<1>4. ssb' = ssb /\ created' = created /\ LoopGoesOn
  BY <1>2 DEF get_async_returns, LoopGoesOn, LetGo, Future
<1>5. Lawful(t, b, g, NoCall, NoCall, NoCall)
  <2> USE <1>1, <1>2, <1>3, <1>4, Nothing
  <2>1. ProperStep(b, NoCall, NoCall, NoCall)
    BY ProperNothing, NAssumption DEF Known, ProperStep, ProperCall, Kinds
  <2>2. Fits(b, NoCall, NoCall, NoCall)
    BY DEF Fits, Stacked, Waits, Completing
  <2>3. UserStep(b, g, NoCall, NoCall, NoCall)
    BY DEF Known, UserStep, Own, UserOf, Uses, Opens, Handles, Held
  <2>4. MakerStep(b, NoCall, NoCall)
    BY DEF Known, MakerStep, MakerOf, Makes, Feeds
  <2>5. HookStep(b, g, NoCall, NoCall, NoCall)
    BY Ranges DEF Known, HookStep, Own, Clean, Fresh, Hooks, Held
  <2>6. HolderStep(b, g, NoCall, NoCall, NoCall)
    BY DEF Known, HolderStep, Held
  <2>7. RoundStep(b, NoCall, NoCall)
    BY DEF Known, RoundStep, RoundOf, Past
  <2>8. KeptStep(b, NoCall, NoCall)
    BY DEF KeptStep
  <2>9. Idle(b, g, NoCall, NoCall, NoCall)
    BY DEF Idle, Carrying, GoesOn, Begins, Unmoved, LoopGoesOn
  <2>10. AttendStep(b, g, NoCall, NoCall, NoCall)
    BY DEF AttendStep, Own, Uses, Opens, Handles, Held, Makes, Full
  <2>11. LinkStep(t, b, NoCall, NoCall, NoCall)
    BY Ranges DEF LinkStep, Held, Asks
  <2> QED BY <2>1, <2>2, <2>3, <2>4, <2>5, <2>6, <2>7, <2>8, <2>9, <2>10, <2>11
        DEF Lawful, CargoStep
<1>6. HoldStep(b, g, NoCall, NoCall, NoCall)
  BY <1>2, <1>3, Nothing DEF HoldStep, Completing, Looping, Held
<1> QED BY <1>1, <1>3, <1>4, <1>5, <1>6, Quietly

-----------------------------------------------------------------------------
(* ... those that mark a state, ...                                        *)

LEMMA Publishes ==
    ASSUME IInv, NEW t \in Threads, publish_just_for_continuation(t)
    PROVE  IInv' /\ Outlook(t)
<1>1. PICK b, g : Known(t, b, g)
  BY TopFacts DEF IInv, publish_just_for_continuation, At
<1>2. /\ b = Top(t) /\ stack[t] # <<>> /\ b.output \in Outputs /\ b \in Calls /\ b.op = "propagate"
      /\ b.pc = "publish" /\ ~b.future.ready /\ Future(t) = b.future /\ b.future.state \in Outputs
      /\ b.future.state \in States /\ b.future.state \in created /\ g = NoCall
  BY <1>1, Ranges DEF IInv, Known, At, ProperCall, Waits, publish_just_for_continuation, Future,
     Held
<1>3. PICK c \in Calls :
         /\ Steps(t, c, NoCall, NoCall)
         /\ c.op = b.op /\ c.pc = "set" /\ c.k = b.k /\ c.future = b.future /\ c.output = b.output
  <2> DEFINE c == [Top(t) EXCEPT !.pc = "set"]
  <2>1. /\ c \in Calls /\ c.op = b.op /\ c.pc = "set" /\ c.k = b.k /\ c.future = b.future
        /\ c.output = b.output
    BY <1>2 DEF Calls, Pcs
  <2>2. Becomes(t, <<c>>) /\ \A u \in Threads \ {t} : returned'[u] = returned[u]
    BY <1>2 DEF publish_just_for_continuation, LoopGoesOn, Goes
  <2> HIDE DEF c
  <2> QED BY <1>2, <2>1, <2>2, Replaces DEF IInv, Waits
<1>4. /\ ssb' \in [States -> SharedStates] /\ created' = created /\ LoopGoesOn
      /\ \A s \in States : ssb'[s].m_state = ssb[s].m_state
      /\ \A s \in States : ssb'[s].result = ssb[s].result
      /\ \A s \in States : ssb'[s].m_callback = ssb[s].m_callback
      /\ \A s \in States : ssb'[s].m_continuation = ssb[s].m_continuation
      /\ \A s \in States : ssb'[s].m_refs = ssb[s].m_refs
      /\ \A s \in States : s # b.future.state =>
           ssb'[s].m_is_just_for_continuation = ssb[s].m_is_just_for_continuation
      /\ ssb'[b.future.state].m_is_just_for_continuation = TRUE
  <2>1. ssb' = [ssb EXCEPT ![b.future.state].m_is_just_for_continuation = TRUE] /\ LoopGoesOn
    BY <1>2 DEF publish_just_for_continuation
  <2>2. ssb' \in [States -> SharedStates]
    BY <1>2, <2>1, Changed DEF IInv, Typed
  <2> QED BY <1>2, <2>1, <2>2 DEF IInv, Typed, SharedStates, LoopGoesOn
<1>5. Typed' /\ created' = created
  BY <1>3, <1>4, TypedAfter DEF IInv, Happens
<1>6. Effect(b, g) /\ (\A x \in Outputs : LedTo(x)' <=> LedTo(x))
  <2>1. Own(b, g, b.future.state)
    BY <1>2 DEF Own, Uses, Opens, Held
  <2>2. Marks(b.future.state)
    BY <1>2, <2>1, <1>4, Ranges DEF IInv, Results, Continuations, Marks
  <2> QED BY <2>1, <2>2, Marking
<1>7. Lawful(t, b, g, c, NoCall, NoCall)
  <2> USE <1>1, <1>2, <1>3, <1>4, Nothing
  <2>1. ProperStep(b, c, NoCall, NoCall)
    BY ProperNothing, NAssumption DEF Known, ProperStep, ProperCall, Kinds
  <2>2. Fits(b, c, NoCall, NoCall)
    BY DEF Fits, Stacked, Waits, Completing
  <2>3. UserStep(b, g, c, NoCall, NoCall)
    BY DEF Known, UserStep, Own, UserOf, Uses, Opens, Handles, Held
  <2>4. MakerStep(b, c, NoCall)
    BY DEF Known, MakerStep, MakerOf, Makes, Feeds
  <2>5. HookStep(b, g, c, NoCall, NoCall)
    BY Ranges DEF Known, HookStep, Own, Clean, Fresh, Hooks, Held, Uses, Opens, Handles
  <2>6. HolderStep(b, g, c, NoCall, NoCall)
    BY DEF Known, HolderStep, Held
  <2>7. RoundStep(b, c, NoCall)
    BY Ranges DEF Known, RoundStep, RoundOf, Past
  <2>8. KeptStep(b, c, NoCall)
    BY DEF KeptStep
  <2>9. CargoStep(b, g, c, NoCall, NoCall)
    <3>1. /\ ~Carrying(b) /\ ~Carrying(g) /\ ~Carrying(c) /\ ~Carrying(NoCall)
          /\ ~Begins(b) /\ ~Begins(c) /\ ~Begins(NoCall)
      BY DEF Carrying, Begins
    <3>2. expected' = expected /\ delivered' = delivered
      BY DEF publish_just_for_continuation, LoopGoesOn
    <3>3. Idle(b, g, c, NoCall, NoCall)
      BY <1>5, <1>6, <3>1, <3>2, Ranges, Stays
    <3> QED BY <3>3 DEF CargoStep
  <2>10. AttendStep(b, g, c, NoCall, NoCall)
    BY <1>5, <1>6 DEF AttendStep, Own, Uses, Opens, Handles, Held, Makes, Full
  <2>11. LinkStep(t, b, c, NoCall, NoCall)
    BY <1>5, <1>6, Ranges DEF LinkStep, Held, Asks
  <2> QED BY <2>1, <2>2, <2>3, <2>4, <2>5, <2>6, <2>7, <2>8, <2>9, <2>10, <2>11 DEF Lawful
<1>8. HoldStep(b, g, c, NoCall, NoCall)
  BY <1>2, <1>3, Nothing DEF HoldStep, Completing, Looping, Held
<1> QED BY <1>1, <1>3, <1>4, <1>5, <1>6, <1>7, <1>8, Lightly

LEMMA SetsFillFrom ==
    ASSUME IInv, NEW t \in Threads, set_fill_from(t)
    PROVE  IInv' /\ Outlook(t)
<1>1. PICK b, g : Known(t, b, g)
  BY TopFacts DEF IInv, set_fill_from, At
<1>2. /\ b = Top(t) /\ stack[t] # <<>> /\ b.output \in Outputs /\ b \in Calls /\ b.op = "propagate"
      /\ b.pc = "set" /\ ~b.future.ready /\ Future(t) = b.future /\ b.future.state \in Outputs
      /\ b.future.state \in States /\ b.future.state \in created /\ g = NoCall
  BY <1>1, Ranges DEF IInv, Known, At, ProperCall, Waits, set_fill_from, Future, Held
<1>3. PICK c \in Calls :
         /\ Steps(t, c, NoCall, NoCall)
         /\ c.op = b.op /\ c.pc = "cas" /\ c.k = b.k /\ c.future = b.future /\ c.output = b.output
  <2> DEFINE c == [Top(t) EXCEPT !.pc = "cas"]
  <2>1. /\ c \in Calls /\ c.op = b.op /\ c.pc = "cas" /\ c.k = b.k /\ c.future = b.future
        /\ c.output = b.output
    BY <1>2 DEF Calls, Pcs
  <2>2. Becomes(t, <<c>>) /\ \A u \in Threads \ {t} : returned'[u] = returned[u]
    BY <1>2 DEF set_fill_from, LoopGoesOn, Goes
  <2> HIDE DEF c
  <2> QED BY <1>2, <2>1, <2>2, Replaces DEF IInv, Waits
<1>4. /\ ssb' \in [States -> SharedStates] /\ created' = created /\ LoopGoesOn
      /\ \A s \in States : ssb'[s].m_state = ssb[s].m_state
      /\ \A s \in States : ssb'[s].result = ssb[s].result
      /\ \A s \in States : ssb'[s].m_continuation = ssb[s].m_continuation
      /\ \A s \in States : ssb'[s].m_is_just_for_continuation = ssb[s].m_is_just_for_continuation
      /\ \A s \in States : ssb'[s].m_refs = ssb[s].m_refs
      /\ \A s \in States : s # b.future.state => ssb'[s].m_callback = ssb[s].m_callback
      /\ ssb'[b.future.state].m_callback = "fill_from"
  <2>1. ssb' = [ssb EXCEPT ![b.future.state].m_callback = "fill_from"] /\ LoopGoesOn
    BY <1>2 DEF set_fill_from
  <2>2. ssb' \in [States -> SharedStates]
    BY <1>2, <2>1, Changed DEF IInv, Typed
  <2> QED BY <1>2, <2>1, <2>2 DEF IInv, Typed, SharedStates, LoopGoesOn
<1>5. Typed' /\ created' = created
  BY <1>3, <1>4, TypedAfter DEF IInv, Happens
<1>6. Effect(b, g) /\ (\A x \in Outputs : LedTo(x)' <=> LedTo(x))
  <2>1. Own(b, g, b.future.state)
    BY <1>2 DEF Own, Uses, Opens, Held
  <2>2. Marks(b.future.state)
    BY <1>2, <2>1, <1>4, Ranges DEF IInv, Results, Continuations, Marks
  <2> QED BY <2>1, <2>2, Marking
<1>7. Lawful(t, b, g, c, NoCall, NoCall)
  <2> USE <1>1, <1>2, <1>3, <1>4, Nothing
  <2>1. ProperStep(b, c, NoCall, NoCall)
    BY ProperNothing, NAssumption DEF Known, ProperStep, ProperCall, Kinds
  <2>2. Fits(b, c, NoCall, NoCall)
    BY DEF Fits, Stacked, Waits, Completing
  <2>3. UserStep(b, g, c, NoCall, NoCall)
    BY DEF Known, UserStep, Own, UserOf, Uses, Opens, Handles, Held
  <2>4. MakerStep(b, c, NoCall)
    BY DEF Known, MakerStep, MakerOf, Makes, Feeds
  <2>5. HookStep(b, g, c, NoCall, NoCall)
    BY Ranges DEF Known, HookStep, Own, Clean, Fresh, Hooks, Held, Uses, Opens, Handles
  <2>6. HolderStep(b, g, c, NoCall, NoCall)
    BY DEF Known, HolderStep, Held
  <2>7. RoundStep(b, c, NoCall)
    BY Ranges DEF Known, RoundStep, RoundOf, Past
  <2>8. KeptStep(b, c, NoCall)
    BY DEF KeptStep
  <2>9. CargoStep(b, g, c, NoCall, NoCall)
    <3>1. /\ ~Carrying(b) /\ ~Carrying(g) /\ ~Carrying(c) /\ ~Carrying(NoCall)
          /\ ~Begins(b) /\ ~Begins(c) /\ ~Begins(NoCall)
      BY DEF Carrying, Begins
    <3>2. expected' = expected /\ delivered' = delivered
      BY DEF set_fill_from, LoopGoesOn
    <3>3. Idle(b, g, c, NoCall, NoCall)
      BY <1>5, <1>6, <3>1, <3>2, Ranges, Stays
    <3> QED BY <3>3 DEF CargoStep
  <2>10. AttendStep(b, g, c, NoCall, NoCall)
    BY <1>5, <1>6 DEF AttendStep, Own, Uses, Opens, Handles, Held, Makes, Full
  <2>11. LinkStep(t, b, c, NoCall, NoCall)
    BY <1>5, <1>6, Ranges DEF LinkStep, Held, Asks
  <2> QED BY <2>1, <2>2, <2>3, <2>4, <2>5, <2>6, <2>7, <2>8, <2>9, <2>10, <2>11 DEF Lawful
<1>8. HoldStep(b, g, c, NoCall, NoCall)
  BY <1>2, <1>3, Nothing DEF HoldStep, Completing, Looping, Held
<1> QED BY <1>1, <1>3, <1>4, <1>5, <1>6, <1>7, <1>8, Lightly

LEMMA SetsFinal ==
    ASSUME IInv, NEW t \in Threads, set_final(t)
    PROVE  IInv' /\ Outlook(t)
<1>1. PICK b, g : Known(t, b, g)
  BY TopFacts DEF IInv, set_final, At
<1>2. /\ b = Top(t) /\ stack[t] # <<>> /\ b \in Calls /\ b.op = "get_async" /\ b.pc = "set"
      /\ ~b.future.ready /\ Future(t) = b.future /\ b.future.state \in Outputs
      /\ b.future.state \in States /\ b.future.state \in created /\ g = NoCall
      /\ ssb[b.future.state].m_continuation = Null
  BY <1>1, Ranges DEF IInv, Known, At, ProperCall, Waits, set_final, Future, Held, Fresh, Clean
<1>3. PICK c \in Calls :
         /\ Steps(t, c, NoCall, NoCall)
         /\ c.op = b.op /\ c.pc = "cas" /\ c.k = b.k /\ c.future = b.future /\ c.output = b.output
  <2> DEFINE c == [Top(t) EXCEPT !.pc = "cas"]
  <2>1. /\ c \in Calls /\ c.op = b.op /\ c.pc = "cas" /\ c.k = b.k /\ c.future = b.future
        /\ c.output = b.output
    BY <1>2 DEF Calls, Pcs
  <2>2. Becomes(t, <<c>>) /\ \A u \in Threads \ {t} : returned'[u] = returned[u]
    BY <1>2 DEF set_final, LoopGoesOn, Goes
  <2> HIDE DEF c
  <2> QED BY <1>2, <2>1, <2>2, Replaces DEF IInv, Waits
<1>4. /\ ssb' \in [States -> SharedStates] /\ created' = created /\ LoopGoesOn
      /\ \A s \in States : ssb'[s].m_state = ssb[s].m_state
      /\ \A s \in States : ssb'[s].result = ssb[s].result
      /\ \A s \in States : ssb'[s].m_continuation = ssb[s].m_continuation
      /\ \A s \in States : ssb'[s].m_is_just_for_continuation = ssb[s].m_is_just_for_continuation
      /\ \A s \in States : ssb'[s].m_refs = ssb[s].m_refs
      /\ \A s \in States : s # b.future.state => ssb'[s].m_callback = ssb[s].m_callback
      /\ ssb'[b.future.state].m_callback = "final"
  <2>1. ssb' = [ssb EXCEPT ![b.future.state].m_callback = "final"] /\ LoopGoesOn
    BY <1>2 DEF set_final
  <2>2. ssb' \in [States -> SharedStates]
    BY <1>2, <2>1, Changed DEF IInv, Typed
  <2> QED BY <1>2, <2>1, <2>2 DEF IInv, Typed, SharedStates, LoopGoesOn
<1>5. Typed' /\ created' = created
  BY <1>3, <1>4, TypedAfter DEF IInv, Happens
<1>6. Effect(b, g) /\ (\A x \in Outputs : LedTo(x)' <=> LedTo(x))
  <2>1. Own(b, g, b.future.state)
    BY <1>2 DEF Own, Uses, Opens, Held
  <2>2. Marks(b.future.state)
    BY <1>2, <2>1, <1>4, Ranges DEF IInv, Results, Continuations, Marks
  <2> QED BY <2>1, <2>2, Marking
<1>7. Lawful(t, b, g, c, NoCall, NoCall)
  <2> USE <1>1, <1>2, <1>3, <1>4, Nothing
  <2>1. ProperStep(b, c, NoCall, NoCall)
    BY ProperNothing, NAssumption DEF Known, ProperStep, ProperCall, Kinds
  <2>2. Fits(b, c, NoCall, NoCall)
    BY DEF Fits, Stacked, Waits, Completing
  <2>3. UserStep(b, g, c, NoCall, NoCall)
    BY DEF Known, UserStep, Own, UserOf, Uses, Opens, Handles, Held
  <2>4. MakerStep(b, c, NoCall)
    BY DEF Known, MakerStep, MakerOf, Makes, Feeds
  <2>5. HookStep(b, g, c, NoCall, NoCall)
    BY Ranges DEF Known, HookStep, Own, Clean, Fresh, Hooks, Held, Uses, Opens, Handles
  <2>6. HolderStep(b, g, c, NoCall, NoCall)
    BY DEF Known, HolderStep, Held
  <2>7. RoundStep(b, c, NoCall)
    BY Ranges DEF Known, RoundStep, RoundOf, Past
  <2>8. KeptStep(b, c, NoCall)
    BY DEF KeptStep
  <2>9. CargoStep(b, g, c, NoCall, NoCall)
    <3>1. /\ ~Carrying(b) /\ ~Carrying(g) /\ ~Carrying(c) /\ ~Carrying(NoCall)
          /\ ~Begins(b) /\ ~Begins(c) /\ ~Begins(NoCall)
      BY DEF Carrying, Begins
    <3>2. expected' = expected /\ delivered' = delivered
      BY DEF set_final, LoopGoesOn
    <3>3. Idle(b, g, c, NoCall, NoCall)
      BY <1>5, <1>6, <3>1, <3>2, Ranges, Stays
    <3> QED BY <3>3 DEF CargoStep
  <2>10. AttendStep(b, g, c, NoCall, NoCall)
    BY <1>5, <1>6 DEF AttendStep, Own, Uses, Opens, Handles, Held, Makes, Full
  <2>11. LinkStep(t, b, c, NoCall, NoCall)
    BY <1>5, <1>6, Ranges DEF LinkStep, Held, Asks
  <2> QED BY <2>1, <2>2, <2>3, <2>4, <2>5, <2>6, <2>7, <2>8, <2>9, <2>10, <2>11 DEF Lawful
<1>8. HoldStep(b, g, c, NoCall, NoCall)
  BY <1>2, <1>3, Nothing DEF HoldStep, Completing, Looping, Held
<1> QED BY <1>1, <1>3, <1>4, <1>5, <1>6, <1>7, <1>8, Lightly

LEMMA ThenCasWaits ==
    ASSUME IInv, NEW t \in Threads, then_cas(t), ssb[Op(t)].m_state = "Init"
    PROVE  IInv' /\ Outlook(t)
<1>1. PICK b, g : Known(t, b, g)
  BY TopFacts DEF IInv, then_cas, At
<1>2. /\ b = Top(t) /\ stack[t] # <<>> /\ b \in Calls /\ b.op = "loop" /\ b.pc = "cas"
      /\ b.k \in Operations /\ Op(t) = b.k /\ b.k \in States /\ b.k \in created /\ g = NoCall
      /\ ssb[b.k].m_state = "Init" /\ ssb[b.k].m_callback # "none" /\ Output(b.k) \in created
      /\ Output(b.k) \in States
  BY <1>1, Ranges DEF IInv, Known, At, ProperCall, Waits, then_cas, Op, Operation, Operations,
     RoundOf, Creation
<1>3. PICK c \in Calls :
         /\ Steps(t, c, NoCall, NoCall)
         /\ c.op = "loop" /\ c.pc = "drop" /\ c.k = b.k /\ ~c.future.ready /\ c.future.state = Output(b.k)
  <2> DEFINE c == Holds(t, Deferred(Output(b.k)))
  <2>1. /\ c \in Calls /\ c.op = "loop" /\ c.pc = "drop" /\ c.k = b.k /\ ~c.future.ready
        /\ c.future.state = Output(b.k)
    BY <1>2, HoldsCall, NewFuture, Ranges
  <2>2. Becomes(t, <<c>>) /\ \A u \in Threads \ {t} : returned'[u] = returned[u]
    BY <1>2 DEF then_cas, LoopGoesOn, CompareExchange
  <2> HIDE DEF c
  <2> QED BY <1>2, <2>1, <2>2, Replaces DEF IInv, Waits
<1>4. /\ ssb' \in [States -> SharedStates] /\ created' = created /\ LoopGoesOn
      /\ \A s \in States : ssb'[s].result = ssb[s].result
      /\ \A s \in States : ssb'[s].m_callback = ssb[s].m_callback
      /\ \A s \in States : ssb'[s].m_continuation = ssb[s].m_continuation
      /\ \A s \in States : ssb'[s].m_is_just_for_continuation = ssb[s].m_is_just_for_continuation
      /\ \A s \in States : ssb'[s].m_refs = ssb[s].m_refs
      /\ \A s \in States : s # b.k => ssb'[s].m_state = ssb[s].m_state
      /\ ssb'[b.k].m_state = "Waiting"
  <2>1. ssb' = [ssb EXCEPT ![b.k].m_state = "Waiting"] /\ LoopGoesOn
    BY <1>2 DEF then_cas, CompareExchange
  <2>2. ssb' \in [States -> SharedStates]
    BY <1>2, <2>1, Changed DEF IInv, Typed
  <2> QED BY <1>2, <2>1, <2>2 DEF IInv, Typed, SharedStates, LoopGoesOn
<1>5. Typed' /\ created' = created
  BY <1>3, <1>4, TypedAfter DEF IInv, Happens
<1>6. Effect(b, g) /\ (\A x \in Outputs : LedTo(x)' <=> LedTo(x))
  <2>1. Own(b, g, b.k)
    BY <1>2 DEF Own, Uses, Opens, Held
  <2>2. Marks(b.k)
    BY <1>2, <2>1, <1>4, Ranges DEF IInv, Results, Continuations, Marks
  <2> QED BY <2>1, <2>2, Marking
<1>7. Lawful(t, b, g, c, NoCall, NoCall)
  <2> USE <1>1, <1>2, <1>3, <1>4, Nothing
  <2>1. ProperStep(b, c, NoCall, NoCall)
    <3>1. Output(b.k) \in Outputs /\ Output(b.k) >= Output(b.k)
      BY Ranges, NAssumption DEF Output, Operations
    <3> QED BY <1>2, <1>3, <3>1, Nothing, ProperNothing DEF ProperStep, ProperCall, Kinds
  <2>2. Fits(b, c, NoCall, NoCall)
    BY DEF Fits, Stacked, Waits, Completing
  <2>3. UserStep(b, g, c, NoCall, NoCall)
    BY Ranges DEF Known, UserStep, Own, UserOf, Uses, Opens, Handles, Held
  <2>4. MakerStep(b, c, NoCall)
    BY DEF Known, MakerStep, MakerOf, Makes, Feeds
  <2>5. HookStep(b, g, c, NoCall, NoCall)
    BY Ranges DEF Known, HookStep, Own, Clean, Fresh, Hooks, Held, Uses, Opens, Handles
  <2>6. HolderStep(b, g, c, NoCall, NoCall)
    BY DEF Known, HolderStep, Held
  <2>7. RoundStep(b, c, NoCall)
    BY Ranges DEF Known, RoundStep, RoundOf, Past
  <2>8. KeptStep(b, c, NoCall)
    BY DEF KeptStep
  <2>9. CargoStep(b, g, c, NoCall, NoCall)
    <3>1. /\ ~Carrying(b) /\ ~Carrying(g) /\ ~Carrying(c) /\ ~Carrying(NoCall)
          /\ ~Begins(b) /\ ~Begins(c) /\ ~Begins(NoCall)
      BY DEF Carrying, Begins
    <3>2. expected' = expected /\ delivered' = delivered
      BY DEF then_cas, LoopGoesOn
    <3>3. Idle(b, g, c, NoCall, NoCall)
      BY <1>5, <1>6, <3>1, <3>2, Ranges, Stays
    <3> QED BY <3>3 DEF CargoStep
  <2>10. AttendStep(b, g, c, NoCall, NoCall)
    BY <1>5, <1>6 DEF AttendStep, Own, Uses, Opens, Handles, Held, Makes, Full
  <2>11. LinkStep(t, b, c, NoCall, NoCall)
    BY <1>5, <1>6, Ranges DEF LinkStep, Held, Asks
  <2> QED BY <2>1, <2>2, <2>3, <2>4, <2>5, <2>6, <2>7, <2>8, <2>9, <2>10, <2>11 DEF Lawful
<1>8. HoldStep(b, g, c, NoCall, NoCall)
  BY <1>2, <1>3, Nothing DEF HoldStep, Completing, Looping, Held
<1> QED BY <1>1, <1>3, <1>4, <1>5, <1>6, <1>7, <1>8, Lightly

LEMMA PropagateCasWaits ==
    ASSUME IInv, NEW t \in Threads, propagate_cas(t), ssb[Future(t).state].m_state = "Init"
    PROVE  IInv' /\ Outlook(t)
<1>1. PICK b, g : Known(t, b, g)
  BY TopFacts DEF IInv, propagate_cas, At
<1>2. /\ b = Top(t) /\ stack[t] # <<>> /\ b.output \in Outputs /\ b \in Calls /\ b.op = "propagate"
      /\ b.pc = "cas" /\ ~b.future.ready /\ Future(t) = b.future /\ b.future.state \in Outputs
      /\ b.future.state \in States /\ b.future.state \in created /\ g = NoCall
      /\ ssb[b.future.state].m_state = "Init" /\ ssb[b.future.state].m_callback # "none"
  BY <1>1, Ranges DEF IInv, Known, At, ProperCall, Waits, propagate_cas, Future, Held, UserOf,
     Uses, Opens
<1>3. PICK c \in Calls :
         /\ Steps(t, c, NoCall, NoCall)
         /\ c.op = b.op /\ c.pc = "drop" /\ c.k = b.k /\ c.future = b.future /\ c.output = b.output
  <2> DEFINE c == [Top(t) EXCEPT !.pc = "drop"]
  <2>1. /\ c \in Calls /\ c.op = b.op /\ c.pc = "drop" /\ c.k = b.k /\ c.future = b.future
        /\ c.output = b.output
    BY <1>2 DEF Calls, Pcs
  <2>2. Becomes(t, <<c>>) /\ \A u \in Threads \ {t} : returned'[u] = returned[u]
    BY <1>2 DEF propagate_cas, LoopGoesOn, CompareExchange
  <2> HIDE DEF c
  <2> QED BY <1>2, <2>1, <2>2, Replaces DEF IInv, Waits
<1>4. /\ ssb' \in [States -> SharedStates] /\ created' = created /\ LoopGoesOn
      /\ \A s \in States : ssb'[s].result = ssb[s].result
      /\ \A s \in States : ssb'[s].m_callback = ssb[s].m_callback
      /\ \A s \in States : ssb'[s].m_continuation = ssb[s].m_continuation
      /\ \A s \in States : ssb'[s].m_is_just_for_continuation = ssb[s].m_is_just_for_continuation
      /\ \A s \in States : ssb'[s].m_refs = ssb[s].m_refs
      /\ \A s \in States : s # b.future.state => ssb'[s].m_state = ssb[s].m_state
      /\ ssb'[b.future.state].m_state = "Waiting"
  <2>1. ssb' = [ssb EXCEPT ![b.future.state].m_state = "Waiting"] /\ LoopGoesOn
    BY <1>2 DEF propagate_cas, CompareExchange
  <2>2. ssb' \in [States -> SharedStates]
    BY <1>2, <2>1, Changed DEF IInv, Typed
  <2> QED BY <1>2, <2>1, <2>2 DEF IInv, Typed, SharedStates, LoopGoesOn
<1>5. Typed' /\ created' = created
  BY <1>3, <1>4, TypedAfter DEF IInv, Happens
<1>6. Effect(b, g) /\ (\A x \in Outputs : LedTo(x)' <=> LedTo(x))
  <2>1. Own(b, g, b.future.state)
    BY <1>2 DEF Own, Uses, Opens, Held
  <2>2. Marks(b.future.state)
    BY <1>2, <2>1, <1>4, Ranges DEF IInv, Results, Continuations, Marks
  <2> QED BY <2>1, <2>2, Marking
<1>7. Lawful(t, b, g, c, NoCall, NoCall)
  <2> USE <1>1, <1>2, <1>3, <1>4, Nothing
  <2>1. ProperStep(b, c, NoCall, NoCall)
    BY ProperNothing, NAssumption DEF Known, ProperStep, ProperCall, Kinds
  <2>2. Fits(b, c, NoCall, NoCall)
    BY DEF Fits, Stacked, Waits, Completing
  <2>3. UserStep(b, g, c, NoCall, NoCall)
    BY DEF Known, UserStep, Own, UserOf, Uses, Opens, Handles, Held
  <2>4. MakerStep(b, c, NoCall)
    BY DEF Known, MakerStep, MakerOf, Makes, Feeds
  <2>5. HookStep(b, g, c, NoCall, NoCall)
    BY Ranges DEF Known, HookStep, Own, Clean, Fresh, Hooks, Held, Uses, Opens, Handles
  <2>6. HolderStep(b, g, c, NoCall, NoCall)
    BY DEF Known, HolderStep, Held
  <2>7. RoundStep(b, c, NoCall)
    BY Ranges DEF Known, RoundStep, RoundOf, Past
  <2>8. KeptStep(b, c, NoCall)
    BY DEF KeptStep
  <2>9. CargoStep(b, g, c, NoCall, NoCall)
    <3>1. /\ ~Carrying(b) /\ ~Carrying(g) /\ ~Carrying(c) /\ ~Carrying(NoCall)
          /\ ~Begins(b) /\ ~Begins(c) /\ ~Begins(NoCall)
      BY DEF Carrying, Begins
    <3>2. expected' = expected /\ delivered' = delivered
      BY DEF propagate_cas, LoopGoesOn
    <3>3. Idle(b, g, c, NoCall, NoCall)
      BY <1>5, <1>6, <3>1, <3>2, Ranges, Stays
    <3> QED BY <3>3 DEF CargoStep
  <2>10. AttendStep(b, g, c, NoCall, NoCall)
    BY <1>5, <1>6 DEF AttendStep, Own, Uses, Opens, Handles, Held, Makes, Full
  <2>11. LinkStep(t, b, c, NoCall, NoCall)
    BY <1>5, <1>6, Ranges DEF LinkStep, Held, Asks
  <2> QED BY <2>1, <2>2, <2>3, <2>4, <2>5, <2>6, <2>7, <2>8, <2>9, <2>10, <2>11 DEF Lawful
<1>8. HoldStep(b, g, c, NoCall, NoCall)
  BY <1>2, <1>3, Nothing DEF HoldStep, Completing, Looping, Held
<1> QED BY <1>1, <1>3, <1>4, <1>5, <1>6, <1>7, <1>8, Lightly

LEMMA GetAsyncCasWaits ==
    ASSUME IInv, NEW t \in Threads, get_async_cas(t), ssb[Future(t).state].m_state = "Init"
    PROVE  IInv' /\ Outlook(t)
<1>1. PICK b, g : Known(t, b, g)
  BY TopFacts DEF IInv, get_async_cas, At
<1>2. /\ b = Top(t) /\ stack[t] # <<>> /\ b \in Calls /\ b.op = "get_async" /\ b.pc = "cas"
      /\ ~b.future.ready /\ Future(t) = b.future /\ b.future.state \in Outputs
      /\ b.future.state \in States /\ b.future.state \in created /\ g = NoCall
      /\ ssb[b.future.state].m_state = "Init" /\ ssb[b.future.state].m_callback # "none"
  BY <1>1, Ranges DEF IInv, Known, At, ProperCall, Waits, get_async_cas, Future, Held, UserOf,
     Uses, Opens
<1>3. PICK c \in Calls :
         /\ Steps(t, c, NoCall, NoCall)
         /\ c.op = b.op /\ c.pc = "drop" /\ c.k = b.k /\ c.future = b.future /\ c.output = b.output
  <2> DEFINE c == [Top(t) EXCEPT !.pc = "drop"]
  <2>1. /\ c \in Calls /\ c.op = b.op /\ c.pc = "drop" /\ c.k = b.k /\ c.future = b.future
        /\ c.output = b.output
    BY <1>2 DEF Calls, Pcs
  <2>2. Becomes(t, <<c>>) /\ \A u \in Threads \ {t} : returned'[u] = returned[u]
    BY <1>2 DEF get_async_cas, LoopGoesOn, CompareExchange
  <2> HIDE DEF c
  <2> QED BY <1>2, <2>1, <2>2, Replaces DEF IInv, Waits
<1>4. /\ ssb' \in [States -> SharedStates] /\ created' = created /\ LoopGoesOn
      /\ \A s \in States : ssb'[s].result = ssb[s].result
      /\ \A s \in States : ssb'[s].m_callback = ssb[s].m_callback
      /\ \A s \in States : ssb'[s].m_continuation = ssb[s].m_continuation
      /\ \A s \in States : ssb'[s].m_is_just_for_continuation = ssb[s].m_is_just_for_continuation
      /\ \A s \in States : ssb'[s].m_refs = ssb[s].m_refs
      /\ \A s \in States : s # b.future.state => ssb'[s].m_state = ssb[s].m_state
      /\ ssb'[b.future.state].m_state = "Waiting"
  <2>1. ssb' = [ssb EXCEPT ![b.future.state].m_state = "Waiting"] /\ LoopGoesOn
    BY <1>2 DEF get_async_cas, CompareExchange
  <2>2. ssb' \in [States -> SharedStates]
    BY <1>2, <2>1, Changed DEF IInv, Typed
  <2> QED BY <1>2, <2>1, <2>2 DEF IInv, Typed, SharedStates, LoopGoesOn
<1>5. Typed' /\ created' = created
  BY <1>3, <1>4, TypedAfter DEF IInv, Happens
<1>6. Effect(b, g) /\ (\A x \in Outputs : LedTo(x)' <=> LedTo(x))
  <2>1. Own(b, g, b.future.state)
    BY <1>2 DEF Own, Uses, Opens, Held
  <2>2. Marks(b.future.state)
    BY <1>2, <2>1, <1>4, Ranges DEF IInv, Results, Continuations, Marks
  <2> QED BY <2>1, <2>2, Marking
<1>7. Lawful(t, b, g, c, NoCall, NoCall)
  <2> USE <1>1, <1>2, <1>3, <1>4, Nothing
  <2>1. ProperStep(b, c, NoCall, NoCall)
    BY ProperNothing, NAssumption DEF Known, ProperStep, ProperCall, Kinds
  <2>2. Fits(b, c, NoCall, NoCall)
    BY DEF Fits, Stacked, Waits, Completing
  <2>3. UserStep(b, g, c, NoCall, NoCall)
    BY DEF Known, UserStep, Own, UserOf, Uses, Opens, Handles, Held
  <2>4. MakerStep(b, c, NoCall)
    BY DEF Known, MakerStep, MakerOf, Makes, Feeds
  <2>5. HookStep(b, g, c, NoCall, NoCall)
    BY Ranges DEF Known, HookStep, Own, Clean, Fresh, Hooks, Held, Uses, Opens, Handles
  <2>6. HolderStep(b, g, c, NoCall, NoCall)
    BY DEF Known, HolderStep, Held
  <2>7. RoundStep(b, c, NoCall)
    BY Ranges DEF Known, RoundStep, RoundOf, Past
  <2>8. KeptStep(b, c, NoCall)
    BY DEF KeptStep
  <2>9. CargoStep(b, g, c, NoCall, NoCall)
    <3>1. /\ ~Carrying(b) /\ ~Carrying(g) /\ ~Carrying(c) /\ ~Carrying(NoCall)
          /\ ~Begins(b) /\ ~Begins(c) /\ ~Begins(NoCall)
      BY DEF Carrying, Begins
    <3>2. expected' = expected /\ delivered' = delivered
      BY DEF get_async_cas, LoopGoesOn
    <3>3. Idle(b, g, c, NoCall, NoCall)
      BY <1>5, <1>6, <3>1, <3>2, Ranges, Stays
    <3> QED BY <3>3 DEF CargoStep
  <2>10. AttendStep(b, g, c, NoCall, NoCall)
    BY <1>5, <1>6 DEF AttendStep, Own, Uses, Opens, Handles, Held, Makes, Full
  <2>11. LinkStep(t, b, c, NoCall, NoCall)
    BY <1>5, <1>6, Ranges DEF LinkStep, Held, Asks
  <2> QED BY <2>1, <2>2, <2>3, <2>4, <2>5, <2>6, <2>7, <2>8, <2>9, <2>10, <2>11 DEF Lawful
<1>8. HoldStep(b, g, c, NoCall, NoCall)
  BY <1>2, <1>3, Nothing DEF HoldStep, Completing, Looping, Held
<1> QED BY <1>1, <1>3, <1>4, <1>5, <1>6, <1>7, <1>8, Lightly

-----------------------------------------------------------------------------
(* ... those that take the result of an operation, ...                     *)

LEMMA ThenReadyEnds ==
    ASSUME IInv, NEW t \in Threads, At(t, "loop", "load"), ssb[Op(t)].m_state = "Finished",
           NEW j, j = Top(t).k, Moves(j),
           NEW outcome \in Outcomes, Becomes(t, <<Holds(t, Ready(outcome))>>), LoopEnds(outcome)
    PROVE  IInv' /\ Outlook(t)
<1>1. PICK b, g : Known(t, b, g)
  BY TopFacts DEF IInv, At
<1>2. /\ b = Top(t) /\ stack[t] # <<>> /\ b \in Calls /\ b.op = "loop" /\ b.pc = "load" /\ b.k = j
      /\ j \in Operations /\ j \in States /\ j \in created /\ g = NoCall /\ Own(b, g, j)
      /\ ssb[j].m_state = "Finished" /\ ssb[j].result # "moved" /\ Output(j) \notin created
  BY <1>1, Ranges DEF IInv, Known, At, ProperCall, Waits, Op, Operation, Operations, RoundOf,
     UserOf, Own, Uses, Opens
<1>3. PICK c \in Calls :
         /\ Steps(t, c, NoCall, NoCall)
         /\ c.op = "loop" /\ c.pc = "drop" /\ c.k = j /\ c.future.ready
         /\ c.future.outcome = outcome
  <2> DEFINE c == Holds(t, Ready(outcome))
  <2>1. /\ c \in Calls /\ c.op = "loop" /\ c.pc = "drop" /\ c.k = j
        /\ c.future.ready /\ c.future.outcome = outcome
    BY <1>2, HoldsCall, NewFuture
  <2>2. Becomes(t, <<c>>) /\ \A u \in Threads \ {t} : returned'[u] = returned[u]
    BY <1>2 DEF LoopGoesOn, LoopEnds
  <2> HIDE DEF c
  <2> QED BY <1>2, <2>1, <2>2, Replaces DEF IInv, Waits
<1>4. /\ ssb' \in [States -> SharedStates] /\ Happens(t)
      /\ ssb'[j].result = "moved"
      /\ \A s \in States : s # j => ssb'[s].result = ssb[s].result
      /\ \A s \in States : ssb'[s].m_state = ssb[s].m_state
      /\ \A s \in States : ssb'[s].m_callback = ssb[s].m_callback
      /\ \A s \in States : ssb'[s].m_continuation = ssb[s].m_continuation
      /\ \A s \in States : ssb'[s].m_is_just_for_continuation = ssb[s].m_is_just_for_continuation
      /\ \A s \in States : ssb'[s].m_refs = ssb[s].m_refs
  <2>1. Happens(t)
    BY Zenon DEF Happens
  <2> QED BY <1>2, <2>1, Moving DEF IInv
<1>5. Typed' /\ created' = created
  BY <1>3, <1>4, TypedAfter DEF IInv
<1>6. Effect(b, g) /\ (\A x \in Outputs : LedTo(x)' <=> LedTo(x))
  BY <1>2, <1>4, <1>5, Handing, Ranges DEF Outcomes, IInv, Continuations
<1>7. Lawful(t, b, g, c, NoCall, NoCall)
  <2> USE <1>1, <1>2, <1>3, <1>4, <1>5, Nothing
  <2>1. ProperStep(b, c, NoCall, NoCall)
    BY ProperNothing, NAssumption DEF Known, ProperStep, ProperCall, Kinds
  <2>2. Fits(b, c, NoCall, NoCall)
    BY DEF Fits, Stacked, Waits, Completing
  <2>3. UserStep(b, g, c, NoCall, NoCall)
    BY DEF Known, UserStep, Own, UserOf, Uses, Opens, Handles, Held
  <2>4. MakerStep(b, c, NoCall)
    BY DEF Known, MakerStep, MakerOf, Makes, Feeds
  <2>5. HookStep(b, g, c, NoCall, NoCall)
    BY Ranges DEF Known, HookStep, Own, Clean, Fresh, Hooks, Held, Uses, Opens, Handles
  <2>6. HolderStep(b, g, c, NoCall, NoCall)
    BY DEF Known, HolderStep, Held
  <2>7. RoundStep(b, c, NoCall)
    BY Ranges DEF Known, RoundStep, RoundOf, Past
  <2>8. KeptStep(b, c, NoCall)
    BY DEF KeptStep
  <2>9. CargoStep(b, g, c, NoCall, NoCall)
    <3>1. /\ ~Carrying(b) /\ ~Carrying(g) /\ ~Begins(b) /\ ~Begins(c) /\ ~Begins(NoCall)
          /\ Carrying(c) /\ ~Carrying(NoCall)
      BY DEF Carrying, Begins
    <3>2. expected' = outcome /\ delivered' = delivered
      BY DEF LoopEnds
    <3>3. Taken(b, g, c, NoCall, Null, outcome)
      BY <1>6, <3>1, <3>2, Ranges DEF Taken, Unmoved, EndsWith
    <3>4. Put(b, c, NoCall, NoCall, Null, outcome)
      BY <1>6, <3>1, <3>2 DEF Put
    <3>5. \A z \in Outputs \ {Null, Null} : ssb'[z].result = ssb[z].result
      BY <1>6, Ranges
    <3>6. outcome \in Outcomes /\ Null \in Outputs \cup {Null} /\ Null \in Outputs \cup {Null}
      BY <1>6
    <3> QED BY <3>3, <3>4, <3>5, <3>6 DEF CargoStep, Hands
  <2>10. AttendStep(b, g, c, NoCall, NoCall)
    BY <1>6 DEF AttendStep, Own, Uses, Opens, Handles, Held, Makes, Full
  <2>11. LinkStep(t, b, c, NoCall, NoCall)
    BY <1>6, Ranges DEF LinkStep, Held, Asks
  <2> QED BY <2>1, <2>2, <2>3, <2>4, <2>5, <2>6, <2>7, <2>8, <2>9, <2>10, <2>11 DEF Lawful
<1>8. HoldStep(b, g, c, NoCall, NoCall)
  BY <1>2, <1>3, Nothing DEF HoldStep, Completing, Looping, Held
<1> QED BY <1>1, <1>3, <1>4, <1>5, <1>6, <1>7, <1>8, Lightly

LEMMA ThenReadyGoesRound ==
    ASSUME IInv, NEW t \in Threads, At(t, "loop", "load"), ssb[Op(t)].m_state = "Finished",
           NEW j, j = Top(t).k, Moves(j),
           ssb[Op(t)].result \in called_on, Top(t).k < N,
           CallsThen(t, Loop(Top(t).k + 1), "take"), LoopGoesOn
    PROVE  IInv' /\ Outlook(t)
<1>1. PICK b, g : Known(t, b, g)
  BY TopFacts DEF IInv, At
<1>2. /\ b = Top(t) /\ stack[t] # <<>> /\ b \in Calls /\ b.op = "loop" /\ b.pc = "load" /\ b.k = j
      /\ j \in Operations /\ j \in States /\ j \in created /\ g = NoCall /\ Own(b, g, j)
      /\ ssb[j].m_state = "Finished" /\ ssb[j].result # "moved" /\ Output(j) \notin created
      /\ j + 1 \in Operations /\ j + 1 \in 0..N
  BY <1>1, Ranges, NAssumption DEF IInv, Known, At, ProperCall, Waits, Op, Operation, Operations,
     RoundOf, UserOf, Own, Uses, Opens
<1>3. PICK a \in Calls, c \in Calls :
         /\ Steps(t, c, a, NoCall)
         /\ c.op = b.op /\ c.pc = "take" /\ c.k = b.k /\ c.future = b.future /\ c.output = b.output
         /\ a.op = "loop" /\ a.pc = "start" /\ a.k = j + 1
  <2> DEFINE c == [Top(t) EXCEPT !.pc = "take"]
             a == Loop(Top(t).k + 1)
  <2>1. /\ c \in Calls /\ c.op = b.op /\ c.pc = "take" /\ c.k = b.k /\ c.future = b.future
        /\ c.output = b.output
    BY <1>2 DEF Calls, Pcs
  <2>2. a \in Calls /\ a.op = "loop" /\ a.pc = "start" /\ a.k = j + 1
    BY <1>2, NewCall
  <2>3. Becomes(t, <<a, c>>) /\ \A u \in Threads \ {t} : returned'[u] = returned[u]
    BY <1>2 DEF LoopGoesOn, CallsThen
  <2> HIDE DEF c, a
  <2> QED BY <1>2, <2>1, <2>2, <2>3, Pushes DEF IInv, Waits
<1>4. /\ ssb' \in [States -> SharedStates] /\ Happens(t)
      /\ ssb'[j].result = "moved"
      /\ \A s \in States : s # j => ssb'[s].result = ssb[s].result
      /\ \A s \in States : ssb'[s].m_state = ssb[s].m_state
      /\ \A s \in States : ssb'[s].m_callback = ssb[s].m_callback
      /\ \A s \in States : ssb'[s].m_continuation = ssb[s].m_continuation
      /\ \A s \in States : ssb'[s].m_is_just_for_continuation = ssb[s].m_is_just_for_continuation
      /\ \A s \in States : ssb'[s].m_refs = ssb[s].m_refs
  <2>1. Happens(t)
    BY DEF Happens
  <2> QED BY <1>2, <2>1, Moving DEF IInv
<1>5. Typed' /\ created' = created
  BY <1>3, <1>4, TypedAfter DEF IInv
<1>6. Effect(b, g) /\ (\A x \in Outputs : LedTo(x)' <=> LedTo(x))
  BY <1>2, <1>4, <1>5, Handing, Ranges DEF Outcomes, IInv, Continuations
<1>7. /\ j + 1 \notin created /\ Past(j + 1)'
      /\ \A p \in Places : Frame(p).op = "loop" => Frame(p).k # j + 1
  BY <1>2, <1>4, <1>5, NextRound
<1>8. Lawful(t, b, g, c, a, NoCall)
  <2> USE <1>1, <1>2, <1>3, <1>4, <1>5, Nothing
  <2>1. ProperStep(b, c, a, NoCall)
    BY ProperNothing, NAssumption DEF Known, ProperStep, ProperCall, Kinds
  <2>2. Fits(b, c, a, NoCall)
    BY DEF Fits, Stacked, Waits, Completing
  <2>3. UserStep(b, g, c, a, NoCall)
    BY DEF Known, UserStep, Own, UserOf, Uses, Opens, Handles, Held
  <2>4. MakerStep(b, c, a)
    BY DEF Known, MakerStep, MakerOf, Makes, Feeds
  <2>5. HookStep(b, g, c, a, NoCall)
    BY Ranges DEF Known, HookStep, Own, Clean, Fresh, Hooks, Held, Uses, Opens, Handles
  <2>6. HolderStep(b, g, c, a, NoCall)
    BY DEF Known, HolderStep, Held
  <2>7. RoundStep(b, c, a)
    BY Ranges, <1>7, NAssumption DEF Known, RoundStep, RoundOf, Past, Operations
  <2>8. KeptStep(b, c, a)
    BY DEF KeptStep
  <2>9. CargoStep(b, g, c, a, NoCall)
    <3>1. /\ ~Carrying(b) /\ ~Carrying(g) /\ ~Carrying(c) /\ ~Carrying(a) /\ ~Carrying(NoCall)
      BY DEF Carrying
    <3>2. expected' = expected /\ delivered' = delivered
      BY DEF LoopGoesOn
    <3>3. Unmoved(j) /\ Begins(a)
      BY <1>6, <1>7, Ranges DEF Begins, Unmoved
    <3>4. GoesOn(b, c, a)
      BY <1>6, <1>7, <3>2, <3>3 DEF GoesOn
    <3>5. \A z \in Outputs : ssb'[z].result = ssb[z].result
      BY <1>6, <1>7, Ranges
    <3>6. Idle(b, g, c, a, NoCall)
      BY <3>1, <3>2, <3>4, <3>5 DEF Idle
    <3> QED BY <3>6 DEF CargoStep
  <2>10. AttendStep(b, g, c, a, NoCall)
    BY <1>6, <1>7 DEF AttendStep, Own, Uses, Opens, Handles, Held, Makes, Full
  <2>11. LinkStep(t, b, c, a, NoCall)
    BY <1>6, <1>7, Ranges DEF LinkStep, Held, Asks
  <2> QED BY <2>1, <2>2, <2>3, <2>4, <2>5, <2>6, <2>7, <2>8, <2>9, <2>10, <2>11 DEF Lawful
<1>9. HoldStep(b, g, c, a, NoCall)
  BY <1>2, <1>3, Nothing DEF HoldStep, Completing, Looping, Held
<1> QED BY <1>1, <1>3, <1>4, <1>5, <1>6, <1>8, <1>9, Lightly

LEMMA StepHasSet ==
    ASSUME IInv, NEW t \in Threads, At(t, "step", "start"), NEW j, j = Top(t).k,
           NEW o, o = ssb[j].m_continuation, NEW outcome \in Outcomes, StepSets(t, outcome)
    PROVE  IInv' /\ Outlook(t)
<1>1. PICK b, g : Known(t, b, g)
  BY TopFacts DEF IInv, At
<1>2. /\ b = Top(t) /\ stack[t] # <<>> /\ b \in Calls /\ b.op = "step" /\ b.pc = "start" /\ b.k = j
      /\ g = NoCall
  BY <1>1, Ranges DEF IInv, Known, At, ProperCall, Waits
<1>3. /\ j \in Operations /\ j \in States /\ j \in created
      /\ ssb[j].result # "moved" /\ ssb[j].m_state = "Finished" /\ Own(b, g, j)
      /\ o \in Outputs /\ o \in States /\ o # j /\ o = Output(j) /\ o \in created
      /\ Fed(o) /\ (\A x \in States : Feeds(x, o) => x = j)
      /\ ssb[o].result = "none" /\ ssb[o].m_state # "Finished"
  BY <1>1, <1>2, StepFrom
<1>4. PICK c \in Calls :
         /\ Steps(t, c, NoCall, NoCall)
         /\ c.op = "finish" /\ c.pc = "exchange" /\ c.future.state = o
  <2> DEFINE c == Finish(o)
  <2>1. c \in Calls /\ c.op = "finish" /\ c.pc = "exchange" /\ c.future.state = o
    BY <1>2, <1>3, NewCall
  <2>2. Becomes(t, <<c>>) /\ \A u \in Threads \ {t} : returned'[u] = returned[u]
    BY <1>2 DEF LoopGoesOn, StepSets, LoopEnds, Op, Operation
  <2> HIDE DEF c
  <2> QED BY <1>2, <2>1, <2>2, Replaces DEF IInv, Waits
<1>5. /\ ssb' \in [States -> SharedStates] /\ Happens(t)
      /\ ssb'[o].result = outcome /\ ssb'[j].result = "moved"
      /\ \A s \in States : s # o /\ s # j => ssb'[s].result = ssb[s].result
      /\ \A s \in States : ssb'[s].m_state = ssb[s].m_state
      /\ \A s \in States : ssb'[s].m_callback = ssb[s].m_callback
      /\ \A s \in States : ssb'[s].m_continuation = ssb[s].m_continuation
      /\ \A s \in States : ssb'[s].m_is_just_for_continuation = ssb[s].m_is_just_for_continuation
      /\ \A s \in States : ssb'[s].m_refs = ssb[s].m_refs
  <2>1. Happens(t)
    BY Zenon DEF Happens, StepSets
  <2>2. Passes(o, outcome, j)
    BY <1>2, Zenon DEF StepSets, Passes, Op, Operation
  <2> QED BY <1>2, <1>3, <2>1, <2>2, Passing DEF IInv, Outcomes
<1>6. Typed' /\ created' = created
  BY <1>4, <1>5, TypedAfter DEF IInv
<1>7. Effect(b, g) /\ (\A x \in Outputs : LedTo(x)' <=> LedTo(x))
  BY <1>2, <1>3, <1>5, <1>6, Handing, Ranges DEF Outcomes, IInv, Continuations
<1>8. Lawful(t, b, g, c, NoCall, NoCall)
  <2> USE <1>1, <1>2, <1>3, <1>4, <1>5, <1>6, Nothing
  <2>1. ProperStep(b, c, NoCall, NoCall)
    BY ProperNothing, NAssumption DEF Known, ProperStep, ProperCall, Kinds
  <2>2. Fits(b, c, NoCall, NoCall)
    BY Ranges DEF Fits, Stacked, Waits, Completing
  <2>3. UserStep(b, g, c, NoCall, NoCall)
    BY DEF Known, UserStep, Own, UserOf, Uses, Opens, Handles, Held
  <2>4. MakerStep(b, c, NoCall)
    BY DEF Known, MakerStep, MakerOf, Makes, Feeds
  <2>5. HookStep(b, g, c, NoCall, NoCall)
    BY Ranges DEF Known, HookStep, Own, Clean, Fresh, Hooks, Held, Uses, Opens, Handles
  <2>6. HolderStep(b, g, c, NoCall, NoCall)
    BY DEF Known, HolderStep, Held
  <2>7. RoundStep(b, c, NoCall)
    BY Ranges DEF Known, RoundStep, RoundOf, Past
  <2>8. KeptStep(b, c, NoCall)
    BY DEF KeptStep, Backed, BackedBy
  <2>9. CargoStep(b, g, c, NoCall, NoCall)
    <3>1. /\ ~Carrying(b) /\ ~Carrying(g) /\ ~Begins(b) /\ ~Begins(c) /\ ~Begins(NoCall)
          /\ ~Carrying(c) /\ ~Carrying(NoCall)
      BY DEF Carrying, Begins
    <3>2. expected' = outcome /\ delivered' = delivered
      BY DEF StepSets, LoopEnds
    <3>3. Taken(b, g, c, NoCall, Null, outcome)
      BY <1>7, <3>1, <3>2, Ranges DEF Taken, Unmoved, EndsWith
    <3>4. Put(b, c, NoCall, NoCall, o, outcome)
      BY <1>7, <3>1, <3>2 DEF Put
    <3>5. \A z \in Outputs \ {Null, o} : ssb'[z].result = ssb[z].result
      BY <1>7, Ranges
    <3>6. outcome \in Outcomes /\ Null \in Outputs \cup {Null} /\ o \in Outputs \cup {Null}
      BY <1>7
    <3> QED BY <3>3, <3>4, <3>5, <3>6 DEF CargoStep, Hands
  <2>10. AttendStep(b, g, c, NoCall, NoCall)
    BY <1>7 DEF AttendStep, Own, Uses, Opens, Handles, Held, Makes, Full
  <2>11. LinkStep(t, b, c, NoCall, NoCall)
    BY <1>7, Ranges DEF LinkStep, Held, Asks
  <2> QED BY <2>1, <2>2, <2>3, <2>4, <2>5, <2>6, <2>7, <2>8, <2>9, <2>10, <2>11 DEF Lawful
<1>9. HoldStep(b, g, c, NoCall, NoCall)
  BY <1>2, <1>4, Nothing DEF HoldStep, Completing, Looping, Held
<1> QED BY <1>1, <1>4, <1>5, <1>6, <1>7, <1>8, <1>9, Lightly

LEMMA StepReturns ==
    ASSUME IInv, NEW t \in Threads, At(t, "step", "start"), NEW j, j = Top(t).k, Moves(j),
           NEW o, o = ssb[j].m_continuation, NEW outcome \in Outcomes,
           Becomes(t, <<Propagate(Ready(outcome), o)>>), LoopEnds(outcome)
    PROVE  IInv' /\ Outlook(t)
<1>1. PICK b, g : Known(t, b, g)
  BY TopFacts DEF IInv, At
<1>2. /\ b = Top(t) /\ stack[t] # <<>> /\ b \in Calls /\ b.op = "step" /\ b.pc = "start" /\ b.k = j
      /\ g = NoCall
  BY <1>1, Ranges DEF IInv, Known, At, ProperCall, Waits
<1>3. /\ j \in Operations /\ j \in States /\ j \in created
      /\ ssb[j].result # "moved" /\ ssb[j].m_state = "Finished" /\ Own(b, g, j)
      /\ o \in Outputs /\ o \in States /\ o # j /\ o = Output(j) /\ o \in created
      /\ Fed(o) /\ (\A x \in States : Feeds(x, o) => x = j)
      /\ ssb[o].result = "none" /\ ssb[o].m_state # "Finished"
  BY <1>1, <1>2, StepFrom
<1>4. PICK c \in Calls :
         /\ Steps(t, c, NoCall, NoCall)
         /\ c.op = "propagate" /\ c.pc = "load" /\ c.output = o
         /\ c.future.ready /\ c.future.outcome = outcome
  <2> DEFINE c == Propagate(Ready(outcome), o)
  <2>1. /\ c \in Calls /\ c.op = "propagate" /\ c.pc = "load" /\ c.output = o
        /\ c.future.ready /\ c.future.outcome = outcome
    BY <1>2, <1>3, NewCall, NewFuture
  <2>2. Becomes(t, <<c>>) /\ \A u \in Threads \ {t} : returned'[u] = returned[u]
    BY <1>2 DEF LoopGoesOn, LoopEnds
  <2> HIDE DEF c
  <2> QED BY <1>2, <2>1, <2>2, Replaces DEF IInv, Waits
<1>5. /\ ssb' \in [States -> SharedStates] /\ Happens(t)
      /\ ssb'[j].result = "moved"
      /\ \A s \in States : s # j => ssb'[s].result = ssb[s].result
      /\ \A s \in States : ssb'[s].m_state = ssb[s].m_state
      /\ \A s \in States : ssb'[s].m_callback = ssb[s].m_callback
      /\ \A s \in States : ssb'[s].m_continuation = ssb[s].m_continuation
      /\ \A s \in States : ssb'[s].m_is_just_for_continuation = ssb[s].m_is_just_for_continuation
      /\ \A s \in States : ssb'[s].m_refs = ssb[s].m_refs
  <2>1. Happens(t)
    BY Zenon DEF Happens
  <2> QED BY <1>2, <1>3, <2>1, Moving DEF IInv
<1>6. Typed' /\ created' = created
  BY <1>4, <1>5, TypedAfter DEF IInv
<1>7. Effect(b, g) /\ (\A x \in Outputs : LedTo(x)' <=> LedTo(x))
  BY <1>2, <1>3, <1>5, <1>6, Handing, Ranges DEF Outcomes, IInv, Continuations
<1>8. Lawful(t, b, g, c, NoCall, NoCall)
  <2> USE <1>1, <1>2, <1>3, <1>4, <1>5, <1>6, Nothing
  <2>1. ProperStep(b, c, NoCall, NoCall)
    BY ProperNothing, NAssumption DEF Known, ProperStep, ProperCall, Kinds
  <2>2. Fits(b, c, NoCall, NoCall)
    BY DEF Fits, Stacked, Waits, Completing
  <2>3. UserStep(b, g, c, NoCall, NoCall)
    BY DEF Known, UserStep, Own, UserOf, Uses, Opens, Handles, Held
  <2>4. MakerStep(b, c, NoCall)
    BY DEF Known, MakerStep, MakerOf, Makes, Feeds
  <2>5. HookStep(b, g, c, NoCall, NoCall)
    BY Ranges DEF Known, HookStep, Own, Clean, Fresh, Hooks, Held, Uses, Opens, Handles
  <2>6. HolderStep(b, g, c, NoCall, NoCall)
    BY DEF Known, HolderStep, Held
  <2>7. RoundStep(b, c, NoCall)
    BY Ranges DEF Known, RoundStep, RoundOf, Past
  <2>8. KeptStep(b, c, NoCall)
    BY DEF KeptStep
  <2>9. CargoStep(b, g, c, NoCall, NoCall)
    <3>1. /\ ~Carrying(b) /\ ~Carrying(g) /\ ~Begins(b) /\ ~Begins(c) /\ ~Begins(NoCall)
          /\ Carrying(c) /\ ~Carrying(NoCall)
      BY DEF Carrying, Begins
    <3>2. expected' = outcome /\ delivered' = delivered
      BY DEF LoopEnds
    <3>3. Taken(b, g, c, NoCall, Null, outcome)
      BY <1>7, <3>1, <3>2, Ranges DEF Taken, Unmoved, EndsWith
    <3>4. Put(b, c, NoCall, NoCall, Null, outcome)
      BY <1>7, <3>1, <3>2 DEF Put
    <3>5. \A z \in Outputs \ {Null, Null} : ssb'[z].result = ssb[z].result
      BY <1>7, Ranges
    <3>6. outcome \in Outcomes /\ Null \in Outputs \cup {Null} /\ Null \in Outputs \cup {Null}
      BY <1>7
    <3> QED BY <3>3, <3>4, <3>5, <3>6 DEF CargoStep, Hands
  <2>10. AttendStep(b, g, c, NoCall, NoCall)
    BY <1>7 DEF AttendStep, Own, Uses, Opens, Handles, Held, Makes, Full
  <2>11. LinkStep(t, b, c, NoCall, NoCall)
    BY <1>7, Ranges DEF LinkStep, Held, Asks
  <2> QED BY <2>1, <2>2, <2>3, <2>4, <2>5, <2>6, <2>7, <2>8, <2>9, <2>10, <2>11 DEF Lawful
<1>9. HoldStep(b, g, c, NoCall, NoCall)
  BY <1>2, <1>4, Nothing DEF HoldStep, Completing, Looping, Held
<1> QED BY <1>1, <1>4, <1>5, <1>6, <1>7, <1>8, <1>9, Lightly

LEMMA StepGoesRound ==
    ASSUME IInv, NEW t \in Threads, At(t, "step", "start"), NEW j, j = Top(t).k, Moves(j),
           NEW o, o = ssb[j].m_continuation, j < N,
           Becomes(t, <<Loop(j + 1), [Top(t) EXCEPT !.pc = "propagate", !.output = o]>>), LoopGoesOn
    PROVE  IInv' /\ Outlook(t)
<1>1. PICK b, g : Known(t, b, g)
  BY TopFacts DEF IInv, At
<1>2. /\ b = Top(t) /\ stack[t] # <<>> /\ b \in Calls /\ b.op = "step" /\ b.pc = "start" /\ b.k = j
      /\ g = NoCall /\ j + 1 \in Operations /\ j + 1 \in 0..N
  BY <1>1, Ranges, NAssumption DEF IInv, Known, At, ProperCall, Waits, Operations
<1>3. /\ j \in Operations /\ j \in States /\ j \in created
      /\ ssb[j].result # "moved" /\ ssb[j].m_state = "Finished" /\ Own(b, g, j)
      /\ o \in Outputs /\ o \in States /\ o # j /\ o = Output(j) /\ o \in created
      /\ Fed(o) /\ (\A x \in States : Feeds(x, o) => x = j)
      /\ ssb[o].result = "none" /\ ssb[o].m_state # "Finished"
  BY <1>1, <1>2, StepFrom
<1>4. PICK a \in Calls, c \in Calls :
         /\ Steps(t, c, a, NoCall)
         /\ c.op = "step" /\ c.pc = "propagate" /\ c.k = j /\ c.output = o /\ c.future = b.future
         /\ a.op = "loop" /\ a.pc = "start" /\ a.k = j + 1
  <2> DEFINE c == [Top(t) EXCEPT !.pc = "propagate", !.output = o]
             a == Loop(j + 1)
  <2>1. /\ c \in Calls /\ c.op = "step" /\ c.pc = "propagate" /\ c.k = j /\ c.output = o
        /\ c.future = b.future
    BY <1>2, <1>3 DEF Calls, Pcs
  <2>2. a \in Calls /\ a.op = "loop" /\ a.pc = "start" /\ a.k = j + 1
    BY <1>2, NewCall
  <2>3. Becomes(t, <<a, c>>) /\ \A u \in Threads \ {t} : returned'[u] = returned[u]
    BY <1>2 DEF LoopGoesOn
  <2> HIDE DEF c, a
  <2> QED BY <1>2, <2>1, <2>2, <2>3, Pushes DEF IInv, Waits
<1>5. /\ ssb' \in [States -> SharedStates] /\ Happens(t)
      /\ ssb'[j].result = "moved"
      /\ \A s \in States : s # j => ssb'[s].result = ssb[s].result
      /\ \A s \in States : ssb'[s].m_state = ssb[s].m_state
      /\ \A s \in States : ssb'[s].m_callback = ssb[s].m_callback
      /\ \A s \in States : ssb'[s].m_continuation = ssb[s].m_continuation
      /\ \A s \in States : ssb'[s].m_is_just_for_continuation = ssb[s].m_is_just_for_continuation
      /\ \A s \in States : ssb'[s].m_refs = ssb[s].m_refs
  <2>1. Happens(t)
    BY DEF Happens
  <2> QED BY <1>2, <1>3, <2>1, Moving DEF IInv
<1>6. Typed' /\ created' = created
  BY <1>4, <1>5, TypedAfter DEF IInv
<1>7. Effect(b, g) /\ (\A x \in Outputs : LedTo(x)' <=> LedTo(x))
  BY <1>2, <1>3, <1>5, <1>6, Handing, Ranges DEF Outcomes, IInv, Continuations
<1>8. /\ j + 1 \notin created /\ Past(j + 1)'
      /\ \A p \in Places : Frame(p).op = "loop" => Frame(p).k # j + 1
  BY <1>2, <1>3, <1>5, <1>6, NextRound
<1>9. Lawful(t, b, g, c, a, NoCall)
  <2> USE <1>1, <1>2, <1>3, <1>4, <1>5, <1>6, Nothing
  <2>1. ProperStep(b, c, a, NoCall)
    BY ProperNothing, NAssumption DEF Known, ProperStep, ProperCall, Kinds
  <2>2. Fits(b, c, a, NoCall)
    BY DEF Fits, Stacked, Waits, Completing
  <2>3. UserStep(b, g, c, a, NoCall)
    BY DEF Known, UserStep, Own, UserOf, Uses, Opens, Handles, Held
  <2>4. MakerStep(b, c, a)
    BY DEF Known, MakerStep, MakerOf, Makes, Feeds
  <2>5. HookStep(b, g, c, a, NoCall)
    BY Ranges DEF Known, HookStep, Own, Clean, Fresh, Hooks, Held, Uses, Opens, Handles
  <2>6. HolderStep(b, g, c, a, NoCall)
    BY DEF Known, HolderStep, Held
  <2>7. RoundStep(b, c, a)
    BY Ranges, <1>8 DEF Known, RoundStep, RoundOf, Past
  <2>8. KeptStep(b, c, a)
    BY DEF KeptStep
  <2>9. CargoStep(b, g, c, a, NoCall)
    <3>1. /\ ~Carrying(b) /\ ~Carrying(g) /\ ~Carrying(c) /\ ~Carrying(a) /\ ~Carrying(NoCall)
      BY DEF Carrying
    <3>2. expected' = expected /\ delivered' = delivered
      BY DEF LoopGoesOn
    <3>3. Unmoved(j) /\ Begins(a)
      BY <1>7, <1>8, Ranges DEF Begins, Unmoved
    <3>4. GoesOn(b, c, a)
      BY <1>7, <1>8, <3>2, <3>3 DEF GoesOn
    <3>5. \A z \in Outputs : ssb'[z].result = ssb[z].result
      BY <1>7, <1>8, Ranges
    <3>6. Idle(b, g, c, a, NoCall)
      BY <3>1, <3>2, <3>4, <3>5 DEF Idle
    <3> QED BY <3>6 DEF CargoStep
  <2>10. AttendStep(b, g, c, a, NoCall)
    BY <1>7, <1>8 DEF AttendStep, Own, Uses, Opens, Handles, Held, Makes, Full
  <2>11. LinkStep(t, b, c, a, NoCall)
    BY <1>7, <1>8, Ranges DEF LinkStep, Held, Asks
  <2> QED BY <2>1, <2>2, <2>3, <2>4, <2>5, <2>6, <2>7, <2>8, <2>9, <2>10, <2>11 DEF Lawful
<1>10. HoldStep(b, g, c, a, NoCall)
  BY <1>2, <1>4, Nothing DEF HoldStep, Completing, Looping, Held
<1> QED BY <1>1, <1>4, <1>5, <1>6, <1>7, <1>9, <1>10, Lightly

-----------------------------------------------------------------------------
(* ... those that hand a result over, ...                                  *)

LEMMA CompletesOperation ==
    ASSUME IInv, NEW t \in Threads, At(t, "complete", "start"), NEW j, j = Top(t).k, j \in created,
           NEW outcome \in Outcomes, Sets(j, outcome), CallsThen(t, Finish(j), "drop"), LoopGoesOn
    PROVE  IInv' /\ Outlook(t)
<1>1. PICK b, g : Known(t, b, g)
  BY TopFacts DEF IInv, At
<1>2. /\ b = Top(t) /\ stack[t] # <<>> /\ b \in Calls /\ b.op = "complete" /\ b.pc = "start"
      /\ b.k = j /\ g = NoCall /\ j \in Operations /\ j \in States /\ Makes(b, j)
      /\ ssb[j].result = "none" /\ ~Fed(j) /\ ssb[j].m_state # "Finished"
  BY <1>1, Ranges DEF IInv, Known, At, ProperCall, Waits, Makes, MakerOf, Fed
<1>3. PICK a \in Calls, c \in Calls :
         /\ Steps(t, c, a, NoCall)
         /\ c.op = b.op /\ c.pc = "drop" /\ c.k = b.k /\ c.future = b.future /\ c.output = b.output
         /\ a.op = "finish" /\ a.pc = "exchange" /\ a.future.state = j
  <2> DEFINE c == [Top(t) EXCEPT !.pc = "drop"]
             a == Finish(j)
  <2>1. /\ c \in Calls /\ c.op = b.op /\ c.pc = "drop" /\ c.k = b.k /\ c.future = b.future
        /\ c.output = b.output
    BY <1>2 DEF Calls, Pcs
  <2>2. a \in Calls /\ a.op = "finish" /\ a.pc = "exchange" /\ a.future.state = j
    BY <1>2, NewCall
  <2>3. Becomes(t, <<a, c>>) /\ \A u \in Threads \ {t} : returned'[u] = returned[u]
    BY <1>2 DEF LoopGoesOn, CallsThen
  <2> HIDE DEF c, a
  <2> QED BY <1>2, <2>1, <2>2, <2>3, Pushes DEF IInv, Waits
<1>4. /\ ssb' \in [States -> SharedStates] /\ Happens(t)
      /\ ssb'[j].result = outcome
      /\ \A x \in States : x # j => ssb'[x].result = ssb[x].result
      /\ \A x \in States : ssb'[x].m_state = ssb[x].m_state
      /\ \A x \in States : ssb'[x].m_callback = ssb[x].m_callback
      /\ \A x \in States : ssb'[x].m_continuation = ssb[x].m_continuation
      /\ \A x \in States : ssb'[x].m_is_just_for_continuation = ssb[x].m_is_just_for_continuation
      /\ \A x \in States : ssb'[x].m_refs = ssb[x].m_refs
  <2>1. Happens(t)
    BY DEF Happens
  <2> QED BY <1>2, <2>1, Setting DEF IInv, Outcomes
<1>5. Typed' /\ created' = created
  BY <1>3, <1>4, TypedAfter DEF IInv
<1>6. Effect(b, g) /\ (\A x \in Outputs : LedTo(x)' <=> LedTo(x))
  BY <1>2, <1>4, <1>5, Handing, Ranges DEF Fed, Outcomes
<1>7. Lawful(t, b, g, c, a, NoCall)
  <2> USE <1>1, <1>2, <1>3, <1>4, <1>5, Nothing
  <2>1. ProperStep(b, c, a, NoCall)
    BY ProperNothing, NAssumption DEF Known, ProperStep, ProperCall, Kinds
  <2>2. Fits(b, c, a, NoCall)
    BY DEF Fits, Stacked, Waits, Completing
  <2>3. UserStep(b, g, c, a, NoCall)
    BY DEF Known, UserStep, Own, UserOf, Uses, Opens, Handles, Held
  <2>4. MakerStep(b, c, a)
    BY DEF Known, MakerStep, MakerOf, Makes, Feeds, Fed
  <2>5. HookStep(b, g, c, a, NoCall)
    BY Ranges DEF Known, HookStep, Own, Clean, Fresh, Hooks, Held, Uses, Opens, Handles
  <2>6. HolderStep(b, g, c, a, NoCall)
    BY DEF Known, HolderStep, Held
  <2>7. RoundStep(b, c, a)
    BY Ranges DEF Known, RoundStep, RoundOf, Past
  <2>8. KeptStep(b, c, a)
    BY DEF KeptStep, Owns, Completing
  <2>9. CargoStep(b, g, c, a, NoCall)
    <3>1. /\ ~Carrying(b) /\ ~Carrying(g) /\ ~Carrying(c) /\ ~Carrying(a) /\ ~Carrying(NoCall)
          /\ ~Begins(b) /\ ~Begins(c) /\ ~Begins(a)
      BY DEF Carrying, Begins
    <3>2. expected' = expected /\ delivered' = delivered
      BY DEF LoopGoesOn
    <3>3. Idle(b, g, c, a, NoCall)
      BY <1>6, <3>1, <3>2, Ranges, Stays DEF Outcomes
    <3> QED BY <3>3 DEF CargoStep
  <2>10. AttendStep(b, g, c, a, NoCall)
    BY <1>6 DEF AttendStep, Own, Uses, Opens, Handles, Held, Makes, Full
  <2>11. LinkStep(t, b, c, a, NoCall)
    BY <1>6, Ranges DEF LinkStep, Held, Asks
  <2> QED BY <2>1, <2>2, <2>3, <2>4, <2>5, <2>6, <2>7, <2>8, <2>9, <2>10, <2>11 DEF Lawful
<1>8. HoldStep(b, g, c, a, NoCall)
  BY <1>2, <1>3, Nothing DEF HoldStep, Completing, Looping, Held
<1> QED BY <1>1, <1>3, <1>4, <1>5, <1>6, <1>7, <1>8, Lightly

LEMMA FillsFrom ==
    ASSUME IInv, NEW t \in Threads, At(t, "fill_from", "start"), NEW s, s = Top(t).future.state,
           NEW o, o = ssb[s].m_continuation, NEW v, v = ssb[s].result,
           Passes(o, v, s), Becomes(t, <<Finish(o)>>), LoopGoesOn
    PROVE  IInv' /\ Outlook(t)
<1>1. PICK b, g : Known(t, b, g)
  BY TopFacts DEF IInv, At
<1>2. /\ b = Top(t) /\ stack[t] # <<>> /\ b \in Calls /\ b.op = "fill_from" /\ b.pc = "start"
      /\ b.future.state = s /\ g = NoCall
  BY <1>1, Ranges DEF IInv, Known, At, ProperCall, Waits
<1>3. /\ s \in Outputs /\ s \in States /\ s \in created
      /\ ssb[s].result \in Outcomes /\ ssb[s].m_state = "Finished" /\ Own(b, g, s)
      /\ o \in Outputs /\ o \in States /\ o # s /\ o \in created
      /\ Fed(o) /\ (\A x \in States : Feeds(x, o) => x = s)
      /\ ssb[o].result = "none" /\ ssb[o].m_state # "Finished"
  BY <1>1, <1>2, FillFromFrom
<1>4. PICK c \in Calls :
         /\ Steps(t, c, NoCall, NoCall)
         /\ c.op = "finish" /\ c.pc = "exchange" /\ c.future.state = o
  <2> DEFINE c == Finish(o)
  <2>1. c \in Calls /\ c.op = "finish" /\ c.pc = "exchange" /\ c.future.state = o
    BY <1>2, <1>3, NewCall
  <2>2. Becomes(t, <<c>>) /\ \A u \in Threads \ {t} : returned'[u] = returned[u]
    BY <1>2 DEF LoopGoesOn
  <2> HIDE DEF c
  <2> QED BY <1>2, <2>1, <2>2, Replaces DEF IInv, Waits
<1>5. /\ ssb' \in [States -> SharedStates] /\ Happens(t)
      /\ ssb'[o].result = v /\ ssb'[s].result = "moved"
      /\ \A x \in States : x # o /\ x # s => ssb'[x].result = ssb[x].result
      /\ \A x \in States : ssb'[x].m_state = ssb[x].m_state
      /\ \A x \in States : ssb'[x].m_callback = ssb[x].m_callback
      /\ \A x \in States : ssb'[x].m_continuation = ssb[x].m_continuation
      /\ \A x \in States : ssb'[x].m_is_just_for_continuation = ssb[x].m_is_just_for_continuation
      /\ \A x \in States : ssb'[x].m_refs = ssb[x].m_refs
  <2>1. Happens(t)
    BY DEF Happens
  <2> QED BY <1>2, <1>3, <2>1, Passing DEF IInv, Outcomes
<1>6. Typed' /\ created' = created
  BY <1>4, <1>5, TypedAfter DEF IInv
<1>7. Effect(b, g) /\ (\A x \in Outputs : LedTo(x)' <=> LedTo(x))
  BY <1>2, <1>3, <1>5, <1>6, Handing, Ranges, SMTT(30) DEF Fed, Outcomes, Clean
<1>8. Lawful(t, b, g, c, NoCall, NoCall)
  <2> USE <1>1, <1>2, <1>3, <1>4, <1>5, <1>6, Nothing
  <2>1. ProperStep(b, c, NoCall, NoCall)
    BY ProperNothing, NAssumption DEF Known, ProperStep, ProperCall, Kinds
  <2>2. Fits(b, c, NoCall, NoCall)
    BY Ranges DEF Fits, Stacked, Waits, Completing
  <2>3. UserStep(b, g, c, NoCall, NoCall)
    BY DEF Known, UserStep, Own, UserOf, Uses, Opens, Handles, Held
  <2>4. MakerStep(b, c, NoCall)
    BY SMTT(30) DEF Known, MakerStep, MakerOf, Makes, Feeds
  <2>5. HookStep(b, g, c, NoCall, NoCall)
    BY Ranges DEF Known, HookStep, Own, Clean, Fresh, Hooks, Held, Uses, Opens, Handles
  <2>6. HolderStep(b, g, c, NoCall, NoCall)
    BY DEF Known, HolderStep, Held
  <2>7. RoundStep(b, c, NoCall)
    BY Ranges DEF Known, RoundStep, RoundOf, Past
  <2>8. KeptStep(b, c, NoCall)
    BY DEF KeptStep, Backed, BackedBy
  <2>9. CargoStep(b, g, c, NoCall, NoCall)
    <3>1. /\ ~Carrying(b) /\ ~Carrying(g) /\ ~Begins(b) /\ ~Begins(c) /\ ~Begins(NoCall)
          /\ ~Carrying(c) /\ ~Carrying(NoCall)
      BY DEF Carrying, Begins
    <3>2. expected' = expected /\ delivered' = delivered
      BY DEF LoopGoesOn
    <3>3. Taken(b, g, c, NoCall, s, v)
      BY <1>7, <3>1, <3>2,
         Ranges, Onward DEF Taken, Unmoved, EndsWith
    <3>4. Put(b, c, NoCall, NoCall, o, v)
      BY <1>7, <3>1, <3>2 DEF Put
    <3>5. \A z \in Outputs \ {s, o} : ssb'[z].result = ssb[z].result
      BY <1>7, Ranges
    <3>6. v \in Outcomes /\ s \in Outputs \cup {Null} /\ o \in Outputs \cup {Null}
      BY <1>7
    <3> QED BY <3>3, <3>4, <3>5, <3>6 DEF CargoStep, Hands
  <2>10. AttendStep(b, g, c, NoCall, NoCall)
    BY <1>7 DEF AttendStep, Own, Uses, Opens, Handles, Held, Makes, Full
  <2>11. LinkStep(t, b, c, NoCall, NoCall)
    BY <1>7, Ranges DEF LinkStep, Held, Asks
  <2> QED BY <2>1, <2>2, <2>3, <2>4, <2>5, <2>6, <2>7, <2>8, <2>9, <2>10, <2>11 DEF Lawful
<1>9. HoldStep(b, g, c, NoCall, NoCall)
  BY <1>2, <1>4, Nothing DEF HoldStep, Completing, Looping, Held
<1> QED BY <1>1, <1>4, <1>5, <1>6, <1>7, <1>8, <1>9, Lightly

LEMMA GetAsyncReady ==
    ASSUME IInv, NEW t \in Threads, At(t, "get_async", "start"), NEW f, f = returned[t], f.ready,
           NEW v, v = f.outcome,
           Deliver(v), ssb' = ssb, Becomes(t, <<[Top(t) EXCEPT !.pc = "drop", !.future = f]>>)
    PROVE  IInv' /\ Outlook(t)
<1>1. PICK b, g : Known(t, b, g)
  BY TopFacts DEF IInv, At
<1>2. /\ b = Top(t) /\ stack[t] # <<>> /\ b \in Calls /\ b.op = "get_async" /\ b.pc = "start"
      /\ b.k = 0 /\ g.op = "returned" /\ g.future = f /\ f \in Futures /\ v \in Outcomes
  BY <1>1, Ranges, Returned DEF IInv, Known, At, ProperCall, Waits, Futures
<1>3. PICK c \in Calls :
         /\ Steps(t, c, NoCall, NoCall)
         /\ c.op = "get_async" /\ c.pc = "drop" /\ c.k = b.k /\ c.future = f
  <2> DEFINE c == [Top(t) EXCEPT !.pc = "drop", !.future = f]
  <2>1. c \in Calls /\ c.op = "get_async" /\ c.pc = "drop" /\ c.k = b.k /\ c.future = f
    BY <1>2 DEF Calls, Pcs
  <2>2. Becomes(t, <<c>>) /\ \A u \in Threads \ {t} : returned'[u] = returned[u]
    BY <1>2 DEF LoopGoesOn, Deliver
  <2> HIDE DEF c
  <2> QED BY <1>2, <2>1, <2>2, Replaces DEF IInv, Waits
<1>4. ssb' = ssb /\ Happens(t)
  BY <1>2 DEF Happens
<1>5. Typed' /\ created' = created
  BY <1>3, <1>4, TypedAfter DEF IInv, Typed
<1>6. Effect(b, g) /\ (\A x \in Outputs : LedTo(x)' <=> LedTo(x))
  BY <1>4, <1>5, Resting DEF LedTo, Deleted
<1>7. Lawful(t, b, g, c, NoCall, NoCall)
  <2> USE <1>1, <1>2, <1>3, <1>4, <1>5, Nothing
  <2>1. ProperStep(b, c, NoCall, NoCall)
    BY ProperNothing, NAssumption DEF Known, ProperStep, ProperCall, Kinds
  <2>2. Fits(b, c, NoCall, NoCall)
    BY DEF Fits, Stacked, Waits, Completing
  <2>3. UserStep(b, g, c, NoCall, NoCall)
    BY DEF Known, UserStep, Own, UserOf, Uses, Opens, Handles, Held
  <2>4. MakerStep(b, c, NoCall)
    BY DEF Known, MakerStep, MakerOf, Makes, Feeds
  <2>5. HookStep(b, g, c, NoCall, NoCall)
    BY Ranges DEF Known, HookStep, Own, Clean, Fresh, Hooks, Held, Uses, Opens, Handles
  <2>6. HolderStep(b, g, c, NoCall, NoCall)
    BY DEF Known, HolderStep, Held
  <2>7. RoundStep(b, c, NoCall)
    BY Ranges DEF Known, RoundStep, RoundOf, Past
  <2>8. KeptStep(b, c, NoCall)
    BY DEF KeptStep
  <2>9. CargoStep(b, g, c, NoCall, NoCall)
    <3>1. /\ ~Carrying(b) /\ Carrying(g) /\ ~Begins(b) /\ ~Begins(c) /\ ~Begins(NoCall)
          /\ ~Carrying(c) /\ ~Carrying(NoCall)
      BY DEF Carrying, Begins
    <3>2. expected' = expected /\ delivered' = Append(delivered, v)
      BY DEF Deliver
    <3>3. Taken(b, g, c, NoCall, Null, v)
      BY <1>6, <3>1, <3>2,
         Ranges, Onward DEF Taken, Unmoved, EndsWith
    <3>4. Put(b, c, NoCall, NoCall, Null, v)
      BY <1>6, <3>1, <3>2 DEF Put
    <3>5. \A z \in Outputs \ {Null, Null} : ssb'[z].result = ssb[z].result
      BY <1>6, Ranges
    <3>6. v \in Outcomes /\ Null \in Outputs \cup {Null} /\ Null \in Outputs \cup {Null}
      BY <1>6
    <3> QED BY <3>3, <3>4, <3>5, <3>6 DEF CargoStep, Hands
  <2>10. AttendStep(b, g, c, NoCall, NoCall)
    BY <1>6 DEF AttendStep, Own, Uses, Opens, Handles, Held, Makes, Full
  <2>11. LinkStep(t, b, c, NoCall, NoCall)
    BY <1>6, Ranges DEF LinkStep, Held, Asks
  <2> QED BY <2>1, <2>2, <2>3, <2>4, <2>5, <2>6, <2>7, <2>8, <2>9, <2>10, <2>11 DEF Lawful
<1>8. HoldStep(b, g, c, NoCall, NoCall)
  BY <1>2, <1>3, Nothing DEF HoldStep, Completing, Looping, Held
<1> QED BY <1>1, <1>3, <1>4, <1>5, <1>6, <1>7, <1>8, Lightly

LEMMA GetAsyncFinished ==
    ASSUME IInv, NEW t \in Threads, At(t, "get_async", "start"), NEW f, f = returned[t], ~f.ready,
           NEW s, s = f.state,
           ssb[s].m_state = "Finished", NEW v, v = ssb[s].result,
           Deliver(v), Moves(s), Becomes(t, <<[Top(t) EXCEPT !.pc = "drop", !.future = f]>>)
    PROVE  IInv' /\ Outlook(t)
<1>1. PICK b, g : Known(t, b, g)
  BY TopFacts DEF IInv, At
<1>2. /\ b = Top(t) /\ stack[t] # <<>> /\ b \in Calls /\ b.op = "get_async" /\ b.pc = "start"
      /\ b.k = 0 /\ g.op = "returned" /\ g.future = f /\ f \in Futures
  BY <1>1, Ranges, Returned DEF IInv, Known, At, ProperCall, Waits
<1>3. /\ s \in Outputs /\ s \in States /\ s \in created /\ Own(b, g, s)
      /\ ssb[s].m_continuation = Null /\ ssb[s].result # "moved" /\ v \in Outcomes
  <2>1. s \in Outputs /\ s \in States /\ Held(g, s) /\ Uses(g, s) /\ Fresh(g, s)
    BY <1>1, <1>2, Ranges DEF Known, Waits, Held, Uses, Opens, Fresh
  <2>2. s \in created /\ ssb[s].result # "moved" /\ ssb[s].m_continuation = Null
    BY <1>1, <2>1 DEF Known, UserOf, Clean
  <2>3. v \in Outcomes
    BY <2>1, <2>2 DEF IInv, Results, Typed, SharedStates
  <2> QED BY <2>1, <2>2, <2>3 DEF Own
<1>4. PICK c \in Calls :
         /\ Steps(t, c, NoCall, NoCall)
         /\ c.op = "get_async" /\ c.pc = "drop" /\ c.k = b.k /\ c.future = f
  <2> DEFINE c == [Top(t) EXCEPT !.pc = "drop", !.future = f]
  <2>1. c \in Calls /\ c.op = "get_async" /\ c.pc = "drop" /\ c.k = b.k /\ c.future = f
    BY <1>2 DEF Calls, Pcs
  <2>2. Becomes(t, <<c>>) /\ \A u \in Threads \ {t} : returned'[u] = returned[u]
    BY <1>2 DEF LoopGoesOn, Deliver
  <2> HIDE DEF c
  <2> QED BY <1>2, <2>1, <2>2, Replaces DEF IInv, Waits
<1>5. /\ ssb' \in [States -> SharedStates] /\ Happens(t)
      /\ ssb'[s].result = "moved"
      /\ \A x \in States : x # s => ssb'[x].result = ssb[x].result
      /\ \A x \in States : ssb'[x].m_state = ssb[x].m_state
      /\ \A x \in States : ssb'[x].m_callback = ssb[x].m_callback
      /\ \A x \in States : ssb'[x].m_continuation = ssb[x].m_continuation
      /\ \A x \in States : ssb'[x].m_is_just_for_continuation = ssb[x].m_is_just_for_continuation
      /\ \A x \in States : ssb'[x].m_refs = ssb[x].m_refs
  <2>1. Happens(t)
    BY <1>3, Zenon DEF Happens
  <2> QED BY <1>2, <1>3, <2>1, Moving DEF IInv
<1>6. Typed' /\ created' = created
  BY <1>4, <1>5, TypedAfter DEF IInv
<1>7. Effect(b, g) /\ (\A x \in Outputs : LedTo(x)' <=> LedTo(x))
  BY <1>2, <1>3, <1>5, <1>6, Handing, Ranges DEF Fed, Outcomes, Clean
<1>8. Lawful(t, b, g, c, NoCall, NoCall)
  <2> USE <1>1, <1>2, <1>3, <1>4, <1>5, <1>6, Nothing
  <2>1. ProperStep(b, c, NoCall, NoCall)
    BY ProperNothing, NAssumption DEF Known, ProperStep, ProperCall, Kinds
  <2>2. Fits(b, c, NoCall, NoCall)
    BY DEF Fits, Stacked, Waits, Completing
  <2>3. UserStep(b, g, c, NoCall, NoCall)
    BY DEF Known, UserStep, Own, UserOf, Uses, Opens, Handles, Held
  <2>4. MakerStep(b, c, NoCall)
    BY DEF Known, MakerStep, MakerOf, Makes, Feeds
  <2>5. HookStep(b, g, c, NoCall, NoCall)
    BY Ranges DEF Known, HookStep, Own, Clean, Fresh, Hooks, Held, Uses, Opens, Handles
  <2>6. HolderStep(b, g, c, NoCall, NoCall)
    BY DEF Known, HolderStep, Held
  <2>7. RoundStep(b, c, NoCall)
    BY Ranges DEF Known, RoundStep, RoundOf, Past
  <2>8. KeptStep(b, c, NoCall)
    BY DEF KeptStep
  <2>9. CargoStep(b, g, c, NoCall, NoCall)
    <3>1. /\ ~Carrying(b) /\ ~Carrying(g) /\ ~Begins(b) /\ ~Begins(c) /\ ~Begins(NoCall)
          /\ ~Carrying(c) /\ ~Carrying(NoCall)
      BY DEF Carrying, Begins
    <3>2. expected' = expected /\ delivered' = Append(delivered, v)
      BY DEF Deliver
    <3>3. Taken(b, g, c, NoCall, s, v)
      BY <1>7, <3>1, <3>2,
         Ranges, Onward DEF Taken, Unmoved, EndsWith
    <3>4. Put(b, c, NoCall, NoCall, Null, v)
      BY <1>7, <3>1, <3>2 DEF Put
    <3>5. \A z \in Outputs \ {s, Null} : ssb'[z].result = ssb[z].result
      BY <1>7, Ranges
    <3>6. v \in Outcomes /\ s \in Outputs \cup {Null} /\ Null \in Outputs \cup {Null}
      BY <1>7
    <3> QED BY <3>3, <3>4, <3>5, <3>6 DEF CargoStep, Hands
  <2>10. AttendStep(b, g, c, NoCall, NoCall)
    BY <1>7 DEF AttendStep, Own, Uses, Opens, Handles, Held, Makes, Full
  <2>11. LinkStep(t, b, c, NoCall, NoCall)
    BY <1>7, Ranges DEF LinkStep, Held, Asks
  <2> QED BY <2>1, <2>2, <2>3, <2>4, <2>5, <2>6, <2>7, <2>8, <2>9, <2>10, <2>11 DEF Lawful
<1>9. HoldStep(b, g, c, NoCall, NoCall)
  BY <1>2, <1>4, Nothing DEF HoldStep, Completing, Looping, Held
<1> QED BY <1>1, <1>4, <1>5, <1>6, <1>7, <1>8, <1>9, Lightly

LEMMA CallsFinal ==
    ASSUME IInv, NEW t \in Threads, At(t, "finish", "callback"), NEW s, s = Top(t).future.state,
           ssb[s].m_callback = "final",
           NEW v, v = ssb[s].result, Deliver(v), Moves(s), Becomes(t, <<>>)
    PROVE  IInv' /\ Outlook(t)
<1>1. PICK b, g : Known(t, b, g)
  BY TopFacts DEF IInv, At
<1>2. /\ b = Top(t) /\ stack[t] # <<>> /\ b \in Calls /\ b.op = "finish" /\ b.pc = "callback"
      /\ b.future.state = s /\ g = NoCall
  BY <1>1, Ranges DEF IInv, Known, At, ProperCall, Waits
<1>3. /\ s \in Outputs /\ s \in States /\ s \in created /\ Own(b, g, s)
      /\ ssb[s].m_state = "Finished" /\ ssb[s].m_continuation = Null /\ v \in Outcomes
  <2>1. s \in States /\ Handles(b, s) /\ Uses(b, s)
    BY <1>1, <1>2 DEF Known, ProperCall, Handles, Uses
  <2>2. s \in created /\ ssb[s].result # "moved" /\ ssb[s].m_state = "Finished"
    BY <1>1, <2>1 DEF Known, UserOf
  <2>3. s \in Outputs /\ ssb[s].m_continuation = Null
    BY <2>1, Ranges DEF IInv, Creation, Continuations
  <2>4. v \in Outcomes
    BY <2>1, <2>2 DEF IInv, Results, Typed, SharedStates
  <2> QED BY <2>1, <2>2, <2>3, <2>4 DEF Own
<1>4. Steps(t, NoCall, NoCall, NoCall)
  <2>1. Becomes(t, <<>>) /\ \A u \in Threads \ {t} : returned'[u] = returned[u]
    BY <1>2 DEF LoopGoesOn, Deliver
  <2> QED BY <1>2, <2>1, Leaves DEF IInv
<1>5. /\ ssb' \in [States -> SharedStates] /\ Happens(t)
      /\ ssb'[s].result = "moved"
      /\ \A x \in States : x # s => ssb'[x].result = ssb[x].result
      /\ \A x \in States : ssb'[x].m_state = ssb[x].m_state
      /\ \A x \in States : ssb'[x].m_callback = ssb[x].m_callback
      /\ \A x \in States : ssb'[x].m_continuation = ssb[x].m_continuation
      /\ \A x \in States : ssb'[x].m_is_just_for_continuation = ssb[x].m_is_just_for_continuation
      /\ \A x \in States : ssb'[x].m_refs = ssb[x].m_refs
  <2>1. Happens(t)
    BY <1>3, Zenon DEF Happens
  <2> QED BY <1>2, <1>3, <2>1, Moving DEF IInv
<1>6. Typed' /\ created' = created
  BY <1>4, <1>5, TypedAfter DEF IInv
<1>7. Effect(b, g) /\ (\A x \in Outputs : LedTo(x)' <=> LedTo(x))
  BY <1>2, <1>3, <1>5, <1>6, Handing, Ranges DEF Fed, Outcomes, Clean
<1>8. Lawful(t, b, g, NoCall, NoCall, NoCall)
  <2> USE <1>1, <1>2, <1>3, <1>4, <1>5, <1>6, Nothing
  <2>1. ProperStep(b, NoCall, NoCall, NoCall)
    BY ProperNothing, NAssumption DEF Known, ProperStep, ProperCall, Kinds
  <2>2. Fits(b, NoCall, NoCall, NoCall)
    BY DEF Fits, Stacked, Waits, Completing
  <2>3. UserStep(b, g, NoCall, NoCall, NoCall)
    BY DEF Known, UserStep, Own, UserOf, Uses, Opens, Handles, Held
  <2>4. MakerStep(b, NoCall, NoCall)
    BY DEF Known, MakerStep, MakerOf, Makes, Feeds
  <2>5. HookStep(b, g, NoCall, NoCall, NoCall)
    BY Ranges DEF Known, HookStep, Own, Clean, Fresh, Hooks, Held, Uses, Opens, Handles
  <2>6. HolderStep(b, g, NoCall, NoCall, NoCall)
    BY DEF Known, HolderStep, Held
  <2>7. RoundStep(b, NoCall, NoCall)
    BY Ranges DEF Known, RoundStep, RoundOf, Past
  <2>8. KeptStep(b, NoCall, NoCall)
    BY DEF KeptStep
  <2>9. CargoStep(b, g, NoCall, NoCall, NoCall)
    <3>1. /\ ~Carrying(b) /\ ~Carrying(g) /\ ~Begins(b) /\ ~Begins(NoCall)
          /\ ~Carrying(NoCall)
      BY DEF Carrying, Begins
    <3>2. expected' = expected /\ delivered' = Append(delivered, v)
      BY DEF Deliver
    <3>3. Taken(b, g, NoCall, NoCall, s, v)
      BY <1>7, <3>1, <3>2,
         Ranges, Onward DEF Taken, Unmoved, EndsWith
    <3>4. Put(b, NoCall, NoCall, NoCall, Null, v)
      BY <1>7, <3>1, <3>2 DEF Put
    <3>5. \A z \in Outputs \ {s, Null} : ssb'[z].result = ssb[z].result
      BY <1>7, Ranges
    <3>6. v \in Outcomes /\ s \in Outputs \cup {Null} /\ Null \in Outputs \cup {Null}
      BY <1>7
    <3> QED BY <3>3, <3>4, <3>5, <3>6 DEF CargoStep, Hands
  <2>10. AttendStep(b, g, NoCall, NoCall, NoCall)
    BY <1>7 DEF AttendStep, Own, Uses, Opens, Handles, Held, Makes, Full
  <2>11. LinkStep(t, b, NoCall, NoCall, NoCall)
    BY <1>7, Ranges DEF LinkStep, Held, Asks
  <2> QED BY <2>1, <2>2, <2>3, <2>4, <2>5, <2>6, <2>7, <2>8, <2>9, <2>10, <2>11 DEF Lawful
<1>9. HoldStep(b, g, NoCall, NoCall, NoCall)
  BY <1>2, <1>4, Nothing DEF HoldStep, Completing, Looping, Held
<1> QED BY <1>1, <1>4, <1>5, <1>6, <1>7, <1>8, <1>9, Lightly

LEMMA PropagateReady ==
    ASSUME IInv, NEW t \in Threads, At(t, "propagate", "load"), NEW o, o = Top(t).output,
           Top(t).future.ready,
           NEW v, v = Top(t).future.outcome, Sets(o, v), CallsThen(t, Finish(o), "drop"), LoopGoesOn
    PROVE  IInv' /\ Outlook(t)
<1>1. PICK b, g : Known(t, b, g)
  BY TopFacts DEF IInv, At
<1>2. /\ b = Top(t) /\ stack[t] # <<>> /\ b \in Calls /\ b.op = "propagate" /\ b.pc = "load"
      /\ b.output = o /\ g = NoCall /\ b.future.ready /\ v \in Outcomes
  BY <1>1, Ranges DEF IInv, Known, At, ProperCall, Waits, Calls, Futures
<1>3. /\ o \in Outputs /\ o \in States /\ o \in created /\ Makes(b, o) /\ ~Fed(o)
      /\ ssb[o].result = "none" /\ ssb[o].m_state # "Finished"
      /\ o - N \in Operations /\ o - N \in States /\ o - N # o
      /\ ssb[o - N].result = "moved" /\ ssb[o - N].m_continuation = o
  BY <1>1, <1>2, TargetFrom
<1>4. PICK a \in Calls, c \in Calls :
         /\ Steps(t, c, a, NoCall)
         /\ c.op = b.op /\ c.pc = "drop" /\ c.k = b.k /\ c.future = b.future /\ c.output = b.output
         /\ a.op = "finish" /\ a.pc = "exchange" /\ a.future.state = o
  <2> DEFINE c == [Top(t) EXCEPT !.pc = "drop"]
             a == Finish(o)
  <2>1. /\ c \in Calls /\ c.op = b.op /\ c.pc = "drop" /\ c.k = b.k /\ c.future = b.future
        /\ c.output = b.output
    BY <1>2 DEF Calls, Pcs
  <2>2. a \in Calls /\ a.op = "finish" /\ a.pc = "exchange" /\ a.future.state = o
    BY <1>2, <1>3, NewCall
  <2>3. Becomes(t, <<a, c>>) /\ \A u \in Threads \ {t} : returned'[u] = returned[u]
    BY <1>2 DEF LoopGoesOn, CallsThen
  <2> HIDE DEF c, a
  <2> QED BY <1>2, <2>1, <2>2, <2>3, Pushes DEF IInv, Waits
<1>5. /\ ssb' \in [States -> SharedStates] /\ Happens(t)
      /\ ssb'[o].result = v
      /\ \A x \in States : x # o => ssb'[x].result = ssb[x].result
      /\ \A x \in States : ssb'[x].m_state = ssb[x].m_state
      /\ \A x \in States : ssb'[x].m_callback = ssb[x].m_callback
      /\ \A x \in States : ssb'[x].m_continuation = ssb[x].m_continuation
      /\ \A x \in States : ssb'[x].m_is_just_for_continuation = ssb[x].m_is_just_for_continuation
      /\ \A x \in States : ssb'[x].m_refs = ssb[x].m_refs
  <2>1. Happens(t)
    BY DEF Happens
  <2> QED BY <1>2, <1>3, <2>1, Setting DEF IInv, Outcomes
<1>6. Typed' /\ created' = created
  BY <1>4, <1>5, TypedAfter DEF IInv
<1>7. Effect(b, g) /\ (\A x \in Outputs : LedTo(x)' <=> LedTo(x))
  BY <1>2, <1>3, <1>5, <1>6, Handing, Ranges DEF Fed, Outcomes, Clean
<1>8. Lawful(t, b, g, c, a, NoCall)
  <2> USE <1>1, <1>2, <1>3, <1>4, <1>5, <1>6, Nothing
  <2>1. ProperStep(b, c, a, NoCall)
    BY ProperNothing, NAssumption DEF Known, ProperStep, ProperCall, Kinds
  <2>2. Fits(b, c, a, NoCall)
    BY Ranges DEF Fits, Stacked, Waits, Completing
  <2>3. UserStep(b, g, c, a, NoCall)
    BY DEF Known, UserStep, Own, UserOf, Uses, Opens, Handles, Held
  <2>4. MakerStep(b, c, a)
    BY DEF Known, MakerStep, MakerOf, Makes, Feeds
  <2>5. HookStep(b, g, c, a, NoCall)
    BY Ranges DEF Known, HookStep, Own, Clean, Fresh, Hooks, Held, Uses, Opens, Handles
  <2>6. HolderStep(b, g, c, a, NoCall)
    BY DEF Known, HolderStep, Held
  <2>7. RoundStep(b, c, a)
    BY Ranges DEF Known, RoundStep, RoundOf, Past
  <2>8. KeptStep(b, c, a)
    BY DEF KeptStep, Backed, BackedBy
  <2>9. CargoStep(b, g, c, a, NoCall)
    <3>1. /\ Carrying(b) /\ ~Carrying(g) /\ ~Begins(b) /\ ~Begins(c) /\ ~Begins(a)
          /\ ~Carrying(c) /\ ~Carrying(a) /\ ~Carrying(NoCall)
      BY DEF Carrying, Begins
    <3>2. expected' = expected /\ delivered' = delivered
      BY DEF LoopGoesOn
    <3>3. Taken(b, g, c, a, Null, v)
      BY <1>7, <3>1, <3>2,
         Ranges, Onward DEF Taken, Unmoved, EndsWith
    <3>4. Put(b, c, a, NoCall, o, v)
      BY <1>7, <3>1, <3>2 DEF Put
    <3>5. \A z \in Outputs \ {Null, o} : ssb'[z].result = ssb[z].result
      BY <1>7, Ranges
    <3>6. v \in Outcomes /\ Null \in Outputs \cup {Null} /\ o \in Outputs \cup {Null}
      BY <1>7
    <3> QED BY <3>3, <3>4, <3>5, <3>6 DEF CargoStep, Hands
  <2>10. AttendStep(b, g, c, a, NoCall)
    BY <1>7 DEF AttendStep, Own, Uses, Opens, Handles, Held, Makes, Full
  <2>11. LinkStep(t, b, c, a, NoCall)
    BY <1>7, Ranges DEF LinkStep, Held, Asks
  <2> QED BY <2>1, <2>2, <2>3, <2>4, <2>5, <2>6, <2>7, <2>8, <2>9, <2>10, <2>11 DEF Lawful
<1>9. HoldStep(b, g, c, a, NoCall)
  BY <1>2, <1>4, Nothing DEF HoldStep, Completing, Looping, Held
<1> QED BY <1>1, <1>4, <1>5, <1>6, <1>7, <1>8, <1>9, Lightly

LEMMA PropagateFinished ==
    ASSUME IInv, NEW t \in Threads, At(t, "propagate", "load"), NEW o, o = Top(t).output,
           ~Top(t).future.ready,
           NEW s, s = Top(t).future.state, ssb[s].m_state = "Finished", NEW v, v = ssb[s].result,
           Passes(o, v, s), CallsThen(t, Finish(o), "drop"), LoopGoesOn
    PROVE  IInv' /\ Outlook(t)
<1>1. PICK b, g : Known(t, b, g)
  BY TopFacts DEF IInv, At
<1>2. /\ b = Top(t) /\ stack[t] # <<>> /\ b \in Calls /\ b.op = "propagate" /\ b.pc = "load"
      /\ b.output = o /\ g = NoCall /\ ~b.future.ready /\ b.future.state = s
  BY <1>1, Ranges DEF IInv, Known, At, ProperCall, Waits
<1>3. /\ o \in Outputs /\ o \in States /\ o \in created /\ Makes(b, o) /\ ~Fed(o)
      /\ ssb[o].result = "none" /\ ssb[o].m_state # "Finished"
      /\ o - N \in Operations /\ o - N \in States /\ o - N # o
      /\ ssb[o - N].result = "moved" /\ ssb[o - N].m_continuation = o
      /\ s \in Outputs /\ s \in States /\ s \in created /\ Own(b, g, s) /\ Clean(s)
      /\ o < s /\ s # o /\ o - N # s /\ v \in Outcomes
  <2>1. ssb[s].result # "moved" /\ s \in States
    BY <1>1, <1>2, SourceFrom
  <2>2. v \in Outcomes
    BY <2>1 DEF IInv, Results, Typed, SharedStates
  <2> QED BY <1>1, <1>2, <2>2, TargetFrom, SourceFrom
<1>4. PICK a \in Calls, c \in Calls :
         /\ Steps(t, c, a, NoCall)
         /\ c.op = b.op /\ c.pc = "drop" /\ c.k = b.k /\ c.future = b.future /\ c.output = b.output
         /\ a.op = "finish" /\ a.pc = "exchange" /\ a.future.state = o
  <2> DEFINE c == [Top(t) EXCEPT !.pc = "drop"]
             a == Finish(o)
  <2>1. /\ c \in Calls /\ c.op = b.op /\ c.pc = "drop" /\ c.k = b.k /\ c.future = b.future
        /\ c.output = b.output
    BY <1>2 DEF Calls, Pcs
  <2>2. a \in Calls /\ a.op = "finish" /\ a.pc = "exchange" /\ a.future.state = o
    BY <1>2, <1>3, NewCall
  <2>3. Becomes(t, <<a, c>>) /\ \A u \in Threads \ {t} : returned'[u] = returned[u]
    BY <1>2 DEF LoopGoesOn, CallsThen
  <2> HIDE DEF c, a
  <2> QED BY <1>2, <2>1, <2>2, <2>3, Pushes DEF IInv, Waits
<1>5. /\ ssb' \in [States -> SharedStates] /\ Happens(t)
      /\ ssb'[o].result = v /\ ssb'[s].result = "moved"
      /\ \A x \in States : x # o /\ x # s => ssb'[x].result = ssb[x].result
      /\ \A x \in States : ssb'[x].m_state = ssb[x].m_state
      /\ \A x \in States : ssb'[x].m_callback = ssb[x].m_callback
      /\ \A x \in States : ssb'[x].m_continuation = ssb[x].m_continuation
      /\ \A x \in States : ssb'[x].m_is_just_for_continuation = ssb[x].m_is_just_for_continuation
      /\ \A x \in States : ssb'[x].m_refs = ssb[x].m_refs
  <2>1. Happens(t)
    BY DEF Happens
  <2> QED BY <1>2, <1>3, <2>1, Passing DEF IInv, Outcomes
<1>6. Typed' /\ created' = created
  BY <1>4, <1>5, TypedAfter DEF IInv
<1>7. Effect(b, g) /\ (\A x \in Outputs : LedTo(x)' <=> LedTo(x))
  BY <1>2, <1>3, <1>5, <1>6, Handing, Ranges DEF Fed, Outcomes, Clean
<1>8. Lawful(t, b, g, c, a, NoCall)
  <2> USE <1>1, <1>2, <1>3, <1>4, <1>5, <1>6, Nothing
  <2>1. ProperStep(b, c, a, NoCall)
    BY ProperNothing, NAssumption DEF Known, ProperStep, ProperCall, Kinds
  <2>2. Fits(b, c, a, NoCall)
    BY Ranges DEF Fits, Stacked, Waits, Completing
  <2>3. UserStep(b, g, c, a, NoCall)
    BY DEF Known, UserStep, Own, UserOf, Uses, Opens, Handles, Held
  <2>4. MakerStep(b, c, a)
    BY DEF Known, MakerStep, MakerOf, Makes, Feeds
  <2>5. HookStep(b, g, c, a, NoCall)
    BY Ranges DEF Known, HookStep, Own, Clean, Fresh, Hooks, Held, Uses, Opens, Handles
  <2>6. HolderStep(b, g, c, a, NoCall)
    BY DEF Known, HolderStep, Held
  <2>7. RoundStep(b, c, a)
    BY Ranges DEF Known, RoundStep, RoundOf, Past
  <2>8. KeptStep(b, c, a)
    BY DEF KeptStep, Backed, BackedBy
  <2>9. CargoStep(b, g, c, a, NoCall)
    <3>1. /\ ~Carrying(b) /\ ~Carrying(g) /\ ~Begins(b) /\ ~Begins(c) /\ ~Begins(a)
          /\ ~Carrying(c) /\ ~Carrying(a) /\ ~Carrying(NoCall)
      BY DEF Carrying, Begins
    <3>2. expected' = expected /\ delivered' = delivered
      BY DEF LoopGoesOn
    <3>3. Taken(b, g, c, a, s, v)
      BY <1>7, <3>1, <3>2,
         Ranges, Onward DEF Taken, Unmoved, EndsWith
    <3>4. Put(b, c, a, NoCall, o, v)
      BY <1>7, <3>1, <3>2 DEF Put
    <3>5. \A z \in Outputs \ {s, o} : ssb'[z].result = ssb[z].result
      BY <1>7, Ranges
    <3>6. v \in Outcomes /\ s \in Outputs \cup {Null} /\ o \in Outputs \cup {Null}
      BY <1>7
    <3> QED BY <3>3, <3>4, <3>5, <3>6 DEF CargoStep, Hands
  <2>10. AttendStep(b, g, c, a, NoCall)
    BY <1>7 DEF AttendStep, Own, Uses, Opens, Handles, Held, Makes, Full
  <2>11. LinkStep(t, b, c, a, NoCall)
    BY <1>7, Ranges DEF LinkStep, Held, Asks
  <2> QED BY <2>1, <2>2, <2>3, <2>4, <2>5, <2>6, <2>7, <2>8, <2>9, <2>10, <2>11 DEF Lawful
<1>9. HoldStep(b, g, c, a, NoCall)
  BY <1>2, <1>4, Nothing DEF HoldStep, Completing, Looping, Held
<1> QED BY <1>1, <1>4, <1>5, <1>6, <1>7, <1>8, <1>9, Lightly

-----------------------------------------------------------------------------
(* ... those that make a state, finish one, or set a continuation, ...     *)

LEMMA Finishes ==
    ASSUME IInv, NEW t \in Threads, exchange(t), NEW s, s = Top(t).future.state,
           ssb[s].m_state = "Init"
    PROVE  IInv' /\ Outlook(t)
<1>1. PICK b, g : Known(t, b, g)
  BY TopFacts DEF IInv, exchange, At
<1>2. /\ b = Top(t) /\ stack[t] # <<>> /\ b \in Calls /\ b.op = "finish" /\ b.pc = "exchange"
      /\ b.future.state = s /\ g = NoCall
  BY <1>1, Ranges DEF IInv, Known, At, ProperCall, Waits, exchange
<1>3. /\ s \in States /\ s \in created /\ Makes(b, s) /\ ~Fed(s)
      /\ ssb[s].result \in Outcomes /\ ssb[s].m_state # "Finished"
  <2>1. s \in States /\ Makes(b, s)
    BY <1>1, <1>2 DEF Known, ProperCall, Makes
  <2>2. /\ ssb[s].result \in Outcomes /\ ssb[s].m_state # "Finished" /\ ~Fed(s)
    BY <1>1, <1>2, <2>1 DEF Known, MakerOf, Fed
  <2>3. s \in created
    BY <2>1, <2>2 DEF IInv, Creation, Outcomes
  <2> QED BY <2>1, <2>2, <2>3
<1>4. Steps(t, NoCall, NoCall, NoCall)
  <2>1. Becomes(t, <<>>) /\ \A u \in Threads \ {t} : returned'[u] = returned[u]
    BY <1>2 DEF exchange, LoopGoesOn, Future
  <2> QED BY <1>2, <2>1, Leaves DEF IInv
<1>5. /\ ssb' \in [States -> SharedStates] /\ Happens(t)
      /\ ssb'[s].m_state = "Finished"
      /\ \A x \in States : x # s => ssb'[x].m_state = ssb[x].m_state
      /\ \A x \in States : ssb'[x].result = ssb[x].result
      /\ \A x \in States : ssb'[x].m_callback = ssb[x].m_callback
      /\ \A x \in States : ssb'[x].m_continuation = ssb[x].m_continuation
      /\ \A x \in States : ssb'[x].m_is_just_for_continuation = ssb[x].m_is_just_for_continuation
      /\ \A x \in States : ssb'[x].m_refs = ssb[x].m_refs
  <2>1. Happens(t)
    BY DEF exchange, Happens
  <2>2. ssb' = [ssb EXCEPT ![s].m_state = "Finished"]
    BY <1>2 DEF exchange, Future
  <2>3. ssb' \in [States -> SharedStates]
    BY <1>3, <2>2, Changed DEF IInv, Typed
  <2> QED BY <1>3, <2>1, <2>2, <2>3 DEF IInv, Typed, SharedStates
<1>6. Typed' /\ created' = created
  BY <1>4, <1>5, TypedAfter DEF IInv
<1>7. Effect(b, g) /\ (\A x \in Outputs : LedTo(x)' <=> LedTo(x))
  BY <1>3, <1>5, <1>6, Finishing
<1>8. Lawful(t, b, g, NoCall, NoCall, NoCall)
  <2> USE <1>1, <1>2, <1>3, <1>4, <1>5, <1>6, Nothing
  <2>1. ProperStep(b, NoCall, NoCall, NoCall)
    BY ProperNothing, NAssumption DEF Known, ProperStep, ProperCall, Kinds
  <2>2. Fits(b, NoCall, NoCall, NoCall)
    BY DEF Fits, Stacked, Waits, Completing
  <2>3. UserStep(b, g, NoCall, NoCall, NoCall)
    BY DEF Known, UserStep, Own, UserOf, Uses, Opens, Handles, Held
  <2>4. MakerStep(b, NoCall, NoCall)
    BY DEF Known, MakerStep, MakerOf, Makes, Feeds
  <2>5. HookStep(b, g, NoCall, NoCall, NoCall)
    BY Ranges DEF Known, HookStep, Own, Clean, Fresh, Hooks, Held, Uses, Opens, Handles
  <2>6. HolderStep(b, g, NoCall, NoCall, NoCall)
    BY DEF Known, HolderStep, Held
  <2>7. RoundStep(b, NoCall, NoCall)
    BY Ranges DEF Known, RoundStep, RoundOf, Past
  <2>8. KeptStep(b, NoCall, NoCall)
    BY DEF KeptStep
  <2>9. CargoStep(b, g, NoCall, NoCall, NoCall)
    <3>1. /\ ~Carrying(b) /\ ~Carrying(g) /\ ~Carrying(NoCall)
          /\ ~Begins(b) /\ ~Begins(NoCall)
      BY DEF Carrying, Begins
    <3>2. expected' = expected /\ delivered' = delivered
      BY DEF exchange, LoopGoesOn
    <3>3. Idle(b, g, NoCall, NoCall, NoCall)
      BY <1>7, <3>1, <3>2, Ranges, Stays
    <3> QED BY <3>3 DEF CargoStep
  <2>10. AttendStep(b, g, NoCall, NoCall, NoCall)
    BY <1>7 DEF AttendStep, Own, Uses, Opens, Handles, Held, Makes, Full
  <2>11. LinkStep(t, b, NoCall, NoCall, NoCall)
    BY <1>7, Ranges DEF LinkStep, Held, Asks
  <2> QED BY <2>1, <2>2, <2>3, <2>4, <2>5, <2>6, <2>7, <2>8, <2>9, <2>10, <2>11 DEF Lawful
<1>9. HoldStep(b, g, NoCall, NoCall, NoCall)
  BY <1>2, <1>4, Nothing DEF HoldStep, Completing, Looping, Held
<1> QED BY <1>1, <1>4, <1>5, <1>6, <1>7, <1>8, <1>9, Lightly

LEMMA Announces ==
    ASSUME IInv, NEW t \in Threads, exchange(t), NEW s, s = Top(t).future.state,
           ssb[s].m_state # "Init"
    PROVE  IInv' /\ Outlook(t)
<1>1. PICK b, g : Known(t, b, g)
  BY TopFacts DEF IInv, exchange, At
<1>2. /\ b = Top(t) /\ stack[t] # <<>> /\ b \in Calls /\ b.op = "finish" /\ b.pc = "exchange"
      /\ b.future.state = s /\ g = NoCall
  BY <1>1, Ranges DEF IInv, Known, At, ProperCall, Waits, exchange
<1>3. /\ s \in States /\ s \in created /\ Makes(b, s) /\ ~Fed(s)
      /\ ssb[s].result \in Outcomes /\ ssb[s].m_state # "Finished"
  <2>1. s \in States /\ Makes(b, s)
    BY <1>1, <1>2 DEF Known, ProperCall, Makes
  <2>2. /\ ssb[s].result \in Outcomes /\ ssb[s].m_state # "Finished" /\ ~Fed(s)
    BY <1>1, <1>2, <2>1 DEF Known, MakerOf, Fed
  <2>3. s \in created
    BY <2>1, <2>2 DEF IInv, Creation, Outcomes
  <2> QED BY <2>1, <2>2, <2>3
<1>4. /\ ssb[s].m_callback # "none" /\ Unused(s)
  <2>1. ssb[s].m_state = "Waiting"
    BY <1>3 DEF IInv, Typed, SharedStates
  <2>2. \A p \in Places : UserOf(Frame(p), s)
    BY <1>3 DEF IInv, OneUser
  <2> QED BY <1>3, <2>1, <2>2 DEF IInv, Results, UserOf, Uses, Unused
<1>5. PICK c \in Calls :
         /\ Steps(t, c, NoCall, NoCall)
         /\ c.op = b.op /\ c.pc = "callback" /\ c.k = b.k /\ c.future = b.future /\ c.output = b.output
  <2> DEFINE c == [Top(t) EXCEPT !.pc = "callback"]
  <2>1. /\ c \in Calls /\ c.op = b.op /\ c.pc = "callback" /\ c.k = b.k /\ c.future = b.future
        /\ c.output = b.output
    BY <1>2 DEF Calls, Pcs
  <2>2. Becomes(t, <<c>>) /\ \A u \in Threads \ {t} : returned'[u] = returned[u]
    BY <1>2 DEF exchange, LoopGoesOn, Goes, Future
  <2> HIDE DEF c
  <2> QED BY <1>2, <2>1, <2>2, Replaces DEF IInv, Waits
<1>6. /\ ssb' \in [States -> SharedStates] /\ Happens(t)
      /\ ssb'[s].m_state = "Finished"
      /\ \A x \in States : x # s => ssb'[x].m_state = ssb[x].m_state
      /\ \A x \in States : ssb'[x].result = ssb[x].result
      /\ \A x \in States : ssb'[x].m_callback = ssb[x].m_callback
      /\ \A x \in States : ssb'[x].m_continuation = ssb[x].m_continuation
      /\ \A x \in States : ssb'[x].m_is_just_for_continuation = ssb[x].m_is_just_for_continuation
      /\ \A x \in States : ssb'[x].m_refs = ssb[x].m_refs
  <2>1. Happens(t)
    BY DEF exchange, Happens
  <2>2. ssb' = [ssb EXCEPT ![s].m_state = "Finished"]
    BY <1>2 DEF exchange, Future
  <2>3. ssb' \in [States -> SharedStates]
    BY <1>3, <2>2, Changed DEF IInv, Typed
  <2> QED BY <1>3, <2>1, <2>2, <2>3 DEF IInv, Typed, SharedStates
<1>7. Typed' /\ created' = created
  BY <1>5, <1>6, TypedAfter DEF IInv
<1>8. Effect(b, g) /\ (\A x \in Outputs : LedTo(x)' <=> LedTo(x))
  BY <1>3, <1>6, <1>7, Finishing
<1>9. Lawful(t, b, g, c, NoCall, NoCall)
  <2> USE <1>1, <1>2, <1>3, <1>5, <1>6, <1>7, Nothing
  <2>1. ProperStep(b, c, NoCall, NoCall)
    BY ProperNothing, NAssumption DEF Known, ProperStep, ProperCall, Kinds
  <2>2. Fits(b, c, NoCall, NoCall)
    BY DEF Fits, Stacked, Waits, Completing
  <2>3. UserStep(b, g, c, NoCall, NoCall)
    <3>1. \A x \in States : /\ Uses(c, x) <=> x = s
                            /\ ~Uses(NoCall, x) /\ ~Opens(c, x) /\ ~Opens(NoCall, x)
      BY DEF Uses, Opens, Handles, Held
    <3>2. /\ s \in created' /\ ssb'[s].result # "moved" /\ ssb'[s].m_state = "Finished"
          /\ ssb'[s].m_callback # "none" /\ Unused(s) /\ c.op = "finish"
      BY <1>4 DEF Outcomes
    <3> QED BY <3>1, <3>2 DEF UserStep, UserOf, Uses, Opens
  <2>4. MakerStep(b, c, NoCall)
    BY DEF Known, MakerStep, MakerOf, Makes, Feeds
  <2>5. HookStep(b, g, c, NoCall, NoCall)
    BY Ranges DEF Known, HookStep, Own, Clean, Fresh, Hooks, Held, Uses, Opens, Handles
  <2>6. HolderStep(b, g, c, NoCall, NoCall)
    BY DEF Known, HolderStep, Held
  <2>7. RoundStep(b, c, NoCall)
    BY Ranges DEF Known, RoundStep, RoundOf, Past
  <2>8. KeptStep(b, c, NoCall)
    BY DEF KeptStep, Backed, BackedBy
  <2>9. CargoStep(b, g, c, NoCall, NoCall)
    <3>1. /\ ~Carrying(b) /\ ~Carrying(g) /\ ~Carrying(c) /\ ~Carrying(NoCall)
          /\ ~Begins(b) /\ ~Begins(c) /\ ~Begins(NoCall)
      BY DEF Carrying, Begins
    <3>2. expected' = expected /\ delivered' = delivered
      BY DEF exchange, LoopGoesOn
    <3>3. Idle(b, g, c, NoCall, NoCall)
      BY <1>4, <1>8, <3>1, <3>2, Ranges, Stays
    <3> QED BY <3>3 DEF CargoStep
  <2>10. AttendStep(b, g, c, NoCall, NoCall)
    BY <1>4, <1>8 DEF AttendStep, Own, Uses, Opens, Handles, Held, Makes, Full
  <2>11. LinkStep(t, b, c, NoCall, NoCall)
    BY <1>4, <1>8, Ranges DEF LinkStep, Held, Asks
  <2> QED BY <2>1, <2>2, <2>3, <2>4, <2>5, <2>6, <2>7, <2>8, <2>9, <2>10, <2>11 DEF Lawful
<1>10. HoldStep(b, g, c, NoCall, NoCall)
  BY <1>2, <1>5, Nothing DEF HoldStep, Completing, Looping, Held
<1> QED BY <1>1, <1>5, <1>6, <1>7, <1>8, <1>9, <1>10, Lightly

LEMMA StartsOperation ==
    ASSUME IInv, NEW t \in Threads, start_operation(t), NEW j, j = Top(t).k
    PROVE  IInv' /\ Outlook(t)
<1>1. PICK b, g : Known(t, b, g)
  BY TopFacts DEF IInv, start_operation, At
<1>2. /\ b = Top(t) /\ stack[t] # <<>> /\ b \in Calls /\ b.op = "loop" /\ b.pc = "start" /\ b.k = j
      /\ g = NoCall /\ j \in Operations /\ j \in States /\ j \notin created /\ Past(j)
  BY <1>1, Ranges DEF IInv, Known, At, ProperCall, Waits, start_operation, RoundOf
<1>3. /\ ssb[j].m_state = "Init" /\ ssb[j].result = "none" /\ ssb[j].m_callback = "none"
      /\ ssb[j].m_continuation = Null /\ ssb[j].m_is_just_for_continuation = FALSE
      /\ Output(j) \notin created /\ Unused(j)
      /\ Completed(j)
  <2>1. Output(j) \notin created /\ Completed(j)
    BY <1>2 DEF IInv, Creation, Counts, Completed
  <2>2. \A p \in Places : UserOf(Frame(p), j)
    BY <1>2 DEF IInv, OneUser
  <2> QED BY <1>2, <2>1, <2>2, Untouched DEF IInv, UserOf, Unused
<1>4. PICK c \in Calls :
         /\ Steps(t, c, NoCall, NoCall)
         /\ c.op = b.op /\ c.pc = "load" /\ c.k = b.k /\ c.future = b.future /\ c.output = b.output
  <2> DEFINE c == [Top(t) EXCEPT !.pc = "load"]
  <2>1. /\ c \in Calls /\ c.op = b.op /\ c.pc = "load" /\ c.k = b.k /\ c.future = b.future
        /\ c.output = b.output
    BY <1>2 DEF Calls, Pcs
  <2>2. Becomes(t, <<c>>) /\ \A u \in Threads \ {t} : returned'[u] = returned[u]
    BY <1>2 DEF start_operation, LoopGoesOn, Goes
  <2> HIDE DEF c
  <2> QED BY <1>2, <2>1, <2>2, Replaces DEF IInv, Waits
<1>5. /\ ssb' \in [States -> SharedStates]
      /\ \A x \in States : ssb'[x].m_state = ssb[x].m_state
      /\ \A x \in States : ssb'[x].result = ssb[x].result
      /\ \A x \in States : ssb'[x].m_callback = ssb[x].m_callback
      /\ \A x \in States : ssb'[x].m_continuation = ssb[x].m_continuation
      /\ \A x \in States : ssb'[x].m_is_just_for_continuation = ssb[x].m_is_just_for_continuation
      /\ \A x \in States : x # j => ssb'[x].m_refs = ssb[x].m_refs
      /\ ssb'[j].m_refs = 2 /\ created' = created \cup {j}
  <2>1. ssb' = [ssb EXCEPT ![j] = NewState(2)] /\ created' = created \cup {j}
    BY <1>2 DEF start_operation, Op, Operation
  <2>2. /\ ssb'[j] = NewState(2) /\ \A x \in States : x # j => ssb'[x] = ssb[x]
        /\ ssb' \in [States -> SharedStates]
    BY <1>2, <2>1, NewStates DEF IInv, Typed
  <2> QED BY <1>2, <1>3, <2>1, <2>2, NewStates
<1>6. Typed'
  BY <1>2, <1>4, <1>5 DEF IInv, Typed, Steps, Stepping, start_operation
<1>7. Effect(b, g)
  BY <1>2, <1>3, <1>5, Resting
<1>8. Lawful(t, b, g, c, NoCall, NoCall)
  <2> USE <1>1, <1>2, <1>4, <1>5, Nothing
  <2>1. ProperStep(b, c, NoCall, NoCall)
    BY ProperNothing, NAssumption DEF Known, ProperStep, ProperCall, Kinds
  <2>2. Fits(b, c, NoCall, NoCall)
    BY DEF Fits, Stacked, Waits, Completing
  <2>3. UserStep(b, g, c, NoCall, NoCall)
    <3>1. \A x \in States : /\ Uses(c, x) <=> x = j
                            /\ Opens(c, x) <=> x = j
                            /\ ~Handles(c, x) /\ ~Uses(NoCall, x) /\ ~Opens(NoCall, x)
      BY DEF Uses, Opens, Handles, Held
    <3> QED BY <1>2, <1>4, <1>3, <1>5, <3>1, Nothing DEF UserStep, UserOf
  <2>4. MakerStep(b, c, NoCall)
    BY DEF Known, MakerStep, MakerOf, Makes, Feeds
  <2>5. HookStep(b, g, c, NoCall, NoCall)
    BY Ranges DEF Known, HookStep, Own, Clean, Fresh, Hooks, Held, Uses, Opens, Handles
  <2>6. HolderStep(b, g, c, NoCall, NoCall)
    BY DEF Known, HolderStep, Held
  <2>7. RoundStep(b, c, NoCall)
    BY <1>3, Ranges DEF Known, RoundStep, RoundOf, Past
  <2>8. KeptStep(b, c, NoCall)
    BY DEF KeptStep
  <2>9. CargoStep(b, g, c, NoCall, NoCall)
    <3>1. /\ ~Carrying(b) /\ ~Carrying(g) /\ ~Carrying(c) /\ ~Carrying(NoCall)
      BY DEF Carrying
    <3>2. expected' = expected /\ delivered' = delivered
      BY DEF start_operation
    <3>3. Begins(b) /\ Unmoved(j)'
      BY <1>3, <1>6, <1>7, Ranges DEF Begins, Unmoved
    <3>4. GoesOn(b, c, NoCall)
      BY <1>3, <1>6, <1>7, <3>2, <3>3 DEF GoesOn
    <3>5. \A z \in Outputs : ssb'[z].result = ssb[z].result
      BY <1>3, <1>6, <1>7, Ranges
    <3>6. Idle(b, g, c, NoCall, NoCall)
      BY <3>1, <3>2, <3>4, <3>5 DEF Idle
    <3> QED BY <3>6 DEF CargoStep
  <2>10. AttendStep(b, g, c, NoCall, NoCall)
    BY <1>3, <1>6, <1>7 DEF AttendStep, Own, Uses, Opens, Handles, Held, Makes, Full
  <2>11. LinkStep(t, b, c, NoCall, NoCall)
    BY <1>3, <1>6, <1>7, Ranges DEF LinkStep, Held, Asks
  <2> QED BY <2>1, <2>2, <2>3, <2>4, <2>5, <2>6, <2>7, <2>8, <2>9, <2>10, <2>11 DEF Lawful
<1>9. Counts'
  <2>1. ASSUME NEW x \in States
        PROVE  /\ Completed(x)' <=> Completed(x)
               /\ Looped(x)' <=> Looped(x) \/ x = j
               /\ HeldSomewhere(x)' <=> HeldSomewhere(x)
    <3>1. /\ Completed(x)' <=> \/ Completing(c, x) \/ Completing(NoCall, x)
                               \/ Completed(x) /\ ~Completing(b, x)
          /\ Looped(x)' <=> \/ Looping(c, x) \/ Looping(NoCall, x)
                            \/ Looped(x) /\ ~Looping(b, x)
          /\ HeldSomewhere(x)' <=> \/ Held(c, x) \/ Held(NoCall, x) \/ Held(NoCall, x)
                                   \/ HeldSomewhere(x) /\ ~Held(b, x) /\ ~Held(g, x)
      <4>1. /\ b = Top(t) /\ g = Answer(t) /\ g.op \in {"none", "returned"}
            /\ NoCall.op \in {"none", "returned"}
        BY <1>1, <1>2, Nothing DEF Known
      <4> QED BY <1>4, <4>1, Whereabouts
    <3> QED BY <1>2, <1>4, <3>1, Nothing DEF Completing, Looping, Held
  <2>2. ASSUME NEW k \in Operations
        PROVE  IF k \in created' THEN ssb'[k].m_refs = OperationCount(k)'
                                 ELSE \E p \in Places : Completing(Frame(p), k)'
    <3>1. /\ OperationCount(k)' = One(Completed(k)') + One(Looped(k)')
          /\ OperationCount(k) = One(Completed(k)) + One(Looped(k))
          /\ Completed(k)' <=> \E p \in Places : Completing(Frame(p), k)'
      BY DEF OperationCount, Completed, Looped
    <3>2. IF k \in created THEN ssb[k].m_refs = OperationCount(k) ELSE Completed(k)
      BY DEF IInv, Counts, Completed
    <3>3. (Completed(k)' <=> Completed(k)) /\ (Looped(k)' <=> Looped(k) \/ k = j)
      BY <2>1, Ranges, Zenon
    <3>4. CASE k = j
      <4>1. Completed(k) /\ ssb'[k].m_refs = 2 /\ k \in created'
        BY <1>3, <1>5, <3>4
      <4>2. OperationCount(k)' = 2
        BY <3>1, <3>3, <3>4, <4>1 DEF One
      <4> QED BY <4>1, <4>2
    <3>5. CASE k # j
      <4>1. /\ ssb'[k].m_refs = ssb[k].m_refs
            /\ k \in created' <=> k \in created
        BY <1>5, <3>5, Ranges
      <4>2. OperationCount(k)' = OperationCount(k)
        BY <3>1, <3>3, <3>5 DEF One
      <4> QED BY <3>1, <3>2, <3>3, <4>1, <4>2
    <3> QED BY <3>4, <3>5
  <2>3. ASSUME NEW x \in Outputs, x \in created' PROVE ssb'[x].m_refs = OutputCount(x)'
    <3>1. x \in created /\ x \in States /\ x # j /\ x - N # j /\ x - N \in States
      BY <1>2, <1>3, <1>5, <2>3, Ranges
    <3>2. ssb[x].m_refs = OutputCount(x)
      BY <3>1 DEF IInv, Counts
    <3>3. /\ LedTo(x)' <=> LedTo(x)
          /\ Deleted(x - N)' <=> Deleted(x - N)
      BY <1>2, <1>5, <3>1, Ranges DEF LedTo, Deleted
    <3>4. /\ OutputCount(x) = One(HeldSomewhere(x)) + One(~Deleted(x - N)) + One(LedTo(x))
          /\ OutputCount(x)' = One(HeldSomewhere(x)') + One(~Deleted(x - N)') + One(LedTo(x)')
      BY DEF OutputCount, HeldSomewhere, LedTo
    <3> QED BY <1>5, <2>1, <3>1, <3>2, <3>3, <3>4 DEF One
  <2> QED BY <2>2, <2>3 DEF Counts
<1> QED
  <2>1. Past(j)'
    BY <1>2, <1>5, Ranges DEF Past
  <2> QED BY <1>1, <1>2, <1>4, <1>5, <1>6, <1>7, <1>8, <1>9, <2>1, Lawfully DEF Known

LEMMA MakesContinuation ==
    ASSUME IInv, NEW t \in Threads, make_continuation(t), NEW j, j = Top(t).k,
           NEW o, o = Output(j)
    PROVE  IInv' /\ Outlook(t)
<1>1. PICK b, g : Known(t, b, g)
  BY TopFacts DEF IInv, make_continuation, At
<1>2. /\ b = Top(t) /\ stack[t] # <<>> /\ b \in Calls /\ b.op = "loop" /\ b.pc = "attach" /\ b.k = j
      /\ g = NoCall /\ j \in Operations /\ j \in States /\ j \in created /\ o \in Outputs
      /\ o \in States /\ o # j /\ o \notin created
  BY <1>1, Ranges DEF IInv, Known, At, ProperCall, Waits, make_continuation, RoundOf
<1>3. /\ ssb[j].m_callback = "none" /\ ssb[j].m_continuation = Null
      /\ ssb[j].result # "moved" /\ ssb[j].m_state # "Waiting" /\ ssb[j].m_refs > 0
      /\ ssb[o].m_state = "Init" /\ ssb[o].result = "none" /\ ssb[o].m_callback = "none"
      /\ ssb[o].m_continuation = Null /\ ssb[o].m_is_just_for_continuation = FALSE
      /\ Unused(o) /\ Uses(b, j) /\ \A x \in States : ssb[x].m_continuation # o
  <2>1. Uses(b, j) /\ Opens(b, j) /\ Looping(b, j)
    BY <1>2 DEF Uses, Opens, Looping
  <2>2. ssb[j].result # "moved" /\ ssb[j].m_state # "Waiting"
    BY <1>1, <1>2, <2>1 DEF Known, UserOf
  <2>3. ssb[j].m_callback = "none" /\ ssb[j].m_continuation = Null
    BY <1>2 DEF IInv, Creation
  <2>4. ssb[j].m_refs > 0
    BY <1>2, <2>1, TopAlive
  <2>5. \A p \in Places : UserOf(Frame(p), o)
    BY <1>2 DEF IInv, OneUser
  <2>6. \A x \in States : ssb[x].m_continuation # o
    BY <1>2, Ranges DEF IInv, Creation, Continuations
  <2> QED BY <1>2, <2>1, <2>2, <2>3, <2>4, <2>5, <2>6, Untouched DEF IInv, UserOf, Unused
<1>4. PICK c \in Calls :
         /\ Steps(t, c, NoCall, NoCall)
         /\ c.op = b.op /\ c.pc = "cas" /\ c.k = b.k /\ c.future = b.future /\ c.output = b.output
  <2> DEFINE c == [Top(t) EXCEPT !.pc = "cas"]
  <2>1. /\ c \in Calls /\ c.op = b.op /\ c.pc = "cas" /\ c.k = b.k /\ c.future = b.future
        /\ c.output = b.output
    BY <1>2 DEF Calls, Pcs
  <2>2. Becomes(t, <<c>>) /\ \A u \in Threads \ {t} : returned'[u] = returned[u]
    BY <1>2 DEF make_continuation, LoopGoesOn, Goes
  <2> HIDE DEF c
  <2> QED BY <1>2, <2>1, <2>2, Replaces DEF IInv, Waits
<1>5. /\ ssb' \in [States -> SharedStates]
      /\ \A x \in States : ssb'[x].m_state = ssb[x].m_state
      /\ \A x \in States : ssb'[x].result = ssb[x].result
      /\ ssb'[j].m_callback = "then"
      /\ \A x \in States : x # j => ssb'[x].m_callback = ssb[x].m_callback
      /\ ssb'[j].m_continuation = o
      /\ \A x \in States : x # j => ssb'[x].m_continuation = ssb[x].m_continuation
      /\ \A x \in States : ssb'[x].m_is_just_for_continuation = ssb[x].m_is_just_for_continuation
      /\ \A x \in States : x # o => ssb'[x].m_refs = ssb[x].m_refs
      /\ ssb'[o].m_refs = 2 /\ created' = created \cup {o}
  <2> DEFINE m == [ssb[j] EXCEPT !.m_continuation = o]
  <2>1. /\ ssb' = [ssb EXCEPT ![o] = NewState(2), ![j].m_continuation = o,
                              ![j].m_callback = "then"]
        /\ created' = created \cup {o} /\ ssb \in [States -> SharedStates]
    BY <1>2 DEF make_continuation, Op, Operation, IInv, Typed
  <2>2. ssb'[o] = NewState(2) /\ \A x \in States : x # o /\ x # j => ssb'[x] = ssb[x]
    BY <1>2, <2>1, Zenon
  <2>3. ssb'[j] = [m EXCEPT !.m_callback = "then"]
    BY <1>2, <2>1, Zenon
  <2>4. m \in SharedStates /\ m.m_continuation = o /\ m.m_state = ssb[j].m_state
        /\ m.result = ssb[j].result /\ m.m_refs = ssb[j].m_refs
        /\ m.m_is_just_for_continuation = ssb[j].m_is_just_for_continuation
    BY <1>2, <2>1 DEF SharedStates
  <2> HIDE DEF m
  <2>5. /\ ssb'[j] \in SharedStates
        /\ ssb'[j].m_continuation = o /\ ssb'[j].m_callback = "then"
        /\ ssb'[j].m_state = ssb[j].m_state /\ ssb'[j].result = ssb[j].result
        /\ ssb'[j].m_is_just_for_continuation = ssb[j].m_is_just_for_continuation
        /\ ssb'[j].m_refs = ssb[j].m_refs
    BY <2>3, <2>4 DEF SharedStates
  <2>6. ssb' \in [States -> SharedStates]
    BY <1>2, <2>1, <2>2, <2>5, NewStates, Zenon
  <2>7. /\ ssb'[o].m_state = ssb[o].m_state /\ ssb'[o].result = ssb[o].result
        /\ ssb'[o].m_callback = ssb[o].m_callback
        /\ ssb'[o].m_continuation = ssb[o].m_continuation
        /\ ssb'[o].m_is_just_for_continuation = ssb[o].m_is_just_for_continuation
        /\ ssb'[o].m_refs = 2
    BY <1>3, <2>2, NewStates
  <2>8. ASSUME NEW x \in States
        PROVE  /\ ssb'[x].m_state = ssb[x].m_state /\ ssb'[x].result = ssb[x].result
               /\ x # j => ssb'[x].m_callback = ssb[x].m_callback
               /\ x # j => ssb'[x].m_continuation = ssb[x].m_continuation
               /\ ssb'[x].m_is_just_for_continuation = ssb[x].m_is_just_for_continuation
               /\ x # o => ssb'[x].m_refs = ssb[x].m_refs
    <3>1. CASE x = o
      BY <2>7, <3>1
    <3>2. CASE x = j
      BY <2>5, <3>2
    <3>3. CASE x # o /\ x # j
      BY <2>2, <3>3
    <3> QED BY <3>1, <3>2, <3>3
  <2>9. /\ \A x \in States : ssb'[x].m_state = ssb[x].m_state
        /\ \A x \in States : ssb'[x].result = ssb[x].result
        /\ \A x \in States : x # j => ssb'[x].m_callback = ssb[x].m_callback
        /\ \A x \in States : x # j => ssb'[x].m_continuation = ssb[x].m_continuation
        /\ \A x \in States :
             ssb'[x].m_is_just_for_continuation = ssb[x].m_is_just_for_continuation
        /\ \A x \in States : x # o => ssb'[x].m_refs = ssb[x].m_refs
    BY <2>8
  <2> QED BY <2>1, <2>5, <2>6, <2>7, <2>9, Zenon
<1>6. Typed'
  BY <1>2, <1>4, <1>5 DEF IInv, Typed, Steps, Stepping, make_continuation
<1>7. Effect(b, g)
  <2>1. \A x, s \in States : Feeds(x, s)' <=> IF x = j THEN s = o ELSE Feeds(x, s)
    BY <1>2, <1>3, <1>5 DEF Feeds
  <2>2. (\A x \in States : ~Feeds(x, o)) /\ Own(b, g, j)
    BY <1>2, <1>3 DEF Feeds, Own
  <2>3. OneFeed'
    BY <1>2, <1>3, <1>5, <2>1, <2>2 DEF IInv, OneFeed, OneMaker
  <2>4. Confined(b, g)
    BY <1>2, <1>3, <1>5, <2>1, <2>2 DEF Confined, Fed
  <2>5. Creation'
    BY <1>2, <1>3, <1>5, Ranges DEF IInv, Creation
  <2>6. Results'
    BY <1>2, <1>3, <1>5 DEF IInv, Results
  <2>7. Continuations'
    <3>1. \A s \in Outputs : s \in States /\ s # j
      BY <1>2, Ranges
    <3> QED BY <1>5, <3>1, Ranges DEF IInv, Continuations
  <2> QED BY <2>3, <2>4, <2>5, <2>6, <2>7 DEF Effect
<1>8. Lawful(t, b, g, c, NoCall, NoCall)
  <2> USE <1>1, <1>2, <1>4, <1>5, Nothing
  <2>1. ProperStep(b, c, NoCall, NoCall)
    BY ProperNothing, NAssumption DEF Known, ProperStep, ProperCall, Kinds
  <2>2. Fits(b, c, NoCall, NoCall)
    BY DEF Fits, Stacked, Waits, Completing
  <2>3. UserStep(b, g, c, NoCall, NoCall)
    <3>1. \A x \in States : /\ Uses(c, x) <=> x \in {j, o}
                            /\ ~Handles(c, x) /\ ~Uses(NoCall, x)
      BY DEF Uses, Opens, Handles, Held
    <3>2. \A x \in {j, o} : Own(b, g, x) \/ Unused(x)
      BY <1>3 DEF Own
    <3> QED BY <1>2, <1>4, <1>3, <1>5, <3>1, <3>2, Nothing DEF UserStep, UserOf
  <2>4. MakerStep(b, c, NoCall)
    BY DEF Known, MakerStep, MakerOf, Makes, Feeds
  <2>5. HookStep(b, g, c, NoCall, NoCall)
    <3>1. \A x \in Outputs : ~Own(b, g, x)
      BY Ranges DEF Own, Uses, Opens, Handles, Held
    <3>2. \A x \in Outputs : /\ Fresh(c, x) => x = o
                             /\ ~Fresh(NoCall, x) /\ ~Hooks(c, x) /\ ~Hooks(NoCall, x)
      BY DEF Fresh, Held, Hooks
    <3>3. \A x \in Outputs : x \in States /\ x # j
      BY Ranges
    <3> QED BY <1>2, <1>4, <1>3, <1>5, <3>1, <3>2, <3>3, Nothing DEF HookStep, Clean
  <2>6. HolderStep(b, g, c, NoCall, NoCall)
    BY DEF Known, HolderStep, Held
  <2>7. RoundStep(b, c, NoCall)
    BY Ranges DEF Known, RoundStep, RoundOf, Past
  <2>8. KeptStep(b, c, NoCall)
    BY DEF KeptStep
  <2>9. CargoStep(b, g, c, NoCall, NoCall)
    <3>1. /\ ~Carrying(b) /\ ~Carrying(g) /\ ~Carrying(c) /\ ~Carrying(NoCall)
          /\ ~Begins(b) /\ ~Begins(c) /\ ~Begins(NoCall)
      BY DEF Carrying, Begins
    <3>2. expected' = expected /\ delivered' = delivered
      BY DEF make_continuation
    <3>3. Idle(b, g, c, NoCall, NoCall)
      BY <1>3, <1>6, <1>7, <3>1, <3>2, Ranges, Stays
    <3> QED BY <3>3 DEF CargoStep
  <2>10. AttendStep(b, g, c, NoCall, NoCall)
    BY <1>3, <1>6, <1>7 DEF AttendStep, Own, Uses, Opens, Handles, Held, Makes, Full
  <2>11. LinkStep(t, b, c, NoCall, NoCall)
    BY <1>3, <1>6, <1>7, Ranges DEF LinkStep, Held, Asks
  <2> QED BY <2>1, <2>2, <2>3, <2>4, <2>5, <2>6, <2>7, <2>8, <2>9, <2>10, <2>11 DEF Lawful
<1>9. Counts'
  <2>1. \A k \in Operations : /\ ssb'[k].m_refs = ssb[k].m_refs
                              /\ k \in created' <=> k \in created
    BY <1>2, <1>5, Ranges
  <2>2. ASSUME NEW x \in Outputs, x \in created'
        PROVE  Recounted(x)
    <3>1. x \in States /\ x - N \in States /\ j = o - N
      BY <1>2, Ranges
    <3>2. HeldSomewhere(x)' <=> \/ Held(c, x) \/ Held(NoCall, x) \/ Held(NoCall, x)
                                \/ HeldSomewhere(x) /\ ~Held(b, x) /\ ~Held(g, x)
      <4>1. /\ b = Top(t) /\ g = Answer(t) /\ g.op \in {"none", "returned"}
            /\ NoCall.op \in {"none", "returned"}
        BY <1>1, <1>2, Nothing DEF Known
      <4> QED BY <1>4, <3>1, <4>1, Whereabouts
    <3>3. HeldSomewhere(x)' <=> x = o \/ HeldSomewhere(x)
      BY <1>2, <1>4, <3>2, Nothing DEF Held
    <3>4. LedTo(x)' <=> \E s \in Outputs : ssb[s].m_continuation = x /\ ~Deleted(s)'
      BY <1>2, <1>5, Ranges DEF LedTo, Deleted
    <3>5. CASE x = o
      <4>1. ~LedTo(x)' /\ ~Deleted(x - N) /\ HeldSomewhere(x)'
        BY <1>3, <3>1, <3>3, <3>4, <3>5, Ranges DEF Deleted
      <4> QED BY <1>5, <3>5, <4>1 DEF One, Recounted
    <3>6. CASE x # o
      <4>1. LedTo(x)' <=> LedTo(x)
        BY <1>2, <1>3, <1>5, <3>4, Ranges DEF IInv, Creation, LedTo, Deleted
      <4>2. ssb[x].m_refs = OutputCount(x) /\ ssb'[x].m_refs = ssb[x].m_refs
        BY <1>5, <2>2, <3>1, <3>6 DEF IInv, Counts
      <4>3. OutputCount(x) = One(HeldSomewhere(x)) + One(~Deleted(x - N)) + One(LedTo(x))
        BY DEF OutputCount, HeldSomewhere, LedTo
      <4> QED BY <3>3, <3>6, <4>1, <4>2, <4>3 DEF One, Recounted
    <3> QED BY <3>5, <3>6
  <2>3. \A x \in States : /\ Completing(c, x) \/ Completing(NoCall, x) <=> Completing(b, x)
                          /\ Looping(c, x) \/ Looping(NoCall, x) <=> Looping(b, x)
    BY <1>2, <1>4, Nothing DEF Completing, Looping
  <2>4. /\ b = Top(t) /\ g = Answer(t) /\ Steps(t, c, NoCall, NoCall)
        /\ g.op \in {"none", "returned"} /\ NoCall.op \in {"none", "returned"}
    BY <1>1, <1>2, <1>4, Nothing DEF Known
  <2> QED BY <2>1, <2>2, <2>3, <2>4, Counted
<1> QED
  <2>1. \A s \in created' \ created : s = o /\ s \notin Operations
    BY <1>2, <1>5, Ranges
  <2> QED BY <1>1, <1>2, <1>4, <1>5, <1>6, <1>7, <1>8, <1>9, <2>1, Lawfully DEF Known

LEMMA BindsOutput ==
    ASSUME IInv, NEW t \in Threads, bind_output(t), NEW o, o = Top(t).output,
           NEW s, s = Top(t).future.state
    PROVE  IInv' /\ Outlook(t)
<1>1. PICK b, g : Known(t, b, g)
  BY TopFacts DEF IInv, bind_output, At
<1>2. /\ b = Top(t) /\ stack[t] # <<>> /\ b \in Calls /\ b.op = "propagate" /\ b.pc = "bind"
      /\ b.output = o /\ b.future.state = s /\ ~b.future.ready /\ g = NoCall
  BY <1>1, Ranges DEF IInv, Known, At, ProperCall, Waits, bind_output
<1>3. /\ o \in Outputs /\ o \in States /\ o \in created /\ Makes(b, o) /\ ~Fed(o)
      /\ ssb[o].result = "none" /\ ssb[o].m_state # "Finished" /\ ssb[o].m_refs > 0
      /\ o - N \in Operations /\ o - N \in States /\ ssb[o - N].result = "moved"
      /\ s \in Outputs /\ s \in States /\ s \in created /\ Own(b, g, s) /\ Clean(s)
      /\ ssb[s].result # "moved" /\ ssb[s].m_state # "Waiting" /\ ssb[s].m_refs > 0
      /\ o < s /\ s # o
      /\ \A x \in Outputs : ssb[x].m_continuation # o
  <2>1. /\ o \in Outputs /\ o \in States /\ o \in created /\ Makes(b, o) /\ ~Fed(o)
        /\ ssb[o].result = "none" /\ ssb[o].m_state # "Finished"
        /\ o - N \in Operations /\ o - N \in States /\ ssb[o - N].result = "moved"
    BY <1>1, <1>2, TargetFrom
  <2>2. /\ s \in Outputs /\ s \in States /\ s \in created /\ Own(b, g, s) /\ Clean(s)
        /\ ssb[s].result # "moved" /\ ssb[s].m_state # "Waiting" /\ o < s /\ s # o
    BY <1>1, <1>2, SourceFrom
  <2>3. ssb[o].m_refs > 0 /\ (Held(b, s) => ssb[s].m_refs > 0) /\ (Makes(b, o) => Live(o))
    BY <1>2, <2>1, <2>2, TopAlive
  <2>4. Held(b, s)
    BY <1>2 DEF Held
  <2>5. \A x \in Outputs : ssb[x].m_continuation # o
    BY <2>1, Ranges DEF IInv, Continuations, Fed, Feeds
  <2> QED BY <2>1, <2>2, <2>3, <2>4, <2>5
<1>4. PICK c \in Calls :
         /\ Steps(t, c, NoCall, NoCall)
         /\ c.op = b.op /\ c.pc = "publish" /\ c.k = b.k /\ c.future = b.future /\ c.output = b.output
  <2> DEFINE c == [Top(t) EXCEPT !.pc = "publish"]
  <2>1. /\ c \in Calls /\ c.op = b.op /\ c.pc = "publish" /\ c.k = b.k /\ c.future = b.future
        /\ c.output = b.output
    BY <1>2 DEF Calls, Pcs
  <2>2. Becomes(t, <<c>>) /\ \A u \in Threads \ {t} : returned'[u] = returned[u]
    BY <1>2 DEF bind_output, LoopGoesOn, Goes
  <2> HIDE DEF c
  <2> QED BY <1>2, <2>1, <2>2, Replaces DEF IInv, Waits
<1>5. /\ ssb' \in [States -> SharedStates] /\ Happens(t)
      /\ ssb'[s].m_continuation = o
      /\ ssb'[o].m_refs = ssb[o].m_refs + 1
      /\ \A x \in States : ssb'[x].m_state = ssb[x].m_state
      /\ \A x \in States : ssb'[x].result = ssb[x].result
      /\ \A x \in States : ssb'[x].m_callback = ssb[x].m_callback
      /\ \A x \in States : x # s => ssb'[x].m_continuation = ssb[x].m_continuation
      /\ \A x \in States : ssb'[x].m_is_just_for_continuation = ssb[x].m_is_just_for_continuation
      /\ \A x \in States : x # o => ssb'[x].m_refs = ssb[x].m_refs
  <2>1. Binds(s, o) /\ Happens(t)
    BY <1>2 DEF bind_output, Target, Future, Binds, Happens
  <2> QED BY <1>3, <2>1, Binding DEF IInv
<1>6. Typed' /\ created' = created
  BY <1>4, <1>5, TypedAfter DEF IInv
<1>7. Effect(b, g)
  <2>1. \A x, z \in States : Feeds(x, z)' <=> IF x = s THEN z = o ELSE Feeds(x, z)
    BY <1>3, <1>5, Ranges DEF Feeds, Clean, Null, States
  <2>2. OneFeed'
    BY <1>3, <1>5, <2>1 DEF IInv, OneFeed, OneMaker, Fed
  <2>3. Confined(b, g)
    BY <1>3, <1>5, <1>6, <2>1 DEF Confined, Fed
  <2>4. Creation'
    BY <1>3, <1>5, <1>6, Ranges DEF IInv, Creation
  <2>5. Results'
    BY <1>5 DEF IInv, Results
  <2>6. Continuations'
    BY <1>3, <1>5, <1>6, Ranges DEF IInv, Continuations, Clean
  <2> QED BY <2>2, <2>3, <2>4, <2>5, <2>6 DEF Effect
<1>8. Lawful(t, b, g, c, NoCall, NoCall)
  <2> USE <1>1, <1>2, <1>3, <1>4, <1>5, Nothing
  <2>1. ProperStep(b, c, NoCall, NoCall)
    BY ProperNothing, NAssumption DEF Known, ProperStep, ProperCall, Kinds
  <2>2. Fits(b, c, NoCall, NoCall)
    BY DEF Fits, Stacked, Waits, Completing
  <2>3. UserStep(b, g, c, NoCall, NoCall)
    <3>1. \A x \in States : /\ Uses(c, x) <=> x = s
                            /\ ~Handles(c, x) /\ ~Uses(NoCall, x)
      BY DEF Uses, Opens, Handles, Held
    <3> QED BY <1>2, <1>4, <1>3, <1>5, <1>6, <3>1, Nothing DEF UserStep, UserOf
  <2>4. MakerStep(b, c, NoCall)
    BY DEF Known, MakerStep, MakerOf, Makes, Feeds, Fed
  <2>5. HookStep(b, g, c, NoCall, NoCall)
    <3>1. \A x \in Outputs : /\ Own(b, g, x) <=> x = s
                             /\ Hooks(c, x) <=> x = s
                             /\ ~Fresh(c, x) /\ ~Fresh(NoCall, x)
      BY DEF Own, Uses, Opens, Handles, Held, Hooks, Fresh
    <3> QED BY <1>2, <1>4, <1>3, <1>5, <1>6, <3>1, Nothing, Ranges DEF HookStep, Null
  <2>6. HolderStep(b, g, c, NoCall, NoCall)
    BY <1>6 DEF Known, HolderStep, Held
  <2>7. RoundStep(b, c, NoCall)
    BY <1>6, Ranges DEF Known, RoundStep, RoundOf, Past
  <2>8. KeptStep(b, c, NoCall)
    BY DEF KeptStep
  <2>9. CargoStep(b, g, c, NoCall, NoCall)
    <3>1. /\ ~Carrying(b) /\ ~Carrying(g) /\ ~Carrying(c) /\ ~Carrying(NoCall)
          /\ ~Begins(b) /\ ~Begins(c) /\ ~Begins(NoCall)
      BY DEF Carrying, Begins
    <3>2. expected' = expected /\ delivered' = delivered
      BY DEF bind_output, LoopGoesOn
    <3>3. Idle(b, g, c, NoCall, NoCall)
      BY <1>6, <1>7, <3>1, <3>2, Ranges, Stays
    <3> QED BY <3>3 DEF CargoStep
  <2>10. AttendStep(b, g, c, NoCall, NoCall)
    BY <1>6, <1>7, Ranges, Returned
     DEF AttendStep, Own, Uses, Opens, Handles, Held, Makes, Full, Outcomes
  <2>11. LinkStep(t, b, c, NoCall, NoCall)
    BY <1>6, <1>7, Ranges DEF LinkStep, Held, Asks
  <2> QED BY <2>1, <2>2, <2>3, <2>4, <2>5, <2>6, <2>7, <2>8, <2>9, <2>10, <2>11 DEF Lawful
<1>9. Counts'
  <2>1. \A k \in Operations : /\ ssb'[k].m_refs = ssb[k].m_refs
                              /\ k \in created' <=> k \in created
    BY <1>3, <1>5, <1>6, Ranges
  <2>2. ASSUME NEW x \in Outputs, x \in created'
        PROVE  Recounted(x)
    <3>1. x \in States /\ x \in created /\ x - N \in States
      BY <2>2, <1>6, Ranges
    <3>2. HeldSomewhere(x)' <=> \/ Held(c, x) \/ Held(NoCall, x) \/ Held(NoCall, x)
                                \/ HeldSomewhere(x) /\ ~Held(b, x) /\ ~Held(g, x)
      <4>1. /\ b = Top(t) /\ g = Answer(t) /\ g.op \in {"none", "returned"}
            /\ NoCall.op \in {"none", "returned"}
        BY <1>1, <1>2, Nothing DEF Known
      <4> QED BY <1>4, <3>1, <4>1, Whereabouts
    <3>3. Held(b, x) => HeldSomewhere(x)
      BY <1>2, <3>1, TopAlive
    <3>4. HeldSomewhere(x)' <=> HeldSomewhere(x)
      BY <1>2, <1>4, <3>2, <3>3, Nothing DEF Held
    <3>5. \A z \in Outputs : Deleted(z)' <=> Deleted(z)
      <4>1. ssb'[o].m_refs # 0
        BY <1>3, <1>5 DEF IInv, Typed, SharedStates
      <4> QED BY <1>3, <1>5, <4>1, Ranges DEF Deleted
    <3>6. LedTo(x)' <=> x = o \/ LedTo(x)
      BY <1>3, <1>5, <3>5, Ranges DEF LedTo, Clean, Deleted
    <3>7. ~LedTo(o)
      BY <1>3 DEF LedTo
    <3>8. /\ ssb[x].m_refs = One(HeldSomewhere(x)) + One(~Deleted(x - N)) + One(LedTo(x))
          /\ ssb[x].m_refs \in Int
      BY <3>1 DEF IInv, Counts, OutputCount, HeldSomewhere, LedTo, Typed, SharedStates
    <3>9. ssb'[x].m_refs = IF x = o THEN ssb[x].m_refs + 1 ELSE ssb[x].m_refs
      BY <1>5, <3>1
    <3> QED BY <3>4, <3>6, <3>7, <3>8, <3>9 DEF One, Recounted
  <2>3. \A x \in States : /\ Completing(c, x) \/ Completing(NoCall, x) <=> Completing(b, x)
                          /\ Looping(c, x) \/ Looping(NoCall, x) <=> Looping(b, x)
    BY <1>2, <1>4, Nothing DEF Completing, Looping
  <2>4. /\ b = Top(t) /\ g = Answer(t) /\ Steps(t, c, NoCall, NoCall)
        /\ g.op \in {"none", "returned"} /\ NoCall.op \in {"none", "returned"}
    BY <1>1, <1>2, <1>4, Nothing DEF Known
  <2> QED BY <2>1, <2>2, <2>3, <2>4, Counted
<1> QED BY <1>1, <1>2, <1>4, <1>5, <1>6, <1>7, <1>8, <1>9, Lawfully DEF Known

LEMMA BypassesOutput ==
    ASSUME IInv, NEW t \in Threads, bypass_output(t), NEW o, o = Top(t).output,
           NEW s, s = Top(t).future.state, NEW y, y = ssb[o].m_continuation
    PROVE  IInv' /\ Outlook(t)
<1>1. PICK b, g : Known(t, b, g)
  BY TopFacts DEF IInv, bypass_output, At
<1>2. /\ b = Top(t) /\ stack[t] # <<>> /\ b \in Calls /\ b.op = "propagate" /\ b.pc = "bypass"
      /\ b.output = o /\ b.future.state = s /\ ~b.future.ready /\ g = NoCall
  BY <1>1, Ranges DEF IInv, Known, At, ProperCall, Waits, bypass_output
<1>3. /\ o \in Outputs /\ o \in States /\ o \in created /\ Makes(b, o) /\ ~Fed(o)
      /\ ssb[o].result = "none" /\ ssb[o].m_state # "Finished" /\ ssb[o].m_refs > 0
      /\ o - N \in Operations /\ o - N \in States /\ ssb[o - N].result = "moved"
      /\ s \in Outputs /\ s \in States /\ s \in created /\ Own(b, g, s) /\ Clean(s)
      /\ ssb[s].result # "moved" /\ ssb[s].m_state # "Waiting" /\ ssb[s].m_refs > 0
      /\ o < s /\ s # o
      /\ y \in Outputs /\ y \in States /\ y \in created /\ y < o /\ Feeds(o, y)
      /\ ssb[o].m_continuation = y
  <2>1. /\ o \in Outputs /\ o \in States /\ o \in created /\ Makes(b, o) /\ ~Fed(o)
        /\ ssb[o].result = "none" /\ ssb[o].m_state # "Finished"
        /\ o - N \in Operations /\ o - N \in States /\ ssb[o - N].result = "moved"
    BY <1>1, <1>2, TargetFrom
  <2>2. /\ s \in Outputs /\ s \in States /\ s \in created /\ Own(b, g, s) /\ Clean(s)
        /\ ssb[s].result # "moved" /\ ssb[s].m_state # "Waiting" /\ o < s /\ s # o
    BY <1>1, <1>2, SourceFrom
  <2>3. ssb[o].m_refs > 0 /\ (Held(b, s) => ssb[s].m_refs > 0) /\ (Makes(b, o) => Live(o))
    BY <1>2, <2>1, <2>2, TopAlive
  <2>4. Held(b, s)
    BY <1>2 DEF Held
  <2>5. y # Null
    BY <1>1, <1>2, <2>1, <2>3 DEF IInv, Hooked, Known
  <2>6. y \in Outputs /\ y \in created /\ y < o
    BY <2>1, <2>5 DEF IInv, Continuations
  <2> QED BY <2>1, <2>2, <2>3, <2>4, <2>6, Ranges DEF Feeds
<1>4. PICK c \in Calls :
         /\ Steps(t, c, NoCall, NoCall)
         /\ c.op = b.op /\ c.pc = "publish" /\ c.k = b.k /\ c.future = b.future /\ c.output = b.output
  <2> DEFINE c == [Top(t) EXCEPT !.pc = "publish"]
  <2>1. /\ c \in Calls /\ c.op = b.op /\ c.pc = "publish" /\ c.k = b.k /\ c.future = b.future
        /\ c.output = b.output
    BY <1>2 DEF Calls, Pcs
  <2>2. Becomes(t, <<c>>) /\ \A u \in Threads \ {t} : returned'[u] = returned[u]
    BY <1>2 DEF bypass_output, LoopGoesOn, Goes
  <2> HIDE DEF c
  <2> QED BY <1>2, <2>1, <2>2, Replaces DEF IInv, Waits
<1>5. /\ ssb' \in [States -> SharedStates] /\ Happens(t)
      /\ ssb'[s].m_continuation = y
      /\ ssb'[o].m_continuation = Null
      /\ \A x \in States : x # s /\ x # o => ssb'[x].m_continuation = ssb[x].m_continuation
      /\ \A x \in States : ssb'[x].m_state = ssb[x].m_state
      /\ \A x \in States : ssb'[x].result = ssb[x].result
      /\ \A x \in States : ssb'[x].m_callback = ssb[x].m_callback
      /\ \A x \in States : ssb'[x].m_is_just_for_continuation = ssb[x].m_is_just_for_continuation
      /\ \A x \in States : ssb'[x].m_refs = ssb[x].m_refs
  <2>1. Bypasses(s, y, o) /\ Happens(t)
    BY <1>2 DEF bypass_output, Target, Future, Bypasses, Happens
  <2> QED BY <1>3, <2>1, Bypassing DEF IInv
<1>6. Typed' /\ created' = created
  BY <1>4, <1>5, TypedAfter DEF IInv
<1>7. Effect(b, g) /\ (\A x \in Outputs : LedTo(x)' <=> LedTo(x))
  <2>1. \A x, z \in States : Feeds(x, z)' <=> IF x = s THEN z = y ELSE x # o /\ Feeds(x, z)
    BY <1>3, <1>5, Ranges DEF Feeds, Clean, Null, States
  <2>2. OneFeed'
    BY <1>3, <1>5, <2>1 DEF IInv, OneFeed, OneMaker, Fed
  <2>3. Confined(b, g)
    BY <1>3, <1>5, <1>6, <2>1 DEF Confined, Fed
  <2>4. Creation'
    BY <1>3, <1>5, <1>6, Ranges DEF IInv, Creation
  <2>5. Results'
    BY <1>5 DEF IInv, Results
  <2>6. Continuations'
    <3>1. \A z \in Outputs : /\ z \in States /\ z # Null /\ y # Null
                             /\ ssb'[z].m_continuation =
                                 IF z = s THEN y ELSE IF z = o THEN Null ELSE ssb[z].m_continuation
      BY <1>3, <1>5, Ranges, NAssumption DEF Null, Outputs
    <3>2. y < s
      BY <1>3, NAssumption DEF Outputs
    <3>3. ASSUME NEW z \in Outputs
          PROVE  /\ ssb'[z].m_continuation # Null => /\ ssb'[z].m_continuation \in Outputs \cap created'
                                                     /\ ssb'[z].m_continuation < z
                 /\ ssb'[z].m_callback \in {"none", "fill_from", "final"}
                 /\ ssb'[z].m_callback = "final" => ssb'[z].m_continuation = Null
                 /\ ssb'[z].m_continuation # Null /\ ssb'[z].result = "moved"
                       => ssb'[ssb'[z].m_continuation].result # "none"
      BY <1>3, <1>5, <1>6, <3>1, <3>2, <3>3, Ranges DEF IInv, Continuations, Clean
    <3>4. \A x, z \in Outputs : /\ ssb'[x].m_continuation = ssb'[z].m_continuation
                                /\ ssb'[x].m_continuation # Null
                                => x = z
      BY <1>3, <1>5, <3>1 DEF IInv, Continuations, Clean
    <3> QED BY <3>3, <3>4 DEF Continuations
  <2>7. \A x \in Outputs : LedTo(x)' <=> LedTo(x)
    <3>1. ASSUME NEW x \in Outputs, x # y PROVE LedTo(x)' <=> LedTo(x)
      <4>1. \A z \in Outputs : ssb'[z].m_continuation = x <=> ssb[z].m_continuation = x
        BY <1>3, <1>5, <3>1, Ranges DEF Clean
      <4>2. \A z \in Outputs : Deleted(z)' <=> Deleted(z)
        BY <1>5, Ranges DEF Deleted
      <4> QED BY <4>1, <4>2 DEF LedTo
    <3>2. LedTo(y)' /\ LedTo(y)
      BY <1>3, <1>5, Ranges DEF LedTo, Deleted
    <3> QED BY <3>1, <3>2
  <2> QED BY <2>2, <2>3, <2>4, <2>5, <2>6, <2>7 DEF Effect
<1>8. Lawful(t, b, g, c, NoCall, NoCall)
  <2> USE <1>1, <1>2, <1>3, <1>4, <1>5, Nothing
  <2>1. ProperStep(b, c, NoCall, NoCall)
    BY ProperNothing, NAssumption DEF Known, ProperStep, ProperCall, Kinds
  <2>2. Fits(b, c, NoCall, NoCall)
    BY DEF Fits, Stacked, Waits, Completing
  <2>3. UserStep(b, g, c, NoCall, NoCall)
    <3>1. \A x \in States : /\ Uses(c, x) <=> x = s
                            /\ ~Handles(c, x) /\ ~Uses(NoCall, x)
      BY DEF Uses, Opens, Handles, Held
    <3> QED BY <1>2, <1>4, <1>3, <1>5, <1>6, <3>1, Nothing DEF UserStep, UserOf
  <2>4. MakerStep(b, c, NoCall)
    BY DEF Known, MakerStep, MakerOf, Makes, Feeds, Fed
  <2>5. HookStep(b, g, c, NoCall, NoCall)
    <3>1. \A x \in Outputs : /\ Own(b, g, x) <=> x = s
                             /\ Hooks(c, x) <=> x = s
                             /\ ~Fresh(c, x) /\ ~Fresh(NoCall, x)
      BY DEF Own, Uses, Opens, Handles, Held, Hooks, Fresh
    <3> QED BY <1>2, <1>4, <1>3, <1>5, <1>6, <3>1, Nothing, Ranges DEF HookStep, Makes, Fed, Feeds, Clean, Null
  <2>6. HolderStep(b, g, c, NoCall, NoCall)
    BY <1>6 DEF Known, HolderStep, Held
  <2>7. RoundStep(b, c, NoCall)
    BY <1>6, Ranges DEF Known, RoundStep, RoundOf, Past
  <2>8. KeptStep(b, c, NoCall)
    BY DEF KeptStep
  <2>9. CargoStep(b, g, c, NoCall, NoCall)
    <3>1. /\ ~Carrying(b) /\ ~Carrying(g) /\ ~Carrying(c) /\ ~Carrying(NoCall)
          /\ ~Begins(b) /\ ~Begins(c) /\ ~Begins(NoCall)
      BY DEF Carrying, Begins
    <3>2. expected' = expected /\ delivered' = delivered
      BY DEF bypass_output, LoopGoesOn
    <3>3. Idle(b, g, c, NoCall, NoCall)
      BY <1>6, <1>7, <3>1, <3>2, Ranges, Stays
    <3> QED BY <3>3 DEF CargoStep
  <2>10. AttendStep(b, g, c, NoCall, NoCall)
    BY <1>6, <1>7, Ranges, Returned
     DEF AttendStep, Own, Uses, Opens, Handles, Held, Makes, Full, Outcomes
  <2>11. LinkStep(t, b, c, NoCall, NoCall)
    BY <1>6, <1>7, Ranges DEF LinkStep, Held, Asks
  <2> QED BY <2>1, <2>2, <2>3, <2>4, <2>5, <2>6, <2>7, <2>8, <2>9, <2>10, <2>11 DEF Lawful
<1>9. HoldStep(b, g, c, NoCall, NoCall)
  BY <1>2, <1>4, Nothing DEF HoldStep, Completing, Looping, Held
<1> QED BY <1>1, <1>4, <1>5, <1>6, <1>7, <1>8, <1>9, Lightly

-----------------------------------------------------------------------------
(* ... and those that give a reference up.                                 *)

LEMMA PropagateReturns ==
    ASSUME IInv, NEW t \in Threads, At(t, "propagate", "drop"), ~Top(t).future.ready, NEW s,
           s = Top(t).future.state,
           unbind(s), Becomes(t, <<>>), LoopGoesOn
    PROVE  IInv' /\ Outlook(t)
<1>1. PICK b, g : Known(t, b, g)
  BY TopFacts DEF IInv, At
<1>2. /\ b = Top(t) /\ stack[t] # <<>> /\ b \in Calls /\ b.op = "propagate" /\ b.pc = "drop"
      /\ ~b.future.ready /\ b.future.state = s /\ g = NoCall /\ s \in Outputs /\ s \in States
      /\ s \in created
  BY <1>1, Ranges DEF IInv, Known, At, ProperCall, Waits, Held
<1>3. Steps(t, NoCall, NoCall, NoCall)
  <2>1. Becomes(t, <<>>) /\ \A u \in Threads \ {t} : returned'[u] = returned[u]
    BY <1>2 DEF LoopGoesOn
  <2> QED BY <1>2, <2>1, Leaves DEF IInv
<1>4. /\ ssb' \in [States -> SharedStates] /\ created' = created
      /\ \A x \in States : ssb'[x].m_state = ssb[x].m_state
      /\ \A x \in States : ssb'[x].result = ssb[x].result
      /\ \A x \in States : ssb'[x].m_callback = ssb[x].m_callback
      /\ \A x \in States : ssb'[x].m_continuation = ssb[x].m_continuation
      /\ \A x \in States : ssb'[x].m_is_just_for_continuation = ssb[x].m_is_just_for_continuation
  BY <1>2, Unbound DEF IInv, LoopGoesOn
<1>5. Lawful(t, b, g, NoCall, NoCall, NoCall)
  <2> USE <1>1, <1>2, <1>3, <1>4, Nothing
  <2>1. ProperStep(b, NoCall, NoCall, NoCall)
    BY ProperNothing, NAssumption DEF Known, ProperStep, ProperCall, Kinds
  <2>2. Fits(b, NoCall, NoCall, NoCall)
    BY DEF Fits, Stacked, Waits, Completing
  <2>3. UserStep(b, g, NoCall, NoCall, NoCall)
    BY DEF Known, UserStep, Own, UserOf, Uses, Opens, Handles, Held
  <2>4. MakerStep(b, NoCall, NoCall)
    BY DEF Known, MakerStep, MakerOf, Makes, Feeds
  <2>5. HookStep(b, g, NoCall, NoCall, NoCall)
    BY Ranges DEF Known, HookStep, Own, Clean, Fresh, Hooks, Held, Uses, Opens, Handles
  <2>6. HolderStep(b, g, NoCall, NoCall, NoCall)
    BY DEF Known, HolderStep, Held
  <2>7. RoundStep(b, NoCall, NoCall)
    BY Ranges DEF Known, RoundStep, RoundOf, Past
  <2>8. KeptStep(b, NoCall, NoCall)
    BY DEF KeptStep
  <2>9. CargoStep(b, g, NoCall, NoCall, NoCall)
    <3>1. /\ ~Carrying(b) /\ ~Carrying(g) /\ ~Carrying(NoCall)
          /\ ~Begins(b) /\ ~Begins(NoCall)
      BY DEF Carrying, Begins
    <3>2. expected' = expected /\ delivered' = delivered
      BY DEF LoopGoesOn
    <3>3. Idle(b, g, NoCall, NoCall, NoCall)
      BY <3>1, <3>2, Ranges, Stays
    <3> QED BY <3>3 DEF CargoStep
  <2>10. AttendStep(b, g, NoCall, NoCall, NoCall)
    BY DEF AttendStep, Own, Uses, Opens, Handles, Held, Makes, Full
  <2>11. LinkStep(t, b, NoCall, NoCall, NoCall)
    BY Ranges DEF LinkStep, Held, Asks
  <2> QED BY <2>1, <2>2, <2>3, <2>4, <2>5, <2>6, <2>7, <2>8, <2>9, <2>10, <2>11 DEF Lawful
<1>6. Loses(b, NoCall, s)
  BY <1>1, <1>2, Returned, Nothing, Ranges DEF Loses, Looping, Completing, Held
<1> QED
  <2>1. called_on' = called_on /\ expected' = expected /\ delivered' = delivered
        /\ overtaken' = overtaken /\ returned' \in [Threads -> Futures]
    BY <1>2, <1>1 DEF LoopGoesOn, IInv, Typed
  <2> QED BY <1>1, <1>2, <1>3, <1>4, <1>5, <1>6, <2>1, Dropping

LEMMA GetAsyncReturns ==
    ASSUME IInv, NEW t \in Threads, At(t, "get_async", "drop"), ~Top(t).future.ready, NEW s,
           s = Top(t).future.state,
           unbind(s), Becomes(t, <<>>), LoopGoesOn
    PROVE  IInv' /\ Outlook(t)
<1>1. PICK b, g : Known(t, b, g)
  BY TopFacts DEF IInv, At
<1>2. /\ b = Top(t) /\ stack[t] # <<>> /\ b \in Calls /\ b.op = "get_async" /\ b.pc = "drop"
      /\ ~b.future.ready /\ b.future.state = s /\ g = NoCall /\ s \in Outputs /\ s \in States
      /\ s \in created
  BY <1>1, Ranges DEF IInv, Known, At, ProperCall, Waits, Held
<1>3. Steps(t, NoCall, NoCall, NoCall)
  <2>1. Becomes(t, <<>>) /\ \A u \in Threads \ {t} : returned'[u] = returned[u]
    BY <1>2 DEF LoopGoesOn
  <2> QED BY <1>2, <2>1, Leaves DEF IInv
<1>4. /\ ssb' \in [States -> SharedStates] /\ created' = created
      /\ \A x \in States : ssb'[x].m_state = ssb[x].m_state
      /\ \A x \in States : ssb'[x].result = ssb[x].result
      /\ \A x \in States : ssb'[x].m_callback = ssb[x].m_callback
      /\ \A x \in States : ssb'[x].m_continuation = ssb[x].m_continuation
      /\ \A x \in States : ssb'[x].m_is_just_for_continuation = ssb[x].m_is_just_for_continuation
  BY <1>2, Unbound DEF IInv, LoopGoesOn
<1>5. Lawful(t, b, g, NoCall, NoCall, NoCall)
  <2> USE <1>1, <1>2, <1>3, <1>4, Nothing
  <2>1. ProperStep(b, NoCall, NoCall, NoCall)
    BY ProperNothing, NAssumption DEF Known, ProperStep, ProperCall, Kinds
  <2>2. Fits(b, NoCall, NoCall, NoCall)
    BY DEF Fits, Stacked, Waits, Completing
  <2>3. UserStep(b, g, NoCall, NoCall, NoCall)
    BY DEF Known, UserStep, Own, UserOf, Uses, Opens, Handles, Held
  <2>4. MakerStep(b, NoCall, NoCall)
    BY DEF Known, MakerStep, MakerOf, Makes, Feeds
  <2>5. HookStep(b, g, NoCall, NoCall, NoCall)
    BY Ranges DEF Known, HookStep, Own, Clean, Fresh, Hooks, Held, Uses, Opens, Handles
  <2>6. HolderStep(b, g, NoCall, NoCall, NoCall)
    BY DEF Known, HolderStep, Held
  <2>7. RoundStep(b, NoCall, NoCall)
    BY Ranges DEF Known, RoundStep, RoundOf, Past
  <2>8. KeptStep(b, NoCall, NoCall)
    BY DEF KeptStep
  <2>9. CargoStep(b, g, NoCall, NoCall, NoCall)
    <3>1. /\ ~Carrying(b) /\ ~Carrying(g) /\ ~Carrying(NoCall)
          /\ ~Begins(b) /\ ~Begins(NoCall)
      BY DEF Carrying, Begins
    <3>2. expected' = expected /\ delivered' = delivered
      BY DEF LoopGoesOn
    <3>3. Idle(b, g, NoCall, NoCall, NoCall)
      BY <3>1, <3>2, Ranges, Stays
    <3> QED BY <3>3 DEF CargoStep
  <2>10. AttendStep(b, g, NoCall, NoCall, NoCall)
    BY DEF AttendStep, Own, Uses, Opens, Handles, Held, Makes, Full
  <2>11. LinkStep(t, b, NoCall, NoCall, NoCall)
    BY Ranges DEF LinkStep, Held, Asks
  <2> QED BY <2>1, <2>2, <2>3, <2>4, <2>5, <2>6, <2>7, <2>8, <2>9, <2>10, <2>11 DEF Lawful
<1>6. Loses(b, NoCall, s)
  BY <1>1, <1>2, Returned, Nothing, Ranges DEF Loses, Looping, Completing, Held
<1> QED
  <2>1. called_on' = called_on /\ expected' = expected /\ delivered' = delivered
        /\ overtaken' = overtaken /\ returned' \in [Threads -> Futures]
    BY <1>2, <1>1 DEF LoopGoesOn, IInv, Typed
  <2> QED BY <1>1, <1>2, <1>3, <1>4, <1>5, <1>6, <2>1, Dropping

LEMMA DropsPromise ==
    ASSUME IInv, NEW t \in Threads, At(t, "complete", "drop"), NEW s, s = Top(t).k,
           unbind(s), Becomes(t, <<>>), LoopGoesOn
    PROVE  IInv' /\ Outlook(t)
<1>1. PICK b, g : Known(t, b, g)
  BY TopFacts DEF IInv, At
<1>2. /\ b = Top(t) /\ stack[t] # <<>> /\ b \in Calls /\ b.op = "complete" /\ b.pc = "drop"
      /\ b.k = s /\ g = NoCall /\ s \in Operations /\ s \in States /\ s \in created
  BY <1>1, Ranges DEF IInv, Known, At, ProperCall, Waits, RoundOf
<1>3. Steps(t, NoCall, NoCall, NoCall)
  <2>1. Becomes(t, <<>>) /\ \A u \in Threads \ {t} : returned'[u] = returned[u]
    BY <1>2 DEF LoopGoesOn
  <2> QED BY <1>2, <2>1, Leaves DEF IInv
<1>4. /\ ssb' \in [States -> SharedStates] /\ created' = created
      /\ \A x \in States : ssb'[x].m_state = ssb[x].m_state
      /\ \A x \in States : ssb'[x].result = ssb[x].result
      /\ \A x \in States : ssb'[x].m_callback = ssb[x].m_callback
      /\ \A x \in States : ssb'[x].m_continuation = ssb[x].m_continuation
      /\ \A x \in States : ssb'[x].m_is_just_for_continuation = ssb[x].m_is_just_for_continuation
  BY <1>2, Unbound DEF IInv, LoopGoesOn
<1>5. Lawful(t, b, g, NoCall, NoCall, NoCall)
  <2> USE <1>1, <1>2, <1>3, <1>4, Nothing
  <2>1. ProperStep(b, NoCall, NoCall, NoCall)
    BY ProperNothing, NAssumption DEF Known, ProperStep, ProperCall, Kinds
  <2>2. Fits(b, NoCall, NoCall, NoCall)
    BY DEF Fits, Stacked, Waits, Completing
  <2>3. UserStep(b, g, NoCall, NoCall, NoCall)
    BY DEF Known, UserStep, Own, UserOf, Uses, Opens, Handles, Held
  <2>4. MakerStep(b, NoCall, NoCall)
    BY DEF Known, MakerStep, MakerOf, Makes, Feeds
  <2>5. HookStep(b, g, NoCall, NoCall, NoCall)
    BY Ranges DEF Known, HookStep, Own, Clean, Fresh, Hooks, Held, Uses, Opens, Handles
  <2>6. HolderStep(b, g, NoCall, NoCall, NoCall)
    BY DEF Known, HolderStep, Held
  <2>7. RoundStep(b, NoCall, NoCall)
    BY Ranges DEF Known, RoundStep, RoundOf, Past
  <2>8. KeptStep(b, NoCall, NoCall)
    BY DEF KeptStep
  <2>9. CargoStep(b, g, NoCall, NoCall, NoCall)
    <3>1. /\ ~Carrying(b) /\ ~Carrying(g) /\ ~Carrying(NoCall)
          /\ ~Begins(b) /\ ~Begins(NoCall)
      BY DEF Carrying, Begins
    <3>2. expected' = expected /\ delivered' = delivered
      BY DEF LoopGoesOn
    <3>3. Idle(b, g, NoCall, NoCall, NoCall)
      BY <3>1, <3>2, Ranges, Stays
    <3> QED BY <3>3 DEF CargoStep
  <2>10. AttendStep(b, g, NoCall, NoCall, NoCall)
    BY DEF AttendStep, Own, Uses, Opens, Handles, Held, Makes, Full
  <2>11. LinkStep(t, b, NoCall, NoCall, NoCall)
    BY Ranges DEF LinkStep, Held, Asks
  <2> QED BY <2>1, <2>2, <2>3, <2>4, <2>5, <2>6, <2>7, <2>8, <2>9, <2>10, <2>11 DEF Lawful
<1>6. Loses(b, NoCall, s)
  BY <1>1, <1>2, Returned, Nothing, Ranges DEF Loses, Looping, Completing, Held
<1> QED
  <2>1. called_on' = called_on /\ expected' = expected /\ delivered' = delivered
        /\ overtaken' = overtaken /\ returned' \in [Threads -> Futures]
    BY <1>2, <1>1 DEF LoopGoesOn, IInv, Typed
  <2> QED BY <1>1, <1>2, <1>3, <1>4, <1>5, <1>6, <2>1, Dropping

LEMMA ThenReturns ==
    ASSUME IInv, NEW t \in Threads, At(t, "loop", "drop"), NEW s, s = Top(t).k, NEW f,
           f = Top(t).future, unbind(s),
           returned' = [returned EXCEPT ![t] = f], Becomes(t, <<>>),
           UNCHANGED <<called_on, created, expected, delivered, overtaken>>
    PROVE  IInv' /\ Outlook(t)
<1>1. PICK b, g : Known(t, b, g)
  BY TopFacts DEF IInv, At
<1>2. /\ b = Top(t) /\ stack[t] # <<>> /\ b \in Calls /\ b.op = "loop" /\ b.pc = "drop" /\ b.k = s
      /\ b.future = f /\ f \in Futures /\ g = NoCall /\ s \in Operations /\ s \in States
      /\ s \in created
  BY <1>1, Ranges DEF IInv, Known, At, ProperCall, Waits, RoundOf, Calls
<1>3. ~f.ready => f.state \in Outputs /\ f.state >= Output(s)
  BY <1>1, <1>2 DEF Known, ProperCall
<1>4. Steps(t, NoCall, NoCall, Given(f))
  <2>1. returned'[t] = f /\ \A u \in Threads \ {t} : returned'[u] = returned[u]
    BY <1>2 DEF IInv, Typed
  <2> QED BY <1>2, <2>1, Leaves DEF IInv
<1>5. /\ ssb' \in [States -> SharedStates] /\ created' = created
      /\ \A x \in States : ssb'[x].m_state = ssb[x].m_state
      /\ \A x \in States : ssb'[x].result = ssb[x].result
      /\ \A x \in States : ssb'[x].m_callback = ssb[x].m_callback
      /\ \A x \in States : ssb'[x].m_continuation = ssb[x].m_continuation
      /\ \A x \in States : ssb'[x].m_is_just_for_continuation = ssb[x].m_is_just_for_continuation
  BY <1>2, Unbound DEF IInv
<1>6. Lawful(t, b, g, NoCall, NoCall, Given(f))
  <2> USE <1>1, <1>2, <1>4, <1>5, Nothing
  <2>1. ProperStep(b, NoCall, NoCall, Given(f))
    BY ProperNothing, NAssumption, Returned DEF Known, ProperStep, ProperCall, Kinds
  <2>2. Fits(b, NoCall, NoCall, Given(f))
    BY <1>3, NAssumption, Returned, SMTT(30)
     DEF Fits, Stacked, Waits, Completing, Output, Outputs, Operations
  <2>3. UserStep(b, g, NoCall, NoCall, Given(f))
    BY Returned DEF Known, UserStep, Own, UserOf, Uses, Opens, Handles, Held
  <2>4. MakerStep(b, NoCall, NoCall)
    BY Returned DEF Known, MakerStep, MakerOf, Makes, Feeds
  <2>5. HookStep(b, g, NoCall, NoCall, Given(f))
    BY Ranges, Returned DEF Known, HookStep, Own, Clean, Fresh, Hooks, Held, Uses, Opens, Handles
  <2>6. HolderStep(b, g, NoCall, NoCall, Given(f))
    BY Returned DEF Known, HolderStep, Held
  <2>7. RoundStep(b, NoCall, NoCall)
    BY Ranges, Returned DEF Known, RoundStep, RoundOf, Past
  <2>8. KeptStep(b, NoCall, NoCall)
    BY Returned DEF KeptStep
  <2>9. CargoStep(b, g, NoCall, NoCall, Given(f))
    <3>1. /\ ~Begins(b) /\ ~Begins(NoCall)
          /\ ~Carrying(g) /\ ~Carrying(NoCall)
          /\ (Carrying(b) <=> f.ready) /\ (Carrying(Given(f)) <=> f.ready)
      BY Returned DEF Carrying, Begins
    <3>2. expected' = expected /\ delivered' = delivered
      OBVIOUS
    <3>3. GoesOn(b, NoCall, NoCall)
      BY <1>3, <3>1, <3>2, Ranges, Onward DEF Unmoved
    <3>4. \A z \in Outputs : ssb'[z].result = ssb[z].result
      BY <1>3, Ranges
    <3>5. CASE ~f.ready
      <4>1. Idle(b, g, NoCall, NoCall, Given(f))
        BY <3>1, <3>2, <3>3, <3>4, <3>5 DEF Idle
      <4> QED BY <4>1 DEF CargoStep
    <3>6. CASE f.ready
      <4>1. f.outcome \in Outcomes
        BY <3>6 DEF Futures
      <4>2. Taken(b, g, NoCall, NoCall, Null, f.outcome)
        BY <3>1, <3>3, <3>6 DEF Taken
      <4>3. Put(b, NoCall, NoCall, Given(f), Null, f.outcome)
        BY Returned, <3>1, <3>2, <3>6 DEF Put
      <4> QED BY <3>4, <4>1, <4>2, <4>3 DEF CargoStep, Hands
    <3> QED BY <3>5, <3>6
  <2>10. AttendStep(b, g, NoCall, NoCall, Given(f))
    BY <1>3, Ranges, Returned
     DEF AttendStep, Own, Uses, Opens, Handles, Held, Makes, Full, Outcomes
  <2>11. LinkStep(t, b, NoCall, NoCall, Given(f))
    BY <1>3, Ranges DEF LinkStep, Held, Asks
  <2> QED BY <2>1, <2>2, <2>3, <2>4, <2>5, <2>6, <2>7, <2>8, <2>9, <2>10, <2>11 DEF Lawful
<1>7. Loses(b, Given(f), s)
  BY <1>1, <1>2, <1>3, Returned, Nothing, Ranges DEF Loses, Looping, Completing, Held
<1> QED
  <2>1. returned' \in [Threads -> Futures]
    BY <1>2 DEF IInv, Typed
  <2> QED BY <1>1, <1>2, <1>4, <1>5, <1>6, <1>7, <2>1, Dropping

-----------------------------------------------------------------------------
(* The invariant holds at first. *)

LEMMA FirstFrames ==
    ASSUME Init, NEW p \in Places
    PROVE  \/ p = <<User, 1>> /\ Frame(p) = GetAsync
           \/ p = <<User, 2>> /\ Frame(p) = Loop(1)
           \/ p[1] \in Operations /\ p[2] = 1 /\ Frame(p) = Complete(p[1])
           \/ p # <<User, 1>> /\ p # <<User, 2>> /\ (p[1] \in Operations => p[2] # 1) /\
                Frame(p) = NoCall
<1>1. PICK u \in Threads, h \in Nat : p = <<u, h>>
  BY DEF Places
<1>2. ~Waits(Loop(1)) /\ ~Waits(Complete(u))
  BY DEF Waits, Loop, Complete, Call
<1>3. CASE u = User
  <2>1. stack[u] = <<Loop(1), GetAsync>>
    BY <1>3 DEF Init
  <2> DEFINE calls == <<Loop(1), GetAsync>>
  <2>2. calls # <<>> /\ Len(calls) = 2 /\ Head(calls) = Loop(1) /\ calls[1] = Loop(1) /\
          calls[2] = GetAsync
    OBVIOUS
  <2>3. Frame(p) = Slot(calls, returned[u], h)
    BY <1>1, <2>1 DEF Frame, FrameIn
  <2> HIDE DEF calls
  <2>4. Frame(p) = IF h = 2 THEN Loop(1) ELSE IF h = 1 THEN GetAsync ELSE NoCall
    BY <1>2, <2>2, <2>3 DEF Slot
  <2> QED BY <1>1, <1>3, <2>4 DEF User, Operations
<1>4. CASE u # User
  <2>1. stack[u] = <<Complete(u)>> /\ u \in Operations
    BY <1>4 DEF Init, Threads, User, Operations
  <2> DEFINE calls == <<Complete(u)>>
  <2>2. calls # <<>> /\ Len(calls) = 1 /\ Head(calls) = Complete(u) /\ calls[1] = Complete(u)
    OBVIOUS
  <2>3. Frame(p) = Slot(calls, returned[u], h)
    BY <1>1, <2>1 DEF Frame, FrameIn
  <2> HIDE DEF calls
  <2>4. Frame(p) = IF h = 1 THEN Complete(u) ELSE NoCall
    BY <1>2, <2>2, <2>3 DEF Slot
  <2> QED BY <1>1, <1>4, <2>1, <2>4
<1> QED BY <1>3, <1>4

LEMMA FirstTyped == Init => Typed
<1> SUFFICES ASSUME Init PROVE Typed
  OBVIOUS
<1>1. NewState(0) \in SharedStates
  BY DEF NewState, SharedStates, Null
<1>2. NoFuture \in Futures
  BY NewFuture
<1>3. GetAsync \in Calls /\ Loop(1) \in Calls /\ \A u \in Operations : Complete(u) \in Calls
  BY <1>2, NAssumption DEF GetAsync, Loop, Complete, Call, Calls, Kinds, Pcs, Null, Operations
<1>4. ASSUME NEW u \in Threads PROVE stack[u] \in Seq(Calls)
  <2>1. u # User => u \in Operations
    BY DEF Threads, User, Operations
  <2>2. stack[u] = IF u = User THEN <<Loop(1), GetAsync>> ELSE <<Complete(u)>>
    BY DEF Init
  <2> QED BY <1>3, <2>1, <2>2
<1>5. stack \in [Threads -> Seq(Calls)]
  BY <1>4 DEF Init
<1>6. ssb \in [States -> SharedStates] /\ returned \in [Threads -> Futures]
  BY <1>1, <1>2 DEF Init
<1>7. delivered \in Seq(Outcomes)
  BY DEF Init
<1> QED BY <1>5, <1>6, <1>7 DEF Init, Typed

LEMMA FirstCalls ==
    /\ GetAsync.op = "get_async" /\ GetAsync.pc = "start" /\ GetAsync.k = 0
    /\ ~GetAsync.future.ready
    /\ \A k : /\ Loop(k).op = "loop" /\ Loop(k).pc = "start" /\ Loop(k).k = k
              /\ Complete(k).op = "complete" /\ Complete(k).pc = "start" /\ Complete(k).k = k
BY DEF GetAsync, Loop, Complete, Call, NoFuture, Deferred

LEMMA FirstStates ==
    Init => \A s \in States :
              /\ ssb[s].m_state = "Init" /\ ssb[s].result = "none" /\ ssb[s].m_callback = "none"
              /\ ssb[s].m_continuation = Null /\ ssb[s].m_is_just_for_continuation = FALSE
              /\ ssb[s].m_refs = 0
BY DEF Init, NewState

LEMMA InitIInv == Init => IInv
<1> SUFFICES ASSUME Init PROVE IInv
  OBVIOUS
<1>1. Typed
  BY FirstTyped
<1>2. \A p \in Places : p = <<p[1], p[2]>> /\ p[1] \in Threads /\ p[2] \in Nat
  BY DEF Places
<1>3. \A p \in Places :
        \/ /\ p[1] = User /\ p[2] = 1
           /\ Frame(p).op = "get_async" /\ Frame(p).pc = "start" /\ Frame(p).k = 0
           /\ ~Frame(p).future.ready
        \/ /\ p[1] = User /\ p[2] = 2
           /\ Frame(p).op = "loop" /\ Frame(p).pc = "start" /\ Frame(p).k = 1
        \/ /\ p[1] \in Operations /\ p[2] = 1
           /\ Frame(p).op = "complete" /\ Frame(p).pc = "start" /\ Frame(p).k = p[1]
        \/ /\ (p[1] = User /\ p[2] \notin {1, 2}) \/ (p[1] \in Operations /\ p[2] # 1)
           /\ Frame(p) = NoCall /\ Frame(p).op = "none" /\ Frame(p).pc = "none"
  <2> SUFFICES ASSUME NEW p \in Places
               PROVE
        \/ /\ p[1] = User /\ p[2] = 1
           /\ Frame(p).op = "get_async" /\ Frame(p).pc = "start" /\ Frame(p).k = 0
           /\ ~Frame(p).future.ready
        \/ /\ p[1] = User /\ p[2] = 2
           /\ Frame(p).op = "loop" /\ Frame(p).pc = "start" /\ Frame(p).k = 1
        \/ /\ p[1] \in Operations /\ p[2] = 1
           /\ Frame(p).op = "complete" /\ Frame(p).pc = "start" /\ Frame(p).k = p[1]
        \/ /\ (p[1] = User /\ p[2] \notin {1, 2}) \/ (p[1] \in Operations /\ p[2] # 1)
           /\ Frame(p) = NoCall /\ Frame(p).op = "none" /\ Frame(p).pc = "none"
    OBVIOUS
  <2>1. p[1] # User => p[1] \in Operations
    BY <1>2 DEF Threads, User, Operations
  <2> QED BY <1>2, <2>1, FirstFrames, FirstCalls, Nothing
<1>4. User \notin Operations /\ 1 \in Operations /\ created = {}
  BY NAssumption DEF User, Operations, Init
<1>5. Proper
  <2> SUFFICES ASSUME NEW p \in Places PROVE ProperCall(Frame(p), p[1], p[2])
    BY DEF Proper
  <2>1. Frame(p) = NoCall => ProperCall(Frame(p), p[1], p[2])
    BY <1>2, ProperNothing
  <2>2. CASE Frame(p).op = "get_async"
    BY <1>3, <2>2, Nothing DEF ProperCall, Kinds
  <2>3. CASE Frame(p).op = "loop"
    BY <1>3, <1>4, <2>3, Nothing DEF ProperCall, Kinds
  <2>4. CASE Frame(p).op = "complete"
    BY <1>3, <2>4, Nothing DEF ProperCall, Kinds
  <2> QED BY <1>3, <2>1, <2>2, <2>3, <2>4
<1>6. Shape
  <2>1. Stacks
    <3> SUFFICES ASSUME NEW p \in Places, NEW q \in Places, Over(q, p)
                 PROVE  Stacked(Frame(p), Frame(q))
      BY DEF Stacks
    <3>1. Frame(q) = NoCall => Stacked(Frame(p), Frame(q))
      BY <1>3, Nothing DEF Stacked
    <3> QED BY <1>2, <1>3, <1>4, <3>1 DEF Over, Stacked, Waits
  <2>2. Bottoms
    BY <1>2, <1>3 DEF Bottoms
  <2>3. Answers
    BY <1>2, <1>3, <1>4 DEF Answers, Over, Waits
  <2> QED BY <2>1, <2>2, <2>3 DEF Shape
<1>7. Rounds
  <2>1. \A p, q \in Places : Frame(p).op = "loop" /\ Frame(q).op = "loop" => p = q
    BY <1>2, <1>3
  <2> QED BY <1>3, <1>4, <2>1, Nothing DEF Rounds, RoundOf, Past, Operations
<1>8. Creation
  BY <1>4, FirstStates, Ranges DEF Creation
<1>9. Results /\ Continuations
  BY FirstStates, Ranges DEF Results, Continuations
<1>10. \A p \in Places, s \in States : ~Uses(Frame(p), s) /\ ~Held(Frame(p), s)
  BY <1>3 DEF Uses, Opens, Handles, Held
<1>11. OneUser /\ OneHolder
  BY <1>10 DEF OneUser, UserOf, OneHolder
<1>12. \A s, x \in States : ~Feeds(s, x)
  BY FirstStates, Ranges DEF Feeds, Null, States
<1>13. OneMaker
  <2>1. \A p \in Places,
          s \in States : Makes(Frame(p), s) => p[1] = s /\ p[2] = 1 /\ Frame(p).op = "complete"
    BY <1>3 DEF Makes
  <2>2. \A p, q \in Places, s \in States : Makes(Frame(p), s) /\ Makes(Frame(q), s) => p = q
    BY <1>2, <2>1
  <2> QED BY <1>12, <2>1, <2>2, FirstStates DEF OneMaker, MakerOf
<1>14. Hooked
  BY <1>3, <1>10, FirstStates, Ranges DEF Hooked, Fresh, Hooks, Clean
<1>15. Counts
  <2>1. ASSUME NEW k \in Operations PROVE \E p \in Places : Completing(Frame(p), k)
    <3>1. <<k, 1>> \in Places /\ k # User
      BY <2>1 DEF Places, Threads, Operations, User
    <3>2. Completing(Frame(<<k, 1>>), k)
      BY <1>3, <3>1 DEF Completing
    <3> QED BY <3>1, <3>2
  <2> QED BY <1>4, <2>1 DEF Counts
<1>16. Kept
  BY <1>3 DEF Kept
<1> QED BY <1>1, <1>5, <1>6, <1>7, <1>8, <1>9, <1>11, <1>13, <1>14, <1>15, <1>16 DEF IInv

-----------------------------------------------------------------------------
(* Every step preserves the invariant. *)

LEMMA Stuttering == IInv /\ UNCHANGED vars => IInv'
<1> SUFFICES ASSUME IInv, UNCHANGED vars PROVE IInv'
  OBVIOUS
<1>1. /\ called_on' = called_on /\ ssb' = ssb /\ created' = created /\ stack' = stack
      /\ returned' = returned /\ expected' = expected /\ delivered' = delivered
      /\ overtaken' = overtaken
  BY DEF vars
<1>2. \A p \in Places : Frame(p)' = Frame(p)
  BY <1>1 DEF Frame
<1>3. Typed' /\ Proper' /\ Shape' /\ Rounds' /\ Creation' /\ Results' /\ Continuations'
  BY <1>1, <1>2 DEF IInv, Typed, Proper, Shape, Stacks, Bottoms, Answers, Rounds, RoundOf, Past,
     Creation, Results, Continuations
<1>4. OneUser' /\ OneHolder' /\ Kept'
  BY <1>1, <1>2 DEF IInv, OneUser, UserOf, OneHolder, Kept, KeptBelow
<1>5. OneMaker' /\ Hooked'
  BY <1>1, <1>2 DEF IInv, OneMaker, MakerOf, Feeds, Hooked, Live, Clean
<1>6. Counts'
  BY <1>1, <1>2 DEF IInv, Counts, OperationCount, OutputCount, Deleted
<1> QED BY <1>3, <1>4, <1>5, <1>6 DEF IInv

(* The result that a callback is called with is an outcome. *)
LEMMA HandledOutcome ==
    ASSUME IInv, NEW p \in Places, NEW s \in States, Handles(Frame(p), s)
    PROVE  ssb[s].result \in Outcomes /\ ssb[s].m_callback # "none"
<1>1. ssb[s].m_state = "Finished" /\ ssb[s].result # "moved" /\ ssb[s].m_callback # "none"
  BY DEF IInv, OneUser, UserOf, Uses
<1>2. ssb[s].result # "none" /\ ssb[s].result \in Outcomes \cup {"none", "moved"}
  BY <1>1 DEF IInv, Results, Typed, SharedStates
<1> QED BY <1>1, <1>2

LEMMA StepOutcome ==
    ASSUME IInv, NEW t \in Threads, At(t, "step", "start")
    PROVE  ssb[Op(t)].result \in Outcomes
<1>1. PICK p \in Places : Frame(p) = Top(t)
  BY TopFrame DEF At
<1>2. Top(t).k \in States
  BY <1>1, Ranges DEF IInv, Proper, ProperCall, At
<1>3. Handles(Frame(p), Top(t).k)
  BY <1>1 DEF Handles, At
<1> QED BY <1>2, <1>3, HandledOutcome DEF Op, Operation

LEMMA FinalOutcome ==
    ASSUME IInv, NEW t \in Threads, At(t, "finish", "callback")
    PROVE  ssb[Future(t).state].m_callback \in {"then", "fill_from", "final"}
<1>1. PICK p \in Places : Frame(p) = Top(t)
  BY TopFrame DEF At
<1>2. Top(t).future.state \in States
  BY <1>1 DEF IInv, Proper, ProperCall, At
<1>3. Handles(Frame(p), Top(t).future.state)
  BY <1>1 DEF Handles, At
<1>4. ssb[Top(t).future.state].m_callback # "none"
  BY <1>2, <1>3, HandledOutcome
<1> QED BY <1>2, <1>4 DEF IInv, Typed, SharedStates, Future

LEMMA RunIInv ==
    ASSUME IInv, NEW t \in Threads, Run(t)
    PROVE  IInv' /\ Outlook(t)
<1>1. CASE start_operation(t)
  <2>1. PICK j : j = Top(t).k
    OBVIOUS
  <2> QED BY <1>1, <2>1, StartsOperation
<1>2. CASE then_ready(t)
  <2>1. PICK j : j = Top(t).k
    OBVIOUS
  <2>2. At(t, "loop", "load") /\ ssb[Op(t)].m_state = "Finished" /\ Moves(j)
    BY <1>2, <2>1, Zenon DEF then_ready, Op, Operation, Moves
  <2>3. CASE \E outcome \in Outcomes : Becomes(t, <<Holds(t, Ready(outcome))>>) /\ LoopEnds(outcome)
    BY <2>1, <2>2, <2>3, ThenReadyEnds
  <2>4. CASE /\ ssb[Op(t)].result \in called_on /\ Top(t).k < N
             /\ CallsThen(t, Loop(Top(t).k + 1), "take") /\ LoopGoesOn
    BY <2>1, <2>2, <2>4, ThenReadyGoesRound
  <2> QED BY <1>2, <2>3, <2>4, Zenon DEF then_ready
<1>3. CASE take_future(t)
  BY <1>3, TakeFuture
<1>4. CASE then_not_ready(t)
  BY <1>4, ThenNotReady
<1>5. CASE make_continuation(t)
  <2>1. PICK j : j = Top(t).k
    OBVIOUS
  <2>2. PICK o : o = Output(j)
    OBVIOUS
  <2> QED BY <1>5, <2>1, <2>2, MakesContinuation
<1>6. CASE then_cas(t)
  BY <1>6, ThenCasMissed, ThenCasWaits
<1>7. CASE then_returns(t)
  <2>1. PICK s : s = Top(t).k
    OBVIOUS
  <2>2. PICK f : f = Top(t).future
    OBVIOUS
  <2>3. /\ At(t, "loop", "drop") /\ unbind(s) /\ returned' = [returned EXCEPT ![t] = f]
        /\ Becomes(t, <<>>) /\ UNCHANGED <<called_on, created, expected, delivered, overtaken>>
    BY <1>7, <2>1, <2>2, Zenon DEF then_returns, Op, Operation, Future
  <2> QED BY <2>1, <2>2, <2>3, ThenReturns
<1>8. ASSUME NEW outcome \in Outcomes, At(t, "step", "start"), StepSets(t, outcome)
      PROVE  IInv' /\ Outlook(t)
  <2>1. PICK j : j = Top(t).k
    OBVIOUS
  <2>2. PICK o : o = ssb[j].m_continuation
    OBVIOUS
  <2> QED BY <1>8, <2>1, <2>2, StepHasSet
<1>9. CASE step_passes_on(t)
  BY <1>8, <1>9, StepOutcome DEF step_passes_on
<1>10. CASE step_throws(t)
  BY <1>8, <1>10 DEF step_throws, Outcomes
<1>11. CASE step_returns(t)
  <2>1. PICK j : j = Top(t).k
    OBVIOUS
  <2>2. PICK o : o = ssb[j].m_continuation
    OBVIOUS
  <2>3. /\ At(t, "step", "start") /\ Moves(j)
        /\ \E outcome \in Outcomes : Becomes(t, <<Propagate(Ready(outcome), o)>>) /\
             LoopEnds(outcome)
    BY <1>11, <2>1, <2>2, Zenon DEF step_returns, Op, Operation, Moves
  <2> QED BY <2>1, <2>2, <2>3, StepReturns
<1>12. CASE step_goes_round(t)
  <2>1. PICK j : j = Top(t).k
    OBVIOUS
  <2>2. PICK o : o = ssb[j].m_continuation
    OBVIOUS
  <2>3. /\ At(t, "step", "start") /\ Moves(j) /\ j < N
        /\ Becomes(t, <<Loop(j + 1), [Top(t) EXCEPT !.pc = "propagate", !.output = o]>>) /\
             LoopGoesOn
    BY <1>12, <2>1, <2>2, Zenon DEF step_goes_round, Op, Operation, Moves
  <2> QED BY <2>1, <2>2, <2>3, StepGoesRound, Zenon
<1>13. CASE step_propagates(t)
  BY <1>13, StepPropagates
<1>14. CASE propagate_ready(t)
  <2>1. PICK o : o = Top(t).output
    OBVIOUS
  <2>2. /\ At(t, "propagate", "load") /\ CallsThen(t, Finish(o), "drop") /\ LoopGoesOn
        /\ IsReady(Top(t).future)
    BY <1>14, <2>1, Zenon DEF propagate_ready, Target, Future
  <2>3. CASE Top(t).future.ready
    <3>1. PICK v : v = Top(t).future.outcome
      OBVIOUS
    <3>2. Sets(o, v)
      BY <1>14, <2>1, <2>3, <3>1, Zenon DEF propagate_ready, Target, Future, Sets
    <3> QED BY <2>1, <2>2, <2>3, <3>1, <3>2, PropagateReady
  <2>4. CASE ~Top(t).future.ready
    <3>1. PICK s : s = Top(t).future.state
      OBVIOUS
    <3>2. PICK v : v = ssb[s].result
      OBVIOUS
    <3>3. Passes(o, v, s)
      BY <1>14, <2>1, <2>4, <3>1, <3>2, Zenon DEF propagate_ready, Target, Future, Passes
    <3>4. ssb[s].m_state = "Finished"
      BY <2>2, <2>4, <3>1 DEF IsReady
    <3> QED BY <2>1, <2>2, <2>4, <3>1, <3>2, <3>3, <3>4, PropagateFinished
  <2> QED BY <2>3, <2>4
<1>15. CASE propagate_not_ready(t)
  BY <1>15, PropagateNotReady
<1>16. CASE test_just_for_continuation(t)
  BY <1>16, Tests
<1>17. CASE bypass_output(t)
  <2>1. PICK o : o = Top(t).output
    OBVIOUS
  <2>2. PICK s : s = Top(t).future.state
    OBVIOUS
  <2>3. PICK y : y = ssb[o].m_continuation
    OBVIOUS
  <2> QED BY <1>17, <2>1, <2>2, <2>3, BypassesOutput
<1>18. CASE bind_output(t)
  <2>1. PICK o : o = Top(t).output
    OBVIOUS
  <2>2. PICK s : s = Top(t).future.state
    OBVIOUS
  <2> QED BY <1>18, <2>1, <2>2, BindsOutput
<1>19. CASE publish_just_for_continuation(t)
  BY <1>19, Publishes
<1>20. CASE set_fill_from(t)
  BY <1>20, SetsFillFrom
<1>21. CASE propagate_cas(t)
  BY <1>21, PropagateCasMissed, PropagateCasWaits
<1>22. CASE propagate_returns(t)
  <2>1. CASE Future(t).ready
    BY <1>22, <2>1, PropagateReturnsReady
  <2>2. CASE ~Future(t).ready
    <3>1. PICK s : s = Top(t).future.state
      OBVIOUS
    <3>2. /\ At(t, "propagate", "drop") /\ ~Top(t).future.ready /\ unbind(s) /\ Becomes(t, <<>>)
          /\ LoopGoesOn
      BY <1>22, <2>2, <3>1, Zenon DEF propagate_returns, LetGo, Future
    <3> QED BY <3>1, <3>2, PropagateReturns
  <2> QED BY <2>1, <2>2
<1>23. CASE fill_from(t)
  <2>1. PICK s : s = Top(t).future.state
    OBVIOUS
  <2>2. PICK o : o = ssb[s].m_continuation
    OBVIOUS
  <2>3. PICK v : v = ssb[s].result
    OBVIOUS
  <2>4. At(t, "fill_from", "start") /\ Passes(o, v, s) /\ Becomes(t, <<Finish(o)>>) /\ LoopGoesOn
    BY <1>23, <2>1, <2>2, <2>3, Zenon DEF fill_from, Future, Passes
  <2> QED BY <2>1, <2>2, <2>3, <2>4, FillsFrom
<1>24. CASE exchange(t)
  <2>1. PICK s : s = Top(t).future.state
    OBVIOUS
  <2> QED BY <1>24, <2>1, Finishes, Announces
<1>25. CASE call_callback(t)
  <2>1. CASE ssb[Future(t).state].m_callback = "final"
    <3>1. PICK s : s = Top(t).future.state
      OBVIOUS
    <3>2. PICK v : v = ssb[s].result
      OBVIOUS
    <3>3. /\ At(t, "finish", "callback") /\ Deliver(v) /\ Moves(s) /\ Becomes(t, <<>>)
          /\ ssb[s].m_callback = "final"
      BY <1>25, <2>1, <3>1, <3>2, Zenon DEF call_callback, Future, Moves
    <3> QED BY <3>1, <3>2, <3>3, CallsFinal
  <2>2. At(t, "finish", "callback")
    BY <1>25 DEF call_callback
  <2> QED BY <1>25, <2>1, <2>2, FinalOutcome, CallsThenCallback, CallsFillFrom
<1>26. CASE complete_operation(t)
  <2>1. PICK j : j = Top(t).k
    OBVIOUS
  <2>2. /\ At(t, "complete", "start") /\ j \in created /\
             (\E outcome \in Outcomes : Sets(j, outcome))
        /\ CallsThen(t, Finish(j), "drop") /\ LoopGoesOn
    BY <1>26, <2>1, Zenon DEF complete_operation, Op, Operation, Sets
  <2> QED BY <2>1, <2>2, CompletesOperation
<1>27. CASE drop_promise(t)
  <2>1. PICK s : s = Top(t).k
    OBVIOUS
  <2>2. At(t, "complete", "drop") /\ unbind(s) /\ Becomes(t, <<>>) /\ LoopGoesOn
    BY <1>27, <2>1, Zenon DEF drop_promise, Op, Operation
  <2> QED BY <2>1, <2>2, DropsPromise
<1>28. CASE get_async_ready(t)
  <2>1. PICK f : f = returned[t]
    OBVIOUS
  <2>2. /\ At(t, "get_async", "start") /\ IsReady(f)
        /\ Becomes(t, <<[Top(t) EXCEPT !.pc = "drop", !.future = f]>>)
    BY <1>28, <2>1, Zenon DEF get_async_ready
  <2>3. CASE f.ready
    <3>1. PICK v : v = f.outcome
      OBVIOUS
    <3>2. Deliver(v) /\ ssb' = ssb
      BY <1>28, <2>1, <2>3, <3>1, Zenon DEF get_async_ready
    <3> QED BY <2>1, <2>2, <2>3, <3>1, <3>2, GetAsyncReady, Zenon
  <2>4. CASE ~f.ready
    <3>1. PICK s : s = f.state
      OBVIOUS
    <3>2. PICK v : v = ssb[s].result
      OBVIOUS
    <3>3. Deliver(v) /\ Moves(s)
      BY <1>28, <2>1, <2>4, <3>1, <3>2, Zenon DEF get_async_ready, Moves
    <3>4. ssb[s].m_state = "Finished"
      BY <2>2, <2>4, <3>1 DEF IsReady
    <3> QED BY <2>1, <2>2, <2>4, <3>1, <3>2, <3>3, <3>4, GetAsyncFinished, Zenon
  <2> QED BY <2>3, <2>4
<1>29. CASE get_async_not_ready(t)
  BY <1>29, GetAsyncNotReady
<1>30. CASE set_final(t)
  BY <1>30, SetsFinal
<1>31. CASE get_async_cas(t)
  BY <1>31, GetAsyncCasMissed, GetAsyncCasWaits
<1>32. CASE get_async_returns(t)
  <2>1. CASE Future(t).ready
    BY <1>32, <2>1, GetAsyncReturnsReady
  <2>2. CASE ~Future(t).ready
    <3>1. PICK s : s = Top(t).future.state
      OBVIOUS
    <3>2. /\ At(t, "get_async", "drop") /\ ~Top(t).future.ready /\ unbind(s) /\ Becomes(t, <<>>)
          /\ LoopGoesOn
      BY <1>32, <2>2, <3>1, Zenon DEF get_async_returns, LetGo, Future
    <3> QED BY <3>1, <3>2, GetAsyncReturns
  <2> QED BY <2>1, <2>2
<1> QED BY <1>1, <1>2, <1>3, <1>4, <1>5, <1>6, <1>7, <1>9, <1>10, <1>11, <1>12, <1>13, <1>14,
           <1>15, <1>16, <1>17, <1>18, <1>19, <1>20, <1>21, <1>22, <1>23, <1>24, <1>25, <1>26,
           <1>27, <1>28, <1>29, <1>30, <1>31, <1>32 DEF Run

LEMMA NextIInv == IInv /\ [Next]_vars => IInv'
BY RunIInv, Stuttering DEF Next

-----------------------------------------------------------------------------
(* The types. *)

LEMMA IInvTypes == IInv => TypeOK
<1> SUFFICES ASSUME IInv PROVE TypeOK
  OBVIOUS
<1>1. ASSUME NEW s \in States PROVE ssb[s].m_refs \in 0..3
  <2>1. CASE s \notin created
    <3>1. ssb[s].m_refs = 0
      BY <2>1, Untouched DEF IInv
    <3> QED BY <3>1
  <2>2. CASE s \in created /\ s \in Operations
    <3>1. OperationCount(s) \in 0..3
      BY DEF OperationCount, One
    <3> QED BY <2>2, <3>1 DEF IInv, Counts
  <2>3. CASE s \in created /\ s \in Outputs
    <3>1. OutputCount(s) \in 0..3
      BY DEF OutputCount, One
    <3> QED BY <2>3, <3>1 DEF IInv, Counts
  <2> QED BY <2>1, <2>2, <2>3, Ranges
<1>2. \A x \in SharedStates : x.m_refs \in 0..3 =>
        x \in [m_state : {"Init", "Waiting", "Finished"},
               result : Outcomes \cup {"none", "moved"},
               m_callback : {"none", "then", "fill_from", "final"},
               m_continuation : States \cup {Null},
               m_is_just_for_continuation : BOOLEAN,
               m_refs : 0..3]
  BY DEF SharedStates
<1>3. \A s \in States : ssb[s] \in SharedStates
  BY DEF IInv, Typed
<1> QED BY <1>1, <1>2, <1>3 DEF IInv, Typed, TypeOK

(* The inductive invariant holds in every reachable state. *)
THEOREM Correctness == Spec => []IInv
<1>1. Init => IInv
  BY InitIInv
<1>2. IInv /\ [Next]_vars => IInv'
  BY NextIInv
<1> QED BY <1>1, <1>2, PTL DEF Spec

(* The chain's variables keep their types; no state is ever referred to by *)
(* more than a call, the operation and one other state.                    *)
THEOREM TypeCorrectness == Spec => []TypeOK
BY Correctness, IInvTypes, PTL

-----------------------------------------------------------------------------
(* States that a thread keeps from being deleted: its calls own them, or   *)
(* one that it keeps passes its result on to them.                         *)

Keeps(t, K) ==
    /\ K \subseteq created
    /\ \A w \in K : \/ \E q \in Places : q[1] = t /\ Owns(Frame(q), w)
                    \/ \E x \in K : ssb[x].m_continuation = w

Firm(t, s) == \E K \in SUBSET States : s \in K /\ Keeps(t, K)

Alive(s) == s \in created /\ ssb[s].m_refs > 0

LEMMA OwnsAlive ==
    ASSUME IInv, NEW q \in Places, NEW s \in created, Owns(Frame(q), s)
    PROVE  Alive(s)
<1>1. s \in States
  BY DEF IInv, Typed
<1>2. CASE Held(Frame(q), s)
  BY <1>1, <1>2, HeldAlive DEF IInv, Alive
<1>3. CASE ~Held(Frame(q), s)
  <2>1. ProperCall(Frame(q), q[1], q[2])
    BY DEF IInv, Proper
  <2>2. s \in Operations
    BY <1>3, <2>1 DEF Owns, ProperCall, Looping, Completing
  <2> QED BY <1>3, <2>2, OwnedAlive DEF IInv, Alive, Owns
<1> QED BY <1>2, <1>3

(* What is kept alive lies along the way from older to newer states.       *)
LEMMA KeepsAlive ==
    ASSUME IInv, NEW t \in Threads, NEW K \in SUBSET States, Keeps(t, K), NEW s \in K
    PROVE  Alive(s)
<1> SUFFICES ASSUME ~Alive(s) PROVE FALSE
  OBVIOUS
<1> DEFINE T == {w \in K : ~Alive(w)}
<1>1. T # {} /\ T \in SUBSET (0..(2 * N)) /\ 2 * N \in Nat
  <2>1. 2 * N \in Nat /\ States \subseteq 0..(2 * N)
    BY NAssumption DEF States
  <2>2. T # {} /\ T \subseteq States
    OBVIOUS
  <2> HIDE DEF T
  <2> QED BY <2>1, <2>2
<1>2. PICK w \in T : \A y \in T : y <= w
  <2> HIDE DEF T
  <2> QED BY <1>1, Greatest
<1>3. w \in K /\ w \in created /\ ~Alive(w) /\ w \in States
  BY DEF Keeps
<1>4. PICK x \in K : ssb[x].m_continuation = w
  BY <1>3, OwnsAlive DEF Keeps
<1>5. x \in States /\ w # Null
  BY <1>3, Ranges
<1>6. CASE x \in Operations
  <2>1. \A y \in States : ssb[y].m_continuation = x => FALSE
    BY <1>5, <1>6, Ranges DEF IInv, Creation, Continuations
  <2>2. Alive(x)
    BY <1>4, <2>1, OwnsAlive DEF Keeps
  <2> QED BY <1>3, <1>4, <1>5, <2>2, LeadsOn DEF IInv, Alive
<1>7. CASE x \in Outputs
  <2>1. w < x /\ w \in Nat /\ x \in Nat
    BY <1>4, <1>5, <1>7, NAssumption DEF IInv, Continuations, States
  <2>2. Alive(x)
    BY <1>2, <1>4, <2>1
  <2> QED BY <1>3, <1>4, <1>5, <2>2, LeadsOn DEF IInv, Alive
<1> QED BY <1>5, <1>6, <1>7, Ranges

LEMMA FirmOwned ==
    ASSUME IInv, NEW q \in Places, NEW s \in created, Owns(Frame(q), s)
    PROVE  Firm(q[1], s)
<1>1. {s} \in SUBSET States /\ Keeps(q[1], {s})
  BY DEF Keeps, IInv, Typed
<1> QED BY <1>1 DEF Firm

LEMMA FirmNext ==
    ASSUME IInv, NEW t \in Threads, NEW y \in States, Firm(t, y), NEW x, x # Null,
           ssb[y].m_continuation = x
    PROVE  x \in Outputs /\ Firm(t, x)
<1>1. PICK K \in SUBSET States : y \in K /\ Keeps(t, K)
  BY DEF Firm
<1>2. x \in Outputs /\ x \in States /\ x \in created
  BY Ranges DEF IInv, Creation, Continuations
<1>3. Keeps(t, K \cup {x})
  BY <1>1, <1>2 DEF Keeps
<1> QED BY <1>1, <1>2, <1>3 DEF Firm

(* The output that a result is propagated to, and the operation of a step. *)
LEMMA FirmTarget ==
    ASSUME IInv, NEW p \in Places, p[2] # 0, Frame(p).op = "propagate"
    PROVE  Firm(p[1], Frame(p).output)
<1>1. PICK q \in Places : Over(p, q) /\ Stacked(Frame(q), Frame(p))
  BY Under DEF IInv
<1>2. ProperCall(Frame(q), q[1], q[2]) /\ ProperCall(Frame(p), p[1], p[2])
  BY DEF IInv, Proper
<1>3. PICK o \in Outputs : o = Frame(p).output /\ o \in created
  BY <1>2 DEF IInv, ProperCall, Rounds, RoundOf
<1>4. PICK k \in Operations : k = o - N /\ Output(k) = o
  BY Ranges
<1>5. Frame(q).k = k
  BY <1>1, <1>2, <1>3, <1>4, NAssumption DEF Stacked, ProperCall, Output, Operations
<1>6. Owns(Frame(q), k)
  BY <1>1, <1>5 DEF Stacked, Waits, Owns, Looping, Completing
<1>7. k \in created /\ ssb[k].m_continuation = o
  BY <1>3, <1>4 DEF IInv, Creation
<1>8. Firm(p[1], k) /\ p[1] \in Threads
  BY <1>1, <1>6, <1>7, FirmOwned DEF Over, Places
<1> QED BY <1>3, <1>7, <1>8, FirmNext, Ranges

LEMMA FirmStep ==
    ASSUME IInv, NEW p \in Places, p[2] # 0, Frame(p).op = "step"
    PROVE  Firm(p[1], Frame(p).k)
<1>1. PICK q \in Places : Over(p, q) /\ Stacked(Frame(q), Frame(p))
  BY Under DEF IInv
<1>2. Owns(Frame(q), Frame(p).k)
  BY <1>1 DEF Stacked, Waits, Owns, Looping, Completing
<1>3. Frame(p).k \in created
  BY DEF IInv, Rounds, RoundOf, Creation, Proper, ProperCall
<1> QED BY <1>1, <1>2, <1>3, FirmOwned DEF Over

LEMMA FirmKept ==
    ASSUME IInv, NEW t \in Threads, NEW p0 \in Places, NEW p1 \in Places, NEW p2 \in Places,
           Spot(t, p0, p1, p2), Frame(p1).op \in {"finish", "fill_from"}
    PROVE  Firm(t, Frame(p1).future.state)
<1>1. PICK K \in SUBSET States : Frame(p1).future.state \in K /\ KeptBelow(p1, K)
  BY DEF IInv, Kept
<1>2. Around(p0, p1, p2)
  BY Surroundings DEF IInv
<1>3. ASSUME NEW q \in Places, Below(q, p1), NEW w \in States, Owns(Frame(q), w)
      PROVE  q[1] = t /\ w \in created
  <2>1. q[1] = t /\ q[2] \in Nat \ {0} /\ q # p1 /\ p0[1] = t /\ p0[2] = 0
    BY <1>2, <1>3 DEF Below, Spot, Around, Places
  <2>2. CASE Looping(Frame(q), w)
    BY <2>1, <2>2 DEF Looping, IInv, Rounds, RoundOf
  <2>3. CASE Held(Frame(q), w)
    BY <2>1, <2>3 DEF IInv, OneHolder
  <2>4. CASE Completing(Frame(q), w)
    <3> DEFINE r == <<t, q[2] + 1>>
    <3>1. r \in Places /\ Over(r, q) /\ Origin(p0, q)
      BY <2>1 DEF Places, Over, Origin
    <3> HIDE DEF r
    <3>2. Frame(r).op # "none"
      BY <1>2, <2>1, <2>4, <3>1 DEF Around, Completing
    <3>3. Stacked(Frame(q), Frame(r))
      BY <3>1 DEF IInv, Shape, Stacks
    <3>4. Frame(q).pc = "drop"
      BY <2>4, <3>2, <3>3 DEF Stacked, Waits, Completing
    <3> QED BY <2>1, <2>4, <3>4 DEF Completing, IInv, Rounds, RoundOf
  <2> QED BY <1>3, <2>2, <2>3, <2>4 DEF Owns
<1>4. ASSUME NEW x \in K, NEW w \in K, ssb[x].m_continuation = w PROVE w \in created
  BY <1>4, Ranges DEF IInv, Creation, Continuations
<1>5. Keeps(t, K)
  BY <1>1, <1>3, <1>4 DEF KeptBelow, Keeps
<1> QED BY <1>1, <1>5 DEF Firm

-----------------------------------------------------------------------------
(* What a thread has a right to touch, by the call it is in.               *)

RightTo(c, m, x) ==
    \/ m = "result" /\ \/ Makes(c, x)
                       \/ Uses(c, x) /\ ssb[x].m_state = "Finished"
                       \/ \E y \in States : Handles(c, y) /\ Feeds(y, x)
    \/ m = "callback" /\ Uses(c, x)
    \/ m = "continuation" /\ \/ Handles(c, x) \/ Fresh(c, x)
                             \/ Opens(c, x) /\ x \in Operations
                             \/ Makes(c, x) /\ x \in Outputs /\ ssb[x].m_is_just_for_continuation

Rightful(t, m, x) == \E p \in Places : p[1] = t /\ RightTo(Frame(p), m, x)

Proceeds(t) ==
    LET next == NextAccesses(t)
    IN  /\ \A y \in next.reads \cup next.writes : \E m, x : /\ y = <<m, x>> /\ x \in States
                                                         /\ Rightful(t, m, x) /\ Firm(t, x)
        /\ \A x \in next.atomics : x \in States /\ Firm(t, x)

LEMMA Touching ==
    ASSUME NEW reads, NEW writes, NEW atomics
    PROVE  LET next == Accesses(reads, writes, atomics)
           IN  next.reads = reads /\ next.writes = writes /\ next.atomics = atomics
BY DEF Accesses

LEMMA ProceedsWith ==
    ASSUME NEW t \in Threads, NEW reads, NEW writes, NEW atomics,
           NextAccesses(t) = Accesses(reads, writes, atomics),
           \A y \in reads \cup writes : \E m, x : /\ y = <<m, x>> /\ x \in States
                                                  /\ Rightful(t, m, x) /\ Firm(t, x),
           \A x \in atomics : x \in States /\ Firm(t, x)
    PROVE  Proceeds(t)
<1>1. PICK next : next = NextAccesses(t)
  OBVIOUS
<1>2. next.reads = reads /\ next.writes = writes /\ next.atomics = atomics
  BY <1>1, Touching
<1> QED BY <1>1, <1>2 DEF Proceeds

LEMMA AccessesLoop ==
    ASSUME IInv, NEW t \in Threads, stack[t] # <<>>, Top(t).op = "loop", Top(t).pc # "drop"
    PROVE  Proceeds(t)
<1>1. PICK p \in Places : Frame(p) = Top(t) /\ p[1] = t /\ p[2] # 0
  BY TopFrame
<1>2. PICK k \in Operations : k = Top(t).k /\ Op(t) = k
  BY <1>1 DEF IInv, Proper, ProperCall, Op, Operation
<1>3. Top(t).pc # "start" => k \in States /\ Firm(t, k)
  <2>1. Top(t).pc # "start" => k \in created /\ Owns(Frame(p), k)
    BY <1>1, <1>2 DEF IInv, Rounds, RoundOf, Owns, Looping
  <2> QED BY <1>1, <1>2, <2>1, FirmOwned, Ranges
<1>4. Top(t).pc \in {"load", "attach", "cas"} => Opens(Frame(p), k)
  BY <1>1, <1>2 DEF Opens
<1>5. CASE Top(t).pc = "load"
  <2>1. NextAccesses(t) =
          Accesses({}, IF ssb[k].m_state = "Finished" THEN {<<"result", k>>} ELSE {}, {k})
    BY <1>2, <1>5 DEF NextAccesses, At, Member
  <2>2. ssb[k].m_state = "Finished" => Rightful(t, "result", k)
    BY <1>1, <1>4, <1>5 DEF Rightful, RightTo, Uses
  <2> QED BY <1>3, <1>5, <2>1, <2>2, ProceedsWith
<1>6. CASE Top(t).pc = "attach"
  <2>1. NextAccesses(t) = Accesses({}, {<<"callback", k>>, <<"continuation", k>>}, {})
    BY <1>2, <1>6 DEF NextAccesses, At, Member
  <2>2. Rightful(t, "callback", k) /\ Rightful(t, "continuation", k)
    BY <1>1, <1>2, <1>4, <1>6 DEF Rightful, RightTo, Uses
  <2> QED BY <1>3, <1>6, <2>1, <2>2, ProceedsWith
<1>7. CASE Top(t).pc = "cas"
  <2>1. NextAccesses(t) = Accesses({}, {}, {k})
    BY <1>2, <1>7 DEF NextAccesses, At, Member
  <2> QED BY <1>3, <1>7, <2>1, ProceedsWith
<1>8. CASE Top(t).pc \in {"start", "take"}
  <2>1. NextAccesses(t) = Accesses({}, {}, {})
    BY <1>8 DEF NextAccesses, At
  <2> QED BY <2>1, ProceedsWith
<1> QED BY <1>1, <1>5, <1>6, <1>7, <1>8 DEF IInv, Proper, ProperCall

LEMMA AccessesStep ==
    ASSUME IInv, NEW t \in Threads, stack[t] # <<>>, Top(t).op = "step"
    PROVE  Proceeds(t)
<1>1. PICK p \in Places : Frame(p) = Top(t) /\ p[1] = t /\ p[2] # 0
  BY TopFrame
<1>2. PICK k \in Operations : k = Top(t).k /\ Op(t) = k
  BY <1>1 DEF IInv, Proper, ProperCall, Op, Operation
<1>3. PICK o : o = ssb[k].m_continuation
  OBVIOUS
<1>4. o = Output(k) /\ o # Null /\ k \in States /\ o \in States
  BY <1>1, <1>2, <1>3, Ranges DEF IInv, Rounds, RoundOf, Creation
<1>5. Firm(t, k) /\ Firm(t, o)
  BY <1>1, <1>2, <1>3, <1>4, FirmStep, FirmNext
<1>6. CASE Top(t).pc = "start"
  <2>1. NextAccesses(t) = Accesses({<<"continuation", k>>}, {<<"result", k>>, <<"result", o>>}, {})
    BY <1>2, <1>3, <1>6 DEF NextAccesses, At, Member
  <2>2. Handles(Frame(p), k)
    BY <1>1, <1>2, <1>6 DEF Handles
  <2>3. ssb[k].m_state = "Finished" /\ Feeds(k, o)
    BY <1>3, <1>4, <2>2 DEF IInv, OneUser, UserOf, Uses, Feeds
  <2>4. Rightful(t, "continuation", k) /\ Rightful(t, "result", k) /\ Rightful(t, "result", o)
    BY <1>1, <1>4, <2>2, <2>3 DEF Rightful, RightTo, Uses
  <2> QED BY <1>4, <1>5, <2>1, <2>4, ProceedsWith
<1>7. CASE Top(t).pc # "start"
  <2>1. NextAccesses(t) = Accesses({}, {}, {})
    BY <1>7 DEF NextAccesses, At
  <2> QED BY <2>1, ProceedsWith
<1> QED BY <1>6, <1>7

LEMMA AccessesPropagate ==
    ASSUME IInv, NEW t \in Threads, stack[t] # <<>>, Top(t).op = "propagate",
           Top(t).pc # "drop" \/ Top(t).future.ready
    PROVE  Proceeds(t)
<1>1. PICK p \in Places : Frame(p) = Top(t) /\ p[1] = t /\ p[2] # 0
  BY TopFrame
<1>2. PICK f : f = Top(t).future /\ Future(t) = f
  BY DEF Future
<1>3. PICK o \in States : o = Top(t).output /\ Target(t) = o /\ o \in Outputs
  BY <1>1, Ranges DEF IInv, Proper, ProperCall, Target
<1>4. Firm(t, o)
  BY <1>1, <1>3, FirmTarget
<1>5. PICK s : s = f.state
  OBVIOUS
<1>6. ~f.ready => /\ s \in States /\ Held(Frame(p), s) /\ Firm(t, s)
  <2> SUFFICES ASSUME ~f.ready PROVE s \in States /\ Held(Frame(p), s) /\ Firm(t, s)
    OBVIOUS
  <2>1. s \in States
    BY <1>1, <1>2, <1>5, Ranges DEF IInv, Proper, ProperCall
  <2>2. Held(Frame(p), s)
    BY <1>1, <1>2, <1>5 DEF Held
  <2>3. s \in created
    BY <2>1, <2>2 DEF IInv, OneHolder
  <2> QED BY <1>1, <2>1, <2>2, <2>3, FirmOwned DEF Owns
<1>7. Top(t).pc \in {"load", "test", "bypass", "bind"} =>
        Makes(Frame(p), o) /\ (~f.ready => Fresh(Frame(p), s))
  BY <1>1, <1>3, <1>6 DEF Makes, Fresh
<1>8. ~f.ready /\ Top(t).pc # "drop" => Uses(Frame(p), s)
  BY <1>1, <1>6 DEF Uses, Opens
<1>9. f.ready => Top(t).pc \in {"load", "drop"}
  BY <1>1, <1>2 DEF IInv, Proper, ProperCall
<1>10. CASE Top(t).pc = "load" /\ f.ready
  <2>1. NextAccesses(t) = Accesses({}, {<<"result", o>>}, {})
    BY <1>2, <1>3, <1>10 DEF NextAccesses, At, Member
  <2>2. Rightful(t, "result", o)
    BY <1>1, <1>7, <1>10 DEF Rightful, RightTo
  <2> QED BY <1>4, <2>1, <2>2, ProceedsWith
<1>11. CASE Top(t).pc = "load" /\ ~f.ready
  <2>1. NextAccesses(t) = Accesses({}, IF ssb[s].m_state = "Finished"
                                         THEN {<<"result", o>>, <<"result", s>>} ELSE {}, {s})
    BY <1>2, <1>3, <1>5, <1>11 DEF NextAccesses, At, Member, IsReady
  <2>2. Rightful(t, "result", o) /\ (ssb[s].m_state = "Finished" => Rightful(t, "result", s))
    BY <1>1, <1>7, <1>8, <1>11 DEF Rightful, RightTo
  <2> QED BY <1>4, <1>6, <1>11, <2>1, <2>2, ProceedsWith
<1>12. CASE Top(t).pc = "test"
  <2>1. NextAccesses(t) = Accesses({}, {}, {o})
    BY <1>2, <1>3, <1>12 DEF NextAccesses, At, Member
  <2> QED BY <1>4, <2>1, ProceedsWith
<1>13. CASE Top(t).pc = "bypass"
  <2>1. NextAccesses(t) = Accesses({}, {<<"continuation", s>>, <<"continuation", o>>}, {})
    BY <1>2, <1>3, <1>5, <1>13 DEF NextAccesses, At, Member
  <2>2. ssb[o].m_is_just_for_continuation
    BY <1>1, <1>3, <1>13 DEF IInv, Hooked
  <2>3. Rightful(t, "continuation", s) /\ Rightful(t, "continuation", o)
    BY <1>1, <1>3, <1>7, <1>9, <1>13, <2>2 DEF Rightful, RightTo
  <2> QED BY <1>4, <1>6, <1>9, <1>13, <2>1, <2>3, ProceedsWith
<1>14. CASE Top(t).pc = "bind"
  <2>1. NextAccesses(t) = Accesses({}, {<<"continuation", s>>}, {o})
    BY <1>2, <1>3, <1>5, <1>14 DEF NextAccesses, At, Member
  <2>2. Rightful(t, "continuation", s)
    BY <1>1, <1>7, <1>9, <1>14 DEF Rightful, RightTo
  <2> QED BY <1>4, <1>6, <1>9, <1>14, <2>1, <2>2, ProceedsWith
<1>15. CASE Top(t).pc \in {"publish", "cas"}
  <2>1. NextAccesses(t) = Accesses({}, {}, {s})
    BY <1>2, <1>3, <1>5, <1>15 DEF NextAccesses, At, Member
  <2> QED BY <1>6, <1>9, <1>15, <2>1, ProceedsWith
<1>16. CASE Top(t).pc = "set"
  <2>1. NextAccesses(t) = Accesses({}, {<<"callback", s>>}, {})
    BY <1>2, <1>3, <1>5, <1>16 DEF NextAccesses, At, Member
  <2>2. Rightful(t, "callback", s)
    BY <1>1, <1>8, <1>9, <1>16 DEF Rightful, RightTo
  <2> QED BY <1>6, <1>9, <1>16, <2>1, <2>2, ProceedsWith
<1>17. CASE Top(t).pc = "drop"
  <2>1. NextAccesses(t) = Accesses({}, {}, {})
    BY <1>2, <1>17 DEF NextAccesses, At
  <2> QED BY <2>1, ProceedsWith
<1> QED BY <1>1, <1>10, <1>11, <1>12, <1>13, <1>14, <1>15, <1>16, <1>17 DEF IInv, Proper, ProperCall

LEMMA AccessesFinish ==
    ASSUME IInv, NEW t \in Threads, stack[t] # <<>>, Top(t).op \in {"finish", "fill_from"}
    PROVE  Proceeds(t)
<1>1. PICK p0 \in Places, p \in Places, p2 \in Places : Spot(t, p0, p, p2)
  BY Spots DEF IInv
<1>2. Frame(p) = Top(t) /\ p[1] = t
  BY <1>1, Surroundings, TopCall DEF IInv, Spot
<1>3. PICK s \in States : s = Top(t).future.state /\ Future(t).state = s
  BY <1>2, Ranges DEF IInv, Proper, ProperCall, Future
<1>4. Firm(t, s)
  BY <1>1, <1>2, <1>3, FirmKept
<1>5. CASE Top(t).op = "finish" /\ Top(t).pc = "exchange"
  <2>1. NextAccesses(t) = Accesses({}, {}, {s})
    BY <1>3, <1>5 DEF NextAccesses, At
  <2> QED BY <1>4, <2>1, ProceedsWith
<1>6. ~(Top(t).op = "finish" /\ Top(t).pc = "exchange") =>
        Handles(Frame(p), s) /\ ssb[s].m_state = "Finished" /\ ssb[s].result # "moved"
  BY <1>2, <1>3 DEF Handles, Uses, IInv, OneUser, UserOf, Proper, ProperCall
<1>7. CASE Top(t).op = "finish" /\ Top(t).pc = "callback"
  <2>1. NextAccesses(t) = Accesses({<<"callback", s>>},
                                   IF ssb[s].m_callback = "final" THEN {<<"result", s>>} ELSE {},
                                     {})
    BY <1>3, <1>7 DEF NextAccesses, At, Member
  <2>2. Rightful(t, "callback", s) /\ Rightful(t, "result", s)
    BY <1>2, <1>6, <1>7 DEF Rightful, RightTo, Uses
  <2> QED BY <1>4, <2>1, <2>2, ProceedsWith
<1>8. CASE Top(t).op = "fill_from"
  <2>1. PICK o : o = ssb[s].m_continuation
    OBVIOUS
  <2>2. s \in Outputs /\ ssb[s].m_callback = "fill_from"
    BY <1>2, <1>3, <1>6, <1>8 DEF Uses, IInv, OneUser, UserOf, Proper, ProperCall
  <2>3. o # Null
    BY <1>6, <1>8, <2>1, <2>2 DEF IInv, Hooked, Live
  <2>4. o \in States /\ Firm(t, o) /\ Feeds(s, o)
    BY <1>4, <1>6, <1>8, <2>1, <2>3, FirmNext, Ranges DEF Feeds
  <2>5. NextAccesses(t) = Accesses({<<"continuation", s>>}, {<<"result", s>>, <<"result", o>>}, {})
    BY <1>2, <1>3, <1>8, <2>1 DEF NextAccesses, At, Member, IInv, Proper, ProperCall
  <2>6. Rightful(t, "continuation", s) /\ Rightful(t, "result", s) /\ Rightful(t, "result", o)
    BY <1>2, <1>6, <1>8, <2>4 DEF Rightful, RightTo, Uses
  <2> QED BY <1>4, <2>4, <2>5, <2>6, ProceedsWith
<1> QED BY <1>2, <1>5, <1>7, <1>8 DEF IInv, Proper, ProperCall

LEMMA AccessesComplete ==
    ASSUME IInv, NEW t \in Threads, At(t, "complete", "start")
    PROVE  Proceeds(t)
<1>1. PICK p \in Places : Frame(p) = Top(t) /\ p[1] = t /\ p[2] # 0
  BY TopFrame DEF At
<1>2. PICK k \in Operations : k = Top(t).k /\ Op(t) = k /\ k \in States
  BY <1>1, Ranges DEF IInv, Proper, ProperCall, Op, Operation, At
<1>3. CASE k \in created
  <2>1. NextAccesses(t) = Accesses({}, {<<"result", k>>}, {})
    BY <1>2, <1>3 DEF NextAccesses, At, Member
  <2>2. Rightful(t, "result", k)
    BY <1>1, <1>2 DEF Rightful, RightTo, Makes, At
  <2>3. Firm(t, k)
    BY <1>1, <1>2, <1>3, FirmOwned DEF Owns, Completing, At
  <2> QED BY <1>2, <2>1, <2>2, <2>3, ProceedsWith
<1>4. CASE k \notin created
  <2>1. NextAccesses(t) = Accesses({}, {}, {})
    BY <1>2, <1>4 DEF NextAccesses, At
  <2> QED BY <2>1, ProceedsWith
<1> QED BY <1>3, <1>4

LEMMA AccessesGetAsync ==
    ASSUME IInv, NEW t \in Threads, stack[t] # <<>>, Top(t).op = "get_async",
           Top(t).pc # "drop" \/ Top(t).future.ready
    PROVE  Proceeds(t)
<1>1. PICK p0 \in Places, p \in Places, p2 \in Places : Spot(t, p0, p, p2)
  BY Spots DEF IInv
<1>2. Frame(p) = Top(t) /\ p[1] = t /\ p0[1] = t /\ Frame(p0) = After(Top(t), returned[t])
  BY <1>1, Surroundings, TopCall DEF IInv, Spot
<1>3. PICK f : f = Top(t).future /\ Future(t) = f
  BY DEF Future
<1>4. Top(t).pc \in {"start", "set", "cas", "drop"} /\ (f.ready => Top(t).pc \in {"start", "drop"})
  BY <1>2, <1>3 DEF IInv, Proper, ProperCall
<1>5. CASE Top(t).pc = "start"
  <2>1. Frame(p0) = Given(returned[t])
    BY <1>2, <1>5 DEF After, Waits
  <2>2. CASE returned[t].ready
    <3>1. NextAccesses(t) = Accesses({}, {}, {})
      BY <1>5, <2>2 DEF NextAccesses, At
    <3> QED BY <3>1, ProceedsWith
  <2>3. CASE ~returned[t].ready
    <3>1. PICK s : s = returned[t].state
      OBVIOUS
    <3>2. s \in States
      BY <2>1, <2>3, <3>1, Returned, Ranges DEF IInv, Proper, ProperCall
    <3>3. Held(Frame(p0), s)
      BY <2>1, <2>3, <3>1, Returned DEF Held
    <3>4. Firm(t, s)
      BY <1>2, <3>2, <3>3, FirmOwned DEF IInv, OneHolder, Owns
    <3>5. NextAccesses(t) =
            Accesses({}, IF ssb[s].m_state = "Finished" THEN {<<"result", s>>} ELSE {}, {s})
      BY <1>5, <2>3, <3>1 DEF NextAccesses, At, Member, IsReady
    <3>6. Uses(Frame(p0), s)
      BY <2>1, <3>3, Returned DEF Uses, Opens
    <3>7. ssb[s].m_state = "Finished" => Rightful(t, "result", s)
      BY <1>2, <3>6 DEF Rightful, RightTo
    <3> QED BY <3>2, <3>4, <3>5, <3>7, ProceedsWith
  <2> QED BY <2>2, <2>3
<1>6. CASE Top(t).pc \in {"set", "cas"}
  <2>1. PICK s : s = f.state
    OBVIOUS
  <2>2. s \in States /\ Held(Frame(p), s)
    BY <1>2, <1>3, <1>4, <1>6, <2>1, Ranges DEF IInv, Proper, ProperCall, Held
  <2>3. Firm(t, s)
    BY <1>2, <2>2, FirmOwned DEF IInv, OneHolder, Owns
  <2>4. Rightful(t, "callback", s)
    BY <1>2, <1>6, <2>2 DEF Rightful, RightTo, Uses, Opens
  <2>5. CASE Top(t).pc = "set"
    <3>1. NextAccesses(t) = Accesses({}, {<<"callback", s>>}, {})
      BY <1>3, <2>1, <2>5 DEF NextAccesses, At, Member
    <3> QED BY <2>2, <2>3, <2>4, <3>1, ProceedsWith
  <2>6. CASE Top(t).pc = "cas"
    <3>1. NextAccesses(t) = Accesses({}, {}, {s})
      BY <1>3, <2>1, <2>6 DEF NextAccesses, At, Member
    <3> QED BY <2>2, <2>3, <3>1, ProceedsWith
  <2> QED BY <1>6, <2>5, <2>6
<1>7. CASE Top(t).pc = "drop"
  <2>1. NextAccesses(t) = Accesses({}, {}, {})
    BY <1>3, <1>7 DEF NextAccesses, At
  <2> QED BY <2>1, ProceedsWith
<1> QED BY <1>4, <1>5, <1>6, <1>7

-----------------------------------------------------------------------------
(* A thread touches what it has a right to, or deletes a state.            *)

Deletes(t, s) ==
    /\ NextAccesses(t) = LettingGo(s)
    /\ s \in States /\ s \in created
    /\ \E p \in Places : p[1] = t /\ Owns(Frame(p), s)

LEMMA AccessesDrop ==
    ASSUME IInv, NEW t \in Threads, stack[t] # <<>>, Top(t).pc = "drop",
           Top(t).op \in {"loop", "complete"} \/ ~Top(t).future.ready
    PROVE  \E s : Deletes(t, s)
<1>1. PICK p \in Places : Frame(p) = Top(t) /\ p[1] = t /\ p[2] # 0
  BY TopFrame
<1>2. Top(t).op \in {"loop", "complete", "propagate", "get_async"}
  BY <1>1, TopCall DEF IInv, Proper, ProperCall, Calls, Kinds
<1>3. CASE Top(t).op \in {"loop", "complete"}
  <2>1. PICK k \in Operations : k = Top(t).k /\ Op(t) = k
    BY <1>1, <1>3 DEF IInv, Proper, ProperCall, Op, Operation
  <2>2. NextAccesses(t) = LettingGo(k)
    BY <1>3, <2>1 DEF NextAccesses, At
  <2>3. k \in created /\ Owns(Frame(p), k)
    BY <1>1, <1>3, <2>1 DEF IInv, Rounds, RoundOf, Owns, Looping, Completing
  <2> QED BY <1>1, <2>1, <2>2, <2>3, Ranges DEF Deletes
<1>4. CASE Top(t).op \in {"propagate", "get_async"}
  <2>1. PICK s : s = Top(t).future.state /\ Future(t).state = s /\ ~Future(t).ready
    BY <1>4 DEF Future
  <2>2. NextAccesses(t) = LettingGo(s)
    BY <1>4, <2>1 DEF NextAccesses, At
  <2>3. s \in States /\ Held(Frame(p), s)
    BY <1>1, <1>4, <2>1, Ranges DEF IInv, Proper, ProperCall, Held
  <2> QED BY <1>1, <2>2, <2>3 DEF Deletes, Owns, IInv, OneHolder
<1> QED BY <1>2, <1>3, <1>4

LEMMA Accessing ==
    ASSUME IInv, NEW t \in Threads
    PROVE  Proceeds(t) \/ \E s : Deletes(t, s)
<1>1. CASE stack[t] = <<>>
  <2>1. NextAccesses(t) = Accesses({}, {}, {})
    BY <1>1 DEF NextAccesses
  <2> QED BY <2>1, ProceedsWith
<1>2. CASE stack[t] # <<>>
  <2>1. Top(t).op \in Kinds
    BY <1>2, TopCall DEF IInv, Calls
  <2>2. PICK p \in Places : Frame(p) = Top(t)
    BY <1>2, TopFrame
  <2>3. Top(t).op = "complete" /\ Top(t).pc # "drop" => At(t, "complete", "start")
    BY <1>2, <2>2 DEF IInv, Proper, ProperCall, At
  <2>4. CASE Top(t).pc = "drop" /\ (Top(t).op \in {"loop", "complete"} \/ ~Top(t).future.ready)
    BY <1>2, <2>4, AccessesDrop
  <2>5. CASE ~(Top(t).pc = "drop" /\ (Top(t).op \in {"loop", "complete"} \/ ~Top(t).future.ready))
    BY <1>2, <2>1, <2>3, <2>5, AccessesLoop, AccessesStep, AccessesPropagate, AccessesFinish,
       AccessesComplete, AccessesGetAsync DEF Kinds
  <2> QED BY <2>4, <2>5
<1> QED BY <1>1, <1>2

LEMMA Deleting ==
    ASSUME NEW s
    PROVE  /\ LettingGo(s).reads = {} /\ LettingGo(s).atomics = Released(s)
           /\ \A y : y \in LettingGo(s).writes <=>
                       \E m \in {"result", "callback", "continuation"},
                          x \in {w \in Released(s) : ssb[w].m_refs = 1} : y = <<m, x>>
<1>1. PICK D : D = {w \in Released(s) : ssb[w].m_refs = 1}
  OBVIOUS
<1>2. LettingGo(s) = Accesses({},
        {<<m, x>> : m \in {"result", "callback", "continuation"}, x \in D},
                              Released(s))
  BY <1>1 DEF LettingGo, Member
<1>3. PICK R : R = Released(s)
  OBVIOUS
<1>4. /\ LettingGo(s).reads = {} /\ LettingGo(s).atomics = R
      /\ LettingGo(s).writes = {<<m, x>> : m \in {"result", "callback", "continuation"}, x \in D}
  BY <1>2, <1>3, Touching
<1> QED BY <1>1, <1>3, <1>4

LEMMA NeverFreed == IInv => NoUseAfterFree
<1> SUFFICES ASSUME IInv, NEW t \in Threads,
                    NEW s \in {x[2] : x \in NextAccesses(t).reads \cup NextAccesses(t).writes}
                              \cup NextAccesses(t).atomics
             PROVE  Alive(s)
  BY DEF NoUseAfterFree, Alive
<1>1. CASE Proceeds(t)
  <2>1. s \in States /\ Firm(t, s)
    BY <1>1 DEF Proceeds
  <2> QED BY <2>1, KeepsAlive DEF Firm
<1>2. ASSUME NEW x, Deletes(t, x) PROVE Alive(s)
  <2>1. NextAccesses(t) = LettingGo(x) /\ x \in States /\ x \in created
    BY <1>2 DEF Deletes
  <2>2. s \in Released(x)
    BY <2>1, Deleting
  <2>3. Alive(x)
    BY <1>2, OwnsAlive DEF Deletes
  <2>4. ssb[s].m_refs > 0 /\ s \in States
    BY <2>1, <2>2, <2>3, ReleasesAlive, Releases DEF IInv, Alive
  <2>5. s \in created
    <3>1. s \notin created => ssb[s].m_refs = 0
      BY <2>4, Untouched DEF IInv
    <3> QED BY <2>4, <3>1
  <2> QED BY <2>4, <2>5 DEF Alive
<1> QED BY <1>1, <1>2, Accessing

(* No state is touched after it has been deleted, or before it is made     *)
(* (future.hpp:1087-1097, 1244-1255): whatever a call is about to read or  *)
(* write is owned by it, by one that waits for it further down the stack,  *)
(* or by a state that is.                                                  *)
THEOREM UseAfterFreeFreedom == Spec => []NoUseAfterFree
BY Correctness, NeverFreed, PTL

-----------------------------------------------------------------------------
(* When all is done. *)

LEMMA QuiescentFrames ==
    ASSUME IInv, Quiescent, NEW p \in Places, Frame(p).op # "none"
    PROVE  /\ Frame(p).op = "complete" /\ Frame(p).k \notin created
<1>1. p = <<p[1], p[2]>> /\ p[1] \in Threads /\ p[2] \in Nat
  BY DEF Places
<1>2. PICK t \in Threads : t = p[1]
  BY <1>1
<1>3. stack[t] # <<>>
  <2>1. Slot(<<>>, returned[t], p[2]) = NoCall
    BY <1>1 DEF Slot
  <2> QED BY <1>2, <2>1, Nothing DEF Frame, FrameIn
<1>4. t # User /\ t \notin created /\ t \in Operations
  BY <1>3 DEF Quiescent, Operation, Threads, User, Operations
<1>5. PICK p0 \in Places, p1 \in Places, p2 \in Places : Spot(t, p0, p1, p2)
  BY <1>3, Spots DEF IInv
<1>6. /\ Around(p0, p1, p2) /\ Frame(p1) = Top(t) /\ Top(t) \in Calls
      /\ Frame(p0) = After(Top(t), returned[t])
  BY <1>3, <1>5, Surroundings, TopCall DEF IInv
<1> DEFINE b == <<t, 1>>
<1>7. b \in Places /\ b[1] = t /\ b[2] = 1
  BY DEF Places
<1>8. Frame(b).op # "none"
  <2>1. Len(stack[t]) \in Nat \ {0}
    BY <1>5 DEF Spot
  <2>2. Frame(b) = stack[t][Len(stack[t])] /\ Len(stack[t]) \in 1..Len(stack[t])
    BY <1>7, <2>1 DEF Frame, FrameIn, Slot
  <2>3. Frame(b) \in Calls
    BY <2>1, <2>2 DEF IInv, Typed
  <2> QED BY <2>3 DEF Calls, Kinds
<1> HIDE DEF b
<1>9. Frame(b).op = "complete" /\ Frame(b).pc = "start" /\ Frame(b).k = t
  <2>1. Frame(b).op \in {"complete", "get_async"} /\ ProperCall(Frame(b), b[1], b[2])
    BY <1>7, <1>8 DEF IInv, Shape, Bottoms, Proper
  <2>2. Frame(b).op = "complete" /\ Frame(b).k = t
    BY <1>4, <1>7, <2>1 DEF ProperCall
  <2>3. Frame(b).pc # "drop"
    BY <1>4, <1>7, <2>2 DEF IInv, Rounds, RoundOf
  <2> QED BY <2>1, <2>2, <2>3 DEF ProperCall
<1>10. b = p1
  <2> SUFFICES ASSUME b # p1 PROVE FALSE
    OBVIOUS
  <2> DEFINE r == <<t, 2>>
  <2>1. r \in Places /\ Over(r, b) /\ Origin(p0, b)
    BY <1>5, <1>7 DEF Places, Over, Origin, Spot
  <2> HIDE DEF r
  <2>2. Frame(r).op # "none" /\ Stacked(Frame(b), Frame(r))
    BY <1>6, <1>7, <1>8, <2>1 DEF Around, IInv, Shape, Stacks
  <2> QED BY <1>9, <2>2 DEF Stacked, Waits
<1>11. Len(stack[t]) = 1 /\ ~Waits(Top(t))
  BY <1>5, <1>6, <1>7, <1>9, <1>10 DEF Spot, Waits
<1>12. p[2] # 0
  BY <1>1, <1>2, <1>5, <1>6, <1>11, Nothing DEF Spot, After
<1>13. p[2] = 1
  <2>1. p[2] > 1 => Slot(stack[t], returned[t], p[2]) = NoCall
    BY <1>1, <1>11 DEF Slot
  <2> QED BY <1>1, <1>2, <1>12, <2>1, Nothing DEF Frame, FrameIn
<1>14. p = b
  BY <1>1, <1>2, <1>7, <1>13 DEF b
<1> QED BY <1>4, <1>9, <1>14

LEMMA NoneLeft == IInv => NothingLeaks
<1> SUFFICES ASSUME IInv, Quiescent PROVE \A s \in States : ssb[s].m_refs = 0
  BY DEF NothingLeaks
<1>1. \A p \in Places : \A s \in States : ~Held(Frame(p), s) /\ ~Looping(Frame(p), s)
  BY QuiescentFrames DEF Held, Looping
<1>2. \A k \in Operations : ssb[k].m_refs = 0
  <2> SUFFICES ASSUME NEW k \in Operations PROVE ssb[k].m_refs = 0
    OBVIOUS
  <2>1. k \in States
    BY Ranges
  <2>2. CASE k \in created
    <3>1. ~\E p \in Places : Completing(Frame(p), k)
      BY <2>2, QuiescentFrames DEF Completing
    <3>2. ~\E p \in Places : Looping(Frame(p), k)
      BY <1>1, <2>1
    <3>3. OperationCount(k) = 0
      BY <3>1, <3>2 DEF OperationCount, One
    <3> QED BY <2>2, <3>3 DEF IInv, Counts
  <2>3. CASE k \notin created
    BY <2>1, <2>3, Untouched DEF IInv
  <2> QED BY <2>2, <2>3
<1>3. \A x \in Outputs : ssb[x].m_refs = 0
  <2> SUFFICES ASSUME NEW z \in Outputs, ssb[z].m_refs # 0 PROVE FALSE
    OBVIOUS
  <2> DEFINE T == {x \in Outputs : ssb[x].m_refs # 0}
  <2>1. T # {} /\ T \subseteq Outputs
    OBVIOUS
  <2>2. Outputs \subseteq 0..(2 * N) /\ 2 * N \in Nat /\ \A x \in Outputs : x \in Nat
    BY NAssumption DEF Outputs
  <2>3. PICK x \in T : \A y \in T : y <= x
    <3> HIDE DEF T
    <3> QED BY <2>1, <2>2, Greatest
  <2>4. x \in Outputs /\ x \in States /\ x - N \in Operations /\ x # Null
    BY Ranges
  <2>5. x \in created
    BY <2>3, <2>4, Untouched DEF IInv
  <2>6. ~\E p \in Places : Held(Frame(p), x)
    BY <1>1, <2>4
  <2>7. Deleted(x - N)
    BY <1>2, <2>4 DEF Deleted
  <2>8. ~\E s \in Outputs : ssb[s].m_continuation = x /\ ~Deleted(s)
    <3> SUFFICES ASSUME NEW s \in Outputs, ssb[s].m_continuation = x, ~Deleted(s) PROVE FALSE
      OBVIOUS
    <3>1. x < s
      BY <2>4 DEF IInv, Continuations
    <3>2. s \in T
      BY DEF Deleted
    <3>3. s <= x /\ s \in Nat /\ x \in Nat
      BY <2>2, <2>3, <2>4, <3>2
    <3> QED BY <3>1, <3>3
  <2>9. OutputCount(x) = 0
    BY <2>6, <2>7, <2>8 DEF OutputCount, One
  <2> QED BY <2>3, <2>5, <2>9 DEF IInv, Counts
<1> QED BY <1>2, <1>3, Ranges

(* Every state has been deleted when all is done (future.hpp:1087-1097),   *)
(* bypassed outputs and those never waited for included: what refers to an *)
(* output is a call that is not over or a state made later, and there is a *)
(* last one.                                                               *)
THEOREM LeakFreedom == Spec => []NothingLeaks
BY Correctness, NoneLeft, PTL

-----------------------------------------------------------------------------
(* Two threads.                                                            *)

(* The one reference to an output is a call's, its operation's or another  *)
(* state's.                                                                *)
LEMMA LastReference ==
    ASSUME IInv, NEW w \in Outputs, w \in created, ssb[w].m_refs = 1,
           NEW y \in States, ssb[y].m_refs # 0, ssb[y].m_continuation = w
    PROVE  /\ \A p \in Places : ~Held(Frame(p), w)
           /\ \A z \in States : ssb[z].m_refs # 0 /\ ssb[z].m_continuation = w => z = y
<1> DEFINE h == \E p \in Places : Held(Frame(p), w)
           o == ~Deleted(w - N)
           f == \E s \in Outputs : ssb[s].m_continuation = w /\ ~Deleted(s)
<1>1. One(h) + One(o) + One(f) = 1
  BY DEF IInv, Counts, OutputCount
<1>2. w # Null
  BY Ranges
<1>3. \A z \in States : ssb[z].m_refs # 0 /\ ssb[z].m_continuation = w =>
        \/ z \in Outputs /\ f
        \/ z = w - N /\ o
  <2> SUFFICES ASSUME NEW z \in States, ssb[z].m_refs # 0, ssb[z].m_continuation = w
               PROVE  (z \in Outputs /\ f) \/ (z = w - N /\ o)
    OBVIOUS
  <2>1. CASE z \in Outputs
    <3>1. ssb[z].m_continuation = w /\ ~Deleted(z)
      BY DEF Deleted
    <3>2. f
      BY <2>1, <3>1
    <3> HIDE DEF h, o, f
    <3> QED BY <2>1, <3>2
  <2>2. CASE z \in Operations
    <3>1. w = Output(z)
      BY <1>2, <2>2 DEF IInv, Creation
    <3>2. z = w - N
      BY <2>2, <3>1, Ranges
    <3> QED BY <3>2 DEF Deleted
  <2> QED BY <2>1, <2>2, Ranges
<1> HIDE DEF h, o, f
<1>4. ~h /\ ~(o /\ f)
  BY <1>1, <1>3 DEF One
<1>5. \A z \in Outputs : ssb[z].m_continuation = w /\ y \in Outputs => z = y
  BY <1>2 DEF IInv, Continuations
<1> QED BY <1>3, <1>4, <1>5 DEF h

LEMMA LastOwner ==
    ASSUME IInv, NEW s \in States, s \in created, ssb[s].m_refs = 1,
           NEW p \in Places, Owns(Frame(p), s)
    PROVE  /\ \A q \in Places : Owns(Frame(q), s) => q[1] = p[1]
           /\ \A y \in States : ssb[y].m_refs # 0 => ssb[y].m_continuation # s
<1>1. CASE s \in Outputs
  <2>1. \A q \in Places : Owns(Frame(q), s) => Held(Frame(q), s)
    <3> SUFFICES ASSUME NEW q \in Places, Owns(Frame(q), s) PROVE Held(Frame(q), s)
      OBVIOUS
    <3>1. s \notin Operations /\ ProperCall(Frame(q), q[1], q[2])
      BY <1>1, Ranges DEF IInv, Proper
    <3> QED BY <3>1 DEF Owns, Looping, Completing, ProperCall
  <2>2. \A q \in Places : Owns(Frame(q), s) => q = p
    BY <2>1 DEF IInv, OneHolder
  <2>3. Held(Frame(p), s)
    BY <2>1
  <2> QED BY <1>1, <2>2, <2>3, LastReference
<1>2. CASE s \in Operations
  <2>1. \A q \in Places : Owns(Frame(q), s) => Looping(Frame(q), s) \/ Completing(Frame(q), s)
    BY <1>2, Ranges DEF Owns, IInv, OneHolder
  <2>2. OperationCount(s) = 1
    BY <1>2 DEF IInv, Counts
  <2>3. ~((\E q \in Places : Looping(Frame(q), s)) /\ (\E q \in Places : Completing(Frame(q), s)))
    BY <2>2 DEF OperationCount, One
  <2>4. \A q \in Places : Completing(Frame(q), s) => q[1] = s
    BY DEF Completing, IInv, Proper, ProperCall
  <2>5. \A q, r \in Places : Looping(Frame(q), s) /\ Looping(Frame(r), s) => q = r
    BY DEF Looping, IInv, Rounds
  <2>6. \A y \in States : ssb[y].m_continuation # s
    BY <1>2, Ranges DEF IInv, Creation, Continuations
  <2> QED BY <2>1, <2>3, <2>4, <2>5, <2>6
<1> QED BY <1>1, <1>2, Ranges

(* What a thread is about to delete: the last to own the first of them is  *)
(* one of its calls, and all that leads to the others goes as well.        *)
LEMMA Dying ==
    ASSUME IInv, NEW t \in Threads, NEW s, Deletes(t, s),
           NEW w \in Released(s), ssb[w].m_refs = 1
    PROVE  /\ w \in States /\ w \in created
           /\ \A q \in Places : Owns(Frame(q), w) => q[1] = t
           /\ \A y \in States : ssb[y].m_refs # 0 /\ ssb[y].m_continuation = w =>
                y \in Released(s) /\ ssb[y].m_refs = 1
           /\ w = s \/ \E y \in Released(s) : ssb[y].m_refs = 1 /\ ssb[y].m_continuation = w
<1>1. s \in States /\ s \in created
  BY DEF Deletes
<1>2. PICK p \in Places : p[1] = t /\ Owns(Frame(p), s)
  BY DEF Deletes
<1>3. w \in States /\ Released(s) \subseteq States
  BY <1>1, Releases DEF IInv
<1>4. w \in created
  <2>1. w \notin created => ssb[w].m_refs = 0
    BY <1>3, Untouched DEF IInv
  <2> QED BY <2>1
<1>5. CASE w = s
  BY <1>1, <1>2, <1>3, <1>4, <1>5, LastOwner
<1>6. CASE w # s
  <2>1. w \in Outputs
    BY <1>1, <1>6, Releases DEF IInv
  <2>2. PICK y \in Released(s) : ssb[y].m_refs = 1 /\ ssb[y].m_continuation = w
    BY <1>1, <1>6, Releases DEF IInv
  <2>3. /\ \A q \in Places : ~Held(Frame(q), w)
        /\ \A z \in States : ssb[z].m_refs # 0 /\ ssb[z].m_continuation = w => z = y
    BY <1>3, <1>4, <2>1, <2>2, LastReference
  <2>4. \A q \in Places : ~Owns(Frame(q), w)
    <3> SUFFICES ASSUME NEW q \in Places, Owns(Frame(q), w) PROVE FALSE
      OBVIOUS
    <3>1. w \notin Operations /\ ProperCall(Frame(q), q[1], q[2])
      BY <2>1, Ranges DEF IInv, Proper
    <3> QED BY <2>3, <3>1 DEF Owns, Looping, Completing, ProperCall
  <2> QED BY <1>3, <1>4, <2>2, <2>3, <2>4
<1> QED BY <1>5, <1>6

LEMMA DyingFirm ==
    ASSUME IInv, NEW t \in Threads, NEW s, Deletes(t, s),
           NEW w \in Released(s), ssb[w].m_refs = 1
    PROVE  Firm(t, w)
<1> DEFINE D == {x \in Released(s) : ssb[x].m_refs = 1}
<1>1. D \subseteq States /\ D \subseteq created
  BY Dying
<1>2. ASSUME NEW x \in D
      PROVE  \/ \E q \in Places : q[1] = t /\ Owns(Frame(q), x)
             \/ \E y \in D : ssb[y].m_continuation = x
  BY Dying DEF Deletes
<1>3. Keeps(t, D)
  BY <1>1, <1>2 DEF Keeps
<1> QED BY <1>1, <1>3 DEF Firm

(* What a thread keeps alive no other is about to delete. *)
LEMMA Apart ==
    ASSUME IInv, NEW t \in Threads, NEW u \in Threads, t # u, NEW x, Firm(t, x),
           NEW s, Deletes(u, s), x \in Released(s), ssb[x].m_refs = 1
    PROVE  FALSE
<1>1. PICK K \in SUBSET States : x \in K /\ Keeps(t, K)
  BY DEF Firm
<1> DEFINE T == {w \in K : w \in Released(s) /\ ssb[w].m_refs = 1}
<1>2. T # {} /\ T \subseteq States
  BY <1>1
<1>3. States \subseteq 0..(2 * N) /\ 2 * N \in Nat /\ \A w \in States : w \in Nat
  BY NAssumption DEF States
<1>4. PICK w \in T : \A y \in T : y <= w
  <2> HIDE DEF T
  <2> QED BY <1>2, <1>3, Greatest
<1>5. ASSUME NEW y \in T
      PROVE  \E z \in T : ssb[z].m_continuation = y
  <2>1. \A q \in Places : Owns(Frame(q), y) => q[1] = u
    BY Dying
  <2>2. PICK z \in K : ssb[z].m_continuation = y
    BY <1>1, <2>1 DEF Keeps
  <2>3. z \in States /\ ssb[z].m_refs # 0
    BY <1>1, <1>2, KeepsAlive DEF Alive
  <2>4. z \in Released(s) /\ ssb[z].m_refs = 1
    BY <2>2, <2>3, Dying
  <2> QED BY <2>2, <2>4
<1>6. PICK y \in T : ssb[y].m_continuation = w
  BY <1>5
<1>7. PICK z \in T : ssb[z].m_continuation = y
  BY <1>5
<1> HIDE DEF T
<1>8. w \in States /\ y \in States /\ z \in States /\ w # Null /\ y # Null
  BY <1>2, <1>6, <1>7, Ranges
<1>9. y \in Outputs
  BY <1>7, <1>8, Ranges DEF IInv, Creation, Continuations
<1>10. w < y
  BY <1>6, <1>8, <1>9 DEF IInv, Continuations
<1> QED BY <1>3, <1>4, <1>8, <1>10

(* Two calls have no right to the same member. *)
LEMMA OneRight ==
    ASSUME IInv, NEW p \in Places, NEW q \in Places, p # q, NEW x \in States,
           NEW m, RightTo(Frame(p), m, x), RightTo(Frame(q), m, x)
    PROVE  FALSE
<1>1. ~(Uses(Frame(p), x) /\ Uses(Frame(q), x))
  BY DEF IInv, OneUser
<1>2. ~(Makes(Frame(p), x) /\ Makes(Frame(q), x))
  BY DEF IInv, OneMaker
<1>3. \A y \in States : ~(Handles(Frame(p), y) /\ Handles(Frame(q), y))
  BY DEF IInv, OneUser, Uses
<1>4. CASE m = "result"
  <2>1. \A c : RightTo(c, m, x) => \/ Makes(c, x)
                                   \/ Uses(c, x) /\ ssb[x].m_state = "Finished"
                                   \/ \E y \in States : Handles(c, y) /\ Feeds(y, x)
    BY <1>4 DEF RightTo
  <2>2. \A r \in Places : Makes(Frame(r), x) =>
           ssb[x].m_state # "Finished" /\ \A y \in States : ~Feeds(y, x)
    BY DEF IInv, OneMaker, MakerOf
  <2>3. \A y, z \in States : Feeds(y, x) => ssb[x].m_state # "Finished" /\ (Feeds(z, x) => y = z)
    BY DEF IInv, OneMaker
  <2> QED BY <1>1, <1>2, <1>3, <2>1, <2>2, <2>3
<1>5. CASE m = "callback"
  BY <1>1, <1>5 DEF RightTo
<1>6. CASE m = "continuation"
  <2>1. \A c : RightTo(c, m, x) => \/ Handles(c, x) \/ Fresh(c, x)
                                   \/ Opens(c, x) /\ x \in Operations
                                   \/ Makes(c, x) /\ x \in Outputs /\
                                        ssb[x].m_is_just_for_continuation
    BY <1>6 DEF RightTo
  <2>2. ASSUME NEW a \in Places, NEW b \in Places, Makes(Frame(a), x), x \in Outputs,
               ssb[x].m_is_just_for_continuation,
               Handles(Frame(b), x) \/ Fresh(Frame(b), x) \/
                 (Opens(Frame(b), x) /\ x \in Operations)
        PROVE  FALSE
    <3>1. ssb[x].m_state # "Finished"
      BY <2>2 DEF IInv, OneMaker, MakerOf
    <3>2. ~Handles(Frame(b), x)
      BY <3>1 DEF IInv, OneUser, UserOf, Uses
    <3>3. ~Fresh(Frame(b), x)
      <4>1. Fresh(Frame(b), x) => x \in Outputs
        BY DEF Fresh, IInv, OneHolder
      <4> QED BY <2>2, <4>1 DEF IInv, Hooked, Clean
    <3> QED BY <2>2, <3>2, <3>3, Ranges
  <2>3. \A c : Fresh(c, x) \/ Handles(c, x) \/ Opens(c, x) => Uses(c, x)
    BY DEF Fresh, Uses, Opens
  <2> DEFINE R(c) == Handles(c, x) \/ Fresh(c, x) \/ (Opens(c, x) /\ x \in Operations)
             S(c) == Makes(c, x) /\ x \in Outputs /\ ssb[x].m_is_just_for_continuation
  <2>4. (R(Frame(p)) \/ S(Frame(p))) /\ (R(Frame(q)) \/ S(Frame(q)))
    BY <2>1, Zenon
  <2>5. ~(R(Frame(p)) /\ R(Frame(q)))
    BY <1>1, <2>3
  <2>6. ~(S(Frame(p)) /\ S(Frame(q)))
    BY <1>2
  <2>7. ~(S(Frame(p)) /\ R(Frame(q))) /\ ~(S(Frame(q)) /\ R(Frame(p)))
    BY <2>2
  <2> HIDE DEF R, S
  <2> QED BY <2>4, <2>5, <2>6, <2>7
<1> QED BY <1>4, <1>5, <1>6 DEF RightTo

LEMMA Accessed ==
    ASSUME IInv, NEW t \in Threads, NEW y \in NextAccesses(t).reads \cup NextAccesses(t).writes
    PROVE  \E m, x : /\ y = <<m, x>> /\ x \in States /\ Firm(t, x)
                     /\ \/ Rightful(t, m, x)
                        \/ \E s : Deletes(t, s) /\ x \in Released(s) /\ ssb[x].m_refs = 1
<1>1. CASE Proceeds(t)
  BY <1>1 DEF Proceeds
<1>2. ASSUME NEW s, Deletes(t, s)
      PROVE  \E m, x : /\ y = <<m, x>> /\ x \in States /\ Firm(t, x)
                       /\ x \in Released(s) /\ ssb[x].m_refs = 1
  <2>1. NextAccesses(t) = LettingGo(s)
    BY <1>2 DEF Deletes
  <2>2. y \in LettingGo(s).writes
    BY <2>1, Deleting
  <2>3. PICK m, x : y = <<m, x>> /\ x \in Released(s) /\ ssb[x].m_refs = 1
    BY <2>2, Deleting
  <2>4. x \in States /\ Firm(t, x)
    BY <1>2, <2>3, Dying, DyingFirm
  <2> QED BY <2>3, <2>4
<1> QED BY <1>1, <1>2, Accessing

LEMMA Raceless == IInv => NoDataRace
<1> SUFFICES ASSUME IInv, NEW t \in Threads, NEW u \in Threads \ {t},
                    NEW y \in NextAccesses(t).writes,
                    y \in NextAccesses(u).reads \cup NextAccesses(u).writes
             PROVE  FALSE
  BY DEF NoDataRace
<1>1. PICK m, x : /\ y = <<m, x>> /\ x \in States /\ Firm(t, x)
                  /\ \/ Rightful(t, m, x)
                     \/ \E s : Deletes(t, s) /\ x \in Released(s) /\ ssb[x].m_refs = 1
  BY Accessed
<1>2. PICK n, z : /\ y = <<n, z>> /\ z \in States /\ Firm(u, z)
                  /\ \/ Rightful(u, n, z)
                     \/ \E s : Deletes(u, s) /\ z \in Released(s) /\ ssb[z].m_refs = 1
  BY Accessed
<1>3. m = n /\ x = z
  BY <1>1, <1>2
<1>4. ~\E s : Deletes(t, s) /\ x \in Released(s) /\ ssb[x].m_refs = 1
  BY <1>2, <1>3, Apart
<1>5. ~\E s : Deletes(u, s) /\ x \in Released(s) /\ ssb[x].m_refs = 1
  BY <1>1, Apart
<1>6. Rightful(t, m, x) /\ Rightful(u, m, x)
  BY <1>1, <1>2, <1>3, <1>4, <1>5
<1>7. PICK p \in Places : p[1] = t /\ RightTo(Frame(p), m, x)
  BY <1>6 DEF Rightful
<1>8. PICK q \in Places : q[1] = u /\ RightTo(Frame(q), m, x)
  BY <1>6 DEF Rightful
<1> QED BY <1>1, <1>7, <1>8, OneRight

(* No two threads touch the same member that is not atomic at once, one of *)
(* them to write: neither what m_is_just_for_continuation is published for *)
(* (future.hpp:82-87) nor the deletion of a state races with its uses.     *)
THEOREM DataRaceFreedom == Spec => []NoDataRace
BY Correctness, Raceless, PTL

-----------------------------------------------------------------------------
(* What becomes of the outcome. *)

(* Where it is after the step. *)
Moved(p0, p1, p2, b, g, c, a, r) ==
    /\ p0 \in Places /\ p1 \in Places /\ p2 \in Places /\ p0 # p1 /\ p0 # p2 /\ p1 # p2
    /\ Frame(p0) = g /\ Frame(p1) = b /\ Frame(p2) = NoCall
    /\ FrameIn(stack', returned', p0) = r /\ FrameIn(stack', returned', p1) = c
    /\ FrameIn(stack', returned', p2) = a
    /\ \A p \in Places \ {p0, p1, p2} : FrameIn(stack', returned', p) = Frame(p)

LEMMA HowItMoves ==
    ASSUME NEW t, NEW b, NEW g, b = Top(t), g = Answer(t), NEW c, NEW a, NEW r, Steps(t, c, a, r)
    PROVE  \E p0, p1, p2 : Moved(p0, p1, p2, b, g, c, a, r)
BY DEF Steps, Stepping, Around, Turns, Answer, Moved

LEMMA PendingAfter ==
    ASSUME NEW p0, NEW p1, NEW p2, NEW b, NEW g, NEW c, NEW a, NEW r,
           Moved(p0, p1, p2, b, g, c, a, r), g.op \in {"none", "returned"},
           r.op \in {"none", "returned"}, GoesOn(b, c, a)
    PROVE  Pending' <=> Pending
<1>1. ~Begins(NoCall) /\ ~Begins(g) /\ ~Begins(r)
  BY Nothing DEF Begins
<1>2. Pending' <=> \/ \E p \in Places : Begins(FrameIn(stack', returned', p))
                   \/ \E k \in Operations : Unmoved(k)'
  BY DEF Pending, Frame, Begins
<1>3. (\E p \in Places : Begins(FrameIn(stack', returned', p))) <=>
         Begins(c) \/ Begins(a) \/ \E p \in Places \ {p0, p1, p2} : Begins(Frame(p))
  BY <1>1 DEF Moved
<1>4. (\E p \in Places : Begins(Frame(p))) <=>
         Begins(b) \/ \E p \in Places \ {p0, p1, p2} : Begins(Frame(p))
  BY <1>1 DEF Moved
<1> QED BY <1>2, <1>3, <1>4 DEF Pending, GoesOn

LEMMA PendingNoMore ==
    ASSUME IInv, NEW p0, NEW p1, NEW p2, NEW b, NEW g, NEW c, NEW a, NEW r,
           Moved(p0, p1, p2, b, g, c, a, r), r.op \in {"none", "returned"},
           NEW v, EndsWith(v, c, a)
    PROVE  Pending /\ ~Pending'
<1>1. PICK k \in Operations : /\ Unmoved(k)
                              /\ \A j \in Operations : Unmoved(j)' => Unmoved(j) /\ j # k
  BY DEF EndsWith
<1>2. ASSUME NEW j \in Operations, j # k PROVE ~Unmoved(j)
  <2>1. j < k \/ k < j
    BY <1>2, NAssumption DEF Operations
  <2> QED BY <1>1, <2>1 DEF Unmoved, IInv, Rounds, Past
<1>3. ASSUME NEW p \in Places, Begins(Frame(p)) PROVE FALSE
  <2>1. /\ ProperCall(Frame(p), p[1], p[2]) /\ RoundOf(Frame(p))
    BY DEF IInv, Proper, Rounds
  <2>2. PICK j \in Operations : j = Frame(p).k
    BY <1>3, <2>1 DEF ProperCall, Begins
  <2>3. j \notin created /\ Past(j)
    BY <1>3, <2>1, <2>2 DEF RoundOf, Begins
  <2>4. j # k /\ (j < k \/ k < j)
    BY <1>1, <2>3, NAssumption DEF Operations, Unmoved
  <2> QED BY <1>1, <2>3, <2>4 DEF Unmoved, IInv, Rounds, Past
<1>4. Pending' <=> \/ \E p \in Places : Begins(FrameIn(stack', returned', p))
                   \/ \E j \in Operations : Unmoved(j)'
  BY DEF Pending, Frame, Begins
<1>5. ~Begins(c) /\ ~Begins(a) /\ ~Begins(r)
  BY DEF EndsWith, Begins
<1>6. \A p \in Places : ~Begins(FrameIn(stack', returned', p))
  BY <1>3, <1>5 DEF Moved
<1> QED BY <1>1, <1>2, <1>4, <1>6 DEF Pending

LEMMA CarriersAfter ==
    ASSUME NEW p0, NEW p1, NEW p2, NEW b, NEW g, NEW c, NEW a, NEW r,
           Moved(p0, p1, p2, b, g, c, a, r), ~Carrying(a)
    PROVE  /\ Carriers' = {p \in Carriers : p # p0 /\ p # p1}
                          \cup {p \in {p1} : Carrying(c)} \cup {p \in {p0} : Carrying(r)}
           /\ p1 \in Carriers <=> Carrying(b)
           /\ p0 \in Carriers <=> Carrying(g)
           /\ p2 \notin Carriers
           /\ \A p \in Places \ {p0, p1, p2} : Frame(p)' = Frame(p)
           /\ Frame(p0)' = r /\ Frame(p1)' = c
           /\ p0 # p1 /\ p1 \in Places /\ p0 \in Places
<1>1. ~Carrying(NoCall)
  BY Nothing DEF Carrying
<1>2. \A p : Frame(p)' = FrameIn(stack', returned', p)
  BY DEF Frame
<1>3. Carriers' = {p \in Places : Carrying(FrameIn(stack', returned', p))}
  BY DEF Carriers, Frame, Carrying
<1>4. p2 \notin Carriers
  BY <1>1 DEF Moved, Carriers
<1>5. ASSUME NEW p
      PROVE  p \in Carriers' <=> \/ p \in Carriers /\ p # p0 /\ p # p1
                                 \/ p = p1 /\ Carrying(c)
                                 \/ p = p0 /\ Carrying(r)
  <2>1. CASE p \in Places \ {p0, p1, p2}
    BY <1>3, <2>1 DEF Moved, Carriers
  <2>2. CASE p \in {p0, p1, p2}
    BY <1>3, <1>4, <2>2 DEF Moved
  <2>3. CASE p \notin Places
    BY <1>3, <2>3 DEF Moved, Carriers
  <2> QED BY <2>1, <2>2, <2>3
<1>6. Carriers' = {p \in Carriers : p # p0 /\ p # p1}
                  \cup {p \in {p1} : Carrying(c)} \cup {p \in {p0} : Carrying(r)}
  BY <1>5
<1> QED BY <1>2, <1>4, <1>6 DEF Moved, Carriers

LEMMA LocatedAfter ==
    ASSUME IInv, Located, NEW t \in Threads, NEW b, NEW g, Known(t, b, g), NEW c, NEW a, NEW r,
           Steps(t, c, a, r), r.op \in {"none", "returned"}, CargoStep(b, g, c, a, r)
    PROVE  Located'
<1>1. PICK p0, p1, p2 : Moved(p0, p1, p2, b, g, c, a, r)
  BY HowItMoves DEF Known
<1>2. g.op \in {"none", "returned"}
  BY Nothing, Returned DEF Known
<1>3. ASSUME ~Carrying(a)
      PROVE  /\ Carriers' = {p \in Carriers : p # p0 /\ p # p1}
                            \cup {p \in {p1} : Carrying(c)} \cup {p \in {p0} : Carrying(r)}
             /\ p1 \in Carriers <=> Carrying(b)
             /\ p0 \in Carriers <=> Carrying(g)
             /\ p2 \notin Carriers
             /\ \A p \in Places \ {p0, p1, p2} : Frame(p)' = Frame(p)
             /\ Frame(p0)' = r /\ Frame(p1)' = c
             /\ p0 # p1 /\ p1 \in Places /\ p0 \in Places
  BY <1>1, <1>3, CarriersAfter, Zenon
<1>4. GoesOn(b, c, a) => /\ Pending' <=> Pending
                         /\ expected' = expected
  BY <1>1, <1>2, PendingAfter DEF GoesOn
<1>5. \A v : EndsWith(v, c, a) => Pending /\ ~Pending' /\ expected' = v
  BY <1>1, PendingNoMore DEF EndsWith
<1>6. Carriers \subseteq Places /\ "none" \notin Outcomes /\ "moved" \notin Outcomes
      /\ Null \notin Outputs
  BY Ranges DEF Carriers, Outcomes
<1>7. Stores' = {s \in Outputs : ssb'[s].result \in Outcomes}
  BY DEF Stores, Full
<1>8. CASE Idle(b, g, c, a, r)
  <2>1. Carriers' = Carriers /\ \A p \in Carriers : Frame(p)' = Frame(p)
    BY <1>3, <1>6, <1>8 DEF Idle
  <2>2. Stores' = Stores /\ \A s \in Stores : ssb'[s].result = ssb[s].result
    BY <1>7, <1>8 DEF Idle, Stores, Full
  <2>3. delivered' = delivered /\ expected' = expected /\ (Pending' <=> Pending)
    BY <1>4, <1>8 DEF Idle
  <2> QED BY <2>1, <2>2, <2>3 DEF Located
<1>9. CASE Hands(b, g, c, a, r)
  <2>1. PICK v \in Outcomes, x \in Outputs \cup {Null}, y \in Outputs \cup {Null} :
           /\ Taken(b, g, c, a, x, v) /\ Put(b, c, a, r, y, v)
           /\ \A s \in Outputs \ {x, y} : ssb'[s].result = ssb[s].result
    BY <1>9 DEF Hands
  (* What it is taken from is all there is. *)
  <2>2. /\ delivered = <<>> /\ ~Pending' /\ expected' = v
        /\ {p \in Carriers : p # p0 /\ p # p1} = {}
        /\ {s \in Stores : s # x} = {}
        /\ x # Null => ssb'[x].result = "moved"
    <3> USE <1>3, <2>1 DEF Put
    <3>1. CASE x = Null /\ ~Carrying(b) /\ ~Carrying(g) /\ EndsWith(v, c, a)
      BY <1>5, <1>6, <3>1 DEF Located
    <3>2. CASE /\ x = Null /\ (Carrying(b) \/ Carrying(g))
               /\ Carrying(b) => b.future.outcome = v
               /\ Carrying(g) => g.future.outcome = v
               /\ GoesOn(b, c, a)
      <4>1. p1 \in Carriers \/ p0 \in Carriers
        BY <3>2
      <4>2. ~Pending /\ Stores = {} /\ delivered = <<>>
        BY <4>1 DEF Located
      <4>3. PICK p : Carriers = {p} /\ Frame(p).future.outcome = expected
        BY <4>1 DEF Located
      <4>4. expected = v /\ {q \in Carriers : q # p0 /\ q # p1} = {}
        BY <1>1, <3>2, <4>1, <4>3 DEF Moved
      <4> QED BY <1>4, <3>2, <4>2, <4>4
    <3>3. CASE /\ x \in Outputs /\ ~Carrying(b) /\ ~Carrying(g)
               /\ ssb[x].result = v /\ ssb'[x].result = "moved"
               /\ GoesOn(b, c, a)
      <4>1. x \in Stores
        BY <3>3 DEF Stores, Full
      <4>2. Carriers = {} /\ delivered = <<>> /\ ~Pending /\ Stores = {x} /\ expected = v
        BY <3>3, <4>1 DEF Located
      <4> QED BY <1>4, <1>6, <3>3, <4>2
    <3> QED BY <3>1, <3>2, <3>3 DEF Taken
  <2>3. Stores' = IF y = Null THEN {} ELSE {y}
    BY <1>6, <1>7, <2>1, <2>2 DEF Put, Stores, Full
  <2>4. CASE y = Null /\ delivered' = delivered /\ Carrying(c) /\ c.future.outcome = v /\ ~Carrying(r)
    <3>1. Carriers' = {p1} /\ Frame(p1)'.future.outcome = v
      BY <1>3, <2>1, <2>2, <2>4 DEF Put
    <3> QED BY <1>3, <2>1, <2>2, <2>3, <2>4, <3>1 DEF Put, Located
  <2>5. CASE y = Null /\ delivered' = delivered /\ Carrying(r) /\ r.future.outcome = v /\ ~Carrying(c)
    <3>1. Carriers' = {p0} /\ Frame(p0)'.future.outcome = v
      BY <1>3, <2>1, <2>2, <2>5 DEF Put
    <3> QED BY <1>3, <2>1, <2>2, <2>3, <2>5, <3>1 DEF Put, Located
  <2>6. CASE /\ y \in Outputs /\ delivered' = delivered /\ ~Carrying(c) /\ ~Carrying(r)
             /\ ssb'[y].result = v
    <3>1. Carriers' = {}
      BY <1>3, <2>1, <2>2, <2>6 DEF Put
    <3> QED BY <1>6, <2>1, <2>2, <2>3, <2>6, <3>1 DEF Located
  <2>7. CASE y = Null /\ delivered' = Append(delivered, v) /\ ~Carrying(c) /\ ~Carrying(r)
    <3>1. Carriers' = {}
      BY <1>3, <2>1, <2>2, <2>7 DEF Put
    <3>2. delivered' = <<v>>
      BY <2>2, <2>7
    <3> QED BY <2>1, <2>2, <2>3, <2>7, <3>1, <3>2 DEF Located
  <2> QED BY <2>1, <2>4, <2>5, <2>6, <2>7 DEF Put
<1> QED BY <1>8, <1>9 DEF CargoStep

LEMMA AttendedAfter ==
    ASSUME IInv, Attended, NEW t \in Threads, NEW b, NEW g, Known(t, b, g), NEW c, NEW a, NEW r,
           Steps(t, c, a, r), AttendStep(b, g, c, a, r),
           created \subseteq created', created' \subseteq States,
           \A s \in States : /\ ssb[s].m_state = "Finished" => ssb'[s].m_state = "Finished"
                             /\ ssb[s].result = "moved" => ssb'[s].result = "moved"
    PROVE  Attended'
<1>1. PICK p0, p1, p2 : Moved(p0, p1, p2, b, g, c, a, r)
  BY HowItMoves DEF Known
<1>2. ASSUME NEW s \in created', ssb'[s].result # "moved", ssb'[s].m_state # "Waiting"
      PROVE  Used(s)'
  <2>1. Used(s)' <=> \E p \in Places : Uses(FrameIn(stack', returned', p), s)
    BY DEF Used, Frame, Uses, Opens, Handles, Held
  <2>2. CASE Own(b, g, s) \/ ssb[s].m_state = "Waiting" \/ s \in created' \ created
    <3>1. Uses(c, s) \/ Uses(a, s) \/ Uses(r, s)
      BY <1>2, <2>2 DEF AttendStep
    <3> QED BY <1>1, <2>1, <3>1 DEF Moved
  <2>3. CASE ~Own(b, g, s) /\ ssb[s].m_state # "Waiting" /\ s \in created
    <3>1. PICK p \in Places : Uses(Frame(p), s)
      BY <1>2, <2>3 DEF Attended, Used
    <3>2. ~Uses(NoCall, s)
      BY Nothing DEF Uses, Opens, Handles, Held
    <3>3. p \notin {p0, p1, p2}
      BY <1>1, <2>3, <3>1, <3>2 DEF Moved, Own
    <3> QED BY <1>1, <2>1, <3>1, <3>3 DEF Moved
  <2> QED BY <2>2, <2>3
<1>3. ASSUME NEW s \in created', ssb'[s].m_state # "Finished", s \in Outputs => Full(s)'
      PROVE  Made(s)'
  <2>1. Made(s)' <=> \E p \in Places : Makes(FrameIn(stack', returned', p), s)
    BY DEF Made, Frame, Makes
  <2>2. CASE IF s \in Outputs THEN Makes(b, s) \/ ~Full(s) ELSE Makes(b, s)
    <3>1. Makes(c, s) \/ Makes(a, s)
      BY <1>3, <2>2 DEF AttendStep
    <3> QED BY <1>1, <2>1, <3>1 DEF Moved
  <2>3. CASE ~(IF s \in Outputs THEN Makes(b, s) \/ ~Full(s) ELSE Makes(b, s))
    <3>1. ~Makes(b, s) /\ (s \in Outputs => Full(s)) /\ s \in States
      BY <2>3
    <3>2. PICK p \in Places : Makes(Frame(p), s)
      <4>1. CASE s \in created
        BY <1>3, <3>1, <4>1 DEF Attended, Made
      <4>2. CASE s \notin created
        <5>1. ssb[s].result = "none" /\ s \notin Outputs /\ s \in Operations
          BY <3>1, <4>2, Ranges DEF IInv, Creation, Full, Outcomes
        <5>2. PICK p \in Places : Completing(Frame(p), s)
          BY <4>2, <5>1 DEF IInv, Counts
        <5>3. /\ ProperCall(Frame(p), p[1], p[2]) /\ RoundOf(Frame(p))
          BY DEF IInv, Proper, Rounds
        <5>4. Makes(Frame(p), s)
          BY <4>2, <5>2, <5>3 DEF ProperCall, RoundOf, Completing, Makes
        <5> QED BY <5>4
      <4> QED BY <4>1, <4>2
    <3>3. ~Makes(NoCall, s) /\ ~Makes(g, s)
      BY Nothing, Returned DEF Makes, Known
    <3>4. p \notin {p0, p1, p2}
      BY <1>1, <3>1, <3>2, <3>3 DEF Moved
    <3> QED BY <1>1, <2>1, <3>2, <3>4 DEF Moved
  <2> QED BY <2>2, <2>3
<1> QED BY <1>2, <1>3 DEF Attended

LEMMA AskedAfter ==
    ASSUME IInv, Asked, NEW t \in Threads, NEW b, NEW g, Known(t, b, g), NEW c, NEW a, NEW r,
           Steps(t, c, a, r), LinkStep(t, b, c, a, r), a.op # "get_async",
           r.op \in {"none", "returned"}
    PROVE  Asked'
<1>1. PICK p0, p1, p2 : Moved(p0, p1, p2, b, g, c, a, r)
  BY HowItMoves DEF Known
<1>2. ~Asks(a) /\ ~Asks(r) /\ ~Asks(c)
  BY DEF Asks, LinkStep
<1>3. ASSUME NEW s \in States, ssb'[s].m_callback = "final", NEW p \in Places,
             Asks(FrameIn(stack', returned', p))
      PROVE  FALSE
  <2>1. p \notin {p0, p1, p2} /\ Asks(Frame(p))
    BY <1>1, <1>2, <1>3 DEF Moved
  <2>2. b.op = "get_async"
    BY <1>3, <2>1 DEF Asked, LinkStep
  <2>3. /\ ProperCall(Frame(p), p[1], p[2]) /\ ProperCall(Frame(p1), p1[1], p1[2])
        /\ p = <<p[1], p[2]>> /\ p1 = <<p1[1], p1[2]>>
    BY <1>1 DEF IInv, Proper, Places, Moved
  <2>4. p = <<User, 1>> /\ p1 = <<User, 1>>
    BY <1>1, <2>1, <2>2, <2>3 DEF ProperCall, Asks, Moved
  <2> QED BY <2>1, <2>4
<1> QED BY <1>3 DEF Asked, Frame, Asks

LEMMA DeliveryAfter ==
    ASSUME IInv, Delivery, NEW t \in Threads, Outlook(t)
    PROVE  Delivery'
BY LocatedAfter, AttendedAfter, AskedAfter DEF Outlook, Growing, Delivery

LEMMA InitDelivery == Init => Delivery
<1> SUFFICES ASSUME Init PROVE Delivery
  OBVIOUS
<1>1. \A p \in Places : ~Carrying(Frame(p))
  BY FirstFrames, FirstCalls, Nothing DEF Carrying
<1>2. Carriers = {}
  BY <1>1 DEF Carriers
<1>3. Stores = {}
  BY FirstStates, Ranges DEF Stores, Full, Outcomes
<1>4. Pending
  <2> DEFINE p == <<User, 2>>
  <2>1. p \in Places /\ p # <<User, 1>> /\ p[1] \notin Operations
    BY NAssumption DEF Places, Threads, User, Operations
  <2>2. Frame(p) = Loop(1)
    BY <2>1, FirstFrames
  <2> HIDE DEF p
  <2> QED BY <2>1, <2>2, FirstCalls DEF Pending, Begins
<1>5. Located
  BY <1>2, <1>3, <1>4 DEF Located, Init
<1>6. Attended
  BY DEF Attended, Init
<1>7. Asked
  BY FirstStates DEF Asked
<1> QED BY <1>5, <1>6, <1>7 DEF Delivery

LEMMA StandsStill == Delivery /\ UNCHANGED vars => Delivery'
<1> SUFFICES ASSUME Delivery, UNCHANGED vars PROVE Delivery'
  OBVIOUS
<1>1. /\ ssb' = ssb /\ created' = created /\ expected' = expected /\ delivered' = delivered
      /\ stack' = stack /\ returned' = returned
  BY DEF vars
<1>2. \A p : Frame(p)' = Frame(p)
  BY <1>1 DEF Frame
<1>3. Pending' <=> Pending
  BY <1>1, <1>2 DEF Pending, Begins, Unmoved
<1>4. Carriers' = Carriers /\ Stores' = Stores
  BY <1>1, <1>2 DEF Carriers, Carrying, Stores, Full
<1>5. Located'
  BY <1>1, <1>2, <1>3, <1>4 DEF Delivery, Located
<1>6. Attended'
  BY <1>1, <1>2 DEF Delivery, Attended, Used, Made, Uses, Opens, Handles, Held, Makes, Full
<1>7. Asked'
  BY <1>1, <1>2 DEF Delivery, Asked, Asks
<1> QED BY <1>5, <1>6, <1>7 DEF Delivery

(* The outcome is always in one place, and somebody is to carry it on. *)
THEOREM DeliveryInvariance == Spec => [](IInv /\ Delivery)
<1>1. Init => IInv /\ Delivery
  BY InitIInv, InitDelivery
<1>2. (IInv /\ Delivery) /\ [Next]_vars => (IInv /\ Delivery)'
  <2>1. ASSUME IInv, Delivery, NEW t \in Threads, Run(t) PROVE IInv' /\ Delivery'
    BY <2>1, RunIInv, DeliveryAfter
  <2>2. IInv /\ Delivery /\ UNCHANGED vars => IInv' /\ Delivery'
    BY Stuttering, StandsStill
  <2> QED BY <2>1, <2>2 DEF Next
<1> QED BY <1>1, <1>2, PTL DEF Spec

LEMMA DeliveredWhenDone == IInv /\ Delivery => DeliveredOnce
<1> SUFFICES ASSUME IInv, Delivery PROVE DeliveredOnce
  OBVIOUS
<1>1. delivered \in {<<>>, <<expected>>}
  BY DEF Delivery, Located
<1>2. ASSUME Quiescent PROVE delivered # <<>>
  <2>1. \A p \in Places : /\ Frame(p).op \in {"none", "complete"}
                          /\ Frame(p).op = "complete" => Frame(p).k \notin created
    BY <1>2, QuiescentFrames
  <2>2. \A p \in Places : ~Carrying(Frame(p)) /\ ~Begins(Frame(p))
    BY <2>1 DEF Carrying, Begins
  <2>3. \A p \in Places, s \in created : ~Uses(Frame(p), s) /\ ~Makes(Frame(p), s)
    BY <2>1 DEF Uses, Opens, Handles, Held, Makes
  <2>4. \A s \in created : (s \in Outputs => Full(s)) => ssb[s].result = "moved"
    BY <2>3 DEF Delivery, Attended, Used, Made
  <2>5. \A k \in Operations : ~Unmoved(k)
    BY <2>4, Ranges DEF Unmoved
  <2>6. Carriers = {} /\ ~Pending
    BY <2>2, <2>5 DEF Carriers, Pending
  <2>7. ASSUME NEW s \in Outputs PROVE ~Full(s)
    <3>1. s \in States /\ "none" \notin Outcomes /\ "moved" \notin Outcomes
      BY Ranges DEF Outcomes
    <3>2. CASE s \in created
      BY <2>4, <3>1, <3>2 DEF Full
    <3>3. CASE s \notin created
      BY <3>1, <3>3, Untouched DEF IInv, Full
    <3> QED BY <3>2, <3>3
  <2>8. Stores = {}
    BY <2>7 DEF Stores
  <2> QED BY <2>6, <2>8 DEF Delivery, Located
<1> QED BY <1>1, <1>2 DEF DeliveredOnce

(* The final callback is called once, with the outcome of the round that   *)
(* ended the loop (future.hpp:593-608, 1052-1085): not before there is     *)
(* one, not with another, not twice, and it has been when all is done.     *)
THEOREM DeliveryCorrectness == Spec => []DeliveredOnce
BY DeliveryInvariance, DeliveredWhenDone, PTL

-----------------------------------------------------------------------------
(* The chain is a one-shot promise. *)

(* The user is still inside loop(). *)
Away == Asks(Frame(<<User, 1>>)) /\ Frame(<<User, 2>>).op # "none"

RequestIs(request) ==
    request = IF delivered # <<>> THEN "done" ELSE IF Away THEN "none" ELSE "callback"

LEMMA Requesting == IInv => RequestIs(RequestOfUser)
<1> SUFFICES ASSUME IInv
             PROVE  Away <=> /\ stack[User] # <<>> /\ Len(stack[User]) > 1
                             /\ stack[User][Len(stack[User])].pc = "start"
  BY Zenon DEF RequestOfUser, RequestIs
<1> DEFINE u == <<User, 1>>
           w == <<User, 2>>
<1>1. u \in Places /\ w \in Places /\ u[1] = User /\ u[2] = 1 /\ w[1] = User /\ w[2] = 2
      /\ User \in Threads /\ User \notin Operations
  BY NAssumption DEF Places, Threads, User, Operations
<1>2. stack[User] \in Seq(Calls)
  BY <1>1 DEF IInv, Typed
<1>3. PICK calls \in Seq(Calls) : calls = stack[User]
  BY <1>2
<1>4. /\ Frame(u) = IF 1 <= Len(calls) THEN calls[Len(calls)] ELSE NoCall
      /\ Frame(w) = IF 2 <= Len(calls) THEN calls[Len(calls) - 1] ELSE NoCall
  BY <1>1, <1>3 DEF Frame, FrameIn, Slot
<1>5. /\ Frame(u).op \in {"complete", "get_async", "none"}
      /\ ProperCall(Frame(u), User, 1)
  BY <1>1 DEF IInv, Proper, Shape, Bottoms
<1> HIDE DEF u, w
<1>6. Len(calls) \in Nat /\ (Len(calls) = 0 <=> calls = <<>>)
  BY <1>3
<1>7. CASE Len(calls) > 1
  <2>1. calls[Len(calls)] \in Calls /\ calls[Len(calls) - 1] \in Calls
    BY <1>3, <1>6, <1>7
  <2>2. Frame(w).op # "none" /\ Frame(u).op # "none" /\ Frame(u) = calls[Len(calls)]
    BY <1>4, <1>6, <1>7, <2>1 DEF Calls, Kinds
  <2>3. Frame(u).op = "get_async"
    BY <1>1, <1>5, <2>2 DEF ProperCall
  <2>4. Away <=> Frame(u).pc = "start"
    BY <2>2, <2>3 DEF Away, Asks, u, w
  <2> QED BY <1>3, <1>6, <1>7, <2>2, <2>4
<1>8. CASE ~(Len(calls) > 1)
  <2>1. Frame(w).op = "none"
    BY <1>4, <1>6, <1>8, Nothing
  <2>2. ~Away
    BY <2>1 DEF Away, w
  <2> QED BY <1>3, <1>8, <2>2
<1> QED BY <1>7, <1>8

(* A step takes the user out of loop(), or leaves it where it is. *)
LEMMA ComingBack ==
    ASSUME IInv, NEW t \in Threads, NEW b, NEW g, Known(t, b, g), NEW c, NEW a, NEW r,
           Steps(t, c, a, r), ~Asks(c), a.op # "get_async"
    PROVE  /\ Away' => Away
           /\ Away /\ c.op # "none" => Away'
           /\ b.op = "get_async" => ~Away
<1> DEFINE u == <<User, 1>>
           w == <<User, 2>>
<1>1. /\ u \in Places /\ w \in Places /\ u[1] = User /\ u[2] = 1 /\ w[1] = User /\ w[2] = 2
      /\ Over(w, u) /\ u # w
  BY NAssumption DEF Places, Threads, User, Over
<1>2. PICK p0 \in Places, p1 \in Places, p2 \in Places : Stepping(t, p0, p1, p2, c, a, r)
  BY DEF Steps
<1>3. /\ Frame(p1) = b /\ Frame(p2) = NoCall /\ b.op # "none"
  BY <1>2 DEF Stepping, Known, Calls, Kinds
<1>4. /\ \A p \in Places \ {p0, p1, p2} : Frame(p)' = Frame(p)
      /\ Frame(p0)' = r /\ Frame(p1)' = c /\ Frame(p2)' = a
  BY <1>2 DEF Stepping, Turns, Frame
<1>5. /\ Away <=> Asks(Frame(u)) /\ Frame(w).op # "none"
      /\ Away' <=> Asks(Frame(u)') /\ Frame(w)'.op # "none"
  BY DEF Away, Asks
<1> HIDE DEF u, w
<1>6. u # p0 /\ u # p2 /\ w # p0 /\ (u = p1 <=> w = p2)
  BY <1>1, <1>2 DEF Stepping, Around
<1>7. Away => u # p1 /\ w # p2
  BY <1>3, <1>5, <1>6, Nothing
<1>8. Away' => u # p1 /\ w # p2
  BY <1>4, <1>5, <1>6
<1>9. ASSUME Away' PROVE Away
  BY <1>1, <1>3, <1>4, <1>5, <1>6, <1>8, <1>9
<1>10. ASSUME Away, c.op # "none" PROVE Away'
  BY <1>1, <1>4, <1>5, <1>6, <1>7, <1>10
<1>11. ASSUME b.op = "get_async" PROVE ~Away
  <2>1. ProperCall(Frame(p1), p1[1], p1[2]) /\ p1 = <<p1[1], p1[2]>>
    BY DEF IInv, Proper, Places
  <2>2. p1 = u
    BY <1>3, <1>11, <2>1 DEF ProperCall, u
  <2> QED BY <1>7, <2>2
<1> QED BY <1>9, <1>10, <1>11

(* What a step does that the user can see. *)
LEMMA Visibly ==
    ASSUME IInv, Delivery, NEW t \in Threads, Outlook(t)
    PROVE  /\ Away' => Away
           /\ \/ expected' = expected /\ delivered' = delivered
              \/ /\ expected = "none" /\ expected' \in Outcomes
                 /\ delivered' = delivered /\ (Away' <=> Away)
              \/ /\ ~Away /\ expected' = expected /\ expected \in Outcomes
                 /\ delivered = <<>> /\ delivered' = <<expected>>
<1>1. PICK b, g, c, a, r : /\ Known(t, b, g) /\ Steps(t, c, a, r)
                           /\ CargoStep(b, g, c, a, r) /\ LinkStep(t, b, c, a, r)
                           /\ a.op # "get_async" /\ r.op \in {"none", "returned"}
  BY DEF Outlook
<1>2. /\ Away' => Away
      /\ Away /\ c.op # "none" => Away'
      /\ b.op = "get_async" => ~Away
  BY <1>1, ComingBack DEF LinkStep
<1>3. (\E s \in States : ssb[s].m_callback = "final") => ~Away
  <2>1. <<User, 1>> \in Places
    BY NAssumption DEF Places, Threads, User
  <2> QED BY <2>1 DEF Delivery, Asked, Away
<1>4. Located /\ Located'
  BY DeliveryAfter DEF Delivery
<1>5. CASE Idle(b, g, c, a, r)
  BY <1>2, <1>5 DEF Idle, GoesOn
<1>6. CASE Hands(b, g, c, a, r)
  <2>1. PICK v \in Outcomes, x, y \in Outputs \cup {Null} :
          Taken(b, g, c, a, x, v) /\ Put(b, c, a, r, y, v)
    BY <1>6 DEF Hands
  <2>2. /\ expected' = expected \/ EndsWith(v, c, a)
        /\ \/ delivered' = delivered
           \/ /\ delivered' = Append(delivered, v) /\ expected' = expected
              /\ b.op = "get_async" \/ \E s \in States : ssb[s].m_callback = "final"
    BY <2>1 DEF Taken, Put, GoesOn
  <2>3. CASE EndsWith(v, c, a) /\ delivered' = delivered
    <3>1. PICK p0, p1, p2 : Moved(p0, p1, p2, b, g, c, a, r)
      BY <1>1, HowItMoves DEF Known
    <3>2. Pending
      BY <1>1, <2>3, <3>1, PendingNoMore
    <3> QED BY <1>2, <1>4, <2>3, <3>2 DEF EndsWith, Located
  <2>4. CASE delivered' = Append(delivered, v) /\ expected' = expected
    <3>1. ~Away
      BY <1>2, <1>3, <2>2, <2>4
    <3>2. Len(Append(delivered, v)) = Len(delivered) + 1 /\ Len(delivered) \in Nat
      BY DEF IInv, Typed
    <3> QED BY <1>2, <1>4, <2>4, <3>1, <3>2 DEF Located
  <2> QED BY <1>2, <2>2, <2>3, <2>4
<1> QED BY <1>1, <1>2, <1>5, <1>6 DEF CargoStep

(* Every step of the chain is a step of the one-shot promise, or none: the *)
(* round that ends the loop settles it, the return of loop() asks for it   *)
(* and the final callback is its callback.                                 *)
THEOREM OneShotRefinement == Spec => Cell!SafeSpec
<1>1. Init => Cell!Init
  <2> SUFFICES ASSUME Init PROVE Cell!Init
    OBVIOUS
  <2>1. RequestOfUser = "none" /\ expected = "none" /\ delivered = <<>>
    <3>1. stack[User] = <<Loop(1), GetAsync>> /\ expected = "none" /\ delivered = <<>>
      BY NAssumption DEF Init, Threads, User
    <3>2. GetAsync.pc = "start"
      BY DEF GetAsync, Call
    <3>3. stack[User] # <<>> /\ Len(stack[User]) = 2 /\ stack[User][2] = GetAsync
      BY <3>1
    <3> QED BY <3>1, <3>2, <3>3 DEF RequestOfUser
  <2> QED BY <2>1 DEF Cell!Init
<1>2. IInv' => RequestIs(RequestOfUser)'
  BY Requesting, PTL
<1>3. IInv /\ Delivery /\ IInv' /\ [Next]_vars => [Cell!Next]_(Cell!vars)
  <2> SUFFICES ASSUME IInv, Delivery, IInv', [Next]_vars PROVE [Cell!Next]_(Cell!vars)
    OBVIOUS
  <2>1. /\ RequestOfUser = IF delivered # <<>> THEN "done" ELSE IF Away THEN "none" ELSE "callback"
        /\ RequestOfUser' =
             IF delivered' # <<>> THEN "done" ELSE IF Away' THEN "none" ELSE "callback"
    BY Requesting, <1>2 DEF RequestIs
  <2>2. CASE UNCHANGED vars
    BY <2>2 DEF vars, Cell!vars, RequestOfUser
  <2>3. ASSUME NEW t \in Threads, Run(t) PROVE [Cell!Next]_(Cell!vars)
    <3>1. /\ Away' => Away
          /\ \/ expected' = expected /\ delivered' = delivered
             \/ /\ expected = "none" /\ expected' \in Outcomes
                /\ delivered' = delivered /\ (Away' <=> Away)
             \/ /\ ~Away /\ expected' = expected /\ expected \in Outcomes
                /\ delivered = <<>> /\ delivered' = <<expected>>
      BY <2>3, RunIInv, Visibly
    <3>2. CASE expected' = expected /\ delivered' = delivered
      BY <2>1, <3>1, <3>2 DEF Cell!Next, Cell!Ask, Cell!vars
    <3>3. CASE /\ expected = "none" /\ expected' \in Outcomes
               /\ delivered' = delivered /\ (Away' <=> Away)
      BY <2>1, <3>3 DEF Cell!Next, Cell!Settle
    <3>4. CASE /\ ~Away /\ expected' = expected /\ expected \in Outcomes
               /\ delivered = <<>> /\ delivered' = <<expected>>
      BY <2>1, <3>4 DEF Cell!Next, Cell!RunCallback, Outcomes
    <3> QED BY <3>1, <3>2, <3>3, <3>4
  <2> QED BY <2>2, <2>3 DEF Next
<1> QED BY <1>1, <1>3, DeliveryInvariance, PTL DEF Spec, Cell!SafeSpec

-----------------------------------------------------------------------------
(* Why chains stay short. *)

(* Above the innermost call there is none. *)
LEMMA Above ==
    ASSUME Typed, NEW p \in Places, NEW q \in Places, p[2] # 0, Frame(p) = NoCall,
           q[1] = p[1], p[2] <= q[2]
    PROVE  Frame(q) = NoCall
<1>1. /\ p[1] \in Threads /\ p[2] \in Nat \ {0} /\ q[2] \in Nat \ {0}
  BY DEF Places
<1>2. PICK calls : calls = stack[p[1]] /\ calls \in Seq(Calls)
  BY <1>1 DEF Typed
<1>3. Len(calls) \in Nat /\ \A i \in 1..Len(calls) : calls[i] # NoCall
  <2>1. NoCall \notin Calls
    BY Nothing DEF Calls, Kinds
  <2> QED BY <1>2, <2>1
<1>4. ~(p[2] <= Len(calls))
  <2>1. ASSUME p[2] <= Len(calls) PROVE FALSE
    <3>1. Len(calls) + 1 - p[2] \in 1..Len(calls)
      BY <1>1, <1>3, <2>1
    <3>2. Frame(p) = calls[Len(calls) + 1 - p[2]]
      BY <1>1, <1>2, <2>1 DEF Frame, FrameIn, Slot
    <3> QED BY <1>3, <3>1, <3>2
  <2> QED BY <2>1
<1> QED BY <1>1, <1>2, <1>3, <1>4 DEF Frame, FrameIn, Slot

(* A round that is not the innermost call of t. *)
LEMMA BusyAt ==
    ASSUME Typed, NEW t \in Threads, NEW q \in Places,
           Frame(q).op \in {"loop", "step", "propagate"}, Frame(q) # Top(t)
    PROVE  Busy(Tail(stack[t])) \/ \E u \in Threads \ {t} : Busy(stack[u])
<1>1. q[1] \in Threads /\ q[2] \in Nat
  BY DEF Places
<1>2. PICK calls : calls = stack[q[1]] /\ calls \in Seq(Calls)
  BY <1>1 DEF Typed
<1>3. q[2] # 0 /\ q[2] <= Len(calls) /\ Len(calls) \in Nat
  BY <1>1, <1>2, Nothing, Returned DEF Frame, FrameIn, Slot
<1>4. PICK i \in 1..Len(calls) : i = Len(calls) + 1 - q[2] /\ Frame(q) = calls[i]
  BY <1>1, <1>2, <1>3 DEF Frame, FrameIn, Slot
<1>5. CASE q[1] # t
  BY <1>1, <1>2, <1>4, <1>5 DEF Busy
<1>6. CASE q[1] = t
  <2>1. calls # <<>> /\ Head(calls) = calls[1]
    BY <1>2, <1>4
  <2>2. i # 1
    BY <1>2, <1>4, <1>6, <2>1 DEF Top
  <2>3. i - 1 \in DOMAIN Tail(calls) /\ Tail(calls)[i - 1] = calls[i]
    BY <1>2, <1>4, <2>1, <2>2
  <2> QED BY <1>2, <1>4, <1>6, <2>3 DEF Busy
<1> QED BY <1>5, <1>6

(* A call that is in a round stays in it. *)
LEMMA InsideAfter ==
    ASSUME IInv, NEW t, NEW b, NEW g, b = Top(t), g = Answer(t), NEW c, NEW a, NEW r,
           NEW p0 \in Places, NEW p1 \in Places, NEW p2 \in Places,
           Stepping(t, p0, p1, p2, c, a, r)
    PROVE  /\ \A p \in Places \ {p0, p1, p2} :
                Frame(p).op # "none" /\ Inside(p) => Inside(p)'
           /\ Inside(p1) => Inside(p0)' /\ Inside(p1)' /\ Inside(p2)'
           /\ Inside(p0) => Inside(p1) \/ b.op = "step"
           /\ c.op = "step" /\ c.pc = "propagate" => Inside(p2)'
<1>1. /\ p0 # p1 /\ p0 # p2 /\ p1 # p2 /\ p0[2] = 0 /\ p1[2] # 0 /\ p2[2] # 0
      /\ Over(p2, p1) /\ Origin(p0, p1)
      /\ \A q \in Places : Origin(q, p1) => q = p0
      /\ Frame(p1) = b /\ Frame(p2) = NoCall /\ Frame(p0) = g
      /\ \A p \in Places \ {p0, p1, p2} : Frame(p)' = Frame(p)
      /\ Frame(p1)' = c
  BY DEF Stepping, Around, Turns, Answer, Frame
<1>2. \A p \in Places : p[2] \in Nat
  BY DEF Places
<1>3. g.op \in {"none", "returned"}
  BY Nothing, Returned DEF Answer, After
<1>4. ASSUME NEW q \in Places, q[1] = p1[1], p1[2] < q[2] PROVE Frame(q) = NoCall
  BY <1>1, <1>2, <1>4, Above DEF Over, IInv
<1>5. \A q \in Places : q[1] = p1[1] => q = p0 \/ q = p1 \/ q[2] < p1[2] \/ Frame(q) = NoCall
  <2>1. \A q \in Places : q[2] = p1[2] /\ q[1] = p1[1] => q = p1
    BY DEF Places
  <2> QED BY <1>2, <1>4, <2>1
<1>6. ASSUME NEW p \in Places \ {p0, p1, p2}, Frame(p).op # "none", Inside(p) PROVE Inside(p)'
  <2>1. PICK q \in Places : /\ Below(q, p) \/ Origin(p, q)
                            /\ Frame(q).op = "step" /\ Frame(q).pc = "propagate"
    BY <1>6 DEF Inside
  <2>2. q # p0 /\ q # p2
    BY <1>1, <1>3, <2>1, Nothing
  <2>3. q # p1
    <3>1. ASSUME q = p1, Below(p1, p) PROVE FALSE
      BY <1>1, <1>4, <1>6, <3>1, Nothing DEF Below
    <3>2. ASSUME q = p1, Origin(p, p1) PROVE FALSE
      BY <1>1, <1>6, <3>2
    <3> QED BY <2>1, <3>1, <3>2
  <2> QED BY <1>1, <2>1, <2>2, <2>3 DEF Inside
<1>7. ASSUME Inside(p1) PROVE Inside(p0)' /\ Inside(p1)' /\ Inside(p2)'
  <2>1. PICK q \in Places : Below(q, p1) /\ Frame(q).op = "step" /\ Frame(q).pc = "propagate"
    BY <1>1, <1>7 DEF Inside, Origin
  <2>2. q # p0 /\ q # p1 /\ q # p2
    <3>1. q # p2
      BY <1>1, <2>1, Nothing
    <3>2. q[2] # 0 /\ q[2] < p1[2] /\ p1[2] \in Nat
      BY <1>2, <2>1 DEF Below
    <3> QED BY <1>1, <3>1, <3>2
  <2>3. Below(q, p2) /\ Origin(p0, q)
    BY <1>1, <1>2, <2>1 DEF Below, Over, Origin
  <2> QED BY <1>1, <2>1, <2>2, <2>3 DEF Inside
<1>8. ASSUME Inside(p0), b.op # "step" PROVE Inside(p1)
  <2>1. PICK q \in Places : Origin(p0, q) /\ Frame(q).op = "step" /\ Frame(q).pc = "propagate"
    BY <1>1, <1>2, <1>8 DEF Inside, Below
  <2>2. q # p0 /\ q # p1 /\ Frame(q) # NoCall
    BY <1>1, <1>3, <1>8, <2>1, Nothing
  <2>3. q[1] = p1[1]
    BY <1>1, <2>1 DEF Origin
  <2>4. q[2] < p1[2]
    BY <1>5, <2>2, <2>3
  <2>5. q[2] # 0
    BY <1>1, <2>2, <2>3 DEF Origin
  <2> QED BY <2>1, <2>3, <2>4, <2>5 DEF Inside, Below
<1>9. ASSUME c.op = "step", c.pc = "propagate" PROVE Inside(p2)'
  <2>1. Below(p1, p2)
    BY <1>1, <1>2 DEF Below, Over
  <2> QED BY <1>1, <1>9, <2>1 DEF Inside
<1> QED BY <1>6, <1>7, <1>8, <1>9

(* The first output stays the first: an operation has an output only when  *)
(* the results of those before it have been taken.                         *)
LEMMA MadeBefore ==
    ASSUME IInv, NEW k \in Operations, k \notin created \/ ssb[k].result # "moved",
           NEW i \in Operations, i \in created
    PROVE  i <= k
<1>1. ASSUME k < i PROVE FALSE
  <2>1. Past(i)
    BY DEF IInv, Rounds
  <2> QED BY <1>1, <2>1 DEF Past
<1> QED BY <1>1, NAssumption DEF Operations

LEMMA OutputMade ==
    ASSUME IInv, NEW t \in Threads, NEW b, NEW g, Known(t, b, g), Growing(b),
           NEW y \in Outputs, y \in created' \ created
    PROVE  /\ b.op = "loop" /\ b.pc = "attach" /\ b.k \in Operations /\ y = Output(b.k)
           /\ \A i \in Operations : i \in created => i <= b.k
<1>1. b.op = "loop" /\ b.k \in Operations
  BY DEF Known, Growing, ProperCall
<1>2. y = Output(b.k) /\ b.pc = "attach"
  BY <1>1, Ranges DEF Growing
<1>3. UserOf(b, b.k) /\ Uses(b, b.k)
  BY <1>1, <1>2, Ranges DEF Known, Uses, Opens
<1> QED BY <1>1, <1>2, <1>3, MadeBefore DEF UserOf

LEMMA FirstStill ==
    ASSUME IInv, NEW t \in Threads, NEW b, NEW g, Known(t, b, g), Growing(b),
           NEW x \in Outputs \cap created, First(x)
    PROVE  First(x)'
<1>1. PICK i \in Operations : x = Output(i) /\ i \in created
  BY Ranges DEF IInv, Creation
<1>2. ASSUME NEW y \in Outputs \cap created' PROVE x <= y
  <2>1. CASE y \in created
    BY <2>1 DEF First
  <2>2. CASE y \notin created
    <3>1. b.k \in Operations /\ y = Output(b.k) /\ i <= b.k
      BY <1>1, <2>2, OutputMade
    <3> QED BY <1>1, <3>1, NAssumption DEF Output, Operations
  <2> QED BY <2>1, <2>2
<1> QED BY <1>2 DEF First

LEMMA Overtaking ==
    ASSUME Typed, NEW t \in Threads, Run(t), overtaken
    PROVE  overtaken'
<1>1. LoopGoesOn => overtaken'
  BY DEF LoopGoesOn
<1>2. Tested(t) => overtaken'
  BY DEF Tested
<1>3. \A v : LoopEnds(v) => overtaken'
  BY DEF LoopEnds
<1>4. \A v : Deliver(v) => overtaken'
  BY DEF Deliver
<1>5. \/ start_operation(t) \/ then_ready(t) \/ take_future(t)
      \/ then_not_ready(t) \/ make_continuation(t) \/ then_cas(t) \/ then_returns(t)
      => overtaken'
  BY <1>1, <1>3 DEF start_operation, then_ready, take_future, then_not_ready, make_continuation,
     then_cas, then_returns
<1>6. \/ step_passes_on(t) \/ step_throws(t) \/ step_returns(t)
      \/ step_goes_round(t) \/ step_propagates(t)
      => overtaken'
  BY <1>1, <1>3 DEF step_passes_on, step_throws, step_returns, step_goes_round, step_propagates,
     StepSets
<1>7. \/ propagate_ready(t) \/ propagate_not_ready(t) \/ test_just_for_continuation(t)
      \/ bypass_output(t) \/ bind_output(t) \/ publish_just_for_continuation(t)
      \/ set_fill_from(t) \/ propagate_cas(t) \/ propagate_returns(t) \/ fill_from(t)
      => overtaken'
  BY <1>1, <1>2 DEF propagate_ready, propagate_not_ready, test_just_for_continuation,
     bypass_output, bind_output, publish_just_for_continuation, set_fill_from, propagate_cas,
     propagate_returns, fill_from
<1>8. \/ exchange(t) \/ call_callback(t)
      \/ complete_operation(t) \/ drop_promise(t)
      => overtaken'
  BY <1>1, <1>4 DEF exchange, call_callback, complete_operation, drop_promise
<1>9. \/ get_async_ready(t) \/ get_async_not_ready(t) \/ set_final(t)
      \/ get_async_cas(t) \/ get_async_returns(t)
      => overtaken'
  BY <1>1, <1>4 DEF get_async_ready, get_async_not_ready, set_final, get_async_cas,
     get_async_returns
<1> QED BY <1>5, <1>6, <1>7, <1>8, <1>9 DEF Run

(* An output that is tested while no other round is under way is marked,   *)
(* or is the first.                                                        *)
LEMMA TestedAlone ==
    ASSUME IInv, Delivery, Lineage, NEW t \in Threads, NEW p1 \in Places, NEW b, b = Top(t),
           Frame(p1) = b, b.op = "propagate", b.pc = "test", Tested(t), ~overtaken',
           ~ssb[b.output].m_is_just_for_continuation
    PROVE  First(b.output)
<1>1. PICK x : x = b.output
  OBVIOUS
<1>2. /\ x \in Outputs \cap created /\ x \in States /\ Makes(b, x)
      /\ ~b.future.ready /\ b.future.state \in Outputs /\ x < b.future.state
  <2>1. ProperCall(b, p1[1], p1[2]) /\ RoundOf(b)
    BY DEF IInv, Proper, Rounds
  <2> QED BY <1>1, <2>1, Ranges DEF ProperCall, RoundOf, Makes
<1>3. ssb[x].m_state # "Finished" /\ ssb[x].result = "none"
  BY <1>2 DEF IInv, OneMaker, MakerOf
<1>4. CASE ssb[x].m_state = "Waiting"
  <2>1. ssb[x].m_callback \in {"fill_from", "final"}
    BY <1>2, <1>4 DEF IInv, Results, Continuations
  <2> QED BY <1>1, <1>2, <2>1 DEF Lineage, Marked
<1>5. CASE ssb[x].m_state # "Waiting"
  <2>1. PICK q \in Places : Uses(Frame(q), x)
    BY <1>2, <1>3, <1>5 DEF Delivery, Attended, Used
  <2>2. Held(Frame(q), x)
    <3>1. ProperCall(Frame(q), q[1], q[2]) /\ UserOf(Frame(q), x)
      BY <1>2 DEF IInv, Proper, OneUser
    <3> QED BY <1>2, <1>3, <2>1, <3>1, Ranges DEF ProperCall, UserOf, Uses, Opens
  <2>3. \A u \in Places : Frame(u).op \in {"loop", "step", "propagate"} => Frame(u) = b
    BY BusyAt DEF IInv, Tested
  <2>4. Frame(q).op # "propagate"
    <3>1. x \in Nat /\ b.future.state # x
      BY <1>2, NAssumption DEF Outputs
    <3> QED BY <1>2, <2>2, <2>3, <3>1 DEF Held
  <2>5. ~Inside(q)
    BY <2>3 DEF Inside
  <2> QED BY <1>1, <1>2, <2>2, <2>4, <2>5 DEF Lineage, Kin
<1> QED BY <1>4, <1>5

(* What stays so of the calls and the states. *)
LEMMA NestedAfter ==
    ASSUME IInv, IInv', Nested, NEW t \in Threads, NEW b, NEW g, Known(t, b, g), Growing(b),
           NEW c, NEW a, NEW r, r.op \in {"none", "returned"},
           c.op = "loop" => b.op = "loop" /\ c.k = b.k,
           NEW p0 \in Places, NEW p1 \in Places, NEW p2 \in Places,
           Stepping(t, p0, p1, p2, c, a, r)
    PROVE  Nested'
<1>1. /\ Frame(p0)' = r /\ Frame(p1)' = c /\ Frame(p2)' = a /\ Frame(p1) = b /\ Over(p2, p1)
      /\ p1[2] # 0 /\ \A p \in Places \ {p0, p1, p2} : Frame(p)' = Frame(p)
  BY DEF Stepping, Around, Turns, Frame, Known
<1>2. /\ \A p \in Places \ {p0, p1, p2} : Frame(p).op # "none" /\ Inside(p) => Inside(p)'
      /\ Inside(p1) => Inside(p1)' /\ Inside(p2)'
      /\ c.op = "step" /\ c.pc = "propagate" => Inside(p2)'
  BY InsideAfter DEF Known
<1>3. ASSUME NEW k \in Operations, \A i \in Operations : i < k => Output(i) \notin created,
             b.op = "loop" => k <= b.k
      PROVE  \A i \in Operations : i < k => Output(i) \notin created'
  <2>1. ASSUME NEW i \in Operations, i < k, Output(i) \in created' PROVE FALSE
    <3>1. b.op = "loop" /\ b.k \in Operations /\ Output(i) = Output(b.k)
      BY <1>3, <2>1, OutputMade, Ranges
    <3> QED BY <1>3, <2>1, <3>1, Ranges, NAssumption DEF Operations
  <2> QED BY <2>1
<1>4. c.op = "loop" => /\ b.op = "loop" /\ b.k \in Operations /\ c.k = b.k
                       /\ Inside(p1) \/ \A i \in Operations : i < c.k => Output(i) \notin created'
  <2>1. b.op = "loop" => b.k \in Operations
    BY DEF Known, ProperCall
  <2> QED BY <1>1, <1>3, <2>1, NAssumption DEF Nested, Operations
<1>5. ASSUME NEW p \in Places, Frame(p)'.op = "loop", ~Inside(p)'
      PROVE  \A i \in Operations : i < Frame(p)'.k => Output(i) \notin created'
  <2>1. CASE p = p0
    BY <1>1, <1>5, <2>1
  <2>2. CASE p = p1
    BY <1>1, <1>2, <1>4, <1>5, <2>2
  <2>3. CASE p = p2
    <3>1. Stacked(c, a) /\ RoundOf(c)' /\ ProperCall(c, p1[1], p1[2])
      BY <1>1 DEF IInv, Shape, Stacks, Rounds, Proper
    <3>2. Waits(c) /\ a.k = c.k + 1
      BY <1>1, <1>5, <2>3, <3>1 DEF Stacked
    <3>3. CASE c.op = "loop" /\ c.pc = "take"
      <4>1. Output(c.k) \notin created' /\ c.k \in Operations
        BY <1>4, <3>1, <3>3 DEF RoundOf
      <4>2. \A i \in Operations : i < c.k => Output(i) \notin created'
        BY <1>2, <1>4, <1>5, <2>3, <3>3
      <4> QED BY <1>1, <2>3, <3>2, <4>1, <4>2, NAssumption DEF Operations
    <3>4. CASE c.op = "get_async"
      <4>1. a.k = 1
        BY <3>1, <3>2, <3>4 DEF ProperCall
      <4> QED BY <1>1, <2>3, <4>1, NAssumption DEF Operations
    <3> QED BY <1>2, <1>5, <2>3, <3>2, <3>3, <3>4 DEF Waits
  <2>4. CASE p \notin {p0, p1, p2}
    <3>1. PICK k \in Operations : k = Frame(p).k /\ Frame(p).op = "loop"
      BY <1>1, <1>5, <2>4 DEF IInv, Proper, ProperCall
    <3>2. \A i \in Operations : i < k => Output(i) \notin created
      BY <1>2, <1>5, <2>4, <3>1 DEF Nested
    <3>3. RoundOf(Frame(p))
      BY DEF IInv, Rounds
    <3>4. ASSUME NEW i \in Operations, i < k, Output(i) \in created' PROVE FALSE
      <4>1. /\ b.op = "loop" /\ b.pc = "attach" /\ b.k \in Operations /\ Output(i) = Output(b.k)
            /\ \A j \in Operations : j \in created => j <= b.k
        BY <3>2, <3>4, OutputMade, Ranges
      <4>2. i = b.k /\ k \notin created
        BY <3>4, <4>1, Ranges, NAssumption DEF Operations
      <4>3. Past(k)
        BY <3>1, <3>3, <4>2 DEF RoundOf
      <4>4. ssb[b.k].result = "moved"
        BY <3>4, <4>2, <4>3 DEF Past
      <4>5. UserOf(b, b.k) /\ Uses(b, b.k)
        BY <4>1, Ranges DEF Known, Uses, Opens
      <4> QED BY <4>4, <4>5 DEF UserOf
    <3> QED BY <1>1, <2>4, <3>1, <3>4
  <2> QED BY <2>1, <2>2, <2>3, <2>4
<1> QED BY <1>5 DEF Nested

LEMMA KinAfter ==
    ASSUME IInv, IInv', Nested, Kin, NEW t \in Threads, NEW b, NEW g, Known(t, b, g), Growing(b),
           NEW c, NEW a, NEW r, r.op \in {"none", "returned"},
           HolderStep(b, g, c, a, r), LinkStep(t, b, c, a, r),
           a.op \notin {"get_async", "propagate"},
           NEW p0 \in Places, NEW p1 \in Places, NEW p2 \in Places,
           Stepping(t, p0, p1, p2, c, a, r)
    PROVE  Kin'
<1>1. /\ Frame(p0)' = r /\ Frame(p1)' = c /\ Frame(p2)' = a /\ Frame(p1) = b /\ Frame(p0) = g
      /\ p2[2] # 0 /\ \A p \in Places \ {p0, p1, p2} : Frame(p)' = Frame(p)
  BY DEF Stepping, Around, Turns, Frame, Known, Answer
<1>2. /\ \A p \in Places \ {p0, p1, p2} : Frame(p).op # "none" /\ Inside(p) => Inside(p)'
      /\ Inside(p1) => Inside(p0)' /\ Inside(p1)'
      /\ Inside(p0) => Inside(p1) \/ b.op = "step"
  BY InsideAfter DEF Known
<1>3. g.op \in {"none", "returned"}
  BY Nothing, Returned DEF Known, Answer, After
<1>4. ASSUME NEW d, d = c \/ d = r, NEW x \in Outputs, Held(d, x), d.op # "propagate", ~Inside(p1)
      PROVE  First(x)'
  <2>1. x \in created' /\ (Held(b, x) \/ Held(g, x) \/ x \notin created)
    BY <1>4, Ranges DEF HolderStep
  <2>2. d.op \in {"loop", "get_async", "returned"}
    BY <1>4 DEF Held
  <2>3. b.op \notin {"step", "propagate"}
    BY <1>4, <2>2 DEF LinkStep
  <2>4. CASE Held(b, x) \/ Held(g, x)
    <3>1. First(x)
      BY <1>1, <1>2, <1>3, <1>4, <2>3, <2>4 DEF Kin
    <3>2. x \in created
      BY <2>4, Ranges DEF Known
    <3> QED BY <3>1, <3>2, FirstStill
  <2>5. CASE x \notin created
    <3>1. b.op = "loop" /\ b.k \in Operations /\ x = Output(b.k)
      BY <2>1, <2>5, OutputMade
    <3>2. \A i \in Operations : i < b.k => Output(i) \notin created
      BY <1>1, <1>4, <3>1 DEF Nested
    <3>3. ASSUME NEW y \in Outputs, y \in created' PROVE x <= y
      <4>1. CASE y \in created
        <5>1. PICK i \in Operations : y = Output(i)
          BY Ranges
        <5>2. ~(i < b.k)
          BY <3>2, <4>1, <5>1
        <5> QED BY <3>1, <5>1, <5>2, NAssumption DEF Output, Operations
      <4>2. CASE y \notin created
        <5>1. y = Output(b.k)
          BY <3>3, <4>2, OutputMade
        <5> QED BY <3>1, <5>1, NAssumption DEF Outputs
      <4> QED BY <4>1, <4>2
    <3> QED BY <3>3 DEF First
  <2> QED BY <2>1, <2>4, <2>5
<1>5. ASSUME NEW p \in Places, NEW x \in Outputs, Held(Frame(p)', x), Frame(p)'.op # "propagate",
             ~Inside(p)'
      PROVE  First(x)'
  <2>1. CASE p \in {p0, p1}
    BY <1>1, <1>2, <1>4, <1>5, <2>1
  <2>2. CASE p = p2
    <3>1. a.op = "loop" => a.pc = "start"
      BY DEF LinkStep
    <3>2. a.op # "returned"
      BY <1>1 DEF IInv, Proper, ProperCall
    <3> QED BY <1>1, <1>5, <2>2, <3>1, <3>2 DEF Held
  <2>3. CASE p \notin {p0, p1, p2}
    <3>1. Held(Frame(p), x) /\ Frame(p).op # "propagate" /\ Frame(p).op # "none" /\ ~Inside(p)
      BY <1>1, <1>2, <1>5, <2>3 DEF Held
    <3>2. First(x) /\ x \in created
      BY <3>1, Ranges DEF Kin, IInv, OneHolder
    <3> QED BY <3>2, FirstStill
  <2> QED BY <2>1, <2>2, <2>3
<1> QED BY <1>5 DEF Kin, Held

LEMMA MarkedAfter ==
    ASSUME IInv, Kin, Marked, NEW t \in Threads, NEW b, NEW g, Known(t, b, g), Growing(b),
           NEW c, NEW a, NEW r, r.op \in {"none", "returned"}, LinkStep(t, b, c, a, r),
           a.op \notin {"get_async", "propagate"},
           \A s \in States : /\ ssb[s].m_is_just_for_continuation =>
                                  ssb'[s].m_is_just_for_continuation,
           NEW p0 \in Places, NEW p1 \in Places, NEW p2 \in Places,
           Stepping(t, p0, p1, p2, c, a, r)
    PROVE  Marked'
<1>1. /\ Frame(p0)' = r /\ Frame(p1)' = c /\ Frame(p2)' = a /\ Frame(p1) = b
      /\ \A p \in Places \ {p0, p1, p2} : Frame(p)' = Frame(p)
      /\ p1[2] # 0
  BY DEF Stepping, Around, Turns, Frame, Known
<1>2. ASSUME NEW x \in Outputs, ssb'[x].m_callback = "fill_from"
      PROVE  ssb'[x].m_is_just_for_continuation
  <2>1. ssb[x].m_is_just_for_continuation
    BY <1>1, <1>2 DEF Marked, LinkStep
  <2> QED BY <2>1, Ranges
<1>3. ASSUME NEW x \in Outputs, ssb'[x].m_callback = "final" PROVE First(x)'
  <2>1. CASE ssb[x].m_callback = "final"
    <3>1. x \in created
      BY <2>1, Ranges DEF IInv, Creation
    <3> QED BY <2>1, <3>1, FirstStill DEF Marked
  <2>2. CASE b.op = "get_async" /\ Held(b, x)
    <3>1. p1[2] = 1
      BY <1>1, <2>2 DEF IInv, Proper, ProperCall
    <3>2. \A q \in Places : ~Below(q, p1) /\ ~Origin(p1, q)
      BY <3>1 DEF Below, Origin, Places
    <3>3. First(x) /\ x \in created
      BY <1>1, <2>2, <3>2, Ranges DEF Kin, Inside, Known
    <3> QED BY <3>3, FirstStill
  <2> QED BY <1>3, <2>1, <2>2, Ranges DEF LinkStep
<1>4. ASSUME NEW p \in Places, Frame(p)'.op = "propagate", Frame(p)'.pc = "set"
      PROVE  ssb'[Frame(p)'.future.state].m_is_just_for_continuation
  <2>1. CASE p \in {p0, p1, p2}
    BY <1>1, <1>4, <2>1 DEF LinkStep
  <2>2. CASE p \notin {p0, p1, p2}
    <3>1. Frame(p)' = Frame(p) /\ ProperCall(Frame(p), p[1], p[2])
      BY <1>1, <2>2 DEF IInv, Proper
    <3>2. Frame(p).future.state \in States
      BY <1>4, <3>1, Ranges DEF ProperCall
    <3> QED BY <1>4, <3>1, <3>2 DEF Marked
  <2> QED BY <2>1, <2>2
<1> QED BY <1>2, <1>3, <1>4 DEF Marked

LEMMA FlatAfter ==
    ASSUME IInv, Delivery, Lineage, NEW t \in Threads, NEW b, NEW g, Known(t, b, g), Growing(b),
           NEW c, NEW a, NEW r, r.op \in {"none", "returned"}, LinkStep(t, b, c, a, r),
           a.op \notin {"get_async", "propagate"}, overtaken => overtaken',
           NEW p0 \in Places, NEW p1 \in Places, NEW p2 \in Places,
           Stepping(t, p0, p1, p2, c, a, r)
    PROVE  Flat'
<1> SUFFICES ASSUME ~overtaken' PROVE Flat'
  BY DEF Flat
<1>1. /\ Frame(p0)' = r /\ Frame(p1)' = c /\ Frame(p2)' = a /\ Frame(p1) = b
      /\ \A p \in Places \ {p0, p1, p2} : Frame(p)' = Frame(p)
  BY DEF Stepping, Around, Turns, Frame, Known
<1>2. /\ \A y \in Outputs : ssb[y].m_continuation # Null => First(ssb[y].m_continuation)
      /\ \A p \in Places : Frame(p).op = "propagate" /\ Frame(p).pc = "bind" =>
           First(Frame(p).output)
  BY DEF Lineage, Flat
<1>3. \A p \in Places : Frame(p).op = "propagate" => Frame(p).output \in Outputs \cap created
  BY DEF IInv, Proper, ProperCall, Rounds, RoundOf
<1>4. ASSUME NEW y \in Outputs, NEW x, x = ssb'[y].m_continuation, x # Null PROVE First(x)'
  <2>1. First(x) /\ x \in Outputs \cap created
    <3>1. \A s \in Outputs : ssb[s].m_continuation # Null =>
             ssb[s].m_continuation \in Outputs \cap created
      BY DEF IInv, Continuations
    <3>2. CASE x = ssb[y].m_continuation
      BY <1>2, <1>4, <3>1, <3>2
    <3>3. CASE b.op = "propagate" /\ b.pc = "bypass" /\ x = ssb[b.output].m_continuation
      BY <1>1, <1>2, <1>3, <1>4, <3>1, <3>3
    <3>4. CASE b.op = "propagate" /\ b.pc = "bind" /\ x = b.output
      BY <1>1, <1>2, <1>3, <3>4
    <3> QED BY <1>4, <3>2, <3>3, <3>4 DEF LinkStep
  <2> QED BY <2>1, FirstStill
<1>5. ASSUME NEW p \in Places, Frame(p)'.op = "propagate", Frame(p)'.pc = "bind",
             NEW x, x = Frame(p)'.output
      PROVE  First(x)'
  <2>1. First(x) /\ x \in Outputs \cap created
    <3>1. CASE p = p1
      <4>1. /\ b.op = "propagate" /\ b.pc = "test" /\ c.output = b.output
            /\ ~ssb[b.output].m_is_just_for_continuation /\ Tested(t)
        BY <1>1, <1>5, <3>1 DEF LinkStep
      <4>2. First(b.output)
        BY <1>1, <4>1, TestedAlone DEF Known
      <4> QED BY <1>1, <1>3, <1>5, <3>1, <4>1, <4>2
    <3>2. CASE p \notin {p0, p1, p2}
      BY <1>1, <1>2, <1>3, <1>5, <3>2
    <3>3. p # p0 /\ p # p2
      BY <1>1, <1>5
    <3> QED BY <3>1, <3>2, <3>3
  <2> QED BY <2>1, FirstStill
<1> QED BY <1>4, <1>5 DEF Flat, First

LEMMA LineageAfter ==
    ASSUME IInv, IInv', Delivery, Lineage, NEW t \in Threads, Run(t), Outlook(t)
    PROVE  Lineage'
<1>1. PICK b, g, c, a, r :
        /\ Known(t, b, g) /\ Steps(t, c, a, r)
        /\ HolderStep(b, g, c, a, r) /\ CargoStep(b, g, c, a, r)
        /\ AttendStep(b, g, c, a, r) /\ LinkStep(t, b, c, a, r)
        /\ a.op \notin {"get_async", "propagate"} /\ r.op \in {"none", "returned"}
        /\ c.op = "loop" => b.op = "loop" /\ c.k = b.k
        /\ Growing(b)
        /\ \A s \in States :
             /\ ssb[s].m_state = "Finished" => ssb'[s].m_state = "Finished"
             /\ ssb[s].result = "moved" => ssb'[s].result = "moved"
             /\ ssb[s].m_is_just_for_continuation => ssb'[s].m_is_just_for_continuation
  BY DEF Outlook
<1>2. PICK p0 \in Places, p1 \in Places, p2 \in Places : Stepping(t, p0, p1, p2, c, a, r)
  BY <1>1 DEF Steps
<1>3. Nested /\ Kin /\ Marked /\ Typed
  BY DEF Lineage, IInv
<1>4. Nested'
  BY <1>1, <1>2, <1>3, NestedAfter
<1>5. Kin'
  BY <1>1, <1>2, <1>3, KinAfter
<1>6. Marked'
  BY <1>1, <1>2, <1>3, MarkedAfter
<1>7. Flat'
  BY <1>1, <1>2, <1>3, Overtaking, FlatAfter
<1> QED BY <1>4, <1>5, <1>6, <1>7 DEF Lineage

LEMMA InitLineage == Init => Lineage
<1> SUFFICES ASSUME Init PROVE Lineage
  OBVIOUS
<1>1. \A p \in Places : \A x : ~Held(Frame(p), x)
  BY FirstFrames, FirstCalls, Nothing DEF Held
<1>2. \A p \in Places : Frame(p).op # "propagate"
  BY FirstFrames, FirstCalls, Nothing
<1>3. created = {}
  BY DEF Init
<1>4. \A x \in Outputs : ssb[x].m_callback = "none" /\ ssb[x].m_continuation = Null
  BY FirstStates, Ranges
<1> QED BY <1>1, <1>2, <1>3, <1>4 DEF Lineage, Nested, Kin, Marked, Flat

LEMMA StaysShort == Lineage /\ UNCHANGED vars => Lineage'
<1> SUFFICES ASSUME Lineage, UNCHANGED vars PROVE Lineage'
  OBVIOUS
<1>1. /\ ssb' = ssb /\ created' = created /\ overtaken' = overtaken
      /\ stack' = stack /\ returned' = returned
  BY DEF vars
<1>2. \A p : Frame(p)' = Frame(p)
  BY <1>1 DEF Frame
<1>3. \A p : Inside(p)' <=> Inside(p)
  BY <1>2 DEF Inside
<1>4. \A x : First(x)' <=> First(x)
  BY <1>1 DEF First
<1>5. Nested' /\ Kin'
  BY <1>1, <1>2, <1>3, <1>4 DEF Lineage, Nested, Kin, Held, First
<1>6. Marked' /\ Flat'
  BY <1>1, <1>2, <1>4 DEF Lineage, Marked, Flat, First
<1> QED BY <1>5, <1>6 DEF Lineage

(* Unless a round has been overtaken, outputs lead to the first.           *)
THEOREM LineageInvariance == Spec => [](IInv /\ Delivery /\ Lineage)
<1>1. Init => IInv /\ Delivery /\ Lineage
  BY InitIInv, InitDelivery, InitLineage
<1>2. (IInv /\ Delivery /\ Lineage) /\ [Next]_vars => (IInv /\ Delivery /\ Lineage)'
  <2>1. ASSUME IInv, Delivery, Lineage, NEW t \in Threads, Run(t)
        PROVE  IInv' /\ Delivery' /\ Lineage'
    BY <2>1, RunIInv, DeliveryAfter, LineageAfter
  <2>2. IInv /\ Delivery /\ Lineage /\ UNCHANGED vars => IInv' /\ Delivery' /\ Lineage'
    BY Stuttering, StandsStill, StaysShort
  <2> QED BY <2>1, <2>2 DEF Next
<1> QED BY <1>1, <1>2, PTL DEF Spec

(* A path that ends after two states. *)
LEMMA Path ==
    ASSUME NEW s, NEW x0, NEW x1, x0 = ssb[s].m_continuation,
           x1 = IF x0 # Null /\ ssb[x0].m_state = "Waiting" THEN ssb[x0].m_continuation ELSE Null,
           x1 # Null => ssb[x1].m_continuation = Null
    PROVE  Behind(s) \subseteq {x0, x1}
<1> DEFINE link(path, i) ==
             IF i = 0 THEN ssb[s].m_continuation
             ELSE IF path[i - 1] # Null /\ ssb[path[i - 1]].m_state = "Waiting"
                    THEN ssb[path[i - 1]].m_continuation
                    ELSE Null
           Leads(path) == path = [i \in 0..(2 * N) |-> link(path, i)]
           h == [i \in 0..(2 * N) |-> IF i = 0 THEN x0 ELSE IF i = 1 THEN x1 ELSE Null]
<1>1. PICK path : Leads(path) /\ Behind(s) = {path[i] : i \in 0..(2 * N)} \ {Null}
  <2>1. Leads(h)
    <3>1. ASSUME NEW i \in 0..(2 * N) PROVE h[i] = link(h, i)
      <4>1. /\ h[i] = IF i = 0 THEN x0 ELSE IF i = 1 THEN x1 ELSE Null
            /\ i # 0 => h[i - 1] = IF i = 1 THEN x0 ELSE IF i = 2 THEN x1 ELSE Null
        BY NAssumption
      <4> HIDE DEF h
      <4> QED BY <4>1
    <3> QED BY <3>1
  <2>2. Leads(CHOOSE path : Leads(path))
    <3> HIDE DEF Leads, h
    <3> QED BY <2>1
  <2>3. Behind(s) = {(CHOOSE path : Leads(path))[i] : i \in 0..(2 * N)} \ {Null}
    BY DEF Behind
  <2> HIDE DEF Leads
  <2> QED BY <2>2, <2>3
<1>2. 2 * N \in Nat /\ 2 * N >= 2
  BY NAssumption
<1>3. \A i \in 0..(2 * N) : path[i] = link(path, i)
  BY <1>1
<1>4. path[0] = x0 /\ path[1] = x1 /\ path[2] = Null
  BY <1>2, <1>3
<1>5. ASSUME NEW i \in 0..(2 * N), i >= 2, path[i] # Null PROVE FALSE
  <2> DEFINE T == {m \in 0..(2 * N - 2) : path[2 * N - m] # Null}
  <2>1. 2 * N - i \in T
    BY <1>2, <1>5
  <2>2. PICK m \in T : \A y \in T : y <= m
    <3>1. T \in SUBSET (0..(2 * N))
      BY <1>2
    <3> HIDE DEF T
    <3> QED BY <1>2, <2>1, <3>1, Greatest
  <2>3. 2 * N - m \in 0..(2 * N) /\ path[2 * N - m] # Null /\ m + 2 # 2 * N
    BY <1>2, <1>4
  <2>4. path[2 * N - m - 1] # Null
    BY <1>2, <1>3, <2>3
  <2>5. 2 * N - m - 1 = 2 * N - (m + 1) /\ m + 1 \in 0..(2 * N - 2)
    BY <1>2, <2>3
  <2>6. m + 1 \in T
    BY <2>4, <2>5
  <2> QED BY <2>2, <2>6, <1>2
<1>6. \A i \in 0..(2 * N) : path[i] \in {x0, x1, Null}
  <2>1. \A i \in 0..(2 * N) : i = 0 \/ i = 1 \/ i >= 2
    BY <1>2
  <2> QED BY <1>4, <1>5, <2>1
<1> QED BY <1>1, <1>6

LEMMA Few ==
    ASSUME NEW S, NEW x0, NEW x1, S \subseteq {x0, x1}
    PROVE  Cardinality(S) <= 2
<1>1. IsFiniteSet({x0}) /\ Cardinality({x0}) = 1
  BY FS_Singleton
<1>2. IsFiniteSet({x0} \cup {x1}) /\ Cardinality({x0} \cup {x1}) <= 2
  BY <1>1, FS_AddElement
<1>3. S \subseteq {x0} \cup {x1}
  OBVIOUS
<1>4. IsFiniteSet(S) /\ Cardinality(S) <= Cardinality({x0} \cup {x1})
  BY <1>2, <1>3, FS_Subset
<1>5. Cardinality(S) \in Nat /\ Cardinality({x0} \cup {x1}) \in Nat
  BY <1>2, <1>4, FS_CardinalityType
<1> QED BY <1>2, <1>4, <1>5

LEMMA Shallow == IInv /\ Lineage => ShallowChains
<1> SUFFICES ASSUME IInv, Lineage, NEW t \in Threads, At(t, "finish", "exchange"), ~overtaken
             PROVE  Cardinality(Behind(Future(t).state)) <= 2
  BY DEF ShallowChains
<1>1. PICK s : s = Future(t).state
  OBVIOUS
<1>2. s \in States
  <2>1. PICK h \in Nat \ {0} : ProperCall(Top(t), t, h)
    BY TopFacts DEF At, Known
  <2> QED BY <1>1, <2>1 DEF At, ProperCall, Future
<1>3. ASSUME NEW y \in Outputs, ssb[y].m_continuation # Null
      PROVE  /\ ssb[y].m_continuation \in Outputs
             /\ ssb[ssb[y].m_continuation].m_continuation = Null
  <2>1. PICK x \in Outputs \cap created : x = ssb[y].m_continuation /\ First(x)
    BY <1>3 DEF IInv, Continuations, Lineage, Flat
  <2>2. ASSUME ssb[x].m_continuation # Null PROVE FALSE
    <3>1. PICK z \in Outputs \cap created : z = ssb[x].m_continuation /\ z < x
      BY <2>2 DEF IInv, Continuations
    <3> QED BY <2>1, <3>1, NAssumption DEF First, Outputs
  <2> QED BY <2>1, <2>2
<1>4. ssb[s].m_continuation # Null => ssb[s].m_continuation \in Outputs
  BY <1>2, <1>3, Ranges DEF IInv, Creation
<1>5. PICK x0 : x0 = ssb[s].m_continuation
  OBVIOUS
<1>6. PICK x1 : x1 = IF x0 # Null /\ ssb[x0].m_state = "Waiting" THEN ssb[x0].m_continuation
                                                                 ELSE Null
  OBVIOUS
<1>7. x1 # Null => ssb[x1].m_continuation = Null
  BY <1>3, <1>4, <1>5, <1>6
<1>8. Behind(s) \subseteq {x0, x1}
  BY <1>5, <1>6, <1>7, Path
<1> QED BY <1>1, <1>8, Few

(* The bypass of propagate_result_to() keeps chains short, however many    *)
(* rounds there are, unless a round is overtaken by the completion of its  *)
(* operation (future.hpp:1082-1094, kMaxDepth).                            *)
THEOREM ChainShallowness == Spec => []ShallowChains
BY LineageInvariance, Shallow, PTL

=============================================================================
