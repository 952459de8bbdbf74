------------------------- MODULE Subscribable_proofs -------------------------
(***************************************************************************)
(* Tokens never take away the observers of others.  Each subscription to a *)
(* Subscribable has an interval, from the key that its observer is under   *)
(* to the value of its token; since s_token is only incremented, and the   *)
(* subscriptions to one Subscribable come one after the other, these       *)
(* intervals do not overlap.                                               *)
(***************************************************************************)
EXTENDS Subscribable, TLAPS

Typed == /\ s_token \in Nat
         /\ subscribers \in [Subscribables -> SUBSET Nat]
         /\ inserted \in [Subscribables -> Nat \cup {None}]
         /\ token \in [Tokens -> TokenRecords \cup {None}]

Live(t)  == token[t] # None
Sub(t)   == token[t].m_subscribable
Value(t) == token[t].m_token
Key(t)   == token[t].key

Intervals ==
    /\ \A t \in Tokens : Live(t) => Key(t) <= Value(t) /\ Value(t) < s_token
    /\ \A s \in Subscribables : ~m_mutex_free(s) => /\ inserted[s] <= s_token
                                                    /\ inserted[s] \in subscribers[s]
    /\ \A t \in Tokens : Live(t) /\ ~m_mutex_free(Sub(t)) => Value(t) < inserted[Sub(t)]
    /\ \A t, u \in Tokens : t # u /\ Live(t) /\ Live(u) /\ Sub(t) = Sub(u)
                              => Value(t) < Key(u) \/ Value(u) < Key(t)

IInv == Typed /\ Intervals /\ SubscribedWhileTokenLives

(* A live token has the fields of a token. *)
LEMMA LiveRecord ==
    ASSUME Typed, NEW t \in Tokens, Live(t)
    PROVE  Sub(t) \in Subscribables /\ Value(t) \in Nat /\ Key(t) \in Nat
BY DEF Typed, Live, Sub, Value, Key, TokenRecords

LEMMA InitIInv == Init => IInv
BY DEF Init, IInv, Typed, Intervals, SubscribedWhileTokenLives, Live, Sub, Value, Key, m_mutex_free

(* The observer is inserted under a key above all values there are. *)
LEMMA SubscribeIInv ==
    ASSUME IInv, NEW s \in Subscribables, subscribe(s)
    PROVE  IInv'
<1>1. Typed' BY DEF IInv, Typed, subscribe
<1>2. \A t \in Tokens : Live(t) => Sub(t) \in Subscribables /\ Value(t) \in Nat /\ Key(t) \in Nat
  BY LiveRecord DEF IInv
<1>3. Intervals'
  BY <1>2 DEF IInv, Typed, Intervals, subscribe, Live, Sub, Value, Key, m_mutex_free
<1>4. SubscribedWhileTokenLives'
  BY <1>2 DEF IInv, Typed, SubscribedWhileTokenLives, subscribe, Live, Sub, Value, Key
<1> QED BY <1>1, <1>3, <1>4 DEF IInv

(* The interval of the new token is above those of all others. *)
LEMMA ReturnIInv ==
    ASSUME IInv, NEW s \in Subscribables, NEW t \in Tokens, subscribe_returns(s, t)
    PROVE  IInv'
<1>1. inserted[s] \in Nat BY DEF IInv, Typed, subscribe_returns, m_mutex_free
<1>2. Typed' BY <1>1 DEF IInv, Typed, subscribe_returns, TokenRecords
<1>3. /\ token'[t].m_subscribable = s
      /\ token'[t].m_token = s_token
      /\ token'[t].key = inserted[s]
      /\ inserted[s] <= s_token
      /\ inserted[s] \in subscribers[s]
  BY DEF IInv, Typed, Intervals, subscribe_returns, m_mutex_free
<1>4. \A u \in Tokens \ {t} : token'[u] = token[u]
  BY DEF IInv, Typed, subscribe_returns
<1>5. \A u \in Tokens : Live(u) => Sub(u) \in Subscribables /\ Value(u) \in Nat /\ Key(u) \in Nat
  BY LiveRecord DEF IInv
<1>6. /\ s_token' = s_token + 1
      /\ s_token \in Nat
      /\ subscribers' = subscribers
      /\ \A r \in Subscribables : inserted'[r] = IF r = s THEN None ELSE inserted[r]
      /\ inserted[s] # None
  BY DEF IInv, Typed, subscribe_returns, m_mutex_free
<1>7. Intervals'
  <2>1. ASSUME NEW u \in Tokens, token'[u] # None
        PROVE  /\ Key(u)' <= Value(u)' /\ Value(u)' < s_token'
               /\ inserted'[Sub(u)'] # None => Value(u)' < inserted'[Sub(u)']
    <3>1. CASE u = t BY <1>1, <1>3, <1>6, <3>1 DEF Sub, Value, Key
    <3>2. CASE u # t
      <4>1. token'[u] = token[u] /\ Live(u) BY <1>4, <2>1, <3>2 DEF Live
      <4>2. Key(u) <= Value(u) /\ Value(u) < s_token BY <4>1 DEF IInv, Intervals
      <4>3. inserted[Sub(u)] # None => Value(u) < inserted[Sub(u)]
        BY <4>1 DEF IInv, Intervals, m_mutex_free
      <4> QED BY <1>5, <1>6, <4>1, <4>2, <4>3 DEF Sub, Value, Key
    <3> QED BY <3>1, <3>2
  <2>2. ASSUME NEW r \in Subscribables, inserted'[r] # None
        PROVE  inserted'[r] <= s_token' /\ inserted'[r] \in subscribers'[r]
    <3>1. r # s /\ inserted'[r] = inserted[r] BY <1>6, <2>2
    <3>2. inserted[r] \in Nat /\ inserted[r] <= s_token /\ inserted[r] \in subscribers[r]
      BY <2>2, <3>1 DEF IInv, Typed, Intervals, m_mutex_free
    <3> QED BY <1>6, <3>1, <3>2
  <2>3. ASSUME NEW u \in Tokens \ {t}, token'[u] # None, Sub(u)' = s
        PROVE  Value(u)' < Key(t)'
    <3>1. token'[u] = token[u] /\ Live(u) /\ Sub(u) = s BY <1>4, <2>3 DEF Live, Sub
    <3>2. Value(u) < inserted[s] BY <1>6, <3>1 DEF IInv, Intervals, m_mutex_free
    <3> QED BY <1>3, <3>1, <3>2 DEF Value, Key
  <2>4. ASSUME NEW u \in Tokens \ {t}, NEW v \in Tokens \ {t}, u # v,
               token'[u] # None, token'[v] # None, Sub(u)' = Sub(v)'
        PROVE  Value(u)' < Key(v)' \/ Value(v)' < Key(u)'
    BY <1>4, <2>4 DEF IInv, Intervals, Live, Sub, Value, Key
  <2>5. Sub(t)' = s BY <1>3 DEF Sub
  <2> QED BY <2>1, <2>2, <2>3, <2>4, <2>5 DEF Intervals, Live, m_mutex_free
<1>8. SubscribedWhileTokenLives'
  BY <1>3, <1>4, <1>6 DEF IInv, SubscribedWhileTokenLives
<1> QED BY <1>2, <1>7, <1>8 DEF IInv

(* What is erased lies in no other interval. *)
LEMMA DestructIInv ==
    ASSUME IInv, NEW t \in Tokens, destruct(t)
    PROVE  IInv'
<1>1. \A u \in Tokens : Live(u) => Sub(u) \in Subscribables /\ Value(u) \in Nat /\ Key(u) \in Nat
  BY LiveRecord DEF IInv
<1>2. /\ Live(t)
      /\ m_mutex_free(Sub(t))
      /\ subscribers' = [subscribers EXCEPT ![Sub(t)] = @ \ {Value(t)}]
      /\ token' = [token EXCEPT ![t] = None]
      /\ UNCHANGED <<s_token, inserted>>
  BY DEF destruct, Live, Sub, Value
<1>3. Typed' BY <1>1, <1>2 DEF IInv, Typed
<1>4. Intervals'
  BY <1>1, <1>2 DEF IInv, Typed, Intervals, Live, Sub, Value, Key, m_mutex_free
<1>5. SubscribedWhileTokenLives'
  <2> SUFFICES ASSUME NEW u \in Tokens, token'[u] # None
               PROVE  Key(u)' \in subscribers'[Sub(u)']
    BY DEF SubscribedWhileTokenLives, Key, Sub
  <2>1. u # t /\ token'[u] = token[u] /\ Live(u) BY <1>2 DEF IInv, Typed, Live
  <2>2. Key(u) \in subscribers[Sub(u)] BY <2>1 DEF IInv, SubscribedWhileTokenLives, Live, Key, Sub
  <2>3. Sub(u) = Sub(t) => Key(u) # Value(t)
    BY <1>1, <1>2, <2>1 DEF IInv, Intervals
  <2> QED BY <1>1, <1>2, <2>1, <2>2, <2>3 DEF IInv, Typed, Key, Sub
<1> QED BY <1>3, <1>4, <1>5 DEF IInv

(* A token that moves keeps its interval. *)
LEMMA MoveIInv ==
    ASSUME IInv, NEW t \in Tokens, NEW u \in Tokens, move(t, u)
    PROVE  IInv'
<1>1. \A v \in Tokens : token'[v] = IF v = t THEN None ELSE IF v = u THEN token[t] ELSE token[v]
  BY DEF IInv, Typed, move
<1>2. UNCHANGED <<s_token, subscribers, inserted>> /\ token[t] # None BY DEF move
<1>3. Typed' BY <1>2 DEF IInv, Typed, move
<1>4. Intervals'
  BY <1>1, <1>2 DEF IInv, Intervals, Live, Sub, Value, Key, m_mutex_free
<1>5. SubscribedWhileTokenLives'
  BY <1>1, <1>2 DEF IInv, SubscribedWhileTokenLives
<1> QED BY <1>3, <1>4, <1>5 DEF IInv

LEMMA StutterIInv == IInv /\ UNCHANGED vars => IInv'
BY DEF IInv, Typed, Intervals, SubscribedWhileTokenLives, vars, Live, Sub, Value, Key, m_mutex_free

LEMMA NextIInv == IInv /\ [Next]_vars => IInv'
<1> SUFFICES ASSUME IInv, [Next]_vars PROVE IInv' OBVIOUS
<1>1. CASE UNCHANGED vars BY <1>1, StutterIInv
<1>2. ASSUME NEW s \in Subscribables, subscribe(s) PROVE IInv' BY <1>2, SubscribeIInv
<1>3. ASSUME NEW s \in Subscribables, NEW t \in Tokens, subscribe_returns(s, t) PROVE IInv'
  BY <1>3, ReturnIInv
<1>4. ASSUME NEW t \in Tokens, destruct(t) PROVE IInv' BY <1>4, DestructIInv
<1>5. ASSUME NEW t \in Tokens, NEW u \in Tokens, move(t, u) PROVE IInv' BY <1>5, MoveIInv
<1> QED BY <1>1, <1>2, <1>3, <1>4, <1>5 DEF Next

(* An observer stays subscribed for as long as its token lives, for any    *)
(* number of Subscribables, tokens and subscriptions.                      *)
THEOREM ObserverKept == Spec => []SubscribedWhileTokenLives
<1>1. IInv => SubscribedWhileTokenLives BY DEF IInv
<1> QED BY <1>1, InitIInv, NextIInv, PTL DEF Spec
=============================================================================
