---------------------------- MODULE Subscribable ----------------------------
(***************************************************************************)
(* Subscribable of Realm/subscribable.hpp: observers under keys, and       *)
(* tokens that take them away again.  Each Subscribable of a type has a    *)
(* mutex of its own, and s_token is common to all of them: subscribe()     *)
(* reads it to insert the observer, and again, incrementing it, for the    *)
(* token that it returns.                                                  *)
(***************************************************************************)
EXTENDS Naturals

CONSTANTS Subscribables,
          Tokens,     \* places for a Token object
          MaxToken,   \* bound on the number of subscriptions
          None        \* no Token, or one that has been moved from

VARIABLES s_token,
          subscribers,  \* the keys of m_subscribers
          inserted,     \* the key used by the subscribe() that has m_mutex
          token         \* Token objects; "key" is where their observer is

vars == <<s_token, subscribers, inserted, token>>

TokenRecords == [m_subscribable : Subscribables, m_token : Nat, key : Nat]

Init == /\ s_token = 0
        /\ subscribers = [s \in Subscribables |-> {}]
        /\ inserted = [s \in Subscribables |-> None]
        /\ token = [t \in Tokens |-> None]

m_mutex_free(s) == inserted[s] = None

subscribe(s) ==
    /\ m_mutex_free(s)
    /\ s_token < MaxToken
    /\ subscribers' = [subscribers EXCEPT ![s] = @ \cup {s_token}]
    /\ inserted' = [inserted EXCEPT ![s] = s_token]
    /\ UNCHANGED <<s_token, token>>

subscribe_returns(s, t) ==
    /\ ~m_mutex_free(s)
    /\ token[t] = None
    /\ token' = [token EXCEPT ![t] = [m_subscribable |-> s, m_token |-> s_token, key |-> inserted[s]]]
    /\ s_token' = s_token + 1
    /\ inserted' = [inserted EXCEPT ![s] = None]
    /\ UNCHANGED subscribers

(* ~Token(), and unsubscribe(), which erases nothing if the key is not     *)
(* there.                                                                  *)
destruct(t) ==
    /\ token[t] # None
    /\ LET s == token[t].m_subscribable IN
         /\ m_mutex_free(s)
         /\ subscribers' = [subscribers EXCEPT ![s] = @ \ {token[t].m_token}]
    /\ token' = [token EXCEPT ![t] = None]
    /\ UNCHANGED <<s_token, inserted>>

(* Moving a token onto another place, from which nothing is unsubscribed.  *)
(* A token that is moved onto itself is lost.                              *)
move(t, u) ==
    /\ token[t] # None
    /\ token' = [[token EXCEPT ![u] = token[t]] EXCEPT ![t] = None]
    /\ UNCHANGED <<s_token, subscribers, inserted>>

Next == \/ \E s \in Subscribables : subscribe(s) \/ \E t \in Tokens : subscribe_returns(s, t)
        \/ \E t \in Tokens : destruct(t) \/ \E u \in Tokens : move(t, u)

Spec == Init /\ [][Next]_vars

-----------------------------------------------------------------------------
(* subscribe() returns "a token identifying the observer"                  *)
(* (subscribable.hpp:113): its value is the key that the observer is under.*)
TokenIdentifiesObserver ==
    \A t \in Tokens : token[t] # None => token[t].m_token = token[t].key

(* Whatever the order of calls, an observer stays subscribed for as long   *)
(* as its token lives: no other token of the Subscribable takes it away,   *)
(* although values may differ from keys (subscribable.hpp:118-127).        *)
SubscribedWhileTokenLives ==
    \A t \in Tokens : token[t] # None => token[t].key \in subscribers[token[t].m_subscribable]
=============================================================================
