---------------------------- MODULE Transaction ----------------------------
(***************************************************************************)
(* Transactions of Realm/transaction.hpp that live on from version to      *)
(* version: advance_read(), promote_to_write(), rollback_and_continue_as_  *)
(* read() and what they share, with the ReadLockGuard of db.hpp and the    *)
(* ChangesetInputStream through which they read the history.  Each         *)
(* transaction belongs to a thread; a step is what the others cannot see   *)
(* the middle of.  Everything marked "Throws" may throw.  Of the DB, which *)
(* is only declared, the model has what the headers document: read locks   *)
(* are counted per version, a commit reclaims the versions nobody has      *)
(* locked and trims the history up to the oldest that is left.             *)
(***************************************************************************)
EXTENDS Naturals, FiniteSets

CONSTANTS Transactions,
          Nobody,      \* holder of the write mutex when it is free
          MaxVersion,  \* bound on the number of commits
          NB_BUFFERS   \* changesets that the input stream fetches at a time

ASSUME FiniteAssumption  == IsFiniteSet(Transactions)
ASSUME NobodyAssumption  == Nobody \notin Transactions
ASSUME VersionAssumption == MaxVersion \in Nat \ {0} /\ NB_BUFFERS \in Nat \ {0}

Versions == 1..MaxVersion
None     == 0              \* no version

VARIABLES latest,     \* the version committed last
          snapshots,  \* the versions that can still be read
          locks,      \* how many read locks each version has
          writer,     \* who has the write mutex
          stage,      \* m_transact_stage
          async,      \* m_async_stage
          pc, call,   \* where a transaction is, and in which of the calls
          bound,      \* m_read_lock.m_version
          new,        \* new_read_lock.m_version
          begin,      \* m_begin_version of the input stream
          group,      \* the version the accessors are at; None if torn
          writable    \* what update_allocator_wrappers() was last called with

db   == <<latest, snapshots>>
own  == <<stage, bound, group, writable>>
pass == <<new, begin>>
vars == <<db, locks, writer, async, pc, call, own, pass>>

PC == {"rest", "waiting", "locked", "viewing", "observing", "advancing", "initiating", "catching"}

(* The history does not have the changeset that follows v any more: it is  *)
(* trimmed up to the oldest version that is left.                          *)
Trimmed(v) == \A w \in snapshots : v < w

Init == /\ latest = 1
        /\ snapshots = {1}
        /\ locks = [v \in Versions |-> 0]
        /\ writer = Nobody
        /\ stage = [t \in Transactions |-> "Ready"]
        /\ async = [t \in Transactions |-> "Idle"]
        /\ pc = [t \in Transactions |-> "rest"]
        /\ call = [t \in Transactions |-> "advance"]
        /\ bound = [t \in Transactions |-> None]
        /\ new = [t \in Transactions |-> None]
        /\ begin = [t \in Transactions |-> None]
        /\ group = [t \in Transactions |-> None]
        /\ writable = [t \in Transactions |-> FALSE]

At(t, place)       == pc[t] = place
Goes(t, from, to)  == pc[t] = from /\ pc' = [pc EXCEPT ![t] = to]
Idle(t, s)         == pc[t] = "rest" /\ stage[t] = s
Enters(t, c, place) == pc' = [pc EXCEPT ![t] = place] /\ call' = [call EXCEPT ![t] = c]

grab_read_lock(v)    == locks' = [locks EXCEPT ![v] = @ + 1]
release_read_lock(v) == locks' = [locks EXCEPT ![v] = @ - 1]

holds_write_mutex(t) == async[t] = "HasLock"
end_write(t) == writer' = IF holds_write_mutex(t) THEN writer ELSE Nobody

(* The end of the next portion of the history. *)
Fetched(t) == IF new[t] - begin[t] > NB_BUFFERS THEN begin[t] + NB_BUFFERS ELSE new[t]

(* ~ReadLockGuard() as an exception leaves internal_advance_read(). *)
Unwinds(t) == /\ release_read_lock(new[t])
              /\ new' = [new EXCEPT ![t] = None]
              /\ pc' = [pc EXCEPT ![t] = IF call[t] = "promote" THEN "catching" ELSE "rest"]
              /\ UNCHANGED <<db, writer, async, call, stage, bound, writable, begin>>

-----------------------------------------------------------------------------
(* Mutated forms of definitions below, each the mark of a plausible        *)
(* mistake.                                                                *)

(* The old read lock is released as soon as there is a new one. *)
update_view_releases_old(t) ==
    /\ Goes(t, "viewing", "observing")
    /\ release_read_lock(bound[t])
    /\ writable' = [writable EXCEPT ![t] = (call[t] = "promote")]
    /\ begin' = [begin EXCEPT ![t] = bound[t]]
    /\ UNCHANGED <<db, writer, async, call, stage, bound, group, new>>

(* No ReadLockGuard. *)
observer_throws_unguarded(t) ==
    /\ At(t, "observing")
    /\ new' = [new EXCEPT ![t] = None]
    /\ pc' = [pc EXCEPT ![t] = IF call[t] = "promote" THEN "catching" ELSE "rest"]
    /\ UNCHANGED <<db, locks, writer, async, call, own, begin>>

(* A writer stays at the version that it was reading. *)
promote_stays(t) ==
    /\ Goes(t, "locked", "initiating")
    /\ writable' = [writable EXCEPT ![t] = TRUE]
    /\ UNCHANGED <<db, locks, writer, async, call, stage, bound, group, pass>>

(* The stream for the accessors goes on where the observer's has ended. *)
observed_keeps_place(t) ==
    /\ Goes(t, "observing", "advancing")
    /\ begin[t] = new[t]
    /\ UNCHANGED <<db, locks, writer, async, call, own, pass>>

(* The new lock is stored in the transaction and guarded as well. *)
finish_guarded(t) ==
    /\ At(t, "advancing")
    /\ begin[t] = new[t]
    /\ locks' = [locks EXCEPT ![bound[t]] = @ - 1, ![new[t]] = @ - 1]
    /\ bound' = [bound EXCEPT ![t] = new[t]]
    /\ new' = [new EXCEPT ![t] = None]
    /\ pc' = [pc EXCEPT ![t] = IF call[t] = "promote" THEN "initiating" ELSE "rest"]
    /\ UNCHANGED <<db, writer, async, call, stage, group, writable, begin>>

-----------------------------------------------------------------------------
(* advance_read(): a target older than what is bound, or reclaimed, throws *)
(* before anything has changed.                                            *)

advance_read(t) ==
    /\ Idle(t, "Reading") /\ group[t] # None
    /\ \E v \in snapshots : /\ v > bound[t]
                            /\ grab_read_lock(v)
                            /\ new' = [new EXCEPT ![t] = v]
    /\ Enters(t, "advance", "viewing")
    /\ UNCHANGED <<db, writer, async, own, begin>>

(* The target is what is bound already: it is locked and released again. *)
advance_read_stays(t) ==
    /\ Idle(t, "Reading") /\ group[t] # None
    /\ writable[t]
    /\ writable' = [writable EXCEPT ![t] = FALSE]
    /\ UNCHANGED <<db, locks, writer, async, pc, call, stage, bound, group, pass>>

(* promote_to_write(): the write mutex is there already, is waited for, or *)
(* is tried; when a try fails nothing has changed.                         *)
promote_holding(t) ==
    /\ Idle(t, "Reading") /\ group[t] # None
    /\ holds_write_mutex(t)
    /\ Enters(t, "promote", "locked")
    /\ UNCHANGED <<db, locks, writer, async, own, pass>>

promote_waits(t) ==
    /\ Idle(t, "Reading") /\ group[t] # None
    /\ ~holds_write_mutex(t)
    /\ Enters(t, "promote", "waiting")
    /\ UNCHANGED <<db, locks, writer, async, own, pass>>

do_try_begin_write(t) ==
    /\ Idle(t, "Reading") /\ group[t] # None
    /\ writer = Nobody
    /\ writer' = t
    /\ Enters(t, "promote", "locked")
    /\ UNCHANGED <<db, locks, async, own, pass>>

(* Either the mutex is free, or a request made before comes to be granted. *)
acquire_write_lock(t) ==
    /\ Goes(t, "waiting", "locked")
    /\ \/ async[t] = "Idle" /\ writer = Nobody /\ writer' = t
       \/ holds_write_mutex(t) /\ UNCHANGED writer
    /\ UNCHANGED <<db, locks, async, call, own, pass>>

promote_advances(t) ==
    /\ Goes(t, "locked", "viewing")
    /\ bound[t] # latest
    /\ grab_read_lock(latest)
    /\ new' = [new EXCEPT ![t] = latest]
    /\ UNCHANGED <<db, writer, async, call, own, begin>>

promote_at_latest(t) ==
    /\ Goes(t, "locked", "initiating")
    /\ bound[t] = latest
    /\ writable' = [writable EXCEPT ![t] = TRUE]
    /\ UNCHANGED <<db, locks, writer, async, call, stage, bound, group, pass>>

promote_throws(t) ==
    /\ \/ Goes(t, "locked", "catching")
       \/ Goes(t, "initiating", "catching")
    /\ UNCHANGED <<db, locks, writer, async, call, own, pass>>

initiate_transact(t) ==
    /\ Goes(t, "initiating", "rest")
    /\ stage' = [stage EXCEPT ![t] = "Writing"]
    /\ UNCHANGED <<db, locks, writer, async, call, bound, group, writable, pass>>

(* The catch clause: the mutex is given back unless it came with a request.*)
catch(t) ==
    /\ Goes(t, "catching", "rest")
    /\ end_write(t)
    /\ UNCHANGED <<db, locks, async, call, own, pass>>

-----------------------------------------------------------------------------
(* internal_advance_read(), the new read lock having been grabbed.  The    *)
(* changes are read twice: for the observer, if there is one, while the    *)
(* accessors are still where they were, and then to advance them.          *)

update_reader_view(t) ==
    /\ At(t, "viewing")
    /\ \E next \in {"observing", "advancing"} : pc' = [pc EXCEPT ![t] = next]
    /\ writable' = [writable EXCEPT ![t] = (call[t] = "promote")]
    /\ begin' = [begin EXCEPT ![t] = bound[t]]
    /\ UNCHANGED <<db, locks, writer, async, call, stage, bound, group, new>>

view_throws(t) == At(t, "viewing") /\ Unwinds(t) /\ UNCHANGED group

observe(t) ==
    /\ At(t, "observing")
    /\ begin[t] < new[t]
    /\ begin' = [begin EXCEPT ![t] = Fetched(t)]
    /\ UNCHANGED <<db, locks, writer, async, pc, call, own, new>>

observer_throws(t) == At(t, "observing") /\ Unwinds(t) /\ UNCHANGED group

observed(t) ==
    /\ Goes(t, "observing", "advancing")
    /\ begin[t] = new[t]
    /\ begin' = [begin EXCEPT ![t] = bound[t]]
    /\ UNCHANGED <<db, locks, writer, async, call, own, new>>

(* Accessors can only be advanced by the changes to what they are at. *)
advance_transact(t) ==
    /\ At(t, "advancing")
    /\ begin[t] < new[t]
    /\ begin' = [begin EXCEPT ![t] = Fetched(t)]
    /\ group' = [group EXCEPT ![t] = IF @ = begin[t] THEN Fetched(t) ELSE None]
    /\ UNCHANGED <<db, locks, writer, async, pc, call, stage, bound, writable, new>>

(* The accessors may be torn: all that is left is to end the transaction. *)
advance_throws(t) ==
    /\ At(t, "advancing")
    /\ Unwinds(t)
    /\ group' = [group EXCEPT ![t] = None]

advanced(t) ==
    /\ At(t, "advancing")
    /\ begin[t] = new[t]
    /\ release_read_lock(bound[t])
    /\ bound' = [bound EXCEPT ![t] = new[t]]
    /\ new' = [new EXCEPT ![t] = None]
    /\ pc' = [pc EXCEPT ![t] = IF call[t] = "promote" THEN "initiating" ELSE "rest"]
    /\ UNCHANGED <<db, writer, async, call, stage, group, writable, begin>>

-----------------------------------------------------------------------------
(* rollback_and_continue_as_read() changes nothing that another can see    *)
(* before it ends the write.  It may throw before that, first without a    *)
(* change that the model has (reset_free_space_tracking() is over by then, *)
(* but free space is not modelled), and later with the accessors torn: the *)
(* transaction still writes.                                               *)

rollback_and_continue_as_read(t) ==
    /\ Idle(t, "Writing") /\ group[t] # None
    /\ writable' = [writable EXCEPT ![t] = FALSE]
    /\ \/ /\ end_write(t)
          /\ stage' = [stage EXCEPT ![t] = "Reading"]
          /\ UNCHANGED group
       \/ /\ group' = [group EXCEPT ![t] = None]
          /\ UNCHANGED <<writer, stage>>
    /\ UNCHANGED <<db, locks, async, pc, call, bound, pass>>

-----------------------------------------------------------------------------
(* What the DB does, and the helper thread that waits for the write mutex. *)

start_read(t) ==
    /\ Idle(t, "Ready")
    /\ grab_read_lock(latest)
    /\ stage' = [stage EXCEPT ![t] = "Reading"]
    /\ bound' = [bound EXCEPT ![t] = latest]
    /\ group' = [group EXCEPT ![t] = latest]
    /\ writable' = [writable EXCEPT ![t] = FALSE]
    /\ UNCHANGED <<db, writer, async, pc, call, pass>>

close(t) ==
    /\ At(t, "rest") /\ stage[t] # "Ready"
    /\ release_read_lock(bound[t])
    /\ writer' = IF writer = t THEN Nobody ELSE writer
    /\ async' = [async EXCEPT ![t] = "Idle"]
    /\ stage' = [stage EXCEPT ![t] = "Ready"]
    /\ bound' = [bound EXCEPT ![t] = None]
    /\ group' = [group EXCEPT ![t] = None]
    /\ UNCHANGED <<db, pc, call, writable, pass>>

(* A commit makes the version after the one that the writer is on, and     *)
(* keeps it, the one before, and all that somebody has locked.             *)
commit(t) ==
    /\ Idle(t, "Writing") /\ group[t] # None
    /\ latest < MaxVersion
    /\ latest' = bound[t] + 1
    /\ snapshots' = {v \in snapshots : locks[v] > 0} \cup {latest, latest'}
    /\ locks' = [locks EXCEPT ![bound[t]] = @ - 1, ![latest'] = @ + 1]
    /\ bound' = [bound EXCEPT ![t] = latest']
    /\ group' = [group EXCEPT ![t] = latest']
    /\ \/ UNCHANGED <<writer, stage, writable>>
       \/ /\ end_write(t)
          /\ stage' = [stage EXCEPT ![t] = "Reading"]
          /\ writable' = [writable EXCEPT ![t] = FALSE]
    /\ UNCHANGED <<async, pc, call, pass>>

async_request_write_mutex(t) ==
    /\ Idle(t, "Reading")
    /\ async[t] = "Idle"
    /\ async' = [async EXCEPT ![t] = "Requesting"]
    /\ UNCHANGED <<db, locks, writer, pc, call, own, pass>>

write_mutex_acquired(t) ==
    /\ async[t] = "Requesting"
    /\ writer = Nobody
    /\ writer' = t
    /\ async' = [async EXCEPT ![t] = "HasLock"]
    /\ UNCHANGED <<db, locks, pc, call, own, pass>>

async_complete_writes(t) ==
    /\ Idle(t, "Reading")
    /\ holds_write_mutex(t)
    /\ writer' = Nobody
    /\ async' = [async EXCEPT ![t] = "Idle"]
    /\ UNCHANGED <<db, locks, pc, call, own, pass>>

-----------------------------------------------------------------------------
promote_to_write(t) == \/ promote_holding(t) \/ promote_waits(t) \/ do_try_begin_write(t)
                       \/ acquire_write_lock(t) \/ promote_advances(t) \/ promote_at_latest(t)
                       \/ promote_throws(t) \/ initiate_transact(t) \/ catch(t)

internal_advance_read(t) == \/ update_reader_view(t) \/ view_throws(t)
                            \/ observe(t) \/ observer_throws(t) \/ observed(t)
                            \/ advance_transact(t) \/ advance_throws(t) \/ advanced(t)

Next == \E t \in Transactions :
          \/ advance_read(t) \/ advance_read_stays(t) \/ promote_to_write(t)
          \/ internal_advance_read(t) \/ rollback_and_continue_as_read(t)
          \/ start_read(t) \/ close(t) \/ commit(t)
          \/ async_request_write_mutex(t) \/ write_mutex_acquired(t) \/ async_complete_writes(t)

Spec == Init /\ [][Next]_vars

-----------------------------------------------------------------------------
(* Type correctness. *)
TypeOK == /\ latest \in Versions
          /\ snapshots \subseteq Versions
          /\ locks \in [Versions -> Nat]
          /\ writer \in Transactions \cup {Nobody}
          /\ stage \in [Transactions -> {"Ready", "Reading", "Writing"}]
          /\ async \in [Transactions -> {"Idle", "Requesting", "HasLock"}]
          /\ pc \in [Transactions -> PC]
          /\ call \in [Transactions -> {"advance", "promote"}]
          /\ bound \in [Transactions -> Versions \cup {None}]
          /\ new \in [Transactions -> Versions \cup {None}]
          /\ begin \in [Transactions -> Versions \cup {None}]
          /\ group \in [Transactions -> Versions \cup {None}]
          /\ writable \in [Transactions -> BOOLEAN]

(* The old read lock is kept for as long as the history is read            *)
(* (transaction.hpp:499-507): whatever is committed, and trimmed,          *)
(* meanwhile, the changesets that are still to be read are there           *)
(* (cont_transact_hist.hpp:58-66), and so is the version bound.            *)
HistoryIsThere ==
    \A t \in Transactions :
      /\ bound[t] # None => bound[t] \in snapshots
      /\ new[t] # None => new[t] \in snapshots
      /\ At(t, "observing") \/ At(t, "advancing") => ~Trimmed(begin[t])

(* Read locks and the write mutex are those of transactions that use them, *)
(* whatever has thrown of what is marked "Throws": a version has the locks  *)
(* of those that are bound to it or on their way to it, and the mutex has  *)
(* been waited for by a call in progress, or belongs to a transaction that *)
(* writes, or has asked for it and not given it back.  Loggers, which are  *)
(* not marked, are taken not to throw.                                     *)
BoundTo(v)    == {t \in Transactions : bound[t] = v}
AdvancingTo(v) == {t \in Transactions : new[t] = v}
Promoting(t)  == pc[t] \notin {"rest", "waiting"} /\ call[t] = "promote"

ReadLocksAccounted ==
    \A v \in Versions : locks[v] = Cardinality(BoundTo(v)) + Cardinality(AdvancingTo(v))

WriteMutexAccounted ==
    \A t \in Transactions :
        writer = t <=> holds_write_mutex(t) \/ stage[t] = "Writing" \/ Promoting(t)

Accounted == ReadLocksAccounted /\ WriteMutexAccounted

(* Accessors are at the version bound, and stay there, in a fully          *)
(* functional state, until the observer has seen all changes; a            *)
(* transaction that writes can modify them.                                *)
AccessorsAtBound ==
    \A t \in Transactions :
      /\ group[t] # None /\ pc[t] # "advancing" => group[t] = bound[t]
      /\ Idle(t, "Writing") /\ group[t] # None => writable[t]

Isolation == INSTANCE Snapshots WITH newest <- latest, mode <- stage, view <- bound

(* Versions are seen whole, in order, and only on request; writers come    *)
(* one after the other and each starts from the newest version.            *)
ImplementsSnapshots == Isolation!Spec
=============================================================================
