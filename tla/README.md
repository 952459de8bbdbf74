# Specifications of the concurrent core of this repository

The repository is a corpus for static analysis: small Objective-C samples under
`src/security/`, and the headers they are compiled against under
`src/temp_headers_for_clang/`. The samples are straight lines of calls, and most of the
headers only declare what is implemented elsewhere. The code with behaviour of its own is
in the inline functions of the Realm headers (`src/temp_headers_for_clang/Realm/`). Of
these, a few carry protocols that are easy to get wrong and hard to test: a lock-free
promise and future, robust mutexes for threads and processes that die, the asynchronous
operations of an event loop, and transactions that move from version to version. They are specified here. File names without a
directory are those of Realm headers.

Contents: [1. the system](#1-the-system), [2. the modules](#2-the-modules),
[3. the runs](#3-the-runs), [4. the proofs](#4-the-proofs),
[5. disagreements](#5-where-the-code-disagrees-with-itself),
[6. abstractions and limits](#6-abstractions-and-limits), [7. the plan](#7-the-plan).

To check: `tlc -config X.cfg M` with a row of the table of runs; `tlapm M_proofs.tla`
(`FutureChain_proofs` takes a quarter of an hour, the others take one or two minutes).

## 1. The system

### Inventory

| component | state | operations | what is hard | what makes it correct |
|---|---|---|---|---|
| **Promise and Future** (`future.hpp`) | `m_state` (atomic `SSBState`), `m_data`, `m_status`, `m_callback`, `m_cv`, the reference count | `emplace_value`, `set_error`, `~Promise`, `CopyablePromiseHolder`, `get`, `get_async`, dropping either end | two threads hand a result and a callback to each other with one atomic variable; a waiter sleeps; the last owner deletes | ownership of each member changes hands with `m_state`; every outcome arrives, once; no wakeup is lost |
| **Chains of Futures** (`future.hpp`) | one shared state per link, `m_continuation`, `m_is_just_for_continuation` | `then`, `on_error`, `on_completion`, `propagate_result_to`, `get_async` | each link is completed by another thread; one future side reads the continuation of a state that is not its own, to bypass it | no race, no access to a deleted state, no leak; the chain is one promise to its user |
| **RobustMutex, CondVar** (`thread.hpp`) | a POSIX robust mutex and the data it protects | `lock(recover_func)`, `try_lock`, `unlock`, `CondVar::wait`, `RobustLockGuard` | owners die in the middle of an update, of a recovery, of a wait; recovery functions throw | nobody meets half-made updates; damage is never forgotten; a mutex becomes unusable only for the documented reason, and is never left locked |
| **OperQueue** (`network.hpp`) | a ring through `m_next`; the queue has `m_back` | `push_back` of an operation or a queue, `pop_front`, `clear`, move | first = last in a ring of one; joining swaps two links | queues are first in, first out; every operation has one owner |
| **AsyncOper** (`network.hpp`) | the memory of an operation; `m_complete`, `m_canceled`, `m_stream`; who lends it | `alloc`, `initiate`, `advance`, `cancel`, `orphan`, `recycle`, `recycle_and_execute` | the socket may go at any time, also in a handler of one of its operations; the memory is reused by the handler; everything may throw | memory has an owner as long as it exists; a handler is told of the cancellation if there was one; canceled operations get their turn |
| **Reading from a stream** (`network.hpp`, `network_ssl.hpp`) | the caller's buffer, `m_curr`, `m_want`, `m_error_code`; the `ReadAheadBuffer` | `read`, `read_some`, `read_until`, synchronous and not, `cancel` | bytes come in any portions; the last may come with the end; SSL may want to write in order to read; what is read ahead outlives the operation | no byte is lost or reordered; every answer is true; nobody waits for what has come |
| Writing, connecting, timers, resolver, SSL handshake (`network.hpp`, `network_ssl.hpp`) | as AsyncOper | | as AsyncOper, plus `PostOper` and `TriggerExecOper` with rules of their own | planned |
| **InterprocessMutex** (`interprocess_mutex.hpp`) | a lock on a file, and a `LockInfo` with a local mutex that a table of weak pointers shares in a process | `set_shared_part` by name and by file, `release_shared_part`, `lock`, `try_lock`, `unlock`, destruction | two locks are taken one after the other; processes die between; names lead to other files from one moment to the next | one `LockInfo` per process and file; one instance at a time has the mutex; what died or failed does not block others |
| **Transactions** (`transaction.hpp`, with `db.hpp`, `changeset_input_stream.hpp`) | `m_transact_stage`, `m_read_lock`, the accessors; read locks per version; the write mutex | `advance_read`, `promote_to_write`, `rollback_and_continue_as_read` | others commit, and trim the history, while it is read; nearly every line may throw | versions and changesets are there as long as they are read; locks are given back; versions are seen whole and in order, and no commit is lost |
| **Subscribable** (`subscribable.hpp`) | a map from tokens to observers; `s_token`, common to all subscribables of a type | `subscribe`, `unsubscribe`, tokens that move | two subscribables count with one counter under different mutexes | an observer stays as long as its token; a token identifies its observer |
| AtomicSharedPtr, bind_ptr, checked mutexes, dispatchers | | | single critical sections or single atomic operations | not modelled: nothing to interleave inside; the counting that matters is in the Future models |
| The rest of Realm: storage, queries, sync, object store, Objective-C API | | | in libraries that are not in the repository | not modelled: the headers declare it |
| Utilities (`safe_int_ops.hpp`, `index_set.hpp`, ...) | | pure functions and value types | | not modelled yet |
| AFNetworking, FMDB, RNCryptor, SAMKeychain, YapDatabase | | | vendored declarations | not modelled: no behaviour |
| `src/security/` | | samples of a few lines | no state, no concurrency | not modelled |

`PROJECT.json` has the same list with the files of each part (`components`), and the
hazards of the code, each at its line, with the properties that watch it (`hazards`).

### How the parts interact

A *Promise* and a *Future* meet only in the shared state. A *chain* is many such states,
each the promise side of the next: what one thread completes may run, inside its
`set` call, the whole rest of the chain. They do not know the event loop. A *socket* owns
the memory of its operations and lends it to the *Service*, in whose *OperQueue*s the
operations wait, for a descriptor or for the call of their handler; the loops of the
*read operations* are what happens when the Service lets one advance. The *mutexes* are
used by everything that lives in shared memory; for the models what they protect is one
datum that is either clean or dirty; `RobustMutex` and the emulation in
`InterprocessMutex` implement the same abstract lock. A *transaction* is used by one thread
at a time, and meets the others in the DB: in the read locks that keep versions alive, in the
write mutex, and in the history, which it reads while others extend it at one end and trim
it at the other.

## 2. The modules

| module | is | uses |
|---|---|---|
| `OneShot` | abstract: one producer settles one outcome, one consumer is answered with it | |
| `SharedState` | one shared state, one promise side, one future side | implements `OneShot` |
| `FutureChain` | an asynchronous loop of `then()`s, a thread per operation | implements `OneShot` as a whole |
| `CrashLock` | abstract: a lock whose clients may die inside, and what they leave behind is repaired | |
| `RobustMutex` | the mutex, the guard and the condition variable | implements `CrashLock` |
| `Fifo` | abstract: queues as sequences | |
| `OperQueue` | queues as rings | implements `Fifo` |
| `InterprocessMutex`, `MCInterprocessMutex` | the emulation of a robust mutex by files | implements `CrashLock` |
| `Snapshots` | abstract: readers of versions, one writer at a time | |
| `Transaction` | transactions that go on from version to version | implements `Snapshots` |
| `Subscribable` | observers and their tokens | |
| `AsyncOper`, `MCAsyncOper` | operations between their sockets and the Service | |
| `StreamRead` | the loops of the read operations | |
| `FutureChainInv` | the inductive invariants of the chain, `IInv`, `Delivery` and `Lineage`, and what they ask of a step | extends `FutureChain` |
| `*_proofs` | theorems | extend the module they are named after |

The abstract modules are what a user of the component may rely on; they contain
nothing of how it is done. A module has one action per step of the code, named as the code
names it, where a *step* is as much as other actors cannot see the middle of:

* **`SharedState`.** A step is one atomic operation, or one access to members that are not
  atomic. `producer` and `consumer` are the program counters of the two sides. `exchange`,
  `call_callback`, `test_cv`, `lock_to_notify`, `notify_all`, `unlock_after_notify` are the
  lines of `transition_to_finished()`; `emplace_cv` to `unlock_cv` those of `wait()`;
  `inline` to `run_callback` those of `general_impl()` as `get_async()` calls it. `m_data`
  and `m_status` are separate, because a moved-from value is still engaged, and what is
  given to a callback is decided by the one on one path and by the other on the other.
  Holders are counted, since any copy may be the one that `get_promise()` empties.
  `settled`, `seen` and `runs` are history.

* **`FutureChain`.** The program is `loop(k) = operation(k).then(step)`, where `step`
  returns a value, throws, or returns `loop(k + 1)`: the program the
  just-for-continuation protocol was written for. `called_on` is what calls the step: with
  outcomes of one kind it is `then` (or `on_error`, which is `then` with the kinds
  exchanged), with both it is `on_completion`. Each thread is a stack of calls, innermost first, as
  `set` calls a callback that calls `loop` that calls `then` that calls a callback. A step
  is as in `SharedState`; condition variables are left to that module. `Ready` stands for every
  Future that has its outcome when it is made; that of `make_ready(Status)`
  (`future.hpp:644-649`) has a state of its own that is finished, which comes to the same. `Released` is what
  dropping a reference deletes, down the chain. `expected` and `delivered` are history.

* **`RobustMutex`.** `low_level_lock` is the POSIX contract: the mutex, and whether the last
  owner died. `recover_func`, `recover_func_throws`, `mark_as_consistent` and `give_up` are
  the steps of `lock()` and of its catch clauses. `wait` and `wake` are `CondVar::wait`,
  which goes through the same recovery. `begin_update` and `end_update` are the
  application's, and `die` may happen between any two steps. `op` tells whether what is
  thrown leaves `lock()` or unwinds a caller that believed to have the mutex.

* **`OperQueue`.** `m_next` and `m_back` are the links; `held` has the operations that a
  `LendersOperPtr` owns outside of the queues, the precondition of putting one in, and `live`
  counts how often an operation was constructed and not recycled. That an operation that is
  held is not linked, which `push_back()` asserts (`network.hpp:1649`), is not presumed: the
  refinement maps to what `Fifo` calls held those that are held and not linked. `Contents`
  reads a ring as a sequence, which is the rest of the refinement mapping.

* **`AsyncOper`.** `oper` is the memory of each slot (`m_read_oper`, `m_write_oper`):
  deleted, an `UnusedOper`, or in use. `lent` is what the Service does with it. A step is a
  call, or an action of the event loop: one thread at a time uses a Service. `initiate` and
  `alloc_throws` and `initiate_throws` are the ways `alloc()` followed by `initiate_oper()`
  ends; `destroy` is the destructor of the socket with `OwnersOperDeleter`; `execute` is
  `recycle_and_execute()`. `running` is the handler; handlers may do all that programs may.

* **`StreamRead`.** A byte is its position in the input, so that the model notices one that
  is lost or comes twice; of its value only whether it is the delimiter. `initiate` and
  `initiate_buffered` are the `initiate()` of the operations and the beginning of the
  synchronous functions; a turn of the loop of `advance()` and its kin is one step
  (`advance`, `advance_buffered`, `read_sync`, `buffered_read_sync`). Between turns the peer
  may send. `do_read_some_async` is the set of results the three streams can give. A synchronous
  read over SSL that is told to try again (`network_ssl.hpp:970-977`) is
  `try_again_sync`; it is an error to its caller.

* **`InterprocessMutex`.** A file is an inode, and `path` is the one that the name leads to:
  another may have taken its place between `find_nothing` and `open`, which are under one
  lock of `s_mutex`, as that is a mutex of the process only. `get_unique_id_throws` leaves the
  instance without a `LockInfo`. `info` and `info_map` are
  `m_lock_info` and `s_info_map`; a `LockInfo` that no `info` points to is destroyed by the
  `free_lock_info` that let go of it. `find_shared` to `open_throws` are the ends of
  `set_shared_part()` by name, `share_file` that by file. `local_lock` and `file_lock` are the
  two locks of `lock()`, `try_succeeds` and `try_fails` (which is also a file lock that throws)
  those of `try_lock()`, `unlock` and `local_unlock` those of `unlock()`; `die` takes all that a
  process had.

* **`Transaction`.** One step is a line of `promote_to_write()` or of
  `internal_advance_read()` that the others can notice, or a portion that
  `ChangesetInputStream` fetches from the history (`observe`, `advance_transact`). `bound` and
  `new` are the versions of `m_read_lock` and of `new_read_lock`, whose guard unwinds in
  `Unwinds`; `group` is the version that the accessors are at, with none if an exception left
  them torn; `begin` is where the stream is. `locks`, `writer`, `latest` and `snapshots` are
  the DB's. The actions of the last section are what other calls do to them, from what the
  headers say.

* **`Subscribable`.** `subscribe` is the insertion under `s_token`, `subscribe_returns` the
  making of the token. `key`, which is no member of a token, remembers where its observer is.

`PROJECT.json` maps every definition to its lines (`map`).

## 3. The runs

| run | module, configuration | distinct states | shows |
|---|---|---|---|
| `shared_state` | `SharedState`, `SharedState.cfg` | 1,806 | race freedom, counting, one outcome, one call, no lost wakeup, `OneShot` |
| `future_chain` | `FutureChain`, `FutureChain.cfg` | 183,654 | loops of `then` and of `on_completion`: no race, no use after free, no leak, no chain that grows, one delivery, `OneShot` |
| `robust_mutex` | `RobustMutex`, `RobustMutex.cfg` | 2,692 | consistency, no silent damage, finality, freedom again, `CrashLock` |
| `robust_mutex_guard` | `RobustMutex`, `RobustMutex_guard.cfg` | violation | a guard around a wait that throws unlocks twice |
| `interprocess_mutex` | `MCInterprocessMutex`, `MCInterprocessMutex.cfg` | 231,522 | one `LockInfo` per process and file, `CrashLock`, and somebody gets in |
| `transaction` | `Transaction`, `Transaction.cfg` | 245,445 | history and versions are there, locks are accounted for, accessors are where they should be, `Snapshots` |
| `subscribable` | `Subscribable`, `Subscribable.cfg` | violation | a token is not its observer's key |
| `oper_queue` | `OperQueue`, `OperQueue.cfg` | 5,016 | rings are FIFOs |
| `async_oper` | `MCAsyncOper`, `MCAsyncOper.cfg` | 27,820 | ownership, order, cancellation, and every canceled operation has its turn |
| `async_oper_recycle` | `MCAsyncOper`, `MCAsyncOper_recycle.cfg` | violation | an operation that could not be initiated fails an assertion |
| `stream_read` | `StreamRead`, `StreamRead.cfg` | 107,440 | order, assertions, truth of the answers, and that they come |
| `stream_read_end` | `StreamRead`, `StreamRead_end.cfg` | violation | bytes and end of input together fail an assertion |

### The properties

*SharedState.* `NoDataRace` is the comment of `future.hpp:347-358` made precise: the
members that the next step of each side touches never collide. `DeletedByLastOwner`: the
count is 0 exactly when nobody is left. `OnlySettledSeen`: `get()` and callbacks are given
what was settled and nothing half-written or moved from. `CallbackExactlyOnce` is about the
race of `exchange()` and `compare_exchange()`. `NoLostWakeup`: a sleeping `get()` has its
notification still to come, spurious wakeups or not. The liveness of `OneShot`
(`get()` returns, a callback is called) holds unless the last holder has died with the
promise in it.

*FutureChain.* `NoDataRace` includes the one place where a side reads members of a state
that is not its own, `bypass_output`, which is right only because
`m_is_just_for_continuation` is published after that and tested before. `NoUseAfterFree`
and `NothingLeaks` are the two directions of counting in chains where states are taken out
of the middle. `DeliveredOnce`: the final callback is given the outcome of the round that
ended the loop, once. `ShallowChains`: a state that is finished has at most two
others behind it, the output of its round and that of the first, however many rounds there
were; without the bypass there is one more each round, and `transition_to_finished()` counts
them up to 32 (`future.hpp:311-325`). The exception, which the property names, is a round
whose operation completes while the round before is still hanging it up.
`ImplementsOneShot`: a user cannot tell the loop from one promise.

*RobustMutex.* `CriticalIsConsistent`: whoever comes out of `lock()`, `try_lock()` or
`wait()` is alone and finds whole data. `DamageIsKnown`: half-made updates are being made,
or known to the mutex; marking before recovering would break it. `OnlyFailedRecoveryIsFinal`
(`thread.hpp:234-236`), `FreedAgain` and `ImplementsCrashLock` say what users see.

*InterprocessMutex.* `LockInfoShared` is the comment of `interprocess_mutex.hpp:146-148`,
and more: nothing in the map has expired, so that `lock()` on a weak pointer
(`interprocess_mutex.hpp:254`) never gives a null `m_lock_info`; and the file is the one that has the name.
`ImplementsCrashLock` is mutual exclusion, with death; `SomebodyGetsIn` says that whatever
held one of the two locks, and died or failed, does not keep the others out.

*Transaction.* `HistoryIsThere` is the comment of `transaction.hpp:500-508` with the
precondition of `cont_transact_hist.hpp:59-67`: at no step does the history that is still to
be read begin later than `begin`. `Accounted` says who has which read lock and the write
mutex, whatever has thrown of what the code marks "Throws". `AccessorsAtBound` is the comment of
`transaction.hpp:494-495`. `ImplementsSnapshots` is isolation.

*AsyncOper.* `MemoryHasOwner`: no leak and no use of memory without owner, through reuse,
exceptions and destruction. `NeverAdvancedTooLate` and `QueuedOnce` are what `advance()` and
`recycle_and_execute()` assert. `AbortedIffCanceled` is `network.hpp:98-104`: cancellation
counts until the handler starts, even for operations that are complete. `HandlerHasItsTurn`:
operations started over and over by handlers do not starve a canceled one.

*StreamRead.* `InOrder`: what callers were told of, what has been placed for the operation
in progress and what was read ahead, in this order, is what the stream has handed out,
through cancellation, errors and changes between ways of reading. `AdvanceFindsRoom` is what
`advance()` asserts. `AnswerIsRight` is the contract of `network.hpp:997-1007` and
`1039-1041`. `Answered`: an operation does not wait when what it needs is there.

Each of these is broken by at least one small change of the code that somebody could have
made (`mutants` in `PROJECT.json`; the changed actions stand in a section of each module): a
dropped early return, a forgotten reference, a test after a publication instead of before.
That keeps the properties honest: none holds by the shape of the model.

### Bounds, and why they are enough

* `SharedState`: two values and two errors, as outcomes are only compared and one error is
  `BrokenPromise`; two holders, so that one can die while another lives. The theorems are
  for any number.
* `FutureChain`: `N = 3` rounds. The output of the first round is ordinary, that of the
  second is just-for-continuation, and the third is the first to find such an output and
  bypass it; with two rounds `bypass_output` is never taken.
* `RobustMutex`: three threads: one dies, one recovers, one waits.
* `InterprocessMutex`: two instances in one process and one in another: what is shared within
  a process meets what is not. Two files, so that one can be removed while it is in use and
  another created under its name; a `LockInfo` for each instance.
* `Transaction`: two transactions, so that one commits, and trims, while the other reads; four
  versions and portions of two changesets: an advance by three takes two portions, and there
  is room for a commit between any two steps.
* `Subscribable`: two subscribables, four subscriptions.
* `OperQueue`: four operations in two queues: rings of two can be joined, so that neither
  of the swapped links is a ring of one.
* `AsyncOper`: two operations of a socket and one of another that must not be touched.
* `StreamRead`: a read-ahead buffer of two bytes, buffers and input of up to three: the
  caller's buffer can be smaller than, equal to and larger than the read-ahead buffer, and
  an operation can take three turns. One renegotiation, between any two steps. The input is
  bounded, the number of operations is not. Secure Transport is left to
  `stream_read_end`, as nothing is claimed beyond the assertion that fails.

`CHECK_DEADLOCK FALSE` is said where the system really stops: both sides gone
(`SharedState`, `FutureChain`), all threads or processes between two calls with no more
versions (`Transaction`) or subscriptions (`Subscribable`) to make, everything destroyed (`AsyncOper`), the input ended with a
reader that has stopped reading (`StreamRead`).

### Fairness, and what justifies it

* `SharedState`: the scheduler runs a thread that is inside a call: weak fairness of
  `Transition`, `Wait`, `Attach` and `consumer_release`. A program sets its promise sooner
  or later, though it may meanwhile move it into holders and out again: strong fairness of
  `Settle`, weak of `get_promise`. Nobody is obliged to ask, copy, or drop, and spurious
  wakeups need not come.
* `FutureChain`: weak fairness of each thread: operations are completed some time.
* `RobustMutex`: a thread that recovers or updates finishes that (weak: nothing can disable
  it but its death), and one that is in its critical section leaves it rather than wait and
  update for ever (strong on `unlock`, as waits and updates come between). Nothing is
  assumed of who gets a free mutex, and nobody is promised to.
* `InterprocessMutex`: a call that can go on does (weak), and an instance that has the mutex
  unlocks it or dies. Strong on `file_lock` together with `try_succeeds`: the operating system
  does not refuse a file lock for ever to a process that could have had it over and over. Nobody is promised the local
  mutex, so the property is that somebody gets in.
* `AsyncOper`: calls end, handlers return, and somebody runs the Service (strong, as each
  of them is disabled by calls that are in progress). Sockets need not become ready.
* `StreamRead`: a loop that can turn turns; the event loop notices readiness and executes
  what is complete; what SSL has to write can be written. None on the peer.

## 4. The proofs

TLC's answers are for the bounds above. The theorems are for all constants that satisfy the
assumptions that the modules name. In each proof module an inductive invariant `IInv` is
shown to hold initially and to be kept by every step, one named step per action, and the
properties follow from it.

**`SharedState_proofs`** (`ResultAssumption`, `MaxHoldersAssumption`): `TypeCorrect`,
`RaceFree`, `Reclaimed`, `OneOutcome`, `CalledOnce`, `WakeupKept`, and `Refinement`: every
step of the hand-over is a step of `OneShot` or stutters. The properties are not inductive
alone, because they do not say why the two sides keep apart. `IInv` says it in six parts:
the types; `Counted`, how many references there are by where the two sides are; `HandOver`,
which places of one side exclude which of the other, given `m_state`; `PayloadInv`, where
the stored outcome is until somebody has taken it; `CallbackInv`, who still has to call; and
`MutexInv`, who holds the mutex of the condition variable, and so where a sleeper can be.

**`FutureChain_proofs`** (`NAssumption`, `CallingsAssumption`): `UseAfterFreeFreedom`,
`LeakFreedom`, `DataRaceFreedom` and `TypeCorrectness`, for any number of rounds, each with a
thread, and any kinds of callbacks; all follow from `Correctness`, that `IInv` always holds.
`DeliveryCorrectness` (`DeliveredOnce`) and `OneShotRefinement` (the chain implements the safety
part of `OneShot`) follow from `DeliveryInvariance`, that `IInv /\ Delivery` always holds, and
`ChainShallowness` (`ShallowChains`) from `LineageInvariance`, that `Lineage` does so as well.

Stacks of any depth are hard to reason about as sequences, so they are seen as *places*
(their definitions, like the invariants', are in `FutureChainInv`): `Frame(p)` is the call
that thread `p[1]` has at height `p[2]`, counted from the outermost, and `Given(f)` at height
0 is the Future that has been returned and not been taken. A step of a thread then changes the call of one place, and fills or clears the place above it and
place 0; a lemma each (`Replacing`, `Pushing`, `Leaving`) says so for the shapes of
`Becomes`. Four relations say what a call has to do with a state: it has a reference to it
(`Held`), may leave its callback or is its callback (`Uses`), or will see to its result
(`Makes`); a state `Feeds` another if it will pass its result on. `IInv` says:

* what calls there are and which is on top of which (`Proper`, `Shape`), and that a round
  starts when the result of the operation before has been taken (`Rounds`, `Creation`);
* that at most one call uses a state, at most one call *or* state makes its result, and at
  most one call holds an output (`OneUser`, `OneMaker`, `OneHolder`): this is the ownership
  by state of `future.hpp:347-358`, and what m_callback and the result are by then
  (`Results`);
* that an output passes its result on to one made before, and that an output that is
  just-for-continuation has somewhere to pass it on to as long as it is `Live`
  (`Continuations`, `Hooked`). This is what makes `bypass_output` right: whoever sees
  the flag sees the continuation, and nobody else is going to touch it;
* that `m_refs` is the number of calls, operations and outputs that refer to the state and
  exist themselves (`Counts`, with `OperationCount` and `OutputCount`), where of each of the
  three kinds there is at most one;
* that what is passed on along continuations inside one `set` call is kept from being deleted
  by calls further down that stack (`Kept`). Counting alone does not say this: the state that
  counts an output may be on its way to being deleted.

A step is split into what it does to the calls and what it does to the states: the calls'
part of `IInv` is shown once for any step that puts a call `c` in the place of `b`, a call
`a` on top of it and returns `r`, from what the three have to do with states before and after
(`Confined`, `UserStep`, ...; all of them are `Lawful`); the states' part once for each of the ways states change
(marking, handing over, making, giving up a reference). Each of the 31 actions is then shown
to be of one of these kinds. The deletion of a chain is the one step whose effect has no
bound: `Released(s)` is taken from its definition as a least set (`Releases`): every state in
it but the first is the continuation of a deleted one, so that the counts of those deleted
and of the one after them come out right.

`Delivery` is about the way of the outcome from the round that ends the loop to the callback.
`Located`: as long as there is no outcome, a round is about to begin or the result of an
operation has not been taken (`Pending`); from then on neither is the case, and the outcome is in
exactly one place, a ready Future that a call has (`Carriers`), the result of an output
(`Stores`), or `delivered`. `Attended`: no state is left alone; one whose result has not been
moved and that nobody waits on has a call that uses it, and one that is not finished, of the
outputs those that hold the outcome, has a call that will see to that. Without it the second
half of `DeliveredOnce` could not be had: when all is quiet there are no calls, so no state can
hold the outcome, nothing is pending, and `delivered` is all that is left of `Located`. `Asked`:
`get_async()` leaves the final callback only once. Each of the 31 actions takes the outcome out
of one place and puts it into another, or leaves it alone (`Hands`, `Idle`: `CargoStep` in the
lemma of the action); that `Located` is preserved is then shown once. The refinement takes the
same facts: `expected` is set once, from "none" to an outcome, while nothing is delivered
(`Visibly`), and the user is in `loop()` until its Future is taken (`Away`).

`Lineage` says why a chain does not grow with the rounds. As long as no round was overtaken,
outputs pass their results on to the first output that was made, that of the whole loop, and
to no other (`Flat`; `overtaken` is a history variable, set when an output is tested while
another round is still under way). An output that a call keeps and that is not the first was
returned to a call inside the callback of another round (`Kin`), because a round that is inside
none is the first to make an output (`Nested`); and an output has the mark
`m_is_just_for_continuation` before it gets the callback `fill_from` (`Marked`). So an output
that is tested while no other round is under way is marked, and is bypassed in favour of the
one that it leads to, or is the first (`TestedAlone`; that somebody keeps it, or has left a
callback with it, is `Attended`). The bound follows: a finished state has behind it at most
one output and the first (`Path` for the recursive function in `Behind`, then `Few`).

No access to what has been deleted: `Firm(t, s)` says that there is a set of states with `s`
in it each of which a call of `t` owns or another one in the set leads to; such a state has
references, and what a step touches is firm. No race: what a step writes it has a right to by its call (`RightTo`),
two threads have no right to the same member (`OneRight`), and what a step deletes no other
thread has firm (`Apart`). No leak: what refers to an output when all is done is a state made
later, and there is a last one (`Greatest`), so that nothing is left.

**`RobustMutex_proofs`** (`NobodyAssumption`): `TypeCorrect`, `Consistent`, `NoSilentDamage`,
`FinalOnlyByFailure`, and `Refinement`, which is the very formula the run checks: `CrashLock`
has no liveness. `IInv` adds to the types who has the mutex (`HasIt`: exactly the thread
that is between locking and unlocking), what it was told (`Told`: a thread that recovers
holds an inconsistent mutex, one that does not holds a consistent one) and what that means
for the data (`Clean`).

**`AsyncOper_proofs`** (`SlotsAssumption`, `FiniteAssumption`): `NoMemoryWithoutOwner`,
`AdvancedInTime`, `CancelableToTheEnd`, `QueueKept`, `TypeCorrect`, for any number of sockets.
`IInv` is one relation per slot, `Agrees`, between its memory, its loan, its socket and what
was asked of it, so that each step is looked at for the slots it touches and for those it
does not. `QInv` adds the queue: it holds exactly the slots whose loan says completed, none
twice. What completes was not queued before, since its memory was free or the operation
suspended, and what is canceled is queued only if it was suspended. With it go lemmas about
sequences without repetition that are appended to, joined and shortened.

**`Transaction_proofs`** (`FiniteAssumption`, `NobodyAssumption`, `VersionAssumption`):
`TypeCorrect`, `LocksAccounted`, `HistoryKept`, `AccessorsKept`, and `Refinement`, the formula
that the run checks, for any finite set of transactions and any number of versions. `IInv`
adds to the types and `Accounted` where a call is and what it has set up by then (`InCall`,
`InOrder`, `Accessors`), and that every version in use is kept (`Kept`). Who writes is bound
to the latest version, because whoever else would commit would have the write mutex; and the
version that a transaction leaves is locked until it has arrived at the next, so that the
changesets between the two remain. That locks are counted right is shown with the cardinality
of the set of transactions at a version (`CountMoves`, `LocksFollow`).

**`InterprocessMutex_proofs`** (`HomeAssumption`, `NoneAssumption`): `Shared`, and
`MutualExclusion`, the formula that the run checks, for any number of processes, instances,
`LockInfo`s and files. That the local lock and the file lock exclude everybody is only true
if all who can be in `lock()` agree on the file and, within a process, on the `LockInfo`.
`IInv` says that: `Bindings` (who is bound has the `LockInfo` that its process has in the
map, for the file that has the name), `Owners` (a `LockInfo` belongs to one process, and one
that was never entered to one instance), what the local mutex and the file lock then say
about who holds what, and that nothing in the map has expired.

**`Subscribable_proofs`**: `ObserverKept`. Although a token may have another value than its
observer's key (section 5), no token takes the observer of another away: of one subscribable
the intervals from key to value are disjoint and in the order of the calls, and that is the
invariant.

**`StreamRead_proofs`** (`StreamsAssumption`, `SizesAssumption`): `ReadsInOrder`, for buffers
and inputs of every size, over a socket and OpenSSL. `InOrder` is inductive only with two
facts more: an operation that is under way has found the read-ahead buffer empty (otherwise
bytes from the stream would overtake bytes read ahead), and there are never more bytes in a
caller's buffer than fit (otherwise a negative number of bytes would be asked for).
The lemmas at the beginning are about sequences of consecutive numbers that are cut and
joined, and about what `ReadAheadBuffer::read()` moves. Secure Transport is excluded because
the theorem is false for it: a synchronous read drops the bytes that come with the end.

The module goes on, under the same assumptions, with `FindsRoom`, `AnswersRight`,
`TypeCorrect`. `Sound` says for an input what an operation that goes on has
(`Roomy`) and what one that is complete tells (`Right`, `AtEnd`); that more input, or the
loss of what has not been taken, changes neither is so because everything placed has been
taken, which follows from `InOrder`. The heart of it is `RabReadAnswers`: the number of bytes
that `ReadAheadBuffer::read()` moves is the place of the first delimiter, if there is one
(`Upto`, a counting argument in place of an induction), so that what it has moved has no
delimiter or one at its end. `Sized` adds the sizes of the buffers.

Only model-checked are: everything with `~>` or fairness, as the prover does not do ENABLED
(`ImplementsOneShot`, `SomebodyGetsIn`, `FreedAgain`, `HandlerHasItsTurn`, `Answered`; for
`SharedState` and `FutureChain` the refinement theorems are therefore about the safety part of `OneShot`);
and `OperQueue`, whose refinement mapping is a recursive function over a ring, about which
nothing can be said without induction.

## 5. Where the code disagrees with itself

Each of these has a run that ends in a counterexample, and an entry under `findings`.

* **A guard unlocks twice** (`robust_mutex_guard`). `CondVar::wait()` throws with the mutex
  unlocked (`thread.hpp:771`); the `RobustLockGuard` in the caller unlocks it again, and the
  assertion of `thread.hpp:559` fails.
* **A failing `initiate()` ends the program** (`async_oper_recycle`). It may throw
  (`network.hpp:2335`); the operation is then recycled with its socket alive, and
  `recycle()` asserts that it is orphaned (`network.hpp:2296`). The operations of the resolver
  and of timers have the same pattern. The model goes on after the failed assertion, as a
  build without assertions would.
* **Bytes that come with the end** (`stream_read_end`). Secure Transport hands out the last
  bytes together with `end_of_input` (`network_ssl.hpp:1330-1331`, `1390-1394`), against
  `network.hpp:2096-2097`; `advance()` asserts that this does not happen
  (`network.hpp:2373`). `refill_sync()` (3571) and the synchronous `read()` (2178), which
  drops the bytes, make the same assumption; `refill_async()` (3587) does not.

* **A token for another observer** (`subscribable`). `subscribe()` uses `s_token` twice
  (`subscribable.hpp:118-119`) and the mutex that it holds is one of many that do: the token
  may have a later value than the key, against "a token identifying the observer"
  (`subscribable.hpp:113`), and then it does not unsubscribe it.

## 6. Abstractions and limits

* **Memory model.** Atomic operations are sequentially consistent, and accesses that are not
  atomic are steps, whose collisions are what `NoDataRace` forbids. With that the weaker
  orders that the code uses (acquire, release, acq_rel on `m_state`; acquire and release
  pairs on the flag) cannot be told from it; a wrong choice of memory order would not be
  found.
* **External code.** POSIX mutexes and condition variables, from the contract documented with
  `low_level_lock()`, `try_low_level_lock()` and `mark_as_consistent()`; only platforms with
  robust mutexes are modelled. That a timed wait reports a dead owner rather than the timeout
  is taken as given. `Service`, `SocketBase::cancel()` and `Descriptor::read_some()` are
  modelled from what the headers document and assert; so `SocketBase::cancel()` passes by what is
  canceled already, which `AsyncOper::cancel()` asserts (`network.hpp:2721`). Of `ReadAheadBuffer::read()` the headers
  have only the declaration: that it sets the error code exactly when it is complete is
  inferred from its uses.
* **Files and the DB.** `file.hpp` says that locks on distinct `File` instances have "fully
  recursive behavior", also in one process: the model takes the weakest reading, that a file
  lock excludes other processes only, and that one instance's lock is its own. Of the DB,
  which versions are kept, when the history is trimmed and who is given the write mutex are
  taken from the headers (`cont_transact_hist.hpp:59-67`, `transaction.hpp:500-508`).
* **What is right only as documented.** The precondition of `release_shared_part()`, that
  nobody else uses the mutex (`interprocess_mutex.hpp:98-99`), is a guard: without it the
  others go on with a file that has lost its name. When the last copy of a
  `CopyablePromiseHolder` dies (`future.hpp:567`) and nobody called `get_promise()`, its
  promise is lost and a `get()` blocks for ever; the liveness of `OneShot` is claimed where
  that does not happen (`Lost`). A `promote_to_write()` that throws late leaves the
  accessors writable in a transaction that reads; no comment says that it does not. What is not
  marked "Throws" is taken not to, loggers among it: one that throws while
  `promote_to_write()` logs (`transaction.hpp:372-376`, `407-410`) would leave the write mutex
  taken by a transaction that reads, and one that throws at `458-460` a transaction in the
  writing stage without the mutex. That `rollback_and_continue_as_read()` has reset the
  tracking of free space (444) when it throws at 451 is not seen, as free space is not modelled.
* **Data.** Values, errors, handlers and bytes are told apart only as far as properties do.
  Failures of allocation are modelled where they leave something behind (`alloc_throws`).
* **Left out of modelled parts.** `ignore_value()`, `Promise::set_from(Future)`, the wrappers
  for `void` and `StatusWith`; frozen transactions, copies, and asynchronous commits;
  `InterprocessCondVar`, which is only declared; copying `Subscribable`s, which leaves
  observers without tokens, and calling the observers, which is done on a copy; `PostOper`, `TriggerExecOper`; write operations, whose loop is that of
  `read()` over `do_write_some_async()`; handshake and shutdown.

## 7. The plan

Done: the hand-over, the chains, the robust mutex, the rings, the life of operations,
reading, the emulated mutex, observers, and transactions, in this order. Next:

1. Write operations, timers, the resolver, `PostOper` and `TriggerExecOper`: the same life as
   `AsyncOper` with other rules for memory; composing `AsyncOper` with `StreamRead`.
2. Asynchronous commits of `Transaction` (`HasCommits`, `Syncing`), as far as
   `transaction.hpp` and `db.hpp` determine them.
3. Pure algorithms against reference definitions over bounded inputs: `safe_int_ops.hpp`
   (overflow at every width), `index_set.hpp` (shifts of ranges), the parser of `http.hpp`.

### Not modelled, and why the rest is large

Nearly all of the lines of the repository are declarations whose implementations are in
libraries that are not here (storage, sync, object store, the Objective-C interfaces), value
types and expression templates without state of their own (`json.hpp`,
`query_expression.hpp`, `query_engine.hpp`, `variant.hpp`), and vendored headers. What a
specification can be translated from is the inline code that keeps state, and of that the
parts listed above.
