# A TLA+ model of the Phalcon framework

Phalcon is a PHP framework written in Zephir (`src/phalcon/**/*.zep`), translated
to C (`src/ext/phalcon/**/*.zep.c`), which is what the build compiles
into a PHP extension. A PHP process handles one request at a time, so there are no
threads, and other processes are met in files and in databases only. What is hard is elsewhere: objects that several callers share without
knowing of one another (a connection, a container, a manager), callbacks that
re-enter the caller (listeners, hooks, nested `save()` calls), exceptions that
leave several calls at once, a database server that refuses, and state that
outlives a failure because the object does.

Contents: [inventory](#inventory), [modules](#modules-and-code),
[runs](#what-the-runs-check), [bounds](#bounds), [fairness](#fairness),
[proofs](#what-is-proved), [divergences](#where-code-and-text-disagree),
[what is not modelled](#what-is-not-modelled), [plan](#plan).

## Inventory

For each part: its state, its operations, whom it talks to, what is hard, what
makes it correct. Paths are relative to `src/phalcon/`.

| Part | State | Operations | Talks to | Hard | Correct when |
|---|---|---|---|---|---|
| **Connection** `Db/Adapter/Pdo/AbstractPdo.zep`, `Db/Adapter/AbstractAdapter.zep` | `pdo`, `transactionLevel`, `transactionsWithSavepoints`; the server's transaction and savepoints | `connect close execute begin commit rollback setNestedTransactionsWithSavepoints` | PDO; `db:beforeQuery` listeners | one counter for callers who nest with different arguments; level changed before the server answers; savepoint names reused | counter and session agree; nothing durable inside a scope; scopes nest |
| **Transaction manager** `Mvc/Model/Transaction.zep`, `Mvc/Model/Transaction/Manager.zep` | list, count, shutdown hook; per handle its connection and flags | `get has commit rollback collectTransactions`; on a handle `begin commit rollback getConnection` | container, connections, the PHP shutdown function | stale handles, loose comparison of objects, client abort, an exception out of the walk over the list | list and count agree; blocks are all or nothing; shutdown leaves nothing open |
| **Model** `Mvc/Model.zep` | `dirtyState`, `dirtyRelated`, `related`, `uniqueKey`, `skipped`, snapshots | `save exists preSave postSave preSaveRelatedRecords postSaveRelatedRecords delete refresh` | connection, metadata, models manager, listeners, itself for related records | recursion through a graph, failures below, retries on objects that remember too much | all rows or none; levels balanced; keys refer to rows |
| **Dispatcher** `Dispatcher/AbstractDispatcher.zep`, `Mvc/Dispatcher.zep` | `finished`, the route, `activeHandler`, `lastHandler`, `handlerHashes`, `isControllerInitialize` | `dispatch forward` | container, events manager, handlers, model binder | every hook may forward, cancel, throw; the loop; hashes of freed objects | terminates, follows forwards, initializes once and before an action |
| **Bulk operations of result sets** `Mvc/Model/Resultset.zep` | position, a `transaction` flag local to the call | `delete update` | Model, connection | one row refuses after others were written | all or nothing, level balanced |
| **PHQL execution** `Mvc/Model/Query.zep` | parse cache, bound parameters | `execute _executeInsert _executeUpdate _executeDelete` | Model, connection, metadata | begin/rollback around a loop over records | as above |
| **Events manager** `Events/Manager.zep`, `Events/Event.zep` | priority queues, responses, `collect`, `enablePriorities`; an event's `stopped` | `attach detach detachAll fire fireQueue`, `Event::stop` | every component with events | listeners that attach, detach, stop, throw and fire while fired; queue objects that are shared and drained | whoever is due is called; stopped means stopped; responses are those of the call |
| **Container** `Di.zep`, `Di/Service.zep`, `Di/Service/Builder.zep` | services, shared instances, `resolved` | `set get getShared remove` | everything | resolution that re-enters; shared instance cached in two places | one instance per shared name |
| **ACL** `Acl/Adapter/Memory.zep` | roles, inheritance, components, access lists | `addRole addInherit allow deny isAllowed` | events | inheritance, wildcards, precedence | lookup equals a reference definition |
| **Session, flash, CSRF** `Session/Manager.zep`, `Session/Bag.zep`, `Flash/Session.zep`, `Security.zep` | session status, bag, token of this and of the previous request | `start destroy regenerateId`; `getToken checkToken` | PHP session, container | requests that interleave, use before start | a token is accepted at most once when destroyed |
| **Storage and caches** `Storage/Adapter/*.zep`, `Cache.zep` | entries with lifetimes, in files or at a server | `get has set delete increment decrement clear` | files, servers | concurrent requests on a file, requests killed while they write | an answer was true at some moment of the call; no call waits for ever |
| **Models manager, metadata** `Mvc/Model/Manager.zep`, `Mvc/Model/MetaData.zep` | registries, read-through cache | `initialize`, relation and metadata reads | storage, database | first use inside a callback | one initialization per class |
| **Logger** `Logger.zep`, `Logger/Adapter/*.zep` | queue, `inTransaction` | `begin add commit rollback` | files, syslog | commit outside a transaction | order kept, nothing twice |
| **View** `Mvc/View.zep` | render levels, output buffers | `start render finish` | engines, events | an exception between `ob_start` and `ob_end_clean` | buffers balanced |
| **HTTP** `Http/*.zep` | headers, cookies, `sent` | `send setCookie` | session, crypt | sending twice | sent once |
| **Applications, router, URL** `Mvc/Application.zep`, `Mvc/Router.zep`, `Cli/*.zep` | matched route | `handle` | dispatcher, view | none beyond matching | |
| **Formatting, validation, forms, assets, crypt, helpers, dialects** | data of one call | | | none | |
| **PHQL, Volt, annotation parsers; `ext/`** | generated automata | | | none | |

`PROJECT.json` lists every component with its status and all hazards with the
line where each bites.

## Modules and code

```
NestedScopes            what nested transactions promise (abstract)
    ^ refined by
DbTransaction  --uses-->  PdoConnection  <--uses--  TransactionManager
                               ^
                               +------uses------  ModelSave, ModelDelete
Dispatcher              (dispatch() with its container and hooks)
EventsManager           (fire() with the listeners it calls)
StreamStorage           (processes that share the files of the Stream adapter)

PdoConnectionProofs     lemmas about one connection, used by
    DbTransactionProofs, TransactionManagerProofs, ModelSaveProofs, ModelDeleteProofs
DispatcherProofs, EventsManagerProofs, StreamStorageProofs
MCDbTransaction, MCTransactionManager, MCModelSave, MCModelDelete,
MCDispatcher, MCEventsManager, MCStreamStorage   (for TLC)
```

**PdoConnection** is the connection object and the session behind it, as operators
on a record: `Begin(c, nesting, outcome)` returns the connection after `begin()`,
the effects that became durable and what the method returned. `level` is
`transactionLevel`, `savepoints` is `transactionsWithSavepoints`; `active`, `work`
and `points` belong to the server, as the code relies on it: DML joins the open
transaction, `COMMIT` without a transaction throws, a savepoint of a used name
replaces (MySQL) or shadows (PostgreSQL) the older one. `outcome` says what a
listener or the server answers: `ok`, `veto` (a `db:beforeQuery` listener returns
`false`, so `execute()` does), `fail` (PDO throws; a refused `COMMIT` has rolled
back), `busy` (a refused `COMMIT` keeps the transaction, as in SQLite). The
modules that hold connections use the same operators, hence the same code.

**DbTransaction** puts callers around one connection: each action is one call of a
public method. `opened`, the nesting arguments of the scopes that are open, and
`course`, whether anything has failed yet, are history variables. The callers call
anything in any order. `strayed` records that some caller has closed a scope with
another argument than it was opened with; the properties of callers who do not are
stated while `Lexical` holds, that is, until one strays or something fails.

**NestedScopes** is what a caller of properly nested `begin()`/`commit()`/
`rollback()` believes: a stack of scopes, hard (a rollback undoes exactly the scope)
or soft (a rollback undoes nothing by itself). `MappedStack` maps the counter, the
flag and the server's savepoints to that stack.

**TransactionManager** is the manager with every Transaction object it handed out.
A handle is an index into `heap`; callers keep all of them. The object's loose `==`
in `collectTransaction()` is equality of the fields that can differ
(`SameAs`); what that method does to the list when nothing is equal is `Collected`.
The walks of `manager.commit()` and `manager.rollback()` take one step per
transaction, because an exception may leave them and the client may abort between
two. `Shutdown` is the end of the script; it starts the walk of `rollbackPendent()`.

**ModelSave** is `save()` over a graph of attached records. The recursion is a
stack of frames: each action is the code between two nested calls. `start` is the
entry, `before` walks the belongs-to records (`preSaveRelatedRecords`), `alone` or
the end of `before` is the record's own turn (`exists`, `preSave`, `doLowInsert` or
`doLowUpdate`), `after` walks the children (`postSaveRelatedRecords`). An effect
`<<r, n>>` is the row of record `r` as the `n`-th `save()` call wrote it. Records
start new, with a key given by the application, or loaded; `Init` also covers what
attaching does to the dirty state of a loaded record, and related records that a
getter fetched (`cached`). `Verdicts` are the answers of validation and listeners;
`"throw"` is an exception from any listener, before the statement or after it, and
from a relation that cannot be saved. `joins` makes a record the intermediate one of
a has-many-to-many or has-one-through relation: a fresh instance, or the stored one,
saved directly after the record it leads to.

**ModelDelete** is `delete()` of a record and of a result set, in the same style. A
frame of a record is at `start` (restrictions, listeners, its own `DELETE`), `ones`
(cascading has-one relations) or `many` (the result set of its has-many relations);
a frame of a result set is `fetched` or `walking`, between its `begin()` and its
`commit()` or `rollback()`. An effect is the deletion of a row. What a cascade finds
is read from the connection at that point (`Fetched`), with all that the deletions
above have done.

The loop of a PHQL `DELETE` (`Query::_executeDelete()`) is the same `begin()`, loop,
`rollback()` and `commit()` around records; `call.kind` tells it from
`Resultset::delete()`, whose caller may pass a callback that leaves records out. A
PHQL `UPDATE` is that loop around `save()`, which `ModelSave` has as calls inside a
transaction of the application.

**Dispatcher** is the loop of `dispatch()`. `pc` is the place in the loop; each
step is one hook (an event, or a method of the handler) and the code up to the
next one. A hook has an outcome: how it ended (`on`, `false`, `throw` for an
Exception, `error` for a PHP Error, which `catch Exception` lets through) and
whether it called `forward()`. `ex` is what `dispatch:beforeException` answers if
an exception is offered to it. `Guarded`, `Unguarded` and `Proceed` are the three
forms of test that the code repeats after each hook; `Refuse` is
`throwDispatchException()`. Handlers are numbers, with the `spl_object_hash()` of
each one, because a freed hash is given out again.

**EventsManager** has one type of events and one event of it, so `fire()` looks at
two queues, the one of the type and the one of the event. `queues` are the
`SplPriorityQueue` objects, which PHP passes by reference: the array `events` and
the snapshot that each `fire()` took of it refer to the same objects, so a
`detach()` that takes the elements out of one takes them from the running call as
well. A frame is one `fire()` call with its event and the clone it iterates; only
the listener of the innermost frame, or the application when there is none, does
anything. `blundered` is the history of a `detach()` that threw; `due`, `late`,
`own` and `disturbed` record what a call still owes to whom.

**StreamStorage** is one entry of the Stream adapter, the processes that use it and
the files. Each step is one file operation, so that other processes act between
`file_exists()` and `fopen()`, between the lock and the read, and between the
truncation and the writing of `file_put_contents()`. A file is told from its path:
`flock()` locks the file that was opened, `file_get_contents()` reads the file that
the path leads to by then. Two neighbouring operations are one step where nothing
another process does can tell them apart; the comments say where. `Die` kills a
process anywhere; `WriteFailed` is a `file_put_contents()` that cannot open its file, or
cannot write all of it and leaves it torn, so that `set()` answers false. `store` is the entry as a reader who had it for himself would see it.

`PROJECT.json` "map" gives the lines of each definition, in the C files: these are
the implementation that is compiled, and the line numbers they quote in their
exceptions (`"phalcon/Mvc/Model.zep", 2497`) all agree with the `.zep` files beside
them, so one is the translation of the other. Findings, hazards and this text name the
`.zep` lines, which are the ones to read. Operators marked *Mutant*
are wrong variants of their neighbour, each a plausible slip; for every property of
a passing run one is listed for which TLC finds the property violated.

## What the runs check

Passing:

| Run | Question | Properties |
|---|---|---|
| `nested` | Callers that nest on one connection with any arguments, on both dialects, with vetoed savepoints, refused commands and dropped sessions: does the counter agree with the session, is anything durable inside a scope, is an open transaction always counted, and do callers who close what they opened get lexical nesting? | `TypeOK`, `SessionMatchesLevel`, `ActiveIsCounted`, `ScopesHaveSavepoints`, `DurableOnlyOutside`, `ImplementsNestedScopes` |
| `manager` | Stale handles, nested blocks and a client that aborts anywhere: does the count agree with the list; and for callers of listed handles, is `commit()` for good, is no block left open at the end of a request, and none committed by the manager in an aborted request? | `TypeOK`, `NumberIsCount`, `PendingIsListed`, `ShutdownRollsBack`, `CommitIsForGood`, `AbortStopsCommit` |
| `save` | One or two calls on each graph, in and out of the application's own transaction, refused or thrown out of anywhere: is the level balanced, are rows all or none, also to another session and after a crash in between, do references hold, does the recursion end? | `TypeOK`, `LevelBalanced`, `AllOrNothing`, `DurableAtOnce`, `AttachedAreStored`, `ReferencesHold`, `DepthBounded`, `WrittenParentSkipped` |
| `delete` | One or two deletions of a record, of a result set or by PHQL, likewise: is the level balanced, is a result set all or nothing, are there orphans, do restrictions hold, does a cascade come back to a record whose row it has deleted? | `TypeOK`, `LevelBalanced`, `BulkAllOrNothing`, `CascadeComplete`, `RestrictHolds`, `NoReentryOnceDeleted` |
| `dispatch_any` | Routes of every kind and hooks that do anything: does `dispatch()` end, follow every forward, initialize no object twice, and run no action before `initialize()` but for a reused hash or a refused route? | `TypeOK`, `NoForwardLost`, `InitializedOnce`, `InitializedBeforeAction`, `DispatchReturns` |
| `events` | Listeners that attach, detach, stop, throw and fire again while they are fired: is everyone called who is due, does `stop()` stop, are the responses those of the call, and is no queue in use deaf? | `TypeOK`, `NoneSkipped`, `StopSilences`, `ResponsesComplete`, `ListedQueuesDeliver` |
| `stream` | Two processes on one entry, with the clock running, writes that fail and processes killed anywhere: was each answer true at some moment of its call, does an undisturbed call do what it says, and does every call end? | `TypeOK`, `AnswersAreCurrent`, `AloneMeansDone`, `CallsReturn` |

The failing runs are under [divergences](#where-code-and-text-disagree).

`CHECK_DEADLOCK FALSE` stands in the configurations of the manager, of `save()`, of
`delete()`, of the dispatcher, of the events manager and of the storage: a request
ends (`ended`), a process dies, and the number of calls is bounded, so
these systems do stop. That nobody waits for ever in them is `CallsReturn`. The connection has no last state and is checked for deadlock.

### Bounds

* `MaxLevel`, `MaxPoints` (connection): 4 levels, 4 savepoints at the server.
  Three nested inner scopes are enough for a name to be used, left behind by
  `ROLLBACK TO`, used again, and released around another one. `MaxPoints` cuts
  PostgreSQL's growing list of shadowed savepoints; `BeginCall` is disabled there.
* `Effects`: three statements (`nested`) or two (`manager`), each run at most once, so that work before,
  inside and after an inner scope can be told apart. `Faults` are vetoes and failures;
  `busy`, with which `ActiveIsCounted` does not hold, is among the divergences below.
* `MaxTx` = 2: the list never has more than one entry (proved), so two objects give
  a listed and a stale handle. `MaxLevel` = 2 gives a nested block.
* `Shapes` (save): seven graphs of three records, a fan (a parent and a child), both
  directions of one association, two levels up, two levels down, a diamond, a
  record with another one through an intermediate record, and a record that two of its
  parents have attached, which comes back on the stack once below each of them.
  Graphs whose has-many or has-one records refer back to one another in a circle are
  excluded: `save()` recurses without end on them, since that path looks at no dirty
  state. So it does where parents do. `DepthBounded` is stated of all other graphs.
  `MaxCalls` = 2 allows one retry.
  `AttachedAreStored` and `ReferencesHold` speak of the first call, since a retry
  does not keep them (`retry_true`).
* `Shapes` (delete): five schemas of up to four rows, a chain, a has-one and a has-many
  relation, a restriction between two rows of one owner, two rows that own each
  other, and a diamond, where a set of records loses one to the cascade of another; each with every set of missing rows that the references allow. Two calls, so
  that a savepoint left by a rollback is used again. `MaxDepth` = 9 frames holds
  four records with the result sets before, between and after them, the longest chain
  of the shapes; one of two rows that own each other comes back twice in that depth,
  under a `DELETE` that was vetoed each time. It cuts: the code has no bound, and where
  every such `DELETE` is vetoed its recursion does not end.
* `Limit` = 4 rounds in place of 256 (dispatch): a forward away and back
  takes three. `MaxCalls` = 1: one `dispatch()` per request, as the applications
  make. With two calls `InitializedBeforeAction` fails: an exception
  that leaves `dispatch()` from `beforeExecuteRoute` keeps the handler in the
  container and its hash in `handlerHashes`.
* `AnyRoutes` has a good route, and for another class each way in which a route can
  be wrong: no class, no object, parameters that are no array, no action.
* `TransactionManager` models a MySQL session: savepoints inside manager blocks
  are not told apart there, and the two dialects are compared in `DbTransaction`.
* Events: three listeners, one of them without a method for the event, on two
  queues of at most two, because each hazard takes one listener that acts and one
  that suffers. `MaxDepth` = 2: a call and one fired inside it. `MaxChanges` = 4 is
  enough to attach under both keys, detach the last and attach again, which is how a
  queue gets deaf. `MaxQueues` = 4: a `detach()` needs a queue beside the two that are
  listed and one that a running call holds. Priorities are the default and a higher one.
  The four bounds cut; none of them is in the code.
* Storage: two processes and three calls between them, so that one may be in a call
  while the other makes two; one value, a time to live of 0 and a lifetime of 1, so
  that an entry can run out within the two ticks of the clock; four files, one more
  than the paths and processes can hold at a time.

### Fairness

* `Dispatcher!FairSpec`: weak fairness of `Step`, that is, hooks return. The limit
  on rounds, not fairness, is what ends the loop: the mutant that does not count
  rounds violates `DispatchReturns` under the same fairness.
* `StreamStorage!Fairness`: weak fairness of the file operations of each process: a
  request that runs goes on until it is killed. `flock()` itself is not fair, and
  readers could keep a writer waiting for ever; with a bounded number of calls the
  file is free in the end and stays so, and weak fairness is enough. What
  `CallsReturn` shows is that no lock outlives the call that took it.
* No other module states fairness. What must happen at the end of a request, that
  no block stays open, is the invariant `ShutdownRollsBack` of the state in which
  the walk of the shutdown function is over.

## What is proved

TLAPS checks these for all values of the constants:

| Theorem | Statement | Assumes |
|---|---|---|
| `DbTransactionProofs!TypeCorrect` | `Spec => []TypeOK` | the constants' assumptions |
| `DbTransactionProofs!CounterMatchesSession` | `Spec => []SessionMatchesLevel` | the constants' assumptions |
| `DbTransactionProofs!NothingDurableInside` | `Spec => DurableOnlyOutside` | the constants' assumptions |
| `DbTransactionProofs!ActiveTransactionIsCounted` | `Spec => []ActiveIsCounted` | no server that keeps a transaction whose `COMMIT` it refused |
| `DbTransactionProofs!SavepointsAreFound` | `Spec => []ScopesHaveSavepoints` | the constants' assumptions |
| `DbTransactionProofs!ConnectionImplementsScopes` | `Spec => ImplementsNestedScopes` | the constants' assumptions |
| `TransactionManagerProofs!ManagerCounts` | `Spec => []NumberIsCount` | the constants' assumptions |
| `TransactionManagerProofs!TypeCorrect` | `Spec => []TypeOK` | the constants' assumptions |
| `TransactionManagerProofs!CommitsCorrect` | `Spec => CommitIsForGood` | the constants' assumptions |
| `TransactionManagerProofs!PendingCorrect` | `Spec => []PendingIsListed` | the constants' assumptions |
| `TransactionManagerProofs!ShutdownCorrect` | `Spec => []ShutdownRollsBack` | the constants' assumptions |
| `TransactionManagerProofs!AbortCorrect` | `Spec => AbortStopsCommit` | the constants' assumptions |
| `DispatcherProofs!ForwardsAreFollowed` | `Spec => []NoForwardLost` | the constants' assumptions |
| `DispatcherProofs!InitializedAtMostOnce` | `Spec => []InitializedOnce` | the constants' assumptions |
| `DispatcherProofs!TypeCorrect` | `Spec => []TypeOK` | the constants' assumptions |
| `DispatcherProofs!InitializedFirst` | `Spec => []InitializedBeforeAction` | one `dispatch()` per request |
| `DispatcherProofs!StepsRunOut` | every step of a call lowers `Left`, a number up to `16 * Limit + 15` | the constants' assumptions |
| `ModelSaveProofs!TypeCorrect` | `Spec => []TypeOK` | the constants' assumptions |
| `ModelSaveProofs!LevelCorrect` | `Spec => []LevelBalanced` | the constants' assumptions |
| `ModelSaveProofs!AtomicCorrect` | `Spec => []AllOrNothing` | no server that keeps a transaction whose `COMMIT` it refused |
| `ModelSaveProofs!DurableCorrect` | `Spec => DurableAtOnce` | no server that keeps a transaction whose `COMMIT` it refused |
| `ModelSaveProofs!ReferencesCorrect` | `Spec => []ReferencesHold` | the constants' assumptions |
| `ModelSaveProofs!AttachedCorrect` | `Spec => []AttachedAreStored` | the constants' assumptions |
| `ModelSaveProofs!SkipCorrect` | `Spec => []WrittenParentSkipped` | the constants' assumptions |
| `ModelSaveProofs!DepthCorrect` | `Spec => []DepthBounded` | the constants' assumptions |
| `ModelDeleteProofs!RestrictCorrect` | `Spec => []RestrictHolds` | the constants' assumptions |
| `ModelDeleteProofs!LevelCorrect` | `Spec => []LevelBalanced` | the constants' assumptions |
| `ModelDeleteProofs!CascadeCorrect` | `Spec => []CascadeComplete` | the constants' assumptions |
| `ModelDeleteProofs!TypeCorrect` | `Spec => []TypeOK` | no server that keeps a transaction whose `COMMIT` it refused |
| `ModelDeleteProofs!BulkCorrect` | `Spec => []BulkAllOrNothing` | no server that keeps a transaction whose `COMMIT` it refused |
| `ModelDeleteProofs!ReentryCorrect` | `Spec => []NoReentryOnceDeleted` | the constants' assumptions |
| `EventsManagerProofs!TypeCorrect` | `Spec => []TypeOK` | the constants' assumptions |
| `EventsManagerProofs!StopCorrect` | `Spec => []StopSilences` | the constants' assumptions |
| `EventsManagerProofs!ListedCorrect` | `Spec => []ListedQueuesDeliver` | the constants' assumptions |
| `EventsManagerProofs!NoneSkippedCorrect` | `Spec => []NoneSkipped` | the constants' assumptions |
| `EventsManagerProofs!ResponsesCorrect` | `Spec => []ResponsesComplete` | the constants' assumptions |
| `StreamStorageProofs!TypeCorrect` | `Spec => []TypeOK` | the constants' assumptions |
| `StreamStorageProofs!AnswersCorrect` | `Spec => []AnswersAreCurrent` | the constants' assumptions |
| `StreamStorageProofs!AloneCorrect` | `Spec => []AloneMeansDone` | the constants' assumptions |
| `StreamStorageProofs!HoldersGoOn` | who holds a lock that is waited for waits for none | the constants' assumptions |
| `StreamStorageProofs!CallsRunOut` | every file operation of a call lowers its `Left`, a number up to 11, and nobody else raises it | the constants' assumptions |

`SessionMatchesLevel` and `DurableOnlyOutside` speak of runs that are smooth so far,
because they do not hold afterwards: see the stale counter below. Nor can the assumption
on `COMMIT` be dropped.

*Connection.* `TypeOK` is inductive. The lemmas `BeginEffect`, `CommitEffect`,
`RollbackEffect` and their companions say, for one call on any well-typed
connection, what happens to the counter and to the session; the step lemmas only
combine them. That the newest savepoint of a name is a position of the list
(`PointIndexRange`) needs a greatest element of a bounded set of numbers, taken from
well-foundedness (`LastPosition`). `SessionMatchesLevel` and `ActiveIsCounted` are
inductive relative to `TypeOK`. `DurableOnlyOutside` is an action property: with
`SessionMatchesLevel` before the step, the only calls that make anything durable
are a statement at level 0 and a `commit()` that reaches level 0.

`ImplementsNestedScopes` is the refinement of `NestedScopes`. The refinement mapping
reads a scope's mark off the savepoint of its level, so it needs to know where the
savepoints are. That is `ScopeInv`: for a caller who closes what he opened, the level is
the number of open scopes, each hard scope has a savepoint with its level as name, these
stand in the order of nesting, and none holds more work than the next one or than the
session has now. Names are reused and stale savepoints stay behind, which is what makes
`BeginScoped`, `CommitScoped` and `RollbackScoped` worth their length: a new savepoint
never stands before that of an outer scope, `RELEASE` takes the innermost away and
leaves the others in their places, and `ROLLBACK TO` cuts the list behind the one it
looks for. `ScopesHaveSavepoints` is read off `ScopeInv`, and with it each step of the
connection maps to a step of `NestedScopes` or a stutter (`ScopeStep`), as long as the
run is smooth and the caller lexical after the step.

*Manager.* `NumberIsCount` follows from `CountInv`: list and count are empty and 0,
or one handle and 1, *whatever* handle it is. `collectTransaction()` of any handle,
listed or not, preserves that (`CollectKeeps`): with one entry, either it is equal
(removed and uncounted) or it is replaced by the given one (and still counted). The
replacement is the defect that `collect_removes` shows; the theorem says that it
cannot corrupt the count. `HeapInv` adds that the connections are `Sound`: well typed,
and in a transaction exactly when their level is above 0 (`Counted`, kept by every call
whose command works: `CallsCounted`), and that a walk is over the whole list, hence
over one handle and ends with its round (`RoundEnds`). The last four need `PendInv`,
for callers who have not strayed: an open block is that of the one listed handle and
was begun once, so whichever way that handle ends, `NoneActive` holds (`AllClosed`).
`ShutdownRollsBack` and `AbortStopsCommit` are read off it. For `CommitIsForGood` it
gives that the block which `commit()` ends is at level 1 and the only one open, so that
`COMMIT` is sent (`CommitEffects`), and no other connection has work that is not
durable (`CommitKeepsAll`). That `get()` gives out the listed handle again and never
begins it a second time is what keeps blocks at level 1; the mutant `GetListedBegun`
does, and `commit()` then only lowers the level.

*Dispatcher.* For `NoForwardLost` the invariant is `LoopInv`: inside the loop
`count < Limit`. `GuardedVerdict` says that a round goes on only while no forward is
pending, and `HookEffect` that a hook leaves by an exception, to the top of the
loop, or onwards without a forward. `InitializedOnce` alone is not inductive.
`HandlerInv` adds that the hash of every initialized object is in `handlerHashes`, so
that a handler that counts as new was never initialized, and that this stays so up to
the call of `initialize()`. `RouteInv` is needed to know that the object found in the
container is one that exists. `TypeOK` follows from these and `TypeInv`.
`InitializedBeforeAction` is proved for a request that calls `dispatch()` once
(`MaxCalls <= 1`), which is where it holds: `AccountInv` says that every object the
container gives again was initialized, or shares its hash with another object, or is
of a class with a refused route, unless the round that created it is still before
`initialize()`. A cancelled round removes the object (`CancelAccounted`), and an
exception out of such a round ends the only call.
`StepsRunOut` is what safety can say of `DispatchReturns`, for every `Limit` and every
number of calls: the rounds that `count` leaves, 16 apiece, and the places that the round
has left (`Rank`) are a natural number that every step lowers, `forward()` or not. A hook
that ends its round goes back to the top of the loop at most (`RoundStep`), and the top
pays for the next round.

*Saving.* The theorems hold for any graph of records. For `LevelBalanced` the invariant
is `LevelInv`: while a call runs, the level is that of its start and one more for each
frame on the stack that has begun and not ended (`Opened`); a frame that goes on, nests
a call or returns moves both by the same amount (`MoveLevel`, `NestLevel`,
`ReturnLevel`). `AllOrNothing` needs `AtomInv`. A session without a level has no
transaction (`Quiet`), only an open frame has frames above it (`Chain`), and while a
call runs that started outside a transaction, nothing of it is durable and the work of
the session is what it wrote (`RowsInv`). So a `commit(false)` or `rollback(false)`
inside the call is never the outermost one and leaves the work alone (`SoftEnd`), and the
one that ends the last frame makes all of it durable or drops it. With a
server that keeps the transaction after a refused `COMMIT` (`busy`) `Quiet` fails, and the
next call would begin with the work of the refused one.

`DurableAtOnce` says the same of every moment, not only of the answer: what another
session reads, or a crash leaves, is the graph without the call or with all that it wrote.
Of all steps, only a record's own statement and the end of a frame can change what is
durable (`WhatIsDurable`). Outside of the application's transactions a statement
that is not in a transaction of the call is that of a record with nothing attached, which
is then the whole of the call (`OwnWrittenDurable`), and by `AtomInv` a `commit(false)`
reaches the server at level 1 only, which is where the frame of the first record ends
(`FinishRelatedDurable`).

`ReferencesHold` and `AttachedAreStored` are proved together (`RefInv`), for neither can
do without the other. `RefsIn` says of what is durable, and of that together with the
session's work, that each row of the first call comes with the rows it refers to. Those
are the two sets a session can be left with: on a connection without savepoints, which
is the default, each method of the connection keeps the work, makes all of it durable
or drops all of it (`WorkEnds`). `Known` says that while the first call runs a record in the
state "persistent" has a row, which is why skipping such a parent is right, and that so
has everything attached to a record whose attached records have been saved. `StackOk` says
what each frame has dealt with: a parent of a record at "before" is left in `rest`, has a
row, or is the record of the frame above; likewise for its children at "after". Where the
frame above has answered false the one below gives up as well, and is owed nothing
(`Failing`). The proof needs `JoinsAssumption`: an intermediate record is made or looked
up by `postSaveRelatedRecords()` itself (`Model.zep:5090`), so it is the parent of nobody,
no application saves it first, and it is attached only where the record is that it leads
to. TLC evaluates the assumption on the seven graphs.

`WrittenParentSkipped` is why the recursion between records attached to one another
ends. It follows from `SkipInv`: a record whose frame is at "after" is persistent, or an
intermediate one (`Settled`); nothing that a call does unsettles a record, for `exists()`
does not touch the state of a persistent one (`ExistsSettles`); and `save()` passes over a
settled parent.

`DepthBounded` says how soon, for any finite set of records. `LinkInv` is that each
frame saves the record of the frame above it: a parent at "before", a child at "after".
So the stack is a way through the graph, up along belongs-to relations and down along
has-many ones. A relation without circles has no way back to where it started
(`NoWayBack`, by well-foundedness of its transitive closure), hence a record that comes
back has been reached with a turn from up to down in between (`AllWays`): the record where
the way turns is a hub, that is, it has children and others belong to it, and its frame
is at "after". `SkipInv` says that the hub was at none of the "after" frames below, so it
is a new one (`MarkedGrows`, `ComesBack`). The frames of one record are therefore told
apart by the number of hubs marked below them, which is one of
`0 .. Cardinality(Hubs)` (`FramesCounted`).

*Deletion.* The theorems hold for any relations between any rows.
`RestrictHolds` speaks of the rows that are missing now, but a rollback to a savepoint
brings an earlier set back. The invariant `Inv` therefore says it of every set the
session could have: its work, the work at each savepoint, and no work at all, each
together with what is durably gone (`Kept`). `PdoConnectionProofs` proves once, for any
set of works, that each method of the connection stays within it or takes one of it
(`MethodsSteady`), so only `DeleteRow` has anything to show: it adds a row that
nothing visible refers to. `LevelBalanced` follows from `LevelInv`: while a call runs,
the level is that of its start and one more for each result set on the stack that has
begun and not ended (`Walking`). A method that answers moves the level by exactly one
(`MethodsCount`), and the frame that called it starts or stops walking with it; an
exception empties the stack, and then nothing is claimed.

`CascadeComplete` is about what is left to do. `CoverInv` says that each frame goes
through all it has to: a row that the frame's record owns, or that the result set found,
is missing or left out, is still in `rest`, or is what the frame above deletes (`Covers`).
And the rows that a row deleted by this call owns are missing or left out, or some frame
is at that row's cascade (`Handled`). Neither is claimed once a nested call has answered
false: then every frame below answers false too, and the theorem speaks of calls that
answer true.

`BulkAllOrNothing` is about the way back. `BulkInv` says that while the outermost result
set is open the rows of before the call can be got back (`Held`). Outside a transaction
that is the transaction which the call itself began; inside one, on a connection with
savepoints, it is the savepoint of the call's first level, and all levels from there to
the present one have theirs in order, so that a result set further up that is rolled
back takes nothing from it (`HeldSession` is the connection all this holds for). That
answering true means that nothing is left is `CoverInv` again. `TypeOK` and
`BulkAllOrNothing` need a server that ends the transaction it refuses to commit: one that
keeps it (`busy`) leaves work behind in a session at level 0.

`NoReentryOnceDeleted` rests on what can bring a record below its own `delete()` a
second time: only that its row was there when the cascade looked. Once a frame has
deleted its row, the row is missing as long as cascades go on (`DeletedMissing`, which
is `CoverInv` again: a rollback that brings it back comes with the answer false, after
which every frame returns), and what the result sets above it have still to delete does
not include it (`Clear`). The depth itself has no bound in the code: where
every `DELETE` of records that own each other is vetoed, the recursion does not end.

*Events.* `Shapes` says of each call what it still has to fire, and in which order
(`TodoInv`), and how far a stopped event may get (`StopInv`): after `stop()` the rest of
the queue is dropped, so one more listener can be called only where the type's queue
is left behind and the event's is to come. `StopSilences` and `TypeOK` follow.
`ListedQueuesDeliver` and `NoneSkipped` are proved together (`DbInv`): an unreferenced
queue object is fresh, a listed one is listed under one key (`QueueInv`), a queue that
gives arrays is emptied and unlisted (`BothInv`), and each listener that is due to a
call is in what the call is iterating, or in a queue it has still to fire, or that
queue has been emptied, so that the call cannot come to its end (`DueInv`). The last is
what a `detach()` from inside a listener does, and why `NoneSkipped` holds while
`ActiveListenersNotified` does not. `ResponsesInv` says that only the innermost
collecting call that nobody disturbed can own the responses.

*Storage.* The invariant has four parts. `Locks`: the writer of a file is in the middle
of its `file_put_contents()` and shares the file with no reader. `Disk`: what the path
leads to is the entry, or torn while a writer fills it or after a process died there.
`CallInv` is the heart: a reader that has opened a file has seen the entry missing since,
or the path still leads to that file; so whatever `file_get_contents()` finds under the
path, torn contents included, was true at some moment of the call.
`AnswersAreCurrent` follows for any number of processes, although the lock may be on
another file than the one that is read. `AloneMeansDone` says, beyond the four, what an
undisturbed call has brought about at each of its steps (`AloneAt`): the file
it has open is the one that the path leads to, what it read is the entry, and the entry
was there or not as the call found it.

Two theorems are the safety part of `CallsReturn`, for any number of processes and calls.
`HoldersGoOn`: `WaitsFor(p, q)` is read off the guards of `LockShared` and
`LockAndTruncate`; the process waited for is about to read or to fill the same file, which
are steps without any guard but their place, and they let go of the lock. So there is no
chain of waiting, let alone a circle. It needs `ReadersInv`, that a lock for reading is
that of a process between `flock()` and `fclose()`. `CallsRunOut`: what a call has left is
counted (`Left`), also the files that `clear()` has yet to look at, of which it removes
only what it has listed (`PointedInv`); what the others do in between never sends it back.

Only model-checked: the liveness properties `DispatchReturns` and `CallsReturn`, which
speak of fairness and are beyond the prover. `StepsRunOut`, `HoldersGoOn` and `CallsRunOut`
prove of them what does not depend on fairness: that no call goes on for ever by taking
steps. What is left to TLC is that a call in progress can take one, which needs `ENABLED`.
All other properties of the passing runs are theorems.

## Where code and text disagree

Each of these runs checks one sentence of the source, and TLC finds a behaviour of
the code that contradicts it.

| Run | What happens |
|---|---|
| `collect_removes` | `collectTransaction()` of an unlisted handle puts that handle into the list. |
| `retry_true` | A retry of a rolled-back `save()` updates no row and answers true, because the records keep the persistent state. |
| `delete_false` | `delete()` answers false because a record of a cascade refused; the row is deleted all the same, and what it owned stays. |
| `missing_action` | A forward from a missing action to another action of the same handler skips `initialize()`. |
| `detach_drains` | A listener that detaches a listener from the queue which the running `fire()` has yet to turn to empties that queue under it: `fire()` throws, and the listeners of that queue that nobody detached are not called. |

The modules contain further behaviours that a reader of the comments would not
expect. They follow from the same definitions, and no run is spent on them:

* `close()` and `connect()` keep the level of the session that is gone: the next
  `begin()` starts nothing; nor does a `begin()` after one that the server refused
  (`AbstractPdo.zep:106`, `:220`). `SessionMatchesLevel` is stated until a command
  fails or a session is dropped inside a scope for this reason;
* a `COMMIT` that is refused and keeps the transaction (`busy`) leaves it uncounted,
  and `rollback()` refuses to end it (`AbstractPdo.zep:181`, `:787`);
* with `setRollbackOnAbort`, `getConnection()` rolls back and then hands out the
  connection outside of any transaction; on a connection with a nested level it undoes
  the inner level only, and `manager.commit()` commits (`Transaction.zep:126`).
  This is why `AbortStopsCommit` is stated for callers who do not nest;
* after `manager.commit()` the list is unchanged and `has()` is true
  (`Manager.zep:122`);
* `skipOperation(true)` does not keep `save()` from writing (`Model.zep:4787`);
* with `orm.exception_on_failed_save`, a refused attached record throws through the
  `save()` it is nested in and leaves the transaction open (`Model.zep:2492`);
  `LevelBalanced` is stated for calls that answer;
* a handler object with the hash of a freed one is not initialized
  (`AbstractDispatcher.zep:275`), which `InitializedBeforeAction` allows for;
* a vetoed `DELETE` statement does not keep `delete()` from its cascade, so the row
  stays and what it owns goes (`Model.zep:1247`); records that own each other recurse
  without end when each of these vetoes is repeated;
* an exception stopped inside the loop makes `dispatch()` return null or a handler, not
  `false` (`AbstractDispatcher.zep:118`, `:218`);
* a PHP Error in `initialize()` leaves forwards forbidden (`AbstractDispatcher.zep:406`);
* `detach()` on a queue that is already empty throws, and leaves the queue with the flag
  `EXTR_BOTH`: listeners attached to it later are never called
  (`Events/Manager.zep:118`). After the last listener of a key has been detached,
  `fire()` throws and `hasListeners()` is true;
* `stop()` ends the queue of the key, and the first listener of the event's own queue is
  still called (`Events/Manager.zep:300`); a nested `fire()` resets the
  responses that the outer one collects (`:205`);
* `set()` with a key as `getKeys()` answers it, prefix included, writes another file than
  `get()` with that key reads (`Storage/Adapter/Stream.zep:281`, `:308`);
* a `set()` that cannot write all of its file answers false, and the value of before is
  gone as well: the file was truncated first (`Stream.zep:281`);
* two concurrent `increment()` calls of the Stream adapter may count one; an entry that
  runs out between its `has()` and its `get()` is counted from 0; and `increment()`
  gives the entry the time to live of the adapter (`Stream.zep:248`).

## What is not modelled

* Of the connection: queries, describing tables, escaping, result fetching. They keep
  no state between calls.
* Of `save()`: the contents of snapshots (that nothing changed is a choice), behaviors
  and virtual foreign keys other than by their answers, the binding of values,
  `refresh()`. Two requests that save the same key are told apart by the
  database's constraint, and the model has one session.
* Of `delete()`: the dirty state it sets, relations declared reusable (their cached
  result sets), and the cursor of a result set other than as the records left.
* Of the bulk operations: `Resultset::update()` and PHQL's `UPDATE`, which are the loop
  of `ModelDelete` around the `save()` of `ModelSave`. A module of the two would be the
  product of both stacks, and the graphs on which it could be checked are smaller than
  those on which the parts are.
* Of the dispatcher: previous names, the returned value, class and method naming, the
  parameters, the CLI dispatcher's own exception text. Services of the container
  other than handlers.
* Of the events manager: `fireQueue()` called by the application on a queue of its own,
  `setData()` and `setType()` of an event in flight.
* Of the storage: other entries than one, `getKeys()`, directories and serializers. The
  adapters of servers and of memory hand a call to one command, or an array.
* A veto of some statements but not of others: its effect on the counter is checked,
  what it does to the marks of savepoints is not.
* `Logger`, `View`, session, ACL, router and the other components that
  `PROJECT.json` lists as not modelled: one caller and one object, no step of
  another actor in between, or a pure function of one input.
* Parsers are generated automata over texts; `src/ext/kernel` is the runtime of Zephir.

## Plan

Done, in this order: `PdoConnection`, `NestedScopes`, `DbTransaction` and its proofs;
`TransactionManager` and its proofs; `ModelSave` and its proofs; `Dispatcher` and its proofs;
`ModelDelete` and its proofs; `EventsManager` and its proofs; `StreamStorage` and its
proofs.

What would come next, by importance:

1. The update half of the bulk operations, on an abstraction of `save()` to its
   answer and its effect on the level.
2. `Container`: `getShared()` with its two caches, resolution that re-enters, `remove()`.
3. `SessionToken`: the session manager and the CSRF token across requests of one client
   that interleave. `Session/Adapter/Stream.zep` reads and writes its file as
   `StreamStorage` does, with no lock across the request.
4. `Acl` and `Paginator`: operators against reference definitions.

Theorems: that a call in progress can always take a step, and with it `DispatchReturns` and
`CallsReturn` from the theorems above, once the prover knows `ENABLED`.
