------------------------- MODULE TransactionManager -------------------------
(***************************************************************************)
(* Phalcon\Mvc\Model\Transaction\Manager, the Transaction objects it hands *)
(* out, and the connections these take from the DI container, during one   *)
(* request.  Application code keeps every handle it was ever given and may *)
(* call it in any order; the client may abort the request; at the end PHP  *)
(* runs the shutdown function the manager registered.                      *)
(*                                                                         *)
(* manager.commit() and manager.rollback() walk a snapshot of the list and *)
(* may be left by an exception: the walk is a variable and a step each.    *)
(***************************************************************************)
EXTENDS PdoConnection, Integers, FiniteSets

CONSTANTS Effects,      \* statements run through transactions
          MaxTx,        \* bound: Transaction objects created
          MaxLevel,     \* bound: nesting level of a connection
          MayAbort      \* the client may abort; handles may roll back on abort

ASSUME BoundsAssumption == MaxTx \in Nat \ {0} /\ MaxLevel \in Nat \ {0}
ASSUME CallersAssumption == MayAbort \in BOOLEAN

VARIABLES list,         \* manager->transactions: handles, oldest first
          number,       \* manager->number
          initialized,  \* manager->initialized
          hook,         \* rollbackPendent is registered as shutdown function
          heap,         \* every Transaction object created; a handle is an index
          conns,        \* the connections these objects hold
          shared,       \* the DI service of the connection is shared
          db,           \* durable effects
          aborted,      \* connection_aborted()
          walk,         \* the walk over the list in progress
          ended,        \* the request is over
          strayed       \* a caller has used a handle the manager does not
                        \* list, begun a block inside a block or emptied the
                        \* list over an open block (history)

vars == <<list, number, initialized, hook, heap, conns, shared, db, aborted, walk, ended, strayed>>
managerVars == <<list, number>>
requestVars == <<initialized, hook, shared, aborted, ended>>

NoWalk == [op |-> "none", collect |-> FALSE, todo |-> <<>>]

Handles == DOMAIN heap

\* The connection of handle t, and the connections with c in its place.
ConnOf(t) == conns[heap[t].conn]
WithConn(t, c) == [conns EXCEPT ![heap[t].conn] = c]

Listed(t) == \E i \in DOMAIN list : list[i] = t

FreshConnection(savepoints) == Connect(Closed("mysql", savepoints), "ok").conn

\* The properties of a Transaction object that distinguish it under the loose
\* comparison of PHP; the manager and the messages are the same for all.
NewTransaction(conn) ==
    [conn |-> conn, isNew |-> TRUE, onAbort |-> FALSE, throws |-> FALSE]

Init ==
    /\ list = <<>> /\ number = 0
    /\ initialized = FALSE /\ hook = FALSE
    /\ heap = <<>>
    /\ shared \in BOOLEAN
    /\ \E savepoints \in BOOLEAN :
          conns = IF shared THEN <<FreshConnection(savepoints)>> ELSE <<>>
    /\ db = {}
    /\ aborted = FALSE
    /\ walk = NoWalk
    /\ ended = FALSE
    /\ strayed = FALSE

Idling == walk.op = "none" /\ ~ended

StraysIf(P) == strayed' = (strayed \/ P)

----------------------------------------------------------------------------
(* Pieces of the methods *)

\* collectTransaction(t): the listed handles that are (loosely) equal to t
\* are uncounted; each of the others is replaced by t itself.
SameAs(handles, t) == {i \in DOMAIN handles : heap[handles[i]] = heap[t]}

Collected(handles, t) ==
    [i \in 1 .. Len(handles) - Cardinality(SameAs(handles, t)) |-> t]

\* Mutant: one is uncounted, found in the list or not.
UncountedOnce(handles, n, t) == n - 1

Uncounted(handles, n, t) == n - Cardinality(SameAs(handles, t))

\* Transaction.rollback() on c, the connection of t: throws when the
\* connection does, and TxFailed after a rollback when t was told to.
RollbackThrows(t, c) ==
    LET r == Rollback(c, TRUE, "ok")
    IN  r.ret = "throw" \/ (r.ret = "true" /\ heap[t].throws)

\* Transaction.getConnection(): in an aborted request it may roll back.
RollsBackNow(t) == heap[t].onAbort /\ aborted

\* Mutant: the manager is told of a rollback that is never made.
GotNotRolledBack(t) ==
    IF RollsBackNow(t)
    THEN [list   |-> Collected(list, t),
          number |-> Uncounted(list, number, t),
          conn   |-> ConnOf(t),
          threw  |-> FALSE]
    ELSE [list |-> list, number |-> number, conn |-> ConnOf(t), threw |-> FALSE]

Got(t) ==
    IF RollsBackNow(t)
    THEN [list   |-> Collected(list, t),
          number |-> Uncounted(list, number, t),
          conn   |-> Rollback(ConnOf(t), TRUE, "ok").conn,
          threw  |-> RollbackThrows(t, ConnOf(t))]
    ELSE [list |-> list, number |-> number, conn |-> ConnOf(t), threw |-> FALSE]

----------------------------------------------------------------------------
(* Manager.get() *)

\* Mutant: initialized is set before it is tested.
RegisterLate ==
    /\ initialized' = TRUE
    /\ hook' = hook

Register ==
    /\ initialized' = TRUE
    /\ hook' = (hook \/ ~initialized)

\* Mutant: the handle that is given out again begins again.
GetListedBegun ==
    /\ Idling
    /\ number # 0 /\ list # <<>>
    /\ ConnOf(Last(list)).level < MaxLevel
    /\ Register
    /\ heap' = [heap EXCEPT ![Last(list)].isNew = FALSE]
    /\ conns' = WithConn(Last(list), Begin(ConnOf(Last(list)), TRUE, "ok").conn)
    /\ UNCHANGED <<list, number, shared, db, aborted, walk, ended, strayed>>

\* getOrCreateTransaction(): the newest listed handle is given out again ...
GetListed ==
    /\ Idling
    /\ number # 0 /\ list # <<>>
    /\ Register
    /\ heap' = [heap EXCEPT ![Last(list)].isNew = FALSE]
    /\ UNCHANGED <<list, number, conns, shared, db, aborted, walk, ended, strayed>>

\* ... or a new object takes its connection from the container and begins.
GetNew(autoBegin, savepoints) ==
    /\ Idling
    /\ number = 0 \/ list = <<>>
    /\ Len(heap) < MaxTx
    /\ Register
    /\ LET held  == IF shared THEN conns ELSE Append(conns, FreshConnection(savepoints))
           begun == [held EXCEPT ![Len(held)] = Begin(@, TRUE, "ok").conn]
       IN  /\ held[Len(held)].level < MaxLevel
           /\ conns' = IF autoBegin THEN begun ELSE held
           /\ heap' = Append(heap, NewTransaction(Len(held)))
    /\ list' = Append(list, Len(heap) + 1)
    /\ number' = number + 1
    /\ UNCHANGED <<shared, db, aborted, walk, ended, strayed>>

----------------------------------------------------------------------------
(* Calls on a handle *)

TxBegin(t) ==
    /\ Idling
    /\ StraysIf(~Listed(t) \/ ConnOf(t).level > 0)
    /\ ConnOf(t).level < MaxLevel
    /\ conns' = WithConn(t, Begin(ConnOf(t), TRUE, "ok").conn)
    /\ UNCHANGED <<list, number, heap, db, walk, requestVars>>

\* commit(): the manager is notified before the connection commits, and
\* stays so when the connection throws.
TxCommit(t) ==
    /\ Idling
    /\ StraysIf(~Listed(t))
    /\ LET r == Commit(ConnOf(t), TRUE, "ok")
       IN  conns' = WithConn(t, r.conn) /\ db' = db \cup r.made
    /\ list' = Collected(list, t)
    /\ number' = Uncounted(list, number, t)
    /\ UNCHANGED <<heap, walk, requestVars>>

TxRollback(t) ==
    /\ Idling
    /\ StraysIf(~Listed(t))
    /\ conns' = WithConn(t, Rollback(ConnOf(t), TRUE, "ok").conn)
    /\ list' = Collected(list, t)
    /\ number' = Uncounted(list, number, t)
    /\ UNCHANGED <<heap, db, walk, requestVars>>

\* A model of the transaction runs a statement: it asks the handle for the
\* connection and executes on what it gets.
Write(t, e) ==
    /\ Idling
    /\ StraysIf(~Listed(t))
    /\ e \notin db /\ \A k \in DOMAIN conns : e \notin conns[k].work
    /\ LET g == Got(t)
           r == IF g.threw THEN Result(g.conn, {}, "throw") ELSE Execute(g.conn, e, "ok")
       IN  /\ list' = g.list /\ number' = g.number
           /\ conns' = WithConn(t, r.conn)
           /\ db' = db \cup r.made
    /\ UNCHANGED <<heap, walk, requestVars>>

\* setRollbackOnAbort(), with or without throwRollbackException(): what the
\* second alone changes is the answer of rollback(), not the state.
SetFlags(t, throws) ==
    /\ Idling
    /\ MayAbort
    /\ ~heap[t].onAbort
    /\ heap' = [heap EXCEPT ![t].onAbort = TRUE, ![t].throws = throws]
    /\ UNCHANGED <<list, number, conns, db, walk, requestVars, strayed>>

----------------------------------------------------------------------------
(* Calls on the manager *)

CollectTransactions ==
    /\ Idling
    /\ StraysIf(\E k \in DOMAIN conns : conns[k].active)
    /\ number' = number - Len(list)
    /\ list' = <<>>
    /\ UNCHANGED <<heap, conns, db, walk, requestVars>>

\* Mutant: the walk starts on an empty list.
StartWalkAlways(op, collect) ==
    walk' = [op |-> op, collect |-> collect, todo |-> list]

StartWalk(op, collect) ==
    walk' = IF list = <<>> THEN NoWalk
                           ELSE [op |-> op, collect |-> collect, todo |-> list]

ManagerCommit ==
    /\ Idling
    /\ StartWalk("commit", FALSE)
    /\ UNCHANGED <<list, number, heap, conns, db, requestVars, strayed>>

ManagerRollback(collect) ==
    /\ Idling
    /\ StartWalk("rollback", collect)
    /\ UNCHANGED <<list, number, heap, conns, db, requestVars, strayed>>

\* One round of the walk is done; an exception ends the walk.
WalkOn(threw) ==
    walk' = IF threw \/ Len(walk.todo) = 1 THEN NoWalk
                                           ELSE [walk EXCEPT !.todo = Tail(@)]

CommitRound ==
    /\ walk.op = "commit"
    /\ LET t == Head(walk.todo)
           g == Got(t)
           r == IF ~g.threw /\ IsUnderTransaction(g.conn)
                THEN Commit(g.conn, TRUE, "ok") ELSE Result(g.conn, {}, "true")
       IN  /\ list' = g.list /\ number' = g.number
           /\ conns' = WithConn(t, r.conn)
           /\ db' = db \cup r.made
           /\ WalkOn(g.threw)
    /\ UNCHANGED <<heap, requestVars, strayed>>

\* A connection that was rolled back is closed.
RollbackRound ==
    /\ walk.op = "rollback"
    /\ LET t == Head(walk.todo)
           g == Got(t)
           c == IF ~g.threw /\ IsUnderTransaction(g.conn)
                THEN Close(Rollback(g.conn, TRUE, "ok").conn).conn ELSE g.conn
           collected == walk.collect /\ ~g.threw
       IN  /\ list' = IF collected THEN Collected(g.list, t) ELSE g.list
           /\ number' = IF collected THEN Uncounted(g.list, g.number, t) ELSE g.number
           /\ conns' = WithConn(t, c)
           /\ WalkOn(g.threw)
    /\ UNCHANGED <<heap, db, requestVars, strayed>>

----------------------------------------------------------------------------
(* The request *)

Abort ==
    /\ MayAbort /\ ~aborted
    /\ aborted' = TRUE
    /\ UNCHANGED <<list, number, heap, conns, db, walk, initialized, hook, shared, ended, strayed>>

\* The script ends: PHP calls rollbackPendent() when it was registered.
Shutdown ==
    /\ Idling
    /\ ended' = TRUE
    /\ IF hook THEN StartWalk("rollback", TRUE) ELSE UNCHANGED walk
    /\ UNCHANGED <<list, number, heap, conns, db, initialized, hook, shared, aborted, strayed>>

Next ==
    \/ GetListed
    \/ \E autoBegin, savepoints \in BOOLEAN : GetNew(autoBegin, savepoints)
    \/ \E t \in Handles : TxBegin(t) \/ TxCommit(t) \/ TxRollback(t)
    \/ \E t \in Handles, e \in Effects : Write(t, e)
    \/ \E t \in Handles, throws \in BOOLEAN : SetFlags(t, throws)
    \/ CollectTransactions
    \/ ManagerCommit
    \/ \E collect \in BOOLEAN : ManagerRollback(collect)
    \/ CommitRound
    \/ RollbackRound
    \/ Abort
    \/ Shutdown

Spec == Init /\ [][Next]_vars

----------------------------------------------------------------------------
(* Properties *)

Connection ==
    [open : BOOLEAN, level : 0 .. MaxLevel, savepoints : BOOLEAN,
     dialect : Dialects, active : BOOLEAN, work : SUBSET Effects,
     points : Seq([name : 2 .. MaxLevel, work : SUBSET Effects])]

Transaction ==
    [conn : Nat \ {0}, isNew : BOOLEAN, onAbort : BOOLEAN, throws : BOOLEAN]

TypeOK ==
    /\ heap \in Seq(Transaction) /\ Len(heap) <= MaxTx
    /\ list \in Seq(Handles)
    /\ number \in Int
    /\ conns \in Seq(Connection)
    /\ \A t \in Handles : heap[t].conn \in DOMAIN conns
    /\ initialized \in BOOLEAN /\ hook \in BOOLEAN /\ shared \in BOOLEAN
    /\ aborted \in BOOLEAN /\ ended \in BOOLEAN /\ strayed \in BOOLEAN
    /\ db \in SUBSET Effects
    /\ walk.op \in {"none", "commit", "rollback"} /\ walk.collect \in BOOLEAN
    /\ walk.todo \in Seq(Handles) /\ (walk.op # "none" => walk.todo # <<>>)

\* The counter that get() and has() trust agrees with the list, and there is
\* never more than one transaction in progress, whichever handles, stale ones
\* included, callers commit or roll back.  collectTransaction() changes the
\* two by different rules: it uncounts every handle loosely equal to the one
\* given and fills the list with that handle in place of the others.
NumberIsCount == number = Len(list) /\ Len(list) <= 1

\* With callers that only use what the manager lists, a block that is open on
\* some connection is always one the manager knows of: it is the one get()
\* hands out again and the one shutdown will roll back.
PendingIsListed ==
    ~strayed => \A k \in DOMAIN conns : conns[k].active =>
        \E i \in DOMAIN list : heap[list[i]].conn = k

\* When the script of such callers ends, no block stays open: the shutdown
\* function rolls it back, also in an aborted request where the handle may
\* have rolled back already and may throw out of the walk.
ShutdownRollsBack ==
    ended /\ walk = NoWalk /\ ~strayed => \A k \in DOMAIN conns : ~conns[k].active

\* A commit() of such callers, of the transaction or of the manager, is for
\* good: all they have written on any connection is durable after it, and no
\* block is open.  get() begins a block on a connection it shares with earlier
\* transactions; had the manager lost one that is still open, the new block
\* would be inside it, commit() would only lower the level, and shutdown would
\* roll back what commit() seemed to have kept.
CommitIsForGood ==
    [][~strayed' /\ ((\E t \in Handles : TxCommit(t))
                     \/ (CommitRound /\ ~RollsBackNow(Head(walk.todo)))) =>
          \A k \in DOMAIN conns : conns[k].work \subseteq db' /\ ~conns'[k].active]_vars

\* Transaction.zep:202, of setRollbackOnAbort(): "Sets flag to rollback on
\* abort the HTTP connection".  In an aborted request manager.commit() makes
\* nothing of such a transaction durable, unless its block was begun twice:
\* then the rollback ends the inner block and the commit the outer one.
AbortStopsCommit ==
    [][~strayed /\ CommitRound /\ RollsBackNow(Head(walk.todo)) => db' = db]_vars

----------------------------------------------------------------------------
(* What the comments of the two classes say *)

\* Manager.zep:307, of collectTransaction(), which commit() and rollback() of
\* a transaction notify: "Removes transactions from the TransactionManager".
\* After them the manager does not list the transaction.
CollectRemoves ==
    [][\A t \in Handles : TxCommit(t) \/ TxRollback(t) =>
          \A i \in DOMAIN list' : list'[i] # t]_vars
=============================================================================
