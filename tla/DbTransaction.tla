--------------------------- MODULE DbTransaction ---------------------------
(***************************************************************************)
(* One connection (PdoConnection) and the callers that nest begin(),       *)
(* commit(), rollback() and statements on it in any order: the ORM's       *)
(* save(), the bulk operations of result sets, transaction objects and     *)
(* application code all share it and do not know of one another.           *)
(***************************************************************************)
EXTENDS PdoConnection, FiniteSets

CONSTANTS Effects,      \* statements the callers run
          MaxLevel,     \* bound: transactionLevel
          MaxPoints,    \* bound: savepoints kept by the server
          Faults        \* outcomes other than "ok" that may occur

ASSUME BoundsAssumption == MaxLevel \in Nat /\ MaxPoints \in Nat
ASSUME FaultsAssumption == Faults \subseteq Outcomes \ {"ok"}

VARIABLES conn,    \* the connection object and its session
          db,      \* durable effects
          opened,  \* nesting arguments of the scopes open now (history)
          course,  \* whether a command failed or a session was dropped
                   \* inside a scope so far (history)
          strayed  \* whether a scope was closed with another nesting
                   \* argument than it was opened with so far (history)

vars == <<conn, db, opened, course, strayed>>

Outcome == {"ok"} \cup Faults

Point == [name : 2 .. MaxLevel, work : SUBSET Effects]

Connection ==
    [open : BOOLEAN, level : 0 .. MaxLevel, savepoints : BOOLEAN,
     dialect : Dialects, active : BOOLEAN, work : SUBSET Effects,
     points : Seq(Point)]

\* The nesting level stays in its bounds and is never negative; savepoints
\* are only ever named after levels a scope inside another can have.
TypeOK ==
    /\ conn \in Connection
    /\ db \in SUBSET Effects
    /\ opened \in Seq(BOOLEAN)
    /\ course \in {"smooth", "troubled"}
    /\ strayed \in BOOLEAN

Init ==
    /\ \E dialect \in Dialects, flag \in BOOLEAN :
          conn = Connect(Closed(dialect, flag), "ok").conn
    /\ db = {}
    /\ opened = <<>>
    /\ course = "smooth"
    /\ strayed = FALSE

\* The method returned r: the connection, the database and the open scopes
\* are what the call made of them.
Returned(r, scopes, troubled) ==
    /\ conn' = r.conn
    /\ db' = db \cup r.made
    /\ opened' = scopes
    /\ course' = IF troubled THEN "troubled" ELSE course

\* A scope ends whenever the call lowered the level.
ScopesAfter(r) ==
    IF r.conn.level < conn.level /\ opened # <<>> THEN Front(opened) ELSE opened

\* The caller closes the innermost scope, and not the way it was opened.
Strays(nesting) == opened # <<>> /\ nesting # Last(opened)

BeginCall(nesting, outcome) ==
    /\ conn.level < MaxLevel
    /\ Len(conn.points) < MaxPoints
    /\ LET r == Begin(conn, nesting, outcome)
       IN  Returned(r, IF r.conn.level > conn.level THEN Append(opened, nesting)
                                                    ELSE opened,
                      outcome # "ok")
    /\ UNCHANGED strayed

CommitCall(nesting, outcome) ==
    /\ strayed' = (strayed \/ Strays(nesting))
    /\ LET r == Commit(conn, nesting, outcome) IN Returned(r, ScopesAfter(r), outcome # "ok")

RollbackCall(nesting, outcome) ==
    /\ strayed' = (strayed \/ Strays(nesting))
    /\ LET r == Rollback(conn, nesting, outcome) IN Returned(r, ScopesAfter(r), outcome # "ok")

ExecuteCall(e, outcome) ==
    /\ e \notin db \cup conn.work
    /\ Returned(Execute(conn, e, outcome), opened, outcome # "ok")
    /\ UNCHANGED strayed

SetSavepointsCall(flag) ==
    /\ Returned(SetSavepoints(conn, flag), opened, FALSE)
    /\ UNCHANGED strayed

\* Close and reconnect; what was open ends with the session.
CloseCall ==
    /\ Returned(Close(conn), <<>>, conn.level > 0)
    /\ UNCHANGED strayed

ConnectCall(outcome) ==
    /\ LET r == Connect(conn, outcome)
       IN  Returned(r, IF r.ret = "true" THEN <<>> ELSE opened,
                      outcome # "ok" \/ conn.level > 0)
    /\ UNCHANGED strayed

Next ==
    \/ \E nesting \in BOOLEAN, outcome \in Outcome :
          \/ BeginCall(nesting, outcome)
          \/ CommitCall(nesting, outcome)
          \/ RollbackCall(nesting, outcome)
    \/ \E e \in Effects, outcome \in Outcome : ExecuteCall(e, outcome)
    \/ \E flag \in BOOLEAN : SetSavepointsCall(flag)
    \/ CloseCall
    \/ \E outcome \in Outcome : ConnectCall(outcome)

Spec == Init /\ [][Next]_vars

----------------------------------------------------------------------------
(* Callers of any kind *)

\* Until a command fails, the nesting counter of an open connection agrees
\* with the server at every moment, whatever nesting arguments the callers of
\* begin(), commit() and rollback() mix: the counter is zero exactly when the
\* session has no transaction.  The code keeps the two apart and changes the
\* counter first, even on the paths that then throw.
SessionMatchesLevel ==
    course = "smooth" /\ conn.open => (conn.active <=> conn.level > 0)

\* Until a command fails, no call makes anything durable while an enclosing
\* scope stays open: only a statement outside every scope and the end of the
\* outermost scope do.
DurableOnlyOutside ==
    [][course' = "smooth" /\ db' # db => conn.level = 0 \/ conn'.level = 0]_vars

\* With listeners that veto savepoints and servers that refuse commands (and
\* end the transaction when they refuse COMMIT), a transaction of the session
\* is never forgotten: a caller can still end it, the counter is not zero.
ActiveIsCounted ==
    conn.open /\ conn.active => conn.level > 0

----------------------------------------------------------------------------
(* Callers that close every scope with the nesting argument they opened it *)
(* with, as long as no command fails and no session is dropped inside one. *)

Lexical == course = "smooth" /\ ~strayed

IsHard(i) == i = 1 \/ (opened[i] /\ conn.savepoints)

\* Every open inner scope with nesting has its savepoint, the savepoints of
\* nested scopes are in the order of nesting, and none was set later than a
\* deeper scope's: the names, which are mere levels and are reused, and the
\* stale savepoints that ROLLBACK TO leaves behind never confuse two scopes.
ScopesHaveSavepoints ==
    Lexical =>
    LET hard == {i \in 2 .. Len(opened) : IsHard(i)}
        at(i) == PointIndex(conn.points, i)
    IN  /\ Len(opened) = conn.level
        /\ \A i \in hard : at(i) > 0
        /\ \A i, j \in hard : i < j =>
              at(i) < at(j) /\ WorkAt(conn, i) \subseteq WorkAt(conn, j)

\* The scope stack that the connection stands for.
MappedStack ==
    [i \in 1 .. Len(opened) |->
        [hard |-> IsHard(i),
         mark |-> IF i > 1 /\ IsHard(i) THEN WorkAt(conn, i) ELSE {}]]

Scopes == INSTANCE NestedScopes WITH
             durable <- db, pending <- conn.work, stack <- MappedStack

\* To such callers a connection implements the stack of scopes: level
\* counter, savepoint names and the server's savepoint rules together give
\* the lexical nesting that callers of begin()/commit()/rollback() expect,
\* with and without savepoints and on both kinds of server.
ImplementsNestedScopes ==
    Scopes!Init /\ [][Lexical' => [Scopes!Next]_(Scopes!scopeVars)]_vars
=============================================================================
