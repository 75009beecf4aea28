--------------------------- MODULE PdoConnection ---------------------------
(***************************************************************************)
(* Phalcon\Db\Adapter\Pdo\AbstractPdo: one connection object and the       *)
(* database session behind it, as operators on a record.  The modules that *)
(* have a connection keep the record in a variable of theirs.              *)
(*                                                                         *)
(*   open        this->pdo is an object                                    *)
(*   level       this->transactionLevel                                    *)
(*   savepoints  this->transactionsWithSavepoints                          *)
(*   dialect     the server behind the PDO handle (external)               *)
(*   active      the server session is in a transaction (external); this   *)
(*               is what PDO::inTransaction() answers                      *)
(*   work        effects of the statements of the open transaction         *)
(*   points      the server's savepoints, oldest first: the name and the   *)
(*               work done when it was set                                 *)
(*                                                                         *)
(* A call returns the connection after it, the effects it made durable     *)
(* (the caller adds them to its database) and what the method returned.    *)
(* The outcome of the single server command a call issues is an input:     *)
(*                                                                         *)
(*   "ok"    the command works                                             *)
(*   "veto"  a db:beforeQuery listener returns false, so that execute()    *)
(*           returns false before the command reaches the server           *)
(*   "fail"  the server refuses it: PDO throws (ERRMODE_EXCEPTION); a      *)
(*           refused COMMIT has rolled the transaction back                *)
(*   "busy"  as "fail", except that a refused COMMIT leaves the            *)
(*           transaction open, as SQLite does                              *)
(***************************************************************************)
EXTENDS Naturals, Sequences, SequencesExt

Dialects == {"mysql", "postgresql"}
Outcomes == {"ok", "veto", "fail", "busy"}
Returns  == {"true", "false", "throw"}

Closed(dialect, savepoints) ==
    [open |-> FALSE, level |-> 0, savepoints |-> savepoints,
     dialect |-> dialect, active |-> FALSE, work |-> {}, points |-> <<>>]

Result(c, made, ret) == [conn |-> c, made |-> made, ret |-> ret]

----------------------------------------------------------------------------
(* The server session, as the code relies on it. *)

\* The session of c outside any transaction.
Idle(c) == [c EXCEPT !.active = FALSE, !.work = {}, !.points = <<>>]

\* PDO::beginTransaction() throws when the session already has one.
ServerBegin(c, outcome) ==
    IF ~c.active /\ outcome \in {"ok", "veto"}
    THEN Result([Idle(c) EXCEPT !.active = TRUE], {}, "true")
    ELSE Result(c, {}, "throw")

\* PDO::commit() throws when the session has no transaction.
ServerCommit(c, outcome) ==
    CASE ~c.active                                  -> Result(c, {}, "throw")
      [] c.active /\ outcome \in {"ok", "veto"}     -> Result(Idle(c), c.work, "true")
      [] c.active /\ outcome = "fail"               -> Result(Idle(c), {}, "throw")
      [] c.active /\ outcome = "busy"               -> Result(c, {}, "throw")

ServerRollback(c, outcome) ==
    IF c.active THEN Result(Idle(c), {}, "true") ELSE Result(c, {}, "throw")

\* Position of the newest savepoint called name, 0 when there is none.
PointIndex(points, name) ==
    SelectLastInSeq(points, LAMBDA p : p.name = name)

\* MySQL deletes an older savepoint of the same name, PostgreSQL shadows it.
PointsWith(c, name) ==
    LET old  == PointIndex(c.points, name)
        kept == IF c.dialect = "mysql" /\ old > 0 THEN RemoveAt(c.points, old)
                                                  ELSE c.points
    IN  Append(kept, [name |-> name, work |-> c.work])

\* RELEASE SAVEPOINT removes the savepoint and every later one.
PointsReleased(c, name) == SubSeq(c.points, 1, PointIndex(c.points, name) - 1)

\* ROLLBACK TO SAVEPOINT keeps the savepoint and removes every later one.
PointsRestored(c, name) == SubSeq(c.points, 1, PointIndex(c.points, name))

\* The work done when the newest savepoint called name was set.
WorkAt(c, name) == c.points[PointIndex(c.points, name)].work

----------------------------------------------------------------------------
(* execute(): what every statement of the adapter goes through.  A call on *)
(* a closed connection is a method call on null and throws.                *)

Refused(c, outcome) == ~c.open \/ outcome # "ok"

RefusalOf(c, outcome) ==
    Result(c, {}, IF outcome = "veto" THEN "false" ELSE "throw")

\* A data statement: its effect joins the open transaction, or is durable
\* at once when the session has none.
Execute(c, effect, outcome) ==
    IF Refused(c, outcome) THEN RefusalOf(c, outcome)
    ELSE IF c.active THEN Result([c EXCEPT !.work = @ \cup {effect}], {}, "true")
    ELSE Result(c, {effect}, "true")

\* SAVEPOINT outside a transaction: MySQL accepts it without effect,
\* PostgreSQL reports an error.
CreateSavepoint(c, name, outcome) ==
    CASE Refused(c, outcome) -> RefusalOf(c, outcome)
      [] ~Refused(c, outcome) /\ c.active ->
            Result([c EXCEPT !.points = PointsWith(c, name)], {}, "true")
      [] ~Refused(c, outcome) /\ ~c.active ->
            Result(c, {}, IF c.dialect = "mysql" THEN "true" ELSE "throw")

ReleaseSavepoint(c, name, outcome) ==
    CASE Refused(c, outcome) -> RefusalOf(c, outcome)
      [] ~Refused(c, outcome) /\ PointIndex(c.points, name) > 0 ->
            Result([c EXCEPT !.points = PointsReleased(c, name)], {}, "true")
      [] ~Refused(c, outcome) /\ PointIndex(c.points, name) = 0 ->
            Result(c, {}, "throw")

RollbackSavepoint(c, name, outcome) ==
    CASE Refused(c, outcome) -> RefusalOf(c, outcome)
      [] ~Refused(c, outcome) /\ PointIndex(c.points, name) > 0 ->
            Result([c EXCEPT !.work = WorkAt(c, name),
                             !.points = PointsRestored(c, name)], {}, "true")
      [] ~Refused(c, outcome) /\ PointIndex(c.points, name) = 0 ->
            Result(c, {}, "throw")

----------------------------------------------------------------------------
(* The transaction methods.  The name of a savepoint is the level at which *)
(* it is set (getNestedTransactionSavepointName).                          *)

UsesSavepoint(c, nesting) == nesting /\ c.savepoints

Deeper(c)    == [c EXCEPT !.level = @ + 1]
Shallower(c) == [c EXCEPT !.level = @ - 1]

IsUnderTransaction(c) == c.open /\ c.active

\* Mutant: the outermost begin() does not count.
BeginMut(c, nesting, outcome) ==
    CASE ~c.open                  -> Result(c, {}, "false")
      [] c.open /\ c.level = 0    -> ServerBegin(c, outcome)
      [] c.open /\ c.level > 0 /\ ~UsesSavepoint(c, nesting) ->
            Result(Deeper(c), {}, "false")
      [] c.open /\ c.level > 0 /\ UsesSavepoint(c, nesting) ->
            CreateSavepoint(Deeper(c), c.level + 1, outcome)

\* The level is raised before the server is asked for anything.
Begin(c, nesting, outcome) ==
    CASE ~c.open                  -> Result(c, {}, "false")
      [] c.open /\ c.level = 0    -> ServerBegin(Deeper(c), outcome)
      [] c.open /\ c.level > 0 /\ ~UsesSavepoint(c, nesting) ->
            Result(Deeper(c), {}, "false")
      [] c.open /\ c.level > 0 /\ UsesSavepoint(c, nesting) ->
            CreateSavepoint(Deeper(c), c.level + 1, outcome)

\* Mutant: no test for level zero.
CommitUnguarded(c, nesting, outcome) ==
    IF c.level > 1 THEN Result(Shallower(c), {}, "false")
    ELSE ServerCommit(Shallower(c), outcome)

\* Mutant: a soft inner commit() reaches the server.
CommitInnerForReal(c, nesting, outcome) ==
    CASE ~c.open \/ c.level = 0   -> Result(c, {}, "throw")
      [] c.open /\ c.level > 0 /\ ~UsesSavepoint(c, nesting) ->
            ServerCommit(Shallower(c), outcome)
      [] c.open /\ c.level > 0 /\ UsesSavepoint(c, nesting) ->
            ReleaseSavepoint(Shallower(c), c.level, outcome)

\* Mutant: the savepoint is named after the level has been lowered.
CommitNamedLate(c, nesting, outcome) ==
    CASE ~c.open \/ c.level = 0   -> Result(c, {}, "throw")
      [] c.open /\ c.level = 1    -> ServerCommit(Shallower(c), outcome)
      [] c.open /\ c.level > 1 /\ ~UsesSavepoint(c, nesting) ->
            Result(Shallower(c), {}, "false")
      [] c.open /\ c.level > 1 /\ UsesSavepoint(c, nesting) ->
            ReleaseSavepoint(Shallower(c), c.level - 1, outcome)

\* The level is lowered before the server is asked for anything; the
\* savepoint name is taken before that.
Commit(c, nesting, outcome) ==
    CASE ~c.open                  -> Result(c, {}, "false")
      [] c.open /\ c.level = 0    -> Result(c, {}, "throw")
      [] c.open /\ c.level = 1    -> ServerCommit(Shallower(c), outcome)
      [] c.open /\ c.level > 1 /\ ~UsesSavepoint(c, nesting) ->
            Result(Shallower(c), {}, "false")
      [] c.open /\ c.level > 1 /\ UsesSavepoint(c, nesting) ->
            ReleaseSavepoint(Shallower(c), c.level, outcome)

\* Mutant: the savepoint is named after the level has been lowered.
RollbackNamedLate(c, nesting, outcome) ==
    CASE ~c.open \/ c.level = 0   -> Result(c, {}, "throw")
      [] c.open /\ c.level = 1    -> ServerRollback(Shallower(c), outcome)
      [] c.open /\ c.level > 1 /\ ~UsesSavepoint(c, nesting) ->
            Result(Shallower(c), {}, "false")
      [] c.open /\ c.level > 1 /\ UsesSavepoint(c, nesting) ->
            RollbackSavepoint(Shallower(c), c.level - 1, outcome)

\* Mutant: a soft inner rollback() reaches the server.
RollbackInnerForReal(c, nesting, outcome) ==
    CASE ~c.open \/ c.level = 0   -> Result(c, {}, "throw")
      [] c.open /\ c.level > 0 /\ ~UsesSavepoint(c, nesting) ->
            ServerRollback(Shallower(c), outcome)
      [] c.open /\ c.level > 0 /\ UsesSavepoint(c, nesting) ->
            RollbackSavepoint(Shallower(c), c.level, outcome)

Rollback(c, nesting, outcome) ==
    CASE ~c.open                  -> Result(c, {}, "false")
      [] c.open /\ c.level = 0    -> Result(c, {}, "throw")
      [] c.open /\ c.level = 1    -> ServerRollback(Shallower(c), outcome)
      [] c.open /\ c.level > 1 /\ ~UsesSavepoint(c, nesting) ->
            Result(Shallower(c), {}, "false")
      [] c.open /\ c.level > 1 /\ UsesSavepoint(c, nesting) ->
            RollbackSavepoint(Shallower(c), c.level, outcome)

\* setNestedTransactionsWithSavepoints(): refused inside a transaction.
SetSavepoints(c, flag) ==
    IF c.level > 0 THEN Result(c, {}, "throw")
                   ELSE Result([c EXCEPT !.savepoints = flag], {}, "true")

\* Dropping the PDO object ends the session: the server rolls back.  The
\* level is left as it is.
Close(c) == Result([Idle(c) EXCEPT !.open = FALSE], {}, "true")

\* A new PDO object, hence a new session; the level is left as it is.  When
\* the server cannot be reached the constructor throws and nothing changes.
Connect(c, outcome) ==
    IF outcome \in {"ok", "veto"}
    THEN Result([Idle(c) EXCEPT !.open = TRUE], {}, "true")
    ELSE Result(c, {}, "throw")
=============================================================================
