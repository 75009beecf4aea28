---------------------------- MODULE ModelDelete ----------------------------
(***************************************************************************)
(* Phalcon\Mvc\Model::delete() with virtual foreign keys, and              *)
(* Phalcon\Mvc\Model\Resultset::delete() or the DELETE statement of PHQL   *)
(* (Query::_executeDelete()).  Deleting a record deletes its               *)
(* row and then what its cascading relations find: a has-one record by its *)
(* own delete(), has-many records by delete() of a result set, which opens *)
(* a nesting level of the connection with begin() and deletes one record   *)
(* after the other.                                                        *)
(*                                                                         *)
(* The recursion is a stack of frames, of records and of result sets.  An  *)
(* effect r is the deletion of row r.  dirtyState, which delete() sets for *)
(* a later save(), is not looked at here.                                  *)
(***************************************************************************)
EXTENDS PdoConnection

CONSTANTS Rows,
          Shapes,      \* relations: one, many, restrict; and what is deleted
          MaxCalls,    \* bound: delete() calls of the application
          MaxLevel,    \* bound: nesting level when a call starts
          MaxDepth,    \* bound: frames on the stack
          Verdicts,    \* what listeners and callbacks answer: "ok", "veto",
                       \* "skip", "throw"
          Faults,      \* outcomes of a statement other than "ok"
          Savepoints   \* settings of transactionsWithSavepoints

ASSUME BoundsAssumption == MaxCalls \in Nat /\ MaxLevel \in Nat /\ MaxDepth \in Nat
ASSUME ChoicesAssumption ==
    /\ Verdicts \subseteq {"ok", "veto", "skip", "throw"}
    /\ Faults \subseteq Outcomes \ {"ok"}
    /\ Savepoints \in (SUBSET BOOLEAN) \ {{}}
ASSUME RowsAssumption == Rows # {}
ASSUME ShapesAssumption ==
    \A s \in Shapes :
        /\ s.roots \subseteq Rows             \* records deleted one by one
        /\ s.sets \subseteq SUBSET Rows       \* and by queries
        /\ s.one \subseteq Rows \X Rows       \* row, what it owns; cascade
        /\ s.many \subseteq Rows \X Rows
        /\ s.restrict \subseteq Rows \X Rows  \* row, what must not refer to it

VARIABLES shape,
          conn, gone,  \* the connection and the rows that are durably deleted
          stack,       \* nested delete() calls, innermost last
          result,      \* what the last call that ended returned
          calls,       \* delete() calls of the application so far
          call,        \* the latest of them: what it is to delete, and the
                       \* level and the missing rows at its start
          spared       \* rows that a listener or the callback left out (history)

vars == <<shape, conn, gone, stack, result, calls, call, spared>>
callVars == <<shape, calls, call>>

Outcome  == {"ok"} \cup Faults
\* Vetoes of transaction commands are the subject of DbTransaction.
TxOutcome == Outcome \ {"veto"}

Visible(r) == r \notin gone \cup conn.work
Missing == {r \in Rows : ~Visible(r)}

One(r)  == {c \in Rows : <<r, c>> \in shape.one}
Many(r) == {c \in Rows : <<r, c>> \in shape.many}
Cascades == shape.one \cup shape.many

\* Mutant: result sets that a reusable relation fetched before.
FetchedBefore(r) == Many(r)

\* getRelationRecords() of the cascading has-many relation.
Fetched(r) == {c \in Many(r) : Visible(c)}

\* Mutant: the relation does nothing unless it asks for an action.
RestrictedOnRequest(r) == FALSE

\* _checkForeignKeysReverseRestrict()
Restricted(r) == \E c \in Rows : <<r, c>> \in shape.restrict /\ Visible(c)

\* A frame of a record: "start", "ones" (has-one relations), "many"; of a
\* result set: "fetched", "walking".
Frame(pc, r, rest) == [pc |-> pc, rec |-> r, rest |-> rest, deleted |-> FALSE]
Top == Last(stack)
At(pc) == stack # <<>> /\ Top.pc = pc
Proceeding == result # "false"

\* Rows that refer to another one have it stored.
Init ==
    /\ shape \in Shapes
    /\ gone \in {g \in SUBSET Rows :
                    \A p \in Cascades \cup shape.restrict : p[1] \in g => p[2] \in g}
    /\ \E savepoints \in Savepoints :
          conn = Connect(Closed("mysql", savepoints), "ok").conn
    /\ stack = <<>>
    /\ result = "none"
    /\ calls = 0
    /\ call = [rows |-> {}, kind |-> "none", base |-> 0, before |-> {}]
    /\ spared = {}

----------------------------------------------------------------------------
(* Calling and returning *)

Start(rows, kind, frame) ==
    /\ stack = <<>>
    /\ calls < MaxCalls
    /\ conn.level < MaxLevel
    /\ stack' = <<frame>>
    /\ result' = "none"
    /\ calls' = calls + 1
    /\ call' = [rows |-> rows, kind |-> kind, base |-> conn.level, before |-> Missing]
    /\ spared' = {}
    /\ UNCHANGED <<shape, conn, gone>>

DeleteRecord(r) ==
    /\ r \in shape.roots
    /\ Start({r}, "record", Frame("start", r, {}))

\* What a query finds is walked as a result set, by Resultset::delete() or by
\* the DELETE of PHQL: the same begin(), loop, rollback() and commit().
StartSet(rows, kind) ==
    /\ rows \in shape.sets
    /\ LET found == {r \in rows : Visible(r)}
       IN  Start(found, kind, Frame("fetched", CHOOSE r \in Rows : TRUE, found))

DeleteSet(rows)   == StartSet(rows, "set")
DeleteQuery(rows) == StartSet(rows, "query")

Return(ret) ==
    /\ stack' = Front(stack)
    /\ result' = ret

\* Nothing is caught.
Throw ==
    /\ stack' = <<>>
    /\ result' = "throw"

\* Listeners hear of it, and one of them may throw.
Answer(ret) ==
    \/ Return(ret)
    \/ "throw" \in Verdicts /\ Throw

GoOn(pc, rest) ==
    stack' = [stack EXCEPT ![Len(stack)].pc = pc, ![Len(stack)].rest = rest]

\* The frame goes on at pc when the nested call returns.  The code has no
\* bound on the depth.
Nested(pc, rest, frame) ==
    /\ Len(stack) < MaxDepth
    /\ stack' = Append([stack EXCEPT ![Len(stack)].pc = pc,
                                     ![Len(stack)].rest = rest], frame)
    /\ result' = "none"

\* A transaction method of the connection whose answer is not looked at:
\* next is what follows unless it throws.
Transact(r, next) ==
    /\ conn' = r.conn
    /\ gone' = gone \cup r.made
    /\ \/ r.ret = "throw" /\ Throw
       \/ r.ret # "throw" /\ next

----------------------------------------------------------------------------
(* Model::delete() *)

\* The restricting relations first, then the listeners.
RecordRestricted ==
    /\ At("start")
    /\ Restricted(Top.rec)
    /\ Answer("false")
    /\ UNCHANGED <<conn, gone, spared, callVars>>

RecordVetoed ==
    /\ At("start") /\ ~Restricted(Top.rec)
    /\ "veto" \in Verdicts
    /\ Return("false")
    /\ UNCHANGED <<conn, gone, spared, callVars>>

\* skipOperation(): true, and nothing is deleted.
RecordSkipped ==
    /\ At("start") /\ ~Restricted(Top.rec)
    /\ "skip" \in Verdicts
    /\ Return("true")
    /\ spared' = spared \cup {Top.rec}
    /\ UNCHANGED <<conn, gone, callVars>>

RecordThrows ==
    /\ At("start") /\ ~Restricted(Top.rec)
    /\ "throw" \in Verdicts
    /\ Throw
    /\ UNCHANGED <<conn, gone, spared, callVars>>

\* The DELETE; the cascade follows whatever the adapter answers.
DeleteRow(outcome) ==
    /\ At("start") /\ ~Restricted(Top.rec)
    /\ LET d == Execute(conn, Top.rec, outcome)
       IN  /\ conn' = d.conn
           /\ gone' = gone \cup d.made
           /\ IF d.ret = "throw" THEN Throw
              ELSE /\ stack' = [stack EXCEPT ![Len(stack)].pc = "ones",
                                             ![Len(stack)].rest = One(Top.rec),
                                             ![Len(stack)].deleted = (d.ret = "true")]
                   /\ result' = "none"
    /\ UNCHANGED <<spared, callVars>>

\* _checkForeignKeysReverseCascade(): has-one relations come first.
CascadeOne(c) ==
    /\ At("ones") /\ Proceeding
    /\ c \in Top.rest
    /\ IF Visible(c) THEN Nested("ones", Top.rest \ {c}, Frame("start", c, {}))
       ELSE GoOn("ones", Top.rest \ {c}) /\ UNCHANGED result
    /\ UNCHANGED <<conn, gone, spared, callVars>>

CascadeMany ==
    /\ At("ones") /\ Proceeding
    /\ Top.rest = {}
    /\ Nested("many", {}, Frame("fetched", Top.rec, Fetched(Top.rec)))
    /\ UNCHANGED <<conn, gone, spared, callVars>>

\* Mutant: what the related records answer is not looked at.
CascadeFailureIgnored ==
    /\ At("ones") \/ At("many")
    /\ ~Proceeding
    /\ Return("true")
    /\ UNCHANGED <<conn, gone, spared, callVars>>

\* return false; the row stays deleted.
CascadeFailed ==
    /\ At("ones") \/ At("many")
    /\ ~Proceeding
    /\ Return("false")
    /\ UNCHANGED <<conn, gone, spared, callVars>>

RecordDone ==
    /\ At("many") /\ Proceeding
    /\ IF Top.deleted THEN Answer("true") ELSE Return("false")
    /\ UNCHANGED <<conn, gone, spared, callVars>>

----------------------------------------------------------------------------
(* Resultset::delete() *)

\* begin() at the first record.
SetBegin(outcome) ==
    /\ At("fetched")
    /\ Top.rest # {}
    /\ Transact(Begin(conn, TRUE, outcome), GoOn("walking", Top.rest) /\ UNCHANGED result)
    /\ UNCHANGED <<spared, callVars>>

SetEmpty ==
    /\ At("fetched")
    /\ Top.rest = {}
    /\ Return("true")
    /\ UNCHANGED <<conn, gone, spared, callVars>>

SetNext(r) ==
    /\ At("walking") /\ Proceeding
    /\ r \in Top.rest
    /\ Nested("walking", Top.rest \ {r}, Frame("start", r, {}))
    /\ UNCHANGED <<conn, gone, spared, callVars>>

\* The callback of the application, which neither a cascade nor a query has.
SetPassOver(r) ==
    /\ At("walking") /\ Proceeding
    /\ call.kind = "set" /\ Len(stack) = 1
    /\ r \in Top.rest
    /\ "skip" \in Verdicts
    /\ GoOn("walking", Top.rest \ {r})
    /\ spared' = spared \cup {r}
    /\ UNCHANGED <<conn, gone, result, callVars>>

\* Mutants: the loop ends without the rollback; it goes on to the commit.
SetFailedOpen(outcome) ==
    /\ At("walking") /\ ~Proceeding
    /\ Return("false")
    /\ UNCHANGED <<conn, gone, spared, callVars>>

SetFailedCommits(outcome) ==
    /\ At("walking") /\ ~Proceeding
    /\ Transact(Commit(conn, TRUE, outcome), Return("false"))
    /\ UNCHANGED <<spared, callVars>>

SetFailed(outcome) ==
    /\ At("walking") /\ ~Proceeding
    /\ Transact(Rollback(conn, TRUE, outcome), Return("false"))
    /\ UNCHANGED <<spared, callVars>>

SetDone(outcome) ==
    /\ At("walking") /\ Proceeding
    /\ Top.rest = {}
    /\ Transact(Commit(conn, TRUE, outcome), Return("true"))
    /\ UNCHANGED <<spared, callVars>>

----------------------------------------------------------------------------
(* The application's own transactions, between delete() calls *)

AppCalls(r) ==
    /\ stack = <<>>
    /\ conn' = r.conn
    /\ gone' = gone \cup r.made
    /\ result' = "none"
    /\ UNCHANGED <<stack, spared, callVars>>

AppBegin    == conn.level < MaxLevel /\ AppCalls(Begin(conn, TRUE, "ok"))
AppCommit   == conn.level > 0 /\ AppCalls(Commit(conn, TRUE, "ok"))
AppRollback == conn.level > 0 /\ AppCalls(Rollback(conn, TRUE, "ok"))

Step ==
    \/ RecordRestricted \/ RecordVetoed \/ RecordSkipped \/ RecordThrows
    \/ CascadeMany \/ CascadeFailed \/ RecordDone
    \/ SetEmpty
    \/ \E outcome \in Outcome : DeleteRow(outcome)
    \/ \E outcome \in TxOutcome : SetBegin(outcome) \/ SetFailed(outcome) \/ SetDone(outcome)
    \/ \E r \in Rows : CascadeOne(r) \/ SetNext(r) \/ SetPassOver(r)

Next ==
    \/ \E r \in Rows : DeleteRecord(r)
    \/ \E rows \in shape.sets : DeleteSet(rows) \/ DeleteQuery(rows)
    \/ Step
    \/ AppBegin \/ AppCommit \/ AppRollback

Spec == Init /\ [][Next]_vars

----------------------------------------------------------------------------
(* Properties *)

\* Types; the counter of the connection knows of every transaction of the session.
TypeOK ==
    /\ shape \in Shapes
    /\ conn.open /\ conn.level \in Nat
    /\ conn.active => conn.level > 0
    /\ gone \subseteq Rows /\ spared \subseteq Rows
    /\ calls \in 0..MaxCalls
    /\ result \in Returns \cup {"none"}
    /\ call.rows \subseteq Rows /\ call.before \subseteq Rows /\ call.base \in Nat
    /\ call.kind \in {"none", "record", "set", "query"}
    /\ \A i \in 1..Len(stack) :
          /\ stack[i].rec \in Rows /\ stack[i].rest \subseteq Rows
          /\ stack[i].pc \in {"start", "ones", "many", "fetched", "walking"}

Answered == stack = <<>> /\ result \in {"true", "false"}

\* A delete() that answers leaves the nesting level as it found it, however
\* deep in the cascade a record was refused: each result set ends the level
\* it began.
LevelBalanced == Answered => conn.level = call.base

\* Resultset::delete() and the DELETE of PHQL are all or nothing, through
\* every cascade and whatever fails: when the call
\* answers false the rows are as they were, outside of a transaction or with
\* savepoints; when it answers true every record that nobody left out is
\* deleted, durably outside of a transaction.
BulkAllOrNothing ==
    Answered /\ call.kind \in {"set", "query"} =>
        /\ result = "false" /\ (call.base = 0 \/ conn.savepoints) => Missing = call.before
        /\ result = "true" => call.rows \ spared \subseteq
                                  IF call.base = 0 THEN gone ELSE Missing

\* A delete() that answers true leaves no orphans: what the rows it removed
\* own by a cascading relation is removed, unless a listener left it out.
CascadeComplete ==
    Answered /\ result = "true" =>
        \A p \in Cascades :
            p[1] \in Missing \ call.before => p[2] \in Missing \cup spared

\* No row is missing while a row refers to it by a restricting relation:
\* deletes, cascades and partial rollbacks keep the virtual foreign key.
RestrictHolds == \A p \in shape.restrict : Visible(p[2]) => Visible(p[1])

\* Relations that cascade in both directions lead back to a record only while
\* its row is there: a delete() is entered again below itself only if the
\* adapter has answered false to its DELETE, each time once more.  When every
\* DELETE is carried out a cascade ends; when the same ones are vetoed for
\* ever it does not.
NoReentryOnceDeleted ==
    \A i, j \in 1..Len(stack) :
        /\ i < j
        /\ stack[i].pc \in {"start", "ones", "many"}
        /\ stack[j].pc \in {"start", "ones", "many"}
        /\ stack[i].rec = stack[j].rec
        => ~stack[i].deleted

\* Model.zep:1099 "Deletes a model instance. Returning true on success or false
\* otherwise.": a delete() that answers false has deleted nothing.
FalseMeansKept ==
    Answered /\ call.kind = "record" /\ result = "false" => Missing = call.before
=============================================================================
