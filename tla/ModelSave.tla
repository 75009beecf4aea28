----------------------------- MODULE ModelSave -----------------------------
(***************************************************************************)
(* Phalcon\Mvc\Model::save() with related records: the call saves the      *)
(* belongs-to records attached to a record, then the record, then its      *)
(* has-one/has-many records, each by a nested save(), inside a nesting     *)
(* level of the connection opened with begin(false).                       *)
(*                                                                         *)
(* The recursion is a stack of frames, a step for each piece of code       *)
(* between two nested calls.  What a listener, a validator or the database *)
(* server answers is chosen at each step.  An exception leaves every frame *)
(* of the stack: save() catches nothing.                                   *)
(*                                                                         *)
(* An effect <<r, n>> is a row of record r as written by the n-th save()   *)
(* that the application called; <<r, 0>> is a row the application loaded.  *)
(***************************************************************************)
EXTENDS PdoConnection, FiniteSets

CONSTANTS Records,
          Shapes,       \* how records are attached: roots, belongs, many, joins
          MaxCalls,     \* bound: save() calls of the application
          MaxLevel,     \* bound: nesting level when a call starts
          Verdicts,     \* what validation and listeners make of a record: "ok",
                        \* "veto", "skip", "unchanged" (nothing to update), "throw"
          Faults,       \* outcomes of a statement other than "ok"
          AppTx,        \* the application begins transactions of its own
          ThrowOnFail   \* settings of orm.exception_on_failed_save to choose from

ASSUME RecordsAssumption == IsFiniteSet(Records)
ASSUME BoundsAssumption == MaxCalls \in Nat /\ MaxLevel \in Nat
ASSUME ChoicesAssumption ==
    /\ Verdicts \subseteq {"ok", "veto", "skip", "unchanged", "throw"}
    /\ Faults \subseteq Outcomes \ {"ok"}
    /\ AppTx \in BOOLEAN /\ ThrowOnFail \in (SUBSET BOOLEAN) \ {{}}
ASSUME ShapesAssumption ==
    \A s \in Shapes :
        /\ s.roots \subseteq Records
        /\ s.belongs \subseteq Records \X Records  \* record, its parent
        /\ s.many \subseteq Records \X Records     \* record, its child
        /\ s.joins \subseteq Records \X Records    \* intermediate record, the
                                                  \* record it leads to

\* postSaveRelatedRecords() itself makes or looks up the record of a relation
\* that goes through one, beside the record it leads to.
ASSUME JoinsAssumption ==
    \A s \in Shapes : \A join \in s.joins :
        /\ join[1] \notin s.roots
        /\ \A r \in Records :
              /\ <<r, join[1]>> \notin s.belongs
              /\ <<r, join[1]>> \in s.many => <<r, join[2]>> \in s.many

VARIABLES shape,       \* the graph of attached records
          conn, db,    \* the connection and the durable effects
          dirtyState,  \* record->dirtyState
          keyed,       \* the primary key of the record has a value
          pending,     \* records with their attached records in dirtyRelated
          cached,      \* the same, read from the database into related
          stack,       \* nested save() calls, innermost last
          result,      \* what the last call that ended returned
          calls,       \* save() calls of the application so far
          call,        \* the latest of them: its record, the level at its start
                       \* and the setting of exception_on_failed_save
          wrote        \* records whose rows it wrote (history)

vars == <<shape, conn, db, dirtyState, keyed, pending, cached, stack, result, calls, call, wrote>>
recordVars == <<dirtyState, keyed, pending>>
callVars == <<shape, cached, calls, call>>

Outcome == {"ok"} \cup Faults
DirtyStates == {"persistent", "transient"}

Parents(r)  == {p \in Records : <<r, p>> \in shape.belongs}
Children(r) == {c \in Records : <<r, c>> \in shape.many}
Joined(i)   == {c \in Records : <<i, c>> \in shape.joins}

Attached(r) == Parents(r) \cup Children(r)

\* collectRelatedToSave(): what the application attached and no success has
\* cleared, and what a getter fetched.
HasRelated(r) == r \in pending \cup cached /\ Attached(r) # {}

\* The row of r as a statement on the connection sees it, and as a later
\* session sees it.
RowsOf(r, effects) == {e \in effects : e[1] = r}
Visible(r) == RowsOf(r, db \cup conn.work) # {}
Durable(r) == RowsOf(r, db) # {}

Frame(r) == [rec |-> r, pc |-> "start", rest |-> {}]
Top == Last(stack)

\* new: never stored, identity key; natural: never stored, key assigned by
\* the application; loaded: read from the database.  Attaching a record whose
\* dirty state differs, or a list, makes a loaded record transient (__set).
Kinds == {"new", "natural", "loaded"}

Init ==
    /\ shape \in Shapes
    /\ \E kind \in [Records -> Kinds] :
          /\ db = {<<r, 0>> : r \in {x \in Records : kind[x] = "loaded"}}
          /\ \A i \in Records : Joined(i) # {} => kind[i] # "natural"
          /\ keyed = [r \in Records |-> kind[r] # "new"]
          /\ \E touched, fetched \in SUBSET {x \in Records : kind[x] = "loaded"} :
                /\ \A r \in touched : Attached(r) # {}
                /\ \A r \in fetched : \A x \in Attached(r) : kind[x] = "loaded"
                /\ \A r \in Records : kind[r] = "loaded" =>
                      r \in touched \/ \A x \in Attached(r) : kind[x] = "loaded"
                /\ dirtyState = [r \in Records |->
                      IF kind[r] = "loaded" /\ r \notin touched THEN "persistent"
                                                               ELSE "transient"]
                /\ cached = fetched
                /\ pending = Records \ fetched
    /\ conn = Connect(Closed("mysql", FALSE), "ok").conn
    /\ stack = <<>>
    /\ result = "none"
    /\ calls = 0
    /\ call = [rec |-> CHOOSE r \in Records : TRUE, base |-> 0, throws |-> FALSE]
    /\ wrote = {}

----------------------------------------------------------------------------
(* Calling and returning *)

GoOn(pc, rest) ==
    stack' = [stack EXCEPT ![Len(stack)].pc = pc, ![Len(stack)].rest = rest]

Return(ret) ==
    /\ stack' = Front(stack)
    /\ result' = ret

Throw ==
    /\ stack' = <<>>
    /\ result' = "throw"

\* Mutant: returns without the rollback.
FailOpen(begun) ==
    /\ conn' = conn
    /\ Return("false")
    /\ UNCHANGED db

\* return false, after rollback(false) when the frame has begun.
Fail(begun) ==
    /\ conn' = IF begun THEN Rollback(conn, FALSE, "ok").conn ELSE conn
    /\ Return("false")
    /\ UNCHANGED db

\* postSave() and cancelOperation() tell listeners, and one of them may throw.
Answer(ret) ==
    \/ Return(ret)
    \/ "throw" \in Verdicts /\ Throw

At(pc) == stack # <<>> /\ Top.pc = pc

\* No nested call has failed: the frame goes on with its own code.
Proceeding == result # "false"

----------------------------------------------------------------------------
(* save() *)

Save(r) ==
    /\ stack = <<>>
    /\ calls < MaxCalls
    /\ conn.level < MaxLevel
    /\ r \in shape.roots
    /\ stack' = <<Frame(r)>>
    /\ result' = "none"
    /\ calls' = calls + 1
    /\ \E throws \in ThrowOnFail :
          call' = [rec |-> r, base |-> conn.level, throws |-> throws]
    /\ wrote' = {}
    /\ UNCHANGED <<shape, cached, conn, db, recordVars>>

\* Nothing attached: straight to the record itself.
StartAlone ==
    /\ At("start")
    /\ ~HasRelated(Top.rec)
    /\ GoOn("alone", {})
    /\ result' = "none"
    /\ UNCHANGED <<conn, db, wrote, recordVars, callVars>>

\* preSaveRelatedRecords() begins with begin(false).
StartRelated(outcome) ==
    /\ At("start")
    /\ HasRelated(Top.rec)
    /\ LET r == Begin(conn, FALSE, outcome)
       IN  /\ conn' = r.conn
           /\ IF r.ret = "throw" THEN Throw
              ELSE GoOn("before", Parents(Top.rec)) /\ result' = "none"
    /\ UNCHANGED <<db, wrote, recordVars, callVars>>

\* A listener of prepareSave throws.
StartThrows ==
    /\ At("start")
    /\ "throw" \in Verdicts
    /\ Throw
    /\ UNCHANGED <<conn, db, wrote, recordVars, callVars>>

\* What is attached is no record, or the relation has several columns:
\* rollback(false), then an exception.
RelationThrows ==
    /\ At("before") \/ At("after")
    /\ Proceeding /\ Top.rest # {}
    /\ "throw" \in Verdicts
    /\ conn' = Rollback(conn, FALSE, "ok").conn
    /\ Throw
    /\ UNCHANGED <<db, wrote, recordVars, callVars>>

\* A belongs-to record that counts as persistent is not saved.
SkipParent(p) ==
    /\ At("before") /\ Proceeding
    /\ p \in Top.rest
    /\ dirtyState[p] = "persistent"
    /\ GoOn("before", Top.rest \ {p})
    /\ result' = "none"
    /\ UNCHANGED <<conn, db, wrote, recordVars, callVars>>

\* Mutant: belongs-to records are saved whatever their dirty state.
SaveAnyParent(p) ==
    /\ At("before") /\ Proceeding
    /\ p \in Top.rest
    /\ stack' = Append([stack EXCEPT ![Len(stack)].rest = @ \ {p}], Frame(p))
    /\ result' = "none"
    /\ UNCHANGED <<conn, db, wrote, recordVars, callVars>>

SaveParent(p) ==
    /\ At("before") /\ Proceeding
    /\ p \in Top.rest
    /\ dirtyState[p] # "persistent"
    /\ stack' = Append([stack EXCEPT ![Len(stack)].rest = @ \ {p}], Frame(p))
    /\ result' = "none"
    /\ UNCHANGED <<conn, db, wrote, recordVars, callVars>>

ParentFailed ==
    /\ At("before") /\ ~Proceeding
    /\ Fail(TRUE)
    /\ UNCHANGED <<wrote, recordVars, callVars>>

----------------------------------------------------------------------------
(* The record itself *)

\* exists(): no query without a key or for a persistent record; otherwise the
\* answer of the database also becomes the dirty state.
Exists(r) == keyed[r] /\ (dirtyState[r] = "persistent" \/ Visible(r))

\* Mutant: a record without a row is marked as detached.
DetachedAfterExists(r) ==
    IF ~keyed[r] \/ dirtyState[r] = "persistent" THEN dirtyState[r]
    ELSE IF Visible(r) THEN "persistent" ELSE "detached"

StateAfterExists(r) ==
    IF ~keyed[r] \/ dirtyState[r] = "persistent" THEN dirtyState[r]
    ELSE IF Visible(r) THEN "persistent" ELSE "transient"

\* Mutant: the record does not wait for the records it belongs to.
OwnTurnEarly ==
    /\ Proceeding
    /\ At("alone") \/ At("before")

OwnTurn ==
    /\ Proceeding
    /\ At("alone") \/ (At("before") /\ Top.rest = {})

Begun == Top.pc # "alone"

\* preSave() returns false: validation failed or a listener vetoed.
OwnVetoed ==
    /\ OwnTurn
    /\ "veto" \in Verdicts
    /\ dirtyState' = [dirtyState EXCEPT ![Top.rec] = StateAfterExists(Top.rec)]
    /\ IF call.throws
       THEN /\ conn' = IF Begun THEN Rollback(conn, FALSE, "ok").conn ELSE conn
            /\ Throw
            /\ UNCHANGED db
       ELSE Fail(Begun)
    /\ UNCHANGED <<keyed, pending, wrote, callVars>>

\* A listener throws, or preSave() does (a column that is not mapped).
OwnThrows ==
    /\ OwnTurn
    /\ "throw" \in Verdicts
    /\ dirtyState' = [dirtyState EXCEPT ![Top.rec] = StateAfterExists(Top.rec)]
    /\ Throw
    /\ UNCHANGED <<conn, db, keyed, pending, wrote, callVars>>

Inserted(r, outcome) == Execute(conn, <<r, calls>>, outcome)

\* UPDATE writes the row when it is there, and is a successful statement on
\* no row otherwise.
Updated(r, outcome) ==
    IF Visible(r) \/ Refused(conn, outcome) THEN Execute(conn, <<r, calls>>, outcome)
                                            ELSE Result(conn, {}, "true")

Written(r, outcome) == IF Exists(r) THEN Updated(r, outcome) ELSE Inserted(r, outcome)

\* On to the records saved after this one, if any can be attached.
OwnDone ==
    IF Begun THEN GoOn("after", Children(Top.rec)) /\ result' = "none"
             ELSE Answer("true")

\* preSave() returns true, also when a listener called skipOperation():
\* doLowInsert() or doLowUpdate() runs either way.
OwnWritten(verdict, outcome) ==
    /\ OwnTurn
    /\ verdict \in Verdicts \cap {"ok", "skip"}
    /\ LET r == Top.rec
           w == Written(r, outcome)
       IN  /\ dirtyState' = [dirtyState EXCEPT ![r] =
                                IF w.ret = "true" THEN "persistent" ELSE StateAfterExists(r)]
           /\ keyed' = [keyed EXCEPT ![r] = @ \/ w.ret = "true"]
           /\ db' = db \cup w.made
           /\ wrote' = IF w.ret = "true" /\ (Visible(r) \/ ~Exists(r))
                       THEN wrote \cup {r} ELSE wrote
           /\ CASE w.ret = "throw" -> conn' = w.conn /\ Throw
                [] w.ret = "false" ->
                     /\ conn' = IF Begun THEN Rollback(w.conn, FALSE, "ok").conn ELSE w.conn
                     /\ Answer("false")
                [] w.ret = "true" -> conn' = w.conn /\ OwnDone
    /\ UNCHANGED <<pending, callVars>>

\* doLowUpdate() finds no field to update: it returns true without a statement.
OwnUnchanged ==
    /\ OwnTurn
    /\ "unchanged" \in Verdicts
    /\ Exists(Top.rec)
    /\ dirtyState' = [dirtyState EXCEPT ![Top.rec] = "persistent"]
    /\ OwnDone
    /\ UNCHANGED <<conn, db, keyed, pending, wrote, callVars>>

----------------------------------------------------------------------------
(* postSaveRelatedRecords() *)

\* The next in the order of the relations and their records: an intermediate
\* record directly after the record it leads to.
NextAfter(c) ==
    LET due(x) == Joined(x) # {} /\ Joined(x) \cap Top.rest = {}
    IN  /\ c \in Top.rest
        /\ Joined(c) \cap Top.rest = {}
        /\ (\E x \in Top.rest : due(x)) => due(c)

\* An intermediate record is a new instance, or for has-one-through the one
\* that the database has.
LoadIntermediate(i) ==
    \E found \in {FALSE, Visible(i)} :
        /\ dirtyState' = [dirtyState EXCEPT ![i] = IF found THEN "persistent" ELSE "transient"]
        /\ keyed' = [keyed EXCEPT ![i] = found]
        /\ UNCHANGED pending

\* These records are saved whatever their dirty state.
SaveChild(c) ==
    /\ At("after") /\ Proceeding
    /\ NextAfter(c)
    /\ stack' = Append([stack EXCEPT ![Len(stack)].rest = @ \ {c}], Frame(c))
    /\ result' = "none"
    /\ IF Joined(c) = {} THEN UNCHANGED recordVars ELSE LoadIntermediate(c)
    /\ UNCHANGED <<conn, db, wrote, callVars>>

\* Mutant: a refused child ends the loop, and what is written is committed.
ChildFailedCommits ==
    /\ At("after") /\ ~Proceeding
    /\ LET r == Commit(conn, FALSE, "ok")
       IN  conn' = r.conn /\ db' = db \cup r.made
    /\ Return("false")
    /\ UNCHANGED <<wrote, recordVars, callVars>>

ChildFailed ==
    /\ At("after") /\ ~Proceeding
    /\ conn' = Rollback(conn, FALSE, "ok").conn
    /\ Answer("false")
    /\ UNCHANGED <<db, wrote, recordVars, callVars>>

\* Mutant: commits after the first child.
FinishEarly(outcome) ==
    /\ At("after") /\ Proceeding
    /\ LET r == Commit(conn, FALSE, outcome)
       IN  /\ conn' = r.conn
           /\ db' = db \cup r.made
           /\ IF r.ret = "throw" THEN Throw ELSE Answer("true")
    /\ pending' = pending \ {Top.rec}
    /\ UNCHANGED <<dirtyState, keyed, wrote, callVars>>

\* commit(false), whose answer is not looked at.  Between the listeners of
\* postSave() and those of afterSave, save() clears dirtyRelated.
FinishRelated(outcome) ==
    /\ At("after") /\ Proceeding
    /\ Top.rest = {}
    /\ LET r == Commit(conn, FALSE, outcome)
       IN  /\ conn' = r.conn
           /\ db' = db \cup r.made
           /\ \/ /\ r.ret = "throw" \/ "throw" \in Verdicts
                 /\ Throw
                 /\ pending' = pending
              \/ r.ret # "throw" /\ Answer("true") /\ pending' = pending \ {Top.rec}
    /\ UNCHANGED <<dirtyState, keyed, wrote, callVars>>

----------------------------------------------------------------------------
(* The application's own transactions, between save() calls *)

AppCalls(r) ==
    /\ AppTx /\ stack = <<>>
    /\ conn' = r.conn
    /\ db' = db \cup r.made
    /\ result' = "none"
    /\ UNCHANGED <<stack, wrote, recordVars, callVars>>

AppBegin    == conn.level < MaxLevel /\ AppCalls(Begin(conn, TRUE, "ok"))
AppCommit   == conn.level > 0 /\ AppCalls(Commit(conn, TRUE, "ok"))
AppRollback == conn.level > 0 /\ AppCalls(Rollback(conn, TRUE, "ok"))

Step ==
    \/ StartAlone \/ StartThrows \/ RelationThrows
    \/ \E outcome \in Outcome : StartRelated(outcome) \/ FinishRelated(outcome)
    \/ \E r \in Records : SkipParent(r) \/ SaveParent(r) \/ SaveChild(r)
    \/ ParentFailed \/ ChildFailed
    \/ OwnVetoed \/ OwnThrows \/ OwnUnchanged
    \/ \E verdict \in Verdicts, outcome \in Outcome : OwnWritten(verdict, outcome)

Next ==
    \/ \E r \in Records : Save(r)
    \/ Step
    \/ AppBegin \/ AppCommit \/ AppRollback

Spec == Init /\ [][Next]_vars

----------------------------------------------------------------------------
(* Properties *)

\* Types of the variables.
TypeOK ==
    /\ shape \in Shapes
    /\ conn.level \in Nat /\ conn.open
    /\ dirtyState \in [Records -> DirtyStates]
    /\ keyed \in [Records -> BOOLEAN]
    /\ pending \subseteq Records /\ cached \subseteq Records
    /\ calls \in 0..MaxCalls
    /\ result \in Returns \cup {"none"}
    /\ \A i \in 1..Len(stack) :
          /\ stack[i].rec \in Records
          /\ stack[i].pc \in {"start", "alone", "before", "after"}
          /\ stack[i].rest \subseteq Records
    /\ wrote \subseteq Records

Answered == stack = <<>> /\ result \in {"true", "false"}

\* A save() that answers, whatever it answers and wherever in the graph of
\* records a nested save() failed, leaves the nesting level of the connection
\* as it found it: begin(false) of preSaveRelatedRecords() is matched by
\* exactly one commit(false) or rollback(false).
LevelBalanced == Answered => conn.level = call.base

\* Outside a transaction of the application, the rows that one save() writes,
\* of the record and of everything attached to it, are all durable when it
\* answers true, and none of them is when it answers false.
AllOrNothing ==
    Answered /\ call.base = 0 =>
        {e[1] : e \in {x \in db : x[2] = calls}} = IF result = "true" THEN wrote ELSE {}

\* When the first save() of an object graph answers true, the record, the
\* records it belongs to and its children all have a row.
AttachedAreStored ==
    Answered /\ calls = 1 /\ result = "true" =>
        \A r \in {call.rec} \cup Parents(call.rec) \cup Children(call.rec) : Visible(r)

\* The foreign keys that the first save() copies point to rows: a row is never written
\* before, or survives without, the rows of the records it belongs to, nor an
\* intermediate row without the row it leads to.
ReferencesHold ==
    \A e \in db \cup conn.work :
        e[2] = 1 => \A p \in Parents(e[1]) \cup Joined(e[1]) : Visible(p)

\* No record makes part of a graph durable: outside a transaction of the
\* application the database changes only in the step that ends the call, by
\* an answer or an exception, and then by all that the call wrote.  Whoever
\* reads at another moment, or after a crash, sees none of the graph.
DurableAtOnce ==
    [][stack # <<>> /\ call.base = 0 /\ db' # db =>
          /\ stack' = <<>>
          /\ {e[1] : e \in {x \in db' : x[2] = calls}} = wrote']_vars

\* Of any records one is led to by none of them.
Acyclic(edges) ==
    \A S \in (SUBSET Records) \ {{}} : \E r \in S : \A x \in S : <<x, r>> \notin edges

\* Records that others belong to and that have children themselves: where the
\* nested calls can turn back.
Hubs == {p \in Records : Children(p) # {} /\ \E r \in Records : p \in Parents(r)}

\* Records attached to one another in both directions do not make save()
\* recurse without end: as long as neither the belongs-to nor the has-many
\* relations go round in a circle of their own, a record is on the stack at
\* most once more often than there are hubs.
DepthBounded ==
    Acyclic(shape.belongs) /\ Acyclic(shape.many) =>
        \A r \in Records :
            Cardinality({i \in 1..Len(stack) : stack[i].rec = r}) <= 1 + Cardinality(Hubs)

\* Why that recursion ends, in any graph: while a record that the call has
\* stored saves what is attached after it, no record saved on its behalf, at
\* any depth, saves it again as the parent it belongs to.
WrittenParentSkipped ==
    \A i, j \in 1..Len(stack) :
        /\ i < j /\ stack[i].rec = stack[j].rec
        /\ stack[i].pc = "after"
        => stack[j - 1].pc # "before"

\* Model.zep:2386 "Inserts or updates a model instance. Returning true on
\* success or false otherwise."
TrueMeansStored == Answered /\ result = "true" => Visible(call.rec)
=============================================================================
