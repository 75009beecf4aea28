------------------------- MODULE ModelDeleteProofs -------------------------
(***************************************************************************)
(* Proofs about delete() (ModelDelete), for any rows, any relations        *)
(* between them, any cascade and any fault: virtual foreign keys hold, no  *)
(* orphans are left, bulk deletions are all or nothing, and what is        *)
(* deleted is not deleted again below itself.                              *)
(***************************************************************************)
EXTENDS ModelDelete, PdoConnectionProofs, FiniteSetTheorems, SequenceTheorems

FrameType ==
    [pc : {"start", "ones", "many", "fetched", "walking"}, rec : Rows,
     rest : SUBSET Rows, deleted : BOOLEAN]

\* The work a session may have done or come back to when the rows in g are
\* durably deleted: with it no row is missing that a row still refers to.
Kept(s, g) ==
    {w \in SUBSET Rows : \A p \in s.restrict : p[1] \in g \cup w => p[2] \in g \cup w}

Inv ==
    /\ shape \in Shapes
    /\ gone \in SUBSET Rows
    /\ {} \in Kept(shape, gone)
    /\ conn \in Session(Kept(shape, gone))
    /\ stack \in Seq(FrameType)

LEMMA InvRestricts == Inv => RestrictHolds
BY ShapesAssumption DEF Inv, RestrictHolds, Session, ConnectionOf, Kept, Visible

LEMMA InitInv == Init => Inv
<1> SUFFICES ASSUME Init PROVE Inv
  OBVIOUS
<1>1. {} \in Kept(shape, gone)
  BY DEF Init, Kept
<1>2. PICK savepoints \in Savepoints :
          conn = Connect(Closed("mysql", savepoints), "ok").conn
  BY DEF Init
<1>3. savepoints \in BOOLEAN
  BY ChoicesAssumption
<1>4. Closed("mysql", savepoints) \in ConnectionOf(Kept(shape, gone))
  <2>1. <<>> \in Seq(PointOf(Kept(shape, gone)))
    OBVIOUS
  <2> QED
    BY <1>1, <1>3, <2>1 DEF Closed, ConnectionOf, Dialects
<1>5. conn \in Session(Kept(shape, gone))
  <2>1. Idle(Closed("mysql", savepoints)) \in Session(Kept(shape, gone))
    BY <1>1, <1>4, IdleSession
  <2> QED
    BY <1>2, <2>1 DEF Connect, Result, Session, ConnectionOf
<1> QED
  BY <1>1, <1>5 DEF Init, Inv

\* What the actions do to the stack.
LEMMA StackSteps ==
    ASSUME stack \in Seq(FrameType)
    PROVE  /\ stack # <<>> =>
                /\ Top \in FrameType
                /\ Front(stack) \in Seq(FrameType)
                /\ \A frame \in FrameType :
                      [stack EXCEPT ![Len(stack)] = frame] \in Seq(FrameType)
           /\ \A frame \in FrameType : Append(stack, frame) \in Seq(FrameType)
<1>1. ASSUME stack # <<>>
      PROVE  Len(stack) \in 1 .. Len(stack)
  BY <1>1
<1>2. ASSUME stack # <<>>
      PROVE  Top \in FrameType /\ Front(stack) \in Seq(FrameType)
  BY <1>1, <1>2 DEF Top, Last, Front
<1>3. ASSUME stack # <<>>, NEW frame \in FrameType
      PROVE  [stack EXCEPT ![Len(stack)] = frame] \in Seq(FrameType)
  BY <1>1, <1>3
<1> QED
  BY <1>2, <1>3

\* What a transaction method makes durable was work that keeps the keys.
LEMMA TransactionKeeps ==
    ASSUME Inv, NEW r, Steady(Kept(shape, gone), conn, r)
    PROVE  LET g == gone \cup r.made
           IN  /\ g \in SUBSET Rows
               /\ {} \in Kept(shape, g)
               /\ r.conn \in Session(Kept(shape, g))
<1>1. CASE r.made = {}
  <2>1. gone \cup r.made = gone
    BY <1>1
  <2> QED
    BY <2>1 DEF Inv, Steady
<1>2. CASE r.made = conn.work /\ r.conn.work = {} /\ r.conn.points = <<>>
  <2>1. conn.work \in Kept(shape, gone)
    BY DEF Inv, Session, ConnectionOf
  <2>2. {} \in Kept(shape, gone \cup r.made)
    BY <1>2, <2>1 DEF Kept
  <2>3. <<>> \in Seq(PointOf(Kept(shape, gone \cup r.made)))
    OBVIOUS
  <2> QED
    BY <1>2, <2>1, <2>2, <2>3 DEF Inv, Steady, Session, ConnectionOf, Kept
<1> QED
  BY <1>1, <1>2 DEF Steady

----------------------------------------------------------------------------
(* The stack after each kind of step *)

GoneOn(pc, rest) ==
    [stack EXCEPT ![Len(stack)].pc = pc, ![Len(stack)].rest = rest]

LEMMA GoneOnType ==
    ASSUME stack \in Seq(FrameType), stack # <<>>,
           NEW pc \in {"start", "ones", "many", "fetched", "walking"},
           NEW rest \in SUBSET Rows
    PROVE  GoneOn(pc, rest) \in Seq(FrameType)
<1> DEFINE frame == [[stack[Len(stack)] EXCEPT !.pc = pc] EXCEPT !.rest = rest]
<1>1. Len(stack) \in 1 .. Len(stack) /\ stack[Len(stack)] \in FrameType
  OBVIOUS
<1>2. frame \in FrameType
  BY <1>1 DEF FrameType
<1>3. GoneOn(pc, rest) = [stack EXCEPT ![Len(stack)] = frame]
  BY <1>1 DEF GoneOn
<1> QED
  BY <1>2, <1>3, StackSteps

LEMMA StackAfter ==
    ASSUME Inv, stack # <<>>
    PROVE  /\ \A ret : Return(ret) \/ Answer(ret) => stack' \in Seq(FrameType)
           /\ Throw => stack' \in Seq(FrameType)
           /\ \A pc \in {"ones", "many", "walking"}, rest \in SUBSET Rows :
                 /\ GoOn(pc, rest) => stack' \in Seq(FrameType)
                 /\ \A frame \in FrameType :
                       Nested(pc, rest, frame) => stack' \in Seq(FrameType)
<1>1. stack \in Seq(FrameType)
  BY DEF Inv
<1>2. Throw => stack' \in Seq(FrameType)
  BY DEF Throw
<1>3. \A ret : Return(ret) \/ Answer(ret) => stack' \in Seq(FrameType)
  <2>1. \A ret : Return(ret) => stack' = Front(stack)
    BY DEF Return
  <2>2. \A ret : Answer(ret) => Return(ret) \/ Throw
    BY DEF Answer
  <2> QED
    BY <1>1, <1>2, <2>1, <2>2, StackSteps
<1>4. ASSUME NEW pc \in {"ones", "many", "walking"}, NEW rest \in SUBSET Rows
      PROVE  /\ GoOn(pc, rest) => stack' \in Seq(FrameType)
             /\ \A frame \in FrameType :
                   Nested(pc, rest, frame) => stack' \in Seq(FrameType)
  <2>1. GoneOn(pc, rest) \in Seq(FrameType)
    BY <1>1, GoneOnType
  <2>2. GoOn(pc, rest) => stack' = GoneOn(pc, rest)
    BY DEF GoOn, GoneOn
  <2>3. \A frame : Nested(pc, rest, frame) => stack' = Append(GoneOn(pc, rest), frame)
    BY DEF Nested, GoneOn
  <2> QED
    BY <2>1, <2>2, <2>3
<1> QED
  BY <1>2, <1>3, <1>4

\* A step of the code that leaves the database alone.
LEMMA StackOnly ==
    ASSUME Inv, stack' \in Seq(FrameType), UNCHANGED <<conn, gone, shape>>
    PROVE  Inv'
BY DEF Inv

\* A step that calls a transaction method.
LEMMA TransactionStep ==
    ASSUME Inv, NEW r, Steady(Kept(shape, gone), conn, r), conn' = r.conn,
           gone' = gone \cup r.made, UNCHANGED shape, stack' \in Seq(FrameType)
    PROVE  Inv'
BY TransactionKeeps DEF Inv

LEMMA CallsKeep ==
    ASSUME Inv, NEW outcome \in Outcomes
    PROVE  /\ Steady(Kept(shape, gone), conn, Begin(conn, TRUE, outcome))
           /\ Steady(Kept(shape, gone), conn, Commit(conn, TRUE, outcome))
           /\ Steady(Kept(shape, gone), conn, Rollback(conn, TRUE, outcome))
BY MethodsSteady DEF Inv

\* The DELETE of a row that nothing refers to any more keeps the keys.
LEMMA RowKeeps ==
    ASSUME Inv, At("start"), ~Restricted(Top.rec), NEW outcome
    PROVE  LET d == Execute(conn, Top.rec, outcome)
               g == gone \cup d.made
           IN  /\ g \in SUBSET Rows
               /\ {} \in Kept(shape, g)
               /\ d.conn \in Session(Kept(shape, g))
<1> DEFINE row == Top.rec
           d   == Execute(conn, row, outcome)
<1>1. row \in Rows
  BY StackSteps DEF Inv, At, FrameType
<1>2. \A p \in shape.restrict : p[1] = row => p[2] \in gone \cup conn.work
  BY <1>1, ShapesAssumption DEF Inv, Restricted, Visible
<1>3. conn.work \in Kept(shape, gone) /\ {} \in Kept(shape, gone)
  BY DEF Inv, Session, ConnectionOf
<1>4. CASE d.conn = conn /\ d.made = {}
  <2>1. gone \cup d.made = gone
    BY <1>4
  <2> QED
    BY <1>4, <2>1 DEF Inv
<1>5. CASE conn.active /\ d = Result([conn EXCEPT !.work = @ \cup {row}], {}, "true")
  <2>1. conn.work \cup {row} \in Kept(shape, gone)
    BY <1>1, <1>2, <1>3 DEF Kept
  <2>2. d.made = {} /\ d.conn = [conn EXCEPT !.work = conn.work \cup {row}]
    BY <1>5 DEF Result
  <2>3. d.conn \in Session(Kept(shape, gone))
    BY <1>5, <2>1, <2>2 DEF Inv, Session, ConnectionOf
  <2> QED
    BY <2>2, <2>3 DEF Inv
<1>6. CASE ~conn.active /\ d = Result(conn, {row}, "true")
  <2>1. conn.work = {} /\ conn.points = <<>>
    BY <1>6 DEF Inv, Session
  <2>2. d.made = {row} /\ d.conn = conn
    BY <1>6 DEF Result
  <2>3. {} \in Kept(shape, gone \cup {row})
    BY <1>1, <1>2, <1>3, <2>1 DEF Kept
  <2>4. conn \in Session(Kept(shape, gone \cup {row}))
    <3>1. <<>> \in Seq(PointOf(Kept(shape, gone \cup {row})))
      OBVIOUS
    <3> QED
      BY <2>1, <2>3, <3>1 DEF Inv, Session, ConnectionOf
  <2> QED
    BY <1>1, <2>2, <2>3, <2>4 DEF Inv
<1> QED
  BY <1>4, <1>5, <1>6 DEF Execute, RefusalOf, Result

----------------------------------------------------------------------------
(* Every step *)

LEMMA StartInv ==
    ASSUME Inv, NEW rows, NEW kind, NEW frame \in FrameType, Start(rows, kind, frame)
    PROVE  Inv'
<1>1. stack' \in Seq(FrameType)
  BY DEF Start
<1> QED
  BY <1>1, StackOnly DEF Start

LEMMA StartsInv ==
    ASSUME Inv, NEW r \in Rows, NEW rows \in shape.sets
    PROVE  /\ DeleteRecord(r) => Inv'
           /\ DeleteSet(rows) => Inv'
           /\ DeleteQuery(rows) => Inv'
<1>1. Frame("start", r, {}) \in FrameType
  BY DEF Frame, FrameType
<1>2. rows \subseteq Rows
  BY ShapesAssumption DEF Inv
<1>3. Frame("fetched", CHOOSE x \in Rows : TRUE, {x \in rows : Visible(x)}) \in FrameType
  <2>1. (CHOOSE x \in Rows : TRUE) \in Rows
    BY RowsAssumption
  <2> QED
    BY <1>2, <2>1 DEF Frame, FrameType
<1> QED
  BY <1>1, <1>3, StartInv DEF DeleteRecord, DeleteSet, DeleteQuery, StartSet

\* Model::delete() and Resultset::delete(), but for the steps that reach the
\* database.
LEMMA StackStepsInv ==
    ASSUME Inv, NEW r \in Rows
    PROVE  /\ RecordRestricted => Inv'
           /\ RecordVetoed => Inv'
           /\ RecordSkipped => Inv'
           /\ RecordThrows => Inv'
           /\ CascadeOne(r) => Inv'
           /\ CascadeMany => Inv'
           /\ CascadeFailed => Inv'
           /\ RecordDone => Inv'
           /\ SetEmpty => Inv'
           /\ SetNext(r) => Inv'
           /\ SetPassOver(r) => Inv'
<1> USE DEF callVars
<1>1. \A pc : At(pc) => stack # <<>> /\ Top \in FrameType
  BY StackSteps DEF At, Inv
<1>2. \A frame \in FrameType, x \in Rows :
         /\ frame.rest \in SUBSET Rows /\ frame.rest \ {x} \in SUBSET Rows
         /\ frame.rec \in Rows
  BY DEF FrameType
<1>3. Frame("start", r, {}) \in FrameType
  BY DEF Frame, FrameType
<1>4. RecordRestricted => Inv'
  BY <1>1, StackAfter, StackOnly DEF RecordRestricted
<1>5. RecordVetoed => Inv'
  BY <1>1, StackAfter, StackOnly DEF RecordVetoed
<1>6. RecordSkipped => Inv'
  BY <1>1, StackAfter, StackOnly DEF RecordSkipped
<1>7. RecordThrows => Inv'
  BY <1>1, StackAfter, StackOnly DEF RecordThrows
<1>8. CascadeOne(r) => Inv'
  <2> SUFFICES ASSUME CascadeOne(r) PROVE Inv'
    OBVIOUS
  <2>1. stack # <<>> /\ Top.rest \ {r} \in SUBSET Rows
    BY <1>1, <1>2 DEF CascadeOne
  <2>2. \/ Nested("ones", Top.rest \ {r}, Frame("start", r, {}))
        \/ GoOn("ones", Top.rest \ {r})
    BY DEF CascadeOne
  <2>3. stack' \in Seq(FrameType)
    BY <1>3, <2>1, <2>2, StackAfter
  <2> QED
    BY <2>3, StackOnly DEF CascadeOne
<1>9. CascadeMany => Inv'
  <2> SUFFICES ASSUME CascadeMany PROVE Inv'
    OBVIOUS
  <2>1. stack # <<>> /\ Top.rec \in Rows
    BY <1>1, <1>2 DEF CascadeMany
  <2>2. Frame("fetched", Top.rec, Fetched(Top.rec)) \in FrameType
    BY <2>1 DEF Frame, FrameType, Fetched, Many
  <2>3. {} \in SUBSET Rows
    OBVIOUS
  <2>4. stack' \in Seq(FrameType)
    BY <2>1, <2>2, <2>3, StackAfter DEF CascadeMany
  <2> QED
    BY <2>4, StackOnly DEF CascadeMany
<1>10. CascadeFailed => Inv'
  BY <1>1, StackAfter, StackOnly DEF CascadeFailed
<1>11. RecordDone => Inv'
  BY <1>1, StackAfter, StackOnly DEF RecordDone
<1>12. SetEmpty => Inv'
  BY <1>1, StackAfter, StackOnly DEF SetEmpty
<1>13. SetNext(r) => Inv'
  BY <1>1, <1>2, <1>3, StackAfter, StackOnly DEF SetNext
<1>14. SetPassOver(r) => Inv'
  BY <1>1, <1>2, StackAfter, StackOnly DEF SetPassOver
<1> QED
  BY <1>4, <1>5, <1>6, <1>7, <1>8, <1>9, <1>10, <1>11, <1>12, <1>13, <1>14

LEMMA DeleteRowInv ==
    ASSUME Inv, NEW outcome, DeleteRow(outcome)
    PROVE  Inv'
<1> DEFINE d == Execute(conn, Top.rec, outcome)
<1>1. /\ At("start") /\ ~Restricted(Top.rec)
      /\ conn' = d.conn /\ gone' = gone \cup d.made /\ shape' = shape
  BY DEF DeleteRow, callVars
<1>2. stack # <<>> /\ Top \in FrameType
  BY <1>1, StackSteps DEF At, Inv
<1>3. stack' \in Seq(FrameType)
  <2>1. CASE d.ret = "throw"
    BY <1>2, <2>1, StackAfter DEF DeleteRow
  <2>2. CASE d.ret # "throw"
    <3> DEFINE next == [[[stack[Len(stack)] EXCEPT !.pc = "ones"]
                            EXCEPT !.rest = One(Top.rec)]
                            EXCEPT !.deleted = (d.ret = "true")]
    <3>1. Len(stack) \in 1 .. Len(stack) /\ stack[Len(stack)] \in FrameType
      BY <1>2 DEF Inv
    <3>2. One(Top.rec) \in SUBSET Rows
      BY DEF One
    <3>3. next \in FrameType
      <4> HIDE DEF d
      <4> QED BY <3>1, <3>2 DEF FrameType
    <3>4. stack' = [stack EXCEPT ![Len(stack)] = next]
      <4>1. stack' = [stack EXCEPT ![Len(stack)].pc = "ones",
                                   ![Len(stack)].rest = One(Top.rec),
                                   ![Len(stack)].deleted = (d.ret = "true")]
        BY <2>2 DEF DeleteRow
      <4> HIDE DEF d
      <4> QED BY <3>1, <4>1 DEF Inv
    <3> HIDE DEF next
    <3> QED
      BY <1>2, <3>3, <3>4, StackSteps DEF Inv
  <2> QED
    BY <2>1, <2>2
<1>4. LET g == gone \cup d.made
      IN  /\ g \in SUBSET Rows
          /\ {} \in Kept(shape, g)
          /\ d.conn \in Session(Kept(shape, g))
  BY <1>1, RowKeeps
<1> HIDE DEF d
<1> QED
  BY <1>1, <1>3, <1>4 DEF Inv

\* Resultset::delete() begins, ends or gives up its nesting level.
LEMMA SetInv ==
    ASSUME Inv, NEW outcome \in Outcomes
    PROVE  /\ SetBegin(outcome) => Inv'
           /\ SetFailed(outcome) => Inv'
           /\ SetDone(outcome) => Inv'
<1>1. \A pc : At(pc) => stack # <<>> /\ Top.rest \in SUBSET Rows
  BY StackSteps DEF At, Inv, FrameType
<1>2. SetBegin(outcome) => Inv'
  <2> SUFFICES ASSUME SetBegin(outcome) PROVE Inv'
    OBVIOUS
  <2> DEFINE r == Begin(conn, TRUE, outcome)
  <2>1. Throw \/ GoOn("walking", Top.rest)
    BY DEF SetBegin, Transact
  <2>2. conn' = r.conn /\ gone' = gone \cup r.made /\ shape' = shape
    BY DEF SetBegin, Transact, callVars
  <2>3. stack' \in Seq(FrameType)
    BY <1>1, <2>1, StackAfter DEF SetBegin
  <2>4. Steady(Kept(shape, gone), conn, r)
    BY CallsKeep
  <2> HIDE DEF r
  <2> QED
    BY <2>2, <2>3, <2>4, TransactionStep
<1>3. SetFailed(outcome) => Inv'
  <2> SUFFICES ASSUME SetFailed(outcome) PROVE Inv'
    OBVIOUS
  <2> DEFINE r == Rollback(conn, TRUE, outcome)
  <2>1. Throw \/ Return("false")
    BY DEF SetFailed, Transact
  <2>2. conn' = r.conn /\ gone' = gone \cup r.made /\ shape' = shape
    BY DEF SetFailed, Transact, callVars
  <2>3. stack' \in Seq(FrameType)
    BY <1>1, <2>1, StackAfter DEF SetFailed
  <2>4. Steady(Kept(shape, gone), conn, r)
    BY CallsKeep
  <2> HIDE DEF r
  <2> QED
    BY <2>2, <2>3, <2>4, TransactionStep
<1>4. SetDone(outcome) => Inv'
  <2> SUFFICES ASSUME SetDone(outcome) PROVE Inv'
    OBVIOUS
  <2> DEFINE r == Commit(conn, TRUE, outcome)
  <2>1. Throw \/ Return("true")
    BY DEF SetDone, Transact
  <2>2. conn' = r.conn /\ gone' = gone \cup r.made /\ shape' = shape
    BY DEF SetDone, Transact, callVars
  <2>3. stack' \in Seq(FrameType)
    BY <1>1, <2>1, StackAfter DEF SetDone
  <2>4. Steady(Kept(shape, gone), conn, r)
    BY CallsKeep
  <2> HIDE DEF r
  <2> QED
    BY <2>2, <2>3, <2>4, TransactionStep
<1> QED
  BY <1>2, <1>3, <1>4

LEMMA ApplicationInv ==
    ASSUME Inv
    PROVE  AppBegin \/ AppCommit \/ AppRollback => Inv'
<1>1. ASSUME NEW r, Steady(Kept(shape, gone), conn, r), AppCalls(r)
      PROVE  Inv'
  <2>1. /\ conn' = r.conn /\ gone' = gone \cup r.made
        /\ shape' = shape /\ stack' = stack
    BY <1>1 DEF AppCalls, callVars
  <2> QED
    BY <1>1, <2>1, TransactionStep DEF Inv
<1>2. "ok" \in Outcomes
  BY DEF Outcomes
<1> QED
  BY <1>1, <1>2, CallsKeep DEF AppBegin, AppCommit, AppRollback

LEMMA NextInv == Inv /\ [Next]_vars => Inv'
<1> SUFFICES ASSUME Inv, [Next]_vars PROVE Inv'
  OBVIOUS
<1>1. TxOutcome \subseteq Outcomes
  BY ChoicesAssumption DEF TxOutcome, Outcome, Outcomes
<1>2. CASE \E r \in Rows : DeleteRecord(r)
  <2>1. PICK r \in Rows : DeleteRecord(r)
    BY <1>2
  <2>2. Frame("start", r, {}) \in FrameType
    BY DEF Frame, FrameType
  <2> QED
    BY <2>1, <2>2, StartInv DEF DeleteRecord
<1>3. CASE \E rows \in shape.sets : DeleteSet(rows) \/ DeleteQuery(rows)
  BY <1>3, RowsAssumption, StartsInv
<1>4. CASE Step
  <2>1. CASE \E outcome \in TxOutcome :
                SetBegin(outcome) \/ SetFailed(outcome) \/ SetDone(outcome)
    BY <1>1, <2>1, SetInv
  <2>2. CASE \E outcome \in Outcome : DeleteRow(outcome)
    BY <2>2, DeleteRowInv
  <2>3. CASE \E r \in Rows : CascadeOne(r) \/ SetNext(r) \/ SetPassOver(r)
    BY <2>3, StackStepsInv
  <2> QED
    BY <1>4, <2>1, <2>2, <2>3, StackStepsInv, RowsAssumption DEF Step
<1>5. CASE AppBegin \/ AppCommit \/ AppRollback
  BY <1>5, ApplicationInv
<1>6. CASE UNCHANGED vars
  BY <1>6 DEF vars, Inv
<1> QED
  BY <1>2, <1>3, <1>4, <1>5, <1>6 DEF Next

\* Virtual foreign keys: no row is missing while a row refers to it by a
\* restricting relation, for any rows and relations, through cascades, bulk
\* deletes, savepoints, partial rollbacks and any failure of a statement or of
\* the commit that ends a transaction.
THEOREM RestrictCorrect == Spec => []RestrictHolds
<1>1. Spec => []Inv
  BY InitInv, NextInv, PTL DEF Spec
<1> QED
  BY <1>1, InvRestricts, PTL

----------------------------------------------------------------------------
(* The nesting level *)

\* Result sets that have begun a level and not ended it.
WalkersOf(s) == {i \in 1 .. Len(s) : s[i].pc = "walking"}
Walking(s)   == Cardinality(WalkersOf(s))

\* While a call runs the level is that of its start and one more for each
\* result set that is being walked; when it answers it is that of its start.
LevelInv ==
    /\ Inv
    /\ conn.open /\ call.base \in Nat
    /\ stack # <<>> => conn.level = call.base + Walking(stack)
    /\ Answered => conn.level = call.base

LEMMA WalkersFinite ==
    ASSUME NEW s \in Seq(FrameType)
    PROVE  IsFiniteSet(WalkersOf(s)) /\ Walking(s) \in Nat
<1>1. IsFiniteSet(1 .. Len(s))
  BY FS_Interval
<1>2. WalkersOf(s) \in SUBSET (1 .. Len(s))
  BY DEF WalkersOf
<1>3. IsFiniteSet(WalkersOf(s))
  BY <1>1, <1>2, FS_Subset
<1> QED
  BY <1>3, FS_CardinalityType DEF Walking

LEMMA WalkersBelow ==
    ASSUME stack \in Seq(FrameType), stack # <<>>
    PROVE  /\ Len(stack) \in WalkersOf(stack) <=> Top.pc = "walking"
           /\ WalkersOf(Front(stack)) = WalkersOf(stack) \ {Len(stack)}
           /\ Front(stack) \in Seq(FrameType)
<1>1. Len(stack) \in Nat \ {0} /\ Top = stack[Len(stack)]
  BY DEF Top, Last
<1> DEFINE n == Len(stack) - 1
<1>2. SubSeq(stack, 1, n) \in Seq(FrameType)
  BY <1>1
<1>3. /\ Len(SubSeq(stack, 1, n)) = n
      /\ \A i \in 1 .. n : SubSeq(stack, 1, n)[i] = stack[i]
  <2>1. n \in Nat /\ \A i \in 1 .. n : stack[i] \in FrameType
    BY <1>1
  <2> HIDE DEF n
  <2>2. \A i \in 1 .. n : 1 + i - 1 = i
    OBVIOUS
  <2> QED
    BY <2>1, <2>2, SubSeqProperties
<1>4. /\ Len(Front(stack)) = Len(stack) - 1
      /\ \A i \in 1 .. Len(stack) - 1 : Front(stack)[i] = stack[i]
  BY <1>3 DEF Front
<1>5. 1 .. Len(stack) - 1 = (1 .. Len(stack)) \ {Len(stack)}
  BY <1>1
<1> QED
  BY <1>1, <1>2, <1>4, <1>5 DEF WalkersOf, Front

LEMMA WalkersOn ==
    ASSUME stack \in Seq(FrameType), stack # <<>>,
           NEW pc \in {"start", "ones", "many", "fetched", "walking"},
           NEW rest \in SUBSET Rows
    PROVE  WalkersOf(GoneOn(pc, rest)) =
              IF pc = "walking" THEN WalkersOf(stack) \cup {Len(stack)}
                                ELSE WalkersOf(stack) \ {Len(stack)}
<1>1. Len(stack) \in 1 .. Len(stack) /\ stack[Len(stack)] \in FrameType
  OBVIOUS
<1>2. /\ Len(GoneOn(pc, rest)) = Len(stack)
      /\ \A i \in 1 .. Len(stack) :
            GoneOn(pc, rest)[i].pc = IF i = Len(stack) THEN pc ELSE stack[i].pc
  BY <1>1 DEF GoneOn, FrameType
<1> QED
  BY <1>1, <1>2 DEF WalkersOf

LEMMA WalkersAbove ==
    ASSUME NEW s \in Seq(FrameType), NEW frame \in FrameType, frame.pc # "walking"
    PROVE  WalkersOf(Append(s, frame)) = WalkersOf(s)
<1>1. /\ Len(Append(s, frame)) = Len(s) + 1 /\ Len(s) \in Nat
      /\ Append(s, frame)[Len(s) + 1] = frame
      /\ \A i \in 1 .. Len(s) : Append(s, frame)[i] = s[i]
  OBVIOUS
<1>2. 1 .. Len(s) + 1 = (1 .. Len(s)) \cup {Len(s) + 1}
  BY <1>1
<1> QED
  BY <1>1, <1>2 DEF WalkersOf

\* A call that throws is over and does not answer.
LEMMA ThrowLevel ==
    ASSUME LevelInv, Inv', conn'.open, call' = call, Throw
    PROVE  LevelInv'
BY DEF LevelInv, Throw, Answered

\* A frame returns: a record, or a result set that has ended its level.
LEMMA ReturnLevel ==
    ASSUME LevelInv, Inv', stack # <<>>, NEW ret, Return(ret), conn'.open, call' = call,
           conn'.level = IF Top.pc = "walking" THEN conn.level - 1 ELSE conn.level
    PROVE  LevelInv'
<1>1. stack \in Seq(FrameType) /\ conn.level = call.base + Walking(stack)
  BY DEF LevelInv, Inv
<1>2. stack' = Front(stack)
  BY DEF Return
<1>3. IsFiniteSet(WalkersOf(stack)) /\ Walking(stack) \in Nat
  BY <1>1, WalkersFinite
<1>4. Walking(stack') = IF Top.pc = "walking" THEN Walking(stack) - 1 ELSE Walking(stack)
  BY <1>1, <1>2, <1>3, WalkersBelow, FS_RemoveElement DEF Walking
<1>5. conn'.level = call'.base + Walking(stack')
  BY <1>1, <1>3, <1>4 DEF LevelInv
<1>6. stack' = <<>> => Walking(stack') = 0
  BY FS_EmptySet DEF Walking, WalkersOf
<1> QED
  BY <1>5, <1>6 DEF LevelInv, Answered

\* The innermost frame goes on, or is put aside for a new one.
LEMMA GoOnLevel ==
    ASSUME LevelInv, Inv', stack # <<>>, NEW s \in Seq(FrameType),
           conn'.open, call' = call,
           WalkersOf(s) = WalkersOf(stack), conn'.level = conn.level,
           \/ stack' = s
           \/ \E frame \in FrameType : frame.pc # "walking" /\ stack' = Append(s, frame),
           stack' # <<>>
    PROVE  LevelInv'
<1>1. Walking(stack') = Walking(stack)
  BY WalkersAbove DEF Walking
<1> QED
  BY <1>1 DEF LevelInv, Answered

LEMMA StartLevel ==
    ASSUME LevelInv, Inv', NEW rows, NEW kind, NEW frame \in FrameType,
           frame.pc # "walking", Start(rows, kind, frame)
    PROVE  LevelInv'
<1>1. /\ stack' = <<frame>> /\ conn' = conn /\ call'.base = conn.level
      /\ result' = "none"
  BY DEF Start
<1>2. WalkersOf(<<frame>>) = {}
  BY DEF WalkersOf
<1>3. Walking(stack') = 0
  BY <1>1, <1>2, FS_EmptySet DEF Walking
<1>4. conn.level \in Nat
  BY DEF LevelInv, Inv, Session, ConnectionOf
<1> QED
  BY <1>1, <1>3, <1>4 DEF LevelInv, Answered

LEMMA CallsCount ==
    ASSUME LevelInv, NEW outcome \in Outcomes
    PROVE  /\ LET r == Begin(conn, TRUE, outcome)
              IN  r.conn.level = conn.level + 1 /\ r.conn.open
           /\ conn.level > 0 =>
                 /\ LET r == Commit(conn, TRUE, outcome)
                    IN  r.conn.level = conn.level - 1 /\ r.conn.open
                 /\ LET r == Rollback(conn, TRUE, outcome)
                    IN  r.conn.level = conn.level - 1 /\ r.conn.open
<1> DEFINE W == Kept(shape, gone)
<1>1. {} \in W /\ conn \in Session(W) /\ conn.open
  BY DEF LevelInv, Inv
<1> HIDE DEF W
<1> QED
  BY <1>1, MethodsCount

\* The steps that leave the connection alone.
LEMMA StackLevels ==
    ASSUME LevelInv, Inv', NEW r \in Rows
    PROVE  /\ RecordRestricted => LevelInv'
           /\ RecordVetoed => LevelInv'
           /\ RecordSkipped => LevelInv'
           /\ RecordThrows => LevelInv'
           /\ CascadeOne(r) => LevelInv'
           /\ CascadeMany => LevelInv'
           /\ CascadeFailed => LevelInv'
           /\ RecordDone => LevelInv'
           /\ SetEmpty => LevelInv'
           /\ SetNext(r) => LevelInv'
           /\ SetPassOver(r) => LevelInv'
<1>1. stack \in Seq(FrameType) /\ conn.open
  BY DEF LevelInv, Inv
<1>2. stack # <<>> => Top \in FrameType /\ Top.rest \in SUBSET Rows /\ Top.rec \in Rows
  BY <1>1, StackSteps DEF FrameType
<1>3. ASSUME stack # <<>>, Top.pc # "walking", UNCHANGED <<conn, call>>,
             (\E ret : Answer(ret) \/ Return(ret)) \/ Throw
      PROVE  LevelInv'
  BY <1>1, <1>3, ReturnLevel, ThrowLevel DEF Answer
<1>4. ASSUME stack # <<>>, UNCHANGED <<conn, call>>,
             NEW pc \in {"ones", "many", "walking"}, pc = "walking" <=> Top.pc = "walking",
             NEW rest \in SUBSET Rows,
             \/ GoOn(pc, rest)
             \/ \E frame \in FrameType : frame.pc # "walking" /\ Nested(pc, rest, frame)
      PROVE  LevelInv'
  <2>1. GoneOn(pc, rest) \in Seq(FrameType)
    BY <1>1, <1>4, GoneOnType
  <2>2. WalkersOf(GoneOn(pc, rest)) = WalkersOf(stack)
    BY <1>1, <1>4, WalkersOn, WalkersBelow
  <2>3. \/ stack' = GoneOn(pc, rest)
        \/ \E frame \in FrameType :
              frame.pc # "walking" /\ stack' = Append(GoneOn(pc, rest), frame)
    BY <1>4 DEF GoOn, Nested, GoneOn
  <2>4. stack' # <<>>
    <3>1. GoneOn(pc, rest) # <<>>
      BY <1>1, <1>4 DEF GoneOn
    <3> QED
      BY <2>1, <2>3, <3>1
  <2> QED
    BY <1>1, <1>4, <2>1, <2>2, <2>3, <2>4, GoOnLevel
<1>5. Frame("start", r, {}) \in FrameType /\ Frame("start", r, {}).pc # "walking"
  BY DEF Frame, FrameType
<1>6. RecordRestricted => LevelInv'
  BY <1>3 DEF RecordRestricted, At, callVars
<1>7. RecordVetoed => LevelInv'
  BY <1>3 DEF RecordVetoed, At, callVars
<1>8. RecordSkipped => LevelInv'
  BY <1>3 DEF RecordSkipped, At, callVars
<1>9. RecordThrows => LevelInv'
  BY <1>3 DEF RecordThrows, At, callVars
<1>10. CascadeOne(r) => LevelInv'
  <2> SUFFICES ASSUME CascadeOne(r) PROVE LevelInv'
    OBVIOUS
  <2>1. stack # <<>> /\ Top.pc = "ones" /\ UNCHANGED <<conn, call>>
        /\ Top.rest \ {r} \in SUBSET Rows
    BY <1>2 DEF CascadeOne, At, callVars
  <2>2. \/ Nested("ones", Top.rest \ {r}, Frame("start", r, {}))
        \/ GoOn("ones", Top.rest \ {r})
    BY DEF CascadeOne
  <2> QED
    BY <1>4, <1>5, <2>1, <2>2
<1>11. CascadeMany => LevelInv'
  <2> SUFFICES ASSUME CascadeMany PROVE LevelInv'
    OBVIOUS
  <2> DEFINE frame == Frame("fetched", Top.rec, Fetched(Top.rec))
  <2>1. /\ stack # <<>> /\ Top.pc = "ones" /\ UNCHANGED <<conn, call>>
        /\ Nested("many", {}, frame)
    BY DEF CascadeMany, At, callVars
  <2>2. frame \in FrameType /\ frame.pc # "walking"
    BY <1>2, <2>1 DEF Frame, FrameType, Fetched, Many
  <2>3. {} \in SUBSET Rows
    OBVIOUS
  <2> HIDE DEF frame
  <2> QED
    BY <1>4, <2>1, <2>2, <2>3
<1>12. CascadeFailed => LevelInv'
  BY <1>3 DEF CascadeFailed, At, callVars
<1>13. RecordDone => LevelInv'
  BY <1>3 DEF RecordDone, At, callVars
<1>14. SetEmpty => LevelInv'
  BY <1>3 DEF SetEmpty, At, callVars
<1>15. SetNext(r) => LevelInv'
  <2> SUFFICES ASSUME SetNext(r) PROVE LevelInv'
    OBVIOUS
  <2>1. /\ stack # <<>> /\ Top.pc = "walking" /\ UNCHANGED <<conn, call>>
        /\ Nested("walking", Top.rest \ {r}, Frame("start", r, {}))
        /\ Top.rest \ {r} \in SUBSET Rows
    BY <1>2 DEF SetNext, At, callVars
  <2> QED
    BY <1>4, <1>5, <2>1
<1>16. SetPassOver(r) => LevelInv'
  <2> SUFFICES ASSUME SetPassOver(r) PROVE LevelInv'
    OBVIOUS
  <2>1. /\ stack # <<>> /\ Top.pc = "walking" /\ UNCHANGED <<conn, call>>
        /\ GoOn("walking", Top.rest \ {r})
        /\ Top.rest \ {r} \in SUBSET Rows
    BY <1>2 DEF SetPassOver, At, callVars
  <2> QED
    BY <1>4, <2>1
<1> QED
  BY <1>6, <1>7, <1>8, <1>9, <1>10, <1>11, <1>12, <1>13, <1>14, <1>15, <1>16

\* Neither a DELETE that works nor one that fails changes the level.
LEMMA DeleteRowLevel ==
    ASSUME LevelInv, Inv', NEW outcome, DeleteRow(outcome)
    PROVE  LevelInv'
<1> DEFINE d == Execute(conn, Top.rec, outcome)
<1>1. stack \in Seq(FrameType) /\ conn.open /\ stack # <<>> /\ Top.pc = "start"
  BY DEF LevelInv, Inv, DeleteRow, At
<1>2. conn' = d.conn /\ call' = call
  BY DEF DeleteRow, callVars
<1>3. d.conn.level = conn.level /\ d.conn.open
  BY <1>1 DEF Execute, RefusalOf, Result, LevelInv, Inv, Session, ConnectionOf
<1>4. CASE d.ret = "throw"
  BY <1>2, <1>3, <1>4, ThrowLevel DEF DeleteRow
<1>5. CASE d.ret # "throw"
  <2>1. stack' = [stack EXCEPT ![Len(stack)].pc = "ones",
                               ![Len(stack)].rest = One(Top.rec),
                               ![Len(stack)].deleted = (d.ret = "true")]
    BY <1>5 DEF DeleteRow
  <2> HIDE DEF d
  <2>2. Len(stack) \in 1 .. Len(stack) /\ stack[Len(stack)] \in FrameType
    BY <1>1
  <2>3. /\ Len(stack') = Len(stack)
        /\ \A i \in 1 .. Len(stack) :
              stack'[i].pc = IF i = Len(stack) THEN "ones" ELSE stack[i].pc
    BY <1>1, <2>1, <2>2 DEF FrameType
  <2>4. WalkersOf(stack') = WalkersOf(stack) /\ stack' # <<>>
    <3>1. stack[Len(stack)].pc = "start"
      BY <1>1 DEF Top, Last
    <3>2. WalkersOf(stack') = WalkersOf(stack)
      BY <2>2, <2>3, <3>1 DEF WalkersOf
    <3> QED
      BY <2>2, <2>3, <3>2
  <2>5. stack' \in Seq(FrameType)
    BY DEF Inv
  <2> QED
    BY <1>1, <1>2, <1>3, <2>4, <2>5, GoOnLevel
<1> QED
  BY <1>4, <1>5

\* Resultset::delete() begins a level and ends it.
LEMMA SetLevel ==
    ASSUME LevelInv, Inv', NEW outcome \in Outcomes
    PROVE  /\ SetBegin(outcome) => LevelInv'
           /\ SetFailed(outcome) => LevelInv'
           /\ SetDone(outcome) => LevelInv'
<1>1. stack \in Seq(FrameType) /\ conn.open /\ conn.level \in Nat /\ call.base \in Nat
  BY DEF LevelInv, Inv, Session, ConnectionOf
<1>2. SetBegin(outcome) => LevelInv'
  <2> SUFFICES ASSUME SetBegin(outcome) PROVE LevelInv'
    OBVIOUS
  <2>1. /\ stack # <<>> /\ Top.pc = "fetched" /\ call' = call
        /\ conn'.level = conn.level + 1 /\ conn'.open
        /\ Throw \/ GoOn("walking", Top.rest)
    BY CallsCount DEF SetBegin, Transact, At, callVars
  <2>2. CASE Throw
    BY <2>1, <2>2, ThrowLevel
  <2>3. CASE GoOn("walking", Top.rest)
    <3>1. Top.rest \in SUBSET Rows
      BY <1>1, <2>1, StackSteps DEF FrameType
    <3>2. stack' = GoneOn("walking", Top.rest)
      BY <2>3 DEF GoOn, GoneOn
    <3>3. /\ WalkersOf(stack') = WalkersOf(stack) \cup {Len(stack)}
          /\ Len(stack) \notin WalkersOf(stack)
      BY <1>1, <2>1, <3>1, <3>2, WalkersOn, WalkersBelow
    <3>4. IsFiniteSet(WalkersOf(stack)) /\ Walking(stack) \in Nat
      BY <1>1, WalkersFinite
    <3>5. Walking(stack') = Walking(stack) + 1
      BY <3>3, <3>4, FS_AddElement DEF Walking
    <3>6. stack' # <<>>
      BY <1>1, <2>1, <3>2 DEF GoneOn
    <3> QED
      BY <1>1, <2>1, <3>4, <3>5, <3>6 DEF LevelInv, Answered
  <2> QED
    BY <2>1, <2>2, <2>3
<1>3. ASSUME At("walking")
      PROVE  conn.level > 0
  <2>1. Len(stack) \in WalkersOf(stack) /\ stack # <<>>
    BY <1>1, <1>3, WalkersBelow DEF At
  <2>2. IsFiniteSet(WalkersOf(stack)) /\ Walking(stack) \in Nat
    BY <1>1, WalkersFinite
  <2>3. Walking(stack) # 0
    BY <2>1, <2>2, FS_EmptySet DEF Walking
  <2> QED
    BY <1>1, <2>1, <2>2, <2>3 DEF LevelInv
<1>4. ASSUME stack # <<>>, Top.pc = "walking", call' = call,
             conn'.level = conn.level - 1, conn'.open,
             Throw \/ \E ret : Return(ret)
      PROVE  LevelInv'
  BY <1>4, ReturnLevel, ThrowLevel
<1>5. SetFailed(outcome) => LevelInv'
  <2> SUFFICES ASSUME SetFailed(outcome) PROVE LevelInv'
    OBVIOUS
  <2>1. conn.level > 0
    BY <1>3 DEF SetFailed
  <2>2. /\ stack # <<>> /\ Top.pc = "walking" /\ call' = call
        /\ conn'.level = conn.level - 1 /\ conn'.open
        /\ Throw \/ Return("false")
    BY <2>1, CallsCount DEF SetFailed, Transact, At, callVars
  <2> QED
    BY <1>4, <2>2
<1>6. SetDone(outcome) => LevelInv'
  <2> SUFFICES ASSUME SetDone(outcome) PROVE LevelInv'
    OBVIOUS
  <2>1. conn.level > 0
    BY <1>3 DEF SetDone
  <2>2. /\ stack # <<>> /\ Top.pc = "walking" /\ call' = call
        /\ conn'.level = conn.level - 1 /\ conn'.open
        /\ Throw \/ Return("true")
    BY <2>1, CallsCount DEF SetDone, Transact, At, callVars
  <2> QED
    BY <1>4, <2>2
<1> QED
  BY <1>2, <1>5, <1>6

LEMMA NextLevel == LevelInv /\ [Next]_vars => LevelInv'
<1> SUFFICES ASSUME LevelInv, [Next]_vars PROVE LevelInv'
  OBVIOUS
<1>1. Inv /\ Inv'
  BY NextInv DEF LevelInv
<1>2. TxOutcome \subseteq Outcomes
  BY ChoicesAssumption DEF TxOutcome, Outcome, Outcomes
<1>3. CASE \E r \in Rows : DeleteRecord(r)
  <2>1. PICK r \in Rows : DeleteRecord(r)
    BY <1>3
  <2>2. Frame("start", r, {}) \in FrameType /\ Frame("start", r, {}).pc # "walking"
    BY DEF Frame, FrameType
  <2> QED
    BY <1>1, <2>1, <2>2, StartLevel DEF DeleteRecord
<1>4. CASE \E rows \in shape.sets : DeleteSet(rows) \/ DeleteQuery(rows)
  <2>1. PICK rows \in shape.sets : DeleteSet(rows) \/ DeleteQuery(rows)
    BY <1>4
  <2> DEFINE found == {x \in rows : Visible(x)}
             frame == Frame("fetched", CHOOSE x \in Rows : TRUE, found)
  <2>2. rows \subseteq Rows
    BY <1>1, ShapesAssumption DEF Inv
  <2>3. frame \in FrameType /\ frame.pc # "walking"
    <3>1. (CHOOSE x \in Rows : TRUE) \in Rows
      BY RowsAssumption
    <3> QED
      BY <2>2, <3>1 DEF Frame, FrameType
  <2>4. PICK kind \in {"set", "query"} : Start(found, kind, frame)
    BY <2>1 DEF DeleteSet, DeleteQuery, StartSet
  <2> HIDE DEF found, frame
  <2> QED
    BY <1>1, <2>3, <2>4, StartLevel
<1>5. CASE Step
  <2>1. CASE \E outcome \in TxOutcome :
                SetBegin(outcome) \/ SetFailed(outcome) \/ SetDone(outcome)
    BY <1>1, <1>2, <2>1, SetLevel
  <2>2. CASE \E outcome \in Outcome : DeleteRow(outcome)
    BY <1>1, <2>2, DeleteRowLevel
  <2>3. CASE \E r \in Rows : CascadeOne(r) \/ SetNext(r) \/ SetPassOver(r)
    BY <1>1, <2>3, StackLevels
  <2> QED
    BY <1>1, <1>5, <2>1, <2>2, <2>3, StackLevels, RowsAssumption DEF Step
<1>6. CASE AppBegin \/ AppCommit \/ AppRollback
  <2>1. "ok" \in Outcomes
    BY DEF Outcomes
  <2>2. conn'.open
    BY <1>6, <2>1, CallsCount DEF AppBegin, AppCommit, AppRollback, AppCalls
  <2>3. stack' = <<>> /\ result' = "none" /\ call' = call
    BY <1>6 DEF AppBegin, AppCommit, AppRollback, AppCalls, callVars
  <2> QED
    BY <1>1, <2>2, <2>3 DEF LevelInv, Answered
<1>7. CASE UNCHANGED vars
  BY <1>1, <1>7 DEF vars, LevelInv, Answered, Walking, WalkersOf
<1> QED
  BY <1>3, <1>4, <1>5, <1>6, <1>7 DEF Next

\* A delete() that answers has ended every nesting level it began, for any
\* relations and depth of the cascade and whatever fails on the way.
THEOREM LevelCorrect == Spec => []LevelBalanced
<1>1. Init => LevelInv
  <2> SUFFICES ASSUME Init PROVE LevelInv
    OBVIOUS
  <2>1. PICK savepoints \in Savepoints :
            conn = Connect(Closed("mysql", savepoints), "ok").conn
    BY DEF Init
  <2>2. conn.open
    BY <2>1 DEF Connect, Closed, Idle, Result
  <2>3. stack = <<>> /\ result = "none" /\ call.base = 0
    BY DEF Init
  <2> QED
    BY <2>2, <2>3, InitInv DEF LevelInv, Answered
<1>2. LevelInv => LevelBalanced
  BY DEF LevelInv, LevelBalanced
<1> QED
  BY <1>1, <1>2, NextLevel, PTL DEF Spec
----------------------------------------------------------------------------
(* What a call is still to delete *)

SetFrame(f)    == f.pc \in {"fetched", "walking"}
RecordFrame(f) == f.pc \in {"start", "ones", "many"}

OneOf(sh, r)  == {x \in Rows : <<r, x>> \in sh.one}
ManyOf(sh, r) == {x \in Rows : <<r, x>> \in sh.many}

\* A frame that another one is on calls it: a record its has-one records, then
\* the result set of its has-many records, and a result set its records.
LinkedAt(s, i) ==
    /\ s[i].pc \in {"ones", "many", "walking"}
    /\ s[i].pc = "many" => SetFrame(s[i + 1]) /\ s[i + 1].rec = s[i].rec
    /\ s[i].pc # "many" => RecordFrame(s[i + 1])
Linked(s) == \A i \in 1 .. (Len(s) - 1) : LinkedAt(s, i)

\* What frame i goes through: it is missing or left out, still to come, or
\* what the frame above it deletes.  rows is what the call is to delete.
Goal(sh, rows, s, i) == IF i = 1 THEN rows ELSE ManyOf(sh, s[i].rec)
Called(s, i, x) == i < Len(s) /\ x = s[i + 1].rec
FrameCovers(sh, rows, s, i, cov, miss) ==
    /\ SetFrame(s[i]) =>
          \A x \in Goal(sh, rows, s, i) : x \in s[i].rest \/ x \in cov \/ Called(s, i, x)
    /\ s[i].pc = "ones" =>
          \A x \in OneOf(sh, s[i].rec) : x \in s[i].rest \/ x \in cov \/ Called(s, i, x)
    /\ s[i].pc = "many" => OneOf(sh, s[i].rec) \subseteq cov
    /\ s[i].pc = "many" /\ i = Len(s) => ManyOf(sh, s[i].rec) \subseteq cov
    /\ s[i].deleted => s[i].rec \in miss /\ s[i].pc \in {"ones", "many"}

\* The records of s that are being deleted.
InProgress(s, r) == \E i \in 1 .. Len(s) : s[i].pc \in {"ones", "many"} /\ s[i].rec = r
Owned(sh, r) == OneOf(sh, r) \cup ManyOf(sh, r)
Covered == Missing \cup spared

\* The lower frames of a stack whose top changes.
LEMMA LowerCovers ==
    ASSUME NEW sh, NEW rows, NEW s \in Seq(FrameType), NEW t \in Seq(FrameType),
           NEW k \in Nat, k < Len(s), k < Len(t), \A i \in 1 .. k : t[i] = s[i],
           t[k + 1].rec = s[k + 1].rec, NEW cov, NEW cov2, cov \subseteq cov2,
           NEW miss, NEW miss2, miss \subseteq miss2,
           \A i \in 1 .. k : FrameCovers(sh, rows, s, i, cov, miss)
    PROVE  \A i \in 1 .. k : FrameCovers(sh, rows, t, i, cov2, miss2)
<1> SUFFICES ASSUME NEW i \in 1 .. k PROVE FrameCovers(sh, rows, t, i, cov2, miss2)
  OBVIOUS
<1>1. /\ t[i] = s[i] /\ i < Len(s) /\ i < Len(t) /\ i # Len(s) /\ i # Len(t)
      /\ FrameCovers(sh, rows, s, i, cov, miss)
  OBVIOUS
<1>2. t[i + 1].rec = s[i + 1].rec
  <2>1. CASE i = k
    BY <2>1
  <2>2. CASE i # k
    BY <2>2
  <2> QED BY <2>1, <2>2
<1>3. \A x : Called(t, i, x) <=> Called(s, i, x)
  BY <1>1, <1>2 DEF Called
<1>4. Goal(sh, rows, t, i) = Goal(sh, rows, s, i)
  BY <1>1 DEF Goal
<1> QED BY <1>1, <1>3, <1>4 DEF FrameCovers

LEMMA LowerLinked ==
    ASSUME NEW s \in Seq(FrameType), NEW t \in Seq(FrameType),
           NEW k \in Nat, k < Len(s), k < Len(t), \A i \in 1 .. k : t[i] = s[i],
           t[k + 1].rec = s[k + 1].rec, SetFrame(t[k + 1]) <=> SetFrame(s[k + 1]),
           RecordFrame(t[k + 1]) <=> RecordFrame(s[k + 1]), Linked(s)
    PROVE  \A i \in 1 .. k : LinkedAt(t, i)
<1> SUFFICES ASSUME NEW i \in 1 .. k PROVE LinkedAt(t, i)
  OBVIOUS
<1>1. t[i] = s[i] /\ LinkedAt(s, i)
  BY DEF Linked
<1>2. CASE i = k
  BY <1>1, <1>2 DEF LinkedAt
<1>3. CASE i # k
  <2>1. t[i + 1] = s[i + 1]
    BY <1>3
  <2> QED BY <1>1, <2>1 DEF LinkedAt
<1> QED BY <1>2, <1>3

\* The stacks that the steps leave.
LEMMA FrontOf ==
    ASSUME NEW s \in Seq(FrameType), s # <<>>
    PROVE  /\ Front(s) \in Seq(FrameType) /\ Len(s) \in Nat /\ Len(s) > 0
           /\ Len(Front(s)) = Len(s) - 1
           /\ \A i \in 1 .. (Len(s) - 1) : Front(s)[i] = s[i]
           /\ Front(s) = <<>> <=> Len(s) = 1
<1> DEFINE m == Len(s) - 1
           t == Front(s)
<1>1. t = SubSeq(s, 1, m) /\ m \in 0 .. Len(s) /\ Len(s) \in Nat /\ Len(s) > 0
  BY DEF Front
<1> HIDE DEF m, t
<1>2. t \in Seq(FrameType) /\ Len(t) = m /\ \A i \in 1 .. m : t[i] = s[i]
  BY <1>1
<1>3. t = <<>> <=> m = 0
  BY <1>2
<1> QED BY <1>1, <1>2, <1>3 DEF m, t

LEMMA GoneOnOf ==
    ASSUME stack \in Seq(FrameType), stack # <<>>,
           NEW pc \in {"start", "ones", "many", "fetched", "walking"},
           NEW rest \in SUBSET Rows, NEW t, t = GoneOn(pc, rest)
    PROVE  /\ t \in Seq(FrameType) /\ Len(t) = Len(stack)
           /\ Len(stack) \in Nat /\ Len(stack) > 0
           /\ \A i \in 1 .. (Len(stack) - 1) : t[i] = stack[i]
           /\ t[Len(stack)].pc = pc /\ t[Len(stack)].rest = rest
           /\ t[Len(stack)].rec = Top.rec /\ (t[Len(stack)].deleted <=> Top.deleted)
<1>1. Len(stack) \in 1 .. Len(stack) /\ stack[Len(stack)] \in FrameType
  OBVIOUS
<1>2. Top = stack[Len(stack)]
  BY DEF Top, Last
<1> DEFINE f  == stack[Len(stack)]
           f2 == [[f EXCEPT !.pc = pc] EXCEPT !.rest = rest]
<1>3. f2.pc = pc /\ f2.rest = rest /\ f2.rec = f.rec /\ (f2.deleted <=> f.deleted)
  BY <1>1 DEF FrameType
<1>4. t = [stack EXCEPT ![Len(stack)] = f2]
  BY <1>1 DEF GoneOn
<1>5. t \in Seq(FrameType)
  BY GoneOnType
<1> HIDE DEF f2
<1>6. /\ Len(t) = Len(stack) /\ Len(stack) \in Nat /\ Len(stack) > 0
      /\ \A i \in 1 .. (Len(stack) - 1) : t[i] = stack[i]
  BY <1>1, <1>4
<1>7. t[Len(stack)] = f2
  BY <1>1, <1>4
<1> QED BY <1>2, <1>3, <1>5, <1>6, <1>7

LEMMA AppendOf ==
    ASSUME NEW s \in Seq(FrameType), NEW f \in FrameType, NEW t, t = Append(s, f)
    PROVE  /\ t \in Seq(FrameType) /\ Len(t) = Len(s) + 1 /\ Len(s) \in Nat
           /\ \A i \in 1 .. Len(s) : t[i] = s[i]
           /\ t[Len(s) + 1] = f
OBVIOUS

\* Every frame covers what it goes through, and whatever the call deleted has
\* its owned rows covered or is still at it.
Covers(sh, rows, s, cov, miss) ==
    \A i \in 1 .. Len(s) : FrameCovers(sh, rows, s, i, cov, miss)
Handled(sh, s, miss, before, cov) ==
    \A r \in miss \ before : InProgress(s, r) \/ Owned(sh, r) \subseteq cov

\* A frame that has just been called has no answer yet, and the outermost
\* frame is that of the call.
Entered(s, kind, res) ==
    s # <<>> => /\ s[Len(s)].pc \in {"start", "fetched"} => res = "none"
                /\ SetFrame(s[1]) <=> kind \in {"set", "query"}

CoverInv ==
    /\ Linked(stack)
    /\ Entered(stack, call.kind, result)
    /\ stack # <<>> /\ result # "false" => Covers(shape, call.rows, stack, Covered, Missing)
    /\ (stack # <<>> /\ result # "false") \/ result = "true" =>
          Handled(shape, stack, Missing, call.before, Covered)
    /\ stack = <<>> /\ result = "true" /\ call.kind \in {"set", "query"} =>
          call.rows \subseteq Covered

SameBelow(s, t, n) == \A i \in 1 .. n : t[i] = s[i]

\* The innermost frame goes on, perhaps below a new one.
OnTop(s, t, n) ==
    /\ n = Len(s) /\ n > 0 /\ (Len(t) = n \/ Len(t) = n + 1)
    /\ SameBelow(s, t, n - 1)
    /\ t[n].rec = s[n].rec /\ (SetFrame(t[n]) <=> SetFrame(s[n]))

LEMMA LinkedOn ==
    ASSUME NEW s, s \in Seq(FrameType), NEW t, t \in Seq(FrameType), NEW n, OnTop(s, t, n),
           Linked(s), Len(t) > n => LinkedAt(t, n)
    PROVE  Linked(t)
<1> DEFINE k == n - 1
<1>1. /\ k \in Nat /\ n = k + 1 /\ n = Len(s) /\ k < Len(s) /\ k < Len(t)
      /\ (Len(t) = n \/ Len(t) = n + 1)
      /\ t[n].rec = s[n].rec /\ (SetFrame(t[n]) <=> SetFrame(s[n]))
  BY DEF OnTop
<1>2. \A i \in 1 .. k : t[i] = s[i]
  BY DEF OnTop, SameBelow
<1>3. t[n] \in FrameType /\ s[n] \in FrameType
  BY <1>1
<1>4. RecordFrame(t[n]) <=> RecordFrame(s[n])
  BY <1>1, <1>3 DEF FrameType, RecordFrame, SetFrame
<1> HIDE DEF k
<1>5. \A i \in 1 .. k : LinkedAt(t, i)
  BY <1>1, <1>2, <1>4, LowerLinked
<1> QED BY <1>1, <1>5 DEF Linked

LEMMA CoversOn ==
    ASSUME NEW sh, NEW rows, NEW s, s \in Seq(FrameType), NEW t, t \in Seq(FrameType),
           NEW n, OnTop(s, t, n), NEW cov, NEW cov2, cov \subseteq cov2,
           NEW miss, NEW miss2, miss \subseteq miss2, Covers(sh, rows, s, cov, miss),
           FrameCovers(sh, rows, t, n, cov2, miss2),
           Len(t) > n => FrameCovers(sh, rows, t, n + 1, cov2, miss2)
    PROVE  Covers(sh, rows, t, cov2, miss2)
<1> DEFINE k == n - 1
<1>1. /\ k \in Nat /\ n = k + 1 /\ n = Len(s) /\ k < Len(s) /\ k < Len(t)
      /\ (Len(t) = n \/ Len(t) = n + 1) /\ t[n].rec = s[n].rec
  BY DEF OnTop
<1>2. \A i \in 1 .. k : t[i] = s[i]
  BY DEF OnTop, SameBelow
<1> HIDE DEF k
<1>3. \A i \in 1 .. k : FrameCovers(sh, rows, s, i, cov, miss)
  BY <1>1 DEF Covers
<1>4. \A i \in 1 .. k : FrameCovers(sh, rows, t, i, cov2, miss2)
  BY <1>1, <1>2, <1>3, LowerCovers
<1>5. \A i \in 1 .. Len(t) : i \in 1 .. k \/ i = n \/ (i = n + 1 /\ Len(t) > n)
  BY <1>1
<1> QED BY <1>4, <1>5 DEF Covers

LEMMA HandledOn ==
    ASSUME NEW sh, NEW before, NEW s, s \in Seq(FrameType), NEW t, t \in Seq(FrameType),
           NEW n, OnTop(s, t, n), NEW cov, NEW cov2, cov \subseteq cov2,
           NEW miss, NEW miss2, miss2 \subseteq miss \cup {s[n].rec},
           Handled(sh, s, miss, before, cov),
           s[n].pc \in {"ones", "many"} \/ ~(miss2 \subseteq miss) => t[n].pc \in {"ones", "many"}
    PROVE  Handled(sh, t, miss2, before, cov2)
<1>1. /\ n = Len(s) /\ n \in Nat /\ n > 0 /\ Len(t) \in Nat /\ Len(t) >= n
      /\ \A i \in 1 .. (n - 1) : t[i] = s[i]
      /\ t[n].rec = s[n].rec
  BY DEF OnTop, SameBelow
<1>2. ASSUME NEW r, InProgress(s, r)
      PROVE  InProgress(t, r)
  <2>1. PICK i \in 1 .. n : s[i].pc \in {"ones", "many"} /\ s[i].rec = r
    BY <1>1, <1>2 DEF InProgress
  <2>2. i \in 1 .. Len(t)
    BY <1>1
  <2>3. CASE i = n
    BY <1>1, <2>1, <2>2, <2>3 DEF InProgress
  <2>4. CASE i # n
    <3>1. t[i] = s[i]
      BY <1>1, <2>4
    <3> QED BY <2>1, <2>2, <3>1 DEF InProgress
  <2> QED BY <2>3, <2>4
<1>3. ASSUME NEW r \in miss2 \ before
      PROVE  InProgress(t, r) \/ Owned(sh, r) \subseteq cov2
  <2>1. CASE r \in miss
    BY <1>2, <2>1 DEF Handled
  <2>2. CASE r \notin miss
    <3>1. r = t[n].rec /\ t[n].pc \in {"ones", "many"} /\ n \in 1 .. Len(t)
      BY <1>1, <2>2
    <3> QED BY <3>1 DEF InProgress
  <2> QED BY <2>1, <2>2
<1> QED BY <1>3 DEF Handled

LEMMA MissingIs == Missing = {r \in Rows : r \in gone \cup conn.work}
BY DEF Missing, Visible

\* A step of the innermost frame that returns nothing.
LEMMA OnCover ==
    ASSUME Inv, Inv', CoverInv, stack # <<>>, result # "false", UNCHANGED <<shape, call>>,
           NEW n, OnTop(stack, stack', n), Len(stack') > n => LinkedAt(stack', n),
           stack'[Len(stack')].pc \in {"start", "fetched"} => result' = "none",
           result' # "false",
           Missing \subseteq Missing', spared \subseteq spared',
           Missing' \subseteq Missing \cup {stack[n].rec},
           stack[n].pc \in {"ones", "many"} \/ ~(Missing' \subseteq Missing) =>
               stack'[n].pc \in {"ones", "many"},
           FrameCovers(shape, call.rows, stack', n, Covered', Missing'),
           Len(stack') > n => FrameCovers(shape, call.rows, stack', n + 1, Covered', Missing')
    PROVE  CoverInv'
<1>1. stack \in Seq(FrameType) /\ stack' \in Seq(FrameType) /\ shape' = shape /\ call' = call
  BY DEF Inv
<1>2. Covered \subseteq Covered'
  BY DEF Covered
<1>3. /\ n = Len(stack) /\ n \in Nat /\ n > 0 /\ Len(stack') \in Nat /\ Len(stack') >= n
      /\ (SetFrame(stack'[1]) <=> SetFrame(stack[1]))
  <2>1. n = Len(stack) /\ n \in Nat /\ n > 0 /\ Len(stack') \in Nat /\ Len(stack') >= n
    BY <1>1 DEF OnTop
  <2>2. CASE n = 1
    BY <2>1, <2>2 DEF OnTop
  <2>3. CASE n # 1
    <3>1. 1 \in 1 .. (n - 1)
      BY <2>1, <2>3
    <3> QED BY <2>1, <3>1 DEF OnTop, SameBelow
  <2> QED BY <2>1, <2>2, <2>3
<1>4. stack' # <<>>
  BY <1>3
<1>5. Linked(stack')
  BY <1>1, LinkedOn DEF CoverInv
<1>6. Entered(stack', call'.kind, result')
  <2>1. SetFrame(stack[1]) <=> call.kind \in {"set", "query"}
    BY DEF CoverInv, Entered
  <2> QED BY <1>1, <1>3, <2>1 DEF Entered
<1>7. Covers(shape, call.rows, stack', Covered', Missing')
  <2>1. Covers(shape, call.rows, stack, Covered, Missing)
    BY DEF CoverInv
  <2> QED BY <1>1, <1>2, <2>1, CoversOn
<1>8. Handled(shape, stack', Missing', call.before, Covered')
  <2>1. Handled(shape, stack, Missing, call.before, Covered)
    BY DEF CoverInv
  <2> QED BY <1>1, <1>2, <2>1, HandledOn
<1> QED BY <1>1, <1>4, <1>5, <1>6, <1>7, <1>8 DEF CoverInv

\* A frame that returns leaves the ones below it linked, the innermost of them
\* in the middle of its loop.
LEMMA LinkedBelow ==
    ASSUME NEW s, s \in Seq(FrameType), s # <<>>, Linked(s), NEW kind, NEW res, NEW res2,
           Entered(s, kind, res)
    PROVE  Linked(Front(s)) /\ Entered(Front(s), kind, res2)
<1> DEFINE t == Front(s)
<1>1. /\ t \in Seq(FrameType) /\ Len(s) \in Nat /\ Len(s) > 0 /\ Len(t) = Len(s) - 1
      /\ \A i \in 1 .. (Len(s) - 1) : t[i] = s[i]
      /\ (t = <<>> <=> Len(s) = 1)
  BY FrontOf
<1> HIDE DEF t
<1>2. ASSUME NEW i \in 1 .. (Len(t) - 1)
      PROVE  LinkedAt(t, i)
  <2>1. LinkedAt(s, i) /\ t[i] = s[i] /\ t[i + 1] = s[i + 1]
    BY <1>1 DEF Linked
  <2> QED BY <2>1 DEF LinkedAt
<1>3. ASSUME t # <<>>
      PROVE  /\ t[Len(t)].pc \notin {"start", "fetched"}
             /\ SetFrame(t[1]) <=> kind \in {"set", "query"}
  <2>1. Len(t) \in 1 .. (Len(s) - 1) /\ 1 \in 1 .. (Len(s) - 1)
    BY <1>1, <1>3
  <2>2. t[Len(t)] = s[Len(t)] /\ LinkedAt(s, Len(t)) /\ t[1] = s[1]
    BY <1>1, <2>1 DEF Linked
  <2> QED BY <2>2 DEF LinkedAt, Entered
<1> QED BY <1>2, <1>3 DEF Linked, Entered, t

LEMMA CoversBelow ==
    ASSUME NEW sh, NEW rows, NEW s, s \in Seq(FrameType), s # <<>>, Linked(s),
           NEW cov, NEW cov2, cov \subseteq cov2,
           NEW miss, NEW miss2, miss \subseteq miss2, Covers(sh, rows, s, cov, miss),
           RecordFrame(s[Len(s)]) => s[Len(s)].rec \in cov2,
           SetFrame(s[Len(s)]) => Goal(sh, rows, s, Len(s)) \subseteq cov2
    PROVE  Covers(sh, rows, Front(s), cov2, miss2)
<1> DEFINE t == Front(s)
           m == Len(s) - 1
           k == Len(s) - 2
<1>1. /\ t \in Seq(FrameType) /\ Len(s) \in Nat /\ Len(s) > 0 /\ Len(t) = m /\ m \in Nat
      /\ \A i \in 1 .. m : t[i] = s[i]
  BY FrontOf
<1> HIDE DEF t
<1>2. CASE m = 0
  BY <1>1, <1>2 DEF Covers, t
<1>3. CASE m > 0
  <2>1. /\ k \in Nat /\ m = k + 1 /\ k < Len(s) /\ k < Len(t) /\ m \in 1 .. m
        /\ m \in 1 .. Len(s) /\ m # Len(s) /\ m < Len(s) /\ Len(s) = m + 1
    BY <1>1, <1>3
  <2>2. (\A i \in 1 .. k : t[i] = s[i]) /\ t[k + 1].rec = s[k + 1].rec
    BY <1>1, <2>1
  <2>3. FrameCovers(sh, rows, s, m, cov, miss) /\ LinkedAt(s, m) /\ t[m] = s[m]
    BY <1>1, <2>1 DEF Covers, Linked
  <2>0. \A i \in 1 .. k : FrameCovers(sh, rows, s, i, cov, miss)
    <3>1. \A i \in 1 .. k : i \in 1 .. Len(s)
      BY <1>1, <2>1
    <3> HIDE DEF k
    <3> QED BY <3>1 DEF Covers
  <2>7. s[m + 1] = s[Len(s)] /\ Len(s) # 1
    BY <1>1, <2>1
  <2> HIDE DEF k, m
  <2>4. \A i \in 1 .. k : FrameCovers(sh, rows, t, i, cov2, miss2)
    BY <1>1, <2>0, <2>1, <2>2, LowerCovers
  <2>5. FrameCovers(sh, rows, t, m, cov2, miss2)
    <3> DEFINE f == s[m]
               top == s[m + 1]
    <3>0. f \in FrameType
      BY <1>1, <2>1
    <3>1. /\ f.pc \in {"ones", "many", "walking"}
          /\ f.pc = "many" => SetFrame(top) /\ top.rec = f.rec
          /\ f.pc # "many" => RecordFrame(top)
      BY <2>3 DEF LinkedAt
    <3>2. /\ RecordFrame(top) => top.rec \in cov2
          /\ SetFrame(top) => ManyOf(sh, top.rec) \subseteq cov2
      BY <2>7 DEF Goal
    <3>3. Goal(sh, rows, t, m) = Goal(sh, rows, s, m)
      BY <2>3 DEF Goal
    <3>4. \A x : Called(s, m, x) => x = top.rec
      BY DEF Called
    <3> HIDE DEF top
    <3>5. SetFrame(f) => \A x \in Goal(sh, rows, s, m) : x \in f.rest \/ x \in cov2
      <4> SUFFICES ASSUME SetFrame(f), NEW x \in Goal(sh, rows, s, m)
                   PROVE  x \in f.rest \/ x \in cov2
        OBVIOUS
      <4>1. f.pc # "many"
        BY DEF SetFrame
      <4>2. x \in f.rest \/ x \in cov \/ Called(s, m, x)
        BY <2>3 DEF FrameCovers
      <4> QED BY <3>1, <3>2, <3>4, <4>1, <4>2
    <3>6. f.pc = "ones" => \A x \in OneOf(sh, f.rec) : x \in f.rest \/ x \in cov2
      <4> SUFFICES ASSUME f.pc = "ones", NEW x \in OneOf(sh, f.rec)
                   PROVE  x \in f.rest \/ x \in cov2
        OBVIOUS
      <4>2. x \in f.rest \/ x \in cov \/ Called(s, m, x)
        BY <2>3 DEF FrameCovers
      <4> QED BY <3>1, <3>2, <3>4, <4>2
    <3>7. f.pc = "many" => OneOf(sh, f.rec) \subseteq cov2 /\ ManyOf(sh, f.rec) \subseteq cov2
      BY <2>3, <3>1, <3>2 DEF FrameCovers
    <3>8. f.deleted => f.rec \in miss2 /\ f.pc \in {"ones", "many"}
      BY <2>3 DEF FrameCovers
    <3> QED BY <2>3, <3>3, <3>5, <3>6, <3>7, <3>8 DEF FrameCovers
  <2>6. \A i \in 1 .. Len(t) : i \in 1 .. k \/ i = m
    BY <1>1, <2>1
  <2> QED BY <2>4, <2>5, <2>6 DEF Covers, t
<1> QED BY <1>1, <1>2, <1>3

LEMMA HandledBelow ==
    ASSUME NEW sh, NEW before, NEW s, s \in Seq(FrameType), s # <<>>,
           NEW cov, NEW cov2, cov \subseteq cov2, NEW miss, Handled(sh, s, miss, before, cov),
           s[Len(s)].pc \in {"ones", "many"} => Owned(sh, s[Len(s)].rec) \subseteq cov2
    PROVE  Handled(sh, Front(s), miss, before, cov2)
<1> DEFINE t == Front(s)
<1>1. /\ t \in Seq(FrameType) /\ Len(s) \in Nat /\ Len(s) > 0 /\ Len(t) = Len(s) - 1
      /\ \A i \in 1 .. (Len(s) - 1) : t[i] = s[i]
  BY FrontOf
<1> HIDE DEF t
<1>2. ASSUME NEW r \in miss \ before
      PROVE  InProgress(t, r) \/ Owned(sh, r) \subseteq cov2
  <2>1. CASE InProgress(s, r)
    <3>1. PICK i \in 1 .. Len(s) : s[i].pc \in {"ones", "many"} /\ s[i].rec = r
      BY <2>1 DEF InProgress
    <3>2. CASE i = Len(s)
      BY <3>1, <3>2
    <3>3. CASE i # Len(s)
      <4>1. i \in 1 .. Len(t) /\ t[i] = s[i]
        BY <1>1, <3>1, <3>3
      <4> QED BY <3>1, <4>1 DEF InProgress
    <3> QED BY <3>2, <3>3
  <2>2. CASE ~InProgress(s, r)
    BY <2>2 DEF Handled
  <2> QED BY <2>1, <2>2
<1> QED BY <1>2 DEF Handled, t

LEMMA PopFalse ==
    ASSUME Inv, CoverInv, stack # <<>>, UNCHANGED <<shape, call>>, Return("false")
    PROVE  CoverInv'
<1>1. stack \in Seq(FrameType) /\ stack' = Front(stack) /\ result' = "false" /\ call' = call
  BY DEF Inv, Return
<1>2. Linked(stack) /\ Entered(stack, call.kind, result)
  BY DEF CoverInv
<1>3. Linked(Front(stack)) /\ Entered(Front(stack), call.kind, "false")
  BY <1>1, <1>2, LinkedBelow
<1> QED BY <1>1, <1>3 DEF CoverInv

LEMMA ThrowCover ==
    ASSUME Throw, UNCHANGED call
    PROVE  CoverInv'
<1>1. stack' = <<>> /\ result' = "throw"
  BY DEF Throw
<1>2. Linked(<<>>) /\ Entered(<<>>, call.kind, "throw")
  <2>1. \A i \in 1 .. (Len(<<>>) - 1) : FALSE
    OBVIOUS
  <2> QED BY <2>1 DEF Linked, Entered
<1> QED BY <1>1, <1>2 DEF CoverInv

LEMMA PopTrue ==
    ASSUME Inv, CoverInv, stack # <<>>, result # "false", UNCHANGED <<shape, call>>,
           Return("true"), Missing' = Missing, spared \subseteq spared',
           RecordFrame(Top) => Top.rec \in Covered',
           Top.pc \in {"ones", "many"} => Owned(shape, Top.rec) \subseteq Covered',
           SetFrame(Top) => Goal(shape, call.rows, stack, Len(stack)) \subseteq Covered'
    PROVE  CoverInv'
<1>1. /\ stack \in Seq(FrameType) /\ stack' = Front(stack) /\ result' = "true"
      /\ call' = call /\ shape' = shape /\ Missing \subseteq Missing'
      /\ Top = stack[Len(stack)]
  BY DEF Inv, Return, Top, Last
<1>2. Covered \subseteq Covered'
  BY DEF Covered
<1>3. /\ Linked(stack) /\ Entered(stack, call.kind, result)
      /\ Covers(shape, call.rows, stack, Covered, Missing)
      /\ Handled(shape, stack, Missing, call.before, Covered)
  BY DEF CoverInv
<1>4. Linked(Front(stack)) /\ Entered(Front(stack), call.kind, "true")
  BY <1>1, <1>3, LinkedBelow
<1>5. Covers(shape, call.rows, Front(stack), Covered', Missing')
  BY <1>1, <1>2, <1>3, CoversBelow
<1>6. Handled(shape, Front(stack), Missing, call.before, Covered')
  BY <1>1, <1>2, <1>3, HandledBelow
<1>7. ASSUME stack' = <<>>, call.kind \in {"set", "query"}
      PROVE  call.rows \subseteq Covered'
  <2>1. Len(stack) = 1
    BY <1>1, <1>7, FrontOf
  <2>2. SetFrame(Top)
    BY <1>1, <1>3, <1>7, <2>1 DEF Entered
  <2> QED BY <2>1, <2>2 DEF Goal
<1> QED BY <1>1, <1>4, <1>5, <1>6, <1>7 DEF CoverInv

\* A frame that is at pc with rest to come, as g was otherwise.
FrameIs(f, pc, rest, g) ==
    /\ f.pc = pc /\ f.rest = rest /\ f.rec = g.rec
    /\ (f.deleted <=> g.deleted)

\* The stack after GoOn and after Nested.
LEMMA AfterGoOn ==
    ASSUME stack \in Seq(FrameType), stack # <<>>,
           NEW pc, pc \in {"start", "ones", "many", "fetched", "walking"},
           NEW rest, rest \in SUBSET Rows, NEW n, n = Len(stack),
           pc \in {"fetched", "walking"} <=> SetFrame(Top), GoOn(pc, rest)
    PROVE  /\ OnTop(stack, stack', n) /\ Len(stack') = n /\ n \in Nat /\ n > 0
           /\ stack'[n].pc = pc /\ stack'[n].rest = rest /\ stack'[n].rec = Top.rec
           /\ (stack'[n].deleted <=> Top.deleted) /\ Top = stack[n]
<1>1. stack' = GoneOn(pc, rest)
  BY DEF GoOn, GoneOn
<1>2. /\ stack' \in Seq(FrameType) /\ Len(stack') = Len(stack)
      /\ Len(stack) \in Nat /\ Len(stack) > 0
      /\ \A i \in 1 .. (Len(stack) - 1) : stack'[i] = stack[i]
      /\ stack'[Len(stack)].pc = pc /\ stack'[Len(stack)].rest = rest
      /\ stack'[Len(stack)].rec = Top.rec /\ (stack'[Len(stack)].deleted <=> Top.deleted)
  BY <1>1, GoneOnOf
<1>3. Top = stack[Len(stack)]
  BY DEF Top, Last
<1> QED BY <1>2, <1>3 DEF OnTop, SameBelow, SetFrame

\* Below f the innermost frame goes on at pc.
NestedOn(s, t, pc, rest, f) ==
    /\ OnTop(s, t, Len(s)) /\ Len(t) = Len(s) + 1
    /\ FrameIs(t[Len(s)], pc, rest, s[Len(s)]) /\ t[Len(s) + 1] = f

LEMMA AfterNested ==
    ASSUME stack \in Seq(FrameType), stack # <<>>,
           NEW pc, pc \in {"start", "ones", "many", "fetched", "walking"},
           NEW rest, rest \in SUBSET Rows, NEW f, f \in FrameType,
           pc \in {"fetched", "walking"} <=> SetFrame(Top), Nested(pc, rest, f)
    PROVE  NestedOn(stack, stack', pc, rest, f)
<1> DEFINE s == GoneOn(pc, rest)
           n == Len(stack)
<1>1. stack' = Append(s, f)
  BY DEF Nested, GoneOn
<1>2. /\ s \in Seq(FrameType) /\ Len(s) = n /\ n \in Nat /\ n > 0
      /\ \A i \in 1 .. (n - 1) : s[i] = stack[i]
      /\ s[n].pc = pc /\ s[n].rest = rest
      /\ s[n].rec = Top.rec /\ (s[n].deleted <=> Top.deleted)
  BY GoneOnOf
<1> HIDE DEF s
<1>3. /\ Len(stack') = Len(s) + 1 /\ (\A i \in 1 .. Len(s) : stack'[i] = s[i])
      /\ stack'[Len(s) + 1] = f
  BY <1>1, <1>2, AppendOf
<1>4. stack'[n] = s[n] /\ \A i \in 1 .. (n - 1) : stack'[i] = stack[i]
  BY <1>2, <1>3
<1>5. Top = stack[n]
  BY DEF Top, Last
<1> HIDE DEF n
<1>6. OnTop(stack, stack', n)
  BY <1>2, <1>3, <1>4, <1>5 DEF OnTop, SameBelow, SetFrame, n
<1> QED BY <1>2, <1>3, <1>4, <1>5, <1>6 DEF NestedOn, FrameIs, n

\* What is known of the innermost frame.
LEMMA TopCovers ==
    ASSUME Inv, CoverInv, stack # <<>>, result # "false", NEW n, n = Len(stack)
    PROVE  /\ Top \in FrameType /\ Top = stack[n] /\ n \in Nat /\ n > 0
           /\ SetFrame(Top) =>
                 \A x \in Goal(shape, call.rows, stack, n) : x \in Top.rest \/ x \in Covered
           /\ Top.pc = "ones" => \A x \in One(Top.rec) : x \in Top.rest \/ x \in Covered
           /\ Top.pc = "many" => Owned(shape, Top.rec) \subseteq Covered
           /\ Top.deleted => Top.rec \in Missing /\ Top.pc \in {"ones", "many"}
<1>1. n \in 1 .. Len(stack) /\ n = Len(stack) /\ n \in Nat /\ n > 0 /\ Top = stack[n]
  BY DEF Inv, Top, Last
<1>2. FrameCovers(shape, call.rows, stack, n, Covered, Missing)
  BY <1>1 DEF CoverInv, Covers
<1>3. \A x : ~Called(stack, n, x)
  BY <1>1 DEF Called
<1>4. Top \in FrameType
  BY <1>1 DEF Inv
<1> HIDE DEF Top
<1> QED BY <1>1, <1>2, <1>3, <1>4 DEF FrameCovers, OneOf, One, Owned

\* The steps of a record that leave the connection alone.
LEMMA RecordCover ==
    ASSUME Inv, Inv', CoverInv
    PROVE  /\ RecordRestricted => CoverInv'
           /\ RecordVetoed => CoverInv'
           /\ RecordSkipped => CoverInv'
           /\ RecordThrows => CoverInv'
           /\ CascadeFailed => CoverInv'
           /\ RecordDone => CoverInv'
<1> USE DEF callVars
<1>0. \A pc : At(pc) => stack # <<>> /\ Top.pc = pc
  BY DEF At
<1>1. UNCHANGED <<conn, gone>> => Missing' = Missing
  BY DEF Missing, Visible
<1>2. RecordRestricted => CoverInv'
  BY <1>0, PopFalse, ThrowCover DEF RecordRestricted, Answer
<1>3. RecordVetoed => CoverInv'
  BY <1>0, PopFalse DEF RecordVetoed
<1>4. RecordThrows => CoverInv'
  BY ThrowCover DEF RecordThrows
<1>5. CascadeFailed => CoverInv'
  BY <1>0, PopFalse DEF CascadeFailed
<1>6. RecordSkipped => CoverInv'
  <2> SUFFICES ASSUME RecordSkipped PROVE CoverInv'
    OBVIOUS
  <2>1. /\ stack # <<>> /\ Top.pc = "start" /\ Return("true") /\ UNCHANGED <<shape, call>>
        /\ Missing' = Missing /\ spared' = spared \cup {Top.rec}
    BY <1>0, <1>1 DEF RecordSkipped
  <2>2. result # "false"
    BY <2>1 DEF CoverInv, Entered, Top, Last
  <2>3. Top.rec \in Covered' /\ spared \subseteq spared'
    BY <2>1 DEF Covered
  <2>4. Top.pc \notin {"ones", "many"} /\ ~SetFrame(Top)
    BY <2>1 DEF SetFrame
  <2> QED BY <2>1, <2>2, <2>3, <2>4, PopTrue
<1>7. RecordDone => CoverInv'
  <2> SUFFICES ASSUME RecordDone PROVE CoverInv'
    OBVIOUS
  <2> DEFINE n == Len(stack)
  <2>1. /\ stack # <<>> /\ Top.pc = "many" /\ UNCHANGED <<shape, call>>
        /\ Missing' = Missing /\ spared' = spared /\ result # "false"
    BY <1>0, <1>1 DEF RecordDone, Proceeding
  <2>2. Covered' = Covered
    BY <2>1 DEF Covered
  <2>3. CASE Throw
    BY <2>1, <2>3, ThrowCover
  <2>4. CASE Return("false")
    BY <2>1, <2>4, PopFalse
  <2>5. CASE Return("true") /\ Top.deleted
    <3>1. /\ Top.pc = "many" => Owned(shape, Top.rec) \subseteq Covered
          /\ Top.deleted => Top.rec \in Missing /\ Top.pc \in {"ones", "many"}
      BY <2>1, TopCovers
    <3>2. Owned(shape, Top.rec) \subseteq Covered /\ Top.rec \in Missing
      BY <2>1, <2>5, <3>1
    <3>3. ~SetFrame(Top) /\ Top.rec \in Covered
      BY <2>1, <3>2 DEF SetFrame, Covered
    <3> QED BY <2>1, <2>2, <2>5, <3>2, <3>3, PopTrue
  <2> QED BY <2>3, <2>4, <2>5 DEF RecordDone, Answer
<1> QED BY <1>2, <1>3, <1>4, <1>5, <1>6, <1>7

\* The innermost frame leaves aside one of what it goes through.
LEMMA LeaveAside ==
    ASSUME Inv, Inv', CoverInv, stack # <<>>, result # "false", UNCHANGED <<shape, call>>,
           Missing' = Missing, result' = result, spared \subseteq spared',
           Top.pc \in {"ones", "walking"}, NEW x, x \in Rows, x \in Covered',
           GoOn(Top.pc, Top.rest \ {x})
    PROVE  CoverInv'
<1> DEFINE n == Len(stack)
           rest == Top.rest \ {x}
<1>1. /\ Top \in FrameType /\ Top = stack[n] /\ n \in Nat /\ n > 0
      /\ SetFrame(Top) =>
            \A y \in Goal(shape, call.rows, stack, n) : y \in Top.rest \/ y \in Covered
      /\ Top.pc = "ones" => \A y \in One(Top.rec) : y \in Top.rest \/ y \in Covered
      /\ Top.deleted => Top.rec \in Missing /\ Top.pc \in {"ones", "many"}
  BY TopCovers
<1>2. /\ rest \in SUBSET Rows /\ Top.pc \in {"start", "ones", "many", "fetched", "walking"}
      /\ (Top.pc \in {"fetched", "walking"} <=> SetFrame(Top))
      /\ stack \in Seq(FrameType)
  BY <1>1 DEF FrameType, SetFrame, Inv
<1> HIDE DEF n, rest
<1>3. GoOn(Top.pc, rest) /\ n = Len(stack)
  BY DEF rest, n
<1>4. /\ OnTop(stack, stack', n) /\ Len(stack') = n
      /\ stack'[n].pc = Top.pc /\ stack'[n].rest = rest /\ stack'[n].rec = Top.rec
      /\ (stack'[n].deleted <=> Top.deleted)
  BY <1>2, <1>3, AfterGoOn
<1>5. Covered \subseteq Covered' /\ x \in Covered'
  BY DEF Covered
<1>6. FrameCovers(shape, call.rows, stack', n, Covered', Missing')
  <2>1. Goal(shape, call.rows, stack', n) = Goal(shape, call.rows, stack, n)
    BY <1>1, <1>4 DEF Goal
  <2>2. SetFrame(stack'[n]) <=> SetFrame(Top)
    BY <1>4 DEF SetFrame
  <2>3. SetFrame(stack'[n]) =>
           \A y \in Goal(shape, call.rows, stack', n) : y \in rest \/ y \in Covered'
    BY <1>1, <1>5, <2>1, <2>2 DEF rest
  <2>4. stack'[n].pc = "ones" =>
           \A y \in OneOf(shape, Top.rec) : y \in rest \/ y \in Covered'
    BY <1>1, <1>4, <1>5 DEF rest, One, OneOf
  <2> QED BY <1>1, <1>4, <2>3, <2>4 DEF FrameCovers
<1>7. stack'[Len(stack')].pc \notin {"start", "fetched"}
  BY <1>4
<1>8. stack[n].pc \in {"ones", "many"} => stack'[n].pc \in {"ones", "many"}
  BY <1>1, <1>4
<1>9. Len(stack') > n => LinkedAt(stack', n)
  BY <1>1, <1>4
<1>10. Len(stack') > n => FrameCovers(shape, call.rows, stack', n + 1, Covered', Missing')
  BY <1>1, <1>4
<1> QED BY <1>4, <1>6, <1>7, <1>8, <1>9, <1>10, OnCover

\* The innermost frame calls delete() of one of what it goes through.
LEMMA CallRecord ==
    ASSUME Inv, Inv', CoverInv, stack # <<>>, result # "false", UNCHANGED <<shape, call>>,
           Missing' = Missing, spared' = spared,
           Top.pc \in {"ones", "walking"}, NEW x, x \in Rows,
           Nested(Top.pc, Top.rest \ {x}, Frame("start", x, {}))
    PROVE  CoverInv'
<1> DEFINE n == Len(stack)
           rest == Top.rest \ {x}
           f == Frame("start", x, {})
<1>1. /\ Top \in FrameType /\ Top = stack[n] /\ n \in Nat /\ n > 0
      /\ SetFrame(Top) =>
            \A y \in Goal(shape, call.rows, stack, n) : y \in Top.rest \/ y \in Covered
      /\ Top.pc = "ones" => \A y \in One(Top.rec) : y \in Top.rest \/ y \in Covered
      /\ Top.deleted => Top.rec \in Missing /\ Top.pc \in {"ones", "many"}
  BY TopCovers
<1>2. /\ rest \in SUBSET Rows /\ Top.pc \in {"start", "ones", "many", "fetched", "walking"}
      /\ (Top.pc \in {"fetched", "walking"} <=> SetFrame(Top))
      /\ stack \in Seq(FrameType)
  BY <1>1 DEF FrameType, SetFrame, Inv
<1>3. f \in FrameType /\ f.pc = "start" /\ f.rec = x /\ ~f.deleted
  BY DEF Frame, FrameType
<1> HIDE DEF n, rest, f
<1>4. Nested(Top.pc, rest, f) /\ n = Len(stack)
  BY DEF rest, n, f
<1>11. NestedOn(stack, stack', Top.pc, rest, f)
  BY <1>2, <1>3, <1>4, AfterNested
<1>5. /\ OnTop(stack, stack', n) /\ Len(stack') = n + 1
      /\ stack'[n].pc = Top.pc /\ stack'[n].rest = rest /\ stack'[n].rec = Top.rec
      /\ (stack'[n].deleted <=> Top.deleted) /\ stack'[n + 1] = f
  BY <1>1, <1>4, <1>11 DEF NestedOn, FrameIs
<1>6. result' = "none" /\ Covered' = Covered
  BY DEF Nested, Covered
<1>7. FrameCovers(shape, call.rows, stack', n, Covered', Missing')
  <2>1. Goal(shape, call.rows, stack', n) = Goal(shape, call.rows, stack, n)
    BY <1>1, <1>5 DEF Goal
  <2>2. SetFrame(stack'[n]) <=> SetFrame(Top)
    BY <1>5 DEF SetFrame
  <2>3. Called(stack', n, x)
    BY <1>1, <1>3, <1>5 DEF Called
  <2>4. \A y : y \in Top.rest => y \in rest \/ Called(stack', n, y)
    BY <2>3 DEF rest
  <2>5. SetFrame(stack'[n]) =>
           \A y \in Goal(shape, call.rows, stack', n) :
              y \in rest \/ y \in Covered' \/ Called(stack', n, y)
    BY <1>1, <1>6, <2>1, <2>2, <2>4
  <2>6. stack'[n].pc = "ones" =>
           \A y \in OneOf(shape, Top.rec) :
              y \in rest \/ y \in Covered' \/ Called(stack', n, y)
    BY <1>1, <1>5, <1>6, <2>4 DEF One, OneOf
  <2> QED BY <1>1, <1>5, <2>5, <2>6 DEF FrameCovers
<1>8. FrameCovers(shape, call.rows, stack', n + 1, Covered', Missing')
  BY <1>3, <1>5 DEF FrameCovers, SetFrame
<1>9. LinkedAt(stack', n)
  BY <1>3, <1>5 DEF LinkedAt, RecordFrame
<1>10. stack[n].pc \in {"ones", "many"} => stack'[n].pc \in {"ones", "many"}
  BY <1>1, <1>5
<1> QED BY <1>5, <1>6, <1>7, <1>8, <1>9, <1>10, OnCover

LEMMA CascadeManyCover ==
    ASSUME Inv, Inv', CoverInv, CascadeMany
    PROVE  CoverInv'
<1> DEFINE n == Len(stack)
           r == Top.rec
           f == Frame("fetched", r, Fetched(r))
<1>0. /\ stack # <<>> /\ Top.pc = "ones" /\ result # "false" /\ UNCHANGED <<shape, call>>
      /\ Top.rest = {} /\ Nested("many", {}, f) /\ Missing' = Missing /\ spared' = spared
      /\ Covered' = Covered
  BY DEF CascadeMany, At, Proceeding, callVars, Missing, Visible, Covered
<1>1. /\ Top \in FrameType /\ Top = stack[n] /\ n \in Nat /\ n > 0
      /\ Top.pc = "ones" => \A y \in One(Top.rec) : y \in Top.rest \/ y \in Covered
      /\ Top.deleted => Top.rec \in Missing /\ Top.pc \in {"ones", "many"}
  BY <1>0, TopCovers
<1>2. /\ {} \in SUBSET Rows /\ ~SetFrame(Top)
      /\ stack \in Seq(FrameType) /\ r \in Rows
  BY <1>0, <1>1 DEF FrameType, SetFrame, Inv
<1>3. /\ f \in FrameType /\ f.pc = "fetched" /\ f.rec = r /\ ~f.deleted
      /\ f.rest = Fetched(r)
  BY <1>2 DEF Frame, FrameType, Fetched, Many
<1> HIDE DEF n, f, r
<1>4. n = Len(stack) /\ r = Top.rec
  BY DEF n, r
<1>5. /\ OnTop(stack, stack', n) /\ Len(stack') = n + 1
      /\ stack'[n].pc = "many" /\ stack'[n].rec = Top.rec
      /\ (stack'[n].deleted <=> Top.deleted) /\ stack'[n + 1] = f
  <2>1. NestedOn(stack, stack', "many", {}, f)
    BY <1>0, <1>2, <1>3, AfterNested
  <2> QED BY <1>1, <1>4, <2>1 DEF NestedOn, FrameIs
<1>6. result' = "none"
  BY <1>0 DEF Nested
<1>7. FrameCovers(shape, call.rows, stack', n, Covered', Missing')
  <2>1. ~SetFrame(stack'[n])
    BY <1>5 DEF SetFrame
  <2>2. OneOf(shape, Top.rec) \subseteq Covered'
    BY <1>0, <1>1 DEF One, OneOf
  <2>3. n # Len(stack')
    BY <1>1, <1>5
  <2> QED BY <1>0, <1>1, <1>5, <2>1, <2>2, <2>3 DEF FrameCovers
<1>8. FrameCovers(shape, call.rows, stack', n + 1, Covered', Missing')
  <2>1. Goal(shape, call.rows, stack', n + 1) = ManyOf(shape, r)
    BY <1>1, <1>3, <1>5 DEF Goal
  <2>2. \A y \in ManyOf(shape, r) : y \in f.rest \/ y \in Covered
    BY <1>3 DEF ManyOf, Many, Fetched, Covered, Missing
  <2> QED BY <1>0, <1>3, <1>5, <2>1, <2>2 DEF FrameCovers
<1>9. LinkedAt(stack', n)
  BY <1>3, <1>4, <1>5 DEF LinkedAt, SetFrame
<1> QED BY <1>0, <1>5, <1>6, <1>7, <1>8, <1>9, OnCover

\* The cascade and the loop of a result set.
LEMMA LoopCover ==
    ASSUME Inv, Inv', CoverInv, NEW r \in Rows
    PROVE  /\ CascadeOne(r) => CoverInv'
           /\ SetEmpty => CoverInv'
           /\ SetNext(r) => CoverInv'
           /\ SetPassOver(r) => CoverInv'
<1> USE DEF callVars
<1>0. \A pc : At(pc) => stack # <<>> /\ Top.pc = pc
  BY DEF At
<1>1. UNCHANGED <<conn, gone>> => Missing' = Missing
  BY DEF Missing, Visible
<1>2. CascadeOne(r) => CoverInv'
  <2> SUFFICES ASSUME CascadeOne(r) PROVE CoverInv'
    OBVIOUS
  <2>1. /\ stack # <<>> /\ Top.pc = "ones" /\ result # "false" /\ UNCHANGED <<shape, call>>
        /\ Missing' = Missing /\ spared' = spared
    BY <1>0, <1>1 DEF CascadeOne, Proceeding
  <2>2. CASE Visible(r)
    BY <2>1, <2>2, CallRecord DEF CascadeOne
  <2>3. CASE ~Visible(r)
    <3>1. GoOn(Top.pc, Top.rest \ {r}) /\ result' = result
      BY <2>1, <2>3 DEF CascadeOne
    <3>2. r \in Covered' /\ spared \subseteq spared'
      BY <2>1, <2>3 DEF Covered, Missing
    <3> QED BY <2>1, <3>1, <3>2, LeaveAside
  <2> QED BY <2>2, <2>3
<1>3. SetEmpty => CoverInv'
  <2> SUFFICES ASSUME SetEmpty PROVE CoverInv'
    OBVIOUS
  <2> DEFINE n == Len(stack)
  <2>1. /\ stack # <<>> /\ Top.pc = "fetched" /\ UNCHANGED <<shape, call>>
        /\ Missing' = Missing /\ spared' = spared /\ Top.rest = {} /\ Return("true")
        /\ Covered' = Covered
    BY <1>0, <1>1 DEF SetEmpty, Covered
  <2>2. result # "false"
    BY <2>1 DEF CoverInv, Entered, Top, Last
  <2>3. SetFrame(Top) =>
            \A y \in Goal(shape, call.rows, stack, n) : y \in Top.rest \/ y \in Covered
    BY <2>1, <2>2, TopCovers
  <2>4. ~RecordFrame(Top) /\ SetFrame(Top) /\ Top.pc \notin {"ones", "many"}
    BY <2>1 DEF RecordFrame, SetFrame
  <2>5. Goal(shape, call.rows, stack, n) \subseteq Covered'
    BY <2>1, <2>3, <2>4
  <2> QED BY <2>1, <2>2, <2>4, <2>5, PopTrue
<1>4. SetNext(r) => CoverInv'
  <2> SUFFICES ASSUME SetNext(r) PROVE CoverInv'
    OBVIOUS
  <2>1. /\ stack # <<>> /\ Top.pc = "walking" /\ result # "false" /\ UNCHANGED <<shape, call>>
        /\ Missing' = Missing /\ spared' = spared
        /\ Nested("walking", Top.rest \ {r}, Frame("start", r, {}))
    BY <1>0, <1>1 DEF SetNext, Proceeding
  <2> QED BY <2>1, CallRecord
<1>5. SetPassOver(r) => CoverInv'
  <2> SUFFICES ASSUME SetPassOver(r) PROVE CoverInv'
    OBVIOUS
  <2>1. /\ stack # <<>> /\ Top.pc = "walking" /\ result # "false" /\ UNCHANGED <<shape, call>>
        /\ Missing' = Missing /\ result' = result
        /\ GoOn("walking", Top.rest \ {r}) /\ spared' = spared \cup {r}
    BY <1>0, <1>1 DEF SetPassOver, Proceeding
  <2>2. r \in Covered' /\ spared \subseteq spared'
    BY <2>1 DEF Covered
  <2> QED BY <2>1, <2>2, LeaveAside
<1> QED BY <1>2, <1>3, <1>4, <1>5

\* The DELETE: the row is missing then, if the adapter says so, and no other is.
LEMMA RowGone ==
    ASSUME Inv, NEW row, row \in Rows, NEW outcome, NEW d, d = Execute(conn, row, outcome),
           conn' = d.conn, gone' = gone \cup d.made
    PROVE  /\ Missing \subseteq Missing'
           /\ Missing' \subseteq Missing \cup {row}
           /\ d.ret = "true" => row \in Missing'
<1>1. /\ gone \cup conn.work \subseteq gone' \cup conn'.work
      /\ gone' \cup conn'.work \subseteq gone \cup conn.work \cup {row}
      /\ d.ret = "true" => row \in gone' \cup conn'.work
  <2> DEFINE done == [conn EXCEPT !.work = @ \cup {row}]
  <2>1. done.work = conn.work \cup {row}
    BY DEF Inv, Session, ConnectionOf
  <2> HIDE DEF done
  <2>2. CASE d = RefusalOf(conn, outcome)
    <3>1. d.conn = conn /\ d.made = {} /\ d.ret # "true"
      BY <2>2 DEF RefusalOf, Result
    <3> QED BY <3>1
  <2>3. CASE d = Result(done, {}, "true")
    <3>1. d.conn = done /\ d.made = {}
      BY <2>3 DEF Result
    <3> QED BY <2>1, <3>1
  <2>4. CASE d = Result(conn, {row}, "true")
    <3>1. d.conn = conn /\ d.made = {row}
      BY <2>4 DEF Result
    <3> QED BY <3>1
  <2>5. d \in {RefusalOf(conn, outcome), Result(done, {}, "true"), Result(conn, {row}, "true")}
    BY DEF Execute, done
  <2> QED BY <2>2, <2>3, <2>4, <2>5
<1>2. Missing' = {r \in Rows : r \in gone' \cup conn'.work}
  BY DEF Missing, Visible
<1> QED BY <1>1, <1>2, MissingIs

LEMMA DeleteRowCover ==
    ASSUME Inv, Inv', CoverInv, NEW outcome, DeleteRow(outcome)
    PROVE  CoverInv'
<1> DEFINE d == Execute(conn, Top.rec, outcome)
           n == Len(stack)
<1>1. /\ stack # <<>> /\ Top.pc = "start" /\ UNCHANGED <<shape, call>> /\ spared' = spared
      /\ conn' = d.conn /\ gone' = gone \cup d.made
  BY DEF DeleteRow, At, callVars
<1>2. CASE d.ret = "throw"
  <2>1. Throw /\ call' = call
    BY <1>1, <1>2 DEF DeleteRow
  <2> QED BY <2>1, ThrowCover
<1>3. CASE d.ret # "throw"
  <2>1. /\ stack' = [stack EXCEPT ![Len(stack)].pc = "ones",
                                  ![Len(stack)].rest = One(Top.rec),
                                  ![Len(stack)].deleted = (d.ret = "true")]
        /\ result' = "none"
    BY <1>3 DEF DeleteRow
  <2>2. result # "false"
    BY <1>1 DEF CoverInv, Entered, Top, Last
  <2>3. /\ Top \in FrameType /\ Top = stack[n] /\ n \in Nat /\ n > 0
    BY <1>1, <2>2, TopCovers
  <2>4. Top.rec \in Rows
    BY <2>3 DEF FrameType
  <2>5. /\ Missing \subseteq Missing' /\ Missing' \subseteq Missing \cup {Top.rec}
        /\ d.ret = "true" => Top.rec \in Missing'
    BY <1>1, <2>4, RowGone
  <2> HIDE DEF d
  <2> DEFINE f == [[[Top EXCEPT !.pc = "ones"] EXCEPT !.rest = One(Top.rec)]
                        EXCEPT !.deleted = (d.ret = "true")]
  <2>6. /\ f.pc = "ones" /\ f.rest = One(Top.rec) /\ f.rec = Top.rec
        /\ (f.deleted <=> d.ret = "true")
    BY <2>3 DEF FrameType
  <2>7. stack' = [stack EXCEPT ![n] = f]
    BY <2>1, <2>3 DEF Inv
  <2> HIDE DEF f
  <2>8. /\ Len(stack') = n /\ n = Len(stack) /\ stack'[n] = f
        /\ \A i \in 1 .. (n - 1) : stack'[i] = stack[i]
    BY <2>3, <2>7 DEF Inv
  <2> HIDE DEF n
  <2>9. OnTop(stack, stack', n)
    BY <1>1, <2>3, <2>6, <2>8 DEF OnTop, SameBelow, SetFrame
  <2>10. FrameCovers(shape, call.rows, stack', n, Covered', Missing')
    <3>1. OneOf(shape, Top.rec) = One(Top.rec)
      BY DEF OneOf, One
    <3> QED BY <2>5, <2>6, <2>8, <3>1 DEF FrameCovers, SetFrame
  <2>11. /\ stack'[Len(stack')].pc \notin {"start", "fetched"}
         /\ ~(Len(stack') > n) /\ stack'[n].pc \in {"ones", "many"}
         /\ Missing' \subseteq Missing \cup {stack[n].rec}
         /\ result' # "false" /\ spared \subseteq spared'
    BY <1>1, <2>1, <2>3, <2>5, <2>6, <2>8
  <2> QED BY <1>1, <2>2, <2>5, <2>9, <2>10, <2>11, OnCover
<1> QED BY <1>2, <1>3

\* Resultset::delete() begins, ends or gives up its nesting level.
LEMMA SetCover ==
    ASSUME Inv, Inv', CoverInv, NEW outcome, outcome \in Outcomes
    PROVE  /\ SetBegin(outcome) => CoverInv'
           /\ SetFailed(outcome) => CoverInv'
           /\ SetDone(outcome) => CoverInv'
<1>0. \A pc : At(pc) => stack # <<>> /\ Top.pc = pc
  BY DEF At
<1>1. /\ LET r == Begin(conn, TRUE, outcome)
         IN  r.ret # "throw" => r.made \cup r.conn.work = conn.work
      /\ LET r == Commit(conn, TRUE, outcome)
         IN  r.ret # "throw" => r.made \cup r.conn.work = conn.work
  <2> DEFINE W == Kept(shape, gone)
  <2>1. {} \in W /\ conn \in Session(W)
    BY DEF Inv
  <2> HIDE DEF W
  <2>2. ASSUME NEW nesting
        PROVE  /\ LET r == Begin(conn, nesting, outcome)
                  IN  r.ret # "throw" => r.made \cup r.conn.work = conn.work
               /\ LET r == Commit(conn, nesting, outcome)
                  IN  r.ret # "throw" => r.made \cup r.conn.work = conn.work
    BY <2>1, WorkKept
  <2> QED BY <2>2
<1>2. ASSUME NEW made, NEW work, gone' = gone \cup made, conn'.work = work,
             made \cup work = conn.work
      PROVE  Missing' = Missing
  BY <1>2 DEF Missing, Visible
<1>3. SetBegin(outcome) => CoverInv'
  <2> SUFFICES ASSUME SetBegin(outcome) PROVE CoverInv'
    OBVIOUS
  <2> DEFINE r == Begin(conn, TRUE, outcome)
             n == Len(stack)
  <2>1. /\ stack # <<>> /\ Top.pc = "fetched" /\ UNCHANGED <<shape, call>> /\ spared' = spared
        /\ conn' = r.conn /\ gone' = gone \cup r.made
        /\ (r.ret = "throw" /\ Throw) \/
           (r.ret # "throw" /\ GoOn("walking", Top.rest) /\ result' = result)
    BY <1>0 DEF SetBegin, Transact, callVars
  <2>2. CASE Throw
    BY <2>1, <2>2, ThrowCover
  <2>3. CASE r.ret # "throw" /\ GoOn("walking", Top.rest) /\ result' = result
    <3>1. r.made \cup r.conn.work = conn.work
      BY <1>1, <2>3
    <3>2. Missing' = Missing
      BY <1>2, <2>1, <3>1
    <3>3. result # "false"
      BY <2>1 DEF CoverInv, Entered, Top, Last
    <3>4. /\ Top \in FrameType /\ Top = stack[n] /\ n \in Nat /\ n > 0
          /\ SetFrame(Top) =>
                \A y \in Goal(shape, call.rows, stack, n) : y \in Top.rest \/ y \in Covered
          /\ Top.deleted => Top.rec \in Missing /\ Top.pc \in {"ones", "many"}
      BY <2>1, <3>3, TopCovers
    <3>5. Top.rest \in SUBSET Rows /\ SetFrame(Top) /\ stack \in Seq(FrameType)
      BY <2>1, <3>4 DEF FrameType, SetFrame, Inv
    <3> HIDE DEF n
    <3>6. n = Len(stack) /\ Covered' = Covered
      BY <2>1, <3>2 DEF n, Covered
    <3>7. /\ OnTop(stack, stack', n) /\ Len(stack') = n
          /\ stack'[n].pc = "walking" /\ stack'[n].rest = Top.rest /\ stack'[n].rec = Top.rec
          /\ (stack'[n].deleted <=> Top.deleted)
      BY <2>1, <2>3, <3>5, <3>6, AfterGoOn
    <3>8. FrameCovers(shape, call.rows, stack', n, Covered', Missing')
      <4>1. Goal(shape, call.rows, stack', n) = Goal(shape, call.rows, stack, n)
        BY <3>4, <3>7 DEF Goal
      <4> QED BY <2>1, <3>2, <3>4, <3>5, <3>6, <3>7, <4>1 DEF FrameCovers
    <3>9. /\ stack'[Len(stack')].pc \notin {"start", "fetched"}
          /\ ~(Len(stack') > n) /\ stack[n].pc \notin {"ones", "many"}
          /\ result' # "false" /\ spared \subseteq spared'
      BY <2>1, <2>3, <3>3, <3>4, <3>7
    <3> QED BY <2>1, <3>2, <3>3, <3>7, <3>8, <3>9, OnCover
  <2> QED BY <2>1, <2>2, <2>3
<1>4. SetFailed(outcome) => CoverInv'
  <2> SUFFICES ASSUME SetFailed(outcome) PROVE CoverInv'
    OBVIOUS
  <2>1. stack # <<>> /\ UNCHANGED <<shape, call>> /\ (Throw \/ Return("false"))
    BY <1>0 DEF SetFailed, Transact, callVars
  <2> QED BY <2>1, PopFalse, ThrowCover
<1>5. SetDone(outcome) => CoverInv'
  <2> SUFFICES ASSUME SetDone(outcome) PROVE CoverInv'
    OBVIOUS
  <2> DEFINE r == Commit(conn, TRUE, outcome)
             n == Len(stack)
  <2>1. /\ stack # <<>> /\ Top.pc = "walking" /\ Top.rest = {} /\ result # "false"
        /\ UNCHANGED <<shape, call>> /\ spared' = spared
        /\ conn' = r.conn /\ gone' = gone \cup r.made
        /\ (r.ret = "throw" /\ Throw) \/ (r.ret # "throw" /\ Return("true"))
    BY <1>0 DEF SetDone, Transact, callVars, Proceeding
  <2>2. CASE Throw
    BY <2>1, <2>2, ThrowCover
  <2>3. CASE r.ret # "throw" /\ Return("true")
    <3>1. r.made \cup r.conn.work = conn.work
      BY <1>1, <2>3
    <3>2. Missing' = Missing
      BY <1>2, <2>1, <3>1
    <3>3. SetFrame(Top) =>
             \A y \in Goal(shape, call.rows, stack, n) : y \in Top.rest \/ y \in Covered
      BY <2>1, TopCovers
    <3>4. SetFrame(Top) /\ ~RecordFrame(Top) /\ Top.pc \notin {"ones", "many"}
      BY <2>1 DEF SetFrame, RecordFrame
    <3>5. Goal(shape, call.rows, stack, n) \subseteq Covered'
      BY <2>1, <3>2, <3>3, <3>4 DEF Covered
    <3> QED BY <2>1, <2>3, <3>2, <3>4, <3>5, PopTrue
  <2> QED BY <2>1, <2>2, <2>3
<1> QED BY <1>3, <1>4, <1>5

\* A call starts with everything it found still to come and nothing deleted.
LEMMA StartCover ==
    ASSUME Inv, Inv', NEW rows, NEW kind, NEW f, f \in FrameType, Start(rows, kind, f),
           f.pc \in {"start", "fetched"}, ~f.deleted,
           SetFrame(f) => rows \subseteq f.rest,
           SetFrame(f) <=> kind \in {"set", "query"}
    PROVE  CoverInv'
<1>1. /\ stack' = <<f>> /\ result' = "none" /\ call'.rows = rows /\ call'.kind = kind
      /\ call'.before = Missing /\ UNCHANGED <<conn, gone, shape>>
  BY DEF Start
<1>2. /\ Len(stack') = 1 /\ stack'[1] = f /\ stack' # <<>>
      /\ \A i \in 1 .. Len(stack') : i = 1
  BY <1>1
<1>3. Missing' = Missing
  BY <1>1 DEF Missing, Visible
<1>4. Linked(stack')
  <2>1. \A i \in 1 .. (Len(stack') - 1) : FALSE
    BY <1>2
  <2> QED BY <2>1 DEF Linked
<1>5. Entered(stack', call'.kind, result')
  BY <1>1, <1>2 DEF Entered
<1>6. FrameCovers(shape', call'.rows, stack', 1, Covered', Missing')
  BY <1>1, <1>2 DEF FrameCovers, SetFrame, Goal
<1>7. Covers(shape', call'.rows, stack', Covered', Missing')
  BY <1>2, <1>6 DEF Covers
<1>8. Handled(shape', stack', Missing', call'.before, Covered')
  BY <1>1, <1>3 DEF Handled
<1> QED BY <1>1, <1>2, <1>4, <1>5, <1>7, <1>8 DEF CoverInv

LEMMA NextCover == Inv /\ CoverInv /\ [Next]_vars => CoverInv'
<1> SUFFICES ASSUME Inv, CoverInv, [Next]_vars PROVE CoverInv'
  OBVIOUS
<1>1. Inv'
  BY NextInv
<1>2. TxOutcome \subseteq Outcomes
  BY ChoicesAssumption DEF TxOutcome, Outcome, Outcomes
<1>3. CASE \E r \in Rows : DeleteRecord(r)
  <2>1. PICK r \in Rows : DeleteRecord(r)
    BY <1>3
  <2> DEFINE f == Frame("start", r, {})
  <2>2. f \in FrameType /\ f.pc = "start" /\ ~f.deleted
    BY DEF Frame, FrameType
  <2>3. Start({r}, "record", f) /\ ~SetFrame(f)
    BY <2>1, <2>2 DEF DeleteRecord, SetFrame
  <2> HIDE DEF f
  <2>4. "record" \notin {"set", "query"}
    OBVIOUS
  <2> QED BY <1>1, <2>2, <2>3, <2>4, StartCover
<1>4. CASE \E rows \in shape.sets : DeleteSet(rows) \/ DeleteQuery(rows)
  <2>1. PICK rows \in shape.sets : DeleteSet(rows) \/ DeleteQuery(rows)
    BY <1>4
  <2> DEFINE found == {x \in rows : Visible(x)}
             f == Frame("fetched", CHOOSE x \in Rows : TRUE, found)
  <2>2. rows \subseteq Rows
    BY ShapesAssumption DEF Inv
  <2>3. f \in FrameType /\ f.pc = "fetched" /\ ~f.deleted /\ f.rest = found
    <3>1. (CHOOSE x \in Rows : TRUE) \in Rows
      BY RowsAssumption
    <3> QED BY <2>2, <3>1 DEF Frame, FrameType
  <2>4. PICK kind \in {"set", "query"} : Start(found, kind, f)
    BY <2>1 DEF DeleteSet, DeleteQuery, StartSet
  <2> HIDE DEF found, f
  <2>5. SetFrame(f) /\ found \subseteq f.rest
    BY <2>3 DEF SetFrame
  <2> QED BY <1>1, <2>3, <2>4, <2>5, StartCover
<1>5. CASE Step
  <2>1. CASE \E outcome \in TxOutcome :
                SetBegin(outcome) \/ SetFailed(outcome) \/ SetDone(outcome)
    BY <1>1, <1>2, <2>1, SetCover
  <2>2. CASE \E outcome \in Outcome : DeleteRow(outcome)
    BY <1>1, <2>2, DeleteRowCover
  <2>3. CASE \E r \in Rows : CascadeOne(r) \/ SetNext(r) \/ SetPassOver(r)
    BY <1>1, <2>3, LoopCover
  <2>4. CASE SetEmpty
    BY <1>1, <2>4, LoopCover, RowsAssumption
  <2> QED BY <1>1, <1>5, <2>1, <2>2, <2>3, <2>4, RecordCover, CascadeManyCover DEF Step
<1>6. CASE AppBegin \/ AppCommit \/ AppRollback
  <2>1. stack' = <<>> /\ result' = "none"
    BY <1>6 DEF AppBegin, AppCommit, AppRollback, AppCalls
  <2>2. Linked(<<>>) /\ Entered(<<>>, call'.kind, "none")
    <3>1. \A i \in 1 .. (Len(<<>>) - 1) : FALSE
      OBVIOUS
    <3> QED BY <3>1 DEF Linked, Entered
  <2> QED BY <2>1, <2>2 DEF CoverInv
<1>7. CASE UNCHANGED vars
  <2>1. Missing' = Missing /\ Covered' = Covered
    BY <1>7 DEF vars, Missing, Visible, Covered
  <2> QED BY <1>7, <2>1 DEF vars, CoverInv
<1> QED BY <1>3, <1>4, <1>5, <1>6, <1>7 DEF Next

LEMMA InitCover == Init => CoverInv
<1> SUFFICES ASSUME Init PROVE CoverInv
  OBVIOUS
<1>1. stack = <<>> /\ result = "none"
  BY DEF Init
<1>2. Linked(<<>>) /\ Entered(<<>>, call.kind, "none")
  <2>1. \A i \in 1 .. (Len(<<>>) - 1) : FALSE
    OBVIOUS
  <2> QED BY <2>1 DEF Linked, Entered
<1> QED BY <1>1, <1>2 DEF CoverInv

\* No orphans: a delete() that answers true has deleted, or a listener or the
\* callback has left out, every row that a row it deleted owns, for any
\* relations, in both directions too, and whatever a listener vetoes, a
\* statement answers or a nested delete() throws on the way.
THEOREM CascadeCorrect == Spec => []CascadeComplete
<1>1. Inv /\ CoverInv => CascadeComplete
  <2> SUFFICES ASSUME Inv, CoverInv, Answered, result = "true", NEW p \in Cascades,
                      p[1] \in Missing \ call.before
               PROVE  p[2] \in Missing \cup spared
    BY DEF CascadeComplete
  <2>1. stack = <<>> /\ Handled(shape, stack, Missing, call.before, Covered)
    BY DEF Answered, CoverInv
  <2>2. ~InProgress(stack, p[1])
    BY <2>1 DEF InProgress
  <2>3. Owned(shape, p[1]) \subseteq Covered
    BY <2>1, <2>2 DEF Handled
  <2>4. p \in Rows \X Rows /\ p = <<p[1], p[2]>>
    BY ShapesAssumption DEF Inv, Cascades
  <2>5. p[2] \in Owned(shape, p[1])
    BY <2>4 DEF Owned, OneOf, ManyOf, Cascades
  <2> QED BY <2>3, <2>5 DEF Covered
<1> QED
  BY <1>1, InitInv, NextInv, InitCover, NextCover, PTL DEF Spec

----------------------------------------------------------------------------
(* Types *)

TypeInv ==
    /\ LevelInv
    /\ conn.active => conn.level > 0
    /\ spared \subseteq Rows
    /\ calls \in 0 .. MaxCalls
    /\ result \in Returns \cup {"none"}
    /\ call.rows \subseteq Rows /\ call.before \subseteq Rows
    /\ call.kind \in {"none", "record", "set", "query"}

\* A step of a call, or of the application between calls.
LEMMA CallTypes ==
    ASSUME TypeInv, LevelInv', UNCHANGED <<calls, call>>,
           conn'.active => conn'.level > 0, spared' \subseteq Rows,
           result' \in Returns \cup {"none"}
    PROVE  TypeInv'
BY DEF TypeInv

LEMMA StartTypes ==
    ASSUME TypeInv, LevelInv', NEW rows, rows \subseteq Rows,
           NEW kind, kind \in {"record", "set", "query"}, NEW f, Start(rows, kind, f)
    PROVE  TypeInv'
<1>1. /\ conn' = conn /\ spared' = {} /\ calls < MaxCalls /\ calls' = calls + 1
      /\ result' = "none" /\ call'.rows = rows /\ call'.kind = kind /\ call'.before = Missing
  BY DEF Start
<1>2. calls' \in 0 .. MaxCalls
  BY <1>1, BoundsAssumption DEF TypeInv
<1>3. Missing \subseteq Rows
  BY DEF Missing
<1> QED BY <1>1, <1>2, <1>3 DEF TypeInv

\* The database calls.
LEMMA CallsKnown ==
    ASSUME TypeInv, NEW outcome, outcome \in Outcomes, outcome # "busy"
    PROVE  /\ LET r == Begin(conn, TRUE, outcome) IN r.conn.active => r.conn.level > 0
           /\ LET r == Commit(conn, TRUE, outcome) IN r.conn.active => r.conn.level > 0
           /\ LET r == Rollback(conn, TRUE, outcome) IN r.conn.active => r.conn.level > 0
<1> DEFINE W == Kept(shape, gone)
<1>1. /\ {} \in W /\ conn \in Session(W) /\ conn.open
      /\ (conn.active => conn.level > 0)
  BY DEF TypeInv, LevelInv, Inv
<1> HIDE DEF W
<1>2. ASSUME NEW nesting
      PROVE  /\ LET r == Begin(conn, nesting, outcome) IN r.conn.active => r.conn.level > 0
             /\ LET r == Commit(conn, nesting, outcome) IN r.conn.active => r.conn.level > 0
             /\ LET r == Rollback(conn, nesting, outcome) IN r.conn.active => r.conn.level > 0
  BY <1>1, MethodsKnown
<1> QED BY <1>2

LEMMA StepTypes ==
    ASSUME "busy" \notin Faults, TypeInv, LevelInv', Step
    PROVE  TypeInv'
<1> DEFINE Known == conn'.active => conn'.level > 0
<1>1. UNCHANGED conn => Known
  BY DEF TypeInv
<1>2. /\ TxOutcome \subseteq Outcomes /\ "busy" \notin TxOutcome
      /\ Outcome \subseteq Outcomes
  BY ChoicesAssumption DEF TxOutcome, Outcome, Outcomes
<1>3. \A r \in Rows : spared \cup {r} \subseteq Rows
  BY DEF TypeInv
<1>4. /\ spared \subseteq Rows /\ result \in Returns \cup {"none"}
      /\ \A pc : At(pc) => stack # <<>>
      /\ stack # <<>> => Top.rec \in Rows
  BY StackSteps DEF TypeInv, LevelInv, Inv, FrameType, At
<1>5. \A ret \in Returns : Return(ret) \/ Answer(ret) \/ Throw => result' \in Returns
  BY DEF Return, Answer, Throw, Returns
<1>6. \A pc, rest, f : Nested(pc, rest, f) => result' = "none"
  BY DEF Nested
<1>7. "true" \in Returns /\ "false" \in Returns
  BY DEF Returns
<1>8. CASE RecordRestricted \/ RecordVetoed \/ RecordThrows \/ CascadeFailed \/ RecordDone
              \/ SetEmpty
  <2>1. UNCHANGED <<conn, spared, calls, call>>
    BY <1>8 DEF RecordRestricted, RecordVetoed, RecordThrows, CascadeFailed, RecordDone,
                SetEmpty, callVars
  <2>2. result' \in Returns
    BY <1>5, <1>7, <1>8 DEF RecordRestricted, RecordVetoed, RecordThrows, CascadeFailed,
                            RecordDone, SetEmpty
  <2> QED BY <1>1, <1>4, <2>1, <2>2, CallTypes
<1>9. CASE RecordSkipped
  <2>1. UNCHANGED <<conn, calls, call>> /\ result' \in Returns /\ spared' = spared \cup {Top.rec}
    BY <1>5, <1>7, <1>9 DEF RecordSkipped, callVars
  <2>2. spared' \subseteq Rows
    BY <1>3, <1>4, <1>9, <2>1 DEF RecordSkipped
  <2> QED BY <1>1, <2>1, <2>2, CallTypes
<1>10. CASE CascadeMany
  BY <1>1, <1>4, <1>6, <1>10, CallTypes DEF CascadeMany, callVars
<1>11. CASE \E r \in Rows : CascadeOne(r) \/ SetNext(r) \/ SetPassOver(r)
  <2>1. PICK r \in Rows : CascadeOne(r) \/ SetNext(r) \/ SetPassOver(r)
    BY <1>11
  <2>2. UNCHANGED <<conn, calls, call>> /\ (spared' = spared \/ spared' = spared \cup {r})
        /\ (result' = result \/ result' = "none")
    BY <1>6, <2>1 DEF CascadeOne, SetNext, SetPassOver, callVars
  <2> QED BY <1>1, <1>3, <1>4, <2>2, CallTypes
<1>12. CASE \E outcome \in Outcome : DeleteRow(outcome)
  <2>1. PICK outcome \in Outcome : DeleteRow(outcome)
    BY <1>12
  <2> DEFINE d == Execute(conn, Top.rec, outcome)
  <2>2. conn' = d.conn /\ UNCHANGED <<spared, calls, call>> /\ (result' = "none" \/ Throw)
    BY <2>1 DEF DeleteRow, callVars
  <2>3. d.conn.level = conn.level /\ (d.conn.active <=> conn.active)
    BY DEF Execute, RefusalOf, Result, TypeInv, LevelInv, Inv, Session, ConnectionOf
  <2>4. result' \in Returns \cup {"none"}
    BY <1>5, <1>7, <2>2
  <2>5. Known
    BY <2>2, <2>3 DEF TypeInv
  <2> QED BY <1>4, <2>2, <2>4, <2>5, CallTypes
<1>13. CASE \E outcome \in TxOutcome :
               SetBegin(outcome) \/ SetFailed(outcome) \/ SetDone(outcome)
  <2>1. PICK outcome \in TxOutcome :
               SetBegin(outcome) \/ SetFailed(outcome) \/ SetDone(outcome)
    BY <1>13
  <2>2. UNCHANGED <<spared, calls, call>>
        /\ (Throw \/ Return("true") \/ Return("false") \/ result' = result)
    BY <2>1 DEF SetBegin, SetFailed, SetDone, Transact, callVars
  <2>3. result' \in Returns \cup {"none"}
    BY <1>4, <1>5, <1>7, <2>2
  <2>4. \/ conn' = Begin(conn, TRUE, outcome).conn
        \/ conn' = Commit(conn, TRUE, outcome).conn
        \/ conn' = Rollback(conn, TRUE, outcome).conn
    BY <2>1 DEF SetBegin, SetFailed, SetDone, Transact
  <2>5. outcome \in Outcomes /\ outcome # "busy"
    BY <1>2
  <2>6. Known
    BY <2>4, <2>5, CallsKnown
  <2> QED BY <1>4, <2>2, <2>3, <2>6, CallTypes
<1> QED BY <1>8, <1>9, <1>10, <1>11, <1>12, <1>13 DEF Step

LEMMA NextTypes ==
    ASSUME "busy" \notin Faults
    PROVE  TypeInv /\ [Next]_vars => TypeInv'
<1> SUFFICES ASSUME TypeInv, [Next]_vars PROVE TypeInv'
  OBVIOUS
<1>1. LevelInv'
  BY NextLevel DEF TypeInv
<1>2. CASE \E r \in Rows : DeleteRecord(r)
  <2>1. PICK r \in Rows : DeleteRecord(r)
    BY <1>2
  <2>2. Start({r}, "record", Frame("start", r, {})) /\ {r} \subseteq Rows
    BY <2>1 DEF DeleteRecord
  <2>3. "record" \in {"record", "set", "query"}
    OBVIOUS
  <2> QED BY <1>1, <2>2, <2>3, StartTypes
<1>3. CASE \E rows \in shape.sets : DeleteSet(rows) \/ DeleteQuery(rows)
  <2>1. PICK rows \in shape.sets : DeleteSet(rows) \/ DeleteQuery(rows)
    BY <1>3
  <2> DEFINE found == {x \in rows : Visible(x)}
             f == Frame("fetched", CHOOSE x \in Rows : TRUE, found)
  <2>2. found \subseteq Rows
    BY ShapesAssumption DEF TypeInv, LevelInv, Inv
  <2>3. PICK kind \in {"set", "query"} : Start(found, kind, f)
    BY <2>1 DEF DeleteSet, DeleteQuery, StartSet
  <2>4. kind \in {"record", "set", "query"}
    BY <2>3
  <2> HIDE DEF found, f
  <2> QED BY <1>1, <2>2, <2>3, <2>4, StartTypes
<1>4. CASE Step
  BY <1>1, <1>4, StepTypes
<1>5. CASE AppBegin \/ AppCommit \/ AppRollback
  <2>1. "ok" \in Outcomes /\ "ok" # "busy"
    BY DEF Outcomes
  <2>2. \/ conn' = Begin(conn, TRUE, "ok").conn
        \/ conn' = Commit(conn, TRUE, "ok").conn
        \/ conn' = Rollback(conn, TRUE, "ok").conn
    BY <1>5 DEF AppBegin, AppCommit, AppRollback, AppCalls
  <2>3. conn'.active => conn'.level > 0
    BY <2>1, <2>2, CallsKnown
  <2>4. UNCHANGED <<spared, calls, call>> /\ result' = "none"
    BY <1>5 DEF AppBegin, AppCommit, AppRollback, AppCalls, callVars
  <2> QED BY <1>1, <2>3, <2>4, CallTypes DEF TypeInv
<1>6. CASE UNCHANGED vars
  BY <1>1, <1>6 DEF vars, TypeInv
<1> QED BY <1>2, <1>3, <1>4, <1>5, <1>6 DEF Next

LEMMA InitTypes == Init => TypeInv
<1> SUFFICES ASSUME Init PROVE TypeInv
  OBVIOUS
<1>1. PICK savepoints \in Savepoints :
          conn = Connect(Closed("mysql", savepoints), "ok").conn
  BY DEF Init
<1>2. conn.open /\ ~conn.active
  BY <1>1 DEF Connect, Closed, Idle, Result
<1>3. /\ stack = <<>> /\ result = "none" /\ calls = 0 /\ spared = {}
      /\ call = [rows |-> {}, kind |-> "none", base |-> 0, before |-> {}]
  BY DEF Init
<1>4. LevelInv
  BY <1>2, <1>3, InitInv DEF LevelInv, Answered
<1> QED BY <1>2, <1>3, <1>4, BoundsAssumption DEF TypeInv

\* Types, and the counter of the connection knows of every transaction of the
\* session: unless a refused COMMIT leaves a transaction open.
THEOREM TypeCorrect ==
    ASSUME "busy" \notin Faults
    PROVE  Spec => []TypeOK
<1>1. TypeInv => TypeOK
  <2> SUFFICES ASSUME TypeInv PROVE TypeOK
    OBVIOUS
  <2>1. /\ shape \in Shapes /\ conn.open /\ conn.level \in Nat /\ gone \subseteq Rows
        /\ call.base \in Nat /\ stack \in Seq(FrameType)
    BY DEF TypeInv, LevelInv, Inv, Session, ConnectionOf
  <2>2. \A i \in 1 .. Len(stack) :
           /\ stack[i].rec \in Rows /\ stack[i].rest \subseteq Rows
           /\ stack[i].pc \in {"start", "ones", "many", "fetched", "walking"}
    <3> TAKE i \in 1 .. Len(stack)
    <3>1. stack[i] \in FrameType
      BY <2>1
    <3> QED BY <3>1 DEF FrameType
  <2> QED BY <2>1, <2>2 DEF TypeInv, TypeOK
<1> QED
  BY <1>1, InitTypes, NextTypes, PTL DEF Spec

----------------------------------------------------------------------------
(* All or nothing *)

\* The nesting levels of a call that begins at base and have a savepoint.
Lowest(base) == IF base = 0 THEN 2 ELSE base + 1

\* While a call that began at base is walking its result set, the session
\* knows the way back to the rows before: the transaction it began, or the
\* savepoint of its first level, with one for every level above.
Held(c, g, base, before) ==
    /\ base = 0 => c.active /\ before = g
    /\ c.active =>
          /\ c.savepoints => Marks(c.points, Lowest(base) .. c.level)
          /\ base > 0 => before = g \cup PointWork(c.points, base + 1)

\* A session of the call: without savepoints it has no transaction around it.
HeldSession(W, c, base) ==
    /\ {} \in W /\ c \in Session(W) /\ c.open /\ base \in Nat
    /\ c.active => c.level > 0
    /\ base = 0 \/ c.savepoints

LEMMA HeldFirst ==
    ASSUME NEW W, NEW c, NEW base, HeldSession(W, c, base), c.level = base,
           NEW g, NEW before, before = g \cup c.work, NEW nesting,
           UsesSavepoint(c, nesting) <=> c.savepoints,
           NEW outcome, outcome \in Outcomes, outcome # "veto",
           NEW r, r = Begin(c, nesting, outcome), r.ret # "throw"
    PROVE  Held(r.conn, g \cup r.made, base, before)
<1>1. /\ {} \in W /\ c \in Session(W) /\ c.open /\ base \in Nat
      /\ (c.active => c.level > 0) /\ (base = 0 \/ c.savepoints)
      /\ c \in ConnectionOf(W)
  BY DEF HeldSession, Session
<1>2. Worked(outcome, r)
  BY DEF Worked
<1>3. CASE base = 0
  <2>1. InStep(c)
    BY <1>1, <1>3 DEF InStep
  <2>2. /\ r.made = {} /\ InStep(r.conn) /\ r.conn.level = c.level + 1
        /\ r.conn.work = c.work
    BY <1>1, <1>2, <2>1, BeginWorks
  <2>3. c.work = {} /\ c.active = FALSE
    BY <1>1, <1>3 DEF Session, ConnectionOf
  <2>4. r.conn.active /\ r.conn.level = 1
    BY <1>1, <1>3, <2>2 DEF InStep
  <2>5. Lowest(base) .. r.conn.level = {}
    BY <1>3, <2>4 DEF Lowest
  <2> QED BY <1>3, <2>2, <2>3, <2>4, <2>5 DEF Held, Marks
<1>4. CASE base > 0 /\ c.active
  <2>1. InStep(c) /\ UsesSavepoint(c, nesting) /\ c.level # 0
    BY <1>1, <1>4 DEF InStep
  <2> DEFINE name == c.level + 1
             none == {}
  <2>2. r.made = {} /\ r.conn.level = name
    BY <1>1, <1>2, <2>1, BeginWorks
  <2>3. r.conn.points = PointsWith(c, name)
    BY <1>1, <1>2, <2>1, BeginWorks
  <2>4. /\ c.points \in Seq(PointOf(W)) /\ name \in Nat
        /\ [name |-> name, work |-> c.work] \in PointOf(W)
        /\ Under(none, name) /\ Marks(c.points, none)
    BY <1>1 DEF ConnectionOf, PointOf, Under, Marks
  <2> HIDE DEF none, name
  <2>5. Marks(PointsWith(c, name), none \cup {name})
    BY <2>4, SavepointMarks
  <2>6. PointWork(PointsWith(c, name), name) = c.work
    BY <2>4, SavepointMarks
  <2>7. none \cup {name} = Lowest(base) .. r.conn.level /\ name = base + 1
    BY <1>1, <1>4, <2>2 DEF none, name, Lowest
  <2>8. Marks(r.conn.points, Lowest(base) .. r.conn.level)
    BY <2>3, <2>5, <2>7
  <2>9. PointWork(r.conn.points, base + 1) = c.work
    BY <2>3, <2>6, <2>7
  <2>10. g \cup r.made = g /\ base # 0
    BY <1>4, <2>2
  <2> QED BY <2>8, <2>9, <2>10 DEF Held
<1>5. CASE base > 0 /\ ~c.active
  <2>1. ~r.conn.active
    BY <1>1, <1>5, StaysIdle
  <2> QED BY <1>5, <2>1 DEF Held
<1> QED BY <1>1, <1>3, <1>4, <1>5

\* begin() of a result set further down.
LEMMA HeldBegin ==
    ASSUME NEW W, NEW c, NEW base, HeldSession(W, c, base), c.level > base,
           NEW g, NEW before, Held(c, g, base, before), NEW nesting,
           UsesSavepoint(c, nesting) <=> c.savepoints,
           NEW outcome, outcome \in Outcomes, outcome # "veto",
           NEW r, r = Begin(c, nesting, outcome), r.ret # "throw"
    PROVE  Held(r.conn, g \cup r.made, base, before)
<1>1. /\ {} \in W /\ c \in Session(W) /\ c.open /\ base \in Nat
      /\ (base = 0 \/ c.savepoints) /\ c \in ConnectionOf(W)
      /\ c.level \in Nat /\ c.level > 0
  BY DEF HeldSession, Session, ConnectionOf
<1>2. CASE ~c.active
  <2>1. ~r.conn.active
    BY <1>1, <1>2, StaysIdle
  <2>2. base # 0
    BY <1>2 DEF Held
  <2> QED BY <2>1, <2>2 DEF Held
<1>3. CASE c.active
  <2>0. InStep(c) /\ Worked(outcome, r) /\ c.level # 0
    BY <1>1, <1>3 DEF InStep, Worked
  <2> DEFINE name == c.level + 1
             names == Lowest(base) .. c.level
  <2>1. /\ r.made = {} /\ InStep(r.conn) /\ r.conn.level = name
        /\ (r.conn.savepoints <=> c.savepoints)
    BY <1>1, <2>0, BeginWorks
  <2>2. r.conn.points = IF UsesSavepoint(c, nesting) THEN PointsWith(c, name) ELSE c.points
    BY <1>1, <2>0, BeginWorks
  <2>3. /\ r.conn.active /\ g \cup r.made = g /\ r.conn.level > 0
    BY <1>1, <2>1 DEF InStep
  <2>4. CASE c.savepoints
    <3>1. Marks(c.points, names)
      BY <1>3, <2>4 DEF Held
    <3>2. r.conn.points = PointsWith(c, name)
      BY <2>2, <2>4
    <3>3. /\ c.points \in Seq(PointOf(W)) /\ name \in Nat
          /\ [name |-> name, work |-> c.work] \in PointOf(W)
          /\ Under(names, name)
      BY <1>1 DEF ConnectionOf, PointOf, Under, Lowest
    <3>4. /\ names \cup {name} = Lowest(base) .. name
          /\ base > 0 => base + 1 \in names
      BY <1>1 DEF Lowest
    <3> HIDE DEF name, names
    <3>5. Marks(PointsWith(c, name), names \cup {name})
      BY <3>1, <3>3, SavepointMarks
    <3>6. SameWork(c.points, PointsWith(c, name), names)
      BY <3>1, <3>3, SavepointMarks
    <3>7. base > 0 => PointWork(r.conn.points, base + 1) = PointWork(c.points, base + 1)
      BY <3>2, <3>4, <3>6 DEF SameWork
    <3> QED BY <1>3, <2>1, <2>3, <3>2, <3>4, <3>5, <3>7 DEF Held
  <2>5. CASE ~c.savepoints
    BY <1>1, <1>3, <2>1, <2>3, <2>5 DEF Held
  <2> QED BY <2>4, <2>5
<1> QED BY <1>2, <1>3

\* commit() and rollback() of a result set further down.
LEMMA HeldEnd ==
    ASSUME NEW W, NEW c, NEW base, HeldSession(W, c, base), c.level > base + 1,
           NEW g, NEW before, Held(c, g, base, before), NEW nesting,
           UsesSavepoint(c, nesting) <=> c.savepoints,
           NEW outcome, outcome \in Outcomes, outcome # "veto",
           NEW r, r = Commit(c, nesting, outcome) \/ r = Rollback(c, nesting, outcome),
           r.ret # "throw"
    PROVE  Held(r.conn, g \cup r.made, base, before)
<1>1. /\ {} \in W /\ c \in Session(W) /\ c.open /\ base \in Nat
      /\ (base = 0 \/ c.savepoints) /\ c \in ConnectionOf(W)
      /\ c.level \in Nat /\ c.level > 0 /\ c.level > 1 /\ c.level # 1
  BY DEF HeldSession, Session, ConnectionOf
<1>2. CASE ~c.active
  <2>1. ~Commit(c, nesting, outcome).conn.active /\ ~Rollback(c, nesting, outcome).conn.active
    BY <1>1, <1>2, StaysIdle
  <2>2. base # 0 /\ ~r.conn.active
    BY <1>2, <2>1 DEF Held
  <2> QED BY <2>2 DEF Held
<1>3. CASE c.active
  <2>0. InStep(c) /\ Worked(outcome, r)
    BY <1>1, <1>3 DEF InStep, Worked
  <2> DEFINE name == c.level
             names == Lowest(base) .. name
             lower == {i \in names : i < name}
             upto == {i \in names : i <= name}
  <2>1. c.savepoints => /\ Marks(c.points, names) /\ name \in names
                        /\ PointIndex(c.points, name) > 0
    <3>1. c.savepoints => Marks(c.points, names) /\ name \in names
      BY <1>1, <1>3 DEF Held, Lowest
    <3> QED BY <3>1 DEF Marks
  <2>2. /\ r.made = {} /\ InStep(r.conn) /\ r.conn.level = name - 1
        /\ (r.conn.savepoints <=> c.savepoints)
        /\ c.savepoints => \/ r.conn.points = PointsReleased(c, name)
                           \/ r.conn.points = PointsRestored(c, name)
        /\ ~c.savepoints => r.conn.points = c.points
    <3>1. CASE r = Commit(c, nesting, outcome)
      <4>1. /\ InStep(r.conn) /\ r.conn.level = c.level - 1
            /\ (r.conn.savepoints <=> c.savepoints)
        BY <1>1, <2>0, <2>1, <3>1, CommitWorks
      <4>2. r.made = IF c.level = 1 THEN c.work ELSE {}
        BY <1>1, <2>0, <2>1, <3>1, CommitWorks
      <4>3. r.conn.points = IF c.level = 1 THEN <<>>
                              ELSE IF UsesSavepoint(c, nesting)
                                   THEN PointsReleased(c, c.level) ELSE c.points
        BY <1>1, <2>0, <2>1, <3>1, CommitWorks
      <4> QED BY <1>1, <4>1, <4>2, <4>3
    <3>2. CASE r = Rollback(c, nesting, outcome)
      <4>1. /\ InStep(r.conn) /\ r.conn.level = c.level - 1
            /\ (r.conn.savepoints <=> c.savepoints) /\ r.made = {}
        BY <1>1, <2>0, <2>1, <3>2, RollbackWorks
      <4>2. c.level > 1 /\ UsesSavepoint(c, nesting) =>
               r.conn.points = PointsRestored(c, c.level)
        BY <1>1, <2>0, <2>1, <3>2, RollbackWorks
      <4>3. c.level > 1 /\ ~UsesSavepoint(c, nesting) => r.conn.points = c.points
        BY <1>1, <2>0, <2>1, <3>2, RollbackWorks
      <4> QED BY <1>1, <4>1, <4>2, <4>3
    <3> QED BY <3>1, <3>2
  <2>3. /\ r.conn.active /\ g \cup r.made = g
    BY <1>1, <2>2 DEF InStep
  <2>4. CASE c.savepoints
    <3>1. c.points \in Seq(PointOf(W)) /\ names \in SUBSET Nat
      BY <1>1 DEF ConnectionOf, Lowest
    <3>2. /\ lower = Lowest(base) .. r.conn.level
          /\ \A i \in lower : i \in upto
          /\ base > 0 => base + 1 \in lower
      BY <1>1, <2>2 DEF Lowest
    <3>3. Marks(c.points, names) /\ name \in names
      BY <2>1, <2>4
    <3> HIDE DEF name, names
    <3>4. Marks(PointsReleased(c, name), lower) /\ SameWork(c.points, PointsReleased(c, name), lower)
      <4>1. Marks(PointsReleased(c, name), {i \in names : i < name})
        BY <3>1, <3>3, CutMarks
      <4>2. SameWork(c.points, PointsReleased(c, name), {i \in names : i < name})
        BY <3>1, <3>3, CutMarks
      <4> QED BY <4>1, <4>2
    <3>5. Marks(PointsRestored(c, name), lower) /\ SameWork(c.points, PointsRestored(c, name), lower)
      <4>1. Marks(PointsRestored(c, name), {i \in names : i <= name})
        BY <3>1, <3>3, CutMarks
      <4>2. SameWork(c.points, PointsRestored(c, name), {i \in names : i <= name})
        BY <3>1, <3>3, CutMarks
      <4> HIDE DEF lower
      <4> QED BY <3>2, <4>1, <4>2 DEF Marks, SameWork
    <3> HIDE DEF lower, upto
    <3>6. Marks(r.conn.points, lower) /\ SameWork(c.points, r.conn.points, lower)
      BY <2>2, <2>4, <3>4, <3>5
    <3>7. base > 0 => PointWork(r.conn.points, base + 1) = PointWork(c.points, base + 1)
      BY <3>2, <3>6 DEF SameWork
    <3> QED BY <1>3, <2>2, <2>3, <3>2, <3>6, <3>7 DEF Held
  <2>5. CASE ~c.savepoints
    BY <1>1, <1>3, <2>2, <2>3, <2>5 DEF Held
  <2> QED BY <2>4, <2>5
<1> QED BY <1>2, <1>3

\* The rollback() of the call's own result set: the rows are as before.
LEMMA HeldBack ==
    ASSUME NEW W, NEW c, NEW base, HeldSession(W, c, base), c.level = base + 1,
           NEW g, NEW before, Held(c, g, base, before), NEW nesting,
           UsesSavepoint(c, nesting) <=> c.savepoints,
           NEW outcome, outcome \in Outcomes, outcome # "veto",
           NEW r, r = Rollback(c, nesting, outcome), r.ret # "throw"
    PROVE  before = g \cup r.made \cup r.conn.work
<1>1. /\ {} \in W /\ c \in Session(W) /\ c.open /\ base \in Nat
      /\ (base = 0 \/ c.savepoints) /\ c \in ConnectionOf(W)
      /\ c.level \in Nat /\ c.level > 0
  BY DEF HeldSession, Session, ConnectionOf
<1>2. CASE ~c.active
  <2> DEFINE low == Shallower(c)
             name == c.level
  <2>1. base > 0 /\ c.savepoints /\ c.level > 1
    BY <1>1, <1>2 DEF Held
  <2>2. c.points = <<>> /\ low.points = c.points
    BY <1>1, <1>2 DEF Session, ConnectionOf, Shallower
  <2>3. r = RollbackSavepoint(low, name, outcome)
    BY <1>1, <2>1 DEF Rollback
  <2> HIDE DEF low, name
  <2>4. PointIndex(low.points, name) = 0
    <3>1. <<>> \in Seq(PointOf(W)) /\ Len(<<>>) = 0
      OBVIOUS
    <3>2. PointIndex(<<>>, name) \in 0 .. Len(<<>>)
      BY <3>1, PointIndexRange
    <3> QED BY <2>2, <3>1, <3>2
  <2>5. RefusalOf(low, outcome).ret = "throw" /\ Result(low, {}, "throw").ret = "throw"
    BY DEF RefusalOf, Result
  <2>6. r \in {RefusalOf(low, outcome), Result(low, {}, "throw")}
    <3>1. Refused(low, outcome) \/ ~Refused(low, outcome)
      OBVIOUS
    <3> QED BY <2>3, <2>4, <3>1 DEF RollbackSavepoint
  <2> QED BY <2>5, <2>6
<1>3. CASE c.active
  <2>0. InStep(c) /\ Worked(outcome, r)
    BY <1>1, <1>3 DEF InStep, Worked
  <2>1. base > 0 => PointIndex(c.points, c.level) > 0
    <3>1. base > 0 => Marks(c.points, Lowest(base) .. c.level)
      BY <1>1, <1>3 DEF Held
    <3>2. base > 0 => c.level \in Lowest(base) .. c.level
      BY <1>1 DEF Lowest
    <3> QED BY <3>1, <3>2 DEF Marks
  <2>2. c.level > 1 /\ UsesSavepoint(c, nesting) => PointIndex(c.points, c.level) > 0
    BY <1>1, <2>1
  <2>3. r.made = {}
    BY <1>1, <2>0, <2>2, RollbackWorks
  <2>4. CASE base = 0
    <3>1. c.level = 1
      BY <2>4
    <3>2. c.level = 1 => r.conn.work = {}
      BY <1>1, <2>0, <2>2, RollbackWorks
    <3> QED BY <2>3, <2>4, <3>1, <3>2 DEF Held
  <2>5. CASE base > 0
    <3>1. c.level > 1 /\ UsesSavepoint(c, nesting)
      BY <1>1, <2>5
    <3>2. c.level > 1 /\ UsesSavepoint(c, nesting) => r.conn.work = WorkAt(c, c.level)
      BY <1>1, <2>0, <2>2, RollbackWorks
    <3>3. WorkAt(c, c.level) = PointWork(c.points, base + 1)
      BY DEF WorkAt, PointWork
    <3> QED BY <1>3, <2>3, <2>5, <3>1, <3>2, <3>3 DEF Held
  <2> QED BY <1>1, <2>4, <2>5
<1> QED BY <1>2, <1>3

BulkInv ==
    call.kind \in {"set", "query"} /\ (call.base = 0 \/ conn.savepoints) =>
        /\ stack # <<>> =>
              /\ stack[1].pc = "fetched" => Len(stack) = 1 /\ call.before = Missing
              /\ stack[1].pc = "walking" => Held(conn, gone, call.base, call.before)
        /\ Answered /\ result = "false" => Missing = call.before

\* The three ways in which a step leaves a call of a result set: it goes on
\* under its begin(), it ends in another way than with false, or it ends with
\* the rows as they were.
HeldOn ==
    stack' # <<>> /\ stack'[1].pc = "walking" /\ Held(conn', gone', call.base, call.before)
OverOtherwise == stack' = <<>> /\ result' # "false"
BackAgain     == stack' = <<>> /\ Missing' = call.before

LEMMA BulkTo ==
    ASSUME call' = call, conn'.savepoints = conn.savepoints,
           call.kind \in {"set", "query"} /\ (call.base = 0 \/ conn.savepoints) =>
               HeldOn \/ OverOtherwise \/ BackAgain
    PROVE  BulkInv'
<1> SUFFICES ASSUME call.kind \in {"set", "query"}, call.base = 0 \/ conn.savepoints
             PROVE  BulkInv'
  BY DEF BulkInv
<1>1. HeldOn => BulkInv'
  BY DEF BulkInv, HeldOn, Answered
<1>2. OverOtherwise => BulkInv'
  BY DEF BulkInv, OverOtherwise, Answered
<1>3. BackAgain => BulkInv'
  BY DEF BulkInv, BackAgain
<1> QED BY <1>1, <1>2, <1>3

\* The outermost frame of a call of a result set.
LEMMA Outermost ==
    ASSUME Inv, CoverInv, BulkInv, stack # <<>>, call.kind \in {"set", "query"},
           call.base = 0 \/ conn.savepoints
    PROVE  /\ Len(stack) \in Nat /\ Len(stack) > 0 /\ SetFrame(stack[1])
           /\ RecordFrame(Top) => Len(stack) > 1
           /\ Len(stack) > 1 => stack[1].pc = "walking"
           /\ Len(stack) = 1 => Top = stack[1]
           /\ stack[1].pc = "walking" => Held(conn, gone, call.base, call.before)
           /\ stack[1].pc = "fetched" => Len(stack) = 1 /\ call.before = Missing
<1>1. Len(stack) \in Nat /\ Len(stack) > 0 /\ Top = stack[Len(stack)]
  BY DEF Inv, Top, Last
<1>2. SetFrame(stack[1])
  BY DEF CoverInv, Entered
<1>3. RecordFrame(Top) => Len(stack) # 1
  <2>1. ~(RecordFrame(stack[1]) /\ SetFrame(stack[1]))
    BY DEF RecordFrame, SetFrame
  <2> QED BY <1>1, <1>2, <2>1
<1>4. ASSUME Len(stack) > 1
      PROVE  stack[1].pc = "walking"
  <2>1. LinkedAt(stack, 1)
    BY <1>1, <1>4 DEF CoverInv, Linked
  <2> QED BY <1>2, <2>1 DEF LinkedAt, SetFrame
<1>5. stack[1].pc = "walking" => Held(conn, gone, call.base, call.before)
  BY DEF BulkInv
<1>6. stack[1].pc = "fetched" => Len(stack) = 1 /\ call.before = Missing
  BY DEF BulkInv
<1>7. RecordFrame(Top) => Len(stack) > 1
  <2> DEFINE n == Len(stack)
  <2>1. n \in Nat /\ n > 0
    BY <1>1
  <2>2. RecordFrame(Top) => n # 1
    BY <1>3
  <2> HIDE DEF n
  <2>3. RecordFrame(Top) => n > 1
    BY <2>1, <2>2
  <2> QED BY <2>3 DEF n
<1> QED BY <1>1, <1>2, <1>4, <1>5, <1>6, <1>7

\* The steps after which the outermost frame is what it was.
LEMMA HeadPop ==
    ASSUME Inv, stack # <<>>, Len(stack) > 1, NEW ret, Return(ret)
    PROVE  stack' # <<>> /\ stack'[1] = stack[1]
<1>1. stack \in Seq(FrameType) /\ stack' = Front(stack)
  BY DEF Inv, Return
<1>2. /\ Len(stack) \in Nat /\ Front(stack) \in Seq(FrameType)
      /\ Len(Front(stack)) = Len(stack) - 1
      /\ \A i \in 1 .. (Len(stack) - 1) : Front(stack)[i] = stack[i]
  BY <1>1, FrontOf
<1>3. 1 \in 1 .. (Len(stack) - 1)
  BY <1>2
<1> QED BY <1>1, <1>2, <1>3

LEMMA HeadOn ==
    ASSUME Inv, Inv', stack # <<>>,
           NEW pc, pc \in {"start", "ones", "many", "fetched", "walking"},
           NEW rest, rest \in SUBSET Rows, pc \in {"fetched", "walking"} <=> SetFrame(Top),
           GoOn(pc, rest) \/ \E f \in FrameType : Nested(pc, rest, f)
    PROVE  /\ stack' # <<>>
           /\ Len(stack) = 1 => stack'[1].pc = pc
           /\ Len(stack) > 1 => stack'[1].pc = stack[1].pc
<1> DEFINE n == Len(stack)
<1>1. stack \in Seq(FrameType) /\ stack' \in Seq(FrameType) /\ n \in Nat /\ n > 0
  BY DEF Inv
<1>2. /\ OnTop(stack, stack', n) /\ stack'[n].pc = pc
      /\ Len(stack') = n \/ Len(stack') = n + 1
  <2>1. CASE GoOn(pc, rest)
    BY <1>1, <2>1, AfterGoOn
  <2>2. CASE \E f \in FrameType : Nested(pc, rest, f)
    <3>1. PICK f \in FrameType : Nested(pc, rest, f)
      BY <2>2
    <3>2. NestedOn(stack, stack', pc, rest, f)
      BY <1>1, <3>1, AfterNested
    <3> QED BY <3>2 DEF NestedOn, FrameIs
  <2> QED BY <2>1, <2>2
<1>3. ASSUME n > 1
      PROVE  stack'[1] = stack[1]
  <2>1. 1 \in 1 .. (n - 1)
    BY <1>1, <1>3
  <2> QED BY <1>2, <2>1 DEF OnTop, SameBelow
<1>4. stack' # <<>>
  BY <1>1, <1>2
<1>5. n = 1 => stack'[1].pc = pc
  BY <1>2
<1> QED BY <1>3, <1>4, <1>5

\* A record's steps that leave the rows alone: it is not the outermost frame.
LEMMA RecordBulk ==
    ASSUME Inv, CoverInv, BulkInv, stack # <<>>, RecordFrame(Top), UNCHANGED <<conn, gone, call>>,
           Throw \/ (Len(stack) > 1 => stack' # <<>> /\ stack'[1].pc = stack[1].pc)
    PROVE  BulkInv'
<1>1. ASSUME call.kind \in {"set", "query"} /\ (call.base = 0 \/ conn.savepoints)
      PROVE  HeldOn \/ OverOtherwise \/ BackAgain
  <2>1. Len(stack) > 1 /\ stack[1].pc = "walking" /\ Held(conn, gone, call.base, call.before)
    BY <1>1, Outermost
  <2>2. CASE Throw
    BY <2>2 DEF Throw, OverOtherwise
  <2>3. CASE stack' # <<>> /\ stack'[1].pc = stack[1].pc
    BY <2>1, <2>3 DEF HeldOn
  <2> QED BY <2>1, <2>2, <2>3
<1>2. call' = call /\ conn'.savepoints = conn.savepoints
  OBVIOUS
<1> QED BY <1>1, <1>2, BulkTo

LEMMA RecordsBulk ==
    ASSUME Inv, Inv', CoverInv, BulkInv, NEW r, r \in Rows
    PROVE  /\ RecordRestricted => BulkInv'
           /\ RecordVetoed => BulkInv'
           /\ RecordSkipped => BulkInv'
           /\ RecordThrows => BulkInv'
           /\ CascadeOne(r) => BulkInv'
           /\ CascadeMany => BulkInv'
           /\ CascadeFailed => BulkInv'
           /\ RecordDone => BulkInv'
<1> USE DEF callVars
<1> DEFINE Above == Len(stack) > 1 => stack' # <<>> /\ stack'[1].pc = stack[1].pc
<1>1. \A pc : At(pc) => stack # <<>> /\ Top.pc = pc /\ Top \in FrameType
  BY StackSteps DEF At, Inv
<1>2. At("start") \/ At("ones") \/ At("many") => stack # <<>> /\ RecordFrame(Top)
  BY <1>1 DEF RecordFrame
<1>3. \A ret : stack # <<>> /\ (Return(ret) \/ Answer(ret)) => Throw \/ Above
  BY HeadPop DEF Answer
<1> HIDE DEF Above
<1>4. ASSUME At("start") \/ At("ones") \/ At("many"), UNCHANGED <<conn, gone, call>>,
             Throw \/ Above
      PROVE  BulkInv'
  BY <1>2, <1>4, RecordBulk DEF Above
<1>5. RecordRestricted => BulkInv'
  BY <1>2, <1>3, <1>4 DEF RecordRestricted
<1>6. RecordVetoed => BulkInv'
  BY <1>2, <1>3, <1>4 DEF RecordVetoed
<1>7. RecordSkipped => BulkInv'
  BY <1>2, <1>3, <1>4 DEF RecordSkipped
<1>8. RecordThrows => BulkInv'
  BY <1>2, <1>4 DEF RecordThrows
<1>9. CascadeFailed => BulkInv'
  BY <1>2, <1>3, <1>4 DEF CascadeFailed
<1>10. RecordDone => BulkInv'
  BY <1>2, <1>3, <1>4 DEF RecordDone
<1>11. CascadeOne(r) => BulkInv'
  <2> SUFFICES ASSUME CascadeOne(r) PROVE BulkInv'
    OBVIOUS
  <2> DEFINE rest == Top.rest \ {r}
             f == Frame("start", r, {})
  <2>1. /\ At("ones") /\ Top.pc = "ones" /\ stack # <<>> /\ UNCHANGED <<conn, gone, call>>
        /\ GoOn("ones", rest) \/ Nested("ones", rest, f)
    BY <1>1 DEF CascadeOne
  <2>2. rest \in SUBSET Rows /\ f \in FrameType
    BY <1>1, <2>1 DEF FrameType, Frame
  <2>3. "ones" \in {"start", "ones", "many", "fetched", "walking"}
        /\ ("ones" \in {"fetched", "walking"} <=> SetFrame(Top))
    BY <2>1 DEF SetFrame
  <2> HIDE DEF rest, f
  <2>4. Above
    BY <2>1, <2>2, <2>3, HeadOn DEF Above
  <2> QED BY <1>4, <2>1, <2>4
<1>12. CascadeMany => BulkInv'
  <2> SUFFICES ASSUME CascadeMany PROVE BulkInv'
    OBVIOUS
  <2> DEFINE f == Frame("fetched", Top.rec, Fetched(Top.rec))
             rest == {}
  <2>1. /\ At("ones") /\ Top.pc = "ones" /\ stack # <<>> /\ UNCHANGED <<conn, gone, call>>
        /\ Nested("many", rest, f)
    BY <1>1 DEF CascadeMany
  <2>2. rest \in SUBSET Rows /\ f \in FrameType
    BY <1>1, <2>1 DEF FrameType, Frame, Fetched, Many
  <2>3. "many" \in {"start", "ones", "many", "fetched", "walking"}
        /\ ("many" \in {"fetched", "walking"} <=> SetFrame(Top))
    BY <2>1 DEF SetFrame
  <2> HIDE DEF rest, f
  <2>4. Above
    <3>1. (stack'[1].pc = stack[1].pc /\ stack' # <<>>) \/ ~(Len(stack) > 1)
      BY <2>1, <2>2, <2>3, HeadOn
    <3> QED BY <3>1 DEF Above
  <2> QED BY <1>4, <2>1, <2>4
<1> QED BY <1>5, <1>6, <1>7, <1>8, <1>9, <1>10, <1>11, <1>12

\* A result set's steps that leave the rows alone.
LEMMA LoopBulk ==
    ASSUME Inv, Inv', CoverInv, BulkInv, NEW r, r \in Rows
    PROVE  /\ SetEmpty => BulkInv'
           /\ SetNext(r) => BulkInv'
           /\ SetPassOver(r) => BulkInv'
<1> USE DEF callVars
<1> DEFINE Bulk == call.kind \in {"set", "query"} /\ (call.base = 0 \/ conn.savepoints)
<1>1. \A pc : At(pc) => stack # <<>> /\ Top.pc = pc /\ Top \in FrameType
  BY StackSteps DEF At, Inv
<1>2. ASSUME UNCHANGED <<conn, gone, call>>, Bulk => HeldOn \/ OverOtherwise
      PROVE  BulkInv'
  BY <1>2, BulkTo
<1>3. stack # <<>> /\ Bulk =>
         /\ Len(stack) > 1 \/ (Len(stack) = 1 /\ Top = stack[1])
         /\ Len(stack) > 1 => stack[1].pc = "walking"
         /\ stack[1].pc = "walking" => Held(conn, gone, call.base, call.before)
  <2>1. stack # <<>> /\ Bulk =>
           /\ Len(stack) \in Nat /\ Len(stack) > 0
           /\ Len(stack) > 1 => stack[1].pc = "walking"
           /\ Len(stack) = 1 => Top = stack[1]
           /\ stack[1].pc = "walking" => Held(conn, gone, call.base, call.before)
    BY Outermost
  <2>2. \A n \in Nat : n > 0 => n > 1 \/ n = 1
    OBVIOUS
  <2>3. stack # <<>> /\ Bulk => Len(stack) > 1 \/ Len(stack) = 1
    <3> HIDE DEF Bulk
    <3> QED BY <2>1, <2>2
  <2> HIDE DEF Bulk
  <2> QED BY <2>1, <2>3
<1> HIDE DEF Bulk
<1>4. SetEmpty => BulkInv'
  <2> SUFFICES ASSUME SetEmpty PROVE BulkInv'
    OBVIOUS
  <2>1. stack # <<>> /\ UNCHANGED <<conn, gone, call>> /\ Return("true")
    BY <1>1 DEF SetEmpty
  <2>2. ASSUME Bulk, Len(stack) > 1
        PROVE  HeldOn
    <3>1. stack' # <<>> /\ stack'[1] = stack[1]
      BY <2>1, <2>2, HeadPop
    <3> QED BY <1>3, <2>1, <2>2, <3>1 DEF HeldOn
  <2>3. ASSUME Bulk, Len(stack) = 1
        PROVE  OverOtherwise
    <3>1. stack' = <<>>
      BY <2>1, <2>3, FrontOf DEF Inv, Return
    <3> QED BY <2>1, <3>1 DEF Return, OverOtherwise
  <2> QED BY <1>2, <1>3, <2>1, <2>2, <2>3
<1>5. SetNext(r) => BulkInv'
  <2> SUFFICES ASSUME SetNext(r) PROVE BulkInv'
    OBVIOUS
  <2> DEFINE rest == Top.rest \ {r}
             f == Frame("start", r, {})
  <2>1. /\ Top.pc = "walking" /\ stack # <<>> /\ UNCHANGED <<conn, gone, call>>
        /\ Nested("walking", rest, f)
    BY <1>1 DEF SetNext
  <2>2. rest \in SUBSET Rows /\ f \in FrameType
    BY <1>1, <2>1 DEF SetNext, FrameType, Frame
  <2>3. "walking" \in {"start", "ones", "many", "fetched", "walking"}
        /\ ("walking" \in {"fetched", "walking"} <=> SetFrame(Top))
    BY <2>1 DEF SetFrame
  <2> HIDE DEF rest, f
  <2>4. /\ stack' # <<>>
        /\ Len(stack) = 1 => stack'[1].pc = "walking"
        /\ Len(stack) > 1 => stack'[1].pc = stack[1].pc
    BY <2>1, <2>2, <2>3, HeadOn
  <2>5. Bulk => HeldOn
    BY <1>3, <2>1, <2>4 DEF HeldOn
  <2> QED BY <1>2, <2>1, <2>5
<1>6. SetPassOver(r) => BulkInv'
  <2> SUFFICES ASSUME SetPassOver(r) PROVE BulkInv'
    OBVIOUS
  <2> DEFINE rest == Top.rest \ {r}
  <2>1. /\ Top.pc = "walking" /\ stack # <<>> /\ UNCHANGED <<conn, gone, call>>
        /\ GoOn("walking", rest)
    BY <1>1 DEF SetPassOver
  <2>2. rest \in SUBSET Rows
    BY <1>1, <2>1 DEF SetPassOver, FrameType
  <2>3. "walking" \in {"start", "ones", "many", "fetched", "walking"}
        /\ ("walking" \in {"fetched", "walking"} <=> SetFrame(Top))
    BY <2>1 DEF SetFrame
  <2> HIDE DEF rest
  <2>4. /\ stack' # <<>>
        /\ Len(stack) = 1 => stack'[1].pc = "walking"
        /\ Len(stack) > 1 => stack'[1].pc = stack[1].pc
    BY <2>1, <2>2, <2>3, HeadOn
  <2>5. Bulk => HeldOn
    BY <1>3, <2>1, <2>4 DEF HeldOn
  <2> QED BY <1>2, <2>1, <2>5
<1> QED BY <1>4, <1>5, <1>6

\* What the lemmas on a walked result set ask of the connection.
LEMMA CallSession ==
    ASSUME TypeInv, call.base = 0 \/ conn.savepoints
    PROVE  HeldSession(Kept(shape, gone), conn, call.base) /\ conn.level \in Nat
BY DEF TypeInv, LevelInv, Inv, Session, ConnectionOf, HeldSession

LEMMA DeleteRowBulk ==
    ASSUME TypeInv, Inv', CoverInv, BulkInv, NEW outcome, DeleteRow(outcome)
    PROVE  BulkInv'
<1> DEFINE d == Execute(conn, Top.rec, outcome)
           n == Len(stack)
           done == [conn EXCEPT !.work = @ \cup {Top.rec}]
<1>0. Inv
  BY DEF TypeInv, LevelInv
<1>1. /\ stack # <<>> /\ RecordFrame(Top) /\ call' = call
      /\ conn' = d.conn /\ gone' = gone \cup d.made
  BY DEF DeleteRow, At, callVars, RecordFrame
<1>2. d \in {RefusalOf(conn, outcome), Result(done, {}, "true"), Result(conn, {Top.rec}, "true")}
      /\ (d = Result(conn, {Top.rec}, "true") => ~conn.active \/ d = RefusalOf(conn, outcome))
      /\ (d = Result(done, {}, "true") => conn.active \/ d = RefusalOf(conn, outcome))
  BY DEF Execute, done, Result, RefusalOf
<1>3. \/ d.conn = conn /\ d.made = {}
      \/ d.conn = done /\ d.made = {} /\ conn.active
      \/ d.conn = conn /\ ~conn.active
  BY <1>2 DEF Result, RefusalOf
<1>4. /\ done.points = conn.points /\ done.level = conn.level
      /\ (done.active <=> conn.active) /\ (done.savepoints <=> conn.savepoints)
      /\ done.savepoints = conn.savepoints
  BY <1>0 DEF Inv, Session, ConnectionOf
<1> HIDE DEF d, done
<1>5. conn'.savepoints = conn.savepoints
  BY <1>1, <1>3, <1>4
<1>6. ASSUME call.kind \in {"set", "query"} /\ (call.base = 0 \/ conn.savepoints)
      PROVE  HeldOn \/ OverOtherwise \/ BackAgain
  <2>1. Len(stack) > 1 /\ stack[1].pc = "walking" /\ Held(conn, gone, call.base, call.before)
    BY <1>0, <1>1, <1>6, Outermost
  <2>2. Held(conn', gone', call.base, call.before)
    <3>1. CASE d.conn = conn /\ d.made = {}
      <4>1. conn' = conn /\ gone' = gone
        BY <1>1, <3>1
      <4> QED BY <2>1, <4>1
    <3>2. CASE d.conn = done /\ d.made = {} /\ conn.active
      <4>1. conn' = done /\ gone' = gone
        BY <1>1, <3>2
      <4> QED BY <1>4, <2>1, <4>1 DEF Held
    <3>3. CASE d.conn = conn /\ ~conn.active
      <4>1. conn' = conn /\ ~conn'.active /\ call.base # 0
        BY <1>1, <2>1, <3>3 DEF Held
      <4> QED BY <4>1 DEF Held
    <3> QED BY <1>3, <3>1, <3>2, <3>3
  <2>3. CASE Throw
    BY <2>3 DEF Throw, OverOtherwise
  <2>4. CASE ~Throw
    <3> DEFINE f == [[[Top EXCEPT !.pc = "ones"] EXCEPT !.rest = One(Top.rec)]
                          EXCEPT !.deleted = (d.ret = "true")]
    <3>1. stack' = [stack EXCEPT ![Len(stack)].pc = "ones",
                                 ![Len(stack)].rest = One(Top.rec),
                                 ![Len(stack)].deleted = (d.ret = "true")]
      BY <2>4 DEF DeleteRow, d
    <3>2. /\ stack \in Seq(FrameType) /\ n \in Nat /\ n > 1 /\ Top = stack[n]
      BY <1>0, <2>1 DEF Inv, Top, Last
    <3>3. stack' = [stack EXCEPT ![n] = f]
      BY <3>1, <3>2
    <3> HIDE DEF f
    <3>4. Len(stack') = n /\ stack'[1] = stack[1]
      BY <3>2, <3>3
    <3>5. stack' # <<>>
      BY <3>2, <3>4
    <3> QED BY <2>1, <2>2, <3>4, <3>5 DEF HeldOn
  <2> QED BY <2>3, <2>4
<1> QED BY <1>1, <1>5, <1>6, BulkTo

\* How many levels a call has begun, at least.
LEMMA WalkingCount ==
    ASSUME NEW s, s \in Seq(FrameType), NEW n, n = Len(s), n > 0
    PROVE  /\ Walking(s) \in Nat
           /\ n = 1 /\ s[1].pc = "walking" => Walking(s) = 1
           /\ n = 1 /\ s[1].pc # "walking" => Walking(s) = 0
           /\ s[1].pc = "walking" => Walking(s) > 0
           /\ n > 1 /\ s[1].pc = "walking" /\ s[n].pc = "walking" => Walking(s) > 1
<1> DEFINE w == WalkersOf(s)
<1>1. /\ IsFiniteSet(w) /\ Walking(s) \in Nat /\ Walking(s) = Cardinality(w)
      /\ n \in Nat /\ 1 \in 1 .. n /\ n \in 1 .. n /\ (n = 1 => 1 .. n = {1})
  BY WalkersFinite DEF Walking
<1>2. /\ n = 1 /\ s[1].pc = "walking" => w = {1}
      /\ n = 1 /\ s[1].pc # "walking" => w = {}
      /\ s[1].pc = "walking" => 1 \in w
      /\ s[n].pc = "walking" => n \in w
  BY <1>1 DEF WalkersOf
<1> HIDE DEF w
<1>3. Cardinality({}) = 0 /\ \A x : IsFiniteSet({x}) /\ Cardinality({x}) = 1
  BY FS_EmptySet, FS_Singleton
<1>4. s[1].pc = "walking" => Walking(s) > 0
  <2>1. Cardinality(w) # 0 \/ w = {}
    BY <1>1, FS_EmptySet
  <2> QED BY <1>1, <1>2, <2>1
<1>5. n > 1 /\ s[1].pc = "walking" /\ s[n].pc = "walking" => Walking(s) > 1
  <2>1. Cardinality(w) = 1 => \E x : w = {x}
    BY <1>1, FS_Singleton
  <2>2. n > 1 => n # 1
    BY <1>1
  <2>3. n > 1 /\ s[1].pc = "walking" /\ s[n].pc = "walking" =>
           Walking(s) # 1 /\ Walking(s) > 0
    BY <1>1, <1>2, <1>4, <2>1, <2>2
  <2> QED BY <1>1, <2>3
<1> QED BY <1>1, <1>2, <1>3, <1>4, <1>5

\* The level of the connection at the outermost result set.
LEMMA CallLevel ==
    ASSUME TypeInv, stack # <<>>
    PROVE  /\ Len(stack) = 1 /\ stack[1].pc = "fetched" => conn.level = call.base
           /\ Len(stack) = 1 /\ stack[1].pc = "walking" => conn.level = call.base + 1
           /\ stack[1].pc = "walking" => conn.level > call.base
           /\ Len(stack) > 1 /\ stack[1].pc = "walking" /\ Top.pc = "walking" =>
                 conn.level > call.base + 1
<1> DEFINE n == Len(stack)
           w == Walking(stack)
<1>1. /\ stack \in Seq(FrameType) /\ n = Len(stack) /\ n > 0 /\ Top = stack[n]
      /\ conn.level \in Nat /\ call.base \in Nat /\ conn.level = call.base + w
  BY DEF TypeInv, LevelInv, Inv, Session, ConnectionOf, Top, Last
<1>2. /\ w \in Nat
      /\ n = 1 /\ stack[1].pc = "walking" => w = 1
      /\ n = 1 /\ stack[1].pc # "walking" => w = 0
      /\ stack[1].pc = "walking" => w > 0
      /\ n > 1 /\ stack[1].pc = "walking" /\ stack[n].pc = "walking" => w > 1
  <2> HIDE DEF n
  <2> QED BY <1>1, WalkingCount
<1>3. conn.level > call.base <=> w > 0
  <2> HIDE DEF w
  <2> QED BY <1>1, <1>2
<1>4. conn.level > call.base + 1 <=> w > 1
  <2> HIDE DEF w
  <2> QED BY <1>1, <1>2
<1>5. (w = 0 => conn.level = call.base) /\ (w = 1 => conn.level = call.base + 1)
  <2> HIDE DEF w
  <2> QED BY <1>1, <1>2
<1> HIDE DEF w
<1> QED BY <1>1, <1>2, <1>3, <1>4, <1>5

\* The connection methods of the walk, in a call of a result set.
LEMMA WalkHeld ==
    ASSUME TypeInv, call.base = 0 \/ conn.savepoints,
           NEW outcome, outcome \in Outcomes, outcome # "veto"
    PROVE  /\ LET r == Begin(conn, TRUE, outcome)
              IN  conn.level = call.base /\ call.before = Missing /\ r.ret # "throw" =>
                     Held(r.conn, gone \cup r.made, call.base, call.before)
           /\ LET r == Begin(conn, TRUE, outcome)
              IN  conn.level > call.base /\ Held(conn, gone, call.base, call.before)
                  /\ r.ret # "throw" => Held(r.conn, gone \cup r.made, call.base, call.before)
           /\ LET r == Commit(conn, TRUE, outcome)
              IN  conn.level > call.base + 1 /\ Held(conn, gone, call.base, call.before)
                  /\ r.ret # "throw" => Held(r.conn, gone \cup r.made, call.base, call.before)
           /\ LET r == Rollback(conn, TRUE, outcome)
              IN  conn.level > call.base + 1 /\ Held(conn, gone, call.base, call.before)
                  /\ r.ret # "throw" => Held(r.conn, gone \cup r.made, call.base, call.before)
           /\ LET r == Rollback(conn, TRUE, outcome)
              IN  conn.level = call.base + 1 /\ Held(conn, gone, call.base, call.before)
                  /\ r.ret # "throw" => call.before = gone \cup r.made \cup r.conn.work
<1> DEFINE W == Kept(shape, gone)
<1>1. HeldSession(W, conn, call.base)
  BY CallSession
<1>2. call.before = Missing => call.before = gone \cup conn.work
  BY MissingIs DEF TypeInv, LevelInv, Inv, Session, ConnectionOf, Kept
<1> HIDE DEF W
<1>3. ASSUME NEW nesting, UsesSavepoint(conn, nesting) <=> conn.savepoints
      PROVE  /\ LET r == Begin(conn, nesting, outcome)
                IN  conn.level = call.base /\ call.before = Missing /\ r.ret # "throw" =>
                       Held(r.conn, gone \cup r.made, call.base, call.before)
             /\ LET r == Begin(conn, nesting, outcome)
                IN  conn.level > call.base /\ Held(conn, gone, call.base, call.before)
                    /\ r.ret # "throw" => Held(r.conn, gone \cup r.made, call.base, call.before)
             /\ LET r == Commit(conn, nesting, outcome)
                IN  conn.level > call.base + 1 /\ Held(conn, gone, call.base, call.before)
                    /\ r.ret # "throw" => Held(r.conn, gone \cup r.made, call.base, call.before)
             /\ LET r == Rollback(conn, nesting, outcome)
                IN  conn.level > call.base + 1 /\ Held(conn, gone, call.base, call.before)
                    /\ r.ret # "throw" => Held(r.conn, gone \cup r.made, call.base, call.before)
             /\ LET r == Rollback(conn, nesting, outcome)
                IN  conn.level = call.base + 1 /\ Held(conn, gone, call.base, call.before)
                    /\ r.ret # "throw" => call.before = gone \cup r.made \cup r.conn.work
  <2>1. ASSUME conn.level = call.base, call.before = Missing, NEW r,
               r = Begin(conn, nesting, outcome), r.ret # "throw"
        PROVE  Held(r.conn, gone \cup r.made, call.base, call.before)
    BY <1>1, <1>2, <1>3, <2>1, HeldFirst
  <2>2. ASSUME conn.level > call.base, Held(conn, gone, call.base, call.before), NEW r,
               r = Begin(conn, nesting, outcome), r.ret # "throw"
        PROVE  Held(r.conn, gone \cup r.made, call.base, call.before)
    BY <1>1, <1>3, <2>2, HeldBegin
  <2>3. ASSUME conn.level > call.base + 1, Held(conn, gone, call.base, call.before), NEW r,
               r = Commit(conn, nesting, outcome) \/ r = Rollback(conn, nesting, outcome),
               r.ret # "throw"
        PROVE  Held(r.conn, gone \cup r.made, call.base, call.before)
    BY <1>1, <1>3, <2>3, HeldEnd
  <2>4. ASSUME conn.level = call.base + 1, Held(conn, gone, call.base, call.before), NEW r,
               r = Rollback(conn, nesting, outcome), r.ret # "throw"
        PROVE  call.before = gone \cup r.made \cup r.conn.work
    BY <1>1, <1>3, <2>4, HeldBack
  <2> QED BY <2>1, <2>2, <2>3, <2>4
<1>4. UsesSavepoint(conn, TRUE) <=> conn.savepoints
  BY DEF UsesSavepoint
<1> QED BY <1>3, <1>4

LEMMA SettingKept ==
    ASSUME Inv, conn.open, NEW outcome, outcome \in Outcomes
    PROVE  /\ Begin(conn, TRUE, outcome).conn.savepoints = conn.savepoints
           /\ Commit(conn, TRUE, outcome).conn.savepoints = conn.savepoints
           /\ Rollback(conn, TRUE, outcome).conn.savepoints = conn.savepoints
<1> DEFINE W == Kept(shape, gone)
<1>1. conn \in Session(W)
  BY DEF Inv
<1> HIDE DEF W
<1>2. ASSUME NEW nesting
      PROVE  /\ Begin(conn, nesting, outcome).conn.savepoints = conn.savepoints
             /\ Commit(conn, nesting, outcome).conn.savepoints = conn.savepoints
             /\ Rollback(conn, nesting, outcome).conn.savepoints = conn.savepoints
  BY <1>1, MethodsSetting
<1> QED BY <1>2

\* Resultset::delete() begins, ends or gives up its nesting level.
LEMMA SetBulk ==
    ASSUME TypeInv, Inv', CoverInv, BulkInv, NEW outcome, outcome \in Outcomes, outcome # "veto"
    PROVE  /\ SetBegin(outcome) => BulkInv'
           /\ SetFailed(outcome) => BulkInv'
           /\ SetDone(outcome) => BulkInv'
<1> USE DEF callVars
<1> DEFINE Bulk == call.kind \in {"set", "query"} /\ (call.base = 0 \/ conn.savepoints)
           n == Len(stack)
<1>0. Inv /\ conn.open
  BY DEF TypeInv, LevelInv
<1>1. \A pc : At(pc) => stack # <<>> /\ Top.pc = pc /\ Top \in FrameType
  BY <1>0, StackSteps DEF At, Inv
<1>2. ASSUME call' = call, conn'.savepoints = conn.savepoints,
             Bulk => HeldOn \/ OverOtherwise \/ BackAgain
      PROVE  BulkInv'
  BY <1>2, BulkTo
<1>3. stack # <<>> =>
         /\ n = 1 /\ stack[1].pc = "fetched" => conn.level = call.base
         /\ n = 1 /\ stack[1].pc = "walking" => conn.level = call.base + 1
         /\ stack[1].pc = "walking" => conn.level > call.base
         /\ n > 1 /\ stack[1].pc = "walking" /\ Top.pc = "walking" =>
               conn.level > call.base + 1
  BY CallLevel
<1>4. stack # <<>> /\ Bulk =>
         /\ n > 1 => stack[1].pc = "walking"
         /\ n = 1 => Top = stack[1]
         /\ stack[1].pc = "walking" => Held(conn, gone, call.base, call.before)
         /\ stack[1].pc = "fetched" => call.before = Missing
  BY <1>0, Outermost
<1>5. stack # <<>> => n > 1 \/ n = 1
  <2>1. stack # <<>> => n \in Nat /\ n > 0
    BY <1>0 DEF Inv
  <2> HIDE DEF n
  <2> QED BY <2>1
<1>6. Bulk => call.base = 0 \/ conn.savepoints
  OBVIOUS
<1>7. \A ret : stack # <<>> /\ Return(ret) /\ n = 1 => stack' = <<>> /\ result' = ret
  BY <1>0, FrontOf DEF Return, Inv
<1>8. \A ret : stack # <<>> /\ Return(ret) /\ n > 1 => stack' # <<>> /\ stack'[1] = stack[1]
  BY <1>0, HeadPop
<1>9. Throw => OverOtherwise
  BY DEF Throw, OverOtherwise
<1> HIDE DEF Bulk, n
<1>10. SetBegin(outcome) => BulkInv'
  <2> SUFFICES ASSUME SetBegin(outcome) PROVE BulkInv'
    OBVIOUS
  <2> DEFINE r == Begin(conn, TRUE, outcome)
             rest == Top.rest
  <2>1. /\ stack # <<>> /\ Top.pc = "fetched" /\ call' = call /\ Top \in FrameType
        /\ conn' = r.conn /\ gone' = gone \cup r.made
        /\ (r.ret = "throw" /\ Throw) \/ (r.ret # "throw" /\ GoOn("walking", rest))
    BY <1>1 DEF SetBegin, Transact
  <2>2. r.conn.savepoints = conn.savepoints
    BY <1>0, SettingKept
  <2>3. rest \in SUBSET Rows /\ "walking" \in {"start", "ones", "many", "fetched", "walking"}
        /\ ("walking" \in {"fetched", "walking"} <=> SetFrame(Top))
    BY <2>1 DEF FrameType, SetFrame
  <2>4. Bulk /\ conn.level = call.base /\ call.before = Missing /\ r.ret # "throw" =>
           Held(r.conn, gone \cup r.made, call.base, call.before)
    BY <1>6, WalkHeld
  <2>5. Bulk /\ conn.level > call.base /\ Held(conn, gone, call.base, call.before)
        /\ r.ret # "throw" => Held(r.conn, gone \cup r.made, call.base, call.before)
    BY <1>6, WalkHeld
  <2> HIDE DEF r, rest
  <2>6. ASSUME Bulk, r.ret # "throw", GoOn("walking", rest)
        PROVE  HeldOn
    <3>1. /\ stack' # <<>>
          /\ n = 1 => stack'[1].pc = "walking"
          /\ n > 1 => stack'[1].pc = stack[1].pc
      BY <1>0, <2>1, <2>3, <2>6, HeadOn DEF n
    <3>2. stack'[1].pc = "walking" /\ Held(r.conn, gone \cup r.made, call.base, call.before)
      BY <1>3, <1>4, <1>5, <2>1, <2>4, <2>5, <2>6, <3>1
    <3> QED BY <2>1, <3>1, <3>2 DEF HeldOn
  <2> QED BY <1>2, <1>9, <2>1, <2>2, <2>6
<1>11. SetFailed(outcome) => BulkInv'
  <2> SUFFICES ASSUME SetFailed(outcome) PROVE BulkInv'
    OBVIOUS
  <2> DEFINE r == Rollback(conn, TRUE, outcome)
  <2>1. /\ stack # <<>> /\ Top.pc = "walking" /\ call' = call
        /\ conn' = r.conn /\ gone' = gone \cup r.made
        /\ (r.ret = "throw" /\ Throw) \/ (r.ret # "throw" /\ Return("false"))
    BY <1>1 DEF SetFailed, Transact
  <2>2. r.conn.savepoints = conn.savepoints
    BY <1>0, SettingKept
  <2>3. Bulk /\ conn.level > call.base + 1 /\ Held(conn, gone, call.base, call.before)
        /\ r.ret # "throw" => Held(r.conn, gone \cup r.made, call.base, call.before)
    BY <1>6, WalkHeld
  <2>4. Bulk /\ conn.level = call.base + 1 /\ Held(conn, gone, call.base, call.before)
        /\ r.ret # "throw" => call.before = gone \cup r.made \cup r.conn.work
    BY <1>6, WalkHeld
  <2> HIDE DEF r
  <2>5. ASSUME Bulk, r.ret # "throw", Return("false"), n > 1
        PROVE  HeldOn
    <3>1. stack' # <<>> /\ stack'[1] = stack[1]
      BY <1>8, <2>1, <2>5
    <3>2. Held(r.conn, gone \cup r.made, call.base, call.before)
      BY <1>3, <1>4, <2>1, <2>3, <2>5
    <3> QED BY <1>4, <2>1, <2>5, <3>1, <3>2 DEF HeldOn
  <2>6. ASSUME Bulk, r.ret # "throw", Return("false"), n = 1
        PROVE  BackAgain
    <3>1. stack' = <<>>
      BY <1>7, <2>1, <2>6
    <3>2. call.before = gone' \cup conn'.work
      BY <1>3, <1>4, <2>1, <2>4, <2>6
    <3>3. gone' \subseteq Rows /\ conn'.work \subseteq Rows
      BY DEF Inv, Session, ConnectionOf, Kept
    <3>4. Missing' = gone' \cup conn'.work
      BY <3>3 DEF Missing, Visible
    <3> QED BY <3>1, <3>2, <3>4 DEF BackAgain
  <2> QED BY <1>2, <1>5, <1>9, <2>1, <2>2, <2>5, <2>6
<1>12. SetDone(outcome) => BulkInv'
  <2> SUFFICES ASSUME SetDone(outcome) PROVE BulkInv'
    OBVIOUS
  <2> DEFINE r == Commit(conn, TRUE, outcome)
  <2>1. /\ stack # <<>> /\ Top.pc = "walking" /\ call' = call
        /\ conn' = r.conn /\ gone' = gone \cup r.made
        /\ (r.ret = "throw" /\ Throw) \/ (r.ret # "throw" /\ Return("true"))
    BY <1>1 DEF SetDone, Transact
  <2>2. r.conn.savepoints = conn.savepoints
    BY <1>0, SettingKept
  <2>3. Bulk /\ conn.level > call.base + 1 /\ Held(conn, gone, call.base, call.before)
        /\ r.ret # "throw" => Held(r.conn, gone \cup r.made, call.base, call.before)
    BY <1>6, WalkHeld
  <2> HIDE DEF r
  <2>4. ASSUME Bulk, r.ret # "throw", Return("true"), n > 1
        PROVE  HeldOn
    <3>1. stack' # <<>> /\ stack'[1] = stack[1]
      BY <1>8, <2>1, <2>4
    <3>2. Held(r.conn, gone \cup r.made, call.base, call.before)
      BY <1>3, <1>4, <2>1, <2>3, <2>4
    <3> QED BY <1>4, <2>1, <2>4, <3>1, <3>2 DEF HeldOn
  <2>5. ASSUME Return("true"), n = 1
        PROVE  OverOtherwise
    BY <1>7, <2>1, <2>5 DEF OverOtherwise
  <2> QED BY <1>2, <1>5, <1>9, <2>1, <2>2, <2>4, <2>5
<1> QED BY <1>10, <1>11, <1>12

\* A call of a result set begins with the rows as they are.
LEMMA StartBulk ==
    ASSUME Inv, NEW rows, NEW kind, NEW f, Start(rows, kind, f),
           kind = "record" \/ f.pc = "fetched"
    PROVE  BulkInv'
<1>1. /\ stack' = <<f>> /\ call'.kind = kind /\ call'.before = Missing
      /\ conn' = conn /\ gone' = gone
  BY DEF Start
<1>2. Missing' = Missing
  BY <1>1 DEF Missing, Visible
<1>3. Len(<<f>>) = 1 /\ <<f>>[1] = f /\ <<f>> # <<>>
  OBVIOUS
<1> QED BY <1>1, <1>2, <1>3 DEF BulkInv, Answered

LEMMA NextBulk ==
    TypeInv /\ Inv' /\ CoverInv /\ BulkInv /\ [Next]_vars => BulkInv'
<1> SUFFICES ASSUME TypeInv, Inv', CoverInv, BulkInv, [Next]_vars PROVE BulkInv'
  OBVIOUS
<1>0. Inv
  BY DEF TypeInv, LevelInv
<1>1. CASE \E r \in Rows : DeleteRecord(r)
  <2>1. PICK r \in Rows : DeleteRecord(r)
    BY <1>1
  <2> DEFINE f == Frame("start", r, {})
  <2>2. Start({r}, "record", f)
    BY <2>1 DEF DeleteRecord
  <2> HIDE DEF f
  <2> QED BY <1>0, <2>2, StartBulk
<1>2. CASE \E rows \in shape.sets : DeleteSet(rows) \/ DeleteQuery(rows)
  <2>1. PICK rows \in shape.sets : DeleteSet(rows) \/ DeleteQuery(rows)
    BY <1>2
  <2> DEFINE found == {x \in rows : Visible(x)}
             f == Frame("fetched", CHOOSE x \in Rows : TRUE, found)
  <2>2. PICK kind \in {"set", "query"} : Start(found, kind, f)
    BY <2>1 DEF DeleteSet, DeleteQuery, StartSet
  <2>3. f.pc = "fetched"
    BY DEF Frame
  <2> HIDE DEF found, f
  <2> QED BY <1>0, <2>2, <2>3, StartBulk
<1>3. CASE Step
  <2>1. /\ TxOutcome \subseteq Outcomes /\ "veto" \notin TxOutcome
        /\ Outcome \subseteq Outcomes
    BY ChoicesAssumption DEF TxOutcome, Outcome, Outcomes
  <2>2. Rows # {}
    BY RowsAssumption
  <2>3. CASE \/ RecordRestricted \/ RecordVetoed \/ RecordSkipped \/ RecordThrows
             \/ CascadeMany \/ CascadeFailed \/ RecordDone \/ SetEmpty
    BY <1>0, <2>2, <2>3, RecordsBulk, LoopBulk
  <2>4. CASE \E outcome \in Outcome : DeleteRow(outcome)
    BY <2>4, DeleteRowBulk
  <2>5. CASE \E outcome \in TxOutcome :
                SetBegin(outcome) \/ SetFailed(outcome) \/ SetDone(outcome)
    BY <2>1, <2>5, SetBulk
  <2>6. CASE \E r \in Rows : CascadeOne(r) \/ SetNext(r) \/ SetPassOver(r)
    BY <1>0, <2>6, RecordsBulk, LoopBulk
  <2> QED BY <1>3, <2>3, <2>4, <2>5, <2>6 DEF Step
<1>4. CASE AppBegin \/ AppCommit \/ AppRollback
  <2>1. stack' = <<>> /\ result' = "none"
    BY <1>4 DEF AppBegin, AppCommit, AppRollback, AppCalls
  <2> QED BY <2>1 DEF BulkInv, Answered
<1>5. CASE UNCHANGED vars
  <2>1. Missing' = Missing
    BY <1>5 DEF vars, Missing, Visible
  <2> QED BY <1>5, <2>1 DEF vars, BulkInv, Answered
<1> QED BY <1>1, <1>2, <1>3, <1>4, <1>5 DEF Next

LEMMA InitBulk == Init => BulkInv
BY DEF Init, BulkInv, Answered

\* All or nothing: Resultset::delete() and the DELETE of PHQL answer false
\* only with every row as it was, and true only when every record they found
\* is deleted or was left out; for any relations, rows, listeners and faults,
\* through every cascade and whatever nested result set gave up on the way.
THEOREM BulkCorrect ==
    ASSUME "busy" \notin Faults
    PROVE  Spec => []BulkAllOrNothing
<1>1. TypeInv /\ CoverInv /\ BulkInv => BulkAllOrNothing
  <2> SUFFICES ASSUME TypeInv, CoverInv, BulkInv, Answered, call.kind \in {"set", "query"}
               PROVE  /\ result = "false" /\ (call.base = 0 \/ conn.savepoints) =>
                             Missing = call.before
                      /\ result = "true" => call.rows \ spared \subseteq
                                                IF call.base = 0 THEN gone ELSE Missing
    BY DEF BulkAllOrNothing
  <2>1. result = "false" /\ (call.base = 0 \/ conn.savepoints) => Missing = call.before
    BY DEF BulkInv
  <2>2. result = "true" => call.rows \subseteq Covered
    BY DEF CoverInv, Answered
  <2>3. call.base = 0 => Missing \subseteq gone
    <3>1. conn.level = call.base /\ conn \in Session(Kept(shape, gone))
          /\ (conn.active => conn.level > 0)
      BY DEF TypeInv, LevelInv, Inv
    <3>2. call.base = 0 => ~conn.active
      BY <3>1
    <3>3. ~conn.active => conn.work = {}
      BY <3>1 DEF Session
    <3> QED BY <3>2, <3>3, MissingIs
  <2> QED BY <2>1, <2>2, <2>3 DEF Covered
<1>2. TypeInv /\ [Next]_vars => TypeInv'
  BY NextTypes
<1>3. TypeInv => Inv
  BY DEF TypeInv, LevelInv
<1> QED
  BY <1>1, <1>2, <1>3, InitTypes, InitCover, NextCover, InitBulk, NextBulk, PTL DEF Spec

----------------------------------------------------------------------------
(* A record below itself *)

Again(f, g) == RecordFrame(f) /\ RecordFrame(g) /\ f.rec = g.rec

\* What a frame g above f keeps clear of: a record whose row is deleted is not
\* deleted again, and what is deleted is not walked.
Clear(f, g) ==
    /\ Again(f, g) => ~f.deleted
    /\ RecordFrame(f) /\ SetFrame(g) /\ f.deleted => f.rec \notin g.rest
ClearOf(s, n, g) == \A i \in 1 .. n : Clear(s[i], g)
AllClear(s) == \A j \in 1 .. Len(s) : \A i \in 1 .. Len(s) : i < j => Clear(s[i], s[j])

DepthInv == AllClear(stack)

\* The lower part of a stack.
LEMMA DepthBelow ==
    ASSUME NEW s, NEW t, s \in Seq(FrameType), t \in Seq(FrameType), Len(t) <= Len(s),
           \A i \in 1 .. Len(t) : t[i] = s[i], AllClear(s)
    PROVE  AllClear(t)
<1>1. \A i \in 1 .. Len(t) : i \in 1 .. Len(s)
  OBVIOUS
<1> QED BY <1>1 DEF AllClear

\* The innermost frame of t is new, the others are those of s.
LEMMA DepthTop ==
    ASSUME NEW t, t \in Seq(FrameType), NEW s, s \in Seq(FrameType), NEW m, m \in Nat,
           Len(t) = m + 1, Len(s) >= m, \A i \in 1 .. m : t[i] = s[i],
           AllClear(s), ClearOf(s, m, t[m + 1])
    PROVE  AllClear(t)
<1>1. /\ \A i \in 1 .. Len(t) : i \in 1 .. m \/ i = m + 1
      /\ \A i \in 1 .. m : i \in 1 .. Len(s) /\ t[i] = s[i]
  OBVIOUS
<1> SUFFICES ASSUME NEW j, j \in 1 .. Len(t), NEW i, i \in 1 .. Len(t), i < j
             PROVE  Clear(t[i], t[j])
  BY DEF AllClear
<1>2. i \in 1 .. m
  BY <1>1
<1>3. CASE j \in 1 .. m
  BY <1>1, <1>2, <1>3 DEF AllClear
<1>4. CASE j = m + 1
  BY <1>1, <1>2, <1>4 DEF ClearOf
<1> QED BY <1>1, <1>3, <1>4

\* A frame returns.
LEMMA PopDepth ==
    ASSUME Inv, DepthInv, stack # <<>>, NEW ret, Return(ret)
    PROVE  DepthInv'
<1>1. stack \in Seq(FrameType) /\ stack' = Front(stack)
  BY DEF Inv, Return
<1>2. /\ Front(stack) \in Seq(FrameType) /\ Len(Front(stack)) <= Len(stack)
      /\ \A i \in 1 .. Len(Front(stack)) : Front(stack)[i] = stack[i]
  <2>1. /\ Front(stack) \in Seq(FrameType) /\ Len(stack) \in Nat /\ Len(stack) > 0
        /\ Len(Front(stack)) = Len(stack) - 1
        /\ \A i \in 1 .. (Len(stack) - 1) : Front(stack)[i] = stack[i]
    BY <1>1, FrontOf
  <2> QED BY <2>1
<1>3. AllClear(Front(stack))
  BY <1>1, <1>2, DepthBelow DEF DepthInv
<1> QED BY <1>1, <1>3 DEF DepthInv

LEMMA EmptyDepth ==
    /\ stack = <<>> => DepthInv
    /\ stack' = <<>> => DepthInv'
<1>1. \A i \in 1 .. Len(<<>>) : FALSE
  OBVIOUS
<1>2. stack = <<>> => DepthInv
  BY <1>1 DEF DepthInv, AllClear
<1>3. stack' = <<>> => DepthInv'
  BY <1>1 DEF DepthInv, AllClear
<1> QED BY <1>2, <1>3

\* What a frame has deleted is missing.
LEMMA DeletedMissing ==
    ASSUME CoverInv, result # "false", NEW i, i \in 1 .. Len(stack), stack[i].deleted
    PROVE  stack[i].rec \in Missing
<1>1. FrameCovers(shape, call.rows, stack, i, Covered, Missing)
  BY DEF CoverInv, Covers
<1> QED BY <1>1 DEF FrameCovers

\* The innermost frame goes on, as what it was, with no more to come.
LEMMA OnDepth ==
    ASSUME Inv, DepthInv, stack # <<>>, result # "false",
           NEW pc, pc \in {"ones", "many", "fetched", "walking"},
           NEW rest, rest \in SUBSET Rows, NEW t, t = GoneOn(pc, rest), Top.pc # "start",
           SetFrame(Top) <=> pc \in {"fetched", "walking"},
           SetFrame(Top) => rest \subseteq Top.rest
    PROVE  AllClear(t)
<1> DEFINE n == Len(stack)
           m == n - 1
           f == t[n]
<1>1. stack \in Seq(FrameType) /\ pc \in {"start", "ones", "many", "fetched", "walking"}
  BY DEF Inv
<1>2. /\ t \in Seq(FrameType) /\ Len(t) = n /\ n \in Nat /\ n > 0
      /\ \A i \in 1 .. (n - 1) : t[i] = stack[i]
      /\ f.pc = pc /\ f.rest = rest /\ f.rec = Top.rec /\ (f.deleted <=> Top.deleted)
  BY <1>1, GoneOnOf
<1>3. m \in Nat /\ n = m + 1 /\ Len(stack) >= m /\ n \in 1 .. Len(stack) /\ Top = stack[n]
      /\ \A i \in 1 .. m : i \in 1 .. Len(stack) /\ i < n
  BY <1>2 DEF Top, Last
<1>4. /\ RecordFrame(f) <=> RecordFrame(Top)
      /\ SetFrame(f) <=> SetFrame(Top)
  <2>1. Top.pc \in {"start", "ones", "many", "fetched", "walking"}
    BY <1>1, StackSteps DEF FrameType
  <2> QED BY <1>2, <2>1 DEF RecordFrame, SetFrame
<1> HIDE DEF n, m, f
<1>5. ClearOf(stack, m, f)
  <2> SUFFICES ASSUME NEW i, i \in 1 .. m PROVE Clear(stack[i], f)
    BY DEF ClearOf
  <2>1. Clear(stack[i], Top)
    BY <1>3 DEF DepthInv, AllClear
  <2>2. Top.pc # "start" /\ (SetFrame(Top) => f.rest \subseteq Top.rest)
    BY <1>2
  <2> HIDE DEF Top
  <2> QED BY <1>2, <1>4, <2>1, <2>2 DEF Clear, Again
<1> QED BY <1>1, <1>2, <1>3, <1>5, DepthTop DEF DepthInv, f

LEMMA GoOnDepth ==
    ASSUME Inv, DepthInv, stack # <<>>, result # "false", result' = result,
           NEW pc, pc \in {"ones", "many", "fetched", "walking"},
           NEW rest, rest \in SUBSET Rows, GoOn(pc, rest), Top.pc # "start",
           SetFrame(Top) <=> pc \in {"fetched", "walking"},
           SetFrame(Top) => rest \subseteq Top.rest
    PROVE  DepthInv'
<1>1. stack' = GoneOn(pc, rest)
  BY DEF GoOn, GoneOn
<1>2. AllClear(stack')
  BY <1>1, OnDepth
<1> QED BY <1>2 DEF DepthInv

LEMMA NestedDepth ==
    ASSUME Inv, DepthInv, stack # <<>>, result # "false",
           NEW pc, pc \in {"ones", "many", "fetched", "walking"},
           NEW rest, rest \in SUBSET Rows, NEW f, f \in FrameType, Nested(pc, rest, f),
           Top.pc # "start",
           SetFrame(Top) <=> pc \in {"fetched", "walking"},
           SetFrame(Top) => rest \subseteq Top.rest,
           NEW t, t = GoneOn(pc, rest),
           ClearOf(t, Len(stack), f)
    PROVE  DepthInv'
<1>1. stack' = Append(t, f)
  BY DEF Nested, GoneOn
<1>2. AllClear(t)
  BY OnDepth
<1>3. t \in Seq(FrameType) /\ Len(t) = Len(stack) /\ Len(stack) \in Nat
  BY GoneOnOf DEF Inv
<1>4. /\ stack' \in Seq(FrameType) /\ Len(stack') = Len(t) + 1
      /\ \A i \in 1 .. Len(t) : stack'[i] = t[i]
      /\ stack'[Len(t) + 1] = f
  BY <1>1, <1>3, AppendOf
<1>5. ClearOf(t, Len(t), stack'[Len(t) + 1])
      /\ Len(t) \in Nat /\ Len(t) >= Len(t)
  BY <1>3, <1>4
<1>6. AllClear(stack')
  BY <1>2, <1>3, <1>4, <1>5, DepthTop
<1> QED BY <1>6 DEF DepthInv

\* A record is called that is there, or that a result set has in store: no
\* frame below has deleted it.
LEMMA RecordClear ==
    ASSUME Inv, CoverInv, DepthInv, stack # <<>>, result # "false",
           NEW pc, pc \in {"ones", "walking"}, Top.pc = pc,
           NEW rest, rest \in SUBSET Rows, NEW t, t = GoneOn(pc, rest),
           NEW x, x \in Rows, NEW f, f.pc = "start", f.rec = x,
           Visible(x) \/ (pc = "walking" /\ x \in Top.rest)
    PROVE  ClearOf(t, Len(stack), f)
<1> DEFINE n == Len(stack)
<1>1. ~SetFrame(f)
  BY DEF SetFrame
<1>2. /\ n \in Nat /\ n > 0 /\ Top = stack[n] /\ n \in 1 .. n
      /\ \A i \in 1 .. (n - 1) : t[i] = stack[i]
      /\ t[n].pc = pc /\ t[n].rec = Top.rec /\ (t[n].deleted <=> Top.deleted)
  BY GoneOnOf DEF Inv, Top, Last
<1>3. ASSUME NEW i, i \in 1 .. n, Again(t[i], f), t[i].deleted
      PROVE  FALSE
  <2>1. stack[i].deleted /\ stack[i].rec = x
    BY <1>2, <1>3 DEF Again
  <2>2. RecordFrame(stack[i])
    <3>1. i = n \/ t[i] = stack[i]
      BY <1>2, <1>3
    <3>2. RecordFrame(t[n]) <=> RecordFrame(stack[n])
      BY <1>2 DEF RecordFrame
    <3> QED BY <1>3, <3>1, <3>2 DEF Again
  <2>3. stack[i].rec \in Missing
    BY <1>3, <2>1, DeletedMissing
  <2>4. CASE Visible(x)
    BY <2>1, <2>3, <2>4 DEF Missing
  <2>5. CASE pc = "walking" /\ x \in Top.rest
    <3>1. SetFrame(Top) /\ ~RecordFrame(Top)
      BY <2>5 DEF SetFrame, RecordFrame
    <3>2. i # n
      BY <1>2, <2>2, <3>1
    <3>3. i < n
      BY <1>2, <1>3, <3>2
    <3>4. Clear(stack[i], Top)
      BY <1>2, <1>3, <3>3 DEF DepthInv, AllClear
    <3> HIDE DEF Top
    <3> QED BY <2>1, <2>2, <2>5, <3>1, <3>4 DEF Clear
  <2> QED BY <2>4, <2>5
<1> QED BY <1>1, <1>3 DEF ClearOf, Clear

LEMMA FetchedClear ==
    ASSUME Inv, CoverInv, DepthInv, stack # <<>>, result # "false", Top.pc = "ones",
           NEW t, t = GoneOn("many", {}),
           NEW r, NEW f, f.pc = "fetched", f.rest = Fetched(r)
    PROVE  ClearOf(t, Len(stack), f)
<1> DEFINE n == Len(stack)
<1>2. /\ n \in Nat /\ n > 0 /\ Top = stack[n] /\ n \in 1 .. n
      /\ \A i \in 1 .. (n - 1) : t[i] = stack[i]
      /\ t[n].rec = Top.rec /\ (t[n].deleted <=> Top.deleted)
  <2>1. {} \in SUBSET Rows /\ "many" \in {"start", "ones", "many", "fetched", "walking"}
    OBVIOUS
  <2> QED BY <2>1, GoneOnOf DEF Inv, Top, Last
<1>3. ASSUME NEW i, i \in 1 .. n, t[i].deleted
      PROVE  t[i].rec \notin f.rest
  <2>1. stack[i].deleted /\ stack[i].rec = t[i].rec
    BY <1>2, <1>3
  <2>2. stack[i].rec \in Missing
    BY <1>3, <2>1, DeletedMissing
  <2> QED BY <2>1, <2>2 DEF Missing, Fetched
<1>4. ClearOf(t, n, f)
  <2>1. ~RecordFrame(f)
    BY DEF RecordFrame
  <2> QED BY <1>3, <2>1 DEF ClearOf, Clear, Again
<1> QED BY <1>4

LEMMA StackDepth ==
    ASSUME Inv, CoverInv, DepthInv, NEW r, r \in Rows
    PROVE  /\ RecordRestricted => DepthInv'
           /\ RecordVetoed => DepthInv'
           /\ RecordSkipped => DepthInv'
           /\ RecordThrows => DepthInv'
           /\ CascadeOne(r) => DepthInv'
           /\ CascadeMany => DepthInv'
           /\ CascadeFailed => DepthInv'
           /\ RecordDone => DepthInv'
           /\ SetEmpty => DepthInv'
           /\ SetNext(r) => DepthInv'
           /\ SetPassOver(r) => DepthInv'
<1>1. \A pc : At(pc) => stack # <<>> /\ Top.pc = pc /\ Top \in FrameType
  BY StackSteps DEF At, Inv
<1>3. Throw => DepthInv'
  BY EmptyDepth DEF Throw
<1>4. \A ret : stack # <<>> /\ (Return(ret) \/ Answer(ret)) => DepthInv'
  BY <1>3, PopDepth DEF Answer
<1>5. RecordRestricted => DepthInv'
  BY <1>1, <1>4 DEF RecordRestricted
<1>6. RecordVetoed => DepthInv'
  BY <1>1, <1>4 DEF RecordVetoed
<1>7. RecordSkipped => DepthInv'
  BY <1>1, <1>4 DEF RecordSkipped
<1>8. RecordThrows => DepthInv'
  BY <1>3 DEF RecordThrows
<1>9. CascadeFailed => DepthInv'
  BY <1>1, <1>4 DEF CascadeFailed
<1>10. RecordDone => DepthInv'
  BY <1>1, <1>4 DEF RecordDone
<1>11. SetEmpty => DepthInv'
  BY <1>1, <1>4 DEF SetEmpty
<1>12. CascadeOne(r) => DepthInv'
  <2> SUFFICES ASSUME CascadeOne(r) PROVE DepthInv'
    OBVIOUS
  <2> DEFINE rest == Top.rest \ {r}
             f == Frame("start", r, {})
             t == GoneOn("ones", rest)
  <2>1. stack # <<>> /\ Top.pc = "ones" /\ result # "false"
    BY <1>1 DEF CascadeOne, Proceeding
  <2>2. rest \in SUBSET Rows /\ f \in FrameType /\ f.pc = "start" /\ f.rec = r
    BY <1>1 DEF CascadeOne, FrameType, Frame
  <2>3. "ones" \in {"ones", "many", "fetched", "walking"} /\ "ones" \in {"ones", "walking"}
        /\ (SetFrame(Top) <=> "ones" \in {"fetched", "walking"})
        /\ (SetFrame(Top) => rest \subseteq Top.rest)
    BY <2>1 DEF SetFrame
  <2>4. \/ Visible(r) /\ Nested("ones", rest, f)
        \/ GoOn("ones", rest) /\ result' = result
    BY DEF CascadeOne
  <2> HIDE DEF rest, f
  <2>5. CASE Visible(r) /\ Nested("ones", rest, f)
    <3>1. ClearOf(t, Len(stack), f)
      BY <2>1, <2>2, <2>3, <2>5, RecordClear
    <3> QED BY <2>1, <2>2, <2>3, <2>5, <3>1, NestedDepth
  <2>6. CASE GoOn("ones", rest) /\ result' = result
    BY <2>1, <2>2, <2>3, <2>6, GoOnDepth
  <2> QED BY <2>4, <2>5, <2>6
<1>13. CascadeMany => DepthInv'
  <2> SUFFICES ASSUME CascadeMany PROVE DepthInv'
    OBVIOUS
  <2> DEFINE rest == {}
             r2 == Top.rec
             f == Frame("fetched", r2, Fetched(r2))
             t == GoneOn("many", rest)
  <2>1. stack # <<>> /\ Top.pc = "ones" /\ result # "false" /\ Nested("many", rest, f)
    BY <1>1 DEF CascadeMany, Proceeding
  <2>2. /\ rest \in SUBSET Rows /\ f \in FrameType /\ f.pc = "fetched" /\ f.rest = Fetched(r2)
    BY <1>1 DEF CascadeMany, FrameType, Frame, Fetched, Many
  <2>3. "many" \in {"ones", "many", "fetched", "walking"}
        /\ (SetFrame(Top) <=> "many" \in {"fetched", "walking"})
        /\ (SetFrame(Top) => rest \subseteq Top.rest)
    BY <2>1 DEF SetFrame
  <2> HIDE DEF f, r2
  <2>4. ClearOf(t, Len(stack), f)
    BY <2>1, <2>2, FetchedClear
  <2> HIDE DEF rest
  <2> QED BY <2>1, <2>2, <2>3, <2>4, NestedDepth
<1>14. SetNext(r) => DepthInv'
  <2> SUFFICES ASSUME SetNext(r) PROVE DepthInv'
    OBVIOUS
  <2> DEFINE rest == Top.rest \ {r}
             f == Frame("start", r, {})
             t == GoneOn("walking", rest)
  <2>1. /\ stack # <<>> /\ Top.pc = "walking" /\ result # "false" /\ r \in Top.rest
        /\ Nested("walking", rest, f)
    BY <1>1 DEF SetNext, Proceeding
  <2>2. rest \in SUBSET Rows /\ f \in FrameType /\ f.pc = "start" /\ f.rec = r
    BY <1>1 DEF SetNext, FrameType, Frame
  <2>3. "walking" \in {"ones", "many", "fetched", "walking"} /\ "walking" \in {"ones", "walking"}
        /\ (SetFrame(Top) <=> "walking" \in {"fetched", "walking"})
        /\ (SetFrame(Top) => rest \subseteq Top.rest)
    BY <2>1 DEF SetFrame
  <2> HIDE DEF rest, f
  <2>4. ClearOf(t, Len(stack), f)
    BY <2>1, <2>2, <2>3, RecordClear
  <2> QED BY <2>1, <2>2, <2>3, <2>4, NestedDepth
<1>15. SetPassOver(r) => DepthInv'
  <2> SUFFICES ASSUME SetPassOver(r) PROVE DepthInv'
    OBVIOUS
  <2> DEFINE rest == Top.rest \ {r}
  <2>1. /\ stack # <<>> /\ Top.pc = "walking" /\ result # "false" /\ result' = result
        /\ GoOn("walking", rest)
    BY <1>1 DEF SetPassOver, Proceeding
  <2>2. rest \in SUBSET Rows
    BY <1>1 DEF SetPassOver, FrameType
  <2>3. "walking" \in {"ones", "many", "fetched", "walking"}
        /\ (SetFrame(Top) <=> "walking" \in {"fetched", "walking"})
        /\ (SetFrame(Top) => rest \subseteq Top.rest)
    BY <2>1 DEF SetFrame
  <2> HIDE DEF rest
  <2> QED BY <2>1, <2>2, <2>3, GoOnDepth
<1> QED BY <1>5, <1>6, <1>7, <1>8, <1>9, <1>10, <1>11, <1>12, <1>13, <1>14, <1>15

LEMMA DeleteRowDepth ==
    ASSUME Inv, CoverInv, DepthInv, NEW outcome, DeleteRow(outcome)
    PROVE  DepthInv'
<1> DEFINE d == Execute(conn, Top.rec, outcome)
           n == Len(stack)
           m == n - 1
           f == [[[Top EXCEPT !.pc = "ones"] EXCEPT !.rest = One(Top.rec)]
                      EXCEPT !.deleted = (d.ret = "true")]
<1>1. stack # <<>> /\ Top.pc = "start" /\ Top \in FrameType
  BY StackSteps DEF DeleteRow, At, Inv
<1>2. CASE d.ret = "throw"
  <2>1. stack' = <<>>
    BY <1>2 DEF DeleteRow, Throw
  <2> QED BY <2>1, EmptyDepth
<1>3. CASE d.ret # "throw"
  <2>1. /\ stack' = [stack EXCEPT ![Len(stack)].pc = "ones",
                                  ![Len(stack)].rest = One(Top.rec),
                                  ![Len(stack)].deleted = (d.ret = "true")]
        /\ result' = "none"
    BY <1>3 DEF DeleteRow
  <2>3. result # "false"
    BY <1>1 DEF CoverInv, Entered, Top, Last
  <2>4. n \in Nat /\ n > 0 /\ n \in 1 .. Len(stack) /\ Top = stack[n] /\ n = Len(stack)
    BY <1>1 DEF Inv, Top, Last
  <2> HIDE DEF d
  <2>5. /\ f.pc = "ones" /\ f.rec = Top.rec /\ (f.deleted <=> d.ret = "true")
        /\ f \in FrameType
    BY <1>1 DEF FrameType, One
  <2>6. stack' = [stack EXCEPT ![n] = f]
    BY <2>1, <2>4 DEF Inv
  <2> HIDE DEF f
  <2>7. /\ stack' \in Seq(FrameType) /\ stack \in Seq(FrameType)
        /\ Len(stack') = n /\ stack'[n] = f
        /\ \A i \in 1 .. (n - 1) : stack'[i] = stack[i]
    BY <2>4, <2>5, <2>6 DEF Inv
  <2>8. m \in Nat /\ n = m + 1 /\ Len(stack) >= m
        /\ \A i \in 1 .. m : i \in 1 .. Len(stack) /\ i \in 1 .. (Len(stack) - 1) /\ i < n
    BY <2>4
  <2> HIDE DEF n, m
  <2>9. ClearOf(stack, m, f)
    <3> SUFFICES ASSUME NEW i, i \in 1 .. m PROVE Clear(stack[i], f)
      BY DEF ClearOf
    <3>1. ~SetFrame(f)
      BY <2>5 DEF SetFrame
    <3>2. Clear(stack[i], Top) /\ RecordFrame(Top)
      BY <1>1, <2>4, <2>8 DEF DepthInv, AllClear, RecordFrame
    <3> HIDE DEF Top
    <3> QED BY <2>5, <3>1, <3>2 DEF Clear, Again
  <2>11. AllClear(stack')
    BY <2>7, <2>8, <2>9, DepthTop DEF DepthInv
  <2> QED BY <2>11 DEF DepthInv
<1> QED BY <1>2, <1>3

LEMMA SetDepth ==
    ASSUME Inv, CoverInv, DepthInv, NEW outcome
    PROVE  /\ SetBegin(outcome) => DepthInv'
           /\ SetFailed(outcome) => DepthInv'
           /\ SetDone(outcome) => DepthInv'
<1>1. \A pc : At(pc) => stack # <<>> /\ Top.pc = pc /\ Top \in FrameType
  BY StackSteps DEF At, Inv
<1>2. Throw => DepthInv'
  BY EmptyDepth DEF Throw
<1>3. SetBegin(outcome) => DepthInv'
  <2> SUFFICES ASSUME SetBegin(outcome) PROVE DepthInv'
    OBVIOUS
  <2> DEFINE rest == Top.rest
  <2>1. /\ stack # <<>> /\ Top.pc = "fetched" /\ rest \in SUBSET Rows
        /\ Throw \/ (GoOn("walking", rest) /\ result' = result)
    BY <1>1 DEF SetBegin, Transact, FrameType
  <2>2. result # "false"
    BY <2>1 DEF CoverInv, Entered, Top, Last
  <2>3. "walking" \in {"ones", "many", "fetched", "walking"}
        /\ (SetFrame(Top) <=> "walking" \in {"fetched", "walking"})
        /\ (SetFrame(Top) => rest \subseteq Top.rest)
    BY <2>1 DEF SetFrame
  <2> HIDE DEF rest
  <2>4. Top.pc # "start"
    BY <2>1
  <2> QED BY <1>2, <2>1, <2>2, <2>3, <2>4, GoOnDepth
<1>4. SetFailed(outcome) => DepthInv'
  BY <1>1, <1>2, PopDepth DEF SetFailed, Transact
<1>5. SetDone(outcome) => DepthInv'
  BY <1>1, <1>2, PopDepth DEF SetDone, Transact
<1> QED BY <1>3, <1>4, <1>5

LEMMA NextDepth == Inv /\ CoverInv /\ DepthInv /\ [Next]_vars => DepthInv'
<1> SUFFICES ASSUME Inv, CoverInv, DepthInv, [Next]_vars PROVE DepthInv'
  OBVIOUS
<1>1. ASSUME NEW f, f \in FrameType, stack' = <<f>>
      PROVE  DepthInv'
  <2>1. AllClear(<<f>>)
    <3>1. 1 .. Len(<<f>>) = {1}
      OBVIOUS
    <3> QED BY <3>1 DEF AllClear
  <2> QED BY <1>1, <2>1 DEF DepthInv
<1>2. CASE \E r \in Rows : DeleteRecord(r)
  <2>1. PICK r \in Rows : DeleteRecord(r)
    BY <1>2
  <2>2. stack' = <<Frame("start", r, {})>> /\ Frame("start", r, {}) \in FrameType
    BY <2>1 DEF DeleteRecord, Start, Frame, FrameType
  <2> QED BY <1>1, <2>2
<1>3. CASE \E rows \in shape.sets : DeleteSet(rows) \/ DeleteQuery(rows)
  <2>1. PICK rows \in shape.sets : DeleteSet(rows) \/ DeleteQuery(rows)
    BY <1>3
  <2> DEFINE found == {x \in rows : Visible(x)}
             f == Frame("fetched", CHOOSE x \in Rows : TRUE, found)
  <2>2. found \subseteq Rows /\ (CHOOSE x \in Rows : TRUE) \in Rows
    BY ShapesAssumption, RowsAssumption DEF Inv
  <2>3. stack' = <<f>>
    BY <2>1 DEF DeleteSet, DeleteQuery, StartSet, Start
  <2>4. f \in FrameType
    BY <2>2 DEF Frame, FrameType
  <2> HIDE DEF f
  <2> QED BY <1>1, <2>3, <2>4
<1>4. CASE Step
  <2>1. Rows # {}
    BY RowsAssumption
  <2>2. CASE \/ RecordRestricted \/ RecordVetoed \/ RecordSkipped \/ RecordThrows
             \/ CascadeMany \/ CascadeFailed \/ RecordDone \/ SetEmpty
    BY <2>1, <2>2, StackDepth
  <2>3. CASE \E outcome \in Outcome : DeleteRow(outcome)
    BY <2>3, DeleteRowDepth
  <2>4. CASE \E outcome \in TxOutcome :
                SetBegin(outcome) \/ SetFailed(outcome) \/ SetDone(outcome)
    BY <2>4, SetDepth
  <2>5. CASE \E r \in Rows : CascadeOne(r) \/ SetNext(r) \/ SetPassOver(r)
    BY <2>5, StackDepth
  <2> QED BY <1>4, <2>2, <2>3, <2>4, <2>5 DEF Step
<1>5. CASE AppBegin \/ AppCommit \/ AppRollback
  <2>1. stack' = <<>>
    BY <1>5 DEF AppBegin, AppCommit, AppRollback, AppCalls
  <2> QED BY <2>1, EmptyDepth
<1>6. CASE UNCHANGED vars
  BY <1>6 DEF vars, DepthInv
<1> QED BY <1>2, <1>3, <1>4, <1>5, <1>6 DEF Next

\* Cascades lead back to a record only while its row is there, for any relations
\* and any faults, at any depth: below a delete() that has deleted its row the
\* same record is not deleted again, so that each further level of a mutual
\* cascade takes a DELETE that the adapter has answered with false.
THEOREM ReentryCorrect == Spec => []NoReentryOnceDeleted
<1>1. DepthInv => NoReentryOnceDeleted
  BY DEF DepthInv, AllClear, Clear, Again, RecordFrame, NoReentryOnceDeleted
<1>2. Init => DepthInv
  BY EmptyDepth DEF Init
<1> QED
  BY <1>1, <1>2, InitInv, NextInv, InitCover, NextCover, NextDepth, PTL DEF Spec

============================================================================
