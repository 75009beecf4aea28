-------------------------- MODULE ModelSaveProofs --------------------------
(***************************************************************************)
(* Proofs about save() (ModelSave), for any graph of records, any depth of *)
(* nested calls and whatever fails on the way.                             *)
(***************************************************************************)
EXTENDS ModelSave, PdoConnectionProofs, FiniteSetTheorems, SequenceTheorems

FrameType ==
    [rec : Records, pc : {"start", "alone", "before", "after"}, rest : SUBSET Records]

\* The effects of the first n calls.
Effects(n) == Records \X (0 .. n)
Work(n)    == SUBSET Effects(n)

RecordInv ==
    /\ dirtyState \in [Records -> DirtyStates]
    /\ keyed \in [Records -> BOOLEAN]
    /\ pending \subseteq Records
    /\ wrote \subseteq Records

DataInv ==
    /\ conn \in Session(Work(calls)) /\ conn.open
    /\ db \in Work(calls)

CallInv ==
    /\ shape \in Shapes
    /\ cached \subseteq Records
    /\ calls \in 0 .. MaxCalls
    /\ call.base \in Nat

Inv ==
    /\ RecordInv /\ DataInv /\ CallInv
    /\ result \in Returns \cup {"none"}
    /\ stack \in Seq(FrameType)

LEMMA InvTypes == Inv => TypeOK
<1> SUFFICES ASSUME Inv PROVE TypeOK
  OBVIOUS
<1>1. \A i \in 1 .. Len(stack) : stack[i] \in FrameType
  BY DEF Inv
<1> QED
  BY <1>1 DEF Inv, RecordInv, DataInv, CallInv, TypeOK, Session, ConnectionOf, FrameType

LEMMA InitInv == Init => Inv
<1> SUFFICES ASSUME Init PROVE Inv
  OBVIOUS
<1>1. calls = 0 /\ {} \in Work(0)
  BY DEF Init, Work
<1>2. conn \in Session(Work(0)) /\ conn.open
  <2>1. <<>> \in Seq(PointOf(Work(0)))
    OBVIOUS
  <2>2. Closed("mysql", FALSE) \in ConnectionOf(Work(0))
    BY <1>1, <2>1 DEF Closed, ConnectionOf, Dialects
  <2>3. Idle(Closed("mysql", FALSE)) \in Session(Work(0))
    BY <1>1, <2>2, IdleSession
  <2>4. conn = [Idle(Closed("mysql", FALSE)) EXCEPT !.open = TRUE]
    BY DEF Init, Connect, Result
  <2> QED
    BY <2>3, <2>4 DEF Session, ConnectionOf
<1>3. PICK kind \in [Records -> Kinds] :
          /\ db = {<<r, 0>> : r \in {x \in Records : kind[x] = "loaded"}}
          /\ \A i \in Records : Joined(i) # {} => kind[i] # "natural"
          /\ keyed = [r \in Records |-> kind[r] # "new"]
          /\ \E touched, fetched \in SUBSET {x \in Records : kind[x] = "loaded"} :
                /\ \A r \in touched : Attached(r) # {}
                /\ \A r \in fetched : \A x \in Attached(r) : kind[x] = "loaded"
                /\ \A r \in Records : kind[r] = "loaded" =>
                      r \in touched \/ \A x \in Attached(r) : kind[x] = "loaded"
                /\ dirtyState = [r \in Records |->
                      IF kind[r] = "loaded" /\ r \notin touched THEN "persistent"
                                                               ELSE "transient"]
                /\ cached = fetched
                /\ pending = Records \ fetched
  BY DEF Init
<1>4. db \in Work(0)
  BY <1>3 DEF Work, Effects
<1>5. /\ dirtyState \in [Records -> DirtyStates] /\ keyed \in [Records -> BOOLEAN]
      /\ pending \subseteq Records /\ cached \subseteq Records
  <2>1. PICK touched, fetched \in SUBSET {x \in Records : kind[x] = "loaded"} :
            /\ dirtyState = [r \in Records |->
                  IF kind[r] = "loaded" /\ r \notin touched THEN "persistent"
                                                           ELSE "transient"]
            /\ cached = fetched
            /\ pending = Records \ fetched
    BY <1>3
  <2> QED
    BY <1>3, <2>1 DEF DirtyStates
<1>6. /\ shape \in Shapes /\ stack = <<>> /\ result = "none"
      /\ call.base = 0 /\ wrote = {}
  BY DEF Init
<1>7. <<>> \in Seq(FrameType)
  OBVIOUS
<1> QED
  BY <1>1, <1>2, <1>4, <1>5, <1>6, <1>7, BoundsAssumption
     DEF Inv, RecordInv, DataInv, CallInv

----------------------------------------------------------------------------
(* The stack *)

LEMMA StackSteps ==
    ASSUME stack \in Seq(FrameType)
    PROVE  /\ stack # <<>> =>
                /\ Top \in FrameType /\ Top.rec \in Records /\ Top.rest \in SUBSET Records
                /\ Front(stack) \in Seq(FrameType)
           /\ \A frame \in FrameType : Append(stack, frame) \in Seq(FrameType)
<1>1. stack # <<>> => Len(stack) \in 1 .. Len(stack)
  OBVIOUS
<1>2. stack # <<>> => Top \in FrameType /\ Front(stack) \in Seq(FrameType)
  BY <1>1 DEF Top, Last, Front
<1>3. stack # <<>> => Top.rec \in Records /\ Top.rest \in SUBSET Records
  BY <1>2 DEF FrameType
<1>4. \A frame \in FrameType : Append(stack, frame) \in Seq(FrameType)
  OBVIOUS
<1> QED
  BY <1>2, <1>3, <1>4

GoneOn(pc, rest) ==
    [stack EXCEPT ![Len(stack)].pc = pc, ![Len(stack)].rest = rest]

PutAside(r) ==
    [stack EXCEPT ![Len(stack)].rest = @ \ {r}]

LEMMA Moved ==
    ASSUME stack \in Seq(FrameType), stack # <<>>,
           NEW pc \in {"start", "alone", "before", "after"}, NEW rest \in SUBSET Records
    PROVE  /\ GoneOn(pc, rest) \in Seq(FrameType) /\ GoneOn(pc, rest) # <<>>
           /\ Len(GoneOn(pc, rest)) = Len(stack)
           /\ \A i \in 1 .. Len(stack) :
                 GoneOn(pc, rest)[i].pc = IF i = Len(stack) THEN pc ELSE stack[i].pc
<1> DEFINE frame == [[stack[Len(stack)] EXCEPT !.pc = pc] EXCEPT !.rest = rest]
<1>1. Len(stack) \in 1 .. Len(stack) /\ stack[Len(stack)] \in FrameType
  OBVIOUS
<1>2. frame \in FrameType /\ frame.pc = pc
  BY <1>1 DEF FrameType
<1>3. GoneOn(pc, rest) = [stack EXCEPT ![Len(stack)] = frame]
  BY <1>1 DEF GoneOn
<1> HIDE DEF frame
<1> QED
  BY <1>1, <1>2, <1>3

LEMMA PutAsideIsMove ==
    ASSUME stack \in Seq(FrameType), stack # <<>>, NEW r
    PROVE  PutAside(r) = GoneOn(Top.pc, Top.rest \ {r})
<1>1. Len(stack) \in 1 .. Len(stack) /\ stack[Len(stack)] \in FrameType
  OBVIOUS
<1>2. Top = stack[Len(stack)]
  BY <1>1 DEF Top, Last
<1>3. [stack[Len(stack)] EXCEPT !.rest = @ \ {r}]
        = [[stack[Len(stack)] EXCEPT !.pc = Top.pc] EXCEPT !.rest = Top.rest \ {r}]
  BY <1>1, <1>2 DEF FrameType
<1>4. PutAside(r) = [stack EXCEPT ![Len(stack)] = [stack[Len(stack)] EXCEPT !.rest = @ \ {r}]]
  BY <1>1 DEF PutAside
<1>5. GoneOn(Top.pc, Top.rest \ {r})
        = [stack EXCEPT ![Len(stack)] =
              [[stack[Len(stack)] EXCEPT !.pc = Top.pc] EXCEPT !.rest = Top.rest \ {r}]]
  BY <1>1 DEF GoneOn
<1> QED
  BY <1>3, <1>4, <1>5

LEMMA FrameTyped ==
    ASSUME NEW r \in Records
    PROVE  Frame(r) \in FrameType /\ Frame(r).pc = "start"
BY DEF Frame, FrameType
StackInv == stack \in Seq(FrameType) /\ result \in Returns \cup {"none"}

LEMMA StackAfter ==
    ASSUME stack \in Seq(FrameType), stack # <<>>
    PROVE  /\ \A ret \in {"true", "false"} : Return(ret) \/ Answer(ret) => StackInv'
           /\ Throw => StackInv'
           /\ \A pc \in {"start", "alone", "before", "after"}, rest \in SUBSET Records :
                 GoOn(pc, rest) /\ result' = "none" => StackInv'
           /\ \A r \in Records :
                 stack' = Append(PutAside(r), Frame(r)) /\ result' = "none" => StackInv'
<1>1. Throw => StackInv'
  BY DEF Throw, StackInv, Returns
<1>2. \A ret \in {"true", "false"} : Return(ret) \/ Answer(ret) => StackInv'
  BY <1>1, StackSteps DEF Return, Answer, StackInv, Returns
<1>3. ASSUME NEW pc \in {"start", "alone", "before", "after"}, NEW rest \in SUBSET Records,
             GoOn(pc, rest), result' = "none"
      PROVE  StackInv'
  BY <1>3, Moved DEF GoOn, GoneOn, StackInv
<1>4. ASSUME NEW r \in Records, stack' = Append(PutAside(r), Frame(r)), result' = "none"
      PROVE  StackInv'
  <2>1. Top.rest \ {r} \in SUBSET Records /\ Top.pc \in {"start", "alone", "before", "after"}
    BY StackSteps DEF FrameType
  <2>2. GoneOn(Top.pc, Top.rest \ {r}) \in Seq(FrameType)
    BY <2>1, Moved
  <2>3. PutAside(r) \in Seq(FrameType)
    BY <2>2, PutAsideIsMove
  <2> QED
    BY <1>4, <2>3, FrameTyped DEF StackInv
<1> QED
  BY <1>1, <1>2, <1>3, <1>4

----------------------------------------------------------------------------
(* The connection *)

LEMMA CallsTyped ==
    ASSUME DataInv, NEW nesting, NEW outcome \in Outcomes
    PROVE  \A r \in {Begin(conn, nesting, outcome), Commit(conn, nesting, outcome),
                     Rollback(conn, nesting, outcome)} :
              /\ r.conn \in Session(Work(calls)) /\ r.conn.open
              /\ db \cup r.made \in Work(calls)
<1> DEFINE W == Work(calls)
<1>1. {} \in W /\ conn \in Session(W) /\ conn.open /\ conn.level \in Nat
  BY DEF DataInv, Work, Session, ConnectionOf
<1>2. conn.work \in W /\ db \in W
  BY <1>1 DEF Session, ConnectionOf, DataInv
<1>3. \A r : Steady(W, conn, r) => r.conn \in Session(W) /\ db \cup r.made \in W
  BY <1>2 DEF Steady, Work
<1> HIDE DEF W
<1>4. \A r \in {Begin(conn, nesting, outcome), Commit(conn, nesting, outcome),
                Rollback(conn, nesting, outcome)} : Steady(W, conn, r)
  BY <1>1, MethodsSteady
<1>5. conn.level > 0 \/ conn.level = 0
  BY <1>1
<1>6. \A ret : Result(conn, {}, ret).conn = conn
  BY DEF Result
<1>7. \A r \in {Begin(conn, nesting, outcome), Commit(conn, nesting, outcome),
                Rollback(conn, nesting, outcome)} : r.conn.open
  BY <1>1, <1>5, <1>6, MethodsCount
<1> QED
  BY <1>3, <1>4, <1>7 DEF W

\* The level moves by one.
LEMMA CallsCount ==
    ASSUME DataInv, NEW nesting, NEW outcome \in Outcomes
    PROVE  /\ Begin(conn, nesting, outcome).conn.level = conn.level + 1
           /\ conn.level > 0 =>
                 /\ Commit(conn, nesting, outcome).conn.level = conn.level - 1
                 /\ Rollback(conn, nesting, outcome).conn.level = conn.level - 1
<1> DEFINE W == Work(calls)
<1>1. {} \in W /\ conn \in Session(W) /\ conn.open
  BY DEF DataInv, Work
<1> HIDE DEF W
<1> QED
  BY <1>1, MethodsCount

\* The INSERT or UPDATE of a record.
LEMMA WriteTyped ==
    ASSUME DataInv, calls \in Nat, NEW r \in Records, NEW outcome
    PROVE  LET w == Written(r, outcome)
           IN  /\ w.conn \in Session(Work(calls)) /\ w.conn.open
               /\ w.conn.level = conn.level
               /\ db \cup w.made \in Work(calls)
               /\ w.ret \in Returns
               /\ w.ret # "true" => w.conn = conn /\ w.made = {}
<1> DEFINE effect == <<r, calls>>
           OK(w) == /\ w.conn \in Session(Work(calls)) /\ w.conn.open
                    /\ w.conn.level = conn.level
                    /\ db \cup w.made \in Work(calls)
                    /\ w.ret \in Returns
                    /\ w.ret # "true" => w.conn = conn /\ w.made = {}
<1>1. effect \in Effects(calls)
  BY DEF Effects
<1>2. \A ret \in Returns : OK(Result(conn, {}, ret))
  BY DEF DataInv, Work, Result
<1>3. conn.active => OK(Result([conn EXCEPT !.work = @ \cup {effect}], {}, "true"))
  BY <1>1 DEF DataInv, Work, Result, Session, ConnectionOf, Returns
<1>4. OK(Result(conn, {effect}, "true"))
  BY <1>1 DEF DataInv, Work, Result, Returns
<1>5. OK(Execute(conn, effect, outcome))
  <2> HIDE DEF OK, effect
  <2> QED BY <1>2, <1>3, <1>4 DEF Execute, RefusalOf, Returns
<1>6. OK(Written(r, outcome))
  <2> HIDE DEF OK
  <2> QED BY <1>2, <1>5 DEF Written, Inserted, Updated, Returns
<1> QED
  BY <1>6

\* A rollback(false) of the frame that has begun.
LEMMA GiveUpTyped ==
    ASSUME DataInv
    PROVE  /\ Rollback(conn, FALSE, "ok").conn \in Session(Work(calls))
           /\ Rollback(conn, FALSE, "ok").conn.open
BY CallsTyped DEF Outcomes

----------------------------------------------------------------------------
(* Every step *)

LEMMA SaveInv ==
    ASSUME Inv, NEW r \in Records, Save(r)
    PROVE  Inv'
<1>1. calls \in Nat /\ calls' = calls + 1 /\ calls' \in 0 .. MaxCalls
  BY BoundsAssumption DEF Inv, CallInv, Save
<1>2. Work(calls) \subseteq Work(calls')
  BY <1>1 DEF Work, Effects
<1>3. Session(Work(calls)) \subseteq Session(Work(calls'))
  <2>1. PointOf(Work(calls)) \subseteq PointOf(Work(calls'))
    BY <1>2 DEF PointOf
  <2>2. Seq(PointOf(Work(calls))) \subseteq Seq(PointOf(Work(calls')))
    BY <2>1
  <2> QED
    BY <1>2, <2>2 DEF Session, ConnectionOf
<1>4. DataInv'
  BY <1>2, <1>3 DEF Inv, DataInv, Save
<1>5. stack' = <<Frame(r)>> /\ stack' \in Seq(FrameType)
  BY FrameTyped DEF Save
<1>6. conn.level \in Nat
  BY DEF Inv, DataInv, Session, ConnectionOf
<1> QED
  BY <1>1, <1>4, <1>5, <1>6 DEF Inv, RecordInv, CallInv, Save, recordVars

\* What a step of the code leaves to show.
LEMMA StepKeeps ==
    ASSUME Inv, StackInv', RecordInv', DataInv', UNCHANGED callVars
    PROVE  Inv'
BY DEF Inv, StackInv, CallInv, callVars

LEMMA UnchangedData ==
    ASSUME Inv
    PROVE  /\ UNCHANGED <<conn, db, calls>> => DataInv'
           /\ UNCHANGED <<wrote, recordVars>> => RecordInv'
           /\ /\ conn' = conn \/ conn' = Rollback(conn, FALSE, "ok").conn
              /\ UNCHANGED <<db, calls>>
              => DataInv'
<1>1. UNCHANGED <<conn, db, calls>> => DataInv'
  BY DEF Inv, DataInv
<1>2. UNCHANGED <<wrote, recordVars>> => RecordInv'
  BY DEF Inv, RecordInv, recordVars
<1>3. ASSUME conn' = Rollback(conn, FALSE, "ok").conn, UNCHANGED <<db, calls>>
      PROVE  DataInv'
  BY <1>3, GiveUpTyped DEF Inv, DataInv
<1> QED
  BY <1>1, <1>2, <1>3

LEMMA StackStepsInv ==
    ASSUME Inv, NEW r \in Records
    PROVE  /\ StartAlone => Inv'
           /\ StartThrows => Inv'
           /\ RelationThrows => Inv'
           /\ SkipParent(r) => Inv'
           /\ SaveParent(r) => Inv'
           /\ SaveChild(r) => Inv'
           /\ ParentFailed => Inv'
           /\ ChildFailed => Inv'
<1>1. \A pc : At(pc) => /\ stack \in Seq(FrameType) /\ stack # <<>>
                        /\ Top.rest \ {r} \in SUBSET Records
  BY StackSteps DEF At, Inv
<1>2. StartAlone => Inv'
  <2> SUFFICES ASSUME StartAlone PROVE Inv'
    OBVIOUS
  <2>1. At("start") /\ GoOn("alone", {}) /\ result' = "none"
        /\ UNCHANGED <<conn, db, calls>> /\ UNCHANGED <<wrote, recordVars>>
        /\ UNCHANGED callVars
    BY DEF StartAlone, callVars
  <2>2. {} \in SUBSET Records
    OBVIOUS
  <2>3. StackInv'
    BY <1>1, <2>1, <2>2, StackAfter
  <2> QED
    BY <2>1, <2>3, UnchangedData, StepKeeps
<1>3. StartThrows => Inv'
  <2> SUFFICES ASSUME StartThrows PROVE Inv'
    OBVIOUS
  <2>1. At("start") /\ Throw
        /\ UNCHANGED <<conn, db, calls>> /\ UNCHANGED <<wrote, recordVars>>
        /\ UNCHANGED callVars
    BY DEF StartThrows, callVars
  <2> QED
    BY <1>1, <2>1, StackAfter, UnchangedData, StepKeeps
<1>4. RelationThrows => Inv'
  <2> SUFFICES ASSUME RelationThrows PROVE Inv'
    OBVIOUS
  <2>1. /\ At("before") \/ At("after")
        /\ conn' = Rollback(conn, FALSE, "ok").conn
        /\ Throw /\ UNCHANGED <<db, calls>> /\ UNCHANGED <<wrote, recordVars>>
        /\ UNCHANGED callVars
    BY DEF RelationThrows, callVars
  <2> QED
    BY <1>1, <2>1, StackAfter, UnchangedData, StepKeeps
<1>5. SkipParent(r) => Inv'
  <2> SUFFICES ASSUME SkipParent(r) PROVE Inv'
    OBVIOUS
  <2>1. /\ At("before") /\ GoOn("before", Top.rest \ {r}) /\ result' = "none"
        /\ UNCHANGED <<conn, db, calls>> /\ UNCHANGED <<wrote, recordVars>>
        /\ UNCHANGED callVars
    BY DEF SkipParent, callVars
  <2>2. StackInv'
    BY <1>1, <2>1, StackAfter
  <2> QED
    BY <2>1, <2>2, UnchangedData, StepKeeps
<1>6. SaveParent(r) => Inv'
  <2> SUFFICES ASSUME SaveParent(r) PROVE Inv'
    OBVIOUS
  <2>1. /\ At("before") /\ stack' = Append(PutAside(r), Frame(r)) /\ result' = "none"
        /\ UNCHANGED <<conn, db, calls>> /\ UNCHANGED <<wrote, recordVars>>
        /\ UNCHANGED callVars
    BY DEF SaveParent, callVars, PutAside
  <2>2. StackInv'
    BY <1>1, <2>1, StackAfter
  <2> QED
    BY <2>1, <2>2, UnchangedData, StepKeeps
<1>7. SaveChild(r) => Inv'
  <2> SUFFICES ASSUME SaveChild(r) PROVE Inv'
    OBVIOUS
  <2>1. /\ At("after") /\ stack' = Append(PutAside(r), Frame(r)) /\ result' = "none"
        /\ UNCHANGED <<conn, db, calls>> /\ UNCHANGED callVars /\ UNCHANGED wrote
        /\ UNCHANGED recordVars \/ LoadIntermediate(r)
    BY DEF SaveChild, callVars, PutAside
  <2>2. StackInv'
    BY <1>1, <2>1, StackAfter
  <2>3. LoadIntermediate(r) => RecordInv'
    BY <2>1 DEF LoadIntermediate, Inv, RecordInv, DirtyStates, Visible
  <2> QED
    BY <2>1, <2>2, <2>3, UnchangedData, StepKeeps
<1>8. ParentFailed => Inv'
  <2> SUFFICES ASSUME ParentFailed PROVE Inv'
    OBVIOUS
  <2>1. /\ At("before") /\ conn' = Rollback(conn, FALSE, "ok").conn
        /\ Return("false") /\ UNCHANGED <<db, calls>> /\ UNCHANGED <<wrote, recordVars>>
        /\ UNCHANGED callVars
    BY DEF ParentFailed, Fail, callVars
  <2> QED
    BY <1>1, <2>1, StackAfter, UnchangedData, StepKeeps
<1>9. ChildFailed => Inv'
  <2> SUFFICES ASSUME ChildFailed PROVE Inv'
    OBVIOUS
  <2>1. /\ At("after") /\ conn' = Rollback(conn, FALSE, "ok").conn
        /\ Answer("false") /\ UNCHANGED <<db, calls>> /\ UNCHANGED <<wrote, recordVars>>
        /\ UNCHANGED callVars
    BY DEF ChildFailed, callVars
  <2> QED
    BY <1>1, <2>1, StackAfter, UnchangedData, StepKeeps
<1> QED
  BY <1>2, <1>3, <1>4, <1>5, <1>6, <1>7, <1>8, <1>9
LEMMA RefusedRecordInv ==
    ASSUME Inv
    PROVE  /\ OwnVetoed => Inv'
           /\ OwnThrows => Inv'
<1>1. OwnTurn => stack \in Seq(FrameType) /\ stack # <<>> /\ Top.rec \in Records
  BY StackSteps DEF OwnTurn, At, Inv
<1>2. ASSUME OwnTurn,
             dirtyState' = [dirtyState EXCEPT ![Top.rec] = StateAfterExists(Top.rec)],
             UNCHANGED <<keyed, pending, wrote>>
      PROVE  RecordInv'
  BY <1>1, <1>2 DEF Inv, RecordInv, StateAfterExists, DirtyStates
<1>3. OwnVetoed => Inv'
  <2> SUFFICES ASSUME OwnVetoed PROVE Inv'
    OBVIOUS
  <2>1. /\ OwnTurn
        /\ dirtyState' = [dirtyState EXCEPT ![Top.rec] = StateAfterExists(Top.rec)]
        /\ UNCHANGED <<keyed, pending, wrote>> /\ UNCHANGED callVars
        /\ UNCHANGED <<db, calls>>
        /\ conn' = conn \/ conn' = Rollback(conn, FALSE, "ok").conn
        /\ Throw \/ Return("false")
    BY DEF OwnVetoed, Fail, callVars
  <2>2. StackInv'
    BY <1>1, <2>1, StackAfter
  <2> QED
    BY <1>2, <2>1, <2>2, UnchangedData, StepKeeps
<1>4. OwnThrows => Inv'
  <2> SUFFICES ASSUME OwnThrows PROVE Inv'
    OBVIOUS
  <2>1. /\ OwnTurn
        /\ dirtyState' = [dirtyState EXCEPT ![Top.rec] = StateAfterExists(Top.rec)]
        /\ UNCHANGED <<keyed, pending, wrote>> /\ UNCHANGED callVars
        /\ UNCHANGED <<conn, db, calls>>
        /\ Throw
    BY DEF OwnThrows, callVars
  <2>2. StackInv'
    BY <1>1, <2>1, StackAfter
  <2> QED
    BY <1>2, <2>1, <2>2, UnchangedData, StepKeeps
<1> QED
  BY <1>3, <1>4

LEMMA OwnDoneKeeps ==
    ASSUME Inv, OwnTurn, OwnDone
    PROVE  StackInv'
<1>1. stack \in Seq(FrameType) /\ stack # <<>>
  BY DEF OwnTurn, At, Inv
<1>2. Children(Top.rec) \in SUBSET Records
  BY DEF Children
<1> QED
  BY <1>1, <1>2, StackAfter DEF OwnDone

LEMMA OwnUnchangedInv ==
    ASSUME Inv, OwnUnchanged
    PROVE  Inv'
<1>1. /\ OwnTurn /\ OwnDone /\ UNCHANGED callVars
      /\ dirtyState' = [dirtyState EXCEPT ![Top.rec] = "persistent"]
      /\ UNCHANGED <<keyed, pending, wrote>> /\ UNCHANGED <<conn, db, calls>>
  BY DEF OwnUnchanged, callVars
<1>2. RecordInv'
  BY <1>1 DEF Inv, RecordInv, DirtyStates
<1> QED
  BY <1>1, <1>2, OwnDoneKeeps, UnchangedData, StepKeeps

\* A record is written, or refused by the statement.
LEMMA OwnWrittenInv ==
    ASSUME Inv, NEW verdict, NEW outcome, OwnWritten(verdict, outcome)
    PROVE  Inv'
<1> DEFINE w == Written(Top.rec, outcome)
<1>1. /\ stack \in Seq(FrameType) /\ stack # <<>> /\ Top.rec \in Records
      /\ DataInv /\ calls \in Nat
  BY StackSteps, BoundsAssumption DEF OwnWritten, OwnTurn, At, Inv, CallInv
<1>2. /\ w.conn \in Session(Work(calls)) /\ w.conn.open
      /\ db \cup w.made \in Work(calls) /\ w.ret \in Returns
      /\ w.ret # "true" => w.conn = conn
  BY <1>1, WriteTyped
<1>3. /\ OwnTurn /\ UNCHANGED callVars /\ UNCHANGED pending /\ calls' = calls
      /\ dirtyState' = [dirtyState EXCEPT ![Top.rec] =
                           IF w.ret = "true" THEN "persistent"
                                             ELSE StateAfterExists(Top.rec)]
      /\ keyed' = [keyed EXCEPT ![Top.rec] = @ \/ w.ret = "true"]
      /\ wrote' \in {wrote, wrote \cup {Top.rec}}
      /\ db' = db \cup w.made
      /\ \/ w.ret = "throw" /\ conn' = w.conn /\ Throw
         \/ /\ w.ret = "false" /\ Answer("false")
            /\ conn' = w.conn \/ conn' = Rollback(w.conn, FALSE, "ok").conn
         \/ w.ret = "true" /\ conn' = w.conn /\ OwnDone
  BY <1>2 DEF OwnWritten, callVars, Returns
<1> HIDE DEF w
<1>4. RecordInv'
  <2>1. StateAfterExists(Top.rec) \in DirtyStates /\ "persistent" \in DirtyStates
    BY <1>1 DEF StateAfterExists, DirtyStates, Inv, RecordInv
  <2>2. dirtyState' \in [Records -> DirtyStates]
    BY <1>1, <1>3, <2>1 DEF Inv, RecordInv
  <2>3. keyed' \in [Records -> BOOLEAN]
    BY <1>1, <1>3 DEF Inv, RecordInv
  <2> QED
    BY <1>1, <1>3, <2>2, <2>3 DEF Inv, RecordInv
<1>5. DataInv'
  <2>1. w.ret = "false" => Rollback(w.conn, FALSE, "ok").conn \in Session(Work(calls))
                           /\ Rollback(w.conn, FALSE, "ok").conn.open
    BY <1>2, GiveUpTyped DEF Inv
  <2> QED
    BY <1>2, <1>3, <2>1 DEF DataInv
<1>6. StackInv'
  BY <1>1, <1>3, StackAfter, OwnDoneKeeps
<1> QED
  BY <1>3, <1>4, <1>5, <1>6, StepKeeps

\* begin(false) and commit(false) of the related records.
LEMMA RelatedInv ==
    ASSUME Inv, NEW outcome \in Outcomes
    PROVE  /\ StartRelated(outcome) => Inv'
           /\ FinishRelated(outcome) => Inv'
<1>1. \A pc : At(pc) => stack \in Seq(FrameType) /\ stack # <<>> /\ Top.rec \in Records
  BY StackSteps DEF At, Inv
<1>2. StartRelated(outcome) => Inv'
  <2> SUFFICES ASSUME StartRelated(outcome) PROVE Inv'
    OBVIOUS
  <2>1. /\ At("start") /\ conn' = Begin(conn, FALSE, outcome).conn /\ calls' = calls
        /\ db' = db /\ UNCHANGED <<wrote, recordVars>> /\ UNCHANGED callVars
        /\ Throw \/ (GoOn("before", Parents(Top.rec)) /\ result' = "none")
    BY DEF StartRelated, callVars
  <2>2. Parents(Top.rec) \in SUBSET Records
    BY DEF Parents
  <2>3. StackInv'
    BY <1>1, <2>1, <2>2, StackAfter
  <2>4. DataInv'
    BY <2>1, CallsTyped DEF Inv, DataInv
  <2> QED
    BY <2>1, <2>3, <2>4, UnchangedData, StepKeeps
<1>3. FinishRelated(outcome) => Inv'
  <2> SUFFICES ASSUME FinishRelated(outcome) PROVE Inv'
    OBVIOUS
  <2> DEFINE c == Commit(conn, FALSE, outcome)
  <2>1. /\ At("after") /\ conn' = c.conn /\ db' = db \cup c.made /\ calls' = calls
        /\ UNCHANGED <<dirtyState, keyed, wrote>> /\ UNCHANGED callVars
        /\ pending' \in {pending, pending \ {Top.rec}}
        /\ Throw \/ Answer("true")
    BY DEF FinishRelated, callVars
  <2>2. StackInv'
    BY <1>1, <2>1, StackAfter
  <2>3. RecordInv'
    BY <2>1 DEF Inv, RecordInv
  <2>4. c.conn \in Session(Work(calls)) /\ c.conn.open /\ db \cup c.made \in Work(calls)
    BY CallsTyped DEF Inv
  <2>5. DataInv'
    BY <2>1, <2>4 DEF DataInv
  <2> QED
    BY <2>1, <2>2, <2>3, <2>5, StepKeeps
<1> QED
  BY <1>2, <1>3

LEMMA ApplicationInv ==
    ASSUME Inv
    PROVE  AppBegin \/ AppCommit \/ AppRollback => Inv'
<1>1. ASSUME NEW r \in {Begin(conn, TRUE, "ok"), Commit(conn, TRUE, "ok"),
                        Rollback(conn, TRUE, "ok")}, AppCalls(r)
      PROVE  Inv'
  <2>1. /\ conn' = r.conn /\ db' = db \cup r.made /\ calls' = calls
        /\ UNCHANGED <<wrote, recordVars>> /\ UNCHANGED callVars
        /\ UNCHANGED stack /\ result' = "none"
    BY <1>1 DEF AppCalls, callVars
  <2>2. r.conn \in Session(Work(calls)) /\ r.conn.open /\ db \cup r.made \in Work(calls)
    BY <1>1, CallsTyped DEF Inv, Outcomes
  <2>3. DataInv'
    BY <2>1, <2>2 DEF DataInv
  <2>4. StackInv'
    BY <2>1 DEF Inv, StackInv
  <2> QED
    BY <2>1, <2>3, <2>4, UnchangedData, StepKeeps
<1> QED
  BY <1>1 DEF AppBegin, AppCommit, AppRollback

LEMMA NextInv == Inv /\ [Next]_vars => Inv'
<1> SUFFICES ASSUME Inv, [Next]_vars PROVE Inv'
  OBVIOUS
<1>1. Outcome \subseteq Outcomes
  BY ChoicesAssumption DEF Outcome, Outcomes
<1>2. CASE \E r \in Records : Save(r)
  BY <1>2, SaveInv
<1>3. CASE Step
  <2>1. CASE \E outcome \in Outcome : StartRelated(outcome) \/ FinishRelated(outcome)
    BY <1>1, <2>1, RelatedInv
  <2>2. CASE \E r \in Records : SkipParent(r) \/ SaveParent(r) \/ SaveChild(r)
    BY <2>2, StackStepsInv
  <2>3. CASE \/ StartAlone \/ StartThrows \/ RelationThrows
             \/ ParentFailed \/ ChildFailed
    <3>1. PICK r \in Records : TRUE
      BY <2>3, StackSteps
         DEF Inv, StartAlone, StartThrows, RelationThrows, ParentFailed, ChildFailed, At
    <3> QED
      BY <2>3, StackStepsInv
  <2>4. CASE \E verdict \in Verdicts, outcome \in Outcome : OwnWritten(verdict, outcome)
    BY <2>4, OwnWrittenInv
  <2> QED
    BY <1>3, <2>1, <2>2, <2>3, <2>4, RefusedRecordInv, OwnUnchangedInv DEF Step
<1>4. CASE AppBegin \/ AppCommit \/ AppRollback
  BY <1>4, ApplicationInv
<1>5. CASE UNCHANGED vars
  BY <1>5 DEF vars, Inv, RecordInv, DataInv, CallInv
<1> QED
  BY <1>2, <1>3, <1>4, <1>5 DEF Next

\* save() keeps its variables in their types: the nesting level is never
\* negative, the connection stays open, and the dirty state of a record is
\* "persistent" or "transient" (exists() leaves no other).
THEOREM TypeCorrect == Spec => []TypeOK
<1>1. Spec => []Inv
  BY InitInv, NextInv, PTL DEF Spec
<1> QED
  BY <1>1, InvTypes, PTL
----------------------------------------------------------------------------
(* The nesting level *)

OpenPcs == {"before", "after"}

\* Frames that have begun a level and not ended it.
OpenOf(s)   == {i \in 1 .. Len(s) : s[i].pc \in OpenPcs}
Opened(s)   == Cardinality(OpenOf(s))
LevelOf(pc) == IF pc \in OpenPcs THEN 1 ELSE 0

\* While a call runs the level is that of its start and one more for each open
\* frame; when it answers it is that of its start.
LevelInv ==
    /\ Inv
    /\ stack # <<>> => conn.level = call.base + Opened(stack)
    /\ Answered => conn.level = call.base

LEMMA OpenFinite ==
    ASSUME NEW s \in Seq(FrameType)
    PROVE  IsFiniteSet(OpenOf(s)) /\ Opened(s) \in Nat
<1>1. IsFiniteSet(1 .. Len(s))
  BY FS_Interval
<1>2. OpenOf(s) \in SUBSET (1 .. Len(s))
  BY DEF OpenOf
<1>3. IsFiniteSet(OpenOf(s))
  BY <1>1, <1>2, FS_Subset
<1> QED
  BY <1>3, FS_CardinalityType DEF Opened

LEMMA BelowTop ==
    ASSUME stack \in Seq(FrameType), stack # <<>>
    PROVE  /\ Len(stack) \in Nat \ {0} /\ Top = stack[Len(stack)] /\ Top \in FrameType
           /\ Front(stack) \in Seq(FrameType)
           /\ Len(Front(stack)) = Len(stack) - 1
           /\ \A i \in 1 .. Len(stack) - 1 : Front(stack)[i] = stack[i]
<1>1. Len(stack) \in Nat \ {0} /\ Top = stack[Len(stack)]
  BY DEF Top, Last
<1> DEFINE n == Len(stack) - 1
<1>2. SubSeq(stack, 1, n) \in Seq(FrameType)
  BY <1>1
<1>3. /\ Len(SubSeq(stack, 1, n)) = n
      /\ \A i \in 1 .. n : SubSeq(stack, 1, n)[i] = stack[i]
  <2>1. n \in Nat /\ \A i \in 1 .. n : stack[i] \in FrameType
    BY <1>1
  <2> HIDE DEF n
  <2>2. \A i \in 1 .. n : 1 + i - 1 = i
    OBVIOUS
  <2> QED
    BY <2>1, <2>2, SubSeqProperties
<1>4. Top \in FrameType
  BY StackSteps
<1> QED
  BY <1>1, <1>2, <1>3, <1>4 DEF Front

\* How many frames are open after the top has moved or returned.
LEMMA OpenAfter ==
    ASSUME stack \in Seq(FrameType), stack # <<>>
    PROVE  /\ Opened(Front(stack)) = Opened(stack) - LevelOf(Top.pc)
           /\ \A pc \in {"start", "alone", "before", "after"}, rest \in SUBSET Records :
                 Opened(GoneOn(pc, rest)) = Opened(stack) - LevelOf(Top.pc) + LevelOf(pc)
           /\ Opened(stack) >= LevelOf(Top.pc)
<1>1. /\ Len(stack) \in Nat \ {0} /\ Top = stack[Len(stack)]
      /\ Len(Front(stack)) = Len(stack) - 1
      /\ \A i \in 1 .. Len(stack) - 1 : Front(stack)[i] = stack[i]
  BY BelowTop
<1>2. 1 .. Len(stack) - 1 = (1 .. Len(stack)) \ {Len(stack)}
  BY <1>1
<1> DEFINE rest0 == OpenOf(stack) \ {Len(stack)}
<1>3. OpenOf(Front(stack)) = rest0
  BY <1>1, <1>2 DEF OpenOf
<1>4. IsFiniteSet(OpenOf(stack)) /\ Opened(stack) \in Nat
  BY OpenFinite
<1>5. IsFiniteSet(rest0) /\ Cardinality(rest0) \in Nat
  BY <1>4, FS_Subset, FS_CardinalityType
<1>6. Len(stack) \in OpenOf(stack) <=> Top.pc \in OpenPcs
  BY <1>1 DEF OpenOf
<1>7. Opened(stack) = Cardinality(rest0) + LevelOf(Top.pc)
  <2>1. CASE Top.pc \in OpenPcs
    <3>1. OpenOf(stack) = rest0 \cup {Len(stack)} /\ Len(stack) \notin rest0
      BY <1>6, <2>1
    <3> HIDE DEF rest0
    <3> QED
      BY <1>5, <2>1, <3>1, FS_AddElement DEF Opened, LevelOf
  <2>2. CASE Top.pc \notin OpenPcs
    <3>1. OpenOf(stack) = rest0
      BY <1>6, <2>2
    <3> HIDE DEF rest0
    <3> QED
      BY <1>5, <2>2, <3>1 DEF Opened, LevelOf
  <2> QED
    BY <2>1, <2>2
<1>8. LevelOf(Top.pc) \in {0, 1}
  BY DEF LevelOf
<1>9. ASSUME NEW pc \in {"start", "alone", "before", "after"}, NEW rest \in SUBSET Records
      PROVE  Opened(GoneOn(pc, rest)) = Cardinality(rest0) + LevelOf(pc)
  <2>1. /\ Len(GoneOn(pc, rest)) = Len(stack)
        /\ \A i \in 1 .. Len(stack) :
              GoneOn(pc, rest)[i].pc = IF i = Len(stack) THEN pc ELSE stack[i].pc
    BY Moved
  <2>2. OpenOf(GoneOn(pc, rest)) =
           IF pc \in OpenPcs THEN rest0 \cup {Len(stack)} ELSE rest0
    BY <1>1, <2>1 DEF OpenOf
  <2>3. Len(stack) \notin rest0
    OBVIOUS
  <2> HIDE DEF rest0
  <2>4. Cardinality(rest0 \cup {Len(stack)}) = Cardinality(rest0) + 1
    BY <1>5, <2>3, FS_AddElement
  <2>5. CASE pc \in OpenPcs
    BY <2>2, <2>4, <2>5 DEF Opened, LevelOf
  <2>6. CASE pc \notin OpenPcs
    BY <1>5, <2>2, <2>6 DEF Opened, LevelOf
  <2> QED
    BY <2>5, <2>6
<1>10. Opened(Front(stack)) = Cardinality(rest0)
  BY <1>3 DEF Opened
<1> HIDE DEF rest0
<1> QED
  BY <1>5, <1>7, <1>8, <1>9, <1>10

LEMMA OpenAbove ==
    ASSUME NEW s \in Seq(FrameType), NEW frame \in FrameType, frame.pc = "start"
    PROVE  Opened(Append(s, frame)) = Opened(s) /\ Append(s, frame) # <<>>
<1>1. /\ Len(Append(s, frame)) = Len(s) + 1 /\ Len(s) \in Nat
      /\ Append(s, frame)[Len(s) + 1] = frame
      /\ \A i \in 1 .. Len(s) : Append(s, frame)[i] = s[i]
  OBVIOUS
<1>2. 1 .. Len(s) + 1 = (1 .. Len(s)) \cup {Len(s) + 1}
  BY <1>1
<1>3. OpenOf(Append(s, frame)) = OpenOf(s)
  BY <1>1, <1>2 DEF OpenOf, OpenPcs
<1>4. Append(s, frame) # <<>>
  BY <1>1, Len(<<>>) = 0
<1> QED
  BY <1>3, <1>4 DEF Opened

\* A call that throws is over and does not answer.
LEMMA ThrowLevel ==
    ASSUME LevelInv, Inv', call' = call, Throw
    PROVE  LevelInv'
BY DEF LevelInv, Throw, Answered

LEMMA ReturnLevel ==
    ASSUME LevelInv, Inv', stack # <<>>, NEW ret, Return(ret), call' = call,
           conn'.level = conn.level - LevelOf(Top.pc)
    PROVE  LevelInv'
<1>1. stack \in Seq(FrameType) /\ conn.level = call.base + Opened(stack)
      /\ call.base \in Nat
  BY DEF LevelInv, Inv, CallInv
<1>2. stack' = Front(stack)
  BY DEF Return
<1>3. LevelOf(Top.pc) \in {0, 1} /\ Opened(stack) \in Nat
  BY <1>1, OpenFinite DEF LevelOf
<1>4. conn'.level = call'.base + Opened(stack')
  BY <1>1, <1>2, <1>3, OpenAfter
<1>5. stack' = <<>> => Opened(stack') = 0
  BY FS_EmptySet DEF Opened, OpenOf
<1> QED
  BY <1>1, <1>4, <1>5 DEF LevelInv, Answered

LEMMA AnswerLevel ==
    ASSUME LevelInv, Inv', stack # <<>>, NEW ret, Answer(ret), call' = call,
           conn'.level = conn.level - LevelOf(Top.pc)
    PROVE  LevelInv'
BY ReturnLevel, ThrowLevel DEF Answer

LEMMA MoveLevel ==
    ASSUME LevelInv, Inv', stack # <<>>, call' = call,
           NEW pc \in {"start", "alone", "before", "after"}, NEW rest \in SUBSET Records,
           GoOn(pc, rest), result' = "none",
           conn'.level = conn.level - LevelOf(Top.pc) + LevelOf(pc)
    PROVE  LevelInv'
<1>1. stack \in Seq(FrameType) /\ conn.level = call.base + Opened(stack)
      /\ call.base \in Nat
  BY DEF LevelInv, Inv, CallInv
<1>2. stack' = GoneOn(pc, rest)
  BY DEF GoOn, GoneOn
<1>3. LevelOf(Top.pc) \in {0, 1} /\ LevelOf(pc) \in {0, 1} /\ Opened(stack) \in Nat
  BY <1>1, OpenFinite DEF LevelOf
<1>4. Opened(stack') = Opened(stack) - LevelOf(Top.pc) + LevelOf(pc)
  BY <1>1, <1>2, OpenAfter
<1> QED
  BY <1>1, <1>3, <1>4 DEF LevelInv, Answered

LEMMA NestLevel ==
    ASSUME LevelInv, Inv', stack # <<>>, call' = call, NEW r \in Records,
           stack' = Append(PutAside(r), Frame(r)), result' = "none",
           conn'.level = conn.level
    PROVE  LevelInv'
<1>1. stack \in Seq(FrameType) /\ conn.level = call.base + Opened(stack)
      /\ call.base \in Nat
  BY DEF LevelInv, Inv, CallInv
<1>2. Top.rest \ {r} \in SUBSET Records /\ Top.pc \in {"start", "alone", "before", "after"}
  BY <1>1, StackSteps DEF FrameType
<1>3. PutAside(r) = GoneOn(Top.pc, Top.rest \ {r})
  BY <1>1, PutAsideIsMove
<1>4. PutAside(r) \in Seq(FrameType)
  BY <1>1, <1>2, <1>3, Moved
<1>5. LevelOf(Top.pc) \in {0, 1} /\ Opened(stack) \in Nat
  BY <1>1, OpenFinite DEF LevelOf
<1>6. Opened(PutAside(r)) = Opened(stack) - LevelOf(Top.pc) + LevelOf(Top.pc)
  BY <1>1, <1>2, <1>3, OpenAfter
<1>7. Opened(stack') = Opened(PutAside(r)) /\ stack' # <<>>
  BY <1>4, FrameTyped, OpenAbove
<1>8. conn'.level = call'.base + Opened(stack')
  BY <1>1, <1>5, <1>6, <1>7
<1> QED
  BY <1>7, <1>8 DEF LevelInv, Answered

\* A frame that is open has a level to end.
LEMMA OpenHasLevel ==
    ASSUME LevelInv, stack # <<>>, Top.pc \in OpenPcs
    PROVE  conn.level \in Nat /\ conn.level > 0
<1>1. stack \in Seq(FrameType) /\ conn.level = call.base + Opened(stack)
      /\ call.base \in Nat
  BY DEF LevelInv, Inv, CallInv
<1>2. Opened(stack) \in Nat /\ Opened(stack) >= LevelOf(Top.pc)
  BY <1>1, OpenFinite, OpenAfter
<1> QED
  BY <1>1, <1>2 DEF LevelOf

\* rollback(false) of a frame, in each place the code calls it.
LEMMA GiveUpLevel ==
    ASSUME LevelInv, stack # <<>>, Top.pc \in OpenPcs,
           NEW c, c = conn, NEW nesting
    PROVE  Rollback(c, nesting, "ok").conn.level = conn.level - LevelOf(Top.pc)
<1>1. "ok" \in Outcomes
  BY DEF Outcomes
<1> QED
  BY <1>1, OpenHasLevel, CallsCount DEF LevelInv, Inv, LevelOf
LEMMA LevelSteps ==
    ASSUME LevelInv, Inv', NEW r \in Records
    PROVE  /\ StartAlone => LevelInv'
           /\ StartThrows => LevelInv'
           /\ RelationThrows => LevelInv'
           /\ SkipParent(r) => LevelInv'
           /\ SaveParent(r) => LevelInv'
           /\ SaveChild(r) => LevelInv'
           /\ ParentFailed => LevelInv'
           /\ ChildFailed => LevelInv'
           /\ OwnVetoed => LevelInv'
           /\ OwnThrows => LevelInv'
<1>1. conn.level \in Nat
  BY DEF LevelInv, Inv, DataInv, Session, ConnectionOf
<1>2. /\ LevelOf("start") = 0 /\ LevelOf("alone") = 0
      /\ LevelOf("before") = 1 /\ LevelOf("after") = 1
      /\ "before" \in OpenPcs /\ "after" \in OpenPcs
  BY DEF LevelOf, OpenPcs
<1>3. stack # <<>> => Top.rest \ {r} \in SUBSET Records
  BY StackSteps DEF LevelInv, Inv
<1>4. StartAlone => LevelInv'
  <2> SUFFICES ASSUME StartAlone PROVE LevelInv'
    OBVIOUS
  <2>1. /\ stack # <<>> /\ Top.pc = "start" /\ GoOn("alone", {}) /\ result' = "none"
        /\ call' = call /\ conn'.level = conn.level
    BY DEF StartAlone, At, callVars
  <2>2. {} \in SUBSET Records
    OBVIOUS
  <2>3. conn'.level = conn.level - LevelOf(Top.pc) + LevelOf("alone")
    BY <1>1, <1>2, <2>1
  <2> QED
    BY <2>1, <2>2, <2>3, MoveLevel
<1>5. StartThrows => LevelInv'
  BY ThrowLevel DEF StartThrows, callVars
<1>6. RelationThrows => LevelInv'
  BY ThrowLevel DEF RelationThrows, callVars
<1>7. SkipParent(r) => LevelInv'
  <2> SUFFICES ASSUME SkipParent(r) PROVE LevelInv'
    OBVIOUS
  <2>1. /\ stack # <<>> /\ Top.pc = "before" /\ GoOn("before", Top.rest \ {r})
        /\ result' = "none" /\ call' = call /\ conn'.level = conn.level
    BY DEF SkipParent, At, callVars
  <2>2. conn'.level = conn.level - LevelOf(Top.pc) + LevelOf("before")
    BY <1>1, <1>2, <2>1
  <2> QED
    BY <1>3, <2>1, <2>2, MoveLevel
<1>8. SaveParent(r) => LevelInv'
  BY NestLevel DEF SaveParent, At, PutAside, callVars
<1>9. SaveChild(r) => LevelInv'
  BY NestLevel DEF SaveChild, At, PutAside, callVars
<1>10. ParentFailed => LevelInv'
  <2> SUFFICES ASSUME ParentFailed PROVE LevelInv'
    OBVIOUS
  <2>1. /\ stack # <<>> /\ Top.pc = "before" /\ Return("false") /\ call' = call
        /\ conn' = Rollback(conn, FALSE, "ok").conn
    BY DEF ParentFailed, Fail, At, callVars
  <2>2. conn'.level = conn.level - LevelOf(Top.pc)
    BY <1>2, <2>1, GiveUpLevel
  <2> QED
    BY <2>1, <2>2, ReturnLevel
<1>11. ChildFailed => LevelInv'
  <2> SUFFICES ASSUME ChildFailed PROVE LevelInv'
    OBVIOUS
  <2>1. /\ stack # <<>> /\ Top.pc = "after" /\ Answer("false") /\ call' = call
        /\ conn' = Rollback(conn, FALSE, "ok").conn
    BY DEF ChildFailed, At, callVars
  <2>2. conn'.level = conn.level - LevelOf(Top.pc)
    BY <1>2, <2>1, GiveUpLevel
  <2> QED
    BY <2>1, <2>2, AnswerLevel
<1>12. OwnVetoed => LevelInv'
  <2> SUFFICES ASSUME OwnVetoed PROVE LevelInv'
    OBVIOUS
  <2>1. CASE Throw
    BY <2>1, ThrowLevel DEF OwnVetoed, callVars
  <2>2. CASE Fail(Begun)
    <3>1. /\ stack # <<>> /\ Top.pc \in {"alone", "before"} /\ Return("false")
          /\ call' = call
          /\ conn' = IF Top.pc # "alone" THEN Rollback(conn, FALSE, "ok").conn ELSE conn
      BY <2>2 DEF OwnVetoed, OwnTurn, At, Fail, Begun, callVars
    <3>2. Top.pc = "before" => conn'.level = conn.level - LevelOf(Top.pc)
      BY <1>2, <3>1, GiveUpLevel
    <3>3. CASE Top.pc = "alone"
      <4>1. conn'.level = conn.level /\ LevelOf(Top.pc) = 0
        BY <1>2, <3>1, <3>3
      <4>2. conn'.level = conn.level - LevelOf(Top.pc)
        BY <1>1, <4>1
      <4> QED
        BY <3>1, <4>2, ReturnLevel
    <3> QED
      BY <3>1, <3>2, <3>3, ReturnLevel
  <2> QED
    BY <2>1, <2>2 DEF OwnVetoed
<1>13. OwnThrows => LevelInv'
  BY ThrowLevel DEF OwnThrows, callVars
<1> QED
  BY <1>4, <1>5, <1>6, <1>7, <1>8, <1>9, <1>10, <1>11, <1>12, <1>13

\* The record itself is saved: the frame answers, or goes on with its level.
LEMMA OwnDoneLevel ==
    ASSUME LevelInv, Inv', OwnTurn, OwnDone, call' = call, conn'.level = conn.level
    PROVE  LevelInv'
<1>1. conn.level \in Nat /\ stack # <<>> /\ Top.pc \in {"alone", "before"}
  BY DEF LevelInv, Inv, DataInv, Session, ConnectionOf, OwnTurn, At
<1>2. LevelOf("alone") = 0 /\ LevelOf("before") = 1 /\ LevelOf("after") = 1
  BY DEF LevelOf, OpenPcs
<1>3. CASE Top.pc = "alone"
  <2>1. conn'.level = conn.level - LevelOf(Top.pc)
    BY <1>1, <1>2, <1>3
  <2> QED
    BY <1>1, <1>3, <2>1, AnswerLevel DEF OwnDone, Begun
<1>4. CASE Top.pc = "before"
  <2>1. conn'.level = conn.level - LevelOf(Top.pc) + LevelOf("after")
    BY <1>1, <1>2, <1>4
  <2>2. Children(Top.rec) \in SUBSET Records
    BY DEF Children
  <2>3. GoOn("after", Children(Top.rec)) /\ result' = "none"
    BY <1>4 DEF OwnDone, Begun
  <2> QED
    BY <1>1, <2>1, <2>2, <2>3, MoveLevel
<1> QED
  BY <1>1, <1>3, <1>4

LEMMA OwnLevel ==
    ASSUME LevelInv, Inv', NEW verdict, NEW outcome
    PROVE  /\ OwnUnchanged => LevelInv'
           /\ OwnWritten(verdict, outcome) => LevelInv'
<1>1. OwnUnchanged => LevelInv'
  BY OwnDoneLevel DEF OwnUnchanged, callVars
<1>2. ASSUME OwnWritten(verdict, outcome)
      PROVE  LevelInv'
  <2> DEFINE w == Written(Top.rec, outcome)
  <2>1. /\ stack \in Seq(FrameType) /\ stack # <<>> /\ Top.rec \in Records
        /\ DataInv /\ calls \in Nat /\ Top.pc \in {"alone", "before"}
    BY <1>2, StackSteps, BoundsAssumption
       DEF OwnWritten, OwnTurn, At, LevelInv, Inv, CallInv
  <2>2. /\ w.conn.level = conn.level /\ w.ret \in Returns
        /\ w.ret # "true" => w.conn = conn
    BY <2>1, WriteTyped
  <2>3. /\ OwnTurn /\ call' = call
        /\ \/ w.ret = "throw" /\ Throw
           \/ /\ w.ret = "false" /\ Answer("false")
              /\ conn' = IF Top.pc # "alone" THEN Rollback(w.conn, FALSE, "ok").conn
                                             ELSE w.conn
           \/ w.ret = "true" /\ conn' = w.conn /\ OwnDone
    BY <1>2, <2>2 DEF OwnWritten, Begun, callVars, Returns
  <2>4. conn.level \in Nat
    BY DEF LevelInv, Inv, DataInv, Session, ConnectionOf
  <2>5. LevelOf("alone") = 0 /\ "before" \in OpenPcs
    BY DEF LevelOf, OpenPcs
  <2> HIDE DEF w
  <2>6. CASE w.ret = "throw"
    BY <2>3, <2>6, ThrowLevel
  <2>7. CASE w.ret = "false"
    <3>1. Top.pc = "before" =>
             Rollback(w.conn, FALSE, "ok").conn.level = conn.level - LevelOf(Top.pc)
      BY <2>1, <2>2, <2>5, <2>7, GiveUpLevel
    <3>2. CASE Top.pc = "alone"
      <4>1. conn'.level = conn.level /\ LevelOf(Top.pc) = 0
        BY <2>2, <2>3, <2>5, <2>7, <3>2
      <4>2. conn'.level = conn.level - LevelOf(Top.pc)
        BY <2>4, <4>1
      <4> QED
        BY <2>1, <2>3, <2>7, <4>2, AnswerLevel
    <3>3. CASE Top.pc = "before"
      BY <2>1, <2>3, <2>7, <3>1, <3>3, AnswerLevel
    <3> QED
      BY <2>1, <3>2, <3>3
  <2>8. CASE w.ret = "true"
    BY <2>2, <2>3, <2>8, OwnDoneLevel
  <2> QED
    BY <2>2, <2>6, <2>7, <2>8 DEF Returns
<1> QED
  BY <1>1, <1>2

LEMMA RelatedLevel ==
    ASSUME LevelInv, Inv', NEW outcome \in Outcomes
    PROVE  /\ StartRelated(outcome) => LevelInv'
           /\ FinishRelated(outcome) => LevelInv'
<1>1. conn.level \in Nat
  BY DEF LevelInv, Inv, DataInv, Session, ConnectionOf
<1>2. LevelOf("start") = 0 /\ LevelOf("before") = 1 /\ LevelOf("after") = 1
      /\ "after" \in OpenPcs
  BY DEF LevelOf, OpenPcs
<1>3. StartRelated(outcome) => LevelInv'
  <2> SUFFICES ASSUME StartRelated(outcome) PROVE LevelInv'
    OBVIOUS
  <2>1. /\ stack # <<>> /\ Top.pc = "start" /\ call' = call
        /\ conn' = Begin(conn, FALSE, outcome).conn
        /\ Throw \/ (GoOn("before", Parents(Top.rec)) /\ result' = "none")
    BY DEF StartRelated, At, callVars
  <2>2. conn'.level = conn.level + 1
    BY <2>1, CallsCount DEF LevelInv, Inv
  <2>3. conn'.level = conn.level - LevelOf(Top.pc) + LevelOf("before")
    <3>1. LevelOf(Top.pc) = 0
      BY <1>2, <2>1
    <3> QED
      BY <1>1, <1>2, <2>2, <3>1
  <2>4. Parents(Top.rec) \in SUBSET Records
    BY DEF Parents
  <2> QED
    BY <2>1, <2>3, <2>4, ThrowLevel, MoveLevel
<1>4. FinishRelated(outcome) => LevelInv'
  <2> SUFFICES ASSUME FinishRelated(outcome) PROVE LevelInv'
    OBVIOUS
  <2>1. /\ stack # <<>> /\ Top.pc = "after" /\ call' = call
        /\ conn' = Commit(conn, FALSE, outcome).conn
        /\ Throw \/ Answer("true")
    BY DEF FinishRelated, At, callVars
  <2>2. conn'.level = conn.level - 1
    BY <1>2, <2>1, OpenHasLevel, CallsCount DEF LevelInv, Inv
  <2>3. conn'.level = conn.level - LevelOf(Top.pc)
    BY <1>2, <2>1, <2>2
  <2> QED
    BY <2>1, <2>3, ThrowLevel, AnswerLevel
<1> QED
  BY <1>3, <1>4

LEMMA NextLevel == LevelInv /\ [Next]_vars => LevelInv'
<1> SUFFICES ASSUME LevelInv, [Next]_vars PROVE LevelInv'
  OBVIOUS
<1>1. Inv /\ Inv'
  BY NextInv DEF LevelInv
<1>2. Outcome \subseteq Outcomes
  BY ChoicesAssumption DEF Outcome, Outcomes
<1>3. CASE \E r \in Records : Save(r)
  <2>1. PICK r \in Records : Save(r)
    BY <1>3
  <2>2. /\ stack' = <<Frame(r)>> /\ result' = "none" /\ call'.base = conn.level
        /\ conn' = conn
    BY <2>1 DEF Save
  <2>3. conn.level \in Nat
    BY <1>1 DEF Inv, DataInv, Session, ConnectionOf
  <2>4. OpenOf(<<Frame(r)>>) = {}
    BY FrameTyped DEF OpenOf, OpenPcs
  <2>5. Opened(stack') = 0
    BY <2>2, <2>4, FS_EmptySet DEF Opened
  <2> QED
    BY <1>1, <2>2, <2>3, <2>5 DEF LevelInv, Answered
<1>4. CASE Step
  <2>1. PICK r \in Records : TRUE
    BY <1>1, <1>4, StackSteps
       DEF Inv, Step, StartAlone, StartThrows, RelationThrows, ParentFailed, ChildFailed,
           StartRelated, FinishRelated, OwnVetoed, OwnThrows, OwnUnchanged, OwnWritten,
           OwnTurn, At
  <2>2. CASE \E outcome \in Outcome : StartRelated(outcome) \/ FinishRelated(outcome)
    BY <1>1, <1>2, <2>2, RelatedLevel
  <2>3. CASE \E x \in Records : SkipParent(x) \/ SaveParent(x) \/ SaveChild(x)
    BY <1>1, <2>3, LevelSteps
  <2>4. CASE \E verdict \in Verdicts, outcome \in Outcome : OwnWritten(verdict, outcome)
    BY <1>1, <2>4, OwnLevel
  <2>5. CASE \/ StartAlone \/ StartThrows \/ RelationThrows \/ ParentFailed
             \/ ChildFailed \/ OwnVetoed \/ OwnThrows
    BY <1>1, <2>1, <2>5, LevelSteps
  <2> QED
    BY <1>1, <1>4, <2>2, <2>3, <2>4, <2>5, OwnLevel DEF Step
<1>5. CASE AppBegin \/ AppCommit \/ AppRollback
  <2>1. stack' = <<>> /\ result' = "none"
    BY <1>5 DEF AppBegin, AppCommit, AppRollback, AppCalls
  <2> QED
    BY <1>1, <2>1 DEF LevelInv, Answered
<1>6. CASE UNCHANGED vars
  BY <1>1, <1>6 DEF vars, LevelInv, Answered, Opened, OpenOf
<1> QED
  BY <1>3, <1>4, <1>5, <1>6 DEF Next

\* A save() that answers has ended every nesting level it began, for any graph
\* of records and whatever is refused on the way.
THEOREM LevelCorrect == Spec => []LevelBalanced
<1>1. Init => LevelInv
  BY InitInv DEF Init, LevelInv, Answered
<1>2. LevelInv => LevelBalanced
  BY DEF LevelInv, LevelBalanced
<1> QED
  BY <1>1, <1>2, NextLevel, PTL DEF Spec

----------------------------------------------------------------------------
(* All or nothing *)

\* Records with an effect of the n-th call.
WrittenBy(effects, n) == {e[1] : e \in {x \in effects : x[2] = n}}

\* No level, no transaction: a refused COMMIT must have ended it.
Quiet == conn.level = 0 => ~conn.active

\* Only an open frame has frames above it.
Chain == \A i \in 1 .. Len(stack) - 1 : stack[i].pc \in OpenPcs

\* While a call outside a transaction of the application runs, all that it
\* wrote is work of the open transaction.
RowsInv ==
    stack # <<>> /\ call.base = 0 =>
        /\ conn.active <=> conn.level > 0
        /\ WrittenBy(db, calls) = {}
        /\ WrittenBy(conn.work, calls) = wrote

AtomInv == LevelInv /\ Quiet /\ Chain /\ RowsInv /\ AllOrNothing

LEMMA WrittenOf ==
    ASSUME NEW n
    PROVE  /\ WrittenBy({}, n) = {}
           /\ \A S, T : WrittenBy(S \cup T, n) = WrittenBy(S, n) \cup WrittenBy(T, n)
           /\ \A r : WrittenBy({<<r, n>>}, n) = {r}
<1>1. WrittenBy({}, n) = {}
  BY DEF WrittenBy
<1>2. ASSUME NEW S, NEW T
      PROVE  WrittenBy(S \cup T, n) = WrittenBy(S, n) \cup WrittenBy(T, n)
  BY DEF WrittenBy
<1>3. ASSUME NEW r
      PROVE  WrittenBy({<<r, n>>}, n) = {r}
  <2> DEFINE e == <<r, n>>
  <2>1. e[1] = r /\ e[2] = n
    OBVIOUS
  <2> HIDE DEF e
  <2>2. {x \in {e} : x[2] = n} = {e}
    BY <2>1
  <2>3. {x[1] : x \in {e}} = {r}
    BY <2>1
  <2> QED
    BY <2>2, <2>3 DEF WrittenBy, e
<1> QED
  BY <1>1, <1>2, <1>3

LEMMA DataFacts ==
    ASSUME DataInv
    PROVE  /\ conn.open /\ conn.level \in Nat /\ conn.active \in BOOLEAN
           /\ ~conn.active => conn.work = {} /\ conn.points = <<>>
           /\ conn \in ConnectionOf(Work(calls))
BY DEF DataInv, Session, ConnectionOf

\* begin(false), when it does not throw, has a transaction for the call.
LEMMA SoftBegin ==
    ASSUME DataInv, Quiet, NEW soft, ~soft, NEW outcome
    PROVE  LET r == Begin(conn, soft, outcome)
           IN  r.ret # "throw" =>
                  /\ r.conn.active <=> (conn.active \/ conn.level = 0)
                  /\ r.conn.work = conn.work
<1>1. /\ (Deeper(conn).active <=> conn.active) /\ Deeper(conn).work = conn.work
      /\ Deeper(conn) \in ConnectionOf(Work(calls))
  BY DataFacts DEF Deeper, ConnectionOf
<1>3. CASE conn.level = 0
  <2> DEFINE d == [Idle(Deeper(conn)) EXCEPT !.active = TRUE]
  <2>1. Begin(conn, soft, outcome) = ServerBegin(Deeper(conn), outcome)
    BY <1>3, DataFacts DEF Begin
  <2>2. d.active /\ d.work = {} /\ conn.work = {}
    BY <1>1, <1>3, DataFacts DEF Idle, ConnectionOf, Quiet
  <2>3. \/ ServerBegin(Deeper(conn), outcome) = Result(d, {}, "true")
        \/ ServerBegin(Deeper(conn), outcome) = Result(Deeper(conn), {}, "throw")
    BY DEF ServerBegin
  <2> HIDE DEF d
  <2>4. Begin(conn, soft, outcome).conn = d \/ Begin(conn, soft, outcome).ret = "throw"
    BY <2>1, <2>3 DEF Result
  <2> QED
    BY <1>3, <2>2, <2>4
<1>4. CASE conn.level > 0
  <2>1. Begin(conn, soft, outcome) = Result(Deeper(conn), {}, "false")
    BY <1>4, DataFacts DEF Begin, UsesSavepoint
  <2>2. ~(conn.level = 0)
    BY <1>4, DataFacts
  <2>3. Begin(conn, soft, outcome).conn = Deeper(conn)
    BY <2>1 DEF Result
  <2> QED
    BY <1>1, <2>2, <2>3
<1>5. conn.level = 0 \/ conn.level > 0
  BY DataFacts
<1> QED
  BY <1>3, <1>4, <1>5

\* commit(false) and rollback(false): an inner one does nothing, the outermost
\* one ends the transaction.
LEMMA SoftEnd ==
    ASSUME DataInv, conn.level > 0, NEW soft, ~soft, NEW outcome \in Outcomes \ {"busy"}
    PROVE  /\ LET r == Commit(conn, soft, outcome)
              IN  /\ conn.level > 1 => /\ r.made = {} /\ r.conn.work = conn.work
                                       /\ r.conn.active <=> conn.active
                  /\ conn.level = 1 /\ conn.active /\ r.ret # "throw" => r.made = conn.work
           /\ LET r == Rollback(conn, soft, outcome)
              IN  conn.level > 1 => /\ r.conn.work = conn.work
                                    /\ r.conn.active <=> conn.active
<1>1. /\ (Shallower(conn).active <=> conn.active) /\ Shallower(conn).work = conn.work
  BY DataFacts DEF Shallower, ConnectionOf
<1>3. CASE conn.level > 1
  <2>1. /\ Commit(conn, soft, outcome) = Result(Shallower(conn), {}, "false")
        /\ Rollback(conn, soft, outcome) = Result(Shallower(conn), {}, "false")
    BY <1>3, DataFacts DEF Commit, Rollback, UsesSavepoint
  <2>2. ~(conn.level = 1)
    BY <1>3, DataFacts
  <2>3. /\ Commit(conn, soft, outcome).conn = Shallower(conn)
        /\ Commit(conn, soft, outcome).made = {}
        /\ Rollback(conn, soft, outcome).conn = Shallower(conn)
    BY <2>1 DEF Result
  <2> QED
    BY <1>1, <2>2, <2>3
<1>4. CASE conn.level = 1
  <2> DEFINE low == Shallower(conn)
  <2>1. Commit(conn, soft, outcome) = ServerCommit(low, outcome)
    BY <1>4, DataFacts DEF Commit
  <2>2. low.active =>
           \/ ServerCommit(low, outcome) = Result(Idle(low), low.work, "true")
           \/ ServerCommit(low, outcome) = Result(Idle(low), {}, "throw")
    BY DEF ServerCommit, Outcomes
  <2>3. ~(conn.level > 1)
    BY <1>4
  <2> HIDE DEF low
  <2>4. low.active => \/ Commit(conn, soft, outcome).made = low.work
                      \/ Commit(conn, soft, outcome).ret = "throw"
    BY <2>1, <2>2 DEF Result
  <2> QED
    BY <1>1, <2>3, <2>4 DEF low
<1>5. conn.level > 1 \/ conn.level = 1
  BY DataFacts
<1> QED
  BY <1>3, <1>4, <1>5

\* After a call at level zero the session has no transaction.
LEMMA CallsQuiet ==
    ASSUME DataInv, NEW nesting, NEW outcome \in Outcomes \ {"busy"}
    PROVE  /\ Begin(conn, nesting, outcome).conn.level # 0
           /\ conn.level > 0 =>
                 \A r \in {Commit(conn, nesting, outcome), Rollback(conn, nesting, outcome)} :
                    r.conn.level = 0 => ~r.conn.active
<1>1. Begin(conn, nesting, outcome).conn.level # 0
  BY DataFacts, CallsCount
<1>2. ASSUME conn.level = 1
      PROVE  /\ ~Commit(conn, nesting, outcome).conn.active
             /\ ~Rollback(conn, nesting, outcome).conn.active
  <2>1. /\ Commit(conn, nesting, outcome) = ServerCommit(Shallower(conn), outcome)
        /\ Rollback(conn, nesting, outcome) = ServerRollback(Shallower(conn), outcome)
    BY <1>2, DataFacts DEF Commit, Rollback
  <2>2. (Shallower(conn).active <=> conn.active) /\ ~Idle(Shallower(conn)).active
    BY DataFacts DEF Shallower, Idle, ConnectionOf
  <2> QED
    BY <2>1, <2>2 DEF ServerCommit, ServerRollback, Result, Outcomes
<1>3. ASSUME conn.level > 0, conn.level # 1
      PROVE  /\ Commit(conn, nesting, outcome).conn.level # 0
             /\ Rollback(conn, nesting, outcome).conn.level # 0
  BY <1>3, DataFacts, CallsCount
<1> QED
  BY <1>1, <1>2, <1>3

\* What writing a record adds, and that save() takes note of it.
LEMMA WriteAdds ==
    ASSUME DataInv, NEW r \in Records, NEW outcome
    PROVE  LET w   == Written(r, outcome)
               hit == w.ret = "true" /\ (Visible(r) \/ ~Exists(r))
           IN  /\ w.conn.active <=> conn.active
               /\ hit /\ conn.active =>
                     w.made = {} /\ w.conn.work = conn.work \cup {<<r, calls>>}
               /\ hit /\ ~conn.active =>
                     w.made = {<<r, calls>>} /\ w.conn.work = conn.work
               /\ ~hit => w.made = {} /\ w.conn = conn
<1> DEFINE row == <<r, calls>>
           more == [conn EXCEPT !.work = @ \cup {row}]
           e == Execute(conn, row, outcome)
<1>1. (more.active <=> conn.active) /\ more.work = conn.work \cup {row}
  BY DataFacts DEF ConnectionOf
<1>2. Refused(conn, outcome) => e.conn = conn /\ e.made = {} /\ e.ret # "true"
  BY DEF Execute, RefusalOf, Result
<1>3. ~Refused(conn, outcome) /\ conn.active =>
         e.conn = more /\ e.made = {} /\ e.ret = "true"
  BY DEF Execute, Result
<1>4. ~Refused(conn, outcome) /\ ~conn.active =>
         e.conn = conn /\ e.made = {row} /\ e.ret = "true"
  BY DEF Execute, Result
<1>5. Written(r, outcome) =
         IF Exists(r) /\ ~(Visible(r) \/ Refused(conn, outcome))
         THEN Result(conn, {}, "true") ELSE e
  BY DEF Written, Updated, Inserted
<1>6. LET n == Result(conn, {}, "true") IN n.conn = conn /\ n.made = {} /\ n.ret = "true"
  BY DEF Result
<1> HIDE DEF row, more, e
<1> QED
  BY <1>1, <1>2, <1>3, <1>4, <1>5, <1>6 DEF row

LEMMA OpenIn ==
    ASSUME NEW s \in Seq(FrameType), NEW i \in 1 .. Len(s), s[i].pc \in OpenPcs
    PROVE  Opened(s) \in Nat /\ Opened(s) > 0
<1>1. IsFiniteSet(OpenOf(s)) /\ Opened(s) \in Nat
  BY OpenFinite
<1>2. i \in OpenOf(s)
  BY DEF OpenOf
<1>3. Opened(s) # 0
  BY <1>1, <1>2, FS_EmptySet DEF Opened
<1> QED
  BY <1>1, <1>3

\* A frame that returns inside a call leaves an open one; the outermost one
\* leaves level zero.
LEMMA ReturnFacts ==
    ASSUME LevelInv, Chain, LevelInv', stack # <<>>, NEW ret \in {"true", "false"},
           Return(ret), call' = call
    PROVE  /\ Chain'
           /\ stack' # <<>> => conn'.level > 0
           /\ call.base = 0 => IF stack' = <<>> THEN conn'.level = 0 ELSE conn'.level > 0
<1>1. /\ stack \in Seq(FrameType) /\ stack' \in Seq(FrameType) /\ stack' = Front(stack)
      /\ result' = ret
  BY DEF LevelInv, Inv, Return
<1>2. /\ Len(stack) \in Nat \ {0} /\ Len(stack') = Len(stack) - 1
      /\ \A i \in 1 .. Len(stack) - 1 : stack'[i] = stack[i]
  BY <1>1, BelowTop
<1>3. \A i \in 1 .. Len(stack') : stack'[i].pc \in OpenPcs
  BY <1>1, <1>2 DEF Chain
<1>4. Chain'
  BY <1>2, <1>3 DEF Chain
<1>5. stack' = <<>> => conn'.level = call.base
  BY <1>1 DEF LevelInv, Answered
<1>6. stack' # <<>> => conn'.level > 0
  <2> SUFFICES ASSUME stack' # <<>> PROVE conn'.level > 0
    OBVIOUS
  <2>1. Len(stack') \in 1 .. Len(stack')
    BY <1>1
  <2>2. Opened(stack') \in Nat /\ Opened(stack') > 0
    BY <1>1, <1>3, <2>1, OpenIn
  <2>3. conn'.level = call'.base + Opened(stack') /\ call'.base \in Nat
    BY DEF LevelInv, Inv, CallInv
  <2> QED
    BY <2>2, <2>3
<1> QED
  BY <1>4, <1>5, <1>6

\* A call that throws does not answer.
LEMMA ThrowAtom ==
    ASSUME LevelInv', Quiet', Throw
    PROVE  AtomInv'
<1>1. stack' = <<>> /\ result' = "throw"
  BY DEF Throw
<1>2. Chain'
  BY <1>1, Len(<<>>) = 0 DEF Chain
<1>3. RowsInv' /\ AllOrNothing'
  BY <1>1 DEF RowsInv, AllOrNothing, Answered
<1> QED
  BY <1>2, <1>3 DEF AtomInv

\* The call goes on: the innermost frame, or a call nested in it.
LEMMA GoingOn ==
    ASSUME LevelInv, Chain, stack # <<>>, result' = "none",
           \/ \E pc \in {"start", "alone", "before", "after"}, rest \in SUBSET Records :
                 GoOn(pc, rest)
           \/ \E r \in Records :
                 Top.pc \in OpenPcs /\ stack' = Append(PutAside(r), Frame(r))
    PROVE  Chain' /\ stack' # <<>> /\ AllOrNothing'
<1>1. stack \in Seq(FrameType) /\ Len(stack) \in Nat \ {0} /\ Top = stack[Len(stack)]
  BY BelowTop DEF LevelInv, Inv
<1>2. CASE \E pc \in {"start", "alone", "before", "after"}, rest \in SUBSET Records :
              GoOn(pc, rest)
  <2>1. PICK pc \in {"start", "alone", "before", "after"}, rest \in SUBSET Records :
            GoOn(pc, rest)
    BY <1>2
  <2>2. /\ Len(stack') = Len(stack) /\ stack' # <<>>
        /\ \A i \in 1 .. Len(stack) :
              stack'[i].pc = IF i = Len(stack) THEN pc ELSE stack[i].pc
    BY <1>1, <2>1, Moved DEF GoOn, GoneOn
  <2>3. Chain'
    BY <1>1, <2>2 DEF Chain
  <2> QED
    BY <2>2, <2>3 DEF AllOrNothing, Answered
<1>3. CASE \E r \in Records : Top.pc \in OpenPcs /\ stack' = Append(PutAside(r), Frame(r))
  <2>1. PICK r \in Records : Top.pc \in OpenPcs /\ stack' = Append(PutAside(r), Frame(r))
    BY <1>3
  <2>2. Top.rest \ {r} \in SUBSET Records /\ Top.pc \in {"start", "alone", "before", "after"}
    BY <1>1, StackSteps DEF FrameType
  <2>3. PutAside(r) = GoneOn(Top.pc, Top.rest \ {r})
    BY <1>1, PutAsideIsMove
  <2>4. /\ PutAside(r) \in Seq(FrameType) /\ Len(PutAside(r)) = Len(stack)
        /\ \A i \in 1 .. Len(stack) :
              PutAside(r)[i].pc = IF i = Len(stack) THEN Top.pc ELSE stack[i].pc
    BY <1>1, <2>2, <2>3, Moved
  <2>5. \A i \in 1 .. Len(stack) : PutAside(r)[i].pc \in OpenPcs
    BY <1>1, <2>1, <2>4 DEF Chain
  <2>6. /\ Len(stack') = Len(stack) + 1 /\ stack' # <<>>
        /\ \A i \in 1 .. Len(stack) : stack'[i] = PutAside(r)[i]
    BY <2>1, <2>4, Len(<<>>) = 0
  <2>7. Chain'
    BY <1>1, <2>5, <2>6 DEF Chain
  <2> QED
    BY <2>6, <2>7 DEF AllOrNothing, Answered
<1> QED
  BY <1>2, <1>3

\* Neither the connection nor what is written changes.
LEMMA UntouchedAtom ==
    ASSUME AtomInv, UNCHANGED <<conn, db, wrote, calls, call>>
    PROVE  /\ Quiet'
           /\ stack # <<>> => RowsInv'
BY DEF AtomInv, Quiet, RowsInv

\* A frame returns after rollback(false).
LEMMA GiveUpAtom ==
    ASSUME AtomInv, LevelInv', stack # <<>>, Top.pc \in OpenPcs, Return("false"),
           conn' = Rollback(conn, FALSE, "ok").conn, UNCHANGED <<db, wrote, calls, call>>
    PROVE  AtomInv'
<1> DEFINE low == Rollback(conn, FALSE, "ok").conn
<1>1. DataInv /\ conn.level \in Nat /\ conn.level > 0
  BY OpenHasLevel DEF AtomInv, LevelInv, Inv
<1>2. "ok" \in Outcomes \ {"busy"}
  BY DEF Outcomes
<1>3. conn' = low /\ low.level = conn.level - 1
  BY <1>1, <1>2, CallsCount
<1>4. low.level = 0 => ~low.active
  BY <1>1, <1>2, CallsQuiet
<1>5. conn.level > 1 => low.work = conn.work /\ (low.active <=> conn.active)
  BY <1>1, <1>2, SoftEnd
<1> HIDE DEF low
<1>6. Quiet'
  BY <1>3, <1>4 DEF Quiet
<1>7. /\ Chain'
      /\ call.base = 0 => IF stack' = <<>> THEN conn'.level = 0 ELSE conn'.level > 0
  BY ReturnFacts DEF AtomInv
<1>8. RowsInv'
  <2> SUFFICES ASSUME stack' # <<>>, call.base = 0
               PROVE  /\ conn'.active <=> conn'.level > 0
                      /\ WrittenBy(db, calls) = {}
                      /\ WrittenBy(conn'.work, calls) = wrote
    BY DEF RowsInv
  <2>1. conn'.level > 0
    BY <1>7
  <2>2. conn'.level = conn.level - 1
    BY <1>3
  <2>3. conn.level > 1
    <3>1. conn.level - 1 > 0
      BY <2>1, <2>2
    <3> QED
      BY <1>1, <3>1
  <2> QED
    BY <1>1, <1>3, <1>5, <2>1, <2>3 DEF AtomInv, RowsInv
<1>9. AllOrNothing'
  <2>1. result' = "false"
    BY DEF Return
  <2>2. call.base = 0 => WrittenBy(db, calls) = {}
    BY DEF AtomInv, RowsInv
  <2> QED
    BY <2>1, <2>2 DEF AllOrNothing, WrittenBy
<1> QED
  BY <1>6, <1>7, <1>8, <1>9 DEF AtomInv

\* A frame without a level of its own returns; what it wrote, if anything, it
\* wrote into the open transaction, or to the database when there is none.
LEMMA AloneAtom ==
    ASSUME AtomInv, LevelInv', stack # <<>>, UNCHANGED <<calls, call>>,
           NEW ret \in {"true", "false"}, Return(ret),
           conn'.level = conn.level, conn'.active <=> conn.active,
           \/ /\ conn'.work = conn.work /\ db' = db /\ wrote' = wrote
           \/ \E r \in Records :
                 /\ ret = "true" /\ wrote' = wrote \cup {r}
                 /\ IF conn.active
                    THEN conn'.work = conn.work \cup {<<r, calls>>} /\ db' = db
                    ELSE conn'.work = conn.work /\ db' = db \cup {<<r, calls>>}
    PROVE  AtomInv'
<1>1. DataInv
  BY DEF AtomInv, LevelInv, Inv
<1>2. Quiet'
  BY DEF AtomInv, Quiet
<1>3. /\ Chain'
      /\ call.base = 0 => IF stack' = <<>> THEN conn'.level = 0 ELSE conn'.level > 0
  BY ReturnFacts DEF AtomInv
<1>4. call.base = 0 => /\ conn.active <=> conn.level > 0
                       /\ WrittenBy(db, calls) = {}
                       /\ WrittenBy(conn.work, calls) = wrote
  BY DEF AtomInv, RowsInv
<1>5. RowsInv'
  <2> SUFFICES ASSUME stack' # <<>>, call.base = 0
               PROVE  /\ conn'.active <=> conn'.level > 0
                      /\ WrittenBy(db', calls) = {}
                      /\ WrittenBy(conn'.work, calls) = wrote'
    BY DEF RowsInv
  <2>1. conn'.active /\ conn'.level > 0 /\ conn.active
    BY <1>3, <1>4
  <2>2. CASE conn'.work = conn.work /\ db' = db /\ wrote' = wrote
    BY <1>4, <2>1, <2>2
  <2>3. ASSUME NEW r, wrote' = wrote \cup {r},
               conn'.work = conn.work \cup {<<r, calls>>}, db' = db
        PROVE  WrittenBy(db', calls) = {} /\ WrittenBy(conn'.work, calls) = wrote'
    <3>1. WrittenBy(conn.work \cup {<<r, calls>>}, calls)
            = WrittenBy(conn.work, calls) \cup WrittenBy({<<r, calls>>}, calls)
      <4> DEFINE before == conn.work
      <4> HIDE DEF before
      <4>1. WrittenBy(before \cup {<<r, calls>>}, calls)
              = WrittenBy(before, calls) \cup WrittenBy({<<r, calls>>}, calls)
        BY WrittenOf
      <4> QED
        BY <4>1 DEF before
    <3>2. WrittenBy({<<r, calls>>}, calls) = {r}
      BY WrittenOf
    <3> QED
      BY <1>4, <2>1, <2>3, <3>1, <3>2
  <2> QED
    BY <2>1, <2>2, <2>3
<1>6. AllOrNothing'
  <2> SUFFICES ASSUME stack' = <<>>, call.base = 0
               PROVE  WrittenBy(db', calls) = IF ret = "true" THEN wrote' ELSE {}
    <3>1. result' = ret
      BY DEF Return
    <3> QED
      BY <3>1 DEF AllOrNothing, Answered, WrittenBy
  <2>1. ~conn.active /\ conn.work = {}
    BY <1>1, <1>3, DataFacts DEF AtomInv, Quiet
  <2>2. wrote = {}
    BY <1>4, <2>1, WrittenOf
  <2>3. CASE conn'.work = conn.work /\ db' = db /\ wrote' = wrote
    BY <1>4, <2>2, <2>3
  <2>4. ASSUME NEW r, ret = "true", wrote' = wrote \cup {r}, db' = db \cup {<<r, calls>>}
        PROVE  WrittenBy(db', calls) = wrote'
    <3>1. WrittenBy(db \cup {<<r, calls>>}, calls)
            = WrittenBy(db, calls) \cup WrittenBy({<<r, calls>>}, calls)
      BY WrittenOf
    <3>2. WrittenBy({<<r, calls>>}, calls) = {r}
      BY WrittenOf
    <3> QED
      BY <1>4, <2>2, <2>4, <3>1, <3>2
  <2> QED
    BY <2>1, <2>3, <2>4
<1> QED
  BY <1>2, <1>3, <1>5, <1>6 DEF AtomInv

LEMMA AtomFacts ==
    ASSUME AtomInv
    PROVE  /\ DataInv /\ conn.level \in Nat /\ calls \in Nat
           /\ stack \in Seq(FrameType)
           /\ stack # <<>> => Top.rec \in Records /\ Top.rest \in SUBSET Records
           /\ "ok" \in Outcomes \ {"busy"}
<1>1. Inv /\ DataInv
  BY DEF AtomInv, LevelInv, Inv
<1>2. calls \in Nat
  BY <1>1, BoundsAssumption DEF Inv, CallInv
<1>3. stack \in Seq(FrameType)
  BY <1>1 DEF Inv
<1>4. "ok" \in Outcomes \ {"busy"}
  BY DEF Outcomes
<1> QED
  BY <1>1, <1>2, <1>3, <1>4, DataFacts, StackSteps

\* A frame that has begun and throws after rollback(false), or without it.
LEMMA ThrowQuiet ==
    ASSUME AtomInv, stack # <<>>,
           \/ conn' = conn
           \/ Top.pc \in OpenPcs /\ conn' = Rollback(conn, FALSE, "ok").conn
    PROVE  Quiet'
<1> DEFINE low == Rollback(conn, FALSE, "ok").conn
<1>1. CASE conn' = conn
  BY <1>1 DEF AtomInv, Quiet
<1>2. CASE Top.pc \in OpenPcs /\ conn' = low
  <2>1. conn.level > 0
    BY <1>2, OpenHasLevel DEF AtomInv
  <2>2. low.level = 0 => ~low.active
    BY <2>1, AtomFacts, CallsQuiet
  <2> HIDE DEF low
  <2> QED
    BY <1>2, <2>2 DEF Quiet
<1> QED
  BY <1>1, <1>2

LEMMA AtomSteps ==
    ASSUME AtomInv, LevelInv', NEW r \in Records
    PROVE  /\ StartAlone => AtomInv'
           /\ StartThrows => AtomInv'
           /\ RelationThrows => AtomInv'
           /\ SkipParent(r) => AtomInv'
           /\ SaveParent(r) => AtomInv'
           /\ SaveChild(r) => AtomInv'
           /\ ParentFailed => AtomInv'
           /\ ChildFailed => AtomInv'
           /\ OwnVetoed => AtomInv'
           /\ OwnThrows => AtomInv'
<1>1. "before" \in OpenPcs /\ "after" \in OpenPcs /\ "alone" \notin OpenPcs
  BY DEF OpenPcs
<1>2. StartAlone => AtomInv'
  <2> SUFFICES ASSUME StartAlone PROVE AtomInv'
    OBVIOUS
  <2>1. stack # <<>> /\ result' = "none" /\ UNCHANGED <<conn, db, wrote, calls, call>>
        /\ GoOn("alone", {}) /\ {} \in SUBSET Records
    BY DEF StartAlone, At, callVars
  <2> QED
    BY <2>1, GoingOn, UntouchedAtom DEF AtomInv
<1>3. StartThrows => AtomInv'
  BY ThrowQuiet, ThrowAtom DEF StartThrows, At
<1>4. RelationThrows => AtomInv'
  BY <1>1, ThrowQuiet, ThrowAtom DEF RelationThrows, At
<1>5. SkipParent(r) => AtomInv'
  <2> SUFFICES ASSUME SkipParent(r) PROVE AtomInv'
    OBVIOUS
  <2>1. stack # <<>> /\ result' = "none" /\ UNCHANGED <<conn, db, wrote, calls, call>>
        /\ GoOn("before", Top.rest \ {r})
    BY DEF SkipParent, At, callVars
  <2>2. Top.rest \ {r} \in SUBSET Records
    BY <2>1, AtomFacts
  <2> QED
    BY <2>1, <2>2, GoingOn, UntouchedAtom DEF AtomInv
<1>6. SaveParent(r) => AtomInv'
  <2> SUFFICES ASSUME SaveParent(r) PROVE AtomInv'
    OBVIOUS
  <2>1. stack # <<>> /\ result' = "none" /\ UNCHANGED <<conn, db, wrote, calls, call>>
        /\ Top.pc \in OpenPcs /\ stack' = Append(PutAside(r), Frame(r))
    BY <1>1 DEF SaveParent, At, PutAside, callVars
  <2> QED
    BY <2>1, GoingOn, UntouchedAtom DEF AtomInv
<1>7. SaveChild(r) => AtomInv'
  <2> SUFFICES ASSUME SaveChild(r) PROVE AtomInv'
    OBVIOUS
  <2>1. stack # <<>> /\ result' = "none" /\ UNCHANGED <<conn, db, wrote, calls, call>>
        /\ Top.pc \in OpenPcs /\ stack' = Append(PutAside(r), Frame(r))
    BY <1>1 DEF SaveChild, At, PutAside, callVars
  <2> QED
    BY <2>1, GoingOn, UntouchedAtom DEF AtomInv
<1>8. ParentFailed => AtomInv'
  BY <1>1, GiveUpAtom DEF ParentFailed, Fail, At, callVars
<1>9. ChildFailed => AtomInv'
  <2> SUFFICES ASSUME ChildFailed PROVE AtomInv'
    OBVIOUS
  <2>1. /\ stack # <<>> /\ Top.pc \in OpenPcs /\ Answer("false")
        /\ conn' = Rollback(conn, FALSE, "ok").conn
        /\ UNCHANGED <<db, wrote, calls, call>>
    BY <1>1 DEF ChildFailed, At, callVars
  <2> QED
    BY <2>1, GiveUpAtom, ThrowQuiet, ThrowAtom DEF Answer
<1>10. OwnVetoed => AtomInv'
  <2> SUFFICES ASSUME OwnVetoed PROVE AtomInv'
    OBVIOUS
  <2>1. /\ stack # <<>> /\ Top.pc \in {"alone", "before"}
        /\ UNCHANGED <<db, wrote, calls, call>>
        /\ conn' = IF Top.pc # "alone" THEN Rollback(conn, FALSE, "ok").conn ELSE conn
        /\ Throw \/ Return("false")
    BY DEF OwnVetoed, OwnTurn, At, Fail, Begun, callVars
  <2>2. CASE Throw
    BY <1>1, <2>1, <2>2, ThrowQuiet, ThrowAtom
  <2>3. CASE Return("false") /\ Top.pc = "before"
    BY <1>1, <2>1, <2>3, GiveUpAtom
  <2>4. CASE Return("false") /\ Top.pc = "alone"
    BY <2>1, <2>4, AloneAtom
  <2> QED
    BY <2>1, <2>2, <2>3, <2>4
<1>11. OwnThrows => AtomInv'
  BY ThrowQuiet, ThrowAtom DEF OwnThrows, OwnTurn, At
<1> QED
  BY <1>2, <1>3, <1>4, <1>5, <1>6, <1>7, <1>8, <1>9, <1>10, <1>11

LEMMA OwnUnchangedAtom ==
    ASSUME AtomInv, LevelInv', OwnUnchanged
    PROVE  AtomInv'
<1>1. /\ stack # <<>> /\ Top.pc \in {"alone", "before"} /\ OwnDone
      /\ UNCHANGED <<conn, db, wrote, calls, call>>
  BY DEF OwnUnchanged, OwnTurn, At, callVars
<1>2. CASE Top.pc = "alone"
  <2>1. Throw \/ Return("true")
    BY <1>1, <1>2 DEF OwnDone, Begun, Answer
  <2> QED
    BY <1>1, <2>1, AloneAtom, ThrowQuiet, ThrowAtom
<1>3. CASE Top.pc = "before"
  <2>1. GoOn("after", Children(Top.rec)) /\ result' = "none"
        /\ Children(Top.rec) \in SUBSET Records
    BY <1>3, <1>1 DEF OwnDone, Begun, Children
  <2> QED
    BY <1>1, <2>1, GoingOn, UntouchedAtom DEF AtomInv
<1> QED
  BY <1>1, <1>2, <1>3

LEMMA OwnWrittenAtom ==
    ASSUME AtomInv, LevelInv', NEW verdict, NEW outcome, OwnWritten(verdict, outcome)
    PROVE  AtomInv'
<1> DEFINE r   == Top.rec
           w   == Written(r, outcome)
           hit == w.ret = "true" /\ (Visible(r) \/ ~Exists(r))
           row == <<r, calls>>
<1>1. /\ stack # <<>> /\ Top.pc \in {"alone", "before"} /\ r \in Records
      /\ DataInv /\ calls \in Nat
  BY AtomFacts DEF OwnWritten, OwnTurn, At
<1>2. /\ w.conn.level = conn.level /\ w.ret \in Returns
      /\ w.ret # "true" => w.conn = conn /\ w.made = {}
  BY <1>1, WriteTyped
<1>3. /\ w.conn.active <=> conn.active
      /\ hit /\ conn.active => w.made = {} /\ w.conn.work = conn.work \cup {row}
      /\ hit /\ ~conn.active => w.made = {row} /\ w.conn.work = conn.work
      /\ ~hit => w.made = {} /\ w.conn = conn
  BY <1>1, WriteAdds
<1>4. /\ UNCHANGED <<calls, call>> /\ db' = db \cup w.made
      /\ wrote' = IF hit THEN wrote \cup {r} ELSE wrote
      /\ \/ w.ret = "throw" /\ conn' = w.conn /\ Throw
         \/ /\ w.ret = "false" /\ Answer("false")
            /\ conn' = IF Top.pc # "alone" THEN Rollback(w.conn, FALSE, "ok").conn
                                           ELSE w.conn
         \/ w.ret = "true" /\ conn' = w.conn /\ OwnDone
  BY <1>2 DEF OwnWritten, Begun, callVars, Returns
<1>5. hit => w.ret = "true"
  OBVIOUS
<1>6. "before" \in OpenPcs
  BY DEF OpenPcs
<1>7. conn.level \in Nat
  BY AtomFacts
<1> HIDE DEF r, w, hit, row
<1>8. CASE w.ret = "throw"
  BY <1>1, <1>2, <1>4, <1>8, ThrowQuiet, ThrowAtom
<1>9. CASE w.ret = "false"
  <2>1. w.conn = conn /\ db' = db /\ wrote' = wrote
    BY <1>2, <1>4, <1>5, <1>9
  <2>2. /\ Throw \/ Return("false")
        /\ conn' = IF Top.pc # "alone" THEN Rollback(conn, FALSE, "ok").conn ELSE conn
    BY <1>4, <1>9, <2>1 DEF Answer
  <2>3. CASE Throw
    BY <1>1, <1>6, <2>2, <2>3, ThrowQuiet, ThrowAtom
  <2>4. CASE Return("false") /\ Top.pc = "before"
    BY <1>1, <1>4, <1>6, <2>1, <2>2, <2>4, GiveUpAtom
  <2>5. CASE Return("false") /\ Top.pc = "alone"
    BY <1>1, <1>4, <2>1, <2>2, <2>5, AloneAtom
  <2> QED
    BY <1>1, <2>2, <2>3, <2>4, <2>5
<1>10. CASE w.ret = "true"
  <2>1. conn' = w.conn /\ OwnDone
    BY <1>4, <1>10
  <2>2. conn'.level = conn.level /\ (conn'.active <=> conn.active)
    BY <1>2, <1>3, <2>1
  <2>3. Quiet'
    BY <2>2 DEF AtomInv, Quiet
  <2>4. \/ conn'.work = conn.work /\ db' = db /\ wrote' = wrote
        \/ /\ wrote' = wrote \cup {r}
           /\ IF conn.active THEN conn'.work = conn.work \cup {row} /\ db' = db
                             ELSE conn'.work = conn.work /\ db' = db \cup {row}
    <3>1. CASE hit /\ conn.active
      BY <1>3, <1>4, <2>1, <3>1
    <3>2. CASE hit /\ ~conn.active
      BY <1>3, <1>4, <2>1, <3>2
    <3>3. CASE ~hit
      BY <1>3, <1>4, <2>1, <3>3
    <3> QED
      BY <3>1, <3>2, <3>3
  <2>5. CASE Top.pc = "alone"
    <3>1. Throw \/ Return("true")
      BY <2>1, <2>5 DEF OwnDone, Begun, Answer
    <3>2. CASE Throw
      BY <2>3, <3>2, ThrowAtom
    <3>3. CASE Return("true")
      BY <1>1, <1>4, <2>2, <2>4, <3>3, AloneAtom DEF row
    <3> QED
      BY <3>1, <3>2, <3>3
  <2>6. CASE Top.pc = "before"
    <3>1. GoOn("after", Children(Top.rec)) /\ result' = "none"
          /\ Children(Top.rec) \in SUBSET Records
      BY <2>1, <2>6 DEF OwnDone, Begun, Children
    <3>2. Chain' /\ stack' # <<>> /\ AllOrNothing'
      BY <1>1, <3>1, GoingOn DEF AtomInv
    <3>3. RowsInv'
      <4> SUFFICES ASSUME call.base = 0
                   PROVE  /\ conn'.active <=> conn'.level > 0
                          /\ WrittenBy(db', calls) = {}
                          /\ WrittenBy(conn'.work, calls) = wrote'
        BY <1>4 DEF RowsInv
      <4>1. /\ conn.active <=> conn.level > 0
            /\ WrittenBy(db, calls) = {}
            /\ WrittenBy(conn.work, calls) = wrote
        BY <1>1 DEF AtomInv, RowsInv
      <4>2. conn.level > 0
        BY <1>1, <1>6, <2>6, OpenHasLevel DEF AtomInv
      <4>3. CASE conn'.work = conn.work /\ db' = db /\ wrote' = wrote
        BY <2>2, <4>1, <4>3
      <4>4. CASE wrote' = wrote \cup {r} /\ conn'.work = conn.work \cup {row} /\ db' = db
        <5> DEFINE before == conn.work
        <5> HIDE DEF before
        <5>1. WrittenBy(before \cup {row}, calls)
                = WrittenBy(before, calls) \cup WrittenBy({row}, calls)
          BY WrittenOf
        <5>2. WrittenBy({row}, calls) = {r}
          BY WrittenOf DEF row
        <5> QED
          BY <2>2, <4>1, <4>4, <5>1, <5>2 DEF before
      <4> QED
        BY <2>4, <4>1, <4>2, <4>3, <4>4
    <3> QED
      BY <2>3, <3>2, <3>3 DEF AtomInv
  <2> QED
    BY <1>1, <2>5, <2>6
<1> QED
  BY <1>2, <1>8, <1>9, <1>10 DEF Returns

LEMMA StartRelatedAtom ==
    ASSUME AtomInv, LevelInv', NEW outcome \in Outcomes \ {"busy"}, StartRelated(outcome)
    PROVE  AtomInv'
<1> DEFINE b == Begin(conn, FALSE, outcome)
<1>1. /\ stack # <<>> /\ conn' = b.conn /\ UNCHANGED <<db, wrote, calls, call>>
      /\ IF b.ret = "throw" THEN Throw
         ELSE GoOn("before", Parents(Top.rec)) /\ result' = "none"
  BY DEF StartRelated, At, callVars
<1>2. DataInv /\ conn.level \in Nat /\ Quiet
  BY AtomFacts DEF AtomInv
<1>3. b.conn.level # 0 /\ b.conn.level = conn.level + 1
  BY <1>2, CallsQuiet, CallsCount
<1>4. b.ret # "throw" => /\ b.conn.active <=> (conn.active \/ conn.level = 0)
                         /\ b.conn.work = conn.work
  BY <1>2, SoftBegin
<1> HIDE DEF b
<1>5. Quiet'
  BY <1>1, <1>3 DEF Quiet
<1>6. CASE b.ret = "throw"
  BY <1>1, <1>5, <1>6, ThrowAtom
<1>7. CASE b.ret # "throw"
  <2>1. GoOn("before", Parents(Top.rec)) /\ result' = "none"
        /\ Parents(Top.rec) \in SUBSET Records
    BY <1>1, <1>7 DEF Parents
  <2>2. Chain' /\ AllOrNothing'
    BY <1>1, <2>1, GoingOn DEF AtomInv
  <2>3. RowsInv'
    <3> SUFFICES ASSUME call.base = 0
                 PROVE  /\ conn'.active <=> conn'.level > 0
                        /\ WrittenBy(db, calls) = {}
                        /\ WrittenBy(conn'.work, calls) = wrote
      BY <1>1 DEF RowsInv
    <3>1. /\ conn.active <=> conn.level > 0
          /\ WrittenBy(db, calls) = {}
          /\ WrittenBy(conn.work, calls) = wrote
      BY <1>1 DEF AtomInv, RowsInv
    <3>2. conn.level = 0 \/ conn.level > 0
      BY <1>2
    <3>3. conn'.active
      BY <1>1, <1>4, <1>7, <3>1, <3>2
    <3>4. b.conn.level > 0
      BY <1>2, <1>3
    <3> QED
      BY <1>1, <1>4, <1>7, <3>1, <3>3, <3>4
  <2> QED
    BY <1>5, <2>2, <2>3 DEF AtomInv
<1> QED
  BY <1>6, <1>7

LEMMA FinishRelatedAtom ==
    ASSUME AtomInv, LevelInv', NEW outcome \in Outcomes \ {"busy"}, FinishRelated(outcome)
    PROVE  AtomInv'
<1> DEFINE c == Commit(conn, FALSE, outcome)
<1>1. /\ stack # <<>> /\ Top.pc \in OpenPcs
      /\ conn' = c.conn /\ db' = db \cup c.made /\ UNCHANGED <<wrote, calls, call>>
      /\ Throw \/ (c.ret # "throw" /\ Answer("true"))
  BY DEF FinishRelated, At, callVars, OpenPcs
<1>2. DataInv /\ conn.level \in Nat /\ conn.level > 0
  BY <1>1, AtomFacts, OpenHasLevel DEF AtomInv
<1>3. c.conn.level = conn.level - 1 /\ (c.conn.level = 0 => ~c.conn.active)
  BY <1>2, CallsQuiet, CallsCount
<1>4. /\ conn.level > 1 => /\ c.made = {} /\ c.conn.work = conn.work
                           /\ c.conn.active <=> conn.active
      /\ conn.level = 1 /\ conn.active /\ c.ret # "throw" => c.made = conn.work
  BY <1>2, SoftEnd
<1> HIDE DEF c
<1>5. Quiet'
  BY <1>1, <1>3 DEF Quiet
<1>6. CASE Throw
  BY <1>5, <1>6, ThrowAtom
<1>7. CASE c.ret # "throw" /\ Return("true")
  <2>1. /\ Chain'
        /\ call.base = 0 => IF stack' = <<>> THEN conn'.level = 0 ELSE conn'.level > 0
    BY <1>1, <1>7, ReturnFacts DEF AtomInv
  <2>2. call.base = 0 => /\ conn.active <=> conn.level > 0
                         /\ WrittenBy(db, calls) = {}
                         /\ WrittenBy(conn.work, calls) = wrote
    BY <1>1 DEF AtomInv, RowsInv
  <2>3. RowsInv'
    <3> SUFFICES ASSUME stack' # <<>>, call.base = 0
                 PROVE  /\ conn'.active <=> conn'.level > 0
                        /\ WrittenBy(db', calls) = {}
                        /\ WrittenBy(conn'.work, calls) = wrote
      BY <1>1 DEF RowsInv
    <3>1. conn'.level > 0
      BY <2>1
    <3>2. conn.level > 1
      <4>1. conn.level - 1 > 0
        BY <1>1, <1>3, <3>1
      <4> QED
        BY <1>2, <4>1
    <3>3. db' = db
      BY <1>1, <1>4, <3>2
    <3> QED
      BY <1>1, <1>2, <1>4, <2>2, <3>1, <3>2, <3>3
  <2>4. AllOrNothing'
    <3> SUFFICES ASSUME stack' = <<>>, call.base = 0
                 PROVE  WrittenBy(db', calls) = wrote
      <4>1. result' = "true"
        BY <1>7 DEF Return
      <4> QED
        BY <1>1, <4>1 DEF AllOrNothing, Answered, WrittenBy
    <3>1. c.conn.level = 0
      BY <1>1, <2>1
    <3>2. conn.level = 1
      BY <1>2, <1>3, <3>1
    <3>3. db' = db \cup conn.work
      BY <1>1, <1>2, <1>4, <1>7, <2>2, <3>2
    <3> DEFINE before == conn.work
    <3> HIDE DEF before
    <3>4. WrittenBy(db \cup before, calls) = WrittenBy(db, calls) \cup WrittenBy(before, calls)
      BY WrittenOf
    <3> QED
      BY <2>2, <3>3, <3>4 DEF before
  <2> QED
    BY <1>5, <2>1, <2>3, <2>4 DEF AtomInv
<1> QED
  BY <1>1, <1>6, <1>7 DEF Answer

LEMMA SaveAtom ==
    ASSUME AtomInv, LevelInv', NEW r \in Records, Save(r)
    PROVE  AtomInv'
<1>1. /\ stack' = <<Frame(r)>> /\ conn' = conn /\ db' = db /\ calls' = calls + 1
      /\ wrote' = {} /\ result' = "none" /\ call'.base = conn.level
  BY DEF Save
<1>2. DataInv /\ calls \in Nat /\ Quiet
  BY AtomFacts DEF AtomInv
<1>3. Quiet'
  BY <1>1, <1>2 DEF Quiet
<1>4. Chain'
  <2>1. Len(stack') = 1
    BY <1>1
  <2>2. 1 .. Len(stack') - 1 = {}
    BY <2>1
  <2> QED
    BY <2>2 DEF Chain
<1>5. \A S \in Work(calls) : WrittenBy(S, calls + 1) = {}
  <2> SUFFICES ASSUME NEW S \in Work(calls), NEW x \in S, x[2] = calls + 1
               PROVE  FALSE
    BY DEF WrittenBy
  <2>1. x[2] \in 0 .. calls
    BY DEF Work, Effects
  <2> QED
    BY <1>2, <2>1
<1>6. RowsInv'
  <2> SUFFICES ASSUME conn.level = 0
               PROVE  /\ conn.active <=> conn.level > 0
                      /\ WrittenBy(db, calls + 1) = {}
                      /\ WrittenBy(conn.work, calls + 1) = {}
    BY <1>1 DEF RowsInv
  <2>1. ~conn.active /\ conn.work = {} /\ ~(conn.level > 0)
    BY <1>2, DataFacts DEF Quiet
  <2>2. db \in Work(calls)
    BY <1>2 DEF DataInv
  <2> QED
    BY <1>5, <2>1, <2>2, WrittenOf
<1>7. AllOrNothing'
  BY <1>1 DEF AllOrNothing, Answered
<1> QED
  BY <1>3, <1>4, <1>6, <1>7 DEF AtomInv

LEMMA ApplicationAtom ==
    ASSUME AtomInv, LevelInv', AppBegin \/ AppCommit \/ AppRollback
    PROVE  AtomInv'
<1>1. stack' = <<>> /\ result' = "none"
  BY DEF AppBegin, AppCommit, AppRollback, AppCalls
<1>2. DataInv /\ "ok" \in Outcomes \ {"busy"}
  BY AtomFacts
<1>3. Quiet'
  BY <1>2, CallsQuiet DEF AppBegin, AppCommit, AppRollback, AppCalls, Quiet
<1>4. Chain'
  BY <1>1, Len(<<>>) = 0 DEF Chain
<1>5. RowsInv' /\ AllOrNothing'
  BY <1>1 DEF RowsInv, AllOrNothing, Answered
<1> QED
  BY <1>3, <1>4, <1>5 DEF AtomInv

LEMMA NextAtom ==
    ASSUME "busy" \notin Faults
    PROVE  AtomInv /\ [Next]_vars => AtomInv'
<1> SUFFICES ASSUME AtomInv, [Next]_vars PROVE AtomInv'
  OBVIOUS
<1>1. LevelInv'
  BY NextLevel DEF AtomInv
<1>2. Outcome \subseteq Outcomes \ {"busy"}
  BY ChoicesAssumption DEF Outcome, Outcomes
<1>3. CASE \E r \in Records : Save(r)
  BY <1>1, <1>3, SaveAtom
<1>4. CASE Step
  <2>1. PICK r \in Records : TRUE
    BY <1>4, AtomFacts
       DEF Step, StartAlone, StartThrows, RelationThrows, ParentFailed, ChildFailed,
           StartRelated, FinishRelated, OwnVetoed, OwnThrows, OwnUnchanged, OwnWritten,
           OwnTurn, At
  <2>2. CASE \E outcome \in Outcome : StartRelated(outcome) \/ FinishRelated(outcome)
    BY <1>1, <1>2, <2>2, StartRelatedAtom, FinishRelatedAtom
  <2>3. CASE \E x \in Records : SkipParent(x) \/ SaveParent(x) \/ SaveChild(x)
    BY <1>1, <2>3, AtomSteps
  <2>4. CASE \E verdict \in Verdicts, outcome \in Outcome : OwnWritten(verdict, outcome)
    BY <1>1, <2>4, OwnWrittenAtom
  <2>5. CASE \/ StartAlone \/ StartThrows \/ RelationThrows \/ ParentFailed
             \/ ChildFailed \/ OwnVetoed \/ OwnThrows
    BY <1>1, <2>1, <2>5, AtomSteps
  <2> QED
    BY <1>1, <1>4, <2>2, <2>3, <2>4, <2>5, OwnUnchangedAtom DEF Step
<1>5. CASE AppBegin \/ AppCommit \/ AppRollback
  BY <1>1, <1>5, ApplicationAtom
<1>6. CASE UNCHANGED vars
  BY <1>1, <1>6 DEF vars, AtomInv, Quiet, Chain, RowsInv, AllOrNothing, Answered
<1> QED
  BY <1>3, <1>4, <1>5, <1>6 DEF Next

LEMMA InitAtom == Init => AtomInv
<1> SUFFICES ASSUME Init PROVE AtomInv
  OBVIOUS
<1>1. stack = <<>> /\ result = "none"
  BY DEF Init
<1>2. LevelInv
  BY <1>1, InitInv DEF LevelInv, Answered
<1>3. ~conn.active
  BY DEF Init, Connect, Closed, Idle, Result
<1>4. Chain
  BY <1>1, Len(<<>>) = 0 DEF Chain
<1> QED
  BY <1>1, <1>2, <1>3, <1>4 DEF AtomInv, Quiet, RowsInv, AllOrNothing, Answered

\* Outside a transaction of the application, what one save() wrote, of the
\* record and of all that is attached to it at any depth, is durable when it
\* answers true, and none of it is when it answers false; a server that refuses
\* COMMIT must have ended the transaction.
THEOREM AtomicCorrect ==
    ASSUME "busy" \notin Faults
    PROVE  Spec => []AllOrNothing
<1>1. Init => AtomInv
  BY InitAtom
<1>2. AtomInv => AllOrNothing
  BY DEF AtomInv
<1>3. AtomInv /\ [Next]_vars => AtomInv'
  BY NextAtom
<1> QED
  BY <1>1, <1>2, <1>3, PTL DEF Spec

----------------------------------------------------------------------------
(* Nothing of a graph before the end of its call *)

\* While a call runs, only the statement of a record and the COMMIT at the end
\* of its frame make an effect durable.
LEMMA WhatIsDurable ==
    ASSUME Next, stack # <<>>, db' # db
    PROVE  /\ UNCHANGED <<calls, call>>
           /\ \/ \E verdict \in Verdicts, outcome \in Outcome : OwnWritten(verdict, outcome)
              \/ \E outcome \in Outcome : FinishRelated(outcome)
<1>1. Step
  BY DEF Next, Save, AppBegin, AppCommit, AppRollback, AppCalls
<1>2. UNCHANGED <<calls, call>>
  BY <1>1 DEF Step, StartAlone, StartThrows, RelationThrows, ParentFailed, ChildFailed,
              StartRelated, FinishRelated, OwnVetoed, OwnThrows, OwnUnchanged, OwnWritten,
              SkipParent, SaveParent, SaveChild, callVars
<1>3. \A outcome : ~StartRelated(outcome)
  BY DEF StartRelated
<1>4. \A r : ~SkipParent(r) /\ ~SaveParent(r) /\ ~SaveChild(r)
  BY DEF SkipParent, SaveParent, SaveChild
<1>5. /\ ~StartAlone /\ ~StartThrows /\ ~RelationThrows /\ ~ParentFailed /\ ~ChildFailed
      /\ ~OwnVetoed /\ ~OwnThrows /\ ~OwnUnchanged
  BY DEF StartAlone, StartThrows, RelationThrows, ParentFailed, ChildFailed, Fail,
         OwnVetoed, OwnThrows, OwnUnchanged
<1> QED BY <1>1, <1>2, <1>3, <1>4, <1>5 DEF Step

\* A statement outside a transaction is that of a record with nothing attached,
\* and the first and the last of its call.
LEMMA OwnWrittenDurable ==
    ASSUME AtomInv, AtomInv', NEW verdict, NEW outcome, OwnWritten(verdict, outcome),
           call.base = 0, db' # db
    PROVE  stack' = <<>> /\ WrittenBy(db', calls) = wrote'
<1> DEFINE r   == Top.rec
           w   == Written(r, outcome)
           hit == w.ret = "true" /\ (Visible(r) \/ ~Exists(r))
           row == <<r, calls>>
<1>1. /\ stack # <<>> /\ r \in Records /\ DataInv /\ UNCHANGED <<calls, call>>
      /\ db' = db \cup w.made /\ wrote' = IF hit THEN wrote \cup {r} ELSE wrote
  BY AtomFacts DEF OwnWritten, OwnTurn, At, callVars
<1>2. /\ hit /\ conn.active => w.made = {}
      /\ hit /\ ~conn.active => w.made = {row}
      /\ ~hit => w.made = {}
  BY <1>1, WriteAdds
<1>3. /\ WrittenBy(db, calls) = {}
      /\ WrittenBy(conn.work, calls) = wrote
      /\ ~conn.active => conn.work = {}
  BY <1>1, DataFacts DEF AtomInv, RowsInv
<1>4. stack' # <<>> => WrittenBy(db', calls) = {}
  <2>1. stack' # <<>> /\ call'.base = 0 => WrittenBy(db', calls') = {}
    BY DEF AtomInv, RowsInv
  <2> QED BY <1>1, <2>1
<1> HIDE DEF r, w, hit, row
<1>5. db' = db \cup {row} /\ wrote' = wrote \cup {r} /\ ~conn.active
  BY <1>1, <1>2
<1>6. wrote = {}
  BY <1>3, <1>5, WrittenOf
<1>7. WrittenBy(db', calls) = {r}
  <2>1. WrittenBy({row}, calls) = {r}
    BY WrittenOf DEF row
  <2>2. WrittenBy(db \cup {row}, calls) = WrittenBy(db, calls) \cup WrittenBy({row}, calls)
    BY WrittenOf
  <2> QED BY <1>3, <1>5, <2>1, <2>2
<1> QED BY <1>4, <1>5, <1>6, <1>7

\* A COMMIT that the server sees is that of the outermost frame.
LEMMA FinishRelatedDurable ==
    ASSUME AtomInv, LevelInv', NEW outcome \in Outcomes \ {"busy"}, FinishRelated(outcome),
           call.base = 0, db' # db
    PROVE  stack' = <<>> /\ WrittenBy(db', calls) = wrote'
<1> DEFINE c == Commit(conn, FALSE, outcome)
<1>1. /\ stack # <<>> /\ Top.pc \in OpenPcs
      /\ conn' = c.conn /\ db' = db \cup c.made /\ UNCHANGED <<wrote, calls, call>>
      /\ Throw \/ (c.ret # "throw" /\ Answer("true"))
  BY DEF FinishRelated, At, callVars, OpenPcs
<1>2. DataInv /\ conn.level \in Nat /\ conn.level > 0
  BY <1>1, AtomFacts, OpenHasLevel DEF AtomInv
<1>3. c.conn.level = conn.level - 1
  BY <1>2, CallsCount
<1>4. /\ conn.level > 1 => c.made = {}
      /\ conn.level = 1 /\ conn.active /\ c.ret # "throw" => c.made = conn.work
  BY <1>2, SoftEnd
<1>5. conn.level = 1 /\ c.ret = "throw" => c.made = {}
  <2> DEFINE low == Shallower(conn)
  <2>1. conn.level = 1 => c = ServerCommit(low, outcome)
    BY <1>2, DataFacts DEF Commit
  <2>2. low.active \in BOOLEAN
    BY <1>2, DataFacts DEF Shallower, ConnectionOf
  <2> HIDE DEF low
  <2>3. \/ ServerCommit(low, outcome) = Result(low, {}, "throw")
        \/ ServerCommit(low, outcome) = Result(Idle(low), low.work, "true")
        \/ ServerCommit(low, outcome) = Result(Idle(low), {}, "throw")
    BY <2>2 DEF ServerCommit, Outcomes
  <2>4. ServerCommit(low, outcome).ret = "throw" => ServerCommit(low, outcome).made = {}
    BY <2>3 DEF Result
  <2> HIDE DEF c
  <2> QED BY <2>1, <2>4
<1>6. /\ conn.active <=> conn.level > 0
      /\ WrittenBy(db, calls) = {}
      /\ WrittenBy(conn.work, calls) = wrote
  BY <1>1 DEF AtomInv, RowsInv
<1> HIDE DEF c
<1>7. conn.level = 1 /\ c.made = conn.work
  <2>1. conn.level = 1 \/ conn.level > 1
    BY <1>2
  <2> QED BY <1>1, <1>2, <1>4, <1>5, <1>6, <2>1
<1>8. stack' = <<>>
  <2>1. CASE Throw
    BY <2>1 DEF Throw
  <2>2. CASE Return("true")
    <3>1. call.base = 0 => IF stack' = <<>> THEN conn'.level = 0 ELSE conn'.level > 0
      BY <1>1, <2>2, ReturnFacts DEF AtomInv
    <3>2. conn'.level = 0
      BY <1>1, <1>3, <1>7
    <3> QED BY <3>1, <3>2
  <2> QED BY <1>1, <2>1, <2>2 DEF Answer
<1>9. WrittenBy(db', calls) = wrote'
  <2> DEFINE before == conn.work
  <2> HIDE DEF before
  <2>1. WrittenBy(db \cup before, calls) = WrittenBy(db, calls) \cup WrittenBy(before, calls)
    BY WrittenOf
  <2> QED BY <1>1, <1>6, <1>7, <2>1 DEF before
<1> QED BY <1>8, <1>9

\* Outside a transaction of the application, no record makes part of a graph
\* durable: the database changes only in the step that ends the call, and then
\* by all that the call wrote; a server that refuses COMMIT must have ended the
\* transaction.
THEOREM DurableCorrect ==
    ASSUME "busy" \notin Faults
    PROVE  Spec => DurableAtOnce
<1>1. AtomInv /\ [Next]_vars =>
         [stack # <<>> /\ call.base = 0 /\ db' # db =>
             /\ stack' = <<>>
             /\ {e[1] : e \in {x \in db' : x[2] = calls}} = wrote']_vars
  <2> SUFFICES ASSUME AtomInv, [Next]_vars, ~UNCHANGED vars,
                      stack # <<>>, call.base = 0, db' # db
               PROVE  stack' = <<>> /\ WrittenBy(db', calls) = wrote'
    BY DEF WrittenBy
  <2>1. AtomInv' /\ LevelInv'
    BY NextAtom DEF AtomInv
  <2>2. Outcome \subseteq Outcomes \ {"busy"}
    BY ChoicesAssumption DEF Outcome, Outcomes
  <2>3. Next
    OBVIOUS
  <2> QED BY <2>1, <2>2, <2>3, WhatIsDurable, OwnWrittenDurable, FinishRelatedDurable
<1>2. Init => AtomInv
  BY InitAtom
<1>3. AtomInv /\ [Next]_vars => AtomInv'
  BY NextAtom
<1> QED BY <1>1, <1>2, <1>3, PTL DEF Spec, DurableAtOnce

----------------------------------------------------------------------------
(* References *)

\* What the transaction methods can do to the work without savepoints: begin()
\* leaves it, commit() keeps it, makes it durable or loses it, rollback() keeps
\* it or drops it.
LEMMA WorkEnds ==
    ASSUME DataInv, ~conn.savepoints, NEW nesting, NEW outcome \in Outcomes
    PROVE  /\ LET r == Begin(conn, nesting, outcome)
              IN  r.made = {} /\ r.conn.work = conn.work
           /\ LET r == Commit(conn, nesting, outcome)
              IN  \/ r.made = {} /\ r.conn.work \in {conn.work, {}}
                  \/ r.made = conn.work /\ r.conn.work = {}
           /\ LET r == Rollback(conn, nesting, outcome)
              IN  /\ r.made = {} /\ r.conn.work \in {conn.work, {}}
                  /\ conn.level > 1 => r.conn.work = conn.work
<1>1. /\ conn.open /\ conn.level \in Nat /\ conn \in ConnectionOf(Work(calls))
      /\ ~conn.active => conn.work = {}
      /\ ~UsesSavepoint(conn, nesting)
  BY DataFacts DEF UsesSavepoint
<1> DEFINE up == Deeper(conn)
           low == Shallower(conn)
           begun == [Idle(up) EXCEPT !.active = TRUE]
<1>2. /\ up.work = conn.work /\ (up.active <=> conn.active)
      /\ low.work = conn.work /\ (low.active <=> conn.active)
      /\ begun.work = {} /\ Idle(low).work = {}
  BY <1>1 DEF ConnectionOf, Deeper, Shallower, Idle
<1>3. \A c, made, ret : Result(c, made, ret).conn = c /\ Result(c, made, ret).made = made
  BY DEF Result
<1>4. Begin(conn, nesting, outcome) \in
         {ServerBegin(up, outcome), Result(up, {}, "false")}
  BY <1>1 DEF Begin
<1>5. \/ conn.level = 0 /\ Commit(conn, nesting, outcome) = Result(conn, {}, "throw")
      \/ conn.level = 1 /\ Commit(conn, nesting, outcome) = ServerCommit(low, outcome)
      \/ conn.level > 1 /\ Commit(conn, nesting, outcome) = Result(low, {}, "false")
  BY <1>1 DEF Commit
<1>6. \/ conn.level = 0 /\ Rollback(conn, nesting, outcome) = Result(conn, {}, "throw")
      \/ conn.level = 1 /\ Rollback(conn, nesting, outcome) = ServerRollback(low, outcome)
      \/ conn.level > 1 /\ Rollback(conn, nesting, outcome) = Result(low, {}, "false")
  BY <1>1 DEF Rollback
<1>7. \/ ServerBegin(up, outcome) = Result(up, {}, "throw")
      \/ ~up.active /\ ServerBegin(up, outcome) = Result(begun, {}, "true")
  BY DEF ServerBegin
<1>8. ServerCommit(low, outcome) \in
         {Result(low, {}, "throw"), Result(Idle(low), low.work, "true"),
          Result(Idle(low), {}, "throw")}
  <2>1. low.active \/ ~low.active
    OBVIOUS
  <2> QED BY <2>1 DEF ServerCommit, Outcomes
<1>9. ServerRollback(low, outcome) \in {Result(Idle(low), {}, "true"), Result(low, {}, "throw")}
  BY DEF ServerRollback
<1> HIDE DEF up, low, begun
<1>10. LET r == Begin(conn, nesting, outcome)
       IN  r.made = {} /\ r.conn.work = conn.work
  <2>1. /\ Result(up, {}, "throw").conn = up /\ Result(up, {}, "throw").made = {}
        /\ Result(up, {}, "false").conn = up /\ Result(up, {}, "false").made = {}
        /\ Result(begun, {}, "true").conn = begun /\ Result(begun, {}, "true").made = {}
    BY <1>3
  <2> QED BY <1>1, <1>2, <1>4, <1>7, <2>1
<1>11. LET r == Commit(conn, nesting, outcome)
       IN  \/ r.made = {} /\ r.conn.work \in {conn.work, {}}
           \/ r.made = conn.work /\ r.conn.work = {}
  BY <1>2, <1>3, <1>5, <1>8
<1>12. LET r == Rollback(conn, nesting, outcome)
       IN  /\ r.made = {} /\ r.conn.work \in {conn.work, {}}
           /\ conn.level > 1 => r.conn.work = conn.work
  BY <1>1, <1>2, <1>3, <1>6, <1>9
<1> QED BY <1>10, <1>11, <1>12

\* The records with a row among the effects.
Seen(effects) == {e[1] : e \in effects}
Rows == Seen(db \cup conn.work)
Refs(r) == Parents(r) \cup Joined(r)

\* The foreign keys of the first call lead to rows.
RefsIn(effects) == \A e \in effects : e[2] = 1 => Refs(e[1]) \subseteq Seen(effects)

\* While the first save() runs: a record that counts as persistent has a row,
\* and so has all that is attached to one that is saved.
Known(rows) ==
    /\ \A r \in Records : dirtyState[r] = "persistent" => r \in rows
    /\ \A r \in Records \ (pending \cup cached) : Attached(r) \subseteq rows

\* What a frame has dealt with has a row, but for what the frame above is
\* saving or the call that failed.
FrameOk(f, rows, above) ==
    /\ Joined(f.rec) \subseteq rows
    /\ f.pc = "alone" => Attached(f.rec) \subseteq rows
    /\ f.pc = "before" => /\ f.rest \subseteq Parents(f.rec)
                          /\ Parents(f.rec) \subseteq f.rest \cup rows \cup above
    /\ f.pc = "after" => /\ f.rest \subseteq Children(f.rec)
                         /\ f.rec \in rows /\ Parents(f.rec) \subseteq rows
                         /\ Children(f.rec) \subseteq f.rest \cup rows \cup above
Failing(ret) == IF ret = "false" THEN Records ELSE {}
Above(s, ret, i) == IF i < Len(s) THEN {s[i + 1].rec} ELSE Failing(ret)
StackOk(s, ret, rows) ==
    /\ s[1].rec = call.rec
    /\ \A i \in 1 .. Len(s) : FrameOk(s[i], rows, Above(s, ret, i))

Stored(r, rows) == {r} \cup Attached(r) \subseteq rows

EffectsOk == ~conn.savepoints /\ RefsIn(db) /\ RefsIn(db \cup conn.work)

RefInv ==
    /\ LevelInv /\ Chain /\ EffectsOk
    /\ calls = 0 => stack = <<>> /\ Known(Seen(db)) /\ pending \cup cached = Records
    /\ calls = 1 /\ stack # <<>> => Known(Rows) /\ StackOk(stack, result, Rows)
    /\ Answered /\ calls = 1 /\ result = "true" => Stored(call.rec, Rows)

LEMMA SeenOf ==
    /\ Seen({}) = {}
    /\ \A S, T : Seen(S \cup T) = Seen(S) \cup Seen(T)
    /\ \A r, n : Seen({<<r, n>>}) = {r}
<1>1. Seen({}) = {} /\ \A S, T : Seen(S \cup T) = Seen(S) \cup Seen(T)
  BY DEF Seen
<1>2. ASSUME NEW r, NEW n
      PROVE  Seen({<<r, n>>}) = {r}
  <2> DEFINE e == <<r, n>>
  <2>1. e[1] = r
    OBVIOUS
  <2> HIDE DEF e
  <2>2. {x[1] : x \in {e}} = {r}
    BY <2>1
  <2> QED BY <2>2 DEF Seen, e
<1> QED BY <1>1, <1>2

LEMMA RowsSeen ==
    ASSUME NEW r
    PROVE  Visible(r) <=> r \in Rows
BY DEF Visible, RowsOf, Rows, Seen

\* A row joins the effects.
LEMMA RefsGrow ==
    ASSUME NEW E, RefsIn(E), NEW r, NEW n, n = 1 => Refs(r) \subseteq Seen(E)
    PROVE  RefsIn(E \cup {<<r, n>>})
<1> DEFINE row == <<r, n>>
<1>1. row[1] = r /\ row[2] = n
  OBVIOUS
<1> HIDE DEF row
<1>2. Seen(E) \subseteq Seen(E \cup {row})
  BY SeenOf
<1> SUFFICES ASSUME NEW e \in E \cup {row}, e[2] = 1
             PROVE  Refs(e[1]) \subseteq Seen(E \cup {row})
  BY DEF RefsIn, row
<1>3. Refs(e[1]) \subseteq Seen(E)
  BY <1>1 DEF RefsIn
<1> QED BY <1>2, <1>3

\* More rows are as good.
LEMMA FrameGrow ==
    ASSUME NEW f, NEW rows, NEW more, rows \subseteq more, NEW above, NEW wide,
           above \subseteq more \cup wide, FrameOk(f, rows, above)
    PROVE  FrameOk(f, more, wide)
BY DEF FrameOk

\* What has to hold of the stack after a step of the first call.
NextStack(more) ==
    /\ stack' # <<>> => StackOk(stack', result', more)
    /\ stack' = <<>> /\ result' = "true" => Stored(call.rec, more)

MovedFrame(pc, rest) == [[Top EXCEPT !.pc = pc] EXCEPT !.rest = rest]

LEMMA MovedFields ==
    ASSUME stack \in Seq(FrameType), stack # <<>>, NEW pc, NEW rest
    PROVE  LET f == MovedFrame(pc, rest)
           IN  f.rec = Top.rec /\ f.pc = pc /\ f.rest = rest
<1>1. Top \in FrameType
  BY BelowTop
<1> QED BY <1>1 DEF FrameType, MovedFrame

LEMMA MovedTo ==
    ASSUME stack \in Seq(FrameType), stack # <<>>, NEW pc, NEW rest
    PROVE  /\ Len(GoneOn(pc, rest)) = Len(stack)
           /\ GoneOn(pc, rest)[Len(stack)] = MovedFrame(pc, rest)
           /\ \A i \in 1 .. Len(stack) - 1 : GoneOn(pc, rest)[i] = stack[i]
           /\ GoneOn(pc, rest) # <<>>
<1> DEFINE n == Len(stack)
           s == GoneOn(pc, rest)
<1>1. n \in Nat \ {0} /\ Top = stack[n] /\ Top \in FrameType
  BY BelowTop
<1>2. DOMAIN stack = 1 .. n
  OBVIOUS
<1> DEFINE frame == MovedFrame(pc, rest)
<1>3. s = [stack EXCEPT ![n] = frame]
  BY <1>1, <1>2 DEF GoneOn, MovedFrame
<1> HIDE DEF frame
<1>5. DOMAIN s = 1 .. n /\ s[n] = frame
  BY <1>1, <1>2, <1>3
<1>6. \A i \in 1 .. n - 1 : s[i] = stack[i]
  <2> HIDE DEF n, s
  <2> QED BY <1>1, <1>2, <1>3
<1>7. Len(s) = n
  BY <1>1, <1>3
<1> HIDE DEF s
<1>8. s # <<>>
  BY <1>1, <1>7, Len(<<>>) = 0
<1> QED BY <1>5, <1>6, <1>7, <1>8 DEF s, frame

LEMMA GoesOnOk ==
    ASSUME stack \in Seq(FrameType), stack # <<>>, NEW rows, StackOk(stack, result, rows),
           NEW more, rows \subseteq more, NEW pc, NEW rest, GoOn(pc, rest), result' = "none",
           FrameOk(MovedFrame(pc, rest), more, {})
    PROVE  NextStack(more)
<1> DEFINE n == Len(stack)
           s == GoneOn(pc, rest)
<1>1. n \in Nat \ {0} /\ Top = stack[n]
  BY BelowTop
<1>2. /\ Len(s) = n /\ s[n] = MovedFrame(pc, rest) /\ s # <<>>
      /\ \A i \in 1 .. n - 1 : s[i] = stack[i]
  BY MovedTo
<1>3. stack' = s
  BY DEF GoOn, GoneOn
<1> HIDE DEF s
<1>4. \A i \in 1 .. n : s[i].rec = stack[i].rec
  <2>1. s[n].rec = stack[n].rec
    BY <1>1, <1>2, MovedFields
  <2> HIDE DEF n
  <2> QED
    BY <1>1, <1>2, <2>1
<1>5. ASSUME NEW i \in 1 .. n
      PROVE  FrameOk(s[i], more, Above(s, "none", i))
  <2>1. CASE i = n
    BY <1>1, <1>2, <2>1 DEF Above, Failing
  <2>2. CASE i < n
    <3>1. i \in 1 .. n - 1 /\ i + 1 \in 1 .. n
      BY <1>1, <2>2
    <3>2. Above(s, "none", i) = Above(stack, result, i)
      BY <1>2, <1>4, <2>2, <3>1 DEF Above
    <3>3. FrameOk(stack[i], rows, Above(stack, result, i))
      BY DEF StackOk
    <3> QED BY <1>2, <3>1, <3>2, <3>3, FrameGrow
  <2> QED BY <1>1, <2>1, <2>2
<1>6. s[1].rec = call.rec
  BY <1>1, <1>4 DEF StackOk
<1>7. StackOk(s, "none", more)
  BY <1>2, <1>5, <1>6 DEF StackOk
<1> QED BY <1>2, <1>3, <1>7 DEF NextStack

LEMMA NestsOk ==
    ASSUME stack \in Seq(FrameType), stack # <<>>, NEW rows, StackOk(stack, result, rows),
           result # "false", NEW more, rows \subseteq more, NEW r, r \in Top.rest,
           stack' = Append(PutAside(r), Frame(r)), result' = "none", Joined(r) \subseteq more
    PROVE  NextStack(more)
<1> DEFINE n == Len(stack)
           rest == Top.rest \ {r}
           low == GoneOn(Top.pc, rest)
           s == stack'
<1>1. n \in Nat \ {0} /\ Top = stack[n] /\ Top \in FrameType
  BY BelowTop
<1>2. /\ Len(low) = n /\ low[n] = MovedFrame(Top.pc, rest)
      /\ \A i \in 1 .. n - 1 : low[i] = stack[i]
  BY MovedTo
<1>3. low \in Seq(FrameType) /\ s = Append(low, Frame(r))
  <2>1. rest \in SUBSET Records /\ Top.pc \in {"start", "alone", "before", "after"}
    BY <1>1 DEF FrameType
  <2> QED BY <2>1, Moved, PutAsideIsMove
<1> HIDE DEF low
<1>4. \A i \in 1 .. n : low[i].rec = stack[i].rec
  <2>1. low[n].rec = stack[n].rec
    BY <1>1, <1>2, MovedFields
  <2> HIDE DEF n
  <2> QED
    BY <1>1, <1>2, <2>1
<1>5. /\ Len(s) = n + 1 /\ s[n + 1] = Frame(r) /\ \A i \in 1 .. n : s[i] = low[i]
      /\ s # <<>>
  BY <1>1, <1>2, <1>3
<1> HIDE DEF s, n
<1>6. FrameOk(MovedFrame(Top.pc, rest), more, {r})
  <2>1. FrameOk(Top, rows, {})
    <3>1. FrameOk(stack[n], rows, Above(stack, result, n))
      BY <1>1 DEF StackOk, n
    <3>2. Above(stack, result, n) = {}
      BY <1>1 DEF Above, Failing, n
    <3> QED BY <1>1, <3>1, <3>2
  <2> QED BY <2>1, MovedFields DEF FrameOk
<1>7. FrameOk(Frame(r), more, {})
  BY DEF FrameOk, Frame
<1>8. ASSUME NEW i \in 1 .. n + 1
      PROVE  FrameOk(s[i], more, Above(s, "none", i))
  <2>1. CASE i = n + 1
    <3>1. Above(s, "none", i) = {}
      BY <1>1, <1>5, <2>1 DEF Above, Failing
    <3> QED BY <1>5, <1>7, <2>1, <3>1
  <2>2. CASE i = n
    <3>1. Above(s, "none", i) = {r}
      BY <1>1, <1>5, <2>2 DEF Above, Frame
    <3>2. s[i] = MovedFrame(Top.pc, rest)
      BY <1>1, <1>2, <1>5, <2>2
    <3> QED BY <1>6, <3>1, <3>2
  <2>3. CASE i < n
    <3>1. i \in 1 .. n - 1 /\ i \in 1 .. n /\ i + 1 \in 1 .. n
      BY <1>1, <2>3
    <3>2. Above(s, "none", i) = {stack[i + 1].rec} /\ i < Len(s)
      BY <1>1, <1>4, <1>5, <2>3, <3>1 DEF Above
    <3>3. Above(stack, result, i) = {stack[i + 1].rec}
      BY <2>3 DEF Above, n
    <3>4. FrameOk(stack[i], rows, Above(stack, result, i))
      BY <3>1 DEF StackOk, n
    <3> QED BY <1>2, <1>5, <3>1, <3>2, <3>3, <3>4, FrameGrow
  <2> QED BY <1>1, <2>1, <2>2, <2>3
<1>9. s[1].rec = call.rec
  BY <1>1, <1>4, <1>5 DEF StackOk
<1>10. StackOk(s, "none", more)
  BY <1>5, <1>8, <1>9 DEF StackOk
<1> QED BY <1>5, <1>10 DEF NextStack, s

LEMMA ReturnsOk ==
    ASSUME stack \in Seq(FrameType), stack # <<>>, NEW rows, StackOk(stack, result, rows),
           NEW more, rows \subseteq more, shape \in Shapes,
           NEW ret, ret \in {"true", "false"}, Return(ret),
           ret = "true" => Stored(Top.rec, more)
    PROVE  NextStack(more)
<1> DEFINE n == Len(stack)
           s == Front(stack)
<1>1. n \in Nat \ {0} /\ Top = stack[n] /\ Top \in FrameType
  BY BelowTop
<1>2. Len(s) = n - 1 /\ \A i \in 1 .. n - 1 : s[i] = stack[i]
  BY BelowTop
<1>3. stack' = s /\ result' = ret /\ s \in Seq(FrameType)
  BY BelowTop DEF Return
<1> HIDE DEF s, n
<1>4. CASE n = 1
  <2>1. Top.rec = call.rec
    BY <1>1, <1>4 DEF StackOk
  <2>2. s = <<>>
    BY <1>2, <1>3, <1>4
  <2> QED BY <1>3, <2>1, <2>2 DEF NextStack
<1>5. CASE n > 1
  <2>1. ASSUME NEW i \in 1 .. n - 1
        PROVE  FrameOk(s[i], more, Above(s, ret, i))
    <3>1. i \in 1 .. n /\ i < n
      BY <1>1
    <3>2. FrameOk(stack[i], rows, {stack[i + 1].rec})
      BY <3>1 DEF StackOk, Above, n
    <3>3. CASE i < n - 1
      <4>1. i + 1 \in 1 .. n - 1
        BY <1>1, <3>3
      <4>2. Above(s, ret, i) = {stack[i + 1].rec}
        BY <1>2, <3>3, <4>1 DEF Above
      <4> QED BY <1>2, <3>2, <4>2, FrameGrow
    <3>4. CASE i = n - 1
      <4>1. Above(s, ret, i) = Failing(ret)
        BY <1>1, <1>2, <3>4 DEF Above
      <4>2. stack[i + 1] = Top
        BY <1>1, <3>4
      <4>3. {stack[i + 1].rec} \subseteq more \cup Failing(ret)
        BY <1>1, <4>2 DEF Failing, Stored, FrameType
      <4> QED BY <1>2, <3>2, <4>1, <4>3, FrameGrow
    <3> QED BY <1>1, <3>3, <3>4
  <2>2. s[1].rec = call.rec
    BY <1>1, <1>2, <1>5 DEF StackOk
  <2>3. StackOk(s, ret, more)
    BY <1>2, <2>1, <2>2 DEF StackOk
  <2>4. s # <<>>
    BY <1>1, <1>2, <1>5, Len(<<>>) = 0
  <2> QED BY <1>3, <2>3, <2>4 DEF NextStack
<1> QED BY <1>1, <1>4, <1>5

LEMMA ThrowsOk ==
    ASSUME NEW more, Throw
    PROVE  NextStack(more)
BY DEF NextStack, Throw

----------------------------------------------------------------------------
(* From one step of a call to the next *)

\* Known, of the records after a step.
NextKnown(rows) ==
    /\ \A r \in Records : dirtyState'[r] = "persistent" => r \in rows
    /\ \A r \in Records \ (pending' \cup cached) : Attached(r) \subseteq rows

LEMMA ShapeKept ==
    ASSUME shape' = shape
    PROVE  \A r : /\ Parents(r)' = Parents(r) /\ Children(r)' = Children(r)
                  /\ Joined(r)' = Joined(r) /\ Attached(r)' = Attached(r)
                  /\ Refs(r)' = Refs(r)
BY DEF Parents, Children, Joined, Attached, Refs

LEMMA FrameKept ==
    ASSUME shape' = shape, NEW i, FrameOk(stack'[i], Rows', Above(stack', result', i))
    PROVE  FrameOk(stack[i], Rows, Above(stack, result, i))'
<1>1. Above(stack, result, i)' = Above(stack', result', i)
  BY DEF Above, Failing
<1> QED BY <1>1, ShapeKept DEF FrameOk

LEMMA StackKept ==
    ASSUME shape' = shape, call' = call, StackOk(stack', result', Rows')
    PROVE  StackOk(stack, result, Rows)'
<1>1. ASSUME NEW i \in 1 .. Len(stack')
      PROVE  FrameOk(stack[i], Rows, Above(stack, result, i))'
  BY FrameKept DEF StackOk
<1> QED BY <1>1 DEF StackOk

\* The parts of the invariant after a step inside a call.
LEMMA RefDone ==
    ASSUME RefInv, stack # <<>>, LevelInv', Chain', EffectsOk', UNCHANGED callVars,
           calls = 1 => NextStack(Rows'),
           calls = 1 /\ stack' # <<>> => NextKnown(Rows')
    PROVE  RefInv'
<1>1. shape' = shape /\ cached' = cached /\ calls' = calls /\ call' = call
  BY DEF callVars
<1>2. calls # 0
  BY DEF RefInv
<1>3. ASSUME calls = 1, stack' # <<>>
      PROVE  Known(Rows)' /\ StackOk(stack, result, Rows)'
  <2>1. Known(Rows)'
    <3>1. NextKnown(Rows')
      BY <1>3
    <3> QED BY <1>1, <3>1, ShapeKept DEF Known, NextKnown
  <2>2. StackOk(stack', result', Rows')
    BY <1>3 DEF NextStack
  <2> QED BY <1>1, <2>1, <2>2, StackKept
<1>4. ASSUME calls = 1, stack' = <<>>, result' = "true"
      PROVE  Stored(call.rec, Rows)'
  <2>1. Stored(call.rec, Rows')
    BY <1>4 DEF NextStack
  <2> QED BY <1>1, <2>1, ShapeKept DEF Stored
<1> QED BY <1>1, <1>2, <1>3, <1>4 DEF RefInv, Answered

LEMMA ThrowRef ==
    ASSUME RefInv, stack # <<>>, LevelInv', EffectsOk', UNCHANGED callVars, Throw
    PROVE  RefInv'
<1>1. stack' = <<>>
  BY DEF Throw
<1>2. Chain'
  BY <1>1, Len(<<>>) = 0 DEF Chain
<1>3. NextStack(Rows')
  BY ThrowsOk
<1> QED BY <1>1, <1>2, <1>3, RefDone

LEMMA RefFacts ==
    ASSUME RefInv
    PROVE  /\ stack \in Seq(FrameType) /\ DataInv /\ shape \in Shapes /\ calls \in Nat
           /\ stack # <<>> => Top \in FrameType /\ Top.rec \in Records
           /\ calls = 1 /\ stack # <<>> => /\ Known(Rows) /\ StackOk(stack, result, Rows)
                                           /\ FrameOk(Top, Rows, Failing(result))
<1>1. /\ stack \in Seq(FrameType) /\ DataInv /\ shape \in Shapes /\ calls \in 0 .. MaxCalls
  BY DEF RefInv, LevelInv, Inv, CallInv
<1>2. stack # <<>> => Top \in FrameType /\ Top.rec \in Records
  BY <1>1, StackSteps
<1>3. ASSUME calls = 1, stack # <<>>
      PROVE  /\ Known(Rows) /\ StackOk(stack, result, Rows)
             /\ FrameOk(Top, Rows, Failing(result))
  <2>1. Known(Rows) /\ StackOk(stack, result, Rows)
    BY <1>3 DEF RefInv
  <2> DEFINE n == Len(stack)
  <2>2. n \in Nat \ {0} /\ Top = stack[n]
    BY <1>1, <1>3, BelowTop
  <2>3. FrameOk(stack[n], Rows, Above(stack, result, n))
    BY <2>1, <2>2 DEF StackOk
  <2>4. Above(stack, result, n) = Failing(result)
    BY <2>2 DEF Above
  <2> QED BY <2>1, <2>2, <2>3, <2>4
<1> QED BY <1>1, <1>2, <1>3, BoundsAssumption

LEMMA ReturnRef ==
    ASSUME RefInv, stack # <<>>, LevelInv', EffectsOk', UNCHANGED callVars,
           NEW ret, ret \in {"true", "false"}, Return(ret),
           calls = 1 /\ (stack' # <<>> \/ ret = "true") =>
              /\ Rows \subseteq Rows' /\ NextKnown(Rows')
              /\ ret = "true" => Stored(Top.rec, Rows')
    PROVE  RefInv'
<1>1. Chain'
  BY ReturnFacts DEF RefInv, callVars
<1>2. ASSUME calls = 1
      PROVE  NextStack(Rows')
  <2>1. CASE stack' # <<>> \/ ret = "true"
    BY <1>2, <2>1, RefFacts, ReturnsOk
  <2>2. CASE stack' = <<>> /\ ret = "false"
    BY <2>2 DEF NextStack, Return
  <2> QED BY <2>1, <2>2
<1> QED BY <1>1, <1>2, RefDone

LEMMA MoveRef ==
    ASSUME RefInv, stack # <<>>, LevelInv', EffectsOk', UNCHANGED callVars,
           NEW pc \in {"start", "alone", "before", "after"}, NEW rest \in SUBSET Records,
           GoOn(pc, rest), result' = "none",
           calls = 1 => /\ Rows \subseteq Rows' /\ NextKnown(Rows')
                        /\ FrameOk(MovedFrame(pc, rest), Rows', {})
    PROVE  RefInv'
<1>1. Chain'
  BY GoingOn DEF RefInv
<1>2. calls = 1 => NextStack(Rows')
  BY RefFacts, GoesOnOk
<1> QED BY <1>1, <1>2, RefDone

LEMMA NestRef ==
    ASSUME RefInv, stack # <<>>, LevelInv', EffectsOk', UNCHANGED callVars,
           NEW r \in Records, Top.pc \in OpenPcs, r \in Top.rest, result # "false",
           stack' = Append(PutAside(r), Frame(r)), result' = "none",
           calls = 1 => /\ Rows \subseteq Rows' /\ NextKnown(Rows')
                        /\ Joined(r) \subseteq Rows'
    PROVE  RefInv'
<1>1. Chain'
  BY GoingOn DEF RefInv
<1>2. calls = 1 => NextStack(Rows')
  BY RefFacts, NestsOk
<1> QED BY <1>1, <1>2, RefDone

LEMMA KnownStays ==
    ASSUME NEW rows, Known(rows)
    PROVE  /\ UNCHANGED <<dirtyState, pending>> => NextKnown(rows)
           /\ \A more : rows \subseteq more => Known(more)
BY DEF Known, NextKnown

LEMMA SameEffects ==
    ASSUME RefInv, shape' = shape, conn' = conn, db' = db
    PROVE  EffectsOk' /\ Rows' = Rows
<1>1. Rows' = Rows
  BY DEF Rows, Seen
<1>2. EffectsOk'
  BY ShapeKept DEF RefInv, EffectsOk, RefsIn, Seen
<1> QED BY <1>1, <1>2

\* Effects of the session that are those before, or some of them.
LEMMA EffectsFrom ==
    ASSUME RefInv, shape' = shape, ~conn'.savepoints,
           db' \in {db, db \cup conn.work}, db' \cup conn'.work \in {db, db \cup conn.work}
    PROVE  EffectsOk'
<1>1. RefsIn(db') /\ RefsIn(db' \cup conn'.work)
  BY DEF RefInv, EffectsOk
<1> QED BY <1>1, ShapeKept DEF EffectsOk, RefsIn, Seen

LEMMA SettingKept ==
    ASSUME RefInv, NEW nesting, NEW outcome, outcome \in Outcomes
    PROVE  /\ ~Begin(conn, nesting, outcome).conn.savepoints
           /\ ~Commit(conn, nesting, outcome).conn.savepoints
           /\ ~Rollback(conn, nesting, outcome).conn.savepoints
<1> DEFINE W == Work(calls)
<1>1. conn \in Session(W) /\ conn.open /\ ~conn.savepoints
  BY RefFacts DEF DataInv, RefInv, EffectsOk
<1> HIDE DEF W
<1> QED BY <1>1, MethodsSetting

LEMMA BackEffects ==
    ASSUME RefInv, shape' = shape, db' = db, NEW nesting,
           conn' = Rollback(conn, nesting, "ok").conn
    PROVE  EffectsOk' /\ (conn.level > 1 => Rows' = Rows)
<1> DEFINE r == Rollback(conn, nesting, "ok")
<1>1. "ok" \in Outcomes /\ DataInv /\ ~conn.savepoints
  BY RefFacts DEF Outcomes, RefInv, EffectsOk
<1>2. r.conn.work \in {conn.work, {}} /\ (conn.level > 1 => r.conn.work = conn.work)
  BY <1>1, WorkEnds
<1>3. ~r.conn.savepoints
  BY <1>1, SettingKept
<1>4. conn' = r.conn
  OBVIOUS
<1> HIDE DEF r
<1>5. EffectsOk'
  BY <1>2, <1>3, <1>4, EffectsFrom
<1> QED BY <1>2, <1>4, <1>5 DEF Rows

\* A frame returns false, after rollback(false) when it has begun.
LEMMA GiveUpRef ==
    ASSUME RefInv, stack # <<>>, LevelInv', UNCHANGED callVars, Return("false"), db' = db,
           \/ conn' = conn
           \/ Top.pc \in OpenPcs /\ conn' = Rollback(conn, FALSE, "ok").conn,
           calls = 1 => NextKnown(Rows)
    PROVE  RefInv'
<1>1. shape' = shape /\ call' = call
  BY DEF callVars
<1>2. EffectsOk'
  BY <1>1, SameEffects, BackEffects
<1>3. ASSUME stack' # <<>>
      PROVE  Rows' = Rows
  <2>1. CASE conn' = conn
    BY <1>1, <2>1, SameEffects
  <2>2. CASE Top.pc \in OpenPcs /\ conn' = Rollback(conn, FALSE, "ok").conn
    <3>1. LevelInv /\ Chain /\ DataInv /\ "ok" \in Outcomes
      BY RefFacts DEF RefInv, Outcomes
    <3>2. conn'.level > 0
      BY <1>1, <1>3, <3>1, ReturnFacts
    <3>3. conn.level \in Nat /\ conn.level > 0
      BY <2>2, <3>1, OpenHasLevel
    <3>4. conn'.level = conn.level - 1
      BY <2>2, <3>1, <3>3, CallsCount
    <3>5. conn.level > 1
      BY <3>2, <3>3, <3>4
    <3> QED BY <1>1, <2>2, <3>5, BackEffects
  <2> QED BY <2>1, <2>2
<1> QED BY <1>2, <1>3, ReturnRef

LEMMA ThrowsRef ==
    ASSUME RefInv, stack # <<>>, LevelInv', UNCHANGED callVars, Throw, db' = db,
           conn' = conn \/ conn' = Rollback(conn, FALSE, "ok").conn
    PROVE  RefInv'
<1>1. shape' = shape
  BY DEF callVars
<1>2. EffectsOk'
  BY <1>1, SameEffects, BackEffects
<1> QED BY <1>2, ThrowRef

\* What exists() finds out is true.
LEMMA ExistsKnown ==
    ASSUME RefInv, stack # <<>>, calls = 1, pending' = pending,
           dirtyState' = [dirtyState EXCEPT ![Top.rec] = StateAfterExists(Top.rec)]
    PROVE  NextKnown(Rows)
<1>1. Known(Rows) /\ Top.rec \in Records /\ dirtyState \in [Records -> DirtyStates]
  BY RefFacts DEF RefInv, LevelInv, Inv, RecordInv
<1>2. StateAfterExists(Top.rec) = "persistent" => Top.rec \in Rows
  BY <1>1, RowsSeen DEF StateAfterExists, Known
<1> QED BY <1>1, <1>2 DEF Known, NextKnown

LEMMA StartSteps ==
    ASSUME RefInv, LevelInv', NEW outcome \in Outcomes
    PROVE  /\ StartAlone => RefInv'
           /\ StartThrows => RefInv'
           /\ RelationThrows => RefInv'
           /\ StartRelated(outcome) => RefInv'
<1>1. StartAlone => RefInv'
  <2> SUFFICES ASSUME StartAlone PROVE RefInv'
    OBVIOUS
  <2>1. /\ stack # <<>> /\ ~HasRelated(Top.rec) /\ GoOn("alone", {}) /\ result' = "none"
        /\ UNCHANGED <<conn, db, dirtyState, pending>> /\ UNCHANGED callVars
    BY DEF StartAlone, At, recordVars
  <2>2. EffectsOk' /\ Rows' = Rows
    BY <2>1, SameEffects DEF callVars
  <2>3. ASSUME calls = 1
        PROVE  NextKnown(Rows) /\ FrameOk(MovedFrame("alone", {}), Rows, {})
    <3>1. Known(Rows) /\ FrameOk(Top, Rows, Failing(result)) /\ Top.rec \in Records
      BY <2>1, <2>3, RefFacts
    <3>2. Attached(Top.rec) \subseteq Rows
      BY <2>1, <3>1 DEF HasRelated, Known
    <3>3. FrameOk(MovedFrame("alone", {}), Rows, {})
      <4> DEFINE f == MovedFrame("alone", {})
      <4>1. f.rec = Top.rec /\ f.pc = "alone"
        BY <2>1, RefFacts, MovedFields
      <4> HIDE DEF f
      <4>2. FrameOk(f, Rows, {})
        BY <3>1, <3>2, <4>1 DEF FrameOk
      <4> QED BY <4>2 DEF f
    <3> QED BY <2>1, <3>1, <3>3, KnownStays
  <2> QED BY <2>1, <2>2, <2>3, MoveRef
<1>2. StartThrows => RefInv'
  BY ThrowsRef DEF StartThrows, At
<1>3. RelationThrows => RefInv'
  BY ThrowsRef DEF RelationThrows, At
<1>4. StartRelated(outcome) => RefInv'
  <2> SUFFICES ASSUME StartRelated(outcome) PROVE RefInv'
    OBVIOUS
  <2> DEFINE r == Begin(conn, FALSE, outcome)
  <2>1. /\ stack # <<>> /\ conn' = r.conn
        /\ \/ Throw
           \/ GoOn("before", Parents(Top.rec)) /\ result' = "none"
        /\ UNCHANGED <<db, dirtyState, pending>> /\ UNCHANGED callVars
    BY DEF StartRelated, At, recordVars
  <2>2. r.conn.work = conn.work
    BY RefFacts, WorkEnds DEF RefInv, EffectsOk
  <2>3. ~r.conn.savepoints
    BY SettingKept
  <2> HIDE DEF r
  <2>4. EffectsOk' /\ Rows' = Rows
    <3>1. EffectsOk'
      BY <2>1, <2>2, <2>3, EffectsFrom DEF callVars
    <3> QED BY <2>1, <2>2, <3>1 DEF Rows
  <2>5. CASE Throw
    BY <2>1, <2>4, <2>5, ThrowRef
  <2>6. CASE GoOn("before", Parents(Top.rec)) /\ result' = "none"
    <3>1. ASSUME calls = 1
          PROVE  NextKnown(Rows) /\ FrameOk(MovedFrame("before", Parents(Top.rec)), Rows, {})
      <4> DEFINE f == MovedFrame("before", Parents(Top.rec))
      <4>1. Known(Rows) /\ FrameOk(Top, Rows, Failing(result))
        BY <2>1, <3>1, RefFacts
      <4>2. f.rec = Top.rec /\ f.pc = "before" /\ f.rest = Parents(Top.rec)
        BY <2>1, RefFacts, MovedFields
      <4> HIDE DEF f
      <4>3. FrameOk(f, Rows, {})
        BY <4>1, <4>2 DEF FrameOk
      <4> QED BY <2>1, <4>1, <4>3, KnownStays DEF f
    <3>2. Parents(Top.rec) \in SUBSET Records
      BY DEF Parents
    <3> QED BY <2>1, <2>4, <2>6, <3>1, <3>2, MoveRef
  <2> QED BY <2>1, <2>5, <2>6
<1> QED BY <1>1, <1>2, <1>3, <1>4

LEMMA ParentSteps ==
    ASSUME RefInv, LevelInv', NEW p \in Records
    PROVE  /\ SkipParent(p) => RefInv'
           /\ SaveParent(p) => RefInv'
           /\ ParentFailed => RefInv'
<1>1. SkipParent(p) => RefInv'
  <2> SUFFICES ASSUME SkipParent(p) PROVE RefInv'
    OBVIOUS
  <2> DEFINE rest == Top.rest \ {p}
  <2>1. /\ stack # <<>> /\ Top.pc = "before" /\ result # "false"
        /\ dirtyState[p] = "persistent"
        /\ GoOn("before", rest) /\ result' = "none"
        /\ UNCHANGED <<conn, db, dirtyState, pending>> /\ UNCHANGED callVars
    BY DEF SkipParent, At, Proceeding, recordVars
  <2>2. EffectsOk' /\ Rows' = Rows
    BY <2>1, SameEffects DEF callVars
  <2>3. rest \in SUBSET Records
    BY <2>1, RefFacts, StackSteps
  <2>4. ASSUME calls = 1
        PROVE  NextKnown(Rows) /\ FrameOk(MovedFrame("before", rest), Rows, {})
    <3> DEFINE f == MovedFrame("before", rest)
    <3>1. Known(Rows) /\ FrameOk(Top, Rows, {})
      BY <2>1, <2>4, RefFacts DEF Failing
    <3>2. p \in Rows
      BY <2>1, <3>1 DEF Known
    <3>3. f.rec = Top.rec /\ f.pc = "before" /\ f.rest = rest
      BY <2>1, RefFacts, MovedFields
    <3> HIDE DEF f
    <3>4. FrameOk(f, Rows, {})
      BY <2>1, <3>1, <3>2, <3>3 DEF FrameOk
    <3> QED BY <2>1, <3>1, <3>4, KnownStays DEF f
  <2> HIDE DEF rest
  <2> QED BY <2>1, <2>2, <2>3, <2>4, MoveRef
<1>2. SaveParent(p) => RefInv'
  <2> SUFFICES ASSUME SaveParent(p) PROVE RefInv'
    OBVIOUS
  <2>1. /\ stack # <<>> /\ Top.pc = "before" /\ result # "false" /\ p \in Top.rest
        /\ stack' = Append(PutAside(p), Frame(p)) /\ result' = "none"
        /\ UNCHANGED <<conn, db, dirtyState, pending>> /\ UNCHANGED callVars
    BY DEF SaveParent, At, Proceeding, recordVars, PutAside
  <2>2. EffectsOk' /\ Rows' = Rows
    BY <2>1, SameEffects DEF callVars
  <2>3. ASSUME calls = 1
        PROVE  NextKnown(Rows) /\ Joined(p) \subseteq Rows
    <3>1. Known(Rows) /\ FrameOk(Top, Rows, Failing(result)) /\ Top.rec \in Records
          /\ shape \in Shapes
      BY <2>1, <2>3, RefFacts
    <3>2. <<Top.rec, p>> \in shape.belongs
      BY <2>1, <3>1 DEF FrameOk, Parents
    <3>3. ASSUME NEW c \in Joined(p) PROVE FALSE
      <4> DEFINE join == <<p, c>>
      <4>1. join \in shape.joins /\ join[1] = p
        BY DEF Joined
      <4> HIDE DEF join
      <4>2. <<Top.rec, join[1]>> \notin shape.belongs
        BY <3>1, <4>1, JoinsAssumption
      <4> QED BY <3>2, <4>1, <4>2
    <3> QED BY <2>1, <3>1, <3>3, KnownStays
  <2> QED BY <2>1, <2>2, <2>3, NestRef DEF OpenPcs
<1>3. ParentFailed => RefInv'
  <2> SUFFICES ASSUME ParentFailed PROVE RefInv'
    OBVIOUS
  <2>1. /\ stack # <<>> /\ Top.pc \in OpenPcs /\ Return("false") /\ db' = db
        /\ conn' = Rollback(conn, FALSE, "ok").conn
        /\ UNCHANGED <<dirtyState, pending>> /\ UNCHANGED callVars
    BY DEF ParentFailed, Fail, At, recordVars, OpenPcs
  <2>2. calls = 1 => NextKnown(Rows)
    BY <2>1, RefFacts, KnownStays
  <2> QED BY <2>1, <2>2, GiveUpRef
<1> QED BY <1>1, <1>2, <1>3

LEMMA ChildSteps ==
    ASSUME RefInv, LevelInv', NEW c \in Records
    PROVE  /\ SaveChild(c) => RefInv'
           /\ ChildFailed => RefInv'
<1>1. SaveChild(c) => RefInv'
  <2> SUFFICES ASSUME SaveChild(c) PROVE RefInv'
    OBVIOUS
  <2>1. /\ stack # <<>> /\ Top.pc = "after" /\ result # "false"
        /\ c \in Top.rest /\ Joined(c) \cap Top.rest = {}
        /\ stack' = Append(PutAside(c), Frame(c)) /\ result' = "none"
        /\ UNCHANGED <<conn, db>> /\ UNCHANGED callVars
        /\ IF Joined(c) = {} THEN UNCHANGED recordVars ELSE LoadIntermediate(c)
    BY DEF SaveChild, At, Proceeding, NextAfter, PutAside
  <2>2. EffectsOk' /\ Rows' = Rows
    BY <2>1, SameEffects DEF callVars
  <2>3. ASSUME calls = 1
        PROVE  NextKnown(Rows) /\ Joined(c) \subseteq Rows
    <3>1. Known(Rows) /\ FrameOk(Top, Rows, {}) /\ Top.rec \in Records /\ shape \in Shapes
      BY <2>1, <2>3, RefFacts DEF Failing
    <3>2. <<Top.rec, c>> \in shape.many
      BY <2>1, <3>1 DEF FrameOk, Children
    <3>3. ASSUME NEW x \in Joined(c) PROVE x \in Rows
      <4> DEFINE join == <<c, x>>
      <4>1. join \in shape.joins /\ join[1] = c /\ join[2] = x /\ x \in Records
        BY DEF Joined
      <4> HIDE DEF join
      <4>4. <<Top.rec, join[1]>> \in shape.many => <<Top.rec, join[2]>> \in shape.many
        BY <3>1, <4>1, JoinsAssumption
      <4>2. x \in Children(Top.rec)
        BY <3>2, <4>1, <4>4 DEF Children
      <4>3. x \notin Top.rest
        BY <2>1
      <4> QED BY <2>1, <3>1, <4>2, <4>3 DEF FrameOk
    <3>4. NextKnown(Rows)
      <4>1. CASE Joined(c) = {}
        BY <2>1, <3>1, <4>1, KnownStays DEF recordVars
      <4>2. CASE LoadIntermediate(c)
        <5>1. PICK found \in {FALSE, Visible(c)} :
                 /\ dirtyState' = [dirtyState EXCEPT ![c] = IF found THEN "persistent"
                                                                     ELSE "transient"]
                 /\ pending' = pending
          BY <4>2 DEF LoadIntermediate
        <5>2. found => c \in Rows
          BY RowsSeen
        <5>3. dirtyState \in [Records -> DirtyStates]
          BY DEF RefInv, LevelInv, Inv, RecordInv
        <5> QED BY <3>1, <5>1, <5>2, <5>3 DEF Known, NextKnown
      <4> QED BY <2>1, <4>1, <4>2
    <3> QED BY <3>3, <3>4
  <2> QED BY <2>1, <2>2, <2>3, NestRef DEF OpenPcs
<1>2. ChildFailed => RefInv'
  <2> SUFFICES ASSUME ChildFailed PROVE RefInv'
    OBVIOUS
  <2>1. /\ stack # <<>> /\ Top.pc \in OpenPcs /\ (Return("false") \/ Throw) /\ db' = db
        /\ conn' = Rollback(conn, FALSE, "ok").conn
        /\ UNCHANGED <<dirtyState, pending>> /\ UNCHANGED callVars
    BY DEF ChildFailed, Answer, At, recordVars, OpenPcs
  <2>2. calls = 1 => NextKnown(Rows)
    BY <2>1, RefFacts, KnownStays
  <2> QED BY <2>1, <2>2, GiveUpRef, ThrowsRef
<1> QED BY <1>1, <1>2

----------------------------------------------------------------------------
(* References: the record itself, and the end of its frame *)

\* What the record's turn needs of its frame.
LEMMA TurnFacts ==
    ASSUME RefInv, OwnTurn, calls = 1
    PROVE  /\ stack # <<>> /\ Top.pc \in {"alone", "before"}
           /\ Refs(Top.rec) \subseteq Rows
           /\ Top.pc = "alone" => Attached(Top.rec) \subseteq Rows
<1>1. stack # <<>> /\ result # "false" /\ (Top.pc = "alone" \/ (Top.pc = "before" /\ Top.rest = {}))
  BY DEF OwnTurn, At, Proceeding
<1>2. FrameOk(Top, Rows, {})
  BY <1>1, RefFacts DEF Failing
<1> QED BY <1>1, <1>2 DEF FrameOk, Refs, Attached

LEMMA OwnDoneRef ==
    ASSUME RefInv, LevelInv', EffectsOk', UNCHANGED callVars, OwnTurn, OwnDone,
           calls = 1 => Rows \subseteq Rows' /\ NextKnown(Rows') /\ Top.rec \in Rows'
    PROVE  RefInv'
<1>1. stack # <<>> /\ Top.pc \in {"alone", "before"}
  BY DEF OwnTurn, At
<1>2. CASE Top.pc = "alone"
  <2>1. Throw \/ Return("true")
    BY <1>2 DEF OwnDone, Begun, Answer
  <2>2. calls = 1 => Stored(Top.rec, Rows')
    BY <1>2, TurnFacts DEF Stored
  <2> QED BY <1>1, <2>1, <2>2, ThrowRef, ReturnRef
<1>3. CASE Top.pc = "before"
  <2> DEFINE rest == Children(Top.rec)
  <2>1. GoOn("after", rest) /\ result' = "none" /\ rest \in SUBSET Records
    BY <1>3 DEF OwnDone, Begun, Children
  <2>2. ASSUME calls = 1
        PROVE  FrameOk(MovedFrame("after", rest), Rows', {})
    <3> DEFINE f == MovedFrame("after", rest)
    <3>1. f.rec = Top.rec /\ f.pc = "after" /\ f.rest = rest
      BY <1>1, RefFacts, MovedFields
    <3>2. Refs(Top.rec) \subseteq Rows'
      BY <2>2, TurnFacts
    <3> HIDE DEF f
    <3>3. FrameOk(f, Rows', {})
      BY <2>2, <3>1, <3>2 DEF FrameOk, Refs
    <3> QED BY <3>3 DEF f
  <2> HIDE DEF rest
  <2> QED BY <1>1, <2>1, <2>2, MoveRef
<1> QED BY <1>1, <1>2, <1>3

\* An INSERT or UPDATE leaves the setting of the connection alone.
LEMMA WriteSetting ==
    ASSUME DataInv, ~conn.savepoints, NEW r, NEW outcome
    PROVE  ~Written(r, outcome).conn.savepoints
<1> DEFINE row  == <<r, calls>>
           more == [conn EXCEPT !.work = @ \cup {row}]
           e    == Execute(conn, row, outcome)
<1>1. ~more.savepoints
  BY DataFacts DEF ConnectionOf
<1>2. \A c, made, ret : Result(c, made, ret).conn = c
  BY DEF Result
<1> HIDE DEF more
<1>3. e.conn \in {conn, more}
  BY <1>2 DEF Execute, RefusalOf, more
<1>4. Written(r, outcome) = e \/ Written(r, outcome) = Result(conn, {}, "true")
  BY DEF Written, Updated, Inserted
<1> HIDE DEF e
<1> QED BY <1>1, <1>2, <1>3, <1>4

\* The row of a record joins the effects of the session.
LEMMA RowJoins ==
    ASSUME RefInv, shape' = shape, NEW r, calls = 1 => Refs(r) \subseteq Rows,
           ~conn'.savepoints,
           IF conn.active THEN conn'.work = conn.work \cup {<<r, calls>>} /\ db' = db
                          ELSE conn'.work = conn.work /\ db' = db \cup {<<r, calls>>}
    PROVE  EffectsOk' /\ Rows' = Rows \cup {r}
<1> DEFINE row == <<r, calls>>
<1>1. Seen({row}) = {r}
  BY SeenOf
<1>2. RefsIn((db \cup conn.work) \cup {row})
  <2> DEFINE E == db \cup conn.work
  <2>1. RefsIn(E) /\ (calls = 1 => Refs(r) \subseteq Seen(E))
    BY DEF RefInv, EffectsOk, Rows
  <2> HIDE DEF E
  <2>2. RefsIn(E \cup {<<r, calls>>})
    BY <2>1, RefsGrow
  <2> QED BY <2>2 DEF E
<1>3. ~conn.active => conn.work = {}
  BY RefFacts, DataFacts
<1>4. RefsIn(db)
  BY DEF RefInv, EffectsOk
<1> HIDE DEF row
<1>5. db' \cup conn'.work = (db \cup conn.work) \cup {row}
  BY DEF row
<1>6. Rows' = Rows \cup {r}
  <2>1. Rows' = Seen((db \cup conn.work) \cup {row})
    BY <1>5 DEF Rows
  <2> DEFINE E == db \cup conn.work
  <2>2. Rows = Seen(E)
    BY DEF Rows
  <2> HIDE DEF E
  <2>3. Seen(E \cup {row}) = Seen(E) \cup {r}
    BY <1>1, SeenOf
  <2> QED BY <2>1, <2>2, <2>3 DEF E
<1>7. RefsIn(db')
  <2>1. CASE conn.active
    BY <1>4, <2>1
  <2>2. CASE ~conn.active
    <3>1. db' = (db \cup conn.work) \cup {row}
      BY <1>3, <2>2 DEF row
    <3> QED BY <1>2, <3>1
  <2> QED BY <2>1, <2>2
<1>8. RefsIn(db' \cup conn'.work)
  BY <1>2, <1>5
<1> QED BY <1>6, <1>7, <1>8, ShapeKept DEF EffectsOk, RefsIn, Seen

LEMMA OwnRefused ==
    ASSUME RefInv, LevelInv'
    PROVE  /\ OwnVetoed => RefInv'
           /\ OwnThrows => RefInv'
<1>1. OwnVetoed => RefInv'
  <2> SUFFICES ASSUME OwnVetoed PROVE RefInv'
    OBVIOUS
  <2>1. /\ stack # <<>> /\ (Throw \/ Return("false")) /\ db' = db
        /\ \/ conn' = conn
           \/ Top.pc \in OpenPcs /\ conn' = Rollback(conn, FALSE, "ok").conn
        /\ dirtyState' = [dirtyState EXCEPT ![Top.rec] = StateAfterExists(Top.rec)]
        /\ pending' = pending /\ UNCHANGED callVars
    BY DEF OwnVetoed, OwnTurn, At, Fail, Begun, OpenPcs
  <2>2. calls = 1 => NextKnown(Rows)
    BY <2>1, ExistsKnown
  <2>3. CASE Throw
    BY <2>1, <2>3, ThrowsRef
  <2>4. CASE Return("false")
    BY <2>1, <2>2, <2>4, GiveUpRef
  <2> QED BY <2>1, <2>3, <2>4
<1>2. OwnThrows => RefInv'
  BY ThrowsRef DEF OwnThrows, OwnTurn, At
<1> QED BY <1>1, <1>2

LEMMA OwnUnchangedRef ==
    ASSUME RefInv, LevelInv', OwnUnchanged
    PROVE  RefInv'
<1>1. /\ OwnTurn /\ OwnDone /\ Exists(Top.rec) /\ UNCHANGED callVars
      /\ dirtyState' = [dirtyState EXCEPT ![Top.rec] = "persistent"]
      /\ UNCHANGED <<conn, db, pending>>
  BY DEF OwnUnchanged
<1>2. EffectsOk' /\ Rows' = Rows
  BY <1>1, SameEffects DEF callVars
<1>3. ASSUME calls = 1
      PROVE  NextKnown(Rows) /\ Top.rec \in Rows
  <2>1. /\ Known(Rows) /\ Top.rec \in Records /\ dirtyState \in [Records -> DirtyStates]
    BY <1>1, <1>3, TurnFacts, RefFacts DEF RefInv, LevelInv, Inv, RecordInv
  <2>2. Top.rec \in Rows
    BY <1>1, <2>1, RowsSeen DEF Exists, Known
  <2> QED BY <1>1, <2>1, <2>2 DEF Known, NextKnown
<1> QED BY <1>1, <1>2, <1>3, OwnDoneRef

LEMMA OwnWrittenRef ==
    ASSUME RefInv, LevelInv', NEW verdict, NEW outcome, OwnWritten(verdict, outcome)
    PROVE  RefInv'
<1> DEFINE r   == Top.rec
           w   == Written(r, outcome)
           hit == w.ret = "true" /\ (Visible(r) \/ ~Exists(r))
           row == <<r, calls>>
<1>1. /\ stack # <<>> /\ Top.pc \in {"alone", "before"} /\ r \in Records
      /\ DataInv /\ calls \in Nat /\ OwnTurn
  BY RefFacts DEF OwnWritten, OwnTurn, At
<1>2. /\ w.ret \in Returns
      /\ w.ret # "true" => w.conn = conn /\ w.made = {}
  BY <1>1, WriteTyped
<1>3. /\ hit /\ conn.active => w.made = {} /\ w.conn.work = conn.work \cup {row}
      /\ hit /\ ~conn.active => w.made = {row} /\ w.conn.work = conn.work
      /\ ~hit => w.made = {} /\ w.conn = conn
  BY <1>1, WriteAdds
<1>4. /\ db' = db \cup w.made /\ UNCHANGED callVars /\ pending' = pending
      /\ dirtyState' = [dirtyState EXCEPT ![r] =
                           IF w.ret = "true" THEN "persistent" ELSE StateAfterExists(r)]
      /\ \/ w.ret = "throw" /\ conn' = w.conn /\ Throw
         \/ /\ w.ret = "false" /\ Answer("false")
            /\ conn' = IF Top.pc # "alone" THEN Rollback(w.conn, FALSE, "ok").conn
                                           ELSE w.conn
         \/ w.ret = "true" /\ conn' = w.conn /\ OwnDone
  BY <1>2 DEF OwnWritten, Begun, Returns
<1>5. ~w.conn.savepoints
  BY <1>1, WriteSetting DEF RefInv, EffectsOk
<1>6. hit <=> w.ret = "true" /\ (Visible(r) \/ ~Exists(r))
  OBVIOUS
<1>7. shape' = shape
  BY <1>4 DEF callVars
<1> HIDE DEF w, hit, row
<1>8. CASE w.ret = "throw"
  BY <1>1, <1>2, <1>4, <1>8, ThrowsRef
<1>9. CASE w.ret = "false"
  <2>1. /\ db' = db /\ (Throw \/ Return("false"))
        /\ \/ conn' = conn
           \/ Top.pc \in OpenPcs /\ conn' = Rollback(conn, FALSE, "ok").conn
    BY <1>1, <1>2, <1>4, <1>9 DEF Answer, OpenPcs
  <2>2. calls = 1 => NextKnown(Rows)
    BY <1>1, <1>4, <1>9, ExistsKnown
  <2>3. CASE Throw
    BY <1>1, <1>4, <2>1, <2>3, ThrowsRef
  <2>4. CASE Return("false")
    BY <1>1, <1>4, <2>1, <2>2, <2>4, GiveUpRef
  <2> QED BY <2>1, <2>3, <2>4
<1>10. CASE w.ret = "true"
  <2>1. conn' = w.conn /\ OwnDone /\ ~conn'.savepoints
    BY <1>4, <1>5, <1>10
  <2>2. calls = 1 => Refs(r) \subseteq Rows /\ Known(Rows)
    BY <1>1, TurnFacts, RefFacts
  <2>3. dirtyState' = [dirtyState EXCEPT ![r] = "persistent"]
        /\ dirtyState \in [Records -> DirtyStates]
    BY <1>4, <1>10 DEF RefInv, LevelInv, Inv, RecordInv
  <2>4. CASE hit
    <3>1. IF conn.active THEN conn'.work = conn.work \cup {row} /\ db' = db
                         ELSE conn'.work = conn.work /\ db' = db \cup {row}
      BY <1>3, <1>4, <2>1, <2>4
    <3>2. EffectsOk' /\ Rows' = Rows \cup {r}
      BY <1>7, <2>1, <2>2, <3>1, RowJoins DEF row
    <3> HIDE DEF r
    <3>3. calls = 1 => NextKnown(Rows')
      BY <1>1, <1>4, <2>2, <2>3, <3>2 DEF Known, NextKnown
    <3> QED BY <1>1, <1>4, <2>1, <3>2, <3>3, OwnDoneRef DEF r
  <2>5. CASE ~hit
    <3>1. conn' = conn /\ db' = db
      BY <1>3, <1>4, <2>1, <2>5
    <3>2. EffectsOk' /\ Rows' = Rows
      BY <1>7, <3>1, SameEffects
    <3>3. calls = 1 => r \in Rows
      <4>1. Exists(r) /\ ~Visible(r)
        BY <1>6, <1>10, <2>5
      <4> QED BY <1>1, <2>2, <4>1 DEF Exists, Known
    <3> HIDE DEF r
    <3>4. calls = 1 => NextKnown(Rows')
      BY <1>1, <1>4, <2>2, <2>3, <3>2, <3>3 DEF Known, NextKnown
    <3> QED BY <1>1, <1>4, <2>1, <3>2, <3>3, <3>4, OwnDoneRef DEF r
  <2> QED BY <2>4, <2>5
<1> QED BY <1>2, <1>8, <1>9, <1>10 DEF Returns

LEMMA FinishRef ==
    ASSUME RefInv, LevelInv', NEW outcome \in Outcomes, FinishRelated(outcome)
    PROVE  RefInv'
<1> DEFINE c == Commit(conn, FALSE, outcome)
<1>1. /\ stack # <<>> /\ Top.pc = "after" /\ Top.rest = {} /\ result # "false"
      /\ conn' = c.conn /\ db' = db \cup c.made /\ UNCHANGED callVars
      /\ dirtyState' = dirtyState
      /\ \/ Throw
         \/ c.ret # "throw" /\ Return("true") /\ pending' = pending \ {Top.rec}
  BY DEF FinishRelated, At, Proceeding, Answer
<1>2. DataInv /\ ~conn.savepoints
  BY RefFacts DEF RefInv, EffectsOk
<1>3. \/ c.made = {} /\ c.conn.work \in {conn.work, {}}
      \/ c.made = conn.work /\ c.conn.work = {}
  BY <1>2, WorkEnds
<1>4. c.ret # "throw" => c.made \cup c.conn.work = conn.work
  <2> DEFINE W == Work(calls)
  <2>1. {} \in W /\ conn \in Session(W)
    BY <1>2 DEF DataInv, Work
  <2> HIDE DEF W
  <2>2. ASSUME NEW nesting
        PROVE  Commit(conn, nesting, outcome).ret # "throw" =>
                  Commit(conn, nesting, outcome).made
                     \cup Commit(conn, nesting, outcome).conn.work = conn.work
    BY <2>1, WorkKept
  <2> QED BY <2>2
<1>5. ~c.conn.savepoints
  BY SettingKept
<1> HIDE DEF c
<1>6. EffectsOk'
  <2>1. db' \in {db, db \cup conn.work} /\ db' \cup conn'.work \in {db, db \cup conn.work}
    BY <1>1, <1>3
  <2> QED BY <1>1, <1>5, <2>1, EffectsFrom DEF callVars
<1>7. CASE Throw
  BY <1>1, <1>6, <1>7, ThrowRef
<1>8. CASE c.ret # "throw" /\ Return("true") /\ pending' = pending \ {Top.rec}
  <2>1. Rows' = Rows
    <3>1. db' \cup conn'.work = db \cup conn.work
      BY <1>1, <1>4, <1>8
    <3> QED BY <3>1 DEF Rows
  <2>2. ASSUME calls = 1
        PROVE  Stored(Top.rec, Rows) /\ NextKnown(Rows)
    <3>1. FrameOk(Top, Rows, {}) /\ Known(Rows)
      BY <1>1, <2>2, RefFacts DEF Failing
    <3>2. Top.rec \in Rows /\ Attached(Top.rec) \subseteq Rows
      BY <1>1, <3>1 DEF FrameOk, Attached
    <3> QED BY <1>1, <1>8, <3>1, <3>2 DEF Stored, Known, NextKnown
  <2> QED BY <1>1, <1>6, <1>8, <2>1, <2>2, ReturnRef
<1> QED BY <1>1, <1>7, <1>8

LEMMA SaveRef ==
    ASSUME RefInv, LevelInv', NEW r \in Records, Save(r)
    PROVE  RefInv'
<1>1. /\ stack = <<>> /\ r \in shape.roots /\ stack' = <<Frame(r)>> /\ result' = "none"
      /\ calls' = calls + 1 /\ call'.rec = r
      /\ UNCHANGED <<shape, cached, conn, db, dirtyState, pending>>
  BY DEF Save, recordVars
<1>2. calls \in Nat /\ shape \in Shapes
  BY RefFacts
<1>3. EffectsOk' /\ Rows' = Rows
  BY <1>1, SameEffects
<1>4. Len(stack') = 1 /\ stack'[1] = Frame(r) /\ stack' # <<>>
  BY <1>1
<1>5. Chain'
  <2>1. 1 .. Len(stack') - 1 = {}
    BY <1>4
  <2> QED BY <2>1 DEF Chain
<1>6. ASSUME calls = 0
      PROVE  Known(Rows)' /\ StackOk(stack, result, Rows)'
  <2>1. Known(Seen(db))
    BY <1>6 DEF RefInv
  <2>2. Seen(db) \subseteq Rows
    BY SeenOf DEF Rows
  <2>3. Known(Rows)
    BY <2>1, <2>2, KnownStays
  <2>4. Known(Rows)'
    BY <1>1, <1>3, <2>3, ShapeKept DEF Known
  <2>5. Joined(r) = {}
    <3> SUFFICES ASSUME NEW x \in Joined(r) PROVE FALSE
      OBVIOUS
    <3> DEFINE join == <<r, x>>
    <3>1. join \in shape.joins /\ join[1] = r
      BY DEF Joined
    <3> HIDE DEF join
    <3>2. join[1] \notin shape.roots
      BY <1>2, <3>1, JoinsAssumption
    <3> QED BY <1>1, <3>1, <3>2
  <2>7. \A above : FrameOk(Frame(r), Rows', above)
    BY <2>5 DEF FrameOk, Frame
  <2>8. ASSUME NEW i \in 1 .. Len(stack')
        PROVE  FrameOk(stack[i], Rows, Above(stack, result, i))'
    <3>1. stack'[i] = Frame(r)
      BY <1>4
    <3> QED BY <1>1, <2>7, <3>1, FrameKept
  <2>9. stack'[1].rec = call'.rec
    BY <1>1, <1>4 DEF Frame
  <2> QED BY <2>4, <2>8, <2>9 DEF StackOk
<1>7. calls' # 0 /\ (calls' = 1 => calls = 0)
  BY <1>1, <1>2
<1>8. ~Answered'
  BY <1>4 DEF Answered
<1> QED BY <1>3, <1>5, <1>6, <1>7, <1>8 DEF RefInv

LEMMA ApplicationRef ==
    ASSUME RefInv, LevelInv', AppBegin \/ AppCommit \/ AppRollback
    PROVE  RefInv'
<1>1. /\ stack = <<>> /\ stack' = <<>> /\ result' = "none" /\ "ok" \in Outcomes
      /\ UNCHANGED <<shape, cached, calls, call, dirtyState, pending>>
  BY DEF AppBegin, AppCommit, AppRollback, AppCalls, recordVars, callVars, Outcomes
<1>2. DataInv /\ ~conn.savepoints
  BY RefFacts DEF RefInv, EffectsOk
<1>3. ASSUME NEW r, conn' = r.conn, db' = db \cup r.made, ~r.conn.savepoints,
             \/ r.made = {} /\ r.conn.work \in {conn.work, {}}
             \/ r.made = conn.work /\ r.conn.work = {}
      PROVE  EffectsOk' /\ db \subseteq db'
  <2>1. db' \in {db, db \cup conn.work} /\ db' \cup conn'.work \in {db, db \cup conn.work}
    BY <1>3
  <2> QED BY <1>1, <1>3, <2>1, EffectsFrom
<1>4. EffectsOk' /\ db \subseteq db'
  <2> DEFINE n == TRUE
  <2>1. \/ conn' = Begin(conn, n, "ok").conn /\ db' = db \cup Begin(conn, n, "ok").made
        \/ conn' = Commit(conn, n, "ok").conn /\ db' = db \cup Commit(conn, n, "ok").made
        \/ conn' = Rollback(conn, n, "ok").conn /\ db' = db \cup Rollback(conn, n, "ok").made
    BY DEF AppBegin, AppCommit, AppRollback, AppCalls
  <2> HIDE DEF n
  <2>2. /\ Begin(conn, n, "ok").made = {} /\ Begin(conn, n, "ok").conn.work = conn.work
        /\ \/ Commit(conn, n, "ok").made = {} /\ Commit(conn, n, "ok").conn.work \in {conn.work, {}}
           \/ Commit(conn, n, "ok").made = conn.work /\ Commit(conn, n, "ok").conn.work = {}
        /\ Rollback(conn, n, "ok").made = {}
        /\ Rollback(conn, n, "ok").conn.work \in {conn.work, {}}
    BY <1>1, <1>2, WorkEnds
  <2>3. /\ ~Begin(conn, n, "ok").conn.savepoints
        /\ ~Commit(conn, n, "ok").conn.savepoints
        /\ ~Rollback(conn, n, "ok").conn.savepoints
    BY <1>1, SettingKept
  <2>4. CASE conn' = Begin(conn, n, "ok").conn /\ db' = db \cup Begin(conn, n, "ok").made
    BY <1>3, <2>2, <2>3, <2>4
  <2>5. CASE conn' = Commit(conn, n, "ok").conn /\ db' = db \cup Commit(conn, n, "ok").made
    BY <1>3, <2>2, <2>3, <2>5
  <2>6. CASE conn' = Rollback(conn, n, "ok").conn /\ db' = db \cup Rollback(conn, n, "ok").made
    BY <1>3, <2>2, <2>3, <2>6
  <2> QED BY <2>1, <2>4, <2>5, <2>6
<1>5. Chain'
  BY <1>1, Len(<<>>) = 0 DEF Chain
<1>6. calls = 0 => Known(Seen(db))' /\ (pending \cup cached = Records)'
  <2> SUFFICES ASSUME calls = 0 PROVE Known(Seen(db))' /\ (pending \cup cached = Records)'
    OBVIOUS
  <2>1. Known(Seen(db)) /\ pending \cup cached = Records
    BY DEF RefInv
  <2>2. Seen(db) \subseteq Seen(db')
    BY <1>4 DEF Seen
  <2>3. Known(Seen(db'))
    BY <2>1, <2>2, KnownStays
  <2> QED BY <1>1, <2>1, <2>3, ShapeKept DEF Known, Seen
<1> QED BY <1>1, <1>4, <1>5, <1>6 DEF RefInv, Answered

LEMMA NextRef == RefInv /\ [Next]_vars => RefInv'
<1> SUFFICES ASSUME RefInv, [Next]_vars PROVE RefInv'
  OBVIOUS
<1>1. LevelInv'
  BY NextLevel DEF RefInv
<1>2. Outcome \subseteq Outcomes
  BY ChoicesAssumption DEF Outcome, Outcomes
<1>3. CASE \E r \in Records : Save(r)
  BY <1>1, <1>3, SaveRef
<1>4. CASE Step
  <2>1. PICK r \in Records : TRUE
    BY <1>4, RefFacts
       DEF Step, StartAlone, StartThrows, RelationThrows, ParentFailed, ChildFailed,
           StartRelated, FinishRelated, OwnVetoed, OwnThrows, OwnUnchanged, OwnWritten,
           OwnTurn, At
  <2>2. CASE \E outcome \in Outcome : StartRelated(outcome) \/ FinishRelated(outcome)
    BY <1>1, <1>2, <2>2, StartSteps, FinishRef
  <2>3. CASE \E x \in Records : SkipParent(x) \/ SaveParent(x) \/ SaveChild(x)
    BY <1>1, <2>3, ParentSteps, ChildSteps
  <2>4. CASE \E verdict \in Verdicts, outcome \in Outcome : OwnWritten(verdict, outcome)
    BY <1>1, <2>4, OwnWrittenRef
  <2>5. CASE StartAlone \/ StartThrows \/ RelationThrows
    <3>1. "ok" \in Outcomes
      BY DEF Outcomes
    <3> QED BY <1>1, <2>5, <3>1, StartSteps
  <2>6. CASE ParentFailed \/ ChildFailed
    BY <1>1, <2>1, <2>6, ParentSteps, ChildSteps
  <2>7. CASE OwnVetoed \/ OwnThrows \/ OwnUnchanged
    BY <1>1, <2>7, OwnRefused, OwnUnchangedRef
  <2> QED
    BY <1>4, <2>2, <2>3, <2>4, <2>5, <2>6, <2>7 DEF Step
<1>5. CASE AppBegin \/ AppCommit \/ AppRollback
  BY <1>1, <1>5, ApplicationRef
<1>6. CASE UNCHANGED vars
  <2>1. /\ UNCHANGED <<shape, conn, db, dirtyState, pending, cached>>
        /\ UNCHANGED <<stack, result, calls, call>>
    BY <1>6 DEF vars
  <2>2. EffectsOk' /\ Rows' = Rows
    BY <2>1, SameEffects
  <2>3. Chain'
    BY <2>1 DEF RefInv, Chain
  <2>4. \A rows : Known(rows) => Known(rows)'
    BY <2>1, ShapeKept DEF Known
  <2>5. Seen(db)' = Seen(db)
    BY <2>1 DEF Seen
  <2>6. calls = 0 => stack' = <<>> /\ Known(Seen(db))' /\ (pending \cup cached = Records)'
    <3>1. Known(Seen(db)) => Known(Seen(db))'
      BY <2>1, <2>5, ShapeKept DEF Known
    <3> QED BY <2>1, <3>1 DEF RefInv
  <2>7. ASSUME calls = 1, stack # <<>>
        PROVE  Known(Rows)' /\ StackOk(stack, result, Rows)'
    <3>1. Known(Rows) /\ StackOk(stack', result', Rows')
      BY <2>1, <2>2, <2>7 DEF RefInv
    <3> QED BY <2>1, <2>2, <3>1, StackKept, ShapeKept DEF Known
  <2>8. Stored(call.rec, Rows) => Stored(call.rec, Rows)'
    BY <2>1, <2>2, ShapeKept DEF Stored
  <2> QED BY <1>1, <2>1, <2>2, <2>3, <2>6, <2>7, <2>8 DEF RefInv, Answered
<1> QED BY <1>3, <1>4, <1>5, <1>6 DEF Next

LEMMA InitRef == Init => RefInv
<1> SUFFICES ASSUME Init PROVE RefInv
  OBVIOUS
<1>1. stack = <<>> /\ result = "none" /\ calls = 0
  BY DEF Init
<1>2. LevelInv
  BY <1>1, InitInv DEF LevelInv, Answered
<1>3. Chain
  BY <1>1, Len(<<>>) = 0 DEF Chain
<1>4. ~conn.savepoints /\ conn.work = {}
  BY DEF Init, Connect, Closed, Idle, Result
<1>5. PICK kind \in [Records -> Kinds] :
         /\ db = {<<r, 0>> : r \in {x \in Records : kind[x] = "loaded"}}
         /\ \E touched, fetched \in SUBSET {x \in Records : kind[x] = "loaded"} :
               /\ dirtyState = [r \in Records |->
                     IF kind[r] = "loaded" /\ r \notin touched THEN "persistent"
                                                              ELSE "transient"]
               /\ cached = fetched
               /\ pending = Records \ fetched
  BY DEF Init
<1>6. PICK touched \in SUBSET Records, fetched \in SUBSET Records :
         /\ dirtyState = [r \in Records |->
               IF kind[r] = "loaded" /\ r \notin touched THEN "persistent" ELSE "transient"]
         /\ cached = fetched
         /\ pending = Records \ fetched
  BY <1>5
<1>7. RefsIn(db)
  <2>1. \A e \in db : e[2] = 0
    BY <1>5
  <2> QED BY <2>1 DEF RefsIn
<1>8. db \cup conn.work = db
  BY <1>4
<1>9. pending \cup cached = Records
  BY <1>6
<1>10. \A r \in Records : dirtyState[r] = "persistent" => r \in Seen(db)
  <2> SUFFICES ASSUME NEW r \in Records, dirtyState[r] = "persistent" PROVE r \in Seen(db)
    OBVIOUS
  <2> DEFINE row == <<r, 0>>
  <2>1. kind[r] = "loaded"
    BY <1>6
  <2>2. row \in db /\ row[1] = r
    BY <1>5, <2>1
  <2> HIDE DEF row
  <2> QED BY <2>2 DEF Seen
<1>11. Known(Seen(db))
  BY <1>9, <1>10 DEF Known
<1> QED BY <1>1, <1>2, <1>3, <1>4, <1>7, <1>8, <1>9, <1>11 DEF RefInv, EffectsOk, Answered

\* The foreign keys that the first save() copies lead to rows, at every moment
\* and whatever fails: no row is written before the rows of the records it
\* belongs to, nor survives without them, and no intermediate row comes before
\* the row it leads to.
THEOREM ReferencesCorrect == Spec => []ReferencesHold
<1>1. RefInv => ReferencesHold
  <2> SUFFICES ASSUME RefInv, NEW e \in db \cup conn.work, e[2] = 1,
                      NEW p \in Parents(e[1]) \cup Joined(e[1])
               PROVE  Visible(p)
    BY DEF ReferencesHold
  <2>1. Refs(e[1]) \subseteq Rows
    BY DEF RefInv, EffectsOk, RefsIn, Rows
  <2> QED BY <2>1, RowsSeen DEF Refs
<1> QED BY <1>1, InitRef, NextRef, PTL DEF Spec

\* When the first save() of an object graph answers true, the record and all
\* that is attached to it have a row.
THEOREM AttachedCorrect == Spec => []AttachedAreStored
<1>1. RefInv => AttachedAreStored
  <2> SUFFICES ASSUME RefInv, Answered, calls = 1, result = "true",
                      NEW r \in {call.rec} \cup Parents(call.rec) \cup Children(call.rec)
               PROVE  Visible(r)
    BY DEF AttachedAreStored
  <2>1. Stored(call.rec, Rows)
    BY DEF RefInv
  <2> QED BY <2>1, RowsSeen DEF Stored, Attached
<1> QED BY <1>1, InitRef, NextRef, PTL DEF Spec

----------------------------------------------------------------------------
(* The end of the recursion *)

\* Records that are not saved as a parent: they count as persistent, or are
\* intermediate ones, which have no record that belongs to them.
Settled == {r \in Records : dirtyState[r] = "persistent" \/ Joined(r) # {}}

FrameSkips(f, settled) ==
    /\ f.pc = "before" => f.rest \subseteq Parents(f.rec)
    /\ f.pc = "after" => f.rec \in settled

SkipOk(s, settled) ==
    /\ \A i \in 1 .. Len(s) : FrameSkips(s[i], settled)
    /\ \A i, j \in 1 .. Len(s) :
          i < j /\ s[i].rec = s[j].rec /\ s[i].pc = "after" => s[j - 1].pc # "before"

SkipInv == Inv /\ SkipOk(stack, Settled)

LEMMA SkipGoesOn ==
    ASSUME stack \in Seq(FrameType), stack # <<>>, NEW S, SkipOk(stack, S), NEW T, S \subseteq T,
           NEW pc, NEW rest, GoOn(pc, rest), FrameSkips(MovedFrame(pc, rest), T)
    PROVE  SkipOk(stack', T)
<1> DEFINE n == Len(stack)
           s == GoneOn(pc, rest)
<1>1. n \in Nat \ {0} /\ Top = stack[n]
  BY BelowTop
<1>2. /\ Len(s) = n /\ s[n] = MovedFrame(pc, rest)
      /\ \A i \in 1 .. n - 1 : s[i] = stack[i]
  BY MovedTo
<1>3. s[n].rec = stack[n].rec
  BY <1>1, <1>2, MovedFields
<1>4. stack' = s
  BY DEF GoOn, GoneOn
<1> HIDE DEF s, n
<1>5. ASSUME NEW i \in 1 .. n
      PROVE  FrameSkips(s[i], T)
  <2>1. CASE i = n
    BY <1>2, <2>1
  <2>2. CASE i < n
    <3>1. FrameSkips(stack[i], S)
      BY DEF SkipOk, n
    <3>2. s[i] = stack[i]
      BY <1>1, <1>2, <2>2
    <3> QED BY <3>1, <3>2 DEF FrameSkips
  <2> QED BY <1>1, <2>1, <2>2
<1>6. ASSUME NEW i \in 1 .. n, NEW j \in 1 .. n, i < j, s[i].rec = s[j].rec, s[i].pc = "after"
      PROVE  s[j - 1].pc # "before"
  <2>1. i \in 1 .. n - 1 /\ j - 1 \in 1 .. n - 1
    BY <1>1, <1>6
  <2>2. s[i] = stack[i] /\ s[j - 1] = stack[j - 1]
    BY <1>2, <2>1
  <2>3. s[j].rec = stack[j].rec
    BY <1>1, <1>2, <1>3
  <2>4. stack[i].rec = stack[j].rec /\ stack[i].pc = "after"
    BY <1>6, <2>2, <2>3
  <2>5. stack[j - 1].pc # "before"
    BY <1>6, <2>4 DEF SkipOk, n
  <2> QED BY <2>2, <2>5
<1> QED BY <1>2, <1>4, <1>5, <1>6 DEF SkipOk

LEMMA SkipNests ==
    ASSUME stack \in Seq(FrameType), stack # <<>>, NEW S, SkipOk(stack, S), NEW T, S \subseteq T,
           NEW r, stack' = Append(PutAside(r), Frame(r)), Top.pc = "before" => r \notin S
    PROVE  SkipOk(stack', T)
<1> DEFINE n == Len(stack)
           rest == Top.rest \ {r}
           low == GoneOn(Top.pc, rest)
           s == stack'
<1>1. n \in Nat \ {0} /\ Top = stack[n] /\ Top \in FrameType
  BY BelowTop
<1>2. /\ Len(low) = n /\ low[n] = MovedFrame(Top.pc, rest)
      /\ \A i \in 1 .. n - 1 : low[i] = stack[i]
  BY MovedTo
<1>3. low \in Seq(FrameType) /\ s = Append(low, Frame(r))
  <2>1. rest \in SUBSET Records /\ Top.pc \in {"start", "alone", "before", "after"}
    BY <1>1 DEF FrameType
  <2> QED BY <2>1, Moved, PutAsideIsMove
<1>4. low[n].rec = stack[n].rec /\ low[n].pc = stack[n].pc /\ low[n].rest = rest
  <2> DEFINE pc == Top.pc
  <2>1. low[n] = MovedFrame(pc, rest)
    BY <1>2
  <2> HIDE DEF pc, rest, low, n
  <2>2. /\ MovedFrame(pc, rest).rec = Top.rec
        /\ MovedFrame(pc, rest).pc = pc /\ MovedFrame(pc, rest).rest = rest
    BY MovedFields
  <2> QED BY <1>1, <2>1, <2>2 DEF pc
<1> HIDE DEF low
<1>5. /\ Len(s) = n + 1 /\ s[n + 1] = Frame(r) /\ \A i \in 1 .. n : s[i] = low[i]
  BY <1>1, <1>2, <1>3
<1>6. Frame(r).pc = "start" /\ Frame(r).rec = r
  BY DEF Frame
<1> HIDE DEF s, n
<1>7. \A i \in 1 .. n : s[i].rec = stack[i].rec /\ s[i].pc = stack[i].pc
  BY <1>1, <1>2, <1>4, <1>5
<1>8. \A i \in 1 .. n : FrameSkips(stack[i], S)
  BY DEF SkipOk, n
<1>9. ASSUME NEW i \in 1 .. n + 1
      PROVE  FrameSkips(s[i], T)
  <2>1. CASE i = n + 1
    BY <1>5, <1>6, <2>1 DEF FrameSkips
  <2>2. CASE i = n
    <3>1. s[i].rest \subseteq stack[i].rest /\ s[i].rec = stack[i].rec /\ s[i].pc = stack[i].pc
      BY <1>1, <1>4, <1>5, <2>2
    <3>2. FrameSkips(stack[i], S)
      BY <1>1, <1>8, <2>2
    <3> QED BY <3>1, <3>2 DEF FrameSkips
  <2>3. CASE i < n
    <3>1. s[i] = stack[i] /\ FrameSkips(stack[i], S)
      BY <1>1, <1>2, <1>5, <1>8, <2>3
    <3> QED BY <3>1 DEF FrameSkips
  <2> QED BY <1>1, <2>1, <2>2, <2>3
<1>10. ASSUME NEW i \in 1 .. n + 1, NEW j \in 1 .. n + 1, i < j,
              s[i].rec = s[j].rec, s[i].pc = "after"
       PROVE  s[j - 1].pc # "before"
  <2>1. i \in 1 .. n /\ j - 1 \in 1 .. n
    BY <1>1, <1>10
  <2>2. s[j - 1].pc = stack[j - 1].pc /\ s[i].rec = stack[i].rec /\ stack[i].pc = "after"
    BY <1>7, <1>10, <2>1
  <2>3. CASE j = n + 1
    <3>1. stack[i].rec = r
      BY <1>5, <1>6, <1>10, <2>2, <2>3
    <3>2. r \in S
      BY <1>8, <2>1, <2>2, <3>1 DEF FrameSkips
    <3>3. stack[j - 1] = Top
      BY <1>1, <2>3
    <3> QED BY <2>2, <3>2, <3>3
  <2>4. CASE j \in 1 .. n
    <3>1. stack[i].rec = stack[j].rec
      BY <1>7, <1>10, <2>2, <2>4
    <3>2. stack[j - 1].pc # "before"
      BY <1>10, <2>1, <2>2, <2>4, <3>1 DEF SkipOk, n
    <3> QED BY <2>2, <3>2
  <2> QED BY <1>1, <2>3, <2>4
<1> QED BY <1>5, <1>9, <1>10 DEF SkipOk, s

LEMMA SkipReturns ==
    ASSUME stack \in Seq(FrameType), stack # <<>>, NEW S, SkipOk(stack, S), NEW T, S \subseteq T,
           NEW ret, Return(ret) \/ Throw
    PROVE  SkipOk(stack', T)
<1>1. CASE Throw
  BY <1>1, Len(<<>>) = 0 DEF Throw, SkipOk
<1>2. CASE Return(ret)
  <2> DEFINE n == Len(stack)
             s == Front(stack)
  <2>1. n \in Nat \ {0} /\ Len(s) = n - 1 /\ \A i \in 1 .. n - 1 : s[i] = stack[i]
    BY BelowTop
  <2>2. stack' = s
    BY <1>2 DEF Return
  <2> HIDE DEF s, n
  <2>3. ASSUME NEW i \in 1 .. n - 1
        PROVE  FrameSkips(s[i], T)
    <3>1. FrameSkips(stack[i], S)
      BY <2>1 DEF SkipOk, n
    <3> QED BY <2>1, <3>1 DEF FrameSkips
  <2>4. ASSUME NEW i \in 1 .. n - 1, NEW j \in 1 .. n - 1, i < j,
               s[i].rec = s[j].rec, s[i].pc = "after"
        PROVE  s[j - 1].pc # "before"
    <3>1. j - 1 \in 1 .. n - 1 /\ i \in 1 .. n /\ j \in 1 .. n
      BY <2>1, <2>4
    <3>2. stack[i].rec = stack[j].rec /\ stack[i].pc = "after"
      BY <2>1, <2>4
    <3>3. stack[j - 1].pc # "before"
      BY <2>4, <3>1, <3>2 DEF SkipOk, n
    <3> QED BY <2>1, <3>1, <3>3
  <2> QED BY <2>1, <2>2, <2>3, <2>4 DEF SkipOk
<1> QED BY <1>1, <1>2

LEMMA SkipDone ==
    ASSUME Inv', shape' = shape, SkipOk(stack', Settled')
    PROVE  SkipInv'
<1>2. ASSUME NEW i \in 1 .. Len(stack')
      PROVE  FrameSkips(stack[i], Settled)'
  <2>1. FrameSkips(stack'[i], Settled')
    BY DEF SkipOk
  <2> QED BY <2>1, ShapeKept DEF FrameSkips
<1>3. \A i, j \in 1 .. Len(stack') :
         i < j /\ stack'[i].rec = stack'[j].rec /\ stack'[i].pc = "after" => stack'[j - 1].pc # "before"
  BY DEF SkipOk
<1> QED BY <1>2, <1>3 DEF SkipInv, SkipOk

\* A record that is settled stays so, but for an intermediate one.
LEMMA SettledStays ==
    ASSUME Inv, shape' = shape,
           \/ dirtyState' = dirtyState
           \/ \E r \in Records, state \in DirtyStates :
                 /\ dirtyState' = [dirtyState EXCEPT ![r] = state]
                 /\ r \in Settled => state = "persistent" \/ Joined(r) # {}
    PROVE  Settled \subseteq Settled'
<1>1. \A r : Joined(r)' = Joined(r)
  BY ShapeKept
<1>2. dirtyState \in [Records -> DirtyStates]
  BY DEF Inv, RecordInv
<1> QED BY <1>1, <1>2 DEF Settled

LEMMA ExistsSettles ==
    ASSUME Inv, stack # <<>>, shape' = shape,
           dirtyState' = [dirtyState EXCEPT ![Top.rec] = StateAfterExists(Top.rec)]
    PROVE  Settled \subseteq Settled'
<1> DEFINE r == Top.rec
           state == StateAfterExists(r)
<1>1. r \in Records /\ dirtyState \in [Records -> DirtyStates]
  BY StackSteps DEF Inv, RecordInv
<1>2. state \in DirtyStates /\ (dirtyState[r] = "persistent" => state = "persistent")
  BY <1>1 DEF StateAfterExists, DirtyStates
<1>3. r \in Settled => state = "persistent" \/ Joined(r) # {}
  BY <1>2 DEF Settled
<1> HIDE DEF r, state
<1>4. dirtyState' = [dirtyState EXCEPT ![r] = state]
  BY DEF r, state
<1> QED BY <1>1, <1>2, <1>3, <1>4, SettledStays

\* A frame ends its record's own turn.
LEMMA OwnDoneSkips ==
    ASSUME SkipInv, Inv', shape' = shape, OwnTurn, OwnDone,
           dirtyState' = [dirtyState EXCEPT ![Top.rec] = "persistent"]
    PROVE  SkipInv'
<1> DEFINE r == Top.rec
<1>1. /\ stack \in Seq(FrameType) /\ stack # <<>> /\ SkipOk(stack, Settled)
      /\ r \in Records /\ dirtyState \in [Records -> DirtyStates]
  BY StackSteps DEF SkipInv, Inv, RecordInv, OwnTurn, At
<1>2. Settled \subseteq Settled' /\ r \in Settled'
  <2>1. "persistent" \in DirtyStates
    BY DEF DirtyStates
  <2>2. Settled \subseteq Settled'
    BY <1>1, <2>1, SettledStays DEF SkipInv
  <2>3. dirtyState'[r] = "persistent"
    BY <1>1
  <2> QED BY <1>1, <2>2, <2>3 DEF Settled
<1>3. CASE Throw \/ Return("true")
  <2>1. SkipOk(stack', Settled')
    BY <1>1, <1>2, <1>3, SkipReturns
  <2> QED BY <2>1, SkipDone
<1>4. CASE GoOn("after", Children(r))
  <2> DEFINE rest == Children(r)
             f == MovedFrame("after", rest)
  <2>1. f.rec = r /\ f.pc = "after" /\ f.rest = rest
    BY <1>1, MovedFields
  <2> HIDE DEF f
  <2>2. FrameSkips(f, Settled')
    BY <1>2, <2>1 DEF FrameSkips
  <2>3. GoOn("after", rest)
    BY <1>4
  <2> HIDE DEF rest
  <2>4. SkipOk(stack', Settled')
    BY <1>1, <1>2, <2>2, <2>3, SkipGoesOn DEF f
  <2> QED BY <2>4, SkipDone
<1> QED BY <1>3, <1>4 DEF OwnDone, Answer

\* The frame that is saved next, and what returns.
LEMMA SkipMoves ==
    ASSUME SkipInv, Inv', stack # <<>>, UNCHANGED shape, Settled \subseteq Settled',
           \/ Throw \/ Return("true") \/ Return("false")
           \/ GoOn("alone", {})
           \/ \E rest \in SUBSET Parents(Top.rec) : GoOn("before", rest)
           \/ \E r \in Records : /\ stack' = Append(PutAside(r), Frame(r))
                                 /\ Top.pc = "before" => r \notin Settled
    PROVE  SkipInv'
<1>1. stack \in Seq(FrameType) /\ SkipOk(stack, Settled)
  BY DEF SkipInv, Inv
<1>2. CASE Throw \/ Return("true") \/ Return("false")
  <2>1. SkipOk(stack', Settled')
    BY <1>1, <1>2, SkipReturns
  <2> QED BY <2>1, SkipDone
<1>3. CASE GoOn("alone", {})
  <2> DEFINE f == MovedFrame("alone", {})
  <2>1. f.pc = "alone"
    BY <1>1, MovedFields
  <2> HIDE DEF f
  <2>2. FrameSkips(f, Settled')
    BY <2>1 DEF FrameSkips
  <2>3. SkipOk(stack', Settled')
    BY <1>1, <1>3, <2>2, SkipGoesOn DEF f
  <2> QED BY <2>3, SkipDone
<1>4. CASE \E rest \in SUBSET Parents(Top.rec) : GoOn("before", rest)
  <2>0. PICK rest \in SUBSET Parents(Top.rec) : GoOn("before", rest)
    BY <1>4
  <2> DEFINE f == MovedFrame("before", rest)
  <2>1. f.pc = "before" /\ f.rec = Top.rec /\ f.rest = rest
    BY <1>1, MovedFields
  <2> HIDE DEF f
  <2>2. FrameSkips(f, Settled')
    BY <2>1 DEF FrameSkips
  <2>3. SkipOk(stack', Settled')
    BY <1>1, <2>0, <2>2, SkipGoesOn DEF f
  <2> QED BY <2>3, SkipDone
<1>5. CASE \E r \in Records : /\ stack' = Append(PutAside(r), Frame(r))
                              /\ Top.pc = "before" => r \notin Settled
  <2>1. SkipOk(stack', Settled')
    BY <1>1, <1>5, SkipNests
  <2> QED BY <2>1, SkipDone
<1> QED BY <1>2, <1>3, <1>4, <1>5

LEMMA SkipFacts ==
    ASSUME SkipInv, stack # <<>>
    PROVE  /\ Top \in FrameType /\ Top.rec \in Records
           /\ Top.pc = "before" => Top.rest \subseteq Parents(Top.rec)
<1>1. stack \in Seq(FrameType) /\ SkipOk(stack, Settled)
  BY DEF SkipInv, Inv
<1> DEFINE n == Len(stack)
<1>2. n \in Nat \ {0} /\ Top = stack[n]
  BY <1>1, BelowTop
<1>3. FrameSkips(stack[n], Settled)
  BY <1>1, <1>2 DEF SkipOk
<1>4. Top \in FrameType /\ Top.rec \in Records
  BY <1>1, StackSteps
<1> QED BY <1>2, <1>3, <1>4 DEF FrameSkips

LEMMA SkipSteps ==
    ASSUME SkipInv, Inv', NEW r \in Records, NEW outcome
    PROVE  /\ StartAlone \/ StartThrows \/ RelationThrows \/ StartRelated(outcome) => SkipInv'
           /\ SkipParent(r) \/ SaveParent(r) => SkipInv'
           /\ ParentFailed \/ ChildFailed => SkipInv'
           /\ FinishRelated(outcome) => SkipInv'
<1>1. Inv /\ (dirtyState' = dirtyState /\ shape' = shape => Settled \subseteq Settled')
  BY SettledStays DEF SkipInv
<1>2. ASSUME StartAlone \/ StartThrows \/ RelationThrows \/ StartRelated(outcome)
      PROVE  SkipInv'
  <2>1. /\ stack # <<>> /\ shape' = shape /\ dirtyState' = dirtyState
        /\ Throw \/ GoOn("alone", {}) \/ GoOn("before", Parents(Top.rec))
    BY <1>2 DEF StartAlone, StartThrows, RelationThrows, StartRelated, At, recordVars, callVars
  <2>2. \A rest : rest = Parents(Top.rec) => rest \in SUBSET Parents(Top.rec)
    OBVIOUS
  <2> QED BY <1>1, <2>1, <2>2, SkipMoves
<1>3. ASSUME SkipParent(r)
      PROVE  SkipInv'
  <2>1. /\ stack # <<>> /\ Top.pc = "before" /\ shape' = shape /\ dirtyState' = dirtyState
        /\ GoOn("before", Top.rest \ {r})
    BY <1>3 DEF SkipParent, At, recordVars, callVars
  <2>2. Top.rest \ {r} \in SUBSET Parents(Top.rec)
    BY <2>1, SkipFacts
  <2> QED BY <1>1, <2>1, <2>2, SkipMoves
<1>4. ASSUME SaveParent(r)
      PROVE  SkipInv'
  <2>1. /\ stack # <<>> /\ Top.pc = "before" /\ r \in Top.rest /\ dirtyState[r] # "persistent"
        /\ shape' = shape /\ dirtyState' = dirtyState
        /\ stack' = Append(PutAside(r), Frame(r))
    BY <1>4 DEF SaveParent, At, recordVars, callVars, PutAside
  <2>2. r \notin Settled
    <3>1. <<Top.rec, r>> \in shape.belongs /\ Top.rec \in Records /\ shape \in Shapes
      BY <1>1, <2>1, SkipFacts DEF Parents, Inv, CallInv
    <3>2. ASSUME NEW c \in Joined(r) PROVE FALSE
      <4> DEFINE join == <<r, c>>
      <4>1. join \in shape.joins /\ join[1] = r
        BY DEF Joined
      <4> HIDE DEF join
      <4>2. <<Top.rec, join[1]>> \notin shape.belongs
        BY <3>1, <4>1, JoinsAssumption
      <4> QED BY <3>1, <4>1, <4>2
    <3> QED BY <2>1, <3>2 DEF Settled
  <2> QED BY <1>1, <2>1, <2>2, SkipMoves
<1>5. ASSUME ParentFailed \/ ChildFailed
      PROVE  SkipInv'
  <2>1. /\ stack # <<>> /\ shape' = shape /\ dirtyState' = dirtyState
        /\ Throw \/ Return("false")
    BY <1>5 DEF ParentFailed, ChildFailed, Fail, Answer, At, recordVars, callVars
  <2> QED BY <1>1, <2>1, SkipMoves
<1>6. ASSUME FinishRelated(outcome)
      PROVE  SkipInv'
  <2>1. /\ stack # <<>> /\ shape' = shape /\ dirtyState' = dirtyState
        /\ Throw \/ Return("true")
    BY <1>6 DEF FinishRelated, Answer, At, callVars
  <2> QED BY <1>1, <2>1, SkipMoves
<1> QED BY <1>2, <1>3, <1>4, <1>5, <1>6

LEMMA SaveChildSkips ==
    ASSUME SkipInv, Inv', NEW c \in Records, SaveChild(c)
    PROVE  SkipInv'
<1>1. /\ stack # <<>> /\ Top.pc = "after" /\ shape' = shape
      /\ stack' = Append(PutAside(c), Frame(c))
      /\ IF Joined(c) = {} THEN UNCHANGED recordVars ELSE LoadIntermediate(c)
  BY DEF SaveChild, At, callVars, PutAside
<1>2. Settled \subseteq Settled'
  <2>1. CASE Joined(c) = {}
    BY <1>1, <2>1, SettledStays DEF SkipInv, recordVars
  <2>2. CASE Joined(c) # {}
    <3>1. PICK found \in {FALSE, Visible(c)} :
             dirtyState' = [dirtyState EXCEPT ![c] = IF found THEN "persistent" ELSE "transient"]
      BY <1>1, <2>2 DEF LoadIntermediate
    <3> DEFINE state == IF found THEN "persistent" ELSE "transient"
    <3>2. state \in DirtyStates
      BY DEF DirtyStates
    <3>3. dirtyState' = [dirtyState EXCEPT ![c] = state]
      BY <3>1
    <3> HIDE DEF state
    <3> QED BY <1>1, <2>2, <3>2, <3>3, SettledStays DEF SkipInv
  <2> QED BY <2>1, <2>2
<1> QED BY <1>1, <1>2, SkipMoves

LEMMA OwnSkips ==
    ASSUME SkipInv, Inv', NEW verdict, NEW outcome
    PROVE  /\ OwnVetoed \/ OwnThrows => SkipInv'
           /\ OwnUnchanged => SkipInv'
           /\ OwnWritten(verdict, outcome) => SkipInv'
<1>1. ASSUME stack # <<>>, shape' = shape, Throw \/ Return("false"),
             dirtyState' = [dirtyState EXCEPT ![Top.rec] = StateAfterExists(Top.rec)]
      PROVE  SkipInv'
  <2>1. Settled \subseteq Settled'
    BY <1>1, ExistsSettles DEF SkipInv
  <2> QED BY <1>1, <2>1, SkipMoves
<1>2. ASSUME OwnVetoed \/ OwnThrows
      PROVE  SkipInv'
  <2>1. /\ stack # <<>> /\ shape' = shape /\ (Throw \/ Return("false"))
        /\ dirtyState' = [dirtyState EXCEPT ![Top.rec] = StateAfterExists(Top.rec)]
    BY <1>2 DEF OwnVetoed, OwnThrows, OwnTurn, At, Fail, callVars
  <2> QED BY <1>1, <2>1
<1>3. ASSUME OwnUnchanged
      PROVE  SkipInv'
  BY <1>3, OwnDoneSkips DEF OwnUnchanged, callVars
<1>4. ASSUME OwnWritten(verdict, outcome)
      PROVE  SkipInv'
  <2> DEFINE ret == Written(Top.rec, outcome).ret
  <2>1. ret \in Returns /\ OwnTurn /\ stack # <<>>
    <3>1. stack # <<>> /\ OwnTurn
      BY <1>4 DEF OwnWritten, OwnTurn, At
    <3>2. DataInv /\ calls \in Nat /\ Top.rec \in Records
      BY <3>1, SkipFacts, BoundsAssumption DEF SkipInv, Inv, CallInv
    <3> QED BY <3>1, <3>2, WriteTyped
  <2>2. /\ shape' = shape
        /\ dirtyState' = [dirtyState EXCEPT ![Top.rec] =
                             IF ret = "true" THEN "persistent" ELSE StateAfterExists(Top.rec)]
        /\ \/ ret = "throw" /\ Throw
           \/ ret = "false" /\ Answer("false")
           \/ ret = "true" /\ OwnDone
    <3>1. shape' = shape
      BY <1>4 DEF OwnWritten, callVars
    <3>2. dirtyState' = [dirtyState EXCEPT ![Top.rec] =
                            IF ret = "true" THEN "persistent" ELSE StateAfterExists(Top.rec)]
      BY <1>4 DEF OwnWritten
    <3>3. \/ ret = "throw" /\ Throw
          \/ ret = "false" /\ Answer("false")
          \/ ret = "true" /\ OwnDone
      BY <1>4, <2>1 DEF OwnWritten, Returns
    <3> QED BY <3>1, <3>2, <3>3
  <2> HIDE DEF ret
  <2>3. CASE ret = "true"
    BY <2>1, <2>2, <2>3, OwnDoneSkips
  <2>4. CASE ret # "true"
    BY <1>1, <2>1, <2>2, <2>4 DEF Answer
  <2> QED BY <2>3, <2>4
<1> QED BY <1>2, <1>3, <1>4

LEMMA NextSkips == SkipInv /\ [Next]_vars => SkipInv'
<1> SUFFICES ASSUME SkipInv, [Next]_vars PROVE SkipInv'
  OBVIOUS
<1>1. Inv /\ Inv'
  BY NextInv DEF SkipInv
<1>2. CASE \E r \in Records : Save(r)
  <2>1. PICK r \in Records : Save(r)
    BY <1>2
  <2>2. stack' = <<Frame(r)>> /\ shape' = shape
    BY <2>1 DEF Save
  <2>3. Len(stack') = 1 /\ stack'[1].pc = "start"
    BY <2>2 DEF Frame
  <2>4. ASSUME NEW i \in 1 .. Len(stack')
        PROVE  FrameSkips(stack'[i], Settled')
    BY <2>3 DEF FrameSkips
  <2>5. \A i, j \in 1 .. Len(stack') : ~(i < j)
    BY <2>3
  <2>6. SkipOk(stack', Settled')
    BY <2>4, <2>5 DEF SkipOk
  <2> QED BY <1>1, <2>2, <2>6, SkipDone
<1>3. CASE Step
  <2>1. PICK r \in Records : TRUE
    BY <1>1, <1>3, SkipFacts
       DEF Step, StartAlone, StartThrows, RelationThrows, ParentFailed, ChildFailed,
           StartRelated, FinishRelated, OwnVetoed, OwnThrows, OwnUnchanged, OwnWritten,
           OwnTurn, At
  <2>2. CASE \E outcome \in Outcome : StartRelated(outcome) \/ FinishRelated(outcome)
    BY <1>1, <2>1, <2>2, SkipSteps
  <2>3. CASE \E x \in Records : SkipParent(x) \/ SaveParent(x) \/ SaveChild(x)
    BY <1>1, <2>3, SkipSteps, SaveChildSkips
  <2>4. CASE \E verdict \in Verdicts, outcome \in Outcome : OwnWritten(verdict, outcome)
    BY <1>1, <2>4, OwnSkips
  <2>5. CASE \/ StartAlone \/ StartThrows \/ RelationThrows \/ ParentFailed \/ ChildFailed
    BY <1>1, <2>1, <2>5, SkipSteps
  <2>6. CASE OwnVetoed \/ OwnThrows \/ OwnUnchanged
    BY <1>1, <2>6, OwnSkips
  <2> QED BY <1>3, <2>2, <2>3, <2>4, <2>5, <2>6 DEF Step
<1>4. CASE AppBegin \/ AppCommit \/ AppRollback
  <2>1. stack' = <<>> /\ shape' = shape
    BY <1>4 DEF AppBegin, AppCommit, AppRollback, AppCalls, callVars
  <2>2. SkipOk(stack', Settled')
    BY <2>1, Len(<<>>) = 0 DEF SkipOk
  <2> QED BY <1>1, <2>1, <2>2, SkipDone
<1>5. CASE UNCHANGED vars
  <2>1. shape' = shape /\ stack' = stack /\ dirtyState' = dirtyState
    BY <1>5 DEF vars
  <2>2. Settled' = Settled
    BY <2>1, ShapeKept DEF Settled
  <2>3. SkipOk(stack', Settled')
    BY <2>1, <2>2 DEF SkipInv
  <2> QED BY <1>1, <2>1, <2>3, SkipDone
<1> QED BY <1>2, <1>3, <1>4, <1>5 DEF Next

\* The save() calls of records that are attached to one another in both
\* directions do not come back to a record that the call has stored as to a
\* parent: for any graph of records and whatever fails on the way.
THEOREM SkipCorrect == Spec => []WrittenParentSkipped
<1>1. Init => SkipInv
  <2> SUFFICES ASSUME Init PROVE SkipInv
    OBVIOUS
  <2>1. stack = <<>>
    BY DEF Init
  <2> QED BY <2>1, InitInv, Len(<<>>) = 0 DEF SkipInv, SkipOk
<1>2. SkipInv => WrittenParentSkipped
  BY DEF SkipInv, SkipOk, WrittenParentSkipped
<1> QED BY <1>1, <1>2, NextSkips, PTL DEF Spec

----------------------------------------------------------------------------
(* The depth of the recursion *)

\* The records that a frame saves where it stands.
Saves(f) == IF f.pc = "before" THEN Parents(f.rec) ELSE Children(f.rec)

FrameLinks(f) == f.pc \in OpenPcs => f.rest \subseteq Saves(f)

\* Each frame saves the record of the frame above it.
LinkOk(s) ==
    /\ \A i \in 1 .. Len(s) : FrameLinks(s[i])
    /\ \A i \in 1 .. Len(s) - 1 : s[i].pc \in OpenPcs /\ s[i + 1].rec \in Saves(s[i])

LinkInv == Inv /\ LinkOk(stack)

LEMMA LinkGoesOn ==
    ASSUME stack \in Seq(FrameType), stack # <<>>, LinkOk(stack),
           NEW pc, NEW rest, GoOn(pc, rest), FrameLinks(MovedFrame(pc, rest))
    PROVE  LinkOk(stack')
<1> DEFINE n == Len(stack)
           s == GoneOn(pc, rest)
<1>1. n \in Nat \ {0} /\ Top = stack[n]
  BY BelowTop
<1>2. /\ Len(s) = n /\ s[n] = MovedFrame(pc, rest)
      /\ \A i \in 1 .. n - 1 : s[i] = stack[i]
  BY MovedTo
<1>3. s[n].rec = stack[n].rec
  BY <1>1, <1>2, MovedFields
<1>4. stack' = s
  BY DEF GoOn, GoneOn
<1>5. /\ \A i \in 1 .. n : FrameLinks(stack[i])
      /\ \A i \in 1 .. n - 1 : stack[i].pc \in OpenPcs /\ stack[i + 1].rec \in Saves(stack[i])
  BY DEF LinkOk
<1> HIDE DEF s, n
<1>6. ASSUME NEW i \in 1 .. n
      PROVE  FrameLinks(s[i])
  <2>1. CASE i = n
    BY <1>2, <2>1
  <2>2. CASE i \in 1 .. n - 1
    <3>1. FrameLinks(stack[i]) /\ s[i] = stack[i]
      BY <1>2, <1>5, <2>2
    <3> QED BY <3>1
  <2> QED BY <1>1, <2>1, <2>2
<1>7. ASSUME NEW i \in 1 .. n - 1
      PROVE  s[i].pc \in OpenPcs /\ s[i + 1].rec \in Saves(s[i])
  <2>1. s[i] = stack[i]
    BY <1>2
  <2>2. i + 1 = n \/ i + 1 \in 1 .. n - 1
    BY <1>1
  <2>3. s[i + 1].rec = stack[i + 1].rec
    BY <1>2, <1>3, <2>2
  <2> QED BY <1>5, <2>1, <2>3
<1> QED BY <1>2, <1>4, <1>6, <1>7 DEF LinkOk

LEMMA LinkNests ==
    ASSUME stack \in Seq(FrameType), stack # <<>>, LinkOk(stack), Top.pc \in OpenPcs,
           NEW r \in Top.rest, stack' = Append(PutAside(r), Frame(r))
    PROVE  LinkOk(stack')
<1> DEFINE n == Len(stack)
           rest == Top.rest \ {r}
           low == GoneOn(Top.pc, rest)
           s == stack'
<1>1. n \in Nat \ {0} /\ Top = stack[n] /\ Top \in FrameType
  BY BelowTop
<1>2. /\ Len(low) = n /\ low[n] = MovedFrame(Top.pc, rest)
      /\ \A i \in 1 .. n - 1 : low[i] = stack[i]
  BY MovedTo
<1>3. low \in Seq(FrameType) /\ s = Append(low, Frame(r))
  <2>1. rest \in SUBSET Records /\ Top.pc \in {"start", "alone", "before", "after"}
    BY <1>1 DEF FrameType
  <2> QED BY <2>1, Moved, PutAsideIsMove
<1>4. /\ \A i \in 1 .. n : FrameLinks(stack[i])
      /\ \A i \in 1 .. n - 1 : stack[i].pc \in OpenPcs /\ stack[i + 1].rec \in Saves(stack[i])
  BY DEF LinkOk
<1>5. /\ low[n].rec = Top.rec /\ low[n].pc = Top.pc /\ low[n].rest = rest
  <2> DEFINE pc == Top.pc
  <2>1. low[n] = MovedFrame(pc, rest)
    BY <1>2
  <2> HIDE DEF pc, rest, low, n
  <2>2. /\ MovedFrame(pc, rest).rec = Top.rec
        /\ MovedFrame(pc, rest).pc = pc /\ MovedFrame(pc, rest).rest = rest
    BY MovedFields
  <2> QED BY <2>1, <2>2 DEF pc
<1> HIDE DEF low
<1>6. /\ Len(s) = n + 1 /\ s[n + 1] = Frame(r) /\ \A i \in 1 .. n : s[i] = low[i]
  BY <1>1, <1>2, <1>3
<1>7. Frame(r).pc = "start" /\ Frame(r).rec = r
  BY DEF Frame
<1> HIDE DEF s, n
<1>8. Top.rest \subseteq Saves(Top) /\ Saves(low[n]) = Saves(Top)
  BY <1>1, <1>4, <1>5 DEF FrameLinks, Saves
<1>9. ASSUME NEW i \in 1 .. n + 1
      PROVE  FrameLinks(s[i])
  <2>1. CASE i = n + 1
    BY <1>6, <1>7, <2>1 DEF FrameLinks, OpenPcs
  <2>2. CASE i = n
    <3>1. s[i] = low[n]
      BY <1>1, <1>6, <2>2
    <3> QED BY <1>5, <1>8, <3>1 DEF FrameLinks
  <2>3. CASE i \in 1 .. n - 1
    <3>1. s[i] = stack[i] /\ FrameLinks(stack[i])
      BY <1>1, <1>2, <1>4, <1>6, <2>3
    <3> QED BY <3>1
  <2> QED BY <1>1, <2>1, <2>2, <2>3
<1>10. ASSUME NEW i \in 1 .. n
       PROVE  s[i].pc \in OpenPcs /\ s[i + 1].rec \in Saves(s[i])
  <2>1. CASE i = n
    <3>1. s[i] = low[n] /\ s[i + 1].rec = r
      BY <1>1, <1>6, <1>7, <2>1
    <3> QED BY <1>5, <1>8, <3>1
  <2>2. CASE i \in 1 .. n - 1
    <3>1. s[i] = stack[i] /\ s[i + 1] = low[i + 1]
      BY <1>1, <1>2, <1>6, <2>2
    <3>2. i + 1 = n \/ i + 1 \in 1 .. n - 1
      BY <1>1, <2>2
    <3>3. low[i + 1].rec = stack[i + 1].rec
      BY <1>1, <1>2, <1>5, <3>2
    <3> QED BY <1>4, <2>2, <3>1, <3>3
  <2> QED BY <1>1, <2>1, <2>2
<1>11. Len(s) - 1 = n
  BY <1>1, <1>6
<1> QED BY <1>6, <1>9, <1>10, <1>11 DEF LinkOk, s

LEMMA LinkReturns ==
    ASSUME stack \in Seq(FrameType), stack # <<>>, LinkOk(stack), NEW ret, Return(ret) \/ Throw
    PROVE  LinkOk(stack')
<1>1. CASE Throw
  BY <1>1, Len(<<>>) = 0 DEF Throw, LinkOk
<1>2. CASE Return(ret)
  <2> DEFINE n == Len(stack)
             s == Front(stack)
  <2>1. n \in Nat \ {0} /\ Len(s) = n - 1 /\ \A i \in 1 .. n - 1 : s[i] = stack[i]
    BY BelowTop
  <2>2. stack' = s
    BY <1>2 DEF Return
  <2>3. /\ \A i \in 1 .. n : FrameLinks(stack[i])
        /\ \A i \in 1 .. n - 1 : stack[i].pc \in OpenPcs /\ stack[i + 1].rec \in Saves(stack[i])
    BY DEF LinkOk
  <2> HIDE DEF s, n
  <2>4. ASSUME NEW i \in 1 .. n - 1
        PROVE  FrameLinks(s[i])
    <3>1. i \in 1 .. n /\ s[i] = stack[i]
      BY <2>1
    <3> QED BY <2>3, <3>1
  <2>5. ASSUME NEW i \in 1 .. Len(s) - 1
        PROVE  s[i].pc \in OpenPcs /\ s[i + 1].rec \in Saves(s[i])
    <3>1. i \in 1 .. n - 1 /\ s[i] = stack[i] /\ s[i + 1] = stack[i + 1]
      BY <2>1
    <3> QED BY <2>3, <3>1
  <2> QED BY <2>1, <2>2, <2>4, <2>5 DEF LinkOk
<1> QED BY <1>1, <1>2

LEMMA LinkDone ==
    ASSUME Inv', shape' = shape, LinkOk(stack')
    PROVE  LinkInv'
<1>1. ASSUME NEW i \in 1 .. Len(stack')
      PROVE  FrameLinks(stack[i])'
  <2>1. FrameLinks(stack'[i])
    BY DEF LinkOk
  <2>2. stack'[i].pc \in OpenPcs => stack'[i].rest \subseteq Saves(stack'[i])
    BY <2>1 DEF FrameLinks
  <2>3. Saves(stack[i])' = Saves(stack'[i])
    BY ShapeKept DEF Saves
  <2> QED BY <2>2, <2>3 DEF FrameLinks, OpenPcs
<1>2. ASSUME NEW i \in 1 .. Len(stack') - 1
      PROVE  (stack[i].pc \in OpenPcs /\ stack[i + 1].rec \in Saves(stack[i]))'
  <2>1. stack'[i].pc \in OpenPcs /\ stack'[i + 1].rec \in Saves(stack'[i])
    BY DEF LinkOk
  <2>2. Saves(stack[i])' = Saves(stack'[i])
    BY ShapeKept DEF Saves
  <2> QED BY <2>1, <2>2 DEF OpenPcs
<1> QED BY <1>1, <1>2 DEF LinkInv, LinkOk

\* The frame that is saved next, and what returns.
LEMMA LinkMoves ==
    ASSUME LinkInv, Inv', stack # <<>>, shape' = shape,
           \/ Throw \/ \E ret \in {"true", "false"} : Return(ret)
           \/ GoOn("alone", {})
           \/ \E rest \in SUBSET Parents(Top.rec) : GoOn("before", rest)
           \/ GoOn("after", Children(Top.rec))
           \/ \E r \in Top.rest : Top.pc \in OpenPcs /\ stack' = Append(PutAside(r), Frame(r))
    PROVE  LinkInv'
<1>1. stack \in Seq(FrameType) /\ LinkOk(stack)
  BY DEF LinkInv, Inv
<1>2. CASE Throw \/ \E ret \in {"true", "false"} : Return(ret)
  <2>1. LinkOk(stack')
    BY <1>1, <1>2, LinkReturns
  <2> QED BY <2>1, LinkDone
<1>3. ASSUME NEW pc, NEW rest, GoOn(pc, rest),
             \/ pc = "alone"
             \/ pc = "before" /\ rest \subseteq Parents(Top.rec)
             \/ pc = "after" /\ rest = Children(Top.rec)
      PROVE  LinkInv'
  <2> DEFINE f == MovedFrame(pc, rest)
  <2>1. f.rec = Top.rec /\ f.pc = pc /\ f.rest = rest
    BY <1>1, MovedFields
  <2> HIDE DEF f
  <2>2. FrameLinks(f)
    BY <1>3, <2>1 DEF FrameLinks, Saves, OpenPcs
  <2>3. LinkOk(stack')
    BY <1>1, <1>3, <2>2, LinkGoesOn DEF f
  <2> QED BY <2>3, LinkDone
<1>4. CASE \E r \in Top.rest : Top.pc \in OpenPcs /\ stack' = Append(PutAside(r), Frame(r))
  <2>1. LinkOk(stack')
    BY <1>1, <1>4, LinkNests
  <2> QED BY <2>1, LinkDone
<1>5. GoOn("alone", {}) => LinkInv'
  BY <1>3
<1>6. ASSUME NEW rest \in SUBSET Parents(Top.rec), GoOn("before", rest)
      PROVE  LinkInv'
  BY <1>3, <1>6
<1>7. ASSUME GoOn("after", Children(Top.rec))
      PROVE  LinkInv'
  <2> DEFINE rest == Children(Top.rec)
  <2>1. rest = Children(Top.rec) /\ GoOn("after", rest)
    BY <1>7
  <2> HIDE DEF rest
  <2> QED BY <1>3, <2>1
<1> QED BY <1>2, <1>4, <1>5, <1>6, <1>7

LEMMA LinkSteps ==
    ASSUME LinkInv, Inv', NEW r \in Records, NEW outcome, NEW verdict
    PROVE  /\ StartAlone \/ StartThrows \/ RelationThrows \/ StartRelated(outcome) => LinkInv'
           /\ SkipParent(r) => LinkInv'
           /\ SaveParent(r) \/ SaveChild(r) => LinkInv'
           /\ ParentFailed \/ ChildFailed \/ FinishRelated(outcome) => LinkInv'
           /\ OwnVetoed \/ OwnThrows \/ OwnUnchanged \/ OwnWritten(verdict, outcome) => LinkInv'
<1>1. ASSUME StartAlone \/ StartThrows \/ RelationThrows \/ StartRelated(outcome)
      PROVE  LinkInv'
  <2>1. /\ stack # <<>> /\ shape' = shape
        /\ Throw \/ GoOn("alone", {}) \/ GoOn("before", Parents(Top.rec))
    BY <1>1 DEF StartAlone, StartThrows, RelationThrows, StartRelated, At, callVars
  <2>2. \A rest : rest = Parents(Top.rec) => rest \in SUBSET Parents(Top.rec)
    OBVIOUS
  <2> QED BY <2>1, <2>2, LinkMoves
<1>2. ASSUME SkipParent(r)
      PROVE  LinkInv'
  <2>1. /\ stack # <<>> /\ Top.pc = "before" /\ shape' = shape
        /\ GoOn("before", Top.rest \ {r})
    BY <1>2 DEF SkipParent, At, callVars
  <2>2. Top.rest \subseteq Parents(Top.rec)
    <3>1. stack \in Seq(FrameType) /\ LinkOk(stack)
      BY DEF LinkInv, Inv
    <3>2. Len(stack) \in 1 .. Len(stack) /\ Top = stack[Len(stack)]
      BY <2>1, <3>1, BelowTop
    <3>3. FrameLinks(Top)
      BY <3>1, <3>2 DEF LinkOk
    <3> QED BY <2>1, <3>3 DEF FrameLinks, Saves, OpenPcs
  <2>3. Top.rest \ {r} \in SUBSET Parents(Top.rec)
    BY <2>2
  <2> QED BY <2>1, <2>3, LinkMoves
<1>3. ASSUME SaveParent(r) \/ SaveChild(r)
      PROVE  LinkInv'
  <2>1. /\ stack # <<>> /\ Top.pc \in OpenPcs /\ r \in Top.rest /\ shape' = shape
        /\ stack' = Append(PutAside(r), Frame(r))
    BY <1>3 DEF SaveParent, SaveChild, NextAfter, At, callVars, PutAside, OpenPcs
  <2> QED BY <2>1, LinkMoves
<1>4. ASSUME ParentFailed \/ ChildFailed \/ FinishRelated(outcome)
      PROVE  LinkInv'
  <2>1. /\ stack # <<>> /\ shape' = shape
        /\ Throw \/ \E ret \in {"true", "false"} : Return(ret)
    BY <1>4 DEF ParentFailed, ChildFailed, FinishRelated, Fail, Answer, At, callVars
  <2> QED BY <2>1, LinkMoves
<1>5. ASSUME OwnVetoed \/ OwnThrows
      PROVE  LinkInv'
  <2>1. stack # <<>> /\ shape' = shape /\ (Throw \/ Return("false"))
    BY <1>5 DEF OwnVetoed, OwnThrows, OwnTurn, At, Fail, callVars
  <2> QED BY <2>1, LinkMoves
<1>6. ASSUME stack # <<>>, shape' = shape, OwnDone
      PROVE  LinkInv'
  <2>1. Throw \/ Return("true") \/ GoOn("after", Children(Top.rec))
    BY <1>6 DEF OwnDone, Answer
  <2> QED BY <1>6, <2>1, LinkMoves
<1>7. ASSUME OwnUnchanged
      PROVE  LinkInv'
  BY <1>6, <1>7 DEF OwnUnchanged, OwnTurn, At, callVars
<1>8. ASSUME OwnWritten(verdict, outcome)
      PROVE  LinkInv'
  <2> DEFINE w == Written(Top.rec, outcome)
  <2>1. stack # <<>> /\ shape' = shape
    BY <1>8 DEF OwnWritten, OwnTurn, At, callVars
  <2>2. w.ret \in Returns
    <3>1. DataInv /\ calls \in Nat /\ stack \in Seq(FrameType)
      BY BoundsAssumption DEF LinkInv, Inv, CallInv
    <3>2. Top.rec \in Records
      BY <2>1, <3>1, StackSteps
    <3> QED BY <3>1, <3>2, WriteTyped
  <2>3. Throw \/ Answer("false") \/ OwnDone
    BY <1>8, <2>2 DEF OwnWritten, Returns
  <2>4. CASE OwnDone
    BY <1>6, <2>1, <2>4
  <2>5. CASE Throw \/ Answer("false")
    <3>1. Throw \/ Return("false")
      BY <2>5 DEF Answer
    <3> QED BY <2>1, <3>1, LinkMoves
  <2> QED BY <2>3, <2>4, <2>5
<1> QED BY <1>1, <1>2, <1>3, <1>4, <1>5, <1>7, <1>8

LEMMA NextLinks == LinkInv /\ [Next]_vars => LinkInv'
<1> SUFFICES ASSUME LinkInv, [Next]_vars PROVE LinkInv'
  OBVIOUS
<1>1. Inv /\ Inv'
  BY NextInv DEF LinkInv
<1>2. CASE \E r \in Records : Save(r)
  <2>1. PICK r \in Records : Save(r)
    BY <1>2
  <2>2. stack' = <<Frame(r)>> /\ shape' = shape
    BY <2>1 DEF Save
  <2>3. Len(stack') = 1 /\ stack'[1].pc = "start"
    BY <2>2 DEF Frame
  <2>4. ASSUME NEW i \in 1 .. Len(stack')
        PROVE  FrameLinks(stack'[i])
    BY <2>3 DEF FrameLinks, OpenPcs
  <2>5. LinkOk(stack')
    BY <2>3, <2>4 DEF LinkOk
  <2> QED BY <1>1, <2>2, <2>5, LinkDone
<1>3. CASE Step
  <2>1. PICK r \in Records : TRUE
    <3>1. stack # <<>>
      BY <1>3
         DEF Step, StartAlone, StartThrows, RelationThrows, ParentFailed, ChildFailed,
             StartRelated, FinishRelated, OwnVetoed, OwnThrows, OwnUnchanged, OwnWritten,
             SkipParent, SaveParent, SaveChild, OwnTurn, At
    <3> QED BY <1>1, <3>1, StackSteps DEF Inv
  <2> QED BY <1>1, <1>3, <2>1, LinkSteps DEF Step
<1>4. CASE AppBegin \/ AppCommit \/ AppRollback
  <2>1. stack' = <<>> /\ shape' = shape
    BY <1>4 DEF AppBegin, AppCommit, AppRollback, AppCalls, callVars
  <2>2. LinkOk(stack')
    BY <2>1, Len(<<>>) = 0 DEF LinkOk
  <2> QED BY <1>1, <2>1, <2>2, LinkDone
<1>5. CASE UNCHANGED vars
  <2>1. shape' = shape /\ stack' = stack
    BY <1>5 DEF vars
  <2>2. LinkOk(stack')
    BY <2>1 DEF LinkInv
  <2> QED BY <1>1, <2>1, <2>2, LinkDone
<1> QED BY <1>2, <1>3, <1>4, <1>5 DEF Next

\* A relation that does not go round in a circle: no record leads back to itself.
LEMMA NoWayBack ==
    ASSUME NEW edges, Acyclic(edges), NEW r \in Records
    PROVE  <<r, r>> \notin TransitiveClosureOn(edges, Records)
<1>1. \A T \in SUBSET Records : T # {} => \E x \in T : \A y \in T : ~ (<<y, x>> \in edges)
  BY DEF Acyclic
<1>2. IsWellFoundedOn(edges, Records)
  BY <1>1, MinWF
<1>3. IsWellFoundedOn(TransitiveClosureOn(edges, Records), Records)
  BY <1>2, TransitiveClosureWF
<1> QED BY <1>3, WellFoundedIsIrreflexive

\* The way along a relation can be made longer.
LEMMA WayOn ==
    ASSUME NEW edges, NEW x \in Records, NEW y \in Records, <<x, y>> \in edges
    PROVE  /\ <<x, y>> \in TransitiveClosureOn(edges, Records)
           /\ \A w \in Records : <<w, x>> \in TransitiveClosureOn(edges, Records) =>
                 <<w, y>> \in TransitiveClosureOn(edges, Records)
<1>1. edges \cap Records \X Records \subseteq TransitiveClosureOn(edges, Records)
  BY TransitiveClosureThm
<1>2. <<x, y>> \in edges \cap Records \X Records
  OBVIOUS
<1>3. <<x, y>> \in TransitiveClosureOn(edges, Records)
  BY <1>1, <1>2
<1>4. ASSUME NEW w \in Records, <<w, x>> \in TransitiveClosureOn(edges, Records)
      PROVE  <<w, y>> \in TransitiveClosureOn(edges, Records)
  BY <1>4, TCRTC
<1> QED BY <1>3, <1>4

WayDown == TransitiveClosureOn(shape.many, Records)
WayUp   == TransitiveClosureOn(shape.belongs, Records)

\* A frame that saves children, and the hubs among such frames up to the i-th.
Down(i)   == stack[i].pc = "after" /\ Children(stack[i].rec) # {}
Turned(i) == {k \in 1 .. i : stack[k].pc = "after" /\ stack[k].rec \in Hubs}
Marked(i) == {stack[k].rec : k \in Turned(i)}

\* As long as no further hub is marked, frames that save children go down all
\* the time, and frames that save parents up all the time.
Ways(i, j) ==
    Marked(i) = Marked(j) =>
       /\ Down(i) /\ (Down(j) \/ stack[j - 1].pc = "after") =>
             <<stack[i].rec, stack[j].rec>> \in WayDown
       /\ ~Down(i) => ~Down(j) /\ <<stack[i].rec, stack[j].rec>> \in WayUp

LEMMA MarkedGrows ==
    ASSUME stack \in Seq(FrameType), NEW i \in 1 .. Len(stack), NEW j \in 1 .. Len(stack), i <= j
    PROVE  /\ Marked(i) \subseteq Marked(j) /\ Marked(j) \subseteq Hubs
           /\ \A k \in i .. j : Marked(i) = Marked(j) => Marked(i) = Marked(k)
<1>1. \A k, l \in 1 .. Len(stack) : k <= l => Turned(k) \subseteq Turned(l)
  BY DEF Turned
<1>2. \A k, l \in 1 .. Len(stack) : k <= l => Marked(k) \subseteq Marked(l)
  BY <1>1 DEF Marked
<1>3. Marked(j) \subseteq Hubs
  BY DEF Marked, Turned
<1>4. \A k \in i .. j : k \in 1 .. Len(stack) /\ i <= k /\ k <= j
  OBVIOUS
<1> QED BY <1>2, <1>3, <1>4

\* A frame and the one above it: where the way turns down again, the record
\* above is a hub that no frame below has stored.
LEMMA NextWay ==
    ASSUME LinkInv, SkipInv, NEW i \in 1 .. Len(stack) - 1
    PROVE  /\ stack[i].rec \in Records /\ stack[i + 1].rec \in Records
           /\ stack[i].pc = "after" => /\ <<stack[i].rec, stack[i + 1].rec>> \in shape.many
                                       /\ Down(i)
           /\ stack[i].pc # "after" => /\ <<stack[i].rec, stack[i + 1].rec>> \in shape.belongs
                                       /\ ~Down(i)
                                       /\ Marked(i) = Marked(i + 1) => ~Down(i + 1)
<1> DEFINE n == Len(stack)
           r == stack[i].rec
           p == stack[i + 1].rec
<1>1. stack \in Seq(FrameType) /\ n \in Nat /\ i \in 1 .. n /\ i + 1 \in 1 .. n
  BY DEF LinkInv, Inv
<1>2. r \in Records /\ p \in Records
  <2>1. stack[i] \in FrameType /\ stack[i + 1] \in FrameType
    BY <1>1
  <2> QED BY <2>1 DEF FrameType
<1>3. stack[i].pc \in {"before", "after"} /\ p \in Saves(stack[i])
  BY DEF LinkInv, LinkOk, OpenPcs
<1>4. stack[i].pc = "after" => <<r, p>> \in shape.many /\ Down(i)
  BY <1>3 DEF Saves, Children, Down
<1>5. stack[i].pc # "after" => <<r, p>> \in shape.belongs /\ ~Down(i) /\ p \in Parents(r)
  BY <1>3 DEF Saves, Parents, Down
<1>6. ASSUME stack[i].pc # "after", Marked(i) = Marked(i + 1), Down(i + 1)
      PROVE  FALSE
  <2>1. p \in Hubs
    BY <1>2, <1>5, <1>6 DEF Down, Hubs
  <2>2. i + 1 \in Turned(i + 1)
    BY <1>1, <1>6, <2>1 DEF Turned, Down
  <2>3. p \in Marked(i)
    BY <1>6, <2>2 DEF Marked
  <2>4. PICK k \in Turned(i) : stack[k].rec = p
    BY <2>3 DEF Marked
  <2>5. k \in 1 .. n /\ k < i + 1 /\ stack[k].pc = "after"
    BY <1>1, <2>4 DEF Turned
  <2>6. stack[(i + 1) - 1].pc # "before"
    BY <1>1, <2>4, <2>5 DEF SkipInv, SkipOk
  <2>7. (i + 1) - 1 = i
    BY <1>1
  <2> QED BY <1>3, <1>6, <2>6, <2>7
<1> QED BY <1>2, <1>4, <1>5, <1>6

\* The smallest of a set of positions.
LEMMA FirstPosition ==
    ASSUME NEW n \in Nat, NEW at, at \subseteq 1 .. n, at # {}
    PROVE  \E m \in at : \A i \in at : m <= i
<1> DEFINE Mirror == {n + 1 - i : i \in at}
<1>1. Mirror \subseteq 1 .. n /\ Mirror # {}
  <2>1. \A i \in at : n + 1 - i \in 1 .. n
    OBVIOUS
  <2>2. PICK i \in at : TRUE
    OBVIOUS
  <2>3. n + 1 - i \in Mirror
    BY <2>2
  <2> QED BY <2>1, <2>3
<1>2. \E x \in Mirror : \A y \in Mirror : x >= y
  <2> HIDE DEF Mirror
  <2> QED BY <1>1, LastPosition
<1>3. PICK m \in at : \A y \in Mirror : n + 1 - m >= y
  BY <1>2
<1>4. ASSUME NEW i \in at
      PROVE  m <= i
  <2>1. n + 1 - m >= n + 1 - i
    BY <1>3
  <2>2. m \in 1 .. n /\ i \in 1 .. n
    OBVIOUS
  <2> HIDE DEF Mirror
  <2> QED BY <2>1, <2>2
<1> QED BY <1>4

LEMMA AllWays ==
    ASSUME LinkInv, SkipInv,
           NEW i \in 1 .. Len(stack), NEW j \in 1 .. Len(stack), i < j
    PROVE  Ways(i, j)
<1> DEFINE n == Len(stack)
           at == {x \in i + 1 .. n : ~Ways(i, x)}
<1>1. stack \in Seq(FrameType) /\ n \in Nat
  BY DEF LinkInv, Inv
<1>2. SUFFICES ASSUME at # {} PROVE FALSE
  BY <1>1
<1>3. PICK m \in at : \A x \in at : m <= x
  <2>1. at \subseteq 1 .. n
    BY <1>1
  <2> HIDE DEF at, n
  <2> QED BY <1>1, <1>2, <2>1, FirstPosition
<1>4. m \in i + 1 .. n /\ ~Ways(i, m) /\ Marked(i) = Marked(m)
  BY <1>3 DEF Ways
<1> DEFINE k == m - 1
<1>5. k \in i .. n - 1 /\ k \in 1 .. n - 1 /\ k + 1 = m /\ k < m
  BY <1>1, <1>4
<1>6. Marked(i) = Marked(k) /\ Marked(k) = Marked(m)
  BY <1>1, <1>4, <1>5, MarkedGrows
<1>7. k = i \/ Ways(i, k)
  BY <1>1, <1>3, <1>5
<1> HIDE DEF at, k
<1>8. /\ stack[i].rec \in Records /\ stack[k].rec \in Records /\ stack[m].rec \in Records
      /\ stack[k].pc = "after" => <<stack[k].rec, stack[m].rec>> \in shape.many /\ Down(k)
      /\ stack[k].pc # "after" => /\ <<stack[k].rec, stack[m].rec>> \in shape.belongs
                                  /\ ~Down(k) /\ ~Down(m)
  <2>1. stack[i] \in FrameType
    BY <1>1
  <2>2. stack[i].rec \in Records
    BY <2>1 DEF FrameType
  <2> QED BY <1>5, <1>6, <2>2, NextWay
<1>9. ASSUME Down(i), Down(m) \/ stack[k].pc = "after"
      PROVE  <<stack[i].rec, stack[m].rec>> \in WayDown
  <2>1. stack[k].pc = "after" /\ Down(k)
    BY <1>8, <1>9
  <2>2. k = i \/ <<stack[i].rec, stack[k].rec>> \in WayDown
    BY <1>6, <1>7, <1>9, <2>1 DEF Ways
  <2> QED BY <1>8, <2>1, <2>2, WayOn DEF WayDown
<1>10. ASSUME ~Down(i)
       PROVE  ~Down(m) /\ <<stack[i].rec, stack[m].rec>> \in WayUp
  <2>1. k = i \/ (~Down(k) /\ <<stack[i].rec, stack[k].rec>> \in WayUp)
    BY <1>6, <1>7, <1>10 DEF Ways
  <2>2. ~Down(k) /\ stack[k].pc # "after"
    BY <1>8, <1>10, <2>1
  <2> QED BY <1>8, <2>1, <2>2, WayOn DEF WayUp
<1> QED BY <1>4, <1>9, <1>10 DEF Ways, k

\* Where a record comes back, a hub has been marked in between.
LEMMA ComesBack ==
    ASSUME LinkInv, SkipInv, Acyclic(shape.belongs), Acyclic(shape.many),
           NEW i \in 1 .. Len(stack), NEW j \in 1 .. Len(stack), i < j,
           stack[i].rec = stack[j].rec
    PROVE  Marked(i) # Marked(j)
<1>1. SUFFICES ASSUME Marked(i) = Marked(j) PROVE FALSE
  OBVIOUS
<1>2. stack \in Seq(FrameType) /\ stack[i].rec \in Records
  <2>1. stack \in Seq(FrameType) /\ stack[i] \in FrameType
    BY DEF LinkInv, Inv
  <2> QED BY <2>1 DEF FrameType
<1>3. <<stack[i].rec, stack[j].rec>> \notin WayDown /\ <<stack[i].rec, stack[j].rec>> \notin WayUp
  BY <1>2, NoWayBack DEF WayDown, WayUp
<1>4. Down(i) /\ stack[j - 1].pc # "after"
  BY <1>1, <1>3, AllWays DEF Ways
<1>5. stack[j - 1].pc # "before"
  BY <1>4 DEF SkipInv, SkipOk, Down
<1>6. j - 1 \in 1 .. Len(stack) - 1
  BY <1>2
<1>7. stack[j - 1].pc \in {"before", "after"}
  BY <1>6 DEF LinkInv, LinkOk, OpenPcs
<1> QED BY <1>4, <1>5, <1>7

\* The frames of a record are told apart by how many hubs are marked below them.
LEMMA FramesCounted ==
    ASSUME LinkInv, SkipInv, Acyclic(shape.belongs), Acyclic(shape.many), NEW r \in Records
    PROVE  Cardinality({i \in 1 .. Len(stack) : stack[i].rec = r}) <= 1 + Cardinality(Hubs)
<1> DEFINE n == Len(stack)
           at == {i \in 1 .. n : stack[i].rec = r}
           h == Cardinality(Hubs)
           count == [i \in at |-> Cardinality(Marked(i))]
<1>1. stack \in Seq(FrameType) /\ n \in Nat
  BY DEF LinkInv, Inv
<1>2. IsFiniteSet(Hubs) /\ h \in Nat
  <2>1. Hubs \in SUBSET Records
    BY DEF Hubs
  <2>2. IsFiniteSet(Hubs)
    BY <2>1, RecordsAssumption, FS_Subset
  <2> QED BY <2>2, FS_CardinalityType
<1>3. ASSUME NEW i \in 1 .. n
      PROVE  /\ IsFiniteSet(Marked(i)) /\ Cardinality(Marked(i)) \in 0 .. h
  <2>1. Marked(i) \in SUBSET Hubs
    BY <1>1, MarkedGrows
  <2>2. IsFiniteSet(Marked(i)) /\ Cardinality(Marked(i)) <= h
    BY <1>2, <2>1, FS_Subset
  <2>3. Cardinality(Marked(i)) \in Nat
    BY <2>2, FS_CardinalityType
  <2> QED BY <1>2, <2>2, <2>3
<1>4. ASSUME NEW i \in at, NEW j \in at, i < j
      PROVE  Cardinality(Marked(i)) # Cardinality(Marked(j))
  <2>1. i \in 1 .. n /\ j \in 1 .. n /\ stack[i].rec = stack[j].rec
    OBVIOUS
  <2>2. Marked(i) # Marked(j)
    BY <1>4, <2>1, ComesBack
  <2>3. Marked(i) \in SUBSET Marked(j) /\ IsFiniteSet(Marked(j))
    BY <1>1, <1>3, <1>4, <2>1, MarkedGrows
  <2> QED BY <2>2, <2>3, FS_Subset
<1>5. count \in Injection(at, 0 .. h)
  <2>1. count \in [at -> 0 .. h]
    BY <1>3
  <2>2. \A i \in at, j \in at : count[i] = Cardinality(Marked(i)) /\ i \in Nat /\ j \in Nat
    BY <1>1
  <2>3. ASSUME NEW i \in at, NEW j \in at, count[i] = count[j]
        PROVE  i = j
    <3>1. ~(i < j) /\ ~(j < i)
      BY <1>4, <2>2, <2>3
    <3> QED BY <2>2, <3>1
  <2> HIDE DEF count, at
  <2> QED BY <2>1, <2>3 DEF Injection, IsInjective
<1>6. IsFiniteSet(0 .. h) /\ Cardinality(0 .. h) = 1 + h
  <2>1. 0 \in Int /\ h \in Int /\ ~(0 > h)
    BY <1>2
  <2> QED BY <1>2, <2>1, FS_Interval
<1> HIDE DEF count, at, h
<1>7. Cardinality(at) <= Cardinality(0 .. h)
  BY <1>5, <1>6, FS_Injection
<1> QED BY <1>6, <1>7 DEF at, h

\* The nested save() calls of one call come to an end: for any graph whose
\* belongs-to and has-many relations do not go round in circles of their own,
\* a record is being saved at most once more often than there are hubs.
THEOREM DepthCorrect == Spec => []DepthBounded
<1>1. Init => LinkInv /\ SkipInv
  <2> SUFFICES ASSUME Init PROVE LinkInv /\ SkipInv
    OBVIOUS
  <2>1. stack = <<>>
    BY DEF Init
  <2> QED BY <2>1, InitInv, Len(<<>>) = 0 DEF LinkInv, LinkOk, SkipInv, SkipOk
<1>2. LinkInv /\ SkipInv => DepthBounded
  BY FramesCounted DEF DepthBounded
<1> QED BY <1>1, <1>2, NextLinks, NextSkips, PTL DEF Spec

=============================================================================
