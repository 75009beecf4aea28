------------------------ MODULE DbTransactionProofs ------------------------
(***************************************************************************)
(* Proofs about one connection and its callers (DbTransaction), and that   *)
(* for callers who close what they open it implements NestedScopes.        *)
(***************************************************************************)
EXTENDS DbTransaction, PdoConnectionProofs, SequenceTheorems

\* What the server does to its savepoints leaves well-formed savepoints.
LEMMA PointsType ==
    ASSUME NEW c \in Connection, NEW name \in 2 .. MaxLevel
    PROVE  /\ PointsWith(c, name) \in Seq(Point)
           /\ PointsReleased(c, name) \in Seq(Point)
           /\ PointsRestored(c, name) \in Seq(Point)
           /\ PointIndex(c.points, name) > 0 => WorkAt(c, name) \in SUBSET Effects
<1> DEFINE old == PointIndex(c.points, name)
<1>1. c.points \in Seq(Point) /\ c.work \in SUBSET Effects
  BY DEF Connection
<1>2. old \in 0 .. Len(c.points)
  BY <1>1, PointIndexRange
<1> HIDE DEF old
<1>3. SubSeq(c.points, 1, old - 1) \in Seq(Point)
  BY <1>1, <1>2
<1>4. SubSeq(c.points, 1, old) \in Seq(Point)
  BY <1>1, <1>2
<1>5. old > 0 => RemoveAt(c.points, old) \in Seq(Point)
  <2>1. SubSeq(c.points, old + 1, Len(c.points)) \in Seq(Point)
    BY <1>1, <1>2
  <2> QED BY <1>3, <2>1 DEF RemoveAt
<1>6. [name |-> name, work |-> c.work] \in Point
  BY <1>1 DEF Point
<1>7. old > 0 => c.points[old].work \in SUBSET Effects
  <2> SUFFICES ASSUME old > 0 PROVE c.points[old].work \in SUBSET Effects
    OBVIOUS
  <2>1. old \in 1 .. Len(c.points)
    BY <1>1, <1>2
  <2>2. c.points[old] \in Point
    BY <1>1, <2>1
  <2> QED BY <2>2 DEF Point
<1> QED BY <1>1, <1>3, <1>4, <1>5, <1>6, <1>7
        DEF PointsWith, PointsReleased, PointsRestored, WorkAt, old

----------------------------------------------------------------------------
(* What each method does to the counter and to the session *)

\* One level less; the rest of the connection as it was.
LEMMA ShallowerType ==
    ASSUME NEW c \in Connection, c.level # 0
    PROVE  /\ Shallower(c) \in Connection
           /\ (Shallower(c).open <=> c.open)
           /\ Shallower(c).level = c.level - 1
           /\ (Shallower(c).active <=> c.active)
           /\ Shallower(c).work = c.work
           /\ Shallower(c).points = c.points
<1>1. c.level \in 0 .. MaxLevel /\ c.level - 1 \in 0 .. MaxLevel
  BY BoundsAssumption DEF Connection
<1> QED BY <1>1 DEF Shallower, Connection

\* Ending a transaction leaves the adapter as it was.
LEMMA IdleType ==
    ASSUME NEW c \in Connection
    PROVE  /\ Idle(c) \in Connection
           /\ (Idle(c).open <=> c.open)
           /\ Idle(c).level = c.level
           /\ ~Idle(c).active
<1>1. <<>> \in Seq(Point)
  OBVIOUS
<1> QED BY <1>1 DEF Idle, Connection

\* begin() counts every call on an open connection; the session changes only
\* when the outermost scope is opened.
LEMMA BeginEffect ==
    ASSUME NEW c \in Connection, c.level < MaxLevel,
           NEW nesting \in BOOLEAN, NEW outcome \in Outcomes,
           NEW r, r = Begin(c, nesting, outcome)
    PROVE  /\ r.conn \in Connection
           /\ r.made = {}
           /\ (r.conn.open <=> c.open)
           /\ c.open => r.conn.level = c.level + 1
           /\ ~c.open => r.conn = c
           /\ c.level > 0 => (r.conn.active <=> c.active)
           /\ c.open /\ c.level = 0 /\ ~c.active /\ outcome = "ok" => r.conn.active
<1> USE BoundsAssumption
<1> DEFINE up == Deeper(c)
<1>1. /\ up \in Connection
      /\ (up.open <=> c.open) /\ up.level = c.level + 1 /\ (up.active <=> c.active)
  BY DEF Deeper, Connection
<1> HIDE DEF up
<1>2. CASE ~c.open
  BY <1>2 DEF Begin, Result
<1>3. CASE c.open /\ c.level = 0
  <2>1. r = ServerBegin(up, outcome)
    BY <1>3 DEF Begin, up
  <2> DEFINE idle == Idle(up)
             on   == [idle EXCEPT !.active = TRUE]
  <2>2. /\ idle \in Connection /\ (idle.open <=> up.open) /\ idle.level = up.level
    BY <1>1, IdleType
  <2>3. r.conn \in {up, on} /\ r.made = {}
    BY <2>1 DEF ServerBegin, Result
  <2>4. outcome = "ok" /\ ~up.active => r.conn = on
    BY <2>1 DEF ServerBegin, Result
  <2> HIDE DEF idle
  <2>5. /\ on \in Connection /\ on.active
        /\ (on.open <=> idle.open) /\ on.level = idle.level
    BY <2>2 DEF Connection
  <2> HIDE DEF on
  <2> QED BY <1>1, <1>3, <2>2, <2>3, <2>4, <2>5
<1>4. CASE c.open /\ c.level > 0 /\ ~UsesSavepoint(c, nesting)
  BY <1>1, <1>4 DEF Begin, Result, up
<1>5. CASE c.open /\ c.level > 0 /\ UsesSavepoint(c, nesting)
  <2> DEFINE name == c.level + 1
             set  == [up EXCEPT !.points = PointsWith(up, name)]
  <2>1. r = CreateSavepoint(up, name, outcome)
    BY <1>5 DEF Begin, up
  <2>2. name \in 2 .. MaxLevel
    BY <1>5 DEF Connection
  <2>3. PointsWith(up, name) \in Seq(Point)
    BY <1>1, <2>2, PointsType
  <2>4. /\ set \in Connection
        /\ (set.open <=> up.open) /\ set.level = up.level /\ (set.active <=> up.active)
    BY <1>1, <2>3 DEF Connection
  <2> HIDE DEF name, set
  <2>5. r.conn \in {up, set} /\ r.made = {}
    BY <2>1 DEF CreateSavepoint, RefusalOf, Result, set
  <2> QED BY <1>1, <1>5, <2>4, <2>5
<1>6. c.level \in Nat
  BY DEF Connection
<1> QED BY <1>2, <1>3, <1>4, <1>5, <1>6

\* What commit() and rollback() share: they uncount every call that finds the
\* counter above zero, end the transaction of the session when they uncount
\* the last scope, unless the server is busy, and leave the session in its
\* transaction otherwise.
Ends(c, r, outcome) ==
    /\ r.conn \in Connection
    /\ r.made \in SUBSET Effects
    /\ (r.conn.open <=> c.open)
    /\ ~c.open \/ c.level = 0 => r.conn = c
    /\ c.open /\ c.level > 0 => r.conn.level = c.level - 1
    /\ c.open /\ c.level = 1 /\ outcome # "busy" => ~r.conn.active
    /\ c.level # 1 => (r.conn.active <=> c.active)
    /\ c.level # 1 => r.made = {}

\* commit()
LEMMA CommitEffect ==
    ASSUME NEW c \in Connection, NEW nesting \in BOOLEAN, NEW outcome \in Outcomes,
           NEW r, r = Commit(c, nesting, outcome)
    PROVE  Ends(c, r, outcome)
<1> USE BoundsAssumption
<1> DEFINE low == Shallower(c)
<1>0. c.level \in Nat /\ c.level <= MaxLevel
  BY DEF Connection
<1>1. CASE ~c.open \/ c.level = 0
  BY <1>0, <1>1 DEF Commit, Result, Ends
<1>2. CASE c.open /\ c.level = 1
  <2>1. r = ServerCommit(low, outcome)
    BY <1>2 DEF Commit
  <2>2. /\ low \in Connection /\ (low.open <=> c.open) /\ low.level = 0
        /\ (low.active <=> c.active) /\ low.work = c.work 
        /\ low.work \in SUBSET Effects
    BY <1>2, ShallowerType DEF Connection
  <2>3. /\ Idle(low) \in Connection /\ (Idle(low).open <=> low.open)
        /\ Idle(low).level = low.level /\ ~Idle(low).active
    BY <2>2, IdleType
  <2> HIDE DEF low
  <2>4. CASE outcome = "busy" \/ ~low.active
    <3>1. r.conn = low /\ r.made = {}
      BY <2>1, <2>4 DEF ServerCommit, Result
    <3> QED BY <1>2, <2>2, <2>4, <3>1 DEF Ends
  <2>5. CASE outcome # "busy" /\ low.active
    <3>1. r.conn = Idle(low) /\ r.made \in {{}, low.work}
      BY <2>1, <2>5 DEF ServerCommit, Result, Outcomes
    <3> QED BY <1>2, <2>2, <2>3, <2>5, <3>1 DEF Ends
  <2> QED BY <2>2, <2>4, <2>5
<1>3. CASE c.open /\ c.level > 1 /\ ~UsesSavepoint(c, nesting)
  <2>1. r.conn = low /\ r.made = {}
    BY <1>0, <1>3 DEF Commit, Result
  <2> QED BY <1>0, <1>3, <2>1, ShallowerType DEF Ends
<1>4. CASE c.open /\ c.level > 1 /\ UsesSavepoint(c, nesting)
  <2> DEFINE after == [low EXCEPT !.points = PointsReleased(low, c.level)]
  <2>1. r = ReleaseSavepoint(low, c.level, outcome)
    BY <1>0, <1>4 DEF Commit
  <2>2. /\ low \in Connection /\ (low.open <=> c.open) /\ low.level = c.level - 1
        /\ (low.active <=> c.active)
    BY <1>0, <1>4, ShallowerType
  <2> HIDE DEF low
  <2>3. PointsReleased(low, c.level) \in Seq(Point)
    BY <1>0, <1>4, <2>2, PointsType
  <2>4. /\ after \in Connection /\ (after.open <=> low.open)
        /\ after.level = low.level /\ (after.active <=> low.active)
    BY <2>2, <2>3 DEF Connection
  <2> HIDE DEF after
  <2>5. r.conn \in {low, after} /\ r.made = {}
    <3>1. PointIndex(low.points, c.level) \in Nat
      BY <2>2, PointIndexRange DEF Connection
    <3> QED BY <2>1, <3>1 DEF ReleaseSavepoint, RefusalOf, Result, after
  <2> QED BY <1>0, <1>4, <2>2, <2>4, <2>5 DEF Ends
<1> QED BY <1>0, <1>1, <1>2, <1>3, <1>4

\* rollback()
LEMMA RollbackEffect ==
    ASSUME NEW c \in Connection, NEW nesting \in BOOLEAN, NEW outcome \in Outcomes,
           NEW r, r = Rollback(c, nesting, outcome)
    PROVE  Ends(c, r, outcome) /\ r.made = {}
<1> USE BoundsAssumption
<1> DEFINE low == Shallower(c)
<1>0. c.level \in Nat /\ c.level <= MaxLevel
  BY DEF Connection
<1>1. CASE ~c.open \/ c.level = 0
  BY <1>0, <1>1 DEF Rollback, Result, Ends
<1>2. CASE c.open /\ c.level = 1
  <2>1. r = ServerRollback(low, outcome)
    BY <1>2 DEF Rollback
  <2>2. /\ low \in Connection /\ (low.open <=> c.open) /\ low.level = 0
        /\ (low.active <=> c.active) 
    BY <1>2, ShallowerType DEF Connection
  <2>3. /\ Idle(low) \in Connection /\ (Idle(low).open <=> low.open)
        /\ Idle(low).level = low.level /\ ~Idle(low).active
    BY <2>2, IdleType
  <2> HIDE DEF low
  <2>4. r.conn = (IF low.active THEN Idle(low) ELSE low) /\ r.made = {}
    BY <2>1 DEF ServerRollback, Result
  <2> QED BY <1>2, <2>2, <2>3, <2>4 DEF Ends
<1>3. CASE c.open /\ c.level > 1 /\ ~UsesSavepoint(c, nesting)
  <2>1. r.conn = low /\ r.made = {}
    BY <1>0, <1>3 DEF Rollback, Result
  <2> QED BY <1>0, <1>3, <2>1, ShallowerType DEF Ends
<1>4. CASE c.open /\ c.level > 1 /\ UsesSavepoint(c, nesting)
  <2> DEFINE after == [low EXCEPT !.work = WorkAt(low, c.level),
                                  !.points = PointsRestored(low, c.level)]
  <2>1. r = RollbackSavepoint(low, c.level, outcome)
    BY <1>0, <1>4 DEF Rollback
  <2>2. /\ low \in Connection /\ (low.open <=> c.open) /\ low.level = c.level - 1
        /\ (low.active <=> c.active)
    BY <1>0, <1>4, ShallowerType
  <2> HIDE DEF low
  <2>3. PointIndex(low.points, c.level) \in Nat
    BY <2>2, PointIndexRange DEF Connection
  <2>4. /\ PointsRestored(low, c.level) \in Seq(Point)
        /\ PointIndex(low.points, c.level) > 0 =>
              WorkAt(low, c.level) \in SUBSET Effects
    BY <1>0, <1>4, <2>2, PointsType
  <2>5. PointIndex(low.points, c.level) > 0 =>
          /\ after \in Connection /\ (after.open <=> low.open)
          /\ after.level = low.level /\ (after.active <=> low.active)
    BY <2>2, <2>4 DEF Connection
  <2> HIDE DEF after
  <2>6. /\ r.made = {}
        /\ \/ r.conn = low
           \/ PointIndex(low.points, c.level) > 0 /\ r.conn = after
    BY <2>1, <2>3 DEF RollbackSavepoint, RefusalOf, Result, after
  <2> QED BY <1>0, <1>4, <2>2, <2>5, <2>6 DEF Ends
<1> QED BY <1>0, <1>1, <1>2, <1>3, <1>4

\* The other calls of the connection leave the counter alone; only close()
\* and connect() touch the session.
LEMMA ExecuteEffect ==
    ASSUME NEW c \in Connection, NEW e \in Effects, NEW outcome \in Outcomes,
           NEW r, r = Execute(c, e, outcome)
    PROVE  /\ r.conn \in Connection /\ r.made \in SUBSET Effects
           /\ (r.conn.open <=> c.open) /\ r.conn.level = c.level
           /\ (r.conn.active <=> c.active)
           /\ c.active => r.made = {}
<1> DEFINE more == [c EXCEPT !.work = @ \cup {e}]
<1>1. /\ more \in Connection /\ (more.open <=> c.open)
      /\ more.level = c.level /\ (more.active <=> c.active)
  BY DEF Connection
<1> HIDE DEF more
<1>2. /\ r.conn \in {c, more} /\ r.made \in {{}, {e}}
      /\ c.active => r.made = {}
  BY DEF Execute, RefusalOf, Result, more
<1> QED BY <1>1, <1>2

LEMMA SetSavepointsEffect ==
    ASSUME NEW c \in Connection, NEW flag \in BOOLEAN,
           NEW r, r = SetSavepoints(c, flag)
    PROVE  /\ r.conn \in Connection /\ r.made = {}
           /\ (r.conn.open <=> c.open) /\ r.conn.level = c.level
           /\ (r.conn.active <=> c.active)
<1> DEFINE new == [c EXCEPT !.savepoints = flag]
<1>1. /\ new \in Connection /\ (new.open <=> c.open)
      /\ new.level = c.level /\ (new.active <=> c.active)
  BY DEF Connection
<1> HIDE DEF new
<1>2. r.conn \in {c, new} /\ r.made = {}
  BY DEF SetSavepoints, Result, new
<1> QED BY <1>1, <1>2

LEMMA CloseEffect ==
    ASSUME NEW c \in Connection, NEW r, r = Close(c)
    PROVE  r.conn \in Connection /\ r.made = {} /\ ~r.conn.open
<1>1. Idle(c) \in Connection
  BY IdleType
<1>2. /\ [Idle(c) EXCEPT !.open = FALSE] \in Connection
      /\ ~[Idle(c) EXCEPT !.open = FALSE].open
  BY <1>1 DEF Connection
<1> QED BY <1>2 DEF Close, Result

LEMMA ConnectEffect ==
    ASSUME NEW c \in Connection, NEW outcome \in Outcomes,
           NEW r, r = Connect(c, outcome)
    PROVE  /\ r.conn \in Connection /\ r.made = {}
           /\ r.conn.level = c.level
           /\ r.conn # c => ~r.conn.active
<1> DEFINE idle == Idle(c)
           new  == [idle EXCEPT !.open = TRUE]
<1>1. idle \in Connection /\ idle.level = c.level /\ ~idle.active
  BY IdleType
<1>2. r.conn \in {c, new} /\ r.made = {}
  BY DEF Connect, Result
<1> HIDE DEF idle
<1>3. new \in Connection /\ new.level = idle.level /\ ~new.active
  BY <1>1 DEF Connection
<1> HIDE DEF new
<1> QED BY <1>1, <1>2, <1>3

----------------------------------------------------------------------------
(* Theorems *)

LEMMA InitType == Init => TypeOK
<1> SUFFICES ASSUME NEW dialect \in Dialects, NEW flag \in BOOLEAN,
                    conn = Connect(Closed(dialect, flag), "ok").conn,
                    db = {}, opened = <<>>, course = "smooth", strayed = FALSE
             PROVE  TypeOK
  BY DEF Init
<1>1. Closed(dialect, flag) \in Connection
  <2>1. <<>> \in Seq(Point)
    OBVIOUS
  <2> QED BY <2>1, BoundsAssumption DEF Closed, Connection
<1>2. [Idle(Closed(dialect, flag)) EXCEPT !.open = TRUE] \in Connection
  BY <1>1, IdleType DEF Connection
<1>3. conn \in Connection
  BY <1>2 DEF Connect, Result
<1>4. strayed \in BOOLEAN
  BY Zenon
<1>5. opened \in Seq(BOOLEAN)
  OBVIOUS
<1> QED BY <1>3, <1>4, <1>5 DEF TypeOK

\* The scopes recorded after commit() or rollback() are still nesting flags.
LEMMA ScopesAfterType ==
    ASSUME opened \in Seq(BOOLEAN), NEW r
    PROVE  ScopesAfter(r) \in Seq(BOOLEAN)
<1>1. opened # <<>> => Front(opened) \in Seq(BOOLEAN)
  BY DEF Front
<1> QED BY <1>1 DEF ScopesAfter

LEMMA TypeStep == TypeOK /\ [Next]_vars => TypeOK'
<1> SUFFICES ASSUME TypeOK, [Next]_vars PROVE TypeOK'
  OBVIOUS
<1> USE FaultsAssumption DEF Outcome
<1>0. Outcome \subseteq Outcomes
  BY DEF Outcomes
<1>1. ASSUME NEW nesting \in BOOLEAN, NEW outcome \in Outcome,
             BeginCall(nesting, outcome)
      PROVE  TypeOK'
  <2> DEFINE r == Begin(conn, nesting, outcome)
  <2>1. r.conn \in Connection /\ r.made = {}
    BY <1>0, <1>1, BeginEffect DEF BeginCall, TypeOK
  <2>2. Append(opened, nesting) \in Seq(BOOLEAN)
    BY DEF TypeOK
  <2> QED BY <1>1, <2>1, <2>2 DEF BeginCall, Returned, TypeOK
<1>2. ASSUME NEW nesting \in BOOLEAN, NEW outcome \in Outcome,
             CommitCall(nesting, outcome)
      PROVE  TypeOK'
  <2> DEFINE r == Commit(conn, nesting, outcome)
  <2>1. r.conn \in Connection /\ r.made \in SUBSET Effects
    BY <1>0, CommitEffect DEF Ends, TypeOK
  <2>2. ScopesAfter(r) \in Seq(BOOLEAN)
    BY ScopesAfterType DEF TypeOK
  <2> QED BY <1>2, <2>1, <2>2 DEF CommitCall, Returned, TypeOK
<1>3. ASSUME NEW nesting \in BOOLEAN, NEW outcome \in Outcome,
             RollbackCall(nesting, outcome)
      PROVE  TypeOK'
  <2> DEFINE r == Rollback(conn, nesting, outcome)
  <2>1. r.conn \in Connection /\ r.made = {}
    BY <1>0, RollbackEffect DEF Ends, TypeOK
  <2>2. ScopesAfter(r) \in Seq(BOOLEAN)
    BY ScopesAfterType DEF TypeOK
  <2> QED BY <1>3, <2>1, <2>2 DEF RollbackCall, Returned, TypeOK
<1>4. ASSUME NEW e \in Effects, NEW outcome \in Outcome, ExecuteCall(e, outcome)
      PROVE  TypeOK'
  <2>1. /\ Execute(conn, e, outcome).conn \in Connection
        /\ Execute(conn, e, outcome).made \in SUBSET Effects
    BY <1>0, ExecuteEffect DEF TypeOK
  <2> QED BY <1>4, <2>1 DEF ExecuteCall, Returned, TypeOK
<1>5. ASSUME NEW flag \in BOOLEAN, SetSavepointsCall(flag)
      PROVE  TypeOK'
  <2>1. /\ SetSavepoints(conn, flag).conn \in Connection
        /\ SetSavepoints(conn, flag).made = {}
    BY SetSavepointsEffect DEF TypeOK
  <2> QED BY <1>5, <2>1 DEF SetSavepointsCall, Returned, TypeOK
<1>6. CASE CloseCall
  <2>1. Close(conn).conn \in Connection /\ Close(conn).made = {}
    BY CloseEffect DEF TypeOK
  <2>2. <<>> \in Seq(BOOLEAN)
    OBVIOUS
  <2> QED BY <1>6, <2>1, <2>2 DEF CloseCall, Returned, TypeOK
<1>7. ASSUME NEW outcome \in Outcome, ConnectCall(outcome)
      PROVE  TypeOK'
  <2> DEFINE r == Connect(conn, outcome)
  <2>1. r.conn \in Connection /\ r.made = {}
    BY <1>0, ConnectEffect DEF TypeOK
  <2>2. <<>> \in Seq(BOOLEAN)
    OBVIOUS
  <2> QED BY <1>7, <2>1, <2>2 DEF ConnectCall, Returned, TypeOK
<1>8. CASE UNCHANGED vars
  BY <1>8 DEF vars, TypeOK
<1> QED BY <1>1, <1>2, <1>3, <1>4, <1>5, <1>6, <1>7, <1>8 DEF Next

\* Type correctness for every number of levels, statement and server outcome:
\* in particular the nesting level is never negative and no savepoint is ever
\* named after level 0 or 1.
THEOREM TypeCorrect == Spec => []TypeOK
BY InitType, TypeStep, PTL DEF Spec

\* The start of every run: the session is idle and nothing is counted.
LEMMA InitIdle == Init => conn.open /\ ~conn.active /\ conn.level = 0
BY DEF Init, Connect, Closed, Idle, Result

\* A call after which the course is smooth did not fail, and none before it.
LEMMA SmoothCall ==
    ASSUME course' = "smooth", NEW r, NEW scopes, NEW troubled, Returned(r, scopes, troubled)
    PROVE  course = "smooth" /\ ~troubled
BY DEF Returned

LEMMA SessionStep == TypeOK /\ SessionMatchesLevel /\ [Next]_vars => SessionMatchesLevel'
<1> DEFINE Agree == conn.open => (conn.active <=> conn.level > 0)
<1> SUFFICES ASSUME TypeOK, SessionMatchesLevel, [Next]_vars, course' = "smooth"
             PROVE  Agree'
  BY DEF SessionMatchesLevel
<1>0. /\ Outcome \subseteq Outcomes /\ "ok" \in Outcomes
      /\ conn \in Connection /\ conn.level \in Nat
  BY FaultsAssumption DEF Outcome, Outcomes, TypeOK, Connection
<1>1. ASSUME NEW nesting \in BOOLEAN, NEW outcome \in Outcome, BeginCall(nesting, outcome)
      PROVE  Agree'
  <2>1. Agree /\ outcome = "ok"
    BY <1>1, SmoothCall DEF BeginCall, SessionMatchesLevel
  <2> DEFINE r == Begin(conn, nesting, "ok")
  <2>2. conn' = r.conn /\ conn.level < MaxLevel
    BY <1>1, <2>1 DEF BeginCall, Returned
  <2>3. /\ (r.conn.open <=> conn.open)
        /\ conn.open => r.conn.level = conn.level + 1
        /\ conn.level > 0 => (r.conn.active <=> conn.active)
        /\ conn.open /\ conn.level = 0 /\ ~conn.active => r.conn.active
    BY <1>0, <2>2, BeginEffect
  <2> QED BY <1>0, <2>1, <2>2, <2>3
<1>2. ASSUME NEW r, Agree, Ends(conn, r, "ok"), conn' = r.conn
      PROVE  Agree'
  BY <1>0, <1>2 DEF Ends
<1>3. ASSUME NEW nesting \in BOOLEAN, NEW outcome \in Outcome, CommitCall(nesting, outcome)
      PROVE  Agree'
  <2>1. Agree /\ outcome = "ok"
    BY <1>3, SmoothCall DEF CommitCall, SessionMatchesLevel
  <2> QED BY <1>0, <1>2, <1>3, <2>1, CommitEffect DEF CommitCall, Returned
<1>4. ASSUME NEW nesting \in BOOLEAN, NEW outcome \in Outcome, RollbackCall(nesting, outcome)
      PROVE  Agree'
  <2>1. Agree /\ outcome = "ok"
    BY <1>4, SmoothCall DEF RollbackCall, SessionMatchesLevel
  <2> QED BY <1>0, <1>2, <1>4, <2>1, RollbackEffect DEF RollbackCall, Returned
<1>5. ASSUME NEW r, Agree, conn' = r.conn,
             r.conn.open <=> conn.open, r.conn.level = conn.level,
             r.conn.active <=> conn.active
      PROVE  Agree'
  BY <1>5
<1>6. ASSUME NEW e \in Effects, NEW outcome \in Outcome, ExecuteCall(e, outcome)
      PROVE  Agree'
  <2>1. Agree
    BY <1>6, SmoothCall DEF ExecuteCall, SessionMatchesLevel
  <2> QED BY <1>0, <1>5, <1>6, <2>1, ExecuteEffect DEF ExecuteCall, Returned
<1>7. ASSUME NEW flag \in BOOLEAN, SetSavepointsCall(flag)
      PROVE  Agree'
  <2>1. Agree
    BY <1>7, SmoothCall DEF SetSavepointsCall, SessionMatchesLevel
  <2> QED BY <1>0, <1>5, <1>7, <2>1, SetSavepointsEffect DEF SetSavepointsCall, Returned
<1>8. CASE CloseCall
  <2>1. conn' = Close(conn).conn
    BY <1>8 DEF CloseCall, Returned
  <2>2. ~Close(conn).conn.open
    BY <1>0, CloseEffect
  <2> QED BY <2>1, <2>2
<1>9. ASSUME NEW outcome \in Outcome, ConnectCall(outcome) PROVE Agree'
  <2> DEFINE r == Connect(conn, outcome)
  <2>1. conn' = r.conn /\ Agree /\ ~(conn.level > 0)
    BY <1>9, SmoothCall DEF ConnectCall, Returned, SessionMatchesLevel
  <2>2. r.conn.level = conn.level /\ (r.conn # conn => ~r.conn.active)
    BY <1>0, ConnectEffect
  <2> QED BY <1>0, <2>1, <2>2
<1>10. CASE UNCHANGED vars
  BY <1>10 DEF vars, SessionMatchesLevel
<1> QED BY <1>1, <1>3, <1>4, <1>6, <1>7, <1>8, <1>9, <1>10 DEF Next

\* For any number of levels and any mix of callers, until a command fails or
\* the connection is replaced inside a scope, the nesting counter of the
\* adapter and the transaction of the server agree.
THEOREM CounterMatchesSession == Spec => []SessionMatchesLevel
<1>1. Init => SessionMatchesLevel
  BY InitIdle DEF SessionMatchesLevel
<1> QED BY <1>1, InitType, TypeStep, SessionStep, PTL DEF Spec

\* ... and therefore nothing becomes durable while an enclosing scope is open.
THEOREM NothingDurableInside == Spec => DurableOnlyOutside
<1> DEFINE Outside == course' = "smooth" /\ db' # db => conn.level = 0 \/ conn'.level = 0
<1>1. ASSUME TypeOK, SessionMatchesLevel, [Next]_vars PROVE [Outside]_vars
  <2> SUFFICES ASSUME Next, course' = "smooth", conn.level # 0
               PROVE  db' = db \/ conn'.level = 0
    BY <1>1
  <2>0. /\ Outcome \subseteq Outcomes /\ "ok" \in Outcomes
        /\ conn \in Connection /\ conn.level \in Nat /\ conn.level > 0
    BY <1>1, FaultsAssumption DEF Outcome, Outcomes, TypeOK, Connection
  <2>1. ASSUME NEW r, NEW scopes, NEW troubled, Returned(r, scopes, troubled), r.made = {}
        PROVE  db' = db
    BY <2>1 DEF Returned
  <2>2. ASSUME NEW nesting \in BOOLEAN, NEW outcome \in Outcome, BeginCall(nesting, outcome)
        PROVE  db' = db
    <3>1. Begin(conn, nesting, outcome).made = {}
      BY <2>0, <2>2, BeginEffect DEF BeginCall
    <3> QED BY <2>1, <2>2, <3>1 DEF BeginCall
  <2>3. ASSUME NEW nesting \in BOOLEAN, NEW outcome \in Outcome, CommitCall(nesting, outcome)
        PROVE  db' = db \/ conn'.level = 0
    <3> DEFINE r == Commit(conn, nesting, outcome)
    <3>1. Ends(conn, r, outcome)
      BY <2>0, CommitEffect
    <3>2. conn' = r.conn /\ db' = db \cup r.made
      BY <2>3 DEF CommitCall, Returned
    <3>3. CASE conn.level = 1 /\ conn.open
      BY <3>1, <3>2, <3>3 DEF Ends
    <3>4. CASE conn.level # 1
      BY <3>1, <3>2, <3>4 DEF Ends
    <3>5. CASE conn.level = 1 /\ ~conn.open
      BY <3>2, <3>5 DEF Commit, Result
    <3> QED BY <3>3, <3>4, <3>5
  <2>4. ASSUME NEW nesting \in BOOLEAN, NEW outcome \in Outcome, RollbackCall(nesting, outcome)
        PROVE  db' = db
    <3>1. Rollback(conn, nesting, outcome).made = {}
      BY <2>0, RollbackEffect
    <3> QED BY <2>1, <2>4, <3>1 DEF RollbackCall
  <2>5. ASSUME NEW e \in Effects, NEW outcome \in Outcome, ExecuteCall(e, outcome)
        PROVE  db' = db
    <3>1. course = "smooth"
      BY <2>5, SmoothCall DEF ExecuteCall
    <3>2. conn.open => conn.active
      BY <1>1, <2>0, <3>1 DEF SessionMatchesLevel
    <3>3. Execute(conn, e, outcome).made = {}
      BY <3>2 DEF Execute, Refused, RefusalOf, Result
    <3> QED BY <2>1, <2>5, <3>3 DEF ExecuteCall
  <2>6. ASSUME NEW flag \in BOOLEAN, SetSavepointsCall(flag) PROVE db' = db
    <3>1. SetSavepoints(conn, flag).made = {}
      BY <2>0, SetSavepointsEffect
    <3> QED BY <2>1, <2>6, <3>1 DEF SetSavepointsCall
  <2>7. CASE CloseCall
    BY <2>7 DEF CloseCall, Returned, Close, Result
  <2>8. ASSUME NEW outcome \in Outcome, ConnectCall(outcome) PROVE db' = db
    <3>1. Connect(conn, outcome).made = {}
      BY <2>0, ConnectEffect
    <3> QED BY <2>1, <2>8, <3>1 DEF ConnectCall
  <2> QED BY <1>1, <2>2, <2>3, <2>4, <2>5, <2>6, <2>7, <2>8 DEF Next
<1>2. Spec => [](TypeOK /\ SessionMatchesLevel)
  BY TypeCorrect, CounterMatchesSession, PTL
<1> QED BY <1>1, <1>2, PTL DEF Spec, DurableOnlyOutside

LEMMA CountedStep ==
    ASSUME "busy" \notin Faults
    PROVE  TypeOK /\ ActiveIsCounted /\ [Next]_vars => ActiveIsCounted'
<1> SUFFICES ASSUME TypeOK, ActiveIsCounted, [Next]_vars
             PROVE  ActiveIsCounted'
  OBVIOUS
<1>0. /\ Outcome \subseteq Outcomes /\ "busy" \notin Outcome
      /\ conn \in Connection /\ conn.level \in Nat
  BY FaultsAssumption DEF Outcome, Outcomes, TypeOK, Connection
<1>1. ASSUME NEW nesting \in BOOLEAN, NEW outcome \in Outcome,
             BeginCall(nesting, outcome)
      PROVE  ActiveIsCounted'
  <2> DEFINE r == Begin(conn, nesting, outcome)
  <2>1. conn' = r.conn /\ conn.level < MaxLevel
    BY <1>1 DEF BeginCall, Returned
  <2>2. (r.conn.open <=> conn.open) /\ (conn.open => r.conn.level = conn.level + 1)
    BY <1>0, <2>1, BeginEffect
  <2> QED BY <1>0, <2>1, <2>2 DEF ActiveIsCounted
<1>2. ASSUME NEW r, NEW outcome \in Outcome, Ends(conn, r, outcome), conn' = r.conn
      PROVE  ActiveIsCounted'
  BY <1>0, <1>2 DEF Ends, ActiveIsCounted
<1>3. ASSUME NEW nesting \in BOOLEAN, NEW outcome \in Outcome,
             CommitCall(nesting, outcome)
      PROVE  ActiveIsCounted'
  BY <1>0, <1>2, <1>3, CommitEffect DEF CommitCall, Returned
<1>4. ASSUME NEW nesting \in BOOLEAN, NEW outcome \in Outcome,
             RollbackCall(nesting, outcome)
      PROVE  ActiveIsCounted'
  BY <1>0, <1>2, <1>4, RollbackEffect DEF RollbackCall, Returned
<1>5. ASSUME NEW r, conn' = r.conn,
             r.conn.open <=> conn.open, r.conn.level = conn.level,
             r.conn.active <=> conn.active
      PROVE  ActiveIsCounted'
  BY <1>5 DEF ActiveIsCounted
<1>6. ASSUME NEW e \in Effects, NEW outcome \in Outcome, ExecuteCall(e, outcome)
      PROVE  ActiveIsCounted'
  BY <1>0, <1>5, <1>6, ExecuteEffect DEF ExecuteCall, Returned
<1>7. ASSUME NEW flag \in BOOLEAN, SetSavepointsCall(flag)
      PROVE  ActiveIsCounted'
  BY <1>0, <1>5, <1>7, SetSavepointsEffect DEF SetSavepointsCall, Returned
<1>8. CASE CloseCall
  <2>1. conn' = Close(conn).conn
    BY <1>8 DEF CloseCall, Returned
  <2>2. ~Close(conn).conn.open
    BY <1>0, CloseEffect
  <2> QED BY <2>1, <2>2 DEF ActiveIsCounted
<1>9. ASSUME NEW outcome \in Outcome, ConnectCall(outcome) PROVE ActiveIsCounted'
  <2> DEFINE r == Connect(conn, outcome)
  <2>1. conn' = r.conn
    BY <1>9 DEF ConnectCall, Returned
  <2>2. r.conn # conn => ~r.conn.active
    BY <1>0, ConnectEffect
  <2> QED BY <2>1, <2>2 DEF ActiveIsCounted
<1>10. CASE UNCHANGED vars
  BY <1>10 DEF vars, ActiveIsCounted
<1> QED BY <1>0, <1>1, <1>3, <1>4, <1>6, <1>7, <1>8, <1>9, <1>10 DEF Next

\* With vetoes, refused commands and connections replaced inside a scope, a
\* transaction of the session is always one the caller can still end, unless
\* a server keeps a transaction whose COMMIT it refused.
THEOREM ActiveTransactionIsCounted ==
    ASSUME "busy" \notin Faults
    PROVE  Spec => []ActiveIsCounted
<1>1. Init => ActiveIsCounted
  BY InitIdle DEF ActiveIsCounted
<1> QED BY <1>1, InitType, TypeStep, CountedStep, PTL DEF Spec

----------------------------------------------------------------------------
(* The stack of scopes that a connection stands for *)

ScopeOf(W) == [hard : BOOLEAN, mark : W]

\* Scope i of the scopes o on the connection c.
HasPoint(o, c, i) == i > 1 /\ o[i] /\ c.savepoints
ScopeIn(o, c, i) ==
    [hard |-> i = 1 \/ HasPoint(o, c, i),
     mark |-> IF HasPoint(o, c, i) THEN PointWork(c.points, i) ELSE {}]
ScopesIn(o, c) == [i \in 1 .. Len(o) |-> ScopeIn(o, c, i)]

LEMMA MappedScopes == opened \in Seq(BOOLEAN) => MappedStack = ScopesIn(opened, conn)
<1> SUFFICES ASSUME opened \in Seq(BOOLEAN) PROVE MappedStack = ScopesIn(opened, conn)
  OBVIOUS
<1>1. ASSUME NEW i \in 1 .. Len(opened)
      PROVE  [hard |-> IsHard(i), mark |-> IF i > 1 /\ IsHard(i) THEN WorkAt(conn, i) ELSE {}]
                = ScopeIn(opened, conn, i)
  <2>1. i \in Nat /\ Len(opened) \in Nat /\ (i = 1 \/ i > 1)
    OBVIOUS
  <2>2. CASE i = 1
    BY <2>2 DEF IsHard, HasPoint, ScopeIn
  <2>3. CASE i > 1
    <3>1. i # 1
      BY <2>3
    <3> QED BY <2>3, <3>1 DEF IsHard, HasPoint, ScopeIn, WorkAt, PointWork
  <2> QED BY <2>1, <2>2, <2>3
<1> QED BY <1>1 DEF MappedStack, ScopesIn

\* The scopes form a sequence.
LEMMA ScopesSeq ==
    ASSUME NEW W, {} \in W, NEW o \in Seq(BOOLEAN), NEW c, c.savepoints \in BOOLEAN,
           \A i \in 2 .. Len(o) : HasPoint(o, c, i) => PointWork(c.points, i) \in W
    PROVE  /\ ScopesIn(o, c) \in Seq(ScopeOf(W))
           /\ Len(ScopesIn(o, c)) = Len(o)
           /\ \A i \in 1 .. Len(o) : ScopesIn(o, c)[i] = ScopeIn(o, c, i)
<1>1. \A i \in 1 .. Len(o) : ScopeIn(o, c, i) \in ScopeOf(W)
  <2> SUFFICES ASSUME NEW i \in 1 .. Len(o) PROVE ScopeIn(o, c, i) \in ScopeOf(W)
    OBVIOUS
  <2>1. HasPoint(o, c, i) => PointWork(c.points, i) \in W
    <3>1. i > 1 => i \in 2 .. Len(o)
      OBVIOUS
    <3> QED BY <3>1 DEF HasPoint
  <2> QED BY <2>1 DEF ScopeIn, ScopeOf
<1>2. ScopesIn(o, c) \in [1 .. Len(o) -> ScopeOf(W)]
  BY <1>1 DEF ScopesIn
<1>3. ScopesIn(o, c) \in Seq(ScopeOf(W))
  BY <1>2, SeqDef
<1>4. Len(ScopesIn(o, c)) = Len(o)
  BY <1>2, <1>3
<1> QED BY <1>3, <1>4 DEF ScopesIn

\* A call that leaves the savepoints of the scopes alone leaves the scopes.
LEMMA SameScopes ==
    ASSUME NEW n \in Nat, NEW o, NEW p, NEW c, NEW d, d.savepoints <=> c.savepoints,
           \A i \in 1 .. n : p[i] = o[i],
           \A i \in 2 .. n : HasPoint(o, c, i) =>
              PointWork(d.points, i) = PointWork(c.points, i)
    PROVE  \A i \in 1 .. n : ScopeIn(p, d, i) = ScopeIn(o, c, i)
<1> SUFFICES ASSUME NEW i \in 1 .. n PROVE ScopeIn(p, d, i) = ScopeIn(o, c, i)
  OBVIOUS
<1>1. HasPoint(p, d, i) <=> HasPoint(o, c, i)
  BY DEF HasPoint
<1>2. HasPoint(o, c, i) => PointWork(d.points, i) = PointWork(c.points, i)
  <2>1. i > 1 => i \in 2 .. n
    OBVIOUS
  <2> QED BY <2>1 DEF HasPoint
<1>3. CASE HasPoint(o, c, i)
  BY <1>1, <1>2, <1>3 DEF ScopeIn
<1>4. CASE ~HasPoint(o, c, i)
  BY <1>1, <1>4 DEF ScopeIn
<1> QED BY <1>3, <1>4

\* begin() adds a scope, commit() and rollback() take the innermost away.
LEMMA ScopesGrow ==
    ASSUME NEW W, {} \in W, NEW o \in Seq(BOOLEAN), NEW flag \in BOOLEAN, NEW c, NEW d,
           c.savepoints \in BOOLEAN, d.savepoints \in BOOLEAN,
           d.savepoints <=> c.savepoints,
           \A i \in 2 .. Len(o) : HasPoint(o, c, i) =>
              /\ PointWork(d.points, i) = PointWork(c.points, i)
              /\ PointWork(c.points, i) \in W,
           NEW new, new = ScopeIn(Append(o, flag), d, Len(o) + 1), new \in ScopeOf(W)
    PROVE  ScopesIn(Append(o, flag), d) = Append(ScopesIn(o, c), new)
<1> DEFINE p == Append(o, flag)
           old == ScopesIn(o, c)
           all == ScopesIn(p, d)
<1>1. /\ p \in Seq(BOOLEAN) /\ Len(p) = Len(o) + 1 /\ Len(o) \in Nat
      /\ \A i \in 1 .. Len(o) : p[i] = o[i]
  OBVIOUS
<1>2. /\ old \in Seq(ScopeOf(W)) /\ Len(old) = Len(o)
      /\ \A i \in 1 .. Len(o) : old[i] = ScopeIn(o, c, i)
  BY ScopesSeq
<1> HIDE DEF p, old
<1>3. \A i \in 1 .. Len(o) : ScopeIn(p, d, i) = ScopeIn(o, c, i)
  <2> DEFINE n == Len(o)
  <2>1. n \in Nat
    BY <1>1
  <2>2. \A i \in 2 .. n : HasPoint(o, c, i) =>
           PointWork(d.points, i) = PointWork(c.points, i)
    OBVIOUS
  <2>3. \A i \in 1 .. n : p[i] = o[i]
    BY <1>1
  <2> HIDE DEF n
  <2>4. \A i \in 1 .. n : ScopeIn(p, d, i) = ScopeIn(o, c, i)
    BY <2>1, <2>2, <2>3, SameScopes
  <2> QED BY <2>4 DEF n
<1>4. \A i \in 1 .. Len(p) : all[i] = ScopeIn(p, d, i)
  BY DEF ScopesIn
<1>5. all \in Seq(ScopeOf(W)) /\ Len(all) = Len(p)
  <2>1. \A i \in 1 .. Len(p) : ScopeIn(p, d, i) \in ScopeOf(W)
    <3> SUFFICES ASSUME NEW i \in 1 .. Len(p) PROVE ScopeIn(p, d, i) \in ScopeOf(W)
      OBVIOUS
    <3>1. CASE i = Len(o) + 1
      BY <3>1 DEF p
    <3>2. CASE i \in 1 .. Len(o)
      <4>1. old[i] \in ScopeOf(W)
        BY <1>2, <3>2
      <4> QED BY <1>2, <1>3, <3>2, <4>1
    <3> QED BY <1>1, <3>1, <3>2
  <2>2. all \in [1 .. Len(p) -> ScopeOf(W)]
    BY <2>1 DEF ScopesIn
  <2>3. Len(p) \in Nat
    BY <1>1
  <2> HIDE DEF all
  <2>4. all \in Seq(ScopeOf(W))
    BY <2>2, <2>3, SeqDef
  <2> QED BY <2>2, <2>3, <2>4
<1> DEFINE more == Append(old, new)
<1>6. /\ more \in Seq(ScopeOf(W)) /\ Len(more) = Len(o) + 1
      /\ \A i \in 1 .. Len(o) : more[i] = old[i]
      /\ more[Len(o) + 1] = new
  BY <1>1, <1>2
<1> HIDE DEF all, more
<1>7. \A i \in 1 .. Len(all) : all[i] = more[i]
  <2> SUFFICES ASSUME NEW i \in 1 .. Len(p) PROVE all[i] = more[i]
    BY <1>5
  <2>1. CASE i = Len(o) + 1
    BY <1>4, <1>6, <2>1 DEF p
  <2>2. CASE i \in 1 .. Len(o)
    BY <1>2, <1>3, <1>4, <1>6, <2>2
  <2> QED BY <1>1, <2>1, <2>2
<1>8. all = more
  BY <1>1, <1>5, <1>6, <1>7, SeqEqual
<1> QED BY <1>8 DEF all, more, old, p

LEMMA ScopesShrink ==
    ASSUME NEW W, {} \in W, NEW o \in Seq(BOOLEAN), o # <<>>, NEW c, NEW d,
           c.savepoints \in BOOLEAN, d.savepoints \in BOOLEAN,
           d.savepoints <=> c.savepoints,
           \A i \in 2 .. Len(o) : HasPoint(o, c, i) => PointWork(c.points, i) \in W,
           \A i \in 2 .. (Len(o) - 1) : HasPoint(o, c, i) =>
              PointWork(d.points, i) = PointWork(c.points, i)
    PROVE  /\ ScopesIn(Front(o), d) = Front(ScopesIn(o, c))
           /\ Last(ScopesIn(o, c)) = ScopeIn(o, c, Len(o))
           /\ ScopesIn(o, c) # <<>>
<1> DEFINE p == Front(o)
           old == ScopesIn(o, c)
           less == Front(old)
           all == ScopesIn(p, d)
<1>0. Len(o) \in Nat /\ Len(o) > 0
  OBVIOUS
<1>1. /\ p \in Seq(BOOLEAN) /\ Len(p) = Len(o) - 1
      /\ \A i \in 1 .. (Len(o) - 1) : p[i] = o[i]
  <2> DEFINE m == Len(o) - 1
  <2>1. p = SubSeq(o, 1, m)
    BY DEF Front
  <2>2. m \in 0 .. Len(o)
    BY <1>0
  <2> HIDE DEF m, p
  <2>3. p \in Seq(BOOLEAN)
    BY <1>0, <2>1, <2>2
  <2>4. Len(p) = m /\ \A i \in 1 .. m : p[i] = o[i]
    BY <1>0, <2>1, <2>2
  <2> QED BY <2>3, <2>4 DEF m
<1>2. /\ old \in Seq(ScopeOf(W)) /\ Len(old) = Len(o)
      /\ \A i \in 1 .. Len(o) : old[i] = ScopeIn(o, c, i)
  BY ScopesSeq
<1> HIDE DEF p, old
<1>3. \A i \in 1 .. (Len(o) - 1) : ScopeIn(p, d, i) = ScopeIn(o, c, i)
  <2> DEFINE n == Len(o) - 1
  <2>1. n \in Nat
    BY <1>0
  <2>2. \A i \in 2 .. n : HasPoint(o, c, i) =>
           PointWork(d.points, i) = PointWork(c.points, i)
    OBVIOUS
  <2>3. \A i \in 1 .. n : p[i] = o[i]
    BY <1>1
  <2> HIDE DEF n
  <2>4. \A i \in 1 .. n : ScopeIn(p, d, i) = ScopeIn(o, c, i)
    BY <2>1, <2>2, <2>3, SameScopes
  <2> QED BY <2>4 DEF n
<1>4. \A i \in 1 .. Len(p) : all[i] = ScopeIn(p, d, i)
  BY DEF ScopesIn
<1>5. all \in Seq(ScopeOf(W)) /\ Len(all) = Len(p)
  <2>1. \A i \in 1 .. Len(p) : ScopeIn(p, d, i) \in ScopeOf(W)
    <3> SUFFICES ASSUME NEW i \in 1 .. Len(p) PROVE ScopeIn(p, d, i) \in ScopeOf(W)
      OBVIOUS
    <3>1. i \in 1 .. Len(o) /\ i \in 1 .. (Len(o) - 1)
      BY <1>0, <1>1
    <3>2. old[i] \in ScopeOf(W)
      BY <1>2, <3>1
    <3> QED BY <1>2, <1>3, <3>1, <3>2
  <2>2. all \in [1 .. Len(p) -> ScopeOf(W)]
    BY <2>1 DEF ScopesIn
  <2>3. Len(p) \in Nat
    BY <1>1
  <2> HIDE DEF all
  <2>4. all \in Seq(ScopeOf(W))
    BY <2>2, <2>3, SeqDef
  <2> QED BY <2>2, <2>3, <2>4
<1>6. /\ less \in Seq(ScopeOf(W)) /\ Len(less) = Len(o) - 1
      /\ \A i \in 1 .. (Len(o) - 1) : less[i] = old[i]
  BY <1>0, <1>2 DEF Front
<1>9. Last(old) = ScopeIn(o, c, Len(o)) /\ old # <<>>
  <2>1. Len(<<>>) = 0
    OBVIOUS
  <2> QED BY <1>0, <1>2, <2>1 DEF Last
<1> HIDE DEF all, less
<1>7. \A i \in 1 .. Len(all) : all[i] = less[i]
  <2> SUFFICES ASSUME NEW i \in 1 .. Len(p) PROVE all[i] = less[i]
    BY <1>5
  <2>1. i \in 1 .. Len(o) /\ i \in 1 .. (Len(o) - 1)
    BY <1>0, <1>1
  <2> QED BY <1>2, <1>3, <1>4, <1>6, <2>1
<1>8. all = less
  BY <1>1, <1>5, <1>6, <1>7, SeqEqual
<1> QED BY <1>8, <1>9 DEF all, less, old, p

\* The inductive invariant: the counter, the session and the scopes agree, the
\* scopes with a savepoint find theirs in the order of nesting, and the work
\* only grew from one savepoint to the next, also between stale ones.
HardIn(o, c) == {i \in 2 .. Len(o) : HasPoint(o, c, i)}

Scoped(c, o) ==
    /\ c \in Session(SUBSET Effects)
    /\ c.open => InStep(c)
    /\ ~c.open => c.level = 0 /\ ~c.active
    /\ Len(o) = c.level
    /\ Growing(c.points, c.work)
    /\ Marks(c.points, HardIn(o, c))

LEMMA ScopedFacts ==
    ASSUME NEW c, NEW o \in Seq(BOOLEAN), Scoped(c, o)
    PROVE  /\ c \in ConnectionOf(SUBSET Effects) /\ c.level \in Nat /\ c.savepoints \in BOOLEAN
           /\ c.points \in Seq(PointOf(SUBSET Effects)) /\ c.work \in SUBSET Effects
           /\ \A i \in 2 .. Len(o) : HasPoint(o, c, i) =>
                 /\ PointIndex(c.points, i) > 0
                 /\ PointWork(c.points, i) \in SUBSET Effects
           /\ HardIn(o, c) \in SUBSET Nat
<1>1. /\ c \in ConnectionOf(SUBSET Effects) /\ c.level \in Nat /\ c.savepoints \in BOOLEAN
      /\ c.points \in Seq(PointOf(SUBSET Effects)) /\ c.work \in SUBSET Effects
  BY DEF Scoped, Session, ConnectionOf
<1>2. ASSUME NEW i \in 2 .. Len(o), HasPoint(o, c, i)
      PROVE  /\ PointIndex(c.points, i) > 0
             /\ PointWork(c.points, i) \in SUBSET Effects
  <2>1. PointIndex(c.points, i) > 0
    BY <1>2 DEF Scoped, Marks, HardIn
  <2>2. i \in Nat
    OBVIOUS
  <2>3. WorkAt(c, i) \in SUBSET Effects
    BY <1>1, <2>1, <2>2, PointsSteady
  <2> QED BY <2>1, <2>3 DEF WorkAt, PointWork
<1>3. HardIn(o, c) \in SUBSET Nat
  BY DEF HardIn
<1> QED BY <1>1, <1>2, <1>3

\* begin() on an open connection.  The outermost scope is hard; an inner one
\* is when it has a savepoint, and its mark is the work done so far.
IsHardScope(o, c, nesting) == o = <<>> \/ (nesting /\ c.savepoints)
NewScope(o, c, nesting) ==
    IF IsHardScope(o, c, nesting)
    THEN [hard |-> TRUE, mark |-> IF o = <<>> THEN {} ELSE c.work]
    ELSE [hard |-> FALSE, mark |-> {}]

LEMMA BeginScoped ==
    ASSUME NEW c, NEW o \in Seq(BOOLEAN), Scoped(c, o), c.open, NEW nesting \in BOOLEAN,
           NEW r, r = Begin(c, nesting, "ok")
    PROVE  /\ Scoped(r.conn, Append(o, nesting))
           /\ r.made = {} /\ r.conn.work = c.work /\ r.conn.level = c.level + 1
           /\ ScopesIn(o, c) = <<>> <=> o = <<>>
           /\ ScopesIn(Append(o, nesting), r.conn) =
                 Append(ScopesIn(o, c), NewScope(o, c, nesting))
<1> DEFINE d == r.conn
           p == Append(o, nesting)
           n == Len(o) + 1
<1>1. /\ c \in ConnectionOf(SUBSET Effects) /\ c.level \in Nat /\ c.savepoints \in BOOLEAN
      /\ c.points \in Seq(PointOf(SUBSET Effects)) /\ c.work \in SUBSET Effects
      /\ \A i \in 2 .. Len(o) : HasPoint(o, c, i) =>
            /\ PointIndex(c.points, i) > 0
            /\ PointWork(c.points, i) \in SUBSET Effects
      /\ HardIn(o, c) \in SUBSET Nat
  BY ScopedFacts
<1>2. c \in Session(SUBSET Effects) /\ InStep(c) /\ Len(o) = c.level
  BY DEF Scoped
<1>3. "ok" \in Outcomes /\ Worked("ok", r) /\ {} \in SUBSET Effects
  BY DEF Outcomes, Worked
<1>4. /\ r.made = {} /\ InStep(d)
      /\ d.level = c.level + 1
      /\ (d.savepoints <=> c.savepoints)
      /\ d.work = c.work
      /\ d.points = IF c.level = 0 THEN <<>>
                    ELSE IF UsesSavepoint(c, nesting)
                         THEN PointsWith(c, c.level + 1) ELSE c.points
  BY <1>2, <1>3, BeginWorks
<1>5. d \in Session(SUBSET Effects) /\ d.savepoints \in BOOLEAN
  BY <1>2, <1>3, MethodsSteady DEF Steady, Session, ConnectionOf
<1>6. /\ p \in Seq(BOOLEAN) /\ Len(p) = n /\ p[n] = nesting
      /\ \A i \in 1 .. Len(o) : p[i] = o[i]
      /\ Len(o) \in Nat /\ n \in Nat /\ (o = <<>> <=> Len(o) = 0)
  OBVIOUS
<1> HIDE DEF d, p
<1>7. \A i \in 2 .. Len(o) : HasPoint(p, d, i) <=> HasPoint(o, c, i)
  BY <1>4, <1>6 DEF HasPoint
<1>8. HasPoint(p, d, n) <=> n > 1 /\ nesting /\ c.savepoints
  BY <1>4, <1>6 DEF HasPoint
<1>9. /\ Marks(d.points, HardIn(p, d))
      /\ Growing(d.points, d.work)
      /\ \A i \in 2 .. Len(o) : HasPoint(o, c, i) =>
            PointWork(d.points, i) = PointWork(c.points, i)
      /\ HasPoint(p, d, n) => PointWork(d.points, n) = c.work
  <2>1. CASE c.level = 0
    <3>1. d.points = <<>> /\ Len(<<>>) = 0 /\ 1 .. 0 = {}
      BY <1>4, <2>1
    <3>2. HardIn(p, d) = {} /\ 2 .. Len(o) = {} /\ ~HasPoint(p, d, n)
      BY <1>2, <1>6, <1>8, <2>1 DEF HardIn
    <3>3. Growing(d.points, d.work)
      BY <3>1 DEF Growing
    <3> QED BY <3>2, <3>3 DEF Marks
  <2>2. CASE c.level > 0 /\ ~UsesSavepoint(c, nesting)
    <3>1. d.points = c.points
      BY <1>4, <2>2
    <3>2. ~HasPoint(p, d, n)
      BY <1>8, <2>2 DEF UsesSavepoint
    <3>3. HardIn(p, d) = HardIn(o, c)
      <4>1. \A i \in 2 .. Len(p) : i \in 2 .. Len(o) \/ i = n
        BY <1>6
      <4>2. \A i \in 2 .. Len(o) : i \in 2 .. Len(p)
        BY <1>6
      <4> QED BY <1>7, <3>2, <4>1, <4>2 DEF HardIn
    <3> QED BY <1>4, <3>1, <3>2, <3>3 DEF Scoped
  <2>3. CASE c.level > 0 /\ UsesSavepoint(c, nesting)
    <3>1. d.points = PointsWith(c, n)
      BY <1>2, <1>4, <2>3
    <3>2. HasPoint(p, d, n) /\ n \in Nat /\ n > 1
      BY <1>2, <1>6, <1>8, <2>3 DEF UsesSavepoint
    <3>3. HardIn(p, d) = HardIn(o, c) \cup {n}
      <4>1. \A i \in 2 .. Len(p) : i \in 2 .. Len(o) \/ i = n
        BY <1>6
      <4>2. \A i \in 2 .. Len(o) : i \in 2 .. Len(p)
        BY <1>6
      <4>3. n \in 2 .. Len(p)
        BY <1>6, <3>2
      <4> QED BY <1>7, <3>2, <4>1, <4>2, <4>3 DEF HardIn
    <3> DEFINE H == HardIn(o, c)
               S == PointOf(SUBSET Effects)
    <3>4. n \notin H /\ \A i \in H : i < n
      BY <1>6 DEF HardIn
    <3>5. [name |-> n, work |-> c.work] \in S
      BY <1>1, <3>2 DEF PointOf
    <3>6. Marks(c.points, H) /\ Growing(c.points, c.work)
      BY DEF Scoped
    <3>8. c.points \in Seq(S)
      BY <1>1
    <3>9. H \in SUBSET Nat /\ n \in Nat
      BY <1>1, <3>2
    <3>10. HardIn(p, d) = H \cup {n}
      BY <3>3
    <3>11. \A i \in 2 .. Len(o) : HasPoint(o, c, i) => i \in H
      BY DEF HardIn
    <3> HIDE DEF n, H, S
    <3>12. Under(H, n)
      BY <3>4, <3>9 DEF Under
    <3>7. Marks(PointsWith(c, n), H \cup {n})
      BY <3>5, <3>6, <3>8, <3>9, <3>12, SavepointMarks
    <3>16. PointWork(PointsWith(c, n), n) = c.work
      BY <3>5, <3>6, <3>8, <3>9, <3>12, SavepointMarks
    <3>17. \A i \in H : PointWork(PointsWith(c, n), i) = PointWork(c.points, i)
      <4>1. SameWork(c.points, PointsWith(c, n), H)
        BY <3>5, <3>6, <3>8, <3>9, <3>12, SavepointMarks
      <4> QED BY <4>1 DEF SameWork
    <3>18. Growing(PointsWith(c, n), c.work)
      BY <3>5, <3>6, <3>8, <3>9, <3>12, SavepointMarks
    <3>13. Marks(d.points, HardIn(p, d)) /\ Growing(d.points, d.work)
      BY <1>4, <3>1, <3>7, <3>10, <3>18
    <3>14. \A i \in 2 .. Len(o) : HasPoint(o, c, i) =>
              PointWork(d.points, i) = PointWork(c.points, i)
      BY <3>1, <3>11, <3>17
    <3>15. PointWork(d.points, n) = c.work
      BY <3>1, <3>16
    <3> QED BY <3>13, <3>14, <3>15
  <2> QED BY <1>1, <2>1, <2>2, <2>3
<1>10. Scoped(d, p)
  <2>1. d.open => InStep(d)
    BY <1>4
  <2>2. ~d.open => d.level = 0 /\ ~d.active
    BY <1>4 DEF InStep
  <2>3. Len(p) = d.level
    BY <1>2, <1>4, <1>6
  <2> QED BY <1>5, <1>9, <2>1, <2>2, <2>3 DEF Scoped
<1> DEFINE new == ScopeIn(p, d, n)
<1>11. new = NewScope(o, c, nesting) /\ new \in ScopeOf(SUBSET Effects)
  <2>0. \A hard \in BOOLEAN, mark \in SUBSET Effects :
           [hard |-> hard, mark |-> mark] \in ScopeOf(SUBSET Effects)
    BY DEF ScopeOf
  <2>1. o = <<>> <=> n = 1
    BY <1>6
  <2>2. CASE HasPoint(p, d, n)
    <3>1. new = [hard |-> TRUE, mark |-> c.work]
      BY <1>9, <2>2 DEF ScopeIn
    <3>2. IsHardScope(o, c, nesting) /\ o # <<>>
      BY <1>6, <1>8, <2>1, <2>2 DEF IsHardScope
    <3>3. NewScope(o, c, nesting) = [hard |-> TRUE, mark |-> c.work]
      BY <3>2 DEF NewScope
    <3> QED BY <1>1, <2>0, <3>1, <3>3
  <2>3. CASE ~HasPoint(p, d, n) /\ n = 1
    <3>1. new = [hard |-> TRUE, mark |-> {}]
      BY <2>3 DEF ScopeIn
    <3>2. NewScope(o, c, nesting) = [hard |-> TRUE, mark |-> {}]
      BY <2>1, <2>3 DEF NewScope, IsHardScope
    <3> QED BY <1>3, <2>0, <3>1, <3>2
  <2>4. CASE ~HasPoint(p, d, n) /\ n # 1
    <3>1. new = [hard |-> FALSE, mark |-> {}]
      BY <2>4 DEF ScopeIn
    <3>2. ~IsHardScope(o, c, nesting)
      BY <1>6, <1>8, <2>1, <2>4 DEF IsHardScope
    <3>3. NewScope(o, c, nesting) = [hard |-> FALSE, mark |-> {}]
      BY <3>2 DEF NewScope
    <3> QED BY <1>3, <2>0, <3>1, <3>3
  <2> QED BY <2>2, <2>3, <2>4
<1>12. ScopesIn(p, d) = Append(ScopesIn(o, c), new)
  <2> DEFINE S == SUBSET Effects
  <2>1. {} \in S
    OBVIOUS
  <2>2. \A i \in 2 .. Len(o) : HasPoint(o, c, i) =>
           /\ PointWork(d.points, i) = PointWork(c.points, i)
           /\ PointWork(c.points, i) \in S
    BY <1>1, <1>9
  <2>3. new \in ScopeOf(S) /\ new = ScopeIn(Append(o, nesting), d, Len(o) + 1)
    BY <1>11 DEF p
  <2> HIDE DEF S, new
  <2> QED BY <1>1, <1>4, <1>5, <2>1, <2>2, <2>3, ScopesGrow DEF p
<1>13. ScopesIn(o, c) = <<>> <=> o = <<>>
  <2>1. Len(ScopesIn(o, c)) = Len(o) /\ ScopesIn(o, c) \in Seq(ScopeOf(SUBSET Effects))
    BY <1>1, ScopesSeq
  <2> QED BY <2>1
<1> QED BY <1>4, <1>10, <1>11, <1>12, <1>13 DEF d, p


\* A call that ends the innermost scope and leaves the savepoints of the
\* scopes around it.
LEMMA EndScoped ==
    ASSUME NEW c, NEW o \in Seq(BOOLEAN), Scoped(c, o), o # <<>>, NEW d,
           d \in Session(SUBSET Effects), InStep(d), d.level = c.level - 1,
           d.savepoints <=> c.savepoints, Growing(d.points, d.work),
           Marks(d.points, HardIn(o, c) \ {Len(o)}),
           SameWork(c.points, d.points, HardIn(o, c) \ {Len(o)})
    PROVE  /\ Scoped(d, Front(o))
           /\ ScopesIn(Front(o), d) = Front(ScopesIn(o, c))
           /\ Len(ScopesIn(o, c)) = Len(o)
           /\ Last(ScopesIn(o, c)) = ScopeIn(o, c, Len(o))
           /\ ScopesIn(o, c) # <<>>
<1> DEFINE p == Front(o)
           m == Len(o) - 1
           S == SUBSET Effects
<1>1. /\ c.level \in Nat /\ c.savepoints \in BOOLEAN
      /\ \A i \in 2 .. Len(o) : HasPoint(o, c, i) => PointWork(c.points, i) \in S
  BY ScopedFacts
<1>2. Len(o) = c.level /\ Len(o) \in Nat /\ Len(o) > 0
  BY DEF Scoped
<1>3. d.savepoints \in BOOLEAN /\ {} \in S
  BY DEF Session, ConnectionOf
<1>4. p \in Seq(BOOLEAN) /\ Len(p) = m /\ \A i \in 1 .. m : p[i] = o[i]
  <2>1. p = SubSeq(o, 1, m)
    BY DEF Front
  <2>2. m \in 0 .. Len(o)
    BY <1>2
  <2> HIDE DEF m, p
  <2> QED BY <1>2, <2>1, <2>2
<1> HIDE DEF p
<1>5. \A i \in 2 .. m : i \in HardIn(o, c) \ {Len(o)} <=> HasPoint(o, c, i)
  BY <1>2 DEF HardIn
<1>6. HardIn(p, d) \subseteq HardIn(o, c) \ {Len(o)}
  BY <1>2, <1>4 DEF HardIn, HasPoint
<1>7. Marks(d.points, HardIn(p, d))
  BY <1>6 DEF Marks
<1>8. Scoped(d, p)
  <2>1. d.open /\ (d.active <=> d.level > 0)
    BY DEF InStep
  <2>2. Len(p) = d.level
    BY <1>2, <1>4
  <2> QED BY <1>7, <2>1, <2>2 DEF Scoped
<1>9. \A i \in 2 .. (Len(o) - 1) : HasPoint(o, c, i) =>
         PointWork(d.points, i) = PointWork(c.points, i)
  BY <1>5 DEF SameWork
<1>10. Len(ScopesIn(o, c)) = Len(o)
  <2> HIDE DEF S
  <2> QED BY <1>1, <1>3, ScopesSeq
<1>11. /\ ScopesIn(p, d) = Front(ScopesIn(o, c))
       /\ Last(ScopesIn(o, c)) = ScopeIn(o, c, Len(o))
       /\ ScopesIn(o, c) # <<>>
  <2> HIDE DEF S
  <2> QED BY <1>1, <1>3, <1>9, ScopesShrink DEF p
<1> QED BY <1>8, <1>10, <1>11 DEF p

\* A scope that the call ends has its savepoint if it needs one.
LEMMA ScopeHasPoint ==
    ASSUME NEW c, NEW o \in Seq(BOOLEAN), Scoped(c, o), o # <<>>
    PROVE  /\ InStep(c) /\ c.level > 0 /\ c.level \in Nat /\ Len(o) = c.level
           /\ HasPoint(o, c, Len(o)) <=> c.level > 1 /\ UsesSavepoint(c, Last(o))
           /\ HasPoint(o, c, Len(o)) => c.level \in HardIn(o, c)
           /\ c.level > 1 /\ UsesSavepoint(c, Last(o)) => PointIndex(c.points, c.level) > 0
<1>1. Len(o) = c.level /\ Len(o) \in Nat /\ Len(o) > 0
  BY DEF Scoped
<1>2. InStep(c)
  BY <1>1 DEF Scoped
<1>3. HasPoint(o, c, Len(o)) <=> c.level > 1 /\ UsesSavepoint(c, Last(o))
  BY <1>1 DEF HasPoint, UsesSavepoint, Last
<1>4. HasPoint(o, c, Len(o)) => c.level \in HardIn(o, c)
  BY <1>1, <1>3 DEF HardIn
<1>5. HasPoint(o, c, Len(o)) => PointIndex(c.points, c.level) > 0
  BY <1>4 DEF Scoped, Marks
<1> QED BY <1>1, <1>2, <1>3, <1>4, <1>5

\* commit() of the innermost scope.
LEMMA CommitScoped ==
    ASSUME NEW c, NEW o \in Seq(BOOLEAN), Scoped(c, o), o # <<>>,
           NEW r, r = Commit(c, Last(o), "ok")
    PROVE  /\ Scoped(r.conn, Front(o)) /\ r.conn.level = c.level - 1
           /\ ScopesIn(Front(o), r.conn) = Front(ScopesIn(o, c))
           /\ Len(ScopesIn(o, c)) = Len(o)
           /\ r.made = IF Len(o) = 1 THEN c.work ELSE {}
           /\ r.conn.work = IF Len(o) = 1 THEN {} ELSE c.work
<1> DEFINE d == r.conn
           H == HardIn(o, c)
           S == PointOf(SUBSET Effects)
<1>1. /\ InStep(c) /\ c.level > 0 /\ c.level \in Nat /\ Len(o) = c.level
      /\ HasPoint(o, c, Len(o)) <=> c.level > 1 /\ UsesSavepoint(c, Last(o))
      /\ HasPoint(o, c, Len(o)) => c.level \in H
      /\ c.level > 1 /\ UsesSavepoint(c, Last(o)) => PointIndex(c.points, c.level) > 0
  BY ScopeHasPoint
<1>2. c.points \in Seq(S) /\ H \in SUBSET Nat
  BY ScopedFacts
<1>3. c \in Session(SUBSET Effects) /\ Growing(c.points, c.work) /\ Marks(c.points, H)
  BY DEF Scoped
<1>4. "ok" \in Outcomes /\ Worked("ok", r) /\ {} \in SUBSET Effects
  BY DEF Outcomes, Worked
<1>5. /\ InStep(d)
      /\ d.level = c.level - 1
      /\ (d.savepoints <=> c.savepoints)
      /\ r.made = IF c.level = 1 THEN c.work ELSE {}
      /\ d.work = IF c.level = 1 THEN {} ELSE c.work
      /\ d.points = IF c.level = 1 THEN <<>>
                    ELSE IF UsesSavepoint(c, Last(o))
                         THEN PointsReleased(c, c.level) ELSE c.points
  <2> DEFINE nesting == Last(o)
             W == SUBSET Effects
  <2>1. /\ c \in Session(W) /\ {} \in W /\ r = Commit(c, nesting, "ok")
        /\ c.level > 1 /\ UsesSavepoint(c, nesting) => PointIndex(c.points, c.level) > 0
    BY <1>1, <1>3, <1>4
  <2> HIDE DEF nesting, W
  <2>2. /\ InStep(r.conn)
        /\ r.conn.level = c.level - 1
        /\ (r.conn.savepoints <=> c.savepoints)
        /\ r.made = IF c.level = 1 THEN c.work ELSE {}
        /\ r.conn.work = IF c.level = 1 THEN {} ELSE c.work
        /\ r.conn.points = IF c.level = 1 THEN <<>>
                           ELSE IF UsesSavepoint(c, nesting)
                                THEN PointsReleased(c, c.level) ELSE c.points
    BY <1>1, <1>4, <2>1, CommitWorks
  <2> QED BY <2>2 DEF nesting
<1>6. d \in Session(SUBSET Effects)
  BY <1>3, <1>4, MethodsSteady DEF Steady
<1> DEFINE G == H \ {Len(o)}
<1> HIDE DEF d, H, S
<1>7. \A i \in H : i \in 2 .. Len(o)
  BY DEF H, HardIn
<1>8. Growing(d.points, d.work) /\ Marks(d.points, G) /\ SameWork(c.points, d.points, G)
  <2>1. CASE c.level = 1
    <3>1. G = {} /\ d.points = <<>> /\ Len(<<>>) = 0 /\ 1 .. 0 = {}
      BY <1>1, <1>5, <1>7, <2>1
    <3> QED BY <3>1 DEF Growing, Marks, SameWork
  <2>2. CASE c.level # 1 /\ ~UsesSavepoint(c, Last(o))
    <3>1. d.points = c.points /\ d.work = c.work /\ G \subseteq H
      BY <1>5, <2>2
    <3> QED BY <1>3, <3>1 DEF Marks, SameWork
  <2>3. CASE c.level # 1 /\ UsesSavepoint(c, Last(o))
    <3> DEFINE n == c.level
    <3>1. n \in H /\ Len(o) = n
      BY <1>1, <2>3
    <3>2. d.points = PointsReleased(c, n) /\ d.work = c.work
      BY <1>5, <2>3
    <3>3. G = {i \in H : i < n}
      BY <1>1, <1>7
    <3> HIDE DEF n, G
    <3>4. /\ Marks(PointsReleased(c, n), {i \in H : i < n})
          /\ SameWork(c.points, PointsReleased(c, n), {i \in H : i < n})
          /\ Growing(c.points, c.work) => Growing(PointsReleased(c, n), c.work)
      BY <1>2, <1>3, <3>1, CutMarks
    <3> QED BY <1>3, <3>2, <3>3, <3>4
  <2> QED BY <2>1, <2>2, <2>3
<1>9. /\ Scoped(d, Front(o))
      /\ ScopesIn(Front(o), d) = Front(ScopesIn(o, c))
      /\ Len(ScopesIn(o, c)) = Len(o)
  BY <1>5, <1>6, <1>8, EndScoped DEF H
<1> QED BY <1>1, <1>5, <1>9 DEF d

\* rollback() of the innermost scope.
LEMMA RollbackScoped ==
    ASSUME NEW c, NEW o \in Seq(BOOLEAN), Scoped(c, o), o # <<>>,
           NEW r, r = Rollback(c, Last(o), "ok")
    PROVE  /\ Scoped(r.conn, Front(o)) /\ r.conn.level = c.level - 1
           /\ ScopesIn(Front(o), r.conn) = Front(ScopesIn(o, c))
           /\ Len(ScopesIn(o, c)) = Len(o)
           /\ ScopesIn(o, c) # <<>> /\ r.made = {}
           /\ r.conn.work = IF Last(ScopesIn(o, c)).hard
                            THEN Last(ScopesIn(o, c)).mark ELSE c.work
<1> DEFINE d == r.conn
           H == HardIn(o, c)
           S == PointOf(SUBSET Effects)
<1>1. /\ InStep(c) /\ c.level > 0 /\ c.level \in Nat /\ Len(o) = c.level
      /\ HasPoint(o, c, Len(o)) <=> c.level > 1 /\ UsesSavepoint(c, Last(o))
      /\ HasPoint(o, c, Len(o)) => c.level \in H
      /\ c.level > 1 /\ UsesSavepoint(c, Last(o)) => PointIndex(c.points, c.level) > 0
  BY ScopeHasPoint
<1>2. c.points \in Seq(S) /\ H \in SUBSET Nat
  BY ScopedFacts
<1>3. c \in Session(SUBSET Effects) /\ Growing(c.points, c.work) /\ Marks(c.points, H)
  BY DEF Scoped
<1>4. "ok" \in Outcomes /\ Worked("ok", r) /\ {} \in SUBSET Effects
  BY DEF Outcomes, Worked
<1>5. /\ InStep(d)
      /\ d.level = c.level - 1
      /\ (d.savepoints <=> c.savepoints)
      /\ r.made = {}
      /\ d.work = IF c.level = 1 THEN {}
                  ELSE IF UsesSavepoint(c, Last(o)) THEN WorkAt(c, c.level) ELSE c.work
      /\ d.points = IF c.level = 1 THEN <<>>
                    ELSE IF UsesSavepoint(c, Last(o))
                         THEN PointsRestored(c, c.level) ELSE c.points
  <2> DEFINE nesting == Last(o)
             W == SUBSET Effects
  <2>1. /\ c \in Session(W) /\ {} \in W /\ r = Rollback(c, nesting, "ok")
        /\ c.level > 1 /\ UsesSavepoint(c, nesting) => PointIndex(c.points, c.level) > 0
    BY <1>1, <1>3, <1>4
  <2> HIDE DEF nesting, W
  <2>2. InStep(r.conn) /\ r.conn.level = c.level - 1 /\ r.made = {}
    BY <1>1, <1>4, <2>1, RollbackWorks
  <2>3. r.conn.savepoints <=> c.savepoints
    BY <1>1, <1>4, <2>1, RollbackWorks
  <2>4. c.level = 1 => r.conn.work = {} /\ r.conn.points = <<>>
    <3>3. r.conn \in Session(W)
      BY <1>4, <2>1, MethodsSteady DEF Steady
    <3>1. c.level = 1 => r.conn.work = {}
      BY <2>2, <3>3 DEF Session, InStep
    <3>2. c.level = 1 => r.conn.points = <<>>
      BY <1>1, <1>4, <2>1, RollbackWorks
    <3> QED BY <3>1, <3>2
  <2>5. c.level > 1 /\ UsesSavepoint(c, nesting) =>
           r.conn.work = WorkAt(c, c.level) /\ r.conn.points = PointsRestored(c, c.level)
    BY <1>1, <1>4, <2>1, RollbackWorks
  <2>6. c.level > 1 /\ ~UsesSavepoint(c, nesting) =>
           r.conn.work = c.work /\ r.conn.points = c.points
    BY <1>1, <1>4, <2>1, RollbackWorks
  <2>7. c.level = 1 \/ c.level > 1
    BY <1>1
  <2> QED BY <2>2, <2>3, <2>4, <2>5, <2>6, <2>7 DEF nesting
<1>6. d \in Session(SUBSET Effects)
  BY <1>3, <1>4, MethodsSteady DEF Steady
<1> DEFINE G == H \ {Len(o)}
<1> HIDE DEF d, H, S
<1>7. \A i \in H : i \in 2 .. Len(o)
  BY DEF H, HardIn
<1>8. Growing(d.points, d.work) /\ Marks(d.points, G) /\ SameWork(c.points, d.points, G)
  <2>1. CASE c.level = 1
    <3>1. G = {} /\ d.points = <<>> /\ Len(<<>>) = 0 /\ 1 .. 0 = {}
      BY <1>1, <1>5, <1>7, <2>1
    <3> QED BY <3>1 DEF Growing, Marks, SameWork
  <2>2. CASE c.level # 1 /\ ~UsesSavepoint(c, Last(o))
    <3>1. d.points = c.points /\ d.work = c.work /\ G \subseteq H
      BY <1>5, <2>2
    <3> QED BY <1>3, <3>1 DEF Marks, SameWork
  <2>3. CASE c.level # 1 /\ UsesSavepoint(c, Last(o))
    <3> DEFINE n == c.level
    <3>1. n \in H /\ Len(o) = n
      BY <1>1, <2>3
    <3>2. d.points = PointsRestored(c, n) /\ d.work = WorkAt(c, n)
      BY <1>5, <2>3
    <3>3. G \subseteq {i \in H : i <= n}
      BY <1>1, <1>7
    <3> HIDE DEF n, G
    <3>4. /\ Marks(PointsRestored(c, n), {i \in H : i <= n})
          /\ SameWork(c.points, PointsRestored(c, n), {i \in H : i <= n})
          /\ Growing(c.points, c.work) => Growing(PointsRestored(c, n), WorkAt(c, n))
      BY <1>2, <1>3, <3>1, CutMarks
    <3> QED BY <1>3, <3>2, <3>3, <3>4 DEF Marks, SameWork
  <2> QED BY <2>1, <2>2, <2>3
<1>9. /\ Scoped(d, Front(o))
      /\ ScopesIn(Front(o), d) = Front(ScopesIn(o, c))
      /\ Len(ScopesIn(o, c)) = Len(o)
      /\ Last(ScopesIn(o, c)) = ScopeIn(o, c, Len(o))
      /\ ScopesIn(o, c) # <<>>
  BY <1>5, <1>6, <1>8, EndScoped DEF H
<1>10. d.work = IF Last(ScopesIn(o, c)).hard THEN Last(ScopesIn(o, c)).mark ELSE c.work
  <2> DEFINE last == ScopeIn(o, c, Len(o))
  <2>1. CASE c.level = 1
    <3>1. Len(o) = 1 /\ ~HasPoint(o, c, Len(o)) /\ d.work = {}
      BY <1>1, <1>5, <2>1
    <3>2. last = [hard |-> TRUE, mark |-> {}]
      BY <3>1 DEF ScopeIn
    <3> QED BY <1>9, <3>1, <3>2
  <2>2. CASE c.level # 1 /\ UsesSavepoint(c, Last(o))
    <3>1. HasPoint(o, c, Len(o)) /\ d.work = WorkAt(c, Len(o))
      BY <1>1, <1>5, <2>2
    <3>2. last = [hard |-> TRUE, mark |-> WorkAt(c, Len(o))]
      BY <3>1 DEF ScopeIn, WorkAt, PointWork
    <3> QED BY <1>9, <3>1, <3>2
  <2>3. CASE c.level # 1 /\ ~UsesSavepoint(c, Last(o))
    <3>1. ~HasPoint(o, c, Len(o)) /\ d.work = c.work /\ Len(o) # 1
      BY <1>1, <1>5, <2>3
    <3>2. last = [hard |-> FALSE, mark |-> {}]
      BY <3>1 DEF ScopeIn
    <3> QED BY <1>9, <3>1, <3>2
  <2> QED BY <2>1, <2>2, <2>3
<1> QED BY <1>5, <1>9, <1>10 DEF d


\* Outside every scope.
LEMMA IdleScoped ==
    ASSUME NEW d, d \in Session(SUBSET Effects), d.level = 0, ~d.active
    PROVE  Scoped(d, <<>>) /\ ScopesIn(<<>>, d) = <<>> /\ d.work = {}
<1>1. d.work = {} /\ d.points = <<>> /\ Len(<<>>) = 0 /\ 1 .. 0 = {} /\ 2 .. 0 = {}
  BY DEF Session
<1>2. HardIn(<<>>, d) = {}
  BY <1>1 DEF HardIn
<1>3. Growing(d.points, d.work) /\ Marks(d.points, HardIn(<<>>, d))
  BY <1>1, <1>2 DEF Growing, Marks
<1>4. ScopesIn(<<>>, d) = <<>>
  BY <1>1 DEF ScopesIn
<1> QED BY <1>1, <1>3, <1>4 DEF Scoped, InStep

LEMMA OutsideScopes ==
    ASSUME NEW c, NEW o \in Seq(BOOLEAN), Scoped(c, o), ~c.open \/ c.level = 0
    PROVE  /\ o = <<>> /\ c.level = 0 /\ ~c.active /\ c.work = {}
           /\ ScopesIn(o, c) = <<>>
<1>1. c.level = 0 /\ ~c.active /\ c \in Session(SUBSET Effects)
  BY DEF Scoped, InStep
<1>2. o = <<>>
  BY <1>1 DEF Scoped
<1> QED BY <1>1, <1>2, IdleScoped

\* Until a command fails or a scope is closed another way than it was opened,
\* the connection is in step with the scopes of its callers.
ScopeInv == Lexical => Scoped(conn, opened)

LEMMA InitScope == Init => ScopeInv /\ Scopes!Init
<1> SUFFICES ASSUME Init PROVE ScopeInv /\ Scopes!Init
  OBVIOUS
<1>1. PICK dialect \in Dialects, flag \in BOOLEAN :
         conn = Connect(Closed(dialect, flag), "ok").conn
  BY DEF Init
<1>2. <<>> \in Seq(PointOf(SUBSET Effects))
  OBVIOUS
<1>3. conn \in Session(SUBSET Effects) /\ conn.level = 0 /\ ~conn.active
  BY <1>1, <1>2 DEF Connect, Closed, Idle, Result, Session, ConnectionOf
<1>4. opened = <<>> /\ db = {} /\ opened \in Seq(BOOLEAN)
  BY DEF Init
<1>5. Scoped(conn, opened) /\ ScopesIn(opened, conn) = <<>> /\ conn.work = {}
  BY <1>3, <1>4, IdleScoped
<1>6. MappedStack = <<>>
  BY <1>4, <1>5, MappedScopes
<1> QED BY <1>4, <1>5, <1>6 DEF ScopeInv, Scopes!Init

LEMMA MappedNext == (opened \in Seq(BOOLEAN))' => MappedStack' = ScopesIn(opened', conn')
<1>1. (opened \in Seq(BOOLEAN) => MappedStack = ScopesIn(opened, conn))'
  BY MappedScopes, PTL
<1> QED BY <1>1


\* Every call keeps the connection in step with the scopes, and is a step of
\* the stack of scopes or none.
LEMMA ScopeStep ==
    ASSUME TypeOK, TypeOK', ScopeInv, [Next]_vars, Lexical'
    PROVE  Scoped(conn', opened') /\ [Scopes!Next]_(Scopes!scopeVars)
<1> DEFINE A == ScopesIn(opened, conn)
           B == ScopesIn(opened', conn')
<1>0. /\ opened \in Seq(BOOLEAN) /\ MappedStack = A /\ MappedStack' = B
      /\ "ok" \in Outcomes /\ {} \in SUBSET Effects
  BY MappedScopes, MappedNext DEF TypeOK, Outcomes
<1>1. ASSUME Lexical PROVE Scoped(conn, opened)
  BY <1>1 DEF ScopeInv
<1>2. ASSUME NEW r, NEW scopes, NEW troubled, Returned(r, scopes, troubled), ~strayed
      PROVE  /\ Lexical /\ ~troubled /\ Scoped(conn, opened)
             /\ conn' = r.conn /\ db' = db \cup r.made /\ opened' = scopes
  BY <1>1, <1>2 DEF Lexical, Returned
<1>3. ASSUME conn' = conn, opened' = opened, db' = db, Scoped(conn, opened)
      PROVE  Scoped(conn', opened') /\ [Scopes!Next]_(Scopes!scopeVars)
  BY <1>0, <1>3 DEF Scopes!scopeVars
<1> HIDE DEF A, B
<1>4. ASSUME opened = <<>>, opened' = <<>>, A = <<>>, conn'.work = conn.work, db' = db,
             conn' \in Session(SUBSET Effects), conn'.level = 0, ~conn'.active
      PROVE  Scoped(conn', opened') /\ [Scopes!Next]_(Scopes!scopeVars)
  <2>1. Scoped(conn', <<>>) /\ ScopesIn(<<>>, conn') = <<>>
    BY <1>4, IdleScoped
  <2>2. B = <<>>
    BY <1>4, <2>1 DEF B
  <2> QED BY <1>0, <1>4, <2>1, <2>2 DEF Scopes!scopeVars
<1>5. ASSUME NEW nesting \in BOOLEAN, NEW outcome \in Outcome, BeginCall(nesting, outcome)
      PROVE  Scoped(conn', opened') /\ [Scopes!Next]_(Scopes!scopeVars)
  <2> DEFINE r == Begin(conn, nesting, "ok")
             p == Append(opened, nesting)
  <2>1. outcome = "ok" /\ Lexical
    BY <1>5 DEF BeginCall, Returned, Lexical
  <2>2. /\ Scoped(conn, opened)
        /\ conn' = r.conn /\ db' = db \cup r.made
        /\ opened' = IF r.conn.level > conn.level THEN p ELSE opened
    BY <1>1, <1>5, <2>1 DEF BeginCall, Returned
  <2>3. CASE ~conn.open
    <3>1. r.conn = conn /\ r.made = {}
      BY <2>3 DEF Begin, Result
    <3>2. ~ (conn.level > conn.level)
      BY <2>2, <2>3 DEF Scoped
    <3> QED BY <1>3, <2>2, <3>1, <3>2
  <2>4. CASE conn.open
    <3> DEFINE d == r.conn
    <3>1. /\ Scoped(d, p)
          /\ r.made = {} /\ d.work = conn.work /\ d.level = conn.level + 1
          /\ ScopesIn(opened, conn) = <<>> <=> opened = <<>>
          /\ ScopesIn(p, d) = Append(ScopesIn(opened, conn), NewScope(opened, conn, nesting))
      BY <1>0, <2>2, <2>4, BeginScoped
    <3>2. conn.level \in Nat
      BY <1>0, <2>2, ScopedFacts
    <3>3. conn' = d /\ db' = db /\ opened' = p
      BY <2>2, <3>1, <3>2
    <3>5. /\ A = <<>> <=> opened = <<>>
          /\ B = Append(A, NewScope(opened, conn, nesting))
      BY <3>1, <3>3 DEF A, B
    <3>6. conn'.work = conn.work
      BY <3>1, <3>3
    <3> HIDE DEF d, p
    <3>7. CASE opened = <<>>
      <4>1. A = <<>> /\ NewScope(opened, conn, nesting) = [hard |-> TRUE, mark |-> {}]
        BY <3>5, <3>7 DEF NewScope, IsHardScope
      <4>2. B = <<[hard |-> TRUE, mark |-> {}]>>
        BY <3>5, <4>1
      <4>3. Scopes!OpenOutermost
        BY <1>0, <3>3, <3>6, <4>1, <4>2 DEF Scopes!OpenOutermost, Scopes!Scope
      <4> QED BY <3>1, <3>3, <4>3 DEF Scopes!Next
    <3>8. CASE opened # <<>> /\ IsHardScope(opened, conn, nesting)
      <4>1. A # <<>> /\ B = Append(A, [hard |-> TRUE, mark |-> conn.work])
        BY <3>5, <3>8 DEF NewScope
      <4>2. Scopes!OpenInner(TRUE)
        BY <1>0, <3>3, <3>6, <4>1 DEF Scopes!OpenInner, Scopes!Scope
      <4> QED BY <3>1, <3>3, <4>2 DEF Scopes!Next
    <3>9. CASE opened # <<>> /\ ~IsHardScope(opened, conn, nesting)
      <4>1. A # <<>> /\ B = Append(A, [hard |-> FALSE, mark |-> {}])
        BY <3>5, <3>9 DEF NewScope
      <4>2. Scopes!OpenInner(FALSE)
        BY <1>0, <3>3, <3>6, <4>1 DEF Scopes!OpenInner, Scopes!Scope
      <4> QED BY <3>1, <3>3, <4>2 DEF Scopes!Next
    <3> QED BY <3>7, <3>8, <3>9
  <2> QED BY <2>3, <2>4
<1>6. ASSUME NEW nesting, Strays(nesting) => strayed, ~strayed, opened # <<>>
      PROVE  nesting = Last(opened)
  BY <1>6 DEF Strays
<1>7. ASSUME NEW r, r.conn = conn, r.made = {}, conn' = r.conn, db' = db \cup r.made,
             opened' = ScopesAfter(r), Scoped(conn, opened)
      PROVE  Scoped(conn', opened') /\ [Scopes!Next]_(Scopes!scopeVars)
  <2>1. conn.level \in Nat
    BY <1>0, <1>7, ScopedFacts
  <2>2. opened' = opened
    BY <1>7, <2>1 DEF ScopesAfter
  <2> QED BY <1>3, <1>7, <2>2
<1>8. ASSUME NEW nesting \in BOOLEAN, NEW outcome \in Outcome, CommitCall(nesting, outcome)
      PROVE  Scoped(conn', opened') /\ [Scopes!Next]_(Scopes!scopeVars)
  <2> DEFINE r == Commit(conn, nesting, "ok")
  <2>1. outcome = "ok" /\ Lexical /\ ~Strays(nesting)
    BY <1>8 DEF CommitCall, Returned, Lexical
  <2>2. /\ Scoped(conn, opened)
        /\ conn' = r.conn /\ db' = db \cup r.made /\ opened' = ScopesAfter(r)
    BY <1>1, <1>8, <2>1 DEF CommitCall, Returned
  <2>3. CASE opened = <<>>
    <3>1. ~conn.open \/ conn.level = 0
      BY <2>2, <2>3 DEF Scoped
    <3>2. r.conn = conn /\ r.made = {}
      BY <3>1 DEF Commit, Result
    <3> HIDE DEF r
    <3> QED BY <1>7, <2>2, <3>2
  <2>4. CASE opened # <<>>
    <3> DEFINE d == r.conn
    <3>1. r = Commit(conn, Last(opened), "ok")
      BY <2>1, <2>4 DEF Strays
    <3> HIDE DEF r
    <3>2. /\ Scoped(d, Front(opened)) /\ d.level = conn.level - 1
          /\ ScopesIn(Front(opened), d) = Front(ScopesIn(opened, conn))
          /\ Len(ScopesIn(opened, conn)) = Len(opened)
          /\ r.made = IF Len(opened) = 1 THEN conn.work ELSE {}
          /\ d.work = IF Len(opened) = 1 THEN {} ELSE conn.work
      BY <1>0, <2>2, <2>4, <3>1, CommitScoped
    <3>3. conn.level \in Nat /\ Len(opened) = conn.level /\ Len(opened) > 0
      BY <1>0, <2>2, <2>4, ScopeHasPoint
    <3>4. opened' = Front(opened) /\ conn' = d
      BY <2>2, <2>4, <3>2, <3>3 DEF ScopesAfter
    <3>5. B = Front(A) /\ Len(A) = Len(opened)
      BY <3>2, <3>4 DEF A, B
    <3>6. CASE Len(opened) = 1
      <4>1. db' = db \cup conn.work /\ conn'.work = {}
        BY <2>2, <3>2, <3>4, <3>6
      <4>2. B = <<>>
        <5>1. Len(Front(opened)) = 0 /\ 1 .. 0 = {}
          BY <1>0, <3>6 DEF Front
        <5> QED BY <3>4, <5>1 DEF B, ScopesIn
      <4>3. Scopes!CommitOutermost
        BY <1>0, <3>5, <3>6, <4>1, <4>2 DEF Scopes!CommitOutermost
      <4> QED BY <3>2, <3>4, <4>3 DEF Scopes!Next
    <3>7. CASE Len(opened) # 1
      <4>1. db' = db /\ conn'.work = conn.work
        BY <2>2, <3>2, <3>4, <3>7
      <4>2. Len(A) > 1
        BY <3>3, <3>5, <3>7
      <4>3. Scopes!CommitInner
        BY <1>0, <3>5, <4>1, <4>2 DEF Scopes!CommitInner, Scopes!Front, Front
      <4> QED BY <3>2, <3>4, <4>3 DEF Scopes!Next
    <3> QED BY <3>6, <3>7
  <2> QED BY <2>3, <2>4
<1>9. ASSUME NEW nesting \in BOOLEAN, NEW outcome \in Outcome, RollbackCall(nesting, outcome)
      PROVE  Scoped(conn', opened') /\ [Scopes!Next]_(Scopes!scopeVars)
  <2> DEFINE r == Rollback(conn, nesting, "ok")
  <2>1. outcome = "ok" /\ Lexical /\ ~Strays(nesting)
    BY <1>9 DEF RollbackCall, Returned, Lexical
  <2>2. /\ Scoped(conn, opened)
        /\ conn' = r.conn /\ db' = db \cup r.made /\ opened' = ScopesAfter(r)
    BY <1>1, <1>9, <2>1 DEF RollbackCall, Returned
  <2>3. CASE opened = <<>>
    <3>1. ~conn.open \/ conn.level = 0
      BY <2>2, <2>3 DEF Scoped
    <3>2. r.conn = conn /\ r.made = {}
      BY <3>1 DEF Rollback, Result
    <3> HIDE DEF r
    <3> QED BY <1>7, <2>2, <3>2
  <2>4. CASE opened # <<>>
    <3> DEFINE d == r.conn
    <3>1. r = Rollback(conn, Last(opened), "ok")
      BY <2>1, <2>4 DEF Strays
    <3> HIDE DEF r
    <3>2. /\ Scoped(d, Front(opened)) /\ d.level = conn.level - 1
          /\ ScopesIn(Front(opened), d) = Front(ScopesIn(opened, conn))
          /\ ScopesIn(opened, conn) # <<>> /\ r.made = {}
          /\ d.work = IF Last(ScopesIn(opened, conn)).hard
                      THEN Last(ScopesIn(opened, conn)).mark ELSE conn.work
      BY <1>0, <2>2, <2>4, <3>1, RollbackScoped
    <3>3. conn.level \in Nat
      BY <1>0, <2>2, ScopedFacts
    <3>4. opened' = Front(opened) /\ conn' = d /\ db' = db
      BY <2>2, <2>4, <3>2, <3>3 DEF ScopesAfter
    <3>5. B = Front(A) /\ A # <<>> /\ conn'.work = IF Last(A).hard THEN Last(A).mark ELSE conn.work
      BY <3>2, <3>4 DEF A, B
    <3>6. Scopes!RollbackScope
      BY <1>0, <3>4, <3>5 DEF Scopes!RollbackScope, Scopes!Front, Scopes!Last, Front, Last
    <3> QED BY <3>2, <3>4, <3>6 DEF Scopes!Next
  <2> QED BY <2>3, <2>4
<1>10. ASSUME NEW e \in Effects, NEW outcome \in Outcome, ExecuteCall(e, outcome)
       PROVE  Scoped(conn', opened') /\ [Scopes!Next]_(Scopes!scopeVars)
  <2> DEFINE r == Execute(conn, e, "ok")
  <2>1. outcome = "ok" /\ Lexical
    BY <1>10 DEF ExecuteCall, Returned, Lexical
  <2>2. /\ Scoped(conn, opened)
        /\ conn' = r.conn /\ db' = db \cup r.made /\ opened' = opened
    BY <1>1, <1>10, <2>1 DEF ExecuteCall, Returned
  <2>3. CASE ~conn.open
    <3>1. r.conn = conn /\ r.made = {}
      BY <2>3 DEF Execute, Refused, RefusalOf, Result
    <3> HIDE DEF r
    <3> QED BY <1>3, <2>2, <3>1
  <2>4. CASE conn.open /\ ~conn.active
    <3>1. r.conn = conn /\ r.made = {e}
      BY <2>4 DEF Execute, Refused, Result
    <3>2. opened = <<>> /\ A = <<>>
      <4>1. ~conn.open \/ conn.level = 0
        BY <2>2, <2>4 DEF Scoped, InStep, Session, ConnectionOf
      <4> QED BY <1>0, <2>2, <4>1, OutsideScopes DEF A
    <3> HIDE DEF r
    <3>3. conn' = conn /\ db' = db \cup {e} /\ opened' = opened
      BY <2>2, <3>1
    <3>4. B = A
      BY <3>3 DEF A, B
    <3>5. Scopes!Do(e)
      BY <1>0, <3>2, <3>3, <3>4 DEF Scopes!Do
    <3> QED BY <2>2, <3>3, <3>5 DEF Scopes!Next
  <2>5. CASE conn.open /\ conn.active
    <3> DEFINE d == [conn EXCEPT !.work = @ \cup {e}]
    <3>1. r.conn = d /\ r.made = {}
      BY <2>5 DEF Execute, Refused, Result
    <3>2. /\ conn \in Session(SUBSET Effects) /\ conn.level > 0 /\ Len(opened) = conn.level
          /\ Growing(conn.points, conn.work) /\ Marks(conn.points, HardIn(opened, conn))
      BY <2>2, <2>5 DEF Scoped, InStep
    <3>3. /\ d \in Session(SUBSET Effects) /\ d.work = conn.work \cup {e}
          /\ (d.open <=> conn.open) /\ (d.active <=> conn.active) /\ d.level = conn.level
          /\ (d.savepoints <=> conn.savepoints) /\ d.points = conn.points
      BY <2>5, <3>2 DEF Session, ConnectionOf
    <3> HIDE DEF r, d
    <3>4. Growing(d.points, d.work)
      BY <3>2, <3>3 DEF Growing
    <3>5. \A i \in 1 .. Len(opened) : HasPoint(opened, d, i) <=> HasPoint(opened, conn, i)
      BY <3>3 DEF HasPoint
    <3>6. HardIn(opened, d) = HardIn(opened, conn)
      BY <3>3 DEF HardIn, HasPoint
    <3>7. Scoped(d, opened)
      BY <2>2, <2>5, <3>2, <3>3, <3>4, <3>6 DEF Scoped, InStep
    <3>8. conn' = d /\ db' = db /\ opened' = opened
      BY <2>2, <3>1
    <3>9. B = A
      <4>1. \A i \in 1 .. Len(opened) : ScopeIn(opened, d, i) = ScopeIn(opened, conn, i)
        <5> DEFINE n == Len(opened)
        <5>1. n \in Nat /\ \A i \in 1 .. n : opened[i] = opened[i]
          BY <1>0
        <5>2. \A i \in 2 .. n : HasPoint(opened, conn, i) =>
                 PointWork(d.points, i) = PointWork(conn.points, i)
          BY <3>3
        <5> HIDE DEF n
        <5>3. \A i \in 1 .. n : ScopeIn(opened, d, i) = ScopeIn(opened, conn, i)
          BY <3>3, <5>1, <5>2, SameScopes
        <5> QED BY <5>3 DEF n
      <4> QED BY <3>8, <4>1 DEF A, B, ScopesIn
    <3>10. A # <<>>
      <4> DEFINE S == SUBSET Effects
      <4>1. /\ \A i \in 2 .. Len(opened) : HasPoint(opened, conn, i) =>
                  PointWork(conn.points, i) \in S
            /\ conn.savepoints \in BOOLEAN /\ conn.level \in Nat /\ {} \in S
        BY <1>0, <2>2, ScopedFacts
      <4> HIDE DEF S
      <4>2. Len(A) = Len(opened)
        BY <1>0, <4>1, ScopesSeq DEF A
      <4>3. Len(<<>>) = 0
        OBVIOUS
      <4> QED BY <3>2, <4>1, <4>2, <4>3
    <3>11. Scopes!Do(e)
      BY <1>0, <3>3, <3>8, <3>9, <3>10 DEF Scopes!Do
    <3> QED BY <3>7, <3>8, <3>11 DEF Scopes!Next
  <2> QED BY <2>3, <2>4, <2>5
<1>11. ASSUME Scoped(conn, opened), conn.level = 0
       PROVE  /\ opened = <<>> /\ A = <<>> /\ conn.work = {} /\ ~conn.active
              /\ conn \in Session(SUBSET Effects) /\ conn \in ConnectionOf(SUBSET Effects)
              /\ Idle(conn) \in Session(SUBSET Effects) /\ Idle(conn).work = {}
  <2>1. conn \in Session(SUBSET Effects) /\ conn \in ConnectionOf(SUBSET Effects)
    BY <1>11 DEF Scoped, Session
  <2>2. opened = <<>> /\ A = <<>> /\ conn.work = {} /\ ~conn.active
    BY <1>0, <1>11, OutsideScopes DEF A
  <2>3. Idle(conn) \in Session(SUBSET Effects) /\ Idle(conn).work = {}
    BY <1>0, <2>1, IdleSession
  <2> QED BY <2>1, <2>2, <2>3
<1>12. ASSUME NEW flag \in BOOLEAN, SetSavepointsCall(flag)
       PROVE  Scoped(conn', opened') /\ [Scopes!Next]_(Scopes!scopeVars)
  <2> DEFINE r == SetSavepoints(conn, flag)
  <2>1. /\ Scoped(conn, opened)
        /\ conn' = r.conn /\ db' = db \cup r.made /\ opened' = opened
    BY <1>1, <1>12 DEF SetSavepointsCall, Returned, Lexical
  <2>2. CASE conn.level > 0
    <3>1. r.conn = conn /\ r.made = {}
      BY <2>2 DEF SetSavepoints, Result
    <3> HIDE DEF r
    <3> QED BY <1>3, <2>1, <3>1
  <2>3. CASE ~ (conn.level > 0)
    <3>1. conn.level = 0
      BY <1>0, <2>1, <2>3, ScopedFacts
    <3>2. r.conn = [conn EXCEPT !.savepoints = flag] /\ r.made = {}
      BY <2>3 DEF SetSavepoints, Result
    <3>3. /\ r.conn \in Session(SUBSET Effects) /\ r.conn.work = conn.work
          /\ r.conn.level = 0 /\ ~r.conn.active
      BY <1>11, <2>1, <3>1, <3>2 DEF Session, ConnectionOf
    <3> HIDE DEF r
    <3> QED BY <1>4, <1>11, <2>1, <3>1, <3>2, <3>3
  <2> QED BY <2>2, <2>3
<1>13. ASSUME CloseCall
       PROVE  Scoped(conn', opened') /\ [Scopes!Next]_(Scopes!scopeVars)
  <2> DEFINE r == Close(conn)
  <2>1. /\ Scoped(conn, opened) /\ ~ (conn.level > 0)
        /\ conn' = r.conn /\ db' = db \cup r.made /\ opened' = <<>>
    BY <1>1, <1>13 DEF CloseCall, Returned, Lexical
  <2>2. conn.level = 0
    BY <1>0, <2>1, ScopedFacts
  <2>3. r.conn = [Idle(conn) EXCEPT !.open = FALSE] /\ r.made = {}
    BY DEF Close, Result
  <2>4. Idle(conn).level = conn.level /\ ~Idle(conn).active
    BY <1>11, <2>1, <2>2 DEF Idle, ConnectionOf
  <2>5. /\ r.conn \in Session(SUBSET Effects) /\ r.conn.work = conn.work
        /\ r.conn.level = 0 /\ ~r.conn.active
    BY <1>11, <2>1, <2>2, <2>3, <2>4 DEF Session, ConnectionOf
  <2> HIDE DEF r
  <2> QED BY <1>4, <1>11, <2>1, <2>2, <2>3, <2>5
<1>14. ASSUME NEW outcome \in Outcome, ConnectCall(outcome)
       PROVE  Scoped(conn', opened') /\ [Scopes!Next]_(Scopes!scopeVars)
  <2> DEFINE r == Connect(conn, outcome)
  <2>1. /\ Scoped(conn, opened) /\ ~ (conn.level > 0) /\ outcome = "ok"
        /\ conn' = r.conn /\ db' = db \cup r.made
        /\ opened' = IF r.ret = "true" THEN <<>> ELSE opened
    BY <1>1, <1>14 DEF ConnectCall, Returned, Lexical
  <2>2. conn.level = 0
    BY <1>0, <2>1, ScopedFacts
  <2>3. r.conn = [Idle(conn) EXCEPT !.open = TRUE] /\ r.made = {} /\ r.ret = "true"
    BY <2>1 DEF Connect, Result
  <2>4. Idle(conn).level = conn.level /\ ~Idle(conn).active
    BY <1>11, <2>1, <2>2 DEF Idle, ConnectionOf
  <2>5. /\ r.conn \in Session(SUBSET Effects) /\ r.conn.work = conn.work
        /\ r.conn.level = 0 /\ ~r.conn.active
    BY <1>11, <2>1, <2>2, <2>3, <2>4 DEF Session, ConnectionOf
  <2> HIDE DEF r
  <2> QED BY <1>4, <1>11, <2>1, <2>2, <2>3, <2>5
<1>15. ASSUME UNCHANGED vars
       PROVE  Scoped(conn', opened') /\ [Scopes!Next]_(Scopes!scopeVars)
  <2>1. Lexical
    BY <1>15 DEF vars, Lexical
  <2> QED BY <1>1, <1>3, <1>15, <2>1 DEF vars
<1> QED
  BY <1>5, <1>8, <1>9, <1>10, <1>12, <1>13, <1>14, <1>15 DEF Next

\* Callers that close every scope the way they opened it always find the
\* savepoints of their scopes, in the order of nesting and with growing work,
\* however deep they nest and however often a level, and so a savepoint name,
\* is used again: begin(), commit() and rollback() never confuse two scopes.
THEOREM SavepointsAreFound == Spec => []ScopesHaveSavepoints
<1>1. TypeOK /\ ScopeInv => ScopesHaveSavepoints
  <2> SUFFICES ASSUME TypeOK, ScopeInv, Lexical PROVE ScopesHaveSavepoints
    BY DEF ScopesHaveSavepoints
  <2> DEFINE hard == {i \in 2 .. Len(opened) : IsHard(i)}
  <2>1. Scoped(conn, opened) /\ opened \in Seq(BOOLEAN) /\ Len(opened) \in Nat
    BY DEF ScopeInv, TypeOK
  <2>2. hard = HardIn(opened, conn)
    BY <2>1 DEF HardIn, HasPoint, IsHard
  <2>3. /\ Len(opened) = conn.level /\ Growing(conn.points, conn.work)
        /\ Marks(conn.points, hard)
        /\ conn.points \in Seq(PointOf(SUBSET Effects))
    BY <2>1, <2>2 DEF Scoped, Session, ConnectionOf
  <2> HIDE DEF hard
  <2>4. \A i \in hard : PointIndex(conn.points, i) \in 1 .. Len(conn.points)
    BY <2>3, PointIndexFinds DEF Marks
  <2>5. \A i, j \in hard : i < j =>
           /\ PointIndex(conn.points, i) < PointIndex(conn.points, j)
           /\ WorkAt(conn, i) \subseteq WorkAt(conn, j)
    <3> SUFFICES ASSUME NEW i \in hard, NEW j \in hard, i < j
                 PROVE  /\ PointIndex(conn.points, i) < PointIndex(conn.points, j)
                        /\ WorkAt(conn, i) \subseteq WorkAt(conn, j)
      OBVIOUS
    <3> DEFINE k == PointIndex(conn.points, i)
               l == PointIndex(conn.points, j)
    <3>1. k < l
      BY <2>3 DEF Marks
    <3>2. k \in 1 .. Len(conn.points) /\ l \in 1 .. Len(conn.points)
      BY <2>4
    <3>3. WorkAt(conn, i) = conn.points[k].work /\ WorkAt(conn, j) = conn.points[l].work
      BY DEF WorkAt
    <3> HIDE DEF k, l
    <3>4. conn.points[k].work \subseteq conn.points[l].work
      BY <2>3, <3>1, <3>2 DEF Growing
    <3> QED BY <3>1, <3>3, <3>4 DEF k, l
  <2>6. \A i \in hard : PointIndex(conn.points, i) > 0
    BY <2>3 DEF Marks
  <2> QED BY <2>3, <2>5, <2>6 DEF ScopesHaveSavepoints, hard
<1>2. TypeOK /\ TypeOK' /\ ScopeInv /\ [Next]_vars => ScopeInv'
  BY ScopeStep DEF ScopeInv
<1> QED BY <1>1, <1>2, InitType, InitScope, TypeStep, PTL DEF Spec

\* For such callers a connection implements the stack of scopes, for every
\* number of levels and savepoints and every set of statements: begin() opens
\* a scope and keeps what is pending, an inner commit() changes nothing, the
\* outermost one makes everything pending durable at once, and rollback() of a
\* hard scope drops what was done since it was opened and nothing else.
THEOREM ConnectionImplementsScopes == Spec => ImplementsNestedScopes
<1> DEFINE Nested == Lexical' => [Scopes!Next]_(Scopes!scopeVars)
<1>1. TypeOK /\ TypeOK' /\ ScopeInv /\ [Next]_vars => ScopeInv' /\ [Nested]_vars
  BY ScopeStep DEF ScopeInv
<1>2. Spec => Scopes!Init /\ [][Nested]_vars
  BY <1>1, InitType, InitScope, TypeStep, PTL DEF Spec
<1> QED BY <1>2 DEF ImplementsNestedScopes

=============================================================================
