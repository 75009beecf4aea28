---------------------- MODULE TransactionManagerProofs ----------------------
(***************************************************************************)
(* The list and the counter of the transaction manager agree               *)
(* (NumberIsCount), for any number of transactions, levels and statements, *)
(* any callers, shared and isolated connections, aborts included.          *)
(***************************************************************************)
EXTENDS TransactionManager, PdoConnectionProofs, FiniteSetTheorems

\* What the manager keeps, in the form that is inductive: nothing counted and
\* nothing listed, or one counted and one listed, whatever handle it is.
AtMostOne(handles, n) ==
    \/ handles = <<>> /\ n = 0
    \/ n = 1 /\ \E t : handles = <<t>>

CountInv == AtMostOne(list, number)

LEMMA CountInvImplies == CountInv => NumberIsCount
<1>1. CASE list = <<>> /\ number = 0
  BY <1>1 DEF NumberIsCount
<1>2. ASSUME NEW t, list = <<t>>, number = 1 PROVE NumberIsCount
  <2>1. Len(list) = 1
    BY <1>2
  <2> QED BY <1>2, <2>1 DEF NumberIsCount
<1> QED BY <1>1, <1>2 DEF CountInv, AtMostOne

\* collectTransaction() of any handle keeps that form: the listed handle is
\* uncounted and dropped, or replaced by the one given.
LEMMA CollectKeeps ==
    ASSUME NEW handles, NEW n, AtMostOne(handles, n), NEW t
    PROVE  AtMostOne(Collected(handles, t), Uncounted(handles, n, t))
<1> DEFINE same == SameAs(handles, t)
<1>1. CASE handles = <<>> /\ n = 0
  <2>1. same = {}
    BY <1>1 DEF SameAs
  <2>2. Cardinality(same) = 0
    BY <2>1, FS_EmptySet
  <2>3. Uncounted(handles, n, t) = 0
    BY <1>1, <2>2 DEF Uncounted
  <2>4. Collected(handles, t) = <<>>
    BY <1>1, <2>2 DEF Collected
  <2> QED BY <2>3, <2>4 DEF AtMostOne
<1>2. CASE n = 1 /\ \E x : handles = <<x>>
  <2>1. PICK x : handles = <<x>>
    BY <1>2
  <2>2. same = {} \/ same = {1}
    BY <2>1 DEF SameAs
  <2>3. CASE same = {}
    <3>1. Cardinality(same) = 0
      BY <2>3, FS_EmptySet
    <3>2. Uncounted(handles, n, t) = 1
      BY <1>2, <3>1 DEF Uncounted
    <3>3. Collected(handles, t) = [i \in 1 .. 1 |-> t]
      BY <2>1, <3>1 DEF Collected
    <3>4. [i \in 1 .. 1 |-> t] = <<t>>
      OBVIOUS
    <3> QED BY <3>2, <3>3, <3>4 DEF AtMostOne
  <2>4. CASE same = {1}
    <3>1. Cardinality(same) = 1
      BY <2>4, FS_Singleton
    <3>2. Uncounted(handles, n, t) = 0
      BY <1>2, <3>1 DEF Uncounted
    <3>3. Collected(handles, t) = [i \in 1 .. 0 |-> t]
      BY <2>1, <3>1 DEF Collected
    <3>4. [i \in 1 .. 0 |-> t] = <<>>
      OBVIOUS
    <3> QED BY <3>2, <3>3, <3>4 DEF AtMostOne
  <2> QED BY <2>2, <2>3, <2>4
<1> QED BY <1>1, <1>2 DEF AtMostOne

\* getConnection() collects its handle or leaves the manager alone.
LEMMA GotKeeps ==
    ASSUME CountInv, NEW t
    PROVE  AtMostOne(Got(t).list, Got(t).number)
<1>1. AtMostOne(Collected(list, t), Uncounted(list, number, t))
  BY CollectKeeps DEF CountInv
<1> QED BY <1>1 DEF Got, CountInv

LEMMA InitCount == Init => CountInv
BY DEF Init, CountInv, AtMostOne

LEMMA CountStep == CountInv /\ [Next]_vars => CountInv'
<1> SUFFICES ASSUME CountInv, [Next]_vars PROVE CountInv'
  OBVIOUS
<1>1. ASSUME UNCHANGED managerVars PROVE CountInv'
  BY <1>1 DEF managerVars, CountInv, AtMostOne
<1>2. ASSUME NEW t, list' = Collected(list, t), number' = Uncounted(list, number, t)
      PROVE  CountInv'
  <2>1. AtMostOne(Collected(list, t), Uncounted(list, number, t))
    BY CollectKeeps DEF CountInv
  <2> QED BY <1>2, <2>1 DEF CountInv, AtMostOne
<1>3. ASSUME NEW t, list' = Got(t).list, number' = Got(t).number
      PROVE  CountInv'
  <2>1. AtMostOne(Got(t).list, Got(t).number)
    BY GotKeeps
  <2> QED BY <1>3, <2>1 DEF CountInv, AtMostOne
<1>4. CASE GetListed
  BY <1>1, <1>4 DEF GetListed, managerVars
<1>5. ASSUME NEW autoBegin \in BOOLEAN, NEW savepoints \in BOOLEAN,
             GetNew(autoBegin, savepoints)
      PROVE  CountInv'
  <2>1. list = <<>> /\ number = 0
    BY <1>5 DEF GetNew, CountInv, AtMostOne
  <2>2. list' = Append(<<>>, Len(heap) + 1) /\ number' = 1
    BY <1>5, <2>1 DEF GetNew
  <2> QED BY <2>2 DEF CountInv, AtMostOne
<1>6. ASSUME NEW t \in Handles, TxBegin(t) PROVE CountInv'
  BY <1>1, <1>6 DEF TxBegin, managerVars
<1>7. ASSUME NEW t \in Handles, TxCommit(t) PROVE CountInv'
  BY <1>2, <1>7 DEF TxCommit
<1>8. ASSUME NEW t \in Handles, TxRollback(t) PROVE CountInv'
  BY <1>2, <1>8 DEF TxRollback
<1>9. ASSUME NEW t \in Handles, NEW e \in Effects, Write(t, e) PROVE CountInv'
  BY <1>3, <1>9 DEF Write
<1>10. ASSUME NEW t \in Handles, NEW throws \in BOOLEAN, SetFlags(t, throws)
       PROVE  CountInv'
  BY <1>1, <1>10 DEF SetFlags, managerVars
<1>11. CASE CollectTransactions
  <2>1. Len(list) = number
    BY CountInvImplies DEF NumberIsCount
  <2>2. list' = <<>> /\ number' = 0
    BY <1>11, <2>1 DEF CollectTransactions, CountInv, AtMostOne
  <2> QED BY <2>2 DEF CountInv, AtMostOne
<1>12. CASE ManagerCommit
  BY <1>1, <1>12 DEF ManagerCommit, managerVars
<1>13. ASSUME NEW collect \in BOOLEAN, ManagerRollback(collect) PROVE CountInv'
  BY <1>1, <1>13 DEF ManagerRollback, managerVars
<1>14. CASE CommitRound
  BY <1>3, <1>14 DEF CommitRound
<1>15. CASE RollbackRound
  <2> DEFINE t == Head(walk.todo)
             g == Got(t)
  <2>1. AtMostOne(g.list, g.number)
    BY GotKeeps
  <2>2. AtMostOne(Collected(g.list, t), Uncounted(g.list, g.number, t))
    <3> HIDE DEF t, g
    <3> QED BY <2>1, CollectKeeps
  <2>3. \/ list' = g.list /\ number' = g.number
        \/ list' = Collected(g.list, t) /\ number' = Uncounted(g.list, g.number, t)
    BY <1>15 DEF RollbackRound
  <2> HIDE DEF t, g
  <2>4. CountInv' = AtMostOne(list', number')
    BY DEF CountInv, AtMostOne
  <2>5. AtMostOne(list', number')
    BY <2>1, <2>2, <2>3
  <2> QED BY <2>4, <2>5
<1>16. CASE Abort
  BY <1>1, <1>16 DEF Abort, managerVars
<1>17. CASE Shutdown
  BY <1>1, <1>17 DEF Shutdown, managerVars
<1>18. CASE UNCHANGED vars
  BY <1>1, <1>18 DEF vars, managerVars
<1> QED BY <1>4, <1>5, <1>6, <1>7, <1>8, <1>9, <1>10, <1>11, <1>12, <1>13, <1>14,
           <1>15, <1>16, <1>17, <1>18 DEF Next

\* The counter of the manager is the length of its list, and at most one
\* transaction is listed, for all callers.
THEOREM ManagerCounts == Spec => []NumberIsCount
BY InitCount, CountStep, CountInvImplies, PTL DEF Spec
----------------------------------------------------------------------------
(* The connections and the handles *)

Named == [name : 2 .. MaxLevel, work : SUBSET Effects]

\* Connections as the manager leaves them: its calls always reach the server.
Sound == {c \in Session(SUBSET Effects) :
            Counted(c) /\ c.level <= MaxLevel /\ c.points \in Seq(Named)}

LEMMA SoundIsConnection == ASSUME NEW c \in Sound PROVE c \in Connection
  BY BoundsAssumption DEF Sound, Session, ConnectionOf, Connection, Named

LEMMA BeginSound ==
    ASSUME NEW c \in Sound, c.level < MaxLevel
    PROVE  /\ Begin(c, TRUE, "ok").conn \in Sound
           /\ c.level = 0 => Begin(c, TRUE, "ok").conn.level <= 1
<1>1. /\ c \in Session(SUBSET Effects) /\ c \in ConnectionOf(SUBSET Effects)
      /\ {} \in SUBSET Effects /\ "ok" \in Outcomes
      /\ c.level \in Nat /\ c.work \in SUBSET Effects
      /\ Counted(c) /\ c.points \in Seq(Named) /\ MaxLevel \in Nat
  BY BoundsAssumption DEF Sound, Session, ConnectionOf, Outcomes
<1>2. Begin(c, TRUE, "ok").conn \in Session(SUBSET Effects)
  BY <1>1, MethodsSteady DEF Steady
<1>3. Counted(Begin(c, TRUE, "ok").conn)
  BY <1>1, CallsCounted
<1>4. Begin(c, TRUE, "ok").conn.points \in Seq(Named)
  <2>1. c.level > 0 => [name |-> c.level + 1, work |-> c.work] \in Named
    BY <1>1 DEF Named
  <2> QED BY <1>1, <2>1, MethodsPoints
<1>5. Begin(c, TRUE, "ok").conn.level \in {c.level, c.level + 1}
  <2>1. CASE ~c.open
    BY <2>1 DEF Begin, Result
  <2>2. CASE c.open
    BY <1>1, <2>2, MethodsCount
  <2> QED BY <2>1, <2>2
<1>6. /\ Begin(c, TRUE, "ok").conn.level <= MaxLevel
      /\ c.level = 0 => Begin(c, TRUE, "ok").conn.level <= 1
  <2>1. PICK n \in {c.level, c.level + 1} : n = Begin(c, TRUE, "ok").conn.level
    BY <1>5
  <2>2. n <= MaxLevel /\ (c.level = 0 => n <= 1)
    BY <1>1
  <2> QED BY <2>1, <2>2
<1> QED
  BY <1>2, <1>3, <1>4, <1>6 DEF Sound

\* Ending a block at level 1, or outside of any, leaves no transaction.
LEMMA EndSound ==
    ASSUME NEW c \in Sound, NEW d,
           d = Commit(c, TRUE, "ok").conn \/ d = Rollback(c, TRUE, "ok").conn
    PROVE  d \in Sound /\ ((c.active => c.level = 1) => ~d.active)
<1>1. /\ c \in Session(SUBSET Effects) /\ c \in ConnectionOf(SUBSET Effects)
      /\ {} \in SUBSET Effects /\ "ok" \in Outcomes
      /\ c.level \in Nat /\ c.open \in BOOLEAN
      /\ Counted(c) /\ c.points \in Seq(Named) /\ MaxLevel \in Nat
  BY BoundsAssumption DEF Sound, Session, ConnectionOf, Outcomes
<1>2. d \in Session(SUBSET Effects)
  <2>1. /\ Steady(SUBSET Effects, c, Commit(c, TRUE, "ok"))
        /\ Steady(SUBSET Effects, c, Rollback(c, TRUE, "ok"))
    BY <1>1, MethodsSteady
  <2> QED BY <2>1 DEF Steady
<1>3. Counted(d)
  BY <1>1, CallsCounted
<1>4. d.points \in Seq(Named)
  BY <1>1, MethodsPoints
<1>5. \/ d = c /\ (~c.open \/ c.level = 0)
      \/ c.open /\ c.level > 0 /\ d.level = c.level - 1 /\ d.open
  <2>1. CASE ~c.open
    BY <2>1 DEF Commit, Rollback, Result
  <2>2. CASE c.open /\ c.level > 0
    <3>1. /\ Commit(c, TRUE, "ok").conn.level = c.level - 1 /\ Commit(c, TRUE, "ok").conn.open
          /\ Rollback(c, TRUE, "ok").conn.level = c.level - 1 /\ Rollback(c, TRUE, "ok").conn.open
      BY <1>1, <2>2, MethodsCount
    <3> QED BY <2>2, <3>1
  <2>3. CASE c.open /\ c.level = 0
    <3>1. /\ Commit(c, TRUE, "ok") = Result(c, {}, "throw")
          /\ Rollback(c, TRUE, "ok") = Result(c, {}, "throw")
      BY <1>1, <2>3, MethodsCount
    <3>2. Result(c, {}, "throw").conn = c
      BY DEF Result
    <3> QED BY <2>3, <3>1, <3>2
  <2> QED BY <1>1, <2>1, <2>2, <2>3
<1>6. d \in Sound
  <2>1. d.level <= MaxLevel
    BY <1>1, <1>5 DEF Sound
  <2> QED BY <1>2, <1>3, <1>4, <2>1 DEF Sound
<1>7. ASSUME c.active => c.level = 1 PROVE ~d.active
  <2>1. CASE d = c
    BY <1>1, <1>5, <1>7, <2>1 DEF Counted
  <2>2. CASE c.open /\ c.level > 0 /\ d.level = c.level - 1 /\ d.open
    BY <1>1, <1>3, <1>7, <2>2 DEF Counted
  <2> QED BY <1>5, <2>1, <2>2
<1> QED BY <1>6, <1>7

LEMMA ExecuteSound ==
    ASSUME NEW c \in Sound, NEW e \in Effects, NEW r, r = Execute(c, e, "ok")
    PROVE  /\ r.conn \in Sound /\ (r.conn.active <=> c.active) /\ r.conn.level = c.level
           /\ r.made # {} => r.conn = c /\ ~c.active
<1> DEFINE more == [c EXCEPT !.work = @ \cup {e}]
<1>1. c.active => more \in Sound /\ more.active /\ more.level = c.level
  <2>1. c.active => more \in Session(SUBSET Effects)
    BY DEF Sound, Session, ConnectionOf
  <2>2. more.active = c.active /\ more.level = c.level /\ more.points = c.points /\ more.open = c.open
    BY DEF Sound, Session, ConnectionOf
  <2> QED BY <2>1, <2>2 DEF Sound, Counted
<1> HIDE DEF more
<1>2. \/ r.conn = c /\ (r.made # {} => ~c.active)
      \/ c.active /\ r.conn = more /\ r.made = {}
  BY DEF Execute, RefusalOf, Result, more
<1> QED BY <1>1, <1>2

LEMMA CloseSound ==
    ASSUME NEW c \in Sound
    PROVE  Close(c).conn \in Sound /\ ~Close(c).conn.active
<1> DEFINE d == [Idle(c) EXCEPT !.open = FALSE]
<1>1. c \in ConnectionOf(SUBSET Effects) /\ c.level <= MaxLevel
  BY DEF Sound, Session
<1>2. <<>> \in Seq(PointOf(SUBSET Effects)) /\ <<>> \in Seq(Named)
  OBVIOUS
<1>3. /\ d \in ConnectionOf(SUBSET Effects) /\ d.work = {} /\ d.points = <<>>
      /\ ~d.open /\ ~d.active /\ d.level = c.level
  BY <1>1, <1>2 DEF Idle, ConnectionOf
<1>4. Close(c).conn = d
  BY DEF Close, Result
<1> HIDE DEF d
<1> QED BY <1>1, <1>2, <1>3, <1>4 DEF Sound, Session, Counted

LEMMA FreshSound ==
    ASSUME NEW flag \in BOOLEAN
    PROVE  /\ FreshConnection(flag) \in Sound
           /\ ~FreshConnection(flag).active /\ FreshConnection(flag).level = 0
<1> DEFINE c == [Idle(Closed("mysql", flag)) EXCEPT !.open = TRUE]
<1>1. <<>> \in Seq(PointOf(SUBSET Effects)) /\ <<>> \in Seq(Named)
  OBVIOUS
<1>2. /\ c \in ConnectionOf(SUBSET Effects) /\ c.work = {} /\ c.points = <<>>
      /\ c.open /\ c.active = FALSE /\ c.level = 0
  BY <1>1 DEF Idle, Closed, ConnectionOf, Dialects
<1>3. FreshConnection(flag) = c
  BY DEF FreshConnection, Connect, Result
<1> HIDE DEF c
<1>4. c \in Session(SUBSET Effects) /\ Counted(c)
  BY <1>2 DEF Session, Counted
<1>5. c.level <= MaxLevel /\ c.points \in Seq(Named)
  BY <1>1, <1>2, BoundsAssumption
<1> QED BY <1>2, <1>3, <1>4, <1>5 DEF Sound
\* One handle is listed at most, whoever ends it.
LEMMA CollectedIs ==
    ASSUME NEW handles, NEW n, AtMostOne(handles, n), NEW t
    PROVE  /\ Collected(handles, t) \in {<<>>, <<t>>}
           /\ handles = <<>> => Collected(handles, t) = <<>>
<1> DEFINE same == SameAs(handles, t)
<1>1. CASE handles = <<>>
  <2>1. same = {}
    BY <1>1 DEF SameAs
  <2>2. Cardinality(same) = 0
    BY <2>1, FS_EmptySet
  <2> QED BY <1>1, <2>2 DEF Collected
<1>2. ASSUME NEW x, handles = <<x>> PROVE Collected(handles, t) \in {<<>>, <<t>>}
  <2>1. same = {} \/ same = {1}
    BY <1>2 DEF SameAs
  <2>2. Cardinality(same) = 0 \/ Cardinality(same) = 1
    BY <2>1, FS_EmptySet, FS_Singleton
  <2>3. [i \in 1 .. 1 |-> t] = <<t>> /\ [i \in 1 .. 0 |-> t] = <<>>
    OBVIOUS
  <2>4. Len(handles) = 1
    BY <1>2
  <2>5. Len(handles) - Cardinality(same) = 1 \/ Len(handles) - Cardinality(same) = 0
    BY <2>2, <2>4
  <2> QED BY <2>3, <2>5 DEF Collected
<1> QED BY <1>1, <1>2 DEF AtMostOne

\* Handles refer to connections that exist and are sound; a walk is over the
\* whole list, of one handle.
HeapInv ==
    /\ heap \in Seq(Transaction) /\ Len(heap) <= MaxTx
    /\ \A t \in Handles : heap[t].conn \in DOMAIN conns
    /\ conns \in Seq(Sound)
    /\ list \in Seq(Handles)
    /\ walk \in [op : {"none", "commit", "rollback"}, collect : BOOLEAN, todo : Seq(Handles)]
    /\ walk.op # "none" => walk.todo = list /\ list # <<>>
    /\ shared \in BOOLEAN /\ (shared => conns # <<>>)

LEMMA ConnOfSound ==
    ASSUME HeapInv, NEW t \in Handles
    PROVE  heap[t].conn \in DOMAIN conns /\ ConnOf(t) \in Sound
  BY DEF HeapInv, ConnOf

LEMMA GotEffect ==
    ASSUME CountInv, HeapInv, NEW t \in Handles
    PROVE  /\ Got(t).conn \in Sound
           /\ Got(t).list \in {list, <<>>, <<t>>}
           /\ list = <<>> => Got(t).list = <<>>
           /\ ~RollsBackNow(t) => Got(t).conn = ConnOf(t) /\ Got(t).threw = FALSE
           /\ RollsBackNow(t) /\ (ConnOf(t).active => ConnOf(t).level = 1) =>
                 ~Got(t).conn.active
<1>1. ConnOf(t) \in Sound
  BY ConnOfSound
<1>2. /\ Rollback(ConnOf(t), TRUE, "ok").conn \in Sound
      /\ (ConnOf(t).active => ConnOf(t).level = 1) =>
            ~Rollback(ConnOf(t), TRUE, "ok").conn.active
  BY <1>1, EndSound
<1>3. Collected(list, t) \in {<<>>, <<t>>} /\ (list = <<>> => Collected(list, t) = <<>>)
  BY CollectedIs DEF CountInv
<1> QED BY <1>1, <1>2, <1>3 DEF Got

\* Another connection for a handle.
LEMMA PutConn ==
    ASSUME HeapInv, NEW t \in Handles, NEW c \in Sound
    PROVE  /\ WithConn(t, c) \in Seq(Sound)
           /\ DOMAIN WithConn(t, c) = DOMAIN conns
           /\ WithConn(t, c)[heap[t].conn] = c
           /\ \A k \in DOMAIN conns : k # heap[t].conn => WithConn(t, c)[k] = conns[k]
           /\ c = ConnOf(t) => WithConn(t, c) = conns
<1>1. conns \in Seq(Sound) /\ heap[t].conn \in DOMAIN conns
  BY DEF HeapInv
<1> QED BY <1>1 DEF WithConn, ConnOf

\* A call on a handle, or the round of a walk.
LEMMA CallKeeps ==
    ASSUME HeapInv, NEW t \in Handles, NEW c \in Sound, conns' = WithConn(t, c),
           heap' = heap, shared' = shared, list' \in {list, <<>>, <<t>>},
           walk' = NoWalk \/ (walk' = walk /\ walk.op = "none")
    PROVE  HeapInv'
<1>1. conns' \in Seq(Sound) /\ DOMAIN conns' = DOMAIN conns
  BY PutConn
<1>2. conns # <<>> => conns' # <<>>
  BY <1>1, PutConn DEF HeapInv
<1>3. list' \in Seq(Handles) /\ Handles' = Handles
  <2>1. <<>> \in Seq(Handles) /\ <<t>> \in Seq(Handles)
    OBVIOUS
  <2> QED BY <2>1 DEF HeapInv, Handles
<1>4. /\ walk' \in [op : {"none", "commit", "rollback"}, collect : BOOLEAN, todo : Seq(Handles)]
      /\ walk'.op = "none"
  <2>1. <<>> \in Seq(Handles)
    OBVIOUS
  <2>2. NoWalk \in [op : {"none", "commit", "rollback"}, collect : BOOLEAN, todo : Seq(Handles)]
        /\ NoWalk.op = "none"
    BY <2>1 DEF NoWalk
  <2> QED BY <2>2 DEF HeapInv
<1> QED BY <1>1, <1>2, <1>3, <1>4 DEF HeapInv

\* The walk is over after a round.
LEMMA RoundEnds ==
    ASSUME CountInv, HeapInv, walk.op # "none"
    PROVE  /\ Head(walk.todo) \in Handles /\ list = <<Head(walk.todo)>>
           /\ \A threw : WalkOn(threw) => walk' = NoWalk
<1>1. walk.todo = list /\ list # <<>> /\ list \in Seq(Handles)
  BY DEF HeapInv
<1>2. PICK x : list = <<x>>
  BY <1>1 DEF CountInv, AtMostOne
<1>3. Len(walk.todo) = 1 /\ Head(walk.todo) = x /\ x \in Handles
  BY <1>1, <1>2
<1> QED BY <1>2, <1>3 DEF WalkOn

LEMMA HeapStep == CountInv /\ HeapInv /\ [Next]_vars => HeapInv'
<1> SUFFICES ASSUME CountInv, HeapInv, [Next]_vars PROVE HeapInv'
  OBVIOUS
<1> USE BoundsAssumption
\* Steps that change the walk at most.
<1>0. ASSUME UNCHANGED <<list, heap, conns, shared>>,
             \/ walk' = walk \/ walk' = NoWalk
             \/ \E op \in {"commit", "rollback"}, collect \in BOOLEAN : StartWalk(op, collect)
      PROVE  HeapInv'
  <2>1. <<>> \in Seq(Handles) /\ Handles' = Handles /\ list \in Seq(Handles)
    BY <1>0 DEF HeapInv, Handles
  <2>2. CASE walk' = walk
    BY <1>0, <2>1, <2>2 DEF HeapInv
  <2>3. CASE walk' = NoWalk
    BY <1>0, <2>1, <2>3 DEF HeapInv, NoWalk
  <2>4. ASSUME NEW op \in {"commit", "rollback"}, NEW collect \in BOOLEAN,
               walk' = [op |-> op, collect |-> collect, todo |-> list], list # <<>>
        PROVE  HeapInv'
    BY <1>0, <2>1, <2>4 DEF HeapInv
  <2> QED BY <1>0, <2>2, <2>3, <2>4 DEF StartWalk
<1>1. CASE GetListed
  <2> DEFINE t == Last(list)
  <2>1. /\ list # <<>> /\ heap' = [heap EXCEPT ![t].isNew = FALSE]
        /\ UNCHANGED <<list, conns, shared, walk>>
    BY <1>1 DEF GetListed
  <2>2. list \in Seq(Handles) /\ t \in Handles
    BY <2>1 DEF HeapInv, Last
  <2> HIDE DEF t
  <2>3. heap \in Seq(Transaction) /\ Handles = DOMAIN heap
    BY DEF HeapInv, Handles
  <2>4. [heap[t] EXCEPT !.isNew = FALSE] \in Transaction
        /\ [heap[t] EXCEPT !.isNew = FALSE].conn = heap[t].conn
    <3>1. heap[t] \in Transaction
      BY <2>2, <2>3
    <3> QED BY <3>1 DEF Transaction
  <2>5. heap' \in Seq(Transaction) /\ Handles' = Handles /\ Len(heap') = Len(heap)
    BY <2>1, <2>2, <2>3, <2>4 DEF Handles
  <2>6. \A s \in Handles : heap'[s].conn = heap[s].conn
    BY <2>1, <2>2, <2>3, <2>4
  <2> QED BY <2>1, <2>5, <2>6 DEF HeapInv
<1>2. ASSUME NEW autoBegin \in BOOLEAN, NEW savepoints \in BOOLEAN,
             GetNew(autoBegin, savepoints)
      PROVE  HeapInv'
  <2> DEFINE held  == IF shared THEN conns ELSE Append(conns, FreshConnection(savepoints))
             begun == [held EXCEPT ![Len(held)] = Begin(@, TRUE, "ok").conn]
  <2>1. /\ held[Len(held)].level < MaxLevel /\ conns' \in {held, begun}
        /\ heap' = Append(heap, NewTransaction(Len(held)))
        /\ list' = Append(list, Len(heap) + 1) /\ Len(heap) < MaxTx
        /\ shared' = shared /\ walk' = walk /\ walk.op = "none"
    BY <1>2 DEF GetNew, Idling
  <2>2. /\ held \in Seq(Sound) /\ held # <<>> /\ DOMAIN conns \subseteq DOMAIN held
        /\ Len(held) \in DOMAIN held
    <3>1. conns \in Seq(Sound) /\ (shared => conns # <<>>)
      BY DEF HeapInv
    <3>2. CASE shared
      BY <3>1, <3>2
    <3>3. CASE ~shared
      <4> DEFINE new == FreshConnection(savepoints)
      <4>1. new \in Sound
        BY FreshSound
      <4> HIDE DEF new
      <4>2. Append(conns, new) \in Seq(Sound) /\ Len(Append(conns, new)) = Len(conns) + 1
        BY <3>1, <4>1
      <4>3. held = Append(conns, new)
        BY <3>3 DEF new
      <4> HIDE DEF held
      <4> QED BY <3>1, <4>2, <4>3
    <3> QED BY <3>2, <3>3
  <2> HIDE DEF held
  <2>3. held[Len(held)] \in Sound
    BY <2>2
  <2>4. begun \in Seq(Sound) /\ DOMAIN begun = DOMAIN held
    <3> DEFINE b == Begin(held[Len(held)], TRUE, "ok").conn
    <3>1. b \in Sound /\ begun = [held EXCEPT ![Len(held)] = b]
      BY <2>1, <2>3, BeginSound
    <3> HIDE DEF b, begun
    <3> QED BY <2>2, <3>1
  <2>5. conns' \in Seq(Sound) /\ DOMAIN conns' = DOMAIN held /\ conns' # <<>>
    <3> HIDE DEF begun
    <3>1. begun # <<>>
      BY <2>2, <2>4
    <3> QED BY <2>1, <2>2, <2>4, <3>1
  <2>6. NewTransaction(Len(held)) \in Transaction /\ NewTransaction(Len(held)).conn = Len(held)
    BY <2>2 DEF NewTransaction, Transaction
  <2>7. /\ heap \in Seq(Transaction) /\ Handles = DOMAIN heap /\ Handles' = DOMAIN heap'
        /\ \A s \in Handles : heap[s].conn \in DOMAIN conns
    BY DEF HeapInv, Handles
  <2>8. /\ heap' \in Seq(Transaction) /\ Handles' = Handles \cup {Len(heap) + 1}
        /\ Len(heap') <= MaxTx /\ heap'[Len(heap) + 1].conn = Len(held)
        /\ \A s \in Handles : heap'[s] = heap[s]
    BY <2>1, <2>6, <2>7
  <2>9. list' \in Seq(Handles')
    <3>1. list \in Seq(Handles')
      BY <2>8 DEF HeapInv
    <3> QED BY <2>1, <2>8, <3>1
  <2>10. walk' \in [op : {"none", "commit", "rollback"}, collect : BOOLEAN, todo : Seq(Handles')]
    BY <2>1, <2>8 DEF HeapInv
  <2>11. \A s \in Handles' : heap'[s].conn \in DOMAIN conns'
    BY <2>2, <2>5, <2>7, <2>8
  <2>12. shared' \in BOOLEAN
    BY <2>1 DEF HeapInv
  <2> QED BY <2>1, <2>5, <2>8, <2>9, <2>10, <2>11, <2>12 DEF HeapInv
<1>3. ASSUME NEW t \in Handles, TxBegin(t) PROVE HeapInv'
  <2>1. Begin(ConnOf(t), TRUE, "ok").conn \in Sound
    BY <1>3, ConnOfSound, BeginSound DEF TxBegin
  <2> QED BY <1>3, <2>1, CallKeeps DEF TxBegin, Idling, requestVars
<1>4. ASSUME NEW t \in Handles, TxCommit(t) PROVE HeapInv'
  <2>1. Commit(ConnOf(t), TRUE, "ok").conn \in Sound
    BY ConnOfSound, EndSound
  <2>2. Collected(list, t) \in {<<>>, <<t>>}
    BY CollectedIs DEF CountInv
  <2> QED BY <1>4, <2>1, <2>2, CallKeeps DEF TxCommit, Idling, requestVars
<1>5. ASSUME NEW t \in Handles, TxRollback(t) PROVE HeapInv'
  <2>1. Rollback(ConnOf(t), TRUE, "ok").conn \in Sound
    BY ConnOfSound, EndSound
  <2>2. Collected(list, t) \in {<<>>, <<t>>}
    BY CollectedIs DEF CountInv
  <2> QED BY <1>5, <2>1, <2>2, CallKeeps DEF TxRollback, Idling, requestVars
<1>6. ASSUME NEW t \in Handles, NEW e \in Effects, Write(t, e) PROVE HeapInv'
  <2>1. Got(t).conn \in Sound /\ Got(t).list \in {list, <<>>, <<t>>}
    BY GotEffect
  <2>2. PICK c : /\ c = Got(t).conn \/ c = Execute(Got(t).conn, e, "ok").conn
                 /\ conns' = WithConn(t, c)
    BY <1>6 DEF Write, Result
  <2>3. c \in Sound
    BY <2>1, <2>2, ExecuteSound
  <2> QED BY <1>6, <2>1, <2>2, <2>3, CallKeeps DEF Write, Idling, requestVars
<1>7. ASSUME NEW t \in Handles, NEW throws \in BOOLEAN, SetFlags(t, throws)
      PROVE  HeapInv'
  <2> DEFINE h == [heap[t] EXCEPT !.onAbort = TRUE, !.throws = throws]
  <2>1. /\ heap' = [heap EXCEPT ![t].onAbort = TRUE, ![t].throws = throws]
        /\ UNCHANGED <<list, conns, shared, walk>>
    BY <1>7 DEF SetFlags, requestVars
  <2>2. heap \in Seq(Transaction) /\ Handles = DOMAIN heap
    BY DEF HeapInv, Handles
  <2>3. h \in Transaction /\ h.conn = heap[t].conn
    <3>1. heap[t] \in Transaction
      BY <2>2
    <3> QED BY <3>1 DEF Transaction
  <2>4. heap' = [heap EXCEPT ![t] = h]
    BY <2>1, <2>2 DEF Transaction
  <2> HIDE DEF h
  <2>5. /\ heap' \in Seq(Transaction) /\ Handles' = Handles /\ Len(heap') = Len(heap)
        /\ \A s \in Handles : heap'[s].conn = heap[s].conn
    BY <2>2, <2>3, <2>4 DEF Handles
  <2> QED BY <2>1, <2>5 DEF HeapInv
<1>8. CASE CollectTransactions
  <2>1. /\ list' = <<>> /\ walk.op = "none"
        /\ UNCHANGED <<heap, conns, walk, shared>>
    BY <1>8 DEF CollectTransactions, Idling, requestVars
  <2> QED BY <2>1 DEF HeapInv, Handles
<1>9. CASE ManagerCommit
  BY <1>0, <1>9 DEF ManagerCommit, requestVars
<1>10. ASSUME NEW collect \in BOOLEAN, ManagerRollback(collect) PROVE HeapInv'
  BY <1>0, <1>10 DEF ManagerRollback, requestVars
<1>11. CASE CommitRound
  <2> DEFINE t == Head(walk.todo)
  <2>1. t \in Handles /\ walk' = NoWalk
    BY <1>11, RoundEnds DEF CommitRound
  <2>2. /\ heap' = heap /\ shared' = shared /\ list' = Got(t).list
        /\ \E c : /\ c = Got(t).conn \/ c = Commit(Got(t).conn, TRUE, "ok").conn
                  /\ conns' = WithConn(t, c)
    BY <1>11 DEF CommitRound, requestVars, Result
  <2> HIDE DEF t
  <2>3. Got(t).conn \in Sound /\ Got(t).list \in {list, <<>>, <<t>>}
    BY <2>1, GotEffect
  <2>4. PICK c : /\ c = Got(t).conn \/ c = Commit(Got(t).conn, TRUE, "ok").conn
                 /\ conns' = WithConn(t, c)
    BY <2>2
  <2>5. c \in Sound
    BY <2>3, <2>4, EndSound
  <2> QED BY <2>1, <2>2, <2>3, <2>4, <2>5, CallKeeps
<1>12. CASE RollbackRound
  <2> DEFINE t == Head(walk.todo)
  <2>1. t \in Handles /\ walk' = NoWalk
    BY <1>12, RoundEnds DEF RollbackRound
  <2>2. /\ heap' = heap /\ shared' = shared
        /\ list' \in {Got(t).list, Collected(Got(t).list, t)}
        /\ \E c : /\ c = Got(t).conn \/ c = Close(Rollback(Got(t).conn, TRUE, "ok").conn).conn
                  /\ conns' = WithConn(t, c)
    BY <1>12 DEF RollbackRound, requestVars
  <2> HIDE DEF t
  <2>3. Got(t).conn \in Sound /\ Got(t).list \in {list, <<>>, <<t>>}
    BY <2>1, GotEffect
  <2>4. Collected(Got(t).list, t) \in {<<>>, <<t>>}
    BY GotKeeps, CollectedIs
  <2>5. PICK c : /\ c = Got(t).conn \/ c = Close(Rollback(Got(t).conn, TRUE, "ok").conn).conn
                 /\ conns' = WithConn(t, c)
    BY <2>2
  <2>6. c \in Sound
    BY <2>3, <2>5, EndSound, CloseSound
  <2> QED BY <2>1, <2>2, <2>3, <2>4, <2>5, <2>6, CallKeeps
<1>13. CASE Abort
  BY <1>0, <1>13 DEF Abort
<1>14. CASE Shutdown
  BY <1>0, <1>14 DEF Shutdown
<1>15. CASE UNCHANGED vars
  BY <1>0, <1>15 DEF vars
<1> QED
  BY <1>1, <1>2, <1>3, <1>4, <1>5, <1>6, <1>7, <1>8, <1>9, <1>10, <1>11, <1>12, <1>13,
     <1>14, <1>15 DEF Next
LEMMA InitHeap == Init => HeapInv
<1> SUFFICES ASSUME Init PROVE HeapInv
  OBVIOUS
<1>1. PICK savepoints \in BOOLEAN :
        conns = IF shared THEN <<FreshConnection(savepoints)>> ELSE <<>>
  BY DEF Init
<1>2. FreshConnection(savepoints) \in Sound
  BY FreshSound
<1>3. conns \in Seq(Sound) /\ (shared => conns # <<>>)
  <2> DEFINE new == FreshConnection(savepoints)
  <2> HIDE DEF new
  <2>1. <<>> \in Seq(Sound) /\ <<new>> # <<>>
    OBVIOUS
  <2>2. new \in Sound => <<new>> \in Seq(Sound)
    OBVIOUS
  <2> QED BY <1>1, <1>2, <2>1, <2>2 DEF new
<1>4. /\ heap = <<>> /\ list = <<>> /\ walk = NoWalk /\ shared \in BOOLEAN
  BY DEF Init
<1>5. /\ <<>> \in Seq(Transaction) /\ Len(<<>>) = 0 /\ <<>> \in Seq(Handles)
      /\ Handles = {}
  BY <1>4 DEF Handles
<1> QED BY <1>3, <1>4, <1>5, BoundsAssumption DEF HeapInv, NoWalk

----------------------------------------------------------------------------
(* Types *)

FlagInv ==
    /\ initialized \in BOOLEAN /\ hook \in BOOLEAN
    /\ aborted \in BOOLEAN /\ ended \in BOOLEAN /\ strayed \in BOOLEAN
    /\ db \in SUBSET Effects

\* What commit() makes durable; of a block that was begun once, all its work.
LEMMA CommitEffects ==
    ASSUME NEW c \in Sound
    PROVE  /\ Commit(c, TRUE, "ok").made \in SUBSET Effects
           /\ c.active /\ c.level = 1 => Commit(c, TRUE, "ok").made = c.work
           /\ ~c.active => c.work = {}
<1>1. /\ c \in Session(SUBSET Effects) /\ {} \in SUBSET Effects
      /\ "ok" \in Outcomes /\ c.work \in SUBSET Effects
  BY DEF Sound, Session, ConnectionOf, Outcomes
<1>2. Commit(c, TRUE, "ok").made \in SUBSET Effects
  <2>1. \/ Commit(c, TRUE, "ok").made = {}
        \/ Commit(c, TRUE, "ok").made = c.work
    BY <1>1, CommitMakes
  <2> QED BY <1>1, <2>1
<1>3. ASSUME c.active, c.level = 1
      PROVE  Commit(c, TRUE, "ok").made = c.work
  <2> DEFINE d == Shallower(c)
  <2>1. c.open
    BY <1>3 DEF Sound, Counted
  <2>2. d.active /\ d.work = c.work
    BY <1>1, <1>3 DEF Session, ConnectionOf, Shallower
  <2>3. Commit(c, TRUE, "ok") = ServerCommit(d, "ok")
    BY <1>3, <2>1 DEF Commit
  <2> HIDE DEF d
  <2>4. ServerCommit(d, "ok").made = d.work
    BY <2>2 DEF ServerCommit, Result
  <2> QED BY <2>2, <2>3, <2>4
<1> QED BY <1>1, <1>2, <1>3 DEF Session

\* The statements that are durable after a step.
LEMMA EffectsStep ==
    ASSUME CountInv, HeapInv, FlagInv, [Next]_vars
    PROVE  db' \in SUBSET Effects
<1>0. ASSUME db' = db PROVE db' \in SUBSET Effects
  BY <1>0 DEF FlagInv
<1>1. ASSUME NEW t \in Handles, TxCommit(t)
      PROVE  db' \in SUBSET Effects
  BY <1>1, ConnOfSound, CommitEffects DEF TxCommit, FlagInv
<1>2. ASSUME NEW t \in Handles, NEW e \in Effects, Write(t, e)
      PROVE  db' \in SUBSET Effects
  <2>1. db' \in {db, db \cup {e}}
    BY <1>2 DEF Write, Execute, RefusalOf, Result
  <2> QED BY <2>1 DEF FlagInv
<1>3. CASE CommitRound
  <2> DEFINE t == Head(walk.todo)
             g == Got(t)
  <2>1. t \in Handles
    BY <1>3, RoundEnds DEF CommitRound
  <2>2. db' = db \cup Commit(g.conn, TRUE, "ok").made \/ db' = db \cup {}
    BY <1>3 DEF CommitRound, Result
  <2> HIDE DEF t
  <2>3. g.conn \in Sound
    BY <2>1, GotEffect
  <2> HIDE DEF g
  <2> QED BY <2>2, <2>3, CommitEffects DEF FlagInv
<1> QED
  BY <1>0, <1>1, <1>2, <1>3
     DEF Next, vars, requestVars, GetListed, GetNew, TxBegin, TxRollback, SetFlags,
         CollectTransactions, ManagerCommit, ManagerRollback, RollbackRound, Abort, Shutdown

LEMMA FlagStep == CountInv /\ HeapInv /\ FlagInv /\ [Next]_vars => FlagInv'
<1> SUFFICES ASSUME CountInv, HeapInv, FlagInv, [Next]_vars PROVE FlagInv'
  OBVIOUS
<1>1. db' \in SUBSET Effects
  BY EffectsStep
<1>2. initialized' \in BOOLEAN /\ hook' \in BOOLEAN
  BY DEF FlagInv, Next, vars, requestVars, GetListed, GetNew, Register, TxBegin, TxCommit,
         TxRollback, Write, SetFlags, CollectTransactions, ManagerCommit, ManagerRollback,
         CommitRound, RollbackRound, Abort, Shutdown
<1>3. aborted' \in BOOLEAN /\ ended' \in BOOLEAN
  BY DEF FlagInv, Next, vars, requestVars, GetListed, GetNew, TxBegin, TxCommit,
         TxRollback, Write, SetFlags, CollectTransactions, ManagerCommit, ManagerRollback,
         CommitRound, RollbackRound, Abort, Shutdown
<1>4. strayed' \in BOOLEAN
  BY DEF FlagInv, Next, vars, requestVars, StraysIf, GetListed, GetNew, TxBegin, TxCommit,
         TxRollback, Write, SetFlags, CollectTransactions, ManagerCommit, ManagerRollback,
         CommitRound, RollbackRound, Abort, Shutdown
<1> QED BY <1>1, <1>2, <1>3, <1>4 DEF FlagInv

LEMMA InitFlags == Init => FlagInv
  BY DEF Init, FlagInv

\* The manager's variables keep their types, and every handle, listed or kept
\* by a caller, refers to a connection that exists.
THEOREM TypeCorrect == Spec => []TypeOK
<1>1. CountInv /\ HeapInv /\ FlagInv => TypeOK
  <2> SUFFICES ASSUME CountInv, HeapInv, FlagInv PROVE TypeOK
    OBVIOUS
  <2>1. number \in Int
    BY DEF CountInv, AtMostOne
  <2>2. conns \in Seq(Connection)
    <3>1. Sound \subseteq Connection
      BY SoundIsConnection
    <3> QED BY <3>1 DEF HeapInv
  <2> QED BY <2>1, <2>2 DEF HeapInv, FlagInv, TypeOK
<1> QED
  BY <1>1, InitCount, InitHeap, InitFlags, CountStep, HeapStep, FlagStep, PTL DEF Spec

----------------------------------------------------------------------------
(* Callers that use what the manager lists *)

NoneActive == \A k \in DOMAIN conns : ~conns[k].active

\* For callers who never strayed: an open block is listed and was begun once;
\* a handle is only listed once the shutdown function is registered, and after
\* the end of the script a walk is ahead or no block is open.
PendInv ==
    /\ PendingIsListed
    /\ ~strayed => \A k \in DOMAIN conns : conns[k].active => conns[k].level = 1
    /\ ~hook => list = <<>>
    /\ ended /\ ~strayed => walk.op = "rollback" \/ NoneActive

\* With one handle listed, the blocks of all other connections are closed.
LEMMA OthersClosed ==
    ASSUME PendInv, ~strayed, NEW t, list = <<t>> \/ list = <<>>
    PROVE  \A k \in DOMAIN conns : conns[k].active => k = heap[t].conn
<1>1. ASSUME NEW i \in DOMAIN list PROVE list[i] = t
  BY <1>1
<1> QED BY <1>1 DEF PendInv, PendingIsListed

\* When that one ends as well, none is open.
LEMMA AllClosed ==
    ASSUME HeapInv, PendInv, ~strayed, NEW t \in Handles, list = <<t>> \/ list = <<>>,
           NEW c \in Sound, ~c.active, conns' = WithConn(t, c)
    PROVE  NoneActive'
<1>1. DOMAIN conns' = DOMAIN conns /\ conns'[heap[t].conn] = c
  BY PutConn
<1>2. \A k \in DOMAIN conns : k # heap[t].conn => conns'[k] = conns[k]
  BY PutConn
<1> QED BY <1>1, <1>2, OthersClosed DEF NoneActive

LEMMA ClosedKeeps ==
    ASSUME PendInv, ~strayed' => NoneActive', ~hook' => list' = <<>>
    PROVE  PendInv'
  BY DEF PendInv, PendingIsListed, NoneActive

\* A listed handle is the one that is listed.
LEMMA ListedIs ==
    ASSUME CountInv, NEW t, Listed(t)
    PROVE  list = <<t>>
<1>1. PICK i \in DOMAIN list : list[i] = t
  BY DEF Listed
<1>2. list # <<>>
  BY <1>1
<1>3. PICK x : list = <<x>>
  BY <1>2 DEF CountInv, AtMostOne
<1>4. x = t
  BY <1>1, <1>3
<1> QED BY <1>3, <1>4

\* A round of a walk ends the only open block, or finds none.
LEMMA RoundCloses ==
    ASSUME CountInv, HeapInv, PendInv, ~strayed, NEW t \in Handles, list = <<t>>
    PROVE  /\ Got(t).conn \in Sound
           /\ Got(t).conn.active => Got(t).conn.level = 1
           /\ RollsBackNow(t) => ~Got(t).conn.active
<1>1. ConnOf(t) \in Sound /\ (ConnOf(t).active => ConnOf(t).level = 1)
  BY ConnOfSound DEF PendInv, ConnOf
<1> QED BY <1>1, GotEffect

\* get() registers the shutdown function the first time it is called.
HookInv == initialized <=> hook

LEMMA HookStep == HookInv /\ [Next]_vars => HookInv'
<1> SUFFICES ASSUME HookInv, [Next]_vars PROVE HookInv'
  OBVIOUS
<1>1. ASSUME Register PROVE HookInv'
  <2>1. initialized' /\ (hook \/ ~initialized) /\ hook' = (hook \/ ~initialized)
    BY <1>1 DEF Register, HookInv
  <2> QED BY <2>1 DEF HookInv
<1>2. Register \/ UNCHANGED <<initialized, hook>>
  BY DEF Next, vars, requestVars, GetListed, GetNew, TxBegin, TxCommit, TxRollback, Write,
         SetFlags, CollectTransactions, ManagerCommit, ManagerRollback, CommitRound,
         RollbackRound, Abort, Shutdown
<1> QED BY <1>1, <1>2 DEF HookInv

LEMMA PendStep == CountInv /\ HeapInv /\ HookInv /\ PendInv /\ [Next]_vars => PendInv'
<1> SUFFICES ASSUME CountInv, HeapInv, HookInv, PendInv, [Next]_vars PROVE PendInv'
  OBVIOUS
\* The end of a block by its handle.
<1>0. ASSUME NEW t \in Handles, list = <<t>> \/ list = <<>>, NEW c \in Sound,
             conns' = WithConn(t, c), ~strayed => ~c.active,
             strayed' = strayed, hook' = hook, list = <<>> => list' = <<>>
      PROVE  PendInv'
  <2>1. ~strayed' => NoneActive'
    BY <1>0, AllClosed
  <2>2. ~hook' => list' = <<>>
    BY <1>0 DEF PendInv
  <2> QED BY <2>1, <2>2, ClosedKeeps
<1>1. CASE GetListed
  <2>1. /\ hook => hook'
        /\ UNCHANGED <<list, conns, ended, walk, strayed>>
        /\ heap' = [heap EXCEPT ![Last(list)].isNew = FALSE] /\ list # <<>>
    BY <1>1 DEF GetListed, Register, PendInv
  <2>2. list \in Seq(Handles) /\ Last(list) \in Handles /\ heap \in Seq(Transaction)
    BY <2>1 DEF HeapInv, Last
  <2>3. \A i \in DOMAIN list : heap'[list[i]].conn = heap[list[i]].conn
    <3>1. \A s \in Handles : heap[s] \in Transaction
      BY <2>2 DEF Handles
    <3>2. \A s \in Handles : heap'[s].conn = heap[s].conn
      BY <2>1, <2>2, <3>1 DEF Handles, Transaction
    <3> QED BY <2>2, <3>2
  <2>4. ~hook' => list' = <<>>
    BY <2>1 DEF PendInv
  <2> QED BY <2>1, <2>3, <2>4 DEF PendInv, PendingIsListed, NoneActive
<1>2. ASSUME NEW autoBegin \in BOOLEAN, NEW savepoints \in BOOLEAN,
             GetNew(autoBegin, savepoints)
      PROVE  PendInv'
  <2> DEFINE held  == IF shared THEN conns ELSE Append(conns, FreshConnection(savepoints))
             b == Begin(held[Len(held)], TRUE, "ok").conn
             begun == [held EXCEPT ![Len(held)] = b]
             new == NewTransaction(Len(held))
  <2>1. /\ list = <<>> /\ list' = Append(list, Len(heap) + 1)
        /\ heap' = Append(heap, new)
        /\ held[Len(held)].level < MaxLevel /\ conns' \in {held, begun}
        /\ hook' /\ strayed' = strayed /\ ~ended'
    <3>1. list = <<>>
      BY <1>2 DEF GetNew, CountInv, AtMostOne
    <3>2. hook'
      BY <1>2 DEF GetNew, Register, HookInv
    <3> QED BY <1>2, <3>1, <3>2 DEF GetNew, Idling
  <2>2. new.conn = Len(held)
    BY DEF NewTransaction
  <2> HIDE DEF new
  <2>3. list' = <<Len(heap) + 1>> /\ heap'[Len(heap) + 1] = new
    BY <2>1 DEF HeapInv
  <2>4. /\ held \in Seq(Sound) /\ held # <<>>
        /\ ~strayed => \A k \in DOMAIN held : ~held[k].active
    <3>1. conns \in Seq(Sound) /\ (shared => conns # <<>>)
      BY DEF HeapInv
    <3>2. ~strayed => \A k \in DOMAIN conns : ~conns[k].active
      BY <2>1 DEF PendInv, PendingIsListed
    <3>3. CASE shared
      BY <3>1, <3>2, <3>3
    <3>4. CASE ~shared
      <4> DEFINE f == FreshConnection(savepoints)
      <4>1. f \in Sound /\ ~f.active
        BY FreshSound
      <4> HIDE DEF f
      <4>2. Append(conns, f) \in Seq(Sound) /\ Len(Append(conns, f)) = Len(conns) + 1
        BY <3>1, <4>1
      <4>3. \A k \in DOMAIN Append(conns, f) :
                Append(conns, f)[k] = f \/ (k \in DOMAIN conns /\ Append(conns, f)[k] = conns[k])
        BY <3>1, <4>1
      <4>4. held = Append(conns, f)
        BY <3>4 DEF f
      <4> HIDE DEF held
      <4> QED BY <3>1, <3>2, <4>1, <4>2, <4>3, <4>4
    <3> QED BY <3>3, <3>4
  <2> HIDE DEF held
  <2>5. Len(held) \in DOMAIN held /\ held[Len(held)] \in Sound
    BY <2>4
  <2>6. /\ b \in Sound /\ (~strayed /\ b.active => b.level = 1)
    <3>1. b \in Sound /\ (held[Len(held)].level = 0 => b.level <= 1)
      BY <2>1, <2>5, BeginSound
    <3>2. ~strayed => ~held[Len(held)].active
      BY <2>4, <2>5
    <3>3. held[Len(held)].open => (held[Len(held)].active <=> held[Len(held)].level > 0)
      BY <2>5 DEF Sound, Counted
    <3>4. ~held[Len(held)].open => b = held[Len(held)]
      BY DEF Begin, Result
    <3>5. held[Len(held)].level \in Nat
      BY <2>5 DEF Sound, Session, ConnectionOf
    <3> HIDE DEF b
    <3>6. b.active => b.level > 0
      BY <3>1 DEF Sound, Counted
    <3>7. b.level \in Nat
      BY <3>1 DEF Sound, Session, ConnectionOf
    <3> QED BY <3>1, <3>2, <3>3, <3>4, <3>5, <3>6, <3>7
  <2> HIDE DEF b
  <2>7. /\ DOMAIN begun = DOMAIN held /\ begun[Len(held)] = b
        /\ \A k \in DOMAIN held : k # Len(held) => begun[k] = held[k]
    BY <2>4, <2>5, <2>6
  <2> HIDE DEF begun
  <2>8. ~strayed => \A k \in DOMAIN conns' : conns'[k].active =>
                        k = Len(held) /\ conns'[k].level = 1
    BY <2>1, <2>4, <2>5, <2>6, <2>7
  <2>9. PendingIsListed'
    <3>1. 1 \in DOMAIN list' /\ list'[1] = Len(heap) + 1
      BY <2>3
    <3>2. heap'[list'[1]].conn = Len(held)
      BY <2>2, <2>3, <3>1
    <3> QED BY <2>1, <2>8, <3>1, <3>2 DEF PendingIsListed
  <2> QED BY <2>1, <2>8, <2>9 DEF PendInv
<1>3. ASSUME NEW t \in Handles, TxBegin(t) PROVE PendInv'
  <2> DEFINE c == Begin(ConnOf(t), TRUE, "ok").conn
  <2>1. /\ conns' = WithConn(t, c) /\ ConnOf(t).level < MaxLevel
        /\ strayed' = (strayed \/ ~Listed(t) \/ ConnOf(t).level > 0)
        /\ ~ended /\ UNCHANGED <<list, heap, hook, ended, walk>>
    BY <1>3 DEF TxBegin, StraysIf, requestVars, Idling
  <2>2. ConnOf(t) \in Sound /\ c \in Sound /\ (ConnOf(t).level = 0 => c.level <= 1)
    BY <2>1, ConnOfSound, BeginSound
  <2> HIDE DEF c
  <2>3. ASSUME ~strayed'
        PROVE  \A k \in DOMAIN conns' : conns'[k].active =>
                   k = heap[t].conn /\ conns'[k].level = 1
    <3>1. ~strayed /\ list = <<t>> /\ ~(ConnOf(t).level > 0)
      BY <2>1, <2>3, ListedIs
    <3>2. \A k \in DOMAIN conns : conns[k].active => k = heap[t].conn
      BY <3>1, OthersClosed
    <3>3. /\ DOMAIN conns' = DOMAIN conns /\ conns'[heap[t].conn] = c
          /\ \A k \in DOMAIN conns : k # heap[t].conn => conns'[k] = conns[k]
      BY <2>1, <2>2, PutConn
    <3>4. ConnOf(t).level = 0
      BY <2>2, <3>1 DEF Sound, Session, ConnectionOf
    <3>5. c.active => c.level = 1
      <4>1. c.active => c.level > 0
        BY <2>2 DEF Sound, Counted
      <4>2. c.level \in Nat
        BY <2>2 DEF Sound, Session, ConnectionOf
      <4> QED BY <2>2, <3>4, <4>1, <4>2
    <3> QED BY <3>2, <3>3, <3>5
  <2>4. ~strayed' => list = <<t>>
    BY <2>1, ListedIs
  <2>5. PendingIsListed'
    <3>1. ASSUME ~strayed' PROVE 1 \in DOMAIN list' /\ heap'[list'[1]].conn = heap[t].conn
      BY <2>1, <2>4, <3>1
    <3> QED BY <2>3, <3>1 DEF PendingIsListed
  <2> QED BY <2>1, <2>3, <2>5 DEF PendInv
<1>4. ASSUME NEW t \in Handles, NEW c, c = Commit(ConnOf(t), TRUE, "ok").conn
                                       \/ c = Rollback(ConnOf(t), TRUE, "ok").conn,
             strayed' = (strayed \/ ~Listed(t)), conns' = WithConn(t, c), hook' = hook,
             list' = Collected(list, t)
      PROVE  PendInv'
  <2>1. c \in Sound /\ ((ConnOf(t).active => ConnOf(t).level = 1) => ~c.active)
    BY <1>4, ConnOfSound, EndSound
  <2>2. ASSUME ~strayed' PROVE NoneActive'
    <3>1. ~strayed /\ list = <<t>>
      BY <1>4, <2>2, ListedIs
    <3>2. ConnOf(t).active => ConnOf(t).level = 1
      BY <3>1, ConnOfSound DEF PendInv, ConnOf
    <3> QED BY <1>4, <2>1, <3>1, <3>2, AllClosed
  <2>3. ~hook' => list' = <<>>
    BY <1>4, CollectedIs DEF CountInv, PendInv
  <2> QED BY <2>2, <2>3, ClosedKeeps
<1>5. ASSUME NEW t \in Handles, TxCommit(t) PROVE PendInv'
  BY <1>4, <1>5 DEF TxCommit, StraysIf, requestVars
<1>6. ASSUME NEW t \in Handles, TxRollback(t) PROVE PendInv'
  BY <1>4, <1>6 DEF TxRollback, StraysIf, requestVars
<1>7. ASSUME NEW t \in Handles, NEW e \in Effects, Write(t, e) PROVE PendInv'
  <2> DEFINE g == Got(t)
  <2>1. /\ strayed' = (strayed \/ ~Listed(t)) /\ list' = g.list
        /\ ~ended /\ UNCHANGED <<heap, hook, ended, walk>>
    BY <1>7 DEF Write, StraysIf, requestVars, Idling
  <2>2. PICK c : /\ c = g.conn \/ c = Execute(g.conn, e, "ok").conn
                 /\ conns' = WithConn(t, c)
    BY <1>7 DEF Write, Result
  <2>3. /\ g.conn \in Sound /\ (list = <<>> => g.list = <<>>)
        /\ ~RollsBackNow(t) => g.conn = ConnOf(t)
    BY GotEffect
  <2>4. ~RollsBackNow(t) => g.list = list
    BY DEF Got
  <2>5. ~strayed /\ list = <<t>> => /\ g.conn.active => g.conn.level = 1
                                    /\ RollsBackNow(t) => ~g.conn.active
    BY RoundCloses
  <2> HIDE DEF g
  <2>6. c \in Sound /\ (c.active <=> g.conn.active) /\ c.level = g.conn.level
    BY <2>2, <2>3, ExecuteSound
  <2>7. ~strayed' => ~strayed /\ list = <<t>>
    BY <2>1, ListedIs
  <2>8. ~hook' => list' = <<>>
    BY <2>1, <2>3 DEF PendInv
  <2>9. CASE RollsBackNow(t)
    <3>1. ~strayed' => NoneActive'
      BY <2>2, <2>5, <2>6, <2>7, <2>9, AllClosed
    <3> QED BY <2>8, <3>1, ClosedKeeps
  <2>10. CASE ~RollsBackNow(t)
    <3>1. ASSUME ~strayed'
          PROVE  \A k \in DOMAIN conns' : conns'[k].active =>
                     k = heap[t].conn /\ conns'[k].level = 1
      <4>1. \A k \in DOMAIN conns : conns[k].active => k = heap[t].conn
        BY <2>7, <3>1, OthersClosed
      <4>2. /\ DOMAIN conns' = DOMAIN conns /\ conns'[heap[t].conn] = c
            /\ \A k \in DOMAIN conns : k # heap[t].conn => conns'[k] = conns[k]
        BY <2>2, <2>6, PutConn
      <4> QED BY <2>5, <2>6, <2>7, <3>1, <4>1, <4>2
    <3>2. ASSUME ~strayed' PROVE 1 \in DOMAIN list' /\ heap'[list'[1]].conn = heap[t].conn
      BY <2>1, <2>4, <2>7, <2>10, <3>2
    <3>3. PendingIsListed'
      BY <3>1, <3>2 DEF PendingIsListed
    <3> QED BY <2>1, <2>8, <3>1, <3>3 DEF PendInv
  <2> QED BY <2>9, <2>10
<1>8. ASSUME NEW t \in Handles, NEW throws \in BOOLEAN, SetFlags(t, throws)
      PROVE  PendInv'
  <2>1. /\ heap' = [heap EXCEPT ![t].onAbort = TRUE, ![t].throws = throws]
        /\ UNCHANGED <<list, conns, walk, hook, ended, strayed>>
    BY <1>8 DEF SetFlags, requestVars
  <2>2. heap \in Seq(Transaction) /\ list \in Seq(Handles)
    BY DEF HeapInv
  <2>3. \A s \in Handles : heap'[s].conn = heap[s].conn
    <3>1. \A s \in Handles : heap[s] \in Transaction
      BY <2>2 DEF Handles
    <3> QED BY <2>1, <2>2, <3>1 DEF Handles, Transaction
  <2>4. \A i \in DOMAIN list : heap'[list[i]].conn = heap[list[i]].conn
    BY <2>2, <2>3
  <2>5. PendingIsListed'
    BY <2>1, <2>4 DEF PendInv, PendingIsListed
  <2> QED BY <2>1, <2>5 DEF PendInv, NoneActive
<1>9. CASE CollectTransactions
  <2>1. /\ list' = <<>> /\ conns' = conns
        /\ strayed' = (strayed \/ \E k \in DOMAIN conns : conns[k].active)
    BY <1>9 DEF CollectTransactions, StraysIf
  <2>2. ~strayed' => NoneActive'
    BY <2>1 DEF NoneActive
  <2> QED BY <2>1, <2>2, ClosedKeeps
<1>10. ASSUME UNCHANGED <<list, heap, conns, hook, ended, strayed>>, ~ended \/ walk' = walk
       PROVE  PendInv'
  BY <1>10 DEF PendInv, PendingIsListed, NoneActive
<1>11. CASE ManagerCommit
  BY <1>10, <1>11 DEF ManagerCommit, Idling, requestVars
<1>12. ASSUME NEW collect \in BOOLEAN, ManagerRollback(collect) PROVE PendInv'
  BY <1>10, <1>12 DEF ManagerRollback, Idling, requestVars
<1>13. CASE CommitRound
  <2> DEFINE t == Head(walk.todo)
             g == Got(t)
  <2>1. t \in Handles /\ list = <<t>>
    BY <1>13, RoundEnds DEF CommitRound
  <2>2. /\ strayed' = strayed /\ hook' = hook
        /\ \E c : /\ \/ c = Commit(g.conn, TRUE, "ok").conn
                     \/ c = g.conn /\ (g.threw \/ ~IsUnderTransaction(g.conn))
                  /\ conns' = WithConn(t, c)
    BY <1>13 DEF CommitRound, requestVars, Result
  <2> HIDE DEF t
  <2>3. /\ g.conn \in Sound
        /\ ~strayed => /\ g.conn.active => g.conn.level = 1
                       /\ RollsBackNow(t) => ~g.conn.active
        /\ ~RollsBackNow(t) => g.threw = FALSE
    BY <2>1, RoundCloses, GotEffect
  <2> HIDE DEF g
  <2>4. PICK c : /\ \/ c = Commit(g.conn, TRUE, "ok").conn
                    \/ c = g.conn /\ (g.threw \/ ~IsUnderTransaction(g.conn))
                 /\ conns' = WithConn(t, c)
    BY <2>2
  <2>5. g.conn.active => g.conn.open
    BY <2>3 DEF Sound, Counted
  <2>6. c \in Sound /\ (~strayed => ~c.active)
    BY <2>3, <2>4, <2>5, EndSound DEF IsUnderTransaction
  <2> QED BY <1>0, <2>1, <2>2, <2>4, <2>6
<1>14. CASE RollbackRound
  <2> DEFINE t == Head(walk.todo)
             g == Got(t)
  <2>1. t \in Handles /\ list = <<t>>
    BY <1>14, RoundEnds DEF RollbackRound
  <2>2. /\ strayed' = strayed /\ hook' = hook
        /\ \E c : /\ \/ c = Close(Rollback(g.conn, TRUE, "ok").conn).conn
                     \/ c = g.conn /\ (g.threw \/ ~IsUnderTransaction(g.conn))
                  /\ conns' = WithConn(t, c)
    BY <1>14 DEF RollbackRound, requestVars
  <2> HIDE DEF t
  <2>3. /\ g.conn \in Sound
        /\ ~strayed => (RollsBackNow(t) => ~g.conn.active)
        /\ ~RollsBackNow(t) => g.threw = FALSE
    BY <2>1, RoundCloses, GotEffect
  <2> HIDE DEF g
  <2>4. PICK c : /\ \/ c = Close(Rollback(g.conn, TRUE, "ok").conn).conn
                    \/ c = g.conn /\ (g.threw \/ ~IsUnderTransaction(g.conn))
                 /\ conns' = WithConn(t, c)
    BY <2>2
  <2>5. g.conn.active => g.conn.open
    BY <2>3 DEF Sound, Counted
  <2>6. c \in Sound /\ (~strayed => ~c.active)
    <3>1. Rollback(g.conn, TRUE, "ok").conn \in Sound
      BY <2>3, EndSound
    <3>2. /\ Close(Rollback(g.conn, TRUE, "ok").conn).conn \in Sound
          /\ ~Close(Rollback(g.conn, TRUE, "ok").conn).conn.active
      BY <3>1, CloseSound
    <3> QED BY <2>3, <2>4, <2>5, <3>2 DEF IsUnderTransaction
  <2> QED BY <1>0, <2>1, <2>2, <2>4, <2>6
<1>15. CASE Abort
  BY <1>10, <1>15 DEF Abort
<1>16. CASE Shutdown
  <2>1. /\ UNCHANGED <<list, heap, conns, hook, strayed>>
        /\ IF hook THEN StartWalk("rollback", TRUE) ELSE UNCHANGED walk
    BY <1>16 DEF Shutdown
  <2>2. list # <<>> => walk'.op = "rollback"
    BY <2>1 DEF StartWalk, PendInv
  <2>3. list = <<>> /\ ~strayed => NoneActive
    BY DEF PendInv, PendingIsListed, NoneActive
  <2> QED BY <2>1, <2>2, <2>3 DEF PendInv, PendingIsListed, NoneActive
<1>17. CASE UNCHANGED vars
  BY <1>10, <1>17 DEF vars
<1> QED
  BY <1>1, <1>2, <1>3, <1>5, <1>6, <1>7, <1>8, <1>9, <1>11, <1>12, <1>13,
     <1>14, <1>15, <1>16, <1>17 DEF Next

LEMMA InitPend == Init => HookInv /\ PendInv
<1> SUFFICES ASSUME Init PROVE HookInv /\ PendInv
  OBVIOUS
<1>1. PICK savepoints \in BOOLEAN :
        conns = IF shared THEN <<FreshConnection(savepoints)>> ELSE <<>>
  BY DEF Init
<1>2. ~FreshConnection(savepoints).active
  BY FreshSound
<1>3. NoneActive
  <2> DEFINE f == FreshConnection(savepoints)
  <2> HIDE DEF f
  <2>1. conns = <<f>> \/ conns = <<>>
    BY <1>1 DEF f
  <2>2. \A k \in DOMAIN conns : conns[k] = f
    BY <2>1
  <2> QED BY <1>2, <2>2 DEF NoneActive, f
<1> QED BY <1>3 DEF Init, HookInv, PendInv, PendingIsListed, NoneActive

\* A block that is open is one the manager lists: the next get() gives it out
\* again and the shutdown function rolls it back, in every run of callers who
\* use listed handles only.
THEOREM PendingCorrect == Spec => []PendingIsListed
<1>1. PendInv => PendingIsListed
  BY DEF PendInv
<1> QED
  BY <1>1, InitCount, InitHeap, InitPend, CountStep, HeapStep, HookStep, PendStep, PTL DEF Spec

\* The shutdown function leaves no block of such callers open, also when the
\* client has aborted and when its walk is left by an exception.
THEOREM ShutdownCorrect == Spec => []ShutdownRollsBack
<1>1. PendInv => ShutdownRollsBack
  BY DEF PendInv, ShutdownRollsBack, NoneActive, NoWalk
<1> QED
  BY <1>1, InitCount, InitHeap, InitPend, CountStep, HeapStep, HookStep, PendStep, PTL DEF Spec

\* In an aborted request manager.commit() makes nothing durable of a
\* transaction of such callers that is to be rolled back on abort.
THEOREM AbortCorrect == Spec => AbortStopsCommit
<1> DEFINE kept ==
        ~strayed /\ CommitRound /\ RollsBackNow(Head(walk.todo)) => db' = db
<1>1. ASSUME CountInv, HeapInv, PendInv PROVE kept
  <2> SUFFICES ASSUME ~strayed, CommitRound, RollsBackNow(Head(walk.todo)) PROVE db' = db
    OBVIOUS
  <2> DEFINE t == Head(walk.todo)
             g == Got(t)
  <2>1. t \in Handles /\ list = <<t>>
    BY <1>1, RoundEnds DEF CommitRound
  <2>2. ~g.conn.active
    BY <1>1, <2>1, RoundCloses
  <2>3. \/ db' = db \cup {}
        \/ IsUnderTransaction(g.conn)
    BY DEF CommitRound, Result
  <2> QED BY <2>2, <2>3 DEF IsUnderTransaction
<1>2. CountInv /\ HeapInv /\ PendInv => [kept]_vars
  BY <1>1
<1> HIDE DEF kept
<1>3. Spec => [][kept]_vars
  BY <1>2, InitCount, InitHeap, InitPend, CountStep, HeapStep, HookStep, PendStep,
     PTL DEF Spec
<1> QED BY <1>3 DEF AbortStopsCommit, kept

\* commit() of the connection of the only handle that is listed.
LEMMA CommitKeepsAll ==
    ASSUME HeapInv, PendInv, ~strayed, NEW t \in Handles, list = <<t>>,
           NEW r, r = Commit(ConnOf(t), TRUE, "ok") \/ (~ConnOf(t).active /\ r.conn = ConnOf(t)),
           conns' = WithConn(t, r.conn), db' = db \cup r.made
    PROVE  \A k \in DOMAIN conns : conns[k].work \subseteq db' /\ ~conns'[k].active
<1> DEFINE c == ConnOf(t)
<1>1. c \in Sound /\ c = conns[heap[t].conn] /\ (c.active => c.level = 1)
  BY ConnOfSound DEF PendInv, ConnOf
<1>2. c.work \subseteq db'
  BY <1>1, CommitEffects
<1>3. r.conn \in Sound /\ ~r.conn.active
  BY <1>1, EndSound
<1>4. NoneActive'
  BY <1>3, AllClosed
<1>5. DOMAIN conns' = DOMAIN conns
  BY <1>3, PutConn
<1>6. ASSUME NEW k \in DOMAIN conns PROVE conns[k].work \subseteq db'
  <2>1. CASE k = heap[t].conn
    BY <1>1, <1>2, <2>1
  <2>2. CASE k # heap[t].conn
    <3>1. ~conns[k].active /\ conns[k] \in Sound
      BY <2>2, OthersClosed DEF HeapInv
    <3>2. conns[k].work = {}
      BY <3>1, CommitEffects
    <3> QED BY <3>2
  <2> QED BY <2>1, <2>2
<1> QED BY <1>4, <1>5, <1>6 DEF NoneActive

\* For callers that use what the manager lists, commit() is never the commit of
\* a block inside another one that is rolled back later: after it all that was
\* written is durable and no block is open, on shared and isolated
\* connections, for any number of transactions, aborts included.
THEOREM CommitsCorrect == Spec => CommitIsForGood
<1> DEFINE all == \A k \in DOMAIN conns : conns[k].work \subseteq db' /\ ~conns'[k].active
           commits == (\E t \in Handles : TxCommit(t))
                      \/ (CommitRound /\ ~RollsBackNow(Head(walk.todo)))
           good == ~strayed' /\ commits => all
<1> HIDE DEF all, commits
<1>1. ASSUME CountInv, HeapInv, FlagInv, PendInv, ~strayed', NEW t \in Handles, TxCommit(t)
      PROVE  all
  <2>1. ~strayed /\ Listed(t)
    BY <1>1 DEF TxCommit, StraysIf, FlagInv
  <2>2. list = <<t>>
    BY <1>1, <2>1, ListedIs
  <2>3. /\ conns' = WithConn(t, Commit(ConnOf(t), TRUE, "ok").conn)
        /\ db' = db \cup Commit(ConnOf(t), TRUE, "ok").made
    BY <1>1 DEF TxCommit
  <2> QED BY <1>1, <2>1, <2>2, <2>3, CommitKeepsAll DEF all
<1>2. ASSUME CountInv, HeapInv, PendInv, ~strayed', CommitRound, ~RollsBackNow(Head(walk.todo))
      PROVE  all
  <2> DEFINE t == Head(walk.todo)
             c == ConnOf(t)
             r == IF IsUnderTransaction(c) THEN Commit(c, TRUE, "ok") ELSE Result(c, {}, "true")
  <2>1. t \in Handles /\ list = <<t>> /\ ~strayed
    BY <1>2, RoundEnds DEF CommitRound
  <2>2. Got(t).conn = c /\ Got(t).threw = FALSE
    BY <1>2, <2>1, GotEffect
  <2>3. conns' = WithConn(t, r.conn) /\ db' = db \cup r.made
    BY <1>2, <2>2 DEF CommitRound
  <2>4. c \in Sound
    BY <1>2, <2>1, ConnOfSound
  <2>5. c.active => c.open
    BY <2>4 DEF Sound, Counted
  <2>6. \/ r = Commit(c, TRUE, "ok")
        \/ ~c.active /\ r.conn = c
    BY <2>5 DEF IsUnderTransaction, Result
  <2> HIDE DEF r, t
  <2> QED BY <1>2, <2>1, <2>3, <2>6, CommitKeepsAll DEF all
<1>3. CountInv /\ HeapInv /\ FlagInv /\ PendInv => [good]_vars
  BY <1>1, <1>2 DEF commits
<1> HIDE DEF good
<1>4. Spec => [][good]_vars
  BY <1>3, InitCount, InitHeap, InitFlags, InitPend, CountStep, HeapStep, FlagStep, HookStep,
     PendStep, PTL DEF Spec
<1> QED BY <1>4 DEF CommitIsForGood, good, commits, all
=============================================================================
