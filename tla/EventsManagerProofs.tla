------------------------ MODULE EventsManagerProofs ------------------------
(***************************************************************************)
(* Proofs about the events manager (EventsManager): any listeners, any     *)
(* priorities, any nesting of fire() calls, any number of calls that       *)
(* attach and detach listeners.                                            *)
(***************************************************************************)
EXTENDS EventsManager, SequenceTheorems, WellFoundedInduction, TLAPS

Types ==
    /\ listening \in BOOLEAN
    /\ events \in [Keys -> 0 .. MaxQueues]
    /\ queues \in [Ids -> Queue]
    /\ enablePriorities \in BOOLEAN /\ collect \in BOOLEAN
    /\ responses \in Seq(Handlers)
    /\ frames \in Seq(FrameType)
    /\ blundered \in BOOLEAN /\ changes \in 0 .. MaxChanges

\* What a call has still to fire: the queues its array names, in order.
TodoInv(f) ==
    /\ f.todo \in {<<>>, <<"type">>, <<"event">>, <<"type", "event">>}
    /\ f.todo \in {<<"type">>, <<"type", "event">>} =>
          f.snap["type"] # 0 /\ f.left = {} /\ f.running = None /\ ~f.stopped /\ f.late = 0
    /\ f.todo \in {<<"event">>, <<"type", "event">>} => f.snap["event"] # 0
    /\ f.todo = <<"type">> => f.snap["event"] = 0
    /\ f.todo = <<"event">> /\ (f.left # {} \/ f.running # None \/ f.stopped) =>
          f.snap["type"] # 0

\* A stopped event reaches the second queue at most, and one listener there.
StopInv(f) ==
    /\ f.stopped => f.cancelable
    /\ f.stopped /\ f.left # {} /\ f.running = None =>
          f.snap["type"] # 0 /\ f.todo = <<>> /\ f.late = 0
    /\ f.late = 0 \/ (f.late = 1 /\ f.stopped /\ f.snap["type"] # 0 /\ f.todo = <<>>)

FramesInv == \A i \in DOMAIN frames : TodoInv(frames[i]) /\ StopInv(frames[i])

----------------------------------------------------------------------------
(* The stack of calls *)

LEMMA TopFrame ==
    ASSUME frames \in Seq(FrameType), frames # <<>>
    PROVE  /\ Len(frames) \in DOMAIN frames /\ DOMAIN frames = 1 .. Len(frames)
           /\ Top = frames[Len(frames)] /\ Top \in FrameType
BY DEF Top, Last

LEMMA FrontOfFrames ==
    ASSUME frames \in Seq(FrameType), frames # <<>>
    PROVE  /\ Len(frames) \in Nat \ {0}
           /\ Front(frames) \in Seq(FrameType) /\ Len(Front(frames)) = Len(frames) - 1
           /\ \A i \in 1 .. Len(frames) - 1 : Front(frames)[i] = frames[i]
<1>1. Len(frames) \in Nat \ {0}
  OBVIOUS
<1> DEFINE n == Len(frames) - 1
<1>2. SubSeq(frames, 1, n) \in Seq(FrameType)
  BY <1>1
<1>3. /\ Len(SubSeq(frames, 1, n)) = n
      /\ \A i \in 1 .. n : SubSeq(frames, 1, n)[i] = frames[i]
  <2>1. n \in Nat /\ \A i \in 1 .. n : frames[i] \in FrameType
    BY <1>1
  <2> HIDE DEF n
  <2>2. \A i \in 1 .. n : 1 + i - 1 = i
    OBVIOUS
  <2> QED
    BY <2>1, <2>2, SubSeqProperties
<1> QED
  BY <1>1, <1>2, <1>3 DEF Front

LEMMA SetTopFrames ==
    ASSUME frames \in Seq(FrameType), frames # <<>>, NEW f \in FrameType, SetTop(f)
    PROVE  /\ frames' \in Seq(FrameType) /\ DOMAIN frames' = DOMAIN frames
           /\ Len(frames') = Len(frames)
           /\ frames'[Len(frames)] = f
           /\ \A i \in DOMAIN frames : frames'[i] = IF i = Len(frames) THEN f ELSE frames[i]
<1>1. /\ Front(frames) \in Seq(FrameType) /\ Len(Front(frames)) = Len(frames) - 1
      /\ \A i \in 1 .. Len(frames) - 1 : Front(frames)[i] = frames[i]
  BY FrontOfFrames
<1>2. frames' = Append(Front(frames), f)
  BY DEF SetTop
<1>3. Len(frames) \in Nat \ {0}
  OBVIOUS
<1> QED
  BY <1>1, <1>2, <1>3

LEMMA FrontFrames ==
    ASSUME frames \in Seq(FrameType), frames # <<>>, frames' = Front(frames)
    PROVE  /\ frames' \in Seq(FrameType) /\ DOMAIN frames' \subseteq DOMAIN frames
           /\ Len(frames') = Len(frames) - 1 /\ Len(frames) \in Nat
           /\ DOMAIN frames' = 1 .. Len(frames) - 1
           /\ \A i \in DOMAIN frames' : frames'[i] = frames[i]
BY FrontOfFrames

\* The frames after a call that only touches their history.
Touched == 
    /\ frames' \in Seq(FrameType) /\ DOMAIN frames' = DOMAIN frames
    /\ \A i \in DOMAIN frames :
          /\ frames'[i].cancelable = frames[i].cancelable
          /\ frames'[i].stopped = frames[i].stopped
          /\ frames'[i].snap = frames[i].snap
          /\ frames'[i].todo = frames[i].todo
          /\ frames'[i].left = frames[i].left
          /\ frames'[i].both = frames[i].both
          /\ frames'[i].collecting = frames[i].collecting
          /\ frames'[i].running = frames[i].running
          /\ frames'[i].late = frames[i].late
          /\ frames'[i].own = frames[i].own
          /\ frames'[i].due \subseteq frames[i].due

\* A call with less that is due, or with a disturbance.
LEMMA HistoryOfFrame ==
    ASSUME NEW f \in FrameType, NEW due \in SUBSET f.due
    PROVE  /\ [f EXCEPT !.due = due] \in FrameType
           /\ [f EXCEPT !.disturbed = TRUE] \in FrameType
<1>1. due \in SUBSET [key : Keys, handler : Handlers]
  BY DEF FrameType
<1> QED
  BY <1>1 DEF FrameType

LEMMA TouchedAll ==
    ASSUME frames \in Seq(FrameType), NEW due,
           \A i \in DOMAIN frames : due[i] \subseteq frames[i].due,
           frames' = [i \in DOMAIN frames |-> [frames[i] EXCEPT !.due = due[i]]]
    PROVE  /\ Touched
           /\ \A i \in DOMAIN frames :
                 frames'[i].due = due[i] /\ frames'[i].disturbed = frames[i].disturbed
<1>1. DOMAIN frames = 1 .. Len(frames) /\ Len(frames) \in Nat
  OBVIOUS
<1>2. \A i \in DOMAIN frames :
          /\ frames[i] \in FrameType
          /\ frames'[i] = [frames[i] EXCEPT !.due = due[i]]
  BY <1>1
<1>3. \A i \in DOMAIN frames : frames'[i] \in FrameType
  BY <1>2, HistoryOfFrame
<1>4. DOMAIN frames' = DOMAIN frames /\ frames' \in Seq(FrameType)
  BY <1>1, <1>3
<1>5. \A i \in DOMAIN frames :
         /\ frames'[i].cancelable = frames[i].cancelable
         /\ frames'[i].stopped = frames[i].stopped
         /\ frames'[i].snap = frames[i].snap
         /\ frames'[i].todo = frames[i].todo
         /\ frames'[i].left = frames[i].left
         /\ frames'[i].both = frames[i].both
         /\ frames'[i].collecting = frames[i].collecting
         /\ frames'[i].running = frames[i].running
         /\ frames'[i].late = frames[i].late
         /\ frames'[i].own = frames[i].own
         /\ frames'[i].due = due[i]
         /\ frames'[i].disturbed = frames[i].disturbed
  <2> SUFFICES ASSUME NEW i \in DOMAIN frames,
                      NEW f \in FrameType, NEW g, f = frames[i], g = frames'[i]
               PROVE  /\ g.cancelable = f.cancelable /\ g.stopped = f.stopped
                      /\ g.snap = f.snap /\ g.todo = f.todo /\ g.left = f.left
                      /\ g.both = f.both /\ g.collecting = f.collecting
                      /\ g.running = f.running /\ g.late = f.late /\ g.own = f.own
                      /\ g.due = due[i] /\ g.disturbed = f.disturbed
    BY <1>2
  <2>1. g = [f EXCEPT !.due = due[i]]
    BY <1>2
  <2> QED
    BY <2>1 DEF FrameType
<1> QED
  BY <1>4, <1>5 DEF Touched

LEMMA NoLongerDueTouches ==
    ASSUME frames \in Seq(FrameType), NEW k, NEW gone, frames' = NoLongerDue(k, gone)
    PROVE  /\ Touched
           /\ \A i \in DOMAIN frames :
                 /\ frames'[i].due = {d \in frames[i].due : ~(d.key = k /\ d.handler \in gone)}
                 /\ (frames'[i].disturbed <=> frames[i].disturbed)
<1> DEFINE due == [i \in DOMAIN frames |->
                      {d \in frames[i].due : ~(d.key = k /\ d.handler \in gone)}]
<1>1. frames' = [i \in DOMAIN frames |-> [frames[i] EXCEPT !.due = due[i]]]
  BY DEF NoLongerDue
<1>2. \A i \in DOMAIN frames : due[i] \subseteq frames[i].due
  OBVIOUS
<1>3. \A i \in DOMAIN frames :
         due[i] = {d \in frames[i].due : ~(d.key = k /\ d.handler \in gone)}
  OBVIOUS
<1> HIDE DEF due
<1>4. /\ Touched
      /\ \A i \in DOMAIN frames :
            frames'[i].due = due[i] /\ frames'[i].disturbed = frames[i].disturbed
  BY <1>1, <1>2, TouchedAll
<1> QED
  BY <1>3, <1>4

LEMMA NothingDueTouches ==
    ASSUME frames \in Seq(FrameType),
           frames' = [i \in DOMAIN frames |-> [frames[i] EXCEPT !.due = {}]]
    PROVE  /\ Touched
           /\ \A i \in DOMAIN frames :
                 frames'[i].due = {} /\ (frames'[i].disturbed <=> frames[i].disturbed)
<1> DEFINE due == [i \in DOMAIN frames |-> {}]
<1>1. frames' = [i \in DOMAIN frames |-> [frames[i] EXCEPT !.due = due[i]]]
  OBVIOUS
<1>2. \A i \in DOMAIN frames : due[i] \subseteq frames[i].due /\ due[i] = {}
  OBVIOUS
<1> HIDE DEF due
<1>3. /\ Touched
      /\ \A i \in DOMAIN frames :
            frames'[i].due = due[i] /\ frames'[i].disturbed = frames[i].disturbed
  BY <1>1, <1>2, TouchedAll
<1> QED
  BY <1>2, <1>3

\* The same for history that nothing here depends on.
Disturbed == [i \in DOMAIN frames |-> [frames[i] EXCEPT !.disturbed = TRUE]]

LEMMA DisturbedAll ==
    ASSUME frames \in Seq(FrameType)
    PROVE  /\ Disturbed \in Seq(FrameType) /\ DOMAIN Disturbed = DOMAIN frames
           /\ Len(Disturbed) = Len(frames)
           /\ \A i \in DOMAIN frames :
                 /\ Disturbed[i].cancelable = frames[i].cancelable
                 /\ Disturbed[i].stopped = frames[i].stopped
                 /\ Disturbed[i].snap = frames[i].snap
                 /\ Disturbed[i].todo = frames[i].todo
                 /\ Disturbed[i].left = frames[i].left
                 /\ Disturbed[i].both = frames[i].both
                 /\ Disturbed[i].running = frames[i].running
                 /\ Disturbed[i].due = frames[i].due
                 /\ Disturbed[i].late = frames[i].late
                 /\ Disturbed[i].collecting = frames[i].collecting
                 /\ Disturbed[i].own = frames[i].own
                 /\ Disturbed[i].disturbed
<1>1. DOMAIN frames = 1 .. Len(frames) /\ Len(frames) \in Nat
  OBVIOUS
<1>2. \A i \in DOMAIN frames :
          /\ frames[i] \in FrameType
          /\ Disturbed[i] = [frames[i] EXCEPT !.disturbed = TRUE]
  BY <1>1 DEF Disturbed
<1>3. \A i \in DOMAIN frames : Disturbed[i] \in FrameType
  BY <1>2, HistoryOfFrame
<1>4. DOMAIN Disturbed = DOMAIN frames /\ Disturbed \in Seq(FrameType)
      /\ Len(Disturbed) = Len(frames)
  BY <1>1, <1>3 DEF Disturbed
<1>5. ASSUME NEW i \in DOMAIN frames, NEW f \in FrameType, NEW g,
             f = frames[i], g = Disturbed[i]
      PROVE  /\ g.cancelable = f.cancelable /\ g.stopped = f.stopped
             /\ g.snap = f.snap /\ g.todo = f.todo /\ g.left = f.left
             /\ g.both = f.both /\ g.collecting = f.collecting
             /\ g.running = f.running /\ g.late = f.late /\ g.own = f.own
             /\ g.due = f.due /\ g.disturbed
  <2>1. g = [f EXCEPT !.disturbed = TRUE]
    BY <1>2, <1>5
  <2> QED
    BY <2>1 DEF FrameType
<1> QED
  BY <1>2, <1>4, <1>5

----------------------------------------------------------------------------
(* What the frames keep in every step *)

LEMMA TouchedKeeps ==
    ASSUME frames \in Seq(FrameType), FramesInv, Touched
    PROVE  frames' \in Seq(FrameType) /\ FramesInv'
BY DEF Touched, FramesInv, TodoInv, StopInv

LEMMA FrontKeeps ==
    ASSUME frames \in Seq(FrameType), frames # <<>>, FramesInv, frames' = Front(frames)
    PROVE  frames' \in Seq(FrameType) /\ FramesInv'
BY FrontFrames DEF FramesInv

LEMMA TopKeeps ==
    ASSUME frames \in Seq(FrameType), frames # <<>>, FramesInv,
           NEW f \in FrameType, TodoInv(f), StopInv(f), SetTop(f)
    PROVE  frames' \in Seq(FrameType) /\ FramesInv'
BY SetTopFrames DEF FramesInv

\* The parts of a frame.
LEMMA FrameParts ==
    ASSUME NEW f \in FrameType
    PROVE  /\ f.cancelable \in BOOLEAN /\ f.stopped \in BOOLEAN
           /\ f.snap \in [Keys -> 0 .. MaxQueues] /\ f.todo \in Seq(Keys)
           /\ f.left \in SUBSET Listener /\ f.both \in BOOLEAN
           /\ f.collecting \in BOOLEAN /\ f.running \in Handlers \cup {None}
           /\ f.due \in SUBSET [key : Keys, handler : Handlers]
           /\ f.late \in Nat /\ f.own \in Seq(Handlers) /\ f.disturbed \in BOOLEAN
BY DEF FrameType

\* What is fired next, and what is to be fired after it.
LEMMA NextTodo ==
    ASSUME NEW f \in FrameType, TodoInv(f), f.todo # <<>>
    PROVE  /\ Head(f.todo) \in Keys /\ f.snap[Head(f.todo)] \in Ids
           /\ Tail(f.todo) \in Seq(Keys) /\ Tail(f.todo) \in {<<>>, <<"event">>}
           /\ Tail(f.todo) = <<"event">> <=> f.todo = <<"type", "event">>
           /\ Head(f.todo) = "event" <=> f.todo = <<"event">>
<1>1. CASE f.todo = <<"type">>
  <2>1. Head(f.todo) = "type" /\ Tail(f.todo) = <<>>
    BY <1>1
  <2> QED
    BY <1>1, <2>1, FrameParts DEF TodoInv, Keys, Ids
<1>2. CASE f.todo = <<"event">>
  <2>1. Head(f.todo) = "event" /\ Tail(f.todo) = <<>>
    BY <1>2
  <2> QED
    BY <1>2, <2>1, FrameParts DEF TodoInv, Keys, Ids
<1>3. CASE f.todo = <<"type", "event">>
  <2>1. Head(f.todo) = "type" /\ Tail(f.todo) = <<"event">>
    BY <1>3
  <2> QED
    BY <1>3, <2>1, FrameParts DEF TodoInv, Keys, Ids
<1> QED
  BY <1>1, <1>2, <1>3 DEF TodoInv

\* The frame once fireQueue() has cloned its next queue.
AfterOpening(f) ==
    [f EXCEPT !.todo = Tail(f.todo),
              !.left = queues[f.snap[Head(f.todo)]].items,
              !.both = queues[f.snap[Head(f.todo)]].both,
              !.collecting = collect]

LEMMA OpenedFrame ==
    ASSUME Types, NEW f \in FrameType, TodoInv(f), StopInv(f), f.todo # <<>>,
           f.left = {}, f.running = None,
           NEW g, g = AfterOpening(f)
    PROVE  /\ g \in FrameType /\ TodoInv(g) /\ StopInv(g)
           /\ g.todo = Tail(f.todo) /\ g.left = queues[f.snap[Head(f.todo)]].items
           /\ g.both = queues[f.snap[Head(f.todo)]].both /\ g.collecting = collect
           /\ g.snap = f.snap /\ g.running = None /\ g.due = f.due /\ g.own = f.own
           /\ (g.disturbed <=> f.disturbed) /\ (g.stopped <=> f.stopped)
<1> DEFINE q == queues[f.snap[Head(f.todo)]]
           t == Tail(f.todo)
<1>1. q.items \in SUBSET Listener /\ q.both \in BOOLEAN /\ collect \in BOOLEAN
  BY NextTodo DEF Types, Queue
<1>2. t \in Seq(Keys)
  BY NextTodo
<1> HIDE DEF q, t
<1>3. g = [f EXCEPT !.todo = t, !.left = q.items, !.both = q.both, !.collecting = collect]
  BY DEF q, t, AfterOpening
<1>4. g \in FrameType
  BY <1>1, <1>2, <1>3 DEF FrameType
<1>5. /\ g.todo = t /\ g.left = q.items /\ g.both = q.both /\ g.collecting = collect
      /\ g.cancelable = f.cancelable
      /\ g.stopped = f.stopped /\ g.snap = f.snap /\ g.running = f.running
      /\ g.due = f.due /\ g.late = f.late /\ g.own = f.own /\ g.disturbed = f.disturbed
  BY <1>3 DEF FrameType
<1>6. /\ <<"event">> # <<"type">> /\ <<"event">> # <<"type", "event">>
      /\ <<>> # <<"type">> /\ <<>> # <<"type", "event">> /\ <<>> # <<"event">>
  OBVIOUS
<1>7. /\ t \in {<<>>, <<"event">>}
      /\ t = <<"event">> => f.todo = <<"type", "event">>
      /\ t = <<>> => f.todo \in {<<"type">>, <<"event">>}
  <2>1. t \in {<<>>, <<"event">>} /\ (t = <<"event">> <=> f.todo = <<"type", "event">>)
    BY NextTodo DEF t
  <2> QED
    BY <1>6, <2>1 DEF TodoInv
<1>8. TodoInv(g)
  BY <1>5, <1>6, <1>7 DEF TodoInv
<1>9. StopInv(g)
  <2>1. f.late = 0
    BY <1>6, <1>7 DEF TodoInv, StopInv
  <2>2. f.stopped => f.todo = <<"event">> /\ f.snap["type"] # 0
    BY <1>6, <1>7 DEF TodoInv
  <2>3. f.stopped => t = <<>>
    BY <1>6, <1>7, <2>2
  <2> QED
    BY <1>5, <2>1, <2>2, <2>3 DEF StopInv
<1> QED
  BY <1>4, <1>5, <1>8, <1>9 DEF q, t

\* The frame once current() has answered an element of the clone.
LEMMA TakenFrame ==
    ASSUME NEW f \in FrameType, TodoInv(f), StopInv(f), f.running = None,
           NEW x \in f.left
    PROVE  /\ Passed(f, x) \in FrameType /\ TodoInv(Passed(f, x)) /\ StopInv(Passed(f, x))
           /\ Called(f, x) \in FrameType /\ TodoInv(Called(f, x)) /\ StopInv(Called(f, x))
<1>1. x.handler \in Handlers /\ x.handler # None
  BY FrameParts, HandlersAssumption DEF Listener
<1>2. f.left # {} /\ f.left \ {x} \in SUBSET Listener
  BY FrameParts
<1>3. TodoInv(f) => f.todo \in {<<>>, <<"event">>}
  BY <1>2 DEF TodoInv
<1>4. /\ <<"event">> # <<"type">> /\ <<"event">> # <<"type", "event">>
      /\ <<>> # <<"type">> /\ <<>> # <<"type", "event">> /\ <<>> # <<"event">>
  OBVIOUS
<1>5. ASSUME NEW g, g = Passed(f, x)
      PROVE  g \in FrameType /\ TodoInv(g) /\ StopInv(g)
  <2>1. g \in FrameType
    BY <1>2, <1>5 DEF Passed, FrameType
  <2>2. /\ g.todo = f.todo /\ g.left = f.left \ {x} /\ g.cancelable = f.cancelable
        /\ g.stopped = f.stopped /\ g.snap = f.snap /\ g.running = f.running
        /\ g.late = f.late
    BY <1>5 DEF Passed, FrameType
  <2> QED
    BY <1>2, <1>3, <1>4, <2>1, <2>2 DEF TodoInv, StopInv
<1>6. ASSUME NEW g, g = Called(f, x)
      PROVE  g \in FrameType /\ TodoInv(g) /\ StopInv(g)
  <2> DEFINE due  == f.due \ {[key |-> FiredKey(f), handler |-> x.handler]}
             late == f.late + (IF f.stopped THEN 1 ELSE 0)
  <2>1. due \in SUBSET [key : Keys, handler : Handlers] /\ late \in Nat
    BY FrameParts
  <2>2. late = IF f.stopped THEN f.late + 1 ELSE f.late
    BY FrameParts
  <2>3. g = [f EXCEPT !.left = f.left \ {x}, !.running = x.handler, !.due = due, !.late = late]
    BY <1>6 DEF Called
  <2> HIDE DEF due, late
  <2>4. g \in FrameType
    BY <1>1, <1>2, <2>1, <2>3 DEF FrameType
  <2>5. /\ g.todo = f.todo /\ g.left = f.left \ {x} /\ g.cancelable = f.cancelable
        /\ g.stopped = f.stopped /\ g.snap = f.snap /\ g.running = x.handler
        /\ g.late = late
    BY <2>3 DEF FrameType
  <2>6. StopInv(g)
    <3>1. CASE f.stopped
      BY <1>1, <1>2, <2>2, <2>5, <3>1 DEF StopInv
    <3>2. CASE ~f.stopped
      BY <2>2, <2>5, <3>2 DEF StopInv
    <3> QED
      BY <3>1, <3>2
  <2>7. TodoInv(g)
    BY <1>2, <1>3, <1>4, <2>5 DEF TodoInv
  <2> QED
    BY <2>4, <2>6, <2>7
<1> QED
  BY <1>5, <1>6

\* The frame after its listener has stopped the event, and has returned.
LEMMA HeardFrame ==
    ASSUME NEW f \in FrameType, TodoInv(f), StopInv(f), f.running # None
    PROVE  /\ f.cancelable => LET g == [f EXCEPT !.stopped = TRUE]
                              IN  g \in FrameType /\ TodoInv(g) /\ StopInv(g)
           /\ \A own \in Seq(Handlers) :
                 LET g == [f EXCEPT !.running = None, !.left = LeftAfter(f), !.own = own]
                 IN  g \in FrameType /\ TodoInv(g) /\ StopInv(g)
<1>1. f.todo \in {<<>>, <<"event">>}
  BY DEF TodoInv
<1>2. /\ <<"event">> # <<"type">> /\ <<"event">> # <<"type", "event">>
      /\ <<>> # <<"type">> /\ <<>> # <<"type", "event">> /\ <<>> # <<"event">>
  OBVIOUS
<1>3. ASSUME f.cancelable, NEW g, g = [f EXCEPT !.stopped = TRUE]
      PROVE  g \in FrameType /\ TodoInv(g) /\ StopInv(g)
  <2>1. g \in FrameType
    BY <1>3 DEF FrameType
  <2>2. /\ g.todo = f.todo /\ g.left = f.left /\ g.cancelable = f.cancelable
        /\ g.stopped = TRUE /\ g.snap = f.snap /\ g.running = f.running
        /\ g.late = f.late
    BY <1>3 DEF FrameType
  <2> QED
    BY <1>1, <1>2, <1>3, <2>1, <2>2 DEF TodoInv, StopInv
<1>4. ASSUME NEW own \in Seq(Handlers), NEW g,
             g = [f EXCEPT !.running = None, !.left = LeftAfter(f), !.own = own]
      PROVE  g \in FrameType /\ TodoInv(g) /\ StopInv(g)
  <2>1. LeftAfter(f) \in SUBSET Listener
    BY FrameParts DEF LeftAfter
  <2>2. f.stopped => LeftAfter(f) = {}
    BY DEF LeftAfter, StopInv
  <2>3. g \in FrameType
    BY <1>4, <2>1 DEF FrameType
  <2>4. /\ g.todo = f.todo /\ g.left = LeftAfter(f) /\ g.cancelable = f.cancelable
        /\ g.stopped = f.stopped /\ g.snap = f.snap /\ g.running = None
        /\ g.late = f.late
    BY <1>4 DEF FrameType
  <2> QED
    BY <1>1, <1>2, <2>2, <2>3, <2>4 DEF TodoInv, StopInv
<1> QED
  BY <1>3, <1>4

\* The frame of a call that starts.
LEMMA NewFrame ==
    ASSUME Types, NEW cancelable \in BOOLEAN, NEW g, g = Frame(cancelable)
    PROVE  /\ g \in FrameType /\ TodoInv(g) /\ StopInv(g)
           /\ g.snap = events /\ g.todo = KeysIn(events) /\ g.left = {} /\ ~g.both
           /\ ~g.collecting /\ g.running = None /\ g.due = Hearing(DueIn(events))
           /\ g.own = <<>> /\ ~g.disturbed /\ ~g.stopped
           /\ events["type"] # 0 => g.todo \in {<<"type">>, <<"type", "event">>}
           /\ events["event"] # 0 => g.todo \in {<<"event">>, <<"type", "event">>}
<1> DEFINE due  == Hearing(DueIn(events))
           todo == KeysIn(events)
<1>1. due \in SUBSET [key : Keys, handler : Handlers]
  <2>1. \A k \in Keys : events[k] # 0 => queues[events[k]].items \subseteq Listener
    BY DEF Types, Queue, Ids
  <2> QED
    BY <2>1 DEF Hearing, DueIn, Listener
<1>2. /\ <<"type">> \o <<"event">> = <<"type", "event">>
      /\ <<"type">> \o <<>> = <<"type">> /\ <<>> \o <<"event">> = <<"event">>
      /\ <<>> \o <<>> = <<>>
  <2>1. <<"type">> \in Seq(Keys) /\ <<"event">> \in Seq(Keys) /\ <<>> \in Seq(Keys)
    BY DEF Keys
  <2>2. /\ <<"type">> \o <<>> = <<"type">> /\ <<>> \o <<"event">> = <<"event">>
        /\ <<>> \o <<>> = <<>>
    BY <2>1, ConcatEmptySeq
  <2>3. <<"type">> \o <<"event">> = <<"type", "event">>
    <3> DEFINE both == <<"type">> \o <<"event">>
    <3>1. both \in Seq(Keys) /\ Len(both) = 2 /\ both[1] = "type" /\ both[2] = "event"
      <4>1. Len(<<"type">>) = 1 /\ Len(<<"event">>) = 1
        OBVIOUS
      <4>2. \A i \in 1 .. 2 : both[i] = IF i <= 1 THEN <<"type">>[i] ELSE <<"event">>[i - 1]
        BY <2>1, <4>1, ConcatProperties
      <4>3. both \in Seq(Keys) /\ Len(both) = 2
        BY <2>1, <4>1, ConcatProperties
      <4> HIDE DEF both
      <4> QED
        BY <4>2, <4>3
    <3>2. <<"type", "event">> \in Seq(Keys) /\ Len(<<"type", "event">>) = 2
      BY DEF Keys
    <3> HIDE DEF both
    <3>3. both = <<"type", "event">>
      <4>1. \A i \in 1 .. 2 : both[i] = <<"type", "event">>[i]
        BY <3>1
      <4> QED
        BY <3>1, <3>2, <4>1, SeqEqual
    <3> QED
      BY <3>3 DEF both
  <2> QED
    BY <2>2, <2>3
<1>3. /\ events["type"] # 0 /\ events["event"] # 0 => todo = <<"type", "event">>
      /\ events["type"] # 0 /\ events["event"] = 0 => todo = <<"type">>
      /\ events["type"] = 0 /\ events["event"] # 0 => todo = <<"event">>
      /\ events["type"] = 0 /\ events["event"] = 0 => todo = <<>>
  BY <1>2 DEF KeysIn
<1>4. <<"type", "event">> \in Seq(Keys) /\ <<"type">> \in Seq(Keys)
      /\ <<"event">> \in Seq(Keys) /\ <<>> \in Seq(Keys)
  BY DEF Keys
<1>5. todo \in Seq(Keys)
  BY <1>3, <1>4
<1>6. /\ <<"event">> # <<"type">> /\ <<"event">> # <<"type", "event">>
      /\ <<>> # <<"type">> /\ <<>> # <<"type", "event">> /\ <<>> # <<"event">>
      /\ <<"type">> # <<"type", "event">>
  OBVIOUS
<1> HIDE DEF due, todo
<1>7. g = [cancelable |-> cancelable, stopped |-> FALSE, snap |-> events,
           todo |-> todo, left |-> {}, both |-> FALSE, collecting |-> FALSE,
           running |-> None, due |-> due, late |-> 0, own |-> <<>>,
           disturbed |-> FALSE]
  BY DEF Frame, due, todo
<1>8. g \in FrameType
  BY <1>1, <1>5, <1>7 DEF FrameType, Types
<1>9. TodoInv(g)
  BY <1>3, <1>6, <1>7 DEF TodoInv
<1>10. StopInv(g)
  BY <1>7 DEF StopInv
<1> QED
  BY <1>3, <1>7, <1>8, <1>9, <1>10 DEF due, todo

\* The key whose queue a call is in is one of its array.
LEMMA UnusedId ==
    ASSUME Unused # {}
    PROVE  NewId \in Unused
<1> DEFINE Less == OpToRel(<, Nat)
<1>1. Unused \subseteq Nat
  BY DEF Unused, Ids
<1>2. IsWellFoundedOn(Less, Nat)
  BY NatLessThanWellFounded
<1>3. \E q \in Unused : \A r \in Unused : ~ (<<r, q>> \in Less)
  <2> HIDE DEF Less
  <2> QED BY <1>1, <1>2, WFMin
<1>4. \E q \in Unused : \A r \in Unused : q <= r
  <2>1. PICK q \in Unused : \A r \in Unused : ~ (<<r, q>> \in Less)
    BY <1>3
  <2>2. \A r \in Unused : q <= r
    <3> SUFFICES ASSUME NEW r \in Unused, ~(q <= r) PROVE FALSE
      OBVIOUS
    <3>1. r < q /\ r \in Nat /\ q \in Nat
      BY <1>1
    <3>2. <<r, q>> \in Less
      BY <3>1 DEF OpToRel
    <3> QED
      BY <2>1, <3>2
  <2> QED
    BY <2>2
<1> QED
  BY <1>4 DEF NewId

LEMMA KeptType ==
    ASSUME NEW qs \in [Ids -> Queue], NEW evs, NEW frs
    PROVE  /\ Kept(qs, evs, frs) \in [Ids -> Queue]
           /\ \A q \in Ids : Kept(qs, evs, frs)[q] =
                 IF q \in Referred(evs, frs) THEN qs[q] ELSE EmptyQueue
BY DEF Kept, Queue, EmptyQueue

----------------------------------------------------------------------------
(* Types, and what is still to be fired, in every step *)

Shapes == Types /\ FramesInv

LEMMA InitShapes == Init => Shapes
<1> SUFFICES ASSUME Init PROVE Shapes
  OBVIOUS
<1>1. events \in [Keys -> 0 .. MaxQueues] /\ changes \in 0 .. MaxChanges
  BY MoreBoundsAssumption DEF Init
<1>2. queues \in [Ids -> Queue]
  BY DEF Init, Queue, EmptyQueue
<1>3. frames \in Seq(FrameType) /\ DOMAIN frames = {}
  BY DEF Init
<1>4. FramesInv
  BY <1>3 DEF FramesInv
<1>5. responses \in Seq(Handlers) /\ listening = FALSE /\ enablePriorities = FALSE
      /\ collect \in BOOLEAN /\ blundered = FALSE
  BY DEF Init
<1> QED
  BY <1>1, <1>2, <1>3, <1>4, <1>5 DEF Shapes, Types

\* Calls that attach, detach or set a flag.
LEMMA ChangeShapes ==
    ASSUME Shapes
    PROVE  /\ \A k \in Keys, h \in Handlers, p \in Priorities : Attach(k, h, p) => Shapes'
           /\ \A k \in Keys, h \in Handlers : Detach(k, h) => Shapes'
           /\ \A k \in Keys : DetachThrows(k) \/ DetachAllOf(k) => Shapes'
           /\ DetachAll => Shapes'
           /\ \A on \in BOOLEAN : EnablePriorities(on) \/ CollectResponses(on) => Shapes'
<1>1. Types /\ FramesInv /\ frames \in Seq(FrameType)
  BY DEF Shapes, Types
<1>2. Change => changes' \in 0 .. MaxChanges
  BY <1>1, MoreBoundsAssumption DEF Change, Types
<1>3. frames' = frames => FramesInv' /\ frames' \in Seq(FrameType)
  BY <1>1 DEF FramesInv
<1>4. ASSUME NEW k \in Keys, NEW h \in Handlers, NEW p \in Priorities, Attach(k, h, p)
      PROVE  Shapes'
  <2> DEFINE q == IF events[k] # 0 THEN events[k] ELSE NewId
             x == Attached(h, p)
  <2>1. x \in Listener
    BY <1>1 DEF Attached, Listener
  <2>2. q \in Ids
    BY <1>1, <1>4, UnusedId DEF Attach, Types, Unused, Ids
  <2>3. /\ events' = [events EXCEPT ![k] = q]
        /\ queues' = [queues EXCEPT ![q].items = @ \cup {x}]
        /\ listening' = TRUE /\ changes' \in 0 .. MaxChanges
        /\ UNCHANGED <<flags, responses, frames, blundered>>
    BY <1>2, <1>4 DEF Attach
  <2> HIDE DEF q, x
  <2>4. events' \in [Keys -> 0 .. MaxQueues]
    BY <1>1, <2>2, <2>3 DEF Types, Ids
  <2>5. queues' \in [Ids -> Queue]
    BY <1>1, <2>1, <2>2, <2>3 DEF Types, Queue
  <2> QED
    BY <1>1, <1>3, <2>3, <2>4, <2>5 DEF Shapes, Types, flags
<1>5. ASSUME NEW k \in Keys, NEW h \in Handlers, Detach(k, h)
      PROVE  Shapes'
  <2> DEFINE new == [queues EXCEPT
                 ![events[k]] = [items |-> {}, both |-> TRUE],
                 ![NewId] = [items |-> {x \in queues[events[k]].items : x.handler # h},
                             both |-> FALSE]]
  <2>1. NewId \in Ids /\ events[k] \in Ids
    BY <1>1, <1>5, UnusedId DEF Detach, Types, Unused, Ids
  <2>2. new \in [Ids -> Queue]
    BY <1>1, <2>1 DEF Types, Queue
  <2>3. events' = [events EXCEPT ![k] = NewId] /\ queues' = Kept(new, events', frames')
    BY <1>5 DEF Detach, Relisted
  <2>4. queues' \in [Ids -> Queue]
    BY <2>2, <2>3, KeptType
  <2>5. events' \in [Keys -> 0 .. MaxQueues]
    BY <1>1, <2>1, <2>3 DEF Types, Ids
  <2>6. frames' \in Seq(FrameType) /\ FramesInv'
    BY <1>1, <1>5, NoLongerDueTouches, TouchedKeeps DEF Detach
  <2> QED
    BY <1>1, <1>2, <1>5, <2>4, <2>5, <2>6 DEF Detach, Shapes, Types, flags
<1>6. ASSUME NEW k \in Keys, DetachThrows(k)
      PROVE  Shapes'
  <2>1. /\ events[k] \in Ids /\ queues' = [queues EXCEPT ![events[k]].both = TRUE]
        /\ changes' \in 0 .. MaxChanges /\ blundered' = TRUE
        /\ UNCHANGED <<listening, events, flags, responses, frames>>
    BY <1>1, <1>2, <1>6 DEF DetachThrows, Types, Ids
  <2>2. queues' \in [Ids -> Queue]
    BY <1>1, <2>1 DEF Types, Queue
  <2> QED
    BY <1>1, <1>3, <2>1, <2>2 DEF Shapes, Types, flags
<1>7. ASSUME NEW k \in Keys, DetachAllOf(k)
      PROVE  Shapes'
  <2>1. frames' \in Seq(FrameType) /\ FramesInv'
    BY <1>1, <1>7, NoLongerDueTouches, TouchedKeeps DEF DetachAllOf
  <2>2. events' \in [Keys -> 0 .. MaxQueues]
    BY <1>1, <1>7, MoreBoundsAssumption DEF DetachAllOf, Types
  <2>3. queues' \in [Ids -> Queue]
    BY <1>1, <1>7, KeptType DEF DetachAllOf, Types
  <2> QED
    BY <1>1, <1>2, <1>7, <2>1, <2>2, <2>3 DEF DetachAllOf, Shapes, Types, flags
<1>8. ASSUME DetachAll
      PROVE  Shapes'
  <2>1. frames' \in Seq(FrameType) /\ FramesInv'
    BY <1>1, <1>8, NothingDueTouches, TouchedKeeps DEF DetachAll
  <2>2. events' \in [Keys -> 0 .. MaxQueues]
    BY <1>1, <1>8, MoreBoundsAssumption DEF DetachAll
  <2>3. queues' \in [Ids -> Queue]
    BY <1>1, <1>8, KeptType DEF DetachAll, Types
  <2> QED
    BY <1>1, <1>2, <1>8, <2>1, <2>2, <2>3 DEF DetachAll, Shapes, Types, flags
<1>9. ASSUME NEW on \in BOOLEAN, EnablePriorities(on)
      PROVE  Shapes'
  BY <1>1, <1>2, <1>3, <1>9 DEF EnablePriorities, Shapes, Types
<1>10. ASSUME NEW on \in BOOLEAN, CollectResponses(on)
       PROVE  Shapes'
  <2>1. /\ frames' \in Seq(FrameType) /\ DOMAIN frames' = DOMAIN frames
        /\ \A i \in DOMAIN frames :
              /\ frames'[i].cancelable = frames[i].cancelable
              /\ frames'[i].stopped = frames[i].stopped
              /\ frames'[i].snap = frames[i].snap
              /\ frames'[i].todo = frames[i].todo
              /\ frames'[i].left = frames[i].left
              /\ frames'[i].running = frames[i].running
              /\ frames'[i].late = frames[i].late
    <3>1. frames' = Disturbed
      BY <1>10 DEF CollectResponses, Disturbed
    <3> QED
      BY <1>1, <3>1, DisturbedAll
  <2>2. FramesInv'
    BY <1>1, <2>1 DEF FramesInv, TodoInv, StopInv
  <2> QED
    BY <1>1, <1>2, <1>10, <2>1, <2>2 DEF CollectResponses, Shapes, Types
<1> QED
  BY <1>4, <1>5, <1>6, <1>7, <1>8, <1>9, <1>10

\* The steps of fire(), and what a listener does.
LEMMA FireShapes ==
    ASSUME Shapes
    PROVE  /\ \A cancelable \in BOOLEAN : Fire(cancelable) => Shapes'
           /\ OpenQueue \/ CallNext \/ Stop \/ HandlerReturns => Shapes'
           /\ OpenThrows \/ FireReturns \/ HandlerThrows => Shapes'
<1>1. Types /\ FramesInv /\ frames \in Seq(FrameType)
  BY DEF Shapes, Types
<1>2. frames # <<>> => /\ Top \in FrameType /\ TodoInv(Top) /\ StopInv(Top)
  BY <1>1, TopFrame DEF FramesInv
<1>3. ASSUME NEW cancelable \in BOOLEAN, Fire(cancelable)
      PROVE  Shapes'
  <2> DEFINE g == Frame(cancelable)
  <2>1. /\ Disturbed \in Seq(FrameType) /\ DOMAIN Disturbed = DOMAIN frames
        /\ Len(Disturbed) = Len(frames)
        /\ \A i \in DOMAIN frames :
              /\ Disturbed[i].cancelable = frames[i].cancelable
              /\ Disturbed[i].stopped = frames[i].stopped
              /\ Disturbed[i].snap = frames[i].snap
              /\ Disturbed[i].todo = frames[i].todo
              /\ Disturbed[i].left = frames[i].left
              /\ Disturbed[i].running = frames[i].running
              /\ Disturbed[i].late = frames[i].late
    BY <1>1, DisturbedAll
  <2>2. g \in FrameType /\ TodoInv(g) /\ StopInv(g)
    BY <1>1, NewFrame
  <2>3. frames' = Append(Disturbed, g)
    BY <1>3 DEF Fire, Disturbed
  <2>4. responses' \in Seq(Handlers)
    BY <1>1, <1>3 DEF Fire, Types
  <2> HIDE DEF g
  <2>5. \A i \in DOMAIN frames : TodoInv(Disturbed[i]) /\ StopInv(Disturbed[i])
    BY <1>1, <2>1 DEF FramesInv, TodoInv, StopInv
  <2>6. frames' \in Seq(FrameType)
    BY <2>1, <2>2, <2>3
  <2>7. \A i \in DOMAIN frames' : frames'[i] = g \/ (i \in DOMAIN frames /\ frames'[i] = Disturbed[i])
    BY <2>1, <2>3
  <2>8. FramesInv'
    BY <2>2, <2>5, <2>7 DEF FramesInv
  <2> QED
    BY <1>1, <1>3, <2>4, <2>6, <2>8 DEF Fire, Shapes, Types, flags
<1>4. ASSUME frames # <<>>, NEW g \in FrameType, TodoInv(g), StopInv(g), SetTop(g),
             responses' \in Seq(Handlers),
             UNCHANGED <<listening, events, queues, flags, blundered, changes>>
      PROVE  Shapes'
  BY <1>1, <1>4, TopKeeps DEF Shapes, Types, flags
<1>5. ASSUME OpenQueue
      PROVE  Shapes'
  <2> DEFINE g == AfterOpening(Top)
  <2>1. frames # <<>> /\ Top.running = None /\ Top.left = {} /\ Top.todo # <<>>
    BY <1>5 DEF OpenQueue, Between
  <2>2. g \in FrameType /\ TodoInv(g) /\ StopInv(g)
    BY <1>1, <1>2, <2>1, OpenedFrame
  <2>3. SetTop(g) /\ responses' = responses
    BY <1>5 DEF OpenQueue, Opened, AfterOpening
  <2> HIDE DEF g
  <2> QED
    BY <1>1, <1>4, <1>5, <2>1, <2>2, <2>3 DEF OpenQueue, Types
<1>6. ASSUME CallNext
      PROVE  Shapes'
  <2>1. frames # <<>> /\ Top.running = None
    BY <1>6 DEF CallNext, Between
  <2>2. PICK x \in Highest(Top.left) : SetTop(Passed(Top, x)) \/ SetTop(Called(Top, x))
    BY <1>6 DEF CallNext
  <2>3. x \in Top.left
    BY DEF Highest
  <2>4. /\ Passed(Top, x) \in FrameType /\ TodoInv(Passed(Top, x)) /\ StopInv(Passed(Top, x))
        /\ Called(Top, x) \in FrameType /\ TodoInv(Called(Top, x)) /\ StopInv(Called(Top, x))
    BY <1>2, <2>1, <2>3, TakenFrame
  <2> QED
    BY <1>1, <1>4, <1>6, <2>1, <2>2, <2>4 DEF CallNext, Types
<1>7. ASSUME Stop
      PROVE  Shapes'
  <2> DEFINE g == [Top EXCEPT !.stopped = TRUE]
  <2>1. frames # <<>> /\ Top.running # None /\ Top.cancelable /\ SetTop(g)
    BY <1>7 DEF Stop
  <2>2. g \in FrameType /\ TodoInv(g) /\ StopInv(g)
    BY <1>2, <2>1, HeardFrame
  <2> HIDE DEF g
  <2> QED
    BY <1>1, <1>4, <1>7, <2>1, <2>2 DEF Stop, Types
<1>8. ASSUME HandlerReturns
      PROVE  Shapes'
  <2> DEFINE own == IF Top.collecting /\ ~Top.disturbed
                    THEN Append(Top.own, Top.running) ELSE Top.own
             g == [Top EXCEPT !.running = None, !.left = LeftAfter(Top), !.own = own]
  <2>1. frames # <<>> /\ Top.running # None /\ SetTop(g)
    BY <1>8 DEF HandlerReturns
  <2>2. Top.running \in Handlers /\ Top.own \in Seq(Handlers)
    BY <1>2, <2>1, FrameParts
  <2>3. own \in Seq(Handlers)
    BY <2>2
  <2>4. responses' \in Seq(Handlers)
    BY <1>1, <1>8, <2>2 DEF HandlerReturns, Types
  <2> HIDE DEF own
  <2>5. g \in FrameType /\ TodoInv(g) /\ StopInv(g)
    BY <1>2, <2>1, <2>3, HeardFrame
  <2> HIDE DEF g
  <2> QED
    BY <1>4, <1>8, <2>1, <2>4, <2>5 DEF HandlerReturns
<1>9. ASSUME OpenThrows \/ FireReturns \/ HandlerThrows
      PROVE  Shapes'
  <2>1. /\ frames # <<>> /\ Unwind
        /\ UNCHANGED <<listening, events, flags, responses, blundered, changes>>
    BY <1>9 DEF OpenThrows, FireReturns, HandlerThrows, Between
  <2>2. frames' \in Seq(FrameType) /\ FramesInv'
    BY <1>1, <2>1, FrontKeeps DEF Unwind
  <2>3. queues' \in [Ids -> Queue]
    BY <1>1, <2>1, KeptType DEF Unwind, Types
  <2> QED
    BY <1>1, <2>1, <2>2, <2>3 DEF Shapes, Types, flags
<1> QED
  BY <1>3, <1>5, <1>6, <1>7, <1>8, <1>9

LEMMA NextShapes == Shapes /\ [Next]_vars => Shapes'
<1> SUFFICES ASSUME Shapes, [Next]_vars PROVE Shapes'
  OBVIOUS
<1>1. CASE Next
  BY <1>1, ChangeShapes, FireShapes DEF Next
<1>2. CASE UNCHANGED vars
  BY <1>2 DEF vars, flags, Shapes, Types, FramesInv
<1> QED
  BY <1>1, <1>2

\* Types, and every queue a call has still to fire is one of its array: for
\* any listeners, priorities and nesting.
THEOREM TypeCorrect == Spec => []TypeOK
<1>1. Spec => []Shapes
  BY InitShapes, NextShapes, PTL DEF Spec
<1>2. Shapes => TypeOK
  <2> SUFFICES ASSUME Shapes, NEW i \in DOMAIN frames, NEW j \in 1 .. 2,
                      j \in DOMAIN frames[i].todo
               PROVE  frames[i].snap[frames[i].todo[j]] # 0
    BY DEF Shapes, Types, TypeOK
  <2>1. TodoInv(frames[i])
    BY DEF Shapes, FramesInv
  <2>2. /\ <<"type">>[1] = "type" /\ <<"event">>[1] = "event"
        /\ <<"type", "event">>[1] = "type" /\ <<"type", "event">>[2] = "event"
        /\ DOMAIN <<"type">> = {1} /\ DOMAIN <<"event">> = {1} /\ DOMAIN <<>> = {}
    OBVIOUS
  <2> QED
    BY <2>1, <2>2 DEF TodoInv
<1> QED
  BY <1>1, <1>2, PTL

\* stop() silences all listeners but one of the second queue.
THEOREM StopCorrect == Spec => []StopSilences
<1>1. Spec => []Shapes
  BY InitShapes, NextShapes, PTL DEF Spec
<1>2. Shapes => StopSilences
  BY DEF Shapes, FramesInv, StopInv, StopSilences
<1> QED
  BY <1>1, <1>2, PTL

----------------------------------------------------------------------------
(* The queue objects *)

SnapsOf(frs) == {frs[i].snap : i \in DOMAIN frs}

Held(evs, frs, q) ==
    (\E k \in Keys : evs[k] = q) \/ (\E a \in SnapsOf(frs), k \in Keys : a[k] = q)

\* A queue object that nobody refers to is a fresh one, and one that is
\* listed is listed, and was listed, under one key.
QueueInv ==
    /\ \A q \in Ids : ~Held(events, frames, q) => queues[q] = EmptyQueue
    /\ events["type"] = events["event"] => events["type"] = 0
    /\ \A a \in SnapsOf(frames), k \in Keys, j \in Keys :
          a[k] = events[j] /\ a[k] # 0 => k = j

\* A queue that gives arrays is an emptied one that is not listed.
BothInv ==
    /\ \A q \in Ids : queues[q].both =>
          queues[q].items = {} /\ \A k \in Keys : events[k] # q
    /\ \A i \in DOMAIN frames : ~frames[i].both

\* Listener h is in queue q, or q has been emptied and replaced.
Waiting(qs, evs, q, h) ==
    \/ \E x \in qs[q].items : x.handler = h
    \/ qs[q].items = {} /\ \A k \in Keys : evs[k] # q

\* A step leaves the queues of the calls in progress to them.
WaitingKept ==
    \A h : \A a \in SnapsOf(frames'), k \in Keys :
        a \in SnapsOf(frames) /\ a[k] # 0 /\ Waiting(queues, events, a[k], h)
            => Waiting(queues', events', a[k], h)

LEMMA ReferredIsHeld ==
    ASSUME NEW evs, NEW frs
    PROVE  \A q : q \in Referred(evs, frs) <=> Held(evs, frs, q)
BY DEF Referred, Held, SnapsOf

LEMMA KeptQueue ==
    ASSUME NEW qs \in [Ids -> Queue], NEW evs, NEW frs, NEW q \in Ids
    PROVE  Kept(qs, evs, frs)[q] = IF Held(evs, frs, q) THEN qs[q] ELSE EmptyQueue
BY KeptType, ReferredIsHeld

LEMMA UnusedQueue ==
    ASSUME Shapes, QueueInv, Unused # {}
    PROVE  /\ NewId \in Ids /\ NewId # 0 /\ queues[NewId] = EmptyQueue
           /\ \A k \in Keys : events[k] # NewId
           /\ \A a \in SnapsOf(frames), k \in Keys : a[k] # NewId
<1>1. NewId \in Unused
  BY UnusedId
<1>2. NewId \in Ids /\ ~Held(events, frames, NewId)
  BY <1>1, ReferredIsHeld DEF Unused
<1> QED
  BY <1>2 DEF Held, QueueInv, Ids

LEMMA SnapTypes ==
    ASSUME Shapes
    PROVE  \A a \in SnapsOf(frames) : a \in [Keys -> 0 .. MaxQueues]
BY FrameParts DEF SnapsOf, Shapes, Types

\* Steps that do not touch the queues.
LEMMA SameQueues ==
    ASSUME Shapes, QueueInv, UNCHANGED <<queues, events>>,
           SnapsOf(frames') \in {SnapsOf(frames), SnapsOf(frames) \cup {events}}
    PROVE  QueueInv' /\ WaitingKept
<1>1. \A q : Held(events', frames', q) <=> Held(events, frames, q)
  BY DEF Held
<1>2. \A k, j \in Keys : events[k] = events[j] /\ events[k] # 0 => k = j
  BY DEF QueueInv, Keys
<1>3. QueueInv'
  BY <1>1, <1>2 DEF QueueInv
<1>4. WaitingKept
  BY DEF WaitingKept
<1> QED
  BY <1>3, <1>4

LEMMA AttachQueues ==
    ASSUME Shapes, QueueInv, NEW k \in Keys, NEW h \in Handlers, NEW p \in Priorities,
           Attach(k, h, p)
    PROVE  QueueInv' /\ WaitingKept /\ (BothInv => BothInv')
<1> DEFINE q == IF events[k] # 0 THEN events[k] ELSE NewId
           x == Attached(h, p)
<1>1. /\ events' = [events EXCEPT ![k] = q]
      /\ queues' = [queues EXCEPT ![q].items = @ \cup {x}]
      /\ frames' = frames
  BY DEF Attach
<1>2. /\ events \in [Keys -> 0 .. MaxQueues] /\ queues \in [Ids -> Queue]
      /\ \A a \in SnapsOf(frames) : a \in [Keys -> 0 .. MaxQueues]
  BY SnapTypes DEF Shapes, Types
<1>3. CASE events[k] # 0
  <2>1. q = events[k] /\ q \in Ids
    BY <1>2, <1>3 DEF Ids
  <2> HIDE DEF q, x
  <2>2. events' = events
    BY <1>1, <1>2, <2>1
  <2>3. \A r \in Ids :
           /\ queues'[r].items = IF r = q THEN queues[r].items \cup {x} ELSE queues[r].items
           /\ queues'[r].both = queues[r].both
           /\ r # q => queues'[r] = queues[r]
    BY <1>1, <1>2, <2>1 DEF Queue
  <2>4. Held(events, frames, q)
    BY <2>1 DEF Held
  <2>5. QueueInv'
    BY <1>1, <2>2, <2>3, <2>4 DEF QueueInv
  <2>6. WaitingKept
    <3> SUFFICES ASSUME NEW a \in SnapsOf(frames), NEW j \in Keys, NEW g, a[j] # 0,
                        Waiting(queues, events, a[j], g)
                 PROVE  Waiting(queues', events', a[j], g)
      BY <1>1 DEF WaitingKept
    <3>1. a[j] \in Ids
      BY <1>2 DEF Ids
    <3> QED
      BY <2>1, <2>2, <2>3, <3>1 DEF Waiting
  <2>7. BothInv => BothInv'
    BY <1>1, <2>1, <2>2, <2>3 DEF BothInv
  <2> QED
    BY <2>5, <2>6, <2>7
<1>4. CASE events[k] = 0
  <2>1. q = NewId /\ Unused # {}
    BY <1>4 DEF Attach
  <2>2. /\ q \in Ids /\ q # 0 /\ queues[q] = EmptyQueue
        /\ \A j \in Keys : events[j] # q
        /\ \A a \in SnapsOf(frames), j \in Keys : a[j] # q
    BY <2>1, UnusedQueue
  <2> HIDE DEF q, x
  <2>3. \A r \in Ids :
           /\ queues'[r].items = IF r = q THEN queues[r].items \cup {x} ELSE queues[r].items
           /\ queues'[r].both = queues[r].both
           /\ r # q => queues'[r] = queues[r]
    BY <1>1, <1>2, <2>2 DEF Queue
  <2>4. \A j \in Keys : events'[j] = IF j = k THEN q ELSE events[j]
    BY <1>1, <1>2
  <2>5. \A r \in Ids : Held(events, frames, r) \/ r = q => Held(events', frames', r)
    BY <1>1, <1>4, <2>4 DEF Held, Ids
  <2>6. QueueInv'
    <3>1. \A r \in Ids : ~Held(events', frames', r) => queues'[r] = EmptyQueue
      BY <2>3, <2>5 DEF QueueInv
    <3>2. events'["type"] = events'["event"] => events'["type"] = 0
      BY <2>2, <2>4 DEF QueueInv, Keys
    <3>3. \A a \in SnapsOf(frames'), j \in Keys, i \in Keys :
              a[j] = events'[i] /\ a[j] # 0 => j = i
      BY <1>1, <2>2, <2>4 DEF QueueInv
    <3> QED
      BY <3>1, <3>2, <3>3 DEF QueueInv
  <2>7. WaitingKept
    <3> SUFFICES ASSUME NEW a \in SnapsOf(frames), NEW j \in Keys, NEW g, a[j] # 0,
                        Waiting(queues, events, a[j], g)
                 PROVE  Waiting(queues', events', a[j], g)
      BY <1>1 DEF WaitingKept
    <3>1. a[j] \in Ids /\ a[j] # q
      BY <1>2, <2>2 DEF Ids
    <3> QED
      BY <2>3, <2>4, <3>1 DEF Waiting
  <2>8. BothInv => BothInv'
    BY <1>1, <2>2, <2>3, <2>4 DEF BothInv, EmptyQueue
  <2> QED
    BY <2>6, <2>7, <2>8
<1> QED
  BY <1>3, <1>4

LEMMA DetachQueues ==
    ASSUME Shapes, QueueInv, NEW k \in Keys, NEW h \in Handlers, Detach(k, h)
    PROVE  QueueInv' /\ WaitingKept /\ (BothInv => BothInv')
<1> DEFINE old == events[k]
           fresh == [items |-> {x \in queues[old].items : x.handler # h}, both |-> FALSE]
           drained == [items |-> {}, both |-> TRUE]
           new == [queues EXCEPT ![old] = drained, ![NewId] = fresh]
<1>1. /\ events \in [Keys -> 0 .. MaxQueues] /\ queues \in [Ids -> Queue]
      /\ \A a \in SnapsOf(frames) : a \in [Keys -> 0 .. MaxQueues]
  BY SnapTypes DEF Shapes, Types
<1>2. old \in Ids /\ Unused # {}
  BY <1>1 DEF Detach, Ids
<1>3. /\ NewId \in Ids /\ NewId # 0 /\ NewId # old
      /\ \A j \in Keys : events[j] # NewId
      /\ \A a \in SnapsOf(frames), j \in Keys : a[j] # NewId
  BY <1>2, UnusedQueue
<1>4. /\ events' = [events EXCEPT ![k] = NewId]
      /\ queues' = Kept(new, events', frames')
      /\ frames' = NoLongerDue(k, {h})
  BY DEF Detach, Relisted
<1>5. /\ DOMAIN frames' = DOMAIN frames
      /\ \A i \in DOMAIN frames :
            frames'[i].snap = frames[i].snap /\ frames'[i].both = frames[i].both
  BY <1>4, NoLongerDueTouches DEF Touched, Shapes, Types
<1>6. SnapsOf(frames') = SnapsOf(frames)
  BY <1>5 DEF SnapsOf
<1>7. fresh \in Queue /\ drained \in Queue /\ new \in [Ids -> Queue]
  BY <1>1, <1>2, <1>3 DEF Queue
<1>8. \A r \in Ids : new[r] = IF r = NewId THEN fresh ELSE IF r = old THEN drained ELSE queues[r]
  BY <1>1, <1>2, <1>3
<1>9. drained.items = {} /\ drained.both = TRUE /\ fresh.both = FALSE
  OBVIOUS
<1> HIDE DEF new, fresh, drained
<1>10. \A r \in Ids :
          queues'[r] = IF Held(events', frames', r) THEN new[r] ELSE EmptyQueue
  BY <1>4, <1>7, KeptQueue
<1>11. \A j \in Keys : events'[j] = IF j = k THEN NewId ELSE events[j]
  BY <1>1, <1>4
<1>12. \A j \in Keys : events[j] = old => j = k
  BY <1>2 DEF QueueInv, Keys, Ids
<1>13. QueueInv'
  <2>1. events'["type"] = events'["event"] => events'["type"] = 0
    BY <1>3, <1>11 DEF QueueInv, Keys
  <2>2. \A a \in SnapsOf(frames'), j \in Keys, i \in Keys :
            a[j] = events'[i] /\ a[j] # 0 => j = i
    BY <1>3, <1>6, <1>11 DEF QueueInv
  <2> QED
    BY <1>10, <2>1, <2>2 DEF QueueInv
<1>14. WaitingKept
  <2> SUFFICES ASSUME NEW a \in SnapsOf(frames), NEW j \in Keys, NEW g, a[j] # 0,
                      Waiting(queues, events, a[j], g)
               PROVE  Waiting(queues', events', a[j], g)
    BY <1>6 DEF WaitingKept
  <2>1. a[j] \in Ids /\ a[j] # NewId
    BY <1>1, <1>3 DEF Ids
  <2>2. Held(events', frames', a[j])
    BY <1>6 DEF Held
  <2>3. CASE a[j] = old
    <3>1. queues'[a[j]].items = {}
      BY <1>8, <1>9, <1>10, <2>1, <2>2, <2>3
    <3>2. \A i \in Keys : events'[i] # a[j]
      BY <1>11, <1>12, <2>1, <2>3
    <3> QED
      BY <3>1, <3>2 DEF Waiting
  <2>4. CASE a[j] # old
    <3>1. queues'[a[j]] = queues[a[j]]
      BY <1>8, <1>10, <2>1, <2>2, <2>4
    <3> QED
      BY <1>11, <2>1, <3>1 DEF Waiting
  <2> QED
    BY <2>3, <2>4
<1>15. BothInv => BothInv'
  <2> SUFFICES ASSUME BothInv PROVE BothInv'
    OBVIOUS
  <2>1. \A i \in DOMAIN frames' : ~frames'[i].both
    BY <1>5 DEF BothInv
  <2>2. ASSUME NEW r \in Ids, queues'[r].both
        PROVE  queues'[r].items = {} /\ \A j \in Keys : events'[j] # r
    <3>1. queues'[r] = new[r] /\ r # NewId
      BY <1>8, <1>9, <1>10, <2>2 DEF EmptyQueue
    <3>2. CASE r = old
      BY <1>3, <1>8, <1>9, <1>11, <1>12, <3>1, <3>2
    <3>3. CASE r # old
      BY <1>8, <1>11, <2>2, <3>1, <3>3 DEF BothInv
    <3> QED
      BY <3>2, <3>3
  <2> QED
    BY <2>1, <2>2 DEF BothInv
<1> QED
  BY <1>13, <1>14, <1>15

\* detach() of a key, or of all of them, drops queues from the list.
LEMMA DropQueues ==
    ASSUME Shapes, QueueInv, queues' = Kept(queues, events', frames'),
           SnapsOf(frames') \subseteq SnapsOf(frames),
           \A i \in DOMAIN frames' : i \in DOMAIN frames /\ frames'[i].both = frames[i].both,
           \A j \in Keys : events'[j] \in {0, events[j]}
    PROVE  QueueInv' /\ WaitingKept /\ (BothInv => BothInv')
<1>1. /\ events \in [Keys -> 0 .. MaxQueues] /\ queues \in [Ids -> Queue]
      /\ \A a \in SnapsOf(frames) : a \in [Keys -> 0 .. MaxQueues]
  BY SnapTypes DEF Shapes, Types
<1>2. \A r \in Ids :
         queues'[r] = IF Held(events', frames', r) THEN queues[r] ELSE EmptyQueue
  BY <1>1, KeptQueue
<1>3. QueueInv'
  <2>1. events'["type"] = events'["event"] => events'["type"] = 0
    BY DEF QueueInv, Keys
  <2>2. \A a \in SnapsOf(frames'), j \in Keys, i \in Keys :
            a[j] = events'[i] /\ a[j] # 0 => j = i
    BY DEF QueueInv
  <2> QED
    BY <1>2, <2>1, <2>2 DEF QueueInv
<1>4. WaitingKept
  <2> SUFFICES ASSUME NEW a \in SnapsOf(frames'), a \in SnapsOf(frames),
                      NEW j \in Keys, NEW g, a[j] # 0, Waiting(queues, events, a[j], g)
               PROVE  Waiting(queues', events', a[j], g)
    BY DEF WaitingKept
  <2>1. a[j] \in Ids
    BY <1>1 DEF Ids
  <2>2. Held(events', frames', a[j])
    BY DEF Held
  <2> QED
    BY <1>2, <2>1, <2>2 DEF Waiting
<1>5. BothInv => BothInv'
  <2> SUFFICES ASSUME BothInv PROVE BothInv'
    OBVIOUS
  <2>1. \A i \in DOMAIN frames' : ~frames'[i].both
    BY DEF BothInv
  <2>2. ASSUME NEW r \in Ids, queues'[r].both
        PROVE  queues'[r].items = {} /\ \A j \in Keys : events'[j] # r
    <3>1. queues'[r] = queues[r]
      BY <1>2, <2>2 DEF EmptyQueue
    <3> QED
      BY <2>2, <3>1 DEF BothInv, Ids
  <2> QED
    BY <2>1, <2>2 DEF BothInv
<1> QED
  BY <1>3, <1>4, <1>5

\* A detach() that throws leaves a flag behind.
LEMMA DetachThrowsQueues ==
    ASSUME Shapes, QueueInv, NEW k \in Keys, DetachThrows(k)
    PROVE  QueueInv' /\ WaitingKept
<1>1. /\ events \in [Keys -> 0 .. MaxQueues] /\ queues \in [Ids -> Queue]
      /\ \A a \in SnapsOf(frames) : a \in [Keys -> 0 .. MaxQueues]
  BY SnapTypes DEF Shapes, Types
<1>2. /\ events[k] \in Ids /\ queues' = [queues EXCEPT ![events[k]].both = TRUE]
      /\ events' = events /\ frames' = frames
  BY <1>1 DEF DetachThrows, Ids
<1>3. \A r \in Ids : queues'[r].items = queues[r].items /\ (r # events[k] => queues'[r] = queues[r])
  BY <1>1, <1>2 DEF Queue
<1>4. Held(events, frames, events[k])
  BY DEF Held
<1>5. QueueInv'
  BY <1>2, <1>3, <1>4 DEF QueueInv
<1>6. WaitingKept
  <2> SUFFICES ASSUME NEW a \in SnapsOf(frames), NEW j \in Keys, NEW g, a[j] # 0,
                      Waiting(queues, events, a[j], g)
               PROVE  Waiting(queues', events', a[j], g)
    BY <1>2 DEF WaitingKept
  <2>1. a[j] \in Ids
    BY <1>1 DEF Ids
  <2> QED
    BY <1>2, <1>3, <2>1 DEF Waiting
<1> QED
  BY <1>5, <1>6

----------------------------------------------------------------------------
(* Who is still to be called *)

Pending(f, k) ==
    \/ k = "type"  /\ f.todo \in {<<"type">>, <<"type", "event">>}
    \/ k = "event" /\ f.todo \in {<<"event">>, <<"type", "event">>}

\* A listener that is due is in a queue that is still to be fired, unless the
\* queue was emptied and replaced, or in the rest of the one being fired.
DueOf(f, qs, evs) ==
    \A d \in f.due :
        /\ d.handler \notin Deaf
        /\ Pending(f, d.key) =>
              f.snap[d.key] # 0 /\ Waiting(qs, evs, f.snap[d.key], d.handler)
        /\ ~Pending(f, d.key) /\ ~f.stopped =>
              d.key = FiredKey(f) /\ \E x \in f.left : x.handler = d.handler

DueInv == \A i \in DOMAIN frames : DueOf(frames[i], queues, events)

EmptyNotPending == <<>> # <<"type">> /\ <<>> # <<"event">> /\ <<>> # <<"type", "event">>

LEMMA NothingPending ==
    EmptyNotPending /\ \A f, k : f.todo = <<>> => ~Pending(f, k)
<1>1. EmptyNotPending
  BY DEF EmptyNotPending
<1> QED
  BY <1>1 DEF EmptyNotPending, Pending

\* Frames that go on as they were, with less that is due.
LEMMA DueTouched ==
    ASSUME DueInv, WaitingKept, Touched, SnapsOf(frames') = SnapsOf(frames), Shapes
    PROVE  DueInv'
<1> SUFFICES ASSUME NEW i \in DOMAIN frames
             PROVE  DueOf(frames'[i], queues', events')
  BY DEF DueInv, Touched
<1> DEFINE f == frames[i]
           g == frames'[i]
<1>1. /\ g.stopped = f.stopped /\ g.snap = f.snap /\ g.todo = f.todo
      /\ g.left = f.left /\ g.due \subseteq f.due
  BY DEF Touched
<1>2. f.snap \in SnapsOf(frames') /\ f.snap \in SnapsOf(frames)
  BY DEF SnapsOf
<1>3. DueOf(f, queues, events)
  BY DEF DueInv
<1>4. f.due \subseteq [key : Keys, handler : Handlers]
  BY FrameParts DEF Shapes, Types
<1> HIDE DEF f, g
<1>5. \A k : Pending(g, k) <=> Pending(f, k)
  BY <1>1 DEF Pending
<1>6. FiredKey(g) = FiredKey(f)
  BY <1>1 DEF FiredKey
<1>7. DueOf(g, queues', events')
  <2> SUFFICES ASSUME NEW d \in g.due
               PROVE  /\ d.handler \notin Deaf
                      /\ Pending(g, d.key) => g.snap[d.key] # 0
                            /\ Waiting(queues', events', g.snap[d.key], d.handler)
                      /\ ~Pending(g, d.key) /\ ~g.stopped =>
                            d.key = FiredKey(g) /\ \E x \in g.left : x.handler = d.handler
    BY DEF DueOf
  <2>1. d \in f.due /\ d.key \in Keys
    BY <1>1, <1>4
  <2>2. d.handler \notin Deaf
    BY <1>3, <2>1 DEF DueOf
  <2>3. ASSUME Pending(g, d.key)
        PROVE  g.snap[d.key] # 0 /\ Waiting(queues', events', g.snap[d.key], d.handler)
    <3>1. f.snap[d.key] # 0 /\ Waiting(queues, events, f.snap[d.key], d.handler)
      BY <1>3, <1>5, <2>1, <2>3 DEF DueOf
    <3> QED
      BY <1>1, <1>2, <2>1, <3>1 DEF WaitingKept
  <2>4. ~Pending(g, d.key) /\ ~g.stopped =>
            d.key = FiredKey(g) /\ \E x \in g.left : x.handler = d.handler
    BY <1>1, <1>3, <1>5, <1>6, <2>1 DEF DueOf
  <2> QED
    BY <2>2, <2>3, <2>4
<1> QED
  BY <1>7 DEF g

LEMMA DueFront ==
    ASSUME DueInv, WaitingKept, Shapes, frames # <<>>, frames' = Front(frames)
    PROVE  DueInv'
<1>1. \A i \in DOMAIN frames' : i \in DOMAIN frames /\ frames'[i] = frames[i]
  BY FrontFrames DEF Shapes, Types
<1> SUFFICES ASSUME NEW i \in DOMAIN frames'
             PROVE  DueOf(frames[i], queues', events')
  BY <1>1 DEF DueInv
<1> DEFINE f == frames[i]
<1>2. f.snap \in SnapsOf(frames') /\ f.snap \in SnapsOf(frames)
  BY <1>1 DEF SnapsOf
<1>3. DueOf(f, queues, events)
  BY <1>1 DEF DueInv
<1>4. f.due \subseteq [key : Keys, handler : Handlers]
  BY <1>1, FrameParts DEF Shapes, Types
<1> HIDE DEF f
<1>5. DueOf(f, queues', events')
  BY <1>2, <1>3, <1>4 DEF DueOf, WaitingKept
<1> QED
  BY <1>5 DEF f

LEMMA DueTop ==
    ASSUME DueInv, Shapes, frames # <<>>, NEW g \in FrameType, SetTop(g),
           DueOf(g, queues, events), UNCHANGED <<queues, events>>
    PROVE  DueInv'
BY SetTopFrames DEF DueInv, Shapes, Types

----------------------------------------------------------------------------
(* What each step does to who is due *)

LEMMA OpenedDue ==
    ASSUME Types, NEW f \in FrameType, TodoInv(f), StopInv(f), f.todo # <<>>,
           f.left = {}, f.running = None, DueOf(f, queues, events),
           queues[f.snap[Head(f.todo)]].items # {},
           NEW g, g = AfterOpening(f)
    PROVE  DueOf(g, queues, events)
<1>1. /\ g.todo = Tail(f.todo) /\ g.left = queues[f.snap[Head(f.todo)]].items
      /\ g.snap = f.snap /\ g.due = f.due /\ (g.stopped <=> f.stopped)
  BY OpenedFrame
<1>2. /\ g.todo \in {<<>>, <<"event">>}
      /\ g.todo = <<"event">> <=> f.todo = <<"type", "event">>
      /\ Head(f.todo) \in Keys
      /\ Head(f.todo) = "event" <=> f.todo = <<"event">>
  BY <1>1, NextTodo
<1>3. /\ <<"event">> # <<"type">> /\ <<"event">> # <<"type", "event">>
      /\ <<>> # <<"type">> /\ <<>> # <<"type", "event">> /\ <<>> # <<"event">>
      /\ <<"type">> # <<"type", "event">>
  OBVIOUS
<1>4. \A k \in Keys : Pending(g, k) => Pending(f, k)
  BY <1>2, <1>3 DEF Pending
<1>5. \A k \in Keys : Pending(f, k) /\ ~Pending(g, k) => k = Head(f.todo)
  BY <1>2, <1>3 DEF Pending, TodoInv, Keys
<1>6. FiredKey(g) = Head(f.todo)
  BY <1>1, <1>2, <1>3 DEF FiredKey, TodoInv, Keys
<1>7. f.due \subseteq [key : Keys, handler : Handlers]
  BY FrameParts
<1> SUFFICES ASSUME NEW d \in f.due
             PROVE  /\ d.handler \notin Deaf
                    /\ Pending(g, d.key) => f.snap[d.key] # 0
                          /\ Waiting(queues, events, f.snap[d.key], d.handler)
                    /\ ~Pending(g, d.key) /\ ~f.stopped =>
                          d.key = Head(f.todo) /\ \E x \in g.left : x.handler = d.handler
  BY <1>1, <1>6 DEF DueOf
<1>8. d.key \in Keys
  BY <1>7
<1>9. d.handler \notin Deaf
  BY DEF DueOf
<1>10. Pending(f, d.key) =>
          f.snap[d.key] # 0 /\ Waiting(queues, events, f.snap[d.key], d.handler)
  BY DEF DueOf
<1>11. ASSUME ~Pending(g, d.key), ~f.stopped
       PROVE  d.key = Head(f.todo) /\ \E x \in g.left : x.handler = d.handler
  <2>1. Pending(f, d.key)
    BY <1>11 DEF DueOf
  <2>2. d.key = Head(f.todo)
    BY <1>5, <1>8, <1>11, <2>1
  <2> QED
    BY <1>1, <1>10, <2>1, <2>2 DEF Waiting
<1> QED
  BY <1>4, <1>8, <1>9, <1>10, <1>11

LEMMA TakenDue ==
    ASSUME NEW f \in FrameType, DueOf(f, queues, events), NEW x \in f.left
    PROVE  /\ x.handler \in Deaf => DueOf(Passed(f, x), queues, events)
           /\ DueOf(Called(f, x), queues, events)
<1>1. f.due \subseteq [key : Keys, handler : Handlers]
  BY FrameParts
<1>2. ASSUME x.handler \in Deaf, NEW g, g = Passed(f, x)
      PROVE  DueOf(g, queues, events)
  <2>1. /\ g.todo = f.todo /\ g.left = f.left \ {x} /\ g.snap = f.snap
        /\ g.stopped = f.stopped /\ g.due = f.due
    BY <1>2 DEF Passed, FrameType
  <2>2. FiredKey(g) = FiredKey(f) /\ \A k : Pending(g, k) <=> Pending(f, k)
    BY <2>1 DEF FiredKey, Pending
  <2> QED
    BY <1>2, <2>1, <2>2 DEF DueOf
<1>3. ASSUME NEW g, g = Called(f, x)
      PROVE  DueOf(g, queues, events)
  <2>1. /\ g.todo = f.todo /\ g.left = f.left \ {x} /\ g.snap = f.snap
        /\ g.stopped = f.stopped
        /\ g.due = f.due \ {[key |-> FiredKey(f), handler |-> x.handler]}
    BY <1>3 DEF Called, FrameType
  <2>2. FiredKey(g) = FiredKey(f) /\ \A k : Pending(g, k) <=> Pending(f, k)
    BY <2>1 DEF FiredKey, Pending
  <2>3. \A d \in g.due : d \in f.due /\ (d.key = FiredKey(f) => d.handler # x.handler)
    BY <1>1, <2>1
  <2> QED
    BY <2>1, <2>2, <2>3 DEF DueOf
<1> QED
  BY <1>2, <1>3

LEMMA HeardDue ==
    ASSUME NEW f \in FrameType, DueOf(f, queues, events)
    PROVE  /\ DueOf([f EXCEPT !.stopped = TRUE], queues, events)
           /\ \A own \in Seq(Handlers) :
                 DueOf([f EXCEPT !.running = None, !.left = LeftAfter(f), !.own = own],
                       queues, events)
<1>1. ASSUME NEW g, g = [f EXCEPT !.stopped = TRUE]
      PROVE  DueOf(g, queues, events)
  <2>1. /\ g.todo = f.todo /\ g.left = f.left /\ g.snap = f.snap
        /\ g.stopped = TRUE /\ g.due = f.due
    BY <1>1 DEF FrameType
  <2>2. FiredKey(g) = FiredKey(f) /\ \A k : Pending(g, k) <=> Pending(f, k)
    BY <2>1 DEF FiredKey, Pending
  <2> QED
    BY <2>1, <2>2 DEF DueOf
<1>2. ASSUME NEW own \in Seq(Handlers), NEW g,
             g = [f EXCEPT !.running = None, !.left = LeftAfter(f), !.own = own]
      PROVE  DueOf(g, queues, events)
  <2>1. /\ g.todo = f.todo /\ g.left = LeftAfter(f) /\ g.snap = f.snap
        /\ g.stopped = f.stopped /\ g.due = f.due
    BY <1>2 DEF FrameType
  <2>2. FiredKey(g) = FiredKey(f) /\ \A k : Pending(g, k) <=> Pending(f, k)
    BY <2>1 DEF FiredKey, Pending
  <2>3. ~f.stopped => g.left = f.left
    BY <2>1 DEF LeftAfter
  <2> QED
    BY <2>1, <2>2, <2>3 DEF DueOf
<1> QED
  BY <1>1, <1>2

LEMMA NewDue ==
    ASSUME Types, NEW cancelable \in BOOLEAN
    PROVE  DueOf(Frame(cancelable), queues, events)
<1> DEFINE g == Frame(cancelable)
<1>1. /\ g.snap = events /\ g.due = Hearing(DueIn(events))
      /\ events["type"] # 0 => g.todo \in {<<"type">>, <<"type", "event">>}
      /\ events["event"] # 0 => g.todo \in {<<"event">>, <<"type", "event">>}
  BY NewFrame
<1> HIDE DEF g
<1>2. \A k \in Keys : events[k] # 0 => Pending(g, k)
  BY <1>1 DEF Pending, Keys
<1>3. ASSUME NEW d \in g.due
      PROVE  /\ d.handler \notin Deaf /\ d.key \in Keys /\ events[d.key] # 0
             /\ \E x \in queues[events[d.key]].items : x.handler = d.handler
  <2>1. d \in DueIn(events) /\ d.handler \notin Deaf
    BY <1>1 DEF Hearing
  <2>2. PICK k \in Keys : events[k] # 0 /\ \E x \in queues[events[k]].items :
                              d = [key |-> k, handler |-> x.handler]
    BY <2>1 DEF DueIn
  <2> QED
    BY <2>1, <2>2
<1>4. DueOf(g, queues, events)
  BY <1>1, <1>2, <1>3 DEF DueOf, Waiting
<1> QED
  BY <1>4 DEF g

----------------------------------------------------------------------------
(* The queues and who is due, in every step *)

DbInv ==
    /\ Shapes
    /\ QueueInv
    /\ ~blundered => BothInv /\ DueInv

LEMMA InitDb == Init => DbInv
<1> SUFFICES ASSUME Init PROVE DbInv
  OBVIOUS
<1>1. /\ events = [k \in Keys |-> 0] /\ queues = [q \in Ids |-> EmptyQueue]
      /\ DOMAIN frames = {}
  BY DEF Init
<1>2. QueueInv
  BY <1>1 DEF QueueInv, SnapsOf, Keys
<1>3. BothInv
  BY <1>1 DEF BothInv, EmptyQueue, Ids, Keys
<1>4. DueInv
  BY <1>1 DEF DueInv
<1> QED
  BY <1>2, <1>3, <1>4, InitShapes DEF DbInv

\* Calls that attach, detach or set a flag.
LEMMA ChangeDb ==
    ASSUME DbInv, Shapes'
    PROVE  /\ \A k \in Keys, h \in Handlers, p \in Priorities : Attach(k, h, p) => DbInv'
           /\ \A k \in Keys, h \in Handlers : Detach(k, h) => DbInv'
           /\ \A k \in Keys : DetachThrows(k) \/ DetachAllOf(k) => DbInv'
           /\ DetachAll => DbInv'
           /\ \A on \in BOOLEAN : EnablePriorities(on) \/ CollectResponses(on) => DbInv'
<1>1. Shapes /\ QueueInv /\ frames \in Seq(FrameType)
  BY DEF DbInv, Shapes, Types
<1>2. frames' = frames =>
         /\ Touched /\ SnapsOf(frames') = SnapsOf(frames)
         /\ \A i \in DOMAIN frames' : i \in DOMAIN frames /\ frames'[i].both = frames[i].both
  BY <1>1 DEF Touched, SnapsOf
<1>3. Touched =>
         /\ SnapsOf(frames') = SnapsOf(frames)
         /\ \A i \in DOMAIN frames' : i \in DOMAIN frames /\ frames'[i].both = frames[i].both
  BY DEF Touched, SnapsOf
<1>4. ASSUME NEW k \in Keys, NEW h \in Handlers, NEW p \in Priorities, Attach(k, h, p)
      PROVE  DbInv'
  <2>1. QueueInv' /\ WaitingKept /\ (BothInv => BothInv')
    BY <1>1, <1>4, AttachQueues
  <2>2. frames' = frames /\ blundered' = blundered
    BY <1>4 DEF Attach
  <2>3. DueInv => DueInv'
    BY <1>1, <1>2, <2>1, <2>2, DueTouched
  <2> QED
    BY <2>1, <2>2, <2>3 DEF DbInv
<1>5. ASSUME NEW k \in Keys, NEW h \in Handlers, Detach(k, h)
      PROVE  DbInv'
  <2>1. QueueInv' /\ WaitingKept /\ (BothInv => BothInv')
    BY <1>1, <1>5, DetachQueues
  <2>2. Touched /\ blundered' = blundered
    BY <1>1, <1>5, NoLongerDueTouches DEF Detach
  <2>3. DueInv => DueInv'
    BY <1>1, <1>3, <2>1, <2>2, DueTouched
  <2> QED
    BY <2>1, <2>2, <2>3 DEF DbInv
<1>6. ASSUME NEW k \in Keys, DetachThrows(k)
      PROVE  DbInv'
  <2>1. QueueInv'
    BY <1>1, <1>6, DetachThrowsQueues
  <2>2. blundered' = TRUE
    BY <1>6 DEF DetachThrows
  <2> QED
    BY <2>1, <2>2 DEF DbInv
<1>7. ASSUME NEW k \in Keys, DetachAllOf(k)
      PROVE  DbInv'
  <2>1. /\ queues' = Kept(queues, events', frames') /\ blundered' = blundered
        /\ events' = [events EXCEPT ![k] = 0]
    BY <1>7 DEF DetachAllOf
  <2>2. Touched
    BY <1>1, <1>7, NoLongerDueTouches DEF DetachAllOf
  <2>3. \A j \in Keys : events'[j] \in {0, events[j]}
    BY <1>1, <2>1 DEF Shapes, Types
  <2>4. QueueInv' /\ WaitingKept /\ (BothInv => BothInv')
    BY <1>1, <1>3, <2>1, <2>2, <2>3, DropQueues
  <2>5. DueInv => DueInv'
    BY <1>1, <1>3, <2>2, <2>4, DueTouched
  <2> QED
    BY <2>1, <2>4, <2>5 DEF DbInv
<1>8. ASSUME DetachAll
      PROVE  DbInv'
  <2>1. /\ queues' = Kept(queues, events', frames') /\ blundered' = blundered
        /\ \A j \in Keys : events'[j] \in {0, events[j]}
    BY <1>8 DEF DetachAll
  <2>2. Touched
    BY <1>1, <1>8, NothingDueTouches DEF DetachAll
  <2>3. QueueInv' /\ WaitingKept /\ (BothInv => BothInv')
    BY <1>1, <1>3, <2>1, <2>2, DropQueues
  <2>4. DueInv => DueInv'
    BY <1>1, <1>3, <2>2, <2>3, DueTouched
  <2> QED
    BY <2>1, <2>3, <2>4 DEF DbInv
<1>9. ASSUME Touched, UNCHANGED <<queues, events, blundered>>
      PROVE  DbInv'
  <2>1. QueueInv' /\ WaitingKept
    BY <1>1, <1>3, <1>9, SameQueues
  <2>2. BothInv => BothInv'
    BY <1>3, <1>9 DEF BothInv
  <2>3. DueInv => DueInv'
    BY <1>1, <1>3, <1>9, <2>1, DueTouched
  <2> QED
    BY <1>9, <2>1, <2>2, <2>3 DEF DbInv
<1>10. ASSUME NEW on \in BOOLEAN, EnablePriorities(on)
       PROVE  DbInv'
  BY <1>2, <1>9, <1>10 DEF EnablePriorities
<1>11. ASSUME NEW on \in BOOLEAN, CollectResponses(on)
       PROVE  DbInv'
  <2>1. frames' = Disturbed
    BY <1>11 DEF CollectResponses, Disturbed
  <2>2. Touched
    BY <1>1, <2>1, DisturbedAll DEF Touched
  <2> QED
    BY <1>9, <1>11, <2>2 DEF CollectResponses
<1> QED
  BY <1>4, <1>5, <1>6, <1>7, <1>8, <1>10, <1>11

\* The steps of fire(), and what a listener does.
LEMMA FireDb ==
    ASSUME DbInv, Shapes'
    PROVE  /\ \A cancelable \in BOOLEAN : Fire(cancelable) => DbInv'
           /\ OpenQueue \/ CallNext \/ Stop \/ HandlerReturns => DbInv'
           /\ OpenThrows \/ FireReturns \/ HandlerThrows => DbInv'
<1>1. Shapes /\ QueueInv /\ Types /\ frames \in Seq(FrameType)
  BY DEF DbInv, Shapes, Types
<1>2. frames # <<>> => /\ Top \in FrameType /\ TodoInv(Top) /\ StopInv(Top)
                       /\ BothInv => ~Top.both
                       /\ DueInv => DueOf(Top, queues, events)
                       /\ Top.snap \in SnapsOf(frames)
  BY <1>1, TopFrame DEF Shapes, FramesInv, BothInv, DueInv, SnapsOf
<1>3. ASSUME NEW cancelable \in BOOLEAN, Fire(cancelable)
      PROVE  DbInv'
  <2> DEFINE g == Frame(cancelable)
  <2>1. g.snap = events /\ ~g.both
    BY <1>1, NewFrame
  <2>2. DueOf(g, queues, events)
    BY <1>1, NewDue
  <2>3. frames' = Append(Disturbed, g) /\ UNCHANGED <<queues, events, blundered>>
    BY <1>3 DEF Fire, Disturbed
  <2> HIDE DEF g
  <2>4. /\ Disturbed \in Seq(FrameType) /\ DOMAIN Disturbed = DOMAIN frames
        /\ Len(Disturbed) = Len(frames)
        /\ \A i \in DOMAIN frames :
              /\ Disturbed[i].stopped = frames[i].stopped
              /\ Disturbed[i].snap = frames[i].snap
              /\ Disturbed[i].todo = frames[i].todo
              /\ Disturbed[i].left = frames[i].left
              /\ Disturbed[i].due = frames[i].due
              /\ Disturbed[i].both = frames[i].both
    BY <1>1, DisturbedAll
  <2>5. /\ DOMAIN frames' = DOMAIN frames \cup {Len(frames) + 1}
        /\ Len(frames) + 1 \notin DOMAIN frames
        /\ frames'[Len(frames) + 1] = g
        /\ \A i \in DOMAIN frames : frames'[i] = Disturbed[i]
    BY <1>1, <2>3, <2>4
  <2>6. SnapsOf(frames') = SnapsOf(frames) \cup {events}
    BY <2>1, <2>4, <2>5 DEF SnapsOf
  <2>7. QueueInv'
    BY <1>1, <2>3, <2>6, SameQueues
  <2>8. BothInv => BothInv'
    BY <2>1, <2>3, <2>4, <2>5 DEF BothInv
  <2>9. \A i \in DOMAIN frames :
           DueOf(frames[i], queues, events) => DueOf(Disturbed[i], queues, events)
    BY <2>4 DEF DueOf, Pending, FiredKey
  <2>10. DueInv => DueInv'
    BY <2>2, <2>3, <2>5, <2>9 DEF DueInv
  <2> QED
    BY <2>3, <2>7, <2>8, <2>10 DEF DbInv
<1>4. ASSUME frames # <<>>, NEW g \in FrameType, SetTop(g), g.snap = Top.snap,
             ~blundered => ~g.both /\ DueOf(g, queues, events),
             UNCHANGED <<queues, events, blundered>>
      PROVE  DbInv'
  <2>1. /\ DOMAIN frames' = DOMAIN frames
        /\ \A i \in DOMAIN frames : frames'[i] = IF i = Len(frames) THEN g ELSE frames[i]
    BY <1>1, <1>4, SetTopFrames
  <2>2. Top = frames[Len(frames)] /\ Len(frames) \in DOMAIN frames
    BY <1>1, <1>4, TopFrame
  <2>3. SnapsOf(frames') = SnapsOf(frames)
    <3>1. \A i \in DOMAIN frames : frames'[i].snap = frames[i].snap
      BY <1>4, <2>1, <2>2
    <3> QED
      BY <2>1, <3>1 DEF SnapsOf
  <2>4. QueueInv'
    BY <1>1, <1>4, <2>3, SameQueues
  <2>5. ~blundered => BothInv'
    BY <1>4, <2>1 DEF DbInv, BothInv
  <2>6. ~blundered => DueInv'
    BY <1>1, <1>4, DueTop DEF DbInv
  <2> QED
    BY <1>4, <2>4, <2>5, <2>6 DEF DbInv
<1>5. ASSUME OpenQueue
      PROVE  DbInv'
  <2> DEFINE g == AfterOpening(Top)
  <2>1. /\ frames # <<>> /\ Top.running = None /\ Top.left = {} /\ Top.todo # <<>>
        /\ queues[Top.snap[Head(Top.todo)]].items # {}
    BY <1>5 DEF OpenQueue, Between
  <2>2. /\ g \in FrameType /\ g.snap = Top.snap
        /\ g.both = queues[Top.snap[Head(Top.todo)]].both
    BY <1>1, <1>2, <2>1, OpenedFrame
  <2>3. DueInv => DueOf(g, queues, events)
    BY <1>1, <1>2, <2>1, OpenedDue
  <2>4. SetTop(g) /\ UNCHANGED <<queues, events, blundered>>
    BY <1>5 DEF OpenQueue, Opened, AfterOpening
  <2>5. Top.snap[Head(Top.todo)] \in Ids
    BY <1>2, <2>1, NextTodo
  <2>6. BothInv => ~g.both
    BY <2>1, <2>2, <2>5 DEF BothInv
  <2> HIDE DEF g
  <2> QED
    BY <1>4, <2>1, <2>2, <2>3, <2>4, <2>6 DEF DbInv
<1>6. ASSUME CallNext
      PROVE  DbInv'
  <2>1. frames # <<>> /\ Top.running = None /\ UNCHANGED <<queues, events, blundered>>
    BY <1>6 DEF CallNext, Between
  <2>2. PICK x \in Highest(Top.left) :
            SetTop(IF Top.both \/ x.handler \in Deaf THEN Passed(Top, x) ELSE Called(Top, x))
    BY <1>6 DEF CallNext
  <2>3. x \in Top.left
    BY DEF Highest
  <2>4. Passed(Top, x) \in FrameType /\ Called(Top, x) \in FrameType
    BY <1>2, <2>1, <2>3, TakenFrame
  <2>5. /\ Passed(Top, x).snap = Top.snap /\ Passed(Top, x).both = Top.both
        /\ Called(Top, x).snap = Top.snap /\ Called(Top, x).both = Top.both
    BY <1>2, <2>1 DEF Passed, Called, FrameType
  <2>6. DueInv => /\ x.handler \in Deaf => DueOf(Passed(Top, x), queues, events)
                  /\ DueOf(Called(Top, x), queues, events)
    BY <1>2, <2>1, <2>3, TakenDue
  <2>7. CASE Top.both \/ x.handler \in Deaf
    BY <1>2, <1>4, <2>1, <2>2, <2>4, <2>5, <2>6, <2>7 DEF DbInv
  <2>8. CASE ~(Top.both \/ x.handler \in Deaf)
    BY <1>2, <1>4, <2>1, <2>2, <2>4, <2>5, <2>6, <2>8 DEF DbInv
  <2> QED
    BY <2>7, <2>8
<1>7. ASSUME Stop
      PROVE  DbInv'
  <2> DEFINE g == [Top EXCEPT !.stopped = TRUE]
  <2>1. /\ frames # <<>> /\ Top.running # None /\ Top.cancelable /\ SetTop(g)
        /\ UNCHANGED <<queues, events, blundered>>
    BY <1>7 DEF Stop
  <2>2. g \in FrameType
    BY <1>2, <2>1, HeardFrame
  <2>3. g.snap = Top.snap /\ g.both = Top.both
    BY <1>2, <2>1 DEF FrameType
  <2>4. DueInv => DueOf(g, queues, events)
    BY <1>2, <2>1, HeardDue
  <2> HIDE DEF g
  <2> QED
    BY <1>2, <1>4, <2>1, <2>2, <2>3, <2>4 DEF DbInv
<1>8. ASSUME HandlerReturns
      PROVE  DbInv'
  <2> DEFINE own == IF Top.collecting /\ ~Top.disturbed
                    THEN Append(Top.own, Top.running) ELSE Top.own
             g == [Top EXCEPT !.running = None, !.left = LeftAfter(Top), !.own = own]
  <2>1. frames # <<>> /\ Top.running # None /\ SetTop(g) /\ UNCHANGED <<queues, events, blundered>>
    BY <1>8 DEF HandlerReturns
  <2>2. Top.running \in Handlers /\ Top.own \in Seq(Handlers)
    BY <1>2, <2>1, FrameParts
  <2>3. own \in Seq(Handlers)
    BY <2>2
  <2> HIDE DEF own
  <2>4. g \in FrameType
    BY <1>2, <2>1, <2>3, HeardFrame
  <2>5. g.snap = Top.snap /\ g.both = Top.both
    BY <1>2, <2>1 DEF FrameType
  <2>6. DueInv => DueOf(g, queues, events)
    BY <1>2, <2>1, <2>3, HeardDue
  <2> HIDE DEF g
  <2> QED
    BY <1>2, <1>4, <2>1, <2>4, <2>5, <2>6 DEF DbInv
<1>9. ASSUME OpenThrows \/ FireReturns \/ HandlerThrows
      PROVE  DbInv'
  <2>1. /\ frames # <<>> /\ Unwind /\ UNCHANGED <<events, blundered>>
    BY <1>9 DEF OpenThrows, FireReturns, HandlerThrows, Between
  <2>2. /\ frames' = Front(frames) /\ queues' = Kept(queues, events', frames')
    BY <2>1 DEF Unwind
  <2>3. \A i \in DOMAIN frames' : i \in DOMAIN frames /\ frames'[i] = frames[i]
    BY <1>1, <2>1, <2>2, FrontFrames
  <2>4. SnapsOf(frames') \subseteq SnapsOf(frames)
    BY <2>3 DEF SnapsOf
  <2>5. QueueInv' /\ WaitingKept /\ (BothInv => BothInv')
    BY <1>1, <2>1, <2>2, <2>3, <2>4, DropQueues
  <2>6. DueInv => DueInv'
    BY <1>1, <2>1, <2>2, <2>5, DueFront
  <2> QED
    BY <2>1, <2>5, <2>6 DEF DbInv
<1> QED
  BY <1>3, <1>5, <1>6, <1>7, <1>8, <1>9

LEMMA NextDb == DbInv /\ [Next]_vars => DbInv'
<1> SUFFICES ASSUME DbInv, [Next]_vars PROVE DbInv'
  OBVIOUS
<1>1. Shapes'
  BY NextShapes DEF DbInv
<1>2. CASE Next
  BY <1>1, <1>2, ChangeDb, FireDb DEF Next
<1>3. CASE UNCHANGED vars
  BY <1>1, <1>3 DEF vars, DbInv, QueueInv, BothInv, DueInv
<1> QED
  BY <1>2, <1>3

\* Until a detach() is called on an emptied queue, what is listed gives
\* listeners, not arrays.
THEOREM ListedCorrect == Spec => []ListedQueuesDeliver
<1>1. Spec => []DbInv
  BY InitDb, NextDb, PTL DEF Spec
<1>2. DbInv => ListedQueuesDeliver
  BY DEF DbInv, BothInv, ListedQueuesDeliver
<1> QED
  BY <1>1, <1>2, PTL

\* Until then a call that is not stopped and comes to its end has called
\* every listener that was attached at its start and not detached since,
\* whatever listeners attach, detach, fire and throw meanwhile.
THEOREM NoneSkippedCorrect == Spec => []NoneSkipped
<1>1. Spec => []DbInv
  BY InitDb, NextDb, PTL DEF Spec
<1>2. DbInv => NoneSkipped
  BY NothingPending DEF DbInv, DueInv, DueOf, NoneSkipped, Returning
<1> QED
  BY <1>1, <1>2, PTL

----------------------------------------------------------------------------
(* Responses *)

\* Only the innermost call may be undisturbed, and then the manager's list
\* is its own.
ResponsesInv ==
    \A i \in DOMAIN frames : ~frames[i].disturbed =>
        /\ i = Len(frames)
        /\ collect => responses = frames[i].own
        /\ frames[i].collecting => collect
        /\ frames[i].left # {} \/ frames[i].running # None =>
              frames[i].collecting = collect

LEMMA ResponsesTouched ==
    ASSUME Shapes, ResponsesInv, Touched, UNCHANGED <<collect, responses>>,
           \A i \in DOMAIN frames : frames'[i].disturbed <=> frames[i].disturbed
    PROVE  ResponsesInv'
<1>1. Len(frames') = Len(frames) /\ DOMAIN frames' = DOMAIN frames
  BY DEF Touched, Shapes, Types
<1> QED
  BY <1>1 DEF ResponsesInv, Touched

LEMMA ResponsesTop ==
    ASSUME Shapes, ResponsesInv, frames # <<>>, NEW g \in FrameType, SetTop(g),
           collect' = collect, g.disturbed <=> Top.disturbed,
           ~Top.disturbed =>
              /\ collect => responses' = g.own
              /\ g.collecting => collect
              /\ g.left # {} \/ g.running # None => g.collecting = collect
    PROVE  ResponsesInv'
<1>1. /\ DOMAIN frames' = DOMAIN frames /\ Len(frames') = Len(frames)
      /\ \A i \in DOMAIN frames : frames'[i] = IF i = Len(frames) THEN g ELSE frames[i]
  BY SetTopFrames DEF Shapes, Types
<1>2. Top = frames[Len(frames)]
  BY TopFrame DEF Shapes, Types
<1>3. ASSUME NEW i \in DOMAIN frames', ~frames'[i].disturbed
      PROVE  i = Len(frames) /\ frames'[i] = g /\ ~Top.disturbed
  BY <1>1, <1>2, <1>3 DEF ResponsesInv
<1> QED
  BY <1>1, <1>3 DEF ResponsesInv

LEMMA ChangeResponses ==
    ASSUME Shapes, ResponsesInv
    PROVE  /\ \A k \in Keys, h \in Handlers, p \in Priorities :
                 Attach(k, h, p) => ResponsesInv'
           /\ \A k \in Keys, h \in Handlers : Detach(k, h) => ResponsesInv'
           /\ \A k \in Keys : DetachThrows(k) \/ DetachAllOf(k) => ResponsesInv'
           /\ DetachAll => ResponsesInv'
           /\ \A on \in BOOLEAN :
                 EnablePriorities(on) \/ CollectResponses(on) => ResponsesInv'
<1> USE DEF flags
<1>1. frames \in Seq(FrameType)
  BY DEF Shapes, Types
<1>2. UNCHANGED <<frames, collect, responses>> => ResponsesInv'
  BY DEF ResponsesInv
<1>3. ASSUME NEW k \in Keys, NEW h \in Handlers, Detach(k, h)
      PROVE  ResponsesInv'
  BY <1>1, <1>3, NoLongerDueTouches, ResponsesTouched DEF Detach
<1>4. ASSUME NEW k \in Keys, DetachAllOf(k)
      PROVE  ResponsesInv'
  BY <1>1, <1>4, NoLongerDueTouches, ResponsesTouched DEF DetachAllOf
<1>5. DetachAll => ResponsesInv'
  BY <1>1, NothingDueTouches, ResponsesTouched DEF DetachAll
<1>6. ASSUME NEW on \in BOOLEAN, CollectResponses(on)
      PROVE  ResponsesInv'
  <2>1. frames' = Disturbed
    BY <1>6 DEF CollectResponses, Disturbed
  <2>2. \A i \in DOMAIN frames' : frames'[i].disturbed
    BY <1>1, <2>1, DisturbedAll
  <2> QED
    BY <2>2 DEF ResponsesInv
<1>7. ASSUME NEW k \in Keys, NEW h \in Handlers, NEW p \in Priorities, Attach(k, h, p)
      PROVE  ResponsesInv'
  BY <1>2, <1>7 DEF Attach
<1>8. ASSUME NEW k \in Keys, DetachThrows(k)
      PROVE  ResponsesInv'
  BY <1>2, <1>8 DEF DetachThrows
<1>9. ASSUME NEW on \in BOOLEAN, EnablePriorities(on)
      PROVE  ResponsesInv'
  BY <1>2, <1>9 DEF EnablePriorities
<1> QED
  BY <1>3, <1>4, <1>5, <1>6, <1>7, <1>8, <1>9

LEMMA FireResponses ==
    ASSUME Shapes, ResponsesInv
    PROVE  /\ \A cancelable \in BOOLEAN : Fire(cancelable) => ResponsesInv'
           /\ OpenQueue \/ CallNext \/ Stop \/ HandlerReturns => ResponsesInv'
           /\ OpenThrows \/ FireReturns \/ HandlerThrows => ResponsesInv'
<1>1. Types /\ FramesInv /\ frames \in Seq(FrameType)
  BY DEF Shapes, Types
<1>2. frames # <<>> =>
         /\ Top \in FrameType /\ TodoInv(Top) /\ StopInv(Top)
         /\ ~Top.disturbed =>
               /\ collect => responses = Top.own
               /\ Top.collecting => collect
               /\ Top.left # {} \/ Top.running # None => Top.collecting = collect
  BY <1>1, TopFrame DEF FramesInv, ResponsesInv
<1>3. ASSUME NEW cancelable \in BOOLEAN, Fire(cancelable)
      PROVE  ResponsesInv'
  <2> DEFINE g == Frame(cancelable)
  <2>1. g.own = <<>> /\ ~g.collecting /\ g.left = {} /\ g.running = None
    BY <1>1, NewFrame
  <2>2. /\ frames' = Append(Disturbed, g) /\ collect' = collect
        /\ responses' = IF collect THEN <<>> ELSE responses
    BY <1>3 DEF Fire, Disturbed, flags
  <2> HIDE DEF g
  <2>3. /\ Disturbed \in Seq(FrameType) /\ DOMAIN Disturbed = DOMAIN frames
        /\ Len(Disturbed) = Len(frames)
        /\ \A i \in DOMAIN frames : Disturbed[i].disturbed
    BY <1>1, DisturbedAll
  <2>4. ASSUME NEW i \in DOMAIN frames', ~frames'[i].disturbed
        PROVE  i = Len(frames') /\ frames'[i] = g
    <3>1. Len(frames') = Len(frames) + 1 /\ Len(frames) \in Nat
      BY <1>1, <2>2, <2>3
    <3>2. i \in DOMAIN frames \/ i = Len(frames) + 1
      BY <1>1, <2>2, <2>3
    <3>3. i \in DOMAIN frames => frames'[i] = Disturbed[i]
      BY <1>1, <2>2, <2>3
    <3>4. frames'[Len(frames) + 1] = g
      BY <1>1, <2>2, <2>3
    <3> QED
      BY <2>3, <2>4, <3>1, <3>2, <3>3, <3>4
  <2> QED
    BY <2>1, <2>2, <2>4 DEF ResponsesInv
<1>4. ASSUME OpenQueue
      PROVE  ResponsesInv'
  <2> DEFINE g == AfterOpening(Top)
  <2>1. /\ frames # <<>> /\ Top.running = None /\ Top.left = {} /\ Top.todo # <<>>
        /\ collect' = collect /\ responses' = responses
        /\ SetTop(g)
    BY <1>4 DEF OpenQueue, Between, Opened, AfterOpening, flags
  <2>2. /\ g \in FrameType /\ g.collecting = collect /\ g.own = Top.own
        /\ (g.disturbed <=> Top.disturbed)
    BY <1>1, <1>2, <2>1, OpenedFrame
  <2> HIDE DEF g
  <2> QED
    BY <1>2, <2>1, <2>2, ResponsesTop
<1>5. ASSUME CallNext
      PROVE  ResponsesInv'
  <2>1. /\ frames # <<>> /\ Top.running = None
        /\ collect' = collect /\ responses' = responses
    BY <1>5 DEF CallNext, Between, flags
  <2>2. PICK x \in Highest(Top.left) : SetTop(Passed(Top, x)) \/ SetTop(Called(Top, x))
    BY <1>5 DEF CallNext
  <2>3. x \in Top.left
    BY DEF Highest
  <2>4. Passed(Top, x) \in FrameType /\ Called(Top, x) \in FrameType
    BY <1>2, <2>1, <2>3, TakenFrame
  <2>5. /\ Passed(Top, x).own = Top.own /\ Passed(Top, x).collecting = Top.collecting
        /\ Passed(Top, x).disturbed = Top.disturbed
        /\ Called(Top, x).own = Top.own /\ Called(Top, x).collecting = Top.collecting
        /\ Called(Top, x).disturbed = Top.disturbed
    BY <1>2, <2>1 DEF Passed, Called, FrameType
  <2>6. \A g \in FrameType :
           /\ g.own = Top.own /\ g.collecting = Top.collecting
           /\ g.disturbed = Top.disturbed /\ SetTop(g)
           => ResponsesInv'
    BY <1>2, <2>1, <2>3, ResponsesTop
  <2> QED
    BY <2>2, <2>4, <2>5, <2>6
<1>6. ASSUME Stop
      PROVE  ResponsesInv'
  <2> DEFINE g == [Top EXCEPT !.stopped = TRUE]
  <2>1. /\ frames # <<>> /\ Top.running # None /\ Top.cancelable /\ SetTop(g)
        /\ collect' = collect /\ responses' = responses
    BY <1>6 DEF Stop, flags
  <2>2. g \in FrameType
    BY <1>2, <2>1, HeardFrame
  <2>3. /\ g.own = Top.own /\ g.collecting = Top.collecting /\ g.disturbed = Top.disturbed
        /\ g.left = Top.left /\ g.running = Top.running
    BY <1>2, <2>1 DEF FrameType
  <2> HIDE DEF g
  <2> QED
    BY <1>2, <2>1, <2>2, <2>3, ResponsesTop
<1>7. ASSUME HandlerReturns
      PROVE  ResponsesInv'
  <2> DEFINE own == IF Top.collecting /\ ~Top.disturbed
                    THEN Append(Top.own, Top.running) ELSE Top.own
             g == [Top EXCEPT !.running = None, !.left = LeftAfter(Top), !.own = own]
  <2>1. /\ frames # <<>> /\ Top.running # None /\ SetTop(g) /\ collect' = collect
        /\ responses' = IF Top.collecting THEN Append(responses, Top.running) ELSE responses
    BY <1>7 DEF HandlerReturns, flags
  <2>2. Top.running \in Handlers /\ Top.own \in Seq(Handlers)
    BY <1>2, <2>1, FrameParts
  <2>3. own \in Seq(Handlers)
    BY <2>2
  <2>4. ~Top.disturbed /\ collect => responses' = own
    BY <1>2, <2>1
  <2> HIDE DEF own
  <2>5. g \in FrameType
    BY <1>2, <2>1, <2>3, HeardFrame
  <2>6. g.own = own /\ g.collecting = Top.collecting /\ g.disturbed = Top.disturbed
    BY <1>2, <2>1 DEF FrameType
  <2> HIDE DEF g
  <2> QED
    BY <1>2, <2>1, <2>4, <2>5, <2>6, ResponsesTop
<1>8. ASSUME OpenThrows \/ FireReturns \/ HandlerThrows
      PROVE  ResponsesInv'
  <2>1. frames # <<>> /\ frames' = Front(frames)
    BY <1>8 DEF OpenThrows, FireReturns, HandlerThrows, Between, Unwind
  <2>2. /\ Len(frames) \in Nat /\ DOMAIN frames' = 1 .. Len(frames) - 1
        /\ \A i \in DOMAIN frames' : i \in DOMAIN frames /\ frames'[i] = frames[i]
    BY <1>1, <2>1, FrontFrames
  <2>3. \A i \in DOMAIN frames' : frames'[i].disturbed
    BY <2>2 DEF ResponsesInv
  <2> QED
    BY <2>3 DEF ResponsesInv
<1> QED
  BY <1>3, <1>4, <1>5, <1>6, <1>7, <1>8

\* As long as no listener fires an event itself and nobody switches
\* collecting on or off, getResponses() gives what this call's listeners
\* answered, those of both queues.
THEOREM ResponsesCorrect == Spec => []ResponsesComplete
<1>1. Init => ResponsesInv
  BY DEF Init, ResponsesInv
<1>2. Shapes /\ ResponsesInv /\ [Next]_vars => ResponsesInv'
  <2> SUFFICES ASSUME Shapes, ResponsesInv, [Next]_vars PROVE ResponsesInv'
    OBVIOUS
  <2>1. CASE Next
    BY <2>1, ChangeResponses, FireResponses DEF Next
  <2>2. CASE UNCHANGED vars
    BY <2>2 DEF vars, flags, ResponsesInv
  <2> QED
    BY <2>1, <2>2
<1>3. Spec => [](Shapes /\ ResponsesInv)
  BY <1>1, <1>2, InitShapes, NextShapes, PTL DEF Spec
<1>4. Shapes /\ ResponsesInv => ResponsesComplete
  BY DEF ResponsesInv, ResponsesComplete
<1> QED
  BY <1>3, <1>4, PTL
============================================================================
