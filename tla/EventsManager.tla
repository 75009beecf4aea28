--------------------------- MODULE EventsManager ---------------------------
(***************************************************************************)
(* Phalcon\Events\Manager and Phalcon\Events\Event: the listeners of one   *)
(* type of events, registered under the type ("db") and under one event of *)
(* it ("db:beforeQuery"), and the fire() calls of that event.              *)
(*                                                                         *)
(* A listener is application code: while it runs it may attach and detach  *)
(* listeners, stop its event, fire the event again (fire() calls nest) and *)
(* throw.  The calls of fire() in progress are a stack of frames; only the *)
(* listener of the innermost one runs.                                     *)
(*                                                                         *)
(* The queues are SplPriorityQueue objects (external): a clone of one is   *)
(* iterated, and iterating takes elements out; top() throws on an empty    *)
(* queue; among equal priorities any element may come first; with the      *)
(* flag EXTR_BOTH an element comes out as an array, not as the listener.   *)
(***************************************************************************)
EXTENDS Naturals, Sequences, FiniteSets, SequencesExt

CONSTANTS Handlers,    \* listeners
          Deaf,        \* those that are objects without a method for the event
          None,        \* no listener
          Priorities,  \* priorities attach() is called with
          Default,     \* Manager::DEFAULT_PRIORITY
          MaxListed,   \* bound: listeners in one queue
          MaxDepth,    \* bound: nested fire() calls
          MaxQueues,   \* bound: queue objects alive at the same time
          MaxChanges   \* bound: calls that attach, detach or set a flag

ASSUME HandlersAssumption == Deaf \subseteq Handlers /\ None \notin Handlers
ASSUME PrioritiesAssumption == Priorities \subseteq Nat /\ Default \in Nat
ASSUME BoundsAssumption == MaxListed \in Nat /\ MaxDepth \in Nat
ASSUME MoreBoundsAssumption == MaxQueues \in Nat /\ MaxChanges \in Nat

VARIABLES listening,         \* this->events is an array (it may be null)
          events,            \* this->events: key -> queue object, 0 for none
          queues,            \* the queue objects
          enablePriorities,
          collect,
          responses,         \* a response is named after who gave it
          frames,            \* calls of fire(), innermost last
          blundered,         \* a detach() has thrown so far (history)
          changes            \* calls counted by MaxChanges

vars == <<listening, events, queues, enablePriorities, collect, responses, frames,
          blundered, changes>>
flags == <<enablePriorities, collect>>

Keys == {"type", "event"}
Ids  == 1 .. MaxQueues

Listener == [handler : Handlers, priority : Priorities \cup {Default}]

EmptyQueue == [items |-> {}, both |-> FALSE]

\* No listener of an inner call runs: the application, or the listener of
\* the innermost call, has control.
Top  == Last(frames)
Free == frames # <<>> => Top.running # None

SetTop(f) == frames' = Append(Front(frames), f)

----------------------------------------------------------------------------
(* Queue objects live as long as the manager or a fire() call refers to    *)
(* them (PHP object lifetime).                                             *)

Referred(evs, frs) ==
    {evs[k] : k \in Keys} \cup UNION {{frs[i].snap[k] : k \in Keys} : i \in DOMAIN frs}

Kept(qs, evs, frs) ==
    [q \in Ids |-> IF q \in Referred(evs, frs) THEN qs[q] ELSE EmptyQueue]

Unused == {q \in Ids : q \notin Referred(events, frames)}
NewId  == CHOOSE q \in Unused : \A r \in Unused : q <= r

----------------------------------------------------------------------------
(* Registering listeners *)

Init ==
    /\ listening = FALSE
    /\ events = [k \in Keys |-> 0]
    /\ queues = [q \in Ids |-> EmptyQueue]
    /\ enablePriorities = FALSE
    /\ collect \in BOOLEAN   \* the application may have switched it on
    /\ responses = <<>>
    /\ frames = <<>>
    /\ blundered = FALSE
    /\ changes = 0

\* One more call of the manager by the code that has control.
Change ==
    /\ Free
    /\ changes < MaxChanges
    /\ changes' = changes + 1

Attached(h, priority) ==
    [handler |-> h, priority |-> IF enablePriorities THEN priority ELSE Default]

\* attach(): into the queue of the key, which is made when there is none.
Attach(k, h, priority) ==
    LET q == IF events[k] # 0 THEN events[k] ELSE NewId
        x == Attached(h, priority)
    IN  /\ Change
        /\ events[k] # 0 \/ Unused # {}
        /\ x \notin queues[q].items /\ Cardinality(queues[q].items) < MaxListed
        /\ listening' = TRUE
        /\ events' = [events EXCEPT ![k] = q]
        /\ queues' = [queues EXCEPT ![q].items = @ \cup {x}]
        /\ UNCHANGED <<flags, responses, frames, blundered>>

\* History of the calls in progress: what was detached is no longer due.
NoLongerDue(k, gone) ==
    [i \in DOMAIN frames |-> [frames[i] EXCEPT
        !.due = {d \in @ : ~(d.key = k /\ d.handler \in gone)}]]

\* Mutant: the old queue stays listed.
Rebuilt(k, id) == [events EXCEPT ![k] = @]

Relisted(k, id) == [events EXCEPT ![k] = id]

\* detach(): the elements are taken out of the old queue, which is left
\* empty and with EXTR_BOTH, and put into a new one that replaces it.
Detach(k, h) ==
    /\ Change
    /\ events[k] # 0 /\ queues[events[k]].items # {}
    /\ Unused # {}
    /\ events' = Relisted(k, NewId)
    /\ frames' = NoLongerDue(k, {h})
    /\ queues' = Kept([queues EXCEPT
                         ![events[k]] = [items |-> {}, both |-> TRUE],
                         ![NewId] = [items |-> {x \in queues[events[k]].items : x.handler # h},
                                     both |-> FALSE]],
                      events', frames')
    /\ UNCHANGED <<listening, flags, responses, blundered>>

\* ... unless the queue is empty: top() throws, and the flag stays set.
DetachThrows(k) ==
    /\ Change
    /\ events[k] # 0 /\ queues[events[k]].items = {}
    /\ queues' = [queues EXCEPT ![events[k]].both = TRUE]
    /\ blundered' = TRUE
    /\ UNCHANGED <<listening, events, flags, responses, frames>>

DetachAllOf(k) ==
    /\ Change
    /\ events[k] # 0
    /\ events' = [events EXCEPT ![k] = 0]
    /\ frames' = NoLongerDue(k, Handlers)
    /\ queues' = Kept(queues, events', frames')
    /\ UNCHANGED <<listening, flags, responses, blundered>>

DetachAll ==
    /\ Change
    /\ listening' = FALSE
    /\ events' = [k \in Keys |-> 0]
    /\ frames' = [i \in DOMAIN frames |-> [frames[i] EXCEPT !.due = {}]]
    /\ queues' = Kept(queues, events', frames')
    /\ UNCHANGED <<flags, responses, blundered>>

EnablePriorities(enable) ==
    /\ Change
    /\ enablePriorities' = enable
    /\ UNCHANGED <<listening, events, queues, collect, responses, frames, blundered>>

CollectResponses(on) ==
    /\ Change
    /\ collect' = on
    /\ frames' = [i \in DOMAIN frames |-> [frames[i] EXCEPT !.disturbed = TRUE]]
    /\ UNCHANGED <<listening, events, queues, enablePriorities, responses, blundered>>

----------------------------------------------------------------------------
(* fire().  A frame holds the local variables of a call and of the         *)
(* fireQueue() call it is in:                                              *)
(*   cancelable, stopped   of the event                                    *)
(*   snap                  the array of queues, as it was at the call      *)
(*   todo                  keys whose queue is still to be fired           *)
(*   left, both            the clone being iterated, and its flag          *)
(*   collecting            the flag collect, as fireQueue() read it        *)
(*   running               the listener being called                       *)
(* and, as history,                                                        *)
(*   due                   listeners that were attached at the call, not   *)
(*                         detached since and not heard yet                *)
(*   late                  listeners called after the event was stopped    *)
(*   own                   who answered this call while it was collecting  *)
(*   disturbed             a nested call, or collectResponses(), since,    *)
(*                         after which own is no longer kept               *)

\* Mutant: no test whether there is a queue.
KeysInAll(evs) == <<"type", "event">>

\* Keys fire() looks up, in that order, and finds.
KeysIn(evs) ==
    (IF evs["type"] # 0 THEN <<"type">> ELSE <<>>)
        \o (IF evs["event"] # 0 THEN <<"event">> ELSE <<>>)

\* Listeners of the snapshot that have something to call.
DueIn(evs) ==
    UNION {{[key |-> k, handler |-> x.handler] : x \in queues[evs[k]].items} :
             k \in {j \in Keys : evs[j] # 0}}

Hearing(due) == {d \in due : d.handler \notin Deaf}

Frame(cancelable) ==
    [cancelable |-> cancelable, stopped |-> FALSE, snap |-> events,
     todo |-> KeysIn(events), left |-> {}, both |-> FALSE, collecting |-> FALSE,
     running |-> None, due |-> Hearing(DueIn(events)), late |-> 0, own |-> <<>>,
     disturbed |-> FALSE]

\* fire() answers null without further ado when there is no array.
Fire(cancelable) ==
    /\ Free
    /\ listening
    /\ Len(frames) < MaxDepth
    /\ responses' = IF collect THEN <<>> ELSE responses
    /\ frames' = Append([i \in DOMAIN frames |-> [frames[i] EXCEPT !.disturbed = TRUE]],
                        Frame(cancelable))
    /\ UNCHANGED <<listening, events, queues, flags, blundered, changes>>

\* The call is between two listeners.
Between == frames # <<>> /\ Top.running = None

\* The innermost call is over, by return or by exception.
Unwind ==
    /\ frames' = Front(frames)
    /\ queues' = Kept(queues, events, frames')

\* Mutant: fireQueue() forgets the responses to the queue before.
OpenedForgetting(f, q) ==
    /\ SetTop([f EXCEPT !.todo = Tail(@), !.left = queues[q].items,
                        !.both = queues[q].both, !.collecting = collect])
    /\ responses' = <<>>

\* fireQueue() on queue q: it is cloned, and the flag is read.
Opened(f, q) ==
    /\ SetTop([f EXCEPT !.todo = Tail(@), !.left = queues[q].items,
                        !.both = queues[q].both, !.collecting = collect])
    /\ UNCHANGED responses

OpenQueue ==
    /\ Between /\ Top.left = {} /\ Top.todo # <<>>
    /\ queues[Top.snap[Head(Top.todo)]].items # {}
    /\ Opened(Top, Top.snap[Head(Top.todo)])
    /\ UNCHANGED <<listening, events, queues, flags, blundered, changes>>

\* top() of an empty queue throws; the exception leaves fire().
OpenThrows ==
    /\ Between /\ Top.left = {} /\ Top.todo # <<>>
    /\ queues[Top.snap[Head(Top.todo)]].items = {}
    /\ Unwind
    /\ UNCHANGED <<listening, events, flags, responses, blundered, changes>>

FireReturns ==
    /\ Between /\ Top.left = {} /\ Top.todo = <<>>
    /\ Unwind
    /\ UNCHANGED <<listening, events, flags, responses, blundered, changes>>

\* Elements current() may answer next.
Highest(items) == {x \in items : \A y \in items : y.priority <= x.priority}

\* The key of the queue being fired.
FiredKey(f) ==
    IF f.todo # <<>> THEN "type" ELSE IF f.snap["event"] # 0 THEN "event" ELSE "type"

\* Mutant: a listener that has no method for the event ends the queue.
PassedEnding(f, x) == [f EXCEPT !.left = {}]

\* An element that is not called: without a method of the event's name, or
\* an array where a listener is expected.
Passed(f, x) == [f EXCEPT !.left = @ \ {x}]

Called(f, x) ==
    [f EXCEPT !.left = @ \ {x}, !.running = x.handler,
              !.due = @ \ {[key |-> FiredKey(f), handler |-> x.handler]},
              !.late = @ + (IF f.stopped THEN 1 ELSE 0)]

CallNext ==
    /\ Between
    /\ \E x \in Highest(Top.left) :
          SetTop(IF Top.both \/ x.handler \in Deaf THEN Passed(Top, x) ELSE Called(Top, x))
    /\ UNCHANGED <<listening, events, queues, flags, responses, blundered, changes>>

----------------------------------------------------------------------------
(* What a listener does with its event *)

\* Event.stop(); of an event that is not cancelable it throws.
Stop ==
    /\ frames # <<>> /\ Top.running # None
    /\ Top.cancelable
    /\ SetTop([Top EXCEPT !.stopped = TRUE])
    /\ UNCHANGED <<listening, events, queues, flags, responses, blundered, changes>>

\* Mutant: the event is not asked whether it was stopped.
LeftAnyway(f) == f.left

\* The rest of the queue after a listener has returned.
LeftAfter(f) == IF f.cancelable /\ f.stopped THEN {} ELSE f.left

HandlerReturns ==
    /\ frames # <<>> /\ Top.running # None
    /\ responses' = IF Top.collecting THEN Append(responses, Top.running) ELSE responses
    /\ SetTop([Top EXCEPT !.running = None, !.left = LeftAfter(Top),
                          !.own = IF Top.collecting /\ ~Top.disturbed
                                  THEN Append(@, Top.running) ELSE @])
    /\ UNCHANGED <<listening, events, queues, flags, blundered, changes>>

\* The listener throws, or lets an exception of an inner call pass.
HandlerThrows ==
    /\ frames # <<>> /\ Top.running # None
    /\ Unwind
    /\ UNCHANGED <<listening, events, flags, responses, blundered, changes>>

Next ==
    \/ \E k \in Keys, h \in Handlers, p \in Priorities : Attach(k, h, p)
    \/ \E k \in Keys, h \in Handlers : Detach(k, h)
    \/ \E k \in Keys : DetachThrows(k) \/ DetachAllOf(k)
    \/ DetachAll
    \/ \E on \in BOOLEAN : EnablePriorities(on) \/ CollectResponses(on)
    \/ \E cancelable \in BOOLEAN : Fire(cancelable)
    \/ OpenQueue \/ OpenThrows \/ FireReturns
    \/ CallNext
    \/ Stop \/ HandlerReturns \/ HandlerThrows

Spec == Init /\ [][Next]_vars

----------------------------------------------------------------------------
(* Properties *)

Queue == [items : SUBSET Listener, both : BOOLEAN]

FrameType ==
    [cancelable : BOOLEAN, stopped : BOOLEAN, snap : [Keys -> 0 .. MaxQueues],
     todo : Seq(Keys), left : SUBSET Listener, both : BOOLEAN, collecting : BOOLEAN,
     running : Handlers \cup {None}, due : SUBSET [key : Keys, handler : Handlers],
     late : Nat, own : Seq(Handlers), disturbed : BOOLEAN]

\* Every queue a call in progress still has to fire is one of its snapshot,
\* and the flags and queues keep their shapes.
TypeOK ==
    /\ listening \in BOOLEAN
    /\ events \in [Keys -> 0 .. MaxQueues]
    /\ queues \in [Ids -> Queue]
    /\ enablePriorities \in BOOLEAN /\ collect \in BOOLEAN
    /\ responses \in Seq(Handlers)
    /\ frames \in Seq(FrameType)
    /\ blundered \in BOOLEAN /\ changes \in 0 .. MaxChanges
    /\ \A i \in DOMAIN frames, j \in 1 .. 2 :
          j \in DOMAIN frames[i].todo => frames[i].snap[frames[i].todo[j]] # 0

\* A call of fire() that is about to return.
Returning(f) == f.running = None /\ f.left = {} /\ f.todo = <<>>

\* fire() that comes to its end without stop() has called every listener
\* that was attached when it started and that nobody has detached since, no
\* matter what listeners attach, detach and fire meanwhile.  It takes that no
\* detach() was called on an emptied queue before: see ListedQueuesDeliver.
NoneSkipped ==
    ~blundered => \A i \in DOMAIN frames :
        Returning(frames[i]) /\ ~frames[i].stopped => frames[i].due = {}

\* stop() ends the queue it is called in, not the call: with listeners under
\* both keys one more listener hears the event, the first of the second
\* queue, and never a second one.
StopSilences ==
    \A i \in DOMAIN frames :
        /\ frames[i].late <= 1
        /\ frames[i].late = 1 => frames[i].snap["type"] # 0 /\ frames[i].todo = <<>>

\* Manager.zep:337, of getResponses(): "Returns all the responses returned by
\* every handler executed by the last 'fire' executed".  It does for calls
\* of both queues, as long as no listener fires an event itself and nobody
\* switches collecting on or off meanwhile.
ResponsesComplete ==
    \A i \in DOMAIN frames :
        Returning(frames[i]) /\ frames[i].collecting /\ ~frames[i].disturbed
            => responses = frames[i].own

\* A queue that is listed, or will be fired by a call in progress, gives its
\* elements as listeners: the flag that detach() sets for its own reading
\* stays on emptied queues.  It gets into a queue that is filled again only
\* by a detach() that threw, and then its listeners are never called.
ListedQueuesDeliver ==
    ~blundered => \A q \in Ids :
        /\ queues[q].both => queues[q].items = {} /\ \A k \in Keys : events[k] # q
        /\ \A i \in DOMAIN frames : ~frames[i].both

----------------------------------------------------------------------------
(* What the comments of the class say *)

\* Manager.zep:171, of fire(): "Fires an event in the events manager causing
\* the active listeners to be notified about it".  When a call turns to a
\* queue some of whose listeners nobody has detached, it can fire it.
ActiveListenersNotified ==
    \A i \in DOMAIN frames :
        \A d \in frames[i].due :
            (\E j \in DOMAIN frames[i].todo : frames[i].todo[j] = d.key) =>
                queues[frames[i].snap[d.key]].items # {}
=============================================================================
