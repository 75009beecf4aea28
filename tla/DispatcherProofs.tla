-------------------------- MODULE DispatcherProofs --------------------------
(* What dispatch() does in every application: any handlers, routes and     *)
(* hooks, any limit, any reuse of hashes.                                  *)
EXTENDS Dispatcher, TLAPS

InLoop == pc \notin {"idle", "beforeLoop", "afterLoop"}

\* Before initialize() has run in a round with a new handler.
Fresh == pc \in {"beforeExecuteRoute", "beforeExecuteRouteMethod", "initialize"}

\* The limit is ahead while the loop runs, and the loop is not left early.
LoopInv ==
    /\ count \in Nat
    /\ InLoop => count < Limit
    /\ NoForwardLost

\* There is a route to follow, and a handler is looked up for one.
RouteInv ==
    /\ pc # "idle" => route \in Routes
    /\ pc = "load" => current \in Routes

\* The hash of every object that was initialized is remembered, so that no
\* hash that makes a handler new is the hash of such an object.
HandlerInv ==
    /\ hashOf \in Seq(Nat)
    /\ shared \in [Classes -> {0} \cup Objects]
    /\ initialized \subseteq Objects
    /\ \A o \in initialized : hashOf[o] \in handlerHashes
    /\ Fresh => handler \in Objects /\ hashOf[handler] \in handlerHashes
    /\ Fresh /\ isNewHandler => handler \notin initialized
    /\ pc = "initialize" => isNewHandler

----------------------------------------------------------------------------
(* What a hook leaves behind *)

\* A verdict is one of three, and a round goes on only without a forward.
LEMMA GuardedVerdict ==
    ASSUME NEW o \in Outcomes, NEW ex, NEW hooking, NEW catching
    PROVE  LET v == Guarded(o, ex, hooking, catching)
           IN  v.verdict \in {"escape", "again", "on"} /\ (v.verdict = "on" => v.finished)
<1> DEFINE after == After([route |-> route, finished |-> finished], o, hooking)
<1>1. o.ret \in {"on", "false", "throw", "error"}
  BY RetsAssumption DEF Outcomes
<1>2. CASE Throws(o, hooking)
  BY <1>2 DEF Guarded, Caught
<1>3. CASE ~Throws(o, hooking) /\ o.ret = "error"
  BY <1>3 DEF Guarded
<1>4. CASE ~Throws(o, hooking) /\ o.ret = "false"
  BY <1>4 DEF Guarded
<1>5. CASE ~Throws(o, hooking) /\ o.ret = "on" /\ after.finished
  BY <1>5 DEF Guarded
<1>6. CASE ~Throws(o, hooking) /\ o.ret = "on" /\ ~after.finished
  BY <1>6 DEF Guarded
<1> QED
  BY <1>1, <1>2, <1>3, <1>4, <1>5, <1>6 DEF Throws

LEMMA UnguardedVerdict ==
    ASSUME NEW o \in Outcomes
    PROVE  Unguarded(o).verdict \in {"escape", "again", "on"}
<1> DEFINE threw == Throws(o, isControllerInitialize)
           after == After([route |-> route, finished |-> finished], o, isControllerInitialize)
<1>1. o.ret \in {"on", "false", "throw", "error"}
  BY RetsAssumption DEF Outcomes
<1>2. CASE o.ret = "error" \/ threw
  BY <1>2 DEF Unguarded
<1>3. CASE ~threw /\ o.ret = "false"
  BY <1>3 DEF Unguarded
<1>4. CASE ~threw /\ o.ret = "on"
  BY <1>4 DEF Unguarded
<1> QED
  BY <1>1, <1>2, <1>3, <1>4 DEF Throws

\* Where the code goes on, and that the handler is kept on the way.
LEMMA ProceedEffect ==
    ASSUME NEW r, NEW next, r.verdict \in {"escape", "again", "on"}, Proceed(r, next)
    PROVE  /\ \/ pc' = "idle" \/ pc' = "top"
              \/ pc' = "afterLoop" /\ finished'
              \/ pc' = next /\ r.verdict = "on"
           /\ finished' = r.finished
           /\ pc' = "idle" \/ handler' = handler
<1>1. finished' = r.finished
  BY DEF Proceed
<1>2. CASE r.verdict = "escape"
  BY <1>1, <1>2 DEF Proceed, Leave
<1>3. CASE r.verdict = "again" /\ r.finished
  BY <1>1, <1>3 DEF Proceed
<1>4. CASE r.verdict = "again" /\ ~r.finished
  BY <1>1, <1>4 DEF Proceed
<1>5. CASE r.verdict = "on"
  BY <1>1, <1>5 DEF Proceed
<1> QED BY <1>2, <1>3, <1>4, <1>5

\* A hook inside a try: one of the ways on, and next only without a forward.
LEMMA HookEffect ==
    ASSUME NEW o \in Outcomes, NEW ex, NEW here, NEW next, GuardedHook(here, o, ex, next)
    PROVE  /\ pc = here
           /\ \/ pc' = "idle" \/ pc' = "top"
              \/ pc' = "afterLoop" /\ finished'
              \/ pc' = next /\ finished'
           /\ pc' = "idle" \/ handler' = handler
<1> DEFINE r == Guarded(o, ex, isControllerInitialize, isControllerInitialize)
<1>1. pc = here /\ Proceed(r, next)
  BY DEF GuardedHook
<1>2. r.verdict \in {"escape", "again", "on"} /\ (r.verdict = "on" => r.finished)
  BY GuardedVerdict
<1> HIDE DEF r
<1> QED BY <1>1, <1>2, ProceedEffect

----------------------------------------------------------------------------
(* The loop *)

LEMMA TakeEffect ==
    ASSUME NEW o, NEW hash, Take(o, hash)
    PROVE  pc' \in {"refused", "notFound", "beforeExecuteRoute"}
<1>1. CASE current.kind = "badParams"
  BY <1>1 DEF Take
<1>2. CASE current.kind = "noAction"
  BY <1>2 DEF Take
<1>3. CASE current.kind \notin {"badParams", "noAction"}
  BY <1>3 DEF Take
<1> QED BY <1>1, <1>2, <1>3

\* Ignoring a result leaves an outcome.
LEMMA DeafOutcome == ASSUME NEW o \in Outcomes PROVE Deaf(o) \in Outcomes
  BY RetsAssumption DEF Deaf, Outcomes

LEMMA LoopStep == LoopInv /\ [Next]_vars => LoopInv'
<1> SUFFICES ASSUME LoopInv, [Next]_vars PROVE LoopInv'
  OBVIOUS
<1> USE BoundsAssumption
<1> DEFINE outside == {"idle", "beforeLoop", "afterLoop"}
\* A step from inside that keeps count and leaves as a hook may.
<1>0. ASSUME pc \notin outside, count' = count,
             \/ pc' = "idle" \/ pc' \notin outside
             \/ pc' = "afterLoop" /\ finished'
      PROVE  LoopInv'
  BY <1>0 DEF LoopInv, InLoop, NoForwardLost
<1>1. ASSUME NEW r \in Routes, Dispatch(r) PROVE LoopInv'
  BY <1>1 DEF Dispatch, LoopInv, InLoop, NoForwardLost, roundVars
<1>2. CASE Top
  BY <1>2 DEF Top, LoopInv, InLoop, NoForwardLost
<1>3. CASE NoHandler
  BY <1>0, <1>3 DEF NoHandler, roundVars
<1>4. CASE KnownHandler
  BY <1>0, <1>4, TakeEffect DEF KnownHandler
<1>5. ASSUME NEW hash \in NewHashes, NewHandler(hash) PROVE LoopInv'
  <2>1. pc = "load" /\ count' = count /\ Take(Len(hashOf) + 1, hash)
    BY <1>5 DEF NewHandler
  <2> QED BY <1>0, <2>1, TakeEffect
<1>6. ASSUME NEW ex \in Answers, Refused(ex) PROVE LoopInv'
  <2>1. PICK v : /\ Proceed(v, "top") /\ v.verdict \in {"escape", "again", "on"}
                 /\ pc = "refused" /\ count' = count
    BY <1>6 DEF Refused, Refuse, roundVars
  <2> QED BY <1>0, <2>1, ProceedEffect
<1>7. ASSUME NEW ex \in Answers, Cyclic(ex) PROVE LoopInv'
  <2>1. pc = "top" /\ count' = count + 1 /\ count' = Limit /\ pc' \in {"afterLoop", "idle"}
    BY <1>7 DEF Cyclic, Leave, LoopInv, InLoop
  <2> QED BY <2>1 DEF LoopInv, InLoop, NoForwardLost
<1>8. ASSUME NEW o \in Outcomes, BeforeNotFoundAction(o) PROVE LoopInv'
  BY <1>0, <1>8, UnguardedVerdict, ProceedEffect DEF BeforeNotFoundAction, roundVars
<1>9. ASSUME NEW o \in Outcomes, NEW here \in {"binding", "afterBinding"},
             NEW next \in {"afterBinding", "action"}, AfterBinding(here, next, o)
      PROVE  LoopInv'
  BY <1>0, <1>9, UnguardedVerdict, ProceedEffect DEF AfterBinding, roundVars
<1>10. ASSUME NEW o \in Outcomes, NEW ex \in Answers, BeforeDispatchLoop(o, ex)
       PROVE  LoopInv'
  <2>1. \/ pc' = "idle" /\ count' = count
        \/ pc' = "top" /\ count' = 0
    BY <1>10 DEF BeforeDispatchLoop, Leave
  <2> QED BY <2>1 DEF LoopInv, InLoop, NoForwardLost
<1>11. ASSUME NEW o \in Outcomes, NEW ex \in Answers, BeforeDispatch(o, ex)
       PROVE  LoopInv'
  BY <1>0, <1>11, HookEffect DEF BeforeDispatch
<1>12. ASSUME NEW o \in Outcomes, NEW ex \in Answers,
              NEW here \in {"beforeExecuteRoute", "beforeExecuteRouteMethod"},
              NEW next \in {"beforeExecuteRouteMethod", "initialize", "binding"},
              BeforeExecuteRoute(here, next, o, ex)
       PROVE  LoopInv'
  BY <1>0, <1>12, HookEffect DEF BeforeExecuteRoute, roundVars
<1>13. ASSUME NEW o \in Outcomes, NEW ex \in Answers, Initialize(o, ex)
       PROVE  LoopInv'
  <2> DEFINE r == Guarded(Deaf(o), ex, TRUE, FALSE)
  <2>1. r.verdict \in {"escape", "again", "on"}
    BY DeafOutcome, GuardedVerdict
  <2>2. Proceed(r, "afterInitialize") /\ pc = "initialize" /\ count' = count
    BY <1>13 DEF Initialize, roundVars
  <2> HIDE DEF r
  <2> QED BY <1>0, <2>1, <2>2, ProceedEffect
<1>14. ASSUME NEW o \in Outcomes, NEW ex \in Answers,
              NEW here \in {"afterInitialize", "afterExecuteRoute", "afterExecuteRouteMethod"},
              NEW next \in {"binding", "afterExecuteRouteMethod", "afterDispatch"},
              Hook(here, next, o, ex)
       PROVE  LoopInv'
  BY <1>0, <1>14, HookEffect DEF Hook, roundVars
<1>16. ASSUME NEW o \in Outcomes, NEW ex \in Answers, CallAction(o, ex)
       PROVE  LoopInv'
  BY <1>0, DeafOutcome, <1>16, HookEffect DEF CallAction, roundVars
<1>17. ASSUME NEW o \in Outcomes, NEW ex \in Answers, AfterDispatch(o, ex)
       PROVE  LoopInv'
  BY <1>0, DeafOutcome, <1>17, HookEffect DEF AfterDispatch, roundVars
<1>18. ASSUME NEW o \in Outcomes, NEW ex \in Answers, AfterDispatchLoop(o, ex)
       PROVE  LoopInv'
  BY <1>18 DEF AfterDispatchLoop, Leave, LoopInv, InLoop, NoForwardLost, roundVars
<1>19. CASE UNCHANGED vars
  BY <1>19 DEF vars, LoopInv, InLoop, NoForwardLost
<1> QED
  BY <1>1, <1>2, <1>3, <1>4, <1>5, <1>6, <1>7, <1>8, <1>9, <1>10, <1>11, <1>12, <1>13,
     <1>14, <1>16, <1>17, <1>18, <1>19 DEF Next, Step, AfterMethod

\* No forward is lost: whatever listeners and handlers do, the loop is left
\* with a forward pending only at its limit.
THEOREM ForwardsAreFollowed == Spec => []NoForwardLost
<1>1. Init => LoopInv
  BY BoundsAssumption DEF Init, LoopInv, InLoop, NoForwardLost
<1>2. LoopInv => NoForwardLost
  BY DEF LoopInv
<1> QED
  BY <1>1, <1>2, LoopStep, PTL DEF Spec

----------------------------------------------------------------------------
(* Routes *)

LEMMA AfterRoute ==
    ASSUME NEW r, r.route \in Routes, NEW o, o.fwd \in Routes \cup {NoRoute}, NEW initializing
    PROVE  After(r, o, initializing).route \in Routes
  BY DEF After, Forwards

LEMMA GuardedRoute ==
    ASSUME NEW o \in Outcomes, NEW ex \in Answers, NEW hooking, NEW catching, route \in Routes
    PROVE  Guarded(o, ex, hooking, catching).route \in Routes
<1> DEFINE r == [route |-> route, finished |-> finished]
           after == After(r, o, hooking)
<1>1. after.route \in Routes
  BY AfterRoute DEF Outcomes
<1>2. CASE Throws(o, hooking)
  <2>1. Guarded(o, ex, hooking, catching).route = After(after, ex, catching).route
    BY <1>2 DEF Guarded, Caught
  <2> HIDE DEF after
  <2> QED BY <1>1, <2>1, AfterRoute DEF Answers
<1>3. CASE ~Throws(o, hooking)
  BY <1>1, <1>3 DEF Guarded
<1> QED BY <1>2, <1>3

LEMMA UnguardedRoute ==
    ASSUME NEW o \in Outcomes, route \in Routes
    PROVE  Unguarded(o).route \in Routes
  BY AfterRoute DEF Unguarded, Outcomes

LEMMA HookRoute ==
    ASSUME NEW o \in Outcomes, NEW ex \in Answers, NEW here, NEW next,
           GuardedHook(here, o, ex, next), route \in Routes
    PROVE  route' \in Routes
  BY GuardedRoute DEF GuardedHook, Proceed

LEMMA RouteStep == RouteInv /\ [Next]_vars => RouteInv'
<1> SUFFICES ASSUME RouteInv, [Next]_vars PROVE RouteInv'
  OBVIOUS
\* A step that does not go to the look-up.
<1>0. ASSUME pc' # "load", pc' = "idle" \/ route' \in Routes PROVE RouteInv'
  BY <1>0 DEF RouteInv
<1>1. ASSUME NEW r \in Routes, Dispatch(r) PROVE RouteInv'
  BY <1>0, <1>1 DEF Dispatch
<1>2. CASE Top
  BY <1>0, <1>2 DEF Top, RouteInv
<1>3. CASE NoHandler
  BY <1>0, <1>3 DEF NoHandler, RouteInv
<1>4. CASE KnownHandler
  BY <1>0, <1>4, TakeEffect DEF KnownHandler, RouteInv
<1>5. ASSUME NEW hash \in NewHashes, NewHandler(hash) PROVE RouteInv'
  <2>1. pc = "load" /\ route' = route /\ Take(Len(hashOf) + 1, hash)
    BY <1>5 DEF NewHandler
  <2> QED BY <1>0, <2>1, TakeEffect DEF RouteInv
<1>6. ASSUME NEW ex \in Answers, Refused(ex) PROVE RouteInv'
  <2> DEFINE r == After([route |-> route, finished |-> finished], ex, isControllerInitialize)
  <2>1. r.route \in Routes
    BY <1>6, AfterRoute DEF Refused, RouteInv, Answers
  <2>2. route' = r.route
    BY <1>6 DEF Refused, Refuse, Proceed
  <2>3. PICK v : Proceed(v, "top") /\ v.verdict \in {"escape", "again", "on"}
    BY <1>6 DEF Refused, Refuse
  <2>4. pc' # "load"
    BY <2>3, ProceedEffect
  <2> QED BY <1>0, <2>1, <2>2, <2>4
<1>7. ASSUME NEW ex \in Answers, Cyclic(ex) PROVE RouteInv'
  <2> DEFINE r == After([route |-> route, finished |-> finished], ex, isControllerInitialize)
  <2>1. r.route \in Routes
    BY <1>7, AfterRoute DEF Cyclic, RouteInv, Answers
  <2>2. route' = r.route /\ pc' \in {"afterLoop", "idle"}
    BY <1>7 DEF Cyclic, Leave
  <2> QED BY <1>0, <2>1, <2>2
<1>8. ASSUME NEW o \in Outcomes, BeforeNotFoundAction(o) PROVE RouteInv'
  <2>1. pc = "notFound" /\ Proceed(Unguarded(o), "refused")
    BY <1>8 DEF BeforeNotFoundAction
  <2>2. route' \in Routes
    BY <2>1, UnguardedRoute DEF Proceed, RouteInv
  <2> QED BY <1>0, <2>1, <2>2, UnguardedVerdict, ProceedEffect
<1>9. ASSUME NEW o \in Outcomes, NEW here \in {"binding", "afterBinding"},
             NEW next \in {"afterBinding", "action"}, AfterBinding(here, next, o)
      PROVE  RouteInv'
  <2>1. pc = here /\ Proceed(Unguarded(o), next)
    BY <1>9 DEF AfterBinding
  <2>2. route' \in Routes
    BY <2>1, UnguardedRoute DEF Proceed, RouteInv
  <2> QED BY <1>0, <2>1, <2>2, UnguardedVerdict, ProceedEffect
<1>10. ASSUME NEW o \in Outcomes, NEW ex \in Answers, BeforeDispatchLoop(o, ex)
       PROVE  RouteInv'
  <2> DEFINE after == After([route |-> route, finished |-> TRUE], o, isControllerInitialize)
             end == IF Throws(o, isControllerInitialize)
                    THEN After(after, ex, isControllerInitialize) ELSE after
  <2>1. after.route \in Routes
    BY <1>10, AfterRoute DEF BeforeDispatchLoop, RouteInv, Outcomes
  <2>2. route' = end.route /\ pc' \in {"top", "idle"}
    BY <1>10 DEF BeforeDispatchLoop, Leave
  <2>3. end.route \in Routes
    <3> HIDE DEF after
    <3> QED BY <2>1, AfterRoute DEF Answers
  <2> QED BY <1>0, <2>2, <2>3
<1>11. ASSUME NEW o \in Outcomes, NEW ex \in Answers, BeforeDispatch(o, ex)
       PROVE  RouteInv'
  <2>1. GuardedHook("beforeDispatch", o, ex, "load") /\ current' = route'
    BY <1>11 DEF BeforeDispatch
  <2>2. route' \in Routes
    BY <2>1, HookEffect, HookRoute DEF RouteInv
  <2> QED BY <2>1, <2>2 DEF RouteInv
\* The hooks that stay away from the look-up.
<1>12. ASSUME NEW o \in Outcomes, NEW ex \in Answers, NEW here, NEW next,
              here # "idle", next # "load", GuardedHook(here, o, ex, next)
       PROVE  RouteInv'
  <2>1. route' \in Routes
    BY <1>12, HookEffect, HookRoute DEF RouteInv
  <2> QED BY <1>0, <1>12, <2>1, HookEffect
<1>13. ASSUME NEW o \in Outcomes, NEW ex \in Answers,
              NEW here \in {"beforeExecuteRoute", "beforeExecuteRouteMethod"},
              NEW next \in {"beforeExecuteRouteMethod", "initialize", "binding"},
              BeforeExecuteRoute(here, next, o, ex)
       PROVE  RouteInv'
  BY <1>12, <1>13 DEF BeforeExecuteRoute
<1>14. ASSUME NEW o \in Outcomes, NEW ex \in Answers, Initialize(o, ex)
       PROVE  RouteInv'
  <2> DEFINE r == Guarded(Deaf(o), ex, TRUE, FALSE)
  <2>1. pc = "initialize" /\ Proceed(r, "afterInitialize")
    BY <1>14 DEF Initialize
  <2>2. r.verdict \in {"escape", "again", "on"} /\ r.route \in Routes
    BY <2>1, DeafOutcome, GuardedVerdict, GuardedRoute DEF RouteInv
  <2> HIDE DEF r
  <2>3. route' \in Routes
    BY <2>1, <2>2 DEF Proceed
  <2> QED BY <1>0, <2>1, <2>2, <2>3, ProceedEffect
<1>15. ASSUME NEW o \in Outcomes, NEW ex \in Answers,
              NEW here \in {"afterInitialize", "afterExecuteRoute", "afterExecuteRouteMethod"},
              NEW next \in {"binding", "afterExecuteRouteMethod", "afterDispatch"},
              Hook(here, next, o, ex)
       PROVE  RouteInv'
  BY <1>12, <1>15 DEF Hook
<1>16. ASSUME NEW o \in Outcomes, NEW ex \in Answers, CallAction(o, ex) \/ AfterDispatch(o, ex)
       PROVE  RouteInv'
  BY <1>12, <1>16, DeafOutcome DEF CallAction, AfterDispatch
<1>17. ASSUME NEW o \in Outcomes, NEW ex \in Answers, AfterDispatchLoop(o, ex)
       PROVE  RouteInv'
  BY <1>0, <1>17 DEF AfterDispatchLoop, Leave
<1>18. CASE UNCHANGED vars
  BY <1>18 DEF vars, RouteInv
<1> QED
  BY <1>1, <1>2, <1>3, <1>4, <1>5, <1>6, <1>7, <1>8, <1>9, <1>10, <1>11, <1>13,
     <1>14, <1>15, <1>16, <1>17, <1>18 DEF Next, Step, AfterMethod

----------------------------------------------------------------------------
(* Handlers *)

\* A hash for a new object is a number.
LEMMA NewHashIsNat ==
    ASSUME HandlerInv, NEW hash \in NewHashes
    PROVE  hash \in Nat /\ Len(hashOf) + 1 \in Nat
<1>1. \A o \in Objects : hashOf[o] \in Nat
  BY DEF HandlerInv, Objects
<1>2. Len(hashOf) + 1 \in Nat
  BY DEF HandlerInv
<1>3. CASE hash = Len(hashOf) + 1
  BY <1>2, <1>3
<1>4. CASE hash # Len(hashOf) + 1
  BY <1>1, <1>2, <1>4 DEF NewHashes, Freed
<1> QED BY <1>3, <1>4

LEMMA HandlerStep == HandlerInv /\ RouteInv /\ [Next]_vars => HandlerInv'
<1> SUFFICES ASSUME HandlerInv, RouteInv, [Next]_vars PROVE HandlerInv'
  OBVIOUS
<1> DEFINE early == {"beforeExecuteRoute", "beforeExecuteRouteMethod", "initialize"}
           typed(s) == s \in [Classes -> {0} \cup Objects]
\* Steps that leave the objects alone and go to no place before initialize().
<1>0. ASSUME UNCHANGED <<hashOf, handlerHashes, initialized>>, typed(shared'), pc' \notin early
      PROVE  HandlerInv'
  BY <1>0 DEF HandlerInv, Objects, Fresh
<1> HIDE DEF typed
<1>t. typed(shared)
  BY DEF HandlerInv, typed
<1>1. ASSUME NEW r \in Routes, Dispatch(r) PROVE HandlerInv'
  BY <1>0, <1>t, <1>1 DEF Dispatch, objectVars
<1>2. CASE Top
  BY <1>0, <1>t, <1>2 DEF Top, objectVars
<1>3. CASE NoHandler
  BY <1>0, <1>t, <1>3 DEF NoHandler, objectVars
<1>4. CASE KnownHandler
  <2> DEFINE o == shared[current.class]
  <2>1. pc = "load" /\ o # 0 /\ Take(o, hashOf[o]) /\ UNCHANGED <<shared, hashOf, initialized>>
    BY <1>4 DEF KnownHandler
  <2>2. current.class \in Classes
    BY <2>1, RoutesAssumption DEF RouteInv
  <2>3. o \in Objects
    BY <2>1, <2>2 DEF HandlerInv
  <2>4. /\ handler' = o /\ handlerHashes' = handlerHashes \cup {hashOf[o]}
        /\ isNewHandler' = (hashOf[o] \notin handlerHashes)
        /\ pc' # "initialize"
    BY <2>1, TakeEffect DEF Take
  <2> QED BY <2>1, <2>3, <2>4 DEF HandlerInv, Objects
<1>5. ASSUME NEW hash \in NewHashes, NewHandler(hash) PROVE HandlerInv'
  <2> DEFINE o == Len(hashOf) + 1
  <2>1. /\ hashOf' = Append(hashOf, hash) /\ Take(o, hash)
        /\ shared' = [shared EXCEPT ![current.class] = o] /\ initialized' = initialized
    BY <1>5 DEF NewHandler
  <2>2. /\ hashOf' \in Seq(Nat) /\ DOMAIN hashOf' = DOMAIN hashOf \cup {o}
        /\ o \notin DOMAIN hashOf /\ hashOf'[o] = hash
        /\ \A i \in DOMAIN hashOf : hashOf'[i] = hashOf[i]
    BY <2>1, NewHashIsNat DEF HandlerInv
  <2>3. /\ handler' = o /\ handlerHashes' = handlerHashes \cup {hash}
        /\ pc' # "initialize"
    BY <2>1, TakeEffect DEF Take
  <2>4. shared' \in [Classes -> {0} \cup Objects']
    BY <2>1, <2>2 DEF HandlerInv, Objects
  <2>5. initialized' \subseteq Objects' /\ o \notin initialized'
    BY <2>1, <2>2 DEF HandlerInv, Objects
  <2>6. \A i \in initialized' : hashOf'[i] \in handlerHashes'
    BY <2>1, <2>2, <2>3 DEF HandlerInv, Objects
  <2> HIDE DEF o
  <2> QED BY <2>2, <2>3, <2>4, <2>5, <2>6 DEF HandlerInv, Objects
<1>6. ASSUME NEW ex \in Answers, Refused(ex) PROVE HandlerInv'
  <2>1. PICK v : Proceed(v, "top") /\ v.verdict \in {"escape", "again", "on"}
    BY <1>6 DEF Refused, Refuse
  <2> QED BY <1>0, <1>t, <1>6, <2>1, ProceedEffect DEF Refused, objectVars
<1>7. ASSUME NEW ex \in Answers, Cyclic(ex) PROVE HandlerInv'
  <2>1. pc' \in {"afterLoop", "idle"}
    BY <1>7 DEF Cyclic, Leave
  <2> QED BY <1>0, <1>t, <1>7, <2>1 DEF Cyclic, objectVars
<1>8. ASSUME NEW o \in Outcomes, BeforeNotFoundAction(o) PROVE HandlerInv'
  BY <1>0, <1>t, <1>8, UnguardedVerdict, ProceedEffect DEF BeforeNotFoundAction, objectVars
<1>9. ASSUME NEW o \in Outcomes, NEW here \in {"binding", "afterBinding"},
             NEW next \in {"afterBinding", "action"}, AfterBinding(here, next, o)
      PROVE  HandlerInv'
  BY <1>0, <1>t, <1>9, UnguardedVerdict, ProceedEffect DEF AfterBinding, objectVars
<1>10. ASSUME NEW o \in Outcomes, NEW ex \in Answers, BeforeDispatchLoop(o, ex)
       PROVE  HandlerInv'
  <2>1. pc' \in {"top", "idle"}
    BY <1>10 DEF BeforeDispatchLoop, Leave
  <2> QED BY <1>0, <1>t, <1>10, <2>1 DEF BeforeDispatchLoop, objectVars
<1>11. ASSUME NEW o \in Outcomes, NEW ex \in Answers, BeforeDispatch(o, ex)
       PROVE  HandlerInv'
  BY <1>0, <1>t, <1>11, HookEffect DEF BeforeDispatch, objectVars
<1>12. ASSUME NEW o \in Outcomes, NEW ex \in Answers,
              NEW here \in {"beforeExecuteRoute", "beforeExecuteRouteMethod"},
              NEW next \in {"beforeExecuteRouteMethod", "initialize", "binding"},
              next = "initialize" => isNewHandler,
              BeforeExecuteRoute(here, next, o, ex)
       PROVE  HandlerInv'
  <2>1. GuardedHook(here, o, ex, next) /\ UNCHANGED <<hashOf, handlerHashes, initialized, isNewHandler>>
    BY <1>12 DEF BeforeExecuteRoute, roundVars
  <2>2. typed(shared')
    BY <1>12, <1>t DEF BeforeExecuteRoute, typed
  <2>3. CASE pc' \in early
    <3>1. Fresh /\ pc' = next /\ handler' = handler
      BY <1>12, <2>1, <2>3, HookEffect DEF Fresh
    <3> QED BY <1>12, <2>1, <2>2, <3>1 DEF HandlerInv, Objects, Fresh, typed
  <2> QED BY <1>0, <2>1, <2>2, <2>3
<1>13. ASSUME NEW o \in Outcomes, NEW ex \in Answers, Initialize(o, ex)
       PROVE  HandlerInv'
  <2> DEFINE r == Guarded(Deaf(o), ex, TRUE, FALSE)
  <2>1. /\ pc = "initialize" /\ Proceed(r, "afterInitialize")
        /\ initialized' = initialized \cup {handler}
        /\ UNCHANGED <<hashOf, handlerHashes, shared>>
    BY <1>13 DEF Initialize, objectVars
  <2>2. r.verdict \in {"escape", "again", "on"}
    BY DeafOutcome, GuardedVerdict
  <2> HIDE DEF r
  <2>3. pc' \notin early
    BY <2>1, <2>2, ProceedEffect
  <2> QED BY <2>1, <2>3 DEF HandlerInv, Objects, Fresh
<1>14. ASSUME NEW o \in Outcomes, NEW ex \in Answers,
              NEW here \in {"afterInitialize", "afterExecuteRoute", "afterExecuteRouteMethod"},
              NEW next \in {"binding", "afterExecuteRouteMethod", "afterDispatch"},
              Hook(here, next, o, ex)
       PROVE  HandlerInv'
  BY <1>0, <1>t, <1>14, HookEffect DEF Hook, objectVars
<1>15. ASSUME NEW o \in Outcomes, NEW ex \in Answers, CallAction(o, ex) \/ AfterDispatch(o, ex)
       PROVE  HandlerInv'
  BY <1>0, <1>t, <1>15, DeafOutcome, HookEffect DEF CallAction, AfterDispatch, objectVars
<1>16. ASSUME NEW o \in Outcomes, NEW ex \in Answers, AfterDispatchLoop(o, ex)
       PROVE  HandlerInv'
  BY <1>0, <1>t, <1>16 DEF AfterDispatchLoop, Leave, objectVars
<1>17. CASE UNCHANGED vars
  BY <1>17 DEF vars, HandlerInv, Objects, Fresh
<1> QED
  BY <1>1, <1>2, <1>3, <1>4, <1>5, <1>6, <1>7, <1>8, <1>9, <1>10, <1>11, <1>12, <1>13,
     <1>14, <1>15, <1>16, <1>17 DEF Next, Step, AfterMethod

\* No handler object is initialized twice, also when PHP gives hashes again:
\* a hash can make initialize() be left out, never be repeated.
THEOREM InitializedAtMostOnce == Spec => []InitializedOnce
<1>1. Init => HandlerInv /\ RouteInv
  <2>1. ASSUME Init PROVE hashOf \in Seq(Nat) /\ pc = "idle" /\ initialized = {}
    BY <2>1 DEF Init
  <2>2. ASSUME Init PROVE shared \in [Classes -> {0} \cup Objects]
    BY <2>2 DEF Init
  <2> QED BY <2>1, <2>2 DEF HandlerInv, RouteInv, Fresh
<1>2. HandlerInv => InitializedOnce
  BY DEF HandlerInv, InitializedOnce, Fresh
<1> QED
  BY <1>1, <1>2, RouteStep, HandlerStep, PTL DEF Spec

----------------------------------------------------------------------------
(* Types *)

Refs == {0} \cup Objects

\* What TypeOK says beside LoopInv, RouteInv and HandlerInv.
TypeInv ==
    /\ route \in Routes \cup {NoRoute} /\ current \in Routes \cup {NoRoute}
    /\ finished \in BOOLEAN /\ isNewHandler \in BOOLEAN
    /\ isControllerInitialize \in BOOLEAN
    /\ count \in 0 .. Limit /\ calls \in 0 .. MaxCalls
    /\ handler \in Refs /\ activeHandler \in Refs /\ lastHandler \in Refs
    /\ result \in {"none", "handler", "null", "false", "throw"}

\* What a hook does to the route leaves it a route.
Settled(r) == r.route \in Routes \cup {NoRoute} /\ r.finished \in BOOLEAN

LEMMA AfterSettled ==
    ASSUME NEW r, Settled(r), NEW o, o.fwd \in Routes \cup {NoRoute}, NEW initializing
    PROVE  Settled(After(r, o, initializing))
BY DEF Settled, After, Forwards

LEMMA GuardedSettled ==
    ASSUME TypeInv, NEW o \in Outcomes, NEW ex \in Answers, NEW hooking, NEW catching
    PROVE  Settled(Guarded(o, ex, hooking, catching))
<1> DEFINE r == [route |-> route, finished |-> finished]
           after == After(r, o, hooking)
<1>1. Settled(after)
  BY AfterSettled DEF TypeInv, Settled, Outcomes
<1>2. CASE Throws(o, hooking)
  <2>1. /\ Guarded(o, ex, hooking, catching).route = After(after, ex, catching).route
        /\ Guarded(o, ex, hooking, catching).finished = After(after, ex, catching).finished
    BY <1>2 DEF Guarded, Caught
  <2> HIDE DEF after
  <2> QED BY <1>1, <2>1, AfterSettled DEF Answers, Settled
<1>3. CASE ~Throws(o, hooking)
  BY <1>1, <1>3 DEF Guarded, Settled
<1> QED BY <1>2, <1>3

LEMMA UnguardedSettled ==
    ASSUME TypeInv, NEW o \in Outcomes
    PROVE  Settled(Unguarded(o))
<1> DEFINE after == After([route |-> route, finished |-> finished], o, isControllerInitialize)
<1>1. Settled(after)
  BY AfterSettled DEF TypeInv, Settled, Outcomes
<1> QED
  BY <1>1 DEF Unguarded, Settled

\* The round goes on, or dispatch() is left.
LEMMA ProceedTypes ==
    ASSUME TypeInv, NEW r, NEW next, Settled(r), r.verdict \in {"escape", "again", "on"},
           Proceed(r, next), UNCHANGED <<current, isNewHandler, count, calls>>,
           isControllerInitialize' \in BOOLEAN, Objects \subseteq Objects',
           activeHandler' \in Refs', lastHandler' \in Refs'
    PROVE  TypeInv'
<1>1. route' \in Routes \cup {NoRoute} /\ finished' \in BOOLEAN
  BY DEF Proceed, Settled
<1>2. handler' \in Refs' /\ result' \in {"none", "handler", "null", "false", "throw"}
  BY DEF Proceed, Leave, TypeInv, Refs
<1> QED
  BY <1>1, <1>2 DEF TypeInv


\* A hook inside a try, and a step that leaves objects and round alone.
LEMMA HookTypes ==
    ASSUME TypeInv, NEW o \in Outcomes, NEW ex \in Answers, NEW here, NEW next,
           GuardedHook(here, o, ex, next),
           UNCHANGED <<isNewHandler, count, calls, isControllerInitialize, activeHandler,
                       hashOf>>,
           lastHandler' \in Refs, current' \in {current, route'}
    PROVE  TypeInv'
<1> DEFINE r == Guarded(o, ex, isControllerInitialize, isControllerInitialize)
<1>1. Proceed(r, next) /\ Settled(r) /\ r.verdict \in {"escape", "again", "on"}
  BY GuardedVerdict, GuardedSettled DEF GuardedHook
<1> HIDE DEF r
<1>2. route' \in Routes \cup {NoRoute} /\ finished' \in BOOLEAN
  BY <1>1 DEF Proceed, Settled
<1>3. handler' \in Refs' /\ result' \in {"none", "handler", "null", "false", "throw"}
  BY <1>1 DEF Proceed, Leave, TypeInv, Refs, Objects
<1> QED
  BY <1>2, <1>3 DEF TypeInv, Refs, Objects

LEMMA TypeStep ==
    LoopInv /\ RouteInv /\ HandlerInv /\ TypeInv /\ [Next]_vars => TypeInv'
<1> SUFFICES ASSUME LoopInv, RouteInv, HandlerInv, TypeInv, [Next]_vars PROVE TypeInv'
  OBVIOUS
<1> USE BoundsAssumption
<1>0. ASSUME UNCHANGED hashOf PROVE Refs' = Refs /\ Objects' = Objects
  BY <1>0 DEF Refs, Objects
<1>1. ASSUME NEW r \in Routes, Dispatch(r) PROVE TypeInv'
  BY <1>0, <1>1 DEF Dispatch, TypeInv, objectVars, roundVars
<1>2. CASE Top
  BY <1>0, <1>2 DEF Top, TypeInv, objectVars, LoopInv
<1>3. CASE NoHandler
  <2>1. handler' \in Refs
    BY <1>3 DEF NoHandler, TypeInv, Refs
  <2> QED BY <1>0, <1>3, <2>1 DEF NoHandler, TypeInv, objectVars, roundVars
<1>4. CASE KnownHandler
  <2>1. shared[current.class] \in Refs
    <3>1. current.class \in Classes
      BY <1>4, RoutesAssumption DEF KnownHandler, RouteInv
    <3> QED BY <3>1 DEF HandlerInv, Refs
  <2> QED BY <1>0, <1>4, <2>1 DEF KnownHandler, Take, TypeInv
<1>5. ASSUME NEW hash \in NewHashes, NewHandler(hash) PROVE TypeInv'
  <2> DEFINE o == Len(hashOf) + 1
  <2>1. /\ hashOf' = Append(hashOf, hash) /\ handler' = o /\ activeHandler' = o
        /\ isNewHandler' \in BOOLEAN
        /\ UNCHANGED <<route, finished, count, current, lastHandler,
                       isControllerInitialize, calls, result>>
    BY <1>5 DEF NewHandler, Take
  <2>2. DOMAIN hashOf' = DOMAIN hashOf \cup {o}
    BY <2>1, NewHashIsNat DEF HandlerInv
  <2> HIDE DEF o
  <2> QED BY <2>1, <2>2 DEF TypeInv, Refs, Objects
<1>6. ASSUME NEW ex \in Answers, Refused(ex) PROVE TypeInv'
  <2> DEFINE r == After([route |-> route, finished |-> finished], ex, isControllerInitialize)
             v == [route |-> r.route, finished |-> r.finished,
                   verdict |-> IF ex.ret = "false" /\ ~Throws(ex, isControllerInitialize)
                               THEN "again" ELSE "escape"]
  <2>1. Settled(r)
    BY AfterSettled DEF TypeInv, Settled, Answers
  <2>2. Settled(v) /\ v.verdict \in {"escape", "again", "on"}
    <3> HIDE DEF r
    <3> QED BY <2>1 DEF Settled
  <2>3. /\ Proceed(v, "top")
        /\ UNCHANGED <<isControllerInitialize, calls, objectVars, roundVars>>
    BY <1>6 DEF Refused, Refuse
  <2> HIDE DEF v
  <2> QED BY <1>0, <2>2, <2>3, ProceedTypes DEF TypeInv, objectVars, roundVars
<1>7. ASSUME NEW ex \in Answers, Cyclic(ex) PROVE TypeInv'
  <2> DEFINE r == After([route |-> route, finished |-> finished], ex, isControllerInitialize)
  <2>1. Settled(r)
    BY AfterSettled DEF TypeInv, Settled, Answers
  <2>2. /\ route' = r.route /\ finished' = r.finished
        /\ count' = count + 1 /\ count < Limit /\ count \in Nat
        /\ UNCHANGED <<current, isNewHandler, isControllerInitialize, calls, objectVars>>
    BY <1>7 DEF Cyclic, LoopInv, InLoop
  <2>3. handler' \in {0, handler} /\ result' \in {"throw", result}
    BY <1>7 DEF Cyclic, Leave
  <2>4. handler' \in Refs
    BY <2>3 DEF TypeInv, Refs
  <2> HIDE DEF r
  <2> QED BY <1>0, <2>1, <2>2, <2>3, <2>4 DEF TypeInv, Settled, objectVars
<1>8. ASSUME NEW o \in Outcomes, NEW next, Proceed(Unguarded(o), next),
             UNCHANGED <<isControllerInitialize, calls, objectVars, roundVars>>
      PROVE  TypeInv'
  BY <1>0, <1>8, UnguardedVerdict, UnguardedSettled, ProceedTypes
     DEF TypeInv, objectVars, roundVars
<1>9. ASSUME NEW o \in Outcomes, NEW ex \in Answers, BeforeDispatchLoop(o, ex)
      PROVE  TypeInv'
  <2> DEFINE after == After([route |-> route, finished |-> TRUE], o, isControllerInitialize)
             end == IF Throws(o, isControllerInitialize)
                    THEN After(after, ex, isControllerInitialize) ELSE after
  <2>1. Settled(after)
    BY AfterSettled DEF TypeInv, Settled, Outcomes
  <2>2. Settled(end)
    <3> HIDE DEF after
    <3> QED BY <2>1, AfterSettled DEF Answers
  <2>3. /\ route' = end.route /\ finished' \in {end.finished, FALSE} /\ count' \in {0, count}
        /\ UNCHANGED <<current, isNewHandler, isControllerInitialize, calls, objectVars>>
    BY <1>9 DEF BeforeDispatchLoop
  <2>4. handler' \in {0, handler} /\ result' \in {"throw", "false", result}
    BY <1>9 DEF BeforeDispatchLoop, Leave
  <2>5. handler' \in Refs
    BY <2>4 DEF TypeInv, Refs
  <2> HIDE DEF end
  <2>6. /\ route' \in Routes \cup {NoRoute} /\ finished' \in BOOLEAN /\ count' \in 0 .. Limit
        /\ result' \in {"none", "handler", "null", "false", "throw"}
    <3>1. count' \in 0 .. Limit
      BY <2>3 DEF TypeInv
    <3>2. finished' \in BOOLEAN
      BY <2>2, <2>3 DEF Settled
    <3>3. result' \in {"none", "handler", "null", "false", "throw"}
      BY <2>4 DEF TypeInv
    <3> QED BY <2>2, <2>3, <3>1, <3>2, <3>3 DEF Settled
  <2> QED BY <1>0, <2>3, <2>5, <2>6 DEF TypeInv, objectVars
<1>10. ASSUME NEW o \in Outcomes, NEW ex \in Answers, BeforeDispatch(o, ex)
       PROVE  TypeInv'
  <2>1. GuardedHook("beforeDispatch", o, ex, "load")
    BY <1>10 DEF BeforeDispatch
  <2>2. /\ UNCHANGED <<isNewHandler, count, calls, isControllerInitialize, activeHandler, hashOf>>
        /\ lastHandler' \in Refs /\ current' \in {current, route'}
    BY <1>10 DEF BeforeDispatch, TypeInv, objectVars
  <2> QED BY <2>1, <2>2, HookTypes
<1>11. ASSUME NEW o \in Outcomes, NEW ex \in Answers, NEW here, NEW next,
              BeforeExecuteRoute(here, next, o, ex) \/ Hook(here, next, o, ex)
       PROVE  TypeInv'
  BY <1>0, <1>11, HookTypes DEF BeforeExecuteRoute, Hook, TypeInv, objectVars, roundVars
<1>12. ASSUME NEW o \in Outcomes, NEW ex \in Answers, CallAction(o, ex) \/ AfterDispatch(o, ex)
       PROVE  TypeInv'
  BY <1>0, <1>12, DeafOutcome, HookTypes
     DEF CallAction, AfterDispatch, TypeInv, objectVars, roundVars
<1>13. ASSUME NEW o \in Outcomes, NEW ex \in Answers, Initialize(o, ex)
       PROVE  TypeInv'
  <2> DEFINE r == Guarded(Deaf(o), ex, TRUE, FALSE)
  <2>1. Settled(r) /\ r.verdict \in {"escape", "again", "on"}
    BY DeafOutcome, GuardedVerdict, GuardedSettled
  <2>2. /\ Proceed(r, "afterInitialize") /\ isControllerInitialize' \in BOOLEAN
        /\ UNCHANGED <<calls, objectVars, roundVars>>
    BY <1>13 DEF Initialize
  <2> HIDE DEF r
  <2> QED BY <1>0, <2>1, <2>2, ProceedTypes DEF TypeInv, objectVars, roundVars
<1>14. ASSUME NEW o \in Outcomes, NEW ex \in Answers, AfterDispatchLoop(o, ex)
       PROVE  TypeInv'
  <2> DEFINE after == After([route |-> route, finished |-> finished], o, isControllerInitialize)
             end == IF Throws(o, isControllerInitialize)
                    THEN After(after, ex, isControllerInitialize) ELSE after
  <2>1. Settled(after)
    BY AfterSettled DEF TypeInv, Settled, Outcomes
  <2>2. Settled(end)
    <3> HIDE DEF after
    <3> QED BY <2>1, AfterSettled DEF Answers
  <2>3. /\ route' = end.route /\ finished' = end.finished /\ handler' = 0
        /\ UNCHANGED <<isControllerInitialize, calls, objectVars, roundVars>>
    BY <1>14 DEF AfterDispatchLoop, Leave
  <2>4. result' \in {"null", "handler", "false", "throw"}
    <3>1. PICK b \in BOOLEAN : b = (ex.ret = "false" /\ ~Throws(ex, isControllerInitialize))
      OBVIOUS
    <3> QED BY <1>14, <3>1 DEF AfterDispatchLoop, Leave
  <2>5. handler' \in Refs
    BY <2>3 DEF Refs
  <2> HIDE DEF end
  <2> QED BY <1>0, <2>2, <2>3, <2>4, <2>5 DEF TypeInv, Settled, objectVars, roundVars
<1>15. CASE UNCHANGED vars
  BY <1>0, <1>15 DEF vars, TypeInv
<1> QED
  BY <1>1, <1>2, <1>3, <1>4, <1>5, <1>6, <1>7, <1>8, <1>9, <1>10, <1>11, <1>12, <1>13,
     <1>14, <1>15 DEF Next, Step, BeforeNotFoundAction, AfterBinding

\* The invariants hold at first.
LEMMA InitTypes == Init => LoopInv /\ RouteInv /\ HandlerInv /\ TypeInv
<1>1. ASSUME Init PROVE hashOf \in Seq(Nat) /\ pc = "idle" /\ initialized = {}
  BY <1>1 DEF Init
<1>2. ASSUME Init PROVE shared \in [Classes -> {0} \cup Objects]
  BY <1>2 DEF Init
<1>3. Init => LoopInv
  BY BoundsAssumption DEF Init, LoopInv, InLoop, NoForwardLost
<1>4. Init => TypeInv
  <2> SUFFICES ASSUME Init PROVE TypeInv
    OBVIOUS
  <2>1. 0 \in Refs
    BY DEF Refs
  <2>2. /\ route = NoRoute /\ current = NoRoute /\ finished = FALSE /\ isNewHandler = FALSE
        /\ isControllerInitialize = FALSE /\ count = 0 /\ calls = 0 /\ result = "none"
        /\ handler = 0 /\ activeHandler = 0 /\ lastHandler = 0
    BY DEF Init
  <2>3. count \in 0 .. Limit /\ calls \in 0 .. MaxCalls
    BY <2>2, BoundsAssumption
  <2>4. result \in {"none", "handler", "null", "false", "throw"}
    BY <2>2
  <2> QED BY <2>1, <2>2, <2>3, <2>4 DEF TypeInv
<1>5. Init => HandlerInv /\ RouteInv
  BY <1>1, <1>2 DEF HandlerInv, RouteInv, Fresh
<1> QED
  BY <1>3, <1>4, <1>5

\* The variables keep their types, and the local variables refer to objects
\* that exist.
THEOREM TypeCorrect == Spec => []TypeOK
<1>1. Init => LoopInv /\ RouteInv /\ HandlerInv /\ TypeInv
  BY InitTypes
<1>2. LoopInv /\ HandlerInv /\ TypeInv => TypeOK
  BY BoundsAssumption DEF LoopInv, HandlerInv, TypeInv, TypeOK, Refs
<1> QED
  BY <1>1, <1>2, LoopStep, RouteStep, HandlerStep, TypeStep, PTL DEF Spec

----------------------------------------------------------------------------
(* The first action of a handler, with one dispatch() per request *)

\* From the look-up to the action.
Running == {"beforeExecuteRoute", "beforeExecuteRouteMethod", "initialize",
            "afterInitialize", "binding", "afterBinding", "action"}

\* An object that was initialized, or one of the causes why it was not.
AccountedIn(done, hashes, o, c) ==
    \/ o \in done
    \/ \E p \in (DOMAIN hashes) \ {o} : hashes[p] = hashes[o]
    \/ \E r \in Routes : r.class = c /\ r.kind \in {"badParams", "noAction"}

Accounted(o, c)   == AccountedIn(initialized, hashOf, o, c)
AccountedNow(o, c) == AccountedIn(initialized', hashOf', o, c)

\* The object still counts as new in this round.
Pending(o, c) == Fresh /\ isNewHandler /\ handler = o /\ current.class = c
PendingNow(o, c) == Fresh' /\ isNewHandler' /\ handler' = o /\ current'.class = c

\* While dispatch() runs, an object that the container gives again is
\* accounted for.  After an exception has left dispatch() this need not be so.
AccountInv ==
    /\ calls = 0 => pc = "idle" /\ \A c \in Classes : shared[c] = 0
    /\ \A h \in handlerHashes : \E o \in Objects : hashOf[o] = h
    /\ pc # "idle" => \A c \in Classes : shared[c] # 0 =>
          /\ hashOf[shared[c]] \in handlerHashes
          /\ Accounted(shared[c], c) \/ Pending(shared[c], c)
    /\ pc \in Running =>
          /\ handler \in Objects /\ current \in Routes
          /\ Accounted(handler, current.class) \/ (Fresh /\ isNewHandler)

\* The parts of the invariant after a step.
LEMMA AccountParts ==
    ASSUME calls' # 0,
           \A h \in handlerHashes' : \E o \in Objects' : hashOf'[o] = h,
           \A c \in Classes : pc' # "idle" /\ shared'[c] # 0 =>
               /\ hashOf'[shared'[c]] \in handlerHashes'
               /\ AccountedNow(shared'[c], c) \/ PendingNow(shared'[c], c),
           pc' \in Running =>
               /\ handler' \in Objects' /\ current' \in Routes
               /\ AccountedNow(handler', current'.class) \/ (Fresh' /\ isNewHandler')
    PROVE  AccountInv'
  BY DEF AccountInv, Accounted, AccountedNow, Pending, PendingNow

\* Steps that leave the objects alone, away from initialize().
LEMMA QuietStep ==
    ASSUME AccountInv, UNCHANGED <<hashOf, handlerHashes, initialized, shared, calls>>,
           pc # "idle", ~Fresh, ~Fresh',
           pc' \in Running => pc \in Running /\ handler' = handler /\ current' = current
    PROVE  AccountInv'
<1>1. Objects' = Objects /\ \A o, c : AccountedNow(o, c) <=> Accounted(o, c)
  BY DEF Objects, Accounted, AccountedNow, AccountedIn
<1> QED
  BY <1>1 DEF AccountInv, Accounted, AccountedNow, Pending, PendingNow

\* An object that was known is accounted for where it is given out again.
LEMMA KnownAccounted ==
    ASSUME AccountInv, RouteInv, HandlerInv, KnownHandler
    PROVE  AccountInv'
<1> DEFINE o == shared[current.class]
<1>1. /\ pc = "load" /\ o # 0 /\ Take(o, hashOf[o])
      /\ UNCHANGED <<current, shared, hashOf, initialized, calls>>
  BY DEF KnownHandler
<1>2. current \in Routes /\ current.class \in Classes
  BY <1>1, RoutesAssumption DEF RouteInv
<1>3. o \in Objects /\ hashOf[o] \in handlerHashes /\ ~Fresh
  BY <1>1, <1>2 DEF HandlerInv, AccountInv, Accounted, AccountedNow, Fresh
<1>4. Accounted(o, current.class) /\ \A c \in Classes : shared[c] # 0 => Accounted(shared[c], c)
  BY <1>1, <1>2, <1>3 DEF AccountInv, Accounted, AccountedNow, Pending, PendingNow
<1>5. handler' = o /\ handlerHashes' = handlerHashes \cup {hashOf[o]} /\ pc' # "idle"
  BY <1>1, TakeEffect DEF Take
<1>6. Objects' = Objects /\ \A p, c : AccountedNow(p, c) <=> Accounted(p, c)
  BY <1>1 DEF Objects, Accounted, AccountedNow, AccountedIn
<1> HIDE DEF o
<1>7. \A h \in handlerHashes' : \E p \in Objects' : hashOf'[p] = h
  BY <1>1, <1>3, <1>5, <1>6 DEF AccountInv, Accounted, AccountedNow
<1>8. \A c \in Classes : shared'[c] # 0 => hashOf'[shared'[c]] \in handlerHashes'
  BY <1>1, <1>5 DEF AccountInv, Accounted, AccountedNow
<1>9. calls # 0
  BY <1>1 DEF AccountInv, Accounted, AccountedNow
<1> QED
  BY <1>1, <1>2, <1>3, <1>4, <1>5, <1>6, <1>7, <1>8, <1>9 DEF AccountInv, Accounted, AccountedNow

\* A new object is initialized in its round, unless the hash was another's or
\* the route is refused.
LEMMA NewAccounted ==
    ASSUME AccountInv, RouteInv, HandlerInv, NEW hash \in NewHashes, NewHandler(hash)
    PROVE  AccountInv'
<1> DEFINE o == Len(hashOf) + 1
<1>1. /\ pc = "load" /\ Take(o, hash) /\ hashOf' = Append(hashOf, hash)
      /\ shared' = [shared EXCEPT ![current.class] = o]
      /\ UNCHANGED <<current, initialized, calls>>
  BY DEF NewHandler
<1>2. current \in Routes /\ current.class \in Classes
  BY <1>1, RoutesAssumption DEF RouteInv
<1>3. /\ Objects' = Objects \cup {o} /\ o \notin Objects /\ hashOf'[o] = hash
      /\ \A i \in Objects : hashOf'[i] = hashOf[i]
      /\ Objects = DOMAIN hashOf /\ Objects' = DOMAIN hashOf'
  BY <1>1, NewHashIsNat DEF HandlerInv, Objects
<1>4. /\ handler' = o /\ handlerHashes' = handlerHashes \cup {hash}
      /\ isNewHandler' = (hash \notin handlerHashes) /\ pc' # "idle"
  BY <1>1, TakeEffect DEF Take
<1>5. ASSUME NEW c \in Classes, c # current.class, shared[c] # 0
      PROVE  shared'[c] = shared[c] /\ shared[c] \in Objects
             /\ hashOf'[shared[c]] \in handlerHashes' /\ AccountedNow(shared[c], c)
  <2>1. shared'[c] = shared[c] /\ shared[c] \in Objects
    BY <1>1, <1>5 DEF HandlerInv
  <2>2. hashOf[shared[c]] \in handlerHashes /\ Accounted(shared[c], c)
    BY <1>1, <1>5 DEF AccountInv, Accounted, AccountedNow, Pending, PendingNow, Fresh
  <2>3. (Objects \ {shared[c]}) \subseteq (Objects' \ {shared[c]})
    BY <1>3
  <2>4. AccountedNow(shared[c], c)
    BY <1>1, <1>3, <2>1, <2>2, <2>3 DEF Accounted, AccountedNow, AccountedIn
  <2> QED BY <1>3, <1>4, <2>1, <2>2, <2>4
<1>6. hash \in handlerHashes => AccountedNow(o, current.class)
  <2>1. ASSUME hash \in handlerHashes PROVE \E p \in Objects' \ {o} : hashOf'[p] = hashOf'[o]
    BY <1>3, <2>1 DEF AccountInv, Accounted, AccountedNow
  <2> QED BY <1>3, <2>1 DEF AccountedNow, AccountedIn
<1>7. pc' # "beforeExecuteRoute" => AccountedNow(o, current.class)
  BY <1>1, <1>2 DEF Take, Accounted, AccountedNow, AccountedIn
<1> HIDE DEF o
<1>8. \A h \in handlerHashes' : \E p \in Objects' : hashOf'[p] = h
  BY <1>3, <1>4 DEF AccountInv, Accounted, AccountedNow
<1>9. AccountedNow(o, current.class) \/ (Fresh' /\ isNewHandler')
  BY <1>4, <1>6, <1>7 DEF Fresh
<1>10. shared'[current.class] = o
  BY <1>1, <1>2 DEF HandlerInv
<1>11. ASSUME NEW c \in Classes, shared'[c] # 0
       PROVE  /\ hashOf'[shared'[c]] \in handlerHashes'
              /\ AccountedNow(shared'[c], c) \/ PendingNow(shared'[c], c)
  <2>1. CASE c = current.class
    BY <1>1, <1>3, <1>4, <1>9, <1>10, <2>1 DEF Pending, PendingNow
  <2>2. CASE c # current.class
    <3>1. shared'[c] = shared[c]
      BY <1>1, <2>2 DEF HandlerInv
    <3> QED BY <1>5, <1>11, <2>2, <3>1
  <2> QED BY <2>1, <2>2
<1>12. calls # 0
  BY <1>1 DEF AccountInv, Accounted, AccountedNow
<1>13. /\ handler' \in Objects' /\ current' \in Routes
       /\ AccountedNow(handler', current'.class) \/ (Fresh' /\ isNewHandler')
  BY <1>1, <1>2, <1>3, <1>4, <1>9
<1>14. calls' # 0
  BY <1>1, <1>12
<1> QED
  BY <1>8, <1>11, <1>13, <1>14, AccountParts

\* A cancelled round takes the handler out of the container, initialized or not.
LEMMA CancelAccounted ==
    ASSUME AccountInv, HandlerInv, NEW o \in Outcomes, NEW ex \in Answers,
           NEW here \in {"beforeExecuteRoute", "beforeExecuteRouteMethod"},
           NEW next \in {"beforeExecuteRouteMethod", "initialize", "binding"},
           next = "binding" => ~isNewHandler,
           BeforeExecuteRoute(here, next, o, ex)
    PROVE  AccountInv'
<1> DEFINE r == Guarded(o, ex, isControllerInitialize, isControllerInitialize)
<1>1. /\ pc = here /\ Proceed(r, next) /\ r.verdict \in {"escape", "again", "on"}
      /\ shared' = IF r.verdict = "again" THEN [shared EXCEPT ![current.class] = 0] ELSE shared
      /\ UNCHANGED <<handlerHashes, hashOf, initialized, current, isNewHandler, calls>>
  BY GuardedVerdict DEF BeforeExecuteRoute, GuardedHook, roundVars
<1> HIDE DEF r
<1>2. Objects' = Objects /\ \A p, c : AccountedNow(p, c) <=> Accounted(p, c)
  BY <1>1 DEF Objects, Accounted, AccountedNow, AccountedIn
<1>3. /\ Fresh /\ pc \in Running /\ handler \in Objects /\ current \in Routes
      /\ Accounted(handler, current.class) \/ isNewHandler
      /\ \A c \in Classes : shared[c] # 0 =>
            /\ hashOf[shared[c]] \in handlerHashes
            /\ Accounted(shared[c], c) \/ Pending(shared[c], c)
      /\ calls # 0
  BY <1>1 DEF AccountInv, Accounted, AccountedNow, Fresh, Running
<1>4. \A h \in handlerHashes' : \E p \in Objects' : hashOf'[p] = h
  BY <1>1, <1>2 DEF AccountInv, Accounted, AccountedNow
<1>5. CASE r.verdict = "escape"
  <2>1. pc' = "idle" /\ shared' = shared
    BY <1>1, <1>5 DEF Proceed, Leave
  <2> QED BY <1>1, <1>3, <1>4, <2>1 DEF AccountInv, Accounted, AccountedNow, Running
<1>6. CASE r.verdict = "again"
  <2>1. pc' \in {"top", "afterLoop"}
    BY <1>1, <1>6 DEF Proceed
  <2>2. ASSUME NEW c \in Classes, shared'[c] # 0
        PROVE  hashOf'[shared'[c]] \in handlerHashes' /\ AccountedNow(shared'[c], c)
    <3>1. c # current.class /\ shared'[c] = shared[c]
      BY <1>1, <1>6, <2>2 DEF HandlerInv
    <3> QED BY <1>1, <1>2, <1>3, <2>2, <3>1 DEF Pending, PendingNow
  <2> QED BY <1>1, <1>3, <1>4, <2>1, <2>2 DEF AccountInv, Accounted, AccountedNow, Running
<1>7. CASE r.verdict = "on"
  <2>1. pc' = next /\ handler' = handler /\ shared' = shared
    BY <1>1, <1>7 DEF Proceed
  <2>2. CASE next = "binding"
    BY <1>1, <1>2, <1>3, <1>4, <2>1, <2>2 DEF AccountInv, Accounted, AccountedNow, Pending, PendingNow, Running
  <2>3. CASE next # "binding"
    <3>1. Fresh' /\ \A p, c : PendingNow(p, c) <=> Pending(p, c)
      BY <1>1, <1>3, <2>1, <2>3 DEF Fresh, Pending, PendingNow
    <3>2. /\ handler' \in Objects' /\ current' \in Routes
          /\ AccountedNow(handler', current'.class) \/ (Fresh' /\ isNewHandler')
      BY <1>1, <1>2, <1>3, <2>1, <3>1
    <3>3. \A c \in Classes : shared'[c] # 0 =>
              /\ hashOf'[shared'[c]] \in handlerHashes'
              /\ AccountedNow(shared'[c], c) \/ PendingNow(shared'[c], c)
      BY <1>1, <1>2, <1>3, <2>1, <3>1
    <3>4. calls' # 0
      BY <1>1, <1>3
    <3> QED BY <1>4, <3>2, <3>3, <3>4, AccountParts
  <2> QED BY <2>2, <2>3
<1> QED
  BY <1>1, <1>5, <1>6, <1>7

LEMMA InitializeAccounted ==
    ASSUME AccountInv, HandlerInv, NEW o \in Outcomes, NEW ex \in Answers, Initialize(o, ex)
    PROVE  AccountInv'
<1> DEFINE r == Guarded(Deaf(o), ex, TRUE, FALSE)
<1>1. /\ pc = "initialize" /\ Proceed(r, "afterInitialize")
      /\ r.verdict \in {"escape", "again", "on"}
      /\ initialized' = initialized \cup {handler}
      /\ UNCHANGED <<handlerHashes, hashOf, shared, current, calls>>
  BY DeafOutcome, GuardedVerdict DEF Initialize, objectVars, roundVars
<1> HIDE DEF r
<1>2. /\ Objects' = Objects /\ \A p, c : Accounted(p, c) => AccountedNow(p, c)
      /\ \A c : AccountedNow(handler, c)
  BY <1>1 DEF Objects, Accounted, AccountedNow, AccountedIn
<1>3. /\ pc' \in {"idle", "top", "afterLoop", "afterInitialize"}
      /\ pc' = "afterInitialize" => handler' = handler
  BY <1>1, ProceedEffect
<1>4. \A c \in Classes : shared[c] # 0 =>
          hashOf[shared[c]] \in handlerHashes /\ AccountedNow(shared[c], c)
  BY <1>1, <1>2 DEF AccountInv, Accounted, AccountedNow, Pending, PendingNow
<1>5. /\ calls # 0 /\ handler \in Objects /\ current \in Routes
      /\ \A h \in handlerHashes' : \E p \in Objects' : hashOf'[p] = h
  BY <1>1, <1>2 DEF AccountInv, Accounted, AccountedNow, Running
<1> QED
  BY <1>1, <1>2, <1>3, <1>4, <1>5 DEF AccountInv, Accounted, AccountedNow, Running

LEMMA AccountStep ==
    ASSUME MaxCalls <= 1
    PROVE  AccountInv /\ RouteInv /\ HandlerInv /\ TypeInv /\ [Next]_vars => AccountInv'
<1> SUFFICES ASSUME AccountInv, RouteInv, HandlerInv, TypeInv, [Next]_vars PROVE AccountInv'
  OBVIOUS
<1> DEFINE outside == {"idle", "beforeLoop", "top", "beforeDispatch", "load", "refused",
                       "notFound", "afterExecuteRoute", "afterExecuteRouteMethod",
                       "afterDispatch", "afterLoop"}
           late == {"afterInitialize", "binding", "afterBinding", "action"}
\* A step away from the look-up and from initialize().
<1>0. ASSUME UNCHANGED <<hashOf, handlerHashes, initialized, shared, calls>>,
             pc # "idle", pc \in outside \cup late,
             \/ pc' \in outside
             \/ pc \in late /\ pc' \in late /\ handler' = handler /\ current' = current
      PROVE  AccountInv'
  <2>1. ~Fresh /\ ~Fresh'
    BY <1>0 DEF Fresh
  <2>2. pc' \in Running => pc \in Running /\ handler' = handler /\ current' = current
    BY <1>0 DEF Running
  <2> QED BY <1>0, <2>1, <2>2, QuietStep
\* The first dispatch(): the container holds no handler yet.
<1>1. ASSUME NEW q \in Routes, Dispatch(q) PROVE AccountInv'
  <2>1. /\ calls = 0 /\ calls' = 1 /\ pc' = "beforeLoop"
        /\ UNCHANGED <<hashOf, handlerHashes, shared>>
    BY <1>1, BoundsAssumption DEF Dispatch, TypeInv, objectVars
  <2>2. \A h \in handlerHashes' : \E p \in Objects' : hashOf'[p] = h
    BY <2>1 DEF AccountInv, Objects
  <2>3. \A c \in Classes : shared'[c] = 0
    BY <2>1 DEF AccountInv
  <2>4. pc' \notin Running /\ calls' # 0
    BY <2>1 DEF Running
  <2> QED BY <2>2, <2>3, <2>4, AccountParts
<1>2. CASE Top
  BY <1>0, <1>2 DEF Top, objectVars
<1>3. CASE NoHandler
  BY <1>0, <1>3 DEF NoHandler, objectVars
<1>4. CASE KnownHandler
  BY <1>4, KnownAccounted
<1>5. ASSUME NEW hash \in NewHashes, NewHandler(hash) PROVE AccountInv'
  BY <1>5, NewAccounted
<1>6. ASSUME NEW ex \in Answers, Refused(ex) PROVE AccountInv'
  <2>1. PICK v : Proceed(v, "top") /\ v.verdict \in {"escape", "again", "on"}
    BY <1>6 DEF Refused, Refuse
  <2>2. pc' \in outside
    BY <2>1, ProceedEffect
  <2> QED BY <1>0, <1>6, <2>2 DEF Refused, objectVars
<1>7. ASSUME NEW ex \in Answers, Cyclic(ex) PROVE AccountInv'
  <2>1. pc' \in {"afterLoop", "idle"}
    BY <1>7 DEF Cyclic, Leave
  <2> QED BY <1>0, <1>7, <2>1 DEF Cyclic, objectVars
<1>8. ASSUME NEW o \in Outcomes, BeforeNotFoundAction(o) PROVE AccountInv'
  <2>1. pc' \in outside
    BY <1>8, UnguardedVerdict, ProceedEffect DEF BeforeNotFoundAction
  <2> QED BY <1>0, <1>8, <2>1 DEF BeforeNotFoundAction, objectVars
<1>9. ASSUME NEW o \in Outcomes, NEW here \in {"binding", "afterBinding"},
             NEW next \in {"afterBinding", "action"}, AfterBinding(here, next, o)
      PROVE  AccountInv'
  <2>1. pc' \in outside \/ (pc' \in late /\ handler' = handler)
    BY <1>9, UnguardedVerdict, ProceedEffect DEF AfterBinding
  <2> QED BY <1>0, <1>9, <2>1 DEF AfterBinding, objectVars, roundVars
<1>10. ASSUME NEW o \in Outcomes, NEW ex \in Answers, BeforeDispatchLoop(o, ex)
       PROVE  AccountInv'
  <2>1. pc' \in {"top", "idle"}
    BY <1>10 DEF BeforeDispatchLoop, Leave
  <2> QED BY <1>0, <1>10, <2>1 DEF BeforeDispatchLoop, objectVars
<1>11. ASSUME NEW o \in Outcomes, NEW ex \in Answers, BeforeDispatch(o, ex)
       PROVE  AccountInv'
  <2>1. pc = "beforeDispatch" /\ pc' \in outside
    BY <1>11, HookEffect DEF BeforeDispatch
  <2> QED BY <1>0, <1>11, <2>1 DEF BeforeDispatch, objectVars
<1>12. ASSUME NEW o \in Outcomes, NEW ex \in Answers,
              NEW here \in {"beforeExecuteRoute", "beforeExecuteRouteMethod"},
              NEW next \in {"beforeExecuteRouteMethod", "initialize", "binding"},
              next = "binding" => ~isNewHandler,
              BeforeExecuteRoute(here, next, o, ex)
       PROVE  AccountInv'
  BY <1>12, CancelAccounted
<1>13. ASSUME NEW o \in Outcomes, NEW ex \in Answers, Initialize(o, ex)
       PROVE  AccountInv'
  BY <1>13, InitializeAccounted
<1>14. ASSUME NEW o \in Outcomes, NEW ex \in Answers, Hook("afterInitialize", "binding", o, ex)
       PROVE  AccountInv'
  <2>1. pc = "afterInitialize" /\ (pc' \in outside \/ (pc' \in late /\ handler' = handler))
    BY <1>14, HookEffect DEF Hook
  <2> QED BY <1>0, <1>14, <2>1 DEF Hook, objectVars, roundVars
<1>15. ASSUME NEW o \in Outcomes, NEW ex \in Answers,
              NEW here \in {"afterExecuteRoute", "afterExecuteRouteMethod"},
              NEW next \in {"afterExecuteRouteMethod", "afterDispatch"},
              Hook(here, next, o, ex)
       PROVE  AccountInv'
  <2>1. pc = here /\ pc' \in outside
    BY <1>15, HookEffect DEF Hook
  <2> QED BY <1>0, <1>15, <2>1 DEF Hook, objectVars, roundVars
<1>16. ASSUME NEW o \in Outcomes, NEW ex \in Answers, CallAction(o, ex) PROVE AccountInv'
  <2>1. pc = "action" /\ pc' \in outside
    BY <1>16, DeafOutcome, HookEffect DEF CallAction
  <2> QED BY <1>0, <1>16, <2>1 DEF CallAction
<1>17. ASSUME NEW o \in Outcomes, NEW ex \in Answers, AfterDispatch(o, ex) PROVE AccountInv'
  <2>1. pc = "afterDispatch" /\ pc' \in outside
    BY <1>17, DeafOutcome, HookEffect DEF AfterDispatch
  <2> QED BY <1>0, <1>17, <2>1 DEF AfterDispatch, objectVars
<1>18. ASSUME NEW o \in Outcomes, NEW ex \in Answers, AfterDispatchLoop(o, ex)
       PROVE  AccountInv'
  BY <1>0, <1>18 DEF AfterDispatchLoop, Leave, objectVars
<1>19. CASE UNCHANGED vars
  BY <1>19 DEF vars, AccountInv, Accounted, AccountedIn, Pending, Fresh, Objects
<1> QED
  BY <1>1, <1>2, <1>3, <1>4, <1>5, <1>6, <1>7, <1>8, <1>9, <1>10, <1>11, <1>12, <1>13,
     <1>14, <1>15, <1>16, <1>17, <1>18, <1>19 DEF Next, Step, AfterMethod

\* With one dispatch() per request, a cancelled round or a forward away and
\* back gets no action around initialize(): only a hash that two objects had,
\* or a refused route to the class, does.
THEOREM InitializedFirst ==
    ASSUME MaxCalls <= 1
    PROVE  Spec => []InitializedBeforeAction
<1>1. Init => LoopInv /\ RouteInv /\ HandlerInv /\ TypeInv /\ AccountInv
  <2>1. ASSUME Init PROVE AccountInv
    BY <2>1 DEF Init, AccountInv, Running
  <2> QED BY <2>1, InitTypes
<1>2. AccountInv => InitializedBeforeAction
  BY DEF AccountInv, Running, Fresh, Accounted, AccountedIn, Objects, InitializedBeforeAction
<1>3. AccountInv /\ RouteInv /\ HandlerInv /\ TypeInv /\ [Next]_vars => AccountInv'
  BY AccountStep
<1> QED
  BY <1>1, <1>2, <1>3, LoopStep, RouteStep, HandlerStep, TypeStep, PTL DEF Spec

----------------------------------------------------------------------------
(* How long a call can take *)

\* How far each place is from the end of its round.
Rank(p) == CASE p = "beforeDispatch"           -> 15
             [] p = "load"                     -> 14
             [] p = "beforeExecuteRoute"       -> 13
             [] p = "beforeExecuteRouteMethod" -> 12
             [] p = "initialize"               -> 11
             [] p = "afterInitialize"          -> 10
             [] p = "binding"                  -> 9
             [] p = "afterBinding"             -> 8
             [] p = "action"                   -> 7
             [] p = "afterExecuteRoute"        -> 6
             [] p = "afterExecuteRouteMethod"  -> 5
             [] p \in {"afterDispatch", "notFound"} -> 4
             [] p = "refused"                  -> 3
             [] p = "top"                      -> 2
             [] OTHER                          -> 1

\* A bound on the steps that a call has left: 16 for each round that the limit
\* still allows.
Left == IF pc = "idle" THEN 0
        ELSE IF pc = "beforeLoop" THEN 16 * Limit + 3
        ELSE 16 * (Limit - count) + Rank(pc)

LEMMA RankBounds == ASSUME NEW p PROVE Rank(p) \in 1 .. 15
<1>1. CASE p \in {"beforeDispatch", "load", "beforeExecuteRoute",
                  "beforeExecuteRouteMethod", "initialize"}
  BY <1>1 DEF Rank
<1>2. CASE p \in {"afterInitialize", "binding", "afterBinding", "action",
                  "afterExecuteRoute"}
  BY <1>2 DEF Rank
<1>3. CASE p \in {"afterExecuteRouteMethod", "afterDispatch", "notFound", "refused", "top"}
  BY <1>3 DEF Rank
<1>4. CASE p \notin {"beforeDispatch", "load", "beforeExecuteRoute",
                     "beforeExecuteRouteMethod", "initialize", "afterInitialize",
                     "binding", "afterBinding", "action", "afterExecuteRoute",
                     "afterExecuteRouteMethod", "afterDispatch", "notFound",
                     "refused", "top"}
  BY <1>4 DEF Rank
<1> QED BY <1>1, <1>2, <1>3, <1>4

LEMMA LeftBounds == count \in 0 .. Limit => Left \in 0 .. 16 * Limit + 15
<1> SUFFICES ASSUME count \in 0 .. Limit PROVE Left \in 0 .. 16 * Limit + 15
  OBVIOUS
<1>1. Rank(pc) \in 1 .. 15
  BY RankBounds
<1>2. 16 * (Limit - count) \in 0 .. 16 * Limit
  BY BoundsAssumption
<1> QED BY <1>1, <1>2, BoundsAssumption DEF Left

\* A round goes on, nearer to its end, or is left, for the next one at most.
LEMMA RoundStep ==
    ASSUME pc \notin {"idle", "beforeLoop"}, Rank(pc) > 2,
           count \in 0 .. Limit, count' = count,
           \/ pc' \in {"idle", "top", "afterLoop"}
           \/ Rank(pc') < Rank(pc) /\ pc' # "beforeLoop"
    PROVE  Left' < Left
<1> DEFINE ahead == 16 * (Limit - count)
<1>1. ahead \in Nat
  BY BoundsAssumption
<1>2. Rank(pc) \in 1 .. 15 /\ Rank(pc') \in 1 .. 15
  BY RankBounds
<1>3. Left = ahead + Rank(pc)
  BY DEF Left
<1>4. CASE pc' = "idle"
  BY <1>1, <1>2, <1>3, <1>4 DEF Left
<1>5. CASE pc' # "idle" /\ Rank(pc') < Rank(pc) /\ pc' # "beforeLoop"
  <2>1. Left' = ahead + Rank(pc')
    BY <1>5 DEF Left
  <2> HIDE DEF ahead
  <2> QED BY <1>1, <1>2, <1>3, <1>5, <2>1
<1>6. CASE pc' \in {"top", "afterLoop"}
  <2>1. Rank(pc') <= 2
    BY <1>6 DEF Rank
  <2> QED BY <1>2, <1>5, <1>6, <2>1
<1> QED BY <1>4, <1>5, <1>6

\* The same for the hooks, of which next is nearer to the end than here.
LEMMA HookStep ==
    ASSUME NEW o \in Outcomes, NEW ex, NEW here, NEW next, GuardedHook(here, o, ex, next),
           here \notin {"idle", "beforeLoop"}, next # "beforeLoop",
           Rank(here) > 2, Rank(next) < Rank(here),
           count \in 0 .. Limit, count' = count
    PROVE  Left' < Left
  BY HookEffect, RoundStep

LEMMA StepCounts == TypeInv /\ LoopInv /\ Step => Left' < Left
<1> SUFFICES ASSUME TypeInv, LoopInv, Step PROVE Left' < Left
  OBVIOUS
<1>0. count \in 0 .. Limit
  BY DEF TypeInv
<1>2. CASE Top
  <2>1. Rank(pc) = 2 /\ Rank(pc') = 15
    BY <1>2 DEF Top, Rank
  <2> QED BY <1>0, <1>2, <2>1, BoundsAssumption DEF Top, Left
<1>3. CASE NoHandler
  <2>1. Rank(pc) = 14 /\ Rank(pc') = 3
    BY <1>3 DEF NoHandler, Rank
  <2> QED BY <1>0, <1>3, <2>1, RoundStep DEF NoHandler, roundVars
<1>4. ASSUME NEW o, NEW hash, Take(o, hash), pc = "load", count' = count
      PROVE  Left' < Left
  <2>1. pc' \in {"refused", "notFound", "beforeExecuteRoute"}
    BY <1>4, TakeEffect
  <2>2. Rank(pc) = 14 /\ Rank(pc') < 14
    BY <1>4, <2>1 DEF Rank
  <2> QED BY <1>0, <1>4, <2>1, <2>2, RoundStep
<1>5. CASE KnownHandler
  BY <1>4, <1>5 DEF KnownHandler
<1>6. ASSUME NEW hash \in NewHashes, NewHandler(hash) PROVE Left' < Left
  BY <1>4, <1>6 DEF NewHandler
<1>7. ASSUME NEW ex \in Answers, Refused(ex) PROVE Left' < Left
  <2>1. PICK v : /\ Proceed(v, "top") /\ v.verdict \in {"escape", "again", "on"}
                 /\ pc = "refused" /\ count' = count
    BY <1>7 DEF Refused, Refuse, roundVars
  <2>2. Rank(pc) = 3
    BY <2>1 DEF Rank
  <2> QED BY <1>0, <2>1, <2>2, ProceedEffect, RoundStep
<1>8. ASSUME NEW ex \in Answers, Cyclic(ex) PROVE Left' < Left
  <2>1. pc = "top" /\ count' = count + 1 /\ pc' \in {"afterLoop", "idle"}
    BY <1>8 DEF Cyclic, Leave
  <2>2. Rank(pc) = 2
    BY <2>1 DEF Rank
  <2>3. count' <= Limit
    BY <2>1, BoundsAssumption DEF LoopInv, InLoop
  <2>4. Rank("afterLoop") = 1
    BY DEF Rank
  <2>5. Left = 16 * (Limit - count) + 2
    BY <2>1, <2>2 DEF Left
  <2>6. Left' \in {0, 16 * (Limit - (count + 1)) + 1}
    BY <2>1, <2>4 DEF Left
  <2> QED BY <1>0, <2>1, <2>3, <2>5, <2>6, BoundsAssumption
\* Hooks outside of any try.
<1>9. ASSUME NEW o \in Outcomes, NEW here, NEW next, pc = here, count' = count,
             Proceed(Unguarded(o), next), here \notin {"idle", "beforeLoop"},
             next # "beforeLoop", Rank(here) > 2, Rank(next) < Rank(here)
      PROVE  Left' < Left
  BY <1>0, <1>9, UnguardedVerdict, ProceedEffect, RoundStep
<1>10. ASSUME NEW o \in Outcomes, BeforeNotFoundAction(o) PROVE Left' < Left
  <2>1. Rank("notFound") = 4 /\ Rank("refused") = 3
    BY DEF Rank
  <2> QED BY <1>9, <1>10, <2>1 DEF BeforeNotFoundAction, roundVars
<1>11. ASSUME NEW o \in Outcomes, AfterBinding("binding", "afterBinding", o) PROVE Left' < Left
  <2>1. Rank("binding") = 9 /\ Rank("afterBinding") = 8
    BY DEF Rank
  <2> QED BY <1>9, <1>11, <2>1 DEF AfterBinding, roundVars
<1>12. ASSUME NEW o \in Outcomes, AfterBinding("afterBinding", "action", o) PROVE Left' < Left
  <2>1. Rank("afterBinding") = 8 /\ Rank("action") = 7
    BY DEF Rank
  <2> QED BY <1>9, <1>12, <2>1 DEF AfterBinding, roundVars
<1>13. ASSUME NEW o \in Outcomes, NEW ex \in Answers, BeforeDispatchLoop(o, ex)
       PROVE  Left' < Left
  <2>1. /\ pc = "beforeLoop"
        /\ \/ pc' = "idle"
           \/ pc' = "top" /\ count' = 0
    BY <1>13 DEF BeforeDispatchLoop, Leave
  <2>2. Left = 16 * Limit + 3
    BY <2>1 DEF Left
  <2>3. Rank("top") = 2
    BY DEF Rank
  <2>4. Left' = 0 \/ Left' = 16 * (Limit - 0) + 2
    BY <2>1, <2>3 DEF Left
  <2> QED BY <2>2, <2>4, BoundsAssumption
<1>14. ASSUME NEW o \in Outcomes, NEW ex \in Answers, BeforeDispatch(o, ex)
       PROVE  Left' < Left
  <2>1. Rank("beforeDispatch") = 15 /\ Rank("load") = 14
    BY DEF Rank
  <2> QED BY <1>0, <1>14, <2>1, HookStep DEF BeforeDispatch
<1>15. ASSUME NEW o \in Outcomes, NEW ex \in Answers,
              NEW here \in {"beforeExecuteRoute", "beforeExecuteRouteMethod"},
              NEW next \in {"beforeExecuteRouteMethod", "initialize", "binding"},
              here # next, BeforeExecuteRoute(here, next, o, ex)
       PROVE  Left' < Left
  <2>1. here \notin {"idle", "beforeLoop"} /\ next # "beforeLoop"
    OBVIOUS
  <2>2. Rank(here) > 2 /\ Rank(next) < Rank(here)
    BY <1>15 DEF Rank
  <2> QED BY <1>0, <1>15, <2>1, <2>2, HookStep DEF BeforeExecuteRoute, roundVars
<1>16. ASSUME NEW o \in Outcomes, NEW ex \in Answers, Initialize(o, ex)
       PROVE  Left' < Left
  <2> DEFINE r == Guarded(Deaf(o), ex, TRUE, FALSE)
  <2>1. r.verdict \in {"escape", "again", "on"}
    BY DeafOutcome, GuardedVerdict
  <2>2. Proceed(r, "afterInitialize") /\ pc = "initialize" /\ count' = count
    BY <1>16 DEF Initialize, roundVars
  <2>3. Rank("initialize") = 11 /\ Rank("afterInitialize") = 10
    BY DEF Rank
  <2> HIDE DEF r
  <2> QED BY <1>0, <2>1, <2>2, <2>3, ProceedEffect, RoundStep
<1>17. ASSUME NEW o \in Outcomes, NEW ex \in Answers,
              NEW here \in {"afterInitialize", "afterExecuteRoute", "afterExecuteRouteMethod"},
              NEW next \in {"binding", "afterExecuteRouteMethod", "afterDispatch"},
              Rank(next) < Rank(here), Hook(here, next, o, ex)
       PROVE  Left' < Left
  <2>1. Rank(here) > 2
    BY DEF Rank
  <2> QED BY <1>0, <1>17, <2>1, HookStep DEF Hook, roundVars
<1>18. ASSUME NEW o \in Outcomes, NEW ex \in Answers, CallAction(o, ex)
       PROVE  Left' < Left
  <2>1. Rank("action") = 7 /\ Rank("afterExecuteRoute") = 6
    BY DEF Rank
  <2> QED BY <1>0, <1>18, <2>1, DeafOutcome, HookStep DEF CallAction, roundVars
<1>19. ASSUME NEW o \in Outcomes, NEW ex \in Answers, AfterDispatch(o, ex)
       PROVE  Left' < Left
  <2>1. Rank("afterDispatch") = 4 /\ Rank("afterLoop") = 1
    BY DEF Rank
  <2> QED BY <1>0, <1>19, <2>1, DeafOutcome, HookStep DEF AfterDispatch, roundVars
<1>20. ASSUME NEW o \in Outcomes, NEW ex \in Answers, AfterDispatchLoop(o, ex)
       PROVE  Left' < Left
  <2>1. pc = "afterLoop" /\ pc' = "idle"
    BY <1>20 DEF AfterDispatchLoop, Leave
  <2>2. Rank("afterLoop") = 1
    BY DEF Rank
  <2> QED BY <1>0, <2>1, <2>2, BoundsAssumption DEF Left
<1>21. Rank("afterInitialize") > Rank("binding")
  BY DEF Rank
<1>22. Rank("afterExecuteRoute") > Rank("afterExecuteRouteMethod")
  BY DEF Rank
<1>23. Rank("afterExecuteRouteMethod") > Rank("afterDispatch")
  BY DEF Rank
<1>24. ASSUME NEW o \in Outcomes, NEW ex \in Answers,
              BeforeExecuteRoute("beforeExecuteRouteMethod", AfterMethod, o, ex)
       PROVE  Left' < Left
  BY <1>15, <1>24 DEF AfterMethod
<1> QED
  BY <1>2, <1>3, <1>5, <1>6, <1>7, <1>8, <1>10, <1>11, <1>12, <1>13, <1>14, <1>15,
     <1>16, <1>17, <1>18, <1>19, <1>20, <1>21, <1>22, <1>23, <1>24 DEF Step

\* dispatch() cannot run on: every step of a call, of whatever handlers and
\* listeners that forward as they like, takes one from a natural number that
\* is at most 16 * Limit + 15, so that a call has at most that many steps.
THEOREM StepsRunOut ==
    Spec => /\ [](Left \in 0 .. 16 * Limit + 15)
            /\ [][Step => Left' < Left]_vars
<1>1. Init => LoopInv /\ RouteInv /\ HandlerInv /\ TypeInv
  BY InitTypes
<1>2. TypeInv => Left \in 0 .. 16 * Limit + 15
  BY LeftBounds DEF TypeInv
<1>3. TypeInv /\ LoopInv => [Step => Left' < Left]_vars
  BY StepCounts
<1> QED
  BY <1>1, <1>2, <1>3, LoopStep, RouteStep, HandlerStep, TypeStep, PTL DEF Spec
=============================================================================
