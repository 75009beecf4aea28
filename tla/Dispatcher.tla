----------------------------- MODULE Dispatcher -----------------------------
(***************************************************************************)
(* Phalcon\Dispatcher\AbstractDispatcher::dispatch(), with the exception   *)
(* handling of Phalcon\Mvc\Dispatcher: the loop that looks a handler up,   *)
(* runs its action between the hooks of listeners and of the handler       *)
(* itself, and follows the forwards that any of them makes.                *)
(*                                                                         *)
(* A hook is one step.  What it does is an outcome: it may forward, and    *)
(* then return, return false, throw an Exception, or end in a PHP Error,   *)
(* which "catch Exception" does not catch.  ex is what the listeners of    *)
(* dispatch:beforeException answer when the step offers them an exception; *)
(* without an events manager every such answer is a plain return.          *)
(*                                                                         *)
(* A handler object is a number, in order of creation; no object is 0.     *)
(* PHP gives a new object the hash of a freed one: hashes are modelled.    *)
(***************************************************************************)
EXTENDS Naturals, Sequences, FiniteSets

CONSTANTS Classes,   \* handler classes
          Routes,    \* what can be dispatched to
          NoRoute,
          Rets,      \* ways a hook ends
          Limit,     \* 256 in the code: rounds before a cycle is assumed
          MaxCalls,  \* bound: dispatch() calls in one request
          Reuse      \* freed hashes are given to new objects

\* noClass: the class does not exist; invalid: the container does not return
\* an object; badParams: the parameters are not an array; noAction: the
\* method is not callable.
Kinds == {"noClass", "invalid", "badParams", "noAction", "ok"}

ASSUME RoutesAssumption ==
    /\ Routes \subseteq [class : Classes, kind : Kinds]
    /\ NoRoute \notin Routes
ASSUME RetsAssumption ==
    {"on"} \subseteq Rets /\ Rets \subseteq {"on", "false", "throw", "error"}
ASSUME BoundsAssumption ==
    Limit \in Nat \ {0} /\ MaxCalls \in Nat /\ Reuse \in BOOLEAN

VARIABLES pc,            \* where dispatch() is; "idle" outside of it
          route,         \* namespaceName, handlerName, actionName and params
          finished, count,
          current,       \* handlerClass, actionMethod: the route of the round
          handler,       \* the local variable handler
          isNewHandler,
          activeHandler, lastHandler,
          handlerHashes,
          isControllerInitialize,
          shared,        \* the shared instances of the container
          hashOf,        \* spl_object_hash() of each object created
          initialized,   \* objects whose initialize() was called (history)
          calls, result

vars == <<pc, route, finished, count, current, handler, isNewHandler,
          activeHandler, lastHandler, handlerHashes, isControllerInitialize,
          shared, hashOf, initialized, calls, result>>

objectVars == <<activeHandler, lastHandler, handlerHashes, shared, hashOf>>
roundVars  == <<count, current, isNewHandler>>

Outcomes == [ret : Rets, fwd : Routes \cup {NoRoute}]
Answers  == [ret : Rets \ {"error"}, fwd : Routes \cup {NoRoute}]

Objects == DOMAIN hashOf

\* Freed objects: neither the container nor the dispatcher refers to them.
Freed == {o \in Objects : /\ o \notin {handler, activeHandler, lastHandler}
                          /\ \A c \in Classes : shared[c] # o}

\* Hashes a new object can get.
NewHashes ==
    {Len(hashOf) + 1} \cup
    (IF Reuse THEN {hashOf[o] : o \in Freed} \ {hashOf[o] : o \in Objects \ Freed}
              ELSE {})

Init ==
    /\ pc = "idle"
    /\ route = NoRoute /\ current = NoRoute
    /\ finished = FALSE /\ count = 0
    /\ handler = 0 /\ activeHandler = 0 /\ lastHandler = 0
    /\ isNewHandler = FALSE
    /\ handlerHashes = {} /\ isControllerInitialize = FALSE
    /\ shared = [c \in Classes |-> 0]
    /\ hashOf = <<>>
    /\ initialized = {}
    /\ calls = 0 /\ result = "none"

----------------------------------------------------------------------------
(* What a hook did *)

\* forward(), which throws while isControllerInitialize is set.
Forwards(o, initializing) == o.fwd # NoRoute /\ ~initializing
Throws(o, initializing) ==
    o.ret = "throw" \/ (o.fwd # NoRoute /\ initializing /\ o.ret # "error")

After(r, o, initializing) ==
    IF Forwards(o, initializing) THEN [route |-> o.fwd, finished |-> FALSE] ELSE r

\* handleException() and the test that follows it in every catch of the loop:
\* a listener that forwards need not return false as well.
Caught(r, ex, initializing) ==
    LET after == After(r, ex, initializing)
    IN  [route |-> after.route, finished |-> after.finished,
         verdict |-> IF /\ ~Throws(ex, initializing)
                        /\ ex.ret = "false" \/ ~after.finished
                     THEN "again" ELSE "escape"]

\* A hook inside try ... catch; the flag as the hook and as the catch see it.
Guarded(o, ex, initializing, catching) ==
    LET after == After([route |-> route, finished |-> finished], o, initializing)
    IN  IF Throws(o, initializing) THEN Caught(after, ex, catching)
        ELSE [route |-> after.route, finished |-> after.finished,
              verdict |-> CASE o.ret = "error" -> "escape"
                            [] o.ret # "error" /\ (o.ret = "false" \/ ~after.finished) -> "again"
                            [] o.ret = "on" /\ after.finished -> "on"]

\* A hook outside of it.
Unguarded(o) ==
    LET after == After([route |-> route, finished |-> finished], o, isControllerInitialize)
    IN  [route |-> after.route, finished |-> after.finished,
         verdict |-> CASE o.ret = "error" \/ Throws(o, isControllerInitialize) -> "escape"
                       [] o.ret = "false" /\ ~Throws(o, isControllerInitialize) -> "again"
                       [] o.ret = "on" /\ ~Throws(o, isControllerInitialize) ->
                            IF after.finished THEN "on" ELSE "again"]

----------------------------------------------------------------------------
(* Leaving *)

\* dispatch() ends; the local variable goes.
Leave(ret) ==
    /\ pc' = "idle"
    /\ result' = ret
    /\ handler' = 0

\* Mutant: break where the code continues.
ProceedBreaking(r, next) ==
    /\ route' = r.route
    /\ finished' = r.finished
    /\ CASE r.verdict = "escape" -> Leave("throw")
         [] r.verdict = "again" -> pc' = "afterLoop" /\ UNCHANGED <<handler, result>>
         [] r.verdict = "on" -> pc' = next /\ UNCHANGED <<handler, result>>

\* The verdict on the round: leave by the exception, loop, or go on at next.
Proceed(r, next) ==
    /\ route' = r.route
    /\ finished' = r.finished
    /\ CASE r.verdict = "escape" -> Leave("throw")
         [] r.verdict = "again" ->
              pc' = (IF r.finished THEN "afterLoop" ELSE "top") /\ UNCHANGED <<handler, result>>
         [] r.verdict = "on" -> pc' = next /\ UNCHANGED <<handler, result>>

GuardedHook(here, o, ex, next) ==
    /\ pc = here
    /\ Proceed(Guarded(o, ex, isControllerInitialize, isControllerInitialize), next)

----------------------------------------------------------------------------
(* dispatch() *)

\* The application sets the route, or forwards to it, and dispatches.
Dispatch(r) ==
    /\ pc = "idle" /\ calls < MaxCalls
    /\ pc' = "beforeLoop"
    /\ route' = r
    /\ finished' = TRUE
    /\ calls' = calls + 1
    /\ result' = "none"
    /\ UNCHANGED <<handler, isControllerInitialize, initialized, objectVars, roundVars>>

\* dispatch:beforeDispatchLoop: here a forward takes precedence over false,
\* and false alone decides whether an exception is silent.
BeforeDispatchLoop(o, ex) ==
    /\ pc = "beforeLoop"
    /\ LET before == [route |-> route, finished |-> TRUE]
           after  == After(before, o, isControllerInitialize)
           threw  == Throws(o, isControllerInitialize)
           end    == IF threw THEN After(after, ex, isControllerInitialize) ELSE after
           escapes == \/ o.ret = "error"
                      \/ threw /\ Throws(ex, isControllerInitialize)
                      \/ threw /\ end.finished /\ ex.ret # "false"
           silent == (IF threw THEN ex.ret = "false" ELSE o.ret = "false") /\ end.finished
       IN  /\ route' = end.route
           /\ CASE escapes -> Leave("throw") /\ finished' = end.finished /\ UNCHANGED count
                [] ~escapes /\ silent ->
                     Leave("false") /\ finished' = end.finished /\ UNCHANGED count
                [] ~escapes /\ ~silent ->
                     /\ pc' = "top" /\ finished' = FALSE /\ count' = 0
                     /\ UNCHANGED <<handler, result>>
    /\ UNCHANGED <<current, isNewHandler, isControllerInitialize, initialized, calls, objectVars>>

\* throwDispatchException(): the round ends when a listener returns false
\* (a forward alone is not enough), otherwise the exception leaves dispatch().
Refuse(ex) ==
    LET r == After([route |-> route, finished |-> finished], ex, isControllerInitialize)
        handled == ex.ret = "false" /\ ~Throws(ex, isControllerInitialize)
        v == [route |-> r.route, finished |-> r.finished,
              verdict |-> IF handled THEN "again" ELSE "escape"]
    IN  Proceed(v, "top")

Refused(ex) ==
    /\ pc = "refused"
    /\ Refuse(ex)
    /\ UNCHANGED <<isControllerInitialize, initialized, calls, objectVars, roundVars>>

\* Mutants: no limit, and rounds that are not counted.
TopUnlimited ==
    /\ pc = "top"
    /\ count' = count + 1
    /\ finished' = TRUE
    /\ pc' = "beforeDispatch"
    /\ UNCHANGED <<route, current, handler, isNewHandler, isControllerInitialize,
                   initialized, calls, result, objectVars>>

TopUncounted ==
    /\ pc = "top"
    /\ finished' = TRUE
    /\ pc' = "beforeDispatch"
    /\ UNCHANGED <<route, count, current, handler, isNewHandler, isControllerInitialize,
                   initialized, calls, result, objectVars>>

\* The next round.
Top ==
    /\ pc = "top"
    /\ count + 1 < Limit
    /\ count' = count + 1
    /\ finished' = TRUE
    /\ pc' = "beforeDispatch"
    /\ UNCHANGED <<route, current, handler, isNewHandler, isControllerInitialize,
                   initialized, calls, result, objectVars>>

\* Too many of them: the exception, and break when it is stopped.
Cyclic(ex) ==
    /\ pc = "top"
    /\ count + 1 >= Limit
    /\ count' = count + 1
    /\ LET r == After([route |-> route, finished |-> finished], ex, isControllerInitialize)
           handled == ex.ret = "false" /\ ~Throws(ex, isControllerInitialize)
       IN  /\ route' = r.route /\ finished' = r.finished
           /\ IF handled THEN pc' = "afterLoop" /\ UNCHANGED <<handler, result>>
                         ELSE Leave("throw")
    /\ UNCHANGED <<current, isNewHandler, isControllerInitialize, initialized, calls, objectVars>>

BeforeDispatch(o, ex) ==
    /\ GuardedHook("beforeDispatch", o, ex, "load")
    /\ current' = route'
    /\ UNCHANGED <<count, isNewHandler, isControllerInitialize, initialized, calls, objectVars>>

----------------------------------------------------------------------------
(* The handler *)

\* Mutant: the hash is not remembered.
TakeForgetting(o, hash) ==
    /\ handler' = o
    /\ activeHandler' = o
    /\ isNewHandler' = (hash \notin handlerHashes)
    /\ handlerHashes' = handlerHashes
    /\ pc' = CASE current.kind = "badParams" -> "refused"
               [] current.kind = "noAction"  -> "notFound"
               [] OTHER                      -> "beforeExecuteRoute"

\* getShared() returns an object; it is new to the dispatcher when its hash is.
Take(o, hash) ==
    /\ handler' = o
    /\ activeHandler' = o
    /\ isNewHandler' = (hash \notin handlerHashes)
    /\ handlerHashes' = handlerHashes \cup {hash}
    /\ pc' = CASE current.kind = "badParams" -> "refused"
               [] current.kind = "noAction"  -> "notFound"
               [] OTHER                      -> "beforeExecuteRoute"

NoHandler ==
    /\ pc = "load"
    /\ current.kind \in {"noClass", "invalid"}
    /\ pc' = "refused"
    /\ handler' = IF current.kind = "invalid" THEN 0 ELSE handler
    /\ UNCHANGED <<route, finished, isControllerInitialize, initialized,
                   calls, result, objectVars, roundVars>>

KnownHandler ==
    /\ pc = "load"
    /\ current.kind \notin {"noClass", "invalid"}
    /\ shared[current.class] # 0
    /\ Take(shared[current.class], hashOf[shared[current.class]])
    /\ UNCHANGED <<route, finished, count, current, lastHandler, isControllerInitialize,
                   shared, hashOf, initialized, calls, result>>

NewHandler(hash) ==
    /\ pc = "load"
    /\ current.kind \notin {"noClass", "invalid"}
    /\ shared[current.class] = 0
    /\ LET o == Len(hashOf) + 1
       IN  /\ hashOf' = Append(hashOf, hash)
           /\ shared' = [shared EXCEPT ![current.class] = o]
           /\ Take(o, hash)
    /\ UNCHANGED <<route, finished, count, current, lastHandler, isControllerInitialize,
                   initialized, calls, result>>

\* dispatch:beforeNotFoundAction, outside of any try.
BeforeNotFoundAction(o) ==
    /\ pc = "notFound"
    /\ Proceed(Unguarded(o), "refused")
    /\ UNCHANGED <<isControllerInitialize, initialized, calls, objectVars, roundVars>>

\* What a method whose result is not looked at does to the round: that of the
\* action, of initialize() and of dispatch:afterDispatch.
Deaf(o) == IF o.ret = "false" THEN [o EXCEPT !.ret = "on"] ELSE o

\* Mutant: the handler stays in the container.
BeforeExecuteRouteKeeping(here, next, o, ex) ==
    /\ GuardedHook(here, o, ex, next)
    /\ UNCHANGED <<isControllerInitialize, initialized, calls, objectVars, roundVars>>

\* The event and the method of the handler: a round that ends here takes the
\* handler out of the container.
BeforeExecuteRoute(here, next, o, ex) ==
    /\ GuardedHook(here, o, ex, next)
    /\ shared' = IF Guarded(o, ex, isControllerInitialize, isControllerInitialize).verdict = "again"
                 THEN [shared EXCEPT ![current.class] = 0] ELSE shared
    /\ UNCHANGED <<activeHandler, lastHandler, handlerHashes, hashOf, roundVars,
                   isControllerInitialize, initialized, calls>>

\* initialize(), where forward() throws.  Its result is not looked at.
Initialize(o, ex) ==
    /\ pc = "initialize"
    /\ Proceed(Guarded(Deaf(o), ex, TRUE, FALSE), "afterInitialize")
    /\ isControllerInitialize' = (o.ret = "error")
    /\ initialized' = initialized \cup {handler}
    /\ UNCHANGED <<calls, objectVars, roundVars>>

\* Hooks that only end the round or let it go on.
Hook(here, next, o, ex) ==
    /\ GuardedHook(here, o, ex, next)
    /\ UNCHANGED <<isControllerInitialize, initialized, calls, objectVars, roundVars>>

\* Model binding with dispatch:afterBinding, and afterBinding() of the
\* handler, outside of any try.
AfterBinding(here, next, o) ==
    /\ pc = here
    /\ Proceed(Unguarded(o), next)
    /\ UNCHANGED <<isControllerInitialize, initialized, calls, objectVars, roundVars>>

CallAction(o, ex) ==
    /\ GuardedHook("action", Deaf(o), ex, "afterExecuteRoute")
    /\ lastHandler' = handler
    /\ UNCHANGED <<activeHandler, handlerHashes, shared, hashOf, isControllerInitialize,
                   initialized, calls, roundVars>>

AfterDispatch(o, ex) ==
    /\ GuardedHook("afterDispatch", Deaf(o), ex, "afterLoop")
    /\ UNCHANGED <<isControllerInitialize, initialized, calls, objectVars, roundVars>>

\* dispatch:afterDispatchLoop; forwards are too late.
AfterDispatchLoop(o, ex) ==
    /\ pc = "afterLoop"
    /\ LET after == After([route |-> route, finished |-> finished], o, isControllerInitialize)
           threw == Throws(o, isControllerInitialize)
           end   == IF threw THEN After(after, ex, isControllerInitialize) ELSE after
           silent == ex.ret = "false" /\ ~Throws(ex, isControllerInitialize)
       IN  /\ route' = end.route /\ finished' = end.finished
           /\ Leave(CASE o.ret = "error" \/ (threw /\ ~silent) -> "throw"
                      [] o.ret # "error" /\ threw /\ silent -> "false"
                      [] o.ret # "error" /\ ~threw ->
                           IF handler = 0 THEN "null" ELSE "handler")
    /\ UNCHANGED <<isControllerInitialize, initialized, calls, objectVars, roundVars>>

AfterMethod == IF isNewHandler THEN "initialize" ELSE "binding"

Step ==
    \/ Top
    \/ NoHandler
    \/ KnownHandler
    \/ \E hash \in NewHashes : NewHandler(hash)
    \/ \E ex \in Answers : Refused(ex) \/ Cyclic(ex)
    \/ \E o \in Outcomes :
          \/ BeforeNotFoundAction(o)
          \/ AfterBinding("binding", "afterBinding", o)
          \/ AfterBinding("afterBinding", "action", o)
    \/ \E o \in Outcomes, ex \in Answers :
          \/ BeforeDispatchLoop(o, ex)
          \/ BeforeDispatch(o, ex)
          \/ BeforeExecuteRoute("beforeExecuteRoute", "beforeExecuteRouteMethod", o, ex)
          \/ BeforeExecuteRoute("beforeExecuteRouteMethod", AfterMethod, o, ex)
          \/ Initialize(o, ex)
          \/ Hook("afterInitialize", "binding", o, ex)
          \/ CallAction(o, ex)
          \/ Hook("afterExecuteRoute", "afterExecuteRouteMethod", o, ex)
          \/ Hook("afterExecuteRouteMethod", "afterDispatch", o, ex)
          \/ AfterDispatch(o, ex)
          \/ AfterDispatchLoop(o, ex)

Next == Step \/ \E r \in Routes : Dispatch(r)

Spec == Init /\ [][Next]_vars

\* Hooks return: the script runs.
FairSpec == Spec /\ WF_vars(Step)

----------------------------------------------------------------------------
(* Properties *)

\* Types, and what the local variables hold at each place.
TypeOK ==
    /\ route \in Routes \cup {NoRoute} /\ current \in Routes \cup {NoRoute}
    /\ finished \in BOOLEAN /\ isNewHandler \in BOOLEAN
    /\ isControllerInitialize \in BOOLEAN
    /\ count \in 0 .. Limit /\ calls \in 0 .. MaxCalls
    /\ hashOf \in Seq(Nat)
    /\ {handler, activeHandler, lastHandler} \subseteq {0} \cup Objects
    /\ shared \in [Classes -> {0} \cup Objects]
    /\ initialized \subseteq Objects
    /\ result \in {"none", "handler", "null", "false", "throw"}

\* initialize() is called once (AbstractDispatcher.zep:387): no handler object
\* is initialized twice, however often forwards come back to it, also when its hash was that
\* of an earlier object.
InitializedOnce ==
    pc = "initialize" => handler \notin initialized

\* A forward is followed: the loop ends with one pending only when it has
\* reached its limit.
NoForwardLost == pc = "afterLoop" => finished \/ count = Limit

\* Every call of dispatch() ends, whatever forwards the hooks make, if the
\* hooks themselves return.
DispatchReturns == pc # "idle" ~> pc = "idle"

\* An action runs on an object that was not initialized only when its hash was
\* that of an earlier object, or when a route to its class was refused for its
\* parameters or for an action it does not have: cancelled rounds and forwards away and
\* back do not get around initialize().
InitializedBeforeAction ==
    pc = "action" =>
        \/ handler \in initialized
        \/ \E o \in Objects \ {handler} : hashOf[o] = hashOf[handler]
        \/ \E r \in Routes : r.class = current.class /\ r.kind \in {"badParams", "noAction"}

\* AbstractDispatcher.zep:338 "In order to ensure that the `initialize()` gets
\* called we'll destroy the current handlerClass from the DI container": an
\* action runs on an object whose initialize() was called.
ActionOnInitialized == pc = "action" => handler \in initialized
=============================================================================
