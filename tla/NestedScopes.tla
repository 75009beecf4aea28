---------------------------- MODULE NestedScopes ----------------------------
(***************************************************************************)
(* What a connection promises to a caller that nests begin()/commit()/     *)
(* rollback() properly: a stack of scopes.  Effects of an open outermost   *)
(* scope are pending and become durable, all together, when that scope is  *)
(* committed.  Rolling back the outermost scope drops them all; rolling    *)
(* back an inner scope drops exactly what was done since it was opened     *)
(* when the scope is hard (backed by a savepoint) and nothing when it is   *)
(* soft (a mere change of the nesting level).                              *)
(***************************************************************************)
EXTENDS Naturals, Sequences, SequencesExt

CONSTANT Effects

VARIABLES durable,  \* effects that survive the session
          pending,  \* effects of the open outermost scope
          stack     \* open scopes, outermost first

scopeVars == <<durable, pending, stack>>

\* mark: what was pending when a hard scope was opened
Scope(hard, mark) == [hard |-> hard, mark |-> mark]

Init == /\ durable = {}
        /\ pending = {}
        /\ stack = <<>>

Do(e) ==
    /\ IF stack = <<>>
       THEN durable' = durable \cup {e} /\ UNCHANGED pending
       ELSE pending' = pending \cup {e} /\ UNCHANGED durable
    /\ UNCHANGED stack

OpenOutermost ==
    /\ stack = <<>>
    /\ stack' = <<Scope(TRUE, {})>>
    /\ UNCHANGED <<durable, pending>>

OpenInner(hard) ==
    /\ stack # <<>>
    /\ stack' = Append(stack, Scope(hard, IF hard THEN pending ELSE {}))
    /\ UNCHANGED <<durable, pending>>

CommitOutermost ==
    /\ Len(stack) = 1
    /\ durable' = durable \cup pending
    /\ pending' = {}
    /\ stack' = <<>>

CommitInner ==
    /\ Len(stack) > 1
    /\ stack' = Front(stack)
    /\ UNCHANGED <<durable, pending>>

RollbackScope ==
    /\ stack # <<>>
    /\ pending' = IF Last(stack).hard THEN Last(stack).mark ELSE pending
    /\ stack' = Front(stack)
    /\ UNCHANGED durable

Next == \/ \E e \in Effects : Do(e)
        \/ OpenOutermost
        \/ \E hard \in BOOLEAN : OpenInner(hard)
        \/ CommitOutermost
        \/ CommitInner
        \/ RollbackScope

Spec == Init /\ [][Next]_scopeVars
=============================================================================
