-------------------------- MODULE ComponentDepends --------------------------
(***************************************************************************)
(* How cli.sh runs an action (do_install, do_start, do_stop...) of the     *)
(* components of a container: component_depends() lists them and all they  *)
(* depend on, component_exec() runs the action of each one in that order.  *)
(*                                                                         *)
(* component_depends() is a recursive shell function: its calls are the    *)
(* frames of a stack, their local variables the fields of a frame, and     *)
(* IGNORE_DEPENDS is one variable that all of them share.                  *)
(***************************************************************************)
EXTENDS Integers, SequencesExt

CONSTANTS
  Component,   \* the names a DEPENDS line may hold
  NoLine,      \* the DEPENDS of a deploy.conf without such a line
  MaxDepends,  \* bound: the names in one DEPENDS line
  Included,    \* what the command names, or INCLUDE holds
  Missing,     \* which names may have no deploy.conf
  Excludable   \* which components deploy -n may exclude

\* The lists of at most n different members of S.
Lists(S, n) == {s \in SeqOf(S, n) : IsInjective(s)}

ASSUME ComponentAssumption ==
  /\ IsFiniteSet(Component)
  /\ NoLine \notin Lists(Component, MaxDepends)
  /\ MaxDepends \in Nat
  /\ Included \subseteq Lists(Component, Cardinality(Component)) \ {<<>>}
  /\ Missing \subseteq Component
  /\ Excludable \subseteq Component

VARIABLES
  depends,   \* the DEPENDS line of every component
  existing,  \* the components that have a deploy.conf
  excluded,  \* EXCLUDE_COMPONENTS
  include,   \* the components component_exec is called with
  stack,     \* the calls of component_depends, the innermost one last
  ignore,    \* IGNORE_DEPENDS
  output,    \* what component_depends has written
  executed,  \* the components whose action has succeeded
  phase

conf == <<depends, existing, excluded, include>>
vars == <<conf, stack, ignore, output, executed, phase>>

Frame == [left : Seq(Component), DEPENDS : Seq(Component)]

\* The bound on the depth is what "check deadlocks" is for: components that
\* depend on each other (init and init/sysv do) end in no endless recursion.
TypeOK ==
  /\ stack \in Seq(Frame)
  /\ Len(stack) <= Cardinality(Component) + 1
  /\ ignore \subseteq Component
  /\ output \in Seq(Component)
  /\ executed \in Seq(Component)
  /\ phase \in {"depends", "exec", "done", "failed"}

\* A call of component_depends.
Call(components) == [left |-> components, DEPENDS |-> <<>>]

Init ==
  /\ depends \in [Component -> Lists(Component, MaxDepends) \cup {NoLine}]
  /\ \A c \in Component : depends[c] # NoLine => c \notin Range(depends[c])
  /\ existing \in {Component, Component \ Missing}
  /\ excluded \in {{}, Excludable}
  /\ include \in Included
  /\ stack = <<Call(include)>>
  /\ ignore = {}
  /\ output = <<>>
  /\ executed = <<>>
  /\ phase = "depends"

-----------------------------------------------------------------------------
(* component_depends                                                       *)

Top == Last(stack)
Calling == stack # <<>>

\* The innermost call goes on with the next of its components.
Shifted == [Top EXCEPT !.left = Tail(@)]

\* Mutant: the rest of the list is dropped with the component ("return").
IgnoreRest ==
  /\ Calling
  /\ Top.left # <<>>
  /\ Head(Top.left) \in ignore
  /\ stack' = Append(Front(stack), [Top EXCEPT !.left = <<>>])
  /\ UNCHANGED <<conf, ignore, output, executed, phase>>

\* The component was met before.
Ignore ==
  /\ Calling
  /\ Top.left # <<>>
  /\ Head(Top.left) \in ignore
  /\ stack' = Append(Front(stack), Shifted)
  /\ UNCHANGED <<conf, ignore, output, executed, phase>>

\* There is no such component.
SkipMissing ==
  /\ Calling
  /\ Top.left # <<>>
  /\ Head(Top.left) \notin ignore \cup existing
  /\ ignore' = ignore \cup {Head(Top.left)}
  /\ stack' = Append(Front(stack), Shifted)
  /\ UNCHANGED <<conf, output, executed, phase>>

\* The variable DEPENDS once the deploy.conf was read: what it held for the
\* component before, in the same call, when this one has no such line.
DependsRead(c) == IF depends[c] = NoLine THEN Top.DEPENDS ELSE depends[c]

\* Mutant: a component is ignored only once it has been written.
VisitUnmarked ==
  /\ Calling
  /\ Top.left # <<>>
  /\ Head(Top.left) \in existing \ ignore
  /\ LET d == DependsRead(Head(Top.left))
     IN stack' = Append(Append(Front(stack), [Top EXCEPT !.DEPENDS = d]), Call(d))
  /\ UNCHANGED <<conf, ignore, output, executed, phase>>

\* The component is marked, and the dependencies come first.
Visit ==
  /\ Calling
  /\ Top.left # <<>>
  /\ Head(Top.left) \in existing \ ignore
  /\ ignore' = ignore \cup {Head(Top.left)}
  /\ LET d == DependsRead(Head(Top.left))
     IN stack' = Append(Append(Front(stack), [Top EXCEPT !.DEPENDS = d]), Call(d))
  /\ UNCHANGED <<conf, output, executed, phase>>

\* The call is done: its caller writes the component whose dependencies these
\* were, or component_exec has the list, and refuses an empty one.
Returned ==
  IF Len(stack) = 1
  THEN /\ stack' = <<>>
       /\ phase' = IF output = <<>> THEN "failed" ELSE "exec"
       /\ UNCHANGED output
  ELSE LET caller == stack[Len(stack) - 1]
       IN /\ stack' = Append(SubSeq(stack, 1, Len(stack) - 2),
                             [caller EXCEPT !.left = Tail(@)])
          /\ output' = Append(output, Head(caller.left))
          /\ UNCHANGED phase

\* Mutant: only the components that wait for this one stay marked.
ReturnForgetting ==
  /\ Calling
  /\ Top.left = <<>>
  /\ Returned
  /\ ignore' = {Head(stack[i].left) : i \in 1 .. Len(stack) - 1}
  /\ UNCHANGED <<conf, executed>>

Return ==
  /\ Calling
  /\ Top.left = <<>>
  /\ Returned
  /\ UNCHANGED <<conf, ignore, executed>>

-----------------------------------------------------------------------------
(* component_exec                                                          *)

Exclude ==
  /\ phase = "exec"
  /\ output # <<>>
  /\ Head(output) \in excluded
  /\ output' = Tail(output)
  /\ UNCHANGED <<conf, stack, ignore, executed, phase>>

Execute ==
  /\ phase = "exec"
  /\ output # <<>>
  /\ Head(output) \notin excluded
  /\ output' = Tail(output)
  /\ executed' = Append(executed, Head(output))
  /\ UNCHANGED <<conf, stack, ignore, phase>>

\* Mutant: a component that fails is passed over.
FailuresPassedOver ==
  /\ phase = "exec"
  /\ output # <<>>
  /\ Head(output) \notin excluded
  /\ output' = Tail(output)
  /\ UNCHANGED <<conf, stack, ignore, executed, phase>>

\* The action fails, or a parameter is missing: nothing after it is executed.
\* (stop calls this function in an || list, where set -e has no effect: it
\* executes the action without the parameter.)
ExecuteFails ==
  /\ phase = "exec"
  /\ output # <<>>
  /\ Head(output) \notin excluded
  /\ phase' = "failed"
  /\ UNCHANGED <<conf, stack, ignore, output, executed>>

Finish ==
  /\ phase = "exec"
  /\ output = <<>>
  /\ phase' = "done"
  /\ UNCHANGED <<conf, stack, ignore, output, executed>>

Next ==
  \/ Ignore \/ SkipMissing \/ Visit \/ Return
  \/ Exclude \/ Execute \/ ExecuteFails \/ Finish

Spec == Init /\ [][Next]_vars

-----------------------------------------------------------------------------
(* The reference definition: what the DEPENDS lines mean.                  *)

Dependencies(c) ==
  IF c \notin existing \/ depends[c] = NoLine THEN {} ELSE Range(depends[c])

Closed(S) == \A c \in S : Dependencies(c) \subseteq S

\* d is needed for the components of S, directly or through others.
Needed(d, S) == \A T \in SUBSET Component : S \subseteq T /\ Closed(T) => d \in T

\* The action of no component is executed twice, however many others depend on
\* it (IGNORE_DEPENDS).
ExecutedOnce == IsInjective(executed)

\* When a component is executed, everything it depends on has been, except what
\* depends on it in turn: a DEPENDS left over from the component before changes
\* no order, and nothing is executed after a failure.
DependenciesFirst ==
  \A i \in DOMAIN executed :
    \A d \in Dependencies(executed[i]) :
      \/ d \in excluded \/ d \notin existing
      \/ Needed(executed[i], {d})
      \/ \E k \in 1 .. i - 1 : executed[k] = d

\* A command that succeeds has executed all that is needed for the components
\* it names, and nothing else.
AllExecuted ==
  phase = "done" =>
    Range(executed) =
      {c \in existing \ excluded : Needed(c, Range(include))}
=============================================================================
