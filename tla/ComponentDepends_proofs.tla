----------------------- MODULE ComponentDepends_proofs -----------------------
(***************************************************************************)
(* Proofs about ComponentDepends for any number of components, any DEPENDS *)
(* lines and any list a command names: no action is executed twice, the    *)
(* recursion is never deeper than there are components, what a component   *)
(* depends on goes first, and all that is needed is executed.  The first   *)
(* invariant is that of a search that marks what it meets; the second one  *)
(* says that a call deals with the dependencies of the component that      *)
(* waits for it and, apart from what was met before, with nothing else.    *)
(***************************************************************************)
EXTENDS ComponentDepends, FiniteSetTheorems, TLAPS

Types ==
  /\ stack \in Seq(Frame)
  /\ ignore \subseteq Component
  /\ output \in Seq(Component)
  /\ executed \in Seq(Component)
  /\ phase \in {"depends", "exec", "done", "failed"}

Lines == \A c \in Component : depends[c] # NoLine => depends[c] \in Seq(Component)

\* The component whose dependencies the next call deals with.
Waits(i) == Head(stack[i].left)

\* Each caller waits for another component, which is marked and not written.
Waiting ==
  \A i \in 1 .. Len(stack) - 1 :
    /\ stack[i].left # <<>> /\ Waits(i) \in ignore
    /\ \A k \in 1 .. Len(output) : output[k] # Waits(i)
    /\ \A k \in 1 .. Len(stack) - 1 : i # k => Waits(i) # Waits(k)

\* What is written was marked, and is written once.
Written ==
  /\ phase = "depends" => \A i \in 1 .. Len(output) : output[i] \in ignore
  /\ \A i, k \in 1 .. Len(output) : i # k => output[i] # output[k]

\* What is executed is not there to be executed again.
Executed ==
  /\ \A i, k \in 1 .. Len(executed) : i # k => executed[i] # executed[k]
  /\ \A i \in 1 .. Len(executed), k \in 1 .. Len(output) : executed[i] # output[k]

Phases ==
  /\ phase = "depends" <=> stack # <<>>
  /\ phase = "depends" => executed = <<>>

DependsInv == Types /\ Lines /\ Waiting /\ Written /\ Executed /\ Phases

-----------------------------------------------------------------------------
LEMMA ListIsSeq == ASSUME NEW n \in Nat, NEW s \in Lists(Component, n) PROVE s \in Seq(Component)
BY DEF Lists, SeqOf

LEMMA Prefix ==
  ASSUME NEW S, NEW s \in Seq(S), NEW n \in Nat, n <= Len(s)
  PROVE  /\ SubSeq(s, 1, n) \in Seq(S) /\ Len(SubSeq(s, 1, n)) = n
         /\ \A i \in 1 .. n : SubSeq(s, 1, n)[i] = s[i]
OBVIOUS

\* The innermost call changes.
LEMMA TopChanged ==
  ASSUME NEW S, NEW s \in Seq(S), s # <<>>, NEW f \in S
  PROVE  /\ Append(Front(s), f) \in Seq(S) /\ Len(Append(Front(s), f)) = Len(s)
         /\ \A i \in 1 .. Len(s) - 1 : Append(Front(s), f)[i] = s[i]
         /\ Append(Front(s), f)[Len(s)] = f
         /\ Len(s) \in Nat \ {0}
<1>1. Len(s) \in Nat \ {0} /\ Len(s) - 1 \in Nat /\ Len(s) - 1 <= Len(s)
  OBVIOUS
<1>2. /\ Front(s) \in Seq(S) /\ Len(Front(s)) = Len(s) - 1
      /\ \A i \in 1 .. Len(s) - 1 : Front(s)[i] = s[i]
  BY <1>1, Prefix DEF Front
<1>3. QED
  BY <1>1, <1>2

LEMMA FrameChanges ==
  ASSUME NEW f \in Frame, NEW d \in Seq(Component)
  PROVE  /\ [f EXCEPT !.DEPENDS = d] \in Frame /\ [f EXCEPT !.DEPENDS = d].left = f.left
         /\ Call(d) \in Frame
         /\ f.left # <<>> => [f EXCEPT !.left = Tail(@)] \in Frame /\ Head(f.left) \in Component
<1>1. f.left \in Seq(Component) /\ f = [left |-> f.left, DEPENDS |-> f.DEPENDS]
  BY DEF Frame
<1>2. [f EXCEPT !.DEPENDS = d] = [left |-> f.left, DEPENDS |-> d]
  BY <1>1
<1>3. Call(d) \in Frame
  BY DEF Frame, Call
<1>4. ASSUME f.left # <<>>
      PROVE  [f EXCEPT !.left = Tail(@)] \in Frame /\ Head(f.left) \in Component
  <2>1. Tail(f.left) \in Seq(Component) /\ Head(f.left) \in Component
    BY <1>1, <1>4
  <2>2. QED
    BY <2>1 DEF Frame
<1>5. QED
  BY <1>1, <1>2, <1>3, <1>4 DEF Frame

LEMMA DependsInit == Init => DependsInv
<1> SUFFICES ASSUME Init PROVE DependsInv
  OBVIOUS
<1>1. Lines
  <2>1. \A c \in Component : depends[c] \in Lists(Component, MaxDepends) \cup {NoLine}
    BY DEF Init
  <2>2. QED
    BY <2>1, ListIsSeq, ComponentAssumption DEF Lines
<1>2. include \in Seq(Component)
  <2>1. include \in Lists(Component, Cardinality(Component))
    BY ComponentAssumption DEF Init
  <2>2. QED
    BY <2>1, ListIsSeq, FS_CardinalityType, ComponentAssumption
<1>3. Types /\ Len(stack) = 1
  BY <1>2 DEF Init, Types, Frame, Call
<1>4. QED
  BY <1>1, <1>3 DEF Init, DependsInv, Waiting, Written, Executed, Phases

\* A component that was met before, or does not exist, is passed over.
LEMMA PassedOver ==
  ASSUME DependsInv, Ignore \/ SkipMissing
  PROVE  DependsInv'
<1>1. /\ stack # <<>> /\ Top.left # <<>> /\ stack' = Append(Front(stack), Shifted)
      /\ ignore \subseteq ignore' /\ ignore' \subseteq ignore \cup {Head(Top.left)}
      /\ UNCHANGED <<depends, output, executed, phase>>
  BY DEF Ignore, SkipMissing, Calling, conf
<1>2. Top \in Frame /\ Types
  BY <1>1 DEF DependsInv, Types, Top, Last
<1>9. stack \in Seq(Frame)
  BY <1>2 DEF Types
<1>3. Shifted \in Frame /\ Head(Top.left) \in Component
  <2>1. <<>> \in Seq(Component)
    OBVIOUS
  <2>2. QED
    BY <1>1, <1>2, <2>1, FrameChanges DEF Shifted
<1>4. /\ stack' \in Seq(Frame) /\ Len(stack') = Len(stack) /\ Len(stack) \in Nat \ {0}
      /\ \A i \in 1 .. Len(stack) - 1 : stack'[i] = stack[i]
  BY <1>1, <1>3, <1>9, TopChanged
<1>5. Types' /\ Lines'
  BY <1>1, <1>2, <1>3, <1>4 DEF Types, DependsInv, Lines
<1>6. Waiting'
  BY <1>1, <1>4 DEF DependsInv, Waiting, Waits
<1>7. Phases'
  BY <1>1, <1>4 DEF DependsInv, Phases
<1>8. QED
  BY <1>1, <1>5, <1>6, <1>7 DEF DependsInv, Written, Executed

\* A component is marked, and its dependencies are called for.
LEMMA Visited ==
  ASSUME DependsInv, Visit
  PROVE  DependsInv'
<1> DEFINE c == Head(Top.left)
           d == DependsRead(c)
           f == [Top EXCEPT !.DEPENDS = d]
<1>1. /\ stack # <<>> /\ Top.left # <<>> /\ c \notin ignore /\ ignore' = ignore \cup {c}
      /\ stack' = Append(Append(Front(stack), f), Call(d))
      /\ UNCHANGED <<depends, output, executed, phase>>
  BY DEF Visit, Calling, conf
<1>2. Top \in Frame /\ Types
  BY <1>1 DEF DependsInv, Types, Top, Last
<1>3. c \in Component
  <2>1. <<>> \in Seq(Component)
    OBVIOUS
  <2>2. QED
    BY <1>1, <1>2, <2>1, FrameChanges
<1>4. d \in Seq(Component)
  <2>1. Top.DEPENDS \in Seq(Component)
    BY <1>2 DEF Frame
  <2>2. QED
    BY <1>3, <2>1 DEF DependsInv, Lines, DependsRead
<1> HIDE DEF d
<1>5. f \in Frame /\ f.left = Top.left /\ Call(d) \in Frame
  BY <1>2, <1>4, FrameChanges
<1> HIDE DEF f
<1>6. /\ stack' \in Seq(Frame) /\ Len(stack') = Len(stack) + 1 /\ Len(stack) \in Nat \ {0}
      /\ \A i \in 1 .. Len(stack) - 1 : stack'[i] = stack[i]
      /\ stack'[Len(stack)] = f
  <2> DEFINE s == Append(Front(stack), f)
  <2>1. /\ s \in Seq(Frame) /\ Len(s) = Len(stack) /\ Len(stack) \in Nat \ {0}
        /\ \A i \in 1 .. Len(stack) - 1 : s[i] = stack[i]
        /\ s[Len(stack)] = f
    BY <1>1, <1>2, <1>5, TopChanged DEF Types
  <2> HIDE DEF s
  <2>2. stack' = Append(s, Call(d))
    BY <1>1 DEF s
  <2>3. QED
    BY <1>5, <2>1, <2>2
<1>7. Types' /\ Lines'
  BY <1>1, <1>2, <1>3, <1>6 DEF Types, DependsInv, Lines
<1>8. phase = "depends" /\ \A i \in 1 .. Len(output) : output[i] \in ignore
  BY <1>1 DEF DependsInv, Phases, Written
<1>9. Waiting'
  <2> DEFINE n == Len(stack)
             waits(i) == Head(stack'[i].left)
  <2>1. /\ n \in Nat \ {0} /\ Len(stack') = n + 1
        /\ \A i \in 1 .. n - 1 : waits(i) = Waits(i) /\ stack'[i].left = stack[i].left
    BY <1>6 DEF Waits
  <2>2. waits(n) = c /\ stack'[n].left # <<>>
    BY <1>1, <1>5, <1>6
  <2>3. /\ \A i \in 1 .. n - 1 : stack[i].left # <<>> /\ Waits(i) \in ignore
        /\ \A i \in 1 .. n - 1, k \in 1 .. Len(output) : output[k] # Waits(i)
        /\ \A i, k \in 1 .. n - 1 : i # k => Waits(i) # Waits(k)
    BY DEF DependsInv, Waiting
  <2> HIDE DEF n, waits, c
  <2>4. \A i \in 1 .. n : i = n \/ i \in 1 .. n - 1
    BY <2>1
  <2>5. /\ \A i \in 1 .. n : stack'[i].left # <<>> /\ waits(i) \in ignore'
        /\ \A i \in 1 .. n, k \in 1 .. Len(output) : output[k] # waits(i)
    BY <1>1, <1>8, <2>1, <2>2, <2>3, <2>4
  <2>6. \A i, k \in 1 .. n : i # k => waits(i) # waits(k)
    BY <1>1, <2>1, <2>2, <2>3, <2>4
  <2>7. Len(stack') - 1 = n /\ output' = output
    BY <1>1, <2>1
  <2>8. QED
    BY <2>5, <2>6, <2>7 DEF Waiting, Waits, waits
<1>10. Phases'
  BY <1>1, <1>6, <1>8 DEF DependsInv, Phases
<1>11. QED
  BY <1>1, <1>7, <1>8, <1>9, <1>10 DEF DependsInv, Written, Executed

\* A call is done and its caller writes the component it waited for.
LEMMA CallerWrites ==
  ASSUME DependsInv, Return
  PROVE  DependsInv'
<1> DEFINE n == Len(stack)
<1>1. /\ stack # <<>> /\ Returned
      /\ UNCHANGED <<depends, ignore, executed>>
  BY DEF Return, Calling, conf
<1>2. Types /\ stack \in Seq(Frame) /\ n \in Nat \ {0}
  BY <1>1 DEF DependsInv, Types
<1>3. phase = "depends" /\ executed = <<>> /\ \A i \in 1 .. Len(output) : output[i] \in ignore
  BY <1>1 DEF DependsInv, Phases, Written
<1>4. CASE n = 1
  <2>1. stack' = <<>> /\ phase' \in {"failed", "exec"} /\ output' = output
    BY <1>1, <1>4 DEF Returned
  <2>2. Types' /\ Lines' /\ Phases' /\ Executed'
    BY <1>1, <1>2, <1>3, <2>1 DEF Types, DependsInv, Lines, Phases, Executed
  <2>3. Waiting' /\ Written'
    BY <1>1, <2>1 DEF DependsInv, Waiting, Written
  <2>4. QED
    BY <2>2, <2>3 DEF DependsInv
<1>5. CASE n # 1
  <2> DEFINE caller == stack[n - 1]
             c == Head(caller.left)
             f == [caller EXCEPT !.left = Tail(@)]
             s == SubSeq(stack, 1, n - 2)
  <2>1. /\ stack' = Append(s, f) /\ output' = Append(output, c) /\ phase' = phase
    BY <1>1, <1>5 DEF Returned
  <2>2. n - 1 \in 1 .. n - 1 /\ n - 2 \in Nat /\ n - 2 <= n /\ n - 1 \in 1 .. n
    <3>1. \A m \in Nat \ {0} :
            m # 1 => m - 1 \in 1 .. m - 1 /\ m - 2 \in Nat /\ m - 2 <= m /\ m - 1 \in 1 .. m
      OBVIOUS
    <3>2. QED
      BY <1>2, <1>5, <3>1
  <2>3. /\ caller.left # <<>> /\ c \in ignore
        /\ \A k \in 1 .. Len(output) : output[k] # c
        /\ \A i \in 1 .. n - 2 : Waits(i) # c
    BY <2>2 DEF DependsInv, Waiting, Waits
  <2>4. caller \in Frame
    BY <1>2, <2>2
  <2>5. f \in Frame /\ c \in Component
    <3>1. <<>> \in Seq(Component)
      OBVIOUS
    <3>2. QED
      BY <2>3, <2>4, <3>1, FrameChanges
  <2> HIDE DEF caller, c, f
  <2>6. s \in Seq(Frame) /\ Len(s) = n - 2 /\ \A i \in 1 .. n - 2 : s[i] = stack[i]
    BY <1>2, <2>2, Prefix
  <2> HIDE DEF s
  <2>7. /\ stack' \in Seq(Frame) /\ Len(stack') = n - 1
        /\ \A i \in 1 .. n - 2 : stack'[i] = stack[i]
    BY <2>1, <2>2, <2>5, <2>6
  <2>8. /\ output' \in Seq(Component) /\ Len(output') = Len(output) + 1
        /\ \A k \in 1 .. Len(output) : output'[k] = output[k]
        /\ output'[Len(output) + 1] = c /\ Len(output) \in Nat
    BY <1>2, <2>1, <2>5 DEF Types
  <2>9. \A k \in 1 .. Len(output') : k \in 1 .. Len(output) \/ k = Len(output) + 1
    BY <2>8
  <2>10. Types' /\ Lines'
    BY <1>1, <1>2, <1>3, <2>1, <2>7, <2>8 DEF Types, DependsInv, Lines
  <2>11. Waiting'
    <3>1. SUFFICES ASSUME NEW i \in 1 .. n - 2
                   PROVE  /\ stack'[i].left # <<>> /\ Head(stack'[i].left) \in ignore
                          /\ \A k \in 1 .. Len(output') : output'[k] # Head(stack'[i].left)
                          /\ \A k \in 1 .. n - 2 :
                               i # k => Head(stack'[i].left) # Head(stack'[k].left)
      <4>1. (n - 1) - 1 = n - 2
        BY <2>2
      <4>2. Len(stack') - 1 = n - 2
        BY <2>7, <4>1
      <4>3. QED
        BY <1>1, <4>2 DEF Waiting, Waits
    <3>2. /\ stack[i].left # <<>> /\ Waits(i) \in ignore
          /\ \A k \in 1 .. Len(output) : output[k] # Waits(i)
          /\ \A k \in 1 .. n - 2 : i # k => Waits(i) # Waits(k)
      BY <2>2 DEF DependsInv, Waiting
    <3>3. QED
      BY <2>3, <2>7, <2>8, <2>9, <3>2 DEF Waits
  <2>12. Written'
    BY <1>1, <1>3, <2>3, <2>8, <2>9 DEF DependsInv, Written
  <2>13. Phases' /\ Executed'
    BY <1>1, <1>3, <2>1, <2>2, <2>7 DEF Phases, Executed
  <2>14. QED
    BY <2>10, <2>11, <2>12, <2>13 DEF DependsInv
<1>6. QED
  BY <1>4, <1>5

\* component_exec takes the components off the list one by one.
LEMMA TakenOff ==
  ASSUME DependsInv, Exclude \/ Execute
  PROVE  DependsInv'
<1>1. /\ phase = "exec" /\ output # <<>> /\ output' = Tail(output)
      /\ UNCHANGED <<depends, stack, ignore, phase>>
      /\ executed' = executed \/ executed' = Append(executed, Head(output))
  BY DEF Exclude, Execute, conf
<1>2. Types /\ stack = <<>>
  BY <1>1 DEF DependsInv, Phases
<1>3. /\ output' \in Seq(Component) /\ Len(output') = Len(output) - 1
      /\ Len(output) \in Nat \ {0} /\ output[1] = Head(output)
      /\ Head(output) \in Component
      /\ \A k \in 1 .. Len(output) - 1 : output'[k] = output[k + 1]
  BY <1>1, <1>2 DEF Types
<1>4. Types' /\ Lines' /\ Waiting' /\ Phases'
  <2>1. executed' \in Seq(Component)
    <3>1. executed \in Seq(Component) /\ Head(output) \in Component
      BY <1>2, <1>3 DEF Types
    <3>2. CASE executed' = executed
      BY <3>1, <3>2
    <3>3. CASE executed' = Append(executed, Head(output))
      BY <3>1, <3>3
    <3>4. QED
      BY <1>1, <3>2, <3>3
  <2>2. Types'
    BY <1>1, <1>2, <1>3, <2>1 DEF Types
  <2>3. Lines'
    BY <1>1 DEF DependsInv, Lines
  <2>4. Waiting'
    BY <1>1, <1>2 DEF Waiting
  <2>5. Phases'
    BY <1>1, <1>2 DEF Phases
  <2>6. QED
    BY <2>2, <2>3, <2>4, <2>5
<1>5. \A k \in 1 .. Len(output') :
        \E l \in 1 .. Len(output) : l = k + 1 /\ l # 1 /\ output'[k] = output[l]
  BY <1>3
<1>6. Written'
  BY <1>1, <1>3, <1>5 DEF DependsInv, Written
<1>7. Executed'
  <2>1. CASE executed' = executed
    BY <1>5, <2>1 DEF DependsInv, Executed
  <2>2. CASE executed' = Append(executed, Head(output))
    <3>1. /\ Len(executed') = Len(executed) + 1 /\ Len(executed) \in Nat
          /\ \A i \in 1 .. Len(executed) : executed'[i] = executed[i]
          /\ executed'[Len(executed) + 1] = output[1]
      BY <1>2, <1>3, <2>2 DEF Types
    <3>2. \A i \in 1 .. Len(executed') : i \in 1 .. Len(executed) \/ i = Len(executed) + 1
      BY <3>1
    <3>3. 1 \in 1 .. Len(output)
      BY <1>3
    <3>4. \A i \in 1 .. Len(executed) : executed[i] # output[1]
      BY <3>3 DEF DependsInv, Executed
    <3>5. \A l \in 1 .. Len(output) : l # 1 => output[l] # output[1]
      BY <3>3 DEF DependsInv, Written
    <3>6. \A i, k \in 1 .. Len(executed') : i # k => executed'[i] # executed'[k]
      BY <3>1, <3>2, <3>4 DEF DependsInv, Executed
    <3>7. \A i \in 1 .. Len(executed'), k \in 1 .. Len(output') : executed'[i] # output'[k]
      BY <1>5, <3>1, <3>2, <3>5 DEF DependsInv, Executed
    <3>8. QED
      BY <3>6, <3>7 DEF Executed
  <2>3. QED
    BY <1>1, <2>1, <2>2
<1>8. QED
  BY <1>4, <1>6, <1>7 DEF DependsInv

LEMMA DependsNext == ASSUME DependsInv, [Next]_vars PROVE DependsInv'
<1>1. CASE ExecuteFails \/ Finish
  <2>1. /\ phase = "exec" /\ phase' \in {"failed", "done"}
        /\ UNCHANGED <<depends, stack, ignore, output, executed>>
    BY <1>1 DEF ExecuteFails, Finish, conf
  <2>2. QED
    BY <2>1 DEF DependsInv, Types, Lines, Waiting, Waits, Written, Executed, Phases
<1>2. CASE UNCHANGED vars
  BY <1>2 DEF vars, conf, DependsInv, Types, Lines, Waiting, Waits, Written, Executed, Phases
<1>3. QED
  BY <1>1, <1>2, PassedOver, Visited, CallerWrites, TakenOff DEF Next

LEMMA DependsInvariant == Spec => []DependsInv
BY DependsInit, DependsNext, PTL DEF Spec

\* component_depends is called no deeper than there are components: those that
\* wait are different (check deadlocks).
LEMMA NotDeeper ==
  ASSUME DependsInv
  PROVE  Len(stack) <= Cardinality(Component) + 1
<1> DEFINE n == Len(stack)
           w == [i \in 1 .. n - 1 |-> Waits(i)]
<1>1. n \in Nat /\ ignore \subseteq Component
  BY DEF DependsInv, Types
<1>2. w \in Injection(1 .. n - 1, Component)
  <2>1. w \in [1 .. n - 1 -> Component]
    BY <1>1 DEF DependsInv, Waiting
  <2>2. IsInjective(w)
    BY DEF DependsInv, Waiting, IsInjective
  <2>3. QED
    BY <2>1, <2>2 DEF Injection
<1> HIDE DEF w
<1>3. /\ Cardinality(1 .. n - 1) <= Cardinality(Component)
      /\ Cardinality(Component) \in Nat
  BY <1>2, FS_Injection, FS_CardinalityType, ComponentAssumption
<1>4. Cardinality(1 .. n - 1) = IF 1 > n - 1 THEN 0 ELSE n - 1
  <2>1. 1 \in Int /\ n - 1 \in Int
    BY <1>1
  <2>2. Cardinality(1 .. n - 1) = IF 1 > n - 1 THEN 0 ELSE (n - 1) - 1 + 1
    BY <2>1, FS_Interval
  <2>3. QED
    BY <1>1, <2>2
<1>5. QED
  BY <1>1, <1>3, <1>4

\* Every variable keeps its type, and components that depend on each other end
\* in no endless recursion (component_depends).
THEOREM TypeCorrect == Spec => []TypeOK
<1>1. DependsInv => TypeOK
  BY NotDeeper DEF DependsInv, Types, TypeOK
<1>2. QED
  BY <1>1, DependsInvariant, PTL

\* No action is executed twice, whatever graph the DEPENDS lines make
\* (component_depends, component_exec).
THEOREM NeverExecutedTwice == Spec => []ExecutedOnce
<1>1. DependsInv => ExecutedOnce
  <2>1. ASSUME DependsInv PROVE DOMAIN executed = 1 .. Len(executed)
    BY <2>1 DEF DependsInv, Types
  <2>2. QED
    BY <2>1 DEF DependsInv, Executed, ExecutedOnce, IsInjective
<1>2. QED
  BY <1>1, DependsInvariant, PTL

-----------------------------------------------------------------------------
(* The order of what is executed, and that it is all that is needed.  The  *)
(* DEPENDS lines are those of the state they are given.                    *)

DependenciesIn(e, lines, c) == IF c \notin e \/ lines[c] = NoLine THEN {} ELSE Range(lines[c])

NeededIn(e, lines, d, S) ==
  \A T \in SUBSET Component :
    S \subseteq T /\ (\A c \in T : DependenciesIn(e, lines, c) \subseteq T) => d \in T

WaitsFor(f) == Head(f.left)
ToDo(f) == Range(f.left)

\* The call of frame g deals with what the component frame f waits for depends
\* on, apart from what was met before: a DEPENDS left over names nothing else.
Linked(e, lines, met, f, g) ==
  /\ WaitsFor(f) \in e
  /\ Range(f.DEPENDS) \subseteq met \cup ToDo(g)
  /\ DependenciesIn(e, lines, WaitsFor(f)) \subseteq met \cup ToDo(g)
  /\ ToDo(g) \subseteq met \cup DependenciesIn(e, lines, WaitsFor(f))

\* The components that wait are needed for each other, the inner for the outer.
Calls ==
  /\ \A i \in 1 .. Len(stack) - 1 :
       /\ Linked(existing, depends, ignore, stack[i], stack[i + 1])
       /\ \A k \in 1 .. i :
            NeededIn(existing, depends, WaitsFor(stack[i]), {WaitsFor(stack[k])})
  /\ stack # <<>> =>
       /\ Range(stack[Len(stack)].DEPENDS) \subseteq ignore
       /\ Range(include) \subseteq ignore \cup ToDo(stack[1])
       /\ ToDo(stack[1]) \subseteq Range(include)
  /\ stack = <<>> => Range(include) \subseteq ignore

\* A marked component is needed for the command, and waits or is done with.
Marks ==
  /\ \A c \in ignore : NeededIn(existing, depends, c, Range(include))
  /\ \A c \in ignore \cap existing :
       \/ \E i \in 1 .. Len(stack) - 1 : WaitsFor(stack[i]) = c
       \/ /\ DependenciesIn(existing, depends, c) \subseteq ignore
          /\ c \in Range(output) \cup Range(executed) \cup excluded
  /\ Range(output) \subseteq ignore \cap existing
  /\ Range(executed) \subseteq (ignore \cap existing) \ excluded

\* What stands before the place i of a list, or was done, is enough for what
\* stands there.
Ready(e, lines, out, done, i) ==
  \A d \in DependenciesIn(e, lines, out[i]) :
    \/ d \in done \/ d \notin e
    \/ NeededIn(e, lines, out[i], {d})
    \/ \E k \in 1 .. i - 1 : out[k] = d

Order ==
  /\ \A i \in 1 .. Len(output) :
       Ready(existing, depends, output, excluded \cup Range(executed), i)
  /\ \A i \in 1 .. Len(executed) : Ready(existing, depends, executed, excluded, i)

Finished == phase = "done" => output = <<>>

OrderInv == DependsInv /\ Calls /\ Marks /\ Order /\ Finished

-----------------------------------------------------------------------------
LEMMA NeededItself == \A e, lines, c, S : c \in S => NeededIn(e, lines, c, S)
BY DEF NeededIn

LEMMA NeededNext ==
  \A e, lines, c, d, S :
    NeededIn(e, lines, c, S) /\ d \in DependenciesIn(e, lines, c) => NeededIn(e, lines, d, S)
BY Zenon DEF NeededIn

\* The members of a list that one is put at the end of or taken from the front of.
LEMMA RangeAppend ==
  ASSUME NEW S, NEW s \in Seq(S), NEW e \in S
  PROVE  Range(Append(s, e)) = Range(s) \cup {e}
<1>1. /\ DOMAIN Append(s, e) = 1 .. Len(s) + 1 /\ DOMAIN s = 1 .. Len(s)
      /\ Append(s, e)[Len(s) + 1] = e /\ Len(s) \in Nat
      /\ \A i \in 1 .. Len(s) : Append(s, e)[i] = s[i]
  OBVIOUS
<1>2. \A i \in 1 .. Len(s) + 1 : i \in 1 .. Len(s) \/ i = Len(s) + 1
  BY <1>1
<1>3. \A i \in 1 .. Len(s) : i \in 1 .. Len(s) + 1
  BY <1>1
<1>4. Len(s) + 1 \in 1 .. Len(s) + 1
  BY <1>1
<1>5. QED
  BY <1>1, <1>2, <1>3, <1>4 DEF Range

LEMMA RangeTail ==
  ASSUME NEW S, NEW s \in Seq(S), s # <<>>
  PROVE  Range(s) = {Head(s)} \cup Range(Tail(s))
<1> DEFINE n == Len(s)
<1>1. /\ DOMAIN s = 1 .. n /\ DOMAIN Tail(s) = 1 .. n - 1 /\ s[1] = Head(s)
      /\ n \in Nat \ {0} /\ \A i \in 1 .. n - 1 : Tail(s)[i] = s[i + 1]
  OBVIOUS
<1> HIDE DEF n
<1>2. /\ \A i \in 1 .. n : i = 1 \/ (i - 1 \in 1 .. n - 1 /\ i - 1 + 1 = i)
      /\ \A i \in 1 .. n - 1 : i + 1 \in 1 .. n
      /\ 1 \in 1 .. n
  BY <1>1
<1>3. ASSUME NEW x \in Range(s) PROVE x \in {Head(s)} \cup Range(Tail(s))
  <2>1. PICK i \in 1 .. n : s[i] = x
    BY <1>1 DEF Range
  <2>2. CASE i # 1
    <3>1. i - 1 \in DOMAIN Tail(s) /\ Tail(s)[i - 1] = x
      BY <1>1, <1>2, <2>1, <2>2
    <3>2. QED
      BY <3>1 DEF Range
  <2>3. QED
    BY <1>1, <2>1, <2>2
<1>4. ASSUME NEW x \in {Head(s)} \cup Range(Tail(s)) PROVE x \in Range(s)
  BY <1>1, <1>2, <1>4 DEF Range
<1>5. QED
  BY <1>3, <1>4

LEMMA RangeEmpty == Range(<<>>) = {}
BY DEF Range

\* What a call deals with may shrink by what is met.
LEMMA LinkedLater ==
  \A e, lines, met, more, f, g, h, k :
    /\ Linked(e, lines, met, f, g) /\ met \subseteq more
    /\ WaitsFor(h) = WaitsFor(f) /\ h.DEPENDS = f.DEPENDS
    /\ ToDo(g) \subseteq more \cup ToDo(k) /\ ToDo(k) \subseteq ToDo(g)
    => Linked(e, lines, more, h, k)
BY DEF Linked

LEMMA OrderInit == Init => OrderInv
<1> SUFFICES ASSUME Init PROVE OrderInv
  OBVIOUS
<1>1. DependsInv
  BY DependsInit
<1>2. stack = <<Call(include)>> /\ Len(stack) = 1 /\ stack[1] = Call(include) /\ stack # <<>>
  BY DEF Init
<1>3. Calls
  <2>1. stack[1].DEPENDS = <<>> /\ stack[1].left = include
    BY <1>2 DEF Call
  <2>2. QED
    BY <1>2, <2>1, RangeEmpty DEF Calls, ToDo
<1>4. ignore = {} /\ output = <<>> /\ executed = <<>> /\ phase = "depends"
  BY DEF Init
<1>5. QED
  BY <1>1, <1>3, <1>4, RangeEmpty DEF OrderInv, Marks, Order, Finished

\* The frame of the innermost call.
LEMMA TopFrame ==
  ASSUME DependsInv, stack # <<>>
  PROVE  /\ stack \in Seq(Frame) /\ Len(stack) \in Nat \ {0}
         /\ Top = stack[Len(stack)] /\ Top \in Frame /\ Top.left \in Seq(Component)
<1>1. stack \in Seq(Frame)
  BY DEF DependsInv, Types
<1>2. Len(stack) \in Nat \ {0} /\ Top = stack[Len(stack)] /\ Top \in Frame
  BY <1>1 DEF Top, Last
<1>3. QED
  BY <1>1, <1>2 DEF Frame

\* The component the innermost call comes to is needed for the command, and,
\* unless it was met before, for every component that waits.
LEMMA NextIsNeeded ==
  ASSUME OrderInv, stack # <<>>, Top.left # <<>>
  PROVE  /\ NeededIn(existing, depends, Head(Top.left), Range(include))
         /\ Head(Top.left) \notin ignore =>
              \A k \in 1 .. Len(stack) - 1 :
                NeededIn(existing, depends, Head(Top.left), {WaitsFor(stack[k])})
<1> DEFINE n == Len(stack)
           c == Head(Top.left)
<1>1. stack \in Seq(Frame) /\ n \in Nat \ {0} /\ Top = stack[n] /\ Top \in Frame
  BY TopFrame DEF OrderInv
<1>2. c \in ToDo(stack[n])
  <2>1. Top.left \in Seq(Component)
    BY <1>1 DEF Frame
  <2>2. QED
    BY <1>1, <2>1, RangeTail DEF ToDo
<1> HIDE DEF c
<1>3. CASE n = 1
  <2>1. c \in Range(include)
    BY <1>2, <1>3 DEF OrderInv, Calls
  <2>2. 1 .. Len(stack) - 1 = {}
    BY <1>3
  <2>3. QED
    BY <2>1, <2>2, NeededItself DEF c
<1>4. CASE n # 1
  <2> DEFINE m == n - 1
             w == WaitsFor(stack[m])
  <2>1. m \in 1 .. n - 1 /\ n = m + 1
    <3>1. \A l \in Nat \ {0} : l # 1 => l - 1 \in 1 .. l - 1 /\ l = l - 1 + 1
      OBVIOUS
    <3>2. QED
      BY <1>1, <1>4, <3>1
  <2>2. /\ Linked(existing, depends, ignore, stack[m], stack[n])
        /\ \A k \in 1 .. m : NeededIn(existing, depends, w, {WaitsFor(stack[k])})
    BY <2>1 DEF OrderInv, Calls
  <2>3. w \in ignore
    BY <2>1 DEF OrderInv, DependsInv, Waiting, Waits, WaitsFor
  <2> HIDE DEF m, w
  <2>4. c \in ignore \/ c \in DependenciesIn(existing, depends, w)
    BY <1>2, <2>2 DEF Linked, w
  <2>5. \A d \in ignore : NeededIn(existing, depends, d, Range(include))
    BY DEF OrderInv, Marks
  <2>6. NeededIn(existing, depends, c, Range(include))
    BY <2>3, <2>4, <2>5, NeededNext
  <2>7. ASSUME c \notin ignore, NEW k \in 1 .. m
        PROVE  NeededIn(existing, depends, c, {WaitsFor(stack[k])})
    BY <2>2, <2>4, <2>7, NeededNext
  <2>8. QED
    BY <2>6, <2>7 DEF c, m
<1>5. QED
  BY <1>3, <1>4

LEMMA OrderPassedOver ==
  ASSUME OrderInv, Ignore \/ SkipMissing
  PROVE  OrderInv'
<1> DEFINE n == Len(stack)
           c == Head(Top.left)
<1>1. /\ stack # <<>> /\ Top.left # <<>> /\ stack' = Append(Front(stack), Shifted)
      /\ c \in ignore' /\ ignore \subseteq ignore' /\ ignore' \subseteq ignore \cup {c}
      /\ c \in ignore \/ c \notin existing
      /\ UNCHANGED <<depends, existing, include, excluded, output, executed, phase>>
  BY DEF Ignore, SkipMissing, Calling, conf
<1>2. stack \in Seq(Frame) /\ Top = stack[n] /\ Top \in Frame /\ Top.left \in Seq(Component)
  BY <1>1, TopFrame DEF OrderInv
<1>3. Shifted.left = Tail(Top.left) /\ Shifted.DEPENDS = Top.DEPENDS /\ Shifted \in Frame
  <2>1. <<>> \in Seq(Component)
    OBVIOUS
  <2>2. Shifted \in Frame
    BY <1>1, <1>2, <2>1, FrameChanges DEF Shifted
  <2>3. Top = [left |-> Top.left, DEPENDS |-> Top.DEPENDS]
    BY <1>2 DEF Frame
  <2>4. QED
    BY <2>2, <2>3 DEF Shifted
<1>4. ToDo(stack[n]) = {c} \cup ToDo(Shifted)
  BY <1>1, <1>2, <1>3, RangeTail DEF ToDo
<1>5. /\ Len(stack') = n /\ n \in Nat \ {0} /\ stack' # <<>> /\ stack'[n] = Shifted
      /\ \A i \in 1 .. n - 1 : stack'[i] = stack[i]
  BY <1>1, <1>2, <1>3, TopChanged
<1>6. \A i \in 1 .. n : ToDo(stack'[i]) \subseteq ToDo(stack[i])
                        /\ ToDo(stack[i]) \subseteq ignore' \cup ToDo(stack'[i])
  <2>1. \A i \in 1 .. n : i = n \/ i \in 1 .. n - 1
    BY <1>5
  <2>2. QED
    BY <1>1, <1>4, <1>5, <2>1
<1>7. NeededIn(existing, depends, c, Range(include))
  BY <1>1, NextIsNeeded
<1>8. DependsInv'
  BY PassedOver DEF OrderInv
<1> HIDE DEF n, c
<1>9. Calls'
  <2>1. ASSUME NEW i \in 1 .. n - 1
        PROVE  /\ Linked(existing', depends', ignore', stack'[i], stack'[i + 1])
               /\ \A k \in 1 .. i :
                    NeededIn(existing', depends', WaitsFor(stack'[i]), {WaitsFor(stack'[k])})
    <3>1. i + 1 \in 1 .. n /\ stack'[i] = stack[i] /\ \A k \in 1 .. i : stack'[k] = stack[k]
      BY <1>5
    <3>2. /\ Linked(existing, depends, ignore, stack[i], stack[i + 1])
          /\ \A k \in 1 .. i :
               NeededIn(existing, depends, WaitsFor(stack[i]), {WaitsFor(stack[k])})
      BY DEF OrderInv, Calls, n
    <3>3. Linked(existing, depends, ignore', stack'[i], stack'[i + 1])
      <4>1. /\ WaitsFor(stack'[i]) = WaitsFor(stack[i]) /\ stack'[i].DEPENDS = stack[i].DEPENDS
            /\ ToDo(stack[i + 1]) \subseteq ignore' \cup ToDo(stack'[i + 1])
            /\ ToDo(stack'[i + 1]) \subseteq ToDo(stack[i + 1])
            /\ ignore \subseteq ignore'
        BY <1>1, <1>6, <3>1
      <4>2. QED
        BY <3>2, <4>1, LinkedLater
    <3>4. QED
      BY <1>1, <3>1, <3>2, <3>3
  <2>2. /\ Range(stack'[n].DEPENDS) \subseteq ignore'
        /\ Range(include) \subseteq ignore' \cup ToDo(stack'[1])
        /\ ToDo(stack'[1]) \subseteq Range(include)
    <3>1. 1 \in 1 .. n
      BY <1>5
    <3>2. /\ Range(stack[n].DEPENDS) \subseteq ignore
          /\ Range(include) \subseteq ignore \cup ToDo(stack[1])
          /\ ToDo(stack[1]) \subseteq Range(include)
      BY <1>1 DEF OrderInv, Calls, n
    <3>3. stack'[n].DEPENDS = stack[n].DEPENDS
      BY <1>2, <1>3, <1>5
    <3>4. QED
      BY <1>1, <1>6, <3>1, <3>2, <3>3
  <2>3. QED
    BY <1>1, <1>5, <2>1, <2>2 DEF Calls
<1>10. Marks'
  <2>1. /\ \A d \in ignore : NeededIn(existing, depends, d, Range(include))
        /\ \A d \in ignore \cap existing :
             \/ \E i \in 1 .. n - 1 : WaitsFor(stack[i]) = d
             \/ /\ DependenciesIn(existing, depends, d) \subseteq ignore
                /\ d \in Range(output) \cup Range(executed) \cup excluded
        /\ Range(output) \subseteq ignore \cap existing
        /\ Range(executed) \subseteq (ignore \cap existing) \ excluded
    BY DEF OrderInv, Marks, n
  <2>2. \A d \in ignore' \cap existing :
          \/ \E i \in 1 .. n - 1 : WaitsFor(stack'[i]) = d
          \/ /\ DependenciesIn(existing, depends, d) \subseteq ignore'
             /\ d \in Range(output) \cup Range(executed) \cup excluded
    BY <1>1, <1>5, <2>1
  <2>3. \A d \in ignore' : NeededIn(existing, depends, d, Range(include))
    BY <1>1, <1>7, <2>1
  <2>4. QED
    BY <1>1, <1>5, <2>1, <2>2, <2>3 DEF Marks
<1>11. Order' /\ Finished'
  BY <1>1 DEF OrderInv, Order, Finished
<1>12. QED
  BY <1>8, <1>9, <1>10, <1>11 DEF OrderInv

\* What is left of the DEPENDS of the component before was met: a component
\* without such a line has the call deal with nothing.
LEMMA OrderVisited ==
  ASSUME OrderInv, Visit
  PROVE  OrderInv'
<1> DEFINE n == Len(stack)
           c == Head(Top.left)
           d == DependsRead(c)
           f == [Top EXCEPT !.DEPENDS = d]
<1>1. /\ stack # <<>> /\ Top.left # <<>> /\ c \notin ignore /\ c \in existing
      /\ ignore' = ignore \cup {c}
      /\ stack' = Append(Append(Front(stack), f), Call(d))
      /\ UNCHANGED <<depends, existing, include, excluded, output, executed, phase>>
  BY DEF Visit, Calling, conf
<1>2. /\ stack \in Seq(Frame) /\ n \in Nat \ {0}
      /\ Top = stack[n] /\ Top \in Frame /\ Top.left \in Seq(Component)
  BY <1>1, TopFrame DEF OrderInv
<1>3. /\ DependenciesIn(existing, depends, c) \subseteq ignore \cup Range(d)
      /\ Range(d) \subseteq ignore \cup DependenciesIn(existing, depends, c)
  <2>1. Range(Top.DEPENDS) \subseteq ignore
    BY <1>1, <1>2 DEF OrderInv, Calls
  <2>2. QED
    BY <1>1, <2>1 DEF DependenciesIn, DependsRead
<1>4. d \in Seq(Component) /\ c \in Component
  <2>1. Top.DEPENDS \in Seq(Component)
    BY <1>2 DEF Frame
  <2>2. c \in Component
    BY <1>1, <1>2
  <2>3. QED
    BY <2>1, <2>2 DEF OrderInv, DependsInv, Lines, DependsRead
<1>5. /\ NeededIn(existing, depends, c, Range(include))
      /\ \A k \in 1 .. n - 1 : NeededIn(existing, depends, c, {WaitsFor(stack[k])})
  BY <1>1, NextIsNeeded
<1>6. DependsInv'
  BY Visited DEF OrderInv
<1> HIDE DEF d
<1>7. /\ f \in Frame /\ f.left = Top.left /\ f.DEPENDS = d
      /\ Call(d) \in Frame /\ Call(d).left = d /\ Call(d).DEPENDS = <<>>
  <2>1. f \in Frame /\ f.left = Top.left /\ Call(d) \in Frame
    BY <1>2, <1>4, FrameChanges
  <2>2. Top = [left |-> Top.left, DEPENDS |-> Top.DEPENDS]
    BY <1>2 DEF Frame
  <2>3. QED
    BY <2>1, <2>2 DEF Call
<1>8. WaitsFor(f) = c
  BY <1>7 DEF WaitsFor
<1> HIDE DEF f
<1>9. /\ Len(stack') = n + 1 /\ stack'[n] = f /\ stack'[n + 1] = Call(d) /\ stack' # <<>>
      /\ \A i \in 1 .. n - 1 : stack'[i] = stack[i]
  <2> DEFINE s == Append(Front(stack), f)
  <2>1. /\ s \in Seq(Frame) /\ Len(s) = n
        /\ \A i \in 1 .. n - 1 : s[i] = stack[i]
        /\ s[n] = f
    BY <1>1, <1>2, <1>7, TopChanged
  <2> HIDE DEF s
  <2>2. stack' = Append(s, Call(d))
    BY <1>1 DEF s
  <2>3. QED
    BY <1>2, <1>7, <2>1, <2>2
<1>10. /\ \A i \in 1 .. n - 1 : WaitsFor(stack'[i]) = WaitsFor(stack[i])
       /\ \A i \in 1 .. n : ToDo(stack'[i]) = ToDo(stack[i])
       /\ WaitsFor(stack'[n]) = c /\ ToDo(stack'[n + 1]) = Range(d)
  <2>1. \A i \in 1 .. n : i = n \/ i \in 1 .. n - 1
    BY <1>2
  <2>2. QED
    BY <1>2, <1>7, <1>8, <1>9, <2>1 DEF ToDo
<1> HIDE DEF n, c
<1>11. Calls'
  <2>1. ASSUME NEW i \in 1 .. n
        PROVE  /\ Linked(existing', depends', ignore', stack'[i], stack'[i + 1])
               /\ \A k \in 1 .. i :
                    NeededIn(existing', depends', WaitsFor(stack'[i]), {WaitsFor(stack'[k])})
    <3>1. CASE i = n
      <4>1. Linked(existing, depends, ignore', stack'[n], stack'[n + 1])
        BY <1>1, <1>3, <1>7, <1>9, <1>10 DEF Linked
      <4>2. \A k \in 1 .. n : k = n \/ k \in 1 .. n - 1
        BY <1>2
      <4>3. ASSUME NEW k \in 1 .. n
            PROVE  NeededIn(existing, depends, c, {WaitsFor(stack'[k])})
        BY <1>5, <1>10, <4>2, NeededItself
      <4>4. QED
        BY <1>1, <1>10, <3>1, <4>1, <4>3
    <3>2. CASE i # n
      <4>1. /\ i \in 1 .. n - 1 /\ i + 1 \in 1 .. n
            /\ \A k \in 1 .. i : k \in 1 .. n - 1
        BY <1>2, <3>2
      <4>2. /\ Linked(existing, depends, ignore, stack[i], stack[i + 1])
            /\ \A k \in 1 .. i :
                 NeededIn(existing, depends, WaitsFor(stack[i]), {WaitsFor(stack[k])})
        BY <4>1 DEF OrderInv, Calls, n
      <4>3. /\ WaitsFor(stack'[i]) = WaitsFor(stack[i]) /\ stack'[i].DEPENDS = stack[i].DEPENDS
            /\ ToDo(stack[i + 1]) \subseteq ignore' \cup ToDo(stack'[i + 1])
            /\ ToDo(stack'[i + 1]) \subseteq ToDo(stack[i + 1])
            /\ ignore \subseteq ignore'
        BY <1>1, <1>9, <1>10, <4>1
      <4>4. Linked(existing, depends, ignore', stack'[i], stack'[i + 1])
        BY <4>2, <4>3, LinkedLater
      <4>5. QED
        BY <1>1, <1>10, <4>1, <4>2, <4>4
    <3>3. QED
      BY <3>1, <3>2
  <2>2. /\ Range(stack'[n + 1].DEPENDS) \subseteq ignore'
        /\ Range(include) \subseteq ignore' \cup ToDo(stack'[1])
        /\ ToDo(stack'[1]) \subseteq Range(include)
    <3>1. 1 \in 1 .. n
      BY <1>2
    <3>2. /\ Range(include) \subseteq ignore \cup ToDo(stack[1])
          /\ ToDo(stack[1]) \subseteq Range(include)
      BY <1>1 DEF OrderInv, Calls
    <3>3. QED
      BY <1>1, <1>7, <1>9, <1>10, <3>1, <3>2, RangeEmpty
  <2>3. Len(stack') - 1 = n
    BY <1>2, <1>9
  <2>4. QED
    BY <1>1, <1>9, <2>1, <2>2, <2>3 DEF Calls
<1>12. Marks'
  <2>1. /\ \A x \in ignore : NeededIn(existing, depends, x, Range(include))
        /\ \A x \in ignore \cap existing :
             \/ \E i \in 1 .. n - 1 : WaitsFor(stack[i]) = x
             \/ /\ DependenciesIn(existing, depends, x) \subseteq ignore
                /\ x \in Range(output) \cup Range(executed) \cup excluded
        /\ Range(output) \subseteq ignore \cap existing
        /\ Range(executed) \subseteq (ignore \cap existing) \ excluded
    BY DEF OrderInv, Marks, n
  <2>2. ASSUME NEW x \in ignore' \cap existing
        PROVE  \/ \E i \in 1 .. n : WaitsFor(stack'[i]) = x
               \/ /\ DependenciesIn(existing, depends, x) \subseteq ignore'
                  /\ x \in Range(output) \cup Range(executed) \cup excluded
    <3>1. CASE x = c
      <4>1. n \in 1 .. n
        BY <1>2
      <4>2. QED
        BY <1>10, <3>1, <4>1
    <3>2. CASE x # c
      <4>1. \A i \in 1 .. n - 1 : i \in 1 .. n
        BY <1>2
      <4>2. QED
        BY <1>1, <1>10, <2>1, <3>2, <4>1
    <3>3. QED
      BY <3>1, <3>2
  <2>3. \A x \in ignore' : NeededIn(existing, depends, x, Range(include))
    BY <1>1, <1>5, <2>1
  <2>4. Len(stack') - 1 = n
    BY <1>2, <1>9
  <2>5. QED
    BY <1>1, <2>1, <2>2, <2>3, <2>4 DEF Marks
<1>13. Order' /\ Finished'
  BY <1>1 DEF OrderInv, Order, Finished
<1>14. QED
  BY <1>6, <1>11, <1>12, <1>13 DEF OrderInv

LEMMA ReadyLater ==
  ASSUME NEW e, NEW lines, NEW out, NEW out2, NEW done, NEW more, done \subseteq more,
         NEW i \in Nat \ {0}, \A k \in 1 .. i : out2[k] = out[k],
         Ready(e, lines, out, done, i)
  PROVE  Ready(e, lines, out2, more, i)
<1>1. out2[i] = out[i] /\ \A k \in 1 .. i - 1 : out2[k] = out[k]
  OBVIOUS
<1>2. QED
  BY <1>1 DEF Ready

\* A component is written when all it depends on was met: that is written, or
\* waits for it.
LEMMA OrderWritten ==
  ASSUME OrderInv, Return
  PROVE  OrderInv'
<1> DEFINE n == Len(stack)
<1>1. /\ stack # <<>> /\ Top.left = <<>> /\ Returned
      /\ UNCHANGED <<depends, existing, include, excluded, ignore, executed>>
  BY DEF Return, Calling, conf
<1>2. stack \in Seq(Frame) /\ n \in Nat \ {0} /\ Top = stack[n]
  BY <1>1, TopFrame DEF OrderInv
<1>3. ToDo(stack[n]) = {}
  BY <1>1, <1>2, RangeEmpty DEF ToDo
<1>4. phase = "depends" /\ output \in Seq(Component)
  BY <1>1 DEF OrderInv, DependsInv, Phases, Types
<1>5. DependsInv'
  BY CallerWrites DEF OrderInv
<1>6. /\ \A x \in ignore : NeededIn(existing, depends, x, Range(include))
      /\ \A x \in ignore \cap existing :
           \/ \E i \in 1 .. n - 1 : WaitsFor(stack[i]) = x
           \/ /\ DependenciesIn(existing, depends, x) \subseteq ignore
              /\ x \in Range(output) \cup Range(executed) \cup excluded
      /\ Range(output) \subseteq ignore \cap existing
      /\ Range(executed) \subseteq (ignore \cap existing) \ excluded
  BY DEF OrderInv, Marks
<1>7. CASE n = 1
  <2>1. stack' = <<>> /\ output' = output /\ phase' \in {"failed", "exec"}
    BY <1>1, <1>7 DEF Returned
  <2>2. Range(include) \subseteq ignore
    BY <1>1, <1>3, <1>7 DEF OrderInv, Calls
  <2>3. Calls'
    BY <1>1, <2>1, <2>2 DEF Calls
  <2>4. 1 .. n - 1 = {}
    BY <1>7
  <2>5. Marks'
    BY <1>1, <1>6, <2>1, <2>4 DEF Marks
  <2>6. Order' /\ Finished'
    BY <1>1, <2>1 DEF OrderInv, Order, Finished
  <2>7. QED
    BY <1>5, <2>3, <2>5, <2>6 DEF OrderInv
<1>8. CASE n # 1
  <2> DEFINE m == n - 1
             caller == stack[m]
             c == Head(caller.left)
             f == [caller EXCEPT !.left = Tail(@)]
             s == SubSeq(stack, 1, n - 2)
  <2>1. stack' = Append(s, f) /\ output' = Append(output, c) /\ phase' = phase
    BY <1>1, <1>8 DEF Returned
  <2>2. /\ m \in Nat \ {0} /\ m \in 1 .. n - 1 /\ n = m + 1 /\ n - 2 = m - 1
        /\ n - 2 \in Nat /\ n - 2 <= n /\ m \in 1 .. n
    <3>1. \A l \in Nat \ {0} : l # 1 =>
            /\ l - 1 \in Nat \ {0} /\ l - 1 \in 1 .. l - 1 /\ l = l - 1 + 1 /\ l - 2 = l - 1 - 1
            /\ l - 2 \in Nat /\ l - 2 <= l /\ l - 1 \in 1 .. l
      OBVIOUS
    <3>2. QED
      BY <1>2, <1>8, <3>1
  <2>3. caller \in Frame /\ caller.left # <<>> /\ c \in ignore
    BY <1>2, <2>2 DEF OrderInv, DependsInv, Waiting, Waits
  <2>4. /\ f \in Frame /\ f.left = Tail(caller.left) /\ f.DEPENDS = caller.DEPENDS
        /\ c \in Component /\ ToDo(caller) = {c} \cup ToDo(f)
    <3>1. <<>> \in Seq(Component)
      OBVIOUS
    <3>2. f \in Frame /\ c \in Component
      BY <2>3, <3>1, FrameChanges
    <3>3. caller = [left |-> caller.left, DEPENDS |-> caller.DEPENDS] /\ caller.left \in Seq(Component)
      BY <2>3 DEF Frame
    <3>4. f.left = Tail(caller.left) /\ f.DEPENDS = caller.DEPENDS
      BY <3>3
    <3>5. QED
      BY <2>3, <3>2, <3>3, <3>4, RangeTail DEF ToDo
  <2>5. /\ Linked(existing, depends, ignore, caller, stack[n])
        /\ \A k \in 1 .. m : NeededIn(existing, depends, c, {WaitsFor(stack[k])})
    BY <2>2 DEF OrderInv, Calls, WaitsFor
  <2>6. /\ c \in existing /\ DependenciesIn(existing, depends, c) \subseteq ignore
        /\ Range(f.DEPENDS) \subseteq ignore
    BY <1>3, <2>4, <2>5 DEF Linked, WaitsFor
  <2>7. s \in Seq(Frame) /\ Len(s) = m - 1 /\ \A i \in 1 .. m - 1 : s[i] = stack[i]
    BY <1>2, <2>2, Prefix
  <2>8. c = WaitsFor(stack[m]) /\ caller = stack[m]
    BY DEF WaitsFor
  <2> HIDE DEF s, f, m, caller, c
  <2>9. /\ stack' # <<>> /\ Len(stack') = m /\ stack'[m] = f
        /\ \A i \in 1 .. m - 1 : stack'[i] = stack[i]
    <3>1. m - 1 + 1 = m
      BY <2>2
    <3>2. QED
      BY <2>1, <2>4, <2>7, <3>1
  <2>10. \A i \in 1 .. m : /\ ToDo(stack'[i]) \subseteq ToDo(stack[i])
                           /\ ToDo(stack[i]) \subseteq ignore \cup ToDo(stack'[i])
    <3>1. \A i \in 1 .. m : i = m \/ i \in 1 .. m - 1
      BY <2>2
    <3>2. ToDo(stack[m]) = {c} \cup ToDo(stack'[m])
      BY <2>4, <2>8, <2>9
    <3>3. QED
      BY <2>3, <2>9, <3>1, <3>2
  <2>11. Calls'
    <3>1. ASSUME NEW i \in 1 .. m - 1
          PROVE  /\ Linked(existing', depends', ignore', stack'[i], stack'[i + 1])
                 /\ \A k \in 1 .. i :
                      NeededIn(existing', depends', WaitsFor(stack'[i]), {WaitsFor(stack'[k])})
      <4>1. /\ i \in 1 .. n - 1 /\ i + 1 \in 1 .. m
            /\ stack'[i] = stack[i] /\ \A k \in 1 .. i : stack'[k] = stack[k]
        BY <2>2, <2>9
      <4>2. /\ Linked(existing, depends, ignore, stack[i], stack[i + 1])
            /\ \A k \in 1 .. i :
                 NeededIn(existing, depends, WaitsFor(stack[i]), {WaitsFor(stack[k])})
        BY <4>1 DEF OrderInv, Calls
      <4>3. /\ ToDo(stack[i + 1]) \subseteq ignore \cup ToDo(stack'[i + 1])
            /\ ToDo(stack'[i + 1]) \subseteq ToDo(stack[i + 1])
        BY <2>10, <4>1
      <4>4. Linked(existing, depends, ignore, stack'[i], stack'[i + 1])
        BY <4>1, <4>2, <4>3, LinkedLater
      <4>5. QED
        BY <1>1, <4>1, <4>2, <4>4
    <3>2. /\ Range(include) \subseteq ignore \cup ToDo(stack'[1])
          /\ ToDo(stack'[1]) \subseteq Range(include)
      <4>1. 1 \in 1 .. m
        BY <2>2
      <4>2. /\ Range(include) \subseteq ignore \cup ToDo(stack[1])
            /\ ToDo(stack[1]) \subseteq Range(include)
        BY <1>1 DEF OrderInv, Calls
      <4>3. QED
        BY <2>10, <4>1, <4>2
    <3>3. QED
      BY <1>1, <2>6, <2>9, <3>1, <3>2 DEF Calls
  <2>12. Range(output') = Range(output) \cup {c}
    BY <1>4, <2>1, <2>4, RangeAppend
  <2>13. \A i \in 1 .. n - 1 : i = m \/ i \in 1 .. m - 1
    BY <2>2
  <2>14. Marks'
    <3>1. ASSUME NEW x \in ignore \cap existing
          PROVE  \/ \E i \in 1 .. m - 1 : WaitsFor(stack'[i]) = x
                 \/ /\ DependenciesIn(existing, depends, x) \subseteq ignore
                    /\ x \in Range(output') \cup Range(executed) \cup excluded
      <4>1. CASE x = c
        BY <2>6, <2>12, <4>1
      <4>2. CASE x # c
        BY <1>6, <2>8, <2>9, <2>12, <2>13, <4>2
      <4>3. QED
        BY <4>1, <4>2
    <3>2. Range(output') \subseteq ignore \cap existing
      BY <1>6, <2>3, <2>6, <2>12
    <3>3. QED
      BY <1>1, <1>6, <2>9, <3>1, <3>2 DEF Marks
  <2>15. Order'
    <3> DEFINE l == Len(output)
               done == excluded \cup Range(executed)
    <3>1. /\ l \in Nat /\ Len(output') = l + 1 /\ output'[l + 1] = c
          /\ \A k \in 1 .. l : output'[k] = output[k]
      BY <1>4, <2>1, <2>4
    <3>2. /\ \A i \in 1 .. l : Ready(existing, depends, output, done, i)
          /\ \A i \in 1 .. Len(executed) : Ready(existing, depends, executed, excluded, i)
      BY DEF OrderInv, Order
    <3>3. DOMAIN output = 1 .. l
      BY <1>4
    <3>4. Ready(existing, depends, output', done, l + 1)
      <4>1. ASSUME NEW d \in DependenciesIn(existing, depends, c), d \in existing, d \notin done
            PROVE  \/ NeededIn(existing, depends, c, {d})
                   \/ \E k \in 1 .. l : output'[k] = d
        <5>1. \/ \E i \in 1 .. n - 1 : WaitsFor(stack[i]) = d
              \/ d \in Range(output)
          BY <1>6, <2>6, <4>1
        <5>2. CASE \E i \in 1 .. n - 1 : WaitsFor(stack[i]) = d
          BY <2>5, <5>2 DEF m
        <5>3. CASE d \in Range(output)
          BY <3>1, <3>3, <5>3 DEF Range
        <5>4. QED
          BY <5>1, <5>2, <5>3
      <4>2. l + 1 - 1 = l
        BY <3>1
      <4>3. QED
        BY <3>1, <4>1, <4>2 DEF Ready
    <3>5. ASSUME NEW i \in 1 .. l + 1 PROVE Ready(existing, depends, output', done, i)
      <4>1. CASE i = l + 1
        BY <3>4, <4>1
      <4>2. CASE i # l + 1
        <5>1. i \in 1 .. l /\ i \in Nat \ {0} /\ \A k \in 1 .. i : output'[k] = output[k]
          BY <3>1, <4>2
        <5>2. Ready(existing, depends, output, done, i)
          BY <3>2, <5>1
        <5>3. QED
          BY <5>1, <5>2, ReadyLater
      <4>3. QED
        BY <4>1, <4>2
    <3>6. QED
      BY <1>1, <3>1, <3>2, <3>5 DEF Order
  <2>16. Finished'
    BY <1>4, <2>1 DEF Finished
  <2>17. QED
    BY <1>5, <2>11, <2>14, <2>15, <2>16 DEF OrderInv
<1>9. QED
  BY <1>7, <1>8

\* What is excluded or executed is off the list and done with.
LEMMA OrderTakenOff ==
  ASSUME OrderInv, Exclude \/ Execute
  PROVE  OrderInv'
<1> DEFINE c == Head(output)
           n == Len(output)
           done == excluded \cup Range(executed)
<1>1. /\ phase = "exec" /\ output # <<>> /\ output' = Tail(output)
      /\ UNCHANGED <<depends, existing, include, excluded, stack, ignore, phase>>
      /\ \/ c \in excluded /\ executed' = executed
         \/ c \notin excluded /\ executed' = Append(executed, c)
  BY DEF Exclude, Execute, conf
<1>2. output \in Seq(Component) /\ executed \in Seq(Component) /\ stack = <<>>
  BY <1>1 DEF OrderInv, DependsInv, Types, Phases
<1>3. Range(output) = {c} \cup Range(output')
  BY <1>1, <1>2, RangeTail
<1>4. c \in Component /\ output[1] = c
  BY <1>1, <1>2
<1>5. /\ Range(executed') \subseteq Range(executed) \cup {c} /\ Range(executed) \subseteq Range(executed')
      /\ c \in excluded \cup Range(executed')
      /\ c \in excluded => Range(executed') = Range(executed)
  <2>1. Range(Append(executed, c)) = Range(executed) \cup {c}
    BY <1>2, <1>4, RangeAppend
  <2>2. CASE c \in excluded /\ executed' = executed
    BY <2>2
  <2>3. CASE c \notin excluded /\ executed' = Append(executed, c)
    BY <2>1, <2>3
  <2>4. QED
    BY <1>1, <2>2, <2>3
<1>6. DependsInv'
  BY TakenOff DEF OrderInv
<1>7. Calls' /\ Finished'
  BY <1>1, <1>2 DEF OrderInv, Calls, Finished
<1>8. Marks'
  <2>1. 1 .. Len(stack) - 1 = {}
    BY <1>2
  <2>2. /\ \A x \in ignore : NeededIn(existing, depends, x, Range(include))
        /\ \A x \in ignore \cap existing :
             /\ DependenciesIn(existing, depends, x) \subseteq ignore
             /\ x \in Range(output) \cup Range(executed) \cup excluded
        /\ Range(output) \subseteq ignore \cap existing
        /\ Range(executed) \subseteq (ignore \cap existing) \ excluded
    BY <2>1 DEF OrderInv, Marks
  <2>3. /\ Range(output) \cup Range(executed) \cup excluded
           = Range(output') \cup Range(executed') \cup excluded
        /\ Range(output') \subseteq Range(output)
        /\ Range(executed') \subseteq (ignore \cap existing) \ excluded
    BY <1>3, <1>5, <2>2
  <2>4. QED
    BY <1>1, <2>1, <2>2, <2>3 DEF Marks
<1>9. Order'
  <2>1. /\ n \in Nat \ {0} /\ Len(output') = n - 1
        /\ \A i \in 1 .. n - 1 : output'[i] = output[i + 1]
    BY <1>1, <1>2
  <2>2. \A i \in 1 .. n : Ready(existing, depends, output, done, i)
    BY DEF OrderInv, Order
  <2>3. \A i \in 1 .. Len(executed) : Ready(existing, depends, executed, excluded, i)
    BY DEF OrderInv, Order
  <2> DEFINE more == excluded \cup Range(executed')
  <2>4. done \cup {c} \subseteq more
    BY <1>5
  <2> HIDE DEF n, done, more, c
  <2>5. ASSUME NEW i \in 1 .. n - 1 PROVE Ready(existing, depends, output', more, i)
    <3>1. /\ i + 1 \in 1 .. n /\ (i + 1) - 1 = i /\ output'[i] = output[i + 1]
          /\ \A k \in 1 .. i : k = 1 \/ (k - 1 \in 1 .. i - 1 /\ k - 1 + 1 = k /\ k - 1 \in 1 .. n - 1)
      BY <2>1
    <3>2. Ready(existing, depends, output, done, i + 1)
      BY <2>2, <3>1
    <3>3. ASSUME NEW k \in 1 .. i, output[k] \notin more
          PROVE  \E l \in 1 .. i - 1 : output'[l] = output[k]
      <4>1. k # 1
        BY <1>4, <2>4, <3>3
      <4>2. output'[k - 1] = output[k] /\ k - 1 \in 1 .. i - 1
        BY <2>1, <3>1, <4>1
      <4>3. QED
        BY <4>2
    <3>4. ASSUME NEW d \in DependenciesIn(existing, depends, output'[i]), d \notin more, d \in existing
          PROVE  \/ NeededIn(existing, depends, output'[i], {d})
                 \/ \E k \in 1 .. i - 1 : output'[k] = d
      <4>1. \/ NeededIn(existing, depends, output[i + 1], {d})
            \/ \E k \in 1 .. i : output[k] = d
        BY <2>4, <3>1, <3>2, <3>4 DEF Ready
      <4>2. QED
        BY <3>1, <3>3, <3>4, <4>1
    <3>5. QED
      BY <3>4 DEF Ready
  <2>6. ASSUME NEW i \in 1 .. Len(executed') PROVE Ready(existing, depends, executed', excluded, i)
    <3>1. CASE executed' = executed
      BY <2>3, <3>1
    <3>2. CASE c \notin excluded /\ executed' = Append(executed, c)
      <4> DEFINE l == Len(executed)
      <4>1. /\ l \in Nat /\ Len(executed') = l + 1 /\ executed'[l + 1] = c
            /\ \A k \in 1 .. l : executed'[k] = executed[k] /\ DOMAIN executed = 1 .. l
        BY <1>2, <1>4, <3>2 DEF c
      <4>2. DOMAIN executed = 1 .. l
        BY <1>2
      <4> HIDE DEF l
      <4>3. CASE i = l + 1
        <5>1. Ready(existing, depends, output, done, 1)
          BY <2>1, <2>2
        <5>2. ASSUME NEW d \in DependenciesIn(existing, depends, c), d \notin excluded, d \in existing
              PROVE  \/ NeededIn(existing, depends, c, {d})
                     \/ \E k \in 1 .. l : executed'[k] = d
          <6>1. d \in done \/ NeededIn(existing, depends, c, {d})
            BY <1>4, <5>1, <5>2 DEF Ready
          <6>2. ASSUME d \in done PROVE \E k \in 1 .. l : executed'[k] = d
            BY <4>1, <4>2, <5>2, <6>2 DEF done, Range
          <6>3. QED
            BY <6>1, <6>2
        <5>3. i - 1 = l
          BY <4>1, <4>3
        <5>4. QED
          BY <4>1, <4>3, <5>2, <5>3 DEF Ready
      <4>4. CASE i # l + 1
        <5>1. i \in 1 .. l /\ i \in Nat \ {0} /\ \A k \in 1 .. i : executed'[k] = executed[k]
          BY <4>1, <4>4
        <5>2. Ready(existing, depends, executed, excluded, i)
          BY <2>3, <5>1 DEF l
        <5>3. QED
          BY <5>1, <5>2, ReadyLater
      <4>5. QED
        BY <4>3, <4>4
    <3>3. QED
      BY <1>1, <3>1, <3>2 DEF c
  <2>7. QED
    BY <1>1, <2>1, <2>5, <2>6 DEF Order, more
<1>10. QED
  BY <1>6, <1>7, <1>8, <1>9 DEF OrderInv

LEMMA OrderNext == ASSUME OrderInv, [Next]_vars PROVE OrderInv'
<1>1. CASE ExecuteFails \/ Finish
  <2>1. /\ phase' \in {"failed", "done"} /\ (phase' = "done" => output = <<>>)
        /\ UNCHANGED <<depends, existing, include, excluded, stack, ignore, output, executed>>
    BY <1>1 DEF ExecuteFails, Finish, conf
  <2>2. QED
    BY <2>1, DependsNext DEF OrderInv, Calls, Marks, Order, Finished
<1>2. CASE UNCHANGED vars
  BY <1>2, DependsNext DEF vars, conf, OrderInv, Calls, Marks, Order, Finished
<1>3. QED
  BY <1>1, <1>2, OrderPassedOver, OrderVisited, OrderWritten, OrderTakenOff DEF Next

LEMMA OrderInvariant == Spec => []OrderInv
BY OrderInit, OrderNext, PTL DEF Spec

LEMMA NeededMeans == \A c, S : Needed(c, S) <=> NeededIn(existing, depends, c, S)
BY Zenon DEF Needed, Closed, NeededIn, Dependencies, DependenciesIn

\* Whatever graph the DEPENDS lines make, with circles, missing and excluded
\* components and DEPENDS left over from a component before, what a component
\* depends on is executed before it, unless it depends on the component in turn
\* (component_depends, component_exec).
THEOREM DependenciesGoFirst == Spec => []DependenciesFirst
<1>1. ASSUME OrderInv PROVE DependenciesFirst
  <2>1. DOMAIN executed = 1 .. Len(executed)
    BY <1>1 DEF OrderInv, DependsInv, Types
  <2>2. \A i \in 1 .. Len(executed) : Ready(existing, depends, executed, excluded, i)
    BY <1>1 DEF OrderInv, Order
  <2>3. \A c : Dependencies(c) = DependenciesIn(existing, depends, c)
    BY DEF Dependencies, DependenciesIn
  <2>4. QED
    BY <2>1, <2>2, <2>3, NeededMeans DEF DependenciesFirst, Ready
<1>2. QED
  BY <1>1, OrderInvariant, PTL

\* A command that succeeds has executed exactly what the components it names
\* need, themselves included (component_depends, component_exec).
THEOREM AllIsExecuted == Spec => []AllExecuted
<1>1. ASSUME OrderInv, phase = "done"
      PROVE  Range(executed) = {c \in existing \ excluded : Needed(c, Range(include))}
  <2>1. stack = <<>> /\ output = <<>>
    BY <1>1 DEF OrderInv, DependsInv, Phases, Finished
  <2>2. 1 .. Len(stack) - 1 = {}
    BY <2>1
  <2>3. /\ \A c \in ignore : NeededIn(existing, depends, c, Range(include))
        /\ \A c \in ignore \cap existing :
             /\ DependenciesIn(existing, depends, c) \subseteq ignore
             /\ c \in Range(executed) \cup excluded
        /\ Range(executed) \subseteq (ignore \cap existing) \ excluded
    BY <1>1, <2>1, <2>2, RangeEmpty DEF OrderInv, Marks
  <2>4. Range(include) \subseteq ignore /\ ignore \in SUBSET Component
    BY <1>1, <2>1 DEF OrderInv, Calls, DependsInv, Types
  <2>5. \A c \in ignore : DependenciesIn(existing, depends, c) \subseteq ignore
    BY <2>3 DEF DependenciesIn
  <2>6. \A c : NeededIn(existing, depends, c, Range(include)) => c \in ignore
    BY <2>4, <2>5 DEF NeededIn
  <2>7. QED
    BY <2>3, <2>6, NeededMeans
<1>2. QED
  BY <1>1, OrderInvariant, PTL DEF AllExecuted
=============================================================================
