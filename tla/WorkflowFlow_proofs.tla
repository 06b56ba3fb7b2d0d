------------------------- MODULE WorkflowFlow_proofs -------------------------
(***************************************************************************)
(* Proofs about WorkflowFlow, for any drawing: the types, that nothing runs*)
(* that the drawing does not reach, that everything does run that a well-  *)
(* drawn one reaches, and that the compiler's calls fit the stack when the *)
(* drawing has no cycles.                                                  *)
(***************************************************************************)
EXTENDS WorkflowFlow, TLAPS

-----------------------------------------------------------------------------
(* The inductive invariant.  A node whose task has been made is supported: *)
(* a call on the stack is about to link it, or its task requires what a    *)
(* node in front of it provides.  A task that is made anew loses what it   *)
(* requires, but its call is then about to link it again.                  *)

Frames == drawing \in Drawing /\ stack \in Seq(Frame)

\* What is known of a call: the drawing has its edge, and both ends have their
\* tasks as far as the call has come.
FramesFit ==
    \A i \in 1..Len(stack) :
        /\ stack[i].edge \in Edges
        /\ stack[i].edge.source = Trigger \/ TaskOf(stack[i].edge.source) \in tasks
        /\ stack[i].at = "link" => TaskOf(stack[i].edge.target) \in tasks

ToBeLinked(n) == \E i \in 1..Len(stack) : stack[i].at = "link" /\ stack[i].edge.target = n

Linked(n) == \E e \in Edges : /\ e.target = n
                              /\ e.source = Trigger \/ Provided(e) \in requires[TaskOf(n)]

Supported ==
    OwnConditions => \A n \in Node : TaskOf(n) \in tasks => ToBeLinked(n) \/ Linked(n)

\* Tasks start when the compiler has finished, with what they require provided.
StartedReady ==
    /\ started # {} => phase = "running"
    /\ \A t \in started : requires[t] \subseteq values

IInv == TypeOK /\ Frames /\ FramesFit /\ Supported /\ StartedReady

-----------------------------------------------------------------------------
(* Lemmas about drawings and the stack.                                    *)

LEMMA Drawn ==
    ASSUME drawing \in Drawing
    PROVE  /\ drawing.kind \in [Node -> Kind]
           /\ drawing.out \in [Node \cup {Trigger} -> Seq(Edge)]
           /\ \A n \in Node \cup {Trigger} : \A i \in 1..Len(Out(n)) : Out(n)[i].source = n
           /\ drawing.cond \in [Node -> Condition \cup {None}]
           /\ drawing.data \in [Condition -> SUBSET Data]
BY DrawingAssumption DEF Out

\* An edge out of a node is an edge of the drawing.
LEMMA OutEdges ==
    ASSUME drawing \in Drawing, NEW n \in Node \cup {Trigger}, NEW i \in 1..Len(Out(n))
    PROVE  Out(n)[i] \in Edges /\ Out(n)[i].source = n
BY Drawn DEF Edges

LEMMA EdgesType ==
    ASSUME drawing \in Drawing
    PROVE  \A e \in Edges : /\ e \in Edge /\ e.target \in Node
                            /\ e.source \in Node \cup {Trigger}
                            /\ e.handle \in Handle \cup {None}
<1> SUFFICES ASSUME NEW n \in Node \cup {Trigger}, NEW i \in 1..Len(Out(n))
             PROVE  Out(n)[i] \in Edge
  BY DEF Edges, Edge
<1>1. Out(n) \in Seq(Edge)
  BY Drawn DEF Out
<1> QED BY <1>1

LEMMA FirstEdge ==
    ASSUME drawing \in Drawing, NEW n \in Node \cup {Trigger}, Out(n) # <<>>
    PROVE  Head(Out(n)) \in Edges /\ Head(Out(n)).source = n
<1>1. Out(n) \in Seq(Edge)
  BY Drawn DEF Out
<1>2. 1 \in 1..Len(Out(n)) /\ Head(Out(n)) = Out(n)[1]
  BY <1>1
<1> QED BY <1>2, OutEdges

LEMMA FalseEdges ==
    ASSUME drawing \in Drawing, NEW n \in Node, NEW e \in FalseEdge(n)
    PROVE  e \in Edges /\ e.source = n
BY OutEdges DEF FalseEdge

\* Different nodes have different tasks.
LEMMA OwnTasks ==
    ASSUME drawing \in Drawing, OwnConditions, NEW m \in Node, NEW n \in Node,
           TaskOf(m) = TaskOf(n), TaskOf(m) \in TaskName
    PROVE  m = n
BY Drawn, NamesAssumption DEF TaskOf, OwnConditions, KindOf, Cond, TaskName, Kind

LEMMA TaskOfType ==
    ASSUME drawing \in Drawing, NEW n \in Node
    PROVE  TaskOf(n) \in Node \cup Condition \cup {None}
BY Drawn DEF TaskOf, Cond

\* What a stack holds after a call.
LEMMA Pushed ==
    ASSUME NEW S, NEW q \in Seq(S), NEW e \in S
    PROVE  /\ <<e>> \o q \in Seq(S) /\ Len(<<e>> \o q) = Len(q) + 1
           /\ (<<e>> \o q)[1] = e
           /\ \A i \in 1..Len(q) : (<<e>> \o q)[i + 1] = q[i]
           /\ \A i \in 2..(Len(q) + 1) : (<<e>> \o q)[i] = q[i - 1]
OBVIOUS

LEMMA Popped ==
    ASSUME NEW S, NEW q \in Seq(S), q # <<>>
    PROVE  /\ Tail(q) \in Seq(S) /\ Len(q) \in Nat \ {0} /\ Len(Tail(q)) = Len(q) - 1
           /\ \A i \in 1..Len(Tail(q)) : Tail(q)[i] = q[i + 1]
           /\ Head(q) = q[1] /\ q[1] \in S
OBVIOUS

\* The innermost call has made its task.
LEMMA Marked ==
    ASSUME stack \in Seq(Frame), stack # <<>>
    PROVE  /\ ToLink \in Seq(Frame) /\ Len(ToLink) = Len(stack) /\ Len(stack) \in Nat \ {0}
           /\ ToLink[1].at = "link" /\ ToLink[1].edge = stack[1].edge /\ ToLink[1] \in Frame
           /\ \A i \in 2..Len(stack) : ToLink[i] = stack[i]
<1>1. stack \in [1..Len(stack) -> Frame] /\ Len(stack) \in Nat \ {0}
  OBVIOUS
<1>2. stack[1] \in Frame /\ [stack[1] EXCEPT !.at = "link"] \in Frame
      /\ [stack[1] EXCEPT !.at = "link"].at = "link"
      /\ [stack[1] EXCEPT !.at = "link"].edge = stack[1].edge
  BY <1>1 DEF Frame
<1>3. ToLink = [stack EXCEPT ![1] = [stack[1] EXCEPT !.at = "link"]]
  BY DEF ToLink
<1>4. ToLink \in [1..Len(stack) -> Frame]
  BY <1>1, <1>2, <1>3
<1>5. ToLink \in Seq(Frame) /\ Len(ToLink) = Len(stack)
  BY <1>1, <1>4
<1> QED BY <1>1, <1>2, <1>3, <1>5

-----------------------------------------------------------------------------
(* The initial states, and one lemma per action.                           *)

LEMMA InitIInv == Init => IInv
<1> SUFFICES ASSUME Init PROVE IInv
  OBVIOUS
<1>1. drawing \in Drawing /\ tasks = {} /\ started = {} /\ finished = {} /\ values = {}
      /\ requires = [t \in TaskName |-> {}]
  BY DEF Init
<1>2. CASE Out(Trigger) = <<>>
  <2>1. stack = <<>> /\ phase = "threw" /\ stack \in Seq(Frame)
    BY <1>2 DEF Init
  <2> QED BY <1>1, <2>1 DEF IInv, TypeOK, Frames, FramesFit, Supported, StartedReady
<1>3. CASE Out(Trigger) # <<>>
  <2> DEFINE e == Head(Out(Trigger))
  <2>1. e \in Edges /\ e.source = Trigger /\ e \in Edge
    BY <1>1, <1>3, FirstEdge, EdgesType
  <2>2. [edge |-> e, at |-> "visit"] \in Frame
    BY <2>1 DEF Frame
  <2>3. stack = <<[edge |-> e, at |-> "visit"]>> /\ phase = "compiling"
    BY <1>3 DEF Init, Call
  <2>4. stack \in Seq(Frame) /\ Len(stack) = 1 /\ stack[1] = [edge |-> e, at |-> "visit"]
    BY <2>2, <2>3
  <2> HIDE DEF e
  <2>5. TypeOK /\ Frames
    BY <1>1, <2>2, <2>3, <2>4 DEF TypeOK, Frames
  <2>6. FramesFit
    BY <2>1, <2>4 DEF FramesFit
  <2> QED BY <1>1, <2>5, <2>6 DEF IInv, Supported, StartedReady
<1> QED BY <1>2, <1>3

\* The call on top of the stack and its node.
LEMMA TopCall ==
    ASSUME IInv, stack # <<>>
    PROVE  /\ Current \in Node /\ Current = stack[1].edge.target /\ Head(stack) = stack[1]
           /\ stack[1] \in Frame /\ Len(stack) \in Nat \ {0}
           /\ stack[1].edge \in Edges
<1>1. Head(stack) = stack[1] /\ stack[1] \in Frame /\ Len(stack) \in Nat \ {0}
  BY Popped DEF IInv, Frames
<1>2. stack[1].edge \in Edges
  BY <1>1 DEF IInv, FramesFit
<1> QED BY <1>1, <1>2, EdgesType DEF IInv, Frames, Current

\* Nothing runs while the compiler does.
LEMMA NothingStarted ==
    ASSUME IInv, phase = "compiling"
    PROVE  started = {} /\ finished = {}
BY DEF IInv, TypeOK, StartedReady

\* The calls after a condition has got its task: the false branch comes first.
LEMMA ConditionCalls ==
    ASSUME IInv, MakeCondition
    PROVE  \/ stack' = ToLink /\ FalseEdge(Current) = {}
           \/ /\ stack' \in Seq(Frame) /\ Len(stack') = Len(stack) + 1
              /\ stack'[1].edge \in FalseEdge(Current) /\ stack'[1].at = "visit"
              /\ \A i \in 1..Len(stack) : stack'[i + 1] = ToLink[i]
              /\ \A i \in 2..(Len(stack) + 1) : stack'[i] = ToLink[i - 1]
<1> USE DEF MakeCondition, Visiting
<1> DEFINE q == ToLink
<1>1. CASE FalseEdge(Current) = {}
  BY <1>1
<1>2. CASE FalseEdge(Current) # {}
  <2>1. PICK e \in FalseEdge(Current) : stack' = Call(e) \o q
    BY <1>2
  <2>2. Current \in Node /\ drawing \in Drawing /\ stack \in Seq(Frame) /\ stack # <<>>
    BY TopCall DEF IInv, Frames
  <2>3. e \in Edge
    BY <2>2, FalseEdges, EdgesType
  <2> DEFINE f == [edge |-> e, at |-> "visit"]
  <2>4. f \in Frame /\ f.edge = e /\ f.at = "visit" /\ stack' = <<f>> \o q
    BY <2>1, <2>3 DEF Frame, Call
  <2>5. q \in Seq(Frame) /\ Len(q) = Len(stack)
    BY <2>2, Marked
  <2> HIDE DEF f, q
  <2>6. /\ stack' \in Seq(Frame) /\ Len(stack') = Len(q) + 1 /\ stack'[1] = f
        /\ \A i \in 1..Len(q) : stack'[i + 1] = q[i]
        /\ \A i \in 2..(Len(q) + 1) : stack'[i] = q[i - 1]
    BY <2>4, <2>5, Pushed
  <2> USE DEF q
  <2> QED BY <2>4, <2>5, <2>6
<1> QED BY <1>1, <1>2

\* The calls after the current node has been linked: its first edge comes next.
LEMMA LinkCalls ==
    ASSUME IInv, Link
    PROVE  \/ stack' = Tail(stack) /\ Out(Current) = <<>>
           \/ /\ Out(Current) # <<>>
              /\ stack' \in Seq(Frame) /\ Len(stack') = Len(Tail(stack)) + 1
              /\ stack'[1].edge = Head(Out(Current)) /\ stack'[1].at = "visit"
              /\ \A i \in 1..Len(Tail(stack)) : stack'[i + 1] = Tail(stack)[i]
              /\ \A i \in 2..(Len(Tail(stack)) + 1) : stack'[i] = Tail(stack)[i - 1]
<1> USE DEF Link, Linking
<1> DEFINE rest == Tail(stack)
           e == Head(Out(Current))
           f == [edge |-> e, at |-> "visit"]
<1>1. CASE Out(Current) = <<>>
  BY <1>1 DEF Return
<1>2. CASE Out(Current) # <<>>
  <2>1. Current \in Node /\ drawing \in Drawing /\ stack \in Seq(Frame) /\ stack # <<>>
    BY TopCall DEF IInv, Frames
  <2>2. e \in Edge
    BY <1>2, <2>1, FirstEdge, EdgesType
  <2>3. f \in Frame /\ f.edge = e /\ f.at = "visit"
    BY <2>2 DEF Frame
  <2>4. stack' = <<f>> \o rest
    BY <1>2 DEF Call, Return
  <2>5. rest \in Seq(Frame)
    BY <2>1, Popped
  <2> HIDE DEF f, e, rest
  <2>6. /\ stack' \in Seq(Frame) /\ Len(stack') = Len(rest) + 1 /\ stack'[1] = f
        /\ \A i \in 1..Len(rest) : stack'[i + 1] = rest[i]
        /\ \A i \in 2..(Len(rest) + 1) : stack'[i] = rest[i - 1]
    BY <2>3, <2>4, <2>5, Pushed
  <2> USE DEF rest, e
  <2> QED BY <1>2, <2>3, <2>6
<1> QED BY <1>1, <1>2

LEMMA MakeTaskStep == ASSUME IInv, MakeTask PROVE IInv'
<1> USE DEF MakeTask, Visiting, flow
<1> DEFINE n == Current
<1>0. drawing \in Drawing /\ stack \in Seq(Frame) /\ stack # <<>> /\ drawing' = drawing
  BY DEF IInv, Frames
<1>1. n \in Node /\ stack[1].edge.target = n
  BY <1>0, TopCall
<1>2. /\ stack' \in Seq(Frame) /\ Len(stack') = Len(stack) /\ Len(stack) \in Nat \ {0}
      /\ stack'[1].at = "link" /\ stack'[1].edge = stack[1].edge /\ stack'[1] \in Frame
      /\ \A i \in 2..Len(stack) : stack'[i] = stack[i]
  BY <1>0, Marked
<1>3. Edges' = Edges /\ (\A m : TaskOf(m)' = TaskOf(m)) /\ (OwnConditions' <=> OwnConditions)
      /\ \A e : Provided(e)' = Provided(e)
  BY <1>0 DEF Edges, TaskOf, OwnConditions, Provided, KindOf, Cond, Out
<1>4. TaskOf(n) = n
  BY DEF TaskOf
<1>5. tasks' = tasks \cup {n} /\ requires' = [requires EXCEPT ![n] = {}]
  OBVIOUS
<1> HIDE DEF n
<1>6. TypeOK'
  BY <1>0, <1>1, <1>2, <1>5, NothingStarted DEF IInv, TypeOK, TaskName
<1>7. FramesFit'
  BY <1>1, <1>2, <1>3, <1>4, <1>5 DEF IInv, FramesFit
<1>8. Supported'
  <2> SUFFICES ASSUME OwnConditions, NEW m \in Node, TaskOf(m) \in tasks'
               PROVE  ToBeLinked(m)' \/ Linked(m)'
    BY <1>3 DEF Supported
  <2>1. CASE m = n
    BY <1>1, <1>2, <2>1 DEF ToBeLinked
  <2>2. CASE m # n
    <3>1. TaskOf(m) # n /\ TaskOf(m) \in tasks
      BY <1>0, <1>1, <1>4, <1>5, <2>2, OwnTasks DEF TaskName
    <3>2. ToBeLinked(m) \/ Linked(m)
      BY <3>1 DEF IInv, Supported
    <3>3. requires'[TaskOf(m)] = requires[TaskOf(m)]
      BY <1>5, <3>1 DEF IInv, TypeOK
    <3>4. ToBeLinked(m) => ToBeLinked(m)'
      BY <1>1, <1>2, <2>2 DEF ToBeLinked
    <3>5. Linked(m) => Linked(m)'
      BY <1>3, <3>3 DEF Linked
    <3> QED BY <3>2, <3>4, <3>5
  <2> QED BY <2>1, <2>2
<1>9. StartedReady'
  BY NothingStarted DEF StartedReady
<1> QED BY <1>0, <1>2, <1>6, <1>7, <1>8, <1>9 DEF IInv, Frames

LEMMA MakeConditionStep == ASSUME IInv, MakeCondition PROVE IInv'
<1> USE DEF MakeCondition, Visiting, flow
<1> DEFINE n == Current
           c == Cond(n)
<1>0. drawing \in Drawing /\ stack \in Seq(Frame) /\ stack # <<>> /\ drawing' = drawing
  BY DEF IInv, Frames
<1>1. n \in Node /\ stack[1].edge.target = n
  BY <1>0, TopCall
<1>2. /\ ToLink \in Seq(Frame) /\ Len(ToLink) = Len(stack) /\ Len(stack) \in Nat \ {0}
      /\ ToLink[1].at = "link" /\ ToLink[1].edge = stack[1].edge /\ ToLink[1] \in Frame
      /\ \A i \in 2..Len(stack) : ToLink[i] = stack[i]
  BY <1>0, Marked
<1>3. Edges' = Edges /\ (\A m : TaskOf(m)' = TaskOf(m)) /\ (OwnConditions' <=> OwnConditions)
      /\ \A e : Provided(e)' = Provided(e)
  BY <1>0 DEF Edges, TaskOf, OwnConditions, Provided, KindOf, Cond, Out
<1>4. TaskOf(n) = c /\ c \in Condition /\ drawing.data[c] \subseteq Data
  BY <1>0, <1>1, Drawn DEF TaskOf, Cond
<1>5. /\ tasks' = tasks \cup {c} \cup drawing.data[c]
      /\ requires' = [t \in TaskName |->
                         IF t = c THEN Readings(c)
                         ELSE IF t \in drawing.data[c] THEN {} ELSE requires[t]]
  OBVIOUS
<1>6. Readings(c) \subseteq Value
  BY <1>4 DEF Readings, Result, Value, TaskName
<1>7. \/ stack' = ToLink
      \/ /\ stack' \in Seq(Frame) /\ Len(stack') = Len(stack) + 1
         /\ stack'[1].edge \in FalseEdge(n) /\ stack'[1].at = "visit"
         /\ \A i \in 1..Len(stack) : stack'[i + 1] = ToLink[i]
         /\ \A i \in 2..(Len(stack) + 1) : stack'[i] = ToLink[i - 1]
  BY ConditionCalls
<1> HIDE DEF n, c
<1>8. FalseEdge(n) \subseteq {e \in Edges : e.source = n}
  BY <1>0, <1>1, FalseEdges
<1>9. \/ stack' = ToLink
      \/ /\ stack' \in Seq(Frame) /\ Len(stack') = Len(stack) + 1
         /\ stack'[1].edge \in Edges /\ stack'[1].edge.source = n /\ stack'[1].at = "visit"
         /\ \A i \in 1..Len(stack) : stack'[i + 1] = ToLink[i]
         /\ \A i \in 2..(Len(stack) + 1) : stack'[i] = ToLink[i - 1]
  BY <1>7, <1>8
<1>10. stack' \in Seq(Frame)
  BY <1>2, <1>9
<1>11. TypeOK'
  <2>1. tasks' \subseteq TaskName /\ requires' \in [TaskName -> SUBSET Value]
    BY <1>4, <1>5, <1>6 DEF IInv, TypeOK, TaskName
  <2>2. \A i \in 1..Len(stack') : stack'[i] \in Frame
    BY <1>10
  <2> QED BY <1>10, <2>1, <2>2, NothingStarted DEF IInv, TypeOK
<1>12. \A i \in 1..Len(stack) :
          /\ ToLink[i].edge \in Edges
          /\ ToLink[i].edge.source = Trigger \/ TaskOf(ToLink[i].edge.source) \in tasks'
          /\ ToLink[i].at = "link" => TaskOf(ToLink[i].edge.target) \in tasks'
  BY <1>1, <1>2, <1>4, <1>5 DEF IInv, FramesFit
<1>13. FramesFit'
  <2>1. CASE stack' = ToLink
    BY <1>2, <1>3, <1>12, <2>1 DEF FramesFit
  <2>2. CASE stack' # ToLink
    <3> SUFFICES ASSUME NEW i \in 1..Len(stack')
                 PROVE  /\ stack'[i].edge \in Edges
                        /\ stack'[i].edge.source = Trigger \/ TaskOf(stack'[i].edge.source) \in tasks'
                        /\ stack'[i].at = "link" => TaskOf(stack'[i].edge.target) \in tasks'
      BY <1>3 DEF FramesFit
    <3>1. CASE i = 1
      BY <1>4, <1>5, <1>9, <2>2, <3>1
    <3>2. CASE i # 1
      <4>1. i - 1 \in 1..Len(stack) /\ stack'[i] = ToLink[i - 1]
        BY <1>2, <1>9, <2>2, <3>2
      <4> QED BY <1>12, <4>1
    <3> QED BY <3>1, <3>2
  <2> QED BY <2>1, <2>2
<1>14. ASSUME NEW m \in Node, NEW i \in 1..Len(stack), ToLink[i].at = "link", ToLink[i].edge.target = m
       PROVE  ToBeLinked(m)'
  <2>1. CASE stack' = ToLink
    BY <1>2, <1>14, <2>1 DEF ToBeLinked
  <2>2. CASE stack' # ToLink
    <3>1. i + 1 \in 1..Len(stack') /\ stack'[i + 1] = ToLink[i]
      BY <1>2, <1>9, <2>2
    <3> QED BY <1>14, <3>1 DEF ToBeLinked
  <2> QED BY <2>1, <2>2
<1>15. Supported'
  <2> SUFFICES ASSUME OwnConditions, NEW m \in Node, TaskOf(m) \in tasks'
               PROVE  ToBeLinked(m)' \/ Linked(m)'
    BY <1>3 DEF Supported
  <2>1. CASE m = n
    BY <1>1, <1>2, <1>14, <2>1
  <2>2. CASE m # n
    <3>1. TaskOf(m) # c
      BY <1>0, <1>1, <1>4, <2>2, OwnTasks DEF TaskName
    <3>2. TaskOf(m) \notin drawing.data[c]
      BY <1>0, <1>4, TaskOfType, NamesAssumption
    <3>3. TaskOf(m) \in tasks /\ requires'[TaskOf(m)] = requires[TaskOf(m)]
      BY <1>5, <3>1, <3>2 DEF IInv, TypeOK
    <3>4. ToBeLinked(m) \/ Linked(m)
      BY <3>3 DEF IInv, Supported
    <3>5. ToBeLinked(m) => ToBeLinked(m)'
      <4> SUFFICES ASSUME NEW i \in 1..Len(stack), stack[i].at = "link", stack[i].edge.target = m
                   PROVE  ToBeLinked(m)'
        BY DEF ToBeLinked
      <4>1. i \in 2..Len(stack) /\ ToLink[i] = stack[i]
        BY <1>1, <1>2, <2>2
      <4> QED BY <1>14, <4>1
    <3>6. Linked(m) => Linked(m)'
      BY <1>3, <3>3 DEF Linked
    <3> QED BY <3>4, <3>5, <3>6
  <2> QED BY <2>1, <2>2
<1>16. StartedReady'
  BY NothingStarted DEF StartedReady
<1> QED BY <1>0, <1>10, <1>11, <1>13, <1>15, <1>16 DEF IInv, Frames

LEMMA ThrowStep == ASSUME IInv, Throw PROVE IInv'
<1> USE DEF Throw, Visiting, flow
<1>1. Edges' = Edges /\ (\A m : TaskOf(m)' = TaskOf(m)) /\ (OwnConditions' <=> OwnConditions)
      /\ \A e : Provided(e)' = Provided(e)
  BY DEF Edges, TaskOf, OwnConditions, Provided, KindOf, Cond, Out
<1>2. TypeOK' /\ Frames'
  BY DEF IInv, TypeOK, Frames
<1>3. FramesFit'
  BY <1>1 DEF IInv, FramesFit
<1>4. \A m : (ToBeLinked(m)' <=> ToBeLinked(m)) /\ (Linked(m)' <=> Linked(m))
  BY <1>1 DEF ToBeLinked, Linked
<1>5. Supported'
  BY <1>1, <1>4 DEF IInv, Supported
<1>6. StartedReady'
  BY NothingStarted DEF StartedReady
<1> QED BY <1>2, <1>3, <1>5, <1>6 DEF IInv

LEMMA LinkStep == ASSUME IInv, Link PROVE IInv'
<1> USE DEF Link, Linking, flow
<1> DEFINE n == Current
           prev == stack[1].edge
           rest == Tail(stack)
<1>0. drawing \in Drawing /\ stack \in Seq(Frame) /\ stack # <<>> /\ drawing' = drawing
  BY DEF IInv, Frames
<1>1. /\ n \in Node /\ prev.target = n /\ Head(stack) = stack[1]
      /\ stack[1] \in Frame /\ stack[1].at = "link" /\ prev \in Edges
  BY <1>0, TopCall
<1>2. /\ rest \in Seq(Frame) /\ Len(stack) \in Nat \ {0} /\ Len(rest) = Len(stack) - 1
      /\ \A i \in 1..Len(rest) : rest[i] = stack[i + 1]
  BY <1>0, Popped
<1>3. Edges' = Edges /\ (\A m : TaskOf(m)' = TaskOf(m)) /\ (OwnConditions' <=> OwnConditions)
      /\ \A e : Provided(e)' = Provided(e)
  BY <1>0 DEF Edges, TaskOf, OwnConditions, Provided, KindOf, Cond, Out
<1>4. /\ TaskOf(n) \in tasks
      /\ prev.source = Trigger \/ TaskOf(prev.source) \in tasks
  BY <1>1, <1>2 DEF IInv, FramesFit
<1>5. /\ tasks' = tasks
      /\ requires' = IF prev.source = Trigger THEN requires
                     ELSE [requires EXCEPT ![TaskOf(n)] = @ \cup {Provided(prev)}]
  BY <1>1
<1>6. \/ stack' = rest
      \/ /\ Out(n) # <<>> /\ stack' \in Seq(Frame) /\ Len(stack') = Len(rest) + 1
         /\ stack'[1].edge = Head(Out(n)) /\ stack'[1].at = "visit"
         /\ \A i \in 1..Len(rest) : stack'[i + 1] = rest[i]
         /\ \A i \in 2..(Len(rest) + 1) : stack'[i] = rest[i - 1]
  BY LinkCalls
<1>7. prev.source # Trigger => Provided(prev) \in Value
  BY <1>0, <1>1, <1>4, EdgesType DEF IInv, TypeOK, Provided, Result, Value
<1> HIDE DEF n, prev, rest
<1>8. \/ stack' = rest
      \/ /\ stack' \in Seq(Frame) /\ Len(stack') = Len(rest) + 1
         /\ stack'[1].edge \in Edges /\ stack'[1].edge.source = n /\ stack'[1].at = "visit"
         /\ \A i \in 1..Len(rest) : stack'[i + 1] = rest[i]
         /\ \A i \in 2..(Len(rest) + 1) : stack'[i] = rest[i - 1]
  BY <1>0, <1>1, <1>6, FirstEdge
<1>9. stack' \in Seq(Frame)
  BY <1>2, <1>8
<1>10. requires' \in [TaskName -> SUBSET Value]
       /\ \A t \in TaskName : requires[t] \subseteq requires'[t]
  <2>1. requires \in [TaskName -> SUBSET Value] /\ TaskOf(n) \in TaskName
    BY <1>4 DEF IInv, TypeOK
  <2>2. CASE prev.source = Trigger
    BY <1>5, <2>1, <2>2
  <2>3. CASE prev.source # Trigger
    <3>1. requires' = [requires EXCEPT ![TaskOf(n)] = @ \cup {Provided(prev)}]
      BY <1>5, <2>3
    <3>2. requires[TaskOf(n)] \cup {Provided(prev)} \in SUBSET Value
      BY <1>7, <2>1, <2>3
    <3> QED BY <2>1, <3>1, <3>2
  <2> QED BY <2>2, <2>3
<1>11. TypeOK'
  <2>1. \A i \in 1..Len(stack') : stack'[i] \in Frame
    BY <1>9
  <2>2. phase' \in {"compiling", "running", "threw"} /\ (phase' = "running" => stack' = <<>>)
    OBVIOUS
  <2>3. finished' \subseteq started' /\ started' \subseteq tasks' /\ values' \subseteq Value
        /\ tasks' \subseteq TaskName
    BY <1>5 DEF IInv, TypeOK
  <2> QED BY <1>10, <2>1, <2>2, <2>3 DEF TypeOK
<1>12. \A i \in 1..Len(rest) :
          /\ rest[i].edge \in Edges
          /\ rest[i].edge.source = Trigger \/ TaskOf(rest[i].edge.source) \in tasks
          /\ rest[i].at = "link" => TaskOf(rest[i].edge.target) \in tasks
  BY <1>2 DEF IInv, FramesFit
<1>13. FramesFit'
  <2>1. CASE stack' = rest
    BY <1>3, <1>5, <1>12, <2>1 DEF FramesFit
  <2>2. CASE stack' # rest
    <3> SUFFICES ASSUME NEW i \in 1..Len(stack')
                 PROVE  /\ stack'[i].edge \in Edges
                        /\ stack'[i].edge.source = Trigger \/ TaskOf(stack'[i].edge.source) \in tasks
                        /\ stack'[i].at = "link" => TaskOf(stack'[i].edge.target) \in tasks
      BY <1>3, <1>5 DEF FramesFit
    <3>1. CASE i = 1
      BY <1>4, <1>8, <2>2, <3>1
    <3>2. CASE i # 1
      <4>1. i - 1 \in 1..Len(rest) /\ stack'[i] = rest[i - 1]
        BY <1>2, <1>8, <2>2, <3>2
      <4> QED BY <1>12, <4>1
    <3> QED BY <3>1, <3>2
  <2> QED BY <2>1, <2>2
<1>14. Supported'
  <2> SUFFICES ASSUME OwnConditions, NEW m \in Node, TaskOf(m) \in tasks
               PROVE  ToBeLinked(m)' \/ Linked(m)'
    BY <1>3, <1>5 DEF Supported
  <2>1. CASE m = n
    <3>1. TaskOf(n) \in TaskName
      BY <1>4 DEF IInv, TypeOK
    <3>2. prev.source = Trigger \/ Provided(prev) \in requires'[TaskOf(n)]
      BY <1>5, <3>1 DEF IInv, TypeOK
    <3>3. prev \in Edges' /\ prev.target = n
      BY <1>1, <1>3 DEF n, prev
    <3> QED BY <1>3, <2>1, <3>2, <3>3 DEF Linked
  <2>2. CASE m # n
    <3>1. ToBeLinked(m) => ToBeLinked(m)'
      <4> SUFFICES ASSUME NEW i \in 1..Len(stack), stack[i].at = "link", stack[i].edge.target = m
                   PROVE  ToBeLinked(m)'
        BY DEF ToBeLinked
      <4>1. i # 1
        BY <1>1, <2>2 DEF prev
      <4>2. i - 1 \in 1..Len(rest) /\ rest[i - 1] = stack[i]
        BY <1>2, <4>1
      <4>3. CASE stack' = rest
        BY <4>2, <4>3 DEF ToBeLinked
      <4>4. CASE stack' # rest
        <5>1. i \in 1..Len(stack') /\ stack'[i] = stack[i]
          BY <1>2, <1>8, <4>1, <4>2, <4>4
        <5> QED BY <5>1 DEF ToBeLinked
      <4> QED BY <4>3, <4>4
    <3>2. requires[TaskOf(m)] \subseteq requires'[TaskOf(m)]
      BY <1>10 DEF IInv, TypeOK
    <3>3. Linked(m) => Linked(m)'
      BY <1>3, <3>2 DEF Linked
    <3>4. ToBeLinked(m) \/ Linked(m)
      BY DEF IInv, Supported
    <3> QED BY <3>1, <3>3, <3>4
  <2> QED BY <2>1, <2>2
<1>15. StartedReady'
  BY NothingStarted DEF StartedReady
<1> QED BY <1>0, <1>9, <1>11, <1>13, <1>14, <1>15 DEF IInv, Frames

\* The run leaves the drawing and what the compiler made alone.
LEMMA CompilerSame ==
    ASSUME IInv, UNCHANGED <<drawing, compiler>>
    PROVE  Frames' /\ FramesFit' /\ Supported'
<1> USE DEF compiler
<1>1. Edges' = Edges /\ (\A m : TaskOf(m)' = TaskOf(m)) /\ (OwnConditions' <=> OwnConditions)
      /\ \A e : Provided(e)' = Provided(e)
  BY DEF Edges, TaskOf, OwnConditions, Provided, KindOf, Cond, Out
<1>2. \A m : (ToBeLinked(m)' <=> ToBeLinked(m)) /\ (Linked(m)' <=> Linked(m))
  BY <1>1 DEF ToBeLinked, Linked
<1>3. Frames'
  BY DEF IInv, Frames
<1>4. FramesFit'
  BY <1>1 DEF IInv, FramesFit
<1>5. Supported'
  BY <1>1, <1>2 DEF IInv, Supported
<1> QED BY <1>3, <1>4, <1>5

LEMMA StartStep == ASSUME IInv, NEW t \in TaskName, Start(t) PROVE IInv'
<1> USE DEF Start, compiler
<1>1. TypeOK'
  BY DEF IInv, TypeOK
<1>2. StartedReady'
  BY DEF IInv, StartedReady
<1> QED BY <1>1, <1>2, CompilerSame DEF IInv

LEMMA FinishStep == ASSUME IInv, NEW t \in TaskName, Finish(t) PROVE IInv'
<1> USE DEF Finish, compiler
<1>1. PICK new \in Provides(t) : values' = values \cup new
  OBVIOUS
<1>2. new \subseteq Value
  BY <1>1 DEF Provides, Result, Value
<1>3. TypeOK'
  BY <1>1, <1>2 DEF IInv, TypeOK
<1>4. StartedReady'
  BY <1>1 DEF IInv, StartedReady
<1> QED BY <1>3, <1>4, CompilerSame DEF IInv

LEMMA Stutter == ASSUME IInv, UNCHANGED vars PROVE IInv'
<1>1. TypeOK' /\ StartedReady'
  BY DEF IInv, TypeOK, StartedReady, vars, compiler, flow
<1> QED BY <1>1, CompilerSame DEF IInv, vars

LEMMA NextIInv == IInv /\ [Next]_vars => IInv'
<1> SUFFICES ASSUME IInv, [Next]_vars PROVE IInv'
  OBVIOUS
<1> QED BY MakeTaskStep, MakeConditionStep, ThrowStep, LinkStep, StartStep, FinishStep,
           Stutter DEF Next, Compile

LEMMA Invariance == Spec => []IInv
BY InitIInv, NextIInv, PTL DEF Spec

-----------------------------------------------------------------------------
(* Theorems.                                                               *)

\* Calls, tasks and values keep their types for any drawing, however the false
\* branches are nested; no task runs before the compiler has returned
\* (workflows.service.ts:190-231).
THEOREM TypeCorrect == Spec => []TypeOK
BY Invariance, PTL DEF IInv

\* A supported node that began had what the node in front of it provides.
LEMMA BeganReached == IInv => NothingElseRuns
<1> SUFFICES ASSUME IInv, OwnConditions, NEW n \in Node, Began(n) PROVE Reached(n)
  BY DEF NothingElseRuns
<1>1. stack = <<>> /\ TaskOf(n) \in tasks /\ requires[TaskOf(n)] \subseteq values
  BY DEF Began, IInv, TypeOK, StartedReady
<1>2. ~ToBeLinked(n)
  BY <1>1 DEF ToBeLinked
<1>3. Linked(n)
  BY <1>1, <1>2 DEF IInv, Supported
<1> QED BY <1>1, <1>3 DEF Linked, Reached

\* For any drawing in which no comparison decides two "if" nodes, cycles and joins
\* included: nothing runs unless the trigger leads to it, or a node that ran by the
\* branch that was taken (workflows.service.ts:190-222, resolvers.ts:43-47).
THEOREM NothingElse == Spec => []NothingElseRuns
BY Invariance, BeganReached, PTL
-----------------------------------------------------------------------------
(* The converse, for well-drawn workflows.  Behind the trigger and behind  *)
(* every node that has its task, each node has its task or is pending: a   *)
(* call on the stack is about to visit it, or to link the node in front of *)
(* it and to go on along its first edge.  Once the stack is empty, all that*)
(* is behind a task has a task.                                            *)

Pending(e) ==
    \E i \in 1..Len(stack) :
        \/ stack[i].edge = e
        \/ stack[i].at = "link" /\ stack[i].edge.target = e.source /\ e = Head(Out(e.source))

InFront(e) == e.source = Trigger \/ TaskOf(e.source) \in tasks

Complete == \A e \in Edges : InFront(e) => TaskOf(e.target) \in tasks \/ Pending(e)

\* A task requires what the nodes in front of its node provide, and its readings.
Incoming(n) == {Provided(e) : e \in {f \in Edges : f.target = n /\ f.source # Trigger}}

OwnReadings(n) == IF KindOf(n) = "if" THEN Readings(Cond(n)) ELSE {}

RequiresFit ==
    \A n \in Node : TaskOf(n) \in tasks => requires[TaskOf(n)] \subseteq Incoming(n) \cup OwnReadings(n)

\* Readings require nothing, and those of a comparison are made with it.
ReadingsFit == /\ \A d \in Data : requires[d] = {}
               /\ \A c \in Condition : c \in tasks => drawing.data[c] \subseteq tasks

\* What has been provided comes from tasks that ended, and readings provide theirs.
ValuesFit == /\ \A v \in values : v.of \in finished
             /\ \A d \in Data : d \in finished => Result(d, None) \in values

WellCompiled == WellDrawn => Complete /\ RequiresFit

CInv == WellCompiled /\ ReadingsFit /\ ValuesFit

\* What the well-drawn branches look like: an edge out of a node that has its task
\* is the first, or the first of the handle "false".
LEMMA EdgeFirst ==
    ASSUME drawing \in Drawing, WellDrawn, NEW n \in Node, NEW e \in Edges, e.source = n
    PROVE  /\ Out(n) # <<>>
           /\ e = Head(Out(n)) \/ (KindOf(n) = "if" /\ FalseEdge(n) = {e})
<1>1. PICK m \in Node \cup {Trigger} : \E i \in 1..Len(Out(m)) : e = Out(m)[i]
  BY DEF Edges
<1>2. m = n
  BY <1>1, OutEdges
<1>3. PICK i \in 1..Len(Out(n)) : Out(n) \in Seq(Edge) /\ Len(Out(n)) \in Nat /\ e = Out(n)[i]
  BY <1>1, <1>2, Drawn DEF Out
<1>4. Out(n) # <<>> /\ Head(Out(n)) = Out(n)[1]
  BY <1>3
<1>5. KindOf(n) \in Kind
  BY Drawn DEF KindOf
<1>6. \/ Len(Out(n)) <= 1
      \/ /\ KindOf(n) = "if" /\ Len(Out(n)) = 2
         /\ Out(n)[1].handle = "true" /\ Out(n)[2].handle = "false"
  <2>1. CASE KindOf(n) = "power"
    BY <1>4, <2>1 DEF WellDrawn
  <2>2. CASE KindOf(n) = "delay"
    BY <2>2 DEF WellDrawn
  <2>3. CASE KindOf(n) = "if"
    BY <2>3 DEF WellDrawn
  <2> QED BY <1>5, <2>1, <2>2, <2>3 DEF Kind
<1>7. CASE i = 1
  BY <1>3, <1>4, <1>7
<1>8. CASE i # 1
  <2>1. i = 2 /\ Len(Out(n)) = 2 /\ KindOf(n) = "if"
    BY <1>3, <1>6, <1>8
  <2>2. Out(n)[1].handle # "false" /\ Out(n)[2].handle = "false"
    BY <1>3, <1>6, <2>1
  <2>3. \A j \in 1..Len(Out(n)) : (Out(n)[j].handle = "false"
                                     /\ \A k \in 1..(j - 1) : Out(n)[k].handle # "false") <=> j = 2
    BY <2>1, <2>2
  <2>4. FalseEdge(n) = {Out(n)[2]}
    BY <2>1, <2>3 DEF FalseEdge
  <2> QED BY <1>3, <1>4, <2>1, <2>4
<1> QED BY <1>7, <1>8

LEMMA TriggerEdge ==
    ASSUME drawing \in Drawing, WellDrawn, NEW e \in Edges, e.source = Trigger
    PROVE  e = Head(Out(Trigger))
<1>1. PICK m \in Node \cup {Trigger} : \E i \in 1..Len(Out(m)) : e = Out(m)[i]
  BY DEF Edges
<1>2. m = Trigger
  BY <1>1, OutEdges
<1>3. Len(Out(Trigger)) = 1 /\ Out(Trigger) \in Seq(Edge)
  BY Drawn DEF WellDrawn, Out
<1> QED BY <1>1, <1>2, <1>3

LEMMA InitCInv == Init => CInv
<1> SUFFICES ASSUME Init PROVE CInv
  OBVIOUS
<1>1. drawing \in Drawing /\ tasks = {} /\ finished = {} /\ values = {}
      /\ requires = [t \in TaskName |-> {}]
  BY DEF Init
<1>2. ReadingsFit /\ ValuesFit
  BY <1>1 DEF ReadingsFit, ValuesFit, TaskName
<1>3. ASSUME WellDrawn PROVE Complete /\ RequiresFit
  <2>1. RequiresFit
    BY <1>1 DEF RequiresFit
  <2>2. ASSUME NEW e \in Edges, InFront(e) PROVE Pending(e)
    <3>1. e = Head(Out(Trigger))
      BY <1>1, <1>3, <2>2, TriggerEdge DEF InFront
    <3>2. Out(Trigger) # <<>>
      BY <1>3 DEF WellDrawn
    <3>3. stack = <<[edge |-> e, at |-> "visit"]>>
      BY <3>1, <3>2 DEF Init, Call
    <3>4. 1 \in 1..Len(stack) /\ stack[1].edge = e
      BY <3>3
    <3> QED BY <3>4 DEF Pending
  <2> QED BY <2>1, <2>2 DEF Complete
<1> QED BY <1>2, <1>3 DEF CInv, WellCompiled

\* While the drawing stays, so does all that is read off it.
LEMMA DrawingSame ==
    ASSUME drawing' = drawing
    PROVE  /\ Edges' = Edges /\ (WellDrawn' <=> WellDrawn)
           /\ \A n : TaskOf(n)' = TaskOf(n) /\ KindOf(n)' = KindOf(n) /\ Cond(n)' = Cond(n) /\ Out(n)' = Out(n)
           /\ \A n : Incoming(n)' = Incoming(n) /\ OwnReadings(n)' = OwnReadings(n)
           /\ \A e : Provided(e)' = Provided(e)
<1>1. Edges' = Edges /\ (\A n : TaskOf(n)' = TaskOf(n) /\ KindOf(n)' = KindOf(n) /\ Cond(n)' = Cond(n) /\ Out(n)' = Out(n))
  BY DEF Edges, TaskOf, KindOf, Cond, Out
<1>2. \A e : Provided(e)' = Provided(e)
  BY <1>1 DEF Provided
<1>3. \A n : Incoming(n)' = Incoming(n) /\ OwnReadings(n)' = OwnReadings(n)
  BY <1>1, <1>2 DEF Incoming, OwnReadings, Readings
<1>4. WellDrawn' <=> WellDrawn
  BY <1>1 DEF WellDrawn, OwnConditions
<1> QED BY <1>1, <1>2, <1>3, <1>4

LEMMA MakeTaskComplete ==
    ASSUME IInv, CInv, WellDrawn, MakeTask
    PROVE  Complete' /\ RequiresFit'
<1> USE DEF MakeTask, Visiting, flow
<1> DEFINE n == Current
<1>0. drawing \in Drawing /\ stack \in Seq(Frame) /\ stack # <<>> /\ drawing' = drawing /\ OwnConditions
  BY DEF IInv, Frames, WellDrawn
<1>1. n \in Node /\ stack[1].edge.target = n /\ stack[1].at = "visit" /\ KindOf(n) # "if"
  BY <1>0, TopCall
<1>2. /\ stack' \in Seq(Frame) /\ Len(stack') = Len(stack) /\ Len(stack) \in Nat \ {0}
      /\ stack'[1].at = "link" /\ stack'[1].edge = stack[1].edge
      /\ \A i \in 2..Len(stack) : stack'[i] = stack[i]
  BY <1>0, Marked
<1>3. TaskOf(n) = n /\ n \in TaskName
  BY <1>1 DEF TaskOf, TaskName
<1>4. tasks' = tasks \cup {n} /\ requires' = [requires EXCEPT ![n] = {}]
      /\ requires \in [TaskName -> SUBSET Value] /\ tasks \subseteq TaskName
  BY DEF IInv, TypeOK
<1>5. Complete /\ RequiresFit
  BY DEF CInv, WellCompiled
<1> HIDE DEF n
<1>6. ASSUME NEW e \in Edges, InFront(e)', TaskOf(e.target) \notin tasks' PROVE Pending(e)'
  <2>1. CASE InFront(e)
    <3>1. Pending(e)
      BY <1>4, <1>5, <1>6, <2>1 DEF Complete
    <3> QED BY <1>0, <1>1, <1>2, <3>1, DrawingSame DEF Pending
  <2>2. CASE ~InFront(e)
    <3>1. e.source \in Node /\ TaskOf(e.source) = n
      BY <1>0, <1>4, <1>6, <2>2, DrawingSame, EdgesType DEF InFront
    <3>2. e.source = n
      BY <1>0, <1>1, <1>3, <3>1, OwnTasks
    <3>3. e = Head(Out(n))
      BY <1>0, <1>1, <3>2, EdgeFirst
    <3> QED BY <1>0, <1>1, <1>2, <3>2, <3>3, DrawingSame DEF Pending
  <2> QED BY <2>1, <2>2
<1>7. Complete'
  BY <1>0, <1>6, DrawingSame DEF Complete
<1>8. ASSUME NEW m \in Node, TaskOf(m) \in tasks'
      PROVE  requires'[TaskOf(m)] \subseteq Incoming(m) \cup OwnReadings(m)
  BY <1>3, <1>4, <1>5, <1>8 DEF RequiresFit
<1>9. RequiresFit'
  BY <1>0, <1>8, DrawingSame DEF RequiresFit
<1> QED BY <1>7, <1>9

LEMMA MakeConditionComplete ==
    ASSUME IInv, CInv, WellDrawn, MakeCondition
    PROVE  Complete' /\ RequiresFit'
<1> USE DEF MakeCondition, Visiting, flow
<1> DEFINE n == Current
           c == Cond(n)
<1>0. drawing \in Drawing /\ stack \in Seq(Frame) /\ stack # <<>> /\ drawing' = drawing /\ OwnConditions
  BY DEF IInv, Frames, WellDrawn
<1>1. n \in Node /\ stack[1].edge.target = n /\ stack[1].at = "visit" /\ KindOf(n) = "if"
  BY <1>0, TopCall
<1>2. /\ Len(ToLink) = Len(stack) /\ Len(stack) \in Nat \ {0}
      /\ ToLink[1].at = "link" /\ ToLink[1].edge = stack[1].edge
      /\ \A i \in 2..Len(stack) : ToLink[i] = stack[i]
  BY <1>0, Marked
<1>3. TaskOf(n) = c /\ c \in Condition /\ c \in TaskName /\ drawing.data[c] \subseteq Data
  BY <1>0, <1>1, Drawn DEF TaskOf, Cond, TaskName
<1>4. /\ tasks' = tasks \cup {c} \cup drawing.data[c]
      /\ requires' = [t \in TaskName |->
                         IF t = c THEN Readings(c)
                         ELSE IF t \in drawing.data[c] THEN {} ELSE requires[t]]
      /\ tasks \subseteq TaskName
  BY DEF IInv, TypeOK
<1>5. Complete /\ RequiresFit
  BY DEF CInv, WellCompiled
<1>6. \/ stack' = ToLink /\ FalseEdge(n) = {}
      \/ /\ stack' \in Seq(Frame) /\ Len(stack') = Len(stack) + 1
         /\ stack'[1].edge \in FalseEdge(n)
         /\ \A i \in 1..Len(stack) : stack'[i + 1] = ToLink[i]
  BY ConditionCalls
<1> HIDE DEF n, c
<1>7. \A i \in 1..Len(stack) : \E j \in 1..Len(stack') : stack'[j] = ToLink[i]
  <2>1. CASE stack' = ToLink
    BY <1>2, <2>1
  <2>2. CASE stack' # ToLink
    BY <1>2, <1>6, <2>2
  <2> QED BY <2>1, <2>2
<1>8. ASSUME NEW e \in Edges, InFront(e)', TaskOf(e.target) \notin tasks' PROVE Pending(e)'
  <2>1. CASE InFront(e)
    <3>1. Pending(e)
      BY <1>4, <1>5, <1>8, <2>1 DEF Complete
    <3>2. PICK i \in 1..Len(stack) :
            \/ stack[i].edge = e
            \/ stack[i].at = "link" /\ stack[i].edge.target = e.source /\ e = Head(Out(e.source))
      BY <3>1 DEF Pending
    <3>3. \/ ToLink[i].edge = e
          \/ ToLink[i].at = "link" /\ ToLink[i].edge.target = e.source /\ e = Head(Out(e.source))
      BY <1>1, <1>2, <3>2
    <3> QED BY <1>0, <1>7, <3>3, DrawingSame DEF Pending
  <2>2. CASE ~InFront(e)
    <3>1. e.source \in Node /\ TaskOf(e.source) \in {c} \cup drawing.data[c]
      BY <1>0, <1>4, <1>8, <2>2, DrawingSame, EdgesType DEF InFront
    <3>2. TaskOf(e.source) = c
      BY <1>0, <1>3, <3>1, TaskOfType, NamesAssumption
    <3>3. e.source = n
      BY <1>0, <1>1, <1>3, <3>1, <3>2, OwnTasks
    <3>4. e = Head(Out(n)) \/ FalseEdge(n) = {e}
      BY <1>0, <1>1, <3>3, EdgeFirst
    <3>5. CASE e = Head(Out(n))
      <4>1. PICK j \in 1..Len(stack') : stack'[j] = ToLink[1]
        BY <1>2, <1>7
      <4> QED BY <1>0, <1>1, <1>2, <3>3, <3>5, <4>1, DrawingSame DEF Pending
    <3>6. CASE FalseEdge(n) = {e}
      <4>1. stack'[1].edge = e /\ 1 \in 1..Len(stack')
        BY <1>2, <1>6, <3>6
      <4> QED BY <4>1 DEF Pending
    <3> QED BY <3>4, <3>5, <3>6
  <2> QED BY <2>1, <2>2
<1>9. Complete'
  BY <1>0, <1>8, DrawingSame DEF Complete
<1>10. ASSUME NEW m \in Node, TaskOf(m) \in tasks'
       PROVE  requires'[TaskOf(m)] \subseteq Incoming(m) \cup OwnReadings(m)
  <2>1. TaskOf(m) \notin drawing.data[c] /\ TaskOf(m) \in TaskName
    BY <1>0, <1>3, <1>4, <1>10, TaskOfType, NamesAssumption
  <2>2. CASE TaskOf(m) = c
    <3>1. m = n
      BY <1>0, <1>1, <1>3, <2>2, OwnTasks
    <3>2. requires'[TaskOf(m)] = Readings(c)
      BY <1>3, <1>4, <2>2
    <3> QED BY <1>1, <3>1, <3>2 DEF OwnReadings, c
  <2>3. CASE TaskOf(m) # c
    BY <1>4, <1>5, <1>10, <2>1, <2>3 DEF RequiresFit
  <2> QED BY <2>2, <2>3
<1>11. RequiresFit'
  BY <1>0, <1>10, DrawingSame DEF RequiresFit
<1> QED BY <1>9, <1>11

LEMMA LinkComplete ==
    ASSUME IInv, CInv, WellDrawn, Link
    PROVE  Complete' /\ RequiresFit'
<1> USE DEF Link, Linking, flow
<1> DEFINE n == Current
           prev == stack[1].edge
           rest == Tail(stack)
<1>0. drawing \in Drawing /\ stack \in Seq(Frame) /\ stack # <<>> /\ drawing' = drawing /\ OwnConditions
  BY DEF IInv, Frames, WellDrawn
<1>1. /\ n \in Node /\ prev.target = n /\ prev \in Edges
      /\ Head(stack) = stack[1] /\ stack[1].at = "link"
  BY <1>0, TopCall
<1>2. /\ Len(stack) \in Nat \ {0} /\ Len(rest) = Len(stack) - 1
      /\ \A i \in 1..Len(rest) : rest[i] = stack[i + 1]
  BY <1>0, Popped
<1>3. TaskOf(n) \in tasks /\ tasks \subseteq TaskName
  BY <1>1, <1>2 DEF IInv, FramesFit, TypeOK
<1>4. /\ tasks' = tasks
      /\ requires' = IF prev.source = Trigger THEN requires
                     ELSE [requires EXCEPT ![TaskOf(n)] = @ \cup {Provided(prev)}]
      /\ requires \in [TaskName -> SUBSET Value]
  BY <1>1 DEF IInv, TypeOK
<1>5. Complete /\ RequiresFit
  BY DEF CInv, WellCompiled
<1>6. \/ stack' = rest /\ Out(n) = <<>>
      \/ /\ Out(n) # <<>> /\ stack' \in Seq(Frame) /\ Len(stack') = Len(rest) + 1
         /\ stack'[1].edge = Head(Out(n))
         /\ \A i \in 1..Len(rest) : stack'[i + 1] = rest[i]
  BY LinkCalls
<1> HIDE DEF n, prev, rest
<1>7. \A i \in 1..Len(rest) : \E j \in 1..Len(stack') : stack'[j] = rest[i]
  <2>1. CASE stack' = rest
    BY <1>2, <2>1
  <2>2. CASE stack' # rest
    BY <1>2, <1>6, <2>2
  <2> QED BY <2>1, <2>2
<1>8. ASSUME NEW e \in Edges, InFront(e)', TaskOf(e.target) \notin tasks' PROVE Pending(e)'
  <2>1. Pending(e)
    BY <1>0, <1>4, <1>5, <1>8, DrawingSame DEF Complete, InFront
  <2>2. PICK i \in 1..Len(stack) :
          \/ stack[i].edge = e
          \/ stack[i].at = "link" /\ stack[i].edge.target = e.source /\ e = Head(Out(e.source))
    BY <2>1 DEF Pending
  <2>3. CASE i = 1
    <3>1. prev # e
      BY <1>1, <1>3, <1>4, <1>8
    <3>2. e.source = n /\ e = Head(Out(n))
      BY <1>1, <2>2, <2>3, <3>1 DEF prev
    <3>3. Out(n) # <<>>
      BY <1>0, <1>1, <3>2, EdgeFirst
    <3>4. stack'[1].edge = e /\ 1 \in 1..Len(stack')
      BY <1>2, <1>6, <3>2, <3>3
    <3> QED BY <3>4 DEF Pending
  <2>4. CASE i # 1
    <3>1. i - 1 \in 1..Len(rest) /\ rest[i - 1] = stack[i]
      BY <1>2, <2>4
    <3>2. PICK j \in 1..Len(stack') : stack'[j] = stack[i]
      BY <1>7, <3>1
    <3> QED BY <1>0, <2>2, <3>2, DrawingSame DEF Pending
  <2> QED BY <2>3, <2>4
<1>9. Complete'
  BY <1>0, <1>8, DrawingSame DEF Complete
<1>10. ASSUME NEW m \in Node, TaskOf(m) \in tasks'
       PROVE  requires'[TaskOf(m)] \subseteq Incoming(m) \cup OwnReadings(m)
  <2>1. requires[TaskOf(m)] \subseteq Incoming(m) \cup OwnReadings(m)
    BY <1>4, <1>5, <1>10 DEF RequiresFit
  <2>2. CASE TaskOf(m) = TaskOf(n) /\ prev.source # Trigger
    <3>1. m = n
      BY <1>0, <1>1, <1>3, <2>2, OwnTasks
    <3>2. requires'[TaskOf(m)] = requires[TaskOf(m)] \cup {Provided(prev)}
      BY <1>3, <1>4, <2>2
    <3>3. Provided(prev) \in Incoming(m)
      BY <1>1, <2>2, <3>1 DEF Incoming
    <3> QED BY <2>1, <3>2, <3>3
  <2>3. CASE ~(TaskOf(m) = TaskOf(n) /\ prev.source # Trigger)
    BY <1>3, <1>4, <1>10, <2>1, <2>3
  <2> QED BY <2>2, <2>3
<1>11. RequiresFit'
  BY <1>0, <1>10, DrawingSame DEF RequiresFit
<1> QED BY <1>9, <1>11

\* The steps that leave the tasks and the stack alone.
LEMMA CompleteSame ==
    ASSUME CInv, UNCHANGED <<drawing, stack, tasks, requires>>
    PROVE  WellCompiled'
<1>1. \A e : Pending(e)' <=> Pending(e)
  BY DrawingSame DEF Pending
<1>2. \A e : InFront(e)' <=> InFront(e)
  BY DrawingSame DEF InFront
<1>3. Complete' <=> Complete
  BY <1>1, <1>2, DrawingSame DEF Complete
<1>4. RequiresFit' <=> RequiresFit
  BY DrawingSame DEF RequiresFit
<1> QED BY <1>3, <1>4, DrawingSame DEF CInv, WellCompiled

LEMMA ReadingsStay == ASSUME IInv, CInv, [Next]_vars PROVE ReadingsFit'
<1> USE DEF CInv, ReadingsFit
<1>0. drawing' = drawing /\ drawing \in Drawing /\ requires \in [TaskName -> SUBSET Value]
      /\ Data \subseteq TaskName /\ tasks \subseteq TaskName
  BY DEF Next, vars, Compile, MakeTask, MakeCondition, Throw, Link, Start, Finish, IInv, Frames,
         TypeOK, TaskName
<1>1. CASE MakeTask
  <2>1. Current \in Node
    BY <1>1, TopCall DEF MakeTask, Visiting
  <2> QED BY <1>0, <1>1, <2>1, NamesAssumption DEF MakeTask
<1>2. CASE MakeCondition
  <2> DEFINE c == Cond(Current)
  <2>1. c \in Condition
    <3>1. Current \in Node
      BY <1>2, TopCall DEF MakeCondition, Visiting
    <3> QED BY <1>0, <1>2, <3>1, Drawn DEF MakeCondition, Cond
  <2>2. /\ tasks' = tasks \cup {c} \cup drawing.data[c]
        /\ requires' = [t \in TaskName |->
                           IF t = c THEN Readings(c)
                           ELSE IF t \in drawing.data[c] THEN {} ELSE requires[t]]
    BY <1>2 DEF MakeCondition
  <2>3. drawing.data[c] \subseteq Data
    BY <1>0, <2>1, Drawn
  <2> HIDE DEF c
  <2>4. \A d \in Data : requires'[d] = {}
    BY <1>0, <2>1, <2>2, NamesAssumption
  <2>5. \A b \in Condition : b \in tasks' => drawing.data[b] \subseteq tasks'
    BY <2>1, <2>2, <2>3, NamesAssumption
  <2> QED BY <1>0, <2>4, <2>5
<1>3. CASE Link
  <2>1. Current \in Node
    BY <1>3, TopCall DEF Link, Linking
  <2>2. TaskOf(Current) \notin Data
    BY <1>0, <2>1, TaskOfType, NamesAssumption
  <2> QED BY <1>0, <1>3, <2>2 DEF Link
<1>4. CASE Throw \/ UNCHANGED vars \/ \E t \in TaskName : Start(t) \/ Finish(t)
  BY <1>4 DEF Throw, vars, compiler, Start, Finish
<1> QED BY <1>1, <1>2, <1>3, <1>4 DEF Next, Compile

LEMMA ValuesStay == ASSUME IInv, CInv, [Next]_vars PROVE ValuesFit'
<1> USE DEF CInv, ValuesFit
<1>1. CASE Compile \/ UNCHANGED vars \/ \E t \in TaskName : Start(t)
  BY <1>1 DEF Compile, MakeTask, MakeCondition, Throw, Link, Start, vars, flow
<1>2. ASSUME NEW t \in TaskName, Finish(t) PROVE ValuesFit'
  <2>1. PICK new \in Provides(t) : values' = values \cup new /\ finished' = finished \cup {t}
    BY <1>2 DEF Finish
  <2>2. \A v \in new : v.of = t
    BY <2>1 DEF Provides, Result
  <2>3. t \in Data => new = {Result(t, None)}
    BY <2>1, NamesAssumption DEF Provides
  <2> QED BY <2>1, <2>2, <2>3 DEF Result
<1> QED BY <1>1, <1>2 DEF Next

LEMMA CompleteStay == ASSUME IInv, CInv, [Next]_vars PROVE WellCompiled'
<1>1. drawing' = drawing
  BY DEF Next, vars, Compile, MakeTask, MakeCondition, Throw, Link, Start, Finish
<1>2. CASE MakeTask
  BY <1>1, <1>2, MakeTaskComplete, DrawingSame DEF WellCompiled
<1>3. CASE MakeCondition
  BY <1>1, <1>3, MakeConditionComplete, DrawingSame DEF WellCompiled
<1>4. CASE Link
  BY <1>1, <1>4, LinkComplete, DrawingSame DEF WellCompiled
<1>5. CASE Throw \/ UNCHANGED vars \/ \E t \in TaskName : Start(t) \/ Finish(t)
  BY <1>5, CompleteSame DEF Throw, vars, compiler, Start, Finish
<1> QED BY <1>2, <1>3, <1>4, <1>5 DEF Next, Compile

LEMMA Completeness == Spec => []CInv
<1>1. IInv /\ CInv /\ [Next]_vars => CInv'
  BY CompleteStay, ReadingsStay, ValuesStay DEF CInv
<1> QED BY <1>1, InitCInv, Invariance, PTL DEF Spec

\* At rest, a task whose requirements are there has run; so have all readings, and
\* with them the task of every node whose only predecessor ran.
LEMMA ReachedBegan == IInv /\ CInv => EverythingReachedRuns
<1> SUFFICES ASSUME IInv, CInv, Quiet, WellDrawn, NEW n \in Node, Reached(n) PROVE Began(n)
  BY DEF EverythingReachedRuns
<1>0. drawing \in Drawing /\ stack = <<>> /\ Complete /\ RequiresFit /\ finished = started /\ started \subseteq tasks
  BY DEF IInv, Frames, TypeOK, Quiet, CInv, WellCompiled
<1>1. \A t \in tasks : requires[t] \subseteq values => t \in started
  BY DEF Quiet
<1>2. PICK e \in Edges : e.target = n /\ (e.source = Trigger \/ Provided(e) \in values)
  BY DEF Reached
<1>3. InFront(e)
  BY <1>0, <1>2 DEF InFront, Provided, Result, CInv, ValuesFit
<1>4. TaskOf(n) \in tasks
  BY <1>0, <1>2, <1>3 DEF Complete, Pending
<1>5. Incoming(n) \subseteq values
  <2> SUFFICES ASSUME NEW f \in Edges, f.target = n, f.source # Trigger PROVE Provided(f) \in values
    BY DEF Incoming
  <2>1. f = e
    BY <1>2 DEF WellDrawn
  <2> QED BY <1>2, <2>1
<1>6. OwnReadings(n) \subseteq values
  <2> SUFFICES ASSUME KindOf(n) = "if", NEW d \in drawing.data[Cond(n)] PROVE Result(d, None) \in values
    BY DEF OwnReadings, Readings
  <2>1. Cond(n) \in tasks /\ Cond(n) \in Condition
    <3>1. Cond(n) \in tasks /\ tasks \subseteq TaskName /\ Cond(n) \in Condition \cup {None}
      BY <1>0, <1>4, Drawn DEF TaskOf, IInv, TypeOK, Cond
    <3> QED BY <3>1, NamesAssumption DEF TaskName
  <2>2. d \in tasks /\ d \in Data /\ requires[d] = {}
    BY <1>0, <2>1, Drawn DEF CInv, ReadingsFit
  <2>3. d \in finished
    BY <1>0, <1>1, <2>2
  <2> QED BY <2>2, <2>3 DEF CInv, ValuesFit
<1>7. requires[TaskOf(n)] \subseteq values
  BY <1>0, <1>4, <1>5, <1>6 DEF RequiresFit
<1> QED BY <1>1, <1>4, <1>7 DEF Began

\* For any well-drawn workflow, of any size: when a run of it comes to rest, every
\* node that the drawing reaches has run, whatever its comparisons said: the
\* compiler leaves out no branch, and no task waits for what nobody provides
\* (workflows.service.ts:127-226, tasks.ts).
THEOREM EverythingReached == Spec => []EverythingReachedRuns
BY Invariance, Completeness, ReachedBegan, PTL

-----------------------------------------------------------------------------
(* Without cycles the calls of the compiler fit its stack: along a ranking *)
(* of the nodes, every call is at a node that ranks higher than that of the*)
(* call that made it, and no rank is above MaxDepth.                       *)

Ranks == [Node -> 1..MaxDepth]

Ranking(rank) == \A e \in Edges : e.source # Trigger => rank[e.source] < rank[e.target]

\* There are Len(stack) - i calls around the one at place i.
Deep(rank) == \A i \in 1..Len(stack) : rank[stack[i].edge.target] >= Len(stack) - i + 1

\* Nothing follows the trigger, or an "if" lacks its comparison.
Incomplete == Out(Trigger) = <<>> \/ \E n \in Node : KindOf(n) = "if" /\ Cond(n) = None

ThrowsOnlyIncomplete == Acyclic /\ phase = "threw" => Incomplete

DInv == /\ \A rank \in Ranks : Ranking(rank) => Deep(rank)
        /\ ThrowsOnlyIncomplete

\* An edge out of a node of the control flow leads to a higher rank.
LEMMA RankGrows ==
    ASSUME drawing \in Drawing, NEW rank \in Ranks, Ranking(rank),
           NEW e \in Edges, e.source \in Node
    PROVE  /\ rank[e.source] \in Nat /\ rank[e.target] \in Nat
           /\ rank[e.source] + 1 <= rank[e.target] /\ rank[e.target] <= MaxDepth
<1>1. e.source # Trigger /\ e.target \in Node /\ MaxDepth \in Nat
  BY EdgesType, NamesAssumption
<1>2. rank[e.source] \in 1..MaxDepth /\ rank[e.target] \in 1..MaxDepth
  BY <1>1 DEF Ranks
<1>3. rank[e.source] < rank[e.target]
  BY <1>1 DEF Ranking
<1> QED BY <1>1, <1>2, <1>3

LEMMA InitDInv == Init => DInv
<1> SUFFICES ASSUME Init PROVE DInv
  OBVIOUS
<1>1. IInv
  BY InitIInv
<1>2. ThrowsOnlyIncomplete
  BY DEF Init, ThrowsOnlyIncomplete, Incomplete
<1>3. ASSUME NEW rank \in Ranks PROVE Deep(rank)
  <2>1. CASE stack = <<>>
    BY <2>1 DEF Deep
  <2>2. CASE stack # <<>>
    <3>1. Len(stack) = 1
      BY <2>2 DEF Init, Call
    <3>2. rank[stack[1].edge.target] \in 1..MaxDepth
      BY <1>1, <2>2, TopCall DEF Ranks
    <3> QED BY <3>1, <3>2, NamesAssumption DEF Deep
  <2> QED BY <2>1, <2>2
<1> QED BY <1>2, <1>3 DEF DInv

\* What the two invariants say of the innermost call.
LEMMA TopDeep ==
    ASSUME IInv, stack # <<>>, NEW rank \in Ranks, Deep(rank)
    PROVE  rank[Current] \in Nat /\ Len(stack) \in Nat \ {0} /\ rank[Current] >= Len(stack)
<1>1. Current \in Node /\ Current = stack[1].edge.target /\ Len(stack) \in Nat \ {0}
  BY TopCall
<1>2. rank[Current] \in 1..MaxDepth
  BY <1>1 DEF Ranks
<1>3. rank[Current] >= Len(stack) - 1 + 1
  BY <1>1 DEF Deep
<1> QED BY <1>1, <1>2, <1>3, NamesAssumption

LEMMA MakeTaskDeep ==
    ASSUME IInv, MakeTask, NEW rank \in Ranks, Deep(rank)
    PROVE  Deep(rank)'
<1>1. stack' = ToLink /\ stack \in Seq(Frame) /\ stack # <<>>
  BY DEF MakeTask, Visiting, IInv, Frames
<1>2. Len(stack') = Len(stack) /\ \A i \in 1..Len(stack) : stack'[i].edge = stack[i].edge
  BY <1>1, Marked
<1> QED BY <1>2 DEF Deep

LEMMA MakeConditionDeep ==
    ASSUME IInv, MakeCondition, NEW rank \in Ranks, Ranking(rank), Deep(rank)
    PROVE  Deep(rank)'
<1>1. stack \in Seq(Frame) /\ stack # <<>> /\ drawing \in Drawing
  BY DEF MakeCondition, Visiting, IInv, Frames
<1>2. /\ Len(ToLink) = Len(stack) /\ Len(stack) \in Nat \ {0}
      /\ \A i \in 1..Len(stack) : ToLink[i].edge = stack[i].edge
  BY <1>1, Marked
<1>3. CASE stack' = ToLink
  BY <1>2, <1>3 DEF Deep
<1>4. CASE stack' # ToLink
  <2>1. /\ Len(stack') = Len(stack) + 1
        /\ stack'[1].edge \in FalseEdge(Current)
        /\ \A i \in 2..(Len(stack) + 1) : stack'[i] = ToLink[i - 1]
    BY <1>4, ConditionCalls
  <2>2. Current \in Node /\ stack'[1].edge \in Edges /\ stack'[1].edge.source = Current
    BY <1>1, <2>1, TopCall, FalseEdges
  <2>3. rank[stack'[1].edge.target] \in Nat /\ rank[stack'[1].edge.target] >= Len(stack) + 1
    BY <1>1, <2>2, RankGrows, TopDeep
  <2> SUFFICES ASSUME NEW i \in 1..Len(stack')
               PROVE  rank[stack'[i].edge.target] >= Len(stack') - i + 1
    BY DEF Deep
  <2>4. CASE i = 1
    BY <1>2, <2>1, <2>3, <2>4
  <2>5. CASE i # 1
    <3>1. i \in 2..(Len(stack) + 1) /\ i - 1 \in 1..Len(stack) /\ i \in Nat
      BY <1>2, <2>1, <2>5
    <3>2. stack'[i].edge = stack[i - 1].edge
      BY <1>2, <2>1, <3>1
    <3>3. rank[stack[i - 1].edge.target] >= Len(stack) - (i - 1) + 1
      BY <3>1 DEF Deep
    <3>4. Len(stack) - (i - 1) + 1 = Len(stack') - i + 1
      BY <1>2, <2>1, <3>1
    <3> QED BY <3>2, <3>3, <3>4
  <2> QED BY <2>4, <2>5
<1> QED BY <1>3, <1>4

LEMMA LinkDeep ==
    ASSUME IInv, Link, NEW rank \in Ranks, Ranking(rank), Deep(rank)
    PROVE  Deep(rank)'
<1> DEFINE rest == Tail(stack)
<1>1. stack \in Seq(Frame) /\ stack # <<>> /\ drawing \in Drawing
  BY DEF Link, Linking, IInv, Frames
<1>2. /\ Len(stack) \in Nat \ {0} /\ Len(rest) = Len(stack) - 1
      /\ \A i \in 1..Len(rest) : rest[i] = stack[i + 1]
  BY <1>1, Popped
<1> HIDE DEF rest
<1>3. \A i \in 1..Len(rest) : rank[rest[i].edge.target] >= Len(rest) - i + 1
  <2> SUFFICES ASSUME NEW i \in 1..Len(rest)
               PROVE  rank[stack[i + 1].edge.target] >= Len(rest) - i + 1
    BY <1>2
  <2>1. i + 1 \in 1..Len(stack) /\ Len(rest) - i + 1 = Len(stack) - (i + 1) + 1
    BY <1>2
  <2> QED BY <2>1 DEF Deep
<1>4. CASE stack' = rest
  BY <1>3, <1>4 DEF Deep
<1>5. CASE stack' # rest
  <2>1. /\ Out(Current) # <<>> /\ Len(stack') = Len(rest) + 1
        /\ stack'[1].edge = Head(Out(Current))
        /\ \A i \in 2..(Len(rest) + 1) : stack'[i] = rest[i - 1]
    BY <1>5, LinkCalls DEF rest
  <2>2. Current \in Node /\ stack'[1].edge \in Edges /\ stack'[1].edge.source = Current
    BY <1>1, <2>1, TopCall, FirstEdge
  <2>3. rank[stack'[1].edge.target] \in Nat /\ rank[stack'[1].edge.target] >= Len(stack)
    BY <1>1, <2>2, RankGrows, TopDeep
  <2> SUFFICES ASSUME NEW i \in 1..Len(stack')
               PROVE  rank[stack'[i].edge.target] >= Len(stack') - i + 1
    BY DEF Deep
  <2>4. CASE i = 1
    BY <1>2, <2>1, <2>3, <2>4
  <2>5. CASE i # 1
    <3>1. i \in 2..(Len(rest) + 1) /\ i - 1 \in 1..Len(rest) /\ i \in Nat
      BY <1>2, <2>1, <2>5
    <3>2. rank[stack'[i].edge.target] >= Len(rest) - (i - 1) + 1
      BY <1>3, <2>1, <3>1
    <3>3. Len(rest) - (i - 1) + 1 = Len(stack') - i + 1
      BY <1>2, <2>1, <3>1
    <3> QED BY <3>2, <3>3
  <2> QED BY <2>4, <2>5
<1> QED BY <1>4, <1>5

\* A false branch is called at a node above the rank of the "if", which is not below
\* the number of calls: there is room for one more.
LEMMA RoomLeft ==
    ASSUME IInv, stack # <<>>, NEW rank \in Ranks, Ranking(rank), Deep(rank),
           FalseEdge(Current) # {}
    PROVE  Len(stack) < MaxDepth
<1>1. PICK e \in FalseEdge(Current) : TRUE
  OBVIOUS
<1>2. Current \in Node /\ drawing \in Drawing /\ e \in Edges /\ e.source = Current
  BY <1>1, TopCall, FalseEdges DEF IInv, Frames
<1>3. rank[Current] + 1 <= rank[e.target] /\ rank[e.target] <= MaxDepth /\ rank[e.target] \in Nat
  BY <1>2, RankGrows
<1> QED BY <1>3, TopDeep, NamesAssumption

LEMMA DeepStays ==
    ASSUME IInv, DInv, [Next]_vars, NEW rank \in Ranks, Ranking(rank)
    PROVE  Deep(rank)'
<1>1. Deep(rank)
  BY DEF DInv
<1>2. CASE Throw \/ UNCHANGED vars \/ \E t \in TaskName : Start(t) \/ Finish(t)
  BY <1>1, <1>2 DEF Deep, Throw, vars, compiler, Start, Finish
<1> QED BY <1>1, <1>2, MakeTaskDeep, MakeConditionDeep, LinkDeep DEF Next, Compile

LEMMA ThrowsStay == ASSUME IInv, DInv, [Next]_vars PROVE ThrowsOnlyIncomplete'
<1>1. drawing' = drawing /\ (Acyclic' <=> Acyclic) /\ (Incomplete' <=> Incomplete)
  <2>1. drawing' = drawing
    BY DEF Next, vars, Compile, MakeTask, MakeCondition, Throw, Link, Start, Finish
  <2> QED BY <2>1, DrawingSame DEF Acyclic, Incomplete
<1>2. CASE Throw
  <2> SUFFICES ASSUME Acyclic PROVE Incomplete
    BY <1>1 DEF ThrowsOnlyIncomplete
  <2>1. PICK rank \in Ranks : Ranking(rank)
    BY DEF Acyclic, Ranks, Ranking
  <2>2. Deep(rank) /\ stack # <<>>
    BY <1>2, <2>1 DEF DInv, Throw, Visiting
  <2>3. FalseEdge(Current) # {} => Len(stack) < MaxDepth
    BY <2>1, <2>2, RoomLeft
  <2>4. Len(stack) \in Nat /\ MaxDepth \in Nat /\ Current \in Node
    BY <2>2, TopCall, NamesAssumption
  <2>5. KindOf(Current) = "if" /\ Cond(Current) = None
    BY <1>2, <2>3, <2>4 DEF Throw
  <2> QED BY <2>4, <2>5 DEF Incomplete
<1>3. CASE ~Throw
  <2>1. phase' = "threw" => phase = "threw"
    BY <1>3 DEF Next, vars, compiler, Compile, MakeTask, MakeCondition, Link, Start, Finish
  <2> QED BY <1>1, <2>1 DEF DInv, ThrowsOnlyIncomplete
<1> QED BY <1>2, <1>3

LEMMA NextDInv == IInv /\ DInv /\ [Next]_vars => DInv'
<1> SUFFICES ASSUME IInv, DInv, [Next]_vars PROVE DInv'
  OBVIOUS
<1>1. \A rank : Ranking(rank)' <=> Ranking(rank)
  <2>1. drawing' = drawing
    BY DEF Next, vars, Compile, MakeTask, MakeCondition, Throw, Link, Start, Finish
  <2> QED BY <2>1, DrawingSame DEF Ranking
<1> QED BY <1>1, DeepStays, ThrowsStay DEF DInv, Ranks

\* On a drawing without cycles, of any size, the compiler never runs out of stack, in
\* whatever order the edges were drawn and however its branches join: it throws only
\* if nothing follows the trigger or an "if" has no comparison
\* (workflows.service.ts:127-226).
THEOREM AcyclicCompiles == Spec => []ThrowsOnlyIncomplete
<1>1. DInv => ThrowsOnlyIncomplete
  BY DEF DInv
<1> QED BY <1>1, InitDInv, NextDInv, Invariance, PTL DEF Spec
==============================================================================
