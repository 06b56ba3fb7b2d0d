---------------------------- MODULE WorkflowFlow ----------------------------
(***************************************************************************)
(* From the drawing of a workflow to the commands it sends: the compiler   *)
(* (getWorkflowTasks, handleConditionArg, getFalseEdge and the task        *)
(* constructors of tasks.ts), then one run of the tasks by the package     *)
(* flowed with the resolvers of resolvers.ts.                              *)
(*                                                                         *)
(* The compiler follows the first edge out of every node, and calls itself *)
(* for the false edge of a condition before it continues.  A task starts as*)
(* soon as everything it requires has been provided.                       *)
(*                                                                         *)
(* The nodes that form the control flow are of kind "delay", "power" (a    *)
(* command) or "if".  The comparison that decides an "if" is a node of its *)
(* own, Condition, and compares constants and elements of devices (Data).  *)
(***************************************************************************)
EXTENDS Naturals, Sequences

CONSTANTS Node,             \* nodes of the control flow
          Trigger,          \* the node 'NodeTrigger'
          Condition,        \* comparisons: NodeGt, NodeLt, NodeEqual
          Data,             \* NodeData: elements that comparisons read
          Drawing,          \* the workflows that may have been drawn
          MaxDepth,         \* calls that fit the stack of node
          None

Kind == {"delay", "power", "if"}
Handle == {"true", "false"}

\* The ids of nodes begin with their kind, so that these are disjoint.
ASSUME NamesAssumption ==
    /\ Node \cap Condition = {} /\ Node \cap Data = {} /\ Condition \cap Data = {}
    /\ None \notin Node \cup Condition \cup Data
    /\ Trigger \notin Node
    /\ MaxDepth \in Nat

\* An edge out of an "if" leaves it by one of its two handles.
Edge == [source : Node \cup {Trigger}, handle : Handle \cup {None}, target : Node]

\* cond[n] is None when the "if" n has no comparison, or the comparison of n lacks
\* an argument.  The edges out of a node are in the order in which they were drawn.
ASSUME DrawingAssumption ==
    \A g \in Drawing :
        /\ g.kind \in [Node -> Kind]
        /\ g.out \in [Node \cup {Trigger} -> Seq(Edge)]
        /\ \A n \in Node \cup {Trigger} : \A i \in 1..Len(g.out[n]) : g.out[n][i].source = n
        /\ g.cond \in [Node -> Condition \cup {None}]
        /\ g.data \in [Condition -> SUBSET Data]

\* What a task provides and requires, the parameters (always there) left out.
TaskName == Node \cup Condition \cup Data
Value == [of : TaskName, handle : Handle \cup {None}]

\* A call of getWorkflowTasks: prevEdge, and whether currentEdge has its task but
\* is not linked to prevEdge yet.
Frame == [edge : Edge, at : {"visit", "link"}]

VARIABLES drawing,
          phase,            \* "compiling", "running" or "threw"
          stack,            \* calls of getWorkflowTasks, the innermost first
          tasks,            \* names of the tasks made so far
          requires,         \* what each of them requires
          started, finished,
          values            \* what the finished tasks have provided

compiler == <<phase, stack, tasks, requires>>
flow == <<started, finished, values>>
vars == <<drawing, compiler, flow>>

Out(n) == drawing.out[n]
KindOf(n) == drawing.kind[n]
Cond(n) == drawing.cond[n]

Edges == UNION {{Out(n)[i] : i \in 1..Len(Out(n))} : n \in Node \cup {Trigger}}

Call(e) == <<[edge |-> e, at |-> "visit"]>>

Init == /\ drawing \in Drawing
        /\ IF Out(Trigger) = <<>> THEN phase = "threw" /\ stack = <<>>
           ELSE phase = "compiling" /\ stack = Call(Head(Out(Trigger)))
        /\ tasks = {} /\ requires = [t \in TaskName |-> {}]
        /\ started = {} /\ finished = {} /\ values = {}

-----------------------------------------------------------------------------
(* The compiler.                                                           *)

\* Task of a node of the control flow, and what it provides for an edge.
TaskOf(n) == IF KindOf(n) = "if" THEN Cond(n) ELSE n

Result(t, h) == [of |-> t, handle |-> h]

Provided(e) == Result(TaskOf(e.source), e.handle)

Readings(c) == {Result(d, None) : d \in drawing.data[c]}

Current == Head(stack).edge.target

Visiting == phase = "compiling" /\ stack # <<>> /\ Head(stack).at = "visit"

Linking == phase = "compiling" /\ stack # <<>> /\ Head(stack).at = "link"

ToLink == [stack EXCEPT ![1].at = "link"]

\* useTaskDelay, useTaskCommand: a task that was there is replaced.
MakeTask ==
    /\ Visiting /\ KindOf(Current) # "if"
    /\ tasks' = tasks \cup {Current}
    /\ requires' = [requires EXCEPT ![Current] = {}]
    /\ stack' = ToLink
    /\ UNCHANGED <<drawing, phase, flow>>

\* The first edge out of n by its handle "false", if there is one.
FalseEdge(n) == {Out(n)[i] : i \in {i \in 1..Len(Out(n)) :
                                     /\ Out(n)[i].handle = "false"
                                     /\ \A j \in 1..(i - 1) : Out(n)[j].handle # "false"}}

\* Mutant: the false branch is not compiled.
MakeCondition_TrueOnly ==
    /\ Visiting /\ KindOf(Current) = "if" /\ Cond(Current) # None
    /\ LET c == Cond(Current) IN
       /\ tasks' = tasks \cup {c} \cup drawing.data[c]
       /\ requires' = [t \in TaskName |->
                         IF t = c THEN Readings(c)
                         ELSE IF t \in drawing.data[c] THEN {} ELSE requires[t]]
    /\ stack' = ToLink
    /\ UNCHANGED <<drawing, phase, flow>>

\* useTaskIf and the tasks of its arguments, then the false branch.
MakeCondition ==
    /\ Visiting /\ KindOf(Current) = "if" /\ Cond(Current) # None
    /\ FalseEdge(Current) # {} => Len(stack) < MaxDepth
    /\ LET c == Cond(Current) IN
       /\ tasks' = tasks \cup {c} \cup drawing.data[c]
       /\ requires' = [t \in TaskName |->
                         IF t = c THEN Readings(c)
                         ELSE IF t \in drawing.data[c] THEN {} ELSE requires[t]]
    /\ IF FalseEdge(Current) = {} THEN stack' = ToLink
       ELSE \E e \in FalseEdge(Current) : stack' = Call(e) \o ToLink
    /\ UNCHANGED <<drawing, phase, flow>>

\* condition or conditionArgs is undefined, or the stack overflows.
Throw ==
    /\ Visiting /\ KindOf(Current) = "if"
    /\ \/ Cond(Current) = None
       \/ FalseEdge(Current) # {} /\ Len(stack) >= MaxDepth
    /\ phase' = "threw"
    /\ UNCHANGED <<drawing, stack, tasks, requires, flow>>

Return == IF Out(Current) = <<>> THEN Tail(stack)
          ELSE Call(Head(Out(Current))) \o Tail(stack)

\* Mutant: what the previous node provides is not required.
Link_Loose ==
    /\ Linking
    /\ stack' = Return
    /\ phase' = IF stack' = <<>> THEN "running" ELSE phase
    /\ UNCHANGED <<drawing, tasks, requires, flow>>

\* Mutant: prevEdge stays where it is.
Link_SameEdge ==
    /\ Linking
    /\ stack' = IF Out(Current) = <<>> THEN Tail(stack)
                ELSE Call(Head(stack).edge) \o Tail(stack)
    /\ phase' = IF stack' = <<>> THEN "running" ELSE phase
    /\ UNCHANGED <<drawing, tasks, requires, flow>>

\* Mutant: the end of a false branch ends the whole compilation.
Link_StopsEarly ==
    /\ Linking
    /\ LET prev == Head(stack).edge IN
       requires' = IF prev.source = Trigger THEN requires
                   ELSE [requires EXCEPT ![TaskOf(Current)] = @ \cup {Provided(prev)}]
    /\ stack' = Return
    /\ phase' = IF Out(Current) = <<>> THEN "running" ELSE phase
    /\ UNCHANGED <<drawing, tasks, flow>>

\* The task of the current node requires what the previous one provides, unless it
\* is the trigger; then prevEdge moves on, along the first edge, or the call ends.
Link ==
    /\ Linking
    /\ LET prev == Head(stack).edge IN
       requires' = IF prev.source = Trigger THEN requires
                   ELSE [requires EXCEPT ![TaskOf(Current)] = @ \cup {Provided(prev)}]
    /\ stack' = Return
    /\ phase' = IF stack' = <<>> THEN "running" ELSE phase
    /\ UNCHANGED <<drawing, tasks, flow>>

-----------------------------------------------------------------------------
(* One run of the tasks.  The resolvers catch every error of their request,*)
(* so that a task always ends.                                             *)

Start(t) ==
    /\ phase = "running"
    /\ t \in tasks \ started
    /\ requires[t] \subseteq values
    /\ started' = started \cup {t}
    /\ UNCHANGED <<drawing, compiler, finished, values>>

\* A delay provides itself, a reading what it read (or 'error'), a comparison the
\* branch that is taken, a command nothing.
Provides(t) ==
    IF t \in Condition THEN {{Result(t, h)} : h \in Handle}
    ELSE IF t \in Node /\ KindOf(t) = "power" THEN {{}}
    ELSE {{Result(t, None)}}

Finish(t) ==
    /\ t \in started \ finished
    /\ finished' = finished \cup {t}
    /\ \E new \in Provides(t) : values' = values \cup new
    /\ UNCHANGED <<drawing, compiler, started>>

-----------------------------------------------------------------------------
Compile == MakeTask \/ MakeCondition \/ Throw \/ Link

Next == \/ Compile
        \/ \E t \in TaskName : Start(t) \/ Finish(t)

Spec == Init /\ [][Next]_vars

(* The compiler is a loop without awaits; flowed starts what is ready, and *)
(* requests and timers end.                                                *)
FairSpec == Spec /\ WF_vars(Compile) /\ \A t \in TaskName : WF_vars(Start(t)) /\ WF_vars(Finish(t))

-----------------------------------------------------------------------------
(* Properties.                                                             *)

TypeOK == /\ phase \in {"compiling", "running", "threw"}
          /\ \A i \in 1..Len(stack) : stack[i] \in Frame
          /\ tasks \subseteq TaskName
          /\ requires \in [TaskName -> SUBSET Value]
          /\ finished \subseteq started /\ started \subseteq tasks
          /\ values \subseteq Value
          /\ phase = "running" => stack = <<>>

\* No comparison decides two "if" nodes.
OwnConditions ==
    \A m, n \in Node : m # n /\ KindOf(m) = "if" /\ KindOf(n) = "if" /\ Cond(m) # None
                         => Cond(m) # Cond(n)

Began(n) == TaskOf(n) \in started

\* The drawing lets a node run: the trigger, or a node that ran, leads to it, by
\* the branch that was taken if it is an "if".
Reached(n) ==
    \E e \in Edges : e.target = n /\ (e.source = Trigger \/ Provided(e) \in values)

\* Nothing runs that the drawing does not reach, and nothing before the node in
\* front of it (workflows.service.ts:190-222, resolvers.ts:43-47), unless two "if"
\* nodes share a comparison.
NothingElseRuns == OwnConditions => \A n \in Node : Began(n) => Reached(n)

\* The drawings that are compiled completely: nodes that are followed by one node,
\* or by one node per branch, the true one drawn first if there is one; no node with
\* two predecessors, and nothing behind a command (workflows.service.ts:129, 181-184).
WellDrawn ==
    /\ OwnConditions
    /\ Len(Out(Trigger)) = 1
    /\ \A n \in Node : CASE KindOf(n) = "power" -> Out(n) = <<>>
                         [] KindOf(n) = "delay" -> Len(Out(n)) <= 1
                         [] KindOf(n) = "if" ->
                              \/ Len(Out(n)) <= 1
                              \/ /\ Len(Out(n)) = 2 /\ Out(n)[1].handle = "true"
                                 /\ Out(n)[2].handle = "false"
    /\ \A e, f \in Edges : e.target = f.target => e = f

Quiet == /\ phase = "running" /\ finished = started
         /\ \A t \in tasks \ started : ~(requires[t] \subseteq values)

\* When a run of a well-drawn workflow comes to rest, everything that the drawing
\* reaches has run, whatever the comparisons said.
EverythingReachedRuns == Quiet /\ WellDrawn => \A n \in Node : Reached(n) => Began(n)

\* The compiler comes to an end on a drawing without cycles: it follows every edge
\* forward (workflows.service.ts:127-226).
Acyclic == \E rank \in [Node -> 1..MaxDepth] :
               \A e \in Edges : e.source # Trigger => rank[e.source] < rank[e.target]

CompilerEnds == Acyclic => <>(phase # "compiling")
==============================================================================
