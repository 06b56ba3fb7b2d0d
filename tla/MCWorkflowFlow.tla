--------------------------- MODULE MCWorkflowFlow ---------------------------
(***************************************************************************)
(* Instances of WorkflowFlow for TLC: every drawing of three nodes whose   *)
(* edges lead from a node to a later one, and every drawing of two nodes,  *)
(* cycles included, up to the names of the nodes.  A command or a delay is *)
(* followed by at most one node, an "if" by at most one per branch, drawn  *)
(* in either order; comparisons may be missing or shared.                  *)
(***************************************************************************)
EXTENDS WorkflowFlow, FiniteSets

Three == 1..3

Single(n, targets) ==
    {<<>>} \cup {<<[source |-> n, handle |-> None, target |-> t]>> : t \in targets}

Branches(n, targets) ==
    LET edge(h, t) == [source |-> n, handle |-> h, target |-> t] IN
    {<<>>} \cup {<<edge(h, t)>> : h \in Handle, t \in targets}
      \cup {<<edge(h, t), edge(i, u)>> : h \in Handle, i \in Handle, t \in targets, u \in targets}

DistinctHandles(s) == Len(s) = 2 => s[1].handle # s[2].handle

\* A node with its kind, its comparison and its edges.
Shape(n, targets) ==
    [kind : {"delay", "power"}, cond : {None}, out : Single(n, targets)]
      \cup [kind : {"if"}, cond : Condition \cup {None},
            out : {s \in Branches(n, targets) : DistinctHandles(s)}]

Draw(shape) ==
    [kind |-> [n \in Three |-> shape[n].kind],
     cond |-> [n \in Three |-> shape[n].cond],
     data |-> [c \in Condition |-> Data],
     out  |-> [n \in Three \cup {Trigger} |->
                 IF n = Trigger
                 THEN <<[source |-> Trigger, handle |-> None, target |-> 1]>>
                 ELSE shape[n].out]]

Idle == [kind |-> "power", cond |-> None, out |-> <<>>]

MCDrawing ==
    {Draw(<<s, t, u>>) : s \in Shape(1, {2, 3}), t \in Shape(2, {3}), u \in Shape(3, {})}
      \cup {Draw(<<s, t, Idle>>) : s \in Shape(1, {1, 2}), t \in Shape(2, {1, 2})}
==============================================================================
