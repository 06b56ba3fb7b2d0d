---------------------------- MODULE NewDeviceSpec ----------------------------
(***************************************************************************)
(* What the new-device wizard promises, without messages, memory or        *)
(* processes: a device that a user describes is offered, an explicit       *)
(* confirmation commits it, and the commit either stores it or falls back. *)
(* A stored device stays stored, a withdrawn one is never stored, and only *)
(* a commit stores anything.  NewDevice implements this specification.     *)
(***************************************************************************)
CONSTANT Client             \* one per run of the wizard

VARIABLE stage              \* stage[c]: how far the device of c has come

Stage == {"new", "offered", "committing", "stored", "withdrawn"}

Init == stage = [c \in Client |-> "new"]

Move(c, from, to) == /\ stage[c] = from
                     /\ stage' = [stage EXCEPT ![c] = to]

Offer(c) == Move(c, "new", "offered")

Commit(c) == Move(c, "offered", "committing")

Store(c) == Move(c, "committing", "stored")

\* A failed commit leaves the device offered, unless it was given up meanwhile.
FallBack(c) == Move(c, "committing", "offered") \/ Move(c, "committing", "withdrawn")

Withdraw(c) == Move(c, "offered", "withdrawn")

\* A crash withdraws every device that is not stored yet.
Crash == stage' = [c \in Client |-> IF stage[c] \in {"offered", "committing"}
                                    THEN "withdrawn" ELSE stage[c]]

Next == \/ \E c \in Client : \/ Offer(c) \/ Commit(c) \/ Store(c)
                             \/ FallBack(c) \/ Withdraw(c)
        \/ Crash

Spec == Init /\ [][Next]_stage
==============================================================================
