----------------------------- MODULE DeviceBoard -----------------------------
(***************************************************************************)
(* What the devices collection promises about the state of the devices: a  *)
(* board with one field per device and element.  A write puts the value of *)
(* one message into one field and touches no other, and only the removal   *)
(* of a device empties its fields.  DeviceState implements it.             *)
(***************************************************************************)
CONSTANTS Device, Field, Value, Blank

VARIABLE board

Empty == [f \in Field |-> Blank]

Init == board = [d \in Device |-> Empty]

Put(d, f, v) == board' = [board EXCEPT ![d][f] = v]

Forget(d) == board' = [board EXCEPT ![d] = Empty]

Next == \E d \in Device : \/ \E f \in Field, v \in Value : Put(d, f, v)
                          \/ Forget(d)

Spec == Init /\ [][Next]_board
==============================================================================
