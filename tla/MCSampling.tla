------------------------------ MODULE MCSampling ------------------------------
(* An instance of Sampling for TLC.                                        *)
EXTENDS Sampling

CONSTANTS p1, p2, n1, n2, g1, g2, k1, k2, k3

(* Numbers and intervals are alike, and TLC reduces by no symmetry where   *)
(* liveness is checked: the second reading of a sensor, the second without *)
(* values and the second call are not sent before the first, and all       *)
(* sensors start with p1 and named for what they are.                       *)
Sent(d, n) == phase[[dev |-> d, nr |-> n]] # "unsent"

InOrder ==
    /\ \A d \in Device : (Sent(d, n2) => Sent(d, n1)) /\ (Sent(d, g2) => Sent(d, g1))
    /\ step[k1] = "unsent" => step[k2] = "unsent"

(* Two readings and a call, one reading and two calls, and so on: four     *)
(* together are more states than liveness can be checked on.  Readings     *)
(* without values come alone or before one that has them.                  *)
AtMostThree ==
    /\ Cardinality({r \in Reading : phase[r] # "unsent"})
         + Cardinality({k \in Call : step[k] # "unsent"}) <= 3
    /\ (\E d \in Device : Sent(d, g1)) =>
          /\ \A d \in Device : ~Sent(d, n2)
          /\ \A k \in Call : step[k] = "unsent"

(* An update that names a device changes nothing else, one that cannot be   *)
(* cast has the interval p2, and the third call comes behind two of those. *)
Plain(k) == Is(k, "update") =>
    /\ request[k].castable /\ request[k].names = "none"
    /\ request[k].period = NoPeriod => request[k].pin

Renaming(k, names) == Is(k, "update") /\
    request[k] = [op |-> "update", dev |-> request[k].dev, period |-> NoPeriod,
                  pin |-> FALSE, names |-> names, castable |-> TRUE]

Uncastable(k) == Is(k, "update") /\ ~request[k].castable
                   /\ request[k].period = p2 /\ request[k].names = "none"

Requested ==
    /\ Plain(k1) \/ Renaming(k1, "other") \/ Uncastable(k1)
    /\ Plain(k2) \/ Renaming(k2, "sensor") \/ (Uncastable(k1) /\ Uncastable(k2))
    /\ Plain(k3)
    /\ step[k3] # "unsent" => Uncastable(k1) /\ Uncastable(k2)

(* Implied by Fairness, and enough here, where two readings never compete  *)
(* for the last slot: a delivery is then enabled as long as the reading    *)
(* waits, and TLC pays dearly for strong fairness.                         *)
MCFairness ==
    /\ \A r \in Reading : /\ WF_vars(~Clogged /\ (StartSample(r) \/ SkipSample(r)))
                          /\ r.nr \notin Garbled => SF_vars(InsertRow(r) \/ FinishSample(r))
    /\ \A k \in Call : CallFairness(k)
    /\ WF_vars(Boot)

MCSpec == /\ Init /\ dbPeriod = [d \in Device |-> p1] /\ vended = Device
          /\ [][Next /\ InOrder' /\ AtMostThree' /\ Requested']_vars
          /\ MCFairness
==============================================================================
