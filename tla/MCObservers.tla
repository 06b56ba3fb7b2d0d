----------------------------- MODULE MCObservers -----------------------------
(***************************************************************************)
(* An instance of Observers for TLC.  Messages are alike, and TLC reduces  *)
(* by no symmetry where liveness is checked: m2 is not sent before m1, f2  *)
(* not before f1, and the stream s2 is not opened before s1.  Three        *)
(* messages are sent at most, so that f1 and f2, as many as the prefetch,  *)
(* are followed by one message, and they are watched by one stream only.   *)
(***************************************************************************)
EXTENDS Observers

CONSTANTS m1, m2, f1, f2, s1, s2

InOrder == /\ phase[m1] = "unsent" => phase[m2] = "unsent"
           /\ phase[f1] = "unsent" => phase[f2] = "unsent"
           /\ client[s1] = "new" => client[s2] = "new"
           /\ \E m \in {m2, f2} : phase[m] = "unsent"
           /\ phase[f2] # "unsent" => client[s2] = "new"

\* Implied by Fairness: a foreign message has two others beside it at most, and gets
\* the slot that one of them leaves.  TLC pays dearly for strong fairness.
MCFairness ==
    /\ WF_vars(Forward) /\ WF_vars(HandleAnnouncement)
    /\ \A m \in Foreign : WF_vars(Receive(m)) /\ WF_vars(SetStatusFails(m))
    /\ \A m \in Message \ Foreign :
          SF_vars(Receive(m)) /\ SF_vars(SetStatus(m)) /\ WF_vars(Report(m))
    /\ WF_vars(GatewayBoot) /\ WF_vars(DevicesBoot)

MCSpec == Init /\ [][Next /\ InOrder']_vars /\ MCFairness
==============================================================================
