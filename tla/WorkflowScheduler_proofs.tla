------------------------ MODULE WorkflowScheduler_proofs ------------------------
(***************************************************************************)
(* Proofs about WorkflowScheduler, for any sets of workflows, calls and    *)
(* graphs.                                                                 *)
(***************************************************************************)
EXTENDS WorkflowScheduler, TLAPS

-----------------------------------------------------------------------------
(* The inductive invariant.  When a handler resumes it writes the registry *)
(* from the document it was given, not from the database.  That this is    *)
(* what the database holds if no call changed the document in between is   *)
(* SnapshotCurrent; that a creation is no such change rests on the other   *)
(* two parts.                                                              *)

\* Only a workflow that was created has a document.
BornBefore == \A w \in Workflow : db[w] # Absent => w \in born

\* A call between database and registry is about a workflow that was created,
\* and the process it runs in is up.
AppliedIsBorn ==
    \A k \in Call : phase[k] = "applied" =>
        /\ request[k].op \in {"update", "remove"}
        /\ request[k].w \in born
        /\ request[k].op = "update" => snapshot[k] # Absent

\* The call that changed a document last was given what the database holds.
SnapshotCurrent ==
    \A k \in Call : phase[k] = "applied" /\ latest[request[k].w] = k =>
        db[request[k].w] = IF request[k].op = "update" THEN snapshot[k] ELSE Absent

IInv == /\ TypeOK
        /\ BornBefore
        /\ AppliedIsBorn
        /\ SnapshotCurrent
        /\ JobFollowsStore

-----------------------------------------------------------------------------
(* Lemmas about the operators.                                             *)

\* The null document is not a record.
LEMMA DocNotAbsent ==
  ASSUME NEW g \in Stored, NEW p \in BOOLEAN
  PROVE  [graph |-> g, pause |-> p] # Absent
  BY ConstantsAssumption DEF Document

LEMMA RequestType ==
  ASSUME NEW q \in Request
  PROVE  /\ q.w \in Workflow
         /\ q.op = "update" => /\ q.graph \in Stored \cup {Keep}
                              /\ q.pause \in BOOLEAN \cup {Keep}
  BY DEF Request

\* An update turns a document into a document.
LEMMA UpdatedType ==
  ASSUME NEW doc \in Doc, doc # Absent, NEW q \in Request, q.op = "update"
  PROVE  Updated(doc, q) \in Doc \ {Absent}
  <1>1. doc.graph \in Stored /\ doc.pause \in BOOLEAN
    BY DEF Doc, Document
  <1>2. Changed(doc.graph, q.graph) \in Stored
    BY <1>1, RequestType, ConstantsAssumption DEF Changed
  <1>3. Changed(doc.pause, q.pause) \in BOOLEAN
    BY <1>1, RequestType, ConstantsAssumption DEF Changed
  <1>4. Updated(doc, q) \in Doc
    BY <1>2, <1>3 DEF Updated, Doc, Document
  <1>5. Updated(doc, q) # Absent
    BY <1>2, <1>3, DocNotAbsent DEF Updated
  <1>6. QED
    BY <1>4, <1>5

\* A registry holds graphs that compile or nothing.
LEMMA WantedType == ASSUME NEW doc PROVE Wanted(doc) \in Graph \cup {Absent}
  BY DEF Wanted

\* A new workflow wants no job.
LEMMA NewWantsNothing == Wanted([graph |-> Empty, pause |-> FALSE]) = Wanted(Absent)
  BY ConstantsAssumption DEF Wanted

-----------------------------------------------------------------------------
(* The initial states, and one lemma per action.                           *)

LEMMA InitIInv == Init => IInv
  BY DEF Init, IInv, TypeOK, BornBefore, AppliedIsBorn, SnapshotCurrent, JobFollowsStore, up,
     CallPhase, Doc, NoJobs, Context

LEMMA SendCallStep ==
  ASSUME IInv, NEW k \in Call, NEW q \in Request, SendCall(k, q)
  PROVE  IInv'
  <1> USE RequestType DEF IInv, calls, history, SendCall
  <1>1. TypeOK'
    BY DEF TypeOK, CallPhase
  <1>2. BornBefore'
    BY DEF TypeOK, BornBefore
  <1>3. AppliedIsBorn'
    BY DEF TypeOK, AppliedIsBorn, BornBefore
  <1>4. SnapshotCurrent'
    BY DEF TypeOK, SnapshotCurrent, AppliedIsBorn
  <1>5. JobFollowsStore'
    BY DEF TypeOK, JobFollowsStore, up
  <1>q. QED
    BY <1>1, <1>2, <1>3, <1>4, <1>5

LEMMA CreateStep ==
  ASSUME IInv, NEW k \in Call, CreateWorkflow(k)
  PROVE  IInv'
  <1> USE RequestType DEF IInv, calls, history, CreateWorkflow, Queued
  <1>a. request[k].w \in Workflow
    BY DEF TypeOK
  <1>b. [graph |-> Empty, pause |-> FALSE] \in Doc
    BY DEF Doc, Document, Stored
  <1>1. TypeOK'
    BY <1>a, <1>b DEF TypeOK, CallPhase
  <1>2. BornBefore'
    BY <1>a DEF TypeOK, BornBefore
  <1>3. AppliedIsBorn'
    BY <1>a DEF TypeOK, AppliedIsBorn, BornBefore
  <1>4. SnapshotCurrent'
    BY <1>a DEF TypeOK, SnapshotCurrent, AppliedIsBorn
  <1>5. JobFollowsStore'
    BY <1>a, NewWantsNothing DEF TypeOK, JobFollowsStore, up, BornBefore
  <1>q. QED
    BY <1>1, <1>2, <1>3, <1>4, <1>5

LEMMA ApplyUpdateStep ==
  ASSUME IInv, NEW k \in Call, ApplyUpdate(k)
  PROVE  IInv'
  <1> USE RequestType DEF IInv, calls, history, ApplyUpdate, Queued, Exists
  <1>a. request[k].w \in Workflow /\ request[k] \in Request
    BY DEF TypeOK
  <1>b. Updated(db[request[k].w], request[k]) \in Doc \ {Absent}
    BY <1>a, UpdatedType DEF TypeOK
  <1>1. TypeOK'
    BY <1>a, <1>b DEF TypeOK, CallPhase
  <1>2. BornBefore'
    BY <1>a, <1>b DEF TypeOK, BornBefore
  <1>3. AppliedIsBorn'
    BY <1>a, <1>b DEF TypeOK, AppliedIsBorn, BornBefore
  <1>4. SnapshotCurrent'
    BY <1>a, <1>b DEF TypeOK, SnapshotCurrent, AppliedIsBorn
  <1>5. JobFollowsStore'
    BY <1>a, <1>b DEF TypeOK, JobFollowsStore, up
  <1>q. QED
    BY <1>1, <1>2, <1>3, <1>4, <1>5

LEMMA RescheduleStep ==
  ASSUME IInv, NEW k \in Call, Reschedule(k)
  PROVE  IInv'
  <1> USE RequestType DEF IInv, calls, history, Reschedule
  <1>a. request[k].w \in Workflow /\ "app" \in Context
    BY DEF TypeOK, Context
  <1>1. TypeOK'
    BY <1>a, WantedType DEF TypeOK, CallPhase
  <1>2. BornBefore'
    BY DEF TypeOK, BornBefore
  <1>3. AppliedIsBorn'
    BY DEF TypeOK, AppliedIsBorn, BornBefore
  <1>4. SnapshotCurrent'
    BY DEF TypeOK, SnapshotCurrent, AppliedIsBorn
  <1>5. JobFollowsStore'
    BY <1>a DEF TypeOK, JobFollowsStore, up, SnapshotCurrent
  <1>q. QED
    BY <1>1, <1>2, <1>3, <1>4, <1>5

LEMMA ApplyRemoveStep ==
  ASSUME IInv, NEW k \in Call, ApplyRemove(k)
  PROVE  IInv'
  <1> USE RequestType DEF IInv, calls, history, ApplyRemove, Queued, Exists
  <1>a. request[k].w \in Workflow
    BY DEF TypeOK
  <1>1. TypeOK'
    BY <1>a DEF TypeOK, CallPhase, Doc
  <1>2. BornBefore'
    BY <1>a DEF TypeOK, BornBefore
  <1>3. AppliedIsBorn'
    BY <1>a DEF TypeOK, AppliedIsBorn, BornBefore
  <1>4. SnapshotCurrent'
    BY <1>a DEF TypeOK, SnapshotCurrent, AppliedIsBorn
  <1>5. JobFollowsStore'
    BY <1>a DEF TypeOK, JobFollowsStore, up
  <1>q. QED
    BY <1>1, <1>2, <1>3, <1>4, <1>5

LEMMA UnscheduleStep ==
  ASSUME IInv, NEW k \in Call, Unschedule(k)
  PROVE  IInv'
  <1> USE RequestType DEF IInv, calls, history, Unschedule
  <1>a. request[k].w \in Workflow /\ "app" \in Context
    BY DEF TypeOK, Context
  <1>1. TypeOK'
    BY <1>a DEF TypeOK, CallPhase
  <1>2. BornBefore'
    BY DEF TypeOK, BornBefore
  <1>3. AppliedIsBorn'
    BY DEF TypeOK, AppliedIsBorn, BornBefore
  <1>4. SnapshotCurrent'
    BY DEF TypeOK, SnapshotCurrent, AppliedIsBorn
  <1>5. JobFollowsStore'
    BY <1>a DEF TypeOK, JobFollowsStore, up, SnapshotCurrent, Wanted
  <1>q. QED
    BY <1>1, <1>2, <1>3, <1>4, <1>5

LEMMA BootAppStep ==
  ASSUME IInv, BootApp
  PROVE  IInv'
  <1> USE RequestType DEF IInv, calls, history, BootApp, AllWanted
  <1>1. TypeOK'
    BY WantedType DEF TypeOK, CallPhase, Context
  <1>2. BornBefore'
    BY DEF TypeOK, BornBefore
  <1>3. AppliedIsBorn'
    BY DEF TypeOK, AppliedIsBorn, BornBefore
  <1>4. SnapshotCurrent'
    BY DEF TypeOK, SnapshotCurrent, AppliedIsBorn
  <1>5. JobFollowsStore'
    BY WantedType DEF TypeOK, JobFollowsStore, up, Context
  <1>q. QED
    BY <1>1, <1>2, <1>3, <1>4, <1>5

LEMMA BootServiceStep ==
  ASSUME IInv, BootService
  PROVE  IInv'
  <1> USE RequestType DEF IInv, calls, history, BootService, AllWanted
  <1>1. TypeOK'
    BY WantedType DEF TypeOK, CallPhase, Context
  <1>2. BornBefore'
    BY DEF TypeOK, BornBefore
  <1>3. AppliedIsBorn'
    BY DEF TypeOK, AppliedIsBorn, BornBefore
  <1>4. SnapshotCurrent'
    BY DEF TypeOK, SnapshotCurrent, AppliedIsBorn
  <1>5. JobFollowsStore'
    BY DEF TypeOK, JobFollowsStore, up, Context
  <1>q. QED
    BY <1>1, <1>2, <1>3, <1>4, <1>5

LEMMA StopStep ==
  ASSUME IInv, Stop
  PROVE  IInv'
  <1> USE RequestType DEF IInv, calls, history, Stop, NoJobs
  <1>1. TypeOK'
    BY DEF TypeOK, CallPhase, Context
  <1>2. BornBefore'
    BY DEF TypeOK, BornBefore
  <1>3. AppliedIsBorn'
    BY DEF TypeOK, AppliedIsBorn, BornBefore
  <1>4. SnapshotCurrent'
    BY DEF TypeOK, SnapshotCurrent, AppliedIsBorn
  <1>5. JobFollowsStore'
    BY DEF TypeOK, JobFollowsStore, up
  <1>q. QED
    BY <1>1, <1>2, <1>3, <1>4, <1>5

-----------------------------------------------------------------------------
(* IInv is inductive.                                                      *)

LEMMA StutterIInv == IInv /\ UNCHANGED vars => IInv'
  BY DEF vars, calls, history, IInv, TypeOK, BornBefore, AppliedIsBorn, SnapshotCurrent,
     JobFollowsStore, up

LEMMA NextIInv == IInv /\ [Next]_vars => IInv'
  <1> SUFFICES ASSUME IInv, [Next]_vars PROVE IInv'
    OBVIOUS
  <1>1. ASSUME NEW k \in Call, CallStep(k) PROVE IInv'
    BY <1>1, SendCallStep, CreateStep, ApplyUpdateStep, RescheduleStep, ApplyRemoveStep,
       UnscheduleStep, StutterIInv DEF CallStep, ThrowDuplicateName, ThrowMissingWorkflow
  <1>2. QED
    BY <1>1, BootAppStep, BootServiceStep, StopStep, StutterIInv
       DEF Next, Boot, BootAppFails, BootServiceFails, Crash

THEOREM Invariance == Spec => []IInv
  BY InitIInv, NextIInv, PTL DEF Spec

-----------------------------------------------------------------------------
(* The properties of the runs.                                             *)

\* Every variable keeps its type.
THEOREM TypeCorrect == Spec => []TypeOK
  BY Invariance, PTL DEF IInv

\* The consuming registry has a stale or missing job only after database replies
\* that overtook each other (workflows.service.ts:55-74).
THEOREM JobsAgree == Spec => []JobFollowsStore
  BY Invariance, PTL DEF IInv

-----------------------------------------------------------------------------
(* How far RemovedStops holds.                                             *)

\* A registry is empty until its context has been started, and nothing is being
\* handled while the process is down.
IdleUntilStarted ==
    /\ server = "down" => /\ job["app"] = NoJobs
                          /\ \A k \in Call : phase[k] \notin {"queued", "applied"}
    /\ server # "full" => job["svc"] = NoJobs

LEMMA IdleStep == IInv /\ IdleUntilStarted /\ [Next]_vars => IdleUntilStarted'
  <1> SUFFICES ASSUME IInv, IdleUntilStarted, [Next]_vars PROVE IdleUntilStarted'
    OBVIOUS
  <1> USE DEF IdleUntilStarted, NoJobs
  <1>0. /\ job \in [Context -> [Workflow -> Graph \cup {Absent}]] /\ {"app", "svc"} = Context
        /\ phase \in [Call -> CallPhase]
    BY DEF IInv, TypeOK, Context
  <1>1. ASSUME NEW k \in Call, CallStep(k) PROVE IdleUntilStarted'
    <2>1. CASE Reschedule(k) \/ Unschedule(k)
      <3>1. phase[k] = "applied" /\ server' = server /\ job'["svc"] = job["svc"]
        BY <1>0, <2>1 DEF Reschedule, Unschedule
      <3> QED BY <3>1
    <2>2. CASE \E q \in Request : SendCall(k, q)
      BY <1>0, <2>2 DEF SendCall, up
    <2>3. CASE CreateWorkflow(k) \/ ApplyUpdate(k) \/ ApplyRemove(k)
      <3>1. phase[k] = "queued" /\ server' = server /\ job' = job
        BY <2>3 DEF CreateWorkflow, ApplyUpdate, ApplyRemove, Queued
      <3> QED BY <3>1
    <2>4. CASE UNCHANGED vars
      BY <2>4 DEF vars, calls
    <2> QED BY <1>1, <2>1, <2>2, <2>3, <2>4
            DEF CallStep, ThrowDuplicateName, ThrowMissingWorkflow
  <1>2. CASE BootApp \/ BootService
    BY <1>0, <1>2 DEF BootApp, BootService, calls
  <1>3. CASE Stop
    BY <1>0, <1>3 DEF Stop
  <1>4. CASE UNCHANGED vars
    BY <1>4 DEF vars, calls
  <1> QED BY <1>1, <1>2, <1>3, <1>4 DEF Next, Boot, BootAppFails, BootServiceFails, Crash

\* The second context alone keeps the jobs of removed workflows: as long as it is not
\* up, a workflow whose removal is settled has no job anywhere
\* (workflows.service.ts:66-74, main.ts:6).
THEOREM RemovedStopsInFirst == Spec => [](server # "full" => RemovedStops)
  <1>1. Init => IdleUntilStarted
    BY DEF Init, IdleUntilStarted, Context
  <1>2. IInv /\ IdleUntilStarted => (server # "full" => RemovedStops)
    <2> SUFFICES ASSUME IInv, IdleUntilStarted, server # "full",
                        NEW w \in Workflow, db[w] = Absent, settled[w], NEW x \in Context
                 PROVE  job[x][w] = Absent
      BY DEF RemovedStops, IInv, TypeOK
    <2>1. CASE x = "svc" \/ server = "down"
      BY <2>1 DEF IdleUntilStarted, NoJobs, Context
    <2>2. CASE x = "app" /\ up
      BY <2>2 DEF IInv, JobFollowsStore, Wanted
    <2> QED BY <2>1, <2>2 DEF Context, up
  <1> QED BY <1>1, <1>2, IdleStep, Invariance, PTL DEF Spec
================================================================================
