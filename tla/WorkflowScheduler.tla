-------------------------- MODULE WorkflowScheduler --------------------------
(***************************************************************************)
(* How the workflows service keeps its cron jobs in step with the          *)
(* workflows collection (workflows.service.ts:39-115, 265-285 and          *)
(* workflows.controller.ts).                                               *)
(*                                                                         *)
(* main.ts creates the module twice, as an application context and as a    *)
(* microservice, and closes neither: onModuleInit schedules every workflow *)
(* in the registry of each context, but messages are consumed by the first *)
(* only.  An update goes to the database first; the handler reconciles its *)
(* registry when the reply arrives, and replies of concurrent calls arrive *)
(* in any order.  A handler that throws puts its message back; the queues  *)
(* disappear with the process.                                             *)
(***************************************************************************)
EXTENDS Naturals, FiniteSets

CONSTANTS Workflow,         \* workflows; a name is used for one only
          Call,             \* calls of the service
          Graph,            \* graphs that compile and have a valid trigger
          Empty,            \* no nodes, as after creation
          Bad,              \* nodes, but no edge of a trigger or no valid cron
          Prefetch,         \* deliveries of one consumer not yet acknowledged
          Absent,           \* no document
          Keep              \* a field that an update does not carry

Stored == Graph \cup {Empty, Bad}

Document == [graph : Stored, pause : BOOLEAN]

Doc == Document \cup {Absent}

ASSUME ConstantsAssumption ==
    /\ Empty \notin Graph /\ Bad \notin Graph \cup {Empty}
    /\ Absent \notin Document /\ Absent \notin Graph
    /\ Keep \notin Stored \cup BOOLEAN

ASSUME PrefetchAssumption == Prefetch \in Nat \ {0}

Request == [op : {"create", "remove"}, w : Workflow]
             \cup [op : {"update"}, w : Workflow,
                   graph : Stored \cup {Keep}, pause : BOOLEAN \cup {Keep}]

\* applied: the database has answered, the handler is not resumed yet.
CallPhase == {"unsent", "queued", "applied", "answered", "lost"}

Context == {"app", "svc"}   \* appContext consumes, the microservice does not

VARIABLES server,           \* "down", "half" (only appContext is up) or "full"
          db,               \* document of each workflow
          born,             \* workflows created so far
          job,              \* job[x][w]: graph of the cron job, or Absent
          request, phase,   \* content and phase of each call
          snapshot,         \* document in the database's answer to the call
          latest,           \* history: call that changed the document last
          settled           \* history: its handler was also the last to resume

calls == <<request, phase, snapshot>>
history == <<latest, settled>>
vars == <<server, db, born, job, calls, history>>

up == server # "down"

\* Mutant: documents without nodes are scheduled, too.
Wanted_Unfiltered(doc) == IF doc # Absent /\ ~doc.pause THEN doc.graph ELSE Absent

\* The job that runWorkflow and runWorkflows make of a document.
Wanted(doc) == IF doc # Absent /\ ~doc.pause /\ doc.graph \in Graph
               THEN doc.graph ELSE Absent

NoJobs == [w \in Workflow |-> Absent]

Init == /\ server = "down"
        /\ db = [w \in Workflow |-> Absent] /\ born = {}
        /\ job = [x \in Context |-> NoJobs]
        /\ request = [k \in Call |-> Absent]
        /\ phase = [k \in Call |-> "unsent"]
        /\ snapshot = [k \in Call |-> Absent]
        /\ latest = [w \in Workflow |-> Absent]
        /\ settled = [w \in Workflow |-> TRUE]

-----------------------------------------------------------------------------
(* Calls of the gateway.  Without the process there is no queue.           *)

SendCall(k, q) ==
    /\ phase[k] = "unsent"
    /\ request' = [request EXCEPT ![k] = q]
    /\ phase' = [phase EXCEPT ![k] = IF up THEN "queued" ELSE "lost"]
    /\ UNCHANGED <<server, db, born, job, snapshot, history>>

Queued(k, op) == phase[k] = "queued" /\ request[k].op = op

Exists(k) == db[request[k].w] # Absent

CreateWorkflow(k) ==
    /\ Queued(k, "create")
    /\ LET w == request[k].w IN
       /\ w \notin born
       /\ born' = born \cup {w}
       /\ db' = [db EXCEPT ![w] = [graph |-> Empty, pause |-> FALSE]]
    /\ phase' = [phase EXCEPT ![k] = "answered"]
    /\ UNCHANGED <<server, job, request, snapshot, history>>

\* The name is taken (unique index): requeued.
ThrowDuplicateName(k) ==
    /\ Queued(k, "create") /\ Exists(k)
    /\ UNCHANGED vars

\* updateById or removeById returns null and the handler reads its name: requeued.
\* A call with an id or a field that mongoose cannot cast is requeued like one whose
\* workflow is missing, and stands here as one of those.
ThrowMissingWorkflow(k) ==
    /\ Queued(k, "update") \/ Queued(k, "remove")
    /\ ~Exists(k)
    /\ UNCHANGED vars

-----------------------------------------------------------------------------
(* updateWorkflow: the database, then the registry.                        *)

Changed(old, new) == IF new = Keep THEN old ELSE new

Updated(doc, q) == [graph |-> Changed(doc.graph, q.graph),
                    pause |-> Changed(doc.pause, q.pause)]

\* runWorkflow does not throw on it, or is not called.
Runnable(doc) == doc.pause \/ doc.graph \in Graph

ApplyUpdate(k) ==
    /\ Queued(k, "update") /\ Exists(k)
    /\ LET w == request[k].w
           doc == Updated(db[w], request[k]) IN
       /\ db' = [db EXCEPT ![w] = doc]
       /\ snapshot' = [snapshot EXCEPT ![k] = doc]
       /\ latest' = [latest EXCEPT ![w] = k]
       /\ settled' = [settled EXCEPT ![w] = FALSE]
    /\ phase' = [phase EXCEPT ![k] = "applied"]
    /\ UNCHANGED <<server, born, job, request>>

\* Mutant: a paused workflow keeps its job.
Reschedule_KeepsPaused(k) ==
    /\ phase[k] = "applied" /\ request[k].op = "update"
    /\ LET w == request[k].w
           doc == snapshot[k] IN
       /\ job' = IF doc.pause THEN job ELSE [job EXCEPT !["app"][w] = Wanted(doc)]
       /\ settled' = [settled EXCEPT ![w] = latest[w] = k]
       /\ phase' = [phase EXCEPT ![k] = IF Runnable(doc) THEN "answered" ELSE "queued"]
    /\ UNCHANGED <<server, db, born, request, snapshot, latest>>

\* Mutant: deleteCronJob without cronJobExist throws when there is no job.
Reschedule_DeletesBlindly(k) ==
    /\ phase[k] = "applied" /\ request[k].op = "update"
    /\ LET w == request[k].w
           found == job["app"][w] # Absent IN
       /\ job' = IF found THEN [job EXCEPT !["app"][w] = Wanted(snapshot[k])] ELSE job
       /\ settled' = [settled EXCEPT ![w] = latest[w] = k]
       /\ phase' = [phase EXCEPT ![k] = IF found /\ Runnable(snapshot[k])
                                        THEN "answered" ELSE "queued"]
    /\ UNCHANGED <<server, db, born, request, snapshot, latest>>

\* deleteCronJob, then runWorkflow unless paused, in one go.  A document that
\* does not compile loses its job and has its call requeued.
Reschedule(k) ==
    /\ phase[k] = "applied" /\ request[k].op = "update"
    /\ LET w == request[k].w
           doc == snapshot[k] IN
       /\ job' = [job EXCEPT !["app"][w] = Wanted(doc)]
       /\ settled' = [settled EXCEPT ![w] = latest[w] = k]
       /\ phase' = [phase EXCEPT ![k] = IF Runnable(doc)
                                        THEN "answered" ELSE "queued"]
    /\ UNCHANGED <<server, db, born, request, snapshot, latest>>

-----------------------------------------------------------------------------
(* removeWorkflow: the database, then the registry.                        *)

ApplyRemove(k) ==
    /\ Queued(k, "remove") /\ Exists(k)
    /\ LET w == request[k].w IN
       /\ db' = [db EXCEPT ![w] = Absent]
       /\ latest' = [latest EXCEPT ![w] = k]
       /\ settled' = [settled EXCEPT ![w] = FALSE]
    /\ phase' = [phase EXCEPT ![k] = "applied"]
    /\ UNCHANGED <<server, born, job, request, snapshot>>

Unschedule(k) ==
    /\ phase[k] = "applied" /\ request[k].op = "remove"
    /\ LET w == request[k].w IN
       /\ job' = [job EXCEPT !["app"][w] = Absent]
       /\ settled' = [settled EXCEPT ![w] = latest[w] = k]
    /\ phase' = [phase EXCEPT ![k] = "answered"]
    /\ UNCHANGED <<server, db, born, request, snapshot, latest>>

-----------------------------------------------------------------------------
(* runWorkflows, in onModuleInit of each context.  A stored graph that does *)
(* not compile makes it throw, which ends the process.                     *)

Unbootable == \E w \in Workflow : /\ db[w] # Absent
                                  /\ ~db[w].pause /\ db[w].graph = Bad

AllWanted == [w \in Workflow |-> Wanted(db[w])]

BootApp ==
    /\ server = "down" /\ ~Unbootable
    /\ server' = "half"
    /\ job' = [job EXCEPT !["app"] = AllWanted]
    /\ settled' = [w \in Workflow |-> TRUE]
    /\ UNCHANGED <<db, born, calls, latest>>

BootAppFails == server = "down" /\ Unbootable /\ UNCHANGED vars

\* Mutant: both contexts share a registry, which refuses a name it has.
BootService_SharedRegistry ==
    /\ server = "half" /\ ~Unbootable
    /\ \A w \in Workflow : AllWanted[w] = Absent \/ job["app"][w] = Absent
    /\ server' = "full"
    /\ job' = [job EXCEPT !["svc"] = AllWanted]
    /\ UNCHANGED <<db, born, calls, history>>

BootService ==
    /\ server = "half" /\ ~Unbootable
    /\ server' = "full"
    /\ job' = [job EXCEPT !["svc"] = AllWanted]
    /\ UNCHANGED <<db, born, calls, history>>

Stop == /\ server' = "down"
        /\ job' = [x \in Context |-> NoJobs]
        /\ phase' = [k \in Call |-> IF phase[k] \in {"queued", "applied"}
                                    THEN "lost" ELSE phase[k]]
        /\ UNCHANGED <<db, born, request, snapshot, history>>

BootServiceFails == server = "half" /\ Unbootable /\ Stop

Crash == up /\ Stop

-----------------------------------------------------------------------------
CallStep(k) == \/ \E q \in Request : SendCall(k, q)
               \/ CreateWorkflow(k) \/ ThrowDuplicateName(k) \/ ThrowMissingWorkflow(k)
               \/ ApplyUpdate(k) \/ Reschedule(k)
               \/ ApplyRemove(k) \/ Unschedule(k)

Boot == BootApp \/ BootAppFails \/ BootService \/ BootServiceFails

Next == (\E k \in Call : CallStep(k)) \/ Boot \/ Crash

Spec == Init /\ [][Next]_vars

\* It throws each time it is delivered.
Hopeless(k) == \/ request[k].op = "create" /\ request[k].w \in born
               \/ request[k].op # "create" /\ ~Exists(k)
               \/ request[k].op = "update" /\ Exists(k)
                     /\ ~Runnable(Updated(db[request[k].w], request[k]))

Stuck(k) == phase[k] = "queued" /\ Hopeless(k)

\* Updates and removals share a queue.
Beside(k) == {j \in Call \ {k} : /\ phase[j] \in {"queued", "applied"} /\ Hopeless(j)
                                 /\ request[j].op = "create" <=> request[k].op = "create"}

\* What is requeued goes back to its old place: Prefetch calls that throw each time
\* can take all deliveries.
Held(k) == phase[k] = "queued" /\ Cardinality(Beside(k)) >= Prefetch

(* Messages are delivered, unless they are held, the database answers, and *)
(* whoever supervises the process starts it again.                         *)
Fairness == /\ \A k \in Call : /\ WF_vars(~Held(k) /\ CreateWorkflow(k))
                               /\ WF_vars(~Held(k) /\ ApplyUpdate(k)) /\ WF_vars(Reschedule(k))
                               /\ WF_vars(~Held(k) /\ ApplyRemove(k)) /\ WF_vars(Unschedule(k))
            /\ WF_vars(Boot)

FairSpec == Spec /\ Fairness

-----------------------------------------------------------------------------
(* Properties.                                                             *)

TypeOK == /\ server \in {"down", "half", "full"}
          /\ db \in [Workflow -> Doc] /\ born \subseteq Workflow
          /\ job \in [Context -> [Workflow -> Graph \cup {Absent}]]
          /\ request \in [Call -> Request \cup {Absent}]
          /\ \A k \in Call : phase[k] # "unsent" => request[k] \in Request
          /\ phase \in [Call -> CallPhase]
          /\ snapshot \in [Call -> Doc]
          /\ latest \in [Workflow -> Call \cup {Absent}]
          /\ settled \in [Workflow -> BOOLEAN]

\* The consuming context runs exactly the workflows of the database, each with
\* its stored graph, whenever the call that changed the document last was also
\* the last one to reconcile the registry (workflows.service.ts:55-74): calls
\* whose database replies overtake each other are the only way to a stale job.
JobFollowsStore ==
    up => \A w \in Workflow : settled[w] => job["app"][w] = Wanted(db[w])

\* A removed workflow has no job in the process once its removal was answered and
\* no other call on it is open (workflows.service.ts:66-74); this needs one context
\* only, as in auth/src/main.ts:23 and users/src/main.ts:23, which close the other.
Open(w) == \E k \in Call : phase[k] \in {"queued", "applied"} /\ request[k].w = w

RemovedStops ==
    \A w \in born : db[w] = Absent /\ settled[w] /\ ~Open(w)
                       => \A x \in Context : job[x][w] = Absent

\* Once the service stays up every call is answered, unless its workflow is
\* missing (or, for a creation, taken) or the update would leave it running with
\* a graph that does not compile: then the call is requeued for ever.  It may also
\* wait while Prefetch of those take all deliveries.
CallsAnswered ==
    <>[]up => \A k \in Call :
        phase[k] = "queued" ~> phase[k] \in {"answered", "lost"} \/ Stuck(k) \/ Held(k)

\* Unless a running workflow is stored with a graph that does not compile, which
\* no call can repair while the process is down, the service comes up completely.
ComesUp == <>[](~Unbootable) /\ <>[][~Crash]_vars => <>[](server = "full")
==============================================================================
