------------------------------ MODULE Observers ------------------------------
(***************************************************************************)
(* How a browser is told that a device comes and goes: the event streams   *)
(* of the gateway (EventsService, GET /devices/status), the list of        *)
(* observers that the devices service keeps (ObserversService), and        *)
(* devicesOnlineHandler, which reports to the gateway if the list is not   *)
(* empty.                                                                  *)
(*                                                                         *)
(* Both lists live in memory.  The gateway announces a stream with 'add'   *)
(* and takes it back with 'remove', on the queue devices-observer; reports *)
(* come back on the queue devices-observers and go to every stream.  Both  *)
(* queues are autoDelete: they disappear with their consumer, and what is  *)
(* sent without the queue is dropped.                                      *)
(*                                                                         *)
(* The messages are the LWT messages of one device, and those of devices   *)
(* whose topic is not the id of a document (Foreign).  They wait in the    *)
(* durable queue devices-online; a message that is requeued returns to its *)
(* old place there.                                                        *)
(***************************************************************************)
EXTENDS Naturals, Sequences, FiniteSets

CONSTANTS Stream,           \* requests of GET /devices/status: a fresh id each
          Message,          \* LWT messages
          Foreign,          \* the ones with a topic that is not an ObjectId
          Prefetch,         \* deliveries not yet acknowledged
          None

ASSUME ConstantsAssumption ==
    /\ Prefetch \in Nat \ {0} /\ None \notin Message /\ Foreign \subseteq Message

\* gone: the connection broke without the 'end' of its socket, or with the gateway.
ClientPhase == {"new", "open", "ended", "gone"}

\* writing: setDeviceStatus is on its way; written: the database has changed, the
\* handler is not resumed yet.
Phase == {"unsent", "queued", "writing", "written", "handled"}

Announcement == [pattern : {"add", "remove"}, stream : Stream]

VARIABLES gateway,          \* the gateway is running
          devices,          \* the devices service is running and consuming
          client,           \* phase of each stream, as its browser sees it
          events,           \* EventsService.events
          announced,        \* the queue devices-observer
          observers,        \* ObserversService.observers
          phase,            \* phase of each message
          ahead,            \* the messages that arrived before each message
          online,           \* the message that the stored status comes from
          reports,          \* the queue devices-observers
          shown,            \* the report each stream was given last
          cut,              \* history: streams hit by a restart, see ListsAgree
          told,             \* history: streams listed when a report was sent
          overtaken         \* history: see StreamsFollowStatus

lists == <<client, events, announced, observers>>
handling == <<phase, ahead, online>>
history == <<cut, told, overtaken>>
vars == <<gateway, devices, lists, handling, reports, shown, history>>

Init == /\ gateway = TRUE /\ devices = TRUE
        /\ client = [s \in Stream |-> "new"]
        /\ events = {} /\ observers = {} /\ announced = <<>>
        /\ phase = [m \in Message |-> "unsent"]
        /\ ahead = [m \in Message |-> {}]
        /\ online = None
        /\ reports = <<>>
        /\ shown = [s \in Stream |-> None]
        /\ cut = {} /\ told = {} /\ overtaken = FALSE

-----------------------------------------------------------------------------
(* Streams of the gateway.                                                 *)

\* Mutant: the queue is durable and outlives the service.
Announce_Durable(p, s) == announced' = Append(announced, [pattern |-> p, stream |-> s])

Announce(p, s) == announced' = IF devices THEN Append(announced, [pattern |-> p, stream |-> s])
                               ELSE announced

\* devicesStatus and EventsService.add.
Open(s) ==
    /\ gateway /\ client[s] = "new"
    /\ client' = [client EXCEPT ![s] = "open"]
    /\ events' = events \cup {s}
    /\ Announce("add", s)
    /\ cut' = IF devices THEN cut ELSE cut \cup {s}
    /\ UNCHANGED <<gateway, devices, observers, handling, reports, shown, told, overtaken>>

\* The socket ends: EventsService.remove.
End(s) ==
    /\ client[s] = "open"
    /\ client' = [client EXCEPT ![s] = "ended"]
    /\ events' = events \ {s}
    /\ Announce("remove", s)
    /\ UNCHANGED <<gateway, devices, observers, handling, reports, shown, history>>

\* The socket is closed without an 'end': nobody is told.
Break(s) ==
    /\ client[s] = "open"
    /\ client' = [client EXCEPT ![s] = "gone"]
    /\ UNCHANGED <<gateway, devices, events, announced, observers, handling, reports, shown, history>>

\* Mutant: one stream only is given the report.
Forward_First ==
    /\ gateway /\ reports # <<>>
    /\ reports' = Tail(reports)
    /\ shown' = IF events = {} THEN shown
                ELSE [shown EXCEPT ![CHOOSE s \in events : TRUE] = Head(reports)]
    /\ UNCHANGED <<gateway, devices, lists, handling, history>>

\* EventsService.handleDeviceResults: every stream gets the report.
Forward ==
    /\ gateway /\ reports # <<>>
    /\ reports' = Tail(reports)
    /\ shown' = [s \in Stream |-> IF s \in events THEN Head(reports) ELSE shown[s]]
    /\ UNCHANGED <<gateway, devices, lists, handling, history>>

-----------------------------------------------------------------------------
(* The devices service.  addObserver awaits nothing, so that announcements *)
(* are handled in their order.                                             *)

\* Mutant: 'remove' falls through to nothing.
HandleAnnouncement_AddsOnly ==
    /\ devices /\ announced # <<>>
    /\ announced' = Tail(announced)
    /\ LET a == Head(announced) IN
       observers' = IF a.pattern = "add" THEN observers \cup {a.stream} ELSE observers
    /\ UNCHANGED <<gateway, devices, client, events, handling, reports, shown, history>>

HandleAnnouncement ==
    /\ devices /\ announced # <<>>
    /\ announced' = Tail(announced)
    /\ LET a == Head(announced) IN
       observers' = IF a.pattern = "add" THEN observers \cup {a.stream}
                    ELSE observers \ {a.stream}
    /\ UNCHANGED <<gateway, devices, client, events, handling, reports, shown, history>>

\* A device connects or disconnects; the queue devices-online is durable.
Publish(m) ==
    /\ phase[m] = "unsent"
    /\ phase' = [phase EXCEPT ![m] = "queued"]
    /\ ahead' = [ahead EXCEPT ![m] = {n \in Message : phase[n] # "unsent"}]
    /\ UNCHANGED <<gateway, devices, lists, online, reports, shown, history>>

InFlight == {m \in Message : phase[m] \in {"writing", "written"}}

\* The first message that waits is delivered: devicesOnlineHandler calls
\* setDeviceStatus.
Receive(m) ==
    /\ devices /\ phase[m] = "queued" /\ Cardinality(InFlight) < Prefetch
    /\ \A n \in ahead[m] : phase[n] # "queued"
    /\ phase' = [phase EXCEPT ![m] = "writing"]
    /\ UNCHANGED <<gateway, devices, lists, ahead, online, reports, shown, history>>

SetStatus(m) ==
    /\ phase[m] = "writing" /\ m \notin Foreign
    /\ phase' = [phase EXCEPT ![m] = "written"]
    /\ online' = m
    /\ UNCHANGED <<gateway, devices, lists, ahead, reports, shown, history>>

\* Mutant: the error handler of the queries, which acknowledges.
SetStatusFails_Acknowledged(m) ==
    /\ phase[m] = "writing"
    /\ phase' = [phase EXCEPT ![m] = "handled"]
    /\ UNCHANGED <<gateway, devices, lists, ahead, online, reports, shown, history>>

\* The database refuses, or mongoose cannot cast the topic to an id: requeued.
SetStatusFails(m) ==
    /\ phase[m] = "writing"
    /\ phase' = [phase EXCEPT ![m] = "queued"]
    /\ UNCHANGED <<gateway, devices, lists, ahead, online, reports, shown, history>>

\* The handler resumes: observersExist is asked after the await.
Report(m) ==
    /\ phase[m] = "written"
    /\ phase' = [phase EXCEPT ![m] = "handled"]
    /\ IF observers = {} THEN UNCHANGED <<reports, told, overtaken>>
       ELSE /\ reports' = IF gateway THEN Append(reports, m) ELSE reports
            /\ told' = told \cup observers
            /\ overtaken' = (online # m)
    /\ UNCHANGED <<gateway, devices, lists, ahead, online, shown, cut>>

-----------------------------------------------------------------------------
(* Restarts.                                                               *)

\* The browser opens a new stream, with a new id.
GatewayCrash ==
    /\ gateway
    /\ gateway' = FALSE
    /\ events' = {} /\ reports' = <<>>
    /\ client' = [s \in Stream |-> IF client[s] = "open" THEN "gone" ELSE client[s]]
    /\ cut' = cut \cup events
    /\ UNCHANGED <<devices, announced, observers, handling, shown, told, overtaken>>

GatewayBoot == /\ ~gateway
               /\ gateway' = TRUE
               /\ UNCHANGED <<devices, lists, handling, reports, shown, history>>

\* Nobody announces the open streams again.  A write that was on its way is carried
\* out or not; what is not acknowledged comes back.
DevicesCrash ==
    /\ devices
    /\ devices' = FALSE
    /\ observers' = {} /\ announced' = <<>>
    /\ online' \in {online} \cup {m \in Message \ Foreign : phase[m] = "writing"}
    /\ phase' = [m \in Message |-> IF m \in InFlight THEN "queued" ELSE phase[m]]
    /\ cut' = cut \cup events
    /\ told' = {}
    /\ UNCHANGED <<gateway, client, events, ahead, reports, shown, overtaken>>

DevicesBoot == /\ ~devices
               /\ devices' = TRUE
               /\ UNCHANGED <<gateway, lists, handling, reports, shown, history>>

-----------------------------------------------------------------------------
Next == \/ \E s \in Stream : Open(s) \/ End(s) \/ Break(s)
        \/ Forward \/ HandleAnnouncement
        \/ \E m \in Message : \/ Publish(m) \/ Receive(m)
                              \/ SetStatus(m) \/ SetStatusFails(m) \/ Report(m)
        \/ GatewayCrash \/ GatewayBoot \/ DevicesCrash \/ DevicesBoot

Spec == Init /\ [][Next]_vars

(* Queues are served: the first message that waits is delivered when a     *)
(* delivery is free again and again, before all of those ahead are back    *)
(* (strong fairness).  The database does not refuse for ever what is tried *)
(* again and again, mongoose casts without it, and whoever supervises the  *)
(* processes starts them again.                                            *)
Fairness ==
    /\ WF_vars(Forward) /\ WF_vars(HandleAnnouncement)
    /\ \A m \in Message : SF_vars(Receive(m))
    /\ \A m \in Message \ Foreign : SF_vars(SetStatus(m)) /\ WF_vars(Report(m))
    /\ \A m \in Foreign : WF_vars(SetStatusFails(m))
    /\ WF_vars(GatewayBoot) /\ WF_vars(DevicesBoot)

FairSpec == Spec /\ Fairness

-----------------------------------------------------------------------------
(* Properties.                                                             *)

TypeOK == /\ gateway \in BOOLEAN /\ devices \in BOOLEAN
          /\ client \in [Stream -> ClientPhase]
          /\ events \subseteq Stream /\ observers \subseteq Stream
          /\ announced \in Seq(Announcement)
          /\ phase \in [Message -> Phase]
          /\ ahead \in [Message -> SUBSET Message]
          /\ online \in (Message \ Foreign) \cup {None}
          /\ reports \in Seq(Message)
          /\ shown \in [Stream -> Message \cup {None}]
          /\ cut \subseteq Stream /\ told \subseteq Stream
          /\ overtaken \in BOOLEAN
          /\ ~gateway => events = {} /\ reports = <<>>
          /\ ~devices => observers = {} /\ announced = <<>> /\ InFlight = {}

\* The two lists agree on a stream whose announcements are all handled, unless one
\* of the services was restarted while the stream was there, or the stream came
\* while the devices service was down (events.service.ts:17-38).
OnItsWay(s) == \E i \in 1..Len(announced) : announced[i].stream = s

ListsAgree ==
    \A s \in Stream \ cut : OnItsWay(s) \/ (s \in events <=> s \in observers)

\* Once nothing is on its way, a stream that was listed when the last report was
\* sent shows the status of the database, unless the handler that reported last had
\* its write overtaken by another one's (devices.controller.ts:217-221).
Settled == reports = <<>> /\ InFlight = {}

StreamsFollowStatus ==
    Settled => \A s \in told \cap observers \cap events :
                   shown[s] = online \/ overtaken

\* A stream that stays listed on both sides is shown every message that arrives,
\* whatever fails in between: a write that the database refuses is tried again, and
\* a restart takes the stream off a list.  Foreign messages are requeued for ever:
\* Prefetch of them ahead of a message keep it from being delivered at all, fewer
\* do not (devices.controller.ts:203-222).
Starved(m) == Cardinality(ahead[m] \cap Foreign) >= Prefetch

StreamsHear ==
    \A s \in Stream, m \in Message \ Foreign :
        (s \in observers /\ phase[m] = "queued") ~>
            s \notin observers \/ s \notin events \/ shown[s] = m \/ Starved(m)
==============================================================================
