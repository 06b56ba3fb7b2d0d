---------------------------- MODULE DeviceQueries ----------------------------
(***************************************************************************)
(* The queries that a device has to answer itself: 'device-element'        *)
(* (devicesElementHandler, listenElement) and 'device-wifi'                *)
(* (devicesWiFiHandler, listenWiFi).                                       *)
(*                                                                         *)
(* A handler declares a queue of its own, binds it to the topic of the     *)
(* answers, publishes a command to the device and waits for the first      *)
(* message in its queue.  The answers of a device to 'Status 8' have a     *)
(* topic of their own; its answer to 'Ssid' goes to RESULT, the topic of   *)
(* the answers to nearly every command.  Only listenWiFi gives up, after   *)
(* ten seconds.  The queue is autoDelete: it is deleted when its consumer  *)
(* goes, but not if it never had one.  While a handler waits it occupies   *)
(* one of the Prefetch deliveries of its kind.  A handler that throws has  *)
(* its query acknowledged without an answer; a consumer of answers that    *)
(* throws breaks the connection of the service.                            *)
(***************************************************************************)
EXTENDS Naturals, FiniteSets

CONSTANTS Device,
          Readable,         \* those whose answer to 'Status 8' has the value asked for
          Query,
          Other,            \* commands that are no query
          Prefetch,         \* deliveries of a consumer not yet acknowledged
          Error, Empty,     \* the answers 'error' and { SSId1: '' }
          None

ASSUME PrefetchAssumption == Prefetch \in Nat \ {0}
ASSUME ReadableAssumption == Readable \subseteq Device

Kind == {"element", "wifi"}
Request == [kind : Kind, dev : Device]
Topic == {"STATUS8", "RESULT"}

\* What a device is told, and who told it.
Command == [by : Query \cup Other, dev : Device, topic : Topic]

ASSUME ConstantsAssumption ==
    /\ None \notin Request \cup Command
    /\ Error \notin Command \cup {None} /\ Empty \notin Command \cup {None, Error}

\* finding: awaiting the database; found: the device is known and online;
\* bound: the queue is there; waiting: the command is out, the consumer listens;
\* dropped: acknowledged without an answer.
Phase == {"unsent", "queued", "finding", "found", "bound", "waiting", "answered",
          "dropped", "lost"}

VARIABLES up,               \* the service is running, connected and consuming
          online,           \* the status that the database has of each device
          request, phase,   \* content and phase of each query
          answer,           \* what it was answered
          queues,           \* queries whose temporary queue exists
          box,              \* answers in it, named by the command they answer
          sent,             \* commands that have been published
          open,             \* commands that have not reached the device yet
          ignored           \* history: commands that no device answered

calls == <<request, phase, answer>>
broker == <<queues, box>>
commands == <<sent, open, ignored>>
vars == <<up, online, calls, broker, commands>>

Init == /\ up = TRUE
        /\ online = [d \in Device |-> TRUE]
        /\ request = [q \in Query |-> None]
        /\ phase = [q \in Query |-> "unsent"]
        /\ answer = [q \in Query |-> None]
        /\ queues = {} /\ sent = {} /\ open = {} /\ ignored = {}
        /\ box = [q \in Query |-> {}]

-----------------------------------------------------------------------------
Is(q, kind) == phase[q] # "unsent" /\ request[q].kind = kind

Busy(kind) == {q \in Query : Is(q, kind) /\ phase[q] \in {"finding", "found", "bound", "waiting"}}

Send(q, r) ==
    /\ phase[q] = "unsent"
    /\ request' = [request EXCEPT ![q] = r]
    /\ phase' = [phase EXCEPT ![q] = IF up THEN "queued" ELSE "lost"]
    /\ UNCHANGED <<up, online, answer, broker, commands>>

\* listenWiFi asks nothing of the database.
Receive(q) ==
    /\ phase[q] = "queued"
    /\ Cardinality(Busy(request[q].kind)) < Prefetch
    /\ phase' = [phase EXCEPT ![q] = IF Is(q, "element") THEN "finding" ELSE "found"]
    /\ UNCHANGED <<up, online, request, answer, broker, commands>>

\* The device is read: unless it is there, online, and has the element, the answer
\* is 'error'.  (A missing device or element is a free choice here.)
FindDevice(q) ==
    /\ phase[q] = "finding"
    /\ online[request[q].dev]
    /\ phase' = [phase EXCEPT ![q] = "found"]
    /\ UNCHANGED <<up, online, request, answer, broker, commands>>

AnswerError(q) ==
    /\ phase[q] = "finding"
    /\ phase' = [phase EXCEPT ![q] = "answered"]
    /\ answer' = [answer EXCEPT ![q] = Error]
    /\ UNCHANGED <<up, online, request, broker, commands>>

\* The lookup is refused: the id is none, or the database fails.  ackErrorHandler.
RejectDevice(q) ==
    /\ phase[q] = "finding"
    /\ phase' = [phase EXCEPT ![q] = "dropped"]
    /\ UNCHANGED <<up, online, request, answer, broker, commands>>

NewQueue(q) ==
    /\ phase[q] = "found"
    /\ queues' = queues \cup {q}
    /\ phase' = [phase EXCEPT ![q] = "bound"]
    /\ UNCHANGED <<up, online, request, answer, box, commands>>

TopicOf(q) == IF request[q].kind = "element" THEN "STATUS8" ELSE "RESULT"

Publish(c) == sent' = sent \cup {c} /\ open' = open \cup {c} /\ UNCHANGED ignored

\* The command is published, and firstValueFrom starts the consumer.
Listen(q) ==
    /\ phase[q] = "bound"
    /\ Publish([by |-> q, dev |-> request[q].dev, topic |-> TopicOf(q)])
    /\ phase' = [phase EXCEPT ![q] = "waiting"]
    /\ UNCHANGED <<up, online, request, answer, broker>>

Close(q) == /\ queues' = queues \ {q}
            /\ box' = [box EXCEPT ![q] = {}]

\* The consumer gets a message: the first one completes the observable.
Deliver(q) ==
    /\ phase[q] = "waiting"
    /\ Is(q, "element") => request[q].dev \in Readable
    /\ \E c \in box[q] : answer' = [answer EXCEPT ![q] = c]
    /\ phase' = [phase EXCEPT ![q] = "answered"]
    /\ Close(q)
    /\ UNCHANGED <<up, online, request, commands>>

\* Mutant: the timer cancels the consumer but completes nothing.
Timeout_CancelsOnly(q) ==
    /\ phase[q] = "waiting" /\ Is(q, "wifi")
    /\ Close(q)
    /\ UNCHANGED <<up, online, calls, commands>>

\* Mutant: the timer completes the observable with no value.
Timeout_NoValue(q) ==
    /\ phase[q] = "waiting" /\ Is(q, "wifi")
    /\ phase' = [phase EXCEPT ![q] = "answered"]
    /\ Close(q)
    /\ UNCHANGED <<up, online, request, answer, commands>>

\* Mutant: the timer completes the observable but does not cancel the consumer.
Timeout_KeepsConsumer(q) ==
    /\ phase[q] = "waiting" /\ Is(q, "wifi")
    /\ answer' = [answer EXCEPT ![q] = Empty]
    /\ phase' = [phase EXCEPT ![q] = "answered"]
    /\ UNCHANGED <<up, online, request, broker, commands>>

\* A timer that fires after the answer changes nothing any more.
Timeout(q) ==
    /\ phase[q] = "waiting" /\ Is(q, "wifi")
    /\ answer' = [answer EXCEPT ![q] = Empty]
    /\ phase' = [phase EXCEPT ![q] = "answered"]
    /\ Close(q)
    /\ UNCHANGED <<up, online, request, commands>>

-----------------------------------------------------------------------------
(* Devices.                                                                *)

\* devices-cmd, devices-update, devices-remove: answered on RESULT by the device.
SendOther(o, d) ==
    /\ ~\E c \in sent : c.by = o
    /\ Publish([by |-> o, dev |-> d, topic |-> "RESULT"])
    /\ UNCHANGED <<up, online, calls, broker>>

\* Mutant: the queue is bound to the topic of all devices.
Listeners_AllDevices(c) == {q \in queues : TopicOf(q) = c.topic}

\* Queues bound to stat.<device>.<topic>.
Listeners(c) == {q \in queues : TopicOf(q) = c.topic /\ request[q].dev = c.dev}

Respond(c) ==
    /\ c \in open
    /\ open' = open \ {c}
    /\ box' = [q \in Query |-> IF q \in Listeners(c) THEN box[q] \cup {c} ELSE box[q]]
    /\ UNCHANGED <<up, online, calls, queues, sent, ignored>>

\* The device is away, or does not answer.
Ignore(c) ==
    /\ c \in open
    /\ open' = open \ {c} /\ ignored' = ignored \cup {c}
    /\ UNCHANGED <<up, online, calls, broker, sent>>

\* devicesOnlineHandler, see DeviceState.  The status says little about whether the
\* device will answer: it follows the connection late, in both directions.
SetStatus(d) ==
    /\ up
    /\ online' = [online EXCEPT ![d] = ~@]
    /\ UNCHANGED <<up, calls, broker, commands>>

-----------------------------------------------------------------------------
(* The service stops, or its connection breaks.  A temporary queue that has *)
(* a consumer goes, one that was only declared stays; the queues of the     *)
(* queries go with all that is in them or delivered from them.              *)

Disconnect ==
    /\ up' = FALSE
    /\ LET consumed == {q \in queues : phase[q] = "waiting"} IN
       /\ queues' = queues \ consumed
       /\ box' = [q \in Query |-> IF q \in consumed THEN {} ELSE box[q]]
    /\ phase' = [q \in Query |-> IF phase[q] \in {"unsent", "answered", "dropped"}
                                 THEN phase[q] ELSE "lost"]
    /\ UNCHANGED <<online, request, answer, commands>>

Crash == up /\ Disconnect

\* handleSensorElements knows the DHT only: find has no item, and amqplib closes the
\* connection when a consumer throws on its undefined value.
DeliverThrows(q) ==
    /\ phase[q] = "waiting" /\ box[q] # {}
    /\ Is(q, "element") /\ request[q].dev \notin Readable
    /\ Disconnect

\* The service is started again, or has reconnected.
Boot == /\ ~up
        /\ up' = TRUE
        /\ UNCHANGED <<online, calls, broker, commands>>

-----------------------------------------------------------------------------
QueryStep(q) == \/ \E r \in Request : Send(q, r)
                \/ Receive(q) \/ FindDevice(q) \/ AnswerError(q) \/ RejectDevice(q)
                \/ NewQueue(q) \/ Listen(q) \/ Deliver(q) \/ DeliverThrows(q)
                \/ Timeout(q)

DeviceStep(d) == \/ \E o \in Other : SendOther(o, d)
                 \/ SetStatus(d)

Next == \/ \E q \in Query : QueryStep(q)
        \/ \E d \in Device : DeviceStep(d)
        \/ \E c \in open : Respond(c) \/ Ignore(c)
        \/ Crash \/ Boot

Spec == Init /\ [][Next]_vars

(* Nothing is requeued, and a queue is served in order, so that a query gets *)
(* its turn when a delivery is free again and again (strong fairness); node *)
(* resumes what is ready; timers fire; a command is answered or ignored.    *)
Fairness ==
    /\ \A q \in Query : /\ SF_vars(Receive(q))
                        /\ WF_vars(FindDevice(q) \/ AnswerError(q) \/ RejectDevice(q))
                        /\ WF_vars(NewQueue(q)) /\ WF_vars(Listen(q))
                        /\ WF_vars(Deliver(q) \/ DeliverThrows(q)) /\ WF_vars(Timeout(q))
    /\ WF_vars(\E c \in open : Respond(c) \/ Ignore(c))
    /\ WF_vars(Boot)

FairSpec == Spec /\ Fairness

-----------------------------------------------------------------------------
(* Properties.                                                             *)

\* The promise of a handler is resolved with a value: firstValueFrom rejects an
\* observable that completes without one.
TypeOK == /\ up \in BOOLEAN
          /\ online \in [Device -> BOOLEAN]
          /\ request \in [Query -> Request \cup {None}]
          /\ phase \in [Query -> Phase]
          /\ \A q \in Query : phase[q] # "unsent" => request[q] \in Request
          /\ \A q \in Query : phase[q] = "answered" => answer[q] # None
          /\ answer \in [Query -> Command \cup {Error, Empty, None}]
          /\ queues \subseteq Query
          /\ box \in [Query -> SUBSET Command]
          /\ sent \subseteq Command /\ open \subseteq sent /\ ignored \subseteq sent

\* Queries and commands that are open at the same time get their answers through
\* the same topics: an element query is still answered by its own device, and by
\* an answer to 'Status 8' only (devices.service.ts:253-267).
ElementAnswersFit ==
    \A q \in Query : Is(q, "element") /\ answer[q] \in Command =>
        answer[q].dev = request[q].dev /\ answer[q].by \in Query

\* What listenWiFi returns is the WiFi of its device, or empty.
WiFiAnswersFit ==
    \A q \in Query : Is(q, "wifi") /\ answer[q] \in Command =>
        answer[q].dev = request[q].dev /\ answer[q].by \in Query

\* No temporary queue outlives its query, answered or timed out, unless the service
\* stopped after it declared the queue and before it consumed from it
\* (devices.service.ts:253-255, 313-320): such a queue stays and collects answers.
NoQueueLeft == \A q \in queues : phase[q] \in {"bound", "waiting", "lost"}

\* Once the service stays up, every query is answered or lost with a connection: a
\* WiFi query whatever the devices do, an element query unless the lookup of its
\* device is refused (devices.controller.ts:161,170), its device keeps silent, or
\* Prefetch other queries wait for silent devices: listenElement has no timer, and a
\* query that waits for ever blocks the ones behind it, whatever their device
\* (devices.service.ts:248-271).  One element query of a device that is no DHT has
\* its answer break the connection, and all open queries are lost with it.
Silent(q) == /\ phase[q] = "waiting" /\ box[q] = {}
             /\ \E c \in ignored : c.by = q

Blocked == Cardinality({q \in Query : Is(q, "element") /\ Silent(q)}) >= Prefetch

QueriesAnswered ==
    <>[]up => \A q \in Query :
        phase[q] = "queued" ~> \/ phase[q] \in {"answered", "lost"}
                               \/ /\ Is(q, "element")
                                  /\ phase[q] = "dropped" \/ Silent(q) \/ Blocked
==============================================================================
