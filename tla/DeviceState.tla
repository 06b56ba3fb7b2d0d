----------------------------- MODULE DeviceState -----------------------------
(***************************************************************************)
(* How the messages of the devices reach the devices collection: STATE     *)
(* (handleDeviceResults, saveMessage), a reading that is due (the sampling *)
(* branch of sensorsHandler, saveDataMessage) and LWT (devicesOnlineHandler*)
(* with setDeviceStatus).                                                  *)
(*                                                                         *)
(* The three queues are durable and in order, but up to Prefetch messages  *)
(* of each are handled at a time, and the database serves concurrent       *)
(* requests in any order.  replaceMesage does not await its bulkWrite: the *)
(* message is acknowledged while the write is on its way, and a restart    *)
(* may lose it.  A bulk updates one element after the other; every update  *)
(* is atomic, the bulk is not.                                             *)
(***************************************************************************)
EXTENDS Naturals, SequencesExt

CONSTANTS Device,
          Message,          \* a message, and the values it carries
          StateFields,      \* sequences of the elements that a STATE may carry
          SampleFields,     \* sequence of the elements that a reading carries
          Online,           \* the field that LWT sets
          Prefetch,         \* messages of a queue handled at the same time
          MaxTry,           \* bound of the deliveries of one message
          None

\* The names that handleDeviceResults lets through (devices.controller.ts:253-259)
\* are not those of a reading (devices.service.ts:230-233), and no element is
\* called as the status.
ASSUME FieldsAssumption ==
    /\ SampleFields # <<>>
    /\ \A s \in StateFields \cup {SampleFields} : s \in Seq(ToSet(s)) /\ Online \notin ToSet(s)
    /\ \A s \in StateFields : ToSet(s) \cap ToSet(SampleFields) = {}

ASSUME BoundsAssumption == Prefetch \in Nat /\ MaxTry \in Nat

Kind == {"state", "sample", "status"}

Element == UNION {ToSet(s) : s \in StateFields \cup {SampleFields}}
Field == Element \cup {Online}

Content == [kind : {"state"}, dev : Device, fields : StateFields]
             \cup [kind : {"sample"}, dev : Device, fields : {SampleFields}]
             \cup [kind : {"status"}, dev : Device, fields : {<<Online>>}]

ASSUME NoneAssumption == None \notin Message /\ None \notin Content

VARIABLES up,               \* the service is running and consuming
          content,          \* of each message, None until it is published
          queue,            \* messages ready in the queue of each kind
          handling,         \* messages whose handler awaits the database
          try,              \* deliveries of each message
          writes,           \* requests on their way: message, delivery, rest
          stored,           \* the devices collection: its members,
          online, elements, \* with the status and the elements of each
          rows,             \* the data collection
          last,             \* history: message published last for each field
          doubt             \* history: see LatestUnlessInDoubt

broker == <<content, queue, handling, try>>
database == <<stored, online, elements, rows>>
vars == <<up, broker, writes, database, last, doubt>>

Init == /\ up = TRUE
        /\ content = [m \in Message |-> None]
        /\ queue = [q \in Kind |-> <<>>]
        /\ handling = [q \in Kind |-> <<>>]
        /\ try = [m \in Message |-> 0]
        /\ writes = {} /\ rows = {}
        /\ stored = Device
        /\ online = [d \in Device |-> None]
        /\ elements = [d \in Device |-> <<>>]
        /\ last = [d \in Device |-> [f \in Field |-> None]]
        /\ doubt = [d \in Device |-> {}]

-----------------------------------------------------------------------------
Dev(m) == content[m].dev
FieldsOf(m) == ToSet(content[m].fields)

\* Requests that have yet to write field f of device d.
Writing(d, f) == {w \in writes : Dev(w.msg) = d /\ f \in ToSet(w.rest)}

\* Messages that are to write field f of device d when they are delivered.
Waiting(d, f) == {m \in UNION {ToSet(queue[q]) : q \in Kind} :
                    Dev(m) = d /\ f \in FieldsOf(m)}

\* A device publishes whether or not the service runs.
Publish(m, c) ==
    /\ content[m] = None
    /\ content' = [content EXCEPT ![m] = c]
    /\ queue' = [queue EXCEPT ![c.kind] = Append(@, m)]
    /\ last' = [last EXCEPT ![c.dev] =
                   [f \in Field |-> IF f \in ToSet(c.fields) THEN m ELSE @[f]]]
    /\ UNCHANGED <<up, handling, try, writes, database, doubt>>

\* RabbitMQ delivers the first ready message of a queue.
Receive(m, q) ==
    /\ up /\ queue[q] # <<>> /\ m = Head(queue[q])
    /\ Len(handling[q]) < Prefetch /\ try[m] < MaxTry
    /\ queue' = [queue EXCEPT ![q] = Tail(@)]
    /\ try' = [try EXCEPT ![m] = @ + 1]

\* The request of m leaves for the database.
Launch(m) ==
    /\ writes' = writes \cup {[msg |-> m, try |-> try'[m], rest |-> content[m].fields]}
    /\ LET d == Dev(m)
           Overlaps(f) == \E w \in Writing(d, f) : w.msg # m
           Stays(f) == f \in doubt[d] /\ ~(f \in FieldsOf(m) /\ last[d][f] = m /\ Waiting(d, f) = {m}) IN
       doubt' = [doubt EXCEPT ![d] =
                   {f \in Field : Stays(f) \/ (f \in FieldsOf(m) /\ Overlaps(f))}]

\* Mutant: an empty list of updates is sent, too.
HandleState_Empty(m) ==
    /\ Receive(m, "state")
    /\ Launch(m)
    /\ UNCHANGED <<up, content, handling, database, last>>

\* handleDeviceResults awaits nothing: the message is acknowledged.
HandleState(m) ==
    /\ Receive(m, "state")
    /\ IF content[m].fields = <<>> THEN UNCHANGED <<writes, doubt>> ELSE Launch(m)
    /\ UNCHANGED <<up, content, handling, database, last>>

\* saveDataMessage launches the bulk and awaits the row, devicesOnlineHandler
\* awaits its write.
HandleAwaiting(m, q) ==
    /\ Receive(m, q)
    /\ Launch(m)
    /\ handling' = [handling EXCEPT ![q] = Append(@, m)]
    /\ UNCHANGED <<up, content, database, last>>

HandleSample(m) == HandleAwaiting(m, "sample")
HandleStatus(m) == HandleAwaiting(m, "status")

Handled(m, q) == up /\ m \in ToSet(handling[q])

Acknowledge(m, q) ==
    \E i \in DOMAIN handling[q] :
        handling[q][i] = m /\ handling' = [handling EXCEPT ![q] = RemoveAt(@, i)]

\* humidity is given the temperature (devices.service.ts:228).
SaveRow(m) ==
    /\ Handled(m, "sample")
    /\ rows' = rows \cup {[msg |-> m, data |-> [f \in FieldsOf(m) |-> <<m, Head(SampleFields)>>]]}
    /\ Acknowledge(m, "sample")
    /\ UNCHANGED <<up, content, queue, try, writes, stored, online, elements, last, doubt>>

IsRequestOf(w, m) == w.msg = m /\ w.try = try[m]

StatusDone(m) ==
    /\ Handled(m, "status")
    /\ ~\E w \in writes : IsRequestOf(w, m)
    /\ Acknowledge(m, "status")
    /\ UNCHANGED <<up, content, queue, try, writes, database, last, doubt>>

\* Fields that a second delivery of m may set back.
SetBack(d, m) == {f \in FieldsOf(m) : Dev(m) = d /\ last[d][f] # m}

Requeue(m, q) == /\ Acknowledge(m, q)
                 /\ queue' = [queue EXCEPT ![q] = <<m>> \o @]
                 /\ doubt' = [d \in Device |-> doubt[d] \cup SetBack(d, m)]

\* The row is refused; the bulk of the same delivery is on its way all the same.
SaveRowFails(m) ==
    /\ Handled(m, "sample")
    /\ Requeue(m, "sample")
    /\ UNCHANGED <<up, content, try, writes, database, last>>

StatusFails(m) ==
    /\ Handled(m, "status")
    /\ \E w \in writes : IsRequestOf(w, m) /\ writes' = writes \ {w}
    /\ Requeue(m, "status")
    /\ UNCHANGED <<up, content, try, database, last>>

-----------------------------------------------------------------------------
(* The database.                                                           *)

\* Mutant: without the condition every old entry is kept.
Replace_KeepsAll(list, item) == <<item>> \o list

\* Mutant: the reduction starts from the old list.
Replace_OldFirst(list, item) ==
    IF \E e \in ToSet(list) : e.name = item.name THEN list ELSE Append(list, item)

\* Mutant: the list is set to the item.
Replace_Alone(list, item) == <<item>>

\* The $concatArrays of replaceMesage: an entry is kept if its name is new.
Keep(value, this) ==
    IF \E e \in ToSet(value) : e.name = this.name THEN value ELSE Append(value, this)

\* Its $reduce, which starts from the new item.
Replace(list, item) ==
    LET reduced[i \in 0..Len(list)] ==
            IF i = 0 THEN <<item>> ELSE Keep(reduced[i - 1], list[i]) IN
    reduced[Len(list)]

\* One update of a request; a removed device matches none.
ApplyUpdate(w) ==
    /\ LET d == Dev(w.msg)
           f == Head(w.rest) IN
       /\ online' = IF f = Online /\ d \in stored
                    THEN [online EXCEPT ![d] = w.msg] ELSE online
       /\ elements' = IF f # Online /\ d \in stored
                      THEN [elements EXCEPT ![d] = Replace(@, [name |-> f, value |-> w.msg])]
                      ELSE elements
    /\ writes' = (writes \ {w}) \cup
                    (IF Len(w.rest) = 1 THEN {} ELSE {[w EXCEPT !.rest = Tail(@)]})
    /\ UNCHANGED <<up, broker, stored, rows, last, doubt>>

\* removeById, see Sampling.
RemoveDevice(d) ==
    /\ d \in stored
    /\ stored' = stored \ {d}
    /\ UNCHANGED <<up, broker, writes, online, elements, rows, last, doubt>>

-----------------------------------------------------------------------------
(* Restarts.  A request that has not reached the database is lost with the *)
(* service, the others are carried out; what was not acknowledged comes    *)
(* back.  (A bulk that is refused rejects a promise nobody awaits, which   *)
(* ends the process: it is one of these crashes.)                          *)

Crash ==
    /\ up
    /\ up' = FALSE
    /\ queue' = [q \in Kind |-> handling[q] \o queue[q]]
    /\ handling' = [q \in Kind |-> <<>>]
    /\ \E lost \in SUBSET {w \in writes : w.rest = content[w.msg].fields} :
          /\ writes' = writes \ lost
          /\ doubt' = [d \in Device |->
                 {f \in Field : \/ f \in doubt[d]
                               \/ (\E w \in lost : Dev(w.msg) = d /\ f \in FieldsOf(w.msg))
                               \/ \E q \in Kind : \E m \in ToSet(handling[q]) : f \in SetBack(d, m)}]
    /\ UNCHANGED <<content, try, database, last>>

Boot == /\ ~up
        /\ up' = TRUE
        /\ UNCHANGED <<broker, writes, database, last, doubt>>

-----------------------------------------------------------------------------
MessageStep(m) == \/ \E c \in Content : Publish(m, c)
                  \/ HandleState(m)
                  \/ HandleSample(m) \/ SaveRow(m) \/ SaveRowFails(m)
                  \/ HandleStatus(m) \/ StatusDone(m) \/ StatusFails(m)

Next == \/ \E m \in Message : MessageStep(m)
        \/ \E w \in writes : ApplyUpdate(w)
        \/ \E d \in Device : RemoveDevice(d)
        \/ Crash \/ Boot

Spec == Init /\ [][Next]_vars

-----------------------------------------------------------------------------
(* Properties.                                                             *)

\* A request has something to write: the driver refuses an empty bulk.
TypeOK ==
    /\ up \in BOOLEAN
    /\ content \in [Message -> Content \cup {None}]
    /\ queue \in [Kind -> Seq(Message)] /\ handling \in [Kind -> Seq(Message)]
    /\ \A q \in Kind : \A m \in ToSet(queue[q]) \cup ToSet(handling[q]) :
           content[m] # None /\ content[m].kind = q
    /\ try \in [Message -> 0..MaxTry]
    /\ writes \subseteq [msg : Message, try : 1..MaxTry, rest : Seq(Field)]
    /\ \A w \in writes : /\ content[w.msg] # None /\ w.try <= try[w.msg]
                         /\ w.rest \in Suffixes(content[w.msg].fields) \ {<<>>}
    /\ stored \subseteq Device
    /\ online \in [Device -> Message \cup {None}]
    /\ elements \in [Device -> Seq([name : Element, value : Message])]
    /\ \A r \in rows : r.msg \in Message
    /\ last \in [Device -> [Field -> Message \cup {None}]]
    /\ doubt \in [Device -> SUBSET Field]

\* A device has one entry per element, however the updates of its messages
\* interleave: getElements (device.repository.ts:39-65) lists a device once for
\* every entry of its list.
NamesUnique ==
    \A d \in Device : \A i, j \in DOMAIN elements[d] :
        elements[d][i].name = elements[d][j].name => i = j

\* The value of the first entry named f.
ValueOf(list, f) ==
    LET hits == {i \in DOMAIN list : list[i].name = f} IN
    IF hits = {} THEN None ELSE list[Min(hits)].value

Shown(d, f) == IF f = Online THEN online[d] ELSE ValueOf(elements[d], f)

\* Once nothing is waiting or on its way, a field shows what its device published
\* last, unless, since then, two requests for the field overlapped, an older
\* message was delivered again, or a restart lost a write that had already been
\* acknowledged (device.repository.ts:104, devices.controller.ts:217).
LatestUnlessInDoubt ==
    \A d \in stored, f \in Field :
        \/ f \in doubt[d] \/ Waiting(d, f) # {} \/ Writing(d, f) # {}
        \/ Shown(d, f) = last[d][f]

\* The row of a reading holds the values that the element list gets from the same
\* reading (devices.service.ts:230-233 against 228).
RowMatchesElements ==
    \A r \in rows : \A f \in DOMAIN r.data : r.data[f] = <<r.msg, f>>

\* Whatever overlaps, each write touches one field only: no update of one element
\* takes another element, or the status, with it.
board == [d \in Device |-> [f \in Field |-> IF d \in stored THEN Shown(d, f) ELSE None]]

Board == INSTANCE DeviceBoard WITH Value <- Message, Blank <- None
ImplementsBoard == Board!Spec
==============================================================================
