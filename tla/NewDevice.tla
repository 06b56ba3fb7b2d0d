------------------------------ MODULE NewDevice ------------------------------
(***************************************************************************)
(* The new-device wizard of the devices service (devices.service.ts:60-107)*)
(* with the controller that feeds it and the gateway that sends to it.     *)
(*                                                                         *)
(* The gateway gives every 'init' a fresh clientId, so a Client stands for *)
(* one run of the wizard.  'flashed' and 'aborted' carry that id back and  *)
(* may be sent more than once (Copy).  The service keeps the unsaved       *)
(* mongoose document of a client in the map pendingNewDevices; nothing but *)
(* the devices collection survives a restart.  The queue devices-new is    *)
(* autoDelete and not durable: it disappears with the service, and a       *)
(* handler that throws puts its message back.                              *)
(***************************************************************************)
EXTENDS Naturals

CONSTANTS Client,           \* runs of the wizard: ids minted by the gateway
          Copy              \* how often a client may send the same status

Dto == [sensor : BOOLEAN,   \* type = 'sensor' (the others are switch and bulb)
        valid  : BOOLEAN,   \* passes the validation of DeviceSchema
        meta   : BOOLEAN]   \* 'init' carries the optional metadata

\* The messages that follow 'init'.
Message == [client : Client, kind : {"flashed", "aborted"}, copy : Copy]

\* saving: inside await save, the insert not applied yet; inserted: applied,
\* the handler not resumed yet; lost: it went down with the queue.
Phase == {"unsent", "queued", "saving", "inserted", "answered", "lost"}

\* silent: addDevice returned undefined, so that the caller gets no command.
InitPhase == {"unsent", "queued", "answered", "silent", "lost"}

VARIABLES up,               \* the devices service is running and consuming
          dto,              \* what the user of each client enters
          init,             \* phase of the 'init' of each client
          phase,            \* phase of each later message
          pending,          \* pendingNewDevices: the clients with an entry
          stored,           \* clients whose device is in the devices collection
          intervals,        \* SensorInterval entries of each client's device
          dropped           \* history: clients whose unsaved document was dropped

memory == <<pending, intervals>>
history == <<dto, dropped>>
vars == <<up, dto, init, phase, pending, stored, intervals, dropped>>

Init == /\ up = TRUE
        /\ dto \in [Client -> Dto]
        /\ init = [c \in Client |-> "unsent"]
        /\ phase = [m \in Message |-> "unsent"]
        /\ pending = {} /\ stored = {} /\ dropped = {}
        /\ intervals = [c \in Client |-> 0]

-----------------------------------------------------------------------------
(* The gateway.  A message sent while the queue does not exist is dropped. *)

SendInit(c) ==
    /\ init[c] = "unsent"
    /\ init' = [init EXCEPT ![c] = IF up THEN "queued" ELSE "lost"]
    /\ UNCHANGED <<up, phase, stored, memory, history>>

\* Mutant: devices-new is durable, and what is sent while the service is down waits.
SendStatus_Durable(m) ==
    /\ init[m.client] = "answered"
    /\ phase[m] = "unsent"
    /\ phase' = [phase EXCEPT ![m] = "queued"]
    /\ UNCHANGED <<up, init, stored, memory, history>>

\* The client learns its id from the answer to 'init'.
SendStatus(m) ==
    /\ init[m.client] = "answered"
    /\ phase[m] = "unsent"
    /\ phase' = [phase EXCEPT ![m] = IF up THEN "queued" ELSE "lost"]
    /\ UNCHANGED <<up, init, stored, memory, history>>

-----------------------------------------------------------------------------
(* addDevice.  The entry is set before data.metadata.ssid is read, so that *)
(* a message without metadata throws with the entry already there, and its *)
(* redelivery finds the entry and returns nothing.                         *)

InitQueued(c) == up /\ init[c] = "queued"

\* Mutant: the repository creates the document instead of a model of it.
AddDevice_Inserts(c) ==
    /\ InitQueued(c)
    /\ c \notin pending
    /\ pending' = pending \cup {c}
    /\ stored' = IF dto[c].valid THEN stored \cup {c} ELSE stored
    /\ init' = IF dto[c].meta THEN [init EXCEPT ![c] = "answered"] ELSE init
    /\ UNCHANGED <<up, phase, intervals, history>>

AddDevice(c) ==
    /\ InitQueued(c)
    /\ c \notin pending
    /\ pending' = pending \cup {c}
    /\ init' = IF dto[c].meta THEN [init EXCEPT ![c] = "answered"] ELSE init
    /\ UNCHANGED <<up, phase, stored, intervals, history>>

AddDeviceAgain(c) ==
    /\ InitQueued(c)
    /\ c \in pending
    /\ init' = [init EXCEPT ![c] = "silent"]
    /\ UNCHANGED <<up, phase, stored, memory, history>>

-----------------------------------------------------------------------------
(* abortNewDevice: it has no await and always answers 'aborted'.           *)

AbortNewDevice(m) ==
    /\ up /\ m.kind = "aborted" /\ phase[m] = "queued"
    /\ pending' = pending \ {m.client}
    /\ dropped' = dropped \cup (pending \cap {m.client})
    /\ phase' = [phase EXCEPT ![m] = "answered"]
    /\ UNCHANGED <<up, init, stored, intervals, dto>>

-----------------------------------------------------------------------------
(* confirmNewDevice.  Everything up to the call of save is one step, and   *)
(* what follows the await is one step.                                     *)

Saves(c) == {m \in Message : m.client = c /\ phase[m] \in {"saving", "inserted"}}

FlashedQueued(m) == up /\ m.kind = "flashed" /\ phase[m] = "queued"

\* Mutant: 'added' is answered without looking at the map.
ConfirmUnknown_Always(m) ==
    /\ FlashedQueued(m)
    /\ phase' = [phase EXCEPT ![m] = "answered"]
    /\ UNCHANGED <<up, init, stored, memory, history>>

\* No document is pending: answer 'added' and do nothing.
ConfirmUnknown(m) ==
    /\ FlashedQueued(m)
    /\ m.client \notin pending
    /\ phase' = [phase EXCEPT ![m] = "answered"]
    /\ UNCHANGED <<up, init, stored, memory, history>>

BeginSave(m) ==
    /\ FlashedQueued(m)
    /\ m.client \in pending
    /\ Saves(m.client) = {}
    /\ phase' = [phase EXCEPT ![m] = "saving"]
    /\ UNCHANGED <<up, init, stored, memory, history>>

\* mongoose rejects a second save of a document that is being saved
\* (ParallelSaveError): the handler throws and the message is requeued.
RejectParallelSave(m) ==
    /\ FlashedQueued(m)
    /\ m.client \in pending
    /\ Saves(m.client) # {}
    /\ UNCHANGED vars

DbInsert(m) ==
    /\ phase[m] = "saving"
    /\ dto[m.client].valid
    /\ stored' = stored \cup {m.client}
    /\ phase' = [phase EXCEPT ![m] = "inserted"]
    /\ UNCHANGED <<up, init, memory, history>>

\* The validation or the database refuses; the entry stays pending and the
\* message is requeued.
SaveFails(m) ==
    /\ phase[m] = "saving"
    /\ phase' = [phase EXCEPT ![m] = "queued"]
    /\ UNCHANGED <<up, init, stored, memory, history>>

\* Mutant: the entry is not deleted after the save.
FinishConfirm_KeepsPending(m) ==
    /\ phase[m] = "inserted"
    /\ intervals' = IF dto[m.client].sensor
                    THEN [intervals EXCEPT ![m.client] = @ + 1] ELSE intervals
    /\ phase' = [phase EXCEPT ![m] = "answered"]
    /\ UNCHANGED <<up, init, stored, pending, history>>

\* Mutant: only the branch of the sensors answers.
FinishConfirm_SensorsOnly(m) ==
    /\ phase[m] = "inserted"
    /\ dto[m.client].sensor
    /\ intervals' = [intervals EXCEPT ![m.client] = @ + 1]
    /\ pending' = pending \ {m.client}
    /\ phase' = [phase EXCEPT ![m] = "answered"]
    /\ UNCHANGED <<up, init, stored, history>>

FinishConfirm(m) ==
    /\ phase[m] = "inserted"
    /\ intervals' = IF dto[m.client].sensor
                    THEN [intervals EXCEPT ![m.client] = @ + 1] ELSE intervals
    /\ pending' = pending \ {m.client}
    /\ phase' = [phase EXCEPT ![m] = "answered"]
    /\ UNCHANGED <<up, init, stored, history>>

-----------------------------------------------------------------------------
(* The service stops at any point and comes back.                          *)

Crash ==
    /\ up
    /\ up' = FALSE
    /\ init' = [c \in Client |-> IF init[c] = "queued" THEN "lost" ELSE init[c]]
    /\ phase' = [m \in Message |->
                    IF phase[m] \in {"queued", "saving", "inserted"}
                    THEN "lost" ELSE phase[m]]
    /\ pending' = {}
    /\ dropped' = dropped \cup pending
    /\ intervals' = [c \in Client |-> 0]
    /\ UNCHANGED <<dto, stored>>

\* setSensorsIntervals runs in onModuleInit, before any handler is registered.
Boot ==
    /\ ~up
    /\ up' = TRUE
    /\ intervals' = [c \in Client |->
                        IF c \in stored /\ dto[c].sensor THEN 1 ELSE 0]
    /\ UNCHANGED <<dto, init, phase, pending, stored, dropped>>

-----------------------------------------------------------------------------
ClientStep(c) == SendInit(c) \/ AddDevice(c) \/ AddDeviceAgain(c)

MessageStep(m) == \/ SendStatus(m) \/ AbortNewDevice(m)
                  \/ ConfirmUnknown(m) \/ BeginSave(m) \/ RejectParallelSave(m)
                  \/ DbInsert(m) \/ SaveFails(m) \/ FinishConfirm(m)

Next == \/ \E c \in Client : ClientStep(c)
        \/ \E m \in Message : MessageStep(m)
        \/ Crash \/ Boot

Spec == Init /\ [][Next]_vars

(* The broker delivers what is queued and node resumes what is ready (weak *)
(* fairness); an insert that is tried again and again succeeds in the end  *)
(* (strong fairness); a stopped service is started again.  Clients owe     *)
(* nothing.                                                                *)
Fairness ==
    /\ \A c \in Client : WF_vars(AddDevice(c)) /\ WF_vars(AddDeviceAgain(c))
    /\ \A m \in Message :
          /\ WF_vars(AbortNewDevice(m)) /\ WF_vars(ConfirmUnknown(m))
          /\ WF_vars(BeginSave(m)) /\ SF_vars(DbInsert(m))
          /\ WF_vars(SaveFails(m)) /\ WF_vars(FinishConfirm(m))
    /\ WF_vars(Boot)

FairSpec == Spec /\ Fairness

-----------------------------------------------------------------------------
(* Properties.                                                             *)

\* The types, and what a stopped service holds: nothing, in memory or in its queue.
TypeOK == /\ up \in BOOLEAN
          /\ dto \in [Client -> Dto]
          /\ init \in [Client -> InitPhase]
          /\ phase \in [Message -> Phase]
          /\ pending \subseteq Client /\ stored \subseteq Client
          /\ dropped \subseteq Client
          /\ intervals \in [Client -> Nat]
          /\ ~up => /\ pending = {}
                    /\ \A c \in Client : init[c] # "queued" /\ intervals[c] = 0
                    /\ \A m \in Message : phase[m] \in {"unsent", "answered", "lost"}

\* A running service holds exactly one sampling interval for every stored
\* sensor and none for anything else, whatever duplicates, aborts, failed
\* saves and restarts came before; only between the insert and the resumption
\* of its handler (devices.service.ts:97-100) may the entry be missing.
IntervalsMatchStore ==
    up => \A c \in Client :
             \/ \E m \in Saves(c) : phase[m] = "inserted"
             \/ intervals[c] = IF c \in stored /\ dto[c].sensor THEN 1 ELSE 0

\* 'added' is the truth unless the pending document was dropped, by an abort
\* or by a restart: a duplicate or redelivered 'flashed' never answers for a
\* save that did not happen (devices.service.ts:93-107).
AddedMeansStoredUnlessDropped ==
    \A m \in Message :
        m.kind = "flashed" /\ phase[m] = "answered" => m.client \in stored \cup dropped

\* A device is described, committed and stored as the abstract wizard allows.
stage == [c \in Client |->
            CASE c \in stored -> "stored"
              [] c \notin stored /\ Saves(c) # {} -> "committing"
              [] c \notin stored /\ Saves(c) = {} /\ c \in pending -> "offered"
              [] c \notin stored /\ Saves(c) = {} /\ c \notin pending
                 /\ c \in dropped -> "withdrawn"
              [] OTHER -> "new"]

Wizard == INSTANCE NewDeviceSpec
ImplementsWizard == Wizard!Spec

\* Every 'flashed' of a well-formed device is answered or lost with a restart:
\* duplicates that collide in save (ParallelSaveError) are requeued, but not
\* forever.
FlashedAnswered ==
    \A m \in Message :
        (m.kind = "flashed" /\ phase[m] = "queued" /\ dto[m.client].valid)
            ~> phase[m] \in {"answered", "lost"}
==============================================================================
