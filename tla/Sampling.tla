------------------------------- MODULE Sampling -------------------------------
(***************************************************************************)
(* How the devices service samples its sensors: sensorsHandler             *)
(* (devices.controller.ts:224-243) with the SensorInterval objects that    *)
(* throttle it (sensors-intervals.ts), and the calls that change devices   *)
(* under it, updateDevice and removeDevice (devices.service.ts:113-150).   *)
(*                                                                         *)
(* Readings wait in the durable queue devices-sensors and are delivered    *)
(* again when the service stops before it acknowledges them.  Calls wait   *)
(* in autoDelete queues and are lost with the service.  A handler that     *)
(* throws puts its message back.  All handlers share one node process:     *)
(* a step is what runs between two awaits.                                 *)
(***************************************************************************)
EXTENDS Naturals, FiniteSets

CONSTANTS Device,           \* the sensors of the collection, at first
          Nr,               \* numbers the readings of a device
          Call,             \* calls of updateDevice and removeDevice
          Period,           \* sampling intervals
          Garbled,          \* numbers of the readings that lack the values of a DHT11
          Prefetch,         \* deliveries of one consumer not yet acknowledged
          NoPeriod, NoRequest

ASSUME PrefetchAssumption == Prefetch \in Nat \ {0}
ASSUME GarbledAssumption == Garbled \subseteq Nr

Reading == [dev : Device, nr : Nr]

\* saving: inside await saveDataMessage, the row not inserted yet; saved: it is,
\* the handler not resumed yet; done: acknowledged.
ReadingPhase == {"unsent", "queued", "saving", "saved", "done"}

\* A DTO without interval has NoPeriod; pin tells if it has a pin, names what its
\* 'device' names: a sensor of a vendor, something else, or none if it has none.
\* Nothing validates a DTO: castable tells if mongoose can cast its fields.
Request == [op : {"update"}, dev : Device, period : Period \cup {NoPeriod}, pin : BOOLEAN,
            names : {"none", "sensor", "other"}, castable : BOOLEAN]
             \cup [op : {"remove"}, dev : Device]

ASSUME NullAssumption == NoPeriod \notin Period /\ NoRequest \notin Request

\* found: findById has answered; writing: the update is on its way to the
\* database; removed: the device is gone, its data is not yet.
CallPhase == {"unsent", "queued", "found", "writing", "removed", "answered", "lost"}

VARIABLES up,               \* the service is running and consuming
          observed,         \* observersExist()
          stored, dbPeriod, \* the devices collection: members and their interval,
          vended,           \* and the ones whose 'device' names a vendor's sensor
          rows,             \* readings with a row in the data collection
          listed, period,   \* sensorsIntervals: members and their interval
          ready,            \* ready flag of the listed SensorInterval
          phase,            \* phase of each reading
          fresh,            \* the SensorInterval its handler holds is still listed
          request, step,    \* content and phase of each call
          window,           \* history: samples begun since the last tick
          tainted,          \* history: interval written past the memory, see below
          bootStore         \* history: what was stored when the service started

store == <<stored, dbPeriod, vended>>
memory == <<listed, period, ready>>
readings == <<phase, fresh, rows, window>>
calls == <<request, step>>
vars == <<up, observed, store, memory, readings, calls, tainted, bootStore>>

Init == /\ up = TRUE /\ observed = FALSE
        /\ stored = Device /\ listed = Device /\ bootStore = Device
        /\ dbPeriod \in [Device -> Period] /\ vended \in SUBSET Device
        /\ period = dbPeriod
        /\ ready = [d \in Device |-> TRUE]
        /\ phase = [r \in Reading |-> "unsent"]
        /\ fresh = [r \in Reading |-> FALSE]
        /\ rows = {}
        /\ request = [k \in Call |-> NoRequest]
        /\ step = [k \in Call |-> "unsent"]
        /\ window = [d \in Device |-> {}]
        /\ tainted = {}

-----------------------------------------------------------------------------
(* SensorInterval: the timer of a listed entry fires.  Timers of replaced  *)
(* entries go on firing, but nobody reads their flag any more.             *)

Tick(d) ==
    /\ up /\ d \in listed
    /\ ready' = [ready EXCEPT ![d] = TRUE]
    /\ window' = [window EXCEPT ![d] = {}]
    /\ UNCHANGED <<up, observed, store, listed, period, phase, fresh, rows, calls,
                   tainted, bootStore>>

-----------------------------------------------------------------------------
(* sensorsHandler.                                                         *)

InFlight == {r \in Reading : phase[r] \in {"saving", "saved"}}

\* A device publishes whether or not the service runs.
SendReading(r) ==
    /\ phase[r] = "unsent"
    /\ phase' = [phase EXCEPT ![r] = "queued"]
    /\ UNCHANGED <<up, observed, store, memory, fresh, rows, window, calls, tainted, bootStore>>

Delivered(r) == up /\ phase[r] = "queued" /\ Cardinality(InFlight) < Prefetch

\* deviceInterval.gpio of an undefined deviceInterval, or msg.DHT11.Temperature of
\* a message without DHT11, which is read to save it or to show it.
Throws(r) == IF r.dev \in listed THEN r.nr \in Garbled /\ (ready[r.dev] \/ observed)
             ELSE observed

\* The flag is read here, and cleared only in FinishSample.
StartSample(r) ==
    /\ Delivered(r) /\ ~Throws(r)
    /\ r.dev \in listed /\ ready[r.dev]
    /\ phase' = [phase EXCEPT ![r] = "saving"]
    /\ fresh' = [fresh EXCEPT ![r] = TRUE]
    /\ window' = [window EXCEPT ![r.dev] = @ \cup {r}]
    /\ UNCHANGED <<up, observed, store, memory, rows, calls, tainted, bootStore>>

\* Mutant: deviceInterval.ready is read without asking for deviceInterval.
SkipSample_KnownOnly(r) ==
    /\ Delivered(r) /\ ~Throws(r)
    /\ r.dev \in listed /\ ~ready[r.dev]
    /\ phase' = [phase EXCEPT ![r] = "done"]
    /\ UNCHANGED <<up, observed, store, memory, fresh, rows, window, calls, tainted, bootStore>>

\* Not due, or of no known sensor while nobody watches: acknowledged unsaved.
SkipSample(r) ==
    /\ Delivered(r) /\ ~Throws(r)
    /\ r.dev \in listed => ~ready[r.dev]
    /\ phase' = [phase EXCEPT ![r] = "done"]
    /\ UNCHANGED <<up, observed, store, memory, fresh, rows, window, calls, tainted, bootStore>>

\* The message is requeued.
ThrowReading(r) ==
    /\ Delivered(r) /\ Throws(r)
    /\ UNCHANGED vars

InsertRow(r) ==
    /\ phase[r] = "saving"
    /\ rows' = rows \cup {r}
    /\ phase' = [phase EXCEPT ![r] = "saved"]
    /\ UNCHANGED <<up, observed, store, memory, fresh, window, calls, tainted, bootStore>>

RowFails(r) ==
    /\ phase[r] = "saving"
    /\ phase' = [phase EXCEPT ![r] = "queued"]
    /\ fresh' = [fresh EXCEPT ![r] = FALSE]
    /\ window' = [window EXCEPT ![r.dev] = @ \ {r}]
    /\ UNCHANGED <<up, observed, store, memory, rows, calls, tainted, bootStore>>

\* Mutant: the flag is not cleared.
FinishSample_StaysReady(r) ==
    /\ phase[r] = "saved"
    /\ phase' = [phase EXCEPT ![r] = "done"]
    /\ fresh' = [fresh EXCEPT ![r] = FALSE]
    /\ UNCHANGED <<up, observed, store, memory, rows, window, calls, tainted, bootStore>>

FinishSample(r) ==
    /\ phase[r] = "saved"
    /\ ready' = IF fresh[r] THEN [ready EXCEPT ![r.dev] = FALSE] ELSE ready
    /\ phase' = [phase EXCEPT ![r] = "done"]
    /\ fresh' = [fresh EXCEPT ![r] = FALSE]
    /\ UNCHANGED <<up, observed, store, listed, period, rows, window, calls, tainted, bootStore>>

-----------------------------------------------------------------------------
(* updateDevice and removeDevice.  (That at most Prefetch of either are     *)
(* handled at a time is left out.)                                         *)

SendCall(k, q) ==
    /\ step[k] = "unsent"
    /\ request' = [request EXCEPT ![k] = q]
    /\ step' = [step EXCEPT ![k] = IF up THEN "queued" ELSE "lost"]
    /\ UNCHANGED <<up, observed, store, memory, readings, tainted, bootStore>>

Is(k, op) == step[k] # "unsent" /\ request[k].op = op

\* newDevice.pin && newDevice.interval
Throttles(k) == /\ Is(k, "update")
                /\ request[k].pin /\ request[k].period # NoPeriod

MustFind(k) == Is(k, "remove") \/ Throttles(k)

\* What findById, and for an update getVendorDeviceGpio and the command to the pin,
\* need: the device, and a vendor's gpio for what its 'device' names.
Finds(k) == /\ request[k].dev \in stored
            /\ Throttles(k) => request[k].dev \in vended

\* Mutant: the case of the removals is missing.
FindDevice_UpdatesOnly(k) ==
    /\ step[k] = "queued" /\ Throttles(k) /\ Finds(k)
    /\ step' = [step EXCEPT ![k] = "found"]
    /\ UNCHANGED <<up, observed, store, memory, readings, request, tainted, bootStore>>

FindDevice(k) ==
    /\ step[k] = "queued" /\ MustFind(k) /\ Finds(k)
    /\ step' = [step EXCEPT ![k] = "found"]
    /\ UNCHANGED <<up, observed, store, memory, readings, request, tainted, bootStore>>

\* Both handlers use the null that findById returned, getVendorDeviceGpio uses the
\* undefined that find returned, and there is no Buffer of the undefined gpio of a
\* switch: the call is requeued.
ThrowNotFound(k) ==
    /\ step[k] = "queued" /\ MustFind(k) /\ ~Finds(k)
    /\ UNCHANGED vars

\* Mutant: the new SensorInterval is given the old interval.
ResetInterval_OldPeriod(k) ==
    /\ step[k] = "found" /\ Is(k, "update")
    /\ LET d == request[k].dev IN
       /\ listed' = listed \cup {d}
       /\ ready' = [ready EXCEPT ![d] = TRUE]
       /\ fresh' = [r \in Reading |-> fresh[r] /\ r.dev # d]
       /\ window' = [window EXCEPT ![d] = {}]
       /\ tainted' = IF \E j \in Call : step[j] = "writing" /\ request[j].dev = d
                     THEN tainted \cup {d} ELSE tainted
    /\ step' = [step EXCEPT ![k] = "writing"]
    /\ UNCHANGED <<up, observed, store, period, phase, rows, request, bootStore>>

\* resetSensorInterval, before the database is asked to change anything.
ResetInterval(k) ==
    /\ step[k] = "found" /\ Is(k, "update")
    /\ LET d == request[k].dev IN
       /\ listed' = listed \cup {d}
       /\ period' = [period EXCEPT ![d] = request[k].period]
       /\ ready' = [ready EXCEPT ![d] = TRUE]
       /\ fresh' = [r \in Reading |-> fresh[r] /\ r.dev # d]
       /\ window' = [window EXCEPT ![d] = {}]
       /\ tainted' = IF \E j \in Call : step[j] = "writing" /\ request[j].dev = d
                     THEN tainted \cup {d} ELSE tainted
    /\ step' = [step EXCEPT ![k] = "writing"]
    /\ UNCHANGED <<up, observed, store, phase, rows, request, bootStore>>

\* updateById; without both a pin and an interval it is all updateDevice does.
Updating(k) == /\ Is(k, "update")
               /\ step[k] = "writing" \/ (step[k] = "queued" /\ ~Throttles(k))

\* Mutant: the DTO is stored without filtering what is undefined.
UpdateStore_Unfiltered(k) ==
    /\ Updating(k) /\ request[k].castable
    /\ dbPeriod' = [dbPeriod EXCEPT ![request[k].dev] = request[k].period]
    /\ step' = [step EXCEPT ![k] = "answered"]
    /\ UNCHANGED <<up, observed, stored, vended, memory, readings, request, tainted, bootStore>>

UpdateStore(k) ==
    /\ Updating(k) /\ request[k].castable
    /\ LET d == request[k].dev
           writes == d \in stored /\ request[k].period # NoPeriod IN
       /\ dbPeriod' = IF writes THEN [dbPeriod EXCEPT ![d] = request[k].period] ELSE dbPeriod
       /\ vended' = CASE d \notin stored \/ request[k].names = "none" -> vended
                      [] d \in stored /\ request[k].names = "sensor" -> vended \cup {d}
                      [] d \in stored /\ request[k].names = "other" -> vended \ {d}
       /\ tainted' = IF writes /\ ~request[k].pin THEN tainted \cup {d} ELSE tainted
    /\ step' = [step EXCEPT ![k] = "answered"]
    /\ UNCHANGED <<up, observed, stored, memory, readings, request, bootStore>>

\* The database refuses, or mongoose cannot cast a field, as on every later try: the
\* call is requeued, and the memory keeps the new interval, number or not.
UpdateFails(k) ==
    /\ Updating(k)
    /\ step' = [step EXCEPT ![k] = "queued"]
    /\ UNCHANGED <<up, observed, store, memory, readings, request, tainted, bootStore>>

\* The SensorInterval stays listed.
RemoveDevice(k) ==
    /\ step[k] = "found" /\ Is(k, "remove")
    /\ stored' = stored \ {request[k].dev}
    /\ step' = [step EXCEPT ![k] = "removed"]
    /\ UNCHANGED <<up, observed, dbPeriod, vended, memory, readings, request, tainted, bootStore>>

RemoveData(k) ==
    /\ step[k] = "removed"
    /\ rows' = {r \in rows : r.dev # request[k].dev}
    /\ step' = [step EXCEPT ![k] = "answered"]
    /\ UNCHANGED <<up, observed, store, memory, phase, fresh, window, request, tainted, bootStore>>

\* The second of the two removals fails: the redelivery finds no device.
RemoveFails(k) ==
    /\ step[k] = "removed" \/ (step[k] = "found" /\ Is(k, "remove"))
    /\ step' = [step EXCEPT ![k] = "queued"]
    /\ UNCHANGED <<up, observed, store, memory, readings, request, tainted, bootStore>>

-----------------------------------------------------------------------------
(* Observers, restarts.                                                    *)

SetObserved == /\ up
               /\ observed' \in BOOLEAN
               /\ UNCHANGED <<up, store, memory, readings, calls, tainted, bootStore>>

Crash ==
    /\ up
    /\ up' = FALSE
    /\ observed' = FALSE
    /\ listed' = {}
    /\ phase' = [r \in Reading |-> IF r \in InFlight THEN "queued" ELSE phase[r]]
    /\ fresh' = [r \in Reading |-> FALSE]
    /\ window' = [d \in Device |-> {}]
    /\ step' = [k \in Call |-> IF step[k] \in {"unsent", "answered"}
                               THEN step[k] ELSE "lost"]
    /\ UNCHANGED <<store, period, ready, rows, request, tainted, bootStore>>

\* Mutant: the list is rebuilt from what was stored at the start before.
Boot_OldStore ==
    /\ ~up
    /\ up' = TRUE
    /\ listed' = bootStore
    /\ period' = dbPeriod
    /\ ready' = [d \in Device |-> TRUE]
    /\ tainted' = {}
    /\ bootStore' = stored
    /\ UNCHANGED <<observed, store, readings, calls>>

\* setSensorsIntervals, before any handler is registered.
Boot ==
    /\ ~up
    /\ up' = TRUE
    /\ listed' = stored
    /\ period' = dbPeriod
    /\ ready' = [d \in Device |-> TRUE]
    /\ tainted' = {}
    /\ bootStore' = stored
    /\ UNCHANGED <<observed, store, readings, calls>>

-----------------------------------------------------------------------------
ReadingStep(r) == \/ SendReading(r) \/ StartSample(r) \/ SkipSample(r)
                  \/ ThrowReading(r) \/ InsertRow(r) \/ RowFails(r)
                  \/ FinishSample(r)

CallStep(k) == \/ \E q \in Request : SendCall(k, q)
               \/ FindDevice(k) \/ ThrowNotFound(k) \/ ResetInterval(k)
               \/ UpdateStore(k) \/ UpdateFails(k)
               \/ RemoveDevice(k) \/ RemoveData(k) \/ RemoveFails(k)

Next == \/ \E d \in Device : Tick(d)
        \/ \E r \in Reading : ReadingStep(r)
        \/ \E k \in Call : CallStep(k)
        \/ SetObserved \/ Crash \/ Boot

Spec == Init /\ [][Next]_vars

\* What is requeued goes back to its old place: Prefetch messages that throw each
\* time can take all deliveries, and those behind them are never delivered.
Clogged == Cardinality({r \in Reading : phase[r] = "queued" /\ Throws(r)}) >= Prefetch

Stuck(k) == \/ MustFind(k) /\ ~Finds(k)
            \/ Is(k, "update") /\ ~request[k].castable

Open(k) == step[k] \in {"queued", "found", "writing", "removed"}

Beside(k) == {j \in Call \ {k} : Open(j) /\ Is(j, request[k].op) /\ Stuck(j)}

Held(k) == Open(k) /\ Cardinality(Beside(k)) >= Prefetch

(* Unless it is clogged, a queue delivers each of its messages, although   *)
(* others compete for the prefetch slots (strong fairness of the delivery); *)
(* node resumes what is ready; the database does not refuse for ever what  *)
(* is tried again and again; the service is started again.  The steps of   *)
(* one message are stated together where one of them follows the other.    *)
CallFairness(k) ==
    /\ WF_vars((~Held(k) /\ FindDevice(k)) \/ ResetInterval(k))
    /\ SF_vars(\/ (step[k] = "queued" => ~Held(k)) /\ UpdateStore(k)
               \/ RemoveDevice(k) \/ RemoveData(k))

Fairness ==
    /\ \A r \in Reading : /\ SF_vars(~Clogged /\ (StartSample(r) \/ SkipSample(r)))
                          /\ SF_vars(InsertRow(r) \/ FinishSample(r))
    /\ \A k \in Call : CallFairness(k)
    /\ WF_vars(Boot)

FairSpec == Spec /\ Fairness

-----------------------------------------------------------------------------
(* Properties.                                                             *)

TypeOK == /\ up \in BOOLEAN /\ observed \in BOOLEAN
          /\ stored \subseteq Device /\ vended \subseteq Device
          /\ dbPeriod \in [Device -> Period]
          /\ listed \subseteq Device /\ period \in [Device -> Period]
          /\ ready \in [Device -> BOOLEAN]
          /\ phase \in [Reading -> ReadingPhase] /\ fresh \in [Reading -> BOOLEAN]
          /\ rows \subseteq Reading
          /\ request \in [Call -> Request \cup {NoRequest}]
          /\ step \in [Call -> CallPhase]
          /\ \A k \in Call : step[k] # "unsent" => request[k] \in Request
          /\ window \in [Device -> SUBSET Reading]
          /\ tainted \subseteq Device /\ bootStore \subseteq Device

\* Between two ticks of its timer a sensor is sampled at most Prefetch times:
\* the flag is read before the await and cleared after it
\* (devices.controller.ts:234-236), so that every handler in flight may have
\* seen it set; but as soon as one of them has finished, no other starts.
SampleBound ==
    \A d \in Device : /\ Cardinality(window[d]) <= Prefetch
                      /\ ready[d] => window[d] \subseteq InFlight

\* A stored sensor is throttled with the interval the database has, unless an
\* update that is to change it is still open, or, since the service started,
\* one update wrote an interval without a pin or two of them overlapped
\* (devices.service.ts:113-126: the memory first, then the database).
OpenThrottle(k, d) == /\ step[k] \in {"queued", "found", "writing"}
                      /\ Throttles(k) /\ request[k].dev = d

ThrottleFollowsStore ==
    up => \A d \in stored \ tainted :
             \/ \E k \in Call : OpenThrottle(k, d)
             \/ d \in listed /\ period[d] = dbPeriod[d]

\* A removed sensor may still be sampled, its SensorInterval stays listed, but
\* not after the next start of the service (devices.service.ts:132-150, 305-311).
NoSampleOfForgotten ==
    [][\A r \in rows' \ rows : r.dev \in bootStore]_vars

\* Unless the service keeps stopping, every reading is acknowledged in the end,
\* except one that throws, of an unknown sensor that somebody watches or without
\* values, which is requeued as long as it does, and one that waits while Prefetch
\* of those take all deliveries (devices.controller.ts:233-240).
Drained(r) == phase[r] \in {"unsent", "done"} \/ Throws(r) \/ Clogged

ReadingsDrain == \A r \in Reading : []<>(~up \/ Drained(r))

\* Unless the service keeps stopping, every call is answered in the end, except
\* one that is requeued as long as its device is gone, or its 'device' names no
\* vendor's sensor, or for ever because a field cannot be cast, and one that waits
\* while Prefetch of those take all deliveries (devices.service.ts:57, 118-125, 137).
CallsAnswered ==
    \A k \in Call : []<>(~up \/ ~Open(k) \/ Stuck(k) \/ Held(k))
==============================================================================
