--------------------------- MODULE Sampling_proofs ---------------------------
(***************************************************************************)
(* Proofs about Sampling, for any sets of devices, readings, calls and     *)
(* intervals and any prefetch.                                             *)
(***************************************************************************)
EXTENDS Sampling, FiniteSetTheorems, TLAPS

-----------------------------------------------------------------------------
(* The inductive invariant.  SampleBound follows from where the samples of *)
(* a window are: as long as the flag is still set, all of them are in      *)
(* flight, and the prefetch bounds what is in flight.  ThrottleFollowsStore *)
(* needs what an update in the middle of its work knows: the memory has    *)
(* its interval already, unless another update overlapped.                 *)

\* The broker does not deliver more than Prefetch readings at a time.
FlightBound == IsFiniteSet(InFlight) /\ Cardinality(InFlight) <= Prefetch

\* While the flag is set, every sample of the window is still in flight and
\* holds the listed SensorInterval.
ReadyWindow ==
    \A d \in Device : ready[d] =>
        \A r \in window[d] : r \in InFlight /\ r.dev = d /\ fresh[r]

WindowBound ==
    \A d \in Device : IsFiniteSet(window[d]) /\ Cardinality(window[d]) <= Prefetch

\* A stopped service has nothing in flight, and no call survives it.
DownHoldsNothing ==
    ~up => /\ InFlight = {}
           /\ \A d \in Device : window[d] = {}
           /\ \A k \in Call : step[k] \notin {"queued", "found", "writing", "removed"}

\* An update on its way to the database has its interval in memory already, and
\* is alone, unless its device is tainted.
WritingAgrees ==
    \A k \in Call : step[k] = "writing" =>
        /\ Throttles(k)
        /\ LET d == request[k].dev IN
           \/ d \in tainted
           \/ /\ d \in listed /\ period[d] = request[k].period
              /\ \A j \in Call : step[j] = "writing" /\ request[j].dev = d => j = k

\* Only an update that throttles or a removal looks its device up.
FoundIsWanted ==
    \A k \in Call : step[k] = "found" => MustFind(k)

\* Whatever the running service knows of was stored when it started.
KnownSinceBoot ==
    up => /\ stored \cup listed \subseteq bootStore
          /\ \A r \in InFlight : r.dev \in bootStore
          /\ \A k \in Call : step[k] = "found" => request[k].dev \in bootStore

IInv == /\ TypeOK
        /\ FlightBound
        /\ ReadyWindow
        /\ WindowBound
        /\ DownHoldsNothing
        /\ WritingAgrees
        /\ FoundIsWanted
        /\ KnownSinceBoot
        /\ ThrottleFollowsStore

-----------------------------------------------------------------------------
(* The initial states, and one lemma per action.                           *)

\* A reading belongs to a device, a request is for one.
LEMMA ReadingDevice == ASSUME NEW r \in Reading PROVE r.dev \in Device
  BY DEF Reading

LEMMA RequestType ==
  ASSUME NEW q \in Request
  PROVE  /\ q.dev \in Device
         /\ q.op = "update" => /\ q.period \in Period \cup {NoPeriod} /\ q.pin \in BOOLEAN
                               /\ q.names \in {"none", "sensor", "other"}
  BY DEF Request

LEMMA InitIInv == Init => IInv
  <1> SUFFICES ASSUME Init PROVE IInv
    OBVIOUS
  <1>1. InFlight = {}
    BY DEF Init, InFlight
  <1>2. IsFiniteSet({}) /\ Cardinality({}) = 0
    BY FS_EmptySet
  <1>3. FlightBound /\ WindowBound
    BY <1>1, <1>2, PrefetchAssumption DEF FlightBound, WindowBound, Init
  <1>4. TypeOK
    BY DEF Init, TypeOK, ReadingPhase, CallPhase
  <1>5. ReadyWindow /\ DownHoldsNothing /\ WritingAgrees /\ FoundIsWanted
        /\ KnownSinceBoot /\ ThrottleFollowsStore
    BY <1>1 DEF Init, ReadyWindow, DownHoldsNothing, WritingAgrees, FoundIsWanted,
       KnownSinceBoot, ThrottleFollowsStore
  <1>6. QED
    BY <1>3, <1>4, <1>5 DEF IInv

LEMMA TickStep ==
  ASSUME IInv, NEW d \in Device, Tick(d)
  PROVE  IInv'
  <1> USE ReadingDevice, RequestType DEF IInv, store, memory, readings, calls, Tick
  <1>1. TypeOK'
    BY DEF TypeOK, ReadingPhase, CallPhase
  <1>2. FlightBound'
    BY DEF FlightBound, InFlight
  <1>3. ReadyWindow'
    BY DEF TypeOK, ReadyWindow, InFlight
  <1>4. WindowBound'
    BY FS_EmptySet, PrefetchAssumption DEF TypeOK, WindowBound
  <1>5. DownHoldsNothing'
    BY DEF TypeOK, DownHoldsNothing, InFlight
  <1>6. WritingAgrees'
    BY DEF TypeOK, WritingAgrees, Throttles, Is
  <1>7. FoundIsWanted'
    BY DEF TypeOK, FoundIsWanted, MustFind, Throttles, Is
  <1>8. ThrottleFollowsStore'
    BY DEF TypeOK, ThrottleFollowsStore, OpenThrottle, Throttles, Is
  <1>9. KnownSinceBoot'
    BY DEF TypeOK, KnownSinceBoot, InFlight
  <1>q. QED
    BY <1>1, <1>2, <1>3, <1>4, <1>5, <1>6, <1>7, <1>8, <1>9

LEMMA SendReadingStep ==
  ASSUME IInv, NEW r \in Reading, SendReading(r)
  PROVE  IInv'
  <1> USE ReadingDevice, RequestType DEF IInv, store, memory, readings, calls, SendReading
  <1>a. InFlight' \subseteq InFlight
    BY DEF InFlight, TypeOK
  <1>b. IsFiniteSet(InFlight') /\ Cardinality(InFlight') <= Cardinality(InFlight)
    BY <1>a, FS_Subset DEF FlightBound
  <1>1. TypeOK'
    BY DEF TypeOK, ReadingPhase, CallPhase
  <1>2. FlightBound'
    BY <1>b, FS_CardinalityType, PrefetchAssumption DEF FlightBound, InFlight
  <1>3. ReadyWindow'
    BY DEF TypeOK, ReadyWindow, InFlight
  <1>4. WindowBound'
    BY DEF TypeOK, WindowBound
  <1>5. DownHoldsNothing'
    BY DEF TypeOK, DownHoldsNothing, InFlight
  <1>6. WritingAgrees'
    BY DEF TypeOK, WritingAgrees, Throttles, Is
  <1>7. FoundIsWanted'
    BY DEF TypeOK, FoundIsWanted, MustFind, Throttles, Is
  <1>8. ThrottleFollowsStore'
    BY DEF TypeOK, ThrottleFollowsStore, OpenThrottle, Throttles, Is
  <1>9. KnownSinceBoot'
    BY DEF TypeOK, KnownSinceBoot, InFlight
  <1>q. QED
    BY <1>1, <1>2, <1>3, <1>4, <1>5, <1>6, <1>7, <1>8, <1>9

LEMMA StartSampleStep ==
  ASSUME IInv, NEW r \in Reading, StartSample(r)
  PROVE  IInv'
  <1> USE ReadingDevice, RequestType DEF IInv, store, memory, readings, calls, StartSample, Delivered
  <1>a. InFlight' = InFlight \cup {r} /\ r \notin InFlight
    BY DEF InFlight, TypeOK
  <1>b. IsFiniteSet(InFlight') /\ Cardinality(InFlight') <= Prefetch
    <2>1. IsFiniteSet(InFlight) /\ Cardinality(InFlight) \in Nat
      BY FS_CardinalityType DEF FlightBound
    <2>2. IsFiniteSet(InFlight') /\ Cardinality(InFlight') = Cardinality(InFlight) + 1
      BY <1>a, <2>1, FS_AddElement
    <2>3. QED
      BY <2>1, <2>2, PrefetchAssumption
  <1>c. IsFiniteSet(window'[r.dev]) /\ Cardinality(window'[r.dev]) <= Prefetch
    <2>1. window'[r.dev] \subseteq InFlight'
      BY <1>a DEF ReadyWindow, TypeOK
    <2>2. QED
      BY <1>b, <2>1, FS_Subset, FS_CardinalityType, PrefetchAssumption
  <1>1. TypeOK'
    BY DEF TypeOK, ReadingPhase, CallPhase
  <1>2. FlightBound'
    BY <1>b, FS_CardinalityType, PrefetchAssumption DEF FlightBound, InFlight
  <1>3. ReadyWindow'
    BY DEF TypeOK, ReadyWindow, InFlight
  <1>4. WindowBound'
    BY <1>c DEF TypeOK, WindowBound
  <1>5. DownHoldsNothing'
    BY DEF TypeOK, DownHoldsNothing, InFlight
  <1>6. WritingAgrees'
    BY DEF TypeOK, WritingAgrees, Throttles, Is
  <1>7. FoundIsWanted'
    BY DEF TypeOK, FoundIsWanted, MustFind, Throttles, Is
  <1>8. ThrottleFollowsStore'
    BY DEF TypeOK, ThrottleFollowsStore, OpenThrottle, Throttles, Is
  <1>9. KnownSinceBoot'
    BY DEF TypeOK, KnownSinceBoot, InFlight
  <1>q. QED
    BY <1>1, <1>2, <1>3, <1>4, <1>5, <1>6, <1>7, <1>8, <1>9

LEMMA SkipSampleStep ==
  ASSUME IInv, NEW r \in Reading, SkipSample(r)
  PROVE  IInv'
  <1> USE ReadingDevice, RequestType DEF IInv, store, memory, readings, calls, SkipSample, Delivered
  <1>a. InFlight' \subseteq InFlight
    BY DEF InFlight, TypeOK
  <1>b. IsFiniteSet(InFlight') /\ Cardinality(InFlight') <= Cardinality(InFlight)
    BY <1>a, FS_Subset DEF FlightBound
  <1>1. TypeOK'
    BY DEF TypeOK, ReadingPhase, CallPhase
  <1>2. FlightBound'
    BY <1>b, FS_CardinalityType, PrefetchAssumption DEF FlightBound, InFlight
  <1>3. ReadyWindow'
    BY DEF TypeOK, ReadyWindow, InFlight
  <1>4. WindowBound'
    BY DEF TypeOK, WindowBound
  <1>5. DownHoldsNothing'
    BY DEF TypeOK, DownHoldsNothing, InFlight
  <1>6. WritingAgrees'
    BY DEF TypeOK, WritingAgrees, Throttles, Is
  <1>7. FoundIsWanted'
    BY DEF TypeOK, FoundIsWanted, MustFind, Throttles, Is
  <1>8. ThrottleFollowsStore'
    BY DEF TypeOK, ThrottleFollowsStore, OpenThrottle, Throttles, Is
  <1>9. KnownSinceBoot'
    BY DEF TypeOK, KnownSinceBoot, InFlight
  <1>q. QED
    BY <1>1, <1>2, <1>3, <1>4, <1>5, <1>6, <1>7, <1>8, <1>9

LEMMA InsertRowStep ==
  ASSUME IInv, NEW r \in Reading, InsertRow(r)
  PROVE  IInv'
  <1> USE ReadingDevice, RequestType DEF IInv, store, memory, readings, calls, InsertRow
  <1>a. InFlight' \subseteq InFlight
    BY DEF InFlight, TypeOK
  <1>b. IsFiniteSet(InFlight') /\ Cardinality(InFlight') <= Cardinality(InFlight)
    BY <1>a, FS_Subset DEF FlightBound
  <1>1. TypeOK'
    BY DEF TypeOK, ReadingPhase, CallPhase
  <1>2. FlightBound'
    BY <1>b, FS_CardinalityType, PrefetchAssumption DEF FlightBound, InFlight
  <1>3. ReadyWindow'
    BY DEF TypeOK, ReadyWindow, InFlight
  <1>4. WindowBound'
    BY DEF TypeOK, WindowBound
  <1>5. DownHoldsNothing'
    BY DEF TypeOK, DownHoldsNothing, InFlight
  <1>6. WritingAgrees'
    BY DEF TypeOK, WritingAgrees, Throttles, Is
  <1>7. FoundIsWanted'
    BY DEF TypeOK, FoundIsWanted, MustFind, Throttles, Is
  <1>8. ThrottleFollowsStore'
    BY DEF TypeOK, ThrottleFollowsStore, OpenThrottle, Throttles, Is
  <1>9. KnownSinceBoot'
    BY DEF TypeOK, KnownSinceBoot, InFlight
  <1>q. QED
    BY <1>1, <1>2, <1>3, <1>4, <1>5, <1>6, <1>7, <1>8, <1>9

LEMMA RowFailsStep ==
  ASSUME IInv, NEW r \in Reading, RowFails(r)
  PROVE  IInv'
  <1> USE ReadingDevice, RequestType DEF IInv, store, memory, readings, calls, RowFails
  <1>a. InFlight' \subseteq InFlight
    BY DEF InFlight, TypeOK
  <1>b. IsFiniteSet(InFlight') /\ Cardinality(InFlight') <= Cardinality(InFlight)
    BY <1>a, FS_Subset DEF FlightBound
  <1>c. IsFiniteSet(window'[r.dev]) /\ Cardinality(window'[r.dev]) <= Prefetch
    <2>1. window'[r.dev] \subseteq window[r.dev] /\ IsFiniteSet(window[r.dev])
      BY DEF WindowBound, TypeOK
    <2>2. QED
      BY <2>1, FS_Subset, FS_CardinalityType, PrefetchAssumption DEF WindowBound
  <1>1. TypeOK'
    BY DEF TypeOK, ReadingPhase, CallPhase
  <1>2. FlightBound'
    BY <1>b, FS_CardinalityType, PrefetchAssumption DEF FlightBound, InFlight
  <1>3. ReadyWindow'
    BY DEF TypeOK, ReadyWindow, InFlight
  <1>4. WindowBound'
    BY <1>c DEF TypeOK, WindowBound
  <1>5. DownHoldsNothing'
    BY DEF TypeOK, DownHoldsNothing, InFlight
  <1>6. WritingAgrees'
    BY DEF TypeOK, WritingAgrees, Throttles, Is
  <1>7. FoundIsWanted'
    BY DEF TypeOK, FoundIsWanted, MustFind, Throttles, Is
  <1>8. ThrottleFollowsStore'
    BY DEF TypeOK, ThrottleFollowsStore, OpenThrottle, Throttles, Is
  <1>9. KnownSinceBoot'
    BY DEF TypeOK, KnownSinceBoot, InFlight
  <1>q. QED
    BY <1>1, <1>2, <1>3, <1>4, <1>5, <1>6, <1>7, <1>8, <1>9

LEMMA FinishSampleStep ==
  ASSUME IInv, NEW r \in Reading, FinishSample(r)
  PROVE  IInv'
  <1> USE ReadingDevice, RequestType DEF IInv, store, memory, readings, calls, FinishSample
  <1>a. InFlight' \subseteq InFlight
    BY DEF InFlight, TypeOK
  <1>b. IsFiniteSet(InFlight') /\ Cardinality(InFlight') <= Cardinality(InFlight)
    BY <1>a, FS_Subset DEF FlightBound
  <1>1. TypeOK'
    BY DEF TypeOK, ReadingPhase, CallPhase
  <1>2. FlightBound'
    BY <1>b, FS_CardinalityType, PrefetchAssumption DEF FlightBound, InFlight
  <1>3. ReadyWindow'
    BY DEF TypeOK, ReadyWindow, InFlight
  <1>4. WindowBound'
    BY DEF TypeOK, WindowBound
  <1>5. DownHoldsNothing'
    BY DEF TypeOK, DownHoldsNothing, InFlight
  <1>6. WritingAgrees'
    BY DEF TypeOK, WritingAgrees, Throttles, Is
  <1>7. FoundIsWanted'
    BY DEF TypeOK, FoundIsWanted, MustFind, Throttles, Is
  <1>8. ThrottleFollowsStore'
    BY DEF TypeOK, ThrottleFollowsStore, OpenThrottle, Throttles, Is
  <1>9. KnownSinceBoot'
    BY DEF TypeOK, KnownSinceBoot, InFlight
  <1>q. QED
    BY <1>1, <1>2, <1>3, <1>4, <1>5, <1>6, <1>7, <1>8, <1>9

LEMMA SendCallStep ==
  ASSUME IInv, NEW k \in Call, NEW q \in Request, SendCall(k, q)
  PROVE  IInv'
  <1> USE ReadingDevice, RequestType DEF IInv, store, memory, readings, calls, SendCall
  <1>1. TypeOK'
    BY DEF TypeOK, ReadingPhase, CallPhase
  <1>2. FlightBound'
    BY DEF FlightBound, InFlight
  <1>3. ReadyWindow'
    BY DEF TypeOK, ReadyWindow, InFlight
  <1>4. WindowBound'
    BY DEF TypeOK, WindowBound
  <1>5. DownHoldsNothing'
    BY DEF TypeOK, DownHoldsNothing, InFlight
  <1>6. WritingAgrees'
    BY DEF TypeOK, WritingAgrees, Throttles, Is
  <1>7. FoundIsWanted'
    BY DEF TypeOK, FoundIsWanted, MustFind, Throttles, Is
  <1>8. ThrottleFollowsStore'
    BY DEF TypeOK, ThrottleFollowsStore, OpenThrottle, Throttles, Is
  <1>9. KnownSinceBoot'
    BY DEF TypeOK, KnownSinceBoot, InFlight
  <1>q. QED
    BY <1>1, <1>2, <1>3, <1>4, <1>5, <1>6, <1>7, <1>8, <1>9

LEMMA FindDeviceStep ==
  ASSUME IInv, NEW k \in Call, FindDevice(k)
  PROVE  IInv'
  <1> USE ReadingDevice, RequestType DEF IInv, store, memory, readings, calls, FindDevice, Finds
  <1>1. TypeOK'
    BY DEF TypeOK, ReadingPhase, CallPhase
  <1>2. FlightBound'
    BY DEF FlightBound, InFlight
  <1>3. ReadyWindow'
    BY DEF TypeOK, ReadyWindow, InFlight
  <1>4. WindowBound'
    BY DEF TypeOK, WindowBound
  <1>5. DownHoldsNothing'
    BY DEF TypeOK, DownHoldsNothing, InFlight
  <1>6. WritingAgrees'
    BY DEF TypeOK, WritingAgrees, Throttles, Is, MustFind
  <1>7. FoundIsWanted'
    BY DEF TypeOK, FoundIsWanted, MustFind, Throttles, Is
  <1>8. ThrottleFollowsStore'
    BY DEF TypeOK, ThrottleFollowsStore, OpenThrottle, Throttles, Is
  <1>9. KnownSinceBoot'
    BY DEF TypeOK, KnownSinceBoot, InFlight
  <1>q. QED
    BY <1>1, <1>2, <1>3, <1>4, <1>5, <1>6, <1>7, <1>8, <1>9

LEMMA ResetIntervalStep ==
  ASSUME IInv, NEW k \in Call, ResetInterval(k)
  PROVE  IInv'
  <1> USE ReadingDevice, RequestType DEF IInv, store, memory, readings, calls, ResetInterval
  <1>a. request[k].dev \in Device /\ request[k].period \in Period
    BY DEF TypeOK, FoundIsWanted, MustFind, Throttles, Is
  <1>1. TypeOK'
    BY <1>a DEF TypeOK, CallPhase
  <1>2. FlightBound'
    BY DEF FlightBound, InFlight
  <1>3. ReadyWindow'
    BY DEF TypeOK, ReadyWindow, InFlight
  <1>4. WindowBound'
    BY FS_EmptySet, PrefetchAssumption DEF TypeOK, WindowBound
  <1>5. DownHoldsNothing'
    BY DEF TypeOK, DownHoldsNothing, InFlight
  <1>6. WritingAgrees'
    BY DEF TypeOK, WritingAgrees, Throttles, Is, FoundIsWanted, MustFind
  <1>7. FoundIsWanted'
    BY DEF TypeOK, FoundIsWanted, MustFind, Throttles, Is
  <1>8. ThrottleFollowsStore'
    BY DEF TypeOK, ThrottleFollowsStore, OpenThrottle, Throttles, Is, FoundIsWanted, MustFind
  <1>9. KnownSinceBoot'
    BY DEF TypeOK, KnownSinceBoot, InFlight
  <1>q. QED
    BY <1>1, <1>2, <1>3, <1>4, <1>5, <1>6, <1>7, <1>8, <1>9

LEMMA UpdateStoreStep ==
  ASSUME IInv, NEW k \in Call, UpdateStore(k)
  PROVE  IInv'
  <1> USE ReadingDevice, RequestType DEF IInv, store, memory, readings, calls, UpdateStore, Updating
  <1>a. /\ request[k].dev \in Device
        /\ request[k].period # NoPeriod => request[k].period \in Period
        /\ request[k].names \in {"none", "sensor", "other"}
    BY DEF TypeOK, Is
  <1>b. vended' \subseteq Device
    BY <1>a DEF TypeOK
  <1>1. TypeOK'
    BY <1>a, <1>b DEF TypeOK, CallPhase
  <1>2. FlightBound'
    BY DEF FlightBound, InFlight
  <1>3. ReadyWindow'
    BY DEF TypeOK, ReadyWindow, InFlight
  <1>4. WindowBound'
    BY DEF TypeOK, WindowBound
  <1>5. DownHoldsNothing'
    BY DEF TypeOK, DownHoldsNothing, InFlight
  <1>6. WritingAgrees'
    BY DEF TypeOK, WritingAgrees, Throttles, Is
  <1>7. FoundIsWanted'
    BY DEF TypeOK, FoundIsWanted, MustFind, Throttles, Is
  <1>8. ThrottleFollowsStore'
    BY DEF TypeOK, ThrottleFollowsStore, OpenThrottle, Throttles, Is, WritingAgrees
  <1>9. KnownSinceBoot'
    BY DEF TypeOK, KnownSinceBoot, InFlight
  <1>q. QED
    BY <1>1, <1>2, <1>3, <1>4, <1>5, <1>6, <1>7, <1>8, <1>9

LEMMA UpdateFailsStep ==
  ASSUME IInv, NEW k \in Call, UpdateFails(k)
  PROVE  IInv'
  <1> USE ReadingDevice, RequestType DEF IInv, store, memory, readings, calls, UpdateFails, Updating
  <1>1. TypeOK'
    BY DEF TypeOK, ReadingPhase, CallPhase
  <1>2. FlightBound'
    BY DEF FlightBound, InFlight
  <1>3. ReadyWindow'
    BY DEF TypeOK, ReadyWindow, InFlight
  <1>4. WindowBound'
    BY DEF TypeOK, WindowBound
  <1>5. DownHoldsNothing'
    BY DEF TypeOK, DownHoldsNothing, InFlight
  <1>6. WritingAgrees'
    BY DEF TypeOK, WritingAgrees, Throttles, Is
  <1>7. FoundIsWanted'
    BY DEF TypeOK, FoundIsWanted, MustFind, Throttles, Is
  <1>8. ThrottleFollowsStore'
    BY DEF TypeOK, ThrottleFollowsStore, OpenThrottle, Throttles, Is
  <1>9. KnownSinceBoot'
    BY DEF TypeOK, KnownSinceBoot, InFlight
  <1>q. QED
    BY <1>1, <1>2, <1>3, <1>4, <1>5, <1>6, <1>7, <1>8, <1>9

LEMMA RemoveDeviceStep ==
  ASSUME IInv, NEW k \in Call, RemoveDevice(k)
  PROVE  IInv'
  <1> USE ReadingDevice, RequestType DEF IInv, store, memory, readings, calls, RemoveDevice
  <1>1. TypeOK'
    BY DEF TypeOK, ReadingPhase, CallPhase
  <1>2. FlightBound'
    BY DEF FlightBound, InFlight
  <1>3. ReadyWindow'
    BY DEF TypeOK, ReadyWindow, InFlight
  <1>4. WindowBound'
    BY DEF TypeOK, WindowBound
  <1>5. DownHoldsNothing'
    BY DEF TypeOK, DownHoldsNothing, InFlight
  <1>6. WritingAgrees'
    BY DEF TypeOK, WritingAgrees, Throttles, Is
  <1>7. FoundIsWanted'
    BY DEF TypeOK, FoundIsWanted, MustFind, Throttles, Is
  <1>8. ThrottleFollowsStore'
    BY DEF TypeOK, ThrottleFollowsStore, OpenThrottle, Throttles, Is
  <1>9. KnownSinceBoot'
    BY DEF TypeOK, KnownSinceBoot, InFlight
  <1>q. QED
    BY <1>1, <1>2, <1>3, <1>4, <1>5, <1>6, <1>7, <1>8, <1>9

LEMMA RemoveDataStep ==
  ASSUME IInv, NEW k \in Call, RemoveData(k)
  PROVE  IInv'
  <1> USE ReadingDevice, RequestType DEF IInv, store, memory, readings, calls, RemoveData
  <1>1. TypeOK'
    BY DEF TypeOK, ReadingPhase, CallPhase
  <1>2. FlightBound'
    BY DEF FlightBound, InFlight
  <1>3. ReadyWindow'
    BY DEF TypeOK, ReadyWindow, InFlight
  <1>4. WindowBound'
    BY DEF TypeOK, WindowBound
  <1>5. DownHoldsNothing'
    BY DEF TypeOK, DownHoldsNothing, InFlight
  <1>6. WritingAgrees'
    BY DEF TypeOK, WritingAgrees, Throttles, Is
  <1>7. FoundIsWanted'
    BY DEF TypeOK, FoundIsWanted, MustFind, Throttles, Is
  <1>8. ThrottleFollowsStore'
    BY DEF TypeOK, ThrottleFollowsStore, OpenThrottle, Throttles, Is
  <1>9. KnownSinceBoot'
    BY DEF TypeOK, KnownSinceBoot, InFlight
  <1>q. QED
    BY <1>1, <1>2, <1>3, <1>4, <1>5, <1>6, <1>7, <1>8, <1>9

LEMMA RemoveFailsStep ==
  ASSUME IInv, NEW k \in Call, RemoveFails(k)
  PROVE  IInv'
  <1> USE ReadingDevice, RequestType DEF IInv, store, memory, readings, calls, RemoveFails
  <1>1. TypeOK'
    BY DEF TypeOK, ReadingPhase, CallPhase
  <1>2. FlightBound'
    BY DEF FlightBound, InFlight
  <1>3. ReadyWindow'
    BY DEF TypeOK, ReadyWindow, InFlight
  <1>4. WindowBound'
    BY DEF TypeOK, WindowBound
  <1>5. DownHoldsNothing'
    BY DEF TypeOK, DownHoldsNothing, InFlight
  <1>6. WritingAgrees'
    BY DEF TypeOK, WritingAgrees, Throttles, Is
  <1>7. FoundIsWanted'
    BY DEF TypeOK, FoundIsWanted, MustFind, Throttles, Is
  <1>8. ThrottleFollowsStore'
    BY DEF TypeOK, ThrottleFollowsStore, OpenThrottle, Throttles, Is
  <1>9. KnownSinceBoot'
    BY DEF TypeOK, KnownSinceBoot, InFlight
  <1>q. QED
    BY <1>1, <1>2, <1>3, <1>4, <1>5, <1>6, <1>7, <1>8, <1>9

LEMMA SetObservedStep ==
  ASSUME IInv, SetObserved
  PROVE  IInv'
  <1> USE ReadingDevice, RequestType DEF IInv, store, memory, readings, calls, SetObserved
  <1>1. TypeOK'
    BY DEF TypeOK, ReadingPhase, CallPhase
  <1>2. FlightBound'
    BY DEF FlightBound, InFlight
  <1>3. ReadyWindow'
    BY DEF TypeOK, ReadyWindow, InFlight
  <1>4. WindowBound'
    BY DEF TypeOK, WindowBound
  <1>5. DownHoldsNothing'
    BY DEF TypeOK, DownHoldsNothing, InFlight
  <1>6. WritingAgrees'
    BY DEF TypeOK, WritingAgrees, Throttles, Is
  <1>7. FoundIsWanted'
    BY DEF TypeOK, FoundIsWanted, MustFind, Throttles, Is
  <1>8. ThrottleFollowsStore'
    BY DEF TypeOK, ThrottleFollowsStore, OpenThrottle, Throttles, Is
  <1>9. KnownSinceBoot'
    BY DEF TypeOK, KnownSinceBoot, InFlight
  <1>q. QED
    BY <1>1, <1>2, <1>3, <1>4, <1>5, <1>6, <1>7, <1>8, <1>9

LEMMA CrashStep ==
  ASSUME IInv, Crash
  PROVE  IInv'
  <1> USE ReadingDevice, RequestType DEF IInv, store, memory, readings, calls, Crash
  <1>a. InFlight' = {}
    BY DEF InFlight, TypeOK
  <1>1. TypeOK'
    BY DEF TypeOK, ReadingPhase, CallPhase
  <1>2. FlightBound'
    BY <1>a, FS_EmptySet, PrefetchAssumption DEF FlightBound
  <1>3. ReadyWindow'
    BY DEF TypeOK, ReadyWindow, InFlight
  <1>4. WindowBound'
    BY FS_EmptySet, PrefetchAssumption DEF TypeOK, WindowBound
  <1>5. DownHoldsNothing'
    BY DEF TypeOK, DownHoldsNothing, InFlight
  <1>6. WritingAgrees'
    BY DEF TypeOK, WritingAgrees, Throttles, Is
  <1>7. FoundIsWanted'
    BY DEF TypeOK, FoundIsWanted, MustFind, Throttles, Is
  <1>8. ThrottleFollowsStore'
    BY DEF TypeOK, ThrottleFollowsStore, OpenThrottle, Throttles, Is
  <1>9. KnownSinceBoot'
    BY DEF TypeOK, KnownSinceBoot, InFlight
  <1>q. QED
    BY <1>1, <1>2, <1>3, <1>4, <1>5, <1>6, <1>7, <1>8, <1>9

LEMMA BootStep ==
  ASSUME IInv, Boot
  PROVE  IInv'
  <1> USE ReadingDevice, RequestType DEF IInv, store, memory, readings, calls, Boot
  <1>1. TypeOK'
    BY DEF TypeOK, ReadingPhase, CallPhase
  <1>2. FlightBound'
    BY DEF FlightBound, InFlight
  <1>3. ReadyWindow'
    BY DEF TypeOK, ReadyWindow, InFlight, DownHoldsNothing
  <1>4. WindowBound'
    BY DEF TypeOK, WindowBound
  <1>5. DownHoldsNothing'
    BY DEF TypeOK, DownHoldsNothing, InFlight
  <1>6. WritingAgrees'
    BY DEF TypeOK, WritingAgrees, Throttles, Is, DownHoldsNothing
  <1>7. FoundIsWanted'
    BY DEF TypeOK, FoundIsWanted, MustFind, Throttles, Is
  <1>8. ThrottleFollowsStore'
    BY DEF TypeOK, ThrottleFollowsStore, OpenThrottle, Throttles, Is
  <1>9. KnownSinceBoot'
    BY DEF TypeOK, KnownSinceBoot, DownHoldsNothing, InFlight
  <1>q. QED
    BY <1>1, <1>2, <1>3, <1>4, <1>5, <1>6, <1>7, <1>8, <1>9

-----------------------------------------------------------------------------
(* IInv is inductive.                                                      *)

LEMMA StutterIInv == IInv /\ UNCHANGED vars => IInv'
  BY DEF vars, store, memory, readings, calls, IInv, TypeOK, FlightBound, ReadyWindow,
     WindowBound, DownHoldsNothing, WritingAgrees, FoundIsWanted, KnownSinceBoot,
     ThrottleFollowsStore, InFlight, OpenThrottle, MustFind, Throttles, Is

LEMMA NextIInv == IInv /\ [Next]_vars => IInv'
  <1> SUFFICES ASSUME IInv, [Next]_vars PROVE IInv'
    OBVIOUS
  <1>1. ASSUME NEW r \in Reading, ReadingStep(r) PROVE IInv'
    BY <1>1, SendReadingStep, StartSampleStep, SkipSampleStep, InsertRowStep, RowFailsStep,
       FinishSampleStep, StutterIInv DEF ReadingStep, ThrowReading
  <1>2. ASSUME NEW k \in Call, CallStep(k) PROVE IInv'
    BY <1>2, SendCallStep, FindDeviceStep, ResetIntervalStep, UpdateStoreStep,
       UpdateFailsStep, RemoveDeviceStep, RemoveDataStep, RemoveFailsStep, StutterIInv
       DEF CallStep, ThrowNotFound
  <1>3. QED
    BY <1>1, <1>2, TickStep, SetObservedStep, CrashStep, BootStep, StutterIInv DEF Next

THEOREM Invariance == Spec => []IInv
  BY InitIInv, NextIInv, PTL DEF Spec

-----------------------------------------------------------------------------
(* The properties of the runs.                                             *)

\* Every variable keeps its type.
THEOREM TypeCorrect == Spec => []TypeOK
  BY Invariance, PTL DEF IInv

\* However readings, ticks, updates and restarts interleave, no more samples are
\* begun between two ticks than the prefetch allows (devices.controller.ts:230-243).
THEOREM SamplesBounded == Spec => []SampleBound
  <1>1. IInv => SampleBound
    BY DEF IInv, WindowBound, ReadyWindow, SampleBound
  <1>2. QED
    BY <1>1, Invariance, PTL

\* Updates that do not overlap leave memory and database with the same interval
\* (devices.service.ts:113-126).
THEOREM ThrottleAgrees == Spec => []ThrottleFollowsStore
  BY Invariance, PTL DEF IInv

\* No row is written for a device that was not stored when the service started
\* (devices.service.ts:132-150, 305-311).
THEOREM ForgottenNotSampled == Spec => NoSampleOfForgotten
  <1>1. ASSUME IInv, [Next]_vars PROVE \A r \in rows' \ rows : r.dev \in bootStore
    <2>1. SUFFICES ASSUME NEW r \in rows' \ rows PROVE r.dev \in bootStore
      OBVIOUS
    <2>2. PICK s \in Reading : InsertRow(s)
      BY <1>1 DEF Next, ReadingStep, CallStep, vars, readings, Tick, SendReading,
         StartSample, SkipSample, ThrowReading, RowFails, FinishSample, SendCall,
         FindDevice, ThrowNotFound, ResetInterval, UpdateStore, UpdateFails,
         RemoveDevice, RemoveData, RemoveFails, SetObserved, Crash, Boot
    <2>3. r = s /\ s \in InFlight
      BY <2>2 DEF InsertRow, InFlight
    <2>4. up
      BY <1>1, <2>3 DEF IInv, DownHoldsNothing, TypeOK
    <2>5. QED
      BY <1>1, <2>3, <2>4 DEF IInv, KnownSinceBoot
  <1>2. QED
    BY <1>1, Invariance, PTL DEF Spec, NoSampleOfForgotten
==============================================================================
