--------------------------- MODULE NewDevice_proofs ---------------------------
(***************************************************************************)
(* Proofs about NewDevice, for any set of clients and any number of copies *)
(* of each message.                                                        *)
(***************************************************************************)
EXTENDS NewDevice, TLAPS

Saving(m) == phase[m] = "saving"
Inserted(m) == phase[m] = "inserted"
InFlight(m) == phase[m] \in {"saving", "inserted"}

-----------------------------------------------------------------------------
(* The inductive invariant.  IntervalsMatchStore alone is not inductive:   *)
(* that a push cannot happen twice depends on one save being in flight per *)
(* client, on the entry staying pending for as long as a save can begin,   *)
(* and on a stored device never being pending outside the window of the    *)
(* save that stored it.                                                    *)

\* Only 'flashed' saves, one save per client at a time.
OneSavePerClient ==
    /\ \A m \in Message : InFlight(m) => m.kind = "flashed"
    /\ \A m, n \in Message : InFlight(m) /\ InFlight(n) /\ m.client = n.client => m = n

\* What is known of a client while a save of it is in flight.
SavingState ==
    \A m \in Message :
        /\ Saving(m) => /\ m.client \notin stored
                        /\ m.client \in pending \cup dropped
        /\ Inserted(m) => m.client \in stored /\ intervals[m.client] = 0

\* A device that is both stored and pending is in the window of its save.
StoredPending ==
    \A c \in pending \cap stored : \E m \in Saves(c) : Inserted(m)

\* Before its 'init' is answered a client has sent nothing else, and nothing
\* of it is stored or dropped.
BeforeAnswer ==
    \A c \in Client :
        /\ init[c] \in {"unsent", "queued"} => c \notin stored \cup dropped
        /\ init[c] # "answered" => \A m \in Message : m.client = c => phase[m] = "unsent"
        /\ init[c] = "unsent" => c \notin pending
        /\ init[c] = "queued" => up

\* Once answered, a client is pending, stored or dropped.
Answered ==
    \A c \in Client : init[c] = "answered" => c \in pending \cup stored \cup dropped

IInv == /\ TypeOK
        /\ OneSavePerClient
        /\ SavingState
        /\ StoredPending
        /\ BeforeAnswer
        /\ Answered
        /\ IntervalsMatchStore
        /\ AddedMeansStoredUnlessDropped

-----------------------------------------------------------------------------
(* The initial states, and one lemma per action.                           *)

\* A message belongs to a client.
LEMMA MessageClient == ASSUME NEW m \in Message PROVE m.client \in Client
  BY DEF Message

LEMMA InitIInv == Init => IInv
  BY MessageClient DEF Init, IInv, TypeOK, Phase, InitPhase, OneSavePerClient,
     SavingState, StoredPending, BeforeAnswer, Answered,
     IntervalsMatchStore, AddedMeansStoredUnlessDropped, InFlight, Saving, Inserted

LEMMA SendInitStep ==
  ASSUME IInv, NEW c \in Client, SendInit(c)
  PROVE  IInv'
  <1> USE MessageClient DEF IInv, memory, history, SendInit
  <1>1. TypeOK'
    BY DEF TypeOK, Phase, InitPhase
  <1>2. OneSavePerClient'
    BY DEF TypeOK, OneSavePerClient, InFlight
  <1>3. SavingState'
    BY DEF TypeOK, SavingState, Saving, Inserted
  <1>4. StoredPending'
    BY DEF TypeOK, StoredPending, Saves, Inserted
  <1>5. BeforeAnswer'
    BY DEF TypeOK, BeforeAnswer
  <1>6. Answered'
    BY DEF TypeOK, Answered
  <1>7. IntervalsMatchStore'
    BY DEF TypeOK, IntervalsMatchStore, Saves
  <1>8. AddedMeansStoredUnlessDropped'
    BY DEF TypeOK, AddedMeansStoredUnlessDropped
  <1>q. QED
    BY <1>1, <1>2, <1>3, <1>4, <1>5, <1>6, <1>7, <1>8

LEMMA SendStatusStep ==
  ASSUME IInv, NEW m \in Message, SendStatus(m)
  PROVE  IInv'
  <1> USE MessageClient DEF IInv, memory, history, SendStatus
  <1>1. TypeOK'
    BY DEF TypeOK, Phase, InitPhase
  <1>2. OneSavePerClient'
    BY DEF TypeOK, OneSavePerClient, InFlight, BeforeAnswer
  <1>3. SavingState'
    BY DEF TypeOK, SavingState, Saving, Inserted
  <1>4. StoredPending'
    BY DEF TypeOK, StoredPending, Saves, Inserted
  <1>5. BeforeAnswer'
    BY DEF TypeOK, BeforeAnswer
  <1>6. Answered'
    BY DEF TypeOK, Answered
  <1>7. IntervalsMatchStore'
    BY DEF TypeOK, IntervalsMatchStore, Saves
  <1>8. AddedMeansStoredUnlessDropped'
    BY DEF TypeOK, AddedMeansStoredUnlessDropped
  <1>q. QED
    BY <1>1, <1>2, <1>3, <1>4, <1>5, <1>6, <1>7, <1>8

LEMMA AddDeviceStep ==
  ASSUME IInv, NEW c \in Client, AddDevice(c)
  PROVE  IInv'
  <1> USE MessageClient DEF IInv, memory, history, AddDevice, InitQueued
  <1>1. TypeOK'
    BY DEF TypeOK, Phase, InitPhase
  <1>2. OneSavePerClient'
    BY DEF TypeOK, OneSavePerClient, InFlight
  <1>3. SavingState'
    BY DEF TypeOK, SavingState, Saving, Inserted
  <1>4. StoredPending'
    BY DEF TypeOK, StoredPending, Saves, Inserted, BeforeAnswer
  <1>5. BeforeAnswer'
    BY DEF TypeOK, BeforeAnswer
  <1>6. Answered'
    BY DEF TypeOK, Answered
  <1>7. IntervalsMatchStore'
    BY DEF TypeOK, IntervalsMatchStore, Saves
  <1>8. AddedMeansStoredUnlessDropped'
    BY DEF TypeOK, AddedMeansStoredUnlessDropped
  <1>q. QED
    BY <1>1, <1>2, <1>3, <1>4, <1>5, <1>6, <1>7, <1>8

LEMMA AddDeviceAgainStep ==
  ASSUME IInv, NEW c \in Client, AddDeviceAgain(c)
  PROVE  IInv'
  <1> USE MessageClient DEF IInv, memory, history, AddDeviceAgain, InitQueued
  <1>1. TypeOK'
    BY DEF TypeOK, Phase, InitPhase
  <1>2. OneSavePerClient'
    BY DEF TypeOK, OneSavePerClient, InFlight
  <1>3. SavingState'
    BY DEF TypeOK, SavingState, Saving, Inserted
  <1>4. StoredPending'
    BY DEF TypeOK, StoredPending, Saves, Inserted
  <1>5. BeforeAnswer'
    BY DEF TypeOK, BeforeAnswer
  <1>6. Answered'
    BY DEF TypeOK, Answered
  <1>7. IntervalsMatchStore'
    BY DEF TypeOK, IntervalsMatchStore, Saves
  <1>8. AddedMeansStoredUnlessDropped'
    BY DEF TypeOK, AddedMeansStoredUnlessDropped
  <1>q. QED
    BY <1>1, <1>2, <1>3, <1>4, <1>5, <1>6, <1>7, <1>8

LEMMA AbortStep ==
  ASSUME IInv, NEW m \in Message, AbortNewDevice(m)
  PROVE  IInv'
  <1> USE MessageClient DEF IInv, memory, history, AbortNewDevice
  <1>1. TypeOK'
    BY DEF TypeOK, Phase, InitPhase
  <1>2. OneSavePerClient'
    BY DEF TypeOK, OneSavePerClient, InFlight
  <1>3. SavingState'
    BY DEF TypeOK, SavingState, Saving, Inserted
  <1>4. StoredPending'
    BY DEF TypeOK, StoredPending, Saves, Inserted
  <1>5. BeforeAnswer'
    BY DEF TypeOK, BeforeAnswer
  <1>6. Answered'
    BY DEF TypeOK, Answered
  <1>7. IntervalsMatchStore'
    BY DEF TypeOK, IntervalsMatchStore, Saves, Saves
  <1>8. AddedMeansStoredUnlessDropped'
    BY DEF TypeOK, AddedMeansStoredUnlessDropped
  <1>q. QED
    BY <1>1, <1>2, <1>3, <1>4, <1>5, <1>6, <1>7, <1>8

LEMMA ConfirmUnknownStep ==
  ASSUME IInv, NEW m \in Message, ConfirmUnknown(m)
  PROVE  IInv'
  <1> USE MessageClient DEF IInv, memory, history, ConfirmUnknown, FlashedQueued
  <1>1. TypeOK'
    BY DEF TypeOK, Phase, InitPhase
  <1>2. OneSavePerClient'
    BY DEF TypeOK, OneSavePerClient, InFlight
  <1>3. SavingState'
    BY DEF TypeOK, SavingState, Saving, Inserted
  <1>4. StoredPending'
    BY DEF TypeOK, StoredPending, Saves, Inserted
  <1>5. BeforeAnswer'
    BY DEF TypeOK, BeforeAnswer
  <1>6. Answered'
    BY DEF TypeOK, Answered
  <1>7. IntervalsMatchStore'
    BY DEF TypeOK, IntervalsMatchStore, Saves
  <1>8. AddedMeansStoredUnlessDropped'
    BY DEF TypeOK, AddedMeansStoredUnlessDropped, BeforeAnswer, Answered, InitPhase
  <1>q. QED
    BY <1>1, <1>2, <1>3, <1>4, <1>5, <1>6, <1>7, <1>8

LEMMA BeginSaveStep ==
  ASSUME IInv, NEW m \in Message, BeginSave(m)
  PROVE  IInv'
  <1> USE MessageClient DEF IInv, memory, history, BeginSave, FlashedQueued
  <1>1. TypeOK'
    BY DEF TypeOK, Phase, InitPhase
  <1>2. OneSavePerClient'
    BY DEF TypeOK, OneSavePerClient, InFlight, Saves
  <1>3. SavingState'
    BY DEF TypeOK, SavingState, Saving, Inserted, StoredPending, Saves
  <1>4. StoredPending'
    BY DEF TypeOK, StoredPending, Saves, Inserted
  <1>5. BeforeAnswer'
    BY DEF TypeOK, BeforeAnswer
  <1>6. Answered'
    BY DEF TypeOK, Answered
  <1>7. IntervalsMatchStore'
    BY DEF TypeOK, IntervalsMatchStore, Saves
  <1>8. AddedMeansStoredUnlessDropped'
    BY DEF TypeOK, AddedMeansStoredUnlessDropped
  <1>q. QED
    BY <1>1, <1>2, <1>3, <1>4, <1>5, <1>6, <1>7, <1>8

LEMMA DbInsertStep ==
  ASSUME IInv, NEW m \in Message, DbInsert(m)
  PROVE  IInv'
  <1> USE MessageClient DEF IInv, memory, history, DbInsert
  <1>1. TypeOK'
    BY DEF TypeOK, Phase, InitPhase
  <1>2. OneSavePerClient'
    BY DEF TypeOK, OneSavePerClient, InFlight
  <1>3. SavingState'
    BY DEF TypeOK, SavingState, Saving, Inserted, OneSavePerClient, IntervalsMatchStore, InFlight, Saves
  <1>4. StoredPending'
    BY DEF TypeOK, StoredPending, Saves, Inserted
  <1>5. BeforeAnswer'
    BY DEF TypeOK, BeforeAnswer
  <1>6. Answered'
    BY DEF TypeOK, Answered
  <1>7. IntervalsMatchStore'
    BY DEF TypeOK, IntervalsMatchStore, Saves
  <1>8. AddedMeansStoredUnlessDropped'
    BY DEF TypeOK, AddedMeansStoredUnlessDropped, OneSavePerClient, InFlight
  <1>q. QED
    BY <1>1, <1>2, <1>3, <1>4, <1>5, <1>6, <1>7, <1>8

LEMMA SaveFailsStep ==
  ASSUME IInv, NEW m \in Message, SaveFails(m)
  PROVE  IInv'
  <1> USE MessageClient DEF IInv, memory, history, SaveFails
  <1>1. TypeOK'
    BY DEF TypeOK, Phase, InitPhase
  <1>2. OneSavePerClient'
    BY DEF TypeOK, OneSavePerClient, InFlight
  <1>3. SavingState'
    BY DEF TypeOK, SavingState, Saving, Inserted
  <1>4. StoredPending'
    BY DEF TypeOK, StoredPending, Saves, Inserted
  <1>5. BeforeAnswer'
    BY DEF TypeOK, BeforeAnswer
  <1>6. Answered'
    BY DEF TypeOK, Answered
  <1>7. IntervalsMatchStore'
    BY DEF TypeOK, IntervalsMatchStore, Saves
  <1>8. AddedMeansStoredUnlessDropped'
    BY DEF TypeOK, AddedMeansStoredUnlessDropped
  <1>q. QED
    BY <1>1, <1>2, <1>3, <1>4, <1>5, <1>6, <1>7, <1>8

LEMMA FinishConfirmStep ==
  ASSUME IInv, NEW m \in Message, FinishConfirm(m)
  PROVE  IInv'
  <1> USE MessageClient DEF IInv, memory, history, FinishConfirm
  <1>1. TypeOK'
    BY DEF TypeOK, Phase, InitPhase
  <1>2. OneSavePerClient'
    BY DEF TypeOK, OneSavePerClient, InFlight
  <1>3. SavingState'
    BY DEF TypeOK, SavingState, Saving, Inserted, OneSavePerClient, InFlight
  <1>4. StoredPending'
    BY DEF TypeOK, StoredPending, Saves, Inserted
  <1>5. BeforeAnswer'
    BY DEF TypeOK, BeforeAnswer
  <1>6. Answered'
    BY DEF TypeOK, Answered, SavingState, Inserted
  <1>7. IntervalsMatchStore'
    BY DEF TypeOK, IntervalsMatchStore, Saves, SavingState, Inserted
  <1>8. AddedMeansStoredUnlessDropped'
    BY DEF TypeOK, AddedMeansStoredUnlessDropped, SavingState, Inserted
  <1>q. QED
    BY <1>1, <1>2, <1>3, <1>4, <1>5, <1>6, <1>7, <1>8

LEMMA CrashStep ==
  ASSUME IInv, Crash
  PROVE  IInv'
  <1> USE MessageClient DEF IInv, memory, history, Crash
  <1>1. TypeOK'
    BY DEF TypeOK, Phase, InitPhase
  <1>2. OneSavePerClient'
    BY DEF TypeOK, OneSavePerClient, InFlight
  <1>3. SavingState'
    BY DEF TypeOK, SavingState, Saving, Inserted
  <1>4. StoredPending'
    BY DEF TypeOK, StoredPending, Saves, Inserted
  <1>5. BeforeAnswer'
    BY DEF TypeOK, BeforeAnswer
  <1>6. Answered'
    BY DEF TypeOK, Answered
  <1>7. IntervalsMatchStore'
    BY DEF TypeOK, IntervalsMatchStore, Saves
  <1>8. AddedMeansStoredUnlessDropped'
    BY DEF TypeOK, AddedMeansStoredUnlessDropped
  <1>q. QED
    BY <1>1, <1>2, <1>3, <1>4, <1>5, <1>6, <1>7, <1>8

LEMMA BootStep ==
  ASSUME IInv, Boot
  PROVE  IInv'
  <1> USE MessageClient DEF IInv, memory, history, Boot
  <1>1. TypeOK'
    BY DEF TypeOK, Phase, InitPhase
  <1>2. OneSavePerClient'
    BY DEF TypeOK, OneSavePerClient, InFlight
  <1>3. SavingState'
    BY DEF TypeOK, SavingState, Saving, Inserted, InFlight
  <1>4. StoredPending'
    BY DEF TypeOK, StoredPending, Saves, Inserted
  <1>5. BeforeAnswer'
    BY DEF TypeOK, BeforeAnswer
  <1>6. Answered'
    BY DEF TypeOK, Answered
  <1>7. IntervalsMatchStore'
    BY DEF TypeOK, IntervalsMatchStore, Saves
  <1>8. AddedMeansStoredUnlessDropped'
    BY DEF TypeOK, AddedMeansStoredUnlessDropped
  <1>q. QED
    BY <1>1, <1>2, <1>3, <1>4, <1>5, <1>6, <1>7, <1>8

-----------------------------------------------------------------------------
(* IInv is inductive.                                                      *)

LEMMA NextIInv == IInv /\ [Next]_vars => IInv'
  <1> SUFFICES ASSUME IInv, [Next]_vars PROVE IInv'
    OBVIOUS
  <1>1. ASSUME NEW c \in Client, ClientStep(c) PROVE IInv'
    BY <1>1, SendInitStep, AddDeviceStep, AddDeviceAgainStep DEF ClientStep
  <1>2. CASE UNCHANGED vars
    BY <1>2 DEF vars, IInv, TypeOK, OneSavePerClient, SavingState,
       StoredPending, BeforeAnswer, Answered, IntervalsMatchStore,
       AddedMeansStoredUnlessDropped, InFlight, Saving, Inserted, Saves
  <1>3. ASSUME NEW m \in Message, MessageStep(m) PROVE IInv'
    <2>1. CASE RejectParallelSave(m)
      BY <2>1, <1>2 DEF RejectParallelSave
    <2>2. QED
      BY <1>3, <2>1, SendStatusStep, AbortStep, ConfirmUnknownStep, BeginSaveStep,
         DbInsertStep, SaveFailsStep, FinishConfirmStep DEF MessageStep
  <1>4. QED
    BY <1>1, <1>2, <1>3, CrashStep, BootStep DEF Next

THEOREM Invariance == Spec => []IInv
  BY InitIInv, NextIInv, PTL DEF Spec

-----------------------------------------------------------------------------
(* The properties of the runs.                                             *)

\* Every variable keeps its type, and a stopped service holds nothing.
THEOREM TypeCorrect == Spec => []TypeOK
  BY Invariance, PTL DEF IInv

\* A running service samples exactly the stored sensors, each once
\* (devices.service.ts:93-107 and 305-311).
THEOREM SamplesExactlyTheStore == Spec => []IntervalsMatchStore
  BY Invariance, PTL DEF IInv

\* Only an abort or a restart can make the reply 'added' untrue
\* (devices.service.ts:106).
THEOREM AddedIsHonest == Spec => []AddedMeansStoredUnlessDropped
  BY Invariance, PTL DEF IInv

-----------------------------------------------------------------------------
(* NewDevice implements NewDeviceSpec.  A step changes the stage of the    *)
(* client it is about at most, except a crash.                             *)

\* What each stage means.
LEMMA StageMeaning ==
  ASSUME NEW c \in Client
  PROVE  /\ stage[c] = "stored" <=> c \in stored
         /\ stage[c] = "committing" <=> c \notin stored /\ Saves(c) # {}
         /\ stage[c] = "offered" <=> c \notin stored /\ Saves(c) = {} /\ c \in pending
         /\ stage[c] = "withdrawn" <=> /\ c \notin stored /\ Saves(c) = {}
                                       /\ c \notin pending /\ c \in dropped
         /\ stage[c] = "new" <=> /\ c \notin stored /\ Saves(c) = {}
                                 /\ c \notin pending /\ c \notin dropped
         /\ stage = [d \in Client |-> stage[d]]
  BY DEF stage

\* A client whose device, saves and document do not change keeps its stage.
LEMMA StageKept ==
  ASSUME NEW c \in Client, Saves(c)' = Saves(c),
         c \in stored' <=> c \in stored,
         c \in pending' <=> c \in pending,
         c \in dropped' <=> c \in dropped
  PROVE  stage'[c] = stage[c]
  BY DEF stage

\* A step that is about one client moves its stage only.
LEMMA StageMoves ==
  ASSUME NEW c \in Client, NEW s,
         \A d \in Client \ {c} : stage'[d] = stage[d], stage'[c] = s
  PROVE  stage' = [stage EXCEPT ![c] = s]
  BY DEF stage

\* A message step leaves the saves of the other clients alone.
LEMMA SavesOfOthers ==
  ASSUME IInv, NEW m \in Message, NEW p, phase' = [phase EXCEPT ![m] = p],
         NEW d \in Client \ {m.client}
  PROVE  Saves(d)' = Saves(d)
  BY DEF Saves, IInv, TypeOK

LEMMA StageStutters ==
  ASSUME \A c \in Client : stage'[c] = stage[c]
  PROVE  UNCHANGED stage
  BY DEF stage

\* Every action is an action of the abstract wizard or leaves the stages alone.
LEMMA StepSimulation ==
  ASSUME IInv, [Next]_vars
  PROVE  [Wizard!Next]_stage
  <1> USE DEF IInv, memory, history
  <1>1. ASSUME UNCHANGED <<phase, pending, stored, dropped>> PROVE UNCHANGED stage
    BY <1>1 DEF stage, Saves
  <1>2. ASSUME NEW c \in Client, AddDevice(c) PROVE Wizard!Offer(c)
    <2>1. stage[c] = "new" /\ Saves(c) = {}
      BY <1>2, StageMeaning, MessageClient DEF AddDevice, InitQueued, BeforeAnswer, Saves
    <2>2. stage'[c] = "offered"
      BY <1>2, <2>1, StageMeaning DEF AddDevice, stage, Saves
    <2>3. \A d \in Client \ {c} : stage'[d] = stage[d]
      BY <1>2, StageKept DEF AddDevice, Saves
    <2>4. QED
      BY <2>1, <2>2, <2>3, StageMoves DEF Wizard!Offer, Wizard!Move
  <1>3. ASSUME NEW m \in Message, AbortNewDevice(m)
        PROVE  Wizard!Withdraw(m.client) \/ UNCHANGED stage
    <2> DEFINE c == m.client
    <2>1. c \in Client
      BY MessageClient
    <2>2. \A d \in Client : Saves(d)' = Saves(d)
      BY <1>3 DEF AbortNewDevice, Saves, TypeOK
    <2>3. \A d \in Client \ {c} : stage'[d] = stage[d]
      BY <1>3, <2>2, StageKept DEF AbortNewDevice
    <2>4. CASE stage[c] = "offered"
      <3>1. stage'[c] = "withdrawn"
        BY <1>3, <2>1, <2>2, <2>4, StageMeaning DEF AbortNewDevice, stage
      <3>2. QED
        BY <2>1, <2>3, <2>4, <3>1, StageMoves DEF Wizard!Withdraw, Wizard!Move
    <2>5. CASE stage[c] # "offered"
      <3>1. stage'[c] = stage[c]
        BY <1>3, <2>1, <2>2, <2>5 DEF AbortNewDevice, stage
      <3>2. QED
        BY <2>1, <2>3, <3>1, StageStutters
    <2>6. QED
      BY <2>4, <2>5
  <1>4. ASSUME NEW m \in Message, ConfirmUnknown(m) PROVE UNCHANGED stage
    <2>1. \A d \in Client : Saves(d)' = Saves(d)
      BY <1>4 DEF ConfirmUnknown, FlashedQueued, Saves, TypeOK
    <2>2. QED
      BY <1>4, <2>1, StageKept, StageStutters DEF ConfirmUnknown
  <1>5. ASSUME NEW m \in Message, BeginSave(m)
        PROVE  Wizard!Commit(m.client) \/ UNCHANGED stage
    <2> DEFINE c == m.client
    <2>1. c \in Client /\ c \notin stored
      BY <1>5, MessageClient DEF BeginSave, StoredPending
    <2>2. stage[c] = "offered"
      BY <1>5, <2>1, StageMeaning DEF BeginSave
    <2>3. stage'[c] = "committing"
      <3>1. m \in Saves(c)'
        BY <1>5 DEF BeginSave, Saves, TypeOK
      <3>2. QED
        BY <1>5, <2>1, <3>1 DEF BeginSave, stage
    <2>4. \A d \in Client \ {c} : stage'[d] = stage[d]
      BY <1>5, StageKept, SavesOfOthers DEF BeginSave
    <2>5. QED
      BY <2>1, <2>2, <2>3, <2>4, StageMoves DEF Wizard!Commit, Wizard!Move
  <1>6. ASSUME NEW m \in Message, DbInsert(m) PROVE Wizard!Store(m.client)
    <2> DEFINE c == m.client
    <2>1. c \in Client /\ m \in Saves(c) /\ c \notin stored
      BY <1>6, MessageClient DEF DbInsert, SavingState, Saving, Saves
    <2>2. stage[c] = "committing" /\ stage'[c] = "stored"
      BY <1>6, <2>1 DEF DbInsert, stage
    <2>3. \A d \in Client \ {c} : stage'[d] = stage[d]
      BY <1>6, StageKept, SavesOfOthers DEF DbInsert
    <2>4. QED
      BY <2>1, <2>2, <2>3, StageMoves DEF Wizard!Store, Wizard!Move
  <1>7. ASSUME NEW m \in Message, SaveFails(m) PROVE Wizard!FallBack(m.client)
    <2> DEFINE c == m.client
    <2>1. c \in Client /\ m \in Saves(c) /\ c \notin stored /\ c \in pending \cup dropped
      BY <1>7, MessageClient DEF SaveFails, SavingState, Saving, Saves
    <2>2. stage[c] = "committing"
      BY <2>1 DEF stage
    <2>3. Saves(c)' = {}
      BY <1>7, <2>1 DEF SaveFails, Saves, OneSavePerClient, InFlight, TypeOK
    <2>4. stage'[c] \in {"offered", "withdrawn"}
      BY <1>7, <2>1, <2>3 DEF SaveFails, stage
    <2>5. \A d \in Client \ {c} : stage'[d] = stage[d]
      BY <1>7, StageKept, SavesOfOthers DEF SaveFails
    <2>6. QED
      BY <2>1, <2>2, <2>4, <2>5, StageMoves DEF Wizard!FallBack, Wizard!Move
  <1>8. ASSUME NEW m \in Message, FinishConfirm(m) PROVE UNCHANGED stage
    <2> DEFINE c == m.client
    <2>1. c \in Client /\ c \in stored
      BY <1>8, MessageClient DEF FinishConfirm, SavingState, Inserted
    <2>2. stage'[c] = stage[c]
      BY <1>8, <2>1 DEF FinishConfirm, stage
    <2>3. \A d \in Client \ {c} : stage'[d] = stage[d]
      BY <1>8, StageKept, SavesOfOthers DEF FinishConfirm
    <2>4. QED
      BY <2>2, <2>3, StageStutters
  <1>9. ASSUME Crash PROVE Wizard!Crash
    <2>1. \A c \in Client : Saves(c)' = {}
      BY <1>9 DEF Crash, Saves, TypeOK
    <2>2. \A c \in Client : Saves(c) # {} => c \in stored \cup pending \cup dropped
      BY DEF Saves, SavingState, Saving, Inserted
    <2>3. \A c \in Client : stage'[c] = IF stage[c] \in {"offered", "committing"}
                                       THEN "withdrawn" ELSE stage[c]
      BY <1>9, <2>1, <2>2 DEF Crash, stage
    <2>4. QED
      BY <2>3, StageMeaning DEF Wizard!Crash, stage
  <1>10. ASSUME Boot PROVE UNCHANGED stage
    BY <1>10, <1>1 DEF Boot
  <1>11. ASSUME NEW c \in Client, ClientStep(c) PROVE [Wizard!Next]_stage
    BY <1>1, <1>2, <1>11 DEF ClientStep, SendInit, AddDeviceAgain, Wizard!Next
  <1>12. ASSUME NEW m \in Message, MessageStep(m) PROVE [Wizard!Next]_stage
    <2>1. CASE SendStatus(m)
      <3>1. \A d \in Client : Saves(d)' = Saves(d)
        BY <2>1 DEF SendStatus, Saves, TypeOK
      <3>2. QED
        BY <2>1, <3>1, StageKept, StageStutters DEF SendStatus
    <2>2. CASE RejectParallelSave(m)
      BY <2>2, <1>1 DEF RejectParallelSave, vars
    <2>3. QED
      BY <1>3, <1>4, <1>5, <1>6, <1>7, <1>8, <1>12, <2>1, <2>2, MessageClient
         DEF MessageStep, Wizard!Next
  <1>13. CASE UNCHANGED vars
    BY <1>1, <1>13 DEF vars
  <1>14. QED
    BY <1>9, <1>10, <1>11, <1>12, <1>13 DEF Next, Wizard!Next

\* The code's wizard is a wizard of the abstract specification: a device enters
\* the collection at most once, only by a confirmation of a pending document,
\* and never again after it was withdrawn (devices.service.ts:60-107).
THEOREM Implementation == Spec => ImplementsWizard
  <1>1. Init => Wizard!Init
    BY MessageClient DEF Init, Wizard!Init, stage, Saves
  <1>2. QED
    BY <1>1, StepSimulation, Invariance, PTL DEF Spec, ImplementsWizard, Wizard!Spec
==============================================================================
