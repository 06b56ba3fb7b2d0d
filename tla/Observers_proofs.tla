--------------------------- MODULE Observers_proofs ---------------------------
(***************************************************************************)
(* Proofs about Observers, for any number of streams, messages and         *)
(* deliveries: the types, that the two lists agree, and that a stream      *)
(* follows the status of the database.                                     *)
(***************************************************************************)
EXTENDS Observers, TLAPS

-----------------------------------------------------------------------------
(* The inductive invariant.  That the lists agree when nothing is on its   *)
(* way follows from what the last announcement on its way says.  That a    *)
(* stream which was told of something cannot be listed anew rests on every *)
(* stream being announced once.                                            *)

\* The last announcement of a stream on its way tells if the gateway has it.
LastTells ==
    \A i \in 1..Len(announced) : LET s == announced[i].stream IN
        \/ s \in cut
        \/ \E j \in (i + 1)..Len(announced) : announced[j].stream = s
        \/ announced[i].pattern = "add" <=> s \in events

\* Nobody knows of a stream that was not opened.
NewIsUnknown ==
    \A s \in Stream : client[s] = "new" =>
        ~OnItsWay(s) /\ s \notin events \cup observers \cup told

\* A stream that is to be listed has not been listed before.
AddedOnce ==
    \A i \in 1..Len(announced) : announced[i].pattern = "add" =>
        /\ announced[i].stream \notin observers \cup told
        /\ \A j \in (i + 1)..Len(announced) :
              announced[j].pattern = "add" => announced[j].stream # announced[i].stream

\* The report a stream gets last, once all that are on their way have arrived.
Expected(s) == IF reports = <<>> THEN shown[s] ELSE reports[Len(reports)]

\* It is of the stored status, or the handler that stored it is about to report.
ExpectsStatus ==
    \A s \in told \cap observers \cap events :
        \/ Expected(s) = online \/ overtaken
        \/ online \in Message /\ phase[online] = "written"

IInv == TypeOK /\ ListsAgree /\ LastTells /\ NewIsUnknown /\ AddedOnce /\ ExpectsStatus

-----------------------------------------------------------------------------
LEMMA InitIInv == Init => IInv
<1> SUFFICES ASSUME Init PROVE IInv
  OBVIOUS
<1>0. <<>> \in Seq(Announcement) /\ <<>> \in Seq(Message)
  OBVIOUS
<1>1. TypeOK
  BY <1>0 DEF Init, TypeOK, ClientPhase, Phase, InFlight
<1>2. ListsAgree /\ LastTells /\ NewIsUnknown /\ AddedOnce /\ ExpectsStatus
  BY DEF Init, ListsAgree, LastTells, NewIsUnknown, AddedOnce, ExpectsStatus, OnItsWay
<1> QED BY <1>1, <1>2 DEF IInv

\* What a queue holds after something is sent.
LEMMA Appended ==
    ASSUME NEW S, NEW q \in Seq(S), NEW e \in S
    PROVE  /\ Append(q, e) \in Seq(S) /\ Len(Append(q, e)) = Len(q) + 1
           /\ \A i \in 1..Len(q) : Append(q, e)[i] = q[i]
           /\ Append(q, e)[Len(q) + 1] = e
OBVIOUS

\* What a queue holds after its first message is taken.
LEMMA Popped ==
    ASSUME NEW S, NEW q \in Seq(S), q # <<>>
    PROVE  /\ Tail(q) \in Seq(S) /\ Len(q) \in Nat \ {0} /\ Len(Tail(q)) = Len(q) - 1
           /\ \A i \in 1..Len(Tail(q)) : Tail(q)[i] = q[i + 1]
           /\ Head(q) = q[1] /\ q[1] \in S
OBVIOUS

LEMMA NotEmpty ==
    ASSUME NEW q, Len(q) \in Nat \ {0}
    PROVE  q # <<>> /\ Len(q) \in 1..Len(q)
OBVIOUS

\* Steps that change neither list nor what is on its way keep the parts about them.
LEMMA ListsKept ==
    ASSUME IInv, UNCHANGED <<client, events, announced, observers, cut, told>>
    PROVE  ListsAgree' /\ LastTells' /\ NewIsUnknown' /\ AddedOnce'
BY DEF IInv, ListsAgree, LastTells, NewIsUnknown, AddedOnce, OnItsWay

LEMMA OpenStep == ASSUME IInv, NEW s \in Stream, Open(s) PROVE IInv'
<1> USE DEF IInv, Open
<1> DEFINE a == [pattern |-> "add", stream |-> s]
<1>1. a \in Announcement /\ announced \in Seq(Announcement) /\ Len(announced) \in Nat
  BY DEF Announcement, TypeOK
<1>2. announced' = IF devices THEN Append(announced, a) ELSE announced
  BY DEF Announce
<1>3. Append(announced, a) \in Seq(Announcement)
      /\ Len(Append(announced, a)) = Len(announced) + 1
      /\ (\A i \in 1..Len(announced) : Append(announced, a)[i] = announced[i])
      /\ Append(announced, a)[Len(announced) + 1] = a
  BY <1>1, Appended
<1>4. \A i \in 1..Len(announced) : announced[i].stream # s
  BY DEF NewIsUnknown, OnItsWay
<1>5. s \notin events \cup observers \cup told
  BY DEF NewIsUnknown
<1>6. TypeOK'
  BY <1>1, <1>2, <1>3 DEF TypeOK, ClientPhase, InFlight, handling
<1>7. ListsAgree'
  <2> SUFFICES ASSUME NEW t \in Stream \ cut', ~OnItsWay(t)'
               PROVE  (t \in events <=> t \in observers)'
    BY DEF ListsAgree
  <2>1. CASE t = s
    BY <2>1, <1>1, <1>2, <1>3 DEF OnItsWay
  <2>2. CASE t # s
    <3>1. ~OnItsWay(t)
      BY <1>1, <1>2, <1>3 DEF OnItsWay
    <3> QED BY <2>2, <3>1 DEF ListsAgree
  <2> QED BY <2>1, <2>2
<1>8. LastTells'
  <2> SUFFICES ASSUME NEW i \in 1..Len(announced'), announced'[i].stream \notin cut',
                      ~\E j \in (i + 1)..Len(announced') : announced'[j].stream = announced'[i].stream
               PROVE  announced'[i].pattern = "add" <=> announced'[i].stream \in events'
    BY DEF LastTells
  <2>1. CASE i \in 1..Len(announced)
    <3>1. announced'[i] = announced[i]
      BY <2>1, <1>2, <1>3
    <3>2. ~\E j \in (i + 1)..Len(announced) : announced[j].stream = announced[i].stream
      BY <2>1, <3>1, <1>1, <1>2, <1>3
    <3>3. announced[i].pattern = "add" <=> announced[i].stream \in events
      BY <2>1, <3>1, <3>2 DEF LastTells
    <3> QED BY <2>1, <3>1, <3>3, <1>4
  <2>2. CASE i \notin 1..Len(announced)
    <3>1. devices /\ announced'[i] = a
      BY <2>2, <1>1, <1>2, <1>3
    <3> QED BY <3>1
  <2> QED BY <2>1, <2>2
<1>9. NewIsUnknown'
  <2> SUFFICES ASSUME NEW t \in Stream, client'[t] = "new"
               PROVE  ~OnItsWay(t)' /\ t \notin events' \cup observers' \cup told'
    BY DEF NewIsUnknown
  <2>1. t # s /\ client[t] = "new"
    BY DEF TypeOK
  <2>2. ~OnItsWay(t)'
    BY <2>1, <1>1, <1>2, <1>3 DEF NewIsUnknown, OnItsWay
  <2> QED BY <2>1, <2>2 DEF NewIsUnknown
<1>10. AddedOnce'
  BY <1>1, <1>2, <1>3, <1>4, <1>5 DEF AddedOnce
<1>11. ExpectsStatus'
  BY <1>5 DEF ExpectsStatus, Expected, handling
<1> QED BY <1>6, <1>7, <1>8, <1>9, <1>10, <1>11

LEMMA EndStep == ASSUME IInv, NEW s \in Stream, End(s) PROVE IInv'
<1> USE DEF IInv, End, history, handling
<1> DEFINE a == [pattern |-> "remove", stream |-> s]
<1>1. a \in Announcement /\ announced \in Seq(Announcement) /\ Len(announced) \in Nat
  BY DEF Announcement, TypeOK
<1>2. announced' = IF devices THEN Append(announced, a) ELSE announced
  BY DEF Announce
<1>3. Append(announced, a) \in Seq(Announcement)
      /\ Len(Append(announced, a)) = Len(announced) + 1
      /\ (\A i \in 1..Len(announced) : Append(announced, a)[i] = announced[i])
      /\ Append(announced, a)[Len(announced) + 1] = a
  BY <1>1, Appended
<1>4. ~devices => observers = {} /\ announced = <<>>
  BY DEF TypeOK
<1>6. TypeOK'
  BY <1>1, <1>2, <1>3 DEF TypeOK, ClientPhase, InFlight
<1>7. ListsAgree'
  <2> SUFFICES ASSUME NEW t \in Stream \ cut', ~OnItsWay(t)'
               PROVE  (t \in events <=> t \in observers)'
    BY DEF ListsAgree
  <2>1. CASE t = s
    BY <2>1, <1>1, <1>2, <1>3, <1>4 DEF OnItsWay
  <2>2. CASE t # s
    <3>1. ~OnItsWay(t)
      BY <1>1, <1>2, <1>3 DEF OnItsWay
    <3> QED BY <2>2, <3>1 DEF ListsAgree
  <2> QED BY <2>1, <2>2
<1>8. LastTells'
  <2>1. CASE ~devices
    BY <2>1, <1>2, <1>4 DEF LastTells
  <2>2. CASE devices
    <3> SUFFICES ASSUME NEW i \in 1..Len(announced'), announced'[i].stream \notin cut',
                        ~\E j \in (i + 1)..Len(announced') : announced'[j].stream = announced'[i].stream
                 PROVE  announced'[i].pattern = "add" <=> announced'[i].stream \in events'
      BY DEF LastTells
    <3>1. CASE i \in 1..Len(announced)
      <4>1. announced'[i] = announced[i] /\ announced[i].stream # s
        BY <2>2, <3>1, <1>1, <1>2, <1>3
      <4>2. ~\E j \in (i + 1)..Len(announced) : announced[j].stream = announced[i].stream
        BY <3>1, <4>1, <1>1, <1>2, <1>3
      <4>3. announced[i].pattern = "add" <=> announced[i].stream \in events
        BY <3>1, <4>1, <4>2 DEF LastTells
      <4> QED BY <4>1, <4>3
    <3>2. CASE i \notin 1..Len(announced)
      <4>1. announced'[i] = a
        BY <2>2, <3>2, <1>1, <1>2, <1>3
      <4> QED BY <4>1
    <3> QED BY <3>1, <3>2
  <2> QED BY <2>1, <2>2
<1>9. NewIsUnknown'
  <2> SUFFICES ASSUME NEW t \in Stream, client'[t] = "new"
               PROVE  ~OnItsWay(t)' /\ t \notin events' \cup observers' \cup told'
    BY DEF NewIsUnknown
  <2>1. t # s /\ client[t] = "new"
    BY DEF TypeOK
  <2>2. ~OnItsWay(t)'
    BY <2>1, <1>1, <1>2, <1>3 DEF NewIsUnknown, OnItsWay
  <2> QED BY <2>1, <2>2 DEF NewIsUnknown
<1>10. AddedOnce'
  BY <1>1, <1>2, <1>3 DEF AddedOnce
<1>11. ExpectsStatus'
  BY DEF ExpectsStatus, Expected
<1> QED BY <1>6, <1>7, <1>8, <1>9, <1>10, <1>11

\* A broken connection changes neither list.
LEMMA BreakStep == ASSUME IInv, NEW s \in Stream, Break(s) PROVE IInv'
<1> USE DEF IInv, Break, history, handling
<1>1. TypeOK'
  BY DEF TypeOK, ClientPhase, InFlight
<1>2. NewIsUnknown'
  BY DEF TypeOK, NewIsUnknown, OnItsWay
<1>3. ListsAgree' /\ LastTells' /\ AddedOnce' /\ ExpectsStatus'
  BY DEF ListsAgree, LastTells, AddedOnce, OnItsWay, ExpectsStatus, Expected
<1> QED BY <1>1, <1>2, <1>3

LEMMA ForwardStep == ASSUME IInv, Forward PROVE IInv'
<1> USE DEF IInv, Forward, history, handling, lists
<1>1. /\ reports \in Seq(Message) /\ Tail(reports) \in Seq(Message)
      /\ Len(reports) \in Nat \ {0} /\ Len(Tail(reports)) = Len(reports) - 1
      /\ \A i \in 1..Len(Tail(reports)) : Tail(reports)[i] = reports[i + 1]
      /\ Head(reports) = reports[1] /\ Head(reports) \in Message
  <2>1. reports \in Seq(Message)
    BY DEF TypeOK
  <2> QED BY <2>1, Popped
<1>2. TypeOK'
  BY <1>1 DEF TypeOK, InFlight
<1>3. ListsAgree' /\ LastTells' /\ NewIsUnknown' /\ AddedOnce'
  BY ListsKept
<1>4. \A s \in events : Expected(s)' = Expected(s)
  <2> SUFFICES ASSUME NEW s \in events PROVE Expected(s)' = Expected(s)
    OBVIOUS
  <2>1. s \in Stream /\ Expected(s) = reports[Len(reports)]
    BY DEF TypeOK, Expected
  <2>2. CASE Len(reports) = 1
    <3>1. reports' = <<>> /\ shown'[s] = reports[1]
      BY <1>1, <2>1, <2>2
    <3> QED BY <2>1, <2>2, <3>1 DEF Expected
  <2>3. CASE Len(reports) # 1
    <3>1. reports' # <<>> /\ Len(reports') \in 1..Len(reports')
      <4>1. Len(reports') \in Nat \ {0}
        BY <1>1, <2>3
      <4> QED BY <4>1, NotEmpty
    <3>2. reports'[Len(reports')] = reports[Len(reports)]
      BY <1>1, <3>1
    <3> QED BY <2>1, <3>1, <3>2 DEF Expected
  <2> QED BY <2>2, <2>3
<1>5. ExpectsStatus'
  BY <1>4 DEF ExpectsStatus
<1> QED BY <1>2, <1>3, <1>5

\* The first announcement is handled: what it says holds, or another one follows.
LEMMA HandleAnnouncementStep == ASSUME IInv, HandleAnnouncement PROVE IInv'
<1> USE DEF IInv, HandleAnnouncement, history, handling
<1> DEFINE a == Head(announced)
<1>1. /\ announced \in Seq(Announcement) /\ Tail(announced) \in Seq(Announcement)
      /\ Len(announced) \in Nat \ {0} /\ Len(announced') = Len(announced) - 1
      /\ \A i \in 1..Len(announced') : announced'[i] = announced[i + 1]
      /\ a = announced[1] /\ a \in Announcement
  <2>1. announced \in Seq(Announcement)
    BY DEF TypeOK
  <2> QED BY <2>1, Popped
<1>2. a.stream \in Stream /\ a.pattern \in {"add", "remove"}
  BY <1>1 DEF Announcement
<1>3. observers' \subseteq observers \cup {a.stream}
  OBVIOUS
<1>4. OnItsWay(a.stream)
  BY <1>1 DEF OnItsWay
<1>5. TypeOK'
  BY <1>1, <1>2 DEF TypeOK, InFlight
<1>6. ListsAgree'
  <2> SUFFICES ASSUME NEW t \in Stream \ cut, ~OnItsWay(t)'
               PROVE  t \in events <=> t \in observers'
    BY DEF ListsAgree
  <2>0. \A j \in 2..Len(announced) : announced[j].stream # t
    <3> SUFFICES ASSUME NEW j \in 2..Len(announced), announced[j].stream = t PROVE FALSE
      OBVIOUS
    <3>1. j - 1 \in 1..Len(announced') /\ announced'[j - 1] = announced[j]
      BY <1>1
    <3> QED BY <3>1 DEF OnItsWay
  <2>1. CASE t = a.stream
    <3>1. 1 \in 1..Len(announced) /\ ~\E j \in (1 + 1)..Len(announced) : announced[j].stream = announced[1].stream
      BY <1>1, <2>0, <2>1
    <3>2. a.pattern = "add" <=> t \in events
      BY <1>1, <2>1, <3>1 DEF LastTells
    <3> QED BY <1>2, <2>1, <3>2
  <2>2. CASE t # a.stream
    <3>1. ~OnItsWay(t)
      BY <1>1, <2>0, <2>2 DEF OnItsWay
    <3> QED BY <2>2, <3>1 DEF ListsAgree
  <2> QED BY <2>1, <2>2
<1>7. LastTells'
  <2> SUFFICES ASSUME NEW i \in 1..Len(announced'), announced'[i].stream \notin cut,
                      ~\E j \in (i + 1)..Len(announced') : announced'[j].stream = announced'[i].stream
               PROVE  announced'[i].pattern = "add" <=> announced'[i].stream \in events
    BY DEF LastTells
  <2>1. i + 1 \in 1..Len(announced) /\ announced'[i] = announced[i + 1]
    BY <1>1
  <2>2. ~\E j \in ((i + 1) + 1)..Len(announced) : announced[j].stream = announced[i + 1].stream
    <3> SUFFICES ASSUME NEW j \in ((i + 1) + 1)..Len(announced),
                        announced[j].stream = announced[i + 1].stream
                 PROVE  FALSE
      OBVIOUS
    <3>1. j - 1 \in (i + 1)..Len(announced') /\ announced'[j - 1] = announced[j]
      BY <1>1
    <3> QED BY <2>1, <3>1
  <2> QED BY <2>1, <2>2 DEF LastTells
<1>8. NewIsUnknown'
  <2> SUFFICES ASSUME NEW t \in Stream, client[t] = "new"
               PROVE  ~OnItsWay(t)' /\ t \notin events \cup observers' \cup told
    BY DEF NewIsUnknown
  <2>1. ~OnItsWay(t)'
    BY <1>1 DEF NewIsUnknown, OnItsWay
  <2> QED BY <1>3, <1>4, <2>1 DEF NewIsUnknown
<1>9. AddedOnce'
  <2> SUFFICES ASSUME NEW i \in 1..Len(announced'), announced'[i].pattern = "add"
               PROVE  /\ announced'[i].stream \notin observers' \cup told
                      /\ \A j \in (i + 1)..Len(announced') :
                            announced'[j].pattern = "add" => announced'[j].stream # announced'[i].stream
    BY DEF AddedOnce
  <2>1. i + 1 \in 1..Len(announced) /\ announced'[i] = announced[i + 1]
    BY <1>1
  <2>2. announced'[i].stream \notin observers \cup told
    BY <2>1 DEF AddedOnce
  <2>3. a.pattern = "add" => announced'[i].stream # a.stream
    <3>1. 1 \in 1..Len(announced) /\ i + 1 \in (1 + 1)..Len(announced)
      BY <1>1, <2>1
    <3> QED BY <1>1, <2>1, <3>1 DEF AddedOnce
  <2>4. ASSUME NEW j \in (i + 1)..Len(announced'), announced'[j].pattern = "add"
        PROVE  announced'[j].stream # announced'[i].stream
    <3>1. j + 1 \in ((i + 1) + 1)..Len(announced) /\ announced'[j] = announced[j + 1]
      BY <1>1
    <3> QED BY <2>1, <2>4, <3>1 DEF AddedOnce
  <2> QED BY <2>2, <2>3, <2>4
<1>10. a.pattern = "add" => a.stream \notin told
  <2>1. 1 \in 1..Len(announced)
    BY <1>1
  <2> QED BY <1>1, <2>1 DEF AddedOnce
<1>11. ExpectsStatus'
  BY <1>10 DEF ExpectsStatus, Expected
<1> QED BY <1>5, <1>6, <1>7, <1>8, <1>9, <1>11

\* The steps of a message before its handler reports.
LEMMA MessageStep ==
    ASSUME IInv, NEW m \in Message,
           Publish(m) \/ Receive(m) \/ SetStatus(m) \/ SetStatusFails(m)
    PROVE  IInv'
<1> USE DEF IInv, history, lists
<1>1. UNCHANGED <<gateway, devices, lists, reports, shown, history>>
  BY DEF Publish, Receive, SetStatus, SetStatusFails
<1>2. ListsAgree' /\ LastTells' /\ NewIsUnknown' /\ AddedOnce'
  BY <1>1, ListsKept
<1>3. TypeOK'
  BY <1>1 DEF TypeOK, Phase, InFlight, Publish, Receive, SetStatus, SetStatusFails
<1>4. ExpectsStatus'
  <2>1. CASE SetStatus(m)
    BY <1>1, <2>1 DEF TypeOK, ExpectsStatus, SetStatus
  <2>2. CASE Publish(m) \/ Receive(m) \/ SetStatusFails(m)
    BY <1>1, <2>2 DEF TypeOK, ExpectsStatus, Expected, Publish, Receive, SetStatusFails
  <2> QED BY <2>1, <2>2
<1> QED BY <1>2, <1>3, <1>4

LEMMA ReportStep == ASSUME IInv, NEW m \in Message, Report(m) PROVE IInv'
<1> USE DEF IInv, Report, lists
<1>1. reports \in Seq(Message) /\ Append(reports, m) \in Seq(Message)
      /\ Len(Append(reports, m)) = Len(reports) + 1 /\ Len(reports) \in Nat
      /\ Append(reports, m)[Len(reports) + 1] = m
  <2>1. reports \in Seq(Message)
    BY DEF TypeOK
  <2> QED BY <2>1, Appended
<1>2. TypeOK'
  BY <1>1 DEF TypeOK, Phase, InFlight
<1>3. ListsAgree' /\ LastTells' /\ AddedOnce' /\ NewIsUnknown'
  <2>1. told' \subseteq told \cup observers
    OBVIOUS
  <2>2. ListsAgree' /\ LastTells'
    BY DEF ListsAgree, LastTells, OnItsWay
  <2>3. AddedOnce'
    BY <2>1 DEF AddedOnce
  <2>4. NewIsUnknown'
    BY <2>1 DEF NewIsUnknown, OnItsWay
  <2> QED BY <2>2, <2>3, <2>4
<1>4. ExpectsStatus'
  <2> SUFFICES ASSUME NEW s \in told' \cap observers \cap events
               PROVE  Expected(s)' = online \/ overtaken'
    BY DEF ExpectsStatus
  <2>1. gateway
    BY DEF TypeOK
  <2>2. reports' = Append(reports, m) /\ overtaken' = (online # m)
    BY <2>1
  <2>3. Expected(s)' = m
    BY <1>1, <2>2 DEF Expected
  <2> QED BY <2>2, <2>3
<1> QED BY <1>2, <1>3, <1>4

LEMMA RestartSteps ==
    ASSUME IInv, GatewayCrash \/ GatewayBoot \/ DevicesCrash \/ DevicesBoot
    PROVE  IInv'
<1> USE DEF IInv, lists, handling, history
<1>0. <<>> \in Seq(Announcement) /\ <<>> \in Seq(Message)
  OBVIOUS
<1>1. CASE GatewayCrash
  <2>1. TypeOK'
    BY <1>0, <1>1 DEF TypeOK, GatewayCrash, ClientPhase, InFlight
  <2>2. ListsAgree'
    BY <1>1 DEF ListsAgree, GatewayCrash, OnItsWay
  <2>3. LastTells'
    BY <1>1 DEF LastTells, GatewayCrash
  <2>4. NewIsUnknown'
    BY <1>1 DEF TypeOK, NewIsUnknown, GatewayCrash, OnItsWay
  <2>5. AddedOnce' /\ ExpectsStatus'
    BY <1>1 DEF AddedOnce, ExpectsStatus, GatewayCrash
  <2> QED BY <2>1, <2>2, <2>3, <2>4, <2>5
<1>2. CASE GatewayBoot \/ DevicesBoot
  <2>1. TypeOK'
    BY <1>2 DEF TypeOK, GatewayBoot, DevicesBoot, InFlight
  <2>2. ExpectsStatus'
    BY <1>2 DEF ExpectsStatus, Expected, GatewayBoot, DevicesBoot
  <2>3. ListsAgree' /\ LastTells' /\ NewIsUnknown' /\ AddedOnce'
    BY <1>2, ListsKept DEF GatewayBoot, DevicesBoot
  <2> QED BY <2>1, <2>2, <2>3
<1>3. CASE DevicesCrash
  <2>1. TypeOK'
    BY <1>0, <1>3 DEF TypeOK, DevicesCrash, Phase, InFlight
  <2>2. ListsAgree' /\ LastTells' /\ AddedOnce' /\ ExpectsStatus'
    BY <1>3 DEF ListsAgree, LastTells, AddedOnce, ExpectsStatus, DevicesCrash
  <2>3. NewIsUnknown'
    BY <1>3 DEF NewIsUnknown, DevicesCrash, OnItsWay
  <2> QED BY <2>1, <2>2, <2>3
<1> QED BY <1>1, <1>2, <1>3

LEMMA NextIInv == IInv /\ [Next]_vars => IInv'
<1> SUFFICES ASSUME IInv, [Next]_vars PROVE IInv'
  OBVIOUS
<1>1. CASE \E s \in Stream : Open(s) \/ End(s) \/ Break(s)
  BY <1>1, OpenStep, EndStep, BreakStep
<1>2. CASE Forward \/ HandleAnnouncement
  BY <1>2, ForwardStep, HandleAnnouncementStep
<1>3. CASE \E m \in Message : \/ Publish(m) \/ Receive(m)
                              \/ SetStatus(m) \/ SetStatusFails(m) \/ Report(m)
  BY <1>3, MessageStep, ReportStep
<1>4. CASE GatewayCrash \/ GatewayBoot \/ DevicesCrash \/ DevicesBoot
  BY <1>4, RestartSteps
<1>5. CASE UNCHANGED vars
  <2> USE <1>5 DEF vars, lists, handling, history, IInv
  <2>1. TypeOK' /\ ExpectsStatus'
    BY DEF TypeOK, InFlight, ExpectsStatus, Expected
  <2>2. ListsAgree' /\ LastTells' /\ NewIsUnknown' /\ AddedOnce'
    BY ListsKept
  <2> QED BY <2>1, <2>2
<1> QED BY <1>1, <1>2, <1>3, <1>4, <1>5 DEF Next

LEMMA Invariance == Spec => []IInv
BY InitIInv, NextIInv, PTL DEF Spec

-----------------------------------------------------------------------------
(* The theorems.                                                           *)

\* Streams, announcements, messages and reports keep their types, and a service
\* that is down holds nothing.
THEOREM TypeCorrect == Spec => []TypeOK
<1>1. IInv => TypeOK
  BY DEF IInv
<1> QED BY <1>1, Invariance, PTL

\* However many streams come and go, the list of the devices service is the one of
\* the gateway, but for the streams that a restart cut off (events.service.ts:17-38,
\* observers.service.ts:11-17).
THEOREM ListsFollow == Spec => []ListsAgree
<1>1. IInv => ListsAgree
  BY DEF IInv
<1> QED BY <1>1, Invariance, PTL

\* However many messages are handled at the same time, a stream that was told of one
\* shows the stored status once all is quiet, unless the last report was overtaken
\* (devices.controller.ts:217-221).
THEOREM StreamsFollow == Spec => []StreamsFollowStatus
<1>1. IInv => StreamsFollowStatus
  <2> SUFFICES ASSUME IInv, Settled, NEW s \in told \cap observers \cap events
               PROVE  shown[s] = online \/ overtaken
    BY DEF StreamsFollowStatus
  <2>1. Expected(s) = shown[s]
    BY DEF Settled, Expected
  <2>2. ~(online \in Message /\ phase[online] = "written")
    BY DEF Settled, InFlight
  <2> QED BY <2>1, <2>2 DEF IInv, ExpectsStatus
<1> QED BY <1>1, Invariance, PTL
==============================================================================
