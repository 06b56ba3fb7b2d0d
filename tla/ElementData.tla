------------------------------ MODULE ElementData ------------------------------
(***************************************************************************)
(* The history of an element of a sensor: the rows that saveDataMessage    *)
(* leaves in the data collection, their removal with the device, and       *)
(* GET /devices/:id/data/:element, which getData answers with averages     *)
(* over the hours of today or the days of this week or month.              *)
(*                                                                         *)
(* Times count slots; Hour, Day, Week and Month are lengths, and all       *)
(* months are alike.  A time zone is a distance from UTC that does not     *)
(* change.  Which readings are saved is the business of Sampling.          *)
(***************************************************************************)
EXTENDS Integers, SequencesExt

CONSTANTS Sensor,           \* the devices that report readings
          DHT,              \* those whose gpio is GPIO.DHT
          Value,            \* temperatures, in tenths of a degree
          Hour, Day, Week, Month,
          Zone, Offset,     \* the zones the database knows of, their distance to UTC
          ServiceZone,      \* zone of the devices service
          Summer,           \* clock times at which London has summer time
          MaxTime, MaxRows, \* bounds of the instance
          Null, UnknownZone

ASSUME SensorAssumption == DHT \subseteq Sensor
ASSUME CalendarAssumption ==
    /\ {Hour, Day, Week, Month} \subseteq Nat \ {0}
    /\ Day % Hour = 0 /\ Week % Day = 0 /\ Month % Day = 0
ASSUME ZoneAssumption ==
    /\ Offset \in [Zone -> Int]
    /\ ServiceZone \in Zone /\ UnknownZone \notin Zone /\ Null \notin Zone
ASSUME ValueAssumption == Value \subseteq Int /\ Null \notin Int
ASSUME DataBoundsAssumption == {MaxTime, MaxRows} \subseteq Nat

Row == [id : 1..MaxRows, topicId : Sensor, time : (-Hour)..(MaxTime + Hour),
        data : Value \cup {Null}]

\* type Period; the first three are the cases of getData.
Grouped == {"day", "week", "month"}
Period == Grouped \cup {"hour"}

\* humidity goes the way of temperature: the row holds the same value for both.
Element == {"temperature", "other"}

VARIABLES now,              \* the clock of the database
          rows,             \* the data collection
          chart             \* the answer given in the last step, if it gave one

dataVars == <<now, rows, chart>>

DataInit == now = 0 /\ rows = {} /\ chart = Null

-----------------------------------------------------------------------------
(* Rows.                                                                   *)

\* DateTime.fromISO(..., { zone: 'Europe/London' }).toUTC()
ToUTC(clock) == IF clock \in Summer THEN clock - Hour ELSE clock

\* Both elements of a DHT sensor hold its temperature; other sensors leave data
\* undefined.  A reading that is delivered twice has two rows.
SaveDataMessage(d, clock, temperature) ==
    /\ Cardinality(rows) < MaxRows
    /\ LET id == CHOOSE i \in 1..MaxRows : \A r \in rows : r.id # i
           data == IF d \in DHT THEN temperature ELSE Null
       IN  rows' = rows \cup {[id |-> id, topicId |-> d, time |-> ToUTC(clock), data |-> data]}
    /\ chart' = Null
    /\ UNCHANGED now

\* removeDevice of a sensor ends with it.
RemoveData(d) ==
    /\ rows' = {r \in rows : r.topicId # d}
    /\ chart' = Null
    /\ UNCHANGED now

Tick == /\ now < MaxTime
        /\ now' = now + 1
        /\ chart' = Null
        /\ UNCHANGED rows

-----------------------------------------------------------------------------
(* getData.                                                                *)

LengthOf(period) == CASE period = "day" -> Day [] period = "week" -> Week
                      [] period = "month" -> Month

\* Mutant: copied from the filter.
StepOf_Week(period) == IF period = "day" THEN Hour ELSE IF period = "week" THEN Day ELSE Week

StepOf(period) == IF period = "day" THEN Hour ELSE Day

\* Mutant: the zone is not passed on.
DateTrunc_UTC(t, unit, zone) == t - (t % unit)

\* $dateTrunc
DateTrunc(t, unit, zone) == t - ((t + Offset[zone]) % unit)

\* $match: { topicId: deviceId } is an object, and so true of every row.
Match(period, zone) ==
    {r \in rows : DateTrunc(now, LengthOf(period), zone)
                    = DateTrunc(r.time, LengthOf(period), zone)}

\* $round to one decimal, to the even one of two; binary fractions are left out.
RoundedMean(sum, n) ==
    LET low == sum \div n
        rest == 2 * (sum % n)
    IN  IF rest > n \/ (rest = n /\ low % 2 = 1) THEN low + 1 ELSE low

Numbers(S, element) == {r \in S : r.data # Null /\ element # "other"}

\* Mutant: what is no number counts as zero.
Average_OfAll(S, element) ==
    IF Numbers(S, element) = {} THEN Null
    ELSE RoundedMean(MapThenSumSet(LAMBDA r : r.data, Numbers(S, element)), Cardinality(S))

\* $avg: what is no number is left out, and of nothing the average is null.
Average(S, element) ==
    LET numbers == Numbers(S, element) IN
    IF numbers = {} THEN Null
    ELSE RoundedMean(MapThenSumSet(LAMBDA r : r.data, numbers), Cardinality(numbers))

\* $group
Group(S, element, period, zone) ==
    LET DateOf(r) == DateTrunc(r.time, StepOf(period), zone) IN
    {[date |-> t, value |-> Average({r \in S : DateOf(r) = t}, element)] : t \in {DateOf(r) : r \in S}}

\* Mutant: the projection is made in the cases only.
Ungrouped_Bare == {[date |-> r.id] : r \in rows}

\* A period that is no case of the switch: every row, its own id for a date.
Ungrouped == {[date |-> r.id, value |-> Null] : r \in rows}

\* $sort: no date comes twice.
Sorted(points) ==
    CHOOSE s \in [1..Cardinality(points) -> points] :
        \A i, j \in 1..Cardinality(points) : i < j => s[i].date < s[j].date

GetData(element, period, zone) ==
    Sorted(IF period \in Grouped
           THEN Group(Match(period, zone), element, period, zone) ELSE Ungrouped)

\* The route with its defaults.  A zone the database does not know of ends the
\* aggregation with an error: the call is acknowledged and never answered.
GetElementData(element, period, tz) ==
    LET asked == IF period = Null THEN "day" ELSE period
        zone == IF tz = Null THEN ServiceZone ELSE tz
    IN  /\ asked \in Grouped => zone # UnknownZone
        /\ chart' = [element |-> element, period |-> asked, zone |-> zone,
                     points |-> GetData(element, asked, zone)]
        /\ UNCHANGED <<now, rows>>

-----------------------------------------------------------------------------
\* Clocks of devices show UTC or an hour more.  Answers change nothing, so that
\* one of them after each change is as good as many.
DataNext ==
    \/ Tick
    \/ \E d \in Sensor :
          \/ RemoveData(d)
          \/ \E clock \in {now, now + Hour}, v \in Value : SaveDataMessage(d, clock, v)
    \/ /\ chart = Null
       /\ \E element \in Element, period \in Period \cup {Null},
             tz \in Zone \cup {Null, UnknownZone} : GetElementData(element, period, tz)

DataSpec == DataInit /\ [][DataNext]_dataVars

-----------------------------------------------------------------------------
(* Properties.                                                             *)

Point == [date : Int, value : Int \cup {Null}]

DataTypeOK ==
    /\ now \in 0..MaxTime
    /\ rows \subseteq Row
    /\ chart # Null => \A i \in DOMAIN chart.points : chart.points[i] \in Point

\* Whatever the zone, an answer for a day, a week or a month divides the current
\* one: its points follow each other, none overlaps the next, and the rows they
\* stand for are those of the current day, week or month, all of them and no
\* others (data.repository.ts:31-133).
LocalNumber(t, unit, zone) == (t + Offset[zone]) \div unit

StandsFor(point) ==
    {r \in rows : point.date <= r.time /\ r.time < point.date + StepOf(chart.period)}

ChartDivides ==
    chart # Null /\ chart.period \in Grouped =>
       LET p == chart.points
           length == LengthOf(chart.period)
       IN  /\ \A i, j \in DOMAIN p : i < j => p[i].date + StepOf(chart.period) <= p[j].date
           /\ \A i \in DOMAIN p : StandsFor(p[i]) # {}
           /\ UNION {StandsFor(p[i]) : i \in DOMAIN p}
                = {r \in rows : LocalNumber(r.time, length, chart.zone)
                                  = LocalNumber(now, length, chart.zone)}

\* A point lies between the smallest and the largest number it stands for; it is
\* empty if, and only if, it stands for none (data.repository.ts:59, 139).
ChartWithin ==
    chart # Null /\ chart.period \in Grouped =>
       \A i \in DOMAIN chart.points :
          LET point == chart.points[i]
              values == {r.data : r \in Numbers(StandsFor(point), chart.element)}
          IN  IF values = {} THEN point.value = Null
              ELSE point.value # Null /\ Min(values) <= point.value /\ point.value <= Max(values)

\* A day that is in this week and in this month has the same value in both
\* answers, and the one of today lies between its hours.
PointsOf(period, zone) == ToSet(GetData("temperature", period, zone))

ViewsAgree ==
    \A z \in Zone :
       LET week == PointsOf("week", z)
           month == PointsOf("month", z)
           hours == {p.value : p \in {q \in PointsOf("day", z) : q.value # Null}}
       IN  /\ \A p \in week, q \in month : p.date = q.date => p = q
           /\ \A p \in month :
                 /\ p.date = DateTrunc(now, Day, z)
                 /\ p.value # Null
                 => hours # {} /\ Min(hours) <= p.value /\ p.value <= Max(hours)
==============================================================================
