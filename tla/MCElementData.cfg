SPECIFICATION DataSpec
CONSTANTS
    Sensor = {d1, d2}
    DHT = {d1}
    Value <- MCValue
    Hour = 1
    Day = 2
    Week = 4
    Month = 6
    Zone <- MCZone
    Offset <- MCOffset
    ServiceZone = "Europe/Moscow"
    Summer <- MCSummer
    MaxTime = 6
    MaxRows = 3
    Null = Null
    UnknownZone = UnknownZone
INVARIANTS
    DataTypeOK
    ChartDivides
    ChartWithin
    ViewsAgree
