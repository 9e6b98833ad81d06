\* Time for two answers to expire one after the other and a third to live;
\* payloads cut after the second answer.
SPECIFICATION FairPathSpec
CONSTANTS
    ip1 = ip1  ip2 = ip2  web = web  db = db
    Address = {ip1, ip2}
    Label = {web, db}
    TTL = {0, 1}
    DefaultTTL = 2
    None = None  Fail = Fail
    MaxTime = 5
    Frame <- Frames
    MaxPayload = 51
    DnsRingCap = 2
    MaxCaptured = 3
INVARIANTS
    PathTypeOK
    LiveAnswersKept
    AnswersNameConnections
PROPERTIES
    HitsAreCurrent
    RecordsRead
CHECK_DEADLOCK FALSE
