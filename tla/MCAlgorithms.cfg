\* Thresholds scaled down so that both sides of each are met; messages of up
\* to two questions and two answers.
SPECIFICATION Spec
CONSTANTS
    MaxDays = 3
    Usual = 2
    Exceptional = {1, 5}
    MaxExceptional = 2
    MaxWindows = 21
    MaxCount = 10
    Enabled = TRUE  NewEnabled = TRUE  RareEnabled = TRUE  VolumeEnabled = TRUE
    MaxDaysSeen = 2  MaxTotalCount = 20  MinCurrentWinCount = 2
    SpikeNum = 3  SpikeDen = 1
    MinSampleWindows = 3  MinCurrentCount = 2
    AvgNum = 3  AvgDen = 1  P95Num = 3  P95Den = 2
    Label = {a, b}
    Address = {ip1, ip2}
    TTL = {0, 1, 3}
    DefaultTTL = 2
    Fail = Fail
    MaxQuestions = 2  MaxAnswers = 2  MaxCells = 9
INVARIANTS
    PercentileIsNearestRank
    LargerWindowsStayAnomalous
    SteadyTrafficIsQuiet
    NamesReadBack
    ParsedAsWritten
    CutsAllOrNothing
CHECK_DEADLOCK FALSE
