\* flowmancer-agent-config.yaml, one tick a minute: buildDuration 5m,
\* windowSize 1m and the detector's values as shipped; the tester's constants.
SPECIFICATION TesterSpec
CONSTANTS
    web = web
    Key = {web}
    Noise = Noise
    Resolved = {web}
    Detectable = {web}
    KeyRank <- MCKeyRank
    WindowSize = 1
    DayLength = 1440
    MaxSamples = 288
    BuildUntil = 5
    ChanCap = 1024
    NoSnapshot = NoSnapshot
    MaxTime = 13
    MaxEvents = 151
    MaxLag = 0
    Enabled = TRUE  NewEnabled = TRUE  RareEnabled = TRUE  VolumeEnabled = TRUE
    MaxDaysSeen = 2  MaxTotalCount = 20  MinCurrentWinCount = 10
    SpikeNum = 3  SpikeDen = 1
    MinSampleWindows = 10  MinCurrentCount = 20
    AvgNum = 3  AvgDen = 1  P95Num = 3  P95Den = 2
    Subject = web
    baselineMinutes = 10  requestsPerMinute = 5
    burstDelayFromStart = 12  burstRequests = 100
INVARIANT BurstReportedByVolumeRule
