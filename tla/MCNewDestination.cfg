\* The instance of MCFlowPipeline.cfg.
SPECIFICATION Spec
CONSTANTS
    web = web  sys = sys  pid = pid
    Key = {web, sys, pid}
    Noise = Noise
    Resolved = {web, sys}
    Detectable = {web, pid}
    KeyRank <- MCKeyRank
    WindowSize = 2
    DayLength = 3
    MaxSamples = 1
    BuildUntil = 4
    ChanCap = 1
    NoSnapshot = NoSnapshot
    MaxTime = 6
    MaxEvents = 4
    MaxLag = 2
    Enabled = TRUE  NewEnabled = TRUE  RareEnabled = TRUE  VolumeEnabled = TRUE
    MaxDaysSeen = 1  MaxTotalCount = 2  MinCurrentWinCount = 1
    SpikeNum = 1  SpikeDen = 1
    MinSampleWindows = 1  MinCurrentCount = 1
    AvgNum = 1  AvgDen = 1  P95Num = 3  P95Den = 2
INVARIANT NewMeansNotInBaseline
