SPECIFICATION SignalSpec
CONSTANTS
  Deltas = {0, 500, 585, 586, 5000, 20000, 50000, 50001, 600000, 600001, 1200000, 1200001}
  SampleRates = {500, 12000, 24000}
  OutputRates = {25000, 48000}
  BlockLength = 512
  Signals = {"silence", "left", "right", "faint", "pulse", "steps"}
  BlocksBound = 2

INVARIANT ChannelsAreReceived
INVARIANT CutsCostOneSampleAtMost
INVARIANT NothingWraps
INVARIANT TurnsAreTold
