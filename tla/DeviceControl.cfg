SPECIFICATION ControlSpec
CONSTANTS
  Tuners = {"R82xx", "E4000", "FC0012", "FC0013", "FC2580", "none"}
  Freqs = {3, 9}
  Rates = {6}
  Widths = {2}
  Narrow = {2}
  Crystals = {x1, x2}
  Ppms = {0, 1}
  Torn = Torn
  Unlocked = Unlocked
  Gone = 100
  MaxFaults = 1
SYMMETRY Symmetry

INVARIANT ControlTypeOK
INVARIANT HearsWhatItSays
INVARIANT GainModeKnown
INVARIANT FailuresAreTold
CHECK_DEADLOCK FALSE
