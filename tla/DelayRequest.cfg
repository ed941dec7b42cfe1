SPECIFICATION Spec
CONSTANTS
  Sources = {s1}
  Mute = {}
  Threads = {app}
  Beacons = FALSE
  Unicast = FALSE
  Misses = 3
  AvgCount = 2
  MaxChanges = 1
INVARIANTS DelayInv DivisorOfSamples
