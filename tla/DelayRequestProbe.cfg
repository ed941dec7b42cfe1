SPECIFICATION FairSpec
CONSTANTS
  Sources = {s1, s2}
  Mute = {s1}
  Threads = {app}
  Beacons = TRUE
  Unicast = TRUE
  Misses = 3
  AvgCount = 1
  MaxChanges = 0
PROPERTIES MulticastMeasured UnicastRetried
