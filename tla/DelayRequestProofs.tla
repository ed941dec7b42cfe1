------------------------- MODULE DelayRequestProofs -------------------------
(* Proofs about DelayRequest, for every value of its constants.            *)
EXTENDS DelayRequest, TLAPS

Probes ==
  [outstanding : BOOLEAN, misses : 0..Misses - 1, back : {"off", "on", "over"}]
TimerStates ==
  [pc : {"absent", "waiting", "fired", "decide", "number", "transmit", "sent"},
   unicast : BOOLEAN, ago : 0..Stale]
DaemonPlaces ==
  {"top", "receive", "clear", "average", "negotiate", "interval", "next", "random", "rest",
   "check"}
DaemonStates == [pc : DaemonPlaces, value : Profiles \cup {"other"}]
AverageStates ==
  [pc : {"idle", "count", "store", "divide", "keep"}, of : Averages, divisor : 0..AvgCount]
ThreadPlaces ==
  ToReset \cup {"idle", "interval", "next", "set", "arm", "restore", "armed", "fall"}
ThreadStates == [pc : ThreadPlaces, seen : Profiles, after : {"idle", "arm", "armed"}]

(* The records and functions behind the ranges of TypeOK.                  *)
Shapes ==
  /\ probe \in Probes
  /\ count \in [Averages -> 0..AvgCount] /\ made \in [Averages -> 0..AvgCount]
  /\ timer \in TimerStates
  /\ daemon \in DaemonStates
  /\ average \in [Averagers -> AverageStates]
  /\ thread \in [Resetters -> ThreadStates]
  /\ wireless \in BOOLEAN /\ fresh \in BOOLEAN
  /\ answers \subseteq Sources /\ torn \subseteq Averages \cup {"interval"}

(* The two threads that average peer delays are never on the same port,    *)
(* and the daemon averages, resets and goes through its loop in turn.      *)
OneAtATime ==
  /\ average["event"].pc # "idle" => wireless /\ average["event"].of = "peer"
  /\ average["daemon"].pc # "idle" =>
       daemon.pc = "average" /\ (average["daemon"].of = "peer" => ~wireless)
  /\ thread["daemon"].pc # "idle" => daemon.pc = "top"

(* Unless torn, an average at rest has counted its samples, a reset that   *)
(* cleared the count is alone until it cleared the delay, and whoever      *)
(* averages goes by the count.                                             *)
Sampled(a) ==
  /\ Clearing(a) => count[a] = 0 /\ ~Averaging(a)
  /\ ~Clearing(a) /\ ~Averaging(a) => count[a] = made[a]
  /\ \A b \in Averagers : average[b].of = a =>
       /\ average[b].pc = "store" =>
            count[a] = made[a] /\ average[b].divisor = Raised(made[a])
       /\ average[b].pc = "divide" =>
            count[a] = Raised(made[a]) /\ average[b].divisor = Raised(made[a])
       /\ average[b].pc = "keep" => average[b].divisor = count[a]
SampleInv == \A a \in Averages : a \notin torn => Sampled(a)

(* A thread that will yet test the profile, or store the gPTP interval.    *)
Pending(stages) ==
  \E t \in Resetters :
    thread[t].pc \in ToReset \/ (thread[t].pc \in stages /\ thread[t].seen = "gptp")

(* Unless torn, nobody stands between test and store beside a reset, and   *)
(* in gPTP either a reset is on its way or all intervals, stored or about  *)
(* to be, are gPTP's.                                                      *)
Apart ==
  /\ \A t \in Resetters : \A u \in Resetters \ {t} :
       ~(thread[t].pc \in {"interval", "next"} /\ thread[u].pc \in {"interval", "next"})
  /\ \A t \in Resetters :
       /\ thread[t].pc = "interval" => daemon.pc # "interval"
       /\ thread[t].pc \in {"interval", "next"} => daemon.pc # "random"
IntervalKept ==
  profile = "gptp" /\ ~Pending({"interval"}) =>
    /\ interval = "gptp" /\ daemon.pc # "interval"
    /\ \A t \in Resetters : thread[t].pc # "interval"
NextKept ==
  profile = "gptp" /\ ~Pending({"interval", "next"}) =>
    /\ next = "gptp" /\ (daemon.pc = "random" => daemon.value = "gptp")
    /\ \A t \in Resetters : thread[t].pc \notin {"interval", "next"}
IntervalInv == "interval" \notin torn => Apart /\ IntervalKept /\ NextKept

(* What every interleaving of timer, daemon, event loop and the threads    *)
(* that change the profile keeps.                                          *)
Typed == TypeOK /\ Shapes
ThreadInv == Typed /\ OneAtATime /\ SampleInv /\ IntervalInv

(* What the constants and the small functions give.                        *)
LEMMA Ranges ==
  /\ Misses \in Nat \ {0} /\ AvgCount \in Nat \ {0} /\ Mute \subseteq Sources
  /\ 0 \in 0..Misses - 1 /\ 0 \in 0..AvgCount
  /\ \A n \in 0..AvgCount : Raised(n) \in 0..AvgCount
  /\ \A m, n \in 0..AvgCount : Lesser(m, n) \in 0..AvgCount
  /\ 0 \in 0..Stale /\ \A n \in 0..Stale : Older(n) \in 0..Stale
  /\ Threads \subseteq Resetters
  /\ "daemon" \in Resetters /\ "daemon" \in Averagers /\ "event" \in Averagers
  /\ "path" \in Averages /\ "peer" \in Averages
BY DelayRequestAssumption
   DEF Raised, Lesser, Older, Stale, Resetters, Averagers, Averages

(* The daemon and a thread go on; the other threads stand.                 *)
LEMMA GoesOn ==
  ASSUME daemon \in DaemonStates, NEW pc \in DaemonPlaces, Goes(pc)
  PROVE  daemon' \in DaemonStates /\ daemon'.pc = pc /\ daemon'.value = daemon.value
BY DEF Goes, DaemonStates

LEMMA TurnsTo ==
  ASSUME thread \in [Resetters -> ThreadStates], NEW t \in Resetters,
         NEW pc \in ThreadPlaces, Turns(t, pc)
  PROVE  /\ thread' \in [Resetters -> ThreadStates]
         /\ thread'[t].pc = pc /\ thread'[t].seen = thread[t].seen
         /\ \A u \in Resetters \ {t} : thread'[u] = thread[u]
BY DEF Turns, ThreadStates

LEMMA BeginsWith ==
  ASSUME average \in [Averagers -> AverageStates], NEW b \in Averagers,
         NEW a \in Averages, Begin(b, a)
  PROVE  /\ average' \in [Averagers -> AverageStates]
         /\ average'[b].pc = "count" /\ average'[b].of = a
         /\ \A c \in Averagers \ {b} : average'[c] = average[c]
<1>1. 0 \in 0..AvgCount
  BY Ranges
<1> QED BY <1>1 DEF Begin, AverageStates

(* The misses that are counted stay below the limit.                       *)
LEMMA ProbeGoesOn == probe \in Probes => Active \in Probes
<1> SUFFICES ASSUME probe \in Probes PROVE Counted \in Probes
  BY DEF Active, Probes
<1>1. CASE ~probe.outstanding
  BY <1>1 DEF Counted
<1>2. CASE probe.outstanding /\ probe.misses + 1 >= Misses
  BY <1>2, Ranges DEF Counted, Limit, Probes
<1>3. CASE probe.outstanding /\ ~(probe.misses + 1 >= Misses)
  <2>1. Misses \in Nat \ {0} /\ probe.misses \in 0..Misses - 1
    BY Ranges DEF Probes
  <2>2. probe.misses + 1 \in 0..Misses - 1
    BY <1>3, <2>1
  <2>3. Counted = [probe EXCEPT !.outstanding = FALSE, !.misses = @ + 1]
    BY <1>3 DEF Counted, Limit
  <2> QED BY <2>2, <2>3 DEF Probes
<1> QED BY <1>1, <1>2, <1>3

(* The counters, the flags and the frames in flight keep their ranges.     *)
LEMMA TypeStep == Typed /\ [Next]_vars => Typed'
<1> SUFFICES ASSUME Typed, [Next]_vars PROVE Typed'
  OBVIOUS
<1> USE DEF Typed, TypeOK, Shapes, profiles, client, averages, intervals, aside, At
<1>1. CASE TimerExpires
  <2>1. timer' \in TimerStates
    BY <1>1, Ranges DEF TimerExpires, TimerStates, Waiting, Stale
  <2> QED BY <1>1, <2>1 DEF TimerExpires, besides, TimerStates
<1>2. CASE TimerFires
  <2>1. timer' \in TimerStates
    BY <1>2, Ranges DEF TimerFires, TimerStates, Waiting, Stale
  <2> QED BY <1>2, <2>1 DEF TimerFires, besides, TimerStates
<1>3. CASE TimerPeerRequest
  <2>1. timer' \in TimerStates
    BY <1>3, Ranges DEF TimerPeerRequest, TimerStates, Waiting, Stale
  <2>2. replies' \subseteq [from : Sources, ago : 0..Stale]
    BY <1>3, Ranges DEF TimerPeerRequest, Draw
  <2> QED BY <1>3, <2>1, <2>2 DEF TimerPeerRequest, besides, TimerStates
<1>4. CASE TimerDecide
  <2>1. probe' \in Probes
    BY <1>4, ProbeGoesOn DEF TimerDecide
  <2>2. (MayProbe /\ probe'.back = "off") \in BOOLEAN
    OBVIOUS
  <2>3. timer' \in TimerStates
    BY <1>4, <2>2 DEF TimerDecide, TimerStates
  <2> QED BY <1>4, <2>1, <2>3 DEF TimerDecide, besides, TimerStates, Probes
<1>5. CASE TimerNumber
  <2>1. timer' \in TimerStates
    BY <1>5, Ranges DEF TimerNumber, TimerStates, Waiting, Stale
  <2>2. replies' \subseteq [from : Sources, ago : 0..Stale]
    BY <1>5, Ranges DEF TimerNumber, Draw
  <2> QED BY <1>5, <2>1, <2>2 DEF TimerNumber, besides, TimerStates
<1>6. CASE TimerTransmit
  <2>1. timer' \in TimerStates
    BY <1>6, Ranges DEF TimerTransmit, TimerStates, Waiting, Stale
  <2>2. replies' \subseteq [from : Sources, ago : 0..Stale]
    BY <1>6 DEF TimerTransmit, Answering, TimerStates
  <2> QED BY <1>6, <2>1, <2>2 DEF TimerTransmit, besides, TimerStates
<1>7. CASE TimerSendFails
  <2>1. timer' \in TimerStates
    BY <1>7, Ranges DEF TimerSendFails, TimerStates, Waiting, Stale
  <2> QED BY <1>7, <2>1 DEF TimerSendFails, besides, TimerStates
<1>8. CASE TimerReturns
  <2>1. timer' \in TimerStates
    BY <1>8, Ranges DEF TimerReturns, TimerStates, Waiting, Stale
  <2>2. probe' \in Probes
    BY <1>8 DEF TimerReturns, Probes
  <2> QED BY <1>8, <2>1, <2>2 DEF TimerReturns, besides, Probes, TimerStates
<1>9. CASE LoopTop
  <2>1. daemon' \in DaemonStates
    BY <1>9, GoesOn DEF LoopTop, DaemonPlaces
  <2> QED BY <1>9, <2>1 DEF LoopTop
<1>10. CASE ReceiveNothing
  <2>1. daemon' \in DaemonStates
    BY <1>10, GoesOn DEF ReceiveNothing, DaemonPlaces
  <2> QED BY <1>10, <2>1 DEF ReceiveNothing
<1>11. ASSUME NEW stable \in BOOLEAN, ReceiveSync(stable) PROVE Typed'
  <2>1. daemon' \in DaemonStates
    BY <1>11, GoesOn DEF ReceiveSync, DaemonPlaces
  <2> QED BY <1>11, <2>1 DEF ReceiveSync
<1>12. ASSUME NEW s \in Sources, ReceiveAnnounce(s) PROVE Typed'
  <2>1. daemon' \in DaemonStates
    BY <1>12, GoesOn DEF ReceiveAnnounce, DaemonPlaces
  <2>2. count' \in [Averages -> 0..AvgCount] /\ made' \in [Averages -> 0..AvgCount]
    BY <1>12, Ranges DEF ReceiveAnnounce, Restart, Restarted
  <2>3. probe' \in Probes
    BY <1>12, Ranges DEF ReceiveAnnounce, NoProbe, Probes
  <2> QED BY <1>12, <2>1, <2>2, <2>3 DEF ReceiveAnnounce, Restart, Probes
<1>13. ASSUME NEW r \in replies, ReceiveReply(r) PROVE Typed'
  <2>1. daemon' \in DaemonStates
    BY <1>13, GoesOn DEF ReceiveReply, DaemonPlaces
  <2> QED BY <1>13, <2>1 DEF ReceiveReply
<1>14. CASE ReceivePeerResponse
  <2>1. daemon' \in DaemonStates
    BY <1>14, GoesOn DEF ReceivePeerResponse, DaemonPlaces
  <2> QED BY <1>14, <2>1 DEF ReceivePeerResponse
<1>15. ASSUME NEW restart \in BOOLEAN, NEW inRange \in BOOLEAN, ReceivePeerDelay(restart,
              inRange)
       PROVE  Typed'
  <2>1. daemon' \in DaemonStates
    BY <1>15, GoesOn DEF ReceivePeerDelay, DaemonPlaces
  <2>2. count' \in [Averages -> 0..AvgCount] /\ made' \in [Averages -> 0..AvgCount]
    BY <1>15, Ranges DEF ReceivePeerDelay, Restart, Restarted
  <2>3. average' \in [Averagers -> AverageStates]
    BY <1>15, Ranges, BeginsWith DEF ReceivePeerDelay
  <2>4. torn' \subseteq Averages \cup {"interval"} /\ fresh' = FALSE
    BY <1>15 DEF ReceivePeerDelay, Restart
  <2>5. UNCHANGED <<profiles, client, probe, intervals, timer, wireless, replies, answers>>
    BY <1>15 DEF ReceivePeerDelay
  <2> QED BY <1>15, <2>1, <2>2, <2>3, <2>4, <2>5 DEF Averages
<1>16. ASSUME NEW inRange \in BOOLEAN, ReplyAnswered(inRange) PROVE Typed'
  <2>1. daemon' \in DaemonStates
    BY <1>16, GoesOn DEF ReplyAnswered, DaemonPlaces
  <2>2. average' \in [Averagers -> AverageStates]
    BY <1>16, Ranges, BeginsWith DEF ReplyAnswered
  <2>3. probe' \in Probes
    BY <1>16, Ranges DEF ReplyAnswered, Probes
  <2> QED BY <1>16, <2>1, <2>2, <2>3 DEF ReplyAnswered, Probes
<1>17. CASE ReplyNegotiates
  <2>1. daemon' \in DaemonStates
    BY <1>17, GoesOn DEF ReplyNegotiates, DaemonPlaces
  <2> QED BY <1>17, <2>1 DEF ReplyNegotiates
<1>18. CASE ReplyInterval
  <2>1. daemon' \in DaemonStates
    BY <1>18, GoesOn DEF ReplyInterval, DaemonPlaces
  <2> QED BY <1>18, <2>1 DEF ReplyInterval, Profiles
<1>19. CASE ReplyDraws
  <2>1. daemon' \in DaemonStates
    BY <1>19 DEF ReplyDraws, DaemonStates, DaemonPlaces
  <2> QED BY <1>19, <2>1 DEF ReplyDraws
<1>20. CASE ReplyNextInterval
  <2>1. daemon' \in DaemonStates /\ daemon.value \in Profiles \cup {"other"}
    BY <1>20 DEF ReplyNextInterval, DaemonStates, DaemonPlaces
  <2> QED BY <1>20, <2>1 DEF ReplyNextInterval
<1>21. ASSUME NEW expired \in BOOLEAN, NEW beacon \in BOOLEAN, LoopRest(expired,
              beacon)
       PROVE  Typed'
  <2>1. daemon' \in DaemonStates
    BY <1>21, GoesOn DEF LoopRest, DaemonPlaces
  <2>2. timer' \in TimerStates
    BY <1>21, Ranges DEF LoopRest, TimerStates
  <2>3. replies' \subseteq [from : Sources, ago : 0..Stale]
    BY <1>21, Ranges DEF LoopRest, Draw
  <2> QED BY <1>21, <2>1, <2>2, <2>3 DEF LoopRest, TimerStates
<1>22. CASE LoopEnds
  <2>1. daemon' \in DaemonStates
    BY <1>22, GoesOn DEF LoopEnds, DaemonPlaces
  <2> QED BY <1>22, <2>1 DEF LoopEnds
<1>23. CASE LoopFallback
  <2>1. thread' \in [Resetters -> ThreadStates]
    BY <1>23, Ranges, TurnsTo DEF LoopFallback, ThreadPlaces, ToReset
  <2>2. daemon' \in DaemonStates
    BY <1>23, GoesOn DEF LoopFallback, DaemonPlaces
  <2> QED BY <1>23, <2>1, <2>2 DEF LoopFallback
<1>24. CASE FallbackProfile
  <2>1. thread' \in [Resetters -> ThreadStates]
    BY <1>24, Ranges, TurnsTo DEF FallbackProfile, ThreadPlaces, ToReset
  <2> QED BY <1>24, <2>1 DEF FallbackProfile, Profiles
<1>25. CASE LoopRearms
  <2>1. thread' \in [Resetters -> ThreadStates]
    BY <1>25, Ranges, TurnsTo DEF LoopRearms, ThreadPlaces, ToReset
  <2> QED BY <1>25, <2>1 DEF LoopRearms
<1>26. CASE InjectPeerDelay
  <2>1. average' \in [Averagers -> AverageStates]
    BY <1>26, Ranges, BeginsWith DEF InjectPeerDelay
  <2> QED BY <1>26, <2>1 DEF InjectPeerDelay
<1>27. ASSUME NEW b \in Averagers, AverageCount(b) PROVE Typed'
  <2>1. average[b].of \in Averages
    BY DEF AverageStates
  <2>2. Raised(count[average[b].of]) \in 0..AvgCount
    BY <2>1, Ranges
  <2> DEFINE counted == [average[b] EXCEPT !.pc = IF count[average[b].of] < AvgCount
                                             THEN "store" ELSE "divide",
                                        !.divisor = Raised(count[average[b].of])]
  <2>a. average' = [average EXCEPT ![b] = counted]
    BY <1>27 DEF AverageCount
  <2>b. counted \in AverageStates
    BY <2>2 DEF AverageStates
  <2>3. average' \in [Averagers -> AverageStates]
    BY <2>a, <2>b
  <2> QED BY <1>27, <2>1, <2>3 DEF AverageCount
<1>28. ASSUME NEW b \in Averagers, AverageStore(b) PROVE Typed'
  <2>1. average[b].of \in Averages /\ average[b].divisor \in 0..AvgCount
    BY DEF AverageStates
  <2>2. count' \in [Averages -> 0..AvgCount]
    BY <1>28, <2>1 DEF AverageStore
  <2>3. average' \in [Averagers -> AverageStates]
    BY <1>28 DEF AverageStore, AverageStates
  <2> QED BY <1>28, <2>2, <2>3 DEF AverageStore
<1>29. ASSUME NEW b \in Averagers, AverageReread(b) PROVE Typed'
  <2>1. average[b].of \in Averages
    BY DEF AverageStates
  <2>2. average' \in [Averagers -> AverageStates]
    BY <1>29, <2>1 DEF AverageReread, AverageStates
  <2> QED BY <1>29, <2>2 DEF AverageReread
<1>30. ASSUME NEW b \in Averagers, AverageDivide(b) PROVE Typed'
  <2>1. average[b].of \in Averages /\ average[b].divisor \in 0..AvgCount
    BY DEF AverageStates
  <2>2. Lesser(average[b].divisor, Raised(made[average[b].of])) \in 0..AvgCount
    BY <2>1, Ranges
  <2>3. average' \in [Averagers -> AverageStates]
    BY <1>30, <2>2 DEF AverageDivide, AverageStates
  <2> QED BY <1>30, <2>3 DEF AverageDivide
<1>31. ASSUME NEW b \in Averagers, AverageKeep(b) PROVE Typed'
  <2>1. average[b].of \in Averages /\ average[b].divisor \in 0..AvgCount
    BY DEF AverageStates
  <2>2. made' \in [Averages -> 0..AvgCount]
    BY <1>31, <2>1 DEF AverageKeep
  <2>3. average' \in [Averagers -> AverageStates]
    BY <1>31, Ranges DEF AverageKeep, AverageStates, NoAverage
  <2>4. daemon' \in DaemonStates
    BY <1>31, GoesOn DEF AverageKeep, DaemonPlaces
  <2> QED BY <1>31, <2>2, <2>3, <2>4 DEF AverageKeep
<1>32. ASSUME NEW t \in Threads, LinkUp(t) PROVE Typed'
  <2>1. thread' \in [Resetters -> ThreadStates]
    BY <1>32, Ranges, TurnsTo DEF LinkUp, ThreadPlaces, ToReset
  <2> QED BY <1>32, <2>1 DEF LinkUp
<1>33. ASSUME NEW t \in Threads, NEW p \in Profiles, SetProfile(t, p) PROVE Typed'
  <2>1. thread' \in [Resetters -> ThreadStates]
    BY <1>33 DEF SetProfile, ThreadStates, ThreadPlaces, ToReset, Profiles, Idle
  <2> QED BY <1>33, <2>1 DEF SetProfile
<1>34. ASSUME NEW t \in Resetters, SetActive(t) PROVE Typed'
  <2>1. thread' \in [Resetters -> ThreadStates]
    BY <1>34, Ranges, TurnsTo DEF SetActive, ThreadPlaces, ToReset
  <2> QED BY <1>34, <2>1 DEF SetActive, ThreadStates
<1>35. ASSUME NEW t \in Resetters, SetPreferred(t) PROVE Typed'
  <2>1. thread' \in [Resetters -> ThreadStates]
    BY <1>35 DEF SetPreferred, ThreadStates, ThreadPlaces, ToReset, Profiles, Idle
  <2> QED BY <1>35, <2>1 DEF SetPreferred, ThreadStates
<1>36. ASSUME NEW t \in Resetters, Arm(t) PROVE Typed'
  <2>1. thread' \in [Resetters -> ThreadStates]
    BY <1>36, Ranges, TurnsTo DEF Arm, ThreadPlaces, ToReset
  <2> QED BY <1>36, <2>1 DEF Arm
<1>37. ASSUME NEW t \in Resetters, ArmRestores(t) PROVE Typed'
  <2>1. thread' = [thread EXCEPT ![t].pc = "client", ![t].after = "armed"]
    BY <1>37 DEF ArmRestores
  <2>2. [thread[t] EXCEPT !.pc = "client", !.after = "armed"] \in ThreadStates
    BY DEF ThreadStates, ThreadPlaces, ToReset
  <2>3. thread' = [thread EXCEPT ![t] = [thread[t] EXCEPT !.pc = "client", !.after = "armed"]]
    BY <2>1
  <2>4. thread' \in [Resetters -> ThreadStates]
    BY <2>2, <2>3
  <2> QED BY <1>37, <2>4 DEF ArmRestores
<1>38. ASSUME NEW t \in Resetters, Armed(t) PROVE Typed'
  <2>1. thread' \in [Resetters -> ThreadStates]
    BY <1>38 DEF Armed, ThreadStates, ThreadPlaces, ToReset, Profiles, Idle
  <2> QED BY <1>38, <2>1 DEF Armed
<1>39. ASSUME NEW t \in Resetters, ResetClient(t) PROVE Typed'
  <2>1. thread' \in [Resetters -> ThreadStates]
    BY <1>39, Ranges, TurnsTo DEF ResetClient, ThreadPlaces, ToReset
  <2>2. probe' \in Probes
    BY <1>39, Ranges DEF ResetClient, NoProbe, Probes
  <2> QED BY <1>39, <2>1, <2>2 DEF ResetClient, Probes
<1>40. ASSUME NEW t \in Resetters, NEW a \in Averages, ResetCount(t, a) PROVE Typed'
  <2>1. thread' \in [Resetters -> ThreadStates]
    BY <1>40, Ranges, TurnsTo DEF ResetCount, ThreadPlaces, ToReset, Averages
  <2>2. count' \in [Averages -> 0..AvgCount]
    BY <1>40, Ranges DEF ResetCount
  <2> QED BY <1>40, <2>1, <2>2 DEF ResetCount
<1>41. ASSUME NEW t \in Resetters, NEW a \in Averages, ResetDelay(t, a) PROVE Typed'
  <2>1. thread' \in [Resetters -> ThreadStates]
    BY <1>41, Ranges, TurnsTo DEF ResetDelay, ThreadPlaces, ToReset, Averages
  <2>2. made' \in [Averages -> 0..AvgCount]
    BY <1>41, Ranges DEF ResetDelay
  <2> QED BY <1>41, <2>1, <2>2 DEF ResetDelay
<1>42. ASSUME NEW t \in Resetters, ResetPermission(t) PROVE Typed'
  <2>1. thread' \in [Resetters -> ThreadStates]
    BY <1>42, Ranges, TurnsTo DEF ResetPermission, ThreadPlaces, ToReset
  <2> QED BY <1>42, <2>1 DEF ResetPermission
<1>43. ASSUME NEW t \in Resetters, ResetExchange(t) PROVE Typed'
  <2>1. thread' \in [Resetters -> ThreadStates]
    BY <1>43, Ranges, TurnsTo DEF ResetExchange, ThreadPlaces, ToReset
  <2> QED BY <1>43, <2>1 DEF ResetExchange
<1>44. ASSUME NEW t \in Resetters, ResetTests(t) PROVE Typed'
  <2>1. thread' = [thread EXCEPT ![t].pc = "interval", ![t].seen = profile]
    BY <1>44 DEF ResetTests
  <2>2. [thread[t] EXCEPT !.pc = "interval", !.seen = profile] \in ThreadStates
    BY DEF ThreadStates, ThreadPlaces
  <2>3. thread' = [thread EXCEPT ![t] = [thread[t] EXCEPT !.pc = "interval", !.seen = profile]]
    BY <2>1
  <2>4. thread' \in [Resetters -> ThreadStates]
    BY <2>2, <2>3
  <2> QED BY <1>44, <2>4 DEF ResetTests
<1>45. ASSUME NEW t \in Resetters, ResetInterval(t) PROVE Typed'
  <2>1. thread' \in [Resetters -> ThreadStates]
    BY <1>45, Ranges, TurnsTo DEF ResetInterval, ThreadPlaces, ToReset
  <2> QED BY <1>45, <2>1 DEF ResetInterval, ThreadStates
<1>46. ASSUME NEW t \in Resetters, ResetNextInterval(t) PROVE Typed'
  <2>1. thread[t].after \in {"idle", "arm", "armed"} /\ thread[t].seen \in Profiles
    BY <1>46 DEF ThreadStates
  <2>2. [Idle EXCEPT !.pc = thread[t].after] \in ThreadStates
    BY <2>1 DEF ThreadStates, ThreadPlaces, Idle, Profiles
  <2>3. thread' \in [Resetters -> ThreadStates]
    BY <1>46, <2>2 DEF ResetNextInterval
  <2> QED BY <1>46, <2>1, <2>3 DEF ResetNextInterval
<1>47. ASSUME NEW r \in replies, Lose(r) PROVE Typed'
  BY <1>47 DEF Lose
<1>48. ASSUME NEW s \in Mute, SourceAnswers(s) PROVE Typed'
  BY <1>48, Ranges DEF SourceAnswers
<1>49. CASE PeriodOver
  <2>1. probe' \in Probes
    BY <1>49 DEF PeriodOver, Probes
  <2> QED BY <1>49, <2>1 DEF PeriodOver, Probes
<1>50. CASE UNCHANGED vars
  BY <1>50 DEF vars
<1> HIDE DEF Typed, TypeOK, Shapes
<1> QED
  BY <1>1, <1>2, <1>3, <1>4, <1>5, <1>6, <1>7, <1>8, <1>9, <1>10, <1>11,
     <1>12, <1>13, <1>14, <1>15, <1>16, <1>17, <1>18, <1>19, <1>20, <1>21,
     <1>22, <1>23, <1>24, <1>25, <1>26, <1>27, <1>28, <1>29, <1>30, <1>31,
     <1>32, <1>33, <1>34, <1>35, <1>36, <1>37, <1>38, <1>39, <1>40, <1>41,
     <1>42, <1>43, <1>44, <1>45, <1>46, <1>47, <1>48, <1>49, <1>50
     DEF Next, TimerSends, Daemon, Receive, Reply, AverageGoesOn, ProfileSteps,
         ResetSteps, Outside, Averagers, Resetters

(* Steps that leave daemon, averages, intervals and threads alone; steps of *)
(* the daemon's loop that neither average nor set an interval; and those of *)
(* a thread that changes the profile outside the stores of its reset to an *)
(* average or an interval.                                                 *)
Quiet == UNCHANGED <<profile, thread, averages, intervals, daemon, wireless, torn>>
Looping ==
  /\ UNCHANGED <<profile, thread, averages, intervals, wireless, torn>>
  /\ daemon.pc # "average" /\ daemon'.pc \notin {"average", "interval", "random"}
  /\ daemon.pc = "top" => thread["daemon"].pc = "idle"
Beyond == Averages \cup {"interval", "next"}
Turning(t) ==
  /\ UNCHANGED <<averages, intervals, wireless, torn, daemon>>
  /\ \A u \in Resetters \ {t} : thread'[u] = thread[u]
  /\ thread[t].pc \notin Beyond /\ thread'[t].pc \notin Beyond
  /\ thread[t].pc \in ToReset => thread'[t].pc \in ToReset
  /\ profile' = profile \/ thread'[t].pc \in ToReset
  /\ t = "daemon" => daemon.pc = "top"
Sampling ==
  \/ \E s \in Sources : ReceiveAnnounce(s)
  \/ \E restart, inRange \in BOOLEAN : ReceivePeerDelay(restart, inRange)
  \/ \E inRange \in BOOLEAN : ReplyAnswered(inRange)
  \/ InjectPeerDelay \/ \E b \in Averagers : AverageGoesOn(b)
Negotiating == ReplyNegotiates \/ ReplyInterval \/ ReplyDraws \/ ReplyNextInterval
Storing(t) ==
  \/ \E a \in Averages : ResetCount(t, a) \/ ResetDelay(t, a)
  \/ ResetTests(t) \/ ResetInterval(t) \/ ResetNextInterval(t)

(* Every step is of one of these kinds, or the daemon's fallback begins.   *)
LEMMA StepKinds ==
  Typed /\ OneAtATime /\ [Next]_vars =>
    \/ Quiet \/ Looping \/ Sampling \/ Negotiating \/ LoopFallback
    \/ \E t \in Resetters : Turning(t) \/ Storing(t)
<1> SUFFICES ASSUME Typed, OneAtATime, [Next]_vars
             PROVE  \/ Quiet \/ Looping \/ Sampling \/ Negotiating \/ LoopFallback
                    \/ \E t \in Resetters : Turning(t) \/ Storing(t)
  OBVIOUS
<1>a. "daemon" \in Resetters /\ daemon \in DaemonStates
      /\ thread \in [Resetters -> ThreadStates]
  BY Ranges DEF Typed, Shapes
<1>1. TimerExpires => Quiet
  BY DEF Quiet, TimerExpires, besides, profiles, client, averages, intervals
<1>2. TimerFires => Quiet
  BY DEF Quiet, TimerFires, besides, profiles, client, averages, intervals
<1>3. TimerPeerRequest => Quiet
  BY DEF Quiet, TimerPeerRequest, besides, profiles, client, averages, intervals
<1>4. TimerDecide => Quiet
  BY DEF Quiet, TimerDecide, besides, profiles, client, averages, intervals
<1>5. TimerNumber => Quiet
  BY DEF Quiet, TimerNumber, besides, profiles, client, averages, intervals
<1>6. TimerTransmit => Quiet
  BY DEF Quiet, TimerTransmit, besides, profiles, client, averages, intervals
<1>7. TimerSendFails => Quiet
  BY DEF Quiet, TimerSendFails, besides, profiles, client, averages, intervals
<1>8. TimerReturns => Quiet
  BY DEF Quiet, TimerReturns, besides, profiles, client, averages, intervals
<1>9. ASSUME NEW r \in replies, Lose(r) PROVE Quiet
  BY <1>9 DEF Quiet, Lose, profiles, client, averages, intervals
<1>10. ASSUME NEW s \in Mute, SourceAnswers(s) PROVE Quiet
  BY <1>10 DEF Quiet, SourceAnswers, profiles, client, averages, intervals
<1>11. PeriodOver => Quiet
  BY DEF Quiet, PeriodOver, profiles, client, averages, intervals
<1>12. UNCHANGED vars => Quiet
  BY DEF Quiet, vars, profiles, client, averages, intervals
<1>13. ASSUME LoopTop PROVE Looping
  <2>1. daemon'.pc \notin {"average", "interval", "random"}
    BY <1>13, <1>a DEF LoopTop, Goes, DaemonStates
  <2> QED BY <1>13, <2>1 DEF Looping, LoopTop, At, profiles, client, averages, intervals
<1>14. ASSUME ReceiveNothing PROVE Looping
  <2>1. daemon'.pc \notin {"average", "interval", "random"}
    BY <1>14, <1>a DEF ReceiveNothing, Goes, DaemonStates
  <2> QED BY <1>14, <2>1 DEF Looping, ReceiveNothing, At, profiles, client, averages, intervals
<1>15. ASSUME NEW stable \in BOOLEAN, ReceiveSync(stable) PROVE Looping
  <2>1. daemon'.pc \notin {"average", "interval", "random"}
    BY <1>15, <1>a DEF ReceiveSync, Goes, DaemonStates
  <2> QED BY <1>15, <2>1 DEF Looping, ReceiveSync, At, profiles, client, averages, intervals
<1>16. ASSUME NEW r \in replies, ReceiveReply(r) PROVE Looping
  <2>1. daemon'.pc \notin {"average", "interval", "random"}
    BY <1>16, <1>a DEF ReceiveReply, Goes, DaemonStates
  <2> QED BY <1>16, <2>1 DEF Looping, ReceiveReply, At, profiles, client, averages, intervals
<1>17. ASSUME ReceivePeerResponse PROVE Looping
  <2>1. daemon'.pc \notin {"average", "interval", "random"}
    BY <1>17, <1>a DEF ReceivePeerResponse, Goes, DaemonStates
  <2> QED BY <1>17, <2>1 DEF Looping, ReceivePeerResponse, At, profiles, client, averages, intervals
<1>18. ASSUME NEW expired \in BOOLEAN, NEW beacon \in BOOLEAN, LoopRest(expired,
              beacon)
       PROVE  Looping
  <2>1. daemon'.pc \notin {"average", "interval", "random"}
    BY <1>18, <1>a DEF LoopRest, Goes, DaemonStates
  <2> QED BY <1>18, <2>1 DEF Looping, LoopRest, At, profiles, client, averages, intervals
<1>19. ASSUME LoopEnds PROVE Looping
  <2>1. daemon'.pc \notin {"average", "interval", "random"}
    BY <1>19, <1>a DEF LoopEnds, Goes, DaemonStates
  <2> QED BY <1>19, <2>1 DEF Looping, LoopEnds, At, profiles, client, averages, intervals
<1>20. ASSUME FallbackProfile PROVE Turning("daemon")
  <2>1. "daemon" = "daemon" => daemon.pc = "top"
    BY <1>20, DelayRequestAssumption DEF FallbackProfile, OneAtATime, At, Resetters
  <2>2. /\ \A u \in Resetters \ {"daemon"} : thread'[u] = thread[u]
        /\ thread'["daemon"].pc \notin Beyond /\ thread["daemon"].pc \notin Beyond
        /\ thread["daemon"].pc \in ToReset => thread'["daemon"].pc \in ToReset
        /\ profile' = profile \/ thread'["daemon"].pc \in ToReset
    BY <1>20, <1>a DEF FallbackProfile, Turns, Beyond, ToReset, Averages, ThreadStates
  <2> QED BY <1>20, <2>1, <2>2 DEF Turning, FallbackProfile, aside, averages, intervals
<1>21. ASSUME LoopRearms PROVE Turning("daemon")
  <2>1. "daemon" = "daemon" => daemon.pc = "top"
    BY <1>21, DelayRequestAssumption DEF LoopRearms, OneAtATime, At, Resetters
  <2>2. /\ \A u \in Resetters \ {"daemon"} : thread'[u] = thread[u]
        /\ thread'["daemon"].pc \notin Beyond /\ thread["daemon"].pc \notin Beyond
        /\ thread["daemon"].pc \in ToReset => thread'["daemon"].pc \in ToReset
        /\ profile' = profile \/ thread'["daemon"].pc \in ToReset
    BY <1>21, <1>a DEF LoopRearms, Turns, Beyond, ToReset, Averages, ThreadStates
  <2> QED BY <1>21, <2>1, <2>2 DEF Turning, LoopRearms, aside, averages, intervals
<1>22. ASSUME NEW t \in Threads, LinkUp(t) PROVE Turning(t)
  <2>1. t = "daemon" => daemon.pc = "top"
    BY <1>22, DelayRequestAssumption DEF LinkUp, OneAtATime, At, Resetters
  <2>2. /\ \A u \in Resetters \ {t} : thread'[u] = thread[u]
        /\ thread'[t].pc \notin Beyond /\ thread[t].pc \notin Beyond
        /\ thread[t].pc \in ToReset => thread'[t].pc \in ToReset
        /\ profile' = profile \/ thread'[t].pc \in ToReset
    BY <1>22, <1>a DEF LinkUp, Turns, Beyond, ToReset, Averages, ThreadStates
  <2> QED BY <1>22, <2>1, <2>2 DEF Turning, LinkUp, aside, averages, intervals
<1>23. ASSUME NEW t \in Threads, NEW p \in Profiles, SetProfile(t, p) PROVE Turning(t)
  <2>1. t = "daemon" => daemon.pc = "top"
    BY <1>23, DelayRequestAssumption DEF SetProfile, OneAtATime, At, Resetters
  <2>2. /\ \A u \in Resetters \ {t} : thread'[u] = thread[u]
        /\ thread'[t].pc \notin Beyond /\ thread[t].pc \notin Beyond
        /\ thread[t].pc \in ToReset => thread'[t].pc \in ToReset
        /\ profile' = profile \/ thread'[t].pc \in ToReset
    BY <1>23, <1>a DEF SetProfile, Idle, Beyond, ToReset, Averages, ThreadStates
  <2> QED BY <1>23, <2>1, <2>2 DEF Turning, SetProfile, aside, averages, intervals
<1>24. ASSUME NEW t \in Resetters, SetActive(t) PROVE Turning(t)
  <2>1. t = "daemon" => daemon.pc = "top"
    BY <1>24, DelayRequestAssumption DEF SetActive, OneAtATime, At, Resetters
  <2>2. /\ \A u \in Resetters \ {t} : thread'[u] = thread[u]
        /\ thread'[t].pc \notin Beyond /\ thread[t].pc \notin Beyond
        /\ thread[t].pc \in ToReset => thread'[t].pc \in ToReset
        /\ profile' = profile \/ thread'[t].pc \in ToReset
    BY <1>24, <1>a DEF SetActive, Turns, Beyond, ToReset, Averages, ThreadStates
  <2> QED BY <1>24, <2>1, <2>2 DEF Turning, SetActive, aside, averages, intervals
<1>25. ASSUME NEW t \in Resetters, SetPreferred(t) PROVE Turning(t)
  <2>1. t = "daemon" => daemon.pc = "top"
    BY <1>25, DelayRequestAssumption DEF SetPreferred, OneAtATime, At, Resetters
  <2>2. /\ \A u \in Resetters \ {t} : thread'[u] = thread[u]
        /\ thread'[t].pc \notin Beyond /\ thread[t].pc \notin Beyond
        /\ thread[t].pc \in ToReset => thread'[t].pc \in ToReset
        /\ profile' = profile \/ thread'[t].pc \in ToReset
    BY <1>25, <1>a DEF SetPreferred, Idle, Beyond, ToReset, Averages, ThreadStates
  <2> QED BY <1>25, <2>1, <2>2 DEF Turning, SetPreferred, aside, averages, intervals
<1>26. ASSUME NEW t \in Resetters, Arm(t) PROVE Turning(t)
  <2>1. t = "daemon" => daemon.pc = "top"
    BY <1>26, DelayRequestAssumption DEF Arm, OneAtATime, At, Resetters
  <2>2. /\ \A u \in Resetters \ {t} : thread'[u] = thread[u]
        /\ thread'[t].pc \notin Beyond /\ thread[t].pc \notin Beyond
        /\ thread[t].pc \in ToReset => thread'[t].pc \in ToReset
        /\ profile' = profile \/ thread'[t].pc \in ToReset
    BY <1>26, <1>a DEF Arm, Turns, Beyond, ToReset, Averages, ThreadStates
  <2> QED BY <1>26, <2>1, <2>2 DEF Turning, Arm, aside, averages, intervals
<1>27. ASSUME NEW t \in Resetters, ArmRestores(t) PROVE Turning(t)
  <2>1. t = "daemon" => daemon.pc = "top"
    BY <1>27, DelayRequestAssumption DEF ArmRestores, OneAtATime, At, Resetters
  <2>2. /\ \A u \in Resetters \ {t} : thread'[u] = thread[u]
        /\ thread'[t].pc \notin Beyond /\ thread[t].pc \notin Beyond
        /\ thread[t].pc \in ToReset => thread'[t].pc \in ToReset
        /\ profile' = profile \/ thread'[t].pc \in ToReset
    BY <1>27, <1>a DEF ArmRestores, Idle, Beyond, ToReset, Averages, ThreadStates
  <2> QED BY <1>27, <2>1, <2>2 DEF Turning, ArmRestores, aside, averages, intervals
<1>28. ASSUME NEW t \in Resetters, Armed(t) PROVE Turning(t)
  <2>1. t = "daemon" => daemon.pc = "top"
    BY <1>28, DelayRequestAssumption DEF Armed, OneAtATime, At, Resetters
  <2>2. /\ \A u \in Resetters \ {t} : thread'[u] = thread[u]
        /\ thread'[t].pc \notin Beyond /\ thread[t].pc \notin Beyond
        /\ thread[t].pc \in ToReset => thread'[t].pc \in ToReset
        /\ profile' = profile \/ thread'[t].pc \in ToReset
    BY <1>28, <1>a DEF Armed, Idle, Beyond, ToReset, Averages, ThreadStates
  <2> QED BY <1>28, <2>1, <2>2 DEF Turning, Armed, aside, averages, intervals
<1>29. ASSUME NEW t \in Resetters, ResetClient(t) PROVE Turning(t)
  <2>1. t = "daemon" => daemon.pc = "top"
    BY <1>29, DelayRequestAssumption DEF ResetClient, OneAtATime, At, Resetters
  <2>2. /\ \A u \in Resetters \ {t} : thread'[u] = thread[u]
        /\ thread'[t].pc \notin Beyond /\ thread[t].pc \notin Beyond
        /\ thread[t].pc \in ToReset => thread'[t].pc \in ToReset
        /\ profile' = profile \/ thread'[t].pc \in ToReset
    BY <1>29, <1>a DEF ResetClient, Turns, Beyond, ToReset, Averages, ThreadStates
  <2> QED BY <1>29, <2>1, <2>2 DEF Turning, ResetClient, aside, averages, intervals
<1>30. ASSUME NEW t \in Resetters, ResetPermission(t) PROVE Turning(t)
  <2>1. t = "daemon" => daemon.pc = "top"
    BY <1>30, DelayRequestAssumption DEF ResetPermission, OneAtATime, At, Resetters
  <2>2. /\ \A u \in Resetters \ {t} : thread'[u] = thread[u]
        /\ thread'[t].pc \notin Beyond /\ thread[t].pc \notin Beyond
        /\ thread[t].pc \in ToReset => thread'[t].pc \in ToReset
        /\ profile' = profile \/ thread'[t].pc \in ToReset
    BY <1>30, <1>a DEF ResetPermission, Turns, Beyond, ToReset, Averages, ThreadStates
  <2> QED BY <1>30, <2>1, <2>2 DEF Turning, ResetPermission, aside, averages, intervals
<1>31. ASSUME NEW t \in Resetters, ResetExchange(t) PROVE Turning(t)
  <2>1. t = "daemon" => daemon.pc = "top"
    BY <1>31, DelayRequestAssumption DEF ResetExchange, OneAtATime, At, Resetters
  <2>2. /\ \A u \in Resetters \ {t} : thread'[u] = thread[u]
        /\ thread'[t].pc \notin Beyond /\ thread[t].pc \notin Beyond
        /\ thread[t].pc \in ToReset => thread'[t].pc \in ToReset
        /\ profile' = profile \/ thread'[t].pc \in ToReset
    BY <1>31, <1>a DEF ResetExchange, Turns, Beyond, ToReset, Averages, ThreadStates
  <2> QED BY <1>31, <2>1, <2>2 DEF Turning, ResetExchange, aside, averages, intervals
<1> QED
  BY <1>a, <1>1, <1>2, <1>3, <1>4, <1>5, <1>6, <1>7, <1>8, <1>9, <1>10,
     <1>11, <1>12, <1>13, <1>14, <1>15, <1>16, <1>17, <1>18, <1>19, <1>20,
     <1>21, <1>22, <1>23, <1>24, <1>25, <1>26, <1>27, <1>28, <1>29, <1>30,
     <1>31
     DEF Next, TimerSends, Daemon, Receive, Reply, ProfileSteps, ResetSteps, Outside,
         Sampling, Negotiating, Storing, Averagers, Resetters

(* The threads that average keep apart.                                    *)
LEMMA InTurnStep == Typed /\ OneAtATime /\ [Next]_vars => OneAtATime'
<1> SUFFICES ASSUME Typed, OneAtATime, [Next]_vars PROVE OneAtATime'
  OBVIOUS
<1>a. /\ "daemon" \in Resetters /\ "daemon" \in Averagers /\ "event" \in Averagers
      /\ daemon \in DaemonStates /\ daemon' \in DaemonStates
      /\ average \in [Averagers -> AverageStates]
      /\ thread \in [Resetters -> ThreadStates]
  BY Ranges, TypeStep DEF Typed, Shapes
<1>1. CASE Quiet
  BY <1>1 DEF Quiet, OneAtATime, averages
<1>2. CASE Looping
  BY <1>2 DEF Looping, OneAtATime, averages
<1>3. CASE Negotiating
  <2>1. UNCHANGED <<average, thread, wireless>> /\ daemon.pc \notin {"average", "top"}
    BY <1>3 DEF Negotiating, ReplyNegotiates, ReplyInterval, ReplyDraws, ReplyNextInterval,
                At, averages, profiles
  <2> QED BY <2>1 DEF OneAtATime
<1>4. CASE LoopFallback
  BY <1>4, <1>a DEF LoopFallback, OneAtATime, Turns, Goes, At, averages, DaemonStates
<1>5. ASSUME NEW t \in Resetters, Turning(t) PROVE OneAtATime'
  BY <1>5, <1>a DEF Turning, OneAtATime, averages
<1>6. ASSUME NEW t \in Resetters, Storing(t) PROVE OneAtATime'
  <2>1. /\ UNCHANGED <<average, daemon, wireless>> /\ thread[t].pc # "idle"
        /\ \A u \in Resetters \ {t} : thread'[u] = thread[u]
    BY <1>6, <1>a DEF Storing, ResetCount, CountStage, ResetDelay, ResetTests, ResetInterval,
       ResetNextInterval, Turns, aside, averages, Averages
  <2> QED BY <2>1, <1>a DEF OneAtATime
<1>7. ASSUME NEW s \in Sources, ReceiveAnnounce(s) PROVE OneAtATime'
  BY <1>7, <1>a DEF ReceiveAnnounce, OneAtATime, At, Goes, profiles
<1>8. ASSUME NEW restart \in BOOLEAN, NEW inRange \in BOOLEAN,
             ReceivePeerDelay(restart, inRange)
      PROVE  OneAtATime'
  <2>1. /\ UNCHANGED <<thread, wireless>> /\ daemon.pc = "receive" /\ ~wireless
        /\ average'["event"] = average["event"]
    BY <1>8, <1>a DEF ReceivePeerDelay, At, profiles, Begin
  <2>2. CASE inRange
    BY <1>8, <1>a, <2>1, <2>2, BeginsWith, Ranges
       DEF ReceivePeerDelay, OneAtATime, Goes, DaemonStates
  <2>3. CASE ~inRange
    BY <1>8, <1>a, <2>1, <2>3 DEF ReceivePeerDelay, OneAtATime, Goes, DaemonStates
  <2> QED BY <2>2, <2>3
<1>9. ASSUME NEW inRange \in BOOLEAN, ReplyAnswered(inRange) PROVE OneAtATime'
  <2>1. /\ UNCHANGED <<thread, wireless>> /\ daemon.pc = "clear"
        /\ average'["event"] = average["event"]
    BY <1>9, <1>a DEF ReplyAnswered, At, profiles, Begin
  <2>2. CASE inRange
    BY <1>9, <1>a, <2>1, <2>2, BeginsWith, Ranges
       DEF ReplyAnswered, OneAtATime, Goes, DaemonStates
  <2>3. CASE ~inRange
    BY <1>9, <1>a, <2>1, <2>3 DEF ReplyAnswered, OneAtATime, Goes, DaemonStates
  <2> QED BY <2>2, <2>3
<1>10. CASE InjectPeerDelay
  BY <1>10, <1>a DEF InjectPeerDelay, Begin, OneAtATime, profiles
<1>11. ASSUME NEW b \in Averagers, AverageGoesOn(b) PROVE OneAtATime'
  <2>1. CASE AverageKeep(b)
    BY <2>1, <1>a DEF AverageKeep, NoAverage, OneAtATime, profiles, Goes, Averagers
  <2>2. CASE ~AverageKeep(b)
    <3> DEFINE G == /\ UNCHANGED <<thread, daemon, wireless>> /\ average[b].pc # "idle"
                    /\ \A c \in Averagers \ {b} : average'[c] = average[c]
                    /\ average'[b].of = average[b].of
    <3>1. AverageCount(b) => G
      BY <1>a DEF AverageCount, profiles, AverageStates
    <3>2. AverageStore(b) => G
      BY <1>a DEF AverageStore, profiles, AverageStates
    <3>3. AverageReread(b) => G
      BY <1>a DEF AverageReread, profiles, AverageStates
    <3>4. AverageDivide(b) => G
      BY <1>a DEF AverageDivide, profiles, AverageStates
    <3>5. G
      BY <1>11, <2>2, <3>1, <3>2, <3>3, <3>4 DEF AverageGoesOn
    <3> QED BY <3>5, <1>a DEF OneAtATime, Averagers
  <2> QED BY <2>1, <2>2
<1> QED
  BY StepKinds, <1>1, <1>2, <1>3, <1>4, <1>5, <1>6, <1>7, <1>8, <1>9, <1>10, <1>11
     DEF Sampling

(* Two threads that average are at different averages.                     *)
LEMMA Alone ==
  ASSUME Typed, OneAtATime, NEW b \in Averagers, NEW c \in Averagers \ {b},
         average[b].pc # "idle", average[c].pc # "idle"
  PROVE  average[b].of # average[c].of
BY DEF OneAtATime, Averagers

(* An average that nobody touches stays as it was.                         *)
LEMMA SampleKept ==
  ASSUME NEW a \in Averages, Sampled(a), UNCHANGED averages,
         \A t \in Resetters : thread'[t].pc = a <=> thread[t].pc = a
  PROVE  Sampled(a)'
<1>1. Clearing(a)' = Clearing(a) /\ Averaging(a)' = Averaging(a)
  BY DEF Clearing, Averaging, averages
<1> QED BY <1>1 DEF Sampled, averages

(* A thread may begin to average.                                          *)
Beginning ==
  \A b \in Averagers :
    average'[b] = average[b] \/ (average'[b].pc = "count" /\ average[b].pc = "idle")

(* Unless torn, an average stays the mean of as many samples as counted.   *)
LEMMA SampleStep == Typed /\ OneAtATime /\ SampleInv /\ [Next]_vars => SampleInv'
<1> SUFFICES ASSUME Typed, OneAtATime, SampleInv, [Next]_vars,
                    NEW a \in Averages, a \notin torn'
             PROVE  Sampled(a)'
  BY DEF SampleInv
<1>a. /\ "daemon" \in Resetters /\ "daemon" \in Averagers /\ "event" \in Averagers
      /\ "path" \in Averages /\ "peer" \in Averages
      /\ average \in [Averagers -> AverageStates] /\ average' \in [Averagers -> AverageStates]
      /\ thread \in [Resetters -> ThreadStates]
      /\ count \in [Averages -> 0..AvgCount] /\ made \in [Averages -> 0..AvgCount]
      /\ AvgCount \in Nat \ {0}
  BY Ranges, TypeStep DEF Typed, Shapes
<1>b. a \notin torn => Sampled(a)
  BY DEF SampleInv
<1>c. "path" \notin {"interval"} /\ "peer" # "interval" /\ a # "interval"
      /\ a \notin {"next", "test", "idle"} /\ a \in {"path", "peer"}
      /\ a \notin {"arm", "armed", "path count", "peer count", "permission"}
  BY DEF Averages
<1>1. CASE Quiet
  BY <1>1, <1>b, SampleKept DEF Quiet
<1>2. CASE Looping
  BY <1>2, <1>b, SampleKept DEF Looping
<1>3. CASE Negotiating
  <2>1. UNCHANGED <<averages, thread>> /\ torn \subseteq torn'
    BY <1>3 DEF Negotiating, ReplyNegotiates, ReplyInterval, ReplyDraws, ReplyNextInterval,
                profiles
  <2> QED BY <2>1, <1>b, SampleKept
<1>4. CASE LoopFallback
  <2>1. UNCHANGED <<averages, torn>>
        /\ \A t \in Resetters : thread'[t].pc = a <=> thread[t].pc = a
    <3>1. thread["daemon"].pc = "idle" /\ thread'["daemon"].pc = "fall"
      BY <1>4, <1>a DEF LoopFallback, OneAtATime, At, Turns, ThreadStates
    <3>2. \A t \in Resetters \ {"daemon"} : thread'[t] = thread[t]
      BY <1>4, <1>a DEF LoopFallback, Turns
    <3> QED BY <1>4, <3>1, <3>2, <1>c DEF LoopFallback, Averages
  <2> QED BY <2>1, <1>b, SampleKept
<1>5. ASSUME NEW t \in Resetters, Turning(t) PROVE Sampled(a)'
  <2>1. UNCHANGED <<averages, torn>>
        /\ \A u \in Resetters : thread'[u].pc = a <=> thread[u].pc = a
    BY <1>5 DEF Turning, Beyond
  <2> QED BY <2>1, <1>b, SampleKept
<1>6. ASSUME NEW t \in Resetters, Storing(t) PROVE Sampled(a)'
  <2>1. \A u \in Resetters \ {t} : thread'[u] = thread[u]
    BY <1>6, <1>a DEF Storing, ResetCount, ResetDelay, ResetTests, ResetInterval,
       ResetNextInterval, Turns
  <2>2. CASE ResetTests(t) \/ ResetInterval(t) \/ ResetNextInterval(t)
    <3>1. UNCHANGED averages /\ a \notin torn
      BY <2>2, <1>c DEF ResetTests, ResetInterval, ResetNextInterval
    <3>2. thread[t].pc # a /\ thread'[t].pc # a
      <4>1. thread[t].after \in {"idle", "arm", "armed"}
        BY <1>a DEF ThreadStates
      <4>2. /\ thread[t].pc \in {"test", "interval", "next"}
            /\ thread'[t].pc \in {"interval", "next", "idle", "arm", "armed"}
        <5>1. CASE ResetTests(t)
          BY <5>1, <1>a DEF ResetTests, ThreadStates
        <5>2. CASE ResetInterval(t)
          BY <5>2, <1>a DEF ResetInterval, Turns, ThreadStates
        <5>3. CASE ResetNextInterval(t)
          BY <5>3, <4>1, <1>a DEF ResetNextInterval, Idle
        <5> QED BY <2>2, <5>1, <5>2, <5>3
      <4> QED BY <4>2, <1>c
    <3> QED BY <3>1, <3>2, <2>1, <1>b, SampleKept
  <2>3. ASSUME NEW d \in Averages, d # a, ResetCount(t, d) \/ ResetDelay(t, d)
        PROVE  Sampled(a)'
    <3>1. /\ a \notin torn /\ count'[a] = count[a] /\ made'[a] = made[a]
          /\ UNCHANGED average
      BY <2>3, <1>a DEF ResetCount, ResetDelay
    <3>2. thread[t].pc # a /\ thread'[t].pc # a
      <4>1. CASE ResetCount(t, d)
        BY <4>1, <2>3, <1>a, <1>c DEF ResetCount, Turns, CountStage, ThreadStates
      <4>2. CASE ResetDelay(t, d)
        <5>1. thread[t].pc = d /\ thread[t] \in ThreadStates
          BY <4>2, <1>a DEF ResetDelay
        <5>2. thread' = [thread EXCEPT ![t].pc = IF d = "path" THEN "peer count" ELSE "permission"]
          BY <4>2 DEF ResetDelay, Turns
        <5>3. thread'[t].pc = IF d = "path" THEN "peer count" ELSE "permission"
          BY <5>1, <5>2, <1>a DEF ThreadStates
        <5> QED BY <2>3, <5>1, <5>3, <1>a DEF Averages
      <4> QED BY <2>3, <4>1, <4>2
    <3>3. Clearing(a)' = Clearing(a) /\ Averaging(a)' = Averaging(a)
      BY <3>1, <3>2, <2>1 DEF Clearing, Averaging
    <3> QED BY <3>1, <3>3, <1>b DEF Sampled
  <2>4. CASE ResetCount(t, a)
    <3>1. ~Averaging(a) /\ ~Averaging(a)' /\ count'[a] = 0
      BY <2>4, <1>a DEF ResetCount, Averaging
    <3>2. Clearing(a)'
      BY <2>4, <1>a DEF ResetCount, Clearing, Turns, ThreadStates
    <3> QED BY <3>1, <3>2 DEF Sampled, Averaging
  <2>5. CASE ResetDelay(t, a)
    <3>1. /\ ~Averaging(a) /\ ~Averaging(a)' /\ a \notin torn /\ Clearing(a)
          /\ made'[a] = 0 /\ count' = count
      BY <2>5, <1>a DEF ResetDelay, Averaging, Clearing
    <3>2. count'[a] = 0
      BY <3>1, <1>b DEF Sampled
    <3> QED BY <3>1, <3>2 DEF Sampled, Averaging
  <2> QED BY <1>6, <2>2, <2>3, <2>4, <2>5 DEF Storing
<1>7. ASSUME NEW d \in Averages, Restart(d), ~Averaging(d), UNCHANGED thread,
             Beginning
      PROVE  Sampled(a)'
  <2>1. CASE d = a
    <3>1. count'[a] = 0 /\ made'[a] = 0 /\ ~Averaging(a)'
      BY <1>7, <2>1, <1>a DEF Restart, Restarted, Averaging, Beginning
    <3> QED BY <3>1 DEF Sampled, Averaging
  <2>2. CASE d # a
    <3>1. a \notin torn /\ count'[a] = count[a] /\ made'[a] = made[a]
      BY <1>7, <2>2, <1>a DEF Restart, Restarted
    <3>2. Clearing(a)' = Clearing(a) /\ Averaging(a)' = Averaging(a)
      BY <1>7 DEF Clearing, Averaging, Beginning
    <3> QED BY <3>1, <3>2, <1>7, <1>b DEF Sampled, Beginning
  <2> QED BY <2>1, <2>2
<1>8. ASSUME UNCHANGED <<count, made, torn, thread>>,
             Beginning
      PROVE  Sampled(a)'
  <2>1. Clearing(a)' = Clearing(a) /\ Averaging(a)' = Averaging(a)
    BY <1>8 DEF Clearing, Averaging, Beginning
  <2> QED BY <2>1, <1>8, <1>b DEF Sampled, Beginning
<1>9. ASSUME NEW s \in Sources, ReceiveAnnounce(s) PROVE Sampled(a)'
  <2>1. ~Averaging("path")
    BY <1>9 DEF ReceiveAnnounce, OneAtATime, At, Averaging, Averagers
  <2> QED BY <1>9, <2>1, <1>7, <1>a DEF ReceiveAnnounce, profiles, Beginning
<1>10. ASSUME NEW restart \in BOOLEAN, NEW inRange \in BOOLEAN,
              ReceivePeerDelay(restart, inRange)
       PROVE  Sampled(a)'
  <2>1. ~Averaging("peer") /\ average["daemon"].pc = "idle" /\ UNCHANGED thread
    BY <1>10 DEF ReceivePeerDelay, OneAtATime, At, Averaging, Averagers, profiles
  <2>2. Beginning
    BY <1>10, <2>1, <1>a DEF ReceivePeerDelay, Beginning, Begin
  <2> QED BY <1>10, <2>1, <2>2, <1>7, <1>8, <1>a DEF ReceivePeerDelay
<1>11. ASSUME NEW inRange \in BOOLEAN, ReplyAnswered(inRange) PROVE Sampled(a)'
  <2>1. average["daemon"].pc = "idle" /\ UNCHANGED <<count, made, torn, thread>>
    BY <1>11 DEF ReplyAnswered, OneAtATime, At, profiles
  <2>2. Beginning
    BY <1>11, <2>1, <1>a DEF ReplyAnswered, Beginning, Begin
  <2> QED BY <2>1, <2>2, <1>8
<1>12. CASE InjectPeerDelay
  <2>1. average["event"].pc = "idle" /\ UNCHANGED <<count, made, torn, thread>>
    BY <1>12 DEF InjectPeerDelay, profiles
  <2>2. Beginning
    BY <1>12, <2>1, <1>a DEF InjectPeerDelay, Beginning, Begin
  <2> QED BY <2>1, <2>2, <1>8
<1>13. ASSUME NEW b \in Averagers, AverageGoesOn(b) PROVE Sampled(a)'
  <2> DEFINE d == average[b].of
  <2>1. /\ average[b].pc # "idle" /\ UNCHANGED thread /\ a \notin torn
        /\ \A c \in Averagers \ {b} : average'[c] = average[c]
        /\ Clearing(a)' = Clearing(a)
        /\ d \in Averages /\ average[b].divisor \in 0..AvgCount
    BY <1>13, <1>a DEF AverageGoesOn, AverageCount, AverageStore, AverageReread, AverageDivide,
       AverageKeep, profiles, Clearing, AverageStates
  <2>2. CASE d # a
    <3>1. count'[a] = count[a] /\ made'[a] = made[a]
      BY <1>13, <2>2, <1>a DEF AverageGoesOn, AverageCount, AverageStore, AverageReread,
         AverageDivide, AverageKeep
    <3>2. average'[b].of = d \/ average'[b].pc = "idle"
      <4>1. CASE AverageKeep(b)
        BY <4>1, <1>a DEF AverageKeep, NoAverage
      <4>2. CASE AverageCount(b)
        BY <4>2, <1>a DEF AverageCount, AverageStates
      <4>3. CASE AverageDivide(b)
        BY <4>3, <1>a DEF AverageDivide, AverageStates
      <4>4. CASE AverageStore(b) \/ AverageReread(b)
        BY <4>4, <1>a DEF AverageStore, AverageReread, AverageStates
      <4> QED BY <1>13, <4>1, <4>2, <4>3, <4>4 DEF AverageGoesOn
    <3>3. Averaging(a)' = Averaging(a)
      BY <2>1, <2>2, <3>2 DEF Averaging
    <3> QED BY <2>1, <2>2, <3>1, <3>2, <3>3, <1>b DEF Sampled
  <2>3. CASE d = a
    <3>1. \A c \in Averagers \ {b} : average[c].pc = "idle" \/ average[c].of # a
      BY <2>1, <2>3, Alone
    <3>2. Sampled(a)
      BY <2>1, <1>b
    <3>3. CASE AverageCount(b)
      <4>1. /\ UNCHANGED <<count, made>> /\ ~Clearing(a) /\ ~Averaging(a)
            /\ average'[b].of = a /\ average'[b].divisor = Raised(count[a])
            /\ average'[b].pc = IF count[a] < AvgCount THEN "store" ELSE "divide"
        BY <3>3, <3>1, <2>1, <2>3, <1>a DEF AverageCount, Averaging, AverageStates
      <4>2. count[a] = made[a] /\ (~(count[a] < AvgCount) => count[a] = Raised(made[a]))
        BY <4>1, <3>2 DEF Sampled, Raised
      <4>3. Averaging(a)'
        BY <4>1 DEF Averaging
      <4> QED BY <4>1, <4>2, <4>3, <3>1, <2>1 DEF Sampled
    <3>4. CASE AverageStore(b)
      <4>1. /\ made' = made /\ count'[a] = average[b].divisor /\ Averaging(a)
            /\ average'[b].of = a /\ average'[b].divisor = average[b].divisor
            /\ average'[b].pc = "divide" /\ average[b].pc = "store"
        BY <3>4, <2>3, <2>1, <1>a DEF AverageStore, Averaging, AverageStates
      <4>2. Averaging(a)' /\ ~Clearing(a) /\ average[b].divisor = Raised(made[a])
        BY <4>1, <3>2, <2>3 DEF Averaging, Sampled
      <4> QED BY <4>1, <4>2, <3>1, <2>1 DEF Sampled
    <3>5. CASE AverageReread(b)
      <4>1. average[b].pc = "divide" /\ average[b].divisor # count[a]
        BY <3>5, <2>3 DEF AverageReread
      <4> QED BY <4>1, <3>2, <2>3 DEF Sampled
    <3>6. CASE AverageDivide(b)
      <4>1. /\ UNCHANGED <<count, made>> /\ Averaging(a)
            /\ average'[b].of = a /\ average'[b].pc = "keep" /\ average[b].pc = "divide"
            /\ average'[b].divisor = Lesser(average[b].divisor, Raised(made[a]))
        BY <3>6, <2>3, <2>1, <1>a DEF AverageDivide, Averaging, AverageStates
      <4>2. average'[b].divisor = count[a] /\ Averaging(a)' /\ ~Clearing(a)
        BY <4>1, <3>2, <2>3 DEF Sampled, Averaging, Lesser
      <4> QED BY <4>1, <4>2, <3>1, <2>1 DEF Sampled
    <3>7. CASE AverageKeep(b)
      <4>1. /\ count' = count /\ made'[a] = average[b].divisor /\ Averaging(a)
            /\ average'[b].pc = "idle" /\ average[b].pc = "keep"
        BY <3>7, <2>3, <2>1, <1>a DEF AverageKeep, Averaging, NoAverage
      <4>2. made'[a] = count[a] /\ ~Clearing(a) /\ ~Averaging(a)'
        BY <4>1, <3>1, <3>2, <2>1, <2>3 DEF Sampled, Averaging
      <4> QED BY <4>1, <4>2, <2>1 DEF Sampled, Averaging
    <3> QED BY <1>13, <3>3, <3>4, <3>5, <3>6, <3>7 DEF AverageGoesOn
  <2> QED BY <2>2, <2>3
<1> QED
  BY StepKinds, <1>1, <1>2, <1>3, <1>4, <1>5, <1>6, <1>9, <1>10, <1>11, <1>12, <1>13
     DEF Sampling


(* Unless torn, gPTP keeps its interval or a reset on its way restores it. *)
LEMMA IntervalStep == Typed /\ OneAtATime /\ IntervalInv /\ [Next]_vars => IntervalInv'
<1> SUFFICES ASSUME Typed, OneAtATime, IntervalInv, [Next]_vars, "interval" \notin torn'
             PROVE  (Apart /\ IntervalKept /\ NextKept)'
  BY DEF IntervalInv
<1>a. /\ "daemon" \in Resetters /\ thread \in [Resetters -> ThreadStates]
      /\ daemon \in DaemonStates /\ profile \in Profiles
  BY Ranges DEF Typed, Shapes, TypeOK
<1>b. "interval" \notin torn => Apart /\ IntervalKept /\ NextKept
  BY DEF IntervalInv
<1> DEFINE G == (Apart /\ IntervalKept /\ NextKept)'
<1>1. ASSUME UNCHANGED <<profile, thread, intervals>>, torn \subseteq torn' \cup Averages,
             daemon' = daemon \/ daemon'.pc \notin {"interval", "random"}
      PROVE  G
  <2>1. Apart /\ IntervalKept /\ NextKept
    BY <1>1, <1>b DEF Averages
  <2>2. Apart'
    BY <1>1, <2>1 DEF Apart
  <2>3. \A stages : Pending(stages)' <=> Pending(stages)
    BY <1>1 DEF Pending
  <2>4. IntervalKept'
    BY <1>1, <2>1, <2>3 DEF IntervalKept, intervals
  <2>5. NextKept'
    BY <1>1, <2>1, <2>3 DEF NextKept, intervals
  <2> QED BY <2>2, <2>4, <2>5
<1>2. CASE Quiet \/ Looping
  BY <1>1, <1>2 DEF Quiet, Looping
<1>3. CASE Sampling
  <2>1. ASSUME NEW s \in Sources, ReceiveAnnounce(s) PROVE G
    BY <2>1, <1>1, <1>a DEF ReceiveAnnounce, Restart, Goes, profiles, Averages, DaemonStates
  <2>2. ASSUME NEW restart \in BOOLEAN, NEW inRange \in BOOLEAN,
               ReceivePeerDelay(restart, inRange)
        PROVE  G
    <3>1. daemon'.pc \notin {"interval", "random"}
      BY <2>2, <1>a DEF ReceivePeerDelay, Goes, DaemonStates
    <3> QED BY <2>2, <3>1, <1>1 DEF ReceivePeerDelay, Restart, profiles, Averages
  <2>3. ASSUME NEW inRange \in BOOLEAN, ReplyAnswered(inRange) PROVE G
    <3>1. daemon'.pc \notin {"interval", "random"}
      BY <2>3, <1>a DEF ReplyAnswered, Goes, DaemonStates
    <3> QED BY <2>3, <3>1, <1>1 DEF ReplyAnswered, profiles
  <2>4. CASE InjectPeerDelay
    BY <2>4, <1>1 DEF InjectPeerDelay, profiles
  <2>5. ASSUME NEW b \in Averagers, AverageGoesOn(b) PROVE G
    <3>1. CASE AverageKeep(b)
      <4>1. daemon' = daemon \/ daemon'.pc \notin {"interval", "random"}
        BY <3>1, <1>a DEF AverageKeep, Goes, DaemonStates
      <4> QED BY <3>1, <4>1, <1>1 DEF AverageKeep, profiles
    <3>2. CASE ~AverageKeep(b)
      BY <2>5, <3>2, <1>1
         DEF AverageGoesOn, AverageCount, AverageStore, AverageReread, AverageDivide, profiles
    <3> QED BY <3>1, <3>2
  <2> QED BY <1>3, <2>1, <2>2, <2>3, <2>4, <2>5 DEF Sampling
<1>4. ASSUME "interval" \notin torn, UNCHANGED <<profile, thread>>
      PROVE  /\ Apart /\ IntervalKept /\ NextKept
             /\ Pending({"interval"})' <=> Pending({"interval"})
             /\ Pending({"interval", "next"})' <=> Pending({"interval", "next"})
             /\ Pending({"interval"}) => Pending({"interval", "next"})
  BY <1>4, <1>b DEF Pending
<1>5. CASE Negotiating
  <2>1. /\ "interval" \notin torn /\ UNCHANGED <<profile, thread>>
        /\ \A t \in Resetters : thread[t].pc # "idle" => t # "daemon"
    BY <1>5, <1>a DEF Negotiating, ReplyNegotiates, ReplyInterval, ReplyDraws, ReplyNextInterval,
       profiles, OneAtATime, At
  <2>2. CASE ReplyNegotiates
    <3>1. /\ UNCHANGED intervals /\ daemon'.pc \in {"interval", "next"}
          /\ daemon'.pc = "interval" => profile = "standard" /\ ~Setting("daemon", {"interval"})
      BY <2>2, <2>1, <1>a DEF ReplyNegotiates, MayNegotiate, Goes, DaemonStates
    <3>2. Apart'
      BY <3>1, <2>1, <1>4 DEF Apart, Setting
    <3>3. IntervalKept'
      BY <3>1, <2>1, <1>4 DEF IntervalKept, intervals
    <3>4. NextKept'
      BY <3>1, <2>1, <1>4 DEF NextKept, intervals
    <3> QED BY <3>2, <3>3, <3>4
  <2>3. CASE ReplyInterval
    <3>1. next' = next /\ daemon'.pc = "next" /\ daemon.pc = "interval"
      BY <2>3, <1>a DEF ReplyInterval, Goes, DaemonStates, At
    <3> QED BY <3>1, <2>1, <1>4 DEF Apart, IntervalKept, NextKept
  <2>4. CASE ReplyDraws
    <3>1. /\ UNCHANGED intervals /\ daemon'.pc = "random" /\ daemon.pc = "next"
          /\ daemon'.value = IF profile = "gptp" THEN interval ELSE "other"
          /\ ~Setting("daemon", {"interval", "next"})
      BY <2>4 DEF ReplyDraws, At
    <3>2. Apart'
      BY <3>1, <2>1, <1>4 DEF Apart, Setting
    <3>3. IntervalKept'
      BY <3>1, <2>1, <1>4 DEF IntervalKept, intervals
    <3>4. NextKept'
      BY <3>1, <2>1, <1>4 DEF NextKept, IntervalKept, intervals
    <3> QED BY <3>2, <3>3, <3>4
  <2>5. CASE ReplyNextInterval
    <3>1. /\ interval' = interval /\ next' = daemon.value /\ daemon.pc = "random"
          /\ daemon'.pc = "rest"
      BY <2>5 DEF ReplyNextInterval, At
    <3> QED BY <3>1, <2>1, <1>4 DEF Apart, IntervalKept, NextKept
  <2> QED BY <1>5, <2>2, <2>3, <2>4, <2>5 DEF Negotiating
<1>6. ASSUME NEW t \in Resetters, "interval" \notin torn, UNCHANGED intervals,
             \A u \in Resetters \ {t} : thread'[u] = thread[u],
             thread[t].pc \notin {"interval", "next"},
             thread'[t].pc \notin {"interval", "next"},
             thread[t].pc \in ToReset => thread'[t].pc \in ToReset,
             profile' = profile \/ thread'[t].pc \in ToReset,
             daemon' = daemon \/ daemon'.pc \notin {"interval", "random"}
      PROVE  G
  <2>1. Apart /\ IntervalKept /\ NextKept
    BY <1>6, <1>b
  <2>2. Apart'
    BY <1>6, <2>1 DEF Apart
  <2>3. \A stages : Pending(stages) /\ stages \subseteq {"interval", "next"} => Pending(stages)'
    <3>1. SUFFICES ASSUME NEW stages, stages \subseteq {"interval", "next"}, NEW u \in Resetters,
                          thread[u].pc \in ToReset
                            \/ (thread[u].pc \in stages /\ thread[u].seen = "gptp")
                   PROVE  Pending(stages)'
      BY DEF Pending
    <3>2. CASE u = t
      BY <3>1, <3>2, <1>6 DEF Pending
    <3>3. CASE u # t
      BY <3>1, <3>3, <1>6 DEF Pending
    <3> QED BY <3>2, <3>3
  <2>4. thread'[t].pc \in ToReset => \A stages : Pending(stages)'
    BY DEF Pending
  <2>5. IntervalKept'
    BY <1>6, <2>1, <2>3, <2>4 DEF IntervalKept, intervals
  <2>6. NextKept'
    BY <1>6, <2>1, <2>3, <2>4 DEF NextKept, intervals
  <2> QED BY <2>2, <2>5, <2>6
<1>7. CASE LoopFallback
  <2>1. thread["daemon"].pc = "idle" /\ thread'["daemon"].pc = "fall"
        /\ daemon'.pc = "top" /\ \A u \in Resetters \ {"daemon"} : thread'[u] = thread[u]
    BY <1>7, <1>a DEF LoopFallback, OneAtATime, At, Turns, ThreadStates, Goes, DaemonStates
  <2> QED BY <1>7, <2>1, <1>6, <1>a DEF LoopFallback, ToReset
<1>8. ASSUME NEW t \in Resetters, Turning(t) PROVE G
  BY <1>8, <1>6 DEF Turning, Beyond
<1>9. ASSUME NEW t \in Resetters, NEW a \in Averages, ResetCount(t, a) \/ ResetDelay(t, a)
      PROVE  G
  <2>1. /\ UNCHANGED <<profile, intervals, daemon>> /\ "interval" \notin torn
        /\ \A u \in Resetters \ {t} : thread'[u] = thread[u]
    BY <1>9, <1>a DEF ResetCount, ResetDelay, Turns, aside, Averages
  <2>a. a \in {"path", "peer"} /\ \A d \in {"path", "peer"} : d \in ToReset
        /\ CountStage(a) \in ToReset /\ "permission" \in ToReset /\ "peer count" \in ToReset
    BY DEF Averages, ToReset, CountStage
  <2>2. thread[t].pc \in ToReset /\ thread'[t].pc \in ToReset
    <3>1. CASE ResetCount(t, a)
      <4>1. thread[t].pc = CountStage(a) /\ thread'[t].pc = a
        BY <3>1, <1>a DEF ResetCount, Turns, ThreadStates
      <4> QED BY <4>1, <2>a
    <3>2. CASE ResetDelay(t, a)
      <4>1. thread[t].pc = a /\ thread'[t].pc \in {"peer count", "permission"}
        BY <3>2, <1>a DEF ResetDelay, Turns, ThreadStates
      <4> QED BY <4>1, <2>a
    <3> QED BY <1>9, <3>1, <3>2
  <2>3. \A pc \in ToReset : pc \notin {"interval", "next"}
    BY DEF ToReset
  <2> QED BY <2>1, <2>2, <2>3, <1>6
<1>10. ASSUME NEW t \in Resetters, ResetTests(t) PROVE G
  <2>1. /\ UNCHANGED <<profile, intervals, daemon>> /\ thread'[t].pc = "interval"
        /\ thread'[t].seen = profile /\ daemon.pc \notin {"interval", "random"}
        /\ \A u \in Resetters \ {t} : /\ thread'[u] = thread[u]
                                      /\ thread[u].pc \notin {"interval", "next"}
    BY <1>10, <1>a DEF ResetTests, aside, Setting, ThreadStates
  <2>2. profile = "gptp" => Pending({"interval"})' /\ Pending({"interval", "next"})'
    BY <2>1 DEF Pending
  <2>3. Apart'
    BY <2>1 DEF Apart
  <2> QED BY <2>1, <2>2, <2>3 DEF IntervalKept, NextKept
<1>11. ASSUME NEW t \in Resetters, ResetInterval(t) PROVE G
  <2>1. /\ UNCHANGED <<profile, next, daemon>> /\ "interval" \notin torn
        /\ thread[t].pc = "interval" /\ thread'[t].pc = "next"
        /\ thread'[t].seen = thread[t].seen /\ interval' = thread[t].seen
        /\ \A u \in Resetters \ {t} : thread'[u] = thread[u]
    BY <1>11, <1>a DEF ResetInterval, aside, Turns, ThreadStates
  <2>2. Apart /\ IntervalKept /\ NextKept
    BY <2>1, <1>b
  <2>3. Apart'
    BY <2>1, <2>2 DEF Apart
  <2>4. \A u \in Resetters \ {t} : thread[u].pc \notin {"interval", "next"}
    BY <2>1, <2>2 DEF Apart
  <2>5. thread[t].seen \in Profiles
    BY <1>a DEF ThreadStates
  <2>6. thread[t].seen # "gptp" => (Pending({"interval"}) => Pending({"interval"})')
    <3>1. SUFFICES ASSUME thread[t].seen # "gptp", NEW u \in Resetters,
                          thread[u].pc \in ToReset
                            \/ (thread[u].pc \in {"interval"} /\ thread[u].seen = "gptp")
                   PROVE  Pending({"interval"})'
      BY DEF Pending
    <3>2. u # t
      BY <3>1, <2>1 DEF ToReset
    <3> QED BY <3>1, <3>2, <2>1 DEF Pending
  <2>7. IntervalKept'
    BY <2>1, <2>2, <2>4, <2>6 DEF IntervalKept, Apart
  <2>8. Pending({"interval", "next"}) => Pending({"interval", "next"})'
    <3>1. SUFFICES ASSUME NEW u \in Resetters,
                          thread[u].pc \in ToReset
                            \/ (thread[u].pc \in {"interval", "next"} /\ thread[u].seen = "gptp")
                   PROVE  Pending({"interval", "next"})'
      BY DEF Pending
    <3>2. CASE u = t
      BY <3>1, <3>2, <2>1 DEF Pending, ToReset
    <3>3. CASE u # t
      BY <3>1, <3>3, <2>1 DEF Pending
    <3> QED BY <3>2, <3>3
  <2>9. NextKept'
    BY <2>1, <2>2, <2>8 DEF NextKept
  <2> QED BY <2>3, <2>7, <2>9
<1>12. ASSUME NEW t \in Resetters, ResetNextInterval(t) PROVE G
  <2>1. /\ UNCHANGED <<profile, interval, daemon>> /\ "interval" \notin torn
        /\ thread[t].pc = "next" /\ thread'[t].pc = thread[t].after
        /\ next' = thread[t].seen
        /\ \A u \in Resetters \ {t} : thread'[u] = thread[u]
    BY <1>12, <1>a DEF ResetNextInterval, aside, Idle
  <2>a. thread[t].after \in {"idle", "arm", "armed"} /\ thread[t].seen \in Profiles
    BY <1>a DEF ThreadStates
  <2>2. Apart /\ IntervalKept /\ NextKept
    BY <2>1, <1>b
  <2>3. Apart'
    BY <2>1, <2>a, <2>2 DEF Apart
  <2>4. \A u \in Resetters \ {t} : thread[u].pc \notin {"interval", "next"}
    BY <2>1, <2>2 DEF Apart
  <2>5. ASSUME NEW stages \in SUBSET {"interval", "next"},
               "next" \notin stages \/ thread[t].seen # "gptp"
        PROVE  Pending(stages) => Pending(stages)'
    <3>1. SUFFICES ASSUME NEW u \in Resetters,
                          thread[u].pc \in ToReset
                            \/ (thread[u].pc \in stages /\ thread[u].seen = "gptp")
                   PROVE  Pending(stages)'
      BY DEF Pending
    <3>2. u # t
      BY <3>1, <2>1, <2>5 DEF ToReset
    <3> QED BY <3>1, <3>2, <2>1 DEF Pending
  <2>6. Pending({"interval"}) => Pending({"interval"})'
    BY <2>5
  <2>7. thread[t].seen # "gptp" =>
          (Pending({"interval", "next"}) => Pending({"interval", "next"})')
    BY <2>5
  <2>8. IntervalKept'
    BY <2>1, <2>a, <2>2, <2>6 DEF IntervalKept
  <2>9. NextKept'
    BY <2>1, <2>a, <2>2, <2>4, <2>7 DEF NextKept, Apart
  <2> QED BY <2>3, <2>8, <2>9
<1>13. ASSUME NEW t \in Resetters, Storing(t) PROVE G
  <2> HIDE DEF G
  <2> QED BY <1>13, <1>9, <1>10, <1>11, <1>12 DEF Storing
<1> QED
  <2>1. \/ Quiet \/ Looping \/ Sampling \/ Negotiating \/ LoopFallback
        \/ \E t \in Resetters : Turning(t) \/ Storing(t)
    BY StepKinds
  <2>2. (Quiet \/ Looping \/ Sampling \/ Negotiating \/ LoopFallback) => G
    BY <1>2, <1>3, <1>5, <1>7
  <2>3. \A t \in Resetters : Turning(t) \/ Storing(t) => G
    <3> HIDE DEF G
    <3> QED BY <1>8, <1>13
  <2>4. G
    <3> HIDE DEF G
    <3> QED BY <2>1, <2>2, <2>3
  <2> QED BY <2>4

(* The invariant of all threads holds throughout.                          *)
LEMMA ThreadCorrect == Spec => []ThreadInv
<1>1. Init => ThreadInv
  <2> SUFFICES ASSUME Init PROVE ThreadInv
    OBVIOUS
  <2>p. probe \in Probes
    BY Ranges DEF Init, Probes, NoProbe
  <2>t. timer \in TimerStates
    <3>2. timer = [Waiting EXCEPT !.pc = "waiting"] \/ timer = [Waiting EXCEPT !.pc = "absent"]
      BY DEF Init
    <3>3. \/ timer = [pc |-> "waiting", unicast |-> FALSE, ago |-> Stale]
          \/ timer = [pc |-> "absent", unicast |-> FALSE, ago |-> Stale]
      BY <3>2 DEF Waiting
    <3>4. /\ [pc |-> "waiting", unicast |-> FALSE, ago |-> Stale] \in TimerStates
          /\ [pc |-> "absent", unicast |-> FALSE, ago |-> Stale] \in TimerStates
      BY DEF TimerStates, Stale
    <3> QED BY <3>3, <3>4
  <2>1. daemon \in DaemonStates /\ daemon.pc = "top"
    BY DEF Init, DaemonStates, DaemonPlaces
  <2>2. /\ average \in [Averagers -> AverageStates]
        /\ \A b \in Averagers : average[b].pc = "idle"
    BY Ranges DEF Init, AverageStates, NoAverage
  <2>3. /\ thread \in [Resetters -> ThreadStates]
        /\ \A t \in Resetters : thread[t].pc = "idle"
    BY DEF Init, ThreadStates, ThreadPlaces, Idle, Profiles
  <2>4. /\ count \in [Averages -> 0..AvgCount] /\ made \in [Averages -> 0..AvgCount]
        /\ count = made
    BY Ranges DEF Init
  <2>5. /\ interval = profile /\ next = profile /\ torn = {}
        /\ {profile, preferred} \subseteq Profiles
    BY DEF Init
  <2>6. Typed
    BY <2>p, <2>t, <2>1, <2>2, <2>3, <2>4, <2>5, Ranges
       DEF Init, Typed, TypeOK, Shapes, Probes, TimerStates
  <2>7. OneAtATime
    BY <2>2, <2>3, Ranges DEF OneAtATime
  <2>8. SampleInv
    BY <2>2, <2>3, <2>4 DEF SampleInv, Sampled, Clearing, Averaging, Averages
  <2>9. IntervalInv
    BY <2>1, <2>3, <2>5 DEF IntervalInv, Apart, IntervalKept, NextKept
  <2> QED BY <2>6, <2>7, <2>8, <2>9 DEF ThreadInv
<1>2. ThreadInv /\ [Next]_vars => ThreadInv'
  BY TypeStep, InTurnStep, SampleStep, IntervalStep DEF ThreadInv
<1> QED BY <1>1, <1>2, PTL DEF Spec

(* The probe and the averages keep their ranges and gPTP its own interval, *)
(* for any number of sources, misses, samples, profile changes and threads *)
(* that make them (ptp_reset_for_profile, ptp_process_delay_resp).         *)
THEOREM DelayCorrect == Spec => []DelayInv
<1>1. ThreadInv => DelayInv
  <2> SUFFICES ASSUME ThreadInv, profile = "gptp", "interval" \notin torn,
                      \A t \in Resetters : ~Resetting(t)
               PROVE  interval = "gptp" /\ next = "gptp"
    BY DEF ThreadInv, Typed, DelayInv, GptpInterval
  <2>1. ~Pending({"interval"}) /\ ~Pending({"interval", "next"})
    BY DEF Pending, Resetting
  <2> QED BY <2>1 DEF ThreadInv, IntervalInv, IntervalKept, NextKept
<1> QED BY <1>1, ThreadCorrect, PTL

(* Unless a reset is at it at the same time, an average divides by the     *)
(* number of its own samples (ptp_process_delay_resp_follow_up,            *)
(* ptpd_inject_peer_delay).                                                *)
THEOREM DivisorCorrect == Spec => []DivisorOfSamples
<1>1. ThreadInv => DivisorOfSamples
  BY DEF ThreadInv, Typed, Shapes, AverageStates, SampleInv, Sampled, DivisorOfSamples
<1> QED BY <1>1, ThreadCorrect, PTL
=============================================================================
