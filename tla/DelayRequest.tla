---------------------------- MODULE DelayRequest ----------------------------
(***************************************************************************)
(* The delay measurement of a client in standard PTP and the state it      *)
(* shares, without a lock, with other threads:                             *)
(*   timer   the esp_timer task, which sends Delay_Req (pdelay_req_timer_cb *)
(*           and ptp_send_delay_req), to the source's own address as long  *)
(*           as that is answered and to the multicast group otherwise;     *)
(*   daemon  handles Sync, Announce and Delay_Resp, falls back to standard *)
(*           PTP and sends the endpoint beacon, which draws its number     *)
(*           from the same counter;                                        *)
(*   Threads the application (ptpd_set_profile) and the event loop         *)
(*           (ptp_arm_profile_fallback at link-up), which like the daemon  *)
(*           run ptp_reset_for_profile;                                    *)
(*   event   the event loop of a wireless port, which averages FTM delays  *)
(*           (ptpd_inject_peer_delay).                                     *)
(*                                                                         *)
(* delay_req_seq is not kept itself: a reply is tagged with how many       *)
(* numbers were drawn since its request, up to Stale.  An increment lost   *)
(* in a race only shortens the distance of replies that are stale anyway.  *)
(* Times are left out: a delay is how many samples it is the mean of.  The *)
(* exchange in gPTP is in module PeerExchange; here it draws a number and  *)
(* ends in a sample.                                                       *)
(***************************************************************************)
EXTENDS Integers

CONSTANTS
  Sources,      \* timetransmitters on the segment
  Mute,         \* the sources that may cease to answer unicast requests
  Threads,      \* threads outside the daemon that change the profile
  Beacons,      \* whether endpoint beacons are sent
  Unicast,      \* CONFIG_ESP_PTP_UNICAST_DELAY_REQ
  Misses,       \* PTP_UNICAST_DELAY_REQ_MISSES
  AvgCount,     \* CONFIG_ESP_PTP_DELAYREQ_AVGCOUNT
  MaxChanges    \* bound: profile changes, link-ups and receiver restarts

Profiles == {"gptp", "standard"}
Stale == 1
Averages == {"path", "peer"}
Averagers == {"daemon", "event"}
Resetters == Threads \cup {"daemon"}

ASSUME DelayRequestAssumption ==
  /\ {Beacons, Unicast} \subseteq BOOLEAN /\ Mute \subseteq Sources
  /\ Misses \in Nat \ {0} /\ AvgCount \in Nat \ {0}
  /\ MaxChanges \in Nat /\ "daemon" \notin Threads

VARIABLES
  profile,   \* active_ptp_profile
  preferred, \* preferred_ptp_profile
  done,      \* gptp_fallback_done
  source,    \* selected_source (None: not valid)
  mac,       \* whose address selected_source_mac is (None: not valid)
  can,       \* can_send_delayreq
  probe,     \* the unicast_delay_req fields: outstanding, misses, back (the
             \* multicast period: "off", "on" or "over")
  count,     \* path_delay_avgcount and peer_delay_avgcount
  made,      \* path_delay_ns and peer_delay_ns: the samples each is the mean of
  interval,  \* delayreq_interval_ms: whose value it holds
  next,      \* next_delayreq_interval_ms, likewise
  timer,     \* the esp_timer task: pc, unicast, ago
  daemon,    \* the daemon: pc, and the next interval it is about to store
  average,   \* for each thread that averages: pc, the average, the divisor
             \* (once divided: the samples of the result)
  thread,    \* for each thread that changes the profile: pc, the profile it
             \* sets or tested, and what follows its reset
  wireless,  \* whether port 0 is the wireless port
  fresh,     \* a complete peer exchange of the present lifecycle waits
  replies,   \* Delay_Resp on their way
  answers,   \* sources that answer unicast requests
  torn,      \* history: the averages, and the interval, that a reset and
             \* another thread were at together since the last reset that
             \* found no one else there
  changes    \* profile changes, link-ups and receiver restarts so far

profiles == <<profile, preferred, done, thread, changes>>
client == <<source, mac, can>>
averages == <<count, made, average>>
intervals == <<interval, next>>
vars == <<profiles, client, probe, averages, intervals, timer, daemon, wireless, fresh,
          replies, answers, torn>>
None == "none"

NoProbe == [outstanding |-> FALSE, misses |-> 0, back |-> "off"]
Waiting == [pc |-> "waiting", unicast |-> FALSE, ago |-> Stale]
NoAverage == [pc |-> "idle", of |-> "peer", divisor |-> 0]
Idle == [pc |-> "idle", seen |-> "standard", after |-> "idle"]

(* Where threads stand: past the reading of a count and before the store of *)
(* the delay; between a reset's stores of these two.                        *)
Averaging(a) ==
  \E b \in Averagers : average[b].of = a /\ average[b].pc \in {"store", "divide", "keep"}
Clearing(a) == \E t \in Resetters : thread[t].pc = a
(* The daemon averages the peer delay under s_peer_lock.                    *)
Locked == average["daemon"].pc # "idle" /\ average["daemon"].of = "peer"

(* ptp_initialize_state; the timer exists only if the daemon started in     *)
(* gPTP on a wired port.                                                    *)
Init ==
  /\ profile \in Profiles /\ preferred = profile /\ done = FALSE
  /\ source = None /\ mac = None /\ can = FALSE /\ probe = NoProbe
  /\ count = [a \in Averages |-> 0] /\ made = count
  /\ interval = profile /\ next = profile
  /\ wireless \in BOOLEAN
  /\ timer = [Waiting EXCEPT !.pc = IF profile = "gptp" /\ ~wireless
                                    THEN "waiting" ELSE "absent"]
  /\ daemon = [pc |-> "top", value |-> "other"]
  /\ average = [b \in Averagers |-> NoAverage]
  /\ thread = [t \in Resetters |-> Idle]
  /\ fresh = FALSE /\ replies = {} /\ answers \in {Sources \ m : m \in SUBSET Mute}
  /\ torn = {} /\ changes = 0

-----------------------------------------------------------------------------
(* ptp_increment_sequence: everything tagged moves one number away.         *)
Older(ago) == IF ago = Stale THEN Stale ELSE ago + 1
Draw ==
  replies' = {[r EXCEPT !.ago = Older(r.ago)] : r \in {q \in replies : q.ago < Stale}}

besides == <<profiles, client, averages, intervals, daemon, wireless, answers, torn>>

(* pdelay_req_timer_cb: the timer fires, and sends if the profile is gPTP   *)
(* or there is a source and the clock is stable.                            *)
TimerExpires ==
  /\ timer.pc = "waiting"
  /\ timer' = [timer EXCEPT !.pc = "fired"]
  /\ UNCHANGED <<besides, probe, fresh, replies>>

MaySend == profile = "gptp" \/ (source # None /\ can)

TimerFires ==
  /\ timer.pc = "fired"
  /\ timer' = IF MaySend THEN [timer EXCEPT !.pc = "decide"] ELSE Waiting
  /\ UNCHANGED <<besides, probe, fresh, replies>>

(* ptp_send_delay_req in gPTP: a number and a peer exchange, which in the   *)
(* end may be complete.                                                     *)
TimerPeerRequest ==
  /\ timer.pc = "decide" /\ profile = "gptp" /\ ~Locked
  /\ Draw /\ fresh' \in BOOLEAN
  /\ timer' = Waiting
  /\ UNCHANGED <<besides, probe>>

(* PTP_UNICAST_DELAY_REQ_MISSES.                                            *)
Limit == Misses

(* ptp_unicast_delay_req_active: an unanswered request is a miss, Misses of *)
(* them begin the multicast period, and the end of that ends it.            *)
Counted ==
  IF ~probe.outstanding THEN probe
  ELSE IF probe.misses + 1 >= Limit
       THEN [outstanding |-> FALSE, misses |-> 0, back |-> "on"]
       ELSE [probe EXCEPT !.outstanding = FALSE, !.misses = @ + 1]
(* Mutant: a request nobody answered is not counted.                        *)
Active_NoMiss ==
  IF probe.back = "over" THEN [probe EXCEPT !.back = "off"]
                         ELSE [probe EXCEPT !.outstanding = FALSE]
(* Mutant: the multicast period is for good.                                *)
Active_NoRetry == Counted
Active == IF Counted.back = "over" THEN [Counted EXCEPT !.back = "off"] ELSE Counted

MayProbe == Unicast /\ mac # None

TimerDecide ==
  /\ timer.pc = "decide" /\ profile = "standard"
  /\ probe' = IF MayProbe THEN Active ELSE probe
  /\ timer' = [timer EXCEPT !.pc = "number",
                 !.unicast = MayProbe /\ probe'.back = "off"]
  /\ UNCHANGED <<besides, fresh, replies>>

TimerNumber ==
  /\ timer.pc = "number"
  /\ Draw
  /\ timer' = [timer EXCEPT !.pc = "transmit", !.ago = 0]
  /\ UNCHANGED <<besides, probe, fresh>>

(* ptp_net_send_to: the frame leaves, or the send fails.  The sources       *)
(* reached that answer do so; any reply may be lost (Lose).                 *)
Answering == IF timer.unicast THEN {mac} \cap answers ELSE Sources

TimerTransmit ==
  /\ timer.pc = "transmit"
  /\ replies' = replies \cup {[from |-> s, ago |-> timer.ago] : s \in Answering}
  /\ timer' = [timer EXCEPT !.pc = "sent"]
  /\ UNCHANGED <<besides, probe, fresh>>

TimerSendFails ==
  /\ timer.pc = "transmit" /\ timer' = Waiting
  /\ UNCHANGED <<besides, probe, fresh, replies>>

(* write() returns, and only now is a unicast request outstanding.          *)
TimerReturns ==
  /\ timer.pc = "sent"
  /\ probe' = IF timer.unicast THEN [probe EXCEPT !.outstanding = TRUE] ELSE probe
  /\ timer' = Waiting
  /\ UNCHANGED <<besides, fresh, replies>>

TimerSends ==
  TimerFires \/ TimerPeerRequest \/ TimerDecide \/ TimerNumber
    \/ TimerTransmit \/ TimerReturns

-----------------------------------------------------------------------------
At(pc) == daemon.pc = pc
Goes(pc) == daemon' = [daemon EXCEPT !.pc = pc]

(* The head of the daemon's loop, once a reset of its own has returned.     *)
LoopTop ==
  /\ At("top") /\ thread["daemon"].pc = "idle"
  /\ can' = (profile = "gptp") /\ Goes("receive")
  /\ UNCHANGED <<profiles, source, mac, probe, averages, intervals, timer, wireless,
                 fresh, replies, answers, torn>>

(* A pass in which nothing that matters here is received.                   *)
ReceiveNothing ==
  /\ At("receive") /\ Goes("rest")
  /\ UNCHANGED <<profiles, client, probe, averages, intervals, timer, wireless,
                 fresh, replies, answers, torn>>

(* A Sync of the source adjusts the clock; enough steady adjustments in a   *)
(* row (not counted here) allow the request, until the next pass.           *)
ReceiveSync(stable) ==
  /\ At("receive") /\ source # None
  /\ can' = (can \/ stable)
  /\ Goes("rest")
  /\ UNCHANGED <<profiles, source, mac, probe, averages, intervals, timer, wireless,
                 fresh, replies, answers, torn>>

(* Mutant: the average goes on over the old source's samples.               *)
Restarted_Keep(a) == count
Restarted(a) == [count EXCEPT ![a] = 0]
Restart(a) ==
  count' = Restarted(a) /\ made' = [made EXCEPT ![a] = 0] /\ torn' = torn \ {a}

(* An Announce that wins selects its source; another address restarts the   *)
(* probing.                                                                 *)
ReceiveAnnounce(s) ==
  /\ At("receive") /\ source # s
  /\ source' = s /\ mac' = s
  /\ Restart("path")
  /\ probe' = IF mac = s THEN probe ELSE NoProbe
  /\ Goes("rest")
  /\ UNCHANGED <<profiles, can, average, intervals, timer, wireless, fresh, replies,
                 answers>>

(* ptp_process_delay_resp in standard PTP.  The reply must come from the    *)
(* source and bear the number last drawn.                                   *)
ReceiveReply(r) ==
  /\ At("receive") /\ profile = "standard"
  /\ replies' = replies \ {r}
  /\ Goes(IF r.from = source /\ r.ago = 0 THEN "clear" ELSE "rest")
  /\ UNCHANGED <<profiles, client, probe, averages, intervals, timer, wireless,
                 fresh, answers, torn>>

Begin(b, a) == average' = [average EXCEPT ![b] = [pc |-> "count", of |-> a, divisor |-> 0]]

(* The request was answered; a delay in range is averaged.                  *)
ReplyAnswered(inRange) ==
  /\ At("clear")
  /\ probe' = [probe EXCEPT !.outstanding = FALSE, !.misses = 0]
  /\ IF inRange THEN Begin("daemon", "path") /\ Goes("average")
                ELSE Goes("negotiate") /\ UNCHANGED average
  /\ UNCHANGED <<profiles, client, count, made, intervals, timer, wireless,
                 fresh, replies, answers, torn>>

(* ptp_process_delay_resp in gPTP ends in the same choice of the interval.  *)
ReceivePeerResponse ==
  /\ At("receive") /\ profile = "gptp" /\ ~wireless /\ Goes("negotiate")
  /\ UNCHANGED <<profiles, client, probe, averages, intervals, timer, wireless,
                 fresh, replies, answers, torn>>

(* The daemon averages the delay of a peer exchange that is still current   *)
(* under s_peer_lock; another responder or link restarts the average        *)
(* (ptp_process_delay_resp_follow_up).                                      *)
ReceivePeerDelay(restart, inRange) ==
  /\ At("receive") /\ profile = "gptp" /\ fresh /\ ~wireless
  /\ fresh' = FALSE
  /\ IF restart THEN Restart("peer") ELSE UNCHANGED <<count, made, torn>>
  /\ IF inRange THEN Begin("daemon", "peer") /\ Goes("average")
                ELSE Goes("rest") /\ UNCHANGED average
  /\ UNCHANGED <<profiles, client, probe, intervals, timer, wireless, replies, answers>>

(* ptpd_inject_peer_delay, in the event loop of a wireless port.            *)
InjectPeerDelay ==
  /\ wireless /\ average["event"].pc = "idle" /\ Begin("event", "peer")
  /\ UNCHANGED <<profiles, client, probe, count, made, intervals, timer, daemon,
                 wireless, fresh, replies, answers, torn>>

-----------------------------------------------------------------------------
(* The running average: the count goes up to AvgCount, then divides.  The   *)
(* fields are not volatile: the count is read, then stored if it rose, and  *)
(* the division uses that value or reads it again.                          *)
Raised(n) == IF n < AvgCount THEN n + 1 ELSE n

AverageCount(b) ==
  LET a == average[b].of IN
  /\ average[b].pc = "count"
  /\ average' = [average EXCEPT
       ![b].pc = IF count[a] < AvgCount THEN "store" ELSE "divide",
       ![b].divisor = Raised(count[a])]
  /\ torn' = IF Clearing(a) THEN torn \cup {a} ELSE torn
  /\ UNCHANGED <<profiles, client, probe, count, made, intervals, timer, daemon,
                 wireless, fresh, replies, answers>>

AverageStore(b) ==
  /\ average[b].pc = "store"
  /\ count' = [count EXCEPT ![average[b].of] = average[b].divisor]
  /\ average' = [average EXCEPT ![b].pc = "divide"]
  /\ UNCHANGED <<profiles, client, probe, made, intervals, timer, daemon, wireless,
                 fresh, replies, answers, torn>>

AverageReread(b) ==
  /\ average[b].pc = "divide" /\ average[b].divisor # count[average[b].of]
  /\ average' = [average EXCEPT ![b].divisor = count[average[b].of]]
  /\ UNCHANGED <<profiles, client, probe, count, made, intervals, timer, daemon,
                 wireless, fresh, replies, answers, torn>>

Lesser(m, n) == IF m < n THEN m ELSE n

(* The delay is read and moved towards the sample, then stored.             *)
AverageDivide(b) ==
  /\ average[b].pc = "divide"
  /\ average' = [average EXCEPT ![b].pc = "keep",
       ![b].divisor = Lesser(@, Raised(made[average[b].of]))]
  /\ UNCHANGED <<profiles, client, probe, count, made, intervals, timer, daemon,
                 wireless, fresh, replies, answers, torn>>

AverageKeep(b) ==
  /\ average[b].pc = "keep"
  /\ made' = [made EXCEPT ![average[b].of] = average[b].divisor]
  /\ average' = [average EXCEPT ![b] = NoAverage]
  /\ IF b = "daemon" THEN Goes(IF average[b].of = "path" THEN "negotiate" ELSE "rest")
                     ELSE UNCHANGED daemon
  /\ UNCHANGED <<profiles, client, probe, count, intervals, timer, wireless,
                 fresh, replies, answers, torn>>

AverageGoesOn(b) ==
  AverageCount(b) \/ AverageStore(b) \/ AverageReread(b) \/ AverageDivide(b) \/ AverageKeep(b)

-----------------------------------------------------------------------------
(* The interval the source asks for, unless the profile is gPTP by now.     *)
(* Mutant: in any profile.                                                  *)
MayNegotiate_Any == TRUE
MayNegotiate == profile = "standard"

(* Whether another thread's reset stands between its test and these stores. *)
Setting(t, stages) == \E u \in Resetters \ {t} : thread[u].pc \in stages

ReplyNegotiates ==
  /\ At("negotiate")
  /\ Goes(IF MayNegotiate THEN "interval" ELSE "next")
  /\ torn' = IF MayNegotiate /\ Setting("daemon", {"interval"})
             THEN torn \cup {"interval"} ELSE torn
  /\ UNCHANGED <<profiles, client, probe, averages, intervals, timer, wireless,
                 fresh, replies, answers>>

ReplyInterval ==
  /\ At("interval") /\ Goes("next")
  /\ interval' \in {interval, "other"}
  /\ UNCHANGED <<profiles, client, probe, averages, next, timer, wireless,
                 fresh, replies, answers, torn>>

(* The timer's next interval: the interval itself in gPTP, else drawn from  *)
(* it, after a second test of the profile.                                  *)
ReplyDraws ==
  /\ At("next")
  /\ daemon' = [pc |-> "random", value |-> IF profile = "gptp" THEN interval ELSE "other"]
  /\ torn' = IF Setting("daemon", {"interval", "next"}) THEN torn \cup {"interval"} ELSE torn
  /\ UNCHANGED <<profiles, client, probe, averages, intervals, timer, wireless,
                 fresh, replies, answers>>

ReplyNextInterval ==
  /\ At("random") /\ next' = daemon.value
  /\ daemon' = [pc |-> "rest", value |-> "other"]
  /\ UNCHANGED <<profiles, client, probe, averages, interval, timer, wireless,
                 fresh, replies, answers, torn>>

(* ptp_periodic_send and the end of the pass: the source may have expired,  *)
(* the endpoint beacon may be due; it draws a number.                       *)
LoopRest(expired, beacon) ==
  /\ At("rest") /\ Goes("check")
  /\ source' = IF expired THEN None ELSE source
  /\ IF beacon THEN /\ Beacons /\ done /\ profile = "standard" /\ Draw
                    /\ timer' = [timer EXCEPT !.ago = Older(@)]
               ELSE UNCHANGED <<replies, timer>>
  /\ UNCHANGED <<profiles, mac, can, probe, averages, intervals, wireless, fresh,
                 answers, torn>>

LoopEnds ==
  /\ At("check") /\ Goes("top")
  /\ UNCHANGED <<profiles, client, probe, averages, intervals, timer, wireless,
                 fresh, replies, answers, torn>>

-----------------------------------------------------------------------------
(* The threads that change the profile: the next stage of thread t.         *)
Turns(t, pc) == thread' = [thread EXCEPT ![t].pc = pc]
aside == <<timer, daemon, wireless, replies, answers>>

(* The daemon falls back to standard PTP (ptp_check_profile_fallback):      *)
(* its latch, then the profile, then the reset.                             *)
LoopFallback ==
  /\ At("check") /\ profile = "gptp" /\ ~done /\ ~wireless
  /\ done' = TRUE /\ Turns("daemon", "fall") /\ Goes("top")
  /\ UNCHANGED <<profile, preferred, changes, client, probe, averages, intervals, timer,
                 wireless, fresh, replies, answers, torn>>

FallbackProfile ==
  /\ thread["daemon"].pc = "fall"
  /\ profile' = "standard" /\ Turns("daemon", "client")
  /\ UNCHANGED <<preferred, done, changes, client, probe, averages, intervals, aside,
                 fresh, torn>>

(* The daemon was told that the Ethernet receiver restarted.                *)
LoopRearms ==
  /\ At("top") /\ thread["daemon"].pc = "idle" /\ changes < MaxChanges
  /\ Turns("daemon", "arm") /\ changes' = changes + 1
  /\ UNCHANGED <<profile, preferred, done, client, probe, averages, intervals, aside,
                 fresh, torn>>

(* ETHERNET_EVENT_CONNECTED: ptp_set_port_link retires the exchange, then   *)
(* the fallback is armed.                                                   *)
LinkUp(t) ==
  /\ thread[t].pc = "idle" /\ changes < MaxChanges /\ ~Locked
  /\ fresh' = FALSE /\ Turns(t, "arm") /\ changes' = changes + 1
  /\ UNCHANGED <<profile, preferred, done, client, probe, averages, intervals, aside, torn>>

(* ptpd_set_profile: the test, the active profile, the intent, the reset,   *)
(* and for gPTP ptp_arm_profile_fallback.                                   *)
SetProfile(t, p) ==
  /\ thread[t].pc = "idle" /\ profile # p /\ changes < MaxChanges
  /\ thread' = [thread EXCEPT ![t] = [pc |-> "set", seen |-> p, after |-> "idle"]]
  /\ changes' = changes + 1
  /\ UNCHANGED <<profile, preferred, done, client, probe, averages, intervals, aside,
                 fresh, torn>>

SetActive(t) ==
  /\ thread[t].pc = "set" /\ profile' = thread[t].seen /\ Turns(t, "prefer")
  /\ UNCHANGED <<preferred, done, changes, client, probe, averages, intervals, aside,
                 fresh, torn>>

SetPreferred(t) ==
  /\ thread[t].pc = "prefer" /\ preferred' = thread[t].seen
  /\ thread' = [thread EXCEPT ![t] = [pc |-> "client", seen |-> "standard",
                  after |-> IF thread[t].seen = "gptp" THEN "arm" ELSE "idle"]]
  /\ UNCHANGED <<profile, done, changes, client, probe, averages, intervals, aside,
                 fresh, torn>>

(* ptp_arm_profile_fallback: back to the preferred profile, with a reset,   *)
(* and a fresh latch if that is gPTP.                                       *)
Arm(t) ==
  /\ thread[t].pc = "arm"
  /\ Turns(t, IF profile # preferred THEN "restore" ELSE "armed")
  /\ UNCHANGED <<profile, preferred, done, changes, client, probe, averages, intervals,
                 aside, fresh, torn>>

ArmRestores(t) ==
  /\ thread[t].pc = "restore" /\ profile' = preferred
  /\ thread' = [thread EXCEPT ![t].pc = "client", ![t].after = "armed"]
  /\ UNCHANGED <<preferred, done, changes, client, probe, averages, intervals, aside,
                 fresh, torn>>

Armed(t) ==
  /\ thread[t].pc = "armed" /\ done' = (done /\ profile # "gptp")
  /\ thread' = [thread EXCEPT ![t] = Idle]
  /\ UNCHANGED <<profile, preferred, changes, client, probe, averages, intervals, aside,
                 fresh, torn>>

ProfileSteps(t) ==
  SetActive(t) \/ SetPreferred(t) \/ Arm(t) \/ ArmRestores(t) \/ Armed(t)

-----------------------------------------------------------------------------
(* ptp_reset_for_profile, store by store.  First the selected source and    *)
(* the probing.                                                             *)
ResetClient(t) ==
  /\ thread[t].pc = "client" /\ Turns(t, "path count")
  /\ source' = None /\ mac' = None /\ probe' = NoProbe
  /\ UNCHANGED <<profile, preferred, done, changes, can, averages, intervals, aside,
                 fresh, torn>>

CountStage(a) == IF a = "path" THEN "path count" ELSE "peer count"

ResetCount(t, a) ==
  /\ thread[t].pc = CountStage(a) /\ Turns(t, a)
  /\ count' = [count EXCEPT ![a] = 0]
  /\ torn' = IF Averaging(a) THEN torn \cup {a} ELSE torn \ {a}
  /\ UNCHANGED <<profile, preferred, done, changes, client, probe, made, average,
                 intervals, aside, fresh>>

ResetDelay(t, a) ==
  /\ thread[t].pc = a /\ Turns(t, IF a = "path" THEN "peer count" ELSE "permission")
  /\ made' = [made EXCEPT ![a] = 0]
  /\ torn' = IF Averaging(a) THEN torn \cup {a} ELSE torn
  /\ UNCHANGED <<profile, preferred, done, changes, client, probe, count, average,
                 intervals, aside, fresh>>

ResetPermission(t) ==
  /\ thread[t].pc = "permission" /\ Turns(t, "clean")
  /\ can' = FALSE
  /\ UNCHANGED <<profile, preferred, done, changes, source, mac, probe, averages,
                 intervals, aside, fresh, torn>>

(* ptp_clean_after_step abandons the exchange under s_peer_lock.            *)
ResetExchange(t) ==
  /\ thread[t].pc = "clean" /\ ~Locked /\ Turns(t, "test")
  /\ fresh' = FALSE
  /\ UNCHANGED <<profile, preferred, done, changes, client, probe, averages, intervals,
                 aside, torn>>

ResetTests(t) ==
  /\ thread[t].pc = "test"
  /\ thread' = [thread EXCEPT ![t].pc = "interval", ![t].seen = profile]
  /\ torn' = IF daemon.pc \in {"interval", "random"} \/ Setting(t, {"interval", "next"})
             THEN torn \cup {"interval"} ELSE torn \ {"interval"}
  /\ UNCHANGED <<profile, preferred, done, changes, client, probe, averages, intervals,
                 aside, fresh>>

ResetInterval(t) ==
  /\ thread[t].pc = "interval" /\ Turns(t, "next")
  /\ interval' = thread[t].seen
  /\ UNCHANGED <<profile, preferred, done, changes, client, probe, averages, next,
                 aside, fresh, torn>>

ResetNextInterval(t) ==
  /\ thread[t].pc = "next"
  /\ thread' = [thread EXCEPT ![t] = [Idle EXCEPT !.pc = thread[t].after]]
  /\ next' = thread[t].seen
  /\ UNCHANGED <<profile, preferred, done, changes, client, probe, averages, interval,
                 aside, fresh, torn>>

ResetSteps(t) ==
  \/ ResetClient(t) \/ \E a \in Averages : ResetCount(t, a) \/ ResetDelay(t, a)
  \/ ResetPermission(t) \/ ResetExchange(t) \/ ResetTests(t)
  \/ ResetInterval(t) \/ ResetNextInterval(t)

-----------------------------------------------------------------------------
(* The network: replies are lost, sources begin and cease to answer unicast *)
(* requests, and the multicast period runs out.                             *)
Lose(r) ==
  /\ replies' = replies \ {r}
  /\ UNCHANGED <<profiles, client, probe, averages, intervals, timer, daemon, wireless,
                 fresh, answers, torn>>

SourceAnswers(s) ==
  /\ answers' \in {answers \cup {s}, answers \ {s}} \ {answers}
  /\ UNCHANGED <<profiles, client, probe, averages, intervals, timer, daemon, wireless,
                 fresh, replies, torn>>

PeriodOver ==
  /\ probe.back = "on" /\ probe' = [probe EXCEPT !.back = "over"]
  /\ UNCHANGED <<profiles, client, averages, intervals, timer, daemon, wireless,
                 fresh, replies, answers, torn>>

Receive ==
  \/ ReceiveNothing \/ \E stable \in BOOLEAN : ReceiveSync(stable)
  \/ \E s \in Sources : ReceiveAnnounce(s)
  \/ \E r \in replies : ReceiveReply(r)
  \/ ReceivePeerResponse
  \/ \E restart, inRange \in BOOLEAN : ReceivePeerDelay(restart, inRange)

Reply ==
  \/ \E inRange \in BOOLEAN : ReplyAnswered(inRange)
  \/ ReplyNegotiates \/ ReplyInterval \/ ReplyDraws \/ ReplyNextInterval

Daemon ==
  \/ LoopTop \/ Receive \/ Reply \/ AverageGoesOn("daemon")
  \/ \E expired, beacon \in BOOLEAN : LoopRest(expired, beacon)
  \/ LoopEnds \/ LoopFallback \/ FallbackProfile \/ LoopRearms
  \/ ProfileSteps("daemon") \/ ResetSteps("daemon")

Outside(t) ==
  \/ LinkUp(t) \/ \E p \in Profiles : SetProfile(t, p)
  \/ ProfileSteps(t) \/ ResetSteps(t)

Next ==
  \/ TimerExpires \/ TimerSends \/ TimerSendFails \/ Daemon
  \/ \E t \in Threads : Outside(t)
  \/ InjectPeerDelay \/ AverageGoesOn("event")
  \/ \E r \in replies : Lose(r)
  \/ \E s \in Mute : SourceAnswers(s)
  \/ PeriodOver

Spec == Init /\ [][Next]_vars

(* The timer task and the daemon's loop go on, Sync keeps coming, a reply   *)
(* that waits is received in the end, sends to the group do not all fail,   *)
(* and the multicast period ends.                                           *)
FairSpec ==
  /\ Spec /\ WF_vars(TimerExpires) /\ WF_vars(TimerSends) /\ WF_vars(Daemon)
  /\ SF_vars(ReceiveSync(TRUE)) /\ SF_vars(\E r \in replies : ReceiveReply(r))
  /\ SF_vars(~timer.unicast /\ TimerTransmit) /\ WF_vars(PeriodOver)

-----------------------------------------------------------------------------
(* The misses stay below the limit and the counts within the averaging      *)
(* window, under every interleaving with a reset                            *)
(* (ptp_unicast_delay_req_active, ptp_process_delay_resp).                  *)
TypeOK ==
  /\ {profile, preferred} \subseteq Profiles /\ done \in BOOLEAN
  /\ {source, mac} \subseteq Sources \cup {None} /\ can \in BOOLEAN
  /\ probe.misses \in 0..Misses - 1 /\ probe.back \in {"off", "on", "over"}
  /\ \A a \in Averages : {count[a], made[a]} \subseteq 0..AvgCount
  /\ {interval, next} \subseteq Profiles \cup {"other"} /\ timer.ago \in 0..Stale
  /\ replies \subseteq [from : Sources, ago : 0..Stale]

Requested == timer.pc = "sent"
StaysWith(s) == profile = "standard" /\ source = s /\ mac = s

(* No reply is lost, and no number is drawn between a request and its       *)
(* reply: what is on its way stays so until the daemon receives it.         *)
InTime ==
  /\ timer'.pc \in {"transmit", "sent"} => timer'.ago = 0
  /\ \A r \in replies : r.ago = 0 => r \in replies' \/ (At("receive") /\ ~At("receive")')

(* A source that answers no unicast Delay_Req is measured all the same as   *)
(* long as requests go out and, from some time on, replies come in time,    *)
(* whatever was lost or late before: unanswered requests lead to the        *)
(* multicast period (ptp_unicast_delay_req_active).                         *)
MulticastMeasured ==
  \A s \in Sources :
    <>[](StaysWith(s) /\ s \notin answers) /\ []<>Requested /\ <>[][InTime]_vars
      => []<>At("clear")

(* The multicast period is not for good: a client built with unicast        *)
(* requests tries them again, whatever the source did before                *)
(* (unicast_delay_req_retry_us).                                            *)
UnicastRetried ==
  \A s \in Sources :
    Unicast /\ <>[]StaysWith(s) /\ []<>Requested => []<>(Requested /\ timer.unicast)

(* The running average divides by the number of samples it is then made of, *)
(* never by 0 and never by the old source's count, unless a reset, which    *)
(* takes no lock, and an average were at the count and the delay together;  *)
(* the next restart that finds nobody there repairs it                      *)
(* (ptp_reset_for_profile, ptp_process_delay_resp).                         *)
DivisorOfSamples ==
  \A b \in Averagers :
    average[b].pc = "divide" /\ average[b].of \notin torn =>
      average[b].divisor = Raised(made[average[b].of])

(* From the store of the profile to the last store of the interval.         *)
ToReset ==
  {"prefer", "client", "path count", "path", "peer count", "peer", "permission",
   "clean", "test"}
Resetting(t) == thread[t].pc \in ToReset \cup {"interval", "next"}

(* Once every reset is over, gPTP runs at its own interval: what was        *)
(* negotiated in standard PTP does not outlive it, unless the last reset    *)
(* tested the profile while another thread stood between its own test and   *)
(* its store (ptp_reset_for_profile, ptp_process_delay_resp).               *)
GptpInterval ==
  profile = "gptp" /\ "interval" \notin torn /\ (\A t \in Resetters : ~Resetting(t))
    => interval = "gptp" /\ next = "gptp"

(* The probe, the averages and the interval keep to their ranges, and the   *)
(* interval to its profile, beside resets in other threads                  *)
(* (ptp_reset_for_profile).                                                 *)
DelayInv == TypeOK /\ GptpInterval
=============================================================================
