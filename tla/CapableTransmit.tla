--------------------------- MODULE CapableTransmit ---------------------------
(***************************************************************************)
(* The gPTP-capable messages to one Wi-Fi neighbor                         *)
(* (ptp_capable_schedule_t), from the daemon through a queue to a worker   *)
(* and back as completion records.  The daemon sleeps in poll for as long  *)
(* as the schedule lets it.  Association events change the neighbor under  *)
(* s_peer_lock and the link generation later, at any time; interval        *)
(* requests and another port behind the association come as packets.  The  *)
(* neighbor forgets the capability after Receipts of the intervals it was  *)
(* last told.                                                              *)
(*                                                                         *)
(* Time passes in ticks of the shortest interval.  The worker either keeps *)
(* up always or is done with a message MaxDelay ticks after its claim,     *)
(* chosen once (lag).  Tokens are counted modulo TokenMax.                 *)
(***************************************************************************)
EXTENDS Integers, Sequences

CONSTANTS
  Shift,       \* the fastest interval is 2^-Shift seconds; 3 in the code
  SlowestLog,  \* 24 in the code
  SlowSends,   \* sends that announce a slower interval; 9 in the code
  Receipts,    \* intervals until the neighbor gives up; 9 in the code
  PollCap,     \* PTPD_POLL_CAP_MS in ticks
  TokenMax,    \* UINT32_MAX in the code; exceeds the work in flight
  QueueMax,    \* WIFI_CAPABLE_QUEUE_DEPTH
  MaxDelay,    \* bound: ticks until the worker is done with a message
  MaxEdits,    \* bound: requests, rebindings, associations,
  MaxLate,     \* the same where the worker lags
  MaxLost      \* bound: messages lost in a row

Stop == 127
Default == 126
Keep == -128

ASSUME CapableAssumption ==
  /\ {Shift, SlowestLog, MaxDelay, MaxEdits, MaxLate, MaxLost} \subseteq Nat
  /\ {SlowSends, Receipts, PollCap, TokenMax, QueueMax} \subseteq Nat \ {0}
  /\ Shift <= 3 /\ SlowestLog <= 24

(* No token comes around while a message is on its way.                     *)
ASSUME TokenAssumption == MaxEdits < TokenMax /\ MaxDelay + MaxLate < TokenMax

VARIABLES
  schedule,    \* transmit: the schedule
  neighbor,    \* association number; owed: generation not advanced yet;
               \* resetting: generation advanced, schedule not yet zeroed
  generation,  \* s_injected_generation of the port
  daemon,      \* where the daemon is, its poll timeout and the item it enqueues
  queue,       \* s_capable_queue
  worker,      \* the item wifi_capable_task sends, as a sequence of at most one
  results,     \* s_capable_results
  receiver,    \* the neighbor: last interval told, time since, losses in a row
  told,        \* accepted sends since the last request (history)
  edits,       \* requests, rebindings and associations so far
  lag          \* ticks a message may take, 0 or MaxDelay; constant

vars == <<schedule, neighbor, generation, daemon, queue, worker, results, receiver, told, edits, lag>>

-----------------------------------------------------------------------------
(* ptp_capable_interval.h.                                                  *)

Supported(log) == log \in -Shift..SlowestLog
Period(log) == IF Supported(log) THEN 2^(log + Shift) ELSE 0
Second == Period(0)

EffectivePeriod(s) == IF s.slow > 0 THEN s.oldPeriod ELSE Period(s.log)

Requests == {Keep, Default, Stop} \cup (-Shift - 1)..(SlowestLog + 1)

Target(request) ==
  IF request = Default THEN 0 ELSE IF request \in -24..(-Shift) THEN -Shift ELSE request

(* Mutant: a stopped neighbor is slowed down from nothing.                  *)
Slowed_Zero(s, target) ==
  [s EXCEPT !.log = target, !.oldPeriod = EffectivePeriod(s),
            !.slow = IF Period(target) > EffectivePeriod(s) THEN SlowSends ELSE 0]

(* ptp_capable_interval_request, a change of interval.                      *)
Slowed(s, target) ==
  [s EXCEPT !.log = target, !.oldPeriod = EffectivePeriod(s),
            !.slow = IF EffectivePeriod(s) > 0 /\ Period(target) > EffectivePeriod(s)
                     THEN SlowSends ELSE 0]

-----------------------------------------------------------------------------
(* ptp_capable_schedule.h.                                                  *)

Zero(serial) ==
  [log |-> 0, slow |-> 0, oldPeriod |-> 0, next |-> 0, age |-> 0, active |-> FALSE,
   advertised |-> 0, pending |-> 0, serial |-> serial]

Legal(request) == Supported(Target(request)) \/ request = Stop

(* Mutant: a late completion counts toward the replacement.                 *)
Requested_KeepPending(s, request) ==
  IF request = Keep \/ ~Legal(request) \/ Target(request) = s.log THEN s
  ELSE [Slowed(s, Target(request)) EXCEPT !.active = FALSE]

Requested(s, request) ==
  IF request = Keep \/ ~Legal(request) \/ Target(request) = s.log THEN s
  ELSE [Slowed(s, Target(request)) EXCEPT !.pending = 0, !.active = FALSE]

Expired(s) == s.age >= Second

(* ptp_capable_schedule_begin: what it stores even when nothing is due.     *)
Prepared(s, enabled) ==
  IF ~enabled THEN [s EXCEPT !.pending = 0, !.active = FALSE]
  ELSE IF EffectivePeriod(s) > 0 /\ Expired(s) THEN [s EXCEPT !.pending = 0] ELSE s

Due(s, enabled) ==
  enabled /\ EffectivePeriod(s) > 0 /\ s.pending = 0 /\ (s.active => s.next <= 0)

NextToken(token) == (token % TokenMax) + 1

(* Small delays keep the grid, a missed period starts it anew.              *)
Claimed(s) ==
  LET period == EffectivePeriod(s)
      token == NextToken(s.serial)
  IN [s EXCEPT !.next = IF s.active /\ -s.next < period THEN s.next + period ELSE period,
               !.active = TRUE, !.age = 0, !.serial = token, !.pending = token,
               !.advertised = s.log]

(* ptp_capable_schedule_finish of the pending claim, completed at age.      *)
Finished(s, accepted, expired) ==
  LET done == [s EXCEPT !.pending = 0]
      counted == IF accepted /\ s.log = s.advertised /\ s.slow > 0
                 THEN [done EXCEPT !.slow = @ - 1] ELSE done
      period == EffectivePeriod(counted)
  IN IF expired THEN done
     ELSE IF period # EffectivePeriod(s) THEN [counted EXCEPT !.next = period] ELSE counted

(* Mutant: the daemon sleeps as long as poll allows.                        *)
Wait_Cap(s) == PollCap

(* ptp_capable_schedule_wait_ms; the 10 ms of a late completion are a tick. *)
Wait(s) ==
  LET delay == IF s.active /\ s.next > 0 THEN s.next
               ELSE IF s.pending # 0 /\ ~Expired(s) THEN 1 ELSE 0
  IN IF EffectivePeriod(s) = 0 \/ delay > PollCap THEN PollCap ELSE delay

-----------------------------------------------------------------------------
Asleep(wait) == [pc |-> "sleep", wait |-> wait]
At(pc) == [pc |-> pc]
NoExpectation == [log |-> Stop, age |-> 0, lost |-> 0]

Init ==
  /\ schedule = Zero(0)
  /\ neighbor = [association |-> 1, owed |-> FALSE, resetting |-> FALSE]
  /\ generation = 0
  /\ daemon = At("drain")
  /\ queue = <<>> /\ worker = <<>> /\ results = <<>>
  /\ receiver = NoExpectation
  /\ told = 0 /\ edits = 0
  /\ lag \in {0, MaxDelay}

(* ptp_wifi_peers_sent and ptp_wifi_neighbor_sent.                          *)
Answers(item) == item.association = neighbor.association /\ item.token = schedule.pending

(* ptp_wifi_capable_completions, before the daemon sends and before it polls. *)
DrainResult ==
  /\ daemon.pc \in {"send", "drain"} /\ results # <<>>
  /\ results' = Tail(results)
  /\ LET r == Head(results)
     IN schedule' = IF r.item.generation = generation /\ Answers(r.item)
                    THEN Finished(schedule, r.accepted, r.item.age >= Second) ELSE schedule
  /\ UNCHANGED <<neighbor, generation, daemon, queue, worker, receiver, told, edits, lag>>

(* No results left: poll, for no longer than the schedule allows.           *)
Poll ==
  /\ daemon.pc = "drain" /\ results = <<>>
  /\ daemon' = Asleep(Wait(schedule))
  /\ UNCHANGED <<schedule, neighbor, generation, queue, worker, results, receiver, told, edits, lag>>

(* The timeout, or a packet of no interest here.                            *)
Wake ==
  /\ daemon.pc = "sleep"
  /\ daemon' = At("send")
  /\ UNCHANGED <<schedule, neighbor, generation, queue, worker, results, receiver, told, edits, lag>>

(* History: the claims of all work in flight are over.                      *)
Superseded ==
  LET over(q) == [i \in DOMAIN q |-> [q[i] EXCEPT !.mine = FALSE]]
  IN /\ queue' = over(queue) /\ worker' = over(worker)
     /\ results' = [i \in DOMAIN results |-> [results[i] EXCEPT !.item.mine = FALSE]]

(* The send functions read the generation first ...                         *)
ReadGeneration ==
  /\ daemon.pc = "send" /\ results = <<>>
  /\ daemon' = [pc |-> "claim", generation |-> generation]
  /\ UNCHANGED <<schedule, neighbor, generation, queue, worker, results, receiver, told, edits, lag>>

(* ptp_wifi_send_capable_peer.                                              *)
Item(s) ==
  [generation |-> daemon.generation, association |-> neighbor.association,
   token |-> s.pending, log |-> s.advertised, age |-> 0, latest |-> TRUE, mine |-> TRUE]

(* Bound; a profile reset counts when it is through.                        *)
Budget == IF lag = 0 THEN MaxEdits ELSE MaxLate
Room == IF neighbor.resetting THEN edits + 1 < Budget ELSE edits < Budget

(* ... then claim under the lock.  A port not enabled gives up its claim.   *)
Begin(enabled) ==
  /\ daemon.pc = "claim"
  /\ enabled \/ Room
  /\ LET s == Prepared(schedule, enabled)
     IN IF Due(s, enabled)
        THEN /\ schedule' = Claimed(s)
             /\ daemon' = [pc |-> "queue", item |-> Item(Claimed(s))]
             /\ Superseded
        ELSE /\ schedule' = s /\ daemon' = At("drain")
             /\ UNCHANGED <<queue, worker, results>>
  /\ edits' = IF enabled THEN edits ELSE edits + 1
  /\ receiver' = IF enabled THEN receiver ELSE NoExpectation
  /\ UNCHANGED <<neighbor, generation, told, lag>>

(* A full queue completes the claim at once.                                *)
Enqueue ==
  /\ daemon.pc = "queue"
  /\ daemon' = At("drain")
  /\ IF Len(queue) < QueueMax
     THEN queue' = Append(queue, daemon.item) /\ UNCHANGED schedule
     ELSE /\ schedule' = IF Answers(daemon.item) THEN Finished(schedule, FALSE, FALSE) ELSE schedule
          /\ UNCHANGED queue
  /\ UNCHANGED <<neighbor, generation, worker, results, receiver, told, edits, lag>>

-----------------------------------------------------------------------------
(* wifi_capable_task.                                                       *)

WorkerTake ==
  /\ worker = <<>> /\ queue # <<>>
  /\ worker' = <<Head(queue)>> /\ queue' = Tail(queue)
  /\ UNCHANGED <<schedule, neighbor, generation, daemon, results, receiver, told, edits, lag>>

(* A full result queue loses the record.                                    *)
Report(accepted) ==
  /\ worker' = <<>>
  /\ results' = IF Len(results) < QueueMax
                THEN Append(results, [item |-> worker[1], accepted |-> accepted]) ELSE results
  /\ UNCHANGED <<schedule, neighbor, generation, daemon, queue, edits, lag>>

(* wifi_capable_current.                                                    *)
Current(item) == item.age < Second /\ item.generation = generation

(* The neighbor is followed where the worker keeps up.                      *)
Lose ==
  IF lag = 0 THEN receiver.lost < MaxLost /\ receiver' = [receiver EXCEPT !.lost = @ + 1]
             ELSE UNCHANGED receiver

(* The radio takes it; the neighbor hears it or it is lost.                 *)
WorkerSend ==
  /\ worker # <<>> /\ Current(worker[1])
  /\ told' = IF worker[1].latest /\ told < SlowSends THEN told + 1 ELSE told
  /\ \/ receiver' = [log |-> IF lag = 0 /\ (receiver.log # Stop \/ worker[1].latest)
                             THEN worker[1].log ELSE Stop, age |-> 0, lost |-> 0]
     \/ Lose
  /\ Report(TRUE)

(* The radio refuses it.                                                    *)
WorkerRefused ==
  /\ worker # <<>> /\ Current(worker[1])
  /\ Lose /\ UNCHANGED told
  /\ Report(FALSE)

WorkerStale ==
  /\ worker # <<>> /\ ~Current(worker[1])
  /\ UNCHANGED <<receiver, told>>
  /\ Report(FALSE)

-----------------------------------------------------------------------------
(* Packets and events.                                                      *)

Edit == Room /\ edits' = edits + 1 /\ UNCHANGED lag

(* History: all work in flight was claimed before this change.              *)
Outdate ==
  LET old(q) == [i \in DOMAIN q |-> [q[i] EXCEPT !.latest = FALSE]]
  IN /\ queue' = old(queue) /\ worker' = old(worker)
     /\ UNCHANGED results

(* An interval request of the bound port: a packet, so the daemon is awake. *)
Request(request) ==
  /\ Edit /\ daemon.pc = "sleep"
  /\ daemon' = At("send")
  /\ schedule' = Requested(schedule, request)
  /\ IF schedule'.log # schedule.log THEN Outdate /\ told' = 0
     ELSE UNCHANGED <<queue, worker, results, told>>
  /\ receiver' = IF schedule'.log = Stop THEN NoExpectation ELSE receiver
  /\ UNCHANGED <<neighbor, generation>>

(* Mutant: tokens begin again with another port.                            *)
Rebound_Zero(s) == Zero(0)

(* Another identity behind the association: tokens go on.                   *)
Rebound(s) == Zero(s.serial)

(* An indication or an Announce of another port: a packet, too.             *)
Rebind ==
  /\ Edit /\ daemon.pc = "sleep"
  /\ daemon' = At("send")
  /\ schedule' = Rebound(schedule)
  /\ Outdate /\ told' = 0
  /\ receiver' = NoExpectation
  /\ UNCHANGED <<neighbor, generation>>

(* What the daemon is about to enqueue was claimed before this change, too. *)
OutdateAll ==
  /\ Outdate /\ told' = 0
  /\ daemon' = IF daemon.pc = "queue" THEN [daemon EXCEPT !.item.latest = FALSE] ELSE daemon
  /\ receiver' = NoExpectation

(* ptp_reset_for_profile, in any thread and at any time: first all work in  *)
(* flight is retired, and with it the neighbor's expectation ...            *)
ProfileReset ==
  /\ Room /\ ~neighbor.resetting
  /\ neighbor' = [neighbor EXCEPT !.resetting = TRUE]
  /\ generation' = generation + 1
  /\ receiver' = NoExpectation
  /\ UNCHANGED <<schedule, daemon, queue, worker, results, told, edits, lag>>

(* ... then the schedule is zeroed under s_peer_lock; tokens go on.         *)
ResetSchedule ==
  /\ neighbor.resetting
  /\ neighbor' = [neighbor EXCEPT !.resetting = FALSE]
  /\ schedule' = Rebound(schedule)
  /\ OutdateAll
  /\ edits' = edits + 1
  /\ UNCHANGED <<generation, lag>>

(* A new association zeroes everything, tokens included, under s_peer_lock. *)
Associate ==
  /\ Edit /\ ~neighbor.owed
  /\ neighbor' = [neighbor EXCEPT !.association = @ + 1, !.owed = TRUE]
  /\ schedule' = Zero(0)
  /\ OutdateAll
  /\ UNCHANGED generation

(* The event handler's second section.                                      *)
Advance ==
  /\ neighbor.owed
  /\ neighbor' = [neighbor EXCEPT !.owed = FALSE]
  /\ generation' = generation + 1
  /\ UNCHANGED <<schedule, daemon, queue, worker, results, receiver, told, edits, lag>>

-----------------------------------------------------------------------------
Longest == Receipts * Period(SlowestLog) + 1
Older(age, cap) == IF age < cap THEN age + 1 ELSE cap
Aged(q) == [i \in DOMAIN q |-> [q[i] EXCEPT !.age = @ + 1]]

(* Time passes while the daemon sleeps.                                     *)
Tick ==
  /\ daemon.pc = "sleep" /\ daemon.wait > 0
  /\ \A i \in DOMAIN queue : queue[i].age < lag
  /\ \A i \in DOMAIN worker : worker[i].age < lag
  /\ lag = 0 => ~neighbor.owed /\ ~neighbor.resetting
  /\ daemon' = Asleep(daemon.wait - 1)
  /\ schedule' = [schedule EXCEPT !.age = Older(@, Second),
                                  !.next = IF @ > -Period(SlowestLog) THEN @ - 1 ELSE @]
  /\ queue' = Aged(queue) /\ worker' = Aged(worker)
  /\ receiver' = [receiver EXCEPT !.age = IF receiver.log = Stop THEN 0 ELSE Older(@, Longest)]
  /\ UNCHANGED <<neighbor, generation, results, told, edits, lag>>

Daemon == DrainResult \/ Poll \/ ReadGeneration \/ Begin(TRUE) \/ Enqueue
Worker == WorkerTake \/ WorkerSend \/ WorkerRefused \/ WorkerStale

Next ==
  \/ Daemon \/ Wake \/ Begin(FALSE) \/ Worker
  \/ \E request \in Requests : Request(request)
  \/ Rebind \/ ProfileReset \/ ResetSchedule \/ Associate \/ Advance \/ Tick

Spec == Init /\ [][Next]_vars

(* The daemon and the worker run and time passes, however many packets wake *)
(* the daemon early; poll returns when its timeout is over.                 *)
FairSpec ==
  /\ Spec /\ WF_vars(Daemon) /\ WF_vars(Worker) /\ WF_vars(Advance)
  /\ WF_vars(ResetSchedule)
  /\ SF_vars(Tick) /\ WF_vars(daemon.pc = "sleep" /\ daemon.wait = 0 /\ Wake)

-----------------------------------------------------------------------------
(* The schedule, the queues and the receiver keep to their ranges, whatever *)
(* interval the neighbor asks for (ptp_capable_interval_request).           *)
TypeOK ==
  /\ schedule.log \in {Stop} \cup -Shift..SlowestLog
  /\ schedule.slow \in 0..SlowSends /\ schedule.age \in 0..Second
  /\ {schedule.pending, schedule.serial} \subseteq 0..TokenMax
  /\ schedule.next \in -Period(SlowestLog)..Period(SlowestLog)
  /\ daemon.pc \in {"drain", "sleep", "send", "claim", "queue"}
  /\ Len(queue) <= QueueMax /\ Len(results) <= QueueMax /\ Len(worker) <= 1
  /\ receiver.age \in 0..Longest /\ receiver.lost \in 0..MaxLost

InFlight ==
  {queue[i] : i \in DOMAIN queue} \cup {worker[i] : i \in DOMAIN worker}
  \cup {results[i].item : i \in DOMAIN results}
  \cup (IF daemon.pc = "queue" THEN {daemon.item} ELSE {})

(* A completion finishes only the claim it was made for: however long work  *)
(* waits in the queues, across requests, expiries, other ports behind the   *)
(* association and new associations, a token that would be taken for the    *)
(* outstanding claim is that claim's (serial preserved on rebinding, the    *)
(* association checked where it is not).                                    *)
CompletionIsItsClaim ==
  \A item \in InFlight : schedule.pending # 0 /\ Answers(item) => item.mine

(* The neighbor keeps the capability: whatever intervals it asks for, with  *)
(* the worker keeping up and at most MaxLost messages lost in a row, one    *)
(* comes within Receipts of the intervals it was last told; the daemon's    *)
(* poll does not sleep past a deadline (ptp_capable_schedule_wait_ms,       *)
(* slowdown_remaining, ptp_capable_receive).                                *)
NeighborStaysCapable ==
  lag = 0 /\ receiver.log # Stop => receiver.age <= Receipts * Period(receiver.log)

(* The pace falls only after SlowSends accepted messages told the new       *)
(* interval since it was requested.                                         *)
ToldBeforeSlower ==
  \/ told >= SlowSends \/ schedule.oldPeriod = 0
  \/ EffectivePeriod(schedule) <= schedule.oldPeriod

(* Whatever is requested, the schedule keeps to its ranges and its pace     *)
(* falls only once the receiver was told                                    *)
(* (ptp_capable_schedule_request, ptp_capable_schedule_finish).             *)
PaceInv == TypeOK /\ ToldBeforeSlower

(* Capability messages go on: lost and refused work, full queues, expired   *)
(* claims and stale generations never silence the port.                     *)
CapableGoesOn == []<>(daemon.pc = "queue" \/ schedule.log = Stop)
=============================================================================
