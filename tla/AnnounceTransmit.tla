-------------------------- MODULE AnnounceTransmit --------------------------
(***************************************************************************)
(* How the AP paces Announce messages to one associated station            *)
(* (ptp_announce_schedule_t).  The daemon publishes the message into a     *)
(* mailbox of one, faster than any deadline; a worker checks the item,     *)
(* claims a transmission under s_peer_lock, sends outside it, and          *)
(* completes under it again; the daemon applies the station's interval     *)
(* requests in between.  The station gives up its source after three of    *)
(* the intervals it was last told.                                         *)
(*                                                                         *)
(* Time passes in ticks, Second of them to a second (microseconds in the   *)
(* code), and is kept as distances from now.  With prompt, chosen once, it *)
(* passes only when the daemon and the worker have caught up and the port  *)
(* is published; without, they fall behind freely.  One association;       *)
(* PeerRegistry shows what becomes of work for another.                    *)
(***************************************************************************)
EXTENDS Integers

CONSTANTS
  Second,       \* ticks in a second
  InitialLog,   \* log of CONFIG_ESP_PTP_ANNOUNCE_INTERVAL_MS
  SlowestLog,   \* the slowest supported interval, 24 in the code
  Requests,     \* intervals the station asks for
  SerialMax,    \* the largest token, UINT32_MAX in the code
  MaxRequests,  \* bound: requests, rebindings and changes of the message,
  MaxLate,      \* the same where they fall behind
  MaxLost       \* bound: announcements lost in a row

Stop == 127
Default == 126
Keep == -128

ASSUME AnnounceAssumption ==
  /\ Second \in Nat \ {0} /\ {InitialLog, SlowestLog} \subseteq -24..24
  /\ InitialLog <= SlowestLog
  /\ Requests \subseteq Int
  /\ SerialMax \in Nat \ {0} /\ {MaxRequests, MaxLate, MaxLost} \subseteq Nat

VARIABLES
  schedule,  \* the station's ptp_announce_schedule_t
  message,   \* what the daemon announces: content and timing generation
  mailbox,   \* s_announce_mbox: an item, or none
  worker,    \* ap_announce_task
  known,     \* s_announce_information: content and its revision
  station,   \* the station: last interval told, time since, losses in a row
  told,      \* accepted sends since the last request (history)
  sent,      \* content of the last frame handed to the radio, and how many
             \* since the source changed were of a retired one (history)
  edits,     \* requests, rebindings and message changes so far
  published, \* the daemon has published since the last tick
  prompt     \* the daemon and the worker keep up with time; constant

vars == <<schedule, message, mailbox, worker, known, station, told, sent, edits, published, prompt>>

-----------------------------------------------------------------------------
(* ptp_announce_schedule.h.                                                 *)

Supported(log) == log \in InitialLog..SlowestLog

(* ptp_announce_period_us, rounded up below a second; 0 for no period.      *)
Period(log) ==
  IF ~Supported(log) THEN 0
  ELSE IF log >= 0 THEN Second * 2^log
  ELSE (Second + 2^(-log) - 1) \div 2^(-log)

EffectivePeriod(s) == IF s.slow > 0 THEN s.oldPeriod ELSE Period(s.log)

(* Tokens survive a reset.                                                  *)
Zero(revision, serial) ==
  [revision |-> revision, serial |-> serial, initialized |-> FALSE, active |-> FALSE, log |-> InitialLog,
   slow |-> 0, oldPeriod |-> 0, next |-> 0, age |-> 0, pending |-> 0,
   pendingLog |-> InitialLog, information |-> 0]

(* A zeroed schedule starts at the base rate when first used.               *)
Initialized(s) == IF s.initialized THEN s ELSE [s EXCEPT !.initialized = TRUE, !.log = InitialLog]

(* Reserved values are refused.                                             *)
Legal(request) == request \in {Keep, Default, Stop} \cup -24..SlowestLog

(* Rates above the base rate become the base rate.                          *)
Target(request) ==
  IF request = Stop THEN Stop
  ELSE IF request = Default \/ request < InitialLog THEN InitialLog ELSE request

(* Mutant: a station that asked for silence is slowed down from nothing.    *)
SlowDown_Zero(previous, next) == IF next > previous THEN 3 ELSE 0

(* A slower interval is announced three times at the old pace.              *)
SlowDown(previous, next) == IF previous > 0 /\ next > previous THEN 3 ELSE 0

(* Mutant: a request leaves the outstanding claim.                          *)
Retargeted_KeepPending(s, target) ==
  [s EXCEPT !.log = target, !.oldPeriod = EffectivePeriod(s),
            !.slow = SlowDown(EffectivePeriod(s), Period(target)),
            !.active = FALSE, !.revision = @ + 1]

(* Mutant: the period in force is read after the interval was replaced.     *)
Retargeted_Swapped(s, target) ==
  [s EXCEPT !.log = target, !.oldPeriod = Period(target), !.slow = 0,
            !.pending = 0, !.active = FALSE, !.revision = @ + 1]

Retargeted(s, target) ==
  [s EXCEPT !.log = target, !.oldPeriod = EffectivePeriod(s),
            !.slow = SlowDown(EffectivePeriod(s), Period(target)),
            !.pending = 0, !.active = FALSE, !.revision = @ + 1]

(* ptp_announce_request.                                                    *)
Requested(s, request) ==
  IF ~Legal(request) THEN s
  ELSE LET i == Initialized(s)
       IN IF request = Keep \/ Target(request) = i.log THEN i ELSE Retargeted(i, Target(request))

(* Mutant: new information waits for the deadline.                          *)
Informed_Later(s, information) == [s EXCEPT !.information = information]

(* New information is sent at once.                                         *)
Informed(s, information) ==
  IF s.information = information THEN s
  ELSE [s EXCEPT !.information = information, !.pending = 0, !.active = FALSE]

(* Mutant: a claim without a completion is never given up.                  *)
Expired_Never(s) == s.age > Second

(* A claim is given up after a second.                                      *)
Expired(s) == s.age >= Second

(* ptp_announce_begin up to the deadline: what it stores even if it refuses.*)
Prepared(s, information) ==
  LET i == Informed(Initialized(s), information)
  IN IF EffectivePeriod(Initialized(s)) = 0 THEN Initialized(s)
     ELSE IF i.pending # 0 /\ Expired(i) THEN [i EXCEPT !.pending = 0] ELSE i

Due(s) == EffectivePeriod(s) > 0 /\ s.pending = 0 /\ (s.active => s.next <= 0)

(* Small delays keep the grid, a missed period starts it anew.              *)
Claimed(s) ==
  LET period == EffectivePeriod(s)
      token == (s.serial % SerialMax) + 1
  IN [s EXCEPT !.next = IF s.active /\ -s.next < period THEN s.next + period ELSE period,
               !.active = TRUE, !.age = 0, !.serial = token, !.pending = token, !.pendingLog = s.log]

Counts(s, accepted) == accepted /\ s.pendingLog = s.log /\ s.slow > 0

(* ptp_announce_finish of a claim that is still pending.                    *)
Finished(s, accepted) ==
  LET done == [s EXCEPT !.pending = 0]
  IN IF Expired(s) \/ ~Counts(s, accepted) THEN done
     ELSE IF s.slow = 1 THEN [done EXCEPT !.slow = 0, !.next = Period(s.log)]
     ELSE [done EXCEPT !.slow = @ - 1]

-----------------------------------------------------------------------------
NoItem == [full |-> FALSE]
Resting == [pc |-> "idle"]

Init ==
  /\ schedule = Zero(0, 0)
  /\ message = [content |-> 1, source |-> 0]
  /\ mailbox = NoItem
  /\ worker = Resting
  /\ known = [content |-> 0, revision |-> 0]
  /\ station = [log |-> Stop, age |-> 0, lost |-> 0]
  /\ told = 0 /\ sent = [content |-> 0, retired |-> 0] /\ edits = 0
  /\ published = FALSE /\ prompt \in BOOLEAN

(* xQueueOverwrite: the newest item replaces an unread one.                 *)
Mailed(box, it) == it

(* ptp_wifi_ap_send_announce.                                               *)
Publish ==
  /\ ~published \/ ~prompt
  /\ mailbox' = Mailed(mailbox, [full |-> TRUE, revision |-> schedule.revision,
                                message |-> message, age |-> 0])
  /\ published' = TRUE
  /\ UNCHANGED <<schedule, message, worker, known, station, told, sent, edits, prompt>>

(* Mutant: an item is sent whatever became of its source.                   *)
Fresh_AnySource(it) == it.full /\ it.age < Second

(* Not a second old, and of the timing source of now.                       *)
Fresh(it) == it.full /\ it.age < Second /\ it.message.source = message.source

(* A new revision for information unlike the last.                          *)
Noted(content) ==
  IF known.content = content THEN known
  ELSE [content |-> content, revision |-> known.revision + 1]

(* ap_send_announce_now, with ap_announce_information.                      *)
WorkerTake ==
  /\ worker.pc = "idle" /\ mailbox.full
  /\ mailbox' = NoItem
  /\ IF Fresh(mailbox)
     THEN known' = Noted(mailbox.message.content) /\ worker' = [pc |-> "check", item |-> mailbox]
     ELSE UNCHANGED <<known, worker>>
  /\ UNCHANGED <<schedule, message, station, told, sent, edits, published, prompt>>

(* The same tests before the station's turn.                                *)
WorkerCheck ==
  /\ worker.pc = "check"
  /\ worker' = IF Fresh(worker.item) THEN [worker EXCEPT !.pc = "begin"] ELSE Resting
  /\ UNCHANGED <<schedule, message, mailbox, known, station, told, sent, edits, published, prompt>>

(* ptpd_wifi_announce_begin.                                                *)
WorkerBegin ==
  /\ worker.pc = "begin"
  /\ LET same == worker.item.revision = schedule.revision
         s == IF same THEN Prepared(schedule, known.revision) ELSE schedule
     IN IF same /\ Due(s)
        THEN /\ schedule' = Claimed(s)
             /\ worker' = [pc |-> "send", message |-> worker.item.message,
                           token |-> Claimed(s).pending, log |-> s.log, latest |-> TRUE]
        ELSE schedule' = s /\ worker' = Resting
  /\ UNCHANGED <<message, mailbox, known, station, told, sent, edits, published, prompt>>

(* The station hears the announcement; one claimed before it asked for      *)
(* silence raises no expectation.  It is followed where they keep up.       *)
Heard(log) ==
  station' = [log |-> IF prompt /\ (station.log # Stop \/ worker.latest) THEN log ELSE Stop,
              age |-> 0, lost |-> 0]

(* wifi_ap_send_unicast_ptp.                                                *)
Handed ==
  /\ worker.pc = "send"
  /\ sent' = [content |-> worker.message.content,
              retired |-> IF worker.message.source = message.source THEN sent.retired
                          ELSE sent.retired + 1]

Lost ==
  IF prompt THEN station.lost < MaxLost /\ station' = [station EXCEPT !.lost = @ + 1]
            ELSE UNCHANGED station

(* ptpd_wifi_announce_finish.                                               *)
Complete(accepted) ==
  /\ schedule' = IF schedule.pending = worker.token THEN Finished(schedule, accepted) ELSE schedule
  /\ worker' = Resting
  /\ UNCHANGED <<message, mailbox, known, edits, published, prompt>>

(* The radio takes the frame; the station hears it, or it is lost.          *)
SendAccepted ==
  /\ Handed
  /\ told' = IF worker.latest /\ told < 3 THEN told + 1 ELSE told
  /\ Heard(worker.log) \/ Lost
  /\ Complete(TRUE)

SendRefused == Handed /\ Lost /\ UNCHANGED told /\ Complete(FALSE)

(* The next publication sees the change.                                    *)
Edit ==
  /\ edits < IF prompt THEN MaxRequests ELSE MaxLate
  /\ edits' = edits + 1 /\ published' = FALSE
  /\ UNCHANGED prompt

(* The registry is not publishable when the worker begins or completes, as  *)
(* between an association event and the report behind it: the claim or the  *)
(* completion is refused.                                                   *)
BeginUnpublished ==
  /\ Edit /\ worker.pc = "begin"
  /\ worker' = Resting
  /\ UNCHANGED <<schedule, message, mailbox, known, station, told, sent>>

SendUnrecorded ==
  /\ Edit /\ Handed
  /\ Heard(worker.log) \/ Lost
  /\ worker' = Resting
  /\ UNCHANGED <<schedule, message, mailbox, known, told>>

(* History: what is being sent was claimed before the latest request.       *)
Retire == worker' = IF worker.pc = "send" THEN [worker EXCEPT !.latest = FALSE] ELSE worker

(* ptp_wifi_peers_announce_interval.  A station that asks for silence no    *)
(* longer expects announcements.                                            *)
Request(request) ==
  /\ Edit
  /\ schedule' = Requested(schedule, request)
  /\ IF schedule'.revision # schedule.revision THEN Retire /\ told' = 0 ELSE UNCHANGED <<worker, told>>
  /\ station' = IF schedule'.log = Stop THEN [log |-> Stop, age |-> 0, lost |-> 0] ELSE station
  /\ UNCHANGED <<message, mailbox, known, sent>>

(* ptp_announce_reset: another port behind the association, or a profile    *)
(* reset.                                                                   *)
Reset ==
  /\ Edit
  /\ schedule' = Zero(schedule.revision + 1, schedule.serial)
  /\ Retire /\ told' = 0
  /\ UNCHANGED <<message, mailbox, known, station, sent>>

(* The content changes, with the timing source or under the same one.       *)
NewMessage ==
  /\ Edit
  /\ \/ /\ message' = [message EXCEPT !.content = @ + 1]
        /\ UNCHANGED sent
     \/ /\ message' = [content |-> message.content + 1, source |-> message.source + 1]
        /\ sent' = [sent EXCEPT !.retired = 0]
  /\ UNCHANGED <<schedule, mailbox, worker, known, station, told>>

Longest == 3 * Period(SlowestLog) + 1
Older(age, cap) == IF age < cap THEN age + 1 ELSE cap
Aged(it) == [it EXCEPT !.age = Older(@, Second)]

Tick ==
  /\ prompt => published /\ ~mailbox.full /\ worker.pc = "idle"
  /\ schedule' = [schedule EXCEPT !.age = Older(@, Second),
                                  !.next = IF @ > -Period(SlowestLog) THEN @ - 1 ELSE @]
  /\ mailbox' = IF mailbox.full THEN Aged(mailbox) ELSE mailbox
  /\ worker' = IF worker.pc = "check" THEN [worker EXCEPT !.item = Aged(@)] ELSE worker
  /\ station' = [station EXCEPT !.age = IF station.log = Stop THEN 0 ELSE Older(@, Longest)]
  /\ published' = FALSE
  /\ UNCHANGED <<message, known, told, sent, edits, prompt>>

Next ==
  \/ Publish \/ WorkerTake \/ WorkerCheck \/ WorkerBegin \/ BeginUnpublished
  \/ SendAccepted \/ SendRefused \/ SendUnrecorded
  \/ \E request \in Requests : Request(request)
  \/ Reset \/ NewMessage \/ Tick

Spec == Init /\ [][Next]_vars

(* The daemon publishes again and again, the worker runs, and finds and     *)
(* passes fresh items, time passes.                                         *)
FairSpec ==
  /\ Spec /\ WF_vars(Publish) /\ WF_vars(Tick)
  /\ SF_vars(WorkerTake /\ Fresh(mailbox)) /\ SF_vars(WorkerCheck /\ Fresh(worker.item))
  /\ WF_vars(WorkerCheck \/ WorkerBegin \/ SendAccepted \/ SendRefused)

-----------------------------------------------------------------------------
(* The schedule keeps to its ranges, whatever a station asks for: the       *)
(* interval is a supported one or a stop, tokens and deadlines stay within  *)
(* their bounds (ptp_announce_request).                                     *)
TypeOK ==
  /\ schedule.log \in {Stop} \cup InitialLog..SlowestLog
  /\ {schedule.serial, schedule.pending} \subseteq 0..SerialMax
  /\ schedule.slow \in 0..3 /\ schedule.age \in 0..Second
  /\ schedule.next \in -Period(SlowestLog)..Period(SlowestLog)
  /\ worker.pc \in {"idle", "check", "begin", "send"}
  /\ station.age \in 0..Longest /\ station.lost \in 0..MaxLost
  /\ told \in 0..3 /\ edits \in Nat

(* Each loss, and each claim whose completion is refused, costs an interval *)
(* or the second until the claim is given up.                               *)
LossesFit == MaxLost <= 2 /\ (MaxLost + 1) * Second <= 3 * Period(InitialLog)

(* Whatever intervals a station asks for and in whatever order, it does not *)
(* lose its source: with the daemon and the worker keeping up and losses in *)
(* a row that fit (LossesFit), an announcement comes within three of the    *)
(* intervals it was last told (slowdown_remaining, old_period_us, and the   *)
(* deadlines a request, a completion or none moves).                        *)
StationHoldsOn == prompt /\ station.log # Stop => station.age <= 3 * Period(station.log)

(* The pace falls only after three announcements that told the new interval *)
(* have been accepted since it was requested: completions of earlier        *)
(* requests do not count (pending and pending_log in ptp_announce_finish).  *)
ToldBeforeSlower == told >= 3 \/ EffectivePeriod(schedule) <= schedule.oldPeriod
                    \/ schedule.oldPeriod = 0

(* Whatever is requested, the schedule keeps to its ranges and its pace     *)
(* falls only once the receiver was told                                    *)
(* (ptp_announce_request, ptp_announce_finish).                             *)
PaceInv == TypeOK /\ ToldBeforeSlower

(* A change of the message goes out at once, whatever deadline the station  *)
(* has, whatever was in the mailbox or on its way, and whatever was         *)
(* requested or refused meanwhile: once daemon and worker have caught up,   *)
(* the last frame handed to the radio carried the message of now            *)
(* (information_revision in ptp_announce_begin, ap_announce_information).   *)
InformationIsSent ==
  [][prompt /\ Tick /\ schedule.log # Stop => sent.content = message.content]_vars

(* After a change of the timing source at most one more frame of a retired  *)
(* source goes out, the one past its check then, however far the worker is  *)
(* behind: what is in the mailbox or claimed later is refused               *)
(* (source_generation in ap_send_announce_now).                             *)
OneFrameOfRetiredSource == sent.retired <= 1

(* Announcements go on: lost completions, refused sends, overwritten items  *)
(* and replaced requests never silence the AP.                              *)
AnnouncesGoOn == []<>(worker.pc = "send" \/ schedule.log = Stop)
=============================================================================
