----------------------------- MODULE FtmSession -----------------------------
(***************************************************************************)
(* The FTM initiator of a Wi-Fi station port (ptp_ftm_session.h and the    *)
(* station half of ptp_wifi.c).  The client task posts START and CANCEL to *)
(* the default event loop, which also takes the driver's association       *)
(* events and FTM reports, in the order posted; the daemon changes the     *)
(* policy of the association (ptp_wifi_neighbor_t) at any time.            *)
(*                                                                         *)
(* With discipline (Mode A) a session is bound to that policy, without     *)
(* (Mode B) to a fresh beacon.  The driver is external: it holds one       *)
(* session, reports each once unless Wi-Fi is stopped, and reports one     *)
(* that was ended as failed.  The delay a report measures is a sample of   *)
(* module DelayRequest.                                                    *)
(***************************************************************************)
EXTENDS Integers, Sequences

CONSTANTS
  APs,         \* access points
  Confirm,     \* TSF_BOUNCE_CONSEC_THRESHOLD
  EventMax,    \* bound: the length of the event queue
  MaxMoves     \* bound: association, policy and reboot changes

None == "none"

ASSUME FtmAssumption ==
  /\ None \notin APs
  /\ {Confirm, EventMax} \subseteq Nat \ {0} /\ MaxMoves \in Nat

VARIABLES
  radio,     \* the driver: AP, its boot, the FTM session
  events,    \* the default event loop's queue
  session,   \* s_ftm_session
  media,     \* s_ftm_media.granted_frames, s_ftm_requested_now and ftm_requested_frames;
             \* of the grant (history): requested in this association
  bits,      \* s_events
  beacon,    \* freshness of the clock beacon, its boot; association time known
  policy,    \* wifi_neighbor; the snapshot s_ftm_timing of START
  reset,     \* baseline and streak of the AP reset detection
  client,    \* where ftm_client_task is
  moves,     \* environment changes so far
  discipline \* ptp_ftm_discipline_enabled; constant

vars == <<radio, events, session, media, bits, beacon, policy, reset, client, moves, discipline>>

NoSession == [peer |-> None]
NoReset == [baseline |-> FALSE, boot |-> 0, streak |-> 0]
Idle == [pending |-> FALSE, valid |-> FALSE, peer |-> None]
Event(kind, peer) == [kind |-> kind, peer |-> peer]

(* ptp_wifi_sta_start: the station may be associated already.               *)
InitWith(ap) ==
  /\ radio = [ap |-> ap, boot |-> 1, session |-> NoSession]
  /\ events = <<>>
  /\ session = Idle
  /\ media = [granted |-> 0, requested |-> 0, frames |-> 3, here |-> FALSE]
  /\ bits = [connected |-> ap # None, report |-> FALSE]
  /\ beacon = [fresh |-> FALSE, boot |-> 0, associated |-> FALSE]
  /\ policy = [association |-> 0, revision |-> 0, peer |-> ap, bound |-> FALSE,
               stopped |-> FALSE, taken |-> <<0, 0>>]
  /\ reset = NoReset
  /\ client = "idle" /\ moves = 0 /\ discipline \in BOOLEAN

Init == \E ap \in APs \cup {None} : InitWith(ap)

-----------------------------------------------------------------------------
(* History: work in flight is no longer what it was begun for.              *)
Outdated(q) == [i \in DOMAIN q |-> IF q[i].kind = "report" THEN [q[i] EXCEPT !.mine = FALSE] ELSE q[i]]
Elsewhere(q) ==
  [i \in DOMAIN q |-> IF q[i].kind = "report" THEN [q[i] EXCEPT !.mine = FALSE, !.here = FALSE] ELSE q[i]]
Abandoned(s, here) ==
  IF s = NoSession THEN s ELSE [s EXCEPT !.mine = FALSE, !.here = here /\ @]

(* The driver.                                                              *)

Move == moves < MaxMoves /\ moves' = moves + 1
Post(event) == Len(events) < EventMax /\ events' = Append(events, event)

(* Wi-Fi is started again from the handler of its stop.                     *)
RadioConnect(ap) ==
  /\ Move /\ radio.ap = None
  /\ \A i \in DOMAIN events : events[i].kind # "stop"
  /\ radio' = [radio EXCEPT !.ap = ap]
  /\ Post(Event("connected", ap))
  /\ UNCHANGED <<session, media, bits, beacon, policy, reset, client, discipline>>

(* The session fails, later.                                                *)
RadioDisconnect ==
  /\ Move /\ radio.ap # None
  /\ radio' = [radio EXCEPT !.ap = None,
                            !.session = IF @ = NoSession THEN @ ELSE [@ EXCEPT !.ended = TRUE]]
  /\ Post(Event("disconnected", None))
  /\ UNCHANGED <<session, media, bits, beacon, policy, reset, client, discipline>>

(* Wi-Fi stops: no report follows.                                          *)
RadioStop ==
  /\ Move
  /\ radio' = [radio EXCEPT !.ap = None, !.session = NoSession]
  /\ Post(Event("stop", None))
  /\ UNCHANGED <<session, media, bits, beacon, policy, reset, client, discipline>>

RadioReport(status) ==
  /\ radio.session # NoSession
  /\ radio.session.ended => status = "failed"
  /\ Post([kind |-> "report", peer |-> radio.session.peer, status |-> status,
           mine |-> radio.session.mine, here |-> radio.session.here])
  /\ radio' = [radio EXCEPT !.session = NoSession]
  /\ UNCHANGED <<session, media, bits, beacon, policy, reset, client, moves, discipline>>

(* The AP restarts its TSF and keeps the association.                       *)
Reboot ==
  /\ Move /\ ~discipline /\ radio.ap # None
  /\ radio' = [radio EXCEPT !.boot = @ + 1]
  /\ UNCHANGED <<events, session, media, bits, beacon, policy, reset, client, discipline>>

(* on_vendor_ie stamps a beacon, in Mode B; a second without one makes it   *)
(* stale.                                                                   *)
BeaconHeard ==
  /\ ~discipline /\ radio.ap # None /\ beacon.associated
  /\ beacon' = [beacon EXCEPT !.fresh = TRUE, !.boot = radio.boot]
  /\ UNCHANGED <<radio, events, session, media, bits, policy, reset, client, moves, discipline>>

BeaconMissed ==
  /\ beacon.fresh /\ Move
  /\ beacon' = [beacon EXCEPT !.fresh = FALSE]
  /\ UNCHANGED <<radio, events, session, media, bits, policy, reset, client, discipline>>

-----------------------------------------------------------------------------
(* The daemon.                                                              *)

(* Mutant: a stop or a rebinding keeps the revision.                        *)
Revised_Same(p) == p.revision

(* ptp_sync_interval_reset, ptp_sync_interval_request.                      *)
Revised(p) == p.revision + 1

(* Of no consequence in Mode B.                                             *)
PolicyChanged(p) ==
  /\ discipline
  /\ policy' = p
  /\ events' = Outdated(events)
  /\ radio' = [radio EXCEPT !.session = Abandoned(@, TRUE)]
  /\ UNCHANGED <<session, media, bits, beacon, reset, client, discipline>>

(* ptp_wifi_neighbor_bind.                                                  *)
Bind ==
  /\ discipline /\ policy.peer # None /\ ~policy.bound
  /\ policy' = [policy EXCEPT !.bound = TRUE]
  /\ UNCHANGED <<radio, events, session, media, bits, beacon, reset, client, moves, discipline>>

(* Another identity, or ptp_reset_for_profile.                              *)
Rebind == Move /\ policy.bound /\ PolicyChanged([policy EXCEPT !.stopped = FALSE, !.revision = Revised(policy)])

(* ptp_wifi_neighbor_sync_interval.                                         *)
SyncRequest(stopped) ==
  /\ Move /\ policy.bound /\ stopped # policy.stopped
  /\ PolicyChanged([policy EXCEPT !.stopped = stopped, !.revision = Revised(policy)])

(* ptpd_wifi_sta_timing_snapshot.                                           *)
Snapshot == <<policy.association, policy.revision>>
SnapshotHeld == policy.peer # None /\ policy.bound /\ ~policy.stopped

-----------------------------------------------------------------------------
(* The event loop.                                                          *)

Took(kind) == events # <<>> /\ Head(events).kind = kind

(* ptp_ftm_session_invalidate.                                              *)
Invalidated(s) == [s EXCEPT !.valid = FALSE]

(* cancel_ftm_session; here: the association goes on.                       *)
Cancel(here) ==
  /\ radio' = [radio EXCEPT !.session =
       IF session.pending /\ @ # NoSession THEN [Abandoned(@, here) EXCEPT !.ended = TRUE]
       ELSE Abandoned(@, here)]
  /\ events' = IF here THEN Outdated(Tail(events)) ELSE Elsewhere(Tail(events))

(* Mutant: the frames requested before are remembered.                      *)
MediaReset_KeepRequest(x) == [x EXCEPT !.granted = 0]

(* ftm_media_reset.                                                         *)
MediaReset(x) == [x EXCEPT !.granted = 0, !.requested = 0]

(* Both handlers of STA_CONNECTED: ptp.c's and on_wifi_event.               *)
OnConnected ==
  /\ Took("connected")
  /\ policy' = [policy EXCEPT !.association = @ + 1, !.revision = 0, !.peer = Head(events).peer,
                              !.bound = FALSE, !.stopped = FALSE]
  /\ media' = MediaReset(media)
  /\ Cancel(FALSE) /\ session' = Invalidated(session)
  /\ beacon' = [beacon EXCEPT !.associated = TRUE, !.fresh = FALSE]
  /\ reset' = NoReset
  /\ bits' = [bits EXCEPT !.connected = TRUE]
  /\ UNCHANGED <<client, moves, discipline>>

(* Mutant: a stop waits for the report.                                     *)
Stopped_Pending(s, stop) == s

(* Wi-Fi stopped: no report will come.                                      *)
Stopped(s, stop) == IF stop THEN [s EXCEPT !.pending = FALSE] ELSE s

OnDisconnected ==
  /\ Took("disconnected") \/ Took("stop")
  /\ policy' = [policy EXCEPT !.association = @ + 1, !.revision = 0, !.peer = None,
                              !.bound = FALSE, !.stopped = FALSE]
  /\ media' = MediaReset(media)
  /\ Cancel(FALSE) /\ session' = Stopped(Invalidated(session), Took("stop"))
  /\ beacon' = [beacon EXCEPT !.associated = FALSE, !.fresh = FALSE]
  /\ reset' = NoReset
  /\ bits' = [bits EXCEPT !.connected = FALSE]
  /\ UNCHANGED <<client, moves, discipline>>

(* on_ftm_control.                                                          *)
OnCancel ==
  /\ Took("cancel")
  /\ Cancel(TRUE) /\ session' = Invalidated(session)
  /\ UNCHANGED <<media, bits, beacon, policy, reset, client, moves, discipline>>

(* Mutant: a session is begun whatever is pending.                          *)
Busy_Never == FALSE

Busy == session.pending

Ready ==
  /\ bits.connected /\ radio.ap # None
  /\ IF discipline THEN SnapshotHeld /\ policy.peer = radio.ap
     ELSE beacon.associated /\ beacon.fresh

StartIgnored ==
  /\ Took("start") /\ Busy
  /\ events' = Tail(events)
  /\ UNCHANGED <<radio, session, media, bits, beacon, policy, reset, client, moves, discipline>>

(* Not connected, no policy or no beacon: the client is released.           *)
StartRefused ==
  /\ Took("start") /\ ~Busy /\ ~Ready
  /\ events' = Tail(events)
  /\ bits' = [bits EXCEPT !.report = TRUE]
  /\ beacon' = IF bits.connected /\ radio.ap # None /\ ~discipline
               THEN [beacon EXCEPT !.associated = TRUE] ELSE beacon
  /\ policy' = IF discipline /\ SnapshotHeld THEN [policy EXCEPT !.taken = Snapshot] ELSE policy
  /\ UNCHANGED <<radio, session, media, reset, client, moves, discipline>>

Fewer(frames) == IF frames = 3 THEN 2 ELSE 8
Requested == IF discipline THEN media.frames ELSE 16

(* The driver takes the session ...                                         *)
StartBegun ==
  /\ Took("start") /\ ~Busy /\ Ready
  /\ radio' = [radio EXCEPT !.session =
                 [peer |-> radio.ap, ended |-> FALSE, mine |-> TRUE, here |-> TRUE]]
  /\ events' = Outdated(Tail(events))
  /\ session' = [pending |-> TRUE, valid |-> TRUE, peer |-> radio.ap]
  /\ media' = [media EXCEPT !.requested = Requested]
  /\ beacon' = [beacon EXCEPT !.associated = TRUE]
  /\ policy' = IF discipline THEN [policy EXCEPT !.taken = Snapshot] ELSE policy
  /\ UNCHANGED <<bits, reset, client, moves, discipline>>

(* ... or refuses it, or the number of frames.                              *)
StartFailed ==
  /\ Took("start") /\ ~Busy /\ Ready
  /\ events' = Tail(events)
  /\ session' = [Idle EXCEPT !.peer = radio.ap]
  /\ \E invalidArg \in BOOLEAN :
       media' = [media EXCEPT !.requested = 0,
                   !.frames = IF invalidArg /\ Requested \in {2, 3} THEN Fewer(Requested) ELSE @]
  /\ bits' = [bits EXCEPT !.report = TRUE]
  /\ beacon' = [beacon EXCEPT !.associated = TRUE]
  /\ policy' = IF discipline THEN [policy EXCEPT !.taken = Snapshot] ELSE policy
  /\ Move
  /\ UNCHANGED <<radio, reset, client, discipline>>

-----------------------------------------------------------------------------
(* WIFI_EVENT_FTM_REPORT.                                                   *)

Statuses == {"success", "declined", "failed"}

(* Still the association, and the policy or a fresh beacon.                 *)
StillConnected(r) ==
  /\ bits.connected /\ radio.ap = r.peer
  /\ IF discipline THEN SnapshotHeld /\ policy.taken = Snapshot ELSE beacon.associated /\ beacon.fresh

(* ptp_ftm_session_finish.                                                  *)
Accepts(r) == session.pending /\ session.valid /\ StillConnected(r) /\ session.peer = r.peer

Granted(r) ==
  IF r.status # "declined" /\ media.requested \in {2, 3} THEN media.requested ELSE 0

Finish ==
  LET r == Head(events)
  IN /\ session' = [session EXCEPT !.pending = FALSE, !.valid = FALSE]
     /\ media' = [media EXCEPT !.granted = Granted(r), !.here = r.here]

ReportDiscarded ==
  /\ Took("report") /\ ~Accepts(Head(events))
  /\ Finish
  /\ events' = Tail(events)
  /\ bits' = [bits EXCEPT !.report = TRUE]
  /\ UNCHANGED <<radio, beacon, policy, reset, client, moves, discipline>>

(* The FTM transport's hook takes the report.                               *)
ReportHooked ==
  /\ Took("report") /\ Accepts(Head(events)) /\ discipline
  /\ Finish
  /\ events' = Tail(events)
  /\ bits' = [bits EXCEPT !.report = TRUE]
  /\ UNCHANGED <<radio, beacon, policy, reset, client, moves, discipline>>

(* The failure branch does not release the client.                          *)
ReportFailed ==
  /\ Took("report") /\ Accepts(Head(events)) /\ Head(events).status # "success"
  /\ Finish
  /\ events' = Tail(events)
  /\ UNCHANGED <<radio, bits, beacon, policy, reset, client, moves, discipline>>

Succeeds == Took("report") /\ Accepts(Head(events)) /\ Head(events).status = "success"

(* The beacon's TSF is behind that of the baseline.                         *)
Backward == reset.baseline /\ beacon.fresh /\ beacon.boot > reset.boot

(* Mutant: the reports that saw the reset are not counted.                  *)
Streak_Restart == 1

Streak == reset.streak + 1

(* No entry with a timestamp.                                               *)
ReportUntimed ==
  /\ Succeeds /\ Finish
  /\ events' = Tail(events)
  /\ bits' = [bits EXCEPT !.report = TRUE]
  /\ UNCHANGED <<radio, beacon, policy, reset, client, moves, discipline>>

(* A new baseline, unless the FTM counter alone went back.                  *)
ReportMeasured ==
  /\ Succeeds /\ Finish /\ ~Backward
  /\ events' = Tail(events)
  /\ bits' = [bits EXCEPT !.report = TRUE]
  /\ \/ reset' = [baseline |-> TRUE, streak |-> 0,
                   boot |-> IF beacon.fresh THEN beacon.boot ELSE reset.boot]
     \/ reset.baseline /\ reset' = [reset EXCEPT !.streak = 0]
  /\ UNCHANGED <<radio, beacon, policy, client, moves, discipline>>

ReportBackward ==
  /\ Succeeds /\ Finish /\ Backward /\ Streak < Confirm
  /\ events' = Tail(events)
  /\ bits' = [bits EXCEPT !.report = TRUE]
  /\ reset' = [reset EXCEPT !.streak = Streak]
  /\ UNCHANGED <<radio, beacon, policy, client, moves, discipline>>

(* The reset is confirmed: esp_wifi_disconnect.                             *)
ReportConfirmed ==
  /\ Succeeds /\ Finish /\ Backward /\ Streak >= Confirm
  /\ bits' = [bits EXCEPT !.report = TRUE]
  /\ reset' = [reset EXCEPT !.streak = 0, !.baseline = FALSE]
  /\ beacon' = [beacon EXCEPT !.fresh = FALSE]
  /\ radio' = [radio EXCEPT !.ap = None]
  /\ events' = Append(Tail(events), Event("disconnected", None))
  /\ UNCHANGED <<policy, client, moves, discipline>>

-----------------------------------------------------------------------------
(* ftm_client_task.                                                         *)

Step(from, to) == client = from /\ client' = to
LoopKept == UNCHANGED <<radio, session, media, beacon, policy, reset, moves, discipline>>

ClientReady ==
  /\ Step("idle", "post") /\ bits.connected /\ (discipline => SnapshotHeld)
  /\ bits' = [bits EXCEPT !.report = FALSE]
  /\ LoopKept /\ UNCHANGED events

ClientPosts == Step("post", "wait") /\ Post(Event("start", None)) /\ LoopKept /\ UNCHANGED bits

ClientReleased ==
  /\ Step("wait", "idle") /\ bits.report
  /\ bits' = [bits EXCEPT !.report = FALSE]
  /\ LoopKept /\ UNCHANGED events

(* Two seconds without a report.                                            *)
ClientGivesUp ==
  /\ Step("wait", "cancel") /\ ~bits.report
  /\ LoopKept /\ UNCHANGED <<events, bits>>

ClientCancels == Step("cancel", "idle") /\ Post(Event("cancel", None)) /\ LoopKept /\ UNCHANGED bits

-----------------------------------------------------------------------------
OnReport ==
  \/ ReportDiscarded \/ ReportHooked \/ ReportFailed \/ ReportUntimed
  \/ ReportMeasured \/ ReportBackward \/ ReportConfirmed

Loop ==
  \/ OnConnected \/ OnDisconnected \/ OnCancel
  \/ StartIgnored \/ StartRefused \/ StartBegun \/ OnReport

Client == ClientReady \/ ClientPosts \/ ClientReleased \/ ClientGivesUp \/ ClientCancels

Driver == \E status \in Statuses : RadioReport(status)

Next ==
  \/ Loop \/ StartFailed \/ Client \/ Driver
  \/ \E ap \in APs : RadioConnect(ap)
  \/ RadioDisconnect \/ RadioStop \/ Reboot \/ BeaconHeard \/ BeaconMissed
  \/ Bind \/ Rebind \/ \E stopped \in BOOLEAN : SyncRequest(stopped)

Spec == Init /\ [][Next]_vars

(* The event loop and the client go on, a session ends and its report finds *)
(* room before the client's next post; beacons come and the daemon binds    *)
(* the AP's port.                                                           *)
FairSpec ==
  /\ Spec /\ WF_vars(Loop) /\ WF_vars(Client) /\ SF_vars(Driver)
  /\ WF_vars(BeaconHeard) /\ WF_vars(Bind)

-----------------------------------------------------------------------------
(* The session is valid only while pending, grants are of a size the code   *)
(* asks for, and a streak that reaches the threshold does not stay          *)
(* (ptp_ftm_session_t, ptp_wifi_media_t).                                   *)
TypeOK ==
  /\ radio.ap \in APs \cup {None} /\ Len(events) <= EventMax
  /\ session.pending \in BOOLEAN /\ session.peer \in APs \cup {None}
  /\ session.valid => session.pending
  /\ media.granted \in {0, 2, 3} /\ media.requested \in {0, 2, 3, 8, 16}
  /\ reset.streak \in 0..Confirm - 1
  /\ client \in {"idle", "post", "wait", "cancel"}

(* A report is accepted only for the session last begun, not cancelled, in  *)
(* the association (and in Mode A under the policy) it was begun in         *)
(* (ptp_ftm_session_finish and the tests before it).                        *)
AcceptedIsOwn == Took("report") /\ Accepts(Head(events)) => Head(events).mine

(* The driver is asked for a session only when it has none: pending outlasts *)
(* cancellation, timeout and association changes (ptp_ftm_session_begin).   *)
OneDriverSession == Took("start") /\ ~Busy => radio.session = NoSession

(* What counts as granted was requested in the present association: a late  *)
(* report never qualifies another AP (ftm_media_reset).                     *)
GrantIsCurrent == media.granted # 0 => media.here

(* The session keeps its shape, and a grant is of the association it is     *)
(* used in (ptp_ftm_session_t, ptp_wifi_media_t).                           *)
SessionInv == TypeOK /\ GrantIsCurrent

Settled == bits.connected /\ radio.ap # None /\ ~policy.stopped

(* Ranging goes on in an association that stays: no order of timeouts,      *)
(* cancellations, stops and late reports leaves a session pending for ever. *)
RangingGoesOn == <>[]Settled => []<>session.pending /\ []<>~session.pending

(* An AP that restarted its TSF is not ranged against the old baseline for  *)
(* ever: while timed reports keep coming, the station leaves it             *)
(* (s_tsf_backward_streak).                                                 *)
ResetNoticed ==
  []<><<ReportMeasured \/ ReportBackward>>_vars
    => ~<>[](radio.ap # None /\ reset.baseline /\ reset.boot \in 1..radio.boot - 1)
=============================================================================
