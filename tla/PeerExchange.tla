---------------------------- MODULE PeerExchange ----------------------------
(***************************************************************************)
(* The gPTP peer delay exchange of a wired port (ptp_peer_exchange.h,      *)
(* ptp_peer_rate.h, ptp_peer_capability.h and their callers in ptp.c).     *)
(*                                                                         *)
(* Four threads share one exchange record under s_peer_lock:               *)
(*   timer   pdelay_req_timer_cb -> ptp_send_delay_req (esp_timer task)    *)
(*   daemon  the PTPD loop: responses, follow-ups, replay, clock steps     *)
(*   link    ptp_eth_event_handler -> ptp_set_port_link (event loop)       *)
(*   reset   ptp_reset_for_profile, called by the application through      *)
(*           ptpd_set_profile or by ptp_arm_profile_fallback               *)
(* One action is one critical section, or one stretch of code between two. *)
(*                                                                         *)
(* A local time stamp is represented by the request it belongs to and the  *)
(* epoch of the local clock it was taken in: a clock step starts a new     *)
(* epoch.  What the arithmetic on stamps decides is chosen freely.         *)
(***************************************************************************)
EXTENDS Naturals, FiniteSets

CONSTANTS Responders,      \* port identities a response may carry
          Self,            \* this port's own identity, one of Responders
          NoResponder,     \* the all-zero identity of a cleared record
          GptpInterval,    \* CONFIG_ESP_PTP_PDELAYREQ_INTERVAL_MS
          StandardInterval,\* CONFIG_ESP_PTP_DELAYREQ_INTERVAL_MS
          NegotiatedIntervals, \* the intervals a Delay_Resp may ask for
          MaxNow,          \* bound on esp_timer_get_time()
          MaxRequests,     \* bound on delay_req_seq
          MaxLinkChanges,  \* bound on link events
          MaxSteps,        \* bound on steps of the local clock
          MaxResets,       \* bound on profile changes
          MaxChanges       \* bound on these three together

ASSUME SelfAssumption == Self \in Responders /\ NoResponder \notin Responders
ASSUME IntervalAssumption == /\ GptpInterval \in Nat \ {0}
                             /\ StandardInterval \in Nat \ {0}
                             /\ NegotiatedIntervals \subseteq Nat \ {0}
(* sequence is a uint16_t.                                                 *)
MaxSequence == 65535

ASSUME BoundAssumption == /\ MaxNow \in Nat
                          /\ MaxRequests \in Nat \ {0}
                          /\ MaxRequests <= MaxSequence
                          /\ MaxLinkChanges \in Nat
                          /\ MaxSteps \in Nat
                          /\ MaxResets \in Nat
                          /\ MaxChanges \in Nat

VARIABLES
  exchange,    \* port[0].peer_exchange
  rate,        \* port[0].peer_rate
  capability,  \* port[0].peer_capability
  averaged,    \* the <<lifecycle, responder>> pairs whose delays peer_delay_ns averages
  delay_req_seq,
  interval,    \* delayreq_interval_ms, next_delayreq_interval_ms
  pdelay_multi_responder,
  gptp,        \* active_ptp_profile = ptp_profile_gptp
  link_up,
  timer, daemon, link, reset,  \* where each thread is, and its local variables
  now, epoch,  \* esp_timer_get_time(); number of steps of the local clock so far
  departed,    \* the epoch each request left the wire in, Unsent before that
  begun,       \* history: the link events still to come when each request began
  lost,        \* history: the requests counted by ptp_peer_expire
  measured     \* history: the requests ptp_peer_finish took a measurement from

vars == <<exchange, rate, capability, averaged, delay_req_seq, interval,
          pdelay_multi_responder, gptp, link_up, timer, daemon, link, reset,
          now, epoch, departed, begun, lost, measured>>

Requests == 1..MaxRequests
Unsent == MaxSteps + 1
Epochs == 0..MaxSteps
ResponderIds == Responders \cup {NoResponder}

(* A local time stamp: the request whose exchange it belongs to (0 before  *)
(* any is stored) and the clock epoch.                                     *)
Stamps == [request : Nat, epoch : Nat]
NoStamp == [request |-> 0, epoch |-> 0]

(* A frame that arrives: the sequence and source of its header, the epoch  *)
(* its receive stamp was taken in, and whether its requester identity and  *)
(* its time stamps are acceptable.                                         *)
Frames == [sequence : Nat, source : ResponderIds, epoch : Nat,
           wellformed : BOOLEAN]
NoFrame == [sequence |-> 0, source |-> NoResponder, epoch |-> 0,
            wellformed |-> FALSE]

Exchanges == [generation : Nat, lifecycle : Nat, sequence : Nat, deadline : Nat,
              sending : BOOLEAN, published : BOOLEAN, response_seen : BOOLEAN,
              consumed : BOOLEAN, multiple : BOOLEAN, loss_counted : BOOLEAN,
              follow_up_pending : BOOLEAN, lost_responses : Nat,
              transmit : Stamps, response : Frames,
              pending_follow_up : Frames]

Zeroed == [generation |-> 0, lifecycle |-> 0, sequence |-> 0, deadline |-> 0,
           sending |-> FALSE, published |-> FALSE, response_seen |-> FALSE,
           consumed |-> FALSE, multiple |-> FALSE, loss_counted |-> FALSE,
           follow_up_pending |-> FALSE, lost_responses |-> 0,
           transmit |-> NoStamp, response |-> NoFrame,
           pending_follow_up |-> NoFrame]

-----------------------------------------------------------------------------
(* The operations of ptp_peer_exchange.h.                                  *)

\* Mutant: a link change does not start a new lifecycle.
ptp_peer_invalidate_SameLife(e) ==
  [Zeroed EXCEPT !.generation = e.generation + 1, !.lifecycle = e.lifecycle]

ptp_peer_invalidate(e) ==
  [Zeroed EXCEPT !.generation = e.generation + 1, !.lifecycle = e.lifecycle + 1]

\* Mutant: a request may be counted again.
Expired_Recount(e) == e.published /\ ~e.consumed /\ now >= e.deadline

Expired(e) == e.published /\ ~e.consumed /\ ~e.loss_counted /\ now >= e.deadline

ptp_peer_expire(e) ==
  IF Expired(e)
  THEN [e EXCEPT !.loss_counted = TRUE, !.lost_responses = @ + 1]
  ELSE e

ptp_peer_abandon(e) ==
  [ptp_peer_invalidate(e) EXCEPT !.lifecycle = e.lifecycle,
                                 !.lost_responses = e.lost_responses]

ptp_peer_begin(e, sequence, deadline) ==
  [ptp_peer_abandon(e) EXCEPT !.sequence = sequence, !.deadline = deadline,
                              !.sending = TRUE]

CanPublish(e, generation) ==
  e.generation = generation /\ e.sending /\ ~e.published /\ now < e.deadline

ptp_peer_publish(e, transmit) ==
  [e EXCEPT !.transmit = transmit, !.published = TRUE, !.sending = FALSE]

ptp_peer_cancel(e, generation) ==
  IF e.generation = generation
  THEN [e EXCEPT !.sending = FALSE, !.published = FALSE,
                 !.response_seen = FALSE, !.follow_up_pending = FALSE]
  ELSE e

ptp_peer_matches(e, f) ==
  /\ e.published \/ e.sending
  /\ ~e.multiple
  /\ now < e.deadline
  /\ e.sequence = f.sequence
  /\ f.wellformed

(* PTP_PEER_MULTIPLE: a second clock or port answered the same request.    *)
SecondResponder(e, f) ==
  /\ ptp_peer_matches(e, f) /\ f.source # Self
  /\ e.response_seen /\ e.response.source # f.source

(* PTP_PEER_SELF, _MULTIPLE and _DUPLICATE all poison the exchange; only   *)
(* the first well-formed response of another clock is stored.              *)
ptp_peer_response(e, f) ==
  IF ~ptp_peer_matches(e, f) THEN e
  ELSE IF f.source = Self \/ e.response_seen THEN [e EXCEPT !.multiple = TRUE]
  ELSE [e EXCEPT !.response_seen = TRUE, !.response = f]

FollowUpFits(e, f) ==
  ptp_peer_matches(e, f) /\ e.response_seen /\ e.response.source = f.source

FollowUpRepeated(e) == e.consumed \/ e.follow_up_pending

(* ptp_peer_finish returned true: a measurement was taken.                 *)
FollowUpAccepted(e, f) ==
  FollowUpFits(e, f) /\ ~FollowUpRepeated(e) /\ e.published

ptp_peer_finish(e, f) ==
  CASE ~FollowUpFits(e, f) -> e
    [] FollowUpFits(e, f) /\ FollowUpRepeated(e) -> [e EXCEPT !.multiple = TRUE]
    [] FollowUpFits(e, f) /\ ~FollowUpRepeated(e) /\ ~e.published ->
         [e EXCEPT !.follow_up_pending = TRUE, !.pending_follow_up = f]
    [] FollowUpAccepted(e, f) ->
         [e EXCEPT !.consumed = TRUE, !.lost_responses = 0]

CanTakeFollowUp(e) ==
  /\ e.published /\ e.follow_up_pending
  /\ ~e.multiple /\ ~e.consumed
  /\ now < e.deadline

-----------------------------------------------------------------------------
(* ptp_peer_rate.h.  local is the epoch of local_previous.                 *)

PTP_PEER_RATE_OUTLIERS_MAX == 3

Rates == [lifecycle : Nat, responder : ResponderIds, anchored : BOOLEAN,
          valid : BOOLEAN, reanchor : BOOLEAN, local : Nat, outliers : 0..3]

ZeroRate == [lifecycle |-> 0, responder |-> NoResponder, anchored |-> FALSE,
             valid |-> FALSE, reanchor |-> FALSE, local |-> 0, outliers |-> 0]

SameNeighbor(r, lifecycle, responder) ==
  r.lifecycle = lifecycle /\ r.responder = responder

RateBase(r, lifecycle, responder) ==
  IF SameNeighbor(r, lifecycle, responder) THEN r
  ELSE [ZeroRate EXCEPT !.lifecycle = lifecycle, !.responder = responder]

(* local_sound: our side of the interval passes ptp_peer_elapsed; inrange: the   *)
(* remote side and the ratio do too.                                       *)
Anchored(r, local) ==
  [r EXCEPT !.reanchor = FALSE, !.anchored = TRUE, !.local = local]

KeepsRatio(r, local_sound, inrange) ==
  /\ r.anchored /\ local_sound /\ ~inrange /\ r.valid
  /\ r.outliers < PTP_PEER_RATE_OUTLIERS_MAX

ptp_peer_rate_update(r0, lifecycle, responder, local, local_sound, inrange) ==
  LET r == RateBase(r0, lifecycle, responder)
      a == Anchored(r, local)
  IN  CASE r.reanchor -> a
        [] ~r.reanchor /\ KeepsRatio(r, local_sound, inrange) ->
             [a EXCEPT !.outliers = @ + 1]
        [] OTHER -> [a EXCEPT !.outliers = 0,
                              !.valid = r.anchored /\ local_sound /\ inrange]

-----------------------------------------------------------------------------
Capabilities == [lifecycle : Nat, received : Nat, qualified : BOOLEAN,
                 request : Nat]     \* request: history, the qualifying request

(* ptp_peer_capable in domain 0.                                           *)
ptp_wired_capability ==
  /\ link_up /\ gptp
  /\ capability.qualified
  /\ capability.lifecycle = exchange.lifecycle
  /\ now < capability.received + interval * 3

Disqualify(e) ==
  capability' = [capability EXCEPT !.qualified = @ /\ ~e.multiple]

-----------------------------------------------------------------------------
(* The threads.  timer: the request being sent and its transmit stamp.     *)
(* daemon: the measurement taken by ptp_peer_finish with the copy of       *)
(* peer_rate it is computed from, or the follow-up being replayed.         *)

TimerStates == [pc : {"wait", "send", "publish"}, generation : Nat,
                sequence : Nat, sent : BOOLEAN, stamp : Stamps, fire : Nat]

DaemonStates == [pc : {"loop", "replay", "compute", "clean", "standard"},
                 generation : Nat, lifecycle : Nat, transmit : Stamps,
                 response : Frames, follow_up : Frames, rate : Rates]

IdleDaemon == [pc |-> "loop", generation |-> 0, lifecycle |-> 0,
               transmit |-> NoStamp, response |-> NoFrame,
               follow_up |-> NoFrame, rate |-> ZeroRate]

(* changes: the link events still to come; target: the link_up to set.     *)
LinkStates == [pc : {"idle", "set", "arm"}, target : BOOLEAN, changes : Nat]

ResetStates == [pc : {"idle", "delay", "clean", "interval", "arm"}, resets : Nat]

(* Link events, steps and profile changes so far.                          *)
Changes == (MaxLinkChanges - link.changes) + epoch + (MaxResets - reset.resets)

Init ==
  /\ exchange = ptp_peer_abandon(Zeroed)  \* ptp_initialize_state resets once
  /\ rate = [ZeroRate EXCEPT !.reanchor = TRUE]
  /\ capability = [lifecycle |-> 0, received |-> 0, qualified |-> FALSE,
                   request |-> 0]
  /\ averaged = {}
  /\ delay_req_seq = 0
  /\ interval = GptpInterval
  /\ pdelay_multi_responder = FALSE
  /\ gptp = TRUE
  /\ link_up = TRUE
  /\ timer = [pc |-> "wait", generation |-> 0, sequence |-> 0, sent |-> FALSE,
              stamp |-> NoStamp, fire |-> 0]
  /\ daemon = IdleDaemon
  /\ link = [pc |-> "idle", target |-> FALSE, changes |-> MaxLinkChanges]
  /\ reset = [pc |-> "idle", resets |-> MaxResets]
  /\ now = 0
  /\ epoch = 0
  /\ departed = [r \in Requests |-> Unsent]
  /\ begun = [r \in Requests |-> 0]
  /\ lost = {}
  /\ measured = {}

-----------------------------------------------------------------------------
(* The esp_timer task.                                                     *)

(* pdelay_req_timer_cb up to the unlock in ptp_send_delay_req: count the   *)
(* previous request if it expired unanswered, then begin the next one.     *)
TimerBegin ==
  /\ timer.pc = "wait" /\ now >= timer.fire
  /\ gptp
  /\ delay_req_seq < MaxRequests
  /\ delay_req_seq' = delay_req_seq + 1
  /\ exchange' = ptp_peer_begin(ptp_peer_expire(exchange), delay_req_seq + 1,
                                now + interval)
  /\ lost' = IF Expired(exchange) THEN lost \cup {exchange.sequence} ELSE lost
  /\ begun' = [begun EXCEPT ![delay_req_seq + 1] = link.changes]
  /\ timer' = [timer EXCEPT !.pc = "send", !.generation = exchange.generation + 1,
                            !.sequence = delay_req_seq + 1]
  /\ UNCHANGED <<rate, capability, averaged, interval, pdelay_multi_responder,
                 gptp, link_up, daemon, link, reset, now, epoch, departed,
                 measured>>

(* In the standard profile the callback sends a Delay_Req, or nothing, and *)
(* leaves the exchange alone.                                              *)
TimerStandard ==
  /\ timer.pc = "wait" /\ now >= timer.fire
  /\ ~gptp
  /\ delay_req_seq' \in {delay_req_seq, delay_req_seq + 1}
  /\ delay_req_seq' <= MaxRequests
  /\ timer' = [timer EXCEPT !.fire = now + interval]
  /\ UNCHANGED <<exchange, rate, capability, averaged, interval,
                 pdelay_multi_responder, gptp, link_up, daemon, link, reset, now,
                 epoch, departed, begun, lost, measured>>

(* ptp_net_send, outside the lock.  It fails, sends without a usable       *)
(* transmit stamp, or sends and returns T1.                                *)
TimerSend ==
  /\ timer.pc = "send"
  /\ \E onwire, stamped \in BOOLEAN :
       /\ stamped => onwire
       /\ departed' = IF onwire THEN [departed EXCEPT ![timer.sequence] = epoch]
                                ELSE departed
       /\ timer' = [timer EXCEPT
                      !.pc = "publish", !.sent = stamped,
                      !.stamp = [request |-> timer.sequence, epoch |-> epoch]]
  /\ UNCHANGED <<exchange, rate, capability, averaged, delay_req_seq, interval,
                 pdelay_multi_responder, gptp, link_up, daemon, link, reset, now,
                 epoch, begun, lost, measured>>

(* The second critical section of ptp_send_delay_req, then the re-arming   *)
(* at the end of the callback.                                             *)
TimerPublish ==
  /\ timer.pc = "publish"
  /\ exchange' = IF timer.sent /\ CanPublish(exchange, timer.generation)
                 THEN ptp_peer_publish(exchange, timer.stamp)
                 ELSE ptp_peer_cancel(exchange, timer.generation)
  /\ timer' = [timer EXCEPT !.pc = "wait", !.generation = 0, !.sequence = 0,
                            !.sent = FALSE, !.stamp = NoStamp,
                            !.fire = now + interval]
  /\ UNCHANGED <<rate, capability, averaged, delay_req_seq, interval,
                 pdelay_multi_responder, gptp, link_up, daemon, link, reset, now,
                 epoch, departed, begun, lost, measured>>

-----------------------------------------------------------------------------
(* The daemon loop.                                                        *)

(* The frames the receive queue may hold: answers to requests that left,   *)
(* in any order, any number of times, stamped at any time since.           *)
Arrivals ==
  {f \in [sequence : Requests, source : Responders, epoch : Epochs,
          wellformed : BOOLEAN] :
     departed[f.sequence] <= f.epoch /\ f.epoch <= epoch}

(* ptp_process_delay_resp, gPTP branch.                                    *)
DaemonResponse ==
  /\ daemon.pc = "loop" /\ gptp
  /\ \E f \in Arrivals :
       /\ exchange' = ptp_peer_response(exchange, f)
       /\ pdelay_multi_responder' =
            (pdelay_multi_responder \/ SecondResponder(exchange, f))
  /\ Disqualify(exchange')
  /\ UNCHANGED <<rate, averaged, delay_req_seq, interval, gptp, link_up, timer,
                 daemon, link, reset, now, epoch, departed, begun, lost, measured>>

(* ptp_process_delay_resp, standard profile: what it does to this port is  *)
(* to change the interval, after the test of the profile.                  *)
DaemonStandard ==
  /\ daemon.pc = "loop" /\ ~gptp
  /\ daemon' = [IdleDaemon EXCEPT !.pc = "standard"]
  /\ UNCHANGED <<exchange, rate, capability, averaged, delay_req_seq, interval,
                 pdelay_multi_responder, gptp, link_up, timer, link, reset, now,
                 epoch, departed, begun, lost, measured>>

DaemonNegotiate ==
  /\ daemon.pc = "standard"
  /\ interval' \in NegotiatedIntervals
  /\ daemon' = IdleDaemon
  /\ UNCHANGED <<exchange, rate, capability, averaged, delay_req_seq,
                 pdelay_multi_responder, gptp, link_up, timer, link, reset, now,
                 epoch, departed, begun, lost, measured>>

(* The first critical section of ptp_process_delay_resp_follow_up.         *)
Finish(f) ==
  /\ exchange' = ptp_peer_finish(exchange, f)
  /\ Disqualify(exchange')
  /\ IF FollowUpAccepted(exchange, f)
     THEN /\ daemon' = [pc |-> "compute", generation |-> exchange.generation,
                        lifecycle |-> exchange.lifecycle,
                        transmit |-> exchange.transmit,
                        response |-> exchange.response,
                        follow_up |-> f, rate |-> rate]
          /\ measured' = measured \cup {exchange.sequence}
     ELSE daemon' = IdleDaemon /\ UNCHANGED measured

DaemonFollowUp ==
  /\ daemon.pc = "loop" /\ gptp
  /\ \E f \in Arrivals : Finish(f)
  /\ UNCHANGED <<rate, averaged, delay_req_seq, interval, pdelay_multi_responder,
                 gptp, link_up, timer, link, reset, now, epoch, departed, begun,
                 lost>>

(* ptp_peer_take_follow_up at the end of a pass of the loop.               *)
DaemonTake ==
  /\ daemon.pc = "loop"
  /\ CanTakeFollowUp(exchange)
  /\ exchange' = [exchange EXCEPT !.follow_up_pending = FALSE]
  /\ daemon' = [IdleDaemon EXCEPT !.pc = "replay",
                                  !.generation = exchange.generation,
                                  !.follow_up = exchange.pending_follow_up]
  /\ UNCHANGED <<rate, capability, averaged, delay_req_seq, interval,
                 pdelay_multi_responder, gptp, link_up, timer, link, reset, now,
                 epoch, departed, begun, lost, measured>>

(* ptp_process_delay_resp_follow_up on the retained follow-up.             *)
DaemonReplay ==
  /\ daemon.pc = "replay"
  /\ IF gptp /\ exchange.generation = daemon.generation
     THEN Finish(daemon.follow_up)
     ELSE daemon' = IdleDaemon /\ UNCHANGED <<exchange, capability, measured>>
  /\ UNCHANGED <<rate, averaged, delay_req_seq, interval, pdelay_multi_responder,
                 gptp, link_up, timer, link, reset, now, epoch, departed, begun,
                 lost>>

\* Mutant: only the link lifecycle is compared before the write-back.
Current_NoGeneration ==
  exchange.lifecycle = daemon.lifecycle /\ ~exchange.multiple

(* The measurement is still that of the exchange in progress.              *)
Current ==
  /\ exchange.generation = daemon.generation
  /\ exchange.lifecycle = daemon.lifecycle
  /\ ~exchange.multiple

(* The round trip or the turnaround is out of range.                       *)
DaemonOutOfRange ==
  /\ daemon.pc = "compute"
  /\ daemon' = IdleDaemon
  /\ UNCHANGED <<exchange, rate, capability, averaged, delay_req_seq, interval,
                 pdelay_multi_responder, gptp, link_up, timer, link, reset, now,
                 epoch, departed, begun, lost, measured>>

\* Mutant: the average is kept when the neighbor changes.
Store_KeepsAverage(r, delay_valid, sound) ==
  /\ rate' = r
  /\ averaged' = IF delay_valid
                 THEN averaged \cup {<<daemon.lifecycle, daemon.follow_up.source>>}
                 ELSE averaged
  /\ capability' = [lifecycle |-> daemon.lifecycle, received |-> now,
                    qualified |-> delay_valid /\ sound,
                    request |-> daemon.transmit.request]

(* The rate and the delay are computed on the copy, then stored under the  *)
(* lock.  sound: the average is at most 800 ns and the types and reserved   *)
(* fields of both messages are those of 802.1AS.                           *)
Store(r, delay_valid, sound) ==
  LET neighbor == <<daemon.lifecycle, daemon.follow_up.source>>
      kept == IF SameNeighbor(rate, r.lifecycle, r.responder) THEN averaged ELSE {}
  IN  /\ rate' = r
      /\ averaged' = IF delay_valid THEN kept \cup {neighbor} ELSE kept
      /\ capability' =
           [lifecycle |-> daemon.lifecycle, received |-> now,
            qualified |-> /\ delay_valid /\ sound
                          /\ daemon.follow_up.source # Self,
            request |-> daemon.transmit.request]

Computed(local_sound, inrange) ==
  ptp_peer_rate_update(daemon.rate, daemon.lifecycle, daemon.follow_up.source,
                       daemon.response.epoch, local_sound, inrange)

DaemonApply ==
  /\ daemon.pc = "compute"
  /\ IF Current
     THEN \E local_sound, inrange, delay_ok, sound \in BOOLEAN :
            LET r == Computed(local_sound, inrange)
            IN  Store(r, r.valid /\ delay_ok, sound)
     ELSE UNCHANGED <<rate, averaged, capability>>
  /\ daemon' = IdleDaemon
  /\ UNCHANGED <<exchange, delay_req_seq, interval, pdelay_multi_responder, gptp,
                 link_up, timer, link, reset, now, epoch, departed, begun, lost,
                 measured>>

(* ptp_check_profile_fallback counts an expired request too.               *)
DaemonExpire ==
  /\ daemon.pc = "loop" /\ gptp
  /\ Expired(exchange)
  /\ exchange' = ptp_peer_expire(exchange)
  /\ lost' = lost \cup {exchange.sequence}
  /\ UNCHANGED <<rate, capability, averaged, delay_req_seq, interval,
                 pdelay_multi_responder, gptp, link_up, timer, daemon, link, reset,
                 now, epoch, departed, begun, measured>>

(* ptp_update_local_clock steps the clock.  A step ptp_settime refuses is  *)
(* followed by the same clean-up and gets an epoch of its own too.         *)
DaemonStep ==
  /\ daemon.pc = "loop"
  /\ epoch < MaxSteps /\ Changes < MaxChanges
  /\ epoch' = epoch + 1
  /\ daemon' = [IdleDaemon EXCEPT !.pc = "clean"]
  /\ UNCHANGED <<exchange, rate, capability, averaged, delay_req_seq, interval,
                 pdelay_multi_responder, gptp, link_up, timer, link, reset, now,
                 departed, begun, lost, measured>>

\* Mutant: the step leaves the exchange running.
ptp_clean_after_step_KeepsExchange ==
  /\ rate' = [rate EXCEPT !.reanchor = TRUE]
  /\ UNCHANGED exchange

(* The critical section of ptp_clean_after_step.                           *)
ptp_clean_after_step ==
  /\ exchange' = ptp_peer_abandon(exchange)
  /\ rate' = [rate EXCEPT !.reanchor = TRUE]

DaemonClean ==
  /\ daemon.pc = "clean"
  /\ ptp_clean_after_step
  /\ daemon' = IdleDaemon
  /\ UNCHANGED <<capability, averaged, delay_req_seq, interval,
                 pdelay_multi_responder, gptp, link_up, timer, link, reset, now,
                 epoch, departed, begun, lost, measured>>

(* ptp_arm_profile_fallback: a fresh window of losses and responders.      *)
Arm ==
  IF gptp THEN /\ exchange' = [exchange EXCEPT !.lost_responses = 0]
               /\ pdelay_multi_responder' = FALSE
          ELSE UNCHANGED <<exchange, pdelay_multi_responder>>

(* The daemon re-arms after ptpd_eth_rx_restarted.                         *)
DaemonArm ==
  /\ daemon.pc = "loop"
  /\ Arm
  /\ UNCHANGED <<rate, capability, averaged, delay_req_seq, interval, gptp,
                 link_up, timer, daemon, link, reset, now, epoch, departed, begun,
                 lost, measured>>

-----------------------------------------------------------------------------
(* The event loop: ptp_set_port_link, then ptp_arm_profile_fallback on     *)
(* link up.                                                                *)
LinkInvalidate ==
  /\ link.pc = "idle" /\ link.changes > 0 /\ Changes < MaxChanges
  /\ exchange' = ptp_peer_invalidate(exchange)
  /\ link' = [pc |-> "set", target |-> ~link_up, changes |-> link.changes - 1]
  /\ UNCHANGED <<rate, capability, averaged, delay_req_seq, interval,
                 pdelay_multi_responder, gptp, link_up, timer, daemon, reset, now,
                 epoch, departed, begun, lost, measured>>

LinkSet ==
  /\ link.pc = "set"
  /\ link_up' = link.target
  /\ link' = [link EXCEPT !.pc = IF link.target THEN "arm" ELSE "idle"]
  /\ UNCHANGED <<exchange, rate, capability, averaged, delay_req_seq, interval,
                 pdelay_multi_responder, gptp, timer, daemon, reset, now, epoch,
                 departed, begun, lost, measured>>

(* ETHERNET_EVENT_CONNECTED on a port whose link_up is set already, as it  *)
(* is from the start.                                                      *)
LinkRepeat ==
  /\ link.pc = "idle" /\ link_up
  /\ Arm
  /\ UNCHANGED <<rate, capability, averaged, delay_req_seq, interval, gptp,
                 link_up, timer, daemon, link, reset, now, epoch, departed, begun,
                 lost, measured>>

LinkArm ==
  /\ link.pc = "arm"
  /\ Arm
  /\ link' = [link EXCEPT !.pc = "idle"]
  /\ UNCHANGED <<rate, capability, averaged, delay_req_seq, interval, gptp,
                 link_up, timer, daemon, reset, now, epoch, departed, begun, lost,
                 measured>>

(* ptp_reset_for_profile, what it does to this port: change the profile,   *)
(* clear the average without the lock, abandon the exchange, set the       *)
(* intervals, re-arm.                                                      *)
ResetProfile ==
  /\ reset.pc = "idle" /\ reset.resets > 0 /\ Changes < MaxChanges
  /\ gptp' = ~gptp
  /\ reset' = [pc |-> "delay", resets |-> reset.resets - 1]
  /\ UNCHANGED <<exchange, rate, capability, averaged, delay_req_seq, interval,
                 pdelay_multi_responder, link_up, timer, daemon, link, now, epoch,
                 departed, begun, lost, measured>>

ResetDelay ==
  /\ reset.pc = "delay"
  /\ averaged' = {}
  /\ reset' = [reset EXCEPT !.pc = "clean"]
  /\ UNCHANGED <<exchange, rate, capability, delay_req_seq, interval,
                 pdelay_multi_responder, gptp, link_up, timer, daemon, link, now,
                 epoch, departed, begun, lost, measured>>

ResetClean ==
  /\ reset.pc = "clean"
  /\ ptp_clean_after_step
  /\ reset' = [reset EXCEPT !.pc = "interval"]
  /\ UNCHANGED <<capability, averaged, delay_req_seq, interval,
                 pdelay_multi_responder, gptp, link_up, timer, daemon, link, now,
                 epoch, departed, begun, lost, measured>>

ResetInterval ==
  /\ reset.pc = "interval"
  /\ interval' = IF gptp THEN GptpInterval ELSE StandardInterval
  /\ reset' = [reset EXCEPT !.pc = "arm"]
  /\ UNCHANGED <<exchange, rate, capability, averaged, delay_req_seq,
                 pdelay_multi_responder, gptp, link_up, timer, daemon, link, now,
                 epoch, departed, begun, lost, measured>>

ResetArm ==
  /\ reset.pc = "arm"
  /\ Arm
  /\ reset' = [reset EXCEPT !.pc = "idle"]
  /\ UNCHANGED <<rate, capability, averaged, delay_req_seq, interval, gptp,
                 link_up, timer, daemon, link, now, epoch, departed, begun, lost,
                 measured>>

Tick ==
  /\ now < MaxNow
  /\ now' = now + 1
  /\ UNCHANGED <<exchange, rate, capability, averaged, delay_req_seq, interval,
                 pdelay_multi_responder, gptp, link_up, timer, daemon, link, reset,
                 epoch, departed, begun, lost, measured>>

TimerNext == TimerBegin \/ TimerStandard \/ TimerSend \/ TimerPublish
DaemonNext == \/ DaemonResponse \/ DaemonFollowUp \/ DaemonTake \/ DaemonReplay
              \/ DaemonOutOfRange \/ DaemonApply \/ DaemonExpire
              \/ DaemonStep \/ DaemonClean \/ DaemonArm
              \/ DaemonStandard \/ DaemonNegotiate
LinkNext == LinkInvalidate \/ LinkSet \/ LinkRepeat \/ LinkArm
ResetNext == \/ ResetProfile \/ ResetDelay \/ ResetClean \/ ResetInterval
             \/ ResetArm

Next == TimerNext \/ DaemonNext \/ LinkNext \/ ResetNext \/ Tick

Spec == Init /\ [][Next]_vars

-----------------------------------------------------------------------------
(* Properties.                                                             *)

(* Every variable keeps its shape; the request interval is one of the      *)
(* configured or negotiated ones whichever thread wrote it last (the timer *)
(* is re-armed with it and ptp_peer_capable multiplies it).                *)
TypeOK ==
  /\ exchange \in Exchanges
  /\ rate \in Rates
  /\ capability \in Capabilities
  /\ averaged \subseteq (Nat \X ResponderIds)
  /\ delay_req_seq \in 0..MaxRequests
  /\ interval \in {GptpInterval, StandardInterval} \cup NegotiatedIntervals
  /\ pdelay_multi_responder \in BOOLEAN
  /\ gptp \in BOOLEAN
  /\ link_up \in BOOLEAN
  /\ timer \in TimerStates
  /\ daemon \in DaemonStates
  /\ link \in LinkStates
  /\ reset \in ResetStates
  /\ now \in Nat
  /\ epoch \in Epochs
  /\ departed \in [Requests -> 0..Unsent]
  /\ begun \in [Requests -> Nat]
  /\ lost \subseteq Nat
  /\ measured \subseteq Nat

(* The four stamps of a measurement that ptp_process_delay_resp_follow_up  *)
(* is about to store come from one exchange: T1, the response and the      *)
(* follow-up carry one sequence and one responder, and the local clock was *)
(* not stepped between T1 and T4, whatever the timer, link and reset       *)
(* threads did between the two critical sections.                          *)
CoherentMeasurement ==
  daemon.pc = "compute" /\ Current =>
    /\ daemon.transmit.request = daemon.response.sequence
    /\ daemon.response.sequence = daemon.follow_up.sequence
    /\ daemon.response.source = daemon.follow_up.source
    /\ daemon.transmit.epoch = daemon.response.epoch

(* The interval a neighbor rate ratio is measured over never spans a step  *)
(* of the local clock: local_previous and the new receive stamp are of one *)
(* epoch unless ptp_peer_rate_update only re-anchors.                      *)
RatioSpansNoStep ==
  LET base == RateBase(daemon.rate, daemon.lifecycle, daemon.follow_up.source)
  IN  daemon.pc = "compute" /\ Current /\ base.anchored /\ ~base.reanchor
        => base.local = daemon.response.epoch

(* The rate written back was computed from the rate it replaces: no        *)
(* re-anchor request made by ptp_clean_after_step after the copy was taken *)
(* is overwritten.                                                         *)
NoLostReanchor ==
  daemon.pc = "compute" /\ Current => daemon.rate = rate

(* peer_delay_ns averages the delays of one neighbor in one link lifetime, *)
(* the one peer_rate is for.                                               *)
AverageOneNeighbor ==
  averaged \subseteq {<<rate.lifecycle, rate.responder>>}

(* While the port reports itself capable, the exchange that qualified it   *)
(* began after the last link change: no evidence of an earlier link        *)
(* survives ptp_set_port_link.                                             *)
CapableOnThisLink ==
  ptp_wired_capability =>
    /\ capability.request \in Requests
    /\ begun[capability.request] = link.changes

(* A second answer to the request in progress, or an answer from this      *)
(* clock itself, leaves no capability standing.                            *)
PoisonedIsNotCapable == exchange.multiple => ~ptp_wired_capability

(* No request is both counted as lost and measured.                        *)
LostOrMeasured == lost \cap measured = {}

(* lost_responses, compared with nine by ptp_check_profile_fallback,       *)
(* counts different requests: none is counted by both the timer and the    *)
(* daemon.                                                                 *)
LossesAreDistinct == exchange.lost_responses <= Cardinality(lost)

(* The neighbor rate ratio is of one clock epoch and one history: no       *)
(* interval spans a step, and no request to re-anchor is lost in the       *)
(* copy, update and write-back of ptp_process_delay_resp_follow_up.        *)
RateIsContinuous == RatioSpansNoStep /\ NoLostReanchor

(* The port is capable by evidence of this link, and not beside a second   *)
(* answer (ptp_peer_capability.h against ptp_set_port_link and the         *)
(* responses that come meanwhile).                                         *)
CapabilityIsEarned == CapableOnThisLink /\ PoisonedIsNotCapable

(* The losses the fallback reads are sound: each of another request, none  *)
(* of one that was measured (ptp_peer_expire in two threads), and beside   *)
(* them the exchange and its interval keep to their shapes.                *)
LossesAreSound == TypeOK /\ LostOrMeasured /\ LossesAreDistinct

-----------------------------------------------------------------------------
(* The inductive invariant behind the properties above.                    *)

Live(e) == e.published \/ e.sending

(* Only the timer begins a request and only it publishes one; a generation *)
(* other than the one it holds means its request is already abandoned.     *)
RequestInv ==
  /\ Live(exchange) => exchange.sequence \in 1..delay_req_seq
  /\ exchange.response_seen => Live(exchange)
  /\ \A r \in Requests : r > delay_req_seq => departed[r] = Unsent
  /\ timer.pc = "wait" => ~exchange.sending
  /\ timer.pc # "wait" =>
       /\ timer.sequence \in 1..delay_req_seq
       /\ timer.generation <= exchange.generation
       /\ Live(exchange) => exchange.generation = timer.generation
       /\ exchange.generation = timer.generation =>
            exchange.sequence = timer.sequence /\ ~exchange.published
  /\ timer.pc = "send" => departed[timer.sequence] = Unsent
  /\ timer.pc = "publish" /\ timer.sent =>
       /\ timer.stamp.request = timer.sequence
       /\ timer.stamp.epoch = departed[timer.sequence]

(* Between a step of the clock and its clean-up the exchange and the rate  *)
(* may mix epochs; at any other time they are of the current one.          *)
EpochInv ==
  /\ Live(exchange) /\ daemon.pc # "clean" =>
       departed[exchange.sequence] \in {Unsent, epoch}
  /\ exchange.published =>
       /\ exchange.transmit.request = exchange.sequence
       /\ exchange.transmit.epoch = departed[exchange.sequence]
  /\ exchange.response_seen => exchange.response.sequence = exchange.sequence
  /\ exchange.response_seen /\ daemon.pc # "clean" =>
       /\ exchange.response.epoch = epoch
       /\ departed[exchange.sequence] = epoch
  /\ rate.anchored /\ ~rate.reanchor /\ daemon.pc # "clean" => rate.local = epoch

(* A measurement whose generation is still current describes the exchange  *)
(* as it stands.                                                           *)
MeasureInv ==
  daemon.pc = "compute" =>
    /\ daemon.generation <= exchange.generation
    /\ daemon.generation = exchange.generation =>
         /\ exchange.published /\ exchange.response_seen
         /\ daemon.lifecycle = exchange.lifecycle
         /\ daemon.transmit = exchange.transmit
         /\ daemon.response = exchange.response
         /\ daemon.follow_up.sequence = exchange.sequence
         /\ daemon.follow_up.source = exchange.response.source
         /\ daemon.rate = rate

(* What qualified the port happened on the link as it is now, unless the   *)
(* lifecycle stored with it is already out of date.                        *)
LinkInv ==
  /\ Live(exchange) => begun[exchange.sequence] = link.changes
  /\ capability.lifecycle <= exchange.lifecycle
  /\ capability.qualified => capability.request \in 1..delay_req_seq
  /\ capability.qualified /\ capability.lifecycle = exchange.lifecycle =>
       begun[capability.request] = link.changes
  /\ exchange.multiple => ~capability.qualified

(* Each request is counted at most once, as lost or as measured.           *)
LossInv ==
  /\ lost \subseteq 1..delay_req_seq /\ measured \subseteq 1..delay_req_seq
  /\ Live(exchange) /\ exchange.sequence \in lost =>
       exchange.loss_counted /\ now >= exchange.deadline
  /\ Live(exchange) /\ exchange.sequence \in measured => exchange.consumed
  /\ lost \cap measured = {}
  /\ IsFiniteSet(lost)
  /\ exchange.lost_responses <= Cardinality(lost)

(* All of it: the state every interleaving of the four threads keeps.      *)
ExchangeInv ==
  RequestInv /\ EpochInv /\ MeasureInv /\ LinkInv /\ LossInv /\ AverageOneNeighbor
=============================================================================
