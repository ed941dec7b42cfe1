-------------------------- MODULE ProfileFallback --------------------------
(***************************************************************************)
(* The AVB Lite fallback of an endpoint port: gPTP is left for standard    *)
(* PTP when the peer-delay channel shows that no AVB bridge is there, and  *)
(* every link-up opens a fresh window in which gPTP is tried again.        *)
(*                                                                         *)
(* Three threads run the code, none of them under a lock for the profile:  *)
(*   daemon  collects the evidence, evaluates it once per pass, and re-arms *)
(*           when the application reported a restarted receiver;           *)
(*   event   the default event loop, which re-arms on every link-up;       *)
(*   app     ptpd_set_profile and ptpd_eth_rx_restarted.                   *)
(*                                                                         *)
(* ptp_arm_profile_fallback is the same code in all three, so its steps    *)
(* take the thread as a parameter.  The build is an AVB Lite endpoint and  *)
(* the port is not bridged; otherwise ptp_check_profile_fallback returns   *)
(* at once.  What a profile reset does to the timing state is in modules   *)
(* PeerExchange and SourceTiming; it touches nothing here.                 *)
(***************************************************************************)
EXTENDS Naturals

CONSTANTS
  LossLimit,    \* expired exchanges that mean nobody answers (9 in the code)
  Configured,   \* the profile the build starts in
  MaxWindows    \* bound: windows opened by link-up, restart or the application

Profiles == {"gptp", "standard"}
Threads == {"daemon", "event", "app"}

(* avb_lite_fallback_reason.                                                *)
NoReason == 0
EndpointTlv == 1
NoAnswers == 2
ManyResponders == 3
ByConfiguration == 4

ASSUME FallbackAssumption ==
  /\ LossLimit \in Nat \ {0}
  /\ Configured \in Profiles
  /\ MaxWindows \in Nat

VARIABLES
  active,            \* active_ptp_profile
  preferred,         \* preferred_ptp_profile
  done,              \* gptp_fallback_done
  reason,            \* avb_lite_fallback_reason
  endpoint,          \* peer_is_endpoint
  lost,              \* peer_exchange.lost_responses
  multi,             \* pdelay_multi_responder
  restarted,         \* s_eth_rx_restarted
  pc,                \* where each thread stands
  cause,             \* the daemon's verdict while it latches it
  asked,             \* the argument of the last ptpd_set_profile
  owed,              \* history: a restart that no re-arming has followed yet
  window,            \* history: how many windows were opened
  fallbacks          \* history: fallbacks latched in this window

vars == <<active, preferred, done, reason, endpoint, lost, multi, restarted, pc,
          cause, asked, owed, window, fallbacks>>

evidence == <<endpoint, lost, multi>>
history == <<asked, owed, window, fallbacks>>

ptp_is_gptp == active = "gptp"

Goto(t, place) == pc' = [pc EXCEPT ![t] = place]

(* Where a thread goes on once it has re-armed.                             *)
AfterArm(t) == IF t = "daemon" THEN "rx" ELSE "idle"

Init ==
  /\ active = Configured
  /\ preferred = Configured
  /\ done = FALSE
  /\ reason = NoReason
  /\ endpoint = FALSE
  /\ lost = 0
  /\ multi = FALSE
  /\ restarted = FALSE
  /\ pc = [t \in Threads |-> IF t = "daemon" THEN "top" ELSE "idle"]
  /\ cause = NoReason
  /\ asked = Configured
  /\ owed = FALSE
  /\ window = 0
  /\ fallbacks = 0

-----------------------------------------------------------------------------
(* ptp_arm_profile_fallback.                                                *)

(* The configured profile comes back.                                       *)
ArmRestore(t) ==
  /\ pc[t] = "restore"
  /\ active' = preferred
  /\ owed' = IF t = "daemon" THEN FALSE ELSE owed
  /\ Goto(t, "armReason")
  /\ UNCHANGED <<preferred, done, reason, evidence, restarted, cause, asked,
                 window, fallbacks>>

(* A standard configuration has nothing to fall back from.                  *)
ArmReason(t) ==
  /\ pc[t] = "armReason"
  /\ reason' = IF ptp_is_gptp THEN NoReason ELSE ByConfiguration
  /\ Goto(t, IF ptp_is_gptp THEN "armDone" ELSE AfterArm(t))
  /\ UNCHANGED <<active, preferred, done, evidence, restarted, cause, history>>

(* Mutant: the latch of the last window stays.                              *)
ArmDone_KeepsLatch(t) ==
  /\ pc[t] = "armDone"
  /\ window' = window + 1
  /\ fallbacks' = 0
  /\ Goto(t, "armEndpoint")
  /\ UNCHANGED <<active, preferred, done, reason, evidence, restarted, cause, asked,
                 owed>>

(* The latch opens.                                                         *)
ArmDone(t) ==
  /\ pc[t] = "armDone"
  /\ done' = FALSE
  /\ window' = window + 1
  /\ fallbacks' = 0
  /\ Goto(t, "armEndpoint")
  /\ UNCHANGED <<active, preferred, reason, evidence, restarted, cause, asked,
                 owed>>

ArmEndpoint(t) ==
  /\ pc[t] = "armEndpoint"
  /\ endpoint' = FALSE
  /\ Goto(t, "armLost")
  /\ UNCHANGED <<active, preferred, done, reason, lost, multi, restarted, cause,
                 history>>

ArmLost(t) ==
  /\ pc[t] = "armLost"
  /\ lost' = 0
  /\ Goto(t, "armMulti")
  /\ UNCHANGED <<active, preferred, done, reason, endpoint, multi, restarted,
                 cause, history>>

(* Mutant: the restart report is cleared after the re-arming it asked for.  *)
ArmMulti_ClearsReport(t) ==
  /\ pc[t] = "armMulti"
  /\ multi' = FALSE
  /\ restarted' = FALSE
  /\ Goto(t, AfterArm(t))
  /\ UNCHANGED <<active, preferred, done, reason, endpoint, lost, cause, history>>

ArmMulti(t) ==
  /\ pc[t] = "armMulti"
  /\ multi' = FALSE
  /\ Goto(t, AfterArm(t))
  /\ UNCHANGED <<active, preferred, done, reason, endpoint, lost, restarted,
                 cause, history>>

Arm(t) ==
  \/ ArmRestore(t) \/ ArmReason(t) \/ ArmDone(t)
  \/ ArmEndpoint(t) \/ ArmLost(t) \/ ArmMulti(t)

-----------------------------------------------------------------------------
(* The daemon's pass.                                                       *)

(* A reported receiver restart is cleared before it is acted on.            *)
PassTop ==
  /\ pc["daemon"] = "top"
  /\ restarted' = FALSE
  /\ Goto("daemon", IF restarted THEN "restore" ELSE "rx")
  /\ UNCHANGED <<active, preferred, done, reason, evidence, cause, history>>

(* poll() returned with nothing that matters here.                          *)
RxNothing ==
  /\ pc["daemon"] = "rx"
  /\ Goto("daemon", "check")
  /\ UNCHANGED <<active, preferred, done, reason, evidence, restarted, cause,
                 history>>

(* A peer-delay message that carries the Endpoint Declaration TLV.          *)
RxEndpoint ==
  /\ pc["daemon"] = "rx" /\ ptp_is_gptp
  /\ endpoint' = TRUE
  /\ Goto("daemon", "check")
  /\ UNCHANGED <<active, preferred, done, reason, lost, multi, restarted, cause,
                 history>>

(* A second responder answers the same request.                             *)
RxSecondResponder ==
  /\ pc["daemon"] = "rx" /\ ptp_is_gptp
  /\ multi' = TRUE
  /\ Goto("daemon", "check")
  /\ UNCHANGED <<active, preferred, done, reason, endpoint, lost, restarted, cause,
                 history>>

(* A completed exchange clears the losses (ptp_peer_finish).                *)
RxAnswer ==
  /\ pc["daemon"] = "rx" /\ ptp_is_gptp
  /\ lost' = 0
  /\ Goto("daemon", "check")
  /\ UNCHANGED <<active, preferred, done, reason, endpoint, multi, restarted, cause,
                 history>>

(* Mutant: the declaration of an endpoint peer counts only after losses.    *)
CheckEndpoint_NeedsLosses ==
  /\ pc["daemon"] = "check"
  /\ IF ~ptp_is_gptp \/ done
     THEN Goto("daemon", "top") /\ UNCHANGED cause
     ELSE IF endpoint /\ lost > 0
          THEN Goto("daemon", "latchDone") /\ cause' = EndpointTlv
          ELSE Goto("daemon", "checkLost") /\ UNCHANGED cause
  /\ UNCHANGED <<active, preferred, done, reason, evidence, restarted, asked, owed,
                 window, fallbacks>>

(* ptp_check_profile_fallback up to the first condition.                    *)
CheckEndpoint ==
  /\ pc["daemon"] = "check"
  /\ IF ~ptp_is_gptp \/ done
     THEN Goto("daemon", "top") /\ UNCHANGED cause
     ELSE IF endpoint
          THEN Goto("daemon", "latchDone") /\ cause' = EndpointTlv
          ELSE Goto("daemon", "checkLost") /\ UNCHANGED cause
  /\ UNCHANGED <<active, preferred, done, reason, evidence, restarted, asked, owed,
                 window, fallbacks>>

(* Nine expired exchanges; while our own receiver drops frames the fallback *)
(* waits (held).                                                            *)
CheckLost(held) ==
  /\ pc["daemon"] = "checkLost"
  /\ IF lost < LossLimit
     THEN Goto("daemon", "checkMulti") /\ UNCHANGED cause
     ELSE IF held
          THEN Goto("daemon", "top") /\ UNCHANGED cause
          ELSE Goto("daemon", "latchDone") /\ cause' = NoAnswers
  /\ UNCHANGED <<active, preferred, done, reason, evidence, restarted, asked, owed,
                 window, fallbacks>>

CheckMulti ==
  /\ pc["daemon"] = "checkMulti"
  /\ IF multi
     THEN Goto("daemon", "latchDone") /\ cause' = ManyResponders
     ELSE Goto("daemon", "top") /\ UNCHANGED cause
  /\ UNCHANGED <<active, preferred, done, reason, evidence, restarted, asked, owed,
                 window, fallbacks>>

(* The three writes of a fallback, in the order of the code.                *)
LatchDone ==
  /\ pc["daemon"] = "latchDone"
  /\ done' = TRUE
  /\ fallbacks' = fallbacks + 1
  /\ Goto("daemon", "latchReason")
  /\ UNCHANGED <<active, preferred, reason, evidence, restarted, cause, asked, owed,
                 window>>

LatchReason ==
  /\ pc["daemon"] = "latchReason"
  /\ reason' = cause
  /\ cause' = NoReason
  /\ Goto("daemon", "latchActive")
  /\ UNCHANGED <<active, preferred, done, evidence, restarted, history>>

LatchActive ==
  /\ pc["daemon"] = "latchActive"
  /\ active' = "standard"
  /\ Goto("daemon", "top")
  /\ UNCHANGED <<preferred, done, reason, evidence, restarted, cause, asked, owed,
                 window, fallbacks>>

-----------------------------------------------------------------------------
(* The other threads.                                                       *)

(* ETHERNET_EVENT_CONNECTED.                                                *)
LinkUp ==
  /\ pc["event"] = "idle" /\ window < MaxWindows
  /\ Goto("event", "restore")
  /\ UNCHANGED <<active, preferred, done, reason, evidence, restarted, cause,
                 history>>

(* ptpd_set_profile(p): nothing happens when p is already active.           *)
AppSet(p) ==
  /\ pc["app"] = "idle" /\ window < MaxWindows
  /\ asked' = p
  /\ IF active = p
     THEN UNCHANGED <<active, pc>>
     ELSE active' = p /\ Goto("app", "prefer")
  /\ UNCHANGED <<preferred, done, reason, evidence, restarted, cause, owed, window,
                 fallbacks>>

AppPrefer ==
  /\ pc["app"] = "prefer"
  /\ preferred' = asked
  /\ Goto("app", IF asked = "gptp" THEN "restore" ELSE "idle")
  /\ UNCHANGED <<active, done, reason, evidence, restarted, cause, history>>

(* ptpd_eth_rx_restarted.                                                   *)
AppRestarted ==
  /\ window < MaxWindows
  /\ restarted' = TRUE
  /\ owed' = TRUE
  /\ UNCHANGED <<active, preferred, done, reason, evidence, pc, cause, asked, window,
                 fallbacks>>

(* A published request expires; the request timer may notice it as well as  *)
(* the daemon.                                                              *)
Lose ==
  /\ ptp_is_gptp /\ lost < LossLimit
  /\ lost' = lost + 1
  /\ UNCHANGED <<active, preferred, done, reason, endpoint, multi, restarted, pc,
                 cause, history>>

-----------------------------------------------------------------------------
Pass ==
  \/ PassTop
  \/ RxNothing \/ RxEndpoint \/ RxSecondResponder \/ RxAnswer
  \/ CheckEndpoint
  \/ \E held \in BOOLEAN : CheckLost(held)
  \/ CheckMulti
  \/ LatchDone \/ LatchReason \/ LatchActive
  \/ Arm("daemon")

Next ==
  \/ Pass
  \/ LinkUp \/ Arm("event")
  \/ \E p \in Profiles : AppSet(p)
  \/ AppPrefer \/ AppRestarted \/ Arm("app")
  \/ Lose

Spec == Init /\ [][Next]_vars

(* The daemon's pass has a bounded poll(); a thread that began an operation *)
(* finishes it.  Inputs need not come.                                      *)
FairSpec ==
  /\ Spec
  /\ WF_vars(Pass)
  /\ WF_vars(Arm("event"))
  /\ WF_vars(Arm("app") \/ AppPrefer)

-----------------------------------------------------------------------------
ArmPlaces == {"restore", "armReason", "armDone", "armEndpoint", "armLost", "armMulti"}

(* Every variable keeps its shape, and each thread inside                  *)
(* ptp_arm_profile_fallback is at one of its writes.                       *)
TypeOK ==
  /\ active \in Profiles
  /\ preferred \in Profiles
  /\ done \in BOOLEAN
  /\ reason \in 0..4
  /\ endpoint \in BOOLEAN
  /\ lost \in 0..LossLimit
  /\ multi \in BOOLEAN
  /\ restarted \in BOOLEAN
  /\ DOMAIN pc = Threads
  /\ pc["daemon"] \in ArmPlaces \cup {"top", "rx", "check", "checkLost", "checkMulti",
                                     "latchDone", "latchReason", "latchActive"}
  /\ pc["event"] \in ArmPlaces \cup {"idle"}
  /\ pc["app"] \in ArmPlaces \cup {"idle", "prefer"}
  /\ cause \in 0..3
  /\ asked \in Profiles
  /\ owed \in BOOLEAN
  /\ window \in Nat
  /\ fallbacks \in Nat

AtRest == pc["daemon"] = "top" /\ pc["event"] = "idle" /\ pc["app"] = "idle"

(* At most one fallback is latched in a window: the latch holds against     *)
(* every interleaving with the threads that clear it                        *)
(* (ptp_check_profile_fallback).                                            *)
OneFallbackPerWindow == fallbacks <= 1

(* When no thread is busy, a latched fallback means that standard PTP runs; *)
(* a latch left behind in gPTP would switch the evaluation off for good.    *)
LatchedMeansStandard == AtRest /\ done => active = "standard"

(* When no thread is busy, a reported fallback condition did move the port  *)
(* (what ptpd_status reports in avb_lite_fallback_reason).                  *)
ReasonIsInEffect ==
  AtRest /\ reason \in {EndpointTlv, NoAnswers, ManyResponders} => active = "standard"

(* The unlocked writes of three threads leave latch, reason and profile in  *)
(* agreement (ptp_arm_profile_fallback against                              *)
(* ptp_check_profile_fallback).                                             *)
FallbackInv == TypeOK /\ OneFallbackPerWindow /\ LatchedMeansStandard /\ ReasonIsInEffect

(* A receiver restart is never forgotten, whatever it races with: the       *)
(* daemon still has to see the report or is about to re-arm.                *)
RestartNotForgotten == owed => restarted \/ pc["daemon"] = "restore"

(* In gPTP a declared endpoint peer is acted on: the port falls back, or a  *)
(* new window forgets the declaration.                                      *)
EndpointActedOn == (active = "gptp" /\ endpoint) ~> (active = "standard" \/ ~endpoint)
=============================================================================
