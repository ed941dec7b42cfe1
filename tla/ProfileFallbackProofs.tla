----------------------- MODULE ProfileFallbackProofs -----------------------
(* Proofs about ProfileFallback, for every value of its constants.         *)
EXTENDS ProfileFallback, TLAPS

(* A thread that will still write the latch, the reason or the profile     *)
(* after having restored the preferred profile.                            *)
Opening == {"restore", "armReason", "armDone"}

(* The latch counts the fallbacks of this window, and the daemon is about  *)
(* to set it only while it is open: no other thread ever sets it.          *)
LatchInv ==
  /\ fallbacks = IF done THEN 1 ELSE 0
  /\ pc["daemon"] \in {"checkLost", "checkMulti", "latchDone"} => ~done

(* A latch found in gPTP is on its way: the daemon has not written the     *)
(* profile yet, or some thread is on its way to opening the latch.         *)
LatchPending ==
  done /\ active = "gptp" =>
    \/ pc["daemon"] \in {"latchReason", "latchActive"}
    \/ \E t \in Threads : pc[t] \in Opening
    \/ pc["app"] = "prefer" /\ asked = "gptp"

(* The same for a reason found in gPTP.                                    *)
ReasonPending ==
  reason \in {EndpointTlv, NoAnswers, ManyResponders} /\ active = "gptp" =>
    \/ pc["daemon"] = "latchActive"
    \/ \E t \in Threads : pc[t] \in {"restore", "armReason"}
    \/ pc["app"] = "prefer" /\ asked = "gptp"

(* What every interleaving of the three threads keeps.                     *)
ThreadInv == TypeOK /\ LatchInv /\ LatchPending /\ ReasonPending /\ RestartNotForgotten

(* Every step of every thread keeps the invariant.                         *)
LEMMA ThreadStep == ThreadInv /\ [Next]_vars => ThreadInv'
<1> SUFFICES ASSUME ThreadInv, [Next]_vars PROVE ThreadInv'
  OBVIOUS
<1> USE FallbackAssumption
    DEF ThreadInv, TypeOK, LatchInv, LatchPending, ReasonPending, RestartNotForgotten,
        Profiles, Threads, ArmPlaces, Opening, Goto, evidence, history,
        NoReason, EndpointTlv, NoAnswers, ManyResponders, ByConfiguration
<1>1. ASSUME NEW t \in Threads, ArmRestore(t) PROVE ThreadInv'
  <2>1. TypeOK'
    <3>1. UNCHANGED <<preferred, done, reason, endpoint, lost, multi, restarted,
                      cause, asked, window, fallbacks>>
      BY <1>1 DEF ArmRestore
    <3>2. /\ DOMAIN pc' = Threads
          /\ \A u \in Threads : pc'[u] = IF u = t THEN "armReason" ELSE pc[u]
      BY <1>1 DEF ArmRestore
    <3>3. active' = preferred
      BY <1>1 DEF ArmRestore
    <3>4. owed' \in BOOLEAN
      BY <1>1 DEF ArmRestore
    <3> QED BY <3>1, <3>2, <3>3, <3>4
  <2>2. LatchInv' /\ RestartNotForgotten'
    BY <1>1 DEF ArmRestore
  <2>3. LatchPending'
    BY <1>1 DEF ArmRestore
  <2>4. ReasonPending'
    BY <1>1 DEF ArmRestore
  <2> QED BY <2>1, <2>2, <2>3, <2>4
<1>2. ASSUME NEW t \in Threads, ArmReason(t) PROVE ThreadInv'
  BY <1>2 DEF ArmReason, ptp_is_gptp, AfterArm
<1>3. ASSUME NEW t \in Threads, ArmDone(t) PROVE ThreadInv'
  <2>1. TypeOK'
    <3>1. done' = FALSE /\ window' \in Nat /\ fallbacks' \in Nat
      BY <1>3 DEF ArmDone
    <3>2. /\ DOMAIN pc' = Threads
          /\ \A u \in Threads : pc'[u] = IF u = t THEN "armEndpoint" ELSE pc[u]
      BY <1>3 DEF ArmDone
    <3>3. UNCHANGED <<active, preferred, reason, endpoint, lost, multi, restarted,
                      cause, asked, owed>>
      BY <1>3 DEF ArmDone
    <3>4. done' \in BOOLEAN
      BY <3>1
    <3> QED BY <3>1, <3>2, <3>3, <3>4
  <2>2. LatchInv' /\ RestartNotForgotten'
    BY <1>3 DEF ArmDone
  <2>3. LatchPending'
    BY <1>3 DEF ArmDone
  <2>4. ReasonPending'
    BY <1>3 DEF ArmDone
  <2> QED BY <2>1, <2>2, <2>3, <2>4
<1>4. ASSUME NEW t \in Threads, ArmEndpoint(t) PROVE ThreadInv'
  <2>1. TypeOK'
    <3>1. UNCHANGED <<active, preferred, done, reason, lost, multi, restarted,
                      cause, asked, owed, window, fallbacks>>
      BY <1>4 DEF ArmEndpoint
    <3>2. /\ DOMAIN pc' = Threads
          /\ \A u \in Threads : pc'[u] = IF u = t THEN "armLost" ELSE pc[u]
      BY <1>4 DEF ArmEndpoint
    <3>3. endpoint' = FALSE
      BY <1>4 DEF ArmEndpoint
    <3>4. endpoint' \in BOOLEAN
      BY <3>3
    <3> QED BY <3>1, <3>2, <3>3, <3>4
  <2>2. LatchInv' /\ RestartNotForgotten'
    BY <1>4 DEF ArmEndpoint
  <2>3. LatchPending'
    BY <1>4 DEF ArmEndpoint
  <2>4. ReasonPending'
    BY <1>4 DEF ArmEndpoint
  <2> QED BY <2>1, <2>2, <2>3, <2>4
<1>5. ASSUME NEW t \in Threads, ArmLost(t) PROVE ThreadInv'
  BY <1>5 DEF ArmLost
<1>6. ASSUME NEW t \in Threads, ArmMulti(t) PROVE ThreadInv'
  <2>1. TypeOK'
    <3>1. UNCHANGED <<active, preferred, done, reason, endpoint, lost, restarted,
                      cause, asked, owed, window, fallbacks>>
      BY <1>6 DEF ArmMulti
    <3>2. /\ DOMAIN pc' = Threads
          /\ \A u \in Threads : pc'[u] = IF u = t THEN AfterArm(t) ELSE pc[u]
      BY <1>6 DEF ArmMulti
    <3>3. multi' = FALSE
      BY <1>6 DEF ArmMulti
    <3>4. multi' \in BOOLEAN
      BY <3>3
    <3> QED BY <3>1, <3>2, <3>4 DEF AfterArm
  <2>2. LatchInv' /\ RestartNotForgotten'
    BY <1>6 DEF ArmMulti, AfterArm
  <2>3. LatchPending'
    BY <1>6 DEF ArmMulti, AfterArm
  <2>4. ReasonPending'
    BY <1>6 DEF ArmMulti, AfterArm
  <2> QED BY <2>1, <2>2, <2>3, <2>4
<1>7. CASE PassTop
  <2>1. TypeOK'
    <3>1. UNCHANGED <<active, preferred, done, reason, endpoint, lost, multi,
                      cause, asked, owed, window, fallbacks>>
      BY <1>7 DEF PassTop
    <3>2. /\ DOMAIN pc' = Threads
          /\ \A u \in Threads \ {"daemon"} : pc'[u] = pc[u]
          /\ pc'["daemon"] \in {"restore", "rx"}
      BY <1>7 DEF PassTop
    <3>3. restarted' = FALSE
      BY <1>7 DEF PassTop
    <3>4. restarted' \in BOOLEAN
      BY <3>3
    <3> QED BY <3>1, <3>2, <3>4
  <2>2. LatchInv'
    BY <1>7 DEF PassTop
  <2>3. RestartNotForgotten'
    BY <1>7 DEF PassTop
  <2>4. LatchPending'
    BY <1>7 DEF PassTop
  <2>5. ReasonPending'
    BY <1>7 DEF PassTop
  <2> QED BY <2>1, <2>2, <2>3, <2>4, <2>5
<1>8. CASE RxNothing
  BY <1>8 DEF RxNothing
<1>9. CASE RxEndpoint
  BY <1>9 DEF RxEndpoint, ptp_is_gptp
<1>10. CASE RxSecondResponder
  BY <1>10 DEF RxSecondResponder, ptp_is_gptp
<1>11. CASE RxAnswer
  BY <1>11 DEF RxAnswer, ptp_is_gptp
<1>12. CASE CheckEndpoint
  BY <1>12 DEF CheckEndpoint, ptp_is_gptp
<1>13. ASSUME NEW held \in BOOLEAN, CheckLost(held) PROVE ThreadInv'
  BY <1>13 DEF CheckLost
<1>14. CASE CheckMulti
  BY <1>14 DEF CheckMulti
<1>15. CASE LatchDone
  BY <1>15 DEF LatchDone
<1>16. CASE LatchReason
  BY <1>16 DEF LatchReason
<1>17. CASE LatchActive
  BY <1>17 DEF LatchActive
<1>18. CASE LinkUp
  BY <1>18 DEF LinkUp
<1>19. ASSUME NEW p \in Profiles, AppSet(p) PROVE ThreadInv'
  BY <1>19 DEF AppSet
<1>20. CASE AppPrefer
  BY <1>20 DEF AppPrefer
<1>21. CASE AppRestarted
  BY <1>21 DEF AppRestarted
<1>22. CASE Lose
  BY <1>22 DEF Lose, ptp_is_gptp
<1>23. CASE UNCHANGED vars
  BY <1>23 DEF vars
<1> QED
  BY <1>1, <1>2, <1>3, <1>4, <1>5, <1>6, <1>7, <1>8, <1>9, <1>10, <1>11, <1>12,
     <1>13, <1>14, <1>15, <1>16, <1>17, <1>18, <1>19, <1>20, <1>21, <1>22, <1>23
     DEF Next, Pass, Arm

(* The invariant of the three threads holds throughout.                    *)
LEMMA ThreadCorrect == Spec => []ThreadInv
<1>1. Init => ThreadInv
  <2> SUFFICES ASSUME Init PROVE ThreadInv
    OBVIOUS
  <2>1. TypeOK
    <3>1. /\ {done, endpoint, multi, restarted, owed} \subseteq BOOLEAN
          /\ {active, preferred, asked} \subseteq Profiles
      BY FallbackAssumption DEF Init
    <3>2. reason = 0 /\ lost = 0 /\ cause = 0 /\ window = 0 /\ fallbacks = 0
      BY DEF Init, NoReason
    <3>3. pc = [t \in Threads |-> IF t = "daemon" THEN "top" ELSE "idle"]
      BY DEF Init
    <3> QED BY <3>1, <3>2, <3>3, FallbackAssumption DEF TypeOK, Threads
  <2>2. ~done /\ ~owed /\ fallbacks = 0 /\ reason = 0
    BY DEF Init, NoReason
  <2> QED
    BY <2>1, <2>2 DEF ThreadInv, LatchInv, LatchPending, ReasonPending,
       RestartNotForgotten, EndpointTlv, NoAnswers, ManyResponders
<1> QED BY <1>1, ThreadStep, PTL DEF Spec

(* Latch, reason and profile agree whenever the three threads are at rest, *)
(* and a window sees at most one fallback, whatever the loss limit, the    *)
(* configuration and the number of windows.                                *)
THEOREM FallbackCorrect == Spec => []FallbackInv
<1>1. ThreadInv => FallbackInv
  BY DEF ThreadInv, LatchInv, LatchPending, ReasonPending, FallbackInv, TypeOK,
         OneFallbackPerWindow, LatchedMeansStandard, ReasonIsInEffect, AtRest,
         Opening, Threads, Profiles
<1> QED BY <1>1, ThreadCorrect, PTL

(* A restart of the receiver that the application reported is acted on     *)
(* later than the report, whatever it races with.                          *)
THEOREM RestartKept == Spec => []RestartNotForgotten
<1>1. ThreadInv => RestartNotForgotten
  BY DEF ThreadInv
<1> QED BY <1>1, ThreadCorrect, PTL
=============================================================================
