------------------------- MODULE PeerExchangeProofs -------------------------
(* Proofs about PeerExchange, for every value of its constants.            *)
EXTENDS PeerExchange, FiniteSetTheorems, TLAPS

(* The operations of ptp_peer_exchange.h return exchange records.          *)
LEMMA ExchangeTypes ==
  ASSUME NEW e \in Exchanges, now \in Nat
  PROVE  /\ Zeroed \in Exchanges
         /\ ptp_peer_invalidate(e) \in Exchanges
         /\ ptp_peer_abandon(e) \in Exchanges
         /\ ptp_peer_expire(e) \in Exchanges
         /\ \A s, d \in Nat : ptp_peer_begin(e, s, d) \in Exchanges
         /\ \A t \in Stamps : ptp_peer_publish(e, t) \in Exchanges
         /\ \A g \in Nat : ptp_peer_cancel(e, g) \in Exchanges
         /\ \A f \in Frames : ptp_peer_response(e, f) \in Exchanges
         /\ \A f \in Frames : ptp_peer_finish(e, f) \in Exchanges
<1>0. NoStamp \in Stamps /\ NoFrame \in Frames
  BY DEF NoStamp, Stamps, NoFrame, Frames, ResponderIds
<1>a. /\ e.generation + 1 \in Nat /\ e.lifecycle + 1 \in Nat
      /\ e.lost_responses + 1 \in Nat
      /\ e.lifecycle \in Nat /\ e.lost_responses \in Nat
  BY DEF Exchanges
<1>1. Zeroed \in Exchanges
  BY <1>0 DEF Zeroed, Exchanges
<1>2. ptp_peer_invalidate(e) \in Exchanges
  BY <1>1, <1>a DEF ptp_peer_invalidate, Exchanges
<1>3. ptp_peer_abandon(e) \in Exchanges
  BY <1>2, <1>a DEF ptp_peer_abandon, Exchanges
<1>4. ptp_peer_expire(e) \in Exchanges
  BY <1>a DEF ptp_peer_expire, Exchanges
<1>5. \A s, d \in Nat : ptp_peer_begin(e, s, d) \in Exchanges
  BY <1>3 DEF ptp_peer_begin, Exchanges
<1>6. \A t \in Stamps : ptp_peer_publish(e, t) \in Exchanges
  BY DEF ptp_peer_publish, Exchanges
<1>7. \A g \in Nat : ptp_peer_cancel(e, g) \in Exchanges
  BY DEF ptp_peer_cancel, Exchanges
<1>8. \A f \in Frames : ptp_peer_response(e, f) \in Exchanges
  BY DEF ptp_peer_response, Exchanges
<1>9. \A f \in Frames : ptp_peer_finish(e, f) \in Exchanges
  <2> SUFFICES ASSUME NEW f \in Frames PROVE ptp_peer_finish(e, f) \in Exchanges
    OBVIOUS
  <2>1. \/ ptp_peer_finish(e, f) = e
        \/ ptp_peer_finish(e, f) = [e EXCEPT !.multiple = TRUE]
        \/ ptp_peer_finish(e, f) = [e EXCEPT !.follow_up_pending = TRUE,
                                             !.pending_follow_up = f]
        \/ ptp_peer_finish(e, f) = [e EXCEPT !.consumed = TRUE,
                                             !.lost_responses = 0]
    BY DEF ptp_peer_finish, FollowUpAccepted
  <2>2. /\ [e EXCEPT !.multiple = TRUE] \in Exchanges
        /\ [e EXCEPT !.follow_up_pending = TRUE,
                     !.pending_follow_up = f] \in Exchanges
    BY DEF Exchanges
  <2>3. [e EXCEPT !.consumed = TRUE, !.lost_responses = 0] \in Exchanges
    BY DEF Exchanges
  <2> QED BY <2>1, <2>2, <2>3
<1> QED BY <1>1, <1>2, <1>3, <1>4, <1>5, <1>6, <1>7, <1>8, <1>9

(* ptp_peer_rate_update returns a rate record.                             *)
LEMMA RateTypes ==
  ASSUME NEW r \in Rates, NEW l \in Nat, NEW p \in ResponderIds, NEW c \in Nat,
         NEW s \in BOOLEAN, NEW i \in BOOLEAN
  PROVE  /\ ZeroRate \in Rates
         /\ [r EXCEPT !.reanchor = TRUE] \in Rates
         /\ ptp_peer_rate_update(r, l, p, c, s, i) \in Rates
         /\ SameNeighbor(ptp_peer_rate_update(r, l, p, c, s, i), l, p)
<1>1. ZeroRate \in Rates
  BY DEF ZeroRate, Rates, ResponderIds
<1>2. [r EXCEPT !.reanchor = TRUE] \in Rates
  BY DEF Rates
<1> DEFINE b == RateBase(r, l, p)
           a == Anchored(b, c)
<1>3. b \in Rates /\ SameNeighbor(b, l, p)
  BY <1>1 DEF RateBase, Rates, SameNeighbor
<1> HIDE DEF b
<1>4. a \in Rates /\ SameNeighbor(a, l, p) /\ a.outliers = b.outliers
  BY <1>3 DEF Anchored, Rates, SameNeighbor
<1> HIDE DEF a
<1>5. ptp_peer_rate_update(r, l, p, c, s, i) =
        CASE b.reanchor -> a
          [] ~b.reanchor /\ KeepsRatio(b, s, i) -> [a EXCEPT !.outliers = @ + 1]
          [] OTHER -> [a EXCEPT !.outliers = 0, !.valid = b.anchored /\ s /\ i]
  BY DEF ptp_peer_rate_update, a, b
<1>6. ASSUME b.outliers < 3
      PROVE  /\ [a EXCEPT !.outliers = @ + 1] \in Rates
             /\ SameNeighbor([a EXCEPT !.outliers = @ + 1], l, p)
  <2>1. a.outliers + 1 \in 0..3
    BY <1>3, <1>4, <1>6 DEF Rates
  <2> QED BY <2>1, <1>4 DEF Rates, SameNeighbor
<1>7. ASSUME NEW v \in BOOLEAN
      PROVE  /\ [a EXCEPT !.outliers = 0, !.valid = v] \in Rates
             /\ SameNeighbor([a EXCEPT !.outliers = 0, !.valid = v], l, p)
  <2>1. 0 \in 0..3
    OBVIOUS
  <2> QED BY <2>1, <1>4 DEF Rates, SameNeighbor
<1>9. (b.anchored /\ s /\ i) \in BOOLEAN
  OBVIOUS
<1>8. KeepsRatio(b, s, i) => b.outliers < 3
  BY DEF KeepsRatio, PTP_PEER_RATE_OUTLIERS_MAX
<1> QED BY <1>1, <1>2, <1>4, <1>5, <1>6, <1>7, <1>8, <1>9

(* The new anchor is the receive stamp of this measurement.                *)
LEMMA RateLocal ==
  ASSUME NEW r \in Rates, NEW l \in Nat, NEW p \in ResponderIds, NEW c, NEW s, NEW i
  PROVE  ptp_peer_rate_update(r, l, p, c, s, i).local = c
<1> DEFINE b == RateBase(r, l, p)
           a == Anchored(b, c)
<1>1. ZeroRate \in Rates
  BY DEF ZeroRate, Rates, ResponderIds
<1>2. b \in Rates
  BY <1>1 DEF RateBase, Rates
<1> HIDE DEF b
<1>3. a = [b EXCEPT !.reanchor = FALSE, !.anchored = TRUE, !.local = c]
  BY DEF Anchored
<1>4. DOMAIN b = {"lifecycle", "responder", "anchored", "valid", "reanchor",
                  "local", "outliers"}
  BY <1>2 DEF Rates
<1>5. a.local = c /\ DOMAIN a = DOMAIN b
  BY <1>3, <1>4
<1> HIDE DEF a
<1>6. ptp_peer_rate_update(r, l, p, c, s, i) =
        CASE b.reanchor -> a
          [] ~b.reanchor /\ KeepsRatio(b, s, i) -> [a EXCEPT !.outliers = @ + 1]
          [] OTHER -> [a EXCEPT !.outliers = 0, !.valid = b.anchored /\ s /\ i]
  BY DEF ptp_peer_rate_update, a, b
<1> QED BY <1>4, <1>5, <1>6

(* The bounds are natural numbers.                                         *)
LEMMA BoundTypes ==
  /\ MaxNow \in Nat
  /\ MaxRequests \in Nat \ {0}
  /\ MaxLinkChanges \in Nat
  /\ MaxSteps \in Nat
  /\ MaxResets \in Nat
BY BoundAssumption

(* Constants and records that hold no state.                               *)
LEMMA ConstantTypes ==
  /\ NoStamp \in Stamps
  /\ NoFrame \in Frames
  /\ IdleDaemon \in DaemonStates
  /\ Unsent \in Nat /\ Epochs \subseteq 0..Unsent /\ Epochs \subseteq Nat
  /\ GptpInterval \in Nat /\ StandardInterval \in Nat
  /\ NegotiatedIntervals \subseteq Nat
<1>1. NoStamp \in Stamps /\ NoFrame \in Frames
  BY DEF NoStamp, Stamps, NoFrame, Frames, ResponderIds
<1>2. ZeroRate \in Rates
  BY DEF ZeroRate, Rates, ResponderIds
<1>3. IdleDaemon \in DaemonStates
  BY <1>1, <1>2 DEF IdleDaemon, DaemonStates
<1> QED BY <1>1, <1>3, BoundTypes, IntervalAssumption DEF Unsent, Epochs

(* The initial state has the types.                                        *)
LEMMA InitType == Init => TypeOK
<1> SUFFICES ASSUME Init PROVE TypeOK
  OBVIOUS
<1>1. now \in Nat /\ delay_req_seq \in 0..MaxRequests /\ epoch \in Epochs
  <2>1. 0 \in 0..MaxRequests /\ 0 \in Epochs
    BY BoundTypes DEF Epochs
  <2> QED BY <2>1 DEF Init
<1>2. Zeroed \in Exchanges
  BY ConstantTypes DEF Zeroed, Exchanges
<1>3. exchange \in Exchanges
  BY <1>1, <1>2, ExchangeTypes DEF Init
<1>4. rate \in Rates
  <2>1. ZeroRate \in Rates
    BY DEF ZeroRate, Rates, ResponderIds
  <2> QED BY <2>1 DEF Init, Rates
<1>5. capability \in Capabilities
  BY DEF Init, Capabilities
<1>6. timer \in TimerStates /\ daemon \in DaemonStates
  BY ConstantTypes DEF Init, TimerStates
<1>7. link \in LinkStates /\ reset \in ResetStates
  <2>1. link = [pc |-> "idle", target |-> FALSE, changes |-> MaxLinkChanges]
    BY DEF Init
  <2>2. reset = [pc |-> "idle", resets |-> MaxResets]
    BY DEF Init
  <2>3. link \in LinkStates
    BY <2>1, BoundTypes DEF LinkStates
  <2>4. reset \in ResetStates
    BY <2>2, BoundTypes DEF ResetStates
  <2> QED BY <2>3, <2>4
<1>8. departed \in [Requests -> 0..Unsent] /\ begun \in [Requests -> Nat]
  <2>1. Unsent \in 0..Unsent
    BY ConstantTypes
  <2> QED BY <2>1 DEF Init
<1> QED BY <1>1, <1>3, <1>4, <1>5, <1>6, <1>7, <1>8 DEF Init, TypeOK

(* A step of Next or a stuttering step is one of these.                    *)
LEMMA NextCases ==
  ASSUME [Next]_vars
  PROVE  \/ TimerBegin
         \/ TimerStandard
         \/ TimerSend
         \/ TimerPublish
         \/ DaemonResponse
         \/ DaemonFollowUp
         \/ DaemonTake
         \/ DaemonReplay
         \/ DaemonOutOfRange
         \/ DaemonApply
         \/ DaemonExpire
         \/ DaemonStep
         \/ DaemonClean
         \/ DaemonArm
         \/ DaemonStandard
         \/ DaemonNegotiate
         \/ LinkInvalidate
         \/ LinkSet
         \/ LinkRepeat
         \/ LinkArm
         \/ ResetProfile
         \/ ResetDelay
         \/ ResetClean
         \/ ResetInterval
         \/ ResetArm
         \/ Tick
         \/ UNCHANGED vars
BY DEF Next, TimerNext, DaemonNext, LinkNext, ResetNext

(* The frames that may arrive are frames of known responders.              *)
LEMMA ArrivalTypes ==
  ASSUME TypeOK, NEW f \in Arrivals
  PROVE  /\ f \in Frames
         /\ f.source \in Responders
         /\ f.sequence \in Requests
         /\ departed[f.sequence] <= f.epoch /\ f.epoch <= epoch
<1>1. Requests \subseteq Nat /\ Epochs \subseteq Nat /\ Responders \subseteq ResponderIds
  BY ConstantTypes, BoundTypes DEF Requests, ResponderIds
<1>2. f \in [sequence : Requests, source : Responders, epoch : Epochs,
            wellformed : BOOLEAN]
      /\ departed[f.sequence] <= f.epoch /\ f.epoch <= epoch
  BY DEF Arrivals
<1>3. f \in Frames
  BY <1>1, <1>2 DEF Frames
<1> QED BY <1>2, <1>3

(* The first critical section of the follow-up handler keeps the types.    *)
LEMMA FinishTypes ==
  ASSUME TypeOK, NEW f \in Frames, Finish(f)
  PROVE  /\ exchange' \in Exchanges
         /\ capability' \in Capabilities
         /\ daemon' \in DaemonStates
         /\ measured' \subseteq Nat
<1>1. exchange' \in Exchanges
  BY ExchangeTypes DEF TypeOK, Finish
<1>2. capability' \in Capabilities
  <2>1. capability' = [capability EXCEPT !.qualified = @ /\ ~exchange'.multiple]
    BY DEF Finish, Disqualify
  <2>2. (capability.qualified /\ ~exchange'.multiple) \in BOOLEAN
    OBVIOUS
  <2> QED BY <2>1, <2>2 DEF TypeOK, Capabilities
<1>3. CASE FollowUpAccepted(exchange, f)
  <2>1. daemon' = [pc |-> "compute", generation |-> exchange.generation,
                   lifecycle |-> exchange.lifecycle,
                   transmit |-> exchange.transmit,
                   response |-> exchange.response,
                   follow_up |-> f, rate |-> rate]
        /\ measured' = measured \cup {exchange.sequence}
    BY <1>3 DEF Finish
  <2>2. /\ exchange.generation \in Nat /\ exchange.lifecycle \in Nat
        /\ exchange.sequence \in Nat
        /\ exchange.transmit \in Stamps /\ exchange.response \in Frames
        /\ rate \in Rates
    BY DEF TypeOK, Exchanges
  <2>3. daemon' \in DaemonStates
    BY <2>1, <2>2 DEF DaemonStates
  <2> QED BY <1>1, <1>2, <2>1, <2>2, <2>3 DEF TypeOK
<1>4. CASE ~FollowUpAccepted(exchange, f)
  BY <1>1, <1>2, <1>4, ConstantTypes DEF Finish, TypeOK
<1> QED BY <1>3, <1>4

(* Every step keeps the types.                                             *)
LEMMA NextType == TypeOK /\ [Next]_vars => TypeOK'
<1> SUFFICES ASSUME TypeOK, [Next]_vars PROVE TypeOK'
  OBVIOUS
<1>a. exchange \in Exchanges /\ now \in Nat /\ interval \in Nat /\ epoch \in Nat
  BY ConstantTypes DEF TypeOK
<1>1. CASE TimerBegin
  <2>1. delay_req_seq + 1 \in 0..MaxRequests /\ delay_req_seq + 1 \in Nat
        /\ now + interval \in Nat
    <3>1. delay_req_seq \in 0..MaxRequests /\ delay_req_seq < MaxRequests
      BY <1>1 DEF TimerBegin, TypeOK
    <3> QED BY <1>a, <3>1, BoundTypes
  <2>2. exchange.generation + 1 \in Nat /\ exchange.sequence \in Nat
    BY <1>a DEF Exchanges
  <2>3. exchange' \in Exchanges
    <3>1. ptp_peer_expire(exchange) \in Exchanges
      BY <1>a, ExchangeTypes
    <3> QED BY <1>1, <1>a, <2>1, <3>1, ExchangeTypes DEF TimerBegin
  <2>4. timer' \in TimerStates
    BY <1>1, <2>1, <2>2 DEF TimerBegin, TypeOK, TimerStates
  <2>5. begun' \in [Requests -> Nat]
    BY <1>1 DEF TimerBegin, TypeOK, LinkStates
  <2>6. lost' \subseteq Nat
    BY <1>1, <2>2 DEF TimerBegin, TypeOK
  <2> QED BY <1>1, <2>1, <2>3, <2>4, <2>5, <2>6 DEF TimerBegin, TypeOK
<1>2. CASE TimerStandard
  <2>1. delay_req_seq' \in 0..MaxRequests /\ now + interval \in Nat
    <3>1. /\ delay_req_seq \in 0..MaxRequests
          /\ delay_req_seq' \in {delay_req_seq, delay_req_seq + 1}
          /\ delay_req_seq' <= MaxRequests
      BY <1>2 DEF TimerStandard, TypeOK
    <3> QED BY <1>a, <3>1, BoundTypes
  <2>2. timer' \in TimerStates
    BY <1>2, <2>1 DEF TimerStandard, TypeOK, TimerStates
  <2> QED BY <1>2, <2>1, <2>2 DEF TimerStandard, TypeOK
<1>3. CASE TimerSend
  <2> PICK onwire \in BOOLEAN, stamped \in BOOLEAN :
       /\ departed' = IF onwire THEN [departed EXCEPT ![timer.sequence] = epoch]
                                ELSE departed
       /\ timer' = [timer EXCEPT
                      !.pc = "publish", !.sent = stamped,
                      !.stamp = [request |-> timer.sequence, epoch |-> epoch]]
    BY <1>3 DEF TimerSend
  <2>1. [request |-> timer.sequence, epoch |-> epoch] \in Stamps
    BY <1>a DEF TypeOK, TimerStates, Stamps
  <2>2. timer' \in TimerStates
    BY <2>1 DEF TypeOK, TimerStates
  <2>3. departed' \in [Requests -> 0..Unsent]
    BY ConstantTypes DEF TypeOK
  <2> QED BY <1>3, <2>2, <2>3 DEF TimerSend, TypeOK
<1>4. CASE TimerPublish
  <2>1. timer.stamp \in Stamps /\ timer.generation \in Nat /\ now + interval \in Nat
    BY <1>a DEF TypeOK, TimerStates
  <2>2. exchange' \in Exchanges
    BY <1>4, <1>a, <2>1, ExchangeTypes DEF TimerPublish
  <2>3. timer' \in TimerStates
    BY <1>4, <2>1, ConstantTypes DEF TimerPublish, TypeOK, TimerStates
  <2> QED BY <1>4, <2>2, <2>3 DEF TimerPublish, TypeOK
<1>5. CASE DaemonResponse
  <2> PICK f \in Arrivals : exchange' = ptp_peer_response(exchange, f)
    BY <1>5 DEF DaemonResponse
  <2>1. exchange' \in Exchanges
    BY <1>a, ArrivalTypes, ExchangeTypes
  <2>2. capability' \in Capabilities
    <3>1. capability' = [capability EXCEPT !.qualified = @ /\ ~exchange'.multiple]
      BY <1>5 DEF DaemonResponse, Disqualify
    <3>2. (capability.qualified /\ ~exchange'.multiple) \in BOOLEAN
      OBVIOUS
    <3> QED BY <3>1, <3>2 DEF TypeOK, Capabilities
  <2>3. pdelay_multi_responder' \in BOOLEAN
    BY <1>5 DEF DaemonResponse
  <2> QED BY <1>5, <2>1, <2>2, <2>3 DEF DaemonResponse, TypeOK
<1>6. CASE DaemonFollowUp
  <2> PICK f \in Arrivals : Finish(f)
    BY <1>6 DEF DaemonFollowUp
  <2> QED BY <1>6, ArrivalTypes, FinishTypes DEF DaemonFollowUp, TypeOK
<1>7. CASE DaemonTake
  <2>1. exchange' \in Exchanges
    BY <1>7, <1>a DEF DaemonTake, Exchanges
  <2>2. exchange.generation \in Nat /\ exchange.pending_follow_up \in Frames
    BY <1>a DEF Exchanges
  <2>3. daemon' \in DaemonStates
    BY <1>7, <2>2, ConstantTypes DEF DaemonTake, DaemonStates
  <2> QED BY <1>7, <2>1, <2>3 DEF DaemonTake, TypeOK
<1>8. CASE DaemonReplay
  <2>1. daemon.follow_up \in Frames
    BY DEF TypeOK, DaemonStates
  <2>2. CASE gptp /\ exchange.generation = daemon.generation
    <3>1. Finish(daemon.follow_up)
      BY <1>8, <2>2 DEF DaemonReplay
    <3> QED BY <1>8, <2>1, <3>1, FinishTypes DEF DaemonReplay, TypeOK
  <2>3. CASE ~(gptp /\ exchange.generation = daemon.generation)
    BY <1>8, <2>3, ConstantTypes DEF DaemonReplay, TypeOK
  <2> QED BY <2>2, <2>3
<1>9. CASE DaemonOutOfRange
  BY <1>9, ConstantTypes DEF DaemonOutOfRange, TypeOK
<1>10. CASE DaemonApply
  <2>1. CASE Current
    <3> PICK ls \in BOOLEAN, ir \in BOOLEAN, dk \in BOOLEAN, sd \in BOOLEAN :
          Store(Computed(ls, ir), Computed(ls, ir).valid /\ dk, sd)
      BY <1>10, <2>1 DEF DaemonApply
    <3>1. /\ daemon.rate \in Rates /\ daemon.lifecycle \in Nat
          /\ daemon.follow_up \in Frames /\ daemon.response \in Frames
          /\ daemon.transmit \in Stamps
      BY DEF TypeOK, DaemonStates
    <3>2. /\ daemon.follow_up.source \in ResponderIds
          /\ daemon.response.epoch \in Nat /\ daemon.transmit.request \in Nat
      BY <3>1 DEF Frames, Stamps
    <3>3. Computed(ls, ir) \in Rates
      BY <3>1, <3>2, RateTypes DEF Computed
    <3>4. rate' \in Rates
      BY <3>3 DEF Store
    <3>5. averaged' \subseteq (Nat \X ResponderIds)
      BY <3>1, <3>2 DEF Store, TypeOK
    <3>6. capability' \in Capabilities
      BY <1>a, <3>1, <3>2 DEF Store, Capabilities
    <3> QED BY <1>10, <3>4, <3>5, <3>6, ConstantTypes DEF DaemonApply, TypeOK
  <2>2. CASE ~Current
    BY <1>10, <2>2, ConstantTypes DEF DaemonApply, TypeOK
  <2> QED BY <2>1, <2>2
<1>11. CASE DaemonExpire
  <2>1. exchange' \in Exchanges /\ exchange.sequence \in Nat
    BY <1>11, <1>a, ExchangeTypes DEF DaemonExpire, Exchanges
  <2> QED BY <1>11, <2>1 DEF DaemonExpire, TypeOK
<1>12. CASE DaemonStep
  <2>1. epoch' \in Epochs
    <3>1. epoch \in Epochs /\ epoch' = epoch + 1 /\ epoch < MaxSteps
      BY <1>12 DEF DaemonStep, TypeOK
    <3> QED BY <3>1, BoundTypes DEF Epochs
  <2>2. daemon' \in DaemonStates
    BY <1>12, ConstantTypes DEF DaemonStep, DaemonStates
  <2> QED BY <1>12, <2>1, <2>2 DEF DaemonStep, TypeOK
<1>13. CASE DaemonClean
  <2>1. exchange' \in Exchanges /\ rate' \in Rates
    BY <1>13, <1>a, ExchangeTypes DEF DaemonClean, ptp_clean_after_step, TypeOK, Rates
  <2> QED BY <1>13, <2>1, ConstantTypes DEF DaemonClean, TypeOK
<1>14. ASSUME Arm PROVE exchange' \in Exchanges /\ pdelay_multi_responder' \in BOOLEAN
  <2>1. [exchange EXCEPT !.lost_responses = 0] \in Exchanges
    BY <1>a DEF Exchanges
  <2> QED BY <1>14, <1>a, <2>1 DEF Arm, TypeOK
<1>15. CASE DaemonArm
  BY <1>15, <1>14 DEF DaemonArm, TypeOK
<1>26. CASE DaemonStandard
  <2>1. daemon' \in DaemonStates
    BY <1>26, ConstantTypes DEF DaemonStandard, DaemonStates
  <2> QED BY <1>26, <2>1 DEF DaemonStandard, TypeOK
<1>27. CASE DaemonNegotiate
  BY <1>27, ConstantTypes DEF DaemonNegotiate, TypeOK
<1>28. CASE LinkRepeat
  BY <1>28, <1>14 DEF LinkRepeat, TypeOK
<1>16. CASE LinkInvalidate
  <2>1. exchange' \in Exchanges
    BY <1>16, <1>a, ExchangeTypes DEF LinkInvalidate
  <2>2. link.changes - 1 \in Nat /\ (~link_up) \in BOOLEAN
    BY <1>16 DEF LinkInvalidate, TypeOK, LinkStates
  <2>3. link' \in LinkStates
    BY <1>16, <2>2 DEF LinkInvalidate, LinkStates
  <2> QED BY <1>16, <2>1, <2>3 DEF LinkInvalidate, TypeOK
<1>17. CASE LinkSet
  <2>1. link' \in LinkStates /\ link_up' \in BOOLEAN
    BY <1>17 DEF LinkSet, TypeOK, LinkStates
  <2> QED BY <1>17, <2>1 DEF LinkSet, TypeOK
<1>18. CASE LinkArm
  <2>1. link' \in LinkStates
    BY <1>18 DEF LinkArm, TypeOK, LinkStates
  <2> QED BY <1>18, <1>14, <2>1 DEF LinkArm, TypeOK
<1>19. CASE ResetProfile
  <2>1. reset.resets - 1 \in Nat
    BY <1>19 DEF ResetProfile, TypeOK, ResetStates
  <2>2. reset' \in ResetStates
    BY <1>19, <2>1 DEF ResetProfile, ResetStates
  <2> QED BY <1>19, <2>2 DEF ResetProfile, TypeOK
<1>20. CASE ResetDelay
  <2>1. reset' \in ResetStates
    BY <1>20 DEF ResetDelay, TypeOK, ResetStates
  <2> QED BY <1>20, <2>1 DEF ResetDelay, TypeOK
<1>21. CASE ResetClean
  <2>1. exchange' \in Exchanges /\ rate' \in Rates
    BY <1>21, <1>a, ExchangeTypes DEF ResetClean, ptp_clean_after_step, TypeOK, Rates
  <2>2. reset' \in ResetStates
    BY <1>21 DEF ResetClean, TypeOK, ResetStates
  <2> QED BY <1>21, <2>1, <2>2 DEF ResetClean, TypeOK
<1>22. CASE ResetInterval
  <2>1. reset' \in ResetStates
    BY <1>22 DEF ResetInterval, TypeOK, ResetStates
  <2> QED BY <1>22, <2>1 DEF ResetInterval, TypeOK
<1>23. CASE ResetArm
  <2>1. reset' \in ResetStates
    BY <1>23 DEF ResetArm, TypeOK, ResetStates
  <2> QED BY <1>23, <1>14, <2>1 DEF ResetArm, TypeOK
<1>24. CASE Tick
  <2>1. now' \in Nat
    BY <1>24, <1>a DEF Tick
  <2> QED BY <1>24, <2>1 DEF Tick, TypeOK
<1>25. CASE UNCHANGED vars
  BY <1>25 DEF vars, TypeOK
<1> QED BY NextCases, <1>1, <1>2, <1>3, <1>4, <1>5, <1>6, <1>7, <1>8, <1>9, <1>10,
           <1>11, <1>12, <1>13, <1>15, <1>16, <1>17, <1>18, <1>19, <1>20, <1>21,
           <1>22, <1>23, <1>24, <1>25, <1>26, <1>27, <1>28

(* The port's exchange, rate and capability and the locals of the four     *)
(* threads keep their types.                                               *)
THEOREM TypeCorrect == Spec => []TypeOK
BY InitType, NextType, PTL DEF Spec

-----------------------------------------------------------------------------
(* What a step does to the exchange.                                       *)

(* The request in progress is the same one, with the same T1.              *)
SameRequest(e, d) ==
  /\ d.generation = e.generation /\ d.lifecycle = e.lifecycle
  /\ d.sequence = e.sequence /\ d.deadline = e.deadline
  /\ d.sending = e.sending /\ d.published = e.published
  /\ d.transmit = e.transmit

(* No request is in progress any more.                                     *)
Dropped(e, d) ==
  /\ d.generation = e.generation + 1
  /\ ~d.sending /\ ~d.published /\ ~d.response_seen
  /\ ~d.multiple /\ ~d.consumed /\ ~d.loss_counted

(* The fields each operation of ptp_peer_exchange.h leaves behind.         *)
LEMMA InvalidateFields ==
  ASSUME NEW e \in Exchanges
  PROVE  /\ Dropped(e, ptp_peer_invalidate(e))
         /\ ptp_peer_invalidate(e).lifecycle = e.lifecycle + 1
         /\ ptp_peer_invalidate(e).lost_responses = 0
BY DEF ptp_peer_invalidate, Zeroed, Dropped

(* An abandoned exchange is a dropped one; its losses stay counted.        *)
LEMMA AbandonFields ==
  ASSUME NEW e \in Exchanges
  PROVE  /\ Dropped(e, ptp_peer_abandon(e))
         /\ ptp_peer_abandon(e).lifecycle = e.lifecycle
         /\ ptp_peer_abandon(e).lost_responses = e.lost_responses
BY DEF ptp_peer_abandon, ptp_peer_invalidate, Zeroed, Dropped

(* A new exchange is unsent and unanswered under the next generation.      *)
LEMMA BeginFields ==
  ASSUME NEW e \in Exchanges, NEW q \in Nat, NEW d \in Nat
  PROVE  LET b == ptp_peer_begin(e, q, d)
         IN  /\ b.generation = e.generation + 1 /\ b.lifecycle = e.lifecycle
             /\ b.sequence = q /\ b.deadline = d
             /\ b.sending /\ ~b.published /\ ~b.response_seen
             /\ ~b.multiple /\ ~b.consumed /\ ~b.loss_counted
             /\ b.lost_responses = e.lost_responses
BY DEF ptp_peer_begin, ptp_peer_abandon, ptp_peer_invalidate, Zeroed

(* Expiry counts one loss of an overdue exchange, once, and changes no     *)
(* answer.                                                                 *)
LEMMA ExpireFields ==
  ASSUME NEW e \in Exchanges
  PROVE  LET x == ptp_peer_expire(e)
         IN  /\ SameRequest(e, x)
             /\ x.response_seen = e.response_seen /\ x.response = e.response
             /\ x.multiple = e.multiple /\ x.consumed = e.consumed
             /\ Expired(e) => x.loss_counted /\ x.lost_responses = e.lost_responses + 1
             /\ ~Expired(e) => x = e
BY DEF ptp_peer_expire, SameRequest, Exchanges

(* A Response is noted only if it matches and none was noted before.       *)
LEMMA ResponseFields ==
  ASSUME NEW e \in Exchanges, NEW f \in Frames
  PROVE  LET x == ptp_peer_response(e, f)
         IN  /\ SameRequest(e, x)
             /\ x.consumed = e.consumed /\ x.loss_counted = e.loss_counted
             /\ x.lost_responses = e.lost_responses
             /\ \/ x.response_seen = e.response_seen /\ x.response = e.response
                \/ /\ ptp_peer_matches(e, f) /\ ~e.response_seen
                   /\ x.response_seen /\ x.response = f
<1>1. CASE ~ptp_peer_matches(e, f)
  BY <1>1 DEF ptp_peer_response, SameRequest
<1>2. CASE ptp_peer_matches(e, f) /\ (f.source = Self \/ e.response_seen)
  BY <1>2 DEF ptp_peer_response, SameRequest, Exchanges
<1>3. CASE ptp_peer_matches(e, f) /\ ~(f.source = Self \/ e.response_seen)
  BY <1>3 DEF ptp_peer_response, SameRequest, Exchanges
<1> QED BY <1>1, <1>2, <1>3

(* An accepted Follow_Up consumes the exchange and clears the losses.      *)
LEMMA FinishFields ==
  ASSUME NEW e \in Exchanges, NEW f \in Frames
  PROVE  LET x == ptp_peer_finish(e, f)
         IN  /\ SameRequest(e, x)
             /\ x.response_seen = e.response_seen /\ x.response = e.response
             /\ x.loss_counted = e.loss_counted
             /\ FollowUpAccepted(e, f) =>
                  x.consumed /\ x.lost_responses = 0 /\ x.multiple = e.multiple
             /\ ~FollowUpAccepted(e, f) =>
                  x.consumed = e.consumed /\ x.lost_responses = e.lost_responses
<1>1. CASE ~FollowUpFits(e, f)
  <2>1. ptp_peer_finish(e, f) = e /\ ~FollowUpAccepted(e, f)
    BY <1>1 DEF ptp_peer_finish, FollowUpAccepted
  <2> QED BY <2>1 DEF SameRequest
<1>2. CASE FollowUpFits(e, f) /\ FollowUpRepeated(e)
  <2>1. ptp_peer_finish(e, f) = [e EXCEPT !.multiple = TRUE] /\ ~FollowUpAccepted(e, f)
    BY <1>2 DEF ptp_peer_finish, FollowUpAccepted
  <2> QED BY <2>1 DEF SameRequest, Exchanges
<1>3. CASE FollowUpFits(e, f) /\ ~FollowUpRepeated(e) /\ ~e.published
  <2>1. /\ ptp_peer_finish(e, f) = [e EXCEPT !.follow_up_pending = TRUE,
                                            !.pending_follow_up = f]
        /\ ~FollowUpAccepted(e, f)
    BY <1>3 DEF ptp_peer_finish, FollowUpAccepted
  <2> QED BY <2>1 DEF SameRequest, Exchanges
<1>4. CASE FollowUpAccepted(e, f)
  <2>1. ptp_peer_finish(e, f) = [e EXCEPT !.consumed = TRUE, !.lost_responses = 0]
    BY <1>4 DEF ptp_peer_finish, FollowUpAccepted
  <2> QED BY <1>4, <2>1 DEF SameRequest, Exchanges
<1> QED BY <1>1, <1>2, <1>3, <1>4 DEF FollowUpAccepted

(* A step of the daemon, the link or the reset thread drops the request in *)
(* progress or keeps it; the timer's steps are the others.                 *)
Dropping == DaemonClean \/ LinkInvalidate \/ ResetClean

Keeping == \/ DaemonResponse \/ DaemonFollowUp \/ DaemonTake \/ DaemonReplay
           \/ DaemonOutOfRange \/ DaemonApply \/ DaemonExpire \/ DaemonStep
           \/ DaemonArm \/ DaemonStandard \/ DaemonNegotiate \/ LinkSet
           \/ LinkRepeat \/ LinkArm \/ ResetProfile \/ ResetDelay \/ ResetInterval
           \/ ResetArm \/ Tick \/ UNCHANGED vars

(* A step is one of the timer, drops the exchange or keeps it.             *)
LEMMA StepKinds ==
  ASSUME [Next]_vars
  PROVE  TimerBegin \/ TimerStandard \/ TimerSend \/ TimerPublish \/ Dropping \/ Keeping
BY NextCases DEF Dropping, Keeping

(* What drops the exchange touches neither the timer nor the evidence.     *)
LEMMA DroppingFields ==
  ASSUME TypeOK, Dropping
  PROVE  /\ Dropped(exchange, exchange')
         /\ UNCHANGED <<timer, delay_req_seq, departed, begun, lost, measured,
                        capability, averaged, now, epoch>>
<1> exchange \in Exchanges
  BY DEF TypeOK
<1> QED BY InvalidateFields, AbandonFields
        DEF Dropping, DaemonClean, LinkInvalidate, ResetClean, ptp_clean_after_step

(* What keeps the exchange keeps its request, and takes a Response only in *)
(* the daemon's loop.                                                      *)
LEMMA KeepingFields ==
  ASSUME TypeOK, Keeping
  PROVE  /\ SameRequest(exchange, exchange')
         /\ UNCHANGED <<timer, delay_req_seq, departed, begun>>
         /\ link'.changes = link.changes
         /\ \/ /\ exchange'.response_seen = exchange.response_seen
               /\ exchange'.response = exchange.response
            \/ /\ daemon.pc = "loop" /\ daemon'.pc = "loop"
               /\ epoch' = epoch /\ rate' = rate
               /\ \E f \in Arrivals :
                    /\ ptp_peer_matches(exchange, f)
                    /\ exchange'.response_seen /\ exchange'.response = f
<1>0. exchange \in Exchanges /\ link \in LinkStates /\ daemon.follow_up \in Frames
  BY DEF TypeOK, DaemonStates
<1>1. CASE DaemonResponse
  <2> PICK f \in Arrivals : exchange' = ptp_peer_response(exchange, f)
    BY <1>1 DEF DaemonResponse
  <2>1. f \in Frames
    BY ArrivalTypes
  <2>2. /\ SameRequest(exchange, exchange')
        /\ \/ /\ exchange'.response_seen = exchange.response_seen
              /\ exchange'.response = exchange.response
           \/ /\ ptp_peer_matches(exchange, f)
              /\ exchange'.response_seen /\ exchange'.response = f
    BY <1>0, <2>1, ResponseFields
  <2>3. /\ UNCHANGED <<timer, delay_req_seq, departed, begun, link, daemon,
                       epoch, rate>>
        /\ daemon.pc = "loop"
    BY <1>1 DEF DaemonResponse
  <2> QED BY <2>2, <2>3
<1>2. CASE DaemonFollowUp
  <2> PICK f \in Arrivals : exchange' = ptp_peer_finish(exchange, f)
    BY <1>2 DEF DaemonFollowUp, Finish
  <2>1. f \in Frames
    BY ArrivalTypes
  <2>2. /\ SameRequest(exchange, exchange')
        /\ exchange'.response_seen = exchange.response_seen
        /\ exchange'.response = exchange.response
    BY <1>0, <2>1, FinishFields
  <2>3. UNCHANGED <<timer, delay_req_seq, departed, begun, link>>
    BY <1>2 DEF DaemonFollowUp
  <2> QED BY <2>2, <2>3
<1>3. CASE DaemonTake
  BY <1>0, <1>3 DEF DaemonTake, SameRequest, Exchanges
<1>4. CASE DaemonReplay
  <2>1. exchange' = exchange \/ exchange' = ptp_peer_finish(exchange, daemon.follow_up)
    BY <1>4 DEF DaemonReplay, Finish
  <2> QED BY <1>0, <1>4, <2>1, FinishFields DEF DaemonReplay, SameRequest
<1>5. CASE DaemonExpire
  BY <1>0, <1>5, ExpireFields DEF DaemonExpire
<1>6. ASSUME Arm
      PROVE  /\ SameRequest(exchange, exchange')
             /\ exchange'.response_seen = exchange.response_seen
             /\ exchange'.response = exchange.response
  BY <1>0, <1>6 DEF Arm, SameRequest, Exchanges
<1>7. CASE DaemonArm \/ LinkRepeat \/ ResetArm
  BY <1>6, <1>7 DEF DaemonArm, LinkRepeat, ResetArm
<1>8. CASE LinkArm
  BY <1>0, <1>6, <1>8 DEF LinkArm, LinkStates
<1>9. CASE LinkSet
  BY <1>0, <1>9 DEF LinkSet, LinkStates, SameRequest
<1>10. CASE \/ DaemonOutOfRange \/ DaemonApply \/ DaemonStep
            \/ DaemonStandard \/ DaemonNegotiate
  BY <1>10 DEF DaemonOutOfRange, DaemonApply, DaemonStep, DaemonStandard,
               DaemonNegotiate, SameRequest
<1>11. CASE ResetProfile \/ ResetDelay \/ ResetInterval \/ Tick \/ UNCHANGED vars
  BY <1>11 DEF ResetProfile, ResetDelay, ResetInterval, Tick, vars, SameRequest
<1> QED BY <1>1, <1>2, <1>3, <1>4, <1>5, <1>7, <1>8, <1>9, <1>10, <1>11 DEF Keeping

(* The types of the numbers in the proofs below.                           *)
LEMMA Basics ==
  ASSUME TypeOK
  PROVE  /\ exchange \in Exchanges /\ timer \in TimerStates /\ now \in Nat
         /\ delay_req_seq \in Nat /\ delay_req_seq \in 0..MaxRequests
         /\ MaxRequests \in Nat /\ Unsent \in Nat
         /\ epoch \in Nat /\ epoch < Unsent
         /\ departed \in [Requests -> 0..Unsent]
         /\ exchange.generation \in Nat /\ exchange.lifecycle \in Nat
         /\ exchange.sequence \in Nat /\ exchange.deadline \in Nat
         /\ timer.generation \in Nat /\ timer.sequence \in Nat
         /\ interval \in Nat
<1>1. /\ exchange \in Exchanges /\ timer \in TimerStates /\ now \in Nat
      /\ delay_req_seq \in 0..MaxRequests /\ interval \in Nat /\ epoch \in Epochs
      /\ departed \in [Requests -> 0..Unsent]
  BY ConstantTypes DEF TypeOK
<1>2. delay_req_seq \in Nat /\ MaxRequests \in Nat
  BY <1>1, BoundTypes
<1>3. epoch \in Nat /\ epoch < Unsent /\ Unsent \in Nat
  BY <1>1, BoundTypes DEF Epochs, Unsent
<1>4. /\ exchange.generation \in Nat /\ exchange.lifecycle \in Nat
      /\ exchange.sequence \in Nat /\ exchange.deadline \in Nat
  BY <1>1 DEF Exchanges
<1>5. timer.generation \in Nat /\ timer.sequence \in Nat
  BY <1>1 DEF TimerStates
<1> QED BY <1>1, <1>2, <1>3, <1>4, <1>5

(* Every step keeps the invariant of requests.                             *)
LEMMA RequestStep ==
  ASSUME TypeOK, TypeOK', RequestInv, [Next]_vars
  PROVE  RequestInv'
<1>0. /\ exchange \in Exchanges /\ timer \in TimerStates /\ now \in Nat
      /\ delay_req_seq \in Nat /\ departed \in [Requests -> 0..Unsent]
      /\ exchange.generation \in Nat /\ interval \in Nat
      /\ timer.generation \in Nat /\ timer.sequence \in Nat
  BY Basics
<1>1. CASE TimerBegin
  <2> DEFINE x == ptp_peer_expire(exchange)
  <2>1. x \in Exchanges /\ x.generation = exchange.generation
    BY <1>0, ExchangeTypes, ExpireFields DEF SameRequest
  <2>2. delay_req_seq + 1 \in Nat /\ now + interval \in Nat
    BY <1>0
  <2>3. exchange' = ptp_peer_begin(x, delay_req_seq + 1, now + interval)
    BY <1>1 DEF TimerBegin
  <2> HIDE DEF x
  <2>4. /\ exchange'.generation = exchange.generation + 1
        /\ exchange'.sequence = delay_req_seq + 1
        /\ exchange'.sending /\ ~exchange'.published /\ ~exchange'.response_seen
    BY <2>1, <2>2, <2>3, BeginFields
  <2>5. /\ timer'.pc = "send" /\ timer'.generation = exchange.generation + 1
        /\ timer'.sequence = delay_req_seq + 1
        /\ delay_req_seq' = delay_req_seq + 1 /\ departed' = departed
        /\ delay_req_seq < MaxRequests
    BY <1>0, <1>1 DEF TimerBegin, TimerStates
  <2>6. delay_req_seq + 1 \in Requests /\ delay_req_seq + 1 \in 1..(delay_req_seq + 1)
    BY <1>0, <2>5, Basics DEF Requests
  <2>7. departed[delay_req_seq + 1] = Unsent
    BY <1>0, <2>6 DEF RequestInv
  <2>8. \A r \in Requests : r > delay_req_seq + 1 => departed[r] = Unsent
    BY <1>0 DEF RequestInv, Requests
  <2> QED BY <1>0, <2>4, <2>5, <2>6, <2>7, <2>8 DEF RequestInv, Live
<1>2. CASE TimerStandard
  <2>1. /\ timer.pc = "wait" /\ timer'.pc = "wait" /\ UNCHANGED <<exchange, departed>>
        /\ delay_req_seq' \in {delay_req_seq, delay_req_seq + 1}
    BY <1>0, <1>2 DEF TimerStandard, TimerStates
  <2>2. \A r \in Requests : r > delay_req_seq' => r > delay_req_seq
    BY <1>0, <2>1 DEF Requests
  <2>3. 1..delay_req_seq \subseteq 1..delay_req_seq'
    BY <1>0, <2>1
  <2> QED BY <2>1, <2>2, <2>3 DEF RequestInv, Live
<1>3. CASE TimerSend
  <2>1. /\ timer.pc = "send" /\ timer'.pc = "publish"
        /\ timer'.generation = timer.generation /\ timer'.sequence = timer.sequence
        /\ timer'.stamp = [request |-> timer.sequence, epoch |-> epoch]
        /\ UNCHANGED <<exchange, delay_req_seq>>
    BY <1>0, <1>3 DEF TimerSend, TimerStates
  <2>2. \/ departed' = departed /\ ~timer'.sent
        \/ departed' = [departed EXCEPT ![timer.sequence] = epoch]
    BY <1>0, <1>3 DEF TimerSend, TimerStates
  <2>3. timer.sequence \in Requests /\ timer.sequence <= delay_req_seq
    BY <1>0, <2>1, Basics DEF RequestInv, Requests
  <2> QED BY <1>0, <2>1, <2>2, <2>3 DEF RequestInv, Live
<1>4. CASE TimerPublish
  <2>1. /\ timer'.pc = "wait" /\ timer.pc = "publish"
        /\ UNCHANGED <<delay_req_seq, departed>>
    BY <1>0, <1>4 DEF TimerPublish, TimerStates
  <2>2. /\ exchange'.sequence = exchange.sequence
        /\ exchange'.response_seen => exchange.response_seen
        /\ Live(exchange') => Live(exchange)
        /\ exchange'.response_seen => Live(exchange')
        /\ ~exchange'.sending
    <3>1. CASE timer.sent /\ CanPublish(exchange, timer.generation)
      <4>1. exchange' = ptp_peer_publish(exchange, timer.stamp)
        BY <1>4, <3>1 DEF TimerPublish
      <4> QED BY <1>0, <3>1, <4>1 DEF ptp_peer_publish, CanPublish, Live, Exchanges
    <3>2. CASE ~(timer.sent /\ CanPublish(exchange, timer.generation))
      <4>1. exchange' = ptp_peer_cancel(exchange, timer.generation)
        BY <1>4, <3>2 DEF TimerPublish
      <4> QED BY <1>0, <2>1, <4>1 DEF ptp_peer_cancel, RequestInv, Live, Exchanges
    <3> QED BY <3>1, <3>2
  <2> QED BY <2>1, <2>2 DEF RequestInv
<1>5. CASE Dropping
  BY <1>0, <1>5, DroppingFields DEF Dropped, RequestInv, Live, TimerStates
<1>6. CASE Keeping
  <2>1. exchange'.response_seen => Live(exchange)
    BY <1>6, KeepingFields DEF RequestInv, ptp_peer_matches, Live
  <2> QED BY <1>6, <2>1, KeepingFields DEF SameRequest, RequestInv, Live
<1> QED BY StepKinds, <1>1, <1>2, <1>3, <1>4, <1>5, <1>6

(* Only a step of the clock enters "clean"; only DaemonClean leaves it.    *)
LEMMA KeepingDaemon ==
  ASSUME TypeOK, Keeping
  PROVE  /\ daemon'.pc # "clean" => daemon.pc # "clean"
         /\ epoch' = epoch \/ daemon'.pc = "clean"
         /\ rate' = rate \/ DaemonApply
<1>1. IdleDaemon.pc = "loop"
  BY DEF IdleDaemon
<1>2. CASE DaemonFollowUp \/ DaemonReplay
  BY <1>1, <1>2 DEF DaemonFollowUp, DaemonReplay, Finish
<1>3. CASE DaemonTake \/ DaemonStep \/ DaemonStandard
  BY <1>3 DEF DaemonTake, DaemonStep, DaemonStandard, IdleDaemon
<1>4. CASE DaemonOutOfRange \/ DaemonApply \/ DaemonNegotiate
  BY <1>1, <1>4 DEF DaemonOutOfRange, DaemonApply, DaemonNegotiate
<1>5. CASE \/ DaemonResponse \/ DaemonExpire \/ DaemonArm \/ LinkSet \/ LinkRepeat
           \/ LinkArm
  BY <1>5 DEF DaemonResponse, DaemonExpire, DaemonArm, LinkSet, LinkRepeat, LinkArm
<1>6. CASE \/ ResetProfile \/ ResetDelay \/ ResetInterval \/ ResetArm \/ Tick
           \/ UNCHANGED vars
  BY <1>6 DEF ResetProfile, ResetDelay, ResetInterval, ResetArm, Tick, vars
<1> QED BY <1>2, <1>3, <1>4, <1>5, <1>6 DEF Keeping

(* The write-back replaces the rate by the one computed from the copy.     *)
LEMMA ApplyFields ==
  ASSUME TypeOK, DaemonApply
  PROVE  /\ daemon.pc = "compute" /\ UNCHANGED <<exchange, epoch>>
         /\ ~Current => UNCHANGED <<rate, averaged, capability>>
         /\ Current =>
              /\ rate'.local = daemon.response.epoch
              /\ SameNeighbor(rate', daemon.lifecycle, daemon.follow_up.source)
              /\ \E ok \in BOOLEAN :
                   averaged' = (IF SameNeighbor(rate, daemon.lifecycle,
                                                daemon.follow_up.source)
                                THEN averaged ELSE {})
                               \cup (IF ok THEN {<<daemon.lifecycle,
                                                   daemon.follow_up.source>>}
                                     ELSE {})
              /\ capability'.lifecycle = daemon.lifecycle
              /\ capability'.request = daemon.transmit.request
<1>1. CASE ~Current
  BY <1>1 DEF DaemonApply
<1>2. CASE Current
  <2> PICK ls \in BOOLEAN, ir \in BOOLEAN, dk \in BOOLEAN, sd \in BOOLEAN :
        Store(Computed(ls, ir), Computed(ls, ir).valid /\ dk, sd)
    BY <1>2 DEF DaemonApply
  <2>1. /\ daemon.rate \in Rates /\ daemon.lifecycle \in Nat
        /\ daemon.follow_up.source \in ResponderIds /\ daemon.response.epoch \in Nat
    BY DEF TypeOK, DaemonStates, Frames
  <2> DEFINE r == Computed(ls, ir)
  <2>a. r = ptp_peer_rate_update(daemon.rate, daemon.lifecycle,
                                 daemon.follow_up.source, daemon.response.epoch,
                                 ls, ir)
    BY DEF Computed
  <2>2. /\ r \in Rates /\ r.local = daemon.response.epoch
        /\ SameNeighbor(r, daemon.lifecycle, daemon.follow_up.source)
    <3> HIDE DEF r
    <3>1. r \in Rates
      BY <2>1, <2>a, RateTypes
    <3>2. r.local = daemon.response.epoch
      BY <2>1, <2>a, RateLocal
    <3>3. SameNeighbor(r, daemon.lifecycle, daemon.follow_up.source)
      BY <2>1, <2>a, RateTypes
    <3> QED BY <3>1, <3>2, <3>3
  <2> DEFINE ok == r.valid /\ dk
  <2> HIDE DEF r
  <2>3. ok \in BOOLEAN
    OBVIOUS
  <2>4. Store(r, ok, sd)
    BY DEF r
  <2> HIDE DEF ok
  <2>5. /\ rate' = r
        /\ averaged' = IF ok
              THEN (IF SameNeighbor(rate, r.lifecycle, r.responder) THEN averaged
                    ELSE {}) \cup {<<daemon.lifecycle, daemon.follow_up.source>>}
              ELSE (IF SameNeighbor(rate, r.lifecycle, r.responder) THEN averaged
                    ELSE {})
        /\ capability'.lifecycle = daemon.lifecycle
        /\ capability'.request = daemon.transmit.request
    BY <2>4 DEF Store
  <2>6. r.lifecycle = daemon.lifecycle /\ r.responder = daemon.follow_up.source
    BY <2>2 DEF SameNeighbor
  <2>7. \E b \in BOOLEAN :
          averaged' = (IF SameNeighbor(rate, daemon.lifecycle,
                                       daemon.follow_up.source)
                       THEN averaged ELSE {})
                      \cup (IF b THEN {<<daemon.lifecycle,
                                         daemon.follow_up.source>>} ELSE {})
    <3> WITNESS ok \in BOOLEAN
    <3> QED BY <2>5, <2>6
  <2> QED BY <1>2, <2>2, <2>5, <2>7 DEF DaemonApply
<1> QED BY <1>1, <1>2

(* Every step keeps the invariant of epochs.                               *)
LEMMA EpochStep ==
  ASSUME TypeOK, TypeOK', RequestInv, EpochInv, MeasureInv, [Next]_vars
  PROVE  EpochInv'
<1>0. /\ exchange \in Exchanges /\ timer \in TimerStates /\ now \in Nat
      /\ delay_req_seq \in Nat /\ departed \in [Requests -> 0..Unsent]
      /\ epoch \in Nat /\ epoch < Unsent /\ Unsent \in Nat /\ interval \in Nat
      /\ rate \in Rates
  BY Basics DEF TypeOK
<1>1. CASE TimerBegin
  <2> DEFINE x == ptp_peer_expire(exchange)
  <2>1. x \in Exchanges
    BY <1>0, ExchangeTypes
  <2>2. delay_req_seq + 1 \in Nat /\ now + interval \in Nat
    BY <1>0
  <2>3. exchange' = ptp_peer_begin(x, delay_req_seq + 1, now + interval)
    BY <1>1 DEF TimerBegin
  <2> HIDE DEF x
  <2>4. /\ exchange'.sequence = delay_req_seq + 1
        /\ ~exchange'.published /\ ~exchange'.response_seen
    BY <2>1, <2>2, <2>3, BeginFields
  <2>5. UNCHANGED <<departed, rate, daemon, epoch>> /\ delay_req_seq < MaxRequests
    BY <1>1 DEF TimerBegin
  <2>6. departed[delay_req_seq + 1] = Unsent
    <3>1. delay_req_seq + 1 \in Requests /\ delay_req_seq + 1 > delay_req_seq
      BY <1>0, <2>5, Basics DEF Requests
    <3> QED BY <3>1 DEF RequestInv
  <2> QED BY <2>4, <2>5, <2>6 DEF EpochInv
<1>2. CASE TimerStandard
  BY <1>2 DEF TimerStandard, EpochInv
<1>3. CASE TimerSend
  <2>1. timer.pc = "send" /\ UNCHANGED <<exchange, rate, daemon, epoch>>
    BY <1>3 DEF TimerSend
  <2>2. \/ departed' = departed
        \/ departed' = [departed EXCEPT ![timer.sequence] = epoch]
    BY <1>3 DEF TimerSend
  <2>3. timer.sequence \in Requests /\ departed[timer.sequence] = Unsent
    BY <1>0, <2>1, Basics DEF RequestInv, Requests
  <2>4. Live(exchange) => exchange.sequence = timer.sequence /\ ~exchange.published
    BY <2>1 DEF RequestInv
  <2>5. exchange.response_seen => Live(exchange)
    BY DEF RequestInv
  <2>6. exchange.response_seen => daemon.pc = "clean"
    BY <1>0, <2>3, <2>4, <2>5 DEF EpochInv
  <2>7. Live(exchange) => departed'[exchange.sequence] \in {Unsent, epoch}
    BY <1>0, <2>2, <2>3, <2>4
  <2>8. ~exchange.published
    BY <2>4 DEF Live
  <2> QED BY <2>1, <2>6, <2>7, <2>8 DEF EpochInv
<1>4. CASE TimerPublish
  <2>1. timer.pc = "publish" /\ UNCHANGED <<departed, rate, daemon, epoch>>
    BY <1>4 DEF TimerPublish
  <2>2. CASE timer.sent /\ CanPublish(exchange, timer.generation)
    <3>1. exchange' = ptp_peer_publish(exchange, timer.stamp)
      BY <1>4, <2>2 DEF TimerPublish
    <3>2. /\ exchange'.sequence = exchange.sequence
          /\ exchange'.response_seen = exchange.response_seen
          /\ exchange'.response = exchange.response
          /\ exchange'.transmit = timer.stamp
      BY <1>0, <3>1 DEF ptp_peer_publish, Exchanges
    <3>3. Live(exchange) /\ exchange.sequence = timer.sequence
          /\ timer.stamp.request = timer.sequence
          /\ timer.stamp.epoch = departed[timer.sequence]
      BY <2>1, <2>2 DEF CanPublish, RequestInv, Live
    <3> QED BY <2>1, <3>2, <3>3 DEF EpochInv
  <2>3. CASE ~(timer.sent /\ CanPublish(exchange, timer.generation))
    <3>1. exchange' = ptp_peer_cancel(exchange, timer.generation)
      BY <1>4, <2>3 DEF TimerPublish
    <3>2. \/ exchange' = exchange
          \/ ~exchange'.sending /\ ~exchange'.published /\ ~exchange'.response_seen
      BY <1>0, <3>1 DEF ptp_peer_cancel, Exchanges
    <3> QED BY <2>1, <3>2 DEF EpochInv, Live
  <2> QED BY <2>2, <2>3
<1>5. CASE Dropping
  <2>1. Dropped(exchange, exchange') /\ UNCHANGED <<departed, epoch>>
    BY <1>5, DroppingFields
  <2>2. rate'.reanchor \/ (rate' = rate /\ daemon' = daemon)
    BY <1>0, <1>5 DEF Dropping, DaemonClean, LinkInvalidate, ResetClean,
                      ptp_clean_after_step, Rates
  <2> QED BY <2>1, <2>2 DEF EpochInv, Dropped, Live
<1>6. CASE Keeping
  <2>1. /\ exchange'.sequence = exchange.sequence /\ Live(exchange') = Live(exchange)
        /\ exchange'.published = exchange.published
        /\ exchange'.transmit = exchange.transmit /\ departed' = departed
    BY <1>6, KeepingFields DEF SameRequest, Live
  <2>2. exchange'.response_seen => exchange'.response.sequence = exchange.sequence
    BY <1>6, KeepingFields DEF EpochInv, ptp_peer_matches
  <2>3. CASE daemon'.pc = "clean"
    BY <2>1, <2>2, <2>3 DEF EpochInv
  <2>4. CASE daemon'.pc # "clean"
    <3>1. daemon.pc # "clean" /\ epoch' = epoch
      BY <1>6, <2>4, KeepingDaemon
    <3>2. exchange'.response_seen => /\ exchange'.response.epoch = epoch
                                     /\ departed[exchange.sequence] = epoch
      <4>1. CASE /\ exchange'.response_seen = exchange.response_seen
                 /\ exchange'.response = exchange.response
        BY <3>1, <4>1 DEF EpochInv
      <4>2. ASSUME NEW f \in Arrivals, ptp_peer_matches(exchange, f),
                   exchange'.response = f
            PROVE  /\ exchange'.response.epoch = epoch
                   /\ departed[exchange.sequence] = epoch
        <5>1. f.sequence = exchange.sequence /\ Live(exchange)
          BY <4>2 DEF ptp_peer_matches, Live
        <5>2. /\ departed[f.sequence] <= f.epoch /\ f.epoch <= epoch
              /\ f.epoch \in Nat
          BY ArrivalTypes DEF Frames
        <5>3. departed[exchange.sequence] \in {Unsent, epoch}
          BY <3>1, <5>1 DEF EpochInv
        <5> QED BY <1>0, <4>2, <5>1, <5>2, <5>3
      <4> QED BY <1>6, KeepingFields, <4>1, <4>2
    <3>3. rate'.anchored /\ ~rate'.reanchor => rate'.local = epoch
      <4>1. CASE rate' = rate
        BY <3>1, <4>1 DEF EpochInv
      <4>2. CASE DaemonApply /\ rate' # rate
        <5>1. daemon.pc = "compute" /\ Current /\ rate'.local = daemon.response.epoch
          BY <4>2, ApplyFields
        <5>2. daemon.response = exchange.response /\ exchange.response_seen
          BY <5>1 DEF Current, MeasureInv
        <5> QED BY <3>1, <5>1, <5>2 DEF EpochInv
      <4> QED BY <1>6, <4>1, <4>2, KeepingDaemon
    <3> QED BY <2>1, <2>2, <3>1, <3>2, <3>3 DEF EpochInv
  <2> QED BY <2>3, <2>4
<1> QED BY StepKinds, <1>1, <1>2, <1>3, <1>4, <1>5, <1>6

(* A step enters "compute" only by taking a measurement.                   *)
Accepting(f) == /\ DaemonFollowUp \/ DaemonReplay
                /\ f \in Frames /\ Finish(f) /\ FollowUpAccepted(exchange, f)

(* The daemon computes a delay only after it accepted a Follow_Up.         *)
LEMMA ComputeEntered ==
  ASSUME TypeOK, Keeping, daemon'.pc = "compute"
  PROVE  daemon' = daemon \/ \E f \in Frames : Accepting(f)
<1>1. IdleDaemon.pc = "loop" /\ daemon.follow_up \in Frames
  BY DEF IdleDaemon, TypeOK, DaemonStates
<1>2. CASE DaemonFollowUp
  <2> PICK f \in Arrivals : Finish(f)
    BY <1>2 DEF DaemonFollowUp
  <2>1. f \in Frames
    BY ArrivalTypes
  <2>2. FollowUpAccepted(exchange, f)
    BY <1>1 DEF Finish
  <2> QED BY <1>2, <2>1, <2>2 DEF Accepting
<1>3. CASE DaemonReplay
  <2>1. Finish(daemon.follow_up)
    BY <1>1, <1>3 DEF DaemonReplay
  <2>2. FollowUpAccepted(exchange, daemon.follow_up)
    BY <1>1, <2>1 DEF Finish
  <2> QED BY <1>1, <1>3, <2>1, <2>2 DEF Accepting
<1>4. CASE DaemonTake \/ DaemonStep \/ DaemonStandard
  <2>1. daemon'.pc \in {"replay", "clean", "standard"}
    BY <1>4 DEF DaemonTake, DaemonStep, DaemonStandard, IdleDaemon
  <2> QED BY <2>1
<1>5. CASE DaemonOutOfRange \/ DaemonApply \/ DaemonNegotiate
  BY <1>1, <1>5 DEF DaemonOutOfRange, DaemonApply, DaemonNegotiate
<1>6. CASE \/ DaemonResponse \/ DaemonExpire \/ DaemonArm \/ LinkSet \/ LinkRepeat
           \/ LinkArm
  BY <1>6 DEF DaemonResponse, DaemonExpire, DaemonArm, LinkSet, LinkRepeat, LinkArm
<1>7. CASE \/ ResetProfile \/ ResetDelay \/ ResetInterval \/ ResetArm \/ Tick
           \/ UNCHANGED vars
  BY <1>7 DEF ResetProfile, ResetDelay, ResetInterval, ResetArm, Tick, vars
<1> QED BY <1>2, <1>3, <1>4, <1>5, <1>6, <1>7 DEF Keeping

(* What the measurement taken is a copy of.                                *)
LEMMA AcceptFields ==
  ASSUME TypeOK, NEW f \in Frames, Accepting(f)
  PROVE  /\ exchange' = ptp_peer_finish(exchange, f)
         /\ measured' = measured \cup {exchange.sequence}
         /\ UNCHANGED <<rate, lost, now, delay_req_seq>>
         /\ daemon'.generation = exchange.generation
         /\ daemon'.lifecycle = exchange.lifecycle
         /\ daemon'.transmit = exchange.transmit
         /\ daemon'.response = exchange.response
         /\ daemon'.follow_up = f /\ daemon'.rate = rate
         /\ exchange.published /\ exchange.response_seen
         /\ exchange.sequence = f.sequence /\ exchange.response.source = f.source
         /\ ~exchange.multiple /\ now < exchange.deadline
<1>1. exchange' = ptp_peer_finish(exchange, f) /\ FollowUpAccepted(exchange, f)
  BY DEF Accepting, Finish
<1>2. /\ exchange.published /\ exchange.response_seen
      /\ exchange.sequence = f.sequence /\ exchange.response.source = f.source
      /\ ~exchange.multiple /\ now < exchange.deadline
  BY <1>1 DEF FollowUpAccepted, FollowUpFits, ptp_peer_matches
<1>3. daemon' = [pc |-> "compute", generation |-> exchange.generation,
                 lifecycle |-> exchange.lifecycle, transmit |-> exchange.transmit,
                 response |-> exchange.response, follow_up |-> f, rate |-> rate]
      /\ measured' = measured \cup {exchange.sequence}
  BY <1>1 DEF Accepting, Finish
<1>4. UNCHANGED <<rate, lost, now, delay_req_seq>>
  BY DEF Accepting, DaemonFollowUp, DaemonReplay
<1> QED BY <1>1, <1>2, <1>3, <1>4

(* Every step keeps the invariant of measurements.                         *)
LEMMA MeasureStep ==
  ASSUME TypeOK, TypeOK', RequestInv, MeasureInv, [Next]_vars
  PROVE  MeasureInv'
<1>0. /\ exchange \in Exchanges /\ exchange.generation \in Nat
      /\ timer.generation \in Nat /\ now \in Nat /\ interval \in Nat
      /\ delay_req_seq \in Nat /\ daemon.generation \in Nat
  BY Basics DEF TypeOK, DaemonStates
<1>1. CASE TimerBegin
  <2> DEFINE x == ptp_peer_expire(exchange)
  <2>1. x \in Exchanges /\ x.generation = exchange.generation
    BY <1>0, ExchangeTypes, ExpireFields DEF SameRequest
  <2>2. delay_req_seq + 1 \in Nat /\ now + interval \in Nat
    BY <1>0
  <2>3. exchange' = ptp_peer_begin(x, delay_req_seq + 1, now + interval)
        /\ UNCHANGED daemon
    BY <1>1 DEF TimerBegin
  <2> HIDE DEF x
  <2>4. exchange'.generation = exchange.generation + 1
    BY <2>1, <2>2, <2>3, BeginFields
  <2> QED BY <1>0, <2>3, <2>4 DEF MeasureInv
<1>2. CASE TimerStandard \/ TimerSend
  BY <1>2 DEF TimerStandard, TimerSend, MeasureInv
<1>3. CASE TimerPublish
  <2>1. UNCHANGED <<daemon, rate>> /\ timer.pc = "publish"
    BY <1>3 DEF TimerPublish
  <2>2. CASE exchange.generation = timer.generation
    <3>1. ~exchange.published
      BY <2>1, <2>2 DEF RequestInv
    <3>2. daemon.pc = "compute" => daemon.generation # exchange.generation
      BY <3>1 DEF MeasureInv
    <3>3. exchange'.generation = exchange.generation
      BY <1>0, <1>3 DEF TimerPublish, ptp_peer_publish, ptp_peer_cancel, Exchanges
    <3> QED BY <2>1, <3>2, <3>3 DEF MeasureInv
  <2>3. CASE exchange.generation # timer.generation
    <3>1. exchange' = exchange
      BY <1>3, <2>3 DEF TimerPublish, CanPublish, ptp_peer_cancel
    <3> QED BY <2>1, <3>1 DEF MeasureInv
  <2> QED BY <2>2, <2>3
<1>4. CASE Dropping
  <2>1. exchange'.generation = exchange.generation + 1
    BY <1>4, DroppingFields DEF Dropped
  <2>2. daemon' = daemon \/ daemon'.pc = "loop"
    BY <1>4 DEF Dropping, DaemonClean, LinkInvalidate, ResetClean, IdleDaemon
  <2> QED BY <1>0, <2>1, <2>2 DEF MeasureInv
<1>5. CASE Keeping
  <2>1. SUFFICES ASSUME daemon'.pc = "compute" PROVE MeasureInv'
    BY DEF MeasureInv
  <2>2. CASE \E f \in Frames : Accepting(f)
    <3> PICK f \in Frames : Accepting(f)
      BY <2>2
    <3>1. /\ SameRequest(exchange, exchange')
          /\ exchange'.response_seen = exchange.response_seen
          /\ exchange'.response = exchange.response
      BY <1>0, AcceptFields, FinishFields
    <3> QED BY <1>0, <3>1, AcceptFields DEF MeasureInv, SameRequest
  <2>3. CASE daemon' = daemon
    <3>1. daemon.pc = "compute" /\ daemon'.pc # "loop"
      BY <2>1, <2>3
    <3>2. rate' = rate
      <4>1. ~DaemonApply
        BY <3>1 DEF DaemonApply, IdleDaemon
      <4> QED BY <1>5, <4>1, KeepingDaemon
    <3>3. /\ SameRequest(exchange, exchange')
          /\ exchange'.response_seen = exchange.response_seen
          /\ exchange'.response = exchange.response
      BY <1>5, <3>1, KeepingFields
    <3> QED BY <2>3, <3>2, <3>3 DEF MeasureInv, SameRequest
  <2> QED BY <1>5, <2>1, <2>2, <2>3, ComputeEntered
<1> QED BY StepKinds, <1>1, <1>2, <1>3, <1>4, <1>5

(* What a step that keeps the request does to the average and to the       *)
(* capability, when it is not the write-back.                              *)
LEMMA KeepingEvidence ==
  ASSUME TypeOK, Keeping, ~DaemonApply
  PROVE  /\ rate' = rate /\ averaged' \in {averaged, {}}
         /\ capability'.lifecycle = capability.lifecycle
         /\ capability'.request = capability.request
         /\ capability'.qualified => capability.qualified
         /\ exchange'.multiple => exchange.multiple \/ ~capability'.qualified
<1>0. exchange \in Exchanges /\ capability \in Capabilities /\ rate' = rate
  BY KeepingDaemon DEF TypeOK
<1>1. ASSUME Disqualify(exchange')
      PROVE  /\ capability'.lifecycle = capability.lifecycle
             /\ capability'.request = capability.request
             /\ capability'.qualified => capability.qualified
             /\ exchange'.multiple => ~capability'.qualified
  BY <1>0, <1>1 DEF Disqualify, Capabilities
<1>2. CASE DaemonResponse
  BY <1>0, <1>1, <1>2 DEF DaemonResponse
<1>3. CASE DaemonFollowUp
  BY <1>0, <1>1, <1>3 DEF DaemonFollowUp, Finish
<1>4. CASE DaemonReplay
  <2>1. CASE gptp /\ exchange.generation = daemon.generation
    BY <1>0, <1>1, <1>4, <2>1 DEF DaemonReplay, Finish
  <2>2. CASE ~(gptp /\ exchange.generation = daemon.generation)
    BY <1>0, <1>4, <2>2 DEF DaemonReplay
  <2> QED BY <2>1, <2>2
<1>5. CASE DaemonTake
  BY <1>0, <1>5 DEF DaemonTake, Exchanges
<1>6. CASE DaemonExpire
  BY <1>0, <1>6, ExpireFields DEF DaemonExpire
<1>7. ASSUME Arm PROVE exchange'.multiple = exchange.multiple
  BY <1>0, <1>7 DEF Arm, Exchanges
<1>8. CASE DaemonArm \/ LinkRepeat \/ LinkArm \/ ResetArm
  BY <1>0, <1>7, <1>8 DEF DaemonArm, LinkRepeat, LinkArm, ResetArm
<1>9. CASE \/ DaemonOutOfRange \/ DaemonStep \/ LinkSet
           \/ DaemonStandard \/ DaemonNegotiate
  BY <1>0, <1>9 DEF DaemonOutOfRange, DaemonStep, LinkSet, DaemonStandard,
                    DaemonNegotiate
<1>10. CASE ResetProfile \/ ResetDelay \/ ResetInterval \/ Tick \/ UNCHANGED vars
  BY <1>0, <1>10 DEF ResetProfile, ResetDelay, ResetInterval, Tick, vars
<1> QED BY <1>2, <1>3, <1>4, <1>5, <1>6, <1>8, <1>9, <1>10 DEF Keeping

(* The timer leaves the evidence about the neighbor alone.                 *)
LEMMA TimerEvidence ==
  ASSUME TimerBegin \/ TimerStandard \/ TimerSend \/ TimerPublish
  PROVE  UNCHANGED <<rate, averaged, capability, link>>
BY DEF TimerBegin, TimerStandard, TimerSend, TimerPublish

(* Every step keeps the averages of one neighbor.                          *)
LEMMA AverageStep ==
  ASSUME TypeOK, AverageOneNeighbor, [Next]_vars
  PROVE  AverageOneNeighbor'
<1>1. CASE TimerBegin \/ TimerStandard \/ TimerSend \/ TimerPublish
  BY <1>1, TimerEvidence DEF AverageOneNeighbor
<1>2. CASE Dropping
  <2>1. averaged' = averaged
    BY <1>2, DroppingFields
  <2>2. rate'.lifecycle = rate.lifecycle /\ rate'.responder = rate.responder
    BY <1>2 DEF Dropping, DaemonClean, LinkInvalidate, ResetClean,
                ptp_clean_after_step, TypeOK, Rates
  <2> QED BY <2>1, <2>2 DEF AverageOneNeighbor
<1>3. CASE Keeping /\ ~DaemonApply
  <2>1. rate' = rate /\ averaged' \in {averaged, {}}
    BY <1>3, KeepingEvidence
  <2> QED BY <2>1 DEF AverageOneNeighbor
<1>4. CASE DaemonApply
  <2>1. CASE ~Current
    BY <1>4, <2>1, ApplyFields DEF AverageOneNeighbor
  <2>2. CASE Current
    <3>1. /\ rate'.lifecycle = daemon.lifecycle
          /\ rate'.responder = daemon.follow_up.source
      BY <1>4, <2>2, ApplyFields DEF SameNeighbor
    <3>2. (IF SameNeighbor(rate, daemon.lifecycle, daemon.follow_up.source)
           THEN averaged ELSE {})
            \subseteq {<<daemon.lifecycle, daemon.follow_up.source>>}
      BY DEF AverageOneNeighbor, SameNeighbor
    <3>3. averaged' \subseteq {<<daemon.lifecycle, daemon.follow_up.source>>}
      BY <1>4, <2>2, <3>2, ApplyFields
    <3> QED BY <3>1, <3>3 DEF AverageOneNeighbor
  <2> QED BY <2>1, <2>2
<1> QED BY StepKinds, <1>1, <1>2, <1>3, <1>4

(* Every step keeps the invariant of link changes.                         *)
LEMMA LinkStep ==
  ASSUME TypeOK, TypeOK', RequestInv, EpochInv, MeasureInv, LinkInv, [Next]_vars
  PROVE  LinkInv'
<1>0. /\ exchange \in Exchanges /\ exchange.lifecycle \in Nat /\ now \in Nat
      /\ interval \in Nat /\ delay_req_seq \in Nat /\ capability.lifecycle \in Nat
      /\ begun \in [Requests -> Nat] /\ capability.request \in Nat
  BY Basics DEF TypeOK, Capabilities
<1>1. CASE TimerBegin
  <2> DEFINE x == ptp_peer_expire(exchange)
  <2>1. x \in Exchanges /\ x.lifecycle = exchange.lifecycle
    BY <1>0, ExchangeTypes, ExpireFields DEF SameRequest
  <2>2. delay_req_seq + 1 \in Nat /\ now + interval \in Nat
    BY <1>0
  <2>3. exchange' = ptp_peer_begin(x, delay_req_seq + 1, now + interval)
    BY <1>1 DEF TimerBegin
  <2> HIDE DEF x
  <2>4. /\ exchange'.sequence = delay_req_seq + 1
        /\ exchange'.lifecycle = exchange.lifecycle /\ ~exchange'.multiple
    BY <2>1, <2>2, <2>3, BeginFields
  <2>5. /\ begun' = [begun EXCEPT ![delay_req_seq + 1] = link.changes]
        /\ delay_req_seq' = delay_req_seq + 1 /\ UNCHANGED <<capability, link>>
        /\ delay_req_seq < MaxRequests
    BY <1>1 DEF TimerBegin
  <2>6. delay_req_seq + 1 \in Requests
    BY <1>0, <2>5, Basics DEF Requests
  <2>7. \A r \in 1..delay_req_seq : /\ r \in 1..(delay_req_seq + 1)
                                    /\ begun'[r] = begun[r]
    BY <1>0, <2>5, Basics DEF Requests
  <2> QED BY <1>0, <2>4, <2>5, <2>6, <2>7 DEF LinkInv
<1>2. CASE TimerStandard \/ TimerSend
  <2>1. /\ UNCHANGED <<exchange, begun, link, capability>>
        /\ delay_req_seq' \in {delay_req_seq, delay_req_seq + 1}
    BY <1>2 DEF TimerStandard, TimerSend
  <2>2. 1..delay_req_seq \subseteq 1..delay_req_seq'
    BY <1>0, <2>1
  <2> QED BY <2>1, <2>2 DEF LinkInv
<1>3. CASE TimerPublish
  <2>1. /\ UNCHANGED <<begun, link, capability, delay_req_seq>>
        /\ exchange'.lifecycle = exchange.lifecycle
        /\ exchange'.multiple = exchange.multiple
        /\ exchange'.sequence = exchange.sequence
    BY <1>0, <1>3 DEF TimerPublish, ptp_peer_publish, ptp_peer_cancel, Exchanges
  <2>2. Live(exchange') => Live(exchange)
    BY <1>0, <1>3 DEF TimerPublish, ptp_peer_publish, ptp_peer_cancel, CanPublish,
                      Live, Exchanges
  <2> QED BY <2>1, <2>2 DEF LinkInv
<1>4. CASE Dropping
  <2>1. /\ ~Live(exchange') /\ ~exchange'.multiple
        /\ UNCHANGED <<capability, begun, delay_req_seq>>
    BY <1>4, DroppingFields DEF Dropped, Live
  <2>2. \/ exchange'.lifecycle = exchange.lifecycle + 1
        \/ exchange'.lifecycle = exchange.lifecycle /\ UNCHANGED link
    BY <1>0, <1>4, InvalidateFields, AbandonFields
       DEF Dropping, DaemonClean, LinkInvalidate, ResetClean, ptp_clean_after_step
  <2> QED BY <1>0, <2>1, <2>2 DEF LinkInv
<1>5. CASE Keeping
  <2>1. /\ Live(exchange') = Live(exchange) /\ exchange'.sequence = exchange.sequence
        /\ exchange'.lifecycle = exchange.lifecycle
        /\ UNCHANGED <<begun, delay_req_seq>> /\ link'.changes = link.changes
    BY <1>5, KeepingFields DEF SameRequest, Live
  <2>2. CASE ~DaemonApply
    <3>1. /\ capability'.lifecycle = capability.lifecycle
          /\ capability'.request = capability.request
          /\ capability'.qualified => capability.qualified
          /\ exchange'.multiple => exchange.multiple \/ ~capability'.qualified
      BY <1>5, <2>2, KeepingEvidence
    <3> QED BY <2>1, <3>1 DEF LinkInv
  <2>3. CASE DaemonApply /\ ~Current
    BY <2>1, <2>3, ApplyFields DEF LinkInv
  <2>4. CASE DaemonApply /\ Current
    <3>1. /\ daemon.pc = "compute" /\ exchange' = exchange
          /\ capability'.lifecycle = daemon.lifecycle
          /\ capability'.request = daemon.transmit.request
      BY <2>4, ApplyFields
    <3>2. /\ daemon.generation = exchange.generation /\ ~exchange.multiple
          /\ daemon.lifecycle = exchange.lifecycle
      BY <2>4 DEF Current
    <3>3. exchange.published /\ daemon.transmit = exchange.transmit
      BY <3>1, <3>2 DEF MeasureInv
    <3>4. /\ exchange.transmit.request = exchange.sequence /\ Live(exchange)
          /\ exchange.sequence \in 1..delay_req_seq
      BY <3>3 DEF EpochInv, RequestInv, Live
    <3> QED BY <1>0, <2>1, <3>1, <3>2, <3>3, <3>4 DEF LinkInv
  <2> QED BY <2>2, <2>3, <2>4
<1> QED BY StepKinds, <1>1, <1>2, <1>3, <1>4, <1>5

(* What a step that keeps the request does to the loss counts, when it     *)
(* neither counts a loss nor takes a measurement.                          *)
LEMMA KeepingLosses ==
  ASSUME TypeOK, Keeping, ~DaemonExpire, ~\E f \in Frames : Accepting(f)
  PROVE  /\ UNCHANGED <<lost, measured>> /\ now' \in {now, now + 1}
         /\ exchange'.consumed = exchange.consumed
         /\ exchange'.loss_counted = exchange.loss_counted
         /\ exchange'.lost_responses \in {exchange.lost_responses, 0}
<1>0. exchange \in Exchanges /\ daemon.follow_up \in Frames
  BY DEF TypeOK, DaemonStates
<1>1. CASE DaemonResponse
  <2> PICK f \in Arrivals : exchange' = ptp_peer_response(exchange, f)
    BY <1>1 DEF DaemonResponse
  <2>1. f \in Frames
    BY ArrivalTypes
  <2> QED BY <1>0, <1>1, <2>1, ResponseFields DEF DaemonResponse
<1>2. ASSUME NEW f \in Frames, Finish(f), DaemonFollowUp \/ DaemonReplay
      PROVE  /\ UNCHANGED measured
             /\ exchange'.consumed = exchange.consumed
             /\ exchange'.loss_counted = exchange.loss_counted
             /\ exchange'.lost_responses = exchange.lost_responses
  <2>1. ~FollowUpAccepted(exchange, f)
    BY <1>2 DEF Accepting
  <2> QED BY <1>0, <1>2, <2>1, FinishFields DEF Finish
<1>3. CASE DaemonFollowUp
  <2> PICK f \in Arrivals : Finish(f)
    BY <1>3 DEF DaemonFollowUp
  <2>1. f \in Frames
    BY ArrivalTypes
  <2>2. UNCHANGED <<lost, now>>
    BY <1>3 DEF DaemonFollowUp
  <2> QED BY <1>2, <1>3, <2>1, <2>2
<1>4. CASE DaemonReplay
  <2>1. UNCHANGED <<lost, now>>
    BY <1>4 DEF DaemonReplay
  <2>2. Finish(daemon.follow_up) \/ UNCHANGED <<exchange, measured>>
    BY <1>4 DEF DaemonReplay
  <2> QED BY <1>0, <1>2, <1>4, <2>1, <2>2
<1>5. CASE DaemonTake
  BY <1>0, <1>5 DEF DaemonTake, Exchanges
<1>6. ASSUME Arm
      PROVE  /\ exchange'.consumed = exchange.consumed
             /\ exchange'.loss_counted = exchange.loss_counted
             /\ exchange'.lost_responses \in {exchange.lost_responses, 0}
  BY <1>0, <1>6 DEF Arm, Exchanges
<1>7. CASE DaemonArm \/ LinkRepeat \/ LinkArm \/ ResetArm
  BY <1>6, <1>7 DEF DaemonArm, LinkRepeat, LinkArm, ResetArm
<1>8. CASE \/ DaemonOutOfRange \/ DaemonApply \/ DaemonStep \/ LinkSet
           \/ DaemonStandard \/ DaemonNegotiate
  BY <1>8 DEF DaemonOutOfRange, DaemonApply, DaemonStep, LinkSet, DaemonStandard,
              DaemonNegotiate
<1>9. CASE ResetProfile \/ ResetDelay \/ ResetInterval \/ Tick \/ UNCHANGED vars
  BY <1>9 DEF ResetProfile, ResetDelay, ResetInterval, Tick, vars
<1> QED BY <1>1, <1>3, <1>4, <1>5, <1>7, <1>8, <1>9 DEF Keeping

(* Counting the request in progress counts one that was not counted yet.   *)
LEMMA CountOne ==
  ASSUME TypeOK, RequestInv, LossInv, Expired(exchange)
  PROVE  LET L == lost \cup {exchange.sequence}
         IN  /\ L \subseteq 1..delay_req_seq /\ L \cap measured = {}
             /\ IsFiniteSet(L)
             /\ exchange.lost_responses + 1 <= Cardinality(L)
<1>1. Live(exchange) /\ ~exchange.consumed /\ ~exchange.loss_counted
  BY DEF Expired, Live
<1>2. /\ exchange.sequence \in 1..delay_req_seq
      /\ exchange.sequence \notin lost /\ exchange.sequence \notin measured
  BY <1>1 DEF RequestInv, LossInv
<1>3. IsFiniteSet(lost) /\ exchange.lost_responses <= Cardinality(lost)
  BY DEF LossInv
<1>4. exchange.lost_responses \in Nat
  BY DEF TypeOK, Exchanges
<1>5. /\ IsFiniteSet(lost \cup {exchange.sequence})
      /\ Cardinality(lost \cup {exchange.sequence}) = Cardinality(lost) + 1
  BY <1>2, <1>3, FS_AddElement
<1>6. Cardinality(lost) \in Nat
  BY <1>3, FS_CardinalityType
<1>7. exchange.lost_responses + 1 <= Cardinality(lost) + 1
  BY <1>3, <1>4, <1>6
<1>8. /\ lost \cup {exchange.sequence} \subseteq 1..delay_req_seq
      /\ (lost \cup {exchange.sequence}) \cap measured = {}
  BY <1>2 DEF LossInv
<1> QED BY <1>5, <1>7, <1>8

(* Every step keeps the invariant of losses.                               *)
LEMMA LossStep ==
  ASSUME TypeOK, TypeOK', RequestInv, LossInv, [Next]_vars
  PROVE  LossInv'
<1>0. /\ exchange \in Exchanges /\ now \in Nat /\ interval \in Nat
      /\ delay_req_seq \in Nat /\ exchange.deadline \in Nat
  BY Basics
<1>a. Cardinality(lost) \in Nat /\ exchange.lost_responses \in Nat
  BY FS_CardinalityType DEF LossInv, TypeOK, Exchanges
<1>1. CASE TimerBegin
  <2> DEFINE x == ptp_peer_expire(exchange)
  <2>1. /\ x \in Exchanges
        /\ Expired(exchange) => x.lost_responses = exchange.lost_responses + 1
        /\ ~Expired(exchange) => x.lost_responses = exchange.lost_responses
    BY <1>0, ExchangeTypes, ExpireFields
  <2>2. delay_req_seq + 1 \in Nat /\ now + interval \in Nat
    BY <1>0
  <2>3. exchange' = ptp_peer_begin(x, delay_req_seq + 1, now + interval)
    BY <1>1 DEF TimerBegin
  <2> HIDE DEF x
  <2>4. /\ exchange'.sequence = delay_req_seq + 1
        /\ exchange'.lost_responses = x.lost_responses
    BY <2>1, <2>2, <2>3, BeginFields
  <2>5. /\ delay_req_seq' = delay_req_seq + 1 /\ measured' = measured
        /\ lost' = IF Expired(exchange) THEN lost \cup {exchange.sequence} ELSE lost
    BY <1>1 DEF TimerBegin
  <2>6. /\ lost' \subseteq 1..delay_req_seq /\ lost' \cap measured = {}
        /\ IsFiniteSet(lost') /\ exchange'.lost_responses <= Cardinality(lost')
    <3>1. CASE Expired(exchange)
      BY <2>1, <2>4, <2>5, <3>1, CountOne
    <3>2. CASE ~Expired(exchange)
      BY <2>1, <2>4, <2>5, <3>2 DEF LossInv
    <3> QED BY <3>1, <3>2
  <2>7. measured \subseteq 1..delay_req_seq
    BY DEF LossInv
  <2>8. /\ 1..delay_req_seq \subseteq 1..(delay_req_seq + 1)
        /\ delay_req_seq + 1 \notin 1..delay_req_seq
    BY <1>0
  <2> QED BY <2>4, <2>5, <2>6, <2>7, <2>8 DEF LossInv
<1>2. CASE TimerStandard \/ TimerSend
  <2>1. /\ UNCHANGED <<exchange, lost, measured, now>>
        /\ delay_req_seq' \in {delay_req_seq, delay_req_seq + 1}
    BY <1>2 DEF TimerStandard, TimerSend
  <2>2. 1..delay_req_seq \subseteq 1..delay_req_seq'
    BY <1>0, <2>1
  <2> QED BY <2>1, <2>2 DEF LossInv
<1>3. CASE TimerPublish
  <2>1. /\ UNCHANGED <<lost, measured, now, delay_req_seq>>
        /\ exchange'.sequence = exchange.sequence
        /\ exchange'.deadline = exchange.deadline
        /\ exchange'.consumed = exchange.consumed
        /\ exchange'.loss_counted = exchange.loss_counted
        /\ exchange'.lost_responses = exchange.lost_responses
    BY <1>0, <1>3 DEF TimerPublish, ptp_peer_publish, ptp_peer_cancel, Exchanges
  <2>2. Live(exchange') => Live(exchange)
    BY <1>0, <1>3 DEF TimerPublish, ptp_peer_publish, ptp_peer_cancel, CanPublish,
                      Live, Exchanges
  <2> QED BY <2>1, <2>2 DEF LossInv
<1>4. CASE Dropping
  <2>1. ~Live(exchange') /\ UNCHANGED <<lost, measured, delay_req_seq>>
    BY <1>4, DroppingFields DEF Dropped, Live
  <2>2. exchange'.lost_responses \in {exchange.lost_responses, 0}
    BY <1>0, <1>4, InvalidateFields, AbandonFields
       DEF Dropping, DaemonClean, LinkInvalidate, ResetClean, ptp_clean_after_step
  <2> QED BY <1>a, <2>1, <2>2 DEF LossInv
<1>5. CASE DaemonExpire
  <2>1. /\ Expired(exchange) /\ exchange' = ptp_peer_expire(exchange)
        /\ lost' = lost \cup {exchange.sequence}
        /\ UNCHANGED <<measured, now, delay_req_seq>>
    BY <1>5 DEF DaemonExpire
  <2>2. /\ SameRequest(exchange, exchange') /\ exchange'.consumed = exchange.consumed
        /\ exchange'.loss_counted
        /\ exchange'.lost_responses = exchange.lost_responses + 1
    BY <1>0, <2>1, ExpireFields
  <2>3. /\ exchange'.sequence = exchange.sequence /\ Live(exchange') = Live(exchange)
        /\ exchange'.deadline = exchange.deadline /\ now >= exchange.deadline
    BY <2>1, <2>2 DEF SameRequest, Live, Expired
  <2> QED BY <2>1, <2>2, <2>3, CountOne DEF LossInv
<1>6. CASE \E f \in Frames : Accepting(f)
  <2> PICK f \in Frames : Accepting(f)
    BY <1>6
  <2>1. FollowUpAccepted(exchange, f)
    BY DEF Accepting
  <2>2. /\ SameRequest(exchange, exchange') /\ exchange'.consumed
        /\ exchange'.loss_counted = exchange.loss_counted
        /\ exchange'.lost_responses = 0
    BY <1>0, <2>1, AcceptFields, FinishFields
  <2>3. /\ exchange'.sequence = exchange.sequence /\ Live(exchange') = Live(exchange)
        /\ exchange'.deadline = exchange.deadline
    BY <2>2 DEF SameRequest, Live
  <2>4. /\ measured' = measured \cup {exchange.sequence}
        /\ UNCHANGED <<lost, now, delay_req_seq>>
        /\ Live(exchange) /\ now < exchange.deadline
    BY AcceptFields DEF Live
  <2>5. exchange.sequence \in 1..delay_req_seq /\ exchange.sequence \notin lost
    BY <1>0, <2>4 DEF RequestInv, LossInv
  <2>6. /\ measured' \subseteq 1..delay_req_seq /\ lost \cap measured' = {}
    BY <2>4, <2>5 DEF LossInv
  <2>7. exchange'.lost_responses <= Cardinality(lost)
    BY <1>a, <2>2
  <2> QED BY <2>2, <2>3, <2>4, <2>5, <2>6, <2>7 DEF LossInv
<1>7. CASE Keeping /\ ~DaemonExpire /\ ~\E f \in Frames : Accepting(f)
  <2>1. /\ exchange'.sequence = exchange.sequence /\ Live(exchange') = Live(exchange)
        /\ exchange'.deadline = exchange.deadline /\ delay_req_seq' = delay_req_seq
    BY <1>7, KeepingFields DEF SameRequest, Live
  <2>2. /\ UNCHANGED <<lost, measured>> /\ now' \in {now, now + 1}
        /\ exchange'.consumed = exchange.consumed
        /\ exchange'.loss_counted = exchange.loss_counted
        /\ exchange'.lost_responses \in {exchange.lost_responses, 0}
    BY <1>7, KeepingLosses
  <2>3. now >= exchange.deadline => now' >= exchange.deadline
    BY <1>0, <2>2
  <2> QED BY <1>a, <2>1, <2>2, <2>3 DEF LossInv
<1> QED BY StepKinds, <1>1, <1>2, <1>3, <1>4, <1>5, <1>6, <1>7

-----------------------------------------------------------------------------
(* The theorems.                                                           *)

(* The invariant holds at the start.                                       *)
LEMMA InitInv == Init => ExchangeInv
<1> SUFFICES ASSUME Init PROVE ExchangeInv
  OBVIOUS
<1>0. TypeOK /\ Zeroed \in Exchanges
  BY InitType, ConstantTypes DEF Zeroed, Exchanges
<1>1. /\ ~exchange.sending /\ ~exchange.published /\ ~exchange.response_seen
      /\ ~exchange.multiple
      /\ exchange.lost_responses = 0 /\ exchange.lifecycle = 0
  <2>1. exchange = ptp_peer_abandon(Zeroed)
    BY DEF Init
  <2> QED BY <1>0, <2>1, AbandonFields DEF Dropped, Zeroed
<1>2. RequestInv
  BY <1>1 DEF Init, RequestInv, Live
<1>3. EpochInv
  BY <1>1 DEF Init, EpochInv, Live, ZeroRate
<1>4. MeasureInv
  BY DEF Init, MeasureInv, IdleDaemon
<1>5. LinkInv
  BY <1>1 DEF Init, LinkInv, Live
<1>6. LossInv
  BY <1>1, FS_EmptySet DEF Init, LossInv, Live
<1>7. AverageOneNeighbor
  BY DEF Init, AverageOneNeighbor
<1> QED BY <1>2, <1>3, <1>4, <1>5, <1>6, <1>7 DEF ExchangeInv

(* Every step keeps the invariant.                                         *)
LEMMA NextInv == TypeOK /\ TypeOK' /\ ExchangeInv /\ [Next]_vars => ExchangeInv'
BY RequestStep, EpochStep, MeasureStep, LinkStep, LossStep, AverageStep
   DEF ExchangeInv

(* Every interleaving of the timer, daemon, link and reset threads keeps   *)
(* the request, epoch, measurement, link and loss invariants of the port.  *)
THEOREM ExchangeCorrect == Spec => [](TypeOK /\ ExchangeInv)
<1>1. Init => TypeOK /\ ExchangeInv
  BY InitType, InitInv
<1>2. TypeOK /\ ExchangeInv /\ [Next]_vars => (TypeOK /\ ExchangeInv)'
  BY NextType, NextInv
<1> QED BY <1>1, <1>2, PTL DEF Spec

(* The stamps ptp_process_delay_resp_follow_up combines are of one request,*)
(* one responder and one epoch of the local clock.                         *)
THEOREM MeasurementCoherent == Spec => []CoherentMeasurement
<1>1. TypeOK /\ ExchangeInv => CoherentMeasurement
  <2> SUFFICES ASSUME ExchangeInv, daemon.pc = "compute", Current
               PROVE  /\ daemon.transmit.request = daemon.response.sequence
                      /\ daemon.response.sequence = daemon.follow_up.sequence
                      /\ daemon.response.source = daemon.follow_up.source
                      /\ daemon.transmit.epoch = daemon.response.epoch
    BY DEF CoherentMeasurement
  <2>1. /\ exchange.published /\ exchange.response_seen
        /\ daemon.transmit = exchange.transmit
        /\ daemon.response = exchange.response
        /\ daemon.follow_up.sequence = exchange.sequence
        /\ daemon.follow_up.source = exchange.response.source
    BY DEF ExchangeInv, MeasureInv, Current
  <2>2. /\ exchange.transmit.request = exchange.sequence
        /\ exchange.transmit.epoch = departed[exchange.sequence]
        /\ exchange.response.sequence = exchange.sequence
        /\ exchange.response.epoch = epoch
        /\ departed[exchange.sequence] = epoch
    BY <2>1 DEF ExchangeInv, EpochInv
  <2> QED BY <2>1, <2>2
<1> QED BY <1>1, ExchangeCorrect, PTL

(* No rate ratio is computed over an interval that spans a clock step.     *)
THEOREM RatioWithinEpoch == Spec => []RatioSpansNoStep
<1>1. TypeOK /\ ExchangeInv => RatioSpansNoStep
  <2> SUFFICES ASSUME TypeOK, ExchangeInv, daemon.pc = "compute", Current,
                      RateBase(daemon.rate, daemon.lifecycle,
                               daemon.follow_up.source).anchored,
                      ~RateBase(daemon.rate, daemon.lifecycle,
                                daemon.follow_up.source).reanchor
               PROVE  RateBase(daemon.rate, daemon.lifecycle,
                               daemon.follow_up.source).local
                        = daemon.response.epoch
    BY DEF RatioSpansNoStep
  <2>1. RateBase(daemon.rate, daemon.lifecycle, daemon.follow_up.source)
          = daemon.rate
    BY DEF RateBase, ZeroRate
  <2>2. /\ daemon.rate = rate /\ daemon.response = exchange.response
        /\ exchange.response_seen
    BY DEF ExchangeInv, MeasureInv, Current
  <2> QED BY <2>1, <2>2 DEF ExchangeInv, EpochInv
<1> QED BY <1>1, ExchangeCorrect, PTL

(* The write-back never overwrites a re-anchor request made meanwhile.     *)
THEOREM ReanchorKept == Spec => []NoLostReanchor
<1>1. TypeOK /\ ExchangeInv => NoLostReanchor
  BY DEF ExchangeInv, MeasureInv, Current, NoLostReanchor
<1> QED BY <1>1, ExchangeCorrect, PTL

(* The averaged delay is that of one neighbor in one life of the link.     *)
THEOREM AverageCorrect == Spec => []AverageOneNeighbor
<1>1. TypeOK /\ ExchangeInv => AverageOneNeighbor
  BY DEF ExchangeInv
<1> QED BY <1>1, ExchangeCorrect, PTL

(* A port is capable only by an exchange begun on the link as it is now.   *)
THEOREM CapabilityFresh == Spec => []CapableOnThisLink
<1>1. TypeOK /\ ExchangeInv => CapableOnThisLink
  <2>1. TypeOK => 1..delay_req_seq \subseteq Requests
    BY Basics DEF Requests
  <2> QED BY <2>1 DEF ExchangeInv, LinkInv, CapableOnThisLink, ptp_wired_capability
<1> QED BY <1>1, ExchangeCorrect, PTL

(* A request answered twice leaves no capability standing.                 *)
THEOREM PoisonRevokes == Spec => []PoisonedIsNotCapable
<1>1. TypeOK /\ ExchangeInv => PoisonedIsNotCapable
  BY DEF ExchangeInv, LinkInv, PoisonedIsNotCapable, ptp_wired_capability
<1> QED BY <1>1, ExchangeCorrect, PTL

(* A request is lost or measured, never both.                              *)
THEOREM LossExcludesMeasurement == Spec => []LostOrMeasured
<1>1. TypeOK /\ ExchangeInv => LostOrMeasured
  BY DEF ExchangeInv, LossInv, LostOrMeasured
<1> QED BY <1>1, ExchangeCorrect, PTL

(* The count the fallback reads never exceeds the requests really lost.    *)
THEOREM LossCountSound == Spec => []LossesAreDistinct
<1>1. TypeOK /\ ExchangeInv => LossesAreDistinct
  BY DEF ExchangeInv, LossInv, LossesAreDistinct
<1> QED BY <1>1, ExchangeCorrect, PTL

(* The rate ratio spans no step and loses no request to re-anchor.         *)
THEOREM RateCorrect == Spec => []RateIsContinuous
<1>1. RatioSpansNoStep /\ NoLostReanchor => RateIsContinuous
  BY DEF RateIsContinuous
<1> QED BY <1>1, RatioWithinEpoch, ReanchorKept, PTL

(* A capable port is so by an exchange of this link that one neighbor      *)
(* answered.                                                               *)
THEOREM CapabilityCorrect == Spec => []CapabilityIsEarned
<1>1. CapableOnThisLink /\ PoisonedIsNotCapable => CapabilityIsEarned
  BY DEF CapabilityIsEarned
<1> QED BY <1>1, CapabilityFresh, PoisonRevokes, PTL

(* The losses the fallback counts are of different, unmeasured requests.   *)
THEOREM LossCorrect == Spec => []LossesAreSound
<1>1. TypeOK /\ LostOrMeasured /\ LossesAreDistinct => LossesAreSound
  BY DEF LossesAreSound
<1> QED BY <1>1, TypeCorrect, LossExcludesMeasurement, LossCountSound, PTL
=============================================================================
