-------------------------- MODULE FtmSessionProofs --------------------------
(* Proofs about FtmSession, for every value of its constants.              *)
EXTENDS FtmSession, SequenceTheorems, TLAPS

Kinds == {"connected", "disconnected", "stop", "start", "cancel"}
Reports ==
  [kind : {"report"}, peer : APs, status : Statuses, mine : BOOLEAN, here : BOOLEAN]
Events == [kind : Kinds, peer : APs \cup {None}] \cup Reports
Sessions == [peer : APs, ended : BOOLEAN, mine : BOOLEAN, here : BOOLEAN]

(* What a queue holds: an event of a kind; no report behind a report or a  *)
(* stop; only reports of the session as it was begun, or of its            *)
(* association.                                                            *)
Holds(q, kind) == \E i \in 1..Len(q) : q[i].kind = kind
Ordered(q) ==
  \A i, j \in 1..Len(q) : i < j /\ q[i].kind \in {"report", "stop"} => q[j].kind # "report"
OwnReports(q) == \A i \in 1..Len(q) : q[i].kind = "report" => q[i].mine
HereReports(q) == \A i \in 1..Len(q) : q[i].kind = "report" => q[i].here

(* The records behind the ranges of TypeOK.                                *)
Radios == [ap : APs \cup {None}, boot : Nat, session : Sessions \cup {NoSession}]
SessionRecords == [pending : BOOLEAN, valid : BOOLEAN, peer : APs \cup {None}]
MediaRecords ==
  [granted : {0, 2, 3}, requested : {0, 2, 3, 8, 16}, frames : {2, 3, 8}, here : BOOLEAN]
BitRecords == [connected : BOOLEAN, report : BOOLEAN]
Beacons == [fresh : BOOLEAN, boot : Nat, associated : BOOLEAN]
Policies ==
  [association : Nat, revision : Nat, peer : APs \cup {None}, bound : BOOLEAN,
   stopped : BOOLEAN, taken : Nat \X Nat]
Resets == [baseline : BOOLEAN, boot : Nat, streak : 0..Confirm - 1]

Shapes ==
  /\ radio \in Radios /\ events \in Seq(Events) /\ Len(events) <= EventMax
  /\ session \in SessionRecords /\ media \in MediaRecords
  /\ bits \in BitRecords /\ beacon \in Beacons
  /\ policy \in Policies /\ reset \in Resets
  /\ client \in {"idle", "post", "wait", "cancel"}
  /\ discipline \in BOOLEAN

(* A session of the driver, or the one report it left, is what pending     *)
(* stands for; behind a stop there is neither.                             *)
PendingInv ==
  /\ session.valid => session.pending
  /\ radio.session # NoSession => session.pending
  /\ Holds(events, "report") => session.pending /\ radio.session = NoSession
  /\ Holds(events, "stop") => radio.ap = None /\ radio.session = NoSession
  /\ Ordered(events)

(* The snapshot taken is no later than the policy.                         *)
TakenInv ==
  \/ policy.taken[1] < policy.association
  \/ policy.taken[1] = policy.association /\ policy.taken[2] <= policy.revision

Void == ~session.valid \/ (discipline /\ policy.taken # Snapshot)

(* Work that is no longer what it was begun for cannot be accepted, and    *)
(* work of another association requests nothing in this one.               *)
InFlightInv ==
  /\ ~OwnReports(events) => Void
  /\ radio.session # NoSession /\ ~radio.session.mine => Void
  /\ ~HereReports(events) => media.requested = 0
  /\ radio.session # NoSession /\ ~radio.session.here => media.requested = 0

LoopInv == Shapes /\ PendingInv /\ TakenInv /\ InFlightInv /\ GrantIsCurrent

(* Marking the reports of a queue changes nothing else of it.              *)
LEMMA OutdatedQueue ==
  ASSUME NEW q \in Seq(Events)
  PROVE  /\ Outdated(q) \in Seq(Events) /\ Len(Outdated(q)) = Len(q)
         /\ \A kind : Holds(Outdated(q), kind) <=> Holds(q, kind)
         /\ Ordered(q) => Ordered(Outdated(q))
         /\ HereReports(q) => HereReports(Outdated(q))
<1> DEFINE m == Outdated(q)
<1>1. DOMAIN q = 1..Len(q) /\ Len(q) \in Nat /\ \A i \in 1..Len(q) : q[i] \in Events
  OBVIOUS
<1>2. DOMAIN m = 1..Len(q)
  BY <1>1 DEF Outdated
<1>3. ASSUME NEW i \in 1..Len(q)
      PROVE  m[i] \in Events /\ m[i].kind = q[i].kind /\ (q[i].kind = "report" => m[i].here = q[i].here)
  <2>1. m[i] = IF q[i].kind = "report" THEN [q[i] EXCEPT !.mine = FALSE] ELSE q[i]
    BY <1>1 DEF Outdated
  <2>2. CASE q[i].kind = "report"
    <3>1. q[i] \in Reports
      BY <1>1, <2>2 DEF Events, Kinds
    <3> QED BY <3>1, <2>1, <2>2 DEF Events, Reports
  <2>3. CASE q[i].kind # "report"
    BY <1>1, <2>1, <2>3
  <2> QED BY <2>2, <2>3
<1>4. m \in Seq(Events) /\ Len(m) = Len(q)
  <2>1. m = [i \in 1..Len(q) |-> m[i]]
    BY <1>1, <1>2 DEF Outdated
  <2> QED BY <1>1, <1>2, <1>3, <2>1
<1> QED BY <1>3, <1>4 DEF Holds, Ordered, HereReports

(* Marking queued events as foreign neither adds, loses nor reorders them. *)
LEMMA ElsewhereQueue ==
  ASSUME NEW q \in Seq(Events)
  PROVE  /\ Elsewhere(q) \in Seq(Events) /\ Len(Elsewhere(q)) = Len(q)
         /\ \A kind : Holds(Elsewhere(q), kind) <=> Holds(q, kind)
         /\ Ordered(q) => Ordered(Elsewhere(q))
<1> DEFINE m == Elsewhere(q)
<1>1. DOMAIN q = 1..Len(q) /\ Len(q) \in Nat /\ \A i \in 1..Len(q) : q[i] \in Events
  OBVIOUS
<1>2. DOMAIN m = 1..Len(q)
  BY <1>1 DEF Elsewhere
<1>3. ASSUME NEW i \in 1..Len(q) PROVE m[i] \in Events /\ m[i].kind = q[i].kind
  <2>1. m[i] = IF q[i].kind = "report" THEN [q[i] EXCEPT !.mine = FALSE, !.here = FALSE] ELSE q[i]
    BY <1>1 DEF Elsewhere
  <2>2. CASE q[i].kind = "report"
    <3>1. q[i] \in Reports
      BY <1>1, <2>2 DEF Events, Kinds
    <3> DEFINE outdated == [q[i] EXCEPT !.mine = FALSE]
    <3>2. outdated \in Reports /\ m[i] = [outdated EXCEPT !.here = FALSE]
      BY <3>1, <2>1, <2>2 DEF Reports
    <3> HIDE DEF outdated
    <3>3. m[i] \in Reports /\ m[i].kind = "report"
      BY <3>2 DEF Reports
    <3> QED BY <3>3, <2>2 DEF Events
  <2>3. CASE q[i].kind # "report"
    BY <1>1, <2>1, <2>3
  <2> QED BY <2>2, <2>3
<1>4. m \in Seq(Events) /\ Len(m) = Len(q)
  <2>1. m = [i \in 1..Len(q) |-> m[i]]
    BY <1>1, <1>2 DEF Elsewhere
  <2> QED BY <1>1, <1>2, <1>3, <2>1
<1> QED BY <1>3, <1>4 DEF Holds, Ordered

(* Taking the first event of a queue.                                      *)
LEMMA TailQueue ==
  ASSUME NEW q \in Seq(Events), q # <<>>
  PROVE  /\ Tail(q) \in Seq(Events) /\ Len(Tail(q)) < Len(q) /\ Head(q) \in Events
         /\ Holds(q, Head(q).kind)
         /\ \A kind : Holds(Tail(q), kind) => Holds(q, kind)
         /\ Ordered(q) => Ordered(Tail(q))
         /\ Ordered(q) /\ Head(q).kind \in {"report", "stop"} => ~Holds(Tail(q), "report")
         /\ OwnReports(q) => OwnReports(Tail(q))
         /\ HereReports(q) => HereReports(Tail(q))
         /\ OwnReports(q) /\ Head(q).kind = "report" => Head(q).mine
         /\ HereReports(q) /\ Head(q).kind = "report" => Head(q).here
<1>1. /\ Tail(q) \in Seq(Events) /\ Len(Tail(q)) = Len(q) - 1 /\ Len(q) \in Nat \ {0}
      /\ Head(q) = q[1] /\ Head(q) \in Events
      /\ \A i \in 1..Len(q) - 1 : Tail(q)[i] = q[i + 1]
  BY HeadTailProperties, EmptySeq
<1>2. 1 \in 1..Len(q) /\ \A i \in 1..Len(Tail(q)) : i + 1 \in 1..Len(q) /\ Tail(q)[i] = q[i + 1]
  BY <1>1
<1>3. Holds(q, Head(q).kind)
  BY <1>1, <1>2 DEF Holds
<1>4. \A kind : Holds(Tail(q), kind) => Holds(q, kind)
  BY <1>1, <1>2 DEF Holds
<1>5. Ordered(q) => Ordered(Tail(q))
  <2> SUFFICES ASSUME Ordered(q), NEW i \in 1..Len(Tail(q)), NEW j \in 1..Len(Tail(q)), i < j,
                      Tail(q)[i].kind \in {"report", "stop"}
               PROVE  Tail(q)[j].kind # "report"
    BY DEF Ordered
  <2>1. i + 1 < j + 1 /\ i + 1 \in 1..Len(q) /\ j + 1 \in 1..Len(q)
    BY <1>2
  <2> QED BY <1>2, <2>1 DEF Ordered
<1>6. Ordered(q) /\ Head(q).kind \in {"report", "stop"} => ~Holds(Tail(q), "report")
  <2> SUFFICES ASSUME Ordered(q), Head(q).kind \in {"report", "stop"}, NEW i \in 1..Len(Tail(q))
               PROVE  Tail(q)[i].kind # "report"
    BY DEF Holds
  <2>1. 1 < i + 1 /\ i + 1 \in 1..Len(q)
    BY <1>2
  <2> QED BY <1>1, <1>2, <2>1 DEF Ordered
<1>7. /\ OwnReports(q) => OwnReports(Tail(q))
      /\ HereReports(q) => HereReports(Tail(q))
      /\ OwnReports(q) /\ Head(q).kind = "report" => Head(q).mine
      /\ HereReports(q) /\ Head(q).kind = "report" => Head(q).here
  BY <1>1, <1>2 DEF OwnReports, HereReports
<1> QED BY <1>1, <1>3, <1>4, <1>5, <1>6, <1>7

(* Posting an event.                                                       *)
LEMMA AppendQueue ==
  ASSUME NEW q \in Seq(Events), NEW e \in Events
  PROVE  /\ Append(q, e) \in Seq(Events) /\ Len(Append(q, e)) = Len(q) + 1
         /\ \A kind : Holds(Append(q, e), kind) <=> Holds(q, kind) \/ e.kind = kind
         /\ Ordered(q) /\ (e.kind = "report" => ~Holds(q, "report") /\ ~Holds(q, "stop"))
              => Ordered(Append(q, e))
         /\ OwnReports(q) /\ (e.kind = "report" => e.mine) => OwnReports(Append(q, e))
         /\ HereReports(q) /\ (e.kind = "report" => e.here) => HereReports(Append(q, e))
<1> DEFINE a == Append(q, e)
<1>1. /\ a \in Seq(Events) /\ Len(a) = Len(q) + 1 /\ Len(q) \in Nat /\ a[Len(q) + 1] = e
      /\ \A i \in 1..Len(q) : a[i] = q[i]
  BY AppendProperties
<1>2. \A i \in 1..Len(a) : i \in 1..Len(q) \/ i = Len(q) + 1
  BY <1>1
<1>3. 1..Len(q) \subseteq 1..Len(a) /\ Len(q) + 1 \in 1..Len(a)
  BY <1>1
<1> HIDE DEF a
<1>4. \A kind : Holds(a, kind) <=> Holds(q, kind) \/ e.kind = kind
  BY <1>1, <1>2, <1>3 DEF Holds
<1>5. Ordered(q) /\ (e.kind = "report" => ~Holds(q, "report") /\ ~Holds(q, "stop")) => Ordered(a)
  <2> SUFFICES ASSUME Ordered(q), e.kind = "report" => ~Holds(q, "report") /\ ~Holds(q, "stop"),
                      NEW i \in 1..Len(a), NEW j \in 1..Len(a), i < j,
                      a[i].kind \in {"report", "stop"}
               PROVE  a[j].kind # "report"
    BY DEF Ordered
  <2>1. i \in 1..Len(q)
    BY <1>1
  <2>2. CASE j \in 1..Len(q)
    BY <1>1, <2>1, <2>2 DEF Ordered
  <2>3. CASE j = Len(q) + 1
    BY <1>1, <2>1, <2>3 DEF Holds
  <2> QED BY <1>2, <2>2, <2>3
<1>6. /\ OwnReports(q) /\ (e.kind = "report" => e.mine) => OwnReports(a)
      /\ HereReports(q) /\ (e.kind = "report" => e.here) => HereReports(a)
  BY <1>1, <1>2 DEF OwnReports, HereReports
<1> QED BY <1>1, <1>4, <1>5, <1>6 DEF a

(* A queue without reports has none of a wrong session.                    *)
LEMMA NoReports ==
  ASSUME NEW q, ~Holds(q, "report")
  PROVE  OwnReports(q) /\ HereReports(q)
BY DEF Holds, OwnReports, HereReports

(* What handling the first event leaves of a queue that keeps the          *)
(* invariant.                                                              *)
LEMMA LoopQueue ==
  ASSUME LoopInv, events # <<>>
  PROVE  LET t == Tail(events)
         IN /\ \A q \in {t, Outdated(t), Elsewhere(t)} :
                 /\ q \in Seq(Events) /\ Len(q) < Len(events) /\ Ordered(q)
                 /\ \A kind : Holds(q, kind) => Holds(events, kind)
                 /\ Head(events).kind \in {"report", "stop"} => ~Holds(q, "report")
            /\ Head(events) \in Events /\ Holds(events, Head(events).kind)
            /\ OwnReports(events) => OwnReports(t)
            /\ HereReports(events) => HereReports(t) /\ HereReports(Outdated(t))
            /\ Len(events) \in Nat
<1> DEFINE t == Tail(events)
<1>1. events \in Seq(Events) /\ Ordered(events)
  BY DEF LoopInv, Shapes, PendingInv
<1>2. /\ t \in Seq(Events) /\ Len(t) < Len(events) /\ Ordered(t) /\ Head(events) \in Events
      /\ Holds(events, Head(events).kind)
      /\ \A kind : Holds(t, kind) => Holds(events, kind)
      /\ Head(events).kind \in {"report", "stop"} => ~Holds(t, "report")
      /\ OwnReports(events) => OwnReports(t)
      /\ HereReports(events) => HereReports(t)
  BY <1>1, TailQueue
<1> HIDE DEF t
<1>3. /\ Outdated(t) \in Seq(Events) /\ Len(Outdated(t)) = Len(t)
      /\ \A kind : Holds(Outdated(t), kind) <=> Holds(t, kind)
      /\ Ordered(Outdated(t)) /\ (HereReports(t) => HereReports(Outdated(t)))
  BY <1>2, OutdatedQueue
<1>4. /\ Elsewhere(t) \in Seq(Events) /\ Len(Elsewhere(t)) = Len(t)
      /\ \A kind : Holds(Elsewhere(t), kind) <=> Holds(t, kind)
      /\ Ordered(Elsewhere(t))
  BY <1>2, ElsewhereQueue
<1> QED BY <1>1, <1>2, <1>3, <1>4 DEF t

(* The records keep their shapes, and the queue its bound.                 *)
LEMMA ShapesStep == LoopInv /\ [Next]_vars => Shapes'
<1> SUFFICES ASSUME LoopInv, [Next]_vars PROVE Shapes'
  OBVIOUS
<1>a. Confirm \in Nat \ {0} /\ EventMax \in Nat \ {0} /\ 0 \in 0..Confirm - 1 /\ None \notin APs
  BY FtmAssumption
<1>b. Shapes
  BY DEF LoopInv
<1>t. /\ events # <<>> =>
           /\ \A q \in {Tail(events), Outdated(Tail(events)), Elsewhere(Tail(events))} :
                 q \in Seq(Events) /\ Len(q) < Len(events)
           /\ Head(events) \in Events
      /\ Outdated(events) \in Seq(Events) /\ Len(Outdated(events)) = Len(events)
      /\ Len(events) \in Nat
  BY <1>b, LoopQueue, OutdatedQueue DEF Shapes
<1>p. ASSUME NEW e \in Events, Post(e) PROVE events' \in Seq(Events) /\ Len(events') <= EventMax
  BY <1>a, <1>b, <1>t, <1>p, AppendQueue DEF Post, Shapes
<1>e. ASSUME NEW kind \in Kinds, NEW peer \in APs \cup {None} PROVE Event(kind, peer) \in Events
  BY DEF Event, Events
<1>h. events # <<>> /\ Head(events).kind = "report" => Head(events) \in Reports
  BY <1>t DEF Events, Kinds
<1>k. events # <<>> /\ Head(events).kind \in Kinds => Head(events).peer \in APs \cup {None}
  BY <1>t DEF Events, Kinds, Reports
<1>s. ASSUME NEW s \in Sessions \cup {NoSession}, NEW here \in BOOLEAN
      PROVE  /\ Abandoned(s, here) \in Sessions \cup {NoSession}
             /\ s # NoSession => [Abandoned(s, here) EXCEPT !.ended = TRUE] \in Sessions
  BY <1>a DEF Abandoned, Sessions, NoSession
<1>c. ASSUME NEW here \in BOOLEAN, Cancel(here), events # <<>>
      PROVE  radio' \in Radios /\ events' \in Seq(Events) /\ Len(events') <= EventMax
  <2>1. events' \in Seq(Events) /\ Len(events') <= EventMax
    BY <1>a, <1>b, <1>c, <1>t DEF Cancel, Shapes
  <2>2. radio' \in Radios
    BY <1>b, <1>c, <1>s DEF Cancel, Shapes, Radios
  <2> QED BY <2>1, <2>2
<1>m. MediaReset(media) \in MediaRecords
  BY <1>b DEF Shapes, MediaReset, MediaRecords
<1>i. Invalidated(session) \in SessionRecords
  BY <1>b DEF Shapes, Invalidated, SessionRecords
<1>n. NoReset \in Resets
  BY <1>a DEF NoReset, Resets
<1>r. [bits EXCEPT !.report = TRUE] \in BitRecords /\ [bits EXCEPT !.report = FALSE] \in BitRecords
  BY <1>b DEF Shapes, BitRecords
<1>g. [policy EXCEPT !.taken = Snapshot] \in Policies
  BY <1>b DEF Shapes, Policies, Snapshot
<1>v. Revised(policy) \in Nat /\ policy.association + 1 \in Nat
  BY <1>b DEF Shapes, Policies, Revised
<1>w. ASSUME NEW association \in Nat, NEW revision \in Nat, NEW peer \in APs \cup {None},
             NEW bound \in BOOLEAN, NEW stopped \in BOOLEAN
      PROVE  [policy EXCEPT !.association = association, !.revision = revision, !.peer = peer,
                            !.bound = bound, !.stopped = stopped] \in Policies
  BY <1>b DEF Shapes, Policies
<1>f. ASSUME Took("report"), Finish
      PROVE  /\ session' \in SessionRecords /\ media' \in MediaRecords
             /\ Tail(events) \in Seq(Events) /\ Len(Tail(events)) < EventMax
  <2>1. Head(events).here \in BOOLEAN /\ Granted(Head(events)) \in {0, 2, 3}
    BY <1>h, <1>f DEF Took, Reports, Granted
  <2>2. session' \in SessionRecords
    BY <1>b, <1>f DEF Finish, Shapes, SessionRecords
  <2>3. media' \in MediaRecords
    BY <1>b, <1>f, <2>1 DEF Finish, Shapes, MediaRecords
  <2> QED BY <1>a, <1>b, <1>t, <1>f, <2>2, <2>3 DEF Took, Shapes
<1> USE <1>a, <1>b DEF Shapes
<1>1. ASSUME NEW ap \in APs, RadioConnect(ap) PROVE Shapes'
  BY <1>1, <1>p, <1>e DEF RadioConnect, Kinds, Radios
<1>2. CASE RadioDisconnect
  <2>1. radio' \in Radios
    BY <1>2 DEF RadioDisconnect, Sessions, NoSession, Radios
  <2> QED BY <1>2, <2>1, <1>p, <1>e DEF RadioDisconnect, Kinds
<1>3. CASE RadioStop
  BY <1>3, <1>p, <1>e DEF RadioStop, Kinds, Radios
<1>4. ASSUME NEW status \in Statuses, RadioReport(status) PROVE Shapes'
  <2>1. radio.session \in Sessions /\ radio' \in Radios
    BY <1>4 DEF RadioReport, Radios
  <2>2. [kind |-> "report", peer |-> radio.session.peer, status |-> status,
         mine |-> radio.session.mine, here |-> radio.session.here] \in Events
    BY <2>1 DEF Events, Reports, Sessions
  <2> QED BY <1>4, <2>1, <2>2, <1>p DEF RadioReport
<1>5. CASE Reboot
  BY <1>5 DEF Reboot, Radios
<1>6. CASE BeaconHeard
  BY <1>6 DEF BeaconHeard, Beacons, Radios
<1>7. CASE BeaconMissed
  BY <1>7 DEF BeaconMissed, Beacons
<1>8. CASE Bind
  BY <1>8 DEF Bind, Policies
<1>9. CASE Rebind
  <2>1. policy' \in Policies
    BY <1>9, <1>v DEF Rebind, PolicyChanged, Policies
  <2>2. radio' \in Radios
    BY <1>9, <1>s DEF Rebind, PolicyChanged, Radios
  <2> QED BY <1>9, <2>1, <2>2, <1>t DEF Rebind, PolicyChanged
<1>10. ASSUME NEW stopped \in BOOLEAN, SyncRequest(stopped) PROVE Shapes'
  <2>1. policy' \in Policies
    BY <1>10, <1>v DEF SyncRequest, PolicyChanged, Policies
  <2>2. radio' \in Radios
    BY <1>10, <1>s DEF SyncRequest, PolicyChanged, Radios
  <2> QED BY <1>10, <2>1, <2>2, <1>t DEF SyncRequest, PolicyChanged
<1>11. CASE OnConnected
  <2>1. policy' \in Policies
    <3>1. Head(events).peer \in APs \cup {None}
      BY <1>11, <1>k DEF OnConnected, Took, Kinds
    <3> QED BY <1>11, <1>v, <1>w, <3>1 DEF OnConnected
  <2>2. bits' \in BitRecords /\ beacon' \in Beacons
    BY <1>11 DEF OnConnected, BitRecords, Beacons
  <2> QED BY <1>11, <2>1, <2>2, <1>c, <1>m, <1>i, <1>n DEF OnConnected, Took
<1>12. CASE OnDisconnected
  <2>1. policy' \in Policies
    BY <1>12, <1>v, <1>w DEF OnDisconnected
  <2>2. bits' \in BitRecords /\ beacon' \in Beacons
    BY <1>12 DEF OnDisconnected, BitRecords, Beacons
  <2>3. session' \in SessionRecords
    BY <1>12, <1>i DEF OnDisconnected, Stopped, SessionRecords
  <2> QED BY <1>12, <2>1, <2>2, <2>3, <1>c, <1>m, <1>n DEF OnDisconnected, Took
<1>13. CASE OnCancel
  BY <1>13, <1>c, <1>i DEF OnCancel, Took
<1>14. CASE StartIgnored
  BY <1>14, <1>t DEF StartIgnored, Took
<1>15. CASE StartRefused
  <2>1. beacon' \in Beacons
    BY <1>15 DEF StartRefused, Beacons
  <2> QED BY <1>15, <2>1, <1>t, <1>r, <1>g DEF StartRefused, Took
<1>16. CASE StartBegun
  <2>1. radio.ap \in APs
    BY <1>16 DEF StartBegun, Ready, Radios
  <2>2. radio' \in Radios
    BY <1>16, <2>1 DEF StartBegun, Sessions, Radios
  <2>3. session' \in SessionRecords
    BY <1>16, <2>1 DEF StartBegun, SessionRecords
  <2>4. media' \in MediaRecords
    BY <1>16 DEF StartBegun, Requested, MediaRecords
  <2>5. beacon' \in Beacons
    BY <1>16 DEF StartBegun, Beacons
  <2> QED BY <1>16, <2>2, <2>3, <2>4, <2>5, <1>t, <1>g DEF StartBegun, Took
<1>17. CASE StartFailed
  <2>1. session' \in SessionRecords
    BY <1>17 DEF StartFailed, Idle, Radios, SessionRecords
  <2>2. media' \in MediaRecords
    BY <1>17 DEF StartFailed, Requested, Fewer, MediaRecords
  <2>3. beacon' \in Beacons
    BY <1>17 DEF StartFailed, Beacons
  <2> QED BY <1>17, <2>1, <2>2, <2>3, <1>t, <1>r, <1>g DEF StartFailed, Took
<1>18. CASE ReportDiscarded
  BY <1>18, <1>f, <1>r DEF ReportDiscarded
<1>19. CASE ReportHooked
  BY <1>19, <1>f, <1>r DEF ReportHooked
<1>20. CASE ReportFailed
  BY <1>20, <1>f DEF ReportFailed
<1>21. CASE ReportUntimed
  BY <1>21, <1>f, <1>r DEF ReportUntimed, Succeeds
<1>22. CASE ReportMeasured
  <2>1. reset' \in Resets
    <3>1. beacon.boot \in Nat /\ reset.boot \in Nat
      BY DEF Beacons, Resets
    <3>2. [reset EXCEPT !.streak = 0] \in Resets
      BY DEF Resets
    <3>3. ASSUME NEW boot \in Nat PROVE [baseline |-> TRUE, streak |-> 0, boot |-> boot] \in Resets
      BY DEF Resets
    <3> QED BY <1>22, <3>1, <3>2, <3>3 DEF ReportMeasured
  <2> QED BY <1>22, <2>1, <1>f, <1>r DEF ReportMeasured, Succeeds
<1>23. CASE ReportBackward
  <2>1. reset' \in Resets
    BY <1>23 DEF ReportBackward, Streak, Resets
  <2> QED BY <1>23, <2>1, <1>f, <1>r DEF ReportBackward, Succeeds
<1>24. CASE ReportConfirmed
  <2>1. reset' \in Resets
    BY <1>24 DEF ReportConfirmed, Resets
  <2>2. beacon' \in Beacons /\ radio' \in Radios
    BY <1>24 DEF ReportConfirmed, Beacons, Radios
  <2>3. Tail(events) \in Seq(Events) /\ Len(Tail(events)) < EventMax /\ Len(Tail(events)) \in Nat
    BY <1>24, <1>f DEF ReportConfirmed, Succeeds
  <2>4. events' \in Seq(Events) /\ Len(events') <= EventMax
    BY <1>24, <2>3, <1>e, AppendQueue DEF ReportConfirmed, Kinds
  <2> QED BY <1>24, <2>1, <2>2, <2>4, <1>f, <1>r DEF ReportConfirmed, Succeeds
<1>25. CASE ClientReady
  BY <1>25, <1>r DEF ClientReady, Step, LoopKept
<1>26. CASE ClientPosts
  BY <1>26, <1>p, <1>e DEF ClientPosts, Step, LoopKept, Kinds
<1>27. CASE ClientReleased
  BY <1>27, <1>r DEF ClientReleased, Step, LoopKept
<1>28. CASE ClientGivesUp
  BY <1>28 DEF ClientGivesUp, Step, LoopKept
<1>29. CASE ClientCancels
  BY <1>29, <1>p, <1>e DEF ClientCancels, Step, LoopKept, Kinds
<1>30. CASE UNCHANGED vars
  BY <1>30 DEF vars
<1> QED
  BY <1>1, <1>2, <1>3, <1>4, <1>5, <1>6, <1>7, <1>8, <1>9, <1>10, <1>11, <1>12, <1>13, <1>14, <1>15, <1>16, <1>17, <1>18, <1>19, <1>20, <1>21, <1>22, <1>23, <1>24, <1>25, <1>26, <1>27, <1>28, <1>29, <1>30 DEF Next, Loop, OnReport, Client, Driver

(* Driver, loop and client keep what pending stands for, and work that is  *)
(* out of date stays void.                                                 *)
LEMMA LoopStep == LoopInv /\ [Next]_vars => LoopInv'
<1> SUFFICES ASSUME LoopInv, [Next]_vars PROVE LoopInv'
  OBVIOUS
<1> DEFINE Rest == PendingInv /\ TakenInv /\ InFlightInv /\ GrantIsCurrent
<1> SUFFICES Rest'
  BY ShapesStep DEF LoopInv
<1>a. None \notin APs
  BY FtmAssumption
<1>b. /\ radio \in Radios /\ events \in Seq(Events) /\ session \in SessionRecords
      /\ media \in MediaRecords /\ policy \in Policies
  BY DEF LoopInv, Shapes
<1>r. Rest
  BY DEF LoopInv
<1>t. events # <<>> =>
        /\ \A q \in {Tail(events), Outdated(Tail(events)), Elsewhere(Tail(events))} :
             /\ Ordered(q)
             /\ \A kind : Holds(q, kind) => Holds(events, kind)
             /\ Head(events).kind \in {"report", "stop"} => ~Holds(q, "report")
        /\ Head(events) \in Events /\ Holds(events, Head(events).kind)
        /\ OwnReports(events) => OwnReports(Tail(events))
        /\ HereReports(events) => HereReports(Tail(events)) /\ HereReports(Outdated(Tail(events)))
  BY LoopQueue
<1>p. ASSUME NEW e \in Events, Post(e)
      PROVE  /\ \A kind : Holds(events', kind) <=> Holds(events, kind) \/ e.kind = kind
             /\ (e.kind = "report" => ~Holds(events, "report") /\ ~Holds(events, "stop"))
                  => Ordered(events')
             /\ OwnReports(events) /\ (e.kind = "report" => e.mine) => OwnReports(events')
             /\ HereReports(events) /\ (e.kind = "report" => e.here) => HereReports(events')
  BY <1>b, <1>r, <1>p, AppendQueue DEF Post, PendingInv
<1>q. ASSUME NEW kind \in Kinds, NEW peer \in APs \cup {None}, Post(Event(kind, peer))
      PROVE  /\ \A k : Holds(events', k) <=> Holds(events, k) \/ k = kind
             /\ Ordered(events')
             /\ OwnReports(events) => OwnReports(events')
             /\ HereReports(events) => HereReports(events')
  <2>1. Event(kind, peer) \in Events /\ Event(kind, peer).kind = kind /\ kind # "report"
    BY DEF Event, Events, Kinds
  <2> QED BY <1>q, <2>1, <1>p
<1>f. ASSUME Took("report"), Finish,
             events' = Tail(events) \/ events' = Append(Tail(events), Event("disconnected", None)),
             radio' = radio \/ radio' = [radio EXCEPT !.ap = None], policy' = policy
      PROVE  Rest'
  <2>1. /\ session.pending /\ radio.session = NoSession /\ Ordered(Tail(events))
        /\ ~Holds(Tail(events), "report") /\ events # <<>>
    BY <1>f, <1>t, <1>r DEF Took, PendingInv
  <2>2. Holds(Tail(events), "stop") => radio.ap = None
    BY <1>f, <1>t, <1>r DEF Took, PendingInv
  <2>3. Ordered(events') /\ ~Holds(events', "report") /\ (Holds(events', "stop") => Holds(Tail(events), "stop"))
    <3>1. Tail(events) \in Seq(Events)
      BY <2>1, LoopQueue
    <3>2. Event("disconnected", None) \in Events /\ Event("disconnected", None).kind = "disconnected"
      BY DEF Event, Events, Kinds
    <3>3. CASE events' = Tail(events)
      BY <2>1, <3>3
    <3>4. CASE events' = Append(Tail(events), Event("disconnected", None))
      BY <2>1, <3>1, <3>2, <3>4, AppendQueue
    <3> QED BY <1>f, <3>3, <3>4
  <2>4. OwnReports(events') /\ HereReports(events')
    BY <2>3, NoReports
  <2>5. ~session'.valid /\ ~session'.pending /\ radio'.session = NoSession
        /\ (radio.ap = None => radio'.ap = None)
    BY <1>b, <1>f, <2>1 DEF Finish, Radios, SessionRecords
  <2>6. GrantIsCurrent'
    <3>1. CASE HereReports(events)
      <4>1. Head(events).here
        BY <1>b, <1>f, <2>1, <3>1, TailQueue DEF Took
      <4> QED BY <1>b, <1>f, <4>1 DEF Finish, GrantIsCurrent, MediaRecords
    <3>2. CASE ~HereReports(events)
      <4>1. media.requested = 0
        BY <1>r, <3>2 DEF InFlightInv
      <4>2. media'.granted = 0
        BY <1>b, <1>f, <4>1 DEF Finish, Granted, MediaRecords
      <4> QED BY <4>2 DEF GrantIsCurrent
    <3> QED BY <3>1, <3>2
  <2>7. PendingInv'
    BY <2>2, <2>3, <2>5 DEF PendingInv
  <2>8. TakenInv'
    BY <1>f, <1>r DEF TakenInv
  <2>9. InFlightInv'
    BY <2>4, <2>5 DEF InFlightInv
  <2> QED BY <2>6, <2>7, <2>8, <2>9
<1>g. ASSUME Cancel(FALSE) \/ Cancel(TRUE), events # <<>>,
             \/ session' = Invalidated(session)
             \/ Head(events).kind = "stop" /\ session' = Stopped(Invalidated(session), TRUE)
      PROVE  PendingInv' /\ ~session'.valid
  <2>1. /\ Ordered(events') /\ \A kind : Holds(events', kind) => Holds(events, kind)
        /\ Head(events).kind = "stop" => ~Holds(events', "report") /\ Holds(events, "stop")
    BY <1>g, <1>t DEF Cancel
  <2>2. radio'.ap = radio.ap /\ (radio.session = NoSession => radio'.session = NoSession)
    BY <1>b, <1>g DEF Cancel, Radios, Abandoned
  <2>3. /\ ~session'.valid
        /\ Head(events).kind # "stop" => session'.pending = session.pending
    BY <1>b, <1>g DEF Invalidated, Stopped, SessionRecords
  <2> QED BY <2>1, <2>2, <2>3, <1>r DEF PendingInv
<1>l. ASSUME Cancel(TRUE), events # <<>>
      PROVE  /\ HereReports(events) => HereReports(events')
             /\ radio'.session # NoSession => radio.session # NoSession
                                              /\ radio'.session.here = radio.session.here
  <2>1. HereReports(events) => HereReports(events')
    BY <1>l, <1>t DEF Cancel
  <2>2. radio.session # NoSession => radio.session \in Sessions
    BY <1>b DEF Radios
  <2>3. radio.session # NoSession => radio'.session.here = radio.session.here
    BY <1>b, <1>l, <2>2 DEF Cancel, Radios, Abandoned, Sessions
  <2>4. radio.session = NoSession => radio'.session = NoSession
    BY <1>b, <1>l DEF Cancel, Radios, Abandoned
  <2> QED BY <2>1, <2>3, <2>4
<1>h. ASSUME media' = MediaReset(media) PROVE media'.requested = 0 /\ media'.granted = 0
  BY <1>b, <1>h DEF MediaReset, MediaRecords
<1>o. ASSUME PolicyChanged([policy EXCEPT !.stopped = policy'.stopped, !.revision = Revised(policy)]), policy'.stopped \in BOOLEAN
      PROVE  Rest'
  <2>1. /\ policy'.revision = policy.revision + 1 /\ policy'.association = policy.association
        /\ policy'.taken = policy.taken
    BY <1>b, <1>o DEF PolicyChanged, Policies, Revised
  <2>2. TakenInv' /\ policy'.taken # <<policy'.association, policy'.revision>>
    BY <1>b, <1>r, <2>1 DEF TakenInv, Policies
  <2>3. Void'
    BY <1>o, <2>2 DEF Void, Snapshot, PolicyChanged
  <2>4. /\ \A kind : Holds(events', kind) <=> Holds(events, kind)
        /\ Ordered(events) => Ordered(events')
        /\ HereReports(events) => HereReports(events')
    BY <1>b, <1>o, OutdatedQueue DEF PolicyChanged
  <2>5. /\ radio'.ap = radio.ap /\ (radio.session = NoSession => radio'.session = NoSession)
        /\ radio.session # NoSession => radio'.session.here = radio.session.here
    BY <1>b, <1>o DEF PolicyChanged, Radios, Abandoned, Sessions
  <2>6. PendingInv'
    BY <1>o, <1>r, <2>4, <2>5 DEF PendingInv, PolicyChanged
  <2>7. InFlightInv'
    BY <1>o, <1>r, <2>3, <2>4, <2>5 DEF InFlightInv, PolicyChanged
  <2>8. GrantIsCurrent'
    BY <1>o, <1>r DEF GrantIsCurrent, PolicyChanged
  <2> QED BY <2>2, <2>6, <2>7, <2>8
<1>i. ASSUME policy' = policy \/ policy' = [policy EXCEPT !.taken = Snapshot] PROVE TakenInv'
  <2>1. CASE policy' = policy
    BY <1>r, <2>1 DEF TakenInv
  <2>2. CASE policy' = [policy EXCEPT !.taken = Snapshot]
    BY <1>b, <2>2 DEF TakenInv, Policies, Snapshot
  <2> QED BY <1>i, <2>1, <2>2
<1>j. ~session.pending => ~session.valid /\ radio.session = NoSession /\ ~Holds(events, "report")
  BY <1>r DEF PendingInv
<1> DEFINE RestVars == <<radio, events, session, media, policy, discipline>>
<1>u. ASSUME UNCHANGED RestVars PROVE Rest'
  BY <1>r, <1>u DEF PendingInv, TakenInv, InFlightInv, GrantIsCurrent, Void, Snapshot
<1> HIDE DEF Rest
<1>1. ASSUME NEW ap \in APs, RadioConnect(ap) PROVE Rest'
  <2>1. radio'.session = radio.session /\ ~Holds(events, "stop")
    BY <1>1, <1>b DEF RadioConnect, Radios, Holds
  <2> QED BY <1>1, <2>1, <1>r, <1>q DEF RadioConnect, Kinds, Rest, PendingInv, TakenInv, InFlightInv, GrantIsCurrent, Void, Snapshot
<1>2. CASE RadioDisconnect
  <2>1. /\ radio'.ap = None /\ (radio.session = NoSession <=> radio'.session = NoSession)
        /\ radio.session # NoSession => radio'.session.mine = radio.session.mine
                                        /\ radio'.session.here = radio.session.here
    BY <1>2, <1>a, <1>b DEF RadioDisconnect, Radios, Sessions, NoSession
  <2> QED BY <1>2, <2>1, <1>r, <1>q DEF RadioDisconnect, Kinds, Rest, PendingInv, TakenInv, InFlightInv, GrantIsCurrent, Void, Snapshot
<1>3. CASE RadioStop
  <2>1. radio'.ap = None /\ radio'.session = NoSession
    BY <1>3, <1>b DEF RadioStop, Radios
  <2> QED BY <1>3, <2>1, <1>r, <1>q DEF RadioStop, Kinds, Rest, PendingInv, TakenInv, InFlightInv, GrantIsCurrent, Void, Snapshot
<1>4. ASSUME NEW status \in Statuses, RadioReport(status) PROVE Rest'
  <2> DEFINE r == [kind |-> "report", peer |-> radio.session.peer, status |-> status,
                  mine |-> radio.session.mine, here |-> radio.session.here]
  <2>1. radio.session \in Sessions /\ radio'.ap = radio.ap /\ radio'.session = NoSession
    BY <1>4, <1>b DEF RadioReport, Radios
  <2>2. /\ r \in Events /\ r.kind = "report"
        /\ r.mine = radio.session.mine /\ r.here = radio.session.here
    BY <2>1 DEF Events, Reports, Sessions
  <2> HIDE DEF r
  <2>3. Post(r) /\ ~Holds(events, "report") /\ ~Holds(events, "stop")
    BY <1>4, <1>r DEF RadioReport, Rest, PendingInv, r
  <2>4. /\ \A kind : Holds(events', kind) <=> Holds(events, kind) \/ kind = "report"
        /\ Ordered(events')
        /\ radio.session.mine => OwnReports(events')
        /\ radio.session.here => HereReports(events')
    BY <2>2, <2>3, <1>p, NoReports
  <2> QED BY <1>4, <2>1, <2>3, <2>4, <1>r DEF RadioReport, Rest, PendingInv, TakenInv, InFlightInv, GrantIsCurrent, Void, Snapshot
<1>5. CASE Reboot
  <2>1. radio'.ap = radio.ap /\ radio'.session = radio.session
    BY <1>5, <1>b DEF Reboot, Radios
  <2> QED BY <1>5, <2>1, <1>r DEF Reboot, Rest, PendingInv, TakenInv, InFlightInv, GrantIsCurrent, Void, Snapshot
<1>6. CASE BeaconHeard
  BY <1>6, <1>u DEF BeaconHeard
<1>7. CASE BeaconMissed
  BY <1>7, <1>u DEF BeaconMissed
<1>8. CASE Bind
  <2>1. policy'.association = policy.association /\ policy'.revision = policy.revision /\ policy'.taken = policy.taken
    BY <1>8, <1>b DEF Bind, Policies
  <2> QED BY <1>8, <2>1, <1>r DEF Bind, Rest, PendingInv, TakenInv, InFlightInv, GrantIsCurrent, Void, Snapshot
<1>9. CASE Rebind
  <2>1. policy'.stopped = FALSE
    BY <1>9, <1>b DEF Rebind, PolicyChanged, Policies
  <2> QED BY <1>9, <2>1, <1>o DEF Rebind
<1>10. ASSUME NEW stopped \in BOOLEAN, SyncRequest(stopped) PROVE Rest'
  <2>1. policy'.stopped = stopped
    BY <1>10, <1>b DEF SyncRequest, PolicyChanged, Policies
  <2> QED BY <1>10, <2>1, <1>o DEF SyncRequest
<1>11. CASE OnConnected
  <2>1. PendingInv' /\ ~session'.valid
    BY <1>11, <1>g DEF OnConnected, Took
  <2>2. media'.requested = 0 /\ media'.granted = 0
    BY <1>11, <1>h DEF OnConnected
  <2>3. TakenInv'
    <3>1. policy'.association = policy.association + 1 /\ policy'.taken = policy.taken
      BY <1>11, <1>b DEF OnConnected, Policies
    <3> QED BY <3>1, <1>b, <1>r DEF Rest, TakenInv, Policies
  <2> QED BY <2>1, <2>2, <2>3 DEF Rest, InFlightInv, Void, GrantIsCurrent
<1>12. CASE OnDisconnected
  <2>1. PendingInv' /\ ~session'.valid
    BY <1>12, <1>g DEF OnDisconnected, Took, Stopped
  <2>2. media'.requested = 0 /\ media'.granted = 0
    BY <1>12, <1>h DEF OnDisconnected
  <2>3. TakenInv'
    <3>1. policy'.association = policy.association + 1 /\ policy'.taken = policy.taken
      BY <1>12, <1>b DEF OnDisconnected, Policies
    <3> QED BY <3>1, <1>b, <1>r DEF Rest, TakenInv, Policies
  <2> QED BY <2>1, <2>2, <2>3 DEF Rest, InFlightInv, Void, GrantIsCurrent
<1>13. CASE OnCancel
  <2>1. /\ PendingInv' /\ ~session'.valid /\ (HereReports(events) => HereReports(events'))
        /\ radio'.session # NoSession => radio.session # NoSession /\ radio'.session.here = radio.session.here
    BY <1>13, <1>g, <1>l DEF OnCancel, Took
  <2>2. TakenInv'
    BY <1>13, <1>i DEF OnCancel
  <2> QED BY <1>13, <2>1, <2>2, <1>r DEF OnCancel, Rest, InFlightInv, Void, GrantIsCurrent
<1>14. CASE StartIgnored
  BY <1>14, <1>t, <1>r DEF StartIgnored, Took, Rest, PendingInv, TakenInv, InFlightInv, GrantIsCurrent, Void, Snapshot
<1>15. CASE StartRefused
  <2>1. ~session.pending /\ TakenInv'
    BY <1>15, <1>i DEF StartRefused, Busy
  <2>2. Ordered(events') /\ \A kind : Holds(events', kind) => Holds(events, kind)
    BY <1>15, <1>t DEF StartRefused, Took
  <2>3. OwnReports(events') /\ HereReports(events')
    BY <2>1, <2>2, <1>j, NoReports
  <2> QED BY <1>15, <2>1, <2>2, <2>3, <1>j, <1>r DEF StartRefused, Rest, PendingInv, InFlightInv, GrantIsCurrent
<1>16. CASE StartBegun
  <2>1. ~session.pending /\ TakenInv'
    BY <1>16, <1>i DEF StartBegun, Busy
  <2>2. Ordered(events') /\ \A kind : Holds(events', kind) => Holds(events, kind)
    BY <1>16, <1>t DEF StartBegun, Took
  <2>3. OwnReports(events') /\ HereReports(events')
    BY <2>1, <2>2, <1>j, NoReports
  <2>4. radio'.session.mine /\ radio'.session.here /\ radio.ap # None
    BY <1>16, <1>b DEF StartBegun, Ready, Radios
  <2>5. session'.pending /\ media'.granted = media.granted /\ media'.here = media.here
    BY <1>16, <1>b DEF StartBegun, MediaRecords
  <2>6. ~Holds(events', "report") /\ ~Holds(events', "stop")
    BY <2>1, <2>2, <2>4, <1>j, <1>r DEF Rest, PendingInv
  <2> QED BY <2>1, <2>2, <2>3, <2>4, <2>5, <2>6, <1>r DEF Rest, PendingInv, InFlightInv, GrantIsCurrent
<1>17. CASE StartFailed
  <2>1. ~session.pending /\ TakenInv'
    BY <1>17, <1>i DEF StartFailed, Busy
  <2>2. Ordered(events') /\ \A kind : Holds(events', kind) => Holds(events, kind)
    BY <1>17, <1>t DEF StartFailed, Took
  <2>3. OwnReports(events') /\ HereReports(events')
    BY <2>1, <2>2, <1>j, NoReports
  <2>4. ~session'.valid
    BY <1>17 DEF StartFailed, Idle
  <2>5. media'.granted = media.granted /\ media'.here = media.here
    BY <1>17, <1>b DEF StartFailed, MediaRecords
  <2> QED BY <1>17, <2>1, <2>2, <2>3, <2>4, <2>5, <1>j, <1>r DEF StartFailed, Rest, PendingInv, InFlightInv, GrantIsCurrent
<1>18. CASE ReportDiscarded
  BY <1>18, <1>f DEF ReportDiscarded
<1>19. CASE ReportHooked
  BY <1>19, <1>f DEF ReportHooked
<1>20. CASE ReportFailed
  BY <1>20, <1>f DEF ReportFailed
<1>21. CASE ReportUntimed
  BY <1>21, <1>f DEF ReportUntimed, Succeeds
<1>22. CASE ReportMeasured
  BY <1>22, <1>f DEF ReportMeasured, Succeeds
<1>23. CASE ReportBackward
  BY <1>23, <1>f DEF ReportBackward, Succeeds
<1>24. CASE ReportConfirmed
  BY <1>24, <1>f DEF ReportConfirmed, Succeeds
<1>25. CASE ClientReady
  BY <1>25, <1>u DEF ClientReady, LoopKept
<1>26. CASE ClientPosts
  BY <1>26, <1>q, <1>r DEF ClientPosts, LoopKept, Kinds, Rest, PendingInv, TakenInv, InFlightInv, GrantIsCurrent, Void, Snapshot
<1>27. CASE ClientReleased
  BY <1>27, <1>u DEF ClientReleased, LoopKept
<1>28. CASE ClientGivesUp
  BY <1>28, <1>u DEF ClientGivesUp, LoopKept
<1>29. CASE ClientCancels
  BY <1>29, <1>q, <1>r DEF ClientCancels, LoopKept, Kinds, Rest, PendingInv, TakenInv, InFlightInv, GrantIsCurrent, Void, Snapshot
<1>30. CASE UNCHANGED vars
  BY <1>30, <1>u DEF vars
<1> QED
  BY <1>1, <1>2, <1>3, <1>4, <1>5, <1>6, <1>7, <1>8, <1>9, <1>10, <1>11, <1>12, <1>13, <1>14, <1>15, <1>16, <1>17, <1>18, <1>19, <1>20, <1>21, <1>22, <1>23, <1>24, <1>25, <1>26, <1>27, <1>28, <1>29, <1>30 DEF Next, Loop, OnReport, Client, Driver

(* The invariant of the loop, the driver and the queue holds throughout.   *)
LEMMA LoopCorrect == Spec => []LoopInv
<1>1. Init => LoopInv
  <2> SUFFICES ASSUME NEW ap \in APs \cup {None}, InitWith(ap) PROVE LoopInv
    BY DEF Init
  <2>a. Confirm \in Nat \ {0} /\ EventMax \in Nat \ {0} /\ 0 \in 0..Confirm - 1 /\ None \notin APs
    BY FtmAssumption
  <2> USE DEF InitWith
  <2>1. radio \in Radios /\ session \in SessionRecords
    BY DEF Radios, SessionRecords, Idle
  <2>2. media \in MediaRecords /\ beacon \in Beacons
    BY DEF MediaRecords, Beacons
  <2>3. bits \in BitRecords
    <3>1. (ap # None) \in BOOLEAN
      OBVIOUS
    <3> QED BY <3>1 DEF BitRecords
  <2>4. policy \in Policies /\ reset \in Resets
    BY <2>a DEF Policies, Resets, NoReset
  <2>5. events \in Seq(Events) /\ Len(events) = 0
    OBVIOUS
  <2>6. Shapes
    BY <2>a, <2>1, <2>2, <2>3, <2>4, <2>5 DEF Shapes
  <2>7. (\A kind : ~Holds(events, kind)) /\ Ordered(events)
    BY <2>5 DEF Holds, Ordered
  <2>8. OwnReports(events) /\ HereReports(events)
    BY <2>7, NoReports
  <2>9. radio.session = NoSession /\ ~session.valid /\ media.granted = 0
    BY DEF Idle
  <2>10. TakenInv
    BY DEF TakenInv
  <2> QED BY <2>6, <2>7, <2>8, <2>9, <2>10 DEF LoopInv, PendingInv, InFlightInv, GrantIsCurrent
<1> QED BY <1>1, LoopStep, PTL DEF Spec

(* The session is valid only while it is pending, and what counts as       *)
(* granted was requested in the present association: a late report never   *)
(* qualifies another AP (ptp_ftm_session_t, ftm_media_reset).              *)
THEOREM SessionCorrect == Spec => []SessionInv
<1>1. LoopInv => SessionInv
  <2> SUFFICES ASSUME LoopInv PROVE SessionInv
    OBVIOUS
  <2>1. radio.ap \in APs \cup {None} /\ Len(events) <= EventMax
    BY DEF LoopInv, Shapes, Radios
  <2>2. /\ session.pending \in BOOLEAN /\ session.peer \in APs \cup {None}
        /\ session.valid => session.pending
    BY DEF LoopInv, Shapes, SessionRecords, PendingInv
  <2>3. media.granted \in {0, 2, 3} /\ media.requested \in {0, 2, 3, 8, 16}
    BY DEF LoopInv, Shapes, MediaRecords
  <2>4. reset.streak \in 0..Confirm - 1 /\ client \in {"idle", "post", "wait", "cancel"}
    BY DEF LoopInv, Shapes, Resets
  <2> QED BY <2>1, <2>2, <2>3, <2>4 DEF LoopInv, SessionInv, TypeOK
<1> QED BY <1>1, LoopCorrect, PTL

(* However cancellations, timeouts, association and policy changes fall    *)
(* between START and the report, a report is accepted only for the session *)
(* last begun and in what it was begun for (ptp_ftm_session_finish).       *)
THEOREM AcceptedCorrect == Spec => []AcceptedIsOwn
<1>1. LoopInv => AcceptedIsOwn
  <2> SUFFICES ASSUME LoopInv, Took("report"), Accepts(Head(events)) PROVE Head(events).mine
    BY DEF AcceptedIsOwn
  <2>1. ~Void
    BY DEF Accepts, StillConnected, Void
  <2>2. OwnReports(events)
    BY <2>1 DEF LoopInv, InFlightInv
  <2> QED BY <2>2, TailQueue DEF Took, LoopInv, Shapes
<1> QED BY <1>1, LoopCorrect, PTL

(* The driver is asked for a session only when it has none                 *)
(* (ptp_ftm_session_begin).                                                *)
THEOREM OneSessionCorrect == Spec => []OneDriverSession
<1>1. LoopInv => OneDriverSession
  BY DEF LoopInv, PendingInv, OneDriverSession, Busy
<1> QED BY <1>1, LoopCorrect, PTL
=============================================================================
