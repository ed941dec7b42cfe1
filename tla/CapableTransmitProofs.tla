----------------------- MODULE CapableTransmitProofs ------------------------
(* Proofs about CapableTransmit, for every value of its constants.         *)
EXTENDS CapableTransmit, SequenceTheorems, TLAPS

Logs == -Shift..SlowestLog
Slowest == Period(SlowestLog)
Schedules ==
  [log : {Stop} \cup Logs, slow : 0..SlowSends, oldPeriod : 0..Slowest, next : -Slowest..Slowest,
   age : 0..Second, active : BOOLEAN, advertised : {Stop} \cup Logs,
   pending : 0..TokenMax, serial : 0..TokenMax]
Items ==
  [generation : Nat, association : Nat, token : 1..TokenMax, log : {Stop} \cup Logs, age : Nat,
   latest : BOOLEAN, mine : BOOLEAN]
Results == [item : Items, accepted : BOOLEAN]
Neighbors == [association : Nat, owed : BOOLEAN, resetting : BOOLEAN]
Daemons ==
  [pc : {"drain", "send"}] \cup [pc : {"sleep"}, wait : Nat]
  \cup [pc : {"claim"}, generation : Nat] \cup [pc : {"queue"}, item : Items]
Receivers == [log : {Stop} \cup Logs, age : 0..Longest, lost : 0..MaxLost]

(* The records behind the ranges of TypeOK.                                *)
Shapes ==
  /\ schedule \in Schedules /\ neighbor \in Neighbors /\ generation \in Nat
  /\ daemon \in Daemons /\ receiver \in Receivers
  /\ queue \in Seq(Items) /\ Len(queue) <= QueueMax
  /\ worker \in Seq(Items) /\ Len(worker) <= 1
  /\ results \in Seq(Results) /\ Len(results) <= QueueMax
  /\ told \in 0..SlowSends /\ edits \in 0..Budget /\ lag \in {0, MaxDelay}

(* How many claims ago a token was given out, and whether another claim is *)
(* possible before time passes or a request comes.                         *)
Distance(s, token) ==
  IF token <= s.serial THEN s.serial - token ELSE s.serial - token + TokenMax
Credit(s) == IF s.active /\ s.next > 0 THEN 0 ELSE 1

(* Every claim since an item's own took a tick or an edit.                 *)
InTime(item, s, n, e, l, credit) ==
  /\ item.association <= n.association /\ item.age <= l
  /\ item.association = n.association =>
       /\ Distance(s, item.token) + credit <= item.age + e
       /\ item.token = s.serial => item.mine

(* What is to be sent for the outstanding claim was claimed since the      *)
(* latest request.                                                         *)
Held(item, s, n, e, l) ==
  /\ InTime(item, s, n, e, l, Credit(s))
  /\ item.association = n.association /\ s.pending # 0 /\ item.token = s.pending => item.latest

(* Results are drained before the next claim, so only those that came in   *)
(* between have to wait for one.                                           *)
ResultCredit(d, s) == IF d.pc = "claim" THEN Credit(s) ELSE 0

InFlightInv ==
  /\ \A i \in 1..Len(queue) : Held(queue[i], schedule, neighbor, edits, lag)
  /\ \A i \in 1..Len(worker) : Held(worker[i], schedule, neighbor, edits, lag)
  /\ daemon.pc = "queue" => Held(daemon.item, schedule, neighbor, edits, lag)
  /\ \A i \in 1..Len(results) :
       InTime(results[i].item, schedule, neighbor, edits, lag, ResultCredit(daemon, schedule))

(* An accepted message waits to be counted.                                *)
Counting(r, s, n) ==
  r.accepted /\ r.item.association = n.association /\ s.pending # 0 /\ r.item.token = s.pending

(* A slowdown counts down no faster than its interval is told.             *)
SlowInv ==
  /\ schedule.pending \in {0, schedule.serial}
  /\ schedule.slow > 0 =>
       /\ schedule.log # Stop /\ schedule.oldPeriod \in 1..Period(schedule.log)
       /\ told + schedule.slow >= SlowSends
       /\ (\E i \in 1..Len(results) : Counting(results[i], schedule, neighbor))
            => told + schedule.slow > SlowSends
  /\ schedule.slow = 0 =>
       told >= SlowSends \/ schedule.oldPeriod = 0 \/ Period(schedule.log) <= schedule.oldPeriod

CapableInv == Shapes /\ InFlightInv /\ SlowInv

(* The powers of two the intervals are made of.                            *)
LEMMA PowersOfTwo ==
  \A m, n \in 0..27 : 2^m \in Nat \ {0} /\ (m <= n => 2^m <= 2^n)
<1>1. ASSUME NEW n PROVE /\ (n = 0 => 2^n = 2^0) /\ (n = 1 => 2^n = 2^1) /\ (n = 2 => 2^n = 2^2)
                         /\ (n = 3 => 2^n = 2^3) /\ (n = 4 => 2^n = 2^4) /\ (n = 5 => 2^n = 2^5)
                         /\ (n = 6 => 2^n = 2^6) /\ (n = 7 => 2^n = 2^7) /\ (n = 8 => 2^n = 2^8)
                         /\ (n = 9 => 2^n = 2^9) /\ (n = 10 => 2^n = 2^10) /\ (n = 11 => 2^n = 2^11)
                         /\ (n = 12 => 2^n = 2^12) /\ (n = 13 => 2^n = 2^13) /\ (n = 14 => 2^n = 2^14)
                         /\ (n = 15 => 2^n = 2^15) /\ (n = 16 => 2^n = 2^16) /\ (n = 17 => 2^n = 2^17)
                         /\ (n = 18 => 2^n = 2^18) /\ (n = 19 => 2^n = 2^19) /\ (n = 20 => 2^n = 2^20)
                         /\ (n = 21 => 2^n = 2^21) /\ (n = 22 => 2^n = 2^22) /\ (n = 23 => 2^n = 2^23)
                         /\ (n = 24 => 2^n = 2^24) /\ (n = 25 => 2^n = 2^25) /\ (n = 26 => 2^n = 2^26)
                         /\ (n = 27 => 2^n = 2^27)
  BY Zenon
<1>2. \A n \in 0..27 : 2^n \in Nat \ {0}
  BY <1>1
<1>3. ASSUME NEW m \in 0..27, NEW n \in 0..27, m <= n PROVE 2^m <= 2^n
  BY <1>1, <1>3
<1> QED BY <1>2, <1>3

(* Every supported interval has a period, none longer than the slowest.    *)
LEMMA PeriodRange ==
  /\ Slowest \in Nat /\ Second \in 1..Slowest
  /\ \A log \in Logs : Period(log) \in 1..Slowest
  /\ Period(Stop) = 0 /\ Stop \notin Logs /\ 0 \in Logs /\ -Shift \in Logs
<1>1. Shift \in Nat /\ SlowestLog \in Nat /\ Shift <= 3 /\ SlowestLog <= 24
  BY CapableAssumption
<1>2. ASSUME NEW m \in Logs, NEW n \in Logs, m <= n PROVE Period(m) \in Nat \ {0} /\ Period(m) <= Period(n)
  <2>1. m + Shift \in 0..27 /\ n + Shift \in 0..27 /\ m + Shift <= n + Shift
    BY <1>1, <1>2 DEF Logs
  <2>2. 2^(m + Shift) \in Nat \ {0} /\ 2^(m + Shift) <= 2^(n + Shift)
    BY <2>1, PowersOfTwo
  <2>3. Period(m) = 2^(m + Shift) /\ Period(n) = 2^(n + Shift)
    BY DEF Period, Supported, Logs
  <2> QED BY <2>2, <2>3
<1>3. /\ 0 \in Logs /\ -Shift \in Logs /\ SlowestLog \in Logs
      /\ \A log \in Logs : log <= SlowestLog
  BY <1>1 DEF Logs
<1>4. Period(Stop) = 0 /\ Stop \notin Logs
  <2>1. 127 \notin -Shift..SlowestLog
    BY <1>1
  <2> QED BY <2>1 DEF Period, Supported, Logs, Stop
<1>5. Slowest \in Nat
  BY <1>1, <1>2, <1>3 DEF Slowest
<1>6. ASSUME NEW log \in Logs PROVE Period(log) \in 1..Slowest
  <2>1. Period(log) \in Nat \ {0} /\ Period(log) <= Slowest
    BY <1>2, <1>3 DEF Slowest
  <2> QED BY <1>5, <2>1
<1> QED BY <1>3, <1>4, <1>5, <1>6 DEF Second

(* The bounds are numbers, and the records' ranges contain their initial   *)
(* values.                                                                 *)
LEMMA Bounds ==
  /\ SlowSends \in Nat \ {0} /\ TokenMax \in Nat \ {0} /\ QueueMax \in Nat \ {0} /\ PollCap \in Nat
  /\ MaxLost \in Nat /\ MaxDelay \in Nat /\ MaxEdits \in Nat /\ MaxLate \in Nat
  /\ Longest \in Nat
  /\ 0 \in 0..SlowSends /\ SlowSends \in 0..SlowSends /\ 0 \in 0..TokenMax /\ 0 \in 0..Second
  /\ 0 \in 0..Slowest /\ 0 \in -Slowest..Slowest /\ 0 \in 0..Longest /\ 0 \in 0..MaxLost
<1>1. /\ SlowSends \in Nat \ {0} /\ TokenMax \in Nat \ {0} /\ QueueMax \in Nat \ {0}
      /\ PollCap \in Nat \ {0} /\ Receipts \in Nat \ {0}
      /\ MaxLost \in Nat /\ MaxDelay \in Nat /\ MaxEdits \in Nat /\ MaxLate \in Nat
  BY CapableAssumption
<1>2. Receipts * Slowest \in Nat
  BY <1>1, PeriodRange
<1>3. Longest \in Nat
  BY <1>2 DEF Longest, Slowest
<1>4. 0 \in -Slowest..Slowest
  BY PeriodRange
<1> QED BY <1>1, <1>3, <1>4, PeriodRange

(* A schedule sends at its old period while it slows down, else at its     *)
(* own; only a stopped one has period zero.                                *)
LEMMA EffectiveRange ==
  ASSUME NEW s \in Schedules
  PROVE  /\ EffectivePeriod(s) \in 0..Slowest
         /\ EffectivePeriod(s) = IF s.slow > 0 THEN s.oldPeriod ELSE Period(s.log)
         /\ Period(s.log) \in 0..Slowest /\ (s.log # Stop => Period(s.log) \in 1..Slowest)
<1>1. s.slow \in 0..SlowSends /\ s.oldPeriod \in 0..Slowest /\ s.log \in {Stop} \cup Logs
  BY DEF Schedules
<1>2. Period(s.log) \in 0..Slowest /\ (s.log # Stop => Period(s.log) \in 1..Slowest)
  BY <1>1, PeriodRange
<1> QED BY <1>1, <1>2 DEF EffectivePeriod

(* A request leaves the schedule or restarts it at another interval.       *)
LEMMA RequestedSchedule ==
  ASSUME NEW s \in Schedules, NEW request \in Requests
  PROVE  LET r == Requested(s, request)
         IN /\ r \in Schedules /\ r.serial = s.serial
            /\ \/ r = s
               \/ /\ r.log # s.log /\ r.pending = 0 /\ ~r.active /\ r.oldPeriod = EffectivePeriod(s)
                  /\ r.slow = IF EffectivePeriod(s) > 0 /\ Period(r.log) > EffectivePeriod(s)
                              THEN SlowSends ELSE 0
<1> DEFINE t == Target(request)
<1>1. CASE request = Keep \/ ~Legal(request) \/ t = s.log
  BY <1>1 DEF Requested
<1>2. CASE ~(request = Keep \/ ~Legal(request) \/ t = s.log)
  <2>1. t \in {Stop} \cup Logs /\ t # s.log
    <3>1. CASE Supported(t)
      BY <1>2, <3>1 DEF Supported, Logs
    <3>2. CASE request = Stop
      <4>1. t = Stop
        <5>1. Shift \in Nat /\ 127 \notin -24..(-Shift)
          BY CapableAssumption
        <5> QED BY <3>2, <5>1 DEF Target, Stop, Default
      <4> QED BY <1>2, <4>1
    <3> QED BY <1>2, <3>1, <3>2 DEF Legal
  <2> HIDE DEF t
  <2> DEFINE e == EffectivePeriod(s)
             slow == IF e > 0 /\ Period(t) > e THEN SlowSends ELSE 0
             r == [s EXCEPT !.log = t, !.oldPeriod = e, !.slow = slow, !.pending = 0, !.active = FALSE]
  <2>2. Requested(s, request) = r
    <3>1. Requested(s, request) = [Slowed(s, t) EXCEPT !.pending = 0, !.active = FALSE]
      BY <1>2 DEF Requested, t
    <3>2. Slowed(s, t) = [s EXCEPT !.log = t, !.oldPeriod = e, !.slow = slow]
      BY DEF Slowed
    <3> HIDE DEF e, slow
    <3> QED BY <3>1, <3>2 DEF Schedules
  <2>3. e \in 0..Slowest /\ slow \in 0..SlowSends
    BY EffectiveRange, Bounds
  <2> HIDE DEF e, slow
  <2>4. r \in Schedules
    BY <2>1, <2>3, Bounds DEF Schedules
  <2>5. /\ r.serial = s.serial /\ r.log = t /\ r.pending = 0 /\ r.active = FALSE /\ r.oldPeriod = e
        /\ r.slow = slow
    BY DEF Schedules
  <2> HIDE DEF r
  <2> QED BY <2>1, <2>2, <2>4, <2>5 DEF e, slow
<1> QED BY <1>1, <1>2

(* Preparing a claim may give up the outstanding one, and a port that is   *)
(* not enabled its deadline.                                               *)
LEMMA PreparedSchedule ==
  ASSUME NEW s \in Schedules, NEW enabled \in BOOLEAN
  PROVE  LET r == Prepared(s, enabled)
         IN /\ r \in Schedules /\ r.serial = s.serial
            /\ r.log = s.log /\ r.slow = s.slow /\ r.oldPeriod = s.oldPeriod /\ r.next = s.next
            /\ r.pending = 0 \/ r = s
            /\ enabled => r.active = s.active
            /\ ~enabled => r.pending = 0 /\ ~r.active
<1> DEFINE p == [s EXCEPT !.pending = 0]
           q == [s EXCEPT !.pending = 0, !.active = FALSE]
<1>1. Prepared(s, enabled) = IF ~enabled THEN q
                             ELSE IF EffectivePeriod(s) > 0 /\ Expired(s) THEN p ELSE s
  BY DEF Prepared
<1>2. /\ p \in Schedules /\ p.serial = s.serial
      /\ p.log = s.log /\ p.slow = s.slow /\ p.oldPeriod = s.oldPeriod /\ p.next = s.next
      /\ p.pending = 0 /\ p.active = s.active
  BY Bounds DEF Schedules
<1>3. /\ q \in Schedules /\ q.serial = s.serial
      /\ q.log = s.log /\ q.slow = s.slow /\ q.oldPeriod = s.oldPeriod /\ q.next = s.next
      /\ q.pending = 0 /\ q.active = FALSE
  BY Bounds DEF Schedules
<1> HIDE DEF p, q
<1> QED BY <1>1, <1>2, <1>3

(* A claim takes the next token and a deadline ahead.                      *)
LEMMA ClaimedSchedule ==
  ASSUME NEW s \in Schedules, Due(s, TRUE)
  PROVE  LET r == Claimed(s)
         IN /\ r \in Schedules /\ r.active /\ r.next > 0 /\ r.next <= EffectivePeriod(s)
            /\ r.serial = NextToken(s.serial) /\ r.pending = r.serial /\ r.pending \in 1..TokenMax
            /\ r.log = s.log /\ r.slow = s.slow /\ r.oldPeriod = s.oldPeriod
            /\ r.advertised = s.log
<1> DEFINE e == EffectivePeriod(s)
           next == IF s.active /\ -s.next < e THEN s.next + e ELSE e
           token == NextToken(s.serial)
           r == Claimed(s)
<1>1. e \in 1..Slowest /\ Slowest \in Nat
  BY EffectiveRange, PeriodRange DEF Due
<1>2. s.next \in Int /\ (s.active => s.next <= 0)
  BY PeriodRange DEF Due, Schedules
<1> HIDE DEF e
<1>3. next > 0 /\ next <= e /\ next \in -Slowest..Slowest
  BY <1>1, <1>2
<1>4. token \in 1..TokenMax /\ token \in 0..TokenMax
  <2>1. TokenMax \in Nat \ {0} /\ s.serial \in Nat
    BY Bounds DEF Schedules
  <2> QED BY <2>1 DEF NextToken
<1>6. r = [s EXCEPT !.next = next, !.active = TRUE, !.age = 0, !.serial = token,
                    !.pending = token, !.advertised = s.log]
  BY DEF Claimed, e
<1> HIDE DEF next, token, r
<1>7. r \in Schedules
  BY <1>3, <1>4, <1>6, Bounds DEF Schedules
<1>8. /\ r.active = TRUE /\ r.pending = token /\ r.serial = token /\ r.advertised = s.log
      /\ r.log = s.log /\ r.slow = s.slow /\ r.oldPeriod = s.oldPeriod /\ r.next = next
  BY <1>6 DEF Schedules
<1> QED BY <1>3, <1>4, <1>7, <1>8 DEF r, token, e

(* A completion clears the claim; one that was accepted in time counts.    *)
LEMMA FinishedSchedule ==
  ASSUME NEW s \in Schedules, NEW accepted \in BOOLEAN, NEW expired \in BOOLEAN,
         s.slow > 0 => s.log # Stop
  PROVE  LET r == Finished(s, accepted, expired)
         IN /\ r \in Schedules /\ r.pending = 0 /\ r.serial = s.serial
            /\ r.log = s.log /\ r.oldPeriod = s.oldPeriod /\ r.active = s.active
            /\ r.next = s.next \/ r.next > 0
            /\ \/ r.slow = s.slow
               \/ accepted /\ s.slow > 0 /\ r.slow = s.slow - 1
            /\ \/ EffectivePeriod(r) = EffectivePeriod(s) /\ r.next = s.next
               \/ s.slow > 0 /\ r.slow = 0 /\ r.next = EffectivePeriod(r)
<1> DEFINE r == Finished(s, accepted, expired)
           done == [s EXCEPT !.pending = 0]
           counted == IF accepted /\ s.log = s.advertised /\ s.slow > 0
                      THEN [done EXCEPT !.slow = @ - 1] ELSE done
           period == EffectivePeriod(counted)
<1>z. s.slow \in 0..SlowSends
  BY DEF Schedules
<1>1. /\ done \in Schedules /\ done.pending = 0 /\ done.serial = s.serial /\ done.slow = s.slow
      /\ done.next = s.next /\ done.log = s.log /\ done.oldPeriod = s.oldPeriod
      /\ done.active = s.active
  BY Bounds DEF Schedules
<1> HIDE DEF done
<1>2. /\ counted \in Schedules /\ counted.pending = 0 /\ counted.serial = s.serial
      /\ counted.next = s.next /\ counted.log = s.log /\ counted.oldPeriod = s.oldPeriod
      /\ counted.active = s.active
      /\ counted.slow = s.slow \/ (accepted /\ s.slow > 0 /\ counted.slow = s.slow - 1)
  <2>1. CASE accepted /\ s.log = s.advertised /\ s.slow > 0
    <3>1. counted = [done EXCEPT !.slow = s.slow - 1]
      BY <1>1, <2>1
    <3>2. s.slow - 1 \in 0..SlowSends
      BY <1>z, <2>1, Bounds
    <3> HIDE DEF counted
    <3>3. counted \in Schedules /\ counted.slow = s.slow - 1
      BY <1>1, <3>1, <3>2 DEF Schedules
    <3>4. /\ counted.pending = done.pending /\ counted.serial = done.serial
          /\ counted.next = done.next /\ counted.log = done.log
          /\ counted.oldPeriod = done.oldPeriod /\ counted.active = done.active
      BY <1>1, <3>1 DEF Schedules
    <3> QED BY <1>1, <2>1, <3>3, <3>4
  <2>2. CASE ~(accepted /\ s.log = s.advertised /\ s.slow > 0)
    BY <1>1, <2>2
  <2> QED BY <2>1, <2>2
<1>3. r = IF expired THEN done
          ELSE IF period # EffectivePeriod(s) THEN [counted EXCEPT !.next = period] ELSE counted
  BY DEF Finished, done
<1> HIDE DEF counted
<1>4. period # EffectivePeriod(s) =>
        /\ period \in 1..Slowest /\ period \in -Slowest..Slowest
        /\ s.slow > 0 /\ counted.slow = 0
  <2> SUFFICES ASSUME period # EffectivePeriod(s)
               PROVE  period \in 1..Slowest /\ s.slow > 0 /\ counted.slow = 0
    BY PeriodRange
  <2>1. counted.slow # s.slow
    BY <1>2 DEF EffectivePeriod
  <2>2. s.slow > 0 /\ counted.slow = s.slow - 1
    BY <1>2, <2>1
  <2>3. CASE counted.slow > 0
    BY <1>2, <2>2, <2>3 DEF EffectivePeriod
  <2>4. CASE ~(counted.slow > 0)
    BY <1>z, <1>2, <2>2, <2>4, EffectiveRange
  <2> QED BY <2>3, <2>4
<1>5. CASE expired
  <2>1. EffectivePeriod(done) = EffectivePeriod(s)
    BY <1>1 DEF EffectivePeriod
  <2> QED BY <1>1, <1>3, <1>5, <2>1
<1>6. CASE ~expired /\ period # EffectivePeriod(s)
  <2>1. r = [counted EXCEPT !.next = period] /\ period \in -Slowest..Slowest /\ period > 0
    BY <1>3, <1>4, <1>6, PeriodRange
  <2> HIDE DEF r, period
  <2>2. r \in Schedules /\ r.next = period
    BY <1>2, <2>1 DEF Schedules
  <2>3. /\ r.pending = counted.pending /\ r.serial = counted.serial
        /\ r.slow = counted.slow /\ r.log = counted.log
        /\ r.oldPeriod = counted.oldPeriod /\ r.active = counted.active
    BY <1>2, <2>1 DEF Schedules
  <2>4. EffectivePeriod(r) = period /\ s.slow > 0 /\ r.slow = 0
    BY <1>4, <1>6, <2>3 DEF EffectivePeriod, period
  <2> QED BY <1>2, <2>1, <2>2, <2>3, <2>4 DEF r
<1>7. CASE ~expired /\ period = EffectivePeriod(s)
  <2>1. r = counted
    BY <1>3, <1>7
  <2> HIDE DEF r
  <2>2. EffectivePeriod(r) = EffectivePeriod(s)
    BY <1>7, <2>1
  <2> QED BY <1>2, <2>1, <2>2 DEF r
<1> QED BY <1>5, <1>6, <1>7

(* A zeroed schedule is idle and keeps only the serial it is given.        *)
LEMMA ZeroSchedule ==
  ASSUME NEW serial \in 0..TokenMax
  PROVE  LET r == Zero(serial)
         IN /\ r \in Schedules /\ r.serial = serial /\ r.pending = 0 /\ r.slow = 0 /\ r.oldPeriod = 0
            /\ r.log = 0 /\ ~r.active
BY Bounds, PeriodRange DEF Zero, Schedules

(* The history marks and the ages change element by element.               *)
Unclaimed(q) == [i \in DOMAIN q |-> [q[i] EXCEPT !.mine = FALSE]]
UnclaimedResults(q) == [i \in DOMAIN q |-> [q[i] EXCEPT !.item.mine = FALSE]]
Outdated(q) == [i \in DOMAIN q |-> [q[i] EXCEPT !.latest = FALSE]]

(* Marking queued items as no longer of the outstanding claim changes      *)
(* nothing else of them.                                                   *)
LEMMA UnclaimedQueue ==
  ASSUME NEW q \in Seq(Items)
  PROVE  /\ Unclaimed(q) \in Seq(Items) /\ Len(Unclaimed(q)) = Len(q)
         /\ \A i \in 1..Len(q) :
              /\ Unclaimed(q)[i].association = q[i].association
              /\ Unclaimed(q)[i].token = q[i].token
              /\ Unclaimed(q)[i].age = q[i].age
              /\ Unclaimed(q)[i].log = q[i].log
              /\ Unclaimed(q)[i].latest = q[i].latest
              /\ Unclaimed(q)[i].generation = q[i].generation
<1> DEFINE p == Unclaimed(q)
<1>1. DOMAIN q = 1..Len(q) /\ Len(q) \in Nat /\ \A i \in 1..Len(q) : q[i] \in Items
  OBVIOUS
<1>2. DOMAIN p = 1..Len(q) /\ p = [i \in 1..Len(q) |-> p[i]]
  BY <1>1 DEF Unclaimed
<1>3. ASSUME NEW i \in 1..Len(q)
      PROVE  /\ p[i] \in Items
             /\ p[i].association = q[i].association
             /\ p[i].token = q[i].token
             /\ p[i].age = q[i].age
             /\ p[i].log = q[i].log
             /\ p[i].latest = q[i].latest
             /\ p[i].generation = q[i].generation
  <2>1. p[i] = [q[i] EXCEPT !.mine = FALSE] /\ q[i] \in Items
    BY <1>1 DEF Unclaimed
  <2> HIDE DEF p
  <2> QED BY <2>1 DEF Items
<1> HIDE DEF p
<1>4. p \in Seq(Items) /\ Len(p) = Len(q)
  <2>1. \A i \in 1..Len(q) : p[i] \in Items
    BY <1>3
  <2> QED BY <1>1, <1>2, <2>1
<1> QED BY <1>3, <1>4 DEF p

(* The same for the completions on their way back.                         *)
LEMMA UnclaimedReports ==
  ASSUME NEW q \in Seq(Results)
  PROVE  /\ UnclaimedResults(q) \in Seq(Results) /\ Len(UnclaimedResults(q)) = Len(q)
         /\ \A i \in 1..Len(q) :
              /\ UnclaimedResults(q)[i].item.association = q[i].item.association
              /\ UnclaimedResults(q)[i].item.token = q[i].item.token
              /\ UnclaimedResults(q)[i].item.age = q[i].item.age
              /\ UnclaimedResults(q)[i].item.generation = q[i].item.generation
<1> DEFINE p == UnclaimedResults(q)
<1>1. DOMAIN q = 1..Len(q) /\ Len(q) \in Nat /\ \A i \in 1..Len(q) : q[i] \in Results
  OBVIOUS
<1>2. DOMAIN p = 1..Len(q) /\ p = [i \in 1..Len(q) |-> p[i]]
  BY <1>1 DEF UnclaimedResults
<1>3. ASSUME NEW i \in 1..Len(q)
      PROVE  /\ p[i] \in Results
             /\ p[i].item.association = q[i].item.association
             /\ p[i].item.token = q[i].item.token
             /\ p[i].item.age = q[i].item.age
             /\ p[i].item.generation = q[i].item.generation
  <2>1. p[i] = [q[i] EXCEPT !.item.mine = FALSE] /\ q[i] \in Results
    BY <1>1 DEF UnclaimedResults
  <2> HIDE DEF p
  <2> DEFINE item == [q[i].item EXCEPT !.mine = FALSE]
  <2>2. q[i].item \in Items
    BY <2>1 DEF Results
  <2>3. /\ item \in Items /\ item.association = q[i].item.association
        /\ item.token = q[i].item.token /\ item.age = q[i].item.age
        /\ item.generation = q[i].item.generation
    BY <2>2 DEF Items
  <2>4. p[i] = [q[i] EXCEPT !.item = item]
    BY <2>1
  <2> HIDE DEF item
  <2>5. p[i] \in Results /\ p[i].item = item
    BY <2>1, <2>3, <2>4 DEF Results
  <2> QED BY <2>3, <2>5
<1> HIDE DEF p
<1>4. p \in Seq(Results) /\ Len(p) = Len(q)
  BY <1>1, <1>2, <1>3
<1> QED BY <1>3, <1>4 DEF p

(* A request outdates the queued items and changes nothing else of them.   *)
LEMMA OutdatedQueue ==
  ASSUME NEW q \in Seq(Items)
  PROVE  /\ Outdated(q) \in Seq(Items) /\ Len(Outdated(q)) = Len(q)
         /\ \A i \in 1..Len(q) :
              /\ Outdated(q)[i].association = q[i].association
              /\ Outdated(q)[i].token = q[i].token
              /\ Outdated(q)[i].age = q[i].age
              /\ Outdated(q)[i].mine = q[i].mine
              /\ Outdated(q)[i].log = q[i].log
              /\ Outdated(q)[i].latest = FALSE
              /\ Outdated(q)[i].generation = q[i].generation
<1> DEFINE p == Outdated(q)
<1>1. DOMAIN q = 1..Len(q) /\ Len(q) \in Nat /\ \A i \in 1..Len(q) : q[i] \in Items
  OBVIOUS
<1>2. DOMAIN p = 1..Len(q) /\ p = [i \in 1..Len(q) |-> p[i]]
  BY <1>1 DEF Outdated
<1>3. ASSUME NEW i \in 1..Len(q)
      PROVE  /\ p[i] \in Items
             /\ p[i].association = q[i].association
             /\ p[i].token = q[i].token
             /\ p[i].age = q[i].age
             /\ p[i].mine = q[i].mine
             /\ p[i].log = q[i].log
             /\ p[i].latest = FALSE
             /\ p[i].generation = q[i].generation
  <2>1. p[i] = [q[i] EXCEPT !.latest = FALSE] /\ q[i] \in Items
    BY <1>1 DEF Outdated
  <2> HIDE DEF p
  <2> QED BY <2>1 DEF Items
<1> HIDE DEF p
<1>4. p \in Seq(Items) /\ Len(p) = Len(q)
  <2>1. \A i \in 1..Len(q) : p[i] \in Items
    BY <1>3
  <2> QED BY <1>1, <1>2, <2>1
<1> QED BY <1>3, <1>4 DEF p

(* A tick adds one to the age of every queued item.                        *)
LEMMA AgedQueue ==
  ASSUME NEW q \in Seq(Items)
  PROVE  /\ Aged(q) \in Seq(Items) /\ Len(Aged(q)) = Len(q)
         /\ \A i \in 1..Len(q) :
              /\ Aged(q)[i].association = q[i].association
              /\ Aged(q)[i].token = q[i].token
              /\ Aged(q)[i].latest = q[i].latest
              /\ Aged(q)[i].mine = q[i].mine
              /\ Aged(q)[i].age = q[i].age + 1
<1> DEFINE p == Aged(q)
<1>1. DOMAIN q = 1..Len(q) /\ Len(q) \in Nat /\ \A i \in 1..Len(q) : q[i] \in Items
  OBVIOUS
<1>2. DOMAIN p = 1..Len(q) /\ p = [i \in 1..Len(q) |-> p[i]]
  BY <1>1 DEF Aged
<1>3. ASSUME NEW i \in 1..Len(q)
      PROVE  /\ p[i] \in Items
             /\ p[i].association = q[i].association
             /\ p[i].token = q[i].token
             /\ p[i].latest = q[i].latest
             /\ p[i].mine = q[i].mine
             /\ p[i].age = q[i].age + 1
  <2>1. p[i] = [q[i] EXCEPT !.age = q[i].age + 1] /\ q[i] \in Items
    BY <1>1 DEF Aged
  <2> HIDE DEF p
  <2>2. q[i].age + 1 \in Nat
    BY <2>1, SMTT(30) DEF Items
  <2> DEFINE age == q[i].age + 1
  <2> HIDE DEF age
  <2>3. p[i] = [q[i] EXCEPT !.age = age] /\ age \in Nat
    BY <2>1, <2>2 DEF age
  <2>4. p[i] \in Items /\ p[i].age = age
    BY <2>1, <2>3 DEF Items
  <2>5. /\ p[i].association = q[i].association /\ p[i].token = q[i].token
        /\ p[i].latest = q[i].latest /\ p[i].mine = q[i].mine
    BY <2>1, <2>3 DEF Items
  <2> QED BY <2>4, <2>5 DEF age
<1> HIDE DEF p
<1>4. p \in Seq(Items) /\ Len(p) = Len(q)
  BY <1>1, <1>2, <1>3
<1> QED BY <1>3, <1>4 DEF p

(* Work in flight stays in time while tokens stand still: a claim that     *)
(* becomes possible again is paid for by an edit or by the item's age.     *)
LEMMA KeptInTime ==
  ASSUME NEW item \in Items, NEW jtem \in Items, NEW s \in Schedules, NEW t \in Schedules,
         NEW n \in Neighbors, NEW m \in Neighbors, NEW e \in Nat, NEW f \in Nat,
         NEW l \in Nat, NEW c \in {0, 1}, NEW d \in {0, 1},
         InTime(item, s, n, e, l, c),
         jtem.association = item.association, jtem.token = item.token, jtem.age <= l,
         m.association = n.association,
         t.serial = s.serial, jtem.mine = item.mine,
         d + item.age + e <= c + jtem.age + f
  PROVE  InTime(jtem, t, m, f, l, d)
<1>1. /\ item.age \in Nat /\ jtem.age \in Nat
      /\ s.serial \in 0..TokenMax /\ item.token \in 1..TokenMax /\ TokenMax \in Nat
  BY Bounds DEF Items, Schedules
<1>2. Distance(t, jtem.token) = Distance(s, item.token) /\ Distance(s, item.token) \in Int
  BY <1>1 DEF Distance
<1>3. CASE item.association # n.association
  BY <1>1, <1>3 DEF InTime
<1>4. CASE item.association = n.association
  <2>1. Distance(s, item.token) + c <= item.age + e
    BY <1>4 DEF InTime
  <2>2. Distance(t, jtem.token) + d <= jtem.age + f
    BY <1>1, <1>2, <2>1
  <2> QED BY <1>1, <1>4, <2>2 DEF InTime
<1> QED BY <1>3, <1>4

(* An item stays paid for when the credit of its schedule grows at least   *)
(* as its age does.                                                        *)
LEMMA KeptHeld ==
  ASSUME NEW item \in Items, NEW jtem \in Items, NEW s \in Schedules, NEW t \in Schedules,
         NEW n \in Neighbors, NEW m \in Neighbors, NEW e \in Nat, NEW f \in Nat, NEW l \in Nat,
         Held(item, s, n, e, l),
         jtem.association = item.association, jtem.token = item.token, jtem.age <= l,
         m.association = n.association,
         t.serial = s.serial, jtem.mine = item.mine,
         Credit(t) + item.age + e <= Credit(s) + jtem.age + f,
         t.pending = 0 \/ (t.pending = s.pending /\ jtem.latest = item.latest)
  PROVE  Held(jtem, t, m, f, l)
<1>1. Credit(s) \in {0, 1} /\ Credit(t) \in {0, 1}
  BY DEF Credit
<1>2. InTime(item, s, n, e, l, Credit(s))
  BY DEF Held
<1> HIDE DEF Credit
<1>3. InTime(jtem, t, m, f, l, Credit(t))
  BY <1>1, <1>2, KeptInTime
<1> QED BY <1>3 DEF Held

(* A claim moves every token in flight one further away, and none of them  *)
(* comes around.                                                           *)
LEMMA ClaimPasses ==
  ASSUME NEW item \in Items, NEW jtem \in Items, NEW s \in Schedules, NEW t \in Schedules,
         NEW n \in Neighbors, NEW e \in Nat, NEW l \in Nat, l + e < TokenMax,
         InTime(item, s, n, e, l, 1),
         jtem.association = item.association, jtem.token = item.token, jtem.age = item.age,
         t.serial = NextToken(s.serial)
  PROVE  /\ InTime(jtem, t, n, e, l, 0)
         /\ jtem.association = n.association => jtem.token # t.serial
<1>1. /\ item.age \in Nat /\ TokenMax \in Nat \ {0}
      /\ s.serial \in 0..TokenMax /\ item.token \in 1..TokenMax
  BY Bounds DEF Items, Schedules
<1>2. CASE item.association # n.association
  BY <1>1, <1>2 DEF InTime
<1>3. CASE item.association = n.association
  <2>1. Distance(s, item.token) + 1 <= item.age + e /\ item.age <= l
    BY <1>3 DEF InTime
  <2>2. Distance(s, item.token) \in 0..(TokenMax - 2)
    BY <1>1, <2>1 DEF Distance
  <2>3. t.serial = IF s.serial = TokenMax THEN 1 ELSE s.serial + 1
    BY <1>1 DEF NextToken
  <2>4. Distance(t, item.token) = Distance(s, item.token) + 1 /\ item.token # t.serial
    BY <1>1, <2>2, <2>3 DEF Distance
  <2> QED BY <1>1, <1>3, <2>1, <2>2, <2>4 DEF InTime
<1> QED BY <1>2, <1>3

(* The elements behind Shapes, and the bound on edits and lag.             *)
LEMMA Elements ==
  ASSUME Shapes
  PROVE  /\ \A i \in 1..Len(queue) : queue[i] \in Items
         /\ \A i \in 1..Len(worker) : worker[i] \in Items
         /\ \A i \in 1..Len(results) : results[i] \in Results /\ results[i].item \in Items
         /\ daemon.pc = "queue" => daemon.item \in Items
         /\ Len(queue) \in Nat /\ Len(worker) \in Nat /\ Len(results) \in Nat
<1>1. \A r \in Results : r.item \in Items
  BY DEF Results
<1>2. daemon.pc = "queue" => daemon.item \in Items
  BY DEF Shapes, Daemons
<1>3. \A i \in 1..Len(results) : results[i] \in Results
  BY DEF Shapes
<1>4. /\ \A i \in 1..Len(queue) : queue[i] \in Items
      /\ \A i \in 1..Len(worker) : worker[i] \in Items
      /\ Len(queue) \in Nat /\ Len(worker) \in Nat /\ Len(results) \in Nat
  BY DEF Shapes
<1> QED BY <1>1, <1>2, <1>3, <1>4

(* The bounds on changes keep the tokens in use apart.                     *)
LEMMA BudgetBound ==
  ASSUME Shapes
  PROVE  lag \in Nat /\ Budget \in Nat /\ edits \in Nat /\ edits <= Budget /\ lag + Budget < TokenMax
<1>1. lag \in {0, MaxDelay} /\ edits \in 0..Budget
  BY DEF Shapes
<1> QED BY <1>1, Bounds, TokenAssumption DEF Budget

(* The credits are zero or one.                                            *)
LEMMA Credits ==
  \A s, d : Credit(s) \in {0, 1} /\ ResultCredit(d, s) \in {0, 1} /\ ResultCredit(d, s) <= Credit(s)
BY DEF Credit, ResultCredit

(* What waits in the queues waits as before, when nothing but the daemon   *)
(* moves.                                                                  *)
LEMMA WaitingKept ==
  ASSUME Shapes, InFlightInv,
         NEW s \in Schedules, NEW e \in Nat,
         s.serial = schedule.serial, s.pending \in {0, schedule.pending},
         Credit(s) + edits <= Credit(schedule) + e
  PROVE  /\ \A i \in 1..Len(queue) : Held(queue[i], s, neighbor, e, lag)
         /\ \A i \in 1..Len(worker) : Held(worker[i], s, neighbor, e, lag)
         /\ daemon.pc = "queue" => Held(daemon.item, s, neighbor, e, lag)
         /\ edits <= e => \A i \in 1..Len(results) : InTime(results[i].item, s, neighbor, e, lag, 0)
<1>1. /\ schedule \in Schedules /\ neighbor \in Neighbors /\ edits \in Nat /\ lag \in Nat
  BY BudgetBound DEF Shapes
<1>2. ASSUME NEW item \in Items, Held(item, schedule, neighbor, edits, lag)
      PROVE  Held(item, s, neighbor, e, lag)
  <2>1. item.age \in Nat /\ item.age <= lag
    BY <1>2 DEF Held, InTime, Items
  <2>2. Credit(s) + item.age + edits <= Credit(schedule) + item.age + e
    BY <1>1, <2>1, Credits
  <2> QED BY <1>1, <1>2, <2>1, <2>2, KeptHeld
<1>3. ASSUME edits <= e, NEW item \in Items, NEW c \in {0, 1},
             InTime(item, schedule, neighbor, edits, lag, c)
      PROVE  InTime(item, s, neighbor, e, lag, 0)
  <2>1. item.age \in Nat /\ item.age <= lag
    BY <1>3 DEF InTime, Items
  <2>2. 0 + item.age + edits <= c + item.age + e
    BY <1>1, <1>3, <2>1
  <2> QED BY <1>1, <1>3, <2>1, <2>2, KeptInTime
<1>4. /\ \A i \in 1..Len(queue) : Held(queue[i], schedule, neighbor, edits, lag)
      /\ \A i \in 1..Len(worker) : Held(worker[i], schedule, neighbor, edits, lag)
      /\ daemon.pc = "queue" => Held(daemon.item, schedule, neighbor, edits, lag)
      /\ \A i \in 1..Len(results) :
           InTime(results[i].item, schedule, neighbor, edits, lag, ResultCredit(daemon, schedule))
  BY DEF InFlightInv
<1>5. edits <= e => \A i \in 1..Len(results) : InTime(results[i].item, s, neighbor, e, lag, 0)
  BY <1>3, <1>4, Elements, Credits
<1> QED BY <1>2, <1>4, <1>5, Elements

(* The slowdown's count does not notice results that go or are relabelled. *)
LEMMA SlowKept ==
  ASSUME SlowInv, told' = told, neighbor'.association = neighbor.association,
         schedule'.log = schedule.log, schedule'.slow = schedule.slow,
         schedule'.oldPeriod = schedule.oldPeriod, schedule'.serial = schedule.serial,
         schedule'.pending \in {0, schedule.pending},
         \A i \in 1..Len(results') : \E j \in 1..Len(results) :
            /\ results'[i].accepted = results[j].accepted
            /\ results'[i].item.association = results[j].item.association
            /\ results'[i].item.token = results[j].item.token
  PROVE  SlowInv'
<1>1. (\E i \in 1..Len(results') : Counting(results'[i], schedule', neighbor'))
        => \E i \in 1..Len(results) : Counting(results[i], schedule, neighbor)
  BY DEF Counting
<1> QED BY <1>1 DEF SlowInv

(* A daemon that only moves changes nothing of this.                       *)
LEMMA MoveStep ==
  ASSUME CapableInv,
         daemon' \in Daemons, daemon'.pc # "queue", daemon'.pc = "claim" => results = <<>>,
         UNCHANGED <<schedule, neighbor, generation, queue, worker, results, receiver, told, edits, lag>>
  PROVE  CapableInv'
<1>1. Shapes'
  BY DEF CapableInv, Shapes, Budget
<1>2. schedule \in Schedules /\ edits \in Nat
  BY BudgetBound DEF CapableInv, Shapes
<1>3. /\ \A i \in 1..Len(queue) : Held(queue[i], schedule, neighbor, edits, lag)
      /\ \A i \in 1..Len(worker) : Held(worker[i], schedule, neighbor, edits, lag)
  BY DEF CapableInv, InFlightInv
<1>4. \A i \in 1..Len(results) : InTime(results[i].item, schedule, neighbor, edits, lag, 0)
  <2>1. Credit(schedule) + edits <= Credit(schedule) + edits /\ edits <= edits
    BY <1>2, Credits
  <2> QED BY <1>2, <2>1, WaitingKept DEF CapableInv
<1>5. \A i \in 1..Len(results) :
        InTime(results[i].item, schedule, neighbor, edits, lag, ResultCredit(daemon', schedule))
  <2>1. CASE daemon'.pc = "claim"
    BY <2>1
  <2>2. CASE daemon'.pc # "claim"
    BY <1>4, <2>2 DEF ResultCredit
  <2> QED BY <2>1, <2>2
<1>6. InFlightInv'
  BY <1>3, <1>5 DEF InFlightInv
<1>7. SlowInv'
  BY DEF CapableInv, SlowInv
<1> QED BY <1>1, <1>6, <1>7 DEF CapableInv

(* The three ways the daemon only moves.                                   *)
LEMMA PollStep == CapableInv /\ (Poll \/ Wake \/ ReadGeneration) => CapableInv'
<1> SUFFICES ASSUME CapableInv, Poll \/ Wake \/ ReadGeneration PROVE CapableInv'
  OBVIOUS
<1>1. CASE Poll
  <2>1. Wait(schedule) \in Nat
    <3>1. PollCap \in Nat /\ schedule.next \in Int
      BY Bounds, PeriodRange DEF CapableInv, Shapes, Schedules
    <3> QED BY <3>1 DEF Wait
  <2>2. daemon' \in Daemons /\ daemon'.pc = "sleep"
    BY <1>1, <2>1 DEF Poll, Asleep, Daemons
  <2> QED BY <1>1, <2>2, MoveStep DEF Poll
<1>2. CASE Wake
  <2>1. daemon' \in Daemons /\ daemon'.pc = "send"
    BY <1>2 DEF Wake, At, Daemons
  <2> QED BY <1>2, <2>1, MoveStep DEF Wake
<1>3. CASE ReadGeneration
  <2>1. generation \in Nat
    BY DEF CapableInv, Shapes
  <2>2. daemon' \in Daemons /\ daemon'.pc = "claim" /\ results = <<>>
    BY <1>3, <2>1 DEF ReadGeneration, Daemons
  <2> QED BY <1>3, <2>2, MoveStep DEF ReadGeneration
<1> QED BY <1>1, <1>2, <1>3

(* A slowdown keeps its books while the claim is given up, and when one    *)
(* that was told is counted.                                               *)
LEMMA SlowCleared ==
  ASSUME SlowInv, schedule \in Schedules, schedule' \in Schedules, told \in Nat,
         schedule'.pending = 0, schedule'.log = schedule.log,
         schedule'.oldPeriod = schedule.oldPeriod, told' = told,
         \/ schedule'.slow = schedule.slow
         \/ /\ schedule.slow > 0 /\ schedule'.slow = schedule.slow - 1
            /\ \E i \in 1..Len(results) : Counting(results[i], schedule, neighbor)
  PROVE  SlowInv'
<1>1. ~\E i \in 1..Len(results') : Counting(results'[i], schedule', neighbor')
  BY DEF Counting
<1>2. schedule.slow \in Nat /\ SlowSends \in Nat
  BY Bounds DEF Schedules
<1>3. CASE schedule'.slow = schedule.slow
  BY <1>1, <1>3 DEF SlowInv
<1>4. CASE /\ schedule.slow > 0 /\ schedule'.slow = schedule.slow - 1
           /\ \E i \in 1..Len(results) : Counting(results[i], schedule, neighbor)
  BY <1>1, <1>2, <1>4 DEF SlowInv
<1> QED BY <1>3, <1>4

(* A completion frees the claim it was made for and counts at most once.   *)
LEMMA DrainStep == CapableInv /\ DrainResult => CapableInv'
<1> SUFFICES ASSUME CapableInv, DrainResult PROVE CapableInv'
  OBVIOUS
<1> DEFINE r == Head(results)
           expired == r.item.age >= Second
<1>1. /\ Shapes /\ InFlightInv /\ SlowInv /\ schedule \in Schedules /\ edits \in Nat
      /\ results # <<>> /\ results \in Seq(Results) /\ daemon.pc \in {"send", "drain"}
      /\ Len(results) <= QueueMax /\ QueueMax \in Nat /\ told \in Nat
  BY BudgetBound, Bounds DEF CapableInv, Shapes, DrainResult
<1>2. /\ results' = Tail(results) /\ results' \in Seq(Results)
      /\ Len(results') = Len(results) - 1
      /\ \A i \in 1..Len(results') : i + 1 \in 1..Len(results) /\ results'[i] = results[i + 1]
      /\ r \in Results /\ r = results[1] /\ 1 \in 1..Len(results) /\ Len(results') <= QueueMax
  BY <1>1 DEF DrainResult
<1>3. UNCHANGED <<neighbor, generation, daemon, queue, worker, receiver, told, edits, lag>>
  BY DEF DrainResult
<1>4. /\ schedule' \in Schedules /\ schedule'.serial = schedule.serial
      /\ schedule'.pending \in {0, schedule.pending} /\ Credit(schedule') <= Credit(schedule)
      /\ SlowInv'
  <2>1. CASE r.item.generation = generation /\ Answers(r.item)
    <3>1. r.accepted \in BOOLEAN /\ expired \in BOOLEAN /\ r.item.token \in 1..TokenMax
      BY <1>2 DEF Results, Items
    <3>2. schedule' = Finished(schedule, r.accepted, expired)
      BY <2>1 DEF DrainResult
    <3>3. schedule.slow > 0 => schedule.log # Stop
      BY <1>1 DEF SlowInv
    <3> HIDE DEF expired, r
    <3>4. /\ schedule' \in Schedules /\ schedule'.pending = 0 /\ schedule'.serial = schedule.serial
          /\ schedule'.log = schedule.log /\ schedule'.oldPeriod = schedule.oldPeriod
          /\ schedule'.active = schedule.active
          /\ schedule'.next = schedule.next \/ schedule'.next > 0
          /\ \/ schedule'.slow = schedule.slow
             \/ r.accepted /\ schedule.slow > 0 /\ schedule'.slow = schedule.slow - 1
      BY <1>1, <3>1, <3>2, <3>3, FinishedSchedule
    <3>5. r.accepted => \E i \in 1..Len(results) : Counting(results[i], schedule, neighbor)
      <4>1. r.accepted => Counting(results[1], schedule, neighbor)
        <5>1. r.item.token # 0
          BY <3>1, Bounds
        <5> QED BY <1>2, <2>1, <5>1 DEF Counting, Answers
      <4> QED BY <1>2, <4>1
    <3>6. Credit(schedule') <= Credit(schedule)
      BY <3>4 DEF Credit
    <3>7. SlowInv'
      BY <1>1, <1>3, <3>4, <3>5, SlowCleared
    <3> QED BY <3>4, <3>6, <3>7
  <2>2. CASE ~(r.item.generation = generation /\ Answers(r.item))
    <3>1. schedule' = schedule
      BY <2>2 DEF DrainResult
    <3>2. SlowInv'
      BY <1>1, <1>2, <1>3, <3>1, SlowKept
    <3> QED BY <1>1, <3>1, <3>2, Credits
  <2> QED BY <2>1, <2>2
<1> HIDE DEF r, expired
<1>5. Shapes'
  BY <1>1, <1>2, <1>3, <1>4 DEF Shapes, Budget
<1>6. InFlightInv'
  <2>1. Credit(schedule') + edits <= Credit(schedule) + edits /\ edits <= edits
    <3>1. Credit(schedule') \in {0, 1} /\ Credit(schedule) \in {0, 1}
      BY Credits, Zenon
    <3> QED BY <1>1, <1>4, <3>1
  <2>2. /\ \A i \in 1..Len(queue) : Held(queue[i], schedule', neighbor, edits, lag)
        /\ \A i \in 1..Len(worker) : Held(worker[i], schedule', neighbor, edits, lag)
        /\ \A i \in 1..Len(results) : InTime(results[i].item, schedule', neighbor, edits, lag, 0)
    BY <1>1, <1>4, <2>1, WaitingKept
  <2>3. ResultCredit(daemon, schedule') = 0
    BY <1>1 DEF ResultCredit
  <2>4. \A i \in 1..Len(results') :
          InTime(results'[i].item, schedule', neighbor, edits, lag, ResultCredit(daemon, schedule'))
    BY <1>2, <2>2, <2>3
  <2> QED BY <1>1, <1>3, <2>2, <2>4 DEF InFlightInv
<1> QED BY <1>4, <1>5, <1>6 DEF CapableInv

(* A daemon done with a claim, or without one to make, is back.            *)
LEMMA BackStep ==
  ASSUME CapableInv, schedule' \in Schedules, receiver' \in Receivers,
         daemon' \in {At("drain"), At("send")},
         schedule'.log = schedule.log, schedule'.slow = schedule.slow,
         schedule'.oldPeriod = schedule.oldPeriod, schedule'.serial = schedule.serial,
         schedule'.pending \in {0, schedule.pending},
         edits' \in {edits, edits + 1}, edits' <= Budget,
         Credit(schedule') + edits <= Credit(schedule) + edits',
         UNCHANGED <<neighbor, generation, queue, worker, results, told, lag>>
  PROVE  CapableInv'
<1>1. /\ Shapes /\ InFlightInv /\ SlowInv /\ edits \in Nat /\ edits' \in Nat /\ edits <= edits'
      /\ Budget \in Nat /\ Len(results) \in Nat
  BY BudgetBound, Elements DEF CapableInv
<1>2. daemon' \in Daemons /\ daemon'.pc \in {"drain", "send"}
  BY DEF At, Daemons
<1>3. Shapes'
  <2>1. edits' \in 0..Budget
    BY <1>1
  <2> QED BY <1>1, <1>2, <2>1 DEF Shapes, Budget
<1>4. /\ \A i \in 1..Len(queue) : Held(queue[i], schedule', neighbor, edits', lag)
      /\ \A i \in 1..Len(worker) : Held(worker[i], schedule', neighbor, edits', lag)
      /\ \A i \in 1..Len(results) : InTime(results[i].item, schedule', neighbor, edits', lag, 0)
  BY <1>1, WaitingKept
<1>5. ResultCredit(daemon', schedule') = 0
  BY <1>2 DEF ResultCredit
<1>6. InFlightInv'
  BY <1>2, <1>4, <1>5 DEF InFlightInv
<1>7. SlowInv'
  BY <1>1, SlowKept
<1> QED BY <1>3, <1>6, <1>7 DEF CapableInv

(* A claim takes a token that nothing in flight has.                       *)
LEMMA ClaimStep ==
  ASSUME CapableInv, daemon.pc = "claim", NEW s \in Schedules, s.serial = schedule.serial,
         s.log = schedule.log, s.slow = schedule.slow, s.oldPeriod = schedule.oldPeriod,
         Credit(schedule) = 1, Due(s, TRUE),
         schedule' = Claimed(s), daemon' = [pc |-> "queue", item |-> Item(Claimed(s))], Superseded,
         UNCHANGED <<neighbor, generation, receiver, told, edits, lag>>
  PROVE  CapableInv'
<1>1. /\ Shapes /\ InFlightInv /\ SlowInv /\ schedule \in Schedules /\ neighbor \in Neighbors
      /\ edits \in Nat /\ lag \in Nat /\ lag + edits < TokenMax /\ TokenMax \in Nat
  BY BudgetBound, Bounds DEF CapableInv, Shapes
<1>2. /\ schedule' \in Schedules /\ schedule'.active /\ schedule'.next > 0
      /\ schedule'.serial = NextToken(schedule.serial)
      /\ schedule'.pending = schedule'.serial /\ schedule'.pending \in 1..TokenMax
      /\ schedule'.log = schedule.log /\ schedule'.slow = schedule.slow
      /\ schedule'.oldPeriod = schedule.oldPeriod /\ schedule'.advertised = s.log
  BY ClaimedSchedule
<1>3. Credit(schedule') = 0
  BY <1>2 DEF Credit
<1> DEFINE item == Item(schedule')
<1>4. /\ item \in Items /\ item.association = neighbor.association /\ item.age = 0
      /\ item.token = schedule'.serial /\ item.latest /\ item.mine
  <2>1. /\ daemon.generation \in Nat /\ neighbor.association \in Nat
        /\ schedule'.pending \in 1..TokenMax /\ schedule'.advertised \in {Stop} \cup Logs
    BY <1>1, <1>2 DEF Shapes, Daemons, Neighbors, Schedules
  <2> QED BY <1>2, <2>1 DEF Item, Items
<1>5. daemon' = [pc |-> "queue", item |-> item]
  OBVIOUS
<1> HIDE DEF item
<1>6. daemon' \in Daemons /\ daemon'.pc = "queue" /\ daemon'.item = item
  BY <1>4, <1>5 DEF Daemons
<1>7. queue' = Unclaimed(queue) /\ worker' = Unclaimed(worker) /\ results' = UnclaimedResults(results)
  BY DEF Superseded, Unclaimed, UnclaimedResults
<1>8. /\ queue' \in Seq(Items) /\ Len(queue') = Len(queue)
      /\ \A i \in 1..Len(queue) :
           /\ queue'[i].association = queue[i].association /\ queue'[i].token = queue[i].token
           /\ queue'[i].age = queue[i].age /\ queue'[i] \in Items
      /\ worker' \in Seq(Items) /\ Len(worker') = Len(worker)
      /\ \A i \in 1..Len(worker) :
           /\ worker'[i].association = worker[i].association /\ worker'[i].token = worker[i].token
           /\ worker'[i].age = worker[i].age /\ worker'[i] \in Items
  <2>1. queue \in Seq(Items) /\ worker \in Seq(Items)
    BY <1>1 DEF Shapes
  <2> QED BY <1>7, <2>1, UnclaimedQueue
<1>9. /\ results' \in Seq(Results) /\ Len(results') = Len(results)
      /\ \A i \in 1..Len(results) :
           /\ results'[i].item.association = results[i].item.association
           /\ results'[i].item.token = results[i].item.token
           /\ results'[i].item.age = results[i].item.age /\ results'[i].item \in Items
  <2>1. results \in Seq(Results)
    BY <1>1 DEF Shapes
  <2>2. results' \in Seq(Results) /\ Len(results') = Len(results)
    BY <1>7, <2>1, UnclaimedReports
  <2>3. \A i \in 1..Len(results) : results'[i] \in Results
    BY <2>2
  <2>4. \A i \in 1..Len(results) : results'[i].item \in Items
    BY <2>3 DEF Results
  <2> QED BY <1>7, <2>1, <2>2, <2>4, UnclaimedReports
<1>10. ASSUME NEW a \in Items, NEW b \in Items, InTime(a, schedule, neighbor, edits, lag, 1),
              b.association = a.association, b.token = a.token, b.age = a.age
       PROVE  /\ Held(b, schedule', neighbor, edits, lag)
              /\ InTime(b, schedule', neighbor, edits, lag, 0)
              /\ b.association = neighbor.association => b.token # schedule'.pending
  <2>1. /\ InTime(b, schedule', neighbor, edits, lag, 0)
        /\ b.association = neighbor.association => b.token # schedule'.serial
    BY <1>1, <1>2, <1>10, ClaimPasses
  <2> QED BY <1>2, <1>3, <2>1 DEF Held
<1>11. /\ \A i \in 1..Len(queue) : InTime(queue[i], schedule, neighbor, edits, lag, 1)
       /\ \A i \in 1..Len(worker) : InTime(worker[i], schedule, neighbor, edits, lag, 1)
       /\ \A i \in 1..Len(results) : InTime(results[i].item, schedule, neighbor, edits, lag, 1)
  <2>1. ResultCredit(daemon, schedule) = 1
    BY DEF ResultCredit
  <2> QED BY <1>1, <2>1 DEF InFlightInv, Held
<1>12. /\ \A i \in 1..Len(queue') : Held(queue'[i], schedule', neighbor, edits, lag)
       /\ \A i \in 1..Len(worker') : Held(worker'[i], schedule', neighbor, edits, lag)
  <2>1. \A i \in 1..Len(queue') : Held(queue'[i], schedule', neighbor, edits, lag)
    BY <1>1, <1>8, <1>10, <1>11, Elements, SMTT(30)
  <2>2. \A i \in 1..Len(worker') : Held(worker'[i], schedule', neighbor, edits, lag)
    BY <1>1, <1>8, <1>10, <1>11, Elements, SMTT(30)
  <2> QED BY <2>1, <2>2
<1>13. \A i \in 1..Len(results') :
         /\ InTime(results'[i].item, schedule', neighbor, edits, lag, 0)
         /\ results'[i].item.association = neighbor.association
              => results'[i].item.token # schedule'.pending
  BY <1>1, <1>9, <1>10, <1>11, Elements
<1>14. Held(item, schedule', neighbor, edits, lag)
  <2>1. schedule'.serial \in Nat
    BY <1>2
  <2>2. Distance(schedule', item.token) = 0
    BY <1>4, <2>1 DEF Distance
  <2>3. neighbor.association \in Nat
    BY <1>1 DEF Neighbors
  <2> QED BY <1>1, <1>3, <1>4, <2>2, <2>3 DEF Held, InTime
<1>15. Shapes'
  BY <1>1, <1>2, <1>6, <1>8, <1>9 DEF Shapes, Budget
<1>16. InFlightInv'
  <2>1. ResultCredit(daemon', schedule') = 0
    BY <1>6 DEF ResultCredit
  <2> QED BY <1>6, <1>12, <1>13, <1>14, <2>1 DEF InFlightInv
<1>17. SlowInv'
  <2>1. ~\E i \in 1..Len(results') : Counting(results'[i], schedule', neighbor')
    BY <1>13 DEF Counting
  <2> QED BY <1>1, <1>2, <2>1 DEF SlowInv
<1> QED BY <1>15, <1>16, <1>17 DEF CapableInv

(* An enabled port claims, or has nothing due.                             *)
LEMMA BeginStep == CapableInv /\ Begin(TRUE) => CapableInv'
<1> SUFFICES ASSUME CapableInv, Begin(TRUE) PROVE CapableInv'
  OBVIOUS
<1> DEFINE s == Prepared(schedule, TRUE)
<1>1. /\ schedule \in Schedules /\ receiver \in Receivers /\ edits \in Nat /\ edits <= Budget
  BY BudgetBound DEF CapableInv, Shapes
<1>2. /\ s \in Schedules /\ s.serial = schedule.serial
      /\ s.log = schedule.log /\ s.slow = schedule.slow /\ s.oldPeriod = schedule.oldPeriod
      /\ s.next = schedule.next /\ s.active = schedule.active
      /\ s.pending \in {0, schedule.pending}
  BY <1>1, PreparedSchedule
<1>3. Credit(s) = Credit(schedule) /\ Credit(schedule) \in {0, 1}
  BY <1>2 DEF Credit
<1>4. /\ daemon.pc = "claim"
      /\ edits' = edits /\ receiver' = receiver /\ UNCHANGED <<neighbor, generation, told, lag>>
      /\ IF Due(s, TRUE)
         THEN /\ schedule' = Claimed(s) /\ Superseded
              /\ daemon' = [pc |-> "queue", item |-> Item(Claimed(s))]
         ELSE schedule' = s /\ daemon' = At("drain") /\ UNCHANGED <<queue, worker, results>>
  BY DEF Begin
<1> HIDE DEF s
<1>5. CASE Due(s, TRUE)
  <2>1. Credit(schedule) = 1
    <3>1. s.next \in Int
      BY <1>2, PeriodRange DEF Schedules
    <3> QED BY <1>2, <1>5, <3>1 DEF Due, Credit
  <2> QED BY <1>2, <1>4, <1>5, <2>1, ClaimStep
<1>6. CASE ~Due(s, TRUE)
  <2>1. Credit(schedule') + edits <= Credit(schedule) + edits'
    BY <1>1, <1>3, <1>4, <1>6
  <2> QED BY <1>1, <1>2, <1>4, <1>6, <2>1, BackStep
<1> QED BY <1>5, <1>6

(* A port that is not enabled gives up its claim.                          *)
LEMMA DisabledStep == CapableInv /\ Begin(FALSE) => CapableInv'
<1> SUFFICES ASSUME CapableInv, Begin(FALSE) PROVE CapableInv'
  OBVIOUS
<1> DEFINE s == Prepared(schedule, FALSE)
<1>1. /\ schedule \in Schedules /\ edits \in Nat /\ Budget \in Nat
  BY BudgetBound DEF CapableInv, Shapes
<1>2. /\ s \in Schedules /\ s.serial = schedule.serial
      /\ s.log = schedule.log /\ s.slow = schedule.slow /\ s.oldPeriod = schedule.oldPeriod
      /\ s.pending \in {0, schedule.pending}
  BY <1>1, PreparedSchedule
<1>3. /\ edits < Budget /\ edits' = edits + 1 /\ receiver' = NoExpectation
      /\ schedule' = s /\ daemon' = At("drain")
      /\ UNCHANGED <<neighbor, generation, queue, worker, results, told, lag>>
  BY <1>1 DEF Begin, Due, Room
<1> HIDE DEF s
<1>4. receiver' \in Receivers
  BY <1>3, Bounds DEF NoExpectation, Receivers
<1>5. Credit(schedule') + edits <= Credit(schedule) + edits' /\ edits' <= Budget
  <2>1. Credit(schedule') \in {0, 1} /\ Credit(schedule) \in {0, 1}
    BY Credits, Zenon
  <2> QED BY <1>1, <1>3, <2>1
<1> QED BY <1>1, <1>2, <1>3, <1>4, <1>5, BackStep

(* The claimed item is queued, or a full queue completes its claim.        *)
LEMMA EnqueueStep == CapableInv /\ Enqueue => CapableInv'
<1> SUFFICES ASSUME CapableInv, Enqueue PROVE CapableInv'
  OBVIOUS
<1>1. /\ Shapes /\ InFlightInv /\ SlowInv /\ schedule \in Schedules /\ receiver \in Receivers
      /\ edits \in Nat /\ edits <= Budget
      /\ daemon.pc = "queue" /\ daemon.item \in Items /\ queue \in Seq(Items)
  BY BudgetBound, Elements DEF CapableInv, Shapes, Enqueue
<1>2. /\ daemon' = At("drain")
      /\ UNCHANGED <<neighbor, generation, worker, results, receiver, told, edits, lag>>
  BY DEF Enqueue
<1>3. CASE Len(queue) < QueueMax
  <2>1. queue' = Append(queue, daemon.item) /\ schedule' = schedule
    BY <1>3 DEF Enqueue
  <2>2. /\ queue' \in Seq(Items) /\ Len(queue') = Len(queue) + 1 /\ Len(queue') <= QueueMax
        /\ \A i \in 1..Len(queue') : queue'[i] = IF i <= Len(queue) THEN queue[i] ELSE daemon.item
    BY <1>1, <1>3, <2>1, Bounds, AppendProperties
  <2>3. daemon' \in Daemons /\ daemon'.pc = "drain"
    BY <1>2 DEF At, Daemons
  <2>4. Shapes'
    BY <1>1, <1>2, <2>1, <2>2, <2>3 DEF Shapes, Budget
  <2>5. InFlightInv'
    <3>1. /\ Held(daemon.item, schedule, neighbor, edits, lag)
          /\ \A i \in 1..Len(queue) : Held(queue[i], schedule, neighbor, edits, lag)
          /\ \A i \in 1..Len(worker) : Held(worker[i], schedule, neighbor, edits, lag)
      BY <1>1 DEF InFlightInv
    <3>2. \A i \in 1..Len(queue') : Held(queue'[i], schedule, neighbor, edits, lag)
      <4> SUFFICES ASSUME NEW i \in 1..Len(queue') PROVE Held(queue'[i], schedule, neighbor, edits, lag)
        OBVIOUS
      <4>1. CASE i <= Len(queue)
        <5>1. i \in 1..Len(queue) /\ queue'[i] = queue[i]
          BY <1>1, <2>2, <4>1
        <5> QED BY <3>1, <5>1
      <4>2. CASE ~(i <= Len(queue))
        BY <2>2, <3>1, <4>2
      <4> QED BY <4>1, <4>2
    <3>3. ResultCredit(daemon, schedule) = 0 /\ ResultCredit(daemon', schedule) = 0
      BY <1>1, <2>3 DEF ResultCredit
    <3>4. \A i \in 1..Len(results) :
            InTime(results[i].item, schedule, neighbor, edits, lag, ResultCredit(daemon', schedule))
      BY <1>1, <3>3 DEF InFlightInv
    <3> QED BY <1>2, <2>1, <2>3, <3>1, <3>2, <3>4 DEF InFlightInv
  <2>6. SlowInv'
    BY <1>1, <1>2, <2>1 DEF SlowInv
  <2> QED BY <2>4, <2>5, <2>6 DEF CapableInv
<1>4. CASE ~(Len(queue) < QueueMax)
  <2>1. /\ schedule' \in Schedules /\ schedule'.log = schedule.log /\ schedule'.slow = schedule.slow
        /\ schedule'.oldPeriod = schedule.oldPeriod /\ schedule'.serial = schedule.serial
        /\ schedule'.pending \in {0, schedule.pending} /\ Credit(schedule') <= Credit(schedule)
    <3>1. schedule' = IF Answers(daemon.item) THEN Finished(schedule, FALSE, FALSE) ELSE schedule
      BY <1>4 DEF Enqueue
    <3>2. CASE Answers(daemon.item)
      <4>1. schedule.slow > 0 => schedule.log # Stop
        BY <1>1 DEF SlowInv
      <4>2. /\ schedule' \in Schedules /\ schedule'.pending = 0 /\ schedule'.serial = schedule.serial
            /\ schedule'.log = schedule.log /\ schedule'.oldPeriod = schedule.oldPeriod
            /\ schedule'.active = schedule.active
            /\ schedule'.next = schedule.next \/ schedule'.next > 0
            /\ schedule'.slow = schedule.slow
        BY <1>1, <3>1, <3>2, <4>1, FinishedSchedule
      <4>3. Credit(schedule') <= Credit(schedule)
        BY <4>2 DEF Credit
      <4> QED BY <4>2, <4>3
    <3>3. CASE ~Answers(daemon.item)
      BY <1>1, <3>1, <3>3, Credits
    <3> QED BY <3>2, <3>3
  <2>2. Credit(schedule') + edits <= Credit(schedule) + edits'
    <3>1. Credit(schedule') \in {0, 1} /\ Credit(schedule) \in {0, 1}
      BY Credits, Zenon
    <3> QED BY <1>1, <1>2, <2>1, <3>1
  <2>3. queue' = queue
    BY <1>4 DEF Enqueue
  <2> QED BY <1>1, <1>2, <2>1, <2>2, <2>3, BackStep
<1> QED BY <1>3, <1>4

(* The worker takes the first item of the queue.                           *)
LEMMA TakeStep == CapableInv /\ WorkerTake => CapableInv'
<1> SUFFICES ASSUME CapableInv, WorkerTake PROVE CapableInv'
  OBVIOUS
<1>1. /\ Shapes /\ InFlightInv /\ SlowInv /\ queue \in Seq(Items) /\ Len(queue) <= QueueMax
      /\ QueueMax \in Nat
  BY Bounds DEF CapableInv, Shapes
<1>2. /\ queue # <<>> /\ worker' = <<queue[1]>> /\ queue' = Tail(queue)
      /\ UNCHANGED <<schedule, neighbor, generation, daemon, results, receiver, told, edits, lag>>
  BY DEF WorkerTake
<1>3. /\ queue' \in Seq(Items) /\ Len(queue') = Len(queue) - 1 /\ Len(queue') <= QueueMax
      /\ 1 \in 1..Len(queue) /\ queue[1] \in Items
      /\ \A i \in 1..Len(queue') : i + 1 \in 1..Len(queue) /\ queue'[i] = queue[i + 1]
  BY <1>1, <1>2
<1>4. /\ worker' \in Seq(Items) /\ Len(worker') = 1 /\ worker'[1] = queue[1]
  BY <1>2, <1>3
<1>5. Shapes'
  BY <1>1, <1>2, <1>3, <1>4 DEF Shapes, Budget
<1>6. InFlightInv'
  <2>1. \A i \in 1..Len(queue) : Held(queue[i], schedule, neighbor, edits, lag)
    BY <1>1 DEF InFlightInv
  <2>2. /\ \A i \in 1..Len(queue') : Held(queue'[i], schedule, neighbor, edits, lag)
        /\ \A i \in 1..Len(worker') : Held(worker'[i], schedule, neighbor, edits, lag)
    BY <1>3, <1>4, <2>1
  <2> QED BY <1>1, <1>2, <2>2 DEF InFlightInv
<1>7. SlowInv'
  BY <1>1, <1>2 DEF SlowInv
<1> QED BY <1>5, <1>6, <1>7 DEF CapableInv

(* The worker is done with a message; one that was sent for the            *)
(* outstanding claim told the neighbor.                                    *)
LEMMA ReportStep ==
  ASSUME CapableInv, NEW accepted \in BOOLEAN, Report(accepted), worker # <<>>,
         receiver' \in Receivers, told' \in 0..SlowSends, told' >= told,
         accepted /\ worker[1].latest => told' = SlowSends \/ told' = told + 1
  PROVE  CapableInv'
<1> DEFINE item == worker[1]
           r == [item |-> item, accepted |-> accepted]
<1>1. /\ Shapes /\ InFlightInv /\ SlowInv /\ results \in Seq(Results)
      /\ schedule \in Schedules /\ neighbor \in Neighbors
      /\ worker \in Seq(Items) /\ 1 \in 1..Len(worker) /\ item \in Items
      /\ told \in Nat /\ told' \in Nat /\ QueueMax \in Nat /\ SlowSends \in Nat /\ schedule.slow \in Nat
      /\ edits \in Nat /\ lag \in Nat
  BY BudgetBound, Bounds, SMTT(30) DEF CapableInv, Shapes, Schedules
<1>2. /\ worker' = <<>> /\ UNCHANGED <<schedule, neighbor, generation, daemon, queue, edits, lag>>
      /\ results' = IF Len(results) < QueueMax THEN Append(results, r) ELSE results
  BY DEF Report
<1>3. r \in Results /\ r.item = item /\ r.accepted = accepted
  BY <1>1 DEF Results
<1>4. Held(item, schedule, neighbor, edits, lag)
  BY <1>1 DEF InFlightInv
<1>5. InTime(item, schedule, neighbor, edits, lag, ResultCredit(daemon, schedule))
  <2>1. /\ Credit(schedule) \in {0, 1} /\ ResultCredit(daemon, schedule) \in {0, 1}
        /\ ResultCredit(daemon, schedule) <= Credit(schedule)
    BY Credits, Zenon
  <2>2. InTime(item, schedule, neighbor, edits, lag, Credit(schedule))
    BY <1>4 DEF Held
  <2>3. item.age \in Nat /\ item.age <= lag
    BY <1>1, <2>2 DEF InTime, Items
  <2>4. ResultCredit(daemon, schedule) + item.age + edits <= Credit(schedule) + item.age + edits
    BY <1>1, <2>1, <2>3
  <2> HIDE DEF item
  <2> QED BY <1>1, <2>1, <2>2, <2>3, <2>4, KeptInTime
<1> HIDE DEF item, r
<1>6. /\ results' \in Seq(Results) /\ Len(results') <= QueueMax
      /\ \A i \in 1..Len(results') :
           results'[i] = r \/ (i \in 1..Len(results) /\ results'[i] = results[i])
  <2>1. CASE Len(results) < QueueMax
    <3>1. /\ results' \in Seq(Results) /\ Len(results') = Len(results) + 1
          /\ \A i \in 1..Len(results') : results'[i] = IF i <= Len(results) THEN results[i] ELSE r
      BY <1>1, <1>2, <1>3, <2>1, AppendProperties
    <3> QED BY <1>1, <2>1, <3>1
  <2>2. CASE ~(Len(results) < QueueMax)
    BY <1>1, <1>2, <2>2 DEF Shapes
  <2> QED BY <2>1, <2>2
<1>7. worker' \in Seq(Items) /\ Len(worker') = 0
  BY <1>2
<1>8. Shapes'
  BY <1>1, <1>2, <1>6, <1>7 DEF Shapes, Budget
<1>9. InFlightInv'
  <2>1. \A i \in 1..Len(results') :
          InTime(results'[i].item, schedule, neighbor, edits, lag, ResultCredit(daemon, schedule))
    BY <1>1, <1>3, <1>5, <1>6 DEF InFlightInv
  <2> QED BY <1>1, <1>2, <1>7, <2>1 DEF InFlightInv
<1>10. SlowInv'
  <2>1. ASSUME schedule.slow > 0, NEW i \in 1..Len(results'), Counting(results'[i], schedule, neighbor)
        PROVE  told' + schedule.slow > SlowSends
    <3>0. told + schedule.slow >= SlowSends
      BY <1>1, <2>1 DEF SlowInv
    <3>1. CASE results'[i] = r
      <4>1. accepted /\ item.latest
        BY <1>3, <1>4, <2>1, <3>1 DEF Counting, Held
      <4>2. told' = SlowSends \/ told' = told + 1
        BY <4>1 DEF item
      <4> QED BY <1>1, <2>1, <3>0, <4>2
    <3>2. CASE i \in 1..Len(results) /\ results'[i] = results[i]
      <4>1. told + schedule.slow > SlowSends
        BY <1>1, <2>1, <3>2 DEF SlowInv
      <4> QED BY <1>1, <4>1
    <3> QED BY <1>6, <3>1, <3>2
  <2>2. schedule.slow > 0 => told' + schedule.slow >= SlowSends
    BY <1>1 DEF SlowInv
  <2>3. schedule.slow = 0 =>
          told' >= SlowSends \/ schedule.oldPeriod = 0 \/ Period(schedule.log) <= schedule.oldPeriod
    <3>1. told >= SlowSends => told' >= SlowSends
      BY <1>1
    <3> QED BY <1>1, <3>1 DEF SlowInv
  <2> QED BY <1>1, <1>2, <2>1, <2>2, <2>3 DEF SlowInv
<1> QED BY <1>8, <1>9, <1>10 DEF CapableInv

(* The worker sends, is refused or finds the item stale.                   *)
LEMMA WorkerStep == CapableInv /\ (WorkerSend \/ WorkerRefused \/ WorkerStale) => CapableInv'
<1> SUFFICES ASSUME CapableInv, WorkerSend \/ WorkerRefused \/ WorkerStale PROVE CapableInv'
  OBVIOUS
<1>1. /\ receiver \in Receivers /\ told \in 0..SlowSends /\ SlowSends \in Nat
      /\ worker \in Seq(Items) /\ MaxLost \in Nat
  BY Bounds DEF CapableInv, Shapes
<1>2. Lose => receiver' \in Receivers
  <2> SUFFICES ASSUME Lose PROVE receiver' \in Receivers
    OBVIOUS
  <2>1. CASE lag = 0
    <3>1. receiver.lost + 1 \in 0..MaxLost
      BY <1>1, <2>1 DEF Lose, Receivers
    <3> QED BY <1>1, <2>1, <3>1 DEF Lose, Receivers
  <2>2. CASE lag # 0
    BY <1>1, <2>2 DEF Lose
  <2> QED BY <2>1, <2>2
<1>3. CASE WorkerSend
  <2>1. worker # <<>> /\ worker[1] \in Items
    BY <1>1, <1>3 DEF WorkerSend
  <2>2. told' = IF worker[1].latest /\ told < SlowSends THEN told + 1 ELSE told
    BY <1>3 DEF WorkerSend
  <2>3. /\ told' \in 0..SlowSends /\ told' >= told
        /\ worker[1].latest => told' = SlowSends \/ told' = told + 1
    BY <1>1, <2>2
  <2>4. receiver' \in Receivers
    <3>1. CASE Lose
      BY <1>2, <3>1
    <3>2. CASE receiver' = [log |-> IF lag = 0 /\ (receiver.log # Stop \/ worker[1].latest)
                                    THEN worker[1].log ELSE Stop, age |-> 0, lost |-> 0]
      <4>1. worker[1].log \in {Stop} \cup Logs
        BY <2>1 DEF Items
      <4> QED BY <3>2, <4>1, Bounds DEF Receivers
    <3> QED BY <1>3, <3>1, <3>2 DEF WorkerSend
  <2>5. Report(TRUE)
    BY <1>3 DEF WorkerSend
  <2> QED BY <2>1, <2>3, <2>4, <2>5, ReportStep
<1>4. CASE WorkerRefused
  <2>1. worker # <<>> /\ receiver' \in Receivers /\ told' = told /\ Report(FALSE)
    BY <1>2, <1>4 DEF WorkerRefused
  <2>2. told' \in 0..SlowSends /\ told' >= told
    BY <1>1, <2>1
  <2> QED BY <2>1, <2>2, ReportStep
<1>5. CASE WorkerStale
  <2>1. worker # <<>> /\ receiver' \in Receivers /\ told' = told /\ Report(FALSE)
    BY <1>1, <1>5 DEF WorkerStale
  <2>2. told' \in 0..SlowSends /\ told' >= told
    BY <1>1, <2>1
  <2> QED BY <2>1, <2>2, ReportStep
<1> QED BY <1>3, <1>4, <1>5

(* A change of the schedule starts the count anew.                         *)
LEMMA EditStep ==
  ASSUME CapableInv, daemon.pc = "sleep", daemon' = At("send"), Edit, Outdate, told' = 0,
         schedule' \in Schedules, schedule'.serial = schedule.serial, schedule'.pending = 0,
         schedule'.slow > 0 =>
           /\ schedule'.slow = SlowSends /\ schedule'.log # Stop
           /\ schedule'.oldPeriod \in 1..Period(schedule'.log),
         schedule'.slow = 0 =>
           schedule'.oldPeriod = 0 \/ Period(schedule'.log) <= schedule'.oldPeriod,
         receiver' \in Receivers, UNCHANGED <<neighbor, generation>>
  PROVE  CapableInv'
<1>1. /\ Shapes /\ InFlightInv /\ schedule \in Schedules /\ neighbor \in Neighbors
      /\ edits \in Nat /\ lag \in Nat /\ Budget \in Nat
      /\ queue \in Seq(Items) /\ worker \in Seq(Items)
      /\ SlowSends \in Nat /\ 0 \in 0..SlowSends
  BY BudgetBound, Bounds DEF CapableInv, Shapes
<1>2. /\ edits < Budget /\ edits' = edits + 1 /\ lag' = lag /\ results' = results
      /\ queue' = Outdated(queue) /\ worker' = Outdated(worker)
  BY <1>1 DEF Edit, Room, Outdate, Outdated
<1>3. daemon' \in Daemons /\ daemon'.pc = "send"
  BY DEF At, Daemons
<1>4. /\ queue' \in Seq(Items) /\ Len(queue') = Len(queue)
      /\ worker' \in Seq(Items) /\ Len(worker') = Len(worker)
  BY <1>1, <1>2, OutdatedQueue
<1>5. Shapes'
  <2>1. edits' \in 0..Budget
    BY <1>1, <1>2
  <2> QED BY <1>1, <1>2, <1>3, <1>4, <2>1 DEF Shapes, Budget
<1>6. Credit(schedule') + edits <= Credit(schedule) + edits' /\ edits <= edits' /\ edits' \in Nat
  <2>1. Credit(schedule') \in {0, 1} /\ Credit(schedule) \in {0, 1}
    BY Credits, Zenon
  <2> QED BY <1>1, <1>2, <2>1
<1>7. /\ \A i \in 1..Len(queue) : Held(queue[i], schedule', neighbor, edits', lag)
      /\ \A i \in 1..Len(worker) : Held(worker[i], schedule', neighbor, edits', lag)
      /\ \A i \in 1..Len(results) : InTime(results[i].item, schedule', neighbor, edits', lag, 0)
  BY <1>1, <1>6, WaitingKept
<1>8. ASSUME NEW a \in Items, NEW b \in Items, Held(a, schedule', neighbor, edits', lag),
             b.association = a.association, b.token = a.token, b.age = a.age, b.mine = a.mine
      PROVE  Held(b, schedule', neighbor, edits', lag)
  BY <1>8 DEF Held, InTime
<1>9. /\ \A i \in 1..Len(queue') : Held(queue'[i], schedule', neighbor, edits', lag)
      /\ \A i \in 1..Len(worker') : Held(worker'[i], schedule', neighbor, edits', lag)
  <2>1. /\ \A i \in 1..Len(queue) : queue[i] \in Items /\ queue'[i] \in Items
        /\ \A i \in 1..Len(worker) : worker[i] \in Items /\ worker'[i] \in Items
    BY <1>1, <1>4
  <2>2. \A i \in 1..Len(queue) :
          /\ queue'[i].association = queue[i].association /\ queue'[i].token = queue[i].token
          /\ queue'[i].age = queue[i].age /\ queue'[i].mine = queue[i].mine
    BY <1>1, <1>2, OutdatedQueue
  <2>3. \A i \in 1..Len(worker) :
          /\ worker'[i].association = worker[i].association /\ worker'[i].token = worker[i].token
          /\ worker'[i].age = worker[i].age /\ worker'[i].mine = worker[i].mine
    BY <1>1, <1>2, OutdatedQueue
  <2>4. ASSUME NEW i \in 1..Len(queue) PROVE Held(queue'[i], schedule', neighbor, edits', lag)
    BY <1>7, <1>8, <2>1, <2>2
  <2>5. ASSUME NEW i \in 1..Len(worker) PROVE Held(worker'[i], schedule', neighbor, edits', lag)
    BY <1>7, <1>8, <2>1, <2>3
  <2> QED BY <1>4, <2>4, <2>5
<1>10. InFlightInv'
  <2>1. ResultCredit(daemon', schedule') = 0
    BY <1>3 DEF ResultCredit
  <2> QED BY <1>2, <1>3, <1>7, <1>9, <2>1 DEF InFlightInv
<1>11. SlowInv'
  <2>1. ~\E i \in 1..Len(results') : Counting(results'[i], schedule', neighbor')
    BY DEF Counting
  <2>2. told' + SlowSends >= SlowSends
    BY <1>1
  <2> QED BY <2>1, <2>2 DEF SlowInv
<1> QED BY <1>5, <1>10, <1>11 DEF CapableInv

(* A neighbor asks for another interval.                                   *)
LEMMA RequestStep == CapableInv /\ (\E request \in Requests : Request(request)) => CapableInv'
<1> SUFFICES ASSUME CapableInv, NEW request \in Requests, Request(request) PROVE CapableInv'
  OBVIOUS
<1>1. /\ schedule \in Schedules /\ receiver \in Receivers /\ edits \in Nat /\ Budget \in Nat
  BY BudgetBound DEF CapableInv, Shapes
<1>2. /\ schedule' \in Schedules /\ schedule'.serial = schedule.serial
      /\ \/ schedule' = schedule
         \/ /\ schedule'.log # schedule.log /\ schedule'.pending = 0
            /\ schedule'.oldPeriod = EffectivePeriod(schedule)
            /\ schedule'.slow = IF /\ EffectivePeriod(schedule) > 0
                                   /\ Period(schedule'.log) > EffectivePeriod(schedule)
                                THEN SlowSends ELSE 0
  BY <1>1, RequestedSchedule DEF Request
<1>3. /\ Edit /\ daemon.pc = "sleep" /\ daemon' = At("send")
      /\ UNCHANGED <<neighbor, generation>>
  BY DEF Request
<1>4. receiver' \in Receivers
  <2>1. NoExpectation \in Receivers
    BY Bounds DEF NoExpectation, Receivers
  <2> QED BY <1>1, <2>1 DEF Request
<1>5. CASE schedule'.log = schedule.log
  <2>1. schedule' = schedule
    BY <1>2, <1>5
  <2>2. UNCHANGED <<queue, worker, results, told>>
    BY <1>5 DEF Request
  <2>3. edits' = edits + 1 /\ edits' <= Budget /\ lag' = lag
    BY <1>1, <1>3 DEF Edit, Room
  <2>4. Credit(schedule') + edits <= Credit(schedule) + edits'
    <3>1. Credit(schedule) \in {0, 1}
      BY Credits, Zenon
    <3> QED BY <1>1, <2>1, <2>3, <3>1
  <2> QED BY <1>2, <1>3, <1>4, <2>1, <2>2, <2>3, <2>4, BackStep
<1>6. CASE schedule'.log # schedule.log
  <2>1. Outdate /\ told' = 0
    BY <1>6 DEF Request
  <2> DEFINE e == EffectivePeriod(schedule)
             p == Period(schedule'.log)
  <2>2. /\ schedule'.pending = 0 /\ schedule'.oldPeriod = e
        /\ schedule'.slow = IF e > 0 /\ p > e THEN SlowSends ELSE 0
    BY <1>2, <1>6
  <2>3. e \in Nat /\ p \in Nat
    BY <1>1, <1>2, EffectiveRange, PeriodRange
  <2>4. schedule'.log = Stop => p = 0
    BY PeriodRange
  <2> HIDE DEF e, p
  <2>5. schedule'.slow > 0 => /\ schedule'.slow = SlowSends /\ schedule'.log # Stop
                              /\ schedule'.oldPeriod \in 1..p
    BY <2>2, <2>3, <2>4
  <2>6. schedule'.slow = 0 => schedule'.oldPeriod = 0 \/ p <= schedule'.oldPeriod
    <3>1. SlowSends \in Nat \ {0}
      BY Bounds
    <3> QED BY <2>2, <2>3, <3>1
  <2> QED BY <1>2, <1>3, <1>4, <2>1, <2>2, <2>5, <2>6, EditStep DEF p
<1> QED BY <1>5, <1>6

(* The schedule is begun anew for another port.                            *)
LEMMA RebindStep == CapableInv /\ Rebind => CapableInv'
<1> SUFFICES ASSUME CapableInv, Rebind PROVE CapableInv'
  OBVIOUS
<1>1. schedule.serial \in 0..TokenMax
  BY DEF CapableInv, Shapes, Schedules
<1>2. /\ schedule' \in Schedules /\ schedule'.serial = schedule.serial /\ schedule'.pending = 0
      /\ schedule'.slow = 0 /\ schedule'.oldPeriod = 0
  BY <1>1, ZeroSchedule DEF Rebind, Rebound
<1>3. receiver' \in Receivers
  BY Bounds DEF Rebind, NoExpectation, Receivers
<1> QED BY <1>2, <1>3, EditStep DEF Rebind

(* What the daemon holds stays as it is but for the history mark.          *)
LEMMA OutdatedDaemon ==
  ASSUME CapableInv, OutdateAll
  PROVE  /\ daemon' \in Daemons /\ daemon'.pc = daemon.pc
         /\ daemon.pc # "queue" => daemon' = daemon
         /\ daemon.pc = "queue" =>
              /\ daemon.item \in Items /\ daemon'.item = [daemon.item EXCEPT !.latest = FALSE]
              /\ daemon'.item \in Items /\ daemon'.item.age = daemon.item.age
              /\ daemon'.item.association = daemon.item.association
              /\ daemon'.item.token = daemon.item.token /\ daemon'.item.mine = daemon.item.mine
<1>1. CASE daemon.pc = "queue"
  <2>1. daemon' = [daemon EXCEPT !.item.latest = FALSE]
    BY <1>1 DEF OutdateAll
  <2>2. daemon \in [pc : {"queue"}, item : Items]
    BY <1>1 DEF CapableInv, Shapes, Daemons
  <2> DEFINE item == [daemon.item EXCEPT !.latest = FALSE]
  <2>3. daemon.item \in Items
    BY <2>2
  <2>4. /\ item \in Items /\ item.age = daemon.item.age /\ item.association = daemon.item.association
        /\ item.token = daemon.item.token /\ item.mine = daemon.item.mine
    BY <2>3 DEF Items
  <2>5. daemon' = [pc |-> "queue", item |-> item]
    BY <2>1, <2>2
  <2>6. daemon'.item = [daemon.item EXCEPT !.latest = FALSE]
    BY <2>5
  <2> HIDE DEF item
  <2> QED BY <1>1, <2>3, <2>4, <2>5, <2>6 DEF Daemons
<1>2. CASE daemon.pc # "queue"
  BY <1>2 DEF OutdateAll, CapableInv, Shapes
<1> QED BY <1>1, <1>2

(* A profile reset has an edit in hand until it is through.                *)
Reserve == neighbor.resetting => edits < Budget

LEMMA ReserveStep == CapableInv /\ Reserve /\ [Next]_vars => Reserve'
<1> SUFFICES ASSUME CapableInv, Reserve, [Next]_vars, neighbor'.resetting PROVE edits' < Budget'
  BY DEF Reserve
<1>1. edits \in Nat /\ Budget \in Nat /\ neighbor \in Neighbors
  BY BudgetBound DEF CapableInv, Shapes
<1>2. CASE Room /\ neighbor' = neighbor /\ edits' = edits + 1 /\ lag' = lag
  BY <1>1, <1>2 DEF Room, Budget
<1>3. CASE UNCHANGED <<neighbor, edits, lag>>
  BY <1>3 DEF Reserve, Budget
<1>4. CASE Daemon \/ Wake \/ Worker \/ Tick
  <2>1. UNCHANGED <<neighbor, edits, lag>>
    BY <1>4 DEF Daemon, DrainResult, Poll, ReadGeneration, Begin, Enqueue, Wake, Worker, WorkerTake,
       WorkerSend, WorkerRefused, WorkerStale, Report, Tick
  <2> QED BY <2>1, <1>3
<1>5. CASE Begin(FALSE)
  BY <1>2, <1>5 DEF Begin
<1>6. CASE (\E request \in Requests : Request(request)) \/ Rebind
  BY <1>2, <1>6 DEF Request, Rebind, Edit
<1>7. CASE ProfileReset
  BY <1>1, <1>7 DEF ProfileReset, Room, Budget
<1>8. CASE ResetSchedule
  BY <1>1, <1>8 DEF ResetSchedule, Neighbors
<1>9. CASE Associate
  BY <1>1, <1>9 DEF Associate, Neighbors, Edit, Room, Budget
<1>10. CASE Advance
  BY <1>1, <1>10 DEF Advance, Neighbors, Reserve, Budget
<1>11. CASE UNCHANGED vars
  BY <1>3, <1>11 DEF vars
<1> QED BY <1>4, <1>5, <1>6, <1>7, <1>8, <1>9, <1>10, <1>11 DEF Next

(* A profile reset zeroes the schedule in the end, whatever the daemon is  *)
(* at.                                                                     *)
LEMMA ResetStep == CapableInv /\ Reserve /\ ResetSchedule => CapableInv'
<1> SUFFICES ASSUME CapableInv, Reserve, ResetSchedule PROVE CapableInv'
  OBVIOUS
<1>1. /\ Shapes /\ InFlightInv /\ schedule \in Schedules /\ neighbor \in Neighbors
      /\ edits \in Nat /\ lag \in Nat /\ Budget \in Nat /\ edits < Budget
      /\ queue \in Seq(Items) /\ worker \in Seq(Items) /\ 0 \in 0..SlowSends
      /\ schedule.serial \in 0..TokenMax
  BY BudgetBound, Bounds DEF CapableInv, Shapes, Schedules, Reserve, ResetSchedule
<1>2. /\ edits' = edits + 1 /\ lag' = lag /\ results' = results
      /\ queue' = Outdated(queue) /\ worker' = Outdated(worker) /\ told' = 0
      /\ UNCHANGED generation /\ receiver' = NoExpectation /\ schedule' = Zero(schedule.serial)
  BY DEF ResetSchedule, Rebound, OutdateAll, Outdate, Outdated
<1>3. neighbor' \in Neighbors /\ neighbor'.association = neighbor.association
  BY <1>1 DEF ResetSchedule, Neighbors
<1>4. /\ schedule' \in Schedules /\ schedule'.pending = 0 /\ schedule'.slow = 0
      /\ schedule'.oldPeriod = 0 /\ schedule'.serial = schedule.serial
  BY <1>1, <1>2, ZeroSchedule
<1>5. /\ daemon' \in Daemons /\ daemon'.pc = daemon.pc
      /\ daemon.pc = "queue" =>
           /\ daemon.item \in Items /\ daemon'.item \in Items /\ daemon'.item.age = daemon.item.age
           /\ daemon'.item.association = daemon.item.association
           /\ daemon'.item.token = daemon.item.token /\ daemon'.item.mine = daemon.item.mine
  BY OutdatedDaemon DEF ResetSchedule
<1>6. receiver' \in Receivers
  BY <1>2, Bounds DEF NoExpectation, Receivers
<1>7. /\ queue' \in Seq(Items) /\ Len(queue') = Len(queue)
      /\ worker' \in Seq(Items) /\ Len(worker') = Len(worker)
  BY <1>1, <1>2, OutdatedQueue
<1>8. Shapes'
  <2>1. edits' \in 0..Budget
    BY <1>1, <1>2
  <2> QED BY <1>1, <1>2, <1>3, <1>4, <1>5, <1>6, <1>7, <2>1 DEF Shapes, Budget
<1>9. /\ Credit(schedule') \in {0, 1} /\ Credit(schedule) \in {0, 1}
      /\ Credit(schedule') + edits <= Credit(schedule) + edits' /\ edits <= edits' /\ edits' \in Nat
  <2>1. Credit(schedule') \in {0, 1} /\ Credit(schedule) \in {0, 1}
    BY Credits, Zenon
  <2> QED BY <1>1, <1>2, <2>1
<1>10. /\ \A i \in 1..Len(queue) : Held(queue[i], schedule', neighbor, edits', lag)
       /\ \A i \in 1..Len(worker) : Held(worker[i], schedule', neighbor, edits', lag)
       /\ daemon.pc = "queue" => Held(daemon.item, schedule', neighbor, edits', lag)
  BY <1>1, <1>4, <1>9, WaitingKept
<1>11. ASSUME NEW a \in Items, NEW b \in Items, Held(a, schedule', neighbor, edits', lag),
              b.association = a.association, b.token = a.token, b.age = a.age, b.mine = a.mine
       PROVE  Held(b, schedule', neighbor', edits', lag)
  BY <1>3, <1>4, <1>11 DEF Held, InTime
<1>12. /\ \A i \in 1..Len(queue') : Held(queue'[i], schedule', neighbor', edits', lag)
       /\ \A i \in 1..Len(worker') : Held(worker'[i], schedule', neighbor', edits', lag)
       /\ daemon'.pc = "queue" => Held(daemon'.item, schedule', neighbor', edits', lag)
  <2>1. /\ \A i \in 1..Len(queue) : queue[i] \in Items /\ queue'[i] \in Items
        /\ \A i \in 1..Len(worker) : worker[i] \in Items /\ worker'[i] \in Items
    BY <1>1, <1>7
  <2>2. \A i \in 1..Len(queue) :
          /\ queue'[i].association = queue[i].association /\ queue'[i].token = queue[i].token
          /\ queue'[i].age = queue[i].age /\ queue'[i].mine = queue[i].mine
    BY <1>1, <1>2, OutdatedQueue
  <2>3. \A i \in 1..Len(worker) :
          /\ worker'[i].association = worker[i].association /\ worker'[i].token = worker[i].token
          /\ worker'[i].age = worker[i].age /\ worker'[i].mine = worker[i].mine
    BY <1>1, <1>2, OutdatedQueue
  <2>4. ASSUME NEW i \in 1..Len(queue) PROVE Held(queue'[i], schedule', neighbor', edits', lag)
    BY <1>10, <1>11, <2>1, <2>2
  <2>5. ASSUME NEW i \in 1..Len(worker) PROVE Held(worker'[i], schedule', neighbor', edits', lag)
    BY <1>10, <1>11, <2>1, <2>3
  <2>6. daemon.pc = "queue" => Held(daemon'.item, schedule', neighbor', edits', lag)
    BY <1>5, <1>10, <1>11
  <2> QED BY <1>5, <1>7, <2>4, <2>5, <2>6
<1>13. ASSUME NEW i \in 1..Len(results)
       PROVE  InTime(results[i].item, schedule', neighbor', edits', lag, ResultCredit(daemon', schedule'))
  <2> DEFINE item == results[i].item
             c == ResultCredit(daemon, schedule)
             d == ResultCredit(daemon', schedule')
  <2>1. item \in Items /\ InTime(item, schedule, neighbor, edits, lag, c)
    BY <1>1, Elements DEF InFlightInv, Shapes, Results
  <2>2. c \in {0, 1} /\ d \in {0, 1}
    BY <1>9 DEF ResultCredit
  <2> HIDE DEF item, c, d
  <2>3. /\ item.age \in Nat /\ item.age <= lag
        /\ d + item.age + edits <= c + item.age + edits'
    BY <1>1, <1>2, <2>1, <2>2 DEF Items, InTime
  <2>4. InTime(item, schedule', neighbor, edits', lag, d)
    <3>1. /\ schedule \in Schedules /\ schedule' \in Schedules /\ neighbor \in Neighbors
          /\ edits \in Nat /\ edits' \in Nat /\ lag \in Nat
          /\ schedule'.serial = schedule.serial
      BY <1>1, <1>4, <1>9
    <3> QED BY ONLY <2>1, <2>2, <2>3, <3>1, KeptInTime
  <2>5. InTime(item, schedule', neighbor', edits', lag, d)
    BY <1>3, <2>4 DEF InTime
  <2> QED BY <2>5 DEF item, d
<1>14. InFlightInv'
  BY <1>2, <1>12, <1>13 DEF InFlightInv
<1>15. SlowInv'
  BY <1>4 DEF SlowInv
<1> QED BY <1>8, <1>14, <1>15 DEF CapableInv

(* A new association leaves all work in flight behind.                     *)
LEMMA AssociateStep == CapableInv /\ Associate => CapableInv'
<1> SUFFICES ASSUME CapableInv, Associate PROVE CapableInv'
  OBVIOUS
<1>1. /\ Shapes /\ InFlightInv /\ neighbor \in Neighbors /\ neighbor.association \in Nat
      /\ edits \in Nat /\ Budget \in Nat /\ queue \in Seq(Items) /\ worker \in Seq(Items)
      /\ 0 \in 0..SlowSends
  BY BudgetBound, Bounds DEF CapableInv, Shapes, Neighbors
<1>2. /\ edits < Budget /\ edits' = edits + 1 /\ lag' = lag /\ results' = results
      /\ queue' = Outdated(queue) /\ worker' = Outdated(worker) /\ told' = 0
      /\ UNCHANGED generation /\ receiver' = NoExpectation /\ schedule' = Zero(0)
  BY <1>1 DEF Associate, Edit, Room, OutdateAll, Outdate, Outdated
<1>3. /\ neighbor' \in Neighbors /\ neighbor'.association = neighbor.association + 1
  <2>1. neighbor.association + 1 \in Nat
    BY <1>1
  <2> QED BY <1>1, <2>1 DEF Associate, Neighbors
<1>4. /\ schedule' \in Schedules /\ schedule'.pending = 0 /\ schedule'.slow = 0
      /\ schedule'.oldPeriod = 0 /\ schedule'.serial = 0
  BY <1>2, Bounds, ZeroSchedule
<1>5. /\ daemon' \in Daemons /\ daemon'.pc = daemon.pc
      /\ daemon.pc = "queue" => /\ daemon'.item \in Items /\ daemon'.item.age = daemon.item.age
                                /\ daemon'.item.association = daemon.item.association
  BY OutdatedDaemon DEF Associate
<1>6. receiver' \in Receivers
  BY <1>2, Bounds DEF NoExpectation, Receivers
<1>7. /\ queue' \in Seq(Items) /\ Len(queue') = Len(queue)
      /\ worker' \in Seq(Items) /\ Len(worker') = Len(worker)
      /\ \A i \in 1..Len(queue) :
           queue'[i].association = queue[i].association /\ queue'[i].age = queue[i].age
      /\ \A i \in 1..Len(worker) :
           worker'[i].association = worker[i].association /\ worker'[i].age = worker[i].age
  BY <1>1, <1>2, OutdatedQueue
<1>8. Shapes'
  <2>1. edits' \in 0..Budget
    BY <1>1, <1>2
  <2> QED BY <1>1, <1>2, <1>3, <1>4, <1>5, <1>6, <1>7, <2>1 DEF Shapes, Budget
<1>9. ASSUME NEW a \in Items, NEW b, NEW c, InTime(a, schedule, neighbor, edits, lag, c),
             b.association = a.association, b.age = a.age
      PROVE  /\ Held(b, schedule', neighbor', edits', lag)
             /\ \A d : InTime(b, schedule', neighbor', edits', lag, d)
  <2>1. a.association \in Nat /\ a.association <= neighbor.association /\ b.age <= lag
    BY <1>9 DEF InTime, Items
  <2>2. b.association <= neighbor'.association /\ b.association # neighbor'.association
    BY <1>1, <1>3, <1>9, <2>1
  <2> QED BY <2>1, <2>2 DEF Held, InTime
<1>10. /\ \A i \in 1..Len(queue) : InTime(queue[i], schedule, neighbor, edits, lag, Credit(schedule))
       /\ \A i \in 1..Len(worker) : InTime(worker[i], schedule, neighbor, edits, lag, Credit(schedule))
       /\ daemon.pc = "queue" => InTime(daemon.item, schedule, neighbor, edits, lag, Credit(schedule))
       /\ \A i \in 1..Len(results) :
            InTime(results[i].item, schedule, neighbor, edits, lag, ResultCredit(daemon, schedule))
  BY <1>1 DEF InFlightInv, Held
<1>11. /\ \A i \in 1..Len(queue') : Held(queue'[i], schedule', neighbor', edits', lag)
       /\ \A i \in 1..Len(worker') : Held(worker'[i], schedule', neighbor', edits', lag)
       /\ daemon'.pc = "queue" => Held(daemon'.item, schedule', neighbor', edits', lag)
  <2>1. ASSUME NEW i \in 1..Len(queue) PROVE Held(queue'[i], schedule', neighbor', edits', lag)
    BY <1>1, <1>7, <1>9, <1>10, Elements
  <2>2. ASSUME NEW i \in 1..Len(worker) PROVE Held(worker'[i], schedule', neighbor', edits', lag)
    BY <1>1, <1>7, <1>9, <1>10, Elements
  <2>3. daemon.pc = "queue" => Held(daemon'.item, schedule', neighbor', edits', lag)
    BY <1>1, <1>5, <1>9, <1>10, Elements
  <2> QED BY <1>5, <1>7, <2>1, <2>2, <2>3
<1>12. \A i \in 1..Len(results') :
         InTime(results'[i].item, schedule', neighbor', edits', lag, ResultCredit(daemon', schedule'))
  BY <1>1, <1>2, <1>9, <1>10, Elements
<1>13. InFlightInv'
  BY <1>2, <1>11, <1>12 DEF InFlightInv
<1>14. SlowInv'
  BY <1>4 DEF SlowInv
<1> QED BY <1>8, <1>13, <1>14 DEF CapableInv

(* The link generation follows the new association, or a profile reset     *)
(* begins; the schedule does not notice.                                   *)
LEMMA AdvanceStep == CapableInv /\ (Advance \/ ProfileReset) => CapableInv'
<1> SUFFICES ASSUME CapableInv, Advance \/ ProfileReset PROVE CapableInv'
  OBVIOUS
<1>1. /\ Shapes /\ InFlightInv /\ SlowInv /\ neighbor \in Neighbors /\ generation \in Nat
  BY DEF CapableInv, Shapes
<1>2. /\ neighbor' \in Neighbors /\ neighbor'.association = neighbor.association
  BY <1>1 DEF Advance, ProfileReset, Neighbors
<1>3. /\ generation' \in Nat /\ receiver' \in Receivers
      /\ UNCHANGED <<schedule, daemon, queue, worker, results, told, edits, lag>>
  BY <1>1, Bounds DEF Advance, ProfileReset, Shapes, NoExpectation, Receivers
<1>4. Shapes'
  BY <1>1, <1>2, <1>3 DEF Shapes, Budget
<1>5. ASSUME NEW a, NEW c PROVE
        /\ InTime(a, schedule, neighbor, edits, lag, c) => InTime(a, schedule, neighbor', edits, lag, c)
        /\ Held(a, schedule, neighbor, edits, lag) => Held(a, schedule, neighbor', edits, lag)
  BY <1>2 DEF Held, InTime
<1>6. InFlightInv'
  BY <1>1, <1>3, <1>5 DEF InFlightInv
<1>7. SlowInv'
  BY <1>1, <1>2, <1>3, SlowKept
<1> QED BY <1>4, <1>6, <1>7 DEF CapableInv

(* Time that makes the next claim possible has made what is in flight      *)
(* older.                                                                  *)
LEMMA TickStep == CapableInv /\ Tick => CapableInv'
<1> SUFFICES ASSUME CapableInv, Tick PROVE CapableInv'
  OBVIOUS
<1>1. /\ Shapes /\ InFlightInv /\ SlowInv /\ schedule \in Schedules /\ neighbor \in Neighbors
      /\ edits \in Nat /\ lag \in Nat /\ queue \in Seq(Items) /\ worker \in Seq(Items)
      /\ receiver \in Receivers /\ daemon.pc = "sleep"
  BY BudgetBound DEF CapableInv, Shapes, Tick
<1>2. /\ UNCHANGED <<neighbor, generation, results, told, edits, lag>>
      /\ queue' = Aged(queue) /\ worker' = Aged(worker)
      /\ \A i \in 1..Len(queue) : queue[i].age < lag
      /\ \A i \in 1..Len(worker) : worker[i].age < lag
  BY <1>1 DEF Tick
<1>3. daemon' \in Daemons /\ daemon'.pc = "sleep"
  <2>1. daemon.wait \in Nat /\ daemon.wait > 0
    BY <1>1 DEF Tick, Shapes, Daemons
  <2>2. daemon.wait - 1 \in Nat
    BY <2>1
  <2> QED BY <2>2 DEF Tick, Asleep, Daemons
<1>4. /\ schedule' \in Schedules /\ schedule'.serial = schedule.serial
      /\ schedule'.pending = schedule.pending /\ schedule'.log = schedule.log
      /\ schedule'.slow = schedule.slow /\ schedule'.oldPeriod = schedule.oldPeriod
  <2> DEFINE age == Older(schedule.age, Second)
             next == IF schedule.next > -Slowest THEN schedule.next - 1 ELSE schedule.next
  <2>1. age \in 0..Second
    <3>1. schedule.age \in 0..Second /\ Second \in Nat
      BY <1>1, PeriodRange DEF Schedules
    <3> QED BY <3>1 DEF Older
  <2>2. next \in -Slowest..Slowest
    <3>1. schedule.next \in -Slowest..Slowest /\ Slowest \in Nat
      BY <1>1, PeriodRange DEF Schedules
    <3> QED BY <3>1
  <2>3. schedule' = [schedule EXCEPT !.age = age, !.next = next]
    <3>1. schedule' = [schedule EXCEPT !.age = Older(schedule.age, Second),
                         !.next = IF schedule.next > -Period(SlowestLog)
                                  THEN schedule.next - 1 ELSE schedule.next]
      BY <1>1 DEF Tick, Schedules
    <3> QED BY <3>1 DEF Slowest
  <2> HIDE DEF age, next
  <2>4. schedule' \in Schedules
    BY <1>1, <2>1, <2>2, <2>3 DEF Schedules
  <2>5. /\ schedule'.serial = schedule.serial
        /\ schedule'.pending = schedule.pending /\ schedule'.log = schedule.log
        /\ schedule'.slow = schedule.slow /\ schedule'.oldPeriod = schedule.oldPeriod
    BY <1>1, <2>3 DEF Schedules
  <2> QED BY <2>4, <2>5
<1>5. receiver' \in Receivers
  <2> DEFINE age == IF receiver.log = Stop THEN 0 ELSE Older(receiver.age, Longest)
  <2>1. age \in 0..Longest
    <3>1. receiver.age \in 0..Longest /\ Longest \in Nat
      BY <1>1, Bounds DEF Receivers
    <3> QED BY <3>1 DEF Older
  <2>2. receiver' = [receiver EXCEPT !.age = age]
    BY <1>1 DEF Tick, Receivers
  <2> HIDE DEF age
  <2> QED BY <1>1, <2>1, <2>2 DEF Receivers
<1>6. /\ queue' \in Seq(Items) /\ Len(queue') = Len(queue)
      /\ worker' \in Seq(Items) /\ Len(worker') = Len(worker)
  BY <1>1, <1>2, AgedQueue
<1>7. Shapes'
  BY <1>1, <1>2, <1>3, <1>4, <1>5, <1>6 DEF Shapes, Budget
<1>8. ASSUME NEW a \in Items, NEW b \in Items, Held(a, schedule, neighbor, edits, lag), a.age < lag,
             b.association = a.association, b.token = a.token, b.age = a.age + 1,
             b.latest = a.latest, b.mine = a.mine
      PROVE  Held(b, schedule', neighbor, edits, lag)
  <2>1. a.age \in Nat
    BY DEF Items
  <2>2. Credit(schedule') \in {0, 1} /\ Credit(schedule) \in {0, 1}
    BY Credits, Zenon
  <2>3. b.age <= lag /\ Credit(schedule') + a.age + edits <= Credit(schedule) + b.age + edits
    BY <1>1, <1>8, <2>1, <2>2
  <2> QED BY <1>1, <1>4, <1>8, <2>3, KeptHeld
<1>9. /\ \A i \in 1..Len(queue) : Held(queue[i], schedule, neighbor, edits, lag)
      /\ \A i \in 1..Len(worker) : Held(worker[i], schedule, neighbor, edits, lag)
      /\ \A i \in 1..Len(results) : InTime(results[i].item, schedule, neighbor, edits, lag, 0)
  <2>1. ResultCredit(daemon, schedule) = 0
    BY <1>1 DEF ResultCredit
  <2> QED BY <1>1, <2>1 DEF InFlightInv
<1>10. ASSUME NEW i \in 1..Len(queue) PROVE Held(queue'[i], schedule', neighbor, edits, lag)
  <2>1. /\ queue[i] \in Items /\ queue'[i] \in Items
    BY <1>1, <1>6
  <2>2. /\ queue'[i].association = queue[i].association /\ queue'[i].token = queue[i].token
        /\ queue'[i].latest = queue[i].latest /\ queue'[i].mine = queue[i].mine
        /\ queue'[i].age = queue[i].age + 1
    BY <1>1, <1>2, AgedQueue
  <2> QED BY <1>2, <1>8, <1>9, <2>1, <2>2
<1>11. ASSUME NEW i \in 1..Len(worker) PROVE Held(worker'[i], schedule', neighbor, edits, lag)
  <2>1. /\ worker[i] \in Items /\ worker'[i] \in Items
    BY <1>1, <1>6
  <2>2. /\ worker'[i].association = worker[i].association /\ worker'[i].token = worker[i].token
        /\ worker'[i].latest = worker[i].latest /\ worker'[i].mine = worker[i].mine
        /\ worker'[i].age = worker[i].age + 1
    BY <1>1, <1>2, AgedQueue
  <2> QED BY <1>2, <1>8, <1>9, <2>1, <2>2
<1>12. \A i \in 1..Len(results) : InTime(results[i].item, schedule', neighbor, edits, lag, 0)
  BY <1>4, <1>9 DEF InTime, Distance
<1>13. InFlightInv'
  <2>1. ResultCredit(daemon', schedule') = 0
    BY <1>3 DEF ResultCredit
  <2> QED BY <1>2, <1>3, <1>6, <1>10, <1>11, <1>12, <2>1 DEF InFlightInv
<1>14. SlowInv'
  BY <1>1, <1>2, <1>4, SlowKept
<1> QED BY <1>7, <1>13, <1>14 DEF CapableInv

(* Every step keeps the invariant.                                         *)
LEMMA CapableStep == CapableInv /\ Reserve /\ [Next]_vars => CapableInv'
<1> SUFFICES ASSUME CapableInv, Reserve, [Next]_vars PROVE CapableInv'
  OBVIOUS
<1>1. CASE Daemon
  BY <1>1, DrainStep, PollStep, BeginStep, EnqueueStep DEF Daemon
<1>2. CASE Wake
  BY <1>2, PollStep
<1>3. CASE Begin(FALSE)
  BY <1>3, DisabledStep
<1>4. CASE Worker
  BY <1>4, TakeStep, WorkerStep DEF Worker
<1>5. CASE \E request \in Requests : Request(request)
  BY <1>5, RequestStep
<1>6. CASE Rebind \/ ResetSchedule
  BY <1>6, RebindStep, ResetStep
<1>7. CASE Associate \/ Advance \/ ProfileReset \/ Tick
  BY <1>7, AssociateStep, AdvanceStep, TickStep
<1>8. CASE UNCHANGED vars
  <2>1. Shapes'
    BY <1>8 DEF vars, CapableInv, Shapes, Budget
  <2>2. InFlightInv'
    BY <1>8 DEF vars, CapableInv, InFlightInv
  <2>3. SlowInv'
    BY <1>8 DEF vars, CapableInv, SlowInv
  <2> QED BY <2>1, <2>2, <2>3 DEF CapableInv
<1> QED BY <1>1, <1>2, <1>3, <1>4, <1>5, <1>6, <1>7, <1>8 DEF Next

(* The invariant holds at the start.                                       *)
LEMMA CapableInit == Init => CapableInv
<1> SUFFICES ASSUME Init PROVE CapableInv
  OBVIOUS
<1>1. /\ schedule \in Schedules /\ schedule.serial = 0 /\ schedule.pending = 0
      /\ schedule.slow = 0 /\ schedule.oldPeriod = 0
  BY Bounds, ZeroSchedule DEF Init
<1>2. neighbor \in Neighbors /\ daemon \in Daemons /\ daemon.pc = "drain"
  BY DEF Init, Neighbors, Daemons, At
<1>3. receiver \in Receivers
  BY Bounds DEF Init, NoExpectation, Receivers
<1>4. /\ queue \in Seq(Items) /\ worker \in Seq(Items) /\ results \in Seq(Results)
      /\ Len(queue) = 0 /\ Len(worker) = 0 /\ Len(results) = 0
  BY DEF Init
<1>5. told \in 0..SlowSends /\ edits \in 0..Budget /\ lag \in {0, MaxDelay} /\ generation \in Nat
  BY Bounds DEF Init, Budget
<1>6. Shapes
  BY <1>1, <1>2, <1>3, <1>4, <1>5, Bounds DEF Shapes
<1>7. InFlightInv
  BY <1>2, <1>4 DEF InFlightInv
<1>8. SlowInv
  BY <1>1 DEF SlowInv
<1> QED BY <1>6, <1>7, <1>8 DEF CapableInv

(* The invariant of schedules, queue and completions holds throughout.     *)
LEMMA CapableCorrect == Spec => []CapableInv
<1>1. Init => Reserve
  BY DEF Init, Reserve
<1> QED BY <1>1, CapableInit, CapableStep, ReserveStep, PTL DEF Spec

(* The pace falls only once SlowSends accepted messages told the new       *)
(* interval, and the schedule, the queues and the neighbor keep to their   *)
(* ranges (ptp_capable_schedule_request, ptp_capable_schedule_finish).     *)
THEOREM PaceCorrect == Spec => []PaceInv
<1>1. CapableInv => PaceInv
  <2> SUFFICES ASSUME CapableInv PROVE PaceInv
    OBVIOUS
  <2>1. /\ schedule \in Schedules /\ daemon \in Daemons /\ receiver \in Receivers /\ SlowInv
        /\ told \in 0..SlowSends /\ Len(queue) <= QueueMax /\ Len(results) <= QueueMax
        /\ Len(worker) <= 1
    BY DEF CapableInv, Shapes
  <2>2. /\ schedule.log \in {Stop} \cup -Shift..SlowestLog
        /\ schedule.slow \in 0..SlowSends /\ schedule.age \in 0..Second
        /\ {schedule.pending, schedule.serial} \subseteq 0..TokenMax
        /\ schedule.next \in -Period(SlowestLog)..Period(SlowestLog)
    BY <2>1 DEF Schedules, Logs, Slowest
  <2>3. daemon.pc \in {"drain", "sleep", "send", "claim", "queue"}
    BY <2>1 DEF Daemons
  <2>4. receiver.age \in 0..Longest /\ receiver.lost \in 0..MaxLost
    BY <2>1 DEF Receivers
  <2>5. TypeOK
    BY <2>1, <2>2, <2>3, <2>4 DEF TypeOK
  <2>6. ToldBeforeSlower
    <3>1. schedule.oldPeriod \in Nat /\ Slowest \in Nat
      BY <2>1, PeriodRange DEF Schedules
    <3>2. CASE schedule.slow > 0
      BY <3>1, <3>2 DEF ToldBeforeSlower, EffectivePeriod
    <3>3. CASE ~(schedule.slow > 0)
      <4>1. schedule.slow = 0
        BY <2>2, <3>3, Bounds
      <4> QED BY <2>1, <3>3, <4>1 DEF ToldBeforeSlower, EffectivePeriod, SlowInv
    <3> QED BY <3>2, <3>3
  <2> QED BY <2>5, <2>6 DEF PaceInv
<1> QED BY <1>1, CapableCorrect, PTL

(* A completion finishes only the claim it was made for, whatever waited   *)
(* in the queues across requests, expiries, other ports and associations   *)
(* (ptp_capable_schedule_finish, ptp_wifi_peers_sent).                     *)
THEOREM ClaimCorrect == Spec => []CompletionIsItsClaim
<1>1. CapableInv => CompletionIsItsClaim
  <2> SUFFICES ASSUME CapableInv, NEW item \in InFlight, schedule.pending # 0, Answers(item)
               PROVE  item.mine
    BY DEF CompletionIsItsClaim
  <2>1. /\ Shapes /\ InFlightInv
        /\ item.token = schedule.serial /\ item.association = neighbor.association
    BY DEF CapableInv, SlowInv, Answers
  <2>2. \A c : InTime(item, schedule, neighbor, edits, lag, c) => item.mine
    BY <2>1 DEF InTime
  <2>3. \E c : InTime(item, schedule, neighbor, edits, lag, c)
    <3>1. CASE \E i \in DOMAIN queue : item = queue[i]
      <4>1. DOMAIN queue = 1..Len(queue)
        BY <2>1 DEF Shapes
      <4> QED BY <2>1, <3>1, <4>1 DEF InFlightInv, Held
    <3>2. CASE \E i \in DOMAIN worker : item = worker[i]
      <4>1. DOMAIN worker = 1..Len(worker)
        BY <2>1 DEF Shapes
      <4> QED BY <2>1, <3>2, <4>1 DEF InFlightInv, Held
    <3>3. CASE \E i \in DOMAIN results : item = results[i].item
      <4>1. DOMAIN results = 1..Len(results)
        BY <2>1 DEF Shapes
      <4> QED BY <2>1, <3>3, <4>1 DEF InFlightInv
    <3>4. CASE daemon.pc = "queue" /\ item = daemon.item
      BY <2>1, <3>4 DEF InFlightInv, Held
    <3> QED BY <3>1, <3>2, <3>3, <3>4 DEF InFlight
  <2> QED BY <2>2, <2>3
<1> QED BY <1>1, CapableCorrect, PTL

-----------------------------------------------------------------------------
(* NeighborStaysCapable.  The times add up along what the worker is to     *)
(* send, the deadline of the schedule and the losses so far; a slowdown is *)
(* paid for by a period the neighbor was told of before the daemon uses it.*)

(* What is to be sent, in the order in which the worker will: its message, *)
(* the queue and the claim the daemon is about to enqueue.                 *)
Offered == IF daemon.pc = "queue" THEN <<daemon.item>> ELSE <<>>
Line == (worker \o queue) \o Offered

(* The period the daemon sends at and the one the neighbor was told.       *)
Pace == EffectivePeriod(schedule)
Heard == Period(receiver.log)

(* Ticks to the deadline.  A claim whose completion record is gone or will *)
(* not count stops the schedule until it expires.                          *)
Left(s) == IF s.active /\ s.next > 0 THEN s.next ELSE 0
Completes(item) == Answers(item) /\ item.generation = generation
Awaited ==
  \/ \E i \in 1..Len(Line) : Completes(Line[i])
  \/ \E i \in 1..Len(results) : Completes(results[i].item)
Stuck == schedule.pending # 0 /\ ~Awaited
Deadline ==
  IF Stuck /\ Second - schedule.age > Left(schedule) THEN Second - schedule.age ELSE Left(schedule)

(* The neighbor expects nothing, or heard in this tick.                    *)
Fresh == receiver.log = Stop \/ receiver.age = 0

(* What was claimed before the latest request is sent before what was      *)
(* claimed since.                                                          *)
OrderInv ==
  /\ \A i, j \in 1..Len(Line) : i < j /\ Line[i].latest => Line[j].latest
  /\ told > 0 => \A i \in 1..Len(Line) : Line[i].latest

(* The daemon is never slower than what the neighbor was told, nor than    *)
(* what it will be told next.                                              *)
LogInv ==
  /\ \A i \in 1..Len(Line) :
       /\ Line[i].log \in Logs /\ (Line[i].latest => Line[i].log = schedule.log)
       /\ receiver.log # Stop /\ ~Line[i].latest => Pace <= Period(Line[i].log)
  /\ receiver.log # Stop => Pace \in 1..Heard
  /\ schedule.log = Stop => receiver.log = Stop /\ \A i \in 1..Len(Line) : ~Line[i].latest
  /\ schedule.slow > 0 => schedule.oldPeriod < Period(schedule.log)
  /\ receiver.log \in {Stop, schedule.log} \/ receiver.lost >= told

(* A claim is due within a period; while it is on its way the next one is  *)
(* not due yet.                                                            *)
DueInv ==
  /\ schedule.pending # 0 => schedule.active
  /\ schedule.active => schedule.next <= Pace
  /\ schedule.pending # 0 /\ Line # <<>> => schedule.next > 0

(* The link generation only moves on.                                      *)
GenerationInv ==
  /\ \A i \in 1..Len(Line) : Line[i].generation <= generation
  /\ \A i \in 1..Len(results) : results[i].item.generation <= generation
  /\ daemon.pc = "claim" => daemon.generation <= generation

(* The daemon does not sleep past the deadline of a schedule it sends for. *)
WaitInv ==
  daemon.pc = "sleep" =>
    \/ daemon.wait <= Deadline
    \/ receiver.log = Stop /\ \A i \in 1..Len(Line) : ~Line[i].latest

(* An association that is not through yet, a message of an old generation, *)
(* a lost record and more records than losses belong to the tick in which  *)
(* the neighbor heard.                                                     *)
FreshInv ==
  \/ Fresh
  \/ /\ ~neighbor.owed /\ ~neighbor.resetting
     /\ daemon.pc = "claim" => daemon.generation = generation
     /\ \A i \in 1..Len(Line) : Line[i].generation = generation
     /\ Line # <<>> \/ daemon.pc = "claim" => receiver.lost >= Len(results)
     /\ Line # <<>> => ~Stuck

(* The time since the neighbor heard and the time until it hears again,    *)
(* with a period in hand for a slowdown that it was told and that is not   *)
(* counted yet, fit the periods that the losses so far leave.              *)
Hand == IF schedule.slow > 0 /\ receiver.lost < told THEN Heard ELSE 0
Ahead == IF Line = <<>> THEN Deadline ELSE 0
Periods == Receipts - MaxLost + receiver.lost
Allowed == Periods * Heard
GapInv == receiver.log # Stop => receiver.age + Ahead + Hand <= Allowed

(* All of it, where the worker keeps up.                                   *)
NeighborInv == OrderInv /\ LogInv /\ DueInv /\ GenerationInv /\ WaitInv /\ FreshInv /\ GapInv
NeighborKeeps == lag = 0 => NeighborInv

(* Losses in a row leave the neighbor two more periods, and a second at the*)
(* fastest interval; a slowdown is told more often than messages are lost, *)
(* and a queue holds that many reports.  In the code 9 receipts, 9         *)
(* announcements and a second of 8 fastest intervals: one loss in a row.   *)
ReceiptsCover ==
  /\ Second + MaxLost <= Receipts /\ MaxLost + 2 <= Receipts
  /\ MaxLost < SlowSends /\ MaxLost <= QueueMax

(* The line and its parts are sequences of items.                          *)
LineTypes ==
  /\ worker \in Seq(Items) /\ queue \in Seq(Items) /\ Offered \in Seq(Items)
  /\ worker \o queue \in Seq(Items) /\ Line \in Seq(Items)
  /\ Len(worker \o queue) = Len(worker) + Len(queue)
  /\ Len(Line) = Len(worker \o queue) + Len(Offered)
  /\ Len(worker) \in Nat /\ Len(queue) \in Nat /\ Len(Offered) \in Nat /\ Len(Line) \in Nat
  /\ \A i \in 1..Len(Line) :
       /\ Line[i] \in Items
       /\ i <= Len(worker) => Line[i] = worker[i]
       /\ i > Len(worker) /\ i <= Len(worker) + Len(queue) => Line[i] = queue[i - Len(worker)]
       /\ i > Len(worker) + Len(queue) => Line[i] = Offered[i - (Len(worker) + Len(queue))]
  /\ Line = <<>> <=> worker = <<>> /\ queue = <<>> /\ Offered = <<>>

(* Three queues in a row make a line.                                      *)
LEMMA LineShape == Shapes => LineTypes
<1> SUFFICES ASSUME Shapes PROVE LineTypes
  OBVIOUS
<1>1. worker \in Seq(Items) /\ queue \in Seq(Items)
  BY DEF Shapes
<1>2. Offered \in Seq(Items)
  <2>1. CASE daemon.pc = "queue"
    BY <2>1, Elements DEF Offered
  <2>2. CASE daemon.pc # "queue"
    BY <2>2 DEF Offered
  <2> QED BY <2>1, <2>2
<1>3. /\ worker \o queue \in Seq(Items) /\ Len(worker \o queue) = Len(worker) + Len(queue)
      /\ (worker \o queue = <<>> <=> worker = <<>> /\ queue = <<>>)
  BY <1>1, ConcatProperties, ConcatEqualIffEmpty
<1> DEFINE front == worker \o queue
<1> HIDE DEF front
<1>4. /\ front \o Offered \in Seq(Items) /\ Len(front \o Offered) = Len(front) + Len(Offered)
      /\ (front \o Offered = <<>> <=> front = <<>> /\ Offered = <<>>)
  BY <1>2, <1>3, ConcatProperties, ConcatEqualIffEmpty DEF front
<1>5. Line = front \o Offered
  BY DEF Line, front
<1>6. Len(Line) \in Nat /\ \A i \in 1..Len(Line) : Line[i] \in Items
  BY <1>4, <1>5, LenProperties, ElementOfSeq
<1>7. Len(worker) \in Nat /\ Len(queue) \in Nat /\ Len(Offered) \in Nat
  BY <1>1, <1>2, LenProperties
<1>8. \A i \in 1..(Len(worker) + Len(queue)) :
        front[i] = IF i <= Len(worker) THEN worker[i] ELSE queue[i - Len(worker)]
  BY <1>1, ConcatProperties DEF front
<1>9. \A i \in 1..(Len(front) + Len(Offered)) :
        Line[i] = IF i <= Len(front) THEN front[i] ELSE Offered[i - Len(front)]
  BY <1>2, <1>3, <1>5, ConcatProperties DEF front
<1>10. Len(front) = Len(worker) + Len(queue) /\ Len(Line) = Len(front) + Len(Offered)
  BY <1>3, <1>4, <1>5 DEF front
<1>11. ASSUME NEW i \in 1..Len(Line)
       PROVE  /\ i <= Len(worker) => Line[i] = worker[i]
              /\ i > Len(worker) /\ i <= Len(worker) + Len(queue) => Line[i] = queue[i - Len(worker)]
              /\ i > Len(worker) + Len(queue) => Line[i] = Offered[i - (Len(worker) + Len(queue))]
  <2>1. CASE i <= Len(worker) + Len(queue)
    <3>1. Line[i] = front[i]
      BY <1>7, <1>9, <1>10, <2>1
    <3>2. front[i] = IF i <= Len(worker) THEN worker[i] ELSE queue[i - Len(worker)]
      BY <1>7, <1>8, <2>1
    <3> QED BY <1>7, <2>1, <3>1, <3>2
  <2>2. CASE ~(i <= Len(worker) + Len(queue))
    BY <1>7, <1>9, <1>10, <2>2
  <2> QED BY <2>1, <2>2
<1> QED BY <1>1, <1>2, <1>3, <1>4, <1>5, <1>6, <1>7, <1>11 DEF front, LineTypes

(* The same after a step.                                                  *)
LEMMA NextLineShape == CapableInv' => LineTypes'
<1>1. CapableInv => LineTypes
  BY LineShape DEF CapableInv
<1> QED BY <1>1, PTL

(* Taking a message from the queue leaves the line as it is.               *)
LEMMA TakeLine == Shapes /\ WorkerTake => Line' = Line
<1> SUFFICES ASSUME Shapes, WorkerTake PROVE Line' = Line
  OBVIOUS
<1>1. worker = <<>> /\ queue # <<>> /\ queue \in Seq(Items)
  BY DEF WorkerTake, Shapes
<1>2. <<Head(queue)>> \o Tail(queue) = queue
  <2>1. /\ <<Head(queue)>> \in Seq(Items) /\ Len(<<Head(queue)>>) = 1
        /\ <<Head(queue)>>[1] = queue[1] /\ Len(queue) \in Nat /\ Len(queue) > 0
    BY <1>1
  <2>2. /\ Tail(queue) \in Seq(Items) /\ Len(Tail(queue)) = Len(queue) - 1
        /\ \A i \in 1..Len(Tail(queue)) : Tail(queue)[i] = queue[i + 1]
    BY <1>1, HeadTailProperties
  <2> DEFINE h == <<Head(queue)>>
             t == Tail(queue)
  <2> HIDE DEF h, t
  <2>3. /\ h \o t \in Seq(Items) /\ Len(h \o t) = Len(queue)
        /\ \A i \in 1..Len(queue) : (h \o t)[i] = IF i <= 1 THEN h[i] ELSE t[i - 1]
    BY <2>1, <2>2, ConcatProperties DEF h, t
  <2>4. \A i \in 1..Len(queue) : (h \o t)[i] = queue[i]
    BY <2>1, <2>2, <2>3 DEF h, t
  <2>5. h \o t = queue
    BY <1>1, <2>3, <2>4, SeqEqual
  <2> QED BY <2>5 DEF h, t
<1>3. worker \o queue = queue
  BY <1>1, ConcatEmptySeq
<1>4. worker' \o queue' = queue
  BY <1>2 DEF WorkerTake
<1>5. Offered' = Offered
  BY DEF WorkerTake, Offered
<1> QED BY <1>3, <1>4, <1>5 DEF Line

(* The claim the daemon made joins the queue; a full queue loses it.       *)
LEMMA EnqueueLine ==
  ASSUME CapableInv, Enqueue
  PROVE  /\ Len(queue) < QueueMax => Line' = Line
         /\ ~(Len(queue) < QueueMax) =>
              /\ Line' # <<>> /\ Len(Line') \in Nat /\ Len(Line) = Len(Line') + 1
              /\ \A i \in 1..Len(Line') : Line'[i] = Line[i]
              /\ Line[Len(Line)] = daemon.item
<1>1. /\ Shapes /\ LineTypes /\ daemon.pc = "queue" /\ daemon' = At("drain") /\ worker' = worker
      /\ daemon.item \in Items /\ QueueMax \in Nat \ {0}
  BY LineShape, Elements, Bounds DEF CapableInv, Enqueue
<1>2. Offered = <<daemon.item>> /\ Offered' = <<>> /\ Len(Offered) = 1 /\ Offered[1] = daemon.item
  BY <1>1 DEF Offered, At
<1>3. CASE Len(queue) < QueueMax
  <2>1. queue' = Append(queue, daemon.item)
    BY <1>3 DEF Enqueue
  <2>2. queue' = queue \o Offered
    BY <1>1, <1>2, <2>1, AppendIsConcat DEF LineTypes
  <2>3. queue' \in Seq(Items) /\ worker \o queue' \in Seq(Items)
    BY <1>1, <2>2, ConcatProperties DEF LineTypes
  <2>4. (worker \o queue') \o <<>> = worker \o queue'
    BY <2>3, ConcatEmptySeq
  <2>5. (worker \o queue) \o Offered = worker \o (queue \o Offered)
    <3>1. worker \in Seq(Items) /\ queue \in Seq(Items) /\ Offered \in Seq(Items)
      BY <1>1 DEF LineTypes
    <3> QED BY <3>1, ConcatAssociative
  <2>6. Line' = Line
    BY <1>1, <1>2, <2>2, <2>4, <2>5 DEF Line
  <2> QED BY <1>3, <2>6
<1>4. CASE ~(Len(queue) < QueueMax)
  <2> DEFINE front == worker \o queue
  <2>1. queue' = queue
    BY <1>4 DEF Enqueue
  <2>2. front \in Seq(Items) /\ Len(front) \in Nat /\ Len(front) = Len(worker) + Len(queue)
    BY <1>1, LenProperties DEF LineTypes
  <2>3. front \o <<>> = front
    BY <2>2, ConcatEmptySeq
  <2>4. Line' = front
    BY <1>1, <1>2, <2>1, <2>3 DEF Line
  <2>5. Len(front) > 0
    BY <1>1, <1>4, <2>2 DEF LineTypes
  <2>6. Line = front \o Offered
    BY DEF Line
  <2> HIDE DEF front
  <2>7. /\ Len(Line) = Len(front) + 1
        /\ \A i \in 1..(Len(front) + 1) :
             Line[i] = IF i <= Len(front) THEN front[i] ELSE Offered[i - Len(front)]
    BY <1>1, <1>2, <2>2, <2>6, ConcatProperties DEF LineTypes
  <2>8. front # <<>>
    BY <2>5
  <2>9. \A i \in 1..Len(front) : front[i] = Line[i]
    BY <2>2, <2>7
  <2>10. Line[Len(Line)] = daemon.item
    BY <1>2, <2>2, <2>7
  <2> QED BY <1>4, <2>2, <2>4, <2>7, <2>8, <2>9, <2>10
<1> QED BY <1>3, <1>4

(* The worker is done with the first of the line.                          *)
LEMMA ReportLine ==
  ASSUME CapableInv, worker # <<>>, worker' = <<>>, UNCHANGED <<queue, daemon>>
  PROVE  /\ Line # <<>> /\ Line[1] = worker[1] /\ Len(Line) \in Nat /\ Len(Line) > 0
         /\ Len(Line') = Len(Line) - 1
         /\ \A i \in 1..Len(Line') : i + 1 \in 1..Len(Line) /\ Line'[i] = Line[i + 1]
         /\ \A i \in 1..Len(Line) : i = 1 \/ (i - 1 \in 1..Len(Line') /\ Line[i] = Line'[i - 1])
<1>1. /\ LineTypes /\ Len(worker) = 1
  <2>1. LineTypes
    BY LineShape DEF CapableInv
  <2>2. Len(worker) <= 1 /\ worker \in Seq(Items)
    BY DEF CapableInv, Shapes
  <2>3. Len(worker) \in Nat /\ Len(worker) # 0
    BY <2>2, EmptySeq
  <2> DEFINE n == Len(worker)
  <2> HIDE DEF n
  <2>4. n = 1
    <3>1. n <= 1 /\ n \in Nat /\ n # 0
      BY <2>2, <2>3 DEF n
    <3> QED BY <3>1
  <2> QED BY <2>1, <2>4 DEF n
<1> DEFINE rest == queue \o Offered
<1>2. rest \in Seq(Items) /\ Len(rest) \in Nat
  BY <1>1, ConcatProperties, LenProperties DEF LineTypes
<1>3. Line = worker \o rest
  BY <1>1, ConcatAssociative DEF Line, LineTypes
<1>4. Line' = rest
  <2>1. Offered' = Offered /\ <<>> \o queue = queue
    BY <1>1, ConcatEmptySeq DEF Offered, LineTypes
  <2> QED BY <2>1 DEF Line
<1> HIDE DEF rest
<1>5. /\ Len(Line) = 1 + Len(rest)
      /\ \A i \in 1..(1 + Len(rest)) : Line[i] = IF i <= 1 THEN worker[i] ELSE rest[i - 1]
  BY <1>1, <1>2, <1>3, ConcatProperties DEF LineTypes
<1>6. Line # <<>> /\ Line[1] = worker[1]
  BY <1>1, <1>2, <1>5 DEF LineTypes
<1>7. \A i \in 1..Len(rest) : i + 1 \in 1..Len(Line) /\ rest[i] = Line[i + 1]
  BY <1>2, <1>5
<1>8. \A i \in 1..Len(Line) : i = 1 \/ (i - 1 \in 1..Len(rest) /\ Line[i] = rest[i - 1])
  BY <1>2, <1>5
<1> QED BY <1>2, <1>4, <1>5, <1>6, <1>7, <1>8

(* A request outdates the whole line and changes nothing else of it that   *)
(* matters here.                                                           *)
LEMMA OutdateLine ==
  ASSUME CapableInv, CapableInv', Outdate, Offered' = Outdated(Offered)
  PROVE  /\ Len(Line') = Len(Line)
         /\ \A i \in 1..Len(Line) : /\ Line'[i].log = Line[i].log /\ Line'[i].latest = FALSE
                                    /\ Line'[i].generation = Line[i].generation
<1>0. LineTypes /\ LineTypes'
  BY LineShape, NextLineShape DEF CapableInv
<1>1. /\ worker \in Seq(Items) /\ queue \in Seq(Items) /\ Offered \in Seq(Items)
      /\ Len(worker) \in Nat /\ Len(queue) \in Nat /\ Len(Offered) \in Nat
      /\ Len(Line) = Len(worker) + Len(queue) + Len(Offered)
      /\ Len(Line') = Len(worker') + Len(queue') + Len(Offered')
  BY <1>0 DEF LineTypes
<1>a. \A i \in 1..Len(Line) :
        /\ i <= Len(worker) => Line[i] = worker[i]
        /\ i > Len(worker) /\ i <= Len(worker) + Len(queue) => Line[i] = queue[i - Len(worker)]
        /\ i > Len(worker) + Len(queue) => Line[i] = Offered[i - (Len(worker) + Len(queue))]
  BY <1>0 DEF LineTypes
<1>b. \A i \in 1..Len(Line') :
        /\ i <= Len(worker') => Line'[i] = worker'[i]
        /\ i > Len(worker') /\ i <= Len(worker') + Len(queue') => Line'[i] = queue'[i - Len(worker')]
        /\ i > Len(worker') + Len(queue') => Line'[i] = Offered'[i - (Len(worker') + Len(queue'))]
  BY <1>0 DEF LineTypes
<1>2. worker' = Outdated(worker) /\ queue' = Outdated(queue)
  BY DEF Outdate, Outdated
<1> DEFINE Marked(a, b) == b.log = a.log /\ b.latest = FALSE /\ b.generation = a.generation
<1>3. Len(worker') = Len(worker) /\ \A j \in 1..Len(worker) : Marked(worker[j], worker'[j])
  BY <1>1, <1>2, OutdatedQueue
<1>4. Len(queue') = Len(queue) /\ \A j \in 1..Len(queue) : Marked(queue[j], queue'[j])
  BY <1>1, <1>2, OutdatedQueue
<1>5. Len(Offered') = Len(Offered) /\ \A j \in 1..Len(Offered) : Marked(Offered[j], Offered'[j])
  BY <1>1, OutdatedQueue
<1> HIDE DEF Marked
<1>6. Len(Line') = Len(Line)
  BY <1>1, <1>3, <1>4, <1>5
<1>7. ASSUME NEW i \in 1..Len(Line) PROVE Marked(Line[i], Line'[i])
  <2>1. CASE i <= Len(worker)
    <3>1. i \in 1..Len(worker) /\ i \in 1..Len(Line')
      BY <1>1, <1>6, <2>1
    <3>2. Line[i] = worker[i] /\ Line'[i] = worker'[i]
      BY <1>3, <1>a, <1>b, <2>1, <3>1
    <3> QED BY <1>3, <3>1, <3>2
  <2>2. CASE i > Len(worker) /\ i <= Len(worker) + Len(queue)
    <3>1. i - Len(worker) \in 1..Len(queue) /\ i \in 1..Len(Line')
      BY <1>1, <1>6, <2>2
    <3>2. Line[i] = queue[i - Len(worker)] /\ Line'[i] = queue'[i - Len(worker)]
      BY <1>3, <1>4, <1>a, <1>b, <2>2, <3>1
    <3> QED BY <1>4, <3>1, <3>2
  <2>3. CASE i > Len(worker) + Len(queue)
    <3> DEFINE j == i - (Len(worker) + Len(queue))
    <3>1. j \in 1..Len(Offered) /\ i \in 1..Len(Line')
      BY <1>1, <1>6, <2>3
    <3>2. Line[i] = Offered[j] /\ Line'[i] = Offered'[j]
      BY <1>3, <1>4, <1>a, <1>b, <2>3, <3>1
    <3> HIDE DEF j
    <3> QED BY <1>5, <3>1, <3>2
  <2> QED BY <1>1, <2>1, <2>2, <2>3
<1> QED BY <1>6, <1>7 DEF Marked

(* A claim joins the line at its end.                                      *)
LEMMA ClaimLine ==
  ASSUME CapableInv, CapableInv', daemon.pc = "claim", Superseded, NEW item \in Items,
         daemon' = [pc |-> "queue", item |-> item]
  PROVE  /\ Len(Line') = Len(Line) + 1 /\ Len(Line) \in Nat
         /\ \A i \in 1..Len(Line) : /\ Line'[i].log = Line[i].log /\ Line'[i].latest = Line[i].latest
                                    /\ Line'[i].generation = Line[i].generation
         /\ Line'[Len(Line) + 1] = item
<1>0. LineTypes /\ LineTypes'
  BY LineShape, NextLineShape DEF CapableInv
<1>1. /\ worker \in Seq(Items) /\ queue \in Seq(Items) /\ Offered \in Seq(Items)
      /\ Len(worker) \in Nat /\ Len(queue) \in Nat /\ Len(Offered) \in Nat
      /\ Len(Line) = Len(worker) + Len(queue) + Len(Offered)
      /\ Len(Line') = Len(worker') + Len(queue') + Len(Offered')
  BY <1>0 DEF LineTypes
<1>a. \A i \in 1..Len(Line) :
        /\ i <= Len(worker) => Line[i] = worker[i]
        /\ i > Len(worker) /\ i <= Len(worker) + Len(queue) => Line[i] = queue[i - Len(worker)]
        /\ i > Len(worker) + Len(queue) => Line[i] = Offered[i - (Len(worker) + Len(queue))]
  BY <1>0 DEF LineTypes
<1>b. \A i \in 1..Len(Line') :
        /\ i <= Len(worker') => Line'[i] = worker'[i]
        /\ i > Len(worker') /\ i <= Len(worker') + Len(queue') => Line'[i] = queue'[i - Len(worker')]
        /\ i > Len(worker') + Len(queue') => Line'[i] = Offered'[i - (Len(worker') + Len(queue'))]
  BY <1>0 DEF LineTypes
<1>2. worker' = Unclaimed(worker) /\ queue' = Unclaimed(queue)
  BY DEF Superseded, Unclaimed
<1> DEFINE Marked(a, b) == b.log = a.log /\ b.latest = a.latest /\ b.generation = a.generation
<1>3. Len(worker') = Len(worker) /\ \A j \in 1..Len(worker) : Marked(worker[j], worker'[j])
  BY <1>1, <1>2, UnclaimedQueue
<1>4. Len(queue') = Len(queue) /\ \A j \in 1..Len(queue) : Marked(queue[j], queue'[j])
  BY <1>1, <1>2, UnclaimedQueue
<1>5. Len(Offered) = 0 /\ Len(Offered') = 1 /\ Offered'[1] = item
  BY DEF Offered
<1> HIDE DEF Marked
<1>6. Len(Line) = Len(worker) + Len(queue) /\ Len(Line') = Len(Line) + 1
  BY <1>1, <1>3, <1>4, <1>5
<1>7. ASSUME NEW i \in 1..Len(Line) PROVE Marked(Line[i], Line'[i])
  <2>1. CASE i <= Len(worker)
    <3>1. i \in 1..Len(worker) /\ i \in 1..Len(Line')
      BY <1>1, <1>6, <2>1
    <3>2. Line[i] = worker[i] /\ Line'[i] = worker'[i]
      BY <1>3, <1>a, <1>b, <2>1, <3>1
    <3> QED BY <1>3, <3>1, <3>2
  <2>2. CASE i > Len(worker) /\ i <= Len(worker) + Len(queue)
    <3>1. i - Len(worker) \in 1..Len(queue) /\ i \in 1..Len(Line')
      BY <1>1, <1>6, <2>2
    <3>2. Line[i] = queue[i - Len(worker)] /\ Line'[i] = queue'[i - Len(worker)]
      BY <1>3, <1>4, <1>a, <1>b, <2>2, <3>1
    <3> QED BY <1>4, <3>1, <3>2
  <2> QED BY <1>1, <1>6, <2>1, <2>2
<1>8. Line'[Len(Line) + 1] = item
  <2> DEFINE n == Len(Line) + 1
  <2>1. n \in 1..Len(Line') /\ n > Len(worker') + Len(queue') /\ n - (Len(worker') + Len(queue')) = 1
    BY <1>1, <1>3, <1>4, <1>6
  <2> HIDE DEF n
  <2>2. Line'[n] = Offered'[n - (Len(worker') + Len(queue'))]
    BY <1>b, <2>1
  <2> QED BY <1>5, <2>1, <2>2 DEF n
<1> QED BY <1>1, <1>6, <1>7, <1>8 DEF Marked

(* Where the worker keeps up, nothing is to be sent when time passes.      *)
LEMMA TickLine ==
  ASSUME CapableInv, lag = 0, Tick
  PROVE  Line = <<>> /\ Line' = <<>>
<1>1. /\ daemon.pc = "sleep" /\ daemon' = Asleep(daemon.wait - 1)
      /\ queue' = Aged(queue) /\ worker' = Aged(worker)
      /\ \A i \in 1..Len(queue) : ~(queue[i].age \in Nat)
      /\ \A i \in 1..Len(worker) : ~(worker[i].age \in Nat)
  BY DEF Tick, CapableInv, Shapes
<1>2. /\ LineTypes
      /\ \A i \in 1..Len(queue) : queue[i].age \in Nat
      /\ \A i \in 1..Len(worker) : worker[i].age \in Nat
  BY LineShape, Elements DEF CapableInv, Items
<1>3. queue = <<>> /\ worker = <<>>
  <2>1. /\ queue \in Seq(Items) /\ worker \in Seq(Items)
        /\ Len(queue) \in Nat /\ Len(worker) \in Nat
    BY <1>2 DEF LineTypes
  <2>2. Len(queue) = 0
    BY <1>1, <1>2, <2>1
  <2>3. Len(worker) = 0
    BY <1>1, <1>2, <2>1
  <2> QED BY <2>1, <2>2, <2>3, EmptySeq
<1>4. Offered = <<>> /\ Offered' = <<>>
  BY <1>1 DEF Offered, Asleep
<1>5. queue' = <<>> /\ worker' = <<>>
  BY <1>1, <1>3 DEF Aged
<1> QED BY <1>3, <1>4, <1>5 DEF Line

(* The numbers behind the times.                                           *)
NeighborRanges ==
  /\ schedule.next \in Int /\ schedule.age \in 0..Second /\ schedule.age \in Nat /\ schedule.slow \in Nat
  /\ Second \in Nat /\ Second >= 1 /\ Pace \in Nat /\ Slowest \in Nat /\ Pace <= Slowest
  /\ Left(schedule) \in Nat /\ Deadline \in Nat /\ Left(schedule) <= Deadline
  /\ Deadline <= Left(schedule) \/ Deadline <= Second
  /\ ~Stuck => Deadline = Left(schedule)
  /\ receiver.log \in {Stop} \cup Logs /\ receiver.age \in Nat /\ receiver.lost \in 0..MaxLost
  /\ receiver.lost \in Nat
  /\ Heard \in Nat /\ (receiver.log # Stop => Heard >= 1)
  /\ told \in Nat /\ schedule.log \in {Stop} \cup Logs
  /\ (schedule.log # Stop => Period(schedule.log) >= 1) /\ Period(schedule.log) \in Nat
  /\ schedule.oldPeriod \in Nat
  /\ Len(results) \in Nat

(* Deadlines, periods and counts are numbers.                              *)
LEMMA NeighborNumbers == CapableInv => NeighborRanges
<1> SUFFICES ASSUME CapableInv PROVE NeighborRanges
  OBVIOUS
<1>1. schedule \in Schedules /\ receiver \in Receivers /\ told \in 0..SlowSends /\ Shapes
  BY DEF CapableInv, Shapes
<1>2. /\ Second \in Nat /\ Second >= 1 /\ Slowest \in Nat /\ SlowSends \in Nat /\ Longest \in Nat
      /\ MaxLost \in Nat /\ Period(Stop) = 0
  BY PeriodRange, Bounds
<1>3. /\ schedule.next \in Int /\ schedule.age \in 0..Second /\ schedule.slow \in Nat
      /\ schedule.log \in {Stop} \cup Logs /\ schedule.oldPeriod \in Nat
  BY <1>1, <1>2 DEF Schedules
<1>4. /\ Pace \in 0..Slowest /\ Period(schedule.log) \in 0..Slowest
      /\ (schedule.log # Stop => Period(schedule.log) \in 1..Slowest)
  BY <1>1, EffectiveRange DEF Pace
<1>5. /\ receiver.log \in {Stop} \cup Logs /\ receiver.age \in Nat /\ receiver.lost \in 0..MaxLost
  BY <1>1, <1>2 DEF Receivers
<1>6. Heard \in Nat /\ (receiver.log # Stop => Heard >= 1)
  <2>1. receiver.log # Stop => Period(receiver.log) \in 1..Slowest
    BY <1>5, PeriodRange
  <2>2. receiver.log = Stop => Period(receiver.log) = 0
    BY <1>2
  <2> QED BY <1>2, <2>1, <2>2 DEF Heard
<1>7. Left(schedule) \in Nat
  BY <1>3 DEF Left
<1>8. /\ Deadline \in Nat /\ Left(schedule) <= Deadline
      /\ Deadline <= Left(schedule) \/ Deadline <= Second
      /\ ~Stuck => Deadline = Left(schedule)
  <2> DEFINE n == Left(schedule)
             a == schedule.age
  <2>1. n \in Nat /\ a \in 0..Second
    BY <1>3, <1>7
  <2>2. Deadline = IF Stuck /\ Second - a > n THEN Second - a ELSE n
    BY DEF Deadline
  <2> HIDE DEF n, a
  <2>3. CASE Stuck /\ Second - a > n
    <3>1. Deadline = Second - a
      BY <2>2, <2>3
    <3>2. Deadline \in Nat /\ n <= Deadline /\ Deadline <= Second
      BY <1>2, <2>1, <2>3, <3>1
    <3> QED BY <2>3, <3>2 DEF n
  <2>4. CASE ~(Stuck /\ Second - a > n)
    <3>1. Deadline = n
      BY <2>2, <2>4
    <3> QED BY <2>1, <3>1 DEF n
  <2> QED BY <2>3, <2>4
<1>9. Len(results) \in Nat
  BY <1>1, Elements
<1>10. receiver.lost \in Nat /\ schedule.age \in Nat /\ told \in Nat
  BY <1>1, <1>2, <1>3, <1>5
<1>11. Pace \in Nat /\ Pace <= Slowest /\ Period(schedule.log) \in Nat
  BY <1>2, <1>4
<1>12. schedule.log # Stop => Period(schedule.log) >= 1
  BY <1>2, <1>4
<1> QED BY <1>2, <1>3, <1>5, <1>6, <1>7, <1>8, <1>9, <1>10, <1>11, <1>12 DEF NeighborRanges

(* The same after a step.                                                  *)
LEMMA NextNeighborNumbers == CapableInv' => NeighborRanges'
BY NeighborNumbers, PTL

(* A product is no less than its factors, nor than their sum once both are *)
(* two.                                                                    *)
LEMMA CoverProduct ==
  ASSUME NEW k \in Nat, NEW h \in Nat, k >= 1, h >= 1
  PROVE  /\ k * h \in Nat /\ k * h >= k /\ k * h >= h
         /\ (k + 1) * h = k * h + h
         /\ k >= 2 => k * h >= h + h
         /\ k >= 2 /\ h >= 2 => k * h >= k + h
<1>1. k * h \in Nat /\ k * h >= k /\ k * h >= h
  BY SMTT(30)
<1>2. (k + 1) * h = k * h + h
  BY SMTT(30)
<1>3. ASSUME k >= 2 PROVE k * h >= h + h
  BY <1>3, SMTT(30)
<1>4. ASSUME k >= 2, h >= 2 PROVE k * h >= k + h
  <2> DEFINE a == k - 2
             b == h - 2
  <2>1. a \in Nat /\ b \in Nat /\ k = a + 2 /\ h = b + 2
    BY <1>4
  <2> HIDE DEF a, b
  <2>2. a * b \in Nat
    BY <2>1
  <2>3. k * h = a * b + 2 * a + 2 * b + 4
    BY <2>1, SMTT(30)
  <2> DEFINE c == a * b
  <2> HIDE DEF c
  <2>4. c \in Nat /\ k * h = c + 2 * a + 2 * b + 4
    BY <2>2, <2>3 DEF c
  <2> QED BY <2>1, <2>4
<1> QED BY <1>1, <1>2, <1>3, <1>4

(* The next deadline is no further than the period or, for a claim that    *)
(* will not be completed, than a second.                                   *)
LEMMA DeadlineBound ==
  ASSUME CapableInv, DueInv
  PROVE  /\ Left(schedule) <= Pace
         /\ Deadline <= Pace \/ Deadline <= Second
         /\ ~Stuck => Deadline <= Pace
<1>1. NeighborRanges
  BY NeighborNumbers
<1>2. Left(schedule) <= Pace
  BY <1>1 DEF DueInv, Left, NeighborRanges
<1> QED BY <1>1, <1>2 DEF NeighborRanges

(* A neighbor that heard in this tick hears again in time.                 *)
LEMMA FreshGap ==
  ASSUME CapableInv, ReceiptsCover, LogInv, DueInv, Fresh
  PROVE  GapInv
<1> SUFFICES ASSUME receiver.log # Stop PROVE receiver.age + Ahead + Hand <= Allowed
  BY DEF GapInv
<1>1. NeighborRanges /\ receiver.age = 0
  BY NeighborNumbers DEF Fresh
<1>2. /\ Periods \in Nat /\ Periods >= 2 /\ Periods >= Second
  <2>1. receiver.lost \in Nat /\ MaxLost \in Nat /\ Receipts \in Nat /\ Second \in Nat
    BY <1>1, Bounds, CapableAssumption DEF NeighborRanges
  <2> QED BY <2>1 DEF ReceiptsCover, Periods
<1>3. /\ Heard \in Nat /\ Heard >= 1 /\ Pace \in 1..Heard
      /\ Ahead \in Nat /\ (Ahead <= Heard \/ Ahead <= Second) /\ Second \in Nat
  <2>1. /\ Heard \in Nat /\ Heard >= 1 /\ Deadline \in Nat /\ Pace \in Nat /\ Second \in Nat
    BY <1>1 DEF NeighborRanges
  <2>2. Pace \in 1..Heard
    BY DEF LogInv
  <2>3. Deadline <= Pace \/ Deadline <= Second
    BY DeadlineBound
  <2> QED BY <2>1, <2>2, <2>3 DEF Ahead
<1>4. Allowed = Periods * Heard
  BY DEF Allowed, Periods
<1>5. /\ Periods * Heard \in Nat /\ Periods * Heard >= Periods /\ Periods * Heard >= Heard
      /\ Periods * Heard >= Heard + Heard
      /\ Heard >= 2 => Periods * Heard >= Periods + Heard
  BY <1>2, <1>3, CoverProduct
<1> DEFINE all == Periods * Heard
<1> HIDE DEF all
<1>6. /\ all \in Nat /\ all >= Periods /\ all >= Heard /\ all >= Heard + Heard
      /\ Heard >= 2 => all >= Periods + Heard
  BY <1>5 DEF all
<1>7. CASE schedule.slow > 0 /\ receiver.lost < told
  <2>1. receiver.log = schedule.log
    <3>1. ~(receiver.lost >= told)
      BY <1>1, <1>7 DEF NeighborRanges
    <3> QED BY <3>1 DEF LogInv
  <2>2. Pace < Heard
    <3>1. schedule.oldPeriod < Period(schedule.log)
      BY <1>7 DEF LogInv
    <3>2. Pace = schedule.oldPeriod
      BY <1>7 DEF Pace, EffectivePeriod
    <3> QED BY <2>1, <3>1, <3>2 DEF Heard
  <2>3. Heard >= 2
    BY <1>3, <2>2
  <2>4. Hand = Heard
    BY <1>7 DEF Hand
  <2>5. Ahead + Heard <= all
    BY <1>2, <1>3, <1>6, <2>3
  <2> QED BY <1>1, <1>3, <1>4, <2>4, <2>5 DEF all
<1>8. CASE ~(schedule.slow > 0 /\ receiver.lost < told)
  <2>1. Hand = 0
    BY <1>8 DEF Hand
  <2>2. Ahead <= all
    BY <1>2, <1>3, <1>6
  <2> QED BY <1>1, <1>3, <1>4, <2>1, <2>2 DEF all
<1> QED BY <1>7, <1>8

(* The same after a step.                                                  *)
LEMMA NextFreshGap ==
  CapableInv' /\ ReceiptsCover /\ LogInv' /\ DueInv' /\ Fresh' => GapInv'
<1>1. CapableInv /\ ReceiptsCover /\ LogInv /\ DueInv /\ Fresh => GapInv
  BY FreshGap
<1>2. ReceiptsCover => ReceiptsCover'
  BY DEF ReceiptsCover, Second
<1> QED BY <1>1, <1>2, PTL

(* While the neighbor, the schedule's times and the link stay as they are, *)
(* and what is on its way only becomes less, the promise stays.            *)
LEMMA NeighborKept ==
  ASSUME CapableInv, CapableInv', NeighborInv,
         \A i \in 1..Len(Line') : i \in 1..Len(Line) /\ Line'[i] = Line[i],
         Line' = <<>> <=> Line = <<>>,
         schedule'.log = schedule.log, schedule'.next = schedule.next,
         schedule'.active = schedule.active,
         schedule'.slow > 0 => schedule.slow > 0 /\ schedule'.oldPeriod = schedule.oldPeriod,
         Pace' = Pace, schedule'.pending \in {0, schedule.pending},
         Stuck' => Stuck /\ schedule'.age = schedule.age,
         Len(results') <= Len(results),
         \A i \in 1..Len(results') : results'[i].item.generation <= generation,
         UNCHANGED <<neighbor, generation, receiver, told>>,
         daemon'.pc = "claim" =>
           daemon' = daemon \/ (daemon'.generation = generation /\ Len(results') = 0),
         WaitInv'
  PROVE  NeighborInv'
<1>1. /\ OrderInv /\ LogInv /\ DueInv /\ GenerationInv /\ FreshInv /\ GapInv
      /\ NeighborRanges /\ NeighborRanges' /\ Heard' = Heard
  BY NeighborNumbers, NextNeighborNumbers DEF NeighborInv, Heard
<1>2. OrderInv'
  <2>1. ASSUME NEW i \in 1..Len(Line'), NEW j \in 1..Len(Line'), i < j, Line'[i].latest
        PROVE  Line'[j].latest
    <3>1. i \in 1..Len(Line) /\ j \in 1..Len(Line) /\ Line'[i] = Line[i] /\ Line'[j] = Line[j]
      OBVIOUS
    <3> QED BY <1>1, <2>1, <3>1 DEF OrderInv
  <2>2. told' > 0 => \A i \in 1..Len(Line') : Line'[i].latest
    BY <1>1 DEF OrderInv
  <2> QED BY <2>1, <2>2 DEF OrderInv
<1>3. LogInv'
  <2>1. \A i \in 1..Len(Line') :
          /\ Line'[i].log \in Logs /\ (Line'[i].latest => Line'[i].log = schedule'.log)
          /\ receiver'.log # Stop /\ ~Line'[i].latest => Pace' <= Period(Line'[i].log)
    BY <1>1 DEF LogInv
  <2>2. /\ receiver'.log # Stop => Pace' \in 1..Heard'
        /\ schedule'.slow > 0 => schedule'.oldPeriod < Period(schedule'.log)
        /\ receiver'.log \in {Stop, schedule'.log} \/ receiver'.lost >= told'
    BY <1>1 DEF LogInv
  <2>3. schedule'.log = Stop => receiver'.log = Stop /\ \A i \in 1..Len(Line') : ~Line'[i].latest
    BY <1>1 DEF LogInv
  <2> QED BY <2>1, <2>2, <2>3 DEF LogInv
<1>4. DueInv'
  BY <1>1 DEF DueInv
<1>5. GenerationInv'
  <2>1. daemon'.pc = "claim" => daemon'.generation <= generation
    <3>1. generation <= generation
      BY DEF CapableInv, Shapes
    <3> QED BY <1>1, <3>1 DEF GenerationInv
  <2>2. \A i \in 1..Len(Line') : Line'[i].generation <= generation'
    BY <1>1 DEF GenerationInv
  <2> QED BY <1>1, <2>1, <2>2 DEF GenerationInv
<1>6. FreshInv'
  <2>1. CASE Fresh
    BY <2>1 DEF FreshInv, Fresh
  <2>2. CASE ~Fresh
    <3>1. /\ ~neighbor.owed /\ ~neighbor.resetting
          /\ daemon.pc = "claim" => daemon.generation = generation
          /\ \A i \in 1..Len(Line) : Line[i].generation = generation
          /\ Line # <<>> \/ daemon.pc = "claim" => receiver.lost >= Len(results)
          /\ Line # <<>> => ~Stuck
      BY <1>1, <2>2 DEF FreshInv
    <3>2. daemon'.pc = "claim" => daemon'.generation = generation'
      BY <3>1
    <3>3. Line' # <<>> \/ daemon'.pc = "claim" => receiver'.lost >= Len(results')
      <4>1. receiver.lost \in Nat /\ Len(results) \in Nat /\ Len(results') \in Nat
        BY <1>1 DEF NeighborRanges
      <4> QED BY <3>1, <4>1
    <3>4. \A i \in 1..Len(Line') : Line'[i].generation = generation'
      BY <3>1
    <3> QED BY <3>1, <3>2, <3>3, <3>4 DEF FreshInv
  <2> QED BY <2>1, <2>2
<1>7. GapInv'
  <2> SUFFICES ASSUME receiver'.log # Stop PROVE receiver'.age + Ahead' + Hand' <= Allowed'
    BY DEF GapInv
  <2>1. receiver.age + Ahead + Hand <= Allowed /\ Allowed' = Allowed
    BY <1>1 DEF GapInv, Allowed, Periods
  <2>2. Deadline \in Nat /\ Deadline' \in Nat /\ receiver.age \in Nat /\ Heard \in Nat
    BY <1>1 DEF NeighborRanges
  <2>3. Deadline' <= Deadline
    <3>1. Left(schedule') = Left(schedule)
      BY DEF Left
    <3>2. CASE Stuck'
      <4>1. Deadline' = Deadline
        BY <3>1, <3>2 DEF Deadline
      <4> QED BY <2>2, <4>1
    <3>3. CASE ~Stuck'
      BY <1>1, <3>1, <3>3 DEF NeighborRanges
    <3> QED BY <3>2, <3>3
  <2>4. Ahead' <= Ahead /\ Ahead \in Nat /\ Ahead' \in Nat
    BY <2>2, <2>3 DEF Ahead
  <2>5. Hand' <= Hand /\ Hand \in Nat /\ Hand' \in Nat
    BY <1>1, <2>2 DEF Hand
  <2>6. Allowed \in Int
    <3>1. receiver.lost \in Nat /\ MaxLost \in Nat /\ Receipts \in Nat
      BY <1>1, Bounds, CapableAssumption DEF NeighborRanges
    <3> QED BY <2>2, <3>1 DEF Allowed, Periods
  <2> QED BY <2>1, <2>2, <2>4, <2>5, <2>6
<1> QED BY <1>2, <1>3, <1>4, <1>5, <1>6, <1>7 DEF NeighborInv

(* Poll sleeps no longer than the deadline; what is stuck expires first.   *)
LEMMA NeighborPoll ==
  ASSUME CapableInv, CapableInv', NeighborInv, Poll
  PROVE  NeighborInv'
<1>1. /\ daemon.pc = "drain" /\ results = <<>> /\ daemon' = Asleep(Wait(schedule))
      /\ UNCHANGED <<schedule, neighbor, generation, queue, worker, results, receiver, told>>
  BY DEF Poll
<1>2. /\ LogInv /\ DueInv /\ GenerationInv /\ NeighborRanges /\ LineTypes /\ SlowInv
  BY NeighborNumbers, LineShape DEF NeighborInv, CapableInv
<1>3. Offered = <<>> /\ Offered' = <<>> /\ Line' = Line /\ Pace' = Pace
  BY <1>1 DEF Offered, Asleep, Line, Pace
<1>4. Stuck' = Stuck /\ Deadline' = Deadline
  BY <1>1, <1>3 DEF Stuck, Awaited, Completes, Answers, Deadline
<1>5. PollCap \in Nat /\ Wait(schedule) \in Nat
  <2>1. PollCap \in Nat /\ schedule.next \in Int
    BY <1>2, Bounds DEF NeighborRanges
  <2> QED BY <2>1 DEF Wait
<1>6. WaitInv'
  <2>1. daemon'.wait = Wait(schedule)
    BY <1>1 DEF Asleep
  <2>2. CASE schedule.log = Stop
    BY <1>1, <1>2, <1>3, <2>2 DEF LogInv, WaitInv
  <2>3. CASE schedule.log # Stop
    <3>1. Pace # 0
      <4>1. schedule.slow > 0 => schedule.oldPeriod \in 1..Period(schedule.log)
        BY <1>2 DEF SlowInv
      <4>2. Period(schedule.log) >= 1 /\ Period(schedule.log) \in Nat
        BY <1>2, <2>3 DEF NeighborRanges
      <4> QED BY <4>1, <4>2 DEF Pace, EffectivePeriod
    <3> DEFINE delay == IF schedule.active /\ schedule.next > 0 THEN schedule.next
                        ELSE IF schedule.pending # 0 /\ ~Expired(schedule) THEN 1 ELSE 0
    <3>2. Wait(schedule) = IF delay > PollCap THEN PollCap ELSE delay
      BY <3>1 DEF Wait, Pace
    <3>3. delay <= Deadline /\ delay \in Nat
      <4>1. CASE schedule.active /\ schedule.next > 0
        BY <1>2, <4>1 DEF NeighborRanges, Left
      <4>2. CASE ~(schedule.active /\ schedule.next > 0) /\ schedule.pending # 0 /\ ~Expired(schedule)
        <5>1. Line = <<>>
          BY <1>2, <4>2 DEF DueInv
        <5>2. Len(Line) = 0 /\ Len(results) = 0
          BY <1>1, <5>1
        <5>3. Stuck
          BY <4>2, <5>2 DEF Stuck, Awaited
        <5>4. Left(schedule) = 0
          BY <4>2 DEF Left
        <5>5. Second - schedule.age > 0 /\ Second \in Nat /\ schedule.age \in Nat
          BY <1>2, <4>2 DEF Expired, NeighborRanges
        <5>6. Deadline = Second - schedule.age
          BY <5>3, <5>4, <5>5 DEF Deadline
        <5>7. delay = 1
          BY <4>2
        <5> QED BY <5>5, <5>6, <5>7
      <4>3. CASE ~(schedule.active /\ schedule.next > 0) /\ ~(schedule.pending # 0 /\ ~Expired(schedule))
        <5>1. delay = 0
          BY <4>3
        <5> QED BY <1>2, <5>1 DEF NeighborRanges
      <4> QED BY <4>1, <4>2, <4>3
    <3> HIDE DEF delay
    <3>4. Deadline \in Nat
      BY <1>2 DEF NeighborRanges
    <3>5. Wait(schedule) <= Deadline
      BY <1>5, <3>2, <3>3, <3>4
    <3> QED BY <1>4, <2>1, <3>5 DEF WaitInv
  <2> QED BY <2>2, <2>3
<1>7. /\ \A i \in 1..Len(Line') : i \in 1..Len(Line) /\ Line'[i] = Line[i]
      /\ Len(results') <= Len(results) /\ daemon'.pc # "claim"
      /\ \A i \in 1..Len(results') : results'[i].item.generation <= generation
  <2>1. Len(results) <= Len(results)
    BY <1>2 DEF NeighborRanges
  <2> QED BY <1>1, <1>2, <1>3, <2>1 DEF GenerationInv, Asleep
<1> QED BY <1>1, <1>3, <1>4, <1>6, <1>7, NeighborKept

(* Waking up, reading the generation and taking a message change nothing   *)
(* the neighbor depends on.                                                *)
LEMMA NeighborMove ==
  ASSUME CapableInv, CapableInv', NeighborInv, Wake \/ ReadGeneration \/ WorkerTake
  PROVE  NeighborInv'
<1>1. UNCHANGED <<schedule, neighbor, generation, results, receiver, told>>
  BY DEF Wake, ReadGeneration, WorkerTake
<1>2. /\ WaitInv /\ GenerationInv /\ NeighborRanges
  BY NeighborNumbers DEF NeighborInv
<1>3. Line' = Line
  <2>1. CASE WorkerTake
    BY <2>1, TakeLine DEF CapableInv
  <2>2. CASE Wake \/ ReadGeneration
    BY <2>2 DEF Wake, ReadGeneration, Line, Offered, At
  <2> QED BY <2>1, <2>2
<1>4. Stuck' = Stuck /\ Deadline' = Deadline /\ Pace' = Pace
  BY <1>1, <1>3 DEF Stuck, Awaited, Completes, Answers, Deadline, Pace
<1>5. WaitInv'
  <2>1. CASE WorkerTake
    BY <1>1, <1>2, <1>3, <1>4, <2>1 DEF WorkerTake, WaitInv
  <2>2. CASE Wake \/ ReadGeneration
    BY <2>2 DEF Wake, ReadGeneration, At, WaitInv
  <2> QED BY <2>1, <2>2
<1>6. daemon'.pc = "claim" =>
        daemon' = daemon \/ (daemon'.generation = generation /\ Len(results') = 0)
  <2>1. CASE WorkerTake
    BY <2>1 DEF WorkerTake
  <2>2. CASE Wake
    BY <2>2 DEF Wake, At
  <2>3. CASE ReadGeneration
    BY <2>3 DEF ReadGeneration
  <2> QED BY <2>1, <2>2, <2>3
<1>7. /\ \A i \in 1..Len(Line') : i \in 1..Len(Line) /\ Line'[i] = Line[i]
      /\ Len(results') <= Len(results)
      /\ \A i \in 1..Len(results') : results'[i].item.generation <= generation
  <2>1. Len(results) <= Len(results)
    BY <1>2 DEF NeighborRanges
  <2> QED BY <1>1, <1>2, <1>3, <2>1 DEF GenerationInv
<1> QED BY <1>1, <1>3, <1>4, <1>5, <1>6, <1>7, NeighborKept

(* The last message of a slowdown is counted: the neighbor was told, and   *)
(* the period in hand pays for the new one.                                *)
LEMMA NeighborSlowed ==
  ASSUME CapableInv, CapableInv', NeighborInv, ReceiptsCover,
         schedule.slow > 0, schedule'.slow = 0, schedule'.next = Pace', schedule'.pending = 0,
         schedule'.log = schedule.log, told >= SlowSends,
         daemon'.pc \notin {"sleep", "claim"}, Line' = Line, Len(results') <= Len(results),
         \A i \in 1..Len(results') : results'[i].item.generation <= generation,
         UNCHANGED <<neighbor, generation, receiver, told>>
  PROVE  NeighborInv'
<1>1. /\ OrderInv /\ LogInv /\ DueInv /\ GenerationInv /\ FreshInv /\ GapInv
      /\ NeighborRanges /\ NeighborRanges' /\ Heard' = Heard /\ LineTypes
  BY NeighborNumbers, NextNeighborNumbers, LineShape DEF NeighborInv, Heard, CapableInv
<1>2. told > 0 /\ receiver.lost < told /\ receiver.log \in {Stop, schedule.log}
  <2>1. receiver.lost \in 0..MaxLost /\ SlowSends \in Nat \ {0} /\ MaxLost \in Nat /\ told \in Nat
    BY <1>1, Bounds DEF NeighborRanges
  <2>2. told > 0 /\ receiver.lost < told /\ ~(receiver.lost >= told)
    BY <2>1 DEF ReceiptsCover
  <2> QED BY <1>1, <2>2 DEF LogInv
<1>3. \A i \in 1..Len(Line) : Line[i].latest
  BY <1>1, <1>2 DEF OrderInv
<1>4. Pace' = Period(schedule.log)
  BY DEF Pace, EffectivePeriod
<1>5. receiver.log # Stop => Pace' = Heard /\ Heard \in Nat /\ Heard >= 1
  BY <1>1, <1>2, <1>4 DEF Heard, NeighborRanges
<1>6. OrderInv'
  BY <1>1 DEF OrderInv
<1>7. LogInv'
  <2>1. \A i \in 1..Len(Line') : Line'[i].log \in Logs /\ (Line'[i].latest => Line'[i].log = schedule'.log)
    BY <1>1 DEF LogInv
  <2>2. receiver'.log # Stop => Pace' \in 1..Heard'
    BY <1>1, <1>5
  <2>3. schedule'.log = Stop => receiver'.log = Stop /\ \A i \in 1..Len(Line') : ~Line'[i].latest
    BY <1>1 DEF LogInv
  <2>4. ~(schedule'.slow > 0)
    OBVIOUS
  <2> QED BY <1>2, <1>3, <2>1, <2>2, <2>3, <2>4 DEF LogInv
<1>8. DueInv'
  <2>1. Pace' <= Pace'
    BY <1>1 DEF NeighborRanges
  <2> QED BY <2>1 DEF DueInv
<1>9. GenerationInv'
  BY <1>1 DEF GenerationInv
<1>10. WaitInv'
  BY DEF WaitInv
<1>11. ~Stuck'
  BY DEF Stuck
<1>12. FreshInv'
  <2>1. CASE Fresh
    BY <2>1 DEF FreshInv, Fresh
  <2>2. CASE ~Fresh
    <3>1. Line' # <<>> => receiver'.lost >= Len(results')
      <4>1. receiver.lost \in Nat /\ Len(results) \in Nat /\ Len(results') \in Nat
        BY <1>1 DEF NeighborRanges
      <4>2. Line # <<>> => receiver.lost >= Len(results)
        BY <1>1, <2>2 DEF FreshInv
      <4> QED BY <4>1, <4>2
    <3> QED BY <1>1, <1>11, <2>2, <3>1 DEF FreshInv
  <2> QED BY <2>1, <2>2
<1>13. GapInv'
  <2> SUFFICES ASSUME receiver'.log # Stop PROVE receiver'.age + Ahead' + Hand' <= Allowed'
    BY DEF GapInv
  <2>1. receiver.age + Ahead + Hand <= Allowed /\ Allowed' = Allowed
    BY <1>1 DEF GapInv, Allowed, Periods
  <2>2. Hand = Heard /\ Hand' = 0
    BY <1>2 DEF Hand
  <2>3. Deadline' <= Heard
    <3>1. Deadline' = Left(schedule')
      BY <1>1, <1>11 DEF NeighborRanges
    <3>2. Left(schedule') <= Pace' /\ Pace' = Heard /\ Heard \in Nat
      BY <1>5 DEF Left
    <3> QED BY <3>1, <3>2
  <2>4. /\ Deadline \in Nat /\ Deadline' \in Nat /\ receiver.age \in Nat /\ Heard \in Nat
    BY <1>1 DEF NeighborRanges
  <2>5. Ahead' <= Ahead + Heard /\ Ahead \in Nat /\ Ahead' \in Nat
    BY <2>3, <2>4 DEF Ahead
  <2>6. Allowed \in Int
    <3>1. receiver.lost \in Nat /\ MaxLost \in Nat /\ Receipts \in Nat
      BY <1>1, Bounds, CapableAssumption DEF NeighborRanges
    <3> QED BY <2>4, <3>1 DEF Allowed, Periods
  <2> QED BY <2>1, <2>2, <2>4, <2>5, <2>6
<1> QED BY <1>6, <1>7, <1>8, <1>9, <1>10, <1>12, <1>13 DEF NeighborInv

(* A completion record frees its claim; the deadline does not move, except *)
(* when the last message of a slowdown is counted.                         *)
LEMMA NeighborDrain ==
  ASSUME CapableInv, CapableInv', NeighborInv, ReceiptsCover, lag = 0, DrainResult
  PROVE  NeighborInv'
<1> DEFINE r == Head(results)
           expired == r.item.age >= Second
<1>1. /\ Shapes /\ InFlightInv /\ SlowInv /\ schedule \in Schedules /\ NeighborRanges /\ GenerationInv
      /\ results # <<>> /\ results \in Seq(Results) /\ daemon.pc \in {"send", "drain"}
  BY NeighborNumbers DEF CapableInv, Shapes, DrainResult, NeighborInv
<1>2. /\ results' = Tail(results) /\ Len(results') = Len(results) - 1 /\ Len(results) \in Nat
      /\ \A i \in 1..Len(results') : i + 1 \in 1..Len(results) /\ results'[i] = results[i + 1]
      /\ \A i \in 1..Len(results) :
           i = 1 \/ (i - 1 \in 1..Len(results') /\ results[i] = results'[i - 1])
      /\ r \in Results /\ r = results[1] /\ 1 \in 1..Len(results)
  BY <1>1 DEF DrainResult
<1>3. UNCHANGED <<neighbor, generation, daemon, queue, worker, receiver, told>>
  BY DEF DrainResult
<1>4. Line' = Line
  BY <1>3 DEF Line, Offered
<1>5. /\ Len(results') <= Len(results)
      /\ \A i \in 1..Len(results') : results'[i].item.generation <= generation
  BY <1>1, <1>2 DEF GenerationInv
<1>6. WaitInv' /\ daemon'.pc \notin {"sleep", "claim"}
  BY <1>1, <1>3 DEF WaitInv
<1>7. ~expired
  <2>1. r.item \in Items /\ r.item.age \in Nat
    BY <1>2 DEF Results, Items
  <2>2. r.item.age <= lag
    BY <1>1, <1>2 DEF InFlightInv, InTime
  <2> QED BY <1>1, <2>1, <2>2 DEF NeighborRanges
<1> HIDE DEF expired
<1>8. CASE r.item.generation = generation /\ Answers(r.item)
  <2>1. r.accepted \in BOOLEAN /\ expired \in BOOLEAN /\ r.item.token \in 1..TokenMax
    BY <1>2 DEF Results, Items, expired
  <2>2. schedule' = Finished(schedule, r.accepted, expired)
    BY <1>8 DEF DrainResult, expired
  <2>3. schedule.slow > 0 => schedule.log # Stop
    BY <1>1 DEF SlowInv
  <2>4. r.accepted => \E i \in 1..Len(results) : Counting(results[i], schedule, neighbor)
    <3>1. r.accepted => Counting(results[1], schedule, neighbor)
      <4>1. r.item.token # 0
        BY <2>1, Bounds
      <4> QED BY <1>2, <1>8, <4>1 DEF Counting, Answers
    <3> QED BY <1>2, <3>1
  <2> HIDE DEF r
  <2>5. /\ schedule'.pending = 0 /\ schedule'.log = schedule.log
        /\ schedule'.oldPeriod = schedule.oldPeriod /\ schedule'.active = schedule.active
        /\ \/ schedule'.slow = schedule.slow
           \/ r.accepted /\ schedule.slow > 0 /\ schedule'.slow = schedule.slow - 1
        /\ \/ Pace' = Pace /\ schedule'.next = schedule.next
           \/ schedule.slow > 0 /\ schedule'.slow = 0 /\ schedule'.next = Pace'
    BY <1>1, <2>1, <2>2, <2>3, FinishedSchedule DEF Pace
  <2>6. ~Stuck'
    BY <2>5 DEF Stuck
  <2>7. CASE Pace' = Pace /\ schedule'.next = schedule.next
    <3>1. schedule'.slow > 0 => schedule.slow > 0
      BY <2>5
    <3>2. \A i \in 1..Len(Line') : i \in 1..Len(Line) /\ Line'[i] = Line[i]
      BY <1>4
    <3> QED BY <1>3, <1>4, <1>5, <1>6, <2>5, <2>6, <2>7, <3>1, <3>2, NeighborKept
  <2>8. CASE schedule.slow > 0 /\ schedule'.slow = 0 /\ schedule'.next = Pace'
    <3>1. told >= SlowSends
      <4>1. schedule.slow \in Nat /\ told \in Nat /\ SlowSends \in Nat
        BY <1>1, Bounds DEF NeighborRanges
      <4>2. r.accepted /\ schedule.slow = 1
        BY <2>5, <2>8, <4>1
      <4>3. told + schedule.slow > SlowSends
        BY <1>1, <2>4, <2>8, <4>2 DEF SlowInv
      <4> QED BY <4>1, <4>2, <4>3
    <3> QED BY <1>3, <1>4, <1>5, <1>6, <2>5, <2>8, <3>1, NeighborSlowed
  <2> QED BY <2>5, <2>7, <2>8
<1>9. CASE ~(r.item.generation = generation /\ Answers(r.item))
  <2>1. schedule' = schedule
    BY <1>9 DEF DrainResult
  <2>3. Awaited => Awaited'
    <3>1. ASSUME NEW i \in 1..Len(Line), Completes(Line[i]) PROVE Awaited'
      BY <1>3, <1>4, <2>1, <3>1 DEF Awaited, Completes, Answers
    <3>2. ASSUME NEW i \in 1..Len(results), Completes(results[i].item) PROVE Awaited'
      <4>1. i # 1
        BY <1>2, <1>9, <3>2 DEF Completes
      <4>2. i - 1 \in 1..Len(results') /\ results[i] = results'[i - 1]
        BY <1>2, <4>1
      <4>3. Completes(results[i - 1].item)'
        BY <1>3, <2>1, <3>2, <4>2 DEF Completes, Answers
      <4> QED BY <4>2, <4>3 DEF Awaited
    <3> QED BY <3>1, <3>2 DEF Awaited
  <2>4. Stuck' => Stuck
    BY <2>1, <2>3 DEF Stuck
  <2>5. Pace' = Pace /\ \A i \in 1..Len(Line') : i \in 1..Len(Line) /\ Line'[i] = Line[i]
    BY <1>4, <2>1 DEF Pace
  <2> HIDE DEF r
  <2> QED BY <1>3, <1>4, <1>5, <1>6, <2>1, <2>4, <2>5, NeighborKept
<1> QED BY <1>8, <1>9

(* A neighbor that expects nothing asks only that the line stays in order. *)
LEMMA NeighborForgets ==
  ASSUME CapableInv', OrderInv', DueInv', GenerationInv', WaitInv', receiver'.log = Stop,
         \A i \in 1..Len(Line') :
           Line'[i].log \in Logs /\ (Line'[i].latest => Line'[i].log = schedule'.log),
         schedule'.log = Stop => \A i \in 1..Len(Line') : ~Line'[i].latest,
         schedule'.slow > 0 => schedule'.oldPeriod < Period(schedule'.log)
  PROVE  NeighborInv'
<1>1. LogInv'
  BY DEF LogInv
<1>2. FreshInv' /\ GapInv'
  BY DEF FreshInv, GapInv, Fresh
<1> QED BY <1>1, <1>2 DEF NeighborInv

(* A full queue completes the claim it loses; what it still holds keeps    *)
(* the line busy.                                                          *)
LEMMA NeighborEnqueue ==
  ASSUME CapableInv, CapableInv', NeighborInv, Enqueue
  PROVE  NeighborInv'
<1>1. /\ daemon.pc = "queue" /\ daemon' = At("drain") /\ schedule \in Schedules /\ SlowInv
      /\ UNCHANGED <<neighbor, generation, results, receiver, told>>
      /\ NeighborRanges /\ GenerationInv /\ LineTypes
  BY NeighborNumbers, LineShape DEF Enqueue, CapableInv, Shapes, NeighborInv
<1>2. WaitInv' /\ daemon'.pc # "claim"
  BY <1>1 DEF WaitInv, At
<1>3. /\ Len(results') <= Len(results)
      /\ \A i \in 1..Len(results') : results'[i].item.generation <= generation
  <2>1. Len(results) <= Len(results)
    BY <1>1 DEF NeighborRanges
  <2> QED BY <1>1, <2>1 DEF GenerationInv
<1>4. CASE Len(queue) < QueueMax
  <2>1. Line' = Line /\ schedule' = schedule
    BY <1>4, EnqueueLine DEF Enqueue
  <2>2. Stuck' = Stuck /\ Pace' = Pace
    BY <1>1, <2>1 DEF Stuck, Awaited, Completes, Answers, Pace
  <2>3. \A i \in 1..Len(Line') : i \in 1..Len(Line) /\ Line'[i] = Line[i]
    BY <2>1
  <2> QED BY <1>1, <1>2, <1>3, <2>1, <2>2, <2>3, NeighborKept
<1>5. CASE ~(Len(queue) < QueueMax)
  <2>1. /\ Line' # <<>> /\ Len(Line') \in Nat /\ Len(Line) = Len(Line') + 1
        /\ \A i \in 1..Len(Line') : Line'[i] = Line[i]
        /\ Line[Len(Line)] = daemon.item
    BY <1>5, EnqueueLine
  <2>2. \A i \in 1..Len(Line') : i \in 1..Len(Line) /\ Line'[i] = Line[i]
    BY <2>1
  <2>3. Line # <<>>
    BY <1>1, <2>1 DEF LineTypes
  <2>4. CASE Answers(daemon.item)
    <3>1. schedule' = Finished(schedule, FALSE, FALSE)
      BY <1>5, <2>4 DEF Enqueue
    <3>2. schedule.slow > 0 => schedule.log # Stop
      BY <1>1 DEF SlowInv
    <3>3. /\ schedule'.pending = 0 /\ schedule'.log = schedule.log
          /\ schedule'.oldPeriod = schedule.oldPeriod /\ schedule'.active = schedule.active
          /\ schedule'.slow = schedule.slow
          /\ \/ Pace' = Pace /\ schedule'.next = schedule.next
             \/ schedule.slow > 0 /\ schedule'.slow = 0 /\ schedule'.next = Pace'
      BY <1>1, <3>1, <3>2, FinishedSchedule DEF Pace
    <3>4. Pace' = Pace /\ schedule'.next = schedule.next
      BY <1>1, <3>3 DEF NeighborRanges
    <3>5. ~Stuck'
      BY <3>3 DEF Stuck
    <3> QED BY <1>1, <1>2, <1>3, <2>1, <2>2, <2>3, <3>3, <3>4, <3>5, NeighborKept
  <2>5. CASE ~Answers(daemon.item)
    <3>1. schedule' = schedule
      BY <1>5, <2>5 DEF Enqueue
    <3>2. Awaited => Awaited'
      <4>1. ASSUME NEW i \in 1..Len(Line), Completes(Line[i]) PROVE Awaited'
        <5>1. i # Len(Line)
          BY <2>1, <2>5, <4>1 DEF Completes
        <5>2. i \in 1..Len(Line') /\ Line'[i] = Line[i]
          BY <2>1, <5>1
        <5>3. Completes(Line[i])'
          BY <1>1, <3>1, <4>1, <5>2 DEF Completes, Answers
        <5> QED BY <5>2, <5>3 DEF Awaited
      <4>2. ASSUME NEW i \in 1..Len(results), Completes(results[i].item) PROVE Awaited'
        <5>1. Completes(results[i].item)' /\ i \in 1..Len(results')
          BY <1>1, <3>1, <4>2 DEF Completes, Answers
        <5> QED BY <5>1 DEF Awaited
      <4> QED BY <4>1, <4>2 DEF Awaited
    <3>3. Stuck' => Stuck
      BY <3>1, <3>2 DEF Stuck
    <3>4. Pace' = Pace
      BY <3>1 DEF Pace
    <3> QED BY <1>1, <1>2, <1>3, <2>1, <2>2, <2>3, <3>1, <3>3, <3>4, NeighborKept
  <2> QED BY <2>4, <2>5
<1> QED BY <1>4, <1>5

(* A port that is not enabled gives up its claim and its neighbor expects  *)
(* nothing.                                                                *)
LEMMA NeighborDisabled ==
  ASSUME CapableInv, CapableInv', NeighborInv, Begin(FALSE)
  PROVE  NeighborInv'
<1> DEFINE s == Prepared(schedule, FALSE)
<1>1. /\ daemon.pc = "claim" /\ daemon' = At("drain") /\ schedule' = s /\ receiver' = NoExpectation
      /\ UNCHANGED <<neighbor, generation, queue, worker, results, told>>
      /\ schedule \in Schedules /\ OrderInv /\ LogInv /\ GenerationInv
  BY DEF Begin, Due, CapableInv, Shapes, NeighborInv
<1>2. /\ s.log = schedule.log /\ s.slow = schedule.slow /\ s.oldPeriod = schedule.oldPeriod
      /\ s.pending = 0 /\ ~s.active
  BY <1>1, PreparedSchedule
<1> HIDE DEF s
<1>3. Line' = Line
  BY <1>1 DEF Line, Offered, At
<1>4. OrderInv'
  BY <1>1, <1>3 DEF OrderInv
<1>5. DueInv'
  BY <1>1, <1>2 DEF DueInv
<1>6. WaitInv' /\ daemon'.pc # "claim" /\ receiver'.log = Stop
  BY <1>1 DEF WaitInv, At, NoExpectation
<1>7. GenerationInv'
  BY <1>1, <1>3, <1>6 DEF GenerationInv
<1>8. /\ \A i \in 1..Len(Line') :
           Line'[i].log \in Logs /\ (Line'[i].latest => Line'[i].log = schedule'.log)
      /\ schedule'.log = Stop => \A i \in 1..Len(Line') : ~Line'[i].latest
      /\ schedule'.slow > 0 => schedule'.oldPeriod < Period(schedule'.log)
  BY <1>1, <1>2, <1>3 DEF LogInv
<1> QED BY <1>4, <1>5, <1>6, <1>7, <1>8, NeighborForgets

(* A claim puts a message with the schedule's interval at the end of the   *)
(* line; the deadline gives way to the message.                            *)
LEMMA NeighborClaim ==
  ASSUME CapableInv, CapableInv', NeighborInv, daemon.pc = "claim",
         NEW s \in Schedules, s.log = schedule.log, s.slow = schedule.slow,
         s.oldPeriod = schedule.oldPeriod, Due(s, TRUE), schedule' = Claimed(s),
         daemon' = [pc |-> "queue", item |-> Item(Claimed(s))], Superseded,
         UNCHANGED <<neighbor, generation, receiver, told>>
  PROVE  NeighborInv'
<1> DEFINE item == Item(Claimed(s))
<1>1. /\ OrderInv /\ LogInv /\ GenerationInv /\ FreshInv /\ GapInv /\ Shapes
      /\ NeighborRanges /\ NeighborRanges' /\ Heard' = Heard /\ LineTypes'
  BY NeighborNumbers, NextNeighborNumbers, NextLineShape DEF NeighborInv, Heard, CapableInv
<1>2. /\ schedule' \in Schedules /\ schedule'.active /\ schedule'.next > 0
      /\ schedule'.next <= EffectivePeriod(s) /\ schedule'.pending \in 1..TokenMax
      /\ schedule'.log = schedule.log /\ schedule'.slow = schedule.slow
      /\ schedule'.oldPeriod = schedule.oldPeriod /\ schedule'.advertised = schedule.log
  BY ClaimedSchedule
<1>3. Pace' = Pace /\ EffectivePeriod(s) = Pace /\ Pace # 0
  <2>1. EffectivePeriod(s) = Pace
    BY DEF Pace, EffectivePeriod
  <2>2. Pace' = Pace
    BY <1>2 DEF Pace, EffectivePeriod
  <2>3. EffectivePeriod(s) > 0
    BY DEF Due
  <2> QED BY <2>1, <2>2, <2>3
<1>4. schedule.log \in Logs
  <2>1. schedule.log # Stop
    <3> SUFFICES ASSUME schedule.log = Stop PROVE FALSE
      OBVIOUS
    <3>1. schedule.slow > 0 => schedule.log # Stop
      BY DEF CapableInv, SlowInv
    <3>2. Pace = Period(Stop)
      BY <3>1 DEF Pace, EffectivePeriod
    <3> QED BY <1>3, <3>2, PeriodRange
  <2> QED BY <1>1, <2>1 DEF NeighborRanges
<1>5. /\ item \in Items /\ item.log = schedule.log /\ item.latest = TRUE
      /\ item.generation = daemon.generation /\ item.association = neighbor.association
      /\ item.token = schedule'.pending
  <2>1. /\ daemon.generation \in Nat /\ neighbor.association \in Nat
        /\ schedule'.pending \in 1..TokenMax /\ schedule'.advertised \in {Stop} \cup Logs
    BY <1>1, <1>2 DEF Shapes, Daemons, Neighbors, Schedules
  <2>2. item = Item(schedule')
    OBVIOUS
  <2>3. 0 \in Nat
    OBVIOUS
  <2> HIDE DEF item
  <2> QED BY <1>2, <2>1, <2>2, <2>3 DEF Item, Items
<1>6. daemon' = [pc |-> "queue", item |-> item]
  OBVIOUS
<1> HIDE DEF item
<1>7. /\ Len(Line') = Len(Line) + 1 /\ Len(Line) \in Nat
      /\ \A i \in 1..Len(Line) : /\ Line'[i].log = Line[i].log /\ Line'[i].latest = Line[i].latest
                                 /\ Line'[i].generation = Line[i].generation
      /\ Line'[Len(Line) + 1] = item
  BY <1>5, <1>6, ClaimLine
<1>8. \A i \in 1..Len(Line') : i \in 1..Len(Line) \/ i = Len(Line) + 1
  BY <1>7
<1>9. Line' # <<>> /\ Len(Line') \in 1..Len(Line') /\ Line'[Len(Line')] = item
  <2>1. Len(Line') # 0
    BY <1>7
  <2> QED BY <1>7, <2>1
<1>10. OrderInv'
  <2>1. ASSUME NEW i \in 1..Len(Line'), NEW j \in 1..Len(Line'), i < j, Line'[i].latest
        PROVE  Line'[j].latest
    <3>1. CASE j = Len(Line) + 1
      BY <1>5, <1>7, <3>1
    <3>2. CASE j # Len(Line) + 1
      <4>1. j \in 1..Len(Line) /\ i \in 1..Len(Line)
        BY <1>7, <1>8, <2>1, <3>2
      <4> QED BY <1>1, <1>7, <2>1, <4>1 DEF OrderInv
    <3> QED BY <3>1, <3>2
  <2>2. told' > 0 => \A i \in 1..Len(Line') : Line'[i].latest
    BY <1>1, <1>5, <1>7, <1>8 DEF OrderInv
  <2> QED BY <2>1, <2>2 DEF OrderInv
<1>11. LogInv'
  <2>1. ASSUME NEW i \in 1..Len(Line')
        PROVE  /\ Line'[i].log \in Logs /\ (Line'[i].latest => Line'[i].log = schedule'.log)
               /\ receiver'.log # Stop /\ ~Line'[i].latest => Pace' <= Period(Line'[i].log)
    <3>1. CASE i = Len(Line) + 1
      BY <1>2, <1>4, <1>5, <1>7, <3>1
    <3>2. CASE i \in 1..Len(Line)
      BY <1>1, <1>2, <1>3, <1>7, <3>2 DEF LogInv
    <3> QED BY <1>8, <3>1, <3>2
  <2>2. /\ receiver'.log # Stop => Pace' \in 1..Heard'
        /\ schedule'.slow > 0 => schedule'.oldPeriod < Period(schedule'.log)
        /\ receiver'.log \in {Stop, schedule'.log} \/ receiver'.lost >= told'
    BY <1>1, <1>2, <1>3 DEF LogInv
  <2>3. schedule'.log # Stop
    BY <1>2, <1>4, PeriodRange
  <2> QED BY <2>1, <2>2, <2>3 DEF LogInv
<1>12. DueInv'
  BY <1>2, <1>3 DEF DueInv
<1>13. GenerationInv'
  <2>1. \A i \in 1..Len(Line') : Line'[i].generation <= generation
    BY <1>1, <1>5, <1>7, <1>8 DEF GenerationInv
  <2>2. results \in Seq(Results) /\ results' = UnclaimedResults(results)
    BY <1>1 DEF Superseded, UnclaimedResults, Shapes
  <2>3. \A i \in 1..Len(results') : results'[i].item.generation <= generation
    BY <1>1, <2>2, UnclaimedReports DEF GenerationInv
  <2>4. daemon'.pc # "claim"
    BY <1>6
  <2> QED BY <2>1, <2>3, <2>4 DEF GenerationInv
<1>14. WaitInv'
  BY <1>6 DEF WaitInv
<1>15. FreshInv'
  <2>1. CASE Fresh
    BY <2>1 DEF FreshInv, Fresh
  <2>2. CASE ~Fresh
    <3>1. /\ ~neighbor.owed /\ ~neighbor.resetting /\ daemon.generation = generation
          /\ \A i \in 1..Len(Line) : Line[i].generation = generation
          /\ receiver.lost >= Len(results)
      BY <1>1, <2>2 DEF FreshInv
    <3>2. \A i \in 1..Len(Line') : Line'[i].generation = generation'
      BY <1>5, <1>7, <1>8, <3>1
    <3>3. Len(results') = Len(results)
      <4>1. results \in Seq(Results) /\ results' = UnclaimedResults(results)
        BY <1>1 DEF Superseded, UnclaimedResults, Shapes
      <4> QED BY <4>1, UnclaimedReports
    <3>4. ~Stuck'
      <4>1. Completes(Line[Len(Line)])'
        BY <1>5, <1>9, <3>1 DEF Completes, Answers
      <4> QED BY <1>9, <4>1 DEF Stuck, Awaited
    <3>5. daemon'.pc # "claim"
      BY <1>6
    <3> QED BY <3>1, <3>2, <3>3, <3>4, <3>5 DEF FreshInv
  <2> QED BY <2>1, <2>2
<1>16. GapInv'
  <2> SUFFICES ASSUME receiver'.log # Stop PROVE receiver'.age + Ahead' + Hand' <= Allowed'
    BY DEF GapInv
  <2>1. receiver.age + Ahead + Hand <= Allowed /\ Allowed' = Allowed
    BY <1>1 DEF GapInv, Allowed, Periods
  <2>2. Deadline \in Nat /\ receiver.age \in Nat /\ Heard \in Nat
    BY <1>1 DEF NeighborRanges
  <2>3. Ahead' = 0 /\ Ahead \in Nat
    BY <1>9, <2>2 DEF Ahead
  <2>4. Hand' = Hand /\ Hand \in Nat
    BY <1>1, <1>2, <2>2 DEF Hand
  <2>5. Allowed \in Int
    <3>1. receiver.lost \in Nat /\ MaxLost \in Nat /\ Receipts \in Nat
      BY <1>1, Bounds, CapableAssumption DEF NeighborRanges
    <3> QED BY <2>2, <3>1 DEF Allowed, Periods
  <2> QED BY <2>1, <2>2, <2>3, <2>4, <2>5
<1> QED BY <1>10, <1>11, <1>12, <1>13, <1>14, <1>15, <1>16 DEF NeighborInv

(* An enabled port claims, or has nothing due.                             *)
LEMMA NeighborBegin ==
  ASSUME CapableInv, CapableInv', NeighborInv, Begin(TRUE)
  PROVE  NeighborInv'
<1> DEFINE s == Prepared(schedule, TRUE)
<1>1. schedule \in Schedules /\ NeighborRanges /\ GenerationInv
  BY NeighborNumbers DEF CapableInv, Shapes, NeighborInv
<1>2. /\ s \in Schedules /\ s.log = schedule.log /\ s.slow = schedule.slow
      /\ s.oldPeriod = schedule.oldPeriod /\ s.next = schedule.next /\ s.active = schedule.active
      /\ s.pending = 0 \/ s = schedule
  BY <1>1, PreparedSchedule
<1>3. /\ daemon.pc = "claim" /\ UNCHANGED <<neighbor, generation, receiver, told>>
      /\ IF Due(s, TRUE)
         THEN /\ schedule' = Claimed(s) /\ Superseded
              /\ daemon' = [pc |-> "queue", item |-> Item(Claimed(s))]
         ELSE schedule' = s /\ daemon' = At("drain") /\ UNCHANGED <<queue, worker, results>>
  BY DEF Begin
<1> HIDE DEF s
<1>4. CASE Due(s, TRUE)
  BY <1>2, <1>3, <1>4, NeighborClaim
<1>5. CASE ~Due(s, TRUE)
  <2>1. schedule' = s /\ daemon' = At("drain") /\ UNCHANGED <<queue, worker, results>>
    BY <1>3, <1>5
  <2>2. Line' = Line
    BY <1>3, <2>1 DEF Line, Offered, At
  <2>3. WaitInv' /\ daemon'.pc # "claim"
    BY <2>1 DEF WaitInv, At
  <2>4. Pace' = Pace
    BY <1>2, <2>1 DEF Pace, EffectivePeriod
  <2>5. Stuck' => Stuck /\ schedule'.age = schedule.age
    <3>1. CASE s.pending = 0
      BY <2>1, <3>1 DEF Stuck
    <3>2. CASE s = schedule
      BY <1>3, <2>1, <2>2, <3>2 DEF Stuck, Awaited, Completes, Answers
    <3> QED BY <1>2, <3>1, <3>2
  <2>6. schedule'.pending \in {0, schedule.pending}
    BY <1>2, <2>1
  <2>7. /\ \A i \in 1..Len(Line') : i \in 1..Len(Line) /\ Line'[i] = Line[i]
        /\ Len(results') <= Len(results)
        /\ \A i \in 1..Len(results') : results'[i].item.generation <= generation
    <3>1. Len(results) <= Len(results)
      BY <1>1 DEF NeighborRanges
    <3> QED BY <1>1, <2>1, <2>2, <3>1 DEF GenerationInv
  <2> QED BY <1>2, <1>3, <2>1, <2>2, <2>3, <2>4, <2>5, <2>6, <2>7, NeighborKept
<1> QED BY <1>4, <1>5

(* A request, another port or another association leaves nothing of the    *)
(* line that announces the schedule's interval.                            *)
LEMMA NeighborOutdated ==
  ASSUME CapableInv, CapableInv', NeighborInv, Outdate, Offered' = Outdated(Offered), told' = 0,
         schedule'.pending = 0, ~schedule'.active,
         schedule'.slow > 0 => schedule'.oldPeriod < Period(schedule'.log),
         UNCHANGED generation,
         daemon'.pc = "claim" => receiver'.log = Stop /\ daemon' = daemon,
         daemon'.pc = "sleep" => receiver'.log = Stop,
         \/ receiver'.log = Stop
         \/ /\ receiver' = receiver /\ neighbor' = neighbor /\ schedule'.log # Stop
            /\ Pace' <= Pace /\ Pace' >= 1
  PROVE  NeighborInv'
<1>1. /\ OrderInv /\ LogInv /\ GenerationInv /\ FreshInv /\ GapInv
      /\ NeighborRanges /\ NeighborRanges' /\ LineTypes /\ LineTypes' /\ results' = results
  BY NeighborNumbers, NextNeighborNumbers, LineShape, NextLineShape DEF NeighborInv, CapableInv, Outdate
<1>2. /\ Len(Line') = Len(Line)
      /\ \A i \in 1..Len(Line) : /\ Line'[i].log = Line[i].log /\ Line'[i].latest = FALSE
                                 /\ Line'[i].generation = Line[i].generation
  BY OutdateLine
<1>3. OrderInv'
  <2>1. ~(told' > 0)
    OBVIOUS
  <2> QED BY <1>2, <2>1 DEF OrderInv
<1>4. DueInv'
  BY DEF DueInv
<1>5. GenerationInv'
  <2>1. daemon'.pc = "claim" => daemon'.generation <= generation
    BY <1>1 DEF GenerationInv
  <2> QED BY <1>1, <1>2, <2>1 DEF GenerationInv
<1>6. WaitInv'
  BY <1>2 DEF WaitInv
<1>7. \A i \in 1..Len(Line') : Line'[i].log \in Logs /\ ~Line'[i].latest
  BY <1>1, <1>2 DEF LogInv
<1>8. CASE receiver'.log = Stop
  BY <1>3, <1>4, <1>5, <1>6, <1>7, <1>8, NeighborForgets
<1>9. CASE /\ receiver'.log # Stop
           /\ receiver' = receiver /\ neighbor' = neighbor /\ schedule'.log # Stop
           /\ Pace' <= Pace /\ Pace' >= 1
  <2>1. /\ Heard' = Heard /\ Heard \in Nat /\ Pace \in 1..Heard /\ Pace' \in Nat /\ receiver.lost >= 0
    BY <1>1, <1>9 DEF NeighborRanges, LogInv, Heard
  <2>2. ASSUME NEW i \in 1..Len(Line') PROVE Pace' <= Period(Line'[i].log)
    <3>1. i \in 1..Len(Line) /\ Line'[i].log = Line[i].log /\ Line[i].log \in Logs
      BY <1>1, <1>2 DEF LogInv
    <3>2. Period(Line[i].log) \in Nat
      BY <3>1, PeriodRange
    <3>3. Pace <= Period(Line[i].log)
      <4>1. CASE ~Line[i].latest
        BY <1>1, <1>9, <3>1, <4>1 DEF LogInv
      <4>2. CASE Line[i].latest
        <5>1. Line[i].log = schedule.log
          BY <1>1, <3>1, <4>2 DEF LogInv
        <5>2. Pace <= Period(schedule.log)
          <6>1. /\ schedule.slow > 0 => schedule.oldPeriod < Period(schedule.log)
                /\ schedule.oldPeriod \in Nat /\ Period(schedule.log) \in Nat
            BY <1>1 DEF LogInv, NeighborRanges
          <6> QED BY <6>1 DEF Pace, EffectivePeriod
        <5> QED BY <5>1, <5>2
      <4> QED BY <4>1, <4>2
    <3> QED BY <1>9, <2>1, <3>1, <3>2, <3>3
  <2>3. LogInv'
    <3>1. receiver'.log # Stop => Pace' \in 1..Heard'
      BY <1>9, <2>1
    <3>2. receiver'.lost >= told'
      BY <1>9, <2>1
    <3> QED BY <1>7, <1>9, <2>2, <3>1, <3>2 DEF LogInv
  <2>4. ~Stuck'
    BY DEF Stuck
  <2>5. FreshInv'
    <3>1. CASE Fresh
      BY <1>9, <3>1 DEF FreshInv, Fresh
    <3>2. CASE ~Fresh
      <4>1. /\ ~neighbor.owed /\ ~neighbor.resetting
            /\ \A i \in 1..Len(Line) : Line[i].generation = generation
            /\ Line # <<>> => receiver.lost >= Len(results)
        BY <1>1, <3>2 DEF FreshInv
      <4>2. Line' # <<>> => Line # <<>>
        BY <1>1, <1>2 DEF LineTypes
      <4>3. daemon'.pc # "claim"
        BY <1>9
      <4>4. \A i \in 1..Len(Line') : Line'[i].generation = generation'
        BY <1>2, <4>1
      <4> QED BY <1>1, <1>9, <2>4, <4>1, <4>2, <4>3, <4>4 DEF FreshInv
    <3> QED BY <3>1, <3>2
  <2>6. GapInv'
    <3> SUFFICES ASSUME receiver'.log # Stop PROVE receiver'.age + Ahead' + Hand' <= Allowed'
      BY DEF GapInv
    <3>1. receiver.age + Ahead + Hand <= Allowed /\ Allowed' = Allowed
      BY <1>1, <1>9, <2>1 DEF GapInv, Allowed, Periods
    <3>2. Deadline' = 0
      <4>1. Left(schedule') = 0
        BY DEF Left
      <4> QED BY <1>1, <2>4, <4>1 DEF NeighborRanges
    <3>3. Ahead' = 0 /\ Ahead \in Nat /\ receiver.age \in Nat
      BY <1>1, <3>2 DEF Ahead, NeighborRanges
    <3>4. Hand' = 0 /\ Hand \in Nat
      BY <1>1, <1>9, <2>1 DEF Hand, NeighborRanges
    <3>5. Allowed \in Int
      <4>1. receiver.lost \in Nat /\ MaxLost \in Nat /\ Receipts \in Nat
        BY <1>1, Bounds, CapableAssumption DEF NeighborRanges
      <4> QED BY <2>1, <4>1 DEF Allowed, Periods
    <3> QED BY <1>9, <3>1, <3>3, <3>4, <3>5
  <2> QED BY <1>3, <1>4, <1>5, <1>6, <2>3, <2>5, <2>6 DEF NeighborInv
<1> QED BY <1>8, <1>9

(* A request is answered at once at the faster of the two intervals.       *)
LEMMA NeighborRequest ==
  ASSUME CapableInv, CapableInv', NeighborInv, NEW request \in Requests, Request(request)
  PROVE  NeighborInv'
<1>1. /\ schedule \in Schedules /\ NeighborRanges /\ NeighborRanges' /\ SlowInv
      /\ OrderInv /\ LogInv /\ DueInv /\ GenerationInv
  BY NeighborNumbers, NextNeighborNumbers DEF CapableInv, Shapes, NeighborInv
<1>2. /\ daemon.pc = "sleep" /\ daemon' = At("send") /\ UNCHANGED <<neighbor, generation>>
      /\ receiver' = IF schedule'.log = Stop THEN NoExpectation ELSE receiver
      /\ \/ schedule' = schedule
         \/ /\ schedule'.log # schedule.log /\ schedule'.pending = 0 /\ ~schedule'.active
            /\ schedule'.oldPeriod = Pace
            /\ schedule'.slow = IF Pace > 0 /\ Period(schedule'.log) > Pace THEN SlowSends ELSE 0
  BY <1>1, RequestedSchedule DEF Request, Pace
<1>3. /\ daemon'.pc = "send" /\ WaitInv' /\ Offered = <<>> /\ Offered' = <<>>
  BY <1>2 DEF At, WaitInv, Offered
<1>4. CASE schedule'.log = schedule.log
  <2>1. schedule' = schedule /\ UNCHANGED <<queue, worker, results, told>>
    BY <1>2, <1>4 DEF Request
  <2>2. Line' = Line /\ Pace' = Pace
    BY <1>3, <2>1 DEF Line, Pace
  <2>3. CASE schedule.log = Stop
    <3>1. receiver'.log = Stop
      BY <1>2, <1>4, <2>3 DEF NoExpectation
    <3>2. OrderInv' /\ DueInv' /\ GenerationInv'
      BY <1>1, <1>2, <1>3, <2>1, <2>2 DEF OrderInv, DueInv, GenerationInv
    <3>3. /\ \A i \in 1..Len(Line') :
               Line'[i].log \in Logs /\ (Line'[i].latest => Line'[i].log = schedule'.log)
          /\ schedule'.log = Stop => \A i \in 1..Len(Line') : ~Line'[i].latest
          /\ schedule'.slow > 0 => schedule'.oldPeriod < Period(schedule'.log)
      BY <1>1, <2>1, <2>2 DEF LogInv
    <3> QED BY <1>3, <3>1, <3>2, <3>3, NeighborForgets
  <2>4. CASE schedule.log # Stop
    <3>1. receiver' = receiver
      BY <1>2, <1>4, <2>4
    <3>2. Stuck' = Stuck
      BY <1>2, <2>1, <2>2 DEF Stuck, Awaited, Completes, Answers
    <3>3. /\ \A i \in 1..Len(Line') : i \in 1..Len(Line) /\ Line'[i] = Line[i]
          /\ Len(results') <= Len(results)
          /\ \A i \in 1..Len(results') : results'[i].item.generation <= generation
      <4>1. Len(results) <= Len(results)
        BY <1>1 DEF NeighborRanges
      <4> QED BY <1>1, <2>1, <2>2, <4>1 DEF GenerationInv
    <3> QED BY <1>2, <1>3, <2>1, <2>2, <3>1, <3>2, <3>3, NeighborKept
  <2> QED BY <2>3, <2>4
<1>5. CASE schedule'.log # schedule.log
  <2>1. Outdate /\ told' = 0
    BY <1>5 DEF Request
  <2>2. Offered' = Outdated(Offered)
    BY <1>3 DEF Outdated
  <2>3. /\ schedule'.pending = 0 /\ ~schedule'.active /\ schedule'.oldPeriod = Pace
        /\ schedule'.slow = IF Pace > 0 /\ Period(schedule'.log) > Pace THEN SlowSends ELSE 0
    BY <1>2, <1>5
  <2>4. /\ Pace \in Nat /\ Period(schedule'.log) \in Nat /\ SlowSends \in Nat \ {0}
        /\ (schedule'.log # Stop => Period(schedule'.log) >= 1)
    BY <1>1, Bounds DEF NeighborRanges
  <2>5. schedule'.slow > 0 => schedule'.oldPeriod < Period(schedule'.log)
    BY <2>3, <2>4
  <2>6. CASE schedule'.log = Stop
    <3>1. receiver'.log = Stop
      BY <1>2, <2>6 DEF NoExpectation
    <3> QED BY <1>2, <1>3, <2>1, <2>2, <2>3, <2>5, <3>1, NeighborOutdated
  <2>7. CASE schedule'.log # Stop
    <3>1. receiver' = receiver
      BY <1>2, <2>7
    <3>2. receiver.log = Stop \/ (Pace' <= Pace /\ Pace' >= 1)
      <4> SUFFICES ASSUME receiver.log # Stop PROVE Pace' <= Pace /\ Pace' >= 1
        OBVIOUS
      <4>1. Pace >= 1
        BY <1>1 DEF LogInv
      <4>2. Pace' = IF schedule'.slow > 0 THEN Pace ELSE Period(schedule'.log)
        BY <2>3 DEF Pace, EffectivePeriod
      <4>3. CASE Period(schedule'.log) > Pace
        <5>1. schedule'.slow > 0
          BY <2>3, <2>4, <4>1, <4>3
        <5> QED BY <2>4, <4>1, <4>2, <5>1
      <4>4. CASE ~(Period(schedule'.log) > Pace)
        <5>1. ~(schedule'.slow > 0)
          BY <2>3, <4>4
        <5> QED BY <2>4, <2>7, <4>2, <4>4, <5>1
      <4> QED BY <4>3, <4>4
    <3> QED BY <1>2, <1>3, <2>1, <2>2, <2>3, <2>5, <2>7, <3>1, <3>2, NeighborOutdated
  <2> QED BY <2>6, <2>7
<1> QED BY <1>4, <1>5

(* Another port behind the association, another association, or another    *)
(* profile, has heard nothing yet.                                         *)
LEMMA NeighborRenew ==
  ASSUME CapableInv, CapableInv', NeighborInv, Rebind \/ ResetSchedule \/ Associate
  PROVE  NeighborInv'
<1>1. /\ Outdate /\ told' = 0 /\ receiver'.log = Stop /\ UNCHANGED generation
      /\ \E serial \in 0..TokenMax : schedule' = Zero(serial)
  <2>1. schedule.serial \in 0..TokenMax /\ 0 \in 0..TokenMax
    BY Bounds DEF CapableInv, Shapes, Schedules
  <2> QED BY <2>1 DEF Rebind, ResetSchedule, Associate, OutdateAll, Rebound, NoExpectation
<1>2. schedule'.pending = 0 /\ ~schedule'.active /\ schedule'.slow = 0
  BY <1>1, ZeroSchedule
<1>3. Offered' = Outdated(Offered)
  <2>1. CASE Rebind
    BY <2>1 DEF Rebind, At, Offered, Outdated
  <2>2. CASE OutdateAll /\ daemon.pc = "queue"
    <3>1. /\ daemon.item \in Items /\ daemon'.pc = "queue"
          /\ daemon'.item = [daemon.item EXCEPT !.latest = FALSE]
      BY <2>2, OutdatedDaemon
    <3> DEFINE item == [daemon.item EXCEPT !.latest = FALSE]
    <3>4. Offered = <<daemon.item>> /\ Offered' = <<item>>
      BY <2>2, <3>1 DEF Offered
    <3>5. Offered \in Seq(Items) /\ DOMAIN Offered = 1..1 /\ Offered[1] = daemon.item
      <4>1. <<daemon.item>> \in Seq(Items)
        BY <3>1
      <4> QED BY <3>4, <4>1
    <3>6. Outdated(Offered) = [i \in 1..1 |-> item]
      <4>1. \A i \in 1..1 : Offered[i] = daemon.item
        BY <3>5
      <4>2. Outdated(Offered) = [i \in 1..1 |-> [Offered[i] EXCEPT !.latest = FALSE]]
        BY <3>5 DEF Outdated
      <4>3. \A i \in 1..1 : [Offered[i] EXCEPT !.latest = FALSE] = item
        BY <4>1
      <4> QED BY <4>2, <4>3
    <3> HIDE DEF item
    <3>7. <<item>> = [i \in 1..1 |-> item]
      OBVIOUS
    <3> QED BY <3>4, <3>6, <3>7
  <2>3. CASE OutdateAll /\ daemon.pc # "queue"
    BY <2>3 DEF OutdateAll, Offered, Outdated
  <2> QED BY <2>1, <2>2, <2>3 DEF ResetSchedule, Associate
<1>4. daemon'.pc = "claim" => daemon' = daemon
  <2>1. CASE Rebind
    BY <2>1 DEF Rebind, At
  <2>2. CASE OutdateAll
    BY <2>2, OutdatedDaemon
  <2> QED BY <2>1, <2>2 DEF ResetSchedule, Associate
<1>5. ~(schedule'.slow > 0)
  BY <1>2
<1> QED BY <1>1, <1>2, <1>3, <1>4, <1>5, NeighborOutdated

(* A schedule that is not touched has its deadline no earlier.             *)
LEMMA WaitKept ==
  ASSUME CapableInv, CapableInv', WaitInv, UNCHANGED <<schedule, daemon>>, Stuck => Stuck',
         receiver.log = Stop /\ (\A i \in 1..Len(Line) : ~Line[i].latest)
           => receiver'.log = Stop /\ (\A i \in 1..Len(Line') : ~Line'[i].latest)
  PROVE  WaitInv'
<1> DEFINE left == Left(schedule)
           rest == Second - schedule.age
<1>1. /\ left \in Nat /\ rest \in Int /\ Deadline \in Nat /\ Deadline' \in Nat
  <2>1. NeighborRanges /\ NeighborRanges'
    BY NeighborNumbers, NextNeighborNumbers
  <2>2. left \in Nat /\ Second \in Nat /\ schedule.age \in Nat /\ Deadline \in Nat
    BY <2>1 DEF NeighborRanges
  <2>3. Deadline' \in Nat
    BY <2>1 DEF NeighborRanges
  <2> QED BY <2>2, <2>3
<1>2. /\ Deadline = IF Stuck /\ rest > left THEN rest ELSE left
      /\ Deadline' = IF Stuck' /\ rest > left THEN rest ELSE left
  BY DEF Deadline, Left, Second
<1> HIDE DEF left, rest
<1>3. Deadline <= Deadline'
  BY <1>1, <1>2
<1>4. daemon.pc = "sleep" => daemon.wait \in Nat
  BY DEF CapableInv, Shapes, Daemons
<1> QED BY <1>1, <1>3, <1>4 DEF WaitInv

(* A new link generation answers no claim; the association or the profile  *)
(* reset that brings it sets the neighbor aside.                           *)
LEMMA NeighborAdvance ==
  ASSUME CapableInv, CapableInv', NeighborInv, ReceiptsCover, Advance \/ ProfileReset
  PROVE  NeighborInv'
<1>1. /\ OrderInv /\ LogInv /\ DueInv /\ GenerationInv /\ WaitInv /\ FreshInv
      /\ NeighborRanges /\ LineTypes /\ Shapes
  BY NeighborNumbers, LineShape DEF NeighborInv, CapableInv
<1>2. /\ generation' = generation + 1 /\ generation \in Nat
      /\ UNCHANGED <<schedule, daemon, queue, worker, results, told>>
      /\ (neighbor.owed /\ receiver' = receiver) \/ receiver'.log = Stop
  BY <1>1 DEF Advance, ProfileReset, Shapes, NoExpectation
<1>3. Line' = Line /\ Pace' = Pace /\ (receiver' = receiver => Heard' = Heard)
  BY <1>2 DEF Line, Offered, Pace, Heard
<1>4. OrderInv' /\ DueInv'
  BY <1>1, <1>2, <1>3 DEF OrderInv, DueInv
<1>5. LogInv'
  BY <1>1, <1>2, <1>3 DEF LogInv
<1>6. /\ \A i \in 1..Len(Line) : Line[i].generation \in Nat
      /\ \A i \in 1..Len(results) : results[i].item.generation \in Nat
      /\ daemon.pc = "claim" => daemon.generation \in Nat
  <2>1. \A i \in 1..Len(Line) : Line[i] \in Items
    BY <1>1 DEF LineTypes
  <2>2. \A i \in 1..Len(results) : results[i].item \in Items
    BY <1>1, Elements DEF Results
  <2>3. daemon.pc = "claim" => daemon.generation \in Nat
    BY <1>1 DEF Shapes, Daemons
  <2> QED BY <2>1, <2>2, <2>3 DEF Items
<1>7. GenerationInv'
  BY <1>1, <1>2, <1>3, <1>6 DEF GenerationInv
<1>8. ~Awaited'
  <2>1. ASSUME NEW i \in 1..Len(Line) PROVE ~Completes(Line[i])'
    <3>1. Line[i].generation <= generation /\ Line[i].generation \in Nat
      BY <1>1, <1>6 DEF GenerationInv
    <3> QED BY <1>2, <1>3, <3>1 DEF Completes
  <2>2. ASSUME NEW i \in 1..Len(results) PROVE ~Completes(results[i].item)'
    <3>1. results[i].item.generation <= generation /\ results[i].item.generation \in Nat
      BY <1>1, <1>6 DEF GenerationInv
    <3> QED BY <1>2, <3>1 DEF Completes
  <2> QED BY <1>2, <1>3, <2>1, <2>2 DEF Awaited
<1>9. WaitInv'
  <2>1. Stuck => Stuck'
    BY <1>2, <1>8 DEF Stuck
  <2> QED BY <1>1, <1>2, <1>3, <2>1, WaitKept
<1>10. Fresh'
  BY <1>1, <1>2 DEF FreshInv, Fresh
<1>11. FreshInv' /\ GapInv'
  BY <1>4, <1>5, <1>10, NextFreshGap DEF FreshInv
<1> QED BY <1>4, <1>5, <1>7, <1>9, <1>11 DEF NeighborInv

(* A tick brings the deadline, and the end of the daemon's sleep, nearer.  *)
LEMMA NeighborTick ==
  ASSUME CapableInv, CapableInv', NeighborInv, lag = 0, Tick
  PROVE  NeighborInv'
<1>1. /\ OrderInv /\ LogInv /\ DueInv /\ GenerationInv /\ WaitInv /\ GapInv
      /\ NeighborRanges /\ NeighborRanges' /\ schedule \in Schedules /\ receiver \in Receivers
  BY NeighborNumbers, NextNeighborNumbers DEF NeighborInv, CapableInv, Shapes
<1>2. /\ daemon.pc = "sleep" /\ daemon.wait > 0 /\ daemon' = Asleep(daemon.wait - 1)
      /\ ~neighbor.owed /\ ~neighbor.resetting /\ daemon.wait \in Nat
      /\ schedule' = [schedule EXCEPT !.age = Older(@, Second),
                                      !.next = IF @ > -Period(SlowestLog) THEN @ - 1 ELSE @]
      /\ receiver' = [receiver EXCEPT !.age = IF receiver.log = Stop THEN 0 ELSE Older(@, Longest)]
      /\ UNCHANGED <<neighbor, generation, results, told>>
  BY DEF Tick, CapableInv, Shapes, Daemons
<1>3. Line = <<>> /\ Line' = <<>> /\ Len(Line) = 0 /\ Len(Line') = 0
  BY TickLine
<1>4. /\ schedule'.log = schedule.log /\ schedule'.slow = schedule.slow
      /\ schedule'.oldPeriod = schedule.oldPeriod /\ schedule'.active = schedule.active
      /\ schedule'.pending = schedule.pending
      /\ schedule'.age = Older(schedule.age, Second)
      /\ schedule'.next = IF schedule.next > -Slowest THEN schedule.next - 1 ELSE schedule.next
  BY <1>1, <1>2 DEF Schedules, Slowest
<1>5. /\ receiver'.log = receiver.log /\ receiver'.lost = receiver.lost
      /\ receiver.log # Stop => receiver'.age = Older(receiver.age, Longest)
  BY <1>1, <1>2 DEF Receivers
<1>6. daemon'.pc = "sleep" /\ daemon'.wait = daemon.wait - 1
  BY <1>2 DEF Asleep
<1>7. Pace' = Pace /\ Heard' = Heard
  BY <1>4, <1>5 DEF Pace, EffectivePeriod, Heard
<1>8. OrderInv' /\ GenerationInv'
  BY <1>1, <1>2, <1>3, <1>6 DEF OrderInv, GenerationInv
<1>9. LogInv'
  BY <1>1, <1>2, <1>3, <1>4, <1>5, <1>7 DEF LogInv
<1>10. /\ schedule.next \in Int /\ Slowest \in Nat /\ schedule.age \in 0..Second /\ Second \in Nat
       /\ Pace \in Nat /\ receiver.age \in Nat /\ Deadline \in Nat
  BY <1>1 DEF NeighborRanges
<1>11. DueInv'
  <2>1. schedule'.next <= schedule.next
    BY <1>4, <1>10
  <2>2. schedule'.next \in Int
    BY <1>4, <1>10
  <2>3. schedule'.active => schedule'.next <= Pace'
    BY <1>1, <1>4, <1>7, <1>10, <2>1, <2>2 DEF DueInv
  <2> QED BY <1>1, <1>3, <1>4, <2>3 DEF DueInv
<1>12. Stuck' = Stuck
  BY <1>2, <1>3, <1>4 DEF Stuck, Awaited, Completes, Answers
<1>13. Deadline >= 1 => Deadline' = Deadline - 1
  <2> DEFINE left == Left(schedule)
             left1 == Left(schedule')
             rest == Second - schedule.age
             rest1 == Second - schedule'.age
  <2>1. left \in Nat /\ rest \in Nat
    BY <1>10 DEF Left
  <2>2. left1 = IF left > 0 THEN left - 1 ELSE 0
    BY <1>4, <1>10 DEF Left
  <2>3. rest1 = IF rest > 0 THEN rest - 1 ELSE 0
    BY <1>4, <1>10 DEF Older
  <2>4. /\ Deadline = IF Stuck /\ rest > left THEN rest ELSE left
        /\ Deadline' = IF Stuck /\ rest1 > left1 THEN rest1 ELSE left1
    BY <1>12 DEF Deadline, Second
  <2> HIDE DEF left, left1, rest, rest1
  <2> QED BY <2>1, <2>2, <2>3, <2>4
<1>14. receiver.log = Stop \/ daemon.wait <= Deadline
  BY <1>1, <1>2 DEF WaitInv
<1>15. daemon.wait <= Deadline => Deadline >= 1 /\ Deadline' = Deadline - 1
  BY <1>2, <1>10, <1>13
<1>16. WaitInv'
  <2>1. CASE daemon.wait <= Deadline
    <3>1. daemon'.wait <= Deadline'
      BY <1>2, <1>6, <1>10, <1>15, <2>1
    <3> QED BY <3>1 DEF WaitInv
  <2>2. CASE receiver.log = Stop
    BY <1>3, <1>5, <2>2 DEF WaitInv
  <2> QED BY <1>14, <2>1, <2>2
<1>17. FreshInv'
  BY <1>2, <1>3, <1>6 DEF FreshInv
<1>18. GapInv'
  <2> SUFFICES ASSUME receiver'.log # Stop PROVE receiver'.age + Ahead' + Hand' <= Allowed'
    BY DEF GapInv
  <2>1. receiver.age + Ahead + Hand <= Allowed /\ Allowed' = Allowed
    BY <1>1, <1>5, <1>7 DEF GapInv, Allowed, Periods
  <2>2. Hand' = Hand /\ Hand \in Nat
    <3>1. Heard \in Nat
      BY <1>1 DEF NeighborRanges
    <3> QED BY <1>2, <1>4, <1>5, <1>7, <3>1 DEF Hand
  <2>3. Ahead = Deadline /\ Ahead' = Deadline - 1
    BY <1>3, <1>5, <1>14, <1>15 DEF Ahead
  <2>4. receiver'.age <= receiver.age + 1 /\ receiver'.age \in Nat
    <3>1. Longest \in Nat
      BY Bounds
    <3> QED BY <1>5, <1>10, <3>1 DEF Older
  <2>5. Allowed \in Int
    <3>1. receiver.lost \in Nat /\ Heard \in Nat /\ MaxLost \in Nat /\ Receipts \in Nat
      BY <1>1, Bounds, CapableAssumption DEF NeighborRanges
    <3> QED BY <3>1 DEF Allowed, Periods
  <2> QED BY <1>10, <2>1, <2>2, <2>3, <2>4, <2>5
<1> QED BY <1>8, <1>9, <1>11, <1>16, <1>17, <1>18 DEF NeighborInv

(* The worker's report takes the place of its message; only a full result  *)
(* queue leaves the claim without an answer.                               *)
LEMMA NeighborReport ==
  ASSUME CapableInv, CapableInv', NeighborInv, worker # <<>>, NEW accepted, Report(accepted),
         told' = told \/ (worker[1].latest /\ told' = told + 1),
         receiver.log = Stop /\ ~worker[1].latest => receiver'.log = Stop
  PROVE  /\ OrderInv' /\ DueInv' /\ GenerationInv' /\ WaitInv'
         /\ Stuck' => Stuck \/ Len(results) >= QueueMax
         /\ Len(results') <= Len(results) + 1 /\ Len(results') \in Nat
<1>1. /\ OrderInv /\ DueInv /\ GenerationInv /\ WaitInv /\ NeighborRanges /\ Shapes
      /\ worker' = <<>> /\ UNCHANGED <<schedule, neighbor, generation, daemon, queue>>
  BY NeighborNumbers DEF NeighborInv, Report, CapableInv
<1>2. /\ Line # <<>> /\ Line[1] = worker[1] /\ Len(Line) \in Nat /\ Len(Line) > 0
      /\ Len(Line') = Len(Line) - 1
      /\ \A i \in 1..Len(Line') : i + 1 \in 1..Len(Line) /\ Line'[i] = Line[i + 1]
      /\ \A i \in 1..Len(Line) : i = 1 \/ (i - 1 \in 1..Len(Line') /\ Line[i] = Line'[i - 1])
  BY <1>1, ReportLine
<1>3. Pace' = Pace
  BY <1>1 DEF Pace
<1> DEFINE w == worker[1]
           r == [item |-> w, accepted |-> accepted]
<1>4. /\ results' = IF Len(results) < QueueMax THEN Append(results, r) ELSE results
      /\ Len(results) \in Nat /\ QueueMax \in Nat /\ results \in Seq(Results)
  BY <1>1, Bounds DEF Report, NeighborRanges, Shapes
<1>5. r.item = w
  OBVIOUS
<1> HIDE DEF r
<1>6. /\ Len(results') <= Len(results) + 1 /\ Len(results') \in Nat
      /\ \A i \in 1..Len(results) : i \in 1..Len(results') /\ results'[i] = results[i]
      /\ \A i \in 1..Len(results') :
           (i \in 1..Len(results) /\ results'[i] = results[i]) \/ results'[i] = r
      /\ Len(results) < QueueMax =>
           Len(results) + 1 \in 1..Len(results') /\ results'[Len(results) + 1] = r
  <2>1. CASE Len(results) < QueueMax
    <3>1. /\ Len(results') = Len(results) + 1
          /\ \A i \in 1..Len(results) : results'[i] = results[i]
          /\ results'[Len(results) + 1] = r
      BY <1>4, <2>1
    <3> QED BY <1>4, <2>1, <3>1
  <2>2. CASE ~(Len(results) < QueueMax)
    BY <1>4, <2>2
  <2> QED BY <2>1, <2>2
<1>7. OrderInv'
  <2>1. ASSUME NEW i \in 1..Len(Line'), NEW j \in 1..Len(Line'), i < j, Line'[i].latest
        PROVE  Line'[j].latest
    <3>1. /\ i + 1 \in 1..Len(Line) /\ j + 1 \in 1..Len(Line) /\ i + 1 < j + 1
          /\ Line'[i] = Line[i + 1] /\ Line'[j] = Line[j + 1]
      BY <1>2, <2>1
    <3> QED BY <1>1, <2>1, <3>1 DEF OrderInv
  <2>2. ASSUME told' > 0, NEW i \in 1..Len(Line') PROVE Line'[i].latest
    <3>1. /\ i + 1 \in 1..Len(Line) /\ 1 \in 1..Len(Line) /\ 1 < i + 1
          /\ Line'[i] = Line[i + 1] /\ Line[1] = w
      BY <1>2
    <3>2. told > 0 \/ w.latest
      BY <2>2
    <3>3. CASE told > 0
      BY <1>1, <3>1, <3>3 DEF OrderInv
    <3>4. CASE w.latest
      BY <1>1, <3>1, <3>4 DEF OrderInv
    <3> QED BY <3>2, <3>3, <3>4
  <2> QED BY <2>1, <2>2 DEF OrderInv
<1>8. DueInv'
  BY <1>1, <1>2, <1>3 DEF DueInv
<1>9. w.generation <= generation
  <2>1. 1 \in 1..Len(Line)
    BY <1>2
  <2> QED BY <1>1, <1>2, <2>1 DEF GenerationInv
<1>10. GenerationInv'
  <2>1. \A i \in 1..Len(Line') : Line'[i].generation <= generation'
    BY <1>1, <1>2 DEF GenerationInv
  <2>2. \A i \in 1..Len(results') : results'[i].item.generation <= generation'
    BY <1>1, <1>5, <1>6, <1>9 DEF GenerationInv
  <2>3. daemon'.pc = "claim" => daemon'.generation <= generation'
    BY <1>1 DEF GenerationInv
  <2> QED BY <2>1, <2>2, <2>3 DEF GenerationInv
<1>11. Awaited' => Awaited
  <2>1. ASSUME NEW i \in 1..Len(Line'), Completes(Line[i])' PROVE Awaited
    <3>1. i + 1 \in 1..Len(Line) /\ Completes(Line[i + 1])
      BY <1>1, <1>2, <2>1 DEF Completes, Answers
    <3> QED BY <3>1 DEF Awaited
  <2>2. ASSUME NEW i \in 1..Len(results'), Completes(results[i].item)' PROVE Awaited
    <3>1. CASE i \in 1..Len(results) /\ results'[i] = results[i]
      <4>1. Completes(results[i].item)
        BY <1>1, <2>2, <3>1 DEF Completes, Answers
      <4> QED BY <3>1, <4>1 DEF Awaited
    <3>2. CASE results'[i] = r
      <4>1. Completes(Line[1]) /\ 1 \in 1..Len(Line)
        BY <1>1, <1>2, <1>5, <2>2, <3>2 DEF Completes, Answers
      <4> QED BY <4>1 DEF Awaited
    <3> QED BY <1>6, <3>1, <3>2
  <2> QED BY <2>1, <2>2 DEF Awaited
<1>12. Awaited => Awaited' \/ Len(results) >= QueueMax
  <2>1. ASSUME NEW i \in 1..Len(Line), Completes(Line[i]), Len(results) < QueueMax PROVE Awaited'
    <3>1. CASE i = 1
      <4>1. PICK n \in 1..Len(results') : results'[n] = r
        BY <1>6, <2>1
      <4>2. Completes(results[n].item)'
        BY <1>1, <1>2, <1>5, <2>1, <3>1, <4>1 DEF Completes, Answers
      <4> QED BY <4>2 DEF Awaited
    <3>2. CASE i # 1
      <4>1. i - 1 \in 1..Len(Line') /\ Line[i] = Line'[i - 1]
        BY <1>2, <3>2
      <4>2. Completes(Line[i - 1])'
        BY <1>1, <2>1, <4>1 DEF Completes, Answers
      <4> QED BY <4>1, <4>2 DEF Awaited
    <3> QED BY <3>1, <3>2
  <2>2. ASSUME NEW i \in 1..Len(results), Completes(results[i].item) PROVE Awaited'
    <3>1. i \in 1..Len(results') /\ results'[i] = results[i]
      BY <1>6
    <3>2. Completes(results[i].item)'
      BY <1>1, <2>2, <3>1 DEF Completes, Answers
    <3> QED BY <3>1, <3>2 DEF Awaited
  <2> QED BY <1>4, <2>1, <2>2 DEF Awaited
<1>13. WaitInv'
  <2>1. Stuck => Stuck'
    BY <1>1, <1>11 DEF Stuck
  <2>2. receiver.log = Stop /\ (\A i \in 1..Len(Line) : ~Line[i].latest)
          => receiver'.log = Stop /\ (\A i \in 1..Len(Line') : ~Line'[i].latest)
    <3>1. 1 \in 1..Len(Line)
      BY <1>2
    <3> QED BY <1>2, <3>1
  <2> QED BY <1>1, <2>1, <2>2, WaitKept
<1>14. Stuck' => Stuck \/ Len(results) >= QueueMax
  BY <1>1, <1>12 DEF Stuck
<1> QED BY <1>6, <1>7, <1>8, <1>10, <1>13, <1>14

(* A neighbor that hears is told the interval the daemon keeps to or a     *)
(* longer one.                                                             *)
LEMMA NeighborHears ==
  ASSUME CapableInv, CapableInv', NeighborInv, ReceiptsCover, worker # <<>>, Report(TRUE),
         told' = IF worker[1].latest /\ told < SlowSends THEN told + 1 ELSE told,
         receiver' = [log |-> IF receiver.log # Stop \/ worker[1].latest
                              THEN worker[1].log ELSE Stop, age |-> 0, lost |-> 0]
  PROVE  NeighborInv'
<1> DEFINE w == worker[1]
<1>1. /\ OrderInv /\ LogInv /\ NeighborRanges /\ SlowInv
      /\ worker' = <<>> /\ UNCHANGED <<schedule, neighbor, generation, daemon, queue>>
  BY NeighborNumbers DEF NeighborInv, Report, CapableInv
<1>2. /\ Line[1] = w /\ Len(Line) \in Nat /\ Len(Line) > 0 /\ 1 \in 1..Len(Line)
      /\ \A i \in 1..Len(Line') : i + 1 \in 1..Len(Line) /\ Line'[i] = Line[i + 1]
  BY <1>1, ReportLine
<1>3. Pace' = Pace
  BY <1>1 DEF Pace
<1>4. w.log \in Logs /\ w.log # Stop /\ (w.latest => w.log = schedule.log)
  BY <1>1, <1>2, PeriodRange DEF LogInv
<1>5. /\ receiver'.log = IF receiver.log # Stop \/ w.latest THEN w.log ELSE Stop
      /\ receiver'.lost = 0 /\ receiver'.age = 0
  OBVIOUS
<1>6. OrderInv' /\ DueInv' /\ GenerationInv' /\ WaitInv'
  <2>1. told' = told \/ (worker[1].latest /\ told' = told + 1)
    OBVIOUS
  <2>2. receiver.log = Stop /\ ~worker[1].latest => receiver'.log = Stop
    BY <1>5
  <2> QED BY <2>1, <2>2, NeighborReport
<1> HIDE DEF w
<1>7. /\ \A i \in 1..Len(Line') :
           Line'[i].log \in Logs /\ (Line'[i].latest => Line'[i].log = schedule'.log)
      /\ schedule'.log = Stop => \A i \in 1..Len(Line') : ~Line'[i].latest
      /\ schedule'.slow > 0 => schedule'.oldPeriod < Period(schedule'.log)
  BY <1>1, <1>2 DEF LogInv
<1>8. CASE receiver'.log = Stop
  BY <1>6, <1>7, <1>8, NeighborForgets
<1>9. CASE receiver'.log # Stop
  <2>1. receiver'.log = w.log /\ Heard' = Period(w.log) /\ (receiver.log # Stop \/ w.latest)
    BY <1>5, <1>9 DEF Heard
  <2>2. w.latest => \A i \in 1..Len(Line') : Line'[i].latest
    <3> SUFFICES ASSUME w.latest, NEW i \in 1..Len(Line') PROVE Line'[i].latest
      OBVIOUS
    <3>1. i + 1 \in 1..Len(Line) /\ 1 < i + 1 /\ Line'[i] = Line[i + 1]
      BY <1>2
    <3> QED BY <1>1, <1>2, <3>1 DEF OrderInv
  <2>3. Pace \in 1..Period(w.log)
    <3>1. CASE w.latest
      <4>1. w.log = schedule.log /\ schedule.log # Stop
        BY <1>4, <3>1
      <4>2. Period(schedule.log) \in Nat /\ Period(schedule.log) >= 1
        BY <1>1, <4>1 DEF NeighborRanges
      <4>3. schedule.slow > 0 => schedule.oldPeriod \in 1..Period(schedule.log)
        BY <1>1 DEF SlowInv
      <4> QED BY <4>1, <4>2, <4>3 DEF Pace, EffectivePeriod
    <3>2. CASE ~w.latest
      <4>1. receiver.log # Stop
        BY <2>1, <3>2
      <4>2. Pace \in 1..Heard /\ Heard \in Nat
        BY <1>1, <4>1 DEF LogInv, NeighborRanges
      <4>3. Pace <= Period(w.log) /\ Period(w.log) \in Nat
        BY <1>1, <1>2, <1>4, <3>2, <4>1, PeriodRange DEF LogInv
      <4> QED BY <4>2, <4>3
    <3> QED BY <3>1, <3>2
  <2>4. receiver'.log \in {Stop, schedule'.log} \/ receiver'.lost >= told'
    <3>1. CASE w.latest
      BY <1>1, <1>4, <2>1, <3>1
    <3>2. CASE ~w.latest
      <4>1. told' = told /\ told \in Nat
        BY <1>1, <3>2 DEF w, NeighborRanges
      <4>2. ~(told > 0)
        BY <1>1, <1>2, <3>2 DEF OrderInv
      <4> QED BY <1>5, <4>1, <4>2
    <3> QED BY <3>1, <3>2
  <2>5. ASSUME NEW i \in 1..Len(Line'), ~Line'[i].latest PROVE Pace' <= Period(Line'[i].log)
    <3>1. receiver.log # Stop
      BY <2>1, <2>2, <2>5
    <3> QED BY <1>1, <1>2, <1>3, <2>5, <3>1 DEF LogInv
  <2>6. schedule'.log # Stop
    <3>1. schedule.log = Stop => receiver.log = Stop /\ ~w.latest
      BY <1>1, <1>2 DEF LogInv
    <3> QED BY <1>1, <2>1, <3>1
  <2>7. LogInv'
    <3>1. Pace' \in 1..Heard'
      BY <1>3, <2>1, <2>3
    <3> QED BY <1>7, <2>4, <2>5, <2>6, <3>1 DEF LogInv
  <2>8. Fresh'
    BY <1>5 DEF Fresh
  <2>9. FreshInv' /\ GapInv'
    BY <1>6, <2>7, <2>8, NextFreshGap DEF FreshInv
  <2> QED BY <1>6, <2>7, <2>9 DEF NeighborInv
<1> QED BY <1>8, <1>9

(* A lost message is one period less to come, and one more that the        *)
(* neighbor has waited through.                                            *)
LEMMA NeighborLoses ==
  ASSUME CapableInv, CapableInv', NeighborInv, ReceiptsCover, worker # <<>>,
         NEW accepted, Report(accepted), Lose, lag = 0,
         told' = told \/ (worker[1].latest /\ told' = told + 1)
  PROVE  NeighborInv'
<1>1. /\ OrderInv /\ LogInv /\ DueInv /\ FreshInv /\ GapInv /\ NeighborRanges /\ NeighborRanges'
      /\ LineTypes /\ worker' = <<>> /\ UNCHANGED <<schedule, neighbor, generation, daemon, queue>>
  BY NeighborNumbers, NextNeighborNumbers, LineShape DEF NeighborInv, Report, CapableInv
<1>2. /\ Line # <<>> /\ \A i \in 1..Len(Line') : i + 1 \in 1..Len(Line) /\ Line'[i] = Line[i + 1]
  BY <1>1, ReportLine
<1>3. /\ receiver.lost < MaxLost /\ receiver'.lost = receiver.lost + 1
      /\ receiver'.log = receiver.log /\ receiver'.age = receiver.age
  <2>1. receiver \in Receivers
    BY DEF CapableInv, Shapes
  <2> QED BY <2>1 DEF Lose, Receivers
<1>4. Pace' = Pace /\ Heard' = Heard
  BY <1>1, <1>3 DEF Pace, Heard
<1>5. /\ OrderInv' /\ DueInv' /\ GenerationInv' /\ WaitInv'
      /\ Stuck' => Stuck \/ Len(results) >= QueueMax
      /\ Len(results') <= Len(results) + 1 /\ Len(results') \in Nat
  BY <1>3, NeighborReport
<1>6. receiver.lost \in Nat /\ told \in Nat /\ Len(results) \in Nat /\ MaxLost \in Nat /\ QueueMax \in Nat
  BY <1>1, Bounds DEF NeighborRanges
<1>7. LogInv'
  <2>1. \A i \in 1..Len(Line') :
          /\ Line'[i].log \in Logs /\ (Line'[i].latest => Line'[i].log = schedule'.log)
          /\ receiver'.log # Stop /\ ~Line'[i].latest => Pace' <= Period(Line'[i].log)
    BY <1>1, <1>2, <1>3, <1>4 DEF LogInv
  <2>2. /\ receiver'.log # Stop => Pace' \in 1..Heard'
        /\ schedule'.slow > 0 => schedule'.oldPeriod < Period(schedule'.log)
    BY <1>1, <1>3, <1>4 DEF LogInv
  <2>3. schedule'.log = Stop => receiver'.log = Stop /\ \A i \in 1..Len(Line') : ~Line'[i].latest
    BY <1>1, <1>2, <1>3 DEF LogInv
  <2>4. receiver'.log \in {Stop, schedule'.log} \/ receiver'.lost >= told'
    <3>1. receiver.log \in {Stop, schedule.log} \/ receiver.lost >= told
      BY <1>1 DEF LogInv
    <3> QED BY <1>1, <1>3, <1>6, <3>1
  <2> QED BY <2>1, <2>2, <2>3, <2>4 DEF LogInv
<1>8. CASE Fresh
  <2>1. Fresh'
    BY <1>3, <1>8 DEF Fresh
  <2> QED BY <1>5, <1>7, <2>1, NextFreshGap DEF NeighborInv, FreshInv
<1>9. CASE ~Fresh
  <2>1. /\ ~neighbor.owed /\ ~neighbor.resetting
        /\ daemon.pc = "claim" => daemon.generation = generation
        /\ \A i \in 1..Len(Line) : Line[i].generation = generation
        /\ receiver.lost >= Len(results) /\ ~Stuck
    BY <1>1, <1>2, <1>9 DEF FreshInv
  <2>2. ~Stuck'
    <3>1. ~(Len(results) >= QueueMax)
      BY <1>3, <1>6, <2>1 DEF ReceiptsCover
    <3> QED BY <1>5, <2>1, <3>1
  <2>3. FreshInv'
    <3>1. receiver'.lost >= Len(results')
      BY <1>3, <1>5, <1>6, <2>1
    <3>2. \A i \in 1..Len(Line') : Line'[i].generation = generation'
      BY <1>1, <1>2, <2>1
    <3>3. daemon'.pc = "claim" => daemon'.generation = generation'
      BY <1>1, <2>1
    <3> QED BY <1>1, <2>1, <2>2, <3>1, <3>2, <3>3 DEF FreshInv
  <2>4. GapInv'
    <3> SUFFICES ASSUME receiver'.log # Stop PROVE receiver'.age + Ahead' + Hand' <= Allowed'
      BY DEF GapInv
    <3>1. receiver.age + Ahead + Hand <= Allowed
      BY <1>1, <1>3 DEF GapInv
    <3>2. Ahead = 0
      BY <1>2 DEF Ahead
    <3>3. Ahead' <= Heard /\ Ahead' \in Nat
      <4>1. Left(schedule) <= Pace
        BY <1>1, DeadlineBound
      <4>2. Deadline' = Left(schedule') /\ Deadline' \in Nat
        BY <1>1, <2>2 DEF NeighborRanges
      <4>3. Left(schedule') = Left(schedule) /\ Left(schedule) \in Nat /\ Pace \in Nat /\ Heard \in Nat
        BY <1>1 DEF Left, NeighborRanges
      <4>4. Pace <= Heard
        BY <1>1, <1>3, <4>3 DEF LogInv
      <4>5. Deadline' <= Heard
        BY <4>1, <4>2, <4>3, <4>4
      <4> QED BY <4>2, <4>3, <4>5 DEF Ahead
    <3>4. Hand' <= Hand /\ Hand \in Nat /\ Hand' \in Nat
      <4>1. Heard \in Nat
        BY <1>1 DEF NeighborRanges
      <4>2. receiver'.lost < told' => receiver.lost < told
        BY <1>3, <1>6
      <4> QED BY <1>1, <1>4, <4>1, <4>2 DEF Hand
    <3>5. Allowed' = Allowed + Heard /\ Allowed \in Nat /\ Heard \in Nat
      <4>1. Heard \in Nat /\ Heard >= 1
        BY <1>1, <1>3 DEF NeighborRanges
      <4>2. Receipts \in Nat
        BY CapableAssumption
      <4>3. Periods \in Nat /\ Periods >= 1
        BY <1>6, <4>2 DEF ReceiptsCover, Periods
      <4>4. Receipts - MaxLost + receiver'.lost = Periods + 1
        BY <1>3, <1>6, <4>2 DEF Periods
      <4>5. Allowed = Periods * Heard /\ Allowed' = (Periods + 1) * Heard
        BY <1>4, <4>4 DEF Allowed, Periods
      <4> QED BY <4>1, <4>3, <4>5, CoverProduct
    <3>6. receiver.age \in Nat
      BY <1>1 DEF NeighborRanges
    <3> QED BY <1>3, <3>1, <3>2, <3>3, <3>4, <3>5, <3>6
  <2> QED BY <1>5, <1>7, <2>3, <2>4 DEF NeighborInv
<1> QED BY <1>8, <1>9

(* The worker drops only what an earlier link generation claimed.          *)
LEMMA NeighborStale ==
  ASSUME CapableInv, CapableInv', NeighborInv, ReceiptsCover, lag = 0, WorkerStale
  PROVE  NeighborInv'
<1>1. /\ LogInv /\ FreshInv /\ NeighborRanges /\ InFlightInv /\ LineTypes
      /\ worker # <<>> /\ ~Current(worker[1]) /\ Report(FALSE) /\ UNCHANGED <<receiver, told>>
      /\ worker' = <<>> /\ UNCHANGED <<schedule, neighbor, generation, daemon, queue>>
  BY NeighborNumbers, LineShape DEF NeighborInv, WorkerStale, Report, CapableInv
<1>2. /\ Line[1] = worker[1] /\ 1 \in 1..Len(Line)
      /\ \A i \in 1..Len(Line') : i + 1 \in 1..Len(Line) /\ Line'[i] = Line[i + 1]
  BY <1>1, ReportLine
<1>3. worker[1].generation # generation
  <2>1. Len(worker) \in Nat /\ Len(worker) # 0
    BY <1>1, EmptySeq DEF LineTypes
  <2>2. 1 \in 1..Len(worker)
    BY <2>1
  <2>3. worker[1].age <= lag
    BY <1>1, <2>2 DEF InFlightInv, Held, InTime
  <2>4. worker[1] \in Items
    BY <1>1, <1>2 DEF LineTypes
  <2>5. worker[1].age \in Nat
    BY <2>4 DEF Items
  <2>6. worker[1].age < Second
    BY <1>1, <2>3, <2>5 DEF NeighborRanges
  <2> QED BY <1>1, <2>6 DEF Current
<1>4. Fresh /\ Fresh'
  BY <1>1, <1>2, <1>3 DEF FreshInv, Fresh
<1>5. Pace' = Pace /\ Heard' = Heard
  BY <1>1 DEF Pace, Heard
<1>6. OrderInv' /\ DueInv' /\ GenerationInv' /\ WaitInv'
  BY <1>1, NeighborReport
<1>7. LogInv'
  <2>1. \A i \in 1..Len(Line') :
          /\ Line'[i].log \in Logs /\ (Line'[i].latest => Line'[i].log = schedule'.log)
          /\ receiver'.log # Stop /\ ~Line'[i].latest => Pace' <= Period(Line'[i].log)
    BY <1>1, <1>2, <1>5 DEF LogInv
  <2>2. /\ receiver'.log # Stop => Pace' \in 1..Heard'
        /\ schedule'.slow > 0 => schedule'.oldPeriod < Period(schedule'.log)
        /\ receiver'.log \in {Stop, schedule'.log} \/ receiver'.lost >= told'
    BY <1>1, <1>5 DEF LogInv
  <2>3. schedule'.log = Stop => receiver'.log = Stop /\ \A i \in 1..Len(Line') : ~Line'[i].latest
    BY <1>1, <1>2 DEF LogInv
  <2> QED BY <2>1, <2>2, <2>3 DEF LogInv
<1> QED BY <1>4, <1>6, <1>7, NextFreshGap DEF NeighborInv, FreshInv

(* The worker's answers.                                                   *)
LEMMA NeighborWorker ==
  ASSUME CapableInv, CapableInv', NeighborInv, ReceiptsCover, lag = 0,
         WorkerSend \/ WorkerRefused \/ WorkerStale
  PROVE  NeighborInv'
<1>1. CASE WorkerSend
  <2>1. /\ worker # <<>> /\ Report(TRUE)
        /\ told' = IF worker[1].latest /\ told < SlowSends THEN told + 1 ELSE told
        /\ \/ receiver' = [log |-> IF receiver.log # Stop \/ worker[1].latest
                                   THEN worker[1].log ELSE Stop, age |-> 0, lost |-> 0]
           \/ Lose
    BY <1>1 DEF WorkerSend
  <2>2. CASE Lose
    <3>1. told' = told \/ (worker[1].latest /\ told' = told + 1)
      BY <2>1
    <3> QED BY <2>1, <2>2, <3>1, NeighborLoses
  <2>3. CASE ~Lose
    BY <2>1, <2>3, NeighborHears
  <2> QED BY <2>2, <2>3
<1>2. CASE WorkerRefused
  <2>1. worker # <<>> /\ Report(FALSE) /\ Lose /\ told' = told
    BY <1>2 DEF WorkerRefused
  <2> QED BY <2>1, NeighborLoses
<1>3. CASE WorkerStale
  BY <1>3, NeighborStale
<1> QED BY <1>1, <1>2, <1>3

(* Every step keeps the promise where the worker keeps up.                 *)
LEMMA NeighborStep ==
  ReceiptsCover /\ CapableInv /\ CapableInv' /\ NeighborKeeps /\ [Next]_vars => NeighborKeeps'
<1> SUFFICES ASSUME ReceiptsCover, CapableInv, CapableInv', NeighborKeeps, [Next]_vars, lag' = 0
             PROVE  NeighborInv'
  BY DEF NeighborKeeps
<1>1. lag = 0 /\ NeighborInv
  BY DEF NeighborKeeps, Next, vars, Daemon, Worker, DrainResult, Poll, ReadGeneration, Begin, Enqueue,
         Wake, WorkerTake, WorkerSend, WorkerRefused, WorkerStale, Report, Request, Rebind,
         ProfileReset, ResetSchedule, Edit, Associate, Advance, Tick
<1>2. CASE Daemon
  BY <1>1, <1>2, NeighborDrain, NeighborPoll, NeighborMove, NeighborBegin, NeighborEnqueue DEF Daemon
<1>3. CASE Wake
  BY <1>1, <1>3, NeighborMove
<1>4. CASE Begin(FALSE)
  BY <1>1, <1>4, NeighborDisabled
<1>5. CASE Worker
  BY <1>1, <1>5, NeighborMove, NeighborWorker DEF Worker
<1>6. CASE \E request \in Requests : Request(request)
  BY <1>1, <1>6, NeighborRequest
<1>7. CASE Rebind \/ ResetSchedule \/ Associate
  BY <1>1, <1>7, NeighborRenew
<1>8. CASE Advance \/ ProfileReset
  BY <1>1, <1>8, NeighborAdvance
<1>9. CASE Tick
  BY <1>1, <1>9, NeighborTick
<1>10. CASE UNCHANGED vars
  <2>1. /\ Line' = Line /\ Pace' = Pace /\ UNCHANGED <<schedule, daemon, results, neighbor, generation>>
        /\ UNCHANGED <<receiver, told>> /\ Heard' = Heard
    BY <1>10 DEF vars, Line, Offered, Pace, Heard
  <2>2. Stuck' = Stuck
    BY <2>1 DEF Stuck, Awaited, Completes, Answers
  <2>3. Deadline' = Deadline
    BY <2>1, <2>2 DEF Deadline, Left, Second
  <2>4. OrderInv' /\ LogInv' /\ DueInv' /\ GenerationInv'
    BY <1>1, <2>1 DEF NeighborInv, OrderInv, LogInv, DueInv, GenerationInv
  <2>5. WaitInv' /\ FreshInv'
    BY <1>1, <2>1, <2>2, <2>3 DEF NeighborInv, WaitInv, FreshInv, Fresh
  <2>6. GapInv'
    BY <1>1, <2>1, <2>3 DEF NeighborInv, GapInv, Ahead, Hand, Allowed, Periods
  <2> QED BY <2>4, <2>5, <2>6 DEF NeighborInv
<1> QED BY <1>2, <1>3, <1>4, <1>5, <1>6, <1>7, <1>8, <1>9, <1>10 DEF Next

(* At the start nothing was promised.                                      *)
LEMMA NeighborInit == Init => NeighborKeeps
<1> SUFFICES ASSUME Init PROVE NeighborInv
  BY DEF NeighborKeeps
<1>1. /\ schedule = Zero(0) /\ daemon.pc = "drain" /\ receiver.log = Stop /\ told = 0
      /\ worker = <<>> /\ queue = <<>> /\ results = <<>>
  BY DEF Init, At, NoExpectation
<1>2. schedule.log = 0 /\ schedule.pending = 0 /\ ~schedule.active /\ schedule.slow = 0
  BY <1>1, Bounds, ZeroSchedule
<1>3. Offered = <<>>
  BY <1>1 DEF Offered
<1>4. Line = <<>> /\ Len(Line) = 0 /\ Len(results) = 0
  BY <1>1, <1>3, ConcatEmptySeq DEF Line
<1>5. OrderInv /\ DueInv /\ GenerationInv
  BY <1>1, <1>2, <1>4 DEF OrderInv, DueInv, GenerationInv
<1>6. LogInv
  <2>1. schedule.log # Stop /\ ~(schedule.slow > 0)
    BY <1>2 DEF Stop
  <2> QED BY <1>1, <1>4, <2>1 DEF LogInv
<1>7. WaitInv
  BY <1>1 DEF WaitInv
<1>8. FreshInv /\ GapInv
  BY <1>1 DEF FreshInv, Fresh, GapInv
<1> QED BY <1>5, <1>6, <1>7, <1>8 DEF NeighborInv

(* The neighbor keeps the capability, whatever intervals it asks for, with *)
(* MaxLost messages lost in a row: one comes within Receipts of the        *)
(* intervals it was last told (ptp_capable_schedule_wait_ms,               *)
(* slowdown_remaining, ptp_capable_receive).                               *)
THEOREM NeighborCorrect ==
  ASSUME ReceiptsCover
  PROVE  Spec => []NeighborStaysCapable
<1>1. CapableInv /\ NeighborKeeps => NeighborStaysCapable
  <2> SUFFICES ASSUME CapableInv, NeighborKeeps, lag = 0, receiver.log # Stop
               PROVE  receiver.age <= Receipts * Period(receiver.log)
    BY DEF NeighborStaysCapable
  <2>1. receiver.age + Ahead + Hand <= Allowed /\ NeighborRanges
    BY NeighborNumbers DEF NeighborKeeps, NeighborInv, GapInv
  <2>2. Ahead \in Nat /\ Hand \in Nat /\ Heard \in Nat /\ receiver.age \in Nat
    BY <2>1 DEF NeighborRanges, Ahead, Hand
  <2> DEFINE k == Receipts - MaxLost + receiver.lost
             rest == MaxLost - receiver.lost
  <2>3. k \in Nat /\ rest \in Nat /\ Receipts = k + rest
    <3>1. receiver.lost \in 0..MaxLost /\ MaxLost \in Nat /\ Receipts \in Nat
      BY <2>1, Bounds, CapableAssumption DEF NeighborRanges
    <3> QED BY <3>1 DEF ReceiptsCover
  <2>4. Allowed = k * Heard
    BY DEF Allowed, Periods
  <2> HIDE DEF k, rest
  <2>5. /\ Receipts * Heard = k * Heard + rest * Heard
        /\ k * Heard \in Nat /\ rest * Heard \in Nat
    BY <2>2, <2>3, SMTT(30)
  <2> DEFINE most == k * Heard
             spare == rest * Heard
             all == Receipts * Heard
  <2> HIDE DEF most, spare, all
  <2>6. receiver.age <= all
    <3>1. all = most + spare /\ most \in Nat /\ spare \in Nat /\ Allowed = most
      BY <2>4, <2>5 DEF most, spare, all
    <3> QED BY <2>1, <2>2, <3>1
  <2> QED BY <2>6 DEF all, Heard
<1>2. ReceiptsCover /\ CapableInv /\ CapableInv' /\ NeighborKeeps /\ [Next]_vars => NeighborKeeps'
  BY NeighborStep
<1>3. ReceiptsCover => ReceiptsCover'
  BY DEF ReceiptsCover, Second
<1> QED BY <1>1, <1>2, <1>3, NeighborInit, CapableCorrect, PTL DEF Spec
=============================================================================
