----------------------- MODULE AnnounceTransmitProofs -----------------------
(* Proofs about AnnounceTransmit, for every value of its constants.        *)
EXTENDS AnnounceTransmit, TLAPS

Logs == InitialLog..SlowestLog
Slowest == Period(SlowestLog)
Schedules ==
  [revision : Nat, serial : 0..SerialMax, initialized : BOOLEAN, active : BOOLEAN,
   log : {Stop} \cup Logs, slow : 0..3, oldPeriod : 0..Slowest, next : -Slowest..Slowest,
   age : 0..Second, pending : 0..SerialMax, pendingLog : {Stop} \cup Logs, information : Nat]
Messages == [content : Nat, source : Nat]
Items == [full : {TRUE}, revision : Nat, message : Messages, age : 0..Second]
Checks == [pc : {"check", "begin"}, item : Items]
Sends == [pc : {"send"}, message : Messages, token : 1..SerialMax, log : Logs, latest : BOOLEAN]
Stations == [log : {Stop} \cup Logs, age : 0..Longest, lost : 0..MaxLost]

(* The records behind the ranges of TypeOK.                                *)
Shapes ==
  /\ schedule \in Schedules /\ message \in Messages
  /\ mailbox \in Items \cup {NoItem} /\ worker \in Checks \cup Sends \cup {Resting}
  /\ known \in [content : Nat, revision : Nat] /\ station \in Stations
  /\ told \in 0..3 /\ sent \in [content : Nat, retired : 0..1] /\ edits \in Nat
  /\ published \in BOOLEAN /\ prompt \in BOOLEAN

Sending == worker.pc = "send"
Holding == worker.pc \in {"check", "begin"}

(* A slowdown counts down as its interval is told; a claim that is pending *)
(* is for the interval in force, and a send claimed before the latest      *)
(* request has none.                                                       *)
ClaimInv ==
  /\ ~schedule.initialized => schedule.log = InitialLog
  /\ schedule.slow > 0 =>
       /\ schedule.log # Stop /\ schedule.oldPeriod \in 1..Period(schedule.log)
       /\ told + schedule.slow >= 3
  /\ schedule.slow = 0 =>
       told >= 3 \/ schedule.oldPeriod = 0 \/ Period(schedule.log) <= schedule.oldPeriod
  /\ schedule.pending # 0 =>
       schedule.pendingLog = schedule.log /\ schedule.log # Stop /\ schedule.active
  /\ schedule.active => schedule.next <= EffectivePeriod(schedule)
  /\ Sending /\ worker.latest =>
       schedule.pending = worker.token /\ worker.log = schedule.log /\ schedule.active
  /\ Sending /\ ~worker.latest =>
       schedule.pending = 0 /\ ~schedule.active /\ schedule.slow \in {0, 3}

(* The AP sends at least as often as the station was told, and will have   *)
(* told it the new interval when the slowdown ends.                        *)
ToldInv ==
  station.log # Stop =>
    /\ schedule.log # Stop
    /\ EffectivePeriod(schedule) <= Period(station.log)
    /\ schedule.slow > 0 => station.log = schedule.log \/ station.lost >= 3 - schedule.slow
    /\ Sending => EffectivePeriod(schedule) <= Period(worker.log)

(* The wait for the next announcement, and one more for each that was      *)
(* lost: an interval, or the second until a claim without a completion is  *)
(* given up.                                                               *)
Longer(log) == IF Period(log) < Second THEN Second ELSE Period(log)

Allowed ==
  LET p == Longer(station.log)
  IN IF station.lost = 0 THEN p ELSE IF station.lost = 1 THEN 2 * p ELSE 3 * p

(* The deadline and the end of an unfinished claim fall within what the    *)
(* station allows.                                                         *)
TimeInv ==
  prompt /\ station.log # Stop =>
    /\ station.age <= Allowed
    /\ ~Sending /\ schedule.active /\ schedule.next > 0 => station.age + schedule.next <= Allowed
    /\ ~Sending /\ schedule.pending # 0 /\ schedule.age < Second =>
         station.age + (Second - schedule.age) <= Allowed

(* What was published since the last change is of now; once the worker     *)
(* took it the information is of now, and once it went through nothing is  *)
(* due.                                                                    *)
Settled ==
  /\ schedule.active /\ schedule.information = known.revision
  /\ \/ schedule.next > 0
     \/ ~Sending /\ schedule.pending # 0 /\ schedule.age < Second

CaughtUp ==
  prompt =>
    /\ mailbox.full => mailbox.age = 0
    /\ Holding => worker.item.age = 0
    /\ published /\ mailbox.full =>
         mailbox.message = message /\ mailbox.revision = schedule.revision
    /\ published /\ ~mailbox.full =>
         /\ known.content = message.content
         /\ Holding => worker.item.message = message /\ worker.item.revision = schedule.revision
         /\ ~Holding /\ schedule.log # Stop => Settled

(* What the worker holds is what it compared with last, and an active      *)
(* schedule that knows the latest information had it sent, or is sending   *)
(* it.                                                                     *)
SentInv ==
  /\ schedule.information <= known.revision
  /\ Holding => worker.item.message.content = known.content
  /\ schedule.active /\ schedule.information = known.revision =>
       IF Sending THEN worker.message.content = known.content ELSE sent.content = known.content

(* One frame of a retired source was sent, or is past the check.           *)
RetiredInv ==
  /\ worker.pc = "begin" /\ worker.item.message.source # message.source => sent.retired = 0
  /\ Sending /\ worker.message.source # message.source => sent.retired = 0

(* With losses that fit.                                                   *)
HoldInv == MaxLost <= 2 => ToldInv /\ TimeInv

AnnounceInv == Shapes /\ ClaimInv /\ CaughtUp /\ SentInv /\ RetiredInv /\ HoldInv

(* The powers of two the intervals are made of.                            *)
LEMMA PowersOfTwo ==
  \A m, n \in 0..24 : 2^m \in Nat \ {0} /\ (m <= n => 2^m <= 2^n)
<1>1. ASSUME NEW n PROVE /\ (n = 0 => 2^n = 2^0) /\ (n = 1 => 2^n = 2^1) /\ (n = 2 => 2^n = 2^2)
                       /\ (n = 3 => 2^n = 2^3) /\ (n = 4 => 2^n = 2^4) /\ (n = 5 => 2^n = 2^5)
                       /\ (n = 6 => 2^n = 2^6) /\ (n = 7 => 2^n = 2^7) /\ (n = 8 => 2^n = 2^8)
                       /\ (n = 9 => 2^n = 2^9) /\ (n = 10 => 2^n = 2^10) /\ (n = 11 => 2^n = 2^11)
                       /\ (n = 12 => 2^n = 2^12) /\ (n = 13 => 2^n = 2^13) /\ (n = 14 => 2^n = 2^14)
                       /\ (n = 15 => 2^n = 2^15) /\ (n = 16 => 2^n = 2^16) /\ (n = 17 => 2^n = 2^17)
                       /\ (n = 18 => 2^n = 2^18) /\ (n = 19 => 2^n = 2^19) /\ (n = 20 => 2^n = 2^20)
                       /\ (n = 21 => 2^n = 2^21) /\ (n = 22 => 2^n = 2^22) /\ (n = 23 => 2^n = 2^23)
                       /\ (n = 24 => 2^n = 2^24)
  BY Zenon
<1>2. \A n \in 0..24 : 2^n \in Nat \ {0}
  BY <1>1
<1>3. ASSUME NEW m \in 0..24, NEW n \in 0..24, m <= n PROVE 2^m <= 2^n
  BY <1>1, <1>3
<1> QED BY <1>2, <1>3

(* A second divided into more parts, rounded up, gives shorter ones.       *)
LEMMA RoundedUp ==
  ASSUME NEW a \in Nat \ {0}, NEW b \in Nat \ {0}, b <= a
  PROVE  /\ (Second + a - 1) \div a \in 1..Second
         /\ (Second + a - 1) \div a <= (Second + b - 1) \div b
<1> DEFINE q == (Second + a - 1) \div a
           p == (Second + b - 1) \div b
<1>1. Second \in Nat \ {0}
  BY AnnounceAssumption
<1>2. /\ q \in Int /\ a * q <= Second + a - 1 /\ Second + a - 1 < a * q + a
      /\ p \in Int /\ b * p <= Second + b - 1 /\ Second + b - 1 < b * p + b
  BY <1>1
<1> HIDE DEF q, p
<1>3. q >= 1 /\ p >= 1
  <2>1. a * q > 0 /\ b * p > 0
    BY <1>1, <1>2
  <2> QED BY <1>2, <2>1
<1>4. q <= Second
  <2> SUFFICES ASSUME q >= Second + 1 PROVE FALSE
    BY <1>1, <1>2
  <2>1. a * q >= a * (Second + 1)
    BY <1>1, <1>2
  <2>2. a * (Second + 1) = a * Second + a /\ a * Second >= Second
    BY <1>1
  <2>3. a * q \in Int /\ a * Second \in Int
    BY <1>1, <1>2
  <2> QED BY <1>1, <1>2, <2>1, <2>2, <2>3
<1>5. q <= p
  <2> SUFFICES ASSUME q >= p + 1 PROVE FALSE
    BY <1>2
  <2>1. a * q >= a * (p + 1) /\ a * (p + 1) = a * p + a
    BY <1>2
  <2>2. a * p >= b * p /\ {a * q, a * p, b * p} \subseteq Int
    BY <1>2, <1>3
  <2> QED BY <1>1, <1>2, <2>1, <2>2
<1> QED BY <1>1, <1>2, <1>3, <1>4, <1>5 DEF q, p

(* Every supported interval has a period, and none is shorter than the     *)
(* base rate or longer than the slowest.                                   *)
LEMMA PeriodRange ==
  /\ Second \in Nat \ {0} /\ Slowest \in Nat /\ Period(InitialLog) \in Nat \ {0}
  /\ \A log \in Logs : Period(log) \in Period(InitialLog)..Slowest
  /\ Period(Stop) = 0 /\ Stop \notin Logs
  /\ InitialLog \in Logs /\ SlowestLog \in Logs
<1>1. /\ Second \in Nat \ {0} /\ InitialLog \in -24..24 /\ SlowestLog \in -24..24
      /\ InitialLog <= SlowestLog
  BY AnnounceAssumption
<1>2. ASSUME NEW x \in Nat \ {0}, NEW y \in Nat \ {0}, x <= y
      PROVE  Second * x \in Nat /\ Second <= Second * x /\ Second * x <= Second * y
  BY <1>1, <1>2
<1>3. ASSUME NEW m \in Logs, NEW n \in Logs, m <= n
      PROVE  Period(m) \in Nat \ {0} /\ Period(m) <= Period(n)
  <2>0. m \in -24..24 /\ n \in -24..24
    BY <1>1 DEF Logs
  <2>1. ASSUME NEW k \in Logs, k >= 0 PROVE Period(k) = Second * 2^k
    BY <1>1, <2>1 DEF Period, Supported, Logs
  <2>2. ASSUME NEW k \in Logs, k < 0
        PROVE  Period(k) = (Second + 2^(-k) - 1) \div 2^(-k)
    BY <1>1, <2>2 DEF Period, Supported, Logs
  <2>3. CASE m >= 0
    <3>1. 2^m \in Nat \ {0} /\ 2^n \in Nat \ {0} /\ 2^m <= 2^n
      <4>1. m \in 0..24 /\ n \in 0..24
        BY <1>3, <2>0, <2>3
      <4> QED BY <1>3, <4>1, PowersOfTwo
    <3>2. Period(m) = Second * 2^m /\ Period(n) = Second * 2^n
      BY <1>3, <2>0, <2>1, <2>3
    <3> QED BY <1>1, <1>2, <3>1, <3>2
  <2>4. CASE n < 0
    <3>1. 2^(-m) \in Nat \ {0} /\ 2^(-n) \in Nat \ {0} /\ 2^(-n) <= 2^(-m)
      <4>1. -m \in 0..24 /\ -n \in 0..24 /\ -n <= -m
        BY <1>3, <2>0, <2>4
      <4> QED BY <4>1, PowersOfTwo
    <3>2. /\ Period(m) = (Second + 2^(-m) - 1) \div 2^(-m)
          /\ Period(n) = (Second + 2^(-n) - 1) \div 2^(-n)
      BY <1>3, <2>0, <2>2, <2>4
    <3>3. Period(m) \in 1..Second /\ Period(m) <= Period(n)
      BY <3>1, <3>2, RoundedUp
    <3> QED BY <1>1, <3>3
  <2>5. CASE m < 0 /\ n >= 0
    <3>1. 2^(-m) \in Nat \ {0} /\ 2^n \in Nat \ {0}
      <4>1. -m \in 0..24 /\ n \in 0..24
        BY <2>0, <2>5
      <4> QED BY <4>1, PowersOfTwo
    <3>2. Period(m) = (Second + 2^(-m) - 1) \div 2^(-m) /\ Period(n) = Second * 2^n
      BY <2>1, <2>2, <2>5
    <3>3. Period(m) \in 1..Second
      BY <3>1, <3>2, RoundedUp
    <3>4. Second <= Period(n) /\ Period(n) \in Nat
      BY <1>2, <3>1, <3>2
    <3> QED BY <1>1, <3>3, <3>4
  <2> QED BY <2>0, <2>3, <2>4, <2>5
<1>4. /\ InitialLog \in Logs /\ SlowestLog \in Logs
      /\ \A log \in Logs : InitialLog <= log /\ log <= SlowestLog
  BY <1>1 DEF Logs
<1>5. Period(Stop) = 0 /\ Stop \notin Logs
  <2>1. 127 \notin InitialLog..SlowestLog
    BY <1>1
  <2> QED BY <2>1 DEF Period, Supported, Logs, Stop
<1>6. Period(InitialLog) \in Nat \ {0} /\ Slowest \in Nat
  BY <1>3, <1>4 DEF Slowest
<1>7. ASSUME NEW log \in Logs PROVE Period(log) \in Period(InitialLog)..Slowest
  <2>1. Period(log) \in Nat \ {0} /\ Period(InitialLog) <= Period(log) /\ Period(log) <= Slowest
    BY <1>3, <1>4 DEF Slowest
  <2> QED BY <1>6, <2>1
<1> QED BY <1>1, <1>4, <1>5, <1>6, <1>7

(* The period in force.                                                    *)
LEMMA EffectiveRange ==
  ASSUME NEW s \in Schedules
  PROVE  /\ EffectivePeriod(s) \in 0..Slowest
         /\ s.slow = 0 /\ s.log # Stop => EffectivePeriod(s) >= 1
         /\ s.slow = 0 /\ s.log = Stop => EffectivePeriod(s) = 0
<1>1. s.slow \in 0..3 /\ s.oldPeriod \in 0..Slowest /\ s.log \in {Stop} \cup Logs
  BY DEF Schedules
<1>2. Period(s.log) \in 0..Slowest /\ (s.log # Stop => Period(s.log) >= 1)
  BY <1>1, PeriodRange
<1>3. EffectivePeriod(s) = IF s.slow > 0 THEN s.oldPeriod ELSE Period(s.log)
  BY DEF EffectivePeriod
<1> QED BY <1>1, <1>2, <1>3, PeriodRange

(* A request that is refused or changes nothing leaves the interval; the   *)
(* others restart the schedule at it.                                      *)
LEMMA RequestedSchedule ==
  ASSUME NEW s \in Schedules, NEW request \in Int, ~s.initialized => s.log = InitialLog
  PROVE  LET r == Requested(s, request)
         IN /\ r \in Schedules
            /\ ~r.initialized => r.log = InitialLog
            /\ \/ \E i \in BOOLEAN : r = [s EXCEPT !.initialized = i]
               \/ /\ r.revision = s.revision + 1 /\ r.pending = 0 /\ ~r.active
                  /\ r.information = s.information
                  /\ r.oldPeriod = EffectivePeriod(s)
                  /\ r.slow = SlowDown(EffectivePeriod(s), Period(r.log))
<1> DEFINE i == Initialized(s)
           t == Target(request)
<1>a. InitialLog \in Logs /\ {InitialLog, SlowestLog} \subseteq -24..24
  BY AnnounceAssumption, PeriodRange
<1>1. i = [s EXCEPT !.initialized = TRUE] /\ i \in Schedules /\ i.initialized
      /\ i.revision = s.revision /\ i.information = s.information
  <2>1. CASE s.initialized
    BY <2>1 DEF Initialized, Schedules
  <2>2. CASE ~s.initialized
    BY <2>2 DEF Initialized, Schedules
  <2> QED BY <2>1, <2>2
<1>2. EffectivePeriod(i) = EffectivePeriod(s) /\ EffectivePeriod(s) \in 0..Slowest
  <2>1. i.slow = s.slow /\ i.oldPeriod = s.oldPeriod /\ i.log = s.log
    BY <1>1 DEF Schedules
  <2> QED BY <2>1, EffectiveRange DEF EffectivePeriod
<1>3. CASE ~Legal(request)
  <2>1. Requested(s, request) = s
    BY <1>3 DEF Requested
  <2>2. s = [s EXCEPT !.initialized = s.initialized] /\ s.initialized \in BOOLEAN
    BY DEF Schedules
  <2> QED BY <2>1, <2>2
<1>4. CASE Legal(request) /\ (request = Keep \/ t = i.log)
  <2>1. Requested(s, request) = i
    BY <1>4 DEF Requested
  <2> QED BY <1>1, <2>1
<1>5. CASE Legal(request) /\ ~(request = Keep \/ t = i.log)
  <2>1. Requested(s, request) = Retargeted(i, t)
    BY <1>5 DEF Requested
  <2>2. t \in {Stop} \cup Logs
    BY <1>5, <1>a DEF Legal, Target, Logs, Keep, Default, Stop
  <2>3. SlowDown(EffectivePeriod(i), Period(t)) \in 0..3
    BY DEF SlowDown
  <2> HIDE DEF i, t
  <2> DEFINE r == Retargeted(i, t)
  <2>4. r \in Schedules /\ r.revision = i.revision + 1 /\ r.pending = 0 /\ r.active = FALSE
        /\ r.initialized = i.initialized /\ r.information = i.information
    <3>1. 0 \in 0..SerialMax /\ i.revision + 1 \in Nat
      BY <1>1, AnnounceAssumption DEF Schedules
    <3> DEFINE slowed == [i EXCEPT !.log = t, !.oldPeriod = EffectivePeriod(i),
                                   !.slow = SlowDown(EffectivePeriod(i), Period(t))]
    <3>2. slowed \in Schedules /\ slowed.initialized = i.initialized
          /\ slowed.information = i.information
      BY <1>1, <1>2, <2>2, <2>3 DEF Schedules
    <3>3. r = [slowed EXCEPT !.pending = 0, !.active = FALSE, !.revision = i.revision + 1]
      BY <1>1 DEF Retargeted, Schedules
    <3> HIDE DEF slowed, r
    <3> QED BY <3>1, <3>2, <3>3 DEF Schedules
  <2>5. r.log = t /\ r.oldPeriod = EffectivePeriod(i) /\ r.slow = SlowDown(EffectivePeriod(i), Period(t))
    BY <1>1 DEF Retargeted, Schedules
  <2> QED BY <1>1, <1>2, <2>1, <2>4, <2>5
<1> QED BY <1>3, <1>4, <1>5

(* Preparing a claim changes no deadline.                                  *)
LEMMA PreparedSchedule ==
  ASSUME NEW s \in Schedules, NEW information \in Nat, ~s.initialized => s.log = InitialLog
  PROVE  LET r == Prepared(s, information)
         IN /\ r \in Schedules /\ r.initialized
            /\ r.log = s.log /\ r.slow = s.slow /\ r.oldPeriod = s.oldPeriod /\ r.next = s.next
            /\ r.age = s.age /\ r.pendingLog = s.pendingLog /\ r.revision = s.revision
            /\ r.active => s.active
            /\ \/ EffectivePeriod(s) = 0 /\ r.information = s.information
               \/ EffectivePeriod(s) # 0 /\ r.information = information
            /\ r.active => r.information = s.information
            /\ r.pending # 0 =>
                 /\ r.pending = s.pending /\ r.active = s.active
                 /\ EffectivePeriod(s) = 0 \/ s.age < Second
<1> DEFINE i == Initialized(s)
           j == Informed(i, information)
<1>1. /\ i \in Schedules /\ i.initialized
      /\ i.log = s.log /\ i.slow = s.slow /\ i.oldPeriod = s.oldPeriod /\ i.next = s.next
      /\ i.age = s.age /\ i.pendingLog = s.pendingLog /\ i.revision = s.revision
      /\ i.active = s.active /\ i.pending = s.pending /\ i.information = s.information
  <2>1. CASE s.initialized
    BY <2>1 DEF Initialized
  <2>2. CASE ~s.initialized
    BY <2>2, PeriodRange DEF Initialized, Schedules
  <2> QED BY <2>1, <2>2
<1>2. EffectivePeriod(i) = EffectivePeriod(s)
  BY <1>1 DEF EffectivePeriod
<1>z. 0 \in 0..SerialMax
  BY AnnounceAssumption
<1> HIDE DEF i
<1>3. /\ j \in Schedules /\ j.initialized
      /\ j.log = s.log /\ j.slow = s.slow /\ j.oldPeriod = s.oldPeriod /\ j.next = s.next
      /\ j.age = s.age /\ j.pendingLog = s.pendingLog /\ j.revision = s.revision
      /\ j.information = information
      /\ j.active => s.active /\ j.information = s.information
      /\ j.pending # 0 => j.pending = s.pending /\ j.active = s.active
  <2>1. CASE i.information = information
    BY <1>1, <2>1 DEF Informed
  <2>2. CASE i.information # information
    <3>1. j = [i EXCEPT !.information = information, !.pending = 0, !.active = FALSE]
      BY <2>2 DEF Informed
    <3>2. j \in Schedules
      <4> DEFINE renewed == [i EXCEPT !.information = information]
                 unclaimed == [renewed EXCEPT !.pending = 0]
      <4>1. renewed \in Schedules
        BY <1>1 DEF Schedules
      <4>2. j = [unclaimed EXCEPT !.active = FALSE]
        BY <3>1
      <4> HIDE DEF renewed
      <4>3. unclaimed \in Schedules
        BY <1>z, <4>1 DEF Schedules
      <4> HIDE DEF unclaimed
      <4> QED BY <4>2, <4>3 DEF Schedules
    <3>3. /\ j.initialized = i.initialized
          /\ j.log = i.log /\ j.slow = i.slow /\ j.oldPeriod = i.oldPeriod /\ j.next = i.next
          /\ j.age = i.age /\ j.pendingLog = i.pendingLog /\ j.revision = i.revision
          /\ j.active = FALSE /\ j.pending = 0 /\ j.information = information
      BY <1>1, <3>1 DEF Schedules
    <3> QED BY <1>1, <3>2, <3>3
  <2> QED BY <2>1, <2>2
<1> HIDE DEF j
<1>4. Prepared(s, information) =
        IF EffectivePeriod(i) = 0 THEN i
        ELSE IF j.pending # 0 /\ Expired(j) THEN [j EXCEPT !.pending = 0] ELSE j
  BY DEF Prepared, i, j
<1>5. CASE EffectivePeriod(i) = 0
  BY <1>1, <1>2, <1>4, <1>5
<1>6. CASE EffectivePeriod(i) # 0 /\ j.pending # 0 /\ Expired(j)
  <2> DEFINE r == [j EXCEPT !.pending = 0]
  <2>1. Prepared(s, information) = r
    BY <1>4, <1>6
  <2>2. r \in Schedules
    BY <1>3, <1>z DEF Schedules
  <2>3. /\ r.initialized = j.initialized
        /\ r.log = j.log /\ r.slow = j.slow /\ r.oldPeriod = j.oldPeriod /\ r.next = j.next
        /\ r.age = j.age /\ r.pendingLog = j.pendingLog /\ r.revision = j.revision
        /\ r.active = j.active /\ r.pending = 0 /\ r.information = j.information
    BY <1>3 DEF Schedules
  <2> HIDE DEF r
  <2> QED BY <1>2, <1>3, <1>6, <2>1, <2>2, <2>3
<1>7. CASE EffectivePeriod(i) # 0 /\ ~(j.pending # 0 /\ Expired(j))
  <2>1. Prepared(s, information) = j
    BY <1>4, <1>7
  <2>2. j.pending # 0 => j.age < Second
    BY <1>3, <1>7, PeriodRange DEF Expired, Schedules
  <2> QED BY <1>2, <1>3, <1>7, <2>1, <2>2
<1> QED BY <1>5, <1>6, <1>7

(* A claim sets its token and a deadline within the period in force.       *)
LEMMA ClaimedSchedule ==
  ASSUME NEW s \in Schedules, Due(s)
  PROVE  LET r == Claimed(s)
         IN /\ r \in Schedules /\ r.active /\ r.age = 0
            /\ r.pending \in 1..SerialMax /\ r.pendingLog = s.log
            /\ r.log = s.log /\ r.slow = s.slow /\ r.oldPeriod = s.oldPeriod
            /\ r.revision = s.revision /\ r.initialized = s.initialized
            /\ r.information = s.information
            /\ r.next \in 1..EffectivePeriod(s)
<1> DEFINE e == EffectivePeriod(s)
           next == IF s.active /\ -s.next < e THEN s.next + e ELSE e
           token == (s.serial % SerialMax) + 1
           r == Claimed(s)
<1>1. e \in 1..Slowest /\ Slowest \in Nat
  BY EffectiveRange, PeriodRange DEF Due
<1>2. s.next \in Int /\ (s.active => s.next <= 0)
  BY PeriodRange DEF Due, Schedules
<1> HIDE DEF e
<1>3. next \in 1..e /\ next \in -Slowest..Slowest
  BY <1>1, <1>2
<1>4. token \in 1..SerialMax /\ token \in 0..SerialMax
  <2>1. SerialMax \in Nat \ {0} /\ s.serial \in Nat
    BY AnnounceAssumption DEF Schedules
  <2> QED BY <2>1
<1>5. 0 \in 0..Second
  BY PeriodRange
<1>6. r = [s EXCEPT !.next = next, !.active = TRUE, !.age = 0, !.serial = token,
                    !.pending = token, !.pendingLog = s.log]
  BY DEF Claimed, e
<1> HIDE DEF next, token, r
<1>7. r \in Schedules
  BY <1>3, <1>4, <1>5, <1>6 DEF Schedules
<1>8. /\ r.active = TRUE /\ r.age = 0 /\ r.pending = token /\ r.pendingLog = s.log
      /\ r.log = s.log /\ r.slow = s.slow /\ r.oldPeriod = s.oldPeriod
      /\ r.revision = s.revision /\ r.initialized = s.initialized /\ r.next = next
      /\ r.information = s.information
  BY <1>6 DEF Schedules
<1> QED BY <1>3, <1>4, <1>7, <1>8 DEF e, r

(* The completion of a claim in force counts towards the end of a slowdown.*)
LEMMA FinishedSchedule ==
  ASSUME NEW s \in Schedules, NEW accepted \in BOOLEAN
  PROVE  LET r == Finished(s, accepted)
         IN /\ r \in Schedules /\ r.pending = 0
            /\ r.log = s.log /\ r.oldPeriod = s.oldPeriod /\ r.active = s.active
            /\ r.revision = s.revision /\ r.initialized = s.initialized
            /\ r.information = s.information
            /\ \/ r.slow = s.slow /\ r.next = s.next
               \/ /\ accepted /\ s.slow > 0 /\ r.slow = s.slow - 1
                  /\ \/ s.slow > 1 /\ r.next = s.next
                     \/ s.slow = 1 /\ r.next = Period(s.log)
<1> DEFINE r == Finished(s, accepted)
           done == [s EXCEPT !.pending = 0]
<1>z. 0 \in 0..SerialMax /\ 0 \in 0..3 /\ s.slow \in 0..3 /\ Period(s.log) \in -Slowest..Slowest
  BY AnnounceAssumption, PeriodRange DEF Schedules
<1>1. done \in Schedules /\ done.pending = 0 /\ done.slow = s.slow /\ done.next = s.next
      /\ done.log = s.log /\ done.oldPeriod = s.oldPeriod /\ done.active = s.active
      /\ done.revision = s.revision /\ done.initialized = s.initialized
      /\ done.information = s.information
  BY <1>z DEF Schedules
<1>2. r = IF Expired(s) \/ ~Counts(s, accepted) THEN done
          ELSE IF s.slow = 1 THEN [done EXCEPT !.slow = 0, !.next = Period(s.log)]
          ELSE [done EXCEPT !.slow = @ - 1]
  BY DEF Finished
<1> HIDE DEF done, r
<1>3. CASE Expired(s) \/ ~Counts(s, accepted)
  BY <1>1, <1>2, <1>3 DEF r
<1>4. CASE ~(Expired(s) \/ ~Counts(s, accepted)) /\ s.slow = 1
  <2>1. r = [done EXCEPT !.slow = 0, !.next = Period(s.log)]
    BY <1>2, <1>4
  <2>2. r \in Schedules /\ r.slow = 0 /\ r.next = Period(s.log)
    <3> DEFINE over == [done EXCEPT !.slow = 0]
    <3>1. over \in Schedules /\ over.slow = 0 /\ r = [over EXCEPT !.next = Period(s.log)]
      BY <1>z, <1>1, <2>1 DEF Schedules
    <3> HIDE DEF over
    <3> QED BY <1>z, <3>1 DEF Schedules
  <2>3. r.pending = done.pending
        /\ r.log = done.log /\ r.oldPeriod = done.oldPeriod /\ r.active = done.active
        /\ r.revision = done.revision /\ r.initialized = done.initialized
        /\ r.information = done.information
    BY <1>1, <2>1 DEF Schedules
  <2> QED BY <1>1, <1>4, <2>2, <2>3 DEF Counts, r
<1>5. CASE ~(Expired(s) \/ ~Counts(s, accepted)) /\ s.slow # 1
  <2>1. r = [done EXCEPT !.slow = s.slow - 1]
    BY <1>1, <1>2, <1>5
  <2>2. s.slow - 1 \in 0..3 /\ s.slow > 1
    BY <1>z, <1>5 DEF Counts
  <2>3. r \in Schedules /\ r.slow = s.slow - 1 /\ r.next = done.next
    BY <1>1, <2>1, <2>2 DEF Schedules
  <2>4. r.pending = done.pending
        /\ r.log = done.log /\ r.oldPeriod = done.oldPeriod /\ r.active = done.active
        /\ r.revision = done.revision /\ r.initialized = done.initialized
        /\ r.information = done.information
    BY <1>1, <2>1 DEF Schedules
  <2> QED BY <1>1, <1>5, <2>2, <2>3, <2>4 DEF Counts, r
<1> QED BY <1>3, <1>4, <1>5

(* The station is followed where daemon and worker keep up.                *)
FollowedInv == ~prompt => station.log = Stop

LEMMA FollowedStep == AnnounceInv /\ FollowedInv /\ [Next]_vars => FollowedInv'
<1> SUFFICES ASSUME AnnounceInv, FollowedInv, [Next]_vars, ~prompt' PROVE station'.log = Stop
  BY DEF FollowedInv
<1>a. station \in Stations /\ prompt' = prompt
  BY DEF AnnounceInv, Shapes, Next, Publish, WorkerTake, WorkerCheck, WorkerBegin, BeginUnpublished,
         SendAccepted, SendRefused, SendUnrecorded, Complete, Edit, Request, Reset, NewMessage, Tick, vars
<1>b. ~prompt /\ station.log = Stop
  BY <1>a DEF FollowedInv
<1>1. ASSUME NEW log, Heard(log) PROVE station'.log = Stop
  BY <1>1, <1>b DEF Heard
<1>2. ASSUME Lost PROVE station'.log = Stop
  BY <1>2, <1>b DEF Lost
<1>3. CASE SendAccepted \/ SendRefused \/ SendUnrecorded
  BY <1>1, <1>2, <1>3 DEF SendAccepted, SendRefused, SendUnrecorded
<1>4. ASSUME NEW request, Request(request) PROVE station'.log = Stop
  BY <1>4, <1>b DEF Request
<1>5. CASE Tick
  BY <1>5, <1>a, <1>b DEF Tick, Stations
<1>6. CASE UNCHANGED station
  BY <1>6, <1>b
<1> QED
  BY <1>3, <1>4, <1>5, <1>6 DEF Next, Publish, WorkerTake, WorkerCheck, WorkerBegin, BeginUnpublished,
     Reset, NewMessage, vars

(* Every action keeps the slowdown, the claim and the deadlines together.  *)
LEMMA AnnounceStep == AnnounceInv /\ FollowedInv /\ [Next]_vars => AnnounceInv'
<1> SUFFICES ASSUME AnnounceInv, FollowedInv, [Next]_vars PROVE AnnounceInv'
  OBVIOUS
<1>z. prompt' = prompt /\ (station'.log # Stop => prompt')
  BY FollowedStep DEF FollowedInv, Next, Publish, WorkerTake, WorkerCheck, WorkerBegin, BeginUnpublished,
     SendAccepted, SendRefused, SendUnrecorded, Complete, Edit, Request, Reset, NewMessage, Tick, vars
<1>a. /\ SerialMax \in Nat \ {0} /\ MaxLost \in Nat /\ Longest \in Nat /\ Longest >= 1
      /\ 0 \in 0..SerialMax /\ 0 \in 0..Second /\ 0 \in 0..3 /\ 0 \in 0..Longest /\ 0 \in 0..MaxLost
      /\ 0 \in 0..Slowest /\ 0 \in -Slowest..Slowest
  BY AnnounceAssumption, PeriodRange DEF Longest, Slowest
<1>b. Shapes /\ ClaimInv /\ CaughtUp /\ SentInv /\ RetiredInv /\ HoldInv
  BY DEF AnnounceInv
<1>f. /\ schedule \in Schedules
      /\ schedule.revision \in Nat /\ schedule.serial \in 0..SerialMax
      /\ schedule.initialized \in BOOLEAN /\ schedule.active \in BOOLEAN
      /\ schedule.log \in {Stop} \cup Logs /\ schedule.slow \in 0..3
      /\ schedule.oldPeriod \in 0..Slowest /\ schedule.next \in -Slowest..Slowest
      /\ schedule.age \in 0..Second /\ schedule.pending \in 0..SerialMax
      /\ schedule.information \in Nat
  BY <1>b DEF Shapes, Schedules
<1>g. /\ station \in Stations /\ station.log \in {Stop} \cup Logs /\ station.age \in 0..Longest
      /\ station.lost \in 0..MaxLost
  BY <1>b DEF Shapes, Stations
<1>s. /\ known \in [content : Nat, revision : Nat] /\ known.content \in Nat /\ known.revision \in Nat
      /\ message \in Messages /\ message.content \in Nat /\ message.source \in Nat
      /\ sent \in [content : Nat, retired : 0..1] /\ sent.content \in Nat /\ sent.retired \in 0..1
  BY <1>b DEF Shapes, Messages
<1>w. /\ Sending => worker \in Sends /\ worker.token \in 1..SerialMax /\ worker.log \in Logs
                    /\ worker.latest \in BOOLEAN /\ worker.message \in Messages /\ ~Holding
      /\ Holding => worker \in Checks /\ worker.item \in Items
      /\ ~Sending /\ ~Holding => worker = Resting
      /\ Resting.pc = "idle" /\ NoItem.full = FALSE
      /\ mailbox.full => mailbox \in Items
      /\ ~mailbox.full => mailbox = NoItem
  <2>1. Resting.pc = "idle" /\ NoItem.full = FALSE
    BY DEF Resting, NoItem
  <2>2. worker \in Checks \cup Sends \cup {Resting} /\ mailbox \in Items \cup {NoItem}
    BY <1>b DEF Shapes
  <2>3. \A w \in Sends : /\ w.pc = "send" /\ w.token \in 1..SerialMax /\ w.log \in Logs
                         /\ w.latest \in BOOLEAN /\ w.message \in Messages
    BY DEF Sends
  <2>4. \A w \in Checks : w.pc \in {"check", "begin"} /\ w.item \in Items
    BY DEF Checks
  <2>5. \A it \in Items : it.full = TRUE
    BY DEF Items
  <2> QED BY <2>1, <2>2, <2>3, <2>4, <2>5 DEF Sending, Holding
<1>i. \A it \in Items : /\ it.revision \in Nat /\ it.message \in Messages /\ it.age \in 0..Second
                        /\ it.message.content \in Nat /\ it.message.source \in Nat
  BY DEF Items, Messages
<1>x. ASSUME Edit PROVE edits' \in Nat /\ published' \in BOOLEAN /\ prompt' \in BOOLEAN
  <2>1. edits' \in Nat
    BY <1>b, <1>x DEF Edit, Shapes
  <2> QED BY <1>b, <1>x, <2>1 DEF Edit, Shapes
<1>e. EffectivePeriod(schedule) = IF schedule.slow > 0 THEN schedule.oldPeriod ELSE Period(schedule.log)
  BY DEF EffectivePeriod
<1>k. /\ EffectivePeriod(schedule) \in 0..Slowest
      /\ schedule.log # Stop => 1 <= EffectivePeriod(schedule) /\ EffectivePeriod(schedule) <= Period(schedule.log)
      /\ schedule.log = Stop => EffectivePeriod(schedule) = 0 /\ schedule.slow = 0
  BY <1>b, <1>e, <1>f, PeriodRange DEF ClaimInv
<1>l. \A log \in Logs : Longer(log) \in Nat /\ Period(log) <= Longer(log) /\ Second <= Longer(log)
  BY PeriodRange DEF Longer
<1>1. CASE Publish
  <2>1. mailbox' \in Items /\ mailbox'.full /\ mailbox'.age = 0 /\ mailbox'.message = message
        /\ mailbox'.revision = schedule.revision
    BY <1>1, <1>a, <1>b, <1>f DEF Publish, Mailed, Items, Shapes
  <2>2. Shapes'
    BY <1>1, <1>b, <2>1 DEF Publish, Shapes
  <2>3. ClaimInv' /\ HoldInv'
    BY <1>1, <1>b DEF Publish, ClaimInv, HoldInv, ToldInv, TimeInv, Allowed, Sending
  <2>4. CaughtUp'
    BY <1>1, <1>b, <2>1 DEF Publish, CaughtUp, Holding
  <2>5. SentInv' /\ RetiredInv'
    BY <1>1, <1>b DEF Publish, SentInv, RetiredInv, Sending, Holding
  <2> QED BY <2>2, <2>3, <2>4, <2>5 DEF AnnounceInv
<1>2. CASE WorkerTake
  <2>1. /\ ~Sending /\ ~Holding /\ worker = Resting /\ mailbox \in Items
        /\ mailbox' = NoItem /\ ~mailbox'.full
        /\ UNCHANGED <<schedule, message, station, told, sent, edits, published, prompt>>
    BY <1>2, <1>w DEF WorkerTake, Sending, Holding
  <2>2. prompt /\ published => Fresh(mailbox) /\ mailbox.revision = schedule.revision /\ mailbox.message = message
    BY <1>2, <1>b, PeriodRange DEF WorkerTake, Fresh, CaughtUp
  <2>3. CASE ~Fresh(mailbox)
    <3>1. UNCHANGED <<known, worker>>
      BY <1>2, <2>3 DEF WorkerTake
    <3>2. Shapes'
      BY <1>b, <2>1, <3>1 DEF Shapes
    <3>3. ClaimInv' /\ HoldInv' /\ SentInv' /\ RetiredInv'
      BY <1>b, <2>1, <3>1
         DEF ClaimInv, HoldInv, ToldInv, TimeInv, Allowed, SentInv, RetiredInv, Sending, Holding
    <3>4. CaughtUp'
      BY <2>1, <2>2, <2>3, <3>1 DEF CaughtUp, Holding
    <3> QED BY <3>2, <3>3, <3>4 DEF AnnounceInv
  <2>4. CASE Fresh(mailbox)
    <3>1. known' = Noted(mailbox.message.content) /\ worker' = [pc |-> "check", item |-> mailbox]
      BY <1>2, <2>4 DEF WorkerTake
    <3>2. /\ known' \in [content : Nat, revision : Nat] /\ known'.content = mailbox.message.content
          /\ known' = known \/ known'.revision = known.revision + 1
      BY <1>i, <1>s, <2>1, <3>1 DEF Noted
    <3>3. /\ worker' \in Checks /\ worker'.pc = "check" /\ worker'.item = mailbox
          /\ ~Sending' /\ Holding'
      BY <2>1, <3>1 DEF Checks, Sending, Holding
    <3>4. Shapes'
      BY <1>b, <2>1, <3>2, <3>3 DEF Shapes
    <3>5. ClaimInv' /\ HoldInv'
      BY <1>b, <2>1, <3>3 DEF ClaimInv, HoldInv, ToldInv, TimeInv, Allowed
    <3>6. CaughtUp'
      <4>1. prompt => mailbox.age = 0
        BY <1>2, <1>b DEF CaughtUp, WorkerTake
      <4> QED BY <2>1, <2>2, <3>2, <3>3, <4>1 DEF CaughtUp
    <3>7. SentInv'
      BY <1>b, <1>f, <1>s, <2>1, <3>2, <3>3 DEF SentInv
    <3>8. RetiredInv'
      BY <3>3 DEF RetiredInv
    <3> QED BY <3>4, <3>5, <3>6, <3>7, <3>8 DEF AnnounceInv
  <2> QED BY <2>3, <2>4
<1>11. CASE WorkerCheck
  <2>1. /\ ~Sending /\ Holding /\ worker \in Checks /\ worker.item \in Items
        /\ UNCHANGED <<schedule, message, mailbox, known, station, told, sent, edits, published, prompt>>
        /\ worker' = IF Fresh(worker.item) THEN [worker EXCEPT !.pc = "begin"] ELSE Resting
    BY <1>11, <1>w DEF WorkerCheck, Sending, Holding
  <2>2. prompt /\ published /\ ~mailbox.full => Fresh(worker.item)
    <3>1. prompt /\ published /\ ~mailbox.full => worker.item.age = 0 /\ worker.item.message = message
      BY <1>b, <2>1 DEF CaughtUp
    <3>2. worker.item.full = TRUE
      BY <2>1 DEF Items
    <3>3. 0 < Second
      BY PeriodRange
    <3> QED BY <3>1, <3>2, <3>3 DEF Fresh
  <2>3. /\ worker' \in Checks \cup {Resting} /\ ~Sending'
        /\ Holding' => worker'.item = worker.item /\ Fresh(worker.item)
        /\ Fresh(worker.item) => Holding'
    BY <1>w, <2>1 DEF Checks, Sending, Holding
  <2>4. Shapes'
    BY <1>b, <2>1, <2>3 DEF Shapes
  <2>5. ClaimInv' /\ HoldInv'
    BY <1>b, <2>1, <2>3 DEF ClaimInv, HoldInv, ToldInv, TimeInv, Allowed
  <2>6. CaughtUp'
    BY <1>b, <2>1, <2>2, <2>3 DEF CaughtUp
  <2>7. SentInv'
    BY <1>b, <2>1, <2>3 DEF SentInv
  <2>8. RetiredInv'
    BY <2>1, <2>3 DEF RetiredInv, Holding, Fresh
  <2> QED BY <2>4, <2>5, <2>6, <2>7, <2>8 DEF AnnounceInv
<1>12. CASE WorkerBegin
  <2> DEFINE it == worker.item
             s == IF it.revision = schedule.revision THEN Prepared(schedule, known.revision) ELSE schedule
             claims == it.revision = schedule.revision /\ Due(s)
  <2>1. /\ ~Sending /\ Holding /\ it \in Items /\ worker.pc = "begin"
        /\ schedule' = IF claims THEN Claimed(s) ELSE s
        /\ worker' = IF claims
                     THEN [pc |-> "send", message |-> it.message, token |-> Claimed(s).pending,
                           log |-> s.log, latest |-> TRUE]
                     ELSE Resting
        /\ UNCHANGED <<message, mailbox, known, station, told, sent, edits, published, prompt>>
    BY <1>12, <1>w DEF WorkerBegin, Sending, Holding
  <2>2. /\ it.message.content = known.content /\ it.message \in Messages
        /\ it.message.source # message.source => sent.retired = 0
        /\ prompt /\ published /\ ~mailbox.full =>
             it.revision = schedule.revision /\ known.content = message.content
    BY <1>b, <1>i, <2>1 DEF SentInv, RetiredInv, CaughtUp
  <2>3. /\ s \in Schedules
        /\ s.log = schedule.log /\ s.slow = schedule.slow /\ s.oldPeriod = schedule.oldPeriod
        /\ s.next = schedule.next /\ s.age = schedule.age /\ s.revision = schedule.revision
        /\ ~s.initialized => s.log = InitialLog
        /\ s.active => schedule.active /\ s.information = schedule.information
        /\ s.information \in {schedule.information, known.revision}
        /\ s.pending # 0 => s.pending = schedule.pending /\ s.active = schedule.active
                            /\ s.pendingLog = schedule.pendingLog
        /\ it.revision = schedule.revision =>
             /\ s.pending # 0 => EffectivePeriod(schedule) = 0 \/ s.age < Second
             /\ EffectivePeriod(schedule) # 0 => s.information = known.revision
    <3>1. CASE it.revision # schedule.revision
      <4>1. s = schedule
        BY <3>1
      <4> HIDE DEF s
      <4> QED BY <1>b, <1>f, <3>1, <4>1 DEF ClaimInv
    <3>2. CASE it.revision = schedule.revision
      <4>1. s = Prepared(schedule, known.revision)
        BY <3>2
      <4> HIDE DEF s
      <4>2. ~schedule.initialized => schedule.log = InitialLog
        BY <1>b DEF ClaimInv
      <4> QED BY <1>f, <1>s, <4>1, <4>2, PreparedSchedule
    <3> QED BY <3>1, <3>2
  <2>4. EffectivePeriod(s) = EffectivePeriod(schedule)
    BY <2>3 DEF EffectivePeriod
  <2> HIDE DEF s, it
  <2>6. CASE ~claims
    <3>1. schedule' = s /\ worker' = Resting /\ ~Sending' /\ ~Holding'
      BY <1>w, <2>1, <2>6 DEF Sending, Holding
    <3>2. Shapes'
      BY <1>b, <2>1, <2>3, <3>1 DEF Shapes
    <3>3. ClaimInv'
      BY <1>b, <2>1, <2>3, <2>4, <3>1 DEF ClaimInv
    <3>4. HoldInv'
      BY <1>b, <2>1, <2>3, <2>4, <3>1 DEF HoldInv, ToldInv, TimeInv, Allowed
    <3>5. CaughtUp'
      <4>1. ASSUME prompt, published, ~mailbox.full, schedule.log # Stop PROVE Settled'
        <5>1. ~Due(s) /\ EffectivePeriod(s) > 0 /\ it.revision = schedule.revision
          BY <1>k, <2>2, <2>4, <2>6, <4>1
        <5>2. s.pending # 0 \/ (s.active /\ s.next > 0)
          <6>1. s.active \in BOOLEAN /\ s.next \in Int
            BY <1>f, <2>3, PeriodRange DEF Schedules
          <6> QED BY <5>1, <6>1 DEF Due
        <5>3. s.pending # 0 => s.active /\ s.age < Second
          BY <1>b, <2>3, <2>4, <5>1 DEF ClaimInv
        <5>4. s.information = known.revision
          BY <2>3, <2>4, <5>1
        <5> QED BY <2>1, <3>1, <5>2, <5>3, <5>4 DEF Settled
      <4> QED BY <1>b, <2>1, <2>2, <2>3, <3>1, <4>1 DEF CaughtUp
    <3>6. SentInv' /\ RetiredInv'
      BY <1>b, <1>f, <1>s, <1>w, <2>1, <2>3, <3>1 DEF SentInv, RetiredInv
    <3> QED BY <3>2, <3>3, <3>4, <3>5, <3>6 DEF AnnounceInv
  <2>7. CASE claims
    <3> DEFINE r == Claimed(s)
    <3>1. Due(s) /\ schedule' = r /\ it.revision = schedule.revision
          /\ worker' = [pc |-> "send", message |-> it.message, token |-> r.pending,
                        log |-> s.log, latest |-> TRUE]
      BY <2>1, <2>7
    <3>2. /\ r \in Schedules /\ r.active /\ r.age = 0
          /\ r.pending \in 1..SerialMax /\ r.pendingLog = s.log
          /\ r.log = s.log /\ r.slow = s.slow /\ r.oldPeriod = s.oldPeriod
          /\ r.revision = s.revision /\ r.initialized = s.initialized
          /\ r.information = s.information
          /\ r.next \in 1..EffectivePeriod(s)
      BY <2>3, <3>1, ClaimedSchedule
    <3> HIDE DEF r
    <3>3. schedule.log # Stop /\ EffectivePeriod(schedule) > 0 /\ s.log \in Logs
          /\ EffectivePeriod(r) = EffectivePeriod(schedule) /\ s.information = known.revision
      <4>1. EffectivePeriod(schedule) > 0 /\ EffectivePeriod(r) = EffectivePeriod(schedule)
        BY <2>3, <2>4, <3>1, <3>2 DEF Due, EffectivePeriod
      <4> QED BY <1>f, <1>k, <2>3, <3>1, <4>1
    <3>4. /\ worker' \in Sends /\ Sending' /\ ~Holding' /\ worker'.token = r.pending
          /\ worker'.log = s.log /\ worker'.latest /\ worker'.message = it.message
      BY <2>2, <3>1, <3>2, <3>3 DEF Sends, Sending, Holding
    <3>5. Shapes'
      BY <1>b, <2>1, <3>1, <3>2, <3>4 DEF Shapes
    <3>6. ClaimInv'
      BY <1>a, <1>b, <1>k, <2>1, <2>3, <2>4, <3>1, <3>2, <3>3, <3>4 DEF ClaimInv
    <3>7. HoldInv'
      BY <1>b, <1>k, <2>1, <2>3, <3>1, <3>2, <3>3, <3>4 DEF HoldInv, ToldInv, TimeInv, Allowed
    <3>8. CaughtUp'
      <4>1. Settled'
        <5>1. r.active /\ r.next > 0 /\ r.information = known.revision
          BY <1>k, <2>4, <3>2, <3>3
        <5>2. schedule' = r /\ known' = known
          BY <2>1, <3>1
        <5> QED BY <5>1, <5>2 DEF Settled
      <4>2. schedule'.revision = schedule.revision
        BY <2>3, <3>1, <3>2
      <4> QED BY <1>b, <2>1, <2>2, <3>4, <4>1, <4>2 DEF CaughtUp
    <3>9. SentInv'
      BY <1>s, <2>1, <2>2, <3>1, <3>2, <3>3, <3>4 DEF SentInv
    <3>10. RetiredInv'
      BY <2>1, <2>2, <3>4 DEF RetiredInv, Sending
    <3> QED BY <3>5, <3>6, <3>7, <3>8, <3>9, <3>10 DEF AnnounceInv
  <2> QED BY <2>6, <2>7
<1>13. CASE BeginUnpublished
  <2>1. /\ ~Sending /\ worker' = Resting /\ ~Sending' /\ ~Holding' /\ published' = FALSE
        /\ UNCHANGED <<schedule, message, mailbox, known, station, told, sent, prompt>>
    BY <1>13, <1>w DEF BeginUnpublished, Edit, Sending, Holding
  <2>2. Shapes'
    BY <1>13, <1>b, <1>x, <2>1 DEF Shapes, BeginUnpublished
  <2>3. ClaimInv' /\ HoldInv'
    BY <1>b, <2>1 DEF ClaimInv, HoldInv, ToldInv, TimeInv, Allowed
  <2>4. CaughtUp' /\ SentInv' /\ RetiredInv'
    BY <1>b, <1>w, <2>1 DEF CaughtUp, SentInv, RetiredInv
  <2> QED BY <2>2, <2>3, <2>4 DEF AnnounceInv
<1>y. ASSUME Handed
      PROVE  /\ Sending /\ sent' \in [content : Nat, retired : 0..1]
             /\ sent'.content = worker.message.content
  <2>1. Sending
    BY <1>y DEF Handed, Sending
  <2> DEFINE retired == IF worker.message.source = message.source THEN sent.retired ELSE sent.retired + 1
  <2>2. retired \in 0..1
    BY <1>b, <1>s, <2>1 DEF RetiredInv
  <2>3. worker.message.content \in Nat
    BY <1>w, <2>1 DEF Messages
  <2>4. sent' = [content |-> worker.message.content, retired |-> retired]
    BY <1>y DEF Handed
  <2> HIDE DEF retired
  <2> QED BY <2>1, <2>2, <2>3, <2>4
<1>q. ASSUME NEW accepted \in BOOLEAN, Handed, Complete(accepted), station' \in Stations, told' \in 0..3,
             told' = told \/ (accepted /\ worker.latest /\ told' = told + 1),
             accepted /\ worker.latest /\ told < 3 => told' = told + 1,
             \/ station'.log = station.log /\ station'.age = station.age /\ station'.lost = station.lost + 1
             \/ /\ accepted /\ station'.age = 0 /\ station'.lost = 0
                /\ station'.log = IF station.log = Stop /\ ~worker.latest THEN Stop ELSE worker.log
             \/ station'.log = Stop
      PROVE  AnnounceInv'
  <2>1. /\ Sending /\ worker' = Resting /\ ~Sending' /\ ~Holding'
        /\ UNCHANGED <<message, mailbox, known, edits, published, prompt>>
        /\ sent' \in [content : Nat, retired : 0..1] /\ sent'.content = worker.message.content
    BY <1>q, <1>w, <1>y DEF Complete, Sending, Holding
  <2>2. CASE ~worker.latest
    <3>1. schedule' = schedule /\ schedule.pending = 0 /\ ~schedule.active
      BY <1>b, <1>q, <1>w, <2>1, <2>2 DEF Complete, ClaimInv
    <3>2. Shapes'
      BY <1>b, <1>q, <2>1, <3>1 DEF Shapes
    <3>3. ClaimInv'
      BY <1>b, <1>q, <2>1, <2>2, <3>1 DEF ClaimInv
    <3>4. ASSUME MaxLost <= 2 PROVE ToldInv'
      <4> SUFFICES ASSUME station'.log # Stop, station.log # Stop PROVE ToldInv'
        BY <1>q, <2>1, <2>2 DEF ToldInv
      <4>1. /\ schedule.log # Stop /\ EffectivePeriod(schedule) <= Period(station.log)
            /\ schedule.slow > 0 => station.log = schedule.log \/ station.lost >= 3 - schedule.slow
            /\ EffectivePeriod(schedule) <= Period(worker.log)
        BY <1>b, <2>1, <3>4 DEF HoldInv, ToldInv
      <4>2. schedule.slow \in {0, 3} /\ station.lost \in Nat
        BY <1>a, <1>b, <1>g, <2>1, <2>2 DEF ClaimInv
      <4>3. CASE station'.log = station.log /\ station'.lost = station.lost + 1
        BY <2>1, <3>1, <4>1, <4>2, <4>3 DEF ToldInv
      <4>4. CASE station'.log = worker.log /\ station'.lost = 0
        BY <2>1, <3>1, <4>1, <4>2, <4>4 DEF ToldInv
      <4> QED BY <1>q, <4>3, <4>4
    <3>5. ASSUME MaxLost <= 2 PROVE TimeInv'
      <4> SUFFICES ASSUME prompt, station'.log # Stop PROVE station'.age <= Allowed'
        BY <2>1, <3>1 DEF TimeInv
      <4>1. station'.log \in Logs /\ Longer(station'.log) \in Nat
        BY <1>l, <1>q DEF Stations
      <4>2. CASE station'.age = 0 /\ station'.lost = 0
        BY <4>1, <4>2 DEF Allowed
      <4>3. CASE station'.log = station.log /\ station'.age = station.age /\ station'.lost = station.lost + 1
        <5>1. station.age <= Allowed /\ station.age \in Nat /\ station.lost \in Nat
          BY <1>a, <1>b, <1>g, <3>5, <4>3 DEF HoldInv, TimeInv
        <5> QED BY <4>1, <4>3, <5>1 DEF Allowed
      <4> QED BY <1>q, <4>2, <4>3
    <3>6. CaughtUp'
      BY <1>b, <1>w, <2>1, <3>1 DEF CaughtUp, Settled
    <3>7. SentInv' /\ RetiredInv'
      BY <1>b, <1>w, <2>1, <3>1 DEF SentInv, RetiredInv
    <3> QED BY <3>2, <3>3, <3>4, <3>5, <3>6, <3>7 DEF AnnounceInv, HoldInv
  <2>3. CASE worker.latest
    <3> DEFINE r == Finished(schedule, accepted)
    <3>1. /\ schedule' = r /\ schedule.active /\ worker.log = schedule.log
      BY <1>b, <1>q, <2>1, <2>3 DEF Complete, ClaimInv
    <3>2. /\ r \in Schedules /\ r.pending = 0
          /\ r.log = schedule.log /\ r.oldPeriod = schedule.oldPeriod /\ r.active = schedule.active
          /\ r.revision = schedule.revision /\ r.initialized = schedule.initialized
          /\ r.information = schedule.information
          /\ \/ r.slow = schedule.slow /\ r.next = schedule.next
             \/ /\ accepted /\ schedule.slow > 0 /\ r.slow = schedule.slow - 1
                /\ \/ schedule.slow > 1 /\ r.next = schedule.next
                   \/ schedule.slow = 1 /\ r.next = Period(schedule.log)
      BY <1>f, <1>q, FinishedSchedule
    <3> HIDE DEF r
    <3>3. EffectivePeriod(r) = IF r.slow > 0 THEN r.oldPeriod ELSE Period(r.log)
      BY DEF EffectivePeriod
    <3>l. schedule.log # Stop /\ Period(schedule.log) \in Nat /\ 1 <= Period(schedule.log)
      BY <1>w, <2>1, <3>1, PeriodRange
    <3>4. EffectivePeriod(r) \in Nat /\ EffectivePeriod(r) <= Period(r.log) /\ r.next <= EffectivePeriod(r)
      BY <1>b, <1>e, <1>f, <1>k, <3>1, <3>2, <3>3, <3>l DEF ClaimInv
    <3>5. Shapes'
      BY <1>b, <1>q, <2>1, <3>1, <3>2 DEF Shapes
    <3>6. ClaimInv'
      BY <1>b, <1>f, <1>q, <2>1, <2>3, <3>1, <3>2, <3>4 DEF ClaimInv, Shapes
    <3>7. ASSUME MaxLost <= 2, station'.log # Stop
          PROVE  ToldInv' /\ EffectivePeriod(r) <= Period(station'.log)
      <4>1. CASE station'.log = worker.log
        BY <2>1, <3>1, <3>2, <3>4, <3>l, <4>1 DEF ToldInv
      <4>2. CASE station'.log = station.log /\ station'.lost = station.lost + 1 /\ station'.log # worker.log
        <5>1. /\ EffectivePeriod(schedule) <= Period(station.log)
              /\ schedule.slow > 0 => station.lost >= 3 - schedule.slow
          BY <1>b, <3>1, <3>7, <4>2 DEF HoldInv, ToldInv
        <5>2. station.lost + 1 <= 2 /\ station.lost \in Nat
          BY <1>a, <1>g, <1>q, <3>7, <4>2 DEF Stations
        <5>3. r.slow > 0 \/ schedule.slow = 0
          BY <1>f, <3>2, <5>1, <5>2
        <5>4. EffectivePeriod(r) = EffectivePeriod(schedule)
          BY <1>e, <1>f, <3>2, <3>3, <5>3
        <5>5. r.slow > 0 => station'.lost >= 3 - r.slow
          BY <1>f, <3>2, <4>2, <5>1, <5>2
        <5> QED BY <2>1, <3>1, <3>2, <3>l, <4>2, <5>1, <5>4, <5>5 DEF ToldInv
      <4> QED BY <1>q, <2>3, <3>7, <4>1, <4>2
    <3>8. ASSUME MaxLost <= 2 PROVE TimeInv'
      <4> SUFFICES ASSUME prompt, station'.log # Stop
                   PROVE  /\ station'.age <= Allowed'
                          /\ r.next > 0 => station'.age + r.next <= Allowed'
        BY <2>1, <3>1, <3>2 DEF TimeInv
      <4>1. /\ r.next \in Int /\ r.next <= Longer(station'.log) /\ Longer(station'.log) \in Nat
        <5>1. station'.log \in Logs /\ r.next \in -Slowest..Slowest
          BY <1>q, <3>2 DEF Stations, Schedules
        <5>2. r.next \in Int /\ r.next <= Period(station'.log) /\ Period(station'.log) \in Nat
          BY <3>4, <3>7, <3>8, <5>1, PeriodRange
        <5> QED BY <1>l, <5>1, <5>2
      <4>2. CASE station'.age = 0 /\ station'.lost = 0
        BY <4>1, <4>2 DEF Allowed
      <4>3. CASE station'.log = station.log /\ station'.age = station.age /\ station'.lost = station.lost + 1
        <5>1. station.age <= Allowed
          BY <1>b, <3>8, <4>3 DEF HoldInv, TimeInv
        <5>2. station.lost + 1 <= 2 /\ station.lost \in Nat
          BY <1>a, <1>g, <1>q, <3>8, <4>3 DEF Stations
        <5> QED BY <1>g, <4>1, <4>3, <5>1, <5>2 DEF Allowed
      <4> QED BY <1>q, <4>2, <4>3
    <3>9. CaughtUp'
      <4>1. Settled => Settled'
        BY <1>f, <2>1, <3>1, <3>2, <3>l, PeriodRange DEF Settled
      <4> QED BY <1>b, <1>w, <2>1, <3>1, <3>2, <4>1 DEF CaughtUp
    <3>10. SentInv' /\ RetiredInv'
      BY <1>b, <1>w, <2>1, <3>1, <3>2 DEF SentInv, RetiredInv
    <3> QED BY <3>5, <3>6, <3>7, <3>8, <3>9, <3>10 DEF AnnounceInv, HoldInv, ToldInv
  <2> QED BY <1>w, <2>1, <2>2, <2>3
<1>h. ASSUME Sending, Heard(worker.log), prompt
      PROVE  /\ station' \in Stations /\ station'.age = 0 /\ station'.lost = 0
             /\ station'.log = IF station.log = Stop /\ ~worker.latest THEN Stop ELSE worker.log
  <2>1. worker.log \in Logs /\ worker.latest \in BOOLEAN
    BY <1>h, <1>w
  <2> DEFINE log == IF station.log = Stop /\ ~worker.latest THEN Stop ELSE worker.log
  <2>2. log \in {Stop} \cup Logs /\ station' = [log |-> log, age |-> 0, lost |-> 0]
    BY <1>h, <2>1 DEF Heard
  <2> HIDE DEF log
  <2>3. station' \in Stations /\ station'.log = log /\ station'.age = 0 /\ station'.lost = 0
    BY <1>a, <2>2 DEF Stations
  <2> QED BY <2>1, <2>3 DEF log
<1>u. ASSUME Sending, Heard(worker.log) \/ Lost, ~prompt
      PROVE  station' \in Stations /\ station'.log = Stop
  <2>1. station'.log = Stop
    BY <1>u, <1>z
  <2>2. CASE Lost
    BY <1>g, <1>u, <2>1, <2>2 DEF Lost
  <2>3. CASE Heard(worker.log)
    BY <1>a, <1>u, <2>1, <2>3 DEF Heard, Stations
  <2> QED BY <1>u, <2>1, <2>2, <2>3
<1>j. ASSUME Lost, prompt
      PROVE  /\ station' \in Stations
             /\ station'.log = station.log /\ station'.age = station.age /\ station'.lost = station.lost + 1
  <2>1. station.lost + 1 \in 0..MaxLost
    BY <1>a, <1>g, <1>j DEF Lost
  <2> QED BY <1>g, <1>j, <2>1 DEF Stations, Lost
<1>3. CASE SendAccepted
  <2>1. Handed /\ Sending /\ Complete(TRUE)
    BY <1>3, <1>y DEF SendAccepted
  <2>2. /\ told' \in 0..3 /\ (told' = told \/ (worker.latest /\ told' = told + 1))
        /\ worker.latest /\ told < 3 => told' = told + 1
    <3>1. told \in 0..3 /\ worker.latest \in BOOLEAN
      BY <1>b, <1>w, <2>1 DEF Shapes
    <3>2. told' = IF worker.latest /\ told < 3 THEN told + 1 ELSE told
      BY <1>3 DEF SendAccepted
    <3> QED BY <3>1, <3>2
  <2>3. CASE Heard(worker.log) /\ prompt
    BY <1>h, <1>q, <2>1, <2>2, <2>3
  <2>4. CASE Lost /\ prompt
    BY <1>j, <1>q, <2>1, <2>2, <2>4
  <2>5. CASE ~prompt /\ (Heard(worker.log) \/ Lost)
    BY <1>u, <1>q, <2>1, <2>2, <2>5
  <2> QED BY <1>3, <2>3, <2>4, <2>5 DEF SendAccepted
<1>4. CASE SendRefused
  <2>1. Handed /\ Complete(FALSE) /\ told' \in 0..3 /\ told' = told
    BY <1>4, <1>b DEF SendRefused, Shapes
  <2>2. /\ station' \in Stations
        /\ \/ station'.log = station.log /\ station'.age = station.age /\ station'.lost = station.lost + 1
           \/ station'.log = Stop
    BY <1>4, <1>u, <1>j, <1>y DEF SendRefused
  <2> QED BY <1>q, <2>1, <2>2
<1>5. CASE SendUnrecorded
  <2>1. /\ Sending /\ worker' = Resting /\ ~Sending' /\ ~Holding' /\ published' = FALSE
        /\ UNCHANGED <<schedule, message, mailbox, known, told, prompt>>
        /\ sent' \in [content : Nat, retired : 0..1] /\ sent'.content = worker.message.content
    BY <1>5, <1>w, <1>y DEF SendUnrecorded, Edit, Sending, Holding
  <2>2. /\ station' \in Stations
        /\ \/ /\ station'.age = 0 /\ station'.lost = 0
              /\ station'.log = IF station.log = Stop /\ ~worker.latest THEN Stop ELSE worker.log
           \/ station'.log = station.log /\ station'.age = station.age /\ station'.lost = station.lost + 1
           \/ station'.log = Stop
    BY <1>5, <1>h, <1>u, <1>j, <2>1 DEF SendUnrecorded
  <2>3. Shapes'
    BY <1>5, <1>b, <1>x, <2>1, <2>2 DEF Shapes, SendUnrecorded
  <2>4. ClaimInv'
    BY <1>b, <2>1 DEF ClaimInv
  <2>5. ASSUME MaxLost <= 2 PROVE ToldInv'
    <3> SUFFICES ASSUME station'.log # Stop PROVE ToldInv'
      BY DEF ToldInv
    <3>1. CASE station'.lost = 0 /\ station'.log = IF station.log = Stop /\ ~worker.latest THEN Stop ELSE worker.log
      BY <1>a, <1>b, <1>f, <1>g, <1>k, <1>w, <2>1, <2>2, <2>5, <3>1, PeriodRange
         DEF ClaimInv, HoldInv, ToldInv
    <3>2. CASE station'.log = station.log /\ station'.lost = station.lost + 1
      <4>1. station.lost \in Nat /\ schedule.slow \in 0..3
        BY <1>a, <1>f, <1>g
      <4> QED BY <1>b, <2>1, <2>5, <3>2, <4>1 DEF HoldInv, ToldInv
    <3> QED BY <2>2, <3>1, <3>2
  <2>6. ASSUME MaxLost <= 2 PROVE TimeInv'
    <3> SUFFICES ASSUME prompt, station'.log # Stop PROVE TimeInv'
      BY <2>1 DEF TimeInv
    <3>1. EffectivePeriod(schedule) <= Period(station'.log) /\ station'.log \in Logs
      BY <2>1, <2>2, <2>5, <2>6 DEF ToldInv, Stations
    <3>2. /\ Longer(station'.log) \in Nat /\ Second <= Longer(station'.log)
          /\ schedule.active => schedule.next <= Longer(station'.log)
      BY <1>b, <1>f, <1>k, <1>l, <3>1, PeriodRange DEF ClaimInv
    <3>3. schedule.next \in Int /\ schedule.age \in Nat /\ Second \in Nat /\ station.age \in Nat
      BY <1>a, <1>f, <1>g, PeriodRange
    <3>4. CASE station'.age = 0 /\ station'.lost = 0
      <4>1. Allowed' = Longer(station'.log)
        BY <3>4 DEF Allowed
      <4> QED BY <2>1, <3>2, <3>3, <3>4, <4>1 DEF TimeInv
    <3>5. CASE station'.log = station.log /\ station'.age = station.age /\ station'.lost = station.lost + 1
      <4>1. station.age <= Allowed
        BY <1>b, <2>6, <3>5 DEF HoldInv, TimeInv
      <4>2. station.lost + 1 <= 2 /\ station.lost \in Nat
        BY <1>a, <1>g, <2>2, <2>6, <3>5 DEF Stations
      <4>3. Allowed \in Nat /\ Allowed' = Allowed + Longer(station'.log)
        <5> DEFINE wait == Longer(station.log)
        <5>1. wait \in Nat /\ Longer(station'.log) = wait
          BY <3>2, <3>5
        <5>2. Allowed = IF station.lost = 0 THEN wait ELSE IF station.lost = 1 THEN 2 * wait ELSE 3 * wait
          BY DEF Allowed
        <5>3. Allowed' = IF station'.lost = 0 THEN wait ELSE IF station'.lost = 1 THEN 2 * wait ELSE 3 * wait
          BY <5>1 DEF Allowed
        <5> HIDE DEF wait
        <5> QED BY <3>5, <4>2, <5>1, <5>2, <5>3
      <4> QED BY <2>1, <3>2, <3>3, <3>5, <4>1, <4>3 DEF TimeInv
    <3> QED BY <2>2, <3>4, <3>5
  <2>7. CaughtUp' /\ SentInv' /\ RetiredInv'
    BY <1>b, <1>w, <2>1 DEF CaughtUp, SentInv, RetiredInv
  <2> QED BY <2>3, <2>4, <2>5, <2>6, <2>7 DEF AnnounceInv, HoldInv
<1>r. ASSUME Retire
      PROVE  /\ worker' \in Checks \cup Sends \cup {Resting} /\ Sending' = Sending /\ Holding' = Holding
             /\ Sending => ~worker'.latest /\ worker'.log = worker.log /\ worker'.message = worker.message
             /\ ~Sending => worker' = worker
  <2>1. CASE Sending
    <3>1. worker' = [worker EXCEPT !.latest = FALSE] /\ worker \in Sends /\ ~Holding
      BY <1>r, <1>w, <2>1 DEF Retire, Sending
    <3>2. /\ worker' \in Sends /\ worker'.pc = "send" /\ worker'.latest = FALSE
          /\ worker'.log = worker.log /\ worker'.message = worker.message
      BY <3>1 DEF Sends
    <3> QED BY <2>1, <3>1, <3>2 DEF Sending, Holding
  <2>2. CASE ~Sending
    BY <1>b, <1>r, <2>2 DEF Retire, Sending, Holding, Shapes
  <2> QED BY <2>1, <2>2
<1>6. ASSUME NEW request \in Requests, Request(request) PROVE AnnounceInv'
  <2> DEFINE r == Requested(schedule, request)
  <2>1. /\ schedule' = r /\ published' = FALSE /\ edits' = edits + 1
        /\ UNCHANGED <<message, mailbox, known, sent, prompt>>
    BY <1>6 DEF Request, Edit
  <2>2. /\ r \in Schedules /\ (~r.initialized => r.log = InitialLog)
        /\ \/ \E i \in BOOLEAN : r = [schedule EXCEPT !.initialized = i]
           \/ /\ r.revision = schedule.revision + 1 /\ r.pending = 0 /\ ~r.active
              /\ r.information = schedule.information
              /\ r.oldPeriod = EffectivePeriod(schedule)
              /\ r.slow = SlowDown(EffectivePeriod(schedule), Period(r.log))
    <3>1. request \in Int /\ (~schedule.initialized => schedule.log = InitialLog)
      BY <1>6, <1>b, AnnounceAssumption DEF ClaimInv
    <3> QED BY <1>f, <3>1, RequestedSchedule
  <2> HIDE DEF r
  <2>3. /\ station' \in Stations
        /\ \/ r.log # Stop /\ station' = station
           \/ r.log = Stop /\ station'.log = Stop
    <3>1. r.log = Stop => station' = [log |-> Stop, age |-> 0, lost |-> 0]
      BY <1>6, <2>1 DEF Request
    <3>2. r.log # Stop => station' = station
      BY <1>6, <2>1 DEF Request
    <3> QED BY <1>a, <1>g, <3>1, <3>2 DEF Stations
  <2>4. CaughtUp' /\ RetiredInv'
    <3>1. worker' = worker \/ Retire
      BY <1>6 DEF Request
    <3>2. Holding' = Holding /\ Sending' = Sending
          /\ (Holding => worker' = worker) /\ (Sending => worker'.message = worker.message)
      BY <1>r, <1>w, <3>1 DEF Holding, Sending
    <3>3. CaughtUp'
      BY <1>b, <2>1, <3>2 DEF CaughtUp
    <3>4. RetiredInv'
      BY <1>b, <2>1, <3>2 DEF RetiredInv, Holding
    <3> QED BY <3>3, <3>4
  <2>5. CASE \E i \in BOOLEAN : r = [schedule EXCEPT !.initialized = i]
    <3>1. PICK i \in BOOLEAN : r = [schedule EXCEPT !.initialized = i]
      BY <2>5
    <3>2. /\ r.revision = schedule.revision /\ r.log = schedule.log /\ r.slow = schedule.slow
          /\ r.oldPeriod = schedule.oldPeriod /\ r.next = schedule.next /\ r.age = schedule.age
          /\ r.pending = schedule.pending /\ r.pendingLog = schedule.pendingLog
          /\ r.active = schedule.active /\ r.information = schedule.information
      BY <1>f, <3>1 DEF Schedules
    <3>3. worker' = worker /\ told' = told
      BY <1>6, <2>1, <3>2 DEF Request
    <3>4. EffectivePeriod(r) = EffectivePeriod(schedule)
      BY <3>2 DEF EffectivePeriod
    <3>5. Shapes'
      BY <1>6, <1>b, <1>x, <2>1, <2>2, <2>3, <3>3 DEF Shapes, Request
    <3>6. ClaimInv'
      BY <1>b, <2>1, <2>2, <3>2, <3>3, <3>4 DEF ClaimInv, Sending
    <3>7. HoldInv'
      BY <1>b, <2>1, <2>3, <3>2, <3>3, <3>4 DEF HoldInv, ToldInv, TimeInv, Allowed, Sending
    <3>8. SentInv'
      BY <1>b, <2>1, <3>2, <3>3 DEF SentInv, Sending, Holding
    <3> QED BY <2>4, <3>5, <3>6, <3>7, <3>8 DEF AnnounceInv
  <2>6. CASE /\ r.revision = schedule.revision + 1 /\ r.pending = 0 /\ ~r.active
             /\ r.information = schedule.information
             /\ r.oldPeriod = EffectivePeriod(schedule)
             /\ r.slow = SlowDown(EffectivePeriod(schedule), Period(r.log))
    <3>1. Retire /\ told' = 0
      BY <1>6, <1>f, <2>1, <2>6 DEF Request
    <3>2. /\ r.log \in {Stop} \cup Logs /\ Period(r.log) \in 0..Slowest
          /\ r.slow = 3 \/ r.slow = 0
          /\ r.slow = 3 => EffectivePeriod(schedule) > 0 /\ Period(r.log) > EffectivePeriod(schedule)
          /\ r.slow = 0 => EffectivePeriod(schedule) = 0 \/ Period(r.log) <= EffectivePeriod(schedule)
      <4>1. r.log \in {Stop} \cup Logs
        BY <2>2 DEF Schedules
      <4>2. Period(r.log) \in 0..Slowest
        BY <4>1, PeriodRange
      <4> QED BY <1>k, <2>6, <4>1, <4>2, PeriodRange DEF SlowDown
    <3>3. EffectivePeriod(r) = IF r.slow > 0 THEN r.oldPeriod ELSE Period(r.log)
      BY DEF EffectivePeriod
    <3>4. Shapes'
      BY <1>6, <1>b, <1>r, <1>x, <2>1, <2>2, <2>3, <3>1 DEF Shapes, Request
    <3>5. ClaimInv'
      BY <1>k, <1>r, <2>1, <2>2, <2>6, <3>1, <3>2, PeriodRange DEF ClaimInv
    <3>6. ASSUME MaxLost <= 2 PROVE ToldInv'
      <4> SUFFICES ASSUME station'.log # Stop PROVE ToldInv'
        BY DEF ToldInv
      <4>1. /\ r.log # Stop /\ station' = station /\ station.log # Stop /\ station.lost \in Nat
        BY <1>a, <1>g, <2>3
      <4>2. /\ schedule.log # Stop /\ EffectivePeriod(schedule) <= Period(station.log)
            /\ Sending => EffectivePeriod(schedule) <= Period(worker.log)
        BY <1>b, <3>6, <4>1 DEF HoldInv, ToldInv
      <4>3. EffectivePeriod(r) <= EffectivePeriod(schedule) /\ EffectivePeriod(r) \in Nat
        BY <1>k, <2>6, <3>2, <3>3, <4>2, PeriodRange
      <4>4. /\ Period(station.log) \in Nat /\ (Sending => Period(worker.log) \in Nat)
        BY <1>g, <1>w, <4>1, PeriodRange
      <4> QED BY <1>k, <1>r, <2>1, <3>1, <3>2, <4>1, <4>2, <4>3, <4>4, PeriodRange DEF ToldInv
    <3>7. ASSUME MaxLost <= 2 PROVE TimeInv'
      BY <1>b, <2>1, <2>3, <2>6, <3>7 DEF HoldInv, TimeInv, Allowed
    <3>8. SentInv'
      BY <1>b, <1>r, <1>w, <2>1, <2>6, <3>1 DEF SentInv
    <3> QED BY <2>4, <3>4, <3>5, <3>6, <3>7, <3>8 DEF AnnounceInv, HoldInv
  <2> QED BY <2>2, <2>5, <2>6
<1>7. CASE Reset
  <2>1. /\ schedule' = Zero(schedule.revision + 1, schedule.serial) /\ Retire /\ told' = 0
        /\ published' = FALSE /\ edits' = edits + 1
        /\ UNCHANGED <<message, mailbox, known, sent, station, prompt>>
    BY <1>7 DEF Reset, Edit
  <2>2. /\ schedule' \in Schedules /\ schedule'.log = InitialLog /\ schedule'.slow = 0
        /\ schedule'.oldPeriod = 0 /\ schedule'.pending = 0 /\ ~schedule'.active
        /\ schedule'.information = 0
    BY <1>a, <1>f, <2>1, PeriodRange DEF Zero, Schedules
  <2>3. EffectivePeriod(schedule') = Period(InitialLog)
    BY <2>2 DEF EffectivePeriod
  <2>4. Shapes'
    BY <1>7, <1>b, <1>r, <1>x, <2>1, <2>2 DEF Shapes, Reset
  <2>5. ClaimInv'
    BY <1>r, <2>1, <2>2 DEF ClaimInv
  <2>6. ASSUME MaxLost <= 2 PROVE ToldInv'
    BY <1>g, <1>r, <1>w, <2>1, <2>2, <2>3, PeriodRange DEF ToldInv
  <2>7. ASSUME MaxLost <= 2 PROVE TimeInv'
    BY <1>b, <2>1, <2>2, <2>7 DEF HoldInv, TimeInv, Allowed
  <2>8. CaughtUp'
    BY <1>b, <1>r, <1>w, <2>1 DEF CaughtUp
  <2>9. SentInv' /\ RetiredInv'
    BY <1>b, <1>r, <1>s, <1>w, <2>1, <2>2 DEF SentInv, RetiredInv, Holding
  <2> QED BY <2>4, <2>5, <2>6, <2>7, <2>8, <2>9 DEF AnnounceInv, HoldInv
<1>8. CASE NewMessage
  <2>1. /\ message' \in Messages /\ sent' \in [content : Nat, retired : 0..1] /\ sent'.content = sent.content
        /\ \/ message'.source = message.source /\ sent' = sent
           \/ sent'.retired = 0
    <3>1. CASE message' = [message EXCEPT !.content = @ + 1] /\ sent' = sent
      BY <1>s, <3>1 DEF Messages
    <3>2. CASE /\ message' = [content |-> message.content + 1, source |-> message.source + 1]
               /\ sent' = [sent EXCEPT !.retired = 0]
      BY <1>s, <3>2 DEF Messages
    <3> QED BY <1>8, <3>1, <3>2 DEF NewMessage
  <2>2. /\ published' = FALSE /\ edits' = edits + 1
        /\ UNCHANGED <<schedule, mailbox, worker, known, station, told, prompt>>
    BY <1>8 DEF NewMessage, Edit
  <2>3. Shapes'
    BY <1>8, <1>b, <1>x, <2>1, <2>2 DEF Shapes, NewMessage
  <2>4. ClaimInv' /\ HoldInv'
    BY <1>b, <2>2 DEF ClaimInv, HoldInv, ToldInv, TimeInv, Allowed, Sending
  <2>5. CaughtUp' /\ SentInv'
    BY <1>b, <2>1, <2>2 DEF CaughtUp, SentInv, Sending, Holding
  <2>6. RetiredInv'
    BY <1>b, <2>1, <2>2 DEF RetiredInv, Sending
  <2> QED BY <2>3, <2>4, <2>5, <2>6 DEF AnnounceInv
<1>9. CASE Tick
  <2> DEFINE age == Older(schedule.age, Second)
             next == IF schedule.next > -Slowest THEN schedule.next - 1 ELSE schedule.next
  <2>1. /\ schedule' = [schedule EXCEPT !.age = age, !.next = next]
        /\ published' = FALSE /\ UNCHANGED <<message, known, sent, told, edits, prompt>>
        /\ prompt => published /\ ~mailbox.full /\ ~Sending /\ ~Holding
    BY <1>9 DEF Tick, Sending, Holding, Slowest
  <2>2. /\ age \in 0..Second /\ (age < Second => age = schedule.age + 1)
        /\ next \in -Slowest..Slowest /\ next <= schedule.next
        /\ schedule.next > 0 => next = schedule.next - 1
    BY <1>f, PeriodRange DEF Older
  <2> HIDE DEF age, next
  <2>3. /\ schedule' \in Schedules /\ schedule'.age = age /\ schedule'.next = next
        /\ schedule'.revision = schedule.revision /\ schedule'.log = schedule.log
        /\ schedule'.slow = schedule.slow /\ schedule'.oldPeriod = schedule.oldPeriod
        /\ schedule'.pending = schedule.pending /\ schedule'.pendingLog = schedule.pendingLog
        /\ schedule'.active = schedule.active /\ schedule'.initialized = schedule.initialized
        /\ schedule'.information = schedule.information
    BY <1>f, <2>1, <2>2 DEF Schedules
  <2>4. EffectivePeriod(schedule') = EffectivePeriod(schedule)
    BY <2>3 DEF EffectivePeriod
  <2>5. /\ mailbox' \in Items \cup {NoItem} /\ (prompt => mailbox' = mailbox)
    <3>1. CASE mailbox.full
      <4>1. Older(mailbox.age, Second) \in 0..Second
        BY <1>w, <3>1, PeriodRange DEF Items, Older
      <4> QED BY <1>9, <1>w, <2>1, <3>1, <4>1 DEF Tick, Items, Aged
    <3>2. CASE ~mailbox.full
      BY <1>9, <1>w, <3>2 DEF Tick
    <3> QED BY <3>1, <3>2
  <2>w. /\ worker' \in Checks \cup Sends \cup {Resting} /\ Sending' = Sending /\ Holding' = Holding
        /\ ~Holding => worker' = worker
        /\ Holding => worker'.pc = worker.pc /\ worker'.item.message = worker.item.message
    <3>1. CASE worker.pc = "check"
      <4> DEFINE it == worker.item
                 aged == [it EXCEPT !.age = Older(it.age, Second)]
      <4>1. Holding /\ ~Sending /\ worker \in Checks /\ it \in Items
        BY <1>w, <3>1 DEF Holding, Sending
      <4>2. worker' = [worker EXCEPT !.item = aged]
        BY <1>9, <3>1 DEF Tick, Aged
      <4> HIDE DEF it
      <4>3. Older(it.age, Second) \in 0..Second
        BY <4>1, PeriodRange DEF Items, Older
      <4>4. aged \in Items /\ aged.message = it.message
        BY <4>1, <4>3 DEF Items
      <4> HIDE DEF aged
      <4>5. worker' \in Checks /\ worker'.pc = worker.pc /\ worker'.item = aged
        BY <4>1, <4>2, <4>4 DEF Checks
      <4> QED BY <3>1, <4>1, <4>4, <4>5 DEF Holding, Sending, it
    <3>2. CASE worker.pc # "check"
      BY <1>9, <1>b, <3>2 DEF Tick, Shapes, Holding, Sending
    <3> QED BY <3>1, <3>2
  <2>6. /\ station' \in Stations /\ station'.log = station.log /\ station'.lost = station.lost
        /\ station'.age <= station.age + 1
    <3>1. /\ (IF station.log = Stop THEN 0 ELSE Older(station.age, Longest)) \in 0..Longest
          /\ (IF station.log = Stop THEN 0 ELSE Older(station.age, Longest)) <= station.age + 1
      BY <1>a, <1>g DEF Older
    <3>2. station' = [station EXCEPT !.age = IF station.log = Stop THEN 0 ELSE Older(station.age, Longest)]
      BY <1>9 DEF Tick
    <3> QED BY <1>g, <3>1, <3>2 DEF Stations
  <2>7. Shapes'
    BY <1>b, <2>1, <2>3, <2>5, <2>6, <2>w DEF Shapes
  <2>8. ClaimInv'
    BY <1>b, <1>f, <1>k, <1>w, <2>1, <2>2, <2>3, <2>4, <2>w DEF ClaimInv
  <2>9. ASSUME MaxLost <= 2 PROVE ToldInv'
    BY <1>b, <1>w, <2>1, <2>3, <2>4, <2>6, <2>9, <2>w DEF HoldInv, ToldInv
  <2>10. ASSUME MaxLost <= 2 PROVE TimeInv'
    <3> SUFFICES ASSUME prompt, station.log # Stop PROVE TimeInv'
      BY <2>1, <2>6 DEF TimeInv
    <3>1. /\ ~Sending /\ schedule.log # Stop /\ schedule.active
          /\ schedule.next > 0 \/ (schedule.pending # 0 /\ schedule.age < Second)
          /\ station.age <= Allowed
          /\ schedule.next > 0 => station.age + schedule.next <= Allowed
          /\ schedule.pending # 0 /\ schedule.age < Second =>
               station.age + (Second - schedule.age) <= Allowed
      <4>1. ToldInv /\ TimeInv /\ published /\ ~mailbox.full /\ ~Sending /\ ~Holding
        BY <1>b, <2>1, <2>10 DEF HoldInv
      <4>2. schedule.log # Stop
        BY <4>1 DEF ToldInv
      <4>3. Settled
        BY <1>b, <4>1, <4>2 DEF CaughtUp
      <4> QED BY <4>1, <4>2, <4>3 DEF TimeInv, Settled
    <3>2. Allowed' = Allowed /\ Allowed \in Nat
      <4>1. Longer(station.log) \in Nat
        BY <1>g, <1>l
      <4> QED BY <2>6, <4>1 DEF Allowed
    <3>3. station'.age \in Nat /\ station.age \in Nat
      BY <1>a, <1>g, <2>6 DEF Stations
    <3>4. station'.age <= Allowed
      <4>1. schedule.next \in Int /\ schedule.age \in Nat /\ Second \in Nat
        BY <1>f, PeriodRange
      <4>2. station.age + 1 <= Allowed
        BY <3>1, <3>2, <3>3, <4>1
      <4> QED BY <2>6, <3>2, <3>3, <4>2
    <3>5. next > 0 => station'.age + next <= Allowed
      BY <1>f, <2>2, <2>6, <3>1, <3>2, <3>3
    <3>6. schedule.pending # 0 /\ age < Second => station'.age + (Second - age) <= Allowed
      <4> SUFFICES ASSUME schedule.pending # 0, age < Second
                   PROVE  station'.age + (Second - age) <= Allowed
        OBVIOUS
      <4>1. age = schedule.age + 1 /\ schedule.age \in Nat /\ Second \in Nat
        BY <1>f, <2>2, PeriodRange
      <4>2. station.age + (Second - schedule.age) <= Allowed
        BY <3>1, <4>1
      <4> QED BY <2>6, <3>2, <3>3, <4>1, <4>2
    <3> QED BY <2>3, <3>2, <3>4, <3>5, <3>6 DEF TimeInv
  <2>11. CaughtUp'
    BY <1>b, <2>1, <2>5, <2>w DEF CaughtUp
  <2>12. SentInv' /\ RetiredInv'
    BY <1>b, <1>w, <2>1, <2>3, <2>w DEF SentInv, RetiredInv, Holding
  <2> QED BY <2>7, <2>8, <2>9, <2>10, <2>11, <2>12 DEF AnnounceInv, HoldInv
<1>10. CASE UNCHANGED vars
  <2>1. Shapes' /\ CaughtUp' /\ SentInv' /\ RetiredInv'
    BY <1>10, <1>b DEF vars, Shapes, CaughtUp, Settled, SentInv, RetiredInv, Sending, Holding
  <2>2. ClaimInv' /\ HoldInv'
    BY <1>10, <1>b DEF vars, ClaimInv, HoldInv, ToldInv, TimeInv, Allowed, Sending
  <2> QED BY <2>1, <2>2 DEF AnnounceInv
<1> QED BY <1>1, <1>2, <1>3, <1>4, <1>5, <1>6, <1>7, <1>8, <1>9, <1>10, <1>11, <1>12, <1>13 DEF Next

(* The invariant of the worker and its stations holds throughout.          *)
LEMMA AnnounceCorrect == Spec => []AnnounceInv
<1>2. Init => FollowedInv
  BY DEF Init, FollowedInv
<1>1. Init => AnnounceInv
  <2> SUFFICES ASSUME Init PROVE AnnounceInv
    OBVIOUS
  <2>a. /\ 0 \in 0..SerialMax /\ 0 \in 0..Second /\ 0 \in 0..3 /\ 0 \in 0..Longest /\ 0 \in 0..MaxLost
        /\ 0 \in 0..Slowest /\ 0 \in -Slowest..Slowest
    BY AnnounceAssumption, PeriodRange DEF Longest, Slowest
  <2> USE DEF Init
  <2>1. /\ schedule \in Schedules /\ schedule.log = InitialLog /\ schedule.slow = 0
        /\ schedule.oldPeriod = 0 /\ schedule.pending = 0 /\ ~schedule.active
        /\ schedule.information = 0
    BY <2>a, PeriodRange DEF Zero, Schedules
  <2>2. station \in Stations /\ station.log = Stop
    BY <2>a DEF Stations
  <2>3. ~Sending /\ ~Holding /\ ~published /\ known.revision = 0
    BY DEF Sending, Holding, Resting
  <2>4. mailbox = NoItem /\ ~mailbox.full
    BY DEF NoItem
  <2>5. message \in Messages
    BY DEF Messages
  <2>6. Shapes
    <3>1. 0 \in 0..1
      OBVIOUS
    <3> QED BY <2>a, <2>1, <2>2, <2>5, <3>1 DEF Shapes
  <2>7. SentInv /\ RetiredInv
    BY <2>1, <2>3 DEF SentInv, RetiredInv, Holding
  <2> QED BY <2>1, <2>2, <2>3, <2>4, <2>6, <2>7 DEF AnnounceInv, ClaimInv, CaughtUp, HoldInv, ToldInv, TimeInv
<1> QED BY <1>1, <1>2, AnnounceStep, FollowedStep, PTL DEF Spec

(* Whatever intervals are requested, the schedule keeps to its ranges, and *)
(* its pace falls only once three announcements of the new interval were   *)
(* accepted (ptp_announce_request, ptp_announce_finish).                   *)
THEOREM PaceCorrect == Spec => []PaceInv
<1>1. AnnounceInv => PaceInv
  <2> SUFFICES ASSUME AnnounceInv PROVE PaceInv
    OBVIOUS
  <2>1. TypeOK
    <3>1. Shapes /\ Period(SlowestLog) = Slowest
      BY DEF AnnounceInv, Slowest
    <3>2. /\ schedule.log \in {Stop} \cup InitialLog..SlowestLog
          /\ schedule.serial \in 0..SerialMax /\ schedule.pending \in 0..SerialMax
          /\ schedule.slow \in 0..3 /\ schedule.age \in 0..Second
          /\ schedule.next \in -Slowest..Slowest
      BY <3>1 DEF Shapes, Schedules, Logs
    <3>3. worker.pc \in {"idle", "check", "begin", "send"}
      BY <3>1 DEF Shapes, Checks, Sends, Resting
    <3>4. station.age \in 0..Longest /\ station.lost \in 0..MaxLost
      BY <3>1 DEF Shapes, Stations
    <3> QED BY <3>1, <3>2, <3>3, <3>4 DEF TypeOK, Shapes
  <2>2. ToldBeforeSlower
    <3>1. schedule.slow \in 0..3 /\ schedule.oldPeriod \in 0..Slowest /\ told \in 0..3
      BY DEF AnnounceInv, Shapes, Schedules
    <3> QED BY <3>1, PeriodRange DEF AnnounceInv, ClaimInv, ToldBeforeSlower, EffectivePeriod
  <2> QED BY <2>1, <2>2 DEF PaceInv
<1> QED BY <1>1, AnnounceCorrect, PTL

(* With the daemon and the worker keeping up and losses in a row that fit, *)
(* no order of requests, rebindings, lost completions and changes of the   *)
(* message lets three of the intervals a station was last told pass        *)
(* without an announcement (slowdown_remaining, old_period_us).            *)
THEOREM StationCorrect == LossesFit => (Spec => []StationHoldsOn)
<1> SUFFICES ASSUME LossesFit PROVE Spec => []StationHoldsOn
  OBVIOUS
<1>1. AnnounceInv => StationHoldsOn
  <2> SUFFICES ASSUME AnnounceInv, prompt, station.log # Stop
               PROVE  station.age <= 3 * Period(station.log)
    BY DEF StationHoldsOn
  <2>a. /\ Second \in Nat /\ MaxLost \in Nat /\ MaxLost <= 2
        /\ (MaxLost + 1) * Second <= 3 * Period(InitialLog)
    BY AnnounceAssumption DEF LossesFit
  <2>1. station.age <= Allowed
    BY <2>a DEF AnnounceInv, HoldInv, TimeInv
  <2>2. station.log \in Logs /\ station.age \in 0..Longest /\ station.lost \in 0..MaxLost
    BY DEF AnnounceInv, Shapes, Stations
  <2>3. /\ Period(station.log) \in Nat /\ station.age \in Nat
        /\ Period(InitialLog) \in Nat /\ Period(InitialLog) <= Period(station.log)
    BY <2>2, PeriodRange, AnnounceAssumption DEF Longest, Slowest
  <2>4. CASE Second <= Period(station.log)
    <3>1. Longer(station.log) = Period(station.log)
      BY <2>a, <2>3, <2>4 DEF Longer
    <3> QED BY <2>1, <2>3, <3>1 DEF Allowed
  <2>5. CASE Period(station.log) < Second
    <3>1. Longer(station.log) = Second
      BY <2>5 DEF Longer
    <3>2. MaxLost \in {0, 1, 2} /\ station.lost \in {0, 1, 2} /\ station.lost <= MaxLost
      BY <2>a, <2>2
    <3>3. Allowed <= (MaxLost + 1) * Second
      <4>1. Allowed = IF station.lost = 0 THEN Second ELSE IF station.lost = 1 THEN 2 * Second ELSE 3 * Second
        BY <3>1 DEF Allowed
      <4> HIDE DEF Allowed
      <4>2. CASE MaxLost = 0
        BY <2>a, <3>2, <4>1, <4>2
      <4>3. CASE MaxLost = 1
        BY <2>a, <3>2, <4>1, <4>3
      <4>4. CASE MaxLost = 2
        BY <2>a, <3>2, <4>1, <4>4
      <4> QED BY <3>2, <4>2, <4>3, <4>4
    <3>4. Allowed \in Nat /\ (MaxLost + 1) * Second \in Nat
      BY <2>a, <3>1 DEF Allowed
    <3> QED BY <2>1, <2>3, <2>a, <3>3, <3>4
  <2> QED BY <2>a, <2>3, <2>4, <2>5
<1> QED BY <1>1, AnnounceCorrect, PTL

(* Time does not pass a daemon and a worker that keep up, with the port    *)
(* published, while the last frame handed to the radio carried an older    *)
(* message (information_revision in ptp_announce_begin).                   *)
THEOREM InformationCorrect == Spec => InformationIsSent
<1>1. AnnounceInv /\ [Next]_vars =>
        [prompt /\ Tick /\ schedule.log # Stop => sent.content = message.content]_vars
  <2> SUFFICES ASSUME AnnounceInv, prompt, Tick, schedule.log # Stop PROVE sent.content = message.content
    OBVIOUS
  <2>1. published /\ ~mailbox.full /\ ~Holding /\ ~Sending
    BY DEF Tick, Holding, Sending
  <2>2. known.content = message.content /\ Settled
    BY <2>1 DEF AnnounceInv, CaughtUp
  <2> QED BY <2>1, <2>2 DEF AnnounceInv, SentInv, Settled
<1> QED BY <1>1, AnnounceCorrect, PTL DEF Spec, InformationIsSent

(* However far the worker is behind, one frame of a retired source goes    *)
(* out at most (source_generation in ap_send_announce_now).                *)
THEOREM RetiredCorrect == Spec => []OneFrameOfRetiredSource
<1>1. AnnounceInv => OneFrameOfRetiredSource
  <2> SUFFICES ASSUME AnnounceInv PROVE OneFrameOfRetiredSource
    OBVIOUS
  <2>1. sent.retired \in 0..1
    BY DEF AnnounceInv, Shapes
  <2> QED BY <2>1 DEF OneFrameOfRetiredSource
<1> QED BY <1>1, AnnounceCorrect, PTL
=============================================================================
