------------------------- MODULE PeerRegistryProofs -------------------------
(* Proofs about PeerRegistry, for every value of its constants.  The last  *)
(* part proves that the ring its frames come from (InjectedFrames)         *)
(* implements FrameChannel, for any depth, ports and callbacks.            *)
EXTENDS PeerRegistry, Integers, SequenceTheorems, FiniteSetTheorems,
        WellFoundedInduction, TLAPS

Tables ==
  [generation : Nat, radioBoot : Nat, radioGeneration : Nat, reconciled : Nat,
   unreported : BOOLEAN, entries : [Slots -> {NoPeer} \cup Entry]]
Radios == [boot : Nat \ {0}, generation : Nat, stations : Seq(Macs), up : BOOLEAN]
RingFrames == [mac : Macs, generation : Nat, association : Nat]
Receptions == [frame : RingFrames, association : Nat, table : Nat, early : BOOLEAN]
Copies == [mac : Macs, association : Nat, port : Nat]
Items == [generation : Nat, peers : SUBSET Copies]
Workers == [generation : Nat, peers : SUBSET Copies, entry : {NoPeer} \cup Copies,
            at : {"check", "begin", "send"}, table : Nat]

(* The records behind the ranges of TypeOK.                                *)
Shapes ==
  /\ peers \in Tables /\ running \in BOOLEAN /\ link \in BOOLEAN /\ linkGeneration \in Nat
  /\ owed \in [loop : {"none", "bump", "up", "down"}, refresh : BOOLEAN]
  /\ listing \in [pc : {"read", "list", "join", "done"}, attempt : 0..2, generation : Nat,
                  stations : Seq(Macs)]
  /\ host \in [anyReport : BOOLEAN, boot : Nat, warned : BOOLEAN]
  /\ radio \in Radios /\ events \in Seq(Event)
  /\ ring \in Seq(RingFrames) /\ rx \in {Idle} \cup Receptions
  /\ item \in {NoItem} \cup Items /\ worker \in {Idle} \cup Workers

(* Each station has one slot, and each association one number, given out   *)
(* when the registry's generation reached it.                              *)
Distinct(t) ==
  /\ \A s \in Occupied(t) : t.entries[s].association \in 1..t.generation
  /\ \A r, s \in Occupied(t) :
       r # s => /\ t.entries[r].mac # t.entries[s].mac
                /\ t.entries[r].association # t.entries[s].association

(* Reports tell of present or earlier states of the radio.                 *)
Truthful(e, r) ==
  e.kind = "report" =>
    /\ e.boot <= r.boot
    /\ e.boot = r.boot =>
         e.generation <= r.generation /\ (e.generation = r.generation => e.macs = r.stations)

(* The table of the radio's present state has its stations, unless an      *)
(* event came in since.                                                    *)
RadioInv ==
  /\ peers.reconciled <= peers.generation /\ peers.radioBoot <= radio.boot
  /\ peers.radioBoot = radio.boot =>
       /\ peers.radioGeneration <= radio.generation
       /\ peers.radioGeneration = radio.generation /\ peers.reconciled = peers.generation =>
            MacsOf(peers) = ToSet(radio.stations)
  /\ \A i \in 1..Len(events) : Truthful(events[i], radio)

(* What the link is when the loop has left the handler.                    *)
LinkNow == IF owed.loop = "up" THEN TRUE ELSE IF owed.loop = "down" THEN FALSE ELSE link

(* Starts and stops of the access point alternate, from the link's state   *)
(* to the radio's, and a stopped one has no stations.                      *)
Switch(e, before, after) ==
  /\ e.kind = "start" => ~before /\ after
  /\ e.kind = "stop" => before /\ ~after
  /\ e.kind \notin {"start", "stop"} => after = before
Alternates(q, first, last) ==
  \E up \in [0..Len(q) -> BOOLEAN] :
    /\ up[0] = first /\ up[Len(q)] = last
    /\ \A i \in 1..Len(q) : Switch(q[i], up[i - 1], up[i])
LinkInv ==
  /\ owed.loop = "down" => link
  /\ ~radio.up => radio.stations = <<>>
  /\ Alternates(events, LinkNow, radio.up)

(* A frame of the sender's association in the table, or of none.           *)
Own(t, f) == f.association = 0 \/ AssociationOf(t, f.mac) = f.association

(* A frame of the present link generation is its sender's own unless the   *)
(* loop owes a new generation, and so is one taken while nothing was owed  *)
(* as long as the table stands.                                            *)
RingInv ==
  \A i \in 1..Len(ring) :
    /\ ring[i].generation <= linkGeneration
    /\ ring[i].generation = linkGeneration /\ owed.loop \in {"none", "up"} => Own(peers, ring[i])
TakenInv ==
  rx # Idle =>
    /\ rx.table <= peers.generation
    /\ ~rx.early /\ rx.association = 0 /\ rx.table = peers.generation => Own(peers, rx.frame)
    /\ ~rx.early /\ rx.association # 0 => rx.frame.association \in {0, rx.association}
FrameInv == RingInv /\ TakenInv /\ LateFrameOnlyInWindow

(* A copy of an entry that is still there has the station and the port of  *)
(* its slot.                                                               *)
Tracks(t, e) ==
  /\ e.association <= t.generation
  /\ \A s \in Occupied(t) : t.entries[s].association = e.association =>
       e.mac = t.entries[s].mac /\ e.port = LogicalPort(PhysicalPort, s)
ItemInv == item # NoItem => \A e \in item.peers : Tracks(peers, e)
WorkerInv ==
  worker # Idle =>
    /\ \A e \in worker.peers : Tracks(peers, e)
    /\ worker.at # "check" => worker.entry \in Copies /\ Tracks(peers, worker.entry)

(* A claimed station is the registry's until the registry changes.         *)
ClaimInv ==
  /\ worker # Idle => worker.table <= peers.generation
  /\ SentToPresentStation

TableInv ==
  /\ Shapes /\ Distinct(peers) /\ RadioInv /\ LinkInv /\ FrameInv
  /\ ItemInv /\ WorkerInv /\ ClaimInv

-----------------------------------------------------------------------------
(* Lists are gone through by induction over the position.                  *)

Below == {pair \in Nat \X Nat : pair[1] < pair[2]}

(* A set of natural numbers has a least one.                               *)
LEMMA Least ==
  ASSUME NEW T, T \subseteq Nat, T # {}
  PROVE  \E x \in T : \A y \in T : x <= y
<1>1. IsWellFoundedOn(Below, Nat)
  BY NatLessThanWellFounded DEF OpToRel, Below
<1>2. PICK x \in T : \A y \in T : ~ (<<y, x>> \in Below)
  BY <1>1, WFMin
<1>3. \A y \in T : ~ (y < x)
  BY <1>2 DEF Below
<1> QED BY <1>3

(* A set with 0 that leads from every number below n to the next has them  *)
(* all.                                                                    *)
LEMMA Upward ==
  ASSUME NEW T, NEW n \in Nat, 0 \in T, \A i \in 0..n - 1 : i \in T => i + 1 \in T
  PROVE  \A i \in 0..n : i \in T
<1> DEFINE rest == (0..n) \ T
<1> SUFFICES ASSUME rest # {} PROVE FALSE
  OBVIOUS
<1>1. rest \subseteq Nat
  OBVIOUS
<1>2. PICK x \in rest : \A y \in rest : x <= y
  <2> HIDE DEF rest
  <2> QED BY <1>1, Least
<1>3. x # 0 /\ x - 1 \in 0..n - 1 /\ x - 1 \notin rest
  BY <1>2
<1> QED BY <1>2, <1>3

-----------------------------------------------------------------------------
(* The table.                                                              *)

(* There are slots, numbered from 0, and ports, numbered from 1.           *)
LEMMA Sizes ==
  /\ SlotCount \in Nat \ {0} /\ Slots \subseteq Nat /\ 0 \in Slots
  /\ IsFiniteSet(Slots) /\ Cardinality(Slots) = SlotCount
  /\ PhysicalCount \in Nat /\ PhysicalPort \in 1..PhysicalCount
<1>1. SlotCount \in Nat \ {0} /\ PhysicalCount \in Nat /\ PhysicalPort \in 1..PhysicalCount
  BY RegistryAssumption
<1>2. IsFiniteSet(Slots) /\ Cardinality(Slots) = SlotCount
  BY <1>1, FS_Interval DEF Slots
<1> QED BY <1>1, <1>2 DEF Slots

(* What stands in an occupied slot.                                        *)
LEMMA Entries ==
  ASSUME NEW t \in Tables
  PROVE  /\ t.generation \in Nat
         /\ \A s \in Occupied(t) :
              /\ s \in Slots /\ t.entries[s] \in Entry
              /\ t.entries[s].mac \in Macs /\ t.entries[s].association \in Nat
         /\ \A s \in Slots : s \in Occupied(t) <=> t.entries[s] # NoPeer
BY DEF Tables, Occupied, Entry

(* A station is found in the one slot that holds it.                       *)
LEMMA FindOne ==
  ASSUME NEW t, Distinct(t), NEW s \in Occupied(t)
  PROVE  /\ Find(t, t.entries[s].mac) = {s}
         /\ AssociationOf(t, t.entries[s].mac) = t.entries[s].association
<1> DEFINE m == t.entries[s].mac
<1>1. Find(t, m) = {s}
  BY DEF Find, Distinct
<1>2. Find(t, m) # {} /\ (CHOOSE r \in Find(t, m) : TRUE) = s
  BY <1>1
<1> QED BY <1>1, <1>2 DEF AssociationOf

(* A station is in the table exactly when it is found there.               *)
LEMMA FindNone ==
  ASSUME NEW t, NEW m
  PROVE  /\ m \in MacsOf(t) <=> Find(t, m) # {}
         /\ Find(t, m) = {} => AssociationOf(t, m) = 0
         /\ \A s : s \in Find(t, m) <=> s \in Occupied(t) /\ t.entries[s].mac = m
BY DEF MacsOf, Find, AssociationOf

(* The lowest of some slots is one of them.                                *)
LEMMA LowestSlot ==
  ASSUME NEW S, S \subseteq Slots, S # {}
  PROVE  Min(S) \in S
<1>1. S \subseteq Nat
  BY Sizes
<1>2. \E x \in S : \A y \in S : x <= y
  BY <1>1, Least
<1> QED BY <1>2 DEF Min

(* A join takes one slot for a new association, or the table is full.      *)
LEMMA JoinEffect ==
  ASSUME NEW t \in Tables, NEW m \in Macs
  PROVE  \/ JoinSlot(t, m) = {} /\ Join(t, m) = t
         \/ \E s \in JoinSlot(t, m) :
              /\ s \in Slots
              /\ Join(t, m) \in Tables
              /\ Join(t, m).generation = t.generation + 1
              /\ Join(t, m).entries[s] = [mac |-> m, association |-> t.generation + 1, heard |-> NoFrame]
              /\ Join(t, m).entries[s] # NoPeer
              /\ \A r \in Slots \ {s} : Join(t, m).entries[r] = t.entries[r]
              /\ Join(t, m).radioBoot = t.radioBoot /\ Join(t, m).radioGeneration = t.radioGeneration
              /\ Join(t, m).reconciled = t.reconciled /\ Join(t, m).unreported = t.unreported
<1>1. CASE JoinSlot(t, m) = {}
  BY <1>1 DEF Join
<1>2. CASE JoinSlot(t, m) # {}
  <2> DEFINE s == Min(JoinSlot(t, m))
             e == [mac |-> m, association |-> t.generation + 1, heard |-> NoFrame]
  <2>1. JoinSlot(t, m) \subseteq Slots
    BY DEF JoinSlot, Find, Occupied
  <2>2. s \in JoinSlot(t, m) /\ s \in Slots
    BY <1>2, <2>1, LowestSlot
  <2>3. t.generation + 1 \in Nat /\ e \in Entry
    BY DEF Tables, Entry
  <2>4. e # NoPeer
    BY <2>3, PeerAssumption
  <2>5. Join(t, m) = [t EXCEPT !.generation = t.generation + 1, !.entries[s] = e]
    BY <1>2 DEF Join
  <2> HIDE DEF s, e
  <2>6. /\ Join(t, m).generation = t.generation + 1
        /\ Join(t, m).entries = [t.entries EXCEPT ![s] = e]
        /\ Join(t, m).radioBoot = t.radioBoot /\ Join(t, m).radioGeneration = t.radioGeneration
        /\ Join(t, m).reconciled = t.reconciled /\ Join(t, m).unreported = t.unreported
    BY <2>5 DEF Tables
  <2>7. [t.entries EXCEPT ![s] = e] \in [Slots -> {NoPeer} \cup Entry]
    BY <2>3 DEF Tables
  <2>8. Join(t, m) \in Tables
    BY <2>3, <2>5, <2>6, <2>7 DEF Tables
  <2> QED BY <2>2, <2>4, <2>6, <2>8 DEF e, Tables
<1> QED BY <1>1, <1>2

(* No association comes back: an entry is the old one or newer than the    *)
(* old table, and a table of the same generation has the same entries.     *)
Remains(t, u, s) ==
  /\ s \in Occupied(t)
  /\ u.entries[s].mac = t.entries[s].mac /\ u.entries[s].association = t.entries[s].association
Succeeds(t, u) ==
  /\ u.generation >= t.generation
  /\ \A s \in Occupied(u) : Remains(t, u, s) \/ u.entries[s].association > t.generation
  /\ u.generation = t.generation =>
       Occupied(u) = Occupied(t) /\ \A s \in Occupied(u) : Remains(t, u, s)

(* A new association has heard nothing.                                    *)
Silent(t, u) ==
  \A s \in Occupied(u) :
    u.entries[s].heard = NoFrame \/ (s \in Occupied(t) /\ u.entries[s] = t.entries[s])

SameReport(t, u) ==
  /\ u.radioBoot = t.radioBoot /\ u.radioGeneration = t.radioGeneration
  /\ u.reconciled = t.reconciled /\ u.unreported = t.unreported

(* What every operation on the table keeps.                                *)
Follows(t, u) == u \in Tables /\ Distinct(u) /\ Succeeds(t, u) /\ Silent(t, u)

(* The stations of macs may have joined, and all others kept their slots.  *)
Grows(t, u, macs) ==
  /\ Follows(t, u) /\ SameReport(t, u)
  /\ \A m : Find(t, m) # {} => Find(u, m) = Find(t, m)
  /\ MacsOf(u) \subseteq MacsOf(t) \cup macs

(* Every entry is still the same.                                          *)
Stands(t, u) == \A s \in Occupied(t) : s \in Occupied(u) /\ u.entries[s] = t.entries[s]

(* A table that nothing happened to.                                       *)
LEMMA GrowsSame ==
  ASSUME NEW t \in Tables, Distinct(t), NEW macs
  PROVE  Grows(t, t, macs) /\ Stands(t, t)
<1>1. t.generation \in Nat
  BY DEF Tables
<1>2. Succeeds(t, t) /\ Silent(t, t) /\ SameReport(t, t)
  BY <1>1 DEF Succeeds, Remains, Silent, SameReport
<1> QED BY <1>2 DEF Grows, Stands, Follows

(* Two operations one after the other.                                     *)
LEMMA FollowsTwice ==
  ASSUME NEW t \in Tables, NEW u, NEW v, Follows(t, u), Follows(u, v)
  PROVE  Follows(t, v)
<1>1. /\ t.generation \in Nat /\ u.generation \in Nat /\ v.generation \in Nat
      /\ \A s \in Occupied(v) : v.entries[s].association \in Nat
  BY Entries DEF Follows
<1>2. Succeeds(t, v)
  <2>1. v.generation >= t.generation
    BY <1>1 DEF Succeeds, Follows
  <2>2. ASSUME NEW s \in Occupied(v)
        PROVE  Remains(t, v, s) \/ v.entries[s].association > t.generation
    BY <1>1 DEF Succeeds, Remains, Follows
  <2>3. ASSUME v.generation = t.generation
        PROVE  Occupied(v) = Occupied(t) /\ \A s \in Occupied(v) : Remains(t, v, s)
    <3>1. u.generation = t.generation /\ v.generation = u.generation
      BY <1>1, <2>3 DEF Succeeds, Follows
    <3> QED BY <3>1 DEF Succeeds, Remains, Follows
  <2> QED BY <2>1, <2>2, <2>3 DEF Succeeds
<1>3. Silent(t, v)
  <2>1. Silent(t, u) /\ Silent(u, v)
    BY DEF Follows
  <2>2. ASSUME NEW s \in Occupied(v), v.entries[s].heard # NoFrame
        PROVE  s \in Occupied(t) /\ v.entries[s] = t.entries[s]
    <3>1. s \in Occupied(u) /\ v.entries[s] = u.entries[s]
      BY <2>1, <2>2 DEF Silent
    <3>2. u.entries[s].heard # NoFrame
      BY <2>2, <3>1
    <3> QED BY <2>1, <3>1, <3>2 DEF Silent
  <2> QED BY <2>2 DEF Silent
<1> QED BY <1>2, <1>3 DEF Follows

(* Two joins one after the other.                                          *)
LEMMA GrowsTwice ==
  ASSUME NEW t \in Tables, NEW u, NEW v, NEW A, NEW B, Grows(t, u, A), Grows(u, v, B)
  PROVE  Grows(t, v, A \cup B)
<1>1. Follows(t, v)
  BY FollowsTwice DEF Grows
<1>2. SameReport(t, v)
  BY DEF SameReport, Grows
<1>3. \A m : Find(t, m) # {} => Find(v, m) = Find(t, m)
  BY DEF Grows
<1> QED BY <1>1, <1>2, <1>3 DEF Grows

(* A station joins in its own slot or in a free one (ptp_wifi_peers_join). *)
LEMMA JoinGrows ==
  ASSUME NEW t \in Tables, Distinct(t), NEW m \in Macs
  PROVE  /\ Grows(t, Join(t, m), {m})
         /\ JoinSlot(t, m) # {} => m \in MacsOf(Join(t, m))
         /\ Find(t, m) = {} => Stands(t, Join(t, m))
<1> DEFINE u == Join(t, m)
<1>1. CASE JoinSlot(t, m) = {}
  BY <1>1, GrowsSame DEF Join
<1>2. CASE JoinSlot(t, m) # {}
  <2>1. PICK s \in JoinSlot(t, m) :
          /\ s \in Slots /\ u \in Tables /\ u.generation = t.generation + 1
          /\ u.entries[s] = [mac |-> m, association |-> t.generation + 1, heard |-> NoFrame]
          /\ u.entries[s] # NoPeer
          /\ \A r \in Slots \ {s} : u.entries[r] = t.entries[r]
          /\ SameReport(t, u)
    BY <1>2, JoinEffect DEF SameReport
  <2> HIDE DEF u
  <2>2. t.generation \in Nat /\ \A r \in Occupied(t) : t.entries[r].association \in 1..t.generation
    BY Entries DEF Distinct
  <2>3. /\ s \in Occupied(u) /\ u.entries[s].mac = m
        /\ u.entries[s].association = t.generation + 1 /\ u.entries[s].heard = NoFrame
    BY <2>1 DEF Occupied
  <2>4. \A r \in Occupied(u) \ {s} : r \in Occupied(t) /\ u.entries[r] = t.entries[r]
    BY <2>1 DEF Occupied
  <2>5. \A r \in Occupied(t) \ {s} : r \in Occupied(u) /\ u.entries[r] = t.entries[r]
    BY <2>1 DEF Occupied
  <2>6. \A r \in Occupied(t) : r # s => t.entries[r].mac # m
    BY <2>1 DEF JoinSlot, Find, Distinct
  <2>7. s \in Occupied(t) => t.entries[s].mac = m
    BY <2>1 DEF JoinSlot, Find
  <2>8. Distinct(u)
    BY <2>1, <2>2, <2>3, <2>4, <2>6 DEF Distinct
  <2>9. Succeeds(t, u)
    BY <2>1, <2>2, <2>3, <2>4 DEF Succeeds, Remains
  <2>10. Silent(t, u)
    <3>1. ASSUME NEW r \in Occupied(u)
          PROVE  u.entries[r].heard = NoFrame \/ (r \in Occupied(t) /\ u.entries[r] = t.entries[r])
      BY <2>3, <2>4
    <3> QED BY <3>1 DEF Silent
  <2>11. ASSUME NEW n, Find(t, n) # {}
         PROVE  Find(u, n) = Find(t, n)
    <3>1. ASSUME NEW r
          PROVE  r \in Find(u, n) <=> r \in Find(t, n)
      <4>1. CASE r # s
        BY <4>1, <2>4, <2>5 DEF Find
      <4>2. CASE r = s /\ n # m
        BY <4>2, <2>3, <2>7 DEF Find
      <4>3. CASE r = s /\ n = m
        <5>1. s \in Find(t, m)
          BY <2>1, <2>11, <4>3 DEF JoinSlot
        <5> QED BY <4>3, <5>1, <2>3 DEF Find
      <4> QED BY <4>1, <4>2, <4>3
    <3> QED BY <3>1
  <2>12. MacsOf(u) \subseteq MacsOf(t) \cup {m}
    BY <2>3, <2>4 DEF MacsOf
  <2>13. m \in MacsOf(u)
    BY <2>3 DEF MacsOf
  <2>14. ASSUME Find(t, m) = {}
         PROVE  Stands(t, u)
    BY <2>14, <2>5, <2>7 DEF Stands, Find
  <2> QED BY <2>1, <2>8, <2>9, <2>10, <2>11, <2>12, <2>13, <2>14 DEF Grows, Follows, u
<1> QED BY <1>1, <1>2

(* One station of a list joins, or is there and stays as it is.            *)
LEMMA JoinNextGrows ==
  ASSUME NEW t \in Tables, Distinct(t), NEW m \in Macs, NEW anew \in BOOLEAN
  PROVE  /\ Grows(t, JoinNext(t, m, anew), {m})
         /\ JoinSlot(t, m) # {} => m \in MacsOf(JoinNext(t, m, anew))
         /\ ~anew => Stands(t, JoinNext(t, m, anew))
<1>1. CASE anew \/ Find(t, m) = {}
  <2>1. JoinNext(t, m, anew) = Join(t, m)
    BY <1>1 DEF JoinNext
  <2> QED BY <1>1, <2>1, JoinGrows
<1>2. CASE ~anew /\ Find(t, m) # {}
  <2>1. JoinNext(t, m, anew) = t
    BY <1>2 DEF JoinNext
  <2> QED BY <1>2, <2>1, GrowsSame, FindNone
<1> QED BY <1>1, <1>2

(* The same table a generation later, some of its stations gone.           *)
Fewer(t, u) ==
  /\ u \in Tables /\ u.generation = t.generation + 1 /\ SameReport(t, u)
  /\ \A s \in Slots : u.entries[s] \in {t.entries[s], NoPeer}

(* A table with fewer stations follows the old one.                        *)
LEMMA FewerFollows ==
  ASSUME NEW t \in Tables, Distinct(t), NEW u, Fewer(t, u)
  PROVE  /\ Follows(t, u)
         /\ \A s \in Occupied(u) : s \in Occupied(t) /\ u.entries[s] = t.entries[s]
<1>1. t.generation \in Nat /\ \A r \in Occupied(t) : t.entries[r].association \in 1..t.generation
  BY Entries DEF Distinct
<1>2. \A s \in Occupied(u) : s \in Occupied(t) /\ u.entries[s] = t.entries[s]
  BY DEF Fewer, Occupied
<1>3. u.generation = t.generation + 1 /\ u \in Tables
  BY DEF Fewer
<1>4. Distinct(u)
  BY <1>1, <1>2, <1>3 DEF Distinct
<1>5. Succeeds(t, u)
  BY <1>1, <1>2, <1>3 DEF Succeeds, Remains
<1>6. Silent(t, u)
  BY <1>2 DEF Silent
<1> QED BY <1>2, <1>3, <1>4, <1>5, <1>6 DEF Follows

(* A table whose generation and entries alone are new.                     *)
Refilled(t, g, f) == [t EXCEPT !.generation = g, !.entries = f]

(* Refilling a table leaves its report alone.                              *)
LEMMA NewEntries ==
  ASSUME NEW t \in Tables, NEW g \in Nat, NEW f \in [Slots -> {NoPeer} \cup Entry]
  PROVE  /\ Refilled(t, g, f) \in Tables
         /\ Refilled(t, g, f).generation = g /\ Refilled(t, g, f).entries = f
         /\ SameReport(t, Refilled(t, g, f))
BY DEF Tables, SameReport, Refilled

(* Only the station that leaves is gone (ptp_wifi_peers_leave).            *)
LEMMA LeaveFollows ==
  ASSUME NEW t \in Tables, Distinct(t), NEW m
  PROVE  /\ Follows(t, Leave(t, m)) /\ SameReport(t, Leave(t, m))
         /\ \A s \in Occupied(t) :
              t.entries[s].mac # m =>
                s \in Occupied(Leave(t, m)) /\ Leave(t, m).entries[s] = t.entries[s]
         /\ \A s \in Occupied(Leave(t, m)) :
              s \in Occupied(t) /\ Leave(t, m).entries[s] = t.entries[s]
<1> DEFINE f == [s \in Slots |-> IF s \in Find(t, m) THEN NoPeer ELSE t.entries[s]]
           u == Leave(t, m)
<1>1. CASE Find(t, m) = {}
  BY <1>1, GrowsSame DEF Leave, Grows
<1>2. CASE Find(t, m) # {}
  <2>1. u = Refilled(t, t.generation + 1, f)
    BY <1>2 DEF Leave, Refilled
  <2>2. t.generation + 1 \in Nat /\ f \in [Slots -> {NoPeer} \cup Entry]
    BY DEF Tables
  <2>3. \A s \in Slots : f[s] = IF s \in Find(t, m) THEN NoPeer ELSE t.entries[s]
    OBVIOUS
  <2> HIDE DEF f, u
  <2>4. u \in Tables /\ u.generation = t.generation + 1 /\ u.entries = f /\ SameReport(t, u)
    BY <2>1, <2>2, NewEntries
  <2>5. Fewer(t, u)
    BY <2>3, <2>4 DEF Fewer
  <2>6. \A s \in Occupied(t) :
           t.entries[s].mac # m => s \in Occupied(u) /\ u.entries[s] = t.entries[s]
    BY <2>3, <2>4 DEF Find, Occupied
  <2> QED BY <2>4, <2>5, <2>6, FewerFollows DEF u
<1> QED BY <1>1, <1>2

(* ptp_wifi_peers_clear.                                                   *)
LEMMA ClearFollows ==
  ASSUME NEW t \in Tables, Distinct(t)
  PROVE  Follows(t, Clear(t)) /\ SameReport(t, Clear(t))
<1> DEFINE f == [s \in Slots |-> NoPeer]
           u == Clear(t)
<1>1. u = Refilled(t, t.generation + 1, f)
  BY DEF Clear, Refilled
<1>2. t.generation + 1 \in Nat /\ f \in [Slots -> {NoPeer} \cup Entry]
  BY DEF Tables
<1>3. \A s \in Slots : f[s] = NoPeer
  OBVIOUS
<1> HIDE DEF f, u
<1>4. u \in Tables /\ u.generation = t.generation + 1 /\ u.entries = f /\ SameReport(t, u)
  BY <1>1, <1>2, NewEntries
<1>5. Fewer(t, u)
  BY <1>3, <1>4 DEF Fewer
<1> QED BY <1>4, <1>5, FewerFollows DEF u

(* The stations kept are listed ones, in their slots.                      *)
LEMMA KeptFollows ==
  ASSUME NEW t \in Tables, Distinct(t), NEW macs \in Seq(Macs)
  PROVE  /\ Follows(t, Kept(t, macs)) /\ Kept(t, macs).generation = t.generation + 1
         /\ \A m \in ToSet(macs) : Find(Kept(t, macs), m) = Find(t, m)
         /\ MacsOf(Kept(t, macs)) \subseteq ToSet(macs)
<1> DEFINE u == Kept(t, macs)
           kept(s) == s \in Occupied(t) /\ t.entries[s].mac \in ToSet(macs)
           f == [s \in Slots |-> IF kept(s) THEN t.entries[s] ELSE NoPeer]
<1>1. u = Refilled(t, t.generation + 1, f)
  BY DEF Kept, Refilled
<1>2. t.generation + 1 \in Nat /\ f \in [Slots -> {NoPeer} \cup Entry]
  BY DEF Tables
<1>3. \A s \in Slots : f[s] = IF kept(s) THEN t.entries[s] ELSE NoPeer
  OBVIOUS
<1> HIDE DEF f, u
<1>4. u \in Tables /\ u.generation = t.generation + 1 /\ u.entries = f /\ SameReport(t, u)
  BY <1>1, <1>2, NewEntries
<1>5. Fewer(t, u)
  BY <1>3, <1>4 DEF Fewer
<1>6. \A s : s \in Occupied(u) <=> kept(s)
  BY <1>3, <1>4 DEF Occupied
<1>7. \A s \in Occupied(u) : u.entries[s] = t.entries[s]
  BY <1>5, FewerFollows
<1>8. ASSUME NEW m \in ToSet(macs)
      PROVE  Find(u, m) = Find(t, m)
  BY <1>6, <1>7, <1>8 DEF Find
<1>9. MacsOf(u) \subseteq ToSet(macs)
  BY <1>6, <1>7 DEF MacsOf
<1> QED BY <1>4, <1>5, <1>8, <1>9, FewerFollows DEF u

-----------------------------------------------------------------------------
(* The list of stations, joined one after the other.                       *)

(* f gives the table after each of the first k stations.                   *)
JoinsUpTo(f, k, t, macs, anew) ==
  f = [i \in 0..k |-> IF i = 0 THEN t ELSE JoinNext(f[i - 1], macs[i], anew)]

(* The recursion of JoinAll has a solution for every list.                 *)
LEMMA JoinsExist ==
  ASSUME NEW t, NEW macs \in Seq(Macs), NEW anew
  PROVE  \E f : JoinsUpTo(f, Len(macs), t, macs, anew)
<1> DEFINE n == Len(macs)
           Is(f, k) == JoinsUpTo(f, k, t, macs, anew)
           S == {k \in 0..n : \E f : Is(f, k)}
<1>1. n \in Nat
  OBVIOUS
<1> HIDE DEF n
<1>2. 0 \in S
  <2> DEFINE g == [i \in 0..0 |-> t]
  <2>1. Is(g, 0)
    BY DEF JoinsUpTo
  <2>2. 0 \in 0..n
    BY <1>1
  <2> HIDE DEF Is, g
  <2> QED BY <2>1, <2>2
<1>3. ASSUME NEW k \in 0..n - 1, k \in S PROVE k + 1 \in S
  <2>1. PICK f : Is(f, k)
    BY <1>3
  <2> DEFINE g == [i \in 0..k + 1 |-> IF i = k + 1 THEN JoinNext(f[k], macs[k + 1], anew) ELSE f[i]]
  <2>2. \A i \in 0..k : g[i] = f[i]
    OBVIOUS
  <2>3. g[k + 1] = JoinNext(f[k], macs[k + 1], anew)
    OBVIOUS
  <2>4. g = [i \in 0..k + 1 |-> g[i]]
    OBVIOUS
  <2>5. \A i \in 0..k + 1 : g[i] = IF i = 0 THEN t ELSE JoinNext(g[i - 1], macs[i], anew)
    <3>1. ASSUME NEW i \in 0..k
          PROVE  g[i] = IF i = 0 THEN t ELSE JoinNext(g[i - 1], macs[i], anew)
      <4>1. f[i] = IF i = 0 THEN t ELSE JoinNext(f[i - 1], macs[i], anew)
        BY <2>1 DEF JoinsUpTo
      <4>2. i # 0 => i - 1 \in 0..k
        BY <3>1
      <4> HIDE DEF g
      <4> QED BY <4>1, <2>2, <4>2
    <3>2. k + 1 # 0 /\ (k + 1) - 1 = k /\ k \in 0..k
      OBVIOUS
    <3> HIDE DEF g
    <3>3. g[k + 1] = IF k + 1 = 0 THEN t ELSE JoinNext(g[(k + 1) - 1], macs[k + 1], anew)
      BY <2>2, <2>3, <3>2
    <3> QED BY <3>1, <3>3
  <2> HIDE DEF g
  <2>6. Is(g, k + 1)
    BY <2>4, <2>5 DEF JoinsUpTo
  <2>7. k + 1 \in 0..n
    BY <1>1
  <2> HIDE DEF Is
  <2> QED BY <2>6, <2>7
<1> HIDE DEF S
<1>4. \A i \in 0..n : i \in S
  BY <1>1, <1>2, <1>3, Upward
<1>5. n \in S
  BY <1>1, <1>4
<1> QED BY <1>5 DEF S, n

(* JoinAll is the last value of that solution.                             *)
LEMMA JoinAllUnfolds ==
  ASSUME NEW t, NEW macs \in Seq(Macs), NEW anew
  PROVE  \E f : JoinsUpTo(f, Len(macs), t, macs, anew) /\ JoinAll(t, macs, anew) = f[Len(macs)]
<1> DEFINE f == CHOOSE f : f = [i \in 0..Len(macs) |->
                              IF i = 0 THEN t ELSE JoinNext(f[i - 1], macs[i], anew)]
<1>1. \E g : g = [i \in 0..Len(macs) |-> IF i = 0 THEN t ELSE JoinNext(g[i - 1], macs[i], anew)]
  <2>1. PICK g : JoinsUpTo(g, Len(macs), t, macs, anew)
    BY JoinsExist
  <2> QED BY <2>1 DEF JoinsUpTo
<1>2. f = [i \in 0..Len(macs) |-> IF i = 0 THEN t ELSE JoinNext(f[i - 1], macs[i], anew)]
  BY <1>1, Zenon
<1>3. JoinAll(t, macs, anew) = f[Len(macs)]
  BY Zenon DEF JoinAll
<1> HIDE DEF f
<1> QED BY <1>2, <1>3 DEF JoinsUpTo

(* No more stations than the list is long.                                 *)
LEMMA ListSize ==
  ASSUME NEW macs \in Seq(Macs)
  PROVE  /\ IsFiniteSet(ToSet(macs)) /\ Cardinality(ToSet(macs)) <= Len(macs)
         /\ Cardinality(ToSet(macs)) \in Nat /\ Len(macs) \in Nat
         /\ \A m : m \in ToSet(macs) <=> \E i \in 1..Len(macs) : macs[i] = m
<1>1. Len(macs) \in Nat /\ macs \in [1..Len(macs) -> Macs]
  OBVIOUS
<1>2. ToSet(macs) = {macs[i] : i \in 1..Len(macs)}
  BY <1>1 DEF ToSet
<1>3. macs \in Surjection(1..Len(macs), ToSet(macs))
  BY <1>1, <1>2 DEF Surjection
<1>4. IsFiniteSet(1..Len(macs)) /\ Cardinality(1..Len(macs)) = Len(macs)
  BY <1>1, FS_Interval
<1>5. IsFiniteSet(ToSet(macs)) /\ Cardinality(ToSet(macs)) <= Len(macs)
  BY <1>3, <1>4, FS_Surjection
<1>6. Cardinality(ToSet(macs)) \in Nat
  BY <1>5, FS_CardinalityType
<1> QED BY <1>1, <1>2, <1>5, <1>6

(* A table of listed stations has room for one more of the list.           *)
LEMMA Room ==
  ASSUME NEW t \in Tables, Distinct(t), NEW macs \in Seq(Macs), Len(macs) <= SlotCount,
         MacsOf(t) \subseteq ToSet(macs), NEW m \in ToSet(macs)
  PROVE  JoinSlot(t, m) # {}
<1> SUFFICES ASSUME Find(t, m) = {}, Slots \subseteq Occupied(t)
             PROVE  FALSE
  BY DEF JoinSlot
<1> DEFINE T == ToSet(macs) \ {m}
           f == [s \in Slots |-> t.entries[s].mac]
<1>1. \A s \in Slots : t.entries[s].mac \in T
  BY DEF MacsOf, Find
<1>2. f \in [Slots -> T]
  BY <1>1
<1>3. IsFiniteSet(T) /\ Cardinality(T) = Cardinality(ToSet(macs)) - 1
  BY ListSize, FS_RemoveElement
<1>4. Cardinality(T) < Cardinality(Slots)
  BY <1>3, ListSize, Sizes
<1>5. \A r, s \in Slots : r # s => f[r] # f[s]
  BY DEF Distinct
<1> HIDE DEF f, T
<1>6. IsFiniteSet(Slots)
  BY Sizes
<1> QED BY <1>2, <1>3, <1>4, <1>5, <1>6, FS_PigeonHole

(* Joining a list: the stations before keep their slots, and if the list   *)
(* fits the registry, every listed station is there in the end.            *)
LEMMA JoinAllGrows ==
  ASSUME NEW t \in Tables, Distinct(t), NEW macs \in Seq(Macs), NEW anew \in BOOLEAN
  PROVE  /\ Grows(t, JoinAll(t, macs, anew), ToSet(macs))
         /\ ~anew => Stands(t, JoinAll(t, macs, anew))
         /\ Len(macs) <= SlotCount /\ MacsOf(t) \subseteq ToSet(macs) =>
              ToSet(macs) \subseteq MacsOf(JoinAll(t, macs, anew))
<1> DEFINE n == Len(macs)
           Fits == n <= SlotCount /\ MacsOf(t) \subseteq ToSet(macs)
<1>1. n \in Nat /\ \A i \in 1..n : macs[i] \in Macs /\ macs[i] \in ToSet(macs)
  BY ListSize
<1>2. PICK f : JoinsUpTo(f, n, t, macs, anew) /\ JoinAll(t, macs, anew) = f[n]
  BY JoinAllUnfolds
<1> DEFINE Good(i) ==
             /\ Grows(t, f[i], ToSet(macs))
             /\ ~anew => Stands(t, f[i])
             /\ Fits => \A j \in 1..i : macs[j] \in MacsOf(f[i])
           S == {i \in 0..n : Good(i)}
<1>3. 0 \in S
  <2>1. f[0] = t
    BY <1>1, <1>2 DEF JoinsUpTo
  <2>2. Good(0)
    BY <2>1, GrowsSame
  <2> QED BY <1>1, <2>2
<1>4. ASSUME NEW i \in 0..n - 1, i \in S PROVE i + 1 \in S
  <2> DEFINE u == f[i]  v == f[i + 1]  m == macs[i + 1]
  <2>1. i + 1 \in 1..n /\ i + 1 \in 0..n /\ i + 1 # 0 /\ (i + 1) - 1 = i /\ m \in Macs /\ m \in ToSet(macs)
    BY <1>1
  <2>2. v = JoinNext(u, m, anew)
    BY <1>2, <2>1 DEF JoinsUpTo
  <2>3. Good(i)
    BY <1>4
  <2> HIDE DEF u, v, m
  <2>4. u \in Tables /\ Distinct(u) /\ Grows(t, u, ToSet(macs))
    BY <2>3 DEF Grows, Follows, u
  <2>5. Grows(u, v, {m}) /\ (JoinSlot(u, m) # {} => m \in MacsOf(v)) /\ (~anew => Stands(u, v))
    BY <2>1, <2>2, <2>4, JoinNextGrows
  <2>6. Grows(t, v, ToSet(macs))
    <3>1. Grows(t, v, ToSet(macs) \cup {m})
      BY <2>4, <2>5, GrowsTwice
    <3>2. ToSet(macs) \cup {m} = ToSet(macs)
      BY <2>1
    <3> QED BY <3>1, <3>2
  <2>7. ASSUME ~anew PROVE Stands(t, v)
    BY <2>3, <2>5, <2>7 DEF Stands, u
  <2>8. ASSUME Fits, NEW j \in 1..i + 1 PROVE macs[j] \in MacsOf(v)
    <3>1. CASE j = i + 1
      <4>1. MacsOf(u) \subseteq ToSet(macs)
        BY <2>4, <2>8 DEF Grows
      <4>2. JoinSlot(u, m) # {}
        BY <2>1, <2>4, <2>8, <4>1, Room
      <4> QED BY <2>5, <3>1, <4>2 DEF m
    <3>2. CASE j \in 1..i
      <4>1. macs[j] \in MacsOf(u)
        BY <2>3, <2>8, <3>2 DEF u
      <4>2. Find(v, macs[j]) # {}
        BY <2>5, <4>1, FindNone DEF Grows
      <4> QED BY <4>2, FindNone
    <3> QED BY <3>1, <3>2
  <2>9. Good(i + 1)
    BY <2>6, <2>7, <2>8 DEF v
  <2> HIDE DEF Good
  <2> QED BY <2>1, <2>9
<1> HIDE DEF S
<1>5. \A i \in 0..n : i \in S
  BY <1>1, <1>3, <1>4, Upward
<1>6. Good(n)
  BY <1>1, <1>5 DEF S
<1>7. Fits => \A m \in ToSet(macs) : m \in MacsOf(f[n])
  BY <1>6, ListSize
<1> QED BY <1>2, <1>6, <1>7

(* The same entries under another report.                                  *)
Restated(t, u) == u \in Tables /\ u.generation = t.generation /\ u.entries = t.entries

(* Nobody can tell tables apart whose reports differ but not their         *)
(* entries.                                                                *)
LEMMA RestatedSame ==
  ASSUME NEW t, NEW u, Restated(t, u)
  PROVE  /\ Occupied(u) = Occupied(t) /\ MacsOf(u) = MacsOf(t)
         /\ \A m : Find(u, m) = Find(t, m) /\ AssociationOf(u, m) = AssociationOf(t, m)
         /\ Distinct(t) => Distinct(u)
         /\ \A x : Follows(x, t) => Follows(x, u)
<1>1. u.entries = t.entries /\ u.generation = t.generation /\ u \in Tables
  BY DEF Restated
<1>2. Occupied(u) = Occupied(t)
  BY <1>1 DEF Occupied
<1>3. MacsOf(u) = MacsOf(t) /\ \A m : Find(u, m) = Find(t, m)
  BY <1>1, <1>2 DEF MacsOf, Find
<1>4. ASSUME NEW m PROVE AssociationOf(u, m) = AssociationOf(t, m)
  <2> DEFINE Chosen(S) == CHOOSE s \in S : TRUE
  <2>1. Find(u, m) = Find(t, m)
    BY <1>3
  <2>2. Chosen(Find(u, m)) = Chosen(Find(t, m))
    <3> HIDE DEF Chosen
    <3> QED BY <2>1
  <2> QED BY <1>1, <2>1, <2>2, Zenon DEF AssociationOf
<1>5. Distinct(t) => Distinct(u)
  BY <1>1, <1>2 DEF Distinct
<1>6. ASSUME NEW x, Follows(x, t) PROVE Follows(x, u)
  BY <1>1, <1>2, <1>5, <1>6 DEF Follows, Succeeds, Remains, Silent
<1> QED BY <1>2, <1>3, <1>4, <1>5, <1>6

(* A report's stations, and no other, are in the table it rebuilds, those  *)
(* that were there before in their slots (ptp_wifi_peers_reconcile).       *)
LEMMA RebuiltFollows ==
  ASSUME NEW t \in Tables, Distinct(t), NEW boot \in Nat, NEW generation \in Nat,
         NEW macs \in Seq(Macs), Len(macs) <= SlotCount
  PROVE  LET u == Rebuilt(t, boot, generation, macs)
         IN /\ Follows(t, u) /\ u.generation > t.generation
            /\ u.radioBoot = boot /\ u.radioGeneration = generation /\ u.reconciled = u.generation
            /\ MacsOf(u) = ToSet(macs)
            /\ \A m : Find(t, m) = {} \/ Find(u, m) = {} \/ Find(u, m) = Find(t, m)
<1> DEFINE k == Kept(t, macs)
           j == JoinAll(k, macs, TRUE)
           u == Rebuilt(t, boot, generation, macs)
<1>1. /\ Follows(t, k) /\ k.generation = t.generation + 1
      /\ \A m \in ToSet(macs) : Find(k, m) = Find(t, m)
      /\ MacsOf(k) \subseteq ToSet(macs)
  BY KeptFollows
<1>2. u = [j EXCEPT !.radioBoot = boot, !.radioGeneration = generation, !.reconciled = j.generation]
  BY DEF Rebuilt
<1> HIDE DEF k, u
<1>3. k \in Tables /\ Distinct(k)
  BY <1>1 DEF Follows
<1>4. Grows(k, j, ToSet(macs)) /\ ToSet(macs) \subseteq MacsOf(j)
  BY <1>1, <1>3, JoinAllGrows
<1> HIDE DEF j
<1>5. j \in Tables /\ Follows(k, j)
  BY <1>4 DEF Grows, Follows
<1>6. Restated(j, u) /\ u.radioBoot = boot /\ u.radioGeneration = generation /\ u.reconciled = j.generation
  BY <1>2, <1>5 DEF Restated, Tables
<1>7. Follows(t, u)
  BY <1>1, <1>5, <1>6, FollowsTwice, RestatedSame
<1>8. u.generation > t.generation /\ u.reconciled = u.generation
  <2>1. t.generation \in Nat /\ k.generation \in Nat /\ j.generation \in Nat
    BY <1>3, <1>5, Entries
  <2>2. j.generation >= k.generation
    BY <1>5 DEF Follows, Succeeds
  <2> QED BY <2>1, <2>2, <1>1, <1>6 DEF Restated
<1>9. MacsOf(u) = ToSet(macs)
  <2>1. MacsOf(u) = MacsOf(j)
    BY <1>6, RestatedSame
  <2>2. MacsOf(j) \subseteq MacsOf(k) \cup ToSet(macs)
    BY <1>4 DEF Grows
  <2> QED BY <1>1, <1>4, <2>1, <2>2
<1>10. ASSUME NEW m, Find(t, m) # {}, Find(u, m) # {}
       PROVE  Find(u, m) = Find(t, m)
  <2>1. m \in ToSet(macs)
    BY <1>9, <1>10, FindNone
  <2>2. Find(k, m) = Find(t, m)
    BY <1>1, <2>1
  <2>3. Find(j, m) = Find(k, m)
    BY <1>4, <1>10, <2>2 DEF Grows
  <2> QED BY <1>6, <2>2, <2>3, RestatedSame
<1> QED BY <1>6, <1>7, <1>8, <1>9, <1>10 DEF u

-----------------------------------------------------------------------------
(* What the actions that change the table do to it.                        *)

(* The fields that each kind of event has.                                 *)
LEMMA EventFields ==
  ASSUME NEW e \in Event
  PROVE  /\ e.kind \in {"join", "leave", "start", "stop", "report"}
         /\ e.kind \in {"join", "leave"} => e.mac \in Macs
         /\ e.kind = "report" =>
              /\ e.boot \in Nat /\ e.generation \in Nat /\ e.lifecycle \in BOOLEAN
              /\ e.macs \in Seq(Macs)
BY DEF Event

(* The first event of the queue and the rest.                              *)
LEMMA QueueHead ==
  ASSUME events \in Seq(Event), events # <<>>
  PROVE  /\ Head(events) = events[1] /\ Head(events) \in Event
         /\ Tail(events) \in Seq(Event) /\ Len(Tail(events)) = Len(events) - 1
         /\ Len(events) \in Nat \ {0}
         /\ \A i \in 1..Len(events) - 1 : Tail(events)[i] = events[i + 1]
OBVIOUS

(* The report fields stay, and so do the entries.                          *)
Renamed(t, u) ==
  /\ Restated(t, u)
  /\ u.radioBoot = t.radioBoot /\ u.radioGeneration = t.radioGeneration
  /\ u.reconciled = t.reconciled

(* A table follows itself when only its unreported flag is written.        *)
LEMMA RenamedFollows ==
  ASSUME NEW t \in Tables, Distinct(t), NEW b \in BOOLEAN
  PROVE  /\ Renamed(t, [t EXCEPT !.unreported = b])
         /\ Follows(t, [t EXCEPT !.unreported = b])
<1>1. Renamed(t, [t EXCEPT !.unreported = b])
  BY DEF Tables, Renamed, Restated
<1>2. Follows(t, t)
  BY GrowsSame DEF Grows
<1> QED BY <1>1, <1>2, RestatedSame DEF Renamed

(* No station moves to another slot.                                       *)
KeepsPorts(t, u) == \A m : Find(t, m) = {} \/ Find(u, m) \subseteq Find(t, m)

(* An event of the access point (ptp_wifi_event_handler) keeps every other *)
(* station in its slot, and owes the generation that goes with it.         *)
LEMMA HandleApEffect ==
  ASSUME Shapes, Distinct(peers), HandleAp
  PROVE  LET e == Head(events)
         IN /\ Follows(peers, peers') /\ SameReport(peers, peers') /\ KeepsPorts(peers, peers')
            /\ e \in Event /\ e.kind # "report" /\ owed.loop = "none"
            /\ owed' = [owed EXCEPT !.loop = Retires(e.kind)]
            /\ e.kind = "start" => peers' = peers
            /\ \A m \in MacsOf(peers) \ MacsOf(peers') : e.kind = "stop" \/ e.mac = m
<1> DEFINE e == Head(events)
<1>1. peers \in Tables /\ events \in Seq(Event) /\ events # <<>>
  BY DEF Shapes, HandleAp, LoopFree
<1>2. e \in Event /\ e.kind # "report" /\ owed.loop = "none"
  BY <1>1, QueueHead DEF HandleAp, LoopFree
<1>3. /\ owed' = [owed EXCEPT !.loop = Retires(e.kind)]
      /\ peers' = CASE e.kind = "join" -> Join(peers, e.mac)
                    [] e.kind = "leave" -> Leave(peers, e.mac)
                    [] e.kind = "stop" -> Clear(peers)
                    [] e.kind = "start" -> peers
  BY DEF HandleAp
<1> HIDE DEF e
<1>4. /\ e.kind \in {"join", "leave", "start", "stop"}
      /\ e.kind \in {"join", "leave"} => e.mac \in Macs
  BY <1>2, EventFields
<1>5. CASE e.kind = "join"
  <2>1. peers' = Join(peers, e.mac) /\ Grows(peers, peers', {e.mac})
    BY <1>1, <1>3, <1>4, <1>5, JoinGrows
  <2>2. KeepsPorts(peers, peers')
    BY <2>1 DEF Grows, KeepsPorts
  <2>3. \A m \in MacsOf(peers) : m \in MacsOf(peers')
    BY <2>1, FindNone DEF Grows
  <2> QED BY <1>2, <1>3, <1>5, <2>1, <2>2, <2>3 DEF Grows, e
<1>6. CASE e.kind = "leave"
  <2>1. peers' = Leave(peers, e.mac)
    BY <1>3, <1>6
  <2>2. /\ Follows(peers, peers') /\ SameReport(peers, peers')
        /\ \A s \in Occupied(peers) : peers.entries[s].mac # e.mac =>
             s \in Occupied(peers') /\ peers'.entries[s] = peers.entries[s]
        /\ \A s \in Occupied(peers') : s \in Occupied(peers) /\ peers'.entries[s] = peers.entries[s]
    BY <1>1, <2>1, LeaveFollows
  <2>3. KeepsPorts(peers, peers')
    BY <2>2 DEF Find, KeepsPorts
  <2>4. \A m \in MacsOf(peers) \ MacsOf(peers') : e.mac = m
    BY <2>2 DEF MacsOf
  <2> QED BY <1>2, <1>3, <1>6, <2>2, <2>3, <2>4 DEF e
<1>7. CASE e.kind = "stop"
  <2>1. peers' = Clear(peers)
    BY <1>3, <1>7
  <2>2. Follows(peers, peers') /\ SameReport(peers, peers')
    BY <1>1, <2>1, ClearFollows
  <2>3. Occupied(peers') = {}
    BY <2>1, <1>1 DEF Clear, Occupied, Tables
  <2>4. KeepsPorts(peers, peers')
    BY <2>3 DEF Find, KeepsPorts
  <2> QED BY <1>2, <1>3, <1>7, <2>2, <2>4 DEF e
<1>8. CASE e.kind = "start"
  <2>1. peers' = peers
    BY <1>3, <1>8
  <2>2. Follows(peers, peers') /\ SameReport(peers, peers')
    BY <1>1, <2>1, GrowsSame DEF Grows
  <2> QED BY <1>2, <1>3, <1>8, <2>1, <2>2 DEF KeepsPorts, e
<1> QED BY <1>4, <1>5, <1>6, <1>7, <1>8

(* A report (reconcile_associations) leaves the entries alone or makes     *)
(* them the reported stations, and then owes a generation.                 *)
LEMMA HandleReportEffect ==
  ASSUME Shapes, Distinct(peers), HandleReport
  PROVE  LET e == Head(events)
         IN /\ Follows(peers, peers') /\ KeepsPorts(peers, peers')
            /\ e \in Event /\ e.kind = "report" /\ owed.loop = "none"
            /\ \/ /\ Renamed(peers, peers')
                  /\ \E next \in {"none", "bump"} : owed' = [owed EXCEPT !.loop = next]
               \/ /\ peers'.radioBoot = e.boot /\ peers'.radioGeneration = e.generation
                  /\ peers'.reconciled = peers'.generation /\ MacsOf(peers') = ToSet(e.macs)
                  /\ peers'.generation > peers.generation
                  /\ owed' = [owed EXCEPT !.loop = "bump"]
<1> DEFINE e == Head(events)
           accepted == /\ e.lifecycle /\ running /\ link
                       /\ Accepts(peers, e.boot, e.generation, e.macs)
           rebuilt == Reconcile(peers, e.boot, e.generation, e.macs)
           fallback == ~e.lifecycle /\ Unreported(peers, e.boot # host.boot)
<1>1. peers \in Tables /\ events \in Seq(Event) /\ events # <<>>
  BY DEF Shapes, HandleReport, LoopFree
<1>2. e \in Event /\ e.kind = "report" /\ owed.loop = "none"
  BY <1>1, QueueHead DEF HandleReport, LoopFree
<1>3. /\ peers' = IF accepted THEN [rebuilt EXCEPT !.unreported = FALSE]
                  ELSE [peers EXCEPT !.unreported = @ \/ fallback]
      /\ owed' = [owed EXCEPT !.loop = IF peers'.generation # peers.generation \/ fallback
                                       THEN "bump" ELSE "none"]
  BY DEF HandleReport
<1>4. PICK next \in {"none", "bump"} :
        /\ owed' = [owed EXCEPT !.loop = next]
        /\ peers'.generation # peers.generation => next = "bump"
  BY <1>3
<1> HIDE DEF e, rebuilt, fallback
<1>5. e.boot \in Nat /\ e.generation \in Nat /\ e.macs \in Seq(Macs)
  BY <1>2, EventFields
<1>6. CASE ~accepted
  <2>1. peers' = [peers EXCEPT !.unreported = peers.unreported \/ fallback]
    BY <1>3, <1>6
  <2>2. (peers.unreported \/ fallback) \in BOOLEAN
    OBVIOUS
  <2>3. Renamed(peers, peers') /\ Follows(peers, peers')
    BY <1>1, <2>1, <2>2, RenamedFollows
  <2>4. KeepsPorts(peers, peers')
    BY <2>3, RestatedSame DEF Renamed, KeepsPorts
  <2> QED BY <1>2, <1>4, <2>3, <2>4 DEF e
<1>7. CASE accepted /\ peers.radioBoot = e.boot /\ peers.radioGeneration = e.generation
  <2>1. peers' = [peers EXCEPT !.unreported = FALSE]
    BY <1>3, <1>7 DEF rebuilt, Reconcile
  <2>2. Renamed(peers, peers') /\ Follows(peers, peers')
    BY <1>1, <2>1, RenamedFollows
  <2>3. KeepsPorts(peers, peers')
    BY <2>2, RestatedSame DEF Renamed, KeepsPorts
  <2> QED BY <1>2, <1>4, <2>2, <2>3 DEF e
<1>8. CASE accepted /\ ~(peers.radioBoot = e.boot /\ peers.radioGeneration = e.generation)
  <2> DEFINE u == Rebuilt(peers, e.boot, e.generation, e.macs)
  <2>1. peers' = [u EXCEPT !.unreported = FALSE]
    BY <1>3, <1>8 DEF rebuilt, Reconcile
  <2>2. Len(e.macs) <= SlotCount
    BY <1>8 DEF Accepts, ValidReport
  <2>3. /\ Follows(peers, u) /\ u.generation > peers.generation
        /\ u.radioBoot = e.boot /\ u.radioGeneration = e.generation /\ u.reconciled = u.generation
        /\ MacsOf(u) = ToSet(e.macs)
        /\ \A m : Find(peers, m) = {} \/ Find(u, m) = {} \/ Find(u, m) = Find(peers, m)
    BY <1>1, <1>5, <2>2, RebuiltFollows
  <2> HIDE DEF u
  <2>4. Renamed(u, peers')
    BY <2>1, <2>3, RenamedFollows DEF Follows
  <2>5. /\ peers'.radioBoot = e.boot /\ peers'.radioGeneration = e.generation
        /\ peers'.reconciled = peers'.generation /\ peers'.generation > peers.generation
    BY <2>3, <2>4 DEF Renamed, Restated
  <2>6. Follows(peers, peers') /\ MacsOf(peers') = ToSet(e.macs)
    BY <2>3, <2>4, RestatedSame DEF Renamed
  <2>7. KeepsPorts(peers, peers')
    BY <2>3, <2>4, RestatedSame DEF Renamed, KeepsPorts
  <2>8. next = "bump"
    BY <1>1, <1>4, <2>5, <2>6, Entries DEF Follows
  <2> QED BY <1>2, <1>4, <2>5, <2>6, <2>7, <2>8 DEF e
<1> QED BY <1>6, <1>7, <1>8

(* The listing adds stations and changes no entry.                         *)
LEMMA ListJoinEffect ==
  ASSUME Shapes, Distinct(peers), ListJoin
  PROVE  /\ Follows(peers, peers') /\ SameReport(peers, peers') /\ KeepsPorts(peers, peers')
         /\ Stands(peers, peers')
<1>1. peers \in Tables /\ listing.stations \in Seq(Macs)
  BY DEF Shapes
<1>2. CASE peers' = JoinAll(peers, listing.stations, FALSE)
  <2>1. Grows(peers, peers', ToSet(listing.stations)) /\ Stands(peers, peers')
    BY <1>1, <1>2, JoinAllGrows
  <2> QED BY <2>1 DEF Grows, KeepsPorts
<1>3. CASE peers' = peers
  BY <1>1, <1>3, GrowsSame DEF Grows, KeepsPorts
<1> QED BY <1>2, <1>3 DEF ListJoin

(* The refresh task writes the unreported flag only.                       *)
LEMMA RefreshWarnEffect ==
  ASSUME Shapes, Distinct(peers), RefreshWarn
  PROVE  Follows(peers, peers') /\ Renamed(peers, peers') /\ KeepsPorts(peers, peers')
<1>1. peers \in Tables /\ peers' = [peers EXCEPT !.unreported = TRUE]
  BY DEF Shapes, RefreshWarn
<1>2. Follows(peers, peers') /\ Renamed(peers, peers')
  BY <1>1, RenamedFollows
<1> QED BY <1>2, RestatedSame DEF Renamed, KeepsPorts

(* Binding writes what an entry has heard, and no more                     *)
(* (ptp_wifi_peers_capable).                                               *)
Rebound(t, u) ==
  /\ u \in Tables /\ u.generation = t.generation /\ SameReport(t, u) /\ Occupied(u) = Occupied(t)
  /\ \A s \in Occupied(t) : Remains(t, u, s)

(* Binding neither adds, moves nor ends an association.                    *)
LEMMA ReboundSame ==
  ASSUME NEW t \in Tables, Distinct(t), NEW u, Rebound(t, u)
  PROVE  /\ MacsOf(u) = MacsOf(t) /\ \A m : Find(u, m) = Find(t, m)
         /\ Distinct(u) /\ Succeeds(t, u)
<1>1. \A m : Find(u, m) = Find(t, m)
  BY DEF Find, Rebound, Remains
<1>2. MacsOf(u) = MacsOf(t)
  BY DEF MacsOf, Rebound, Remains
<1>3. Distinct(u)
  BY DEF Distinct, Rebound, Remains
<1>4. Succeeds(t, u)
  BY Entries DEF Succeeds, Rebound
<1> QED BY <1>1, <1>2, <1>3, <1>4

(* ptp_wifi_peers_capable writes what was heard to the sender's            *)
(* association only.                                                       *)
LEMMA RxBindEffect ==
  ASSUME Shapes, Distinct(peers), RxBind
  PROVE  /\ Rebound(peers, peers')
         /\ \A s \in Occupied(peers) :
              \/ peers'.entries[s] = peers.entries[s]
              \/ /\ peers.entries[s].association = rx.association
                 /\ peers'.entries[s].heard =
                      [association |-> rx.frame.association, early |-> rx.early]
<1>1. peers \in Tables /\ rx \in Receptions
  BY DEF Shapes, RxBind
<1>2. CASE ~link
  <2>1. peers' = peers
    BY <1>2 DEF RxBind
  <2> QED BY <1>1, <2>1 DEF Rebound, Remains, SameReport
<1>3. CASE link
  <2> DEFINE h == [association |-> rx.frame.association, early |-> rx.early]
             e(s) == peers.entries[s]
             f == [s \in Slots |-> IF Binds(e(s)) THEN [e(s) EXCEPT !.heard = h] ELSE e(s)]
  <2>1. peers' = [peers EXCEPT !.entries = f]
    BY <1>3 DEF RxBind
  <2>2. h \in [association : Nat, early : BOOLEAN]
    BY <1>1 DEF Receptions, RingFrames
  <2> HIDE DEF h
  <2>3. ASSUME NEW s \in Slots
        PROVE  /\ f[s] \in {NoPeer} \cup Entry /\ (f[s] = NoPeer <=> e(s) = NoPeer)
               /\ e(s) # NoPeer => f[s].mac = e(s).mac /\ f[s].association = e(s).association
               /\ f[s] = e(s) \/ (e(s).association = rx.association /\ f[s].heard = h)
    <3>1. e(s) \in {NoPeer} \cup Entry
      BY <1>1 DEF Tables
    <3>2. CASE ~Binds(e(s))
      BY <3>1, <3>2
    <3>3. CASE Binds(e(s))
      <4>1. e(s) \in Entry /\ e(s).association = rx.association
        BY <3>1, <3>3 DEF Binds
      <4>2. f[s] = [e(s) EXCEPT !.heard = h]
        BY <3>3
      <4> HIDE DEF e, f
      <4>3. /\ f[s] \in Entry /\ f[s].mac = e(s).mac /\ f[s].association = e(s).association
            /\ f[s].heard = h
        BY <2>2, <4>1, <4>2 DEF Entry
      <4> QED BY <4>1, <4>3, PeerAssumption
    <3> QED BY <3>2, <3>3
  <2>4. f \in [Slots -> {NoPeer} \cup Entry]
    BY <2>3
  <2>5. DOMAIN f = Slots
    OBVIOUS
  <2> HIDE DEF f
  <2>6. /\ peers' \in Tables /\ peers'.entries = f /\ peers'.generation = peers.generation
        /\ SameReport(peers, peers')
    BY <1>1, <2>1, <2>4 DEF Tables, SameReport
  <2>7. \A s : s \in Occupied(peers') <=> s \in Occupied(peers)
    BY <2>3, <2>6 DEF Occupied
  <2>8. \A s \in Occupied(peers) :
          /\ Remains(peers, peers', s)
          /\ peers'.entries[s] = peers.entries[s]
             \/ (peers.entries[s].association = rx.association /\ peers'.entries[s].heard = h)
    BY <2>3, <2>6 DEF Occupied, Remains
  <2> QED BY <2>6, <2>7, <2>8 DEF Rebound, h
<1> QED BY <1>2, <1>3

-----------------------------------------------------------------------------
(* The radio and its events.                                               *)

(* A report tells the boot, generation and stations of a radio.            *)
Tells(e, r) ==
  /\ e \in Event /\ e.kind = "report"
  /\ e.boot = r.boot /\ e.generation = r.generation /\ e.macs = r.stations

(* A report is queued behind the events or dropped.                        *)
LEMMA WithReportQueue ==
  ASSUME NEW q \in Seq(Event), NEW r \in Radios
  PROVE  WithReport(q, r) = q \/ \E e : Tells(e, r) /\ WithReport(q, r) = Append(q, e)
<1> DEFINE b == Patched /\ r.generation > 0
           e == [kind |-> "report", boot |-> r.boot, generation |-> r.generation,
                 lifecycle |-> b, macs |-> r.stations]
<1>1. b \in BOOLEAN
  OBVIOUS
<1>2. WithReport(q, r) = q \/ WithReport(q, r) = Append(q, e)
  BY DEF WithReport
<1> HIDE DEF b
<1>3. Tells(e, r)
  BY <1>1 DEF Tells, Event, Radios
<1> HIDE DEF e
<1> QED BY <1>2, <1>3

(* The radio's stations without one of them.                               *)
LEMMA Removed ==
  ASSUME NEW s \in Seq(Macs), NEW i \in DOMAIN s
  PROVE  RemoveAt(s, i) \in Seq(Macs)
<1>1. i \in Nat /\ i >= 1 /\ i <= Len(s) /\ Len(s) \in Nat
  OBVIOUS
<1>2. SubSeq(s, 1, i - 1) \in Seq(Macs) /\ SubSeq(s, i + 1, Len(s)) \in Seq(Macs)
  BY <1>1, SubSeqProperties
<1> QED BY <1>2 DEF RemoveAt

(* A change of the radio: an event, then the report of the new state.      *)
Moves ==
  /\ UNCHANGED <<table, receive, transmit>>
  /\ radio' \in Radios /\ radio'.boot = radio.boot
  /\ radio'.generation = radio.generation + 1
  /\ ~radio'.up => radio'.stations = <<>>
  /\ \E e \in Event :
       /\ events' = WithReport(Append(events, e), radio')
       /\ \/ e.kind \in {"join", "leave"} /\ radio'.up = radio.up
          \/ e.kind = "stop" /\ radio.up /\ ~radio'.up

(* Joins, leaves and the stop of the access point.                         *)
LEMMA RadioMoves ==
  ASSUME Shapes, ~radio.up => radio.stations = <<>>,
         (\E m \in Macs : RadioJoin(m) \/ RadioLeave(m)) \/ ApStop
  PROVE  Moves
<1>1. /\ radio \in Radios /\ radio.stations \in Seq(Macs) /\ radio.generation + 1 \in Nat
      /\ radio.up \in BOOLEAN
  BY DEF Shapes, Radios
<1> DEFINE Moved(stations, up) ==
             [radio EXCEPT !.generation = radio.generation + 1, !.stations = stations, !.up = up]
<1>2. ASSUME NEW stations \in Seq(Macs), NEW up \in BOOLEAN, radio' = Moved(stations, up)
      PROVE  /\ radio' \in Radios /\ radio'.boot = radio.boot
             /\ radio'.generation = radio.generation + 1
             /\ radio'.stations = stations /\ radio'.up = up
  BY <1>1, <1>2 DEF Radios
<1> HIDE DEF Moved
<1>3. ASSUME NEW m \in Macs, RadioJoin(m) PROVE Moves
  <2> DEFINE e == [kind |-> "join", mac |-> m]
             stations == IF m \in ToSet(radio.stations) THEN radio.stations
                         ELSE Append(radio.stations, m)
  <2>1. /\ UNCHANGED <<table, receive, transmit>> /\ radio.up
        /\ radio' = Moved(stations, TRUE) /\ events' = WithReport(Append(events, e), radio')
    BY <1>3 DEF RadioJoin, RadioChange, Moved
  <2>2. stations \in Seq(Macs) /\ e \in Event /\ e.kind = "join"
    BY <1>1 DEF Event
  <2> HIDE DEF stations, e
  <2> QED BY <1>2, <2>1, <2>2 DEF Moves
<1>4. ASSUME NEW m \in Macs, RadioLeave(m) PROVE Moves
  <2> DEFINE e == [kind |-> "leave", mac |-> m]
  <2>1. PICK i \in DOMAIN radio.stations :
          /\ UNCHANGED <<table, receive, transmit>>
          /\ radio' = Moved(RemoveAt(radio.stations, i), TRUE)
          /\ events' = WithReport(Append(events, e), radio')
    BY <1>4 DEF RadioLeave, RadioChange, Moved
  <2>2. RemoveAt(radio.stations, i) \in Seq(Macs) /\ radio.up
    BY <1>1, Removed
  <2>3. e \in Event /\ e.kind = "leave"
    BY DEF Event
  <2> HIDE DEF e
  <2> QED BY <1>2, <2>1, <2>2, <2>3 DEF Moves
<1>5. CASE ApStop
  <2> DEFINE e == [kind |-> "stop"]
  <2>1. /\ UNCHANGED <<table, receive, transmit>> /\ radio.up
        /\ radio' = Moved(<<>>, FALSE) /\ events' = WithReport(Append(events, e), radio')
    BY <1>5 DEF ApStop, RadioChange, Moved
  <2>2. e \in Event /\ e.kind = "stop"
    BY DEF Event
  <2>3. <<>> \in Seq(Macs)
    OBVIOUS
  <2> HIDE DEF e
  <2> QED BY <1>2, <2>1, <2>2, <2>3 DEF Moves
<1> QED BY <1>3, <1>4, <1>5

-----------------------------------------------------------------------------
(* The shapes of the variables.                                            *)

(* The listing keeps the shapes.                                           *)
LEMMA ListingShapes ==
  ASSUME Shapes, Distinct(peers), Listing
  PROVE  Shapes'
<1> USE DEF air, receive, transmit
<1>1. /\ listing.pc \in {"read", "list", "join", "done"} /\ listing.attempt \in 0..2
      /\ listing.generation \in Nat /\ listing.stations \in Seq(Macs)
      /\ peers.generation \in Nat /\ radio.stations \in Seq(Macs) /\ linkGeneration + 1 \in Nat
  BY Entries DEF Shapes, Radios
<1> DEFINE L == [pc : {"read", "list", "join", "done"}, attempt : 0..2, generation : Nat,
                 stations : Seq(Macs)]
<1>2. ASSUME NEW pc \in {"read", "list", "join", "done"}, NEW n \in 0..2 PROVE ListAt(pc, n) \in L
  BY DEF ListAt
<1>3. CASE ListRead
  <2>1. listing' \in L
    BY <1>1, <1>3 DEF ListRead, Shapes
  <2> QED BY <1>3, <2>1 DEF ListRead, Shapes
<1>4. CASE ListStations
  <2>1. [listing EXCEPT !.pc = "join", !.stations = radio.stations] \in L
    BY <1>1 DEF Shapes
  <2>2. ListAt("done", 0) \in L
    BY <1>2
  <2>3. listing' \in L
    BY <1>4, <2>1, <2>2 DEF ListStations
  <2> QED BY <1>4, <2>3 DEF ListStations, Shapes
<1>5. CASE ListJoin
  <2>1. listing' \in L
    <3>1. listing' = ListAt("done", 0)
          \/ (listing.attempt < 2 /\ listing' = ListAt("read", listing.attempt + 1))
      BY <1>5 DEF ListJoin, Retry
    <3>2. listing.attempt < 2 => listing.attempt + 1 \in 0..2
      BY <1>1
    <3> HIDE DEF L
    <3> QED BY <1>2, <3>1, <3>2
  <2>2. peers' \in Tables
    BY <1>5, ListJoinEffect DEF Follows
  <2> QED BY <1>5, <2>1, <2>2 DEF ListJoin, Shapes
<1>6. CASE StateSet
  BY <1>1, <1>6 DEF StateSet, Shapes
<1> QED BY <1>3, <1>4, <1>5, <1>6 DEF Listing

(* The event loop and the refresh task keep the shapes.                    *)
LEMMA LoopShapes ==
  ASSUME Shapes, Distinct(peers), Loop \/ RefreshWarn \/ RefreshRetire
  PROVE  Shapes'
<1> USE DEF air, receive, transmit
<1> DEFINE O == [loop : {"none", "bump", "up", "down"}, refresh : BOOLEAN]
<1>1. ASSUME NEW next \in {"none", "bump", "up", "down"} PROVE [owed EXCEPT !.loop = next] \in O
  BY DEF Shapes
<1>2. linkGeneration + 1 \in Nat
  BY DEF Shapes
<1>3. CASE HandleAp
  <2>1. Head(events) \in Event /\ Tail(events) \in Seq(Event)
    BY <1>3, QueueHead DEF HandleAp, LoopFree, Shapes
  <2>2. owed' \in O /\ peers' \in Tables
    BY <1>1, <1>3, HandleApEffect DEF Follows, Retires
  <2> QED BY <1>3, <2>1, <2>2 DEF HandleAp, Shapes
<1>4. CASE HandleReport
  <2>1. Head(events) \in Event /\ Tail(events) \in Seq(Event)
    BY <1>4, QueueHead DEF HandleReport, LoopFree, Shapes
  <2>2. owed' \in O /\ peers' \in Tables
    BY <1>1, <1>4, HandleReportEffect DEF Follows
  <2>3. Head(events).boot \in Nat
    BY <1>4, <2>1, EventFields DEF HandleReport
  <2>4. host' = [host EXCEPT !.anyReport = TRUE, !.boot = Head(events).boot]
    BY <1>4 DEF HandleReport
  <2>5. host' \in [anyReport : BOOLEAN, boot : Nat, warned : BOOLEAN]
    BY <2>3, <2>4 DEF Shapes
  <2>6. /\ events' = Tail(events)
        /\ UNCHANGED <<running, link, linkGeneration, listing, radio, changes, receive, transmit>>
    BY <1>4 DEF HandleReport
  <2> QED BY <2>1, <2>2, <2>5, <2>6 DEF Shapes
<1>5. CASE LoopRetire
  <2>1. owed' \in O
    BY <1>1, <1>5 DEF LoopRetire
  <2>2. link' \in BOOLEAN
    <3>1. link' = link \/ link' = (owed.loop = "up")
      BY <1>5 DEF LoopRetire
    <3> QED BY <3>1, Zenon DEF Shapes
  <2>3. linkGeneration' \in Nat
    BY <1>2, <1>5 DEF LoopRetire, Shapes
  <2> QED BY <1>5, <2>1, <2>2, <2>3 DEF LoopRetire, Shapes
<1>6. CASE RefreshWarn
  <2>1. host' \in [anyReport : BOOLEAN, boot : Nat, warned : BOOLEAN] /\ peers' \in Tables
    BY <1>6, RefreshWarnEffect DEF RefreshWarn, Shapes, Follows
  <2>2. owed' \in O
    BY <1>6 DEF RefreshWarn, Shapes
  <2> QED BY <1>6, <2>1, <2>2 DEF RefreshWarn, Shapes
<1>7. CASE RefreshRetire
  <2>1. owed' \in O
    BY <1>7 DEF RefreshRetire, Shapes
  <2> QED BY <1>2, <1>7, <2>1 DEF RefreshRetire, Shapes
<1> QED BY <1>3, <1>4, <1>5, <1>6, <1>7 DEF Loop

(* The radio keeps the shapes.                                             *)
LEMMA RadioShapes ==
  ASSUME Shapes, LinkInv, Radio \/ RefreshRequest
  PROVE  Shapes'
<1> USE DEF table, air, receive, transmit
<1>1. events \in Seq(Event) /\ radio \in Radios
  BY DEF Shapes
<1>2. ASSUME NEW q \in Seq(Event), NEW r \in Radios PROVE WithReport(q, r) \in Seq(Event)
  <2>1. CASE WithReport(q, r) = q
    BY <2>1
  <2>2. CASE \E e : Tells(e, r) /\ WithReport(q, r) = Append(q, e)
    BY <2>2 DEF Tells
  <2> QED BY <2>1, <2>2, WithReportQueue
<1>3. CASE (\E m \in Macs : RadioJoin(m) \/ RadioLeave(m)) \/ ApStop
  <2>1. Moves
    BY <1>3, RadioMoves DEF LinkInv
  <2>2. PICK e \in Event : events' = WithReport(Append(events, e), radio')
    BY <2>1 DEF Moves
  <2>3. UNCHANGED <<table, receive, transmit>> /\ radio' \in Radios
    BY <2>1 DEF Moves
  <2>4. Append(events, e) \in Seq(Event)
    BY <1>1
  <2>5. events' \in Seq(Event)
    BY <1>2, <2>2, <2>3, <2>4
  <2> QED BY <2>3, <2>5 DEF Shapes
<1>5. CASE ApStart
  <2>1. [kind |-> "start"] \in Event
    BY DEF Event
  <2>2. radio' \in Radios
    BY <1>1, <1>5 DEF ApStart, Radios
  <2>3. events' \in Seq(Event)
    BY <1>1, <1>5, <2>1 DEF ApStart
  <2> QED BY <1>5, <2>2, <2>3 DEF ApStart, Shapes
<1>6. CASE RadioRestart
  <2>1. radio' = [boot |-> radio.boot + 1, generation |-> 0, stations |-> <<>>, up |-> radio.up]
    BY <1>6 DEF RadioRestart, NewRadio
  <2>2. radio' \in Radios
    BY <1>1, <2>1 DEF Radios
  <2> QED BY <1>6, <2>2 DEF RadioRestart, Shapes
<1>7. CASE RefreshRequest
  <2>1. events' \in Seq(Event)
    BY <1>1, <1>2, <1>7 DEF RefreshRequest
  <2> QED BY <1>7, <2>1 DEF RefreshRequest, Shapes
<1> QED BY <1>3, <1>5, <1>6, <1>7 DEF Radio

(* An association is a number.                                             *)
LEMMA AssociationNumber ==
  ASSUME NEW t \in Tables, NEW m
  PROVE  AssociationOf(t, m) \in Nat
<1>1. CASE Find(t, m) = {}
  BY <1>1, FindNone
<1>2. CASE Find(t, m) # {}
  <2> DEFINE s == CHOOSE s \in Find(t, m) : TRUE
  <2>1. s \in Find(t, m)
    BY <1>2
  <2>2. AssociationOf(t, m) = t.entries[s].association
    BY <1>2, Zenon DEF AssociationOf
  <2> HIDE DEF s
  <2> QED BY <2>1, <2>2, Entries DEF Find
<1> QED BY <1>1, <1>2

(* The ports of the extra slots come behind the physical ones, a block of  *)
(* them for each physical port.                                            *)
LEMMA Blocks ==
  ASSUME NEW a \in Nat, NEW b \in Nat, NEW k \in Nat, a < b
  PROVE  a * k \in Nat /\ b * k \in Nat /\ a * k + k <= b * k
<1>1. PICK c \in Nat : b = (a + 1) + c
  <2>1. b - (a + 1) \in Nat /\ b = (a + 1) + (b - (a + 1))
    OBVIOUS
  <2> QED BY <2>1
<1>2. a * k \in Nat /\ c * k \in Nat
  OBVIOUS
<1>3. b * k = (a * k + k) + c * k
  BY <1>1
<1> QED BY <1>2, <1>3

(* Slot 0 has the physical port, the others a port behind all of those.    *)
LEMMA PortNumbers ==
  ASSUME NEW q \in 1..PhysicalCount, NEW s \in Slots
  PROVE  /\ LogicalPort(q, s) \in Nat
         /\ s = 0 => LogicalPort(q, s) = q
         /\ s # 0 =>
              /\ s \in 1..SlotCount - 1 /\ SlotCount - 1 \in Nat /\ (q - 1) * (SlotCount - 1) \in Nat
              /\ LogicalPort(q, s) = PhysicalCount + (q - 1) * (SlotCount - 1) + s
              /\ LogicalPort(q, s) > PhysicalCount
<1> DEFINE k == SlotCount - 1
           a == q - 1
<1>1. k \in Nat /\ a \in Nat /\ PhysicalCount \in Nat /\ s \in 0..k
  BY Sizes DEF Slots
<1>2. LogicalPort(q, s) = IF s = 0 THEN q ELSE PhysicalCount + a * k + s
  BY DEF LogicalPort
<1>3. a * k \in Nat
  <2> HIDE DEF a, k
  <2> QED BY <1>1
<1> DEFINE n == a * k
<1>4. n \in Nat /\ LogicalPort(q, s) = IF s = 0 THEN q ELSE PhysicalCount + n + s
  BY <1>2, <1>3
<1> HIDE DEF n
<1>5. LogicalPort(q, s) \in Nat /\ (s # 0 => LogicalPort(q, s) > PhysicalCount)
  BY <1>1, <1>4
<1> QED BY <1>1, <1>2, <1>3, <1>5

(* ptp_wifi_association_port gives every slot of every physical port a     *)
(* number of its own.                                                      *)
LEMMA PortsDiffer ==
  ASSUME NEW q \in 1..PhysicalCount, NEW s \in Slots, NEW p \in 1..PhysicalCount, NEW r \in Slots,
         LogicalPort(q, s) = LogicalPort(p, r)
  PROVE  q = p /\ s = r
<1> DEFINE k == SlotCount - 1
           a == q - 1
           b == p - 1
<1>1. PhysicalCount \in Nat /\ k \in Nat /\ a \in Nat /\ b \in Nat /\ s \in 0..k /\ r \in 0..k
  BY Sizes DEF Slots
<1>2. s = 0 <=> r = 0
  BY <1>1, PortNumbers
<1>3. CASE s = 0
  BY <1>2, <1>3, PortNumbers
<1>4. CASE s # 0
  <2>1. s \in 1..k /\ r \in 1..k
    BY <1>1, <1>2, <1>4
  <2>2. /\ a * k \in Nat /\ b * k \in Nat
        /\ LogicalPort(q, s) = PhysicalCount + a * k + s
        /\ LogicalPort(p, r) = PhysicalCount + b * k + r
    BY <1>2, <1>4, PortNumbers
  <2> DEFINE x == a * k
             y == b * k
  <2>3. a < b => x + k <= y
    <3> HIDE DEF a, b, k
    <3> QED BY <1>1, Blocks
  <2>4. b < a => y + k <= x
    <3> HIDE DEF a, b, k
    <3> QED BY <1>1, Blocks
  <2>5. x \in Nat /\ y \in Nat /\ PhysicalCount + x + s = PhysicalCount + y + r
    BY <2>2
  <2>6. a = b => x = y
    OBVIOUS
  <2> HIDE DEF x, y
  <2>7. a = b
    <3> HIDE DEF a, b, k
    <3> QED BY <1>1, <2>1, <2>3, <2>4, <2>5
  <2>8. s = r
    BY <1>1, <2>5, <2>6, <2>7
  <2> QED BY <2>7, <2>8
<1> QED BY <1>3, <1>4

(* What a copy of the table says of a station is what its slot says.       *)
LEMMA Copied ==
  ASSUME NEW t \in Tables
  PROVE  /\ Snapshot(t) \subseteq Copies
         /\ \A e \in Snapshot(t) : \E s \in Occupied(t) :
              /\ e.mac = t.entries[s].mac /\ e.association = t.entries[s].association
              /\ e.port = LogicalPort(PhysicalPort, s)
<1>1. \A s \in Occupied(t) :
        /\ t.entries[s].mac \in Macs /\ t.entries[s].association \in Nat
        /\ LogicalPort(PhysicalPort, s) \in Nat
  BY Entries, PortNumbers, Sizes
<1> QED BY <1>1 DEF Snapshot, Copies

(* The receive path keeps the shapes.                                      *)
LEMMA ReceiveShapes ==
  ASSUME Shapes, Distinct(peers), Receive
  PROVE  Shapes'
<1> USE DEF table, air, transmit
<1>1. ring \in Seq(RingFrames) /\ linkGeneration \in Nat /\ peers \in Tables /\ peers.generation \in Nat
  BY Entries DEF Shapes
<1>2. CASE RxTake
  <2> DEFINE b == owed.loop # "none" \/ owed.refresh
             f == Head(ring)
             r == [frame |-> f, association |-> 0, table |-> peers.generation, early |-> b]
  <2>1. f \in RingFrames /\ Tail(ring) \in Seq(RingFrames)
    BY <1>1, <1>2 DEF RxTake
  <2>2. b \in BOOLEAN
    OBVIOUS
  <2>3. ring' = Tail(ring) /\ rx' \in {Idle, r}
    BY <1>2 DEF RxTake
  <2> HIDE DEF f, b
  <2>4. rx' \in {Idle} \cup Receptions
    BY <1>1, <2>1, <2>2, <2>3 DEF Receptions
  <2> QED BY <1>2, <2>1, <2>3, <2>4 DEF RxTake, Shapes
<1>3. CASE RxLookup
  <2> DEFINE b == rx.early \/ rx.table # peers.generation
             a == AssociationOf(peers, rx.frame.mac)
  <2>1. rx' = Idle \/ rx' = [rx EXCEPT !.association = a, !.early = b]
    BY <1>3 DEF RxLookup
  <2>2. a \in Nat /\ b \in BOOLEAN
    BY <1>1, AssociationNumber
  <2>3. rx \in Receptions
    BY <1>3 DEF RxLookup, Shapes
  <2> HIDE DEF a, b
  <2>4. rx' \in {Idle} \cup Receptions
    BY <2>1, <2>2, <2>3 DEF Receptions
  <2> QED BY <1>3, <2>4 DEF RxLookup, Shapes
<1>4. CASE RxBind
  <2>1. peers' \in Tables /\ rx' = Idle
    BY <1>4, RxBindEffect DEF Rebound, RxBind
  <2> QED BY <1>4, <2>1 DEF RxBind, Shapes
<1>5. ASSUME NEW m \in Macs, FrameIn(m) PROVE Shapes'
  <2> DEFINE f == [mac |-> m, generation |-> linkGeneration, association |-> AssociationOf(peers, m)]
  <2>1. f \in RingFrames
    BY <1>1, AssociationNumber DEF RingFrames
  <2>2. ring' = Append(ring, f)
    BY <1>5 DEF FrameIn
  <2>3. ring' \in Seq(RingFrames)
    BY <1>1, <2>1, <2>2
  <2> QED BY <1>5, <2>3 DEF FrameIn, Shapes
<1> QED BY <1>2, <1>3, <1>4, <1>5 DEF Receive

(* The worker keeps the shapes.                                            *)
LEMMA TransmitShapes ==
  ASSUME Shapes, Transmit
  PROVE  Shapes'
<1> USE DEF table, air, receive
<1>1. linkGeneration \in Nat /\ peers \in Tables
  BY DEF Shapes
<1>2. CASE Publish
  <2>1. Snapshot(peers) \subseteq Copies
    BY <1>1, Copied
  <2>2. item' \in Items
    BY <1>1, <1>2, <2>1 DEF Publish, Items
  <2> QED BY <1>2, <2>2 DEF Publish, Shapes
<1>3. CASE WorkerTake
  <2>1. item \in Items
    BY <1>3 DEF WorkerTake, Shapes
  <2>2. worker' \in Workers
    BY <1>3, <2>1 DEF WorkerTake, Items, Workers
  <2> QED BY <1>3, <2>2 DEF WorkerTake, Shapes
<1>4. ASSUME worker # Idle, WorkerCheck \/ WorkerBegin \/ WorkerSend PROVE Shapes'
  <2>1. worker \in Workers /\ peers.generation \in Nat
    BY <1>1, <1>4, Entries DEF Shapes
  <2>2. CASE WorkerCheck
    <3>1. PICK entry \in worker.peers :
            worker' = [worker EXCEPT !.peers = @ \ {entry}, !.entry = entry, !.at = "begin"]
      BY <2>2 DEF WorkerCheck
    <3>2. worker' \in Workers
      BY <2>1, <3>1 DEF Workers
    <3> QED BY <2>2, <3>2 DEF WorkerCheck, Shapes
  <2>3. Onward \in Workers
    BY <2>1 DEF Onward, Workers
  <2>4. CASE WorkerBegin
    <3>1. [worker EXCEPT !.at = "send", !.table = peers.generation] \in Workers
      BY <2>1 DEF Workers
    <3> QED BY <2>3, <2>4, <3>1 DEF WorkerBegin, Shapes
  <2>5. CASE WorkerSend
    BY <2>3, <2>5 DEF WorkerSend, Shapes
  <2> QED BY <1>4, <2>2, <2>4, <2>5
<1>5. CASE WorkerDone
  BY <1>5 DEF WorkerDone, Shapes
<1> QED BY <1>2, <1>3, <1>4, <1>5 DEF Transmit, WorkerCheck, WorkerBegin, WorkerSend

-----------------------------------------------------------------------------
(* The invariants.                                                         *)

(* Every step keeps the shapes.                                            *)
LEMMA ShapesStep ==
  ASSUME Shapes, Distinct(peers), LinkInv, [Next]_vars
  PROVE  Shapes'
<1>1. CASE UNCHANGED vars
  BY <1>1 DEF vars, table, air, receive, transmit, Shapes
<1> QED BY <1>1, ListingShapes, LoopShapes, RadioShapes, ReceiveShapes, TransmitShapes
        DEF Next, Refresh

(* The five actions that change the table.                                 *)
LEMMA TableActions ==
  ASSUME [Next]_vars
  PROVE  ListJoin \/ HandleAp \/ HandleReport \/ RefreshWarn \/ RxBind \/ UNCHANGED peers
BY DEF Next, Listing, ListRead, ListStations, StateSet, Loop, LoopRetire, Refresh, RefreshRequest,
       RefreshRetire, Radio, ApStop, ApStart, RadioRestart, RadioJoin, RadioLeave, RadioChange,
       Receive, RxTake, RxLookup, FrameIn, Transmit, Publish, WorkerTake, WorkerCheck, WorkerBegin,
       WorkerSend, WorkerDone,
       vars, table, air, receive, transmit

(* The table stays one, with new associations only.                        *)
LEMMA TableStep ==
  ASSUME Shapes, Distinct(peers), [Next]_vars
  PROVE  peers' \in Tables /\ Distinct(peers') /\ Succeeds(peers, peers')
<1>1. peers \in Tables
  BY DEF Shapes
<1>2. CASE UNCHANGED peers
  BY <1>1, <1>2, GrowsSame DEF Grows, Follows
<1>3. CASE RxBind
  BY <1>1, <1>3, RxBindEffect, ReboundSame DEF Rebound
<1> QED BY <1>2, <1>3, TableActions, ListJoinEffect, HandleApEffect, HandleReportEffect,
           RefreshWarnEffect DEF Follows

(* A table reconciled with a report is that report's table still.          *)
LEMMA StillReconciled ==
  ASSUME NEW t \in Tables, NEW u \in Tables, Succeeds(t, u), t.reconciled <= t.generation,
         u.reconciled = t.reconciled
  PROVE  /\ u.reconciled <= u.generation
         /\ u.reconciled = u.generation => t.reconciled = t.generation /\ MacsOf(u) = MacsOf(t)
<1>1. /\ t.generation \in Nat /\ u.generation \in Nat /\ t.reconciled \in Nat
      /\ u.generation >= t.generation
  BY Entries DEF Tables, Succeeds
<1>2. ASSUME u.generation = t.generation PROVE MacsOf(u) = MacsOf(t)
  BY <1>2 DEF Succeeds, Remains, MacsOf
<1> QED BY <1>1, <1>2

(* A new report tells of the present state.                                *)
LEMMA WithReportTruthful ==
  ASSUME NEW q \in Seq(Event), NEW r \in Radios, \A i \in 1..Len(q) : Truthful(q[i], r)
  PROVE  \A i \in 1..Len(WithReport(q, r)) : Truthful(WithReport(q, r)[i], r)
<1>1. CASE WithReport(q, r) = q
  BY <1>1
<1>2. ASSUME NEW e, Tells(e, r), WithReport(q, r) = Append(q, e)
      PROVE  \A i \in 1..Len(WithReport(q, r)) : Truthful(WithReport(q, r)[i], r)
  <2>1. Truthful(e, r)
    BY <1>2 DEF Tells, Truthful, Radios
  <2>2. /\ Len(Append(q, e)) = Len(q) + 1 /\ Append(q, e)[Len(q) + 1] = e
        /\ \A i \in 1..Len(q) : Append(q, e)[i] = q[i]
    BY <1>2 DEF Tells
  <2> QED BY <1>2, <2>1, <2>2
<1> QED BY <1>1, <1>2, WithReportQueue

(* A change of the radio leaves the older reports behind.                  *)
LEMMA RadioMovesInv ==
  ASSUME Shapes, RadioInv, Moves
  PROVE  RadioInv'
<1>1. /\ events \in Seq(Event) /\ radio \in Radios /\ radio' \in Radios
      /\ radio'.boot = radio.boot /\ radio'.generation = radio.generation + 1 /\ peers' = peers
  BY DEF Shapes, Moves, table
<1>2. radio.boot \in Nat /\ radio.generation \in Nat /\ peers.radioGeneration \in Nat
  BY <1>1 DEF Radios, Shapes, Tables
<1>3. PICK e \in Event : /\ events' = WithReport(Append(events, e), radio') /\ e.kind # "report"
  BY DEF Moves
<1> DEFINE q == Append(events, e)
<1>4. /\ q \in Seq(Event) /\ Len(q) = Len(events) + 1 /\ q[Len(events) + 1] = e
      /\ \A i \in 1..Len(events) : q[i] = events[i]
  BY <1>1
<1>5. ASSUME NEW i \in 1..Len(events) PROVE Truthful(events[i], radio')
  <2>1. events[i] \in Event /\ Truthful(events[i], radio)
    BY <1>1 DEF RadioInv
  <2> QED BY <1>1, <1>2, <2>1, EventFields DEF Truthful
<1>6. Truthful(e, radio')
  BY <1>3 DEF Truthful
<1> HIDE DEF q
<1>7. \A i \in 1..Len(q) : Truthful(q[i], radio')
  BY <1>1, <1>4, <1>5, <1>6
<1>8. \A i \in 1..Len(events') : Truthful(events'[i], radio')
  BY <1>1, <1>3, <1>4, <1>7, WithReportTruthful DEF q
<1>9. /\ peers.reconciled <= peers.generation /\ peers.radioBoot <= radio'.boot
      /\ peers.radioBoot = radio'.boot => peers.radioGeneration < radio'.generation
  BY <1>1, <1>2 DEF RadioInv
<1> QED BY <1>1, <1>2, <1>8, <1>9 DEF RadioInv

(* A new boot of the radio is above all reported ones.                     *)
LEMMA RestartInv ==
  ASSUME Shapes, RadioInv, RadioRestart
  PROVE  RadioInv'
<1>1. /\ events \in Seq(Event) /\ radio \in Radios /\ peers \in Tables
      /\ radio.boot \in Nat /\ peers.radioBoot \in Nat
  BY DEF Shapes, Radios, Tables
<1>2. radio'.boot = radio.boot + 1 /\ events' = events /\ peers' = peers
  BY DEF RadioRestart, NewRadio, table
<1>3. ASSUME NEW i \in 1..Len(events) PROVE Truthful(events[i], radio')
  <2>1. events[i] \in Event /\ Truthful(events[i], radio)
    BY <1>1 DEF RadioInv
  <2> QED BY <1>1, <1>2, <2>1, EventFields DEF Truthful
<1>4. peers.reconciled <= peers.generation /\ peers.radioBoot < radio'.boot
  BY <1>1, <1>2 DEF RadioInv
<1> QED BY <1>1, <1>2, <1>3, <1>4 DEF RadioInv

(* A table of the radio's state stays one whatever the thread does.        *)
LEMMA OtherRadioInv ==
  ASSUME Shapes, Distinct(peers), RadioInv, peers' \in Tables, Succeeds(peers, peers'),
         peers'.radioBoot = peers.radioBoot, peers'.radioGeneration = peers.radioGeneration,
         peers'.reconciled = peers.reconciled, radio' = radio,
         \A i \in 1..Len(events') : Truthful(events'[i], radio)
  PROVE  RadioInv'
<1>1. peers \in Tables /\ peers.reconciled <= peers.generation
  BY DEF Shapes, RadioInv
<1>2. /\ peers'.reconciled <= peers'.generation
      /\ peers'.reconciled = peers'.generation =>
           peers.reconciled = peers.generation /\ MacsOf(peers') = MacsOf(peers)
  BY <1>1, StillReconciled
<1> QED BY <1>2 DEF RadioInv

(* A truthful queue stays so when its first event is handled.              *)
LEMMA HeadTruthful ==
  ASSUME Shapes, RadioInv, events # <<>>, events' = Tail(events)
  PROVE  Truthful(Head(events), radio) /\ \A i \in 1..Len(events') : Truthful(events'[i], radio)
<1>1. events \in Seq(Event)
  BY DEF Shapes
<1>2. /\ Head(events) = events[1] /\ Len(Tail(events)) = Len(events) - 1 /\ Len(events) \in Nat \ {0}
      /\ \A i \in 1..Len(events) - 1 : Tail(events)[i] = events[i + 1]
  BY <1>1, QueueHead
<1>3. \A i \in 1..Len(events) : Truthful(events[i], radio)
  BY DEF RadioInv
<1>4. 1 \in 1..Len(events) /\ \A i \in 1..Len(events) - 1 : i + 1 \in 1..Len(events)
  BY <1>2
<1> QED BY <1>2, <1>3, <1>4

(* Every step keeps the table and the reports true.                        *)
LEMMA RadioStep ==
  ASSUME Shapes, Distinct(peers), RadioInv, LinkInv, [Next]_vars
  PROVE  RadioInv'
<1>1. peers' \in Tables /\ Distinct(peers') /\ Succeeds(peers, peers') /\ events \in Seq(Event)
  BY TableStep DEF Shapes
<1>2. CASE UNCHANGED <<peers, radio, events>>
  BY <1>2 DEF RadioInv
<1>3. CASE ListJoin
  <2>1. SameReport(peers, peers')
    BY <1>3, ListJoinEffect
  <2> QED BY <1>1, <1>3, <2>1, OtherRadioInv DEF ListJoin, air, SameReport, RadioInv
<1>4. CASE RefreshWarn
  <2>1. Renamed(peers, peers')
    BY <1>4, RefreshWarnEffect
  <2> QED BY <1>1, <1>4, <2>1, OtherRadioInv DEF RefreshWarn, air, Renamed, RadioInv
<1>5. CASE RxBind
  <2>1. SameReport(peers, peers')
    BY <1>5, RxBindEffect DEF Rebound
  <2> QED BY <1>1, <1>5, <2>1, OtherRadioInv DEF RxBind, air, SameReport, RadioInv
<1>6. CASE HandleAp
  <2>1. SameReport(peers, peers')
    BY <1>6, HandleApEffect
  <2>2. events # <<>> /\ events' = Tail(events) /\ radio' = radio
    BY <1>6 DEF HandleAp, LoopFree
  <2>3. \A i \in 1..Len(events') : Truthful(events'[i], radio)
    BY <2>2, HeadTruthful
  <2> QED BY <1>1, <2>1, <2>2, <2>3, OtherRadioInv DEF SameReport
<1>7. CASE HandleReport
  <2> DEFINE e == Head(events)
  <2>1. events # <<>> /\ events' = Tail(events) /\ radio' = radio
    BY <1>7 DEF HandleReport, LoopFree
  <2>2. Truthful(e, radio) /\ \A i \in 1..Len(events') : Truthful(events'[i], radio)
    BY <2>1, HeadTruthful
  <2>3. CASE Renamed(peers, peers')
    BY <1>1, <2>1, <2>2, <2>3, OtherRadioInv DEF Renamed
  <2>4. CASE /\ peers'.radioBoot = e.boot /\ peers'.radioGeneration = e.generation
             /\ peers'.reconciled = peers'.generation /\ MacsOf(peers') = ToSet(e.macs)
    <3>1. e.kind = "report" /\ peers'.generation \in Nat
      BY <1>1, <1>7, Entries DEF HandleReport
    <3> HIDE DEF e
    <3> QED BY <2>1, <2>2, <2>4, <3>1 DEF RadioInv, Truthful
  <2> QED BY <1>7, <2>3, <2>4, HandleReportEffect
<1>8. CASE (\E m \in Macs : RadioJoin(m) \/ RadioLeave(m)) \/ ApStop
  BY <1>8, RadioMoves, RadioMovesInv DEF LinkInv
<1>9. CASE ApStart
  <2> DEFINE e == [kind |-> "start"]
  <2>1. peers' = peers /\ events' = Append(events, e) /\ radio' = [radio EXCEPT !.up = TRUE]
    BY <1>9 DEF ApStart, table
  <2>2. /\ radio'.boot = radio.boot /\ radio'.generation = radio.generation
        /\ radio'.stations = radio.stations
    BY <2>1 DEF Shapes, Radios
  <2>3. e.kind # "report"
    OBVIOUS
  <2> HIDE DEF e
  <2>4. \A i \in 1..Len(events') : (i \in 1..Len(events) /\ events'[i] = events[i]) \/ events'[i] = e
    BY <1>1, <2>1
  <2>5. \A i \in 1..Len(events') : Truthful(events'[i], radio')
    BY <2>2, <2>3, <2>4 DEF RadioInv, Truthful
  <2> QED BY <2>1, <2>2, <2>5 DEF RadioInv
<1>10. CASE RadioRestart
  BY <1>10, RestartInv
<1>11. CASE RefreshRequest
  <2>1. peers' = peers /\ radio' = radio /\ events' = WithReport(events, radio) /\ radio \in Radios
    BY <1>11 DEF RefreshRequest, table, Shapes
  <2>2. \A i \in 1..Len(events') : Truthful(events'[i], radio)
    BY <1>1, <2>1, WithReportTruthful DEF RadioInv
  <2> QED BY <2>1, <2>2 DEF RadioInv
<1>12. CASE UNCHANGED vars
  BY <1>2, <1>12 DEF vars, table, air
<1>13. CASE ListRead \/ ListStations \/ StateSet \/ LoopRetire \/ RefreshRetire
  BY <1>2, <1>13 DEF ListRead, ListStations, StateSet, LoopRetire, RefreshRetire, air
<1>14. CASE RxTake \/ RxLookup \/ (\E m \in Macs : FrameIn(m)) \/ Transmit
  BY <1>2, <1>14 DEF RxTake, RxLookup, FrameIn, Transmit, Publish, WorkerTake, WorkerCheck, WorkerBegin,
                     WorkerSend, WorkerDone, table, air
<1> QED BY <1>3, <1>4, <1>5, <1>6, <1>7, <1>8, <1>9, <1>10, <1>11, <1>12, <1>13, <1>14
        DEF Next, Listing, Loop, Refresh, Radio, Receive

-----------------------------------------------------------------------------
(* Starts and stops on their way to the link.                              *)

(* An event that fits the radio's last state goes behind the others.       *)
LEMMA AlternatesOn ==
  ASSUME NEW q \in Seq(Event), NEW e \in Event, NEW a, NEW b, NEW c \in BOOLEAN,
         Alternates(q, a, b), Switch(e, b, c)
  PROVE  Alternates(Append(q, e), a, c)
<1> DEFINE n == Len(q)
<1>1. PICK up \in [0..n -> BOOLEAN] :
        up[0] = a /\ up[n] = b /\ \A i \in 1..n : Switch(q[i], up[i - 1], up[i])
  BY DEF Alternates
<1>2. /\ n \in Nat /\ Len(Append(q, e)) = n + 1 /\ Append(q, e)[n + 1] = e
      /\ \A i \in 1..n : Append(q, e)[i] = q[i]
  OBVIOUS
<1> DEFINE now == [i \in 0..n + 1 |-> IF i = n + 1 THEN c ELSE up[i]]
<1> HIDE DEF n
<1>3. /\ now \in [0..n + 1 -> BOOLEAN] /\ now[0] = a /\ now[n + 1] = c /\ now[n] = b
      /\ \A i \in 0..n : now[i] = up[i]
  BY <1>1, <1>2
<1> HIDE DEF now
<1>4. ASSUME NEW i \in 1..n + 1 PROVE Switch(Append(q, e)[i], now[i - 1], now[i])
  <2>1. CASE i = n + 1
    <3>1. i - 1 = n
      BY <1>2, <2>1
    <3> QED BY <1>2, <1>3, <2>1, <3>1
  <2>2. CASE i \in 1..n
    <3>1. i \in 0..n /\ i - 1 \in 0..n
      BY <1>2, <2>2
    <3> QED BY <1>1, <1>2, <1>3, <2>2, <3>1
  <2> QED BY <1>2, <2>1, <2>2
<1> QED BY <1>2, <1>3, <1>4 DEF Alternates

(* The first event fits the link, and the others what it makes of it.      *)
LEMMA AlternatesAfter ==
  ASSUME NEW q \in Seq(Event), q # <<>>, NEW a, NEW b, Alternates(q, a, b)
  PROVE  \E c \in BOOLEAN : Switch(Head(q), a, c) /\ Alternates(Tail(q), c, b)
<1> DEFINE n == Len(q)
<1>1. PICK up \in [0..n -> BOOLEAN] :
        up[0] = a /\ up[n] = b /\ \A i \in 1..n : Switch(q[i], up[i - 1], up[i])
  BY DEF Alternates
<1>2. /\ n \in Nat \ {0} /\ Len(Tail(q)) = n - 1 /\ Head(q) = q[1]
      /\ \A i \in 1..n - 1 : Tail(q)[i] = q[i + 1]
  OBVIOUS
<1> DEFINE now == [i \in 0..n - 1 |-> up[i + 1]]
<1> HIDE DEF n
<1>3. 1 \in 1..n /\ 1 \in 0..n /\ 1 - 1 = 0 /\ \A i \in 0..n - 1 : i + 1 \in 0..n
  BY <1>2
<1>4. /\ now \in [0..n - 1 -> BOOLEAN] /\ now[0] = up[1] /\ now[n - 1] = b /\ up[1] \in BOOLEAN
      /\ \A i \in 0..n - 1 : now[i] = up[i + 1]
  BY <1>1, <1>2, <1>3
<1> HIDE DEF now
<1>5. ASSUME NEW i \in 1..n - 1 PROVE Switch(Tail(q)[i], now[i - 1], now[i])
  <2>1. /\ i + 1 \in 1..n /\ (i + 1) - 1 = i /\ i \in 0..n - 1 /\ i - 1 \in 0..n - 1
        /\ (i - 1) + 1 = i
    BY <1>2
  <2>2. Switch(q[i + 1], up[i], up[i + 1])
    BY <1>1, <2>1
  <2> QED BY <1>2, <1>4, <2>1, <2>2
<1>6. Switch(Head(q), a, up[1])
  BY <1>1, <1>2, <1>3
<1>7. Alternates(Tail(q), up[1], b)
  BY <1>2, <1>4, <1>5 DEF Alternates
<1> QED BY <1>4, <1>6, <1>7

(* Reports neither start nor stop the access point.                        *)
LEMMA AlternatesReported ==
  ASSUME NEW q \in Seq(Event), NEW r \in Radios, NEW a, NEW b \in BOOLEAN, Alternates(q, a, b)
  PROVE  Alternates(WithReport(q, r), a, b)
<1>1. ASSUME NEW e, Tells(e, r), WithReport(q, r) = Append(q, e)
      PROVE  Alternates(WithReport(q, r), a, b)
  <2>1. e \in Event /\ Switch(e, b, b)
    BY <1>1 DEF Tells, Switch
  <2> QED BY <1>1, <2>1, AlternatesOn
<1> QED BY <1>1, WithReportQueue

(* Every step keeps starts and stops in turn.                              *)
LEMMA LinkStep ==
  ASSUME Shapes, Distinct(peers), LinkInv, [Next]_vars
  PROVE  LinkInv'
<1>1. /\ events \in Seq(Event) /\ radio \in Radios /\ radio.up \in BOOLEAN
      /\ link \in BOOLEAN /\ LinkNow \in BOOLEAN
      /\ owed \in [loop : {"none", "bump", "up", "down"}, refresh : BOOLEAN]
  BY DEF Shapes, Radios, LinkNow
<1>2. /\ owed.loop = "down" => link
      /\ ~radio.up => radio.stations = <<>>
      /\ Alternates(events, LinkNow, radio.up)
  BY DEF LinkInv
<1>3. CASE UNCHANGED <<link, events, radio>> /\ owed'.loop = owed.loop
  BY <1>3 DEF LinkInv, LinkNow
<1>4. CASE HandleAp
  <2> DEFINE e == Head(events)
  <2>1. /\ e.kind \in {"join", "leave", "start", "stop"} /\ owed.loop = "none"
        /\ owed' = [owed EXCEPT !.loop = Retires(e.kind)]
    BY <1>4, HandleApEffect, EventFields
  <2>2. events # <<>> /\ events' = Tail(events) /\ UNCHANGED <<link, radio>>
    BY <1>4 DEF HandleAp, LoopFree
  <2> HIDE DEF e
  <2>3. owed'.loop = Retires(e.kind) /\ LinkNow = link
    BY <1>1, <2>1 DEF LinkNow
  <2>4. PICK c \in BOOLEAN : Switch(e, link, c) /\ Alternates(Tail(events), c, radio.up)
    BY <1>1, <1>2, <2>2, <2>3, AlternatesAfter DEF e
  <2>5. LinkNow' = c /\ (owed'.loop = "down" => link)
    <3>1. CASE e.kind = "start"
      <4>1. owed'.loop = "up" /\ c
        BY <2>3, <2>4, <3>1 DEF Retires, Switch
      <4> QED BY <4>1 DEF LinkNow
    <3>2. CASE e.kind = "stop"
      <4>1. owed'.loop = "down" /\ ~c /\ link
        BY <2>3, <2>4, <3>2 DEF Retires, Switch
      <4> QED BY <4>1 DEF LinkNow
    <3>3. CASE e.kind \in {"join", "leave"}
      <4>1. owed'.loop = "bump" /\ c = link /\ link' = link
        BY <2>2, <2>3, <2>4, <3>3 DEF Retires, Switch
      <4> QED BY <4>1 DEF LinkNow
    <3> QED BY <2>1, <3>1, <3>2, <3>3
  <2> QED BY <1>2, <2>2, <2>4, <2>5 DEF LinkInv
<1>5. CASE HandleReport
  <2> DEFINE e == Head(events)
  <2>1. /\ e.kind = "report" /\ owed.loop = "none"
        /\ \E next \in {"none", "bump"} : owed' = [owed EXCEPT !.loop = next]
    BY <1>5, HandleReportEffect
  <2>2. events # <<>> /\ events' = Tail(events) /\ UNCHANGED <<link, radio>>
    BY <1>5 DEF HandleReport, LoopFree
  <2> HIDE DEF e
  <2>3. owed'.loop \in {"none", "bump"} /\ LinkNow = link /\ LinkNow' = link
    BY <1>1, <2>1, <2>2 DEF LinkNow
  <2>4. PICK c \in BOOLEAN : Switch(e, link, c) /\ Alternates(Tail(events), c, radio.up)
    BY <1>1, <1>2, <2>2, <2>3, AlternatesAfter DEF e
  <2>5. c = link
    BY <2>1, <2>4 DEF Switch
  <2> QED BY <1>2, <2>2, <2>3, <2>4, <2>5 DEF LinkInv
<1>6. CASE LoopRetire
  <2>1. /\ owed' = [owed EXCEPT !.loop = "none"] /\ UNCHANGED <<events, radio>>
        /\ link' = IF owed.loop = "bump" THEN link ELSE owed.loop = "up"
        /\ owed.loop # "none"
    BY <1>6 DEF LoopRetire, air
  <2>2. owed'.loop = "none"
    BY <1>1, <2>1
  <2>3. LinkNow' = link'
    BY <2>2 DEF LinkNow
  <2>4. link' = LinkNow
    <3>1. owed.loop \in {"bump", "up", "down"}
      BY <1>1, <2>1
    <3>2. CASE owed.loop = "bump"
      BY <2>1, <3>2 DEF LinkNow
    <3>3. CASE owed.loop = "up"
      BY <2>1, <3>3 DEF LinkNow
    <3>4. CASE owed.loop = "down"
      BY <2>1, <3>4 DEF LinkNow
    <3> QED BY <3>1, <3>2, <3>3, <3>4
  <2> QED BY <1>2, <2>1, <2>2, <2>3, <2>4 DEF LinkInv
<1>7. CASE (\E m \in Macs : RadioJoin(m) \/ RadioLeave(m)) \/ ApStop
  <2>1. Moves
    BY <1>2, <1>7, RadioMoves
  <2>2. UNCHANGED <<link, owed>> /\ radio' \in Radios /\ (~radio'.up => radio'.stations = <<>>)
    BY <2>1 DEF Moves, table
  <2>3. PICK e \in Event :
          /\ events' = WithReport(Append(events, e), radio')
          /\ \/ e.kind \in {"join", "leave"} /\ radio'.up = radio.up
             \/ e.kind = "stop" /\ radio.up /\ ~radio'.up
    BY <2>1 DEF Moves
  <2>4. radio'.up \in BOOLEAN /\ Append(events, e) \in Seq(Event)
    BY <1>1, <2>2 DEF Radios
  <2>5. Switch(e, radio.up, radio'.up)
    BY <2>3 DEF Switch
  <2>6. Alternates(Append(events, e), LinkNow, radio'.up)
    BY <1>1, <1>2, <2>4, <2>5, AlternatesOn
  <2>7. Alternates(events', LinkNow, radio'.up)
    BY <2>2, <2>3, <2>4, <2>6, AlternatesReported
  <2> QED BY <1>2, <2>2, <2>7 DEF LinkInv, LinkNow
<1>8. CASE ApStart
  <2> DEFINE e == [kind |-> "start"]
  <2>1. /\ ~radio.up /\ radio' = [radio EXCEPT !.up = TRUE] /\ events' = Append(events, e)
        /\ UNCHANGED <<link, owed>>
    BY <1>8 DEF ApStart, table
  <2>2. e \in Event /\ e.kind = "start"
    BY DEF Event
  <2>3. radio'.up = TRUE
    BY <1>1, <2>1 DEF Radios
  <2> HIDE DEF e
  <2>4. Switch(e, radio.up, TRUE)
    BY <2>1, <2>2 DEF Switch
  <2>5. Alternates(events', LinkNow, TRUE)
    BY <1>1, <1>2, <2>1, <2>2, <2>4, AlternatesOn
  <2> QED BY <1>2, <2>1, <2>3, <2>5 DEF LinkInv, LinkNow
<1>9. CASE RadioRestart
  <2>1. UNCHANGED <<link, owed, events>> /\ radio'.up = radio.up /\ radio'.stations = <<>>
    BY <1>9 DEF RadioRestart, NewRadio, table
  <2> QED BY <1>2, <2>1 DEF LinkInv, LinkNow
<1>10. CASE RefreshRequest
  <2>1. UNCHANGED <<link, owed, radio>> /\ events' = WithReport(events, radio)
    BY <1>10 DEF RefreshRequest, table
  <2>2. Alternates(events', LinkNow, radio.up)
    BY <1>1, <1>2, <2>1, AlternatesReported
  <2> QED BY <1>2, <2>1, <2>2 DEF LinkInv, LinkNow
<1>11. CASE UNCHANGED vars
  BY <1>3, <1>11 DEF vars, table, air
<1>12. CASE ListRead \/ ListStations \/ ListJoin \/ StateSet
  BY <1>3, <1>12 DEF ListRead, ListStations, ListJoin, StateSet, air
<1>13. CASE RefreshWarn \/ RefreshRetire
  <2>1. owed'.loop = owed.loop /\ UNCHANGED <<link, events, radio>>
    BY <1>1, <1>13 DEF RefreshWarn, RefreshRetire, air
  <2> QED BY <1>3, <2>1
<1>14. CASE RxTake \/ RxLookup \/ RxBind \/ (\E m \in Macs : FrameIn(m)) \/ Transmit
  BY <1>3, <1>14 DEF RxTake, RxLookup, RxBind, FrameIn, Transmit, Publish, WorkerTake, WorkerCheck, WorkerBegin,
                     WorkerSend, WorkerDone,
                     table, air
<1> QED BY <1>4, <1>5, <1>6, <1>7, <1>8, <1>9, <1>10, <1>11, <1>12, <1>13, <1>14
        DEF Next, Listing, Loop, Refresh, Radio, Receive

-----------------------------------------------------------------------------
(* Frames from the ring to the entries.                                    *)

(* A frame stays its sender's own while the entries stay.                  *)
LEMMA OwnStays ==
  ASSUME NEW t \in Tables, Distinct(t), NEW u \in Tables, Distinct(u),
         Stands(t, u) \/ (Succeeds(t, u) /\ u.generation = t.generation),
         NEW f, Own(t, f)
  PROVE  Own(u, f)
<1>1. CASE f.association = 0
  BY <1>1 DEF Own
<1>2. CASE f.association # 0
  <2>1. AssociationOf(t, f.mac) = f.association
    BY <1>2 DEF Own
  <2>2. Find(t, f.mac) # {}
    BY <1>2, <2>1, FindNone
  <2>3. PICK s \in Occupied(t) : t.entries[s].mac = f.mac
    BY <2>2, FindNone
  <2>4. t.entries[s].association = f.association
    BY <2>1, <2>3, FindOne
  <2>5. s \in Occupied(u) /\ u.entries[s].mac = f.mac /\ u.entries[s].association = f.association
    BY <2>3, <2>4 DEF Stands, Succeeds, Remains
  <2>6. AssociationOf(u, f.mac) = f.association
    BY <2>5, FindOne
  <2> QED BY <2>6 DEF Own
<1> QED BY <1>1, <1>2

(* A frame stays its sender's own under another report.                    *)
LEMMA RenamedOwn ==
  ASSUME NEW t, NEW u, Restated(t, u), NEW f, Own(t, f)
  PROVE  Own(u, f)
BY RestatedSame DEF Own

(* A handler owes a new link generation for every association it ends.     *)
LEMMA RingStep ==
  ASSUME Shapes, Distinct(peers), LinkInv, RingInv, [Next]_vars
  PROVE  RingInv'
<1>1. /\ peers \in Tables /\ linkGeneration \in Nat /\ ring \in Seq(RingFrames)
      /\ owed \in [loop : {"none", "bump", "up", "down"}, refresh : BOOLEAN]
      /\ \A i \in 1..Len(ring) : ring[i].generation \in Nat
  <2>1. /\ peers \in Tables /\ linkGeneration \in Nat /\ ring \in Seq(RingFrames)
        /\ owed \in [loop : {"none", "bump", "up", "down"}, refresh : BOOLEAN]
    BY DEF Shapes
  <2>2. \A i \in 1..Len(ring) : ring[i] \in RingFrames
    BY <2>1
  <2> QED BY <2>1, <2>2 DEF RingFrames
<1>2. peers' \in Tables /\ Distinct(peers') /\ Succeeds(peers, peers')
  BY TableStep
<1>3. CASE UNCHANGED <<ring, linkGeneration, peers>> /\ owed'.loop = owed.loop
  BY <1>3 DEF RingInv
<1>4. CASE ring' = ring /\ linkGeneration' = linkGeneration + 1
  BY <1>1, <1>4 DEF RingInv
<1>5. CASE ring' = ring /\ linkGeneration' = linkGeneration /\ owed'.loop \notin {"none", "up"}
  BY <1>5 DEF RingInv
<1>6. ASSUME ring' = ring, linkGeneration' = linkGeneration, owed.loop \in {"none", "up"},
             \A i \in 1..Len(ring) : Own(peers, ring[i]) => Own(peers', ring[i])
      PROVE  RingInv'
  BY <1>6 DEF RingInv
<1>7. CASE ListJoin \/ RefreshWarn
  <2>1. ring' = ring /\ linkGeneration' = linkGeneration /\ owed'.loop = owed.loop
    BY <1>1, <1>7 DEF ListJoin, RefreshWarn, receive
  <2>2. CASE owed.loop \in {"none", "up"}
    <3>1. ASSUME NEW i \in 1..Len(ring), Own(peers, ring[i]) PROVE Own(peers', ring[i])
      <4>1. CASE ListJoin
        BY <1>1, <1>2, <3>1, <4>1, ListJoinEffect, OwnStays
      <4>2. CASE RefreshWarn
        BY <3>1, <4>2, RefreshWarnEffect, RenamedOwn DEF Renamed
      <4> QED BY <1>7, <4>1, <4>2
    <3> QED BY <1>6, <2>1, <2>2, <3>1
  <2> QED BY <1>5, <2>1, <2>2
<1>8. CASE RxBind
  <2>1. ring' = ring /\ linkGeneration' = linkGeneration /\ owed' = owed
    BY <1>8 DEF RxBind
  <2>2. peers'.generation = peers.generation
    BY <1>8, RxBindEffect DEF Rebound
  <2>3. \A i \in 1..Len(ring) : Own(peers, ring[i]) => Own(peers', ring[i])
    BY <1>1, <1>2, <2>2, OwnStays
  <2> QED BY <1>5, <1>6, <2>1, <2>3
<1>9. CASE HandleAp
  <2> DEFINE e == Head(events)
  <2>1. /\ e.kind \in {"join", "leave", "start", "stop"} /\ owed.loop = "none"
        /\ owed' = [owed EXCEPT !.loop = Retires(e.kind)]
        /\ e.kind = "start" => peers' = peers
    BY <1>9, HandleApEffect, EventFields
  <2>2. ring' = ring /\ linkGeneration' = linkGeneration
    BY <1>9 DEF HandleAp, receive
  <2> HIDE DEF e
  <2>3. owed'.loop = Retires(e.kind)
    BY <1>1, <2>1
  <2>4. CASE e.kind = "start"
    BY <1>6, <2>1, <2>2, <2>4
  <2>5. CASE e.kind # "start"
    <3>1. owed'.loop \in {"bump", "down"}
      BY <2>3, <2>5 DEF Retires
    <3> QED BY <1>5, <2>2, <3>1
  <2> QED BY <2>4, <2>5
<1>10. CASE HandleReport
  <2>1. ring' = ring /\ linkGeneration' = linkGeneration
    BY <1>10 DEF HandleReport, receive
  <2>2. CASE Renamed(peers, peers')
    <3>1. owed.loop = "none"
      BY <1>10, HandleReportEffect
    <3>2. \A i \in 1..Len(ring) : Own(peers, ring[i]) => Own(peers', ring[i])
      BY <2>2, RenamedOwn DEF Renamed
    <3> QED BY <1>6, <2>1, <3>1, <3>2
  <2>3. CASE owed' = [owed EXCEPT !.loop = "bump"]
    BY <1>1, <1>5, <2>1, <2>3
  <2> QED BY <1>10, <2>2, <2>3, HandleReportEffect
<1>11. CASE LoopRetire
  <2>1. /\ ring' = ring /\ peers' = peers /\ owed.loop # "none"
        /\ link' = IF owed.loop = "bump" THEN link ELSE owed.loop = "up"
        /\ linkGeneration' = IF owed.loop = "bump" \/ link' # link THEN linkGeneration + 1
                             ELSE linkGeneration
    BY <1>11 DEF LoopRetire, receive
  <2>2. CASE owed.loop = "up" /\ link' = link
    BY <1>6, <2>1, <2>2
  <2>3. CASE owed.loop = "bump" \/ link' # link
    BY <1>4, <2>1, <2>3
  <2>4. owed.loop = "down" => link' # link
    BY <2>1 DEF LinkInv
  <2>5. owed.loop \in {"bump", "up", "down"}
    BY <1>1, <2>1
  <2> QED BY <2>2, <2>3, <2>4, <2>5
<1>12. CASE RxTake
  <2>1. ring # <<>> /\ ring' = Tail(ring) /\ UNCHANGED <<peers, linkGeneration, owed>>
    BY <1>12 DEF RxTake, table
  <2>2. /\ Len(ring) \in Nat \ {0} /\ Len(ring') = Len(ring) - 1
        /\ \A i \in 1..Len(ring) - 1 : ring'[i] = ring[i + 1]
    BY <1>1, <2>1
  <2>3. \A i \in 1..Len(ring') : i + 1 \in 1..Len(ring) /\ ring'[i] = ring[i + 1]
    BY <2>2
  <2> QED BY <2>1, <2>3 DEF RingInv
<1>13. ASSUME NEW m \in Macs, FrameIn(m) PROVE RingInv'
  <2> DEFINE f == [mac |-> m, generation |-> linkGeneration, association |-> AssociationOf(peers, m)]
  <2>1. ring' = Append(ring, f) /\ UNCHANGED <<peers, linkGeneration, owed>>
    BY <1>13 DEF FrameIn, table
  <2>2. Own(peers, f) /\ f.generation = linkGeneration /\ f \in RingFrames
    BY <1>1, AssociationNumber DEF Own, RingFrames
  <2> HIDE DEF f
  <2>3. \A i \in 1..Len(ring') : (i \in 1..Len(ring) /\ ring'[i] = ring[i]) \/ ring'[i] = f
    BY <1>1, <2>1, <2>2
  <2> QED BY <1>1, <2>1, <2>2, <2>3 DEF RingInv
<1>14. CASE UNCHANGED vars
  BY <1>3, <1>14 DEF vars, table, receive
<1>15. CASE ListRead \/ ListStations \/ StateSet \/ RefreshRetire
  <2>1. CASE ListRead \/ ListStations
    BY <1>3, <2>1 DEF ListRead, ListStations, receive
  <2>2. CASE StateSet \/ RefreshRetire
    BY <1>4, <2>2 DEF StateSet, RefreshRetire, receive
  <2> QED BY <1>15, <2>1, <2>2
<1>16. CASE RefreshRequest \/ Radio
  BY <1>3, <1>16 DEF RefreshRequest, Radio, ApStop, ApStart, RadioRestart, RadioJoin, RadioLeave,
                     RadioChange, table, receive
<1>17. CASE RxLookup \/ Transmit
  BY <1>3, <1>17 DEF RxLookup, Transmit, Publish, WorkerTake, WorkerCheck, WorkerBegin,
                     WorkerSend, WorkerDone, table, receive
<1> QED BY <1>7, <1>8, <1>9, <1>10, <1>11, <1>12, <1>13, <1>14, <1>15, <1>16, <1>17
        DEF Next, Listing, Loop, Refresh, Receive

(* A frame taken early is known to be, until it is bound.                  *)
LEMMA TakenStep ==
  ASSUME Shapes, Distinct(peers), RingInv, TakenInv, [Next]_vars
  PROVE  TakenInv'
<1>1. /\ peers \in Tables /\ ring \in Seq(RingFrames) /\ peers.generation \in Nat
      /\ rx # Idle => rx \in Receptions /\ rx.table \in Nat
  BY Entries DEF Shapes, Receptions
<1>2. /\ peers' \in Tables /\ Distinct(peers') /\ Succeeds(peers, peers')
      /\ peers'.generation \in Nat /\ peers'.generation >= peers.generation
  BY TableStep, Entries DEF Succeeds
<1>3. CASE rx' = rx
  <2>1. ASSUME rx # Idle, rx.table = peers'.generation, Own(peers, rx.frame)
        PROVE  Own(peers', rx.frame)
    <3>1. peers'.generation = peers.generation
      BY <1>1, <1>2, <2>1 DEF TakenInv
    <3> QED BY <1>1, <1>2, <2>1, <3>1, OwnStays
  <2>2. rx # Idle => rx.table <= peers.generation /\ rx.table <= peers'.generation
    BY <1>1, <1>2 DEF TakenInv
  <2>3. rx # Idle /\ rx.table = peers'.generation => rx.table = peers.generation
    BY <1>1, <1>2, <2>2
  <2> QED BY <1>3, <2>1, <2>2, <2>3 DEF TakenInv
<1>4. CASE rx' = Idle
  BY <1>4 DEF TakenInv
<1>5. CASE RxTake
  <2> DEFINE b == owed.loop # "none" \/ owed.refresh
             f == Head(ring)
  <2>1. /\ ring # <<>> /\ peers' = peers
        /\ rx' = IF f.generation = linkGeneration
                 THEN [frame |-> f, association |-> 0, table |-> peers.generation, early |-> b]
                 ELSE Idle
    BY <1>5 DEF RxTake, Current, table
  <2>2. f = ring[1] /\ 1 \in 1..Len(ring)
    BY <1>1, <2>1
  <2>3. f.generation = linkGeneration /\ ~b => Own(peers, f)
    BY <2>2 DEF RingInv
  <2> HIDE DEF b, f
  <2>4. CASE rx' = [frame |-> f, association |-> 0, table |-> peers.generation, early |-> b]
             /\ f.generation = linkGeneration
    <3>1. rx'.frame = f /\ rx'.association = 0 /\ rx'.table = peers.generation /\ rx'.early = b
      BY <2>4
    <3> QED BY <1>1, <2>1, <2>3, <2>4, <3>1 DEF TakenInv
  <2> QED BY <1>4, <2>1, <2>4
<1>6. CASE RxLookup
  <2> DEFINE b == rx.early \/ rx.table # peers.generation
             a == AssociationOf(peers, rx.frame.mac)
  <2>1. /\ rx # Idle /\ rx.association = 0 /\ peers' = peers
        /\ \/ rx' = Idle
           \/ rx' = [rx EXCEPT !.association = a, !.early = b]
    BY <1>6 DEF RxLookup, table
  <2>2. /\ rx.table <= peers.generation
        /\ ~b => rx.frame.association \in {0, a}
    BY <2>1 DEF TakenInv, Own
  <2>3. Find(peers, rx.frame.mac) # {} => a # 0
    <3>1. ASSUME NEW s \in Occupied(peers), peers.entries[s].mac = rx.frame.mac PROVE a # 0
      <4>1. a = peers.entries[s].association
        BY <3>1, FindOne
      <4> QED BY <1>1, <4>1 DEF Distinct
    <3> QED BY <3>1, FindNone
  <2>4. rx' # Idle => Find(peers, rx.frame.mac) # {}
    BY <1>6 DEF RxLookup
  <2> HIDE DEF a, b
  <2>5. CASE rx' = [rx EXCEPT !.association = a, !.early = b] /\ a # 0
    <3>1. rx'.frame = rx.frame /\ rx'.association = a /\ rx'.table = rx.table /\ rx'.early = b
      BY <1>1, <2>1, <2>5 DEF Receptions
    <3> QED BY <2>1, <2>2, <2>5, <3>1 DEF TakenInv
  <2> QED BY <1>4, <2>1, <2>3, <2>4, <2>5
<1>7. CASE RxBind
  BY <1>4, <1>7 DEF RxBind
<1>8. CASE UNCHANGED vars \/ Listing \/ Loop \/ Refresh
  BY <1>3, <1>8 DEF vars, Listing, ListRead, ListStations, ListJoin, StateSet, Loop, HandleAp,
                    HandleReport, LoopRetire, Refresh, RefreshRequest, RefreshWarn, RefreshRetire,
                    receive
<1>9. CASE Radio \/ (\E m \in Macs : FrameIn(m)) \/ Transmit
  BY <1>3, <1>9 DEF Radio, ApStop, ApStart, RadioRestart, RadioJoin, RadioLeave, RadioChange,
                    FrameIn, Transmit, Publish, WorkerTake, WorkerCheck, WorkerBegin,
                    WorkerSend, WorkerDone, receive
<1> QED BY <1>5, <1>6, <1>7, <1>8, <1>9 DEF Next, Receive

(* Every step binds a frame to its own association, or one taken early.    *)
LEMMA LateStep ==
  ASSUME Shapes, Distinct(peers), TakenInv, LateFrameOnlyInWindow, [Next]_vars
  PROVE  LateFrameOnlyInWindow'
<1> DEFINE Fine(e) == \/ e.heard = NoFrame \/ e.heard.association = e.association
                      \/ e.heard.association = 0 \/ e.heard.early
<1>1. \A s \in Occupied(peers) : Fine(peers.entries[s])
  BY DEF LateFrameOnlyInWindow
<1>2. SUFFICES \A s \in Occupied(peers)' : Fine(peers'.entries[s])
  BY DEF LateFrameOnlyInWindow
<1>3. CASE Silent(peers, peers')
  BY <1>1, <1>3 DEF Silent
<1>4. CASE UNCHANGED peers
  BY <1>1, <1>4
<1>5. CASE RxBind
  <2>1. /\ Rebound(peers, peers')
        /\ \A s \in Occupied(peers) :
             \/ peers'.entries[s] = peers.entries[s]
             \/ /\ peers.entries[s].association = rx.association
                /\ peers'.entries[s].heard =
                     [association |-> rx.frame.association, early |-> rx.early]
    BY <1>5, RxBindEffect
  <2>2. ~rx.early => rx.frame.association \in {0, rx.association}
    BY <1>5 DEF RxBind, TakenInv
  <2>3. ASSUME NEW s \in Occupied(peers) PROVE Fine(peers'.entries[s])
    <3>1. CASE peers'.entries[s] = peers.entries[s]
      BY <1>1, <3>1
    <3>2. CASE /\ peers.entries[s].association = rx.association
               /\ peers'.entries[s].heard =
                    [association |-> rx.frame.association, early |-> rx.early]
      <4>1. peers'.entries[s].association = rx.association
        BY <2>1, <3>2 DEF Rebound, Remains
      <4>2. /\ peers'.entries[s].heard.association = rx.frame.association
            /\ peers'.entries[s].heard.early = rx.early
        BY <3>2
      <4> QED BY <2>2, <4>1, <4>2
    <3> QED BY <2>1, <3>1, <3>2
  <2> QED BY <2>1, <2>3 DEF Rebound
<1> QED BY <1>3, <1>4, <1>5, TableActions, ListJoinEffect, HandleApEffect, HandleReportEffect,
           RefreshWarnEffect DEF Follows

-----------------------------------------------------------------------------
(* Copies of the table for the worker.                                     *)

(* A copy goes on tracking the entry, or the entry is gone for good.       *)
LEMMA TracksStay ==
  ASSUME Shapes, Distinct(peers), [Next]_vars, NEW e \in Copies, Tracks(peers, e)
  PROVE  Tracks(peers', e)
<1>1. /\ peers' \in Tables /\ Succeeds(peers, peers') /\ e.association \in Nat
      /\ peers.generation \in Nat /\ peers'.generation \in Nat
      /\ peers'.generation >= peers.generation
  BY TableStep, Entries DEF Shapes, Succeeds, Copies
<1>2. ASSUME NEW s \in Occupied(peers'), peers'.entries[s].association = e.association
      PROVE  e.mac = peers'.entries[s].mac /\ e.port = LogicalPort(PhysicalPort, s)
  <2>1. Remains(peers, peers', s)
    BY <1>1, <1>2 DEF Succeeds, Tracks
  <2> QED BY <1>2, <2>1 DEF Remains, Tracks
<1> QED BY <1>1, <1>2 DEF Tracks

(* A copy of the present table tracks it.                                  *)
LEMMA SnapshotTracks ==
  ASSUME peers \in Tables, Distinct(peers), NEW e \in Snapshot(peers)
  PROVE  e \in Copies /\ Tracks(peers, e)
<1>1. PICK r \in Occupied(peers) :
        /\ e.mac = peers.entries[r].mac /\ e.association = peers.entries[r].association
        /\ e.port = LogicalPort(PhysicalPort, r)
  BY Copied
<1>2. e.association \in 1..peers.generation /\ peers.generation \in Nat
  BY <1>1, Entries DEF Distinct
<1>3. \A s \in Occupied(peers) : peers.entries[s].association = e.association => s = r
  BY <1>1 DEF Distinct
<1> QED BY <1>1, <1>2, <1>3, Copied DEF Tracks

(* The worker's steps change nothing but the mailbox and the worker.       *)
LEMMA OnlyTransmit ==
  ASSUME [Next]_vars, ~Transmit
  PROVE  UNCHANGED <<item, worker>>
<1>1. CASE UNCHANGED vars \/ Listing \/ Loop \/ Refresh
  BY <1>1 DEF vars, Listing, ListRead, ListStations, ListJoin, StateSet, Loop, HandleAp,
              HandleReport, LoopRetire, Refresh, RefreshRequest, RefreshWarn, RefreshRetire,
              transmit
<1>2. CASE Radio \/ Receive
  BY <1>2 DEF Radio, ApStop, ApStart, RadioRestart, RadioJoin, RadioLeave, RadioChange,
              Receive, RxTake, RxLookup, RxBind, FrameIn, transmit
<1> QED BY <1>1, <1>2 DEF Next

(* Every step keeps the copied entries apart from later associations.      *)
LEMMA ItemStep ==
  ASSUME Shapes, Distinct(peers), ItemInv, [Next]_vars
  PROVE  ItemInv'
<1>1. item # NoItem => item.peers \subseteq Copies
  BY DEF Shapes, Items
<1>2. CASE item' = item
  BY <1>1, <1>2, TracksStay DEF ItemInv
<1>3. CASE Publish
  <2>1. peers' = peers /\ item'.peers = Snapshot(peers)
    BY <1>3 DEF Publish, table
  <2> QED BY <2>1, SnapshotTracks DEF ItemInv, Shapes
<1>4. CASE WorkerTake
  BY <1>4 DEF WorkerTake, ItemInv
<1> QED BY <1>2, <1>3, <1>4, OnlyTransmit
       DEF Transmit, WorkerCheck, WorkerBegin, WorkerSend, WorkerDone

(* So it does for the entries of the item that the worker is at.           *)
LEMMA WorkerStep ==
  ASSUME Shapes, Distinct(peers), ItemInv, WorkerInv, [Next]_vars
  PROVE  WorkerInv'
<1>1. /\ worker # Idle => worker \in Workers /\ worker.peers \subseteq Copies
      /\ item # NoItem => item.peers \subseteq Copies
  BY DEF Shapes, Items, Workers
<1>2. CASE UNCHANGED worker
  <2>1. ASSUME worker # Idle, NEW e \in worker.peers PROVE Tracks(peers', e)
    BY <1>1, <2>1, TracksStay DEF WorkerInv
  <2>2. ASSUME worker # Idle, worker.at # "check"
        PROVE  worker.entry \in Copies /\ Tracks(peers', worker.entry)
    BY <2>2, TracksStay DEF WorkerInv
  <2> QED BY <1>2, <2>1, <2>2 DEF WorkerInv
<1>3. CASE WorkerTake
  <2>1. /\ item # NoItem /\ peers' = peers
        /\ worker'.peers = item.peers /\ worker'.at = "check"
    BY <1>3 DEF WorkerTake, table
  <2> QED BY <2>1 DEF WorkerInv, ItemInv
<1>4. CASE WorkerCheck
  <2>1. worker # Idle /\ worker \in Workers /\ peers' = peers
    BY <1>1, <1>4 DEF WorkerCheck, table
  <2>2. PICK entry \in worker.peers :
          worker' = [worker EXCEPT !.peers = @ \ {entry}, !.entry = entry, !.at = "begin"]
    BY <1>4 DEF WorkerCheck
  <2>3. worker'.peers \subseteq worker.peers /\ worker'.entry = entry
    BY <2>1, <2>2 DEF Workers
  <2> QED BY <1>1, <2>1, <2>3 DEF WorkerInv
<1>5. ASSUME worker # Idle, worker' = Onward, peers' = peers PROVE WorkerInv'
  <2>1. worker'.peers = worker.peers /\ worker'.at = "check"
    BY <1>1, <1>5 DEF Onward, Workers
  <2> QED BY <1>5, <2>1 DEF WorkerInv
<1>6. CASE WorkerBegin
  <2>1. worker # Idle /\ worker.at = "begin" /\ peers' = peers
    BY <1>6 DEF WorkerBegin, table
  <2>2. CASE worker' = [worker EXCEPT !.at = "send", !.table = peers.generation]
    <3>1. worker'.peers = worker.peers /\ worker'.entry = worker.entry
      BY <1>1, <2>1, <2>2 DEF Workers
    <3> QED BY <2>1, <3>1 DEF WorkerInv
  <2> QED BY <1>5, <1>6, <2>1, <2>2 DEF WorkerBegin
<1>7. CASE WorkerSend
  BY <1>5, <1>7 DEF WorkerSend, table
<1>8. CASE WorkerDone
  BY <1>8 DEF WorkerDone, WorkerInv
<1> QED BY <1>2, <1>3, <1>4, <1>6, <1>7, <1>8, OnlyTransmit DEF Transmit, Publish

(* A table stays published until its generation advances.                  *)
LEMMA PublishableStays ==
  ASSUME Shapes, Distinct(peers), [Next]_vars, peers'.generation = peers.generation,
         Publishable(peers)
  PROVE  Publishable(peers')
<1>1. peers \in Tables /\ peers.generation \in Nat
  BY Entries DEF Shapes
<1>2. CASE SameReport(peers, peers')
  BY <1>2 DEF SameReport, Publishable
<1>3. CASE UNCHANGED peers
  BY <1>3
<1>4. CASE RefreshWarn
  BY <1>1, <1>4 DEF RefreshWarn, Publishable, Tables
<1>5. CASE HandleReport
  <2> DEFINE e == Head(events)
             accepted == /\ e.lifecycle /\ running /\ link
                         /\ Accepts(peers, e.boot, e.generation, e.macs)
  <2>1. CASE ~accepted
    <3>1. \E more \in BOOLEAN : peers' = [peers EXCEPT !.unreported = @ \/ more]
      BY <1>5, <2>1 DEF HandleReport
    <3> QED BY <1>1, <3>1 DEF Publishable, Tables
  <2>2. CASE accepted
    <3>1. \/ Renamed(peers, peers')
          \/ peers'.generation > peers.generation
      BY <1>5, HandleReportEffect
    <3>2. Renamed(peers, peers')
      BY <1>1, <3>1
    <3>3. e.boot # 0 /\ e.generation # 0 /\ Accepts(peers, e.boot, e.generation, e.macs)
      BY <2>2 DEF Accepts, ValidReport
    <3>4. peers' = [Reconcile(peers, e.boot, e.generation, e.macs) EXCEPT !.unreported = FALSE]
      BY <1>5, <2>2 DEF HandleReport
    <3>5. CASE peers.radioBoot = e.boot /\ peers.radioGeneration = e.generation
      <4>1. peers.reconciled = peers.generation
        BY <1>1, <3>3, <3>5 DEF Accepts, Tables
      <4> QED BY <3>2, <3>3, <3>5, <4>1 DEF Renamed, Restated, Publishable
    <3>6. CASE ~(peers.radioBoot = e.boot /\ peers.radioGeneration = e.generation)
      <4> DEFINE u == Rebuilt(peers, e.boot, e.generation, e.macs)
      <4>1. e \in Event /\ e.kind = "report"
        BY <1>5, HandleReportEffect
      <4>2. /\ e.boot \in Nat /\ e.generation \in Nat /\ e.macs \in Seq(Macs)
            /\ Len(e.macs) <= SlotCount
        BY <3>3, <4>1, EventFields DEF Accepts, ValidReport
      <4>3. u \in Tables /\ u.generation > peers.generation
        BY <1>1, <4>2, RebuiltFollows DEF Follows
      <4>4. peers' = [u EXCEPT !.unreported = FALSE]
        BY <3>4, <3>6 DEF Reconcile
      <4> HIDE DEF u
      <4>5. peers'.generation = u.generation
        BY <4>3, <4>4 DEF Tables
      <4> QED BY <1>1, <4>3, <4>5, Entries
    <3> QED BY <3>5, <3>6
  <2> QED BY <2>1, <2>2
<1> QED BY <1>2, <1>3, <1>4, <1>5, TableActions, ListJoinEffect, HandleApEffect, RxBindEffect
       DEF Rebound

(* A table of the same generation is the same to the worker.               *)
LEMMA SnapshotStays ==
  ASSUME Shapes, Distinct(peers), [Next]_vars, peers'.generation = peers.generation
  PROVE  Snapshot(peers') = Snapshot(peers)
<1>1. /\ Occupied(peers') = Occupied(peers)
      /\ \A s \in Occupied(peers) : /\ peers'.entries[s].mac = peers.entries[s].mac
                                   /\ peers'.entries[s].association = peers.entries[s].association
  BY TableStep DEF Succeeds, Remains
<1> QED BY <1>1 DEF Snapshot

(* What the claim found stays so until the registry changes.               *)
LEMMA ClaimStep ==
  ASSUME Shapes, Distinct(peers), WorkerInv, ClaimInv, [Next]_vars
  PROVE  ClaimInv'
<1>1. /\ peers \in Tables /\ peers.generation \in Nat /\ peers'.generation \in Nat
      /\ peers'.generation >= peers.generation
      /\ worker # Idle => worker \in Workers /\ worker.table \in Nat
  BY TableStep, Entries DEF Shapes, Succeeds, Workers
<1>2. CASE UNCHANGED worker
  <2>1. CASE peers'.generation = peers.generation
    <3>1. Snapshot(peers') = Snapshot(peers) /\ (Publishable(peers) => Publishable(peers'))
      BY <2>1, SnapshotStays, PublishableStays
    <3> QED BY <1>1, <1>2, <2>1, <3>1 DEF ClaimInv, SentToPresentStation
  <2>2. CASE peers'.generation > peers.generation
    BY <1>1, <1>2, <2>2 DEF ClaimInv, SentToPresentStation
  <2> QED BY <1>1, <2>1, <2>2
<1>3. ASSUME worker' = Idle \/ (worker'.at = "check" /\ worker'.table = 0) \/
             (worker'.at = "begin" /\ worker'.table = worker.table /\ worker # Idle)
      PROVE  ClaimInv'
  BY <1>1, <1>3 DEF ClaimInv, SentToPresentStation
<1>4. CASE WorkerTake
  BY <1>3, <1>4 DEF WorkerTake
<1>5. CASE WorkerCheck
  <2>1. worker # Idle /\ worker \in Workers
    BY <1>1, <1>5 DEF WorkerCheck
  <2>2. worker'.at = "begin" /\ worker'.table = worker.table
    BY <1>5, <2>1 DEF WorkerCheck, Workers
  <2> QED BY <1>3, <2>1, <2>2
<1>6. ASSUME worker # Idle, worker' = Onward PROVE ClaimInv'
  <2>1. worker'.at = "check" /\ worker'.table = 0
    BY <1>1, <1>6 DEF Onward, Workers
  <2> QED BY <1>3, <2>1
<1>7. ASSUME worker # Idle, worker.at = "begin", Claims(worker.entry), peers' = peers,
             worker' = [worker EXCEPT !.at = "send", !.table = peers.generation]
      PROVE  ClaimInv'
  <2> DEFINE entry == worker.entry
  <2>1. entry \in Copies /\ Tracks(peers, entry)
    BY <1>7 DEF WorkerInv
  <2>2. /\ worker'.table = peers.generation /\ worker'.entry = entry
    BY <1>1, <1>7 DEF Workers
  <2>3. /\ Publishable(peers) /\ Find(peers, entry.mac) # {}
        /\ AssociationOf(peers, entry.mac) = entry.association
    BY <1>7 DEF Claims
  <2> HIDE DEF entry
  <2>4. PICK s \in Occupied(peers) : peers.entries[s].mac = entry.mac
    BY <2>3, FindNone
  <2>5. peers.entries[s].association = entry.association
    BY <2>3, <2>4, FindOne DEF Shapes
  <2>6. entry.port = LogicalPort(PhysicalPort, s)
    BY <2>1, <2>5 DEF Tracks
  <2>7. entry = [mac |-> peers.entries[s].mac, association |-> peers.entries[s].association,
                 port |-> LogicalPort(PhysicalPort, s)]
    BY <2>1, <2>4, <2>5, <2>6 DEF Copies
  <2>8. entry \in Snapshot(peers)
    BY <2>7 DEF Snapshot
  <2> QED BY <1>1, <1>7, <2>2, <2>3, <2>8 DEF ClaimInv, SentToPresentStation
<1>8. CASE WorkerBegin
  <2>1. worker # Idle /\ worker.at = "begin" /\ peers' = peers
    BY <1>8 DEF WorkerBegin, table
  <2> QED BY <1>6, <1>7, <1>8, <2>1 DEF WorkerBegin
<1>9. CASE WorkerSend
  BY <1>6, <1>9 DEF WorkerSend
<1>10. CASE WorkerDone
  BY <1>3, <1>10 DEF WorkerDone
<1> QED BY <1>2, <1>4, <1>5, <1>8, <1>9, <1>10, OnlyTransmit DEF Transmit, Publish

-----------------------------------------------------------------------------
(* The theorems.                                                           *)

(* The invariant holds at the start.                                       *)
LEMMA InitInv ==
  ASSUME Init
  PROVE  TableInv
<1> USE DEF Init
<1>1. Slots # {} /\ \A s \in Slots : peers.entries[s] = NoPeer
  BY Sizes
<1>2. Occupied(peers) = {}
  BY <1>1 DEF Occupied
<1>3. /\ radio \in Radios /\ radio.boot = 1 /\ radio.up = TRUE
  <2>1. PICK m \in Macs : radio \in {NewRadio(1, <<>>), NewRadio(1, <<m>>)}
    OBVIOUS
  <2>2. \A q \in Seq(Macs) : NewRadio(1, q) \in Radios /\ NewRadio(1, q).boot = 1
                             /\ NewRadio(1, q).up = TRUE
    BY DEF NewRadio, Radios
  <2>3. <<>> \in Seq(Macs) /\ <<m>> \in Seq(Macs)
    OBVIOUS
  <2> QED BY <2>1, <2>2, <2>3
<1>4. peers \in Tables
  BY DEF Tables
<1>5. listing \in [pc : {"read", "list", "join", "done"}, attempt : 0..2, generation : Nat,
                   stations : Seq(Macs)]
  BY DEF ListAt
<1>6. events = <<>> /\ ring = <<>> /\ rx = Idle /\ item = NoItem /\ worker = Idle
  OBVIOUS
<1>7. /\ owed \in [loop : {"none", "bump", "up", "down"}, refresh : BOOLEAN]
      /\ host \in [anyReport : BOOLEAN, boot : Nat, warned : BOOLEAN]
      /\ running \in BOOLEAN /\ link \in BOOLEAN /\ linkGeneration \in Nat
  OBVIOUS
<1>8. Shapes
  BY <1>3, <1>4, <1>5, <1>6, <1>7 DEF Shapes
<1>9. Distinct(peers) /\ LateFrameOnlyInWindow
  BY <1>2 DEF Distinct, LateFrameOnlyInWindow
<1>10. RadioInv
  BY <1>3 DEF RadioInv
<1>11. LinkInv
  <2> DEFINE up == [i \in 0..0 |-> TRUE]
  <2>1. up \in [0..Len(events) -> BOOLEAN] /\ up[0] = TRUE /\ Len(events) = 0
    BY <1>6
  <2>2. LinkNow = TRUE
    BY DEF LinkNow
  <2> HIDE DEF up
  <2>3. Alternates(events, TRUE, TRUE)
    BY <2>1 DEF Alternates
  <2> QED BY <1>3, <2>2, <2>3 DEF LinkInv
<1>12. RingInv /\ TakenInv /\ ItemInv /\ WorkerInv /\ ClaimInv
  BY <1>6 DEF RingInv, TakenInv, ItemInv, WorkerInv, ClaimInv, SentToPresentStation
<1> QED BY <1>8, <1>9, <1>10, <1>11, <1>12 DEF TableInv, FrameInv

(* Every step keeps the invariant.                                         *)
LEMMA TableInvStep ==
  ASSUME TableInv, [Next]_vars
  PROVE  TableInv'
BY ShapesStep, TableStep, RadioStep, LinkStep, RingStep, TakenStep, LateStep, ItemStep,
   WorkerStep, ClaimStep
   DEF TableInv, FrameInv

(* The invariant that the theorems below rest on.                          *)
THEOREM TableInvariant == Spec => []TableInv
<1>1. Init => TableInv
  BY InitInv
<1>2. TableInv /\ [Next]_vars => TableInv'
  BY TableInvStep
<1> QED BY <1>1, <1>2, PTL DEF Spec

(* The published port numbers are no other slot's.                         *)
LEMMA RegistryHolds ==
  ASSUME TableInv
  PROVE  RegistryInv
<1>1. Shapes /\ Distinct(peers) /\ peers \in Tables
  BY DEF TableInv, Shapes
<1>2. TypeOK
  <2>1. \A i \in 1..Len(events) : events[i] \in Event
    BY <1>1 DEF Shapes
  <2>2. DOMAIN events = 1..Len(events)
    BY <1>1 DEF Shapes
  <2>3. owed.refresh \in BOOLEAN /\ owed.loop \in {"none", "bump", "up", "down"}
    BY <1>1 DEF Shapes
  <2>4. listing.pc \in {"read", "list", "join", "done"} /\ listing.attempt \in 0..2
    BY <1>1 DEF Shapes
  <2> QED BY <1>1, <2>1, <2>2, <2>3, <2>4 DEF Shapes, Tables, TypeOK
<1>3. PortsAreDisjoint
  <2>1. ASSUME NEW e \in Snapshot(peers), NEW q \in 1..PhysicalCount, NEW s \in Slots,
               LogicalPort(q, s) = e.port
        PROVE  q = PhysicalPort /\ s \in Find(peers, e.mac)
    <3>1. PICK r \in Occupied(peers) :
            e.mac = peers.entries[r].mac /\ e.port = LogicalPort(PhysicalPort, r)
      BY <1>1, Copied
    <3>2. r \in Slots /\ PhysicalPort \in 1..PhysicalCount
      BY Sizes DEF Occupied
    <3>3. q = PhysicalPort /\ s = r
      BY <2>1, <3>1, <3>2, PortsDiffer
    <3> QED BY <3>1, <3>3 DEF Find
  <2> QED BY <2>1 DEF PortsAreDisjoint
<1> QED BY <1>2, <1>3 DEF RegistryInv

(* RegistryInv of the model: every station published has a logical port    *)
(* that no other station and no slot of another port has                   *)
(* (ptp_wifi_association_port), for every number of ports and slots.       *)
THEOREM RegistryInvariant == Spec => []RegistryInv
<1>1. TableInv => RegistryInv
  BY RegistryHolds
<1> QED BY <1>1, TableInvariant, PTL

(* A registry that rests on the report of the radio's present state has    *)
(* the radio's stations, whatever queue of events the handlers still have  *)
(* to go through (ptp_wifi_peers_reconcile).                               *)
THEOREM ReconciledInvariant == Spec => []ReconciledIsRadio
<1>1. TableInv => ReconciledIsRadio
  <2> SUFFICES ASSUME TableInv, Hosted, Publishable(peers), ~peers.unreported,
                      peers.radioBoot = radio.boot, peers.radioGeneration = radio.generation
               PROVE  MacsOf(peers) = ToSet(radio.stations)
    BY DEF ReconciledIsRadio
  <2>1. peers.reconciled = peers.generation
    BY DEF Publishable
  <2> QED BY <2>1 DEF TableInv, RadioInv
<1> QED BY <1>1, TableInvariant, PTL

(* A frame received for one association is bound to a later one only when  *)
(* the daemon took it between a handler's two critical sections            *)
(* (ptp_wifi_peers_capable, s_injected_generation).                        *)
THEOREM LateFrameInvariant == Spec => []LateFrameOnlyInWindow
<1>1. TableInv => LateFrameOnlyInWindow
  BY DEF TableInv, FrameInv
<1> QED BY <1>1, TableInvariant, PTL

(* The registry's generation never falls and no association number comes   *)
(* back, across joins, leaves, stops and reports (ptp_wifi_peers_advance). *)
THEOREM AssociationsNew == Spec => AssociationsAreNew
<1> DEFINE Fresh ==
      /\ peers'.generation >= peers.generation
      /\ \A s \in Occupied(peers') :
           LET new == peers'.entries[s]
           IN \/ /\ s \in Occupied(peers)
                 /\ new.association = peers.entries[s].association /\ new.mac = peers.entries[s].mac
              \/ /\ new.association > peers.generation /\ new.association <= peers'.generation
                 /\ \A o \in Occupied(peers') \ {s} :
                       peers'.entries[o].association # new.association
<1>1. ASSUME TableInv, [Next]_vars PROVE Fresh
  <2>1. peers' \in Tables /\ Distinct(peers') /\ Succeeds(peers, peers')
    BY <1>1, TableStep DEF TableInv
  <2>2. peers'.generation >= peers.generation
    BY <2>1 DEF Succeeds
  <2>3. ASSUME NEW s \in Occupied(peers'), ~Remains(peers, peers', s)
        PROVE  /\ peers'.entries[s].association > peers.generation
               /\ peers'.entries[s].association <= peers'.generation
               /\ \A o \in Occupied(peers') \ {s} :
                     peers'.entries[o].association # peers'.entries[s].association
    <3>1. peers'.entries[s].association > peers.generation
      BY <2>1, <2>3 DEF Succeeds
    <3>2. peers'.entries[s].association \in 1..peers'.generation /\ peers'.generation \in Nat
      BY <2>1, Entries DEF Distinct
    <3> QED BY <2>1, <3>1, <3>2 DEF Distinct
  <2> QED BY <2>2, <2>3 DEF Remains
<1> HIDE DEF Fresh
<1>2. TableInv /\ [Next]_vars => [Fresh]_vars
  BY <1>1
<1>3. Spec => [][Fresh]_vars
  BY <1>2, TableInvariant, PTL DEF Spec
<1> QED BY <1>3 DEF Fresh, AssociationsAreNew

(* A station leaves its slot only by an event that ends its association.   *)
LEMMA SlotsStay ==
  ASSUME Shapes, Distinct(peers), [Next]_vars
  PROVE  /\ KeepsPorts(peers, peers')
         /\ \A m \in MacsOf(peers) \ MacsOf(peers') :
              /\ events # <<>> /\ events' = Tail(events)
              /\ Head(events).kind \in {"stop", "report"} \/ Head(events).mac = m
<1>1. peers \in Tables
  BY DEF Shapes
<1>2. CASE UNCHANGED peers
  BY <1>2 DEF KeepsPorts
<1>3. CASE ListJoin
  <2>1. KeepsPorts(peers, peers') /\ Stands(peers, peers')
    BY <1>3, ListJoinEffect
  <2>2. MacsOf(peers) \subseteq MacsOf(peers')
    BY <2>1 DEF Stands, MacsOf
  <2> QED BY <2>1, <2>2
<1>4. CASE RefreshWarn
  <2>1. KeepsPorts(peers, peers') /\ MacsOf(peers') = MacsOf(peers)
    BY <1>4, RefreshWarnEffect, RestatedSame DEF Renamed
  <2> QED BY <2>1
<1>5. CASE RxBind
  <2>1. Rebound(peers, peers')
    BY <1>5, RxBindEffect
  <2>2. MacsOf(peers') = MacsOf(peers) /\ \A m : Find(peers', m) = Find(peers, m)
    BY <1>1, <2>1, ReboundSame
  <2> QED BY <2>2 DEF KeepsPorts
<1>6. CASE HandleAp
  <2>1. events # <<>> /\ events' = Tail(events)
    BY <1>6 DEF HandleAp, LoopFree
  <2> QED BY <1>6, <2>1, HandleApEffect
<1>7. CASE HandleReport
  <2>1. events # <<>> /\ events' = Tail(events) /\ Head(events).kind = "report"
    BY <1>7 DEF HandleReport, LoopFree
  <2> QED BY <1>7, <2>1, HandleReportEffect
<1> QED BY <1>2, <1>3, <1>4, <1>5, <1>6, <1>7, TableActions

(* A station is in one slot at a time and keeps it for as long as it       *)
(* stays, so its logical port is the same in every copy of the registry    *)
(* (ptp_wifi_peers_join, ptp_wifi_peers_reconcile).                        *)
THEOREM SurvivorsKeep == Spec => SurvivorsKeepTheirPort
<1> DEFINE Settled ==
      /\ \A m \in Macs : /\ Cardinality(Find(peers', m)) <= 1
                         /\ Find(peers, m) = {} \/ Find(peers', m) \subseteq Find(peers, m)
      /\ \A m \in MacsOf(peers) \ MacsOf(peers') :
           /\ events # <<>> /\ events' = Tail(events)
           /\ Head(events).kind \in {"stop", "report"} \/ Head(events).mac = m
<1>1. ASSUME TableInv, [Next]_vars PROVE Settled
  <2>1. Shapes /\ Distinct(peers) /\ Distinct(peers')
    BY <1>1, TableStep DEF TableInv
  <2>2. ASSUME NEW m \in Macs PROVE Cardinality(Find(peers', m)) <= 1
    <3>1. CASE Find(peers', m) = {}
      BY <3>1, FS_EmptySet
    <3>2. ASSUME NEW s \in Find(peers', m) PROVE Cardinality(Find(peers', m)) <= 1
      <4>1. Find(peers', m) = {s}
        BY <2>1, <3>2 DEF Find, Distinct
      <4>2. Cardinality({s}) = 1
        BY FS_Singleton
      <4>3. Cardinality(Find(peers', m)) = 1
        BY <4>1, <4>2
      <4> QED BY <4>3
    <3> QED BY <3>1, <3>2
  <2> QED BY <1>1, <2>1, <2>2, SlotsStay DEF KeepsPorts
<1> HIDE DEF Settled
<1>2. TableInv /\ [Next]_vars => [Settled]_vars
  BY <1>1
<1>3. Spec => [][Settled]_vars
  BY <1>2, TableInvariant, PTL DEF Spec
<1> QED BY <1>3 DEF Settled, SurvivorsKeepTheirPort

(* Whatever events came in since the item was copied, the worker claims    *)
(* only a station of the registry under its present port, and only a       *)
(* change behind that claim sends a frame to another                       *)
(* (ptpd_wifi_announce_begin).                                             *)
THEOREM SentToPresent == Spec => []SentToPresentStation
<1>1. TableInv => SentToPresentStation
  BY DEF TableInv, ClaimInv
<1> QED BY <1>1, TableInvariant, PTL

-----------------------------------------------------------------------------
(* The ring that a station's frames go through to the daemon               *)
(* (InjectedFrames), for every value of its own constants: it implements   *)
(* the safety part of FrameChannel.                                        *)
CONSTANTS Ports, Callbacks, Payloads, Depth, MaxGeneration
VARIABLES s_injected, head, count, generation, enabled, callback, daemon, handling

Ring == INSTANCE InjectedFrames

Places == 0..(Depth - 1)

(* The assumption of InjectedFrames on its constants.                      *)
RingSizes == Depth \in Nat \ {0} /\ MaxGeneration \in Nat /\ NoFrame \notin Ring!Frame

(* The state of the threads around the ring.                               *)
ThreadsOK ==
  /\ generation \in [Ports -> Nat]
  /\ enabled \in BOOLEAN
  /\ callback \in [Callbacks -> [busy : {FALSE}] \cup [busy : {TRUE}, frame : Ring!Frame]]
  /\ daemon \in [pc : {"off", "poll", "drain", "handle"}, drained : 0..Depth]

(* The ring keeps its bounds, and what lies between head and tail are      *)
(* frames.                                                                 *)
RingOK ==
  /\ RingSizes
  /\ s_injected \in [Places -> Ring!Frame \cup {NoFrame}]
  /\ head \in Places
  /\ count \in 0..Depth
  /\ \A i \in 1..count : s_injected[(head + i - 1) % Depth] \in Ring!Frame

(* A daemon that is not running does not drain, and only one that handles  *)
(* a frame holds one.                                                      *)
HandOK ==
  /\ enabled <=> daemon.pc # "off"
  /\ daemon.pc = "handle" => handling \in Ring!Frame
  /\ daemon.pc # "handle" => handling = NoFrame

BufferInv == ThreadsOK /\ RingOK /\ HandOK

(* A position of the ring: one turn past the end at most.                  *)
LEMMA Wrap ==
  ASSUME RingSizes, NEW x \in Nat, x < 2 * Depth
  PROVE  /\ x % Depth \in Places
         /\ x % Depth = IF x < Depth THEN x ELSE x - Depth
<1>1. Depth \in Nat \ {0}
  BY DEF RingSizes
<1>2. CASE x < Depth
  BY <1>1, <1>2 DEF Places
<1>3. CASE ~(x < Depth)
  <2>1. x = Depth * 1 + (x - Depth) /\ x - Depth \in 0..Depth - 1
    BY <1>1, <1>3
  <2> QED BY <1>1, <2>1 DEF Places
<1> QED BY <1>2, <1>3

(* Advancing the head by one moves every position back by one.             *)
LEMMA NextPlace ==
  ASSUME RingSizes, NEW h \in Places, NEW i \in 1..Depth - 1
  PROVE  (((h + 1) % Depth) + i - 1) % Depth = (h + (i + 1) - 1) % Depth
<1>1. Depth \in Nat \ {0}
  BY DEF RingSizes
<1>2. (h + 1) % Depth = IF h + 1 < Depth THEN h + 1 ELSE h + 1 - Depth
  BY <1>1, Wrap DEF Places
<1> DEFINE x == ((h + 1) % Depth) + i - 1
           y == h + (i + 1) - 1
<1>3. /\ x \in Nat /\ x < 2 * Depth /\ y \in Nat /\ y < 2 * Depth
      /\ y = x \/ y = x + Depth
      /\ y = x + Depth => x < Depth
  BY <1>1, <1>2 DEF Places
<1> HIDE DEF x, y
<1>4. /\ x % Depth = IF x < Depth THEN x ELSE x - Depth
      /\ y % Depth = IF y < Depth THEN y ELSE y - Depth
  BY <1>3, Wrap
<1>5. x % Depth = y % Depth
  BY <1>1, <1>3, <1>4
<1> QED BY <1>5 DEF x, y

(* Link generations stay natural numbers.                                  *)
LEMMA AdvanceTypes ==
  ASSUME generation \in [Ports -> Nat], NEW ports, Ring!Advance(ports)
  PROVE  generation' \in [Ports -> Nat]
<1>1. \A p \in Ports : generation[p] + 1 \in Nat /\ generation[p] \in Nat
  OBVIOUS
<1> QED BY <1>1 DEF Ring!Advance

(* The threads keep their shape and their hold on the ring.                *)
LEMMA ThreadStep == BufferInv /\ [Ring!Next]_(Ring!vars) => (ThreadsOK /\ HandOK)'
<1> SUFFICES ASSUME BufferInv, [Ring!Next]_(Ring!vars) PROVE (ThreadsOK /\ HandOK)'
  OBVIOUS
<1>a. Depth \in Nat \ {0} /\ 0 \in 0..Depth /\ RingSizes /\ NoFrame \notin Ring!Frame
  BY DEF BufferInv, RingOK, RingSizes
<1> USE <1>a DEF BufferInv, ThreadsOK, HandOK, Ring!ring
<1>1. ASSUME NEW c \in Callbacks, NEW p \in Ports, NEW body \in Payloads,
             Ring!InjectBegin(c, p, body)
      PROVE  (ThreadsOK /\ HandOK)'
  BY <1>1 DEF Ring!InjectBegin, Ring!Idle, Ring!Frame
<1>2. ASSUME NEW c \in Callbacks, Ring!InjectNoTime(c) PROVE (ThreadsOK /\ HandOK)'
  BY <1>2 DEF Ring!InjectNoTime, Ring!Idle
<1>3. ASSUME NEW c \in Callbacks, Ring!InjectInsert(c) PROVE (ThreadsOK /\ HandOK)'
  BY <1>3 DEF Ring!InjectInsert, Ring!Idle, Ring!Admits, Ring!Fresh
<1>4. ASSUME NEW c \in Callbacks, Ring!InjectRefused(c) PROVE (ThreadsOK /\ HandOK)'
  BY <1>4 DEF Ring!InjectRefused, Ring!Idle
<1>5. CASE Ring!PassBegin
  BY <1>5 DEF Ring!PassBegin
<1>6. CASE Ring!DrainTake
  <2>1. s_injected[head] \in Ring!Frame
    <3>0. head \in Nat /\ head < Depth /\ head < 2 * Depth
      BY DEF RingOK, Places
    <3>1. head % Depth = head
      BY <3>0, Wrap
    <3>2. 1 \in 1..count /\ head + 1 - 1 = head
      BY <1>6 DEF Ring!DrainTake, RingOK, Places
    <3> QED BY <3>1, <3>2 DEF RingOK
  <2>2. Ring!OneMore(daemon.drained) \in 0..Depth
    BY DEF Ring!OneMore
  <2>3. /\ daemon.pc = "drain" /\ enabled
        /\ UNCHANGED <<generation, enabled, callback>>
    BY <1>6 DEF Ring!DrainTake
  <2>4. /\ handling' = IF Ring!Fresh(s_injected[head]) THEN s_injected[head] ELSE NoFrame
        /\ daemon' = [pc |-> IF Ring!Fresh(s_injected[head]) THEN "handle" ELSE "drain",
                      drained |-> Ring!OneMore(daemon.drained)]
    BY <1>6 DEF Ring!DrainTake
  <2>5. daemon' \in [pc : {"off", "poll", "drain", "handle"}, drained : 0..Depth]
    BY <2>2, <2>4
  <2>6. /\ daemon'.pc # "off"
        /\ daemon'.pc = "handle" => handling' \in Ring!Frame
        /\ daemon'.pc # "handle" => handling' = NoFrame
    BY <2>1, <2>4
  <2> QED BY <2>3, <2>5, <2>6
<1>7. CASE Ring!Handle
  BY <1>7 DEF Ring!Handle
<1>8. CASE Ring!PassEnd
  BY <1>8 DEF Ring!PassEnd
<1>9. ASSUME NEW p \in Ports, Ring!LinkChange(p) PROVE (ThreadsOK /\ HandOK)'
  <2>1. generation' \in [Ports -> Nat]
    BY <1>9, AdvanceTypes DEF Ring!LinkChange
  <2> QED BY <1>9, <2>1 DEF Ring!LinkChange
<1>10. CASE Ring!ProfileReset
  <2>1. generation' \in [Ports -> Nat]
    BY <1>10, AdvanceTypes DEF Ring!ProfileReset
  <2> QED BY <1>10, <2>1 DEF Ring!ProfileReset
<1>11. CASE Ring!DaemonStart
  <2>1. generation' \in [Ports -> Nat]
    BY <1>11, AdvanceTypes DEF Ring!DaemonStart
  <2> QED BY <1>11, <2>1 DEF Ring!DaemonStart
<1>12. CASE Ring!DaemonStop
  <2>1. generation' \in [Ports -> Nat]
    BY <1>12, AdvanceTypes DEF Ring!DaemonStop
  <2> QED BY <1>12, <2>1 DEF Ring!DaemonStop
<1>13. CASE UNCHANGED Ring!vars
  BY <1>13 DEF Ring!vars
<1> QED
  BY <1>1, <1>2, <1>3, <1>4, <1>5, <1>6, <1>7, <1>8, <1>9, <1>10, <1>11, <1>12,
     <1>13 DEF Ring!Next, Ring!Drain

(* No step of a callback or of the daemon leaves the bounds of the ring or *)
(* puts something else than a frame between head and tail.                 *)
LEMMA BufferStep == BufferInv /\ [Ring!Next]_(Ring!vars) => RingOK'
<1> SUFFICES ASSUME BufferInv, [Ring!Next]_(Ring!vars) PROVE RingOK'
  OBVIOUS
<1>a. Depth \in Nat \ {0} /\ 0 \in 0..Depth /\ RingSizes
  BY DEF BufferInv, RingOK, RingSizes
<1> USE <1>a DEF BufferInv, RingOK, Ring!ring
<1>1. ASSUME NEW c \in Callbacks, NEW p \in Ports, NEW body \in Payloads,
             Ring!InjectBegin(c, p, body)
      PROVE  RingOK'
  BY <1>1 DEF Ring!InjectBegin, Ring!Idle, Ring!Frame
<1>2. ASSUME NEW c \in Callbacks, Ring!InjectNoTime(c) PROVE RingOK'
  BY <1>2 DEF Ring!InjectNoTime, Ring!Idle
<1>3. ASSUME NEW c \in Callbacks, Ring!InjectInsert(c) PROVE RingOK'
  <2>1. callback[c].frame \in Ring!Frame
    BY <1>3 DEF Ring!InjectInsert, ThreadsOK
  <2>2. /\ count < Depth /\ count' = count + 1 /\ head' = head
        /\ s_injected' = [s_injected EXCEPT ![(head + count) % Depth] = callback[c].frame]
    BY <1>3 DEF Ring!InjectInsert, Ring!Admits
  <2>3. (head + count) % Depth \in Places
    BY <2>2, Wrap DEF Places
  <2>4. s_injected' \in [Places -> Ring!Frame \cup {NoFrame}]
    BY <2>1, <2>2, <2>3
  <2>5. ASSUME NEW i \in 1..count' PROVE s_injected'[(head' + i - 1) % Depth] \in Ring!Frame
    <3>0. head + i - 1 \in Nat /\ head + i - 1 < 2 * Depth
      BY <2>2 DEF Places
    <3>1. (head + i - 1) % Depth \in Places
      BY <3>0, Wrap
    <3>2. CASE i \in 1..count
      BY <3>1, <3>2, <2>1, <2>2
    <3>3. CASE i = count + 1
      BY <3>1, <3>3, <2>1, <2>2
    <3> QED BY <2>2, <3>2, <3>3
  <2>6. head' \in Places /\ count' \in 0..Depth
    BY <2>2
  <2> QED BY <2>4, <2>5, <2>6
<1>4. ASSUME NEW c \in Callbacks, Ring!InjectRefused(c) PROVE RingOK'
  BY <1>4 DEF Ring!InjectRefused, Ring!Idle
<1>5. CASE Ring!PassBegin
  BY <1>5 DEF Ring!PassBegin
<1>6. CASE Ring!DrainTake
  <2>1. /\ count # 0 /\ count' = count - 1 /\ head' = (head + 1) % Depth
        /\ s_injected' = s_injected
    BY <1>6 DEF Ring!DrainTake
  <2>2. head' \in Places
    <3>1. head + 1 \in Nat /\ head + 1 < 2 * Depth
      BY DEF Places
    <3> QED BY <2>1, <3>1, Wrap
  <2>3. ASSUME NEW i \in 1..count' PROVE s_injected'[(head' + i - 1) % Depth] \in Ring!Frame
    <3>1. (head' + i - 1) % Depth = (head + (i + 1) - 1) % Depth
      BY <2>1, <2>2, NextPlace
    <3>2. i + 1 \in 1..count
      BY <2>1
    <3> QED BY <2>1, <3>1, <3>2
  <2> QED BY <2>1, <2>2, <2>3
<1>7. CASE Ring!Handle
  BY <1>7 DEF Ring!Handle
<1>8. CASE Ring!PassEnd
  BY <1>8 DEF Ring!PassEnd
<1>9. ASSUME NEW p \in Ports, Ring!LinkChange(p) PROVE RingOK'
  BY <1>9 DEF Ring!LinkChange, Ring!Advance
<1>10. CASE Ring!ProfileReset
  BY <1>10 DEF Ring!ProfileReset, Ring!Advance
<1>11. CASE Ring!DaemonStart
  BY <1>11 DEF Ring!DaemonStart, Places
<1>12. CASE Ring!DaemonStop
  BY <1>12 DEF Ring!DaemonStop, Ring!Advance
<1>13. CASE UNCHANGED Ring!vars
  BY <1>13 DEF Ring!vars
<1> QED
  BY <1>1, <1>2, <1>3, <1>4, <1>5, <1>6, <1>7, <1>8, <1>9, <1>10, <1>11, <1>12,
     <1>13 DEF Ring!Next, Ring!Drain

(* The invariant of the ring holds throughout.                             *)
LEMMA RingCorrect == RingSizes => (Ring!Spec => []BufferInv)
<1> SUFFICES ASSUME RingSizes PROVE Ring!Spec => []BufferInv
  OBVIOUS
<1>1. Ring!Init => BufferInv
  <2> SUFFICES ASSUME Ring!Init PROVE BufferInv
    OBVIOUS
  <2>a. Depth \in Nat \ {0} /\ 0 \in 0..Depth /\ 0 \in Places /\ 1..0 = {}
    BY DEF Places, RingSizes
  <2>1. ThreadsOK
    BY <2>a DEF Ring!Init, ThreadsOK, Ring!Idle
  <2>2. RingOK
    BY <2>a DEF Ring!Init, RingOK, Places
  <2>3. HandOK
    BY DEF Ring!Init, HandOK
  <2> QED BY <2>1, <2>2, <2>3 DEF BufferInv
<1>2. BufferInv /\ [Ring!Next]_(Ring!vars) => BufferInv'
  BY ThreadStep, BufferStep DEF BufferInv
<1> QED BY <1>1, <1>2, PTL DEF Ring!Spec

-----------------------------------------------------------------------------
(* What lies between head and tail is the channel's queue.                 *)
LEMMA QueuedSeq ==
  /\ RingOK => Ring!Queued \in Seq(Ring!Frame) /\ Len(Ring!Queued) = count
  /\ RingOK' => Ring!Queued' \in Seq(Ring!Frame) /\ Len(Ring!Queued') = count'
<1>1. ASSUME RingOK PROVE Ring!Queued \in Seq(Ring!Frame) /\ Len(Ring!Queued) = count
  <2>1. Ring!Queued \in [1..count -> Ring!Frame] /\ count \in Nat
    BY <1>1 DEF RingOK, RingSizes, Ring!Queued
  <2> QED BY <2>1
<1>2. ASSUME RingOK' PROVE Ring!Queued' \in Seq(Ring!Frame) /\ Len(Ring!Queued') = count'
  <2>1. Ring!Queued' \in [1..count' -> Ring!Frame] /\ count' \in Nat
    BY <1>2 DEF RingOK, RingSizes, Ring!Queued
  <2> QED BY <2>1
<1> QED BY <1>1, <1>2

(* A step that leaves the ring alone leaves the queue alone.               *)
LEMMA SameQueue ==
  ASSUME UNCHANGED Ring!ring
  PROVE  Ring!Queued' = Ring!Queued
BY DEF Ring!ring, Ring!Queued

(* Inserting a frame behind the last one appends it to the queue: the      *)
(* place written is none of the places in use.                             *)
LEMMA InsertAppends ==
  ASSUME RingOK, RingOK', NEW f \in Ring!Frame, count < Depth,
         s_injected' = [s_injected EXCEPT ![(head + count) % Depth] = f],
         count' = count + 1, head' = head
  PROVE  Ring!Queued' = Append(Ring!Queued, f)
<1>a. Depth \in Nat \ {0} /\ count \in Nat /\ head \in Nat /\ head < Depth /\ RingSizes
  BY DEF RingOK, Places, RingSizes
<1>1. ASSUME NEW i \in 1..count + 1
      PROVE  s_injected'[(head + i - 1) % Depth]
               = IF i = count + 1 THEN f ELSE s_injected[(head + i - 1) % Depth]
  <2> DEFINE x == head + i - 1
             y == head + count
  <2>1. x \in Nat /\ x < 2 * Depth /\ y \in Nat /\ y < 2 * Depth
    BY <1>a
  <2>2. x = y <=> i = count + 1
    BY <1>a
  <2>3. x # y => x < y /\ y < x + Depth
    BY <1>a
  <2> HIDE DEF x, y
  <2>4. /\ x % Depth \in Places /\ x % Depth = IF x < Depth THEN x ELSE x - Depth
        /\ y % Depth \in Places /\ y % Depth = IF y < Depth THEN y ELSE y - Depth
    BY <1>a, <2>1, Wrap
  <2>5. x # y => x % Depth # y % Depth
    BY <1>a, <2>1, <2>3, <2>4
  <2>6. s_injected'[x % Depth] = IF x % Depth = y % Depth THEN f ELSE s_injected[x % Depth]
    BY <2>4 DEF y, RingOK
  <2> QED BY <2>2, <2>5, <2>6 DEF x
<1>2. Ring!Queued \in Seq(Ring!Frame) /\ Len(Ring!Queued) = count
  BY QueuedSeq
<1>3. Ring!Queued' \in Seq(Ring!Frame) /\ Len(Ring!Queued') = count + 1
  BY QueuedSeq
<1>4. /\ Append(Ring!Queued, f) \in Seq(Ring!Frame) /\ Len(Append(Ring!Queued, f)) = count + 1
      /\ \A i \in 1..count : Append(Ring!Queued, f)[i] = Ring!Queued[i]
      /\ Append(Ring!Queued, f)[count + 1] = f
  BY <1>2, AppendProperties
<1>5. /\ \A i \in 1..count : Ring!Queued[i] = s_injected[(head + i - 1) % Depth]
      /\ \A i \in 1..count + 1 : Ring!Queued'[i] = s_injected'[(head + i - 1) % Depth]
  BY DEF Ring!Queued
<1>6. \A i \in 1..count + 1 : i = count + 1 \/ (i # count + 1 /\ i \in 1..count)
  BY <1>a
<1>7. \A i \in 1..count + 1 : Ring!Queued'[i] = Append(Ring!Queued, f)[i]
  BY <1>1, <1>4, <1>5, <1>6
<1> QED BY <1>3, <1>4, <1>7, SeqEqual

(* Advancing the head takes the oldest frame off the queue.                *)
LEMMA TakeIsTail ==
  ASSUME RingOK, RingOK', count # 0, s_injected' = s_injected, count' = count - 1,
         head' = (head + 1) % Depth
  PROVE  /\ Ring!Queued # <<>> /\ Head(Ring!Queued) = s_injected[head]
         /\ Ring!Queued' = Tail(Ring!Queued)
<1>a. /\ Depth \in Nat \ {0} /\ count \in Nat /\ head \in Nat /\ head < Depth
      /\ head < 2 * Depth /\ count <= Depth /\ RingSizes
  BY DEF RingOK, Places, RingSizes
<1>1. Ring!Queued \in Seq(Ring!Frame) /\ Len(Ring!Queued) = count
  BY QueuedSeq
<1>2. \A i \in 1..count : Ring!Queued[i] = s_injected[(head + i - 1) % Depth]
  BY DEF Ring!Queued
<1>3. Ring!Queued # <<>> /\ Head(Ring!Queued) = Ring!Queued[1] /\ 1 \in 1..count
  BY <1>a, <1>1
<1>4. head % Depth = head /\ head + 1 - 1 = head
  BY <1>a, Wrap
<1>5. Head(Ring!Queued) = s_injected[head]
  BY <1>2, <1>3, <1>4
<1>6. /\ Tail(Ring!Queued) \in Seq(Ring!Frame) /\ Len(Tail(Ring!Queued)) = count - 1
      /\ \A i \in 1..count - 1 : Tail(Ring!Queued)[i] = Ring!Queued[i + 1]
  BY <1>1, <1>3, HeadTailProperties
<1>7. ASSUME NEW i \in 1..count - 1
      PROVE  Ring!Queued'[i] = Ring!Queued[i + 1]
  <2>1. i \in 1..Depth - 1 /\ i + 1 \in 1..count /\ head \in Places
    BY <1>a DEF RingOK
  <2>2. (head' + i - 1) % Depth = (head + (i + 1) - 1) % Depth
    BY <1>a, <2>1, NextPlace
  <2>3. Ring!Queued'[i] = s_injected'[(head' + i - 1) % Depth]
    BY DEF Ring!Queued
  <2> QED BY <1>2, <2>1, <2>2, <2>3
<1>8. Ring!Queued' \in Seq(Ring!Frame) /\ Len(Ring!Queued') = count - 1
  BY QueuedSeq
<1>9. Ring!Queued' = Tail(Ring!Queued)
  BY <1>6, <1>7, <1>8, SeqEqual
<1> QED BY <1>3, <1>5, <1>9

(* Each step of a callback, of the daemon or of a link handler is a step   *)
(* of the channel or leaves it alone.                                      *)
LEMMA ChannelStep ==
  BufferInv /\ BufferInv' /\ [Ring!Next]_(Ring!vars) => [Ring!Channel!Next]_(Ring!Channel!vars)
<1> SUFFICES ASSUME BufferInv, BufferInv', [Ring!Next]_(Ring!vars)
             PROVE  Ring!Channel!Next \/ UNCHANGED Ring!Channel!vars
  OBVIOUS
<1>a. NoFrame \notin Ring!Frame
  BY DEF BufferInv, RingOK, RingSizes
<1> USE DEF BufferInv
<1>1. ASSUME NEW c \in Callbacks, NEW p \in Ports, NEW body \in Payloads,
             Ring!InjectBegin(c, p, body)
      PROVE  UNCHANGED Ring!Channel!vars
  BY <1>1, SameQueue DEF Ring!InjectBegin, Ring!Channel!vars
<1>2. ASSUME NEW c \in Callbacks, Ring!InjectNoTime(c)
      PROVE  UNCHANGED Ring!Channel!vars
  BY <1>2, SameQueue DEF Ring!InjectNoTime, Ring!Channel!vars
<1>3. ASSUME NEW c \in Callbacks, Ring!InjectInsert(c)
      PROVE  Ring!Channel!Next
  <2> DEFINE f == callback[c].frame
  <2>1. f \in Ring!Frame /\ f.generation = generation[f.port]
    BY <1>3 DEF Ring!InjectInsert, Ring!Admits, Ring!Fresh, ThreadsOK
  <2>2. Ring!Queued' = Append(Ring!Queued, f) /\ Len(Ring!Queued) = count /\ count < Depth /\ enabled
    BY <1>3, <2>1, InsertAppends, QueuedSeq DEF Ring!InjectInsert, Ring!Admits
  <2>3. /\ f.port \in Ports /\ f.payload \in Payloads
        /\ f = [port |-> f.port, generation |-> generation[f.port], payload |-> f.payload]
    BY <2>1 DEF Ring!Frame
  <2>4. Ring!Channel!Accept(f.port, f.payload)
    BY <1>3, <2>2, <2>3 DEF Ring!InjectInsert, Ring!Channel!Accept
  <2> QED BY <2>3, <2>4 DEF Ring!Channel!Next
<1>4. ASSUME NEW c \in Callbacks, Ring!InjectRefused(c)
      PROVE  UNCHANGED Ring!Channel!vars
  BY <1>4, SameQueue DEF Ring!InjectRefused, Ring!Channel!vars
<1>5. CASE Ring!PassBegin
  BY <1>5, SameQueue DEF Ring!PassBegin, Ring!Channel!vars
<1>6. CASE Ring!DrainTake
  <2>1. /\ Ring!Queued # <<>> /\ Head(Ring!Queued) = s_injected[head] /\ Ring!Queued' = Tail(Ring!Queued)
    BY <1>6, TakeIsTail DEF Ring!DrainTake
  <2>2. handling = NoFrame
    BY <1>6 DEF Ring!DrainTake, HandOK
  <2>3. Ring!Channel!Take
    BY <1>6, <2>1, <2>2 DEF Ring!DrainTake, Ring!Fresh, Ring!Channel!Take, Ring!Channel!Fresh
  <2> QED BY <2>3 DEF Ring!Channel!Next
<1>7. CASE Ring!Handle
  <2>1. handling # NoFrame
    BY <1>7, <1>a DEF Ring!Handle, HandOK
  <2>2. Ring!Channel!Finish
    BY <1>7, <2>1, SameQueue DEF Ring!Handle, Ring!Channel!Finish
  <2> QED BY <2>2 DEF Ring!Channel!Next
<1>8. CASE Ring!PassEnd
  BY <1>8, SameQueue DEF Ring!PassEnd, Ring!Channel!vars
<1>9. ASSUME NEW p \in Ports, Ring!LinkChange(p)
      PROVE  Ring!Channel!Next
  <2>1. Ring!Channel!Retire({p})
    BY <1>9, SameQueue DEF Ring!LinkChange, Ring!Advance, Ring!Channel!Retire
  <2> QED BY <2>1 DEF Ring!Channel!Next
<1>10. CASE Ring!ProfileReset
  <2>1. Ring!Channel!Retire(Ports)
    BY <1>10, SameQueue DEF Ring!ProfileReset, Ring!Advance, Ring!Channel!Retire
  <2> QED BY <2>1 DEF Ring!Channel!Next
<1>11. CASE Ring!DaemonStart
  <2>1. count' = 0 /\ Ring!Queued' = <<>>
    BY <1>11 DEF Ring!DaemonStart, Ring!Queued
  <2>2. enabled = FALSE /\ enabled' = TRUE
    BY <1>11 DEF Ring!DaemonStart, HandOK, ThreadsOK
  <2>3. enabled' = ~enabled
    BY <2>2
  <2>4. handling = NoFrame
    BY <1>11 DEF Ring!DaemonStart, HandOK
  <2>5. generation' = [p \in Ports |-> generation[p] + 1]
    BY <1>11 DEF Ring!DaemonStart, Ring!Advance
  <2>6. Ring!Channel!Switch
    BY <1>11, <2>1, <2>3, <2>4, <2>5 DEF Ring!DaemonStart, Ring!Channel!Switch
  <2> QED BY <2>6 DEF Ring!Channel!Next
<1>12. CASE Ring!DaemonStop
  <2>1. count' = 0 /\ Ring!Queued' = <<>>
    BY <1>12 DEF Ring!DaemonStop, Ring!Queued
  <2>2. enabled = TRUE /\ enabled' = FALSE
    BY <1>12 DEF Ring!DaemonStop, HandOK, ThreadsOK
  <2>3. enabled' = ~enabled
    BY <2>2
  <2>4. handling = NoFrame
    BY <1>12 DEF Ring!DaemonStop, HandOK
  <2>5. generation' = [p \in Ports |-> generation[p] + 1]
    BY <1>12 DEF Ring!DaemonStop, Ring!Advance
  <2>6. Ring!Channel!Switch
    BY <1>12, <2>1, <2>3, <2>4, <2>5 DEF Ring!DaemonStop, Ring!Channel!Switch
  <2> QED BY <2>6 DEF Ring!Channel!Next
<1>13. CASE UNCHANGED Ring!vars
  BY <1>13, SameQueue DEF Ring!vars, Ring!ring, Ring!Channel!vars
<1> QED
  BY <1>1, <1>2, <1>3, <1>4, <1>5, <1>6, <1>7, <1>8, <1>9, <1>10, <1>11, <1>12, <1>13
     DEF Ring!Next, Ring!Drain

(* The ring implements the channel, for any depth, ports and callbacks:    *)
(* frames come out in the order they were accepted, at most once, and only *)
(* if their port had no link change since.  (That accepted frames are      *)
(* taken in the end is the fairness part, which TLC checks.)               *)
THEOREM RingImplementsChannel ==
  RingSizes => (Ring!Spec => Ring!Channel!Init /\ [][Ring!Channel!Next]_(Ring!Channel!vars))
<1> SUFFICES ASSUME RingSizes
             PROVE  Ring!Spec => Ring!Channel!Init /\ [][Ring!Channel!Next]_(Ring!Channel!vars)
  OBVIOUS
<1>1. Ring!Init => Ring!Channel!Init
  <2> SUFFICES ASSUME Ring!Init PROVE Ring!Channel!Init
    OBVIOUS
  <2>1. Ring!Queued = <<>>
    BY DEF Ring!Init, Ring!Queued
  <2> QED BY <2>1 DEF Ring!Init, Ring!Channel!Init
<1>2. Ring!Spec => []BufferInv
  BY RingCorrect
<1> QED BY <1>1, <1>2, ChannelStep, PTL DEF Ring!Spec
=============================================================================
