---------------------------- MODULE PeerRegistry ----------------------------
(***************************************************************************)
(* The AP's registry of associated stations (ptp_wifi_peers_t) and what    *)
(* keeps it current: the host's Wi-Fi events, the listing of stations when *)
(* the port comes up, and the coprocessor's association reports, all but   *)
(* the listing on one event loop.  A handler changes the table under       *)
(* s_peer_lock and advances the port's link generation afterwards, under   *)
(* s_injected_lock; the daemon receives and transmits in between.          *)
(*                                                                         *)
(* The radio is external: it forwards an association event before the      *)
(* report of that change (the ordering ptp_radio_association.c relies on), *)
(* drops a report when the event queue is full, and may restart without a  *)
(* word.  Counters are uint32 in the code and do not wrap here.            *)
(***************************************************************************)
EXTENDS Naturals, FiniteSets, Sequences, SequencesExt

CONSTANTS
  Macs,           \* station addresses
  SlotCount,      \* PTP_WIFI_PEERS_MAX
  PhysicalCount,  \* CONFIG_ESP_PTP_NUM_PORTS
  PhysicalPort,   \* the AP port's number, from 1
  Hosted,         \* CONFIG_ESP_PTP_HAS_AP_VIA_COPROCESSOR
  Reporting,      \* the coprocessor answers association requests
  Patched,        \* it reports changes (HOSTED_AVB_ASSOCIATIONS_FLAG_LIFECYCLE)
  NoPeer, NoFrame, NoItem, Idle,
  QueueMax,       \* bound: event queue length beyond which a report is dropped
  MaxChanges,     \* bound: changes of the radio and traffic together
  MaxTraffic      \* bound: frames received and items published

Slots == 0..(SlotCount - 1)

ASSUME RegistryAssumption ==
  /\ SlotCount \in Nat \ {0} /\ PhysicalCount \in Nat
  /\ PhysicalPort \in 1..PhysicalCount
  /\ {Hosted, Reporting, Patched} \subseteq BOOLEAN
  /\ {QueueMax, MaxChanges, MaxTraffic} \subseteq Nat

VARIABLES
  peers,           \* wifi_peers: generations and entries
  running,         \* s_state is set
  link,            \* link_up of the AP port
  linkGeneration,  \* s_injected_generation of the port
  owed,            \* what each thread does after leaving s_peer_lock
  listing,         \* the listing of stations in ptp_port_init_wifi_ftm
  host,            \* s_any_report, s_radio_boot and refresh_task's warned
  radio,           \* the radio's boot, generation and stations
  events,          \* the default event loop's queue
  changes,         \* changes of the radio so far
  traffic,         \* frames and items so far
  ring,            \* injected frames
  rx,              \* the frame the daemon is processing
  item,            \* the Announce item in the mailbox
  worker           \* the item the worker is at, and how far

table == <<peers, running, link, linkGeneration, owed, listing, host>>
air == <<radio, events, changes>>
receive == <<traffic, ring, rx>>
transmit == <<item, worker>>
vars == <<table, air, receive, transmit>>

-----------------------------------------------------------------------------
(* ptp_wifi_peers.h.                                                        *)

Occupied(t) == {s \in Slots : t.entries[s] # NoPeer}
Find(t, m) == {s \in Occupied(t) : t.entries[s].mac = m}
MacsOf(t) == {t.entries[s].mac : s \in Occupied(t)}

(* The association of a station, 0 if it has none.                          *)
AssociationOf(t, m) ==
  IF Find(t, m) = {} THEN 0 ELSE t.entries[CHOOSE s \in Find(t, m) : TRUE].association

Publishable(t) ==
  Hosted => \/ t.unreported
            \/ t.radioBoot # 0 /\ t.radioGeneration # 0 /\ t.reconciled = t.generation

(* Mutant: extra slots share one block after the physical ports.            *)
LogicalPort_Shared(physical, slot) == IF slot = 0 THEN physical ELSE PhysicalCount + slot

(* ptp_wifi_association_port.                                               *)
LogicalPort(physical, slot) ==
  IF slot = 0 THEN physical
  ELSE PhysicalCount + (physical - 1) * (SlotCount - 1) + slot

(* Mutant: a full table gives the last slot to the newcomer.                *)
JoinSlot_Evict(t, m) ==
  IF Find(t, m) # {} THEN Find(t, m)
  ELSE IF Slots \ Occupied(t) # {} THEN Slots \ Occupied(t) ELSE {SlotCount - 1}

(* The station's own slot, else any free one; the lowest is taken.          *)
JoinSlot(t, m) == IF Find(t, m) # {} THEN Find(t, m) ELSE Slots \ Occupied(t)

(* A new lifetime, for a known station too.                                 *)
Join(t, m) ==
  IF JoinSlot(t, m) = {} THEN t
  ELSE [t EXCEPT !.generation = @ + 1,
                 !.entries[Min(JoinSlot(t, m))] =
                    [mac |-> m, association |-> t.generation + 1, heard |-> NoFrame]]

(* An unknown station changes nothing, the generation included.             *)
Leave(t, m) ==
  IF Find(t, m) = {} THEN t
  ELSE [t EXCEPT !.generation = @ + 1,
                 !.entries = [s \in Slots |-> IF s \in Find(t, m) THEN NoPeer ELSE @[s]]]

(* Mutant: the whole registry is zeroed, its generation included.           *)
Clear_Reset(t) == [t EXCEPT !.generation = 0, !.entries = [s \in Slots |-> NoPeer]]

Clear(t) == [t EXCEPT !.generation = @ + 1, !.entries = [s \in Slots |-> NoPeer]]

ValidReport(boot, generation, macs) ==
  /\ boot # 0 /\ generation # 0
  /\ Len(macs) <= SlotCount
  /\ IsInjective(macs)

(* Mutant: generations are compared across boots of the radio.              *)
Accepts_AnyBoot(t, boot, generation, macs) ==
  /\ ValidReport(boot, generation, macs)
  /\ \/ generation > t.radioGeneration
     \/ /\ generation = t.radioGeneration /\ t.reconciled = t.generation
        /\ MacsOf(t) = ToSet(macs)

(* A later generation, or a repetition that agrees with the table.          *)
Accepts(t, boot, generation, macs) ==
  /\ ValidReport(boot, generation, macs)
  /\ t.radioBoot = boot =>
       \/ generation > t.radioGeneration
       \/ /\ generation = t.radioGeneration /\ t.reconciled = t.generation
          /\ MacsOf(t) = ToSet(macs)

(* A station that is there already joins again only if anew.                *)
JoinNext(t, m, anew) == IF anew \/ Find(t, m) = {} THEN Join(t, m) ELSE t

(* The stations of a list, one after the other.                             *)
JoinAll(t, macs, anew) ==
  LET joined[i \in 0..Len(macs)] ==
        IF i = 0 THEN t ELSE JoinNext(joined[i - 1], macs[i], anew)
  IN joined[Len(macs)]

(* The stations still listed, before the listed ones join.                  *)
Kept(t, macs) ==
  [t EXCEPT !.generation = @ + 1,
            !.entries = [s \in Slots |-> IF s \in Occupied(t) /\ @[s].mac \in ToSet(macs)
                                         THEN @[s] ELSE NoPeer]]

(* Survivors keep their slots and get new associations.                     *)
Rebuilt(t, boot, generation, macs) ==
  LET joined == JoinAll(Kept(t, macs), macs, TRUE)
  IN [joined EXCEPT !.radioBoot = boot, !.radioGeneration = generation,
                    !.reconciled = joined.generation]

(* Mutant: stations the radio no longer lists are kept.                     *)
Reconcile_Keep(t, boot, generation, macs) ==
  LET joined == JoinAll(t, macs, TRUE)
  IN IF t.radioBoot = boot /\ t.radioGeneration = generation THEN t
     ELSE [joined EXCEPT !.radioBoot = boot, !.radioGeneration = generation,
                         !.reconciled = joined.generation]

Reconcile(t, boot, generation, macs) ==
  IF t.radioBoot = boot /\ t.radioGeneration = generation THEN t
  ELSE Rebuilt(t, boot, generation, macs)

(* ptp_wifi_peers_snapshot: copied by slot, each with its logical port.     *)
Snapshot(t) ==
  {[mac |-> t.entries[s].mac, association |-> t.entries[s].association,
    port |-> LogicalPort(PhysicalPort, s)] : s \in Occupied(t)}

-----------------------------------------------------------------------------
Entry == [mac : Macs, association : Nat, heard : {NoFrame} \cup [association : Nat, early : BOOLEAN]]

ASSUME PeerAssumption == NoPeer \notin Entry

Event == [kind : {"join", "leave"}, mac : Macs] \cup [kind : {"start", "stop"}]
         \cup [kind : {"report"}, boot : Nat, generation : Nat, lifecycle : BOOLEAN, macs : Seq(Macs)]

ListAt(pc, attempt) == [pc |-> pc, attempt |-> attempt, generation |-> 0, stations |-> <<>>]

NewRadio(boot, stations) ==
  [boot |-> boot, generation |-> Len(stations), stations |-> stations, up |-> TRUE]

(* The port comes up with stations already associated.  Where it starts the *)
(* daemon, s_state is set after it.                                         *)
Init ==
  /\ peers = [generation |-> 0, radioBoot |-> 0, radioGeneration |-> 0, reconciled |-> 0,
              unreported |-> FALSE, entries |-> [s \in Slots |-> NoPeer]]
  /\ running \in BOOLEAN
  /\ link = TRUE
  /\ linkGeneration = 0
  /\ owed = [loop |-> "none", refresh |-> FALSE]
  /\ listing = ListAt("read", 0)
  /\ host = [anyReport |-> FALSE, boot |-> 0, warned |-> FALSE]
  /\ \E m \in Macs : radio \in {NewRadio(1, <<>>), NewRadio(1, <<m>>)}
  /\ events = <<>>
  /\ changes = 0
  /\ traffic = 0 /\ ring = <<>> /\ rx = Idle
  /\ item = NoItem /\ worker = Idle

-----------------------------------------------------------------------------
(* The listing in ptp_port_init_wifi_ftm, up to three attempts.             *)

ListRead ==
  /\ listing.pc = "read"
  /\ listing' = [listing EXCEPT !.pc = "list", !.generation = peers.generation]
  /\ UNCHANGED <<peers, running, link, linkGeneration, owed, host, air, receive, transmit>>

(* esp_wifi_ap_get_sta_list; it fails if the AP is down or its coprocessor  *)
(* does not answer.                                                         *)
ListStations ==
  /\ listing.pc = "list"
  /\ \/ listing' = [listing EXCEPT !.pc = "join", !.stations = radio.stations]
     \/ (Hosted \/ ~radio.up) /\ listing' = ListAt("done", 0)
  /\ UNCHANGED <<peers, running, link, linkGeneration, owed, host, air, receive, transmit>>

(* Three attempts.                                                          *)
Retry(attempt) == attempt < 2

ListJoin ==
  /\ listing.pc = "join"
  /\ IF peers.generation = listing.generation
     THEN /\ peers' = JoinAll(peers, listing.stations, FALSE)
          /\ listing' = ListAt("done", 0)
     ELSE /\ listing' = IF Retry(listing.attempt) THEN ListAt("read", listing.attempt + 1)
                        ELSE ListAt("done", 0)
          /\ UNCHANGED peers
  /\ UNCHANGED <<running, link, linkGeneration, owed, host, air, receive, transmit>>

(* ptp_initialize_state, behind the port: generations advance, s_state set. *)
StateSet ==
  /\ listing.pc = "done" /\ ~running
  /\ running' = TRUE
  /\ linkGeneration' = linkGeneration + 1
  /\ UNCHANGED <<peers, link, owed, listing, host, air, receive, transmit>>

-----------------------------------------------------------------------------
(* The radio, external.                                                     *)

(* Bound.                                                                   *)
Budget == changes + traffic < MaxChanges

Attached == Hosted /\ listing.pc = "done"

(* A report of radio state r behind queue q, unless the queue is full.      *)
WithReport(q, r) ==
  IF Attached /\ Reporting /\ Len(q) < QueueMax
  THEN Append(q, [kind |-> "report", boot |-> r.boot, generation |-> r.generation,
                  lifecycle |-> Patched /\ r.generation > 0, macs |-> r.stations])
  ELSE q

RadioChange(q, stations, up) ==
  LET r == [radio EXCEPT !.generation = @ + 1, !.stations = stations, !.up = up]
  IN /\ Budget
     /\ changes' = changes + 1
     /\ radio' = r
     /\ events' = WithReport(q, r)
     /\ UNCHANGED <<table, receive, transmit>>

(* A station associates, or associates again; the radio has as many places  *)
(* as the registry.                                                         *)
RadioJoin(m) ==
  /\ radio.up /\ Cardinality(ToSet(radio.stations) \cup {m}) <= SlotCount
  /\ RadioChange(Append(events, [kind |-> "join", mac |-> m]),
                 IF m \in ToSet(radio.stations) THEN radio.stations
                 ELSE Append(radio.stations, m), TRUE)

RadioLeave(m) ==
  \E i \in DOMAIN radio.stations :
    /\ radio.stations[i] = m
    /\ RadioChange(Append(events, [kind |-> "leave", mac |-> m]), RemoveAt(radio.stations, i), TRUE)

ApStop ==
  /\ radio.up
  /\ RadioChange(Append(events, [kind |-> "stop"]), <<>>, FALSE)

ApStart ==
  /\ ~radio.up
  /\ radio' = [radio EXCEPT !.up = TRUE]
  /\ events' = Append(events, [kind |-> "start"])
  /\ UNCHANGED <<table, changes, receive, transmit>>

(* The coprocessor restarts: its stations are gone without an event.        *)
RadioRestart ==
  /\ Hosted /\ Budget
  /\ changes' = changes + 1
  /\ radio' = [NewRadio(radio.boot + 1, <<>>) EXCEPT !.up = radio.up]
  /\ UNCHANGED <<table, events, receive, transmit>>

-----------------------------------------------------------------------------
(* The event loop: ptp_wifi_event_handler and reconcile_associations.       *)

(* What the handler does behind s_peer_lock.                                *)
Retires(kind) == IF kind = "start" THEN "up" ELSE IF kind = "stop" THEN "down" ELSE "bump"

LoopFree == events # <<>> /\ owed.loop = "none"

HandleAp ==
  /\ LoopFree /\ Head(events).kind # "report"
  /\ events' = Tail(events)
  /\ LET e == Head(events)
     IN /\ peers' = CASE e.kind = "join" -> Join(peers, e.mac)
                      [] e.kind = "leave" -> Leave(peers, e.mac)
                      [] e.kind = "stop" -> Clear(peers)
                      [] e.kind = "start" -> peers
        /\ owed' = [owed EXCEPT !.loop = Retires(e.kind)]
  /\ UNCHANGED <<running, link, linkGeneration, listing, host, radio, changes, receive, transmit>>

(* A new coprocessor that has no change to report.                          *)
Unreported(t, new) == running /\ new /\ ~t.unreported

HandleReport ==
  /\ LoopFree /\ Head(events).kind = "report"
  /\ events' = Tail(events)
  /\ LET e == Head(events)
         accepted == /\ e.lifecycle /\ running /\ link
                     /\ Accepts(peers, e.boot, e.generation, e.macs)
         rebuilt == Reconcile(peers, e.boot, e.generation, e.macs)
         fallback == ~e.lifecycle /\ Unreported(peers, e.boot # host.boot)
     IN /\ host' = [host EXCEPT !.anyReport = TRUE, !.boot = e.boot]
        /\ peers' = IF accepted THEN [rebuilt EXCEPT !.unreported = FALSE]
                    ELSE [peers EXCEPT !.unreported = @ \/ fallback]
        /\ owed' = [owed EXCEPT !.loop = IF peers'.generation # peers.generation \/ fallback
                                         THEN "bump" ELSE "none"]
  /\ UNCHANGED <<running, link, linkGeneration, listing, radio, changes, receive, transmit>>

(* The second section: frames received before are retired.                  *)
LoopRetire ==
  /\ owed.loop # "none"
  /\ owed' = [owed EXCEPT !.loop = "none"]
  /\ link' = IF owed.loop = "bump" THEN link ELSE owed.loop = "up"
  /\ linkGeneration' = IF owed.loop = "bump" \/ link' # link THEN linkGeneration + 1
                       ELSE linkGeneration
  /\ UNCHANGED <<peers, running, listing, host, air, receive, transmit>>

-----------------------------------------------------------------------------
(* refresh_task.                                                            *)

RefreshRequest ==
  /\ Attached
  /\ WithReport(events, radio) # events
  /\ events' = WithReport(events, radio)
  /\ UNCHANGED <<table, radio, changes, receive, transmit>>

(* Five seconds without any report; the daemon has started long since.      *)
RefreshWarn ==
  /\ Attached /\ running /\ ~host.anyReport /\ ~host.warned
  /\ host' = [host EXCEPT !.warned = TRUE]
  /\ peers' = [peers EXCEPT !.unreported = TRUE]
  /\ owed' = [owed EXCEPT !.refresh = ~peers.unreported]
  /\ UNCHANGED <<running, link, linkGeneration, listing, air, receive, transmit>>

RefreshRetire ==
  /\ owed.refresh
  /\ owed' = [owed EXCEPT !.refresh = FALSE]
  /\ linkGeneration' = linkGeneration + 1
  /\ UNCHANGED <<peers, running, link, listing, host, air, receive, transmit>>

-----------------------------------------------------------------------------
(* A station's Signaling through the injected ring to its entry.            *)

FrameIn(m) ==
  /\ running /\ Budget /\ traffic < MaxTraffic /\ m \in ToSet(radio.stations)
  /\ traffic' = traffic + 1
  /\ ring' = Append(ring, [mac |-> m, generation |-> linkGeneration,
                           association |-> AssociationOf(peers, m)])
  /\ UNCHANGED <<table, air, rx, transmit>>

(* Mutant: the daemon takes a frame of an older link generation.            *)
Current_Any(generation) == generation <= linkGeneration

Current(generation) == generation = linkGeneration

(* Taken under s_injected_lock; early (history): a handler still owes the   *)
(* generation, or changes the table before the lookup.                      *)
RxTake ==
  /\ rx = Idle /\ ring # <<>>
  /\ ring' = Tail(ring)
  /\ rx' = IF Current(Head(ring).generation)
           THEN [frame |-> Head(ring), association |-> 0, table |-> peers.generation,
                 early |-> owed.loop # "none" \/ owed.refresh]
           ELSE Idle
  /\ UNCHANGED <<table, air, traffic, transmit>>

(* ptp_process_rx_packet notes the sender's association.                    *)
RxLookup ==
  /\ rx # Idle /\ rx.association = 0
  /\ rx' = IF Publishable(peers) /\ Find(peers, rx.frame.mac) # {}
           THEN [rx EXCEPT !.association = AssociationOf(peers, rx.frame.mac),
                           !.early = @ \/ rx.table # peers.generation] ELSE Idle
  /\ UNCHANGED <<table, air, traffic, ring, transmit>>

Binds(e) == e # NoPeer /\ e.mac = rx.frame.mac /\ e.association = rx.association

(* ptp_wifi_peers_capable, back under s_peer_lock.                          *)
RxBind ==
  /\ rx # Idle /\ rx.association # 0
  /\ rx' = Idle
  /\ peers' = IF ~link THEN peers
              ELSE [peers EXCEPT !.entries = [s \in Slots |->
                      IF Binds(@[s]) THEN [@[s] EXCEPT !.heard =
                         [association |-> rx.frame.association, early |-> rx.early]]
                      ELSE @[s]]]
  /\ UNCHANGED <<running, link, linkGeneration, owed, listing, host, air, traffic, ring, transmit>>

-----------------------------------------------------------------------------
(* An Announce from the daemon through the mailbox to the worker.           *)

(* Generation first, then the copied registry; it overwrites the mailbox    *)
(* (ptp_wifi_ap_send_announce).                                             *)
Publish ==
  /\ Budget /\ traffic < MaxTraffic
  /\ running /\ link /\ Publishable(peers) /\ Occupied(peers) # {}
  /\ traffic' = traffic + 1
  /\ item' = [generation |-> linkGeneration, peers |-> Snapshot(peers)]
  /\ UNCHANGED <<table, air, ring, rx, worker>>

WorkerTake ==
  /\ worker = Idle /\ item # NoItem
  /\ worker' = [generation |-> item.generation, peers |-> item.peers, entry |-> NoPeer,
                at |-> "check", table |-> 0]
  /\ item' = NoItem
  /\ UNCHANGED <<table, air, receive>>

(* The tests of ap_send_announce_now before it turns to a station.          *)
WorkerCheck ==
  /\ worker # Idle /\ worker.at = "check" /\ Current(worker.generation)
  /\ \E entry \in worker.peers :
       worker' = [worker EXCEPT !.peers = @ \ {entry}, !.entry = entry, !.at = "begin"]
  /\ UNCHANGED <<table, air, receive, item>>

(* Mutant: a claim asks only whether the station is known.                  *)
Claims_Mac(entry) == Find(peers, entry.mac) # {}

(* The guards of ptpd_wifi_announce_begin around the schedule.              *)
Claims(entry) ==
  /\ link /\ Publishable(peers)
  /\ Find(peers, entry.mac) # {} /\ AssociationOf(peers, entry.mac) = entry.association

(* To the next station of the item.                                         *)
Onward == [worker EXCEPT !.at = "check", !.entry = NoPeer, !.table = 0]

(* ptpd_wifi_announce_begin, under s_peer_lock: the station is claimed, or  *)
(* refused, by the station's schedule too (AnnounceTransmit); table         *)
(* (history) is the registry's generation at the claim.                     *)
WorkerBegin ==
  /\ worker # Idle /\ worker.at = "begin"
  /\ \/ /\ Claims(worker.entry)
        /\ worker' = [worker EXCEPT !.at = "send", !.table = peers.generation]
     \/ worker' = Onward
  /\ UNCHANGED <<table, air, receive, item>>

(* wifi_ap_send_unicast_ptp to the claimed station, behind the lock.        *)
WorkerSend ==
  /\ worker # Idle /\ worker.at = "send"
  /\ worker' = Onward
  /\ UNCHANGED <<table, air, receive, item>>

WorkerDone ==
  /\ worker # Idle /\ worker.at = "check"
  /\ worker' = Idle
  /\ UNCHANGED <<table, air, receive, item>>

-----------------------------------------------------------------------------
Listing == ListRead \/ ListStations \/ ListJoin \/ StateSet
Loop == HandleAp \/ HandleReport \/ LoopRetire
Refresh == RefreshRequest \/ RefreshWarn \/ RefreshRetire
Radio == ApStop \/ ApStart \/ RadioRestart \/ \E m \in Macs : RadioJoin(m) \/ RadioLeave(m)
Receive == RxTake \/ RxLookup \/ RxBind \/ \E m \in Macs : FrameIn(m)
Transmit == Publish \/ WorkerTake \/ WorkerCheck \/ WorkerBegin \/ WorkerSend \/ WorkerDone

Next == Listing \/ Loop \/ Refresh \/ Radio \/ Receive \/ Transmit

(* The port comes up, the event loop and the refresh task run, and a        *)
(* stopped AP is started again.                                             *)
Spec ==
  /\ Init /\ [][Next]_vars
  /\ WF_vars(Listing) /\ WF_vars(Loop) /\ WF_vars(ApStart)
  /\ WF_vars(RefreshRequest) /\ WF_vars(RefreshWarn) /\ WF_vars(RefreshRetire)

-----------------------------------------------------------------------------
(* The registry and its threads keep their shapes: the listing makes at     *)
(* most three attempts, and queued events are ones the handlers know.       *)
TypeOK ==
  /\ peers \in [generation : Nat, radioBoot : Nat, radioGeneration : Nat, reconciled : Nat,
                unreported : BOOLEAN, entries : [Slots -> {NoPeer} \cup Entry]]
  /\ {running, link, owed.refresh} \subseteq BOOLEAN
  /\ owed.loop \in {"none", "bump", "up", "down"}
  /\ listing.pc \in {"read", "list", "join", "done"} /\ listing.attempt \in 0..2
  /\ host \in [anyReport : BOOLEAN, boot : Nat, warned : BOOLEAN]
  /\ \A i \in DOMAIN events : events[i] \in Event
  /\ linkGeneration \in Nat

(* Published associations are the radio's: whenever the registry rests on a *)
(* report of the radio's present generation and no event came after it, it  *)
(* holds exactly the stations the radio has (ptp_wifi_peers_reconcile after *)
(* the joins and leaves of earlier events).                                 *)
ReconciledIsRadio ==
  (/\ Hosted /\ Publishable(peers) /\ ~peers.unreported
   /\ peers.radioBoot = radio.boot /\ peers.radioGeneration = radio.generation)
    => MacsOf(peers) = ToSet(radio.stations)

(* An association number names one lifetime: the registry's generation      *)
(* never falls, and an entry that begins has a number above every earlier   *)
(* generation and unlike every other entry's (ptp_wifi_peers_advance before *)
(* every join, across stops and reports).  Work that carries an old number  *)
(* therefore never matches a later lifetime.                                *)
AssociationsAreNew ==
  [][/\ peers'.generation >= peers.generation
     /\ \A s \in Occupied(peers') :
          LET new == peers'.entries[s]
          IN \/ /\ s \in Occupied(peers)
                /\ new.association = peers.entries[s].association /\ new.mac = peers.entries[s].mac
             \/ /\ new.association > peers.generation /\ new.association <= peers'.generation
                /\ \A o \in Occupied(peers') \ {s} :
                      peers'.entries[o].association # new.association]_vars

(* A station that stays keeps its entry and its slot, hence its logical     *)
(* port: no event or report moves it while others come and go, no two slots *)
(* hold it, and no newcomer takes its place, for only its own event, a stop *)
(* or a report ends its lifetime (ptp_wifi_peers_join).                     *)
SurvivorsKeepTheirPort ==
  [][/\ \A m \in Macs : /\ Cardinality(Find(peers', m)) <= 1
                        /\ Find(peers, m) = {} \/ Find(peers', m) \subseteq Find(peers, m)
     /\ \A m \in MacsOf(peers) \ MacsOf(peers') :
          /\ events # <<>> /\ events' = Tail(events)
          /\ Head(events).kind \in {"stop", "report"} \/ Head(events).mac = m]_vars

(* The port number published for a station is no other station's, and no    *)
(* slot of another physical port has it (ptp_wifi_association_port).        *)
PortsAreDisjoint ==
  \A e \in Snapshot(peers), q \in 1..PhysicalCount, s \in Slots :
     LogicalPort(q, s) = e.port => q = PhysicalPort /\ s \in Find(peers, e.mac)

(* The registry keeps its shape and gives each station a port of its own    *)
(* (ptp_wifi_association_port).                                             *)
RegistryInv == TypeOK /\ PortsAreDisjoint

(* The worker sends under the logical port that the station has now,        *)
(* although the item was copied before later events, and to a station that  *)
(* is gone or has moved only if the registry changed after that very claim: *)
(* no older event gets past the claim (ptpd_wifi_announce_begin before the  *)
(* send outside the lock in ap_send_announce_now).                          *)
SentToPresentStation ==
  worker # Idle /\ worker.at = "send" =>
    \/ worker.entry \in Snapshot(peers) /\ Publishable(peers)
    \/ worker.table # peers.generation

(* A queued frame reaches a later association only if the daemon took it    *)
(* while a handler was changing the table: before the link generation that  *)
(* retires it was advanced (ptp_wifi_event_handler,                         *)
(* ptpd_wifi_association_reconcile).                                        *)
LateFrameOnlyInWindow ==
  \A s \in Occupied(peers) :
     LET heard == peers.entries[s].heard
     IN heard # NoFrame => heard.association = peers.entries[s].association
                           \/ heard.association = 0 \/ heard.early

(* In the end the registry serves every station the radio has and, where    *)
(* the radio reports its changes, no other.                                 *)
EventuallyServed ==
  <>[](radio.stations # <<>> =>
        /\ Publishable(peers)
        /\ ToSet(radio.stations) \subseteq MacsOf(peers)
        /\ Hosted /\ Reporting /\ Patched => MacsOf(peers) = ToSet(radio.stations))
=============================================================================
