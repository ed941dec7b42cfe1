# Verification of esp_ptp

TLA+ models of the PTP/gPTP daemon in `src/`, checked with TLC on small
instances; their safety properties are proved with TLAPS for every value of the
constants. `PROJECT.json` lists the runs, the mutants that show each
property can fail, the source lines behind every definition, the hazards and
the findings.

## 1. The system

`ptp.c` is one daemon task and the callbacks that share its state; the headers
beside it hold the small state machines it uses.

Threads: the PTPD daemon loop (`ptp_daemon`); the esp_timer task, which sends
peer delay requests; the default event loop (Ethernet and Wi-Fi events); the
Wi-Fi receive callback and the vendor-IE callback; the announce and capability
workers; the beacon republish and refresh tasks; the FTM client task; and
application threads. Three spin locks are used: `s_peer_lock` (exchange, rate,
capability, Wi-Fi peers and schedules), `s_timing_lock` (timing snapshots) and
`s_injected_lock` (frame ring, link generations). The profile, the selected
source and the fallback flags are not under any lock.

| Component | State | Operations | Shared with | What makes it correct |
|---|---|---|---|---|
| Peer delay exchange | `peer_exchange`, `peer_rate`, `peer_capability`, delay average | begin, publish, cancel, response, finish, replay, expire, abandon, invalidate | timer, daemon, events, profile resets | a measurement uses stamps of one exchange and one clock epoch; capability does not outlive the link; losses counted once |
| Profile fallback | active and preferred profile, latch, reason, evidence | arm, check, set profile, receiver restarted | daemon, events, application | one fallback per window, on evidence of that window; no restart forgotten |
| Source selection | `selected_source`, receipt timers, pending Sync | Announce, Sync, Follow_Up, verdict per pass | daemon, profile resets | Sync and Follow_Up of one source; silent sources dropped |
| Timing snapshots | received and local snapshot, generation | publish, invalidate, read | daemon, workers, AP announce queue | valid timing is of the selected source; a generation names one source |
| Injected frame ring | ring, link generations | inject, drain, link change, start, stop | receive callbacks, daemon, events | FIFO, at most once, fresh frames only, no starvation |
| Status request | one slot | ask, answer, time out | application, daemon | a request is answered within a pass |
| AP peers and associations | peer table, association generations, the radio's boot and generation | list, join, leave, reconcile, bind, snapshot | event loop, refresh task, daemon, worker | nothing of an old association is used; the table becomes the radio's |
| Announce and capability schedules | due times, serials, claims | request, claim, send, complete, rebind | workers, daemon, events | a completion of an old claim changes nothing; the receiver never times out because of a change of interval |
| FTM sessions | session, grant, AP reset detection | start, cancel, report, bind | FTM task, event loop, daemon | one session at a time; a late report is ignored; ranging goes on |
| Delay requests | permission, unicast probe, delay averages, interval | send, Delay_Resp, average, negotiate | timer, daemon, application, event loop | an unanswered source is measured; averages divide by their samples |
| Software clock, beacon discipline, servo | affine clock, PI state | rebase, adjust, step | daemon, beacon tasks | continuous across rebases; clamps |
| Beacon IE, daemon life cycle, watchdog, wire formats, diagnostics | sockets, driver | I/O | | |

What is hard here: code that reads under a lock, computes outside it and writes
back; three threads that write the profile without a lock; answers that arrive
late, twice or before the request's own time stamp is known; link changes and
clock steps at any moment; single slots and bounded rings. `PROJECT.json`
lists these as hazards with the properties that cover them.

## 2. The models

### PeerExchange (and MCPeerExchange, PeerExchangeProofs)

The functions of `ptp_peer_exchange.h` and `ptp_peer_rate.h` are operators on
the record `exchange` and on `rate`. Their callers are four threads; one action
is one critical section or the stretch between two:

* `timer`: `TimerBegin` (expire, then begin), `TimerSend` (outside the lock),
  `TimerPublish` (publish or cancel, re-arm);
* `daemon`: `DaemonResponse`, `DaemonFollowUp`, `DaemonTake` and `DaemonReplay`
  for the retained follow-up, `DaemonApply` for the write-back, `DaemonExpire`,
  `DaemonStep` and `DaemonClean` for a clock step, `DaemonArm`;
* `link`: `LinkInvalidate`, `LinkSet`, `LinkArm` in the order of
  `ptp_set_port_link` and the event handler;
* `reset`: `ptp_reset_for_profile`, in the order of its writes.

A time stamp is the request it belongs to and the epoch of the local clock; a
clock step starts a new epoch. Everything the arithmetic on stamps decides
(elapsed times, ratio in range, delay in range) is a free choice, so the
properties hold for any stamps. Arrivals may be lost, repeated, late and
reordered, but answer a request that left. History variables: `departed`,
`begun`, `lost`, `measured`, and `averaged`, which stands for `peer_delay_ns`
and its count.

Left out: the wrap of the uint32 generation and lifecycle; the diagnostic
counters; a second profile reset concurrent with the first (the `reset` thread
stands for whichever thread runs it); domains other than 0, in which the
neighbor's gPTP-capable Signaling counts as well. `pdelay_multi_responder` is set
together with the response, not just after the unlock.
`next_delayreq_interval_ms` is merged with `delayreq_interval_ms`.

### SourceTiming (and MCSourceTiming, SourceTimingProofs)

One pass of `ptp_daemon` on the wired bootstrap port: the capability check, at
most one timing frame, the verdict on the source, the local source; against it
`ptp_reset_for_profile` in another thread. An Announce is reduced to announcing
port, root, quality (the bytes of the comparison before the identity) and
stepsRemoved. Ages saturate at the value the code compares them with, so time is
unbounded. `capable` changes freely. An Announce that the path trace or the
length tests reject is a pass without a frame. `owners` is history: which root
and time base each generation was given to. Left out: the Wi-Fi STA branch and
the FTM source, the servo, the 500 ms freshness test of the readers. The bound
`MaxGeneration` stops inputs, not the daemon or time.

### ProfileFallback (and ProfileFallbackProofs)

Every unlocked write of `ptp_arm_profile_fallback`, `ptp_check_profile_fallback`
and `ptpd_set_profile` is an action; `Arm(t)` is the same code for each thread
`t`. The build is an AVB Lite endpoint with a port that is not bridged. `asked`
is the argument of `ptpd_set_profile`. History: the restart not yet followed by a
re-arming (`owed`), windows and fallbacks.

### InjectedFrames and FrameChannel (proofs in PeerRegistryProofs)

`FrameChannel` says what the ring promises: a bounded FIFO that hands a frame
over at most once and only if its port had no link change since. `InjectedFrames`
is the ring with its two-section insertion, and implements it under the mapping
`queue <- Queued`, liveness included. The uint32 generation's wrap is left out.

### StatusRequest

The single slot. A caller times out only after the daemon completed a whole
pass: the timeout is a second and the poll cap half of one.

### PeerRegistry (and MCPeerRegistry, PeerRegistryProofs)

The table of `ptp_wifi_peers.h` with its operations as operators on one record,
and the threads that use it: the listing in `ptp_port_init_wifi_ftm` (`ListRead`,
`ListStations`, `ListJoin`, `StateSet`), the event loop (`HandleAp`,
`HandleReport`, and `LoopRetire` for the second critical section, which advances
the link generation), the refresh task, a received frame from the ring to its
entry (`RxTake`, `RxLookup`, `RxBind`) and an Announce item from the daemon
through the mailbox to the worker (`Publish`, `WorkerTake`), which tests the
item, claims a station under `s_peer_lock` and sends outside it (`WorkerCheck`,
`WorkerBegin`, `WorkerSend`), with events in between: a frame claimed before a
leave may go out after it, under the port the station had (`ptp_wifi.c:151`,
`160`), and `SentToPresentStation` says that nothing older than that claim does.
The radio is external: it has stations, a boot number and a generation, forwards
an event before the report of the same change, drops a report when the event
queue is full, and may restart without a word. What a frame carries is the
association it was sent in; `early` records that a handler stood between its two
sections.

`Hosted`, `Reporting` and `Patched` say what sits behind the port. The runs set
all three: a coprocessor that answers and reports its changes. Counters do not
wrap.

### AnnounceTransmit (and AnnounceTransmitProofs)

One station's `ptp_announce_schedule_t`: the functions of the header as
operators, the daemon that publishes into the mailbox and applies requests, and
the worker, which takes an item and tests it (`WorkerTake`), tests it again
before the station's turn (`WorkerCheck`), claims under `s_peer_lock`
(`WorkerBegin`), sends outside it and completes (`SendAccepted`, `SendRefused`).
Both tests ask whether the item is less than a second old and of the present
timing source (`ptp_wifi.c:139`, `147`). Claim and completion are refused while
the registry is not publishable (`ptp.c:790`; `BeginUnpublished`,
`SendUnrecorded`).

Time is kept as distances from now in ticks of `1/Second` s, so it is unbounded;
the base interval may be longer or shorter than a second. The rigid variable
`prompt` chooses once whether time waits for daemon and worker to catch up and
the port to be published (the pace properties need that), or they fall behind
freely (what goes on must go on then too). `sent` (history) is the content of the
last frame handed to the radio and how many frames of a retired source went out
since the source changed. The station is external: the last interval it was told,
the time since, and losses, of which `MaxLost` in a row are possible. It is
followed where daemon and worker keep up.

Simplified: the code reads the time of the claim at the test before it
(`ptp_wifi.c:145`), the model at the claim. Where the pace is stated no tick
falls between the two.

### CapableTransmit (and CapableTransmitProofs)

The gPTP-capable messages to one Wi-Fi neighbor: `ptp_capable_schedule_t` and
`ptp_capable_interval.h`, the daemon's drain of completion records, its poll
timeout (`Wait`), the claim, the queue, the worker, the result queue; against
them interval requests, another port behind the association (`Rebind`), a new
association whose link generation advances later (`Associate`, `Advance`), and a
profile reset in another thread, which retires the work in flight first and
zeroes the schedule in a second critical section (`ProfileReset`,
`ResetSchedule`), both at any point of the daemon's pass. A rebinding is the
handling of a packet and so a step of the daemon's. The neighbor's expectation
begins anew with an association, a rebinding, a profile reset (with its first
step) and a stop: `NeighborStaysCapable` is about the time between these. The
rigid variable `lag` is the time the worker may take for a message, 0 or
`MaxDelay`; the neighbor is followed where it is 0. An item's `mine` (history)
says that it belongs to the outstanding claim.

### FtmSession (and FtmSessionProofs)

The FTM initiator: the client task (`ClientPosts`, `ClientReleased`,
`ClientGivesUp`, `ClientCancels`), and the event loop's handling of START,
CANCEL, association events and reports, one action per exit path. The rigid
variable `discipline` selects Mode A, where a session is bound to the policy of
the association (`Bind`, `SyncRequest`, `Rebind`, `Snapshot`), or Mode B, where
it needs a fresh beacon. The driver is external: one session, one report each
unless Wi-Fi is stopped. Detection of an AP whose TSF restarted is a baseline
and a streak. The averaging inside a report, the two-second values and the
success window are data; that a wait ends is a step of the client.

### DelayRequest (and DelayRequestProofs)

The Delay_Req of a client in standard PTP and what it shares without a lock: the
timer callback in the steps of `ptp_send_delay_req`; the daemon's Sync, Announce
and Delay_Resp handling; and `ptpd_inject_peer_delay` in the event loop of a
wireless port. Three kinds of thread run `ptp_reset_for_profile`: the application
(`SetProfile`), the event loop at link-up (`LinkUp`, then
`ptp_arm_profile_fallback`), and the daemon, when it falls back (`LoopFallback`)
or was told of a restarted receiver (`LoopRearms`). Each is one process of
`thread`, at one store at a time:

* the active profile, the intent or latch, then the reset: source and probing,
  count and delay of either average as four stores (`ResetCount`, `ResetDelay`,
  `ptp.c:1029-1032`), the permission, the exchange (`ptp_clean_after_step`, after
  the counts), the test of the profile (`ResetTests`, `1041`) and the stores of
  the two intervals (`ResetInterval`, `ResetNextInterval`);
* the averages in the steps the compiler may separate: read the count, store it,
  read it again, divide, store (`AverageCount` to `AverageKeep`);
* a Delay_Resp's choice of the interval: test, store, second test, store of
  `next_delayreq_interval_ms` (`ReplyNegotiates`, `ReplyInterval`, `ReplyDraws`,
  `ReplyNextInterval`, `ptp.c:3846-3857`).

A reply is tagged with the numbers drawn since its request. `Init` chooses the
profile and whether port 0 is wireless. `torn` (history) names what a reset and
another thread were at together: an average while one of the two stands between
its reading of a count and the store of the delay, the interval while a reset
tests the profile and another thread is past its own test. The next restart that
finds nobody there removes the mark, so the properties hold again; see 14 and 15
in section 5.

Merged: `ResetClient` (the stores from `ptp.c:1021` to `1027`), an Announce's
stores, and the second test of a Delay_Resp with its reading of the interval
(`ptp.c:3854-3855`).

## 3. The runs

| Run | Bounds | Shows |
|---|---|---|
| peer_exchange | 2 neighbors and self, 3 requests, 2 link changes, 1 step, 1 reset, 3 instants, equal intervals as the defaults are; 4.4 M states | CoherentMeasurement, RateIsContinuous, AverageOneNeighbor, CapabilityIsEarned, LossesAreSound |
| source_timing | 4 Announce bodies over 2 ports and 2 roots, 2 Sync numbers, generation up to 3; 1.4 M states | SourceInv, FollowUpPairsOneSource, SnapshotOfSelected, GenerationNamesRoot, SilentSourceDropped |
| fallback | loss limit 2, 2 windows; 0.4 M states | FallbackInv, RestartNotForgotten, EndpointActedOn |
| injected_frames | ring of 2, 2 callbacks, 2 ports; 0.3 M states | ImplementsChannel (refinement of FrameChannel), PeriodicWorkGoesOn |
| status_request | 2 callers | a disagreement with a comment, see section 5 |
| peer_registry | 3 stations, 2 slots, 3 changes of the radio or pieces of traffic together, 1 of traffic, symmetric stations; 2.3 M states | RegistryInv, ReconciledIsRadio, LateFrameOnlyInWindow, AssociationsAreNew, SurvivorsKeepTheirPort, SentToPresentStation |
| peer_served | 2 stations, 2 changes | EventuallyServed |
| announce | intervals of 1, 2 and 4 s, an unsupported one, stop and default; 3 edits (2 where they fall behind), 1 loss in a row; 0.5 M states | PaceInv, StationHoldsOn, OneFrameOfRetiredSource, InformationIsSent, AnnouncesGoOn |
| capable | intervals 1 and 2, 3 slow sends and receipts instead of 9, queue of 1, 4 tokens, 3 edits (2 with lag), lag of 1, 1 loss in a row; 1.0 M states | PaceInv, CompletionIsItsClaim, NeighborStaysCapable, CapableGoesOn |
| ftm | 2 access points, 3 moves, 3 queued events, streak of 2 instead of 3 | SessionInv, AcceptedIsOwn, OneDriverSession, RangingGoesOn, ResetNoticed |
| delay_threads | 1 source, the application as third thread that changes the profile, 1 change beside the fallback, averaging count 2, built without unicast requests (`CONFIG_ESP_PTP_UNICAST_DELAY_REQ`); 2.1 M states | DelayInv, DivisorOfSamples |
| delay_probe | 2 sources, one may be mute, endpoint beacons, 3 misses, averaging count 1, no profile change but the fallback; replies are lost or late; 157 k states | MulticastMeasured, UnicastRetried |

An invariant named `...Inv` is a conjunction of named parts, each stated with its
own comment in the module: the type invariant and one or more properties about
the consistency of the state. The ring has no type invariant of its own:
`ImplementsChannel` already fails when an index or the count leaves the ring.

Why the bounds are enough. Three requests allow a late answer to meet the next
request, and anchor, step and re-anchored sample with a change of neighbor; two
link changes take the port down and up again. The ring of two wraps around and is
full; two windows let a decision of the first meet the second. With three
stations and two slots a newcomer meets a full table and a slot is reused; three
changes let a station leave, another come and the first return, or a restart
between two reports. Three edits are a slow-down, a second request before it took
effect, and a third or a rebinding before either was told. Four tokens wrap
within a run, and a completion one tick late meets the claim after its own. The
runs use base intervals of a second; shorter ones, which the theorem of section 4
covers, would leave no loss in a row (`LossesFit`). Three moves let the station
leave an access point, return to it and meet a report of the first visit. Unicast
probing, which no average or interval reads, runs in delay_probe only. Limits
(9 losses, 9 slow sends, 3 backward reports) are smaller because only reaching
them matters. Where bounds stop the environment deadlock checking is
off; announce, capable and the delay runs check it. Symmetry is used for
invariants and action properties, never for liveness.

Fairness. `poll()` in the daemon has a cap, so its pass goes on (`WF` of the
pass); a thread inside an operation finishes it (`WF` of the reset, arm and
listing steps); the event loop, the refresh task, the workers and the FTM client
are tasks of their own and run (`WF`); time passes (`WF` of `Tick`; `SF` in
CapableTransmit, where packets that wake the daemon could otherwise hold it up);
a profile reset that retired the work also zeroes the schedule (`WF` of
`ResetSchedule`). Strong fairness is used where the environment is asked for
something again and again: in AnnounceTransmit the worker finds a fresh item in a
mailbox that the daemon overwrites, and now and then passes its second test while
the item is still fresh; in FtmSession the driver ends a session although the
client posts in between; in DelayRequest Sync messages come, a waiting reply is
received and sends to the group do not all fail. In PeerRegistry an AP that was
stopped is started again. Nothing is assumed of link events or of applications.
In InjectedFrames `WF(Drain)` is what makes a running daemon come back; the drain
bound, not fairness, keeps the periodic work alive. The delay properties are
conditional on requests going out, for the reason given under 11 in section 5;
`MulticastMeasured` also on replies that come in time from some step on
(`InTime`, an action formula): before that they are lost and late as they like.

## 4. The proofs

A theorem holds for every value of the constants that satisfies the module's
assumptions, so the bounds of section 3 play no part in it. Each is proved
along the same argument: an inductive invariant, named below, that holds
initially and is kept by every action (one step of the proof per action) and
implies the property. TLC was given each invariant before it was proved.

### PeerExchange

`PeerExchangeProofs` proves `TypeOK` and all properties of PeerExchange, the
parts and their conjunctions. The properties are not inductive: a measurement is
only coherent because of what holds of the exchange when it is copied.
`ExchangeInv` is the strengthening:

* `RequestInv`: only the timer begins and publishes; a generation other than the
  one the timer holds means that its request is abandoned;
* `EpochInv`: outside the gap between a step and its clean-up, the exchange and
  the rate are of the current clock epoch;
* `MeasureInv`: a measurement whose generation is current describes the exchange
  as it stands, and its copy of the rate is the rate;
* `LinkInv`: what qualified the port happened on the present link unless its
  lifecycle is out of date, and a poisoned exchange is not qualified;
* `LossInv`: each request is counted at most once;
* `AverageOneNeighbor`.

`ExchangeCorrect` proves `TypeOK /\ ExchangeInv` by one lemma per action; the
other theorems follow from it. Assumptions: identities are distinct, intervals
positive and bounds natural numbers.

### SourceTiming

`SourceCorrect`, `FollowUpCorrect`, `SnapshotCorrect` and `GenerationCorrect`
prove all four invariants of the run. They speak of the state between passes or
of what is stored; `SelectionInv` says what makes it so inside a pass:

* `PairInv`: a waiting Sync is of the selected source also while an Announce is
  being adopted or a verdict is pending, and of none when there is none;
* `PublishInv`: as long as the generation the pass read still stands and no reset
  began, the source found at the start of the Follow_Up is still selected;
* `SnapshotInv`: outside a reset a valid snapshot is that of the selected source
  at every place of the pass, and the local clock is published only where the
  pass ends without one;
* `OwnerInv`: what was published under the current generation is what the
  snapshot holds, and no generation given out is larger.

Assumptions: Announce bodies are vectors, and there is a longest Sync window (the
code's is a shift of at most 24 times three).

### ProfileFallback

`FallbackCorrect` and `RestartKept`. With three threads that write in any order a
latch or a reason in gPTP is not excluded, only on its way out: `LatchPending`
and `ReasonPending` name the threads that will still repair it, and `LatchInv`
says that nobody but the daemon sets the latch, and only an open one.

### InjectedFrames

`RingImplementsChannel` is the safety part of the refinement: under the mapping
`queue <- Queued` the initial states are FrameChannel's and every step is one of
its steps or a stutter. `BufferInv` (places and count in range, frames between
head and tail, a frame in hand only while it is handled) is what makes the
modular arithmetic of head, tail and count that of a FIFO. The theorem stands in
`PeerRegistryProofs`, which takes an instance of the ring; `RingSizes`, its
hypothesis, is the assumption of InjectedFrames on that instance's constants.
The fairness part of `ImplementsChannel` needs ENABLED and stays with TLC.

### PeerRegistry

`PeerRegistryProofs` proves all six safety properties of the run, for any
stations, ports, slots and bounds: `RegistryInvariant`, `ReconciledInvariant`,
`LateFrameInvariant`, `SentToPresent`, and the action properties
`AssociationsNew` and `SurvivorsKeep`. They follow from `TableInv`:

* `Distinct`: a station has one slot, and an association one number, not above
  the registry's generation. Without it a slot number would not determine the
  port a copy of the table was given;
* `RadioInv`: queued reports tell of present or earlier states of the radio, and
  a table that rests on the report of the present state has its stations. A
  report may be lost and the radio may restart, so only boot and generation
  together name a state;
* `LinkInv`: starts and stops of the access point alternate from the state of
  the link to that of the radio, through the whole queue of events, and a
  stopped radio has no stations. Hence a stop, which ends every association,
  finds the link up, and taking it down retires the frames queued before;
* `FrameInv`: a frame in the ring that is of the present link generation is its
  sender's own, unless the event loop still owes a new generation; a frame taken
  while nothing was owed is its sender's as long as the table stands. The
  frame's way to its entry crosses three critical sections, and this says what
  each of them can rely on;
* `ItemInv` and `WorkerInv`: a copied entry whose association is still there has
  the station and the port of its slot, in the mailbox and with the worker;
* `ClaimInv`: the station claimed is in a published table under the port it was
  copied with, as long as the table's generation stands.

`TableInvariant` proves it by one lemma per kind of step. What an operation does
to the table is stated once, as a relation between the old and the new table
(`Follows`, `Grows`, `Fewer`, `Rebound`), and the lemmas on joins, leaves and
reconciliation say which of them holds. `JoinAll` goes through a list of any
length by a recursive function of the position. What is needed of it (`Grows`
from each position to the next) is proved by induction in the form of a least
counterexample (`Least`, `Upward`), which needs no theorem with an operator as a
parameter. That all stations of a report find a slot (`Room`) is a pigeonhole
argument over the cardinality of the occupied slots. Assumption: the empty
entry is no entry.

### AnnounceTransmit

`PaceCorrect`, `StationCorrect`, `RetiredCorrect` and the action property
`InformationCorrect`. `AnnounceInv` is:

* `ClaimInv`: a slowdown counts down as its interval is told; a pending claim is
  for the interval in force; a send older than the latest request has none;
* `CaughtUp`: where daemon and worker keep up, what was published since the last
  change is of now; once the worker took it the information is of now, and once
  it went through the station has been served (`Settled`): it is not due;
* `SentInv`: an active schedule that has the latest information sent it, or is
  sending it. With `CaughtUp` this is `InformationCorrect`: the worker compares
  contents, the schedule only revisions, and a request or a reset that makes the
  schedule inactive makes it due as well;
* `RetiredInv`: one frame of a retired source was sent, or is past the check,
  never both;
* `HoldInv`: `ToldInv` (the AP sends at least as often as the station was told,
  and it will have been told the new interval when the slowdown ends) and
  `TimeInv` (the next deadline, and the end of a claim without a completion, fall
  within what the station allows, `Allowed`: for each loss in a row, and the
  first announcement, an interval or the second until the claim is given up,
  whichever is longer).

`FollowedInv` says that the station is followed where they keep up.

`StationCorrect` has the hypothesis `LossesFit`: at most two announcements are
lost in a row, for with three lost the station's three intervals are over,
whatever the schedule does; and the seconds that these losses and one refused
completion block the schedule fit into three of the fastest intervals. With a
base of a second or more the second part follows from the first; with half a
second it leaves no loss. With 250 ms or less a single completion that is refused
or lost blocks the claim for longer than three intervals
(`ptp_announce_schedule.h:86`), the station gives up its source, and the theorem
says nothing: this is how the code behaves, and
`CONFIG_ESP_PTP_ANNOUNCE_INTERVAL_MS` does not exclude it. Assumption: logs from
-24 to 24, as in the code, so that a period is one of finitely many powers of two
or a rounded-up part of a second.

### CapableTransmit

`PaceCorrect`, `ClaimCorrect` and `NeighborCorrect`. Tokens wrap, so that a
completion of an old claim is told from one of the outstanding claim only by how
many claims can have been made meanwhile. `CapableInv` is:

* `InFlightInv`: the number of claims since an item's own is at most its age in
  ticks and the requests made in all, and one less while another claim is due
  only after a tick; what is to be sent for the outstanding claim was claimed
  after the latest request;
* `SlowInv`: a slowdown counts down no faster than its interval is told, an
  accepted message whose record waits included.

`Reserve` says that a profile reset, which takes two steps, has a change of the
bound in hand until its second.

Assumptions: shift and slowest log of the code (3 and 24 at most), and
`TokenAssumption`: the work in flight, as the bounds allow it, is less than the
tokens there are (UINT32_MAX in the code).

`NeighborCorrect` adds up times from the schedule to the neighbor. A claim whose
completion record found its queue full, or belongs to an old association, is not
answered: the schedule stands still until the claim expires a second later
(`Stuck`). `NeighborInv`, which holds where the worker keeps up, speaks of
`Line`, everything the worker is still to send in its order, and of `Deadline`,
the ticks until the schedule is due again:

* `OrderInv` and `LogInv`: what was claimed before the latest request is sent
  first, and the daemon is never slower than what the neighbor was told or is
  going to be told, although the request that slows it down and the messages
  that announce it pass each other;
* `DueInv` and `WaitInv`: the deadline is within a period, and the daemon does
  not sleep past it;
* `GenerationInv` and `FreshInv`: a message of an old link generation and more
  waiting records than losses occur only in the tick in which the neighbor
  heard, so that a claim without an answer is never preceded by silence;
* `GapInv`: the time since the neighbor heard and the time until it hears again
  fit the periods that the losses so far leave. When the last message of a
  slowdown is counted the deadline moves from the old period to the new one at
  once; `Hand` is the period that was kept for this since the neighbor was told.

Its hypothesis `ReceiptsCover` bounds the losses in a row: the receipts that they
leave must last a second at the fastest interval and two periods, a slowdown is
told more often than that and a result queue holds as many records. At the code's
values (9 receipts, 9 announcements, a second of 8 fastest intervals) this is one
loss in a row, and not two: a claim that expires silences 8 of the 9 periods, and
TLC finds the property violated on small instances one beyond each of the first
three bounds. That the fourth is needed is not known. The queues are those of one
neighbor; in the code all neighbors of the port share them.

### FtmSession

`SessionCorrect`, `AcceptedCorrect` and `OneSessionCorrect`. `LoopInv` is:

* `PendingInv`: a session of the driver, or the one report it left in the queue,
  is what `pending` stands for; behind a stop there is neither;
* `TakenInv`: the policy snapshot taken is no later than the policy;
* `InFlightInv`: work that is no longer what it was begun for (a report in the
  queue, a session of the driver) finds the session void or its policy changed,
  and work of another association has requested nothing in this one;
* `GrantIsCurrent`.

### DelayRequest

`DelayCorrect` and `DivisorCorrect`, for any set of threads that change the
profile. The properties hold although a reset writes without the lock, as long as
it and another thread were not at the same average, or the interval, together
since the last restart that found it unattended (`torn`, see 14 and 15 in
section 5). `ThreadInv` is:

* `OneAtATime`: the two threads that average peer delays are never on the same
  port, and the daemon averages, resets and goes through its loop in turn;
* `SampleInv`, for each average that is not torn: at rest the count is that of
  the samples, a reset that cleared the count is alone with it until it cleared
  the delay, and a thread that averages goes by the count it raised;
* `IntervalInv`, unless the interval is torn: nobody stands between test and
  store beside a reset (`Apart`), and in gPTP either a reset is still to test the
  profile or store gPTP's interval, or the interval (`IntervalKept`) and the next
  one (`NextKept`), stored or about to be, are gPTP's.

### What is only model-checked

* Liveness: `SilentSourceDropped`, `EndpointActedOn`, `PeriodicWorkGoesOn` and
  the fairness part of `ImplementsChannel`, `EventuallyServed`,
  `AnnouncesGoOn`, `CapableGoesOn`, `RangingGoesOn`, `ResetNoticed`,
  `MulticastMeasured`, `UnicastRetried`. Fairness and ENABLED are out of the
  prover's reach.
* `StatusRequest`: its run shows a disagreement, and there is nothing to prove.

## 5. Disagreements met

The first is a run of its own. The others were found with these models while
they were written; each is a behaviour of the model as it stands, and the
passing properties are stated so that they hold beside it.

1. `ptpd_status`: two simultaneous callers share one slot and the first times
   out, although the comment at `ptp.c:5042` allows simultaneous requests
   (status_request).
2. A fallback decided just before a link-up is written just after it
   (`ptp.c:2858`): the port is in standard PTP in a window that has no evidence,
   where `ptp.c:819` says that a link change begins a fresh startup window.
3. `ptpd_set_profile(standard)` during a fallback returns at `ptp.c:5059` and is
   not remembered as the intent that `ptp.c:5061` speaks of.
4. `ptpd_set_profile(standard)` leaves `avb_lite_fallback_reason` 0, where
   `include/esp_ptp.h:77-80` has a value for standard PTP configured.
5. The timing generation does not change when a received source returns without
   an Announce (`ptp.c:2507`), so it does not retire what was queued from the
   local source (`include/ptp_timing_snapshot.h:29`).
6. `ptp_radio_association.c:75` notes the radio's boot before it knows that the
   fallback to host events took effect. On the port that starts the daemon the
   first report may be handled before `s_state` is set; with a coprocessor that
   answers but does not report changes (`Patched` FALSE) the registry then never
   becomes publishable, against `ptp_wifi_association.h:41`.
7. The listing of stations accepts its list if the registry's generation stood
   still (`ptp.c:1854`), but the leave of a station not yet registered does not
   move it (`ptp_wifi_peers.h:84`). On a native AP (`Hosted` FALSE) the station
   stays registered after it left; a reporting coprocessor repairs it.
8. A frame queued in one association and taken between the two critical sections
   of the handler that ends it (`ptp.c:966`) is bound to the next one, although
   `ptp.c:964` retires queued frames on every change. `LateFrameOnlyInWindow`
   shows that this window is the only way.
9. A failed FTM session leaves `BIT_FTM_REPORT_OK` clear (`ptp_wifi.c:753`): the
   client waits out its two seconds, where `ptp_wifi.c:661` says that every
   consumed report wakes it. `RangingGoesOn` holds all the same.
10. Every report that is not rejected, unsupported or unanswered counts as a
    grant (`ptp_wifi.c:594`), one that failed otherwise included, where
    `ptp_wifi_capable.h:8` speaks of what the responder granted.
11. `can_send_delayreq` is set after a Sync and cleared at the head of the next
    pass (`ptp.c:4530`); a timer callback outside that stretch sends nothing and
    waits a whole interval, and nothing keeps every one from doing so, although
    the cadence is meant to be independent of the main loop (`ptp.c:2754`).
12. A daemon started in standard PTP creates no timer (`ptp.c:2020`) and never
    sends a Delay_Req, whatever `ESP_PTP_SEND_DELAYREQ` says
    (`Kconfig.projbuild:233`).
13. `unicast_delay_req_outstanding` is set after the send returned
    (`ptp.c:2726`), which waits for the egress timestamp; a Delay_Resp handled
    before that is counted as a miss (`Kconfig.projbuild:301`).
14. `ptp_reset_for_profile` clears counts and delays outside `s_peer_lock`, one
    store after the other (`ptp.c:1029-1032`). Beside an average of the daemon or
    of the event loop (`ptp.c:4831`) this goes wrong in two
    ways: between the count's increment and the division the divisor becomes 0,
    or a cleared count comes back; and an average that falls between the stores of
    count and delay leaves a count of 1 with a zeroed delay, so that the next
    divides by 2 over one sample. `DivisorOfSamples` holds for an average at which
    the two were not together since its last clean restart (`torn`).
15. The reset tests the profile (`ptp.c:1041`) and then stores the intervals
    (`1042-1049`), a Delay_Resp tests it and stores the interval (`3846-3849`) and
    tests it again and stores the next one (`3854-3857`). Between test and store
    another thread may reset to the other profile completely: a negotiated
    interval reaches gPTP from the Delay_Resp, and the standard interval from the
    daemon's fallback when `ptpd_set_profile` (`5059-5062`) or
    `ptp_arm_profile_fallback` at link-up (`826-828`) sets gPTP again before its
    store. gPTP then runs at that interval until the next reset. `GptpInterval`, a
    part of `DelayInv`, holds if the last reset to test the profile found nobody
    else past a test (`torn`).
16. After a change of the timing source a frame of the retired one may still go
    out: the worker's test (`ptp_wifi.c:147`) comes before the claim and the send.
    `OneFrameOfRetiredSource` shows that it is at most one.

## 6. Not modelled, and the plan

Next, in this order:

1. `DaemonLifecycle`: start, attach of further ports and stop, with the tasks
   that outlive a stop and the static state a second start meets.
2. `BeaconDiscipline`: the station's use of clock beacons and the republish task
   of `ptp_beacon_ie.c` against link changes.
3. `TlvChains`: path trace, message bounds and Signaling TLVs against a reference
   definition over short inputs.
4. `SoftwareClock`: rebasing of the affine clock against readers, and the clamps
   of the servo, over small integers.
5. The Wi-Fi branch of SourceTiming and the readers' freshness test; the wired
   capability message.
6. Composition of PeerExchange and ProfileFallback (losses and responders as
   evidence), and of SourceTiming with AnnounceTransmit.

Not planned: message formatting, sockets, the L2TAP watchdog, the driver calls of
the beacon publisher and diagnostics (I/O), and the floating-point arithmetic of
rate and servo (out of TLC's reach).
