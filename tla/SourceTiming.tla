--------------------------- MODULE SourceTiming ---------------------------
(***************************************************************************)
(* How the daemon selects a time source on the wired bootstrap port and    *)
(* publishes timing from it.  Two threads meet here:                       *)
(*                                                                         *)
(*   daemon  the pass of ptp_daemon: the capability check, at most one     *)
(*           timing frame (Announce, Sync or Follow_Up), the verdict on    *)
(*           the selected source, and the publication of the local source; *)
(*   reset   ptp_reset_for_profile, run by the event loop (link-up) or by  *)
(*           an application (ptpd_set_profile), which clears the source    *)
(*           while a pass is under way.                                    *)
(*                                                                         *)
(* They share the selected source without a lock; only the two timing      *)
(* snapshots are under s_timing_lock, and their generation is what keeps   *)
(* a publication that started before a change from outliving it.           *)
(*                                                                         *)
(* Clocks are ages that saturate at the limit the code compares them with, *)
(* so time itself is unbounded.  Whether the port is capable is decided by *)
(* the peer-delay exchange (module PeerExchange) and is free here.         *)
(***************************************************************************)
EXTENDS Integers, FiniteSets

CONSTANTS
  Announcements,    \* the Announce bodies that may arrive
  Own,              \* own_identity, in the same shape
  Passive,          \* the qualities whose priority1 is 255
  Sequences,        \* Sync sequence numbers
  Windows,          \* receipt windows of a Sync; 0 is an invalid interval
  InitialWindow,    \* the window started by a new source
  AnnounceTimeout,  \* announce receipt timeout
  StandardTimeout,  \* CONFIG_ESP_PTP_TIMEOUT_MS
  FollowUpLimit,    \* how long a Sync waits for its Follow_Up
  NoSource,         \* the zeroed selected_source
  MaxGeneration     \* bound: no new input once the generation is this large

(* An Announce, reduced to what the code compares: the announcing port, the *)
(* identity of the root clock, the six bytes of system quality before that  *)
(* identity in wire order, and stepsRemoved.                                *)
Vector == [port : Nat, root : Nat, quality : Nat, steps : Nat]

Ports == {a.port : a \in Announcements}
Roots == {a.root : a \in Announcements}
NoRoot == -1

ASSUME VectorAssumption ==
  /\ Announcements \subseteq Vector
  /\ Own \in Vector
  /\ NoSource \notin Vector

ASSUME WindowAssumption ==
  /\ Windows \subseteq Nat
  /\ InitialWindow \in Nat \ {0}
  /\ \E w \in Windows \cup {InitialWindow} : \A v \in Windows \cup {InitialWindow} : v <= w
  /\ AnnounceTimeout \in Nat \ {0}
  /\ StandardTimeout \in Nat
  /\ FollowUpLimit \in Nat
  /\ MaxGeneration \in Nat

VARIABLES
  gptp,            \* active_ptp_profile is gPTP
  capable,         \* what ptp_wired_capability answers
  selected,        \* selected_source: an Announce or NoSource
  selected_valid,  \* selected_source_valid
  announce_age,    \* time since last_selected_announce
  sync_age,        \* time since last_received_sync
  receipt,         \* sync_receipt: armed, window and age
  twostep,         \* the Sync that waits for its Follow_Up
  timing,          \* s_timing_snapshot
  local,           \* s_local_source_snapshot
  daemon,          \* the daemon's place in its pass, with its locals
  reset,           \* where ptp_reset_for_profile stands
  owners           \* history: the sources each generation was given to

vars == <<gptp, capable, selected, selected_valid, announce_age, sync_age,
          receipt, twostep, timing, local, daemon, reset, owners>>

source == <<selected, selected_valid, announce_age, sync_age>>

Least(a, b) == IF a < b THEN a ELSE b
Most(S) == CHOOSE m \in S : \A n \in S : n <= m

(* The ages stop where no comparison tells them apart any more.             *)
WindowCap == Most(Windows \cup {InitialWindow})
AnnounceCap == IF AnnounceTimeout > StandardTimeout THEN AnnounceTimeout
               ELSE StandardTimeout + 1
SyncCap == StandardTimeout + 1
TwostepCap == FollowUpLimit + 1
Older(age, cap) == Least(age + 1, cap)

-----------------------------------------------------------------------------
(* Comparisons of Announce bodies.                                          *)

(* The 14 bytes from btc_priority1 through btc_identity.                    *)
SystemBefore(a, b) ==
  \/ a.quality < b.quality
  \/ a.quality = b.quality /\ a.root < b.root

SameSystem(a, b) == a.quality = b.quality /\ a.root = b.root

(* The best-clock comparison: system identity, then stepsRemoved, then the  *)
(* identity of the announcing port.                                         *)
is_better_clock(a, b) ==
  \/ SystemBefore(a, b)
  \/ SameSystem(a, b) /\ a.steps < b.steps
  \/ SameSystem(a, b) /\ a.steps = b.steps /\ a.port < b.port

IsPassive(a) == a.quality \in Passive

SamePort(m) == selected # NoSource /\ m.port = selected.port

SameRoot(m) == selected # NoSource /\ m.root = selected.root

VectorChanged(m) ==
  selected = NoSource \/ ~SameSystem(m, selected) \/ m.steps # selected.steps

-----------------------------------------------------------------------------
(* The Sync receipt timer.                                                  *)

ptp_sync_receipt_start(window) == [armed |-> window > 0, window |-> window, age |-> 0]

ptp_sync_receipt_current == receipt.armed /\ receipt.age < receipt.window

(* An observation made now always falls inside its own window.              *)
ptp_sync_receipt_observe(window) ==
  IF window > 0 THEN ptp_sync_receipt_start(window) ELSE receipt

(* Mutant: only the announce receipt timer is looked at.                    *)
is_selected_source_valid_NoSyncTimer ==
  /\ gptp => capable
  /\ selected # NoSource
  /\ IF gptp THEN announce_age < AnnounceTimeout
     ELSE Least(announce_age, sync_age) <= StandardTimeout

(* The verdict that ends a pass.                                            *)
is_selected_source_valid ==
  /\ gptp => capable
  /\ selected # NoSource
  /\ IF gptp
     THEN /\ announce_age < AnnounceTimeout
          /\ ~IsPassive(selected) => ptp_sync_receipt_current
     ELSE Least(announce_age, sync_age) <= StandardTimeout

-----------------------------------------------------------------------------
(* The snapshots, under s_timing_lock.                                      *)

ptp_invalidate_timing ==
  /\ timing' = [timing EXCEPT !.generation = @ + 1, !.valid = FALSE]
  /\ local' = [local EXCEPT !.valid = FALSE]

NoInvalidation == UNCHANGED <<timing, local>>

(* The local clock may originate only while it is the selected clock.       *)
LocalEligible == gptp /\ ~selected_valid /\ ~IsPassive(Own)

(* No Sync is waiting; what twostep_packet still holds is not looked at.     *)
NoSync ==
  [pending |-> FALSE, port |-> 0, root |-> NoRoot, sequence |-> 0, window |-> 0,
   age |-> 0]

(* The daemon at a place in its pass where it holds no local values.         *)
At(pc) ==
  [pc |-> pc, generation |-> 0, root |-> NoRoot, base |-> 0, announce |-> NoSource,
   was |-> FALSE, verdict |-> FALSE, window |-> 0]

-----------------------------------------------------------------------------
Init ==
  /\ gptp = TRUE
  /\ capable = FALSE
  /\ selected = NoSource
  /\ selected_valid = FALSE
  /\ announce_age = AnnounceCap
  /\ sync_age = SyncCap
  /\ receipt = [armed |-> FALSE, window |-> 0, age |-> 0]
  /\ twostep = NoSync
  /\ timing = [generation |-> 0, root |-> NoRoot, base |-> 0,
               published |-> FALSE, valid |-> FALSE]
  /\ local = [generation |-> 0, valid |-> FALSE]
  /\ daemon = At("start")
  /\ reset = "idle"
  /\ owners = {}

(* Inputs arrive while the generation is below its bound.                   *)
Open == timing.generation < MaxGeneration

-----------------------------------------------------------------------------
(* The daemon's pass.                                                       *)

(* A port that is not capable has no source and no pending Sync.            *)
PassStart ==
  /\ daemon.pc = "start"
  /\ daemon' = At("rx")
  /\ IF gptp /\ ~capable
     THEN /\ IF selected_valid \/ twostep.pending
             THEN ptp_invalidate_timing
             ELSE NoInvalidation
          /\ selected_valid' = FALSE
          /\ twostep' = NoSync
     ELSE NoInvalidation /\ UNCHANGED <<selected_valid, twostep>>
  /\ UNCHANGED <<gptp, capable, selected, announce_age, sync_age, receipt,
                 reset, owners>>

(* poll() timed out, or the frame was dropped before any handler.           *)
RxNothing ==
  /\ daemon.pc = "rx"
  /\ daemon' = At("judge")
  /\ UNCHANGED <<gptp, capable, source, receipt, twostep, timing, local, reset,
                 owners>>

(* A timing frame on a port that is not capable only drops a pending Sync.  *)
RxNotCapable ==
  /\ daemon.pc = "rx" /\ Open
  /\ gptp /\ ~capable
  /\ twostep' = NoSync
  /\ daemon' = At("judge")
  /\ UNCHANGED <<gptp, capable, source, receipt, timing, local, reset, owners>>

Receives == daemon.pc = "rx" /\ Open /\ (gptp => capable)

(* The selected port now announces a clock that is not better than ours:    *)
(* it is no longer a source.                                                *)
RxDemote(m) ==
  /\ Receives
  /\ ~is_better_clock(m, Own)
  /\ SamePort(m)
  /\ ptp_invalidate_timing
  /\ selected_valid' = FALSE
  /\ selected' = NoSource
  /\ daemon' = At("judge")
  /\ UNCHANGED <<gptp, capable, announce_age, sync_age, receipt, twostep, reset,
                 owners>>

(* Mutant: the Sync of the old source is left pending.                      *)
RxAnnounce_KeepsSync(m) ==
  LET changed == ~selected_valid \/ ~SamePort(m) \/ ~SameRoot(m)
  IN
  /\ Receives
  /\ is_better_clock(m, Own)
  /\ \/ SamePort(m)
     \/ ~selected_valid
     \/ selected # NoSource /\ is_better_clock(m, selected)
  /\ receipt' = IF changed \/ VectorChanged(m)
                THEN ptp_sync_receipt_start(InitialWindow) ELSE receipt
  /\ IF changed THEN ptp_invalidate_timing /\ sync_age' = 0
     ELSE NoInvalidation /\ UNCHANGED sync_age
  /\ daemon' = [daemon EXCEPT !.pc = "select", !.announce = m]
  /\ UNCHANGED <<gptp, capable, selected, selected_valid, announce_age, twostep,
                 reset, owners>>

(* An Announce that wins: the receipt timer restarts when the vector is     *)
(* new, and everything tied to the old source goes when the source is.      *)
RxAnnounce(m) ==
  LET changed == ~selected_valid \/ ~SamePort(m) \/ ~SameRoot(m)
  IN
  /\ Receives
  /\ is_better_clock(m, Own)
  /\ \/ SamePort(m)
     \/ ~selected_valid
     \/ selected # NoSource /\ is_better_clock(m, selected)
  /\ receipt' = IF changed \/ VectorChanged(m)
                THEN ptp_sync_receipt_start(InitialWindow) ELSE receipt
  /\ IF changed
     THEN /\ ptp_invalidate_timing
          /\ twostep' = NoSync
          /\ sync_age' = 0
     ELSE NoInvalidation /\ UNCHANGED <<twostep, sync_age>>
  /\ daemon' = [daemon EXCEPT !.pc = "select", !.announce = m]
  /\ UNCHANGED <<gptp, capable, selected, selected_valid, announce_age, reset,
                 owners>>

(* The winner is stored after the timing was invalidated; a reset may have  *)
(* cleared the source in between.                                           *)
StoreAnnounce ==
  /\ daemon.pc = "select"
  /\ selected' = daemon.announce
  /\ announce_age' = 0
  /\ daemon' = At("judge")
  /\ UNCHANGED <<gptp, capable, selected_valid, sync_age, receipt, twostep,
                 timing, local, reset, owners>>

(* Sync and Follow_Up are looked at only while a source is selected, and    *)
(* in gPTP only when that source can be a grandmaster.                      *)
Follows ==
  /\ selected_valid
  /\ gptp /\ selected # NoSource => ~IsPassive(selected)

FromSelected(port) == selected # NoSource /\ port = selected.port

(* A two-step Sync from the selected port is kept for its Follow_Up.        *)
RxSync(port, sequence, window) ==
  /\ Receives /\ Follows /\ FromSelected(port)
  /\ sync_age' = 0
  /\ twostep' = [pending |-> TRUE, port |-> port, root |-> selected.root,
                 sequence |-> sequence, window |-> window, age |-> 0]
  /\ daemon' = At("judge")
  /\ UNCHANGED <<gptp, capable, selected, selected_valid, announce_age, receipt,
                 timing, local, reset, owners>>

(* A one-step Sync moves the clock at once; a jump invalidates the timing.  *)
RxSyncOneStep(port) ==
  /\ Receives /\ Follows /\ FromSelected(port)
  /\ sync_age' = 0
  /\ twostep' = NoSync
  /\ ptp_invalidate_timing \/ NoInvalidation
  /\ daemon' = At("judge")
  /\ UNCHANGED <<gptp, capable, selected, selected_valid, announce_age, receipt,
                 reset, owners>>

(* The Follow_Up of the pending Sync: same port, same sequence, in time,    *)
(* and in gPTP a usable interval.  The generation is read before the clock  *)
(* is moved.                                                                *)
RxFollowUp(port, sequence, base) ==
  /\ Receives /\ Follows
  /\ twostep.pending /\ twostep.age <= FollowUpLimit
  /\ port = twostep.port /\ sequence = twostep.sequence
  /\ gptp => twostep.window > 0
  /\ twostep' = NoSync
  /\ daemon' = [daemon EXCEPT !.pc = "adjust", !.generation = timing.generation,
                              !.base = base, !.window = twostep.window]
  /\ UNCHANGED <<gptp, capable, source, receipt, timing, local, reset, owners>>

(* ptp_update_local_clock: a jump (which invalidates) or a trim.            *)
AdjustClock ==
  /\ daemon.pc = "adjust"
  /\ ptp_invalidate_timing \/ NoInvalidation
  /\ daemon' = [daemon EXCEPT !.pc = "observe"]
  /\ UNCHANGED <<gptp, capable, source, receipt, twostep, reset, owners>>

(* The clock could not be set: nothing is observed or published.            *)
AdjustFails ==
  /\ daemon.pc = "adjust"
  /\ ptp_invalidate_timing
  /\ daemon' = At("judge")
  /\ UNCHANGED <<gptp, capable, source, receipt, twostep, reset, owners>>

(* The observation counts for the receipt timer even if it is not           *)
(* published; it is published only if the generation did not move.          *)
Observe ==
  /\ daemon.pc = "observe"
  /\ receipt' = IF gptp THEN ptp_sync_receipt_observe(daemon.window) ELSE receipt
  /\ daemon' = IF timing.generation = daemon.generation /\ gptp /\ selected_valid
               THEN [daemon EXCEPT !.pc = "compose"] ELSE At("judge")
  /\ UNCHANGED <<gptp, capable, source, twostep, timing, local, reset, owners>>

(* The next snapshot takes the root of the selected source as it is now.    *)
Compose ==
  /\ daemon.pc = "compose"
  /\ daemon' = [daemon EXCEPT !.pc = "publish",
                  !.root = IF selected = NoSource THEN NoRoot ELSE selected.root]
  /\ UNCHANGED <<gptp, capable, source, receipt, twostep, timing, local, reset,
                 owners>>

(* Mutant: a new time base of the same root keeps the generation.           *)
NextGeneration_SameBase ==
  LET first == IF daemon.generation = 0 THEN 1 ELSE daemon.generation
      moved == timing.published /\ timing.root # daemon.root
  IN IF moved THEN first + 1 ELSE first

(* The generation a snapshot is published under: 1 the first time, the next *)
(* one when the root or its time base changed since the last publication.   *)
NextGeneration ==
  LET first == IF daemon.generation = 0 THEN 1 ELSE daemon.generation
      moved == timing.published /\ (timing.root # daemon.root \/ timing.base # daemon.base)
  IN IF moved THEN first + 1 ELSE first

Owner(generation, root, base) ==
  [generation |-> generation, root |-> root, base |-> base]

(* Mutant: the snapshot is stored without the comparison under the lock.    *)
Publish_Unchecked ==
  /\ daemon.pc = "publish"
  /\ timing' = [generation |-> NextGeneration, root |-> daemon.root,
                base |-> daemon.base, published |-> TRUE, valid |-> TRUE]
  /\ owners' = owners \cup {Owner(NextGeneration, daemon.root, daemon.base)}
  /\ daemon' = At("judge")
  /\ UNCHANGED <<gptp, capable, source, receipt, twostep, local, reset>>

(* The locked compare-and-store that ends ptp_process_followup.             *)
Publish ==
  /\ daemon.pc = "publish"
  /\ IF timing.generation = daemon.generation
     THEN /\ timing' = [generation |-> NextGeneration, root |-> daemon.root,
                        base |-> daemon.base, published |-> TRUE, valid |-> TRUE]
          /\ owners' = owners \cup {Owner(NextGeneration, daemon.root, daemon.base)}
     ELSE UNCHANGED <<timing, owners>>
  /\ daemon' = At("judge")
  /\ UNCHANGED <<gptp, capable, source, receipt, twostep, local, reset>>

(* The end of the pass: the verdict is computed...                          *)
Judge ==
  /\ daemon.pc = "judge"
  /\ daemon' = [daemon EXCEPT !.pc = "settle", !.was = selected_valid,
                              !.verdict = is_selected_source_valid]
  /\ UNCHANGED <<gptp, capable, source, receipt, twostep, timing, local, reset,
                 owners>>

(* ... and stored; a source that stops being valid takes its timing along.  *)
Settle ==
  /\ daemon.pc = "settle"
  /\ selected_valid' = daemon.verdict
  /\ IF daemon.was /\ ~daemon.verdict THEN ptp_invalidate_timing ELSE NoInvalidation
  /\ daemon' = At("local")
  /\ UNCHANGED <<gptp, capable, selected, announce_age, sync_age, receipt, twostep,
                 reset, owners>>

(* Mutant: a local clock that may not originate keeps its snapshot.         *)
QualifyLocal_KeepsLocal ==
  /\ daemon.pc = "local"
  /\ daemon' = At(IF LocalEligible THEN "originate" ELSE "start")
  /\ UNCHANGED <<gptp, capable, source, receipt, twostep, timing, local, reset,
                 owners>>

(* ptp_publish_local_source: whether the local clock may originate...       *)
QualifyLocal ==
  /\ daemon.pc = "local"
  /\ daemon' = At(IF LocalEligible THEN "originate" ELSE "start")
  /\ local' = IF LocalEligible THEN local ELSE [local EXCEPT !.valid = FALSE]
  /\ UNCHANGED <<gptp, capable, source, receipt, twostep, timing, reset, owners>>

(* ... and its snapshot, under the generation that is current by then.      *)
PublishLocal ==
  LET generation == IF timing.generation = 0 THEN 1 ELSE timing.generation
  IN
  /\ daemon.pc = "originate"
  /\ timing' = [timing EXCEPT !.generation = generation]
  /\ local' = [generation |-> generation, valid |-> TRUE]
  /\ owners' = owners \cup {Owner(generation, Own.root, 0)}
  /\ daemon' = At("start")
  /\ UNCHANGED <<gptp, capable, source, receipt, twostep, reset>>

(* The hardware clock could not be read: the last local snapshot stays.     *)
LocalNoTime ==
  /\ daemon.pc = "originate"
  /\ daemon' = At("start")
  /\ UNCHANGED <<gptp, capable, source, receipt, twostep, timing, local, reset,
                 owners>>

-----------------------------------------------------------------------------
(* ptp_reset_for_profile in another thread.                                 *)

(* The caller changes the active profile before it resets.                  *)
ResetProfile ==
  /\ reset = "idle" /\ Open
  /\ gptp' = ~gptp
  /\ reset' = "invalidate"
  /\ UNCHANGED <<capable, source, receipt, twostep, timing, local, daemon, owners>>

ResetInvalidate ==
  /\ reset = "invalidate"
  /\ ptp_invalidate_timing
  /\ reset' = "source"
  /\ UNCHANGED <<gptp, capable, source, receipt, twostep, daemon, owners>>

ResetSource ==
  /\ reset = "source"
  /\ selected' = NoSource
  /\ selected_valid' = FALSE
  /\ announce_age' = AnnounceCap
  /\ twostep' = NoSync
  /\ reset' = "clean"
  /\ UNCHANGED <<gptp, capable, sync_age, receipt, timing, local, daemon, owners>>

(* ptp_clean_after_step invalidates once more, after the source is gone.    *)
ResetClean ==
  /\ reset = "clean"
  /\ ptp_invalidate_timing
  /\ reset' = "idle"
  /\ UNCHANGED <<gptp, capable, source, receipt, twostep, daemon, owners>>

-----------------------------------------------------------------------------
(* Environment.                                                             *)

CapabilityChanges ==
  /\ Open
  /\ capable' = ~capable
  /\ UNCHANGED <<gptp, source, receipt, twostep, timing, local, daemon, reset,
                 owners>>

Tick ==
  /\ announce_age' = Older(announce_age, AnnounceCap)
  /\ sync_age' = Older(sync_age, SyncCap)
  /\ receipt' = [receipt EXCEPT !.age = Older(@, WindowCap)]
  /\ twostep' = IF twostep.pending THEN [twostep EXCEPT !.age = Older(@, TwostepCap)]
                ELSE twostep
  /\ UNCHANGED <<gptp, capable, selected, selected_valid, timing, local, daemon,
                 reset, owners>>

-----------------------------------------------------------------------------
Pass ==
  \/ PassStart
  \/ RxNothing
  \/ RxNotCapable
  \/ \E m \in Announcements : RxDemote(m) \/ RxAnnounce(m)
  \/ StoreAnnounce
  \/ \E p \in Ports, s \in Sequences, w \in Windows : RxSync(p, s, w)
  \/ \E p \in Ports : RxSyncOneStep(p)
  \/ \E p \in Ports, s \in Sequences, b \in {0, 1} : RxFollowUp(p, s, b)
  \/ AdjustClock \/ AdjustFails \/ Observe \/ Compose \/ Publish
  \/ Judge \/ Settle \/ QualifyLocal \/ PublishLocal \/ LocalNoTime

ResetSteps == ResetInvalidate \/ ResetSource \/ ResetClean

Next == Pass \/ ResetProfile \/ ResetSteps \/ CapabilityChanges \/ Tick

Spec == Init /\ [][Next]_vars

(* poll() always returns within its bound, so the daemon's pass goes on;    *)
(* time passes; a reset that was begun is finished by its thread.           *)
FairSpec == Spec /\ WF_vars(Pass) /\ WF_vars(ResetSteps) /\ WF_vars(Tick)

-----------------------------------------------------------------------------
Generations == Nat

PublishedRoots == Roots \cup {NoRoot}

(* Every variable keeps its shape; ages stay within their caps.             *)
TypeOK ==
  /\ gptp \in BOOLEAN
  /\ capable \in BOOLEAN
  /\ selected \in Announcements \cup {NoSource}
  /\ selected_valid \in BOOLEAN
  /\ announce_age \in 0..AnnounceCap
  /\ sync_age \in 0..SyncCap
  /\ receipt \in [armed : BOOLEAN, window : Windows \cup {0, InitialWindow},
                  age : 0..WindowCap]
  /\ twostep \in [pending : BOOLEAN, port : Nat, root : PublishedRoots,
                  sequence : Sequences \cup {0}, window : Windows \cup {0},
                  age : 0..TwostepCap]
  /\ timing \in [generation : Generations, root : PublishedRoots, base : {0, 1},
                 published : BOOLEAN, valid : BOOLEAN]
  /\ local \in [generation : Generations, valid : BOOLEAN]
  /\ daemon \in [pc : {"start", "rx", "select", "adjust", "observe", "compose",
                       "publish", "judge", "settle", "local", "originate"},
                 generation : Generations, root : PublishedRoots, base : {0, 1},
                 announce : Announcements \cup {NoSource}, was : BOOLEAN,
                 verdict : BOOLEAN, window : Windows \cup {0}]
  /\ reset \in {"idle", "invalidate", "source", "clean"}
  /\ \A o \in owners : /\ o.generation \in 1..timing.generation
                       /\ o.root \in PublishedRoots \cup {Own.root}

(* The daemon stands between two passes and no reset is under way.          *)
AtRest == daemon.pc = "start" /\ reset = "idle"

(* A Sync that waits for its Follow_Up came from the port and the root that *)
(* are selected now: a Follow_Up never completes the Sync of a source that  *)
(* has been replaced since (ptp_process_announce, ptp_process_followup).    *)
FollowUpPairsOneSource ==
  twostep.pending /\ selected_valid =>
    /\ selected # NoSource
    /\ twostep.port = selected.port
    /\ twostep.root = selected.root

(* Between passes a valid timing snapshot belongs to the source that is     *)
(* selected and valid, whatever reset ran during the Follow_Up that         *)
(* published it (ptp_process_followup against ptp_reset_for_profile).       *)
SnapshotOfSelected ==
  AtRest /\ timing.valid =>
    /\ gptp
    /\ selected_valid
    /\ selected # NoSource
    /\ timing.root = selected.root

(* A generation of the received snapshot never covers two root clocks or    *)
(* two time bases, so a consumer may compare generations instead of         *)
(* identities (the generation test and increment of ptp_process_followup).  *)
GenerationNamesRoot ==
  \A a, b \in owners :
    /\ a.generation = b.generation
    /\ a.root # Own.root /\ b.root # Own.root
    => a = b

(* Between passes the local clock does not originate timing beside a valid  *)
(* received snapshot (ptp_publish_local_source).                            *)
OneTimeSource == AtRest => ~(local.valid /\ timing.valid)

(* The pass, both snapshots and the selection keep their shapes, and time   *)
(* is originated from one source (ptp_publish_local_source).                *)
SourceInv == TypeOK /\ OneTimeSource

(* A source that stays selected for ever in gPTP keeps announcing and, if   *)
(* it can be a grandmaster, keeps sending Sync: both receipt timers of      *)
(* is_selected_source_valid end a source that falls silent.                 *)
SilentSourceDropped ==
  <>[](gptp /\ selected_valid) =>
    /\ []<>(announce_age = 0)
    /\ []<>(receipt.age = 0 \/ selected = NoSource \/ IsPassive(selected))
=============================================================================
