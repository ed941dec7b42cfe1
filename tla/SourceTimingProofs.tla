------------------------- MODULE SourceTimingProofs --------------------------
(* Proofs about SourceTiming, for every value of its constants.            *)
EXTENDS SourceTiming, TLAPS

Receipts == [armed : BOOLEAN, window : Windows \cup {0, InitialWindow}, age : 0..WindowCap]
Syncs ==
  [pending : BOOLEAN, port : Nat, root : PublishedRoots, sequence : Sequences \cup {0},
   window : Windows \cup {0}, age : 0..TwostepCap]
Timings ==
  [generation : Nat, root : PublishedRoots, base : {0, 1}, published : BOOLEAN, valid : BOOLEAN]
Locals == [generation : Nat, valid : BOOLEAN]
Places ==
  {"start", "rx", "select", "adjust", "observe", "compose", "publish", "judge", "settle", "local",
   "originate"}
Daemons ==
  [pc : Places, generation : Nat, root : PublishedRoots, base : {0, 1},
   announce : Announcements \cup {NoSource}, was : BOOLEAN, verdict : BOOLEAN,
   window : Windows \cup {0}]
Owners == [generation : Nat \ {0}, root : PublishedRoots \cup {Own.root}, base : {0, 1}]

(* TypeOK, by the names of its sets.                                       *)
Shapes ==
  /\ gptp \in BOOLEAN /\ capable \in BOOLEAN /\ selected_valid \in BOOLEAN
  /\ selected \in Announcements \cup {NoSource}
  /\ announce_age \in 0..AnnounceCap /\ sync_age \in 0..SyncCap
  /\ receipt \in Receipts /\ twostep \in Syncs /\ timing \in Timings /\ local \in Locals
  /\ daemon \in Daemons /\ reset \in {"idle", "invalidate", "source", "clean"}
  /\ owners \subseteq Owners

(* A Sync that waits came from the port and the root that are selected or  *)
(* about to be, unless there is no source; then none is valid, nor judged  *)
(* to be.                                                                  *)
PairInv ==
  /\ daemon.pc = "select" => daemon.announce \in Announcements
  /\ twostep.pending =>
       /\ selected_valid => selected # NoSource
       /\ daemon.pc = "settle" /\ daemon.verdict => selected # NoSource
       /\ selected # NoSource => twostep.port = selected.port /\ twostep.root = selected.root
       /\ daemon.pc = "select" =>
            twostep.port = daemon.announce.port /\ twostep.root = daemon.announce.root

(* From the reading of the generation to the publication, and no reset     *)
(* begun.                                                                  *)
Publishing ==
  /\ daemon.pc \in {"adjust", "observe", "compose", "publish"}
  /\ reset = "idle" /\ timing.generation = daemon.generation

(* As long as the generation stands, so does what the Follow_Up was found  *)
(* to belong to.                                                           *)
PublishInv ==
  /\ daemon.pc \in {"adjust", "observe", "compose", "publish"} =>
       daemon.generation <= timing.generation
  /\ Publishing =>
       /\ selected_valid /\ selected # NoSource
       /\ daemon.pc \in {"compose", "publish"} => gptp
       /\ daemon.pc = "publish" => daemon.root = selected.root

(* Outside a reset, a valid snapshot is that of the selected source at     *)
(* every place of the pass, and the local clock stands back by its end.    *)
SnapshotInv ==
  reset = "idle" /\ timing.valid =>
    /\ gptp /\ selected_valid /\ selected # NoSource /\ timing.root = selected.root
    /\ daemon.pc = "select" => daemon.announce.root = selected.root
    /\ daemon.pc = "settle" => daemon.was
    /\ daemon.pc # "originate"
    /\ local.valid => daemon.pc \in {"judge", "settle", "local"}

(* What was published under the current generation is what the timing      *)
(* holds.                                                                  *)
OwnerInv ==
  /\ \A o \in owners :
       /\ o.generation <= timing.generation
       /\ o.root # Own.root /\ o.generation = timing.generation =>
            timing.published /\ o.root = timing.root /\ o.base = timing.base
  /\ GenerationNamesRoot

SelectionInv == Shapes /\ PairInv /\ PublishInv /\ SnapshotInv /\ OwnerInv

(* The caps of the ages are numbers.                                       *)
LEMMA Caps ==
  /\ WindowCap \in Nat /\ AnnounceCap \in Nat /\ SyncCap \in Nat /\ TwostepCap \in Nat
  /\ 0 \in 0..WindowCap /\ 0 \in 0..AnnounceCap /\ 0 \in 0..SyncCap /\ 0 \in 0..TwostepCap
  /\ AnnounceCap \in 0..AnnounceCap /\ SyncCap \in 0..SyncCap
<1>1. WindowCap \in Nat
  <2> DEFINE W == Windows \cup {InitialWindow}
  <2>1. W \subseteq Nat /\ \E w \in W : \A v \in W : v <= w
    BY WindowAssumption
  <2>2. WindowCap \in W
    BY <2>1 DEF WindowCap, Most
  <2> QED BY <2>1, <2>2
<1>2. AnnounceCap \in Nat /\ SyncCap \in Nat /\ TwostepCap \in Nat
  BY WindowAssumption DEF AnnounceCap, SyncCap, TwostepCap
<1> QED BY <1>1, <1>2

(* An age stops at its cap.                                                *)
LEMMA OlderRange == \A cap \in Nat : \A age \in 0..cap : Older(age, cap) \in 0..cap
BY DEF Older, Least

(* What Announce bodies are made of.                                       *)
LEMMA Bodies ==
  /\ \A m \in Announcements : m.port \in Nat /\ m.root \in PublishedRoots /\ m # NoSource
  /\ Own.root \in Nat /\ NoRoot \in PublishedRoots /\ Ports \subseteq Nat
BY VectorAssumption DEF Vector, PublishedRoots, Roots, NoRoot, Ports

(* A daemon at a place is a daemon, and is there.                          *)
LEMMA AtPlace ==
  \A pc \in Places :
    /\ At(pc) \in Daemons /\ At(pc).pc = pc
BY Bodies DEF At, Daemons

(* No Sync is no pending one.                                              *)
LEMMA NoSyncPending == NoSync \in Syncs /\ ~NoSync.pending
BY Bodies, Caps DEF NoSync, Syncs

(* An invalidation moves the generation and leaves no snapshot valid.      *)
LEMMA Invalidated ==
  ASSUME Shapes, ptp_invalidate_timing
  PROVE  /\ timing' \in Timings /\ local' \in Locals
         /\ timing'.generation = timing.generation + 1 /\ ~timing'.valid /\ ~local'.valid
         /\ timing'.root = timing.root /\ timing'.base = timing.base
         /\ timing'.published = timing.published
<1>1. timing \in Timings /\ local \in Locals
  BY DEF Shapes
<1>2. timing.generation + 1 \in Nat
  BY <1>1 DEF Timings
<1>3. timing' \in Timings
  BY <1>1, <1>2 DEF ptp_invalidate_timing, Timings
<1>4. timing'.generation = timing.generation + 1
  BY <1>1 DEF ptp_invalidate_timing, Timings
<1>5. /\ ~timing'.valid /\ timing'.root = timing.root /\ timing'.base = timing.base
      /\ timing'.published = timing.published
  BY <1>1 DEF ptp_invalidate_timing, Timings
<1>6. local' \in Locals /\ ~local'.valid
  BY <1>1 DEF ptp_invalidate_timing, Locals
<1> QED BY <1>3, <1>4, <1>5, <1>6

(* The daemon's locals, field by field.                                    *)
LEMMA DaemonFields ==
  ASSUME Shapes
  PROVE  /\ daemon.pc \in Places /\ daemon.generation \in Nat /\ daemon.root \in PublishedRoots
         /\ daemon.base \in {0, 1} /\ daemon.announce \in Announcements \cup {NoSource}
         /\ daemon.was \in BOOLEAN /\ daemon.verdict \in BOOLEAN /\ daemon.window \in Windows \cup {0}
BY DEF Shapes, Daemons

(* The types of the published timing.                                      *)
LEMMA TimingFields ==
  ASSUME Shapes
  PROVE  /\ timing.generation \in Nat /\ timing.root \in PublishedRoots /\ timing.base \in {0, 1}
         /\ timing.published \in BOOLEAN /\ timing.valid \in BOOLEAN
         /\ local.generation \in Nat /\ local.valid \in BOOLEAN
BY DEF Shapes, Timings, Locals

(* The types of the pending Sync.                                          *)
LEMMA SyncFields ==
  ASSUME Shapes
  PROVE  /\ twostep.pending \in BOOLEAN /\ twostep.port \in Nat /\ twostep.root \in PublishedRoots
         /\ twostep.sequence \in Sequences \cup {0} /\ twostep.window \in Windows \cup {0}
         /\ twostep.age \in 0..TwostepCap
BY DEF Shapes, Syncs

(* Shapes names the sets of TypeOK, and the owners' generations are in its *)
(* range.                                                                  *)
LEMMA ShapesIsTypeOK == Shapes /\ OwnerInv => TypeOK
<1> SUFFICES ASSUME Shapes, OwnerInv PROVE TypeOK
  OBVIOUS
<1>1. \A o \in owners : /\ o.generation \in 1..timing.generation
                        /\ o.root \in PublishedRoots \cup {Own.root}
  <2>1. \A o \in owners : o.generation \in Nat \ {0} /\ o.root \in PublishedRoots \cup {Own.root}
    BY DEF Shapes, Owners
  <2> QED BY <2>1, TimingFields DEF OwnerInv
<1> QED BY <1>1 DEF TypeOK, Shapes, Receipts, Syncs, Timings, Locals, Daemons, Places, Generations

(* Where the daemon goes with its locals.                                  *)
LEMMA Selects ==
  ASSUME Shapes, NEW m \in Announcements, RxAnnounce(m)
  PROVE  daemon' \in Daemons /\ daemon'.pc = "select" /\ daemon'.announce = m
<1>1. daemon \in Daemons /\ daemon' = [daemon EXCEPT !.pc = "select", !.announce = m]
  BY DEF Shapes, RxAnnounce
<1> QED BY <1>1 DEF Daemons, Places

(* A Follow_Up sends the daemon to the clock with the present generation.  *)
LEMMA FollowsUp ==
  ASSUME Shapes, NEW port \in Ports, NEW sequence \in Sequences, NEW base \in {0, 1},
         RxFollowUp(port, sequence, base)
  PROVE  daemon' \in Daemons /\ daemon'.pc = "adjust" /\ daemon'.generation = timing.generation
<1>1. /\ daemon \in Daemons
      /\ daemon' = [daemon EXCEPT !.pc = "adjust", !.generation = timing.generation,
                                  !.base = base, !.window = twostep.window]
  BY DEF Shapes, RxFollowUp
<1>2. timing.generation \in Nat /\ twostep.window \in Windows \cup {0}
  BY TimingFields, SyncFields
<1> QED BY <1>1, <1>2 DEF Daemons, Places

(* After the clock, the daemon observes, with the same generation.         *)
LEMMA Adjusts ==
  ASSUME Shapes, AdjustClock
  PROVE  daemon' \in Daemons /\ daemon'.pc = "observe" /\ daemon'.generation = daemon.generation
<1>1. daemon \in Daemons /\ daemon' = [daemon EXCEPT !.pc = "observe"]
  BY DEF Shapes, AdjustClock
<1> QED BY <1>1 DEF Daemons, Places

(* It composes a snapshot only of a valid selection in gPTP.               *)
LEMMA Observes ==
  ASSUME Shapes, Observe
  PROVE  /\ daemon' \in Daemons
         /\ \/ daemon'.pc = "judge"
            \/ /\ daemon'.pc = "compose" /\ daemon'.generation = daemon.generation
               /\ gptp /\ selected_valid
<1>1. daemon \in Daemons
  BY DEF Shapes
<1>2. CASE timing.generation = daemon.generation /\ gptp /\ selected_valid
  <2>1. daemon' = [daemon EXCEPT !.pc = "compose"]
    BY <1>2 DEF Observe
  <2> QED BY <1>1, <1>2, <2>1 DEF Daemons, Places
<1>3. CASE ~(timing.generation = daemon.generation /\ gptp /\ selected_valid)
  <2>1. daemon' = At("judge")
    BY <1>3 DEF Observe
  <2> QED BY <2>1, AtPlace DEF Places
<1> QED BY <1>2, <1>3

(* The snapshot composed names the root of the selected source.            *)
LEMMA Composes ==
  ASSUME Shapes, Compose
  PROVE  /\ daemon' \in Daemons /\ daemon'.pc = "publish" /\ daemon'.generation = daemon.generation
         /\ selected # NoSource => daemon'.root = selected.root
<1> DEFINE root == IF selected = NoSource THEN NoRoot ELSE selected.root
<1>1. daemon \in Daemons /\ daemon' = [daemon EXCEPT !.pc = "publish", !.root = root]
  BY DEF Shapes, Compose
<1>2. root \in PublishedRoots /\ (selected # NoSource => root = selected.root)
  BY Bodies DEF Shapes
<1> HIDE DEF root
<1>3. daemon' \in Daemons /\ daemon'.root = root /\ daemon'.pc = "publish"
  BY <1>1, <1>2 DEF Daemons, Places
<1>4. daemon'.generation = daemon.generation
  BY <1>1 DEF Daemons
<1> QED BY <1>2, <1>3, <1>4

(* A verdict is about a selected source.                                   *)
LEMMA Judges ==
  ASSUME Shapes, Judge
  PROVE  /\ daemon' \in Daemons /\ daemon'.pc = "settle" /\ daemon'.was = selected_valid
         /\ daemon'.verdict => selected # NoSource
<1> DEFINE verdict == is_selected_source_valid
<1>1. /\ daemon \in Daemons /\ selected_valid \in BOOLEAN
      /\ daemon' = [daemon EXCEPT !.pc = "settle", !.was = selected_valid, !.verdict = verdict]
  BY DEF Shapes, Judge
<1>2. verdict \in BOOLEAN /\ (verdict => selected # NoSource)
  BY DEF is_selected_source_valid
<1> HIDE DEF verdict
<1>3. daemon' \in Daemons /\ daemon'.pc = "settle"
  BY <1>1, <1>2 DEF Daemons, Places
<1>4. daemon'.was = selected_valid /\ daemon'.verdict = verdict
  BY <1>1 DEF Daemons
<1> QED BY <1>2, <1>3, <1>4

(* The publication takes the generation it read, or the next one if the    *)
(* root or its time base moved.                                            *)
LEMMA Publishes ==
  ASSUME Shapes, Publish
  PROVE  /\ daemon' = At("judge") /\ daemon'.pc = "judge" /\ daemon' \in Daemons
         /\ UNCHANGED <<gptp, capable, source, receipt, twostep, local, reset>>
         /\ \/ UNCHANGED <<timing, owners>>
            \/ /\ timing.generation = daemon.generation
               /\ timing' \in Timings /\ timing'.generation \in Nat \ {0}
               /\ timing'.root = daemon.root /\ timing'.base = daemon.base
               /\ timing'.published /\ timing'.valid
               /\ owners' = owners \cup {Owner(timing'.generation, daemon.root, daemon.base)}
               /\ timing'.generation >= timing.generation
               /\ timing.generation # 0 /\ timing'.generation = timing.generation
                    /\ timing.published =>
                    timing.root = daemon.root /\ timing.base = daemon.base
<1> DEFINE g == NextGeneration
<1>1. /\ daemon' = At("judge") /\ UNCHANGED <<gptp, capable, source, receipt, twostep, local, reset>>
  BY DEF Publish
<1>2. daemon'.pc = "judge" /\ daemon' \in Daemons
  BY <1>1, AtPlace DEF Places
<1>3. CASE timing.generation = daemon.generation
  <2>1. /\ timing' = [generation |-> g, root |-> daemon.root, base |-> daemon.base,
                      published |-> TRUE, valid |-> TRUE]
        /\ owners' = owners \cup {Owner(g, daemon.root, daemon.base)}
    BY <1>3 DEF Publish
  <2>2. /\ g \in Nat \ {0} /\ g >= timing.generation
        /\ timing.generation # 0 /\ g = timing.generation /\ timing.published =>
             timing.root = daemon.root /\ timing.base = daemon.base
    BY <1>3, TimingFields DEF NextGeneration
  <2> HIDE DEF g
  <2>3. timing' \in Timings
    BY <2>1, <2>2, DaemonFields DEF Timings
  <2>4. timing'.generation = g /\ timing'.root = daemon.root /\ timing'.base = daemon.base
    BY <2>1
  <2>5. timing'.published /\ timing'.valid
    BY <2>1
  <2> QED BY <1>1, <1>2, <1>3, <2>1, <2>2, <2>3, <2>4, <2>5
<1>4. CASE timing.generation # daemon.generation
  BY <1>1, <1>2, <1>4 DEF Publish
<1> QED BY <1>3, <1>4

(* The local snapshot has a generation and an owner, and leaves the        *)
(* source's timing alone.                                                  *)
LEMMA PublishesLocal ==
  ASSUME Shapes, PublishLocal
  PROVE  /\ timing' \in Timings /\ timing'.generation \in Nat \ {0}
         /\ timing'.generation = IF timing.generation = 0 THEN 1 ELSE timing.generation
         /\ timing'.root = timing.root /\ timing'.base = timing.base
         /\ timing'.published = timing.published /\ timing'.valid = timing.valid
         /\ local' \in Locals
         /\ owners' = owners \cup {Owner(timing'.generation, Own.root, 0)}
<1> DEFINE g == IF timing.generation = 0 THEN 1 ELSE timing.generation
<1>1. /\ timing \in Timings /\ timing' = [timing EXCEPT !.generation = g]
      /\ local' = [generation |-> g, valid |-> TRUE]
      /\ owners' = owners \cup {Owner(g, Own.root, 0)}
  BY DEF Shapes, PublishLocal
<1>2. g \in Nat \ {0} /\ g \in Nat
  BY TimingFields
<1> HIDE DEF g
<1>3. timing' \in Timings /\ timing'.generation = g /\ local' \in Locals
  BY <1>1, <1>2 DEF Timings, Locals
<1>4. /\ timing'.root = timing.root /\ timing'.base = timing.base
      /\ timing'.published = timing.published /\ timing'.valid = timing.valid
  BY <1>1 DEF Timings
<1> QED BY <1>1, <1>2, <1>3, <1>4 DEF g

(* Every step keeps the shapes.                                            *)
LEMMA ShapesStep == Shapes /\ [Next]_vars => Shapes'
<1> SUFFICES ASSUME Shapes, [Next]_vars PROVE Shapes'
  OBVIOUS
<1> USE DEF source
<1>0. ptp_invalidate_timing \/ NoInvalidation => timing' \in Timings /\ local' \in Locals
  BY Invalidated DEF NoInvalidation, Shapes
<1>1. CASE PassStart
  <2>1. daemon' \in Daemons
    BY <1>1, AtPlace DEF PassStart, Places
  <2>2. /\ selected_valid' \in BOOLEAN /\ twostep' \in Syncs
        /\ ptp_invalidate_timing \/ NoInvalidation
    BY <1>1, NoSyncPending DEF PassStart, Shapes
  <2> QED BY <1>0, <1>1, <2>1, <2>2 DEF PassStart, Shapes
<1>2. CASE RxNothing \/ RxNotCapable
  <2>1. daemon' \in Daemons /\ twostep' \in Syncs
    BY <1>2, AtPlace, NoSyncPending DEF RxNothing, RxNotCapable, Places, Shapes
  <2> QED BY <1>2, <2>1 DEF RxNothing, RxNotCapable, Shapes
<1>3. ASSUME NEW m \in Announcements, RxDemote(m) PROVE Shapes'
  <2>1. daemon' \in Daemons /\ ptp_invalidate_timing
    BY <1>3, AtPlace DEF RxDemote, Places
  <2> QED BY <1>0, <1>3, <2>1 DEF RxDemote, Shapes
<1>4. ASSUME NEW m \in Announcements, RxAnnounce(m) PROVE Shapes'
  <2>1. daemon' \in Daemons
    BY <1>4, Selects
  <2>2. receipt' \in Receipts
    <3>1. ptp_sync_receipt_start(InitialWindow) \in Receipts
      BY Caps, WindowAssumption DEF ptp_sync_receipt_start, Receipts
    <3> QED BY <1>4, <3>1 DEF RxAnnounce, Shapes
  <2>3. /\ twostep' \in Syncs /\ sync_age' \in 0..SyncCap
        /\ ptp_invalidate_timing \/ NoInvalidation
    BY <1>4, Caps, NoSyncPending DEF RxAnnounce, Shapes
  <2> QED BY <1>0, <1>4, <2>1, <2>2, <2>3 DEF RxAnnounce, Shapes
<1>5. CASE StoreAnnounce
  <2>1. daemon' \in Daemons /\ selected' \in Announcements \cup {NoSource}
    BY <1>5, AtPlace, DaemonFields DEF StoreAnnounce, Places
  <2> QED BY <1>5, <2>1, Caps DEF StoreAnnounce, Shapes
<1>6. ASSUME NEW p \in Ports, NEW s \in Sequences, NEW w \in Windows, RxSync(p, s, w) PROVE Shapes'
  <2>1. daemon' \in Daemons
    BY <1>6, AtPlace DEF RxSync, Places
  <2>2. p \in Nat /\ selected.root \in PublishedRoots
    BY <1>6, Bodies DEF RxSync, FromSelected, Shapes
  <2>3. twostep' \in Syncs
    BY <1>6, <2>2, Caps DEF RxSync, Syncs
  <2> QED BY <1>6, <2>1, <2>3, Caps DEF RxSync, Shapes
<1>7. ASSUME NEW p \in Ports, RxSyncOneStep(p) PROVE Shapes'
  <2>1. /\ daemon' \in Daemons /\ twostep' \in Syncs
        /\ ptp_invalidate_timing \/ NoInvalidation
    BY <1>7, AtPlace, NoSyncPending DEF RxSyncOneStep, Places
  <2> QED BY <1>0, <1>7, <2>1, Caps DEF RxSyncOneStep, Shapes
<1>8. ASSUME NEW p \in Ports, NEW s \in Sequences, NEW b \in {0, 1}, RxFollowUp(p, s, b) PROVE Shapes'
  <2>1. daemon' \in Daemons /\ twostep' \in Syncs
    BY <1>8, FollowsUp, NoSyncPending DEF RxFollowUp
  <2> QED BY <1>8, <2>1 DEF RxFollowUp, Shapes
<1>9. CASE AdjustClock
  <2>1. daemon' \in Daemons /\ (ptp_invalidate_timing \/ NoInvalidation)
    BY <1>9, Adjusts DEF AdjustClock
  <2> QED BY <1>0, <1>9, <2>1 DEF AdjustClock, Shapes
<1>10. CASE AdjustFails
  <2>1. daemon' \in Daemons /\ ptp_invalidate_timing
    BY <1>10, AtPlace DEF AdjustFails, Places
  <2> QED BY <1>0, <1>10, <2>1 DEF AdjustFails, Shapes
<1>11. CASE Observe
  <2>1. daemon' \in Daemons
    BY <1>11, Observes
  <2>2. receipt' \in Receipts
    <3>1. ptp_sync_receipt_start(daemon.window) \in Receipts
      BY DaemonFields, Caps, WindowAssumption DEF ptp_sync_receipt_start, Receipts
    <3> QED BY <1>11, <3>1 DEF Observe, ptp_sync_receipt_observe, Shapes
  <2> QED BY <1>11, <2>1, <2>2 DEF Observe, Shapes
<1>12. CASE Compose
  BY <1>12, Composes DEF Compose, Shapes
<1>13. CASE Publish
  <2>1. timing' \in Timings /\ owners' \subseteq Owners
    <3>1. CASE UNCHANGED <<timing, owners>>
      BY <3>1 DEF Shapes
    <3>2. CASE /\ timing' \in Timings /\ timing'.generation \in Nat \ {0}
               /\ owners' = owners \cup {Owner(timing'.generation, daemon.root, daemon.base)}
      <4>1. Owner(timing'.generation, daemon.root, daemon.base) \in Owners
        BY <3>2, DaemonFields DEF Owner, Owners
      <4> QED BY <3>2, <4>1 DEF Shapes
    <3> QED BY <1>13, <3>1, <3>2, Publishes
  <2> QED BY <1>13, <2>1, Publishes DEF Shapes
<1>14. CASE Judge
  BY <1>14, Judges DEF Judge, Shapes
<1>15. CASE Settle
  <2>1. /\ daemon' \in Daemons /\ selected_valid' \in BOOLEAN
        /\ ptp_invalidate_timing \/ NoInvalidation
    BY <1>15, AtPlace, DaemonFields DEF Settle, Places
  <2> QED BY <1>0, <1>15, <2>1 DEF Settle, Shapes
<1>16. CASE QualifyLocal
  <2>1. daemon' \in Daemons
    BY <1>16, AtPlace DEF QualifyLocal, Places
  <2>2. local' \in Locals
    BY <1>16 DEF QualifyLocal, Shapes, Locals
  <2> QED BY <1>16, <2>1, <2>2 DEF QualifyLocal, Shapes
<1>17. CASE PublishLocal
  <2>1. daemon' \in Daemons
    BY <1>17, AtPlace DEF PublishLocal, Places
  <2>2. owners' \subseteq Owners
    <3>1. Owner(timing'.generation, Own.root, 0) \in Owners
      BY <1>17, PublishesLocal DEF Owner, Owners
    <3> QED BY <1>17, <3>1, PublishesLocal DEF Shapes
  <2> QED BY <1>17, <2>1, <2>2, PublishesLocal DEF PublishLocal, Shapes
<1>18. CASE LocalNoTime
  <2>1. daemon' \in Daemons
    BY <1>18, AtPlace DEF LocalNoTime, Places
  <2> QED BY <1>18, <2>1 DEF LocalNoTime, Shapes
<1>19. CASE ResetProfile \/ CapabilityChanges
  BY <1>19 DEF ResetProfile, CapabilityChanges, Shapes
<1>20. CASE ResetInvalidate \/ ResetClean
  <2>1. ptp_invalidate_timing
    BY <1>20 DEF ResetInvalidate, ResetClean
  <2> QED BY <1>0, <1>20, <2>1 DEF ResetInvalidate, ResetClean, Shapes
<1>21. CASE ResetSource
  BY <1>21, Caps, NoSyncPending DEF ResetSource, Shapes
<1>22. CASE Tick
  <2>1. announce_age' \in 0..AnnounceCap /\ sync_age' \in 0..SyncCap
    BY <1>22, OlderRange, Caps DEF Tick, Shapes
  <2>2. receipt' \in Receipts
    <3>1. receipt \in Receipts /\ receipt.age \in 0..WindowCap
      BY DEF Shapes, Receipts
    <3>2. Older(receipt.age, WindowCap) \in 0..WindowCap
      BY <3>1, OlderRange, Caps
    <3>3. receipt' = [receipt EXCEPT !.age = Older(receipt.age, WindowCap)]
      BY <1>22, <3>1 DEF Tick, Receipts
    <3> QED BY <3>1, <3>2, <3>3 DEF Receipts
  <2>3. twostep' \in Syncs
    <3>1. twostep \in Syncs /\ Older(twostep.age, TwostepCap) \in 0..TwostepCap
      BY SyncFields, OlderRange, Caps DEF Shapes
    <3>2. twostep' = twostep \/ twostep' = [twostep EXCEPT !.age = Older(twostep.age, TwostepCap)]
      BY <1>22, <3>1 DEF Tick, Syncs
    <3> QED BY <3>1, <3>2 DEF Syncs
  <2> QED BY <1>22, <2>1, <2>2, <2>3 DEF Tick, Shapes
<1>23. CASE UNCHANGED vars
  BY <1>23 DEF vars, Shapes
<1> QED
  BY <1>1, <1>2, <1>3, <1>4, <1>5, <1>6, <1>7, <1>8, <1>9, <1>10, <1>11, <1>12, <1>13, <1>14, <1>15,
     <1>16, <1>17, <1>18, <1>19, <1>20, <1>21, <1>22, <1>23 DEF Next, Pass, ResetSteps

(* What ends a source ends the Sync that waits, and what replaces it drops *)
(* the Sync before the new source is stored.                               *)
LEMMA PairStep == Shapes /\ PairInv /\ [Next]_vars => PairInv'
<1> SUFFICES ASSUME Shapes, PairInv, [Next]_vars PROVE PairInv'
  OBVIOUS
<1> USE DEF source
<1>1. CASE PassStart
  <2>1. daemon'.pc = "rx"
    BY <1>1, AtPlace DEF PassStart, Places
  <2> QED BY <1>1, <2>1, NoSyncPending DEF PassStart, PairInv
<1>2. CASE RxNothing \/ RxNotCapable
  <2>1. daemon'.pc = "judge"
    BY <1>2, AtPlace DEF RxNothing, RxNotCapable, Places
  <2> QED BY <1>2, <2>1, NoSyncPending DEF RxNothing, RxNotCapable, PairInv
<1>3. ASSUME NEW m \in Announcements, RxDemote(m) PROVE PairInv'
  <2>1. daemon'.pc = "judge"
    BY <1>3, AtPlace DEF RxDemote, Places
  <2> QED BY <1>3, <2>1 DEF RxDemote, PairInv
<1>4. ASSUME NEW m \in Announcements, RxAnnounce(m) PROVE PairInv'
  <2>1. daemon'.pc = "select" /\ daemon'.announce = m
    BY <1>4, Selects
  <2>2. CASE ~selected_valid \/ ~SamePort(m) \/ ~SameRoot(m)
    <3>1. twostep' = NoSync
      BY <1>4, <2>2 DEF RxAnnounce
    <3> QED BY <2>1, <3>1, NoSyncPending DEF PairInv
  <2>3. CASE selected_valid /\ SamePort(m) /\ SameRoot(m)
    <3>1. UNCHANGED <<twostep, selected, selected_valid>>
      BY <1>4, <2>3 DEF RxAnnounce
    <3> QED BY <2>1, <2>3, <3>1 DEF PairInv, SamePort, SameRoot
  <2> QED BY <2>2, <2>3
<1>5. CASE StoreAnnounce
  <2>1. daemon'.pc = "judge"
    BY <1>5, AtPlace DEF StoreAnnounce, Places
  <2>2. selected' \in Announcements /\ selected' # NoSource
    BY <1>5, Bodies DEF StoreAnnounce, PairInv
  <2> QED BY <1>5, <2>1, <2>2 DEF StoreAnnounce, PairInv
<1>6. ASSUME NEW p \in Ports, NEW s \in Sequences, NEW w \in Windows, RxSync(p, s, w) PROVE PairInv'
  <2>1. daemon'.pc = "judge"
    BY <1>6, AtPlace DEF RxSync, Places
  <2>2. /\ selected' = selected /\ selected # NoSource
        /\ twostep'.port = selected.port /\ twostep'.root = selected.root
    BY <1>6 DEF RxSync, FromSelected
  <2> QED BY <2>1, <2>2 DEF PairInv
<1>7. ASSUME NEW p \in Ports, RxSyncOneStep(p) PROVE PairInv'
  <2>1. daemon'.pc = "judge" /\ twostep' = NoSync
    BY <1>7, AtPlace DEF RxSyncOneStep, Places
  <2> QED BY <2>1, NoSyncPending DEF PairInv
<1>8. ASSUME NEW p \in Ports, NEW s \in Sequences, NEW b \in {0, 1}, RxFollowUp(p, s, b) PROVE PairInv'
  <2>1. daemon'.pc = "adjust" /\ twostep' = NoSync
    BY <1>8, FollowsUp DEF RxFollowUp
  <2> QED BY <2>1, NoSyncPending DEF PairInv
<1>9. CASE AdjustClock \/ AdjustFails \/ Observe \/ Compose \/ Publish
  <2>1. daemon'.pc \in {"observe", "judge", "compose", "publish"}
    BY <1>9, AtPlace, Adjusts, Observes, Composes, Publishes DEF AdjustFails, Places
  <2>2. UNCHANGED <<selected, selected_valid, twostep>>
    BY <1>9 DEF AdjustClock, AdjustFails, Observe, Compose, Publish
  <2> QED BY <2>1, <2>2 DEF PairInv
<1>10. CASE Judge
  <2>1. daemon'.pc = "settle" /\ (daemon'.verdict => selected # NoSource)
    BY <1>10, Judges
  <2> QED BY <1>10, <2>1 DEF Judge, PairInv
<1>11. CASE Settle
  <2>1. daemon'.pc = "local"
    BY <1>11, AtPlace DEF Settle, Places
  <2> QED BY <1>11, <2>1 DEF Settle, PairInv
<1>12. CASE QualifyLocal \/ PublishLocal \/ LocalNoTime
  <2>1. daemon'.pc \in {"originate", "start"}
    BY <1>12, AtPlace DEF QualifyLocal, PublishLocal, LocalNoTime, Places
  <2>2. UNCHANGED <<selected, selected_valid, twostep>>
    BY <1>12 DEF QualifyLocal, PublishLocal, LocalNoTime
  <2> QED BY <2>1, <2>2 DEF PairInv
<1>13. CASE ResetProfile \/ CapabilityChanges \/ ResetInvalidate \/ ResetClean
  BY <1>13 DEF ResetProfile, CapabilityChanges, ResetInvalidate, ResetClean, PairInv
<1>14. CASE ResetSource
  BY <1>14, NoSyncPending DEF ResetSource, PairInv
<1>15. CASE Tick
  <2>1. /\ UNCHANGED <<selected, selected_valid, daemon>>
        /\ twostep'.pending = twostep.pending /\ twostep'.port = twostep.port
        /\ twostep'.root = twostep.root
    BY <1>15 DEF Tick, Shapes, Syncs
  <2> QED BY <2>1 DEF PairInv
<1>16. CASE UNCHANGED vars
  BY <1>16 DEF vars, PairInv
<1> QED
  BY <1>1, <1>2, <1>3, <1>4, <1>5, <1>6, <1>7, <1>8, <1>9, <1>10, <1>11, <1>12, <1>13, <1>14, <1>15,
     <1>16 DEF Next, Pass, ResetSteps

(* A change of the source outside a reset is made where nothing is being   *)
(* published, and a reset moves the generation before and after its own.   *)
LEMMA PublishStep == Shapes /\ PairInv /\ PublishInv /\ [Next]_vars => PublishInv'
<1> SUFFICES ASSUME Shapes, PairInv, PublishInv, [Next]_vars PROVE PublishInv'
  OBVIOUS
<1> USE DEF source
<1> DEFINE Middle == {"adjust", "observe", "compose", "publish"}
<1>g. timing.generation \in Nat /\ daemon.generation \in Nat
  BY TimingFields, DaemonFields
<1>o. daemon'.pc \notin Middle => PublishInv'
  BY DEF PublishInv, Publishing
<1>1. CASE PassStart \/ RxNothing \/ RxNotCapable
  <2>1. daemon'.pc \in {"rx", "judge"}
    BY <1>1, AtPlace DEF PassStart, RxNothing, RxNotCapable, Places
  <2> QED BY <1>o, <2>1
<1>2. ASSUME NEW m \in Announcements, RxDemote(m) \/ RxAnnounce(m) PROVE PublishInv'
  <2>1. daemon'.pc \in {"judge", "select"}
    BY <1>2, AtPlace, Selects DEF RxDemote, Places
  <2> QED BY <1>o, <2>1
<1>3. ASSUME NEW p \in Ports, RxSyncOneStep(p) \/ \E s \in Sequences, w \in Windows : RxSync(p, s, w)
      PROVE  PublishInv'
  <2>1. daemon'.pc = "judge"
    BY <1>3, AtPlace DEF RxSync, RxSyncOneStep, Places
  <2> QED BY <1>o, <2>1
<1>4. ASSUME NEW p \in Ports, NEW s \in Sequences, NEW b \in {0, 1}, RxFollowUp(p, s, b) PROVE PublishInv'
  <2>1. daemon'.pc = "adjust" /\ daemon'.generation = timing.generation
    BY <1>4, FollowsUp
  <2>2. /\ selected_valid /\ twostep.pending
        /\ UNCHANGED <<selected, selected_valid, timing>>
    BY <1>4 DEF RxFollowUp, Follows
  <2>3. selected # NoSource
    BY <2>2 DEF PairInv
  <2> QED BY <1>g, <2>1, <2>2, <2>3 DEF PublishInv, Publishing
<1>5. CASE AdjustClock
  <2>1. /\ daemon'.pc = "observe" /\ daemon'.generation = daemon.generation /\ daemon.pc = "adjust"
        /\ UNCHANGED <<selected, selected_valid, reset>>
    BY <1>5, Adjusts DEF AdjustClock
  <2>2. CASE ptp_invalidate_timing
    <3>1. timing'.generation = timing.generation + 1
      BY <2>2, Invalidated
    <3> QED BY <1>g, <2>1, <3>1 DEF PublishInv, Publishing
  <2>3. CASE NoInvalidation
    BY <2>1, <2>3 DEF NoInvalidation, PublishInv, Publishing
  <2> QED BY <1>5, <2>2, <2>3 DEF AdjustClock
<1>6. CASE Observe
  <2>1. daemon.pc = "observe" /\ UNCHANGED <<selected, selected_valid, gptp, timing, reset>>
    BY <1>6 DEF Observe
  <2>2. CASE daemon'.pc = "judge"
    BY <1>o, <2>2
  <2>3. CASE daemon'.pc = "compose" /\ daemon'.generation = daemon.generation /\ gptp
    BY <2>1, <2>3 DEF PublishInv, Publishing
  <2> QED BY <1>6, <2>2, <2>3, Observes
<1>7. CASE Compose
  <2>1. /\ daemon.pc = "compose" /\ daemon'.pc = "publish" /\ daemon'.generation = daemon.generation
        /\ selected # NoSource => daemon'.root = selected.root
        /\ UNCHANGED <<selected, selected_valid, gptp, timing, reset>>
    BY <1>7, Composes DEF Compose
  <2> QED BY <2>1 DEF PublishInv, Publishing
<1>8. CASE StoreAnnounce \/ AdjustFails \/ Publish \/ Judge \/ Settle
  <2>1. daemon'.pc \in {"judge", "settle", "local"}
    BY <1>8, AtPlace, Publishes, Judges DEF StoreAnnounce, AdjustFails, Settle, Places
  <2> QED BY <1>o, <2>1
<1>9. CASE QualifyLocal \/ PublishLocal \/ LocalNoTime
  <2>1. daemon'.pc \in {"originate", "start"}
    BY <1>9, AtPlace DEF QualifyLocal, PublishLocal, LocalNoTime, Places
  <2> QED BY <1>o, <2>1
<1>10. CASE ResetProfile \/ ResetSource
  BY <1>10 DEF ResetProfile, ResetSource, PublishInv, Publishing
<1>11. CASE ResetInvalidate \/ ResetClean
  <2>1. daemon' = daemon /\ timing'.generation = timing.generation + 1
    BY <1>11, Invalidated DEF ResetInvalidate, ResetClean
  <2> QED BY <1>g, <2>1 DEF PublishInv, Publishing
<1>12. CASE CapabilityChanges \/ Tick
  BY <1>12 DEF CapabilityChanges, Tick, PublishInv, Publishing
<1>13. CASE UNCHANGED vars
  BY <1>13 DEF vars, PublishInv, Publishing
<1> QED
  BY <1>1, <1>2, <1>3, <1>4, <1>5, <1>6, <1>7, <1>8, <1>9, <1>10, <1>11, <1>12, <1>13
  DEF Next, Pass, ResetSteps

(* A snapshot becomes valid only by a publication that nothing overtook,   *)
(* and every step that ends its source invalidates it.                     *)
LEMMA SnapshotStep == Shapes /\ PairInv /\ PublishInv /\ SnapshotInv /\ [Next]_vars => SnapshotInv'
<1> SUFFICES ASSUME Shapes, PairInv, PublishInv, SnapshotInv, [Next]_vars PROVE SnapshotInv'
  OBVIOUS
<1> USE DEF source
<1>i. ptp_invalidate_timing => SnapshotInv'
  BY Invalidated DEF SnapshotInv
<1>1. CASE PassStart
  <2>1. daemon'.pc = "rx" /\ daemon.pc = "start"
    BY <1>1, AtPlace DEF PassStart, Places
  <2>2. CASE NoInvalidation
    <3>1. CASE gptp /\ ~capable
      <4>1. ~selected_valid \/ ptp_invalidate_timing
        BY <1>1, <3>1 DEF PassStart
      <4>2. ~selected_valid => SnapshotInv'
        BY <1>1, <2>2 DEF PassStart, NoInvalidation, SnapshotInv
      <4> QED BY <1>i, <4>1, <4>2
    <3>2. CASE ~(gptp /\ ~capable)
      BY <1>1, <2>1, <2>2, <3>2 DEF PassStart, NoInvalidation, SnapshotInv
    <3> QED BY <3>1, <3>2
  <2>3. ptp_invalidate_timing \/ NoInvalidation
    BY <1>1 DEF PassStart
  <2> QED BY <1>i, <2>2, <2>3
<1>2. CASE RxNothing \/ RxNotCapable
  <2>1. daemon'.pc = "judge"
    BY <1>2, AtPlace DEF RxNothing, RxNotCapable, Places
  <2> QED BY <1>2, <2>1 DEF RxNothing, RxNotCapable, SnapshotInv
<1>3. ASSUME NEW m \in Announcements, RxDemote(m) PROVE SnapshotInv'
  BY <1>i, <1>3 DEF RxDemote
<1>4. ASSUME NEW m \in Announcements, RxAnnounce(m) PROVE SnapshotInv'
  <2>1. daemon'.pc = "select" /\ daemon'.announce = m /\ daemon.pc = "rx"
    BY <1>4, Selects DEF RxAnnounce, Receives
  <2>2. CASE ~selected_valid \/ ~SamePort(m) \/ ~SameRoot(m)
    BY <1>i, <1>4, <2>2 DEF RxAnnounce
  <2>3. CASE selected_valid /\ SamePort(m) /\ SameRoot(m)
    <3>1. UNCHANGED <<gptp, selected, selected_valid, timing, local, reset>>
      BY <1>4, <2>3 DEF RxAnnounce, NoInvalidation
    <3> QED BY <2>1, <2>3, <3>1 DEF SnapshotInv, SameRoot
  <2> QED BY <2>2, <2>3
<1>5. CASE StoreAnnounce
  <2>1. daemon'.pc = "judge"
    BY <1>5, AtPlace DEF StoreAnnounce, Places
  <2>2. selected' = daemon.announce /\ selected' # NoSource /\ daemon.pc = "select"
    BY <1>5, Bodies DEF StoreAnnounce, PairInv
  <2> QED BY <1>5, <2>1, <2>2 DEF StoreAnnounce, SnapshotInv
<1>6. ASSUME NEW p \in Ports, RxSyncOneStep(p) \/ \E s \in Sequences, w \in Windows : RxSync(p, s, w)
      PROVE  SnapshotInv'
  <2>1. daemon'.pc = "judge"
    BY <1>6, AtPlace DEF RxSync, RxSyncOneStep, Places
  <2>2. /\ UNCHANGED <<gptp, selected, selected_valid, reset>>
        /\ ptp_invalidate_timing \/ NoInvalidation
    BY <1>6 DEF RxSync, RxSyncOneStep, NoInvalidation
  <2>3. NoInvalidation => SnapshotInv'
    BY <2>1, <2>2 DEF NoInvalidation, SnapshotInv
  <2> QED BY <1>i, <2>2, <2>3
<1>7. ASSUME NEW p \in Ports, NEW s \in Sequences, NEW b \in {0, 1}, RxFollowUp(p, s, b) PROVE SnapshotInv'
  <2>1. daemon'.pc = "adjust" /\ daemon.pc = "rx"
    BY <1>7, FollowsUp DEF RxFollowUp, Receives
  <2> QED BY <1>7, <2>1 DEF RxFollowUp, SnapshotInv
<1>8. CASE AdjustClock
  <2>1. daemon'.pc = "observe" /\ daemon.pc = "adjust"
    BY <1>8, Adjusts DEF AdjustClock
  <2>2. NoInvalidation => SnapshotInv'
    BY <1>8, <2>1 DEF AdjustClock, NoInvalidation, SnapshotInv
  <2> QED BY <1>i, <1>8, <2>2 DEF AdjustClock
<1>9. CASE AdjustFails
  BY <1>i, <1>9 DEF AdjustFails
<1>10. CASE Observe \/ Compose
  <2>1. /\ daemon'.pc \in {"judge", "compose", "publish"} /\ daemon.pc \in {"observe", "compose"}
        /\ UNCHANGED <<gptp, selected, selected_valid, timing, local, reset>>
    BY <1>10, Observes, Composes DEF Observe, Compose
  <2> QED BY <2>1 DEF SnapshotInv
<1>11. CASE Publish
  <2>1. /\ daemon'.pc = "judge" /\ daemon.pc = "publish"
        /\ UNCHANGED <<gptp, selected, selected_valid, local, reset>>
    BY <1>11, Publishes DEF Publish
  <2>2. CASE UNCHANGED timing
    BY <2>1, <2>2 DEF SnapshotInv
  <2>3. CASE timing.generation = daemon.generation /\ timing'.root = daemon.root
    BY <2>1, <2>3 DEF SnapshotInv, PublishInv, Publishing
  <2> QED BY <1>11, <2>2, <2>3, Publishes
<1>12. CASE Judge
  <2>1. daemon'.pc = "settle" /\ daemon'.was = selected_valid /\ daemon.pc = "judge"
    BY <1>12, Judges DEF Judge
  <2> QED BY <1>12, <2>1 DEF Judge, SnapshotInv
<1>13. CASE Settle
  <2>1. daemon'.pc = "local" /\ daemon.pc = "settle"
    BY <1>13, AtPlace DEF Settle, Places
  <2>2. CASE daemon.was /\ ~daemon.verdict
    BY <1>i, <1>13, <2>2 DEF Settle
  <2>3. CASE ~daemon.was
    BY <1>13, <2>3 DEF Settle, NoInvalidation, SnapshotInv
  <2>4. CASE daemon.was /\ daemon.verdict
    BY <1>13, <2>1, <2>4 DEF Settle, NoInvalidation, SnapshotInv
  <2> QED BY <2>2, <2>3, <2>4
<1>14. CASE QualifyLocal
  <2>1. daemon'.pc = IF LocalEligible THEN "originate" ELSE "start"
    BY <1>14, AtPlace DEF QualifyLocal, Places
  <2>2. ~LocalEligible => ~local'.valid
    BY <1>14 DEF QualifyLocal, Shapes, Locals
  <2>3. UNCHANGED <<gptp, selected, selected_valid, timing, reset>>
    BY <1>14 DEF QualifyLocal
  <2>4. LocalEligible => ~selected_valid
    BY DEF LocalEligible
  <2> HIDE DEF LocalEligible
  <2> QED BY <2>1, <2>2, <2>3, <2>4 DEF SnapshotInv
<1>15. CASE PublishLocal
  <2>1. daemon.pc = "originate" /\ timing'.valid = timing.valid /\ reset' = reset
    BY <1>15, PublishesLocal DEF PublishLocal
  <2> QED BY <2>1 DEF SnapshotInv
<1>16. CASE LocalNoTime
  <2>1. daemon.pc = "originate" /\ UNCHANGED <<timing, reset>>
    BY <1>16 DEF LocalNoTime
  <2> QED BY <2>1 DEF SnapshotInv
<1>17. CASE ResetProfile \/ ResetSource
  BY <1>17 DEF ResetProfile, ResetSource, SnapshotInv
<1>18. CASE ResetInvalidate \/ ResetClean
  BY <1>i, <1>18 DEF ResetInvalidate, ResetClean
<1>19. CASE CapabilityChanges \/ Tick
  BY <1>19 DEF CapabilityChanges, Tick, SnapshotInv
<1>20. CASE UNCHANGED vars
  BY <1>20 DEF vars, SnapshotInv
<1> QED
  BY <1>1, <1>2, <1>3, <1>4, <1>5, <1>6, <1>7, <1>8, <1>9, <1>10, <1>11, <1>12, <1>13, <1>14, <1>15,
     <1>16, <1>17, <1>18, <1>19, <1>20 DEF Next, Pass, ResetSteps

(* Owners with the same three fields are the same.                         *)
LEMMA SameOwner ==
  ASSUME NEW a \in Owners, NEW b \in Owners,
         a.generation = b.generation, a.root = b.root, a.base = b.base
  PROVE  a = b
BY DEF Owners

(* Owners of a generation that is left, or kept with what was published.   *)
LEMMA OwnersKept ==
  ASSUME Shapes, OwnerInv, owners' = owners, timing'.generation \in Nat,
         \/ timing'.generation > timing.generation
         \/ /\ timing'.generation = timing.generation /\ timing'.root = timing.root
            /\ timing'.base = timing.base /\ timing'.published = timing.published
  PROVE  OwnerInv'
<1>1. timing.generation \in Nat /\ \A o \in owners : o.generation \in Nat
  BY TimingFields DEF Shapes, Owners
<1>2. GenerationNamesRoot'
  BY DEF OwnerInv, GenerationNamesRoot
<1>3. ASSUME NEW o \in owners
      PROVE  /\ o.generation <= timing'.generation
             /\ o.root # Own.root /\ o.generation = timing'.generation =>
                  timing'.published /\ o.root = timing'.root /\ o.base = timing'.base
  <2>1. /\ o.generation <= timing.generation /\ o.generation \in Nat
        /\ o.root # Own.root /\ o.generation = timing.generation =>
             timing.published /\ o.root = timing.root /\ o.base = timing.base
    BY <1>1 DEF OwnerInv
  <2> QED BY <1>1, <2>1
<1> QED BY <1>2, <1>3 DEF OwnerInv

(* A generation is given to a second source only if nothing of another     *)
(* root or time base was published under it.                               *)
LEMMA OwnerStep == Shapes /\ Shapes' /\ OwnerInv /\ [Next]_vars => OwnerInv'
<1> SUFFICES ASSUME Shapes, Shapes', OwnerInv, [Next]_vars PROVE OwnerInv'
  OBVIOUS
<1>g. /\ timing.generation \in Nat /\ timing'.generation \in Nat
      /\ \A o \in owners : o.generation \in Nat \ {0} /\ o \in Owners
  BY TimingFields DEF Shapes, Owners, Timings
<1>i. ptp_invalidate_timing \/ NoInvalidation =>
        \/ timing'.generation > timing.generation
        \/ /\ timing'.generation = timing.generation /\ timing'.root = timing.root
           /\ timing'.base = timing.base /\ timing'.published = timing.published
  BY <1>g, Invalidated DEF NoInvalidation
<1>1. CASE Publish
  <2>1. CASE UNCHANGED <<timing, owners>>
    BY <1>g, <2>1, OwnersKept
  <2>2. CASE ~UNCHANGED <<timing, owners>>
    <3> DEFINE n == Owner(timing'.generation, daemon.root, daemon.base)
    <3>1. /\ timing'.root = daemon.root /\ timing'.base = daemon.base /\ timing'.published
          /\ owners' = owners \cup {n} /\ timing'.generation >= timing.generation
          /\ timing'.generation \in Nat \ {0}
          /\ timing.generation # 0 /\ timing'.generation = timing.generation /\ timing.published
               => timing.root = daemon.root /\ timing.base = daemon.base
      BY <1>1, <2>2, Publishes
    <3>2. /\ n \in Owners /\ n.generation = timing'.generation
          /\ n.root = daemon.root /\ n.base = daemon.base
      BY <3>1, DaemonFields DEF Owner, Owners
    <3> HIDE DEF n
    <3>3. ASSUME NEW o \in owners
          PROVE  /\ o.generation <= timing'.generation
                 /\ o.root # Own.root /\ o.generation = timing'.generation =>
                      o.root = daemon.root /\ o.base = daemon.base
      <4>1. /\ o.generation <= timing.generation /\ o.generation \in Nat \ {0}
            /\ o.root # Own.root /\ o.generation = timing.generation =>
                 timing.published /\ o.root = timing.root /\ o.base = timing.base
        BY <1>g DEF OwnerInv
      <4> QED BY <1>g, <3>1, <4>1
    <3>4. ASSUME NEW o \in owners'
          PROVE  /\ o \in Owners /\ o.generation <= timing'.generation
                 /\ o.root # Own.root /\ o.generation = timing'.generation =>
                      o.root = daemon.root /\ o.base = daemon.base
      BY <1>g, <3>1, <3>2, <3>3
    <3>5. ASSUME NEW a \in owners', NEW b \in owners', a.generation = b.generation,
                 a.root # Own.root, b.root # Own.root
          PROVE  a = b
      <4>1. CASE a \in owners /\ b \in owners
        BY <3>5, <4>1 DEF OwnerInv, GenerationNamesRoot
      <4>2. CASE a = n \/ b = n
        <5>1. a.generation = timing'.generation /\ b.generation = timing'.generation
          BY <3>2, <3>5, <4>2
        <5>2. a.root = b.root /\ a.base = b.base /\ a \in Owners /\ b \in Owners
          BY <3>4, <3>5, <5>1
        <5> QED BY <3>5, <5>2, SameOwner
      <4> QED BY <3>1, <4>1, <4>2
    <3> QED BY <3>1, <3>4, <3>5 DEF OwnerInv, GenerationNamesRoot
  <2> QED BY <2>1, <2>2
<1>2. CASE PublishLocal
  <2> DEFINE n == Owner(timing'.generation, Own.root, 0)
  <2>1. /\ timing'.generation = IF timing.generation = 0 THEN 1 ELSE timing.generation
        /\ timing'.root = timing.root /\ timing'.base = timing.base
        /\ timing'.published = timing.published /\ owners' = owners \cup {n}
    BY <1>2, PublishesLocal
  <2>2. n.root = Own.root /\ n.generation = timing'.generation
    BY DEF Owner
  <2> HIDE DEF n
  <2>3. ASSUME NEW o \in owners
        PROVE  /\ o.generation <= timing'.generation
               /\ o.root # Own.root /\ o.generation = timing'.generation =>
                    timing'.published /\ o.root = timing'.root /\ o.base = timing'.base
    <3>1. /\ o.generation <= timing.generation /\ o.generation \in Nat \ {0}
          /\ o.root # Own.root /\ o.generation = timing.generation =>
               timing.published /\ o.root = timing.root /\ o.base = timing.base
      BY <1>g DEF OwnerInv
    <3> QED BY <1>g, <2>1, <3>1
  <2>4. ASSUME NEW o \in owners'
        PROVE  /\ o.generation <= timing'.generation
               /\ o.root # Own.root /\ o.generation = timing'.generation =>
                    timing'.published /\ o.root = timing'.root /\ o.base = timing'.base
    BY <1>g, <2>1, <2>2, <2>3
  <2>5. GenerationNamesRoot'
    BY <2>1, <2>2 DEF OwnerInv, GenerationNamesRoot
  <2> QED BY <2>4, <2>5 DEF OwnerInv
<1>3. ASSUME owners' = owners, ptp_invalidate_timing \/ NoInvalidation PROVE OwnerInv'
  BY <1>g, <1>i, <1>3, OwnersKept
<1>4. CASE PassStart \/ RxNothing \/ RxNotCapable
  <2>1. owners' = owners /\ (ptp_invalidate_timing \/ NoInvalidation)
    BY <1>4 DEF PassStart, RxNothing, RxNotCapable, NoInvalidation
  <2> QED BY <1>3, <2>1
<1>5. ASSUME NEW m \in Announcements, RxDemote(m) \/ RxAnnounce(m) PROVE OwnerInv'
  <2>1. owners' = owners /\ (ptp_invalidate_timing \/ NoInvalidation)
    BY <1>5 DEF RxDemote, RxAnnounce
  <2> QED BY <1>3, <2>1
<1>6. ASSUME NEW p \in Ports,
             \/ RxSyncOneStep(p)
             \/ \E s \in Sequences, w \in Windows : RxSync(p, s, w)
             \/ \E s \in Sequences, b \in {0, 1} : RxFollowUp(p, s, b)
      PROVE  OwnerInv'
  <2>1. owners' = owners /\ (ptp_invalidate_timing \/ NoInvalidation)
    BY <1>6 DEF RxSyncOneStep, RxSync, RxFollowUp, NoInvalidation
  <2> QED BY <1>3, <2>1
<1>7. CASE StoreAnnounce \/ AdjustClock \/ AdjustFails \/ Observe \/ Compose
  <2>1. owners' = owners /\ (ptp_invalidate_timing \/ NoInvalidation)
    BY <1>7 DEF StoreAnnounce, AdjustClock, AdjustFails, Observe, Compose, NoInvalidation
  <2> QED BY <1>3, <2>1
<1>8. CASE Judge \/ Settle \/ LocalNoTime
  <2>1. owners' = owners /\ (ptp_invalidate_timing \/ NoInvalidation)
    BY <1>8 DEF Judge, Settle, LocalNoTime, NoInvalidation
  <2> QED BY <1>3, <2>1
<1>9. CASE QualifyLocal
  BY <1>9, <1>g, OwnersKept DEF QualifyLocal
<1>10. CASE ResetProfile \/ ResetInvalidate \/ ResetSource \/ ResetClean
  <2>1. owners' = owners /\ (ptp_invalidate_timing \/ NoInvalidation)
    BY <1>10 DEF ResetProfile, ResetInvalidate, ResetSource, ResetClean, NoInvalidation
  <2> QED BY <1>3, <2>1
<1>11. CASE CapabilityChanges \/ Tick
  <2>1. owners' = owners /\ (ptp_invalidate_timing \/ NoInvalidation)
    BY <1>11 DEF CapabilityChanges, Tick, NoInvalidation
  <2> QED BY <1>3, <2>1
<1>12. CASE UNCHANGED vars
  <2>1. owners' = owners /\ NoInvalidation
    BY <1>12 DEF vars, NoInvalidation
  <2> QED BY <1>3, <2>1
<1> QED
  BY <1>1, <1>2, <1>4, <1>5, <1>6, <1>7, <1>8, <1>9, <1>10, <1>11, <1>12 DEF Next, Pass, ResetSteps

(* The invariant holds at the start.                                       *)
LEMMA SelectionInit == Init => SelectionInv
<1> SUFFICES ASSUME Init PROVE SelectionInv
  OBVIOUS
<1>1. daemon \in Daemons /\ daemon.pc = "start"
  BY AtPlace DEF Init, Places
<1>2. timing \in Timings /\ ~timing.valid /\ local \in Locals
  BY Bodies DEF Init, Timings, Locals
<1>3. receipt \in Receipts /\ twostep \in Syncs /\ ~twostep.pending
  BY Caps, NoSyncPending DEF Init, Receipts
<1>4. Shapes
  BY <1>1, <1>2, <1>3, Caps DEF Init, Shapes
<1>5. PairInv /\ PublishInv /\ SnapshotInv
  BY <1>1, <1>2, <1>3 DEF PairInv, PublishInv, Publishing, SnapshotInv
<1>6. OwnerInv
  BY DEF Init, OwnerInv, GenerationNamesRoot
<1> QED BY <1>4, <1>5, <1>6 DEF SelectionInv

(* The invariant of selection and timing holds throughout.                 *)
LEMMA SelectionCorrect == Spec => []SelectionInv
<1>1. SelectionInv /\ [Next]_vars => SelectionInv'
  <2> SUFFICES ASSUME SelectionInv, [Next]_vars PROVE SelectionInv'
    OBVIOUS
  <2>1. Shapes'
    BY ShapesStep DEF SelectionInv
  <2>2. PairInv' /\ PublishInv'
    BY PairStep, PublishStep DEF SelectionInv
  <2>3. SnapshotInv'
    BY SnapshotStep DEF SelectionInv
  <2>4. OwnerInv'
    BY <2>1, OwnerStep DEF SelectionInv
  <2> QED BY <2>1, <2>2, <2>3, <2>4 DEF SelectionInv
<1> QED BY <1>1, SelectionInit, PTL DEF Spec

(* Between passes the local clock does not originate beside a valid        *)
(* received snapshot, and everything keeps its shape                       *)
(* (ptp_publish_local_source).                                             *)
THEOREM SourceCorrect == Spec => []SourceInv
<1>1. SelectionInv => SourceInv
  <2> SUFFICES ASSUME SelectionInv PROVE SourceInv
    OBVIOUS
  <2>1. TypeOK
    BY ShapesIsTypeOK DEF SelectionInv
  <2>2. OneTimeSource
    BY DEF SelectionInv, SnapshotInv, OneTimeSource, AtRest
  <2> QED BY <2>1, <2>2 DEF SourceInv
<1> QED BY <1>1, SelectionCorrect, PTL

(* A Follow_Up never completes the Sync of a source that was replaced      *)
(* since (ptp_process_announce, ptp_process_followup).                     *)
THEOREM FollowUpCorrect == Spec => []FollowUpPairsOneSource
<1>1. SelectionInv => FollowUpPairsOneSource
  BY DEF SelectionInv, PairInv, FollowUpPairsOneSource
<1> QED BY <1>1, SelectionCorrect, PTL

(* Between passes a valid snapshot is that of the selected source,         *)
(* whatever reset ran during the Follow_Up that published it               *)
(* (ptp_process_followup against ptp_reset_for_profile).                   *)
THEOREM SnapshotCorrect == Spec => []SnapshotOfSelected
<1>1. SelectionInv => SnapshotOfSelected
  BY DEF SelectionInv, SnapshotInv, SnapshotOfSelected, AtRest
<1> QED BY <1>1, SelectionCorrect, PTL

(* A generation never covers two received roots or two of their time bases *)
(* (the generation test and increment of ptp_process_followup).            *)
THEOREM GenerationCorrect == Spec => []GenerationNamesRoot
<1>1. SelectionInv => GenerationNamesRoot
  BY DEF SelectionInv, OwnerInv
<1> QED BY <1>1, SelectionCorrect, PTL
=============================================================================
