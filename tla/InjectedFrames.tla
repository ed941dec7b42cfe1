--------------------------- MODULE InjectedFrames ---------------------------
(***************************************************************************)
(* The ring through which receive callbacks hand Wi-Fi frames to the       *)
(* daemon (s_injected and its lock).  A callback reads its port's link     *)
(* generation, takes a timestamp outside the lock, and only then inserts;  *)
(* link handlers, profile resets and daemon restarts advance the           *)
(* generation at any time.  The daemon drains at most one ring's worth per *)
(* pass.                                                                   *)
(*                                                                         *)
(* The generation is a uint32; that it could come round between the two    *)
(* sections of one callback is left out.                                   *)
(***************************************************************************)
EXTENDS Naturals, Sequences, FiniteSets

CONSTANTS
  Ports,          \* ingress ports
  Callbacks,      \* threads that inject frames
  Payloads,       \* frame bodies
  Depth,          \* PTP_INJECT_DEPTH
  NoFrame,        \* an empty hand or ring entry
  MaxGeneration   \* bound: link changes of a port

ASSUME RingAssumption ==
  /\ Depth \in Nat \ {0}
  /\ MaxGeneration \in Nat
  /\ NoFrame \notin [port : Ports, generation : Nat, payload : Payloads]

VARIABLES
  s_injected,  \* the ring
  head,        \* s_injected_head
  count,       \* s_injected_count
  generation,  \* s_injected_generation
  enabled,     \* s_injected_enabled
  callback,    \* each callback: idle, or between its two sections
  daemon,      \* off, poll, drain or handle; frames drained in this pass
  handling     \* the frame being processed

vars == <<s_injected, head, count, generation, enabled, callback, daemon, handling>>

ring == <<s_injected, head, count>>

Frame == [port : Ports, generation : Nat, payload : Payloads]

Idle == [busy |-> FALSE]

Init ==
  /\ s_injected = [i \in 0..(Depth - 1) |-> NoFrame]
  /\ head = 0
  /\ count = 0
  /\ generation = [p \in Ports |-> 0]
  /\ enabled = FALSE
  /\ callback = [c \in Callbacks |-> Idle]
  /\ daemon = [pc |-> "off", drained |-> 0]
  /\ handling = NoFrame

-----------------------------------------------------------------------------
(* ptp_inject_received_frame_from.                                          *)

(* The first section: the generation is read, then the time.                *)
InjectBegin(c, p, body) ==
  /\ ~callback[c].busy
  /\ callback' = [callback EXCEPT ![c] =
       [busy |-> TRUE, frame |-> [port |-> p, generation |-> generation[p],
                                  payload |-> body]]]
  /\ UNCHANGED <<ring, generation, enabled, daemon, handling>>

(* ptp_gettime failed.                                                      *)
InjectNoTime(c) ==
  /\ callback[c].busy
  /\ callback' = [callback EXCEPT ![c] = Idle]
  /\ UNCHANGED <<ring, generation, enabled, daemon, handling>>

Fresh(f) == f.generation = generation[f.port]

(* Mutant: the insertion trusts the generation read before the timestamp.   *)
Admits_Stale(f) == enabled /\ count < Depth /\ f \in Frame

(* -ESRCH, -ESTALE and -ENOBUFS, in that order.                             *)
Admits(f) == enabled /\ Fresh(f) /\ count < Depth

(* The second section.                                                      *)
InjectInsert(c) ==
  /\ callback[c].busy
  /\ Admits(callback[c].frame)
  /\ s_injected' = [s_injected EXCEPT ![(head + count) % Depth] = callback[c].frame]
  /\ count' = count + 1
  /\ callback' = [callback EXCEPT ![c] = Idle]
  /\ UNCHANGED <<head, generation, enabled, daemon, handling>>

InjectRefused(c) ==
  /\ callback[c].busy
  /\ ~Admits(callback[c].frame)
  /\ callback' = [callback EXCEPT ![c] = Idle]
  /\ UNCHANGED <<ring, generation, enabled, daemon, handling>>

-----------------------------------------------------------------------------
(* The daemon.                                                              *)

(* poll() returned; the drain of this pass begins.                          *)
PassBegin ==
  /\ daemon.pc = "poll"
  /\ daemon' = [pc |-> "drain", drained |-> 0]
  /\ UNCHANGED <<ring, generation, enabled, callback, handling>>

(* Mutant: the drain goes on as long as there are frames.                   *)
MayDrain_Always == daemon.drained <= Depth

(* A pass drains at most one ring.                                          *)
MayDrain == daemon.drained < Depth

(* Counted up to the bound.                                                 *)
OneMore(n) == IF n < Depth THEN n + 1 ELSE n

(* One frame is taken under the lock; a stale one is skipped.               *)
DrainTake ==
  LET f == s_injected[head]
  IN
  /\ daemon.pc = "drain" /\ MayDrain
  /\ count # 0
  /\ head' = (head + 1) % Depth
  /\ count' = count - 1
  /\ handling' = IF Fresh(f) THEN f ELSE NoFrame
  /\ daemon' = [pc |-> IF Fresh(f) THEN "handle" ELSE "drain",
                drained |-> OneMore(daemon.drained)]
  /\ UNCHANGED <<s_injected, generation, enabled, callback>>

(* ptp_process_rx_packet.                                                   *)
Handle ==
  /\ daemon.pc = "handle"
  /\ handling' = NoFrame
  /\ daemon' = [daemon EXCEPT !.pc = "drain"]
  /\ UNCHANGED <<ring, generation, enabled, callback>>

(* The drain ends; the periodic work follows.                               *)
PassEnd ==
  /\ daemon.pc = "drain"
  /\ count = 0 \/ ~MayDrain
  /\ daemon' = [pc |-> "poll", drained |-> 0]
  /\ UNCHANGED <<ring, generation, enabled, callback, handling>>

-----------------------------------------------------------------------------
(* Generations.                                                             *)

Advance(ports) ==
  /\ \A p \in ports : generation[p] < MaxGeneration
  /\ generation' = [p \in Ports |-> IF p \in ports THEN generation[p] + 1
                                    ELSE generation[p]]

(* A link or association change of one port (ptp_set_port_link,             *)
(* ptp_wifi_event_handler, the association reports).                        *)
LinkChange(p) ==
  /\ Advance({p})
  /\ UNCHANGED <<ring, enabled, callback, daemon, handling>>

(* ptp_reset_for_profile.                                                   *)
ProfileReset ==
  /\ Advance(Ports)
  /\ UNCHANGED <<ring, enabled, callback, daemon, handling>>

(* ptp_initialize_state.                                                    *)
DaemonStart ==
  /\ daemon.pc = "off"
  /\ Advance(Ports)
  /\ head' = 0 /\ count' = 0
  /\ enabled' = TRUE
  /\ daemon' = [pc |-> "poll", drained |-> 0]
  /\ UNCHANGED <<s_injected, callback, handling>>

(* The end of ptp_daemon, once state->stop is seen between two passes.      *)
DaemonStop ==
  /\ daemon.pc = "poll"
  /\ Advance(Ports)
  /\ count' = 0
  /\ enabled' = FALSE
  /\ daemon' = [pc |-> "off", drained |-> 0]
  /\ UNCHANGED <<s_injected, head, callback, handling>>

-----------------------------------------------------------------------------
Drain == PassBegin \/ DrainTake \/ Handle \/ PassEnd

Next ==
  \/ \E c \in Callbacks, p \in Ports, body \in Payloads : InjectBegin(c, p, body)
  \/ \E c \in Callbacks : InjectNoTime(c) \/ InjectInsert(c) \/ InjectRefused(c)
  \/ Drain
  \/ \E p \in Ports : LinkChange(p)
  \/ ProfileReset
  \/ DaemonStart \/ DaemonStop

(* poll() is bounded, so a running daemon keeps passing.                    *)
Spec == Init /\ [][Next]_vars /\ WF_vars(Drain)

-----------------------------------------------------------------------------
(* The frames between head and tail, oldest first.                          *)
Queued == [i \in 1..count |-> s_injected[(head + i - 1) % Depth]]

(* The ring implements the channel: order, at most once, fresh only, and    *)
(* every accepted frame is eventually taken (ptp_daemon's drain).           *)
Channel == INSTANCE FrameChannel WITH queue <- Queued

ImplementsChannel == Channel!Spec

(* A busy producer cannot starve the periodic work: a running daemon keeps  *)
(* coming back to it (the bound of the drain in ptp_daemon).                *)
PeriodicWorkGoesOn == []<>(daemon.pc \in {"poll", "off"})
=============================================================================
