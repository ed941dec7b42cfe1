---------------------------- MODULE FrameChannel ----------------------------
(***************************************************************************)
(* What the injected-frame queue promises: a bounded channel from receive  *)
(* callbacks to the daemon that keeps the order of acceptance, hands every *)
(* frame over at most once, and hands it over only if its port has had no  *)
(* link change since the frame arrived.                                    *)
(***************************************************************************)
EXTENDS Naturals, Sequences

CONSTANTS
  Ports,     \* ingress ports
  Payloads,  \* frame bodies
  Depth,     \* capacity
  NoFrame    \* the daemon holds no frame

VARIABLES
  queue,      \* accepted frames, oldest first
  generation, \* link generation of each port
  enabled,    \* a daemon runs
  handling    \* the frame the daemon is processing, or NoFrame

vars == <<queue, generation, enabled, handling>>

Fresh(f) == f.generation = generation[f.port]

Init ==
  /\ queue = <<>>
  /\ generation = [p \in Ports |-> 0]
  /\ enabled = FALSE
  /\ handling = NoFrame

(* A frame is accepted with the generation its port has then.                *)
Accept(p, body) ==
  /\ enabled /\ Len(queue) < Depth
  /\ queue' = Append(queue, [port |-> p, generation |-> generation[p], payload |-> body])
  /\ UNCHANGED <<generation, enabled, handling>>

(* The oldest frame leaves; a stale one is dropped.                         *)
Take ==
  /\ queue # <<>> /\ handling = NoFrame
  /\ queue' = Tail(queue)
  /\ handling' = IF Fresh(Head(queue)) THEN Head(queue) ELSE NoFrame
  /\ UNCHANGED <<generation, enabled>>

Finish ==
  /\ handling # NoFrame
  /\ handling' = NoFrame
  /\ UNCHANGED <<queue, generation, enabled>>

(* Link changes make everything older stale.                                *)
Retire(ports) ==
  /\ generation' = [p \in Ports |-> IF p \in ports THEN generation[p] + 1 ELSE generation[p]]
  /\ UNCHANGED <<queue, enabled, handling>>

(* A daemon that starts or stops empties the channel.                       *)
Switch ==
  /\ enabled' = ~enabled
  /\ handling = NoFrame
  /\ queue' = <<>>
  /\ generation' = [p \in Ports |-> generation[p] + 1]
  /\ UNCHANGED handling

Next ==
  \/ \E p \in Ports, body \in Payloads : Accept(p, body)
  \/ Take \/ Finish
  \/ \E ports \in SUBSET Ports : Retire(ports)
  \/ Switch

(* The daemon hands frames over as long as there are any.                   *)
Spec == Init /\ [][Next]_vars /\ WF_vars(Take \/ Finish)
=============================================================================
