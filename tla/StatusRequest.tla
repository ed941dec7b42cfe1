--------------------------- MODULE StatusRequest ---------------------------
(***************************************************************************)
(* ptpd_status: an application thread leaves a request in the daemon's     *)
(* single slot and waits for its semaphore for at most a second; the       *)
(* daemon answers the request it finds in the slot at the end of each      *)
(* pass.  Nothing wakes the daemon for a request: it comes round within    *)
(* its poll() cap of half a second, so a caller that gives up has waited   *)
(* through a whole pass.                                                   *)
(***************************************************************************)
EXTENDS Naturals

CONSTANTS
  Callers,   \* application threads that ask for the status
  NoCaller   \* the NULL pointers of an empty slot

VARIABLES
  slot,      \* status_req: whose semaphore and whose buffer
  posted,    \* callers whose semaphore the daemon has posted
  filled,    \* callers whose buffer the daemon has filled in this call
  caller,    \* what each caller is doing
  passes,    \* passes the daemon completed since the caller began to wait
  daemon     \* the caller whose buffer is being filled, or NoCaller

vars == <<slot, posted, filled, caller, passes, daemon>>

Empty == [done |-> NoCaller, dest |-> NoCaller]

(* A pass that began after the request, and the one it may have missed.     *)
WholePass == 2

Init ==
  /\ slot = Empty
  /\ posted = {}
  /\ filled = {}
  /\ caller = [c \in Callers |-> "idle"]
  /\ passes = [c \in Callers |-> 0]
  /\ daemon = NoCaller

(* The buffer is zeroed and the request takes the slot, occupied or not.    *)
ptpd_status(c) ==
  /\ caller[c] # "waiting"
  /\ filled' = filled \ {c}
  /\ posted' = posted \ {c}
  /\ slot' = [done |-> c, dest |-> c]
  /\ caller' = [caller EXCEPT ![c] = "waiting"]
  /\ passes' = [passes EXCEPT ![c] = 0]
  /\ UNCHANGED daemon

(* sem_timedwait returns because the daemon posted.                         *)
Answered(c) ==
  /\ caller[c] = "waiting" /\ c \in posted
  /\ caller' = [caller EXCEPT ![c] = "ok"]
  /\ UNCHANGED <<slot, posted, filled, passes, daemon>>

(* The second is over: the slot is cleared, whoever's request it holds.     *)
TimedOut(c) ==
  /\ caller[c] = "waiting" /\ c \notin posted
  /\ passes[c] >= WholePass
  /\ slot' = Empty
  /\ caller' = [caller EXCEPT ![c] = "timeout"]
  /\ UNCHANGED <<posted, filled, passes, daemon>>

Counted(p) ==
  [c \in Callers |-> IF caller[c] = "waiting" /\ p[c] < WholePass THEN p[c] + 1 ELSE p[c]]

(* A pass that finds no request.                                            *)
PassEmpty ==
  /\ daemon = NoCaller /\ slot.dest = NoCaller
  /\ passes' = Counted(passes)
  /\ UNCHANGED <<slot, posted, filled, caller, daemon>>

(* ptp_process_statusreq: the buffer is read from the slot and filled...    *)
FillStatus ==
  /\ daemon = NoCaller /\ slot.dest # NoCaller
  /\ daemon' = slot.dest
  /\ filled' = filled \cup {slot.dest}
  /\ UNCHANGED <<slot, posted, caller, passes>>

(* ... then whoever's semaphore is in the slot by now is posted.            *)
PostStatus ==
  /\ daemon # NoCaller
  /\ posted' = posted \cup ({slot.done} \ {NoCaller})
  /\ slot' = Empty
  /\ daemon' = NoCaller
  /\ passes' = Counted(passes)
  /\ UNCHANGED <<filled, caller>>

Next ==
  \/ \E c \in Callers : ptpd_status(c) \/ Answered(c) \/ TimedOut(c)
  \/ PassEmpty \/ FillStatus \/ PostStatus

Spec == Init /\ [][Next]_vars

-----------------------------------------------------------------------------
(* Threads can request the status simultaneously: no caller waits through a *)
(* whole pass of the daemon and still times out (ptpd_status).              *)
SimultaneousRequestsAnswered == \A c \in Callers : caller[c] # "timeout"
=============================================================================
