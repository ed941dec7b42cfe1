--------------------------- MODULE MCSourceTiming ---------------------------
(* The Announce bodies for checking SourceTiming.                          *)
EXTENDS SourceTiming

A(port, root, quality, steps) ==
  [port |-> port, root |-> root, quality |-> quality, steps |-> steps]

(* Our clock may be a grandmaster.  Port 1 leads to root 1 or to root 2,    *)
(* or turns worse than we are; port 2 leads to root 2.                      *)
MCOwn == A(9, 9, 1, 0)
MCAnnouncements == {A(1, 1, 0, 1), A(1, 2, 0, 1), A(1, 1, 2, 1), A(2, 2, 0, 2)}
MCPassive == {2}
=============================================================================
