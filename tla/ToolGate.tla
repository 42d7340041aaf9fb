-------------------------------- MODULE ToolGate --------------------------------
(***************************************************************************)
(* What the proxy promises about the tool calls of one response, with      *)
(* nothing of events, buffers, verdicts or channels.  A call is held from  *)
(* its first frame until the client is given it or a stub in its place;    *)
(* that is settled once, and before the next call begins.  A blocked call  *)
(* is never given, and unless the gate is blocking no other call is        *)
(* replaced.  To a client that leaves nothing more is promised.            *)
(***************************************************************************)
EXTENDS Naturals

CONSTANTS
  N,        \* calls of the response, in the order of their numbers
  Blocked,  \* the calls that must not be given
  Blocking  \* whether other calls may be replaced

VARIABLE fate

Init == fate = [c \in 1 .. N |-> "none"]

Settled(c) == fate[c] \in {"passed", "replaced"}

Begin(c) ==
  /\ fate[c] = "none" /\ \A d \in 1 .. c - 1 : Settled(d)
  /\ fate' = [fate EXCEPT ![c] = "held"]

Pass(c) ==
  /\ fate[c] = "held" /\ c \notin Blocked
  /\ fate' = [fate EXCEPT ![c] = "passed"]

Replace(c) ==
  /\ fate[c] = "held" /\ (Blocking \/ c \in Blocked)
  /\ fate' = [fate EXCEPT ![c] = "replaced"]

Leave == fate' = [c \in 1 .. N |-> "gone"]

Next == (\E c \in 1 .. N : Begin(c) \/ Pass(c) \/ Replace(c)) \/ Leave

Spec == Init /\ [][Next]_fate
===============================================================================
