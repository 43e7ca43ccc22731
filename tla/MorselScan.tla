----------------------------- MODULE MorselScan -----------------------------
(***************************************************************************)
(* What a parallel scan promises its caller: between a call and its return *)
(* every tuple of every morsel is delivered to the result set once.  How   *)
(* the morsels are shared out is left open, and so is the way each one is  *)
(* executed, interpreted or compiled.  Of two tuples delivered at the same *)
(* time, one each way, one is lost, and later tuples may then be, too.     *)
(***************************************************************************)
EXTENDS Naturals

CONSTANTS Morsel, Size

VARIABLES
  phase,  \* "idle", "running" or "crashed"
  got,    \* tuples of each morsel delivered by the current or last call
  lost,   \* tuples of each morsel it lost
  used    \* the ways it has executed morsels

vars == <<phase, got, lost, used>>
None == [m \in Morsel |-> 0]
Both == {"interpreted", "compiled"}

Init == phase = "idle" /\ got = None /\ lost = None /\ used = {}

Call ==
  /\ phase = "idle"
  /\ phase' = "running"
  /\ got' = None /\ lost' = None /\ used' = {}

Execute(way) ==
  /\ phase = "running"
  /\ used' = used \cup {way}
  /\ UNCHANGED <<phase, got, lost>>

Left(m) == got[m] + lost[m] < Size[m]

Deliver(m) ==
  /\ phase = "running" /\ Left(m)
  /\ got' = [got EXCEPT ![m] = @ + 1]
  /\ UNCHANGED <<phase, lost, used>>

\* Tuples of m and of k, executed in different ways, arrive together.
Collide(m, k) ==
  /\ phase = "running" /\ m # k /\ Left(m) /\ Left(k)
  /\ used = Both
  /\ got' = [got EXCEPT ![m] = @ + 1]
  /\ lost' = [lost EXCEPT ![k] = @ + 1]
  /\ UNCHANGED <<phase, used>>

Lose(m) ==
  /\ phase = "running" /\ Left(m)
  /\ \E k \in Morsel : lost[k] > 0
  /\ lost' = [lost EXCEPT ![m] = @ + 1]
  /\ UNCHANGED <<phase, got, used>>

Return ==
  /\ phase = "running"
  /\ \A m \in Morsel : got[m] + lost[m] = Size[m]
  /\ phase' = "idle"
  /\ UNCHANGED <<got, lost, used>>

Crash ==
  /\ phase # "crashed"
  /\ phase' = "crashed"
  /\ used' \in SUBSET Both
  /\ UNCHANGED <<got, lost>>

Progress ==
  \/ \E m \in Morsel : Deliver(m) \/ Lose(m)
  \/ \E m, k \in Morsel : Collide(m, k)
  \/ Return

Next == Call \/ (\E way \in Both : Execute(way)) \/ Progress \/ Crash

Safety == Init /\ [][Next]_vars
Spec == Safety /\ WF_vars(Progress)
=============================================================================
