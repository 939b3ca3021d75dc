-------------------------------- MODULE Link --------------------------------
(***************************************************************************)
(* What a faulted link promises, whatever the threads of the endpoint do:  *)
(* a packet is decided once, the decision fixes how many copies of it are  *)
(* owed, and each owed copy leaves exactly once.  A copy may be lost only  *)
(* at a bandwidth limit, or on a wire that has been closed.                *)
(***************************************************************************)
EXTENDS Integers

CONSTANTS
    Packets,     \* the packets that cross the link
    Undecided    \* marks a packet no rule has decided yet

VARIABLES
    asked,       \* asked[p]: copies the decision on p asked for, or Undecided
    owed,        \* owed[p]: copies accepted that have not left yet
    out,         \* out[p]: copies that left on the wire
    shaped,      \* a bandwidth limit has been configured
    closed       \* the wire is closed

vars == <<asked, owed, out, shaped, closed>>

Init ==
    /\ asked = [p \in Packets |-> Undecided]
    /\ owed = [p \in Packets |-> 0]
    /\ out = [p \in Packets |-> 0]
    /\ shaped = FALSE
    /\ closed = FALSE

Decide(p) ==
    /\ asked[p] = Undecided
    /\ asked'[p] \in Nat
    /\ asked' = [asked EXCEPT ![p] = asked'[p]]
    /\ owed' = [owed EXCEPT ![p] = asked'[p]]
    /\ UNCHANGED <<out, shaped, closed>>

\* Copies leave, alone or as a batch; on a closed wire they may be lost.
Leave ==
    /\ UNCHANGED <<asked, shaped, closed>>
    /\ owed' \in [Packets -> Nat] /\ out' \in [Packets -> Nat]
    /\ \A p \in Packets :
          LET gone == owed[p] - owed'[p]
              seen == out'[p] - out[p]
          IN  0 <= seen /\ seen <= gone /\ (closed \/ seen = gone)

TailDrop(p) ==
    /\ shaped
    /\ owed[p] > 0
    /\ owed' = [owed EXCEPT ![p] = @ - 1]
    /\ UNCHANGED <<asked, out, shaped, closed>>

Shape ==
    /\ shaped' = TRUE
    /\ UNCHANGED <<asked, owed, out, closed>>

CloseWire ==
    /\ closed' = TRUE
    /\ UNCHANGED <<asked, owed, out, shaped>>

Next ==
    \/ Leave
    \/ \E p \in Packets : Decide(p) \/ TailDrop(p)
    \/ Shape
    \/ CloseWire

Spec == Init /\ [][Next]_vars

-----------------------------------------------------------------------------
\* A packet leaves at most as often as its decision asked for, not at all before
\* it, and every copy is accounted for unless the link was limited or closed.
Conserved ==
    \A p \in Packets :
        IF asked[p] = Undecided THEN owed[p] = 0 /\ out[p] = 0
        ELSE /\ out[p] + owed[p] <= asked[p]
             /\ ~shaped /\ ~closed => out[p] + owed[p] = asked[p]
=============================================================================
