----------------------------- MODULE PompChannel -----------------------------
(***************************************************************************)
(* What a pomp stream connection promises its two ends (spec sections 1  *)
(* and 6): the messages one end sends reach the other end whole, in the   *)
(* order sent, none lost, none duplicated, none made up, and every one    *)
(* of them eventually.  The receiving end may take several at once, as    *)
(* one received chunk can close several frames.                           *)
(***************************************************************************)
EXTENDS Naturals, Sequences

CONSTANT Msgs     \* the messages an end may send

VARIABLES
    sent,         \* the messages sent, in order
    delivered     \* the messages handed to the receiving end, in order

vars == <<sent, delivered>>

Init == sent = <<>> /\ delivered = <<>>

Send(m) ==
    /\ sent' = Append(sent, m)
    /\ UNCHANGED delivered

\* The next k messages not yet delivered are handed over.
Receive(k) ==
    /\ k \in 1..(Len(sent) - Len(delivered))
    /\ delivered' = SubSeq(sent, 1, Len(delivered) + k)
    /\ UNCHANGED sent

Next == (\E m \in Msgs : Send(m)) \/ (\E k \in 1..Len(sent) : Receive(k))

Spec == Init /\ [][Next]_vars /\ WF_vars(\E k \in 1..Len(sent) : Receive(k))
=============================================================================
