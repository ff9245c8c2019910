----------------------------- MODULE GlinkQueue -----------------------------
(***************************************************************************)
(* What one glink pipe promises its two ends: messages come out whole, in  *)
(* the order they went in, each once; a new registration starts it empty.  *)
(***************************************************************************)
EXTENDS Sequences

CONSTANT Msgs

VARIABLES q, out

Init == q = <<>> /\ out = <<>>

Send(m) == q' = Append(q, m) /\ UNCHANGED out
Receive == q # <<>> /\ out' = <<Head(q)>> /\ q' = Tail(q)
Reset == q' = <<>> /\ out' = <<>>

Next == Receive \/ Reset \/ \E m \in Msgs : Send(m)

Spec == Init /\ [][Next]_<<q, out>>
=============================================================================
