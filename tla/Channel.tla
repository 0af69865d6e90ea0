------------------------------- MODULE Channel -------------------------------
(***************************************************************************)
(* What two parts of the program promise whoever reads them: everything     *)
(* that was sent, whole, once and in the order it was sent.  The frames of  *)
(* a peer (peer/protocol.py, PeerStream) are handed over one by one, the    *)
(* engine's events (ui/bridge.py, EventFeed) in batches.                    *)
(***************************************************************************)
EXTENDS Naturals, Sequences

CONSTANT Batches  \* whether more than one is handed over at once

VARIABLES
  sent,     \* what was sent
  received  \* what was handed over

ChannelInit == sent = <<>> /\ received = <<>>

Send ==
  /\ Len(sent') = Len(sent) + 1 /\ SubSeq(sent', 1, Len(sent)) = sent
  /\ UNCHANGED received

Receive ==
  /\ \E n \in Len(received) + 1 .. Len(sent) :
       /\ Batches \/ n = Len(received) + 1
       /\ received' = SubSeq(sent, 1, n)
  /\ UNCHANGED sent

ChannelSpec == ChannelInit /\ [][Send \/ Receive]_<<sent, received>>
=============================================================================
