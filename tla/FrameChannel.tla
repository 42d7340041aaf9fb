------------------------------ MODULE FrameChannel ------------------------------
(***************************************************************************)
(* What one direction of the relay promises, with nothing of adapters,     *)
(* events, inspector or sockets: a channel that takes a frame only when it *)
(* has none in hand, and passes it on unchanged, to a receiver that is     *)
(* still there, or withholds it, which it may do to some frames only, or   *)
(* when the receiver is gone.                                              *)
(***************************************************************************)
EXTENDS Naturals, Sequences

CONSTANT Frames

VARIABLES
  withheld,  \* frames the channel may withhold, fixed from the start
  sent,      \* frames taken from the sender
  hand,      \* the one that is not yet passed on
  received,  \* frames the receiver was given
  up         \* the receiver is there

channelVars == <<withheld, sent, hand, received, up>>

Init ==
  /\ withheld \subseteq Frames
  /\ sent = <<>> /\ hand = <<>> /\ received = <<>> /\ up = TRUE

\* A frame is taken, and may be withheld there and then.
Take ==
  /\ hand = <<>>
  /\ \E f \in Frames :
       /\ sent' = Append(sent, f)
       /\ \/ hand' = <<f>>
          \/ f \in withheld /\ hand' = <<>>
  /\ UNCHANGED <<withheld, received, up>>

Pass ==
  /\ hand # <<>> /\ up
  /\ received' = received \o hand /\ hand' = <<>>
  /\ UNCHANGED <<withheld, sent, up>>

Withhold ==
  /\ hand # <<>> /\ (~up \/ hand[1] \in withheld)
  /\ hand' = <<>>
  /\ UNCHANGED <<withheld, sent, received, up>>

Lose ==
  /\ up /\ up' = FALSE
  /\ UNCHANGED <<withheld, sent, hand, received>>

Next == Take \/ Pass \/ Withhold \/ Lose

Spec == Init /\ [][Next]_channelVars
===============================================================================
