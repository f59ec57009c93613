---------------------------- MODULE FrameChannel ----------------------------
(***************************************************************************)
(* What the render frame queue promises: frames are numbered in the order   *)
(* in which they are sent, at most Capacity of them are under way, and they *)
(* arrive one at a time, in that order, none lost, repeated or torn.        *)
(***************************************************************************)
EXTENDS Integers, Sequences

CONSTANT Capacity

VARIABLES sent,      \* how many frames have been sent
          released,  \* how many the receiver is done with
          received   \* the frames seen by the receiver, in order

vars == <<sent, released, received>>

Init ==
  /\ sent = 0
  /\ released = 0
  /\ received = <<>>

Send ==
  /\ sent - released < Capacity
  /\ sent' = sent + 1
  /\ UNCHANGED <<released, received>>

Receive ==
  /\ Len(received) < sent
  /\ Len(received) = released
  /\ received' = Append(received, Len(received) + 1)
  /\ UNCHANGED <<sent, released>>

Release ==
  /\ released < Len(received)
  /\ released' = released + 1
  /\ UNCHANGED <<sent, received>>

Next == Send \/ Receive \/ Release

Spec == Init /\ [][Next]_vars
=============================================================================
