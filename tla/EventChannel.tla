---------------------------- MODULE EventChannel ----------------------------
(***************************************************************************)
(* What the event queue promises: a bounded first-in first-out channel     *)
(* from several senders to one receiver, that loses, repeats and reorders  *)
(* nothing until it is closed.                                             *)
(***************************************************************************)
EXTENDS Naturals, Sequences

CONSTANTS
  Senders,
  Capacity,            \* how many events the channel holds
  Burst                \* bound: how many events a sender sends

VARIABLES
  sent,                \* the events sent so far, in the order they were accepted
  accepted,            \* how many events of each sender were accepted
  received,            \* the events received so far, in order
  closed

vars == <<sent, accepted, received, closed>>

Init ==
  /\ sent = <<>>
  /\ accepted = [p \in Senders |-> 0]
  /\ received = <<>>
  /\ closed = FALSE

\* A sender's events are accepted in the order it sends them.
Send(p) ==
  /\ ~closed
  /\ Len(sent) - Len(received) < Capacity
  /\ accepted[p] < Burst
  /\ accepted' = [accepted EXCEPT ![p] = @ + 1]
  /\ sent' = Append(sent, <<p, accepted[p] + 1>>)
  /\ UNCHANGED <<received, closed>>

Receive ==
  /\ Len(received) < Len(sent)
  /\ received' = Append(received, sent[Len(received) + 1])
  /\ UNCHANGED <<sent, accepted, closed>>

Close ==
  /\ closed' = TRUE
  /\ UNCHANGED <<sent, accepted, received>>

Next ==
  \/ \E p \in Senders : Send(p)
  \/ Receive
  \/ Close

Spec == Init /\ [][Next]_vars

=============================================================================
