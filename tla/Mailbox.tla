------------------------------- MODULE Mailbox -------------------------------
(***************************************************************************)
(* What the command snapshot between the computational loop and the io      *)
(* writer of a split tracking session promises for one kind of command: the *)
(* drives execute ever newer commands. They may skip a command that a newer *)
(* one has superseded; they never return to an older one, and never execute *)
(* one that has not been published.                                         *)
(***************************************************************************)
EXTENDS Naturals

VARIABLES
  latest,    \* the sequence number of the newest command published
  executed   \* the sequence number of the newest command the drives were given

Init == latest = 0 /\ executed = 0

Publish ==
  /\ latest' \in Nat
  /\ latest' > latest
  /\ UNCHANGED executed

Execute ==
  /\ executed' \in executed + 1 .. latest
  /\ UNCHANGED latest

Next == Publish \/ Execute

Spec == Init /\ [][Next]_<<latest, executed>>
=============================================================================
