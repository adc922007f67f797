-------------------------- MODULE MCMessagesSocket --------------------------
(* Instances of MessagesSocket for TLC. *)
EXTENDS MessagesSocket

\* Three accounts; the first one signs in again at the fourth sign-in.
MCFid == [g \in 1..MaxGen |-> g % 3]
=============================================================================
