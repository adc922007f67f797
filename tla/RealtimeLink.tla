---------------------------- MODULE RealtimeLink ----------------------------
(***************************************************************************)
(* What the web client expects of its realtime subscriptions               *)
(* (landing/lib/api/messagesEvents.ts): a link comes up and goes down any  *)
(* number of times, and a link that is over stays over.                    *)
(***************************************************************************)
CONSTANT Subs

VARIABLE link

Init == link = [s \in Subs |-> "down"]

\* onOpen
Up(s) == link[s] = "down" /\ link' = [link EXCEPT ![s] = "up"]

\* onClose, with a reconnect to follow
Down(s) == link[s] = "up" /\ link' = [link EXCEPT ![s] = "down"]

\* The subscriber leaves, or the subscription gives up.
Over(s) == link[s] # "over" /\ link' = [link EXCEPT ![s] = "over"]

Next == \E s \in Subs : Up(s) \/ Down(s) \/ Over(s)

Spec == Init /\ [][Next]_link

=============================================================================
