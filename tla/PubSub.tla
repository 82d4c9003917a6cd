------------------------------- MODULE PubSub -------------------------------
(***************************************************************************)
(* What the broker promises to its clients: a packet that is published     *)
(* reaches exactly the clients subscribed to its id at that moment, once,  *)
(* in the order of publication, except those whose queue has no room.      *)
(***************************************************************************)
EXTENDS Sequences

CONSTANTS Clients, Ids, Packets,
          Fits(_, _) \* whether a queue has room for a packet

VARIABLES subs,      \* the ids a client is subscribed to
          inbox      \* packets on their way to a client

Init == /\ subs = [c \in Clients |-> {}]
        /\ inbox = [c \in Clients |-> <<>>]

Subscribe(c, id) ==
  /\ subs' = [subs EXCEPT ![c] = @ \cup {id}]
  /\ UNCHANGED inbox

Unsubscribe(c, id) ==
  /\ subs' = [subs EXCEPT ![c] = @ \ {id}]
  /\ UNCHANGED inbox

Publish(p) ==
  /\ inbox' = [c \in Clients |-> IF p.id \in subs[c] /\ Fits(inbox[c], p)
                                 THEN Append(inbox[c], p) ELSE inbox[c]]
  /\ UNCHANGED subs

Deliver(c) ==
  /\ inbox[c] # <<>>
  /\ inbox' = [inbox EXCEPT ![c] = Tail(@)]
  /\ UNCHANGED subs

Leave(c) ==
  /\ subs' = [subs EXCEPT ![c] = {}]
  /\ inbox' = [inbox EXCEPT ![c] = <<>>]

Next == \/ \E p \in Packets : Publish(p)
        \/ \E c \in Clients : \/ Deliver(c) \/ Leave(c)
                              \/ \E id \in Ids : Subscribe(c, id) \/ Unsubscribe(c, id)

Spec == Init /\ [][Next]_<<subs, inbox>>
=============================================================================
