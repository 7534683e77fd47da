------------------------------- MODULE Mailbox -------------------------------
(***************************************************************************)
(* What the inboxes of actors promise: an open box takes messages in,      *)
(* hands them out in the order they came in, each once, and closes only    *)
(* when it is empty; a closed box takes nothing in.                        *)
(***************************************************************************)
EXTENDS Sequences

CONSTANTS Boxes, Messages

VARIABLES box, open

BoxInit ==
    /\ box = [b \in Boxes |-> <<>>]
    /\ open = [b \in Boxes |-> FALSE]

Deliver(b) ==
    /\ open[b]
    /\ \E m \in Messages : box' = [box EXCEPT ![b] = Append(@, m)]
    /\ UNCHANGED open

Receive(b) ==
    /\ box[b] # <<>>
    /\ box' = [box EXCEPT ![b] = Tail(@)]
    /\ UNCHANGED open

Switch(b) ==
    /\ box[b] = <<>>
    /\ open' = [open EXCEPT ![b] = ~@]
    /\ UNCHANGED box

BoxNext == \E b \in Boxes : Deliver(b) \/ Receive(b) \/ Switch(b)

BoxSpec == BoxInit /\ [][BoxNext]_<<box, open>>
=============================================================================
