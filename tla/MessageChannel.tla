--------------------------- MODULE MessageChannel ---------------------------
(***************************************************************************)
(* What network_send_message and network_receive_message promise together  *)
(* (include/inet-private.h): messages arrive whole, once and in order, as  *)
(* long as the connection lasts; what was under way when it ends is lost.  *)
(***************************************************************************)
EXTENDS Sequences

CONSTANT Payloads

VARIABLES
  pipe,  \* the messages sent and not yet received
  got,   \* those received
  open   \* the connection has not ended for the receiver

vars == <<pipe, got, open>>

Init == pipe = <<>> /\ got = <<>> /\ open = TRUE

Put == /\ \E m \in Payloads : pipe' = Append(pipe, m)
       /\ UNCHANGED <<got, open>>

Get == /\ open /\ pipe # <<>>
       /\ got' = Append(got, Head(pipe)) /\ pipe' = Tail(pipe)
       /\ UNCHANGED open

End == open /\ open' = FALSE /\ UNCHANGED <<pipe, got>>

Next == Put \/ Get \/ End

Spec == Init /\ [][Next]_vars
=============================================================================
