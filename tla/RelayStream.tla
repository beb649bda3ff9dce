---------------------------- MODULE RelayStream ----------------------------
(***************************************************************************)
(* What a relayed connection promises, with no sockets, pipes or events:   *)
(* two FIFO byte streams, each delivered in order, without loss or         *)
(* duplication, and ended towards the receiver only after the sender ended *)
(* it and everything was delivered.  The connection may be aborted at any  *)
(* time; it is reported cleanly closed only when both streams ended.       *)
(***************************************************************************)
EXTENDS Naturals

CONSTANT Dir

VARIABLES
  sent,       \* bytes the sender wrote, per direction
  fin,        \* the sender ended the stream
  delivered,  \* bytes handed to the receiver's socket
  ended,      \* the end of the stream was passed on
  life

streams == <<sent, fin, delivered, ended, life>>

Init ==
  /\ sent = [d \in Dir |-> 0] /\ delivered = [d \in Dir |-> 0]
  /\ fin = [d \in Dir |-> FALSE] /\ ended = [d \in Dir |-> FALSE]
  /\ life = "open"

Send(d) ==
  /\ ~fin[d]
  /\ sent' = [sent EXCEPT ![d] = @ + 1]
  /\ UNCHANGED <<fin, delivered, ended, life>>

Close(d) ==
  /\ ~fin[d]
  /\ fin' = [fin EXCEPT ![d] = TRUE]
  /\ UNCHANGED <<sent, delivered, ended, life>>

Deliver(d) ==
  /\ ~ended[d]
  /\ \E n \in 1 .. (sent[d] - delivered[d]) :
       delivered' = [delivered EXCEPT ![d] = @ + n]
  /\ UNCHANGED <<sent, fin, ended, life>>

End(d) ==
  /\ fin[d] /\ delivered[d] = sent[d]
  /\ ended' = [ended EXCEPT ![d] = TRUE]
  /\ UNCHANGED <<sent, fin, delivered, life>>

Finish ==
  /\ \A d \in Dir : ended[d]
  /\ life' = "clean"
  /\ UNCHANGED <<sent, fin, delivered, ended>>

Abort ==
  /\ life' \in {"error", "timeout"}
  /\ UNCHANGED <<sent, fin, delivered, ended>>

Next ==
  /\ life = "open"
  /\ \/ \E d \in Dir : Send(d) \/ Close(d) \/ Deliver(d) \/ End(d)
     \/ Finish \/ Abort

Spec == Init /\ [][Next]_streams
=============================================================================
