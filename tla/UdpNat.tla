------------------------------- MODULE UdpNat -------------------------------
(***************************************************************************)
(* What UDP forwarding promises: every client has at most one session, its *)
(* datagrams go out by that session, and what comes back by it goes to     *)
(* that client and no other.  Datagrams may be lost, never doubled or      *)
(* crossed.  No slots, maps, descriptors or epoll here.                    *)
(***************************************************************************)
EXTENDS Naturals

CONSTANT Clients

VARIABLES
  open,      \* clients with a session
  held,      \* datagrams of each client that wait to be forwarded
  answers,   \* replies that wait in its session
  delivered  \* replies each client has been sent

vars == <<open, held, answers, delivered>>

Init ==
  /\ open = {}
  /\ held = [c \in Clients |-> 0]
  /\ answers = [c \in Clients |-> 0]
  /\ delivered = [c \in Clients |-> 0]

Receive(c) ==
  /\ held' = [held EXCEPT ![c] = @ + 1]
  /\ UNCHANGED <<open, answers, delivered>>

\* The datagram goes out by the client's session, opened if there was none, or
\* is lost.
Forward(c) ==
  /\ held[c] > 0
  /\ held' = [held EXCEPT ![c] = @ - 1]
  /\ open' \in {open, open \cup {c}}
  /\ UNCHANGED <<answers, delivered>>

Answer(c) ==
  /\ c \in open
  /\ answers' = [answers EXCEPT ![c] = @ + 1]
  /\ UNCHANGED <<open, held, delivered>>

\* n replies leave the session, and some of them reach the client.
Deliver(c) ==
  /\ c \in open
  /\ \E n \in 1 .. answers[c] : \E sent \in 0 .. n :
       /\ answers' = [answers EXCEPT ![c] = @ - n]
       /\ delivered' = [delivered EXCEPT ![c] = @ + sent]
  /\ UNCHANGED <<open, held>>

\* An idle session ends, with the replies not yet read.
Close(c) ==
  /\ c \in open
  /\ open' = open \ {c}
  /\ answers' = [answers EXCEPT ![c] = 0]
  /\ UNCHANGED <<held, delivered>>

Next == \E c \in Clients : Receive(c) \/ Forward(c) \/ Answer(c) \/ Deliver(c) \/ Close(c)
Spec == Init /\ [][Next]_vars
=============================================================================
