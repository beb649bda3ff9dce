-------------------------------- MODULE Udp ---------------------------------
(***************************************************************************)
(* UDP forwarding of relay-rs/src/main.rs and sock.rs.  A client's first   *)
(* datagram makes an association: an upstream socket of its own in a slot, *)
(* and an entry of udp_map that leads from the client's address to it.     *)
(* Replies read from that socket go to the client; an association without  *)
(* traffic is dropped by the clean-up.                                     *)
(*                                                                         *)
(* Both kinds of socket are edge-triggered and never re-armed: a handler   *)
(* must empty the queue it is called for.                                  *)
(*                                                                         *)
(* Time is counted in periods of the clean-up (a little over a second).    *)
(* Datagrams have no content but the client they come from.                *)
(***************************************************************************)
EXTENDS Naturals, Sequences, FiniteSets

CONSTANTS
  None,        \* no slot, no association
  Clients,     \* client addresses (distinct keys of udp_map)
  MaxSlots,    \* bound: associations the descriptor limit allows at once
  Batch,       \* udp_batch_size
  Idle,        \* udp_idle_timeout
  MaxIn,       \* bound: datagrams that clients send
  MaxReplies   \* bound: datagrams that the remote sends

Slots == 0 .. MaxSlots - 1
\* `users` (history): the clients whose datagrams were sent by this socket.
Assocs == [cli : Clients, age : 0 .. Idle + 1, users : SUBSET Clients]

ASSUME UdpAssumption ==
  /\ MaxSlots \in Nat \ {0} /\ Batch \in Nat \ {0} /\ Idle \in Nat
  /\ MaxIn \in Nat /\ MaxReplies \in Nat
  /\ None \notin Slots /\ None \notin Assocs

VARIABLES
  udp_map, udp_slots, len, udp_free,   \* the tables; len = udp_slots.len()
  in_q, in_ready, in_failed,           \* listening socket; a recvmmsg on it failed
  rx, up_ready, up_failed,             \* the same for the upstream socket of a slot
  pc, todo_in, todo_up, buf, cur, i,   \* the loop: events of the batch, datagrams
                                       \* received and not handled, current slot, index
  due,                                 \* a clean-up is due at the end of the turn
  received, replies, delivered         \* datagrams in, replies, replies sent on

tables == <<udp_map, udp_slots, len, udp_free>>
inVars == <<in_q, in_ready, in_failed>>
upVars == <<rx, up_ready, up_failed>>
counts == <<received, replies, delivered>>
vars == <<udp_map, udp_slots, len, udp_free, in_q, in_ready, in_failed, rx, up_ready,
          up_failed, pc, todo_in, todo_up, buf, cur, i, due, received, replies, delivered>>

Least(a, b) == IF a <= b THEN a ELSE b
Used == {s \in Slots : udp_slots[s] # None}

TypeOK ==
  /\ udp_map \in [Clients -> Slots \cup {None}]
  /\ udp_slots \in [Slots -> Assocs \cup {None}]
  /\ len \in 0 .. MaxSlots /\ udp_free \in Seq(Slots)
  /\ in_q \in Seq(Clients) /\ in_ready \in BOOLEAN /\ in_failed \in BOOLEAN
  /\ rx \in [Slots -> Nat] /\ up_ready \subseteq Used /\ up_failed \subseteq Used
  /\ pc \in {"wait", "batch", "in", "reply", "clean"}
  /\ todo_in \in BOOLEAN /\ todo_up \subseteq Used /\ buf \in Seq(Clients)
  /\ cur \in Slots /\ i \in 0 .. MaxSlots /\ due \in BOOLEAN
  /\ received \in 0 .. MaxIn /\ replies \in 0 .. MaxReplies
  /\ delivered \in [Clients -> Nat]

Init ==
  /\ udp_map = [c \in Clients |-> None] /\ udp_slots = [s \in Slots |-> None]
  /\ len = 0 /\ udp_free = <<>>
  /\ in_q = <<>> /\ in_ready = FALSE /\ in_failed = FALSE
  /\ rx = [s \in Slots |-> 0] /\ up_ready = {} /\ up_failed = {}
  /\ pc = "wait" /\ todo_in = FALSE /\ todo_up = {} /\ buf = <<>>
  /\ cur = 0 /\ i = 0 /\ due = FALSE
  /\ received = 0 /\ replies = 0 /\ delivered = [c \in Clients |-> 0]

-----------------------------------------------------------------------------
(***************************************************************************)
(* The network.                                                            *)
(***************************************************************************)
ClientSends(c) ==
  /\ received < MaxIn /\ received' = received + 1
  /\ in_q' = Append(in_q, c) /\ in_ready' = TRUE /\ in_failed' = FALSE
  /\ UNCHANGED <<pc, todo_in, todo_up, buf, cur, i, due, replies, delivered>>
  /\ UNCHANGED tables /\ UNCHANGED upVars

\* The remote answers whoever it was asked by.
RemoteSends(s) ==
  /\ s \in Used /\ udp_slots[s].users # {}
  /\ replies < MaxReplies /\ replies' = replies + 1
  /\ rx' = [rx EXCEPT ![s] = @ + 1]
  /\ up_ready' = up_ready \cup {s} /\ up_failed' = up_failed \ {s}
  /\ UNCHANGED <<pc, todo_in, todo_up, buf, cur, i, due, received, delivered>>
  /\ UNCHANGED tables /\ UNCHANGED inVars

-----------------------------------------------------------------------------
(***************************************************************************)
(* The loop.                                                               *)
(***************************************************************************)
\* epoll_wait returns some of what is ready; a period may have passed.
Aged(a) == [a EXCEPT !.age = @ + 1]
EpollWait ==
  /\ pc = "wait" /\ pc' = "batch"
  /\ todo_in' = in_ready /\ in_ready' = FALSE
  /\ todo_up' \in SUBSET up_ready /\ up_ready' = up_ready \ todo_up'
  /\ due' \in BOOLEAN
  /\ udp_slots' = [s \in Slots |-> IF due' /\ udp_slots[s] # None
                                   THEN Aged(udp_slots[s]) ELSE udp_slots[s]]
  /\ UNCHANGED <<udp_map, len, udp_free, in_q, in_failed, rx, up_failed, buf, cur, i>>
  /\ UNCHANGED counts

\* TOKEN_UDP.
InEvent ==
  /\ pc = "batch" /\ todo_in
  /\ pc' = "in" /\ todo_in' = FALSE
  /\ UNCHANGED <<todo_up, buf, cur, i, due>>
  /\ UNCHANGED tables /\ UNCHANGED inVars /\ UNCHANGED upVars /\ UNCHANGED counts

\* udp_recvmmsg: up to a batch of what is queued.
RecvOnce ==
  /\ pc = "in" /\ buf = <<>> /\ in_q # <<>>
  /\ LET n == Least(Batch, Len(in_q))
     IN  buf' = SubSeq(in_q, 1, n) /\ in_q' = SubSeq(in_q, n + 1, Len(in_q))
  /\ pc' = "batch"
  /\ UNCHANGED <<in_ready, in_failed, todo_in, todo_up, cur, i, due>>
  /\ UNCHANGED tables /\ UNCHANGED upVars /\ UNCHANGED counts
Recv ==
  /\ pc = "in" /\ buf = <<>> /\ in_q # <<>>
  /\ LET n == Least(Batch, Len(in_q))
     IN  buf' = SubSeq(in_q, 1, n) /\ in_q' = SubSeq(in_q, n + 1, Len(in_q))
  /\ UNCHANGED <<in_ready, in_failed, pc, todo_in, todo_up, cur, i, due>>
  /\ UNCHANGED tables /\ UNCHANGED upVars /\ UNCHANGED counts

\* It returned 0: nothing is queued, or any error.
RecvNone ==
  /\ pc = "in" /\ buf = <<>>
  /\ pc' = "batch" /\ in_failed' = (in_q # <<>>)
  /\ UNCHANGED <<in_q, in_ready, todo_in, todo_up, buf, cur, i, due>>
  /\ UNCHANGED tables /\ UNCHANGED upVars /\ UNCHANGED counts

-----------------------------------------------------------------------------
(***************************************************************************)
(* One datagram, from the client at the head of buf.                       *)
(***************************************************************************)
Sender == Head(buf)
Taken ==
  /\ pc = "in" /\ buf # <<>> /\ buf' = Tail(buf)
  /\ UNCHANGED <<pc, todo_in, todo_up, cur, i, due>>
  /\ UNCHANGED inVars /\ UNCHANGED upVars /\ UNCHANGED counts

\* udp_map leads to a live association: it is active again, and its socket
\* sends the datagram if it can.
Known(c) == udp_map[c] # None /\ udp_slots[udp_map[c]] # None
SendKnown ==
  /\ Taken /\ Known(Sender)
  /\ \E sent \in {{}, {Sender}} :
       udp_slots' = [udp_slots EXCEPT ![udp_map[Sender]] =
                       [cli |-> @.cli, age |-> 0, users |-> @.users \cup sent]]
  /\ UNCHANGED <<udp_map, len, udp_free>>

\* create_udp_socket failed: the datagram is dropped.
NoSocket ==
  /\ Taken /\ ~Known(Sender)
  /\ UNCHANGED tables

CanAlloc == udp_free # <<>> \/ len < MaxSlots
NewSlot  == IF udp_free # <<>> THEN Head(udp_free) ELSE len
FreeLeft == IF udp_free # <<>> THEN Tail(udp_free) ELSE udp_free
NewLen   == IF udp_free # <<>> THEN len ELSE len + 1

\* The new socket is registered, and sends the datagram if it can: the results
\* of connect and send are not looked at.
NewAssoc ==
  /\ Taken /\ ~Known(Sender) /\ CanAlloc
  /\ \E sent \in {{}, {Sender}} :
       udp_slots' = [udp_slots EXCEPT ![NewSlot] = [cli |-> Sender, age |-> 0, users |-> sent]]
  /\ udp_map' = [udp_map EXCEPT ![Sender] = NewSlot]
  /\ udp_free' = FreeLeft /\ len' = NewLen

\* It cannot be registered: the slot goes back, the datagram is dropped.
NotRegisteredTwice ==
  /\ Taken /\ ~Known(Sender) /\ CanAlloc
  /\ udp_free' = Append(Append(FreeLeft, NewSlot), NewSlot) /\ len' = NewLen
  /\ UNCHANGED <<udp_map, udp_slots>>
NotRegistered ==
  /\ Taken /\ ~Known(Sender) /\ CanAlloc
  /\ udp_free' = Append(FreeLeft, NewSlot) /\ len' = NewLen
  /\ UNCHANGED <<udp_map, udp_slots>>

-----------------------------------------------------------------------------
(***************************************************************************)
(* Replies: an upstream socket is read until it is empty.                  *)
(***************************************************************************)
ReplyEvent ==
  /\ pc = "batch"
  /\ \E s \in todo_up : cur' = s /\ todo_up' = todo_up \ {s}
  /\ pc' = "reply"
  /\ UNCHANGED <<todo_in, buf, i, due>>
  /\ UNCHANGED tables /\ UNCHANGED inVars /\ UNCHANGED upVars /\ UNCHANGED counts

\* One round: a batch is read and sent to the client, as far as sendmmsg goes;
\* the rest of the batch is lost.
Reply ==
  /\ pc = "reply" /\ rx[cur] > 0
  /\ LET n == Least(Batch, rx[cur])
         c == udp_slots[cur].cli
     IN  \E sent \in 0 .. n :
           /\ rx' = [rx EXCEPT ![cur] = @ - n]
           /\ delivered' = [delivered EXCEPT ![c] = @ + sent]
           /\ udp_slots' = IF sent > 0 THEN [udp_slots EXCEPT ![cur].age = 0] ELSE udp_slots
  /\ UNCHANGED <<udp_map, len, udp_free, up_ready, up_failed, pc, todo_in, todo_up, buf,
                 cur, i, due, received, replies>>
  /\ UNCHANGED inVars

ReplyNone ==
  /\ pc = "reply"
  /\ pc' = "batch"
  /\ up_failed' = IF rx[cur] > 0 THEN up_failed \cup {cur} ELSE up_failed
  /\ UNCHANGED <<rx, up_ready, todo_in, todo_up, buf, cur, i, due>>
  /\ UNCHANGED tables /\ UNCHANGED inVars /\ UNCHANGED counts

-----------------------------------------------------------------------------
(***************************************************************************)
(* The clean-up looks through the slots in order.                          *)
(***************************************************************************)
BatchDone ==
  /\ pc = "batch" /\ ~todo_in /\ todo_up = {}
  /\ pc' = IF due THEN "clean" ELSE "wait"
  /\ i' = 0
  /\ UNCHANGED <<todo_in, todo_up, buf, cur, due>>
  /\ UNCHANGED tables /\ UNCHANGED inVars /\ UNCHANGED upVars /\ UNCHANGED counts

Expired(s) == udp_slots[s] # None /\ udp_slots[s].age > Idle

\* The socket leaves epoll and is closed with what it has received.
Drop(s) ==
  /\ udp_slots' = [udp_slots EXCEPT ![s] = None]
  /\ udp_free' = Append(udp_free, s)
  /\ rx' = [rx EXCEPT ![s] = 0]
  /\ up_ready' = up_ready \ {s} /\ up_failed' = up_failed \ {s}
ExpireStaleMap ==
  /\ pc = "clean" /\ i < len /\ Expired(i)
  /\ Drop(i) /\ i' = i + 1
  /\ UNCHANGED <<udp_map, len, pc, todo_in, todo_up, buf, cur, due>>
  /\ UNCHANGED inVars /\ UNCHANGED counts
Expire ==
  /\ pc = "clean" /\ i < len /\ Expired(i)
  /\ udp_map' = [udp_map EXCEPT ![udp_slots[i].cli] = None]
  /\ Drop(i) /\ i' = i + 1
  /\ UNCHANGED <<len, pc, todo_in, todo_up, buf, cur, due>>
  /\ UNCHANGED inVars /\ UNCHANGED counts
Keep ==
  /\ pc = "clean" /\ i < len /\ ~Expired(i)
  /\ i' = i + 1
  /\ UNCHANGED <<pc, todo_in, todo_up, buf, cur, due>>
  /\ UNCHANGED tables /\ UNCHANGED inVars /\ UNCHANGED upVars /\ UNCHANGED counts
CleanedEarly ==
  /\ pc = "clean" /\ i + 1 >= len
  /\ pc' = "wait" /\ due' = FALSE
  /\ UNCHANGED <<todo_in, todo_up, buf, cur, i>>
  /\ UNCHANGED tables /\ UNCHANGED inVars /\ UNCHANGED upVars /\ UNCHANGED counts
Cleaned ==
  /\ pc = "clean" /\ i = len
  /\ pc' = "wait" /\ due' = FALSE
  /\ UNCHANGED <<todo_in, todo_up, buf, cur, i>>
  /\ UNCHANGED tables /\ UNCHANGED inVars /\ UNCHANGED upVars /\ UNCHANGED counts

Datagram == SendKnown \/ NoSocket \/ NewAssoc \/ NotRegistered
Loop == EpollWait \/ InEvent \/ Recv \/ RecvNone \/ Datagram
        \/ ReplyEvent \/ Reply \/ ReplyNone \/ BatchDone \/ Expire \/ Keep \/ Cleaned
Network == (\E c \in Clients : ClientSends(c)) \/ (\E s \in Slots : RemoteSends(s))
Next == Loop \/ Network

Spec == Init /\ [][Next]_vars
\* The thread blocks only in epoll_wait, for 100 ms at most, and epoll returns a
\* ready socket in the end.
FairSpec ==
  /\ Spec /\ WF_vars(Loop)
  /\ \A s \in Slots : SF_vars(EpollWait /\ s \in todo_up')

-----------------------------------------------------------------------------
(***************************************************************************)
(* Safety.                                                                 *)
(***************************************************************************)
\* udp_map and the slots lead to each other, so a client has one association
\* and no entry leads to a slot that was dropped or given to another client;
\* the free list is exactly the set of empty slots, each once.
MapExact ==
  /\ \A c \in Clients : udp_map[c] # None =>
       udp_slots[udp_map[c]] # None /\ udp_slots[udp_map[c]].cli = c
  /\ \A s \in Slots : udp_slots[s] # None => udp_map[udp_slots[s].cli] = s
  /\ \A j, k \in DOMAIN udp_free : udp_free[j] = udp_free[k] => j = k
  /\ \A s \in Slots : (\E k \in DOMAIN udp_free : udp_free[k] = s)
                        <=> s < len /\ udp_slots[s] = None

\* Only the client an association belongs to has sent by its socket, so a reply
\* goes to the one who asked.
OneUserPerSocket == \A s \in Used : udp_slots[s].users \subseteq {udp_slots[s].cli}

\* No queue is forgotten: what waits in a socket has an event still to come or
\* is being read, unless a recvmmsg failed; then the next datagram brings it back.
QueuesAnnounced ==
  /\ in_q # <<>> => in_ready \/ todo_in \/ pc = "in" \/ in_failed
  /\ \A s \in Slots : rx[s] > 0 =>
       s \in up_ready \cup todo_up \cup up_failed \/ (pc = "reply" /\ cur = s)

\* Between two turns no association is older than udp_idle_timeout: the
\* clean-up misses none.
IdleBound == pc = "wait" => \A s \in Used : udp_slots[s].age <= Idle

\* The relay implements the abstract sessions: nothing is doubled or crossed.
Count(c, q) == Cardinality({k \in DOMAIN q : q[k] = c})
Open     == {c \in Clients : udp_map[c] # None}
Held     == [c \in Clients |-> Count(c, buf) + Count(c, in_q)]
Answers  == [c \in Clients |-> IF udp_map[c] # None THEN rx[udp_map[c]] ELSE 0]
Sessions == INSTANCE UdpNat WITH open <- Open, held <- Held, answers <- Answers
IsUdpNat == Sessions!Spec

(***************************************************************************)
(* Liveness.                                                               *)
(***************************************************************************)
\* What clients and remote send is read, even after a recvmmsg has failed, once
\* another datagram comes: only if none ever does may it wait for ever.
QueuesRead ==
  /\ in_q # <<>> ~> (in_q = <<>> \/ []in_failed)
  /\ \A s \in Slots : rx[s] > 0 ~> (rx[s] = 0 \/ [](s \in up_failed))
=============================================================================
