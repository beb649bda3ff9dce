----------------------------- MODULE EventLoop ------------------------------
(***************************************************************************)
(* The event loop of relay-rs/src/main.rs around its connections: epoll    *)
(* tokens, the slab that owns the connections, the accept loop with its    *)
(* partial failures, the 1 Hz clean-up and the shutdown check.             *)
(*                                                                         *)
(* epoll_wait returns a batch of tokens.  While it is worked off,          *)
(* connections are freed and their slots given to new ones, so that a      *)
(* token may be older than the connection its slot holds now.              *)
(*                                                                         *)
(* What a connection does with an event is TcpConn's; here it is kept or   *)
(* freed.  A connection is identified by (epoch, gen): epoch is a history  *)
(* variable that counts how often slab_gen has wrapped.                    *)
(***************************************************************************)
EXTENDS Naturals, Sequences

CONSTANTS
  None,        \* an empty slot
  GenMod,      \* values of slab_gen (2^16 in the code)
  IdxSpan,     \* slab indexes a token can hold (2^47)
  UDP_BASE,    \* first token of a UDP association (2^26)
  MaxSlots,    \* bound: connections the descriptor limit allows at once
  MaxUdp,      \* bound: UDP slots
  MaxBatch,    \* tokens returned by one epoll_wait (2048)
  MaxArrivals  \* bound: clients that ever connect

Conns == [epoch : Nat, gen : 0 .. GenMod - 1]

ASSUME LoopAssumption ==
  /\ GenMod \in Nat \ {0, 1} /\ IdxSpan \in Nat \ {0} /\ UDP_BASE \in Nat
  /\ MaxSlots \in Nat \ {0} /\ MaxSlots < IdxSpan /\ 2 * MaxSlots <= UDP_BASE
  /\ MaxUdp \in Nat /\ UDP_BASE + MaxUdp <= 2 * IdxSpan
  /\ MaxBatch \in Nat \ {0} /\ MaxArrivals \in Nat
  /\ None \notin Conns

VARIABLES
  conns, len, free,       \* conns (Vec<Option<Conn>>), its length, free_slots
  slab_gen, epoch,        \* generation of the next connection
  udp_len,                \* udp_slots.len()
  pc, batch, i,           \* the loop: position, events left, index of the clean-up
  arrived, accepted,      \* clients that have connected; those accept4 returned
  acc_ready,              \* the listener is on epoll's ready list
  acc_failed,             \* history: accept4 failed, and no client came since
  shutdown                \* SHUTDOWN

slabVars   == <<conns, len, free, slab_gen, epoch>>
acceptVars == <<arrived, accepted, acc_ready, acc_failed>>
vars == <<conns, len, free, slab_gen, epoch, udp_len, pc, batch, i,
          arrived, accepted, acc_ready, acc_failed, shutdown>>

Slots   == 0 .. MaxSlots - 1
Used    == {s \in Slots : conns[s] # None}
Backlog == arrived - accepted

-----------------------------------------------------------------------------
(***************************************************************************)
(* Tokens: generation, slab index, side, from the highest bits down.       *)
(***************************************************************************)
TOKEN_ACCEPT == 2 * (GenMod * IdxSpan) - 1
TOKEN_UDP    == TOKEN_ACCEPT - 1

encode_token_narrow(g, s, side) == 2 * (g * (IdxSpan \div 2) + s) + side
encode_token(g, s, side) == 2 * (g * IdxSpan + s) + side
decode_token(t) ==
  [gen |-> (t \div 2) \div IdxSpan, idx |-> (t \div 2) % IdxSpan, side |-> t % 2]

\* Which branch of the loop's body takes a token.
Branch(t) ==
  CASE t = TOKEN_ACCEPT -> "accept"
    [] t = TOKEN_UDP    -> "udp"
    [] t \notin {TOKEN_ACCEPT, TOKEN_UDP} /\ t >= UDP_BASE /\ t < UDP_BASE + udp_len -> "assoc"
    [] OTHER -> "tcp"

\* The connection a token of the "tcp" branch finds.
TargetAnyGen(t) ==
  LET d == decode_token(t)
  IN  IF d.idx < len THEN conns[d.idx] ELSE None
Target(t) ==
  LET d == decode_token(t)
  IN  IF d.idx < len /\ conns[d.idx] # None /\ conns[d.idx].gen = d.gen
      THEN conns[d.idx] ELSE None

\* What epoll may report: `owner` is the connection registered under the token.
Event == [token : Nat, kind : {"accept", "udp", "assoc", "tcp"}, owner : Conns \cup {None}]
ListenEvent == [token |-> TOKEN_ACCEPT, kind |-> "accept", owner |-> None]
SocketEvents ==
  {[token |-> TOKEN_UDP, kind |-> "udp", owner |-> None]}
  \cup {[token |-> UDP_BASE + u, kind |-> "assoc", owner |-> None] : u \in 0 .. udp_len - 1}
  \cup {[token |-> encode_token(conns[s].gen, s, side), kind |-> "tcp", owner |-> conns[s]] :
          s \in Used, side \in {0, 1}}

TypeOK ==
  /\ conns \in [Slots -> Conns \cup {None}] /\ len \in 0 .. MaxSlots
  /\ free \in Seq(Slots)
  /\ slab_gen \in 0 .. GenMod - 1 /\ epoch \in Nat /\ udp_len \in 0 .. MaxUdp
  /\ pc \in {"wait", "check", "batch", "accept", "clean", "done"}
  /\ batch \in Seq(Event) /\ i \in 0 .. MaxSlots
  /\ arrived \in 0 .. MaxArrivals /\ accepted \in 0 .. arrived
  /\ acc_ready \in BOOLEAN /\ acc_failed \in BOOLEAN /\ shutdown \in BOOLEAN

Init ==
  /\ conns = [s \in Slots |-> None] /\ len = 0 /\ free = <<>>
  /\ slab_gen = 0 /\ epoch = 0 /\ udp_len = 0
  /\ pc = "wait" /\ batch = <<>> /\ i = 0
  /\ arrived = 0 /\ accepted = 0 /\ acc_ready = FALSE /\ acc_failed = FALSE
  /\ shutdown = FALSE

-----------------------------------------------------------------------------
(***************************************************************************)
(* The slab.                                                               *)
(***************************************************************************)
NextGen(g) == IF g + 1 = GenMod THEN 0 ELSE g + 1   \* wrapping_add(1)

\* A new connection takes the next generation.
NewGen ==
  /\ slab_gen' = NextGen(slab_gen)
  /\ epoch' = IF slab_gen' = 0 THEN epoch + 1 ELSE epoch

\* The slot alloc_slot gives out: the one freed first, else a new one.
CanAlloc == free # <<>> \/ len < MaxSlots
NewSlot  == IF free # <<>> THEN Head(free) ELSE len
FreeLeft == IF free # <<>> THEN Tail(free) ELSE free
NewLen   == IF free # <<>> THEN len ELSE len + 1
alloc_slot(c) ==
  /\ conns' = [conns EXCEPT ![NewSlot] = c]
  /\ free' = FreeLeft /\ len' = NewLen

free_slot(s) ==
  /\ conns' = [conns EXCEPT ![s] = None]
  /\ free' = Append(free, s)
  /\ UNCHANGED <<len, slab_gen, epoch>>

-----------------------------------------------------------------------------
(***************************************************************************)
(* The accept branch.  Clients may come while it runs.                     *)
(***************************************************************************)
\* accept4 returned the next client.
Accept == pc = "accept" /\ Backlog > 0 /\ accepted' = accepted + 1
          /\ UNCHANGED <<udp_len, batch, i, arrived, acc_ready, acc_failed, shutdown>>

\* No upstream (the pool has none and direct_connect failed) or no pipe: the
\* client and what was made for it are dropped, and the loop goes on.
AcceptDropAndStop ==
  /\ Accept
  /\ pc' = "batch"
  /\ UNCHANGED slabVars
AcceptDrop ==
  /\ Accept
  /\ pc' = "accept"
  /\ UNCHANGED slabVars

\* Both sockets are registered under tokens of the new generation.
AcceptOne ==
  /\ Accept
  /\ CanAlloc /\ alloc_slot([epoch |-> epoch, gen |-> slab_gen]) /\ NewGen
  /\ pc' = "batch"
AcceptConn ==
  /\ Accept
  /\ CanAlloc /\ alloc_slot([epoch |-> epoch, gen |-> slab_gen]) /\ NewGen
  /\ pc' = "accept"

\* A registration failed, or the poll after it found the connect refused: the
\* slot just taken is freed again.
AcceptUnregistered ==
  /\ Accept
  /\ CanAlloc /\ NewGen
  /\ conns' = [conns EXCEPT ![NewSlot] = None]
  /\ free' = Append(FreeLeft, NewSlot) /\ len' = NewLen
  /\ pc' = "accept"

\* accept4 failed: EAGAIN, or any other error with clients still queued.
AcceptStop ==
  /\ pc = "accept"
  /\ acc_failed' = (Backlog > 0)
  /\ pc' = "batch"
  /\ UNCHANGED <<udp_len, batch, i, arrived, accepted, acc_ready, shutdown>>
  /\ UNCHANGED slabVars

-----------------------------------------------------------------------------
(***************************************************************************)
(* The loop.                                                               *)
(***************************************************************************)
\* epoll_wait returns events, nothing after 100 ms, or EINTR.  The listener is
\* edge-triggered: once reported it is off the ready list.
Batches ==
  LET E  == SocketEvents \cup (IF acc_ready THEN {ListenEvent} ELSE {})
      Bs == UNION {[1 .. n -> E] : n \in 0 .. MaxBatch}
  IN  {b \in Bs : /\ \A j, k \in DOMAIN b : j # k => b[j] # b[k]
                  /\ acc_ready => \E j \in DOMAIN b : b[j] = ListenEvent}
EpollWaitForever ==
  /\ pc = "wait"
  /\ batch' \in Batches \ {<<>>}
  /\ acc_ready' = FALSE
  /\ pc' = "check"
  /\ UNCHANGED <<udp_len, i, arrived, accepted, acc_failed, shutdown>>
  /\ UNCHANGED slabVars
EpollWait ==
  /\ pc = "wait"
  /\ batch' \in Batches
  /\ acc_ready' = FALSE
  /\ pc' = "check"
  /\ UNCHANGED <<udp_len, i, arrived, accepted, acc_failed, shutdown>>
  /\ UNCHANGED slabVars

\* SHUTDOWN is looked at once per turn, before the events.
Check ==
  /\ pc = "check"
  /\ pc' = IF shutdown THEN "done" ELSE "batch"
  /\ UNCHANGED <<udp_len, batch, i, shutdown>>
  /\ UNCHANGED slabVars /\ UNCHANGED acceptVars

\* The next event of the batch goes to branch b.
NextEvent(b) ==
  /\ pc = "batch" /\ batch # <<>> /\ Branch(Head(batch).token) = b
  /\ batch' = Tail(batch)
  /\ UNCHANGED <<i, shutdown>> /\ UNCHANGED acceptVars

AcceptEvent ==
  /\ NextEvent("accept")
  /\ pc' = "accept"
  /\ UNCHANGED udp_len /\ UNCHANGED slabVars

\* Datagrams of clients make associations; replies do not concern the slab.
UdpEvent ==
  /\ NextEvent("udp")
  /\ udp_len' \in udp_len .. MaxUdp
  /\ UNCHANGED pc /\ UNCHANGED slabVars
AssocEvent ==
  /\ NextEvent("assoc")
  /\ UNCHANGED <<pc, udp_len>> /\ UNCHANGED slabVars

\* The connection found handles the event and is kept, or is freed at its end
\* or on an error.
ConnEvent ==
  /\ NextEvent("tcp")
  /\ LET t == Head(batch).token
     IN  /\ Target(t) # None
         /\ UNCHANGED slabVars \/ free_slot(decode_token(t).idx)
  /\ UNCHANGED <<pc, udp_len>>

\* `stale event (ABA) or empty slot`
StaleEvent ==
  /\ NextEvent("tcp")
  /\ Target(Head(batch).token) = None
  /\ UNCHANGED <<pc, udp_len>> /\ UNCHANGED slabVars

\* The batch is done; once a second the slots are looked through.
BatchDone ==
  /\ pc = "batch" /\ batch = <<>>
  /\ pc' \in {"wait", "clean"} /\ i' = 0
  /\ UNCHANGED <<udp_len, batch, shutdown>>
  /\ UNCHANGED slabVars /\ UNCHANGED acceptVars

\* Slot i holds a connection past its connect, idle or half-close time: it is
\* freed, and the index stays where it is.
ExpireUnguarded ==
  /\ pc = "clean" /\ i < len
  /\ free_slot(i) /\ i' = i + 1
  /\ UNCHANGED <<udp_len, pc, batch, shutdown>> /\ UNCHANGED acceptVars
Expire ==
  /\ pc = "clean" /\ i < len /\ conns[i] # None
  /\ free_slot(i)
  /\ UNCHANGED <<udp_len, pc, batch, i, shutdown>> /\ UNCHANGED acceptVars
Keep ==
  /\ pc = "clean" /\ i < len
  /\ i' = i + 1
  /\ UNCHANGED <<udp_len, pc, batch, shutdown>>
  /\ UNCHANGED slabVars /\ UNCHANGED acceptVars
Cleaned ==
  /\ pc = "clean" /\ i = len
  /\ pc' = "wait"
  /\ UNCHANGED <<udp_len, batch, i, shutdown>>
  /\ UNCHANGED slabVars /\ UNCHANGED acceptVars

-----------------------------------------------------------------------------
(***************************************************************************)
(* Outside the loop: clients connect (an edge on the listener) and the     *)
(* signal handler runs, at any moment.                                     *)
(***************************************************************************)
Arrive ==
  /\ arrived < MaxArrivals /\ pc # "done"
  /\ arrived' = arrived + 1 /\ acc_ready' = TRUE /\ acc_failed' = FALSE
  /\ UNCHANGED <<udp_len, pc, batch, i, accepted, shutdown>>
  /\ UNCHANGED slabVars

handle_shutdown ==
  /\ ~shutdown /\ shutdown' = TRUE
  /\ UNCHANGED <<udp_len, pc, batch, i>>
  /\ UNCHANGED slabVars /\ UNCHANGED acceptVars

Accepting == AcceptDrop \/ AcceptConn \/ AcceptUnregistered \/ AcceptStop
Handling  == AcceptEvent \/ UdpEvent \/ AssocEvent \/ ConnEvent \/ StaleEvent
Cleaning  == Expire \/ Keep \/ Cleaned
Turn == Check \/ Accepting \/ Handling \/ BatchDone \/ Cleaning
Next == EpollWait \/ Turn \/ Arrive \/ handle_shutdown

Spec == Init /\ [][Next]_vars
\* The thread blocks only in epoll_wait, and there until the listener is ready
\* or 100 ms have passed; nothing is promised of the other sockets.
TimeoutOrListener == EpollWait /\ (batch' = <<>> \/ acc_ready)
FairSpec == Spec /\ WF_vars(TimeoutOrListener) /\ WF_vars(Turn)

-----------------------------------------------------------------------------
(***************************************************************************)
(* Safety.                                                                 *)
(***************************************************************************)
\* An event reaches the connection it was registered for as long as that one
\* exists (token ranges do not get in each other's way), and once it is freed
\* no other one, unless slab_gen has wrapped in between.
EventsReachOwner ==
  \A k \in DOMAIN batch :
    LET e == batch[k] IN
      /\ Branch(e.token) = e.kind
      /\ e.kind = "tcp" =>
           \/ Target(e.token) \in {None, e.owner}
           \/ Target(e.token).epoch > e.owner.epoch

\* No event of an open connection is skipped as stale.
NoneSkipped ==
  \A k \in DOMAIN batch :
    batch[k].kind = "tcp" /\ (\E s \in Slots : conns[s] = batch[k].owner) =>
      Target(batch[k].token) = batch[k].owner

\* Every slot of the vector either holds a connection or is on the free list,
\* once: no connection is overwritten, and no slot lost or given out twice.
SlabExact ==
  /\ \A j, k \in DOMAIN free : free[j] = free[k] => j = k
  /\ \A s \in Slots : (\E k \in DOMAIN free : free[k] = s) <=> s < len /\ conns[s] = None

\* The edge of the listener is not lost: while clients are queued, epoll or the
\* batch still holds it or the accept loop runs, unless accept4 failed with them
\* queued; the next client brings the edge back.
AcceptNotLost ==
  Backlog > 0 =>
    \/ acc_ready \/ acc_failed \/ pc \in {"accept", "done"}
    \/ \E k \in DOMAIN batch : batch[k].kind = "accept"

(***************************************************************************)
(* Liveness.                                                               *)
(***************************************************************************)
\* Every client is taken from the queue, whatever becomes of the ones before
\* it and even if accept4 fails with clients queued, once another client comes:
\* only if none ever does may they wait for ever.
Served ==
  \A n \in 1 .. MaxArrivals :
    arrived >= n ~> (accepted >= n \/ shutdown \/ []acc_failed)

\* A signal ends the loop at whatever point it is delivered: between the check
\* of SHUTDOWN and epoll_wait it is noticed one timeout later.
ShutdownEnds == shutdown ~> pc = "done"
=============================================================================
