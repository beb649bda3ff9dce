------------------------------ MODULE TcpConn ------------------------------
(***************************************************************************)
(* One relayed TCP connection of relay-rs/src/main.rs, from the moment     *)
(* accept has registered its two sockets with epoll until its slab slot is *)
(* freed: the splice pump, the edge-triggered re-arm of conn_watch, the    *)
(* connect that completes in the background, half-close and clean-up.      *)
(*                                                                         *)
(* Side "L" is the client's socket fd_l and side "R" the upstream socket   *)
(* fd_r.  A direction is named by the side its bytes come from, so         *)
(* len["L"] is len_l2r, eof["R"] is eof_r2l, shut["L"] is shut_wr_r (the   *)
(* FIN of direction L leaves on fd_r) and shut["R"] is shut_wr_l.          *)
(*                                                                         *)
(* Bytes are FIFO and never inspected, so a stream is four counters:       *)
(*   sent >= taken >= put >= got                                           *)
(* sent by the peer, spliced from its socket into the pipe, spliced from   *)
(* the pipe into the other socket, read by the other peer.                 *)
(*                                                                         *)
(* The event loop is one thread; peers and kernel step between any two of  *)
(* its splice loops, in particular between epoll_wait and the handler.     *)
(***************************************************************************)
EXTENDS Naturals

CONSTANTS
  Chunk,     \* splice_chunk, the most bytes counted into a pipe
  PipeCap,   \* what the kernel pipe really holds (splice_pipe_size)
  SndCap,    \* send buffer of a socket
  MaxUnits,  \* bound: units each peer sends
  Starts,    \* values of connecting at accept: FALSE for a pooled upstream
             \* socket, TRUE for a direct_connect still in progress
  MayFin,    \* TRUE: peers may half-close
  MayReset,  \* TRUE: peers may reset, the connect may be refused
  MayNoMem   \* TRUE: splice may fail with ENOMEM

ASSUME ConnAssumption ==
  /\ Chunk \in Nat \ {0} /\ PipeCap \in Nat \ {0}
  /\ SndCap \in Nat \ {0} /\ MaxUnits \in Nat
  /\ Starts \subseteq BOOLEAN /\ MayFin \in BOOLEAN
  /\ MayReset \in BOOLEAN /\ MayNoMem \in BOOLEAN

Side == {"L", "R"}
Other(s) == IF s = "L" THEN "R" ELSE "L"
Bits == {"IN", "OUT", "RDHUP", "HUP", "ERR"}
Least(a, b) == IF a <= b THEN a ELSE b

VARIABLES
  \* struct Conn
  connecting, len, eof, shut, half, life,
  \* the event loop: its position, the batch still to handle, locals of pump
  pc, events, dir, gotEof, eagain,
  \* kernel: byte streams, FINs and errors received, state of the connect
  sent, taken, put, got, fin, err, syn,
  \* kernel: the epoll registrations and the ready list
  mask, et, ready

connVars   == <<connecting, len, eof, shut, half, life>>
loopVars   == <<pc, events, dir, gotEof, eagain>>
streamVars == <<sent, taken, put, got, fin, err, syn>>
epollVars  == <<mask, et, ready>>
vars == <<connecting, len, eof, shut, half, life,
          pc, events, dir, gotEof, eagain,
          sent, taken, put, got, fin, err, syn, mask, et, ready>>

TypeOK ==
  /\ connecting \in BOOLEAN /\ half \in BOOLEAN
  /\ len \in [Side -> Nat]
  /\ eof \in [Side -> BOOLEAN] /\ shut \in [Side -> BOOLEAN]
  /\ life \in {"open", "clean", "error", "timeout"}
  /\ pc \in {"postadd", "wait", "dispatch", "fill", "drain", "settle", "finish", "done"}
  /\ events \in [Side -> SUBSET Bits]
  /\ dir \in Side /\ gotEof \in BOOLEAN /\ eagain \in BOOLEAN
  /\ sent \in [Side -> Nat] /\ taken \in [Side -> Nat]
  /\ put \in [Side -> Nat] /\ got \in [Side -> Nat]
  /\ fin \in [Side -> BOOLEAN] /\ err \in [Side -> BOOLEAN]
  /\ syn \in {"syn_sent", "estab", "failed"}
  /\ mask \in [Side -> SUBSET Bits]
  /\ et \in [Side -> BOOLEAN] /\ ready \in [Side -> BOOLEAN]

-----------------------------------------------------------------------------
(***************************************************************************)
(* The kernel: poll conditions of a TCP socket and epoll.                  *)
(***************************************************************************)
Handshaking(s) == s = "R" /\ syn = "syn_sent"
Unread(s) == sent[s] - taken[s]
Space(s)  == IF Handshaking(s) THEN 0 ELSE SndCap - (put[Other(s)] - got[Other(s)])

\* The poll bits that hold of socket s now.
PollBits(s) ==
  {b \in Bits :
     \/ err[s]
     \/ /\ ~Handshaking(s)
        /\ \/ b = "IN"    /\ (Unread(s) > 0 \/ fin[s])
           \/ b = "RDHUP" /\ fin[s]
           \/ b = "OUT"   /\ (Space(s) > 0 \/ shut[Other(s)])
           \/ b = "HUP"   /\ fin[s] /\ shut[Other(s)]}

\* What epoll_wait reports of s under interest m: ERR and HUP always count.
Revents(s, m) == PollBits(s) \cap (m \cup {"ERR", "HUP"})
Pending(s) == ready[s] /\ Revents(s, mask[s]) # {}

\* A wake-up of s with poll key b puts it on the ready list if b is wanted;
\* state changes (FIN, reset, end of the handshake) carry no key and always do.
Wake(s, b) == ready' = [ready EXCEPT ![s] = @ \/ b \in mask[s]]
WakeAny(s) == ready' = [ready EXCEPT ![s] = TRUE]

-----------------------------------------------------------------------------
(***************************************************************************)
(* conn_watch: the interest of both sockets, and the unconditional MOD by  *)
(* which the kernel re-checks each socket and queues it if a bit holds.    *)
(***************************************************************************)
WantNoOut(s) ==
  {b \in Bits : ~eof[s] /\ (b = "RDHUP" \/ (b = "IN" /\ len[s] < Chunk))}
WantAlwaysIn(s) ==
  {b \in Bits :
     \/ b \in {"IN", "RDHUP"} /\ ~eof[s]
     \/ b = "OUT" /\ len[Other(s)] > 0}
Want(s) ==
  {b \in Bits :
     \/ b = "RDHUP" /\ ~eof[s]
     \/ b = "IN"    /\ ~eof[s] /\ len[s] < Chunk
     \/ b = "OUT"   /\ len[Other(s)] > 0}

conn_watch_lazy ==
  /\ mask' = [s \in Side |-> Want(s)]
  /\ et' = [s \in Side |-> TRUE]
  /\ ready' = [s \in Side |-> \/ ready[s]
                              \/ Want(s) # mask[s] /\ Revents(s, Want(s)) # {}]
conn_watch ==
  /\ mask' = [s \in Side |-> Want(s)]
  /\ et' = [s \in Side |-> TRUE]
  /\ ready' = [s \in Side |-> ready[s] \/ Revents(s, Want(s)) # {}]

\* free_slot: the Conn is dropped, its descriptors are closed.
free_slot(why) ==
  /\ life' = why /\ pc' = "done"
  /\ UNCHANGED <<connecting, len, eof, shut, half, events, dir, gotEof, eagain>>
  /\ UNCHANGED epollVars

\* The interest given to EPOLL_CTL_ADD: while connecting, nothing is read from
\* the client and fd_r waits for EPOLLOUT, level-triggered.
InitMaskNoOut(s) == IF connecting THEN {"RDHUP"} ELSE {"IN", "RDHUP"}
InitMask(s) ==
  CASE ~connecting            -> {"IN", "RDHUP"}
    [] connecting /\ s = "L" -> {"RDHUP"}
    [] connecting /\ s = "R" -> {"OUT", "RDHUP"}

Init ==
  /\ connecting \in Starts
  /\ len = [s \in Side |-> 0] /\ eof = [s \in Side |-> FALSE]
  /\ shut = [s \in Side |-> FALSE] /\ half = FALSE /\ life = "open"
  /\ pc = IF connecting THEN "postadd" ELSE "wait"
  /\ events = [s \in Side |-> {}] /\ dir = "L" /\ gotEof = FALSE /\ eagain = FALSE
  /\ sent = [s \in Side |-> 0] /\ taken = [s \in Side |-> 0]
  /\ put = [s \in Side |-> 0] /\ got = [s \in Side |-> 0]
  /\ fin = [s \in Side |-> FALSE] /\ err = [s \in Side |-> FALSE]
  /\ syn = IF connecting THEN "syn_sent" ELSE "estab"
  /\ mask = [s \in Side |-> InitMask(s)]
  /\ et = [s \in Side |-> ~(connecting /\ s = "R")]
  /\ ready = [s \in Side |-> FALSE]

-----------------------------------------------------------------------------
(***************************************************************************)
(* The event loop.                                                         *)
(***************************************************************************)
\* SO_ERROR decides whether the connect went through.
ConnectResult ==
  \/ err["R"] /\ free_slot("error")
  \/ /\ ~err["R"]
     /\ connecting' = FALSE
     /\ conn_watch
     /\ UNCHANGED <<len, eof, shut, half, life, dir, gotEof, eagain>>

\* The poll right after the sockets were added, for a connect that is done.
PostAddPoll ==
  /\ pc = "postadd"
  /\ \/ /\ PollBits("R") \cap {"OUT", "ERR", "HUP"} # {}
        /\ ConnectResult
        /\ ~err["R"] => pc' = "wait" /\ UNCHANGED events
     \/ /\ PollBits("R") \cap {"OUT", "ERR", "HUP"} = {}
        /\ pc' = "wait"
        /\ UNCHANGED <<connecting, len, eof, shut, half, life, events, dir, gotEof, eagain>>
        /\ UNCHANGED epollVars
  /\ UNCHANGED streamVars

\* epoll_wait: an edge-triggered socket leaves the ready list when reported.
EpollWait ==
  /\ pc = "wait"
  /\ \E s \in Side : Pending(s)
  /\ events' = [s \in Side |-> IF ready[s] THEN Revents(s, mask[s]) ELSE {}]
  /\ ready' = [s \in Side |-> Pending(s) /\ ~et[s]]
  /\ pc' = "dispatch"
  /\ UNCHANGED <<dir, gotEof, eagain, mask, et>>
  /\ UNCHANGED connVars /\ UNCHANGED streamVars

\* An event of fd_r while connecting: only OUT, ERR, HUP, RDHUP are acted on.
ConnectEvent ==
  /\ pc = "dispatch" /\ connecting /\ events["R"] # {}
  /\ \/ /\ events["R"] \cap {"OUT", "ERR", "HUP", "RDHUP"} # {}
        /\ ConnectResult
        /\ ~err["R"] => pc' = pc /\ events' = [events EXCEPT !["R"] = {}]
     \/ /\ events["R"] \cap {"OUT", "ERR", "HUP", "RDHUP"} = {}
        /\ events' = [events EXCEPT !["R"] = {}]
        /\ UNCHANGED <<pc, dir, gotEof, eagain>>
        /\ UNCHANGED connVars /\ UNCHANGED epollVars
  /\ UNCHANGED streamVars

\* Any other event: close on ERR, else pump both directions.
ConnEvent(s) ==
  /\ pc = "dispatch" /\ events[s] # {} /\ ~(s = "R" /\ connecting)
  /\ \/ "ERR" \in events[s] /\ free_slot("error")
     \/ /\ "ERR" \notin events[s]
        /\ pc' = "fill" /\ dir' = "L"
        /\ events' = [events EXCEPT ![s] = {}]
        /\ UNCHANGED <<gotEof, eagain>>
        /\ UNCHANGED connVars /\ UNCHANGED epollVars
  /\ UNCHANGED streamVars

BatchDone ==
  /\ pc = "dispatch" /\ \A s \in Side : events[s] = {}
  /\ pc' = "wait"
  /\ UNCHANGED <<events, dir, gotEof, eagain>>
  /\ UNCHANGED connVars /\ UNCHANGED streamVars /\ UNCHANGED epollVars

-----------------------------------------------------------------------------
(***************************************************************************)
(* pump, and the residual drain of a direction that is already at EOF.     *)
(***************************************************************************)
Room(d) == Least(Chunk, PipeCap) - len[d]

Take(n) ==
  /\ len' = [len EXCEPT ![dir] = @ + n]
  /\ taken' = [taken EXCEPT ![dir] = @ + n]

\* The splice loop from the source socket into the pipe.  It ends when
\* splice_chunk is reached, on EOF, or on EAGAIN: the source is empty or the
\* pipe itself is full, which splice does not distinguish.
Fill ==
  /\ pc = "fill" /\ ~eof[dir]
  /\ LET n     == Least(Unread(dir), Room(dir))
         more  == len[dir] + n < Chunk           \* splice is called once more
         empty == more /\ len[dir] + n < PipeCap \* and finds the source empty
     IN \/ /\ empty /\ ~fin[dir] /\ err[dir]
           /\ free_slot("error")
           /\ UNCHANGED taken
        \/ /\ ~(empty /\ ~fin[dir] /\ err[dir])
           /\ Take(n)
           /\ gotEof' = (empty /\ fin[dir])
           /\ eagain' = (more /\ ~(empty /\ fin[dir]))
           /\ pc' = "drain"
           /\ UNCHANGED <<connecting, eof, shut, half, life, events, dir>>
           /\ UNCHANGED epollVars
  /\ UNCHANGED <<sent, put, got, fin, err, syn>>

\* A splice of that loop fails with ENOMEM: it is left with neither flag set.
FillNoMemEof ==
  /\ MayNoMem
  /\ pc = "fill" /\ ~eof[dir]
  /\ \E n \in 0 .. Least(Unread(dir), Room(dir)) :
       len[dir] + n < Chunk /\ Take(n)
  /\ gotEof' = TRUE /\ eagain' = FALSE
  /\ pc' = "drain"
  /\ UNCHANGED <<connecting, eof, shut, half, life, events, dir>>
  /\ UNCHANGED <<sent, put, got, fin, err, syn>> /\ UNCHANGED epollVars
FillNoMem ==
  /\ MayNoMem
  /\ pc = "fill" /\ ~eof[dir]
  /\ \E n \in 0 .. Least(Unread(dir), Room(dir)) :
       len[dir] + n < Chunk /\ Take(n)
  /\ gotEof' = FALSE /\ eagain' = FALSE
  /\ pc' = "drain"
  /\ UNCHANGED <<connecting, eof, shut, half, life, events, dir>>
  /\ UNCHANGED <<sent, put, got, fin, err, syn>> /\ UNCHANGED epollVars

\* After EOF nothing is read; what is left in the pipe is still drained.
SkipFillNoResidual ==
  /\ pc = "fill" /\ eof[dir]
  /\ pc' = "settle"
  /\ UNCHANGED <<events, dir, gotEof, eagain>>
  /\ UNCHANGED connVars /\ UNCHANGED streamVars /\ UNCHANGED epollVars
SkipFill ==
  /\ pc = "fill" /\ eof[dir]
  /\ pc' = IF len[dir] > 0 THEN "drain" ELSE "settle"
  /\ UNCHANGED <<events, dir, gotEof, eagain>>
  /\ UNCHANGED connVars /\ UNCHANGED streamVars /\ UNCHANGED epollVars

\* The splice loop from the pipe into the destination, until the pipe is empty
\* or the destination is congested, and the decision to go round again.
AcceptedUnclamped(d) == Space(Other(d))
Accepted(d) == Least(len[d], Space(Other(d)))

Drain ==
  /\ pc = "drain"
  /\ LET n == Accepted(dir)
     IN \/ /\ len[dir] > 0 /\ (err[Other(dir)] \/ shut[dir])
           /\ free_slot("error")
           /\ UNCHANGED put
        \/ /\ len[dir] = 0 \/ ~(err[Other(dir)] \/ shut[dir])
           /\ len' = [len EXCEPT ![dir] = @ - n]
           /\ put' = [put EXCEPT ![dir] = @ + n]
           /\ pc' = IF gotEof \/ eof[dir] \/ len[dir] > n \/ eagain
                    THEN "settle" ELSE "fill"
           /\ UNCHANGED <<connecting, eof, shut, half, life, events, dir, gotEof, eagain>>
           /\ UNCHANGED epollVars
  /\ UNCHANGED <<sent, taken, got, fin, err, syn>>

\* Any other error of that splice closes the connection (what it has spliced
\* before is of no more account).
DrainNoMem ==
  /\ MayNoMem
  /\ pc = "drain" /\ len[dir] > 0
  /\ free_slot("error")
  /\ UNCHANGED streamVars

\* half_close_since after direction d hit EOF.
HalfCloseSet(d) == TRUE
HalfClose(d) == ~eof[Other(d)]

\* The FIN of direction d, whose EOF flag is e, is due.
ShutdownEager(d, e) == e /\ ~shut[d]
ShutdownDue(d, e) == e /\ len[d] = 0 /\ ~shut[d]

\* After a direction: record EOF and run the half-close clock, pass the FIN on
\* once the pipe is empty (on a socket still in SYN_SENT the kernel aborts the
\* connect instead), then go to the next direction.
Settle ==
  /\ pc = "settle"
  /\ LET o     == Other(dir)
         eof1  == eof[dir] \/ gotEof
         shut1 == ShutdownDue(dir, eof1)
         abort == shut1 /\ Handshaking(o)
     IN /\ eof' = [eof EXCEPT ![dir] = eof1]
        /\ half' = IF gotEof THEN HalfClose(dir) ELSE half
        /\ shut' = [shut EXCEPT ![dir] = @ \/ shut1]
        /\ syn' = IF abort THEN "failed" ELSE syn
        /\ err' = [err EXCEPT ![o] = @ \/ abort]
        /\ IF shut1 THEN WakeAny(o) ELSE UNCHANGED ready
  /\ pc' = IF dir = "L" THEN "fill" ELSE "finish"
  /\ dir' = "R"
  /\ gotEof' = FALSE /\ eagain' = FALSE
  /\ UNCHANGED <<connecting, len, life, events, sent, taken, put, got, fin, mask, et>>

\* The end of the handler: both directions done, or re-arm.
FullyClosedEarly == \A s \in Side : eof[s]
FullyClosed == \A s \in Side : eof[s] /\ len[s] = 0

Finish ==
  /\ pc = "finish"
  /\ \/ /\ FullyClosed
        /\ free_slot("clean")
     \/ /\ ~FullyClosed
        /\ conn_watch
        /\ pc' = "dispatch"
        /\ UNCHANGED <<events, dir, gotEof, eagain>>
        /\ UNCHANGED connVars
  /\ UNCHANGED streamVars

\* The 1 Hz clean-up between two batches.  Time is not modelled: a deadline
\* that is running may pass at any moment (connect_timeout while connecting,
\* idle_timeout and half_close_timeout afterwards).
Cleanup ==
  /\ pc = "wait"
  /\ free_slot("timeout")
  /\ UNCHANGED streamVars

-----------------------------------------------------------------------------
(***************************************************************************)
(* The peers and the network.                                              *)
(***************************************************************************)
Reachable(s) == life = "open" /\ ~err[s] /\ ~Handshaking(s)

PeerSend(s) ==
  /\ Reachable(s) /\ ~fin[s] /\ sent[s] < MaxUnits
  /\ sent' = [sent EXCEPT ![s] = @ + 1]
  /\ Wake(s, "IN")
  /\ UNCHANGED <<taken, put, got, fin, err, syn, mask, et>>
  /\ UNCHANGED connVars /\ UNCHANGED loopVars

PeerFin(s) ==
  /\ MayFin
  /\ Reachable(s) /\ ~fin[s]
  /\ fin' = [fin EXCEPT ![s] = TRUE]
  /\ WakeAny(s)
  /\ UNCHANGED <<sent, taken, put, got, err, syn, mask, et>>
  /\ UNCHANGED connVars /\ UNCHANGED loopVars

\* The peer of socket s reads a unit; a full send buffer becomes writable.
PeerRead(s) ==
  /\ Reachable(s) /\ got[Other(s)] < put[Other(s)]
  /\ got' = [got EXCEPT ![Other(s)] = @ + 1]
  /\ IF Space(s) = 0 THEN Wake(s, "OUT") ELSE UNCHANGED ready
  /\ UNCHANGED <<sent, taken, put, fin, err, syn, mask, et>>
  /\ UNCHANGED connVars /\ UNCHANGED loopVars

PeerReset(s) ==
  /\ MayReset
  /\ Reachable(s)
  /\ err' = [err EXCEPT ![s] = TRUE]
  /\ WakeAny(s)
  /\ UNCHANGED <<sent, taken, put, got, fin, syn, mask, et>>
  /\ UNCHANGED connVars /\ UNCHANGED loopVars

Handshake ==
  /\ life = "open" /\ syn = "syn_sent"
  /\ \/ syn' = "estab" /\ UNCHANGED err
     \/ MayReset /\ syn' = "failed" /\ err' = [err EXCEPT !["R"] = TRUE]
  /\ WakeAny("R")
  /\ UNCHANGED <<sent, taken, put, got, fin, mask, et>>
  /\ UNCHANGED connVars /\ UNCHANGED loopVars

-----------------------------------------------------------------------------
Loop ==
  \/ PostAddPoll \/ EpollWait \/ ConnectEvent
  \/ \E s \in Side : ConnEvent(s)
  \/ BatchDone \/ Fill \/ FillNoMem \/ SkipFill \/ Drain \/ DrainNoMem \/ Settle \/ Finish

Peers ==
  \/ \E s \in Side : PeerSend(s) \/ PeerFin(s) \/ PeerRead(s) \/ PeerReset(s)
  \/ Handshake

Next == Loop \/ Cleanup \/ Peers

Spec == Init /\ [][Next]_vars

\* The loop thread is never blocked except in epoll_wait, so it always goes on.
\* Clean-up is not fair: its deadlines may be arbitrarily far away.
LoopSpec == Spec /\ WF_vars(Loop)

\* In addition both peers keep reading and the handshake ends.
FairSpec == LoopSpec /\ WF_vars(Handshake) /\ \A s \in Side : WF_vars(PeerRead(s))

-----------------------------------------------------------------------------
(***************************************************************************)
(* Properties.                                                             *)
(***************************************************************************)
AtRest == life = "open" /\ pc = "wait"

\* A FIN is passed on (shutdown_write) only after the source has closed and
\* every byte it sent is in the destination socket: the destination never sees
\* a clean end of a truncated stream.
EofAfterData == \A d \in Side : shut[d] => fin[d] /\ put[d] = sent[d]

\* "Connection Fully Closed" drops the descriptors only when both streams were
\* relayed to their end, FIN included.
CleanMeansComplete ==
  life = "clean" => \A d \in Side : fin[d] /\ put[d] = sent[d] /\ shut[d]

\* What a handler could do for direction d: read its source, or drain its
\* pipe; a pipe with bytes whose destination takes none is congested.
CanFill(d)   == ~eof[d] /\ Room(d) > 0 /\ (Unread(d) > 0 \/ fin[d])
CanDrain(d)  == len[d] > 0 /\ Space(Other(d)) > 0
Congested(d) == len[d] > 0 /\ Space(Other(d)) = 0

\* Edge-triggered epoll loses nothing: when the loop goes to epoll_wait, a
\* source the pump could read, a destination a filled pipe could be drained
\* to, and a connect that has ended (if the client has not closed meanwhile)
\* have their event pending.
NoLostWakeup ==
  AtRest =>
    /\ ~connecting => \A s \in Side :
         /\ ~eof[s] /\ len[s] < Chunk /\ (Unread(s) > 0 \/ fin[s]) => Pending(s)
         /\ len[Other(s)] > 0 /\ Space(s) > 0 => Pending(s)
    /\ connecting /\ syn # "syn_sent" /\ ~fin["L"] => Pending("R")

\* The loop does not spin: when epoll_wait has an event to report, the handler
\* finds bytes or an EOF to move, or a socket has failed.  Two spins are left,
\* both with a congested destination: one whose source has closed (RDHUP and
\* HUP hold at every re-arming), and one whose pipe is full below splice_chunk.
NoIdleTurn ==
  AtRest /\ ~connecting /\ (\E s \in Side : Pending(s)) =>
    \E d \in Side :
      \/ err[d] \/ CanFill(d) \/ CanDrain(d)
      \/ Congested(d) /\ (fin[d] \/ PipeCap < Chunk)

\* pump goes round again only if "a full splice_chunk was consumed and dst
\* accepted it all", unless splice ran out of memory.
RoundsFull ==
  [][pc = "drain" /\ pc' = "fill" /\ ~MayNoMem => put'[dir] = put[dir] + Chunk]_vars

\* The half-close clock runs exactly while one of the two directions is at EOF.
HalfCloseClock == AtRest => (half <=> eof["L"] # eof["R"])

\* With peers that keep reading, everything sent arrives, or the connection is
\* torn down.
Delivers == \A d \in Side : []<>(got[d] = sent[d] \/ life # "open")

\* A half-close of one peer reaches the other.
FinPassedOn == \A d \in Side : fin[d] ~> (shut[d] \/ life # "open")

\* The loop goes back to sleep: without further input it does not handle
\* events for ever ("Suppressing EPOLLIN when we cannot consume more data
\* breaks the cycle"), unless splice runs out of memory for ever.
Quiesces == []<><<FillNoMem>>_vars \/ <>[](pc \in {"wait", "done"})

\* A connect that ends, well or badly, is noticed ("LT delivers EPOLLOUT
\* continuously until the handler sets connecting=false").
ConnectNoticed == syn # "syn_sent" ~> (~connecting \/ life # "open")

\* The connection is a RelayStream: what is spliced into the destination
\* socket is what was delivered, shutdown_write is the end of the stream.
Stream == INSTANCE RelayStream WITH Dir <- Side, delivered <- put, ended <- shut
IsRelayStream == Stream!Spec
=============================================================================
