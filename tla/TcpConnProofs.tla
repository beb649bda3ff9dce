--------------------------- MODULE TcpConnProofs ---------------------------
(***************************************************************************)
(* Proofs about TcpConn for every chunk size, pipe size, send buffer and   *)
(* number of bytes: the type invariant, the safety invariants, and the     *)
(* refinement of RelayStream.                                              *)
(***************************************************************************)
EXTENDS TcpConn, TLAPS

\* No counter of a stream overtakes the one before it; the pipe and the send
\* buffer hold what they can hold.
Counters ==
  \A d \in Side :
    /\ put[d] + len[d] = taken[d]
    /\ taken[d] <= sent[d]
    /\ got[d] <= put[d] /\ put[d] - got[d] <= SndCap
    /\ len[d] <= Chunk /\ len[d] <= PipeCap

\* What the flags of a direction say about its stream.
Flags ==
  /\ \A d \in Side :
       /\ eof[d] => fin[d] /\ taken[d] = sent[d]
       /\ shut[d] => eof[d] /\ len[d] = 0
       /\ eof[d] /\ len[d] = 0 => shut[d] \/ (pc = "settle" /\ dir = d)
  /\ gotEof => /\ pc \in {"drain", "settle", "done"}
               /\ ~eof[dir] /\ fin[dir] /\ taken[dir] = sent[dir]
  /\ half <=> (eof["L"] # eof["R"])

\* The slot is freed exactly once, and cleanly only after both streams ended.
Lifetime ==
  /\ pc = "done" <=> life # "open"
  /\ life = "clean" => \A d \in Side : shut[d]

\* An event or an error of fd_r is evidence that the connect has ended.
Connected ==
  /\ ~connecting \/ err["R"] \/ events["R"] # {} => syn # "syn_sent"
  /\ pc = "postadd" => connecting

\* Socket s will be reported if the pump has work on it.
Covered(s) ==
  /\ ~eof[s] /\ len[s] < Chunk /\ (Unread(s) > 0 \/ fin[s]) => ready[s]
  /\ len[Other(s)] > 0 /\ Space(s) > 0 => ready[s]

\* Between two handlers the interest is the one of conn_watch; once the batch
\* is handled nothing is left uncovered.
Armed ==
  ~connecting /\ pc \in {"wait", "dispatch"} =>
    /\ mask = [s \in Side |-> Want(s)]
    /\ pc = "wait" \/ (\A s \in Side : events[s] = {}) => \A s \in Side : Covered(s)

\* A handler that leaves the slot in use left something to relay.
Resting == pc \in {"postadd", "wait", "dispatch"} => ~FullyClosed

\* The first splice loop ends with neither flag only when splice_chunk is reached.
Rounds ==
  pc = "drain" /\ ~gotEof /\ ~eagain /\ ~eof[dir] /\ ~MayNoMem => len[dir] = Chunk

\* Until the connect is noticed no handler has run, unless the client closed:
\* the sockets are still watched as accept registered them, fd_r
\* level-triggered, so its EPOLLOUT stays.
Watching ==
  connecting /\ ~fin["L"] /\ life = "open" =>
    /\ pc \in {"postadd", "wait", "dispatch"} /\ put["L"] = 0
    /\ mask["L"] = {"RDHUP"} /\ mask["R"] = {"OUT", "RDHUP"} /\ ~et["R"]
    /\ syn # "syn_sent" => ready["R"]
    /\ events["L"] # {} => "ERR" \in events["L"]

IInv == /\ TypeOK /\ Counters /\ Flags /\ Lifetime /\ Connected /\ Armed
        /\ Resting /\ Rounds /\ Watching

-----------------------------------------------------------------------------
LEMMA LeastFacts ==
  ASSUME NEW a \in Nat, NEW b \in Nat
  PROVE  /\ Least(a, b) \in Nat
         /\ Least(a, b) <= a /\ Least(a, b) <= b
         /\ Least(a, b) = a \/ Least(a, b) = b
BY DEF Least

\* The other side is a side, and not the same one.
LEMMA OtherFacts ==
  ASSUME NEW s \in Side
  PROVE  Other(s) \in Side /\ Other(s) # s /\ Other(Other(s)) = s
BY DEF Side, Other

\* A socket that is still connecting reports nothing but an error.
LEMMA PollConnected ==
  ASSUME NEW b \in PollBits("R"), ~err["R"]
  PROVE  syn # "syn_sent"
BY DEF PollBits, Handshaking

\* The numbers of bytes the two splice loops move.
LEMMA MoveFacts ==
  ASSUME TypeOK, Counters, NEW d \in Side
  PROVE  /\ Least(Unread(d), Room(d)) \in Nat
         /\ Least(Unread(d), Room(d)) <= sent[d] - taken[d]
         /\ Least(Unread(d), Room(d)) <= Chunk - len[d]
         /\ Least(Unread(d), Room(d)) <= PipeCap - len[d]
         /\ Accepted(d) \in Nat /\ Accepted(d) <= len[d]
         /\ Accepted(d) <= SndCap - (put[d] - got[d])
<1>1. Unread(d) \in Nat
  BY DEF TypeOK, Counters, Unread
<1>2. Room(d) \in Nat /\ Room(d) <= Chunk - len[d] /\ Room(d) <= PipeCap - len[d]
  BY ConnAssumption DEF TypeOK, Counters, Room, Least
<1>3. Space(Other(d)) \in Nat /\ Space(Other(d)) <= SndCap - (put[d] - got[d])
  BY OtherFacts, ConnAssumption DEF TypeOK, Counters, Space
<1>4. len[d] \in Nat /\ put[d] \in Nat /\ got[d] \in Nat /\ SndCap \in Nat
      /\ Chunk \in Nat /\ PipeCap \in Nat
  BY ConnAssumption DEF TypeOK
<1>5. /\ Least(Unread(d), Room(d)) \in Nat
      /\ Least(Unread(d), Room(d)) <= Unread(d) /\ Least(Unread(d), Room(d)) <= Room(d)
  BY <1>1, <1>2, LeastFacts
<1>6. /\ Accepted(d) \in Nat /\ Accepted(d) <= len[d]
      /\ Accepted(d) <= Space(Other(d))
  BY <1>3, <1>4, LeastFacts DEF Accepted
<1>7. Unread(d) = sent[d] - taken[d]
  BY DEF Unread
<1>8. QED
  BY <1>1, <1>2, <1>3, <1>4, <1>5, <1>6, <1>7

\* The free space of a destination is never negative.
LEMMA SpaceFacts ==
  ASSUME TypeOK, Counters, NEW d \in Side
  PROVE  Space(Other(d)) \in Nat
BY OtherFacts, ConnAssumption DEF TypeOK, Counters, Space

\* What one call of the first splice loop takes from the source.
LEMMA FillTakes ==
  ASSUME TypeOK, Counters, Fill \/ FillNoMem
  PROVE  \/ UNCHANGED <<len, taken>>
         \/ \E n \in Nat : /\ n <= sent[dir] - taken[dir]
                           /\ n <= Chunk - len[dir] /\ n <= PipeCap - len[dir]
                           /\ Take(n)
<1> DEFINE m == Least(Unread(dir), Room(dir))
<1>1. /\ m \in Nat /\ m <= sent[dir] - taken[dir]
      /\ m <= Chunk - len[dir] /\ m <= PipeCap - len[dir]
      /\ sent[dir] \in Nat /\ taken[dir] \in Nat /\ len[dir] \in Nat
      /\ Chunk \in Nat /\ PipeCap \in Nat
  BY MoveFacts, ConnAssumption DEF TypeOK
<1>2. CASE Fill
  <2>1. UNCHANGED <<len, taken>> \/ Take(m)
    BY <1>2 DEF Fill, free_slot
  <2>2. QED
    BY <1>1, <2>1
<1>3. CASE FillNoMem
  <2>1. PICK n \in 0 .. m : Take(n)
    BY <1>3 DEF FillNoMem
  <2>2. n \in Nat /\ n <= m
    BY <1>1
  <2>3. QED
    BY <1>1, <2>1, <2>2
<1>4. QED
  BY <1>2, <1>3

\* A wake-up only adds to the ready list.
LEMMA WakeFacts ==
  ASSUME TypeOK, NEW s \in Side,
         WakeAny(s) \/ (\E b \in Bits : Wake(s, b)) \/ UNCHANGED ready
  PROVE  ready' \in [Side -> BOOLEAN] /\ \A t \in Side : ready[t] => ready'[t]
<1>1. CASE WakeAny(s)
  BY <1>1 DEF WakeAny, TypeOK
<1>2. CASE \E b \in Bits : Wake(s, b)
  <2>1. PICK b \in Bits : Wake(s, b)
    BY <1>2
  <2>2. (ready[s] \/ b \in mask[s]) \in BOOLEAN
    OBVIOUS
  <2>3. PICK x \in BOOLEAN : x = (ready[s] \/ b \in mask[s])
    BY <2>2
  <2>4. ready' = [ready EXCEPT ![s] = x]
    BY <2>1, <2>3 DEF Wake
  <2>5. QED
    BY <2>3, <2>4 DEF TypeOK
<1>3. CASE UNCHANGED ready
  BY <1>3 DEF TypeOK
<1>4. QED
  BY <1>1, <1>2, <1>3

-----------------------------------------------------------------------------
LEMMA InitIInv == Init => IInv
<1> SUFFICES ASSUME Init PROVE IInv
  OBVIOUS
<1>1. TypeOK
  BY ConnAssumption DEF Init, TypeOK, InitMask, Side, Bits
<1>2. Counters
  BY ConnAssumption DEF Init, Counters, Side
<1>3. Flags /\ Lifetime /\ Connected
  BY DEF Init, Flags, Lifetime, Connected, Side
<1>4. Armed
  <2> SUFFICES ASSUME ~connecting
               PROVE  mask = [s \in Side |-> Want(s)] /\ \A s \in Side : Covered(s)
    BY DEF Armed
  <2>1. ASSUME NEW s \in Side PROVE Want(s) = InitMask(s)
    BY ConnAssumption, OtherFacts DEF Init, Want, InitMask, Bits, Side
  <2>2. ASSUME NEW s \in Side PROVE Covered(s)
    BY OtherFacts DEF Init, Covered, Unread
  <2>3. QED
    BY <2>1, <2>2 DEF Init
<1>5. Resting /\ Rounds
  BY DEF Init, Resting, FullyClosed, Rounds, Side
<1>6. Watching
  BY DEF Init, Watching, InitMask, Side
<1>7. QED
  BY <1>1, <1>2, <1>3, <1>4, <1>5, <1>6 DEF IInv

-----------------------------------------------------------------------------
(***************************************************************************)
(* Each step keeps each part of IInv.                                      *)
(***************************************************************************)
LEMMA TypeStep == IInv /\ [Next]_vars => TypeOK'
<1> SUFFICES ASSUME IInv, [Next]_vars PROVE TypeOK'
  OBVIOUS
<1> USE DEF IInv
<1>0. \A s \in Side : Want(s) \in SUBSET Bits
  BY DEF Want
<1>w. ASSUME conn_watch
      PROVE  /\ mask' \in [Side -> SUBSET Bits] /\ et' \in [Side -> BOOLEAN]
             /\ ready' \in [Side -> BOOLEAN]
  BY <1>0, <1>w DEF conn_watch, TypeOK
<1>f. ASSUME NEW why \in {"clean", "error", "timeout"}, free_slot(why),
             streamVars' = streamVars
      PROVE  TypeOK'
  BY <1>f DEF TypeOK, free_slot, streamVars, epollVars
<1>1. CASE PostAddPoll
  BY <1>1, <1>w, <1>f DEF PostAddPoll, ConnectResult, TypeOK, streamVars, epollVars
<1>2. CASE EpollWait
  <2>1. events' \in [Side -> SUBSET Bits] /\ ready' \in [Side -> BOOLEAN]
    BY <1>2 DEF EpollWait, TypeOK, Revents, PollBits, Pending
  <2>2. QED
    BY <1>2, <2>1 DEF EpollWait, TypeOK, connVars, streamVars
<1>3. CASE ConnectEvent
  <2>1. CASE err["R"] /\ free_slot("error")
    BY <1>3, <2>1, <1>f DEF ConnectEvent
  <2>2. CASE ~(err["R"] /\ free_slot("error"))
    BY <1>3, <2>2, <1>w DEF ConnectEvent, ConnectResult, TypeOK, connVars, streamVars, epollVars, Side
  <2>3. QED
    BY <2>1, <2>2
<1>4. ASSUME NEW s \in Side, ConnEvent(s) PROVE TypeOK'
  BY <1>4, <1>f DEF ConnEvent, TypeOK, connVars, streamVars, epollVars, Side
<1>5. CASE BatchDone \/ SkipFill
  BY <1>5 DEF BatchDone, SkipFill, TypeOK, connVars, streamVars, epollVars
<1>6. CASE Fill
  <2>1. len' \in [Side -> Nat] /\ taken' \in [Side -> Nat]
    BY <1>6, FillTakes DEF Take, TypeOK
  <2>2. gotEof' \in BOOLEAN /\ eagain' \in BOOLEAN
    BY <1>6, Zenon DEF Fill, free_slot, TypeOK
  <2>3. QED
    BY <1>6, <2>1, <2>2 DEF Fill, free_slot, TypeOK, epollVars
<1>7. CASE FillNoMem
  <2>1. len' \in [Side -> Nat] /\ taken' \in [Side -> Nat]
    BY <1>7, FillTakes DEF Take, TypeOK
  <2>2. QED
    BY <1>7, <2>1 DEF FillNoMem, TypeOK, epollVars
<1>8. CASE Drain
  <2>1. len[dir] - Accepted(dir) \in Nat /\ put[dir] + Accepted(dir) \in Nat
    BY MoveFacts DEF TypeOK
  <2>2. QED
    BY <1>8, <2>1 DEF Drain, free_slot, TypeOK, epollVars
<1>9. CASE Settle
  BY <1>9, OtherFacts DEF Settle, WakeAny, HalfClose, ShutdownDue, Handshaking, TypeOK, Side
<1>10. CASE Finish
  BY <1>10, <1>w, <1>f DEF Finish, TypeOK, connVars, streamVars
<1>11. CASE Cleanup \/ DrainNoMem
  BY <1>11, <1>f DEF Cleanup, DrainNoMem
<1>12. ASSUME NEW s \in Side, PeerSend(s) \/ PeerFin(s) \/ PeerRead(s) \/ PeerReset(s)
       PROVE  TypeOK'
  <2>1. ready' \in [Side -> BOOLEAN]
    BY <1>12, WakeFacts DEF PeerSend, PeerFin, PeerRead, PeerReset, Bits
  <2>2. CASE PeerSend(s)
    BY <2>1, <2>2 DEF PeerSend, TypeOK, connVars, loopVars
  <2>3. CASE PeerFin(s)
    BY <2>1, <2>3 DEF PeerFin, TypeOK, connVars, loopVars
  <2>4. CASE PeerRead(s)
    BY <2>1, <2>4, OtherFacts DEF PeerRead, TypeOK, connVars, loopVars
  <2>5. CASE PeerReset(s)
    BY <2>1, <2>5 DEF PeerReset, TypeOK, connVars, loopVars
  <2>6. QED
    BY <1>12, <2>2, <2>3, <2>4, <2>5
<1>13. CASE Handshake
  BY <1>13 DEF Handshake, WakeAny, TypeOK, connVars, loopVars
<1>14. CASE UNCHANGED vars
  BY <1>14 DEF vars, TypeOK
<1>15. QED
  BY <1>1, <1>2, <1>3, <1>4, <1>5, <1>6, <1>7, <1>8, <1>9, <1>10, <1>11, <1>12, <1>13, <1>14
  DEF Next, Loop, Peers

LEMMA CountersStep == IInv /\ [Next]_vars => Counters'
<1> SUFFICES ASSUME IInv, [Next]_vars PROVE Counters'
  OBVIOUS
<1> USE DEF IInv
<1>k. ASSUME UNCHANGED <<len, sent, taken, put, got>> PROVE Counters'
  BY <1>k DEF Counters
<1>f. ASSUME NEW why, free_slot(why), streamVars' = streamVars PROVE Counters'
  BY <1>f, <1>k DEF free_slot, streamVars
<1>1. CASE PostAddPoll \/ ConnectEvent
  BY <1>1, <1>k, <1>f DEF PostAddPoll, ConnectEvent, ConnectResult, connVars, streamVars
<1>2. CASE EpollWait \/ BatchDone \/ SkipFill \/ Settle \/ Handshake
  BY <1>2, <1>k DEF EpollWait, BatchDone, SkipFill, Settle, Handshake, connVars, streamVars
<1>3. ASSUME NEW s \in Side, ConnEvent(s) PROVE Counters'
  BY <1>3, <1>k, <1>f DEF ConnEvent, connVars, streamVars
<1>4. CASE Fill \/ FillNoMem
  <2>1. UNCHANGED <<sent, put, got>>
    BY <1>4 DEF Fill, FillNoMem
  <2>2. CASE UNCHANGED <<len, taken>>
    BY <2>1, <2>2, <1>k
  <2>3. ASSUME NEW n \in Nat, n <= sent[dir] - taken[dir],
               n <= Chunk - len[dir], n <= PipeCap - len[dir], Take(n)
        PROVE  Counters'
    BY <2>1, <2>3, ConnAssumption DEF Take, TypeOK, Counters
  <2>4. QED
    BY <1>4, <2>2, <2>3, FillTakes
<1>6. CASE Drain
  <2> DEFINE n == Accepted(dir)
  <2>1. n \in Nat /\ n <= len[dir] /\ n <= SndCap - (put[dir] - got[dir])
    BY MoveFacts DEF TypeOK
  <2>2. CASE UNCHANGED <<len, put>>
    BY <1>6, <1>k, <2>2 DEF Drain
  <2>3. CASE /\ len' = [len EXCEPT ![dir] = @ - n]
             /\ put' = [put EXCEPT ![dir] = @ + n]
    <3> HIDE DEF n
    <3>1. UNCHANGED <<sent, taken, got>>
      BY <1>6 DEF Drain
    <3>2. QED
      BY <2>1, <2>3, <3>1, ConnAssumption DEF TypeOK, Counters
  <2>4. QED
    BY <1>6, <2>2, <2>3 DEF Drain, free_slot
<1>7. CASE Finish \/ Cleanup \/ DrainNoMem
  BY <1>7, <1>k, <1>f DEF Finish, Cleanup, DrainNoMem, connVars, streamVars
<1>8. ASSUME NEW s \in Side, PeerFin(s) \/ PeerReset(s) PROVE Counters'
  BY <1>8, <1>k DEF PeerFin, PeerReset, connVars
<1>9. ASSUME NEW s \in Side, PeerSend(s) PROVE Counters'
  BY <1>9 DEF PeerSend, connVars, TypeOK, Counters
<1>5. ASSUME NEW s \in Side, PeerRead(s) PROVE Counters'
  <2>1. Other(s) \in Side
    BY OtherFacts
  <2>2. QED
    BY <1>5, <2>1, ConnAssumption DEF PeerRead, connVars, TypeOK, Counters
<1>10. CASE UNCHANGED vars
  BY <1>10, <1>k DEF vars
<1>11. QED
  BY <1>1, <1>2, <1>3, <1>4, <1>5, <1>6, <1>7, <1>8, <1>9, <1>10 DEF Next, Loop, Peers

LEMMA FlagsStep == IInv /\ [Next]_vars => Flags'
<1> SUFFICES ASSUME IInv, [Next]_vars PROVE Flags'
  OBVIOUS
<1> USE DEF IInv
<1>k. ASSUME UNCHANGED <<len, eof, shut, half, dir, gotEof, sent, taken, fin>>,
             \/ pc' = pc
             \/ pc # "settle" /\ (~gotEof \/ pc' = "done")
      PROVE  Flags'
  BY <1>k DEF Flags
<1>1. CASE PostAddPoll \/ ConnectEvent
  BY <1>1, <1>k
  DEF PostAddPoll, ConnectEvent, ConnectResult, free_slot, Flags, connVars, streamVars
<1>2. CASE EpollWait \/ BatchDone \/ SkipFill \/ Finish \/ Cleanup \/ DrainNoMem
  BY <1>2, <1>k
  DEF EpollWait, BatchDone, SkipFill, Finish, Cleanup, DrainNoMem, free_slot, Flags, connVars,
      streamVars
<1>3. ASSUME NEW s \in Side, ConnEvent(s) PROVE Flags'
  <2>1. pc = "dispatch" /\ ~gotEof
    BY <1>3 DEF ConnEvent, Flags
  <2>2. UNCHANGED <<len, eof, shut, half, gotEof, sent, taken, fin>>
    BY <1>3 DEF ConnEvent, free_slot, connVars, streamVars
  <2>3. QED
    BY <2>1, <2>2 DEF Flags
<1>4. CASE Fill
  <2>1. UNCHANGED <<eof, shut, half, dir, sent, fin>>
    BY <1>4 DEF Fill, free_slot
  <2>2. pc = "fill" /\ ~eof[dir] /\ ~gotEof
    BY <1>4 DEF Fill, Flags
  <2>3. CASE UNCHANGED <<len, taken, gotEof>> /\ pc' = "done"
    BY <2>1, <2>2, <2>3 DEF Flags
  <2>4. CASE ~(UNCHANGED <<len, taken, gotEof>> /\ pc' = "done")
    <3> DEFINE n == Least(Unread(dir), Room(dir))
    <3>1. pc' = "drain" /\ Take(n)
      BY <1>4, <2>4 DEF Fill, free_slot
    <3>2. gotEof' => fin[dir] /\ len[dir] + n < Chunk /\ len[dir] + n < PipeCap
      BY <1>4, <2>4 DEF Fill, free_slot
    <3>3. gotEof' => n = sent[dir] - taken[dir]
      <4>1. Room(dir) = Chunk - len[dir] \/ Room(dir) = PipeCap - len[dir]
        BY DEF Room, Least
      <4>2. n = Unread(dir) \/ n = Room(dir)
        BY DEF Least
      <4>3. n \in Nat /\ len[dir] \in Nat /\ Chunk \in Nat /\ PipeCap \in Nat
        BY MoveFacts, ConnAssumption DEF TypeOK
      <4>4. QED
        BY <3>2, <4>1, <4>2, <4>3 DEF Unread
    <3>4. gotEof' => taken'[dir] = sent[dir]
      <4>1. taken'[dir] = taken[dir] + n /\ taken[dir] \in Nat /\ sent[dir] \in Nat
        BY <3>1 DEF Take, TypeOK
      <4>2. QED
        BY <3>3, <4>1
    <3>5. \A d \in Side : d # dir => len'[d] = len[d] /\ taken'[d] = taken[d]
      BY <3>1 DEF Take, TypeOK
    <3> HIDE DEF n
    <3>6. QED
      BY <2>1, <2>2, <3>1, <3>2, <3>4, <3>5 DEF Flags
  <2>5. QED
    BY <2>3, <2>4
<1>5. CASE FillNoMem
  <2>1. \A d \in Side : d # dir => len'[d] = len[d] /\ taken'[d] = taken[d]
    BY <1>5 DEF FillNoMem, Take, TypeOK
  <2>2. QED
    BY <1>5, <2>1 DEF FillNoMem, Flags
<1>6. CASE Drain
  <2>1. UNCHANGED <<eof, shut, half, dir, gotEof, sent, taken, fin>> /\ pc = "drain"
    BY <1>6 DEF Drain, free_slot
  <2>2. CASE UNCHANGED len /\ pc' = "done"
    BY <2>1, <2>2 DEF Flags
  <2>3. CASE ~(UNCHANGED len /\ pc' = "done")
    <3>1. \A d \in Side : d # dir => len'[d] = len[d]
      BY <1>6, <2>3 DEF Drain, free_slot, TypeOK
    <3>2. pc' \in {"settle", "fill"} /\ (gotEof \/ eof[dir] => pc' = "settle")
      BY <1>6, <2>3 DEF Drain, free_slot
    <3>3. shut[dir] => len[dir] = 0 /\ len'[dir] = 0
      <4>1. len[dir] = 0 => Accepted(dir) = 0
        BY MoveFacts DEF TypeOK
      <4>2. QED
        BY <1>6, <2>3, <4>1 DEF Drain, free_slot, TypeOK, Flags
    <3>4. QED
      BY <2>1, <3>1, <3>2, <3>3 DEF Flags
  <2>4. QED
    BY <2>2, <2>3
<1>7. CASE Settle
  <2>1. pc = "settle" /\ gotEof' = FALSE /\ UNCHANGED <<len, sent, taken, fin>>
    BY <1>7 DEF Settle
  <2>2. /\ eof' = [eof EXCEPT ![dir] = eof[dir] \/ gotEof]
        /\ shut' = [shut EXCEPT ![dir] = @ \/ ShutdownDue(dir, eof[dir] \/ gotEof)]
        /\ half' = IF gotEof THEN ~eof[Other(dir)] ELSE half
    BY <1>7 DEF Settle, HalfClose
  <2>3. eof'[dir] = (eof[dir] \/ gotEof) /\ \A d \in Side : d # dir => eof'[d] = eof[d]
    BY <2>2 DEF TypeOK
  <2>4. /\ shut'[dir] = (shut[dir] \/ ShutdownDue(dir, eof[dir] \/ gotEof))
        /\ \A d \in Side : d # dir => shut'[d] = shut[d]
    BY <2>2 DEF TypeOK
  <2>5. \A d \in Side : /\ eof'[d] => fin'[d] /\ taken'[d] = sent'[d]
                        /\ shut'[d] => eof'[d] /\ len'[d] = 0
                        /\ eof'[d] /\ len'[d] = 0 => shut'[d]
    BY <2>1, <2>3, <2>4 DEF Flags, ShutdownDue
  <2>6. half' <=> (eof'["L"] # eof'["R"])
    <3>1. CASE ~gotEof
      BY <2>2, <2>3, <3>1 DEF Flags, Side, TypeOK
    <3>2. CASE gotEof
      BY <2>2, <2>3, <3>2 DEF Flags, Side, Other, TypeOK
    <3>3. QED
      BY <3>1, <3>2
  <2>7. QED
    BY <2>1, <2>5, <2>6 DEF Flags
<1>8. ASSUME NEW s \in Side, PeerSend(s) PROVE Flags'
  <2>1. \A d \in Side : fin[d] => sent'[d] = sent[d]
    BY <1>8 DEF PeerSend, TypeOK
  <2>2. QED
    BY <1>8, <2>1 DEF PeerSend, Flags, TypeOK, connVars, loopVars
<1>9. ASSUME NEW s \in Side, PeerFin(s) PROVE Flags'
  BY <1>9 DEF PeerFin, Flags, TypeOK, connVars, loopVars
<1>10. ASSUME NEW s \in Side, PeerRead(s) \/ PeerReset(s) PROVE Flags'
  BY <1>10 DEF PeerRead, PeerReset, connVars, loopVars, Flags
<1>11. CASE Handshake
  BY <1>11 DEF Handshake, connVars, loopVars, Flags
<1>12. CASE UNCHANGED vars
  BY <1>12 DEF vars, Flags
<1>13. QED
  BY <1>1, <1>2, <1>3, <1>4, <1>5, <1>6, <1>7, <1>8, <1>9, <1>10, <1>11, <1>12
  DEF Next, Loop, Peers

LEMMA LifetimeStep == IInv /\ [Next]_vars => Lifetime'
<1> SUFFICES ASSUME IInv, [Next]_vars PROVE Lifetime'
  OBVIOUS
<1> USE DEF IInv
<1>1. CASE PostAddPoll \/ ConnectEvent \/ EpollWait \/ BatchDone \/ SkipFill \/ Cleanup
           \/ DrainNoMem
  BY <1>1
  DEF PostAddPoll, ConnectEvent, ConnectResult, EpollWait, BatchDone, SkipFill, Cleanup,
      DrainNoMem, free_slot, Lifetime, connVars
<1>2. ASSUME NEW s \in Side, ConnEvent(s) PROVE Lifetime'
  BY <1>2 DEF ConnEvent, free_slot, Lifetime, connVars
<1>3. CASE Fill \/ FillNoMem \/ Drain
  BY <1>3 DEF Fill, FillNoMem, Drain, free_slot, Lifetime
<1>4. CASE Settle
  BY <1>4 DEF Settle, Lifetime
<1>5. CASE Finish
  <2>1. CASE FullyClosed /\ free_slot("clean")
    <3>1. \A d \in Side : shut[d]
      BY <1>5, <2>1 DEF Finish, FullyClosed, Flags
    <3>2. QED
      BY <2>1, <3>1 DEF free_slot, Lifetime
  <2>2. CASE ~(FullyClosed /\ free_slot("clean"))
    BY <1>5, <2>2 DEF Finish, Lifetime, connVars
  <2>3. QED
    BY <2>1, <2>2
<1>6. ASSUME NEW s \in Side, PeerSend(s) \/ PeerFin(s) \/ PeerRead(s) \/ PeerReset(s)
      PROVE  Lifetime'
  BY <1>6 DEF PeerSend, PeerFin, PeerRead, PeerReset, Lifetime, connVars, loopVars
<1>7. CASE Handshake \/ UNCHANGED vars
  BY <1>7 DEF Handshake, Lifetime, connVars, loopVars, vars
<1>8. QED
  BY <1>1, <1>2, <1>3, <1>4, <1>5, <1>6, <1>7 DEF Next, Loop, Peers

LEMMA ConnectedStep == IInv /\ [Next]_vars => Connected'
<1> SUFFICES ASSUME IInv, [Next]_vars PROVE Connected'
  OBVIOUS
<1> USE DEF IInv
<1>1. CASE PostAddPoll
  <2>1. PollBits("R") \cap {"OUT", "ERR", "HUP"} # {} => syn # "syn_sent"
    BY PollConnected DEF Connected
  <2>2. QED
    BY <1>1, <2>1
    DEF PostAddPoll, ConnectResult, free_slot, Connected, connVars, streamVars
<1>2. CASE EpollWait
  <2>1. events'["R"] # {} => PollBits("R") # {}
    BY <1>2 DEF EpollWait, Revents, Side
  <2>2. PollBits("R") # {} => syn # "syn_sent"
    BY PollConnected DEF Connected
  <2>3. QED
    BY <1>2, <2>1, <2>2 DEF EpollWait, Connected, connVars, streamVars
<1>3. CASE ConnectEvent
  BY <1>3 DEF ConnectEvent, ConnectResult, free_slot, Connected, connVars, streamVars
<1>4. ASSUME NEW s \in Side, ConnEvent(s) PROVE Connected'
  BY <1>4 DEF ConnEvent, free_slot, Connected, TypeOK, connVars, streamVars, Side
<1>5. CASE Fill \/ FillNoMem \/ Drain
  BY <1>5 DEF Fill, FillNoMem, Drain, free_slot, Connected
<1>6. CASE Settle
  BY <1>6 DEF Settle, Connected, Handshaking, Other, Side, TypeOK
<1>7. CASE Finish \/ Cleanup \/ DrainNoMem \/ BatchDone \/ SkipFill
  BY <1>7
  DEF Finish, Cleanup, DrainNoMem, BatchDone, SkipFill, free_slot, Connected, connVars,
      streamVars
<1>8. ASSUME NEW s \in Side, PeerSend(s) \/ PeerFin(s) \/ PeerRead(s) PROVE Connected'
  BY <1>8 DEF PeerSend, PeerFin, PeerRead, Connected, connVars, loopVars
<1>9. ASSUME NEW s \in Side, PeerReset(s) PROVE Connected'
  BY <1>9 DEF PeerReset, Reachable, Handshaking, Connected, TypeOK, connVars, loopVars, Side
<1>10. CASE Handshake \/ UNCHANGED vars
  BY <1>10 DEF Handshake, Connected, connVars, loopVars, vars
<1>11. QED
  BY <1>1, <1>2, <1>3, <1>4, <1>5, <1>6, <1>7, <1>8, <1>9, <1>10 DEF Next, Loop, Peers

\* The unconditional MOD of conn_watch leaves nothing uncovered.
LEMMA WatchCovers ==
  ASSUME TypeOK, conn_watch, syn # "syn_sent", UNCHANGED <<len, eof>>,
         UNCHANGED streamVars
  PROVE  mask' = [s \in Side |-> Want(s)'] /\ \A s \in Side : Covered(s)'
<1>1. \A s \in Side : Want(s)' = Want(s)
  BY DEF Want
<1>2. mask' = [s \in Side |-> Want(s)']
  BY <1>1 DEF conn_watch
<1>3. ASSUME NEW s \in Side PROVE Covered(s)'
  <2>1. ready'[s] = (ready[s] \/ Revents(s, Want(s)) # {})
    BY DEF conn_watch
  <2>2. Other(s) \in Side
    BY OtherFacts
  <2>3. ~eof[s] /\ len[s] < Chunk /\ (Unread(s) > 0 \/ fin[s]) =>
          "IN" \in PollBits(s) \cap Want(s)
    BY DEF PollBits, Handshaking, Want, Bits
  <2>4. len[Other(s)] > 0 /\ Space(s) > 0 => "OUT" \in PollBits(s) \cap Want(s)
    BY DEF PollBits, Handshaking, Want, Bits
  <2>5. Unread(s)' = Unread(s) /\ Space(s)' = Space(s)
    BY DEF Unread, Space, Handshaking, streamVars
  <2>6. QED
    BY <2>1, <2>2, <2>3, <2>4, <2>5 DEF Covered, Revents, streamVars
<1>4. QED
  BY <1>2, <1>3

\* While the loop handles nothing of this connection, only peers step: each
\* change that could uncover a socket comes with a wake-up of that socket.
LEMMA PeersKeepCover ==
  ASSUME TypeOK, Counters, mask = [s \in Side |-> Want(s)], syn # "syn_sent",
         \A s \in Side : Covered(s),
         NEW p \in Side, PeerSend(p) \/ PeerFin(p) \/ PeerRead(p) \/ PeerReset(p)
  PROVE  \A s \in Side : Covered(s)'
<1>1. UNCHANGED <<len, eof, taken, put, syn>>
  BY DEF PeerSend, PeerFin, PeerRead, PeerReset, connVars
<1>2. \A s \in Side : ready[s] => ready'[s]
  BY WakeFacts DEF PeerSend, PeerFin, PeerRead, PeerReset, Bits
<1>3. ASSUME NEW s \in Side, ~eof[s], len[s] < Chunk, (Unread(s) > 0 \/ fin[s])'
      PROVE  ready'[s]
  <2>1. CASE Unread(s) > 0 \/ fin[s]
    BY <1>2, <1>3, <2>1 DEF Covered
  <2>2. CASE ~(Unread(s) > 0 \/ fin[s])
    <3>1. p = s /\ (PeerSend(s) \/ PeerFin(s))
      BY <1>1, <1>3, <2>2 DEF PeerSend, PeerFin, PeerRead, PeerReset, Unread, TypeOK
    <3>2. "IN" \in mask[s]
      BY <1>3 DEF Want, Bits
    <3>3. QED
      BY <3>1, <3>2 DEF PeerSend, PeerFin, Wake, WakeAny, TypeOK
  <2>3. QED
    BY <2>1, <2>2
<1>4. ASSUME NEW s \in Side, len[Other(s)] > 0, Space(s)' > 0
      PROVE  ready'[s]
  <2>0. Other(s) \in Side
    BY OtherFacts
  <2>1. CASE Space(s) > 0
    BY <1>2, <1>4, <2>1 DEF Covered
  <2>2. CASE ~(Space(s) > 0)
    <3>0. Space(s) \in Nat
      BY <2>0, ConnAssumption DEF Space, TypeOK, Counters
    <3>1. PeerRead(p) /\ got'[Other(s)] # got[Other(s)]
      BY <1>1, <1>4, <2>2 DEF PeerSend, PeerFin, PeerReset, PeerRead, Space, Handshaking
    <3>2. Other(p) = Other(s)
      BY <3>1, <2>0 DEF PeerRead, TypeOK
    <3>3. p = s
      BY <3>2, OtherFacts
    <3>4. "OUT" \in mask[s]
      BY <1>4 DEF Want, Bits
    <3>5. QED
      <4>1. Space(s) = 0
        BY <2>2, <3>0
      <4>2. Wake(s, "OUT")
        BY <3>1, <3>3, <4>1 DEF PeerRead
      <4>3. QED
        BY <3>4, <4>2 DEF Wake, TypeOK
  <2>3. QED
    BY <2>1, <2>2
<1>5. QED
  BY <1>1, <1>3, <1>4 DEF Covered

LEMMA ArmedStep == IInv /\ [Next]_vars => Armed'
<1> SUFFICES ASSUME IInv, [Next]_vars,
                    ~connecting', pc' \in {"wait", "dispatch"}
             PROVE  /\ mask' = [s \in Side |-> Want(s)']
                    /\ (pc' = "wait" \/ (\A s \in Side : events'[s] = {})) =>
                          \A s \in Side : Covered(s)'
  BY DEF Armed
<1> USE DEF IInv
<1>k. ASSUME UNCHANGED <<len, eof>>, UNCHANGED streamVars, UNCHANGED <<mask, ready>>
      PROVE  \A s \in Side : Want(s)' = Want(s) /\ (Covered(s) => Covered(s)')
  BY <1>k DEF Want, Covered, Unread, Space, Handshaking, streamVars
<1>1. CASE PostAddPoll \/ ConnectEvent
  <2>1. CASE connecting
    <3>1. conn_watch /\ UNCHANGED <<len, eof>> /\ UNCHANGED streamVars
      BY <1>1, <2>1
      DEF PostAddPoll, ConnectEvent, ConnectResult, free_slot, connVars
    <3>2. syn # "syn_sent"
      BY <1>1, <3>1, ConnectedStep DEF Connected, streamVars
    <3>3. QED
      BY <3>1, <3>2, WatchCovers
  <2>2. CASE ~connecting
    BY <1>1, <2>2 DEF PostAddPoll, ConnectEvent, Connected
  <2>3. QED
    BY <2>1, <2>2
<1>2. CASE EpollWait
  <2>1. UNCHANGED <<len, eof, mask>> /\ pc = "wait" /\ ~connecting /\ pc' = "dispatch"
    BY <1>2 DEF EpollWait, connVars
  <2>2. PICK s \in Side : Pending(s)
    BY <1>2 DEF EpollWait
  <2>3. events'[s] # {}
    BY <1>2, <2>2 DEF EpollWait, Pending
  <2>4. QED
    BY <2>1, <2>3 DEF Armed, Want
<1>3. ASSUME NEW s \in Side, ConnEvent(s) PROVE FALSE
  BY <1>3 DEF ConnEvent, free_slot
<1>4. CASE BatchDone
  BY <1>4, <1>k DEF BatchDone, Armed, connVars, epollVars
<1>5. CASE Fill \/ FillNoMem \/ SkipFill \/ Drain \/ Settle \/ Cleanup \/ DrainNoMem
  BY <1>5 DEF Fill, FillNoMem, SkipFill, Drain, Settle, Cleanup, DrainNoMem, free_slot
<1>6. CASE Finish
  <2>1. conn_watch /\ UNCHANGED <<len, eof>> /\ UNCHANGED streamVars /\ ~connecting
    BY <1>6 DEF Finish, free_slot, connVars
  <2>2. QED
    BY <2>1, WatchCovers DEF Connected
<1>7. ASSUME NEW p \in Side, PeerSend(p) \/ PeerFin(p) \/ PeerRead(p) \/ PeerReset(p)
      PROVE  /\ mask' = [s \in Side |-> Want(s)']
             /\ (pc' = "wait" \/ (\A s \in Side : events'[s] = {})) =>
                   \A s \in Side : Covered(s)'
  <2>1. UNCHANGED connVars /\ UNCHANGED loopVars /\ UNCHANGED mask
    BY <1>7 DEF PeerSend, PeerFin, PeerRead, PeerReset
  <2>2. mask' = [s \in Side |-> Want(s)']
    BY <2>1 DEF Armed, Want, connVars, loopVars
  <2>3. syn # "syn_sent"
    BY <2>1 DEF Connected, connVars
  <2>4. QED
    BY <1>7, <2>1, <2>2, <2>3, PeersKeepCover DEF Armed, connVars, loopVars
<1>8. CASE Handshake
  BY <1>8 DEF Handshake, Connected, connVars
<1>9. CASE UNCHANGED vars
  BY <1>9, <1>k DEF vars, Armed, streamVars
<1>10. QED
  BY <1>1, <1>2, <1>3, <1>4, <1>5, <1>6, <1>7, <1>8, <1>9 DEF Next, Loop, Peers

LEMMA RestingStep == IInv /\ [Next]_vars => Resting'
<1> SUFFICES ASSUME IInv, [Next]_vars, pc' \in {"postadd", "wait", "dispatch"}
             PROVE  ~FullyClosed'
  BY DEF Resting
<1>k. ASSUME UNCHANGED <<len, eof>>, ~FullyClosed PROVE ~FullyClosed'
  BY <1>k DEF FullyClosed
<1>1. CASE PostAddPoll \/ ConnectEvent \/ EpollWait \/ BatchDone
  BY <1>1, <1>k
  DEF PostAddPoll, ConnectEvent, ConnectResult, EpollWait, BatchDone, free_slot, connVars,
      IInv, Resting
<1>2. CASE (\E s \in Side : ConnEvent(s)) \/ Fill \/ FillNoMem \/ SkipFill \/ Drain \/ Settle
           \/ Cleanup \/ DrainNoMem
  BY <1>2 DEF ConnEvent, Fill, FillNoMem, SkipFill, Drain, Settle, Cleanup, DrainNoMem, free_slot
<1>3. CASE Finish
  BY <1>3, <1>k DEF Finish, free_slot, connVars
<1>4. CASE (\E s \in Side : PeerSend(s) \/ PeerFin(s) \/ PeerRead(s) \/ PeerReset(s))
           \/ Handshake \/ UNCHANGED vars
  BY <1>4, <1>k
  DEF PeerSend, PeerFin, PeerRead, PeerReset, Handshake, connVars, loopVars, vars, IInv, Resting
<1>5. QED
  BY <1>1, <1>2, <1>3, <1>4 DEF Next, Loop, Peers

LEMMA RoundsStep == IInv /\ [Next]_vars => Rounds'
<1> SUFFICES ASSUME IInv, [Next]_vars,
                    pc' = "drain", ~gotEof', ~eagain', ~eof'[dir'], ~MayNoMem
             PROVE  len'[dir'] = Chunk
  BY DEF Rounds
<1> USE DEF IInv
<1>1. CASE Fill
  <2> DEFINE n == Least(Unread(dir), Room(dir))
  <2>1. n \in Nat /\ n <= Chunk - len[dir] /\ len[dir] \in Nat /\ Chunk \in Nat
    BY MoveFacts, ConnAssumption DEF TypeOK
  <2> HIDE DEF n
  <2>2. /\ dir' = dir /\ len' = [len EXCEPT ![dir] = @ + n]
        /\ ~(len[dir] + n < Chunk)
    BY <1>1, Zenon DEF Fill, free_slot, Take, n
  <2>3. len'[dir'] = len[dir] + n
    BY <2>2 DEF TypeOK
  <2>4. QED
    BY <2>1, <2>2, <2>3
<1>2. CASE SkipFill
  BY <1>2 DEF SkipFill, connVars
<1>3. CASE PostAddPoll \/ ConnectEvent \/ EpollWait \/ (\E s \in Side : ConnEvent(s)) \/ BatchDone
           \/ FillNoMem \/ Drain \/ Settle \/ Finish \/ Cleanup \/ DrainNoMem
  BY <1>3
  DEF PostAddPoll, ConnectEvent, ConnectResult, EpollWait, ConnEvent, BatchDone, FillNoMem,
      Drain, Settle, Finish, Cleanup, DrainNoMem, free_slot
<1>4. CASE (\E s \in Side : PeerSend(s) \/ PeerFin(s) \/ PeerRead(s) \/ PeerReset(s))
           \/ Handshake \/ UNCHANGED vars
  BY <1>4
  DEF PeerSend, PeerFin, PeerRead, PeerReset, Handshake, connVars, loopVars, vars, Rounds
<1>5. QED
  BY <1>1, <1>2, <1>3, <1>4 DEF Next, Loop, Peers

\* A connect that has ended, while nothing was sent on it, reports EPOLLOUT.
LEMMA ConnectOut ==
  ASSUME TypeOK, Counters, syn # "syn_sent", put["L"] = 0
  PROVE  "OUT" \in PollBits("R")
<1>1. got["L"] \in Nat /\ got["L"] <= 0 /\ SndCap \in Nat \ {0}
  BY ConnAssumption DEF TypeOK, Counters, Side
<1>2. Space("R") > 0
  BY <1>1 DEF Space, Handshaking, Other
<1>3. QED
  BY <1>2 DEF PollBits, Handshaking, Bits

LEMMA WatchingStep == IInv /\ [Next]_vars => Watching'
<1> SUFFICES ASSUME IInv, [Next]_vars, connecting', ~fin'["L"], life' = "open"
             PROVE  /\ pc' \in {"postadd", "wait", "dispatch"} /\ put'["L"] = 0
                    /\ mask'["L"] = {"RDHUP"} /\ mask'["R"] = {"OUT", "RDHUP"} /\ ~et'["R"]
                    /\ syn' # "syn_sent" => ready'["R"]
                    /\ events'["L"] # {} => "ERR" \in events'["L"]
  BY DEF Watching
<1> USE DEF IInv
<1>0. connecting /\ ~fin["L"] /\ life = "open"
  <2>1. CASE PostAddPoll \/ ConnectEvent
    BY <2>1 DEF PostAddPoll, ConnectEvent, ConnectResult, free_slot, connVars, streamVars
  <2>2. CASE EpollWait \/ (\E s \in Side : ConnEvent(s)) \/ BatchDone \/ SkipFill \/ Finish
             \/ Cleanup \/ DrainNoMem
    BY <2>2
    DEF EpollWait, ConnEvent, BatchDone, SkipFill, Finish, Cleanup, DrainNoMem, free_slot,
        connVars, streamVars
  <2>3. CASE Fill \/ FillNoMem \/ Drain \/ Settle
    BY <2>3 DEF Fill, FillNoMem, Drain, Settle, free_slot
  <2>4. CASE \E s \in Side : PeerFin(s)
    BY <2>4 DEF PeerFin, connVars, TypeOK, Side
  <2>5. CASE (\E s \in Side : PeerSend(s) \/ PeerRead(s) \/ PeerReset(s)) \/ Handshake
             \/ UNCHANGED vars
    BY <2>5 DEF PeerSend, PeerRead, PeerReset, Handshake, connVars, vars
  <2>6. QED
    BY <2>1, <2>2, <2>3, <2>4, <2>5 DEF Next, Loop, Peers
<1>w. /\ pc \in {"postadd", "wait", "dispatch"} /\ put["L"] = 0
      /\ mask["L"] = {"RDHUP"} /\ mask["R"] = {"OUT", "RDHUP"} /\ ~et["R"]
      /\ syn # "syn_sent" => ready["R"]
      /\ events["L"] # {} => "ERR" \in events["L"]
  BY <1>0 DEF Watching
<1>1. CASE PostAddPoll \/ BatchDone
  BY <1>1, <1>w
  DEF PostAddPoll, ConnectResult, free_slot, BatchDone, connVars, streamVars, epollVars
<1>2. CASE ConnectEvent
  BY <1>2, <1>w
  DEF ConnectEvent, ConnectResult, free_slot, streamVars, connVars, epollVars, TypeOK, Side
<1>3. CASE EpollWait
  <2>1. /\ pc' = "dispatch" /\ UNCHANGED <<put, mask, et, syn>>
        /\ events'["L"] \subseteq Revents("L", mask["L"])
        /\ ready'["R"] = (Pending("R") /\ ~et["R"])
    BY <1>3 DEF EpollWait, connVars, streamVars, Side
  <2>2. events'["L"] # {} => "ERR" \in events'["L"]
    <3>1. events'["L"] # {} => events'["L"] = Revents("L", mask["L"])
      BY <1>3 DEF EpollWait, Side
    <3>2. Revents("L", mask["L"]) # {} => err["L"]
      BY <1>0, <1>w DEF Revents, PollBits
    <3>3. err["L"] => "ERR" \in Revents("L", mask["L"])
      BY DEF Revents, PollBits, Bits
    <3>4. QED
      BY <3>1, <3>2, <3>3
  <2>3. ASSUME syn # "syn_sent" PROVE Pending("R")
    BY <1>w, <2>3, ConnectOut DEF Pending, Revents
  <2>4. QED
    BY <1>w, <2>1, <2>2, <2>3
<1>4. ASSUME NEW s \in Side, ConnEvent(s) PROVE FALSE
  BY <1>0, <1>4, <1>w DEF ConnEvent, free_slot, Side
<1>5. CASE Fill \/ FillNoMem \/ SkipFill \/ Drain \/ Settle \/ Finish
  BY <1>5, <1>w DEF Fill, FillNoMem, SkipFill, Drain, Settle, Finish
<1>6. CASE Cleanup \/ DrainNoMem
  BY <1>6 DEF Cleanup, DrainNoMem, free_slot
<1>7. ASSUME NEW s \in Side, PeerSend(s) \/ PeerFin(s) \/ PeerRead(s) \/ PeerReset(s)
      PROVE  /\ UNCHANGED <<pc, put, mask, et, events, syn>>
             /\ \A t \in Side : ready[t] => ready'[t]
  <2>1. \A t \in Side : ready[t] => ready'[t]
    BY <1>7, WakeFacts DEF PeerSend, PeerFin, PeerRead, PeerReset, Bits
  <2>2. QED
    BY <1>7, <2>1 DEF PeerSend, PeerFin, PeerRead, PeerReset, loopVars
<1>8. CASE Handshake
  BY <1>8, <1>w DEF Handshake, WakeAny, loopVars, TypeOK, Side
<1>9. CASE UNCHANGED vars
  BY <1>9, <1>w DEF vars
<1>10. QED
  BY <1>1, <1>2, <1>3, <1>4, <1>5, <1>6, <1>7, <1>8, <1>9, <1>w DEF Next, Loop, Peers, Side

-----------------------------------------------------------------------------
(***************************************************************************)
(* The theorems.                                                           *)
(***************************************************************************)
THEOREM Invariance == Spec => []IInv
<1>1. IInv /\ [Next]_vars => IInv'
  BY TypeStep, CountersStep, FlagsStep, LifetimeStep, ConnectedStep, ArmedStep, RestingStep,
     RoundsStep, WatchingStep DEF IInv
<1>2. QED
  BY <1>1, InitIInv, PTL DEF Spec

\* Every reachable state is well typed: in particular no length ever goes
\* negative, so the unsigned arithmetic of pump never wraps.
THEOREM TypeCorrect == Spec => []TypeOK
BY Invariance, PTL DEF IInv

\* shutdown_write is called only when the source has closed and every byte it
\* sent has been spliced into the destination.
THEOREM NoTruncation == Spec => []EofAfterData
<1>1. IInv => EofAfterData
  BY DEF IInv, TypeOK, Counters, Flags, EofAfterData
<1>2. QED
  BY <1>1, Invariance, PTL

\* A connection reported "Fully Closed" relayed both streams to their end.
THEOREM CleanClose == Spec => []CleanMeansComplete
<1>1. IInv => CleanMeansComplete
  BY DEF IInv, TypeOK, Counters, Flags, Lifetime, CleanMeansComplete
<1>2. QED
  BY <1>1, Invariance, PTL

\* The unconditional MOD at the end of every handler loses no edge: the loop
\* never sleeps on a readable source, on a writable destination it has work
\* for, or on a connect that has ended.
THEOREM NoStall == Spec => []NoLostWakeup
<1>1. ASSUME IInv PROVE NoLostWakeup
  <2>1. ASSUME AtRest, ~connecting, NEW s \in Side
        PROVE  /\ ~eof[s] /\ len[s] < Chunk /\ (Unread(s) > 0 \/ fin[s]) => Pending(s)
               /\ len[Other(s)] > 0 /\ Space(s) > 0 => Pending(s)
    <3>1. mask[s] = Want(s) /\ Covered(s) /\ syn # "syn_sent"
      BY <1>1, <2>1 DEF IInv, Armed, Connected, AtRest
    <3>2. ASSUME ~eof[s], len[s] < Chunk, Unread(s) > 0 \/ fin[s] PROVE Pending(s)
      <4>1. "IN" \in Revents(s, mask[s])
        BY <3>1, <3>2 DEF Revents, PollBits, Handshaking, Want, Bits
      <4>2. QED
        BY <3>1, <3>2, <4>1 DEF Covered, Pending
    <3>3. ASSUME len[Other(s)] > 0, Space(s) > 0 PROVE Pending(s)
      <4>1. "OUT" \in Revents(s, mask[s])
        BY <3>1, <3>3 DEF Revents, PollBits, Handshaking, Want, Bits
      <4>2. QED
        BY <3>1, <3>3, <4>1 DEF Covered, Pending
    <3>4. QED
      BY <3>2, <3>3
  <2>2. ASSUME AtRest, connecting, syn # "syn_sent", ~fin["L"] PROVE Pending("R")
    <3>1. put["L"] = 0 /\ mask["R"] = {"OUT", "RDHUP"} /\ ready["R"]
      BY <1>1, <2>2 DEF IInv, Watching, AtRest
    <3>2. "OUT" \in PollBits("R")
      BY <1>1, <2>2, <3>1, ConnectOut DEF IInv
    <3>3. QED
      BY <3>1, <3>2 DEF Pending, Revents
  <2>3. QED
    BY <2>1, <2>2 DEF NoLostWakeup
<1>2. QED
  BY <1>1, Invariance, PTL

\* Whatever the sizes, an event that epoll_wait reports gives the handler
\* something to do, but for the two spins that NoIdleTurn names.
THEOREM NoSpin == Spec => []NoIdleTurn
<1>1. ASSUME IInv PROVE NoIdleTurn
  <2> SUFFICES ASSUME AtRest, ~connecting, NEW s \in Side, Pending(s), \A d \in Side : ~err[d]
               PROVE  \E d \in Side :
                      \/ CanFill(d) \/ CanDrain(d)
                      \/ Congested(d) /\ (fin[d] \/ PipeCap < Chunk)
    BY DEF NoIdleTurn
  <2>0. /\ TypeOK /\ Counters /\ Flags /\ ~FullyClosed /\ mask[s] = Want(s)
        /\ Other(s) \in Side /\ Other(s) # s /\ Other(Other(s)) = s
    BY <1>1, OtherFacts DEF IInv, Armed, Resting, AtRest
  <2>n. /\ Chunk \in Nat \ {0} /\ PipeCap \in Nat \ {0} /\ SndCap \in Nat
        /\ \A d \in Side : /\ len[d] \in Nat /\ len[d] <= Chunk /\ len[d] <= PipeCap
                           /\ Space(Other(d)) \in Nat
    BY <2>0, SpaceFacts, ConnAssumption DEF TypeOK, Counters
  <2>1. PICK b \in PollBits(s) : b \in Want(s) \cup {"ERR", "HUP"}
    BY <2>0 DEF Pending, Revents
  <2>2. ASSUME ~eof[s], fin[s] \/ (b = "IN" /\ Unread(s) > 0 /\ len[s] < Chunk)
        PROVE  CanFill(s) \/ CanDrain(s) \/ (Congested(s) /\ (fin[s] \/ PipeCap < Chunk))
    <3>1. CASE Room(s) > 0
      BY <2>2, <3>1 DEF CanFill
    <3>2. CASE ~(Room(s) > 0)
      <4>1. len[s] > 0 /\ (len[s] = Chunk \/ (len[s] = PipeCap /\ PipeCap < Chunk))
        BY <2>n, <3>2 DEF Room, Least
      <4>2. CanDrain(s) \/ Congested(s)
        BY <2>n, <4>1 DEF CanDrain, Congested
      <4>3. fin[s] \/ PipeCap < Chunk
        BY <2>2, <2>n, <4>1
      <4>4. QED
        BY <4>2, <4>3
    <3>3. QED
      BY <3>1, <3>2
  <2>3. CASE b = "IN" \/ b = "RDHUP"
    <3>1. ~eof[s] /\ (b = "IN" => len[s] < Chunk) /\ (b = "RDHUP" => fin[s])
          /\ (b = "IN" => Unread(s) > 0 \/ fin[s])
      BY <2>1, <2>3 DEF PollBits, Want
    <3>2. QED
      BY <2>2, <2>3, <3>1
  <2>4. CASE b = "OUT"
    <3>1. len[Other(s)] > 0 /\ (Space(s) > 0 \/ shut[Other(s)])
      BY <2>1, <2>4 DEF PollBits, Want
    <3>2. ~shut[Other(s)]
      BY <2>0, <3>1 DEF Flags
    <3>3. CanDrain(Other(s))
      BY <2>0, <3>1, <3>2 DEF CanDrain
    <3>4. QED
      BY <2>0, <3>3
  <2>5. CASE b = "HUP"
    <3>1. fin[s] /\ shut[Other(s)] /\ eof[Other(s)] /\ len[Other(s)] = 0
      BY <2>0, <2>1, <2>5 DEF PollBits, Flags
    <3>2. CASE ~eof[s]
      BY <2>2, <3>1, <3>2
    <3>3. CASE eof[s]
      <4>1. len[s] # 0
        BY <2>0, <3>1, <3>3 DEF FullyClosed, Side, Other
      <4>2. CanDrain(s) \/ Congested(s)
        BY <2>n, <4>1 DEF CanDrain, Congested
      <4>3. QED
        BY <3>1, <4>2
    <3>4. QED
      BY <3>2, <3>3
  <2>6. CASE b = "ERR"
    BY <2>1, <2>6 DEF PollBits
  <2>7. QED
    BY <2>1, <2>3, <2>4, <2>5, <2>6 DEF Want
<1>2. QED
  BY <1>1, Invariance, PTL

\* Without ENOMEM every round of pump but the last moves a whole splice_chunk,
\* so pump ends once the bytes that are there have been moved.
THEOREM RoundsMoveChunks == Spec => RoundsFull
<1>1. ASSUME IInv, [Next]_vars, pc = "drain", pc' = "fill", ~MayNoMem
      PROVE  put'[dir] = put[dir] + Chunk
  <2>1. Drain
    BY <1>1
    DEF Next, Loop, Peers, PostAddPoll, ConnectEvent, EpollWait, ConnEvent, BatchDone, Fill,
        FillNoMem, SkipFill, Settle, Finish, Cleanup, DrainNoMem, PeerSend, PeerFin, PeerRead,
        PeerReset, Handshake, loopVars, vars
  <2>2. /\ put' = [put EXCEPT ![dir] = @ + Accepted(dir)]
        /\ ~gotEof /\ ~eof[dir] /\ ~eagain /\ ~(len[dir] > Accepted(dir))
    BY <1>1, <2>1 DEF Drain, free_slot
  <2>3. len[dir] = Chunk
    BY <1>1, <2>2 DEF IInv, Rounds
  <2>4. Accepted(dir) \in Nat /\ Accepted(dir) <= len[dir] /\ len[dir] \in Nat
    BY <1>1, MoveFacts DEF IInv, TypeOK
  <2>5. put'[dir] = put[dir] + Accepted(dir)
    BY <1>1, <2>2 DEF IInv, TypeOK
  <2>6. QED
    BY <2>2, <2>3, <2>4, <2>5
<1>2. IInv /\ [Next]_vars => [pc = "drain" /\ pc' = "fill" /\ ~MayNoMem
                              => put'[dir] = put[dir] + Chunk]_vars
  BY <1>1
<1>3. QED
  BY <1>2, Invariance, PTL DEF Spec, RoundsFull

\* half_close_since is set exactly while one direction is at EOF.
THEOREM HalfCloseExact == Spec => []HalfCloseClock
<1>1. IInv => HalfCloseClock
  BY DEF IInv, Flags, HalfCloseClock
<1>2. QED
  BY <1>1, Invariance, PTL

-----------------------------------------------------------------------------
(***************************************************************************)
(* The connection implements RelayStream.                                  *)
(***************************************************************************)
streams == <<sent, fin, put, shut, life>>

LEMMA RefineInit == Init => Stream!Init
BY DEF Init, Stream!Init

LEMMA RefineStep == IInv /\ IInv' /\ [Next]_vars => [Stream!Next]_streams
<1> SUFFICES ASSUME IInv, IInv', Next PROVE Stream!Next \/ UNCHANGED streams
  BY DEF vars, streams
<1> USE DEF IInv
<1>f. ASSUME NEW why \in {"error", "timeout"}, free_slot(why), pc # "done",
             UNCHANGED <<sent, fin, put>>
      PROVE  Stream!Next
  BY <1>f DEF free_slot, Lifetime, Stream!Next, Stream!Abort
<1>1. CASE PostAddPoll \/ ConnectEvent
  BY <1>1, <1>f
  DEF PostAddPoll, ConnectEvent, ConnectResult, streams, connVars, streamVars
<1>2. ASSUME NEW s \in Side, ConnEvent(s) PROVE Stream!Next \/ UNCHANGED streams
  BY <1>2, <1>f DEF ConnEvent, streams, connVars, streamVars
<1>3. CASE EpollWait \/ BatchDone \/ SkipFill \/ Handshake \/ FillNoMem
  BY <1>3
  DEF EpollWait, BatchDone, SkipFill, Handshake, FillNoMem, streams, connVars, streamVars
<1>4. CASE Fill
  BY <1>4, <1>f DEF Fill, streams
<1>5. CASE Drain
  <2> DEFINE n == Accepted(dir)
  <2>1. CASE free_slot("error") /\ UNCHANGED put
    BY <1>5, <2>1, <1>f DEF Drain
  <2>2. CASE /\ put' = [put EXCEPT ![dir] = @ + n]
             /\ UNCHANGED <<sent, fin, shut, life>>
             /\ len[dir] = 0 \/ ~shut[dir]
    <3>1. n \in Nat /\ n <= len[dir] /\ len[dir] \in Nat
          /\ sent[dir] \in Nat /\ put[dir] \in Nat /\ n <= sent[dir] - put[dir]
      BY MoveFacts DEF TypeOK, Counters
    <3>2. CASE n = 0
      <4>1. put' = put
        BY <2>2, <3>1, <3>2 DEF TypeOK
      <4>2. QED
        BY <2>2, <4>1 DEF streams
    <3>3. CASE n # 0
      <4>1. n \in 1 .. (sent[dir] - put[dir]) /\ ~shut[dir]
        BY <2>2, <3>1, <3>3
      <4>2. life = "open" /\ dir \in Side
        BY <1>5 DEF Drain, Lifetime, TypeOK
      <4> HIDE DEF n
      <4>3. Stream!Deliver(dir)
        BY <2>2, <4>1 DEF Stream!Deliver
      <4>4. QED
        BY <4>2, <4>3 DEF Stream!Next
    <3>4. QED
      BY <3>2, <3>3
  <2>3. QED
    BY <1>5, <2>1, <2>2 DEF Drain
<1>6. CASE Settle
  <2>1. UNCHANGED <<sent, fin, put, life>> /\ life = "open" /\ dir \in Side
    BY <1>6 DEF Settle, Lifetime, TypeOK
  <2>2. PICK x \in BOOLEAN : x = (shut[dir] \/ ShutdownDue(dir, eof[dir] \/ gotEof))
    OBVIOUS
  <2>3. shut' = [shut EXCEPT ![dir] = x]
    BY <1>6, <2>2 DEF Settle
  <2>4. CASE x = FALSE
    <3>1. shut[dir] = FALSE
      BY <2>1, <2>4, <2>2 DEF TypeOK
    <3>2. shut' = shut
      BY <2>4, <2>3, <3>1 DEF TypeOK
    <3>3. QED
      BY <2>1, <3>2 DEF streams
  <2>5. CASE x = TRUE
    <3>1. shut' = [shut EXCEPT ![dir] = TRUE] /\ shut'[dir]
      BY <2>1, <2>5, <2>3 DEF TypeOK
    <3>2. fin[dir] /\ put[dir] = sent[dir]
      BY <2>1, <3>1 DEF TypeOK, Counters, Flags
    <3>3. Stream!End(dir)
      BY <2>1, <3>1, <3>2 DEF Stream!End
    <3>4. QED
      BY <2>1, <3>3 DEF Stream!Next
  <2>6. QED
    BY <2>4, <2>5
<1>7. CASE Finish
  <2>1. CASE free_slot("clean") /\ FullyClosed
    <3>1. UNCHANGED <<sent, fin, put, shut>> /\ life = "open" /\ life' = "clean"
      BY <1>7, <2>1 DEF Finish, free_slot, Lifetime, streamVars
    <3>2. \A d \in Side : shut[d]
      BY <1>7, <2>1 DEF Finish, FullyClosed, Flags
    <3>3. QED
      BY <3>1, <3>2 DEF Stream!Next, Stream!Finish
  <2>2. CASE ~(free_slot("clean") /\ FullyClosed)
    BY <1>7, <2>2 DEF Finish, streams, connVars, streamVars
  <2>3. QED
    BY <2>1, <2>2
<1>8. CASE Cleanup \/ DrainNoMem
  BY <1>8, <1>f DEF Cleanup, DrainNoMem, streamVars
<1>9. ASSUME NEW s \in Side, PeerSend(s) PROVE Stream!Next
  BY <1>9 DEF PeerSend, Reachable, connVars, Stream!Next, Stream!Send
<1>10. ASSUME NEW s \in Side, PeerFin(s) PROVE Stream!Next
  BY <1>10 DEF PeerFin, Reachable, connVars, Stream!Next, Stream!Close
<1>11. ASSUME NEW s \in Side, PeerRead(s) \/ PeerReset(s) PROVE UNCHANGED streams
  BY <1>11 DEF PeerRead, PeerReset, connVars, streams
<1>12. QED
  BY <1>1, <1>2, <1>3, <1>4, <1>5, <1>6, <1>7, <1>8, <1>9, <1>10, <1>11
  DEF Next, Loop, Peers

\* Whatever the sizes and the schedule, a relayed connection is two streams
\* delivered in order, complete before they end.
THEOREM Refinement == Spec => IsRelayStream
<1>1. IInv /\ IInv' /\ [Next]_vars => [Stream!Next]_(Stream!streams)
  BY RefineStep DEF streams, Stream!streams
<1>2. QED
  BY <1>1, RefineInit, Invariance, PTL DEF Spec, IsRelayStream, Stream!Spec
=============================================================================
