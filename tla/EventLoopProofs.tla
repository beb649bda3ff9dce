-------------------------- MODULE EventLoopProofs ---------------------------
(***************************************************************************)
(* Proofs about EventLoop for any number of slots, generations, tokens and *)
(* clients: the slab and its free list agree, an event reaches only the    *)
(* connection it was registered for (up to a wrap of slab_gen), and the    *)
(* edge of the listener is not lost.                                       *)
(***************************************************************************)
EXTENDS EventLoop, FreeListLemmas, TLAPS

-----------------------------------------------------------------------------
(***************************************************************************)
(* Tokens.                                                                 *)
(***************************************************************************)
LEMMA TimesMonotonic ==
  ASSUME NEW a \in Nat, NEW b \in Nat, NEW n \in Nat, a <= b
  PROVE  a * n <= b * n
OBVIOUS

LEMMA TimesSucc ==
  ASSUME NEW a \in Nat, NEW n \in Nat
  PROVE  (a + 1) * n = a * n + n
OBVIOUS

LEMMA Quotient ==
  ASSUME NEW n \in Nat \ {0}, NEW q \in Nat, NEW r \in 0 .. n - 1
  PROVE  (q * n + r) \div n = q /\ (q * n + r) % n = r
OBVIOUS

LEMMA TimesNat ==
  ASSUME NEW a \in Nat, NEW n \in Nat
  PROVE  a * n \in Nat
OBVIOUS

\* decode_token inverts encode_token on every slot of the slab, and no token of
\* a connection is in the range of another kind: TOKEN_ACCEPT and TOKEN_UDP lie
\* above all of them, the tokens of UDP associations between those of
\* generation 0 and those of the others.
THEOREM TokensDecode ==
  ASSUME NEW g \in 0 .. GenMod - 1, NEW s \in Slots, NEW side \in {0, 1}
  PROVE  LET t == encode_token(g, s, side) IN
           /\ t \in Nat
           /\ decode_token(t) = [gen |-> g, idx |-> s, side |-> side]
           /\ t < TOKEN_UDP
           /\ t < UDP_BASE \/ t >= UDP_BASE + MaxUdp
<1> DEFINE P == g * IdxSpan
           T == GenMod * IdxSpan
           t == 2 * (P + s) + side
<1>1. /\ g \in Nat /\ s \in Nat /\ side \in Nat /\ GenMod \in Nat \ {0}
      /\ IdxSpan \in Nat \ {0} /\ s < IdxSpan - 1 /\ s < MaxSlots
  BY LoopAssumption DEF Slots
<1>2. P \in Nat /\ T \in Nat
  BY <1>1, TimesNat
<1>3. P + IdxSpan <= T
  <2>1. (g + 1) * IdxSpan <= GenMod * IdxSpan
    BY <1>1, TimesMonotonic
  <2>2. QED
    BY <1>1, <2>1, TimesSucc
<1>4. g = 0 => P = 0
  BY <1>1
<1>5. g # 0 => P >= IdxSpan
  <2>1. CASE g # 0
    <3>1. 1 * IdxSpan <= g * IdxSpan
      BY <1>1, <2>1, TimesMonotonic
    <3>2. QED
      BY <1>1, <3>1
  <2>2. QED
    BY <2>1
<1>6. (P + s) \div IdxSpan = g /\ (P + s) % IdxSpan = s
  BY <1>1, Quotient
<1>. HIDE DEF P, T
<1>7. t \in Nat /\ t \div 2 = P + s /\ t % 2 = side
  BY <1>1, <1>2
<1>8. t < 2 * T - 1 - 1
  BY <1>1, <1>2, <1>3
<1>9. t < UDP_BASE \/ t >= UDP_BASE + MaxUdp
  <2>1. CASE g = 0
    BY <1>1, <1>4, <2>1, LoopAssumption
  <2>2. CASE g # 0
    BY <1>1, <1>2, <1>5, <2>2, LoopAssumption
  <2>3. QED
    BY <2>1, <2>2
<1>10. encode_token(g, s, side) = t
  BY DEF encode_token, P
<1>11. decode_token(t) = [gen |-> g, idx |-> s, side |-> side]
  BY <1>6, <1>7 DEF decode_token
<1>12. TOKEN_UDP = 2 * T - 1 - 1
  BY DEF TOKEN_UDP, TOKEN_ACCEPT, T
<1>13. QED
  BY <1>7, <1>8, <1>9, <1>10, <1>11, <1>12

-----------------------------------------------------------------------------
(***************************************************************************)
(* The inductive invariant.  Connections are ordered by their identity,    *)
(* and the next one is newer than all that were ever registered.           *)
(***************************************************************************)
NextConn == [epoch |-> epoch, gen |-> slab_gen]
Newer(c, d) == c.epoch > d.epoch \/ (c.epoch = d.epoch /\ c.gen > d.gen)

Grown == \A s \in Slots : s >= len => conns[s] = None
Ordered ==
  /\ \A s \in Slots : conns[s] # None => Newer(NextConn, conns[s])
  /\ \A s, r \in Slots : conns[s] # None /\ conns[s] = conns[r] => s = r

\* Slot s held c when epoll registered it, and holds it still, or nothing, or
\* a newer connection.
HeldBy(s, c) ==
  /\ conns[s] = c \/ conns[s] = None \/ Newer(conns[s], c)
  /\ \A r \in Slots : conns[r] = c => r = s

EventOK(e) ==
  /\ e.kind = "accept" => e.token = TOKEN_ACCEPT
  /\ e.kind = "udp" => e.token = TOKEN_UDP
  /\ e.kind = "assoc" => \E u \in 0 .. udp_len - 1 : e.token = UDP_BASE + u
  /\ e.kind = "tcp" =>
       /\ e.owner \in Conns /\ Newer(NextConn, e.owner)
       /\ \E s \in Slots, side \in {0, 1} :
            /\ s < len /\ e.token = encode_token(e.owner.gen, s, side)
            /\ HeldBy(s, e.owner)

SlabTypes ==
  /\ conns \in [Slots -> Conns \cup {None}] /\ len \in 0 .. MaxSlots
  /\ free \in Seq(Slots) /\ slab_gen \in 0 .. GenMod - 1 /\ epoch \in Nat
SlabInv == SlabTypes /\ SlabExact /\ Grown /\ Ordered
BatchOK == \A k \in DOMAIN batch : EventOK(batch[k])

IInv ==
  /\ TypeOK /\ SlabExact /\ Grown /\ Ordered /\ BatchOK /\ AcceptNotLost
  /\ pc \in {"wait", "clean"} => batch = <<>>

\* What was said of any event stays true of it.
EventsKept == \A e \in Event : EventOK(e) => EventOK(e)'

LEMMA InitIInv == Init => IInv
<1> SUFFICES ASSUME Init PROVE IInv
  OBVIOUS
<1> USE LoopAssumption DEF Init
<1>1. TypeOK
  <2>1. conns \in [Slots -> Conns \cup {None}] /\ free \in Seq(Slots) /\ batch \in Seq(Event)
    OBVIOUS
  <2>2. len \in 0 .. MaxSlots /\ slab_gen \in 0 .. GenMod - 1 /\ udp_len \in 0 .. MaxUdp
        /\ i \in 0 .. MaxSlots /\ arrived \in 0 .. MaxArrivals /\ accepted \in 0 .. arrived
    OBVIOUS
  <2>3. QED
    BY <2>1, <2>2 DEF TypeOK
<1>2. SlabExact /\ Grown /\ Ordered /\ BatchOK
  BY DEF SlabExact, Grown, Ordered, BatchOK, Slots
<1>3. AcceptNotLost
  BY DEF AcceptNotLost, Backlog
<1>4. QED
  BY <1>1, <1>2, <1>3 DEF IInv

-----------------------------------------------------------------------------
(***************************************************************************)
(* The steps of the slab.                                                  *)
(***************************************************************************)
\* The next generation is newer than the last.
LEMMA NewGenFacts ==
  ASSUME SlabTypes, NewGen
  PROVE  /\ slab_gen' \in 0 .. GenMod - 1 /\ epoch' \in Nat
         /\ \A c \in Conns : c = NextConn \/ Newer(NextConn, c) => Newer(NextConn', c)
<1>1. slab_gen \in 0 .. GenMod - 1 /\ epoch \in Nat /\ GenMod \in Nat \ {0}
  BY LoopAssumption DEF SlabTypes
<1>2. CASE slab_gen + 1 = GenMod
  BY <1>1, <1>2 DEF NewGen, NextGen, NextConn, Newer, Conns
<1>3. CASE slab_gen + 1 # GenMod
  BY <1>1, <1>3 DEF NewGen, NextGen, NextConn, Newer, Conns
<1>4. QED
  BY <1>2, <1>3

\* The slot given out is empty, and what is left of the free list and of the
\* vector agrees with the slots but for this one.
LEMMA NewSlotFacts ==
  ASSUME SlabInv, CanAlloc
  PROVE  /\ NewSlot \in Slots /\ conns[NewSlot] = None
         /\ FreeLeft \in Seq(Slots)
         /\ \A j, k \in DOMAIN FreeLeft : FreeLeft[j] = FreeLeft[k] => j = k
         /\ \A s \in Slots : (\E k \in DOMAIN FreeLeft : FreeLeft[k] = s)
                               <=> s < NewLen /\ s # NewSlot /\ conns[s] = None
         /\ NewLen \in 0 .. MaxSlots /\ NewSlot < NewLen /\ len <= NewLen
<1>0. /\ conns \in [Slots -> Conns \cup {None}] /\ len \in 0 .. MaxSlots /\ free \in Seq(Slots)
      /\ MaxSlots \in Nat
  BY LoopAssumption DEF SlabInv, SlabTypes
<1>1. CASE free # <<>>
  <2>1. NewSlot = Head(free) /\ FreeLeft = Tail(free) /\ NewLen = len
    BY <1>1 DEF NewSlot, FreeLeft, NewLen
  <2>2. \A j, k \in DOMAIN free : free[j] = free[k] => j = k
    BY DEF SlabInv, SlabExact
  <2>3. /\ NewSlot \in Slots /\ FreeLeft \in Seq(Slots)
        /\ \E k \in DOMAIN free : free[k] = NewSlot
        /\ \A j, k \in DOMAIN FreeLeft : FreeLeft[j] = FreeLeft[k] => j = k
        /\ \A s \in Slots : (\E k \in DOMAIN FreeLeft : FreeLeft[k] = s)
                              <=> s # NewSlot /\ \E k \in DOMAIN free : free[k] = s
    BY <1>0, <1>1, <2>1, <2>2, PopFront
  <2>4. \A s \in Slots : (\E k \in DOMAIN free : free[k] = s) <=> s < len /\ conns[s] = None
    BY DEF SlabInv, SlabExact
  <2>5. NewSlot < len /\ conns[NewSlot] = None
    BY <2>3, <2>4
  <2>6. QED
    BY <1>0, <2>1, <2>3, <2>4, <2>5
<1>2. CASE free = <<>>
  <2>1. /\ len < MaxSlots /\ len \in Slots /\ NewSlot = len /\ NewLen = len + 1
        /\ FreeLeft = <<>> /\ FreeLeft \in Seq(Slots) /\ DOMAIN FreeLeft = {}
    BY <1>0, <1>2 DEF CanAlloc, Slots, NewSlot, NewLen, FreeLeft
  <2>2. conns[len] = None
    BY <1>0, <2>1 DEF SlabInv, Grown
  <2>3. \A s \in Slots : s < len => conns[s] # None
    BY <1>2, <2>1 DEF SlabInv, SlabExact
  <2>4. \A s \in Slots : s < NewLen /\ s # NewSlot => s < len
    BY <1>0, <2>1 DEF Slots
  <2>5. QED
    BY <1>0, <2>1, <2>2, <2>3, <2>4
<1>3. QED
  BY <1>1, <1>2

LEMMA RangeGrows ==
  ASSUME NEW m \in Nat, NEW n \in Nat, m <= n, NEW u \in 0 .. m - 1
  PROVE  u \in 0 .. n - 1
OBVIOUS

\* Events keep their meaning when slots only gain newer connections or lose theirs.
LEMMA EventsStay ==
  ASSUME SlabTypes, NEW n \in Slots,
         conns' \in {[conns EXCEPT ![n] = None], [conns EXCEPT ![n] = NextConn]},
         conns'[n] = None \/ conns[n] = None,
         len' \in Nat, len <= len', udp_len \in Nat, udp_len' \in Nat, udp_len <= udp_len',
         \A c \in Conns : Newer(NextConn, c) => Newer(NextConn', c)
  PROVE  EventsKept
<1> SUFFICES ASSUME NEW e \in Event, EventOK(e) PROVE EventOK(e)'
  BY DEF EventsKept
<1>1. len \in Nat /\ conns \in [Slots -> Conns \cup {None}] /\ NextConn \in Conns /\ None \notin Conns
  BY LoopAssumption DEF SlabTypes, NextConn, Conns
<1>2. ASSUME e.kind = "assoc"
      PROVE  \E u \in 0 .. udp_len' - 1 : e.token = UDP_BASE + u
  <2>1. PICK u \in 0 .. udp_len - 1 : e.token = UDP_BASE + u
    BY <1>2 DEF EventOK
  <2>2. u \in 0 .. udp_len' - 1
    BY RangeGrows
  <2>3. QED
    BY <2>1, <2>2
<1>3. ASSUME e.kind = "tcp"
      PROVE  /\ e.owner \in Conns /\ Newer(NextConn', e.owner)
             /\ \E s \in Slots, side \in {0, 1} :
                  /\ s < len' /\ e.token = encode_token(e.owner.gen, s, side)
                  /\ HeldBy(s, e.owner)'
  <2>1. e.owner \in Conns /\ Newer(NextConn, e.owner) /\ Newer(NextConn', e.owner)
    BY <1>3 DEF EventOK
  <2>2. PICK s \in Slots, side \in {0, 1} :
          /\ s < len /\ e.token = encode_token(e.owner.gen, s, side)
          /\ HeldBy(s, e.owner)
    BY <1>3 DEF EventOK
  <2>3. NextConn # e.owner
    BY <1>1, <2>1 DEF Newer, Conns
  <2>4. \A r \in Slots : r # n => conns'[r] = conns[r]
    BY <1>1
  <2>5. conns'[n] \in {None, NextConn}
    BY <1>1
  <2>6. s < len'
    BY <1>1, <2>2 DEF Slots
  <2>7. conns'[s] = e.owner \/ conns'[s] = None \/ Newer(conns'[s], e.owner)
    BY <2>1, <2>2, <2>4, <2>5 DEF HeldBy
  <2>8. ASSUME NEW r \in Slots, conns'[r] = e.owner PROVE r = s
    BY <1>1, <2>1, <2>2, <2>3, <2>4, <2>5, <2>8 DEF HeldBy
  <2>9. HeldBy(s, e.owner)'
    BY <2>7, <2>8 DEF HeldBy
  <2>10. QED
    BY <2>1, <2>2, <2>6, <2>9
<1>4. QED
  BY <1>2, <1>3 DEF EventOK, TOKEN_ACCEPT, TOKEN_UDP

\* A connection is put into the slot given out.
LEMMA AllocKeeps ==
  ASSUME SlabInv, CanAlloc, alloc_slot(NextConn), NewGen, udp_len \in Nat, udp_len' = udp_len
  PROVE  SlabInv' /\ EventsKept
<1>1. /\ conns \in [Slots -> Conns \cup {None}] /\ len \in Nat /\ MaxSlots \in Nat
      /\ SlabTypes /\ NextConn \in Conns /\ None \notin Conns
  BY LoopAssumption DEF SlabInv, SlabTypes, NextConn, Conns
<1>2. /\ conns' = [conns EXCEPT ![NewSlot] = NextConn] /\ free' = FreeLeft /\ len' = NewLen
  BY DEF alloc_slot
<1>3. SlabTypes'
  BY <1>1, <1>2, NewSlotFacts, NewGenFacts DEF SlabTypes
<1>4. SlabExact'
  BY <1>1, <1>2, NewSlotFacts DEF SlabExact
<1>5. Grown'
  BY <1>1, <1>2, NewSlotFacts DEF Grown, SlabInv, Slots
<1>6. Ordered'
  <2>1. \A s \in Slots : conns[s] # None => conns[s] \in Conns /\ conns[s] # NextConn
    BY <1>1 DEF SlabInv, Ordered, Newer, Conns
  <2>2. \A s \in Slots : conns'[s] # None => Newer(NextConn', conns'[s])
    BY <1>1, <1>2, <2>1, NewSlotFacts, NewGenFacts DEF SlabInv, Ordered
  <2>3. \A s, r \in Slots : conns'[s] # None /\ conns'[s] = conns'[r] => s = r
    BY <1>1, <1>2, <2>1, NewSlotFacts DEF SlabInv, Ordered
  <2>4. QED
    BY <2>2, <2>3 DEF Ordered
<1>7. EventsKept
  <2>1. NewSlot \in Slots /\ conns[NewSlot] = None /\ len' \in Nat /\ len <= len'
    BY <1>1, <1>2, NewSlotFacts
  <2>2. \A c \in Conns : Newer(NextConn, c) => Newer(NextConn', c)
    BY <1>1, NewGenFacts
  <2>3. conns' \in {[conns EXCEPT ![NewSlot] = None], [conns EXCEPT ![NewSlot] = NextConn]}
    BY <1>2
  <2>4. udp_len' \in Nat /\ udp_len <= udp_len'
    OBVIOUS
  <2>5. QED
    BY <1>1, <2>1, <2>2, <2>3, <2>4, EventsStay
<1>8. QED
  BY <1>3, <1>4, <1>5, <1>6, <1>7 DEF SlabInv

\* The slot given out is freed at once.
LEMMA UnregisteredKeeps ==
  ASSUME SlabInv, CanAlloc, NewGen, udp_len \in Nat, udp_len' = udp_len,
         conns' = [conns EXCEPT ![NewSlot] = None],
         free' = Append(FreeLeft, NewSlot), len' = NewLen
  PROVE  SlabInv' /\ EventsKept
<1>1. /\ conns \in [Slots -> Conns \cup {None}] /\ len \in Nat /\ MaxSlots \in Nat
      /\ SlabTypes /\ None \notin Conns
  BY LoopAssumption DEF SlabInv, SlabTypes
<1>2. conns' = conns
  BY <1>1, NewSlotFacts
<1>3. \A k \in DOMAIN FreeLeft : FreeLeft[k] # NewSlot
  <2>1. FreeLeft \in Seq(Slots) /\ NewSlot \in Slots
    BY NewSlotFacts
  <2>2. QED
    BY <2>1, NewSlotFacts
<1>4. SlabTypes'
  BY <1>1, <1>2, NewSlotFacts, NewGenFacts DEF SlabTypes
<1>5. SlabExact'
  BY <1>1, <1>2, <1>3, NewSlotFacts, PushBack DEF SlabExact
<1>6. Grown'
  BY <1>1, <1>2, NewSlotFacts DEF Grown, SlabInv, Slots
<1>7. Ordered'
  BY <1>1, <1>2, NewGenFacts DEF SlabInv, Ordered
<1>8. EventsKept
  <2>1. NewSlot \in Slots /\ conns[NewSlot] = None /\ len' \in Nat /\ len <= len'
    BY <1>1, NewSlotFacts
  <2>2. \A c \in Conns : Newer(NextConn, c) => Newer(NextConn', c)
    BY <1>1, NewGenFacts
  <2>3. conns' \in {[conns EXCEPT ![NewSlot] = None], [conns EXCEPT ![NewSlot] = NextConn]}
    OBVIOUS
  <2>4. udp_len' \in Nat /\ udp_len <= udp_len'
    OBVIOUS
  <2>5. QED
    BY <1>1, <2>1, <2>2, <2>3, <2>4, EventsStay
<1>9. QED
  BY <1>4, <1>5, <1>6, <1>7, <1>8 DEF SlabInv

\* A connection is freed.
LEMMA FreeKeeps ==
  ASSUME SlabInv, NEW n \in Slots, conns[n] # None, free_slot(n),
         udp_len \in Nat, udp_len' = udp_len
  PROVE  SlabInv' /\ EventsKept
<1>1. /\ conns \in [Slots -> Conns \cup {None}] /\ len \in Nat /\ MaxSlots \in Nat
      /\ SlabTypes /\ None \notin Conns /\ free \in Seq(Slots)
  BY LoopAssumption DEF SlabInv, SlabTypes
<1>2. /\ conns' = [conns EXCEPT ![n] = None] /\ free' = Append(free, n)
      /\ len' = len /\ slab_gen' = slab_gen /\ epoch' = epoch
  BY DEF free_slot
<1>3. /\ \A k \in DOMAIN free : free[k] # n
      /\ \A j, k \in DOMAIN free : free[j] = free[k] => j = k
      /\ n < len
  BY <1>1 DEF SlabInv, SlabExact, Grown, Slots
<1>4. SlabTypes'
  BY <1>1, <1>2, <1>3, PushBack DEF SlabTypes
<1>5. SlabExact'
  BY <1>1, <1>2, <1>3, PushBack DEF SlabInv, SlabExact
<1>6. Grown'
  BY <1>1, <1>2 DEF Grown, SlabInv
<1>7. Ordered'
  BY <1>1, <1>2 DEF SlabInv, Ordered, NextConn
<1>8. EventsKept
  <2>1. \A c \in Conns : Newer(NextConn, c) => Newer(NextConn', c)
    BY <1>2 DEF NextConn
  <2>2. conns' \in {[conns EXCEPT ![n] = None], [conns EXCEPT ![n] = NextConn]} /\ conns'[n] = None
    BY <1>1, <1>2
  <2>3. len' \in Nat /\ len <= len' /\ udp_len' \in Nat /\ udp_len <= udp_len'
    BY <1>1, <1>2
  <2>4. QED
    BY <1>1, <2>1, <2>2, <2>3, EventsStay
<1>9. QED
  BY <1>4, <1>5, <1>6, <1>7, <1>8 DEF SlabInv

-----------------------------------------------------------------------------
(***************************************************************************)
(* What an event finds.                                                    *)
(***************************************************************************)
LEMMA EventTarget ==
  ASSUME TypeOK, Grown, Ordered, NEW e \in Event, EventOK(e)
  PROVE  /\ Branch(e.token) = e.kind
         /\ e.kind = "tcp" =>
              /\ decode_token(e.token).idx \in Slots
              /\ Target(e.token) \in {None, e.owner} \/ Target(e.token).epoch > e.owner.epoch
              /\ (\E s \in Slots : conns[s] = e.owner) => Target(e.token) = e.owner
              /\ Target(e.token) # None => conns[decode_token(e.token).idx] # None
<1>0. /\ udp_len \in 0 .. MaxUdp /\ MaxUdp \in Nat /\ UDP_BASE \in Nat /\ e.token \in Nat
      /\ len \in Nat /\ conns \in [Slots -> Conns \cup {None}] /\ None \notin Conns
      /\ e.kind \in {"accept", "udp", "assoc", "tcp"}
  BY LoopAssumption DEF TypeOK, Event
<1>1. TOKEN_ACCEPT \in Nat /\ TOKEN_UDP = TOKEN_ACCEPT - 1 /\ UDP_BASE + MaxUdp <= TOKEN_UDP
  <2> DEFINE T == GenMod * IdxSpan
  <2>1. T \in Nat /\ 2 * IdxSpan <= T
    BY LoopAssumption, TimesNat, TimesMonotonic
  <2>2. MaxSlots < IdxSpan /\ MaxSlots >= 1 /\ UDP_BASE + MaxUdp <= 2 * IdxSpan
        /\ MaxSlots \in Nat /\ IdxSpan \in Nat
    BY LoopAssumption
  <2>. HIDE DEF T
  <2>3. TOKEN_ACCEPT = 2 * T - 1
    BY DEF TOKEN_ACCEPT, T
  <2>4. QED
    BY <1>0, <2>1, <2>2, <2>3 DEF TOKEN_UDP
<1>2. CASE e.kind \in {"accept", "udp"}
  <2>1. TOKEN_UDP # TOKEN_ACCEPT
    BY <1>1
  <2>2. QED
    BY <1>2, <2>1 DEF EventOK, Branch
<1>3. CASE e.kind = "assoc"
  <2>1. PICK u \in 0 .. udp_len - 1 : e.token = UDP_BASE + u
    BY <1>3 DEF EventOK
  <2>2. e.token \notin {TOKEN_ACCEPT, TOKEN_UDP} /\ e.token >= UDP_BASE /\ e.token < UDP_BASE + udp_len
    BY <1>0, <1>1, <2>1
  <2>3. QED
    BY <1>3, <2>2 DEF Branch
<1>4. CASE e.kind = "tcp"
  <2>1. e.owner \in Conns /\ Newer(NextConn, e.owner)
    BY <1>4 DEF EventOK
  <2>2. PICK s \in Slots, side \in {0, 1} :
          s < len /\ e.token = encode_token(e.owner.gen, s, side) /\ HeldBy(s, e.owner)
    BY <1>4 DEF EventOK
  <2>3. e.owner.gen \in 0 .. GenMod - 1 /\ e.owner.epoch \in Nat
    BY <2>1 DEF Conns
  <2>4. /\ decode_token(e.token).gen = e.owner.gen /\ decode_token(e.token).idx = s
        /\ e.token < TOKEN_UDP /\ (e.token < UDP_BASE \/ e.token >= UDP_BASE + MaxUdp)
    BY <2>2, <2>3, TokensDecode
  <2>5. e.token \notin {TOKEN_ACCEPT, TOKEN_UDP}
        /\ ~(e.token >= UDP_BASE /\ e.token < UDP_BASE + udp_len)
    BY <1>0, <1>1, <2>4
  <2>6. Branch(e.token) = "tcp"
    BY <2>5 DEF Branch
  <2>7. Target(e.token) = IF conns[s] # None /\ conns[s].gen = e.owner.gen THEN conns[s] ELSE None
    BY <2>2, <2>4 DEF Target
  <2>8. conns[s] = None \/ conns[s] = e.owner \/ conns[s].epoch > e.owner.epoch
        \/ conns[s].gen # e.owner.gen
    <3>1. CASE conns[s] \in Conns /\ Newer(conns[s], e.owner)
      BY <2>1, <3>1 DEF Newer, Conns
    <3>2. QED
      BY <1>0, <2>2, <3>1 DEF HeldBy
  <2>9. (\E r \in Slots : conns[r] = e.owner) => conns[s] = e.owner
    BY <2>2 DEF HeldBy
  <2>10. e.owner # None
    BY <1>0, <2>1
  <2>11. QED
    BY <1>4, <2>4, <2>6, <2>7, <2>8, <2>9, <2>10
<1>5. QED
  BY <1>0, <1>2, <1>3, <1>4

-----------------------------------------------------------------------------
(***************************************************************************)
(* Steps of the loop, each as what it does to the slab and to the batch.   *)
(***************************************************************************)
\* Types of what is neither slab nor batch.
LoopTypes ==
  /\ udp_len \in 0 .. MaxUdp
  /\ pc \in {"wait", "check", "batch", "accept", "clean", "done"} /\ i \in 0 .. MaxSlots
  /\ arrived \in 0 .. MaxArrivals /\ accepted \in 0 .. arrived
  /\ acc_ready \in BOOLEAN /\ acc_failed \in BOOLEAN /\ shutdown \in BOOLEAN

LEMMA SplitIInv ==
  IInv <=> /\ SlabInv /\ LoopTypes /\ batch \in Seq(Event) /\ BatchOK /\ AcceptNotLost
           /\ pc \in {"wait", "clean"} => batch = <<>>
BY DEF IInv, TypeOK, SlabInv, SlabTypes, LoopTypes

LEMMA SlabSame ==
  ASSUME SlabInv, UNCHANGED slabVars, udp_len \in Nat, udp_len' \in Nat, udp_len <= udp_len'
  PROVE  SlabInv' /\ EventsKept
<1>1. SlabInv'
  BY DEF SlabInv, SlabTypes, SlabExact, Grown, Ordered, NextConn, slabVars
<1>2. ASSUME NEW e \in Event, EventOK(e)
      PROVE  EventOK(e)'
  <2>1. ASSUME e.kind = "assoc"
        PROVE  \E u \in 0 .. udp_len' - 1 : e.token = UDP_BASE + u
    <3>1. PICK u \in 0 .. udp_len - 1 : e.token = UDP_BASE + u
      BY <1>2, <2>1 DEF EventOK
    <3>2. u \in 0 .. udp_len' - 1
      BY RangeGrows
    <3>3. QED
      BY <3>1, <3>2
  <2>2. QED
    BY <1>2, <2>1 DEF EventOK, HeldBy, NextConn, slabVars, TOKEN_ACCEPT, TOKEN_UDP
<1>3. QED
  BY <1>1, <1>2 DEF EventsKept

LEMMA BatchSame ==
  ASSUME batch \in Seq(Event), BatchOK, EventsKept, batch' = batch
  PROVE  batch' \in Seq(Event) /\ BatchOK'
BY DEF BatchOK, EventsKept

LEMMA BatchTail ==
  ASSUME batch \in Seq(Event), BatchOK, EventsKept, batch # <<>>, batch' = Tail(batch)
  PROVE  /\ batch' \in Seq(Event) /\ BatchOK'
         /\ Head(batch) \in Event /\ EventOK(Head(batch))
         /\ \A k \in DOMAIN batch : (k = 1 /\ batch[k] = Head(batch))
                                    \/ \E j \in DOMAIN batch' : batch'[j] = batch[k]
<1>1. /\ Len(batch) \in Nat \ {0} /\ DOMAIN batch = 1 .. Len(batch)
      /\ batch' \in Seq(Event) /\ DOMAIN batch' = 1 .. Len(batch) - 1
      /\ Head(batch) = batch[1] /\ \A k \in DOMAIN batch' : batch'[k] = batch[k + 1]
  OBVIOUS
<1>2. \A k \in DOMAIN batch' : k + 1 \in DOMAIN batch /\ batch[k + 1] \in Event
  BY <1>1
<1>3. BatchOK'
  BY <1>1, <1>2 DEF BatchOK, EventsKept
<1>4. Head(batch) \in Event /\ EventOK(Head(batch))
  BY <1>1 DEF BatchOK
<1>5. ASSUME NEW k \in DOMAIN batch, k # 1
      PROVE  \E j \in DOMAIN batch' : batch'[j] = batch[k]
  <2>1. k - 1 \in DOMAIN batch' /\ batch'[k - 1] = batch[k]
    BY <1>1, <1>5
  <2>2. QED
    BY <2>1
<1>6. QED
  BY <1>1, <1>3, <1>4, <1>5

\* What epoll reports is well formed and true when it is reported.
LEMMA ReportedOK ==
  ASSUME IInv, NEW e \in SocketEvents \cup {ListenEvent}
  PROVE  e \in Event /\ EventOK(e)
<1>0. /\ SlabInv /\ udp_len \in 0 .. MaxUdp /\ MaxUdp \in Nat /\ UDP_BASE \in Nat
      /\ None \notin Conns /\ conns \in [Slots -> Conns \cup {None}]
  BY LoopAssumption DEF IInv, TypeOK, SlabInv, SlabTypes
<1>1. TOKEN_ACCEPT \in Nat /\ TOKEN_UDP \in Nat
  <2> DEFINE T == GenMod * IdxSpan
  <2>1. T \in Nat /\ 2 * IdxSpan <= T /\ IdxSpan \in Nat \ {0}
    BY LoopAssumption, TimesNat, TimesMonotonic
  <2>. HIDE DEF T
  <2>2. TOKEN_ACCEPT = 2 * T - 1
    BY DEF TOKEN_ACCEPT, T
  <2>3. QED
    BY <2>1, <2>2 DEF TOKEN_UDP
<1>2. CASE e = ListenEvent
  BY <1>1, <1>2 DEF ListenEvent, Event, EventOK
<1>3. CASE e = [token |-> TOKEN_UDP, kind |-> "udp", owner |-> None]
  BY <1>1, <1>3 DEF Event, EventOK
<1>4. ASSUME NEW u \in 0 .. udp_len - 1,
             e = [token |-> UDP_BASE + u, kind |-> "assoc", owner |-> None]
      PROVE  e \in Event /\ EventOK(e)
  <2>1. UDP_BASE + u \in Nat
    BY <1>0
  <2>2. QED
    BY <1>4, <2>1 DEF Event, EventOK
<1>5. ASSUME NEW s \in Used, NEW side \in {0, 1},
             e = [token |-> encode_token(conns[s].gen, s, side), kind |-> "tcp", owner |-> conns[s]]
      PROVE  e \in Event /\ EventOK(e)
  <2>1. s \in Slots /\ conns[s] \in Conns /\ conns[s].gen \in 0 .. GenMod - 1
    BY <1>0 DEF Used, Conns
  <2>2. encode_token(conns[s].gen, s, side) \in Nat
    BY <2>1, TokensDecode
  <2>3. s < len
    BY <1>0, <2>1 DEF SlabInv, SlabTypes, Grown, Slots
  <2>4. HeldBy(s, conns[s]) /\ Newer(NextConn, conns[s])
    BY <1>0, <2>1 DEF SlabInv, Ordered, HeldBy
  <2>5. QED
    BY <1>5, <2>1, <2>2, <2>3, <2>4 DEF Event, EventOK
<1>6. QED
  BY <1>2, <1>3, <1>4, <1>5 DEF SocketEvents

\* A client taken from the queue: the rest of the loop's state stays in range.
LEMMA AcceptTypes ==
  ASSUME LoopTypes, Accept, pc' = "accept"
  PROVE  LoopTypes' /\ udp_len \in Nat /\ udp_len' = udp_len
<1>1. arrived \in Nat /\ accepted \in 0 .. arrived /\ accepted < arrived /\ accepted' = accepted + 1
      /\ arrived' = arrived
  BY LoopAssumption DEF LoopTypes, Accept, Backlog
<1>2. accepted' \in 0 .. arrived'
  BY <1>1
<1>3. QED
  BY <1>1, <1>2, LoopAssumption DEF LoopTypes, Accept

LEMMA AcceptStep ==
  ASSUME IInv, AcceptDrop \/ AcceptConn \/ AcceptUnregistered
  PROVE  IInv'
<1>0. SlabInv /\ LoopTypes /\ batch \in Seq(Event) /\ BatchOK
  BY SplitIInv
<1>1. Accept /\ pc' = "accept" /\ batch' = batch
  BY DEF AcceptDrop, AcceptConn, AcceptUnregistered, Accept
<1>2. LoopTypes' /\ udp_len \in Nat /\ udp_len' = udp_len
  BY <1>0, <1>1, AcceptTypes
<1>3. SlabInv' /\ EventsKept
  <2>1. CASE AcceptDrop
    BY <1>0, <1>2, <2>1, SlabSame DEF AcceptDrop
  <2>2. CASE AcceptConn
    BY <1>0, <1>2, <2>2, AllocKeeps DEF AcceptConn, NextConn
  <2>3. CASE AcceptUnregistered
    BY <1>0, <1>2, <2>3, UnregisteredKeeps DEF AcceptUnregistered
  <2>4. QED
    BY <2>1, <2>2, <2>3
<1>4. batch' \in Seq(Event) /\ BatchOK'
  BY <1>0, <1>1, <1>3, BatchSame
<1>5. AcceptNotLost'
  BY <1>1 DEF AcceptNotLost
<1>6. IInv'
  <2>1. ~(pc' \in {"wait", "clean"})
    BY <1>1
  <2>2. QED
    BY <1>2, <1>3, <1>4, <1>5, <2>1 DEF IInv, TypeOK, SlabInv, SlabTypes, LoopTypes
<1>7. QED
  BY <1>6

LEMMA Joined ==
  ASSUME SlabInv', LoopTypes', batch' \in Seq(Event), BatchOK', AcceptNotLost',
         pc' \in {"wait", "clean"} => batch' = <<>>
  PROVE  IInv'
BY DEF IInv, TypeOK, SlabInv, SlabTypes, LoopTypes

LEMMA WaitStep ==
  ASSUME IInv, EpollWait
  PROVE  IInv'
<1>0. SlabInv /\ LoopTypes
  BY SplitIInv
<1>1. LoopTypes' /\ udp_len \in Nat /\ udp_len' = udp_len
  <2>1. /\ UNCHANGED <<udp_len, i, arrived, accepted, acc_failed, shutdown>>
        /\ acc_ready' = FALSE /\ pc' = "check"
    BY DEF EpollWait
  <2>2. LoopTypes'
    BY <1>0, <2>1 DEF LoopTypes
  <2>3. udp_len \in Nat
    BY <1>0, LoopAssumption DEF LoopTypes
  <2>4. QED
    BY <2>1, <2>2, <2>3
<1>2. SlabInv' /\ EventsKept
  BY <1>0, <1>1, SlabSame DEF EpollWait
<1>3. PICK n \in 0 .. MaxBatch : /\ batch' \in [1 .. n -> SocketEvents \cup {ListenEvent}]
                                 /\ acc_ready => \E j \in DOMAIN batch' : batch'[j] = ListenEvent
  <2>1. batch' \in Batches
    BY DEF EpollWait
  <2> DEFINE E == SocketEvents \cup (IF acc_ready THEN {ListenEvent} ELSE {})
  <2>2. E \subseteq SocketEvents \cup {ListenEvent}
    OBVIOUS
  <2>3. PICK n \in 0 .. MaxBatch : batch' \in [1 .. n -> E]
    BY <2>1 DEF Batches
  <2>4. batch' \in [1 .. n -> SocketEvents \cup {ListenEvent}]
    BY <2>2, <2>3
  <2>5. acc_ready => \E j \in DOMAIN batch' : batch'[j] = ListenEvent
    BY <2>1 DEF Batches
  <2>6. QED
    BY <2>4, <2>5
<1>4. \A k \in 1 .. n : batch'[k] \in Event /\ EventOK(batch'[k])
  BY <1>3, ReportedOK
<1>5. batch' \in Seq(Event)
  <2>1. n \in Nat
    BY LoopAssumption
  <2>2. batch' \in [1 .. n -> Event]
    BY <1>3, <1>4
  <2>3. QED
    BY <2>1, <2>2
<1>6. BatchOK'
  <2>1. DOMAIN batch' = 1 .. n
    BY <1>3
  <2>2. ASSUME NEW k \in 1 .. n PROVE EventOK(batch[k])'
    <3>1. batch'[k] \in Event /\ EventOK(batch'[k])
      BY <1>4
    <3>2. batch' = batch' /\ UNCHANGED <<conns, len, free, slab_gen, epoch, udp_len>>
      BY DEF EpollWait, slabVars
    <3>3. QED
      BY <3>1, <3>2 DEF EventOK, HeldBy, NextConn, Newer, TOKEN_ACCEPT, TOKEN_UDP, encode_token
  <2>3. QED
    BY <2>1, <2>2 DEF BatchOK
<1>7. AcceptNotLost'
  <2>1. pc = "wait" /\ batch = <<>> /\ UNCHANGED <<arrived, accepted, acc_failed>>
    BY DEF EpollWait, IInv
  <2>2. Backlog > 0 => acc_ready \/ acc_failed
    BY <2>1 DEF IInv, AcceptNotLost
  <2>3. acc_ready => \E k \in DOMAIN batch' : batch'[k].kind = "accept"
    BY <1>3 DEF ListenEvent
  <2>4. QED
    BY <2>1, <2>2, <2>3 DEF AcceptNotLost, Backlog
<1>8. QED
  BY <1>1, <1>2, <1>5, <1>6, <1>7, Joined DEF EpollWait

\* The steps that leave slab and batch alone.
LEMMA QuietStep ==
  ASSUME IInv, \/ AcceptStop \/ Check \/ BatchDone \/ Keep \/ Cleaned
               \/ Arrive \/ handle_shutdown \/ UNCHANGED vars
  PROVE  IInv'
<1>0. SlabInv /\ LoopTypes /\ batch \in Seq(Event) /\ BatchOK
  BY SplitIInv
<1> USE LoopAssumption DEF LoopTypes, AcceptStop, Check, BatchDone, Keep, Cleaned, Arrive,
      handle_shutdown, vars, slabVars, acceptVars
<1>1. udp_len \in Nat /\ udp_len' = udp_len /\ UNCHANGED slabVars /\ batch' = batch
  BY <1>0
<1>2. LoopTypes'
  <2>1. len \in 0 .. MaxSlots
    BY <1>0 DEF SlabInv, SlabTypes
  <2>2. i' \in 0 .. MaxSlots
    BY <1>0, <2>1
  <2>3. arrived' \in 0 .. MaxArrivals /\ accepted' \in 0 .. arrived'
    BY <1>0
  <2>4. udp_len' \in 0 .. MaxUdp
    BY <1>0, <1>1
  <2>5. pc' \in {"wait", "check", "batch", "accept", "clean", "done"}
        /\ acc_ready' \in BOOLEAN /\ acc_failed' \in BOOLEAN /\ shutdown' \in BOOLEAN
    <3>1. acc_failed' = (Backlog > 0) \/ acc_failed' = FALSE \/ acc_failed' = acc_failed
      OBVIOUS
    <3>2. acc_failed' \in BOOLEAN
      <4>1. (Backlog > 0) \in BOOLEAN /\ acc_failed \in BOOLEAN
        BY <1>0
      <4>. HIDE DEF LoopTypes, AcceptStop, Check, BatchDone, Keep, Cleaned, Arrive,
                    handle_shutdown, vars, slabVars, acceptVars
      <4>2. QED
        BY <3>1, <4>1
    <3>3. QED
      BY <1>0, <3>2
  <2>6. QED
    BY <2>2, <2>3, <2>4, <2>5
<1>3. SlabInv' /\ EventsKept
  BY <1>0, <1>1, SlabSame
<1>4. batch' \in Seq(Event) /\ BatchOK'
  BY <1>0, <1>1, <1>3, BatchSame
<1>5. AcceptNotLost'
  BY DEF IInv, AcceptNotLost, Backlog
<1>6. pc' \in {"wait", "clean"} => batch' = <<>>
  BY DEF IInv
<1>7. QED
  BY <1>2, <1>3, <1>4, <1>5, <1>6, Joined

LEMMA EventStep ==
  ASSUME IInv, Handling
  PROVE  IInv'
<1>0. SlabInv /\ LoopTypes /\ batch \in Seq(Event) /\ BatchOK /\ TypeOK
  BY SplitIInv DEF IInv
<1>1. PICK b \in {"accept", "udp", "assoc", "tcp"} : NextEvent(b)
  BY DEF Handling, AcceptEvent, UdpEvent, AssocEvent, ConnEvent, StaleEvent
<1>2. /\ pc = "batch" /\ batch # <<>> /\ batch' = Tail(batch)
      /\ Head(batch) \in Event /\ EventOK(Head(batch)) /\ Branch(Head(batch).token) = b
      /\ UNCHANGED <<i, shutdown, arrived, accepted, acc_ready, acc_failed>>
  <2>1. batch # <<>> /\ batch \in Seq(Event)
    BY <1>0, <1>1 DEF NextEvent
  <2>2. Head(batch) = batch[1] /\ 1 \in DOMAIN batch /\ batch[1] \in Event
    BY <2>1
  <2>3. QED
    BY <1>0, <1>1, <2>2 DEF NextEvent, acceptVars, BatchOK
<1>3. /\ Head(batch).kind = b
      /\ b = "tcp" =>
           /\ decode_token(Head(batch).token).idx \in Slots
           /\ Target(Head(batch).token) # None => conns[decode_token(Head(batch).token).idx] # None
  BY <1>0, <1>2, EventTarget DEF SlabInv
<1>4. /\ pc' = IF b = "accept" THEN "accept" ELSE "batch"
      /\ udp_len' \in udp_len .. MaxUdp
  BY <1>0, <1>1, LoopAssumption
     DEF Handling, AcceptEvent, UdpEvent, AssocEvent, ConnEvent, StaleEvent, NextEvent, LoopTypes
<1>5. LoopTypes' /\ udp_len \in Nat /\ udp_len' \in Nat /\ udp_len <= udp_len'
  BY <1>0, <1>2, <1>4, LoopAssumption DEF LoopTypes
<1>6. SlabInv' /\ EventsKept
  <2>1. CASE UNCHANGED slabVars
    BY <1>0, <1>5, <2>1, SlabSame
  <2>2. CASE ConnEvent /\ free_slot(decode_token(Head(batch).token).idx)
    <3>1. b = "tcp" /\ Target(Head(batch).token) # None /\ udp_len' = udp_len
      BY <1>1, <2>2 DEF ConnEvent, NextEvent
    <3>2. QED
      BY <1>0, <1>3, <1>5, <2>2, <3>1, FreeKeeps
  <2>3. QED
    BY <2>1, <2>2 DEF Handling, AcceptEvent, UdpEvent, AssocEvent, ConnEvent, StaleEvent
<1>7. /\ batch' \in Seq(Event) /\ BatchOK'
      /\ \A k \in DOMAIN batch : (k = 1 /\ batch[k] = Head(batch))
                                 \/ \E j \in DOMAIN batch' : batch'[j] = batch[k]
  BY <1>0, <1>2, <1>6, BatchTail
<1>8. AcceptNotLost'
  <2>1. CASE b = "accept"
    BY <1>4, <2>1 DEF AcceptNotLost
  <2>2. CASE b # "accept"
    <3>1. Head(batch).kind # "accept"
      BY <1>3, <2>2
    <3>2. (\E k \in DOMAIN batch : batch[k].kind = "accept")
            => \E k \in DOMAIN batch' : batch'[k].kind = "accept"
      BY <1>7, <3>1
    <3>3. pc' = "batch" /\ pc = "batch"
      BY <1>2, <1>4, <2>2
    <3>4. Backlog' = Backlog
      BY <1>2 DEF Backlog
    <3>5. QED
      BY <1>2, <3>2, <3>3, <3>4 DEF IInv, AcceptNotLost
  <2>3. QED
    BY <2>1, <2>2
<1>9. ~(pc' \in {"wait", "clean"})
  BY <1>4
<1>10. QED
  BY <1>5, <1>6, <1>7, <1>8, <1>9, Joined

LEMMA ExpireStep ==
  ASSUME IInv, Expire
  PROVE  IInv'
<1>0. SlabInv /\ LoopTypes /\ batch \in Seq(Event) /\ BatchOK
  BY SplitIInv
<1>1. /\ i \in Slots /\ conns[i] # None /\ free_slot(i) /\ udp_len \in Nat /\ udp_len' = udp_len
      /\ UNCHANGED <<udp_len, pc, batch, i, shutdown, arrived, accepted, acc_ready, acc_failed>>
  BY <1>0, LoopAssumption DEF Expire, acceptVars, LoopTypes, SlabInv, SlabTypes, Slots
<1>2. SlabInv' /\ EventsKept
  BY <1>0, <1>1, FreeKeeps
<1>3. batch' \in Seq(Event) /\ BatchOK'
  BY <1>0, <1>1, <1>2, BatchSame
<1>4. LoopTypes' /\ AcceptNotLost' /\ (pc' \in {"wait", "clean"} => batch' = <<>>)
  BY <1>0, <1>1 DEF LoopTypes, IInv, AcceptNotLost, Backlog
<1>5. QED
  BY <1>2, <1>3, <1>4, Joined

THEOREM NextKeeps == IInv /\ [Next]_vars => IInv'
<1> SUFFICES ASSUME IInv, [Next]_vars PROVE IInv'
  OBVIOUS
<1>1. CASE EpollWait
  BY <1>1, WaitStep
<1>2. CASE Handling
  BY <1>2, EventStep
<1>3. CASE AcceptDrop \/ AcceptConn \/ AcceptUnregistered
  BY <1>3, AcceptStep
<1>4. CASE Expire
  BY <1>4, ExpireStep
<1>5. CASE AcceptStop \/ Check \/ BatchDone \/ Keep \/ Cleaned \/ Arrive \/ handle_shutdown \/ UNCHANGED vars
  BY <1>5, QuietStep
<1>6. QED
  BY <1>1, <1>2, <1>3, <1>4, <1>5 DEF Next, Turn, Accepting, Cleaning

-----------------------------------------------------------------------------
(***************************************************************************)
(* The theorems.                                                           *)
(***************************************************************************)
\* The conjunction above is an invariant of the event loop.
THEOREM Invariance == Spec => []IInv
BY InitIInv, NextKeeps, PTL DEF Spec

\* Every reachable state of the loop is well typed.
THEOREM TypeCorrect == Spec => []TypeOK
<1>1. IInv => TypeOK
  BY DEF IInv
<1>2. QED
  BY <1>1, Invariance, PTL

\* The free list is exactly the set of empty slots, without duplicates: no slot
\* is given to two connections, and none is lost, whatever fails during accept.
THEOREM SlabIsExact == Spec => []SlabExact
<1>1. IInv => SlabExact
  BY DEF IInv
<1>2. QED
  BY <1>1, Invariance, PTL

\* An event goes to its branch and to its own connection; a stale one to none,
\* or to one a whole cycle of generations younger.
THEOREM EventsFindOwner == Spec => []EventsReachOwner
<1>1. IInv => EventsReachOwner
  BY EventTarget DEF IInv, TypeOK, BatchOK, EventsReachOwner
<1>2. QED
  BY <1>1, Invariance, PTL

\* An event whose connection is still open is never skipped.
THEOREM NoEventSkipped == Spec => []NoneSkipped
<1>1. IInv => NoneSkipped
  BY EventTarget DEF IInv, TypeOK, BatchOK, NoneSkipped
<1>2. QED
  BY <1>1, Invariance, PTL

\* Clients left in the queue are announced by an event still to be handled,
\* unless accept4 failed.
THEOREM ListenerEdgeKept == Spec => []AcceptNotLost
<1>1. IInv => AcceptNotLost
  BY DEF IInv
<1>2. QED
  BY <1>1, Invariance, PTL
=============================================================================
