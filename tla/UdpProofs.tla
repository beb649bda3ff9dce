----------------------------- MODULE UdpProofs ------------------------------
(***************************************************************************)
(* Proofs about Udp for any number of clients, slots, batch size and       *)
(* idle time-out: udp_map and the slots agree, an upstream socket serves   *)
(* one client, no queue is forgotten, and no idle association is missed.   *)
(***************************************************************************)
EXTENDS Udp, FreeListLemmas, SequenceTheorems, FiniteSetTheorems, FunctionTheorems, TLAPS

-----------------------------------------------------------------------------
(***************************************************************************)
(* The inductive invariant.                                                *)
(***************************************************************************)
Tables ==
  /\ udp_map \in [Clients -> Slots \cup {None}]
  /\ udp_slots \in [Slots -> Assocs \cup {None}]
  /\ len \in 0 .. MaxSlots /\ udp_free \in Seq(Slots)
Grown == \A s \in Slots : s >= len => udp_slots[s] = None
TableInv == Tables /\ MapExact /\ Grown /\ OneUserPerSocket

\* Before the clean-up reaches it an association may be one period too old.
Ages ==
  /\ pc = "wait" => ~due
  /\ pc = "clean" => due
  /\ \A s \in Used : udp_slots[s].age > Idle => due /\ (pc = "clean" => s >= i)

\* Where the loop may hold events or datagrams.
Holding ==
  /\ pc \in {"wait", "clean"} => ~todo_in /\ todo_up = {}
  /\ buf # <<>> => pc = "in"
  /\ pc = "reply" => cur \in Used

IInv == TypeOK /\ TableInv /\ Ages /\ Holding /\ QueuesAnnounced

LEMMA InitIInv == Init => IInv
<1> SUFFICES ASSUME Init PROVE IInv
  OBVIOUS
<1> USE UdpAssumption DEF Init
<1>1. Used = {}
  BY DEF Used
<1>2. Tables
  <2>1. udp_free \in Seq(Slots) /\ len \in 0 .. MaxSlots
    OBVIOUS
  <2>2. QED
    BY <2>1 DEF Tables
<1>3. TypeOK
  <2>1. /\ in_q \in Seq(Clients) /\ buf \in Seq(Clients) /\ cur \in Slots /\ i \in 0 .. MaxSlots
        /\ received \in 0 .. MaxIn /\ replies \in 0 .. MaxReplies
    BY DEF Slots
  <2>2. rx \in [Slots -> Nat] /\ delivered \in [Clients -> Nat]
    OBVIOUS
  <2>3. QED
    BY <1>2, <2>1, <2>2 DEF TypeOK, Tables
<1>4. MapExact
  <2>1. DOMAIN udp_free = {}
    OBVIOUS
  <2>2. \A s \in Slots : ~(s < len)
    BY DEF Slots
  <2>3. QED
    BY <2>1, <2>2 DEF MapExact
<1>5. Grown /\ OneUserPerSocket /\ Ages /\ Holding
  BY <1>1 DEF Grown, OneUserPerSocket, Ages, Holding
<1>6. QueuesAnnounced
  BY DEF QueuesAnnounced
<1>7. QED
  BY <1>2, <1>3, <1>4, <1>5, <1>6 DEF IInv, TableInv

-----------------------------------------------------------------------------
(***************************************************************************)
(* The tables.                                                             *)
(***************************************************************************)
\* The slot given out is empty; the rest of the free list and of the vector
\* agrees with the slots but for this one.
LEMMA NewSlotFacts ==
  ASSUME TableInv, CanAlloc
  PROVE  /\ NewSlot \in Slots /\ udp_slots[NewSlot] = None
         /\ FreeLeft \in Seq(Slots)
         /\ \A j, k \in DOMAIN FreeLeft : FreeLeft[j] = FreeLeft[k] => j = k
         /\ \A s \in Slots : (\E k \in DOMAIN FreeLeft : FreeLeft[k] = s)
                               <=> s < NewLen /\ s # NewSlot /\ udp_slots[s] = None
         /\ NewLen \in 0 .. MaxSlots /\ NewSlot < NewLen /\ len <= NewLen
<1>0. udp_slots \in [Slots -> Assocs \cup {None}] /\ len \in 0 .. MaxSlots
      /\ udp_free \in Seq(Slots) /\ MaxSlots \in Nat
  BY UdpAssumption DEF TableInv, Tables
<1>1. CASE udp_free # <<>>
  <2>1. NewSlot = Head(udp_free) /\ FreeLeft = Tail(udp_free) /\ NewLen = len
    BY <1>1 DEF NewSlot, FreeLeft, NewLen
  <2>2. \A j, k \in DOMAIN udp_free : udp_free[j] = udp_free[k] => j = k
    BY DEF TableInv, MapExact
  <2>3. /\ NewSlot \in Slots /\ FreeLeft \in Seq(Slots)
        /\ \E k \in DOMAIN udp_free : udp_free[k] = NewSlot
        /\ \A j, k \in DOMAIN FreeLeft : FreeLeft[j] = FreeLeft[k] => j = k
        /\ \A s \in Slots : (\E k \in DOMAIN FreeLeft : FreeLeft[k] = s)
                              <=> s # NewSlot /\ \E k \in DOMAIN udp_free : udp_free[k] = s
    BY <1>0, <1>1, <2>1, <2>2, PopFront
  <2>4. \A s \in Slots : (\E k \in DOMAIN udp_free : udp_free[k] = s)
                           <=> s < len /\ udp_slots[s] = None
    BY DEF TableInv, MapExact
  <2>5. NewSlot < len /\ udp_slots[NewSlot] = None
    BY <2>3, <2>4
  <2>6. QED
    BY <1>0, <2>1, <2>3, <2>4, <2>5
<1>2. CASE udp_free = <<>>
  <2>1. /\ len < MaxSlots /\ len \in Slots /\ NewSlot = len /\ NewLen = len + 1
        /\ FreeLeft = <<>> /\ FreeLeft \in Seq(Slots) /\ DOMAIN FreeLeft = {}
    BY <1>0, <1>2 DEF CanAlloc, Slots, NewSlot, NewLen, FreeLeft
  <2>2. udp_slots[len] = None
    BY <1>0, <2>1 DEF TableInv, Grown
  <2>3. \A s \in Slots : s < len => udp_slots[s] # None
    BY <1>2, <2>1 DEF TableInv, MapExact
  <2>4. \A s \in Slots : s < NewLen /\ s # NewSlot => s < len
    BY <1>0, <2>1 DEF Slots
  <2>5. QED
    BY <1>0, <2>1, <2>2, <2>3, <2>4
<1>3. QED
  BY <1>1, <1>2

\* What an association must be for the slots to stay right.
Fits(a, c) == a \in Assocs /\ a.cli = c /\ a.users \subseteq {c}

\* A known client's association is touched; no slot changes hands.
LEMMA TouchKeeps ==
  ASSUME TableInv, UNCHANGED <<udp_map, len, udp_free>>,
         udp_slots' \in [Slots -> Assocs \cup {None}],
         \A s \in Slots : udp_slots[s] = None <=> udp_slots'[s] = None,
         \A s \in Slots : udp_slots[s] # None => Fits(udp_slots'[s], udp_slots[s].cli)
  PROVE  TableInv' /\ Used' = Used
<1>1. Used' = Used
  BY DEF Used
<1>2. Tables' /\ Grown'
  BY DEF TableInv, Tables, Grown
<1>3. MapExact'
  BY DEF TableInv, Tables, MapExact, Fits
<1>4. OneUserPerSocket'
  BY <1>1 DEF OneUserPerSocket, Fits, Used
<1>5. QED
  BY <1>1, <1>2, <1>3, <1>4 DEF TableInv

\* A new association in a new slot.
LEMMA NewAssocKeeps ==
  ASSUME TableInv, CanAlloc, NEW c \in Clients, ~Known(c),
         NEW a, Fits(a, c),
         udp_slots' = [udp_slots EXCEPT ![NewSlot] = a],
         udp_map' = [udp_map EXCEPT ![c] = NewSlot],
         udp_free' = FreeLeft, len' = NewLen
  PROVE  TableInv' /\ Used' = Used \cup {NewSlot}
<1>1. /\ udp_map \in [Clients -> Slots \cup {None}]
      /\ udp_slots \in [Slots -> Assocs \cup {None}] /\ a \in Assocs /\ a # None
      /\ None \notin Slots /\ None \notin Assocs /\ len \in Nat /\ MaxSlots \in Nat
      /\ NewSlot \in Slots /\ udp_slots[NewSlot] = None
  BY UdpAssumption, NewSlotFacts DEF TableInv, Tables, Fits
<1>2. udp_map[c] = None
  BY DEF Known, TableInv, MapExact
<1>3. Used' = Used \cup {NewSlot}
  BY <1>1 DEF Used
<1>4. Tables'
  BY <1>1, NewSlotFacts DEF Tables
<1>5. Grown'
  BY <1>1, NewSlotFacts DEF Grown, TableInv, Slots
<1>6. MapExact'
  <2>1. ASSUME NEW d \in Clients, udp_map'[d] # None
        PROVE  udp_slots'[udp_map'[d]] # None /\ udp_slots'[udp_map'[d]].cli = d
    <3>1. CASE d = c
      BY <1>1, <3>1 DEF Fits
    <3>2. CASE d # c
      <4>1. udp_map'[d] = udp_map[d] /\ udp_map[d] \in Slots
            /\ udp_slots[udp_map[d]] # None /\ udp_slots[udp_map[d]].cli = d
        BY <1>1, <2>1, <3>2 DEF TableInv, MapExact
      <4>2. QED
        BY <1>1, <4>1
    <3>3. QED
      BY <3>1, <3>2
  <2>2. ASSUME NEW s \in Slots, udp_slots'[s] # None
        PROVE  udp_map'[udp_slots'[s].cli] = s
    <3>1. CASE s = NewSlot
      BY <1>1, <3>1 DEF Fits
    <3>2. CASE s # NewSlot
      <4>1. udp_slots'[s] = udp_slots[s] /\ udp_slots[s] # None /\ udp_slots[s].cli \in Clients
            /\ udp_map[udp_slots[s].cli] = s
        BY <1>1, <2>2, <3>2 DEF TableInv, MapExact, Assocs
      <4>2. udp_slots[s].cli # c
        BY <1>1, <1>2, <4>1
      <4>3. QED
        BY <1>1, <4>1, <4>2
    <3>3. QED
      BY <3>1, <3>2
  <2>3. \A j, k \in DOMAIN udp_free' : udp_free'[j] = udp_free'[k] => j = k
    BY NewSlotFacts
  <2>4. \A s \in Slots : (\E k \in DOMAIN udp_free' : udp_free'[k] = s)
                           <=> s < len' /\ udp_slots'[s] = None
    BY <1>1, NewSlotFacts
  <2>5. QED
    BY <2>1, <2>2, <2>3, <2>4 DEF MapExact
<1>7. OneUserPerSocket'
  BY <1>1, <1>3 DEF OneUserPerSocket, TableInv, Fits, Used
<1>8. QED
  BY <1>3, <1>4, <1>5, <1>6, <1>7 DEF TableInv

\* The slot is given back: it was empty, and is on the list once again.
LEMMA NotRegisteredKeeps ==
  ASSUME TableInv, CanAlloc, UNCHANGED <<udp_map, udp_slots>>,
         udp_free' = Append(FreeLeft, NewSlot), len' = NewLen
  PROVE  TableInv' /\ Used' = Used
<1>1. /\ NewSlot \in Slots /\ udp_slots[NewSlot] = None /\ FreeLeft \in Seq(Slots)
      /\ NewLen \in 0 .. MaxSlots /\ NewSlot < NewLen /\ len <= NewLen
      /\ \A j, k \in DOMAIN FreeLeft : FreeLeft[j] = FreeLeft[k] => j = k
      /\ \A s \in Slots : (\E k \in DOMAIN FreeLeft : FreeLeft[k] = s)
                            <=> s < NewLen /\ s # NewSlot /\ udp_slots[s] = None
  BY NewSlotFacts
<1>2. \A k \in DOMAIN FreeLeft : FreeLeft[k] # NewSlot
  BY <1>1
<1>3. /\ udp_free' \in Seq(Slots)
      /\ \A j, k \in DOMAIN udp_free' : udp_free'[j] = udp_free'[k] => j = k
      /\ \A s \in Slots : (\E k \in DOMAIN udp_free' : udp_free'[k] = s)
                            <=> s = NewSlot \/ \E k \in DOMAIN FreeLeft : FreeLeft[k] = s
  BY <1>1, <1>2, PushBack
<1>4. Tables'
  BY <1>1, <1>3 DEF Tables, TableInv
<1>5. Grown'
  BY <1>1, UdpAssumption DEF Grown, TableInv, Tables, Slots
<1>6. MapExact'
  <2>1. \A s \in Slots : (\E k \in DOMAIN udp_free' : udp_free'[k] = s)
                           <=> s < len' /\ udp_slots'[s] = None
    BY <1>1, <1>3
  <2>2. QED
    BY <1>3, <2>1 DEF MapExact, TableInv
<1>7. Used' = Used /\ OneUserPerSocket'
  BY DEF Used, OneUserPerSocket, TableInv
<1>8. QED
  BY <1>4, <1>5, <1>6, <1>7 DEF TableInv

\* An association goes, and its map entry with it.
LEMMA DropKeeps ==
  ASSUME TableInv, NEW s \in Used, UNCHANGED len,
         udp_slots' = [udp_slots EXCEPT ![s] = None],
         udp_map' = [udp_map EXCEPT ![udp_slots[s].cli] = None],
         udp_free' = Append(udp_free, s)
  PROVE  TableInv' /\ Used' = Used \ {s}
<1>1. /\ udp_map \in [Clients -> Slots \cup {None}]
      /\ udp_slots \in [Slots -> Assocs \cup {None}] /\ udp_free \in Seq(Slots)
      /\ None \notin Slots /\ None \notin Assocs /\ len \in Nat
      /\ s \in Slots /\ udp_slots[s] # None /\ udp_slots[s].cli \in Clients
      /\ udp_map[udp_slots[s].cli] = s
  BY UdpAssumption DEF TableInv, Tables, Used, MapExact, Assocs
<1>2. s < len
  BY <1>1 DEF TableInv, Grown, Slots
<1>3. Used' = Used \ {s}
  BY <1>1 DEF Used
<1>4. /\ udp_free' \in Seq(Slots)
      /\ \A j, k \in DOMAIN udp_free' : udp_free'[j] = udp_free'[k] => j = k
      /\ \A q \in Slots : (\E k \in DOMAIN udp_free' : udp_free'[k] = q)
                            <=> q = s \/ \E k \in DOMAIN udp_free : udp_free[k] = q
  <2>1. /\ \A j, k \in DOMAIN udp_free : udp_free[j] = udp_free[k] => j = k
        /\ \A k \in DOMAIN udp_free : udp_free[k] # s
    BY <1>1 DEF TableInv, MapExact
  <2>2. QED
    BY <1>1, <2>1, PushBack
<1>5. Tables'
  BY <1>1, <1>4 DEF Tables, TableInv
<1>6. Grown'
  BY <1>1 DEF Grown, TableInv
<1>7. MapExact'
  <2>1. ASSUME NEW d \in Clients, udp_map'[d] # None
        PROVE  udp_slots'[udp_map'[d]] # None /\ udp_slots'[udp_map'[d]].cli = d
    <3>1. d # udp_slots[s].cli /\ udp_map'[d] = udp_map[d] /\ udp_map[d] \in Slots
      BY <1>1, <2>1
    <3>2. udp_slots[udp_map[d]] # None /\ udp_slots[udp_map[d]].cli = d
      BY <2>1, <3>1 DEF TableInv, MapExact
    <3>3. udp_map[d] # s
      BY <3>1, <3>2
    <3>4. QED
      BY <1>1, <3>1, <3>2, <3>3
  <2>2. ASSUME NEW q \in Slots, udp_slots'[q] # None
        PROVE  udp_map'[udp_slots'[q].cli] = q
    <3>1. q # s /\ udp_slots'[q] = udp_slots[q] /\ udp_slots[q] # None
      BY <1>1, <2>2
    <3>2. udp_slots[q].cli \in Clients /\ udp_map[udp_slots[q].cli] = q
      BY <1>1, <3>1 DEF TableInv, MapExact, Assocs
    <3>3. QED
      BY <1>1, <3>1, <3>2
  <2>3. \A q \in Slots : (\E k \in DOMAIN udp_free' : udp_free'[k] = q)
                           <=> q < len' /\ udp_slots'[q] = None
    <3>1. \A q \in Slots : (\E k \in DOMAIN udp_free : udp_free[k] = q)
                             <=> q < len /\ udp_slots[q] = None
      BY DEF TableInv, MapExact
    <3>2. QED
      BY <1>1, <1>2, <1>4, <3>1
  <2>4. QED
    BY <1>4, <2>1, <2>2, <2>3 DEF MapExact
<1>8. OneUserPerSocket'
  BY <1>1, <1>3 DEF OneUserPerSocket, TableInv, Used
<1>9. QED
  BY <1>3, <1>5, <1>6, <1>7, <1>8 DEF TableInv

\* Steps that leave the tables alone.
LEMMA SameTables ==
  ASSUME UNCHANGED tables
  PROVE  Used' = Used /\ (TableInv => TableInv')
BY DEF tables, Used, TableInv, Tables, MapExact, Grown, OneUserPerSocket

-----------------------------------------------------------------------------
(***************************************************************************)
(* The steps.                                                              *)
(***************************************************************************)
\* The part of TypeOK that is not about the tables.
Locals ==
  /\ in_q \in Seq(Clients) /\ in_ready \in BOOLEAN /\ in_failed \in BOOLEAN
  /\ rx \in [Slots -> Nat] /\ up_ready \subseteq Used /\ up_failed \subseteq Used
  /\ pc \in {"wait", "batch", "in", "reply", "clean"}
  /\ todo_in \in BOOLEAN /\ todo_up \subseteq Used /\ buf \in Seq(Clients)
  /\ cur \in Slots /\ i \in 0 .. MaxSlots /\ due \in BOOLEAN
  /\ received \in 0 .. MaxIn /\ replies \in 0 .. MaxReplies
  /\ delivered \in [Clients -> Nat]

LEMMA TypeParts == TypeOK <=> Tables /\ Locals
BY DEF TypeOK, Tables, Locals

LEMMA Assemble == Locals' /\ TableInv' /\ Ages' /\ Holding' /\ QueuesAnnounced' => IInv'
BY TypeParts DEF IInv, TableInv, TypeOK, Tables, Locals

LEMMA ClientSendsKeeps == ASSUME IInv, NEW c \in Clients, ClientSends(c) PROVE IInv'
<1> USE DEF ClientSends, upVars
<1>1. Used' = Used /\ TableInv'
  BY SameTables DEF IInv
<1>2. Locals /\ MaxIn \in Nat
  BY UdpAssumption, TypeParts DEF IInv
<1>3. in_q' \in Seq(Clients) /\ received' \in 0 .. MaxIn
  BY <1>2 DEF Locals
<1>4. Locals'
  BY <1>1, <1>2, <1>3 DEF Locals
<1>5. Ages'
  BY <1>1 DEF IInv, Ages, tables
<1>6. Holding'
  BY <1>1 DEF IInv, Holding
<1>7. QueuesAnnounced'
  BY DEF IInv, QueuesAnnounced
<1>8. QED
  BY <1>1, <1>4, <1>5, <1>6, <1>7, Assemble

LEMMA RemoteSendsKeeps == ASSUME IInv, NEW s \in Slots, RemoteSends(s) PROVE IInv'
<1> USE DEF RemoteSends, inVars
<1>1. Used' = Used /\ TableInv'
  BY SameTables DEF IInv
<1>2. Locals /\ MaxReplies \in Nat
  BY UdpAssumption, TypeParts DEF IInv
<1>3. replies' \in 0 .. MaxReplies /\ rx' \in [Slots -> Nat]
  BY <1>2 DEF Locals
<1>4. Locals'
  BY <1>1, <1>2, <1>3 DEF Locals
<1>5. Ages'
  BY <1>1 DEF IInv, Ages, tables
<1>6. Holding'
  BY <1>1 DEF IInv, Holding
<1>7. \A q \in Slots \ {s} : rx'[q] = rx[q]
  BY <1>2 DEF Locals
<1>8. QueuesAnnounced'
  BY <1>7 DEF IInv, QueuesAnnounced
<1>9. QED
  BY <1>1, <1>4, <1>5, <1>6, <1>8, Assemble

\* A period may pass: the associations were young enough, now they may be due.
LEMMA EpollWaitKeeps == ASSUME IInv, EpollWait PROVE IInv'
<1> USE DEF EpollWait, counts
<1>1. /\ udp_slots \in [Slots -> Assocs \cup {None}] /\ None \notin Assocs /\ Idle \in Nat
      /\ TableInv /\ Locals /\ pc = "wait" /\ ~due
  BY UdpAssumption, TypeParts DEF IInv, TableInv, Tables, Ages
<1>2. \A s \in Used : udp_slots[s] \in Assocs /\ udp_slots[s].age <= Idle
                      /\ udp_slots[s].age \in Nat
  BY <1>1 DEF IInv, Ages, Used, Assocs
<1>3. ASSUME NEW s \in Used
      PROVE  /\ udp_slots'[s] \in Assocs /\ udp_slots'[s].cli = udp_slots[s].cli
             /\ udp_slots'[s].users = udp_slots[s].users
             /\ (~due' => udp_slots'[s].age <= Idle)
  <2>1. udp_slots[s] \in Assocs /\ udp_slots[s].age \in 0 .. Idle /\ udp_slots[s] # None /\ s \in Slots
    BY <1>1, <1>2 DEF Used
  <2>2. CASE due'
    <3>1. udp_slots'[s] = Aged(udp_slots[s])
      BY <2>1, <2>2
    <3>2. QED
      BY <1>1, <2>1, <2>2, <3>1 DEF Aged, Assocs
  <2>3. CASE ~due'
    BY <1>1, <2>1, <2>3
  <2>4. QED
    BY <2>2, <2>3
<1>4. ASSUME NEW s \in Slots, s \notin Used PROVE udp_slots'[s] = None
  BY <1>4 DEF Used
<1>5. TableInv' /\ Used' = Used
  <2>1. udp_slots' \in [Slots -> Assocs \cup {None}]
    BY <1>3, <1>4 DEF Used
  <2>2. \A s \in Slots : udp_slots[s] = None <=> udp_slots'[s] = None
    BY <1>1, <1>3, <1>4 DEF Used
  <2>3. \A s \in Slots : udp_slots[s] # None => Fits(udp_slots'[s], udp_slots[s].cli)
    BY <1>1, <1>3 DEF Fits, Used, TableInv, OneUserPerSocket
  <2>4. UNCHANGED <<udp_map, len, udp_free>>
    OBVIOUS
  <2>5. QED
    BY <1>1, <2>1, <2>2, <2>3, <2>4, TouchKeeps
<1>6. Locals'
  BY <1>1, <1>5 DEF Locals
<1>7. Ages'
  <2>1. ASSUME NEW s \in Used, udp_slots'[s].age > Idle PROVE due'
    <3>1. udp_slots'[s].age \in 0 .. Idle + 1 /\ (~due' => udp_slots'[s].age <= Idle)
      BY <1>3 DEF Assocs
    <3>2. ~(udp_slots'[s].age <= Idle)
      BY <1>1, <2>1, <3>1
    <3>3. QED
      BY <3>1, <3>2
  <2>2. QED
    BY <1>1, <1>5, <2>1 DEF Ages
<1>8. Holding' /\ QueuesAnnounced'
  BY <1>1 DEF IInv, Holding, QueuesAnnounced
<1>9. QED
  BY <1>5, <1>6, <1>7, <1>8, Assemble

\* Steps of the loop that touch neither the tables nor a socket's queue.
LEMMA LoopStepsKeep ==
  ASSUME IInv, InEvent \/ ReplyEvent \/ BatchDone \/ Keep \/ Cleaned
  PROVE  IInv'
<1>1. Used' = Used /\ TableInv' /\ UNCHANGED <<udp_slots, len>>
  BY SameTables DEF IInv, InEvent, ReplyEvent, BatchDone, Keep, Cleaned, tables
<1>2. Locals /\ MaxSlots \in Nat /\ len \in 0 .. MaxSlots /\ Ages /\ Holding /\ QueuesAnnounced
  BY UdpAssumption, TypeParts DEF IInv, TableInv, Tables
<1>3. CASE InEvent
  <2>1. Locals' /\ Ages' /\ Holding' /\ QueuesAnnounced'
    BY <1>1, <1>2, <1>3 DEF InEvent, Locals, Ages, Holding, QueuesAnnounced, inVars, upVars, counts
  <2>2. QED
    BY <1>1, <2>1, Assemble
<1>4. CASE ReplyEvent
  <2>1. Used \subseteq Slots /\ todo_up \subseteq Used
    BY <1>2 DEF Used, Locals
  <2>2. cur' \in todo_up /\ todo_up' = todo_up \ {cur'}
    BY <1>4 DEF ReplyEvent
  <2>3. Locals' /\ Ages' /\ Holding'
    BY <1>1, <1>2, <1>4, <2>1, <2>2 DEF ReplyEvent, Locals, Ages, Holding, inVars, upVars, counts
  <2>4. QueuesAnnounced'
    BY <1>2, <1>4, <2>2 DEF ReplyEvent, QueuesAnnounced, inVars, upVars
  <2>5. QED
    BY <1>1, <2>3, <2>4, Assemble
<1>5. CASE BatchDone
  <2>1. Locals' /\ Holding' /\ QueuesAnnounced'
    BY <1>1, <1>2, <1>5 DEF BatchDone, Locals, Holding, QueuesAnnounced, inVars, upVars, counts
  <2>2. Ages'
    BY <1>1, <1>2, <1>5 DEF BatchDone, Ages, Used, Slots, Locals
  <2>3. QED
    BY <1>1, <2>1, <2>2, Assemble
<1>6. CASE Keep
  <2>1. Locals' /\ Holding' /\ QueuesAnnounced'
    BY <1>1, <1>2, <1>6 DEF Keep, Locals, Holding, QueuesAnnounced, inVars, upVars, counts
  <2>2. Ages'
    <3>1. ASSUME NEW s \in Used, udp_slots[s].age > Idle PROVE due /\ s >= i + 1
      <4>1. due /\ s >= i /\ s \in Nat /\ i \in Nat
        BY <1>2, <1>6, <3>1 DEF Keep, Ages, Used, Slots, Locals
      <4>2. s # i
        BY <1>6, <3>1 DEF Keep, Expired, Used
      <4>3. QED
        BY <4>1, <4>2
    <3>2. QED
      BY <1>1, <1>2, <1>6, <3>1 DEF Keep, Ages
  <2>3. QED
    BY <1>1, <2>1, <2>2, Assemble
<1>7. CASE Cleaned
  <2>1. Locals' /\ Holding' /\ QueuesAnnounced'
    BY <1>1, <1>2, <1>7 DEF Cleaned, Locals, Holding, QueuesAnnounced, inVars, upVars, counts
  <2>2. Ages'
    <3>1. \A s \in Used : ~(s >= i)
      BY <1>7 DEF Cleaned, IInv, TableInv, Grown, Used
    <3>2. \A s \in Used : ~(udp_slots[s].age > Idle)
      BY <1>2, <1>7, <3>1 DEF Cleaned, Ages
    <3>3. QED
      BY <1>1, <1>7, <3>2 DEF Cleaned, Ages
  <2>3. QED
    BY <1>1, <2>1, <2>2, Assemble
<1>8. QED
  BY <1>3, <1>4, <1>5, <1>6, <1>7

\* What is read of the listening socket is a part of what was queued.
LEMMA RecvKeeps == ASSUME IInv, Recv \/ RecvNone PROVE IInv'
<1>1. Used' = Used /\ TableInv' /\ UNCHANGED udp_slots
  BY SameTables DEF IInv, Recv, RecvNone, tables
<1>2. Locals /\ Ages /\ Holding /\ QueuesAnnounced /\ Batch \in Nat \ {0} /\ pc = "in"
  BY UdpAssumption, TypeParts DEF IInv, Recv, RecvNone
<1>3. CASE Recv
  <2>1. PICK n \in 1 .. Len(in_q) : buf' = SubSeq(in_q, 1, n)
                                    /\ in_q' = SubSeq(in_q, n + 1, Len(in_q))
    <3>1. in_q # <<>> /\ in_q \in Seq(Clients)
      BY <1>2, <1>3 DEF Recv, Locals
    <3>2. Least(Batch, Len(in_q)) \in 1 .. Len(in_q)
      BY <1>2, <3>1 DEF Least
    <3>3. QED
      BY <1>3, <3>2 DEF Recv
  <2>2. in_q' \in Seq(Clients) /\ buf' \in Seq(Clients)
    <3>1. in_q \in Seq(Clients) /\ Len(in_q) \in Nat
      BY <1>2 DEF Locals
    <3>2. /\ n \in Int /\ n + 1 \in Int /\ Len(in_q) \in Int
          /\ \A k \in 1 .. n : in_q[k] \in Clients
          /\ \A k \in n + 1 .. Len(in_q) : in_q[k] \in Clients
      BY <2>1, <3>1
    <3>3. SubSeq(in_q, 1, n) \in Seq(Clients) /\ SubSeq(in_q, n + 1, Len(in_q)) \in Seq(Clients)
      BY <3>1, <3>2, SubSeqProperties
    <3>4. QED
      BY <2>1, <3>3
  <2>3. Locals'
    <3>1. UNCHANGED <<in_ready, in_failed, pc, todo_in, todo_up, cur, i, due>>
          /\ UNCHANGED <<rx, up_ready, up_failed, received, replies, delivered>>
      BY <1>3 DEF Recv, upVars, counts
    <3>2. QED
      BY <1>1, <1>2, <2>2, <3>1 DEF Locals
  <2>4. Ages' /\ Holding' /\ QueuesAnnounced'
    BY <1>1, <1>2, <1>3 DEF Recv, Ages, Holding, QueuesAnnounced, upVars
  <2>5. QED
    BY <1>1, <2>3, <2>4, Assemble
<1>4. CASE RecvNone
  <2>1. Locals' /\ Ages' /\ Holding'
    BY <1>1, <1>2, <1>4 DEF RecvNone, Locals, Ages, Holding, upVars, counts
  <2>2. QueuesAnnounced'
    BY <1>2, <1>4 DEF RecvNone, QueuesAnnounced, upVars
  <2>3. QED
    BY <1>1, <2>1, <2>2, Assemble
<1>5. QED
  BY <1>3, <1>4

\* Handling one datagram moves nothing but the tables and the buffer; the
\* associations that were there stay, and none is older than before.
LEMMA TakenKeeps ==
  ASSUME IInv, Taken, TableInv', Used \subseteq Used',
         \A s \in Used' : udp_slots'[s].age = 0
                          \/ (s \in Used /\ udp_slots'[s].age = udp_slots[s].age)
  PROVE  IInv'
<1> USE DEF Taken
<1>1. Locals /\ Ages /\ Holding /\ QueuesAnnounced /\ Idle \in Nat /\ pc = "in"
  BY UdpAssumption, TypeParts DEF IInv
<1>2. buf' \in Seq(Clients)
  BY <1>1 DEF Locals
<1>3. Locals'
  BY <1>1, <1>2 DEF Locals, inVars, upVars, counts
<1>4. Ages'
  <2>1. ~(0 > Idle)
    BY <1>1
  <2>2. \A s \in Used' : udp_slots'[s].age > Idle => s \in Used /\ udp_slots[s].age > Idle
    BY <2>1
  <2>3. QED
    BY <1>1, <2>2 DEF Ages
<1>5. Holding' /\ QueuesAnnounced'
  BY <1>1 DEF Holding, QueuesAnnounced, inVars, upVars
<1>6. QED
  BY <1>3, <1>4, <1>5, Assemble

LEMMA DatagramKeeps == ASSUME IInv, Datagram PROVE IInv'
<1>1. Taken
  BY DEF Datagram, SendKnown, NoSocket, NewAssoc, NotRegistered
<1>2. /\ TableInv /\ udp_slots \in [Slots -> Assocs \cup {None}]
      /\ udp_map \in [Clients -> Slots \cup {None}]
      /\ None \notin Slots /\ None \notin Assocs /\ Idle \in Nat /\ Sender \in Clients
  <2>1. buf \in Seq(Clients) /\ buf # <<>>
    BY <1>1, TypeParts DEF IInv, Locals, Taken
  <2>2. QED
    BY <2>1, UdpAssumption DEF IInv, TableInv, Tables, Sender
<1>3. CASE SendKnown
  <2> DEFINE k == udp_map[Sender]
             a(sent) == [cli |-> udp_slots[k].cli, age |-> 0, users |-> udp_slots[k].users \cup sent]
  <2>1. k \in Slots /\ udp_slots[k] # None /\ udp_slots[k] \in Assocs /\ udp_slots[k].cli = Sender
    BY <1>2, <1>3 DEF SendKnown, Known, TableInv, MapExact
  <2>2. PICK sent \in {{}, {Sender}} : udp_slots' = [udp_slots EXCEPT ![k] = a(sent)]
    BY <1>2, <1>3, <2>1 DEF SendKnown
  <2>3. udp_slots[k].users \subseteq {Sender}
    BY <1>2, <2>1 DEF TableInv, OneUserPerSocket, Used
  <2>4. Fits(a(sent), Sender) /\ a(sent).age = 0
    <3>1. udp_slots[k].users \cup sent \subseteq {Sender} /\ 0 \in 0 .. Idle + 1
      BY <1>2, <2>3
    <3>2. QED
      BY <1>2, <2>1, <3>1 DEF Fits, Assocs
  <2> HIDE DEF k, a
  <2>5. a(sent) \in Assocs /\ a(sent) # None
    BY <1>2, <2>4 DEF Fits
  <2>6. /\ udp_slots' \in [Slots -> Assocs \cup {None}]
        /\ \A s \in Slots : udp_slots[s] = None <=> udp_slots'[s] = None
    BY <1>2, <2>1, <2>2, <2>5
  <2>7. \A s \in Slots : udp_slots[s] # None => Fits(udp_slots'[s], udp_slots[s].cli)
    <3>1. \A s \in Slots : udp_slots[s] # None => Fits(udp_slots[s], udp_slots[s].cli)
      BY <1>2 DEF Fits, TableInv, OneUserPerSocket, Used
    <3>2. \A s \in Slots : udp_slots'[s] = IF s = k THEN a(sent) ELSE udp_slots[s]
      BY <1>2, <2>2
    <3>3. QED
      BY <2>1, <2>4, <3>1, <3>2
  <2>8. UNCHANGED <<udp_map, len, udp_free>>
    BY <1>3 DEF SendKnown
  <2>9. TableInv' /\ Used' = Used
    BY <1>2, <2>6, <2>7, <2>8, TouchKeeps
  <2>10. \A s \in Used' : udp_slots'[s].age = 0
                          \/ (s \in Used /\ udp_slots'[s].age = udp_slots[s].age)
    BY <1>2, <2>2, <2>4, <2>9 DEF Used
  <2>11. QED
    BY <1>1, <2>9, <2>10, TakenKeeps
<1>4. CASE NoSocket
  <2>1. TableInv' /\ Used' = Used /\ UNCHANGED udp_slots
    BY <1>2, <1>4, SameTables DEF NoSocket, tables
  <2>2. QED
    BY <1>1, <2>1, TakenKeeps
<1>5. CASE NewAssoc
  <2> DEFINE a(sent) == [cli |-> Sender, age |-> 0, users |-> sent]
  <2>1. PICK sent \in {{}, {Sender}} : udp_slots' = [udp_slots EXCEPT ![NewSlot] = a(sent)]
    BY <1>5 DEF NewAssoc
  <2>2. Fits(a(sent), Sender) /\ a(sent).age = 0
    BY <1>2 DEF Fits, Assocs
  <2> HIDE DEF a
  <2>3. /\ CanAlloc /\ ~Known(Sender) /\ udp_map' = [udp_map EXCEPT ![Sender] = NewSlot]
        /\ udp_free' = FreeLeft /\ len' = NewLen
    BY <1>5 DEF NewAssoc
  <2>4. TableInv' /\ Used' = Used \cup {NewSlot}
    BY <1>2, <2>1, <2>2, <2>3, NewAssocKeeps
  <2>5. NewSlot \in Slots
    BY <1>2, <2>3, NewSlotFacts
  <2>6. \A s \in Used' : udp_slots'[s].age = 0
                         \/ (s \in Used /\ udp_slots'[s].age = udp_slots[s].age)
    BY <1>2, <2>1, <2>2, <2>4, <2>5 DEF Used
  <2>7. QED
    BY <1>1, <2>4, <2>6, TakenKeeps
<1>6. CASE NotRegistered
  <2>1. CanAlloc /\ udp_free' = Append(FreeLeft, NewSlot) /\ len' = NewLen
        /\ UNCHANGED <<udp_map, udp_slots>>
    BY <1>6 DEF NotRegistered
  <2>2. TableInv' /\ Used' = Used
    BY <1>2, <2>1, NotRegisteredKeeps
  <2>3. QED
    BY <1>1, <2>1, <2>2, TakenKeeps
<1>7. QED
  BY <1>3, <1>4, <1>5, <1>6 DEF Datagram

\* A round of replies empties what it read and may make the association young.
LEMMA ReplyKeeps == ASSUME IInv, Reply \/ ReplyNone PROVE IInv'
<1>1. /\ Locals /\ Ages /\ Holding /\ QueuesAnnounced /\ TableInv /\ pc = "reply" /\ cur \in Used
      /\ Idle \in Nat /\ Batch \in Nat /\ udp_slots \in [Slots -> Assocs \cup {None}]
      /\ None \notin Assocs /\ cur \in Slots /\ rx \in [Slots -> Nat]
      /\ udp_slots[cur] \in Assocs
  BY UdpAssumption, TypeParts
     DEF IInv, Reply, ReplyNone, Holding, TableInv, Tables, Locals, Used
<1>2. CASE Reply
  <2>0. PICK n \in 0 .. rx[cur] : \E sent \in 0 .. n :
          /\ rx' = [rx EXCEPT ![cur] = @ - n]
          /\ delivered' = [delivered EXCEPT ![udp_slots[cur].cli] = @ + sent]
          /\ udp_slots' = IF sent > 0 THEN [udp_slots EXCEPT ![cur].age = 0] ELSE udp_slots
    <3>1. Least(Batch, rx[cur]) \in 0 .. rx[cur]
      BY <1>1 DEF Least
    <3>2. QED
      BY <1>2, <3>1 DEF Reply
  <2>1. PICK sent \in 0 .. n :
          /\ rx' = [rx EXCEPT ![cur] = @ - n]
          /\ delivered' = [delivered EXCEPT ![udp_slots[cur].cli] = @ + sent]
          /\ udp_slots' = IF sent > 0 THEN [udp_slots EXCEPT ![cur].age = 0] ELSE udp_slots
    BY <2>0
  <2>2. rx' \in [Slots -> Nat] /\ delivered' \in [Clients -> Nat]
    BY <1>1, <2>1 DEF Locals, Assocs
  <2>3. \A s \in Slots : udp_slots'[s] = udp_slots[s]
                         \/ (s = cur /\ udp_slots'[s] = [udp_slots[s] EXCEPT !.age = 0])
    BY <1>1, <2>1
  <2>4. [udp_slots[cur] EXCEPT !.age = 0] \in Assocs
        /\ [udp_slots[cur] EXCEPT !.age = 0].cli = udp_slots[cur].cli
        /\ [udp_slots[cur] EXCEPT !.age = 0].users = udp_slots[cur].users
        /\ [udp_slots[cur] EXCEPT !.age = 0].age = 0
    BY <1>1 DEF Assocs
  <2>5. udp_slots' \in [Slots -> Assocs \cup {None}]
    BY <1>1, <2>1, <2>4
  <2>6. \A s \in Slots : udp_slots[s] = None <=> udp_slots'[s] = None
    BY <1>1, <2>3, <2>4
  <2>7. \A s \in Slots : udp_slots[s] # None => Fits(udp_slots'[s], udp_slots[s].cli)
    <3>1. \A s \in Slots : udp_slots[s] # None => Fits(udp_slots[s], udp_slots[s].cli)
      BY <1>1 DEF Fits, TableInv, OneUserPerSocket, Used
    <3>2. Fits([udp_slots[cur] EXCEPT !.age = 0], udp_slots[cur].cli)
      BY <1>1, <2>4, <3>1 DEF Fits, Used
    <3>3. QED
      BY <2>3, <3>1, <3>2
  <2>8. UNCHANGED <<udp_map, len, udp_free>>
    BY <1>2 DEF Reply
  <2>9. TableInv' /\ Used' = Used
    BY <1>1, <2>5, <2>6, <2>7, <2>8, TouchKeeps
  <2>10. Locals'
    BY <1>1, <1>2, <2>2, <2>9 DEF Reply, Locals, inVars
  <2>11. Ages'
    <3>1. ~(0 > Idle)
      BY <1>1
    <3>2. \A s \in Used : udp_slots'[s].age > Idle => udp_slots[s].age > Idle
      BY <2>3, <2>4, <3>1 DEF Used
    <3>3. QED
      BY <1>1, <1>2, <2>9, <3>2 DEF Reply, Ages
  <2>12. Holding'
    BY <1>1, <1>2, <2>9 DEF Reply, Holding
  <2>13. QueuesAnnounced'
    <3>1. \A s \in Slots : s # cur => rx'[s] = rx[s]
      BY <1>1, <2>1
    <3>2. QED
      BY <1>1, <1>2, <3>1 DEF Reply, QueuesAnnounced, inVars
  <2>14. QED
    BY <2>9, <2>10, <2>11, <2>12, <2>13, Assemble
<1>3. CASE ReplyNone
  <2>1. Used' = Used /\ TableInv' /\ UNCHANGED udp_slots
    BY <1>1, <1>3, SameTables DEF ReplyNone, tables
  <2>2. Locals' /\ Ages' /\ Holding'
    BY <1>1, <1>3, <2>1 DEF ReplyNone, Locals, Ages, Holding, inVars, counts
  <2>3. QueuesAnnounced'
    BY <1>1, <1>3 DEF ReplyNone, QueuesAnnounced, inVars
  <2>4. QED
    BY <2>1, <2>2, <2>3, Assemble
<1>4. QED
  BY <1>2, <1>3

\* The slot that expires is the one the clean-up stands at.
LEMMA ExpireKeeps == ASSUME IInv, Expire PROVE IInv'
<1>0. \A r \in [Slots -> Nat], s \in Slots : [r EXCEPT ![s] = 0] \in [Slots -> Nat]
  OBVIOUS
<1> USE DEF Expire, Drop
<1>1. /\ Locals /\ Ages /\ Holding /\ QueuesAnnounced /\ TableInv /\ pc = "clean"
      /\ rx \in [Slots -> Nat] /\ i \in Nat /\ i < len /\ len \in 0 .. MaxSlots /\ MaxSlots \in Nat
      /\ udp_slots \in [Slots -> Assocs \cup {None}]
  BY UdpAssumption, TypeParts DEF IInv, TableInv, Tables, Locals
<1>2. i \in Used
  BY <1>1 DEF Expired, Used, Slots
<1>3. TableInv' /\ Used' = Used \ {i}
  <2>1. /\ UNCHANGED len /\ udp_slots' = [udp_slots EXCEPT ![i] = None]
        /\ udp_map' = [udp_map EXCEPT ![udp_slots[i].cli] = None]
        /\ udp_free' = Append(udp_free, i)
    OBVIOUS
  <2>2. QED
    BY <1>1, <1>2, <2>1, DropKeeps
<1>4. todo_up = {} /\ ~todo_in /\ buf = <<>>
  BY <1>1 DEF Holding
<1>5. Locals'
  <2>1. rx' \in [Slots -> Nat] /\ i' \in 0 .. MaxSlots
    <3>1. i' = i + 1 /\ rx' = [rx EXCEPT ![i] = 0]
      OBVIOUS
    <3>2. i + 1 \in 0 .. MaxSlots
      BY <1>1
    <3>3. [rx EXCEPT ![i] = 0] \in [Slots -> Nat]
      <4>1. i \in Slots /\ rx \in [Slots -> Nat]
        BY <1>1, <1>2 DEF Used
      <4>2. QED
        BY <1>0, <4>1
    <3>4. rx' \in [Slots -> Nat]
      BY <3>1, <3>3, Zenon
    <3>5. i' \in 0 .. MaxSlots
      BY <3>1, <3>2
    <3>6. QED
      BY <3>4, <3>5
  <2>2. up_ready' \subseteq Used' /\ up_failed' \subseteq Used' /\ todo_up' \subseteq Used'
    BY <1>1, <1>3, <1>4 DEF Locals
  <2>3. QED
    BY <1>1, <2>1, <2>2 DEF Locals, inVars, counts
<1>6. Ages'
  <2>1. ASSUME NEW s \in Used', udp_slots'[s].age > Idle PROVE due /\ s >= i + 1
    <3>1. s \in Used /\ s # i /\ s \in Slots /\ udp_slots'[s] = udp_slots[s]
      BY <1>1, <1>3 DEF Used
    <3>2. due /\ s >= i
      BY <1>1, <2>1, <3>1 DEF Ages
    <3>3. s \in Nat
      BY <1>1, <3>1 DEF Slots
    <3>4. QED
      BY <1>1, <3>1, <3>2, <3>3
  <2>2. QED
    BY <1>1, <2>1 DEF Ages
<1>7. Holding'
  BY <1>1 DEF Holding
<1>8. QueuesAnnounced'
  <2>1. rx'[i] = 0 /\ \A s \in Slots : s # i => rx'[s] = rx[s]
    BY <1>1, <1>2 DEF Used
  <2>2. QED
    BY <1>1, <2>1 DEF QueuesAnnounced, inVars
<1>9. QED
  BY <1>3, <1>5, <1>6, <1>7, <1>8, Assemble

LEMMA StutterKeeps == IInv /\ UNCHANGED vars => IInv'
<1> SUFFICES ASSUME IInv, UNCHANGED vars PROVE IInv'
  OBVIOUS
<1>1. Used' = Used /\ TableInv'
  BY SameTables DEF IInv, vars, tables
<1>2. Locals'
  BY <1>1, TypeParts DEF IInv, Locals, vars
<1>3. Ages' /\ Holding' /\ QueuesAnnounced'
  BY <1>1 DEF IInv, Ages, Holding, QueuesAnnounced, vars
<1>4. QED
  BY <1>1, <1>2, <1>3, Assemble

LEMMA NextKeeps == IInv /\ [Next]_vars => IInv'
<1> SUFFICES ASSUME IInv, [Next]_vars PROVE IInv'
  OBVIOUS
<1>1. CASE Network
  BY <1>1, ClientSendsKeeps, RemoteSendsKeeps DEF Network
<1>2. CASE Loop
  BY <1>2, EpollWaitKeeps, LoopStepsKeep, RecvKeeps, DatagramKeeps, ReplyKeeps, ExpireKeeps
     DEF Loop
<1>3. CASE UNCHANGED vars
  BY <1>3, StutterKeeps
<1>4. QED
  BY <1>1, <1>2, <1>3 DEF Next

-----------------------------------------------------------------------------
(***************************************************************************)
(* The results.                                                            *)
(***************************************************************************)
\* The invariant holds of every state of UDP forwarding.
THEOREM Invariance == Spec => []IInv
BY InitIInv, NextKeeps, PTL DEF Spec

\* Every variable keeps its type; no event waits for an association that is gone.
THEOREM TypeCorrect == Spec => []TypeOK
<1>1. IInv => TypeOK
  BY DEF IInv
<1>2. QED
  BY <1>1, Invariance, PTL

\* udp_map, the slots and the free list agree (create, clean-up and the failed
\* registration of main.rs).
THEOREM TablesAgree == Spec => []MapExact
<1>1. IInv => MapExact
  BY DEF IInv, TableInv
<1>2. QED
  BY <1>1, Invariance, PTL

\* Only the client an association belongs to sends by its upstream socket, so
\* the replies read there are that client's.
THEOREM RepliesToAsker == Spec => []OneUserPerSocket
<1>1. IInv => OneUserPerSocket
  BY DEF IInv, TableInv
<1>2. QED
  BY <1>1, Invariance, PTL

\* Edge triggering loses no datagram that no recvmmsg failed on.
THEOREM QueuesKept == Spec => []QueuesAnnounced
<1>1. IInv => QueuesAnnounced
  BY DEF IInv
<1>2. QED
  BY <1>1, Invariance, PTL

\* Between two turns of the loop no association is older than udp_idle_timeout.
THEOREM IdleDropped == Spec => []IdleBound
<1>1. ASSUME IInv PROVE IdleBound
  <2>1. SUFFICES ASSUME pc = "wait", NEW s \in Used PROVE udp_slots[s].age <= Idle
    BY DEF IdleBound
  <2>2. udp_slots[s] \in Assocs /\ Idle \in Nat
    BY <1>1, <2>1, UdpAssumption DEF IInv, TableInv, Tables, Used
  <2>3. ~(udp_slots[s].age > Idle)
    BY <1>1, <2>1 DEF IInv, Ages
  <2>4. QED
    BY <2>2, <2>3 DEF Assocs
<1>2. QED
  BY <1>1, Invariance, PTL

-----------------------------------------------------------------------------
(***************************************************************************)
(* How many datagrams of a client a queue holds.                           *)
(***************************************************************************)
At(c, q) == {k \in DOMAIN q : q[k] = c}

LEMMA CountType ==
  ASSUME NEW c, NEW q \in Seq(Clients)
  PROVE  /\ IsFiniteSet(At(c, q)) /\ Count(c, q) = Cardinality(At(c, q))
         /\ Count(c, q) \in Nat
<1>1. DOMAIN q = 1 .. Len(q) /\ Len(q) \in Nat
  OBVIOUS
<1>2. IsFiniteSet(DOMAIN q)
  BY <1>1, FS_Interval
<1>3. At(c, q) \in SUBSET DOMAIN q /\ Count(c, q) = Cardinality(At(c, q))
  BY DEF At, Count
<1>4. IsFiniteSet(At(c, q))
  BY <1>2, <1>3, FS_Subset
<1>5. QED
  BY <1>3, <1>4, FS_CardinalityType

LEMMA CountEmpty == \A c : Count(c, <<>>) = 0
<1>1. \A c : At(c, <<>>) = {} /\ Count(c, <<>>) = Cardinality(At(c, <<>>))
  BY DEF At, Count
<1>2. QED
  BY <1>1, FS_EmptySet

\* Queueing a datagram of d counts for d alone.
LEMMA CountAppend ==
  ASSUME NEW c, NEW d \in Clients, NEW q \in Seq(Clients)
  PROVE  Count(c, Append(q, d)) = IF c = d THEN Count(c, q) + 1 ELSE Count(c, q)
<1>1. DOMAIN q = 1 .. Len(q) /\ Len(q) \in Nat /\ DOMAIN Append(q, d) = 1 .. Len(q) + 1
  OBVIOUS
<1>2. /\ \A k \in 1 .. Len(q) : Append(q, d)[k] = q[k]
      /\ Append(q, d)[Len(q) + 1] = d /\ Len(q) + 1 \notin 1 .. Len(q)
      /\ 1 .. Len(q) + 1 = (1 .. Len(q)) \cup {Len(q) + 1}
  OBVIOUS
<1>3. Append(q, d) \in Seq(Clients)
  OBVIOUS
<1>4. Len(q) + 1 \notin At(c, q)
  BY <1>1, <1>2 DEF At
<1>5. At(c, Append(q, d)) = IF c = d THEN At(c, q) \cup {Len(q) + 1} ELSE At(c, q)
  BY <1>1, <1>2 DEF At
<1>6. /\ IsFiniteSet(At(c, q)) /\ Count(c, q) = Cardinality(At(c, q))
      /\ Count(c, Append(q, d)) = Cardinality(At(c, Append(q, d)))
  BY <1>3, CountType
<1>7. Cardinality(At(c, q) \cup {Len(q) + 1}) = Cardinality(At(c, q)) + 1
  BY <1>4, <1>6, FS_AddElement
<1>8. QED
  BY <1>5, <1>6, <1>7

\* A queue cut in two.
LEMMA CountSplit ==
  ASSUME NEW c, NEW q \in Seq(Clients), NEW n \in 0 .. Len(q)
  PROVE  /\ SubSeq(q, 1, n) \in Seq(Clients) /\ SubSeq(q, n + 1, Len(q)) \in Seq(Clients)
         /\ Count(c, q) = Count(c, SubSeq(q, 1, n)) + Count(c, SubSeq(q, n + 1, Len(q)))
<1> DEFINE f == SubSeq(q, 1, n)
           r == SubSeq(q, n + 1, Len(q))
           late == {k \in n + 1 .. Len(q) : q[k] = c}
<1>1. DOMAIN q = 1 .. Len(q) /\ Len(q) \in Nat /\ n \in Nat /\ n <= Len(q)
  OBVIOUS
<1>2. /\ f \in Seq(Clients) /\ DOMAIN f = 1 .. n /\ \A k \in 1 .. n : f[k] = q[k]
  <2>1. \A k \in 1 .. n : q[k] \in Clients
    BY <1>1
  <2>2. QED
    BY <1>1, <2>1, SubSeqProperties
<1>3. /\ r \in Seq(Clients) /\ DOMAIN r = 1 .. Len(q) - n
      /\ \A k \in 1 .. Len(q) - n : r[k] = q[n + k]
  <2>1. \A k \in n + 1 .. Len(q) : q[k] \in Clients
    BY <1>1
  <2>2. QED
    BY <1>1, <2>1, SubSeqProperties
<1> HIDE DEF f, r
<1>4. IsFiniteSet(late) /\ Cardinality(late) = Cardinality(At(c, r))
  <2> DEFINE g == [k \in At(c, r) |-> n + k]
  <2>1. g \in Bijection(At(c, r), late)
    <3>1. \A k \in At(c, r) : k \in 1 .. Len(q) - n /\ g[k] = n + k /\ n + k \in late
      BY <1>1, <1>3 DEF At
    <3>2. \A j, k \in At(c, r) : g[j] = g[k] => j = k
      BY <1>1, <3>1
    <3>3. \A m \in late : m - n \in At(c, r) /\ g[m - n] = m
      BY <1>1, <1>3 DEF At
    <3>4. g \in [At(c, r) -> late]
      BY <3>1
    <3>5. QED
      BY <3>2, <3>3, <3>4, Fun_IsBij
  <2>2. IsFiniteSet(At(c, r))
    BY <1>3, CountType
  <2>3. ExistsBijection(At(c, r), late)
    BY <2>1 DEF ExistsBijection
  <2>4. QED
    BY <2>2, <2>3, FS_Bijection
<1>5. At(c, q) = At(c, f) \cup late /\ At(c, f) \cap late = {}
  BY <1>1, <1>2 DEF At
<1>6. IsFiniteSet(At(c, f)) /\ Count(c, f) = Cardinality(At(c, f)) /\ Count(c, f) \in Nat
      /\ Count(c, r) = Cardinality(At(c, r)) /\ Count(c, r) \in Nat
      /\ Count(c, q) = Cardinality(At(c, q))
  BY <1>2, <1>3, CountType
<1>7. Cardinality(At(c, q)) = Cardinality(At(c, f)) + Cardinality(late) - Cardinality({})
  BY <1>4, <1>5, <1>6, FS_Union
<1>8. Count(c, q) = Count(c, f) + Count(c, r)
  BY <1>4, <1>6, <1>7, FS_EmptySet
<1>9. QED
  BY <1>2, <1>3, <1>8 DEF f, r

\* Taking the head takes one datagram of its sender.
LEMMA CountTail ==
  ASSUME NEW c, NEW q \in Seq(Clients), q # <<>>
  PROVE  Count(c, q) = IF c = Head(q) THEN Count(c, Tail(q)) + 1 ELSE Count(c, Tail(q))
<1> DEFINE f == SubSeq(q, 1, 1)
<1>1. 1 \in 0 .. Len(q) /\ Tail(q) = SubSeq(q, 1 + 1, Len(q)) /\ q[1] = Head(q)
      /\ q[1] \in Clients
  OBVIOUS
<1>2. f \in Seq(Clients) /\ Tail(q) \in Seq(Clients)
      /\ Count(c, q) = Count(c, f) + Count(c, Tail(q))
  <2>1. Count(c, q) = Count(c, f) + Count(c, SubSeq(q, 1 + 1, Len(q)))
        /\ f \in Seq(Clients) /\ SubSeq(q, 1 + 1, Len(q)) \in Seq(Clients)
    BY <1>1, CountSplit
  <2>2. QED
    BY <1>1, <2>1
<1>3. DOMAIN f = {1} /\ f[1] = Head(q)
  <2>1. \A k \in 1 .. 1 : q[k] \in Clients
    BY <1>1
  <2>2. Len(f) = 1 /\ \A k \in 1 .. 1 : f[k] = q[1 + k - 1]
    BY <2>1, SubSeqProperties
  <2>3. DOMAIN f = 1 .. 1
    BY <1>2, <2>2
  <2>4. QED
    BY <1>1, <2>2, <2>3
<1> HIDE DEF f
<1>4. At(c, f) = IF c = Head(q) THEN {1} ELSE {}
  BY <1>3 DEF At
<1>5. Count(c, f) = IF c = Head(q) THEN 1 ELSE 0
  <2>1. Count(c, f) = Cardinality(At(c, f))
    BY DEF Count, At
  <2>2. QED
    BY <1>4, <2>1, FS_EmptySet, FS_Singleton
<1>6. Count(c, Tail(q)) \in Nat
  BY <1>2, CountType
<1>7. QED
  BY <1>2, <1>5, <1>6

-----------------------------------------------------------------------------
(***************************************************************************)
(* UDP forwarding implements UdpNat.                                       *)
(***************************************************************************)
sessions == <<Open, Held, Answers, delivered>>

\* Nothing waits in a slot without a socket.
LEMMA EmptySlotsQuiet == IInv => \A s \in Slots \ Used : rx[s] = 0
<1> SUFFICES ASSUME IInv, NEW s \in Slots \ Used PROVE rx[s] = 0
  OBVIOUS
<1>1. rx \in [Slots -> Nat] /\ up_ready \cup todo_up \cup up_failed \subseteq Used
      /\ (pc = "reply" => cur \in Used)
  BY DEF IInv, TypeOK, Holding
<1>2. ~(rx[s] > 0)
  BY <1>1 DEF IInv, QueuesAnnounced
<1>3. QED
  BY <1>1, <1>2

\* The abstract state of an implementation state.
LEMMA MappingFacts ==
  ASSUME IInv
  PROVE  /\ Held \in [Clients -> Nat] /\ Answers \in [Clients -> Nat]
         /\ \A c \in Clients : Count(c, buf) \in Nat /\ Count(c, in_q) \in Nat
         /\ udp_map \in [Clients -> Slots \cup {None}] /\ rx \in [Slots -> Nat]
         /\ \A c \in Open : udp_map[c] \in Used
         /\ \A s \in Used : /\ s \in Slots /\ udp_slots[s] \in Assocs
                            /\ udp_slots[s].cli \in Open /\ udp_map[udp_slots[s].cli] = s
                            /\ Answers[udp_slots[s].cli] = rx[s]
                            /\ \A d \in Clients : d # udp_slots[s].cli => udp_map[d] # s
<1>1. /\ udp_map \in [Clients -> Slots \cup {None}] /\ rx \in [Slots -> Nat]
      /\ udp_slots \in [Slots -> Assocs \cup {None}] /\ None \notin Slots
      /\ buf \in Seq(Clients) /\ in_q \in Seq(Clients) /\ MapExact
  BY UdpAssumption DEF IInv, TypeOK, TableInv
<1>2. \A c \in Clients : Count(c, buf) \in Nat /\ Count(c, in_q) \in Nat
  BY <1>1, CountType
<1>3. Held \in [Clients -> Nat] /\ Answers \in [Clients -> Nat]
  BY <1>1, <1>2 DEF Held, Answers
<1>4. \A c \in Open : udp_map[c] \in Used
  BY <1>1 DEF Open, Used, MapExact
<1>5. ASSUME NEW s \in Used
      PROVE  /\ s \in Slots /\ udp_slots[s] \in Assocs
             /\ udp_slots[s].cli \in Open /\ udp_map[udp_slots[s].cli] = s
             /\ Answers[udp_slots[s].cli] = rx[s]
             /\ \A d \in Clients : d # udp_slots[s].cli => udp_map[d] # s
  <2>1. s \in Slots /\ udp_slots[s] \in Assocs /\ udp_slots[s].cli \in Clients
        /\ udp_slots[s] # None
    BY <1>1 DEF Used, Assocs
  <2>2. udp_map[udp_slots[s].cli] = s /\ s # None
    BY <1>1, <2>1 DEF MapExact
  <2>3. \A d \in Clients : udp_map[d] = s => d = udp_slots[s].cli
    BY <1>1, <2>2 DEF MapExact
  <2>4. QED
    BY <2>1, <2>2, <2>3 DEF Open, Answers
<1>6. QED
  BY <1>1, <1>2, <1>3, <1>4, <1>5

LEMMA RefineInit == Init => Sessions!Init
<1> SUFFICES ASSUME Init PROVE Sessions!Init
  OBVIOUS
<1>1. Open = {}
  BY DEF Init, Open
<1>2. Held = [c \in Clients |-> 0]
  BY CountEmpty DEF Init, Held
<1>3. Answers = [c \in Clients |-> 0]
  BY DEF Init, Answers
<1>4. QED
  BY <1>1, <1>2, <1>3 DEF Init, Sessions!Init

LEMMA Unmoved == UNCHANGED <<udp_map, rx, buf, in_q, delivered>> => UNCHANGED sessions
BY DEF sessions, Open, Held, Answers, Count

\* A datagram arrives.
LEMMA ReceiveStep == ASSUME IInv, NEW c \in Clients, ClientSends(c) PROVE Sessions!Receive(c)
<1>1. UNCHANGED <<udp_map, rx, buf, delivered>> /\ in_q' = Append(in_q, c)
  BY DEF ClientSends, tables, upVars
<1>2. UNCHANGED <<Open, Answers>>
  BY <1>1 DEF Open, Answers
<1>3. \A d \in Clients : Count(d, in_q') = IF d = c THEN Count(d, in_q) + 1 ELSE Count(d, in_q)
  BY <1>1, CountAppend DEF IInv, TypeOK
<1>4. Held' = [Held EXCEPT ![c] = @ + 1]
  <2>1. \A d \in Clients : Count(d, buf') = Count(d, buf)
    BY <1>1
  <2>2. Held' = [d \in Clients |-> IF d = c THEN Held[d] + 1 ELSE Held[d]]
    BY <1>3, <2>1, MappingFacts DEF Held
  <2>3. QED
    BY <2>2 DEF Held
<1>5. QED
  BY <1>1, <1>2, <1>4 DEF Sessions!Receive

\* recvmmsg moves datagrams from the queue to the buffer: no client's count changes.
LEMMA RecvMovesNone == IInv /\ Recv => UNCHANGED sessions
<1> SUFFICES ASSUME IInv, Recv PROVE UNCHANGED sessions
  OBVIOUS
<1>1. UNCHANGED <<udp_map, rx, delivered>> /\ buf = <<>> /\ in_q # <<>>
  BY DEF Recv, tables, upVars, counts
<1>2. in_q \in Seq(Clients) /\ Batch \in Nat
  BY UdpAssumption DEF IInv, TypeOK
<1>3. PICK n \in 0 .. Len(in_q) :
        buf' = SubSeq(in_q, 1, n) /\ in_q' = SubSeq(in_q, n + 1, Len(in_q))
  <2>1. Least(Batch, Len(in_q)) \in 0 .. Len(in_q)
    BY <1>2 DEF Least
  <2>2. QED
    BY <2>1 DEF Recv
<1>4. \A c \in Clients : Count(c, in_q) = Count(c, buf') + Count(c, in_q')
  BY <1>2, <1>3, CountSplit
<1>5. \A c \in Clients : Count(c, buf) + Count(c, in_q) = Count(c, buf') + Count(c, in_q')
  BY <1>1, <1>4, CountEmpty, MappingFacts
<1>6. UNCHANGED Held
  BY <1>5 DEF Held
<1>7. QED
  BY <1>1, <1>6 DEF sessions, Open, Answers

\* A datagram leaves the buffer; its sender has, or gets, or is left without a session.
LEMMA ForwardStep == IInv /\ Datagram => Sessions!Forward(Sender) /\ Sender \in Clients
<1> SUFFICES ASSUME IInv, Datagram PROVE Sessions!Forward(Sender) /\ Sender \in Clients
  OBVIOUS
<1>1. /\ Taken /\ buf # <<>> /\ buf' = Tail(buf) /\ UNCHANGED <<in_q, rx, delivered>>
  BY DEF Datagram, SendKnown, NoSocket, NewAssoc, NotRegistered, Taken, inVars, upVars, counts
<1>2. buf \in Seq(Clients) /\ Tail(buf) \in Seq(Clients) /\ Sender \in Clients
  <2>1. buf \in Seq(Clients)
    BY DEF IInv, TypeOK
  <2>2. QED
    BY <1>1, <2>1 DEF Sender
<1>3. Held[Sender] > 0 /\ Held' = [Held EXCEPT ![Sender] = @ - 1]
  <2>1. \A d \in Clients : /\ Count(d, Tail(buf)) \in Nat
                           /\ Count(d, buf) = IF d = Sender THEN Count(d, Tail(buf)) + 1
                                                            ELSE Count(d, Tail(buf))
    BY <1>1, <1>2, CountTail, CountType DEF Sender
  <2>2. \A d \in Clients : Held[d] = Count(d, buf) + Count(d, in_q) /\ Count(d, in_q) \in Nat
                          /\ Held'[d] = Count(d, Tail(buf)) + Count(d, in_q)
    BY <1>1, MappingFacts DEF Held
  <2>3. Held[Sender] > 0
    <3>1. PICK a \in Nat : a = Count(Sender, Tail(buf)) /\ Count(Sender, buf) = a + 1
      BY <1>2, <2>1
    <3>2. PICK b \in Nat : b = Count(Sender, in_q) /\ Held[Sender] = a + 1 + b
      BY <1>2, <2>2, <3>1
    <3>3. QED
      BY <3>1, <3>2
  <2>4. \A d \in Clients : Held'[d] = IF d = Sender THEN Held[d] - 1 ELSE Held[d]
    BY <2>1, <2>2
  <2>5. Held' = [d \in Clients |-> IF d = Sender THEN Held[d] - 1 ELSE Held[d]]
    BY <2>4 DEF Held
  <2>6. QED
    BY <2>3, <2>5 DEF Held
<1>4. CASE UNCHANGED udp_map
  <2>1. UNCHANGED <<Open, Answers>>
    BY <1>1, <1>4 DEF Open, Answers
  <2>2. QED
    BY <1>1, <1>2, <1>3, <2>1 DEF Sessions!Forward
<1>5. CASE NewAssoc
  <2>1. ~Known(Sender) /\ CanAlloc /\ udp_map' = [udp_map EXCEPT ![Sender] = NewSlot]
    BY <1>5 DEF NewAssoc
  <2>2. NewSlot \in Slots \ Used /\ NewSlot # None
    BY <2>1, NewSlotFacts, UdpAssumption DEF IInv, Used
  <2>3. udp_map[Sender] = None
    BY <1>2, <2>1 DEF Known, IInv, TableInv, MapExact
  <2>4. \A d \in Clients : udp_map'[d] = IF d = Sender THEN NewSlot ELSE udp_map[d]
    BY <2>1, MappingFacts
  <2>5. Open' = Open \cup {Sender}
    BY <1>2, <2>2, <2>4 DEF Open
  <2>6. rx[NewSlot] = 0
    BY <2>2, EmptySlotsQuiet
  <2>7. UNCHANGED Answers
    BY <1>1, <2>2, <2>3, <2>4, <2>6 DEF Answers
  <2>8. QED
    BY <1>1, <1>2, <1>3, <2>5, <2>7 DEF Sessions!Forward
<1>6. QED
  BY <1>4, <1>5 DEF Datagram, SendKnown, NoSocket, NotRegistered, tables

\* What happens to the queue of a used slot happens to the answers of its client.
LEMMA AnswersFollow ==
  ASSUME IInv, NEW s \in Used, NEW n \in Nat, UNCHANGED udp_map, rx' = [rx EXCEPT ![s] = n]
  PROVE  Answers' = [Answers EXCEPT ![udp_slots[s].cli] = n]
<1> DEFINE c == udp_slots[s].cli
<1>1. /\ c \in Clients /\ udp_map[c] = s /\ s \in Slots /\ s # None
      /\ \A d \in Clients : d # c => udp_map[d] # s
      /\ udp_map \in [Clients -> Slots \cup {None}] /\ rx \in [Slots -> Nat]
  BY MappingFacts, UdpAssumption DEF Open
<1> HIDE DEF c
<1>2. \A q \in Slots : rx'[q] = IF q = s THEN n ELSE rx[q]
  BY <1>1
<1>3. \A d \in Clients : (IF udp_map'[d] # None THEN rx'[udp_map'[d]] ELSE 0)
                         = IF d = c THEN n ELSE Answers[d]
  BY <1>1, <1>2 DEF Answers
<1>4. Answers' = [d \in Clients |-> IF d = c THEN n ELSE Answers[d]]
  BY <1>3 DEF Answers
<1>5. QED
  BY <1>4 DEF Answers, c

LEMMA AnswerStep ==
  ASSUME IInv, NEW s \in Slots, RemoteSends(s) PROVE Sessions!Answer(udp_slots[s].cli)
<1>1. /\ s \in Used /\ UNCHANGED <<udp_map, buf, in_q, delivered>>
      /\ rx' = [rx EXCEPT ![s] = rx[s] + 1] /\ rx[s] + 1 \in Nat
  BY MappingFacts DEF RemoteSends, tables, inVars
<1>2. Answers' = [Answers EXCEPT ![udp_slots[s].cli] = rx[s] + 1]
  BY <1>1, AnswersFollow
<1>3. udp_slots[s].cli \in Open /\ Answers[udp_slots[s].cli] = rx[s]
  BY <1>1, MappingFacts
<1>4. Answers' = [Answers EXCEPT ![udp_slots[s].cli] = @ + 1]
  BY <1>2, <1>3
<1>5. UNCHANGED <<Open, Held>>
  BY <1>1 DEF Open, Held, Count
<1>6. QED
  BY <1>1, <1>3, <1>4, <1>5 DEF Sessions!Answer

LEMMA DeliverStep == ASSUME IInv, Reply PROVE Sessions!Deliver(udp_slots[cur].cli)
<1> DEFINE c == udp_slots[cur].cli
<1>1. /\ cur \in Used /\ rx[cur] > 0 /\ UNCHANGED <<udp_map, buf, in_q>>
  BY DEF Reply, IInv, Holding, inVars
<1>2. /\ rx \in [Slots -> Nat] /\ rx[cur] \in Nat /\ c \in Open /\ Answers[c] = rx[cur]
  BY <1>1, MappingFacts
<1>3. PICK n \in 1 .. rx[cur] : \E sent \in 0 .. n :
        rx' = [rx EXCEPT ![cur] = @ - n] /\ delivered' = [delivered EXCEPT ![c] = @ + sent]
  <2>1. Least(Batch, rx[cur]) \in 1 .. rx[cur]
    BY <1>1, <1>2, UdpAssumption DEF Least
  <2>2. QED
    BY <2>1 DEF Reply
<1>4. rx' = [rx EXCEPT ![cur] = rx[cur] - n] /\ rx[cur] - n \in Nat
  BY <1>2, <1>3
<1>5. Answers' = [Answers EXCEPT ![c] = rx[cur] - n]
  BY <1>1, <1>4, AnswersFollow
<1>6. UNCHANGED <<Open, Held>>
  BY <1>1 DEF Open, Held, Count
<1> HIDE DEF c
<1>7. Answers' = [Answers EXCEPT ![c] = @ - n] /\ n \in 1 .. Answers[c]
  BY <1>2, <1>5
<1>8. Sessions!Deliver(c)
  BY <1>2, <1>3, <1>6, <1>7 DEF Sessions!Deliver
<1>9. QED
  BY <1>8 DEF c

LEMMA CloseStep ==
  ASSUME IInv, Expire PROVE i \in Used /\ Sessions!Close(udp_slots[i].cli)
<1> DEFINE c == udp_slots[i].cli
<1>1. /\ i < len /\ udp_slots[i] # None /\ UNCHANGED <<buf, in_q, delivered>>
      /\ udp_map' = [udp_map EXCEPT ![c] = None] /\ rx' = [rx EXCEPT ![i] = 0]
  BY DEF Expire, Drop, Expired, inVars, counts
<1>2. i \in Used
  BY <1>1, UdpAssumption DEF IInv, TypeOK, Used, Slots
<1>3. /\ c \in Open /\ c \in Clients /\ udp_map[c] = i /\ i \in Slots
      /\ \A d \in Clients : d # c => udp_map[d] # i
      /\ udp_map \in [Clients -> Slots \cup {None}] /\ rx \in [Slots -> Nat]
  BY <1>2, MappingFacts DEF Open
<1> HIDE DEF c
<1>4. /\ \A d \in Clients : udp_map'[d] = IF d = c THEN None ELSE udp_map[d]
      /\ \A s \in Slots : s # i => rx'[s] = rx[s]
  BY <1>1, <1>3
<1>5. Open' = Open \ {c}
  BY <1>3, <1>4 DEF Open
<1>6. Answers' = [d \in Clients |-> IF d = c THEN 0 ELSE Answers[d]]
  BY <1>3, <1>4 DEF Answers
<1>7. Answers' = [Answers EXCEPT ![c] = 0]
  BY <1>6 DEF Answers
<1>8. UNCHANGED Held
  BY <1>1 DEF Held, Count
<1>9. Sessions!Close(c)
  BY <1>1, <1>3, <1>5, <1>7, <1>8 DEF Sessions!Close
<1>10. QED
  BY <1>2, <1>9 DEF c

LEMMA RefineStep == IInv /\ [Next]_vars => [Sessions!Next]_sessions
<1> SUFFICES ASSUME IInv, [Next]_vars PROVE Sessions!Next \/ UNCHANGED sessions
  OBVIOUS
<1>o. Open \subseteq Clients
  BY DEF Open
<1>u. \A s \in Used : udp_slots[s].cli \in Clients
  BY <1>o, MappingFacts
<1>1. ASSUME NEW c \in Clients, ClientSends(c) PROVE Sessions!Next
  BY <1>1, ReceiveStep DEF Sessions!Next
<1>2. ASSUME NEW s \in Slots, RemoteSends(s) PROVE Sessions!Next
  <2>1. Sessions!Answer(udp_slots[s].cli) /\ s \in Used
    BY <1>2, AnswerStep DEF RemoteSends
  <2>2. QED
    BY <1>u, <2>1 DEF Sessions!Next
<1>3. CASE EpollWait \/ InEvent \/ RecvNone \/ ReplyEvent \/ ReplyNone \/ BatchDone \/ Keep
           \/ Cleaned \/ UNCHANGED vars
  <2>1. UNCHANGED <<udp_map, rx, buf, in_q, delivered>>
    BY <1>3
    DEF EpollWait, InEvent, RecvNone, ReplyEvent, ReplyNone, BatchDone, Keep, Cleaned, vars,
        tables, inVars, upVars, counts
  <2>2. QED
    BY <2>1, Unmoved
<1>4. CASE Recv
  BY <1>4, RecvMovesNone
<1>5. CASE Datagram
  BY <1>5, ForwardStep DEF Sessions!Next
<1>6. CASE Reply
  <2>1. Sessions!Deliver(udp_slots[cur].cli) /\ cur \in Used
    BY <1>6, DeliverStep DEF Reply, IInv, Holding
  <2>2. QED
    BY <1>u, <2>1 DEF Sessions!Next
<1>7. CASE Expire
  BY <1>7, <1>u, CloseStep DEF Sessions!Next
<1>8. QED
  BY <1>1, <1>2, <1>3, <1>4, <1>5, <1>6, <1>7 DEF Next, Loop, Network

\* For any clients, slots and batch size the relay's tables, slots and queues
\* implement one session per client: no datagram or reply is doubled or goes
\* to another client, whatever slots are given back and given out again.
THEOREM Refinement == Spec => IsUdpNat
<1>1. IInv /\ [Next]_vars => [Sessions!Next]_(Sessions!vars)
  BY RefineStep DEF sessions, Sessions!vars
<1>2. QED
  BY <1>1, RefineInit, Invariance, PTL DEF Spec, IsUdpNat, Sessions!Spec
=============================================================================
