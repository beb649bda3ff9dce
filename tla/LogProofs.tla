----------------------------- MODULE LogProofs ------------------------------
(***************************************************************************)
(* Proofs about Log for any number of threads, queue size and rate: types, *)
(* the rate limit, and that no lost line is reported twice.                *)
(***************************************************************************)
EXTENDS Log, FiniteSetTheorems, TLAPS

\* What was printed this second and what may still be printed fit the rate;
\* a disabled logger never leaves the discarding loop.
Rated ==
  pc \notin {"notice_all", "emit_all", "end"} =>
    /\ enabled => printed + quota <= Rate
    /\ ~enabled => printed = 0 /\ pc \in {"loop", "discard"}

IInv == TypeOK /\ Rated /\ NeverOverReported

\* How the set of threads between a refusal and its count changes.
LEMMA RefusedFacts ==
  ASSUME TypeOK
  PROVE  /\ Cardinality(Refused) \in Nat
         /\ push' = push => Refused' = Refused
         /\ \A p \in Pushers : push' = [push EXCEPT ![p] = "refused"] /\ push[p] = "out" =>
              Cardinality(Refused') = Cardinality(Refused) + 1
         /\ \A p \in Pushers : push' = [push EXCEPT ![p] = "out"] /\ push[p] = "refused" =>
              Cardinality(Refused') = Cardinality(Refused) - 1
<1>1. IsFiniteSet(Refused) /\ Cardinality(Refused) \in Nat
  BY LogAssumption, FS_Subset, FS_CardinalityType DEF Refused
<1>2. push' = push => Refused' = Refused
  BY DEF Refused
<1>3. ASSUME NEW p \in Pushers, push' = [push EXCEPT ![p] = "refused"], push[p] = "out"
      PROVE  Cardinality(Refused') = Cardinality(Refused) + 1
  <2>1. Refused' = Refused \cup {p} /\ p \notin Refused
    BY <1>3 DEF Refused, TypeOK
  <2>2. QED
    BY <1>1, <2>1, FS_AddElement
<1>4. ASSUME NEW p \in Pushers, push' = [push EXCEPT ![p] = "out"], push[p] = "refused"
      PROVE  Cardinality(Refused') = Cardinality(Refused) - 1
  <2>1. Refused' = Refused \ {p} /\ p \in Refused
    BY <1>4 DEF Refused, TypeOK
  <2>2. QED
    BY <1>1, <2>1, FS_RemoveElement
<1>5. QED
  BY <1>1, <1>2, <1>3, <1>4

LEMMA InitIInv == Init => IInv
<1> SUFFICES ASSUME Init PROVE IInv
  OBVIOUS
<1>1. Refused = {}
  BY DEF Init, Refused
<1>2. Cardinality(Refused) = 0
  BY <1>1, FS_EmptySet
<1>3. TypeOK /\ Rated
  BY LogAssumption DEF Init, TypeOK, Rated
<1>4. NeverOverReported
  BY <1>2 DEF Init, NeverOverReported, Accounted
<1>5. QED
  BY <1>3, <1>4 DEF IInv

-----------------------------------------------------------------------------
(***************************************************************************)
(* Every step preserves the invariant.                                     *)
(***************************************************************************)
\* A refused line is lost at once and counted by its thread later.
LEMMA OfferKeeps ==
  ASSUME IInv, NEW p \in Pushers, Offer(p),
         pc' \in {"loop", "discard", "swap", "emit", "drain", "notice_all", "emit_all", "end"}
  PROVE  TypeOK' /\ NeverOverReported'
<1> USE DEF IInv
<1>1. /\ push[p] = "out" /\ pushes[p] < MaxPush
      /\ pushes' = [pushes EXCEPT ![p] = @ + 1]
      /\ UNCHANGED <<enabled, send_drops, quota, dropped, printed, reported>>
  BY DEF Offer, stdout
<1>2. pushes' \in [Pushers -> 0 .. MaxPush]
  BY <1>1, LogAssumption DEF TypeOK
<1>3. CASE queued < QueueMax /\ queued' = queued + 1 /\ UNCHANGED <<push, lost>>
  <2>1. TypeOK'
    BY <1>1, <1>2, <1>3, LogAssumption DEF TypeOK
  <2>2. NeverOverReported'
    BY <1>1, <1>3, RefusedFacts DEF NeverOverReported, Accounted
  <2>3. QED
    BY <2>1, <2>2
<1>4. CASE /\ queued = QueueMax /\ push' = [push EXCEPT ![p] = "refused"]
           /\ lost' = lost + 1 /\ UNCHANGED queued
  <2>1. TypeOK'
    BY <1>1, <1>2, <1>4 DEF TypeOK
  <2>2. Cardinality(Refused') = Cardinality(Refused) + 1 /\ Cardinality(Refused) \in Nat
    BY <1>1, <1>4, RefusedFacts
  <2>3. NeverOverReported'
    BY <1>1, <1>4, <2>2 DEF NeverOverReported, Accounted, TypeOK
  <2>4. QED
    BY <2>1, <2>3
<1>5. QED
  BY <1>3, <1>4 DEF Offer

LEMMA PushStep == ASSUME IInv, NEW p \in Pushers, Push(p) PROVE IInv'
<1>1. TypeOK' /\ NeverOverReported'
  BY OfferKeeps DEF Push, IInv, TypeOK
<1>2. UNCHANGED <<enabled, pc, quota, printed>>
  BY DEF Push, Offer, stdout
<1>3. QED
  BY <1>1, <1>2 DEF IInv, Rated

LEMMA ShutdownStep == ASSUME IInv, Shutdown PROVE IInv'
<1>1. pc' = "notice_all"
  BY DEF Shutdown
<1>2. TypeOK' /\ NeverOverReported'
  BY <1>1, OfferKeeps, LogAssumption DEF Shutdown
<1>3. QED
  BY <1>1, <1>2 DEF IInv, Rated

LEMMA CountStep == ASSUME IInv, NEW p \in Pushers, CountDrop(p) PROVE IInv'
<1> USE DEF IInv
<1>1. /\ push[p] = "refused" /\ send_drops' = send_drops + 1
      /\ push' = [push EXCEPT ![p] = "out"]
      /\ UNCHANGED <<enabled, queued, pushes, pc, quota, dropped, lost, printed, reported>>
  BY DEF CountDrop, stdout
<1>2. TypeOK' /\ Rated'
  BY <1>1 DEF TypeOK, Rated
<1>3. Cardinality(Refused') = Cardinality(Refused) - 1 /\ Cardinality(Refused) \in Nat
  BY <1>1, RefusedFacts
<1>4. NeverOverReported'
  BY <1>1, <1>3 DEF NeverOverReported, Accounted, TypeOK
<1>5. QED
  BY <1>2, <1>4

LEMMA FlushStep == ASSUME IInv, maybe_flush \/ flush_all PROVE IInv'
<1> USE DEF IInv
<1>0. Refused' = Refused /\ Cardinality(Refused) \in Nat
  <2>1. push' = push
    BY DEF maybe_flush, flush_all, Begin, Discard, Swap, Emit, Drain, NoticeAll, EmitAll, pushVars
  <2>2. QED
    BY <2>1, RefusedFacts
<1>1. ASSUME NEW second \in BOOLEAN, Begin(second) PROVE IInv'
  <2>1. TypeOK'
    BY <1>1, LogAssumption DEF Begin, TypeOK, pushVars
  <2>2. Rated'
    BY <1>1, LogAssumption DEF Begin, TypeOK, Rated
  <2>3. NeverOverReported'
    BY <1>0, <1>1 DEF Begin, NeverOverReported, Accounted
  <2>4. QED
    BY <2>1, <2>2, <2>3
<1>2. ASSUME Discard PROVE IInv'
  <2>1. TypeOK'
    BY <1>2, LogAssumption DEF Discard, TypeOK, pushVars, stdout
  <2>2. Rated' /\ NeverOverReported'
    BY <1>0, <1>2 DEF Discard, Rated, NeverOverReported, Accounted, stdout
  <2>3. QED
    BY <2>1, <2>2
<1>3. ASSUME Swap PROVE IInv'
  <2>1. TypeOK'
    BY <1>3, LogAssumption DEF Swap, Notice, TypeOK, pushVars
  <2>2. Rated'
    BY <1>3, LogAssumption DEF Swap, Notice, TypeOK, Rated
  <2>3. NeverOverReported'
    BY <1>0, <1>3 DEF Swap, Notice, TypeOK, NeverOverReported, Accounted
  <2>4. QED
    BY <2>1, <2>2, <2>3
<1>4. ASSUME Emit PROVE IInv'
  <2>1. TypeOK'
    BY <1>4, LogAssumption DEF Emit, TypeOK, pushVars
  <2>2. Rated'
    BY <1>4, LogAssumption DEF Emit, TypeOK, Rated
  <2>3. NeverOverReported'
    BY <1>0, <1>4 DEF Emit, NeverOverReported, Accounted
  <2>4. QED
    BY <2>1, <2>2, <2>3
<1>5. ASSUME Drain PROVE IInv'
  <2>1. TypeOK'
    BY <1>5, LogAssumption DEF Drain, TypeOK, pushVars, stdout
  <2>2. Rated'
    BY <1>5 DEF Drain, Rated, stdout
  <2>3. NeverOverReported'
    BY <1>0, <1>5 DEF Drain, TypeOK, NeverOverReported, Accounted, stdout
  <2>4. QED
    BY <2>1, <2>2, <2>3
<1>6. ASSUME NoticeAll PROVE IInv'
  <2>1. TypeOK'
    BY <1>6 DEF NoticeAll, TypeOK, pushVars
  <2>2. Rated' /\ NeverOverReported'
    BY <1>0, <1>6 DEF NoticeAll, TypeOK, Rated, NeverOverReported, Accounted
  <2>3. QED
    BY <2>1, <2>2
<1>7. ASSUME EmitAll PROVE IInv'
  <2>1. TypeOK'
    BY <1>7, LogAssumption DEF EmitAll, TypeOK, pushVars
  <2>2. Rated' /\ NeverOverReported'
    BY <1>0, <1>7 DEF EmitAll, Rated, NeverOverReported, Accounted
  <2>3. QED
    BY <2>1, <2>2
<1>8. QED
  BY <1>1, <1>2, <1>3, <1>4, <1>5, <1>6, <1>7 DEF maybe_flush, flush_all

-----------------------------------------------------------------------------
(***************************************************************************)
(* The theorems.                                                           *)
(***************************************************************************)
\* The inductive invariant holds of every behaviour of the logger.
THEOREM Invariance == Spec => []IInv
<1>1. ASSUME IInv, UNCHANGED vars PROVE IInv'
  <2>1. Refused' = Refused
    BY <1>1 DEF vars, Refused
  <2>2. QED
    BY <1>1, <2>1 DEF vars, IInv, TypeOK, Rated, NeverOverReported, Accounted
<1>2. IInv /\ [Next]_vars => IInv'
  BY <1>1, PushStep, CountStep, ShutdownStep, FlushStep DEF Next
<1>3. QED
  BY <1>2, InitIInv, PTL DEF Spec

\* The queue never exceeds LOG_QUEUE_MAX and the quota never goes below zero.
THEOREM TypeCorrect == Spec => []TypeOK
BY Invariance, PTL DEF IInv

\* Until the event loop ends, at most log_rate_per_sec lines are written in a
\* second, the drop notice included, and none by a disabled logger.
THEOREM RateLimit == Spec => []RateKept
<1>1. IInv => RateKept
  BY LogAssumption DEF IInv, TypeOK, Rated, RateKept
<1>2. QED
  BY <1>1, Invariance, PTL

\* Whatever the threads do between a refused try_send and its fetch_add, and
\* the flush between swap and notice, no line is reported lost twice.
THEOREM NoOverReport == Spec => []NeverOverReported
BY Invariance, PTL DEF IInv

\* No count is lost or doubled between the threads' counters and the flush, but
\* for the counts a swap discards when the quota of the second is used up.
THEOREM DropsCounted == Spec => DropsAccounted
<1> DEFINE Kept == Accounted' + Forgotten + lost = Accounted + lost'
<1>n. ASSUME TypeOK
      PROVE  /\ reported \in Nat /\ dropped \in Nat /\ send_drops \in Nat /\ lost \in Nat
             /\ quota \in Nat /\ Cardinality(Refused) \in Nat
  BY <1>n, RefusedFacts, LogAssumption DEF TypeOK
<1>1. ASSUME TypeOK, NEW p \in Pushers, Offer(p),
             pc # "swap" \/ pc' # "emit"
      PROVE  Kept
  <2>1. CASE UNCHANGED <<push, lost>>
    BY <1>1, <1>n, <2>1, RefusedFacts DEF Offer, stdout, Accounted, Forgotten
  <2>2. CASE push' = [push EXCEPT ![p] = "refused"] /\ lost' = lost + 1
    <3>1. Cardinality(Refused)' = Cardinality(Refused) + 1
      BY <1>1, <2>2, RefusedFacts DEF Offer
    <3>2. UNCHANGED <<reported, dropped, send_drops>> /\ Forgotten = 0
      BY <1>1 DEF Offer, stdout, Forgotten
    <3>3. QED
      BY <1>1, <1>n, <2>2, <3>1, <3>2 DEF Accounted
  <2>3. QED
    BY <1>1, <2>1, <2>2 DEF Offer
<1>2. ASSUME TypeOK, NEW p \in Pushers, CountDrop(p) PROVE Kept
  <2>1. Cardinality(Refused)' = Cardinality(Refused) - 1
    BY <1>2, RefusedFacts DEF CountDrop
  <2>2. UNCHANGED <<reported, dropped, lost>> /\ send_drops' = send_drops + 1 /\ Forgotten = 0
    BY <1>2 DEF CountDrop, stdout, Forgotten
  <2>3. QED
    BY <1>2, <1>n, <2>1, <2>2 DEF Accounted
<1>3. ASSUME TypeOK, maybe_flush \/ flush_all PROVE Kept
  <2>1. Refused' = Refused /\ Cardinality(Refused)' = Cardinality(Refused)
    BY <1>3, RefusedFacts
    DEF maybe_flush, flush_all, Begin, Discard, Swap, Emit, Drain, NoticeAll, EmitAll, pushVars
  <2>2. CASE Swap
    BY <1>n, <1>3, <2>1, <2>2 DEF Swap, Notice, Accounted, Forgotten
  <2>3. CASE ~Swap
    <3>1. Forgotten = 0
      BY <1>3, <2>3
      DEF maybe_flush, flush_all, Begin, Discard, Emit, Drain, NoticeAll, EmitAll, Forgotten
    <3>2. reported' + dropped' + send_drops' + lost = reported + dropped + send_drops + lost'
      BY <1>n, <1>3, <2>3
      DEF maybe_flush, flush_all, Begin, Discard, Emit, Drain, NoticeAll, EmitAll, stdout
    <3>3. /\ reported' \in Nat /\ dropped' \in Nat /\ send_drops' \in Nat /\ lost' \in Nat
      BY <1>n, <1>3, <2>3
      DEF maybe_flush, flush_all, Begin, Discard, Emit, Drain, NoticeAll, EmitAll, stdout
    <3>4. PICK k \in Nat : Cardinality(Refused) = k /\ Cardinality(Refused)' = k
      BY <1>n, <1>3, <2>1
    <3>5. Accounted' = reported' + dropped' + send_drops' + k
          /\ Accounted = reported + dropped + send_drops + k
      BY <3>4 DEF Accounted
    <3>6. QED
      BY <1>n, <1>3, <3>1, <3>2, <3>3, <3>5
  <2>4. QED
    BY <2>2, <2>3
<1>4. TypeOK /\ [Next]_vars => [Kept]_vars
  <2> SUFFICES ASSUME TypeOK, Next PROVE Kept
    OBVIOUS
  <2>1. CASE Shutdown
    BY <1>1, <2>1, LogAssumption DEF Shutdown
  <2>2. CASE \E p \in Pushers : Push(p)
    BY <1>1, <2>2 DEF Push
  <2>3. QED
    BY <1>2, <1>3, <2>1, <2>2 DEF Next
<1>5. QED
  BY <1>4, TypeCorrect, PTL DEF Spec, DropsAccounted
=============================================================================
