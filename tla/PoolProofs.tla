----------------------------- MODULE PoolProofs -----------------------------
(***************************************************************************)
(* Proofs about Pool for every pool size, number of workers and batch:     *)
(* types, the size of the pool, the pending counter, the number of sockets *)
(* held or being connected, and the refinement of SocketPool.              *)
(***************************************************************************)
EXTENDS Pool, FiniteSetTheorems, TLAPS

\* Sockets are in the hands of a thread only between its critical sections,
\* and a take holds at most one batch.
Hands ==
  /\ mpc \in {"sleep", "exit"} => alive = {}
  /\ tpc # "check" => cand = {}
  /\ late \subseteq cand
  /\ tpc # "return" => won = {} /\ unused = {}
  /\ tpc = "return" => \E f \in Fd : won = {f}
  /\ Cardinality(cand) <= Batch /\ Cardinality(won) + Cardinality(unused) <= Batch

IInv == TypeOK /\ Hands /\ PoolBounded /\ PendingExact /\ SocketsBounded

-----------------------------------------------------------------------------
(***************************************************************************)
(* Facts on sizes.                                                         *)
(***************************************************************************)
LEMMA MinusFacts ==
  ASSUME NEW a \in Nat, NEW b \in Nat
  PROVE  /\ Minus(a, b) \in Nat /\ Minus(a, b) <= a
         /\ a >= b => Minus(a, b) = a - b
         /\ a <= b => Minus(a, b) = 0
BY DEF Minus

LEMMA LeastFacts ==
  ASSUME NEW a \in Nat, NEW b \in Nat
  PROVE  Least(a, b) \in Nat /\ Least(a, b) <= a /\ Least(a, b) <= b
BY DEF Least

LEMMA Sizes ==
  ASSUME NEW s, s \subseteq Fd
  PROVE  /\ IsFiniteSet(s) /\ Cardinality(s) \in Nat
         /\ \A t \in SUBSET s : Cardinality(t) \in Nat /\ Cardinality(t) <= Cardinality(s)
BY PoolAssumption, FS_Subset, FS_CardinalityType

\* pop_batch moves sockets, it does not create any.
LEMMA PopMoves ==
  ASSUME entries \subseteq Fd, NEW n \in Nat, NEW b \in Batches(n)
  PROVE  /\ b \subseteq entries
         /\ Cardinality(b) <= n
         /\ Cardinality(entries \ b) + Cardinality(b) = Cardinality(entries)
<1>1. b \subseteq entries /\ Cardinality(b) = Least(n, Cardinality(entries))
  BY DEF Batches
<1>2. IsFiniteSet(entries) /\ Cardinality(entries) \in Nat /\ Cardinality(b) \in Nat
  BY <1>1, Sizes
<1>3. Cardinality(entries \ b) = Cardinality(entries) - Cardinality(entries \cap b)
  BY <1>2, FS_Difference
<1>4. entries \cap b = b
  BY <1>1
<1>5. Least(n, Cardinality(entries)) <= n
  BY <1>2, LeastFacts
<1>6. QED
  BY <1>1, <1>2, <1>3, <1>4, <1>5

\* An insertion respects pool_size and creates no sockets.
LEMMA InsertFits ==
  ASSUME entries \subseteq Fd, PoolBounded, NEW s, s \subseteq Fd, NEW k \in Fitting(s)
  PROVE  /\ entries \cup k \subseteq Fd
         /\ Cardinality(entries \cup k) <= PoolSize
         /\ Cardinality(entries \cup k) <= Cardinality(entries) + Cardinality(s)
<1> DEFINE room == Minus(PoolSize, Cardinality(entries))
<1>1. k \subseteq s /\ Cardinality(k) = Least(Cardinality(s), room)
  BY DEF Fitting
<1>2. /\ IsFiniteSet(entries) /\ Cardinality(entries) \in Nat
      /\ Cardinality(s) \in Nat /\ IsFiniteSet(k) /\ Cardinality(k) \in Nat
      /\ PoolSize \in Nat /\ Cardinality(entries) <= PoolSize
  BY <1>1, Sizes, PoolAssumption DEF PoolBounded
<1>3. room \in Nat /\ room = PoolSize - Cardinality(entries)
  BY <1>2, MinusFacts
<1>4. Cardinality(k) <= Cardinality(s) /\ Cardinality(k) <= room
  BY <1>1, <1>2, <1>3, LeastFacts
<1>5. /\ Cardinality(entries \cup k)
           = Cardinality(entries) + Cardinality(k) - Cardinality(entries \cap k)
  BY <1>2, FS_Union
<1>6. Cardinality(entries \cap k) \in Nat
  BY <1>1, Sizes
<1>7. entries \cup k \subseteq Fd
  BY <1>1
<1> HIDE DEF room
<1>8. QED
  BY <1>2, <1>3, <1>4, <1>5, <1>6, <1>7

\* What a refill orders is at most what is missing, unless the pool is below
\* pool_min_size.
LEMMA WantFacts ==
  ASSUME TypeOK, NEW n \in Nat
  PROVE  /\ Want(n) \in Nat
         /\ Want(n) # 0 => n + pending + Want(n) <= PoolSize \/ (PoolMin > 0 /\ n < PoolMin)
<1>1. pending \in Nat /\ PoolSize \in Nat /\ PoolMin \in Nat /\ RefillBatch \in Nat
      /\ paused \in BOOLEAN
  BY PoolAssumption DEF TypeOK
<1>2. Deficit(n) \in Nat /\ (Deficit(n) # 0 => Deficit(n) = PoolSize - (n + pending))
  BY <1>1 DEF Deficit, Minus
<1>3. CASE paused \/ (Deficit(n) = 0 /\ ~BelowMin(n))
  BY <1>3 DEF Want
<1>4. CASE ~paused /\ BelowMin(n)
  <2>1. PoolMin - n \in Nat /\ PoolMin # 0
    BY <1>1, <1>4 DEF BelowMin
  <2>2. Want(n) = Least(PoolMin - n, RefillBatch)
    BY <1>4 DEF Want
  <2>3. QED
    BY <1>1, <2>1, <2>2, LeastFacts
<1>5. CASE ~paused /\ Deficit(n) > 0 /\ ~BelowMin(n)
  <2> DEFINE cap == IF Deficit(n) > PoolSize \div 2 THEN RefillBatch ELSE 2
  <2>1. cap \in Nat
    BY <1>1
  <2>2. Want(n) = Least(Least(Deficit(n), RefillBatch), cap)
    BY <1>2, <1>5 DEF Want
  <2>3. Least(Deficit(n), RefillBatch) \in Nat /\ Least(Deficit(n), RefillBatch) <= Deficit(n)
    BY <1>1, <1>2, LeastFacts
  <2> HIDE DEF cap
  <2>4. Want(n) \in Nat /\ Want(n) <= Deficit(n)
    BY <2>1, <2>2, <2>3, <1>2, LeastFacts
  <2>5. QED
    BY <1>1, <1>2, <1>5, <2>4
<1>6. QED
  BY <1>1, <1>2, <1>3, <1>4, <1>5

\* An order is carried out or not.
LEMMA OrderedFacts ==
  ASSUME NEW n \in Nat
  PROVE  Ordered(n) \in Nat /\ Ordered(n) <= n
BY DEF Ordered

\* Only a worker that takes a token or finishes a connect changes Busy.
LEMMA BusyFacts ==
  ASSUME TypeOK
  PROVE  /\ IsFiniteSet(Busy) /\ Cardinality(Busy) \in Nat
         /\ wpc' = wpc => Busy' = Busy
         /\ \A w \in Workers : wpc' = [wpc EXCEPT ![w] = "busy"] /\ wpc[w] = "recv" =>
              Cardinality(Busy') = Cardinality(Busy) + 1
         /\ \A w \in Workers, to \in {"recv", "exit"} :
              wpc' = [wpc EXCEPT ![w] = to] /\ wpc[w] \in {"idle", "recv"} => Busy' = Busy
         /\ \A w \in Workers : wpc' = [wpc EXCEPT ![w] = "idle"] /\ wpc[w] = "busy" =>
              Cardinality(Busy') = Cardinality(Busy) - 1 /\ Cardinality(Busy) > 0
<1>1. IsFiniteSet(Busy) /\ Cardinality(Busy) \in Nat
  BY PoolAssumption, FS_Subset, FS_CardinalityType DEF Busy
<1>2. wpc' = wpc => Busy' = Busy
  BY DEF Busy
<1>3. ASSUME NEW w \in Workers, wpc' = [wpc EXCEPT ![w] = "busy"], wpc[w] = "recv"
      PROVE  Cardinality(Busy') = Cardinality(Busy) + 1
  <2>1. Busy' = Busy \cup {w} /\ w \notin Busy
    BY <1>3 DEF Busy, TypeOK
  <2>2. QED
    BY <1>1, <2>1, FS_AddElement
<1>4. ASSUME NEW w \in Workers, NEW to \in {"recv", "exit"},
             wpc' = [wpc EXCEPT ![w] = to], wpc[w] \in {"idle", "recv"}
      PROVE  Busy' = Busy
  BY <1>4 DEF Busy, TypeOK
<1>5. ASSUME NEW w \in Workers, wpc' = [wpc EXCEPT ![w] = "idle"], wpc[w] = "busy"
      PROVE  Cardinality(Busy') = Cardinality(Busy) - 1 /\ Cardinality(Busy) > 0
  <2>1. Busy' = Busy \ {w} /\ w \in Busy
    BY <1>5 DEF Busy, TypeOK
  <2>2. Cardinality(Busy) # 0
    BY <1>1, <2>1, FS_EmptySet
  <2>3. QED
    BY <1>1, <2>1, <2>2, FS_RemoveElement
<1>6. QED
  BY <1>1, <1>2, <1>3, <1>4, <1>5

-----------------------------------------------------------------------------
LEMMA InitIInv == Init => IInv
<1> SUFFICES ASSUME Init PROVE IInv
  OBVIOUS
<1>0. 0 \in 0 .. RefillBatch
  BY PoolAssumption
<1>1. TypeOK
  <2>1. wpc \in [Workers -> {"idle", "recv", "busy", "exit"}]
    BY DEF Init
  <2>2. QED
    BY <1>0, <2>1 DEF Init, TypeOK
<1>2. Cardinality({}) = 0
  BY FS_EmptySet
<1>3. Hands
  BY <1>2, PoolAssumption DEF Init, Hands
<1>7. PoolBounded /\ SocketsBounded
  <2>1. Held = 0
    BY <1>2 DEF Init, Held
  <2>2. QED
    BY <1>2, <2>1, PoolAssumption DEF Init, PoolBounded, SocketsBounded
<1>4. Busy = {}
  BY DEF Init, Busy
<1>5. PendingExact
  BY <1>2, <1>4 DEF Init, PendingExact
<1>6. QED
  BY <1>1, <1>3, <1>5, <1>7 DEF IInv

\* The sizes of the places a socket can be in.
LEMMA HeldFacts ==
  ASSUME TypeOK
  PROVE  /\ Cardinality(entries) \in Nat /\ Cardinality(alive) \in Nat
         /\ Cardinality(cand) \in Nat /\ Cardinality(won) \in Nat
         /\ Cardinality(unused) \in Nat
         /\ Held \in Nat
BY Sizes DEF TypeOK, Held

(***************************************************************************)
(* One lemma per critical section.                                         *)
(***************************************************************************)
LEMMA PopStep == IInv /\ Pop => IInv'
<1> SUFFICES ASSUME IInv, Pop PROVE IInv'
  OBVIOUS
<1> USE DEF IInv
<1>1. /\ cand' \in Batches(Batch) /\ entries' = entries \ cand' /\ cand = {}
      /\ late' \subseteq cand' /\ won = {} /\ unused = {}
      /\ UNCHANGED <<pending, won, unused, alive, tokens, wpc, mpc, streak, paused, old, dead,
                     expired, shutdown>>
      /\ tpc' = IF entries = {} THEN "idle" ELSE "check"
  BY DEF Pop, Hands, workerVars, sweepVars
<1>2. /\ cand' \subseteq entries /\ Cardinality(cand') <= Batch
      /\ Cardinality(entries') + Cardinality(cand') = Cardinality(entries)
  BY <1>1, PopMoves, PoolAssumption DEF TypeOK
<1>3. TypeOK'
  BY <1>1, <1>2 DEF TypeOK
<1>4. Hands'
  BY <1>1, <1>2 DEF Hands
<1>5. Cardinality(cand) = 0
  BY <1>1, FS_EmptySet
<1>6. PoolBounded' /\ SocketsBounded'
  BY <1>1, <1>2, <1>3, <1>5, HeldFacts, Sizes, PoolAssumption
  DEF PoolBounded, SocketsBounded, Held, TypeOK
<1>7. PendingExact'
  BY <1>1, BusyFacts DEF PendingExact
<1>8. QED
  BY <1>3, <1>4, <1>6, <1>7

LEMMA DiscardStep == ASSUME NEW f \in Fd PROVE IInv /\ Discard(f) => IInv'
<1> SUFFICES ASSUME IInv, Discard(f) PROVE IInv'
  OBVIOUS
<1> USE DEF IInv
<1>1. /\ cand' = cand \ {f} /\ late' = late \ {f}
      /\ tpc = "check" /\ tpc' = IF cand' = {} THEN "pop" ELSE "check"
      /\ UNCHANGED <<entries, pending, won, unused, alive, tokens, wpc, mpc, streak, paused,
                     shutdown>>
      /\ dead' \subseteq dead /\ expired' \subseteq expired /\ old' \subseteq old
  BY DEF Discard, Forget, poolVars, workerVars
<1>2. TypeOK'
  BY <1>1 DEF TypeOK
<1>3. Cardinality(cand') <= Cardinality(cand) /\ Cardinality(cand') \in Nat
  BY <1>1, Sizes DEF TypeOK
<1>4. Hands'
  BY <1>1, <1>3, HeldFacts, PoolAssumption DEF Hands
<1>5. PoolBounded' /\ SocketsBounded'
  BY <1>1, <1>3, HeldFacts, PoolAssumption DEF PoolBounded, SocketsBounded, Held, TypeOK
<1>6. PendingExact'
  BY <1>1, BusyFacts DEF PendingExact
<1>7. QED
  BY <1>2, <1>4, <1>5, <1>6

LEMMA ChooseStep == ASSUME NEW f \in Fd PROVE IInv /\ Choose(f) => IInv'
<1> SUFFICES ASSUME IInv, Choose(f) PROVE IInv'
  OBVIOUS
<1> USE DEF IInv
<1>1. /\ f \in cand /\ won' = {f} /\ unused' = cand \ {f} /\ cand' = {} /\ late' = {}
      /\ tpc' = "return" /\ won = {} /\ unused = {}
      /\ UNCHANGED <<entries, pending, alive, tokens, wpc, mpc, streak, paused, old, dead,
                     expired, shutdown>>
  BY DEF Choose, Hands, poolVars, workerVars, sweepVars
<1>2. TypeOK'
  BY <1>1 DEF TypeOK
<1>3. /\ Cardinality({}) = 0
      /\ Cardinality(won') = 1 /\ Cardinality(unused') = Cardinality(cand) - 1
  <2>1. IsFiniteSet(cand)
    BY Sizes DEF TypeOK
  <2>2. QED
    BY <1>1, <2>1, FS_EmptySet, FS_Singleton, FS_RemoveElement
<1>4. Hands'
  BY <1>1, <1>3, HeldFacts, PoolAssumption DEF Hands
<1>5. PoolBounded' /\ SocketsBounded'
  BY <1>1, <1>3, HeldFacts, PoolAssumption DEF PoolBounded, SocketsBounded, Held, TypeOK
<1>6. PendingExact'
  BY <1>1, BusyFacts DEF PendingExact
<1>7. QED
  BY <1>2, <1>4, <1>5, <1>6

LEMMA ReturnStep == IInv /\ Return => IInv'
<1> SUFFICES ASSUME IInv, Return PROVE IInv'
  OBVIOUS
<1> USE DEF IInv
<1>1. PICK k \in Fitting(unused) : entries' = entries \cup k
  BY DEF Return
<1>2. /\ won' = {} /\ unused' = {} /\ tpc = "return" /\ tpc' = "idle"
      /\ UNCHANGED <<pending, streak, paused, cand, late, mpc, alive, shutdown, tokens, wpc>>
      /\ dead' \subseteq dead /\ expired' \subseteq expired /\ old' \subseteq old
  BY DEF Return, Forget, workerVars
<1>3. /\ entries' \subseteq Fd /\ Cardinality(entries') <= PoolSize
      /\ Cardinality(entries') <= Cardinality(entries) + Cardinality(unused)
  BY <1>1, InsertFits DEF TypeOK
<1>4. TypeOK'
  BY <1>2, <1>3 DEF TypeOK
<1>5. Cardinality({}) = 0
  BY FS_EmptySet
<1>6. Hands'
  BY <1>2, <1>5, PoolAssumption DEF Hands, Return
<1>7. PoolBounded' /\ SocketsBounded'
  <2>1. Cardinality(entries') \in Nat
    BY <1>3, Sizes
  <2>2. QED
    BY <1>2, <1>3, <1>5, <2>1, HeldFacts, PoolAssumption
    DEF PoolBounded, SocketsBounded, Held, TypeOK
<1>8. PendingExact'
  BY <1>2, BusyFacts DEF PendingExact
<1>9. QED
  BY <1>4, <1>6, <1>7, <1>8

LEMMA TickStep == IInv /\ Tick => IInv'
<1> SUFFICES ASSUME IInv, Tick PROVE IInv'
  OBVIOUS
<1> USE DEF IInv
<1>1. /\ UNCHANGED <<pending, streak, paused, dead, expired, shutdown, tokens, wpc, tpc, cand,
                     late, won, unused>>
      /\ alive = {}
  BY DEF Tick, Hands, workerVars, takeVars
<1>2. PendingExact'
  BY <1>1, BusyFacts DEF PendingExact
<1>3. CASE UNCHANGED <<entries, alive>>
  <2>1. TypeOK'
    BY <1>1, <1>3 DEF Tick, TypeOK
  <2>2. Hands'
    BY <1>1, <1>3 DEF Hands
  <2>3. PoolBounded' /\ SocketsBounded'
    BY <1>1, <1>3 DEF PoolBounded, SocketsBounded, Held
  <2>4. QED
    BY <1>2, <2>1, <2>2, <2>3
<1>4. CASE ~UNCHANGED <<entries, alive>>
  <2>1. mpc' = "sweep" /\ alive' \in Batches(SweepBatch) /\ entries' = entries \ alive'
        /\ old' = expired
    BY <1>4 DEF Tick
  <2>2. SweepBatch \in Nat
    BY PoolAssumption DEF SweepBatch
  <2>3. /\ alive' \subseteq entries
        /\ Cardinality(entries') + Cardinality(alive') = Cardinality(entries)
    BY <2>1, <2>2, PopMoves DEF TypeOK
  <2>4. TypeOK'
    BY <1>1, <2>1, <2>3 DEF TypeOK
  <2>5. Hands'
    BY <1>1, <2>1 DEF Hands
  <2>6. Cardinality(alive) = 0
    BY <1>1, FS_EmptySet
  <2>7. Cardinality(alive') \in Nat /\ Cardinality(entries') \in Nat
    BY <2>4, Sizes DEF TypeOK
  <2>8. PoolBounded' /\ SocketsBounded'
    BY <1>1, <2>3, <2>6, <2>7, HeldFacts, PoolAssumption
    DEF PoolBounded, SocketsBounded, Held, TypeOK
  <2>9. QED
    BY <1>2, <2>4, <2>5, <2>8
<1>5. QED
  BY <1>3, <1>4

LEMMA SweepStep == IInv /\ Sweep => IInv'
<1> SUFFICES ASSUME IInv, Sweep PROVE IInv'
  OBVIOUS
<1> USE DEF IInv
<1>1. /\ UNCHANGED <<entries, pending, streak, paused, shutdown, tokens, wpc, tpc, cand, late,
                     won, unused>>
      /\ alive' \subseteq alive /\ mpc' = "refill"
      /\ dead' \subseteq dead /\ expired' \subseteq expired /\ old' \subseteq old
  BY DEF Sweep, Forget, poolVars, workerVars, takeVars
<1>2. TypeOK'
  BY <1>1 DEF TypeOK
<1>3. Hands'
  BY <1>1 DEF Hands
<1>4. Cardinality(alive') \in Nat /\ Cardinality(alive') <= Cardinality(alive)
  BY <1>1, Sizes DEF TypeOK
<1>5. PoolBounded' /\ SocketsBounded'
  BY <1>1, <1>4, HeldFacts, PoolAssumption DEF PoolBounded, SocketsBounded, Held, TypeOK
<1>6. PendingExact'
  BY <1>1, BusyFacts DEF PendingExact
<1>7. QED
  BY <1>2, <1>3, <1>5, <1>6

LEMMA RefillStep == IInv /\ Refill => IInv'
<1> SUFFICES ASSUME IInv, NEW rotate \in BOOLEAN, RefillWith(rotate) PROVE IInv'
  BY DEF Refill
<1> USE DEF IInv
<1>1. PICK k \in Fitting(alive) :
        LET kept == entries \cup k
            now  == IF rotate THEN Rotated(kept) ELSE kept
            n    == Ordered(Least(Want(Cardinality(now)), Minus(MaxPending, pending)))
        IN /\ entries' = now /\ pending' = pending + n /\ tokens' = tokens + n
  BY DEF RefillWith
<1> DEFINE n == Ordered(Least(Want(Cardinality(entries')), Minus(MaxPending, pending)))
<1>2. /\ entries' \subseteq entries \cup k
      /\ pending' = pending + n /\ tokens' = tokens + n
  BY <1>1 DEF Rotated
<1>3. /\ alive' = {} /\ mpc' = "sleep"
      /\ UNCHANGED <<streak, paused, wpc, shutdown, tpc, cand, late, won, unused>>
      /\ dead' \subseteq dead /\ expired' \subseteq expired /\ old' \subseteq old
  BY DEF RefillWith, Forget, takeVars
<1>4. /\ entries \cup k \subseteq Fd
      /\ Cardinality(entries \cup k) <= PoolSize
      /\ Cardinality(entries \cup k) <= Cardinality(entries) + Cardinality(alive)
  BY InsertFits DEF TypeOK
<1>5. /\ entries' \subseteq Fd /\ Cardinality(entries') \in Nat
      /\ Cardinality(entries \cup k) \in Nat
      /\ Cardinality(entries') <= Cardinality(entries \cup k)
  BY <1>2, <1>4, Sizes
<1>6. /\ n \in Nat
      /\ PoolMin = 0 /\ n # 0 => Cardinality(entries') + pending + n <= PoolSize
  <2>1. Want(Cardinality(entries')) \in Nat
    BY <1>5, WantFacts
  <2>2. Minus(MaxPending, pending) \in Nat
    BY MinusFacts, PoolAssumption DEF TypeOK
  <2>3. n \in Nat /\ n <= Want(Cardinality(entries'))
    BY <2>1, <2>2, LeastFacts, OrderedFacts
  <2>4. pending \in Nat /\ PoolSize \in Nat
    BY PoolAssumption DEF TypeOK
  <2> HIDE DEF n
  <2>5. QED
    BY <1>5, <2>1, <2>3, <2>4, WantFacts
<1> HIDE DEF n
<1>7. TypeOK'
  BY <1>2, <1>3, <1>5, <1>6 DEF TypeOK
<1>8. Hands'
  BY <1>3 DEF Hands
<1>9. Cardinality(alive') = 0
  BY <1>3, FS_EmptySet
<1>10. PoolBounded'
  BY <1>4, <1>5, PoolAssumption DEF PoolBounded
<1>11. SocketsBounded'
  <2> SUFFICES ASSUME PoolMin = 0
               PROVE  Cardinality(entries') + Cardinality(alive') + Cardinality(cand)
                        + Cardinality(won) + Cardinality(unused) + pending'
                          <= PoolSize + Batch
    BY <1>3 DEF SocketsBounded, Held
  <2>1. /\ pending \in Nat /\ PoolSize \in Nat /\ Batch \in Nat
        /\ Cardinality(cand) + Cardinality(won) + Cardinality(unused) <= Batch
    <3>1. cand = {} \/ (won = {} /\ unused = {})
      BY DEF Hands
    <3>2. Cardinality({}) = 0
      BY FS_EmptySet
    <3>3. /\ Cardinality(cand) \in Nat /\ Cardinality(won) \in Nat
          /\ Cardinality(unused) \in Nat /\ Cardinality(cand) <= Batch
          /\ Cardinality(won) + Cardinality(unused) <= Batch
      BY HeldFacts DEF Hands
    <3>4. pending \in Nat /\ PoolSize \in Nat /\ Batch \in Nat
      BY PoolAssumption DEF TypeOK
    <3>5. QED
      BY <3>1, <3>2, <3>3, <3>4
  <2>2. CASE n = 0
    BY <1>2, <1>4, <1>5, <1>9, <2>1, <2>2, HeldFacts DEF SocketsBounded, Held
  <2>3. CASE n # 0
    BY <1>2, <1>5, <1>6, <1>9, <2>1, <2>3, HeldFacts
  <2>4. QED
    BY <2>2, <2>3
<1>12. PendingExact'
  BY <1>2, <1>3, <1>6, BusyFacts DEF PendingExact, TypeOK
<1>13. QED
  BY <1>7, <1>8, <1>10, <1>11, <1>12

LEMMA SuccessStep == ASSUME NEW w \in Workers PROVE IInv /\ connect_success(w) => IInv'
<1> SUFFICES ASSUME IInv, connect_success(w) PROVE IInv'
  OBVIOUS
<1> USE DEF IInv
<1>0. PICK f \in Fd : \E k \in Fitting({f}) : entries' = entries \cup k
  BY DEF connect_success
<1>1. PICK k \in Fitting({f}) : entries' = entries \cup k
  BY <1>0
<1>2. /\ wpc[w] = "busy" /\ wpc' = [wpc EXCEPT ![w] = "idle"]
      /\ pending' = Minus(pending, 1) /\ streak' = 0 /\ paused' = FALSE
      /\ UNCHANGED <<tokens, dead, expired, shutdown, mpc, alive, old, tpc, cand, late,
                     won, unused>>
  BY DEF connect_success, sweepVars, takeVars
<1>3. /\ entries' \subseteq Fd /\ Cardinality(entries') <= PoolSize
      /\ Cardinality(entries') <= Cardinality(entries) + 1
  <2>1. Cardinality({f}) = 1
    BY FS_Singleton
  <2>2. entries \subseteq Fd /\ {f} \subseteq Fd /\ PoolBounded
    BY <1>1 DEF TypeOK
  <2>3. /\ entries \cup k \subseteq Fd
        /\ Cardinality(entries \cup k) <= PoolSize
        /\ Cardinality(entries \cup k) <= Cardinality(entries) + Cardinality({f})
    BY <2>2, InsertFits
  <2>4. QED
    BY <1>1, <2>1, <2>3
<1>4. /\ Cardinality(Busy') = Cardinality(Busy) - 1 /\ Cardinality(Busy) > 0
      /\ Cardinality(Busy) \in Nat
  BY <1>2, BusyFacts
<1>5. pending' = pending - 1 /\ pending' \in Nat /\ PendingExact'
  BY <1>2, <1>4 DEF PendingExact, TypeOK, Minus
<1>6. TypeOK'
  <2>1. 0 \in 0 .. RefillBatch
    BY PoolAssumption
  <2>2. QED
    BY <1>2, <1>3, <1>5, <2>1 DEF TypeOK
<1>7. Hands'
  BY <1>2 DEF Hands
<1>8. PoolBounded' /\ SocketsBounded'
  <2>1. Cardinality(entries') \in Nat
    BY <1>3, Sizes
  <2>2. QED
    BY <1>2, <1>3, <1>5, <2>1, HeldFacts, PoolAssumption
    DEF PoolBounded, SocketsBounded, Held, TypeOK
<1>9. QED
  BY <1>5, <1>6, <1>7, <1>8

LEMMA FailStep == ASSUME NEW w \in Workers PROVE IInv /\ connect_fail(w) => IInv'
<1> SUFFICES ASSUME IInv, connect_fail(w) PROVE IInv'
  OBVIOUS
<1> USE DEF IInv
<1>1. /\ wpc[w] = "busy" /\ wpc' = [wpc EXCEPT ![w] = "idle"]
      /\ pending' = Minus(pending, 1)
      /\ streak' = Least(streak + 1, RefillBatch)
      /\ paused' = (paused \/ streak' >= RefillBatch)
      /\ UNCHANGED <<entries, tokens, dead, expired, shutdown, mpc, alive, old, tpc, cand,
                     late, won, unused>>
  BY DEF connect_fail, sweepVars, takeVars
<1>2. /\ Cardinality(Busy') = Cardinality(Busy) - 1 /\ Cardinality(Busy) > 0
      /\ Cardinality(Busy) \in Nat
  BY <1>1, BusyFacts
<1>3. pending' = pending - 1 /\ pending' \in Nat /\ PendingExact'
  BY <1>1, <1>2 DEF PendingExact, TypeOK, Minus
<1>4. streak' \in 0 .. RefillBatch
  BY <1>1, PoolAssumption DEF TypeOK, Least
<1>5. paused' \in BOOLEAN
  <2>1. (paused \/ streak' >= RefillBatch) \in BOOLEAN
    OBVIOUS
  <2>2. QED
    BY <1>1, <2>1, Zenon
<1>6. TypeOK'
  BY <1>1, <1>3, <1>4, <1>5 DEF TypeOK
<1>7. Hands' /\ PoolBounded'
  BY <1>1 DEF Hands, PoolBounded
<1>8. SocketsBounded'
  BY <1>1, <1>3, HeldFacts, PoolAssumption DEF SocketsBounded, Held, TypeOK
<1>9. QED
  BY <1>3, <1>6, <1>7, <1>8

\* The steps that move no socket and finish no connect.
LEMMA OtherStep ==
  ASSUME IInv,
         \/ Accept \/ PauseEnds \/ Shutdown \/ UNCHANGED vars
         \/ \E w \in Workers : Lock(w) \/ Recv(w) \/ Exit(w)
         \/ \E f \in Fd : Die(f) \/ Expire(f)
  PROVE  IInv'
<1> USE DEF IInv
<1>1. UNCHANGED <<entries, pending, streak, mpc, alive, old, cand, late, won, unused>>
  BY DEF Accept, PauseEnds, Shutdown, Lock, Recv, Exit, Die, Expire, vars, poolVars, sweepVars,
         takeVars
<1>2. Hands' /\ tpc' \in {"idle", "pop", "check", "return"}
  BY <1>1 DEF Accept, PauseEnds, Shutdown, Lock, Recv, Exit, Die, Expire, vars, takeVars, Hands,
              TypeOK
<1>3. PoolBounded' /\ SocketsBounded'
  BY <1>1 DEF PoolBounded, SocketsBounded, Held
<1>4. /\ wpc' \in [Workers -> {"idle", "recv", "busy", "exit"}]
      /\ tokens' \in Nat /\ PendingExact'
  <2>1. ASSUME NEW w \in Workers, Recv(w)
        PROVE  /\ wpc' \in [Workers -> {"idle", "recv", "busy", "exit"}]
               /\ tokens' \in Nat /\ PendingExact'
    <3>1. /\ wpc[w] = "recv" /\ wpc' = [wpc EXCEPT ![w] = "busy"]
          /\ tokens > 0 /\ tokens' = tokens - 1
      BY <2>1 DEF Recv
    <3>2. Cardinality(Busy') = Cardinality(Busy) + 1 /\ Cardinality(Busy) \in Nat
      BY <3>1, BusyFacts
    <3>3. QED
      BY <1>1, <3>1, <3>2 DEF TypeOK, PendingExact
  <2>2. ASSUME NEW w \in Workers, Lock(w) \/ Exit(w)
        PROVE  /\ wpc' \in [Workers -> {"idle", "recv", "busy", "exit"}]
               /\ tokens' \in Nat /\ PendingExact'
    BY <1>1, <2>2, BusyFacts DEF Lock, Exit, TypeOK, PendingExact
  <2>3. CASE UNCHANGED workerVars
    BY <1>1, <2>3, BusyFacts DEF TypeOK, PendingExact, workerVars
  <2>4. QED
    BY <2>1, <2>2, <2>3 DEF Accept, PauseEnds, Shutdown, Die, Expire, vars, workerVars
<1>5. paused' \in BOOLEAN /\ shutdown' \in BOOLEAN
  BY DEF Accept, PauseEnds, Shutdown, Lock, Recv, Exit, Die, Expire, vars, poolVars, TypeOK
<1>6. dead' \subseteq Fd /\ expired' \subseteq Fd
  BY DEF Accept, PauseEnds, Shutdown, Lock, Recv, Exit, Die, Expire, vars, TypeOK
<1>7. TypeOK'
  BY <1>1, <1>2, <1>4, <1>5, <1>6 DEF TypeOK
<1>8. QED
  BY <1>2, <1>3, <1>4, <1>7

-----------------------------------------------------------------------------
(***************************************************************************)
(* The theorems.                                                           *)
(***************************************************************************)
THEOREM Invariance == Spec => []IInv
<1>1. IInv /\ [Next]_vars => IInv'
  BY PopStep, DiscardStep, ChooseStep, ReturnStep, TickStep, SweepStep, RefillStep, SuccessStep,
     FailStep, OtherStep
  DEF Next, Take, Maintain, Work
<1>2. QED
  BY <1>1, InitIInv, PTL DEF Spec

\* Every reachable state is well typed: no counter goes below zero.
THEOREM TypeCorrect == Spec => []TypeOK
BY Invariance, PTL DEF IInv

\* The three threads that insert sockets never overfill the pool.
THEOREM NeverOverfull == Spec => []PoolBounded
BY Invariance, PTL DEF IInv

\* No connect is forgotten or counted twice: pending is the number of tokens
\* queued plus the number of workers connecting.
THEOREM PendingCounts == Spec => []PendingExact
BY Invariance, PTL DEF IInv

\* With pool_min_size off, sockets held and connects under way are bounded by
\* pool_size plus one take's batch.
THEOREM SocketBound == Spec => []SocketsBounded
BY Invariance, PTL DEF IInv

-----------------------------------------------------------------------------
(***************************************************************************)
(* Who holds a socket, and the refinement of SocketPool.                   *)
(***************************************************************************)
\* A socket is in the pool or in the hands of one thread.
Apart ==
  /\ entries \cap (alive \cup cand \cup won \cup unused) = {}
  /\ alive \cap (cand \cup won \cup unused) = {}
  /\ won \cap unused = {}

\* What is known of sockets is known of sockets that are held; a sweep has at
\* most one batch in hand.
Marks ==
  /\ dead \subseteq InUse /\ expired \subseteq InUse
  /\ old \subseteq expired /\ late \subseteq expired
  /\ Cardinality(alive) <= SweepBatch

OInv == IInv /\ Apart /\ Marks

stored == <<Asked, InUse, Stale, Good, pending>>

\* The instance of SocketPool counts as this module does.
LEMMA SameSize == \A s : Store!Cardinality(s) = Cardinality(s)
BY DEF Store!Cardinality, Cardinality

LEMMA SweepBatchType == SweepBatch \in Nat
BY PoolAssumption DEF SweepBatch

\* An insertion leaves sockets out only if it fills the pool.
LEMMA InsertFills ==
  ASSUME entries \subseteq Fd, PoolBounded, NEW s, s \subseteq Fd, entries \cap s = {},
         NEW k \in Fitting(s)
  PROVE  k \subseteq s /\ (k = s \/ Cardinality(entries \cup k) >= PoolSize)
<1> DEFINE room == Minus(PoolSize, Cardinality(entries))
<1>1. k \subseteq s /\ Cardinality(k) = Least(Cardinality(s), room)
  BY DEF Fitting
<1>2. /\ IsFiniteSet(entries) /\ Cardinality(entries) \in Nat /\ IsFiniteSet(s)
      /\ Cardinality(s) \in Nat /\ IsFiniteSet(k) /\ Cardinality(k) \in Nat
      /\ PoolSize \in Nat /\ Cardinality(entries) <= PoolSize
  BY <1>1, Sizes, PoolAssumption DEF PoolBounded
<1>3. room = PoolSize - Cardinality(entries)
  BY <1>2, MinusFacts
<1> HIDE DEF room
<1>4. CASE Cardinality(k) = Cardinality(s)
  BY <1>1, <1>2, <1>4, FS_Subset
<1>5. CASE Cardinality(k) = room
  <2>1. entries \cap k = {}
    BY <1>1
  <2>2. Cardinality(entries \cup k) = Cardinality(entries) + Cardinality(k) - 0
    BY <1>2, <2>1, FS_Union, FS_EmptySet
  <2>3. QED
    BY <1>1, <1>2, <1>3, <1>5, <2>2
<1>6. QED
  BY <1>1, <1>4, <1>5 DEF Least

LEMMA PopOwns ==
  ASSUME OInv, Pop
  PROVE  Apart' /\ Marks' /\ (Store!Refuse \/ Store!Look)
<1> USE DEF OInv
<1>1. /\ cand' \subseteq entries /\ entries' = entries \ cand'
      /\ cand = {} /\ won = {} /\ unused = {} /\ late' = cand' \cap expired
      /\ UNCHANGED <<pending, won, unused, alive, old, dead, expired>>
      /\ tpc = "pop" /\ tpc' = IF entries = {} THEN "idle" ELSE "check"
  BY DEF Pop, Batches, IInv, Hands, workerVars, sweepVars
<1>2. InUse' = InUse /\ Stale' = Stale
  BY <1>1 DEF InUse, Stale
<1>3. Good' = cand' \ (expired \cup dead)
  BY <1>1 DEF Good
<1>4. Apart' /\ Marks'
  BY <1>1, <1>2 DEF Apart, Marks, SweepBatch
<1>5. CASE entries = {}
  <2>1. Asked = TRUE /\ Asked' = FALSE
    BY <1>1, <1>5 DEF Asked
  <2>2. InUse = alive /\ Good' = {}
    BY <1>1, <1>3, <1>5 DEF InUse
  <2>3. Store!Refuse
    BY <1>1, <1>2, <2>1, <2>2, SameSize DEF Store!Refuse, Store!Known, Marks
  <2>4. QED
    BY <1>4, <2>3
<1>6. CASE entries # {}
  <2>1. Asked' = TRUE /\ Asked = TRUE
    BY <1>1, <1>6 DEF Asked
  <2>2. Good' \subseteq InUse \ Stale
    BY <1>1, <1>3 DEF InUse, Stale
  <2>3. Store!Look
    BY <1>1, <1>2, <2>1, <2>2 DEF Store!Look
  <2>4. QED
    BY <1>4, <2>3
<1>7. QED
  BY <1>5, <1>6

LEMMA DiscardOwns ==
  ASSUME OInv, NEW f \in Fd, Discard(f)
  PROVE  Apart' /\ Marks' /\ Store!Maintain
<1> USE DEF OInv
<1>1. /\ tpc = "check" /\ tpc' \in {"pop", "check"}
      /\ f \in cand /\ f \in dead \cup late
      /\ cand' = cand \ {f} /\ late' = late \ {f}
      /\ UNCHANGED <<entries, pending, alive, won, unused>>
      /\ dead' = dead \cap InUse' /\ expired' = expired \cap InUse' /\ old' = old \cap InUse'
  BY DEF Discard, socket_dead_fast, Forget, poolVars
<1>2. won = {} /\ unused = {}
  BY <1>1 DEF IInv, Hands
<1>3. InUse' = InUse \ {f} /\ f \in Stale /\ Stale' = Stale \cap InUse'
  BY <1>1, <1>2 DEF InUse, Stale, Apart, Marks
<1>4. Apart' /\ Marks'
  BY <1>1, <1>2, <1>3 DEF Apart, Marks, SweepBatch
<1>5. Good' \subseteq Good \cap InUse'
  BY <1>1, <1>2, <1>3 DEF Good, InUse
<1>6. Store!Remains(InUse', InUse)
  BY <1>3 DEF Store!Remains
<1>7. Asked' = Asked
  BY <1>1 DEF Asked
<1>8. QED
  BY <1>1, <1>3, <1>4, <1>5, <1>6, <1>7 DEF Store!Maintain, Store!Known

LEMMA ChooseOwns ==
  ASSUME OInv, NEW f \in Fd, Choose(f)
  PROVE  Apart' /\ Marks' /\ Store!Maintain
<1> USE DEF OInv
<1>1. /\ tpc = "check" /\ tpc' = "return"
      /\ f \in cand /\ f \notin dead /\ f \notin late
      /\ won' = {f} /\ unused' = cand \ {f} /\ cand' = {} /\ late' = {}
      /\ UNCHANGED <<entries, pending, alive, old, dead, expired>>
  BY DEF Choose, socket_dead_fast, poolVars, sweepVars
<1>2. won = {} /\ unused = {}
  BY <1>1 DEF IInv, Hands
<1>3. InUse' = InUse /\ Stale' = Stale /\ Stale \subseteq InUse
  BY <1>1, <1>2 DEF InUse, Stale, Marks
<1>4. Apart' /\ Marks'
  BY <1>1, <1>2, <1>3 DEF Apart, Marks, SweepBatch
<1>5. Good' \subseteq Good \cap InUse'
  BY <1>1, <1>2, <1>3 DEF Good, InUse
<1>6. Store!Remains(InUse', InUse)
  BY <1>3 DEF Store!Remains
<1>7. Asked' = Asked
  BY <1>1 DEF Asked
<1>8. QED
  BY <1>1, <1>3, <1>4, <1>5, <1>6, <1>7 DEF Store!Maintain, Store!Known

LEMMA ReturnOwns ==
  ASSUME OInv, Return
  PROVE  Apart' /\ Marks' /\ \E f \in Fd : Store!Give(f)
<1> USE DEF OInv
<1>1. PICK k \in Fitting(unused) : entries' = entries \cup k
  BY DEF Return
<1>2. /\ tpc = "return" /\ tpc' = "idle" /\ won' = {} /\ unused' = {} /\ cand = {} /\ late = {}
      /\ UNCHANGED <<pending, cand, late, alive>>
      /\ dead' = dead \cap InUse' /\ expired' = expired \cap InUse' /\ old' = old \cap InUse'
  BY DEF Return, Forget, IInv, Hands
<1>3. k \subseteq unused /\ (k = unused \/ Cardinality(entries \cup k) >= PoolSize)
  BY <1>1, InsertFills DEF IInv, TypeOK, Apart
<1>4. PICK f \in Fd : won = {f}
  BY <1>2 DEF IInv, Hands
<1>5. /\ InUse' = entries \cup k \cup alive
      /\ InUse \ {f} = entries \cup unused \cup alive
      /\ f \notin InUse'
  BY <1>1, <1>2, <1>3, <1>4 DEF InUse, Apart
<1>6. Stale' = Stale \cap InUse'
  BY <1>2 DEF Stale
<1>7. Apart' /\ Marks'
  BY <1>1, <1>2, <1>3 DEF Apart, Marks, SweepBatch
<1>8. Store!Remains(InUse', InUse \ {f})
  <2>1. InUse \subseteq Fd
    BY DEF InUse, IInv, TypeOK
  <2>2. /\ PoolSize \in Nat /\ Cardinality(InUse') \in Nat
        /\ Cardinality(entries \cup k) \in Nat
        /\ Cardinality(entries \cup k) <= Cardinality(InUse')
    BY <1>3, <1>5, <2>1, Sizes, PoolAssumption
  <2>3. InUse' = InUse \ {f} \/ Cardinality(InUse') >= PoolSize
    BY <1>3, <1>5, <2>2
  <2>4. QED
    BY <1>3, <1>5, <2>3, SameSize DEF Store!Remains
<1>9. f \in Good /\ Good' = {}
  BY <1>2, <1>4 DEF Good
<1>10. Asked = TRUE /\ Asked' = FALSE
  BY <1>2 DEF Asked
<1>11. Store!Give(f)
  BY <1>2, <1>5, <1>6, <1>8, <1>9, <1>10 DEF Store!Give, Store!Known
<1>12. QED
  BY <1>7, <1>11

LEMMA TickOwns ==
  ASSUME OInv, Tick
  PROVE  Apart' /\ Marks' /\ UNCHANGED stored
<1> USE DEF OInv
<1>1. /\ UNCHANGED <<pending, dead, expired, tpc, cand, late, won, unused>> /\ alive = {}
      /\ old' \in {old, expired}
  BY DEF Tick, IInv, Hands, takeVars
<1>2. \/ UNCHANGED <<entries, alive>>
      \/ /\ alive' \subseteq entries /\ entries' = entries \ alive'
         /\ Cardinality(alive') <= SweepBatch
  BY SweepBatchType, PopMoves DEF Tick, IInv, TypeOK
<1>3. InUse' = InUse
  BY <1>1, <1>2 DEF InUse
<1>4. Apart'
  BY <1>1, <1>2 DEF Apart
<1>5. Marks'
  BY <1>1, <1>2, <1>3 DEF Marks, SweepBatch
<1>6. QED
  BY <1>1, <1>3, <1>4, <1>5 DEF stored, Asked, Stale, Good

LEMMA SweepOwns ==
  ASSUME OInv, Sweep
  PROVE  Apart' /\ Marks' /\ Store!Maintain
<1> USE DEF OInv
<1>1. /\ alive' = alive \ dead
      /\ UNCHANGED <<entries, pending, tpc, cand, late, won, unused>>
      /\ dead' = dead \cap InUse' /\ expired' = expired \cap InUse' /\ old' = old \cap InUse'
  BY DEF Sweep, socket_dead_fast, Forget, poolVars, takeVars
<1>2. InUse' = InUse \ (alive \cap dead) /\ Stale' = Stale \cap InUse'
  BY <1>1 DEF InUse, Stale, Apart
<1>3. Cardinality(alive') \in Nat /\ Cardinality(alive') <= Cardinality(alive)
      /\ Cardinality(alive) \in Nat
  BY <1>1, Sizes DEF IInv, TypeOK
<1>4. Apart'
  BY <1>1 DEF Apart
<1>5. Marks'
  <2>1. late' \subseteq expired' /\ old' \subseteq expired'
    BY <1>1 DEF Marks, InUse, IInv, Hands
  <2>2. QED
    BY <1>1, <1>3, <2>1, SweepBatchType DEF Marks, SweepBatch
<1>6. Store!Remains(InUse', InUse)
  BY <1>2 DEF Store!Remains, Stale
<1>7. Good' \subseteq Good \cap InUse'
  BY <1>1 DEF Good, InUse
<1>8. QED
  BY <1>1, <1>2, <1>4, <1>5, <1>6, <1>7 DEF Store!Maintain, Store!Known, Asked

LEMMA RefillOwns ==
  ASSUME OInv, Refill
  PROVE  Apart' /\ Marks' /\ Store!Maintain
<1> SUFFICES ASSUME NEW rotate \in BOOLEAN, RefillWith(rotate)
             PROVE  Apart' /\ Marks' /\ Store!Maintain
  BY DEF Refill
<1> USE DEF OInv
<1>1. PICK k \in Fitting(alive) :
        LET kept == entries \cup k
            now  == IF rotate THEN Rotated(kept) ELSE kept
            n    == Ordered(Least(Want(Cardinality(now)), Minus(MaxPending, pending)))
        IN /\ entries' = now /\ pending' = pending + n /\ tokens' = tokens + n
  BY DEF RefillWith
<1> DEFINE n == Ordered(Least(Want(Cardinality(entries')), Minus(MaxPending, pending)))
           hand == cand \cup won \cup unused
           full == entries \cup k \cup hand
<1>2. /\ entries' \subseteq entries \cup k /\ (entries \cup k) \ entries' \subseteq expired
      /\ pending' = pending + n
  BY <1>1 DEF Rotated, Marks
<1>3. /\ alive' = {} /\ old' = {} /\ UNCHANGED <<tpc, cand, late, won, unused>>
      /\ dead' = dead \cap InUse' /\ expired' = expired \cap InUse'
  BY DEF RefillWith, Forget, takeVars
<1>4. k \subseteq alive /\ (k = alive \/ Cardinality(entries \cup k) >= PoolSize)
  <2>1. entries \cap alive = {} /\ entries \subseteq Fd /\ alive \subseteq Fd /\ PoolBounded
    BY DEF IInv, TypeOK, Apart
  <2>2. QED
    BY <2>1, InsertFills
<1>5. InUse' = entries' \cup hand /\ InUse = entries \cup alive \cup hand
  BY <1>3 DEF InUse
<1>6. InUse \subseteq Fd /\ entries' \subseteq Fd /\ hand \subseteq Fd
  BY <1>2, <1>4 DEF InUse, IInv, TypeOK
<1>7. Stale' = Stale \cap InUse'
  BY <1>3 DEF Stale
<1>8. Apart'
  BY <1>2, <1>3, <1>4 DEF Apart
<1>9. Marks' /\ Good' \subseteq Good \cap InUse'
  <2>1. cand \subseteq InUse' /\ won \subseteq InUse'
    BY <1>5
  <2>2. late' \subseteq expired'
    BY <1>3, <2>1 DEF Marks, IInv, Hands
  <2>3. Good' \subseteq Good \cap InUse'
    BY <1>3, <2>1 DEF Good
  <2>4. QED
    BY <1>3, <2>2, <2>3, SweepBatchType, FS_EmptySet DEF Marks, SweepBatch
<1>10. Store!Remains(InUse', InUse)
  <2>1. full \subseteq InUse /\ InUse' \subseteq full /\ full \ InUse' \subseteq Stale
    BY <1>2, <1>4, <1>5 DEF Stale
  <2>2. /\ PoolSize \in Nat /\ Cardinality(full) \in Nat
        /\ Cardinality(entries \cup k) \in Nat
        /\ Cardinality(entries \cup k) <= Cardinality(full)
    BY <1>6, <2>1, Sizes, PoolAssumption
  <2>3. full = InUse \/ Cardinality(full) >= PoolSize
    BY <1>4, <1>5, <2>2
  <2> HIDE DEF full
  <2>4. QED
    BY <2>1, <2>3, SameSize DEF Store!Remains
<1>11. pending' = pending \/ (pending' \in Nat /\ pending' > pending /\ Store!HasRoom)
  <2>1. /\ Cardinality(entries') \in Nat /\ Cardinality(hand) \in Nat
        /\ Cardinality(InUse') \in Nat
        /\ pending \in Nat /\ PoolSize \in Nat /\ PoolMin \in Nat /\ Batch \in Nat
    BY <1>5, <1>6, Sizes, PoolAssumption DEF IInv, TypeOK
  <2>2. Cardinality(hand) <= Batch
    <3>1. CASE won = {} /\ unused = {}
      BY <3>1 DEF IInv, Hands
    <3>2. CASE cand = {}
      <4>1. IsFiniteSet(won) /\ IsFiniteSet(unused) /\ Cardinality(won \cap unused) \in Nat
        BY Sizes DEF IInv, TypeOK
      <4>2. Cardinality(hand)
              = Cardinality(won) + Cardinality(unused) - Cardinality(won \cap unused)
        <5>1. hand = won \cup unused
          BY <3>2
        <5> HIDE DEF hand
        <5>2. QED
          BY <4>1, <5>1, FS_Union
      <4>3. /\ Cardinality(won) + Cardinality(unused) <= Batch
            /\ Cardinality(won) \in Nat /\ Cardinality(unused) \in Nat
        BY HeldFacts DEF IInv, Hands
      <4> HIDE DEF hand
      <4>4. QED
        BY <2>1, <4>1, <4>2, <4>3
    <3>3. QED
      BY <3>1, <3>2 DEF IInv, Hands
  <2>3. Cardinality(InUse') <= Cardinality(entries') + Cardinality(hand)
    <3>1. IsFiniteSet(entries') /\ IsFiniteSet(hand) /\ Cardinality(entries' \cap hand) \in Nat
      BY <1>6, Sizes
    <3>2. Cardinality(InUse')
            = Cardinality(entries') + Cardinality(hand) - Cardinality(entries' \cap hand)
      BY <1>5, <3>1, FS_Union
    <3>3. QED
      BY <2>1, <3>1, <3>2
  <2>4. /\ n \in Nat /\ n <= Want(Cardinality(entries')) /\ Want(Cardinality(entries')) \in Nat
    <3>1. Want(Cardinality(entries')) \in Nat
      BY <2>1, WantFacts DEF IInv
    <3>2. Minus(MaxPending, pending) \in Nat
      BY <2>1, MinusFacts, PoolAssumption
    <3>3. QED
      BY <3>1, <3>2, LeastFacts, OrderedFacts
  <2> HIDE DEF n, hand
  <2>5. CASE n = 0
    BY <1>2, <2>1, <2>5
  <2>6. CASE n # 0
    <3>1. \/ Cardinality(entries') + pending + n <= PoolSize
          \/ PoolMin > 0 /\ Cardinality(entries') < PoolMin
      BY <2>1, <2>4, <2>6, WantFacts DEF IInv
    <3>2. Store!HasRoom
      BY <1>2, <2>1, <2>2, <2>3, <2>4, <3>1, SameSize DEF Store!HasRoom
    <3>3. QED
      BY <1>2, <2>1, <2>4, <2>6, <3>2
  <2>7. QED
    BY <2>5, <2>6
<1>12. Asked' = Asked
  BY <1>3 DEF Asked
<1> HIDE DEF n, hand, full
<1>13. QED
  BY <1>7, <1>8, <1>9, <1>10, <1>11, <1>12 DEF Store!Maintain, Store!Known

LEMMA SuccessOwns ==
  ASSUME OInv, NEW w \in Workers, connect_success(w)
  PROVE  Apart' /\ Marks' /\ \E f \in Fd : Store!Connected(f)
<1> USE DEF OInv
<1>1. PICK f \in Fd \ InUse : \E k \in Fitting({f}) : entries' = entries \cup k
  BY DEF connect_success
<1>2. PICK k \in Fitting({f}) : entries' = entries \cup k
  BY <1>1
<1>3. /\ wpc[w] = "busy" /\ pending' = Minus(pending, 1)
      /\ UNCHANGED <<dead, expired, alive, old, tpc, cand, late, won, unused>>
  BY DEF connect_success, sweepVars, takeVars
<1>4. k \subseteq {f} /\ (k = {f} \/ Cardinality(entries \cup k) >= PoolSize)
  BY <1>1, InsertFills DEF IInv, TypeOK, InUse
<1>5. pending > 0 /\ pending' = pending - 1
  <2>1. Cardinality(Busy) \in Nat /\ Cardinality(Busy) # 0
    <3>1. w \in Busy
      BY <1>3 DEF Busy
    <3>2. QED
      BY <3>1, BusyFacts, FS_EmptySet DEF IInv
  <2>2. QED
    BY <1>3, <2>1 DEF IInv, TypeOK, PendingExact, Minus
<1>6. Apart'
  BY <1>1, <1>2, <1>3, <1>4 DEF Apart, InUse
<1>7. InUse' = InUse \cup k
  BY <1>2, <1>3 DEF InUse
<1>8. Marks'
  BY <1>3, <1>7 DEF Marks, SweepBatch
<1>9. InUse' = InUse \cup {f} \/ (InUse' = InUse /\ Cardinality(InUse) >= PoolSize)
  <2>1. CASE k = {f}
    BY <1>7, <2>1
  <2>2. CASE k = {} /\ Cardinality(entries) >= PoolSize
    <3>1. /\ Cardinality(entries) \in Nat /\ Cardinality(InUse) \in Nat /\ PoolSize \in Nat
          /\ Cardinality(entries) <= Cardinality(InUse)
      <4>1. InUse \subseteq Fd /\ entries \subseteq InUse
        BY DEF InUse, IInv, TypeOK
      <4>2. QED
        BY <4>1, Sizes, PoolAssumption
    <3>2. QED
      BY <1>7, <2>2, <3>1
  <2>3. k = {f} \/ (k = {} /\ entries \cup k = entries)
    BY <1>4
  <2>4. QED
    BY <1>4, <2>1, <2>2, <2>3
<1>10. Store!Connected(f)
  <2>1. Good' = Good /\ Good \subseteq InUse'
    BY <1>3, <1>7 DEF Good, InUse
  <2>2. QED
    BY <1>1, <1>3, <1>5, <1>9, <2>1, SameSize DEF Store!Connected, Store!Known, Asked, Stale
<1>11. QED
  BY <1>6, <1>8, <1>10

LEMMA FailOwns ==
  ASSUME OInv, NEW w \in Workers, connect_fail(w)
  PROVE  Apart' /\ Marks' /\ Store!Failed
<1> USE DEF OInv
<1>1. /\ wpc[w] = "busy" /\ pending' = Minus(pending, 1)
      /\ UNCHANGED <<entries, dead, expired, alive, old, tpc, cand, late, won, unused>>
  BY DEF connect_fail, sweepVars, takeVars
<1>2. pending > 0 /\ pending' = pending - 1
  <2>1. Cardinality(Busy) \in Nat /\ Cardinality(Busy) # 0
    <3>1. w \in Busy
      BY <1>1 DEF Busy
    <3>2. QED
      BY <3>1, BusyFacts, FS_EmptySet DEF IInv
  <2>2. QED
    BY <1>1, <2>1 DEF IInv, TypeOK, PendingExact, Minus
<1>3. Apart' /\ Marks'
  BY <1>1 DEF Apart, Marks, InUse, SweepBatch
<1>4. QED
  BY <1>1, <1>2, <1>3 DEF Store!Failed, Store!Known, Asked, Stale, Good, InUse

\* A client asks, a socket becomes stale, or nothing happens that concerns them.
LEMMA OtherOwns ==
  ASSUME OInv,
         \/ Accept \/ PauseEnds \/ Shutdown \/ UNCHANGED vars
         \/ \E w \in Workers : Lock(w) \/ Recv(w) \/ Exit(w)
         \/ \E f \in Fd : Die(f) \/ Expire(f)
  PROVE  Apart' /\ Marks' /\ [Store!Next]_stored
<1> USE DEF OInv
<1>1. /\ UNCHANGED <<entries, pending, alive, old, cand, late, won, unused>>
      /\ dead \subseteq dead' /\ expired \subseteq expired'
  BY DEF Accept, PauseEnds, Shutdown, Lock, Recv, Exit, Die, Expire, vars, poolVars, sweepVars,
         takeVars
<1>2. InUse' = InUse /\ Apart'
  BY <1>1 DEF InUse, Apart
<1>3. dead' \subseteq InUse /\ expired' \subseteq InUse
  BY DEF Marks, Accept, PauseEnds, Shutdown, Lock, Recv, Exit, Die, Expire, vars
<1>4. Marks'
  BY <1>1, <1>2, <1>3 DEF Marks, SweepBatch
<1>5. CASE Accept
  <2>1. Asked = FALSE /\ Asked' = TRUE
    BY <1>5 DEF Accept, Asked
  <2>2. Store!Ask
    BY <1>1, <1>2, <1>5, <2>1 DEF Store!Ask, Stale, Good, Accept
  <2>3. QED
    BY <1>2, <1>4, <2>2 DEF Store!Next
<1>6. ASSUME NEW f \in Fd, Die(f) \/ Expire(f)
      PROVE  Store!Spoil(f)
  <2>1. Good' \subseteq Good \cap InUse'
    BY <1>1, <1>2 DEF Good, InUse
  <2>2. QED
    BY <1>1, <1>2, <1>6, <2>1 DEF Die, Expire, takeVars, Store!Spoil, Store!Known, Stale, Asked
<1>7. CASE \/ PauseEnds \/ Shutdown \/ UNCHANGED vars
           \/ \E w \in Workers : Lock(w) \/ Recv(w) \/ Exit(w)
  <2>1. UNCHANGED <<tpc, dead, expired>>
    BY <1>7 DEF PauseEnds, Shutdown, Lock, Recv, Exit, vars, takeVars
  <2>2. UNCHANGED stored
    BY <1>1, <1>2, <2>1 DEF stored, Asked, Stale, Good
  <2>3. QED
    BY <1>2, <1>4, <2>2
<1>8. QED
  BY <1>2, <1>4, <1>5, <1>6, <1>7 DEF Store!Next

LEMMA OwnsInit == Init => Apart /\ Marks /\ Store!Init
<1> SUFFICES ASSUME Init PROVE Apart /\ Marks /\ Store!Init
  OBVIOUS
<1>1. Asked = FALSE
  BY DEF Init, Asked
<1>2. Apart /\ Marks
  BY SweepBatchType, FS_EmptySet DEF Init, Apart, Marks, InUse
<1>3. QED
  BY <1>1, <1>2 DEF Init, Store!Init, InUse, Stale, Good

LEMMA OwnsStep ==
  ASSUME OInv, [Next]_vars
  PROVE  Apart' /\ Marks' /\ [Store!Next]_stored
<1>1. ASSUME Pop PROVE Apart' /\ Marks' /\ [Store!Next]_stored
  BY <1>1, PopOwns DEF Store!Next
<1>2. ASSUME NEW f \in Fd, Discard(f) \/ Choose(f)
      PROVE  Apart' /\ Marks' /\ [Store!Next]_stored
  BY <1>2, DiscardOwns, ChooseOwns DEF Store!Next
<1>3. ASSUME Return PROVE Apart' /\ Marks' /\ [Store!Next]_stored
  BY <1>3, ReturnOwns DEF Store!Next
<1>4. ASSUME Tick PROVE Apart' /\ Marks' /\ [Store!Next]_stored
  BY <1>4, TickOwns
<1>5. ASSUME Sweep PROVE Apart' /\ Marks' /\ [Store!Next]_stored
  BY <1>5, SweepOwns DEF Store!Next
<1>6. ASSUME Refill PROVE Apart' /\ Marks' /\ [Store!Next]_stored
  BY <1>6, RefillOwns DEF Store!Next
<1>7. ASSUME NEW w \in Workers, connect_success(w) PROVE Apart' /\ Marks' /\ [Store!Next]_stored
  BY <1>7, SuccessOwns DEF Store!Next
<1>8. ASSUME NEW w \in Workers, connect_fail(w) PROVE Apart' /\ Marks' /\ [Store!Next]_stored
  BY <1>8, FailOwns DEF Store!Next
<1>9. QED
  BY <1>1, <1>2, <1>3, <1>4, <1>5, <1>6, <1>7, <1>8, OtherOwns DEF Next, Take, Maintain, Work

\* A socket is never in two places: the pool, a sweep, a take.  So none is
\* handed to two clients, or closed while it is with one.
THEOREM OneHolder == Spec => []Apart
<1>1. Init => Apart /\ Marks
  BY OwnsInit
<1>2. IInv /\ Apart /\ Marks /\ [Next]_vars => (Apart /\ Marks)'
  BY OwnsStep DEF OInv
<1>3. QED
  BY <1>1, <1>2, Invariance, PTL DEF Spec

\* The pool with any number of threads implements the abstract pool.
THEOREM Refinement == Spec => IsSocketPool
<1>1. Init => Apart /\ Marks /\ Store!Init
  BY OwnsInit
<1>2. IInv /\ Apart /\ Marks /\ [Next]_vars => (Apart /\ Marks)' /\ [Store!Next]_stored
  BY OwnsStep DEF OInv
<1>3. [Store!Next]_stored => [Store!Next]_(Store!store)
  BY DEF stored, Store!store
<1>4. QED
  BY <1>1, <1>2, <1>3, Invariance, PTL DEF Spec, IsSocketPool, Store!Spec
=============================================================================
