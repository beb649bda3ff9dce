-------------------------------- MODULE Pool --------------------------------
(***************************************************************************)
(* The preconnection pool of relay-rs/src/pool.rs: sockets connected ahead *)
(* of time and the threads that share them under one mutex.                *)
(*                                                                         *)
(*   taker       the event loop in take_live_unlocked: pop a batch under   *)
(*               the lock, check it without, return the rest under it      *)
(*   maintainer  the thread that sweeps, rotates and orders refills        *)
(*   workers     the refill_batch threads that connect, one per token;     *)
(*               the one that waits for a token holds the receiver's lock  *)
(*                                                                         *)
(* An action is one critical section of the mutex, or an unlocked stretch  *)
(* between two; the check of a take is one action per socket.  A socket is *)
(* a name out of Fd, free again once it is closed or with a connection.    *)
(*                                                                         *)
(* Abstracted: the order of the sockets in the vector (pop_batch takes the *)
(* last ones; here any) and time (a socket may pass its TTL, and a pause   *)
(* may end, at any moment).                                                *)
(***************************************************************************)
EXTENDS Naturals, FiniteSets

CONSTANTS
  Fd,          \* descriptors
  Workers,     \* the refill threads
  PoolSize,    \* pool_size
  PoolMin,     \* pool_min_size
  RefillBatch, \* refill_batch
  Batch,       \* sockets popped by one take (4 in the code)
  SweepMin,    \* least number of sockets popped by a sweep (8 in the code)
  MaxPending   \* bound: no refill is ordered beyond it (only reached when
               \* PoolMin > 0, where the code has no bound)

ASSUME PoolAssumption ==
  /\ IsFiniteSet(Fd) /\ IsFiniteSet(Workers)
  /\ PoolSize \in Nat \ {0} /\ PoolMin \in 0 .. PoolSize
  /\ RefillBatch \in 1 .. PoolSize
  /\ Batch \in Nat \ {0} /\ SweepMin \in Nat \ {0} /\ MaxPending \in Nat

VARIABLES
  \* struct Pool, behind the mutex; streak stops counting at RefillBatch
  entries, pending, streak, paused,
  \* tokens in the channel, state of the workers
  tokens, wpc,
  \* the maintainer: position, sockets out for a sweep, TTLs past at its `now`
  mpc, alive, old,
  \* the taker: position, sockets popped, those of them whose TTL was past at
  \* its `now`, the socket found (`result`), sockets to return
  tpc, cand, late, won, unused,
  \* sockets the peer has closed, sockets past their TTL, SHUTDOWN
  dead, expired, shutdown

poolVars   == <<entries, pending, streak, paused>>
workerVars == <<tokens, wpc>>
sweepVars  == <<mpc, alive, old>>
takeVars   == <<tpc, cand, late, won, unused>>
vars == <<entries, pending, streak, paused, tokens, wpc, mpc, alive, old,
          tpc, cand, late, won, unused, dead, expired, shutdown>>

Least(a, b) == IF a <= b THEN a ELSE b
Minus(a, b) == IF a <= b THEN 0 ELSE a - b   \* saturating_sub
InUse == entries \cup alive \cup cand \cup won \cup unused

TypeOK ==
  /\ entries \subseteq Fd /\ alive \subseteq Fd
  /\ cand \subseteq Fd /\ late \subseteq Fd /\ won \subseteq Fd /\ unused \subseteq Fd
  /\ pending \in Nat /\ streak \in 0 .. RefillBatch /\ paused \in BOOLEAN
  /\ tokens \in Nat /\ wpc \in [Workers -> {"idle", "recv", "busy", "exit"}]
  /\ mpc \in {"sleep", "sweep", "refill", "exit"}
  /\ tpc \in {"idle", "pop", "check", "return"}
  /\ old \subseteq Fd /\ dead \subseteq Fd /\ expired \subseteq Fd
  /\ shutdown \in BOOLEAN

Init ==
  /\ entries = {} /\ pending = 0 /\ streak = 0 /\ paused = FALSE
  /\ tokens = 0 /\ wpc = [w \in Workers |-> "idle"]
  /\ mpc = "sleep" /\ alive = {} /\ old = {}
  /\ tpc = "idle" /\ cand = {} /\ late = {} /\ won = {} /\ unused = {}
  /\ dead = {} /\ expired = {} /\ shutdown = FALSE

\* What is known of a descriptor ends with it.
Forget ==
  /\ dead' = dead \cap InUse'
  /\ expired' = expired \cap InUse'

\* pop_batch(n): up to n of the sockets.
Batches(n) ==
  {b \in SUBSET entries : Cardinality(b) = Least(n, Cardinality(entries))}

\* The sockets of s the pool has room for; the others are closed.
FittingUnguarded(s) == {s}
Fitting(s) ==
  {k \in SUBSET s :
     Cardinality(k) = Least(Cardinality(s), Minus(PoolSize, Cardinality(entries)))}

\* The poll of a socket that nobody else touches: it finds a reset, and a FIN
\* unless bytes are queued before it (the peer then counts as alive).
socket_dead_fast(f) == f \in dead

-----------------------------------------------------------------------------
(***************************************************************************)
(* take_live_unlocked.                                                     *)
(***************************************************************************)
\* A client was accepted.
Accept ==
  /\ tpc = "idle"
  /\ tpc' = "pop"
  /\ UNCHANGED <<cand, late, won, unused, dead, expired, shutdown>>
  /\ UNCHANGED poolVars /\ UNCHANGED workerVars /\ UNCHANGED sweepVars

\* Step 1, locked, and the clock read after it.  An empty pool ends the take:
\* the client connects directly.
PopPeek ==
  /\ tpc = "pop"
  /\ cand' \in Batches(Batch) /\ late' = cand' \cap expired
  /\ tpc' = IF entries = {} THEN "idle" ELSE "check"
  /\ UNCHANGED <<entries, pending, streak, paused, won, unused, dead, expired, shutdown>>
  /\ UNCHANGED workerVars /\ UNCHANGED sweepVars
Pop ==
  /\ tpc = "pop"
  /\ cand' \in Batches(Batch) /\ late' = cand' \cap expired
  /\ entries' = entries \ cand'
  /\ tpc' = IF entries = {} THEN "idle" ELSE "check"
  /\ UNCHANGED <<pending, streak, paused, won, unused, dead, expired, shutdown>>
  /\ UNCHANGED workerVars /\ UNCHANGED sweepVars

\* Step 2, unlocked, one candidate: a dead or expired one is closed, and after
\* the last the take starts over; the first good one ends the check.
Discard(f) ==
  /\ tpc = "check" /\ f \in cand
  /\ socket_dead_fast(f) \/ f \in late
  /\ cand' = cand \ {f} /\ late' = late \ {f}
  /\ tpc' = IF cand' = {} THEN "pop" ELSE "check"
  /\ UNCHANGED <<won, unused, mpc, alive, shutdown>>
  /\ UNCHANGED poolVars /\ UNCHANGED workerVars
  /\ Forget /\ old' = old \cap InUse'
ChooseNoTtl(f) ==
  /\ tpc = "check" /\ f \in cand
  /\ ~socket_dead_fast(f)
  /\ won' = {f} /\ unused' = cand \ {f}
  /\ cand' = {} /\ late' = {} /\ tpc' = "return"
  /\ UNCHANGED <<dead, expired, shutdown>>
  /\ UNCHANGED poolVars /\ UNCHANGED workerVars /\ UNCHANGED sweepVars
Choose(f) ==
  /\ tpc = "check" /\ f \in cand
  /\ ~socket_dead_fast(f) /\ f \notin late
  /\ won' = {f} /\ unused' = cand \ {f}
  /\ cand' = {} /\ late' = {} /\ tpc' = "return"
  /\ UNCHANGED <<dead, expired, shutdown>>
  /\ UNCHANGED poolVars /\ UNCHANGED workerVars /\ UNCHANGED sweepVars

\* Step 3, locked if there is something to return: the pool may have been
\* refilled meanwhile.  The client gets the socket found, whatever has become
\* of it since.
Return ==
  /\ tpc = "return"
  /\ \E k \in Fitting(unused) : entries' = entries \cup k
  /\ won' = {} /\ unused' = {} /\ tpc' = "idle"
  /\ UNCHANGED <<pending, streak, paused, cand, late, mpc, alive, shutdown>>
  /\ UNCHANGED workerVars
  /\ Forget /\ old' = old \cap InUse'

-----------------------------------------------------------------------------
(***************************************************************************)
(* The maintainer, every 100 ms.                                           *)
(***************************************************************************)
SweepBatch == IF PoolSize \div 4 >= SweepMin THEN PoolSize \div 4 ELSE SweepMin

\* After the sleep: leave on SHUTDOWN (the channel closes), else read the clock
\* and, once a second, pop the sockets to sweep.
TickForever ==
  /\ mpc = "sleep"
  /\ old' = expired
  /\ \/ mpc' = "refill" /\ UNCHANGED <<entries, alive>>
     \/ mpc' = "sweep" /\ alive' \in Batches(SweepBatch) /\ entries' = entries \ alive'
  /\ UNCHANGED <<pending, streak, paused, dead, expired, shutdown>>
  /\ UNCHANGED workerVars /\ UNCHANGED takeVars
Tick ==
  /\ mpc = "sleep"
  /\ \/ /\ shutdown
        /\ mpc' = "exit" /\ UNCHANGED <<entries, alive, old>>
     \/ /\ ~shutdown
        /\ old' = expired
        /\ \/ mpc' = "refill" /\ UNCHANGED <<entries, alive>>
           \/ mpc' = "sweep" /\ alive' \in Batches(SweepBatch) /\ entries' = entries \ alive'
  /\ UNCHANGED <<pending, streak, paused, dead, expired, shutdown>>
  /\ UNCHANGED workerVars /\ UNCHANGED takeVars

\* Unlocked: dead sockets are closed.
Sweep ==
  /\ mpc = "sweep"
  /\ alive' = {f \in alive : ~socket_dead_fast(f)}
  /\ mpc' = "refill"
  /\ UNCHANGED shutdown
  /\ UNCHANGED poolVars /\ UNCHANGED workerVars /\ UNCHANGED takeVars
  /\ Forget /\ old' = old \cap InUse'

\* How many connects to order when n sockets are in the pool.
DeficitNoPending(n) == Minus(PoolSize, n)
Deficit(n) == Minus(PoolSize, n + pending)
BelowMin(n) == PoolMin > 0 /\ n < PoolMin
Want(n) ==
  CASE paused \/ (Deficit(n) = 0 /\ ~BelowMin(n)) -> 0
    [] ~paused /\ BelowMin(n) -> Least(PoolMin - n, RefillBatch)
    [] ~paused /\ Deficit(n) > 0 /\ ~BelowMin(n) ->
         Least(Least(Deficit(n), RefillBatch),
               IF Deficit(n) > PoolSize \div 2 THEN RefillBatch ELSE 2)

\* retain: sockets past their TTL are closed.
RotatedNone(s) == s
Rotated(s) == s \ old

\* tx.send fails once every worker has left (and dropped the receiver), which
\* undoes the order.
Ordered(n) == IF \E w \in Workers : wpc[w] # "exit" THEN n ELSE 0

\* Locked: swept sockets come back, once a second the pool is rotated, and
\* one token is sent to the workers for each connect ordered.
RefillWith(rotate) ==
  /\ mpc = "refill"
  /\ \E k \in Fitting(alive) :
       LET kept == entries \cup k
           now  == IF rotate THEN Rotated(kept) ELSE kept
           n    == Ordered(Least(Want(Cardinality(now)), Minus(MaxPending, pending)))
       IN /\ entries' = now
          /\ pending' = pending + n
          /\ tokens' = tokens + n
  /\ alive' = {} /\ old' = {} /\ mpc' = "sleep"
  /\ UNCHANGED <<streak, paused, wpc, shutdown>>
  /\ UNCHANGED takeVars
  /\ Forget
Refill == \E rotate \in BOOLEAN : RefillWith(rotate)

-----------------------------------------------------------------------------
(***************************************************************************)
(* The workers.                                                            *)
(***************************************************************************)
\* One worker at a time has the receiver.
LockedPoisoned == \E w \in Workers : wpc[w] \in {"recv", "exit"}
Locked == \E w \in Workers : wpc[w] = "recv"
Lock(w) ==
  /\ wpc[w] = "idle" /\ ~Locked
  /\ wpc' = [wpc EXCEPT ![w] = "recv"]
  /\ UNCHANGED <<tokens, dead, expired, shutdown>>
  /\ UNCHANGED poolVars /\ UNCHANGED sweepVars /\ UNCHANGED takeVars

\* recv blocks until there is a token; the lock is released before the connect.
Recv(w) ==
  /\ wpc[w] = "recv" /\ tokens > 0
  /\ tokens' = tokens - 1
  /\ wpc' = [wpc EXCEPT ![w] = "busy"]
  /\ UNCHANGED <<dead, expired, shutdown>>
  /\ UNCHANGED poolVars /\ UNCHANGED sweepVars /\ UNCHANGED takeVars

\* recv fails once the channel is closed and drained.
Exit(w) ==
  /\ wpc[w] = "recv" /\ tokens = 0 /\ mpc = "exit"
  /\ wpc' = [wpc EXCEPT ![w] = "exit"]
  /\ UNCHANGED <<tokens, dead, expired, shutdown>>
  /\ UNCHANGED poolVars /\ UNCHANGED sweepVars /\ UNCHANGED takeVars

\* A full pool closes the socket that was just connected.
connect_success(w) ==
  /\ wpc[w] = "busy"
  /\ \E f \in Fd \ InUse : \E k \in Fitting({f}) : entries' = entries \cup k
  /\ pending' = Minus(pending, 1) /\ streak' = 0 /\ paused' = FALSE
  /\ wpc' = [wpc EXCEPT ![w] = "idle"]
  /\ UNCHANGED <<tokens, dead, expired, shutdown>>
  /\ UNCHANGED sweepVars /\ UNCHANGED takeVars

connect_fail_leaky(w) ==
  /\ wpc[w] = "busy"
  /\ streak' = Least(streak + 1, RefillBatch)
  /\ paused' = (paused \/ streak' >= RefillBatch)
  /\ wpc' = [wpc EXCEPT ![w] = "idle"]
  /\ UNCHANGED <<entries, pending, tokens, dead, expired, shutdown>>
  /\ UNCHANGED sweepVars /\ UNCHANGED takeVars
connect_fail(w) ==
  /\ wpc[w] = "busy"
  /\ pending' = Minus(pending, 1)
  /\ streak' = Least(streak + 1, RefillBatch)
  /\ paused' = (paused \/ streak' >= RefillBatch)
  /\ wpc' = [wpc EXCEPT ![w] = "idle"]
  /\ UNCHANGED <<entries, tokens, dead, expired, shutdown>>
  /\ UNCHANGED sweepVars /\ UNCHANGED takeVars

-----------------------------------------------------------------------------
(***************************************************************************)
(* The environment.                                                        *)
(***************************************************************************)
PauseEnds ==
  /\ paused
  /\ paused' = FALSE
  /\ UNCHANGED <<entries, pending, streak, dead, expired, shutdown>>
  /\ UNCHANGED workerVars /\ UNCHANGED sweepVars /\ UNCHANGED takeVars

Die(f) ==
  /\ f \in InUse \ dead
  /\ dead' = dead \cup {f}
  /\ UNCHANGED <<expired, shutdown>>
  /\ UNCHANGED poolVars /\ UNCHANGED workerVars /\ UNCHANGED sweepVars /\ UNCHANGED takeVars

Expire(f) ==
  /\ f \in InUse \ expired
  /\ expired' = expired \cup {f}
  /\ UNCHANGED <<dead, shutdown>>
  /\ UNCHANGED poolVars /\ UNCHANGED workerVars /\ UNCHANGED sweepVars /\ UNCHANGED takeVars

Shutdown ==
  /\ ~shutdown
  /\ shutdown' = TRUE
  /\ UNCHANGED <<dead, expired>>
  /\ UNCHANGED poolVars /\ UNCHANGED workerVars /\ UNCHANGED sweepVars /\ UNCHANGED takeVars

Take == Pop \/ (\E f \in Fd : Discard(f) \/ Choose(f)) \/ Return
Maintain == Tick \/ Sweep \/ Refill
Work(w) == Lock(w) \/ Recv(w) \/ Exit(w) \/ connect_success(w) \/ connect_fail(w)
Next ==
  \/ Accept \/ Take \/ Maintain
  \/ \E w \in Workers : Work(w)
  \/ PauseEnds \/ Shutdown
  \/ \E f \in Fd : Die(f) \/ Expire(f)

Spec == Init /\ [][Next]_vars

\* No thread blocks for ever: the mutex is held for bounded work, a connect
\* ends within connect_timeout, a pause within 5 s.  The clock makes the
\* maintainer rotate once a second.
FairSpec ==
  /\ Spec
  /\ WF_vars(Take) /\ WF_vars(Maintain) /\ WF_vars(PauseEnds)
  /\ SF_vars(RefillWith(TRUE))
  /\ \A w \in Workers : WF_vars(Work(w))

-----------------------------------------------------------------------------
(***************************************************************************)
(* Properties.                                                             *)
(***************************************************************************)
\* Three threads insert sockets, each after a stretch without the lock; the
\* pool never holds more than pool_size ("Maximum number of preconnected
\* sockets to keep").
PoolBounded == Cardinality(entries) <= PoolSize

\* pending counts exactly the connects ordered and not finished, so that the
\* saturating_sub of the workers never hides a lost one.
Busy == {w \in Workers : wpc[w] = "busy"}
PendingExact == pending = tokens + Cardinality(Busy)

\* Sockets held anywhere on the pool's behalf and connects under way are at
\* most pool_size, plus the batch in the hands of a take, which the refill
\* cannot see.
Held == Cardinality(entries) + Cardinality(alive)
          + Cardinality(cand) + Cardinality(won) + Cardinality(unused)
SocketsBounded == PoolMin = 0 => Held + pending <= PoolSize + Batch

\* The pool with its threads is the abstract pool: no interleaving hands a
\* socket out twice, gives a client one that was finished when it asked, or
\* closes a good one while there is room.  What a take knows to be good is what
\* was live and within its TTL when it read the clock, and lives on until polled.
Asked == tpc # "idle"
Stale == dead \cup expired
Good  == won \cup (cand \ (late \cup dead))
Store == INSTANCE SocketPool WITH
  asked <- Asked, held <- InUse, stale <- Stale, good <- Good, ordered <- pending,
  TakeMax <- Batch, SweepMax <- SweepBatch
IsSocketPool == Store!Spec

\* When clients, deaths, expiries, failures and SHUTDOWN stop, the pool fills up.
Disturb ==
  \/ Accept \/ Shutdown
  \/ \E w \in Workers : connect_fail(w)
  \/ \E f \in Fd : Die(f) \/ Expire(f)
Refills ==
  []<><<Disturb>>_vars \/ <>shutdown \/ []<>(Cardinality(entries) = PoolSize)

\* Unless sockets keep dying or expiring for ever, a take ends.
TakeEnds ==
  []<><<\E f \in Fd : Die(f) \/ Expire(f)>>_vars \/ (tpc # "idle" ~> tpc = "idle")

\* Once no more clients come, a socket past its TTL does not stay, although a
\* sweep or a late insertion may keep it out of a rotation's sight: this is
\* what removes the dead sockets that no sweep looks at.  (A take may hold
\* it whenever the maintainer looks.)
ExpiredLeave ==
  []<><<Accept>>_vars \/ \A f \in Fd : f \in expired ~> (f \notin expired \/ shutdown)

\* SHUTDOWN ends the maintainer, the closed channel ends the workers, one after
\* the other as they get hold of the receiver.
ThreadsStop == shutdown ~> (mpc = "exit" /\ \A w \in Workers : wpc[w] = "exit")
=============================================================================
