----------------------------- MODULE SocketPool -----------------------------
(***************************************************************************)
(* What the preconnection pool promises to the relay, whatever its threads *)
(* do: a client gets a socket that nobody else holds and that was live and *)
(* within its TTL at a moment since the client asked, or none when next to *)
(* nothing is held; a socket is closed because its peer or its TTL ended   *)
(* it, or because the pool is full; no more connects are ordered than      *)
(* there is room for.  No threads, batches in flight or locks here.        *)
(***************************************************************************)
EXTENDS Naturals, FiniteSets

CONSTANTS
  Fd, PoolSize, PoolMin,
  TakeMax,   \* sockets a take has in hand at most
  SweepMax   \* sockets a sweep has in hand at most

VARIABLES
  asked,     \* a client waits for a socket
  held,      \* sockets the pool holds
  stale,     \* those of them the peer closed or whose TTL is over
  good,      \* those found live and in time since the client asked
  ordered    \* connects under way

store == <<asked, held, stale, good, ordered>>

Init == asked = FALSE /\ held = {} /\ stale = {} /\ good = {} /\ ordered = 0

\* Nothing new is found, and of what was found only what is held counts.
Known == good' \subseteq good \cap held'

\* What may be left of s when sockets are closed: all but stale ones, after all
\* but pool_size if there are more.
Remains(kept, s) ==
  \E f \in SUBSET s :
    /\ f = s \/ Cardinality(f) >= PoolSize
    /\ kept \subseteq f /\ f \ kept \subseteq stale

Ask ==
  /\ ~asked /\ asked' = TRUE
  /\ UNCHANGED <<held, stale, good, ordered>>

Look ==
  /\ asked
  /\ good' \subseteq held \ stale
  /\ UNCHANGED <<asked, held, stale, ordered>>

\* The client gets f, which is not closed; what else was in hand goes back.
Give(f) ==
  /\ asked /\ asked' = FALSE
  /\ f \in good
  /\ f \notin held' /\ Remains(held', held \ {f})
  /\ stale' = stale \cap held'
  /\ Known
  /\ UNCHANGED ordered

\* The client connects by itself.
Refuse ==
  /\ asked /\ asked' = FALSE
  /\ Cardinality(held) <= SweepMax
  /\ Known
  /\ UNCHANGED <<held, stale, ordered>>

\* Sockets are closed, and connects ordered for what is missing.
HasRoom ==
  \/ Cardinality(held') + ordered' <= PoolSize + TakeMax
  \/ PoolMin > 0 /\ Cardinality(held') < PoolMin + TakeMax
Maintain ==
  /\ Remains(held', held)
  /\ stale' = stale \cap held'
  /\ ordered' = ordered \/ (ordered' \in Nat /\ ordered' > ordered /\ HasRoom)
  /\ Known
  /\ UNCHANGED asked

\* A connect ends: with a new socket, kept unless the pool is full, or without.
Connected(f) ==
  /\ ordered > 0 /\ ordered' = ordered - 1
  /\ f \notin held
  /\ held' = held \cup {f} \/ (held' = held /\ Cardinality(held) >= PoolSize)
  /\ Known
  /\ UNCHANGED <<asked, stale>>
Failed ==
  /\ ordered > 0 /\ ordered' = ordered - 1
  /\ Known
  /\ UNCHANGED <<asked, held, stale>>

Spoil(f) ==
  /\ f \in held /\ stale' = stale \cup {f}
  /\ Known
  /\ UNCHANGED <<asked, held, ordered>>

Next ==
  \/ Ask \/ Look \/ Refuse \/ Maintain \/ Failed
  \/ \E f \in Fd : Give(f) \/ Connected(f) \/ Spoil(f)

Spec == Init /\ [][Next]_store
=============================================================================
