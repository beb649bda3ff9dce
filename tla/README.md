# TLA+ verification of TCP-preconnection-relay

This directory holds TLA+ models of `src/relay-rs`, TLC configurations that
check them on small instances, and TLAPS proofs about them for all values of
their constants. The program accepts TCP clients, pairs each with an upstream
socket that was connected ahead of time, and splices bytes between the two; it
also forwards UDP. Everything but the pool's threads runs in one edge-triggered
epoll loop.

## Inventory

| component | state | operations | hard behaviour | what makes it correct |
|---|---|---|---|---|
| relayed TCP connection (`main.rs` `pump`, `Conn`, `conn_watch`, event handler, clean-up) | two pipes with their fill, EOF and shutdown flags, half-close clock, `connecting`; epoll registrations | pump both directions, drain the rest after EOF, shutdown_write, re-arm, close, time out | edge-triggered wake-ups, congestion, half-close, a connect that completes at any moment, reset, ENOMEM | nothing truncated, no lost wake-up, no spinning, everything delivered |
| preconnection pool (`pool.rs`) | vector of sockets, `pending`, `fail_streak`, `pause_until`; token channel | take, sweep, rotate, refill, connect, fail, pause, shut down | three kinds of thread, with sockets held outside the lock | never overfull, `pending` exact, refills, drops dead sockets, threads stop |
| logger (`log.rs`) | bounded channel, `SEND_DROPS`, quota, dropped | push, maybe_flush, flush_all | push/flush interleavings, two-step counting of a refusal | rate kept, drops reported once, silent when off |
| accept path and `direct_connect` (`main.rs` 455-592) | client, upstream, pipes, slab slot | take from the pool or connect, make pipes, register | failure half-way, connect racing registration, a listener that is not re-armed | no client stranded, no descriptor leaked |
| tokens and slab (`main.rs` 76-98, 275-291, 750-755) | slots, free list, 16-bit generation | alloc, free, encode, decode | stale event for a reused slot in one batch, wrap, token ranges | an event reaches only its own connection |
| UDP forwarding (`main.rs` 594-748, 984-1000; `sock.rs` recvmmsg/sendmmsg) | associations, map, slots | receive and dispatch, create, reply, expire | slot reuse, errors taken for "empty", idle expiry | replies go to their client, map and slots agree |
| configuration (`config.rs`) | the merged record | file, environment, command line, validate | precedence, clamping, bounds | what the rest assumes of the constants |
| socket helpers (`sock.rs`) | none | options, liveness check, shutdown, address conversion | a socket dies after its check | - |
| signals | SHUTDOWN | set, read | a signal between its check and `epoll_wait`; termination of the threads | the loop and all threads leave |
| build stamp, install/update scripts, service file, Python load tests | - | - | - | not part of the running program |

Interaction: the event loop calls `pool::take_live_unlocked` (under the mutex,
then without it, then under it), which returns a connected socket or none; it
creates a `Conn` and registers both its sockets; every epoll event of a
connection runs the pump in both directions and ends with `conn_watch` on both
sockets. The maintain thread sends tokens over a channel to the refill workers,
which report under the pool's mutex. All threads push to the logger, which only
the event loop drains. SHUTDOWN is a flag that the event loop and the maintain
thread read; the workers end when the channel closes.

`PROJECT.json` lists the same components, the hazards with the line where each
bites, and the definition-to-source map.

## Modules

| module | role |
|---|---|
| `EventLoop` | the loop around the connections: accept, epoll tokens, slab, batches of events, clean-up, shutdown |
| `EventLoopProofs` | token arithmetic, inductive invariant and safety theorems of the loop |
| `TcpConn` | one relayed connection, from its registration to `free_slot` |
| `RelayStream` | what a connection promises: two FIFO streams, no events or pipes |
| `TcpConnProofs` | inductive invariant, safety theorems, bounds on idle work, refinement of `RelayStream` |
| `ConnTimers`, `ConnTimersProofs` | the deadlines of one connection against a clock; bounds on each |
| `Udp` | UDP associations, `udp_map`, slots, batches, expiry |
| `UdpNat` | what UDP forwarding promises: one session per client, answers to the one who asked |
| `UdpProofs` | inductive invariant and safety theorems of UDP forwarding, refinement of `UdpNat` |
| `FreeListLemmas` | lemmas on a slab with a queue of free slots, used for both slabs |
| `Config`, `MCConfig`, `ConfigProofs` | merge of the four sources, `validate`, jitter of the TTL; `MCConfig` makes the inputs |
| `Pool`, `MCPool` | the pool and its threads; `MCPool` adds the symmetry set |
| `SocketPool` | what the pool promises: live sockets that nobody else holds, room for every connect ordered |
| `PoolProofs` | inductive invariant and safety theorems of the pool, refinement of `SocketPool` |
| `Log`, `LogProofs` | the logger; rate limit and accounting theorems |

### TcpConn

Side "L" is `fd_l`, side "R" is `fd_r`; a direction has the name of the side its
bytes come from, so `len["L"]` is `len_l2r`, `eof["R"]` is `eof_r2l`,
`shut["L"]` is `shut_wr_r` and `shut["R"]` is `shut_wr_l`; `half` is
`half_close_since.is_some()`. The bytes are never looked at and stay in order,
so a stream is four counters (sent, spliced into the pipe, spliced out of it,
read). The kernel is modelled where the code depends on it: `PollBits` is
`tcp_poll`; `mask`, `et`, `ready` are the epoll interest, its EPOLLET flag and the
ready list; a MOD re-checks the socket and queues it if a wanted bit holds; a
wake-up queues a socket only if its key is wanted, and a wake-up without a key
always; ERR and HUP are always reported.

Steps: `PostAddPoll` (the poll after EPOLL_CTL_ADD), `EpollWait`, then per event
`ConnectEvent` or `ConnEvent`; a `ConnEvent` runs `Fill`/`Drain` (the two splice
loops of `pump`, repeated as in the code; `FillNoMem` and `DrainNoMem` are an
ENOMEM in either) or `SkipFill`/`Drain` (the residual drain after EOF), `Settle` (EOF flag, half-close clock, shutdown_write), first
for L and then for R, and `Finish` (close, or `conn_watch`). Peers and handshake
step between any two of these, also between the two splice loops. `Cleanup` may
end the connection whenever the loop is idle.

### EventLoop

`EpollWait` returns any batch of tokens that sockets could have registered, each
with the connection it was registered for as a history field; `Check` looks at
SHUTDOWN; then the events are taken in order, each by the branch its token selects
(`AcceptEvent`, `UdpEvent`, `AssocEvent`, `ConnEvent`, `StaleEvent`); at the end comes
the clean-up of the slots, if it is due. The accept loop is one step per client:
`AcceptDrop` (no upstream, or no pipe), `AcceptConn`, `AcceptUnregistered` (slot taken and
freed again), and `AcceptStop`, which the code does on EAGAIN and on every other
error. What a connection does with an event is left to `TcpConn`: here it is kept
or freed. Tokens are numbers as in the code, with the widths as constants, so
that the ranges of the four kinds of token can collide if the code lets them.
`(epoch, gen)` names a connection: `epoch` counts the wraps of `slab_gen`.

### ConnTimers

Time goes in ticks, stamps are kept as ages. A handler (`Handler`) moves bytes in
some directions, meets EOF in some and ends with any contents of the pipes it
could leave; it runs for events of the client during the connect too. The clean-up
is the first turn more than a second after the one before. `TcpConn` has the
handler in detail and lets a deadline pass at any moment; `ConnTimers` has the
clock.

### Udp

A datagram is the client it comes from. The listening socket and the upstream
sockets are edge-triggered queues (`in_ready`, `up_ready`); a handler reads batch
after batch until recvmmsg returns 0 (`RecvNone`, `ReplyNone`), which it does for an
empty queue and for any error. Each datagram of a batch is a step: `SendKnown`,
`NewAssoc`, `NotRegistered` (slot taken and put back), `NoSocket`. `Reply` is a round of
recvmmsg and sendmmsg, of which any part may be sent. Expiry goes through the
slots in order, one step each. `age` is the time since `last_act` in clean-up
periods.

`UdpNat` knows clients only: a session is opened by a datagram of its client, may
ask the remote, gets its own answers, and may be closed with what it holds. The mapping
is named in `Udp`: `Open` are the clients in `udp_map`, `Held` counts a client's datagrams
in the socket and in the batch being handled, `Answers` what waits in its slot's socket.

### Config

`in` is what the four sources say, each a function from some of the fields to
numbers, with values that do not parse among them; the steps are those of `main`:
`Parse` (clap, which also reads the environment for the five required fields),
`Load`, `ApplyEnv`, `ApplyCli`, `Validate`, and then `Put`, which draws a TTL as `pool.rs`
does, in the arithmetic of u64.

### Pool

A step is a critical section of the mutex or an unlocked stretch between two; the
unlocked check of a take is one step per socket. `tpc` is the position of
`take_live_unlocked` (`Pop`, then `Discard` or `Choose` per candidate, `Return`), `mpc`
that of the maintain thread (`Tick`, `Sweep`, `Refill`), `wpc` that of each worker
(`Lock`, the receiver's mutex; `Recv`, which blocks with it held and releases it;
`connect_success` or `connect_fail`; `Exit`). `cand`, `won` (the code's `result`), `unused`
and `alive` are the sockets each holds while it is outside the lock. A thread compares
TTLs with a clock it has read before: `late` is the set of candidates past their TTL when
the take read it, after its pop, and `old` the set of sockets past theirs at the
maintainer's `now`, which the code reads before the sweep. A socket may die or
expire between any two of these steps, also after it was chosen. `Ordered` is the error
branch of `tx.send`.

The order of the vector is abstracted: `pop_batch` takes the tail, the model any
subset of that size, so the model has the code's behaviours and more. Time is
abstracted: a socket may pass its jittered TTL and a pause may end at any
moment, and sweep and rotation happen at any tick (both run once a second).

`SocketPool` has one set of sockets held, the stale ones among them (closed by the peer or past
their TTL), those found good, the number of connects ordered, and a client that may wait. Sockets
are found good only while a client waits, out of those held and not stale at that moment (`Look`);
the client is given one of them, which is held no longer. It may have gone stale in between:
the code does not look again, and to promise more than a socket that was good at a moment since
the client asked would be false. A client goes without only if no more
is held than one sweep takes out. What is closed is stale or does not fit into `pool_size`, and
connects are ordered only while sockets and connects together leave room for them, or
below `pool_min_size`. `held` maps to the sockets in the vector and in the hands of all threads, `good` to the one
chosen and to the candidates that are neither `late` nor dead.

### Log

A step is one access to shared state. `push[p] = "refused"` is a thread between
the failed `try_send` and its `fetch_add`. Lines have no content, so the channel
is its length. `printed`, `reported` and `lost` are history variables.

## Runs

| run | shows | bounds |
|---|---|---|
| `conn_safety` | FIN only after the data; no lost wake-up, of bytes, room or the end of a connect; half-close clock; TcpConn implements RelayStream, so a clean close relayed everything | chunk 2, pipe 2, send buffer 1, three units per peer: a pipe that stays partly full, congestion in both directions; half-closes, resets and ENOMEM at any moment |
| `conn_live` | all data and every half-close arrive (pooled upstream) | chunk 3 with pipe 2: the pipe is full before `splice_chunk` |
| `conn_wakeup` | no reported event without work; the loop goes back to sleep; a connect that completes or is refused is noticed | pipe and chunk 2, send buffer 1, four units, one more than pipe and send buffer hold, so that a direction blocks with bytes unread; pooled and direct upstreams; resets, refused connects and ENOMEM at any moment; no half-close and a pipe not smaller than the chunk (otherwise the last two are false, see below) |
| `pool_safety` | size and `pending`; implements `SocketPool`, whose bound on sockets and connects is `SocketsBounded` | pool 2, batch 2, two workers, four descriptors: every thread can hold sockets while the pool is refilled to its limit, and sockets die or expire at every step |
| `pool_live` | refill, take and shutdown progress; sockets past their TTL leave | pool 2, batch 2, `pool_min_size` 1, `MaxPending` 2; two workers, so that one waits for the receiver's lock while the other waits for a token; two descriptors, so that a connect with both in use can only fail |
| `loop_slab` | an event reaches its owner or nobody; none skipped; slots exact; the listener's edge kept; clients served, those behind a failed `accept4` with the next that comes; a signal ends the loop | two slots, generations modulo 2 (wrapping with every second accept), batches of up to three events, a UDP association right above the tokens of generation 0, four clients |
| `udp_nat` | map, slots and free list agree; one client per socket; no queue forgotten; no idle association missed; implements `UdpNat`; queues are read, after a failed call with the next datagram | two clients and two slots, so that slots are reused by the other client; batches of 2 with three datagrams, so that a queue takes two rounds |
| `config_merge` | the value of highest priority decides; accepted records fit the other modules; jitter within its percentage | each field about its limits in file and environment, fields that depend on each other together, the required ones in all sources; see below |
| `conn_timers` | each deadline met within one clean-up period; nothing active closed; nothing lives for ever without moving bytes | a connect longer than the idle time, half-close shorter than both, a period of two ticks; ages counted beyond every limit |
| `log_flush` | rate, silence of a disabled logger while it runs, an account of every lost line, reports in a later second | queue of 2, rate 2, three threads with 3 lines each: more than queue and quota together; `log_enable` on and off |
| `conn_spin_rdhup`, `conn_connect_stall` | the disagreements below | smallest instance that shows each |

`MaxUnits` and `MaxPush` bound the input only. The proofs hold for all their
values. `MaxPending` caps the tokens ordered; with `pool_min_size = 0` the code
itself bounds them and the cap is not reached (in `pool_safety` it is 9, `pending`
never exceeds `pool_size`). With `pool_min_size > 0` the code has no bound, and the cap is
an abstraction: `pool_live` does not see runs with more than `MaxPending`
connects ordered.

Every module has a type invariant, `TypeOK`, which is part of its inductive invariant and
proved (`TypeCorrect`); no run repeats it. The same holds of what follows from a
stronger property that a run checks: `CleanMeansComplete` (from `IsRelayStream`),
`NeverOverReported` (from `DropsAccounted`) and `SocketsBounded` (from `IsSocketPool`) are theorems
only, and so is `RoundsFull`, a statement about single rounds of `pump`.

TLC's integers have 32 bits. In `config_merge` u64 and i32 are scaled down to 2^24,
above every limit of `validate` and every default, so that a value may still be too large for its
type and the product in `jittered_ttl` may wrap; the proofs hold for the true widths. In
`loop_slab` the fields of a token are a few bits wide; the theorem covers 16, 47 and 1.
`MaxAge` of `conn_timers` is above the largest limit and a period: older ages are not
told apart by any comparison. `MaxSlots` stands for the descriptor limit of the process.

The deadlock check is off for the connection, logger, configuration and event-loop
runs, whose systems end (a freed slot, the end of `flush_all`, a refused
configuration or one without a pool, a loop that has stopped).

### Fairness

`LoopSpec` has weak fairness of the loop's next step: the thread blocks only in
`epoll_wait`, with a 100 ms timeout. It says nothing of `Cleanup`, so no liveness
property relies on a timeout. `FairSpec` of `TcpConn` adds that peers read and
that a handshake ends. `FairSpec` of `Pool` has weak fairness of each thread
(locks are held for bounded work, a connect ends within `connect_timeout`, a pause
within 5 s) and strong fairness of a refill with rotation, which the clock orders
once a second. `FairSpec` of
`Log` adds that seconds pass and that a thread inside `push` goes on. `FairSpec` of `EventLoop`
is the loop's own steps, with an `epoll_wait` that returns when the listener is ready
or after 100 ms; nothing is promised of other sockets. `FairSpec` of `Udp` is the
loop's steps, and that epoll returns a socket that stays ready (its ready list is a
queue). `FairSpec` of `ConnTimers`
is that time passes and that a turn comes to its end. Clients, deaths, failures
and SHUTDOWN are never fair.

## What the checks found

1. `conn_spin_rdhup`: `conn_watch` keeps EPOLLRDHUP armed until EOF has been read.
   If a peer half-closes while its pipe is full and the destination congested,
   every MOD re-fires the event and the loop spins; the comment at
   `main.rs:215-222` says suppressing EPOLLIN breaks this cycle.
2. `conn_connect_stall`: an event of the client (its FIN) while the upstream is
   connecting ends in `conn_watch`, which takes EPOLLOUT and level triggering
   away from `fd_r`. If the handshake completes in between, nothing reports it and
   the connection waits for `connect_timeout`; compare `main.rs:505-510`.

Seen while reading the code for the models, and kept out of the runs:

* With `splice_pipe_size < splice_chunk` (`relay.toml:46` calls them independent) the
  pipe is full before EPOLLIN is suppressed, and the loop spins as in 1.
* A source that has closed keeps its socket reported (RDHUP until EOF has been read, HUP once
  both directions are shut) while its destination is congested, at EOF with bytes left in the
  pipe as well as before: the turns of 1 find nothing to do. `NoIdleTurn` names this state and
  the full small pipe as the only two in which the handler is called for nothing.
* `main.rs:170-171` says `pump` loops because a full chunk was consumed and written. When
  splice fails with ENOMEM the first loop ends with neither flag set, and `pump` may go round
  with less, for as long as splice keeps failing on an empty pipe. `RoundsFull` is stated for a splice
  that has memory, and `Quiesces` names an endless ENOMEM as the one reason not to sleep.
* A socket that dies or expires after `take_live_unlocked` has looked at it (`pool.rs:118-121`) is
  handed out all the same; a take repeats as long as its candidates have died (`TakeEnds` names
  sockets that die for ever as its exception).
* A failed `accept4` or `recvmmsg` ends the loop that empties an edge-triggered queue, and what is
  queued waits for the next arrival. `Served` and `QueuesRead` say that it is then taken.
* A pool of at most 8 sockets is emptied for the time of a sweep
  (`pool.rs:185-188` says it is not).
* `maybe_flush` resets SEND_DROPS in every turn and loses its value when there is
  no quota (`log.rs:87-96`), although the doc of `push` says the next flush will report
  (`log.rs:54-55`). `DropsAccounted` says that these counts, and no others, are lost; `flush_all` prints whatever `log_enable` and
  `log_rate_per_sec` say (`relay.toml:67` and `:64`).
* `main.rs:86-87` says a stale event is always recognised by its generation; one
  that is exactly 65536 accepts old is not. `EventsReachOwner` states the exception.
  It would take that many accepts within one batch.
* A malformed LOCAL_PORT (or another variable of a required field) ends the program in
  clap unless the command line gives the field, although `config.rs:295` would
  warn and keep the value. `Config` models both readers.
* `preconnect_ttl_ms` has no upper limit, and `base_ms * jitter_pct` or the sum in
  `jittered_ttl` wraps for values near 2^64 (a panic with overflow checks).
  `TtlWithin` is stated for what fits.
* A connect that takes longer than `idle_timeout` (possible: 65 s against 30 s)
  makes a connection that is idle at once, because its stamps are from the
  accept; likewise its half-close clock may run out during the connect, where it is not
  looked at. `SilentBound` and `HalfBound` hold with the larger of the two times.
* A UDP association whose `connect` failed swallows its client's datagrams, and each
  of them restarts its idle time.

## Proofs

All from the named assumptions on the constants (`ConnAssumption`, `TimersAssumption`,
`LoopAssumption`, `UdpAssumption`, `ConfigAssumption`, `PoolAssumption`, `LogAssumption`), which say that sizes are natural numbers,
positive where the code needs it, and that sets of threads and descriptors are
finite; TLC evaluates them in every run. `refill_batch <= pool_size` and
`pool_min_size <= pool_size` are what `Config::validate` ensures.

* `TcpConnProofs`: `IInv` strengthens the properties to an inductive invariant.
  It relates the counters (`taken = put + len`, `got <= put <= taken <= sent`), the EOF and shutdown
  flags to the streams, and, for the wake-ups, the interest mask and the ready
  list to what the loop still has to handle: while a batch is being handled a
  socket may have work without a pending event only if its handler is still to
  come. `NoLostWakeup` alone is not inductive because it speaks only of the idle
  loop. From it follow `TypeCorrect`, `NoTruncation`, `CleanClose`, `NoStall`,
  `HalfCloseExact`, and with it `Refinement`: each step of the loop is a step of
  `RelayStream` or a stutter. Three parts carry the rest. `Watching`: until the
  connect is noticed no handler has run unless the client closed, so `fd_r` is still
  level-triggered with EPOLLOUT, and the end of the handshake queues it (`NoStall`, its last
  clause). `Resting`: an open slot between two events is never one that is fully closed; with
  the interest that `Armed` gives, every bit `tcp_poll` can report then stands for bytes,
  EOF, room or an error (`NoSpin`). `Rounds`: the first splice loop ends with
  neither flag only at `splice_chunk` or on ENOMEM (`RoundsMoveChunks` from it).
* `PoolProofs`: `IInv` adds to the properties which thread may hold sockets at
  which position and that a take holds at most one batch. `SocketsBounded` holds
  because a refill orders only what `entries + pending` leaves, at a moment when
  the maintainer itself holds nothing. For `Refinement` two more facts are inductive:
  `Apart`, that a socket is in one place only (also a theorem, `OneHolder`; without it a socket
  given away might still be held), and `Marks`, that what is known of a descriptor ends with the
  socket. `good` of `SocketPool` is `won` and the candidates
  neither late nor dead, so a pop is a `Look`, a death or a discard takes away from what is known
  and `Return` is a `Give`. `InsertFills` says that an insertion leaves sockets out only when it fills the pool;
  it is why a good socket is closed for no other reason.
* `LogProofs`: `IInv` adds `printed + quota <= log_rate_per_sec`, which carries
  the rate limit through a flush. `DropsCounted` goes through the actions: a refusal moves a
  line from `lost` to the thread that will count it, the `fetch_add` to SEND_DROPS, the swap to
  `dropped` or, without quota, nowhere.

* `EventLoopProofs`: `TokensDecode` is arithmetic with the widths as parameters. The
  invariant orders connections by `(epoch, gen)`: all are older than the next one,
  no two slots hold the same, and what an event was registered for has been in
  the slot of its token, so that a younger connection there with the same
  generation means a wrap. `SlabIsExact` needs that slots at and above `len` are empty and that a
  clean-up index stays below it.
* `UdpProofs`: the tables as in the slab, with `udp_map` as a bijection between the
  clients and the slots in use; ages, where a clean-up under way separates the
  slots it has seen from those it has not; queues, where what waits is announced,
  being read, or was left by a failed call. For `Refinement` the datagrams of a client in a
  sequence are the size of a set of indices; the `Count` lemmas say what appending, taking the
  head and cutting a batch off do to it, without induction. A datagram handled is `Forward`,
  one that arrives upstream `Answer`, a round of replies `Deliver`, a slot expired `Close`;
  reading a batch only moves datagrams and is a stutter.
* `ConfigProofs`: the invariant says what the record is worth before each step, layer by
  layer; `PriorityDecides` compares it with the one-line definition of the effective
  value. `JitterWithin` needs the interval of the draw, `base - offset .. base - offset +
  range - 1`, and the bound on `offset` for up to 50 %.
* `ConnTimersProofs`: at every moment an age is at most its limit plus the time
  since the last clean-up, since that clean-up left none above the limit.

Every safety property and action property that a run checks is a theorem. Only
model-checked: all liveness (`Delivers`, `FinPassedOn`, `Quiesces`, `ConnectNoticed`, `Refills`,
`TakeEnds`, `ExpiredLeave`, `ThreadsStop`, `DropsReported`, `Served`, `ShutdownEnds`, `QueuesRead`,
`NoImmortal`), because fairness and ENABLED are out of the prover's reach. `NoSpin` and `NoStall`
are the safety side of `Quiesces` and `ConnectNoticed`: they hold for all sizes, with
half-closes, resets and ENOMEM. The violations are TLC counterexamples.

## Not modelled

* `EventLoop` and `TcpConn` are not composed into one specification: a run of several
  full connections under one loop is beyond TLC. They meet at one interface, which both
  state: an event is handled by the connection it belongs to (`EventsReachOwner`,
  `NoneSkipped`), and a handler keeps or frees its slot.
* Descriptor exhaustion in general: the failures it causes are in the accept loop, the pool
  and UDP as steps that may always happen.
* Errors of `epoll_wait` other than EINTR (the loop ends, as on SHUTDOWN), panics
  of `unwrap` at start-up, and the order in which `main` drops what it owns.
* Datagram contents, so truncation at 1500 bytes (`sock.rs:208`); addresses, so the dropped
  IPv6 scope id (`sock.rs:178`) and the branch for other address families
  (`main.rs:636`, unreachable with a socket of the two known ones).
* Socket options, address resolution and conversion, formatting of log lines and
  statistics: straight-line calls without state.
* Fairness between sockets of one batch: the accept loop runs until its queue is
  empty, and a long one delays the rest.
* The build stamp, installation scripts, service file and load tests have no state in the
  running program.
