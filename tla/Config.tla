------------------------------- MODULE Config -------------------------------
(***************************************************************************)
(* The configuration of relay-rs (config.rs and the head of main): the     *)
(* command line, the environment, the file and the defaults are merged     *)
(* into one record, which validate accepts, perhaps corrected, or refuses; *)
(* and the time-to-live that pool.rs draws from it for each socket.        *)
(*                                                                         *)
(* Every value is a number: 0 is also the empty string and false.  What a  *)
(* field's type cannot hold, a word or a number out of range, is a value   *)
(* that does not parse.                                                    *)
(***************************************************************************)
EXTENDS Integers

CONSTANTS
  U64,     \* 2^64: the values of u64 and usize
  I32,     \* 2^31: those of i32
  Inputs,  \* what the sources may say
  Rng      \* random numbers next_rng may return

Ips   == {"local_ip", "remote_ip"}
Ports == {"local_port", "remote_tcp_port", "remote_udp_port"}
Required == Ips \cup Ports
Unsigned == {"pool_size", "refill_batch", "connect_timeout", "idle_timeout",
             "half_close_timeout", "preconnect_ttl_ms", "pool_min_size", "splice_chunk",
             "splice_pipe_size", "udp_idle_timeout", "udp_socket_buffer", "udp_batch_size",
             "log_rate_per_sec"}
Signed == {"listen_backlog", "tcp_keepidle", "tcp_keepintvl", "tcp_keepcnt",
           "tcp_user_timeout_ms"}
Fields == Required \cup Unsigned \cup Signed \cup {"ttl_jitter_pct", "log_enable"}

U8  == 0 .. 255
U16 == 0 .. 65535
\* The types; for a string any number will do.
Parses(f, v) ==
  \/ f \in Ips /\ v \in Nat
  \/ f \in Ports /\ v \in U16
  \/ f \in Unsigned /\ v \in 0 .. U64 - 1
  \/ f \in Signed /\ v \in -I32 .. I32 - 1
  \/ f = "ttl_jitter_pct" /\ v \in U8
  \/ f = "log_enable" /\ v \in {0, 1}
\* The integers of a TOML file are signed.
ParsesInFile(f, v) == Parses(f, v) /\ v < U64 \div 2

Default ==
  [local_ip |-> 0, local_port |-> 0, remote_ip |-> 0, remote_tcp_port |-> 0,
   remote_udp_port |-> 0, pool_size |-> 32, refill_batch |-> 8, connect_timeout |-> 5,
   idle_timeout |-> 180, half_close_timeout |-> 6, preconnect_ttl_ms |-> 60000,
   pool_min_size |-> 0, ttl_jitter_pct |-> 25, splice_chunk |-> 131072,
   splice_pipe_size |-> 1048576, udp_idle_timeout |-> 60, udp_socket_buffer |-> 4194304,
   udp_batch_size |-> 64, listen_backlog |-> 16384, log_rate_per_sec |-> 24,
   log_enable |-> 1, tcp_keepidle |-> 45, tcp_keepintvl |-> 10, tcp_keepcnt |-> 2,
   tcp_user_timeout_ms |-> 0]

\* args, env and file give values to some fields, the command line only to the
\* required ones; `readable`: the file can be read and is TOML.  No file is an
\* empty one.
ASSUME ConfigAssumption ==
  /\ U64 \in Nat /\ \A f \in Unsigned : Default[f] < U64
  /\ I32 \in Nat /\ \A f \in Signed : Default[f] < I32
  /\ Rng \subseteq Nat
  /\ \A in \in Inputs :
       /\ DOMAIN in.args \subseteq Required /\ DOMAIN in.env \subseteq Fields
       /\ DOMAIN in.file \subseteq Fields /\ in.readable \in BOOLEAN

VARIABLES
  in,    \* the sources
  pc,    \* where main is
  cli,   \* struct Cli: what clap made of the command line
  cfg,   \* the record being made
  ttl    \* time-to-live of the last socket put into the pool
vars == <<in, pc, cli, cfg, ttl>>

Unset == [f \in {} |-> 0]

TypeOK ==
  /\ in \in Inputs /\ ttl \in 0 .. U64 - 1
  /\ pc \in {"parse", "load", "env", "args", "validate", "running", "exit"}
  /\ DOMAIN cli \subseteq Required /\ \A f \in DOMAIN cli : Parses(f, cli[f])
  /\ DOMAIN cfg = Fields /\ \A f \in Fields : Parses(f, cfg[f])

Init ==
  /\ in \in Inputs /\ pc = "parse"
  /\ cli = Unset /\ cfg = Default /\ ttl = 0

Exit == pc' = "exit" /\ UNCHANGED <<in, cli, cfg, ttl>>

-----------------------------------------------------------------------------
(***************************************************************************)
(* The sources, each on top of those before.                               *)
(***************************************************************************)
\* Cli::parse.  clap too looks into the environment for what is not on the
\* command line, and ends the program if it cannot parse what it finds.
OnCli == DOMAIN in.args \cup (DOMAIN in.env \cap Required)
Asked(f) == IF f \in DOMAIN in.args THEN in.args[f] ELSE in.env[f]
Parse ==
  /\ pc = "parse"
  /\ \/ /\ \A f \in OnCli : Parses(f, Asked(f))
        /\ cli' = [f \in OnCli |-> Asked(f)]
        /\ pc' = "load" /\ UNCHANGED <<in, cfg, ttl>>
     \/ /\ \E f \in OnCli : ~Parses(f, Asked(f))
        /\ Exit

\* Config::from_file or Config::default.
Load ==
  /\ pc = "load"
  /\ \/ /\ in.readable /\ \A f \in DOMAIN in.file : ParsesInFile(f, in.file[f])
        /\ cfg' = [f \in Fields |-> IF f \in DOMAIN in.file THEN in.file[f] ELSE Default[f]]
        /\ pc' = "env" /\ UNCHANGED <<in, cli, ttl>>
     \/ /\ ~in.readable \/ \E f \in DOMAIN in.file : ~ParsesInFile(f, in.file[f])
        /\ Exit

\* apply_env_overrides: a value that does not parse is passed over.
ApplyEnvOrDefault ==
  /\ pc = "env" /\ pc' = "args"
  /\ cfg' = [f \in Fields |-> IF f \in DOMAIN in.env
                              THEN IF Parses(f, in.env[f]) THEN in.env[f] ELSE Default[f]
                              ELSE cfg[f]]
  /\ UNCHANGED <<in, cli, ttl>>
ApplyEnv ==
  /\ pc = "env" /\ pc' = "args"
  /\ cfg' = [f \in Fields |-> IF f \in DOMAIN in.env /\ Parses(f, in.env[f])
                              THEN in.env[f] ELSE cfg[f]]
  /\ UNCHANGED <<in, cli, ttl>>

ApplyCli ==
  /\ pc = "args" /\ pc' = "validate"
  /\ cfg' = [f \in Fields |-> IF f \in DOMAIN cli THEN cli[f] ELSE cfg[f]]
  /\ UNCHANGED <<in, cli, ttl>>

-----------------------------------------------------------------------------
(***************************************************************************)
(* validate.                                                               *)
(***************************************************************************)
Low ==
  [splice_chunk |-> 16384, splice_pipe_size |-> 4096, udp_batch_size |-> 1,
   connect_timeout |-> 1, idle_timeout |-> 30, half_close_timeout |-> 1,
   preconnect_ttl_ms |-> 10000, tcp_keepidle |-> 10, tcp_keepintvl |-> 1, tcp_keepcnt |-> 1]
High ==
  [pool_size |-> 256, splice_chunk |-> 1048576, splice_pipe_size |-> 1048576,
   udp_batch_size |-> 128, ttl_jitter_pct |-> 50, connect_timeout |-> 65,
   tcp_keepidle |-> 86400, tcp_keepintvl |-> 3600, tcp_keepcnt |-> 30]
Valid(c) ==
  /\ \A f \in Required : c[f] # 0
  /\ \A f \in DOMAIN Low : c[f] >= Low[f]
  /\ \A f \in DOMAIN High : c[f] <= High[f]
  /\ c.pool_min_size <= c.pool_size

\* refill_batch is corrected: never 0, and within the pool if there is one.
AtLeastOne(n) == IF n = 0 THEN 1 ELSE n
RefillWithin(c) ==
  IF AtLeastOne(c.refill_batch) > c.pool_size THEN c.pool_size ELSE AtLeastOne(c.refill_batch)
Refill(c) ==
  IF c.pool_size > 0 /\ AtLeastOne(c.refill_batch) > c.pool_size
  THEN c.pool_size ELSE AtLeastOne(c.refill_batch)
Clamp(c) == [f \in Fields |-> IF f = "refill_batch" THEN Refill(c) ELSE c[f]]

Validate ==
  /\ pc = "validate"
  /\ \/ Valid(cfg) /\ cfg' = Clamp(cfg) /\ pc' = "running" /\ UNCHANGED <<in, cli, ttl>>
     \/ ~Valid(cfg) /\ Exit

-----------------------------------------------------------------------------
(***************************************************************************)
(* Pool::put draws a time-to-live around preconnect_ttl_ms, in u64.        *)
(***************************************************************************)
jittered_ttl_wide(base_ms, jitter_pct, random) ==
  LET range  == ((base_ms * jitter_pct) % U64) \div 50 + 1
      offset == jitter_pct
      low    == IF base_ms >= offset THEN base_ms - offset ELSE 0
  IN  (low + (random % range)) % U64
jittered_ttl(base_ms, jitter_pct, random) ==
  LET range  == ((base_ms * jitter_pct) % U64) \div 50 + 1
      offset == range \div 2
      low    == IF base_ms >= offset THEN base_ms - offset ELSE 0
  IN  (low + (random % range)) % U64

Put ==
  /\ pc = "running" /\ cfg.pool_size > 0
  /\ \E random \in Rng :
       ttl' = jittered_ttl(cfg.preconnect_ttl_ms, cfg.ttl_jitter_pct, random)
  /\ UNCHANGED <<in, pc, cli, cfg>>

Next == Parse \/ Load \/ ApplyEnv \/ ApplyCli \/ Validate \/ Put
Spec == Init /\ [][Next]_vars

-----------------------------------------------------------------------------
(***************************************************************************)
(* Safety.                                                                 *)
(***************************************************************************)
\* What each source is worth, all at once: the command line, then a usable value
\* of the environment, then the file, then the default.
Effective ==
  [f \in Fields |->
     IF f \in DOMAIN in.args THEN in.args[f]
     ELSE IF f \in DOMAIN in.env /\ Parses(f, in.env[f]) THEN in.env[f]
     ELSE IF f \in DOMAIN in.file THEN in.file[f]
     ELSE Default[f]]

\* Nothing that is looked at strictly is malformed: the arguments, the file, and
\* the variables of required fields that the command line does not give.
Legible ==
  /\ \A f \in DOMAIN in.args : Parses(f, in.args[f])
  /\ in.readable /\ \A f \in DOMAIN in.file : ParsesInFile(f, in.file[f])
  /\ \A f \in (DOMAIN in.env \cap Required) \ DOMAIN in.args : Parses(f, in.env[f])

\* The program runs with the values of highest priority if they are valid, and
\* else does not run: a bad value of lower priority neither stops it nor shows.
EffectiveDecides ==
  /\ pc = "running" => Legible /\ Valid(Effective) /\ cfg = Clamp(Effective)
  /\ pc = "exit" => ~(Legible /\ Valid(Effective))

\* The other modules' assumptions on their constants hold of every accepted
\* record: the pool has a worker, never more than it has sockets, and a minimum
\* it can reach; the pump has room; a UDP batch fits the arrays of recvmmsg.
ComponentsFit == pc = "running" =>
  /\ cfg.refill_batch >= 1 /\ cfg.pool_min_size \in 0 .. cfg.pool_size
  /\ cfg.pool_size > 0 => cfg.refill_batch <= cfg.pool_size
  /\ cfg.splice_chunk >= 1 /\ cfg.splice_pipe_size >= 1 /\ cfg.udp_batch_size \in 1 .. 128

\* No time-to-live is further from preconnect_ttl_ms than ttl_jitter_pct percent,
\* if the sums stay within u64 (validate does not see to that).
Fits(base_ms, jitter_pct) ==
  base_ms * jitter_pct < U64 /\ 100 * base_ms + base_ms * jitter_pct < 100 * U64
TtlWithin ==
  LET base == cfg.preconnect_ttl_ms
      room == base * cfg.ttl_jitter_pct
  IN  pc = "running" /\ ttl # 0 /\ Fits(base, cfg.ttl_jitter_pct)
        => 100 * ttl <= 100 * base + room /\ 100 * ttl >= 100 * base - room - 100
=============================================================================
