---------------------------- MODULE ConfigProofs ----------------------------
(***************************************************************************)
(* Proofs about Config for any inputs, any width of the integers and any   *)
(* random numbers: the merged record is the one of highest priority, what  *)
(* validate accepts fits the other components, and the jitter of a         *)
(* time-to-live keeps to its percentage.                                   *)
(***************************************************************************)
EXTENDS Config, TLAPS

-----------------------------------------------------------------------------
(***************************************************************************)
(* The inductive invariant: what is known at each place of main.           *)
(***************************************************************************)
Typed(c) == DOMAIN c = Fields /\ \A f \in Fields : Parses(f, c[f])
FileOk == in.readable /\ \A f \in DOMAIN in.file : ParsesInFile(f, in.file[f])
CliOk  == \A f \in OnCli : Parses(f, Asked(f))
AfterFile == [f \in Fields |-> IF f \in DOMAIN in.file THEN in.file[f] ELSE Default[f]]
AfterEnv ==
  [f \in Fields |-> IF f \in DOMAIN in.env /\ Parses(f, in.env[f])
                    THEN in.env[f] ELSE AfterFile[f]]
Accepted == CliOk /\ FileOk /\ Valid(Effective)

Stage ==
  /\ pc \in {"load", "env", "args", "validate"} => CliOk /\ cli = [f \in OnCli |-> Asked(f)]
  /\ pc \in {"env", "args", "validate"} => FileOk
  /\ pc = "env" => cfg = AfterFile
  /\ pc = "args" => cfg = AfterEnv
  /\ pc = "validate" => cfg = Effective
  /\ pc = "running" => Accepted /\ cfg = Clamp(Effective)
  /\ pc = "exit" => ~Accepted

Drawn ==
  ttl = 0 \/ \E random \in Rng :
               ttl = jittered_ttl(cfg.preconnect_ttl_ms, cfg.ttl_jitter_pct, random)
DrawnInv == pc # "running" => ttl = 0

IInv == TypeOK /\ Stage /\ Drawn /\ DrawnInv

-----------------------------------------------------------------------------
(***************************************************************************)
(* The sources.                                                            *)
(***************************************************************************)
LEMMA U64Facts ==
  /\ U64 \in Nat /\ \A f \in Unsigned : Default[f] < U64
  /\ I32 \in Nat /\ \A f \in Signed : Default[f] < I32
BY ConfigAssumption

LEMMA DefaultTyped == Typed(Default)
<1>1. DOMAIN Default = Fields
  BY SMT DEF Default, Fields, Required, Ips, Ports, Unsigned, Signed
<1>2. \A f \in Ips : Default[f] = 0
  BY SMT DEF Default, Ips
<1>3. \A f \in Ports : Default[f] = 0
  BY SMT DEF Default, Ports
<1>4. \A f \in Unsigned : Default[f] \in Nat
  <2>1. /\ Default["pool_size"] = 32 /\ Default["refill_batch"] = 8
        /\ Default["connect_timeout"] = 5 /\ Default["idle_timeout"] = 180
        /\ Default["half_close_timeout"] = 6 /\ Default["preconnect_ttl_ms"] = 60000
        /\ Default["pool_min_size"] = 0
    BY SMT DEF Default
  <2>2. /\ Default["splice_chunk"] = 131072 /\ Default["splice_pipe_size"] = 1048576
        /\ Default["udp_idle_timeout"] = 60 /\ Default["udp_socket_buffer"] = 4194304
        /\ Default["udp_batch_size"] = 64 /\ Default["log_rate_per_sec"] = 24
    BY SMT DEF Default
  <2>3. QED
    BY <2>1, <2>2, SMT DEF Unsigned
<1>5. \A f \in Signed : Default[f] \in Nat
  <2>1. /\ Default["listen_backlog"] = 16384 /\ Default["tcp_keepidle"] = 45
        /\ Default["tcp_keepintvl"] = 10 /\ Default["tcp_keepcnt"] = 2
        /\ Default["tcp_user_timeout_ms"] = 0
    BY SMT DEF Default
  <2>2. QED
    BY <2>1, SMT DEF Signed
<1>6. Default["ttl_jitter_pct"] = 25 /\ Default["log_enable"] = 1
  BY SMT DEF Default
<1>7. \A f \in Unsigned : Default[f] \in 0 .. U64 - 1
  BY <1>4, U64Facts
<1>8. \A f \in Signed : Default[f] \in -I32 .. I32 - 1
  BY <1>5, U64Facts
<1>9. ASSUME NEW f \in Fields PROVE Parses(f, Default[f])
  <2>1. CASE f \in Ips \/ f \in Ports
    <3>1. Default[f] = 0 /\ 0 \in Nat /\ 0 \in U16
      BY <1>2, <1>3, <2>1, SMT DEF U16
    <3>2. QED
      BY <2>1, <3>1 DEF Parses
  <2>2. CASE f \in Unsigned
    BY <1>7, <2>2 DEF Parses
  <2>3. CASE f \in Signed
    BY <1>8, <2>3 DEF Parses
  <2>4. CASE f = "ttl_jitter_pct" \/ f = "log_enable"
    BY <1>6, <2>4 DEF Parses, U8
  <2>5. QED
    BY <2>1, <2>2, <2>3, <2>4 DEF Fields, Required
<1>10. QED
  BY <1>1, <1>9 DEF Typed

\* The arguments and the strictly read variables parse, and the file: that is
\* what Legible says.
LEMMA AcceptedMeans ==
  ASSUME in \in Inputs
  PROVE  Accepted <=> Legible /\ Valid(Effective)
<1>1. DOMAIN in.args \subseteq Required
  BY ConfigAssumption
<1>2. CliOk <=> /\ \A f \in DOMAIN in.args : Parses(f, in.args[f])
                /\ \A f \in (DOMAIN in.env \cap Required) \ DOMAIN in.args : Parses(f, in.env[f])
  BY DEF CliOk, OnCli, Asked
<1>3. QED
  BY <1>2 DEF Accepted, Legible, FileOk

\* The record after the three layers is the one of highest priority.
LEMMA LayersAreEffective ==
  ASSUME in \in Inputs, CliOk
  PROVE  Effective = [f \in Fields |-> IF f \in OnCli THEN Asked(f) ELSE AfterEnv[f]]
<1>1. DOMAIN in.args \subseteq Required /\ Required \subseteq Fields
  BY ConfigAssumption DEF Fields
<1>2. ASSUME NEW f \in Fields
      PROVE  (IF f \in OnCli THEN Asked(f) ELSE AfterEnv[f])
               = IF f \in DOMAIN in.args THEN in.args[f]
                 ELSE IF f \in DOMAIN in.env /\ Parses(f, in.env[f]) THEN in.env[f]
                 ELSE IF f \in DOMAIN in.file THEN in.file[f] ELSE Default[f]
  BY <1>2 DEF OnCli, Asked, AfterEnv, AfterFile, CliOk
<1>3. QED
  BY <1>2, Zenon DEF Effective

LEMMA EffectiveTyped ==
  ASSUME in \in Inputs, CliOk, FileOk
  PROVE  Typed(AfterFile) /\ Typed(AfterEnv) /\ Typed(Effective)
<1>1. Typed(AfterFile)
  BY DefaultTyped DEF Typed, AfterFile, FileOk, ParsesInFile
<1>2. Typed(AfterEnv)
  BY <1>1 DEF Typed, AfterEnv
<1>3. Typed(Effective)
  BY <1>2, LayersAreEffective DEF Typed, CliOk
<1>4. QED
  BY <1>1, <1>2, <1>3

-----------------------------------------------------------------------------
(***************************************************************************)
(* validate.                                                               *)
(***************************************************************************)
\* Facts about a typed record, field by field.
LEMMA TypedFields ==
  ASSUME NEW c, Typed(c)
  PROVE  /\ c.pool_size \in 0 .. U64 - 1 /\ c.refill_batch \in 0 .. U64 - 1
         /\ c.pool_min_size \in 0 .. U64 - 1 /\ c.preconnect_ttl_ms \in 0 .. U64 - 1
         /\ c.splice_chunk \in 0 .. U64 - 1 /\ c.splice_pipe_size \in 0 .. U64 - 1
         /\ c.udp_batch_size \in 0 .. U64 - 1 /\ c.ttl_jitter_pct \in 0 .. 255
<1>1. ASSUME NEW f \in {"pool_size", "refill_batch", "pool_min_size", "preconnect_ttl_ms",
                        "splice_chunk", "splice_pipe_size", "udp_batch_size"}
      PROVE  c[f] \in 0 .. U64 - 1
  <2>1. f \in Fields /\ Parses(f, c[f])
    BY <1>1 DEF Typed, Fields, Unsigned
  <2>2. f \notin Ips /\ f \notin Ports /\ f \notin Signed /\ f # "ttl_jitter_pct"
        /\ f # "log_enable"
    BY <1>1 DEF Ips, Ports, Signed
  <2>3. QED
    BY <2>1, <2>2, U64Facts DEF Parses
<1>2. c["ttl_jitter_pct"] \in 0 .. 255
  <2>1. Parses("ttl_jitter_pct", c["ttl_jitter_pct"])
    BY DEF Typed, Fields
  <2>2. QED
    BY <2>1 DEF Parses, U8, Ips, Ports, Unsigned, Signed
<1>3. QED
  BY <1>1, <1>2

\* The correction of refill_batch keeps every type and every other field.
LEMMA ClampFacts ==
  ASSUME NEW c, Typed(c)
  PROVE  /\ Typed(Clamp(c))
         /\ \A f \in Fields \ {"refill_batch"} : Clamp(c)[f] = c[f]
         /\ Clamp(c).refill_batch >= 1
         /\ c.pool_size > 0 => Clamp(c).refill_batch <= c.pool_size
<1>0. U64 \in Nat /\ U64 > 1 /\ c.pool_size \in 0 .. U64 - 1 /\ c.refill_batch \in 0 .. U64 - 1
  <2>1. Default["pool_size"] = 32 /\ "pool_size" \in Unsigned
    BY SMT DEF Default, Unsigned
  <2>2. QED
    BY <2>1, TypedFields, U64Facts
<1>1. /\ Refill(c) \in 0 .. U64 - 1 /\ Refill(c) >= 1
      /\ c.pool_size > 0 => Refill(c) <= c.pool_size
  BY <1>0 DEF AtLeastOne, Refill
<1>2. "refill_batch" \in Fields /\ "refill_batch" \in Unsigned
  BY DEF Fields, Unsigned
<1>3. Clamp(c)["refill_batch"] = Refill(c) /\ DOMAIN Clamp(c) = Fields
      /\ \A f \in Fields \ {"refill_batch"} : Clamp(c)[f] = c[f]
  BY <1>2 DEF Clamp
<1>4. Parses("refill_batch", Refill(c))
  BY <1>1, <1>2 DEF Parses
<1>5. Typed(Clamp(c))
  BY <1>3, <1>4 DEF Typed
<1>6. QED
  BY <1>1, <1>3, <1>5

-----------------------------------------------------------------------------
(***************************************************************************)
(* The time-to-live.                                                       *)
(***************************************************************************)
\* With room = base * jitter_pct at most 50 * base and no overflow, the offset
\* is at most base and the draw is within room percent of it.
LEMMA JitterArithmetic ==
  ASSUME NEW base \in Nat, NEW room \in Nat, NEW random \in Nat, NEW W \in Nat,
         base > 0, room <= 50 * base, 100 * base + room < 100 * W,
         NEW range, range = room \div 50 + 1,
         NEW offset, offset = range \div 2
  PROVE  /\ base >= offset
         /\ base - offset + (random % range) \in 0 .. W - 1
         /\ 100 * (base - offset + (random % range)) <= 100 * base + room
         /\ 100 * (base - offset + (random % range)) >= 100 * base - room - 100
<1> DEFINE d == random % range
<1>1. room \div 50 \in Nat /\ 50 * (room \div 50) <= room /\ range \in Nat /\ range >= 1
  BY Z3
<1>2. offset \in Nat /\ 2 * offset <= range /\ range <= 2 * offset + 1
  BY <1>1, Z3
<1>3. d \in Nat /\ d < range
  BY <1>1, Z3
<1> HIDE DEF d
<1>4. 50 * range <= room + 50
  BY <1>1
<1>5. base >= offset
  BY <1>1, <1>2, <1>4
<1>6. 100 * offset <= room + 50
  BY <1>1, <1>2, <1>4
<1>7. 100 * (base - offset + d) <= 100 * base + room
  <2>1. 2 * d <= 2 * range - 2 /\ 2 * range - 2 - 2 * offset <= range - 1
    BY <1>1, <1>2, <1>3
  <2>2. 100 * (d - offset) <= 50 * (range - 1)
    BY <1>1, <1>2, <1>3, <2>1
  <2>3. QED
    BY <1>1, <1>2, <1>3, <1>4, <2>2
<1>8. 100 * (base - offset + d) >= 100 * base - room - 100
  BY <1>2, <1>3, <1>6
<1>9. base - offset + d \in 0 .. W - 1
  <2>1. 100 * (base - offset + d) < 100 * W
    BY <1>1, <1>2, <1>3, <1>7
  <2>2. base - offset + d < W
    BY <1>1, <1>2, <1>3, <2>1
  <2>3. QED
    BY <1>2, <1>3, <1>5, <2>2
<1>10. QED
  BY <1>5, <1>7, <1>8, <1>9 DEF d

\* base * jitter_pct is at most 50 * base.
LEMMA RoomBound ==
  ASSUME NEW base \in Nat, NEW pct \in 0 .. 50
  PROVE  base * pct \in Nat /\ base * pct <= 50 * base
BY Z3

-----------------------------------------------------------------------------
(***************************************************************************)
(* The steps.                                                              *)
(***************************************************************************)
LEMMA SameInputs ==
  ASSUME in' = in
  PROVE  /\ Effective' = Effective /\ AfterFile' = AfterFile /\ AfterEnv' = AfterEnv
         /\ (Legible' <=> Legible) /\ (CliOk' <=> CliOk) /\ (FileOk' <=> FileOk)
         /\ OnCli' = OnCli /\ \A f : Asked(f)' = Asked(f)
BY DEF Effective, AfterFile, AfterEnv, Legible, CliOk, FileOk, OnCli, Asked

LEMMA SameAccepted == ASSUME in' = in PROVE Accepted' <=> Accepted
BY SameInputs DEF Accepted

LEMMA InitIInv == Init => IInv
<1> SUFFICES ASSUME Init PROVE IInv
  OBVIOUS
<1>1. 0 \in 0 .. U64 - 1
  <2>1. Default["pool_size"] = 32 /\ "pool_size" \in Unsigned
    BY SMT DEF Default, Unsigned
  <2>2. QED
    BY <2>1, U64Facts
<1>2. TypeOK
  BY <1>1, DefaultTyped DEF Init, TypeOK, Typed, Unset
<1>3. QED
  BY <1>2 DEF Init, IInv, Stage, Drawn, DrawnInv

LEMMA ParseKeeps == ASSUME IInv, Parse PROVE IInv'
<1>1. in \in Inputs /\ in' = in /\ ttl' = ttl /\ cfg' = cfg /\ pc = "parse" /\ ttl = 0
  BY DEF IInv, TypeOK, Parse, Exit, DrawnInv
<1>2. DOMAIN in.args \subseteq Required
  BY <1>1, ConfigAssumption
<1>3. CASE CliOk /\ cli' = [f \in OnCli |-> Asked(f)] /\ pc' = "load"
  <2>1. TypeOK'
    BY <1>1, <1>2, <1>3 DEF IInv, TypeOK, CliOk, OnCli
  <2>2. Stage'
    BY <1>1, <1>3, SameInputs DEF Stage
  <2>3. QED
    BY <1>1, <2>1, <2>2 DEF IInv, Drawn, DrawnInv
<1>4. CASE ~CliOk /\ Exit
  <2>1. TypeOK'
    BY <1>1, <1>4 DEF IInv, TypeOK, Exit
  <2>2. Stage'
    BY <1>1, <1>4, SameAccepted DEF Stage, Exit, Accepted
  <2>3. QED
    BY <1>1, <2>1, <2>2 DEF IInv, Drawn, DrawnInv
<1>5. QED
  BY <1>3, <1>4 DEF Parse, CliOk

LEMMA LoadKeeps == ASSUME IInv, Load PROVE IInv'
<1>1. /\ in \in Inputs /\ in' = in /\ ttl' = ttl /\ cli' = cli /\ pc = "load" /\ ttl = 0
      /\ CliOk /\ cli = [f \in OnCli |-> Asked(f)]
  BY DEF IInv, TypeOK, Load, Exit, DrawnInv, Stage
<1>2. CASE FileOk /\ cfg' = AfterFile /\ pc' = "env"
  <2>1. TypeOK'
    BY <1>1, <1>2, EffectiveTyped DEF IInv, TypeOK, Typed
  <2>2. Stage'
    BY <1>1, <1>2, SameInputs DEF Stage
  <2>3. QED
    BY <1>1, <1>2, <2>1, <2>2 DEF IInv, Drawn, DrawnInv
<1>3. CASE ~FileOk /\ Exit
  <2>1. TypeOK'
    BY <1>1, <1>3 DEF IInv, TypeOK, Exit
  <2>2. Stage'
    BY <1>1, <1>3, SameAccepted DEF Stage, Exit, Accepted
  <2>3. QED
    BY <1>1, <2>1, <2>2 DEF IInv, Drawn, DrawnInv
<1>4. QED
  BY <1>2, <1>3 DEF Load, FileOk, AfterFile

LEMMA ApplyEnvKeeps == ASSUME IInv, ApplyEnv PROVE IInv'
<1>1. /\ in \in Inputs /\ in' = in /\ ttl' = ttl /\ cli' = cli /\ pc = "env" /\ pc' = "args"
      /\ ttl = 0 /\ CliOk /\ cli = [f \in OnCli |-> Asked(f)] /\ FileOk /\ cfg = AfterFile
  BY DEF IInv, TypeOK, ApplyEnv, DrawnInv, Stage
<1>2. cfg' = AfterEnv
  BY <1>1 DEF ApplyEnv, AfterEnv
<1>3. TypeOK'
  BY <1>1, <1>2, EffectiveTyped DEF IInv, TypeOK, Typed
<1>4. Stage'
  BY <1>1, <1>2, SameInputs DEF Stage
<1>5. QED
  BY <1>1, <1>3, <1>4 DEF IInv, Drawn, DrawnInv

LEMMA ApplyCliKeeps == ASSUME IInv, ApplyCli PROVE IInv'
<1>1. /\ in \in Inputs /\ in' = in /\ ttl' = ttl /\ cli' = cli /\ pc = "args" /\ pc' = "validate"
      /\ ttl = 0 /\ CliOk /\ cli = [f \in OnCli |-> Asked(f)] /\ FileOk /\ cfg = AfterEnv
  BY DEF IInv, TypeOK, ApplyCli, DrawnInv, Stage
<1>2. cfg' = [f \in Fields |-> IF f \in OnCli THEN Asked(f) ELSE AfterEnv[f]]
  BY <1>1 DEF ApplyCli
<1>3. cfg' = Effective
  BY <1>1, <1>2, LayersAreEffective
<1>4. TypeOK'
  BY <1>1, <1>3, EffectiveTyped DEF IInv, TypeOK, Typed
<1>5. Stage'
  BY <1>1, <1>3, SameInputs DEF Stage
<1>6. QED
  BY <1>1, <1>4, <1>5 DEF IInv, Drawn, DrawnInv

LEMMA ValidateKeeps == ASSUME IInv, Validate PROVE IInv'
<1>1. /\ in \in Inputs /\ in' = in /\ ttl' = ttl /\ cli' = cli /\ pc = "validate"
      /\ ttl = 0 /\ CliOk /\ FileOk /\ cfg = Effective
  BY DEF IInv, TypeOK, Validate, Exit, DrawnInv, Stage
<1>2. CASE Valid(cfg) /\ cfg' = Clamp(cfg) /\ pc' = "running"
  <2>1. Typed(cfg')
    BY <1>1, <1>2, EffectiveTyped, ClampFacts
  <2>2. TypeOK'
    BY <1>1, <1>2, <2>1 DEF IInv, TypeOK, Typed
  <2>3. Accepted' /\ cfg' = Clamp(Effective')
    BY <1>1, <1>2, SameInputs, SameAccepted DEF Accepted
  <2>4. Clamp(Effective') = Clamp(Effective)'
    BY DEF Clamp, Refill, AtLeastOne
  <2>5. Stage'
    BY <1>2, <2>3, <2>4 DEF Stage
  <2>6. QED
    BY <1>1, <1>2, <2>2, <2>5 DEF IInv, Drawn, DrawnInv
<1>3. CASE ~Valid(cfg) /\ Exit
  <2>1. TypeOK'
    BY <1>1, <1>3 DEF IInv, TypeOK, Exit
  <2>2. Stage'
    BY <1>1, <1>3, SameAccepted DEF Stage, Exit, Accepted
  <2>3. QED
    BY <1>1, <2>1, <2>2 DEF IInv, Drawn, DrawnInv
<1>4. QED
  BY <1>2, <1>3 DEF Validate

LEMMA PutKeeps == ASSUME IInv, Put PROVE IInv'
<1>1. in' = in /\ cli' = cli /\ cfg' = cfg /\ pc = "running" /\ pc' = "running"
  BY DEF Put
<1>2. PICK random \in Rng :
        ttl' = jittered_ttl(cfg.preconnect_ttl_ms, cfg.ttl_jitter_pct, random)
  BY DEF Put
<1>3. ttl' \in 0 .. U64 - 1
  <2> DEFINE draw(range) == random % range
             low(range) == IF cfg.preconnect_ttl_ms >= range \div 2
                           THEN cfg.preconnect_ttl_ms - range \div 2 ELSE 0
             range0 == ((cfg.preconnect_ttl_ms * cfg.ttl_jitter_pct) % U64) \div 50 + 1
  <2>1. /\ U64 \in Nat /\ U64 > 0 /\ random \in Nat
        /\ cfg.preconnect_ttl_ms \in 0 .. U64 - 1 /\ cfg.ttl_jitter_pct \in 0 .. 255
    <3>1. Typed(cfg)
      BY DEF IInv, TypeOK, Typed
    <3>2. QED
      BY <3>1, TypedFields, U64Facts, ConfigAssumption
  <2>2. cfg.preconnect_ttl_ms * cfg.ttl_jitter_pct \in Nat
    BY <2>1, Z3
  <2>3. (cfg.preconnect_ttl_ms * cfg.ttl_jitter_pct) % U64 \in Nat
    BY <2>1, <2>2, Z3
  <2>4. range0 \in Nat /\ range0 > 0
    BY <2>3, Z3
  <2>5. ttl' = (low(range0) + draw(range0)) % U64
    BY <1>2 DEF jittered_ttl
  <2> HIDE DEF range0
  <2>6. draw(range0) \in Nat /\ range0 \div 2 \in Nat
    BY <2>1, <2>4, Z3
  <2>7. low(range0) \in Nat
    BY <2>1, <2>6
  <2> HIDE DEF draw, low
  <2>8. QED
    BY <2>1, <2>5, <2>6, <2>7, Z3
<1>4. TypeOK'
  BY <1>1, <1>3 DEF IInv, TypeOK
<1>5. Stage'
  <2>1. Clamp(Effective') = Clamp(Effective)' /\ Effective' = Effective
    BY <1>1, SameInputs DEF Clamp, Refill, AtLeastOne
  <2>2. QED
    BY <1>1, <2>1, SameAccepted DEF IInv, Stage
<1>6. Drawn' /\ DrawnInv'
  BY <1>1, <1>2 DEF Drawn, DrawnInv, jittered_ttl
<1>7. QED
  BY <1>4, <1>5, <1>6 DEF IInv

LEMMA StutterKeeps == ASSUME IInv, UNCHANGED vars PROVE IInv'
<1>1. in' = in /\ cli' = cli /\ cfg' = cfg /\ pc' = pc /\ ttl' = ttl
  BY DEF vars
<1>2. Clamp(Effective)' = Clamp(Effective)
  BY <1>1, SameInputs DEF Clamp, Refill, AtLeastOne
<1>3. Stage'
  BY <1>1, <1>2, SameInputs, SameAccepted DEF IInv, Stage
<1>4. QED
  BY <1>1, <1>3 DEF IInv, TypeOK, Drawn, DrawnInv, jittered_ttl

LEMMA NextKeeps == IInv /\ [Next]_vars => IInv'
BY ParseKeeps, LoadKeeps, ApplyEnvKeeps, ApplyCliKeeps, ValidateKeeps, PutKeeps, StutterKeeps
   DEF Next

-----------------------------------------------------------------------------
(***************************************************************************)
(* The results.                                                            *)
(***************************************************************************)
\* The invariant holds of every state of main up to its loop, and after.
THEOREM Invariance == Spec => []IInv
BY InitIInv, NextKeeps, PTL DEF Spec

\* Whatever the sources say, each field holds a value of its type.
THEOREM TypeCorrect == Spec => []TypeOK
<1>1. IInv => TypeOK
  BY DEF IInv
<1>2. QED
  BY <1>1, Invariance, PTL

\* The order of the layers in main, with clap's own look into the environment,
\* amounts to the priority the documentation states, and only it decides
\* whether the program starts.
THEOREM PriorityDecides == Spec => []EffectiveDecides
<1>1. IInv => EffectiveDecides
  BY AcceptedMeans DEF IInv, TypeOK, Stage, EffectiveDecides
<1>2. QED
  BY <1>1, Invariance, PTL

\* What validate lets through meets the assumptions of Pool, TcpConn and Udp.
THEOREM AcceptedFits == Spec => []ComponentsFit
<1>1. ASSUME IInv, pc = "running"
      PROVE  /\ cfg.refill_batch >= 1 /\ cfg.pool_min_size \in 0 .. cfg.pool_size
             /\ cfg.pool_size > 0 => cfg.refill_batch <= cfg.pool_size
             /\ cfg.splice_chunk >= 1 /\ cfg.splice_pipe_size >= 1
             /\ cfg.udp_batch_size \in 1 .. 128
  <2>1. Valid(Effective) /\ cfg = Clamp(Effective) /\ Typed(Effective)
    BY <1>1, EffectiveTyped DEF IInv, TypeOK, Stage, Accepted
  <2>2. \A f \in Fields \ {"refill_batch"} : cfg[f] = Effective[f]
    BY <2>1, ClampFacts
  <2>3. cfg.refill_batch >= 1 /\ (Effective.pool_size > 0 => cfg.refill_batch <= Effective.pool_size)
    BY <2>1, ClampFacts
  <2>4. /\ cfg["pool_size"] = Effective["pool_size"]
        /\ cfg["pool_min_size"] = Effective["pool_min_size"]
        /\ cfg["splice_chunk"] = Effective["splice_chunk"]
        /\ cfg["splice_pipe_size"] = Effective["splice_pipe_size"]
        /\ cfg["udp_batch_size"] = Effective["udp_batch_size"]
    BY <2>2 DEF Fields, Unsigned
  <2>5. /\ Effective["splice_chunk"] >= Low["splice_chunk"]
        /\ Effective["splice_pipe_size"] >= Low["splice_pipe_size"]
        /\ Effective["udp_batch_size"] >= Low["udp_batch_size"]
        /\ Effective["udp_batch_size"] <= High["udp_batch_size"]
        /\ Effective["pool_min_size"] <= Effective["pool_size"]
    <3>1. /\ {"splice_chunk", "splice_pipe_size", "udp_batch_size"} \subseteq DOMAIN Low
          /\ "udp_batch_size" \in DOMAIN High
      BY SMT DEF Low, High
    <3>2. QED
      BY <2>1, <3>1 DEF Valid
  <2>6. /\ Low["splice_chunk"] = 16384 /\ Low["splice_pipe_size"] = 4096
        /\ Low["udp_batch_size"] = 1 /\ High["udp_batch_size"] = 128
    BY SMT DEF Low, High
  <2>7. Effective["pool_min_size"] \in 0 .. U64 - 1 /\ Effective["pool_size"] \in 0 .. U64 - 1
        /\ Effective["splice_chunk"] \in 0 .. U64 - 1
        /\ Effective["splice_pipe_size"] \in 0 .. U64 - 1
        /\ Effective["udp_batch_size"] \in 0 .. U64 - 1
    BY <2>1, TypedFields
  <2>8. cfg.pool_min_size \in 0 .. cfg.pool_size
    BY <2>4, <2>5, <2>7, U64Facts
  <2>9. cfg.splice_chunk >= 1 /\ cfg.splice_pipe_size >= 1 /\ cfg.udp_batch_size \in 1 .. 128
    BY <2>4, <2>5, <2>6, <2>7, U64Facts, SMT
  <2>10. QED
    BY <2>3, <2>4, <2>8, <2>9
<1>2. IInv => ComponentsFit
  BY <1>1 DEF ComponentsFit
<1>3. QED
  BY <1>2, Invariance, PTL

\* Pool::put draws within ttl_jitter_pct of preconnect_ttl_ms for every
\* accepted record that does not overflow u64, whatever next_rng returns.
THEOREM JitterWithin == Spec => []TtlWithin
<1>1. ASSUME IInv, pc = "running", ttl # 0, Fits(cfg.preconnect_ttl_ms, cfg.ttl_jitter_pct)
      PROVE  LET base == cfg.preconnect_ttl_ms
                 room == base * cfg.ttl_jitter_pct
             IN  100 * ttl <= 100 * base + room /\ 100 * ttl >= 100 * base - room - 100
  <2> DEFINE base == cfg.preconnect_ttl_ms
             room == base * cfg.ttl_jitter_pct
             range == room \div 50 + 1
             offset == range \div 2
  <2>1. Valid(Effective) /\ cfg = Clamp(Effective) /\ Typed(Effective)
    BY <1>1, EffectiveTyped DEF IInv, TypeOK, Stage, Accepted
  <2>2. cfg["preconnect_ttl_ms"] = Effective["preconnect_ttl_ms"]
        /\ cfg["ttl_jitter_pct"] = Effective["ttl_jitter_pct"]
    BY <2>1, ClampFacts DEF Fields, Unsigned
  <2>3. /\ Effective["ttl_jitter_pct"] <= High["ttl_jitter_pct"]
        /\ Effective["preconnect_ttl_ms"] >= Low["preconnect_ttl_ms"]
    <3>1. "ttl_jitter_pct" \in DOMAIN High /\ "preconnect_ttl_ms" \in DOMAIN Low
      BY SMT DEF High, Low
    <3>2. QED
      BY <2>1, <3>1 DEF Valid
  <2>4. High["ttl_jitter_pct"] = 50 /\ Low["preconnect_ttl_ms"] = 10000
    BY SMT DEF High, Low
  <2>5. U64 \in Nat /\ Effective["preconnect_ttl_ms"] \in 0 .. U64 - 1
        /\ Effective["ttl_jitter_pct"] \in 0 .. 255
    BY <2>1, TypedFields, U64Facts
  <2>6. base \in Nat /\ base > 0 /\ cfg.ttl_jitter_pct \in 0 .. 50
    BY <2>2, <2>3, <2>4, <2>5, SMT
  <2>7. room \in Nat /\ room <= 50 * base
    BY <2>6, RoomBound
  <2>8. room < U64 /\ 100 * base + room < 100 * U64
    BY <1>1 DEF Fits
  <2>9. PICK random \in Rng : ttl = jittered_ttl(base, cfg.ttl_jitter_pct, random)
    BY <1>1 DEF IInv, Drawn
  <2>10. random \in Nat
    BY ConfigAssumption
  <2>11. room % U64 = room
    BY <2>5, <2>7, <2>8, Z3
  <2>12. ttl = ((IF base >= offset THEN base - offset ELSE 0) + (random % range)) % U64
    BY <2>9, <2>11 DEF jittered_ttl
  <2> HIDE DEF base, room, range, offset
  <2>13. range = room \div 50 + 1 /\ offset = range \div 2
    BY DEF range, offset
  <2>14. /\ base >= offset /\ base - offset + (random % range) \in 0 .. U64 - 1
         /\ 100 * (base - offset + (random % range)) <= 100 * base + room
         /\ 100 * (base - offset + (random % range)) >= 100 * base - room - 100
    BY <2>5, <2>6, <2>7, <2>8, <2>10, <2>13, JitterArithmetic
  <2>15. ttl = base - offset + (random % range)
    <3> DEFINE t == base - offset + (random % range)
    <3>1. ttl = t % U64
      BY <2>12, <2>14
    <3>2. t \in 0 .. U64 - 1
      BY <2>14
    <3> HIDE DEF t
    <3>3. ttl = t
      BY <2>5, <3>1, <3>2, Z3
    <3>4. QED
      BY <3>3 DEF t
  <2>16. QED
    BY <2>14, <2>15 DEF base, room
<1>2. IInv => TtlWithin
  BY <1>1 DEF TtlWithin
<1>3. QED
  BY <1>2, Invariance, PTL
=============================================================================
