------------------------------ MODULE MCConfig ------------------------------
(***************************************************************************)
(* Inputs for Config: each time a group of fields that depend on each      *)
(* other is varied in the file and in the environment, with values at both *)
(* sides of every limit, over a file that gives the required fields; and   *)
(* each required field is varied in all three sources.                     *)
(***************************************************************************)
EXTENDS Config, TLC

CONSTANT Word   \* a value that is not a number

\* Every way to give some of the fields of G a value out of Some(f).
Ways(G, Some(_)) ==
  UNION {{w \in [D -> UNION {Some(f) : f \in D}] : \A f \in D : w[f] \in Some(f)}
         : D \in SUBSET G}

\* Values about the limits; the last ones do not fit the type.
Values(f) ==
  CASE f \in Required            -> {0, 5}
    [] f = "pool_size"           -> {0, 3, 256, 257}
    [] f = "refill_batch"        -> {0, 2, 300}
    [] f = "pool_min_size"       -> {0, 3, 4}
    [] f = "preconnect_ttl_ms"   -> {9999, 10000, 60000, U64 - 1}
    [] f = "ttl_jitter_pct"      -> {0, 25, 50, 51, 256}
    [] f \in {"idle_timeout", "half_close_timeout"} -> {Low[f] - 1, Low[f]}
    [] f = "splice_chunk"        -> {16383, 16384, 1048576, 1048577}
    [] f = "splice_pipe_size"    -> {4095, 4096, 1048576, 1048577}
    [] f = "udp_batch_size"      -> {0, 1, 128, 129}
    [] f = "connect_timeout"     -> {0, 1, 65, 66}
    [] f = "tcp_keepidle"        -> {-1, 9, 10, 86400, 86401}
    [] f = "tcp_keepintvl"       -> {0, 1, 3600, 3601}
    [] f = "tcp_keepcnt"         -> {0, 1, 30, 31}
    [] f = "log_enable"          -> {0, 1, 2}
    [] f \in {"listen_backlog", "tcp_user_timeout_ms"} -> {-I32, I32}
    [] OTHER                     -> {0, U64 - 1, U64}
WithWord(f) == IF f \in Ips THEN Values(f) ELSE Values(f) \cup {Word}

Together == {{"pool_size", "refill_batch", "pool_min_size"},
             {"preconnect_ttl_ms", "ttl_jitter_pct"}}
Groups == Together \cup {{f} : f \in (Fields \ Required) \ UNION Together}
Given(G) == [f \in Required \ G |-> 5]

Optional ==
  {[args |-> Unset, env |-> e, file |-> Given({}) @@ w, readable |-> TRUE] :
     <<w, e>> \in UNION {Ways(G, Values) \X Ways(G, WithWord) : G \in Groups}}
RequiredOnes ==
  UNION {{[args |-> a, env |-> e, file |-> Given({f}) @@ w, readable |-> r] :
            a \in Ways({f}, WithWord), e \in Ways({f}, WithWord),
            w \in Ways({f}, WithWord), r \in BOOLEAN} : f \in Required}
MCInputs == Optional \cup RequiredOnes
=============================================================================
