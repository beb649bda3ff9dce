----------------------------- MODULE ConnTimers -----------------------------
(***************************************************************************)
(* The deadlines of one relayed connection (main.rs): connect_timeout,     *)
(* idle_timeout and half_close_timeout, looked at by a clean-up that runs  *)
(* in the first turn of the loop more than a second after the one before.  *)
(*                                                                         *)
(* Time goes in ticks.  epoll_wait returns within 100 ms, so there is a    *)
(* turn in every tick (of 100 ms or more) as long as a turn takes less.    *)
(* Time stamps are kept as ages, counted up to MaxAge, beyond every limit. *)
(* TcpConn has the handlers themselves, and no time.                       *)
(***************************************************************************)
EXTENDS Naturals

CONSTANTS
  Off,                                      \* half_close_since is None
  ConnectTimeout, IdleTimeout, HalfClose,   \* in ticks
  Second,                                   \* ticks in the clean-up period
  MaxAge                                    \* bound: older ages are not told apart

Larger(a, b) == IF a >= b THEN a ELSE b
ASSUME TimersAssumption ==
  /\ ConnectTimeout \in Nat /\ IdleTimeout \in Nat /\ HalfClose \in Nat /\ Second \in Nat
  /\ MaxAge \in Nat /\ Off \notin Nat
  /\ MaxAge > Larger(Larger(ConnectTimeout, IdleTimeout), HalfClose) + Second + 1

VARIABLES
  pc,     \* a turn of the loop, or time passing
  since,  \* now - last_cleanup
  life,   \* connecting, open or closed
  why,    \* what closed it
  start,  \* now - connect_start
  last,   \* now - last_l2r, now - last_r2l
  half,   \* now - half_close_since
  eof,    \* directions at EOF
  left    \* directions with data in their pipe
vars == <<pc, since, life, why, start, last, half, eof, left>>

Dir == {"l2r", "r2l"}
Ages == 0 .. MaxAge

TypeOK ==
  /\ pc \in {"turn", "tick"} /\ since \in 0 .. Second + 1
  /\ life \in {"connecting", "open", "closed"}
  /\ why \in {"", "event", "timeout"}
  /\ start \in Ages /\ last \in [Dir -> Ages] /\ half \in Ages \cup {Off}
  /\ eof \subseteq Dir /\ left \subseteq Dir

\* Accepted in some turn: with a socket of the pool, or connecting directly.
Init ==
  /\ pc = "turn" /\ since \in 0 .. Second + 1
  /\ life \in {"connecting", "open"} /\ why = ""
  /\ start = 0 /\ last = [d \in Dir |-> 0] /\ half = Off
  /\ eof = {} /\ left = {}

-----------------------------------------------------------------------------
Older(a) == IF a < MaxAge THEN a + 1 ELSE a
Tick ==
  /\ pc = "tick" /\ pc' = "turn" /\ since' = since + 1
  /\ start' = Older(start) /\ last' = [d \in Dir |-> Older(last[d])]
  /\ half' = IF half = Off THEN Off ELSE Older(half)
  /\ UNCHANGED <<life, why, eof, left>>

\* connect completes; the time stamps stay those of the accept.
Connected ==
  /\ pc = "turn" /\ life = "connecting" /\ life' = "open"
  /\ UNCHANGED <<pc, since, why, start, last, half, eof, left>>

\* A handler runs to its end, for an event of the client even during the connect:
\* bytes are moved in some directions, EOF is met in some, and with both at EOF
\* and the pipes empty the connection is done.  Directions at EOF only have what
\* is left in their pipe.
HalfAfterNoStop(ended) ==
  CASE ended = {} -> half
    [] ended # {} /\ half = Off -> 0
    [] ended # {} /\ half # Off -> half
HalfAfter(ended) ==
  CASE ended = {} -> half
    [] ended # {} /\ eof \cup ended = Dir -> Off
    [] ended # {} /\ eof \cup ended # Dir -> IF half = Off THEN 0 ELSE half
Handler ==
  /\ pc = "turn" /\ life # "closed"
  /\ \E moved \in SUBSET (Dir \ (eof \ left)), ended \in SUBSET (Dir \ eof) :
       /\ left' \in SUBSET Dir
       /\ left' \ left \subseteq moved \ eof /\ left \ left' \subseteq moved
       /\ eof' = eof \cup ended
       /\ last' = [d \in Dir |-> IF d \in moved THEN 0 ELSE last[d]]
       /\ half' = HalfAfter(ended)
  /\ \/ eof' = Dir /\ left' = {} /\ life' = "closed" /\ why' = "event"
     \/ ~(eof' = Dir /\ left' = {}) /\ UNCHANGED <<life, why>>
  /\ UNCHANGED <<pc, since, start>>

\* "Connect failed" or "Connection Error".
Error ==
  /\ pc = "turn" /\ life # "closed" /\ life' = "closed" /\ why' = "event"
  /\ UNCHANGED <<pc, since, start, last, half, eof, left>>

-----------------------------------------------------------------------------
(***************************************************************************)
(* The end of a turn, and the clean-up when it is due.                     *)
(***************************************************************************)
Smaller(a, b) == IF a <= b THEN a ELSE b
SilentLonger == Larger(last["l2r"], last["r2l"])
Silent == Smaller(last["l2r"], last["r2l"])   \* the later stamp is the younger

OverdueNoConnect ==
  life = "open" /\ (Silent > IdleTimeout \/ (half # Off /\ half > HalfClose))
OverdueNoIdle ==
  \/ life = "connecting" /\ start > ConnectTimeout
  \/ life = "open" /\ half # Off /\ half > HalfClose
Overdue ==
  \/ life = "connecting" /\ start > ConnectTimeout
  \/ life = "open" /\ (Silent > IdleTimeout \/ (half # Off /\ half > HalfClose))

EndTurn ==
  /\ pc = "turn" /\ since <= Second /\ pc' = "tick"
  /\ UNCHANGED <<since, life, why, start, last, half, eof, left>>

CleanUp ==
  /\ pc = "turn" /\ since > Second /\ pc' = "tick" /\ since' = 0
  /\ \/ Overdue /\ life' = "closed" /\ why' = "timeout"
     \/ ~Overdue /\ UNCHANGED <<life, why>>
  /\ UNCHANGED <<start, last, half, eof, left>>

Next == Tick \/ Connected \/ Handler \/ Error \/ EndTurn \/ CleanUp
Spec == Init /\ [][Next]_vars
\* Time passes, and a turn comes to its end.
FairSpec == Spec /\ WF_vars(Tick) /\ WF_vars(EndTurn \/ CleanUp)

-----------------------------------------------------------------------------
(***************************************************************************)
(* Safety.                                                                 *)
(***************************************************************************)
\* A connect that does not complete is given up at most a clean-up period late.
ConnectBound == life = "connecting" => start <= ConnectTimeout + Second + 1

\* So is an open connection in which nothing moves, whatever was at EOF or is
\* stuck in a pipe; a connect slower than idle_timeout counts as silence.
SilentBound ==
  life = "open" => Silent <= Larger(ConnectTimeout, IdleTimeout) + Second + 1

\* With one direction at EOF the connection ends in time even if the other one
\* is busy all the while (during the connect the clock runs and is not looked
\* at); with both, no clock but that of silence runs.
HalfBound ==
  /\ life = "open" /\ half # Off => half <= Larger(ConnectTimeout, HalfClose) + Second + 1
  /\ life # "closed" => (half # Off <=> \E d \in Dir : eof = {d})

\* The clean-up takes no open connection that moved a byte within idle_timeout,
\* unless exactly one direction has been at EOF for half_close_timeout.
NotEarly ==
  [][life = "open" /\ why' = "timeout" =>
       \/ \A d \in Dir : last[d] > IdleTimeout
       \/ \E d \in Dir : eof = {d} /\ half > HalfClose]_vars

(***************************************************************************)
(* Liveness.                                                               *)
(***************************************************************************)
\* A connection that lives for ever moves bytes for ever.
NoImmortal == <>[](life # "closed") => []<><<Handler>>_last
=============================================================================
