------------------------- MODULE ConnTimersProofs --------------------------
(***************************************************************************)
(* The deadlines of ConnTimers, for all lengths of the timeouts.  What      *)
(* makes the bounds inductive is the time since the last clean-up: that     *)
(* clean-up left no age above its limit, so none is now above the limit     *)
(* and that time.                                                           *)
(***************************************************************************)
EXTENDS ConnTimers, TLAPS

Quietest == Larger(ConnectTimeout, IdleTimeout)
LongestHalf == Larger(ConnectTimeout, HalfClose)

\* The clean-up comes in the first turn more than a second after the last.
OnTime == pc = "tick" => since <= Second

\* While the connect is under way the other stamps are no older than the accept.
Fresh == life = "connecting" =>
  /\ start <= ConnectTimeout + since
  /\ \A d \in Dir : last[d] <= start
  /\ half # Off => half <= start

\* What the clean-up has not closed yet.
Limits == life = "open" =>
  /\ \E d \in Dir : last[d] <= Quietest + since
  /\ half # Off => half <= LongestHalf + since

\* half_close_since is set while one direction is at EOF.
Clock == life # "closed" => (half # Off <=> \E d \in Dir : eof = {d})

Unclosed == life # "closed" => why = ""

IInv == TypeOK /\ OnTime /\ Fresh /\ Limits /\ Clock /\ Unclosed

\* The limits, as numbers.
LEMMA Numbers ==
  /\ Quietest \in Nat /\ ConnectTimeout <= Quietest /\ IdleTimeout <= Quietest
  /\ 0 <= MaxAge /\ Second \in Nat /\ HalfClose \in Nat /\ MaxAge \in Nat
  /\ LongestHalf \in Nat /\ ConnectTimeout <= LongestHalf /\ HalfClose <= LongestHalf
  /\ ConnectTimeout \in Nat /\ IdleTimeout \in Nat
BY TimersAssumption, SMT DEF Quietest, LongestHalf, Larger

LEMMA OffIsNoAge == Off \notin Ages /\ 0 \in Ages /\ Off # 0
<1>1. Off \notin Nat
  BY TimersAssumption
<1>2. Ages \subseteq Nat /\ 0 \in Ages
  BY Numbers, SMT DEF Ages
<1>. QED BY <1>1, <1>2

LEMMA SinceIsTime == since \in 0 .. Second + 1 => since \in Nat
BY Numbers, SMT

\* An age grows by one at most and stays in its range.
LEMMA OlderBound ==
  ASSUME NEW a \in Ages
  PROVE  Older(a) \in Ages /\ Older(a) <= a + 1 /\ Older(a) >= a
BY Numbers, SMT DEF Older, Ages

\* With two directions, one that is not behind the other is the younger one.
LEMMA SilentIsLess ==
  ASSUME NEW f \in [Dir -> Ages], last = f
  PROVE  /\ Silent \in Ages
         /\ \A d \in Dir : Silent <= f[d]
         /\ \E d \in Dir : Silent = f[d]
<1>1. f["l2r"] \in Nat /\ f["r2l"] \in Nat /\ f["l2r"] \in Ages /\ f["r2l"] \in Ages
  BY Numbers DEF Dir, Ages
<1>2. Silent = (IF f["l2r"] <= f["r2l"] THEN f["l2r"] ELSE f["r2l"])
  BY DEF Silent, Smaller
<1>. QED BY <1>1, <1>2, SMT DEF Dir

-----------------------------------------------------------------------------
LEMMA Initially == Init => IInv
<1>. SUFFICES ASSUME Init PROVE IInv
  OBVIOUS
<1>1. 0 \in Ages
  BY OffIsNoAge
<1>2. since \in Nat
  BY SinceIsTime DEF Init
<1>3. TypeOK
  <2>1. last \in [Dir -> Ages]
    BY <1>1 DEF Init
  <2>. QED BY <1>1, <2>1 DEF Init, TypeOK
<1>4. OnTime /\ Unclosed
  BY DEF Init, OnTime, Unclosed
<1>5. Fresh
  <2>1. 0 <= ConnectTimeout + since /\ 0 <= 0   \* half is Off
    BY Numbers, <1>2, SMT
  <2>. QED BY <2>1 DEF Init, Fresh
<1>6. Limits
  <2>1. last["l2r"] = 0 /\ "l2r" \in Dir
    BY DEF Init, Dir
  <2>2. last["l2r"] <= Quietest + since
    BY Numbers, <1>2, <2>1, SMT
  <2>. QED BY <2>1, <2>2 DEF Init, Limits
<1>7. Clock
  BY DEF Init, Clock
<1>. QED BY <1>3, <1>4, <1>5, <1>6, <1>7 DEF IInv

LEMMA TickStep ==
  ASSUME IInv, Tick
  PROVE  IInv'
<1>. USE DEF IInv, Tick
<1>1. since \in 0 .. Second /\ since' = since + 1 /\ since' \in 0 .. Second + 1
  <2>1. since \in 0 .. Second + 1 /\ since <= Second /\ since' = since + 1
    BY DEF TypeOK, OnTime
  <2>. QED BY Numbers, <2>1, SMT
<1>2. start' \in Ages /\ start' <= start + 1 /\ start' >= start
  BY OlderBound DEF TypeOK
<1>3. \A d \in Dir : /\ last[d] \in Ages /\ last'[d] = Older(last[d])
                     /\ last'[d] \in Ages /\ last'[d] <= last[d] + 1
  <2>. SUFFICES ASSUME NEW d \in Dir
                PROVE  /\ last[d] \in Ages /\ last'[d] = Older(last[d])
                       /\ last'[d] \in Ages /\ last'[d] <= last[d] + 1
    OBVIOUS
  <2>1. last[d] \in Ages /\ last'[d] = Older(last[d])
    BY DEF TypeOK
  <2>. QED BY <2>1, OlderBound
<1>4. last' \in [Dir -> Ages]
  BY <1>3, Zenon
<1>5. \/ half = Off /\ half' = Off
      \/ half \in Ages /\ half' \in Ages /\ half' <= half + 1
  <2>1. CASE half = Off
    BY <2>1
  <2>2. CASE half # Off
    <3>1. half \in Ages /\ half' = Older(half)
      BY <2>2 DEF TypeOK
    <3>. QED BY <3>1, OlderBound
  <2>. QED BY <2>1, <2>2
<1>6. TypeOK'
  BY <1>1, <1>2, <1>4, <1>5 DEF TypeOK
<1>7. OnTime' /\ Unclosed'
  BY DEF OnTime, Unclosed
<1>8. Fresh'
  <2>. SUFFICES ASSUME life = "connecting" PROVE Fresh'
    BY DEF Fresh
  <2>1. start <= ConnectTimeout + since /\ start \in Ages /\ start' = Older(start)
    BY DEF Fresh, TypeOK
  <2>2. start' <= ConnectTimeout + since'
    BY Numbers, <1>1, <1>2, <2>1, SMT DEF Ages
  <2>3. ASSUME NEW d \in Dir PROVE last'[d] <= start'
    <3>1. last[d] <= start
      BY DEF Fresh
    <3>. QED BY Numbers, <1>3, <2>1, <3>1, SMT DEF Older, Ages
  <2>4. ASSUME half' # Off PROVE half' <= start'
    <3>1. half # Off
      BY <2>4
    <3>2. half \in Ages /\ half' = Older(half) /\ half <= start
      BY <3>1 DEF TypeOK, Fresh
    <3>. QED BY Numbers, <2>1, <3>2, SMT DEF Older, Ages
  <2>. QED BY <2>2, <2>3, <2>4 DEF Fresh
<1>9. Limits'
  <2>. SUFFICES ASSUME life = "open" PROVE Limits'
    BY DEF Limits
  <2>1. PICK d \in Dir : last[d] <= Quietest + since
    BY DEF Limits
  <2>2. last'[d] <= Quietest + since'
    BY Numbers, <1>1, <1>3, <2>1, SMT DEF Ages
  <2>3. half' # Off => half' <= LongestHalf + since'
    <3>. SUFFICES ASSUME half' # Off PROVE half' <= LongestHalf + since'
      OBVIOUS
    <3>1. half \in Ages /\ half' \in Ages /\ half' <= half + 1
      BY <1>5
    <3>2. half <= LongestHalf + since
      BY <1>5, OffIsNoAge, <3>1 DEF Limits
    <3>. QED BY Numbers, <1>1, <3>1, <3>2, SMT DEF Ages
  <2>. QED BY <2>2, <2>3 DEF Limits
<1>10. Clock'
  <2>1. half' # Off <=> half # Off
    BY <1>5, OffIsNoAge
  <2>. QED BY <2>1 DEF Clock
<1>. QED BY <1>6, <1>7, <1>8, <1>9, <1>10

LEMMA HandlerStep ==
  ASSUME IInv, Handler
  PROVE  IInv'
<1>. USE DEF IInv, Handler
<1>1. PICK moved \in SUBSET (Dir \ (eof \ left)) : \E ended \in SUBSET (Dir \ eof) :
        /\ eof' = eof \cup ended
        /\ last' = [d \in Dir |-> IF d \in moved THEN 0 ELSE last[d]]
        /\ half' = HalfAfter(ended)
  OBVIOUS
<1>2. PICK ended \in SUBSET (Dir \ eof) :
        /\ eof' = eof \cup ended
        /\ last' = [d \in Dir |-> IF d \in moved THEN 0 ELSE last[d]]
        /\ half' = HalfAfter(ended)
  BY <1>1
<1>3. 0 \in Ages /\ since \in Nat
  BY OffIsNoAge, SinceIsTime DEF TypeOK
<1>4. last' \in [Dir -> Ages] /\ \A d \in Dir : last'[d] = 0 \/ last'[d] = last[d]
  BY <1>2, <1>3 DEF TypeOK
<1>5. half' = half \/ half' = 0 \/ half' = Off
  BY <1>2 DEF HalfAfter
<1>6. eof' \subseteq Dir /\ eof \subseteq Dir
  BY <1>2 DEF TypeOK
<1>7. half # Off <=> \E d \in Dir : eof = {d}
  BY DEF Clock
<1>8. half' # Off <=> \E d \in Dir : eof' = {d}
  <2>1. CASE ended = {}
    BY <1>2, <1>7, <2>1 DEF HalfAfter
  <2>2. CASE ended # {} /\ eof \cup ended = Dir
    <3>1. half' = Off
      BY <1>2, <2>2 DEF HalfAfter
    <3>2. eof' = Dir
      BY <1>2, <2>2
    <3>. QED BY <3>1, <3>2 DEF Dir
  <2>3. CASE ended # {} /\ eof \cup ended # Dir
    <3>1. half' = IF half = Off THEN 0 ELSE half
      BY <1>2, <2>3 DEF HalfAfter
    <3>2. half' # Off
      BY <3>1, OffIsNoAge
    <3>3. PICK d \in eof' : TRUE
      BY <1>2, <2>3
    <3>4. eof' # Dir
      BY <1>2, <2>3
    <3>5. \E e \in Dir : eof' = {e}
      <4>1. CASE "l2r" \in eof' /\ "r2l" \notin eof'
        BY <1>6, <4>1 DEF Dir
      <4>2. CASE "r2l" \in eof' /\ "l2r" \notin eof'
        BY <1>6, <4>2 DEF Dir
      <4>3. CASE "l2r" \in eof' /\ "r2l" \in eof'
        BY <1>6, <3>4, <4>3 DEF Dir
      <4>. QED BY <1>6, <3>3, <4>1, <4>2, <4>3 DEF Dir
    <3>. QED BY <3>2, <3>5
  <2>. QED BY <2>1, <2>2, <2>3
<1>9. TypeOK'
  <2>1. half' \in Ages \cup {Off}
    BY <1>3, <1>5 DEF TypeOK
  <2>2. left' \subseteq Dir
    OBVIOUS
  <2>3. life' \in {"connecting", "open", "closed"} /\ why' \in {"", "event", "timeout"}
    BY DEF TypeOK
  <2>. QED BY <1>4, <1>6, <2>1, <2>2, <2>3 DEF TypeOK
<1>10. OnTime' /\ Unclosed' /\ Clock'
  BY <1>8 DEF OnTime, Unclosed, Clock
<1>11. Fresh'
  <2>. SUFFICES ASSUME life' = "connecting" PROVE Fresh'
    BY DEF Fresh
  <2>1. life = "connecting" /\ start' = start /\ since' = since /\ start \in Ages
    BY DEF TypeOK
  <2>2. 0 <= start
    BY Numbers, <2>1, SMT DEF Ages
  <2>3. start <= ConnectTimeout + since
    BY <2>1 DEF Fresh
  <2>4. \A d \in Dir : last'[d] <= start
    BY <1>4, <2>1, <2>2 DEF Fresh
  <2>5. half' # Off => half' <= start
    BY <1>5, <2>1, <2>2 DEF Fresh
  <2>. QED BY <2>1, <2>3, <2>4, <2>5 DEF Fresh
<1>12. Limits'
  <2>. SUFFICES ASSUME life' = "open" PROVE Limits'
    BY DEF Limits
  <2>0. life = "open" /\ since' = since
    OBVIOUS
  <2>1. PICK d \in Dir : last[d] <= Quietest + since
    BY <2>0 DEF Limits
  <2>2. last'[d] <= Quietest + since'
    BY Numbers, <1>3, <1>4, <2>0, <2>1, SMT
  <2>3. half' # Off => half' <= LongestHalf + since'
    <3>. SUFFICES ASSUME half' # Off PROVE half' <= LongestHalf + since'
      OBVIOUS
    <3>1. CASE half' = 0
      BY Numbers, <1>3, <2>0, <3>1, SMT
    <3>2. CASE half' = half
      BY <2>0, <3>2 DEF Limits
    <3>. QED BY <1>5, <3>1, <3>2
  <2>. QED BY <2>2, <2>3 DEF Limits
<1>. QED BY <1>9, <1>10, <1>11, <1>12

LEMMA CleanUpStep ==
  ASSUME IInv, CleanUp
  PROVE  IInv'
<1>. USE DEF IInv, CleanUp
<1>1. since' = 0 /\ 0 \in 0 .. Second + 1 /\ 0 <= Second
  BY Numbers, SMT
<1>2. TypeOK' /\ OnTime' /\ Unclosed' /\ Clock'
  BY <1>1 DEF TypeOK, OnTime, Unclosed, Clock
<1>3. Fresh'
  <2>. SUFFICES ASSUME life' = "connecting" PROVE Fresh'
    BY DEF Fresh
  <2>1. life = "connecting" /\ ~Overdue
    OBVIOUS
  <2>2. ~(start > ConnectTimeout) /\ start \in Ages
    BY <2>1 DEF Overdue, TypeOK
  <2>3. start <= ConnectTimeout + since'
    BY Numbers, <1>1, <2>2, SMT DEF Ages
  <2>. QED BY <2>1, <2>3 DEF Fresh
<1>4. Limits'
  <2>. SUFFICES ASSUME life' = "open" PROVE Limits'
    BY DEF Limits
  <2>1. life = "open" /\ ~Overdue
    OBVIOUS
  <2>2. PICK d \in Dir : Silent = last[d] /\ last[d] \in Ages
    BY SilentIsLess DEF TypeOK
  <2>3. ~(Silent > IdleTimeout)
    BY <2>1 DEF Overdue
  <2>4. last'[d] <= Quietest + since'
    <3>1. last' = last
      OBVIOUS
    <3>. QED BY Numbers, <1>1, <2>2, <2>3, <3>1, SMT DEF Ages
  <2>5. half' # Off => half' <= LongestHalf + since'
    <3>. SUFFICES ASSUME half # Off PROVE half <= LongestHalf + since'
      OBVIOUS
    <3>1. half \in Ages /\ ~(half > HalfClose)
      BY <2>1 DEF Overdue, TypeOK
    <3>. QED BY Numbers, <1>1, <3>1, SMT DEF Ages
  <2>. QED BY <2>1, <2>4, <2>5 DEF Limits
<1>. QED BY <1>2, <1>3, <1>4

LEMMA OtherSteps ==
  ASSUME IInv, Connected \/ Error \/ EndTurn \/ UNCHANGED vars
  PROVE  IInv'
<1>. USE DEF IInv
<1>1. CASE Connected
  <2>. USE <1>1 DEF Connected
  <2>1. TypeOK' /\ OnTime' /\ Fresh' /\ Unclosed' /\ Clock'
    BY DEF TypeOK, OnTime, Fresh, Unclosed, Clock
  <2>2. since \in Nat /\ start \in Ages /\ last["l2r"] \in Ages /\ "l2r" \in Dir
    BY SinceIsTime DEF TypeOK, Dir
  <2>3. last["l2r"] <= start /\ start <= ConnectTimeout + since
    BY <2>2 DEF Fresh
  <2>4. last["l2r"] <= Quietest + since
    BY Numbers, <2>2, <2>3, SMT DEF Ages
  <2>5. half # Off => half <= LongestHalf + since
    <3>. SUFFICES ASSUME half # Off PROVE half <= LongestHalf + since
      OBVIOUS
    <3>1. half \in Ages /\ half <= start
      BY DEF TypeOK, Fresh
    <3>. QED BY Numbers, <2>2, <2>3, <3>1, SMT DEF Ages
  <2>6. Limits'
    BY <2>2, <2>4, <2>5 DEF Limits
  <2>. QED BY <2>1, <2>6
<1>2. CASE Error
  BY <1>2 DEF Error, TypeOK, OnTime, Fresh, Limits, Clock, Unclosed
<1>3. CASE EndTurn
  BY <1>3 DEF EndTurn, TypeOK, OnTime, Fresh, Limits, Clock, Unclosed
<1>4. CASE UNCHANGED vars
  BY <1>4 DEF vars, TypeOK, OnTime, Fresh, Limits, Clock, Unclosed
<1>. QED BY <1>1, <1>2, <1>3, <1>4

\* The inductive invariant: at every moment each age is within its limit and
\* the time since the clean-up that last compared the two (main.rs 943-966).
THEOREM Invariance == Spec => []IInv
<1>1. Init => IInv
  BY Initially
<1>2. IInv /\ [Next]_vars => IInv'
  BY TickStep, HandlerStep, CleanUpStep, OtherSteps DEF Next
<1>. QED BY <1>1, <1>2, PTL DEF Spec

\* Ages and flags of a connection stay within their types.
THEOREM TypeCorrect == Spec => []TypeOK
<1>1. IInv => TypeOK
  BY DEF IInv
<1>. QED BY <1>1, Invariance, PTL

\* A connect that does not complete is given up within connect_timeout and one
\* clean-up period.
THEOREM ConnectGivenUp == Spec => []ConnectBound
<1>1. IInv => ConnectBound
  <2>. SUFFICES ASSUME IInv, life = "connecting" PROVE start <= ConnectTimeout + Second + 1
    BY DEF ConnectBound
  <2>1. start \in Ages /\ start <= ConnectTimeout + since /\ since \in 0 .. Second + 1
    BY DEF IInv, TypeOK, Fresh
  <2>. QED BY Numbers, <2>1, SMT DEF Ages
<1>. QED BY <1>1, Invariance, PTL

\* An open connection in which nothing moves is closed within the larger of
\* connect_timeout and idle_timeout and one period, in whatever state of EOF.
THEOREM SilenceEnds == Spec => []SilentBound
<1>1. IInv => SilentBound
  <2>. SUFFICES ASSUME IInv, life = "open" PROVE Silent <= Quietest + Second + 1
    BY DEF SilentBound, Quietest
  <2>1. PICK d \in Dir : last[d] <= Quietest + since
    BY DEF IInv, Limits
  <2>2. Silent <= last[d] /\ Silent \in Ages /\ last[d] \in Ages /\ since \in 0 .. Second + 1
    BY SilentIsLess DEF IInv, TypeOK
  <2>. QED BY Numbers, <2>1, <2>2, SMT DEF Ages
<1>. QED BY <1>1, Invariance, PTL

\* The half-close clock runs exactly while one direction is at EOF, and ends an
\* open connection within the larger of half_close_timeout and connect_timeout
\* (main.rs does not look at it during the connect) and one period.
THEOREM HalfCloseEnds == Spec => []HalfBound
<1>1. IInv => HalfBound
  <2>. SUFFICES ASSUME IInv PROVE HalfBound
    OBVIOUS
  <2>1. life # "closed" => (half # Off <=> \E d \in Dir : eof = {d})
    BY DEF IInv, Clock
  <2>2. life = "open" /\ half # Off => half <= LongestHalf + Second + 1
    <3>. SUFFICES ASSUME life = "open", half # Off PROVE half <= LongestHalf + Second + 1
      OBVIOUS
    <3>1. half \in Ages /\ half <= LongestHalf + since /\ since \in 0 .. Second + 1
      BY DEF IInv, TypeOK, Limits
    <3>. QED BY Numbers, <3>1, SMT DEF Ages
  <2>. QED BY <2>1, <2>2 DEF HalfBound, LongestHalf
<1>. QED BY <1>1, Invariance, PTL

\* The clean-up closes no open connection that moved a byte within idle_timeout,
\* unless one direction has been at EOF for half_close_timeout.
THEOREM NeverEarly == Spec => NotEarly
<1>. DEFINE Step == life = "open" /\ why' = "timeout" =>
                      \/ \A d \in Dir : last[d] > IdleTimeout
                      \/ \E d \in Dir : eof = {d} /\ half > HalfClose
<1>1. IInv /\ [Next]_vars => [Step]_vars
  <2>. SUFFICES ASSUME IInv, Next, life = "open", why' = "timeout"
                PROVE  \/ \A d \in Dir : last[d] > IdleTimeout
                       \/ \E d \in Dir : eof = {d} /\ half > HalfClose
    OBVIOUS
  <2>1. why = ""
    BY DEF IInv, Unclosed
  <2>2. CleanUp /\ Overdue
    BY <2>1 DEF Next, Tick, Connected, Handler, Error, EndTurn, CleanUp
  <2>3. CASE Silent > IdleTimeout
    <3>1. ASSUME NEW d \in Dir PROVE last[d] > IdleTimeout
      <4>1. Silent <= last[d] /\ Silent \in Ages /\ last[d] \in Ages
        BY SilentIsLess DEF IInv, TypeOK
      <4>. QED BY Numbers, <2>3, <4>1, SMT DEF Ages
    <3>. QED BY <3>1
  <2>4. CASE half # Off /\ half > HalfClose
    BY <2>4 DEF IInv, Clock
  <2>. QED BY <2>2, <2>3, <2>4 DEF Overdue
<1>. QED BY <1>1, Invariance, PTL DEF Spec, NotEarly
=============================================================================
