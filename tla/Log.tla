-------------------------------- MODULE Log ---------------------------------
(***************************************************************************)
(* The rate-limited logger of relay-rs/src/log.rs: a bounded channel with  *)
(* many senders, drained by the event loop (Main) once per turn.           *)
(*                                                                         *)
(* A step is one access to what the threads share (the channel, the        *)
(* counter SEND_DROPS).  Lines have no content and so no order: the queue  *)
(* is its length.  reported, printed and lost are history variables: what  *)
(* a reader of stdout and an omniscient observer would count.              *)
(***************************************************************************)
EXTENDS Naturals, FiniteSets

CONSTANTS
  Pushers,   \* the threads that log
  Main,      \* the one of them that also flushes
  QueueMax,  \* LOG_QUEUE_MAX
  Rate,      \* log_rate_per_sec
  Modes,     \* values of log_enable
  MaxPush    \* bound: lines pushed by one thread

ASSUME LogAssumption ==
  /\ IsFiniteSet(Pushers) /\ Main \in Pushers
  /\ QueueMax \in Nat \ {0} /\ Rate \in Nat /\ Modes \subseteq BOOLEAN /\ MaxPush \in Nat

VARIABLES
  queued,      \* lines in the channel
  send_drops,  \* SEND_DROPS
  push,        \* per thread: outside push, or refused and not yet counted
  pushes,      \* lines pushed by each thread
  pc,          \* Main: in the event loop, or where in maybe_flush / flush_all
  enabled, quota, dropped, \* FlushState
  printed,     \* lines written in the current second (and since, in flush_all)
  reported,    \* sum of the "Log dropped" notices
  lost         \* lines refused by the channel or drained unprinted

pushVars  == <<push, pushes>>
stdout    == <<printed, reported>>
vars == <<queued, send_drops, push, pushes, pc, enabled, quota, dropped, printed, reported, lost>>

TypeOK ==
  /\ queued \in 0 .. QueueMax /\ send_drops \in Nat
  /\ push \in [Pushers -> {"out", "refused"}] /\ pushes \in [Pushers -> 0 .. MaxPush]
  /\ pc \in {"loop", "discard", "swap", "emit", "drain", "notice_all", "emit_all", "end"}
  /\ enabled \in Modes /\ quota \in 0 .. Rate /\ dropped \in Nat
  /\ printed \in Nat /\ reported \in Nat /\ lost \in Nat

\* log::init
Init ==
  /\ queued = 0 /\ send_drops = 0
  /\ push = [p \in Pushers |-> "out"] /\ pushes = [p \in Pushers |-> 0]
  /\ pc = "loop" /\ enabled \in Modes /\ quota = Rate /\ dropped = 0
  /\ printed = 0 /\ reported = 0 /\ lost = 0

-----------------------------------------------------------------------------
(***************************************************************************)
(* push.                                                                   *)
(***************************************************************************)
\* try_send
Offer(p) ==
  /\ push[p] = "out" /\ pushes[p] < MaxPush
  /\ pushes' = [pushes EXCEPT ![p] = @ + 1]
  /\ \/ /\ queued < QueueMax
        /\ queued' = queued + 1
        /\ UNCHANGED <<push, lost>>
     \/ /\ queued = QueueMax
        /\ push' = [push EXCEPT ![p] = "refused"] /\ lost' = lost + 1
        /\ UNCHANGED queued
  /\ UNCHANGED <<enabled, send_drops, quota, dropped>> /\ UNCHANGED stdout

\* Main pushes from the event loop, never from inside a flush.
Push(p) ==
  /\ p = Main => pc = "loop"
  /\ pc # "end"
  /\ Offer(p)
  /\ UNCHANGED pc

\* fetch_add
CountDropTwice(p) ==
  /\ push[p] = "refused"
  /\ send_drops' = send_drops + 1
  /\ UNCHANGED <<enabled, queued, pc, quota, dropped, lost>> /\ UNCHANGED pushVars /\ UNCHANGED stdout
CountDrop(p) ==
  /\ push[p] = "refused"
  /\ send_drops' = send_drops + 1
  /\ push' = [push EXCEPT ![p] = "out"]
  /\ UNCHANGED <<enabled, queued, pushes, pc, quota, dropped, lost>> /\ UNCHANGED stdout

-----------------------------------------------------------------------------
(***************************************************************************)
(* maybe_flush, once per turn of the event loop.                           *)
(***************************************************************************)
\* A disabled logger only discards.  Otherwise a new second refills the quota.
BeginNoReset(second) ==
  /\ pc = "loop" /\ push[Main] = "out"
  /\ pc' = IF enabled THEN "swap" ELSE "discard"
  /\ UNCHANGED <<enabled, queued, send_drops, quota, dropped, lost>> /\ UNCHANGED pushVars /\ UNCHANGED stdout
Begin(second) ==
  /\ pc = "loop" /\ push[Main] = "out"
  /\ \/ ~enabled /\ pc' = "discard" /\ UNCHANGED <<quota, printed>>
     \/ /\ enabled /\ pc' = "swap"
        /\ quota' = IF second THEN Rate ELSE quota
        /\ printed' = IF second THEN 0 ELSE printed
  /\ UNCHANGED <<enabled, queued, send_drops, dropped, reported, lost>> /\ UNCHANGED pushVars

\* while try_recv().is_ok() {}
Discard ==
  /\ pc = "discard"
  /\ \/ queued > 0 /\ queued' = queued - 1 /\ UNCHANGED pc
     \/ queued = 0 /\ pc' = "loop" /\ UNCHANGED queued
  /\ UNCHANGED <<enabled, send_drops, quota, dropped, lost>> /\ UNCHANGED pushVars /\ UNCHANGED stdout

\* The drop notice: SEND_DROPS is reset whether or not the notice is due.
NoticeFree(total) ==
  \/ /\ total > 0 /\ quota > 0
     /\ reported' = reported + total /\ dropped' = 0
     /\ printed' = printed + 1 /\ UNCHANGED quota
  \/ /\ total = 0 \/ quota = 0
     /\ UNCHANGED <<quota, dropped, printed, reported>>
Notice(total) ==
  \/ /\ total > 0 /\ quota > 0
     /\ reported' = reported + total /\ dropped' = 0
     /\ printed' = printed + 1 /\ quota' = quota - 1
  \/ /\ total = 0 \/ quota = 0
     /\ UNCHANGED <<quota, dropped, printed, reported>>
Swap ==
  /\ pc = "swap"
  /\ pc' = "emit"
  /\ send_drops' = 0
  /\ Notice(dropped + send_drops)
  /\ UNCHANGED <<enabled, queued, lost>> /\ UNCHANGED pushVars

\* The lines within the quota ...
Emit ==
  /\ pc = "emit"
  /\ \/ /\ quota > 0 /\ queued > 0
        /\ queued' = queued - 1 /\ quota' = quota - 1 /\ printed' = printed + 1
        /\ UNCHANGED pc
     \/ quota > 0 /\ queued = 0 /\ pc' = "loop" /\ UNCHANGED <<queued, quota, printed>>
     \/ quota = 0 /\ pc' = "drain" /\ UNCHANGED <<queued, quota, printed>>
  /\ UNCHANGED <<enabled, send_drops, dropped, reported, lost>> /\ UNCHANGED pushVars

\* ... and the rest, counted for a later notice.
Drain ==
  /\ pc = "drain"
  /\ \/ /\ queued > 0
        /\ queued' = queued - 1 /\ dropped' = dropped + 1 /\ lost' = lost + 1
        /\ UNCHANGED pc
     \/ queued = 0 /\ pc' = "loop" /\ UNCHANGED <<queued, dropped, lost>>
  /\ UNCHANGED <<enabled, send_drops, quota>> /\ UNCHANGED pushVars /\ UNCHANGED stdout

-----------------------------------------------------------------------------
(***************************************************************************)
(* The end of the event loop and flush_all.                                *)
(***************************************************************************)
\* "Shutdown signal received, exiting..." is the last line Main pushes.
Shutdown ==
  /\ pc = "loop"
  /\ Offer(Main)
  /\ pc' = "notice_all"

NoticeAll ==
  /\ pc = "notice_all" /\ push[Main] = "out"
  /\ pc' = "emit_all"
  /\ reported' = reported + dropped /\ dropped' = 0
  /\ printed' = IF dropped > 0 THEN printed + 1 ELSE printed
  /\ UNCHANGED <<enabled, queued, send_drops, quota, lost>> /\ UNCHANGED pushVars

EmitAll ==
  /\ pc = "emit_all"
  /\ \/ queued > 0 /\ queued' = queued - 1 /\ printed' = printed + 1 /\ UNCHANGED pc
     \/ queued = 0 /\ pc' = "end" /\ UNCHANGED <<queued, printed>>
  /\ UNCHANGED <<enabled, send_drops, quota, dropped, reported, lost>> /\ UNCHANGED pushVars

maybe_flush == (\E second \in BOOLEAN : Begin(second)) \/ Discard \/ Swap \/ Emit \/ Drain
flush_all == NoticeAll \/ EmitAll
Next ==
  \/ \E p \in Pushers : Push(p) \/ CountDrop(p)
  \/ maybe_flush \/ Shutdown \/ flush_all

Spec == Init /\ [][Next]_vars

\* epoll_wait returns within 100 ms, so the loop keeps flushing and seconds
\* pass; a thread inside push goes on.
FairSpec ==
  /\ Spec
  /\ WF_vars(maybe_flush) /\ WF_vars(flush_all) /\ SF_vars(Begin(TRUE))
  /\ \A p \in Pushers : WF_vars(CountDrop(p))

-----------------------------------------------------------------------------
(***************************************************************************)
(* Properties.                                                             *)
(***************************************************************************)
\* maybe_flush writes at most log_rate_per_sec lines in a second, the notice
\* included, and nothing when logging is off.
RateKept ==
  pc \in {"loop", "discard", "swap", "emit", "drain"}
    => printed <= IF enabled THEN Rate ELSE 0

\* The lost lines that were reported or are still counted, or about to be.
Refused == {p \in Pushers : push[p] = "refused"}
Accounted == reported + dropped + send_drops + Cardinality(Refused)

\* The notices never report a line twice or a line that was printed.
NeverOverReported == Accounted <= lost

\* Every lost line is accounted for, in the step that loses it and in every
\* later one, whatever the threads do around the swap of a flush; but a swap
\* without quota to print the notice forgets the refused lines counted so far.
Forgotten == IF pc = "swap" /\ pc' = "emit" /\ quota = 0 THEN send_drops ELSE 0
DropsAccounted == [][Accounted' + Forgotten + lost = Accounted + lost']_vars

\* A line drained for want of quota is reported in a later second.
DropsReported == dropped > 0 ~> dropped = 0
=============================================================================
