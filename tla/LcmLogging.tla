----------------------------- MODULE LcmLogging -----------------------------
(***************************************************************************)
(* A log's way: lcm-logger records it, ends well or badly, and              *)
(* lcm-logplayer plays the file back.                                       *)
(***************************************************************************)
EXTENDS LcmLogger, SequencesExt

CONSTANTS Speeds, StartTime, MaxTime

ASSUME PlayerAssumption == Speeds \subseteq Nat /\ StartTime \in Nat /\ MaxTime \in Nat

VARIABLES player, speed, filepos, event, next_clock_time, handletime, notify_pipe, timer_pipe,
          timer, abstime, clock, interrupted, played

Player == INSTANCE LcmFile
playerVars == <<player, speed, filepos, event, next_clock_time, handletime, notify_pipe,
                timer_pipe, timer, abstime, clock, interrupted, played>>
vars == <<loggerVars, playerVars>>

Recorded == mainpc \in {"done", "dead"}

Init == LoggerInit /\ Player!PlayerInit

Record == LoggerNext /\ UNCHANGED playerVars
PlayOn(A) == /\ Recorded
             /\ UNCHANGED <<mainVars, arrived, le, queueVars, writer, msg, accepted, dropped,
                            eventcount, torn>>
             /\ A

Next == Record \/ PlayOn(Player!PlayerNext)

Spec == /\ Init /\ [][Next]_vars
        /\ WF_vars(Main /\ UNCHANGED playerVars) /\ WF_vars(Writer /\ UNCHANGED playerVars)
        /\ WF_vars(PlayOn(Player!Application)) /\ WF_vars(PlayOn(Player!Timer))
        /\ WF_vars(PlayOn(Player!Tick))

-----------------------------------------------------------------------------
Sizes(s) == SumFunction([k \in DOMAIN s |-> IF s[k] = Flag THEN 0 ELSE Size(s[k])])

(* write_queue_size is reserved by message_handler before the event exists  *)
(* and given back by write_thread before it is written, in two other        *)
(* critical sections than the push and the pop: it is always the size of    *)
(* what is queued and on its way in or out, and never above the limit       *)
(* (lcm_logger.c:99, 169, 188).                                             *)
Accounted ==
  Running /\ ~write_thread_exit_flag =>
    /\ write_queue_size = Sizes(write_queue) + (IF le # None THEN Size(le) ELSE 0)
                          + (IF writer = "check" THEN Size(msg) ELSE 0)
    /\ write_queue_size <= MaxQueueSize

(* What is played back is what was recorded, in the order it was pushed, up *)
(* to the first event whose write failed; behind that the file may hold     *)
(* anything.  A log cut short by the end of the logger can add one event    *)
(* without channel and payload, whose header was cut and read as zeroes.    *)
(* After a clean recording every event written is played.                   *)
CutHeader(i) == /\ mainpc = "dead" /\ i = Len(played)
                /\ played[i].event.channel = <<>> /\ played[i].event.data = <<>>
Replayed ==
  LET whole == IF torn = None THEN Len(accepted) ELSE torn
  IN /\ \A i \in DOMAIN played :
          i <= whole => played[i].event = accepted[i] \/ CutHeader(i)
     /\ torn = None => Len(played) <= Len(accepted)
     /\ mainpc = "done" /\ torn = None /\ player = "idle" /\ event = None =>
          Len(played) = eventcount

(* Between two calls of lcm_handle there is one announcement, a byte in     *)
(* notify_pipe or a time on its way through timer_thread; in the callbacks  *)
(* there is none, so that a callback that calls lcm_handle waits for ever   *)
(* (lcm_file.c:211, 247, 264).                                              *)
OneToken ==
  player \in {"idle", "dispatch"} /\ ~interrupted =>
    notify_pipe + Len(timer_pipe) + (IF timer = "sleep" THEN 1 ELSE 0)
      = (IF player = "idle" THEN 1 ELSE 0)

(* No event is dispatched, or announced, before it is due, whatever the     *)
(* callbacks cost and whenever timer_thread runs.                           *)
NeverEarly ==
  /\ \A i \in DOMAIN played : played[i].at >= played[i].due
  /\ player = "idle" /\ event # None /\ notify_pipe > 0 => clock >= next_clock_time

(* A seek in a clean log that succeeds ends at an event that was recorded   *)
(* and is not before the time asked for: as long as no event contains the   *)
(* magic, which the scan would take for the start of another.  The times    *)
(* need not ascend.                                                         *)
OnlyMarks ==
  \A i \in 1..eventcount : \A k \in 2..Len(EventWords(i - 1, accepted[i])) :
    EventWords(i - 1, accepted[i])[k] # Magic
SeekLands ==
  mainpc = "done" /\ torn = None /\ OnlyMarks =>
    \A t \in 0..MaxTime :
      LET at == SeekToTimestamp(file, t)
          r == ReadNext(file, at)
      IN at # Failed =>
           r.kind = "event" /\ r.event.timestamp >= t /\ \E i \in DOMAIN accepted : accepted[i] = r.event

(* The queue is served until the end, and main gets its thread to end.      *)
LoggerServes ==
  /\ write_queue # <<>> ~> write_queue = <<>>
  /\ mainpc = "stopping" ~> Recorded

(* A log that was recorded whole is played to its end, unless a signal      *)
(* interrupts the select of timer_thread, which then announces nothing; and *)
(* lcm_destroy returns.                                                     *)
EventuallyPlayed ==
  player \in {"idle", "dispatch", "joining"} ~>
    \/ player = "idle" /\ (event = None \/ interrupted \/ torn # None)
    \/ player \in {"destroyed", "crashed"}

-----------------------------------------------------------------------------
(* A statement of the source that the code does not keep.                   *)

(* "Loop through possible file names until we find one that doesn't already *)
(* exist.  This way, we never overwrite an existing file." (lcm_logger.c:337)*)
NeverOverwrites ==
  [][mainpc = "opening" /\ mainpc' = "loop" /\ mode = "increment" => fname \notin existing]_vars
=============================================================================
