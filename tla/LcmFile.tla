------------------------------ MODULE LcmFile ------------------------------
(***************************************************************************)
(* The "file" provider of LCM in read mode (upstream/lcm/lcm_file.c), as    *)
(* lcm-logplayer drives it: lcm_handle dispatches the event it holds, loads *)
(* the next one and announces it, at once through notify_pipe or through    *)
(* timer_pipe and timer_thread, which sleeps until the event is due.        *)
(***************************************************************************)
EXTENDS EventLog

CONSTANTS Speeds,       \* playback speeds
          StartTime,    \* the wall clock before the first lcm_handle
          MaxTime,      \* bound of the clock
          None
Abort == -1             \* abort_cmd
UnknownTime == -1       \* next_clock_time before the first event

VARIABLES
  file,                 \* the log
  player,               \* where the application is in its calls
  speed,
  filepos,              \* of lr->log
  event,                \* lr->event, or None
  next_clock_time,
  handletime,           \* `now` of lcm_logprov_handle
  notify_pipe,          \* bytes in it
  timer_pipe,           \* times in it
  timer,                \* where timer_thread is
  abstime,              \* what it sleeps until
  clock,                \* the wall clock
  interrupted,          \* history: a signal ended a select of timer_thread
  played                \* history: the events dispatched, with the time of the call

playerVars == <<player, speed, filepos, event, next_clock_time, handletime, notify_pipe,
                timer_pipe, timer, abstime, clock, interrupted, played>>

PlayerInit ==
  /\ player = "closed" /\ speed = None
  /\ filepos = 0 /\ event = None
  /\ next_clock_time = UnknownTime /\ handletime = 0
  /\ notify_pipe = 0 /\ timer_pipe = <<>> /\ timer = "none" /\ abstime = 0
  /\ clock = StartTime /\ interrupted = FALSE /\ played = <<>>

(* load_next_event; a length that reads as MAGIC ends the process.          *)
Loaded(e, pos) ==
  LET r == ReadNext(file, pos)
  IN CASE r.kind = "event" -> e = r.event
       [] r.kind = "eof" -> e = None
       [] OTHER -> FALSE
LoadCrashes(pos) == ReadNext(file, pos).kind = "crash"

(* lcm_create("file://...") with the first event loaded and announced.      *)
Create ==
  /\ player = "closed" /\ ~LoadCrashes(0)
  /\ Loaded(event', 0) /\ filepos' = ReadNext(file, 0).pos
  /\ IF event' = None
     THEN player' = "failed" /\ UNCHANGED <<timer, notify_pipe>>
     ELSE player' = "idle" /\ timer' = "read" /\ notify_pipe' = 1
  /\ speed' \in Speeds
  /\ UNCHANGED <<file, next_clock_time, handletime, timer_pipe, abstime, clock,
                 interrupted, played>>

(* lcm_logprov_handle, up to the end of the callbacks.                      *)
Handle ==
  /\ player = "idle" /\ event # None /\ notify_pipe > 0
  /\ notify_pipe' = notify_pipe - 1
  /\ handletime' = clock
  /\ next_clock_time' = IF next_clock_time < 0 THEN clock ELSE next_clock_time
  /\ played' = Append(played, [event |-> event, due |-> next_clock_time', at |-> clock])
  /\ player' = "dispatch"
  /\ UNCHANGED <<file, speed, filepos, event, timer_pipe, timer, abstime, clock, interrupted>>

(* The time the next event is due, before the last one's when the times of  *)
(* the log descend.  The sum is a double, which is truncated towards 0.     *)
Truncated(n) == IF n < 0 THEN -((-n) \div speed) ELSE n \div speed
NextClockTime(prev_log_time, timestamp) ==
  IF speed > 0 THEN Truncated(next_clock_time * speed + timestamp - prev_log_time)
               ELSE handletime

(* Announcing: through notify_pipe at once if the event is due (or there is *)
(* none), otherwise through timer_pipe.  The mutant does both.              *)
AnnounceTwice(due) ==
  /\ notify_pipe' = notify_pipe + 1
  /\ timer_pipe' = IF due > handletime THEN Append(timer_pipe, due) ELSE timer_pipe
Announce(due) ==
  IF due > handletime
  THEN timer_pipe' = Append(timer_pipe, due) /\ UNCHANGED notify_pipe
  ELSE notify_pipe' = notify_pipe + 1 /\ UNCHANGED timer_pipe

(* The rest of it: the event is freed, the next one loaded and announced.   *)
LoadNext ==
  /\ player = "dispatch" /\ ~LoadCrashes(filepos)
  /\ Loaded(event', filepos) /\ filepos' = ReadNext(file, filepos).pos
  /\ player' = "idle"
  /\ IF event' = None
     THEN notify_pipe' = notify_pipe + 1 /\ UNCHANGED <<next_clock_time, timer_pipe>>
     ELSE /\ next_clock_time' = NextClockTime(event.timestamp, event'.timestamp)
          /\ Announce(next_clock_time')
  /\ UNCHANGED <<file, speed, handletime, timer, abstime, clock, interrupted, played>>

LoadFaults ==
  /\ \/ player = "closed" /\ LoadCrashes(0)
     \/ player = "dispatch" /\ LoadCrashes(filepos)
  /\ player' = "crashed" /\ timer' = "none"
  /\ UNCHANGED <<file, speed, filepos, event, next_clock_time, handletime, notify_pipe,
                 timer_pipe, abstime, clock, interrupted, played>>

(* lcm_destroy, after lcm_handle has failed at the end of the log or at any *)
(* time before: the abort goes through timer_pipe.                          *)
Destroy ==
  /\ player = "idle"
  /\ timer_pipe' = Append(timer_pipe, Abort) /\ player' = "joining"
  /\ UNCHANGED <<file, speed, filepos, event, next_clock_time, handletime, notify_pipe, timer,
                 abstime, clock, interrupted, played>>
Join ==
  /\ player = "joining" /\ timer = "exited" /\ player' = "destroyed"
  /\ UNCHANGED <<file, speed, filepos, event, next_clock_time, handletime, notify_pipe,
                 timer_pipe, timer, abstime, clock, interrupted, played>>

-----------------------------------------------------------------------------
(* timer_thread *)

TimerRead ==
  /\ timer = "read" /\ timer_pipe # <<>>
  /\ timer_pipe' = Tail(timer_pipe) /\ abstime' = Head(timer_pipe)
  /\ \/ abstime' < 0 /\ timer' = "exited" /\ UNCHANGED notify_pipe
     \/ 0 <= abstime' /\ clock < abstime' /\ timer' = "sleep" /\ UNCHANGED notify_pipe
     \/ /\ 0 <= abstime' /\ abstime' <= clock
        /\ timer' = "read" /\ notify_pipe' = notify_pipe + 1
  /\ UNCHANGED <<file, player, speed, filepos, event, next_clock_time, handletime, clock,
                 interrupted, played>>

(* select times out, finds timer_pipe readable, or fails with EINTR: only   *)
(* the first announces the event.                                           *)
(* The mutants sleep too short a time and do not announce.                  *)
TimerExpiresEarly ==
  /\ timer = "sleep" /\ timer_pipe = <<>>
  /\ notify_pipe' = notify_pipe + 1 /\ timer' = "read"
  /\ UNCHANGED <<file, player, speed, filepos, event, next_clock_time, handletime, timer_pipe,
                 abstime, clock, interrupted, played>>
TimerExpiresSilently ==
  /\ timer = "sleep" /\ clock >= abstime /\ timer_pipe = <<>> /\ timer' = "read"
  /\ UNCHANGED <<file, player, speed, filepos, event, next_clock_time, handletime, notify_pipe,
                 timer_pipe, abstime, clock, interrupted, played>>
TimerExpires ==
  /\ timer = "sleep" /\ clock >= abstime /\ timer_pipe = <<>>
  /\ notify_pipe' = notify_pipe + 1 /\ timer' = "read"
  /\ UNCHANGED <<file, player, speed, filepos, event, next_clock_time, handletime, timer_pipe,
                 abstime, clock, interrupted, played>>
TimerAborted ==
  /\ timer = "sleep" /\ timer_pipe # <<>> /\ timer' = "read"
  /\ UNCHANGED <<file, player, speed, filepos, event, next_clock_time, handletime, notify_pipe,
                 timer_pipe, abstime, clock, interrupted, played>>
TimerInterrupted ==
  /\ timer = "sleep" /\ timer' = "read" /\ interrupted' = TRUE
  /\ UNCHANGED <<file, player, speed, filepos, event, next_clock_time, handletime, notify_pipe,
                 timer_pipe, abstime, clock, played>>

(* Time before the first event is left out.                                 *)
Tick ==
  /\ player \in {"idle", "dispatch", "joining"} /\ clock < MaxTime
  /\ next_clock_time # UnknownTime
  /\ clock' = clock + 1
  /\ UNCHANGED <<file, player, speed, filepos, event, next_clock_time, handletime, notify_pipe,
                 timer_pipe, timer, abstime, interrupted, played>>

Application == Create \/ Handle \/ LoadNext \/ LoadFaults \/ Join
Timer == TimerRead \/ TimerExpires \/ TimerAborted

PlayerNext == Application \/ Destroy \/ Timer \/ TimerInterrupted \/ Tick
=============================================================================
