----------------------------- MODULE LcmLogger -----------------------------
(***************************************************************************)
(* lcm-logger (upstream/lcm-logger/lcm_logger.c, with the parts of          *)
(* glib_util.c that end its main loop): main chooses a file, then runs the  *)
(* GLib main loop, in which message_handler reserves room in the write      *)
(* queue and pushes each message; write_thread pops and writes.  A signal   *)
(* or an error of lcm_handle ends the loop, and main stops the thread       *)
(* through the same queue.                                                  *)
(***************************************************************************)
EXTENDS EventLog, FiniteSets

CONSTANTS Arrivals,      \* what can arrive: a channel name, a payload and its recv_utime
  Unwanted,      \* those that match CHAN under --invert-channels
  MaxMessages,   \* bound: messages that arrive
  EventSize,     \* sizeof(lcm_eventlog_event_t) + 1
          MaxQueueSize,  \* max_write_queue_size
          FileNames,     \* candidates FILE.00, FILE.01, ... as 0..n
  Flag,          \* the address of write_thread_exit_flag, pushed to wake the thread
  None

ASSUME LoggerAssumption ==
  /\ Arrivals \subseteq Channels \X Seq(Nat) \X Nat
  /\ {MaxMessages, EventSize, MaxQueueSize} \subseteq Nat
  /\ FileNames \subseteq Nat /\ 0 \in FileNames
  /\ Flag \notin Event /\ None \notin Event \cup Nat /\ Flag # None

VARIABLES
  mainpc,          \* where main is
  mode,            \* "force" (-f), "increment" (-i) or "plain"
  existing,        \* the candidates that exist
  fname,           \* logger.fname
  arrived,         \* messages handled so far
  le,              \* the event message_handler is building, or None
  write_queue, write_queue_size, write_thread_exit_flag,
  writer,          \* where write_thread is
  msg,             \* what it popped
  accepted,        \* history: the events pushed, in order
  dropped,         \* dropped_packets_count
  file,            \* the words of the log file
  eventcount,      \* of the log
  torn             \* history: number of events written before the first failed write, or None

startVars == <<mode, existing, fname>>
mainVars == <<mainpc, startVars>>
queueVars == <<write_queue, write_queue_size, write_thread_exit_flag>>
logVars == <<file, eventcount, torn>>
loggerVars == <<mainVars, arrived, le, queueVars, writer, msg, accepted, dropped, logVars>>

LoggerInit ==
  /\ mainpc = "choosing" /\ mode \in {"force", "increment", "plain"} /\ existing \in SUBSET FileNames
  /\ existing # FileNames
  /\ fname = None
  /\ arrived = 0 /\ le = None
  /\ write_queue = <<>> /\ write_queue_size = 0 /\ write_thread_exit_flag = FALSE
  /\ writer = "pop" /\ msg = None
  /\ accepted = <<>> /\ dropped = 0
  /\ file = <<>> /\ eventcount = 0 /\ torn = None

Size(e) == EventSize + Len(e.channel) + Len(e.data)

-----------------------------------------------------------------------------
(* main, before logging *)

(* The name under -i.                                                       *)
Incremented(names) == Min(FileNames \ names)

(* FILE is candidate 0.  -i takes the first name that does not exist;       *)
(* without -i and -f an existing file ends the program.                     *)
ChooseName ==
  /\ mainpc = "choosing"
  /\ fname' = IF mode = "increment" THEN Incremented(existing) ELSE 0
  /\ mainpc' = IF mode = "plain" /\ 0 \in existing THEN "done" ELSE "opening"
  /\ UNCHANGED <<mode, existing, arrived, le, queueVars, writer, msg, accepted, dropped,
                 logVars>>

(* Another program, a second logger for one, takes the name meanwhile.      *)
OtherCreates ==
  /\ mainpc = "opening" /\ fname \notin existing
  /\ existing' = existing \cup {fname}
  /\ UNCHANGED <<mainpc, mode, fname, arrived, le, queueVars, writer, msg,
                 accepted, dropped, logVars>>

(* fopen with "wb" truncates what is there; then write_thread starts and    *)
(* main subscribes and enters the main loop.  The options and names are not *)
(* looked at again.                                                         *)
OpenLog ==
  /\ mainpc = "opening"
  /\ mainpc' = "loop"
  /\ existing' = {} /\ mode' = None /\ fname' = None
  /\ UNCHANGED <<arrived, le, queueVars, writer, msg, accepted,
                 dropped, logVars>>

-----------------------------------------------------------------------------
(* The main loop *)

(* The first part of message_handler, to the end of its critical section.   *)
(* recv_utime is what the provider's receiver thread put there: the time of *)
(* a packet by the kernel's clock or of its reading, or that of a message's *)
(* first fragment (lcm_udp.c:611, 787-800), so that it need not ascend from *)
(* one message to the next.                                                 *)
Handle(channel, data, recv_utime) ==
  LET e == [timestamp |-> recv_utime, channel |-> channel, data |-> data]
      mem_required == Size(e) + write_queue_size
  IN /\ mainpc = "loop" /\ arrived < MaxMessages
     /\ arrived' = arrived + 1
     /\ IF channel \in Unwanted
        THEN UNCHANGED <<mainpc, le, write_queue_size, dropped>>
        ELSE IF mem_required > MaxQueueSize
        THEN dropped' = dropped + 1 /\ UNCHANGED <<mainpc, le, write_queue_size>>
        ELSE /\ write_queue_size' = mem_required
             /\ le' = e /\ mainpc' = "queueing" /\ UNCHANGED dropped
     /\ UNCHANGED <<startVars, write_queue,
                    write_thread_exit_flag, writer, msg, accepted, logVars>>

(* The rest of it: the event is copied and pushed outside the mutex.        *)
Push ==
  /\ mainpc = "queueing"
  /\ write_queue' = Append(write_queue, le) /\ accepted' = Append(accepted, le)
  /\ le' = None /\ mainpc' = "loop"
  /\ UNCHANGED <<startVars, arrived, write_queue_size,
                 write_thread_exit_flag, writer, msg, dropped, logVars>>

(* A signal is read from the signal pipe, whose handler calls               *)
(* g_main_loop_quit: the loop ends between two callbacks (bound: the signal *)
(* arrives in the step that reads it).                                      *)
QuitOnSignal ==
  /\ mainpc = "loop" /\ mainpc' = "stopping"
  /\ UNCHANGED <<startVars, arrived, le, queueVars, writer, msg, accepted, dropped, logVars>>

(* lcm_handle fails: lcm_message_ready ends the loop.                       *)
QuitOnError ==
  /\ mainpc = "loop" /\ mainpc' = "stopping"
  /\ UNCHANGED <<startVars, arrived, le, queueVars, writer, msg, accepted, dropped, logVars>>

SetExitFlag ==
  /\ mainpc = "stopping" /\ write_thread_exit_flag' = TRUE /\ mainpc' = "waking"
  /\ UNCHANGED <<startVars, arrived, le, write_queue,
                 write_queue_size, writer, msg, accepted, dropped, logVars>>

(* The mutant sets the flag and leaves the thread asleep.                   *)
PushExitFlagNever ==
  /\ mainpc = "waking" /\ mainpc' = "joining"
  /\ UNCHANGED <<startVars, arrived, le, queueVars, writer, msg, accepted, dropped, logVars>>
PushExitFlag ==
  /\ mainpc = "waking" /\ write_queue' = Append(write_queue, Flag) /\ mainpc' = "joining"
  /\ UNCHANGED <<startVars, arrived, le, write_queue_size,
                 write_thread_exit_flag, writer, msg, accepted, dropped, logVars>>

(* What the process holds in memory is gone at its end, however it ends:    *)
(* at a clean one main frees what is left in the queue.                     *)
ProcessEnds(how) ==
  /\ mainpc' = how /\ writer' = "exited"
  /\ arrived' = 0 /\ dropped' = 0 /\ le' = None /\ msg' = None
  /\ write_queue' = <<>> /\ write_queue_size' = 0 /\ write_thread_exit_flag' = FALSE

(* g_thread_join and the clean-up.                                          *)
Join ==
  /\ mainpc = "joining" /\ writer = "exited"
  /\ ProcessEnds("done")
  /\ UNCHANGED <<startVars, accepted, logVars>>

-----------------------------------------------------------------------------
(* write_thread *)

Running == mainpc \in {"loop", "queueing", "stopping", "waking", "joining"}

Pop ==
  /\ Running /\ writer = "pop" /\ write_queue # <<>>
  /\ msg' = Head(write_queue) /\ write_queue' = Tail(write_queue) /\ writer' = "check"
  /\ UNCHANGED <<mainVars, arrived, le, write_queue_size, write_thread_exit_flag, accepted,
                 dropped, logVars>>

(* Under the mutex.  With the flag set the popped event is not written.     *)
(* The mutant forgets the length of the channel's name.                     *)
CheckForgettingChannel ==
  /\ Running /\ writer = "check"
  /\ IF write_thread_exit_flag
     THEN writer' = "exited" /\ UNCHANGED write_queue_size
     ELSE writer' = "write" /\ write_queue_size' = write_queue_size - EventSize - Len(msg.data)
  /\ UNCHANGED <<mainVars, arrived, le, write_queue, write_thread_exit_flag, msg, accepted,
                 dropped, logVars>>
Check ==
  /\ Running /\ writer = "check"
  /\ IF write_thread_exit_flag
     THEN writer' = "exited" /\ UNCHANGED write_queue_size
     ELSE writer' = "write" /\ write_queue_size' = write_queue_size - Size(msg)
  /\ UNCHANGED <<mainVars, arrived, le, write_queue, write_thread_exit_flag, msg, accepted,
                 dropped, logVars>>

Write ==
  /\ Running /\ writer = "write"
  /\ file' = file \o EventWords(eventcount, msg) /\ eventcount' = eventcount + 1
  /\ writer' = "pop" /\ msg' = None
  /\ UNCHANGED <<mainVars, arrived, le, queueVars, accepted, dropped, torn>>

(* lcm_eventlog_write_event fails and leaves the first words of the event   *)
(* in the file (bound: at most one write fails).  errno is looked at after  *)
(* strdup, fprintf and free may have changed it: the process ends or not.   *)
WriteFails ==
  /\ Running /\ writer = "write" /\ torn = None
  /\ \E n \in 0..Len(EventWords(eventcount, msg)) - 1 :
       file' = file \o SubSeq(EventWords(eventcount, msg), 1, n)
  /\ torn' = eventcount
  /\ \/ ProcessEnds("dead") /\ UNCHANGED <<startVars, accepted, eventcount>>
     \/ /\ writer' = "pop" /\ msg' = None
        /\ UNCHANGED <<mainVars, arrived, le, queueVars, accepted, dropped, eventcount>>

(* The logger is killed: of what stdio still held, any number of words are  *)
(* missing at the end.                                                      *)
Killed ==
  /\ Running /\ ProcessEnds("dead")
  /\ \E n \in 0..Len(file) : file' = SubSeq(file, 1, n)
  /\ UNCHANGED <<startVars, accepted, eventcount, torn>>

Main == ChooseName \/ OpenLog \/ Push \/ SetExitFlag \/ PushExitFlag \/ Join
Messages == \E a \in Arrivals : Handle(a[1], a[2], a[3])
Writer == Pop \/ Check \/ Write \/ WriteFails

LoggerNext == Main \/ OtherCreates \/ Messages \/ QuitOnSignal \/ QuitOnError \/ Writer \/ Killed

LoggerFairness == WF_loggerVars(Main) /\ WF_loggerVars(Writer)
LoggerSpec == LoggerInit /\ [][LoggerNext]_loggerVars /\ LoggerFairness
=============================================================================
