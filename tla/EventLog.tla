------------------------------ MODULE EventLog ------------------------------
(***************************************************************************)
(* The event log of LCM (upstream/lcm/eventlog.c, ioutils.h): what          *)
(* lcm_eventlog_write_event puts in a file and what                         *)
(* lcm_eventlog_read_next_event and lcm_eventlog_seek_to_timestamp make of  *)
(* any file, whole or damaged.  A file is a sequence of 32-bit words        *)
(* (bound: channels and payloads fill whole words, so that a partial write  *)
(* and the scan for MAGIC stop at word boundaries); Radix stands for 2^32.  *)
(***************************************************************************)
EXTENDS Integers, Sequences, FiniteSetsExt

CONSTANTS Magic,         \* MAGIC, 0xEDA1DA01: as an int32_t it is negative
          Radix,         \* 2^32
          ChannelLimit   \* what the assertion on a channel's length compares with: 1000

ASSUME EventLogAssumption ==
  Radix \in Nat \ {0} /\ Magic \in 1..Radix - 1 /\ ChannelLimit \in Nat \ {0}

Channels == {c \in Seq(Nat) : Len(c) < ChannelLimit}

(* lcm_eventlog_event_t, without the number, which the log adds.            *)
Event == [timestamp : Nat, channel : Channels, data : Seq(Nat)]

High(v) == v \div Radix
Low(v) == v % Radix

(* The mutant writes the two lengths in the wrong order.                    *)
EventWordsSwapped(num, e) ==
  <<Magic, High(num), Low(num), High(e.timestamp), Low(e.timestamp),
    Len(e.data), Len(e.channel)>> \o e.channel \o e.data
(* What lcm_eventlog_write_event writes for an event.                       *)
EventWords(num, e) ==
  <<Magic, High(num), Low(num), High(e.timestamp), Low(e.timestamp),
    Len(e.channel), Len(e.data)>> \o e.channel \o e.data

(* fread32 and fread64 into a zeroed struct, whose result is not looked at. *)
Field(file, p) == IF p <= Len(file) THEN file[p] ELSE 0
Field64(file, p) == IF p < Len(file) THEN file[p] * Radix + file[p + 1] ELSE 0

Magics(file, pos) == {p \in pos + 1..Len(file) : file[p] = Magic}

(* One lcm_eventlog_read_next_event with pos words consumed.  It asserts    *)
(* that a channel's length is below the limit.  A length that reads as      *)
(* MAGIC is negative: calloc fails and fread writes through NULL.           *)
ReadNext(file, pos) ==
  LET Eof == [kind |-> "eof", pos |-> Len(file)]
      Crash == [kind |-> "crash", pos |-> pos]
  IN IF Magics(file, pos) = {} THEN Eof
     ELSE LET p == Min(Magics(file, pos))
              channellen == Field(file, p + 5)
              datalen == Field(file, p + 6)
              body == p + 6 + channellen
          IN CASE channellen = Magic \/ channellen >= ChannelLimit -> Crash
               [] channellen > 0 /\ body > Len(file) -> Eof
               [] datalen = Magic -> Crash
               [] datalen > 0 /\ body + datalen > Len(file) -> Eof
               [] OTHER -> [kind |-> "event",
                            pos |-> Min({body + datalen, Len(file)}),
                            num |-> Field64(file, p + 1),
                            event |-> [timestamp |-> Field64(file, p + 3),
                                       channel |-> SubSeq(file, p + 7, body),
                                       data |-> SubSeq(file, body + 1, body + datalen)]]

Failed == -1

(* get_event_time: where the next event begins, if its time can be read.    *)
NextEvent(file, pos) ==
  LET met == Magics(file, pos)
  IN IF met = {} \/ Min(met) + 4 > Len(file) THEN Failed ELSE Min(met) - 1

EventTime(file, at) == Field64(file, at + 4)

(* The bracket of the bisection, frac1 and frac2, after an event at `at`    *)
(* was met, which prev_frac remembers.  The mutant moves the other end.     *)
NarrowedOther(s, at, before) == IF before THEN <<s[1], at, at>> ELSE <<at, s[2], at>>
Narrowed(s, at, before) == IF before THEN <<at, s[2], at>> ELSE <<s[1], at, at>>

(* lcm_eventlog_seek_to_timestamp, with positions in words in place of the  *)
(* fractions of file_len; the middle is rounded up, as the scan from a byte *)
(* within a word finds the next word.                                       *)
SeekToTimestamp(file, timestamp) ==
  LET n == Len(file)
      Bisect[s \in (0..n) \X (0..n) \X (-n..n)] ==
        LET at == NextEvent(file, (s[1] + s[2] + 1) \div 2)
            cur_time == EventTime(file, at)
        IN IF at = Failed THEN Failed
           ELSE IF \/ at > s[2] \/ at < s[1] \/ s[1] >= s[2]
                   \/ at = s[3] \/ cur_time = timestamp
           THEN at
           ELSE Bisect[Narrowed(s, at, cur_time < timestamp)]
  IN Bisect[<<0, n, -n>>]
=============================================================================
