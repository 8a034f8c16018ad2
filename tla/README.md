# conftron: a verification development

conftron generates C, Python and Octave code from a set of XML files: structs,
telemetry messages and settings of a robot's software, exchanged over LCM
(Lightweight Communications and Marshalling). The repository holds the
generator, the templates of the generated code, a small run-time library, three
Python applications, and the sources of LCM under `upstream/`.

This directory holds TLA+ models of the parts that run concurrently, whose
correctness depends on the order of events, or that must agree with one another
on a format, TLC configurations that check them, and theorems that TLAPS checks.
Paths and line numbers below are relative to the repository; `lcm_udp.c`, `lcm.c` and `ringbuffer.c` are in `upstream/lcm/`.

1. [The system](#1-the-system)
2. [Modules and code](#2-modules-and-code)
3. [What the runs check](#3-what-the-runs-check)
4. [Where the code does not keep its word](#4-where-the-code-does-not-keep-its-word)
5. [What is proved](#5-what-is-proved)
6. [What is only model-checked](#6-what-is-only-model-checked)
7. [What is not modelled](#7-what-is-not-modelled)
8. [Plan](#8-plan)

## 1. The system

### Components

| component | state | operations |
|---|---|---|
| **generator** (`configuration.py`, `baseio.py`, `structs.py`, `settings.py`, `telemetry.py`, `*_templates.py`) | the parsed classes, merged over files | parse and paste includes, inherit attributes, merge classes, emit code |
| **settings run time** (generated from `settings_templates.py`, with `lcm_interface.c`) | a struct per setting, an LCM connection per class, the acknowledgement messages | `settings_init`, `settings_check`, the handlers of `_set`, `_reset`, `_query` and of a setting's own channel |
| **telemetry run time** (generated from `telemetry_templates.py`) | a static counter per class | `telemetry_init`, `<class>_telemetry_send` and each message's send function |
| **settings GUI** (`apps/settings_app.py`, over `lcm-python`) | `lc_event`, calls posted to wx | a listener thread that waits for messages, a GUI thread that handles them |
| **log applications** (`apps/logger.py`, `apps/log_player.py`) | open files | one loop each |
| **LCM core** (`lcm.c`) | `handlers_all`, an array of handlers per channel seen | subscribe, unsubscribe, publish, handle, dispatch |
| **LCM UDP provider** (`lcm_udp.c`, `ringbuffer.c`) | the receive ring, two queues of `lcm_buf_t`, a notify pipe, a table of fragment buffers, a sequence number | publish, a receiver thread, `lcm_udpm_handle`, set-up with a self-test, tear-down |
| **log file provider** (`lcm_file.c`, `eventlog.c`) | the event read ahead, two pipes, a timer thread | read, wait until the event is due, announce, dispatch; seek in a log |
| **lcm-logger, lcm-logplayer** (`upstream/lcm-logger`) | a queue bounded in bytes, a writer thread, the file | choose a file, log, stop on a signal or an error; play |
| **TCP queue provider** (`lcm_tcpq.c`, `TCPService.java`) | a connection; the server's list of clients and a list of subscriptions each | subscribe, publish, handle; accept, read, relay |
| **lcm-gen** (`upstream/lcmgen`) | a tokenizer and the declarations read | read `.lcm` files; emit C, Python, Java (and C#) |
| **code emitted by lcm-gen** (with `lcm_coretypes.h`) | blocks of memory in C | fingerprint, encode, decode, and in C size, copy, clean up |
| the Java, .NET and Python bindings of LCM | - | wrap or re-implement the library |

### How they interact

A program of the robot calls `settings_init` once and then, in its main loop,
`settings_check` and `<class>_telemetry_send`. Each class of settings has its own
`lcm_t`. Behind every `lcm_t` that has subscribed there is one receiver thread. It
shares with the program's threads:

* the **ring** (bytes of messages) and the two **queues** of structs, under
  `lcm->mutex` (except for one call, section 4);
* the **notify pipe**: a byte is in it while messages are queued. Its read end is
  the descriptor that `lcm_check` and the Python listener select on;
* the **handler tables** of `lcm.c`, which the receiver thread only asks whether
  anybody subscribes (`lcm_has_handlers`), and which callbacks change while
  `lcm_dispatch_handlers` walks them with the mutex released;
* the **exit pipe**, by which tear-down tells the thread to end.

A large message is sent as fragments under `transmit_lock`; the receiver thread
puts them together in a table with one buffer per source. The GUI publishes
requests and learns of the outcome from acknowledgements only.

The types that conftron's generator writes are compiled by lcm-gen, once for
every language. A program encodes a struct with code emitted for its language, and
whoever decodes it may be written in another: what they share is the order of the
octets and a fingerprint, which each emitter computes for itself.

lcm-logger subscribes like any program. Its handler reserves room in a queue, fills
an event and pushes it; `write_thread` pops and writes. lcm-logplayer reads the file
through the file provider, which an application drives like any other: it is told
through a descriptor that a message is there. The TCP provider has a server between the
programs, which relays what a client has subscribed to.

### What is hard here

* Two sides of a pipe and a mutex are written and read in different orders
  (`lcm_udp.c:853`, `1038`): a wakeup too few or too many.
* Ring records may be freed only at the two ends, while they are allocated by one
  thread, shrunk later, and freed by another (`ringbuffer.c:176-205`).
* Callbacks and other threads change the arrays a dispatch walks (`lcm.c:411`).
* Fragments are lost, reordered and duplicated; the code counts them.
* The set-up may fail at any stage, including after the thread has run, and is
  tried again by the next call (`lcm_udp.c:881`, `1033`).
* `lcm_check` bounds what it handles in a call, and must not block.
* Settings accept requests before the defaults are set.
* The telemetry counter is taken back in the middle of most periods.
* Two threads of the GUI hand a message over through an event and a posted call.
* The logger's queue is counted in bytes in other critical sections than it is
  filled and emptied; a write may fail, or the process die, in the middle of an event.
* One announcement must be under way for every event of a log, through one of two
  pipes and a thread that a signal can disturb (`lcm_file.c:79-107`).
* A TCP connection may end between any two words of a message, and the server's
  subscriptions only grow (`lcm_tcpq.c:280`).
* Comments of `.lcm` files are recognised among tokens, not characters
  (`tokenize.c:250`); the parser looks an array's size up while it reads the member.
* Three emitters write one format in three ways, and convert strings in three ways.
* After a failed set-up the table of fragment buffers is gone, and what counts its bytes
  is not (`lcm_udp.c:380`, 500).
* A class may be given in pieces spread over files (`configuration.py:108`).

PROJECT.json lists these under "hazards", each at its line, with the properties
that would catch it.

### What makes each part correct

* Ring: live records lie inside the array and do not overlap; `used` is their sum.
* Queues: a struct has one holder; none appears twice.
* Receive path: messages reach the callbacks once, in order of arrival, and the
  descriptor is readable exactly while one waits.
* Fragments: a completed message is one that was sent, byte for byte; the table
  stays within its limits and its accounts stay right.
* Dispatch: a message reaches the handlers there were when it came, each once unless
  something is unsubscribed meanwhile; an unsubscribed handler is not called, and not
  freed while a loop reads it unless something is subscribed meanwhile.
* Life cycle: nothing is freed under the thread, no failed set-up leaks, no wakeup
  is lost over a failure, and no set-up or tear-down waits for ever.
* Settings: the store starts with the defaults, serves requests in order, one
  acknowledgement each, within bounds.
* Telemetry: no message waits longer than its period.
* GUI: one `lc.handle` at a time, which never blocks the GUI.
* Logger: the size of its queue is that of what is queued and on its way, within the
  limit; the writer is woken to end; no file is overwritten (which does not hold, section 4).
* Log and player: what is played is what was recorded, in order, none before it
  is due, up to where the log is damaged.
* TCP: a subscriber is sent what it subscribes to, each message once, in the
  order of relay.
* lcm-gen: comments and blanks change nothing; sizes are read before arrays; what is
  encoded in one language is decoded as the same value in any other, up to what section 4
  says of strings and octets in Java; C frees exactly what it has asked for.
* Generator: code is made for everything that is declared, however it is split, in an
  order that compiles, or the generator stops.

## 2. Modules and code

| module | models | state and actions |
|---|---|---|
| `LcmRingbuf` | `ringbuffer.c` | `recs` is the list of records from `head` to `tail`, each with position and length; `Alloc`, `ShrinkLast` and `Dealloc` are the three functions, with their assertions as guards. |
| `LcmBufQueue` | the linked list of `lcm_buf_t` (`lcm_udp.c:268-304`) | one load or store per action for the receiver's unlocked `lcm_buf_enqueue` of line 752 (`Start`, `Load`, `Link`, `Move`, `Clear`) against the handler's locked one, which is free to run while the receiver is between any two of them. |
| `LcmBufPool` | the same queue as its users see it | a set of free structs, with the outcomes of the race as choices. Abstract; `LcmBufQueue` refines it, and `LcmUdpmRecv` is built from its actions. |
| `LcmUdpmRecv` | `udp_read_packet`, `recv_thread`, `lcm_udpm_handle` | a step is a critical section or a system call outside one. `rpc`, `cur` and `sz` are the thread's locals, `calls` the `lcm_handle` calls in progress (nested in callbacks), `at` and `msg` the fields of each struct. The outcome of reassembly is a choice here. |
| `LcmMailbox` | what `lcm.h` promises of a receiver | abstract: accepted messages, a readiness flag, a claim, the deliveries. |
| `LcmFragments` | `lcm_udpm_publish` and `_recv_message_fragment` | `pub` is where each thread is in its loop, `wire` the datagrams under way, `table` the buffers in order of `last_packet_time` with the bytes accounted for. A body is a function from positions to `<<message, offset>>`, so that a mixed-up message can be told from a whole one. |
| `LcmUdpmLife` | `_setup_recv_thread`, `udpm_self_test`, `_destroy_recv_parts`, `lcm_udpm_subscribe/handle/destroy` | `apc` is the stage the application thread is at, `parts` what is allocated, `rpc` the receiver thread; the queue holds kinds of messages only. Of the fragment table there is whether it exists (`frag`) and its byte total, counted in large messages; `Evicted` is `_add_fragment_buffer` with its loop. |
| `LcmDispatch` | `lcm.c` from `lcm_subscribe` to `lcm_dispatch_handlers` | the arrays keep the stale slots behind their length, as GPtrArray does; `disp` is the stack of dispatches, `ReturnTo...` is the return of a callback. |
| `Settings` | the generated settings code and `lcm_interface.c` | `pc` walks through init calls, default calls and the main loop; a message is a request and a body; `Handle` contains the whole effect of a handler: clamping, enum exit, storing, acknowledging. |
| `SettingStore` | README 3.4, 3.5, 3.7 | abstract: a value per setting, a queue of accepted requests, the last acknowledgement. |
| `SettingsApp` | `LcmListener.run` and the calls posted to wx | one action per statement of the listener's loop. |
| `Telemetry` | `<class>_telemetry_send` | `Send` is the whole function: every message's condition, then the counter. |
| `EventLog` | `eventlog.c`, `ioutils.h` | operators on a file, a sequence of 32-bit words: `EventWords` is a written event, `ReadNext` what is read of any file at any place (end, event or crash), `NextEvent` where `get_event_time` stops, `SeekToTimestamp` the bisection, a recursive function of its bracket and of the place met last. |
| `LcmLogger` | `lcm_logger.c`, `glib_util.c` | `mainpc` is where `main` is (choosing, opening, in the loop, stopping), `writer` where `write_thread` is; the queue, its size and the exit flag change in the code's critical sections. An event has the time its message carries (`recv_utime`), which is any.  `WriteFails` and `Killed` leave part of an event in the file. |
| `LcmFile` | `lcm_file.c` as `lcm_logplayer.c` drives it | `player` is where the application is, `timer` the timer thread; the two pipes hold what was written to them. |
| `LcmLogging` | the two in a row | records, ends well or badly, and plays the file (`Player == INSTANCE LcmFile`). |
| `LcmTcpq` | `lcm_tcpq.c`, `TCPService.java` | a call is the words it sends, one `SendWord` each; a connection is two sequences of words that `Cut` shortens. The server's threads are `Accept`, `Register`, `Ignore`, `AddRecord`, `Relay`, `Leave`. |
| `LcmGen` | `tokenize.c`, `lcmgen.c` | `Tokens` maps a text (a sequence of symbols) to tokens; then one action per parsing function, a declaration or a member at a time; every error ends the reading. |
| `LcmTypes` | what the emitters share | sizes of dimensions, big-endian octets, UTF-8 in both directions, fingerprints. A fingerprint is what the code hashes and adds, so that two are equal only if the code cannot tell them apart whatever the hash. |
| `LcmEmitC`, `LcmEmitPython`, `LcmEmitJava` | the emitted functions, for any type | pure operators: fingerprint, encode, decode; in C also the size, the copy, and the list of blocks a decoder asks for and a cleanup frees. Python's collects scalars into `struct` formats as the emitter does. |
| `LcmInterop` | programs of the emitted code | lcm-gen reads, one program publishes, one receives; the C receiver's handler may keep a copy (`heap`). |
| `Configuration` | `configuration.py`, `baseio.py`, `structs.py`, `settings.py`, `telemetry.py` up to the text they write | an element is a tag, attributes and children; `todo` is what is still to be read, `hash` the elements of each class; `MakeClass` makes a class from all files at once, as `parse_types` does. Every uncaught exception is the stage "exit". |

`MC...` modules give instances their constants; `MCLcmClient`, `MCSettings` and `MCParts` put
parts that do not act on one another into one run, where a behaviour has one of them. `..._proofs` modules hold
theorems, `Induction` the lemmas they share: induction over the naturals, recursive
functions, loops that end, sums, and sequences that grow at the end, lose one element or are
concatenated. Operators commented as "Mutant" are plausible bugs, each placed before
the definition it would replace; PROJECT.json names the property each one
breaks. They are not part of any specification.

PROJECT.json "map" names the lines every definition stands for.

### Abstractions common to the modules

Names in `.lcm` files and in the configuration are symbols. The words of a log are
counted in whole (a channel of one word, 2^32 stands for any radix above the
values used).

Characters of a string are their codes, below 2^16, and a decoder gets octets: whether
these are UTF-8 decides what Python's and C's strings are (C's are octets, which is
modelled as the characters they stand for, or as malformed).

Messages are numbers or small records. Channels' regular expressions are a given
relation (`Matches`). The ring's bytes are counted in units of a record header.
Rates and times are integers: rates in halves, periods in calls. Allocation does
not fail (the code does not test `calloc`).

## 3. What the runs check

Passing runs; times are for two workers.

| run | instance | states | shows |
|---|---|---|---|
| `udpm_recv` | 3 structs, a ring of two full datagrams, 4 datagrams of every outcome | 199,462 | `OneWakeup`, `OneHolder`, `AssertsHold`, the refinement `IsMailbox`, `EventuallyDelivered` |
| `fragments` | 4 threads on 3 `lcm_t`, 3 messages of 1 to 3 fragments, 2 datagrams under way, one delivered twice | 3,035,086 (2 min) | `TableSound` (with `Accounted`), `Whole` |
| `client` | dispatch: 4 subscriptions, 2 channels, dispatches nested two deep; TCP: 2 clients, one lost connection | 1,003,875 | `ListsAgree`, `Reached`, `NotAfterUnsubscribe`, `KeptUnlessSubscribed`; `WillBeSent`, `OnceInOrder` |
| `settings` | settings: an ordinary one and one with a channel of its own, 4 bodies, 3 messages, 2 per check; GUI: 4 messages; life cycle: 5 messages of three kinds, 2 failed set-ups, a limit of one large message in the fragment table | 307,862 (1.5 min) | `BoundsKept`, `IsStore` (refinement), `EventuallyHandled`; `Handshake`, `AllHandled`; `NoneStranded`, `PartsInUse`, `SetupReturns` |
| `logging` | 3 messages of four kinds (three times in any order, two sizes, one with the magic as its payload, an unwanted channel), room for two in the queue, 2 file names, paced and unpaced playing | 731,957 (2 min) | `Accounted`, `LoggerServes` of the logger; `Replayed`, `SeekLands` of the log; `OneToken`, `NeverEarly`, `EventuallyPlayed` of the player |
| `parts` | ring: 40 bytes, alignment 4, requests of 0, 2, 6, 10; queue: 4 structs in every initial order; telemetry: 3 messages of any of ten rates, `Hz` = 12, three turns; types: 18 inputs and 12 types in three languages; generator: 20 configurations | 96,279 | `Disjoint`; `ImplementsPool`: the pointer operations refine the pool for every interleaving of the race; `GapBounded`, `TurnCounts`; `Lexed`, `SizesFirst`, `Interop`, `MemoryExact`; `AsDeclared`, `DeclaredBeforeUse` |

What they say, of the parts a reader may not know:

* `Replayed`: what is played is what was accepted, in order, up to the first failed
  write. Killing the logger can add one event, of zeroes, at the end: reads of the
  header are not tested.
* `NotAfterUnsubscribe`: who is called is subscribed; and a dispatch can meet a freed
  subscription, behind which nothing is defined and the model stops, only if something was
  subscribed or another dispatch ended since it began.
* `Reached`: unless something is unsubscribed meanwhile, each handler exactly once; unless
  something is subscribed meanwhile, every one that is still there. With three handlers, of which
  the first removes the second, the third is called twice: "at most once" is not claimed.
* `SetupReturns`: the set-up and the tear-down end, unless the receiver thread has come
  to the loop that does not (`life_evict`, section 4).
* `OneToken`: between two calls of `lcm_handle` there is exactly one announcement, in
  one of the two pipes or in the timer thread; in the callbacks there is none.
* `SeekLands`: the bisection ends at a recorded event, and at one not before the time asked, whatever
  the order of the times in the file, as long as no event contains the magic behind its first word (`OnlyMarks`). The scan of
  `get_event_time` would take such a word for the start of an event: with the payload that
  holds the magic, a seek may end inside it. Playing from the start is not disturbed (`Replayed`).
* `LoggerServes`, `EventuallyPlayed`: the queue empties (what is left in it when the writer
  sees the exit flag is freed unwritten), the logger ends, the log is played to its end,
  unless a signal has interrupted the timer's `select`.
* `Lexed`: the tokens are those a reader of the text sees, whatever the style
  of the comments.
* `Interop`: for every pair of languages and of types with the same format, the
  receiver accepts and finds the value that was published. Two forms of types are
  excluded by name (`Carried`), and with Java at either end the strings and octets that it
  converts differently (`CarriedValue`), section 4.
* `MemoryExact`: the buffer is as large as the encoding; the C receiver frees
  every block once, none it does not own, and has none left at the end.
* `WillBeSent`, `OnceInOrder`: section 1's promise for TCP, however often a topic is
  subscribed and "unsubscribed".
* `AsDeclared`: when the generator has written its files, they hold the types,
  messages (with the rates they inherit) and settings (with the defaults they inherit)
  that the files declare, and none else. `DeclaredBeforeUse`: no type stands before one it uses;
  all files of the instance declare before they use, and the base types come first.

### Why the bounds are enough

* *Ring.* Ten records let the list wrap with space refused in both
  configurations. The theorem `RingSafe` covers every size.
* *Structs.* With three, one can be filled, one queued and one dispatched while
  the pool runs empty. The race needs two returns beside the unlocked enqueue;
  four structs give all of its outcomes.
* *Datagrams.* Four are one more than the structs, so that the pool runs empty,
  a record is reused and the ring wraps. `RecvSafe` and the refinement theorems
  cover every number.
* *Nesting.* `udpm_recv` has `MaxDepth` = 1: with nested `lcm_handle` calls,
  `AssertsHold` fails (section 4). `RecvSafe` does not depend on it.
* *Fragments.* Three messages on three sources fill a table with limits of one
  buffer and two bytes (the code: 1000 buffers, 16 MB), and make the eviction loop
  run twice for one insertion. Sizes give one, two and three fragments, with and
  without a remainder. Two threads on one `lcm_t` are what the transmit lock is
  for. `MaxWire` bounds the datagrams under way: a publisher waits, so that
  reordering is over neighbours only, but any datagram may be lost.
* *Set-ups.* Two failures are needed for bytes of one failed set-up to meet
  those of the next; `LifeSafe` covers any number. Five messages and a limit of one in
  the table (the code: 16 MB) are enough to be above the limit after the table is gone.
* *Dispatch.* The removal that moves a later handler before the loop's position
  needs three handlers on one channel, the pattern that matches both channels a
  fourth. The model stops at the first use of a freed handler.
* *Settings.* Three messages against two per check let one wait for the next
  check.
* *Logging.* The clock begins at 1 and the times of messages are 0, 1 and 2: they ascend, stand
  still or descend, and an event is due before, at and after it is read.
  Three messages against room for two, so that one is dropped or the
  queue is full while the writer works. Two file names make one taken and one free;
  two ticks of the clock separate "due" from "not yet". An event is 7 to 9 words, and a
  write may stop after any.
* *Types.* One text for each kind of declaration and each error of the parser; the types
  cover every primitive (no value of a `double`, which is encoded like an `int64_t`),
  enums, nested and recursive types (also through another type), arrays of constant and variable size of
  up to three dimensions, empty arrays, and strings. Values lie at the limits of
  their width; octets lie on both sides of 127, and characters take one, two and three octets.
* *TCP.* One client subscribes twice and one publishes twice: the server can hold a
  topic twice, and a subscription can end between the messages. One connection is lost, after
  any word; `lcm_handle` calls are nested two deep.
* *Configurations.* One that uses everything (includes in classes and around them, a class in
  pieces in each file, types in no class, inherited attributes), and nineteen that
  differ from it in one place, among them every way to stop but the cyclic include
  (which does not stop).
* *Telemetry.* Three turns show that nothing is carried over from turn to turn;
  rates below, at and above that of the loop, dividing it and not.

### Fairness

* `LcmUdpmRecv`: the receiver thread goes on with what it has read, `lcm_handle`
  is called again whenever the descriptor is readable and no call is in progress
  (that is what a program that selects on it does), and callbacks return. Nothing is
  assumed of the network. Nested calls are not assumed.
* `LcmUdpmLife`: the stages of the set-up are code that runs to its end; the
  self-test ends after ten seconds (`lcm_udp.c:1145`), which is the weak fairness of
  `TestFails`; the receiver thread runs. Nothing is assumed of the network or of the
  application.
* `Settings`: the program runs, and its main loop calls `settings_check` again and
  again (README:124). Messages need not come.
* `SettingsApp`: the listener and wx's main loop run.
* `LcmLogging`: `main`, `write_thread`, the player and the timer thread run, and time
  goes on. Signals, failing writes and messages are not assumed, and neither is the end
  of the logger: `LoggerServes` begins where it is asked to stop.

`CHECK_DEADLOCK FALSE` is given where the system may stop: when the bound on
messages is reached and nobody has to act, when a process has ended
(`LcmLogging`, the parts of `MCSettings` and `MCParts`), when the provider is destroyed
(`LcmUdpmLife`), when the race has lost every struct (`LcmBufQueue`), and where a dispatch
meets freed memory (`LcmDispatch`), behind which nothing is defined.

## 4. Where the code does not keep its word

Each is a run that TLC ends with a counterexample.

* `udpm_unlocked`, `PoolConserved`: `udp_read_packet` puts a struct back on
  `inbufs_empty` without the mutex (`lcm_udp.c:752`), against the comment at line 168.
  With a concurrent return in `lcm_udpm_handle` a struct is lost for good.
* `dispatch_guarantee`, `DispatchGuarantee`: the comment at `lcm.c:395` says that
  handlers below `nhandlers` are not destroyed during callbacks and that added ones
  are not called. A callback that unsubscribes one and subscribes another breaks
  both. `Reached` and `KeptUnlessSubscribed` say what does hold.
* `life_evict`, `EvictionEnds`: `_destroy_recv_parts` frees the table of fragment buffers
  (`lcm_udp.c:380-383`), which only `lcm_udpm_create` makes, and leaves
  `frag_bufs_total_size`. After a failed set-up `_add_fragment_buffer` counts a buffer that
  is in no table with each first fragment; once the total is above 16 MB, its loop (500-506,
  "find and remove the least recently updated fragment buffer") finds nothing to remove and
  does not end, and neither does `lcm_destroy`, which joins the thread.
* `logger_overwrites`, `NeverOverwrites`: "This way, we never overwrite an existing file"
  (`lcm_logger.c:337`). The name is tested first and opened later, with `fopen("w")`: a file
  that another logger has made in between is truncated.
* `strings`, `StringsAreUtf8`: "The string type encodes a NULL-terminated UTF-8 string" (the
  language tutorial, line 186). The Java code writes the low octet of each character and
  makes a character of each octet (`emit_java.c:347-349`), Python encodes and decodes UTF-8
  (`emit_python.c:161`, 378), C passes octets on. A string with a character above 127 comes out of
  Java as another one, or makes Python's decoder raise.
* `fingerprint`, `FingerprintsTell`: "Fingerprints ensure that the encoding and decoding
  methods agree on the format of a data type" (the language tutorial under
  `upstream/docs`). The hash leaves out the type of a compound member (`lcmgen.c:255`), whose
  fingerprint is added, not appended (`emit_c.c:255-263`): two structs with swapped
  compound members accept each other's messages.

Seen in the models, with no run of their own:

* The listener of the settings GUI waits for good when a message does not reach
  the end of `lc_handler` (`settings_app.py:53`, 86): when the handler raises, or
  for a leftover message of the self-test. `AllHandled` of `SettingsApp` names
  this exception (`unseen`).
* A callback that calls `lcm_handle` breaks `AssertsHold`: the inner call frees a
  record that is at neither end of the ring (`ringbuffer.c:205`). With
  `MaxDepth` = 2 TLC shows it.
* A failed self-test leaves the bytes of thrown-away messages in the notify pipe; as
  many later calls of `lcm_handle` as there were failures may return -1
  (`NoneStranded` bounds them). It also frees the table of fragment buffers: large
  messages are then lost for the rest of the program, even where the loop above ends (`Served`
  holds only for `failures` = 0 in this respect).
* A duplicated fragment is counted twice, so that a message may be completed with
  bytes missing (`lcm_udp.c:594`). `Whole` and `Accounted` say what holds for
  messages none of whose fragments came twice.
* `g_ptr_array_remove_fast` reorders handlers, against `lcm.h:205`; `Reached`
  speaks of the array's order. After a removal a handler may be called twice for one message,
  and when it is unsubscribed in the first of the two calls it is freed twice (`lcm.c:416-425`).
* A message of r per second is sent `Hz div Period + 1` times in each turn of
  `Hz + 1` calls (`TurnCounts`), which is README:98-100's rate only nearly: one of 1
  per second is sent twice a turn, in two successive calls.
* `recv_utime` of a reused struct is never reset (`lcm_udp.c:800`).
* A setting with its own channel is not subscribed to `_set`, where
  `settings_app.py:73` publishes.
* `lcm_check` tests the descriptor set although `select` failed
  (`lcm_interface.c:55`), and then blocks in `lcm_handle`; README:124 says that
  `settings_check()` is non-blocking. The model has the step (`SelectInterrupted`).
* *lcm-gen.* The size of an array is looked for among the members there are, of which the array
  is already one (`lcmgen.c:514`, 545): `int8_t n[n]` is accepted, against "Index variables must be
  declared before the array" (557). `SizesFirst` has it as its last case. In C, encoding or decoding an array of enums returns the length of the last
  element (`emit_c.c:779`, 807), which is undefined for an empty one. In Python, decoding an
  array of three or more dimensions raises (`emit_python.c:289-306`). Java reads a
  `byte` as signed, the others as unsigned (`emit_java.c:218-228`). A comment right after an
  operator is not one, `/**/` does not end where it seems to, `foo{` is one token, and a
  file that ends in an operator repeats its last character (`tokenize.c:203`). A C
  handler stub whose decoding fails does not free what was decoded
  (`emit_c.c:661-665`): `MemoryExact` is about messages that arrive whole.
* *Reading the emitters only:* the list of imports is not cleared between
  nested packages (`emit_python.c:684-765`); C# enums and arrays of several
  dimensions do not compile; lazy generation needs a strictly newer file
  (`lcmgen.c:838`).
* *TCP.* `lcm_tcpq_unsubscribe` sends SUBSCRIBE (`lcm_tcpq.c:280`): the server sends
  a topic for ever. `inet_aton(...) < 0` never holds (204); `if (self->socket)` closes
  descriptor -1 (137); the server's version is not looked at; `data_buf` is not freed
  (122-132); a lost connection is not opened again; the sends of one message are not
  locked; a nested `lcm_handle` overwrites the message that the remaining handlers are
  passed (`nested` in `OnceInOrder`).
* *Log player.* A signal that interrupts `select` in `timer_thread` loses the
  announcement: `lcm_handle` waits for ever (`interrupted` in `EventuallyPlayed`). A callback that
  calls `lcm_handle` waits for ever as well (`OneToken`).
* *Generator.* The setter's bounds of an enum are 0 and its length less one, whatever its
  `first_index` (`settings.py:55-56`, `structs.py:260-264`): with another first index the generated
  program ends on the setting's own default. `absmax` replaces a field's own `min` and `max`
  even where it is inherited (`settings.py:59`), against `settings_templates.py:184-186`. The
  telemetry of `conftron_example` gives `sim` and `flight`, where `telemetry.py:24` requires
  `simrate` and `flightrate`: the generator exits. Includes inside included parts of a
  class, a class of settings without types, and a class of types without any
  (`structs.py:418`, in the middle of writing) end in an exception; cyclic includes never
  end. A class of types in two pieces holds the base structs twice, and its telemetry
  declares their subscriptions twice (`telemetry.py:149-158`), which C refuses.

## 5. What is proved

All assumptions are the named ASSUMEs of the modules: sizes are natural numbers,
alignment and header are positive, NULL is not a struct, the structs of `inbufs_empty` are
finitely many and not none, messages of a class are
distinct, the children of an XML element are in an order. TLC evaluates them in the runs.

* **`RingSafe`** (`LcmRingbuf_proofs`): `InBounds` and `Disjoint` for every ring
  size, header, alignment and set of lengths. `Disjoint` is not inductive: what the
  next allocation needs is that the records lie in one ascending run, or in two of
  which the second ends before the first begins. That is `Rotation`.
* **`RecvSafe`** (`LcmUdpmRecv_proofs`): `TypeOK`, `OneWakeup`, `OneHolder` and the ring's
  disjointness, for any structs, ring, sizes, number of datagrams and nesting.
  The wakeup count is inductive only together with who holds which struct.
* **`ImplementsMailbox`** (`LcmUdpmRecv_proofs`): every step of the
  receive path is a step or a stutter of the mailbox.
  It needs that queued message numbers ascend and are above the delivered
  ones, and below the one being read.
* **`QueueIsPool`** (`LcmBuffers_proofs`): `LcmBufQueue`'s `ImplementsPool`, for any number of
  structs. Three facts are needed about the pointers. Every pointer, a lost one too, leads from
  what was enqueued earlier to what was enqueued later, so that the list has no cycle and nothing
  on it leads back to its first struct (`Ranked`). A struct that is not on a list
  points nowhere and is written to by nobody but its enqueuer (`Untouched`). While a race is
  under way, the list up to the address `q->tail` had before is what it was, and what is written is that
  address and the structs being enqueued (`Race`). When the race ends, either all of them are on
  the list, or some, and at least one unless the tail was already stray; which of these
  happens is the choice `EndPut` leaves open. `LcmUdpmRecv` uses the actions of the same
  `LcmBufPool`.
* **`AssertionsHold`** (`LcmUdpmRecv_proofs`): `AssertsHold`, for `MaxDepth` = 1 and everything
  else arbitrary. The ring's assertions are about the ends of its list; they hold because the
  records lie in it in the order in which they are dispatched: first the one a handler has, then
  the queued ones, then the receiver's (`ByArrival`).
* **`TablesAgree`, `HandlersKept`, `UnsubscribedIsSilent`, `EveryHandlerReached`**
  (`LcmDispatch_proofs`): `ListsAgree`, `KeptUnlessSubscribed`, `NotAfterUnsubscribe` and
  `Reached` for every set of channels, relation of matching, nesting and number
  of subscriptions. The arrays are kept by loops that append and by
  `g_ptr_array_remove`, which takes the first occurrence: the invariant is that an array
  holds a subscription at most once, that the slots behind its length are stale copies of
  handles allocated before, and that every dispatch under way has references to the
  subscriptions it is about to call. The order of a channel's array is that of the handles, so
  that a dispatch cannot pass one over. All four hold up to the first use of a freed
  subscription (`broken`), where a behaviour ends; `UnsubscribedIsSilent` includes when a
  dispatch can come to one.
* **`TableKept`, `MessagesWhole`** (`LcmBuffers_proofs`): `TableSound`, which includes
  `Accounted`, and `Whole` for any publishers, message sizes, datagram size and limits of the
  table, and a network that loses, duplicates and reorders.
  `Whole` is not inductive: what makes it so is that source and sequence number
  identify a message while fragments of it can still arrive; that a fragment
  stored is neither to be sent again nor counted again; and that the fragments' offsets tile the body, so
  that none left means every position was written. The loop that evicts buffers
  is a recursive function of the table; `SetRecursion` gives what it keeps.
* **`LifeSafe`, `WakeupKept`** (`LcmProviders_proofs`): `PartsInUse` and `Served`, and `NoneStranded`,
  for any number of failures and messages. The strengthening says what each stage has
  allocated, and that there is no subscription before a set-up has succeeded.
* **`StillSubscribed`, `PassedInOrder`** (`LcmProviders_proofs`): `WillBeSent` and `OnceInOrder`
  for any clients, topics, numbers of messages and lost connections. `TypesInv` says what the
  words of a call may be, that what follows PUBLISH in a stream is its message, if anything
  follows, and that the server's answer is the first thing a client is sent. The order is an
  invariant of a message's whole way (`InOrder`): relayed, not read yet, in the buffer with
  handlers still to be called, passed.
* **`QueueAccounted`, `OneAnnouncement`, `PlayedWhenDue`**
  (`LcmLogging_proofs`): `Accounted`, `OneToken` and `NeverEarly` for any
  messages, limit of the queue, set of names, speeds and clock. The invariants say where each
  thread is while a reservation or a byte is under way: the reservation of an event that is in no
  queue is the one `message_handler` or `write_thread` has in hand, and the announcement is in one
  of the two pipes, in the hands of the timer thread, or with the caller.
* **`ReplayedAsRecorded`** (`LcmLogging_proofs`): `Replayed`, for any messages and wherever in an
  event the recording ends. The accepted messages are those written, the one in hand and those
  queued, in this order; the written ones lie in the file one behind the other, so that what
  `read_next_event` finds at the place where it left off is the next of them, or what is left
  of the last. `EventLogAssumption` is that the magic is a word and not zero,
  `LoggerAssumption` that the exit flag and `None` are not events. That no payload
  contains the magic is not assumed: the player reads from event to event and meets payloads only
  behind a failed write.
* **`SeekLandsOnRecorded`** (`LcmLogging_proofs`): `SeekLands`, for any messages and any time, under
  `OnlyMarks`, which is part of the property. That the recursive function of the bisection exists is
  that the loop ends: the bracket becomes smaller, or its right end is met, which the
  next turn sees (`Room`; `LoopRecursion` turns this into a function). What holds at every turn is that
  the right end is the file's end or an event not before the time, and the place met last is
  one of the two ends (`LoopInvariant`). Nothing is assumed of the order of the times, which the
  code does not guarantee either (`lcm_logger.c:197` stores the receiver's time stamp): where the
  times do not ascend, events before the place may be later than the time asked for.
* **`SettingsBounded`, `ImplementsStore`** (`Conftron_proofs`): `BoundsKept` and `IsStore` for any
  settings, fields, structs and messages. Every step of the program maps to one of the store or to
  none; what has to be known is that nothing is handled before the last default is set
  (`Defaults`). `SaneAssumption` is what the generator checks of the bounds, and that they are
  numbers.
* **`HandshakeSafe`** (`Conftron_proofs`): `Handshake` for any number of messages
  (`AppAssumption`); the strengthening is what the listener knows between `select` and `wait`.
* **`ScheduleSafe`, `TurnsCounted`** (`Conftron_proofs`): `GapBounded`, `InPhase` and
  `TurnCounts` for every rate of the loop, list of messages and configuration. The
  first relates `waited` to the counter's distance from the multiple below it; the
  last counts the multiples below the counter, and uses that an interval as long
  as the period holds exactly one.
* **`SizesComeFirst`** (`Conftron_proofs`): `SizesFirst`, with `int32_t n[n]` as its last case,
  whatever files the parser is given:
  it is a theorem about `GenSpec`, whose `files` are any that `GenInit` allows, and about the
  parser alone, so that nothing of the tokens is used but that they are there. The struct that is being
  read satisfies it member by member, and dimension by dimension in the last of them; the parser
  has to refuse what would break it before it puts it there (`GenIInv`).
* **`WrittenAsDeclared`** (`Conftron_proofs`): `AsDeclared`, for any configurations and any
  order in which the classes are made. The property says which files are read without an order:
  the smallest set that has the first file and all that its members include. The reader
  follows includes one by one and may meet a file often; the invariant is that some set of files
  contains every include that was met, and that each element in them was taken or is still to be
  read (`Follows`), so that this set is closed at the end of the file. What was taken stands in the
  class's list or among the base types (`Took`). That `WithBase`, a fold that inserts at the front,
  loses nothing is an induction over its steps, as is that flattening the pieces of a class is
  their union (`FlattenFacts`). A class is made once: no class that is still to be made has an
  entry in `made` (`Makes`).

## 6. What is only model-checked

* Liveness (`EventuallyDelivered`, `EventuallyHandled`, `AllHandled`, `SetupReturns`, `LoggerServes`,
  `EventuallyPlayed`): out of the prover's reach.
* The emitted code (`Interop`, `MemoryExact`) and the tokenizer (`Lexed`): operators that
  recurse over texts, types and values.
* `DeclaredBeforeUse`: it holds where the files declare before they use, which the instance's do.

## 7. What is not modelled

* Tear-down when the exit command cannot be written (`lcm_udp.c:358-359`): the thread is then not
  joined, and what it uses is freed under it. `PartsInUse` is about tear-downs whose command is
  written; the pipe is empty when they begin.
* The text of the files that the generator writes, array sizes and C includes in it;
  what the emitted settings and telemetry code does is modelled.
* `lcm_create`, URL parsing, socket options, statistics of lost packets: sequential,
  or read by nobody.
* The file provider in write mode (one write per publish), and the seeking of the player
  by an application.
* TCP: addresses, two threads that send at once, lengths that are not those of what
  follows.
* lcm-gen: the emitter for C#, options, lazy generation, the names of files and packages,
  quoted tokens; copies in Java.
* Two threads that make the first subscription at the same time
  (`lcm_udp.c:881`): the check of `thread_created` is not locked. `LcmUdpmLife` has one
  application thread, as the programs of the repository do at that point.
* Octave functions and constants: text made from text, without state. The Java, .NET and
  Python libraries (except `pylcm_handle` as the GUI calls it, and `TCPService`): third-party
  re-implementations that conftron's programs do not link. Tests, examples, build files.
* Windows' replacements for pipes.

## 8. Plan

The modules are in place. What would add most next:

1. Composition: `LcmDispatch` under `LcmUdpmRecv`'s callbacks, so that the handlers a
   message was queued for can be related to those it reaches.
2. `Configuration`: the names of generated files and symbols, which two elements of a class may
   share.
3. The C# emitter, once it emits code that compiles.
