# TEE-PA in TLA+

TEE-PA collects the audit log of a Linux device through a trusted application
and hands it to SPADE for provenance analysis. This directory models the way of
a record from the system call that causes it to SPADE, the measurement of the
kernel, and the heartbeat and the watchdog that watch a device from the two ends. TLC checks the models on small
instances; TLAPS proves the main safety properties for all sizes.

    tlc -workers 2 -config audit_queue_race.cfg MCAuditQueue     # a run
    tlapm AuditQueue_proofs.tla                                  # the proofs of a module

`PROJECT.json` lists components, runs, mutants, the map from definitions to
source lines, findings, hazards and theorems.

## 1. The system

```
 Linux (normal world)              secure world        host
 task: audit_log_end --enqueue-->
             ring buffer                                listen -> iot_device -> Heartbeat
 kauditd <---dequeue---                                   |                       | ssh
    | ta_invoke                                           v                       v
    +-----------------------> TA-Collect --TCP--> listenToClient             the devices
                                                   | parseEventLog
                                      audit_buffer, audit_buffer_hearbeat, audit
                                        | save        | logmatch             | listen_client
                                        v             v                      v
                                       file    executing_tasks             SPADE
```

| Component | Source | State | Operations | Interaction |
|---|---|---|---|---|
| Ring buffer and kauditd | `qemu/linux/audit_qemu.patch` | `test_queue`, `queue_head`, `queue_num`, `tee_ctx`, the batch | `enqueue`, `dequeue`, `audit_log_end`, `kauditd_thread`, `send_eventlog_ta_collect` | every task of every CPU and kauditd share the words without a lock; kauditd calls the TA |
| TA-Collect and its session | the patch, `collect/ta/ta_collect.c`, `collect/host/main.c` | tee contexts, shared buffers, the TA's socket `h`, sockets, heap | `ta_create_session`, `ta_invoke`, `TA_OpenSessionEntryPoint`, `show_recv_msg`, `send_event_log`, `test_tcp_connect` | SMC calls from the kernel, a new TCP connection per batch |
| Log Receiver, buffers | `Log_Receiver/src/{tcp_server,unix_server,log_buffer}.py` | three deques, the save file, threads and timers | `listen`, `listenToClient`, `parseEventLog`, `save_audit_log`, `logmatch`, `listen_client` | a thread and two timer chains per TCP connection, a thread per SPADE connection |
| Log Receiver, heartbeat | `Log_Receiver/src/{main,tcp_server,task_variable}.py` | `iot_device`, `executing_tasks` | `run`, `register_task`, `execute_command`, `updated_task`, `check_expire`, `logmatch` | lists shared by three threads without a lock; SSH to the devices; the answer comes back as an audit record |
| Translation of records | `tcp_server.py` | the stream of each connection, the lines made of it, the flags of the tasks | `recv` and `splitlines`, `parseEventLog`, `translate_audit_log`, `format_audit_msg`, `logmatch` | any message of any TA comes to the same port |
| Kernel integrity TA, Memory-Introspection PTA | `kernel_integrity/`, `pta/memory_introspection.c` | the measurement buffer, `h` | `pta_invoke`, `send_event_log`, `get_memory_address`, `communication_test_ta_to_pta` | client, TA, PTA, TCP |
| Watchdog PTA | `pta/watchdogtimer.c`, `watchdog/host/main.c` | two hardware registers | `testWDTOn` | the heartbeat's command runs the client; the timer resets the device, and with it all of the above that is on the device |
| SPADE reporter | `SPADE/spade_src.patch` | | reading the socket, the table of Arm system calls | |

What is hard here, and hard to test:

- the ring buffer's words are updated by tasks and kauditd without a lock, from
  values loaded earlier (lost updates, one slot written twice);
- the wakeup of kauditd, its threshold and the end of a batch (`dequeue()`'s
  result is compared with a value it never returns);
- a check and a `popleft()` of a deque in two steps, by a number of threads that
  grows with every connection, which TA-Collect makes for every batch;
- lists that one thread goes through while another removes from them;
- the receiver or a device going away in the middle of a call, and what is left
  allocated by the error path;
- `recv()` returning any part of the stream, which is parsed at once: a record cut
  in two is parsed as two;
- a digest handed on through a buffer without room for a terminator, by calls whose
  results nobody looks at;
- a heartbeat command that comes when the watchdog's timer is about to expire, and
  the order in which its two registers are written;
- one save file that several chains have open at once;
- things that must happen in the end: a batch, a forwarded line, the expiry of a
  dead device, recovery after an outage.

`PROJECT.json` has each of them under "hazards", at its line, with the properties
that would catch it.

## 2. The modules

| Module | Models | Composition |
|---|---|---|
| `AuditQueue` | ring buffer, `audit_log_end`, kauditd, batches | implements `BoundedFifo` when calls do not overlap |
| `BoundedFifo` | abstract: a first-in first-out queue with a capacity | |
| `CollectSession` | session, shared memory and sockets below `ta_invoke` | looks inside the outcomes `SessionFails`, `InvokeSucceeds`, `InvokeFails` of `AuditQueue` |
| `BatchProtocol` | abstract: what `send_eventlog_ta_collect` does with its session | implemented by `AuditQueue` and by `CollectSession` |
| `Watchdog` | PTA, client programs, timer | |
| `Device` | a device as a whole, and its reset | composes `CollectSession` and `Watchdog` |
| `KernelIntegrity` | client, TA and PTA of a measurement | |
| `DrainedDeque` | what one buffer of the receiver promises: check, then pop, by any number of threads | |
| `LogReceiver` | connections, parsing, saving, matching's draining, forwarding | its three buffers are instances of `DrainedDeque` |
| `LogTranslation` | from the bytes of a connection to typed lines, and what `logmatch` reads in them | the lines that `LogReceiver` starts from, the confirmations that `Heartbeat` starts from |
| `Heartbeat` | registration, tasks, SSH commands, matching, expiry | |
| `MC*` | symmetry sets and constants for TLC, where a module needs any | |
| `*_proofs` | theorems about `AuditQueue`, `DrainedDeque`, `LogReceiver`, `LogTranslation`, `Heartbeat`, `CollectSession`, `KernelIntegrity` and `Device` | `Device_proofs` proves those of `Watchdog` and rests on them and on those of `CollectSession` |

Operators that end in `_slip` are wrong variants of the definition that follows;
they are used by no specification. `PROJECT.json` says under "mutants" which
property each of them breaks.

### AuditQueue

One action is one access to a shared word, in the order of the C statements:
`EnqueueCheck` reads `queue_num` against `QUEUE_SIZE`, `EnqueueIndex` computes the
slot, `EnqueueCopy` is the `strcpy`, `EnqueueLoad` and `EnqueueStore` are the two
halves of `queue_num++`; `Dequeue*` likewise. `AuditLogWake` is the end of
`audit_log_end` (record on the audit skb queue, kauditd woken); `KauditdWake` and
`KauditdCheck` are the wait and the test for 500 records; `StartBatch`,
`SessionFails`, `LoopAppend`, `LoopEnd`, `InvokeSucceeds` and `InvokeFails` are
`send_eventlog_ta_collect`. A record is a serial number and a length. A local
that is not assigned is `Blank` or `NoLen`.

`Overlap = TRUE` is the code as it is. `Overlap = FALSE` lets no call of `enqueue`
or `dequeue` start inside another: it shows what the functions do by themselves,
and that the missing lock is all that is wrong with them.

Abstracted: `strcpy` is one step (a slot read half written is not modelled);
memory is sequentially consistent; `audit_rate_check()` is true (when it is false
nothing is enqueued).

`enqueue` does not look at the length of a record (`strcpy` into 1024 bytes, and the
`len` it has computed is unused), and audit can make longer ones of long arguments
and paths. `EnqueueOverrun` is that copy. What the kernel does after it is undefined,
so the behaviour ends there: every property is about behaviours in which all records
so far have fitted their slots (`DATA_SIZE`), `SummaryFits` in particular. That they
fit is nowhere guaranteed; it is a hazard without a property.

### CollectSession

TA-Collect's flags make one instance per session, so `sockets`, `h` and `ab` are
indexed by the client: kauditd or the client program. `tee_ctx`, `contexts` and
`shm` are the kernel's. `SendBatch`, `OpenContext`, `OpenSession`, `SessionFails`,
`AllocShm`, `InvokeReturns` and `InvokeFails` are the kernel's calls and their
error paths, `TaOpenSocket`, `TaSend` and `TaCloseSocket` those of the TA.
External, from how the code uses it: OP-TEE destroys an instance, its heap and
its sockets with the session; a socket call fails when the receiver cannot be
reached; OP-TEE comes up once (`Boot`), the receiver comes and goes (`Network`).

### BatchProtocol

`AuditQueue` takes the outcome of a call of the TA as given and follows the records;
`CollectSession` takes the records as given and follows the call. `BatchProtocol`
is what they have in common: a batch that needs a session, opens it or not, and is
delivered or fails, where only a delivered batch leaves the session open. Each
module has the protocol as an instance under its own reading of `open` and `call`
(`Batch`), and `ImplementsBatch` says that it implements it. An outcome that the
one supposes and the other cannot produce would show here.

### Watchdog and Device

A heartbeat command (`WdCommand`) runs the client program, which opens a session
(`WdOpenSession`, or `WdExit` when it cannot) and makes two calls. `WriteWdog` and
`WriteRstc` are the two register writes of `testWDTOn()`: the count, then the kind
of reset. Any number of client programs may run at once, but OP-TEE lets one call at
a time into a PTA that does not declare itself concurrent (`PtaBusy`; the flags are
`PTA_DEFAULT_FLAGS`), so that only the timer goes on between the writes of a call;
the two calls of different programs come in any order. Every command of the PTA
arms the timer; `GPIO_OFF` does too, so nothing turns it off. External: the timer
counts while a reset is configured (`WdTick`) and resets the device at zero
(`WdReset`). The repository's README says that hardware functions are not
supported under QEMU: there the writes have no effect; the model is of the board.

`Device` puts `CollectSession` beside it. The two share no state until `Reset`,
which ends every call of both in the middle and takes contexts, shared memory,
instances and sockets back to what they are at boot; the Log Receiver and whether
it can be reached are not touched. A client program opens a session only once
OP-TEE is up.

### KernelIntegrity

`KiOpenSession`, `KiInvoke` and `KiCloseSession` are the client program, with any
command and parameter types; `PtaOpen`, `PtaInvoke` and `PtaClose` are
`pta_invoke()`, `KiSocket*` and `KiSend` its `send_event_log()`. Memory is the
client's buffer and whatever follows it. The client of the repository has a buffer of
64 bytes; the TA serves any client, and `size`, which stands for `memref.size`, is any
of `BufSizes`. The PTA copies `COPY_LEN` digits and no NUL whatever the size is, and
`strlen()` goes on behind the buffer until it meets a NUL.
`bytes2hex` is the conversion, digit by digit.

Abstracted: SHA-256 is a constant, `TestHash`. What is reported is the digest of the
PTA's fixed test payload; `get_memory_address()` digests the kernel's text, but
shows it in a debug message only and is not what the TA asks for. `pta_call()` of
the TA is used by nothing.

### LogTranslation

A message is a sequence of symbols: keywords the code looks for, commas, ends of
line, arguments in hexadecimal, other text. `AppendRecord` is a turn of kauditd's
loop, which puts a record and an end of line into the batch; `SendBatch` is the batch
on its way, on a connection of its own; `SendOther` is anything else that comes to the
port (`test_tcp_connect`, the reports of the kernel integrity TA). `Recv` takes any
part of the stream, up to `RECV_SIZE`, even ending inside a symbol, which leaves two
`"part"`s that match nothing. `ParseLine` is one turn of the loop of `parseEventLog`:
the line up to the next end of line, or up to the end of what was received
(`Line`), the tests of `translate_audit_log` in their order (`Tests`),
`format_audit_msg` with what stands before the first and after the last comma. The
next `Recv` of a connection waits until all is parsed, other connections do not.
`logmatch` reads a line as the code does: what follows `proctitle=`, decoded when it
is all hexadecimal, must be a substring of the command of a task. `cut` remembers
the records that a `recv()` ended inside of. Batches are formed here independently of
each other, which is more than kauditd does: it has one at a time.

The words of a record are the kernel's, which is not in the repository, and
`RecordAssumption` says what is supposed of them: a record begins with `audit(`, and
there is something after `proctitle=`. `OtherAssumption`: no other message has both
"audit" and a keyword. `"part"` and `type=` are words of the model, and no record or
command has them as symbols.

`KeptWhole` says what it is to lose nothing, without the code's functions: all of the
record but one comma is in the line, what follows the comma, then the type, then what
is before it. `Plain` are the records of which this can be said: they have one comma,
the one before `node=`, and no keyword but that of their type; those of system calls
may go on to mention others (`items=` has `item` in it), which is why the order of the
tests matters. Of a record with a comma in a file name or a command, all between the
first and the last comma is lost, though `recv()` has not cut it;
one that mentions a keyword there may get another type.
`HasCommand` looks for the symbols of the command in the line itself, so that a part
of a command that `recv()` has cut does not count.

Met on the way: the reports of the kernel integrity TA have no "audit" in them and
are dropped by the receiver, which `LineFromStart` shows as a guarantee.

### DrainedDeque and LogReceiver

One action is one deque operation, which the interpreter lock makes atomic.
`Check` and `Pop` are the two steps of `while len(d) > n: d.popleft()`;
`PopEmpty` is the IndexError, which ends the thread (`Killed`); `Stop` is a thread
that ends because its peer has gone (`Stopped`), and drains no more. In `LogReceiver` a
connection's `Recv` brings some lines, which `AppendSave`, `AppendMatch` and `AppendAudit` put
into the deques one after the other; `Save*` is a chain of `save_audit_log`,
`Match` the draining of a chain of `logmatch`, `Send*` a thread of
`listen_client`. `SendFails` is a `send()` to a SPADE that has gone. Connections
are never closed by `listen_client` (the comment at `unix_server.py:34` says they
are, as appropriate).

`SaveOpen` and `SaveWrite` are `open(name, "w")`, which empties the file, and the text
that reaches it when it is closed. Chains share the file, and two may have it open at
once: the second to write does so from the start, over what the first has written, and
leaves the end of a longer text behind its own. So the file may mix two rounds, older
lines behind newer ones, and no property speaks of its order; `OrderKept` speaks of
what a chain has taken for one writing and of each connection of SPADE.

The order that is kept is that of a TCP connection. TA-Collect opens one per batch
(`ta_collect.c:89`), each with a thread of its own, so that two batches of a device may
be appended line by line between each other: nothing keeps the order of a device.

Abstracted: lines are numbers and of one length in the save file, which has one name
(in the code one per hour); `send()` takes a whole line.

### Heartbeat

`Accept`, `AcceptScan`, `AcceptQueue` are `listen`, going through
`executing_tasks` one element at a time; `PopDevice` to `EndOfTurn` are the
Heartbeat thread, `StartUpdate` to `FinishUpdate` `updated_task`, `PassFlag` and
`TestExpired` the two tests of `check_expire`; `MatchNext`, `MatchTask` and
`MatchDone` are `logmatch`. The positions `aidx`, `idx` and `midx` are those of
Python's list iterators: removing an element moves the ones behind it under them.

Abstracted: time is what a task has left, counted down by `Tick`; a random token
is a member of `Key` that is in use nowhere; a command's log is its token, seen
zero or more times (single-word commands are logged in quotes, so that the
substring test of `logmatch` is met by the key commands only); one chain of
`logmatch` stands for all, since they only set flags; SSH runs the command, or
raises one of `SshErrors`.

## 3. Runs

| Run | Checks | Shows |
|---|---|---|
| `audit_queue_race` | `TypeOK`, `DequeueNeverEmpty`, `SummaryFits`, `ThresholdServed` | with free overlap, `queue_num` never goes negative, no batch dequeues from an empty queue or, while records fit their slots, outgrows its buffer, and no wakeup is lost |
| `audit_queue_serial` | `Accounted`, `InOrder`, `LengthAssigned`, `ImplementsFifo`, `ImplementsBatch` | without overlap the buffer is a bounded FIFO, no accepted record is lost, batches are in order, `log_msg_len` is assigned when used (with overlap it may not be: a lost update can end the loop at its first record); kauditd keeps to the batch protocol |
| `audit_queue_lost` | violates `Accounted` | with overlap accepted records disappear |
| `device` | `TypeOK`, `SocketsBounded`, `SendsOnOpenSocket`, `ContextHasSession`, `LeakOnlyByFailedBatch`, `ResetOnlyWhenSilent`, `Recovers`, `BatchesAcrossResets` | with resets at any point: sockets and heap stay bounded, nothing is sent on a closed socket or session, only a failed batch leaks, batches arrive again after an outage; the watchdog resets only a device that was silent for the whole time |
| `collect_session_leak` | violates `LogsArrive` | failed batches use up the shared memory, and then no batch ever arrives |
| `deque_drain` | `DequeTypeOK`, `Reserve`, `Survivors` | IndexError ends only threads in excess of `LOW + 1`, those counted that have stopped because their peer had gone |
| `log_translation` | `PlainKeptWhole`, `LineFromStart`, `ConfirmedByWholeCommand` | wherever `recv()` cuts, a plain record that it does not cut loses nothing but its comma, nothing but audit records is kept and the end of one is not taken for one, and a task is confirmed only by a line with the whole command of a record |
| `log_receiver_forward` | `TypeOK`, `OrderKept`, `ForwardedOnce`, `OnlyOldestDropped`, `LineLeaves` | forwarding keeps the order of each TCP connection, sends nothing twice and drops only the oldest lines; while SPADE is connected a line is sent once `AUDIT_LOW` lines have come after it, unless a buffer full of newer ones pushes it out or the send fails |
| `log_receiver_save` | `OrderKept`, `SavedOnce`, `ChainsSurvive`, `BuffersDrained` | what a chain saves is in the order of each connection, no line is in the file twice though chains write over each other, IndexError never ends the last chain, and buffers are drained although chains die |
| `kernel_integrity` | `KiTypeOK`, `ReportIsDigest`, `NothingLeftOpen` | whichever call fails, a report begins with the digest or is empty, and is the digest if the buffer has room for a NUL; no session or socket is left |
| `heartbeat_watch` | `TypeOK`, `EveryDeviceWatched`, `DeadDeviceRemoved` | a device that connects gets a task, and the tasks of a device that is down are removed for good |
| `heartbeat_crash` | violates `DeadDeviceRemoved` | an OSError of `connect()` ends the Heartbeat thread |

The three violations are findings in `PROJECT.json`, with the lines they
disagree with. What they mean for the code: `enqueue` and `dequeue` need a lock;
`ta_invoke` must free `device_shm` and `send_eventlog_ta_collect` must close its
context when the invocation fails; `execute_command` must catch `OSError`.

More things met while modelling have no run: a report of the kernel integrity TA may
end in bytes that follow the client's buffer (`kernel_integrity_ta.c:218`); the PTA
copies 64 bytes whatever the size of that buffer is (`memory_introspection.c:167`),
where `pta_memory_introspection.h:16` has `TEE_ERROR_SHORT_BUFFER` for one that is too
small, and in `kernel_integrity` it writes behind a buffer one byte short;
`format_audit_msg` divides a record at every comma and keeps the first and the last
part (`tcp_server.py:23`), so that a comma in a file name loses what is between; the last
30 lines stay in `log_buffer.audit` until more come (`unix_server.py:37`), as do fewer than 500
records in the ring buffer; `updated_task` sets the expiry to 15 seconds from now
though its comment speaks of an extension (`main.py:67`, `:74`); and devices
registered in one turn share a command, so that the log of one confirms the task
of another (`main.py:43`, `tcp_server.py:155`).

### Bounds, and why they are enough

- `audit_queue_race`, `audit_queue_serial`, `audit_queue_lost`: two tasks and
  kauditd are enough for every pairwise race on the three words (a lost update
  needs two parties, one slot written twice needs two tasks); three slots make the
  ring wrap and fill, and four to six records make a second batch follow a first.
  `MaxSerial` bounds the records of a behaviour.
- `device`: three buffers and five contexts let failures go by before the pool is
  used up, and contexts outlast it; two client programs run at once, so that one can
  load a timer that the other has armed. `MaxCommands` bounds the commands. A timeout
  of two lets a client program come late and yet in time.
- `collect_session_leak`: four buffers and six contexts; nothing else is bounded.
- `kernel_integrity`: a digest of two bytes, `09` and `ab`, with digits on both sides of
  `9`/`a`; buffers one byte smaller than the four digits, as large, and larger with room
  for a NUL; every pattern of NUL and text behind them; and two runs, the second after
  whatever the first left behind.
- `log_translation`: records of five kinds (one with two commas and a second keyword)
  and two messages that are none, batches of up to three on one connection, divided at any place, inside a symbol too. `MaxCuts`
  bounds the records that are cut to two; each may be cut again and again. Each
  connection is parsed by itself, and the lines of two would only be put one after
  the other.
- `deque_drain`: four threads with `LOW = 1` are two in excess, so that IndexError
  happens twice.
- `log_receiver_*`: two connections race on each buffer, three SPADEs on the one
  they share; buffers of one or two lines overflow. In `log_receiver_forward` one line is
  left behind and two make the buffer full, so that a line waits, is sent, or is pushed
  out, and three threads are one too many for the last lines. `log_receiver_save` has two
  lines, so that a chain with one, or with none, writes over the text of another, and a
  low mark of nought, so that IndexError ends one; the theorems are for any number.
  `MaxLines` bounds a `recv()`, `MaxLog` a behaviour. Each run keeps one part busy and
  leaves the marks of the others out of reach, since the parts share no state but the
  lines.
- `heartbeat_*`: two devices share a command, race for the list and are passed over
  by removals; one of them may go down for good, and can do all the other can.
  `MaxConnect` bounds the connections that find no task; with two of them
  `EveryDeviceWatched` shows that no device is forgotten, not that devices which
  connect without end cannot keep an older one waiting. `MaxInFlight` bounds the logs
  on the way (two commands in flight differ from one only in which is lost). Tokens
  suffice for a fresh one always to exist: TLC would report a deadlock otherwise.

Deadlock is checked in `heartbeat_watch`, `device`, `collect_session_leak` and
`deque_drain`. The others end when their records or runs are used up, and
`heartbeat_crash` with the thread.

### Fairness

- `AuditQueue.FairSpec`: kauditd is a kernel thread that is scheduled while it is
  runnable; a task inside `audit_log_end` finishes it. Tasks need not log.
- `CollectSession.FairSpec`: a call that has begun returns. `send` has no timeout
  (`ta_collect.c:75`), but TCP gives up in the end. Linux need not send batches:
  `Recovers` and `LogsArrive` suppose it does.
- `Device.FairDevice`: kauditd's calls go on as above, and OP-TEE comes up after a
  reset. Nothing is supposed of the timer, and client programs of the watchdog need
  not go on, nor be run.
- `LogReceiver.FairSpec`: Python's threads and timers run. Devices and SPADE need
  not connect or send.
- `Heartbeat.FairSpec`: the receiver's threads run, time passes, and the logs of a
  command come to an end. Devices need not connect or answer.

## 4. Proofs

All are for every value of the constants that meets the named assumptions.

- `AuditQueue_proofs` from `QueueAssumption` (sizes are positive) and
  `SummaryAssumption` (limit + the longest record that fits a slot + newline + NUL
  fit in `summary_log`; 10000 + 1023 + 2 <= 12000). Records may be of any length; the
  first that does not fit its slot ends the behaviour. The invariant `RaceInv` joins to
  `TypeOK` that `queue_num` is positive from kauditd's test of the threshold until
  its decrement, and so is the value it has loaded for it (`SeenNonEmpty`: tasks
  only ever add, and kauditd alone takes away), and that a batch is within the
  limit while the loop goes on (`BelowLimit`). It holds with
  overlapping calls. Theorems: `TypeCorrect`, `NeverDequeuesEmpty`,
  `SummaryNeverOverflows`. With it every step is one of `BatchProtocol` or leaves
  its variables alone: `QueueImplementsBatch`. Without overlap, `SerialInv` says
  that one call at most is inside `enqueue` or `dequeue` (`OneCall`), and that the
  first record of a batch is taken from a queue of at least two, so that the loop
  condition never meets a length that was not assigned (`FirstOfMany`):
  `SerialLengthAssigned`. It rests on `ThresholdAssumption` too: a batch passes the
  limit before it has used up the records that triggered it.

  Without overlap the ring is shown to be a queue. `SlotInv` fixes the slot a task
  is about to write and the one kauditd is about to read; lemmas on the index modulo
  `QUEUE_SIZE` (`Wrap`, `SlotsDiffer`, `NextSlot`) say that slots fewer than
  `QUEUE_SIZE` apart differ, so that the copy of a task touches none of the records
  waiting (`RingWrite`), storing `queue_num + 1` adds that slot to them (`RingGrow`)
  and storing `queue_num - 1` removes the first (`RingShrink`). Each access is then a
  step of `BoundedFifo` or none: `RingIsFifo`. `GrowsInv` adds up the lengths: `k`
  records take at least `k * (MinLen + 1)` characters, and with those still waiting
  they make up the threshold, so the loop is left by the limit and never because the
  queue is empty, which would drop the record in hand: `NothingLost`. `OrderInv` is a
  chain of five sets of serial numbers, each below the next: sent or failed, in the
  batch, in kauditd's hand, waiting, and being written: `BatchesInOrder`.
- `DrainedDeque_proofs` from `DequeAssumption`. A thread about to pop has seen more
  than `LOW` records, so the records left and the threads that have not looked
  yet, or have stopped, outnumber those about to pop: `Reserve`. An empty deque then
  means that more than `LOW` other threads are running or have stopped: `Survivors`.
  Where no thread stops, as with the chains of `save_audit_log` and `logmatch`, they
  are running: `DrainersLeft`. The proof counts
  threads with the theorems on finite sets. Theorems: `DequeTypeCorrect`,
  `ReserveKept`, `DrainingSurvives`, and `FewThreadsNeverFail` (up to `LOW + 1` threads IndexError cannot come up).
- `LogReceiver_proofs` from `ReceiverAssumption`. None of the invariants of the runs is
  inductive: that what was sent or taken is in order says nothing of what comes next.
  `ReceiverInv` follows the lines. `LinesInv`: those a connection has in hand are
  its own and the newest. `SaveInv`: of each connection, what a chain of
  `save_audit_log` has taken comes before what is in `audit_buffer`, and that before
  what is still to be appended (`Unsaved`, which only `Recv` and `AppendSave`
  change). `SendInv`: the same for `listen_client` and `log_buffer.audit`, what a
  thread has sent comes before what it has in hand, and no two threads have taken
  the same line. `HandInv`: a thread with a line in hand does not take another.
  `DropInv`: the buffer is the end of the sequence of arrivals, and each arrival
  before it was taken or has `AUDIT_MAX` after it. Theorems: `TypeCorrect`,
  `LinesKeepOrder`, `NothingSentTwice`, `DropsOnlyOldest`. `FileInv`: the file shares no
  line with `audit_buffer`, with what chains have taken or with what is to be appended,
  and no two chains have taken the same line, so that writing over a part of it
  repeats none: `NoLineSavedTwice`. `ChainsLeft` is `DrainersLeft` for the chains of
  `save_audit_log` and `logmatch`; their steps
  are steps of `DrainedDeque` in which no thread stops, and the theorem of
  `DrainedDeque_proofs` is used through an instance for each.
- `Heartbeat_proofs` from `HeartbeatAssumption`. `HeartbeatInv` adds to `TypeOK` that
  the thread has a token and a device while it registers a task, a token while it
  renews one, and that a connection in `listen` is within the bound. A token that is
  fresh exists because sets of numbers have a least element (`FreshKeyIsKey`).
  Theorem: `HeartbeatTypeCorrect`; of its parts, the one that counts is that the
  position of `check_expire` stays inside the list while it renews or tests a task,
  though others append to it.
- `CollectSession_proofs` from `SessionAssumption`. `SessionInv` says what the
  kernel, the instance and the client program hold at each point of a call
  (`KernelHolds`, `InstanceHolds`, `HostHolds`), and `Leaks` how contexts and
  buffers correspond; the invariants of the run alone are not inductive, since
  they do not say that the two sockets and the buffer are there while a batch is
  under way. Theorems: `SessionTypeCorrect`, `SocketsStayBounded`,
  `NeverSendsOnClosedSocket`, `NeverInvokesClosedSession`, `LeaksOnlyWithBatch`, and
  `SessionImplementsBatch`.
- `KernelIntegrity_proofs` from `IntegrityAssumption` (the PTA copies twice the
  digest's length; the buffer has any size below that of memory). `KiInv` adds what the buffer holds
  before and after the PTA has served (`BufferHolds`), that `hash_len` is the
  length of that string (`LengthIsStrlen`), who has the socket (`SocketHeld`), and
  that nothing has been measured before the call (`NotYetMeasured`). Lemmas show
  that `bytes2hex` can be read back and writes no NUL among the digits
  (`HexRoundTrip`, `DigitsAreText`), and that `strlen` is the first NUL's place.
  Theorems: `KiTypeCorrect`, `ReportsTheDigest`, `LeavesNothingOpen`.
- `Device_proofs` from `WatchdogAssumption` and the invariants of the two parts. For
  the watchdog `ResetOnlyWhenSilent` alone is not inductive. `WdInv` adds that the
  count and the time since it was loaded make up the timeout, from the moment a call
  has loaded it, before it has configured the reset: each
  tick moves one from the count to the time, each load starts anew:
  `NeverResetsEarly`, for any number of programs. A step of the device is a step of
  one part and leaves the other alone, or the reset, which puts both into a
  state their invariants allow. Theorems: `DeviceInvariance`, `SessionAcrossResets`,
  `DeviceNeverResetsEarly`, and `DeviceBatches`: with resets at any point, kauditd's
  side still keeps to the batch protocol between them.
- `LogTranslation_proofs` from `TranslationAssumption`, `RecordAssumption` and
  `OtherAssumption`. The properties of the run speak of lines that are kept, and
  none is inductive: nothing in them says what comes next on a connection. `TrInv`
  adds it. `RunsAt`: what a connection has to receive, and what it has to parse, are
  rows of runs (`Run`), each of consecutive symbols of one message and ending with
  its end of line, and a row begins with a message, with an end of line alone, or
  inside of a record that was cut (`Begins`). `PartedAt`: an end of line alone, which
  a `recv()` has parted from its record, finds that record kept whole, or standing at
  the end of what is still to be parsed. `ReadsInv`: a kept line that `logmatch()` will
  take for a command has the whole command of a record (`HasCommand`). The lemmas go along
  the code: a part of a row and two rows joined are rows (`PartRun`, `JoinedRun`), so
  `recv()` leaves two of them (`RecvAfter`, `RecvInside`); the symbols of a line are
  those of one message in their places (`SameLine`), so a line as long as its message
  is the message (`WholeLine`), and if that is plain it gets its own type by the order of
  the tests (`WholeTranslated`) and loses only its comma (`PlainFormat`); a line with "audit" and a keyword is of an audit record and
  has its beginning (`TranslatedFromStart`); one that was cut inside its command
  has no comma, so that `format_audit_msg` writes it twice with `type=` between, and
  what is read of it is no part of a command (`TranslatedReads`). Sequences need no induction over data here: the first symbol
  that breaks a rule is the least element of a set of numbers (`MinOf`). Theorems:
  `TrInvariance`, `PlainRecordsWhole`, `LinesFromStart`, `ConfirmedByCommands`.

Only model-checked: all liveness (`ThresholdServed`, `Recovers`, `BuffersDrained`, `LineLeaves`, `EveryDeviceWatched`,
`DeadDeviceRemoved`), since TLAPS does not reason about fairness here. Every
invariant and every refinement that a run checks is also proved.

## 5. Not modelled, and the plan

Every part of the repository that keeps state of its own is modelled, and the safety
properties of all modules are proved; nothing of the plan is left.

Not modelled:

- `SPADE/spade_src.patch`, a patch to a program that is not in the repository: it
  moves a socket's path, narrows the reordering window of the bridge, adds log
  messages and a table of the numbers of Arm system calls, and calls handlers
  whose code is SPADE's. What becomes of a line after `send()` cannot be read from it.
- `optee_msg.h` and `optee_private.h` are one header of 447 and one of some 323 lines
  of Linux's OP-TEE driver, each eight times over, with an include guard: 6162 of
  the repository's 7351 lines of C. They declare the driver's messages, the driver is
  not in the repository, and nothing in them changes state. The share of C lines
  that the map can name is small for that reason.
- `show_memory_layout_on_boot.patch` prints addresses and keeps no state; kernel
  configuration, container and make files start the parts above.

Hazards without a property: a record longer than its slot (`audit_qemu.patch:40`; what
follows is undefined); a buffer smaller than what the PTA copies
(`memory_introspection.c:167`; the model writes behind it, as the code does); the save file is opened with `"w"` every half second, so
that each round erases the last one (`tcp_server.py:125`; nothing says what the
file is to keep, nor in which order); the renewed expiry of 15 seconds against the watchdog's 10 and the
time a confirmation takes (`main.py:74`; the times of SSH, kauditd's batches and
the receiver's timers are not in the repository); and `send` without a timeout in
the kernel thread that serves all records (`ta_collect.c:75`; supposed to return).
