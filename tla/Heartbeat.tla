----------------------------- MODULE Heartbeat -----------------------------
(***************************************************************************)
(* How the Log Receiver watches its devices (main.py, task_variable.py,    *)
(* and listen and logmatch of tcp_server.py).  A device that connects is   *)
(* queued in iot_device; the Heartbeat thread makes a task for it, runs a  *)
(* command with a random token on it over SSH, and expects the device's    *)
(* audit log to show that command before the task expires.  A confirmed    *)
(* task gets a new command and a new expiry; an expired one is removed.    *)
(*                                                                         *)
(* Three threads share iot_device and executing_tasks without a lock: the  *)
(* accept loop, the Heartbeat thread and a logmatch chain.  Time is what a *)
(* task has left until expire_time, counted down by Tick.  A token is a    *)
(* member of Key that occurs nowhere else, as 128 random bits do not       *)
(* repeat.                                                                 *)
(***************************************************************************)
EXTENDS Naturals, Sequences, FiniteSets

CONSTANTS
  Device,       \* the IP addresses
  Mortal,       \* the devices that may go down for good
  Key,          \* the tokens
  INIT_TIME,    \* time until a new task expires (180 s)
  RENEW_TIME,   \* time until a confirmed task expires (15 s)
  SshErrors,    \* what execute_command() may raise
  MaxInFlight,  \* bound: logs on their way from the devices to logmatch()
  MaxConnect    \* bound: connections made by devices that have no task

ASSUME HeartbeatAssumption ==
  /\ IsFiniteSet(Device) /\ Mortal \subseteq Device
  /\ Key \subseteq Nat \ {0}
  /\ INIT_TIME \in Nat \ {0} /\ RENEW_TIME \in Nat \ {0}
  /\ SshErrors \subseteq {"SSHException", "OSError"}
  /\ MaxInFlight \in Nat /\ MaxConnect \in Nat

VARIABLES
  iot_device,       \* deque of devices to make a task for
  executing_tasks,  \* list of tasks
  accepting,        \* the device whose connection listen() handles, or None
  aidx,             \* its position in executing_tasks
  connects,         \* the number of connections it has found no task for
  hpc,              \* where the Heartbeat thread is
  key_command,      \* the token of this turn of run()
  target_ip,        \* the device run() has popped
  idx,              \* the position of check_expire() in executing_tasks
  new_command,      \* the token of updated_task()
  matching,         \* the token in the log that logmatch() compares, or NoKey
  midx,             \* its position in executing_tasks
  alive,            \* the devices that are up
  in_flight         \* tokens in logs on their way to logmatch()

vars == <<iot_device, executing_tasks, accepting, aidx, connects, hpc, key_command,
          target_ip, idx, new_command, matching, midx, alive, in_flight>>
acceptVars == <<accepting, aidx, connects>>
queueVars  == <<iot_device, acceptVars>>
listVars   == <<queueVars, executing_tasks>>
hbVars     == <<hpc, key_command, target_ip, idx, new_command>>
matchVars  == <<matching, midx>>
deviceVars == <<alive, in_flight>>

None  == "none"
NoKey == 0

\* A task: ttl stands for expire_time, cmd for execute_cmd.
Task == [ip : Device, ttl : 0..INIT_TIME + RENEW_TIME, cmd : Key,
         heartbeat_check : BOOLEAN]

Tasks(d) == {i \in DOMAIN executing_tasks : executing_tasks[i].ip = d}

\* secrets.token_hex(16): a token that is in use nowhere.
UsedKeys ==
  {executing_tasks[i].cmd : i \in DOMAIN executing_tasks}
    \cup in_flight \cup {matching}
FreshKey == CHOOSE k \in Key \ UsedKeys : \A j \in Key \ UsedKeys : k <= j
HasFreshKey == Key \ UsedKeys # {}

Init ==
  /\ iot_device = <<>>
  /\ executing_tasks = <<>>
  /\ accepting = None
  /\ aidx = 1
  /\ connects = 0
  /\ hpc = "devices"
  /\ key_command \in {k \in Key : \A j \in Key : k <= j}
  /\ target_ip = None
  /\ idx = 1
  /\ new_command = NoKey
  /\ matching = NoKey
  /\ midx = 1
  /\ alive = Device
  /\ in_flight = {}
-----------------------------------------------------------------------------
(***************************************************************************)
(* The accept loop (listen): it goes through executing_tasks, and queues a *)
(* device for which it finds no task there and no entry in iot_device.     *)
(***************************************************************************)
Accept(d) ==
  /\ accepting = None
  /\ d \in alive
  /\ connects < MaxConnect
  /\ accepting' = d
  /\ aidx' = 1
  /\ UNCHANGED <<iot_device, connects, executing_tasks, hbVars, matchVars, deviceVars>>

AcceptScan ==
  /\ accepting # None
  /\ aidx \in DOMAIN executing_tasks
  /\ IF executing_tasks[aidx].ip = accepting
       THEN accepting' = None /\ aidx' = 1
       ELSE accepting' = accepting /\ aidx' = aidx + 1
  /\ UNCHANGED <<iot_device, connects, executing_tasks, hbVars, matchVars, deviceVars>>

\* Slip: a device is queued only when no device waits.
AcceptQueue_slip ==
  /\ accepting # None
  /\ aidx \notin DOMAIN executing_tasks
  /\ iot_device' = IF iot_device # <<>>
                     THEN iot_device
                     ELSE Append(iot_device, accepting)
  /\ connects' = connects + 1
  /\ accepting' = None
  /\ aidx' = 1
  /\ UNCHANGED <<executing_tasks, hbVars, matchVars, deviceVars>>

AcceptQueue ==
  /\ accepting # None
  /\ aidx \notin DOMAIN executing_tasks
  /\ iot_device' = IF \E i \in DOMAIN iot_device : iot_device[i] = accepting
                     THEN iot_device
                     ELSE Append(iot_device, accepting)
  /\ connects' = connects + 1
  /\ accepting' = None
  /\ aidx' = 1
  /\ UNCHANGED <<executing_tasks, hbVars, matchVars, deviceVars>>
-----------------------------------------------------------------------------
(***************************************************************************)
(* The Heartbeat thread: run, register_task, execute_command.              *)
(***************************************************************************)
PopDevice ==
  /\ hpc = "devices"
  /\ iot_device # <<>>
  /\ target_ip' = iot_device[Len(iot_device)]
  /\ iot_device' = SubSeq(iot_device, 1, Len(iot_device) - 1)
  /\ hpc' = "register"
  /\ UNCHANGED <<executing_tasks, acceptVars, key_command, idx, new_command,
                 matchVars, deviceVars>>

NoMoreDevices ==
  /\ hpc = "devices"
  /\ iot_device = <<>>
  /\ idx' = 1
  /\ target_ip' = None
  /\ hpc' = "expire"
  /\ key_command' = NoKey
  /\ UNCHANGED <<listVars, new_command,
                 matchVars, deviceVars>>

RegisterTask ==
  /\ hpc = "register"
  /\ executing_tasks' = Append(executing_tasks,
       [ip |-> target_ip, ttl |-> INIT_TIME, cmd |-> key_command, heartbeat_check |-> FALSE])
  /\ hpc' = "ssh"
  /\ UNCHANGED <<queueVars, key_command, target_ip, idx, new_command,
                 matchVars, deviceVars>>

\* execute_command(d, key): the command runs on d, and its logs, one for each of
\* its system calls, set out for the receiver; or an exception is raised, of
\* which only SSHException is caught.
Execute(d, key, next) ==
  \/ /\ d \in alive
     /\ in_flight' = IF Cardinality(in_flight) < MaxInFlight
                       THEN in_flight \cup {key}
                       ELSE in_flight
     /\ hpc' = next
  \/ /\ \E e \in SshErrors : hpc' = IF e = "SSHException" THEN next ELSE "crashed"
     /\ UNCHANGED in_flight

FirstCommand ==
  /\ hpc = "ssh"
  /\ Execute(target_ip, key_command, "devices")
  /\ UNCHANGED <<listVars, key_command, target_ip, idx,
                 new_command, matchVars, alive>>
-----------------------------------------------------------------------------
(***************************************************************************)
(* check_expire and updated_task.                                          *)
(***************************************************************************)
Current == executing_tasks[idx]

\* Slip: heartbeat_check is not reset.
StartUpdate_slip ==
  /\ hpc = "expire"
  /\ idx \in DOMAIN executing_tasks
  /\ Current.heartbeat_check
  /\ HasFreshKey
  /\ UNCHANGED executing_tasks
  /\ new_command' = FreshKey
  /\ hpc' = "renew_ssh"
  /\ UNCHANGED <<queueVars, key_command, target_ip, idx, matchVars, deviceVars>>

\* The task is confirmed: the flag is cleared before the new command is run.
StartUpdate ==
  /\ hpc = "expire"
  /\ idx \in DOMAIN executing_tasks
  /\ Current.heartbeat_check
  /\ HasFreshKey
  /\ executing_tasks' = [executing_tasks EXCEPT ![idx].heartbeat_check = FALSE]
  /\ new_command' = FreshKey
  /\ hpc' = "renew_ssh"
  /\ UNCHANGED <<queueVars, key_command, target_ip, idx, matchVars, deviceVars>>

NextCommand ==
  /\ hpc = "renew_ssh"
  /\ Execute(Current.ip, new_command, "renew")
  /\ UNCHANGED <<listVars, key_command, target_ip, idx,
                 new_command, matchVars, alive>>

FinishUpdate ==
  /\ hpc = "renew"
  /\ executing_tasks' = [executing_tasks EXCEPT ![idx].ttl = RENEW_TIME,
                                                ![idx].cmd = new_command]
  /\ new_command' = NoKey
  /\ hpc' = "test"
  /\ UNCHANGED <<queueVars, key_command, target_ip, idx, matchVars, deviceVars>>

\* The task is not confirmed, or not yet: its expiry is tested next.
PassFlag ==
  /\ hpc = "expire"
  /\ idx \in DOMAIN executing_tasks
  /\ ~Current.heartbeat_check
  /\ hpc' = "test"
  /\ UNCHANGED <<listVars, key_command, target_ip, idx, new_command,
                 matchVars, deviceVars>>

Without(q, i) == SubSeq(q, 1, i - 1) \o SubSeq(q, i + 1, Len(q))

\* Slip: a removal steps back one place too far.
TestExpired_slip ==
  /\ hpc = "test"
  /\ executing_tasks' = IF Current.ttl = 0 THEN Without(executing_tasks, idx)
                                           ELSE executing_tasks
  /\ idx' = IF Current.ttl = 0 THEN idx - 1 ELSE idx + 1
  /\ hpc' = "expire"
  /\ UNCHANGED <<queueVars, key_command, target_ip, new_command,
                 matchVars, deviceVars>>

\* Removing from the list that the loop is going through: the element that
\* takes the place of the removed one is passed over.
TestExpired ==
  /\ hpc = "test"
  /\ executing_tasks' = IF Current.ttl = 0 THEN Without(executing_tasks, idx)
                                           ELSE executing_tasks
  /\ idx' = idx + 1
  /\ hpc' = "expire"
  /\ UNCHANGED <<queueVars, key_command, target_ip, new_command,
                 matchVars, deviceVars>>

\* The loop is through; run() sleeps and takes the next turn, with a new token.
EndOfTurn ==
  /\ hpc = "expire"
  /\ idx \notin DOMAIN executing_tasks
  /\ HasFreshKey
  /\ key_command' = FreshKey
  /\ idx' = 1
  /\ hpc' = "devices"
  /\ UNCHANGED <<listVars, target_ip, new_command, matchVars, deviceVars>>
-----------------------------------------------------------------------------
(***************************************************************************)
(* logmatch: one log is compared with one task after the other.            *)
(***************************************************************************)
MatchNext(k) ==
  /\ matching = NoKey
  /\ k \in in_flight
  /\ matching' = k
  /\ midx' = 1
  /\ in_flight' \in {in_flight, in_flight \ {k}}     \* more of them, or the last
  /\ UNCHANGED <<listVars, hbVars, alive>>

MatchTask ==
  /\ matching # NoKey
  /\ midx \in DOMAIN executing_tasks
  /\ executing_tasks' =
       IF executing_tasks[midx].cmd = matching
         THEN [executing_tasks EXCEPT ![midx].heartbeat_check = TRUE]
         ELSE executing_tasks
  /\ midx' = midx + 1
  /\ UNCHANGED <<queueVars, hbVars, matching, deviceVars>>

MatchDone ==
  /\ matching # NoKey
  /\ midx \notin DOMAIN executing_tasks
  /\ matching' = NoKey
  /\ midx' = 1
  /\ UNCHANGED <<listVars, hbVars, deviceVars>>
-----------------------------------------------------------------------------
(***************************************************************************)
(* The devices, and time.  Logs may be lost on the way, by the device or in *)
(* a buffer; there are finitely many of a command.                         *)
(***************************************************************************)
LoseLogs(k) ==
  /\ k \in in_flight
  /\ in_flight' = in_flight \ {k}
  /\ UNCHANGED <<listVars, hbVars, matchVars, alive>>

Die(d) ==
  /\ d \in alive \cap Mortal
  /\ alive' = alive \ {d}
  /\ UNCHANGED <<listVars, hbVars, matchVars, in_flight>>

Tick ==
  /\ \E i \in DOMAIN executing_tasks : executing_tasks[i].ttl > 0
  /\ executing_tasks' = [i \in DOMAIN executing_tasks |->
       [executing_tasks[i] EXCEPT !.ttl = IF @ > 0 THEN @ - 1 ELSE 0]]
  /\ UNCHANGED <<queueVars, hbVars, matchVars, deviceVars>>
-----------------------------------------------------------------------------
HeartbeatThread ==
  \/ PopDevice \/ NoMoreDevices \/ RegisterTask \/ FirstCommand
  \/ StartUpdate \/ NextCommand \/ FinishUpdate \/ PassFlag
  \/ TestExpired \/ EndOfTurn

Next ==
  \/ \E d \in Device : Accept(d) \/ Die(d)
  \/ AcceptScan \/ AcceptQueue
  \/ HeartbeatThread
  \/ \E k \in Key : MatchNext(k) \/ LoseLogs(k)
  \/ MatchTask \/ MatchDone
  \/ Tick

Spec == Init /\ [][Next]_vars

\* The receiver's threads run, time passes, and the logs of a command come to
\* an end.  Devices need not connect or answer, and their logs need not arrive.
FairSpec ==
  /\ Spec
  /\ WF_vars(AcceptScan \/ AcceptQueue)
  /\ WF_vars(HeartbeatThread)
  /\ WF_vars(MatchTask \/ MatchDone)
  /\ WF_vars(Tick)
  /\ WF_vars(\E k \in in_flight : LoseLogs(k))
-----------------------------------------------------------------------------
\* Type correctness.  check_expire() is inside the list while it renews or tests a
\* task, though others append to it; between tasks its position, and logmatch()'s,
\* may be any number of places past the end, since what is before it is removed.
TypeOK ==
  /\ iot_device \in Seq(Device)
  /\ executing_tasks \in Seq(Task)
  /\ accepting \in Device \cup {None}
  /\ connects \in 0..MaxConnect
  /\ hpc \in {"devices", "register", "ssh", "expire", "renew_ssh", "renew",
             "test", "crashed"}
  /\ key_command \in Key \cup {NoKey} /\ new_command \in Key \cup {NoKey}
  /\ target_ip \in Device \cup {None}
  /\ idx \in Nat \ {0} /\ midx \in Nat \ {0} /\ aidx \in Nat \ {0}
  /\ hpc \in {"renew_ssh", "renew", "test"} => idx \in DOMAIN executing_tasks
  /\ matching \in Key \cup {NoKey}
  /\ alive \subseteq Device
  /\ in_flight \subseteq Key

\* A device that connects gets a task, though run() takes the newest entry of
\* iot_device first and another device may connect, or the device go down, at
\* any moment.  (One that may go down can do all that the others can.)
EveryDeviceWatched ==
  \A d \in Mortal : (accepting = d) ~> (hpc = "crashed" \/ Tasks(d) # {})

\* A device that is down is not watched for ever: though it may have several
\* tasks, share its command with a device that is up, have late logs set the
\* flag after it was cleared, and be passed over by check_expire() when another
\* task is removed, its tasks expire and are removed for good.
DeadDeviceRemoved ==
  \A d \in Mortal : (d \notin alive) ~> [](Tasks(d) = {})
=============================================================================
