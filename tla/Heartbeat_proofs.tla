-------------------------- MODULE Heartbeat_proofs --------------------------
(***************************************************************************)
(* The lists of the Heartbeat and the positions of the three loops in      *)
(* them, for any number of devices, tokens and connections.                *)
(***************************************************************************)
EXTENDS Heartbeat, NaturalsInduction, WellFoundedInduction, SequenceTheorems, TLAPS

\* TypeOK alone is not inductive: the thread has a token and a device while it
\* registers a task, a token while it renews one, and the connection that
\* listen() handles was counted within the bound.
HeartbeatInv ==
  /\ TypeOK
  /\ hpc \in {"devices", "register", "ssh"} => key_command \in Key
  /\ hpc \in {"register", "ssh"} => target_ip \in Device
  /\ hpc \in {"renew_ssh", "renew"} => new_command \in Key
  /\ accepting # None => connects < MaxConnect

\* A token that is in use nowhere.
LEMMA FreshKeyIsKey ==
  ASSUME HasFreshKey
  PROVE  FreshKey \in Key
<1> DEFINE Unused == Key \ UsedKeys
<1>1. Unused \subseteq Nat /\ Unused # {}
  BY HeartbeatAssumption DEF HasFreshKey
<1>2. \E k \in Unused : \A j \in Unused : k <= j
  <2> HIDE DEF Unused
  <2>1. \E k \in Unused : \A j \in Unused : ~(<<j, k>> \in OpToRel(<, Nat))
    BY <1>1, NatLessThanWellFounded, WFMin
  <2>2. PICK k \in Unused : \A j \in Unused : ~(j < k)
    BY <1>1, <2>1 DEF OpToRel
  <2>3. QED
    BY <1>1, <2>2
<1>3. QED
  BY <1>2 DEF FreshKey

\* Removing an element: the others stay tasks, and the list is one shorter.
LEMMA WithoutType ==
  ASSUME NEW q \in Seq(Task), NEW i \in DOMAIN q
  PROVE  Without(q, i) \in Seq(Task)
<1>1. i \in 1..Len(q) /\ Len(q) \in Nat
  OBVIOUS
<1>2. SubSeq(q, 1, i - 1) \in Seq(Task)
  BY <1>1, SubSeqProperties
<1>3. SubSeq(q, i + 1, Len(q)) \in Seq(Task)
  BY <1>1, SubSeqProperties
<1>4. QED
  BY <1>2, <1>3, ConcatProperties DEF Without

\* Giving a task a new value leaves the list a list of tasks, as long as before.
LEMMA TaskChanged ==
  ASSUME NEW q \in Seq(Task), NEW i \in DOMAIN q, NEW t \in Task
  PROVE  /\ [q EXCEPT ![i] = t] \in Seq(Task)
         /\ DOMAIN [q EXCEPT ![i] = t] = DOMAIN q
  BY ExceptSeq

\* The flag is set or cleared.
LEMMA FlagChanged ==
  ASSUME NEW r \in Task, NEW b \in BOOLEAN
  PROVE  [r EXCEPT !.heartbeat_check = b] \in Task
  BY DEF Task

\* The command and the expiry are replaced.
LEMMA TaskRenewed ==
  ASSUME NEW r \in Task, NEW k \in Key
  PROVE  [r EXCEPT !.ttl = RENEW_TIME, !.cmd = k] \in Task
<1>1. RENEW_TIME \in 0..INIT_TIME + RENEW_TIME
  BY HeartbeatAssumption
<1>2. QED
  BY <1>1 DEF Task

\* The thread starts with a token and no device.
LEMMA HeartbeatStart == Init => HeartbeatInv
<1> SUFFICES ASSUME Init PROVE HeartbeatInv
  OBVIOUS
<1>1. TypeOK
  BY HeartbeatAssumption DEF Init, TypeOK, None, NoKey
<1>2. QED
  BY <1>1 DEF Init, HeartbeatInv, None

\* listen(), and devices that go down.
LEMMA AcceptStep ==
  ASSUME HeartbeatInv, \/ \E d \in Device : Accept(d) \/ Die(d)
                       \/ AcceptScan \/ AcceptQueue
  PROVE  HeartbeatInv'
<1>1. ASSUME NEW d \in Device, Accept(d)
      PROVE  HeartbeatInv'
  BY <1>1 DEF HeartbeatInv, TypeOK, Accept, hbVars, matchVars, deviceVars
<1>2. ASSUME NEW d \in Device, Die(d)
      PROVE  HeartbeatInv'
  BY <1>2 DEF HeartbeatInv, TypeOK, Die, listVars, queueVars, acceptVars, hbVars, matchVars
<1>3. CASE AcceptScan
  BY <1>3 DEF HeartbeatInv, TypeOK, AcceptScan, hbVars, matchVars, deviceVars
<1>4. CASE AcceptQueue
  <2>1. iot_device' \in Seq(Device)
    <3>1. accepting \in Device /\ iot_device \in Seq(Device)
      BY <1>4 DEF HeartbeatInv, TypeOK, AcceptQueue
    <3>2. QED
      BY <1>4, <3>1 DEF AcceptQueue
  <2>2. connects' \in 0..MaxConnect
    BY <1>4, HeartbeatAssumption DEF HeartbeatInv, TypeOK, AcceptQueue
  <2>3. QED
    BY <1>4, <2>1, <2>2 DEF HeartbeatInv, TypeOK, AcceptQueue, hbVars, matchVars, deviceVars
<1>5. QED
  BY <1>1, <1>2, <1>3, <1>4

\* run() and register_task().
LEMMA RunStep ==
  ASSUME HeartbeatInv, PopDevice \/ NoMoreDevices \/ RegisterTask \/ EndOfTurn
  PROVE  HeartbeatInv'
<1>1. CASE PopDevice
  <2>1. iot_device \in Seq(Device) /\ iot_device # <<>>
    BY <1>1 DEF HeartbeatInv, TypeOK, PopDevice
  <2>2. Len(iot_device) \in Nat \ {0} /\ iot_device[Len(iot_device)] \in Device
    BY <2>1
  <2>3. SubSeq(iot_device, 1, Len(iot_device) - 1) \in Seq(Device)
    BY <2>1, <2>2, SubSeqProperties
  <2>4. QED
    BY <1>1, <2>2, <2>3 DEF HeartbeatInv, TypeOK, PopDevice, acceptVars, matchVars, deviceVars
<1>2. CASE NoMoreDevices
  BY <1>2 DEF HeartbeatInv, TypeOK, NoMoreDevices, listVars, queueVars, acceptVars, matchVars,
     deviceVars
<1>3. CASE RegisterTask
  <2> DEFINE t == [ip |-> target_ip, ttl |-> INIT_TIME, cmd |-> key_command,
                   heartbeat_check |-> FALSE]
  <2>1. t \in Task
    BY <1>3, HeartbeatAssumption DEF HeartbeatInv, RegisterTask, Task
  <2>2. executing_tasks' = Append(executing_tasks, t) /\ executing_tasks \in Seq(Task)
    BY <1>3 DEF HeartbeatInv, TypeOK, RegisterTask
  <2>3. executing_tasks' \in Seq(Task)
    BY <2>1, <2>2
  <2>4. QED
    BY <1>3, <2>3 DEF HeartbeatInv, TypeOK, RegisterTask, queueVars, acceptVars, matchVars,
       deviceVars
<1>4. CASE EndOfTurn
  <2>1. FreshKey \in Key
    BY <1>4, FreshKeyIsKey DEF EndOfTurn
  <2>2. QED
    BY <1>4, <2>1 DEF HeartbeatInv, TypeOK, EndOfTurn, listVars, queueVars, acceptVars,
       matchVars, deviceVars
<1>5. QED
  BY <1>1, <1>2, <1>3, <1>4

\* execute_command(), for a new task and for one that is renewed.
LEMMA CommandStep ==
  ASSUME HeartbeatInv, FirstCommand \/ NextCommand
  PROVE  HeartbeatInv'
<1>1. CASE FirstCommand
  <2>1. in_flight' \subseteq Key /\ hpc' \in {"devices", "crashed"}
    BY <1>1 DEF HeartbeatInv, TypeOK, FirstCommand, Execute
  <2>2. QED
    BY <1>1, <2>1 DEF HeartbeatInv, TypeOK, FirstCommand, listVars, queueVars, acceptVars, matchVars
<1>2. CASE NextCommand
  <2>1. in_flight' \subseteq Key /\ hpc' \in {"renew", "crashed"}
    BY <1>2 DEF HeartbeatInv, TypeOK, NextCommand, Execute
  <2>2. QED
    BY <1>2, <2>1 DEF HeartbeatInv, TypeOK, NextCommand, listVars, queueVars, acceptVars, matchVars
<1>3. QED
  BY <1>1, <1>2

\* check_expire() and updated_task(): only the removal changes the length of the
\* list, and it ends the thread's use of the position.
LEMMA ExpireStep ==
  ASSUME HeartbeatInv, StartUpdate \/ FinishUpdate \/ PassFlag \/ TestExpired
  PROVE  HeartbeatInv'
<1>1. executing_tasks \in Seq(Task)
  BY DEF HeartbeatInv, TypeOK
<1>2. CASE StartUpdate
  <2>1. idx \in DOMAIN executing_tasks /\ FreshKey \in Key
    BY <1>2, FreshKeyIsKey DEF StartUpdate
  <2> DEFINE t == [executing_tasks[idx] EXCEPT !.heartbeat_check = FALSE]
  <2>2. t \in Task
    <3>1. executing_tasks[idx] \in Task
      BY <1>1, <2>1, ElementOfSeq
    <3>2. QED
      BY <3>1, FlagChanged
  <2>3. executing_tasks' = [executing_tasks EXCEPT ![idx] = t]
    BY <1>2 DEF StartUpdate
  <2>4. executing_tasks' \in Seq(Task) /\ DOMAIN executing_tasks' = DOMAIN executing_tasks
    BY <1>1, <2>1, <2>2, <2>3, TaskChanged
  <2>5. QED
    BY <1>2, <2>1, <2>4 DEF HeartbeatInv, TypeOK, StartUpdate, queueVars, acceptVars,
       matchVars, deviceVars
<1>3. CASE FinishUpdate
  <2>1. idx \in DOMAIN executing_tasks /\ new_command \in Key
    BY <1>3 DEF HeartbeatInv, TypeOK, FinishUpdate
  <2> DEFINE t == [executing_tasks[idx] EXCEPT !.ttl = RENEW_TIME, !.cmd = new_command]
  <2>2. t \in Task
    <3>1. executing_tasks[idx] \in Task
      BY <1>1, <2>1, ElementOfSeq
    <3>2. QED
      BY <2>1, <3>1, TaskRenewed
  <2>3. executing_tasks' = [executing_tasks EXCEPT ![idx] = t]
    BY <1>1, <1>3, <2>1 DEF FinishUpdate
  <2>4. executing_tasks' \in Seq(Task) /\ DOMAIN executing_tasks' = DOMAIN executing_tasks
    BY <1>1, <2>1, <2>2, <2>3, TaskChanged
  <2>5. QED
    BY <1>3, <2>1, <2>4 DEF HeartbeatInv, TypeOK, FinishUpdate, queueVars, acceptVars,
       matchVars, deviceVars
<1>4. CASE PassFlag
  BY <1>4 DEF HeartbeatInv, TypeOK, PassFlag, listVars, queueVars, acceptVars, matchVars, deviceVars
<1>5. CASE TestExpired
  <2>1. idx \in DOMAIN executing_tasks /\ idx \in Nat \ {0}
    BY <1>5 DEF HeartbeatInv, TypeOK, TestExpired
  <2>2. executing_tasks' \in Seq(Task)
    BY <1>1, <1>5, <2>1, WithoutType DEF TestExpired
  <2>3. idx' \in Nat \ {0}
    BY <1>5, <2>1 DEF TestExpired
  <2>4. QED
    BY <1>5, <2>2, <2>3 DEF HeartbeatInv, TypeOK, TestExpired, queueVars, acceptVars,
       matchVars, deviceVars
<1>6. QED
  BY <1>2, <1>3, <1>4, <1>5

\* logmatch(), and logs that are lost.
LEMMA MatchStep ==
  ASSUME HeartbeatInv, \/ \E k \in Key : MatchNext(k) \/ LoseLogs(k)
                       \/ MatchTask \/ MatchDone
  PROVE  HeartbeatInv'
<1>1. ASSUME NEW k \in Key, MatchNext(k) \/ LoseLogs(k)
      PROVE  HeartbeatInv'
  BY <1>1 DEF HeartbeatInv, TypeOK, MatchNext, LoseLogs, listVars, queueVars, acceptVars,
     hbVars, matchVars
<1>2. CASE MatchTask
  <2>1. executing_tasks \in Seq(Task) /\ midx \in DOMAIN executing_tasks
    BY <1>2 DEF HeartbeatInv, TypeOK, MatchTask
  <2> DEFINE t == [executing_tasks[midx] EXCEPT !.heartbeat_check = TRUE]
  <2>2. t \in Task
    <3>1. executing_tasks[midx] \in Task
      BY <2>1, ElementOfSeq
    <3>2. QED
      BY <3>1, FlagChanged
  <2>3. \/ executing_tasks' = executing_tasks
        \/ executing_tasks' = [executing_tasks EXCEPT ![midx] = t]
    BY <1>2 DEF MatchTask
  <2>4. executing_tasks' \in Seq(Task) /\ DOMAIN executing_tasks' = DOMAIN executing_tasks
    <3> HIDE DEF t
    <3>1. /\ [executing_tasks EXCEPT ![midx] = t] \in Seq(Task)
          /\ DOMAIN [executing_tasks EXCEPT ![midx] = t] = DOMAIN executing_tasks
      BY <2>1, <2>2, TaskChanged
    <3>2. QED
      BY <2>1, <2>3, <3>1
  <2>5. QED
    BY <1>2, <2>4 DEF HeartbeatInv, TypeOK, MatchTask, queueVars, acceptVars, hbVars, deviceVars
<1>3. CASE MatchDone
  BY <1>3 DEF HeartbeatInv, TypeOK, MatchDone, listVars, queueVars, acceptVars, hbVars,
     deviceVars, NoKey
<1>4. QED
  BY <1>1, <1>2, <1>3

\* Time.
LEMMA TickStep ==
  ASSUME HeartbeatInv, Tick
  PROVE  HeartbeatInv'
<1> DEFINE q == executing_tasks
           older == [i \in DOMAIN q |-> [q[i] EXCEPT !.ttl = IF @ > 0 THEN @ - 1 ELSE 0]]
<1>1. q \in Seq(Task) /\ executing_tasks' = older
  BY DEF HeartbeatInv, TypeOK, Tick
<1>2. ASSUME NEW t \in Task
      PROVE  [t EXCEPT !.ttl = IF @ > 0 THEN @ - 1 ELSE 0] \in Task
  BY HeartbeatAssumption DEF Task
<1>3. DOMAIN q = 1..Len(q) /\ Len(q) \in Nat /\ \A i \in DOMAIN q : q[i] \in Task
  BY <1>1
<1>4. older \in Seq(Task) /\ DOMAIN older = DOMAIN q
  <2>1. older \in [1..Len(q) -> Task]
    BY <1>2, <1>3
  <2>2. QED
    BY <1>3, <2>1, IsASeq
<1>5. executing_tasks' \in Seq(Task) /\ DOMAIN executing_tasks' = DOMAIN executing_tasks
  BY <1>1, <1>4
<1>6. QED
  BY <1>5 DEF HeartbeatInv, TypeOK, Tick, queueVars, acceptVars, hbVars, matchVars, deviceVars

\* Every step of the three threads, the devices and the clock.
LEMMA HeartbeatStep == HeartbeatInv /\ [Next]_vars => HeartbeatInv'
<1> SUFFICES ASSUME HeartbeatInv, [Next]_vars PROVE HeartbeatInv'
  OBVIOUS
<1>1. CASE UNCHANGED vars
  BY <1>1 DEF HeartbeatInv, TypeOK, vars
<1>2. QED
  BY <1>1, AcceptStep, RunStep, CommandStep, ExpireStep, MatchStep, TickStep
  DEF Next, HeartbeatThread

\* The strengthened invariant.
THEOREM HeartbeatInvariance == Spec => []HeartbeatInv
  BY HeartbeatStart, HeartbeatStep, PTL DEF Spec

\* Whatever is removed from executing_tasks and whoever else changes it, the task
\* that check_expire() is testing or updated_task() is renewing is in the list.
THEOREM HeartbeatTypeCorrect == Spec => []TypeOK
<1>1. HeartbeatInv => TypeOK
  BY DEF HeartbeatInv
<1>2. QED
  BY HeartbeatInvariance, <1>1, PTL
=============================================================================
