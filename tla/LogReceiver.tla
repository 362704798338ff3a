---------------------------- MODULE LogReceiver ----------------------------
(***************************************************************************)
(* The way of a log line through the Log Receiver (tcp_server.py,          *)
(* unix_server.py, log_buffer.py).  Every TCP connection gets a thread     *)
(* that appends its lines to three deques and, besides, one more chain of  *)
(* save_audit_log() and one more of logmatch(), which run again and again  *)
(* by a Timer and never end with the connection.  Every connection of      *)
(* SPADE to the Unix socket gets a thread that forwards lines.             *)
(*                                                                         *)
(* One action is one operation on a deque: the interpreter lock makes each *)
(* of them atomic and nothing more.                                        *)
(***************************************************************************)
EXTENDS Naturals, Sequences, FiniteSets

CONSTANTS
  Conn,         \* TCP connections, and the chains started with each of them
  Spade,        \* connections of SPADE to the Unix socket
  BUFFER_MAX,   \* maxlen of audit_buffer and audit_buffer_hearbeat (1000)
  AUDIT_MAX,    \* maxlen of log_buffer.audit (10000)
  SAVE_MIN,     \* save_audit_log() does nothing up to this length (5)
  BUFFER_LOW,   \* lines save_audit_log() and logmatch() leave behind (10)
  AUDIT_LOW,    \* lines listen_client() leaves behind (30)
  MaxLines,     \* bound: lines with an audit message in one recv()
  MaxLog        \* bound: lines received in a behaviour

ASSUME ReceiverAssumption ==
  /\ IsFiniteSet(Conn) /\ IsFiniteSet(Spade)
  /\ {BUFFER_MAX, AUDIT_MAX} \subseteq Nat \ {0}
  /\ {SAVE_MIN, BUFFER_LOW, AUDIT_LOW, MaxLines, MaxLog} \subseteq Nat

VARIABLES
  client,       \* where listenToClient() is for each connection
  lines,        \* the lines parseEventLog() has still to append
  received,     \* number of lines received so far
  audit_buffer, audit_buffer_hearbeat, audit,   \* the three deques
  saver,        \* where each chain of save_audit_log() is
  round,        \* "no", or what the chain's round is about since its Timer fired:
                \* "take" lines, then "write" them to the file it has opened
  temp,         \* the lines the chain has taken in this round and not yet written
  file,         \* what the save file holds, in lines
  matcher,      \* where each chain of logmatch() is
  sender,       \* where each listen_client() thread is
  held,         \* the line it has taken and not yet sent, or None
  forwarded,    \* history: the lines sent on each connection of SPADE
  undelivered,  \* history: lines whose send() has failed
  arrivals      \* history: the lines in the order they came into audit

clientVars == <<client, lines, received>>
saveVars   == <<audit_buffer, saver, round, temp, file>>
matchVars  == <<audit_buffer_hearbeat, matcher>>
sendVars   == <<audit, sender, held, forwarded, undelivered>>
vars == <<clientVars, saveVars, matchVars, sendVars, arrivals>>

Line == [conn : Conn, id : 1..MaxLog]
None == [conn |-> "none", id |-> 0]

SaveDeque == INSTANCE DrainedDeque WITH
  Record <- Line, Drainer <- Conn, LOW <- BUFFER_LOW, MAXLEN <- BUFFER_MAX,
  deque <- audit_buffer, thread <- saver

MatchDeque == INSTANCE DrainedDeque WITH
  Record <- Line, Drainer <- Conn, LOW <- BUFFER_LOW, MAXLEN <- BUFFER_MAX,
  deque <- audit_buffer_hearbeat, thread <- matcher

AuditDeque == INSTANCE DrainedDeque WITH
  Record <- Line, Drainer <- Spade, LOW <- AUDIT_LOW, MAXLEN <- AUDIT_MAX,
  deque <- audit, thread <- sender

Init ==
  /\ client = [c \in Conn |-> "off"]
  /\ lines = [c \in Conn |-> <<>>]
  /\ received = 0
  /\ SaveDeque!DequeInit /\ MatchDeque!DequeInit /\ AuditDeque!DequeInit
  /\ round = [c \in Conn |-> "no"]
  /\ temp = [c \in Conn |-> <<>>]
  /\ file = <<>>
  /\ held = [s \in Spade |-> None]
  /\ forwarded = [s \in Spade |-> <<>>]
  /\ undelivered = {}
  /\ arrivals = <<>>
-----------------------------------------------------------------------------
(***************************************************************************)
(* TCPServer.listen, listenToClient and parseEventLog.                     *)
(***************************************************************************)
\* accept() returns: three threads start.
Accept(c) ==
  /\ client[c] = "off"
  /\ client' = [client EXCEPT ![c] = "recv"]
  /\ SaveDeque!Start(c)
  /\ MatchDeque!Start(c)
  /\ UNCHANGED <<lines, received, round, temp, file, sendVars, arrivals>>

\* recv() returns lines, of which n are audit messages; translate_audit_log()
\* gives None for the others, which leave no trace.
Recv(c) ==
  /\ client[c] = "recv"
  /\ \E n \in 1..MaxLines :
       /\ received + n <= MaxLog
       /\ lines' = [lines EXCEPT ![c] = [i \in 1..n |-> [conn |-> c, id |-> received + i]]]
       /\ received' = received + n
  /\ client' = [client EXCEPT ![c] = "save"]
  /\ UNCHANGED <<saveVars, matchVars, sendVars, arrivals>>

\* End of the stream, a timeout, or bytes that are not UTF-8.
Close(c) ==
  /\ client[c] = "recv"
  /\ client' = [client EXCEPT ![c] = "closed"]
  /\ UNCHANGED <<lines, received, saveVars, matchVars, sendVars, arrivals>>

AppendSave(c) ==
  /\ client[c] = "save"
  /\ audit_buffer' = SaveDeque!Appended(audit_buffer, Head(lines[c]))
  /\ client' = [client EXCEPT ![c] = "match"]
  /\ UNCHANGED <<lines, received, saver, round, temp, file, matchVars, sendVars, arrivals>>

AppendMatch(c) ==
  /\ client[c] = "match"
  /\ audit_buffer_hearbeat' = MatchDeque!Appended(audit_buffer_hearbeat, Head(lines[c]))
  /\ client' = [client EXCEPT ![c] = "audit"]
  /\ UNCHANGED <<lines, received, saveVars, matcher, sendVars, arrivals>>

\* Slip: a full deque is cleared for the new line.
AppendAudit_slip(c) ==
  /\ client[c] = "audit"
  /\ audit' = IF Len(audit) < AUDIT_MAX THEN Append(audit, Head(lines[c])) ELSE <<Head(lines[c])>>
  /\ arrivals' = Append(arrivals, Head(lines[c]))
  /\ lines' = [lines EXCEPT ![c] = Tail(@)]
  /\ client' = [client EXCEPT ![c] = IF Len(lines[c]) > 1 THEN "save" ELSE "recv"]
  /\ UNCHANGED <<received, saveVars, matchVars, sender, held, forwarded, undelivered>>

AppendAudit(c) ==
  /\ client[c] = "audit"
  /\ audit' = AuditDeque!Appended(audit, Head(lines[c]))
  /\ arrivals' = Append(arrivals, Head(lines[c]))
  /\ lines' = [lines EXCEPT ![c] = Tail(@)]
  /\ client' = [client EXCEPT ![c] = IF Len(lines[c]) > 1 THEN "save" ELSE "recv"]
  /\ UNCHANGED <<received, saveVars, matchVars, sender, held, forwarded, undelivered>>
-----------------------------------------------------------------------------
(***************************************************************************)
(* save_audit_log: the Timer fires, lines are taken one by one, the file   *)
(* is opened and emptied, the lines are written, and the Timer is set      *)
(* again.  The chains share the file, whose name changes only by the hour. *)
(***************************************************************************)
SaveTimer(c) ==
  /\ saver[c] = "idle" /\ round[c] = "no"
  /\ Len(audit_buffer) > SAVE_MIN
  /\ round' = [round EXCEPT ![c] = "take"]
  /\ UNCHANGED <<clientVars, audit_buffer, saver, temp, file, matchVars, sendVars, arrivals>>

\* Slip: the loop goes on when only BUFFER_LOW lines are left.
SaveCheck_slip(c) ==
  /\ round[c] = "take"
  /\ SaveDeque!Check_slip(c)
  /\ UNCHANGED <<clientVars, round, temp, file, matchVars, sendVars, arrivals>>

SaveCheck(c) ==
  /\ round[c] = "take"
  /\ SaveDeque!Check(c)
  /\ UNCHANGED <<clientVars, round, temp, file, matchVars, sendVars, arrivals>>

\* Slips: the line is put in front of those taken before; all lines are copied,
\* where one is taken.
SavePop_all_slip(c) ==
  /\ SaveDeque!Pop(c)
  /\ temp' = [temp EXCEPT ![c] = @ \o audit_buffer]
  /\ UNCHANGED <<clientVars, round, file, matchVars, sendVars, arrivals>>

SavePop_slip(c) ==
  /\ SaveDeque!Pop(c)
  /\ temp' = [temp EXCEPT ![c] = <<Head(audit_buffer)>> \o @]
  /\ UNCHANGED <<clientVars, round, file, matchVars, sendVars, arrivals>>

SavePop(c) ==
  /\ SaveDeque!Pop(c)
  /\ temp' = [temp EXCEPT ![c] = Append(@, Head(audit_buffer))]
  /\ UNCHANGED <<clientVars, round, file, matchVars, sendVars, arrivals>>

\* IndexError: the chain ends, and what it had taken is not written.
SavePopEmpty(c) ==
  /\ SaveDeque!PopEmpty(c)
  /\ temp' = [temp EXCEPT ![c] = <<>>]
  /\ UNCHANGED <<clientVars, round, file, matchVars, sendVars, arrivals>>

\* open(name, "w") empties the file, whoever else has it open.
SaveOpen(c) ==
  /\ saver[c] = "idle" /\ round[c] = "take"
  /\ Len(audit_buffer) <= BUFFER_LOW
  /\ file' = <<>>
  /\ round' = [round EXCEPT ![c] = "write"]
  /\ UNCHANGED <<clientVars, audit_buffer, saver, temp, matchVars, sendVars, arrivals>>

\* The text is written when the file is closed, from the start of the file on.
\* What another chain has written further on since then stays behind it (lines
\* are taken to be of one length).
SaveWrite(c) ==
  /\ round[c] = "write"
  /\ file' = temp[c] \o SubSeq(file, Len(temp[c]) + 1, Len(file))
  /\ round' = [round EXCEPT ![c] = "no"]
  /\ temp' = [temp EXCEPT ![c] = <<>>]
  /\ UNCHANGED <<clientVars, audit_buffer, saver, matchVars, sendVars, arrivals>>
-----------------------------------------------------------------------------
\* logmatch: what it does with a line is the Heartbeat module's concern.
Match(c) ==
  /\ MatchDeque!Check(c) \/ MatchDeque!Pop(c) \/ MatchDeque!PopEmpty(c)
  /\ UNCHANGED <<clientVars, saveVars, sendVars, arrivals>>
-----------------------------------------------------------------------------
(***************************************************************************)
(* UnixServer.listen and listen_client.                                    *)
(***************************************************************************)
receiveVars == <<clientVars, saveVars, matchVars, arrivals>>

SpadeConnects(s) ==
  /\ AuditDeque!Start(s)
  /\ UNCHANGED <<receiveVars, held, forwarded, undelivered>>

\* Slip: one line too many is left behind.
SendCheck_slip(s) ==
  /\ held[s] = None
  /\ Len(audit) > AUDIT_LOW + 1
  /\ AuditDeque!Check(s)
  /\ UNCHANGED <<receiveVars, held, forwarded, undelivered>>

SendCheck(s) ==
  /\ held[s] = None
  /\ AuditDeque!Check(s)
  /\ UNCHANGED <<receiveVars, held, forwarded, undelivered>>

\* Slips: pop() for popleft(), and a line that is read but not taken out.
SendPop_right_slip(s) ==
  /\ sender[s] = "pop" /\ audit # <<>>
  /\ held' = [held EXCEPT ![s] = audit[Len(audit)]]
  /\ audit' = SubSeq(audit, 1, Len(audit) - 1)
  /\ sender' = [sender EXCEPT ![s] = "idle"]
  /\ UNCHANGED <<receiveVars, forwarded, undelivered>>

SendPop_peek_slip(s) ==
  /\ sender[s] = "pop" /\ audit # <<>>
  /\ held' = [held EXCEPT ![s] = Head(audit)]
  /\ sender' = [sender EXCEPT ![s] = "idle"]
  /\ UNCHANGED <<receiveVars, audit, forwarded, undelivered>>

SendPop(s) ==
  /\ AuditDeque!Pop(s)
  /\ held' = [held EXCEPT ![s] = Head(audit)]
  /\ UNCHANGED <<receiveVars, forwarded, undelivered>>

SendPopEmpty(s) ==
  /\ AuditDeque!PopEmpty(s)
  /\ UNCHANGED <<receiveVars, held, forwarded, undelivered>>

SendDone(s) ==
  /\ held[s] # None
  /\ forwarded' = [forwarded EXCEPT ![s] = Append(@, held[s])]
  /\ held' = [held EXCEPT ![s] = None]
  /\ UNCHANGED <<receiveVars, audit, sender, undelivered>>

\* SPADE has gone: send() raises, the thread ends with the line in its hand.
SendFails(s) ==
  /\ held[s] # None
  /\ AuditDeque!Stop(s)
  /\ undelivered' = undelivered \cup {held[s]}
  /\ held' = [held EXCEPT ![s] = None]
  /\ UNCHANGED <<receiveVars, forwarded>>
-----------------------------------------------------------------------------
Parse(c)   == AppendSave(c) \/ AppendMatch(c) \/ AppendAudit(c)
Save(c)    == SaveTimer(c) \/ SaveCheck(c) \/ SavePop(c) \/ SavePopEmpty(c)
              \/ SaveOpen(c) \/ SaveWrite(c)
Forward(s) == SendCheck(s) \/ SendPop(s) \/ SendPopEmpty(s) \/ SendDone(s) \/ SendFails(s)

Next ==
  \/ \E c \in Conn : Accept(c) \/ Recv(c) \/ Close(c) \/ Parse(c) \/ Save(c) \/ Match(c)
  \/ \E s \in Spade : SpadeConnects(s) \/ Forward(s)

Spec == Init /\ [][Next]_vars

\* The threads of the receiver run on; whether a device or SPADE connects, sends
\* or goes away is up to them.
FairSpec ==
  /\ Spec
  /\ \A c \in Conn : WF_vars(Parse(c)) /\ WF_vars(Save(c)) /\ WF_vars(Match(c))
  /\ \A s \in Spade : WF_vars(Forward(s))
-----------------------------------------------------------------------------
SeqSet(q) == {q[i] : i \in DOMAIN q}

\* Type correctness; the deques keep within their maximum lengths.
TypeOK ==
  /\ client \in [Conn -> {"off", "recv", "save", "match", "audit", "closed"}]
  /\ \A c \in Conn : lines[c] \in Seq(Line) /\ temp[c] \in Seq(Line)
  /\ \A c \in Conn : client[c] \in {"save", "match", "audit"} <=> lines[c] # <<>>
  /\ received \in 0..MaxLog
  /\ SaveDeque!DequeTypeOK /\ MatchDeque!DequeTypeOK /\ AuditDeque!DequeTypeOK
  /\ round \in [Conn -> {"no", "take", "write"}]
  /\ file \in Seq(Line)
  /\ held \in [Spade -> Line \cup {None}]
  /\ \A s \in Spade : forwarded[s] \in Seq(Line)
  /\ undelivered \subseteq Line
  /\ arrivals \in Seq(Line)

\* The lines of a connection come in q in the order the connection sent them.
ConnOrder(q) ==
  \A i, j \in DOMAIN q : (i < j /\ q[i].conn = q[j].conn) => q[i].id < q[j].id

\* What is forwarded on one connection of SPADE, and what a chain takes for one
\* writing of the save file, keeps the order of each TCP connection (of each batch:
\* TA-Collect opens a connection per batch) and repeats no line, whichever threads
\* appended, drained and overtook each other.  Nothing is said across the batches
\* of a device, whose threads may overtake each other, nor of the order in the
\* file, which two chains may have open at once.
OrderKept ==
  /\ \A c \in Conn : ConnOrder(temp[c])
  /\ \A s \in Spade : ConnOrder(forwarded[s])

\* No line comes twice in the save file, although chains write over each other.
SavedOnce == \A i, j \in DOMAIN file : file[i] = file[j] => i = j

\* No line is forwarded twice, on the same or on different connections.
ForwardedOnce ==
  /\ \A s, t \in Spade : s # t => SeqSet(forwarded[s]) \cap SeqSet(forwarded[t]) = {}
  /\ \A s \in Spade : held[s] \notin SeqSet(audit) \cup UNION {SeqSet(forwarded[t]) : t \in Spade}

\* A line that came into log_buffer.audit and is not in it any more has been
\* sent, is about to be, was in the hand of a thread whose send() failed, or had
\* to make room: then as many lines as the deque holds have come after it.
OnlyOldestDropped ==
  LET out == {held[s] : s \in Spade} \cup UNION {SeqSet(forwarded[s]) : s \in Spade}
  IN \A i \in DOMAIN arrivals :
       arrivals[i] \in SeqSet(audit) \cup out \cup undelivered
         \/ Len(arrivals) - i >= AUDIT_MAX

\* IndexError ends chains of save_audit_log() and of logmatch() that lose the race
\* for the last lines, but once it has ended one, BUFFER_LOW + 1 are still running:
\* a buffer is never left with nobody to drain it.
ChainsSurvive ==
  /\ SaveDeque!Killed # {} => Cardinality(SaveDeque!Running) >= BUFFER_LOW + 1
  /\ MatchDeque!Killed # {} => Cardinality(MatchDeque!Running) >= BUFFER_LOW + 1

\* The chains of save_audit_log() and of logmatch() pile up, one more for every
\* connection, and IndexError ends those that lose the race for the last
\* lines; yet each buffer comes down to its low mark again.
BuffersDrained ==
  /\ (Len(audit_buffer) > BUFFER_LOW) ~> (Len(audit_buffer) <= BUFFER_LOW)
  /\ (Len(audit_buffer_hearbeat) > BUFFER_LOW) ~> (Len(audit_buffer_hearbeat) <= BUFFER_LOW)

SpadeGone == \A s \in Spade : sender[s] \in {"off", "killed", "stopped"}

\* As long as a connection of SPADE is there, a line after which AUDIT_LOW lines
\* have come is sent (or lost with a thread whose send() fails), unless it has to
\* make room: then as many lines as the deque holds have come after it.
LineLeaves ==
  \A i \in 1..MaxLog - AUDIT_LOW :
    (Len(arrivals) >= i + AUDIT_LOW /\ ~SpadeGone)
      ~> \/ SpadeGone
         \/ Len(arrivals) - i >= AUDIT_MAX
         \/ /\ i \in DOMAIN arrivals
            /\ arrivals[i] \in undelivered \cup UNION {SeqSet(forwarded[s]) : s \in Spade}
=============================================================================
