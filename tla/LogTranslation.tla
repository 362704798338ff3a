--------------------------- MODULE LogTranslation ---------------------------
(***************************************************************************)
(* How the Log Receiver makes lines of a byte stream (listenToClient,      *)
(* parseEventLog, translate_audit_log and format_audit_msg of              *)
(* tcp_server.py), and what logmatch() reads in them.  recv() returns any  *)
(* part of the stream, and what it returns is cut into lines at once: a    *)
(* record at its end is taken for a line, and the rest of that record for  *)
(* another one.                                                            *)
(*                                                                         *)
(* Text is a sequence of symbols: a keyword that the code looks for, a     *)
(* comma, an end of line, an argument of a command in hexadecimal digits,  *)
(* or any other text.  A cut inside a symbol leaves two parts that are     *)
(* none of these.                                                          *)
(***************************************************************************)
EXTENDS Integers, Sequences, SequencesExt, FiniteSets, FiniteSetsExt

NL    == "\n"
COMMA == ","

\* The words that translate_audit_log looks for, each the mark of a type.
Keywords == {"syscall", "proctitle", "saddr", "cwd", "item", "op=start", "op=add_rule"}

CONSTANTS
  Conn,       \* TCP connections
  Message,    \* what is sent: records, and messages that are no records
  Text,       \* Text[m]: its symbols
  Audit,      \* the messages that are audit records, each sent as a line
  Heartbeat,  \* the tasks of the heartbeat
  Command,    \* Command[t]: the arguments of execute_cmd
  MaxBatch,   \* bound: records in a batch
  RECV_SIZE,  \* symbols that recv() returns at most (26000 bytes)
  MaxCuts     \* bound: records that recv() ends inside of

ASSUME TranslationAssumption ==
  /\ IsFiniteSet(Conn) /\ IsFiniteSet(Message) /\ Audit \subseteq Message
  /\ {MaxBatch, RECV_SIZE, MaxCuts} \subseteq Nat
  /\ \A m \in Message : Text[m] \in Seq(STRING) /\ ToSet(Text[m]) \cap {NL, "part"} = {}
  /\ \A t \in Heartbeat : Command[t] \in Seq(STRING) /\ ToSet(Command[t]) \cap {"part", "type="} = {}

\* A record begins with "audit(", and has something after "proctitle=".
ASSUME RecordAssumption ==
  \A m \in Audit :
    /\ Text[m] # <<>> /\ Text[m][1] = "audit"
    /\ \A i \in DOMAIN Text[m] : Text[m][i] = "proctitle" =>
         i + 1 \in DOMAIN Text[m] /\ Text[m][i + 1] # COMMA

\* No other message has both "audit" and a keyword.
ASSUME OtherAssumption ==
  \A m \in Message \ Audit : "audit" \notin ToSet(Text[m]) \/ ToSet(Text[m]) \cap Keywords = {}

VARIABLES
  conn,             \* conn[c]: "off", "open" or "closed"
  stream,           \* stream[c]: what is sent, or to be sent, on c and not received
  data,             \* data[c]: what the last recv() returned and is not yet parsed
  sent,             \* the messages sent so far, and those of the batches to be sent
  kept,             \* history: the lines appended to the buffers
  matched,          \* how many of them logmatch() has looked at
  heartbeat_check,  \* the flag of each task
  complete,         \* history: the records parsed to their end
  cut               \* history: the records that a recv() ended inside of

trVars == <<conn, stream, data, sent, kept, matched, heartbeat_check, complete, cut>>

\* A symbol on its way, and where it comes from.
Symbol(m, i) == [s |-> Text[m][i], of |-> m, at |-> i]
Newline(m)   == [s |-> NL, of |-> m, at |-> Len(Text[m]) + 1]
Part(x)      == [x EXCEPT !.s = "part"]
Symbols(m)   == [i \in 1..Len(Text[m]) |-> Symbol(m, i)]

Has(q, k) == \E i \in DOMAIN q : q[i].s = k
Where(q, k) == {i \in DOMAIN q : q[i].s = k}

TrInit ==
  /\ conn = [c \in Conn |-> "off"]
  /\ stream = [c \in Conn |-> <<>>]
  /\ data = [c \in Conn |-> <<>>]
  /\ sent = {}
  /\ kept = <<>> /\ matched = 0
  /\ heartbeat_check = [t \in Heartbeat |-> FALSE]
  /\ complete = {} /\ cut = {}
-----------------------------------------------------------------------------
(***************************************************************************)
(* translate_audit_log, format_audit_msg, splitlines.                      *)
(***************************************************************************)
\* Slip: the test for "item" before the one for "syscall".
Tests_slip == <<"proctitle", "saddr", "cwd", "item", "syscall", "op=start", "op=add_rule">>

\* The tests in their order; a keyword stands for the type it gives.
Tests == <<"syscall", "proctitle", "saddr", "cwd", "item", "op=start", "op=add_rule">>

\* msg.split(','): the first and the last part, which are the same without a comma.
First(q) == SubSeq(q, 1, Min(Where(q, COMMA) \cup {Len(q) + 1}) - 1)
LastPart(q) == SubSeq(q, Max(Where(q, COMMA) \cup {0}) + 1, Len(q))

TypeField == [s |-> "type=", of |-> "receiver", at |-> 0]

\* Slip: the message's own part only.
format_audit_msg_slip(type, q) == [type |-> type, text |-> First(q)]
format_audit_msg(type, q) ==
  [type |-> type, text |-> LastPart(q) \o <<TypeField>> \o First(q)]

\* Slip: without the test for "audit".
Translated_slip(q) ==
  LET hits == {i \in DOMAIN Tests : Has(q, Tests[i])}
  IN IF hits # {} THEN <<format_audit_msg(Tests[Min(hits)], q)>> ELSE <<>>

\* The lines that are kept of q: one, or none.
Translated(q) ==
  LET hits == {i \in DOMAIN Tests : Has(q, Tests[i])}
  IN IF hits # {} /\ Has(q, "audit")
       THEN <<format_audit_msg(Tests[Min(hits)], q)>>
       ELSE <<>>

\* data.splitlines(): the first line ends before the first end of line, or with q.
LineEnd(q) == Min(Where(q, NL) \cup {Len(q) + 1})
Line(q) == SubSeq(q, 1, LineEnd(q) - 1)
-----------------------------------------------------------------------------
(***************************************************************************)
(* What arrives at port 8080: TA-Collect opens a connection for each batch.*)
(***************************************************************************)
\* kauditd appends a record and an end of line to the batch that goes to c.
AppendRecord(c, m) ==
  /\ conn[c] = "off"
  /\ m \in Audit \ sent
  /\ Cardinality(Where(stream[c], NL)) < MaxBatch
  /\ stream' = [stream EXCEPT ![c] = @ \o Append(Symbols(m), Newline(m))]
  /\ sent' = sent \cup {m}
  /\ UNCHANGED <<conn, data, kept, matched, heartbeat_check, complete, cut>>

SendBatch(c) ==
  /\ conn[c] = "off" /\ stream[c] # <<>>
  /\ conn' = [conn EXCEPT ![c] = "open"]
  /\ UNCHANGED <<stream, data, sent, kept, matched, heartbeat_check, complete, cut>>

\* test_tcp_connect() and other messages that are no records.
SendOther(c, m) ==
  /\ conn[c] = "off" /\ stream[c] = <<>>
  /\ m \in Message \ (Audit \cup sent)
  /\ conn' = [conn EXCEPT ![c] = "open"]
  /\ stream' = [stream EXCEPT ![c] = Symbols(m)]
  /\ sent' = sent \cup {m}
  /\ UNCHANGED <<data, kept, matched, heartbeat_check, complete, cut>>
-----------------------------------------------------------------------------
\* What recv() returns of q, and what it leaves: it ends after symbol n, or inside the next one.
Received(q, n, inside) == SubSeq(q, 1, n) \o (IF inside THEN <<Part(q[n + 1])>> ELSE <<>>)
Rest(q, n, inside) ==
  (IF inside THEN <<Part(q[n + 1])>> ELSE <<>>)
    \o SubSeq(q, IF inside THEN n + 2 ELSE n + 1, Len(q))

\* The record that recv() has ended inside of, if it has.
CutBy(got, rest) ==
  IF rest # <<>> /\ Head(rest).of = got[Len(got)].of /\ Head(rest).s # NL
    THEN {Head(rest).of} ELSE {}

\* recv(), when all that it returned before has been parsed.
Recv(c) ==
  /\ conn[c] = "open" /\ data[c] = <<>>
  /\ \E n \in 0..Min({Len(stream[c]), RECV_SIZE}), inside \in BOOLEAN :
       LET got  == Received(stream[c], n, inside)
           rest == Rest(stream[c], n, inside)
       IN /\ inside => n < Len(stream[c]) /\ stream[c][n + 1].s \notin {NL, COMMA, "part"}
          /\ got # <<>>
          /\ data' = [data EXCEPT ![c] = got]
          /\ stream' = [stream EXCEPT ![c] = rest]
          /\ cut' = cut \cup CutBy(got, rest)
          /\ Cardinality(cut') <= MaxCuts
  /\ UNCHANGED <<conn, sent, kept, matched, heartbeat_check, complete>>

\* parseEventLog: one turn of its loop.
ParseLine(c) ==
  LET e == LineEnd(data[c])
  IN /\ data[c] # <<>>
     /\ kept' = kept \o Translated(Line(data[c]))
     /\ data' = [data EXCEPT ![c] = SubSeq(@, e + 1, Len(@))]
     /\ complete' = complete \cup {data[c][i].of : i \in {e} \cap DOMAIN data[c]}
     /\ UNCHANGED <<conn, stream, sent, matched, heartbeat_check, cut>>

\* End of the stream, or an error: what has not been received is lost.
CloseConn(c) ==
  /\ conn[c] = "open" /\ data[c] = <<>>
  /\ conn' = [conn EXCEPT ![c] = "closed"]
  /\ stream' = [stream EXCEPT ![c] = <<>>]
  /\ UNCHANGED <<data, sent, kept, matched, heartbeat_check, complete, cut>>

\* What follows the first "proctitle=": a2b_hex() makes a command of it if it is
\* all arguments, else it is compared as it is.
Proctitle(l) ==
  LET from == Min(Where(l.text, "proctitle")) + 1
  IN [i \in 1..Len(l.text) - from + 1 |-> l.text[from + i - 1].s]

logmatch ==
  /\ matched < Len(kept)
  /\ matched' = matched + 1
  /\ heartbeat_check' = [t \in Heartbeat |->
       \/ heartbeat_check[t]
       \/ /\ Has(kept[matched + 1].text, "proctitle")
          /\ Proctitle(kept[matched + 1]) \in SubSeqs(Command[t])]
  /\ UNCHANGED <<conn, stream, data, sent, kept, complete, cut>>

TrReceiver == logmatch \/ \E c \in Conn : Recv(c) \/ ParseLine(c) \/ CloseConn(c)

TrNext ==
  \/ TrReceiver
  \/ \E c \in Conn : SendBatch(c) \/ \E m \in Message : AppendRecord(c, m) \/ SendOther(c, m)

TrSpec == TrInit /\ [][TrNext]_trVars
-----------------------------------------------------------------------------
\* The keyword of the type that the kernel gave a record, if it is translated.
TypeOf(m) ==
  LET hits == {i \in DOMAIN Text[m] : Text[m][i] \in Keywords}
  IN IF hits = {} THEN "none" ELSE Text[m][Min(hits)]

\* The record is kept with all its text but one comma: what follows the comma, the
\* type, what is before the comma.
KeptWhole(m) ==
  \E i \in DOMAIN kept, k \in DOMAIN Text[m] :
    /\ Text[m][k] = COMMA
    /\ kept[i].type = TypeOf(m)
    /\ kept[i].text = SubSeq(Symbols(m), k + 1, Len(Text[m]))
                        \o <<TypeField>> \o SubSeq(Symbols(m), 1, k - 1)

\* A record with one comma, the one before "node=", and no keyword but that of its
\* type; only those of system calls may mention others ("items=").
Plain(m) ==
  /\ \E k \in DOMAIN Text[m] : \A j \in DOMAIN Text[m] : Text[m][j] = COMMA <=> j = k
  /\ \A i, j \in DOMAIN Text[m] :
       i < j /\ {Text[m][i], Text[m][j]} \subseteq Keywords
         => Text[m][i] \in {"syscall", Text[m][j]}

Own(l) == ToSet(l.text) \ {TypeField}

\* The line l has the command that record m shows, from "proctitle=" to the next
\* comma, and none of it cut; the command is not empty and a part of cmd.
HasCommand(l, m, cmd) ==
  \E j, k \in DOMAIN Text[m] :
    /\ j + 1 < k /\ Text[m][j] = "proctitle" /\ Text[m][k] = COMMA
    /\ \A n \in j..k-1 : Text[m][n] # COMMA /\ Symbol(m, n) \in Own(l)
    /\ SubSeq(Text[m], j + 1, k - 1) \in SubSeqs(cmd)

\* Every recv() spoils one record at most, the one it ends inside of: any other
\* plain record that was received to its end, and has a type the code knows, is
\* kept under its own type and without loss, also when its end of line comes with
\* the next recv().
PlainKeptWhole ==
  \A m \in complete \ cut : Plain(m) /\ TypeOf(m) # "none" => KeptWhole(m)

\* A line is made of one audit record, whatever else is sent to the port, and from
\* its beginning: the end of a record that was cut is not taken for a record,
\* unless it mentions "audit" again.
LineFromStart ==
  \A i \in DOMAIN kept : \E m \in Audit :
    /\ \A x \in Own(kept[i]) : x.of = m
    /\ \/ \E x \in Own(kept[i]) : x.at = 1
       \/ \E j \in 2..Len(Text[m]) : Text[m][j] = "audit"

\* The test looks for the logged command in the task's command, so that a part
\* of it would do, and nothing at all; yet a task is confirmed only by a line that
\* has the whole of the command a record shows: of a record cut inside its command
\* a line is made that is not all hexadecimal.
ConfirmedByWholeCommand ==
  \A t \in Heartbeat : heartbeat_check[t] =>
    \E i \in 1..matched, m \in Audit : HasCommand(kept[i], m, Command[t])
=============================================================================
