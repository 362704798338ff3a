------------------------ MODULE LogReceiver_proofs ------------------------
(***************************************************************************)
(* The way of a log line, for any number of connections of devices and of  *)
(* SPADE and for any lengths and low marks of the three deques.            *)
(***************************************************************************)
EXTENDS LogReceiver, SequenceTheorems, TLAPS

-----------------------------------------------------------------------------
(***************************************************************************)
(* Operations on a deque, and what they do to the order of the lines.      *)
(***************************************************************************)
\* Every line of A comes, among those of its connection, before every line of B.
Before(A, B) == \A x \in A, y \in B : x.conn = y.conn => x.id < y.id

\* deque.append() on a deque with maximum length m.
Put(q, x, m) == IF Len(q) < m THEN Append(q, x) ELSE Append(Tail(q), x)

\* All three deques are appended to in this way.
LEMMA AppendedIsPut ==
  \A q, x : /\ SaveDeque!Appended(q, x) = Put(q, x, BUFFER_MAX)
            /\ MatchDeque!Appended(q, x) = Put(q, x, BUFFER_MAX)
            /\ AuditDeque!Appended(q, x) = Put(q, x, AUDIT_MAX)
  BY DEF SaveDeque!Appended, MatchDeque!Appended, AuditDeque!Appended, Put

\* None is the mark of an empty hand and not a line.
LEMMA NoneIsNoLine == None \notin Line
  BY DEF None, Line

\* The lines of a sequence have numbers.
LEMMA IdsAreNumbers == \A q \in Seq(Line) : \A x \in SeqSet(q) : x.id \in Nat
<1> SUFFICES ASSUME NEW q \in Seq(Line), NEW x \in SeqSet(q) PROVE x.id \in Nat
  OBVIOUS
<1>1. PICK i \in DOMAIN q : x = q[i]
  BY DEF SeqSet
<1>2. q[i] \in Line
  BY <1>1
<1>3. x.id \in 1..MaxLog
  BY <1>1, <1>2 DEF Line
<1>4. QED
  BY <1>3, ReceiverAssumption

\* Append: the elements, and the order if the new line is a later one.
LEMMA AppendOrder ==
  ASSUME NEW q \in Seq(Line), NEW x \in Line
  PROVE  /\ Append(q, x) \in Seq(Line)
         /\ SeqSet(Append(q, x)) = SeqSet(q) \cup {x}
         /\ ConnOrder(q) /\ Before(SeqSet(q), {x}) => ConnOrder(Append(q, x))
<1> DEFINE r == Append(q, x)
<1>1. /\ r \in Seq(Line) /\ Len(r) = Len(q) + 1 /\ Len(q) \in Nat
      /\ DOMAIN r = 1..(Len(q) + 1) /\ DOMAIN q = 1..Len(q)
      /\ \A i \in 1..Len(q) : r[i] = q[i]
      /\ r[Len(q) + 1] = x
  OBVIOUS
<1>2. SeqSet(r) = SeqSet(q) \cup {x}
  <2>1. SeqSet(r) \subseteq SeqSet(q) \cup {x}
    BY <1>1 DEF SeqSet
  <2>2. SeqSet(q) \subseteq SeqSet(r)
    BY <1>1 DEF SeqSet
  <2>3. x \in SeqSet(r)
    BY <1>1 DEF SeqSet
  <2>4. QED
    BY <2>1, <2>2, <2>3
<1>3. ASSUME ConnOrder(q), Before(SeqSet(q), {x})
      PROVE  ConnOrder(r)
  <2> SUFFICES ASSUME NEW i \in DOMAIN r, NEW j \in DOMAIN r, i < j, r[i].conn = r[j].conn
               PROVE  r[i].id < r[j].id
    BY DEF ConnOrder
  <2>1. CASE j \in 1..Len(q)
    BY <1>1, <1>3, <2>1 DEF ConnOrder
  <2>2. CASE j = Len(q) + 1
    <3>1. i \in 1..Len(q) /\ r[j] = x /\ r[i] = q[i]
      BY <1>1, <2>2
    <3>2. q[i] \in SeqSet(q)
      BY <1>1, <3>1 DEF SeqSet
    <3>3. QED
      BY <1>3, <3>1, <3>2 DEF Before
  <2>3. QED
    BY <1>1, <2>1, <2>2
<1>4. QED
  BY <1>1, <1>2, <1>3

\* The first line and the others.
LEMMA TailOrder ==
  ASSUME NEW q \in Seq(Line), q # <<>>
  PROVE  /\ Tail(q) \in Seq(Line) /\ Head(q) \in Line
         /\ SeqSet(q) = {Head(q)} \cup SeqSet(Tail(q))
         /\ ConnOrder(q) => ConnOrder(Tail(q)) /\ Before({Head(q)}, SeqSet(Tail(q)))
<1>1. /\ Tail(q) \in Seq(Line) /\ Len(Tail(q)) = Len(q) - 1 /\ Len(q) \in Nat \ {0}
      /\ DOMAIN Tail(q) = 1..(Len(q) - 1) /\ DOMAIN q = 1..Len(q)
      /\ \A i \in 1..(Len(q) - 1) : Tail(q)[i] = q[i + 1]
      /\ Head(q) = q[1] /\ Head(q) \in Line
  OBVIOUS
<1>2. SeqSet(q) = {Head(q)} \cup SeqSet(Tail(q))
  <2>1. ASSUME NEW i \in 1..Len(q)
        PROVE  q[i] \in {Head(q)} \cup SeqSet(Tail(q))
    <3>1. CASE i = 1
      BY <1>1, <3>1
    <3>2. CASE i # 1
      <4>1. i - 1 \in DOMAIN Tail(q) /\ Tail(q)[i - 1] = q[i]
        BY <1>1, <3>2
      <4>2. QED
        BY <4>1 DEF SeqSet
    <3>3. QED
      BY <3>1, <3>2
  <2>2. ASSUME NEW i \in 1..(Len(q) - 1)
        PROVE  Tail(q)[i] \in SeqSet(q)
    <3>1. i + 1 \in DOMAIN q /\ Tail(q)[i] = q[i + 1]
      BY <1>1
    <3>2. QED
      BY <3>1 DEF SeqSet
  <2>3. Head(q) \in SeqSet(q)
    BY <1>1 DEF SeqSet
  <2>4. QED
    BY <1>1, <2>1, <2>2, <2>3 DEF SeqSet
<1>3. ASSUME ConnOrder(q)
      PROVE  ConnOrder(Tail(q)) /\ Before({Head(q)}, SeqSet(Tail(q)))
  <2>1. ConnOrder(Tail(q))
    <3> SUFFICES ASSUME NEW i \in 1..(Len(q) - 1), NEW j \in 1..(Len(q) - 1), i < j,
                        Tail(q)[i].conn = Tail(q)[j].conn
                 PROVE  Tail(q)[i].id < Tail(q)[j].id
      BY <1>1 DEF ConnOrder
    <3>1. i + 1 \in DOMAIN q /\ j + 1 \in DOMAIN q /\ i + 1 < j + 1
      BY <1>1
    <3>2. QED
      BY <1>1, <1>3, <3>1 DEF ConnOrder
  <2>2. ASSUME NEW y \in SeqSet(Tail(q)), Head(q).conn = y.conn
        PROVE  Head(q).id < y.id
    <3>1. PICK i \in 1..(Len(q) - 1) : y = Tail(q)[i]
      BY <1>1 DEF SeqSet
    <3>2. 1 \in DOMAIN q /\ i + 1 \in DOMAIN q /\ 1 < i + 1 /\ y = q[i + 1]
      BY <1>1, <3>1
    <3>3. QED
      BY <1>1, <1>3, <2>2, <3>2 DEF ConnOrder
  <2>3. QED
    BY <2>1, <2>2 DEF Before
<1>4. QED
  BY <1>1, <1>2, <1>3

\* An append to a deque, full or not.
LEMMA PutOrder ==
  ASSUME NEW q \in Seq(Line), NEW x \in Line, NEW m \in Nat \ {0}, Len(q) <= m
  PROVE  /\ Put(q, x, m) \in Seq(Line) /\ Len(Put(q, x, m)) <= m
         /\ SeqSet(Put(q, x, m)) \subseteq SeqSet(q) \cup {x}
         /\ ConnOrder(q) /\ Before(SeqSet(q), {x}) => ConnOrder(Put(q, x, m))
<1>1. CASE Len(q) < m
  <2>1. Put(q, x, m) = Append(q, x)
    BY <1>1 DEF Put
  <2>2. Len(Append(q, x)) <= m
    BY <1>1
  <2>3. QED
    BY <2>1, <2>2, AppendOrder
<1>2. CASE ~(Len(q) < m)
  <2>1. q # <<>> /\ Len(q) = m
    BY <1>2
  <2>2. /\ Tail(q) \in Seq(Line)
        /\ SeqSet(Tail(q)) \subseteq SeqSet(q)
        /\ ConnOrder(q) => ConnOrder(Tail(q))
    BY <2>1, TailOrder
  <2>3. Before(SeqSet(q), {x}) => Before(SeqSet(Tail(q)), {x})
    BY <2>2 DEF Before
  <2>4. Put(q, x, m) = Append(Tail(q), x)
    BY <1>2 DEF Put
  <2>5. Len(Append(Tail(q), x)) <= m
    BY <2>1
  <2>6. /\ Append(Tail(q), x) \in Seq(Line)
        /\ SeqSet(Append(Tail(q), x)) = SeqSet(Tail(q)) \cup {x}
        /\ ConnOrder(Tail(q)) /\ Before(SeqSet(Tail(q)), {x}) => ConnOrder(Append(Tail(q), x))
    BY <2>2, AppendOrder
  <2>7. QED
    BY <2>2, <2>3, <2>4, <2>5, <2>6
<1>3. QED
  BY <1>1, <1>2
-----------------------------------------------------------------------------
(***************************************************************************)
(* Types.                                                                  *)
(***************************************************************************)
\* TypeOK, with the domains of the functions it says nothing of.
TypeInv ==
  /\ TypeOK
  /\ lines \in [Conn -> Seq(Line)]
  /\ temp \in [Conn -> Seq(Line)]
  /\ forwarded \in [Spade -> Seq(Line)]

\* The receiver starts with empty deques and no connection.
LEMMA TypeInit == Init => TypeInv
<1> SUFFICES ASSUME Init PROVE TypeInv
  OBVIOUS
<1>1. <<>> \in Seq(Line) /\ Len(<<>>) = 0
  OBVIOUS
<1>2. lines \in [Conn -> Seq(Line)] /\ temp \in [Conn -> Seq(Line)]
      /\ forwarded \in [Spade -> Seq(Line)]
  BY <1>1 DEF Init
<1>3. SaveDeque!DequeTypeOK /\ MatchDeque!DequeTypeOK /\ AuditDeque!DequeTypeOK
  BY <1>1, ReceiverAssumption
  DEF Init, SaveDeque!DequeInit, MatchDeque!DequeInit, AuditDeque!DequeInit,
      SaveDeque!DequeTypeOK, MatchDeque!DequeTypeOK, AuditDeque!DequeTypeOK
<1>4. QED
  BY <1>1, <1>2, <1>3, ReceiverAssumption DEF Init, TypeInv, TypeOK

\* The line being appended.
LEMMA HeadIsLine ==
  ASSUME TypeInv, NEW c \in Conn, client[c] \in {"save", "match", "audit"}
  PROVE  lines[c] \in Seq(Line) /\ lines[c] # <<>> /\ Head(lines[c]) \in Line
<1>1. lines[c] \in Seq(Line) /\ lines[c] # <<>>
  BY DEF TypeInv, TypeOK
<1>2. QED
  BY <1>1, TailOrder

\* A connection that opens or closes changes no line.
LEMMA TypeAccept ==
  ASSUME TypeInv, NEW c \in Conn, Accept(c) \/ Close(c)
  PROVE  TypeInv'
<1>1. CASE Accept(c)
  BY <1>1 DEF TypeInv, TypeOK, Accept, sendVars, SaveDeque!Start, MatchDeque!Start,
     SaveDeque!DequeTypeOK, MatchDeque!DequeTypeOK, AuditDeque!DequeTypeOK
<1>2. CASE Close(c)
  BY <1>2 DEF TypeInv, TypeOK, Close, saveVars, matchVars, sendVars,
     SaveDeque!DequeTypeOK, MatchDeque!DequeTypeOK, AuditDeque!DequeTypeOK
<1>3. QED
  BY <1>1, <1>2

\* recv() brings at least one line.
LEMMA TypeRecv ==
  ASSUME TypeInv, NEW c \in Conn, Recv(c)
  PROVE  TypeInv'
<1>1. PICK n \in 1..MaxLines :
        /\ received + n <= MaxLog
        /\ lines' = [lines EXCEPT ![c] = [i \in 1..n |-> [conn |-> c, id |-> received + i]]]
        /\ received' = received + n
  BY DEF Recv
<1> DEFINE q == [i \in 1..n |-> [conn |-> c, id |-> received + i]]
<1>2. received \in Nat /\ n \in Nat \ {0} /\ received + n \in 0..MaxLog
  BY <1>1, ReceiverAssumption, SMTT(30) DEF TypeInv, TypeOK
<1>3. q \in Seq(Line) /\ q # <<>>
  <2>1. ASSUME NEW i \in 1..n PROVE q[i] \in Line
    BY <1>1, <1>2, ReceiverAssumption, SMTT(30) DEF Line
  <2>2. q \in [1..n -> Line] 
    BY <2>1
  <2>3. q \in Seq(Line) /\ Len(q) = n
    BY <2>2, <1>2, IsASeq, SMT
  <2>4. QED
    BY <2>3, <1>2
<1>4. lines' \in [Conn -> Seq(Line)] /\ lines'[c] # <<>>
      /\ \A d \in Conn : d # c => lines'[d] = lines[d]
  BY <1>1, <1>3 DEF TypeInv
<1>5. client' = [client EXCEPT ![c] = "save"]
  BY DEF Recv
<1>6. \A d \in Conn : (client[d] \in {"save", "match", "audit"} <=> lines[d] # <<>>)'
  BY <1>4, <1>5 DEF TypeInv, TypeOK
<1>7. QED
  BY <1>1, <1>2, <1>4, <1>5, <1>6, ZenonT(60) DEF TypeInv, TypeOK, Recv, saveVars, matchVars, sendVars,
     SaveDeque!DequeTypeOK, MatchDeque!DequeTypeOK, AuditDeque!DequeTypeOK

\* The appends to audit_buffer and audit_buffer_hearbeat.
LEMMA TypeAppend ==
  ASSUME TypeInv, NEW c \in Conn, AppendSave(c) \/ AppendMatch(c)
  PROVE  TypeInv'
<1>1. lines[c] \in Seq(Line) /\ lines[c] # <<>> /\ Head(lines[c]) \in Line
  BY HeadIsLine DEF AppendSave, AppendMatch
<1>2. CASE AppendSave(c)
  <2>1. SaveDeque!DequeTypeOK'
    BY <1>1, <1>2, PutOrder, AppendedIsPut, ReceiverAssumption
    DEF TypeInv, TypeOK, AppendSave, SaveDeque!DequeTypeOK
  <2>2. QED
    BY <1>2, <2>1 DEF TypeInv, TypeOK, AppendSave, matchVars, sendVars,
       MatchDeque!DequeTypeOK, AuditDeque!DequeTypeOK
<1>3. CASE AppendMatch(c)
  <2>1. MatchDeque!DequeTypeOK'
    BY <1>1, <1>3, PutOrder, AppendedIsPut, ReceiverAssumption
    DEF TypeInv, TypeOK, AppendMatch, MatchDeque!DequeTypeOK
  <2>2. QED
    BY <1>3, <2>1 DEF TypeInv, TypeOK, AppendMatch, saveVars, sendVars,
       SaveDeque!DequeTypeOK, AuditDeque!DequeTypeOK
<1>4. QED
  BY <1>2, <1>3

\* parseEventLog() goes on with the next line while there is one.
LEMMA TailNotEmpty ==
  ASSUME NEW q \in Seq(Line), q # <<>>
  PROVE  Tail(q) \in Seq(Line) /\ (Tail(q) # <<>> <=> Len(q) > 1)
<1>1. Tail(q) \in Seq(Line) /\ Len(Tail(q)) = Len(q) - 1 /\ Len(q) \in Nat
  BY HeadTailProperties
<1>2. Tail(q) # <<>> <=> Len(Tail(q)) # 0
  BY <1>1, EmptySeq
<1>3. Len(q) # 0
  BY EmptySeq
<1>4. QED
  BY <1>1, <1>2, <1>3

\* The append to log_buffer.audit ends a line's turn.
LEMMA TypeAppendAudit ==
  ASSUME TypeInv, NEW c \in Conn, AppendAudit(c)
  PROVE  TypeInv'
<1>1. lines[c] \in Seq(Line) /\ lines[c] # <<>> /\ Head(lines[c]) \in Line
  BY HeadIsLine DEF AppendAudit
<1>2. AuditDeque!DequeTypeOK'
  BY <1>1, PutOrder, AppendedIsPut, ReceiverAssumption
  DEF TypeInv, TypeOK, AppendAudit, AuditDeque!DequeTypeOK
<1>3. arrivals' \in Seq(Line)
  BY <1>1, AppendOrder DEF TypeInv, TypeOK, AppendAudit
<1>4. Tail(lines[c]) \in Seq(Line) /\ (Tail(lines[c]) # <<>> <=> Len(lines[c]) > 1)
  BY <1>1, TailNotEmpty, Zenon
<1>5. lines' \in [Conn -> Seq(Line)] /\ lines'[c] = Tail(lines[c])
      /\ \A d \in Conn : d # c => lines'[d] = lines[d]
  BY <1>4 DEF TypeInv, AppendAudit
<1>6. /\ client' = [client EXCEPT ![c] = IF Len(lines[c]) > 1 THEN "save" ELSE "recv"]
      /\ client \in [Conn -> {"off", "recv", "save", "match", "audit", "closed"}]
  BY DEF AppendAudit, TypeInv, TypeOK
<1>7. \A d \in Conn : (client[d] \in {"save", "match", "audit"} <=> lines[d] # <<>>)'
  BY <1>4, <1>5, <1>6 DEF TypeInv, TypeOK
<1>8. client' \in [Conn -> {"off", "recv", "save", "match", "audit", "closed"}]
  BY <1>6
<1>9. QED
  BY <1>2, <1>3, <1>5, <1>7, <1>8 DEF TypeInv, TypeOK, AppendAudit, saveVars, matchVars,
     SaveDeque!DequeTypeOK, MatchDeque!DequeTypeOK

\* A record is taken from the left of a deque.
LEMMA PopType ==
  ASSUME NEW q \in Seq(Line), q # <<>>, NEW m \in Nat, Len(q) <= m
  PROVE  Tail(q) \in Seq(Line) /\ Len(Tail(q)) <= m /\ Head(q) \in Line
  OBVIOUS

\* Writing the lines p from the start of a file that holds q.
Overwrite(p, q) == p \o SubSeq(q, Len(p) + 1, Len(q))

\* The first lines are those of p, the others are those of q.
LEMMA OverwriteType ==
  ASSUME NEW p \in Seq(Line), NEW q \in Seq(Line)
  PROVE  /\ Overwrite(p, q) \in Seq(Line)
         /\ \A i \in DOMAIN Overwrite(p, q) :
              IF i <= Len(p) THEN Overwrite(p, q)[i] = p[i]
                             ELSE i \in DOMAIN q /\ Overwrite(p, q)[i] = q[i]
<1> DEFINE r == SubSeq(q, Len(p) + 1, Len(q))
<1>1. Len(p) \in Nat /\ Len(q) \in Nat
  OBVIOUS
<1>2. CASE Len(p) + 1 > Len(q)
  <2>1. r = <<>>
    BY <1>1, <1>2, SubSeqProperties
  <2>2. Overwrite(p, q) = p
    BY <2>1, ConcatEmptySeq DEF Overwrite
  <2>3. QED
    BY <2>2, LenProperties
<1>3. CASE Len(p) + 1 <= Len(q)
  <2>1. /\ r \in Seq(Line) /\ Len(r) = Len(q) - Len(p)
        /\ \A i \in 1..Len(q) - Len(p) : r[i] = q[Len(p) + i]
    BY <1>1, <1>3
  <2> HIDE DEF r
  <2>2. /\ p \o r \in Seq(Line) /\ Len(p \o r) = Len(q)
        /\ \A i \in 1..Len(q) : (p \o r)[i] = IF i <= Len(p) THEN p[i] ELSE r[i - Len(p)]
    BY <1>1, <1>3, <2>1, ConcatProperties
  <2>3. \A i \in 1..Len(q) : i > Len(p) => r[i - Len(p)] = q[i]
    BY <1>1, <1>3, <2>1
  <2>4. QED
    BY <1>1, <2>2, <2>3, LenProperties DEF Overwrite, r
<1>4. QED
  BY <1>1, <1>2, <1>3

\* A chain of save_audit_log().
LEMMA TypeSave ==
  ASSUME TypeInv, NEW c \in Conn, Save(c)
  PROVE  TypeInv'
<1>1. CASE SavePop(c)
  <2>1. audit_buffer \in Seq(Line) /\ audit_buffer # <<>> /\ Len(audit_buffer) <= BUFFER_MAX
    BY <1>1 DEF SavePop, SaveDeque!Pop, TypeInv, TypeOK, SaveDeque!DequeTypeOK
  <2>2. /\ Tail(audit_buffer) \in Seq(Line) /\ Len(Tail(audit_buffer)) <= BUFFER_MAX
        /\ Head(audit_buffer) \in Line
    BY <2>1, PopType, ReceiverAssumption
  <2>3. SaveDeque!DequeTypeOK'
    BY <1>1, <2>2 DEF SavePop, SaveDeque!Pop, TypeInv, TypeOK, SaveDeque!DequeTypeOK
  <2>4. temp' \in [Conn -> Seq(Line)]
    BY <1>1, <2>2, AppendOrder DEF SavePop, TypeInv
  <2>5. QED
    BY <1>1, <2>3, <2>4 DEF TypeInv, TypeOK, SavePop, clientVars, matchVars, sendVars,
       MatchDeque!DequeTypeOK, AuditDeque!DequeTypeOK
<1>2. CASE SaveTimer(c) \/ SaveOpen(c)
  <2>0. <<>> \in Seq(Line)
    OBVIOUS
  <2>1. file' \in Seq(Line)
    BY <1>2, <2>0 DEF TypeInv, TypeOK, SaveTimer, SaveOpen
  <2>2. round' \in [Conn -> {"no", "take", "write"}]
    BY <1>2 DEF TypeInv, TypeOK, SaveTimer, SaveOpen
  <2>3. UNCHANGED <<clientVars, audit_buffer, saver, temp, matchVars, sendVars, arrivals>>
    BY <1>2 DEF SaveTimer, SaveOpen
  <2>4. QED
    BY <2>1, <2>2, <2>3 DEF TypeInv, TypeOK, clientVars, matchVars, sendVars,
       SaveDeque!DequeTypeOK, MatchDeque!DequeTypeOK, AuditDeque!DequeTypeOK
<1>3. CASE SaveWrite(c)
  <2>1. temp' \in [Conn -> Seq(Line)]
    BY <1>3 DEF SaveWrite, TypeInv
  <2>2. file' \in Seq(Line)
    BY <1>3, OverwriteType DEF SaveWrite, TypeInv, TypeOK, Overwrite
  <2>3. QED
    BY <1>3, <2>1, <2>2 DEF TypeInv, TypeOK, SaveWrite, clientVars, matchVars, sendVars,
       SaveDeque!DequeTypeOK, MatchDeque!DequeTypeOK, AuditDeque!DequeTypeOK
<1>4. CASE SaveCheck(c) \/ SavePopEmpty(c)
  <2>0. <<>> \in Seq(Line)
    OBVIOUS
  <2>1. temp' \in [Conn -> Seq(Line)]
    <3>1. CASE SaveCheck(c)
      BY <3>1 DEF SaveCheck, TypeInv
    <3>2. CASE SavePopEmpty(c)
      BY <2>0, <3>2 DEF SavePopEmpty, TypeInv
    <3>3. QED
      BY <1>4, <3>1, <3>2
  <2>2. QED
    BY <1>4, <2>1 DEF TypeInv, TypeOK, SaveCheck, SavePopEmpty,
       SaveDeque!Check, SaveDeque!PopEmpty, clientVars, matchVars, sendVars,
       SaveDeque!DequeTypeOK, MatchDeque!DequeTypeOK, AuditDeque!DequeTypeOK
<1>5. QED
  BY <1>1, <1>2, <1>3, <1>4 DEF Save

\* A chain of logmatch().
LEMMA TypeMatch ==
  ASSUME TypeInv, NEW c \in Conn, Match(c)
  PROVE  TypeInv'
<1>1. MatchDeque!DequeTypeOK'
  <2>1. CASE MatchDeque!Pop(c)
    BY <2>1, PopType, ReceiverAssumption
    DEF MatchDeque!Pop, MatchDeque!DequeTypeOK, TypeInv, TypeOK
  <2>2. CASE MatchDeque!Check(c) \/ MatchDeque!PopEmpty(c)
    BY <2>2 DEF MatchDeque!Check, MatchDeque!PopEmpty, MatchDeque!DequeTypeOK, TypeInv, TypeOK
  <2>3. QED
    BY <2>1, <2>2 DEF Match
<1>2. QED
  BY <1>1 DEF Match, TypeInv, TypeOK, clientVars, saveVars, sendVars,
     SaveDeque!DequeTypeOK, AuditDeque!DequeTypeOK

\* A thread that serves SPADE.
LEMMA TypeForward ==
  ASSUME TypeInv, NEW s \in Spade, SpadeConnects(s) \/ Forward(s)
  PROVE  TypeInv'
<1>1. CASE SendPop(s)
  <2>1. audit \in Seq(Line) /\ audit # <<>> /\ Len(audit) <= AUDIT_MAX
    BY <1>1 DEF SendPop, AuditDeque!Pop, TypeInv, TypeOK, AuditDeque!DequeTypeOK
  <2>2. Tail(audit) \in Seq(Line) /\ Len(Tail(audit)) <= AUDIT_MAX /\ Head(audit) \in Line
    BY <2>1, PopType, ReceiverAssumption
  <2>3. AuditDeque!DequeTypeOK'
    BY <1>1, <2>2 DEF SendPop, AuditDeque!Pop, TypeInv, TypeOK, AuditDeque!DequeTypeOK
  <2>4. QED
    BY <1>1, <2>2, <2>3 DEF TypeInv, TypeOK, SendPop, receiveVars, clientVars, saveVars,
       matchVars, SaveDeque!DequeTypeOK, MatchDeque!DequeTypeOK
<1>2. CASE SendDone(s)
  <2>1. held[s] \in Line
    BY <1>2 DEF SendDone, TypeInv, TypeOK
  <2>2. forwarded' \in [Spade -> Seq(Line)]
    BY <1>2, <2>1, AppendOrder DEF SendDone, TypeInv
  <2>3. QED
    BY <1>2, <2>2 DEF TypeInv, TypeOK, SendDone, receiveVars, clientVars, saveVars, matchVars,
       SaveDeque!DequeTypeOK, MatchDeque!DequeTypeOK, AuditDeque!DequeTypeOK
<1>3. CASE SendFails(s)
  <2>1. held[s] \in Line
    BY <1>3 DEF SendFails, TypeInv, TypeOK
  <2>2. QED
    BY <1>3, <2>1 DEF TypeInv, TypeOK, SendFails, AuditDeque!Stop, receiveVars, clientVars,
       saveVars, matchVars, SaveDeque!DequeTypeOK, MatchDeque!DequeTypeOK, AuditDeque!DequeTypeOK
<1>4. CASE SpadeConnects(s) \/ SendCheck(s) \/ SendPopEmpty(s)
  BY <1>4, ZenonT(60) DEF TypeInv, TypeOK, SpadeConnects, SendCheck, SendPopEmpty, AuditDeque!Start,
     AuditDeque!Check, AuditDeque!PopEmpty, receiveVars, clientVars, saveVars, matchVars,
     SaveDeque!DequeTypeOK, MatchDeque!DequeTypeOK, AuditDeque!DequeTypeOK
<1>5. QED
  BY <1>1, <1>2, <1>3, <1>4 DEF Forward

\* A step that changes nothing.
LEMMA TypeStutter ==
  ASSUME TypeInv, UNCHANGED vars
  PROVE  TypeInv'
  BY DEF TypeInv, TypeOK, vars, clientVars, saveVars, matchVars, sendVars,
     SaveDeque!DequeTypeOK, MatchDeque!DequeTypeOK, AuditDeque!DequeTypeOK

\* Every step keeps the types.
LEMMA TypeStep ==
  ASSUME TypeInv, [Next]_vars
  PROVE  TypeInv'
<1>1. ASSUME NEW c \in Conn, Accept(c) \/ Recv(c) \/ Close(c) \/ Parse(c) \/ Save(c) \/ Match(c)
      PROVE  TypeInv'
  BY <1>1, TypeAccept, TypeRecv, TypeAppend, TypeAppendAudit, TypeSave, TypeMatch DEF Parse
<1>2. QED
  BY <1>1, TypeForward, TypeStutter DEF Next

\* The types, as an invariant the other proofs start from.
LEMMA TypeInvariance == Spec => []TypeInv
  BY TypeInit, TypeStep, PTL DEF Spec

\* The three deques keep to their maximum lengths, and a connection has lines in
\* hand exactly while it is appending them.
THEOREM TypeCorrect == Spec => []TypeOK
<1>1. TypeInv => TypeOK
  BY DEF TypeInv
<1>2. QED
  BY TypeInvariance, <1>1, PTL
-----------------------------------------------------------------------------
(***************************************************************************)
(* The lines a connection has still to append.                             *)
(***************************************************************************)
\* They are the connection's own, numbered as they came in.
LinesInv ==
  \A c \in Conn :
    /\ ConnOrder(lines[c])
    /\ \A x \in SeqSet(lines[c]) : x.conn = c /\ x.id <= received

\* What recv() brings is newer than all that was received before.
LEMMA NewLines ==
  ASSUME TypeInv, NEW c \in Conn, Recv(c)
  PROVE  /\ ConnOrder(lines'[c])
         /\ \A x \in SeqSet(lines'[c]) : x.conn = c /\ received < x.id /\ x.id <= received'
         /\ \A d \in Conn : d # c => lines'[d] = lines[d]
         /\ received \in Nat /\ received' \in Nat /\ received <= received'
<1>1. PICK n \in 1..MaxLines :
        /\ received + n <= MaxLog
        /\ lines' = [lines EXCEPT ![c] = [i \in 1..n |-> [conn |-> c, id |-> received + i]]]
        /\ received' = received + n
  BY DEF Recv
<1> DEFINE q == [i \in 1..n |-> [conn |-> c, id |-> received + i]]
<1>2. received \in Nat /\ n \in Nat /\ received' = received + n
  BY <1>1, ReceiverAssumption DEF TypeInv, TypeOK
<1>3. lines'[c] = q /\ \A d \in Conn : d # c => lines'[d] = lines[d]
  BY <1>1 DEF TypeInv
<1>4. /\ DOMAIN q = 1..n
      /\ \A i \in 1..n : q[i].conn = c /\ q[i].id = received + i
  OBVIOUS
<1> HIDE DEF q
<1>5. ConnOrder(q)
  BY <1>2, <1>4 DEF ConnOrder
<1>6. \A x \in SeqSet(q) : x.conn = c /\ received < x.id /\ x.id <= received'
  BY <1>2, <1>4 DEF SeqSet
<1>7. QED
  BY <1>2, <1>3, <1>5, <1>6

\* What has been received comes before what recv() brings.
LEMMA RecvLater ==
  ASSUME TypeInv, NEW c \in Conn, Recv(c),
         NEW A \in SUBSET Line, \A x \in A : x.id <= received
  PROVE  /\ \A x \in A : x.id <= received'
         /\ Before(A, SeqSet(lines'[c]))
<1>1. \A x \in Line : x.id \in Nat
  BY ReceiverAssumption DEF Line
<1>2. received \in Nat /\ received' \in Nat /\ received <= received'
  BY NewLines
<1>3. \A x \in SeqSet(lines'[c]) : received < x.id /\ x \in Line
  <2>1. TypeInv'
    BY TypeRecv
  <2>2. lines'[c] \in Seq(Line)
    BY <2>1 DEF TypeInv
  <2>3. SeqSet(lines'[c]) \subseteq Line
    BY <2>2 DEF SeqSet
  <2>4. QED
    BY <2>3, NewLines
<1>4. QED
  BY <1>1, <1>2, <1>3 DEF Before

\* The line in hand comes before the others of its connection.
LEMMA HeadFirst ==
  ASSUME TypeInv, LinesInv, NEW c \in Conn, client[c] \in {"save", "match", "audit"}
  PROVE  /\ Head(lines[c]) \in Line /\ Head(lines[c]) \in SeqSet(lines[c])
         /\ Head(lines[c]).id <= received /\ Head(lines[c]).conn = c
         /\ SeqSet(Tail(lines[c])) \subseteq SeqSet(lines[c])
         /\ ConnOrder(Tail(lines[c]))
         /\ Before({Head(lines[c])}, SeqSet(Tail(lines[c])))
         /\ \A d \in Conn : d # c => Before({Head(lines[c])}, SeqSet(lines[d]))
<1>1. lines[c] \in Seq(Line) /\ lines[c] # <<>>
  BY HeadIsLine
<1>2. /\ Head(lines[c]) \in Line /\ Head(lines[c]) \in SeqSet(lines[c])
      /\ SeqSet(Tail(lines[c])) \subseteq SeqSet(lines[c])
      /\ ConnOrder(Tail(lines[c]))
      /\ Before({Head(lines[c])}, SeqSet(Tail(lines[c])))
  BY <1>1, TailOrder DEF LinesInv
<1>3. Head(lines[c]).id <= received /\ Head(lines[c]).conn = c
  BY <1>2 DEF LinesInv
<1>4. \A d \in Conn : d # c => Before({Head(lines[c])}, SeqSet(lines[d]))
  BY <1>3 DEF LinesInv, Before
<1>5. QED
  BY <1>2, <1>3, <1>4

\* What AppendAudit does to the lines in hand.
LEMMA AuditLines ==
  ASSUME TypeInv, NEW c \in Conn, AppendAudit(c)
  PROVE  /\ client[c] \in {"save", "match", "audit"}
         /\ lines'[c] = Tail(lines[c]) /\ \A d \in Conn : d # c => lines'[d] = lines[d]
         /\ received' = received
  BY DEF AppendAudit, TypeInv

\* No other operation changes them.
LEMMA LinesFrame ==
  ASSUME [Next]_vars
  PROVE  UNCHANGED <<lines, received>> \/ \E c \in Conn : Recv(c) \/ AppendAudit(c)
<1>1. ASSUME NEW c \in Conn, Accept(c) \/ Close(c) \/ AppendSave(c) \/ AppendMatch(c)
      PROVE  UNCHANGED <<lines, received>>
  BY <1>1 DEF Accept, Close, AppendSave, AppendMatch
<1>2. ASSUME NEW c \in Conn, Save(c) \/ Match(c)
      PROVE  UNCHANGED <<lines, received>>
  BY <1>2 DEF Save, SaveTimer, SaveCheck, SavePop, SavePopEmpty, SaveOpen, SaveWrite, Match,
     clientVars
<1>3. ASSUME NEW s \in Spade, SpadeConnects(s) \/ Forward(s)
      PROVE  UNCHANGED <<lines, received>>
  BY <1>3 DEF SpadeConnects, Forward, SendCheck, SendPop, SendPopEmpty, SendDone, SendFails,
     receiveVars, clientVars
<1>4. QED
  BY <1>1, <1>2, <1>3 DEF Next, Parse, vars, clientVars

\* Every step keeps the order of the lines in hand.
LEMMA LinesStep ==
  ASSUME TypeInv, LinesInv, [Next]_vars
  PROVE  LinesInv'
<1>1. CASE UNCHANGED <<lines, received>>
  BY <1>1 DEF LinesInv
<1>2. ASSUME NEW c \in Conn, Recv(c)
      PROVE  LinesInv'
  <2> SUFFICES ASSUME NEW d \in Conn
               PROVE  /\ ConnOrder(lines'[d])
                      /\ \A x \in SeqSet(lines'[d]) : x.conn = d /\ x.id <= received'
    BY DEF LinesInv, ConnOrder, SeqSet
  <2>1. CASE d = c
    BY <1>2, <2>1, NewLines
  <2>2. CASE d # c
    <3>1. lines'[d] = lines[d] /\ received \in Nat /\ received' \in Nat /\ received <= received'
      BY <1>2, <2>2, NewLines
    <3>2. lines[d] \in Seq(Line)
      BY DEF TypeInv
    <3>3. \A x \in SeqSet(lines[d]) : x.id \in Nat
      BY <3>2, IdsAreNumbers
    <3>4. QED
      BY <3>1, <3>3 DEF LinesInv
  <2>3. QED
    BY <2>1, <2>2
<1>3. ASSUME NEW c \in Conn, AppendAudit(c)
      PROVE  LinesInv'
  <2> SUFFICES ASSUME NEW d \in Conn
               PROVE  /\ ConnOrder(lines'[d])
                      /\ \A x \in SeqSet(lines'[d]) : x.conn = d /\ x.id <= received'
    BY DEF LinesInv, ConnOrder, SeqSet
  <2>1. ConnOrder(Tail(lines[c])) /\ SeqSet(Tail(lines[c])) \subseteq SeqSet(lines[c])
    BY <1>3, AuditLines, HeadFirst
  <2>2. QED
    BY <1>3, <2>1, AuditLines DEF LinesInv
<1>4. QED
  BY <1>1, <1>2, <1>3, LinesFrame
-----------------------------------------------------------------------------
(***************************************************************************)
(* From a connection through audit_buffer into the save file.              *)
(***************************************************************************)
\* The lines in hand that have not come into audit_buffer.
Unsaved(c) == IF client[c] \in {"match", "audit"} THEN Tail(lines[c]) ELSE lines[c]

\* What a chain has taken comes before what is in the buffer, and that before
\* what is still to be appended; so each chain's round is in order.
SaveInv ==
  /\ ConnOrder(audit_buffer)
  /\ \A x \in SeqSet(audit_buffer) : x.id <= received
  /\ \A c \in Conn : Before(SeqSet(audit_buffer), SeqSet(Unsaved(c)))
  /\ \A d \in Conn :
       /\ ConnOrder(temp[d])
       /\ \A x \in SeqSet(temp[d]) : x.id <= received
       /\ Before(SeqSet(temp[d]), SeqSet(audit_buffer))
       /\ \A c \in Conn : Before(SeqSet(temp[d]), SeqSet(Unsaved(c)))

\* Only recv() and the append to audit_buffer change what is unsaved: the step
\* to the next line leaves it as it is.
LEMMA UnsavedFrame ==
  ASSUME TypeInv, [Next]_vars
  PROVE  \/ \A c \in Conn : Unsaved(c)' = Unsaved(c)
         \/ \E c \in Conn : Recv(c) \/ AppendSave(c)
<1>1. ASSUME NEW c \in Conn, Accept(c) \/ Close(c) \/ AppendMatch(c), NEW d \in Conn
      PROVE  Unsaved(d)' = Unsaved(d)
  BY <1>1 DEF Accept, Close, AppendMatch, Unsaved, TypeInv, TypeOK
<1>2. ASSUME NEW c \in Conn, AppendAudit(c), NEW d \in Conn
      PROVE  Unsaved(d)' = Unsaved(d)
  <2>1. /\ lines'[c] = Tail(lines[c]) /\ \A e \in Conn : e # c => lines'[e] = lines[e]
    BY <1>2, AuditLines
  <2>2. /\ client[c] = "audit" /\ client'[c] \in {"save", "recv"}
        /\ \A e \in Conn : e # c => client'[e] = client[e]
    BY <1>2 DEF AppendAudit, TypeInv, TypeOK
  <2>3. CASE d = c
    BY <2>1, <2>2, <2>3 DEF Unsaved
  <2>4. CASE d # c
    BY <2>1, <2>2, <2>4 DEF Unsaved
  <2>5. QED
    BY <2>3, <2>4
<1>3. ASSUME NEW c \in Conn, Save(c) \/ Match(c)
      PROVE  UNCHANGED <<client, lines>>
  BY <1>3 DEF Save, SaveTimer, SaveCheck, SavePop, SavePopEmpty, SaveOpen, SaveWrite, Match,
     clientVars
<1>4. ASSUME NEW s \in Spade, SpadeConnects(s) \/ Forward(s)
      PROVE  UNCHANGED <<client, lines>>
  BY <1>4 DEF SpadeConnects, Forward, SendCheck, SendPop, SendPopEmpty, SendDone, SendFails,
     receiveVars, clientVars
<1>5. UNCHANGED <<client, lines>> => \A d \in Conn : Unsaved(d)' = Unsaved(d)
  BY DEF Unsaved
<1>6. QED
  BY <1>1, <1>2, <1>3, <1>4, <1>5 DEF Next, Parse, vars, clientVars

\* The operations that change what is saved.
LEMMA SaveFrame ==
  ASSUME TypeInv, [Next]_vars
  PROVE  \/ UNCHANGED <<received, audit_buffer, file, temp>>
         \/ \E c \in Conn : \/ Recv(c) \/ AppendSave(c) \/ SavePop(c)
                            \/ SavePopEmpty(c) \/ SaveOpen(c) \/ SaveWrite(c)
<1>1. ASSUME NEW c \in Conn, Accept(c) \/ Close(c) \/ AppendMatch(c) \/ AppendAudit(c)
      PROVE  UNCHANGED <<received, audit_buffer, file, temp>>
  BY <1>1 DEF Accept, Close, AppendMatch, AppendAudit, SaveDeque!Start, saveVars
<1>2. ASSUME NEW c \in Conn, SaveTimer(c) \/ SaveCheck(c) \/ Match(c)
      PROVE  UNCHANGED <<received, audit_buffer, file, temp>>
  BY <1>2 DEF SaveTimer, SaveCheck, Match, SaveDeque!Check, clientVars, saveVars
<1>3. ASSUME NEW s \in Spade, SpadeConnects(s) \/ Forward(s)
      PROVE  UNCHANGED <<received, audit_buffer, file, temp>>
  BY <1>3 DEF SpadeConnects, Forward, SendCheck, SendPop, SendPopEmpty, SendDone, SendFails,
     receiveVars, clientVars, saveVars
<1>4. QED
  BY <1>1, <1>2, <1>3 DEF Next, Parse, Save, vars, clientVars, saveVars

\* Types of what SaveInv speaks of.
LEMMA SaveTypes ==
  ASSUME TypeInv
  PROVE  /\ audit_buffer \in Seq(Line) /\ Len(audit_buffer) <= BUFFER_MAX
         /\ SeqSet(audit_buffer) \subseteq Line
         /\ temp \in [Conn -> Seq(Line)]
         /\ \A d \in Conn : SeqSet(temp[d]) \subseteq Line
<1>1. /\ audit_buffer \in Seq(Line) /\ Len(audit_buffer) <= BUFFER_MAX
      /\ temp \in [Conn -> Seq(Line)]
  BY DEF TypeInv, TypeOK, SaveDeque!DequeTypeOK
<1>2. ASSUME NEW q \in Seq(Line) PROVE SeqSet(q) \subseteq Line
  BY DEF SeqSet
<1>3. QED
  BY <1>1, <1>2

\* New lines come after all that is saved or taken.
LEMMA SaveRecv ==
  ASSUME TypeInv, LinesInv, SaveInv, NEW c \in Conn, Recv(c)
  PROVE  SaveInv'
<1>1. UNCHANGED <<audit_buffer, file, temp>>
  BY DEF Recv, saveVars
<1>2. /\ Unsaved(c)' = lines'[c]
      /\ \A d \in Conn : d # c => Unsaved(d)' = Unsaved(d)
  BY NewLines DEF Recv, Unsaved, TypeInv, TypeOK
<1>3. /\ \A x \in SeqSet(audit_buffer) : x.id <= received'
      /\ Before(SeqSet(audit_buffer), SeqSet(Unsaved(c)'))
  BY <1>2, RecvLater, SaveTypes DEF SaveInv
<1>4. ASSUME NEW d \in Conn
      PROVE  /\ \A x \in SeqSet(temp[d]) : x.id <= received'
             /\ Before(SeqSet(temp[d]), SeqSet(Unsaved(c)'))
  BY <1>2, RecvLater, SaveTypes DEF SaveInv
<1>5. \A e \in Conn : Before(SeqSet(audit_buffer), SeqSet(Unsaved(e)'))
  BY <1>2, <1>3 DEF SaveInv
<1>6. \A d, e \in Conn : Before(SeqSet(temp[d]), SeqSet(Unsaved(e)'))
  BY <1>2, <1>4 DEF SaveInv
<1>7. QED
  BY <1>1, <1>3, <1>4, <1>5, <1>6 DEF SaveInv, Before, SeqSet

\* The line in hand moves into audit_buffer.
LEMMA SaveAppend ==
  ASSUME TypeInv, LinesInv, SaveInv, NEW c \in Conn, AppendSave(c)
  PROVE  SaveInv'
<1> DEFINE x == Head(lines[c])
<1>1. UNCHANGED <<file, temp, received>> /\ client[c] = "save"
      /\ audit_buffer' = Put(audit_buffer, x, BUFFER_MAX)
  BY AppendedIsPut DEF AppendSave
<1>2. /\ Unsaved(c) = lines[c] /\ Unsaved(c)' = Tail(lines[c])
      /\ \A d \in Conn : d # c => Unsaved(d)' = Unsaved(d)
  BY DEF AppendSave, Unsaved, TypeInv, TypeOK
<1>3. /\ x \in Line /\ x \in SeqSet(lines[c]) /\ x.id <= received /\ x.conn = c
      /\ SeqSet(Tail(lines[c])) \subseteq SeqSet(lines[c])
      /\ Before({x}, SeqSet(Tail(lines[c])))
  BY <1>1, HeadFirst
<1>4. Before(SeqSet(audit_buffer), {x})
  BY <1>2, <1>3 DEF SaveInv, Before
<1>5. ConnOrder(audit_buffer') /\ SeqSet(audit_buffer') \subseteq SeqSet(audit_buffer) \cup {x}
  <2>1. ConnOrder(audit_buffer)
    BY DEF SaveInv
  <2> HIDE DEF x
  <2>2. QED
    BY <1>1, <1>3, <1>4, <2>1, PutOrder, SaveTypes, ReceiverAssumption
<1>6. \A d \in Conn : Before({x}, SeqSet(Unsaved(d)'))
  <2>1. ASSUME NEW d \in Conn, d # c
        PROVE  Before({x}, SeqSet(Unsaved(d)'))
    <3>1. SeqSet(Unsaved(d)) \subseteq SeqSet(lines[d])
      <4>1. CASE client[d] \in {"match", "audit"}
        BY <4>1, HeadFirst DEF Unsaved
      <4>2. CASE client[d] \notin {"match", "audit"}
        BY <4>2 DEF Unsaved
      <4>3. QED
        BY <4>1, <4>2
    <3>2. Unsaved(d)' = Unsaved(d)
      BY <1>2, <2>1
    <3>3. QED
      BY <1>3, <2>1, <3>1, <3>2 DEF LinesInv, Before
  <2>2. QED
    BY <1>2, <1>3, <2>1
<1>7. \A d \in Conn : SeqSet(Unsaved(d)') \subseteq SeqSet(Unsaved(d))
  BY <1>2, <1>3
<1> HIDE DEF x
<1>8. \A d \in Conn : Before(SeqSet(audit_buffer'), SeqSet(Unsaved(d)'))
  BY <1>5, <1>6, <1>7 DEF SaveInv, Before
<1>9. ASSUME NEW d \in Conn
      PROVE  /\ Before(SeqSet(temp[d]), SeqSet(audit_buffer'))
             /\ \A e \in Conn : Before(SeqSet(temp[d]), SeqSet(Unsaved(e)'))
  <2>1. Before(SeqSet(temp[d]), {x})
    BY <1>2, <1>3 DEF SaveInv, Before
  <2>2. QED
    BY <1>5, <1>7, <2>1 DEF SaveInv, Before
<1>10. \A y \in SeqSet(audit_buffer') : y.id <= received
  BY <1>3, <1>5 DEF SaveInv
<1>11. QED
  BY <1>1, <1>5, <1>8, <1>9, <1>10 DEF SaveInv, Before, SeqSet, ConnOrder

\* A chain takes the oldest line of audit_buffer.
LEMMA SaveTaken ==
  ASSUME TypeInv, SaveInv, NEW c \in Conn, SavePop(c), \A d \in Conn : Unsaved(d)' = Unsaved(d)
  PROVE  SaveInv'
<1> DEFINE x == Head(audit_buffer)
<1>1. /\ UNCHANGED <<file, received>>
      /\ audit_buffer # <<>> /\ audit_buffer' = Tail(audit_buffer)
      /\ temp'[c] = Append(temp[c], x) /\ \A d \in Conn : d # c => temp'[d] = temp[d]
  BY SaveTypes DEF SavePop, SaveDeque!Pop, clientVars
<1>2. /\ x \in Line /\ SeqSet(audit_buffer) = {x} \cup SeqSet(audit_buffer')
      /\ ConnOrder(audit_buffer') /\ Before({x}, SeqSet(audit_buffer'))
  BY <1>1, TailOrder, SaveTypes DEF SaveInv
<1> HIDE DEF x
<1>3. Before(SeqSet(temp[c]), {x})
  BY <1>2 DEF SaveInv, Before
<1>4. SeqSet(temp'[c]) = SeqSet(temp[c]) \cup {x} /\ ConnOrder(temp'[c])
  <2>1. temp[c] \in Seq(Line) /\ ConnOrder(temp[c])
    BY SaveTypes DEF SaveInv
  <2>2. QED
    BY <1>1, <1>2, <1>3, <2>1, AppendOrder
<1>5. ASSUME NEW d \in Conn
      PROVE  /\ ConnOrder(temp'[d])
             /\ \A y \in SeqSet(temp'[d]) : y.id <= received
             /\ Before(SeqSet(temp'[d]), SeqSet(audit_buffer'))
             /\ \A e \in Conn : Before(SeqSet(temp'[d]), SeqSet(Unsaved(e)'))
  <2>1. CASE d = c
    BY <1>2, <1>4, <2>1 DEF SaveInv, Before
  <2>2. CASE d # c
    BY <1>1, <1>2, <2>2 DEF SaveInv, Before
  <2>3. QED
    BY <2>1, <2>2
<1>6. /\ \A y \in SeqSet(audit_buffer') : y.id <= received
      /\ \A e \in Conn : Before(SeqSet(audit_buffer'), SeqSet(Unsaved(e)'))
  BY <1>2 DEF SaveInv, Before
<1>7. received' = received
  BY <1>1
<1>8. QED
  BY ONLY <1>2, <1>5, <1>6, <1>7 DEF SaveInv, Before, SeqSet, ConnOrder

\* Every step keeps the order on the way to the save file.
LEMMA SaveStep ==
  ASSUME TypeInv, LinesInv, SaveInv, [Next]_vars
  PROVE  SaveInv'
<1>1. ASSUME NEW c \in Conn, Recv(c) \/ AppendSave(c)
      PROVE  SaveInv'
  BY <1>1, SaveRecv, SaveAppend
<1>2. CASE \A c \in Conn : Unsaved(c)' = Unsaved(c)
  <2>1. CASE UNCHANGED <<received, audit_buffer, file, temp>>
    BY <1>2, <2>1 DEF SaveInv, Before, SeqSet, ConnOrder
  <2>2. ASSUME NEW c \in Conn, SavePopEmpty(c) \/ SaveWrite(c)
        PROVE  SaveInv'
    <3>1. UNCHANGED <<received, audit_buffer>> /\ temp' = [temp EXCEPT ![c] = <<>>]
      BY <2>2 DEF SavePopEmpty, SaveWrite, SaveDeque!PopEmpty, clientVars
    <3>2. ConnOrder(<<>>) /\ SeqSet(<<>>) = {}
      BY DEF ConnOrder, SeqSet
    <3>3. ASSUME NEW d \in Conn
          PROVE  /\ ConnOrder(temp'[d])
                 /\ \A y \in SeqSet(temp'[d]) : y.id <= received
                 /\ Before(SeqSet(temp'[d]), SeqSet(audit_buffer))
                 /\ \A e \in Conn : Before(SeqSet(temp'[d]), SeqSet(Unsaved(e)))
      <4>1. temp'[d] = temp[d] \/ temp'[d] = <<>>
        BY <3>1, SaveTypes
      <4>2. QED
        BY <3>2, <4>1 DEF SaveInv, Before
    <3>4. QED
      BY <1>2, <3>1, <3>3 DEF SaveInv, Before, SeqSet, ConnOrder
  <2>3. ASSUME NEW c \in Conn, SavePop(c)
        PROVE  SaveInv'
    BY <1>2, <2>3, SaveTaken
  <2>4. ASSUME NEW c \in Conn, SaveOpen(c)
        PROVE  SaveInv'
    <3>1. UNCHANGED <<received, audit_buffer, temp>>
      BY <2>4 DEF SaveOpen, clientVars
    <3>2. QED
      BY <1>2, <3>1 DEF SaveInv, Before, SeqSet, ConnOrder
  <2>5. QED
    BY <1>1, <2>1, <2>2, <2>3, <2>4, SaveFrame
<1>3. QED
  BY <1>1, <1>2, UnsavedFrame
-----------------------------------------------------------------------------
(***************************************************************************)
(* What is in the save file, whatever order the chains write in.           *)
(***************************************************************************)
\* Two sets without a common element.
Apart(A, B) == \A x \in A : x \notin B

\* A line is in one place: in the file, in what one chain has taken, in the buffer
\* or still to be appended.
FileInv ==
  /\ SavedOnce
  /\ \A x \in SeqSet(file) : x.id <= received
  /\ Apart(SeqSet(file), SeqSet(audit_buffer))
  /\ \A c \in Conn : Apart(SeqSet(file), SeqSet(Unsaved(c)))
  /\ \A d \in Conn : Apart(SeqSet(file), SeqSet(temp[d]))
  /\ \A c, d \in Conn : c # d => Apart(SeqSet(temp[c]), SeqSet(temp[d]))

\* The parts of the invariant in the next state.
LEMMA FileParts ==
  ASSUME SavedOnce', \A x \in SeqSet(file') : x.id <= received',
         Apart(SeqSet(file'), SeqSet(audit_buffer')),
         \A c \in Conn : Apart(SeqSet(file'), SeqSet(Unsaved(c)')),
         \A d \in Conn : Apart(SeqSet(file'), SeqSet(temp'[d])),
         \A c, d \in Conn : c # d => Apart(SeqSet(temp'[c]), SeqSet(temp'[d]))
  PROVE  FileInv'
<1>1. (\A x \in SeqSet(file) : x.id <= received)'
  BY DEF SeqSet
<1>2. Apart(SeqSet(file), SeqSet(audit_buffer))'
  BY DEF SeqSet, Apart
<1>3. (\A c \in Conn : Apart(SeqSet(file), SeqSet(Unsaved(c))))'
  BY DEF SeqSet, Apart
<1>4. (\A d \in Conn : Apart(SeqSet(file), SeqSet(temp[d])))'
  BY DEF SeqSet, Apart
<1>5. (\A c, d \in Conn : c # d => Apart(SeqSet(temp[c]), SeqSet(temp[d])))'
  BY DEF SeqSet, Apart
<1>6. QED
  BY <1>1, <1>2, <1>3, <1>4, <1>5 DEF FileInv

\* What comes before something else is not in it.
LEMMA BeforeApart ==
  ASSUME NEW A \in SUBSET Line, NEW B, Before(A, B)
  PROVE  Apart(A, B)
<1> SUFFICES ASSUME NEW x \in A, x \in B PROVE FALSE
  BY DEF Apart
<1>1. x.id \in Nat /\ x.id < x.id
  BY DEF Before, Line
<1>2. QED
  BY <1>1

\* A sequence in order has no line twice.
LEMMA OrderOnce ==
  ASSUME NEW q \in Seq(Line), ConnOrder(q), NEW i \in DOMAIN q, NEW j \in DOMAIN q, q[i] = q[j]
  PROVE  i = j
<1>1. i \in Nat /\ j \in Nat /\ q[i] \in Line
  BY LenProperties
<1>1a. q[i].id \in Nat
  BY <1>1 DEF Line
<1>2. ~(i < j) /\ ~(j < i)
  BY <1>1a DEF ConnOrder
<1>3. QED
  BY <1>1, <1>2

\* New lines are none of those in the file.
LEMMA FileRecv ==
  ASSUME TypeInv, LinesInv, FileInv, NEW c \in Conn, Recv(c)
  PROVE  FileInv'
<1>1. UNCHANGED <<audit_buffer, file, temp>>
  BY DEF Recv, saveVars
<1>2. /\ Unsaved(c)' = lines'[c]
      /\ \A d \in Conn : d # c => Unsaved(d)' = Unsaved(d)
  BY NewLines DEF Recv, Unsaved, TypeInv, TypeOK
<1>3. SeqSet(file) \in SUBSET Line
  BY DEF TypeInv, TypeOK, SeqSet
<1>4. /\ \A x \in SeqSet(file) : x.id <= received'
      /\ Before(SeqSet(file), SeqSet(Unsaved(c)'))
  BY <1>2, <1>3, RecvLater DEF FileInv, Apart
<1>5. Apart(SeqSet(file), SeqSet(Unsaved(c)'))
  BY <1>3, <1>4, BeforeApart
<1>6. \A d \in Conn : Apart(SeqSet(file), SeqSet(Unsaved(d)'))
  BY <1>2, <1>5 DEF FileInv, Apart
<1>7. SavedOnce'
  BY <1>1 DEF FileInv, SavedOnce
<1>8. QED
  BY <1>1, <1>4, <1>6, <1>7, FileParts DEF FileInv

\* A line that comes into audit_buffer was not yet saved.
LEMMA FileAppend ==
  ASSUME TypeInv, LinesInv, SaveInv, FileInv, NEW c \in Conn, AppendSave(c)
  PROVE  FileInv'
<1> DEFINE x == Head(lines[c])
<1>1. UNCHANGED <<file, temp, received>> /\ client[c] = "save"
      /\ audit_buffer' = Put(audit_buffer, x, BUFFER_MAX)
  BY AppendedIsPut DEF AppendSave
<1>2. /\ Unsaved(c) = lines[c] /\ Unsaved(c)' = Tail(lines[c])
      /\ \A d \in Conn : d # c => Unsaved(d)' = Unsaved(d)
  BY DEF AppendSave, Unsaved, TypeInv, TypeOK
<1>3. /\ x \in Line /\ x \in SeqSet(lines[c]) /\ x.id <= received /\ x.conn = c
      /\ SeqSet(Tail(lines[c])) \subseteq SeqSet(lines[c])
  BY <1>1, HeadFirst
<1>4. Before(SeqSet(audit_buffer), {x})
  BY <1>2, <1>3 DEF SaveInv, Before
<1>5. SeqSet(audit_buffer') \subseteq SeqSet(audit_buffer) \cup {x}
  <2>1. ConnOrder(audit_buffer)
    BY DEF SaveInv
  <2> HIDE DEF x
  <2>2. QED
    BY <1>1, <1>3, <1>4, <2>1, PutOrder, SaveTypes, ReceiverAssumption
<1> HIDE DEF x
<1>6. x \notin SeqSet(file)
  BY <1>2, <1>3 DEF FileInv, Apart
<1>7. \A d \in Conn : Apart(SeqSet(file), SeqSet(Unsaved(d)'))
  BY <1>2, <1>3 DEF FileInv, Apart
<1>8. Apart(SeqSet(file), SeqSet(audit_buffer'))
  BY <1>5, <1>6 DEF FileInv, Apart
<1>9. SavedOnce'
  BY <1>1 DEF FileInv, SavedOnce
<1>10. QED
  BY <1>1, <1>7, <1>8, <1>9, FileParts DEF FileInv

\* A line that a chain takes is neither in the file nor with another chain.
LEMMA FileTaken ==
  ASSUME TypeInv, SaveInv, FileInv, NEW c \in Conn, SavePop(c),
         \A d \in Conn : Unsaved(d)' = Unsaved(d)
  PROVE  FileInv'
<1> DEFINE x == Head(audit_buffer)
<1>1. /\ UNCHANGED <<file, received>>
      /\ audit_buffer # <<>> /\ audit_buffer' = Tail(audit_buffer)
      /\ temp'[c] = Append(temp[c], x) /\ \A d \in Conn : d # c => temp'[d] = temp[d]
  BY SaveTypes DEF SavePop, SaveDeque!Pop, clientVars
<1>2. x \in Line /\ SeqSet(audit_buffer) = {x} \cup SeqSet(audit_buffer')
  BY <1>1, TailOrder, SaveTypes DEF SaveInv
<1> HIDE DEF x
<1>3. SeqSet(temp'[c]) = SeqSet(temp[c]) \cup {x}
  <2>1. temp[c] \in Seq(Line) /\ ConnOrder(temp[c]) /\ Before(SeqSet(temp[c]), {x})
    BY <1>2, SaveTypes DEF SaveInv, Before
  <2>2. QED
    BY <1>1, <1>2, <2>1, AppendOrder
<1>4. x \notin SeqSet(file) /\ Apart(SeqSet(file), SeqSet(audit_buffer'))
  BY <1>2 DEF FileInv, Apart
<1>5. ASSUME NEW d \in Conn PROVE x \notin SeqSet(temp[d])
  <2>1. SeqSet(temp[d]) \in SUBSET Line /\ Before(SeqSet(temp[d]), SeqSet(audit_buffer))
    BY SaveTypes DEF SaveInv
  <2>2. Apart(SeqSet(temp[d]), SeqSet(audit_buffer))
    BY <2>1, BeforeApart
  <2>3. QED
    BY <1>2, <2>2 DEF Apart
<1>6. \A d \in Conn : Apart(SeqSet(file), SeqSet(temp'[d]))
  BY <1>1, <1>3, <1>4 DEF FileInv, Apart
<1>7. \A d, e \in Conn : d # e => Apart(SeqSet(temp'[d]), SeqSet(temp'[e]))
  BY <1>1, <1>3, <1>5, ZenonT(60) DEF FileInv, Apart
<1>8. SavedOnce'
  BY <1>1 DEF FileInv, SavedOnce
<1>9. QED
  BY <1>1, <1>4, <1>6, <1>7, <1>8, FileParts DEF FileInv

\* A chain writes what it has taken over the start of the file.
LEMMA FileWritten ==
  ASSUME TypeInv, SaveInv, FileInv, NEW c \in Conn, SaveWrite(c),
         \A d \in Conn : Unsaved(d)' = Unsaved(d)
  PROVE  FileInv'
<1>1. /\ UNCHANGED <<received, audit_buffer>> /\ temp' = [temp EXCEPT ![c] = <<>>]
      /\ file' = Overwrite(temp[c], file)
  BY DEF SaveWrite, clientVars, Overwrite
<1>2. temp[c] \in Seq(Line) /\ file \in Seq(Line) /\ ConnOrder(temp[c])
      /\ SeqSet(temp[c]) \in SUBSET Line
  BY SaveTypes DEF TypeInv, TypeOK, SaveInv
<1>3. file' \in Seq(Line) /\ \A i \in DOMAIN file' :
        IF i <= Len(temp[c]) THEN file'[i] = temp[c][i] ELSE i \in DOMAIN file /\ file'[i] = file[i]
  BY <1>1, <1>2, OverwriteType
<1>4. ASSUME NEW i \in DOMAIN file', i <= Len(temp[c])
      PROVE  i \in DOMAIN temp[c] /\ file'[i] = temp[c][i] /\ file'[i] \in SeqSet(temp[c])
  BY <1>2, <1>3, <1>4 DEF SeqSet
<1>5. ASSUME NEW i \in DOMAIN file', ~(i <= Len(temp[c]))
      PROVE  i \in DOMAIN file /\ file'[i] = file[i] /\ file'[i] \in SeqSet(file)
  BY <1>3, <1>5 DEF SeqSet
<1>6. SeqSet(file') \subseteq SeqSet(temp[c]) \cup SeqSet(file)
  BY <1>4, <1>5 DEF SeqSet
<1>7. SavedOnce'
  <2> SUFFICES ASSUME NEW i \in DOMAIN file', NEW j \in DOMAIN file', file'[i] = file'[j]
               PROVE  i = j
    BY DEF SavedOnce
  <2>1. CASE i <= Len(temp[c]) /\ j <= Len(temp[c])
    BY <1>2, <1>4, <2>1, OrderOnce
  <2>2. CASE ~(i <= Len(temp[c])) /\ ~(j <= Len(temp[c]))
    BY <1>5, <2>2 DEF FileInv, SavedOnce
  <2>3. CASE \/ i <= Len(temp[c]) /\ ~(j <= Len(temp[c]))
             \/ ~(i <= Len(temp[c])) /\ j <= Len(temp[c])
    BY <1>4, <1>5, <2>3 DEF FileInv, Apart
  <2>4. QED
    BY <2>1, <2>2, <2>3
<1>8. /\ Apart(SeqSet(temp[c]), SeqSet(audit_buffer))
      /\ \A d \in Conn : Apart(SeqSet(temp[c]), SeqSet(Unsaved(d)))
  BY <1>2, BeforeApart DEF SaveInv
<1>9. /\ Apart(SeqSet(file'), SeqSet(audit_buffer))
      /\ \A d \in Conn : Apart(SeqSet(file'), SeqSet(Unsaved(d)))
      /\ \A x \in SeqSet(file') : x.id <= received
  BY <1>6, <1>8 DEF FileInv, SaveInv, Apart
<1>10. temp'[c] = <<>> /\ SeqSet(<<>>) = {} /\ \A d \in Conn : d # c => temp'[d] = temp[d]
  BY <1>1, SaveTypes DEF SeqSet
<1>11. \A d \in Conn : Apart(SeqSet(file'), SeqSet(temp'[d]))
  BY <1>6, <1>10 DEF FileInv, Apart
<1>12. \A d, e \in Conn : d # e => Apart(SeqSet(temp'[d]), SeqSet(temp'[e]))
  BY <1>10 DEF FileInv, Apart
<1>13. QED
  BY <1>1, <1>7, <1>9, <1>11, <1>12, FileParts

\* Every step keeps a line in one place.
LEMMA FileStep ==
  ASSUME TypeInv, LinesInv, SaveInv, FileInv, [Next]_vars
  PROVE  FileInv'
<1>1. ASSUME NEW c \in Conn, Recv(c) \/ AppendSave(c)
      PROVE  FileInv'
  BY <1>1, FileRecv, FileAppend
<1>2. CASE \A c \in Conn : Unsaved(c)' = Unsaved(c)
  <2>1. CASE UNCHANGED <<received, audit_buffer, file, temp>>
    BY <1>2, <2>1 DEF FileInv, SavedOnce, Apart, SeqSet
  <2>2. ASSUME NEW c \in Conn, SavePopEmpty(c)
        PROVE  FileInv'
    <3>1. UNCHANGED <<received, audit_buffer, file>> /\ temp' = [temp EXCEPT ![c] = <<>>]
      BY <2>2 DEF SavePopEmpty, SaveDeque!PopEmpty, clientVars
    <3>2. temp'[c] = <<>> /\ SeqSet(<<>>) = {} /\ \A d \in Conn : d # c => temp'[d] = temp[d]
      BY <3>1, SaveTypes DEF SeqSet
    <3>3. /\ \A d \in Conn : Apart(SeqSet(file), SeqSet(temp'[d]))
          /\ \A d, e \in Conn : d # e => Apart(SeqSet(temp'[d]), SeqSet(temp'[e]))
      BY <3>2 DEF FileInv, Apart
    <3>4. SavedOnce'
      BY <3>1 DEF FileInv, SavedOnce
    <3>5. QED
      BY <1>2, <3>1, <3>3, <3>4, FileParts DEF FileInv
  <2>3. ASSUME NEW c \in Conn, SavePop(c) \/ SaveWrite(c)
        PROVE  FileInv'
    BY <1>2, <2>3, FileTaken, FileWritten
  <2>4. ASSUME NEW c \in Conn, SaveOpen(c)
        PROVE  FileInv'
    <3>1. UNCHANGED <<received, audit_buffer, temp>> /\ file' = <<>>
      BY <2>4 DEF SaveOpen, clientVars
    <3>2. QED
      BY <1>2, <3>1 DEF FileInv, SavedOnce, Apart, SeqSet
  <2>5. QED
    BY <1>1, <2>1, <2>2, <2>3, <2>4, SaveFrame
<1>3. QED
  BY <1>1, <1>2, UnsavedFrame
-----------------------------------------------------------------------------
(***************************************************************************)
(* From a connection through log_buffer.audit to SPADE.                    *)
(***************************************************************************)
\* The line a listen_client() thread has in hand, and the lines it has taken.
Hand(s) == {held[s]} \ {None}
SentBy(s) == SeqSet(forwarded[s]) \cup Hand(s)

\* A thread with a line in hand does nothing else than to send it.
HandInv == \A s \in Spade : held[s] # None => sender[s] = "idle"

\* What a thread has sent comes before what it has in hand; what any thread has
\* taken comes before what is in the buffer, and that before what is still to be
\* appended.  No two threads have taken the same line.
SendInv ==
  /\ ConnOrder(audit)
  /\ \A x \in SeqSet(audit) : x.id <= received
  /\ \A c \in Conn : Before(SeqSet(audit), SeqSet(lines[c]))
  /\ \A s \in Spade :
       /\ ConnOrder(forwarded[s])
       /\ \A x \in SentBy(s) : x.id <= received
       /\ Before(SeqSet(forwarded[s]), Hand(s))
       /\ Before(SentBy(s), SeqSet(audit))
       /\ \A c \in Conn : Before(SentBy(s), SeqSet(lines[c]))
       /\ \A t \in Spade : s # t => SentBy(s) \cap SentBy(t) = {}

\* Types of what SendInv speaks of.
LEMMA SendTypes ==
  ASSUME TypeInv
  PROVE  /\ audit \in Seq(Line) /\ Len(audit) <= AUDIT_MAX
         /\ SeqSet(audit) \subseteq Line
         /\ forwarded \in [Spade -> Seq(Line)]
         /\ held \in [Spade -> Line \cup {None}]
         /\ \A s \in Spade : SentBy(s) \subseteq Line
<1>1. /\ audit \in Seq(Line) /\ Len(audit) <= AUDIT_MAX
      /\ forwarded \in [Spade -> Seq(Line)] /\ held \in [Spade -> Line \cup {None}]
  BY DEF TypeInv, TypeOK, AuditDeque!DequeTypeOK
<1>2. ASSUME NEW q \in Seq(Line) PROVE SeqSet(q) \subseteq Line
  BY DEF SeqSet
<1>3. ASSUME NEW s \in Spade PROVE SentBy(s) \subseteq Line
  <2>1. forwarded[s] \in Seq(Line) /\ Hand(s) \subseteq Line
    BY <1>1 DEF Hand
  <2>2. QED
    BY <1>2, <2>1 DEF SentBy
<1>4. QED
  BY <1>1, <1>2, <1>3

\* Where a thread is, and what it has in hand.
LEMMA HandStep ==
  ASSUME TypeInv, HandInv, [Next]_vars
  PROVE  HandInv'
<1>1. sender \in [Spade -> {"off", "idle", "pop", "killed", "stopped"}]
      /\ held \in [Spade -> Line \cup {None}]
  BY DEF TypeInv, TypeOK, AuditDeque!DequeTypeOK
<1>2. ASSUME NEW c \in Conn, Accept(c) \/ Recv(c) \/ Close(c) \/ Parse(c) \/ Save(c) \/ Match(c)
      PROVE  UNCHANGED <<sender, held>>
  BY <1>2 DEF Accept, Recv, Close, Parse, AppendSave, AppendMatch, AppendAudit, Save,
     SaveTimer, SaveCheck, SavePop, SavePopEmpty, SaveOpen, SaveWrite, Match, sendVars
<1>3. ASSUME NEW s \in Spade, SpadeConnects(s) \/ SendCheck(s) \/ SendPopEmpty(s)
      PROVE  HandInv'
  BY <1>1, <1>3 DEF HandInv, SpadeConnects, SendCheck, SendPopEmpty,
     AuditDeque!Start, AuditDeque!Check, AuditDeque!PopEmpty
<1>4. ASSUME NEW s \in Spade, SendPop(s) \/ SendDone(s) \/ SendFails(s)
      PROVE  HandInv'
  BY <1>1, <1>4 DEF HandInv, SendPop, SendDone, SendFails, AuditDeque!Pop, AuditDeque!Stop
<1>5. UNCHANGED <<sender, held>> => HandInv'
  BY DEF HandInv
<1>6. QED
  BY <1>2, <1>3, <1>4, <1>5 DEF Next, Forward, vars, sendVars

\* The operations that change what SendInv speaks of.
LEMMA SendFrame ==
  ASSUME [Next]_vars
  PROVE  \/ UNCHANGED <<lines, received, audit, held, forwarded>>
         \/ \E c \in Conn : Recv(c) \/ AppendAudit(c)
         \/ \E s \in Spade : SendPop(s) \/ SendDone(s) \/ SendFails(s)
<1>1. ASSUME NEW c \in Conn, Accept(c) \/ Close(c) \/ AppendSave(c) \/ AppendMatch(c)
      PROVE  UNCHANGED <<audit, held, forwarded>>
  BY <1>1 DEF Accept, Close, AppendSave, AppendMatch, sendVars
<1>2. ASSUME NEW c \in Conn, Save(c) \/ Match(c)
      PROVE  UNCHANGED <<audit, held, forwarded>>
  BY <1>2 DEF Save, SaveTimer, SaveCheck, SavePop, SavePopEmpty, SaveOpen, SaveWrite, Match,
     sendVars
<1>3. ASSUME NEW s \in Spade, SpadeConnects(s) \/ SendCheck(s) \/ SendPopEmpty(s)
      PROVE  UNCHANGED <<audit, held, forwarded>>
  BY <1>3 DEF SpadeConnects, SendCheck, SendPopEmpty,
     AuditDeque!Start, AuditDeque!Check, AuditDeque!PopEmpty
<1>4. QED
  BY <1>1, <1>2, <1>3, LinesFrame DEF Next, Parse, Forward, vars, sendVars

\* New lines come after all that is buffered or sent.
LEMMA SendRecv ==
  ASSUME TypeInv, SendInv, NEW c \in Conn, Recv(c)
  PROVE  SendInv'
<1>1. UNCHANGED <<audit, held, forwarded>>
  BY DEF Recv, sendVars
<1>2. \A s \in Spade : Hand(s)' = Hand(s) /\ SentBy(s)' = SentBy(s)
  BY <1>1 DEF SentBy, Hand, SeqSet
<1>3. \A d \in Conn : d # c => lines'[d] = lines[d]
  BY NewLines
<1>4. /\ \A x \in SeqSet(audit) : x.id <= received'
      /\ Before(SeqSet(audit), SeqSet(lines'[c]))
  BY RecvLater, SendTypes DEF SendInv
<1>5. ASSUME NEW s \in Spade
      PROVE  /\ \A x \in SentBy(s) : x.id <= received'
             /\ Before(SentBy(s), SeqSet(lines'[c]))
  BY RecvLater, SendTypes DEF SendInv
<1>6. \A d \in Conn : Before(SeqSet(audit), SeqSet(lines'[d]))
  BY <1>3, <1>4 DEF SendInv
<1>7. \A s \in Spade, d \in Conn : Before(SentBy(s), SeqSet(lines'[d]))
  BY <1>3, <1>5 DEF SendInv
<1>8. ConnOrder(audit) /\ \A s \in Spade : ConnOrder(forwarded[s])
      /\ Before(SeqSet(forwarded[s]), Hand(s)) /\ Before(SentBy(s), SeqSet(audit))
      /\ \A t \in Spade : s # t => SentBy(s) \cap SentBy(t) = {}
  BY DEF SendInv
<1>9. QED
  BY ONLY <1>1, <1>2, <1>4, <1>5, <1>6, <1>7, <1>8 DEF SendInv, Before, SeqSet, ConnOrder

\* The line in hand moves into log_buffer.audit.
LEMMA SendAppend ==
  ASSUME TypeInv, LinesInv, SendInv, NEW c \in Conn, AppendAudit(c)
  PROVE  SendInv'
<1> DEFINE x == Head(lines[c])
<1>1. /\ UNCHANGED <<held, forwarded, received>> /\ client[c] = "audit"
      /\ audit' = Put(audit, x, AUDIT_MAX)
  BY AppendedIsPut DEF AppendAudit
<1>2. lines'[c] = Tail(lines[c]) /\ \A d \in Conn : d # c => lines'[d] = lines[d]
  BY AuditLines
<1>3. /\ x \in Line /\ x \in SeqSet(lines[c]) /\ x.id <= received /\ x.conn = c
      /\ SeqSet(Tail(lines[c])) \subseteq SeqSet(lines[c])
      /\ Before({x}, SeqSet(Tail(lines[c])))
      /\ \A d \in Conn : d # c => Before({x}, SeqSet(lines[d]))
  BY <1>1, HeadFirst
<1> HIDE DEF x
<1>4. Before(SeqSet(audit), {x}) /\ \A s \in Spade : Before(SentBy(s), {x})
  BY <1>3 DEF SendInv, Before
<1>5. ConnOrder(audit') /\ SeqSet(audit') \subseteq SeqSet(audit) \cup {x}
  <2>1. ConnOrder(audit)
    BY DEF SendInv
  <2>2. QED
    BY <1>1, <1>3, <1>4, <2>1, PutOrder, SendTypes, ReceiverAssumption
<1>6. \A d \in Conn : Before({x}, SeqSet(lines'[d])) /\ SeqSet(lines'[d]) \subseteq SeqSet(lines[d])
  BY <1>2, <1>3
<1>7. \A d \in Conn : Before(SeqSet(audit'), SeqSet(lines'[d]))
  BY <1>5, <1>6 DEF SendInv, Before
<1>8. \A y \in SeqSet(audit') : y.id <= received
  BY <1>3, <1>5 DEF SendInv
<1>9. ASSUME NEW s \in Spade
      PROVE  /\ Before(SentBy(s), SeqSet(audit'))
             /\ \A d \in Conn : Before(SentBy(s), SeqSet(lines'[d]))
  BY <1>4, <1>5, <1>6 DEF SendInv, Before
<1>10. \A s \in Spade : Hand(s)' = Hand(s) /\ SentBy(s)' = SentBy(s)
  BY <1>1 DEF SentBy, Hand, SeqSet
<1>11. \A s \in Spade : ConnOrder(forwarded[s])
      /\ (\A y \in SentBy(s) : y.id <= received) /\ Before(SeqSet(forwarded[s]), Hand(s))
      /\ \A t \in Spade : s # t => SentBy(s) \cap SentBy(t) = {}
  BY DEF SendInv
<1>12. QED
  BY ONLY <1>1, <1>5, <1>7, <1>8, <1>9, <1>10, <1>11 DEF SendInv, Before, SeqSet, ConnOrder

\* A thread takes the oldest line of log_buffer.audit into its hand.
LEMMA SendTaken ==
  ASSUME TypeInv, HandInv, SendInv, NEW s \in Spade, SendPop(s)
  PROVE  SendInv'
<1> DEFINE x == Head(audit)
<1>1. /\ UNCHANGED <<lines, received, forwarded>>
      /\ audit # <<>> /\ audit' = Tail(audit)
      /\ held' = [held EXCEPT ![s] = x]
  BY DEF SendPop, AuditDeque!Pop, receiveVars, clientVars
<1>2. held[s] = None
  BY DEF SendPop, AuditDeque!Pop, HandInv
<1>3. /\ x \in Line /\ SeqSet(audit) = {x} \cup SeqSet(audit')
      /\ ConnOrder(audit') /\ Before({x}, SeqSet(audit'))
  BY <1>1, TailOrder, SendTypes DEF SendInv
<1> HIDE DEF x
<1>4. /\ Hand(s)' = {x} /\ SentBy(s)' = SentBy(s) \cup {x} /\ SentBy(s) = SeqSet(forwarded[s])
      /\ \A t \in Spade : t # s => Hand(t)' = Hand(t) /\ SentBy(t)' = SentBy(t)
  BY <1>1, <1>2, <1>3, SendTypes, NoneIsNoLine DEF SentBy, Hand, SeqSet
<1>5. \A t \in Spade : x \notin SentBy(t)
  <2>1. x.id \in Nat
    BY <1>3, ReceiverAssumption DEF Line
  <2>2. QED
    BY <1>3, <2>1 DEF SendInv, Before
<1>6. /\ \A y \in SeqSet(audit') : y.id <= received
      /\ \A c \in Conn : Before(SeqSet(audit'), SeqSet(lines[c]))
  BY <1>3 DEF SendInv, Before
<1>7. ASSUME NEW t \in Spade
      PROVE  /\ ConnOrder(forwarded[t])
             /\ \A y \in SentBy(t)' : y.id <= received
             /\ Before(SeqSet(forwarded[t]), Hand(t)')
             /\ Before(SentBy(t)', SeqSet(audit'))
             /\ \A c \in Conn : Before(SentBy(t)', SeqSet(lines[c]))
  <2>1. CASE t = s
    BY <1>3, <1>4, <2>1 DEF SendInv, Before
  <2>2. CASE t # s
    BY <1>3, <1>4, <2>2 DEF SendInv, Before
  <2>3. QED
    BY <2>1, <2>2
<1>8. ASSUME NEW t \in Spade, NEW u \in Spade, t # u
      PROVE  SentBy(t)' \cap SentBy(u)' = {}
  <2>1. SentBy(t) \cap SentBy(u) = {}
    BY <1>8 DEF SendInv
  <2>2. QED
    BY <1>4, <1>5, <1>8, <2>1
<1>9. QED
  BY ONLY <1>1, <1>3, <1>6, <1>7, <1>8 DEF SendInv, Before, SeqSet, ConnOrder

\* A send that succeeds or fails takes the line out of the thread's hand.
LEMMA SendGone ==
  ASSUME TypeInv, SendInv, NEW s \in Spade, SendDone(s) \/ SendFails(s)
  PROVE  SendInv'
<1>1. /\ UNCHANGED <<lines, received, audit>>
      /\ held' = [held EXCEPT ![s] = None] /\ held[s] \in Line
  BY SendTypes DEF SendDone, SendFails, AuditDeque!Stop, receiveVars, clientVars
<1>2. /\ Hand(s) = {held[s]} /\ Hand(s)' = {}
      /\ \A t \in Spade : t # s => Hand(t)' = Hand(t)
  BY <1>1, SendTypes, NoneIsNoLine DEF Hand
<1>3. /\ SeqSet(forwarded'[s]) \subseteq SentBy(s) /\ ConnOrder(forwarded'[s])
      /\ \A t \in Spade : t # s => forwarded'[t] = forwarded[t]
  <2>1. CASE SendDone(s)
    <3>1. forwarded[s] \in Seq(Line) /\ ConnOrder(forwarded[s])
          /\ Before(SeqSet(forwarded[s]), {held[s]})
      BY <1>2, SendTypes DEF SendInv
    <3>2. forwarded'[s] = Append(forwarded[s], held[s])
          /\ \A t \in Spade : t # s => forwarded'[t] = forwarded[t]
      BY <2>1, SendTypes DEF SendDone
    <3>3. SeqSet(forwarded'[s]) = SeqSet(forwarded[s]) \cup {held[s]} /\ ConnOrder(forwarded'[s])
      BY <1>1, <3>1, <3>2, AppendOrder
    <3>4. QED
      BY <1>2, <3>2, <3>3 DEF SentBy
  <2>2. CASE SendFails(s)
    BY <2>2 DEF SendFails, SentBy, SendInv
  <2>3. QED
    BY <2>1, <2>2
<1>4. \A t \in Spade : SentBy(t)' = SeqSet(forwarded'[t]) \cup Hand(t)'
  BY DEF SentBy, SeqSet
<1>5. \A t \in Spade : /\ SentBy(t)' \subseteq SentBy(t)
                       /\ ConnOrder(forwarded'[t])
                       /\ Before(SeqSet(forwarded'[t]), Hand(t)')
  <2>1. ASSUME NEW t \in Spade, t # s
        PROVE  SentBy(t)' = SentBy(t) /\ forwarded'[t] = forwarded[t] /\ Hand(t)' = Hand(t)
    BY <1>2, <1>3, <1>4, <2>1 DEF SentBy
  <2>2. SentBy(s)' \subseteq SentBy(s) /\ Before(SeqSet(forwarded'[s]), Hand(s)')
    BY <1>2, <1>3, <1>4 DEF Before
  <2>3. QED
    BY <1>3, <2>1, <2>2 DEF SendInv
<1>6. ASSUME NEW t \in Spade
      PROVE  /\ \A y \in SentBy(t)' : y.id <= received
             /\ Before(SentBy(t)', SeqSet(audit))
             /\ \A c \in Conn : Before(SentBy(t)', SeqSet(lines[c]))
             /\ \A u \in Spade : t # u => SentBy(t)' \cap SentBy(u)' = {}
  BY <1>5 DEF SendInv, Before
<1>7. ConnOrder(audit) /\ (\A y \in SeqSet(audit) : y.id <= received)
      /\ \A c \in Conn : Before(SeqSet(audit), SeqSet(lines[c]))
  BY DEF SendInv
<1>8. QED
  BY ONLY <1>1, <1>5, <1>6, <1>7 DEF SendInv, Before, SeqSet, ConnOrder

\* Every step keeps the order on the way to SPADE.
LEMMA SendStep ==
  ASSUME TypeInv, LinesInv, HandInv, SendInv, [Next]_vars
  PROVE  SendInv'
<1>1. CASE UNCHANGED <<lines, received, audit, held, forwarded>>
  BY <1>1, SMTT(30) DEF SendInv, SentBy, Hand, Before, SeqSet, ConnOrder
<1>2. QED
  BY <1>1, SendFrame, SendRecv, SendAppend, SendTaken, SendGone
-----------------------------------------------------------------------------
(***************************************************************************)
(* What leaves log_buffer.audit.                                           *)
(***************************************************************************)
\* The lines that threads have taken and that are not lost.
Out == UNION {SentBy(s) : s \in Spade}

\* The number of lines that have left the buffer.
Gone == Len(arrivals) - Len(audit)

\* The buffer holds the last lines that came; each line before them was taken, or
\* as many lines as the deque holds have come after it.
DropInv ==
  /\ Len(audit) <= Len(arrivals)
  /\ \A i \in 1..Len(audit) : audit[i] = arrivals[Gone + i]
  /\ \A i \in 1..Gone : arrivals[i] \in Out \cup undelivered \/ Len(arrivals) - i >= AUDIT_MAX

\* The operations that change what DropInv speaks of.
LEMMA DropFrame ==
  ASSUME [Next]_vars
  PROVE  \/ UNCHANGED <<audit, arrivals, held, forwarded, undelivered>>
         \/ \E c \in Conn : AppendAudit(c)
         \/ \E s \in Spade : SendPop(s) \/ SendDone(s) \/ SendFails(s)
<1>1. ASSUME NEW c \in Conn, Accept(c) \/ Recv(c) \/ Close(c) \/ AppendSave(c) \/ AppendMatch(c)
      PROVE  UNCHANGED <<audit, arrivals, held, forwarded, undelivered>>
  BY <1>1 DEF Accept, Recv, Close, AppendSave, AppendMatch, sendVars
<1>2. ASSUME NEW c \in Conn, Save(c) \/ Match(c)
      PROVE  UNCHANGED <<audit, arrivals, held, forwarded, undelivered>>
  BY <1>2 DEF Save, SaveTimer, SaveCheck, SavePop, SavePopEmpty, SaveOpen, SaveWrite, Match,
     sendVars
<1>3. ASSUME NEW s \in Spade, SpadeConnects(s) \/ SendCheck(s) \/ SendPopEmpty(s)
      PROVE  UNCHANGED <<audit, arrivals, held, forwarded, undelivered>>
  BY <1>3 DEF SpadeConnects, SendCheck, SendPopEmpty, receiveVars,
     AuditDeque!Start, AuditDeque!Check, AuditDeque!PopEmpty
<1>4. QED
  BY <1>1, <1>2, <1>3 DEF Next, Parse, Forward, vars, sendVars

\* A line is appended: nothing leaves the buffer, or its oldest line does.
LEMMA DropAppend ==
  ASSUME TypeInv, DropInv, NEW c \in Conn, AppendAudit(c)
  PROVE  DropInv'
<1> DEFINE x == Head(lines[c])
<1>1. /\ UNCHANGED <<held, forwarded, undelivered>>
      /\ audit' = Put(audit, x, AUDIT_MAX) /\ arrivals' = Append(arrivals, x)
  BY AppendedIsPut DEF AppendAudit
<1>2. x \in Line /\ audit \in Seq(Line) /\ arrivals \in Seq(Line) /\ Len(audit) <= AUDIT_MAX
  BY HeadIsLine, SendTypes DEF AppendAudit, TypeInv, TypeOK
<1> HIDE DEF x
<1>3. Out' = Out /\ undelivered' = undelivered
  BY <1>1 DEF Out, SentBy, Hand, SeqSet
<1> DEFINE n == Len(arrivals)
           m == Len(audit)
<1>4. /\ n \in Nat /\ m \in Nat /\ AUDIT_MAX \in Nat \ {0} /\ m <= n
      /\ Len(arrivals') = n + 1 /\ arrivals'[n + 1] = x
      /\ \A i \in 1..n : arrivals'[i] = arrivals[i]
  BY <1>1, <1>2, ReceiverAssumption DEF DropInv
<1>5. /\ \A i \in 1..m : audit[i] = arrivals[n - m + i]
      /\ \A i \in 1..(n - m) : arrivals[i] \in Out \cup undelivered \/ n - i >= AUDIT_MAX
  BY DEF DropInv, Gone
<1>6. CASE m < AUDIT_MAX
  <2>1. Len(audit') = m + 1 /\ audit'[m + 1] = x /\ \A i \in 1..m : audit'[i] = audit[i]
    BY <1>1, <1>2, <1>6 DEF Put
  <2> HIDE DEF n, m
  <2>2. Gone' = n - m
    BY <1>4, <2>1 DEF Gone
  <2>3. ASSUME NEW i \in 1..(m + 1)
        PROVE  audit'[i] = arrivals'[n - m + i]
    <3>1. CASE i = m + 1
      BY <1>4, <2>1, <3>1
    <3>2. CASE i # m + 1
      <4>1. i \in 1..m /\ n - m + i \in 1..n
        BY <1>4, <3>2
      <4>2. QED
        BY <1>4, <1>5, <2>1, <4>1
    <3>3. QED
      BY <3>1, <3>2
  <2>4. ASSUME NEW i \in 1..(n - m)
        PROVE  arrivals'[i] \in Out \cup undelivered \/ n + 1 - i >= AUDIT_MAX
    BY <1>4, <1>5
  <2>5. QED
    BY <1>3, <1>4, <2>1, <2>2, <2>3, <2>4 DEF DropInv
<1>7. CASE ~(m < AUDIT_MAX)
  <2>1. m = AUDIT_MAX /\ audit # <<>>
    BY <1>2, <1>4, <1>7
  <2>2. /\ Len(audit') = m /\ audit'[m] = x
        /\ \A i \in 1..(m - 1) : audit'[i] = audit[i + 1]
    <3>1. audit' = Append(Tail(audit), x)
      BY <1>1, <1>7 DEF Put
    <3>2. /\ Tail(audit) \in Seq(Line) /\ Len(Tail(audit)) = m - 1
          /\ \A i \in 1..(m - 1) : Tail(audit)[i] = audit[i + 1]
      BY <1>2, <2>1
    <3>3. QED
      BY <1>2, <1>4, <3>1, <3>2
  <2> HIDE DEF n, m
  <2>3. Gone' = n - m + 1
    BY <1>4, <2>2 DEF Gone
  <2>4. ASSUME NEW i \in 1..m
        PROVE  audit'[i] = arrivals'[n - m + 1 + i]
    <3>1. CASE i = m
      BY <1>4, <2>2, <3>1
    <3>2. CASE i # m
      <4>1. i \in 1..(m - 1) /\ i + 1 \in 1..m /\ n - m + 1 + i \in 1..n
        BY <1>4, <3>2
      <4>2. audit[i + 1] = arrivals[n - m + (i + 1)]
        BY <1>5, <4>1
      <4>3. n - m + (i + 1) = n - m + 1 + i
        BY <1>4
      <4>4. QED
        BY <1>4, <2>2, <4>1, <4>2, <4>3
    <3>3. QED
      BY <3>1, <3>2
  <2>5. ASSUME NEW i \in 1..(n - m + 1)
        PROVE  arrivals'[i] \in Out \cup undelivered \/ n + 1 - i >= AUDIT_MAX
    BY <1>4, <1>5, <2>1
  <2>6. QED
    BY <1>3, <1>4, <2>2, <2>3, <2>4, <2>5 DEF DropInv
<1>8. QED
  BY <1>6, <1>7

\* A thread takes the oldest line.
LEMMA DropTaken ==
  ASSUME TypeInv, HandInv, DropInv, NEW s \in Spade, SendPop(s)
  PROVE  DropInv'
<1> DEFINE n == Len(arrivals)
           m == Len(audit)
<1>1. /\ UNCHANGED <<arrivals, forwarded, undelivered>>
      /\ audit # <<>> /\ audit' = Tail(audit)
      /\ held' = [held EXCEPT ![s] = Head(audit)]
  BY DEF SendPop, AuditDeque!Pop, receiveVars
<1>2. held[s] = None
  BY DEF SendPop, AuditDeque!Pop, HandInv
<1>3. audit \in Seq(Line) /\ arrivals \in Seq(Line)
  BY SendTypes DEF TypeInv, TypeOK
<1>4. /\ n \in Nat /\ m \in Nat \ {0} /\ m <= n
      /\ Len(audit') = m - 1 /\ Head(audit) = audit[1] /\ Head(audit) \in Line
      /\ \A i \in 1..(m - 1) : audit'[i] = audit[i + 1]
  BY <1>1, <1>3 DEF DropInv
<1>5. /\ \A i \in 1..m : audit[i] = arrivals[n - m + i]
      /\ \A i \in 1..(n - m) : arrivals[i] \in Out \cup undelivered \/ n - i >= AUDIT_MAX
  BY DEF DropInv, Gone
<1>6. Out \subseteq Out' /\ Head(audit) \in Out'
  <2>1. \A t \in Spade : SentBy(t) \subseteq SentBy(t)'
    BY <1>1, <1>2, SendTypes DEF SentBy, Hand, SeqSet
  <2>2. Head(audit) \in SentBy(s)'
    BY <1>1, <1>4, SendTypes, NoneIsNoLine DEF SentBy, Hand
  <2>3. QED
    BY <2>1, <2>2 DEF Out
<1>7. Gone' = n - m + 1
  BY <1>1, <1>4 DEF Gone
<1>8. Len(arrivals') = n
  BY <1>1
<1> HIDE DEF n, m
<1>9. ASSUME NEW i \in 1..(m - 1)
      PROVE  audit'[i] = arrivals[n - m + 1 + i]
  <2>1. i + 1 \in 1..m /\ n - m + (i + 1) = n - m + 1 + i
    BY <1>4
  <2>2. QED
    BY <1>4, <1>5, <2>1
<1>10. ASSUME NEW i \in 1..(n - m + 1)
       PROVE  arrivals[i] \in Out' \cup undelivered \/ n - i >= AUDIT_MAX
  <2>1. CASE i = n - m + 1
    <3>1. 1 \in 1..m /\ n - m + 1 = i
      BY <1>4, <2>1
    <3>2. arrivals[i] = Head(audit)
      BY <1>4, <1>5, <3>1
    <3>3. QED
      BY <1>6, <3>2
  <2>2. CASE i # n - m + 1
    <3>1. i \in 1..(n - m)
      BY <1>4, <2>2
    <3>2. QED
      BY <1>5, <1>6, <3>1
  <2>3. QED
    BY <2>1, <2>2
<1>11. QED
  BY <1>1, <1>4, <1>7, <1>8, <1>9, <1>10 DEF DropInv

\* A line in hand is sent, or lost with its thread.
LEMMA DropGone ==
  ASSUME TypeInv, DropInv, NEW s \in Spade, SendDone(s) \/ SendFails(s)
  PROVE  DropInv'
<1>1. /\ UNCHANGED <<audit, arrivals>>
      /\ held' = [held EXCEPT ![s] = None] /\ held[s] \in Line
  BY SendTypes DEF SendDone, SendFails, AuditDeque!Stop, receiveVars
<1>2. ASSUME NEW t \in Spade, t # s
      PROVE  SentBy(t)' = SentBy(t)
  BY <1>1, <1>2, SendTypes DEF SendDone, SendFails, SentBy, Hand, SeqSet
<1>3. SentBy(s) = SeqSet(forwarded[s]) \cup {held[s]}
  BY <1>1, NoneIsNoLine DEF SentBy, Hand
<1>4. SentBy(s) \subseteq SentBy(s)' \cup undelivered' /\ undelivered \subseteq undelivered'
  <2>1. CASE SendDone(s)
    <3>1. forwarded'[s] = Append(forwarded[s], held[s]) /\ forwarded[s] \in Seq(Line)
      BY <2>1, SendTypes DEF SendDone
    <3>2. SeqSet(forwarded'[s]) = SentBy(s)
      BY <1>1, <1>3, <3>1, AppendOrder
    <3>3. SeqSet(forwarded'[s]) \subseteq SentBy(s)'
      BY DEF SentBy, SeqSet
    <3>4. QED
      BY <2>1, <3>2, <3>3 DEF SendDone
  <2>2. CASE SendFails(s)
    BY <1>3, <2>2 DEF SendFails, SentBy, SeqSet
  <2>3. QED
    BY <2>1, <2>2
<1>5. Out \cup undelivered \subseteq Out' \cup undelivered'
  BY <1>2, <1>4 DEF Out
<1>6. Gone' = Gone /\ Len(arrivals)' = Len(arrivals)
  BY <1>1 DEF Gone
<1>7. QED
  BY <1>1, <1>5, <1>6 DEF DropInv

\* Every step keeps account of what has left the buffer.
LEMMA DropStep ==
  ASSUME TypeInv, HandInv, DropInv, [Next]_vars
  PROVE  DropInv'
<1>1. CASE UNCHANGED <<audit, arrivals, held, forwarded, undelivered>>
  <2>1. Gone' = Gone /\ Out' = Out
    BY <1>1 DEF Gone, Out, SentBy, Hand, SeqSet
  <2>2. QED
    BY <1>1, <2>1 DEF DropInv
<1>2. QED
  BY <1>1, DropFrame, DropAppend, DropTaken, DropGone
-----------------------------------------------------------------------------
(***************************************************************************)
(* The inductive invariant, and the properties that follow.                *)
(***************************************************************************)
ReceiverInv ==
  TypeInv /\ LinesInv /\ SaveInv /\ FileInv /\ HandInv /\ SendInv /\ DropInv

\* Nothing has been received.
LEMMA ReceiverStart == Init => ReceiverInv
<1> SUFFICES ASSUME Init PROVE ReceiverInv
  OBVIOUS
<1>1. TypeInv
  BY TypeInit
<1>2. /\ \A c \in Conn : lines[c] = <<>> /\ temp[c] = <<>> /\ client[c] = "off"
      /\ \A s \in Spade : forwarded[s] = <<>> /\ held[s] = None
      /\ audit_buffer = <<>> /\ audit = <<>> /\ file = <<>> /\ arrivals = <<>>
  BY DEF Init, SaveDeque!DequeInit, AuditDeque!DequeInit
<1>3. ConnOrder(<<>>) /\ SeqSet(<<>>) = {} /\ Len(<<>>) = 0
  BY DEF ConnOrder, SeqSet
<1>4. \A c \in Conn : Unsaved(c) = <<>>
  BY <1>2 DEF Unsaved
<1>5. \A s \in Spade : Hand(s) = {} /\ SentBy(s) = {}
  BY <1>2, <1>3 DEF Hand, SentBy
<1>6. LinesInv
  BY <1>2, <1>3 DEF LinesInv
<1>7. SaveInv
  BY <1>2, <1>3, <1>4 DEF SaveInv, Before
<1>7a. FileInv
  BY <1>2, <1>3 DEF FileInv, SavedOnce, Apart
<1>8. HandInv /\ SendInv
  BY <1>2, <1>3, <1>5 DEF HandInv, SendInv, Before
<1>9. DropInv
  BY <1>2, <1>3 DEF DropInv, Gone
<1>10. QED
  BY <1>1, <1>6, <1>7, <1>7a, <1>8, <1>9 DEF ReceiverInv

\* The seven parts together are inductive.
LEMMA ReceiverStep == ReceiverInv /\ [Next]_vars => ReceiverInv'
  BY TypeStep, LinesStep, SaveStep, FileStep, HandStep, SendStep, DropStep DEF ReceiverInv

\* Lines taken come before lines buffered, and those before lines still to be
\* appended, on the way to the save file and on the way to SPADE; and what has
\* left log_buffer.audit was taken or had to make room.
THEOREM ReceiverInvariance == Spec => []ReceiverInv
  BY ReceiverStart, ReceiverStep, PTL DEF Spec

\* However the threads of the connections, the chains of save_audit_log() and the
\* threads that serve SPADE interleave, the lines of each TCP connection (each batch)
\* keep their order in what a chain takes for the save file and in what is sent on
\* each connection of SPADE.
THEOREM LinesKeepOrder == Spec => []OrderKept
<1>1. ReceiverInv => OrderKept
  BY DEF ReceiverInv, SaveInv, SendInv, OrderKept
<1>2. QED
  BY ReceiverInvariance, <1>1, PTL

\* Chains of save_audit_log() that have the file open at once write over each other,
\* but never leave a line in it twice.
THEOREM NoLineSavedTwice == Spec => []SavedOnce
<1>1. ReceiverInv => SavedOnce
  BY DEF ReceiverInv, FileInv
<1>2. QED
  BY ReceiverInvariance, <1>1, PTL

\* listen_client() threads that take lines from one deque never send a line twice.
THEOREM NothingSentTwice == Spec => []ForwardedOnce
<1>1. ReceiverInv => ForwardedOnce
  <2> SUFFICES ASSUME ReceiverInv PROVE ForwardedOnce
    OBVIOUS
  <2>1. ASSUME NEW s \in Spade, NEW t \in Spade, s # t
        PROVE  SeqSet(forwarded[s]) \cap SeqSet(forwarded[t]) = {}
    BY <2>1 DEF ReceiverInv, SendInv, SentBy
  <2>2. ASSUME NEW s \in Spade,
               held[s] \in SeqSet(audit) \cup UNION {SeqSet(forwarded[t]) : t \in Spade}
        PROVE  FALSE
    <3>1. TypeInv /\ SendInv
      BY DEF ReceiverInv
    <3>2. held[s] \in SeqSet(audit) \/ \E t \in Spade : held[s] \in SeqSet(forwarded[t])
      BY <2>2
    <3>3. held[s] \in Line
      <4>1. \A t \in Spade : SeqSet(forwarded[t]) \subseteq SentBy(t)
        BY DEF SentBy
      <4>2. QED
        BY <3>1, <3>2, <4>1, SendTypes
    <3>4. Hand(s) = {held[s]} /\ held[s] \in SentBy(s)
      BY <3>3, NoneIsNoLine DEF Hand, SentBy
    <3>5. held[s].id \in Nat
      BY <3>3, ReceiverAssumption DEF Line
    <3>6. held[s] \notin SeqSet(audit) /\ held[s] \notin SeqSet(forwarded[s])
      BY <3>1, <3>4, <3>5 DEF SendInv, Before
    <3>7. ASSUME NEW t \in Spade, t # s
          PROVE  held[s] \notin SeqSet(forwarded[t])
      BY <3>1, <3>4, <3>7 DEF SendInv, SentBy
    <3>8. QED
      BY <3>2, <3>6, <3>7
  <2>3. QED
    BY <2>1, <2>2 DEF ForwardedOnce
<1>2. QED
  BY ReceiverInvariance, <1>1, PTL

\* A line that is not in log_buffer.audit any more was taken by a thread, or the
\* full deque dropped it as its oldest.
THEOREM DropsOnlyOldest == Spec => []OnlyOldestDropped
<1>1. ReceiverInv => OnlyOldestDropped
  <2> SUFFICES ASSUME ReceiverInv PROVE OnlyOldestDropped
    OBVIOUS
  <2> DEFINE out == {held[s] : s \in Spade} \cup UNION {SeqSet(forwarded[s]) : s \in Spade}
  <2>1. Out \subseteq out
    <3> SUFFICES ASSUME NEW x \in Out PROVE x \in out
      OBVIOUS
    <3>1. PICK s \in Spade : x \in SentBy(s)
      BY DEF Out
    <3>2. x \in SeqSet(forwarded[s]) \/ x = held[s]
      BY <3>1 DEF SentBy, Hand
    <3>3. QED
      BY <3>2
  <2>2. DropInv /\ arrivals \in Seq(Line) /\ audit \in Seq(Line)
    BY SendTypes DEF ReceiverInv, TypeInv, TypeOK
  <2>3. ASSUME NEW i \in DOMAIN arrivals
        PROVE  \/ arrivals[i] \in SeqSet(audit) \cup out \cup undelivered
               \/ Len(arrivals) - i >= AUDIT_MAX
    <3>1. CASE i <= Gone
      <4>1. i \in 1..Gone
        BY <2>2, <3>1 DEF Gone
      <4>2. QED
        BY <2>1, <2>2, <4>1 DEF DropInv
    <3>2. CASE ~(i <= Gone)
      <4>1. i - Gone \in DOMAIN audit /\ Gone + (i - Gone) = i
        BY <2>2, <3>2 DEF Gone
      <4>2. arrivals[i] = audit[i - Gone]
        BY <2>2, <4>1 DEF DropInv
      <4>3. QED
        BY <4>1, <4>2 DEF SeqSet
    <3>3. QED
      BY <3>1, <3>2
  <2>4. QED
    BY <2>3 DEF OnlyOldestDropped
<1>2. QED
  BY ReceiverInvariance, <1>1, PTL
-----------------------------------------------------------------------------
(***************************************************************************)
(* Each buffer, with the threads that drain it, is a DrainedDeque.         *)
(***************************************************************************)
\* A step of the receiver is, for audit_buffer, a step of the deque or none.
LEMMA SaveIsDeque ==
  ASSUME TypeInv, [Next]_vars
  PROVE  [SaveDeque!DequeNext]_(SaveDeque!dequeVars)
<1> USE DEF SaveDeque!dequeVars
<1>1. ASSUME NEW c \in Conn, Accept(c)
      PROVE  SaveDeque!DequeNext
  BY <1>1 DEF Accept, SaveDeque!DequeNext, SaveDeque!Drain
<1>2. ASSUME NEW c \in Conn, AppendSave(c)
      PROVE  SaveDeque!DequeNext
  <2>1. Head(lines[c]) \in Line
    BY <1>2, HeadIsLine DEF AppendSave
  <2>2. SaveDeque!Put
    BY <1>2, <2>1 DEF AppendSave, SaveDeque!Put
  <2>3. QED
    BY <2>2 DEF SaveDeque!DequeNext
<1>3. ASSUME NEW c \in Conn, SaveCheck(c) \/ SavePop(c) \/ SavePopEmpty(c)
      PROVE  SaveDeque!DequeNext
  BY <1>3 DEF SaveCheck, SavePop, SavePopEmpty, SaveDeque!DequeNext, SaveDeque!Drain
<1>4. ASSUME NEW c \in Conn, \/ Recv(c) \/ Close(c) \/ AppendMatch(c) \/ AppendAudit(c)
                             \/ SaveTimer(c) \/ SaveOpen(c) \/ SaveWrite(c) \/ Match(c)
      PROVE  UNCHANGED <<audit_buffer, saver>>
  BY <1>4 DEF Recv, Close, AppendMatch, AppendAudit, SaveTimer, SaveOpen, SaveWrite,
              Match, saveVars
<1>5. ASSUME NEW s \in Spade, SpadeConnects(s) \/ Forward(s)
      PROVE  UNCHANGED <<audit_buffer, saver>>
  BY <1>5 DEF SpadeConnects, Forward, SendCheck, SendPop, SendPopEmpty, SendDone, SendFails,
     receiveVars, saveVars
<1>6. QED
  BY <1>1, <1>2, <1>3, <1>4, <1>5 DEF Next, Parse, Save, vars, saveVars

\* The same for audit_buffer_hearbeat.
LEMMA MatchIsDeque ==
  ASSUME TypeInv, [Next]_vars
  PROVE  [MatchDeque!DequeNext]_(MatchDeque!dequeVars)
<1> USE DEF MatchDeque!dequeVars
<1>1. ASSUME NEW c \in Conn, Accept(c) \/ Match(c)
      PROVE  MatchDeque!DequeNext
  BY <1>1 DEF Accept, Match, MatchDeque!DequeNext, MatchDeque!Drain
<1>2. ASSUME NEW c \in Conn, AppendMatch(c)
      PROVE  MatchDeque!DequeNext
  <2>1. Head(lines[c]) \in Line
    BY <1>2, HeadIsLine DEF AppendMatch
  <2>2. MatchDeque!Put
    BY <1>2, <2>1 DEF AppendMatch, MatchDeque!Put
  <2>3. QED
    BY <2>2 DEF MatchDeque!DequeNext
<1>3. ASSUME NEW c \in Conn, Recv(c) \/ Close(c) \/ AppendSave(c) \/ AppendAudit(c) \/ Save(c)
      PROVE  UNCHANGED <<audit_buffer_hearbeat, matcher>>
  BY <1>3 DEF Recv, Close, AppendSave, AppendAudit, Save, SaveTimer, SaveCheck, SavePop,
     SavePopEmpty, SaveOpen, SaveWrite, matchVars
<1>4. ASSUME NEW s \in Spade, SpadeConnects(s) \/ Forward(s)
      PROVE  UNCHANGED <<audit_buffer_hearbeat, matcher>>
  BY <1>4 DEF SpadeConnects, Forward, SendCheck, SendPop, SendPopEmpty, SendDone, SendFails,
     receiveVars, matchVars
<1>5. QED
  BY <1>1, <1>2, <1>3, <1>4 DEF Next, Parse, vars, matchVars

(***************************************************************************)
(* What DrainedDeque_proofs shows of a deque, for these two.               *)
(***************************************************************************)
SaveThreads == INSTANCE DrainedDeque_proofs WITH
  Record <- Line, Drainer <- Conn, LOW <- BUFFER_LOW, MAXLEN <- BUFFER_MAX,
  deque <- audit_buffer, thread <- saver

MatchThreads == INSTANCE DrainedDeque_proofs WITH
  Record <- Line, Drainer <- Conn, LOW <- BUFFER_LOW, MAXLEN <- BUFFER_MAX,
  deque <- audit_buffer_hearbeat, thread <- matcher

\* A chain has no peer that could go away.
NoneStopped == \A c \in Conn : saver[c] # "stopped" /\ matcher[c] # "stopped"

\* No step of the receiver stops one.
LEMMA NoneStops ==
  ASSUME TypeInv, NoneStopped, [Next]_vars
  PROVE  NoneStopped'
<1>1. [SaveDeque!DequeNext]_(SaveDeque!dequeVars) /\ [MatchDeque!DequeNext]_(MatchDeque!dequeVars)
  BY SaveIsDeque, MatchIsDeque
<1>2. UNCHANGED saver \/ \E c \in Conn : Accept(c) \/ SaveCheck(c) \/ SavePop(c) \/ SavePopEmpty(c)
  <2>1. ASSUME NEW c \in Conn, \/ Recv(c) \/ Close(c) \/ Parse(c) \/ Match(c)
                               \/ SaveTimer(c) \/ SaveOpen(c) \/ SaveWrite(c)
        PROVE  UNCHANGED saver
    BY <2>1 DEF Recv, Close, Parse, AppendSave, AppendMatch, AppendAudit, Match, SaveTimer,
       SaveOpen, SaveWrite, saveVars
  <2>2. ASSUME NEW s \in Spade, SpadeConnects(s) \/ Forward(s)
        PROVE  UNCHANGED saver
    BY <2>2 DEF SpadeConnects, Forward, SendCheck, SendPop, SendPopEmpty, SendDone, SendFails,
       receiveVars, saveVars
  <2>3. QED
    BY <2>1, <2>2 DEF Next, Save, vars, saveVars
<1>3. UNCHANGED matcher \/ \E c \in Conn : Accept(c) \/ Match(c)
  <2>1. ASSUME NEW c \in Conn, Recv(c) \/ Close(c) \/ Parse(c) \/ Save(c)
        PROVE  UNCHANGED matcher
    BY <2>1 DEF Recv, Close, Parse, AppendSave, AppendMatch, AppendAudit, Save, SaveTimer,
       SaveCheck, SavePop, SavePopEmpty, SaveOpen, SaveWrite, matchVars
  <2>2. ASSUME NEW s \in Spade, SpadeConnects(s) \/ Forward(s)
        PROVE  UNCHANGED matcher
    BY <2>2 DEF SpadeConnects, Forward, SendCheck, SendPop, SendPopEmpty, SendDone, SendFails,
       receiveVars, matchVars
  <2>3. QED
    BY <2>1, <2>2 DEF Next, vars, matchVars
<1>4. /\ saver \in [Conn -> {"off", "idle", "pop", "killed", "stopped"}]
      /\ matcher \in [Conn -> {"off", "idle", "pop", "killed", "stopped"}]
  BY DEF TypeInv, TypeOK, SaveDeque!DequeTypeOK, MatchDeque!DequeTypeOK
<1>5. \A c \in Conn : saver'[c] # "stopped"
  BY <1>2, <1>4 DEF NoneStopped, Accept, SaveCheck, SavePop, SavePopEmpty, SaveDeque!Start,
     SaveDeque!Check, SaveDeque!Pop, SaveDeque!PopEmpty
<1>6. \A c \in Conn : matcher'[c] # "stopped"
  BY <1>3, <1>4 DEF NoneStopped, Accept, Match, MatchDeque!Start, MatchDeque!Check,
     MatchDeque!Pop, MatchDeque!PopEmpty
<1>7. QED
  BY <1>5, <1>6 DEF NoneStopped

\* However many connections have come, each with chains of its own, and however
\* they race for the last lines, IndexError leaves BUFFER_LOW + 1 of the chains of
\* save_audit_log() running, and as many of logmatch().
THEOREM ChainsLeft == Spec => []ChainsSurvive
<1>1. Init => NoneStopped
  BY DEF Init, NoneStopped, SaveDeque!DequeInit, MatchDeque!DequeInit
<1>2. Spec => []NoneStopped
  BY <1>1, NoneStops, TypeInvariance, PTL DEF Spec
<1>3. Spec => [](SaveDeque!Killed # {} => Cardinality(SaveDeque!Running) >= BUFFER_LOW + 1)
  <2>1. SaveThreads!DequeAssumption
    BY ReceiverAssumption DEF IsFiniteSet, SaveThreads!IsFiniteSet
  <2>2. Init => SaveThreads!DequeInit
    BY DEF Init, SaveDeque!DequeInit, SaveThreads!DequeInit
  <2>3. TypeInv /\ [Next]_vars => [SaveThreads!DequeNext]_(SaveThreads!dequeVars)
    BY SaveIsDeque
    DEF SaveDeque!DequeNext, SaveDeque!dequeVars, SaveDeque!Put, SaveDeque!Appended,
        SaveDeque!Drain, SaveDeque!Start, SaveDeque!Check, SaveDeque!Pop, SaveDeque!PopEmpty,
        SaveDeque!Stop, SaveThreads!DequeNext, SaveThreads!dequeVars, SaveThreads!Put,
        SaveThreads!Appended, SaveThreads!Drain, SaveThreads!Start, SaveThreads!Check,
        SaveThreads!Pop, SaveThreads!PopEmpty, SaveThreads!Stop
  <2>4. SaveThreads!DequeInit /\ [][SaveThreads!DequeNext]_(SaveThreads!dequeVars)
          => [](SaveThreads!Killed # {} /\ SaveThreads!Stopped = {}
                  => SaveThreads!Cardinality(SaveThreads!Running) >= BUFFER_LOW + 1)
    BY <2>1, SaveThreads!DrainersLeft DEF SaveThreads!DequeSpec
  <2>5. NoneStopped => SaveThreads!Stopped = {}
    BY DEF NoneStopped, SaveThreads!Stopped
  <2>6. (SaveThreads!Killed # {} => SaveThreads!Cardinality(SaveThreads!Running) >= BUFFER_LOW + 1)
          => (SaveDeque!Killed # {} => Cardinality(SaveDeque!Running) >= BUFFER_LOW + 1)
    <3>1. SaveThreads!Cardinality(SaveThreads!Running) = Cardinality(SaveDeque!Running)
      BY DEF SaveThreads!Cardinality, Cardinality, SaveThreads!Running, SaveDeque!Running
    <3>2. SaveThreads!Killed = SaveDeque!Killed
      BY DEF SaveThreads!Killed, SaveDeque!Killed
    <3>3. QED
      BY <3>1, <3>2
  <2>7. QED
    BY <1>2, <2>2, <2>3, <2>4, <2>5, <2>6, TypeInvariance, PTL DEF Spec
<1>4. Spec => [](MatchDeque!Killed # {} => Cardinality(MatchDeque!Running) >= BUFFER_LOW + 1)
  <2>1. MatchThreads!DequeAssumption
    BY ReceiverAssumption DEF IsFiniteSet, MatchThreads!IsFiniteSet
  <2>2. Init => MatchThreads!DequeInit
    BY DEF Init, MatchDeque!DequeInit, MatchThreads!DequeInit
  <2>3. TypeInv /\ [Next]_vars => [MatchThreads!DequeNext]_(MatchThreads!dequeVars)
    BY MatchIsDeque
    DEF MatchDeque!DequeNext, MatchDeque!dequeVars, MatchDeque!Put, MatchDeque!Appended,
        MatchDeque!Drain, MatchDeque!Start, MatchDeque!Check, MatchDeque!Pop, MatchDeque!PopEmpty,
        MatchDeque!Stop, MatchThreads!DequeNext, MatchThreads!dequeVars, MatchThreads!Put,
        MatchThreads!Appended, MatchThreads!Drain, MatchThreads!Start, MatchThreads!Check,
        MatchThreads!Pop, MatchThreads!PopEmpty, MatchThreads!Stop
  <2>4. MatchThreads!DequeInit /\ [][MatchThreads!DequeNext]_(MatchThreads!dequeVars)
          => [](MatchThreads!Killed # {} /\ MatchThreads!Stopped = {}
                  => MatchThreads!Cardinality(MatchThreads!Running) >= BUFFER_LOW + 1)
    BY <2>1, MatchThreads!DrainersLeft DEF MatchThreads!DequeSpec
  <2>5. NoneStopped => MatchThreads!Stopped = {}
    BY DEF NoneStopped, MatchThreads!Stopped
  <2>6. (MatchThreads!Killed # {}
           => MatchThreads!Cardinality(MatchThreads!Running) >= BUFFER_LOW + 1)
          => (MatchDeque!Killed # {} => Cardinality(MatchDeque!Running) >= BUFFER_LOW + 1)
    <3>1. MatchThreads!Cardinality(MatchThreads!Running) = Cardinality(MatchDeque!Running)
      BY DEF MatchThreads!Cardinality, Cardinality, MatchThreads!Running, MatchDeque!Running
    <3>2. MatchThreads!Killed = MatchDeque!Killed
      BY DEF MatchThreads!Killed, MatchDeque!Killed
    <3>3. QED
      BY <3>1, <3>2
  <2>7. QED
    BY <1>2, <2>2, <2>3, <2>4, <2>5, <2>6, TypeInvariance, PTL DEF Spec
<1>5. QED
  BY <1>3, <1>4, PTL DEF ChainsSurvive
=============================================================================
