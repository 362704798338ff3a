----------------------- MODULE LogTranslation_proofs ------------------------
(***************************************************************************)
(* Proofs about LogTranslation for all records and messages, cut anywhere  *)
(* and any number of times.  What is on its way is a row of runs, each of  *)
(* consecutive symbols of one message (Run), so that a line is a run too;  *)
(* a run that does not begin with its message is left over from a cut, or  *)
(* an end of line whose record has been parsed.                            *)
(***************************************************************************)
EXTENDS LogTranslation, NaturalsInduction, WellFoundedInduction, SequenceTheorems, TLAPS

\* Strings; the provers do not know of a literal that it is one.
Word == STRING \cup Keywords \cup {NL, "part", "type="}

Sym == [s : Word, of : Message, at : Nat \ {0}]

\* A symbol of one of the messages S, whole unless the message is one of C.
Genuine(x, S, C) ==
  /\ x \in Sym /\ x.of \in S
  /\ IF x.s = NL
       THEN x.of \in Audit /\ x.at = Len(Text[x.of]) + 1
       ELSE x.at \in 1..Len(Text[x.of]) /\ x.s \in {Text[x.of][x.at], "part"}
  /\ x.s = "part" => x.of \in C

\* y may come right after x.
Follows(x, y) == IF x.s = NL THEN y.at = 1 ELSE y.of = x.of /\ y.at = x.at + 1

Run(q, S, C) ==
  /\ q \in Seq(Sym)
  /\ \A i \in 1..Len(q) : Genuine(q[i], S, C)
  /\ \A i \in 1..Len(q) - 1 : Follows(q[i], q[i + 1])

\* It begins with a message, with an end of line, or with the rest of a message of C.
Begins(q, C) == q # <<>> => q[1].at = 1 \/ q[1].s = NL \/ q[1].of \in C

LineSym == [s : Word, of : Message \cup {"receiver"}, at : Nat]
LineType == [type : Word, text : Seq(LineSym)]

FromStart(l) ==
  \E m \in Audit :
    /\ \A x \in Own(l) : x.of = m
    /\ \/ \E x \in Own(l) : x.at = 1
       \/ \E j \in 2..Len(Text[m]) : Text[m][j] = "audit"

Done(m) == Plain(m) /\ TypeOf(m) # "none" => KeptWhole(m)

\* What a line that logmatch() takes for the command of a task stands for.
Reads(l, t) == Has(l.text, "proctitle") /\ Proctitle(l) \in SubSeqs(Command[t])
Shown(l, t) == \E m \in Audit : HasCommand(l, m, Command[t])

TrTypeOK ==
  /\ conn \in [Conn -> {"off", "open", "closed"}]
  /\ stream \in [Conn -> Seq(Sym)] /\ data \in [Conn -> Seq(Sym)]
  /\ sent \subseteq Message /\ complete \subseteq Message /\ cut \subseteq Message
  /\ kept \in Seq(LineType)
  /\ matched \in 0..Len(kept)
  /\ heartbeat_check \in [Heartbeat -> BOOLEAN]

\* A stream, and what is not yet parsed of it.
RunsAt(c) ==
  /\ Run(stream[c], sent, cut) /\ Begins(stream[c], cut)
  /\ Run(data[c], sent, cut) /\ Begins(data[c], cut)
  /\ conn[c] = "off" /\ stream[c] # <<>> => stream[c][Len(stream[c])].s = NL

\* An end of line that recv() has parted from its record finds the record kept,
\* or about to be parsed.
PartedAt(c) ==
  /\ data[c] # <<>> /\ data[c][1].s = NL /\ data[c][1].of \notin cut => Done(data[c][1].of)
  /\ stream[c] # <<>> /\ stream[c][1].s = NL /\ stream[c][1].of \notin cut =>
       \/ Done(stream[c][1].of)
       \/ /\ data[c] # <<>>
          /\ data[c][Len(data[c])].of = stream[c][1].of
          /\ data[c][Len(data[c])].at = Len(Text[stream[c][1].of])

\* A line that confirms a task has the command that a record shows, all of it.
ReadsInv == \A i \in DOMAIN kept, t \in Heartbeat : Reads(kept[i], t) => Shown(kept[i], t)

TrInv ==
  /\ TrTypeOK
  /\ \A c \in Conn : RunsAt(c) /\ PartedAt(c)
  /\ ReadsInv
  /\ PlainKeptWhole
  /\ LineFromStart
  /\ ConfirmedByWholeCommand
-----------------------------------------------------------------------------
\* A set of numbers has a least element, which Min() is.
LEMMA MinOf ==
  ASSUME NEW S, S \subseteq Nat, S # {}
  PROVE  Min(S) \in S /\ \A j \in S : Min(S) <= j
<1>1. \E k \in S : \A j \in S : ~(<<j, k>> \in OpToRel(<, Nat))
  BY NatLessThanWellFounded, WFMin
<1>2. PICK k \in S : \A j \in S : ~(j < k)
  BY <1>1 DEF OpToRel
<1>3. \A j \in S : k <= j
  BY <1>2
<1>4. QED
  BY <1>3 DEF Min

\* A set of numbers up to n has a greatest element, which Max() is.
LEMMA MaxOf ==
  ASSUME NEW n \in Nat, NEW S, S \subseteq 0..n, S # {}
  PROVE  Max(S) \in S /\ \A j \in S : j <= Max(S)
<1> DEFINE D == {i \in 0..n : n - i \in S}
<1>1. D \subseteq Nat /\ D # {}
  <2>1. PICK j \in S : TRUE
    OBVIOUS
  <2>2. n - j \in D
    BY <2>1
  <2>3. D \subseteq Nat
    OBVIOUS
  <2>4. QED
    BY <2>2, <2>3
<1>2. Min(D) \in D /\ \A j \in D : Min(D) <= j
  <2> HIDE DEF D
  <2>1. QED
    BY <1>1, MinOf
<1>3. n - Min(D) \in S
  BY <1>2
<1>4. \A j \in S : j <= n - Min(D)
  <2> SUFFICES ASSUME NEW j \in S PROVE j <= n - Min(D)
    OBVIOUS
  <2>1. n - j \in D
    OBVIOUS
  <2>2. QED
    BY <1>2, <2>1
<1>5. \E k \in S : \A j \in S : j <= k
  BY <1>3, <1>4
<1>6. QED
  BY <1>5 DEF Max

\* The places of a symbol in a sequence.
LEMMA WherePlaces ==
  ASSUME NEW T, NEW q \in Seq(T), NEW k
  PROVE  Where(q, k) \subseteq 1..Len(q)
  BY DEF Where

\* The first line: it has no end of line in it, and ends before one or with q.
LEMMA LineEndIs ==
  ASSUME NEW T, NEW q \in Seq(T)
  PROVE  /\ LineEnd(q) \in 1..Len(q) + 1
         /\ \A i \in 1..Len(q) : i < LineEnd(q) => q[i].s # NL
         /\ LineEnd(q) <= Len(q) => q[LineEnd(q)].s = NL
<1> DEFINE S == Where(q, NL) \cup {Len(q) + 1}
<1>1. Len(q) \in Nat /\ DOMAIN q = 1..Len(q)
  OBVIOUS
<1>2. S \subseteq 1..Len(q) + 1 /\ S # {}
  BY <1>1, WherePlaces
<1>3. S \subseteq Nat
  BY <1>1, <1>2
<1>4. Min(S) \in S /\ \A j \in S : Min(S) <= j
  <2> HIDE DEF S
  <2>1. QED
    BY <1>2, <1>3, MinOf
<1>5. LineEnd(q) = Min(S)
  BY DEF LineEnd
<1>6. Min(S) \in 1..Len(q) + 1
  BY <1>2, <1>4
<1>7. ASSUME NEW i \in 1..Len(q), i < Min(S) PROVE q[i].s # NL
  <2>1. i \notin S
    <3> HIDE DEF S
    <3>1. QED
      BY <1>1, <1>4, <1>6, <1>7
  <2>2. QED
    BY <1>1, <2>1 DEF Where
<1>8. ASSUME Min(S) <= Len(q) PROVE q[Min(S)].s = NL
  <2>1. Min(S) # Len(q) + 1
    BY <1>1, <1>6, <1>8
  <2>2. Min(S) \in Where(q, NL)
    BY <1>4, <2>1
  <2>3. QED
    BY <2>2 DEF Where
<1>9. QED
  BY <1>5, <1>6, <1>7, <1>8

\* msg.split(',')[0]: what is before the first comma, or everything.
LEMMA FirstIs ==
  ASSUME NEW T, NEW q \in Seq(T)
  PROVE  \E k \in 1..Len(q) + 1 :
           /\ First(q) = SubSeq(q, 1, k - 1)
           /\ \A i \in 1..Len(q) : i < k => q[i].s # COMMA
           /\ k <= Len(q) => q[k].s = COMMA
<1> DEFINE S == Where(q, COMMA) \cup {Len(q) + 1}
<1>1. Len(q) \in Nat /\ DOMAIN q = 1..Len(q)
  OBVIOUS
<1>2. S \subseteq 1..Len(q) + 1 /\ S # {}
  BY <1>1, WherePlaces
<1>3. S \subseteq Nat
  BY <1>1, <1>2
<1>4. Min(S) \in S /\ \A j \in S : Min(S) <= j
  <2> HIDE DEF S
  <2>1. QED
    BY <1>2, <1>3, MinOf
<1>5. First(q) = SubSeq(q, 1, Min(S) - 1)
  BY DEF First
<1>6. Min(S) \in 1..Len(q) + 1
  BY <1>2, <1>4
<1>7. ASSUME NEW i \in 1..Len(q), i < Min(S) PROVE q[i].s # COMMA
  <2>1. i \notin S
    <3> HIDE DEF S
    <3>1. QED
      BY <1>1, <1>4, <1>6, <1>7
  <2>2. QED
    BY <1>1, <2>1 DEF Where
<1>8. ASSUME Min(S) <= Len(q) PROVE q[Min(S)].s = COMMA
  <2>1. Min(S) # Len(q) + 1
    BY <1>1, <1>6, <1>8
  <2>2. Min(S) \in Where(q, COMMA)
    BY <1>4, <2>1
  <2>3. QED
    BY <2>2 DEF Where
<1>9. QED
  <2> HIDE DEF S
  <2>1. QED
    BY <1>5, <1>6, <1>7, <1>8

\* msg.split(',')[-1]: what is after the last comma, or everything.
LEMMA LastPartIs ==
  ASSUME NEW T, NEW q \in Seq(T)
  PROVE  \E k \in 0..Len(q) :
           /\ LastPart(q) = SubSeq(q, k + 1, Len(q))
           /\ k > 0 => q[k].s = COMMA
           /\ \A i \in 1..Len(q) : q[i].s = COMMA => i <= k
<1> DEFINE S == Where(q, COMMA) \cup {0}
<1>1. Len(q) \in Nat /\ DOMAIN q = 1..Len(q)
  OBVIOUS
<1>2. S \subseteq 0..Len(q) /\ S # {}
  BY <1>1, WherePlaces
<1>3. Max(S) \in S /\ \A j \in S : j <= Max(S)
  <2> HIDE DEF S
  <2>1. QED
    BY <1>1, <1>2, MaxOf
<1>4. LastPart(q) = SubSeq(q, Max(S) + 1, Len(q))
  BY DEF LastPart
<1>5. ASSUME Max(S) > 0 PROVE q[Max(S)].s = COMMA
  <2>1. Max(S) \in Where(q, COMMA)
    BY <1>3, <1>5
  <2>2. QED
    BY <2>1 DEF Where
<1>6. ASSUME NEW i \in 1..Len(q), q[i].s = COMMA PROVE i <= Max(S)
  <2>1. i \in S
    BY <1>1, <1>6 DEF Where
  <2> HIDE DEF S
  <2>2. QED
    BY <1>3, <2>1
<1>7. QED
  <2> HIDE DEF S
  <2>1. QED
    BY <1>2, <1>3, <1>4, <1>5, <1>6
-----------------------------------------------------------------------------
\* Types of what is sent.
LEMMA Texts ==
  ASSUME NEW m \in Message
  PROVE  /\ Text[m] \in Seq(STRING) /\ Len(Text[m]) \in Nat /\ DOMAIN Text[m] = 1..Len(Text[m])
         /\ \A i \in 1..Len(Text[m]) : Text[m][i] \in STRING /\ Text[m][i] \notin {NL, "part"}
<1>1. Text[m] \in Seq(STRING) /\ ToSet(Text[m]) \cap {NL, "part"} = {}
  BY TranslationAssumption
<1>2. Len(Text[m]) \in Nat /\ DOMAIN Text[m] = 1..Len(Text[m])
  BY <1>1
<1>3. ASSUME NEW i \in 1..Len(Text[m]) PROVE Text[m][i] \in STRING /\ Text[m][i] \notin {NL, "part"}
  <2>1. Text[m][i] \in ToSet(Text[m])
    BY <1>2 DEF ToSet
  <2>2. QED
    BY <1>1, <2>1
<1>4. QED
  BY <1>1, <1>2, <1>3

\* The symbols of a message, each after the one before.
LEMMA SymbolsRun ==
  ASSUME NEW m \in Message, NEW S, NEW C, m \in S
  PROVE  /\ Run(Symbols(m), S, C)
         /\ Len(Symbols(m)) = Len(Text[m])
         /\ \A i \in 1..Len(Text[m]) :
              Symbols(m)[i].s = Text[m][i] /\ Symbols(m)[i].of = m /\ Symbols(m)[i].at = i
<1> DEFINE q == Symbols(m)
<1>1. /\ Text[m] \in Seq(STRING) /\ Len(Text[m]) \in Nat
      /\ \A i \in 1..Len(Text[m]) : Text[m][i] \in STRING /\ Text[m][i] \notin {NL, "part"}
  BY Texts
<1>2. \A i \in 1..Len(Text[m]) : q[i].s = Text[m][i] /\ q[i].of = m /\ q[i].at = i
  BY DEF Symbols, Symbol
<1>3. q \in Seq(Sym) /\ Len(q) = Len(Text[m])
  <2>1. \A i \in 1..Len(Text[m]) : Symbol(m, i) \in Sym
    BY <1>1 DEF Symbol, Sym, Word
  <2>2. q = [i \in 1..Len(Text[m]) |-> Symbol(m, i)]
    BY DEF Symbols
  <2>3. q \in [1..Len(Text[m]) -> Sym]
    BY <2>1, <2>2
  <2>4. QED
    BY <1>1, <2>3
<1> HIDE DEF q
<1>4. \A i \in 1..Len(q) : Genuine(q[i], S, C)
  <2> SUFFICES ASSUME NEW i \in 1..Len(q) PROVE Genuine(q[i], S, C)
    OBVIOUS
  <2>1. q[i] \in Sym
    BY <1>3
  <2>2. q[i].s = Text[m][i] /\ q[i].of = m /\ q[i].at = i
    BY <1>2, <1>3
  <2>3. q[i].s # NL /\ q[i].s # "part"
    BY <1>1, <1>3, <2>2
  <2>4. QED
    BY <1>1, <1>3, <2>1, <2>2, <2>3 DEF Genuine
<1>5. \A i \in 1..Len(q) - 1 : Follows(q[i], q[i + 1])
  <2> SUFFICES ASSUME NEW i \in 1..Len(q) - 1 PROVE Follows(q[i], q[i + 1])
    OBVIOUS
  <2>1. i \in 1..Len(Text[m]) /\ i + 1 \in 1..Len(Text[m])
    BY <1>1, <1>3
  <2>2. q[i].s = Text[m][i] /\ q[i].of = m /\ q[i].at = i
    BY <1>2, <2>1
  <2>3. q[i + 1].of = m /\ q[i + 1].at = i + 1
    BY <1>2, <2>1
  <2>4. q[i].s # NL
    BY <1>1, <2>1, <2>2
  <2>5. QED
    BY <2>2, <2>3, <2>4 DEF Follows
<1>6. QED
  BY <1>2, <1>3, <1>4, <1>5 DEF Run, q

\* More messages sent, or more of them cut, and it is a run still.
LEMMA RunMonotone ==
  ASSUME NEW q, NEW S, NEW C, NEW S2, NEW C2, S \subseteq S2, C \subseteq C2, Run(q, S, C)
  PROVE  Run(q, S2, C2)
<1>1. \A x : Genuine(x, S, C) => Genuine(x, S2, C2)
  BY DEF Genuine
<1>2. QED
  BY <1>1 DEF Run

LEMMA BeginsMonotone ==
  ASSUME NEW q, NEW C, NEW C2, C \subseteq C2, Begins(q, C)
  PROVE  Begins(q, C2)
  BY DEF Begins

\* The fields of the symbols of a run.
LEMMA RunFields ==
  ASSUME NEW q, NEW S, NEW C, Run(q, S, C)
  PROVE  /\ q \in Seq(Sym) /\ Len(q) \in Nat /\ DOMAIN q = 1..Len(q)
         /\ \A i \in 1..Len(q) : q[i].s \in Word /\ q[i].of \in Message /\ q[i].at \in Nat \ {0}
<1>1. q \in Seq(Sym)
  BY DEF Run
<1>2. Len(q) \in Nat /\ DOMAIN q = 1..Len(q) /\ \A i \in 1..Len(q) : q[i] \in Sym
  BY <1>1
<1>3. \A x \in Sym : x.s \in Word /\ x.of \in Message /\ x.at \in Nat \ {0}
  BY DEF Sym
<1>4. QED
  BY <1>1, <1>2, <1>3

\* Nothing is a run.
LEMMA EmptyRun ==
  ASSUME NEW S, NEW C
  PROVE  Run(<<>>, S, C) /\ Begins(<<>>, C)
<1>1. <<>> \in Seq(Sym) /\ Len(<<>>) = 0
  BY EmptySeq
<1>2. QED
  BY <1>1 DEF Run, Begins

\* A part of a run is a run.
LEMMA PartRun ==
  ASSUME NEW q, NEW S, NEW C, Run(q, S, C), NEW a \in 1..Len(q) + 1, NEW b \in 0..Len(q)
  PROVE  /\ Run(SubSeq(q, a, b), S, C)
         /\ Len(SubSeq(q, a, b)) = IF a <= b THEN b - a + 1 ELSE 0
         /\ \A i \in 1..b - a + 1 : SubSeq(q, a, b)[i] = q[a + i - 1]
<1> DEFINE p == SubSeq(q, a, b)
<1>1. q \in Seq(Sym) /\ Len(q) \in Nat /\ \A i \in a..b : q[i] \in Sym
  BY DEF Run
<1>2. /\ p \in Seq(Sym)
      /\ Len(p) = IF a <= b THEN b - a + 1 ELSE 0
      /\ \A i \in 1..b - a + 1 : p[i] = q[a + i - 1]
  BY <1>1, SubSeqProperties, SMTT(30)
<1> HIDE DEF p
<1>3. ASSUME NEW i \in 1..Len(p) PROVE Genuine(p[i], S, C)
  <2>1. i \in 1..b - a + 1 /\ a + i - 1 \in 1..Len(q)
    BY <1>1, <1>2
  <2>2. QED
    BY <1>2, <2>1 DEF Run
<1>4. ASSUME NEW i \in 1..Len(p) - 1 PROVE Follows(p[i], p[i + 1])
  <2>1. /\ i \in 1..b - a + 1 /\ i + 1 \in 1..b - a + 1
        /\ a + i - 1 \in 1..Len(q) - 1 /\ a + (i + 1) - 1 = (a + i - 1) + 1
    BY <1>1, <1>2
  <2>2. p[i] = q[a + i - 1] /\ p[i + 1] = q[(a + i - 1) + 1]
    BY <1>2, <2>1
  <2>3. QED
    BY <2>1, <2>2 DEF Run
<1>5. QED
  BY <1>2, <1>3, <1>4 DEF Run, p

\* Two runs are one when the second may follow the first.
LEMMA JoinedRun ==
  ASSUME NEW p, NEW q, NEW S, NEW C, Run(p, S, C), Run(q, S, C),
         p # <<>> /\ q # <<>> => Follows(p[Len(p)], q[1])
  PROVE  /\ Run(p \o q, S, C)
         /\ Len(p \o q) = Len(p) + Len(q)
         /\ \A i \in 1..Len(p) : (p \o q)[i] = p[i]
         /\ \A i \in 1..Len(q) : (p \o q)[Len(p) + i] = q[i]
<1> DEFINE r == p \o q
<1>1. p \in Seq(Sym) /\ q \in Seq(Sym) /\ Len(p) \in Nat /\ Len(q) \in Nat
  BY DEF Run
<1>2. /\ r \in Seq(Sym) /\ Len(r) = Len(p) + Len(q)
      /\ \A i \in 1..Len(p) + Len(q) : r[i] = IF i <= Len(p) THEN p[i] ELSE q[i - Len(p)]
  BY <1>1, ConcatProperties
<1> HIDE DEF r
<1>3. \A i \in 1..Len(p) : r[i] = p[i]
  BY <1>1, <1>2
<1>4. ASSUME NEW i \in 1..Len(q) PROVE r[Len(p) + i] = q[i]
  <2>1. Len(p) + i \in 1..Len(p) + Len(q) /\ ~(Len(p) + i <= Len(p)) /\ (Len(p) + i) - Len(p) = i
    BY <1>1
  <2>2. QED
    BY <1>2, <2>1
<1>5. ASSUME NEW i \in 1..Len(r) PROVE Genuine(r[i], S, C)
  <2>1. CASE i <= Len(p)
    BY <1>1, <1>2, <1>3, <2>1 DEF Run
  <2>2. CASE i > Len(p)
    <3>1. i - Len(p) \in 1..Len(q) /\ r[i] = q[i - Len(p)]
      BY <1>1, <1>2, <2>2
    <3>2. QED
      BY <3>1 DEF Run
  <2>3. QED
    BY <1>1, <1>2, <2>1, <2>2
<1>6. ASSUME NEW i \in 1..Len(r) - 1 PROVE Follows(r[i], r[i + 1])
  <2>1. CASE i < Len(p)
    <3>1. i \in 1..Len(p) - 1 /\ r[i] = p[i] /\ r[i + 1] = p[i + 1]
      BY <1>1, <1>2, <1>3, <2>1
    <3>2. QED
      BY <3>1 DEF Run
  <2>2. CASE i = Len(p)
    <3>1. r[i] = p[Len(p)] /\ Len(q) >= 1 /\ 1 \in 1..Len(q) /\ Len(p) >= 1
      BY <1>1, <1>2, <1>3, <2>2
    <3>2. r[i + 1] = q[1]
      BY <1>4, <2>2, <3>1
    <3>3. p # <<>> /\ q # <<>>
      BY <3>1
    <3>4. QED
      BY <3>1, <3>2, <3>3
  <2>3. CASE i > Len(p)
    <3>1. i - Len(p) \in 1..Len(q) - 1 /\ (i + 1) - Len(p) = (i - Len(p)) + 1
      BY <1>1, <1>2, <2>3
    <3>2. r[i] = q[i - Len(p)] /\ r[i + 1] = q[(i - Len(p)) + 1]
      BY <1>1, <1>2, <2>3, <3>1
    <3>3. QED
      BY <3>1, <3>2 DEF Run
  <2>4. QED
    BY <1>1, <1>2, <2>1, <2>2, <2>3
<1>7. QED
  BY <1>2, <1>3, <1>4, <1>5, <1>6 DEF Run, r

\* A single symbol.
LEMMA OneRun ==
  ASSUME NEW x, NEW S, NEW C, Genuine(x, S, C)
  PROVE  /\ Run(<<x>>, S, C) /\ Len(<<x>>) = 1 /\ <<x>>[1] = x
<1>1. x \in Sym
  BY DEF Genuine
<1>2. <<x>> \in Seq(Sym) /\ Len(<<x>>) = 1 /\ <<x>>[1] = x
  BY <1>1
<1>3. QED
  BY <1>2 DEF Run

\* Within a line the symbols are those of one message, one after the other.
LEMMA SameLine ==
  ASSUME NEW q, NEW S, NEW C, Run(q, S, C), NEW i \in 1..Len(q),
         \A j \in 1..Len(q) : j < i => q[j].s # NL
  PROVE  q[i].of = q[1].of /\ q[i].at = q[1].at + (i - 1)
<1> DEFINE Bad == {k \in 1..i : ~(q[k].of = q[1].of /\ q[k].at = q[1].at + (k - 1))}
<1>1. Len(q) \in Nat /\ \A k \in 1..Len(q) : q[k].at \in Nat
  BY RunFields
<1>2. SUFFICES ASSUME Bad # {} PROVE FALSE
  BY <1>1
<1>3. Min(Bad) \in Bad /\ \A j \in Bad : Min(Bad) <= j
  <2>1. Bad \subseteq Nat
    OBVIOUS
  <2> HIDE DEF Bad
  <2>2. QED
    BY <1>2, <2>1, MinOf
<1>4. PICK k \in Bad : \A j \in Bad : k <= j
  <2> HIDE DEF Bad
  <2>1. QED
    BY <1>3
<1>5. k \in 1..i /\ k # 1
  BY <1>1, <1>4
<1>6. k - 1 \in 1..i /\ k - 1 \notin Bad
  <2>1. k - 1 \in 1..i /\ ~(k <= k - 1)
    BY <1>5
  <2> HIDE DEF Bad
  <2>2. QED
    BY <1>4, <2>1
<1>7. q[k - 1].of = q[1].of /\ q[k - 1].at = q[1].at + ((k - 1) - 1)
  BY <1>6
<1>8. q[k - 1].s # NL /\ k - 1 \in 1..Len(q) - 1 /\ (k - 1) + 1 = k
  BY <1>1, <1>5
<1>9. q[k].of = q[k - 1].of /\ q[k].at = q[k - 1].at + 1
  BY <1>8 DEF Run, Follows
<1>10. q[k].of = q[1].of /\ q[k].at = q[1].at + (k - 1)
  <2>1. q[1].at \in Nat /\ k \in Nat
    BY <1>1, <1>5
  <2> HIDE DEF Bad
  <2>2. q[k].at = (q[1].at + ((k - 1) - 1)) + 1
    BY <1>7, <1>9
  <2>3. \A a, n \in Nat : (a + ((n - 1) - 1)) + 1 = a + (n - 1)
    OBVIOUS
  <2>4. QED
    BY <1>7, <1>9, <2>1, <2>2, <2>3
<1>11. QED
  BY <1>4, <1>10

-----------------------------------------------------------------------------
\* The text of a line, place by place: what is after the last comma (at k0), the
\* type, and what is before the first one (at k).
Laid(text, q, k, k0) ==
  /\ \A i \in 1..Len(q) : i < k => q[i].s # COMMA
  /\ k <= Len(q) => q[k].s = COMMA
  /\ k0 > 0 => q[k0].s = COMMA
  /\ text \in Seq(LineSym) /\ Len(text) = (Len(q) - k0) + k
  /\ \A i \in 1..Len(q) - k0 : text[i] = q[k0 + i]
  /\ text[(Len(q) - k0) + 1] = TypeField
  /\ \A i \in 1..k - 1 : text[(Len(q) - k0) + 1 + i] = q[i]

\* What format_audit_msg() makes of a line.
LEMMA FormatText ==
  ASSUME NEW q \in Seq(Sym), NEW type \in Word
  PROVE  /\ format_audit_msg(type, q) \in LineType
         /\ \E k \in 1..Len(q) + 1, k0 \in 0..Len(q) :
              Laid(format_audit_msg(type, q).text, q, k, k0)
<1> DEFINE l == format_audit_msg(type, q)
<1>1. PICK k \in 1..Len(q) + 1 :
        /\ First(q) = SubSeq(q, 1, k - 1)
        /\ \A i \in 1..Len(q) : i < k => q[i].s # COMMA
        /\ k <= Len(q) => q[k].s = COMMA
  BY FirstIs
<1>2. PICK k0 \in 0..Len(q) :
        /\ LastPart(q) = SubSeq(q, k0 + 1, Len(q))
        /\ k0 > 0 => q[k0].s = COMMA
  BY LastPartIs
<1>3. Len(q) \in Nat /\ Sym \subseteq LineSym /\ TypeField \in LineSym
  <2>1. Sym \subseteq LineSym
    BY DEF Sym, LineSym
  <2>2. TypeField \in LineSym
    <3>1. "type=" \in Word
      BY DEF Word
    <3>2. "receiver" \in Message \cup {"receiver"}
      OBVIOUS
    <3>3. \A a \in Word, b \in Message \cup {"receiver"} : [s |-> a, of |-> b, at |-> 0] \in LineSym
      BY DEF LineSym
    <3>4. QED
      BY <3>1, <3>2, <3>3 DEF TypeField
  <2>3. QED
    BY <2>1, <2>2
<1>4. q \in Seq(LineSym)
  BY <1>3, SeqMonotonic
<1> DEFINE A == First(q)
           B == LastPart(q)
<1>5. /\ A \in Seq(LineSym) /\ Len(A) = k - 1
      /\ \A i \in 1..k - 1 : A[i] = q[i]
  <2>1. \A i \in 1..k - 1 : q[i] \in LineSym
    BY <1>3, <1>4
  <2>2. /\ SubSeq(q, 1, k - 1) \in Seq(LineSym)
        /\ Len(SubSeq(q, 1, k - 1)) = IF 1 <= k - 1 THEN (k - 1) - 1 + 1 ELSE 0
        /\ \A i \in 1..(k - 1) - 1 + 1 : SubSeq(q, 1, k - 1)[i] = q[1 + i - 1]
    BY <2>1, SubSeqProperties
  <2>3. QED
    BY <1>1, <1>3, <2>2
<1>6. /\ B \in Seq(LineSym) /\ Len(B) = Len(q) - k0
      /\ \A i \in 1..Len(q) - k0 : B[i] = q[k0 + i]
  <2>1. \A i \in k0 + 1..Len(q) : q[i] \in LineSym
    BY <1>3, <1>4
  <2>2. /\ SubSeq(q, k0 + 1, Len(q)) \in Seq(LineSym)
        /\ Len(SubSeq(q, k0 + 1, Len(q))) = IF k0 + 1 <= Len(q) THEN Len(q) - (k0 + 1) + 1 ELSE 0
        /\ \A i \in 1..Len(q) - (k0 + 1) + 1 : SubSeq(q, k0 + 1, Len(q))[i] = q[(k0 + 1) + i - 1]
    BY <1>3, <2>1, SubSeqProperties
  <2>3. QED
    BY <1>2, <1>3, <2>2
<1> HIDE DEF A, B
<1> DEFINE BT == B \o <<TypeField>>
<1>7. /\ BT \in Seq(LineSym) /\ Len(BT) = (Len(q) - k0) + 1
      /\ \A i \in 1..Len(q) - k0 : BT[i] = q[k0 + i]
      /\ BT[(Len(q) - k0) + 1] = TypeField
  <2>1. <<TypeField>> \in Seq(LineSym) /\ Len(<<TypeField>>) = 1 /\ <<TypeField>>[1] = TypeField
    BY <1>3
  <2>2. /\ BT \in Seq(LineSym) /\ Len(BT) = Len(B) + Len(<<TypeField>>)
        /\ \A i \in 1..Len(B) + Len(<<TypeField>>) :
             BT[i] = IF i <= Len(B) THEN B[i] ELSE <<TypeField>>[i - Len(B)]
    BY <1>6, <2>1, ConcatProperties
  <2> HIDE DEF BT
  <2>3. Len(BT) = (Len(q) - k0) + 1
    BY <1>6, <2>1, <2>2
  <2>4. \A i \in 1..Len(q) - k0 : i \in 1..Len(B) + 1 /\ i <= Len(B)
    BY <1>3, <1>6
  <2>5. \A i \in 1..Len(q) - k0 : BT[i] = q[k0 + i]
    BY <1>6, <2>1, <2>2, <2>4
  <2>6. Len(B) + 1 \in 1..Len(B) + 1 /\ ~(Len(B) + 1 <= Len(B)) /\ (Len(B) + 1) - Len(B) = 1
    BY <1>3, <1>6
  <2>7. BT[Len(B) + 1] = <<TypeField>>[1]
    BY <2>1, <2>2, <2>6
  <2>8. QED
    BY <1>6, <2>1, <2>2, <2>3, <2>5, <2>7
<1>8. l = [type |-> type, text |-> BT \o A]
  BY DEF format_audit_msg, A, B
<1> HIDE DEF BT, l
<1> DEFINE X == BT \o A
<1>9. /\ X \in Seq(LineSym) /\ Len(X) = Len(BT) + Len(A)
      /\ \A i \in 1..Len(BT) + Len(A) : X[i] = IF i <= Len(BT) THEN BT[i] ELSE A[i - Len(BT)]
  BY <1>5, <1>7, ConcatProperties
<1> HIDE DEF X
<1>10. l.text = X /\ l.type = type /\ l \in LineType
  BY <1>8, <1>9 DEF LineType, X
<1>11. Len(X) = (Len(q) - k0) + k
  BY <1>3, <1>5, <1>7, <1>9
<1>12. ASSUME NEW i \in 1..Len(q) - k0 PROVE X[i] = q[k0 + i]
  <2>1. i \in 1..Len(BT) + Len(A) /\ i <= Len(BT)
    BY <1>3, <1>5, <1>7
  <2>2. QED
    BY <1>7, <1>9, <2>1
<1>13. X[(Len(q) - k0) + 1] = TypeField
  <2>1. Len(BT) \in 1..Len(BT) + Len(A) /\ Len(BT) <= Len(BT)
    BY <1>3, <1>5, <1>7
  <2>2. X[Len(BT)] = BT[Len(BT)]
    BY <1>9, <2>1
  <2>3. QED
    BY <1>7, <2>2
<1>14. ASSUME NEW i \in 1..k - 1 PROVE X[(Len(q) - k0) + 1 + i] = q[i]
  <2> DEFINE n == (Len(q) - k0) + 1 + i
  <2>1. n \in 1..Len(BT) + Len(A) /\ ~(n <= Len(BT)) /\ n - Len(BT) = i
    BY <1>3, <1>5, <1>7
  <2> HIDE DEF n
  <2>2. X[n] = A[i]
    BY <1>9, <2>1
  <2>3. QED
    BY <1>5, <2>2 DEF n
<1>15. QED
  <2>1. Laid(X, q, k, k0)
    BY <1>1, <1>2, <1>9, <1>11, <1>12, <1>13, <1>14 DEF Laid
  <2>2. QED
    BY <1>10, <2>1 DEF l

\* The places of the text of a line: after the last comma, the type, before the first.
LEMMA Places ==
  ASSUME NEW n \in Nat, NEW k \in 1..n + 1, NEW k0 \in 0..n, NEW p \in 1..(n - k0) + k
  PROVE  \/ p \in 1..n - k0 /\ k0 + p \in 1..n
         \/ p = (n - k0) + 1
         \/ \E i \in 1..k - 1 : p = (n - k0) + 1 + i /\ i \in 1..n
<1>1. CASE p <= (n - k0) + 1
  BY <1>1
<1>2. CASE p > (n - k0) + 1
  <2>1. p - ((n - k0) + 1) \in 1..k - 1 /\ p = (n - k0) + 1 + (p - ((n - k0) + 1))
    BY <1>2
  <2>2. p - ((n - k0) + 1) \in 1..n
    BY <2>1
  <2>3. QED
    BY <2>1, <2>2
<1>3. QED
  BY <1>1, <1>2

\* All of a line but the type is text of q, and all before the first comma is in it.
LEMMA OwnIs ==
  ASSUME NEW q \in Seq(Sym), NEW l \in LineType,
         NEW k \in 1..Len(q) + 1, NEW k0 \in 0..Len(q), Laid(l.text, q, k, k0)
  PROVE  /\ \A x \in Own(l) : \E i \in 1..Len(q) : x = q[i]
         /\ q # <<>> /\ q[1].s # COMMA => q[1] \in Own(l)
<1>1. /\ k <= Len(q) => q[k].s = COMMA
      /\ Len(l.text) = (Len(q) - k0) + k
      /\ \A i \in 1..Len(q) - k0 : l.text[i] = q[k0 + i]
      /\ l.text[(Len(q) - k0) + 1] = TypeField
      /\ \A i \in 1..k - 1 : l.text[(Len(q) - k0) + 1 + i] = q[i]
  BY DEF Laid
<1>2. Len(q) \in Nat /\ l.text \in Seq(LineSym) /\ DOMAIN l.text = 1..Len(l.text)
  BY DEF LineType
<1>3. ASSUME NEW x \in Own(l) PROVE \E i \in 1..Len(q) : x = q[i]
  <2>1. PICK p \in 1..Len(l.text) : x = l.text[p]
    BY <1>2, <1>3 DEF Own, ToSet
  <2>2. x # TypeField
    BY <1>3 DEF Own
  <2>3. p \in 1..(Len(q) - k0) + k
    BY <1>1, <2>1
  <2>4. \/ p \in 1..Len(q) - k0 /\ k0 + p \in 1..Len(q)
        \/ p = (Len(q) - k0) + 1
        \/ \E i \in 1..k - 1 : p = (Len(q) - k0) + 1 + i /\ i \in 1..Len(q)
    BY <1>2, <2>3, Places, ZenonT(60)
  <2>5. QED
    BY <1>1, <2>1, <2>2, <2>4
<1>4. ASSUME q # <<>>, q[1].s # COMMA PROVE q[1] \in Own(l)
  <2>1. Len(q) >= 1
    BY <1>4
  <2>2. k # 1
    BY <1>1, <1>2, <1>4, <2>1
  <2> DEFINE p == (Len(q) - k0) + 1 + 1
  <2>3. 1 \in 1..k - 1 /\ p \in 1..Len(l.text)
    BY <1>1, <1>2, <2>2
  <2>4. l.text[p] = q[1]
    BY <1>1, <2>3
  <2>5. q[1] # TypeField
    <3>1. q[1] \in Sym
      BY <2>1
    <3>2. q[1].s \in Word /\ q[1].of \in Message /\ q[1].at \in Nat \ {0}
      BY <3>1 DEF Sym
    <3>3. QED
      BY <3>2 DEF TypeField
  <2> HIDE DEF p
  <2>6. QED
    BY <1>2, <2>3, <2>4, <2>5 DEF Own, ToSet
<1>5. QED
  BY <1>3, <1>4

\* A line: symbols of one message that was sent, as they were or parted.
LEMMA LineOf ==
  ASSUME NEW q, NEW S, NEW C, Run(q, S, C), \A i \in 1..Len(q) : q[i].s # NL,
         NEW i \in 1..Len(q)
  PROVE  /\ q[1].of \in S /\ q[1].of \in Message
         /\ q[i].of = q[1].of /\ q[i].at = q[1].at + (i - 1)
         /\ q[i].at \in 1..Len(Text[q[1].of])
         /\ q[i].s \in {Text[q[1].of][q[i].at], "part"}
         /\ q[i].s = "part" => q[1].of \in C
<1>1. /\ Len(q) \in Nat
      /\ \A j \in 1..Len(q) : q[j].s \in Word /\ q[j].of \in Message /\ q[j].at \in Nat \ {0}
  BY RunFields
<1>2. q[i].of = q[1].of /\ q[i].at = q[1].at + (i - 1)
  BY SameLine
<1>3. Genuine(q[i], S, C) /\ q[i].s # NL
  BY DEF Run
<1>4. q[i].of \in Message
  BY <1>1
<1>5. QED
  BY <1>2, <1>3, <1>4 DEF Genuine

\* What passes the tests comes of an audit record.
LEMMA LineOfRecord ==
  ASSUME NEW q, NEW S, NEW C, Run(q, S, C), \A i \in 1..Len(q) : q[i].s # NL,
         Has(q, "audit"), NEW w \in Keywords, Has(q, w)
  PROVE  q # <<>> /\ 1 \in 1..Len(q) /\ q[1].of \in Audit
<1>1. Len(q) \in Nat /\ DOMAIN q = 1..Len(q)
  BY RunFields
<1>2. PICK p \in 1..Len(q) : q[p].s = "audit"
  BY <1>1 DEF Has
<1>3. PICK r \in 1..Len(q) : q[r].s = w
  BY <1>1 DEF Has
<1>4. q # <<>> /\ 1 \in 1..Len(q)
  BY <1>1, <1>2
<1> DEFINE m == q[1].of
<1>5. m \in Message /\ q[p].at \in 1..Len(Text[m]) /\ q[p].s \in {Text[m][q[p].at], "part"}
  BY LineOf
<1>6. q[r].at \in 1..Len(Text[m]) /\ q[r].s \in {Text[m][q[r].at], "part"}
  BY LineOf
<1>7. w # "part"
  BY DEF Keywords
<1>8. Text[m][q[p].at] = "audit" /\ Text[m][q[r].at] = w
  BY <1>2, <1>3, <1>5, <1>6, <1>7
<1>9. DOMAIN Text[m] = 1..Len(Text[m])
  BY <1>5, Texts
<1> HIDE DEF m
<1>10. "audit" \in ToSet(Text[m]) /\ w \in ToSet(Text[m])
  BY <1>5, <1>6, <1>8, <1>9 DEF ToSet
<1>11. m \in Audit
  BY <1>5, <1>10, OtherAssumption
<1>12. QED
  BY <1>4, <1>11 DEF m

\* It begins with its record, unless the record mentions "audit" again.
LEMMA TranslatedFromStart ==
  ASSUME NEW q, NEW S, NEW C, Run(q, S, C), \A i \in 1..Len(q) : q[i].s # NL,
         Has(q, "audit"), NEW w \in Keywords, Has(q, w), NEW type \in Word
  PROVE  FromStart(format_audit_msg(type, q))
<1>1. /\ q \in Seq(Sym) /\ Len(q) \in Nat /\ DOMAIN q = 1..Len(q)
      /\ \A j \in 1..Len(q) : q[j].s \in Word /\ q[j].of \in Message /\ q[j].at \in Nat \ {0}
  BY RunFields
<1>2. q # <<>> /\ 1 \in 1..Len(q) /\ q[1].of \in Audit
  BY LineOfRecord
<1> DEFINE l == format_audit_msg(type, q)
           m == q[1].of
<1>3. PICK k \in 1..Len(q) + 1, k0 \in 0..Len(q) : l \in LineType /\ Laid(l.text, q, k, k0)
  BY <1>1, FormatText
<1> HIDE DEF l
<1>4. /\ \A x \in Own(l) : \E i \in 1..Len(q) : x = q[i]
      /\ q # <<>> /\ q[1].s # COMMA => q[1] \in Own(l)
  BY <1>1, <1>3, OwnIs
<1>5. \A x \in Own(l) : x.of = m
  <2>1. \A i \in 1..Len(q) : q[i].of = q[1].of
    BY LineOf
  <2>2. QED
    BY <1>4, <2>1
<1>6. PICK p \in 1..Len(q) : q[p].s = "audit"
  BY <1>1 DEF Has
<1>7. /\ m \in Message /\ q[p].at = q[1].at + (p - 1) /\ q[p].at \in 1..Len(Text[m])
      /\ q[p].s \in {Text[m][q[p].at], "part"}
  BY LineOf
<1>8. CASE q[p].at = 1
  <2>1. q[1].at \in Nat \ {0} /\ p \in Nat \ {0}
    BY <1>1, <1>2, <1>6
  <2>2. p = 1 /\ q[1].at = 1
    BY <1>7, <1>8, <2>1, SMTT(30)
  <2>3. q[1].s # COMMA
    BY <1>6, <2>2 DEF COMMA
  <2>4. q[1] \in Own(l)
    BY <1>2, <1>4, <2>3
  <2>5. QED
    BY <1>2, <1>5, <2>2, <2>4 DEF FromStart, l
<1>9. CASE q[p].at # 1
  <2>1. Len(Text[m]) \in Nat
    BY <1>7, Texts
  <2>2. q[p].at \in 2..Len(Text[m])
    BY <1>7, <1>9, <2>1
  <2>3. Text[m][q[p].at] = "audit"
    BY <1>6, <1>7
  <2>4. QED
    BY <1>2, <1>5, <2>2, <2>3 DEF FromStart, l
<1>10. QED
  BY <1>8, <1>9

\* A part of a command has neither a parted argument nor the type of a line in it.
LEMMA CommandWords ==
  ASSUME NEW t \in Heartbeat, NEW P \in SubSeqs(Command[t])
  PROVE  /\ P \in Seq(STRING)
         /\ \A i \in 1..Len(P) : P[i] \notin {"part", "type="}
<1>1. Command[t] \in Seq(STRING) /\ ToSet(Command[t]) \cap {"part", "type="} = {}
  BY TranslationAssumption
<1>2. PICK a \in 0..Len(Command[t]), b \in 0..Len(Command[t]) : P = SubSeq(Command[t], a + 1, b)
  BY DEF SubSeqs
<1>3. Len(Command[t]) \in Nat /\ DOMAIN Command[t] = 1..Len(Command[t])
  BY <1>1
<1>4. \A i \in a + 1..b : Command[t][i] \in STRING /\ Command[t][i] \in ToSet(Command[t])
  <2>1. \A i \in a + 1..b : i \in 1..Len(Command[t])
    BY <1>2, <1>3
  <2>2. \A i \in 1..Len(Command[t]) : Command[t][i] \in STRING
    BY <1>1, ElementOfSeq
  <2>3. \A i \in 1..Len(Command[t]) : Command[t][i] \in ToSet(Command[t])
    BY <1>3 DEF ToSet
  <2>4. QED
    BY <2>1, <2>2, <2>3
<1>5. \A i \in a + 1..b : Command[t][i] \in STRING \ {"part", "type="}
  BY <1>1, <1>4
<1>6. P \in Seq(STRING \ {"part", "type="})
  BY <1>2, <1>3, <1>5, SubSeqProperties
<1>7. \A i \in 1..Len(P) : P[i] \in STRING \ {"part", "type="}
  BY <1>6, ElementOfSeq
<1>8. QED
  BY <1>6, <1>7, SeqMonotonic

\* What logmatch() reads in a line: all that follows the first "proctitle".
LEMMA ProctitleIs ==
  ASSUME NEW l \in LineType, Has(l.text, "proctitle")
  PROVE  \E f \in 1..Len(l.text) :
           /\ l.text[f].s = "proctitle"
           /\ \A j \in 1..Len(l.text) : j < f => l.text[j].s # "proctitle"
           /\ \A i \in 1..Len(l.text) - f : Proctitle(l)[i] = l.text[f + i].s
           /\ Proctitle(l) \in Seq(Word) /\ Len(Proctitle(l)) = Len(l.text) - f
<1> DEFINE F == Where(l.text, "proctitle")
           f == Min(F)
           n == Len(l.text)
           P == Proctitle(l)
<1>1. l.text \in Seq(LineSym) /\ n \in Nat /\ DOMAIN l.text = 1..n
  BY DEF LineType
<1>2. F \subseteq 1..n /\ F # {}
  BY <1>1 DEF Where, Has
<1>3. f \in F /\ \A j \in F : f <= j
  <2>1. F \subseteq Nat
    BY <1>1, <1>2
  <2> HIDE DEF F
  <2>2. QED
    BY <1>2, <2>1, MinOf
<1>4. P = [i \in 1..n - (f + 1) + 1 |-> l.text[(f + 1) + i - 1].s]
  BY DEF Proctitle
<1> HIDE DEF P, f
<1>5. f \in 1..n /\ l.text[f].s = "proctitle"
  BY <1>2, <1>3 DEF Where
<1>6. ASSUME NEW j \in 1..n, j < f PROVE l.text[j].s # "proctitle"
  <2>1. j \notin F
    BY <1>1, <1>3, <1>5, <1>6
  <2>2. QED
    BY <1>1, <2>1 DEF Where
<1> HIDE DEF n, F
<1>7. n - (f + 1) + 1 = n - f /\ n - f \in Nat
  BY <1>1, <1>5
<1>8. P = [i \in 1..n - f |-> l.text[(f + 1) + i - 1].s]
  BY <1>4, <1>7
<1>9. ASSUME NEW i \in 1..n - f PROVE P[i] = l.text[f + i].s /\ l.text[f + i].s \in Word
  <2>1. (f + 1) + i - 1 = f + i /\ f + i \in 1..n
    BY <1>1, <1>5
  <2>2. P[i] = l.text[f + i].s
    BY <1>8, <2>1
  <2>3. l.text[f + i] \in LineSym
    BY <1>1, <2>1, ElementOfSeq DEF n
  <2>4. QED
    BY <2>2, <2>3 DEF LineSym
<1>10. P \in [1..n - f -> Word]
  BY <1>8, <1>9
<1>11. P \in Seq(Word) /\ Len(P) = n - f
  BY <1>7, <1>10
<1>12. QED
  BY <1>5, <1>6, <1>9, <1>11 DEF n, P

\* A line in which logmatch() finds the command of a task has the whole of what
\* its record shows, and none of it cut: with less of it there is no comma, and what
\* is read goes on with the type that format_audit_msg() has put in.
LEMMA TranslatedReads ==
  ASSUME NEW q, NEW S, NEW C, Run(q, S, C), \A i \in 1..Len(q) : q[i].s # NL,
         Has(q, "audit"), NEW w \in Keywords, Has(q, w), NEW type \in Word,
         NEW t \in Heartbeat, Reads(format_audit_msg(type, q), t)
  PROVE  Shown(format_audit_msg(type, q), t)
<1>1. q \in Seq(Sym) /\ Len(q) \in Nat /\ DOMAIN q = 1..Len(q)
  BY RunFields
<1>2. 1 \in 1..Len(q) /\ q[1].of \in Audit
  BY LineOfRecord
<1> DEFINE l == format_audit_msg(type, q)
           m == q[1].of
           x == l.text
           P == Proctitle(l)
<1>3. PICK k \in 1..Len(q) + 1, k0 \in 0..Len(q) : l \in LineType /\ Laid(x, q, k, k0)
  BY <1>1, FormatText
<1>4. Has(x, "proctitle") /\ P \in SubSeqs(Command[t])
  BY DEF Reads
<1> HIDE DEF l
<1>5. PICK f \in 1..Len(x) :
        /\ x[f].s = "proctitle"
        /\ \A j \in 1..Len(x) : j < f => x[j].s # "proctitle"
        /\ \A i \in 1..Len(x) - f : P[i] = x[f + i].s
        /\ P \in Seq(Word) /\ Len(P) = Len(x) - f
  BY <1>3, <1>4, ProctitleIs
<1>6. P \in Seq(STRING) /\ \A i \in 1..Len(P) : P[i] \notin {"part", "type="}
  BY <1>4, CommandWords
<1> DEFINE N == Len(q) - k0
<1>7. /\ \A i \in 1..Len(q) : i < k => q[i].s # COMMA
      /\ k <= Len(q) => q[k].s = COMMA
      /\ k0 > 0 => q[k0].s = COMMA
      /\ Len(x) = N + k
      /\ \A i \in 1..N : x[i] = q[k0 + i]
      /\ x[N + 1] = TypeField
      /\ \A i \in 1..k - 1 : x[N + 1 + i] = q[i]
  BY <1>3 DEF Laid
<1>8. N \in Nat /\ N <= Len(q)
  BY <1>1
<1> HIDE DEF x, P
<1>9. TypeField.s = "type="
  BY DEF TypeField
<1>10. f > N + 1
  <2>1. f # N + 1
    BY <1>5, <1>7, <1>9
  <2>2. ASSUME f <= N PROVE FALSE
    <3>1. (N + 1) - f \in 1..Len(x) - f /\ f + ((N + 1) - f) = N + 1
      BY <1>7, <1>8, <2>2
    <3>2. P[(N + 1) - f] = "type="
      BY <1>5, <1>7, <1>9, <3>1
    <3>3. QED
      BY <1>5, <1>6, <3>1, <3>2
  <2>3. QED
    BY <1>8, <2>1, <2>2
<1> DEFINE p == f - (N + 1)
<1>11. p \in 1..k - 1 /\ f = N + 1 + p /\ p \in 1..Len(q)
  BY <1>1, <1>7, <1>8, <1>10, SMTT(30)
<1>12. q[p].s = "proctitle"
  BY <1>5, <1>7, <1>11
<1>13. k <= Len(q)
  <2> SUFFICES ASSUME k > Len(q) PROVE FALSE
    BY <1>1
  <2>1. k0 = 0
    BY <1>1, <1>7
  <2>2. p \in 1..N /\ x[p] = q[p] /\ p \in 1..Len(x) /\ p < f
    BY <1>1, <1>7, <1>8, <1>11, <2>1
  <2>3. QED
    BY <1>5, <1>12, <2>2
<1> HIDE DEF p, N
<1>14. q[k].s = COMMA /\ k \in 1..Len(q) /\ p < k
  BY <1>1, <1>7, <1>11, <1>13
<1>15. ASSUME NEW i \in 1..(k - 1) - p PROVE P[i] = q[p + i].s /\ q[p + i].s # "part"
  <2>1. f + i = N + 1 + (p + i) /\ p + i \in 1..k - 1 /\ i \in 1..Len(x) - f
    BY <1>7, <1>8, <1>11
  <2>2. P[i] = q[p + i].s
    BY <1>5, <1>7, <2>1
  <2>3. QED
    BY <1>5, <1>6, <2>1, <2>2
<1>16. Len(P) = (k - 1) - p
  <2>1. Len(P) = Len(x) - f /\ Len(x) = N + k
    BY <1>5, <1>7
  <2>2. f = N + 1 + p /\ p \in Nat /\ N \in Nat /\ k \in Nat
    BY <1>8, <1>11
  <2>3. QED
    BY <2>1, <2>2
<1> DEFINE j  == q[p].at
           kk == q[k].at
<1>17. m \in S /\ m \in Message
  BY <1>2, LineOf
<1>18. Len(Text[m]) \in Nat /\ DOMAIN Text[m] = 1..Len(Text[m]) /\ Text[m] \in Seq(STRING)
  BY <1>17, Texts
<1>19. \A i \in 1..Len(q) :
         /\ q[i].at = q[1].at + (i - 1)
         /\ q[i].at \in 1..Len(Text[m])
         /\ q[i].s \in {Text[m][q[i].at], "part"}
  BY LineOf
<1>20. q[1].at \in Nat
  BY <1>2, <1>18, <1>19
<1>21. /\ j \in 1..Len(Text[m]) /\ kk \in 1..Len(Text[m]) /\ kk = j + (k - p) /\ j < kk
       /\ \A i \in 1..k - p : q[p + i].at = j + i
  <2>1. j \in 1..Len(Text[m]) /\ kk \in 1..Len(Text[m])
    BY <1>11, <1>14, <1>19
  <2>2. p \in Nat /\ k \in Nat
    BY <1>11, <1>14
  <2>3. \A i \in 0..k - p : q[p + i].at = q[1].at + ((p + i) - 1)
    <3>1. \A i \in 0..k - p : p + i \in 1..Len(q)
      BY <1>1, <1>11, <1>14
    <3>2. QED
      BY <1>19, <3>1
  <2>4. j = q[1].at + (p - 1) /\ kk = q[1].at + (k - 1)
    BY <1>11, <1>14, <1>19
  <2> DEFINE a == q[1].at
  <2>5. a \in Nat /\ j = a + (p - 1) /\ kk = a + (k - 1)
    BY <1>20, <2>4
  <2>6. ASSUME NEW i \in 1..k - p PROVE q[p + i].at = j + i
    <3>0. i \in 0..k - p
      BY <2>2
    <3>1. q[p + i].at = a + ((p + i) - 1)
      BY <2>3, <3>0
    <3> HIDE DEF a, j
    <3>2. a + ((p + i) - 1) = j + i
      BY <2>2, <2>5
    <3>3. QED
      BY <3>1, <3>2
  <2>7. kk = j + (k - p) /\ j < kk
    <3> HIDE DEF a, j, kk
    <3>1. QED
      BY <1>14, <2>2, <2>5
  <2>8. QED
    BY <2>1, <2>6, <2>7
<1>22. Text[m][j] = "proctitle" /\ Text[m][kk] = COMMA
  BY <1>11, <1>12, <1>14, <1>19 DEF COMMA
<1> HIDE DEF j, kk, m
<1>23. ASSUME NEW i \in 1..(k - 1) - p PROVE Text[m][j + i] = P[i] /\ Text[m][j + i] # COMMA
  <2>1. p + i \in 1..Len(q) /\ p + i < k /\ i \in 1..k - p
    BY <1>1, <1>11, <1>14
  <2>2. q[p + i].s = Text[m][j + i]
    BY <1>15, <1>19, <1>21, <2>1
  <2>3. QED
    BY <1>7, <1>15, <2>1, <2>2
<1>24. ASSUME NEW i \in j..kk - 1 PROVE Text[m][i] # COMMA
  <2>1. CASE i = j
    BY <1>22, <2>1 DEF COMMA
  <2>2. CASE i # j
    <3>1. i - j \in 1..(k - 1) - p /\ j + (i - j) = i
      BY <1>1, <1>11, <1>14, <1>18, <1>21, <2>2
    <3>2. QED
      BY <1>23, <3>1
  <2>3. QED
    BY <2>1, <2>2
<1> DEFINE R == SubSeq(Text[m], j + 1, kk - 1)
<1>25. R = P
  <2>1. \A i \in j + 1..kk - 1 : Text[m][i] \in STRING
    <3>1. \A i \in j + 1..kk - 1 : i \in 1..Len(Text[m])
      BY <1>18, <1>21
    <3>2. QED
      BY <1>18, <3>1, ElementOfSeq
  <2>2. j + 1 \in Int /\ kk - 1 \in Int
    BY <1>18, <1>21
  <2>3. /\ R \in Seq(STRING)
        /\ Len(R) = IF j + 1 <= kk - 1 THEN (kk - 1) - (j + 1) + 1 ELSE 0
        /\ \A i \in 1..(kk - 1) - (j + 1) + 1 : R[i] = Text[m][(j + 1) + i - 1]
    <3> DEFINE txt == Text[m]
               a   == j + 1
               b   == kk - 1
    <3>1. a \in Int /\ b \in Int /\ \A i \in a..b : txt[i] \in STRING
      BY <2>1, <2>2
    <3> HIDE DEF txt, a, b
    <3>2. /\ SubSeq(txt, a, b) \in Seq(STRING)
          /\ Len(SubSeq(txt, a, b)) = IF a <= b THEN b - a + 1 ELSE 0
          /\ \A i \in 1..b - a + 1 : SubSeq(txt, a, b)[i] = txt[a + i - 1]
      BY <3>1, SubSeqProperties
    <3>3. QED
      BY <3>2 DEF txt, a, b
  <2> HIDE DEF R
  <2>4. Len(R) = Len(P) /\ (kk - 1) - (j + 1) + 1 = (k - 1) - p
    <3>1. j \in Nat /\ p \in Nat /\ k \in Nat /\ p < k /\ kk = j + (k - p)
      BY <1>11, <1>14, <1>18, <1>21
    <3>2. (kk - 1) - (j + 1) + 1 = (k - 1) - p
      BY <3>1
    <3>3. Len(R) = (k - 1) - p
      <4>1. Len(R) = IF j + 1 <= kk - 1 THEN (kk - 1) - (j + 1) + 1 ELSE 0
        BY <2>3
      <4>2. QED
        BY <3>1, <4>1
    <3>4. QED
      BY <1>16, <3>2, <3>3
  <2>5. ASSUME NEW i \in 1..Len(R) PROVE R[i] = P[i]
    <3>1. i \in 1..(k - 1) - p /\ (j + 1) + i - 1 = j + i
      BY <1>16, <1>18, <1>21, <2>4
    <3>2. QED
      BY <1>23, <2>3, <2>4, <3>1
  <2>6. QED
    BY <1>6, <2>3, <2>4, <2>5, SeqEqual
<1>26. P # <<>>
  <2>1. j + 1 \in 1..Len(Text[m]) /\ Text[m][j + 1] # COMMA
    BY <1>2, <1>18, <1>21, <1>22, RecordAssumption DEF m
  <2>2. kk # j + 1
    BY <1>22, <2>1
  <2>3. (k - 1) - p > 0
    BY <1>11, <1>14, <1>18, <1>21, <2>2
  <2>4. QED
    BY <1>16, <2>3
<1>27. ASSUME NEW n \in j..kk - 1 PROVE Symbol(m, n) \in Own(l)
  <2> DEFINE i == n - j
             g == N + 1 + (p + i)
  <2>1. /\ i \in 0..(k - 1) - p /\ p + i \in 1..Len(q) /\ p + i \in 1..k - 1
        /\ g \in 1..Len(x) /\ j + i = n /\ (i = 0 => n = j)
    BY <1>1, <1>7, <1>8, <1>11, <1>14, <1>18, <1>21
  <2>2. x[g] = q[p + i]
    BY <1>7, <2>1
  <2> HIDE DEF i, g
  <2>3. q[p + i].at = n /\ q[p + i].s # "part"
    <3>1. CASE i = 0
      <4>1. p + i = p
        BY <1>11, <3>1
      <4>2. QED
        BY <1>12, <2>1, <3>1, <4>1 DEF j
    <3>2. CASE i # 0
      <4>1. i \in 1..(k - 1) - p /\ i \in 1..k - p
        BY <1>11, <1>14, <2>1, <3>2
      <4>2. QED
        BY <1>15, <1>21, <2>1, <4>1
    <3>3. QED
      BY <3>1, <3>2
  <2>4. q[p + i].s = Text[m][n]
    BY <1>19, <2>1, <2>3
  <2>5. q[p + i].of = m
    BY <2>1, LineOf DEF m
  <2>6. q[p + i] \in Sym
    BY <1>1, <2>1, ElementOfSeq
  <2>7. q[p + i] = Symbol(m, n)
    BY <2>3, <2>4, <2>5, <2>6 DEF Sym, Symbol
  <2>8. q[p + i] # TypeField
    <3>1. q[p + i].at \in Nat \ {0}
      BY <2>6 DEF Sym
    <3>2. TypeField.at = 0
      BY DEF TypeField
    <3>3. QED
      BY <3>1, <3>2
  <2>9. x \in Seq(LineSym) /\ DOMAIN x = 1..Len(x)
    BY <1>3 DEF LineType, x
  <2>10. x[g] \in ToSet(x)
    BY <2>1, <2>9 DEF ToSet
  <2>11. QED
    BY <2>2, <2>7, <2>8, <2>10 DEF Own, x
<1>28. j + 1 < kk
  <2>1. (k - 1) - p > 0
    <3>1. Len(P) # 0
      BY <1>6, <1>26, EmptySeq
    <3>2. QED
      BY <1>11, <1>14, <1>16, <3>1
  <2>2. QED
    BY <1>11, <1>14, <1>18, <1>21, <2>1
<1>29. m \in Audit
  BY <1>2 DEF m
<1>30. HasCommand(l, m, Command[t])
  <2>1. j \in DOMAIN Text[m] /\ kk \in DOMAIN Text[m]
    BY <1>18, <1>21
  <2>2. R \in SubSeqs(Command[t])
    BY <1>4, <1>25 DEF P
  <2>3. QED
    BY <1>22, <1>24, <1>27, <1>28, <2>1, <2>2 DEF HasCommand
<1>31. QED
  BY <1>29, <1>30 DEF Shown, l

-----------------------------------------------------------------------------
\* The tests look for the keywords, each once, and for "syscall" first.
LEMMA TestsAre ==
  /\ DOMAIN Tests = 1..7 /\ Tests[1] = "syscall"
  /\ \A i \in 1..7 : Tests[i] \in Keywords
  /\ \A w \in Keywords : \E i \in 1..7 : Tests[i] = w
  /\ \A i, j \in 1..7 : Tests[i] = Tests[j] => i = j
<1>1. DOMAIN Tests = 1..7
  BY DEF Tests
<1>2. /\ Tests[1] = "syscall" /\ Tests[2] = "proctitle" /\ Tests[3] = "saddr" /\ Tests[4] = "cwd"
      /\ Tests[5] = "item" /\ Tests[6] = "op=start" /\ Tests[7] = "op=add_rule"
  BY DEF Tests
<1>3. \A i \in 1..7 : i = 1 \/ i = 2 \/ i = 3 \/ i = 4 \/ i = 5 \/ i = 6 \/ i = 7
  OBVIOUS
<1>4. \A i \in 1..7 : Tests[i] \in Keywords
  BY <1>2, <1>3 DEF Keywords
<1>5. \A w \in Keywords : \E i \in 1..7 : Tests[i] = w
  <2>1. 1 \in 1..7 /\ 2 \in 1..7 /\ 3 \in 1..7 /\ 4 \in 1..7 /\ 5 \in 1..7 /\ 6 \in 1..7 /\ 7 \in 1..7
    OBVIOUS
  <2>2. QED
    BY <1>2, <2>1 DEF Keywords
<1>6. \A i, j \in 1..7 : Tests[i] = Tests[j] => i = j
  BY <1>2, <1>3
<1>7. QED
  BY <1>1, <1>2, <1>4, <1>5, <1>6

\* The line that is kept, if one is, has the type of the first test it passes.
LEMMA TranslatedIs ==
  ASSUME NEW q
  PROVE  \/ Translated(q) = <<>>
         \/ /\ Has(q, "audit")
            /\ \E h \in 1..7 : /\ Has(q, Tests[h])
                               /\ Translated(q) = <<format_audit_msg(Tests[h], q)>>
<1> DEFINE hits == {i \in DOMAIN Tests : Has(q, Tests[i])}
<1>1. Translated(q) = IF hits # {} /\ Has(q, "audit")
                        THEN <<format_audit_msg(Tests[Min(hits)], q)>> ELSE <<>>
  BY DEF Translated
<1>2. ASSUME hits # {} PROVE Min(hits) \in 1..7 /\ Has(q, Tests[Min(hits)])
  <2>1. hits \subseteq Nat
    BY TestsAre
  <2>2. Min(hits) \in hits
    <3> HIDE DEF hits
    <3>1. QED
      BY <1>2, <2>1, MinOf
  <2>3. QED
    BY <2>2, TestsAre
<1> HIDE DEF hits
<1>3. CASE hits # {} /\ Has(q, "audit")
  BY <1>1, <1>2, <1>3
<1>4. CASE ~(hits # {} /\ Has(q, "audit"))
  BY <1>1, <1>4
<1>5. QED
  BY <1>3, <1>4

\* A plain record that is parsed whole is kept under its own type.
LEMMA WholeTranslated ==
  ASSUME NEW m \in Audit, Plain(m), TypeOf(m) # "none"
  PROVE  Translated(Symbols(m)) = <<format_audit_msg(TypeOf(m), Symbols(m))>>
<1> DEFINE q == Symbols(m)
           T == Text[m]
           K == {i \in DOMAIN T : T[i] \in Keywords}
           hits == {i \in DOMAIN Tests : Has(q, Tests[i])}
<1>1. m \in Message
  BY TranslationAssumption
<1>2. T \in Seq(STRING) /\ Len(T) \in Nat /\ DOMAIN T = 1..Len(T)
  BY <1>1, Texts
<1>3. q \in Seq(Sym) /\ Len(q) = Len(T) /\ DOMAIN q = 1..Len(T) /\ \A i \in 1..Len(T) : q[i].s = T[i]
  <2>1. Run(q, {m}, {}) /\ Len(q) = Len(T) /\ \A i \in 1..Len(T) : q[i].s = T[i]
    BY <1>1, SymbolsRun
  <2> HIDE DEF q
  <2>2. QED
    BY <2>1, RunFields
<1>4. K # {} /\ TypeOf(m) = T[Min(K)]
  BY DEF TypeOf
<1>5. Min(K) \in K /\ \A j \in K : Min(K) <= j
  <2>1. K \subseteq Nat
    BY <1>2
  <2> HIDE DEF K
  <2>2. QED
    BY <1>4, <2>1, MinOf
<1> DEFINE f == Min(K)
<1>6. f \in 1..Len(T) /\ T[f] \in Keywords /\ \A j \in 1..Len(T) : T[j] \in Keywords => f <= j
  BY <1>2, <1>5
<1>7. \A w : Has(q, w) <=> \E j \in 1..Len(T) : T[j] = w
  <2> HIDE DEF q, T
  <2>1. QED
    BY <1>3 DEF Has
<1> HIDE DEF q, K, f
<1>8. T # <<>> /\ T[1] = "audit"
  BY RecordAssumption
<1>9. 1 \in 1..Len(T)
  BY <1>2, <1>6
<1>10. Has(q, "audit")
  BY <1>7, <1>8, <1>9
<1>11. PICK h \in 1..7 : Tests[h] = T[f]
  BY <1>6, TestsAre
<1>12. h \in hits
  BY <1>6, <1>7, <1>11, TestsAre
<1>13. ASSUME NEW i \in hits PROVE h <= i
  <2>1. i \in 1..7 /\ Tests[i] \in Keywords
    BY <1>13, TestsAre
  <2>2. PICK j \in 1..Len(T) : T[j] = Tests[i]
    BY <1>7, <1>13
  <2>3. CASE T[j] = T[f]
    <3>1. Tests[i] = Tests[h]
      BY <1>11, <2>2, <2>3
    <3>2. i = h
      BY <2>1, <3>1, TestsAre
    <3>3. QED
      BY <3>2
  <2>4. CASE T[j] # T[f]
    <3>1. f <= j /\ f # j
      BY <1>6, <2>1, <2>2, <2>4
    <3>2. f < j
      BY <1>2, <1>6, <3>1
    <3>3. T[f] \in {"syscall", T[j]}
      BY <1>2, <1>6, <2>1, <2>2, <3>2 DEF Plain
    <3>4. Tests[h] = Tests[1]
      BY <1>11, <2>4, <3>3, TestsAre
    <3>5. h = 1
      BY <3>4, TestsAre
    <3>6. QED
      BY <2>1, <3>5
  <2>5. QED
    BY <2>3, <2>4
<1>14. hits \subseteq Nat
  BY TestsAre
<1>15. Translated(q) = IF hits # {} /\ Has(q, "audit")
                         THEN <<format_audit_msg(Tests[Min(hits)], q)>> ELSE <<>>
  BY DEF Translated
<1> HIDE DEF hits
<1>16. Min(hits) \in hits /\ \A i \in hits : Min(hits) <= i
  BY <1>12, <1>14, MinOf
<1>17. Min(hits) = h
  <2>1. Min(hits) \in Nat /\ Min(hits) <= h
    BY <1>12, <1>14, <1>16
  <2>2. h <= Min(hits)
    BY <1>13, <1>16
  <2>3. QED
    BY <2>1, <2>2
<1>18. Translated(q) = <<format_audit_msg(T[f], q)>>
  BY <1>10, <1>11, <1>12, <1>15, <1>17
<1>19. QED
  BY <1>4, <1>18 DEF q, f

\* The line made of a plain record: all its text but the comma.
LEMMA PlainFormat ==
  ASSUME NEW m \in Message, Plain(m), NEW type
  PROVE  \E k \in DOMAIN Text[m] :
           /\ Text[m][k] = COMMA
           /\ format_audit_msg(type, Symbols(m)).type = type
           /\ format_audit_msg(type, Symbols(m)).text
                = SubSeq(Symbols(m), k + 1, Len(Text[m]))
                    \o <<TypeField>> \o SubSeq(Symbols(m), 1, k - 1)
<1> DEFINE q == Symbols(m)
<1>1. Len(Text[m]) \in Nat /\ DOMAIN Text[m] = 1..Len(Text[m])
  BY Texts
<1>2. Len(q) = Len(Text[m]) /\ \A i \in 1..Len(Text[m]) : q[i].s = Text[m][i]
  BY SymbolsRun
<1>3. q \in Seq(Sym)
  BY SymbolsRun DEF Run
<1>4. PICK k \in DOMAIN Text[m] : \A i \in DOMAIN Text[m] : Text[m][i] = COMMA <=> i = k
  BY DEF Plain
<1> HIDE DEF q
<1>5. k \in 1..Len(q) /\ \A i \in 1..Len(q) : q[i].s = COMMA <=> i = k
  BY <1>1, <1>2, <1>4
<1>6. First(q) = SubSeq(q, 1, k - 1)
  <2>1. PICK a \in 1..Len(q) + 1 :
          /\ First(q) = SubSeq(q, 1, a - 1)
          /\ \A i \in 1..Len(q) : i < a => q[i].s # COMMA
          /\ a <= Len(q) => q[a].s = COMMA
    BY <1>3, FirstIs
  <2>2. a <= k
    BY <1>1, <1>2, <1>5, <2>1
  <2>3. a \in 1..Len(q) /\ q[a].s = COMMA
    BY <1>1, <1>2, <1>5, <2>1, <2>2
  <2>4. QED
    BY <1>5, <2>1, <2>3
<1>7. LastPart(q) = SubSeq(q, k + 1, Len(q))
  <2>1. PICK b \in 0..Len(q) :
          /\ LastPart(q) = SubSeq(q, b + 1, Len(q))
          /\ b > 0 => q[b].s = COMMA
          /\ \A i \in 1..Len(q) : q[i].s = COMMA => i <= b
    BY <1>3, LastPartIs
  <2>2. k <= b
    BY <1>5, <2>1
  <2>3. b \in 1..Len(q) /\ q[b].s = COMMA
    BY <1>1, <1>2, <1>5, <2>1, <2>2
  <2>4. QED
    BY <1>5, <2>1, <2>3
<1>8. Text[m][k] = COMMA
  BY <1>4
<1>9. /\ format_audit_msg(type, q).type = type
      /\ format_audit_msg(type, q).text
           = SubSeq(q, k + 1, Len(Text[m])) \o <<TypeField>> \o SubSeq(q, 1, k - 1)
  BY <1>2, <1>6, <1>7 DEF format_audit_msg
<1>10. QED
  BY <1>8, <1>9 DEF q

-----------------------------------------------------------------------------
\* What recv() returns and what it leaves, when it ends inside a symbol: both parts
\* are of the record that it has cut.
LEMMA RecvInside ==
  ASSUME NEW q, NEW S, NEW C, Run(q, S, C), Begins(q, C), NEW n \in 0..Len(q) - 1,
         q[n + 1].s # NL
  PROVE  LET got  == Received(q, n, TRUE)
             rest == Rest(q, n, TRUE)
             C2   == C \cup CutBy(got, rest)
         IN /\ Run(got, S, C2) /\ Begins(got, C2) /\ got # <<>>
            /\ Run(rest, S, C2) /\ Begins(rest, C2)
            /\ rest[1].s # NL
            /\ got[1].s = NL => q # <<>> /\ q[1].s = NL /\ got[1].of = q[1].of
<1> DEFINE got  == Received(q, n, TRUE)
           rest == Rest(q, n, TRUE)
           C2   == C \cup CutBy(got, rest)
           y == q[n + 1]
           z == Part(y)
           A == SubSeq(q, 1, n)
           B == SubSeq(q, n + 2, Len(q))
<1>1. q \in Seq(Sym) /\ Len(q) \in Nat /\ n + 1 \in 1..Len(q) /\ n \in Nat
  BY RunFields
<1>2. Genuine(y, S, C) /\ y \in Sym
  BY <1>1 DEF Run, Genuine
<1>3. z \in Sym /\ z.s = "part" /\ z.of = y.of /\ z.at = y.at
  <2>1. "part" \in Word
    BY DEF Word
  <2> HIDE DEF y
  <2>2. QED
    BY <1>2, <2>1 DEF Part, Sym
<1>4. got = A \o <<z>> /\ rest = <<z>> \o B
  BY DEF Received, Rest
<1> DEFINE D == C \cup {y.of}
<1> HIDE DEF got, rest, z, A, B
<1>5. z.s # NL
  BY <1>3 DEF NL
<1>6. Genuine(z, S, D)
  BY <1>2, <1>3, <1>5 DEF Genuine
<1>7. Run(<<z>>, S, D) /\ Len(<<z>>) = 1 /\ <<z>>[1] = z /\ <<z>> # <<>>
  <2> HIDE DEF D
  <2>1. Run(<<z>>, S, D) /\ Len(<<z>>) = 1 /\ <<z>>[1] = z
    BY <1>6, OneRun
  <2>2. QED
    BY <2>1
<1>8. Run(q, S, D)
  BY RunMonotone
<1>9. Run(A, S, D) /\ Len(A) = n /\ \A i \in 1..n : A[i] = q[i]
  <2>1. 1 \in 1..Len(q) + 1 /\ n \in 0..Len(q)
    BY <1>1
  <2>2. /\ Run(A, S, D) /\ Len(A) = IF 1 <= n THEN n - 1 + 1 ELSE 0
        /\ \A i \in 1..n - 1 + 1 : A[i] = q[1 + i - 1]
    <3> HIDE DEF D
    <3>1. QED
      BY <1>8, <2>1, PartRun DEF A
  <2>3. QED
    BY <1>1, <2>2
<1>10. Run(B, S, D) /\ Len(B) \in Nat /\ (B # <<>> => n + 2 <= Len(q) /\ B[1] = q[(n + 1) + 1])
  <2>1. n + 2 \in 1..Len(q) + 1 /\ Len(q) \in 0..Len(q)
    BY <1>1
  <2>2. /\ Run(B, S, D) /\ Len(B) = IF n + 2 <= Len(q) THEN Len(q) - (n + 2) + 1 ELSE 0
        /\ \A i \in 1..Len(q) - (n + 2) + 1 : B[i] = q[(n + 2) + i - 1]
    <3> HIDE DEF D
    <3>1. QED
      BY <1>8, <2>1, PartRun DEF B
  <2>3. B \in Seq(Sym)
    BY <2>2 DEF Run
  <2>4. ASSUME B # <<>> PROVE n + 2 <= Len(q) /\ B[1] = q[(n + 1) + 1]
    <3>1. Len(B) # 0
      BY <2>3, <2>4
    <3>2. n + 2 <= Len(q) /\ 1 \in 1..Len(q) - (n + 2) + 1 /\ (n + 2) + 1 - 1 = (n + 1) + 1
      BY <1>1, <2>2, <3>1
    <3>3. QED
      BY <2>2, <3>2
  <2>5. QED
    BY <1>1, <2>2, <2>4
<1>11. A # <<>> => Follows(A[Len(A)], <<z>>[1])
  <2> SUFFICES ASSUME A # <<>> PROVE Follows(A[Len(A)], z)
    BY <1>7
  <2>1. A \in Seq(Sym)
    BY <1>9 DEF Run
  <2>2. n # 0
    BY <1>9, <2>1
  <2>3. n \in 1..Len(q) - 1 /\ A[Len(A)] = q[n]
    BY <1>1, <1>9, <2>2
  <2>4. Follows(q[n], y)
    BY <2>3 DEF Run
  <2>5. QED
    BY <1>3, <2>3, <2>4 DEF Follows
<1>12. B # <<>> => Follows(<<z>>[1], B[1])
  <2> SUFFICES ASSUME B # <<>> PROVE Follows(z, B[1])
    BY <1>7
  <2>1. n + 1 \in 1..Len(q) - 1 /\ B[1] = q[(n + 1) + 1]
    BY <1>1, <1>10
  <2>2. Follows(y, B[1])
    BY <2>1 DEF Run
  <2>3. QED
    BY <1>3, <1>5, <2>2 DEF Follows
<1>13. /\ Run(got, S, D) /\ Len(got) = n + 1 /\ got[n + 1] = z
       /\ \A i \in 1..n : got[i] = q[i]
  <2>1. /\ Run(A \o <<z>>, S, D) /\ Len(A \o <<z>>) = Len(A) + Len(<<z>>)
        /\ \A i \in 1..Len(A) : (A \o <<z>>)[i] = A[i]
        /\ \A i \in 1..Len(<<z>>) : (A \o <<z>>)[Len(A) + i] = <<z>>[i]
    <3> HIDE DEF D
    <3>1. QED
      BY <1>7, <1>9, <1>11, JoinedRun
  <2> DEFINE X == A \o <<z>>
  <2>2. Run(X, S, D) /\ Len(X) = n + 1 /\ \A i \in 1..n : X[i] = q[i]
    BY <1>7, <1>9, <2>1
  <2>3. 1 \in 1..Len(<<z>>) /\ Len(A) + 1 = n + 1
    BY <1>7, <1>9
  <2>4. X[n + 1] = z
    BY <1>7, <2>1, <2>3
  <2> HIDE DEF X, D
  <2>5. QED
    BY <1>4, <2>2, <2>4 DEF X
<1>14. Run(rest, S, D) /\ Len(rest) >= 1 /\ rest[1] = z
  <2>1. /\ Run(<<z>> \o B, S, D) /\ Len(<<z>> \o B) = Len(<<z>>) + Len(B)
        /\ \A i \in 1..Len(<<z>>) : (<<z>> \o B)[i] = <<z>>[i]
    <3> HIDE DEF D
    <3>1. QED
      BY <1>7, <1>10, <1>12, JoinedRun
  <2>2. QED
    BY <1>4, <1>7, <1>10, <2>1
<1>15. got # <<>> /\ rest # <<>> /\ Head(rest) = z
  <2>1. got \in Seq(Sym) /\ rest \in Seq(Sym)
    BY <1>13, <1>14 DEF Run
  <2>2. QED
    BY <1>1, <1>13, <1>14, <2>1
<1>16. C2 = D
  BY <1>3, <1>5, <1>13, <1>15 DEF CutBy
<1>17. got[1] = z \/ (n >= 1 /\ got[1] = q[1])
  BY <1>1, <1>13
<1>18. q # <<>>
  BY <1>1
<1>19. Begins(got, D)
  BY <1>3, <1>17, <1>18 DEF Begins
<1>20. Begins(rest, D)
  BY <1>3, <1>14 DEF Begins
<1>21. QED
  BY <1>5, <1>13, <1>14, <1>15, <1>16, <1>17, <1>18, <1>19, <1>20 DEF got, rest

\* The same when it ends after a symbol: what is left begins with a record, with the
\* rest of the record that it has cut, or with the end of a line that it has not.
LEMMA RecvAfter ==
  ASSUME NEW q, NEW S, NEW C, Run(q, S, C), Begins(q, C), NEW n \in 1..Len(q)
  PROVE  LET got  == Received(q, n, FALSE)
             rest == Rest(q, n, FALSE)
             C2   == C \cup CutBy(got, rest)
         IN /\ Run(got, S, C2) /\ Begins(got, C2) /\ got # <<>>
            /\ Run(rest, S, C2) /\ Begins(rest, C2)
            /\ rest # <<>> /\ rest[1].s = NL =>
                 /\ got[Len(got)].of = rest[1].of
                 /\ got[Len(got)].at = Len(Text[rest[1].of])
            /\ got[1].s = NL => q # <<>> /\ q[1].s = NL /\ got[1].of = q[1].of
<1> DEFINE got  == Received(q, n, FALSE)
           rest == Rest(q, n, FALSE)
           C2   == C \cup CutBy(got, rest)
<1>1. q \in Seq(Sym) /\ Len(q) \in Nat
  BY RunFields
<1>2. /\ Run(SubSeq(q, 1, n), S, C) /\ Len(SubSeq(q, 1, n)) = n
      /\ \A i \in 1..n : SubSeq(q, 1, n)[i] = q[i]
  <2>1. 1 \in 1..Len(q) + 1 /\ n \in 0..Len(q)
    BY <1>1
  <2>2. /\ Run(SubSeq(q, 1, n), S, C)
        /\ Len(SubSeq(q, 1, n)) = IF 1 <= n THEN n - 1 + 1 ELSE 0
        /\ \A i \in 1..n - 1 + 1 : SubSeq(q, 1, n)[i] = q[1 + i - 1]
    BY <2>1, PartRun
  <2>3. QED
    BY <2>2
<1>3. /\ Run(SubSeq(q, n + 1, Len(q)), S, C)
      /\ SubSeq(q, n + 1, Len(q)) # <<>> => n < Len(q) /\ SubSeq(q, n + 1, Len(q))[1] = q[n + 1]
  <2> DEFINE B == SubSeq(q, n + 1, Len(q))
  <2>1. n + 1 \in 1..Len(q) + 1 /\ Len(q) \in 0..Len(q)
    BY <1>1
  <2>2. /\ Run(B, S, C) /\ Len(B) = IF n + 1 <= Len(q) THEN Len(q) - (n + 1) + 1 ELSE 0
        /\ \A i \in 1..Len(q) - (n + 1) + 1 : B[i] = q[(n + 1) + i - 1]
    BY <2>1, PartRun
  <2> HIDE DEF B
  <2>3. B \in Seq(Sym)
    BY <2>2 DEF Run
  <2>4. ASSUME B # <<>> PROVE n < Len(q) /\ B[1] = q[n + 1]
    <3>1. Len(B) # 0
      BY <2>3, <2>4
    <3>2. n < Len(q) /\ 1 \in 1..Len(q) - (n + 1) + 1 /\ (n + 1) + 1 - 1 = n + 1
      BY <1>1, <2>2, <3>1
    <3>3. QED
      BY <2>2, <3>2
  <2>5. QED
    BY <2>2, <2>4 DEF B
<1>4. got = SubSeq(q, 1, n)
  <2>1. got = SubSeq(q, 1, n) \o <<>> /\ SubSeq(q, 1, n) \in Seq(Sym)
    BY <1>2 DEF Received, Run
  <2>2. QED
    BY <2>1, ConcatEmptySeq
<1>5. rest = SubSeq(q, n + 1, Len(q))
  <2>1. rest = <<>> \o SubSeq(q, n + 1, Len(q)) /\ SubSeq(q, n + 1, Len(q)) \in Seq(Sym)
    BY <1>3 DEF Rest, Run
  <2>2. QED
    BY <2>1, ConcatEmptySeq
<1>6. /\ Run(got, S, C) /\ got \in Seq(Sym) /\ Len(got) = n /\ got[n] = q[n] /\ got[1] = q[1]
      /\ got # <<>>
  <2> HIDE DEF got
  <2>1. Run(got, S, C) /\ Len(got) = n /\ \A i \in 1..n : got[i] = q[i]
    BY <1>2, <1>4
  <2>2. n \in 1..n /\ 1 \in 1..n
    BY <1>1
  <2>3. got \in Seq(Sym)
    BY <2>1 DEF Run
  <2>4. got # <<>>
    BY <2>1, <2>2, <2>3
  <2>5. QED
    BY <2>1, <2>2, <2>3, <2>4
<1>7. /\ Run(rest, S, C) /\ rest \in Seq(Sym)
      /\ rest # <<>> => n < Len(q) /\ rest[1] = q[n + 1] /\ Head(rest) = q[n + 1]
  <2>1. Run(rest, S, C) /\ rest \in Seq(Sym) /\ (rest # <<>> => n < Len(q) /\ rest[1] = q[n + 1])
    BY <1>3, <1>5 DEF Run
  <2>2. Head(rest) = rest[1]
    BY <2>1
  <2>3. QED
    BY <2>1, <2>2
<1> HIDE DEF got, rest
<1>8. q # <<>>
  BY <1>1
<1>9. Run(got, S, C2) /\ Run(rest, S, C2)
  BY <1>6, <1>7, RunMonotone
<1>10. Begins(got, C2)
  BY <1>6, <1>8 DEF Begins
<1>11. ASSUME rest # <<>>
       PROVE  /\ rest[1].at = 1 \/ rest[1].s = NL \/ rest[1].of \in C2
              /\ rest[1].s = NL => /\ got[Len(got)].of = rest[1].of
                                   /\ got[Len(got)].at = Len(Text[rest[1].of])
  <2>1. n \in 1..Len(q) - 1 /\ n + 1 \in 1..Len(q) /\ rest[1] = q[n + 1] /\ Head(rest) = q[n + 1]
    BY <1>1, <1>7, <1>11
  <2>2. Follows(q[n], q[n + 1]) /\ Genuine(q[n + 1], S, C)
    BY <2>1 DEF Run
  <2>3. CASE q[n].s = NL
    <3>1. q[n + 1].at = 1
      BY <2>2, <2>3 DEF Follows
    <3>2. q[n + 1].s # NL
      <4> SUFFICES ASSUME q[n + 1].s = NL PROVE FALSE
        OBVIOUS
      <4>1. q[n + 1].of \in Audit /\ 1 = Len(Text[q[n + 1].of]) + 1
        BY <2>2, <3>1 DEF Genuine
      <4>2. Text[q[n + 1].of] # <<>> /\ q[n + 1].of \in Message
        BY <4>1, RecordAssumption, TranslationAssumption
      <4>3. Text[q[n + 1].of] \in Seq(STRING)
        BY <4>2, Texts
      <4>4. QED
        BY <4>1, <4>2, <4>3
    <3>3. QED
      BY <2>1, <3>1, <3>2
  <2>4. CASE q[n].s # NL
    <3>1. q[n + 1].of = q[n].of /\ q[n + 1].at = q[n].at + 1
      BY <2>2, <2>4 DEF Follows
    <3>2. q[n + 1].s # NL => q[n + 1].of \in C2
      BY <1>6, <1>11, <2>1, <3>1 DEF CutBy
    <3>3. ASSUME q[n + 1].s = NL PROVE q[n].at = Len(Text[q[n + 1].of])
      <4>1. q[n + 1].of \in Audit /\ q[n].at + 1 = Len(Text[q[n + 1].of]) + 1
        BY <2>2, <3>1, <3>3 DEF Genuine
      <4>2. Len(Text[q[n + 1].of]) \in Nat
        BY <4>1, Texts, TranslationAssumption
      <4>3. q[n].at \in Nat
        BY <2>1, RunFields
      <4>4. \A a, b \in Nat : a + 1 = b + 1 => a = b
        OBVIOUS
      <4>5. QED
        BY <4>1, <4>2, <4>3, <4>4
    <3>4. QED
      BY <1>6, <2>1, <3>1, <3>2, <3>3
  <2>5. QED
    BY <2>3, <2>4
<1>12. Begins(rest, C2)
  BY <1>11 DEF Begins
<1>13. QED
  BY <1>6, <1>8, <1>9, <1>10, <1>11, <1>12 DEF got, rest

-----------------------------------------------------------------------------
\* A record begins with something else than its end of line.
LEMMA BeginsWithText ==
  ASSUME NEW x, NEW S, NEW C, Genuine(x, S, C), x.at = 1
  PROVE  x.s # NL
<1> SUFFICES ASSUME x.s = NL PROVE FALSE
  OBVIOUS
<1>1. x.of \in Audit /\ 1 = Len(Text[x.of]) + 1
  BY DEF Genuine
<1>2. Text[x.of] # <<>> /\ x.of \in Message
  BY <1>1, RecordAssumption, TranslationAssumption
<1>3. Text[x.of] \in Seq(STRING)
  BY <1>2, Texts
<1>4. QED
  BY <1>1, <1>2, <1>3

\* The line that is parsed next.
LEMMA LineRun ==
  ASSUME NEW q, NEW S, NEW C, Run(q, S, C)
  PROVE  /\ Run(Line(q), S, C) /\ Len(Line(q)) = LineEnd(q) - 1
         /\ \A i \in 1..LineEnd(q) - 1 : Line(q)[i] = q[i] /\ Line(q)[i].s # NL
<1> DEFINE e == LineEnd(q)
<1>1. q \in Seq(Sym) /\ Len(q) \in Nat
  BY RunFields
<1>2. e \in 1..Len(q) + 1 /\ \A i \in 1..Len(q) : i < e => q[i].s # NL
  BY <1>1, LineEndIs
<1> HIDE DEF e
<1>3. 1 \in 1..Len(q) + 1 /\ e - 1 \in 0..Len(q)
  BY <1>1, <1>2
<1> DEFINE L == SubSeq(q, 1, e - 1)
<1>4. /\ Run(L, S, C) /\ Len(L) = IF 1 <= e - 1 THEN (e - 1) - 1 + 1 ELSE 0
      /\ \A i \in 1..(e - 1) - 1 + 1 : L[i] = q[1 + i - 1]
  BY <1>3, PartRun
<1>5. Line(q) = L
  BY DEF Line, e
<1> HIDE DEF L
<1>6. Len(L) = e - 1
  BY <1>1, <1>2, <1>4
<1>7. ASSUME NEW i \in 1..e - 1 PROVE L[i] = q[i] /\ L[i].s # NL
  <2>1. i \in 1..(e - 1) - 1 + 1 /\ 1 + i - 1 = i /\ i \in 1..Len(q) /\ i < e
    BY <1>1, <1>2
  <2>2. QED
    BY <1>2, <1>4, <2>1
<1>8. QED
  BY <1>4, <1>5, <1>6, <1>7 DEF e

\* What is left after it begins with a record.
LEMMA AfterLine ==
  ASSUME NEW q, NEW S, NEW C, Run(q, S, C)
  PROVE  LET r == SubSeq(q, LineEnd(q) + 1, Len(q))
         IN /\ Run(r, S, C)
            /\ r # <<>> => /\ r[1].at = 1 /\ r[1].s # NL
                           /\ r[Len(r)] = q[Len(q)] /\ q # <<>>
            /\ r = <<>> => LineEnd(q) >= Len(q)
<1> DEFINE e == LineEnd(q)
           r == SubSeq(q, e + 1, Len(q))
<1>1. q \in Seq(Sym) /\ Len(q) \in Nat
  BY RunFields
<1>2. e \in 1..Len(q) + 1 /\ (e <= Len(q) => q[e].s = NL)
  BY <1>1, LineEndIs
<1> HIDE DEF e
<1>3. CASE e = Len(q) + 1
  <2>1. r = <<>>
    <3>1. e + 1 \in Int /\ Len(q) \in Int /\ Len(q) < e + 1
      BY <1>1, <1>3
    <3>2. QED
      BY <3>1, SubSeqEmpty
  <2>2. Run(<<>>, S, C)
    BY EmptyRun
  <2>3. LineEnd(q) >= Len(q)
    BY <1>1, <1>3 DEF e
  <2>4. QED
    BY <2>1, <2>2, <2>3 DEF e
<1>4. CASE e # Len(q) + 1
  <2>1. e + 1 \in 1..Len(q) + 1 /\ Len(q) \in 0..Len(q) /\ q[e].s = NL /\ e \in 1..Len(q)
    BY <1>1, <1>2, <1>4
  <2>2. /\ Run(r, S, C) /\ Len(r) = IF e + 1 <= Len(q) THEN Len(q) - (e + 1) + 1 ELSE 0
        /\ \A i \in 1..Len(q) - (e + 1) + 1 : r[i] = q[(e + 1) + i - 1]
    BY <2>1, PartRun
  <2> HIDE DEF r
  <2>3. r \in Seq(Sym)
    BY <2>2 DEF Run
  <2>4. ASSUME r # <<>>
        PROVE  r[1].at = 1 /\ r[1].s # NL /\ r[Len(r)] = q[Len(q)] /\ q # <<>>
    <3>1. Len(r) # 0
      BY <2>3, <2>4
    <3>2. e + 1 <= Len(q) /\ Len(r) = Len(q) - e /\ e \in 1..Len(q) - 1
      BY <1>1, <2>1, <2>2, <3>1
    <3>3. 1 \in 1..Len(q) - (e + 1) + 1 /\ (e + 1) + 1 - 1 = e + 1 /\ e + 1 \in 1..Len(q)
      BY <1>1, <2>1, <3>2
    <3>4. r[1] = q[e + 1]
      BY <2>2, <3>3
    <3>5. /\ Len(r) \in 1..Len(q) - (e + 1) + 1
          /\ (e + 1) + Len(r) - 1 = Len(q)
      BY <1>1, <2>1, <3>2
    <3>6. r[Len(r)] = q[Len(q)]
      BY <2>2, <3>5
    <3>7. Follows(q[e], q[e + 1]) /\ Genuine(q[e + 1], S, C)
      BY <3>2, <3>3 DEF Run
    <3>8. q[e + 1].at = 1
      BY <2>1, <3>7 DEF Follows
    <3>9. q[e + 1].s # NL
      BY <3>7, <3>8, BeginsWithText
    <3>10. q # <<>>
      BY <1>1, <2>1
    <3>11. QED
      BY <3>4, <3>6, <3>8, <3>9, <3>10
  <2>5. ASSUME r = <<>> PROVE e >= Len(q)
    <3>1. Len(r) = 0
      BY <2>5
    <3>2. QED
      BY <1>1, <2>1, <2>2, <3>1
  <2>6. QED
    BY <2>2, <2>4, <2>5 DEF e, r
<1>5. QED
  BY <1>3, <1>4

\* A line as long as its message, which was not cut, is the message.
LEMMA WholeLine ==
  ASSUME NEW q, NEW S, NEW C, Run(q, S, C), Begins(q, C), q # <<>>,
         LineEnd(q) > 1, q[1].of \notin C, LineEnd(q) - 1 = Len(Text[q[1].of])
  PROVE  Line(q) = Symbols(q[1].of)
<1> DEFINE e == LineEnd(q)
           m == q[1].of
           L == Line(q)
           M == Symbols(m)
<1>1. q \in Seq(Sym) /\ Len(q) \in Nat
  BY RunFields
<1>2. e \in 1..Len(q) + 1 /\ \A i \in 1..Len(q) : i < e => q[i].s # NL
  BY <1>1, LineEndIs
<1>3. /\ Run(L, S, C) /\ Len(L) = e - 1
      /\ \A i \in 1..e - 1 : L[i] = q[i] /\ L[i].s # NL
  BY LineRun
<1> HIDE DEF e, L
<1>4. 1 \in 1..e - 1 /\ L[1] = q[1] /\ q[1].s # NL
  BY <1>2, <1>3 DEF e
<1>5. q[1].at = 1
  BY <1>4 DEF Begins
<1>6. \A i \in 1..Len(L) :
        /\ L[1].of \in Message
        /\ L[i].of = L[1].of /\ L[i].at = L[1].at + (i - 1)
        /\ L[i].s \in {Text[L[1].of][L[i].at], "part"}
        /\ L[i].s = "part" => L[1].of \in C
  BY <1>3, LineOf
<1>7. m \in Message
  BY <1>3, <1>4, <1>6
<1>8. /\ Run(M, {m}, {}) /\ Len(M) = Len(Text[m])
      /\ \A i \in 1..Len(Text[m]) : M[i].s = Text[m][i] /\ M[i].of = m /\ M[i].at = i
  <2> HIDE DEF m
  <2>1. m \in {m}
    OBVIOUS
  <2>2. QED
    BY <1>7, <2>1, SymbolsRun, SMTT(30)
<1> HIDE DEF M
<1>9. L \in Seq(Sym) /\ M \in Seq(Sym) /\ Len(L) = Len(M) /\ Len(L) = Len(Text[m])
  BY <1>3, <1>8 DEF Run, e
<1>10. ASSUME NEW i \in 1..Len(L) PROVE L[i] = M[i]
  <2>1. L[i].of = m /\ L[i].at = 1 + (i - 1)
    BY <1>4, <1>5, <1>6
  <2>2. L[i].at = i
    BY <2>1
  <2>3. L[i].s = Text[m][i]
    BY <1>4, <1>6, <2>2
  <2>4. L[i] \in Sym /\ M[i] \in Sym
    BY <1>9, ElementOfSeq
  <2>5. \A x, y \in Sym : x.s = y.s /\ x.of = y.of /\ x.at = y.at => x = y
    BY DEF Sym
  <2>6. QED
    BY <1>8, <1>9, <2>1, <2>2, <2>3, <2>4, <2>5
<1>11. QED
  BY <1>9, <1>10, SeqEqual DEF L, M

\* What is kept of a line.
LEMMA TranslatedType ==
  ASSUME NEW q, NEW S, NEW C, Run(q, S, C), \A i \in 1..Len(q) : q[i].s # NL
  PROVE  /\ Translated(q) \in Seq(LineType)
         /\ \A i \in 1..Len(Translated(q)) :
              /\ FromStart(Translated(q)[i])
              /\ \A t \in Heartbeat : Reads(Translated(q)[i], t) => Shown(Translated(q)[i], t)
<1>1. CASE Translated(q) = <<>>
  <2>1. <<>> \in Seq(LineType) /\ Len(<<>>) = 0
    BY EmptySeq
  <2>2. QED
    BY <1>1, <2>1
<1>2. CASE Translated(q) # <<>>
  <2>1. /\ Has(q, "audit")
        /\ \E h \in 1..7 : Has(q, Tests[h]) /\ Translated(q) = <<format_audit_msg(Tests[h], q)>>
    BY <1>2, TranslatedIs
  <2>2. PICK h \in 1..7 : Has(q, Tests[h]) /\ Translated(q) = <<format_audit_msg(Tests[h], q)>>
    BY <2>1
  <2>3. Tests[h] \in Keywords
    BY TestsAre
  <2>4. Tests[h] \in Word
    BY <2>3 DEF Word
  <2>5. q \in Seq(Sym)
    BY DEF Run
  <2> DEFINE l == format_audit_msg(Tests[h], q)
  <2>6. l \in LineType
    BY <2>4, <2>5, FormatText
  <2>7. FromStart(l)
    BY <2>1, <2>2, <2>3, <2>4, TranslatedFromStart
  <2>8. ASSUME NEW t \in Heartbeat, Reads(l, t) PROVE Shown(l, t)
    BY <2>1, <2>2, <2>3, <2>4, <2>8, TranslatedReads
  <2> HIDE DEF l
  <2>9. <<l>> \in Seq(LineType) /\ Len(<<l>>) = 1 /\ \A i \in 1..1 : <<l>>[i] = l
    BY <2>6
  <2>10. QED
    BY <2>2, <2>7, <2>8, <2>9 DEF l
<1>3. QED
  BY <1>1, <1>2

-----------------------------------------------------------------------------
\* A record and its end of line, as they are put into a batch.
LEMMA RecordRun ==
  ASSUME NEW m \in Audit, NEW S, NEW C, m \in S
  PROVE  LET r == Append(Symbols(m), Newline(m))
         IN /\ Run(r, S, C) /\ r # <<>> /\ Len(r) \in Nat \ {0}
            /\ r[1].at = 1 /\ r[1].s # NL /\ r[Len(r)].s = NL
<1> DEFINE q == Symbols(m)
           x == Newline(m)
           r == Append(q, x)
<1>1. m \in Message
  BY TranslationAssumption
<1>2. Text[m] \in Seq(STRING) /\ Len(Text[m]) \in Nat /\ Text[m] # <<>>
  BY <1>1, Texts, RecordAssumption
<1>3. Len(Text[m]) >= 1
  BY <1>2
<1>4. /\ Run(q, S, C) /\ Len(q) = Len(Text[m])
      /\ \A i \in 1..Len(Text[m]) : q[i].s = Text[m][i] /\ q[i].of = m /\ q[i].at = i
  BY <1>1, SymbolsRun
<1>5. x.s = NL /\ x.of = m /\ x.at = Len(Text[m]) + 1 /\ x \in Sym
  <2>1. NL \in Word /\ Len(Text[m]) + 1 \in Nat \ {0}
    BY <1>2 DEF Word
  <2>2. QED
    BY <1>1, <2>1 DEF Newline, Sym
<1>6. Genuine(x, S, C)
  BY <1>5 DEF Genuine, NL
<1> HIDE DEF q, x
<1>7. Run(<<x>>, S, C) /\ Len(<<x>>) = 1 /\ <<x>>[1] = x
  BY <1>6, OneRun
<1>8. q \in Seq(Sym)
  BY <1>4 DEF Run
<1>9. r = q \o <<x>>
  BY <1>5, <1>8, AppendIsConcat
<1>10. Follows(q[Len(q)], <<x>>[1])
  <2>1. Len(q) \in 1..Len(Text[m])
    BY <1>2, <1>3, <1>4
  <2>2. q[Len(q)].of = m /\ q[Len(q)].at = Len(Text[m]) /\ q[Len(q)].s = Text[m][Len(q)]
    BY <1>4, <2>1
  <2>3. q[Len(q)].s # NL
    BY <1>1, <2>1, <2>2, Texts
  <2>4. QED
    BY <1>5, <1>7, <2>2, <2>3 DEF Follows
<1>11. Run(q \o <<x>>, S, C)
  BY <1>4, <1>7, <1>10, JoinedRun
<1>12. /\ r # <<>> /\ Len(r) = Len(q) + 1
       /\ \A i \in 1..Len(q) : r[i] = q[i]
       /\ r[Len(q) + 1] = x
  BY <1>5, <1>8, AppendProperties
<1>13. Len(r) \in Nat \ {0} /\ r[Len(r)].s = NL
  BY <1>2, <1>4, <1>5, <1>12
<1> HIDE DEF r
<1>14. 1 \in 1..Len(Text[m]) /\ 1 \in 1..Len(q) /\ r[1] = q[1]
  BY <1>2, <1>3, <1>4, <1>12
<1>15. r[1].at = 1 /\ r[1].s # NL
  <2>1. r[1].at = 1 /\ r[1].s = Text[m][1]
    BY <1>4, <1>14
  <2>2. QED
    BY <1>1, <1>14, <2>1, Texts
<1>16. QED
  BY <1>9, <1>11, <1>12, <1>13, <1>15 DEF q, x, r

\* The lines are all from a beginning, and the flags set by such as show a command.
LEMMA PropertiesByLine ==
  /\ LineFromStart <=> \A i \in DOMAIN kept : FromStart(kept[i])
  /\ ConfirmedByWholeCommand <=>
       \A t \in Heartbeat : heartbeat_check[t] => \E i \in 1..matched : Shown(kept[i], t)
  BY DEF LineFromStart, FromStart, ConfirmedByWholeCommand, Shown

\* A step that leaves the lines alone leaves what is said of them.
LEMMA LinesSame ==
  ASSUME TrInv, UNCHANGED <<kept, matched, heartbeat_check, complete>>,
         cut \subseteq cut'
  PROVE  /\ ReadsInv' /\ PlainKeptWhole' /\ LineFromStart' /\ ConfirmedByWholeCommand'
         /\ \A m : Done(m) => Done(m)'
<1>1. \A m : Done(m) => Done(m)'
  BY DEF Done, KeptWhole
<1>2. ReadsInv'
  BY DEF TrInv, ReadsInv
<1>3. PlainKeptWhole'
  BY DEF TrInv, PlainKeptWhole, KeptWhole
<1>4. LineFromStart'
  BY DEF TrInv, LineFromStart
<1>5. ConfirmedByWholeCommand'
  BY DEF TrInv, ConfirmedByWholeCommand
<1>6. QED
  BY <1>1, <1>2, <1>3, <1>4, <1>5

\* A step leaves the connections alone that it is not about.
LEMMA OtherConn ==
  ASSUME TrInv, NEW d \in Conn, stream'[d] = stream[d], data'[d] = data[d],
         conn'[d] = conn[d] \/ conn'[d] # "off",
         sent \subseteq sent', cut \subseteq cut', \A m : Done(m) => Done(m)'
  PROVE  RunsAt(d)' /\ PartedAt(d)'
<1>1. RunsAt(d) /\ PartedAt(d)
  BY DEF TrInv
<1>2. Run(stream[d], sent', cut') /\ Run(data[d], sent', cut')
  BY <1>1, RunMonotone DEF RunsAt
<1>3. Begins(stream[d], cut') /\ Begins(data[d], cut')
  BY <1>1, BeginsMonotone DEF RunsAt
<1>4. RunsAt(d)'
  BY <1>1, <1>2, <1>3 DEF RunsAt
<1>5. PartedAt(d)'
  BY <1>1 DEF PartedAt
<1>6. QED
  BY <1>4, <1>5

-----------------------------------------------------------------------------
\* The first state.
LEMMA TrInitially ==
  ASSUME TrInit
  PROVE  TrInv
<1>1. <<>> \in Seq(Sym) /\ <<>> \in Seq(LineType) /\ Len(<<>>) = 0 /\ DOMAIN <<>> = {}
  BY EmptySeq
<1>2. TrTypeOK
  BY <1>1 DEF TrInit, TrTypeOK
<1>3. ASSUME NEW c \in Conn PROVE RunsAt(c) /\ PartedAt(c)
  <2>1. stream[c] = <<>> /\ data[c] = <<>>
    BY DEF TrInit
  <2>2. QED
    BY <2>1, EmptyRun DEF RunsAt, PartedAt
<1>4. ReadsInv /\ PlainKeptWhole /\ LineFromStart /\ ConfirmedByWholeCommand
  BY <1>1 DEF TrInit, ReadsInv, PlainKeptWhole, LineFromStart, ConfirmedByWholeCommand
<1>5. QED
  BY <1>2, <1>3, <1>4 DEF TrInv

\* A batch grows by whole records.
LEMMA AppendRecordStep ==
  ASSUME TrInv, NEW c \in Conn, NEW m \in Message, AppendRecord(c, m)
  PROVE  TrInv'
<1> DEFINE q == stream[c]
           r == Append(Symbols(m), Newline(m))
<1>1. /\ m \in Audit /\ conn[c] = "off"
      /\ stream' = [stream EXCEPT ![c] = q \o r]
      /\ sent' = sent \cup {m}
      /\ UNCHANGED <<conn, data, kept, matched, heartbeat_check, complete, cut>>
  BY DEF AppendRecord
<1>2. TrTypeOK /\ RunsAt(c) /\ PartedAt(c)
  BY DEF TrInv
<1>3. stream'[c] = q \o r /\ \A d \in Conn \ {c} : stream'[d] = stream[d]
  BY <1>1, <1>2 DEF TrTypeOK
<1>4. sent \subseteq sent' /\ m \in sent' /\ cut' = cut
  BY <1>1
<1>5. /\ ReadsInv' /\ PlainKeptWhole' /\ LineFromStart' /\ ConfirmedByWholeCommand'
      /\ \A k : Done(k) => Done(k)'
  BY <1>1, <1>4, LinesSame
<1>6. /\ Run(r, sent', cut) /\ r # <<>> /\ Len(r) \in Nat \ {0}
      /\ r[1].at = 1 /\ r[1].s # NL /\ r[Len(r)].s = NL
  BY <1>1, <1>4, RecordRun
<1> HIDE DEF r
<1>7. Run(q, sent', cut) /\ Begins(q, cut)
  BY <1>2, <1>4, RunMonotone DEF RunsAt
<1>8. q # <<>> => q[Len(q)].s = NL
  BY <1>1, <1>2 DEF RunsAt
<1> HIDE DEF q
<1>9. q # <<>> /\ r # <<>> => Follows(q[Len(q)], r[1])
  BY <1>6, <1>8 DEF Follows
<1> DEFINE z == q \o r
<1>10. /\ Run(z, sent', cut) /\ Len(z) = Len(q) + Len(r)
       /\ \A i \in 1..Len(q) : z[i] = q[i]
       /\ \A i \in 1..Len(r) : z[Len(q) + i] = r[i]
  BY <1>6, <1>7, <1>9, JoinedRun
<1> HIDE DEF z
<1>11. q \in Seq(Sym) /\ z \in Seq(Sym) /\ Len(q) \in Nat
  BY <1>7, <1>10, RunFields
<1>12. z[Len(z)].s = NL
  <2>1. Len(r) \in 1..Len(r)
    BY <1>6
  <2>2. QED
    BY <1>6, <1>10, <2>1
<1>13. (q = <<>> /\ z[1] = r[1]) \/ (q # <<>> /\ z[1] = q[1])
  <2>1. CASE q = <<>>
    <3>1. Len(q) = 0 /\ 1 \in 1..Len(r)
      BY <1>6, <2>1
    <3>2. z[0 + 1] = r[1]
      BY <1>10, <3>1
    <3>3. QED
      BY <2>1, <3>2
  <2>2. CASE q # <<>>
    <3>1. 1 \in 1..Len(q)
      BY <1>11, <2>2
    <3>2. QED
      BY <1>10, <2>2, <3>1
  <2>3. QED
    BY <2>1, <2>2
<1>14. Begins(z, cut)
  BY <1>6, <1>7, <1>13 DEF Begins
<1>15. TrTypeOK'
  <2>1. stream' \in [Conn -> Seq(Sym)]
    BY <1>1, <1>2, <1>11 DEF TrTypeOK, z
  <2>2. QED
    BY <1>1, <1>2, <2>1 DEF TrTypeOK
<1>16. RunsAt(c)'
  <2>1. Run(data[c], sent', cut) /\ Begins(data[c], cut)
    BY <1>2, <1>4, RunMonotone DEF RunsAt
  <2>2. stream'[c] = z /\ data' = data /\ cut' = cut
    BY <1>1, <1>3 DEF z
  <2>3. QED
    BY <1>10, <1>12, <1>14, <2>1, <2>2 DEF RunsAt
<1>17. PartedAt(c)'
  <2>1. stream'[c] = z /\ data' = data /\ cut' = cut
    BY <1>1, <1>3 DEF z
  <2>2. z[1].s = NL => q # <<>> /\ z[1] = q[1]
    BY <1>6, <1>13
  <2>3. QED
    BY <1>2, <1>5, <2>1, <2>2 DEF PartedAt, q
<1>18. ASSUME NEW d \in Conn, d # c PROVE RunsAt(d)' /\ PartedAt(d)'
  <2>1. stream'[d] = stream[d] /\ data'[d] = data[d] /\ conn'[d] = conn[d] /\ cut \subseteq cut'
    BY <1>1, <1>3, <1>18
  <2>2. QED
    BY <1>4, <1>5, <2>1, OtherConn
<1>19. QED
  BY <1>5, <1>15, <1>16, <1>17, <1>18 DEF TrInv

\* The batch is sent as it is.
LEMMA SendBatchStep ==
  ASSUME TrInv, NEW c \in Conn, SendBatch(c)
  PROVE  TrInv'
<1>1. /\ conn' = [conn EXCEPT ![c] = "open"]
      /\ UNCHANGED <<stream, data, sent, kept, matched, heartbeat_check, complete, cut>>
  BY DEF SendBatch
<1>2. TrTypeOK
  BY DEF TrInv
<1>3. /\ ReadsInv' /\ PlainKeptWhole' /\ LineFromStart' /\ ConfirmedByWholeCommand'
      /\ \A k : Done(k) => Done(k)'
  BY <1>1, LinesSame
<1>4. TrTypeOK'
  BY <1>1, <1>2 DEF TrTypeOK
<1>5. ASSUME NEW d \in Conn PROVE RunsAt(d)' /\ PartedAt(d)'
  <2>1. conn'[d] = conn[d] \/ conn'[d] # "off"
    BY <1>1, <1>2 DEF TrTypeOK
  <2>2. QED
    BY <1>1, <1>3, <2>1, OtherConn
<1>6. QED
  BY <1>3, <1>4, <1>5 DEF TrInv

\* A message that is no record has no end of line.
LEMMA SendOtherStep ==
  ASSUME TrInv, NEW c \in Conn, NEW m \in Message, SendOther(c, m)
  PROVE  TrInv'
<1> DEFINE z == Symbols(m)
<1>1. /\ conn' = [conn EXCEPT ![c] = "open"]
      /\ stream' = [stream EXCEPT ![c] = z]
      /\ sent' = sent \cup {m}
      /\ UNCHANGED <<data, kept, matched, heartbeat_check, complete, cut>>
  BY DEF SendOther
<1>2. TrTypeOK /\ RunsAt(c) /\ PartedAt(c)
  BY DEF TrInv
<1>3. sent \subseteq sent' /\ m \in sent' /\ cut' = cut
  BY <1>1
<1>4. /\ ReadsInv' /\ PlainKeptWhole' /\ LineFromStart' /\ ConfirmedByWholeCommand'
      /\ \A k : Done(k) => Done(k)'
  BY <1>1, <1>3, LinesSame
<1>5. /\ Run(z, sent', cut) /\ Len(z) = Len(Text[m])
      /\ \A i \in 1..Len(Text[m]) : z[i].s = Text[m][i] /\ z[i].of = m /\ z[i].at = i
  BY <1>3, SymbolsRun
<1> HIDE DEF z
<1>6. z \in Seq(Sym) /\ Len(z) \in Nat
  BY <1>5, RunFields
<1>7. ASSUME z # <<>> PROVE z[1].at = 1 /\ z[1].s # NL
  <2>1. 1 \in 1..Len(Text[m])
    BY <1>5, <1>6, <1>7
  <2>2. QED
    BY <1>5, <2>1, Texts
<1>8. TrTypeOK'
  <2>1. stream' \in [Conn -> Seq(Sym)] /\ conn' \in [Conn -> {"off", "open", "closed"}]
    BY <1>1, <1>2, <1>6 DEF TrTypeOK
  <2>2. QED
    BY <1>1, <1>2, <2>1 DEF TrTypeOK
<1>9. stream'[c] = z /\ conn'[c] = "open" /\ data'[c] = data[c]
  BY <1>1, <1>2 DEF TrTypeOK
<1>10. RunsAt(c)'
  <2>1. Run(data[c], sent', cut) /\ Begins(data[c], cut)
    BY <1>2, <1>3, RunMonotone DEF RunsAt
  <2>2. QED
    BY <1>3, <1>5, <1>7, <1>9, <2>1 DEF RunsAt, Begins
<1>11. PartedAt(c)'
  BY <1>2, <1>3, <1>4, <1>7, <1>9 DEF PartedAt
<1>12. ASSUME NEW d \in Conn, d # c PROVE RunsAt(d)' /\ PartedAt(d)'
  <2>1. stream'[d] = stream[d] /\ data'[d] = data[d] /\ conn'[d] = conn[d] /\ cut \subseteq cut'
    BY <1>1, <1>2, <1>12 DEF TrTypeOK
  <2>2. QED
    BY <1>3, <1>4, <2>1, OtherConn
<1>13. QED
  BY <1>4, <1>8, <1>10, <1>11, <1>12 DEF TrInv

\* Nothing is left of a stream that ends.
LEMMA CloseConnStep ==
  ASSUME TrInv, NEW c \in Conn, CloseConn(c)
  PROVE  TrInv'
<1>1. /\ conn' = [conn EXCEPT ![c] = "closed"]
      /\ stream' = [stream EXCEPT ![c] = <<>>]
      /\ UNCHANGED <<data, sent, kept, matched, heartbeat_check, complete, cut>>
  BY DEF CloseConn
<1>2. TrTypeOK /\ RunsAt(c) /\ PartedAt(c)
  BY DEF TrInv
<1>3. /\ ReadsInv' /\ PlainKeptWhole' /\ LineFromStart' /\ ConfirmedByWholeCommand'
      /\ \A k : Done(k) => Done(k)'
  BY <1>1, LinesSame
<1>4. TrTypeOK'
  <2>1. <<>> \in Seq(Sym)
    OBVIOUS
  <2>2. stream' \in [Conn -> Seq(Sym)] /\ conn' \in [Conn -> {"off", "open", "closed"}]
    BY <1>1, <1>2, <2>1 DEF TrTypeOK
  <2>3. QED
    BY <1>1, <1>2, <2>2 DEF TrTypeOK
<1>5. stream'[c] = <<>>
  BY <1>1, <1>2 DEF TrTypeOK
<1>6. RunsAt(c)'
  BY <1>1, <1>2, <1>5, EmptyRun DEF RunsAt
<1>7. PartedAt(c)'
  BY <1>1, <1>2, <1>3, <1>5 DEF PartedAt
<1>8. ASSUME NEW d \in Conn, d # c PROVE RunsAt(d)' /\ PartedAt(d)'
  <2>1. stream'[d] = stream[d] /\ data'[d] = data[d] /\ conn'[d] = conn[d]
        /\ sent \subseteq sent' /\ cut \subseteq cut'
    BY <1>1, <1>2, <1>8 DEF TrTypeOK
  <2>2. QED
    BY <1>3, <2>1, OtherConn
<1>9. QED
  BY <1>3, <1>4, <1>6, <1>7, <1>8 DEF TrInv

\* recv() takes a part of the stream, and cuts one record at most.
LEMMA RecvStep ==
  ASSUME TrInv, NEW c \in Conn, Recv(c)
  PROVE  TrInv'
<1> DEFINE q == stream[c]
<1>1. TrTypeOK /\ RunsAt(c) /\ PartedAt(c)
  BY DEF TrInv
<1>2. Run(q, sent, cut) /\ Begins(q, cut) /\ q \in Seq(Sym) /\ Len(q) \in Nat
  BY <1>1, RunFields DEF RunsAt
<1>3. /\ conn[c] = "open" /\ data[c] = <<>>
      /\ UNCHANGED <<conn, sent, kept, matched, heartbeat_check, complete>>
  BY DEF Recv
<1>4. PICK n \in 0..Min({Len(q), RECV_SIZE}), inside \in BOOLEAN :
         /\ inside => n < Len(q) /\ q[n + 1].s \notin {NL, COMMA, "part"}
         /\ Received(q, n, inside) # <<>>
         /\ data' = [data EXCEPT ![c] = Received(q, n, inside)]
         /\ stream' = [stream EXCEPT ![c] = Rest(q, n, inside)]
         /\ cut' = cut \cup CutBy(Received(q, n, inside), Rest(q, n, inside))
  BY DEF Recv
<1>5. n \in 0..Len(q)
  <2>1. {Len(q), RECV_SIZE} \subseteq Nat
    BY <1>2, TranslationAssumption
  <2>2. Min({Len(q), RECV_SIZE}) \in {Len(q), RECV_SIZE} /\ Min({Len(q), RECV_SIZE}) <= Len(q)
    BY <2>1, MinOf
  <2>3. Min({Len(q), RECV_SIZE}) \in Nat
    BY <2>1, <2>2
  <2>4. QED
    BY <1>2, <1>4, <2>2, <2>3
<1> DEFINE got  == Received(q, n, inside)
           rest == Rest(q, n, inside)
<1>6. /\ Run(got, sent, cut') /\ Begins(got, cut') /\ got # <<>>
      /\ Run(rest, sent, cut') /\ Begins(rest, cut')
      /\ rest # <<>> /\ rest[1].s = NL =>
           /\ got[Len(got)].of = rest[1].of
           /\ got[Len(got)].at = Len(Text[rest[1].of])
      /\ got[1].s = NL => q # <<>> /\ q[1].s = NL /\ got[1].of = q[1].of
  <2> HIDE DEF q
  <2>1. CASE inside = TRUE
    <3>1. n \in 0..Len(q) - 1 /\ q[n + 1].s # NL
      BY <1>2, <1>4, <1>5, <2>1
    <3> DEFINE g == Received(q, n, TRUE)
               r == Rest(q, n, TRUE)
               C2 == cut \cup CutBy(g, r)
    <3>2. /\ Run(g, sent, C2) /\ Begins(g, C2) /\ g # <<>>
          /\ Run(r, sent, C2) /\ Begins(r, C2)
          /\ r[1].s # NL
          /\ g[1].s = NL => q # <<>> /\ q[1].s = NL /\ g[1].of = q[1].of
      BY <1>2, <3>1, RecvInside
    <3>3. got = g /\ rest = r /\ cut' = C2
      BY <1>4, <2>1
    <3> HIDE DEF g, r, C2, got, rest
    <3>4. QED
      BY <3>2, <3>3
  <2>2. CASE inside = FALSE
    <3> DEFINE g == Received(q, n, FALSE)
               r == Rest(q, n, FALSE)
               C2 == cut \cup CutBy(g, r)
    <3>1. n \in 1..Len(q)
      <4> SUFFICES ASSUME n = 0 PROVE FALSE
        BY <1>2, <1>5
      <4>1. SubSeq(q, 1, 0) = <<>>
        BY SubSeqEmpty
      <4>2. <<>> \o <<>> = <<>>
        OBVIOUS
      <4>3. Received(q, 0, FALSE) = <<>>
        BY <4>1, <4>2 DEF Received
      <4>4. QED
        BY <1>4, <2>2, <4>3
    <3>2. /\ Run(g, sent, C2) /\ Begins(g, C2) /\ g # <<>>
          /\ Run(r, sent, C2) /\ Begins(r, C2)
          /\ r # <<>> /\ r[1].s = NL =>
               /\ g[Len(g)].of = r[1].of
               /\ g[Len(g)].at = Len(Text[r[1].of])
          /\ g[1].s = NL => q # <<>> /\ q[1].s = NL /\ g[1].of = q[1].of
      BY <1>2, <3>1, RecvAfter
    <3>3. got = g /\ rest = r /\ cut' = C2
      BY <1>4, <2>2
    <3> HIDE DEF g, r, C2, got, rest
    <3>4. QED
      BY <3>2, <3>3
  <2>3. QED
    BY <2>1, <2>2
<1>7. /\ data' = [data EXCEPT ![c] = got] /\ stream' = [stream EXCEPT ![c] = rest]
      /\ cut' = cut \cup CutBy(got, rest)
  BY <1>4
<1> HIDE DEF got, rest
<1>8. got \in Seq(Sym) /\ rest \in Seq(Sym)
  BY <1>6 DEF Run
<1>9. cut \subseteq cut' /\ cut' \subseteq Message
  <2>1. rest # <<>> => Head(rest) = rest[1] /\ rest[1] \in Sym
    BY <1>8
  <2>2. \A x \in Sym : x.of \in Message
    BY DEF Sym
  <2>3. CutBy(got, rest) \subseteq Message
    BY <2>1, <2>2 DEF CutBy
  <2>4. QED
    BY <1>1, <1>7, <2>3 DEF TrTypeOK
<1>10. /\ ReadsInv' /\ PlainKeptWhole' /\ LineFromStart' /\ ConfirmedByWholeCommand'
       /\ \A k : Done(k) => Done(k)'
  BY <1>3, <1>9, LinesSame
<1>11. TrTypeOK'
  <2>1. stream' \in [Conn -> Seq(Sym)] /\ data' \in [Conn -> Seq(Sym)]
    BY <1>1, <1>7, <1>8 DEF TrTypeOK
  <2>2. QED
    BY <1>1, <1>3, <1>9, <2>1 DEF TrTypeOK
<1>12. stream'[c] = rest /\ data'[c] = got /\ conn'[c] = "open" /\ sent' = sent
  BY <1>1, <1>3, <1>7 DEF TrTypeOK
<1>13. RunsAt(c)'
  BY <1>6, <1>12 DEF RunsAt
<1>14. PartedAt(c)'
  <2>1. ASSUME NEW k, k = got[1].of, got[1].s = NL, k \notin cut' PROVE Done(k)'
    <3>1. q # <<>> /\ q[1].s = NL /\ k = q[1].of /\ q[1].of \notin cut
      BY <1>6, <1>9, <2>1
    <3>2. Done(q[1].of)
      BY <1>1, <1>3, <3>1 DEF PartedAt
    <3>3. Done(k)
      BY <3>1, <3>2
    <3>4. QED
      BY <1>10, <3>3
  <2>2. QED
    BY <1>6, <1>12, <2>1 DEF PartedAt
<1>15. ASSUME NEW d \in Conn, d # c PROVE RunsAt(d)' /\ PartedAt(d)'
  <2>1. stream'[d] = stream[d] /\ data'[d] = data[d] /\ conn'[d] = conn[d] /\ sent \subseteq sent'
    BY <1>1, <1>3, <1>7, <1>15 DEF TrTypeOK
  <2>2. QED
    BY <1>9, <1>10, <2>1, OtherConn
<1>16. QED
  BY <1>10, <1>11, <1>13, <1>14, <1>15 DEF TrInv

\* Lines are added after those that are kept.
LEMMA KeptGrows ==
  ASSUME kept \in Seq(LineType), NEW x, x \in Seq(LineType), kept' = kept \o x
  PROVE  /\ kept' \in Seq(LineType) /\ Len(kept') >= Len(kept)
         /\ \A i \in DOMAIN kept' :
              (i \in DOMAIN kept /\ kept'[i] = kept[i]) \/ \E j \in 1..Len(x) : kept'[i] = x[j]
         /\ \A j \in 1..Len(x) : \E i \in DOMAIN kept' : kept'[i] = x[j]
         /\ \A i \in 1..Len(kept) : kept'[i] = kept[i]
         /\ \A m : Done(m) => Done(m)'
<1> DEFINE z == kept \o x
<1>1. Len(kept) \in Nat /\ Len(x) \in Nat /\ DOMAIN kept = 1..Len(kept)
  OBVIOUS
<1>2. /\ z \in Seq(LineType) /\ Len(z) = Len(kept) + Len(x)
      /\ \A i \in 1..Len(kept) + Len(x) : z[i] = IF i <= Len(kept) THEN kept[i] ELSE x[i - Len(kept)]
  BY ConcatProperties
<1> HIDE DEF z
<1>3. kept' = z /\ DOMAIN z = 1..Len(kept) + Len(x)
  BY <1>2 DEF z
<1>4. ASSUME NEW i \in DOMAIN z
      PROVE  (i \in DOMAIN kept /\ z[i] = kept[i]) \/ \E j \in 1..Len(x) : z[i] = x[j]
  <2>1. CASE i <= Len(kept)
    BY <1>1, <1>2, <1>3, <2>1
  <2>2. CASE ~(i <= Len(kept))
    <3>1. i - Len(kept) \in 1..Len(x) /\ z[i] = x[i - Len(kept)]
      BY <1>1, <1>2, <1>3, <2>2
    <3>2. QED
      BY <3>1
  <2>3. QED
    BY <2>1, <2>2
<1>5. ASSUME NEW j \in 1..Len(x) PROVE \E i \in DOMAIN z : z[i] = x[j]
  <2>1. /\ Len(kept) + j \in 1..Len(kept) + Len(x) /\ ~(Len(kept) + j <= Len(kept))
        /\ (Len(kept) + j) - Len(kept) = j
    BY <1>1
  <2>2. z[Len(kept) + j] = x[j]
    BY <1>2, <2>1
  <2>3. QED
    BY <1>3, <2>1, <2>2
<1>6. \A i \in DOMAIN kept : i \in DOMAIN z /\ z[i] = kept[i]
  BY <1>1, <1>2, <1>3
<1>7. \A m : Done(m) => Done(m)'
  BY <1>3, <1>6 DEF Done, KeptWhole
<1>8. Len(z) >= Len(kept)
  BY <1>1, <1>2
<1>9. QED
  BY <1>1, <1>2, <1>3, <1>4, <1>5, <1>6, <1>7, <1>8

\* A line that is the whole of a plain record, not cut before, is kept as that record.
LEMMA WholeKept ==
  ASSUME TrInv, NEW c \in Conn, ParseLine(c), NEW m \in Audit,
         data[c][1].of = m, m \notin cut,
         LineEnd(data[c]) > 1, LineEnd(data[c]) - 1 = Len(Text[m])
  PROVE  Done(m)'
<1> DEFINE q == data[c]
<1>1. TrTypeOK /\ Run(q, sent, cut) /\ Begins(q, cut)
  BY DEF TrInv, RunsAt
<1>2. q # <<>> /\ kept' = kept \o Translated(Line(q))
  BY DEF ParseLine
<1> SUFFICES ASSUME Plain(m), TypeOf(m) # "none" PROVE KeptWhole(m)'
  BY DEF Done, Plain, TypeOf
<1>3. Line(q) = Symbols(m)
  BY <1>1, <1>2, WholeLine
<1> DEFINE l == format_audit_msg(TypeOf(m), Symbols(m))
<1>4. Translated(Line(q)) = <<l>>
  BY <1>3, WholeTranslated
<1>5. l \in LineType
  <2>1. m \in Message
    BY TranslationAssumption
  <2>2. Run(Line(q), sent, cut) /\ Len(Line(q)) = LineEnd(q) - 1
        /\ \A i \in 1..LineEnd(q) - 1 : Line(q)[i] = q[i] /\ Line(q)[i].s # NL
    BY <1>1, LineRun
  <2>3. Translated(Line(q)) \in Seq(LineType)
    BY <2>2, TranslatedType
  <2> HIDE DEF l
  <2>4. Len(<<l>>) = 1 /\ <<l>>[1] = l
    OBVIOUS
  <2>5. QED
    BY <1>4, <2>3, <2>4, ElementOfSeq
<1> HIDE DEF l
<1>6. <<l>> \in Seq(LineType) /\ 1 \in 1..Len(<<l>>) /\ <<l>>[1] = l
  BY <1>5
<1>7. kept \in Seq(LineType) /\ kept' = kept \o <<l>>
  BY <1>1, <1>2, <1>4 DEF TrTypeOK
<1>8. \A j \in 1..Len(<<l>>) : \E i \in DOMAIN kept' : kept'[i] = <<l>>[j]
  BY <1>6, <1>7, KeptGrows
<1>9. \E i \in DOMAIN kept' : kept'[i] = l
  BY <1>6, <1>8
<1>10. \E k \in DOMAIN Text[m] :
         /\ Text[m][k] = COMMA /\ l.type = TypeOf(m)
         /\ l.text = SubSeq(Symbols(m), k + 1, Len(Text[m]))
                       \o <<TypeField>> \o SubSeq(Symbols(m), 1, k - 1)
  <2>1. m \in Message
    BY TranslationAssumption
  <2>2. \A type : \E k \in DOMAIN Text[m] :
          /\ Text[m][k] = COMMA
          /\ format_audit_msg(type, Symbols(m)).type = type
          /\ format_audit_msg(type, Symbols(m)).text
               = SubSeq(Symbols(m), k + 1, Len(Text[m]))
                   \o <<TypeField>> \o SubSeq(Symbols(m), 1, k - 1)
    BY <2>1, PlainFormat
  <2>3. QED
    BY <2>2, ZenonT(60) DEF l
<1>11. QED
  BY <1>9, <1>10 DEF KeptWhole

\* Up to its end of line, or up to the end of what was received, the line that is
\* parsed holds the first symbols of its record, unless the record was cut.
LEMMA FromFirst ==
  ASSUME NEW q, NEW S, NEW C, Run(q, S, C), Begins(q, C), NEW i \in 1..Len(q),
         i <= LineEnd(q), q[i].of \notin C, i > 1 \/ q[i].s # NL
  PROVE  q[i].of = q[1].of /\ q[i].at = i
<1>1. q \in Seq(Sym) /\ Len(q) \in Nat
  BY RunFields
<1>2. LineEnd(q) \in 1..Len(q) + 1 /\ \A j \in 1..Len(q) : j < LineEnd(q) => q[j].s # NL
  BY <1>1, LineEndIs
<1>3. \A j \in 1..Len(q) : j < i => q[j].s # NL
  BY <1>1, <1>2
<1>4. q[i].of = q[1].of /\ q[i].at = q[1].at + (i - 1)
  BY <1>3, SameLine
<1>5. q[1].s # NL /\ q # <<>>
  <2>1. 1 \in 1..Len(q) /\ (i = 1 \/ 1 < i)
    BY <1>1
  <2>2. QED
    BY <1>1, <1>3, <2>1
<1>6. q[1].at = 1
  BY <1>4, <1>5 DEF Begins
<1>7. QED
  BY <1>4, <1>6

\* One turn of the loop of parseEventLog.
LEMMA ParseLineStep ==
  ASSUME TrInv, NEW c \in Conn, ParseLine(c)
  PROVE  TrInv'
<1> DEFINE q == data[c]
           e == LineEnd(q)
           L == Line(q)
           x == Translated(L)
           r == SubSeq(q, e + 1, Len(q))
           y == stream[c][1]
<1>1. TrTypeOK /\ RunsAt(c) /\ PartedAt(c)
  BY DEF TrInv
<1>2. Run(q, sent, cut) /\ Begins(q, cut) /\ q \in Seq(Sym) /\ Len(q) \in Nat
  BY <1>1, RunFields DEF RunsAt
<1>3. /\ q # <<>> /\ kept' = kept \o x
      /\ data' = [data EXCEPT ![c] = r]
      /\ complete' = complete \cup {q[i].of : i \in {e} \cap DOMAIN q}
      /\ UNCHANGED <<conn, stream, sent, matched, heartbeat_check, cut>>
  BY DEF ParseLine
<1>4. /\ e \in 1..Len(q) + 1 /\ \A i \in 1..Len(q) : i < e => q[i].s # NL
      /\ e <= Len(q) => q[e].s = NL
  BY <1>2, LineEndIs
<1>5. /\ x \in Seq(LineType)
      /\ \A i \in 1..Len(x) :
           FromStart(x[i]) /\ \A t \in Heartbeat : Reads(x[i], t) => Shown(x[i], t)
  <2>1. Run(L, sent, cut) /\ Len(L) = e - 1 /\ \A i \in 1..e - 1 : L[i] = q[i] /\ L[i].s # NL
    BY <1>2, LineRun
  <2>2. \A i \in 1..Len(L) : L[i].s # NL
    BY <2>1
  <2> HIDE DEF L
  <2>3. QED
    BY <2>1, <2>2, TranslatedType
<1> HIDE DEF x
<1>6. /\ kept' \in Seq(LineType) /\ Len(kept') >= Len(kept)
      /\ \A i \in DOMAIN kept' :
           (i \in DOMAIN kept /\ kept'[i] = kept[i]) \/ \E j \in 1..Len(x) : kept'[i] = x[j]
      /\ \A i \in 1..Len(kept) : kept'[i] = kept[i]
      /\ \A m : Done(m) => Done(m)'
  <2>1. kept \in Seq(LineType)
    BY <1>1 DEF TrTypeOK
  <2>2. QED
    BY <1>3, <1>5, <2>1, KeptGrows
<1>7. /\ Run(r, sent, cut)
      /\ r # <<>> => /\ r[1].at = 1 /\ r[1].s # NL /\ r[Len(r)] = q[Len(q)]
      /\ r = <<>> => e >= Len(q)
  BY <1>2, AfterLine
<1> HIDE DEF r
<1>8. r \in Seq(Sym) /\ Begins(r, cut)
  BY <1>7 DEF Run, Begins
<1>9. ASSUME e <= Len(q)
      PROVE  q[e].of \in Audit /\ q[e].of \in Message /\ q[e].at = Len(Text[q[e].of]) + 1
  <2>1. e \in 1..Len(q) /\ q[e].s = NL
    BY <1>2, <1>4, <1>9
  <2>2. Genuine(q[e], sent, cut)
    BY <1>2, <2>1 DEF Run
  <2>3. QED
    BY <2>1, <2>2, TranslationAssumption DEF Genuine
<1>10. TrTypeOK'
  <2>1. data' \in [Conn -> Seq(Sym)]
    BY <1>1, <1>3, <1>8 DEF TrTypeOK
  <2>2. complete' \subseteq Message
    <3>1. \A i \in {e} \cap DOMAIN q : q[i].of \in Message
      BY <1>2, <1>9
    <3>2. QED
      BY <1>1, <1>3, <3>1 DEF TrTypeOK
  <2>3. matched' \in 0..Len(kept')
    <3>1. matched \in 0..Len(kept) /\ Len(kept) \in Nat /\ Len(kept') \in Nat
      BY <1>1, <1>6 DEF TrTypeOK
    <3>2. QED
      BY <1>3, <1>6, <3>1
  <2>4. QED
    BY <1>1, <1>3, <1>6, <2>1, <2>2, <2>3 DEF TrTypeOK
<1>11. stream'[c] = stream[c] /\ data'[c] = r /\ conn' = conn /\ sent' = sent /\ cut' = cut
  BY <1>1, <1>3 DEF TrTypeOK
<1>12. RunsAt(c)'
  BY <1>1, <1>7, <1>8, <1>11 DEF RunsAt
<1>13. ASSUME NEW m \in Audit, q[1].of = m, m \notin cut, e > 1, e - 1 = Len(Text[m])
       PROVE  Done(m)'
  BY <1>13, WholeKept
<1>14. PartedAt(c)'
  <2> SUFFICES ASSUME NEW m, stream[c] # <<>>, y.s = NL, y.of = m, m \notin cut,
                      ~(Done(m)'), ~(r # <<>> /\ r[Len(r)].of = m /\ r[Len(r)].at = Len(Text[m]))
               PROVE  FALSE
    BY <1>7, <1>11 DEF PartedAt
  <2>1. ~Done(m)
    BY <1>6
  <2>2. q[Len(q)].of = m /\ q[Len(q)].at = Len(Text[m])
    BY <1>1, <2>1 DEF PartedAt
  <2>3. r = <<>> /\ e >= Len(q)
    BY <1>7, <2>2
  <2>4. m \in Audit /\ m \in Message /\ Len(Text[m]) \in Nat
    <3>1. 1 \in 1..Len(stream[c])
      BY <1>1 DEF TrTypeOK
    <3>2. Genuine(y, sent, cut)
      BY <1>1, <3>1 DEF RunsAt, Run
    <3>3. m \in Audit
      BY <3>2 DEF Genuine
    <3>4. QED
      BY <3>3, Texts, TranslationAssumption
  <2>5. Len(q) \in 1..Len(q)
    BY <1>2, <1>3
  <2>6. e = Len(q) + 1
    <3>1. ASSUME e = Len(q) PROVE FALSE
      <4>1. Len(Text[m]) = Len(Text[m]) + 1
        BY <1>2, <1>9, <2>2, <3>1
      <4>2. QED
        BY <2>4, <4>1
    <3>2. QED
      BY <1>2, <1>4, <2>3, <3>1
  <2>7. q[Len(q)].s # NL
    BY <1>2, <1>4, <2>5, <2>6
  <2>8. q[Len(q)].of = q[1].of /\ q[Len(q)].at = Len(q)
    BY <1>2, <2>2, <2>5, <2>6, <2>7, FromFirst
  <2>9. q[1].of = m /\ e > 1 /\ e - 1 = Len(Text[m])
    BY <1>2, <2>2, <2>5, <2>6, <2>8
  <2>10. QED
    BY <1>13, <2>4, <2>9
<1>15. PlainKeptWhole'
  <2> SUFFICES ASSUME NEW m \in complete' \ cut' PROVE Done(m)'
    BY DEF PlainKeptWhole, Done
  <2>1. CASE m \in complete
    <3>1. Done(m)
      BY <1>11, <2>1 DEF TrInv, PlainKeptWhole, Done
    <3>2. QED
      BY <1>6, <3>1
  <2>2. CASE m \notin complete
    <3>1. e \in 1..Len(q) /\ e <= Len(q) /\ m = q[e].of /\ m \notin cut
      BY <1>2, <1>3, <1>11, <2>2
    <3>2. m \in Audit /\ m \in Message /\ q[e].at = Len(Text[m]) + 1 /\ q[e].s = NL
      BY <1>4, <1>9, <3>1
    <3>3. CASE e = 1
      <4>1. Done(m)
        BY <1>1, <1>3, <3>1, <3>2, <3>3 DEF PartedAt
      <4>2. QED
        BY <1>6, <4>1
    <3>4. CASE e > 1
      <4>1. q[e].of = q[1].of /\ q[e].at = e
        BY <1>2, <3>1, <3>4, FromFirst
      <4>2. Len(Text[m]) \in Nat
        BY <3>2, Texts
      <4>3. q[1].of = m /\ e - 1 = Len(Text[m])
        BY <1>4, <3>1, <3>2, <4>1, <4>2
      <4>4. QED
        BY <1>13, <3>1, <3>2, <3>4, <4>3
    <3>5. QED
      BY <1>4, <3>3, <3>4
  <2>3. QED
    BY <2>1, <2>2
<1>16. LineFromStart'
  <2>1. \A i \in DOMAIN kept : FromStart(kept[i])
    BY PropertiesByLine DEF TrInv
  <2>2. \A i \in DOMAIN kept' : FromStart(kept'[i])
    BY <1>5, <1>6, <2>1
  <2>3. QED
    BY <2>2 DEF LineFromStart, FromStart
<1>17. ReadsInv'
  <2>1. \A i \in DOMAIN kept, t \in Heartbeat : Reads(kept[i], t) => Shown(kept[i], t)
    BY DEF TrInv, ReadsInv
  <2>2. \A i \in DOMAIN kept', t \in Heartbeat : Reads(kept'[i], t) => Shown(kept'[i], t)
    BY <1>5, <1>6, <2>1
  <2>3. QED
    BY <2>2 DEF ReadsInv
<1>18. ConfirmedByWholeCommand'
  <2>1. \A t \in Heartbeat : heartbeat_check[t] => \E i \in 1..matched : Shown(kept[i], t)
    BY PropertiesByLine DEF TrInv
  <2>2. \A i \in 1..matched : kept'[i] = kept[i]
    <3>1. matched \in 0..Len(kept) /\ Len(kept) \in Nat
      BY <1>1 DEF TrTypeOK
    <3>2. \A i \in 1..matched : i \in 1..Len(kept)
      BY <3>1
    <3>3. QED
      BY <1>6, <3>2
  <2>3. \A t \in Heartbeat : heartbeat_check'[t] => \E i \in 1..matched' : Shown(kept'[i], t)
    BY <1>3, <2>1, <2>2
  <2>4. QED
    BY <2>3 DEF ConfirmedByWholeCommand, Shown
<1>19. ASSUME NEW d \in Conn, d # c PROVE RunsAt(d)' /\ PartedAt(d)'
  <2>1. /\ stream'[d] = stream[d] /\ data'[d] = data[d] /\ conn'[d] = conn[d]
        /\ sent \subseteq sent' /\ cut \subseteq cut'
    BY <1>1, <1>3, <1>19 DEF TrTypeOK
  <2>2. QED
    BY <1>6, <2>1, OtherConn
<1>20. QED
  BY <1>10, <1>12, <1>14, <1>15, <1>16, <1>17, <1>18, <1>19 DEF TrInv

\* logmatch() sets a flag for what a line reads.
LEMMA LogmatchStep ==
  ASSUME TrInv, logmatch
  PROVE  TrInv'
<1>1. /\ matched < Len(kept) /\ matched' = matched + 1
      /\ heartbeat_check' = [t \in Heartbeat |-> heartbeat_check[t] \/ Reads(kept[matched + 1], t)]
      /\ UNCHANGED <<conn, stream, data, sent, kept, complete, cut>>
  BY DEF logmatch, Reads
<1>2. TrTypeOK
  BY DEF TrInv
<1>3. matched \in Nat /\ Len(kept) \in Nat /\ DOMAIN kept = 1..Len(kept)
  BY <1>2 DEF TrTypeOK
<1>4. matched + 1 \in DOMAIN kept /\ matched' \in 0..Len(kept)
  BY <1>1, <1>3
<1>5. TrTypeOK'
  <2>1. heartbeat_check' \in [Heartbeat -> BOOLEAN]
    <3>1. \A t \in Heartbeat : (heartbeat_check[t] \/ Reads(kept[matched + 1], t)) \in BOOLEAN
      BY DEF Reads
    <3>2. QED
      BY <1>1, <3>1, Zenon
  <2>2. QED
    BY <1>1, <1>2, <1>4, <2>1 DEF TrTypeOK
<1>6. ASSUME NEW d \in Conn PROVE RunsAt(d)' /\ PartedAt(d)'
  <2>1. \A m : Done(m) => Done(m)'
    BY <1>1 DEF Done, KeptWhole
  <2>2. QED
    BY <1>1, <2>1, OtherConn
<1>7. ReadsInv' /\ PlainKeptWhole' /\ LineFromStart'
  BY <1>1 DEF TrInv, ReadsInv, PlainKeptWhole, KeptWhole, LineFromStart
<1>8. ConfirmedByWholeCommand'
  <2>1. \A t \in Heartbeat : heartbeat_check[t] => \E i \in 1..matched : Shown(kept[i], t)
    BY PropertiesByLine DEF TrInv
  <2>2. \A t \in Heartbeat : Reads(kept[matched + 1], t) => Shown(kept[matched + 1], t)
    BY <1>4 DEF TrInv, ReadsInv
  <2>3. matched + 1 \in 1..matched' /\ \A i \in 1..matched : i \in 1..matched'
    BY <1>1, <1>3
  <2>4. \A t \in Heartbeat : heartbeat_check'[t] => \E i \in 1..matched' : Shown(kept[i], t)
    BY <1>1, <2>1, <2>2, <2>3
  <2>5. QED
    BY <1>1, <2>4 DEF ConfirmedByWholeCommand, Shown
<1>9. QED
  BY <1>5, <1>6, <1>7, <1>8 DEF TrInv

\* Any step.
LEMMA TrStep ==
  ASSUME TrInv, [TrNext]_trVars
  PROVE  TrInv'
<1>1. CASE TrNext
  <2>1. CASE logmatch
    BY <2>1, LogmatchStep
  <2>2. ASSUME NEW c \in Conn, Recv(c) PROVE TrInv'
    BY <2>2, RecvStep
  <2>3. ASSUME NEW c \in Conn, ParseLine(c) PROVE TrInv'
    BY <2>3, ParseLineStep
  <2>4. ASSUME NEW c \in Conn, CloseConn(c) PROVE TrInv'
    BY <2>4, CloseConnStep
  <2>5. ASSUME NEW c \in Conn, SendBatch(c) PROVE TrInv'
    BY <2>5, SendBatchStep
  <2>6. ASSUME NEW c \in Conn, NEW m \in Message, AppendRecord(c, m) PROVE TrInv'
    BY <2>6, AppendRecordStep
  <2>7. ASSUME NEW c \in Conn, NEW m \in Message, SendOther(c, m) PROVE TrInv'
    BY <2>7, SendOtherStep
  <2>8. QED
    BY <1>1, <2>1, <2>2, <2>3, <2>4, <2>5, <2>6, <2>7 DEF TrNext, TrReceiver
<1>2. CASE UNCHANGED trVars
  <2>1. UNCHANGED <<conn, stream, data, sent, kept, matched, heartbeat_check, complete, cut>>
    BY <1>2 DEF trVars
  <2>2. /\ ReadsInv' /\ PlainKeptWhole' /\ LineFromStart' /\ ConfirmedByWholeCommand'
        /\ \A m : Done(m) => Done(m)'
    BY <2>1, LinesSame
  <2>3. TrTypeOK'
    BY <2>1 DEF TrInv, TrTypeOK
  <2>4. ASSUME NEW d \in Conn PROVE RunsAt(d)' /\ PartedAt(d)'
    BY <2>1, <2>2, OtherConn
  <2>5. QED
    BY <2>2, <2>3, <2>4 DEF TrInv
<1>3. QED
  BY <1>1, <1>2

\* What is on its way, in parts or not yet parsed, is a row of runs of symbols of
\* the messages sent: the inductive invariant of the receiver's loops.
THEOREM TrInvariance == TrSpec => []TrInv
<1>1. TrInit => TrInv
  BY TrInitially
<1>2. TrInv /\ [TrNext]_trVars => TrInv'
  BY TrStep
<1>3. QED
  BY <1>1, <1>2, PTL DEF TrSpec

\* However recv() divides the stream, of the plain records only those that it ends
\* inside of are damaged: every other one that parseEventLog reads to its end is
\* kept under its own type with all its text but the comma, also when its end of
\* line comes with the next recv().
THEOREM PlainRecordsWhole == TrSpec => []PlainKeptWhole
<1>1. TrInv => PlainKeptWhole
  BY DEF TrInv
<1>2. QED
  BY <1>1, TrInvariance, PTL

\* translate_audit_log keeps lines of one audit record each, and from its beginning
\* unless the rest of it mentions "audit" again.
THEOREM LinesFromStart == TrSpec => []LineFromStart
<1>1. TrInv => LineFromStart
  BY DEF TrInv
<1>2. QED
  BY <1>1, TrInvariance, PTL

\* logmatch() confirms a task only by a line that has the command of an audit record
\* from "proctitle=" to the comma after it, none of it cut, and this command is not
\* empty and a part of the task's: neither the cuts of recv() nor other messages can
\* make up for it.
THEOREM ConfirmedByCommands == TrSpec => []ConfirmedByWholeCommand
<1>1. TrInv => ConfirmedByWholeCommand
  BY DEF TrInv
<1>2. QED
  BY <1>1, TrInvariance, PTL
=============================================================================
