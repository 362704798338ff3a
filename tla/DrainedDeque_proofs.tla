------------------------ MODULE DrainedDeque_proofs ------------------------
(***************************************************************************)
(* The buffers of the Log Receiver, for any number of threads, any number  *)
(* of records left behind and any maximum length.                          *)
(***************************************************************************)
EXTENDS DrainedDeque, FiniteSetTheorems, TLAPS

\* The sets of threads that are counted are finite, and a thread that is about
\* to pop is running.
LEMMA Counted ==
  /\ IsFiniteSet(Popping) /\ IsFiniteSet(Running) /\ IsFiniteSet(Stopped)
  /\ Cardinality(Popping) \in Nat /\ Cardinality(Running) \in Nat
  /\ Cardinality(Stopped) \in Nat
  /\ Popping \subseteq Running
  /\ Cardinality(Popping) <= Cardinality(Running)
<1>1. IsFiniteSet(Drainer) /\ Running \subseteq Drainer /\ Stopped \subseteq Drainer
      /\ Popping \subseteq Running
  BY DequeAssumption DEF Running, Stopped, Popping
<1>2. IsFiniteSet(Running) /\ IsFiniteSet(Stopped)
  BY <1>1, FS_Subset
<1>3. QED
  BY <1>1, <1>2, FS_Subset, FS_CardinalityType

\* A full deque drops one record for the one it gets.
LEMMA AppendedLen ==
  ASSUME NEW q \in Seq(Record), NEW r \in Record, Len(q) <= MAXLEN
  PROVE  /\ Appended(q, r) \in Seq(Record)
         /\ Len(Appended(q, r)) <= MAXLEN
         /\ Len(Appended(q, r)) >= Len(q)
<1>1. CASE Len(q) < MAXLEN
  BY <1>1, DequeAssumption DEF Appended
<1>2. CASE ~(Len(q) < MAXLEN)
  <2>1. q # <<>> /\ Len(q) = MAXLEN
    BY <1>2, DequeAssumption
  <2>2. Tail(q) \in Seq(Record) /\ Len(Tail(q)) = Len(q) - 1
    BY <2>1
  <2>3. QED
    BY <1>2, <2>1, <2>2, DequeAssumption DEF Appended
<1>3. QED
  BY <1>1, <1>2

\* An append.
LEMMA PutStep ==
  ASSUME DequeInv, Put
  PROVE  DequeInv'
<1>1. PICK r \in Record : deque' = Appended(deque, r)
  BY DEF Put
<1>2. /\ deque' \in Seq(Record) /\ Len(deque') <= MAXLEN
      /\ Len(deque') >= Len(deque)
  BY <1>1, AppendedLen DEF DequeInv, DequeTypeOK
<1>3. UNCHANGED <<Popping, Running, Stopped, Killed>>
  BY DEF Put, Popping, Running, Stopped, Killed
<1>4. DequeTypeOK'
  BY <1>2 DEF Put, DequeInv, DequeTypeOK
<1>5. Reserve'
  BY <1>2, <1>3, Counted, DequeAssumption DEF DequeInv, Reserve, DequeTypeOK
<1>6. Survivors'
  BY <1>3 DEF DequeInv, Survivors
<1>7. QED
  BY <1>4, <1>5, <1>6 DEF DequeInv

\* A new thread: one more that runs.
LEMMA StartStep ==
  ASSUME DequeInv, NEW d \in Drainer, Start(d)
  PROVE  DequeInv'
<1>1. DequeTypeOK'
  BY DEF DequeInv, DequeTypeOK, Start
<1>2. UNCHANGED <<Popping, Killed, Stopped>>
  BY DEF DequeInv, DequeTypeOK, Start, Popping, Killed, Stopped
<1>3. Running' = Running \cup {d} /\ d \notin Running
  BY DEF DequeInv, DequeTypeOK, Start, Running
<1>4. Cardinality(Running') = Cardinality(Running) + 1
  BY <1>3, Counted, FS_AddElement
<1>5. Reserve'
  BY <1>2, <1>4, Counted, DequeAssumption DEF DequeInv, Reserve, DequeTypeOK, Start
<1>6. Survivors'
  BY <1>2, <1>4, Counted, DequeAssumption DEF DequeInv, Survivors
<1>7. QED
  BY <1>1, <1>5, <1>6 DEF DequeInv

\* A thread that has looked: more than LOW records were there.
LEMMA CheckStep ==
  ASSUME DequeInv, NEW d \in Drainer, Check(d)
  PROVE  DequeInv'
<1>1. DequeTypeOK'
  BY DEF DequeInv, DequeTypeOK, Check
<1>2. UNCHANGED <<Running, Killed, Stopped>>
  BY DEF DequeInv, DequeTypeOK, Check, Running, Killed, Stopped
<1>3. Popping' = Popping \cup {d} /\ Popping' \subseteq Running
  BY DEF DequeInv, DequeTypeOK, Check, Popping, Running
<1>4. Cardinality(Popping') \in Nat /\ Cardinality(Popping') <= Cardinality(Running)
  BY <1>3, Counted, FS_Subset, FS_CardinalityType
<1>5. Reserve'
  BY <1>2, <1>4, Counted, DequeAssumption DEF DequeInv, Reserve, DequeTypeOK, Check
<1>6. Survivors'
  BY <1>2 DEF DequeInv, Survivors
<1>7. QED
  BY <1>1, <1>5, <1>6 DEF DequeInv

\* What both outcomes of popleft() do to the threads that are about to pop.
LEMMA OneLessPopping ==
  ASSUME DequeInv, NEW d \in Drainer, thread[d] = "pop",
         NEW s \in {"idle", "killed"}, thread' = [thread EXCEPT ![d] = s]
  PROVE  /\ d \in Popping
         /\ Cardinality(Popping') = Cardinality(Popping) - 1
<1>1. d \in Popping /\ Popping' = Popping \ {d}
  BY DEF DequeInv, DequeTypeOK, Popping
<1>2. QED
  BY <1>1, Counted, FS_RemoveElement

\* A record is taken by a thread that had looked.
LEMMA PopStep ==
  ASSUME DequeInv, NEW d \in Drainer, Pop(d)
  PROVE  DequeInv'
<1>1. deque' \in Seq(Record) /\ Len(deque') = Len(deque) - 1
  BY DEF DequeInv, DequeTypeOK, Pop
<1>2. DequeTypeOK'
  BY <1>1, DequeAssumption DEF DequeInv, DequeTypeOK, Pop
<1>3. UNCHANGED <<Running, Killed, Stopped>>
  BY DEF DequeInv, DequeTypeOK, Pop, Running, Killed, Stopped
<1>4. d \in Popping /\ Cardinality(Popping') = Cardinality(Popping) - 1
  BY OneLessPopping DEF Pop
<1>5. Reserve'
  BY <1>1, <1>3, <1>4, Counted, DequeAssumption, SMTT(30) DEF DequeInv, Reserve, DequeTypeOK
<1>6. Survivors'
  BY <1>3 DEF DequeInv, Survivors
<1>7. QED
  BY <1>2, <1>5, <1>6 DEF DequeInv

\* IndexError: the thread that ends was one too many.
LEMMA PopEmptyStep ==
  ASSUME DequeInv, NEW d \in Drainer, PopEmpty(d)
  PROVE  DequeInv'
<1>1. DequeTypeOK'
  BY DEF DequeInv, DequeTypeOK, PopEmpty
<1>2. Running' = Running \ {d} /\ d \in Running /\ Stopped' = Stopped
  BY DEF DequeInv, DequeTypeOK, PopEmpty, Running, Stopped
<1>3. Cardinality(Running') = Cardinality(Running) - 1
  BY <1>2, Counted, FS_RemoveElement
<1>4. d \in Popping /\ Cardinality(Popping') = Cardinality(Popping) - 1
  BY OneLessPopping DEF PopEmpty
<1>5. Cardinality(Popping) >= 1
  BY <1>4, Counted, FS_EmptySet
<1>6. Len(deque) = 0 /\ Len(deque') = 0
  BY DEF PopEmpty
<1>7. Cardinality(Running) + Cardinality(Stopped) >= LOW + 1 + Cardinality(Popping)
  BY <1>4, <1>6, Counted, DequeAssumption DEF DequeInv, Reserve
<1>8. Reserve' /\ Survivors'
  BY <1>2, <1>3, <1>4, <1>5, <1>6, <1>7, Counted, DequeAssumption DEF Reserve, Survivors
<1>9. QED
  BY <1>1, <1>8 DEF DequeInv

\* A thread that ends for a reason of its own no longer runs but still counts.
LEMMA StopStep ==
  ASSUME DequeInv, NEW d \in Drainer, Stop(d)
  PROVE  DequeInv'
<1>1. DequeTypeOK'
  BY DEF DequeInv, DequeTypeOK, Stop
<1>2. Killed' = Killed /\ Popping' = Popping
  BY DEF DequeInv, DequeTypeOK, Stop, Killed, Popping
<1>3. /\ Running' = Running \ {d} /\ d \in Running
      /\ Stopped' = Stopped \cup {d} /\ d \notin Stopped
  BY DEF DequeInv, DequeTypeOK, Stop, Running, Stopped
<1>4. Cardinality(Running') = Cardinality(Running) - 1
      /\ Cardinality(Stopped') = Cardinality(Stopped) + 1
  BY <1>3, Counted, FS_RemoveElement, FS_AddElement
<1>5. Reserve'
  BY <1>2, <1>4, Counted, DequeAssumption DEF DequeInv, DequeTypeOK, Reserve, Stop
<1>6. Survivors'
  BY <1>2, <1>4, Counted, DequeAssumption DEF DequeInv, Survivors
<1>7. QED
  BY <1>1, <1>5, <1>6 DEF DequeInv

\* Every step keeps the inductive invariant.
LEMMA DequeStep ==
  ASSUME DequeInv, [DequeNext]_dequeVars
  PROVE  DequeInv'
<1>1. CASE UNCHANGED dequeVars
  BY <1>1 DEF DequeInv, DequeTypeOK, Reserve, Survivors, Running, Stopped, Popping,
              Killed, dequeVars
<1>2. CASE Put
  BY <1>2, PutStep
<1>3. ASSUME NEW d \in Drainer, Drain(d)
      PROVE  DequeInv'
  BY <1>3, StartStep, CheckStep, PopStep, PopEmptyStep, StopStep DEF Drain
<1>4. QED
  BY <1>1, <1>2, <1>3 DEF DequeNext

\* The empty deque without threads.
LEMMA DequeStart == DequeInit => DequeInv
<1> SUFFICES ASSUME DequeInit PROVE DequeInv
  OBVIOUS
<1>1. DequeTypeOK
  BY DequeAssumption DEF DequeInit, DequeTypeOK
<1>2. Popping = {} /\ Killed = {}
  BY DEF DequeInit, Popping, Killed
<1>3. QED
  BY <1>1, <1>2 DEF DequeInv, Reserve, Survivors

\* A buffer keeps within its maximum length, and threads that have looked at it
\* cannot together take more than the others leave.
THEOREM DequeInvariance == DequeSpec => []DequeInv
  BY DequeStart, DequeStep, PTL DEF DequeSpec

\* However full a deque is when a line is appended, it keeps to its maxlen.
THEOREM DequeTypeCorrect == DequeSpec => []DequeTypeOK
<1>1. DequeInv => DequeTypeOK
  BY DEF DequeInv
<1>2. QED
  BY DequeInvariance, <1>1, PTL

\* Threads that have looked and not yet popped never take more below LOW than the
\* other threads, running or stopped, account for.
THEOREM ReserveKept == DequeSpec => []Reserve
<1>1. DequeInv => Reserve
  BY DEF DequeInv
<1>2. QED
  BY DequeInvariance, <1>1, PTL

\* However many threads drain a buffer, popleft() on an empty deque ends only
\* threads in excess of LOW + 1, counting those whose peer has gone.
THEOREM DrainingSurvives == DequeSpec => []Survivors
<1>1. DequeInv => Survivors
  BY DEF DequeInv
<1>2. QED
  BY DequeInvariance, <1>1, PTL

\* With at most LOW + 1 threads, popleft() never finds the deque empty.
THEOREM FewThreadsNeverFail ==
  ASSUME Cardinality(Drainer) <= LOW + 1
  PROVE  DequeSpec => [](Killed = {})
<1>1. DequeInv => Killed = {}
  <2> SUFFICES ASSUME DequeInv, Killed # {} PROVE FALSE
    OBVIOUS
  <2>1. PICK d \in Drainer : d \in Killed
    BY DEF Killed
  <2>2. Running \cup Stopped \subseteq Drainer \ {d} /\ Running \cap Stopped = {}
    BY <2>1 DEF Killed, Running, Stopped
  <2>3. /\ IsFiniteSet(Drainer \ {d})
        /\ Cardinality(Drainer \ {d}) = Cardinality(Drainer) - 1
        /\ Cardinality(Drainer) \in Nat
    BY <2>1, DequeAssumption, FS_RemoveElement, FS_CardinalityType
  <2>4. Cardinality(Running \cup Stopped) <= Cardinality(Drainer) - 1
    BY <2>2, <2>3, FS_Subset
  <2>5. Cardinality(Running \cup Stopped) = Cardinality(Running) + Cardinality(Stopped)
    <3>1. Cardinality(Running \cup Stopped)
            = Cardinality(Running) + Cardinality(Stopped) - Cardinality(Running \cap Stopped)
      BY Counted, FS_Union
    <3>2. Cardinality(Running \cap Stopped) = 0
      BY <2>2, FS_EmptySet
    <3>3. QED
      BY <3>1, <3>2, Counted
  <2>6. QED
    BY <2>3, <2>4, <2>5, Counted, DequeAssumption DEF DequeInv, Survivors
<1>2. QED
  BY DequeInvariance, <1>1, PTL

\* Where no thread stops of its own accord, LOW + 1 threads at least go on draining
\* once IndexError has ended one: the buffer is always drained by somebody.
THEOREM DrainersLeft ==
  DequeSpec => [](Killed # {} /\ Stopped = {} => Cardinality(Running) >= LOW + 1)
<1>1. DequeInv => (Killed # {} /\ Stopped = {} => Cardinality(Running) >= LOW + 1)
  BY Counted, FS_EmptySet, DequeAssumption DEF DequeInv, Survivors
<1>2. QED
  BY DequeInvariance, <1>1, PTL
=============================================================================
