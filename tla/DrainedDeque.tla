---------------------------- MODULE DrainedDeque ----------------------------
(***************************************************************************)
(* What each of the Log Receiver's three buffers promises: a deque with a  *)
(* maximum length, to which any thread appends, and which a growing number *)
(* of threads drain.  A draining thread first looks whether more than LOW  *)
(* records are there and then takes the oldest one; the two are separate   *)
(* steps and no lock joins them, so popleft() may find the deque empty and *)
(* raise IndexError, which ends the thread.                                *)
(***************************************************************************)
EXTENDS Naturals, Sequences, FiniteSets

CONSTANTS Record,   \* what is kept in the deque
          Drainer,  \* the threads that may ever drain it
          LOW,      \* records that stay behind
          MAXLEN    \* the deque's maxlen

ASSUME DequeAssumption ==
  /\ IsFiniteSet(Drainer)
  /\ LOW \in Nat
  /\ MAXLEN \in Nat \ {0}

VARIABLES deque,    \* the records, oldest first
          thread    \* where each draining thread is

dequeVars == <<deque, thread>>

\* deque.append(): a full deque drops its oldest record.
Appended_slip(q, r) == Append(q, r)
Appended(q, r) == IF Len(q) < MAXLEN THEN Append(q, r) ELSE Append(Tail(q), r)

Popping == {d \in Drainer : thread[d] = "pop"}
Killed  == {d \in Drainer : thread[d] = "killed"}
Running == {d \in Drainer : thread[d] \in {"idle", "pop"}}
Stopped == {d \in Drainer : thread[d] = "stopped"}

DequeInit ==
  /\ deque = <<>>
  /\ thread = [d \in Drainer |-> "off"]

Put ==
  /\ \E r \in Record : deque' = Appended(deque, r)
  /\ UNCHANGED thread

Start(d) ==
  /\ thread[d] = "off"
  /\ thread' = [thread EXCEPT ![d] = "idle"]
  /\ UNCHANGED deque

\* Slip: the guard lets a thread go on when only LOW records are there.
Check_slip(d) ==
  /\ thread[d] = "idle"
  /\ Len(deque) >= LOW
  /\ thread' = [thread EXCEPT ![d] = "pop"]
  /\ UNCHANGED deque

Check(d) ==
  /\ thread[d] = "idle"
  /\ Len(deque) > LOW
  /\ thread' = [thread EXCEPT ![d] = "pop"]
  /\ UNCHANGED deque

Pop(d) ==
  /\ thread[d] = "pop"
  /\ deque # <<>>
  /\ deque' = Tail(deque)
  /\ thread' = [thread EXCEPT ![d] = "idle"]

PopEmpty(d) ==
  /\ thread[d] = "pop"
  /\ deque = <<>>
  /\ thread' = [thread EXCEPT ![d] = "killed"]
  /\ UNCHANGED deque

\* The thread ends for a reason of its own (its peer has gone).
Stop(d) ==
  /\ thread[d] = "idle"
  /\ thread' = [thread EXCEPT ![d] = "stopped"]
  /\ UNCHANGED deque

Drain(d) == Start(d) \/ Check(d) \/ Pop(d) \/ PopEmpty(d) \/ Stop(d)

DequeNext == Put \/ \E d \in Drainer : Drain(d)

DequeSpec == DequeInit /\ [][DequeNext]_dequeVars
-----------------------------------------------------------------------------
\* Type correctness: the deque never grows past its maximum length.
DequeTypeOK ==
  /\ deque \in Seq(Record)
  /\ Len(deque) <= MAXLEN
  /\ thread \in [Drainer -> {"off", "idle", "pop", "killed", "stopped"}]

\* Threads that have looked and not yet popped can bring the deque below LOW,
\* but never by more than the other threads that were ever started, and that
\* IndexError has not ended, account for.
Reserve ==
  Popping # {} =>
    Len(deque) + Cardinality(Running) + Cardinality(Stopped) >= LOW + 1 + Cardinality(Popping)

\* IndexError can only come up with more than LOW + 1 draining threads, and ends
\* no more threads than are above that number, where those that have stopped
\* because their peer went still count.  So where no thread stops (the chains of
\* save_audit_log() and logmatch()) LOW + 1 go on draining; forwarders
\* (listen_client) may die out, but only if SPADE has gone from one of them too.
Survivors ==
  Killed # {} => Cardinality(Running) + Cardinality(Stopped) >= LOW + 1

DequeInv == DequeTypeOK /\ Reserve /\ Survivors
=============================================================================
