---------------------------- MODULE BoundedFifo ----------------------------
(***************************************************************************)
(* What the queue between audit_log_end() and kauditd promises: a bounded  *)
(* first-in first-out queue.  A record is added at the end while there is  *)
(* room; the record taken is always the oldest one still in the queue.     *)
(***************************************************************************)
EXTENDS Naturals, Sequences

CONSTANTS Record,    \* the log records
          Capacity,  \* how many of them the queue holds
          None       \* stands for "nothing taken yet"

VARIABLES contents,  \* the records in the queue, oldest first
          taken      \* the record taken last

fifoVars == <<contents, taken>>

FifoInit == contents = <<>> /\ taken = None

Put ==
  /\ Len(contents) < Capacity
  /\ \E r \in Record : contents' = Append(contents, r)
  /\ UNCHANGED taken

Take ==
  /\ contents # <<>>
  /\ taken' = Head(contents)
  /\ contents' = Tail(contents)

FifoNext == Put \/ Take

FifoSpec == FifoInit /\ [][FifoNext]_fifoVars
=============================================================================
