-------------------------- MODULE KernelIntegrity --------------------------
(***************************************************************************)
(* A measurement on its way from the Memory-Introspection PTA              *)
(* (memory_introspection.c) through the kernel integrity TA                *)
(* (kernel_integrity_ta.c) to the Log Receiver, for the client program     *)
(* (kernel_integrity/host/main.c) that asks for it.  The digest goes       *)
(* through the client's buffer, which the PTA fills and the TA reads back  *)
(* as a string.  The TA ignores what its calls of the PTA and of its own   *)
(* send_event_log() return.                                                *)
(*                                                                         *)
(* The client program of the repository has a buffer of COPY_LEN bytes;    *)
(* the TA serves any client, and neither it nor the PTA looks at the size. *)
(* Memory is the client's buffer and the bytes that happen to follow it,   *)
(* the last of which ends every string.                                    *)
(***************************************************************************)
EXTENDS Naturals, Sequences

CONSTANTS
  HASH_LEN,     \* bytes of a digest (32)
  COPY_LEN,     \* bytes the PTA copies (64)
  BufSizes,     \* sizes of buffer that a client may pass (64 in host/main.c)
  TAIL_LEN,     \* bound: bytes behind those, the last of which ends any string
  TestHash,     \* the digest of the PTA's test payload
  ParamTypes,   \* parameter types that a client may pass
  MaxSessions   \* bound: runs of the client program

ASSUME IntegrityAssumption ==
  /\ HASH_LEN \in Nat \ {0}
  /\ COPY_LEN = 2 * HASH_LEN
  /\ TAIL_LEN \in Nat \ {0}
  /\ BufSizes \subseteq 1..COPY_LEN + TAIL_LEN - 1
  /\ TestHash \in [1..HASH_LEN -> 0..255]
  /\ MaxSessions \in Nat

VARIABLES
  kipc,      \* where the client, the TA or the PTA is
  size,      \* memref.size: how much of memory is the client's buffer
  mem,       \* the client's buffer and what follows
  ptasess,   \* TRUE while the TA has a session with the PTA
  measured,  \* history: the PTA has served this run
  ki_socks,  \* open sockets of the TA instance
  hash_len,  \* hash_length, what strlen() returned
  res,       \* what the client gets
  runs       \* runs of the client program

kiVars == <<kipc, size, mem, ptasess, measured, ki_socks, hash_len, res, runs>>

NUL == 0
Byte == 0..255
MEM_LEN == COPY_LEN + TAIL_LEN
Addr == 1..MEM_LEN

INC_VALUE == 0      \* TA_KERNEL_INTEGRITY_CMD_INC_VALUE
DEC_VALUE == 1      \* TA_KERNEL_INTEGRITY_CMD_DEC_VALUE
GET_ADDRESS == 0    \* PTA_CMD_GET_ADDRESS
GET_HASH == 1       \* PTA_CMD_GET_HASH
GET_DEVICES_SUPP == 1    \* the TA's name for what it asks the PTA

ValueAndBuffer == <<"VALUE_INOUT", "MEMREF_OUTPUT", "NONE", "NONE">>
BufferOnly     == <<"MEMREF_INOUT", "NONE", "NONE", "NONE">>
-----------------------------------------------------------------------------
(***************************************************************************)
(* The PTA.                                                                *)
(***************************************************************************)
\* The characters of "0123456789abcdef".
HexLookUp(d) == IF d < 10 THEN 48 + d ELSE 87 + d

\* Slip: the low digit comes first.
bytes2hex_slip(src) ==
  [i \in 1..2 * Len(src) + 1 |->
     IF i > 2 * Len(src) THEN NUL
     ELSE HexLookUp(IF i % 2 = 1 THEN src[(i + 1) \div 2] % 16 ELSE src[i \div 2] \div 16)]

bytes2hex(src) ==
  [i \in 1..2 * Len(src) + 1 |->
     IF i > 2 * Len(src) THEN NUL
     ELSE HexLookUp(IF i % 2 = 1 THEN src[(i + 1) \div 2] \div 16 ELSE src[i \div 2] % 16)]

\* get_memory_address() digests the kernel's text and shows it in a debug message
\* only; communication_test_ta_to_pta() digests the test payload.
PtaResult(cmd, types) ==
  CASE cmd = GET_ADDRESS -> IF types = BufferOnly THEN "SUCCESS" ELSE "BAD_PARAMETERS"
    [] cmd = GET_HASH    -> IF types = ValueAndBuffer THEN "SUCCESS" ELSE "BAD_PARAMETERS"
    [] OTHER             -> "NOT_IMPLEMENTED"

\* memcpy() of COPY_LEN bytes, whatever memref.size is.
Filled(m) == [a \in Addr |-> IF a <= COPY_LEN THEN bytes2hex(TestHash)[a] ELSE m[a]]
-----------------------------------------------------------------------------
(***************************************************************************)
(* The client program: context, session, a cleared buffer, one command.    *)
(***************************************************************************)
KiInit ==
  /\ kipc = "idle"
  /\ size \in BufSizes
  /\ mem = [a \in Addr |-> NUL]
  /\ ptasess = FALSE /\ measured = FALSE
  /\ ki_socks = 0 /\ hash_len = 0
  /\ res = "none" /\ runs = 0

KiOpenSession ==
  /\ kipc = "idle" /\ runs < MaxSessions
  /\ \E s \in BufSizes, m \in [Addr -> {NUL, HexLookUp(0)}] :
       /\ \A a \in 1..s : m[a] = NUL
       /\ m[MEM_LEN] = NUL
       /\ size' = s /\ mem' = m
  /\ measured' = FALSE /\ hash_len' = 0 /\ res' = "none"
  /\ runs' = runs + 1
  /\ kipc' = "invoke"
  /\ UNCHANGED <<ptasess, ki_socks>>

\* TA_InvokeCommandEntryPoint(), and the first test of pta_invoke().
KiInvoke(cmd, types) ==
  /\ kipc = "invoke"
  /\ IF cmd = INC_VALUE /\ types = ValueAndBuffer
       THEN kipc' = "pta_open" /\ res' = res
       ELSE kipc' = "done" /\ res' = "BAD_PARAMETERS"
  /\ UNCHANGED <<size, mem, ptasess, measured, ki_socks, hash_len, runs>>

\* The session is closed, or the process exits: the instance goes, sockets too.
KiCloseSession ==
  /\ kipc = "done"
  /\ kipc' = "idle"
  /\ ki_socks' = 0
  /\ UNCHANGED <<size, mem, ptasess, measured, hash_len, res, runs>>
-----------------------------------------------------------------------------
(***************************************************************************)
(* pta_invoke().                                                           *)
(***************************************************************************)
PtaOpen ==
  /\ kipc = "pta_open"
  /\ \/ ptasess' = TRUE /\ kipc' = "pta" /\ res' = res
     \/ ptasess' = ptasess /\ kipc' = "done" /\ res' = "TEE_ERROR"
  /\ UNCHANGED <<size, mem, measured, ki_socks, hash_len, runs>>

\* The PTA answers, or the call itself fails; the TA does not look.
PtaInvoke ==
  /\ kipc = "pta"
  /\ \/ /\ PtaResult(GET_DEVICES_SUPP, ValueAndBuffer) = "SUCCESS"
        /\ mem' = Filled(mem) /\ measured' = TRUE
     \/ UNCHANGED <<mem, measured>>
  /\ kipc' = "pta_close"
  /\ UNCHANGED <<size, ptasess, ki_socks, hash_len, res, runs>>

\* strlen() looks for the first NUL, if need be behind the buffer.
strlen(m) == (CHOOSE a \in Addr : m[a] = NUL /\ \A b \in 1..a - 1 : m[b] # NUL) - 1

\* Slip: the session with the PTA stays open.
PtaClose_slip ==
  /\ kipc = "pta_close"
  /\ hash_len' = strlen(mem)
  /\ kipc' = "open"
  /\ UNCHANGED <<size, mem, ptasess, measured, ki_socks, res, runs>>

PtaClose ==
  /\ kipc = "pta_close"
  /\ ptasess' = FALSE
  /\ hash_len' = strlen(mem)
  /\ kipc' = "open"
  /\ UNCHANGED <<size, mem, measured, ki_socks, res, runs>>
-----------------------------------------------------------------------------
(***************************************************************************)
(* send_event_log(); whatever it returns, pta_invoke() returns success.    *)
(***************************************************************************)
KiSocketOpen ==
  /\ kipc = "open"
  /\ \/ ki_socks' = ki_socks + 1 /\ kipc' = "send" /\ res' = res
     \/ ki_socks' = ki_socks /\ kipc' = "done" /\ res' = "SUCCESS"
  /\ UNCHANGED <<size, mem, ptasess, measured, hash_len, runs>>

\* Slip: a failed send is tried again on a new socket.
KiSend_slip ==
  /\ kipc = "send"
  /\ kipc' \in {"sent", "open"}
  /\ UNCHANGED <<size, mem, ptasess, measured, ki_socks, hash_len, res, runs>>

KiSend ==
  /\ kipc = "send"
  /\ \/ kipc' = "sent" /\ res' = res
     \/ kipc' = "done" /\ res' = "SUCCESS"
  /\ UNCHANGED <<size, mem, ptasess, measured, ki_socks, hash_len, runs>>

KiSocketClose ==
  /\ kipc = "sent"
  /\ ki_socks' = ki_socks - 1
  /\ kipc' = "done" /\ res' = "SUCCESS"
  /\ UNCHANGED <<size, mem, ptasess, measured, hash_len, runs>>

KiNext ==
  \/ KiOpenSession
  \/ \E cmd \in {INC_VALUE, DEC_VALUE}, types \in ParamTypes : KiInvoke(cmd, types)
  \/ KiCloseSession
  \/ PtaOpen \/ PtaInvoke \/ PtaClose
  \/ KiSocketOpen \/ KiSend \/ KiSocketClose

KiSpec == KiInit /\ [][KiNext]_kiVars
-----------------------------------------------------------------------------
\* Type correctness; a string ends within memory.
KiTypeOK ==
  /\ kipc \in {"idle", "invoke", "pta_open", "pta", "pta_close", "open", "send",
               "sent", "done"}
  /\ size \in BufSizes
  /\ mem \in [Addr -> Byte]
  /\ mem[MEM_LEN] = NUL
  /\ ptasess \in BOOLEAN /\ measured \in BOOLEAN
  /\ ki_socks \in 0..1
  /\ hash_len \in 0..MEM_LEN
  /\ res \in {"none", "SUCCESS", "BAD_PARAMETERS", "TEE_ERROR"}
  /\ runs \in 0..MaxSessions

\* The value of a hexadecimal digit.
HexValue(ch) == IF ch < 58 THEN ch - 48 ELSE ch - 87

\* What is sent to the Log Receiver begins with the digest, readable byte by byte.
\* It ends there if the client's buffer has room for a NUL; if not, as in the
\* client of the repository, it goes on with what follows the buffer.  It is empty
\* when the PTA was not asked with success, although the TA does not look at the
\* result and reads the buffer all the same.
ReportIsDigest ==
  kipc \in {"send", "sent"} =>
    IF measured
      THEN /\ hash_len >= 2 * HASH_LEN
           /\ size > 2 * HASH_LEN => hash_len = 2 * HASH_LEN
           /\ \A i \in 1..HASH_LEN :
                TestHash[i] = 16 * HexValue(mem[2 * i - 1]) + HexValue(mem[2 * i])
      ELSE hash_len = 0

\* Whichever of the calls fails, neither the session with the PTA nor a socket
\* outlives the run, and the first is over before the network is waited for.
NothingLeftOpen ==
  /\ ptasess => kipc \in {"pta", "pta_close"}
  /\ kipc = "idle" => ki_socks = 0
=============================================================================
