----------------------- MODULE KernelIntegrity_proofs -----------------------
(***************************************************************************)
(* Proofs about KernelIntegrity for digests of every length and whatever   *)
(* follows the client's buffer.  The buffer holds the digest's digits or   *)
(* nothing, according to whether the PTA was asked with success (KiInv).   *)
(***************************************************************************)
EXTENDS KernelIntegrity, SequenceTheorems, WellFoundedInduction, TLAPS

Digits == bytes2hex(TestHash)

\* What the client's buffer holds, whatever its size, and what is open, at each
\* point of a run.  Where the PTA does not write, it is clear.
BufferHolds ==
  /\ measured => \A a \in 1..COPY_LEN : mem[a] = Digits[a]
  /\ \A a \in 1..size : (measured => a > COPY_LEN) => mem[a] = NUL

LengthIsStrlen == kipc \in {"open", "send", "sent"} => hash_len = strlen(mem)

SocketHeld ==
  /\ kipc \in {"send", "sent"} => ki_socks = 1
  /\ kipc \notin {"send", "sent", "done"} => ki_socks = 0

NotYetMeasured == kipc \in {"invoke", "pta_open", "pta"} => ~measured

KiInv ==
  /\ KiTypeOK
  /\ BufferHolds
  /\ LengthIsStrlen
  /\ SocketHeld
  /\ NotYetMeasured
  /\ NothingLeftOpen
-----------------------------------------------------------------------------
\* The sizes: memory goes on behind a client's buffer and behind what is copied.
LEMMA Sizes ==
  /\ HASH_LEN \in Nat /\ HASH_LEN >= 1
  /\ COPY_LEN = 2 * HASH_LEN
  /\ COPY_LEN \in Nat /\ COPY_LEN >= 1
  /\ MEM_LEN \in Nat /\ MEM_LEN \in Addr /\ COPY_LEN < MEM_LEN
  /\ \A s \in BufSizes : s \in Nat /\ 1 <= s /\ s < MEM_LEN
  BY IntegrityAssumption DEF IntegrityAssumption, Addr, MEM_LEN

\* A digest is a sequence of HASH_LEN bytes.
LEMMA DigestLen == Len(TestHash) = HASH_LEN /\ \A i \in 1..HASH_LEN : TestHash[i] \in 0..255
<1>1. TestHash \in [1..HASH_LEN -> 0..255] /\ HASH_LEN \in Nat
  BY IntegrityAssumption DEF IntegrityAssumption
<1>2. TestHash \in Seq(0..255)
  BY <1>1
<1>3. QED
  BY <1>1, <1>2

\* A byte is got back from the two digits of it.
LEMMA HexRoundTrip ==
  ASSUME NEW b \in 0..255
  PROVE  /\ b \div 16 \in 0..15 /\ b % 16 \in 0..15
         /\ b = 16 * HexValue(HexLookUp(b \div 16)) + HexValue(HexLookUp(b % 16))
<1>1. b \div 16 \in 0..15 /\ b % 16 \in 0..15 /\ b = 16 * (b \div 16) + (b % 16)
  OBVIOUS
<1>2. \A d \in 0..15 : HexValue(HexLookUp(d)) = d
  BY DEF HexValue, HexLookUp
<1>3. QED
  BY <1>1, <1>2

\* No digit is a NUL.
LEMMA HexIsText == \A d \in 0..15 : HexLookUp(d) \in Byte /\ HexLookUp(d) # NUL
  BY DEF HexLookUp, Byte, NUL

\* Where bytes2hex() puts the two digits of each byte.
LEMMA DigitsOfByte ==
  ASSUME NEW i \in 1..HASH_LEN
  PROVE  /\ Digits[2 * i - 1] = HexLookUp(TestHash[i] \div 16)
         /\ Digits[2 * i] = HexLookUp(TestHash[i] % 16)
<1> DEFINE j == 2 * i - 1
           k == 2 * i
           n == 2 * Len(TestHash)
<1>1. n = 2 * HASH_LEN /\ HASH_LEN \in Nat
  BY DigestLen, Sizes
<1>2. /\ j \in 1..n + 1 /\ ~(j > n) /\ j % 2 = 1 /\ (j + 1) \div 2 = i
      /\ k \in 1..n + 1 /\ ~(k > n) /\ ~(k % 2 = 1) /\ k \div 2 = i
  BY <1>1
<1>3. QED
  BY <1>2 DEF Digits, bytes2hex

\* Every byte that the PTA copies is a digit.
LEMMA DigitsAreText == \A a \in 1..COPY_LEN : Digits[a] \in Byte /\ Digits[a] # NUL
<1> SUFFICES ASSUME NEW a \in 1..COPY_LEN PROVE Digits[a] \in Byte /\ Digits[a] # NUL
  OBVIOUS
<1>1. PICK i \in 1..HASH_LEN : a = 2 * i - 1 \/ a = 2 * i
  <2>1. (a + 1) \div 2 \in 1..HASH_LEN
        /\ (a = 2 * ((a + 1) \div 2) - 1 \/ a = 2 * ((a + 1) \div 2))
    BY Sizes
  <2>2. QED
    BY <2>1
<1>2. TestHash[i] \in 0..255
  BY DigestLen
<1>3. TestHash[i] \div 16 \in 0..15 /\ TestHash[i] % 16 \in 0..15
  BY <1>2, HexRoundTrip
<1>4. QED
  BY <1>1, <1>3, DigitsOfByte, HexIsText

\* A string ends at the first NUL, which exists.
LEMMA StrlenIs ==
  ASSUME NEW m \in [Addr -> Byte], m[MEM_LEN] = NUL
  PROVE  /\ strlen(m) \in Nat /\ strlen(m) + 1 \in Addr
         /\ m[strlen(m) + 1] = NUL
         /\ \A b \in 1..strlen(m) : m[b] # NUL
<1> DEFINE Z == {a \in Addr : m[a] = NUL}
<1>1. Z \subseteq Nat /\ Z # {}
  BY Sizes DEF Addr
<1>2. \E a \in Z : \A y \in Z : ~(<<y, a>> \in OpToRel(<, Nat))
  BY <1>1, NatLessThanWellFounded, WFMin
<1>3. PICK a \in Z : \A y \in Z : ~(y < a)
  BY <1>1, <1>2 DEF OpToRel
<1>4. a \in Addr /\ m[a] = NUL /\ \A b \in 1..a - 1 : m[b] # NUL
  BY <1>3, Sizes DEF Addr
<1>5. PICK c \in Addr : c = (CHOOSE x \in Addr : m[x] = NUL /\ \A b \in 1..x - 1 : m[b] # NUL)
                        /\ m[c] = NUL /\ \A b \in 1..c - 1 : m[b] # NUL
  BY <1>4
<1>6. strlen(m) = c - 1
  BY <1>5 DEF strlen
<1>7. c \in Nat /\ c >= 1
  BY Sizes DEF Addr
<1>8. strlen(m) \in Nat /\ strlen(m) + 1 = c
  BY <1>6, <1>7
<1>9. \A b \in 1..strlen(m) : m[b] # NUL
  BY <1>5, <1>6
<1>10. QED
  BY <1>5, <1>8, <1>9
-----------------------------------------------------------------------------
\* Before the first run memory is clear and nothing is open.
LEMMA KiInitHolds == KiInit => KiInv
<1> SUFFICES ASSUME KiInit PROVE KiInv
  OBVIOUS
<1> USE Sizes, IntegrityAssumption DEF KiInit
<1>1. KiTypeOK
  <2>1. mem \in [Addr -> Byte] /\ mem[MEM_LEN] = NUL
    BY DEF Byte, NUL
  <2>2. ptasess \in BOOLEAN /\ measured \in BOOLEAN
    BY Zenon
  <2>3. /\ ki_socks \in 0..1 /\ hash_len \in 0..MEM_LEN
        /\ runs \in 0..MaxSessions
    BY DEF IntegrityAssumption
  <2>4. QED
    BY <2>1, <2>2, <2>3 DEF KiTypeOK
<1>2. BufferHolds
  BY DEF BufferHolds, Addr
<1>3. LengthIsStrlen /\ SocketHeld /\ NotYetMeasured /\ NothingLeftOpen
  BY DEF LengthIsStrlen, SocketHeld, NotYetMeasured, NothingLeftOpen
<1>4. QED
  BY <1>1, <1>2, <1>3 DEF KiInv

\* The client program starts with a cleared buffer, whatever follows it.
LEMMA OpenSessionHolds ==
  ASSUME KiInv, KiOpenSession
  PROVE  KiInv'
<1> USE Sizes, IntegrityAssumption DEF KiInv
<1>1. PICK s \in BufSizes, m \in [Addr -> {NUL, HexLookUp(0)}] :
        /\ \A a \in 1..s : m[a] = NUL
        /\ m[MEM_LEN] = NUL
        /\ size' = s /\ mem' = m
  BY DEF KiOpenSession
<1>2. mem' \in [Addr -> Byte] /\ mem'[MEM_LEN] = NUL
  BY <1>1 DEF HexLookUp, NUL, Byte
<1>3. measured' = FALSE /\ measured' \in BOOLEAN
  BY Zenon DEF KiOpenSession
<1>4. KiTypeOK'
  BY <1>1, <1>2, <1>3 DEF KiOpenSession, KiTypeOK, IntegrityAssumption
<1>5. BufferHolds'
  BY <1>1, <1>3 DEF BufferHolds
<1>6. LengthIsStrlen' /\ SocketHeld' /\ NotYetMeasured' /\ NothingLeftOpen'
  BY <1>3 DEF KiOpenSession, LengthIsStrlen, SocketHeld, NotYetMeasured, NothingLeftOpen
<1>7. QED
  BY <1>4, <1>5, <1>6

\* The PTA writes the digits and no further.
LEMMA PtaInvokeHolds ==
  ASSUME KiInv, PtaInvoke
  PROVE  KiInv'
<1> USE Sizes DEF KiInv
<1>1. CASE mem' = Filled(mem) /\ measured' = TRUE
  <2>1. \A a \in 1..COPY_LEN : a \in Addr /\ mem'[a] = Digits[a]
    BY <1>1 DEF Filled, Digits, Addr
  <2>2. \A a \in Addr : a > COPY_LEN => mem'[a] = mem[a]
    BY <1>1 DEF Filled, Addr
  <2>3. \A a \in Addr : mem'[a] \in Byte
    BY <2>1, <2>2, DigitsAreText DEF KiTypeOK, Addr
  <2>4. mem' \in [Addr -> Byte] /\ mem'[MEM_LEN] = NUL
    BY <1>1, <2>2, <2>3 DEF Filled, KiTypeOK
  <2>5. measured' \in BOOLEAN
    BY <1>1, Zenon
  <2>6. KiTypeOK'
    BY <2>4, <2>5 DEF PtaInvoke, KiTypeOK
  <2>7. (measured => \A a \in 1..COPY_LEN : mem[a] = Digits[a])'
    BY <2>1 DEF Digits
  <2>7a. size' = size /\ ~measured /\ size \in Nat /\ size < MEM_LEN
    BY DEF PtaInvoke, NotYetMeasured, KiTypeOK
  <2>7b. ASSUME NEW a \in 1..size, a > COPY_LEN PROVE mem'[a] = NUL
    BY <2>2, <2>7a, <2>7b DEF BufferHolds, Addr
  <2>8. BufferHolds'
    BY <1>1, <2>7, <2>7a, <2>7b DEF BufferHolds
  <2>9. LengthIsStrlen' /\ SocketHeld' /\ NotYetMeasured' /\ NothingLeftOpen'
    BY DEF PtaInvoke, LengthIsStrlen, SocketHeld, NotYetMeasured, NothingLeftOpen
  <2>10. QED
    BY <2>6, <2>8, <2>9
<1>2. CASE UNCHANGED <<mem, measured>>
  <2>1. KiTypeOK'
    BY <1>2 DEF PtaInvoke, KiTypeOK
  <2>2. BufferHolds'
    BY <1>2 DEF PtaInvoke, BufferHolds, Digits
  <2>4. LengthIsStrlen' /\ SocketHeld' /\ NotYetMeasured' /\ NothingLeftOpen'
    BY DEF PtaInvoke, LengthIsStrlen, SocketHeld, NotYetMeasured, NothingLeftOpen
  <2>5. QED
    BY <2>1, <2>2, <2>4
<1>3. QED
  BY <1>1, <1>2 DEF PtaInvoke

\* The session with the PTA is over, and the length is that of the string.
LEMMA PtaCloseHolds ==
  ASSUME KiInv, PtaClose
  PROVE  KiInv'
<1> USE Sizes DEF KiInv
<1>1. strlen(mem) \in Nat /\ strlen(mem) + 1 \in Addr
  BY StrlenIs DEF KiTypeOK
<1>2. hash_len' \in 0..MEM_LEN
  BY <1>1 DEF PtaClose, Addr
<1>3. ptasess' \in BOOLEAN
  BY Zenon DEF PtaClose
<1>4. KiTypeOK'
  BY <1>2, <1>3 DEF PtaClose, KiTypeOK
<1>5. BufferHolds'
  BY DEF PtaClose, BufferHolds, Digits
<1>6. LengthIsStrlen'
  BY DEF PtaClose, LengthIsStrlen, strlen, Addr
<1>7. SocketHeld' /\ NotYetMeasured' /\ NothingLeftOpen'
  BY DEF PtaClose, SocketHeld, NotYetMeasured, NothingLeftOpen
<1>8. QED
  BY <1>4, <1>5, <1>6, <1>7

\* The other steps leave the buffer, and what is known of it, alone.
LEMMA MemoryKept ==
  ASSUME KiInv, UNCHANGED <<size, mem, measured>>
  PROVE  BufferHolds'
  BY DEF KiInv, BufferHolds, Digits

\* Every step keeps the invariant.
LEMMA KiStepHolds == KiInv /\ [KiNext]_kiVars => KiInv'
<1> SUFFICES ASSUME KiInv, [KiNext]_kiVars PROVE KiInv'
  OBVIOUS
<1> USE DEF KiInv, KiTypeOK, LengthIsStrlen, SocketHeld, NotYetMeasured, NothingLeftOpen, strlen
<1>1. CASE KiOpenSession
  BY <1>1, OpenSessionHolds
<1>2. ASSUME NEW cmd \in {INC_VALUE, DEC_VALUE}, NEW types \in ParamTypes, KiInvoke(cmd, types)
      PROVE  KiInv'
  BY <1>2, MemoryKept DEF KiInvoke
<1>3. CASE KiCloseSession
  BY <1>3, MemoryKept DEF KiCloseSession
<1>4. CASE PtaOpen
  <2>1. ptasess' \in BOOLEAN
    BY <1>4, Zenon DEF PtaOpen
  <2>2. QED
    BY <1>4, <2>1, MemoryKept DEF PtaOpen
<1>5. CASE PtaInvoke
  BY <1>5, PtaInvokeHolds
<1>6. CASE PtaClose
  BY <1>6, PtaCloseHolds
<1>7. CASE KiSocketOpen
  BY <1>7, MemoryKept DEF KiSocketOpen
<1>8. CASE KiSend
  BY <1>8, MemoryKept DEF KiSend
<1>9. CASE KiSocketClose
  BY <1>9, MemoryKept DEF KiSocketClose
<1>10. CASE UNCHANGED kiVars
  BY <1>10, MemoryKept DEF kiVars
<1>11. QED
  BY <1>1, <1>2, <1>3, <1>4, <1>5, <1>6, <1>7, <1>8, <1>9, <1>10 DEF KiNext

\* The invariant holds throughout every behaviour of client, TA and PTA.
THEOREM KiInvariance == KiSpec => []KiInv
  BY KiInitHolds, KiStepHolds, PTL DEF KiSpec

\* The TA holds one socket at most and strlen() stays within memory.
THEOREM KiTypeCorrect == KiSpec => []KiTypeOK
<1>1. KiInv => KiTypeOK
  BY DEF KiInv
<1>2. QED
  BY <1>1, KiInvariance, PTL

\* Neither a session with the PTA nor a socket outlives the run that opened it.
THEOREM LeavesNothingOpen == KiSpec => []NothingLeftOpen
<1>1. KiInv => NothingLeftOpen
  BY DEF KiInv
<1>2. QED
  BY <1>1, KiInvariance, PTL

\* For every digest, every size of the client's buffer and whatever follows it, the
\* message sent begins with the digest, from which every byte can be read back, and
\* ends there if the buffer has room for a NUL; or it is empty, when the PTA was
\* not asked with success.
THEOREM ReportsTheDigest == KiSpec => []ReportIsDigest
<1>1. KiInv => ReportIsDigest
  <2> SUFFICES ASSUME KiInv, kipc \in {"send", "sent"}
               PROVE  IF measured
                        THEN /\ hash_len >= 2 * HASH_LEN
                             /\ size > 2 * HASH_LEN => hash_len = 2 * HASH_LEN
                             /\ \A i \in 1..HASH_LEN : TestHash[i] =
                                  16 * HexValue(mem[2 * i - 1]) + HexValue(mem[2 * i])
                        ELSE hash_len = 0
    BY DEF ReportIsDigest
  <2>1. /\ hash_len = strlen(mem) /\ strlen(mem) \in Nat /\ strlen(mem) + 1 \in Addr
        /\ mem[strlen(mem) + 1] = NUL
        /\ \A b \in 1..strlen(mem) : mem[b] # NUL
    BY StrlenIs DEF KiInv, KiTypeOK, LengthIsStrlen
  <2>2. CASE measured
    <3>1. \A a \in 1..COPY_LEN : mem[a] = Digits[a]
      BY <2>2 DEF KiInv, BufferHolds
    <3>2. strlen(mem) + 1 \notin 1..COPY_LEN
      BY <2>1, <3>1, DigitsAreText
    <3>3. hash_len >= 2 * HASH_LEN
      BY <2>1, <3>2, Sizes
    <3>3a. ASSUME size > 2 * HASH_LEN PROVE hash_len = 2 * HASH_LEN
      <4>1. size \in Nat /\ COPY_LEN + 1 \in 1..size
        BY <3>3a, Sizes DEF KiInv, KiTypeOK
      <4>2. mem[COPY_LEN + 1] = NUL
        BY <4>1, Sizes DEF KiInv, BufferHolds
      <4>3. ~(COPY_LEN + 1 \in 1..strlen(mem))
        BY <2>1, <4>2
      <4>4. QED
        BY <2>1, <3>3, <4>3, Sizes
    <3>4. ASSUME NEW i \in 1..HASH_LEN
          PROVE  TestHash[i] = 16 * HexValue(mem[2 * i - 1]) + HexValue(mem[2 * i])
      <4>1. 2 * i - 1 \in 1..COPY_LEN /\ 2 * i \in 1..COPY_LEN
        BY Sizes
      <4>2. /\ mem[2 * i - 1] = HexLookUp(TestHash[i] \div 16)
            /\ mem[2 * i] = HexLookUp(TestHash[i] % 16)
        BY <3>1, <4>1, DigitsOfByte
      <4>3. QED
        BY <4>2, DigestLen, HexRoundTrip
    <3>5. QED
      BY <2>2, <3>3, <3>3a, <3>4
  <2>3. CASE ~measured
    <3>0. 1 \in 1..size
      BY Sizes DEF KiInv, KiTypeOK
    <3>1. mem[1] = NUL
      BY <2>3, <3>0 DEF KiInv, BufferHolds
    <3>2. ~(1 \in 1..strlen(mem))
      BY <2>1, <3>1
    <3>3. hash_len = 0
      BY <2>1, <3>2
    <3>4. QED
      BY <2>3, <3>3
  <2>4. QED
    BY <2>2, <2>3
<1>2. QED
  BY <1>1, KiInvariance, PTL
=============================================================================
