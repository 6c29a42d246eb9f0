---------------------------- MODULE ReaderProofs ----------------------------
(***************************************************************************)
(* The safety of Reader for any number of goroutines that call Read, any   *)
(* sizes of Appends and Reads and any bounds.                              *)
(***************************************************************************)
EXTENDS Reader, SequenceTheorems, TLAPS

\* What a Read may take of the buffer: what was asked for, or all there is.
Clamp(r) == IF want[r] > Len(buffer) THEN Len(buffer) ELSE want[r]

\* A sequence cut in two is the sequence.
LEMMA CutInTwo ==
    ASSUME NEW S, NEW s \in Seq(S), NEW n \in 0 .. Len(s)
    PROVE  /\ SubSeq(s, 1, n) \in Seq(S) /\ Len(SubSeq(s, 1, n)) = n
           /\ SubSeq(s, n + 1, Len(s)) \in Seq(S)
           /\ SubSeq(s, 1, n) \o SubSeq(s, n + 1, Len(s)) = s
<1>1. Len(s) \in Nat /\ \A i \in 1 .. Len(s) : s[i] \in S
  OBVIOUS
<1>2. /\ SubSeq(s, 1, n) \in Seq(S)
      /\ Len(SubSeq(s, 1, n)) = IF 1 <= n THEN n - 1 + 1 ELSE 0
  BY <1>1, SubSeqProperties
<1>3. SubSeq(s, n + 1, Len(s)) \in Seq(S)
  BY <1>1, SubSeqProperties
<1>4. SubSeq(s, 1, n) \o SubSeq(s, n + 1, Len(s)) = SubSeq(s, 1, Len(s))
  <2>1. 1 \in 1 .. Len(s) + 1 /\ n \in 1 - 1 .. Len(s) /\ Len(s) \in n .. Len(s)
    BY <1>1
  <2> QED
    BY <2>1, ConcatAdjacentSubSeq, Zenon
<1>5. SubSeq(s, 1, Len(s)) = s
  BY SubSeqFull
<1>6. Len(SubSeq(s, 1, n)) = n
  BY <1>1, <1>2
<1> QED
  BY <1>2, <1>3, <1>4, <1>5, <1>6, Zenon

\* What is cut off a sequence can be moved to the end of the one before it.
LEMMA MoveTheCut ==
    ASSUME NEW S, NEW t \in Seq(S), NEW s \in Seq(S), NEW n \in 0 .. Len(s)
    PROVE  (t \o SubSeq(s, 1, n)) \o SubSeq(s, n + 1, Len(s)) = t \o s
<1>1. ASSUME NEW a \in Seq(S), NEW b \in Seq(S) PROVE (t \o a) \o b = t \o (a \o b)
  BY ConcatAssociative, SMTT(30)
<1>2. /\ SubSeq(s, 1, n) \in Seq(S) /\ SubSeq(s, n + 1, Len(s)) \in Seq(S)
      /\ SubSeq(s, 1, n) \o SubSeq(s, n + 1, Len(s)) = s
  BY CutInTwo, Zenon
<1>3. (t \o SubSeq(s, 1, n)) \o SubSeq(s, n + 1, Len(s))
        = t \o (SubSeq(s, 1, n) \o SubSeq(s, n + 1, Len(s)))
  BY <1>1, <1>2, Zenon
<1> QED
  BY <1>2, <1>3, Zenon

\* The bytes that an Append of n brings follow those that were appended before.
LEMMA NextBytes ==
    ASSUME NEW m \in Nat, NEW n \in Nat
    PROVE  [i \in 1 .. m |-> i] \o [i \in 1 .. n |-> m + i] = [i \in 1 .. m + n |-> i]
OBVIOUS

\* What Take does, in terms of the cut.
LEMMA TakeCuts ==
    ASSUME TypeOK, ReaderAssumption, NEW r \in Readers, Take(r)
    PROVE  /\ Clamp(r) \in 0 .. Len(buffer)
           /\ want[r] # 0 => Clamp(r) > 0
           /\ got' = [got EXCEPT ![r] = SubSeq(buffer, 1, Clamp(r))]
           /\ taken' = taken \o SubSeq(buffer, 1, Clamp(r))
           /\ buffer' = SubSeq(buffer, Clamp(r) + 1, Len(buffer))
<1>1. want[r] \in Nat
  <2>1. want \in [Readers -> Sizes \cup {0}]
    BY DEF TypeOK
  <2>2. Sizes \subseteq Nat
    BY DEF ReaderAssumption
  <2>3. want[r] \in Sizes \cup {0}
    BY <2>1, Zenon
  <2>4. want[r] \in Sizes => want[r] \in Nat
    BY <2>2, Zenon
  <2>5. want[r] = 0 => want[r] \in Nat
    OBVIOUS
  <2> QED
    BY <2>3, <2>4, <2>5, Zenon
<1>2. Len(buffer) \in Nat /\ Len(buffer) > 0
  <2>1. buffer \in Seq(1 .. MaxBytes) /\ buffer # <<>>
    BY DEF TypeOK, Take
  <2> QED
    BY <2>1, EmptySeq
<1>3. Clamp(r) \in 0 .. Len(buffer) /\ (want[r] # 0 => Clamp(r) > 0)
  BY <1>1, <1>2 DEF Clamp
<1> QED
  BY <1>3 DEF Take, Clamp

\* The type invariant is inductive.
LEMMA TypesStep ==
    ASSUME ReaderAssumption, TypeOK, [Next]_vars
    PROVE  TypeOK'
<1>1. ASSUME NEW n \in Chunks, AppendData(n) PROVE TypeOK'
  <2>1. n \in Nat /\ appended \in Nat /\ appended + n \in 0 .. MaxBytes
    BY <1>1 DEF ReaderAssumption, TypeOK, AppendData
  <2>2. [i \in 1 .. n |-> appended + i] \in Seq(1 .. MaxBytes)
    BY <2>1, <1>1 DEF ReaderAssumption, AppendData
  <2>3. buffer' \in Seq(1 .. MaxBytes)
    BY <2>2, <1>1 DEF TypeOK, AppendData
  <2> QED
    BY <1>1, <2>1, <2>3 DEF TypeOK, AppendData
<1>2. ASSUME NEW r \in Readers, NEW n \in Sizes, Read(r, n) PROVE TypeOK'
  BY <1>2 DEF TypeOK, Read
<1>3. ASSUME NEW r \in Readers, CheckDeadline(r) PROVE TypeOK'
  BY <1>3 DEF TypeOK, CheckDeadline
<1>4. ASSUME NEW r \in Readers, Wait(r) PROVE TypeOK'
  BY <1>4 DEF TypeOK, Wait
<1>5. ASSUME NEW r \in Readers, Take(r) PROVE TypeOK'
  <2>1. /\ SubSeq(buffer, 1, Clamp(r)) \in Seq(1 .. MaxBytes)
        /\ SubSeq(buffer, Clamp(r) + 1, Len(buffer)) \in Seq(1 .. MaxBytes)
    BY <1>5, TakeCuts, CutInTwo DEF TypeOK
  <2>2. /\ got' \in [Readers -> Seq(1 .. MaxBytes)] /\ taken' \in Seq(1 .. MaxBytes)
        /\ buffer' \in Seq(1 .. MaxBytes)
    <3>1. taken \in Seq(1 .. MaxBytes) /\ got \in [Readers -> Seq(1 .. MaxBytes)]
      BY DEF TypeOK
    <3>2. /\ got' = [got EXCEPT ![r] = SubSeq(buffer, 1, Clamp(r))]
          /\ taken' = taken \o SubSeq(buffer, 1, Clamp(r))
          /\ buffer' = SubSeq(buffer, Clamp(r) + 1, Len(buffer))
      BY <1>5, TakeCuts
    <3>3. taken' \in Seq(1 .. MaxBytes)
      BY <2>1, <3>1, <3>2, ConcatProperties, Zenon
    <3>4. got' \in [Readers -> Seq(1 .. MaxBytes)]
      BY <2>1, <3>1, <3>2, Zenon
    <3> QED
      BY <2>1, <3>2, <3>3, <3>4, Zenon
  <2> QED
    BY <1>5, <2>2 DEF TypeOK, Take
<1>6. ASSUME NEW t \in {"zero", "future", "past"}, SetReadDeadline(t) PROVE TypeOK'
  BY <1>6 DEF TypeOK, SetReadDeadline, ReaderAssumption
<1>7. CASE Expire
  BY <1>7 DEF TypeOK, Expire
<1>8. CASE UNCHANGED vars
  BY <1>8 DEF TypeOK, vars
<1> QED
  BY <1>1, <1>2, <1>3, <1>4, <1>5, <1>6, <1>7, <1>8 DEF Next

\* So is, with it, that every byte goes to one reader, in order.
LEMMA BytesStep ==
    ASSUME ReaderAssumption, TypeOK, EveryByteOnce, [Next]_vars
    PROVE  EveryByteOnce'
<1>1. ASSUME NEW n \in Chunks, AppendData(n) PROVE EveryByteOnce'
  <2> DEFINE new == [i \in 1 .. n |-> appended + i]
  <2>1. n \in Nat /\ appended \in Nat /\ new \in Seq(Nat)
    BY <1>1 DEF ReaderAssumption, TypeOK
  <2>2. taken \in Seq(Nat) /\ buffer \in Seq(Nat)
    BY DEF TypeOK
  <2>3. taken' \o buffer' = taken \o (buffer \o new)
    BY <1>1 DEF AppendData
  <2>4. taken' \o buffer' = (taken \o buffer) \o new
    BY <2>1, <2>2, <2>3, ConcatAssociative, SMTT(30)
  <2> QED
    BY <2>1, <2>4, NextBytes, <1>1 DEF EveryByteOnce, AppendData
<1>2. ASSUME NEW r \in Readers, Take(r) PROVE EveryByteOnce'
  <2>1. /\ SubSeq(buffer, 1, Clamp(r)) \in Seq(1 .. MaxBytes)
        /\ SubSeq(buffer, Clamp(r) + 1, Len(buffer)) \in Seq(1 .. MaxBytes)
        /\ SubSeq(buffer, 1, Clamp(r)) \o SubSeq(buffer, Clamp(r) + 1, Len(buffer)) = buffer
    BY <1>2, TakeCuts, CutInTwo DEF TypeOK
  <2>2. taken' \o buffer' = taken \o buffer
    <3>1. taken \in Seq(1 .. MaxBytes)
      BY DEF TypeOK
    <3>2. /\ taken' = taken \o SubSeq(buffer, 1, Clamp(r))
          /\ buffer' = SubSeq(buffer, Clamp(r) + 1, Len(buffer))
      BY <1>2, TakeCuts
    <3>3. Clamp(r) \in 0 .. Len(buffer) /\ buffer \in Seq(1 .. MaxBytes)
      BY <1>2, TakeCuts DEF TypeOK
    <3> QED
      BY <3>1, <3>2, <3>3, MoveTheCut, Zenon
  <2> QED
    BY <1>2, <2>2 DEF EveryByteOnce, Take
<1>3. ASSUME UNCHANGED <<appended, buffer, taken>> PROVE EveryByteOnce'
  BY <1>3 DEF EveryByteOnce
<1> QED
  BY <1>1, <1>2, <1>3
     DEF Next, Read, CheckDeadline, Wait, SetReadDeadline, Expire, vars

\* A reader starts to wait only when the buffer is empty, and an Append wakes it.
LEMMA WaitStep ==
    ASSUME ReaderAssumption, TypeOK, NobodyWaitsInVain, [Next]_vars
    PROVE  NobodyWaitsInVain'
<1>1. ASSUME NEW n \in Chunks, AppendData(n) PROVE NobodyWaitsInVain'
  BY <1>1 DEF TypeOK, NobodyWaitsInVain, AppendData
<1>2. ASSUME NEW r \in Readers, NEW n \in Sizes, Read(r, n) PROVE NobodyWaitsInVain'
  BY <1>2 DEF TypeOK, NobodyWaitsInVain, Read
<1>3. ASSUME NEW r \in Readers, CheckDeadline(r) PROVE NobodyWaitsInVain'
  BY <1>3 DEF TypeOK, NobodyWaitsInVain, CheckDeadline
<1>4. ASSUME NEW r \in Readers, Wait(r) PROVE NobodyWaitsInVain'
  BY <1>4 DEF TypeOK, NobodyWaitsInVain, Wait
<1>5. ASSUME NEW r \in Readers, Take(r) PROVE NobodyWaitsInVain'
  <2>1. buffer # <<>> /\ pc' = [pc EXCEPT ![r] = "idle"]
    BY <1>5 DEF Take
  <2> QED
    BY <2>1 DEF TypeOK, NobodyWaitsInVain
<1>6. ASSUME UNCHANGED <<buffer, pc>> PROVE NobodyWaitsInVain'
  BY <1>6 DEF NobodyWaitsInVain
<1> QED
  BY <1>1, <1>2, <1>3, <1>4, <1>5, <1>6 DEF Next, SetReadDeadline, Expire, vars

\* A step in which a Read comes back from the buffer is a Take, which takes at least
\* one byte unless none was asked for.
LEMMA ReturnStep ==
    ASSUME ReaderAssumption, TypeOK, [Next]_vars, NEW r \in Readers,
           pc[r] \in {"locked", "wait"}, pc'[r] = "idle"
    PROVE  got'[r] # <<>> \/ want[r] = 0
<1>1. Take(r)
  <2>1. ASSUME NEW n \in Chunks, AppendData(n) PROVE FALSE
    BY <2>1 DEF TypeOK, AppendData
  <2>2. ASSUME NEW q \in Readers, NEW n \in Sizes, Read(q, n) PROVE FALSE
    BY <2>2 DEF TypeOK, Read
  <2>3. ASSUME NEW q \in Readers, CheckDeadline(q) PROVE FALSE
    BY <2>3 DEF TypeOK, CheckDeadline
  <2>4. ASSUME NEW q \in Readers, Wait(q) PROVE FALSE
    BY <2>4 DEF TypeOK, Wait
  <2>5. ASSUME NEW q \in Readers, Take(q) PROVE q = r
    BY <2>5 DEF TypeOK, Take
  <2>6. ASSUME UNCHANGED pc PROVE FALSE
    BY <2>6
  <2> QED
    BY <2>1, <2>2, <2>3, <2>4, <2>5, <2>6 DEF Next, SetReadDeadline, Expire, vars
<1>2. ASSUME want[r] # 0 PROVE got'[r] # <<>>
  <2>1. got'[r] = SubSeq(buffer, 1, Clamp(r)) /\ Len(SubSeq(buffer, 1, Clamp(r))) = Clamp(r)
    BY <1>1, TakeCuts, CutInTwo DEF TypeOK
  <2>2. Clamp(r) > 0
    BY <1>1, <1>2, TakeCuts
  <2>3. got'[r] = <<>> => Len(SubSeq(buffer, 1, Clamp(r))) = 0
    BY <2>1, EmptySeq, Zenon
  <2>4. Clamp(r) \in Nat
    BY <1>1, TakeCuts DEF TypeOK
  <2> QED
    BY <2>1, <2>2, <2>3, <2>4
<1> QED
  BY <1>2

\* The inductive invariant.
ReaderInv == TypeOK /\ EveryByteOnce /\ NobodyWaitsInVain

\* The three invariants together hold of every state of Reader.
THEOREM ReaderCorrect == Spec => []ReaderInv
<1> USE ReaderAssumption
<1>1. Init => ReaderInv
  <2> SUFFICES ASSUME Init PROVE ReaderInv
    OBVIOUS
  <2>1. TypeOK
    <3>1. <<>> \in Seq(1 .. MaxBytes)
      BY EmptySeq
    <3>2. appended \in 0 .. MaxBytes /\ sets \in 0 .. MaxSets
      BY DEF Init, ReaderAssumption
    <3>3. got \in [Readers -> Seq(1 .. MaxBytes)]
      BY <3>1, Zenon DEF Init
    <3>4. buffer \in Seq(1 .. MaxBytes) /\ taken \in Seq(1 .. MaxBytes)
      BY <3>1, Zenon DEF Init
    <3>5. /\ pc \in [Readers -> {"idle", "check", "locked", "wait"}]
          /\ want \in [Readers -> Sizes \cup {0}]
      BY Zenon DEF Init
    <3>6. deadlineSet \in BOOLEAN /\ deadline \in {"zero", "future", "past"}
      BY Zenon DEF Init
    <3> QED
      BY <3>2, <3>3, <3>4, <3>5, <3>6, Zenon DEF TypeOK
  <2>2. EveryByteOnce
    <3>1. [i \in 1 .. 0 |-> i] = <<>>
      OBVIOUS
    <3>2. <<>> \o <<>> = <<>>
      OBVIOUS
    <3> QED
      BY <3>1, <3>2 DEF Init, EveryByteOnce
  <2>3. NobodyWaitsInVain
    BY DEF Init, NobodyWaitsInVain
  <2> QED
    BY <2>1, <2>2, <2>3 DEF ReaderInv
<1>2. ReaderInv /\ [Next]_vars => ReaderInv'
  BY TypesStep, BytesStep, WaitStep DEF ReaderInv
<1> QED
  BY <1>1, <1>2, PTL DEF Spec

\* The readers, the buffer and the deadline of a PartsStream are well typed.
THEOREM ReaderTypes == Spec => []TypeOK
<1>1. ReaderInv => TypeOK
  BY DEF ReaderInv
<1> QED
  BY <1>1, ReaderCorrect, PTL

\* PacketBuffer: every byte that was appended goes to one Read, in order.
THEOREM BytesReadOnce == Spec => []EveryByteOnce
<1>1. ReaderInv => EveryByteOnce
  BY DEF ReaderInv
<1> QED
  BY <1>1, ReaderCorrect, PTL

\* PacketBuffer: no wakeup is lost.
THEOREM NoLostWakeup == Spec => []NobodyWaitsInVain
<1>1. ReaderInv => NobodyWaitsInVain
  BY DEF ReaderInv
<1> QED
  BY <1>1, ReaderCorrect, PTL

\* Read: what comes back from the buffer is not empty.
THEOREM ReadsHaveData == Spec => ReturnsWithData
<1>1. ReaderInv /\ [Next]_vars =>
        [\A r \in Readers : pc[r] \in {"locked", "wait"} /\ pc'[r] = "idle" =>
            got'[r] # <<>> \/ want[r] = 0]_vars
  BY ReturnStep, ReaderAssumption DEF ReaderInv
<1> QED
  BY <1>1, ReaderCorrect, PTL DEF Spec, ReturnsWithData
=============================================================================
