------------------------------- MODULE Reader -------------------------------
(***************************************************************************)
(* The reading side of a PartsStream (qparts_stream.go): goroutines that   *)
(* call Read, the PacketBuffer they wait on (pkg/qpnet/packet_buf.go), the *)
(* readLoops that append to it, and the read deadline.  Bytes are numbered *)
(* in the order in which they are appended.                                *)
(*                                                                         *)
(* A definition named X_Something is X with a mistake in it, to test the   *)
(* properties with.                                                        *)
(***************************************************************************)
EXTENDS Integers, Sequences, FiniteSets

CONSTANTS
    Readers,    \* goroutines that call Read
    Chunks,     \* how many bytes one Append may bring
    Sizes,      \* how many bytes one Read may ask for
    MaxBytes,   \* bound on the bytes appended
    MaxSets     \* bound on the calls of SetReadDeadline and SetDeadline

ASSUME ReaderAssumption ==
    /\ Chunks \subseteq Nat \ {0}
    /\ Sizes \subseteq Nat
    /\ MaxBytes \in Nat
    /\ MaxSets \in Nat

VARIABLES
    appended,     \* the number of bytes appended so far
    buffer,       \* PacketBuffer.buffer
    pc,           \* pc[r]: where reader r is
    want,         \* want[r]: len(b) of its Read
    got,          \* got[r]: the bytes that its last Read returned
    taken,        \* the bytes taken out of the buffer, in order
    deadlineSet,  \* PartsStream.deadlineSet
    deadline,     \* readDeadline: "zero", "future" or "past"
    sets          \* the number of deadlines set so far

vars == <<appended, buffer, pc, want, got, taken, deadlineSet, deadline, sets>>

Init ==
    /\ appended = 0
    /\ buffer = <<>>
    /\ pc = [r \in Readers |-> "idle"]
    /\ want = [r \in Readers |-> 0]
    /\ got = [r \in Readers |-> <<>>]
    /\ taken = <<>>
    /\ deadlineSet = FALSE
    /\ deadline = "zero"
    /\ sets = 0

-----------------------------------------------------------------------------
AppendData_SignalsOne(n) ==
    /\ appended + n <= MaxBytes
    /\ buffer' = buffer \o [i \in 1 .. n |-> appended + i]
    /\ appended' = appended + n
    /\ \/ /\ \A r \in Readers : pc[r] # "wait"
          /\ UNCHANGED pc
       \/ \E r \in Readers : pc[r] = "wait" /\ pc' = [pc EXCEPT ![r] = "locked"]
    /\ UNCHANGED <<want, got, taken, deadlineSet, deadline, sets>>

\* PacketBuffer.Append: cond.Broadcast wakes every reader that waits.
AppendData(n) ==
    /\ appended + n <= MaxBytes
    /\ buffer' = buffer \o [i \in 1 .. n |-> appended + i]
    /\ appended' = appended + n
    /\ pc' = [r \in Readers |-> IF pc[r] = "wait" THEN "locked" ELSE pc[r]]
    /\ UNCHANGED <<want, got, taken, deadlineSet, deadline, sets>>

\* PartsStream.Read looks at deadlineSet, without the lock.
Read(r, n) ==
    /\ pc[r] = "idle"
    /\ pc' = [pc EXCEPT ![r] = IF deadlineSet THEN "check" ELSE "locked"]
    /\ want' = [want EXCEPT ![r] = n]
    /\ got' = [got EXCEPT ![r] = <<>>]
    /\ UNCHANGED <<appended, buffer, taken, deadlineSet, deadline, sets>>

\* It looks at the deadline, once, before it goes to the buffer: "read timeout".
CheckDeadline(r) ==
    /\ pc[r] = "check"
    /\ pc' = [pc EXCEPT ![r] = IF deadline = "past" THEN "idle" ELSE "locked"]
    /\ UNCHANGED <<appended, buffer, want, got, taken, deadlineSet, deadline, sets>>

\* PacketBuffer.Read with the lock held: the buffer is empty, cond.Wait.
Wait(r) ==
    /\ pc[r] = "locked"
    /\ buffer = <<>>
    /\ pc' = [pc EXCEPT ![r] = "wait"]
    /\ UNCHANGED <<appended, buffer, want, got, taken, deadlineSet, deadline, sets>>

Take_WokenOnce(r) ==
    /\ pc[r] = "locked"
    /\ LET n == IF want[r] > Len(buffer) THEN Len(buffer) ELSE want[r]
       IN  /\ got' = [got EXCEPT ![r] = SubSeq(buffer, 1, n)]
           /\ taken' = taken \o SubSeq(buffer, 1, n)
           /\ buffer' = SubSeq(buffer, n + 1, Len(buffer))
    /\ pc' = [pc EXCEPT ![r] = "idle"]
    /\ UNCHANGED <<appended, want, deadlineSet, deadline, sets>>

Take_DropsRest(r) ==
    /\ pc[r] = "locked"
    /\ buffer # <<>>
    /\ LET n == IF want[r] > Len(buffer) THEN Len(buffer) ELSE want[r]
       IN  /\ got' = [got EXCEPT ![r] = SubSeq(buffer, 1, n)]
           /\ taken' = taken \o SubSeq(buffer, 1, n)
           /\ buffer' = <<>>
    /\ pc' = [pc EXCEPT ![r] = "idle"]
    /\ UNCHANGED <<appended, want, deadlineSet, deadline, sets>>

Take_NotClamped(r) ==
    /\ pc[r] = "locked"
    /\ buffer # <<>>
    /\ LET n    == want[r]
           data == [i \in 1 .. n |-> IF i <= Len(buffer) THEN buffer[i] ELSE 0]
       IN  /\ got' = [got EXCEPT ![r] = data]
           /\ taken' = taken \o data
           /\ buffer' = SubSeq(buffer, n + 1, Len(buffer))
    /\ pc' = [pc EXCEPT ![r] = "idle"]
    /\ UNCHANGED <<appended, want, deadlineSet, deadline, sets>>

\* It is not empty: take what was asked for, or all there is, and return it.
Take(r) ==
    /\ pc[r] = "locked"
    /\ buffer # <<>>
    /\ LET n == IF want[r] > Len(buffer) THEN Len(buffer) ELSE want[r]
       IN  /\ got' = [got EXCEPT ![r] = SubSeq(buffer, 1, n)]
           /\ taken' = taken \o SubSeq(buffer, 1, n)
           /\ buffer' = SubSeq(buffer, n + 1, Len(buffer))
    /\ pc' = [pc EXCEPT ![r] = "idle"]
    /\ UNCHANGED <<appended, want, deadlineSet, deadline, sets>>

\* SetReadDeadline and SetDeadline.  SetWriteDeadline sets deadlineSet too, which
\* makes no difference to Read.
SetReadDeadline(t) ==
    /\ sets < MaxSets
    /\ sets' = sets + 1
    /\ deadline' = t
    /\ deadlineSet' = TRUE
    /\ UNCHANGED <<appended, buffer, pc, want, got, taken>>

\* Time passes.
Expire ==
    /\ deadline = "future"
    /\ deadline' = "past"
    /\ UNCHANGED <<appended, buffer, pc, want, got, taken, deadlineSet, sets>>

-----------------------------------------------------------------------------
Next ==
    \/ \E n \in Chunks : AppendData(n)
    \/ \E r \in Readers : \/ \E n \in Sizes : Read(r, n)
                          \/ CheckDeadline(r) \/ Wait(r) \/ Take(r)
    \/ \E t \in {"zero", "future", "past"} : SetReadDeadline(t)
    \/ Expire

Spec == Init /\ [][Next]_vars

\* A reader that waits for the lock gets it, and time passes.
Fairness ==
    /\ WF_vars(Expire)
    /\ \A r \in Readers : WF_vars(CheckDeadline(r)) /\ WF_vars(Wait(r)) /\ SF_vars(Take(r))

FairSpec == Spec /\ Fairness

-----------------------------------------------------------------------------
(* Properties. *)

\* Every variable has its type.
TypeOK ==
    /\ appended \in 0 .. MaxBytes
    /\ buffer \in Seq(1 .. MaxBytes)
    /\ pc \in [Readers -> {"idle", "check", "locked", "wait"}]
    /\ want \in [Readers -> Sizes \cup {0}]
    /\ got \in [Readers -> Seq(1 .. MaxBytes)]
    /\ taken \in Seq(1 .. MaxBytes)
    /\ deadlineSet \in BOOLEAN
    /\ deadline \in {"zero", "future", "past"}
    /\ sets \in 0 .. MaxSets

\* However many goroutines read, in pieces of whatever size, each byte goes to one
\* of them and they get the bytes in the order of the Appends: what was taken and
\* what is left make up what was appended.
EveryByteOnce == taken \o buffer = [i \in 1 .. appended |-> i]

\* No wakeup is lost: nobody waits while there is something to read, not even after
\* a reader that was woken with others left something behind.
NobodyWaitsInVain == buffer # <<>> => \A r \in Readers : pc[r] # "wait"

\* A Read that has gone to the buffer never comes back with nothing: neither because
\* another reader, woken by the same Append, was there before it, nor because a
\* deadline is set or passes meanwhile ("sets the deadline for future Read calls").
ReturnsWithData ==
    [][\A r \in Readers : pc[r] \in {"locked", "wait"} /\ pc'[r] = "idle" =>
           got'[r] # <<>> \/ want[r] = 0]_vars

\* A Read returns once there is data for it, unless the others take it all.
ReadsReturn ==
    \A r \in Readers : pc[r] # "idle" /\ buffer # <<>> ~> pc[r] = "idle" \/ buffer = <<>>
=============================================================================
