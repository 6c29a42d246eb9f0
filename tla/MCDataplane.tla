----------------------------- MODULE MCDataplane -----------------------------
(***************************************************************************)
(* Dataplane with the decisions of the ECMP scheduler, for Writes of the   *)
(* lengths in Lengths.  The scheduler's constants are scaled down together *)
(* (SmallWrite 3, PartsPerStream 2 instead of 1000 and 5).                 *)
(***************************************************************************)
EXTENDS DataplaneInv, TLC, SequencesExt

CONSTANTS SmallWrite, PartsPerStream, Lengths, s1, s2, w1, w2

Ecmp == INSTANCE Ecmp

MCDecisions ==
    {LET dec == Ecmp!ScheduleWrite(len, order)
     IN  [k \in 1 .. Len(dec) |->
             [dp |-> dec[k].dp, size |-> dec[k].data.to - dec[k].data.from]] :
        len \in Lengths, order \in SetToSeqs(Dp)}

\* The hypothesis of NoCompletionLeaks, for what ScheduleWrite returns.
ASSUME NoEmptyParts == PartsHaveBytes

\* Two goroutines that write to a stream each, and two that share a stream.
MCOwnStream == w1 :> s1 @@ w2 :> s2
MCSharedStream == [w \in Writers |-> s1]

MCSymmetry == Permutations(SeqIds)
=============================================================================
