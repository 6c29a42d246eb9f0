-------------------------------- MODULE Ecmp --------------------------------
(***************************************************************************)
(* SchedulerECMP.ScheduleWrite and splitBytes (scheduler_ecmp.go): how one *)
(* Write is cut into parts.  A slice of the data is the half-open interval *)
(* from .. to - 1 of the bytes of the Write; the bytes do not matter.      *)
(* A Go map is ranged over in any order, so the order in which the         *)
(* dataplane streams come is a parameter.                                  *)
(* A definition named X_Something is X with a mistake in it, to test the   *)
(* properties with.                                                        *)
(***************************************************************************)
EXTENDS Integers, Sequences

CONSTANTS
    SmallWrite,      \* the longest Write that is not split (1000)
    PartsPerStream   \* parts made of one stream's share (5)

ASSUME EcmpAssumption ==
    /\ SmallWrite \in Nat
    /\ PartsPerStream \in Nat \ {0}

PieceSize_RestToFirst(len, n, i) == len \div n + (IF i = 1 THEN len % n ELSE 0)

\* splitBytes: n consecutive slices, the first len % n of them one byte longer.
PieceSize(len, n, i) == len \div n + (IF i <= len % n THEN 1 ELSE 0)

\* start, after each round of its loop
PieceEnds(len, n) ==
    LET end[i \in 0 .. n] == IF i = 0 THEN 0 ELSE end[i - 1] + PieceSize(len, n, i)
    IN  end

SplitBytes(len, n) ==
    LET m   == IF n > len THEN len ELSE n
        end == PieceEnds(len, m)
    IN  [i \in 1 .. m |-> [from |-> end[i - 1], to |-> end[i]]]

Part_RestLost(share, j) ==
    LET partSize == (share.to - share.from) \div PartsPerStream
    IN  [from |-> share.from + j * partSize, to |-> share.from + (j + 1) * partSize]

Part_EndsAtStart(share, j) ==
    LET partSize == (share.to - share.from) \div PartsPerStream
    IN  [from |-> share.from + j * partSize,
         to   |-> IF j = PartsPerStream - 1 THEN share.to ELSE share.from + j * partSize]

\* Part j of a stream's share (j counts from 0): the last takes what is left.
Part(share, j) ==
    LET len      == share.to - share.from
        partSize == len \div PartsPerStream
        upTo     == IF j = PartsPerStream - 1 \/ (j + 1) * partSize > len
                    THEN len ELSE (j + 1) * partSize
    IN  [from |-> share.from + j * partSize, to |-> share.from + upTo]

\* A short Write goes to the first stream met as it is; a long one gives every
\* stream a share, in PartsPerStream parts.
ScheduleWrite(len, order) ==
    IF len <= SmallWrite
    THEN <<[dp |-> Head(order), data |-> [from |-> 0, to |-> len]]>>
    ELSE LET distribution == SplitBytes(len, Len(order))
         IN  [k \in 1 .. PartsPerStream * Len(order) |->
                 LET index == (k - 1) \div PartsPerStream + 1
                     j     == (k - 1) % PartsPerStream
                 IN  [dp |-> order[index], data |-> Part(distribution[index], j)]]
=============================================================================
