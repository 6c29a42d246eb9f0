------------------------------ MODULE Transfer ------------------------------
(***************************************************************************)
(* What the dataplane promises to the applications, with no parts, queues  *)
(* or paths in it.  A Write is taken, and gets an identity; some time      *)
(* later, once at most and whole, it is appended to what the peer reads    *)
(* from its stream; and at a time of its own the call returns.  A return   *)
(* is not an acknowledgement: it may come before the data.  Writes are not *)
(* ordered among each other.                                               *)
(***************************************************************************)
EXTENDS Integers, Sequences

CONSTANTS Streams, SeqIds

VARIABLES
    asked,      \* asked[q]: the stream that Write q was made on
    received,   \* received[s]: the Writes that the peer can read from s, in order
    done        \* the Writes that have returned

vars == <<asked, received, done>>

Arrived(q) == \E s \in Streams : \E i \in 1 .. Len(received[s]) : received[s][i] = q

Init ==
    /\ asked = [q \in {} |-> q]
    /\ received = [s \in Streams |-> <<>>]
    /\ done = {}

Ask(q, s) ==
    /\ q \notin DOMAIN asked
    /\ asked' = [x \in DOMAIN asked \cup {q} |-> IF x = q THEN s ELSE asked[x]]
    /\ UNCHANGED <<received, done>>

Arrive(q) ==
    /\ q \in DOMAIN asked
    /\ ~ Arrived(q)
    /\ received' = [received EXCEPT ![asked[q]] = Append(@, q)]
    /\ UNCHANGED <<asked, done>>

Return(q) ==
    /\ q \in DOMAIN asked \ done
    /\ done' = done \cup {q}
    /\ UNCHANGED <<asked, received>>

Next ==
    \E q \in SeqIds : \/ \E s \in Streams : Ask(q, s)
                      \/ Arrive(q)
                      \/ Return(q)

Spec == Init /\ [][Next]_vars
=============================================================================
