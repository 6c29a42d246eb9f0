------------------------------ MODULE MCControl ------------------------------
(***************************************************************************)
(* ControlStream between a dialer and a listener, with a goroutine at each *)
(* that may make calls.                                                    *)
(***************************************************************************)
EXTENDS ControlStream, TLC

CONSTANTS dialer, listener, g1, g2

MCEndOf == g1 :> dialer @@ g2 :> listener

\* One goroutine that opens streams and changes preferences.
MCOneCalls == [callers |-> {g1}, opens |-> 3, changes |-> 2, accepts |-> 3]

\* Both ends open a stream at the same time.
MCBothCall == [callers |-> {g1, g2}, opens |-> 2, changes |-> 0, accepts |-> 1]

MCLoads == {MCOneCalls, MCBothCall}

\* The dialer opens one stream.
MCOneOpens == {[callers |-> {g1}, opens |-> 1, changes |-> 0, accepts |-> 2]}

MCSymmetry == Permutations(Ids)
=============================================================================
