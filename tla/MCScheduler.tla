---------------------------- MODULE MCScheduler -----------------------------
(***************************************************************************)
(* The scheduler on its own, in three scenarios of which a behaviour is    *)
(* one: paths are queried and selected; paths are measured; a Write is cut *)
(* into parts, for every length of MinLen .. MaxLen and 1 .. MaxStreams    *)
(* dataplane streams, with the constants of the code.                      *)
(***************************************************************************)
EXTENDS NetworkState, Ecmp

CONSTANTS MinLen, MaxLen, MaxStreams

\* A Write that is split is long enough for a byte in every part: with the numbers
\* of the code, there are no more than 200 dataplane streams.
ASSUME MCSchedulerAssumption ==
    /\ MinLen \in Nat
    /\ MaxStreams \in Nat
    /\ PartsPerStream * MaxStreams <= SmallWrite + 1

VARIABLES
    len,       \* the length of the Write
    streams    \* the number of dataplane streams; 0 in the scenarios without a Write

Writing == [meta |-> [p \in Ids |-> [hops |-> 1, mtu |-> 1]], paths |-> {},
            selections |-> FALSE, tickers |-> {}, queries |-> 0, additions |-> 0,
            size |-> [p \in Entries |-> 3]]

\* Every choice of two numbers of hops and two MTUs for all the paths to one remote.
Selecting ==
    {[Writing EXCEPT !.meta = m, !.paths = {r} \X Ids, !.selections = TRUE, !.queries = 2] :
        r \in Addrs, m \in [Ids -> [hops : {1, 2}, mtu : {1, 2}]]}

\* Two entries: two paths to one remote, of which one may have the id 0, or one path to
\* two remotes.  Each can be queried again.
Measured(tickers, n) ==
    {[Writing EXCEPT !.paths = {pq[1], pq[2]}, !.tickers = tickers, !.additions = n,
                     !.queries = 1 + Cardinality({pq[1][1], pq[2][1]})] :
        pq \in {pq \in Entries \X Entries : /\ pq[1] # pq[2]
                                            /\ pq[1][1] = pq[2][1] \/ pq[1][2] = pq[2][2]
                                            /\ pq[1][2] # ZeroId}}

\* One entry, and packets enough for a rate of loss before it is replaced and after.
Replaced ==
    {[Writing EXCEPT !.paths = {p}, !.tickers = {t}, !.additions = 4, !.queries = 2] :
        p \in {p \in Entries : p[2] # ZeroId}, t \in Tickers}

\* One ticker, or two and fewer packets.
MCLoads == Selecting \cup UNION {Measured({t}, 3) : t \in Tickers} \cup Measured(Tickers, 2)
                     \cup Replaced \cup {Writing}

Symmetry == Permutations(Ids \ {ZeroId}) \cup Permutations(Addrs) \cup Permutations(Tickers)

MCInit ==
    /\ Init
    /\ streams \in IF load = Writing THEN 1 .. MaxStreams ELSE {0}
    /\ len \in IF load = Writing THEN {MinLen, SmallWrite} ELSE {MinLen}

\* From both sides of the limit, so that TLC soon comes to the Writes that are split.
LongerWrite == streams > 0 /\ len < MaxLen /\ len' = len + 1 /\ UNCHANGED <<vars, streams>>

MCNext ==
    \/ streams = 0 /\ Next /\ UNCHANGED <<len, streams>>
    \/ LongerWrite

MCSpec == MCInit /\ [][MCNext]_<<vars, len, streams>>

-----------------------------------------------------------------------------
(* Properties of ScheduleWrite. *)

\* The streams are named by the order in which the map is ranged over.
decision == ScheduleWrite(len, [i \in 1 .. streams |-> i])

\* How many bytes dataplane stream d carries.
Share(d) ==
    SumFunctionOnSet([k \in DOMAIN decision |-> decision[k].data.to - decision[k].data.from],
                     {k \in DOMAIN decision : decision[k].dp = d})

\* The parts, taken in the order of their ids, are the bytes of the Write: they
\* start at its first byte, each starts where the one before it ends, and the
\* last ends at the last byte.  AddPart reassembles by this order alone.
PartsAreTheWrite ==
    streams > 0 =>
        /\ decision[1].data.from = 0
        /\ decision[Len(decision)].data.to = len
        /\ \A k \in 1 .. Len(decision) - 1 : decision[k].data.to = decision[k + 1].data.from

\* No Write of at least one byte has an empty part: writeLoop drops an empty part
\* without counting it ("No data sent on dataconn"), so the Write would not return.
NoEmptyPart ==
    streams > 0 /\ len > 0 =>
        \A k \in 1 .. Len(decision) : decision[k].data.from < decision[k].data.to

\* A Write that is split gives every dataplane stream the same number of bytes,
\* but for one byte.
Balanced ==
    streams > 0 /\ len > SmallWrite =>
        \A d, e \in 1 .. streams : Share(d) <= Share(e) + 1
=============================================================================
