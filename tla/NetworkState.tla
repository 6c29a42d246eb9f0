---------------------------- MODULE NetworkState ----------------------------
(***************************************************************************)
(* qpmetrics.State: the paths to every remote, which of them a selection   *)
(* makes active, and what is measured on them.  A remote is a host and a   *)
(* port, so the same path leads to several remotes: to the control         *)
(* connection of a host, and to every dataplane connection.  AddRemote,    *)
(* ActivePaths and the counters are in pkg/qpmetrics/metrics.go; the QUIC  *)
(* tracers that add to them in pkg/qpnet/quic_conn_tracer.go; the tickers, *)
(* one for each connection of the process, that look for paths with a      *)
(* shared bottleneck and start the counters again in qparts_dataplane.go;  *)
(* InitialPathSelection in scheduler_ecmp.go.                              *)
(*                                                                         *)
(* The order of a Go map and the random choices of the code are            *)
(* nondeterministic, so slices that are only filtered, shuffled and cut    *)
(* are sets here.  Scheduler.InitialPathSelection, which Connect calls,    *)
(* passes the call on to OnNewStream instead (scheduler.go), and nothing   *)
(* calls AddRemote, so both are for an application that uses the plugin    *)
(* and the state itself.                                                   *)
(*                                                                         *)
(* The counters have no lock.  An addition loads and then stores, and what *)
(* happens in between is undone.  The callbacks of a connection run in one *)
(* goroutine, and a path has one connection to a remote.  The maps hold    *)
(* pointers: a goroutine that has taken one goes on with that entry when   *)
(* AddRemote puts another into the map.  A ticker goes through the paths   *)
(* of one remote after those of another; here it goes through all of them  *)
(* in any order, which allows more.                                        *)
(*                                                                         *)
(* A definition named X_Something is X with a mistake in it, to test the   *)
(* properties with.                                                        *)
(***************************************************************************)
EXTENDS Integers, Sequences, FiniteSets, FiniteSetsExt, SequencesExt

CONSTANTS
    Addrs,     \* the remotes: the keys of State.Remotes
    Ids,       \* ids of paths
    ZeroId,    \* the id 0; ids are hashes, and none is set apart
    Tickers,   \* the goroutines of StartMeasurements
    Loads,     \* what may happen: see Load
    None

\* The keys of the metrics: a remote and the id of a path to it.
Entries == Addrs \X Ids

\* meta: the hops and the MTU that SCION tells of each path; paths: the paths there
\* are to each remote; selections: whether paths are selected; tickers: the
\* connections that measure; queries, additions: bounds on the calls of AddRemote and
\* on the packets that are counted; size: how many bytes the packets on each path have.
Load == [meta : [Ids -> [hops : Nat, mtu : Nat]], paths : SUBSET Entries, selections : BOOLEAN,
         tickers : SUBSET Tickers, queries : Nat, additions : Nat, size : [Entries -> Nat]]

ASSUME NetworkStateAssumption ==
    /\ IsFiniteSet(Addrs) /\ IsFiniteSet(Ids) /\ IsFiniteSet(Tickers)
    /\ Loads \subseteq Load

VARIABLES
    load,      \* the circumstances, which do not change
    remotes,   \* State.Remotes: <<remote, path id>> -> a pointer, the slot of its entry
    heap,      \* heap[p][slot]: an entry of p, see NewEntry
    chosen,    \* what the last selection chose: [low, high]; low = {} before
    tracer,    \* tracer[p]: the addition that the tracer of p has begun, or None
    ticker,    \* ticker[t]: [pc, todo, hold, copies]
    queries,   \* how often AddRemote was called
    additions, \* how many packets have been counted
    dead       \* the process has panicked

vars == <<load, remotes, heap, chosen, tracer, ticker, queries, additions, dead>>

Counters == {"Throughput", "Packetloss", "CwndDecreaseEvents"}

\* An entry stays as long as the map, a tracer or a ticker points to it.
Slots == 1 .. Cardinality(Tickers) + 2

\* What a tracer remembers of the addition that it has begun.
Adding == [slot : Slots, counter : Counters, n : Nat, loaded : Nat]

ASSUME NoneAssumption == None \notin Adding

Held(p) ==
    {tracer[q].slot : q \in {q \in {p} : tracer[q] # None}} \cup
    {ticker[t].hold[2] : t \in {t \in Tickers : ticker[t].hold # None /\ ticker[t].hold[1] = p}}

PathMetrics(p) == heap[p][remotes[p]]
Hops(p) == load.meta[p[2]].hops
MTU(p)  == load.meta[p[2]].mtu

ToPathSlice(r) == {p \in DOMAIN remotes : p[1] = r}
ActivePaths(r) == {p \in ToPathSlice(r) : PathMetrics(p).state = "active"}
-----------------------------------------------------------------------------
(* selectLowLatencyAndHighThroughputPaths *)

filterPathsByHops(paths) ==
    {p \in paths : \A q \in paths : Hops(p) <= Hops(q)}

filterPathsByMTU(paths, exclude) ==
    {p \in paths \ {exclude} : \A q \in paths : MTU(q) <= MTU(p)}

\* shufflePaths and selectTopN: any n of them, or all.
TopN(paths, n) == kSubset(IF n > Cardinality(paths) THEN Cardinality(paths) ELSE n, paths)

\* The two paths of the largest MTU, and others if there are fewer.
HighThroughput(paths, low) ==
    UNION {{high \cup more : more \in TopN(paths \ (high \cup {low}), 2 - Cardinality(high))} :
              high \in TopN(filterPathsByMTU(paths, low), 2)}

\* The pairs that may be returned.  One path is used for everything, of two any is
\* the low-latency one.
Selections(paths) ==
    LET lows == IF Cardinality(paths) <= 2 THEN paths ELSE filterPathsByHops(paths)
    IN  UNION {{[low |-> {l}, high |-> h] :
                   h \in IF Cardinality(paths) <= 2 THEN {paths \ {l}}
                         ELSE HighThroughput(paths, l)} : l \in lows}

-----------------------------------------------------------------------------
Sleeping == [pc |-> "sleep", todo |-> {}, hold |-> None, copies |-> <<>>]

Init ==
    /\ load \in Loads
    /\ remotes = [p \in {} |-> 1]
    /\ heap = [p \in Entries |-> [s \in Slots |-> None]]
    /\ chosen = [low |-> {}, high |-> {}]
    /\ tracer = [p \in Entries |-> None]
    /\ ticker = [t \in Tickers |-> Sleeping]
    /\ queries = 0
    /\ additions = 0
    /\ dead = FALSE

\* &PathMetrics{Path: &path}: the path is inactive, and nothing has been counted.  Of
\* every counter it is remembered how many additions have begun and what they have
\* added, and how many were there when it was last reset with none under way.
NewEntry ==
    [state |-> "inactive", pref |-> "latency", counters |-> [c \in Counters |-> 0],
     begun |-> [c \in Counters |-> 0], added |-> [c \in Counters |-> <<>>],
     settled |-> [c \in Counters |-> 0]]

\* A query for a remote: every path that QueryPaths finds gets a new entry; those of an
\* earlier query that it does not find are kept.  A ticker that ranges over the map may or
\* may not come to the paths in again.
Query(paths, again) ==
    LET slot == [p \in paths |-> CHOOSE s \in Slots : s \notin Held(p)]
    IN  /\ ~dead
        /\ queries < load.queries
        /\ remotes' = [p \in paths \cup DOMAIN remotes |->
                          IF p \in paths THEN slot[p] ELSE remotes[p]]
        /\ heap' = [p \in Entries |->
                      IF p \in paths
                      THEN [s \in Slots |-> IF s = slot[p] THEN NewEntry
                                            ELSE IF s \in Held(p) THEN heap[p][s] ELSE None]
                      ELSE heap[p]]
        /\ \E more \in [Tickers -> SUBSET again] :
              /\ \A t \in Tickers : ticker[t].pc = "sleep" => more[t] = {}
              /\ ticker' = [t \in Tickers |-> [ticker[t] EXCEPT !.todo = @ \cup more[t]]]
        /\ queries' = queries + 1
        /\ UNCHANGED <<load, chosen, tracer, additions, dead>>

AddRemote_TakesOut(paths) == Query(paths, paths)

\* AddRemote stores over the entries that are there already, so that a ticker does not
\* come to them once more; to those which are new it may.
AddRemote(paths) == Query(paths, paths \ DOMAIN remotes)

\* AddRemote holds the lock, but the tickers that range over the map and the tracers
\* that read it do not take it: the Go runtime ends a process that it finds doing both.
MapRace ==
    /\ ~dead
    /\ queries < load.queries
    /\ \/ \E t \in Tickers : ticker[t].pc # "sleep"
       \/ \E p \in Entries : tracer[p] # None
    /\ dead' = TRUE
    /\ UNCHANGED <<load, remotes, heap, chosen, tracer, ticker, queries, additions>>

\* What a selection makes of path p.
Marked_KeepsPref(p, s) ==
    CASE p \in s.high -> [PathMetrics(p) EXCEPT !.pref = "throughput", !.state = "active"]
      [] p \in s.low  -> [PathMetrics(p) EXCEPT !.state = "active"]
      [] OTHER        -> PathMetrics(p)

Marked(p, s) ==
    CASE p \in s.high -> [PathMetrics(p) EXCEPT !.pref = "throughput", !.state = "active"]
      [] p \in s.low  -> [PathMetrics(p) EXCEPT !.pref = "latency", !.state = "active"]
      [] OTHER        -> PathMetrics(p)

\* SchedulerECMP.InitialPathSelection.  (Without any path findMinHops would panic.)
InitialPathSelection(r) ==
    /\ ~dead
    /\ load.selections
    /\ ToPathSlice(r) # {}
    /\ \E s \in Selections(ToPathSlice(r)) :
          /\ heap' = [p \in Entries |-> IF p \in ToPathSlice(r)
                                        THEN [heap[p] EXCEPT ![remotes[p]] = Marked(p, s)]
                                        ELSE heap[p]]
          /\ chosen' = s
    /\ UNCHANGED <<load, remotes, tracer, ticker, queries, additions, dead>>

-----------------------------------------------------------------------------
(* The tracer of the connection to p: AddThroughput, AddPacketLoss and        *)
(* AddConnStateRecovery.                                                      *)

\* n.Remotes[remote][pathId].c += n loads the counter ...
BeginAdd(p, c, n) ==
    /\ ~dead
    /\ p[2] # ZeroId /\ p \in DOMAIN remotes
    /\ tracer[p] = None
    /\ additions < load.additions
    /\ additions' = additions + 1
    /\ tracer' = [tracer EXCEPT ![p] = [slot |-> remotes[p], counter |-> c, n |-> n,
                                        loaded |-> PathMetrics(p).counters[c]]]
    /\ heap' = [heap EXCEPT ![p][remotes[p]].begun[c] = @ + 1]
    /\ UNCHANGED <<load, remotes, chosen, ticker, queries, dead>>

\* "PathId cannot be 0", or no entry to add to.
AddPanics(p) ==
    /\ ~dead
    /\ p \in load.paths
    /\ p[2] = ZeroId \/ p \notin DOMAIN remotes
    /\ additions < load.additions
    /\ dead' = TRUE
    /\ UNCHANGED <<load, remotes, heap, chosen, tracer, ticker, queries, additions>>

\* The end of the addition a: the sum goes to an entry of p.
Store(p, slot, a) ==
    /\ ~dead
    /\ tracer[p] # None
    /\ heap' = [heap EXCEPT ![p][slot].counters[a.counter] = a.loaded + a.n,
                            ![p][slot].added[a.counter] = Append(@, a.n)]
    /\ tracer' = [tracer EXCEPT ![p] = None]
    /\ UNCHANGED <<load, remotes, chosen, ticker, queries, additions, dead>>

EndAdd_LooksUpAgain(p) == Store(p, remotes[p], tracer[p])

\* ... and stores the sum.
EndAdd(p) == Store(p, tracer[p].slot, tracer[p])

Tracer(p) ==
    \/ BeginAdd(p, "Throughput", load.size[p])
    \/ BeginAdd(p, "Packetloss", 1)
    \/ BeginAdd(p, "CwndDecreaseEvents", 1)
    \/ AddPanics(p)
    \/ EndAdd(p)

-----------------------------------------------------------------------------
(* FindSimilarPaths *)

\* isSimilar(a/b, c/d, 0.1) for b, d > 0.
isSimilar(a, b, c, d) ==
    LET difference == a * d - c * b
    IN  10 * (IF difference < 0 THEN -difference ELSE difference) <= b * d

Alike(x, y) ==
    \/ isSimilar(x.Packetloss, x.Throughput, y.Packetloss, y.Throughput)
    \/ isSimilar(x.CwndDecreaseEvents, x.Throughput, y.CwndDecreaseEvents, y.Throughput)

\* The pairs of paths whose rates of loss, or of congestion, differ by 0.1 at most.
FindSimilarPaths(paths) ==
    LET Counted(x) == x.counters.Throughput # 0 /\ x.counters.Packetloss # 0
    IN  {<<paths[ij[1]], paths[ij[2]]>> : ij \in
            {ij \in (DOMAIN paths) \X (DOMAIN paths) :
                /\ ij[1] < ij[2]
                /\ Counted(paths[ij[1]]) /\ Counted(paths[ij[2]])
                /\ Alike(paths[ij[1]].counters, paths[ij[2]].counters)}}

-----------------------------------------------------------------------------
(* The ticker of connection t: DetectCongestion, then the counters are reset. *)

Tick(t, from, fields) ==
    /\ ~dead
    /\ t \in load.tickers
    /\ ticker[t].pc = from
    /\ ticker' = [ticker EXCEPT ![t] = fields]
    /\ UNCHANGED <<load, remotes, chosen, tracer, queries, additions, dead>>

StartTick(t) ==
    /\ DOMAIN remotes # {}
    /\ Tick(t, "sleep", [Sleeping EXCEPT !.pc = "scan", !.todo = DOMAIN remotes])
    /\ UNCHANGED heap

\* DetectCongestion comes to p, in the order of the maps, and skips it if its id is 0 or
\* nothing was sent over it ...
Look(t, p) ==
    LET k == ticker[t]
    IN  /\ k.hold = None /\ p \in k.todo
        /\ Tick(t, "scan", IF p[2] = ZeroId \/ PathMetrics(p).counters["Throughput"] = 0
                           THEN [k EXCEPT !.todo = @ \ {p}]
                           ELSE [k EXCEPT !.todo = @ \ {p}, !.hold = <<p, remotes[p]>>])
        /\ UNCHANGED heap

\* ... or else copies its metrics.
Copy(t) ==
    LET k == ticker[t]
    IN  /\ k.hold # None
        /\ Tick(t, "scan", [k EXCEPT !.hold = None, !.copies =
                 Append(@, [path |-> k.hold[1], counters |-> heap[k.hold[1]][k.hold[2]].counters])])
        /\ UNCHANGED heap

\* FindSimilarPaths(copies), whose pairs are printed.
Report(t) ==
    LET k == ticker[t]
    IN  /\ k.todo = {} /\ k.hold = None
        /\ Tick(t, "scan", [Sleeping EXCEPT !.pc = "reset", !.todo = DOMAIN remotes])
        /\ UNCHANGED heap

\* Whether the tracer of p is between the load and the store of an addition.
UnderWay(p, slot, c) == tracer[p] # None /\ tracer[p].slot = slot /\ tracer[p].counter = c

\* How much of a counter is settled when it is reset.
Settled(p, slot, c) ==
    IF UnderWay(p, slot, c) THEN heap[p][slot].settled[c] ELSE Len(heap[p][slot].added[c])

Reset_OfACopy(p, slot, c) ==
    heap' = [heap EXCEPT ![p][slot].settled[c] = Settled(p, slot, c)]

Reset(p, slot, c) ==
    heap' = [heap EXCEPT ![p][slot].counters[c] = 0, ![p][slot].settled[c] = Settled(p, slot, c)]

\* path.Throughput = 0
ResetThroughput(t, p) ==
    LET k == ticker[t]
    IN  /\ k.hold = None /\ p \in k.todo
        /\ Tick(t, "reset", [k EXCEPT !.todo = @ \ {p}, !.hold = <<p, remotes[p]>>])
        /\ Reset(p, remotes[p], "Throughput")

\* path.Packetloss = 0
ResetPacketloss(t) ==
    LET k == ticker[t]
    IN  /\ k.hold # None
        /\ Tick(t, "reset", [k EXCEPT !.hold = None])
        /\ Reset(k.hold[1], k.hold[2], "Packetloss")

EndTick(t) ==
    /\ ticker[t].todo = {} /\ ticker[t].hold = None
    /\ Tick(t, "reset", Sleeping)
    /\ UNCHANGED heap

Ticker(t) ==
    \/ StartTick(t) \/ Copy(t) \/ Report(t) \/ ResetPacketloss(t) \/ EndTick(t)
    \/ \E p \in Entries : Look(t, p) \/ ResetThroughput(t, p)

-----------------------------------------------------------------------------
Next ==
    \/ \E r \in Addrs :
          \/ \E paths \in SUBSET {p \in load.paths : p[1] = r} \ {{}} : AddRemote(paths)
          \/ InitialPathSelection(r)
    \/ \E p \in Entries : Tracer(p)
    \/ \E t \in Tickers : Ticker(t)
    \/ MapRace

Spec == Init /\ [][Next]_vars

-----------------------------------------------------------------------------
(* Properties. *)

\* A selection among three paths or more to a remote is sound, whatever was active
\* before, in whatever order the map gives the paths and however often the remote was
\* queried: it chooses three different paths; the low-latency one has the fewest hops;
\* no path of the largest MTU is left aside while a narrower one is used for
\* throughput; and they end up active, each with the preference it was chosen for.
GoodSelection ==
    [][\A r \in Addrs : InitialPathSelection(r) /\ Cardinality(ToPathSlice(r)) >= 3 =>
         LET low == chosen'.low
             high == chosen'.high
             left == ToPathSlice(r) \ (low \cup high)
         IN  /\ Cardinality(low) = 1 /\ Cardinality(high) = 2 /\ low \cap high = {}
             /\ \A p \in low : \A q \in ToPathSlice(r) : Hops(p) <= Hops(q)
             /\ \A p \in high, q \in left :
                   MTU(p) < MTU(q) =>
                       \E x \in ToPathSlice(r) : MTU(q) < MTU(x)
             /\ low \cup high \subseteq ActivePaths(r)'
             /\ \A p \in low : PathMetrics(p)'.pref = "latency"
             /\ \A p \in high : PathMetrics(p)'.pref = "throughput"]_vars

\* What the tickers read, and reset, is the total of the latest additions of some
\* number: nothing is made up or counted twice, although load and store of an addition
\* are apart.  A reset may be undone, but only by an addition that is under way at that
\* moment: what was there at a reset without one is never seen again.  And of the
\* congestion events, which no ticker resets, all are there.
Latest(count, added, settled) ==
    \E k \in settled .. Len(added) : count = SumFunctionOnSet(added, k + 1 .. Len(added))

LatestPackets ==
    \A p \in DOMAIN remotes :
        LET entry == PathMetrics(p)
        IN  /\ \A c \in Counters : Latest(entry.counters[c], entry.added[c], entry.settled[c])
            /\ entry.counters["CwndDecreaseEvents"] = Len(entry.added["CwndDecreaseEvents"])

\* When AddRemote replaces the entry of a path, the packets counted so far are gone, but
\* no other: an addition ends in the entry in which it began, so that of those which
\* begin after the query only the one that is under way can be missing in the new entry.
EveryPacketCounted ==
    \A p \in DOMAIN remotes, c \in Counters :
        LET entry == PathMetrics(p)
        IN  entry.begun[c] = Len(entry.added[c]) + (IF UnderWay(p, remotes[p], c) THEN 1 ELSE 0)

\* What a ticker is about to report as similar are two entries: while it goes through
\* the maps AddRemote may replace an entry that it has copied, or add others, and still it
\* copies none twice, to find it similar to its own past.  (It may be one path that leads
\* to two remotes: FindSimilarPaths does not compare the ids.)
PairsAreTwo ==
    \A t \in Tickers : \A x \in FindSimilarPaths(ticker[t].copies) : x[1].path # x[2].path
=============================================================================
