---------------------------- MODULE ControlStream ----------------------------
(***************************************************************************)
(* The control connection of a Q-PARTS connection after the handshake      *)
(* (qparts_controlplane.go): the two ends open streams and change their    *)
(* preferences with packets of four 32-bit words over one QUIC stream.     *)
(* At each end that stream has several readers, the control plane's        *)
(* readLoop and every goroutine of the application that waits in           *)
(* OpenStream or ChangeStreamPreference for its request to be echoed.      *)
(* A ReadAll takes words as they arrive, in as many reads as it needs;     *)
(* nothing keeps two ReadAlls apart.                                       *)
(*                                                                         *)
(* The preference itself is stored and never read by the program, so it is *)
(* a word without a value here.                                            *)
(* A definition named X_Something is X with a mistake in it, to test the   *)
(* properties with.                                                        *)
(***************************************************************************)
EXTENDS Integers, Sequences, FiniteSets, FiniteSetsExt

CONSTANTS
    Ends,        \* the two ends of the connection
    Callers,     \* application goroutines that open streams and set preferences
    EndOf,       \* EndOf[g]: the end that g runs at
    Accepting,   \* ends whose application calls AcceptStream
    Ids,         \* what newConnId may return
    Loads,       \* what the applications may do: see Load
    MayLose,     \* whether the connection may be lost
    Garbled,     \* an id put together from words of different packets
    None

\* The goroutines that make calls, and bounds on the numbers of OpenStreams, of
\* ChangeStreamPreferences and, at each end, of AcceptStreams.
Load == [callers : SUBSET Callers, opens : Nat, changes : Nat, accepts : Nat]

\* A request: which kind of packet, about which stream.
Call == [flag : {"hs", "prop"}, id : Ids]

ASSUME ControlAssumption ==
    /\ IsFiniteSet(Ends) /\ Cardinality(Ends) = 2
    /\ IsFiniteSet(Callers)
    /\ EndOf \in [Callers -> Ends]
    /\ Accepting \subseteq Ends
    /\ Loads \subseteq Load
    /\ MayLose \in BOOLEAN
    /\ Garbled \notin Ids /\ None \notin Ids /\ Garbled # None
    /\ None \notin Call

VARIABLES
    load,      \* what the applications do, which does not change
    wire,      \* wire[e]: the words on their way to end e
    opened,    \* opened[id]: the end whose OpenStream has drawn id
    changes,   \* the number of ChangeStreamPreferences so far
    gpc,       \* gpc[g]: where caller g is
    gcall,     \* gcall[g]: its call, [flag, id], or None
    gbuf,      \* gbuf[g]: the words of the answer that it has read
    returned,  \* ids of the streams that OpenStream returned
    cpc,       \* cpc[e]: where the readLoop of e is
    cbuf,      \* cbuf[e]: the words of the packet that it is reading
    seen,      \* seen[e]: ids that the readLoop of e read in a stream handshake
    apc,       \* apc[e]: the stream that AcceptStream at e is storing, or None
    log,       \* log[e]: the ids of the streams that AcceptStream returned at e
    streams,   \* streams[e]: the keys of the stream map of e
    up,        \* the connection is alive
    dead       \* dead[e]: the process of e has panicked

vars == <<load, wire, opened, changes, gpc, gcall, gbuf, returned, cpc, cbuf, seen,
          apc, log, streams, up, dead>>

Peer(e) == CHOOSE f \in Ends : f # e

-----------------------------------------------------------------------------
(* QPartsNewStreamPacket. *)

Word == [w : {"flags", "hi", "lo", "pref"}, v : {"hs", "prop", None} \cup Ids]

Encode(c) == <<[w |-> "flags", v |-> c.flag], [w |-> "hi", v |-> c.id],
               [w |-> "lo", v |-> c.id], [w |-> "pref", v |-> None]>>

\* Decode of four words, of which the first is known to be a flags word.
Flag(p) == p[1].v
Id(p)   == IF p[2].w = "hi" /\ p[3].w = "lo" /\ p[2].v = p[3].v THEN p[2].v ELSE Garbled

Send(e, words) == wire' = [wire EXCEPT ![Peer(e)] = @ \o words]

\* A read of a ReadAll that has got buf so far: some words, at most four in all.
Reads(e, buf, more) ==
    /\ more \in 1 .. Min({4 - Len(buf), Len(wire[e])})
    /\ wire' = [wire EXCEPT ![e] = SubSeq(@, more + 1, Len(@))]

-----------------------------------------------------------------------------
Init ==
    /\ load \in Loads
    /\ wire = [e \in Ends |-> <<>>]
    /\ opened = [id \in {} |-> None]
    /\ changes = 0
    /\ gpc = [g \in Callers |-> "idle"]
    /\ gcall = [g \in Callers |-> None]
    /\ gbuf = [g \in Callers |-> <<>>]
    /\ returned = {}
    /\ cpc = [e \in Ends |-> "flags"]
    /\ cbuf = [e \in Ends |-> <<>>]
    /\ seen = [e \in Ends |-> {}]
    /\ apc = [e \in Ends |-> None]
    /\ log = [e \in Ends |-> <<>>]
    /\ streams = [e \in Ends |-> {}]
    /\ up = TRUE
    /\ dead = [e \in Ends |-> FALSE]

-----------------------------------------------------------------------------
(* OpenStream and ChangeStreamPreference. *)

Request(g, c) ==
    /\ g \in load.callers
    /\ up
    /\ ~dead[EndOf[g]]
    /\ gpc[g] = "idle"
    /\ Send(EndOf[g], Encode(c))
    /\ gcall' = [gcall EXCEPT ![g] = c]
    /\ gpc' = [gpc EXCEPT ![g] = "answer"]
    /\ UNCHANGED <<load, gbuf, returned, cpc, cbuf, seen, apc, log, streams, up, dead>>

OpenStream(g) ==
    \E id \in Ids \ DOMAIN opened :
        /\ Cardinality(DOMAIN opened) < load.opens
        /\ Request(g, [flag |-> "hs", id |-> id])
        /\ opened' = [x \in DOMAIN opened \cup {id} |->
                          IF x = id THEN EndOf[g] ELSE opened[x]]
        /\ UNCHANGED changes

\* A stream with a garbled id is no stream of the peer's; nobody uses it here.
ChangeStreamPreference(g) ==
    \E id \in streams[EndOf[g]] \ {Garbled} :
        /\ changes < load.changes
        /\ Request(g, [flag |-> "prop", id |-> id])
        /\ changes' = changes + 1
        /\ UNCHANGED opened

Answer_AnyRead(g) ==
    /\ ~dead[EndOf[g]]
    /\ gpc[g] = "answer"
    /\ \E more \in 1 .. 4 : Reads(EndOf[g], gbuf[g], more)
    /\ gpc' = [gpc EXCEPT ![g] = "return"]
    /\ UNCHANGED <<load, opened, changes, gcall, gbuf, returned, cpc, cbuf, seen, apc, log,
                   streams, up, dead>>

\* ReadAll(p.Data): whatever the four words are, they are taken for the answer.
Answer(g) ==
    /\ ~dead[EndOf[g]]
    /\ gpc[g] = "answer"
    /\ \E more \in 1 .. 4 :
          /\ Reads(EndOf[g], gbuf[g], more)
          /\ gbuf' = [gbuf EXCEPT ![g] = @ \o SubSeq(wire[EndOf[g]], 1, more)]
          /\ gpc' = IF Len(gbuf[g]) + more = 4 THEN [gpc EXCEPT ![g] = "return"] ELSE gpc
    /\ UNCHANGED <<load, opened, changes, gcall, returned, cpc, cbuf, seen, apc, log,
                   streams, up, dead>>

\* QPartsConn.OpenStream stores the stream in the map; the call returns.
Return(g) ==
    /\ ~dead[EndOf[g]]
    /\ gpc[g] = "return"
    /\ \/ /\ gcall[g].flag = "hs"
          /\ streams' = [streams EXCEPT ![EndOf[g]] = @ \cup {gcall[g].id}]
          /\ returned' = returned \cup {gcall[g].id}
       \/ /\ gcall[g].flag = "prop"
          /\ UNCHANGED <<streams, returned>>
    /\ gpc' = [gpc EXCEPT ![g] = "idle"]
    /\ gcall' = [gcall EXCEPT ![g] = None]
    /\ gbuf' = [gbuf EXCEPT ![g] = <<>>]
    /\ UNCHANGED <<load, wire, opened, changes, cpc, cbuf, seen, apc, log, up, dead>>

\* ReadAll fails and the call returns the error.
CallFails(g) ==
    /\ ~up
    /\ ~dead[EndOf[g]]
    /\ gpc[g] = "answer"
    /\ gpc' = [gpc EXCEPT ![g] = "idle"]
    /\ gcall' = [gcall EXCEPT ![g] = None]
    /\ gbuf' = [gbuf EXCEPT ![g] = <<>>]
    /\ UNCHANGED <<load, wire, opened, changes, returned, cpc, cbuf, seen, apc, log,
                   streams, up, dead>>

-----------------------------------------------------------------------------
(* readLoop of end e. *)

\* ReadAll(header); an unknown flag is skipped.
ReadFlags(e) ==
    /\ ~dead[e]
    /\ cpc[e] = "flags"
    /\ wire[e] # <<>>
    /\ wire' = [wire EXCEPT ![e] = Tail(@)]
    /\ \/ /\ Head(wire[e]).w = "flags"
          /\ cpc' = [cpc EXCEPT ![e] = "body"]
          /\ cbuf' = [cbuf EXCEPT ![e] = <<Head(wire[e])>>]
       \/ /\ Head(wire[e]).w # "flags"
          /\ UNCHANGED <<cpc, cbuf>>
    /\ UNCHANGED <<load, opened, changes, gpc, gcall, gbuf, returned, seen, apc, log,
                   streams, up, dead>>

\* ReadAll(p.Data[4:])
ReadBody(e) ==
    /\ ~dead[e]
    /\ cpc[e] = "body"
    /\ \E more \in 1 .. 3 :
          /\ Reads(e, cbuf[e], more)
          /\ cbuf' = [cbuf EXCEPT ![e] = @ \o SubSeq(wire[e], 1, more)]
          /\ cpc' = IF Len(cbuf[e]) + more = 4 THEN [cpc EXCEPT ![e] = "echo"] ELSE cpc
    /\ UNCHANGED <<load, opened, changes, gpc, gcall, gbuf, returned, seen, apc, log,
                   streams, up, dead>>

Echo_Twice(e) ==
    /\ ~dead[e]
    /\ cpc[e] = "echo"
    /\ up
    /\ Send(e, cbuf[e] \o cbuf[e])
    /\ cpc' = [cpc EXCEPT ![e] = IF Flag(cbuf[e]) = "hs" THEN "offer" ELSE "apply"]
    /\ UNCHANGED <<load, opened, changes, gpc, gcall, gbuf, returned, cbuf, seen, apc, log,
                   streams, up, dead>>

\* WriteAll(p.Data): the answer to a request, but also to what was an answer.
Echo(e) ==
    /\ ~dead[e]
    /\ cpc[e] = "echo"
    /\ up
    /\ Send(e, cbuf[e])
    /\ \/ /\ Flag(cbuf[e]) = "hs"
          /\ cpc' = [cpc EXCEPT ![e] = "offer"]
          /\ seen' = [seen EXCEPT ![e] = @ \cup {Id(cbuf[e])}]
       \/ /\ Flag(cbuf[e]) = "prop"
          /\ cpc' = [cpc EXCEPT ![e] = "apply"]
          /\ UNCHANGED seen
    /\ UNCHANGED <<load, opened, changes, gpc, gcall, gbuf, returned, cbuf, apc, log,
                   streams, up, dead>>

\* ReadAll or WriteAll fails: on to the next packet.
ReadLoopFails(e) ==
    /\ ~up
    /\ ~dead[e]
    /\ cpc[e] \in {"body", "echo"}
    /\ cpc' = [cpc EXCEPT ![e] = "flags"]
    /\ cbuf' = [cbuf EXCEPT ![e] = <<>>]
    /\ UNCHANGED <<load, wire, opened, changes, gpc, gcall, gbuf, returned, seen, apc, log,
                   streams, up, dead>>

\* cp.streams[p.StreamId].Preference = ..., with a nil stream if it is not there.
Apply(e) ==
    /\ ~dead[e]
    /\ cpc[e] = "apply"
    /\ dead' = [dead EXCEPT ![e] = Id(cbuf[e]) \notin streams[e]]
    /\ cpc' = [cpc EXCEPT ![e] = "flags"]
    /\ cbuf' = [cbuf EXCEPT ![e] = <<>>]
    /\ UNCHANGED <<load, wire, opened, changes, gpc, gcall, gbuf, returned, seen, apc, log,
                   streams, up>>

-----------------------------------------------------------------------------
(* AcceptStream at end e. *)

AcceptStream_KeepsPacket(e) ==
    /\ ~dead[e]
    /\ e \in Accepting
    /\ Len(log[e]) < load.accepts
    /\ apc[e] = None
    /\ cpc[e] = "offer"
    /\ apc' = [apc EXCEPT ![e] = Id(cbuf[e])]
    /\ cpc' = [cpc EXCEPT ![e] = "flags"]
    /\ UNCHANGED <<load, wire, opened, changes, gpc, gcall, gbuf, returned, cbuf, seen, log,
                   streams, up, dead>>

\* cp.NewStreamChan <- s meets <-p.NewStreamChan.
AcceptStream(e) ==
    /\ ~dead[e]
    /\ e \in Accepting
    /\ Len(log[e]) < load.accepts
    /\ apc[e] = None
    /\ cpc[e] = "offer"
    /\ apc' = [apc EXCEPT ![e] = Id(cbuf[e])]
    /\ cpc' = [cpc EXCEPT ![e] = "flags"]
    /\ cbuf' = [cbuf EXCEPT ![e] = <<>>]
    /\ UNCHANGED <<load, wire, opened, changes, gpc, gcall, gbuf, returned, seen, log,
                   streams, up, dead>>

\* p.streams[s.Id] = s, and AcceptStream returns s.
StreamStored(e) ==
    /\ ~dead[e]
    /\ apc[e] # None
    /\ streams' = [streams EXCEPT ![e] = @ \cup {apc[e]}]
    /\ log' = [log EXCEPT ![e] = Append(@, apc[e])]
    /\ apc' = [apc EXCEPT ![e] = None]
    /\ UNCHANGED <<load, wire, opened, changes, gpc, gcall, gbuf, returned, cpc, cbuf, seen,
                   up, dead>>

-----------------------------------------------------------------------------
(* The stream map has no lock: the Go runtime ends a process that it finds   *)
(* storing into a map while another goroutine uses it.                       *)
Storing(e) == {g \in Callers : EndOf[g] = e /\ gpc[g] = "return" /\ gcall[g].flag = "hs"}
MapRace(e) ==
    /\ ~dead[e]
    /\ \/ Cardinality(Storing(e)) > 1
       \/ Storing(e) # {} /\ (apc[e] # None \/ cpc[e] = "apply")
       \/ apc[e] # None /\ cpc[e] = "apply"
    /\ dead' = [dead EXCEPT ![e] = TRUE]
    /\ UNCHANGED <<load, wire, opened, changes, gpc, gcall, gbuf, returned, cpc, cbuf, seen,
                   apc, log, streams, up>>

ConnectionLost ==
    /\ MayLose \/ \E e \in Ends : dead[e]
    /\ up
    /\ up' = FALSE
    /\ wire' = [e \in Ends |-> <<>>]
    /\ UNCHANGED <<load, opened, changes, gpc, gcall, gbuf, returned, cpc, cbuf, seen, apc,
                   log, streams, dead>>

-----------------------------------------------------------------------------
Next ==
    \/ \E g \in Callers : \/ OpenStream(g) \/ ChangeStreamPreference(g)
                          \/ Answer(g) \/ Return(g) \/ CallFails(g)
    \/ \E e \in Ends : \/ ReadFlags(e) \/ ReadBody(e) \/ Echo(e) \/ ReadLoopFails(e)
                       \/ Apply(e) \/ AcceptStream(e) \/ StreamStored(e) \/ MapRace(e)
    \/ ConnectionLost

Spec == Init /\ [][Next]_vars

\* Every goroutine runs; the QUIC stream lets waiting readers take turns, so a
\* reader that finds words again and again reads some of them.
Fairness ==
    /\ \A g \in Callers : SF_vars(Answer(g)) /\ WF_vars(Return(g)) /\ WF_vars(CallFails(g))
    /\ \A e \in Ends : /\ SF_vars(ReadFlags(e)) /\ SF_vars(ReadBody(e))
                       /\ WF_vars(Echo(e)) /\ WF_vars(ReadLoopFails(e))
                       /\ WF_vars(Apply(e)) /\ WF_vars(AcceptStream(e))
                       /\ WF_vars(StreamStored(e))

FairSpec == Spec /\ Fairness

-----------------------------------------------------------------------------
(* Properties. *)

\* Every variable has its type, and a goroutine that waits for an answer has made a
\* request.
TypeOK ==
    /\ wire \in [Ends -> Seq(Word)]
    /\ DOMAIN opened \subseteq Ids
    /\ opened \in [DOMAIN opened -> Ends]
    /\ load \in Loads
    /\ changes \in Nat
    /\ gpc \in [Callers -> {"idle", "answer", "return"}]
    /\ gcall \in [Callers -> Call \cup {None}]
    /\ \A g \in Callers : gcall[g] = None <=> gpc[g] = "idle"
    /\ gbuf \in [Callers -> Seq(Word)]
    /\ returned \subseteq DOMAIN opened
    /\ cpc \in [Ends -> {"flags", "body", "echo", "offer", "apply"}]
    /\ cbuf \in [Ends -> Seq(Word)]
    /\ \A e \in Ends : Len(cbuf[e]) = 4 <=> cpc[e] \in {"echo", "offer", "apply"}
    /\ seen \in [Ends -> SUBSET (Ids \cup {Garbled})]
    /\ apc \in [Ends -> Ids \cup {Garbled, None}]
    /\ log \in [Ends -> Seq(Ids \cup {Garbled})]
    /\ streams \in [Ends -> SUBSET (Ids \cup {Garbled})]
    /\ up \in BOOLEAN
    /\ dead \in [Ends -> BOOLEAN]

\* Echoes of echoes do not pile up: what is on the wire, and in the hands of those
\* who read it, is never more than one packet for every call that waits.
Waiting   == {g \in Callers : gpc[g] = "answer"}
AtEnd(e)  == Len(wire[e]) + IF cpc[e] \in {"body", "echo"} THEN Len(cbuf[e]) ELSE 0
AtCall(g) == IF g \in Waiting THEN Len(gbuf[g]) ELSE 0
InFlight  == SumFunction([e \in Ends |-> AtEnd(e)]) + SumFunction([g \in Callers |-> AtCall(g)])
NoEchoStorm == up => InFlight <= 4 * Cardinality(Waiting)

\* If a single goroutine makes calls, OpenStream returns a stream only when the
\* peer has its handshake, although a readLoop may have taken the answer first
\* and sent it round once more.
OpenMeansSeen ==
    Cardinality(load.callers) = 1 => \A id \in returned : id \in seen[Peer(opened[id])]

\* If a single goroutine makes calls, no AcceptStream returns, and no readLoop
\* announces, a stream that nobody opened.
OnlyOpened ==
    Cardinality(load.callers) = 1 => \A e \in Ends : /\ seen[e] \subseteq DOMAIN opened
                    /\ \A i \in 1 .. Len(log[e]) : log[e][i] \in DOMAIN opened

\* OpenStream and ChangeStreamPreference return, with a stream or with an error.
CallsReturn ==
    \A g \in Callers : gpc[g] = "answer" ~> gpc[g] # "answer" \/ dead[EndOf[g]]
=============================================================================
