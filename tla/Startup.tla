------------------------------- MODULE Startup -------------------------------
(***************************************************************************)
(* How a Q-PARTS connection comes up (qparts_controlplane.go): Connect at  *)
(* the dialer and ListenAndAccept at the listener exchange handshakes over *)
(* the control connection, and then one goroutine per path at each end     *)
(* dials, or waits for, the QUIC connection of a dataplane stream and says *)
(* hello on it.  Goroutine i uses the i-th port of its end's range, so     *)
(* goroutine i of one end only ever meets goroutine i of the other.  While *)
(* quic-go sets up a connection, the standard log of the process is        *)
(* silenced, and a count says by how many (pkg/qpnet/silence.go).          *)
(*                                                                         *)
(* A definition named X_Something is X with a mistake in it, to test the   *)
(* properties with.                                                        *)
(***************************************************************************)
EXTENDS Integers, FiniteSets

CONSTANTS
    MaxPaths,  \* bound on the number of paths
    Configs    \* the circumstances under which a connection may be set up

Ends  == {"dialer", "listener"}
Paths == 1 .. MaxPaths

\* resp: the PathSelectionResponsibility in the options of each end; active: how
\* many active paths it has to the other end; paths: whether the path cache has any
\* for the dialer; measured: the destinations for which the metrics have an entry;
\* failing: the paths on which a connection may fail.  0 is the control connection.
Config == [resp : [Ends -> {"client", "server"}], active : [Ends -> 0 .. MaxPaths],
           paths : BOOLEAN, measured : SUBSET (Paths \cup {0}),
           failing : SUBSET (Paths \cup {0})]

ASSUME StartupAssumption == MaxPaths \in Nat /\ Configs \subseteq Config

VARIABLES
    config,    \* the circumstances, which do not change
    main,      \* main[e]: where Connect or ListenAndAccept is
    toPeer,    \* toPeer[e]: e's handshake is on its way: its NumStreams, or -1
    role,      \* role[e]: whether e's racing goroutines dial or listen
    racer,     \* racer[e][i]: where racing goroutine i of e is
    sent,      \* sent[e]: the connections on which e has written its hello
    stored,    \* stored[e]: the keys of dp.Streams
    clashed,   \* clashed[e]: two stores into dp.Streams have been made at once
    silenced,  \* silenced[e]: logSilencerCount
    loops,     \* loops[e]: the dataplane loops of e run
    dead       \* dead[e]: the process of e has panicked

vars == <<config, main, toPeer, role, racer, sent, stored, clashed, silenced, loops, dead>>

Responsible(e) == config.resp[e]
Active(e)      == config.active[e]
Measured       == config.measured
Failing        == config.failing

\* Paths.Get finds paths: a query that fails is not reported, and what an earlier one
\* found is used instead.
PathsGet == config.paths

silenceLog(e)   == silenced' = [silenced EXCEPT ![e] = @ + 1]
unsilenceLog(e) == silenced' = [silenced EXCEPT ![e] = @ - 1]

Peer(e) == IF e = "dialer" THEN "listener" ELSE "dialer"

Spawn_OneMore(e, r, n) ==
    [racer EXCEPT ![e] = [i \in Paths |-> IF i > n + 1 THEN "none"
                                          ELSE IF r = "dial" THEN "dial" ELSE "listen"]]

\* The racing goroutines that run at e once it races for n connections.
Spawn(e, r, n) ==
    [racer EXCEPT ![e] = [i \in Paths |-> IF i > n THEN "none"
                                          ELSE IF r = "dial" THEN "dial" ELSE "listen"]]

-----------------------------------------------------------------------------
Init ==
    /\ config \in Configs
    /\ main = [e \in Ends |-> "start"]
    /\ toPeer = [e \in Ends |-> -1]
    /\ role = [e \in Ends |-> "none"]
    /\ racer = [e \in Ends |-> [i \in Paths |-> "none"]]
    /\ sent = [e \in Ends |-> {}]
    /\ stored = [e \in Ends |-> {}]
    /\ clashed = [e \in Ends |-> FALSE]
    /\ silenced = [e \in Ends |-> 0]
    /\ loops = [e \in Ends |-> FALSE]
    /\ dead = [e \in Ends |-> FALSE]

-----------------------------------------------------------------------------
(* Connect and ListenAndAccept. *)

MainAt(e, from) == main[e] = from /\ ~dead[e]
Goto(e, to)     == main' = [main EXCEPT ![e] = to]
Panics(e)       == dead' = [dead EXCEPT ![e] = TRUE]

\* Connect: paths[0] panics if Paths.Get has none; DialAndOpenWithPath binds a port and
\* goes on to quic.Dial.
Connect ==
    /\ MainAt("dialer", "start")
    /\ \/ /\ PathsGet
          /\ Goto("dialer", "dialing") /\ silenceLog("dialer")
          /\ UNCHANGED dead
       \/ /\ PathsGet /\ 0 \in Failing
          /\ Goto("dialer", "error")
          /\ UNCHANGED <<silenced, dead>>
       \/ /\ ~PathsGet
          /\ Panics("dialer")
          /\ UNCHANGED <<main, silenced>>
    /\ UNCHANGED <<config, toPeer, role, racer, sent, stored, clashed, loops>>

\* The end of quic.Dial for the control connection, and the handshake.  The tracer of
\* a connection that is dialled over a path adds every packet to the metrics of its
\* destination, and panics if there are none.  A dial that fails leaves the log as
\* it is.
DialControl ==
    /\ MainAt("dialer", "dialing")
    /\ \/ /\ 0 \in Measured /\ main["listener"] = "accept"
          /\ unsilenceLog("dialer")
          /\ \/ /\ Goto("dialer", "reply")
                /\ toPeer' = [toPeer EXCEPT !["dialer"] = Active("dialer")]
             \/ /\ 0 \in Failing
                /\ Goto("dialer", "error")
                /\ UNCHANGED toPeer
          /\ UNCHANGED dead
       \/ /\ 0 \in Measured /\ (0 \in Failing \/ main["listener"] = "error")
          /\ Goto("dialer", "error")
          /\ UNCHANGED <<toPeer, silenced, dead>>
       \/ /\ 0 \notin Measured
          /\ Panics("dialer")
          /\ UNCHANGED <<main, toPeer, silenced>>
    /\ UNCHANGED <<config, role, racer, sent, stored, clashed, loops>>

\* ControlConn.ListenAndAccept: the port is bound and quic-go listens on it, the log
\* being silenced meanwhile; if quic.Listen fails it stays so.
ListenControl ==
    /\ MainAt("listener", "start")
    /\ \/ Goto("listener", "accept") /\ UNCHANGED silenced
       \/ /\ 0 \in Failing /\ Goto("listener", "error")
          /\ silenceLog("listener") \/ UNCHANGED silenced
    /\ UNCHANGED <<config, toPeer, role, racer, sent, stored, clashed, loops, dead>>

\* The listener reads the handshake, replies, and races as its own options say.
AcceptControl ==
    /\ MainAt("listener", "accept")
    /\ toPeer["dialer"] # -1
    /\ LET r == IF Responsible("listener") = "server" THEN "dial" ELSE "listen"
           n == IF r = "dial" THEN Active("listener") ELSE toPeer["dialer"]
       IN  /\ role' = [role EXCEPT !["listener"] = r]
           /\ racer' = Spawn("listener", r, n)
    /\ toPeer' = [toPeer EXCEPT !["dialer"] = -1, !["listener"] = 0]
    /\ Goto("listener", "race")
    /\ UNCHANGED <<config, sent, stored, clashed, silenced, loops, dead>>

\* The dialer reads the reply, and races as its own options say.
ReadReply ==
    /\ MainAt("dialer", "reply")
    /\ toPeer["listener"] # -1
    /\ LET r == IF Responsible("dialer") = "server" THEN "listen" ELSE "dial"
       IN  /\ role' = [role EXCEPT !["dialer"] = r]
           /\ racer' = Spawn("dialer", r, Active("dialer"))
    /\ toPeer' = [toPeer EXCEPT !["listener"] = -1]
    /\ Goto("dialer", "race")
    /\ UNCHANGED <<config, sent, stored, clashed, silenced, loops, dead>>

\* The control connection is lost, or the other end gives it up: the handshake is not
\* read, or not sent.  Connect and ListenAndAccept return the error.
ControlLost(e) ==
    /\ 0 \in Failing \/ dead[Peer(e)] \/ main[Peer(e)] = "error"
    /\ \/ e = "dialer" /\ MainAt(e, "reply")
       \/ e = "listener" /\ MainAt(e, "accept") /\ main["dialer"] \notin {"start", "dialing"}
    /\ Goto(e, "error")
    /\ UNCHANGED <<config, toPeer, role, racer, sent, stored, clashed, silenced, loops, dead>>

Joined_Any(e) == \A i \in Paths : racer[e][i] \in {"none", "add", "ok", "failed", "muted"}

\* wg.Wait()
Joined(e) == \A i \in Paths : racer[e][i] \in {"none", "ok", "failed", "muted"}

\* The end of the race: the loops start if no goroutine failed.  The caller drops
\* the error, so Connect and ListenAndAccept succeed either way.
Join(e) ==
    /\ main[e] = "race"
    /\ ~dead[e]
    /\ Joined(e)
    /\ loops' = [loops EXCEPT ![e] = \A i \in Paths : racer[e][i] \notin {"failed", "muted"}]
    /\ main' = [main EXCEPT ![e] = "done"]
    /\ UNCHANGED <<config, toPeer, role, racer, sent, stored, clashed, silenced, dead>>

-----------------------------------------------------------------------------
(* The racing goroutine for path i at end e. *)

Step(e, i, from, to) ==
    /\ ~dead[e]
    /\ racer[e][i] = from
    /\ racer' = [racer EXCEPT ![e][i] = to]
    /\ UNCHANGED <<config, main, toPeer, role, stored, clashed, loops>>

\* DialAndOpenWithPath, up to quic.Dial.
BeginDial(e, i) ==
    /\ \/ Step(e, i, "dial", "dialing") /\ silenceLog(e)
       \/ i \in Failing /\ Step(e, i, "dial", "failed") /\ UNCHANGED silenced
    /\ UNCHANGED <<sent, dead>>

Hello_StaysSilent(e, i) ==
    /\ i \in Measured
    /\ racer[Peer(e)][i] = "accept"
    /\ ~dead[Peer(e)]
    /\ Step(e, i, "dialing", "echo")
    /\ sent' = [sent EXCEPT ![e] = @ \cup {i}]
    /\ UNCHANGED <<silenced, dead>>

\* quic.Dial meets a waiting quic.Listener; OpenStreamSync, WriteAll(msg).
Hello(e, i) ==
    /\ i \in Measured
    /\ racer[Peer(e)][i] = "accept"
    /\ ~dead[Peer(e)]
    /\ Step(e, i, "dialing", "echo")
    /\ unsilenceLog(e)
    /\ sent' = [sent EXCEPT ![e] = @ \cup {i}]
    /\ UNCHANGED dead

\* The first packet of a dial for whose destination there are no metrics.
DialPanics(e, i) ==
    /\ i \notin Measured
    /\ ~dead[e]
    /\ racer[e][i] = "dialing"
    /\ Panics(e)
    /\ UNCHANGED <<config, main, toPeer, role, racer, sent, stored, clashed, silenced, loops>>

\* Nobody answers the dial in time: the path is down, or the peer does not listen.
\* The log stays silenced.
DialTimesOut(e, i) ==
    /\ i \in Measured
    /\ \/ i \in Failing
       \/ i \notin Failing /\ role[Peer(e)] # "none"
          /\ racer[Peer(e)][i] \notin {"listen", "accept"}
       \/ i \notin Failing /\ (dead[Peer(e)] \/ main[Peer(e)] = "error")
    /\ Step(e, i, "dialing", "muted")
    /\ UNCHANGED <<sent, silenced, dead>>

\* optimizedconn.Listen and quic.Listen: a port that is taken cannot be bound.  The log
\* is silenced for quic.Listen, and stays so if that fails.
Listen(e, i) ==
    /\ \/ Step(e, i, "listen", "accept") /\ UNCHANGED silenced
       \/ i \in Failing /\ Step(e, i, "listen", "failed") /\ UNCHANGED silenced
       \/ i \in Failing /\ Step(e, i, "listen", "muted") /\ silenceLog(e)
    /\ UNCHANGED <<sent, dead>>

\* SingleStreamQUICConn.ListenAndAccept returns at e: listener.Accept has taken a
\* connection, and sess.AcceptStream the stream once there is data on it.
Accepted(e, i) == i \in sent[Peer(e)]

EchoHello_NoEcho(e, i) ==
    /\ Accepted(e, i)
    /\ Step(e, i, "accept", "add")
    /\ UNCHANGED <<sent, silenced, dead>>

\* ReadAll(msg), WriteAll(msg).
EchoHello(e, i) ==
    /\ Accepted(e, i)
    /\ Step(e, i, "accept", "add")
    /\ sent' = [sent EXCEPT ![e] = @ \cup {i}]
    /\ UNCHANGED <<silenced, dead>>

ReadEcho_NotAwaited(e, i) ==
    /\ Step(e, i, "echo", "add")
    /\ UNCHANGED <<sent, silenced, dead>>

\* ReadAll(msg) of the echo.
ReadEcho(e, i) ==
    /\ i \in sent[Peer(e)]
    /\ Step(e, i, "echo", "add")
    /\ UNCHANGED <<sent, silenced, dead>>

\* The connection is lost after it was dialled: the hello may have been sent, but
\* it is not read, or its echo is not.
ConnectionLost(e, i) ==
    /\ i \in Failing \/ dead[Peer(e)]
    /\ \/ Step(e, i, "echo", "failed")
       \/ Accepted(e, i) /\ Step(e, i, "accept", "failed")
    /\ UNCHANGED <<sent, silenced, dead>>

AddStream_NotKept(e, i) ==
    /\ ~dead[e]
    /\ racer[e][i] = "add"
    /\ racer' = [racer EXCEPT ![e][i] = "ok"]
    /\ UNCHANGED <<config, main, toPeer, role, sent, stored, clashed, silenced, loops, dead>>

\* AddDialStream or AddListenStream: a store into dp.Streams, which has no lock.  Of two
\* stores at once the Go runtime may end the process, or else either may be lost, and
\* what was stored before with it.
AddStream(e, i) ==
    /\ ~dead[e]
    /\ racer[e][i] = "add"
    /\ \/ /\ racer' = [racer EXCEPT ![e][i] = "ok"]
          /\ stored' = [stored EXCEPT ![e] = @ \cup {i}]
          /\ UNCHANGED <<clashed, dead>>
       \/ /\ \E j \in Paths \ {i} : racer[e][j] = "add"
          /\ \/ /\ dead' = [dead EXCEPT ![e] = TRUE]
                /\ UNCHANGED <<racer, stored, clashed>>
             \/ /\ racer' = [racer EXCEPT ![e][i] = "ok"]
                /\ \E left \in SUBSET (stored[e] \cup {i}) : stored' = [stored EXCEPT ![e] = left]
                /\ clashed' = [clashed EXCEPT ![e] = TRUE]
                /\ UNCHANGED dead
    /\ UNCHANGED <<config, main, toPeer, role, sent, silenced, loops>>

Racer(e, i) ==
    \/ BeginDial(e, i) \/ Hello(e, i) \/ DialPanics(e, i) \/ DialTimesOut(e, i)
    \/ Listen(e, i) \/ EchoHello(e, i) \/ ReadEcho(e, i) \/ ConnectionLost(e, i) \/ AddStream(e, i)

-----------------------------------------------------------------------------
Next ==
    \/ Connect \/ DialControl \/ ListenControl \/ AcceptControl \/ ReadReply
    \/ \E e \in Ends : ControlLost(e) \/ Join(e) \/ \E i \in Paths : Racer(e, i)

Spec == Init /\ [][Next]_vars

\* The applications have called Dial and Accept, and every goroutine runs.
Fairness ==
    /\ WF_vars(Connect) /\ WF_vars(DialControl)
    /\ WF_vars(ListenControl) /\ WF_vars(AcceptControl) /\ WF_vars(ReadReply)
    /\ \A e \in Ends : WF_vars(ControlLost(e)) /\ WF_vars(Join(e)) /\ \A i \in Paths : WF_vars(Racer(e, i))

FairSpec == Spec /\ Fairness

-----------------------------------------------------------------------------
(* Properties. *)

\* Every variable has its type, and what the racing goroutines have stored is in the map,
\* and nothing else, unless two stores were made at once.
TypeOK ==
    /\ config \in Configs
    /\ main \in [Ends -> {"start", "dialing", "accept", "reply", "race", "done", "error"}]
    /\ toPeer \in [Ends -> -1 .. MaxPaths]
    /\ role \in [Ends -> {"none", "dial", "listen"}]
    /\ racer \in [Ends -> [Paths -> {"none", "dial", "dialing", "listen", "accept", "echo",
                                    "add", "ok", "failed", "muted"}]]
    /\ sent \in [Ends -> SUBSET Paths]
    /\ stored \in [Ends -> SUBSET Paths]
    /\ clashed \in [Ends -> BOOLEAN]
    /\ \A e \in Ends : LET through == {i \in Paths : racer[e][i] = "ok"}
                      IN  stored[e] \subseteq through /\ (~clashed[e] => stored[e] = through)
    /\ silenced \in [Ends -> Int]
    /\ loops \in [Ends -> BOOLEAN]
    /\ dead \in [Ends -> BOOLEAN]

\* The loops range over dp.Streams once, when they start: unless two goroutines have
\* stored into the map at once and an entry was lost, by then every connection the end
\* raced for is in it, and none is added later.
LoopsCoverStreams ==
    \A e \in Ends : loops[e] /\ ~clashed[e] =>
        \A i \in Paths : racer[e][i] # "none" => i \in stored[e]

\* If the loops run at the end that dials, the other end has answered on each of its
\* connections and will not give any of them up, whatever is lost meanwhile.  And if it
\* waits for no more connections than that, its loops run as well once it is done.  (It
\* may wait for more when the listener dials and has fewer active paths than the dialer:
\* then it waits for ever, and what the listener writes is not read.)
DialedMeansListened ==
    \A e \in Ends : loops[e] /\ role[e] = "dial" =>
        LET f == Peer(e)
        IN  /\ \A i \in Paths : racer[e][i] = "ok" => racer[f][i] \in {"add", "ok"}
            /\ role[f] = "listen" /\ (e = "dialer" \/ Active("dialer") <= Active("listener")) =>
                  /\ \A i \in Paths : racer[f][i] \in {"none", "add", "ok"}
                  /\ main[f] = "done" => loops[f]

\* The log of a process comes back: its goroutines silence it in any order, but when
\* no quic.Dial of it runs and none has failed it is not silenced, and unsilenceLog
\* never panics because it was called once too often.
LogComesBack ==
    \A e \in Ends :
        /\ silenced[e] >= 0
        /\ /\ main[e] \notin {"dialing", "error"}
           /\ \A i \in Paths : racer[e][i] \notin {"dialing", "muted"}
           => silenced[e] = 0

\* The process of an end that races for one connection at most survives, whatever fails
\* and whatever happens at the other end, if there are metrics for what it dials itself:
\* the control connection, with a path for it, at the dialer, and its connections at the
\* end that dials.  An end that only listens needs none.
Racing(e) == IF role[e] = "listen" THEN Active("dialer") ELSE Active(e)

ProcessSurvives ==
    \A e \in Ends :
        /\ Racing(e) <= 1
        /\ e = "dialer" => PathsGet /\ 0 \in Measured
        /\ role[e] = "dial" => 1 .. Active(e) \subseteq Measured
        => ~dead[e]

\* Dial and Accept return.
BothReturn == \A e \in Ends : <>(main[e] = "done" \/ \E f \in Ends : dead[f])

\* If the ends agree on who selects the paths and on how many they are, every
\* destination has metrics and no connection fails, the dataplane comes up at both
\* ends, or a process in which several goroutines store into dp.Streams dies of it.
Agreed ==
    /\ config.resp["dialer"] = config.resp["listener"]
    /\ config.active["dialer"] = config.active["listener"]
    /\ config.paths
    /\ config.measured = Paths \cup {0}
    /\ config.failing = {}
ComesUp == Agreed ~> \/ \A e \in Ends : loops[e]
                     \/ \E e \in Ends : Active(e) > 1 /\ dead[e]
=============================================================================
