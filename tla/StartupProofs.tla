---------------------------- MODULE StartupProofs ----------------------------
(***************************************************************************)
(* The safety of Startup for any number of paths and any circumstances:    *)
(* whatever options the two ends have, whatever the metrics hold and       *)
(* whichever connections fail.                                             *)
(***************************************************************************)
EXTENDS Startup, FiniteSetTheorems, TLAPS

-----------------------------------------------------------------------------
(* The inductive invariant. *)

\* Where the racing goroutines of an end with role r may be.
States(r) ==
    IF r = "dial" THEN {"none", "dial", "dialing", "echo", "add", "ok", "failed", "muted"}
    ELSE IF r = "listen" THEN {"none", "listen", "accept", "add", "ok", "failed", "muted"}
    ELSE {"none"}

RoleInv ==
    \A e \in Ends : /\ role[e] = "none" <=> main[e] \notin {"race", "done"}
                    /\ \A i \in Paths : racer[e][i] \in States(role[e])

\* The loops start when the race is over, and a race that is over stays so.
LoopsInv ==
    \A e \in Ends : /\ loops[e] => /\ main[e] = "done"
                                    /\ \A i \in Paths : racer[e][i] \in {"none", "ok"}
                    /\ main[e] = "done" /\ ~loops[e] =>
                          \E i \in Paths : racer[e][i] \in {"failed", "muted"}

\* What the hellos on connection i say about the goroutines at its ends.
HelloInv ==
    \A e \in Ends : \A i \in Paths :
        /\ role[e] = "none" => i \notin sent[e]
        /\ role[e] = "listen" /\ i \in sent[e] => racer[e][i] \in {"add", "ok"}
        /\ role[e] = "dial" /\ racer[e][i] \in {"echo", "add", "ok"} => role[Peer(e)] = "listen"
        /\ role[e] = "dial" /\ racer[e][i] \in {"add", "ok"} => i \in sent[Peer(e)]

\* The goroutines of e that have silenced the log and not brought it back, and how
\* often Connect may have done so.
Silent(e) == {i \in Paths : racer[e][i] \in {"dialing", "muted"}}
ByMain(m) == IF m = "dialing" THEN {1} ELSE IF m = "error" THEN {0, 1} ELSE {0}

SilenceInv ==
    \A e \in Ends : /\ silenced[e] - Cardinality(Silent(e)) \in ByMain(main[e])
                    /\ main[e] = "dialing" => e = "dialer"

\* An end that races does so for a number of connections that it knows of both.
RaceInv ==
    /\ toPeer["dialer"] \in {-1, Active("dialer")}
    /\ \A e \in Ends : role[e] # "none" =>
          \A i \in Paths : racer[e][i] = "none" <=> i > Racing(e)

StartupInv == /\ TypeOK
              /\ RoleInv
              /\ LoopsInv
              /\ HelloInv
              /\ SilenceInv
              /\ RaceInv
              /\ ProcessSurvives

-----------------------------------------------------------------------------
(* What the actions have in common. *)

\* The types that the constants and the configuration have.
LEMMA ConfigFacts ==
    ASSUME TypeOK
    PROVE  /\ MaxPaths \in Nat
           /\ config \in Config
           /\ \A e \in Ends : Active(e) \in 0 .. MaxPaths
BY StartupAssumption DEF TypeOK, Config, Active

\* A step of racing goroutine i of end e, without what it does to the log.
Moves(e, i, from, to) ==
    /\ racer[e][i] = from
    /\ racer' = [racer EXCEPT ![e][i] = to]
    /\ UNCHANGED <<config, main, toPeer, role, loops>>

\* Such a step moves one goroutine.
LEMMA MoveFacts ==
    ASSUME TypeOK, NEW e \in Ends, NEW i \in Paths, NEW from, NEW to, Moves(e, i, from, to)
    PROVE  /\ racer'[e][i] = to
           /\ \A f \in Ends : \A j \in Paths : f # e \/ j # i => racer'[f][j] = racer[f][j]
BY DEF TypeOK, Moves

\* Adding to and taking away from the goroutines that keep the log silent.
LEMMA SilentFinite ==
    ASSUME TypeOK, NEW e \in Ends
    PROVE  /\ IsFiniteSet(Silent(e)) /\ Cardinality(Silent(e)) \in Nat
           /\ \A i \in Paths :
                 /\ i \in Silent(e) => Cardinality(Silent(e) \ {i}) = Cardinality(Silent(e)) - 1
                 /\ i \notin Silent(e) => Cardinality(Silent(e) \cup {i}) = Cardinality(Silent(e)) + 1
<1>1. IsFiniteSet(Paths)
  BY ConfigFacts, FS_Interval DEF Paths
<1>2. IsFiniteSet(Silent(e))
  BY <1>1, FS_Subset DEF Silent
<1>3. Cardinality(Silent(e)) \in Nat
  BY <1>2, FS_CardinalityType
<1> QED
  BY <1>2, <1>3, FS_AddElement, FS_RemoveElement

\* The moves of a racing goroutine.
Legal(from, to) ==
    \/ from = "dial"    /\ to \in {"dialing", "failed"}
    \/ from = "dialing" /\ to \in {"echo", "muted"}
    \/ from = "listen"  /\ to \in {"accept", "failed", "muted"}
    \/ from = "accept"  /\ to \in {"add", "failed"}
    \/ from = "echo"    /\ to \in {"add", "failed"}
    \/ from = "add"     /\ to = "ok"
Race(e, i) == \E from, to : Legal(from, to) /\ Moves(e, i, from, to)
Rests == UNCHANGED <<config, main, toPeer, role, loops, racer>>

LEMMA RacerMoves ==
    ASSUME NEW e \in Ends, NEW i \in Paths, Racer(e, i)
    PROVE  /\ Race(e, i) \/ Rests
           /\ sent' = sent \/ sent' = [sent EXCEPT ![e] = @ \cup {i}]
           /\ dead' = dead \/ dead' = [dead EXCEPT ![e] = TRUE]
<1>1. /\ sent' = sent \/ sent' = [sent EXCEPT ![e] = @ \cup {i}]
      /\ dead' = dead \/ dead' = [dead EXCEPT ![e] = TRUE]
  BY DEF Racer, Step, BeginDial, Hello, DialPanics, DialTimesOut, Listen,
         EchoHello, ReadEcho, ConnectionLost, AddStream, Panics
<1>2. \/ Moves(e, i, "dial", "dialing") \/ Moves(e, i, "dial", "failed")
      \/ Moves(e, i, "dialing", "echo") \/ Moves(e, i, "dialing", "muted")
      \/ Moves(e, i, "listen", "accept") \/ Moves(e, i, "listen", "failed")
      \/ Moves(e, i, "listen", "muted")
      \/ Moves(e, i, "accept", "add") \/ Moves(e, i, "accept", "failed")
      \/ Moves(e, i, "echo", "add") \/ Moves(e, i, "echo", "failed")
      \/ Moves(e, i, "add", "ok")
      \/ Rests
  BY DEF Racer, Moves, Rests, Step, BeginDial, Hello, DialPanics, DialTimesOut, Listen,
         EchoHello, ReadEcho, ConnectionLost, AddStream
<1>3. Race(e, i) \/ Rests
  BY <1>2 DEF Race, Legal
<1> QED
  BY <1>1, <1>3

-----------------------------------------------------------------------------
(* The racing goroutines preserve the invariant. *)

LEMMA RacerTypes ==
    ASSUME TypeOK, NEW e \in Ends, NEW i \in Paths, Racer(e, i)
    PROVE  TypeOK'
<1> DEFINE Unstored ==
          /\ config' \in Configs
          /\ main' \in [Ends -> {"start", "dialing", "accept", "reply", "race", "done", "error"}]
          /\ toPeer' \in [Ends -> -1 .. MaxPaths]
          /\ role' \in [Ends -> {"none", "dial", "listen"}]
          /\ racer' \in [Ends -> [Paths -> {"none", "dial", "dialing", "listen", "accept", "echo",
                                            "add", "ok", "failed", "muted"}]]
          /\ loops' \in [Ends -> BOOLEAN]
<1>1. Unstored
  <2>1. CASE Rests
    BY <2>1 DEF TypeOK, Rests
  <2>2. ASSUME NEW from, NEW to, Legal(from, to), Moves(e, i, from, to)
        PROVE  Unstored
    BY <2>2 DEF TypeOK, Moves, Legal
  <2> QED
    BY <2>1, <2>2, RacerMoves DEF Race
<1>2. sent' \in [Ends -> SUBSET Paths] /\ dead' \in [Ends -> BOOLEAN]
  <2>0. /\ sent' = sent \/ sent' = [sent EXCEPT ![e] = @ \cup {i}]
        /\ dead' = dead \/ dead' = [dead EXCEPT ![e] = TRUE]
    BY RacerMoves
  <2>1. sent' \in [Ends -> SUBSET Paths]
    <3>1. sent \in [Ends -> SUBSET Paths]
      BY DEF TypeOK
    <3> QED
      BY <2>0, <3>1
  <2>2. dead' \in [Ends -> BOOLEAN]
    <3>1. dead \in [Ends -> BOOLEAN]
      BY DEF TypeOK
    <3> QED
      BY <2>0, <3>1, Zenon
  <2> QED
    BY <2>1, <2>2
<1>3. silenced' \in [Ends -> Int]
  BY DEF TypeOK, Racer, Step, BeginDial, Hello, DialPanics, DialTimesOut, Listen,
         EchoHello, ReadEcho, ConnectionLost, AddStream, silenceLog, unsilenceLog
<1>4. ASSUME NEW left \in SUBSET (stored[e] \cup {i}), Moves(e, i, "add", "ok"),
             stored' = [stored EXCEPT ![e] = left],
             \/ clashed' = clashed /\ left = stored[e] \cup {i}
             \/ clashed' = [clashed EXCEPT ![e] = TRUE]
      PROVE  TypeOK'
  <2> DEFINE Through(f) == {j \in Paths : racer[f][j] = "ok"}
             Throughp(f) == {j \in Paths : racer'[f][j] = "ok"}
  <2>0. stored \in [Ends -> SUBSET Paths] /\ clashed \in [Ends -> BOOLEAN]
    BY DEF TypeOK
  <2>1. stored' \in [Ends -> SUBSET Paths]
    BY <1>4, <2>0
  <2>2. clashed' \in [Ends -> BOOLEAN]
    BY <1>4, <2>0, Zenon
  <2>3. /\ Throughp(e) = Through(e) \cup {i}
        /\ \A f \in Ends : f # e => Throughp(f) = Through(f)
    BY <1>4, MoveFacts
  <2>4. \A f \in Ends : stored[f] \subseteq Through(f) /\ (~clashed[f] => stored[f] = Through(f))
    BY DEF TypeOK
  <2>5. /\ stored'[e] = left
        /\ \A f \in Ends : f # e => stored'[f] = stored[f] /\ clashed'[f] = clashed[f]
        /\ clashed'[e] \/ (left = stored[e] \cup {i} /\ clashed'[e] = clashed[e])
    BY <1>4, <2>0, Zenon
  <2> HIDE DEF Through, Throughp
  <2>6. ASSUME NEW f \in Ends
        PROVE  stored'[f] \subseteq Throughp(f) /\ (~clashed'[f] => stored'[f] = Throughp(f))
    <3>1. CASE f = e
      <4>1. stored'[e] \subseteq Throughp(e)
        BY <2>3, <2>4, <2>5
      <4>2. CASE clashed'[e]
        BY <3>1, <4>1, <4>2, Zenon
      <4>3. CASE ~clashed'[e]
        <5>1. left = stored[e] \cup {i} /\ ~clashed[e]
          BY <2>5, <4>3, Zenon
        <5>2. stored'[e] = Throughp(e)
          BY <2>3, <2>4, <2>5, <5>1, Zenon
        <5> QED
          BY <3>1, <5>2, Zenon
      <4> QED
        BY <4>2, <4>3
    <3>2. CASE f # e
      BY <2>3, <2>4, <2>5, <3>2, Zenon
    <3> QED
      BY <3>1, <3>2
  <2> QED
    BY <1>1, <1>2, <1>3, <2>1, <2>2, <2>6, Zenon DEF TypeOK, Throughp
<1>5. CASE /\ UNCHANGED <<stored, clashed>>
           /\ \A f \in Ends : \A j \in Paths : racer'[f][j] = "ok" <=> racer[f][j] = "ok"
  <2>1. \A f \in Ends : {j \in Paths : racer'[f][j] = "ok"} = {j \in Paths : racer[f][j] = "ok"}
    BY <1>5, Zenon
  <2>2. stored' = stored /\ clashed' = clashed
    BY <1>5
  <2> QED
    BY <1>1, <1>2, <1>3, <2>1, <2>2, ZenonT(60) DEF TypeOK
<1>6. \/ /\ Moves(e, i, "add", "ok")
         /\ \E left \in SUBSET (stored[e] \cup {i}) :
               /\ stored' = [stored EXCEPT ![e] = left]
               /\ \/ clashed' = clashed /\ left = stored[e] \cup {i}
                  \/ clashed' = [clashed EXCEPT ![e] = TRUE]
      \/ /\ UNCHANGED <<stored, clashed>>
         /\ Rests \/ \E from, to : Moves(e, i, from, to) /\ from # "ok" /\ to # "ok"
  <2>1. CASE AddStream(e, i)
    <3>1. stored[e] \cup {i} \in SUBSET (stored[e] \cup {i})
      OBVIOUS
    <3> QED
      BY <2>1, <3>1, Zenon DEF AddStream, Moves, Rests
  <2>2. CASE ~AddStream(e, i)
    BY <2>2 DEF Racer, Moves, Rests, Step, BeginDial, Hello, DialPanics, DialTimesOut, Listen,
           EchoHello, ReadEcho, ConnectionLost
  <2> QED
    BY <2>1, <2>2
<1>7. ASSUME NEW from, NEW to, Moves(e, i, from, to), from # "ok", to # "ok",
             NEW f \in Ends, NEW j \in Paths
      PROVE  racer'[f][j] = "ok" <=> racer[f][j] = "ok"
  BY <1>7, MoveFacts DEF Moves
<1> QED
  BY <1>4, <1>5, <1>6, <1>7 DEF Rests

LEMMA RacerRoles ==
    ASSUME TypeOK, RoleInv, LoopsInv, RaceInv, NEW e \in Ends, NEW i \in Paths, Racer(e, i)
    PROVE  RoleInv' /\ LoopsInv' /\ RaceInv'
<1>1. CASE Rests
  BY <1>1 DEF Rests, RoleInv, LoopsInv, RaceInv, Racing, Active
<1>2. ASSUME NEW from, NEW to, Legal(from, to), Moves(e, i, from, to)
      PROVE  RoleInv' /\ LoopsInv' /\ RaceInv'
  <2>1. to \in States(role[e]) /\ from \notin {"none", "ok", "failed", "muted"} /\ to # "none"
    BY <1>2, MoveFacts DEF RoleInv, States, Legal, Moves
  <2>2. RoleInv'
    BY <1>2, <2>1, MoveFacts DEF RoleInv, Moves
  <2>3. LoopsInv'
    <3>1. /\ racer[e][i] = from /\ UNCHANGED <<main, loops>>
          /\ \A f \in Ends : \A j \in Paths : f # e \/ j # i => racer'[f][j] = racer[f][j]
      BY <1>2, MoveFacts DEF Moves
    <3>2. ASSUME NEW f \in Ends, loops[f], NEW j \in Paths PROVE racer'[f][j] \in {"none", "ok"}
      BY <2>1, <3>1, <3>2 DEF LoopsInv
    <3>3. ASSUME NEW f \in Ends, main[f] = "done", ~loops[f]
          PROVE  \E j \in Paths : racer'[f][j] \in {"failed", "muted"}
      <4>1. PICK j \in Paths : racer[f][j] \in {"failed", "muted"}
        BY <3>3 DEF LoopsInv
      <4> QED
        BY <2>1, <3>1, <4>1
    <3> QED
      BY <3>1, <3>2, <3>3 DEF LoopsInv
  <2>4. RaceInv'
    <3>1. /\ UNCHANGED <<role, toPeer>> /\ \A f \in Ends : Racing(f)' = Racing(f)
          /\ Active("dialer")' = Active("dialer")
      BY <1>2 DEF Moves, Racing, Active
    <3>2. \A f \in Ends : \A j \in Paths : racer'[f][j] = "none" <=> racer[f][j] = "none"
      BY <1>2, <2>1, MoveFacts DEF Moves
    <3> QED
      BY <3>1, <3>2 DEF RaceInv
  <2> QED
    BY <2>2, <2>3, <2>4
<1> QED
  BY <1>1, <1>2, RacerMoves DEF Race

\* What each action says about the hellos, in terms of the moves.
LEMMA RacerHellos ==
    ASSUME TypeOK, RoleInv, HelloInv, NEW e \in Ends, NEW i \in Paths, Racer(e, i)
    PROVE  HelloInv'
<1> USE DEF Ends, Peer
<1>1. ASSUME NEW from, NEW to, Moves(e, i, from, to), Legal(from, to), sent' = sent,
             to = "add" => i \in sent[Peer(e)],
             from = "accept" => to = "failed",
             to # "echo"
      PROVE  HelloInv'
  <2>1. racer[e][i] = from /\ role' = role
    BY <1>1 DEF Moves
  <2>2. /\ racer'[e][i] = to
        /\ \A f \in Ends : \A j \in Paths : f # e \/ j # i => racer'[f][j] = racer[f][j]
    BY <1>1, MoveFacts
  <2>3. role[e] = "listen" => i \notin sent[e] \/ from = "add"
    BY <1>1, <2>1 DEF HelloInv, Legal
  <2> QED
    BY <1>1, <2>1, <2>2, <2>3 DEF HelloInv, Legal
<1>2. CASE Hello(e, i)
  <2>1. /\ Moves(e, i, "dialing", "echo")
        /\ racer[Peer(e)][i] = "accept"
        /\ sent' = [sent EXCEPT ![e] = @ \cup {i}]
    BY <1>2 DEF Hello, Step, Moves
  <2>2. /\ racer'[e][i] = "echo"
        /\ \A f \in Ends : \A j \in Paths : f # e \/ j # i => racer'[f][j] = racer[f][j]
    BY <2>1, MoveFacts
  <2>3. role[e] = "dial" /\ role[Peer(e)] = "listen" /\ role' = role
    BY <2>1 DEF RoleInv, States, Moves, TypeOK
  <2> QED
    BY <2>1, <2>2, <2>3 DEF HelloInv, TypeOK
<1>3. CASE EchoHello(e, i)
  <2>1. /\ Moves(e, i, "accept", "add")
        /\ sent' = [sent EXCEPT ![e] = @ \cup {i}]
    BY <1>3 DEF EchoHello, Step, Moves
  <2>2. /\ racer'[e][i] = "add"
        /\ \A f \in Ends : \A j \in Paths : f # e \/ j # i => racer'[f][j] = racer[f][j]
    BY <2>1, MoveFacts
  <2>3. role[e] = "listen" /\ role' = role
    BY <2>1 DEF RoleInv, States, Moves, TypeOK
  <2> QED
    BY <2>1, <2>2, <2>3 DEF HelloInv, TypeOK
<1>4. CASE Rests /\ sent' = sent
  BY <1>4 DEF HelloInv, Rests
<1>5. \/ Hello(e, i) \/ EchoHello(e, i)
      \/ Rests /\ sent' = sent
      \/ /\ sent' = sent
         /\ \/ Moves(e, i, "dial", "dialing") \/ Moves(e, i, "dial", "failed")
            \/ Moves(e, i, "dialing", "muted")
            \/ Moves(e, i, "listen", "accept") \/ Moves(e, i, "listen", "failed")
            \/ Moves(e, i, "listen", "muted")
            \/ Moves(e, i, "accept", "failed")
            \/ Moves(e, i, "echo", "add") /\ i \in sent[Peer(e)]
            \/ Moves(e, i, "echo", "failed")
            \/ Moves(e, i, "add", "ok")
  BY DEF Racer, Moves, Rests, Step, BeginDial, DialPanics, DialTimesOut, Listen,
         ReadEcho, ConnectionLost, AddStream
<1> QED
  BY <1>1, <1>2, <1>3, <1>4, <1>5 DEF Legal

LEMMA RacerSilence ==
    ASSUME TypeOK, SilenceInv, NEW e \in Ends, NEW i \in Paths, Racer(e, i)
    PROVE  SilenceInv'
<1>1. ASSUME NEW from, NEW to, Moves(e, i, from, to), silenced' = silenced,
             from \in {"dialing", "muted"} <=> to \in {"dialing", "muted"}
      PROVE  SilenceInv'
  <2>1. ASSUME NEW f \in Ends PROVE Silent(f)' = Silent(f)
    BY <1>1, MoveFacts DEF Silent, Moves
  <2> QED
    BY <1>1, <2>1 DEF SilenceInv, Moves
<1>2. CASE (Moves(e, i, "dial", "dialing") \/ Moves(e, i, "listen", "muted")) /\ silenceLog(e)
  <2>1. Silent(e)' = Silent(e) \cup {i} /\ i \notin Silent(e)
    <3>1. racer'[e][i] \in {"dialing", "muted"} /\ \A j \in Paths : j # i => racer'[e][j] = racer[e][j]
      BY <1>2, MoveFacts
    <3>2. racer[e][i] \in {"dial", "listen"}
      BY <1>2 DEF Moves
    <3> QED
      BY <3>1, <3>2 DEF Silent
  <2>2. Cardinality(Silent(e)') = Cardinality(Silent(e)) + 1 /\ Cardinality(Silent(e)) \in Nat
    BY <2>1, SilentFinite
  <2>3. ASSUME NEW f \in Ends, f # e PROVE Silent(f)' = Silent(f) /\ silenced'[f] = silenced[f]
    BY <1>2, <2>3, MoveFacts DEF Silent, Moves, silenceLog, TypeOK
  <2>4. silenced[e] \in Int /\ silenced'[e] = silenced[e] + 1
    BY <1>2 DEF silenceLog, TypeOK
  <2>5. silenced'[e] - Cardinality(Silent(e)') = silenced[e] - Cardinality(Silent(e))
    BY <2>2, <2>4
  <2> QED
    BY <1>2, <2>3, <2>5 DEF SilenceInv, Moves
<1>3. CASE Moves(e, i, "dialing", "echo") /\ unsilenceLog(e)
  <2>1. Silent(e)' = Silent(e) \ {i} /\ i \in Silent(e)
    <3>1. racer'[e][i] = "echo" /\ \A j \in Paths : j # i => racer'[e][j] = racer[e][j]
      BY <1>3, MoveFacts
    <3>2. racer[e][i] = "dialing"
      BY <1>3 DEF Moves
    <3> QED
      BY <3>1, <3>2 DEF Silent
  <2>2. Cardinality(Silent(e)') = Cardinality(Silent(e)) - 1 /\ Cardinality(Silent(e)) \in Nat
    BY <2>1, SilentFinite
  <2>3. ASSUME NEW f \in Ends, f # e PROVE Silent(f)' = Silent(f) /\ silenced'[f] = silenced[f]
    BY <1>3, <2>3, MoveFacts DEF Silent, Moves, unsilenceLog, TypeOK
  <2>4. silenced[e] \in Int /\ silenced'[e] = silenced[e] - 1
    BY <1>3 DEF unsilenceLog, TypeOK
  <2>5. silenced'[e] - Cardinality(Silent(e)') = silenced[e] - Cardinality(Silent(e))
    BY <2>2, <2>4
  <2> QED
    BY <1>3, <2>3, <2>5 DEF SilenceInv, Moves
<1>4. CASE Rests /\ silenced' = silenced
  BY <1>4 DEF SilenceInv, Silent, Rests
<1>5. \/ Moves(e, i, "dial", "dialing") /\ silenceLog(e)
      \/ Moves(e, i, "listen", "muted") /\ silenceLog(e)
      \/ Moves(e, i, "dialing", "echo") /\ unsilenceLog(e)
      \/ Rests /\ silenced' = silenced
      \/ /\ silenced' = silenced
         /\ \/ Moves(e, i, "dial", "failed") \/ Moves(e, i, "dialing", "muted")
            \/ Moves(e, i, "listen", "accept") \/ Moves(e, i, "listen", "failed")
            \/ Moves(e, i, "accept", "add") \/ Moves(e, i, "accept", "failed")
            \/ Moves(e, i, "echo", "add") \/ Moves(e, i, "echo", "failed")
            \/ Moves(e, i, "add", "ok")
  BY DEF Racer, Moves, Rests, Step, BeginDial, Hello, DialPanics, DialTimesOut, Listen,
         EchoHello, ReadEcho, ConnectionLost, AddStream
<1> QED
  BY <1>1, <1>2, <1>3, <1>4, <1>5

\* A goroutine that ends the process lacks metrics, or is not the only one.
LEMMA RacerSurvives ==
    ASSUME TypeOK, RoleInv, RaceInv, ProcessSurvives, NEW e \in Ends, NEW i \in Paths, Racer(e, i)
    PROVE  ProcessSurvives'
<1>1. UNCHANGED <<config, role>>
  BY RacerMoves DEF Race, Rests, Moves
<1>2. CASE dead' = dead
  BY <1>1, <1>2 DEF ProcessSurvives, Racing, Active, PathsGet, Measured
<1>3. ASSUME dead' = [dead EXCEPT ![e] = TRUE],
             Racing(e) > 1 \/ (role[e] = "dial" /\ ~ (1 .. Active(e) \subseteq Measured))
      PROVE  ProcessSurvives'
  <2>1. \A f \in Ends : f # e => dead'[f] = dead[f]
    BY <1>3 DEF TypeOK
  <2>2. ~ (Racing(e) <= 1 /\ (role[e] = "dial" => 1 .. Active(e) \subseteq Measured))
    <3>1. Racing(e) \in Int
      BY ConfigFacts DEF Racing, Ends
    <3> QED
      BY <1>3, <3>1
  <2>3. /\ \A f \in Ends : Racing(f)' = Racing(f) /\ Active(f)' = Active(f)
        /\ role' = role /\ (PathsGet <=> PathsGet') /\ Measured' = Measured
    BY <1>1 DEF Racing, Active, PathsGet, Measured
  <2>4. ASSUME NEW f \in Ends,
               /\ Racing(f) <= 1
               /\ f = "dialer" => PathsGet /\ 0 \in Measured
               /\ role[f] = "dial" => 1 .. Active(f) \subseteq Measured
        PROVE  ~dead'[f]
    <3>1. f # e
      BY <2>2, <2>4
    <3>2. ~dead[f]
      BY <2>4 DEF ProcessSurvives
    <3> QED
      BY <2>1, <3>1, <3>2, Zenon
  <2> QED
    BY <2>3, <2>4 DEF ProcessSurvives
<1>4. ASSUME NEW j \in Paths, racer[e][j] # "none" PROVE j \in Nat /\ 1 <= j /\ j <= Racing(e)
  <2>1. role[e] # "none"
    BY <1>4 DEF RoleInv, States
  <2>2. j \in Nat /\ 1 <= j /\ ~ (j > Racing(e))
    BY <1>4, <2>1, ConfigFacts DEF RaceInv, Paths
  <2>3. Racing(e) \in Int
    BY ConfigFacts DEF Racing, Ends
  <2> QED
    BY <2>2, <2>3
<1>5. CASE DialPanics(e, i)
  <2>1. racer[e][i] = "dialing" /\ i \notin Measured /\ dead' = [dead EXCEPT ![e] = TRUE]
    BY <1>5 DEF DialPanics, Panics
  <2>2. role[e] = "dial"
    BY <2>1 DEF RoleInv, States, TypeOK
  <2>3. i \in 1 .. Active(e)
    <3>1. Racing(e) = Active(e)
      BY <2>2 DEF Racing
    <3>2. Active(e) \in Int
      BY ConfigFacts
    <3> QED
      BY <1>4, <2>1, <3>1, <3>2
  <2> QED
    BY <1>3, <2>1, <2>2, <2>3
<1>6. ASSUME NEW j \in Paths \ {i}, racer[e][i] = "add", racer[e][j] = "add",
             dead' = [dead EXCEPT ![e] = TRUE]
      PROVE  ProcessSurvives'
  <2>1. i \in Nat /\ 1 <= i /\ i <= Racing(e) /\ j \in Nat /\ 1 <= j /\ j <= Racing(e)
    BY <1>4, <1>6
  <2>2. Racing(e) \in Int
    BY ConfigFacts DEF Racing, Ends
  <2>3. Racing(e) > 1
    BY <1>6, <2>1, <2>2
  <2> QED
    BY <1>3, <1>6, <2>3
<1>7. dead' = dead \/ DialPanics(e, i) \/ AddStream(e, i)
  BY DEF Racer, Step, BeginDial, Hello, DialTimesOut, Listen, EchoHello, ReadEcho, ConnectionLost
<1>8. CASE AddStream(e, i)
  BY <1>2, <1>6, <1>8, Zenon DEF AddStream
<1> QED
  BY <1>2, <1>5, <1>7, <1>8

-----------------------------------------------------------------------------
(* Connect and ListenAndAccept preserve it. *)

\* A step of Connect or ListenAndAccept at e that starts no goroutine.
LEMMA MainMoves ==
    ASSUME StartupInv, NEW e \in Ends, NEW m \in {"dialing", "accept", "reply", "error"},
           main[e] \notin {"race", "done"}, main' = [main EXCEPT ![e] = m],
           toPeer' \in [Ends -> -1 .. MaxPaths], toPeer'["dialer"] \in {-1, Active("dialer")},
           silenced' \in [Ends -> Int],
           \A f \in Ends : f # e => silenced'[f] = silenced[f],
           silenced'[e] - Cardinality(Silent(e)) \in ByMain(m),
           m = "dialing" => e = "dialer",
           UNCHANGED <<config, role, racer, sent, stored, clashed, loops, dead>>
    PROVE  StartupInv'
<1> USE DEF StartupInv
<1>1. TypeOK'
  BY DEF TypeOK
<1>2. RoleInv' /\ LoopsInv'
  BY DEF TypeOK, RoleInv, LoopsInv
<1>3. HelloInv' /\ ProcessSurvives'
  BY DEF HelloInv, ProcessSurvives, Racing, Active, PathsGet, Measured
<1>4. SilenceInv'
  <2>1. ASSUME NEW f \in Ends PROVE Silent(f)' = Silent(f)
    BY DEF Silent
  <2>2. silenced'[e] - Cardinality(Silent(e)') \in ByMain(m)
    BY <2>1
  <2>3. main'[e] = m /\ \A f \in Ends : f # e => main'[f] = main[f]
    BY DEF TypeOK
  <2> QED
    BY <2>1, <2>2, <2>3 DEF SilenceInv
<1>5. RaceInv'
  BY DEF RaceInv, Racing, Active
<1> QED
  BY <1>1, <1>2, <1>3, <1>4, <1>5

\* A step that only ends a process, under circumstances in which it may.
LEMMA MainPanics ==
    ASSUME StartupInv, Panics("dialer"), ~PathsGet \/ 0 \notin Measured,
           UNCHANGED <<config, main, toPeer, role, racer, sent, stored, clashed, silenced, loops>>
    PROVE  StartupInv'
<1> USE DEF StartupInv
<1>1. TypeOK'
  <2>1. dead' \in [Ends -> BOOLEAN]
    BY Zenon DEF TypeOK, Panics
  <2> QED
    BY <2>1 DEF TypeOK
<1>2. RoleInv' /\ LoopsInv' /\ HelloInv'
  BY DEF RoleInv, LoopsInv, HelloInv
<1>3. SilenceInv' /\ RaceInv'
  BY DEF SilenceInv, Silent, RaceInv, Racing, Active
<1>4. ProcessSurvives'
  <2>1. \A f \in Ends : f # "dialer" => dead'[f] = dead[f]
    BY DEF TypeOK, Panics
  <2> QED
    BY <2>1 DEF ProcessSurvives, Racing, Active, PathsGet, Measured
<1> QED
  BY <1>1, <1>2, <1>3, <1>4

\* What Connect and ListenAndAccept find before they race.
LEMMA BeforeRace ==
    ASSUME StartupInv, NEW e \in Ends, main[e] \notin {"race", "done"}
    PROVE  /\ silenced \in [Ends -> Int] /\ toPeer \in [Ends -> -1 .. MaxPaths]
           /\ toPeer["dialer"] \in {-1, Active("dialer")}
           /\ Cardinality(Silent(e)) = 0
           /\ silenced[e] \in ByMain(main[e])
<1>1. Silent(e) = {}
  BY DEF StartupInv, RoleInv, States, Silent
<1>2. Cardinality(Silent(e)) = 0
  BY <1>1, FS_EmptySet
<1>3. silenced[e] \in Int /\ silenced[e] - Cardinality(Silent(e)) \in ByMain(main[e])
  BY DEF StartupInv, TypeOK, SilenceInv
<1>4. silenced[e] \in ByMain(main[e])
  BY <1>2, <1>3
<1> QED
  BY <1>2, <1>4 DEF StartupInv, TypeOK, RaceInv

LEMMA ConnectStep ==
    ASSUME StartupInv, Connect
    PROVE  StartupInv'
<1>0. /\ "dialer" \in Ends /\ main["dialer"] = "start"
      /\ silenced \in [Ends -> Int] /\ toPeer \in [Ends -> -1 .. MaxPaths]
      /\ toPeer["dialer"] \in {-1, Active("dialer")}
      /\ Cardinality(Silent("dialer")) = 0
      /\ silenced["dialer"] = 0
      /\ UNCHANGED <<config, toPeer, role, racer, sent, stored, clashed, loops>>
  BY BeforeRace DEF Ends, Connect, MainAt, ByMain
<1>1. CASE Goto("dialer", "dialing") /\ silenceLog("dialer") /\ UNCHANGED dead
  <2>1. /\ silenced' \in [Ends -> Int] /\ silenced'["dialer"] = 1
        /\ \A f \in Ends : f # "dialer" => silenced'[f] = silenced[f]
    BY <1>0, <1>1 DEF silenceLog
  <2>2. silenced'["dialer"] - Cardinality(Silent("dialer")) \in ByMain("dialing")
    BY <1>0, <2>1 DEF ByMain
  <2> QED
    BY <1>0, <1>1, <2>1, <2>2, MainMoves DEF Goto
<1>2. CASE Goto("dialer", "error") /\ UNCHANGED <<silenced, dead>>
  <2>1. silenced'["dialer"] - Cardinality(Silent("dialer")) \in ByMain("error")
    BY <1>0, <1>2 DEF ByMain
  <2> QED
    BY <1>0, <1>2, <2>1, MainMoves DEF Goto
<1>3. CASE ~PathsGet /\ Panics("dialer") /\ UNCHANGED <<main, silenced>>
  BY <1>0, <1>3, MainPanics
<1> QED
  BY <1>1, <1>2, <1>3 DEF Connect

LEMMA DialControlStep ==
    ASSUME StartupInv, DialControl
    PROVE  StartupInv'
<1>0. /\ "dialer" \in Ends /\ main["dialer"] = "dialing"
      /\ silenced \in [Ends -> Int] /\ toPeer \in [Ends -> -1 .. MaxPaths]
      /\ toPeer["dialer"] \in {-1, Active("dialer")}
      /\ Cardinality(Silent("dialer")) = 0
      /\ silenced["dialer"] = 1
      /\ UNCHANGED <<config, role, racer, sent, stored, clashed, loops>>
  BY BeforeRace DEF Ends, DialControl, MainAt, ByMain
<1>1. ASSUME NEW m \in {"reply", "error"}, unsilenceLog("dialer"), Goto("dialer", m),
             UNCHANGED dead,
             \/ UNCHANGED toPeer
             \/ toPeer' = [toPeer EXCEPT !["dialer"] = Active("dialer")]
      PROVE  StartupInv'
  <2>1. /\ silenced' \in [Ends -> Int] /\ silenced'["dialer"] = 0
        /\ \A f \in Ends : f # "dialer" => silenced'[f] = silenced[f]
    BY <1>0, <1>1 DEF unsilenceLog
  <2>2. toPeer' \in [Ends -> -1 .. MaxPaths] /\ toPeer'["dialer"] \in {-1, Active("dialer")}
    <3>1. Active("dialer") \in 0 .. MaxPaths /\ MaxPaths \in Nat
      BY ConfigFacts, <1>0 DEF StartupInv
    <3>2. Active("dialer") \in -1 .. MaxPaths
      BY <3>1
    <3> QED
      BY <1>0, <1>1, <3>2
  <2>3. silenced'["dialer"] - Cardinality(Silent("dialer")) \in ByMain(m)
    BY <1>0, <2>1 DEF ByMain
  <2>4. main["dialer"] \notin {"race", "done"} /\ m # "dialing"
    BY <1>0
  <2> QED
    BY <1>0, <1>1, <2>1, <2>2, <2>3, <2>4, MainMoves DEF Goto
<1>2. CASE Goto("dialer", "error") /\ UNCHANGED <<toPeer, silenced, dead>>
  <2>1. silenced'["dialer"] - Cardinality(Silent("dialer")) \in ByMain("error")
    BY <1>0, <1>2 DEF ByMain
  <2> QED
    BY <1>0, <1>2, <2>1, MainMoves DEF Goto
<1>3. CASE 0 \notin Measured /\ Panics("dialer") /\ UNCHANGED <<main, toPeer, silenced>>
  BY <1>0, <1>3, MainPanics
<1> QED
  BY <1>1, <1>2, <1>3 DEF DialControl

LEMMA ListenControlStep ==
    ASSUME StartupInv, ListenControl \/ \E e \in Ends : ControlLost(e)
    PROVE  StartupInv'
<1>1. ASSUME NEW e \in Ends, NEW m \in {"accept", "error"}, Goto(e, m),
             main[e] \in {"start", "accept", "reply"},
             (silenceLog(e) /\ m = "error") \/ UNCHANGED silenced,
             UNCHANGED <<config, toPeer, role, racer, sent, stored, clashed, loops, dead>>
      PROVE  StartupInv'
  <2>1. /\ silenced \in [Ends -> Int] /\ toPeer \in [Ends -> -1 .. MaxPaths]
        /\ toPeer["dialer"] \in {-1, Active("dialer")}
        /\ Cardinality(Silent(e)) = 0
        /\ silenced[e] = 0
    BY <1>1, BeforeRace DEF ByMain
  <2>2. /\ silenced' \in [Ends -> Int] /\ silenced'[e] \in {0, 1} /\ (m = "accept" => silenced'[e] = 0)
        /\ \A f \in Ends : f # e => silenced'[f] = silenced[f]
    BY <1>1, <2>1 DEF silenceLog
  <2>3. silenced'[e] - Cardinality(Silent(e)) \in ByMain(m)
    BY <1>1, <2>1, <2>2 DEF ByMain
  <2>4. main[e] \notin {"race", "done"} /\ m # "dialing"
    BY <1>1
  <2> QED
    BY <1>1, <2>1, <2>2, <2>3, <2>4, MainMoves DEF Goto
<1> QED
  BY <1>1 DEF ListenControl, ControlLost, MainAt, Ends

\* The race begins at e: n goroutines, all of one role, and none has said hello.
LEMMA RaceBegins ==
    ASSUME StartupInv, NEW e \in Ends, NEW r \in {"dial", "listen"}, NEW n \in 0 .. MaxPaths,
           main[e] \notin {"race", "done", "dialing", "error"},
           main' = [main EXCEPT ![e] = "race"], role' = [role EXCEPT ![e] = r],
           racer' = Spawn(e, r, n),
           n = IF r = "listen" THEN Active("dialer") ELSE Active(e), ~dead[e],
           toPeer' \in [Ends -> -1 .. MaxPaths], toPeer'["dialer"] \in {-1, Active("dialer")},
           UNCHANGED <<config, sent, stored, clashed, silenced, loops, dead>>
    PROVE  StartupInv'
<1> DEFINE first == IF r = "dial" THEN "dial" ELSE "listen"
<1>1. /\ racer'[e] = [i \in Paths |-> IF i > n THEN "none" ELSE first]
      /\ \A f \in Ends : f # e => racer'[f] = racer[f]
      /\ racer' \in [Ends -> [Paths -> {"none", "dial", "dialing", "listen", "accept", "echo",
                                        "add", "ok", "failed", "muted"}]]
  BY DEF StartupInv, TypeOK, Spawn
<1>2. /\ role[e] = "none" /\ \A i \in Paths : racer[e][i] = "none" /\ i \notin sent[e]
      /\ ~loops[e]
  BY DEF StartupInv, RoleInv, States, HelloInv, LoopsInv, TypeOK
<1>3. TypeOK'
  <2>1. /\ main' \in [Ends -> {"start", "dialing", "accept", "reply", "race", "done", "error"}]
        /\ role' \in [Ends -> {"none", "dial", "listen"}]
    BY DEF StartupInv, TypeOK
  <2>2. \A f \in Ends : {i \in Paths : racer'[f][i] = "ok"} = {i \in Paths : racer[f][i] = "ok"}
    <3>1. \A f \in Ends : \A i \in Paths : racer'[f][i] = "ok" <=> racer[f][i] = "ok"
      BY <1>1, <1>2
    <3> QED
      BY <3>1, Zenon
  <2>3. \A f \in Ends : LET through == {i \in Paths : racer'[f][i] = "ok"}
                       IN  stored'[f] \subseteq through /\ (~clashed'[f] => stored'[f] = through)
    <3>1. \A f \in Ends : LET through == {i \in Paths : racer[f][i] = "ok"}
                         IN  stored[f] \subseteq through /\ (~clashed[f] => stored[f] = through)
      BY DEF StartupInv, TypeOK
    <3>2. \A f \in Ends : stored'[f] = stored[f] /\ clashed'[f] = clashed[f]
      OBVIOUS
    <3> QED
      BY <2>2, <3>1, <3>2, Zenon
  <2>4. /\ config' \in Configs /\ toPeer' \in [Ends -> -1 .. MaxPaths] /\ sent' \in [Ends -> SUBSET Paths]
        /\ stored' \in [Ends -> SUBSET Paths] /\ clashed' \in [Ends -> BOOLEAN]
        /\ silenced' \in [Ends -> Int] /\ loops' \in [Ends -> BOOLEAN] /\ dead' \in [Ends -> BOOLEAN]
    BY DEF StartupInv, TypeOK
  <2> QED
    BY <1>1, <2>1, <2>3, <2>4, Zenon DEF TypeOK
<1>4. /\ role'[e] = r /\ main'[e] = "race"
      /\ \A f \in Ends : f # e => role'[f] = role[f] /\ main'[f] = main[f]
  BY DEF StartupInv, TypeOK
<1>5. RoleInv'
  BY <1>1, <1>4 DEF StartupInv, RoleInv, States
<1>6. LoopsInv'
  BY <1>1, <1>2, <1>4 DEF StartupInv, LoopsInv
<1>7. HelloInv'
  <2>1. \A i \in Paths : racer'[e][i] \notin {"echo", "add", "ok"}
    BY <1>1
  <2>2. \A f \in Ends : role[f] = "listen" => role'[f] = "listen"
    BY <1>2, <1>4
  <2> QED
    BY <1>1, <1>2, <1>4, <2>1, <2>2 DEF StartupInv, HelloInv, Ends, Peer
<1>8. SilenceInv'
  <2>1. \A f \in Ends : Silent(f)' = Silent(f)
    BY <1>1, <1>2 DEF Silent
  <2>2. ByMain(main[e]) = ByMain(main'[e])
    BY <1>4 DEF ByMain
  <2> QED
    BY <1>4, <2>1, <2>2 DEF StartupInv, SilenceInv
<1>9. RaceInv'
  <2>1. MaxPaths \in Nat /\ Paths = 1 .. MaxPaths
    BY ConfigFacts DEF StartupInv, Paths
  <2>2. /\ Racing(e)' = n /\ Active("dialer")' = Active("dialer")
        /\ \A f \in Ends : f # e => Racing(f)' = Racing(f)
    BY <1>4 DEF Racing, Active
  <2>3. \A i \in Paths : racer'[e][i] = "none" <=> i > n
    BY <1>1, <2>1
  <2>4. \A f \in Ends : f # e => role'[f] = role[f] /\ racer'[f] = racer[f]
    BY <1>1, <1>4
  <2> QED
    BY <2>2, <2>3, <2>4 DEF StartupInv, RaceInv
<1>10. ProcessSurvives'
  <2>1. /\ (PathsGet <=> PathsGet') /\ Measured' = Measured
        /\ \A f \in Ends : Active(f)' = Active(f)
        /\ \A f \in Ends : f # e => Racing(f)' = Racing(f)
    BY <1>4 DEF PathsGet, Measured, Active, Racing
  <2> QED
    BY <1>4, <2>1 DEF StartupInv, ProcessSurvives
<1> QED
  BY <1>3, <1>5, <1>6, <1>7, <1>8, <1>9, <1>10 DEF StartupInv

LEMMA AcceptControlStep ==
    ASSUME StartupInv, AcceptControl
    PROVE  StartupInv'
<1> DEFINE r == IF Responsible("listener") = "server" THEN "dial" ELSE "listen"
           n == IF r = "dial" THEN Active("listener") ELSE toPeer["dialer"]
<1>1. "listener" \in Ends /\ "dialer" \in Ends /\ main["listener"] = "accept"
  BY DEF AcceptControl, MainAt, Ends
<1>2. MaxPaths \in Nat /\ \A f \in Ends : Active(f) \in 0 .. MaxPaths
  BY ConfigFacts DEF StartupInv
<1>3. toPeer \in [Ends -> -1 .. MaxPaths] /\ toPeer["dialer"] = Active("dialer")
  BY DEF StartupInv, TypeOK, RaceInv, AcceptControl
<1>4. /\ n \in 0 .. MaxPaths
      /\ n = IF r = "listen" THEN Active("dialer") ELSE Active("listener")
  BY <1>1, <1>2, <1>3
<1>5. /\ toPeer' \in [Ends -> -1 .. MaxPaths] /\ toPeer'["dialer"] = -1
  BY <1>1, <1>2, <1>3 DEF AcceptControl
<1>6. /\ role' = [role EXCEPT !["listener"] = r] /\ racer' = Spawn("listener", r, n)
      /\ main' = [main EXCEPT !["listener"] = "race"]
      /\ UNCHANGED <<config, sent, stored, clashed, silenced, loops, dead>>
  BY DEF AcceptControl, Goto
<1>7. r \in {"dial", "listen"}
  OBVIOUS
<1>8. ~dead["listener"]
  BY DEF AcceptControl, MainAt
<1> HIDE DEF r, n
<1> QED
  BY <1>1, <1>4, <1>5, <1>6, <1>7, <1>8, RaceBegins

LEMMA ReadReplyStep ==
    ASSUME StartupInv, ReadReply
    PROVE  StartupInv'
<1> DEFINE r == IF Responsible("dialer") = "server" THEN "listen" ELSE "dial"
           n == Active("dialer")
<1>1. "listener" \in Ends /\ "dialer" \in Ends /\ main["dialer"] = "reply"
  BY DEF ReadReply, MainAt, Ends
<1>2. MaxPaths \in Nat /\ n \in 0 .. MaxPaths
  BY <1>1, ConfigFacts DEF StartupInv
<1>3. toPeer' \in [Ends -> -1 .. MaxPaths] /\ toPeer'["dialer"] \in {-1, Active("dialer")}
  BY <1>1, <1>2 DEF StartupInv, TypeOK, RaceInv, ReadReply
<1>4. /\ role' = [role EXCEPT !["dialer"] = r] /\ racer' = Spawn("dialer", r, n)
      /\ main' = [main EXCEPT !["dialer"] = "race"]
      /\ UNCHANGED <<config, sent, stored, clashed, silenced, loops, dead>>
  BY DEF ReadReply, Goto
<1>5. r \in {"dial", "listen"}
  OBVIOUS
<1>6. n = (IF r = "listen" THEN Active("dialer") ELSE Active("dialer")) /\ ~dead["dialer"]
  BY DEF ReadReply, MainAt
<1> HIDE DEF r, n
<1> QED
  BY <1>1, <1>2, <1>3, <1>4, <1>5, <1>6, RaceBegins

LEMMA JoinStep ==
    ASSUME StartupInv, NEW e \in Ends, Join(e)
    PROVE  StartupInv'
<1>1. TypeOK'
  <2>1. loops' \in [Ends -> BOOLEAN]
    BY Zenon DEF StartupInv, TypeOK, Join
  <2> QED
    BY <2>1 DEF StartupInv, TypeOK, Join
<1>2. RoleInv' /\ HelloInv'
  BY DEF StartupInv, TypeOK, RoleInv, HelloInv, Join
<1>3. LoopsInv'
  <2>1. main'[e] = "done" /\ \A f \in Ends : f # e => main'[f] = main[f]
    BY DEF StartupInv, TypeOK, Join
  <2>2. \A f \in Ends : f # e => loops'[f] = loops[f]
    BY DEF StartupInv, TypeOK, Join
  <2>3. loops'[e] = \A i \in Paths : racer[e][i] \notin {"failed", "muted"}
    BY Zenon DEF StartupInv, TypeOK, Join
  <2>4. /\ loops'[e] => \A i \in Paths : racer[e][i] \in {"none", "ok"}
        /\ ~loops'[e] => \E i \in Paths : racer[e][i] \in {"failed", "muted"}
    BY <2>3 DEF Join, Joined
  <2>5. racer' = racer
    BY DEF Join
  <2> QED
    BY <2>1, <2>2, <2>4, <2>5 DEF StartupInv, LoopsInv
<1>4. SilenceInv'
  <2>1. \A f \in Ends : Silent(f)' = Silent(f) /\ silenced'[f] = silenced[f]
    BY DEF Silent, Join
  <2>2. \A f \in Ends : ByMain(main'[f]) = ByMain(main[f]) /\ (main'[f] = "dialing" => main[f] = "dialing")
    BY DEF StartupInv, TypeOK, Join, ByMain
  <2> QED
    BY <2>1, <2>2 DEF StartupInv, SilenceInv
<1>5. RaceInv' /\ ProcessSurvives'
  BY DEF StartupInv, RaceInv, ProcessSurvives, Racing, Active, PathsGet, Measured, Join
<1> QED
  BY <1>1, <1>2, <1>3, <1>4, <1>5 DEF StartupInv

-----------------------------------------------------------------------------
(* The theorems. *)

LEMMA StartupInit == Init => StartupInv
<1> SUFFICES ASSUME Init PROVE StartupInv
  OBVIOUS
<1>0. MaxPaths \in Nat /\ Configs \subseteq Config
  BY StartupAssumption
<1>1. TypeOK
  BY <1>0 DEF Init, TypeOK
<1>2. RoleInv /\ LoopsInv /\ HelloInv
  BY DEF Init, RoleInv, States, LoopsInv, HelloInv, Ends, Peer
<1>3. SilenceInv
  <2>1. \A e \in Ends : Silent(e) = {}
    BY DEF Init, Silent
  <2>2. \A e \in Ends : Cardinality(Silent(e)) = 0
    BY <2>1, FS_EmptySet
  <2> QED
    BY <2>2 DEF Init, SilenceInv, ByMain
<1>4. RaceInv /\ ProcessSurvives
  BY DEF Init, RaceInv, ProcessSurvives, Ends
<1> QED
  BY <1>1, <1>2, <1>3, <1>4 DEF StartupInv

\* The inductive invariant holds in every state that the two ends can get to.
THEOREM StartupCorrect == Spec => []StartupInv
<1>1. StartupInv /\ [Next]_vars => StartupInv'
  <2> SUFFICES ASSUME StartupInv, [Next]_vars PROVE StartupInv'
    OBVIOUS
  <2>1. ASSUME NEW e \in Ends, NEW i \in Paths, Racer(e, i) PROVE StartupInv'
    BY <2>1, RacerTypes, RacerRoles, RacerHellos, RacerSilence, RacerSurvives DEF StartupInv
  <2>2. CASE UNCHANGED vars
    <3>1. TypeOK'
      BY <2>2 DEF vars, StartupInv, TypeOK
    <3>2. RoleInv' /\ LoopsInv' /\ HelloInv'
      BY <2>2 DEF vars, StartupInv, RoleInv, LoopsInv, HelloInv
    <3>3. SilenceInv' /\ RaceInv' /\ ProcessSurvives'
      BY <2>2 DEF vars, StartupInv, SilenceInv, Silent, RaceInv, Racing, Active,
                  ProcessSurvives, PathsGet, Measured
    <3> QED
      BY <3>1, <3>2, <3>3 DEF StartupInv
  <2> QED
    BY <2>1, <2>2, ConnectStep, DialControlStep, ListenControlStep, AcceptControlStep,
       ReadReplyStep, JoinStep DEF Next
<1> QED
  BY <1>1, StartupInit, PTL DEF Spec

\* The state of both ends is well typed, and dp.Streams holds the connections of the
\* goroutines that are through, and no others.
THEOREM StartupTypes == Spec => []TypeOK
<1>1. StartupInv => TypeOK
  BY DEF StartupInv
<1> QED
  BY <1>1, StartupCorrect, PTL

\* The dataplane loops, which range over dp.Streams once, miss no connection that a
\* lost store has not dropped.
THEOREM LoopsMissNothing == Spec => []LoopsCoverStreams
<1>1. StartupInv => LoopsCoverStreams
  BY DEF StartupInv, TypeOK, LoopsInv, LoopsCoverStreams
<1> QED
  BY <1>1, StartupCorrect, PTL

\* What the loops of an end that dials write to has been answered by the other end, and
\* an end that waits for no more than that runs its loops as well once it is done.
THEOREM DialedAreListened == Spec => []DialedMeansListened
<1>1. StartupInv => DialedMeansListened
  <2> SUFFICES ASSUME StartupInv, NEW e \in Ends, loops[e], role[e] = "dial", NEW f, f = Peer(e)
               PROVE  /\ \A i \in Paths : racer[e][i] = "ok" => racer[f][i] \in {"add", "ok"}
                      /\ role[f] = "listen" /\ (e = "dialer" \/ Active("dialer") <= Active("listener")) =>
                            /\ \A i \in Paths : racer[f][i] \in {"none", "add", "ok"}
                            /\ main[f] = "done" => loops[f]
    BY DEF DialedMeansListened
  <2>0. f \in Ends /\ Peer(f) = e /\ (e = "dialer" \/ e = "listener")
    BY DEF Ends, Peer
  <2>1. ASSUME NEW i \in Paths, racer[e][i] = "ok"
        PROVE  racer[f][i] \in {"add", "ok"}
    <3>1. i \in sent[f] /\ role[f] = "listen"
      BY <2>1 DEF StartupInv, HelloInv
    <3> QED
      BY <2>0, <3>1 DEF StartupInv, HelloInv
  <2>2. ASSUME role[f] = "listen", e = "dialer" \/ Active("dialer") <= Active("listener"),
               NEW i \in Paths
        PROVE  racer[f][i] \in {"none", "add", "ok"}
    <3>1. CASE racer[f][i] = "none"
      BY <3>1
    <3>2. CASE racer[f][i] # "none"
      <4>1. i \in Int /\ Active("dialer") \in Int /\ Active("listener") \in Int
        BY ConfigFacts DEF StartupInv, Paths, Ends
      <4>2. Racing(f) = Active("dialer") /\ Racing(e) = Active(e)
        BY <2>2 DEF Racing
      <4>3. i <= Active("dialer")
        BY <2>0, <2>2, <3>2, <4>1, <4>2 DEF StartupInv, RaceInv
      <4>4. i <= Active(e)
        BY <2>0, <2>2, <4>1, <4>3
      <4>5. racer[e][i] # "none"
        BY <2>0, <4>1, <4>2, <4>4 DEF StartupInv, RaceInv
      <4>6. racer[e][i] = "ok"
        BY <4>5 DEF StartupInv, LoopsInv
      <4> QED
        BY <2>1, <4>6
    <3> QED
      BY <3>1, <3>2
  <2>3. ASSUME \A i \in Paths : racer[f][i] \in {"none", "add", "ok"}, main[f] = "done"
        PROVE  loops[f]
    BY <2>0, <2>3 DEF StartupInv, LoopsInv
  <2> QED
    BY <2>1, <2>2, <2>3
<1> QED
  BY <1>1, StartupCorrect, PTL

\* silenceLog and unsilenceLog are balanced but for the dials that fail.
THEOREM LogIsRestored == Spec => []LogComesBack
<1>1. StartupInv => LogComesBack
  <2> SUFFICES ASSUME StartupInv, NEW e \in Ends
               PROVE  /\ silenced[e] >= 0
                      /\ /\ main[e] \notin {"dialing", "error"}
                         /\ \A i \in Paths : racer[e][i] \notin {"dialing", "muted"}
                         => silenced[e] = 0
    BY DEF LogComesBack
  <2>1. /\ silenced[e] \in Int /\ Cardinality(Silent(e)) \in Nat
        /\ silenced[e] - Cardinality(Silent(e)) \in ByMain(main[e])
    BY SilentFinite DEF StartupInv, TypeOK, SilenceInv
  <2>2. silenced[e] >= 0
    BY <2>1 DEF ByMain
  <2>3. ASSUME main[e] \notin {"dialing", "error"},
               \A i \in Paths : racer[e][i] \notin {"dialing", "muted"}
        PROVE  silenced[e] = 0
    <3>1. Silent(e) = {}
      BY <2>3 DEF Silent
    <3>2. Cardinality(Silent(e)) = 0
      BY <3>1, FS_EmptySet
    <3> QED
      BY <2>1, <2>3, <3>2 DEF ByMain
  <2> QED
    BY <2>2, <2>3
<1> QED
  BY <1>1, StartupCorrect, PTL

\* An end that races for one connection at most, and has metrics for what it dials,
\* survives whatever fails.
THEOREM OneRacerIsSafe == Spec => []ProcessSurvives
<1>1. StartupInv => ProcessSurvives
  BY DEF StartupInv
<1> QED
  BY <1>1, StartupCorrect, PTL
=============================================================================
