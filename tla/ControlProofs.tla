---------------------------- MODULE ControlProofs ----------------------------
(***************************************************************************)
(* The safety of ControlStream for any number of streams and of goroutines *)
(* that may call, and for any way in which the reads cut up the packets:   *)
(* what a single goroutine's calls put on the wire stays in order however  *)
(* often it is echoed, so no id is garbled.                                *)
(***************************************************************************)
EXTENDS ControlStream, SumProofs

-----------------------------------------------------------------------------
(* The inductive invariant, for any number of callers. *)

\* The words that Encode makes.
Sense == [w : {"flags"}, v : {"hs", "prop"}] \cup [w : {"hi", "lo"}, v : Ids]
         \cup [w : {"pref"}, v : {None}]

WordsInv ==
    /\ wire \in [Ends -> Seq(Sense)]
    /\ cbuf \in [Ends -> Seq(Sense)]
    /\ gbuf \in [Callers -> Seq(Sense)]

PhaseInv ==
    /\ \A e \in Ends : /\ Len(cbuf[e]) <= 4
                       /\ cpc[e] = "flags" => cbuf[e] = <<>>
                       /\ ~ up => wire[e] = <<>>
    /\ \A g \in Callers : /\ Len(gbuf[g]) <= 4
                          /\ gpc[g] = "idle" => gbuf[g] = <<>>
                          /\ gpc[g] = "return" <=> Len(gbuf[g]) = 4
                          /\ gpc[g] # "idle" => g \in load.callers

\* A handshake is about a stream that its caller has drawn the id of.
CallInv ==
    \A g \in Callers : gpc[g] # "idle" /\ gcall[g].flag = "hs" =>
        /\ gcall[g].id \in DOMAIN opened
        /\ opened[gcall[g].id] = EndOf[g]

BaseInv == TypeOK /\ WordsInv /\ PhaseInv /\ CallInv

-----------------------------------------------------------------------------
(* The inductive invariant for a single caller g. *)

\* The place of a word in its packet.
Rank(x) == IF x.w = "flags" THEN 1 ELSE IF x.w = "hi" THEN 2 ELSE IF x.w = "lo" THEN 3 ELSE 4

\* s and after it t are words of request c in their order, some missing.
From(s, c)   == \A i \in 1 .. Len(s) : s[i] = Encode(c)[Rank(s[i])]
Rising(s)    == \A i, j \in 1 .. Len(s) : i < j => Rank(s[i]) < Rank(s[j])
Before(s, t) == \A i \in 1 .. Len(s) : \A j \in 1 .. Len(t) : Rank(s[i]) < Rank(t[j])
Follows(s, t, c) ==
    From(s, c) /\ From(t, c) /\ Rising(s) /\ Rising(t) /\ Before(s, t)

\* What the readLoop of e has read and not yet echoed.
Held(e) == IF cpc[e] \in {"body", "echo"} THEN cbuf[e] ELSE <<>>

\* The words that are on their way or being read, while only g calls.
OnWire(e) == Len(wire[e])
InHand(e) == Len(Held(e))
InCall(g) == Len(gbuf[g])
Around(g) == OnWire(EndOf[g]) + OnWire(Peer(EndOf[g]))
             + InHand(EndOf[g]) + InHand(Peer(EndOf[g])) + InCall(g)

\* They are the words of one packet at most, each of them once and in order for
\* whoever reads them.
PacketInv(g) ==
    up => /\ Around(g) <= IF gpc[g] = "idle" THEN 0 ELSE 4
          /\ gpc[g] # "idle" => /\ Follows(gbuf[g], wire[EndOf[g]], gcall[g])
                                /\ \A e \in Ends : Follows(Held(e), wire[e], gcall[g])

\* What comes back to the caller has been at its peer.
BackInv(g) ==
    gpc[g] # "idle" /\ gcall[g].flag = "hs" /\ (wire[EndOf[g]] # <<>> \/ gbuf[g] # <<>>)
        => gcall[g].id \in seen[Peer(EndOf[g])]

\* Every id that has got anywhere is one that was opened.
IdsInv(g) ==
    /\ gpc[g] # "idle" => gcall[g].id \in DOMAIN opened
    /\ \A e \in Ends : /\ seen[e] \cup streams[e] \subseteq DOMAIN opened
                       /\ apc[e] # None => apc[e] \in DOMAIN opened
                       /\ \A i \in 1 .. Len(log[e]) : log[e][i] \in DOMAIN opened
                       /\ cpc[e] = "offer" => Id(cbuf[e]) \in DOMAIN opened

ReturnedInv == \A id \in returned : id \in seen[Peer(opened[id])]

SingleInv(g) == PacketInv(g) /\ BackInv(g) /\ IdsInv(g) /\ ReturnedInv

ControlInv == BaseInv /\ \A g \in Callers : load.callers = {g} => SingleInv(g)
-----------------------------------------------------------------------------
(* The two ends, words and packets. *)

LEMMA PeerFacts ==
    ASSUME NEW e \in Ends
    PROVE  /\ Peer(e) \in Ends /\ Peer(e) # e
           /\ \A x \in Ends : x = e \/ x = Peer(e)
           /\ Peer(Peer(e)) = e
<1>1. IsFiniteSet(Ends) /\ Cardinality(Ends) = 2
  BY ControlAssumption
<1>2. \A x \in Ends : \E y : Ends \ {x} = {y}
  <2> SUFFICES ASSUME NEW x \in Ends PROVE \E y : Ends \ {x} = {y}
    OBVIOUS
  <2>1. IsFiniteSet(Ends \ {x}) /\ Cardinality(Ends \ {x}) = 1
    BY <1>1, FS_RemoveElement
  <2> QED
    BY <2>1, FS_Singleton
<1>3. ASSUME NEW x \in Ends
      PROVE  Peer(x) \in Ends /\ Peer(x) # x /\ \A y \in Ends : y = x \/ y = Peer(x)
  BY <1>2 DEF Peer
<1> QED
  BY <1>3

LEMMA SenseFacts ==
    /\ Sense \subseteq Word
    /\ \A c \in Call : Encode(c) \in Seq(Sense) /\ Len(Encode(c)) = 4
    /\ \A s \in Seq(Sense) : s \in Seq(Word) /\ Len(s) \in Nat
                             /\ \A i \in 1 .. Len(s) : s[i] \in Sense
<1>1. Sense \subseteq Word
  BY DEF Sense, Word
<1>2. ASSUME NEW c \in Call PROVE Encode(c) \in Seq(Sense) /\ Len(Encode(c)) = 4
  BY DEF Call, Encode, Sense
<1>3. ASSUME NEW s \in Seq(Sense)
      PROVE  s \in Seq(Word) /\ Len(s) \in Nat /\ \A i \in 1 .. Len(s) : s[i] \in Sense
  BY <1>1
<1> QED
  BY <1>1, <1>2, <1>3

\* got has the first m words of t after those of buf, and rest the others.
Split(S, buf, t, m, got, rest) ==
    /\ got \in Seq(S) /\ rest \in Seq(S)
    /\ Len(got) = Len(buf) + m /\ Len(rest) = Len(t) - m
    /\ \A i \in 1 .. Len(got) : \/ i \in 1 .. Len(buf) /\ got[i] = buf[i]
                                \/ /\ i \in Len(buf) + 1 .. Len(buf) + m
                                   /\ i - Len(buf) \in 1 .. m
                                   /\ got[i] = t[i - Len(buf)]
    /\ \A j \in 1 .. Len(rest) : j + m \in 1 .. Len(t) /\ rest[j] = t[j + m]

\* A ReadAll that has buf moves the first m words of t to it.
LEMMA SplitFacts ==
    ASSUME NEW S, NEW buf \in Seq(S), NEW t \in Seq(S), NEW m \in 1 .. Len(t),
           NEW got, got = buf \o SubSeq(t, 1, m), NEW rest, rest = SubSeq(t, m + 1, Len(t))
    PROVE  Split(S, buf, t, m, got, rest)
<1> DEFINE first == SubSeq(t, 1, m)
<1>1. first \in Seq(S) /\ Len(first) = m /\ \A i \in 1 .. m : first[i] = t[i]
  OBVIOUS
<1>2. rest \in Seq(S) /\ Len(rest) = Len(t) - m
      /\ \A j \in 1 .. Len(rest) : j + m \in 1 .. Len(t) /\ rest[j] = t[j + m]
  OBVIOUS
<1> HIDE DEF first
<1>3. got = buf \o first
  BY DEF first
<1>4. got \in Seq(S) /\ Len(got) = Len(buf) + m
  BY <1>1, <1>3
<1>5. ASSUME NEW i \in 1 .. Len(got)
      PROVE  \/ i \in 1 .. Len(buf) /\ got[i] = buf[i]
             \/ /\ i \in Len(buf) + 1 .. Len(buf) + m
                /\ i - Len(buf) \in 1 .. m
                /\ got[i] = t[i - Len(buf)]
  BY <1>1, <1>3, <1>4
<1> QED
  BY <1>2, <1>4, <1>5 DEF Split

LEMMA MinFacts ==
    ASSUME NEW a \in Int, NEW b \in Int
    PROVE  Min({a, b}) \in {a, b} /\ Min({a, b}) <= a /\ Min({a, b}) <= b
<1>1. \E x \in {a, b} : \A y \in {a, b} : x <= y
  <2>1. CASE a <= b
    BY <2>1
  <2>2. CASE b <= a
    BY <2>2
  <2> QED
    BY <2>1, <2>2
<1> QED
  BY <1>1 DEF Min

\* What one read takes from the wire.
LEMMA ReadsFacts ==
    ASSUME WordsInv, NEW e \in Ends, NEW buf \in Seq(Sense), NEW more, Reads(e, buf, more)
    PROVE  /\ more \in 1 .. Len(wire[e]) /\ Len(buf) + more <= 4
           /\ wire' \in [Ends -> Seq(Sense)]
           /\ wire'[e] = SubSeq(wire[e], more + 1, Len(wire[e]))
           /\ \A x \in Ends : x # e => wire'[x] = wire[x]
<1>1. wire \in [Ends -> Seq(Sense)] /\ Len(wire[e]) \in Nat /\ Len(buf) \in Nat
  BY DEF WordsInv
<1>2. /\ more \in 1 .. Min({4 - Len(buf), Len(wire[e])})
      /\ wire' = [wire EXCEPT ![e] = SubSeq(wire[e], more + 1, Len(wire[e]))]
  BY DEF Reads
<1>3. more \in 1 .. Len(wire[e]) /\ Len(buf) + more <= 4
  <2> PICK a, b, m : a = 4 - Len(buf) /\ b = Len(wire[e]) /\ m = Min({a, b})
    OBVIOUS
  <2>1. a \in Int /\ b \in Int
    BY <1>1
  <2>2. m \in {a, b} /\ m <= a /\ m <= b
    BY <2>1, MinFacts
  <2>3. more \in 1 .. m
    BY <1>2
  <2> QED
    BY <1>1, <2>1, <2>2, <2>3
<1>4. SubSeq(wire[e], more + 1, Len(wire[e])) \in Seq(Sense)
  BY <1>1, <1>3
<1> QED
  BY <1>1, <1>2, <1>3, <1>4

\* Reading keeps the words of a packet in order, for the reader and for another
\* that has read some before.
LEMMA FollowsRead ==
    ASSUME NEW c, NEW s \in Seq(Sense), NEW t \in Seq(Sense), NEW m \in 1 .. Len(t),
           Follows(s, t, c),
           NEW got, got = s \o SubSeq(t, 1, m), NEW rest, rest = SubSeq(t, m + 1, Len(t))
    PROVE  Follows(got, rest, c) /\ Follows(s, rest, c)
<1>0. Len(s) \in Nat /\ Len(t) \in Nat
  OBVIOUS
<1>a. Split(Sense, s, t, m, got, rest)
  BY SplitFacts, Zenon
<1>1. /\ got \in Seq(Sense) /\ rest \in Seq(Sense)
      /\ Len(got) = Len(s) + m /\ Len(rest) = Len(t) - m
      /\ \A i \in 1 .. Len(got) : \/ i \in 1 .. Len(s) /\ got[i] = s[i]
                                  \/ /\ i \in Len(s) + 1 .. Len(s) + m
                                     /\ i - Len(s) \in 1 .. m
                                     /\ got[i] = t[i - Len(s)]
      /\ \A j \in 1 .. Len(rest) : j + m \in 1 .. Len(t) /\ rest[j] = t[j + m]
  BY <1>a, Zenon DEF Split
<1>2. From(s, c) /\ From(t, c) /\ Rising(s) /\ Rising(t) /\ Before(s, t)
  BY DEF Follows
<1>3. From(got, c) /\ From(rest, c)
  <2>1. \A i \in 1 .. Len(s) : s[i] = Encode(c)[Rank(s[i])]
    BY <1>2 DEF From
  <2>2. \A i \in 1 .. Len(t) : t[i] = Encode(c)[Rank(t[i])]
    BY <1>2 DEF From
  <2>3. \A i \in 1 .. m : i \in 1 .. Len(t)
    BY <1>0, <1>1
  <2>4. ASSUME NEW i \in 1 .. Len(got) PROVE got[i] = Encode(c)[Rank(got[i])]
    <3>1. CASE i \in 1 .. Len(s) /\ got[i] = s[i]
      BY <2>1, <3>1
    <3>2. CASE i - Len(s) \in 1 .. m /\ got[i] = t[i - Len(s)]
      BY <2>2, <2>3, <3>2
    <3> QED
      BY <1>0, <1>1, <3>1, <3>2
  <2>5. ASSUME NEW j \in 1 .. Len(rest) PROVE rest[j] = Encode(c)[Rank(rest[j])]
    BY <1>0, <1>1, <2>2
  <2> QED
    BY <2>4, <2>5 DEF From
<1>4. Rising(rest)
  BY <1>0, <1>1, <1>2 DEF Rising
<1>5. Before(s, rest)
  BY <1>0, <1>1, <1>2 DEF Before
<1>6. ASSUME NEW i \in 1 .. Len(got), NEW j \in 1 .. Len(got), i < j
      PROVE  Rank(got[i]) < Rank(got[j])
  <2>1. CASE j \in 1 .. Len(s) /\ got[j] = s[j]
    <3>1. i \in 1 .. Len(s) /\ got[i] = s[i]
      BY <1>0, <1>1, <1>6, <2>1
    <3> QED
      BY <1>2, <1>6, <2>1, <3>1 DEF Rising
  <2>2. CASE /\ j \in Len(s) + 1 .. Len(s) + m
             /\ j - Len(s) \in 1 .. m /\ got[j] = t[j - Len(s)]
    <3>1. CASE i \in 1 .. Len(s) /\ got[i] = s[i]
      <4>1. j - Len(s) \in 1 .. Len(t)
        BY <1>0, <1>1, <2>2
      <4> QED
        BY <1>2, <2>2, <3>1, <4>1 DEF Before
    <3>2. CASE /\ i \in Len(s) + 1 .. Len(s) + m
               /\ i - Len(s) \in 1 .. m /\ got[i] = t[i - Len(s)]
      <4>1. /\ j - Len(s) \in 1 .. Len(t) /\ i - Len(s) \in 1 .. Len(t)
            /\ i - Len(s) < j - Len(s)
        <5>1. Len(s) \in Nat /\ m \in Nat /\ m <= Len(t) /\ Len(t) \in Nat /\ i \in Nat /\ j \in Nat
          BY <1>0, <1>1
        <5>2. j - Len(s) \in 1 .. Len(t)
          BY <2>2, <5>1
        <5>3. i - Len(s) \in 1 .. Len(t)
          BY <3>2, <5>1
        <5>4. i - Len(s) < j - Len(s)
          BY <1>6, <5>1
        <5> QED
          BY <5>2, <5>3, <5>4
      <4> QED
        BY <1>2, <2>2, <3>2, <4>1 DEF Rising
    <3> QED
      BY <1>0, <1>1, <3>1, <3>2
  <2> QED
    BY <1>0, <1>1, <2>1, <2>2
<1>7. ASSUME NEW i \in 1 .. Len(got), NEW j \in 1 .. Len(rest)
      PROVE  Rank(got[i]) < Rank(rest[j])
  <2>1. j + m \in 1 .. Len(t) /\ rest[j] = t[j + m]
    BY <1>0, <1>1
  <2>2. CASE i \in 1 .. Len(s) /\ got[i] = s[i]
    BY <1>2, <2>1, <2>2 DEF Before
  <2>3. CASE /\ i - Len(s) \in 1 .. m /\ got[i] = t[i - Len(s)]
    <3>1. i - Len(s) \in 1 .. Len(t) /\ i - Len(s) < j + m
      BY <1>0, <1>1, <2>1, <2>3, SMTT(30)
    <3> QED
      BY <1>2, <2>1, <2>3, <3>1 DEF Rising
  <2> QED
    BY <1>0, <1>1, <2>2, <2>3
<1> QED
  BY <1>2, <1>3, <1>4, <1>5, <1>6, <1>7 DEF Follows, Rising, Before

\* Four words of a packet in order are the packet.
LEMMA FullPacket ==
    ASSUME NEW c \in Call, NEW s \in Seq(Sense), Len(s) = 4, From(s, c), Rising(s)
    PROVE  Flag(s) = c.flag /\ Id(s) = c.id
<1>1. \A i \in 1 .. 4 : s[i] \in Sense /\ Rank(s[i]) \in 1 .. 4 /\ s[i] = Encode(c)[Rank(s[i])]
  <2>1. \A i \in 1 .. 4 : Rank(s[i]) \in 1 .. 4
    BY DEF Rank
  <2>2. \A i \in 1 .. 4 : s[i] \in Sense
    BY SenseFacts
  <2> QED
    BY <2>1, <2>2 DEF From
<1>2. Rank(s[1]) < Rank(s[2]) /\ Rank(s[2]) < Rank(s[3]) /\ Rank(s[3]) < Rank(s[4])
  BY DEF Rising
<1>3. Rank(s[1]) = 1 /\ Rank(s[2]) = 2 /\ Rank(s[3]) = 3
  BY <1>1, <1>2
<1>4. s[1] = Encode(c)[1] /\ s[2] = Encode(c)[2] /\ s[3] = Encode(c)[3]
  BY <1>1, <1>3
<1> QED
  BY <1>4 DEF Encode, Flag, Id

\* A packet by itself is in order.
LEMMA EncodeFollows ==
    ASSUME NEW c \in Call
    PROVE  Follows(<<>>, Encode(c), c) /\ Follows(<<>>, <<>>, c)
<1>1. Len(Encode(c)) = 4
  BY SenseFacts
<1>2. \A i \in 1 .. 4 : Rank(Encode(c)[i]) = i
  BY DEF Encode, Rank
<1> QED
  BY <1>1, <1>2 DEF Follows, From, Rising, Before
-----------------------------------------------------------------------------
(* The steps, for any number of callers. *)

LEMMA InitBase ==
    ASSUME Init PROVE BaseInv
<1>1. opened = [id \in {} |-> None] /\ DOMAIN opened = {}
  BY DEF Init
<1>2. DOMAIN opened \subseteq Ids /\ opened \in [DOMAIN opened -> Ends]
  BY <1>1
<1>3. TypeOK
  BY <1>2, <1>1 DEF Init, TypeOK
<1>4. WordsInv
  BY DEF Init, WordsInv
<1>5. PhaseInv /\ CallInv
  BY DEF Init, PhaseInv, CallInv
<1> QED
  BY <1>3, <1>4, <1>5 DEF BaseInv

\* The reads of words from the wire leave the other variables' types alone.
LEMMA WordSeqs ==
    ASSUME WordsInv
    PROVE  /\ wire \in [Ends -> Seq(Word)] /\ cbuf \in [Ends -> Seq(Word)]
           /\ gbuf \in [Callers -> Seq(Word)]
<1>1. /\ \A e \in Ends : wire[e] \in Seq(Word) /\ cbuf[e] \in Seq(Word)
      /\ \A g \in Callers : gbuf[g] \in Seq(Word)
  BY SenseFacts DEF WordsInv
<1> QED
  BY <1>1 DEF WordsInv

LEMMA WordSeqsNext ==
    ASSUME WordsInv'
    PROVE  /\ wire' \in [Ends -> Seq(Word)] /\ cbuf' \in [Ends -> Seq(Word)]
           /\ gbuf' \in [Callers -> Seq(Word)]
<1>1. /\ \A e \in Ends : wire'[e] \in Seq(Word) /\ cbuf'[e] \in Seq(Word)
      /\ \A g \in Callers : gbuf'[g] \in Seq(Word)
  BY SenseFacts DEF WordsInv
<1> QED
  BY <1>1 DEF WordsInv

\* A request puts a packet behind what is on the wire to the peer.
LEMMA SendFacts ==
    ASSUME WordsInv, NEW e \in Ends, NEW words \in Seq(Sense), Send(e, words)
    PROVE  /\ wire' \in [Ends -> Seq(Sense)]
           /\ wire'[Peer(e)] = wire[Peer(e)] \o words
           /\ Len(wire'[Peer(e)]) = Len(wire[Peer(e)]) + Len(words)
           /\ wire'[e] = wire[e]
           /\ \A x \in Ends : x # Peer(e) => wire'[x] = wire[x]
<1>1. wire \in [Ends -> Seq(Sense)] /\ Peer(e) \in Ends /\ Peer(e) # e
  BY PeerFacts DEF WordsInv
<1>2. wire' = [wire EXCEPT ![Peer(e)] = wire[Peer(e)] \o words]
  BY DEF Send
<1>3. /\ wire[Peer(e)] \o words \in Seq(Sense)
      /\ Len(wire[Peer(e)] \o words) = Len(wire[Peer(e)]) + Len(words)
  BY <1>1
<1> QED
  BY <1>1, <1>2, <1>3

\* The id in a packet is an id or garbled.
LEMMA IdType ==
    ASSUME NEW p \in Seq(Sense), Len(p) = 4
    PROVE  Id(p) \in Ids \cup {Garbled}
<1>1. p[2] \in Sense
  BY SenseFacts, SMTT(30)
<1> QED
  BY <1>1 DEF Id, Sense

LEMMA RequestBase ==
    ASSUME BaseInv, NEW g \in Callers, NEW c \in Call, Request(g, c),
           DOMAIN opened' \subseteq Ids, opened' \in [DOMAIN opened' -> Ends],
           \A id \in DOMAIN opened : id \in DOMAIN opened' /\ opened'[id] = opened[id],
           changes' \in Nat,
           c.flag = "hs" => c.id \in DOMAIN opened' /\ opened'[c.id] = EndOf[g]
    PROVE  BaseInv'
<1>1. /\ g \in load.callers /\ up /\ gpc[g] = "idle" /\ Send(EndOf[g], Encode(c))
      /\ gcall' = [gcall EXCEPT ![g] = c] /\ gpc' = [gpc EXCEPT ![g] = "answer"]
      /\ UNCHANGED <<load, gbuf, returned, cpc, cbuf, seen, apc, log, streams, up, dead>>
  BY DEF Request
<1>2. EndOf[g] \in Ends /\ Encode(c) \in Seq(Sense)
  BY ControlAssumption, SenseFacts
<1>3. wire' \in [Ends -> Seq(Sense)]
  BY <1>1, <1>2, SendFacts DEF BaseInv
<1>4. WordsInv'
  BY <1>1, <1>3 DEF BaseInv, WordsInv
<1>5. TypeOK'
  <2>1. gcall' \in [Callers -> Call \cup {None}] /\ gpc' \in [Callers -> {"idle", "answer", "return"}]
    BY <1>1 DEF BaseInv, TypeOK
  <2>2. \A h \in Callers : gcall'[h] = None <=> gpc'[h] = "idle"
    BY <1>1, ControlAssumption DEF BaseInv, TypeOK
  <2>3. returned' \subseteq DOMAIN opened'
    BY <1>1 DEF BaseInv, TypeOK
  <2> QED
    BY <1>1, <1>4, <2>1, <2>2, <2>3, WordSeqsNext DEF BaseInv, TypeOK
<1>6. PhaseInv'
  BY <1>1 DEF BaseInv, TypeOK, PhaseInv
<1>7. CallInv'
  <2> SUFFICES ASSUME NEW h \in Callers, gpc'[h] # "idle", gcall'[h].flag = "hs"
               PROVE  gcall'[h].id \in DOMAIN opened' /\ opened'[gcall'[h].id] = EndOf[h]
    BY DEF CallInv
  <2>1. CASE h = g
    BY <1>1, <2>1 DEF BaseInv, TypeOK
  <2>2. CASE h # g
    BY <1>1, <2>2 DEF BaseInv, TypeOK, CallInv
  <2> QED
    BY <2>1, <2>2
<1> QED
  BY <1>4, <1>5, <1>6, <1>7 DEF BaseInv

LEMMA OpenStreamBase ==
    ASSUME BaseInv, NEW g \in Callers, OpenStream(g) PROVE BaseInv'
<1>1. PICK id \in Ids \ DOMAIN opened :
        /\ Request(g, [flag |-> "hs", id |-> id])
        /\ opened' = [x \in DOMAIN opened \cup {id} |->
                          IF x = id THEN EndOf[g] ELSE opened[x]]
        /\ UNCHANGED changes
  BY DEF OpenStream
<1> PICK c : c = [flag |-> "hs", id |-> id]
  OBVIOUS
<1>2. c \in Call /\ c.id = id /\ Request(g, c)
  BY <1>1 DEF Call
<1>3. EndOf[g] \in Ends /\ opened \in [DOMAIN opened -> Ends] /\ DOMAIN opened \subseteq Ids
  BY ControlAssumption DEF BaseInv, TypeOK
<1>4. /\ DOMAIN opened' = DOMAIN opened \cup {id} /\ opened'[id] = EndOf[g]
      /\ \A x \in DOMAIN opened : opened'[x] = opened[x]
  BY <1>1
<1>5. DOMAIN opened' \subseteq Ids /\ opened' \in [DOMAIN opened' -> Ends] /\ changes' \in Nat
  BY <1>1, <1>3, <1>4 DEF BaseInv, TypeOK
<1> QED
  BY <1>2, <1>4, <1>5, RequestBase

LEMMA ChangeBase ==
    ASSUME BaseInv, NEW g \in Callers, ChangeStreamPreference(g) PROVE BaseInv'
<1>1. PICK id \in streams[EndOf[g]] \ {Garbled} :
        /\ Request(g, [flag |-> "prop", id |-> id])
        /\ changes' = changes + 1 /\ UNCHANGED opened
  BY DEF ChangeStreamPreference
<1> PICK c : c = [flag |-> "prop", id |-> id]
  OBVIOUS
<1>2. c \in Call /\ c.flag = "prop" /\ Request(g, c)
  BY <1>1, ControlAssumption DEF Call, BaseInv, TypeOK
<1>3. changes' \in Nat /\ DOMAIN opened \subseteq Ids /\ opened \in [DOMAIN opened -> Ends]
  BY <1>1 DEF BaseInv, TypeOK
<1> QED
  BY <1>1, <1>2, <1>3, RequestBase

LEMMA AnswerBase ==
    ASSUME BaseInv, NEW g \in Callers, Answer(g) PROVE BaseInv'
<1>1. PICK more \in 1 .. 4 :
        /\ Reads(EndOf[g], gbuf[g], more)
        /\ gbuf' = [gbuf EXCEPT ![g] = gbuf[g] \o SubSeq(wire[EndOf[g]], 1, more)]
        /\ gpc' = IF Len(gbuf[g]) + more = 4 THEN [gpc EXCEPT ![g] = "return"] ELSE gpc
  BY DEF Answer
<1>2. /\ gpc[g] = "answer"
      /\ UNCHANGED <<load, opened, changes, gcall, returned, cpc, cbuf, seen, apc, log,
                     streams, up, dead>>
  BY DEF Answer
<1> PICK got : got = gbuf[g] \o SubSeq(wire[EndOf[g]], 1, more)
  OBVIOUS
<1>3. EndOf[g] \in Ends /\ gbuf[g] \in Seq(Sense) /\ WordsInv
  BY ControlAssumption DEF BaseInv, WordsInv
<1>4. /\ more \in 1 .. Len(wire[EndOf[g]]) /\ Len(gbuf[g]) + more <= 4
      /\ got \in Seq(Sense) /\ Len(got) = Len(gbuf[g]) + more
      /\ wire' \in [Ends -> Seq(Sense)]
      /\ \A x \in Ends : x # EndOf[g] => wire'[x] = wire[x]
  <2>1. /\ more \in 1 .. Len(wire[EndOf[g]]) /\ Len(gbuf[g]) + more <= 4
        /\ wire' \in [Ends -> Seq(Sense)]
        /\ \A x \in Ends : x # EndOf[g] => wire'[x] = wire[x]
    BY <1>1, <1>3, ReadsFacts
  <2>2. wire[EndOf[g]] \in Seq(Sense)
    BY <1>3 DEF WordsInv
  <2>3. got \in Seq(Sense) /\ Len(got) = Len(gbuf[g]) + more
    BY <1>3, <2>1, <2>2, SplitFacts DEF Split
  <2> QED
    BY <2>1, <2>3
<1>5. gbuf' = [gbuf EXCEPT ![g] = got] /\ gbuf \in [Callers -> Seq(Sense)]
  BY <1>1, <1>3 DEF WordsInv
<1>6. WordsInv'
  BY <1>2, <1>3, <1>4, <1>5 DEF WordsInv
<1>7. \A h \in Callers : gpc'[h] = "idle" <=> gpc[h] = "idle"
  BY <1>1, <1>2 DEF BaseInv, TypeOK
<1>8. TypeOK'
  <2>1. gpc' \in [Callers -> {"idle", "answer", "return"}]
    BY <1>1 DEF BaseInv, TypeOK
  <2> QED
    BY <1>2, <1>6, <1>7, <2>1, WordSeqsNext DEF BaseInv, TypeOK
<1>9. up
  <2>1. Len(wire[EndOf[g]]) # 0
    BY <1>4
  <2> QED
    BY <1>3, <2>1 DEF BaseInv, PhaseInv
<1>10. PhaseInv'
  <2>1. \A e \in Ends : /\ Len(cbuf'[e]) <= 4
                        /\ cpc'[e] = "flags" => cbuf'[e] = <<>>
                        /\ ~ up' => wire'[e] = <<>>
    BY <1>2, <1>9 DEF BaseInv, PhaseInv
  <2>2. ASSUME NEW h \in Callers
        PROVE  /\ Len(gbuf'[h]) <= 4
               /\ gpc'[h] = "idle" => gbuf'[h] = <<>>
               /\ gpc'[h] = "return" <=> Len(gbuf'[h]) = 4
               /\ gpc'[h] # "idle" => h \in load'.callers
    <3>1. CASE h = g
      BY <1>1, <1>2, <1>3, <1>4, <1>5, <3>1 DEF BaseInv, TypeOK, PhaseInv
    <3>2. CASE h # g
      BY <1>1, <1>2, <1>5, <3>2 DEF BaseInv, TypeOK, PhaseInv
    <3> QED
      BY <3>1, <3>2
  <2> QED
    BY <2>1, <2>2 DEF PhaseInv
<1>11. CallInv'
  BY <1>2, <1>7 DEF BaseInv, CallInv
<1> QED
  BY <1>6, <1>8, <1>10, <1>11 DEF BaseInv

\* The call ends, with a stream or without.
LEMMA ReturnBase ==
    ASSUME BaseInv, NEW g \in Callers, Return(g) \/ CallFails(g) PROVE BaseInv'
<1>1. /\ gpc[g] # "idle"
      /\ gpc' = [gpc EXCEPT ![g] = "idle"]
      /\ gcall' = [gcall EXCEPT ![g] = None]
      /\ gbuf' = [gbuf EXCEPT ![g] = <<>>]
      /\ UNCHANGED <<load, wire, opened, changes, cpc, cbuf, seen, apc, log, up, dead>>
  BY DEF Return, CallFails
<1>2. \/ UNCHANGED <<streams, returned>>
      \/ /\ gcall[g].flag = "hs"
         /\ streams' = [streams EXCEPT ![EndOf[g]] = @ \cup {gcall[g].id}]
         /\ returned' = returned \cup {gcall[g].id}
  BY DEF Return, CallFails
<1>3. gcall[g] \in Call /\ EndOf[g] \in Ends
  BY <1>1, ControlAssumption, ZenonT(60) DEF BaseInv, TypeOK
<1>4. WordsInv'
  BY <1>1 DEF BaseInv, WordsInv
<1>5. TypeOK'
  <2>1. gcall' \in [Callers -> Call \cup {None}] /\ gpc' \in [Callers -> {"idle", "answer", "return"}]
    BY <1>1 DEF BaseInv, TypeOK
  <2>2. \A h \in Callers : gcall'[h] = None <=> gpc'[h] = "idle"
    BY <1>1 DEF BaseInv, TypeOK
  <2>3. returned' \subseteq DOMAIN opened'
    BY <1>1, <1>2 DEF BaseInv, TypeOK, CallInv
  <2>4. streams' \in [Ends -> SUBSET (Ids \cup {Garbled})]
    <3>1. gcall[g].id \in Ids
      BY <1>3 DEF Call
    <3>2. streams \in [Ends -> SUBSET (Ids \cup {Garbled})]
      BY DEF BaseInv, TypeOK
    <3>3. CASE streams' = [streams EXCEPT ![EndOf[g]] = @ \cup {gcall[g].id}]
      BY <1>3, <3>1, <3>2, <3>3
    <3> QED
      BY <1>2, <3>2, <3>3
  <2> QED
    BY <1>1, <1>4, <2>1, <2>2, <2>3, <2>4, WordSeqsNext DEF BaseInv, TypeOK
<1>6. PhaseInv'
  <2>1. ASSUME NEW h \in Callers
        PROVE  /\ Len(gbuf'[h]) <= 4
               /\ gpc'[h] = "idle" => gbuf'[h] = <<>>
               /\ gpc'[h] = "return" <=> Len(gbuf'[h]) = 4
               /\ gpc'[h] # "idle" => h \in load'.callers
    <3>1. gbuf \in [Callers -> Seq(Sense)] /\ gpc \in [Callers -> {"idle", "answer", "return"}]
      BY DEF BaseInv, TypeOK, WordsInv
    <3>2. CASE h = g
      <4>1. gbuf'[h] = <<>> /\ gpc'[h] = "idle"
        BY <1>1, <3>1, <3>2
      <4> QED
        BY <4>1
    <3>3. CASE h # g
      BY <1>1, <3>1, <3>3 DEF BaseInv, PhaseInv
    <3> QED
      BY <3>2, <3>3
  <2> QED
    BY <1>1, <2>1 DEF BaseInv, PhaseInv
<1>7. CallInv'
  BY <1>1 DEF BaseInv, TypeOK, CallInv
<1> QED
  BY <1>4, <1>5, <1>6, <1>7 DEF BaseInv
callVars == <<load, opened, changes, gpc, gcall, gbuf, returned>>

\* Where the readLoops, the AcceptStreams and the connection are, for end e.
LoopOK(e) ==
    /\ cpc[e] \in {"flags", "body", "echo", "offer", "apply"}
    /\ cbuf[e] \in Seq(Sense)
    /\ Len(cbuf[e]) = 4 <=> cpc[e] \in {"echo", "offer", "apply"}
    /\ Len(cbuf[e]) <= 4
    /\ cpc[e] = "flags" => cbuf[e] = <<>>
    /\ wire[e] \in Seq(Sense)
    /\ ~ up => wire[e] = <<>>
    /\ seen[e] \in SUBSET (Ids \cup {Garbled})
    /\ apc[e] \in Ids \cup {Garbled, None}
    /\ log[e] \in Seq(Ids \cup {Garbled})
    /\ streams[e] \in SUBSET (Ids \cup {Garbled})

Bits == up \in BOOLEAN /\ dead \in [Ends -> BOOLEAN]

\* The variables that the ends have one each of.
PerEnd == \A f \in {wire, cpc, cbuf, seen, apc, log, streams} :
                 f = [e \in Ends |-> f[e]]

LEMMA LoopFacts ==
    ASSUME BaseInv
    PROVE  PerEnd /\ Bits /\ \A e \in Ends : LoopOK(e)
<1>1. PerEnd /\ Bits
  BY DEF BaseInv, TypeOK, WordsInv, PerEnd, Bits
<1>2. ASSUME NEW e \in Ends PROVE LoopOK(e)
  <2>1. cbuf[e] \in Seq(Sense) /\ wire[e] \in Seq(Sense)
    BY DEF BaseInv, WordsInv
  <2> QED
    BY <2>1 DEF BaseInv, TypeOK, PhaseInv, LoopOK
<1> QED
  BY <1>1, <1>2

\* A step that makes no call keeps the invariant if it keeps it at each end.
LEMMA LoopBase ==
    ASSUME BaseInv, UNCHANGED callVars, PerEnd', Bits',
           \A e \in Ends : LoopOK(e)'
    PROVE  BaseInv'
<1>1. WordsInv'
  <2>1. wire' = [e \in Ends |-> wire'[e]] /\ cbuf' = [e \in Ends |-> cbuf'[e]]
    BY DEF PerEnd
  <2>2. \A e \in Ends : wire'[e] \in Seq(Sense) /\ cbuf'[e] \in Seq(Sense)
    BY DEF LoopOK
  <2>3. wire' \in [Ends -> Seq(Sense)] /\ cbuf' \in [Ends -> Seq(Sense)]
    BY <2>1, <2>2
  <2> QED
    BY <2>3 DEF BaseInv, WordsInv, callVars
<1>2. /\ cpc' \in [Ends -> {"flags", "body", "echo", "offer", "apply"}]
      /\ seen' \in [Ends -> SUBSET (Ids \cup {Garbled})]
      /\ apc' \in [Ends -> Ids \cup {Garbled, None}]
      /\ log' \in [Ends -> Seq(Ids \cup {Garbled})]
      /\ streams' \in [Ends -> SUBSET (Ids \cup {Garbled})]
  <2>1. /\ cpc' = [e \in Ends |-> cpc'[e]] /\ seen' = [e \in Ends |-> seen'[e]]
        /\ apc' = [e \in Ends |-> apc'[e]] /\ log' = [e \in Ends |-> log'[e]]
        /\ streams' = [e \in Ends |-> streams'[e]]
    BY DEF PerEnd
  <2>2. \A e \in Ends : /\ cpc'[e] \in {"flags", "body", "echo", "offer", "apply"}
                        /\ seen'[e] \in SUBSET (Ids \cup {Garbled})
                        /\ apc'[e] \in Ids \cup {Garbled, None}
                        /\ log'[e] \in Seq(Ids \cup {Garbled})
                        /\ streams'[e] \in SUBSET (Ids \cup {Garbled})
    BY DEF LoopOK
  <2> QED
    BY <2>1, <2>2
<1>3. \A e \in Ends : Len(cbuf'[e]) = 4 <=> cpc'[e] \in {"echo", "offer", "apply"}
  BY DEF LoopOK
<1>4. TypeOK'
  BY <1>1, <1>2, <1>3, WordSeqsNext DEF BaseInv, TypeOK, callVars, Bits
<1>5. PhaseInv' /\ CallInv'
  BY DEF BaseInv, PhaseInv, CallInv, callVars, LoopOK
<1> QED
  BY <1>1, <1>4, <1>5 DEF BaseInv

LEMMA ReadFlagsBase ==
    ASSUME BaseInv, NEW e \in Ends, ReadFlags(e) PROVE BaseInv'
<1>1. /\ cpc[e] = "flags" /\ wire[e] # <<>>
      /\ wire' = [wire EXCEPT ![e] = Tail(wire[e])]
      /\ \/ /\ cpc' = [cpc EXCEPT ![e] = "body"]
            /\ cbuf' = [cbuf EXCEPT ![e] = <<Head(wire[e])>>]
         \/ UNCHANGED <<cpc, cbuf>>
      /\ UNCHANGED <<callVars, seen, apc, log, streams, up, dead>>
  BY DEF ReadFlags, callVars
<1>2. PerEnd /\ Bits /\ \A x \in Ends : LoopOK(x)
  BY LoopFacts
<1>3. /\ wire[e] \in Seq(Sense) /\ Tail(wire[e]) \in Seq(Sense)
      /\ <<Head(wire[e])>> \in Seq(Sense) /\ Len(<<Head(wire[e])>>) = 1
  BY <1>1, <1>2 DEF LoopOK
<1>4. PerEnd' /\ Bits'
  <2>1. PerEnd'
    BY <1>1, <1>2 DEF PerEnd
  <2>2. Bits'
    BY <1>1, <1>2 DEF Bits
  <2> QED
    BY <2>1, <2>2
<1>5. up /\ up'
  BY <1>1, <1>2 DEF LoopOK
<1>6. ASSUME NEW x \in Ends PROVE LoopOK(x)'
  <2>0. LoopOK(x)
    BY <1>2
  <2>1. wire'[x] \in Seq(Sense)
    BY <1>1, <1>2, <1>3, <2>0 DEF LoopOK, PerEnd
  <2>2. \/ cpc'[x] = cpc[x] /\ cbuf'[x] = cbuf[x]
        \/ cpc'[x] = "body" /\ cbuf'[x] \in Seq(Sense) /\ Len(cbuf'[x]) = 1
    BY <1>1, <1>2, <1>3 DEF PerEnd
  <2>3. UNCHANGED <<seen, apc, log, streams>>
    BY <1>1
  <2>4. CASE cpc'[x] = cpc[x] /\ cbuf'[x] = cbuf[x]
    BY <1>5, <2>0, <2>1, <2>3, <2>4 DEF LoopOK
  <2>5. CASE cpc'[x] = "body" /\ cbuf'[x] \in Seq(Sense) /\ Len(cbuf'[x]) = 1
    BY <1>5, <2>0, <2>1, <2>3, <2>5 DEF LoopOK
  <2> QED
    BY <2>2, <2>4, <2>5
<1> QED
  BY <1>1, <1>2, <1>4, <1>6, LoopBase

LEMMA ReadBodyBase ==
    ASSUME BaseInv, NEW e \in Ends, ReadBody(e) PROVE BaseInv'
<1>1. /\ cpc[e] = "body"
      /\ UNCHANGED <<callVars, seen, apc, log, streams, up, dead>>
  BY DEF ReadBody, callVars
<1>2. PICK more \in 1 .. 3 :
        /\ Reads(e, cbuf[e], more)
        /\ cbuf' = [cbuf EXCEPT ![e] = cbuf[e] \o SubSeq(wire[e], 1, more)]
        /\ cpc' = IF Len(cbuf[e]) + more = 4 THEN [cpc EXCEPT ![e] = "echo"] ELSE cpc
  BY DEF ReadBody
<1>3. PerEnd /\ Bits /\ WordsInv /\ \A x \in Ends : LoopOK(x)
  BY LoopFacts DEF BaseInv
<1> PICK got : got = cbuf[e] \o SubSeq(wire[e], 1, more)
  OBVIOUS
<1>4. cbuf[e] \in Seq(Sense) /\ wire[e] \in Seq(Sense)
  BY <1>3 DEF LoopOK
<1>5. /\ more \in 1 .. Len(wire[e]) /\ Len(cbuf[e]) + more <= 4
      /\ wire' \in [Ends -> Seq(Sense)]
      /\ \A x \in Ends : x # e => wire'[x] = wire[x]
  BY <1>2, <1>3, <1>4, ReadsFacts
<1>6. got \in Seq(Sense) /\ Len(got) = Len(cbuf[e]) + more
  BY <1>4, <1>5, SplitFacts DEF Split
<1>7. up
  <2>1. Len(wire[e]) # 0
    BY <1>5
  <2> QED
    BY <1>3, <2>1 DEF LoopOK
<1>8. PerEnd' /\ Bits'
  BY <1>1, <1>2, <1>3, <1>5, ZenonT(60) DEF PerEnd, Bits
<1>9. ASSUME NEW x \in Ends PROVE LoopOK(x)'
  <2>0. LoopOK(x)
    BY <1>3
  <2>1. CASE x = e
    <3>1. cbuf'[x] = got /\ cpc'[x] = IF Len(got) = 4 THEN "echo" ELSE "body"
      BY <1>1, <1>2, <1>3, <1>6, <2>1 DEF PerEnd
    <3> QED
      BY <1>1, <1>5, <1>6, <1>7, <2>0, <2>1, <3>1 DEF LoopOK
  <2>2. CASE x # e
    BY <1>1, <1>2, <1>3, <1>5, <1>7, <2>0, <2>2 DEF LoopOK, PerEnd
  <2> QED
    BY <2>1, <2>2
<1> QED
  BY <1>1, <1>3, <1>8, <1>9, LoopBase

LEMMA EchoBase ==
    ASSUME BaseInv, NEW e \in Ends, Echo(e) PROVE BaseInv'
<1>1. /\ cpc[e] = "echo" /\ up /\ Send(e, cbuf[e])
      /\ \/ /\ cpc' = [cpc EXCEPT ![e] = "offer"]
            /\ seen' = [seen EXCEPT ![e] = seen[e] \cup {Id(cbuf[e])}]
         \/ /\ cpc' = [cpc EXCEPT ![e] = "apply"]
            /\ UNCHANGED seen
      /\ UNCHANGED <<callVars, cbuf, apc, log, streams, up, dead>>
  BY DEF Echo, callVars
<1>2. PerEnd /\ Bits /\ WordsInv /\ \A x \in Ends : LoopOK(x)
  BY LoopFacts DEF BaseInv
<1>3. cbuf[e] \in Seq(Sense) /\ Len(cbuf[e]) = 4
  BY <1>1, <1>2 DEF LoopOK
<1>4. wire' \in [Ends -> Seq(Sense)]
  BY <1>1, <1>2, <1>3, SendFacts
<1>5. Id(cbuf[e]) \in Ids \cup {Garbled}
  BY <1>3, IdType
<1>6. PerEnd' /\ Bits'
  BY <1>1, <1>2, <1>4 DEF PerEnd, Bits
<1>7. ASSUME NEW x \in Ends PROVE LoopOK(x)'
  <2>0. LoopOK(x) /\ wire'[x] \in Seq(Sense)
    BY <1>2, <1>4
  <2>1. seen'[x] \in SUBSET (Ids \cup {Garbled})
    <3>1. seen[x] \in SUBSET (Ids \cup {Garbled})
      BY <2>0 DEF LoopOK
    <3>2. seen'[x] = seen[x] \/ seen'[x] = seen[x] \cup {Id(cbuf[e])}
      BY <1>1, <1>2 DEF PerEnd
    <3> QED
      BY <1>5, <3>1, <3>2
  <2>2. cpc'[x] = cpc[x] \/ (x = e /\ cpc'[x] \in {"offer", "apply"})
    BY <1>1, <1>2 DEF PerEnd
  <2> QED
    BY <1>1, <2>0, <2>1, <2>2 DEF LoopOK
<1> QED
  BY <1>1, <1>2, <1>6, <1>7, LoopBase

\* The steps after which readLoop waits for the next packet.
LEMMA NextPacketBase ==
    ASSUME BaseInv, NEW e \in Ends, ReadLoopFails(e) \/ Apply(e) \/ AcceptStream(e)
    PROVE  BaseInv'
<1>1. /\ cpc' = [cpc EXCEPT ![e] = "flags"]
      /\ cbuf' = [cbuf EXCEPT ![e] = <<>>]
      /\ UNCHANGED <<callVars, wire, seen, log, streams, up>>
  BY DEF ReadLoopFails, Apply, AcceptStream, callVars
<1>2. PerEnd /\ Bits /\ \A x \in Ends : LoopOK(x)
  BY LoopFacts
<1>3. /\ UNCHANGED dead \/ dead' = [dead EXCEPT ![e] = Id(cbuf[e]) \notin streams[e]]
      /\ \/ UNCHANGED apc
         \/ cpc[e] = "offer" /\ apc' = [apc EXCEPT ![e] = Id(cbuf[e])]
  BY DEF ReadLoopFails, Apply, AcceptStream
<1>4. PerEnd'
  BY <1>1, <1>2, <1>3 DEF PerEnd
<1>6. Bits'
  <2>1. up \in BOOLEAN /\ dead \in [Ends -> BOOLEAN]
    BY <1>2 DEF Bits
  <2>2. dead' \in [Ends -> BOOLEAN]
    BY <1>3, <2>1, Zenon
  <2> QED
    BY <1>1, <2>1, <2>2 DEF Bits
<1>5. ASSUME NEW x \in Ends PROVE LoopOK(x)'
  <2>0. LoopOK(x)
    BY <1>2
  <2>2. apc'[x] \in Ids \cup {Garbled, None}
    <3>1. cpc[e] = "offer" => Id(cbuf[e]) \in Ids \cup {Garbled}
      BY <1>2, IdType DEF LoopOK
    <3> QED
      BY <1>2, <1>3, <2>0, <3>1 DEF LoopOK, PerEnd
  <2>3. CASE x = e
    <3>1. cpc'[x] = "flags" /\ cbuf'[x] = <<>>
      BY <1>1, <1>2, <2>3 DEF PerEnd
    <3>2. cbuf'[x] \in Seq(Sense) /\ Len(cbuf'[x]) = 0
      BY <3>1
    <3>3. UNCHANGED <<wire, seen, log, streams>> /\ (up' <=> up)
      BY <1>1
    <3> QED
      BY <2>0, <2>2, <3>1, <3>2, <3>3 DEF LoopOK
  <2>4. CASE x # e
    <3>1. cpc'[x] = cpc[x] /\ cbuf'[x] = cbuf[x]
      BY <1>1, <1>2, <2>4 DEF PerEnd
    <3> QED
      BY <1>1, <2>0, <2>2, <3>1 DEF LoopOK
  <2> QED
    BY <2>3, <2>4
<1> QED
  BY <1>1, <1>4, <1>5, <1>6, LoopBase

LEMMA StoredBase ==
    ASSUME BaseInv, NEW e \in Ends, StreamStored(e) PROVE BaseInv'
<1>1. /\ apc[e] # None
      /\ streams' = [streams EXCEPT ![e] = streams[e] \cup {apc[e]}]
      /\ log' = [log EXCEPT ![e] = Append(log[e], apc[e])]
      /\ apc' = [apc EXCEPT ![e] = None]
      /\ UNCHANGED <<callVars, wire, cpc, cbuf, seen, up, dead>>
  BY DEF StreamStored, callVars
<1>2. PerEnd /\ Bits /\ \A x \in Ends : LoopOK(x)
  BY LoopFacts
<1>3. apc[e] \in Ids \cup {Garbled} /\ log[e] \in Seq(Ids \cup {Garbled})
  BY <1>1, <1>2 DEF LoopOK
<1>4. PerEnd' /\ Bits'
  BY <1>1, <1>2 DEF PerEnd, Bits
<1>5. ASSUME NEW x \in Ends PROVE LoopOK(x)'
  <2>0. LoopOK(x)
    BY <1>2
  <2>1. /\ streams'[x] \in SUBSET (Ids \cup {Garbled})
        /\ apc'[x] \in Ids \cup {Garbled, None}
    BY <1>1, <1>2, <1>3, <2>0 DEF LoopOK, PerEnd
  <2>2. log'[x] \in Seq(Ids \cup {Garbled})
    <3>1. Append(log[e], apc[e]) \in Seq(Ids \cup {Garbled})
      BY <1>3
    <3>2. log'[x] = IF x = e THEN Append(log[e], apc[e]) ELSE log[x]
      BY <1>1, <1>2 DEF PerEnd
    <3> QED
      BY <2>0, <3>1, <3>2 DEF LoopOK
  <2> QED
    BY <1>1, <2>0, <2>1, <2>2 DEF LoopOK
<1> QED
  BY <1>1, <1>2, <1>4, <1>5, LoopBase

LEMMA LostBase ==
    ASSUME BaseInv, ConnectionLost \/ \E e \in Ends : MapRace(e) PROVE BaseInv'
<1>1. UNCHANGED <<callVars, cpc, cbuf, seen, apc, log, streams>>
  BY DEF ConnectionLost, MapRace, callVars
<1>2. PerEnd /\ Bits /\ \A x \in Ends : LoopOK(x)
  BY LoopFacts
<1>3. \/ up' = FALSE /\ wire' = [e \in Ends |-> <<>>] /\ UNCHANGED dead
      \/ UNCHANGED <<up, wire>> /\ \E e \in Ends : dead' = [dead EXCEPT ![e] = TRUE]
  BY DEF ConnectionLost, MapRace
<1>4. PerEnd'
  BY <1>1, <1>2, <1>3 DEF PerEnd
<1>6. Bits'
  <2>1. up \in BOOLEAN /\ dead \in [Ends -> BOOLEAN]
    BY <1>2 DEF Bits
  <2>2. up' \in BOOLEAN /\ dead' \in [Ends -> BOOLEAN]
    BY <1>3, <2>1, Zenon
  <2> QED
    BY <2>2 DEF Bits
<1>5. ASSUME NEW x \in Ends PROVE LoopOK(x)'
  <2>0. LoopOK(x)
    BY <1>2
  <2>2. wire'[x] \in Seq(Sense) /\ (~ up' => wire'[x] = <<>>)
    <3>1. CASE up' = FALSE /\ wire' = [e \in Ends |-> <<>>]
      BY <3>1
    <3>2. CASE UNCHANGED <<up, wire>>
      BY <2>0, <3>2 DEF LoopOK
    <3> QED
      BY <1>3, <3>1, <3>2
  <2> QED
    BY <1>1, <2>0, <2>2 DEF LoopOK
<1> QED
  BY <1>1, <1>4, <1>5, <1>6, LoopBase

LEMMA StepBase ==
    ASSUME BaseInv, [Next]_vars PROVE BaseInv'
<1>1. ASSUME NEW g \in Callers,
             \/ OpenStream(g) \/ ChangeStreamPreference(g)
             \/ Answer(g) \/ Return(g) \/ CallFails(g)
      PROVE  BaseInv'
  BY <1>1, OpenStreamBase, ChangeBase, AnswerBase, ReturnBase
<1>2. ASSUME NEW e \in Ends,
             \/ ReadFlags(e) \/ ReadBody(e) \/ Echo(e) \/ ReadLoopFails(e)
             \/ Apply(e) \/ AcceptStream(e) \/ StreamStored(e) \/ MapRace(e)
      PROVE  BaseInv'
  BY <1>2, ReadFlagsBase, ReadBodyBase, EchoBase, NextPacketBase, StoredBase, LostBase
<1>3. CASE UNCHANGED vars
  BY <1>3 DEF vars, BaseInv, TypeOK, WordsInv, PhaseInv, CallInv
<1> QED
  BY <1>1, <1>2, <1>3, LostBase DEF Next

\* The state of the control connection is well typed, in every use of it.
THEOREM ControlTypes == Spec => []TypeOK
<1>1. BaseInv => TypeOK
  BY DEF BaseInv
<1>2. BaseInv /\ [Next]_vars => BaseInv'
  BY StepBase
<1> QED
  BY <1>1, <1>2, InitBase, PTL DEF Spec

-----------------------------------------------------------------------------
(* The steps, while only g calls. *)

LEMMA InitSingle ==
    ASSUME Init, NEW g \in Callers PROVE SingleInv(g)
<1>1. EndOf[g] \in Ends /\ Peer(EndOf[g]) \in Ends
  BY ControlAssumption, PeerFacts
<1>2. PacketInv(g)
  <2>1. /\ wire[EndOf[g]] = <<>> /\ wire[Peer(EndOf[g])] = <<>> /\ gbuf[g] = <<>>
        /\ Held(EndOf[g]) = <<>> /\ Held(Peer(EndOf[g])) = <<>> /\ gpc[g] = "idle"
    BY <1>1 DEF Init, Held
  <2>2. Around(g) = 0
    BY <2>1 DEF Around, OnWire, InHand, InCall
  <2> QED
    BY <2>1, <2>2 DEF PacketInv
<1>3. BackInv(g) /\ IdsInv(g) /\ ReturnedInv
  BY DEF Init, BackInv, IdsInv, ReturnedInv
<1> QED
  BY <1>2, <1>3 DEF SingleInv

\* The words are sequences, and their number can be counted from either end.
LEMMA WordFacts ==
    ASSUME BaseInv, NEW g \in Callers, NEW x \in Ends
    PROVE  /\ EndOf[g] \in Ends /\ Peer(x) \in Ends /\ Peer(x) # x
           /\ wire[x] \in Seq(Sense) /\ Held(x) \in Seq(Sense) /\ gbuf[g] \in Seq(Sense)
           /\ wire[Peer(x)] \in Seq(Sense) /\ Held(Peer(x)) \in Seq(Sense)
           /\ Len(wire[x]) \in Nat /\ Len(Held(x)) \in Nat /\ Len(gbuf[g]) \in Nat
           /\ Len(wire[Peer(x)]) \in Nat /\ Len(Held(Peer(x))) \in Nat
<1>1. EndOf[g] \in Ends /\ Peer(x) \in Ends /\ Peer(x) # x
  BY ControlAssumption, PeerFacts
<1>2. \A y \in Ends : /\ wire[y] \in Seq(Sense) /\ Held(y) \in Seq(Sense)
                      /\ Len(wire[y]) \in Nat /\ Len(Held(y)) \in Nat
  BY DEF BaseInv, WordsInv, Held
<1>3. gbuf[g] \in Seq(Sense) /\ Len(gbuf[g]) \in Nat
  BY DEF BaseInv, WordsInv
<1> QED
  BY <1>1, <1>2, <1>3

LEMMA AroundFacts ==
    ASSUME BaseInv, NEW g \in Callers, NEW x \in Ends
    PROVE  /\ OnWire(x) \in Nat /\ OnWire(Peer(x)) \in Nat
           /\ InHand(x) \in Nat /\ InHand(Peer(x)) \in Nat /\ InCall(g) \in Nat
           /\ Around(g) = OnWire(x) + OnWire(Peer(x))
                          + InHand(x) + InHand(Peer(x)) + InCall(g)
<1>1. \A y \in Ends : OnWire(y) \in Nat /\ InHand(y) \in Nat
  BY DEF BaseInv, WordsInv, Held, OnWire, InHand
<1>2. InCall(g) \in Nat
  BY DEF BaseInv, WordsInv, InCall
<1>3. x = EndOf[g] \/ (x = Peer(EndOf[g]) /\ Peer(x) = EndOf[g])
  BY PeerFacts, ControlAssumption
<1>4. OnWire(x) \in Nat /\ OnWire(Peer(x)) \in Nat /\ InHand(x) \in Nat /\ InHand(Peer(x)) \in Nat
  BY <1>1, PeerFacts
<1>5. CASE x = EndOf[g]
  BY <1>2, <1>4, <1>5 DEF Around
<1>6. CASE x = Peer(EndOf[g]) /\ Peer(x) = EndOf[g]
  <2>1. Around(g) = OnWire(Peer(x)) + OnWire(x)
                   + InHand(Peer(x)) + InHand(x) + InCall(g)
    BY <1>6 DEF Around
  <2> HIDE <1>6
  <2> QED
    BY <1>2, <1>4, <2>1
<1> QED
  BY <1>3, <1>5, <1>6

LEMMA AroundNext ==
    ASSUME BaseInv', NEW g \in Callers, NEW x \in Ends
    PROVE  /\ OnWire(x)' \in Nat /\ OnWire(Peer(x))' \in Nat
           /\ InHand(x)' \in Nat /\ InHand(Peer(x))' \in Nat /\ InCall(g)' \in Nat
           /\ Around(g)' = OnWire(x)' + OnWire(Peer(x))'
                          + InHand(x)' + InHand(Peer(x))' + InCall(g)'
<1>1. \A y \in Ends : OnWire(y)' \in Nat /\ InHand(y)' \in Nat
  BY DEF BaseInv, WordsInv, Held, OnWire, InHand
<1>2. InCall(g)' \in Nat
  BY DEF BaseInv, WordsInv, InCall
<1>3. x = EndOf[g] \/ (x = Peer(EndOf[g]) /\ Peer(x) = EndOf[g])
  BY PeerFacts, ControlAssumption
<1>4. OnWire(x)' \in Nat /\ OnWire(Peer(x))' \in Nat /\ InHand(x)' \in Nat /\ InHand(Peer(x))' \in Nat
  BY <1>1, PeerFacts
<1>5. CASE x = EndOf[g]
  BY <1>2, <1>4, <1>5 DEF Around
<1>6. CASE x = Peer(EndOf[g]) /\ Peer(x) = EndOf[g]
  <2>1. Around(g)' = OnWire(Peer(x))' + OnWire(x)'
                   + InHand(Peer(x))' + InHand(x)' + InCall(g)'
    BY <1>6 DEF Around
  <2> HIDE <1>6
  <2> QED
    BY <1>2, <1>4, <2>1
<1> QED
  BY <1>3, <1>5, <1>6

\* A step that touches no words.
LEMMA PacketStays ==
    ASSUME NEW g \in Callers, PacketInv(g), UNCHANGED <<wire, gbuf, gpc, gcall, up>>,
           \A x \in Ends : Held(x)' = Held(x)
    PROVE  PacketInv(g)'
<1>1. EndOf[g] \in Ends /\ Peer(EndOf[g]) \in Ends
  BY ControlAssumption, PeerFacts
<1>2. Around(g)' = Around(g)
  BY <1>1 DEF Around, OnWire, InHand, InCall
<1> QED
  BY <1>1, <1>2 DEF PacketInv, Follows, From, Rising, Before

\* The caller finds the wire as empty as it left it.
LEMMA RequestSingle ==
    ASSUME BaseInv, BaseInv', NEW g \in Callers, SingleInv(g), NEW c \in Call, Request(g, c),
           \A id \in DOMAIN opened : id \in DOMAIN opened' /\ opened'[id] = opened[id],
           c.id \in DOMAIN opened'
    PROVE  SingleInv(g)'
<1>1. /\ up /\ gpc[g] = "idle" /\ Send(EndOf[g], Encode(c))
      /\ gcall' = [gcall EXCEPT ![g] = c] /\ gpc' = [gpc EXCEPT ![g] = "answer"]
      /\ UNCHANGED <<load, gbuf, returned, cpc, cbuf, seen, apc, log, streams, up, dead>>
  BY DEF Request
<1> PICK e, f : e = EndOf[g] /\ f = Peer(e)
  OBVIOUS
<1>2. e \in Ends /\ f \in Ends /\ f # e /\ \A x \in Ends : x = e \/ x = f
  BY ControlAssumption, PeerFacts
<1>3. wire[e] = <<>> /\ wire[f] = <<>> /\ Held(e) = <<>> /\ Held(f) = <<>> /\ gbuf[g] = <<>>
  <2>1. Around(g) <= 0
    BY <1>1 DEF SingleInv, PacketInv
  <2>2. /\ OnWire(e) = 0 /\ OnWire(f) = 0 /\ InHand(e) = 0 /\ InHand(f) = 0
        /\ InCall(g) = 0
    BY <1>2, <2>1, AroundFacts
  <2>3. /\ wire[e] \in Seq(Sense) /\ wire[f] \in Seq(Sense) /\ Held(e) \in Seq(Sense)
        /\ Held(f) \in Seq(Sense) /\ gbuf[g] \in Seq(Sense)
    BY <1>2, WordFacts
  <2> QED
    BY <2>2, <2>3 DEF OnWire, InHand, InCall
<1>4. Encode(c) \in Seq(Sense) /\ Len(Encode(c)) = 4
  BY SenseFacts
<1>5. wire'[e] = <<>> /\ wire'[f] = Encode(c)
  <2>1. wire'[f] = wire[f] \o Encode(c) /\ wire'[e] = wire[e]
    BY <1>1, <1>2, <1>4, SendFacts DEF BaseInv
  <2> QED
    BY <1>3, <1>4, <2>1
<1>6. /\ Held(e)' = <<>> /\ Held(f)' = <<>> /\ gbuf'[g] = <<>>
      /\ gcall'[g] = c /\ gpc'[g] = "answer"
  BY <1>1, <1>3 DEF Held, BaseInv, TypeOK
<1>7. PacketInv(g)'
  <2>1. Around(g)' = 4
    <3>1. /\ OnWire(e)' = 0 /\ OnWire(f)' = 4 /\ InHand(e)' = 0 /\ InHand(f)' = 0
          /\ InCall(g)' = 0
      BY <1>4, <1>5, <1>6 DEF OnWire, InHand, InCall
    <3> QED
      BY <1>2, <3>1, AroundNext
  <2>2. Follows(<<>>, Encode(c), c) /\ Follows(<<>>, <<>>, c)
    BY EncodeFollows
  <2>3. Follows(gbuf'[g], wire'[e], gcall'[g])
    BY <1>5, <1>6, <2>2
  <2>4. \A x \in Ends : Follows(Held(x)', wire'[x], gcall'[g])
    BY <1>2, <1>5, <1>6, <2>2
  <2>5. Around(g)' <= IF gpc'[g] = "idle" THEN 0 ELSE 4
    BY <1>6, <2>1
  <2> QED
    BY <2>3, <2>4, <2>5 DEF PacketInv, Follows, From, Rising, Before
<1>8. BackInv(g)'
  BY <1>5, <1>6 DEF BackInv
<1>9. IdsInv(g)'
  BY <1>1, <1>6 DEF SingleInv, IdsInv
<1>10. ReturnedInv'
  BY <1>1 DEF SingleInv, ReturnedInv, BaseInv, TypeOK
<1> QED
  BY <1>7, <1>8, <1>9, <1>10 DEF SingleInv

LEMMA CallSingle ==
    ASSUME BaseInv, BaseInv', NEW g \in Callers, SingleInv(g),
           OpenStream(g) \/ ChangeStreamPreference(g)
    PROVE  SingleInv(g)'
<1>1. CASE OpenStream(g)
  <2>1. PICK id \in Ids \ DOMAIN opened :
          /\ Request(g, [flag |-> "hs", id |-> id])
          /\ opened' = [x \in DOMAIN opened \cup {id} |->
                            IF x = id THEN EndOf[g] ELSE opened[x]]
    BY <1>1 DEF OpenStream
  <2> PICK c : c = [flag |-> "hs", id |-> id]
    OBVIOUS
  <2>2. c \in Call /\ c.id = id /\ Request(g, c)
    BY <2>1 DEF Call
  <2>3. \A x \in DOMAIN opened : x \in DOMAIN opened' /\ opened'[x] = opened[x]
    BY <2>1
  <2>4. c.id \in DOMAIN opened'
    BY <2>1, <2>2
  <2> QED
    BY <2>2, <2>3, <2>4, RequestSingle
<1>2. CASE ChangeStreamPreference(g)
  <2>1. PICK id \in streams[EndOf[g]] \ {Garbled} :
          Request(g, [flag |-> "prop", id |-> id]) /\ UNCHANGED opened
    BY <1>2 DEF ChangeStreamPreference
  <2> PICK c : c = [flag |-> "prop", id |-> id]
    OBVIOUS
  <2>2. c \in Call /\ c.id = id /\ Request(g, c)
    BY <2>1, ControlAssumption DEF Call, BaseInv, TypeOK
  <2>3. id \in DOMAIN opened
    BY <2>1, ControlAssumption DEF SingleInv, IdsInv
  <2> QED
    BY <2>1, <2>2, <2>3, RequestSingle
<1> QED
  BY <1>1, <1>2

LEMMA AnswerSingle ==
    ASSUME BaseInv, BaseInv', NEW g \in Callers, SingleInv(g), Answer(g)
    PROVE  SingleInv(g)'
<1> PICK e, f : e = EndOf[g] /\ f = Peer(e)
  OBVIOUS
<1>1. PICK more \in 1 .. 4 :
        /\ Reads(e, gbuf[g], more)
        /\ gbuf' = [gbuf EXCEPT ![g] = gbuf[g] \o SubSeq(wire[e], 1, more)]
        /\ gpc' = IF Len(gbuf[g]) + more = 4 THEN [gpc EXCEPT ![g] = "return"] ELSE gpc
  BY DEF Answer
<1>2. /\ gpc[g] = "answer"
      /\ UNCHANGED <<load, opened, changes, gcall, returned, cpc, cbuf, seen, apc, log,
                     streams, up, dead>>
  BY DEF Answer
<1>3. /\ e \in Ends /\ f \in Ends /\ f # e /\ \A x \in Ends : x = e \/ x = f
      /\ gbuf[g] \in Seq(Sense) /\ wire[e] \in Seq(Sense) /\ Held(e) \in Seq(Sense)
      /\ Len(gbuf[g]) \in Nat /\ Len(wire[e]) \in Nat
  BY ControlAssumption, PeerFacts, WordFacts
<1> PICK got, rest : got = gbuf[g] \o SubSeq(wire[e], 1, more)
                     /\ rest = SubSeq(wire[e], more + 1, Len(wire[e]))
  OBVIOUS
<1>4. more \in 1 .. Len(wire[e]) /\ wire'[e] = rest /\ wire'[f] = wire[f]
  BY <1>1, <1>3, ReadsFacts DEF BaseInv
<1>5. Len(got) = Len(gbuf[g]) + more /\ Len(rest) = Len(wire[e]) - more
  BY <1>3, <1>4, SplitFacts DEF Split
<1>6. gbuf'[g] = got /\ gpc'[g] \in {"answer", "return"} /\ gcall'[g] = gcall[g]
  BY <1>1, <1>2 DEF BaseInv, TypeOK, WordsInv
<1>7. Held(e)' = Held(e) /\ Held(f)' = Held(f)
  BY <1>2 DEF Held
<1>8. PacketInv(g)'
  <2> SUFFICES ASSUME up PROVE PacketInv(g)'
    BY <1>2 DEF PacketInv
  <2>1. /\ Around(g) <= 4 /\ Follows(gbuf[g], wire[e], gcall[g])
        /\ \A x \in Ends : Follows(Held(x), wire[x], gcall[g])
    BY <1>2 DEF SingleInv, PacketInv
  <2>2. Follows(got, rest, gcall[g])
    BY <1>3, <1>4, <2>1, FollowsRead, ZenonT(60)
  <2>3. Follows(Held(e), rest, gcall[g])
    BY <1>3, <1>4, <2>1, FollowsRead
  <2>4. Around(g)' = Around(g)
    <3>1. /\ OnWire(e)' = OnWire(e) - more /\ OnWire(f)' = OnWire(f)
          /\ InHand(e)' = InHand(e) /\ InHand(f)' = InHand(f)
          /\ InCall(g)' = InCall(g) + more
      BY <1>4, <1>5, <1>6, <1>7 DEF OnWire, InHand, InCall
    <3>2. more \in Nat
      BY <1>4
    <3>3. /\ Around(g) = OnWire(e) + OnWire(f) + InHand(e) + InHand(f) + InCall(g)
          /\ OnWire(e) \in Nat /\ OnWire(f) \in Nat /\ InHand(e) \in Nat /\ InHand(f) \in Nat
          /\ InCall(g) \in Nat
      BY <1>3, AroundFacts
    <3>4. Around(g)' = OnWire(e)' + OnWire(f)' + InHand(e)' + InHand(f)' + InCall(g)'
      BY <1>3, AroundNext
    <3> QED
      BY <3>1, <3>2, <3>3, <3>4
  <2>5. Follows(gbuf'[g], wire'[e], gcall'[g])
    BY <1>4, <1>6, <2>2
  <2>6. \A x \in Ends : Follows(Held(x)', wire'[x], gcall'[g])
    BY <1>3, <1>4, <1>6, <1>7, <2>1, <2>3
  <2> QED
    BY <1>6, <2>1, <2>4, <2>5, <2>6 DEF PacketInv, Follows, From, Rising, Before
<1>9. BackInv(g)'
  <2>1. wire[e] # <<>>
    BY <1>4
  <2> QED
    BY <1>2, <1>6, <2>1 DEF SingleInv, BackInv
<1>10. IdsInv(g)' /\ ReturnedInv'
  BY <1>2, <1>6 DEF SingleInv, IdsInv, ReturnedInv
<1> QED
  BY <1>8, <1>9, <1>10 DEF SingleInv
\* When the caller has its four words, nobody else has any.
LEMMA ReturnSingle ==
    ASSUME BaseInv, BaseInv', NEW g \in Callers, SingleInv(g), Return(g) \/ CallFails(g)
    PROVE  SingleInv(g)'
<1> PICK e, f, id : e = EndOf[g] /\ f = Peer(e) /\ id = gcall[g].id
  OBVIOUS
<1>1. /\ gpc[g] # "idle" /\ gpc' = [gpc EXCEPT ![g] = "idle"]
      /\ gbuf' = [gbuf EXCEPT ![g] = <<>>]
      /\ UNCHANGED <<load, wire, opened, changes, cpc, cbuf, seen, apc, log, up, dead>>
  BY DEF Return, CallFails
<1>2. /\ e \in Ends /\ f \in Ends /\ gpc'[g] = "idle" /\ gbuf'[g] = <<>>
      /\ gcall[g] \in Call
  <2>1. e \in Ends /\ f \in Ends
    BY ControlAssumption, PeerFacts
  <2>2. gpc'[g] = "idle" /\ gcall[g] \in Call
    BY <1>1 DEF BaseInv, TypeOK
  <2>3. gbuf'[g] = <<>>
    BY <1>1 DEF BaseInv, WordsInv
  <2> QED
    BY <2>1, <2>2, <2>3
<1>3. PacketInv(g)'
  <2> SUFFICES ASSUME up PROVE Around(g)' <= 0
    BY <1>1, <1>2 DEF PacketInv
  <2>1. gpc[g] = "return"
    BY DEF Return, CallFails
  <2>2. Around(g) <= 4 /\ InCall(g) = 4
    BY <1>1, <2>1 DEF SingleInv, PacketInv, BaseInv, PhaseInv, InCall
  <2>3. /\ Around(g) = OnWire(e) + OnWire(f) + InHand(e) + InHand(f) + InCall(g)
        /\ OnWire(e) \in Nat /\ OnWire(f) \in Nat /\ InHand(e) \in Nat /\ InHand(f) \in Nat
    BY <1>2, AroundFacts
  <2>4. OnWire(e) = 0 /\ OnWire(f) = 0 /\ InHand(e) = 0 /\ InHand(f) = 0
    BY <2>2, <2>3
  <2>5. /\ OnWire(e)' = OnWire(e) /\ OnWire(f)' = OnWire(f)
        /\ InHand(e)' = InHand(e) /\ InHand(f)' = InHand(f) /\ InCall(g)' = 0
    BY <1>1, <1>2 DEF OnWire, InHand, Held, InCall
  <2>6. Around(g)' = OnWire(e)' + OnWire(f)' + InHand(e)' + InHand(f)' + InCall(g)'
    BY <1>2, AroundNext
  <2> QED
    BY <2>4, <2>5, <2>6
<1>4. BackInv(g)'
  BY <1>2 DEF BackInv
<1>5. CASE UNCHANGED <<streams, returned>>
  <2>1. IdsInv(g)' /\ ReturnedInv'
    BY <1>1, <1>2, <1>5 DEF SingleInv, IdsInv, ReturnedInv
  <2> QED
    BY <1>3, <1>4, <2>1 DEF SingleInv
<1>6. CASE /\ gcall[g].flag = "hs" /\ gpc[g] = "return"
           /\ streams' = [streams EXCEPT ![e] = @ \cup {id}]
           /\ returned' = returned \cup {id}
  <2>1. id \in DOMAIN opened /\ opened[id] = e
    BY <1>1, <1>6 DEF BaseInv, CallInv
  <2>2. id \in seen[f]
    <3>1. Len(gbuf[g]) = 4
      BY <1>6 DEF BaseInv, PhaseInv
    <3>2. CASE gbuf[g] = <<>>
      BY <3>1, <3>2
    <3> QED
      BY <1>1, <1>6, <3>2 DEF SingleInv, BackInv
  <2>3. IdsInv(g)'
    <3>1. \A x \in Ends : streams'[x] \subseteq streams[x] \cup {id}
      BY <1>6 DEF BaseInv, TypeOK
    <3> QED
      BY <1>1, <1>2, <2>1, <3>1 DEF SingleInv, IdsInv
  <2>4. ReturnedInv'
    BY <1>1, <1>6, <2>1, <2>2 DEF SingleInv, ReturnedInv
  <2> QED
    BY <1>3, <1>4, <2>3, <2>4 DEF SingleInv
<1> QED
  BY <1>5, <1>6 DEF Return, CallFails

\* A read at end x that leaves rest on the wire and adds at most what it took to
\* what x's readLoop holds.
LEMMA ReadSingle ==
    ASSUME BaseInv, BaseInv', NEW g \in Callers, PacketInv(g), NEW x \in Ends,
           UNCHANGED <<gpc, gcall, gbuf, up>>,
           NEW m \in 1 .. Len(wire[x]), NEW got, got = Held(x) \o SubSeq(wire[x], 1, m),
           wire'[x] = SubSeq(wire[x], m + 1, Len(wire[x])),
           \A y \in Ends : y # x => wire'[y] = wire[y] /\ Held(y)' = Held(y),
           Held(x)' = Held(x) \/ Held(x)' = got
    PROVE  PacketInv(g)'
<1> SUFFICES ASSUME up PROVE PacketInv(g)'
  BY DEF PacketInv
<1> PICK y, rest : y = Peer(x) /\ rest = SubSeq(wire[x], m + 1, Len(wire[x]))
  OBVIOUS
<1>1. /\ y \in Ends /\ y # x /\ \A z \in Ends : z = x \/ z = y
      /\ wire[x] \in Seq(Sense) /\ Held(x) \in Seq(Sense) /\ gbuf[g] \in Seq(Sense)
      /\ Len(wire[x]) \in Nat /\ EndOf[g] \in Ends
  BY PeerFacts, WordFacts
<1>2. Len(got) = Len(Held(x)) + m /\ Len(rest) = Len(wire[x]) - m /\ wire'[x] = rest
  BY <1>1, SplitFacts DEF Split
<1>3. gpc[g] # "idle"
  <2>1. CASE gpc[g] = "idle"
    <3>1. Around(g) <= 0
      BY <2>1 DEF PacketInv
    <3>2. OnWire(x) = 0
      BY <3>1, AroundFacts, SMTT(30)
    <3> QED
      BY <1>1, <3>2 DEF OnWire
  <2> QED
    BY <2>1
<1>4. /\ Around(g) <= 4 /\ Follows(gbuf[g], wire[EndOf[g]], gcall[g])
      /\ \A z \in Ends : Follows(Held(z), wire[z], gcall[g])
  BY <1>3 DEF PacketInv
<1>5. Around(g)' <= 4
  <2>1. /\ OnWire(x)' = OnWire(x) - m /\ OnWire(y)' = OnWire(y)
        /\ InHand(y)' = InHand(y) /\ InCall(g)' = InCall(g)
        /\ InHand(x)' = InHand(x) \/ InHand(x)' = InHand(x) + m
    BY <1>1, <1>2 DEF OnWire, InHand, InCall
  <2>2. m \in Nat
    BY <1>1
  <2>3. /\ Around(g) = OnWire(x) + OnWire(y) + InHand(x) + InHand(y) + InCall(g)
        /\ OnWire(x) \in Nat /\ OnWire(y) \in Nat /\ InHand(x) \in Nat /\ InHand(y) \in Nat
        /\ InCall(g) \in Nat
    BY AroundFacts
  <2>4. Around(g)' = OnWire(x)' + OnWire(y)' + InHand(x)' + InHand(y)' + InCall(g)'
    BY AroundNext
  <2>5. CASE InHand(x)' = InHand(x)
    <3>1. Around(g)' = (OnWire(x) - m) + OnWire(y) + InHand(x) + InHand(y) + InCall(g)
      BY <2>1, <2>4, <2>5
    <3> QED
      BY <1>4, <2>2, <2>3, <3>1, SMTT(30)
  <2>6. CASE InHand(x)' = InHand(x) + m
    <3>1. Around(g)' = (OnWire(x) - m) + OnWire(y) + (InHand(x) + m) + InHand(y) + InCall(g)
      BY <2>1, <2>4, <2>6
    <3> QED
      BY <1>4, <2>2, <2>3, <3>1
  <2> QED
    BY <2>1, <2>5, <2>6
<1>6. Follows(got, rest, gcall[g]) /\ Follows(Held(x), rest, gcall[g])
  BY <1>1, <1>4, FollowsRead
<1>7. \A z \in Ends : Follows(Held(z)', wire'[z], gcall'[g])
  <2>1. Follows(Held(x)', wire'[x], gcall'[g])
    BY <1>2, <1>6
  <2>2. Follows(Held(y)', wire'[y], gcall'[g])
    BY <1>1, <1>4
  <2> QED
    BY <1>1, <2>1, <2>2
<1>8. Follows(gbuf'[g], wire'[EndOf[g]], gcall'[g])
  <2>1. CASE EndOf[g] = x
    <3> PICK got2 : got2 = gbuf[g] \o SubSeq(wire[x], 1, m)
      OBVIOUS
    <3>1. Follows(gbuf[g], rest, gcall[g])
      BY <1>1, <1>4, <2>1, FollowsRead
    <3> QED
      BY <1>2, <2>1, <3>1
  <2>2. CASE EndOf[g] # x
    BY <1>1, <1>4, <2>2
  <2> QED
    BY <2>1, <2>2
<1>9. gpc'[g] # "idle"
  BY <1>3
<1> QED
  BY <1>5, <1>7, <1>8, <1>9 DEF PacketInv, Follows, From, Rising, Before
\* What one read of a readLoop does to the words at the two ends.
LEMMA ReadLoopFacts ==
    ASSUME BaseInv, NEW x \in Ends, ReadFlags(x) \/ ReadBody(x)
    PROVE  /\ \E m \in 1 .. Len(wire[x]) :
                 /\ wire'[x] = SubSeq(wire[x], m + 1, Len(wire[x]))
                 /\ Held(x)' = Held(x) \/ Held(x)' = Held(x) \o SubSeq(wire[x], 1, m)
           /\ \A y \in Ends : y # x => /\ wire'[y] = wire[y] /\ cpc'[y] = cpc[y]
                                       /\ cbuf'[y] = cbuf[y] /\ Held(y)' = Held(y)
           /\ cpc'[x] # "offer"
<1>2. /\ wire \in [Ends -> Seq(Sense)] /\ wire[x] \in Seq(Sense) /\ Len(wire[x]) \in Nat
      /\ cbuf \in [Ends -> Seq(Sense)]
      /\ cpc \in [Ends -> {"flags", "body", "echo", "offer", "apply"}]
  BY DEF BaseInv, WordsInv, TypeOK
<1>3. \E m \in 1 .. Len(wire[x]) :
        /\ wire'[x] = SubSeq(wire[x], m + 1, Len(wire[x]))
        /\ Held(x)' = Held(x) \/ Held(x)' = Held(x) \o SubSeq(wire[x], 1, m)
  <2>1. CASE ReadFlags(x)
    <3>1. /\ wire[x] # <<>> /\ wire'[x] = Tail(wire[x]) /\ cpc[x] = "flags"
          /\ \/ cpc'[x] = "body" /\ cbuf'[x] = <<Head(wire[x])>>
             \/ cpc'[x] = "flags"
      BY <1>2, <2>1 DEF ReadFlags
    <3>2. 1 \in 1 .. Len(wire[x]) /\ Tail(wire[x]) = SubSeq(wire[x], 1 + 1, Len(wire[x]))
      BY <1>2, <3>1
    <3>3. <<Head(wire[x])>> = <<>> \o SubSeq(wire[x], 1, 1)
      BY <1>2, <3>1
    <3>4. Held(x) = <<>> /\ (Held(x)' = <<>> \/ Held(x)' = <<Head(wire[x])>>)
      BY <3>1 DEF Held
    <3> QED
      BY <3>1, <3>2, <3>3, <3>4
  <2>2. CASE ReadBody(x)
    <3>1. cpc[x] = "body"
      BY <2>2 DEF ReadBody
    <3>2. PICK m \in 1 .. 3 :
            /\ Reads(x, cbuf[x], m)
            /\ cbuf' = [cbuf EXCEPT ![x] = cbuf[x] \o SubSeq(wire[x], 1, m)]
            /\ cpc' = IF Len(cbuf[x]) + m = 4 THEN [cpc EXCEPT ![x] = "echo"] ELSE cpc
      BY <2>2 DEF ReadBody
    <3>3. m \in 1 .. Len(wire[x]) /\ wire'[x] = SubSeq(wire[x], m + 1, Len(wire[x]))
      BY <1>2, <3>2, ReadsFacts DEF BaseInv
    <3>4. cpc'[x] \in {"body", "echo"} /\ cbuf'[x] = cbuf[x] \o SubSeq(wire[x], 1, m)
      BY <1>2, <3>1, <3>2
    <3>5. Held(x)' = Held(x) \o SubSeq(wire[x], 1, m)
      BY <3>1, <3>4 DEF Held
    <3> QED
      BY <3>3, <3>5
  <2> QED
    BY <2>1, <2>2
<1>4. ASSUME NEW y \in Ends, y # x
      PROVE  wire'[y] = wire[y] /\ cpc'[y] = cpc[y] /\ cbuf'[y] = cbuf[y]
  <2>1. CASE ReadFlags(x)
    BY <1>2, <1>4, <2>1 DEF ReadFlags
  <2>2. CASE ReadBody(x)
    BY <1>2, <1>4, <2>2 DEF ReadBody, Reads
  <2> QED
    BY <2>1, <2>2
<1>5. \A y \in Ends : y # x => wire'[y] = wire[y] /\ Held(y)' = Held(y)
  BY <1>4 DEF Held
<1>6. cpc'[x] # "offer"
  BY <1>2 DEF ReadFlags, ReadBody
<1> QED
  BY <1>3, <1>4, <1>5, <1>6

LEMMA ReadLoopSingle ==
    ASSUME BaseInv, BaseInv', NEW g \in Callers, SingleInv(g), NEW x \in Ends,
           ReadFlags(x) \/ ReadBody(x)
    PROVE  SingleInv(g)'
<1>1. UNCHANGED <<load, opened, changes, gpc, gcall, gbuf, returned, seen, apc, log,
                  streams, up, dead>>
  BY DEF ReadFlags, ReadBody
<1>3. PICK m \in 1 .. Len(wire[x]) :
        /\ wire'[x] = SubSeq(wire[x], m + 1, Len(wire[x]))
        /\ Held(x)' = Held(x) \/ Held(x)' = Held(x) \o SubSeq(wire[x], 1, m)
  BY ReadLoopFacts
<1>5. \A y \in Ends : y # x => /\ wire'[y] = wire[y] /\ cpc'[y] = cpc[y]
                               /\ cbuf'[y] = cbuf[y] /\ Held(y)' = Held(y)
  BY ReadLoopFacts
<1>6. PacketInv(g)'
  <2> PICK got : got = Held(x) \o SubSeq(wire[x], 1, m)
    OBVIOUS
  <2>1. Held(x)' = Held(x) \/ Held(x)' = got
    BY <1>3
  <2> QED
    BY <1>1, <1>3, <1>5, <2>1, ReadSingle DEF SingleInv
<1>7. BackInv(g)'
  <2>1. wire'[EndOf[g]] # <<>> => wire[EndOf[g]] # <<>>
    <3>1. wire[x] # <<>>
      BY <1>3
    <3> QED
      BY <1>5, <3>1, ControlAssumption
  <2> QED
    BY <1>1, <2>1 DEF SingleInv, BackInv
<1>8. IdsInv(g)' /\ ReturnedInv'
  <2>1. \A y \in Ends : cpc'[y] = "offer" => cpc[y] = "offer" /\ cbuf'[y] = cbuf[y]
    <3>1. cpc'[x] # "offer"
      BY ReadLoopFacts
    <3> QED
      BY <1>5, <3>1
  <2> QED
    BY <1>1, <2>1 DEF SingleInv, IdsInv, ReturnedInv
<1> QED
  BY <1>6, <1>7, <1>8 DEF SingleInv

\* A readLoop that echoes has the whole packet, and nobody else any of it.
LEMMA EchoSingle ==
    ASSUME BaseInv, BaseInv', NEW g \in Callers, SingleInv(g), NEW x \in Ends, Echo(x)
    PROVE  SingleInv(g)'
<1> PICK y, c : y = Peer(x) /\ c = gcall[g]
  OBVIOUS
<1>1. /\ cpc[x] = "echo" /\ up /\ Send(x, cbuf[x])
      /\ UNCHANGED <<load, opened, changes, gpc, gcall, gbuf, returned, cbuf, apc, log,
                     streams, up, dead>>
      /\ \/ /\ Flag(cbuf[x]) = "hs" /\ cpc' = [cpc EXCEPT ![x] = "offer"]
            /\ seen' = [seen EXCEPT ![x] = seen[x] \cup {Id(cbuf[x])}]
         \/ /\ Flag(cbuf[x]) = "prop" /\ cpc' = [cpc EXCEPT ![x] = "apply"]
            /\ UNCHANGED seen
  BY DEF Echo
<1>2. /\ y \in Ends /\ y # x /\ EndOf[g] \in Ends /\ \A z \in Ends : z = x \/ z = y
      /\ wire[x] \in Seq(Sense) /\ wire[y] \in Seq(Sense) /\ Held(x) \in Seq(Sense)
      /\ Held(y) \in Seq(Sense) /\ gbuf[g] \in Seq(Sense) /\ Peer(y) = x
  BY PeerFacts, WordFacts
<1>3. Held(x) = cbuf[x] /\ cbuf[x] \in Seq(Sense) /\ Len(cbuf[x]) = 4 /\ InHand(x) = 4
  BY <1>1, LoopFacts DEF LoopOK, Held, InHand
<1>4. /\ Around(g) = OnWire(x) + OnWire(y) + InHand(x) + InHand(y) + InCall(g)
      /\ OnWire(x) \in Nat /\ OnWire(y) \in Nat /\ InHand(y) \in Nat /\ InCall(g) \in Nat
  BY AroundFacts
<1>5. gpc[g] # "idle"
  <2>1. CASE gpc[g] = "idle"
    <3>1. Around(g) <= 0
      BY <1>1, <2>1 DEF SingleInv, PacketInv
    <3> QED
      BY <1>3, <1>4, <3>1
  <2> QED
    BY <2>1
<1>6. c \in Call /\ Around(g) <= 4 /\ Follows(Held(x), wire[x], c)
  BY <1>1, <1>5 DEF SingleInv, PacketInv, BaseInv, TypeOK
<1>7. OnWire(x) = 0 /\ OnWire(y) = 0 /\ InHand(y) = 0 /\ InCall(g) = 0
  BY <1>3, <1>4, <1>6
<1>8. wire[x] = <<>> /\ wire[y] = <<>> /\ Held(y) = <<>> /\ gbuf[g] = <<>>
  BY <1>2, <1>7 DEF OnWire, InHand, InCall
<1>9. Flag(cbuf[x]) = c.flag /\ Id(cbuf[x]) = c.id
  <2>1. From(cbuf[x], c) /\ Rising(cbuf[x])
    BY <1>3, <1>6 DEF Follows
  <2> QED
    BY <1>3, <1>6, <2>1, FullPacket
<1>10. wire'[x] = <<>> /\ wire'[y] = cbuf[x]
  <2>1. wire'[y] = wire[y] \o cbuf[x] /\ wire'[x] = wire[x]
    BY <1>1, <1>3, SendFacts DEF BaseInv
  <2> QED
    BY <1>3, <1>8, <2>1
<1>11. Held(x)' = <<>> /\ Held(y)' = <<>> /\ cpc'[y] = cpc[y] /\ cpc'[x] \in {"offer", "apply"}
  <2>1. cpc \in [Ends -> {"flags", "body", "echo", "offer", "apply"}]
    BY DEF BaseInv, TypeOK
  <2>2. cpc'[x] \in {"offer", "apply"} /\ cpc'[y] = cpc[y]
    BY <1>1, <1>2, <2>1
  <2> QED
    BY <1>1, <1>8, <2>2 DEF Held
<1>12. PacketInv(g)'
  <2>1. /\ OnWire(x)' = 0 /\ OnWire(y)' = 4 /\ InHand(x)' = 0 /\ InHand(y)' = 0
        /\ InCall(g)' = 0
    BY <1>1, <1>3, <1>8, <1>10, <1>11 DEF OnWire, InHand, InCall
  <2>2. Around(g)' = OnWire(x)' + OnWire(y)' + InHand(x)' + InHand(y)' + InCall(g)'
    BY AroundNext
  <2>3. Around(g)' <= 4
    BY <2>1, <2>2
  <2>4. Follows(<<>>, cbuf[x], c) /\ Follows(<<>>, <<>>, c)
    BY <1>3, <1>6 DEF Follows, From, Rising, Before
  <2>5. \A z \in Ends : Follows(Held(z)', wire'[z], gcall'[g])
    BY <1>1, <1>2, <1>10, <1>11, <2>4
  <2>6. Follows(gbuf'[g], wire'[EndOf[g]], gcall'[g])
    BY <1>1, <1>2, <1>8, <1>10, <2>4
  <2>7. gpc'[g] # "idle"
    BY <1>1, <1>5
  <2> QED
    BY <2>3, <2>5, <2>6, <2>7 DEF PacketInv, Follows, From, Rising, Before
<1>13. seen \in [Ends -> SUBSET (Ids \cup {Garbled})]
  BY DEF BaseInv, TypeOK
<1>14. BackInv(g)'
  <2> SUFFICES ASSUME c.flag = "hs", wire'[EndOf[g]] # <<>>
               PROVE  c.id \in seen'[Peer(EndOf[g])]
    BY <1>1, <1>8 DEF BackInv
  <2>1. EndOf[g] = y /\ Peer(EndOf[g]) = x
    BY <1>2, <1>10
  <2>2. c.id \in seen'[x]
    BY <1>1, <1>9, <1>13
  <2> QED
    BY <2>1, <2>2
<1>15. c.id \in DOMAIN opened /\ \A z \in Ends : seen[z] \subseteq seen'[z] /\ seen'[z] \subseteq seen[z] \cup {c.id}
  BY <1>1, <1>5, <1>9, <1>13 DEF SingleInv, IdsInv
<1>16. IdsInv(g)'
  <2>1. \A z \in Ends : cpc'[z] = "offer" => Id(cbuf'[z]) \in DOMAIN opened'
    <3>1. cpc'[x] = "offer" => Id(cbuf'[x]) \in DOMAIN opened'
      BY <1>1, <1>9, <1>15
    <3>2. cpc'[y] = "offer" => Id(cbuf'[y]) \in DOMAIN opened'
      BY <1>1, <1>2, <1>11 DEF SingleInv, IdsInv
    <3> QED
      BY <1>2, <3>1, <3>2
  <2> QED
    BY <1>1, <1>15, <2>1 DEF SingleInv, IdsInv
<1>17. ReturnedInv'
  <2>1. \A id \in returned : opened[id] \in Ends
    BY DEF BaseInv, TypeOK
  <2>2. \A id \in returned : Peer(opened[id]) \in Ends
    BY <2>1, PeerFacts
  <2> QED
    BY <1>1, <1>15, <2>2 DEF SingleInv, ReturnedInv
<1> QED
  BY <1>12, <1>14, <1>16, <1>17 DEF SingleInv

LEMMA NextPacketSingle ==
    ASSUME BaseInv, BaseInv', NEW g \in Callers, SingleInv(g), NEW x \in Ends,
           ReadLoopFails(x) \/ Apply(x) \/ AcceptStream(x)
    PROVE  SingleInv(g)'
<1>1. /\ cpc' = [cpc EXCEPT ![x] = "flags"]
      /\ cbuf' = [cbuf EXCEPT ![x] = <<>>]
      /\ UNCHANGED <<load, wire, opened, gpc, gcall, gbuf, returned, seen, log, streams, up>>
  BY DEF ReadLoopFails, Apply, AcceptStream
<1>2. /\ ~ up \/ cpc[x] \in {"offer", "apply"}
      /\ \/ UNCHANGED apc
         \/ cpc[x] = "offer" /\ apc' = [apc EXCEPT ![x] = Id(cbuf[x])]
  BY DEF ReadLoopFails, Apply, AcceptStream
<1>3. /\ cpc \in [Ends -> {"flags", "body", "echo", "offer", "apply"}]
      /\ cbuf \in [Ends -> Seq(Sense)]
      /\ apc \in [Ends -> Ids \cup {Garbled, None}]
  BY DEF BaseInv, WordsInv, TypeOK
<1>4. cpc'[x] = "flags" /\ \A y \in Ends : y # x => cpc'[y] = cpc[y] /\ cbuf'[y] = cbuf[y]
  BY <1>1, <1>3
<1>5. PacketInv(g)'
  <2>1. CASE ~ up
    BY <1>1, <2>1 DEF PacketInv
  <2>2. CASE cpc[x] \in {"offer", "apply"}
    <3>1. \A y \in Ends : Held(y)' = Held(y)
      BY <1>4, <2>2 DEF Held
    <3> QED
      BY <1>1, <3>1, PacketStays DEF SingleInv
  <2> QED
    BY <1>2, <2>1, <2>2
<1>6. BackInv(g)' /\ ReturnedInv'
  BY <1>1 DEF SingleInv, BackInv, ReturnedInv
<1>7. IdsInv(g)'
  <2>1. \A y \in Ends : cpc'[y] = "offer" => cpc[y] = "offer" /\ cbuf'[y] = cbuf[y]
    BY <1>4
  <2>2. ASSUME NEW y \in Ends, apc'[y] # None PROVE apc'[y] \in DOMAIN opened
    <3>1. apc[y] # None => apc[y] \in DOMAIN opened
      BY DEF SingleInv, IdsInv
    <3>2. cpc[x] = "offer" => Id(cbuf[x]) \in DOMAIN opened
      BY DEF SingleInv, IdsInv
    <3> QED
      BY <1>2, <1>3, <2>2, <3>1, <3>2
  <2> QED
    BY <1>1, <2>1, <2>2 DEF SingleInv, IdsInv
<1> QED
  BY <1>5, <1>6, <1>7 DEF SingleInv

LEMMA StoredSingle ==
    ASSUME BaseInv, BaseInv', NEW g \in Callers, SingleInv(g), NEW x \in Ends, StreamStored(x)
    PROVE  SingleInv(g)'
<1>1. /\ apc[x] # None
      /\ streams' = [streams EXCEPT ![x] = streams[x] \cup {apc[x]}]
      /\ log' = [log EXCEPT ![x] = Append(log[x], apc[x])]
      /\ apc' = [apc EXCEPT ![x] = None]
      /\ UNCHANGED <<load, wire, opened, gpc, gcall, gbuf, returned, cpc, cbuf, seen, up>>
  BY DEF StreamStored
<1>2. PacketInv(g)'
  BY <1>1, PacketStays DEF SingleInv, Held
<1>3. BackInv(g)' /\ ReturnedInv'
  BY <1>1 DEF SingleInv, BackInv, ReturnedInv
<1>4. IdsInv(g)'
  <2> SUFFICES ASSUME NEW y \in Ends
               PROVE  /\ streams'[y] \subseteq DOMAIN opened
                      /\ apc'[y] # None => apc'[y] \in DOMAIN opened
                      /\ \A i \in 1 .. Len(log'[y]) : log'[y][i] \in DOMAIN opened
    BY <1>1 DEF SingleInv, IdsInv
  <2>1. /\ streams \in [Ends -> SUBSET (Ids \cup {Garbled})]
        /\ apc \in [Ends -> Ids \cup {Garbled, None}]
        /\ log \in [Ends -> Seq(Ids \cup {Garbled})]
    BY DEF BaseInv, TypeOK
  <2>2. apc[x] \in DOMAIN opened
    BY <1>1 DEF SingleInv, IdsInv
  <2>3. streams'[y] \subseteq DOMAIN opened /\ (apc'[y] # None => apc'[y] \in DOMAIN opened)
    BY <1>1, <2>1, <2>2 DEF SingleInv, IdsInv
  <2>4. \A i \in 1 .. Len(log[y]) : log[y][i] \in DOMAIN opened
    BY DEF SingleInv, IdsInv
  <2>5. CASE y # x
    <3>1. log'[y] = log[y]
      BY <1>1, <2>1, <2>5
    <3> QED
      BY <2>3, <2>4, <3>1
  <2>6. CASE y = x
    <3>1. log'[y] = Append(log[y], apc[y])
      BY <1>1, <2>1, <2>6
    <3>2. ASSUME NEW s \in Seq(Ids \cup {Garbled}), NEW a \in DOMAIN opened,
                 \A i \in 1 .. Len(s) : s[i] \in DOMAIN opened
          PROVE  \A i \in 1 .. Len(Append(s, a)) : Append(s, a)[i] \in DOMAIN opened
      BY <3>2
    <3> QED
      BY <2>1, <2>2, <2>3, <2>4, <2>6, <3>1, <3>2
  <2> QED
    BY <2>5, <2>6
<1> QED
  BY <1>2, <1>3, <1>4 DEF SingleInv

LEMMA LostSingle ==
    ASSUME BaseInv, NEW g \in Callers, SingleInv(g),
           ConnectionLost \/ (\E x \in Ends : MapRace(x)) \/ UNCHANGED vars
    PROVE  SingleInv(g)'
<1>1. UNCHANGED <<load, opened, gpc, gcall, gbuf, returned, cpc, cbuf, seen, apc, log, streams>>
  BY DEF ConnectionLost, MapRace, vars
<1>2. \/ up' = FALSE /\ wire' = [e \in Ends |-> <<>>]
      \/ UNCHANGED <<up, wire>>
  BY DEF ConnectionLost, MapRace, vars
<1>3. EndOf[g] \in Ends
  BY ControlAssumption
<1>4. IdsInv(g)' /\ ReturnedInv'
  BY <1>1 DEF SingleInv, IdsInv, ReturnedInv
<1>5. CASE up' = FALSE /\ wire' = [e \in Ends |-> <<>>]
  <2>1. PacketInv(g)' /\ BackInv(g)'
    BY <1>1, <1>3, <1>5 DEF SingleInv, PacketInv, BackInv
  <2> QED
    BY <1>4, <2>1 DEF SingleInv
<1>6. CASE UNCHANGED <<up, wire>>
  <2>1. PacketInv(g)'
    BY <1>1, <1>6, PacketStays DEF SingleInv, Held
  <2>2. BackInv(g)'
    BY <1>1, <1>6 DEF SingleInv, BackInv
  <2> QED
    BY <1>4, <2>1, <2>2 DEF SingleInv
<1> QED
  BY <1>2, <1>5, <1>6

LEMMA StepSingle ==
    ASSUME BaseInv, BaseInv', NEW g \in Callers, load.callers = {g}, SingleInv(g), [Next]_vars
    PROVE  SingleInv(g)'
<1>1. ASSUME NEW h \in Callers,
             \/ OpenStream(h) \/ ChangeStreamPreference(h)
             \/ Answer(h) \/ Return(h) \/ CallFails(h)
      PROVE  SingleInv(g)'
  <2>1. h \in load.callers
    <3>1. CASE OpenStream(h) \/ ChangeStreamPreference(h)
      BY <3>1 DEF OpenStream, ChangeStreamPreference, Request
    <3>2. CASE Answer(h) \/ Return(h) \/ CallFails(h)
      BY <3>2 DEF Answer, Return, CallFails, BaseInv, PhaseInv
    <3> QED
      BY <1>1, <3>1, <3>2
  <2>2. h = g
    BY <2>1
  <2> QED
    BY <1>1, <2>2, CallSingle, AnswerSingle, ReturnSingle
<1>2. ASSUME NEW e \in Ends,
             \/ ReadFlags(e) \/ ReadBody(e) \/ Echo(e) \/ ReadLoopFails(e)
             \/ Apply(e) \/ AcceptStream(e) \/ StreamStored(e)
      PROVE  SingleInv(g)'
  BY <1>2, ReadLoopSingle, EchoSingle, NextPacketSingle, StoredSingle
<1> QED
  BY <1>1, <1>2, LostSingle DEF Next

-----------------------------------------------------------------------------
(* The theorems. *)

LEMMA InitControl ==
    Init => ControlInv
BY InitBase, InitSingle DEF ControlInv

LEMMA StepControl ==
    ASSUME ControlInv, [Next]_vars PROVE ControlInv'
<1>1. BaseInv'
  BY StepBase, SMTT(30) DEF ControlInv
<1>2. UNCHANGED load
  BY DEF Next, vars, OpenStream, ChangeStreamPreference, Request, Answer, Return, CallFails,
         ReadFlags, ReadBody, Echo, ReadLoopFails, Apply, AcceptStream, StreamStored,
         MapRace, ConnectionLost
<1>3. ASSUME NEW g \in Callers, load.callers = {g} PROVE SingleInv(g)'
  BY <1>1, <1>3, StepSingle DEF ControlInv
<1> QED
  BY <1>1, <1>2, <1>3 DEF ControlInv

LEMMA SingleCaller ==
    ASSUME ControlInv, Cardinality(load.callers) = 1
    PROVE  \E g \in Callers : SingleInv(g)
<1>1. load.callers \subseteq Callers
  BY ControlAssumption DEF ControlInv, BaseInv, TypeOK, Load
<1>2. IsFiniteSet(load.callers)
  BY <1>1, ControlAssumption, FS_Subset
<1>3. PICK g : load.callers = {g}
  BY <1>2, FS_Singleton
<1> QED
  BY <1>1, <1>3 DEF ControlInv

\* With one goroutine calling, in OpenStream and ChangeStreamPreference, no readLoop
\* announces and no AcceptStream returns a stream that nobody opened: however the
\* readLoops and the caller share out the words of an answer, and however often they
\* are echoed, nobody decodes words of two packets as one.
THEOREM OnlyOpenedAppear == Spec => []OnlyOpened
<1>1. ASSUME ControlInv PROVE OnlyOpened
  BY <1>1, SingleCaller DEF OnlyOpened, SingleInv, IdsInv
<1>2. ControlInv /\ [Next]_vars => ControlInv'
  BY StepControl
<1> QED
  BY <1>1, <1>2, InitControl, PTL DEF Spec

\* With one goroutine calling, when OpenStream returns a stream, the readLoop of the
\* peer has read its handshake: the four words that OpenStream takes for its answer
\* have been at the peer, whoever else has read and echoed them in between.
THEOREM OpenedIsSeen == Spec => []OpenMeansSeen
<1>1. ASSUME ControlInv PROVE OpenMeansSeen
  BY <1>1, SingleCaller DEF OpenMeansSeen, SingleInv, ReturnedInv
<1>2. ControlInv /\ [Next]_vars => ControlInv'
  BY StepControl
<1> QED
  BY <1>1, <1>2, InitControl, PTL DEF Spec

-----------------------------------------------------------------------------
(* The number of words that are on their way, for any number of callers. *)

AtEnds  == SumFunction([e \in Ends |-> AtEnd(e)])
AtCalls == SumFunction([g \in Callers |-> AtCall(g)])

LEMMA EndsSum ==
    ASSUME NEW f, NEW x \in Ends, \A e \in Ends : f[e] \in Nat
    PROVE  SumFunctionOnSet(f, Ends) = f[x] + f[Peer(x)]
<1> PICK y : y = Peer(x)
  OBVIOUS
<1>1. y \in Ends /\ y # x /\ \A e \in Ends : e = x \/ e = y
  BY PeerFacts
<1>2. IsFiniteSet(Ends) /\ IsFiniteSet({y}) /\ IsFiniteSet({})
  BY ControlAssumption, FS_Singleton, FS_EmptySet
<1>3. Ends \ {x} = {y} /\ {y} \ {y} = {}
  BY <1>1
<1>4. SumFunctionOnSet(f, Ends) = f[x] + SumFunctionOnSet(f, Ends \ {x})
  BY <1>2, SumFacts
<1>5. SumFunctionOnSet(f, {y}) = f[y] + SumFunctionOnSet(f, {y} \ {y})
  <2>1. \A e \in {y} : f[e] \in Nat
    BY <1>1
  <2> QED
    BY <1>2, <2>1, SumFacts
<1>6. SumFunctionOnSet(f, {}) = 0
  BY <1>2, SumFacts
<1>7. f[x] \in Nat /\ f[y] \in Nat
  BY <1>1
<1>8. SumFunctionOnSet(f, {y}) = f[y]
  BY <1>3, <1>5, <1>6, <1>7
<1> QED
  BY <1>3, <1>4, <1>8

LEMMA AtEndsFacts ==
    ASSUME BaseInv, NEW x \in Ends
    PROVE  /\ OnWire(x) \in Nat /\ OnWire(Peer(x)) \in Nat
           /\ InHand(x) \in Nat /\ InHand(Peer(x)) \in Nat
           /\ AtEnds = (OnWire(x) + InHand(x)) + (OnWire(Peer(x)) + InHand(Peer(x)))
<1> PICK f : f = [e \in Ends |-> AtEnd(e)]
  OBVIOUS
<1>1. ASSUME NEW e \in Ends
      PROVE  OnWire(e) \in Nat /\ InHand(e) \in Nat /\ AtEnd(e) = OnWire(e) + InHand(e)
  <2>1. Len(wire[e]) \in Nat /\ Len(cbuf[e]) \in Nat /\ Len(<<>>) = 0
    BY DEF BaseInv, WordsInv
  <2>2. InHand(e) = IF cpc[e] \in {"body", "echo"} THEN Len(cbuf[e]) ELSE 0
    BY <2>1 DEF InHand, Held
  <2> QED
    BY <2>1, <2>2 DEF AtEnd, OnWire
<1>2. Peer(x) \in Ends
  BY PeerFacts
<1>3. \A e \in Ends : f[e] = OnWire(e) + InHand(e)
  BY <1>1
<1>4. \A e \in Ends : f[e] \in Nat
  BY <1>1, <1>3
<1>5. SumFunctionOnSet(f, Ends) = f[x] + f[Peer(x)]
  BY <1>4, EndsSum
<1>6. AtEnds = SumFunctionOnSet(f, Ends)
  BY DEF AtEnds, SumFunction
<1> QED
  BY <1>1, <1>2, <1>3, <1>5, <1>6

LEMMA AtEndsNext ==
    ASSUME BaseInv', NEW x \in Ends
    PROVE  /\ OnWire(x)' \in Nat /\ OnWire(Peer(x))' \in Nat
           /\ InHand(x)' \in Nat /\ InHand(Peer(x))' \in Nat
           /\ AtEnds' = (OnWire(x)' + InHand(x)') + (OnWire(Peer(x))' + InHand(Peer(x))')
<1> PICK f : f = [e \in Ends |-> AtEnd(e)']
  OBVIOUS
<1>1. ASSUME NEW e \in Ends
      PROVE  OnWire(e)' \in Nat /\ InHand(e)' \in Nat /\ AtEnd(e)' = OnWire(e)' + InHand(e)'
  <2>1. Len(wire'[e]) \in Nat /\ Len(cbuf'[e]) \in Nat /\ Len(<<>>) = 0
    BY DEF BaseInv, WordsInv
  <2>2. InHand(e)' = IF cpc'[e] \in {"body", "echo"} THEN Len(cbuf'[e]) ELSE 0
    BY <2>1 DEF InHand, Held
  <2> QED
    BY <2>1, <2>2 DEF AtEnd, OnWire
<1>2. Peer(x) \in Ends
  BY PeerFacts
<1>3. \A e \in Ends : f[e] = OnWire(e)' + InHand(e)'
  BY <1>1
<1>4. \A e \in Ends : f[e] \in Nat
  BY <1>1, <1>3
<1>5. SumFunctionOnSet(f, Ends) = f[x] + f[Peer(x)]
  BY <1>4, EndsSum
<1>6. AtEnds' = SumFunctionOnSet(f, Ends)
  BY DEF AtEnds, SumFunction
<1> QED
  BY <1>1, <1>2, <1>3, <1>5, <1>6

LEMMA AtCallsFacts ==
    ASSUME BaseInv, BaseInv', NEW g \in Callers,
           \A h \in Callers : h # g => AtCall(h)' = AtCall(h)
    PROVE  /\ AtCall(g) \in Nat /\ AtCall(g)' \in Nat /\ AtCalls \in Nat
           /\ AtCalls' = AtCalls - AtCall(g) + AtCall(g)'
<1> PICK f, h : f = [c \in Callers |-> AtCall(c)] /\ h = [c \in Callers |-> AtCall(c)']
  OBVIOUS
<1>1. \A c \in Callers : AtCall(c) \in Nat /\ AtCall(c)' \in Nat
  <2> SUFFICES ASSUME NEW c \in Callers PROVE AtCall(c) \in Nat /\ AtCall(c)' \in Nat
    OBVIOUS
  <2>1. Len(gbuf[c]) \in Nat /\ Len(gbuf'[c]) \in Nat
    BY DEF BaseInv, WordsInv
  <2> QED
    BY <2>1 DEF AtCall
<1>2. IsFiniteSet(Callers)
  BY ControlAssumption
<1>3. SumFunctionOnSet(h, Callers) = SumFunctionOnSet(f, Callers) - f[g] + h[g]
  BY <1>1, <1>2, SumChange
<1>4. SumFunctionOnSet(f, Callers) \in Nat
  BY <1>1, <1>2, SumFacts
<1>5. AtCalls = SumFunctionOnSet(f, Callers) /\ AtCalls' = SumFunctionOnSet(h, Callers)
  BY DEF AtCalls, SumFunction
<1> QED
  BY <1>1, <1>3, <1>4, <1>5

LEMMA WaitingFacts ==
    ASSUME BaseInv, BaseInv'
    PROVE  /\ IsFiniteSet(Waiting) /\ Cardinality(Waiting) \in Nat
           /\ IsFiniteSet(Waiting') /\ Cardinality(Waiting') \in Nat
<1>1. Waiting \in SUBSET Callers /\ Waiting' \in SUBSET Callers
  BY DEF Waiting
<1> QED
  BY <1>1, ControlAssumption, FS_Subset, FS_CardinalityType

\* A step of a readLoop that makes the words no more.
LEMMA EndsStorm ==
    ASSUME BaseInv, BaseInv', NoEchoStorm, NEW x \in Ends, UNCHANGED <<gpc, gbuf, up>>,
           OnWire(x)' + InHand(x)' + OnWire(Peer(x))' + InHand(Peer(x))'
             <= OnWire(x) + InHand(x) + OnWire(Peer(x)) + InHand(Peer(x))
    PROVE  NoEchoStorm'
<1> SUFFICES ASSUME up PROVE AtEnds' + AtCalls' <= 4 * Cardinality(Waiting')
  BY DEF NoEchoStorm, InFlight, AtEnds, AtCalls
<1>1. Waiting' = Waiting
  BY DEF Waiting
<1>2. AtCalls' = AtCalls
  BY <1>1 DEF AtCalls, AtCall
<1>3. AtEnds + AtCalls <= 4 * Cardinality(Waiting)
  BY DEF NoEchoStorm, InFlight, AtEnds, AtCalls
<1>4. AtCalls \in Nat
  <2> PICK f : f = [c \in Callers |-> AtCall(c)]
    OBVIOUS
  <2>1. \A c \in Callers : f[c] \in Nat
    <3> SUFFICES ASSUME NEW c \in Callers PROVE AtCall(c) \in Nat
      OBVIOUS
    <3>1. Len(gbuf[c]) \in Nat
      BY DEF BaseInv, WordsInv
    <3> QED
      BY <3>1 DEF AtCall
  <2>2. SumFunctionOnSet(f, Callers) \in Nat
    BY <2>1, ControlAssumption, SumFacts
  <2> QED
    BY <2>2 DEF AtCalls, SumFunction
<1>5. AtEnds' <= AtEnds /\ AtEnds' \in Nat /\ AtEnds \in Nat
  BY AtEndsFacts, AtEndsNext
<1> QED
  BY <1>1, <1>2, <1>3, <1>4, <1>5, WaitingFacts

In(g) == IF g \in Waiting THEN 1 ELSE 0

\* A step of caller g that makes the words no more than four for every call.
LEMMA CallStorm ==
    ASSUME BaseInv, BaseInv', NoEchoStorm, NEW g \in Callers, NEW x \in Ends, UNCHANGED up,
           \A h \in Callers : h # g => gpc'[h] = gpc[h] /\ gbuf'[h] = gbuf[h],
           NEW was \in Nat, NEW is \in Nat,
           was = OnWire(x) + InHand(x) + OnWire(Peer(x)) + InHand(Peer(x)),
           is = OnWire(x)' + InHand(x)' + OnWire(Peer(x))' + InHand(Peer(x))',
           is + AtCall(g)' + 4 * In(g) <= was + AtCall(g) + 4 * In(g)'
    PROVE  NoEchoStorm'
<1> SUFFICES ASSUME up PROVE AtEnds' + AtCalls' <= 4 * Cardinality(Waiting')
  BY DEF NoEchoStorm, InFlight, AtEnds, AtCalls
<1>1. AtEnds + AtCalls <= 4 * Cardinality(Waiting)
  BY DEF NoEchoStorm, InFlight, AtEnds, AtCalls
<1>2. \A h \in Callers : h # g => (h \in Waiting' <=> h \in Waiting) /\ AtCall(h)' = AtCall(h)
  BY DEF Waiting, AtCall
<1>3. /\ AtCall(g) \in Nat /\ AtCall(g)' \in Nat /\ AtCalls \in Nat
      /\ AtCalls' = AtCalls - AtCall(g) + AtCall(g)'
  BY <1>2, AtCallsFacts
<1>4. Cardinality(Waiting') - In(g)' = Cardinality(Waiting) - In(g)
  <2> PICK A, B : A = Waiting /\ B = Waiting'
    OBVIOUS
  <2>1. A \ {g} = B \ {g}
    BY <1>2 DEF Waiting
  <2>2. Cardinality(A \ {g}) = IF g \in A THEN Cardinality(A) - 1 ELSE Cardinality(A)
    BY FS_RemoveElement, WaitingFacts
  <2>3. Cardinality(B \ {g}) = IF g \in B THEN Cardinality(B) - 1 ELSE Cardinality(B)
    BY FS_RemoveElement, WaitingFacts
  <2>4. Cardinality(A) \in Nat /\ Cardinality(B) \in Nat
    BY WaitingFacts
  <2>5. In(g) = (IF g \in A THEN 1 ELSE 0) /\ In(g)' = (IF g \in B THEN 1 ELSE 0)
    BY DEF In
  <2>6. Cardinality(A \ {g}) = Cardinality(A) - In(g)
    BY <2>2, <2>4, <2>5
  <2>7. Cardinality(B \ {g}) = Cardinality(B) - In(g)'
    BY <2>3, <2>4, <2>5
  <2> QED
    BY <2>1, <2>6, <2>7
<1>5. In(g) \in Nat /\ In(g)' \in Nat
  BY DEF In
<1>6. AtEnds = was /\ AtEnds' = is
  BY AtEndsFacts, AtEndsNext
<1> PICK n, m, i, j, a, b, c : /\ n = Cardinality(Waiting) /\ m = Cardinality(Waiting')
                               /\ i = In(g) /\ j = In(g)' /\ a = AtCalls /\ b = AtCall(g)
                               /\ c = AtCall(g)'
  OBVIOUS
<1>7. n \in Nat /\ m \in Nat
  BY WaitingFacts
<1> QED
  BY <1>1, <1>3, <1>4, <1>5, <1>6, <1>7

\* A call adds the four words of its request, and waits for as many.
LEMMA RequestStorm ==
    ASSUME BaseInv, BaseInv', NoEchoStorm, NEW g \in Callers, NEW c \in Call, Request(g, c)
    PROVE  NoEchoStorm'
<1> PICK e, f : e = EndOf[g] /\ f = Peer(e)
  OBVIOUS
<1>1. /\ Send(e, Encode(c)) /\ gpc[g] = "idle" /\ gpc' = [gpc EXCEPT ![g] = "answer"]
      /\ UNCHANGED <<gbuf, cpc, cbuf, up>>
  BY DEF Request
<1>2. e \in Ends /\ f \in Ends /\ f # e
  BY ControlAssumption, PeerFacts
<1>3. wire'[e] = wire[e] /\ Len(wire'[f]) = Len(wire[f]) + 4
  <2> PICK words : words = Encode(c)
    OBVIOUS
  <2>1. words \in Seq(Sense) /\ Len(words) = 4
    BY SenseFacts
  <2>2. wire'[e] = wire[e] /\ Len(wire'[Peer(e)]) = Len(wire[Peer(e)]) + Len(words)
    BY <1>1, <1>2, <2>1, SendFacts DEF BaseInv
  <2> QED
    BY <2>1, <2>2
<1>4. /\ OnWire(e)' = OnWire(e) /\ OnWire(f)' = OnWire(f) + 4
      /\ InHand(e)' = InHand(e) /\ InHand(f)' = InHand(f)
  BY <1>1, <1>3 DEF OnWire, InHand, Held
<1>5. /\ gpc'[g] = "answer" /\ gbuf'[g] = <<>>
      /\ \A h \in Callers : h # g => gpc'[h] = gpc[h] /\ gbuf'[h] = gbuf[h]
  BY <1>1 DEF BaseInv, TypeOK, PhaseInv
<1>6. AtCall(g) = 0 /\ AtCall(g)' = 0 /\ In(g) = 0 /\ In(g)' = 1
  <2>1. g \notin Waiting /\ g \in Waiting' /\ Len(gbuf'[g]) = 0
    BY <1>1, <1>5 DEF Waiting
  <2> QED
    BY <2>1 DEF AtCall, In
<1>7. /\ OnWire(e) \in Nat /\ OnWire(f) \in Nat /\ InHand(e) \in Nat /\ InHand(f) \in Nat
  BY <1>2, AtEndsFacts
<1> PICK was, is : /\ was = OnWire(e) + InHand(e) + OnWire(f) + InHand(f)
                   /\ is = OnWire(e)' + InHand(e)' + OnWire(f)' + InHand(f)'
  OBVIOUS
<1>8. was \in Nat /\ is \in Nat /\ is = was + 4
  BY <1>4, <1>7
<1>9. is + AtCall(g)' + 4 * In(g) <= was + AtCall(g) + 4 * In(g)'
  BY <1>6, <1>8
<1> QED
  BY <1>1, <1>2, <1>5, <1>8, <1>9, CallStorm

\* What a caller reads, it reads from the wire; when it stops waiting it has taken four
\* words away.
LEMMA AnswerStorm ==
    ASSUME BaseInv, BaseInv', NoEchoStorm, NEW g \in Callers, Answer(g)
    PROVE  NoEchoStorm'
<1> PICK e, f : e = EndOf[g] /\ f = Peer(e)
  OBVIOUS
<1>1. PICK more \in 1 .. 4 :
        /\ Reads(e, gbuf[g], more)
        /\ gbuf' = [gbuf EXCEPT ![g] = gbuf[g] \o SubSeq(wire[e], 1, more)]
        /\ gpc' = IF Len(gbuf[g]) + more = 4 THEN [gpc EXCEPT ![g] = "return"] ELSE gpc
  BY DEF Answer
<1>2. gpc[g] = "answer" /\ UNCHANGED <<cpc, cbuf, up>>
  BY DEF Answer
<1>3. /\ e \in Ends /\ f \in Ends /\ f # e
      /\ gbuf[g] \in Seq(Sense) /\ wire[e] \in Seq(Sense)
      /\ Len(gbuf[g]) \in Nat /\ Len(wire[e]) \in Nat
  BY ControlAssumption, PeerFacts, WordFacts
<1> PICK got, rest : got = gbuf[g] \o SubSeq(wire[e], 1, more)
                     /\ rest = SubSeq(wire[e], more + 1, Len(wire[e]))
  OBVIOUS
<1>4. more \in 1 .. Len(wire[e]) /\ wire'[e] = rest /\ wire'[f] = wire[f]
  BY <1>1, <1>3, ReadsFacts DEF BaseInv
<1>5. Len(got) = Len(gbuf[g]) + more /\ Len(rest) = Len(wire[e]) - more
  BY <1>3, <1>4, SplitFacts DEF Split
<1>6. /\ gbuf'[g] = got
      /\ gpc'[g] = IF Len(gbuf[g]) + more = 4 THEN "return" ELSE "answer"
      /\ \A h \in Callers : h # g => gpc'[h] = gpc[h] /\ gbuf'[h] = gbuf[h]
  BY <1>1, <1>2, ZenonT(60) DEF BaseInv, TypeOK, WordsInv
<1>7. /\ OnWire(e)' = OnWire(e) - more /\ OnWire(f)' = OnWire(f)
      /\ InHand(e)' = InHand(e) /\ InHand(f)' = InHand(f)
  BY <1>2, <1>4, <1>5 DEF OnWire, InHand, Held
<1>8. /\ OnWire(e) \in Nat /\ OnWire(f) \in Nat /\ InHand(e) \in Nat /\ InHand(f) \in Nat
      /\ OnWire(e)' \in Nat
  BY <1>3, AtEndsFacts, AtEndsNext
<1> PICK was, is : /\ was = OnWire(e) + InHand(e) + OnWire(f) + InHand(f)
                   /\ is = OnWire(e)' + InHand(e)' + OnWire(f)' + InHand(f)'
  OBVIOUS
<1>9. was \in Nat /\ is \in Nat /\ is = was - more
  <2> PICK a, b, c, d : a = OnWire(e) /\ b = OnWire(f) /\ c = InHand(e) /\ d = InHand(f)
    OBVIOUS
  <2>1. was = a + c + b + d /\ is = (a - more) + c + b + d
    BY <1>7
  <2>2. a \in Nat /\ b \in Nat /\ c \in Nat /\ d \in Nat /\ a - more \in Nat /\ more \in Nat
    BY <1>7, <1>8
  <2>3. /\ a + c + b + d \in Nat /\ (a - more) + c + b + d \in Nat
        /\ (a - more) + c + b + d = (a + c + b + d) - more
    BY ONLY <2>2
  <2> QED
    BY <2>1, <2>3, Zenon
<1>10. is + AtCall(g)' + 4 * In(g) <= was + AtCall(g) + 4 * In(g)'
  <2> PICK n \in Nat : n = Len(gbuf[g])
    BY <1>3
  <2>1. AtCall(g) = n /\ In(g) = 1
    BY <1>2 DEF AtCall, In, Waiting
  <2>2. CASE n + more = 4
    <3>1. g \notin Waiting'
      BY <1>6, <2>2 DEF Waiting
    <3>2. AtCall(g)' = 0 /\ In(g)' = 0
      BY <3>1 DEF AtCall, In
    <3> QED
      BY <1>9, <2>1, <2>2, <3>2, SMTT(30)
  <2>3. CASE n + more # 4
    <3>1. g \in Waiting'
      BY <1>6, <2>3 DEF Waiting
    <3>2. AtCall(g)' = n + more /\ In(g)' = 1
      BY <1>5, <1>6, <3>1 DEF AtCall, In
    <3> QED
      BY <1>9, <2>1, <3>2, SMTT(30)
  <2> QED
    BY <2>2, <2>3
<1> QED
  BY <1>2, <1>3, <1>6, <1>9, <1>10, CallStorm

LEMMA ReturnStorm ==
    ASSUME BaseInv, BaseInv', NoEchoStorm, NEW g \in Callers, Return(g) \/ CallFails(g)
    PROVE  NoEchoStorm'
<1>1. CASE CallFails(g)
  BY <1>1 DEF CallFails, NoEchoStorm
<1>2. CASE Return(g)
  <2>1. /\ gpc[g] = "return" /\ gpc' = [gpc EXCEPT ![g] = "idle"]
        /\ gbuf' = [gbuf EXCEPT ![g] = <<>>] /\ UNCHANGED <<wire, cpc, cbuf, up>>
    BY <1>2 DEF Return
  <2> PICK e, f : e = EndOf[g] /\ f = Peer(e)
    OBVIOUS
  <2>2. e \in Ends /\ f \in Ends
    BY ControlAssumption, PeerFacts
  <2>3. /\ gpc'[g] = "idle"
        /\ \A h \in Callers : h # g => gpc'[h] = gpc[h] /\ gbuf'[h] = gbuf[h]
    BY <2>1 DEF BaseInv, TypeOK
  <2>4. AtCall(g) = 0 /\ AtCall(g)' = 0 /\ In(g) = 0 /\ In(g)' = 0
    <3>1. g \notin Waiting /\ g \notin Waiting'
      BY <2>1, <2>3 DEF Waiting
    <3> QED
      BY <3>1 DEF AtCall, In
  <2>5. /\ OnWire(e)' = OnWire(e) /\ OnWire(f)' = OnWire(f)
        /\ InHand(e)' = InHand(e) /\ InHand(f)' = InHand(f)
    BY <2>1 DEF OnWire, InHand, Held
  <2>6. /\ OnWire(e) \in Nat /\ OnWire(f) \in Nat /\ InHand(e) \in Nat /\ InHand(f) \in Nat
    BY <2>2, AtEndsFacts
  <2> PICK was, is : /\ was = OnWire(e) + InHand(e) + OnWire(f) + InHand(f)
                     /\ is = OnWire(e)' + InHand(e)' + OnWire(f)' + InHand(f)'
    OBVIOUS
  <2>7. was \in Nat /\ is \in Nat /\ is = was
    BY <2>5, <2>6
  <2>8. is + AtCall(g)' + 4 * In(g) <= was + AtCall(g) + 4 * In(g)'
    BY <2>4, <2>7
  <2> QED
    BY <2>1, <2>2, <2>3, <2>7, <2>8, CallStorm
<1> QED
  BY <1>1, <1>2

LEMMA ReadLoopStorm ==
    ASSUME BaseInv, BaseInv', NoEchoStorm, NEW x \in Ends, ReadFlags(x) \/ ReadBody(x)
    PROVE  NoEchoStorm'
<1> PICK y : y = Peer(x)
  OBVIOUS
<1>1. UNCHANGED <<gpc, gbuf, up>>
  BY DEF ReadFlags, ReadBody
<1>2. PICK m \in 1 .. Len(wire[x]) :
        /\ wire'[x] = SubSeq(wire[x], m + 1, Len(wire[x]))
        /\ Held(x)' = Held(x) \/ Held(x)' = Held(x) \o SubSeq(wire[x], 1, m)
  BY ReadLoopFacts
<1>3. y \in Ends /\ y # x /\ wire'[y] = wire[y] /\ Held(y)' = Held(y)
  BY ReadLoopFacts, PeerFacts
<1>4. wire[x] \in Seq(Sense) /\ cbuf[x] \in Seq(Sense) /\ Held(x) \in Seq(Sense)
  BY DEF BaseInv, WordsInv, Held
<1> PICK got, rest : got = Held(x) \o SubSeq(wire[x], 1, m)
                     /\ rest = SubSeq(wire[x], m + 1, Len(wire[x]))
  OBVIOUS
<1>5. Len(got) = Len(Held(x)) + m /\ Len(rest) = Len(wire[x]) - m
  BY <1>4, SplitFacts DEF Split
<1>6. /\ OnWire(x)' = OnWire(x) - m /\ OnWire(y)' = OnWire(y) /\ InHand(y)' = InHand(y)
      /\ InHand(x)' = InHand(x) \/ InHand(x)' = InHand(x) + m
  BY <1>2, <1>3, <1>5 DEF OnWire, InHand
<1>7. /\ OnWire(x) \in Nat /\ OnWire(y) \in Nat /\ InHand(x) \in Nat /\ InHand(y) \in Nat
      /\ m \in Nat
  BY <1>2, AtEndsFacts
<1>8. OnWire(x)' + InHand(x)' + OnWire(y)' + InHand(y)'
        <= OnWire(x) + InHand(x) + OnWire(y) + InHand(y)
  BY <1>6, <1>7
<1> QED
  BY <1>1, <1>8, EndsStorm

\* An echo puts on the wire what the readLoop has taken from it.
LEMMA EchoStorm ==
    ASSUME BaseInv, BaseInv', NoEchoStorm, NEW x \in Ends, Echo(x)
    PROVE  NoEchoStorm'
<1> PICK y : y = Peer(x)
  OBVIOUS
<1>1. /\ cpc[x] = "echo" /\ Send(x, cbuf[x]) /\ UNCHANGED <<gpc, gbuf, cbuf, up>>
      /\ \/ cpc' = [cpc EXCEPT ![x] = "offer"]
         \/ cpc' = [cpc EXCEPT ![x] = "apply"]
  BY DEF Echo
<1>2. y \in Ends /\ y # x /\ cbuf[x] \in Seq(Sense) /\ Len(cbuf[x]) \in Nat
  BY PeerFacts DEF BaseInv, WordsInv
<1>3. Len(wire'[y]) = Len(wire[y]) + Len(cbuf[x]) /\ wire'[x] = wire[x]
  BY <1>1, <1>2, SendFacts DEF BaseInv
<1>4. cpc'[x] \in {"offer", "apply"} /\ cpc'[y] = cpc[y]
  BY <1>1, <1>2 DEF BaseInv, TypeOK
<1>5. Held(x) = cbuf[x] /\ Held(x)' = <<>> /\ Held(y)' = Held(y)
  BY <1>1, <1>4 DEF Held
<1>6. /\ OnWire(x)' = OnWire(x) /\ OnWire(y)' = OnWire(y) + InHand(x)
      /\ InHand(x)' = 0 /\ InHand(y)' = InHand(y)
  BY <1>3, <1>5 DEF OnWire, InHand
<1>7. /\ OnWire(x) \in Nat /\ OnWire(y) \in Nat /\ InHand(x) \in Nat /\ InHand(y) \in Nat
  BY AtEndsFacts
<1>8. OnWire(x)' + InHand(x)' + OnWire(y)' + InHand(y)'
        <= OnWire(x) + InHand(x) + OnWire(y) + InHand(y)
  BY <1>6, <1>7
<1> QED
  BY <1>1, <1>8, EndsStorm

LEMMA NextPacketStorm ==
    ASSUME BaseInv, BaseInv', NoEchoStorm, NEW x \in Ends,
           \/ ReadLoopFails(x) \/ Apply(x) \/ AcceptStream(x)
           \/ StreamStored(x) \/ MapRace(x)
    PROVE  NoEchoStorm'
<1> PICK y : y = Peer(x)
  OBVIOUS
<1>1. CASE ReadLoopFails(x)
  BY <1>1 DEF ReadLoopFails, NoEchoStorm
<1>2. CASE Apply(x) \/ AcceptStream(x) \/ StreamStored(x) \/ MapRace(x)
  <2>1. UNCHANGED <<gpc, gbuf, wire, up>>
    BY <1>2 DEF Apply, AcceptStream, StreamStored, MapRace
  <2>2. y \in Ends /\ y # x
    BY PeerFacts
  <2>3. Held(x)' = Held(x) /\ Held(y)' = Held(y)
    <3>1. \/ UNCHANGED <<cpc, cbuf>>
          \/ /\ cpc[x] \in {"offer", "apply"} /\ cpc'[x] = "flags"
             /\ cpc'[y] = cpc[y] /\ cbuf'[y] = cbuf[y]
      <4>1. cpc \in [Ends -> {"flags", "body", "echo", "offer", "apply"}]
            /\ cbuf \in [Ends -> Seq(Sense)]
        BY DEF BaseInv, TypeOK, WordsInv
      <4>2. \/ UNCHANGED <<cpc, cbuf>>
            \/ /\ cpc[x] \in {"offer", "apply"} /\ cpc' = [cpc EXCEPT ![x] = "flags"]
               /\ cbuf' = [cbuf EXCEPT ![x] = <<>>]
        BY <1>2 DEF Apply, AcceptStream, StreamStored, MapRace
      <4> QED
        BY <2>2, <4>1, <4>2
    <3> QED
      BY <3>1 DEF Held
  <2>4. /\ OnWire(x)' = OnWire(x) /\ OnWire(y)' = OnWire(y)
        /\ InHand(x)' = InHand(x) /\ InHand(y)' = InHand(y)
    BY <2>1, <2>3 DEF OnWire, InHand
  <2>5. /\ OnWire(x) \in Nat /\ OnWire(y) \in Nat /\ InHand(x) \in Nat /\ InHand(y) \in Nat
    BY AtEndsFacts
  <2>6. OnWire(x)' + InHand(x)' + OnWire(y)' + InHand(y)'
          <= OnWire(x) + InHand(x) + OnWire(y) + InHand(y)
    BY <2>4, <2>5
  <2> QED
    BY <2>1, <2>6, EndsStorm
<1> QED
  BY <1>1, <1>2

LEMMA InitStorm ==
    ASSUME Init PROVE NoEchoStorm
<1>1. BaseInv
  BY InitBase
<1>2. AtEnds = 0
  <2>1. PICK x : x \in Ends
    <3>1. CASE Ends = {}
      BY <3>1, ControlAssumption, FS_EmptySet
    <3> QED
      BY <3>1
  <2>2. Peer(x) \in Ends
    BY <2>1, PeerFacts
  <2>3. OnWire(x) = 0 /\ InHand(x) = 0 /\ OnWire(Peer(x)) = 0 /\ InHand(Peer(x)) = 0
    BY <2>1, <2>2 DEF Init, OnWire, InHand, Held
  <2>4. AtEnds = (OnWire(x) + InHand(x)) + (OnWire(Peer(x)) + InHand(Peer(x)))
    BY <1>1, <2>1, AtEndsFacts
  <2> QED
    BY <2>3, <2>4
<1>3. Waiting = {}
  BY DEF Init, Waiting
<1>4. AtCalls = 0
  <2> PICK f : f = [g \in Callers |-> AtCall(g)]
    OBVIOUS
  <2>1. \A g \in Callers : f[g] = 0
    BY <1>3 DEF AtCall
  <2>2. SumFunctionOnSet(f, Callers) = Cardinality(Pairs(f, Callers))
    <3>1. \A g \in Callers : f[g] \in Nat
      BY <2>1
    <3> QED
      BY <3>1, ControlAssumption, SumIsCount
  <2>3. Pairs(f, Callers) = {}
    BY <2>1 DEF Pairs
  <2> QED
    BY <2>2, <2>3, FS_EmptySet DEF AtCalls, SumFunction
<1> QED
  BY <1>2, <1>3, <1>4, FS_EmptySet DEF NoEchoStorm, InFlight, AtEnds, AtCalls

LEMMA StepStorm ==
    ASSUME BaseInv, BaseInv', NoEchoStorm, [Next]_vars PROVE NoEchoStorm'
<1>1. ASSUME NEW g \in Callers, OpenStream(g) \/ ChangeStreamPreference(g) PROVE NoEchoStorm'
  <2>1. PICK c \in Call : Request(g, c)
    <3>1. CASE OpenStream(g)
      <4>1. PICK id \in Ids : Request(g, [flag |-> "hs", id |-> id])
        BY <3>1 DEF OpenStream
      <4> QED
        BY <4>1 DEF Call
    <3>2. CASE ChangeStreamPreference(g)
      <4>1. PICK id \in streams[EndOf[g]] \ {Garbled} : Request(g, [flag |-> "prop", id |-> id])
        BY <3>2 DEF ChangeStreamPreference
      <4>2. id \in Ids
        BY <4>1, ControlAssumption DEF BaseInv, TypeOK
      <4> QED
        BY <4>1, <4>2 DEF Call
    <3> QED
      BY <1>1, <3>1, <3>2
  <2> QED
    BY <2>1, RequestStorm
<1>2. ASSUME NEW g \in Callers, Answer(g) \/ Return(g) \/ CallFails(g) PROVE NoEchoStorm'
  BY <1>2, AnswerStorm, ReturnStorm
<1>3. ASSUME NEW e \in Ends,
             \/ ReadFlags(e) \/ ReadBody(e) \/ Echo(e) \/ ReadLoopFails(e)
             \/ Apply(e) \/ AcceptStream(e) \/ StreamStored(e) \/ MapRace(e)
      PROVE  NoEchoStorm'
  BY <1>3, ReadLoopStorm, EchoStorm, NextPacketStorm
<1>4. CASE ConnectionLost
  BY <1>4 DEF ConnectionLost, NoEchoStorm
<1>5. CASE UNCHANGED vars
  BY <1>5 DEF vars, NoEchoStorm, InFlight, AtEnd, AtCall, Waiting
<1> QED
  BY <1>1, <1>2, <1>3, <1>4, <1>5 DEF Next

\* However many goroutines call at once and steal each other's answers, echoes do not
\* pile up: a readLoop echoes a packet only when it has taken its four words off the
\* wire, so there are never more words about than the waiting calls have sent.
THEOREM EchoesDoNotPileUp == Spec => []NoEchoStorm
<1>1. Init => BaseInv /\ NoEchoStorm
  BY InitBase, InitStorm
<1>2. (BaseInv /\ NoEchoStorm) /\ [Next]_vars => (BaseInv /\ NoEchoStorm)'
  BY StepBase, StepStorm
<1> QED
  BY <1>1, <1>2, PTL DEF Spec
=============================================================================
