-------------------------- MODULE DataplaneProofs ---------------------------
(***************************************************************************)
(* The inductive invariant of Dataplane, for every number of writers,      *)
(* streams, dataplane streams and Writes, and every scheduler: first the   *)
(* sender's half, then the receiver's, and the theorems that follow from   *)
(* the two halves.                                                         *)
(***************************************************************************)
EXTENDS DataplaneInv, FiniteSetTheorems, TLAPS

-----------------------------------------------------------------------------
(* Maps, parts and lengths. *)

\* Storing into a Go map.
LEMMA PutFacts ==
    ASSUME NEW m, NEW k, NEW v
    PROVE  /\ DOMAIN Put(m, k, v) = DOMAIN m \cup {k}
           /\ Put(m, k, v)[k] = v
           /\ \A x \in DOMAIN m : x # k => Put(m, k, v)[x] = m[x]
BY DEF Put

\* Deleting from a Go map.
LEMMA DeleteFacts ==
    ASSUME NEW m, NEW k
    PROVE  /\ DOMAIN Delete(m, k) = DOMAIN m \ {k}
           /\ \A x \in DOMAIN m : x # k => Delete(m, k)[x] = m[x]
BY DEF Delete

\* A scheduling decision is a sequence of parts, each with a stream and a size.
LEMMA DecisionFacts ==
    ASSUME NEW dec \in Decisions
    PROVE  /\ Len(dec) \in Nat
           /\ \A i \in 1 .. Len(dec) : dec[i] \in [dp : Dp, size : Nat]
<1> DEFINE P == [dp : Dp, size : Nat]
<1>1. dec \in Seq(P)
  BY DataplaneAssumption DEF DataplaneAssumption
<1> HIDE DEF P
<1>2. Len(dec) \in Nat /\ \A i \in 1 .. Len(dec) : dec[i] \in P
  BY <1>1
<1> QED
  BY <1>2 DEF P

\* The bytes of a sequence are finitely many, so that counting them makes sense.
LEMMA BytesFinite ==
    ASSUME NEW q, NEW dec \in Decisions
    PROVE  IsFiniteSet(Bytes(Slices(q, dec)))
<1> DEFINE D == 1 .. Len(dec)
           Of(i) == {Slice(q, dec, i).key} \X (1 .. Slice(q, dec, i).data.size)
           P == {Of(i) : i \in D}
           f == [i \in D |-> Of(i)]
<1>1. IsFiniteSet(D)
  BY FS_Interval, DecisionFacts
<1>2. f \in Surjection(D, P)
  BY DEF Surjection
<1>3. IsFiniteSet(P)
  BY <1>1, <1>2, FS_Surjection
<1>4. ASSUME NEW i \in D PROVE IsFiniteSet(Of(i))
  <2>1. Slice(q, dec, i).data.size \in Nat
    BY DecisionFacts DEF Slice
  <2>2. IsFiniteSet(1 .. Slice(q, dec, i).data.size)
    BY <2>1, FS_Interval
  <2>3. IsFiniteSet({Slice(q, dec, i).key})
    BY FS_Singleton
  <2> QED
    BY <2>2, <2>3, FS_Product
<1>5. IsFiniteSet(UNION P)
  BY <1>3, <1>4, FS_UNION
<1>6. Bytes(Slices(q, dec)) = UNION P
  BY DEF Bytes, Slices
<1> QED
  BY <1>5, <1>6

LEMMA LengthNat ==
    ASSUME NEW q, NEW dec \in Decisions
    PROVE  Length(q, dec) \in Nat
BY BytesFinite, FS_CardinalityType DEF Length

\* Parts, completions and the CompletionStore have their types.
LEMMA PartOfType ==
    ASSUME NEW q \in SeqIds, NEW s \in Streams, NEW dec \in Decisions,
           NEW i \in 1 .. Len(dec)
    PROVE  PartOf(q, s, dec, i) \in Assignment
BY DecisionFacts, LengthNat DEF PartOf, Assignment

LEMMA SendingCompletionType ==
    ASSUME NEW q, NEW s \in Streams, NEW dec \in Decisions
    PROVE  SendingCompletion(q, s, dec) \in Completion
BY DecisionFacts, LengthNat DEF SendingCompletion, Completion

LEMMA AddSendingPartType ==
    ASSUME NEW c \in Completion
    PROVE  /\ AddSendingPart(c) \in Completion
           /\ AddSendingPart(c).parts = c.parts
           /\ AddSendingPart(c).completed = c.completed + 1
           /\ AddSendingPart(c).held = c.held
BY DEF AddSendingPart, Completion

LEMMA GetOrCreateFacts ==
    ASSUME NEW store, NEW a \in Assignment,
           DOMAIN store \subseteq SeqIds,
           \A q \in DOMAIN store : store[q] \in Completion
    PROVE  LET new == GetOrCreate(store, a)
           IN  /\ DOMAIN new = DOMAIN store \cup {a.seq}
               /\ DOMAIN new \subseteq SeqIds
               /\ \A q \in DOMAIN new : new[q] \in Completion
               /\ \A q \in DOMAIN store : new[q] = store[q]
               /\ a.seq \in DOMAIN store => new = store
               /\ a.seq \notin DOMAIN store => new[a.seq] = FreshCompletion(a)
<1>1. FreshCompletion(a) \in Completion /\ a.seq \in SeqIds
  BY DEF FreshCompletion, Completion, Assignment
<1>2. CASE a.seq \in DOMAIN store
  BY <1>1, <1>2 DEF GetOrCreate
<1>3. CASE a.seq \notin DOMAIN store
  <2> DEFINE new == Put(store, a.seq, FreshCompletion(a))
  <2>1. GetOrCreate(store, a) = new
    BY <1>3 DEF GetOrCreate
  <2>2. /\ DOMAIN new = DOMAIN store \cup {a.seq}
        /\ new[a.seq] = FreshCompletion(a)
        /\ \A x \in DOMAIN store : x # a.seq => new[x] = store[x]
    BY DEF Put
  <2> HIDE DEF new
  <2> QED
    BY <1>1, <1>3, <2>1, <2>2
<1> QED
  BY <1>2, <1>3

-----------------------------------------------------------------------------
(* Counting the parts that are done. *)

LEMMA DoneGrows ==
    ASSUME NEW n \in Nat, NEW P, NEW R, R \subseteq P
    PROVE  /\ Cardinality((1 .. n) \ P) \in Nat
           /\ Cardinality((1 .. n) \ R) \in Nat
           /\ Cardinality((1 .. n) \ P) <= Cardinality((1 .. n) \ R)
<1>1. IsFiniteSet(1 .. n)
  BY FS_Interval
<1>2. IsFiniteSet((1 .. n) \ R) /\ IsFiniteSet((1 .. n) \ P)
  BY <1>1, FS_Subset
<1>3. Cardinality((1 .. n) \ P) <= Cardinality((1 .. n) \ R)
  BY <1>2, FS_Subset
<1> QED
  BY <1>2, <1>3, FS_CardinalityType

LEMMA OneMoreDone ==
    ASSUME NEW n \in Nat, NEW P, NEW R, R \subseteq P,
           NEW i \in 1 .. n, i \in P, i \notin R
    PROVE  Cardinality((1 .. n) \ P) + 1 <= Cardinality((1 .. n) \ R)
<1> DEFINE S == (1 .. n) \ P
           T1 == (1 .. n) \ R
<1>1. IsFiniteSet(1 .. n)
  BY FS_Interval
<1>2. IsFiniteSet(S) /\ IsFiniteSet(T1)
  BY <1>1, FS_Subset
<1>3. S \subseteq T1 /\ S # T1
  OBVIOUS
<1>4. Cardinality(S) <= Cardinality(T1) /\ Cardinality(S) # Cardinality(T1)
  BY <1>2, <1>3, FS_Subset
<1> QED
  BY <1>2, <1>4, FS_CardinalityType

LEMMA AllDone ==
    ASSUME NEW n \in Nat, NEW P, P \subseteq 1 .. n,
           n <= Cardinality((1 .. n) \ P)
    PROVE  P = {}
<1>1. IsFiniteSet(1 .. n) /\ Cardinality(1 .. n) = n
  BY FS_Interval
<1>2. (1 .. n) \ P \in SUBSET (1 .. n)
  OBVIOUS
<1>3. Cardinality((1 .. n) \ P) <= n /\ (n = Cardinality((1 .. n) \ P) => (1 .. n) \ P = 1 .. n)
  BY <1>1, <1>2, FS_Subset
<1>4. Cardinality((1 .. n) \ P) \in Nat
  BY <1>1, <1>2, FS_Subset, FS_CardinalityType
<1> QED
  BY <1>3, <1>4

-----------------------------------------------------------------------------
(* The actions of the sender preserve its invariant. *)

\* Nothing has been written yet.
LEMMA InitSender == Init => SenderInv
<1> SUFFICES ASSUME Init PROVE SenderInv
  OBVIOUS
<1> USE DEF Init
<1>1. DOMAIN EmptyMap = {}
  BY DEF EmptyMap
<1>2. SendTypeOK
  <2>1. IsFiniteSet({})
    BY FS_EmptySet
  <2>2. None \notin SeqIds
    BY DataplaneAssumption DEF DataplaneAssumption
  <2> QED
    BY <1>1, <2>1, <2>2 DEF SendTypeOK
<1>3. WritersInv
  BY DEF WritersInv
<1>4. QueueInv /\ WriteLoopInv /\ SignalInv
  BY DEF QueueInv, WriteLoopInv, SignalInv
<1>5. SendStoreInv
  BY <1>1 DEF SendStoreInv
<1> QED
  BY <1>2, <1>3, <1>4, <1>5 DEF SenderInv

\* An assignment stays what its Write made it while other Writes begin.
LEMMA WriteMade ==
    ASSUME SenderInv, NEW w \in Writers, NEW dec \in Decisions, Write(w, dec),
           NEW a, NEW d, Made(a, d)
    PROVE  /\ Made(a, d)'
           /\ written'[a.seq] = written[a.seq]
           /\ writing'[w] # a.seq
BY DEF SenderInv, SendTypeOK, Write, Made, PartsOf, Put

LEMMA WriteSender ==
    ASSUME SenderInv, NEW w \in Writers, NEW dec \in Decisions, Write(w, dec)
    PROVE  SenderInv'
<1> DEFINE rec == [stream |-> StreamOf[w], writer |-> w,
                   no |-> Cardinality(DOMAIN written), parts |-> dec]
<1>1. PICK q \in SeqIds \ DOMAIN written :
        /\ written' = Put(written, q, rec)
        /\ sendStore' = Put(sendStore, q, SendingCompletion(q, StreamOf[w], dec))
        /\ writing' = [writing EXCEPT ![w] = q]
        /\ next' = [next EXCEPT ![w] = 1]
  BY DEF Write
<1>2. UNCHANGED <<queue, wpc, wpart>> /\ writing[w] = None
  BY DEF Write
<1>3. /\ DOMAIN written' = DOMAIN written \cup {q}
      /\ written'[q] = rec
      /\ \A x \in DOMAIN written : written'[x] = written[x]
  BY <1>1 DEF Put
<1>4. /\ DOMAIN sendStore' = DOMAIN sendStore \cup {q}
      /\ sendStore'[q] = SendingCompletion(q, StreamOf[w], dec)
      /\ \A x \in DOMAIN sendStore : x # q => sendStore'[x] = sendStore[x]
  BY <1>1 DEF Put
<1>5. StreamOf[w] \in Streams /\ None \notin SeqIds /\ Len(dec) > 0
  BY DataplaneAssumption DEF DataplaneAssumption
<1>6. SendTypeOK'
  <2>1. rec \in [stream : Streams, writer : Writers, no : Nat, parts : Decisions]
    BY <1>5, FS_CardinalityType DEF SenderInv, SendTypeOK
  <2>2. SendingCompletion(q, StreamOf[w], dec) \in Completion
    BY <1>5, SendingCompletionType
  <2>3. IsFiniteSet(DOMAIN written')
    BY <1>3, FS_AddElement DEF SenderInv, SendTypeOK
  <2> HIDE DEF rec
  <2> QED
    BY <1>1, <1>2, <1>3, <1>4, <1>5, <2>1, <2>2, <2>3 DEF SenderInv, SendTypeOK
<1>7. WritersInv'
  BY <1>1, <1>2, <1>3, <1>4 DEF SenderInv, SendTypeOK, WritersInv, PartsOf
<1>8. QueueInv'
  BY <1>2, <1>4, WriteMade DEF SenderInv, QueueInv, QueuedInv
<1>9. WriteLoopInv'
  BY <1>2, <1>4, WriteMade DEF SenderInv, WriteLoopInv
<1>10. \A x \in DOMAIN written : Pending(x)' = Pending(x)
  BY <1>1, <1>2, <1>3, <1>5 DEF SenderInv, SendTypeOK, Pending, ToSend, PartsOf
<1>11. SendStoreInv'
  <2> SUFFICES ASSUME NEW x \in DOMAIN sendStore'
               PROVE  /\ x \in DOMAIN written'
                      /\ writing'[written'[x].writer] = x
                      /\ sendStore'[x].parts = Len(PartsOf(x)')
                      /\ sendStore'[x].held = {}
                      /\ sendStore'[x].completed
                            <= Cardinality((1 .. Len(PartsOf(x)')) \ Pending(x)')
    BY DEF SendStoreInv
  <2>1. CASE x = q
    <3>1. Cardinality((1 .. Len(dec)) \ Pending(x)') \in Nat
      BY DoneGrows, DecisionFacts
    <3>2. writing'[w] = q /\ PartsOf(q)' = dec /\ written'[q].writer = w
      BY <1>1, <1>3 DEF PartsOf, SenderInv, SendTypeOK
    <3>3. sendStore'[q].parts = Len(dec) /\ sendStore'[q].held = {} /\ sendStore'[q].completed = 0
      BY <1>4 DEF SendingCompletion
    <3> QED
      BY <1>3, <2>1, <3>1, <3>2, <3>3
  <2>2. CASE x # q
    <3>1. x \in DOMAIN sendStore /\ x \in DOMAIN written
      BY <1>4, <2>2 DEF SenderInv, SendStoreInv
    <3>2. written'[x] = written[x] /\ sendStore'[x] = sendStore[x] /\ Pending(x)' = Pending(x)
      BY <1>3, <1>4, <1>10, <2>2, <3>1
    <3>3. writing[written[x].writer] = x
      BY <3>1 DEF SenderInv, SendStoreInv
    <3>5. x # None
      BY <1>5, <3>1 DEF SenderInv, SendTypeOK
    <3>4. writing'[written[x].writer] = x
      BY <1>1, <1>2, <3>1, <3>3, <3>5 DEF SenderInv, SendTypeOK
    <3> QED
      BY <1>3, <3>1, <3>2, <3>4 DEF SenderInv, SendStoreInv, PartsOf
  <2> QED
    BY <2>1, <2>2
<1>12. SignalInv'
  <2> SUFFICES ASSUME NEW d \in Dp, NEW x \in SeqIds, wpc[d] = "signal", wpart[d].seq = x
               PROVE  /\ x \notin DOMAIN sendStore'
                      /\ Pending(x)' = {}
                      /\ writing'[written'[x].writer] = x
                      /\ \A e \in Dp : wpc[e] = "signal" /\ wpart[e].seq = x => d = e
    BY <1>2 DEF SignalInv
  <2>1. x \in DOMAIN written /\ x # q
    BY DEF SenderInv, WriteLoopInv, Made
  <2>2. writing'[written[x].writer] = x
    BY <1>1, <1>2, <1>5, <2>1, SMTT(30) DEF SenderInv, SignalInv, SendTypeOK
  <2>3. /\ x \notin DOMAIN sendStore
        /\ Pending(x) = {}
        /\ \A e \in Dp : wpc[e] = "signal" /\ wpart[e].seq = x => d = e
    BY DEF SenderInv, SignalInv
  <2>4. x \notin DOMAIN sendStore' /\ Pending(x)' = {}
    BY <1>4, <1>10, <2>1, <2>3
  <2> QED
    BY <1>3, <2>1, <2>2, <2>3, <2>4
<1> QED
  BY <1>6, <1>7, <1>8, <1>9, <1>11, <1>12 DEF SenderInv

\* At most one goroutine is in the Write of a sequence: the one that began it.
LEMMA OneWriter ==
    ASSUME SenderInv, NEW v \in Writers, NEW w \in Writers,
           writing[v] = writing[w], writing[w] # None
    PROVE  v = w
BY DEF SenderInv, WritersInv

LEMMA EnqueueSender ==
    ASSUME SenderInv, NEW w \in Writers, Enqueue(w)
    PROVE  SenderInv'
<1> PICK q, dec, i, d0, a :
        /\ q = writing[w] /\ dec = PartsOf(q) /\ i = next[w] /\ d0 = dec[i].dp
        /\ a = PartOf(q, StreamOf[w], dec, i)
  OBVIOUS
<1>1. /\ q # None /\ i <= Len(dec)
      /\ queue' = [queue EXCEPT ![d0] = Append(queue[d0], a)]
      /\ next' = [next EXCEPT ![w] = i + 1]
      /\ UNCHANGED <<written, writing, sendStore, wpc, wpart>>
  BY Zenon DEF Enqueue, PartsOf
<1>2. /\ q \in SeqIds /\ q \in DOMAIN written /\ dec \in Decisions
      /\ i \in Nat \ {0} /\ written[q].stream = StreamOf[w] /\ StreamOf[w] \in Streams
      /\ q \in DOMAIN sendStore
  BY <1>1 DEF SenderInv, SendTypeOK, WritersInv, PartsOf
<1>3. i \in 1 .. Len(dec) /\ d0 \in Dp /\ Len(dec) \in Nat
  BY <1>1, <1>2, DecisionFacts, SMTT(30)
<1>4. a \in Assignment /\ a.seq = q /\ a.part = i
  BY <1>2, <1>3, PartOfType, SMTT(30) DEF PartOf
<1>5. /\ queue \in [Dp -> Seq(Assignment)] /\ queue' \in [Dp -> Seq(Assignment)]
      /\ Len(queue'[d0]) = Len(queue[d0]) + 1
      /\ queue'[d0][Len(queue[d0]) + 1] = a
      /\ \A k \in 1 .. Len(queue[d0]) : queue'[d0][k] = queue[d0][k]
      /\ \A d \in Dp : d # d0 => queue'[d] = queue[d]
      /\ Len(queue[d0]) \in Nat
  <2>1. queue \in [Dp -> Seq(Assignment)]
    BY DEF SenderInv, SendTypeOK
  <2> QED
    BY <1>1, <1>3, <1>4, <2>1, SMTT(30)
<1>5a. \A d \in Dp :
        /\ \A l \in 1 .. Len(queue'[d]) :
              \/ l \in 1 .. Len(queue[d]) /\ queue'[d][l] = queue[d][l]
              \/ d = d0 /\ l = Len(queue[d]) + 1 /\ queue'[d][l] = a
        /\ \A l \in 1 .. Len(queue[d]) :
              l \in 1 .. Len(queue'[d]) /\ queue'[d][l] = queue[d][l]
  BY ONLY <1>5
<1>6. /\ next'[w] = i + 1
      /\ \A v \in Writers : v # w => next'[v] = next[v]
      /\ next \in [Writers -> Nat \ {0}] /\ next' \in [Writers -> Nat \ {0}]
  BY <1>1, <1>2, SMTT(30) DEF SenderInv, SendTypeOK
<1>7. SendTypeOK'
  BY <1>1, <1>5, <1>6, Zenon DEF SenderInv, SendTypeOK
<1>8. WritersInv'
  BY <1>1, <1>2, <1>6 DEF SenderInv, WritersInv, PartsOf
<1>9. ASSUME NEW b, NEW d, Made(b, d), b \in Assignment
      PROVE  /\ b.part < i \/ b.seq # q
             /\ Made(b, d)'
  <2>1. b.part \in Nat /\ \A v \in Writers : next[v] \in Nat
    BY <1>6, <1>9 DEF Assignment
  <2>2. \A v \in Writers : writing[v] = b.seq => b.part < next[v]
    BY <1>9, Zenon DEF Made
  <2>3. b.part < i \/ b.seq # q
    BY <2>2
  <2>4. \A v \in Writers : writing[v] = b.seq => b.part < next'[v]
    BY ONLY <1>6, <2>1, <2>2, i = next[w]
  <2>5. Made(b, d)'
    BY <1>1, <1>9, <2>4, Zenon DEF Made, PartsOf
  <2> QED
    BY <2>3, <2>5
<1>10. Made(a, d0)'
  <2>1. \A v \in Writers : writing[v] = q => v = w
    BY <1>1, OneWriter
  <2>2. a = PartOf(q, written[q].stream, PartsOf(q), i)
    BY <1>2
  <2>3. \A v \in Writers : writing[v] = q => i < next'[v]
    BY <1>6, <1>2, <2>1, SMTT(30)
  <2> QED
    BY <1>1, <1>2, <1>3, <1>4, <2>2, <2>3 DEF Made, PartsOf
<1>11. QueueInv'
  <2> SUFFICES ASSUME NEW d \in Dp, NEW k \in 1 .. Len(queue'[d])
               PROVE  QueuedInv(d, k)'
    BY DEF QueueInv
  <2> PICK b : b = queue'[d][k]
    OBVIOUS
  <2>1. ASSUME NEW l \in 1 .. Len(queue[d]), NEW c, c = queue[d][l]
        PROVE  /\ Made(c, d)' /\ ~ Same(c, a)
               /\ c.seq \in DOMAIN sendStore
               /\ wpc[d] # "get" => ~ Same(c, wpart[d])
    <3>1. c \in Assignment
      BY ONLY <1>5, <2>1
    <3>2. Made(c, d) /\ c.seq \in DOMAIN sendStore /\ (wpc[d] # "get" => ~ Same(c, wpart[d]))
      BY <2>1 DEF SenderInv, QueueInv, QueuedInv
    <3>3. Made(c, d)' /\ (c.part < i \/ c.seq # q)
      BY <3>1, <3>2, <1>9
    <3> QED
      BY <1>2, <1>4, <3>1, <3>2, <3>3 DEF Same, Assignment
  <2>2. wpc[d] # "get" => ~ Same(a, wpart[d])
    <3> SUFFICES ASSUME wpc[d] # "get" PROVE ~ Same(a, wpart[d])
      OBVIOUS
    <3>1. wpart[d] \in Assignment /\ Made(wpart[d], d)
      BY DEF SenderInv, SendTypeOK, WriteLoopInv
    <3> QED
      BY <1>2, <1>4, <1>9, <3>1 DEF Same, Assignment
  <2>3. \A l, m \in 1 .. Len(queue[d]) : Same(queue[d][l], queue[d][m]) => l = m
    BY DEF SenderInv, QueueInv, QueuedInv
  <2>4. \A l \in 1 .. Len(queue[d]) : ~ Same(queue[d][l], a) /\ ~ Same(a, queue[d][l])
    BY <2>1 DEF Same
  <2>5. \A l \in 1 .. Len(queue'[d]) : Same(b, queue'[d][l]) => k = l
    BY <1>5a, <2>3, <2>4
  <2>6. Made(b, d)' /\ b.seq \in DOMAIN sendStore /\ (wpc[d] # "get" => ~ Same(b, wpart[d]))
    <3>1. CASE k \in 1 .. Len(queue[d]) /\ b = queue[d][k]
      BY <2>1, <3>1
    <3>2. CASE d = d0 /\ b = a
      BY <1>2, <1>4, <1>10, <2>2, <3>2
    <3> QED
      BY <1>5a, <3>1, <3>2
  <2>7. Made(queue[d][k], d)'
    BY <2>6 DEF Made, PartsOf
  <2> QED
    BY <1>1, <2>5, <2>6, <2>7 DEF QueuedInv, Same
<1>12. WriteLoopInv'
  <2> SUFFICES ASSUME NEW d \in Dp, wpc[d] # "get"
               PROVE  /\ Made(wpart[d], d)'
                      /\ wpc[d] # "signal" => wpart[d].seq \in DOMAIN sendStore
    BY <1>1, SMTT(30) DEF WriteLoopInv
  <2>1. wpart[d] \in Assignment /\ Made(wpart[d], d)
    BY SMTT(30) DEF SenderInv, SendTypeOK, WriteLoopInv
  <2> QED
    BY <1>1, <1>9, <2>1 DEF SenderInv, WriteLoopInv
<1>13. ASSUME NEW x PROVE Pending(x)' = Pending(x)
  <2>1. ASSUME NEW j \in 1 .. Len(PartsOf(x))
        PROVE  ToSend(x, j)' <=> ToSend(x, j)
    <3>1. ASSUME NEW d \in Dp, NEW k \in 1 .. Len(queue'[d]),
                 queue'[d][k].seq = x, queue'[d][k].part = j
          PROVE  \/ writing[w] = x /\ next[w] <= j
                 \/ \E l \in 1 .. Len(queue[d]) : queue[d][l].seq = x /\ queue[d][l].part = j
      BY <1>2, <1>4, <1>5a, <3>1
    <3>2. ASSUME NEW d \in Dp, NEW k \in 1 .. Len(queue[d]),
                 queue[d][k].seq = x, queue[d][k].part = j
          PROVE  \E l \in 1 .. Len(queue'[d]) : queue'[d][l].seq = x /\ queue'[d][l].part = j
      BY <1>5a, <3>2
    <3>3. ASSUME NEW v \in Writers, writing[v] = x, next[v] <= j
          PROVE  \/ next'[v] <= j
                 \/ \E l \in 1 .. Len(queue'[d0]) : queue'[d0][l].seq = x /\ queue'[d0][l].part = j
      <4>1. CASE v = w /\ j = i
        <5>1. Len(queue[d0]) + 1 \in 1 .. Len(queue'[d0])
          BY ONLY <1>5
        <5> QED
          BY <1>4, <1>5, <3>3, <4>1, <5>1, ZenonT(60)
      <4>2. CASE v # w \/ j # i
        BY <1>2, <1>6, <3>3, <4>2
      <4> QED
        BY <4>1, <4>2
    <3>4. ASSUME NEW v \in Writers, writing[v] = x, next'[v] <= j
          PROVE  next[v] <= j
      BY <1>6, <1>2, <3>4, SMTT(30)
    <3> QED
      BY <1>1, <1>3, <3>1, <3>2, <3>3, <3>4, ZenonT(60) DEF ToSend
  <2> QED
    BY <1>1, <2>1 DEF Pending, PartsOf
<1>14. SendStoreInv'
  BY <1>1, <1>13 DEF SenderInv, SendStoreInv, PartsOf
<1>15. SignalInv'
  BY <1>1, <1>13, SMTT(30) DEF SenderInv, SignalInv
<1> QED
  BY <1>7, <1>8, <1>11, <1>12, <1>14, <1>15 DEF SenderInv

\* While written, writing and next stay the same, so does what an assignment is.
LEMMA MadeStays ==
    ASSUME UNCHANGED <<written, writing, next>>, NEW a, NEW d
    PROVE  Made(a, d)' <=> Made(a, d)
BY DEF Made, PartsOf

LEMMA DequeueSender ==
    ASSUME SenderInv, NEW d \in Dp, Dequeue(d)
    PROVE  SenderInv'
<1> PICK h : h = Head(queue[d])
  OBVIOUS
<1>1. /\ queue[d] # <<>> /\ wpc[d] = "get"
      /\ queue' = [queue EXCEPT ![d] = Tail(queue[d])]
      /\ wpart' = [wpart EXCEPT ![d] = h]
      /\ wpc' = [wpc EXCEPT ![d] = "header"]
      /\ sendStore' = GetOrCreate(sendStore, h)
      /\ UNCHANGED <<written, writing, next>>
  BY DEF Dequeue
<1>2. /\ queue \in [Dp -> Seq(Assignment)] /\ queue' \in [Dp -> Seq(Assignment)]
      /\ h \in Assignment /\ h = queue[d][1] /\ Len(queue[d]) \in Nat /\ 1 <= Len(queue[d])
      /\ Len(queue'[d]) = Len(queue[d]) - 1
      /\ \A k \in 1 .. Len(queue'[d]) : queue'[d][k] = queue[d][k + 1]
      /\ \A e \in Dp : e # d => queue'[e] = queue[e]
  <2>1. queue \in [Dp -> Seq(Assignment)]
    BY DEF SenderInv, SendTypeOK
  <2> QED
    BY <1>1, <2>1
<1>3. QueuedInv(d, 1)
  BY <1>2 DEF SenderInv, QueueInv
<1>4. sendStore' = sendStore
  BY <1>1, <1>2, <1>3 DEF QueuedInv, GetOrCreate
<1>5. /\ wpc \in [Dp -> {"get", "header", "data", "count", "signal"}]
      /\ wpart \in [Dp -> Assignment \cup {None}]
      /\ wpc'[d] = "header" /\ wpart'[d] = h
      /\ \A e \in Dp : e # d => wpc'[e] = wpc[e] /\ wpart'[e] = wpart[e]
  BY <1>1 DEF SenderInv, SendTypeOK
<1>6. SendTypeOK'
  <2>1. h # None
    BY <1>2, DataplaneAssumption DEF DataplaneAssumption
  <2> QED
    BY <1>1, <1>2, <1>4, <1>5, <2>1 DEF SenderInv, SendTypeOK
<1>7. WritersInv'
  BY <1>1, <1>4 DEF SenderInv, WritersInv, PartsOf
<1>8. QueueInv'
  <2> SUFFICES ASSUME NEW e \in Dp, NEW k \in 1 .. Len(queue'[e])
               PROVE  QueuedInv(e, k)'
    BY DEF QueueInv
  <2> PICK b : b = queue'[e][k]
    OBVIOUS
  <2>1. CASE e # d
    <3>1. QueuedInv(e, k) /\ queue'[e] = queue[e] /\ wpc'[e] = wpc[e] /\ wpart'[e] = wpart[e]
      BY <1>2, <1>5, <2>1, SMTT(30) DEF SenderInv, QueueInv
    <3>2. Made(queue[e][k], e)'
      BY <1>1, <3>1 DEF QueuedInv, Made, PartsOf
    <3> QED
      BY <1>4, <3>1, <3>2 DEF QueuedInv, Same
  <2>2. CASE e = d
    <3>1. k + 1 \in 1 .. Len(queue[d]) /\ b = queue[d][k + 1]
      BY <1>2, <2>2
    <3>2. QueuedInv(d, k + 1)
      BY <3>1 DEF SenderInv, QueueInv
    <3>3. Made(b, d)' /\ b.seq \in DOMAIN sendStore
      BY <1>1, <3>1, <3>2, MadeStays DEF QueuedInv
    <3>4. Made(queue[e][k], e)'
      BY <2>2, <3>3 DEF Made, PartsOf
    <3>5. \A l \in 1 .. Len(queue'[d]) : Same(b, queue'[d][l]) => k = l
      <4> SUFFICES ASSUME NEW l \in 1 .. Len(queue'[d]), Same(b, queue'[d][l]) PROVE k = l
        OBVIOUS
      <4>1. l + 1 \in 1 .. Len(queue[d]) /\ queue'[d][l] = queue[d][l + 1]
        BY <1>2
      <4>2. k + 1 = l + 1
        BY <3>1, <3>2, <4>1 DEF QueuedInv
      <4> QED
        BY <4>2
    <3>6. ~ Same(b, h)
      <4>1. Same(b, h) => k + 1 = 1
        BY <1>2, <3>1, <3>2 DEF QueuedInv
      <4> QED
        BY <4>1
    <3> QED
      BY <1>4, <1>5, <2>2, <3>3, <3>4, <3>5, <3>6 DEF QueuedInv
  <2> QED
    BY <2>1, <2>2
<1>9. WriteLoopInv'
  <2> SUFFICES ASSUME NEW e \in Dp, wpc'[e] # "get"
               PROVE  /\ Made(wpart[e], e)'
                      /\ wpc'[e] # "signal" => wpart'[e].seq \in DOMAIN sendStore'
    BY DEF WriteLoopInv
  <2>1. CASE e = d
    <3>1. Made(h, d)' /\ h.seq \in DOMAIN sendStore
      BY <1>1, <1>2, <1>3, MadeStays DEF QueuedInv
    <3>2. Made(wpart[e], e)'
      BY <1>5, <2>1, <3>1 DEF Made, PartsOf
    <3> QED
      BY <1>4, <1>5, <2>1, <3>1, <3>2
  <2>2. CASE e # d
    BY <1>1, <1>4, <1>5, <2>2 DEF SenderInv, WriteLoopInv, Made, PartsOf
  <2> QED
    BY <2>1, <2>2
<1>10. ASSUME NEW x PROVE Pending(x)' = Pending(x)
  <2>1. ASSUME NEW j \in 1 .. Len(PartsOf(x))
        PROVE  ToSend(x, j)' <=> ToSend(x, j)
    <3>1. ASSUME NEW e \in Dp, NEW k \in 1 .. Len(queue'[e]),
                 queue'[e][k].seq = x, queue'[e][k].part = j
          PROVE  \E l \in 1 .. Len(queue[e]) : queue[e][l].seq = x /\ queue[e][l].part = j
      <4>1. CASE e = d
        <5>1. k + 1 \in 1 .. Len(queue[d]) /\ queue'[d][k] = queue[d][k + 1]
          BY <1>2, <4>1
        <5> QED
          BY <3>1, <4>1, <5>1
      <4>2. CASE e # d
        BY <1>2, <3>1, <4>2
      <4> QED
        BY <4>1, <4>2
    <3>2. ASSUME NEW e \in Dp, NEW k \in 1 .. Len(queue[e]),
                 queue[e][k].seq = x, queue[e][k].part = j
          PROVE  \/ e = d /\ h.seq = x /\ h.part = j
                 \/ \E l \in 1 .. Len(queue'[e]) : queue'[e][l].seq = x /\ queue'[e][l].part = j
      <4>1. CASE e = d /\ k = 1
        BY <1>2, <3>2, <4>1
      <4>2. CASE e = d /\ k # 1
        <5>1. k - 1 \in 1 .. Len(queue'[d]) /\ queue'[d][k - 1] = queue[d][k]
          BY <1>2, <4>2
        <5> QED
          BY <3>2, <4>2, <5>1
      <4>3. CASE e # d
        BY <1>2, <3>2, <4>3
      <4> QED
        BY <4>1, <4>2, <4>3
    <3>3. \A e \in Dp : wpc[e] \in {"header", "data", "count"} =>
             wpc'[e] = wpc[e] /\ wpart'[e] = wpart[e]
      BY <1>1, <1>5
    <3>4. \A e \in Dp : e # d => wpc'[e] = wpc[e] /\ wpart'[e] = wpart[e]
      BY <1>5
    <3>5. h.seq = x /\ h.part = j =>
             \E l \in 1 .. Len(queue[d]) : queue[d][l].seq = x /\ queue[d][l].part = j
      <4>1. 1 \in 1 .. Len(queue[d])
        BY <1>2
      <4> QED
        BY <1>2, <4>1
    <3> QED
      BY <1>1, <1>5, <3>1, <3>2, <3>3, <3>4, <3>5, ZenonT(60) DEF ToSend
  <2> QED
    BY <1>1, <2>1 DEF Pending, PartsOf
<1>11. SendStoreInv'
  BY <1>1, <1>4, <1>10 DEF SenderInv, SendStoreInv, PartsOf
<1>12. SignalInv'
  <2> SUFFICES ASSUME NEW e \in Dp, NEW x \in SeqIds, wpc'[e] = "signal", wpart'[e].seq = x
               PROVE  /\ x \notin DOMAIN sendStore'
                      /\ Pending(x)' = {}
                      /\ writing'[written'[x].writer] = x
                      /\ \A f \in Dp : wpc'[f] = "signal" /\ wpart'[f].seq = x => e = f
    BY DEF SignalInv
  <2>1. \A f \in Dp : wpc'[f] = "signal" => wpc[f] = "signal" /\ wpart'[f] = wpart[f]
    BY <1>5
  <2>2. /\ x \notin DOMAIN sendStore
        /\ Pending(x) = {}
        /\ writing[written[x].writer] = x
        /\ \A f \in Dp : wpc[f] = "signal" /\ wpart[f].seq = x => e = f
    BY <2>1 DEF SenderInv, SignalInv
  <2> QED
    BY <1>1, <1>4, <1>10, <2>1, <2>2
<1> QED
  BY <1>6, <1>7, <1>8, <1>9, <1>11, <1>12 DEF SenderInv

\* WriteAll of the header and of the data only move the writeLoop on.
LEMMA AdvanceSender ==
    ASSUME SenderInv, NEW d \in Dp, NEW pc \in {"data", "count"},
           wpc[d] \in {"header", "data"},
           wpc' = [wpc EXCEPT ![d] = pc],
           UNCHANGED <<written, writing, next, sendStore, queue, wpart>>
    PROVE  SenderInv'
<1>1. /\ wpc \in [Dp -> {"get", "header", "data", "count", "signal"}]
      /\ wpc'[d] = pc /\ \A e \in Dp : e # d => wpc'[e] = wpc[e]
  BY DEF SenderInv, SendTypeOK
<1>2. SendTypeOK'
  BY <1>1 DEF SenderInv, SendTypeOK
<1>3. WritersInv'
  BY DEF SenderInv, WritersInv, PartsOf
<1>4. QueueInv'
  <2> SUFFICES ASSUME NEW e \in Dp, NEW k \in 1 .. Len(queue[e])
               PROVE  QueuedInv(e, k)'
    BY DEF QueueInv
  <2>1. QueuedInv(e, k) /\ (wpc'[e] # "get" => wpc[e] # "get")
    BY <1>1 DEF SenderInv, QueueInv
  <2>2. Made(queue[e][k], e)'
    BY <2>1 DEF QueuedInv, Made, PartsOf
  <2> QED
    BY <2>1, <2>2 DEF QueuedInv, Same
<1>5. WriteLoopInv'
  BY <1>1 DEF SenderInv, WriteLoopInv, Made, PartsOf
<1>6. ASSUME NEW x PROVE Pending(x)' = Pending(x)
  <2>1. \A e \in Dp : wpc'[e] \in {"header", "data", "count"} <=> wpc[e] \in {"header", "data", "count"}
    BY <1>1
  <2>2. \A j \in 1 .. Len(PartsOf(x)) : ToSend(x, j)' <=> ToSend(x, j)
    BY <2>1 DEF ToSend
  <2> QED
    BY <2>2 DEF Pending, PartsOf
<1>7. SendStoreInv'
  BY <1>6 DEF SenderInv, SendStoreInv, PartsOf
<1>8. SignalInv'
  <2>1. \A f \in Dp : wpc'[f] = "signal" => wpc[f] = "signal"
    BY <1>1
  <2> QED
    BY <1>6, <2>1 DEF SenderInv, SignalInv
<1> QED
  BY <1>2, <1>3, <1>4, <1>5, <1>7, <1>8 DEF SenderInv

\* What becomes of the queues, and of the loops other than d's, when the writeLoop
\* of d lets go of its part.
LEMMA ReleaseSender ==
    ASSUME SenderInv, NEW d \in Dp, wpc[d] # "get",
           NEW pc \in {"get", "signal"},
           wpc' = [wpc EXCEPT ![d] = pc],
           wpart' = IF pc = "get" THEN [wpart EXCEPT ![d] = None] ELSE wpart,
           UNCHANGED <<written, queue>>
    PROVE  /\ wpc'[d] = pc /\ \A e \in Dp : e # d => wpc'[e] = wpc[e] /\ wpart'[e] = wpart[e]
           /\ wpc' \in [Dp -> {"get", "header", "data", "count", "signal"}]
           /\ wpart' \in [Dp -> Assignment \cup {None}]
           /\ \A e \in Dp : wpart'[e] = None <=> wpc'[e] = "get"
           /\ pc = "signal" => wpart'[d] = wpart[d]
BY DEF SenderInv, SendTypeOK

LEMMA WriteFailsSender ==
    ASSUME SenderInv, NEW d \in Dp, WriteFails(d)
    PROVE  SenderInv'
<1>1. /\ wpc[d] \in {"header", "data"}
      /\ wpc' = [wpc EXCEPT ![d] = "get"]
      /\ wpart' = [wpart EXCEPT ![d] = None]
      /\ UNCHANGED <<written, writing, next, sendStore, queue>>
  BY DEF WriteFails
<1>2. /\ wpc'[d] = "get" /\ \A e \in Dp : e # d => wpc'[e] = wpc[e] /\ wpart'[e] = wpart[e]
      /\ wpc' \in [Dp -> {"get", "header", "data", "count", "signal"}]
      /\ wpart' \in [Dp -> Assignment \cup {None}]
      /\ \A e \in Dp : wpart'[e] = None <=> wpc'[e] = "get"
  BY <1>1, ReleaseSender
<1>3. SendTypeOK'
  BY <1>1, <1>2 DEF SenderInv, SendTypeOK
<1>4. WritersInv'
  BY <1>1 DEF SenderInv, WritersInv, PartsOf
<1>5. QueueInv'
  <2> SUFFICES ASSUME NEW e \in Dp, NEW k \in 1 .. Len(queue[e])
               PROVE  QueuedInv(e, k)'
    BY <1>1 DEF QueueInv
  <2>1. QueuedInv(e, k) /\ (wpc'[e] # "get" => wpc[e] # "get" /\ wpart'[e] = wpart[e])
    BY <1>2 DEF SenderInv, QueueInv
  <2>2. Made(queue[e][k], e)'
    BY <1>1, <2>1 DEF QueuedInv, Made, PartsOf
  <2> QED
    BY <1>1, <2>1, <2>2 DEF QueuedInv, Same
<1>6. WriteLoopInv'
  BY <1>1, <1>2 DEF SenderInv, WriteLoopInv, Made, PartsOf
<1>7. ASSUME NEW x PROVE Pending(x)' \subseteq Pending(x)
  <2>1. \A e \in Dp : wpc'[e] \in {"header", "data", "count"} =>
            wpc[e] \in {"header", "data", "count"} /\ wpart'[e] = wpart[e]
    BY <1>2
  <2>2. \A j \in 1 .. Len(PartsOf(x)) : ToSend(x, j)' => ToSend(x, j)
    BY <1>1, <2>1 DEF ToSend
  <2> QED
    BY <1>1, <2>2 DEF Pending, PartsOf
<1>8. SendStoreInv'
  <2> SUFFICES ASSUME NEW x \in DOMAIN sendStore
               PROVE  sendStore[x].completed
                            <= Cardinality((1 .. Len(PartsOf(x))) \ Pending(x)')
    BY <1>1 DEF SenderInv, SendStoreInv, PartsOf
  <2>1. Len(PartsOf(x)) \in Nat
    BY DecisionFacts DEF SenderInv, SendStoreInv, SendTypeOK, PartsOf
  <2>2. /\ Cardinality((1 .. Len(PartsOf(x))) \ Pending(x)) \in Nat
        /\ Cardinality((1 .. Len(PartsOf(x))) \ Pending(x)') \in Nat
        /\ Cardinality((1 .. Len(PartsOf(x))) \ Pending(x))
              <= Cardinality((1 .. Len(PartsOf(x))) \ Pending(x)')
    BY <1>7, <2>1, DoneGrows
  <2>3. sendStore[x].completed \in Nat
    BY DEF SenderInv, SendTypeOK, Completion
  <2>4. sendStore[x].completed <= Cardinality((1 .. Len(PartsOf(x))) \ Pending(x))
    BY DEF SenderInv, SendStoreInv
  <2> QED
    BY <2>2, <2>3, <2>4
<1>9. SignalInv'
  <2>1. \A f \in Dp : wpc'[f] = "signal" => wpc[f] = "signal" /\ wpart'[f] = wpart[f]
    BY <1>2
  <2> SUFFICES ASSUME NEW e \in Dp, NEW x \in SeqIds, wpc'[e] = "signal", wpart'[e].seq = x
               PROVE  /\ x \notin DOMAIN sendStore
                      /\ Pending(x)' = {}
                      /\ writing[written[x].writer] = x
                      /\ \A f \in Dp : wpc'[f] = "signal" /\ wpart'[f].seq = x => e = f
    BY <1>1 DEF SignalInv
  <2>2. /\ x \notin DOMAIN sendStore
        /\ Pending(x) = {}
        /\ writing[written[x].writer] = x
        /\ \A f \in Dp : wpc[f] = "signal" /\ wpart[f].seq = x => e = f
    BY <2>1 DEF SenderInv, SignalInv
  <2> QED
    BY <1>7, <2>1, <2>2
<1> QED
  BY <1>3, <1>4, <1>5, <1>6, <1>8, <1>9 DEF SenderInv

LEMMA CountPartSender ==
    ASSUME SenderInv, NEW d \in Dp, CountPart(d)
    PROVE  SenderInv'
<1> PICK q, i, c : q = wpart[d].seq /\ i = wpart[d].part /\ c = AddSendingPart(sendStore[q])
  OBVIOUS
<1> PICK pc : pc = IF IsComplete(c) THEN "signal" ELSE "get"
  OBVIOUS
<1>1. /\ wpc[d] = "count"
      /\ wpc' = [wpc EXCEPT ![d] = pc]
      /\ wpart' = IF pc = "get" THEN [wpart EXCEPT ![d] = None] ELSE wpart
      /\ sendStore' = IF IsComplete(c) THEN Delete(sendStore, q) ELSE Put(sendStore, q, c)
      /\ UNCHANGED <<written, writing, next, queue>>
  BY DEF CountPart
<1>2. /\ pc \in {"get", "signal"}
      /\ wpc'[d] = pc /\ \A e \in Dp : e # d => wpc'[e] = wpc[e] /\ wpart'[e] = wpart[e]
      /\ wpc' \in [Dp -> {"get", "header", "data", "count", "signal"}]
      /\ wpart' \in [Dp -> Assignment \cup {None}]
      /\ \A e \in Dp : wpart'[e] = None <=> wpc'[e] = "get"
      /\ pc = "signal" => wpart'[d] = wpart[d]
  BY <1>1, ReleaseSender
<1>3. /\ wpart[d] \in Assignment /\ q \in SeqIds /\ i \in Nat
      /\ Made(wpart[d], d) /\ q \in DOMAIN sendStore /\ q \in DOMAIN written
      /\ PartsOf(q) \in Decisions /\ Len(PartsOf(q)) \in Nat /\ i \in 1 .. Len(PartsOf(q))
  <2>1. wpart[d] \in Assignment /\ Made(wpart[d], d) /\ q \in DOMAIN sendStore
    BY <1>1 DEF SenderInv, SendTypeOK, WriteLoopInv
  <2>2. q \in DOMAIN written /\ PartsOf(q) \in Decisions
    BY <2>1 DEF SenderInv, SendTypeOK, Made, PartsOf
  <2> QED
    BY <2>1, <2>2, DecisionFacts DEF Made, Assignment
<1>4. /\ sendStore[q] \in Completion /\ c \in Completion
      /\ c.parts = Len(PartsOf(q)) /\ c.held = {} /\ c.completed = sendStore[q].completed + 1
      /\ sendStore[q].completed \in Nat
      /\ IsComplete(c) <=> Len(PartsOf(q)) = sendStore[q].completed + 1
  <2>1. sendStore[q] \in Completion
    BY <1>3 DEF SenderInv, SendTypeOK
  <2>2. sendStore[q].parts = Len(PartsOf(q)) /\ sendStore[q].held = {}
    BY <1>3 DEF SenderInv, SendStoreInv
  <2>3. sendStore[q].completed \in Nat
    BY <2>1 DEF Completion
  <2>4. /\ c \in Completion /\ c.parts = Len(PartsOf(q)) /\ c.held = {}
        /\ c.completed = sendStore[q].completed + 1
    BY <2>1, <2>2, AddSendingPartType
  <2> QED
    BY <2>1, <2>3, <2>4 DEF IsComplete
<1>5. /\ IsComplete(c) => DOMAIN sendStore' = DOMAIN sendStore \ {q}
      /\ ~IsComplete(c) => DOMAIN sendStore' = DOMAIN sendStore /\ sendStore'[q] = c
      /\ \A x \in DOMAIN sendStore : x # q => x \in DOMAIN sendStore' /\ sendStore'[x] = sendStore[x]
  BY <1>1, <1>3 DEF Put, Delete
<1>6. ~ ToSend(q, i)' /\ ToSend(q, i)
  <2>1. \A v \in Writers : writing[v] = q => i < next[v] /\ next[v] \in Nat
    BY <1>3 DEF Made, SenderInv, SendTypeOK
  <2>2. \A e \in Dp : \A k \in 1 .. Len(queue[e]) : ~ (queue[e][k].seq = q /\ queue[e][k].part = i)
    <3> SUFFICES ASSUME NEW e \in Dp, NEW k \in 1 .. Len(queue[e]),
                        queue[e][k].seq = q, queue[e][k].part = i
                 PROVE  FALSE
      OBVIOUS
    <3>1. QueuedInv(e, k)
      BY DEF SenderInv, QueueInv
    <3>2. e = d
      BY <1>3, <3>1 DEF QueuedInv, Made
    <3> QED
      BY <1>1, <3>1, <3>2 DEF QueuedInv, Same
  <2>3. \A e \in Dp : wpc[e] # "get" /\ wpart[e].seq = q /\ wpart[e].part = i => e = d
    BY <1>3 DEF SenderInv, WriteLoopInv, Made
  <2>4. \A e \in Dp : wpc'[e] \in {"header", "data", "count"} => e # d
    BY <1>2
  <2>5. ~ ToSend(q, i)'
    BY <1>1, <1>2, <1>3, <2>1, <2>2, <2>3, <2>4 DEF ToSend
  <2> QED
    BY <1>1, <2>5 DEF ToSend
<1>7. ASSUME NEW x, NEW j, ToSend(x, j)' PROVE ToSend(x, j)
  <2>1. \A e \in Dp : wpc'[e] \in {"header", "data", "count"} =>
            wpc[e] \in {"header", "data", "count"} /\ wpart'[e] = wpart[e]
    BY <1>2
  <2> QED
    BY <1>1, <1>7, <2>1 DEF ToSend
<1>8. ASSUME NEW x PROVE Pending(x)' \subseteq Pending(x)
  BY <1>1, <1>7 DEF Pending, PartsOf
<1>9. /\ sendStore[q].completed + 1 <= Cardinality((1 .. Len(PartsOf(q))) \ Pending(q)')
      /\ Cardinality((1 .. Len(PartsOf(q))) \ Pending(q)') \in Nat
  <2>1. i \in Pending(q) /\ i \notin Pending(q)'
    BY <1>3, <1>6 DEF Pending
  <2>2. /\ Cardinality((1 .. Len(PartsOf(q))) \ Pending(q)) + 1
              <= Cardinality((1 .. Len(PartsOf(q))) \ Pending(q)')
    BY <1>3, <1>8, <2>1, OneMoreDone
  <2>3. /\ Cardinality((1 .. Len(PartsOf(q))) \ Pending(q)) \in Nat
        /\ Cardinality((1 .. Len(PartsOf(q))) \ Pending(q)') \in Nat
    BY <1>3, <1>8, DoneGrows
  <2>4. sendStore[q].completed <= Cardinality((1 .. Len(PartsOf(q))) \ Pending(q))
    BY <1>3 DEF SenderInv, SendStoreInv
  <2> QED
    BY <1>4, <2>2, <2>3, <2>4
\* The heart of the matter: when the count says complete, no part is left to send.
<1>10. ASSUME IsComplete(c)
       PROVE  Pending(q)' = {} /\ \A j \in 1 .. Len(PartsOf(q)) : ~ ToSend(q, j)'
  <2>1. Pending(q)' \subseteq 1 .. Len(PartsOf(q))
    BY <1>1 DEF Pending, PartsOf
  <2>2. Pending(q)' = {}
    BY <1>3, <1>4, <1>9, <1>10, <2>1, AllDone, SMTT(30)
  <2> QED
    BY <1>1, <2>2 DEF Pending, PartsOf
<1>11. SendTypeOK'
  <2>1. DOMAIN sendStore' \subseteq SeqIds
    BY <1>5 DEF SenderInv, SendTypeOK
  <2>2. ASSUME NEW x \in DOMAIN sendStore' PROVE sendStore'[x] \in Completion
    <3>1. x \in DOMAIN sendStore
      BY <1>5
    <3>2. CASE x = q
      BY <1>4, <1>5, <3>2
    <3>3. CASE x # q
      BY <1>5, <3>1, <3>3 DEF SenderInv, SendTypeOK
    <3> QED
      BY <3>2, <3>3
  <2> QED
    BY <1>1, <1>2, <2>1, <2>2 DEF SenderInv, SendTypeOK
<1>12. WritersInv'
  <2> SUFFICES ASSUME NEW w \in Writers, writing[w] # None, next[w] <= Len(PartsOf(writing[w]))
               PROVE  writing[w] \in DOMAIN sendStore'
    BY <1>1 DEF SenderInv, WritersInv, PartsOf
  <2>1. writing[w] \in DOMAIN sendStore
    BY DEF SenderInv, WritersInv
  <2>2. CASE writing[w] # q
    BY <1>5, <2>1, <2>2
  <2>3. CASE writing[w] = q
    <3>1. next[w] \in 1 .. Len(PartsOf(q)) /\ next[w] <= next[w]
      BY <1>3, <2>3 DEF SenderInv, SendTypeOK
    <3>3. ~ IsComplete(c)
      <4> PICK j : j = next[w]
        OBVIOUS
      <4>1. ToSend(q, j)'
        BY <1>1, <2>3, <3>1 DEF ToSend
      <4> QED
        BY <1>10, <3>1, <4>1
    <3> QED
      BY <1>5, <2>1, <2>3, <3>3
  <2> QED
    BY <2>2, <2>3
<1>13. QueueInv'
  <2> SUFFICES ASSUME NEW e \in Dp, NEW k \in 1 .. Len(queue[e])
               PROVE  QueuedInv(e, k)'
    BY <1>1 DEF QueueInv
  <2>1. QueuedInv(e, k) /\ (wpc'[e] # "get" => wpc[e] # "get" /\ wpart'[e] = wpart[e])
    BY <1>1, <1>2 DEF SenderInv, QueueInv
  <2>2. Made(queue[e][k], e)'
    BY <1>1, <2>1 DEF QueuedInv, Made, PartsOf
  <2>3. queue[e][k].seq \in DOMAIN sendStore'
    <3> PICK j : j = queue[e][k].part
      OBVIOUS
    <3>1. CASE queue[e][k].seq = q
      <4>1. j \in 1 .. Len(PartsOf(q)) /\ ToSend(q, j)'
        BY <1>1, <2>1, <3>1 DEF QueuedInv, Made, ToSend
      <4> QED
        BY <1>3, <1>5, <1>10, <3>1, <4>1
    <3>2. CASE queue[e][k].seq # q
      BY <1>5, <2>1, <3>2 DEF QueuedInv
    <3> QED
      BY <3>1, <3>2
  <2> QED
    BY <1>1, <2>1, <2>2, <2>3 DEF QueuedInv, Same
<1>14. WriteLoopInv'
  <2> SUFFICES ASSUME NEW e \in Dp, wpc'[e] # "get"
               PROVE  /\ Made(wpart[e], e)'
                      /\ wpc'[e] # "signal" => wpart'[e].seq \in DOMAIN sendStore'
    BY SMTT(30) DEF WriteLoopInv
  <2>1. wpart'[e] = wpart[e] /\ wpc[e] # "get"
    BY <1>1, <1>2, SMTT(30)
  <2>2. Made(wpart[e], e)'
    BY <1>1, <2>1 DEF SenderInv, WriteLoopInv, Made, PartsOf
  <2>3. ASSUME wpc'[e] # "signal" PROVE wpart[e].seq \in DOMAIN sendStore'
    <3>1. e # d /\ wpc'[e] = wpc[e] /\ wpc[e] # "signal"
      BY <1>1, <1>2, <2>1, <2>3
    <3>2. wpart[e].seq \in DOMAIN sendStore /\ Made(wpart[e], e)
      BY <2>1, <3>1 DEF SenderInv, WriteLoopInv
    <3>3. CASE wpart[e].seq = q
      <4> PICK j : j = wpart[e].part
        OBVIOUS
      <4>1. wpc'[e] \in {"header", "data", "count"}
        BY <1>2, <2>3
      <4>2. j \in 1 .. Len(PartsOf(q)) /\ ToSend(q, j)'
        BY <2>1, <3>2, <3>3, <4>1 DEF Made, ToSend
      <4> QED
        BY <1>3, <1>5, <1>10, <3>3, <4>2
    <3>4. CASE wpart[e].seq # q
      BY <1>5, <3>2, <3>4
    <3> QED
      BY <3>3, <3>4
  <2> QED
    BY <2>1, <2>2, <2>3
<1>15. SendStoreInv'
  <2> SUFFICES ASSUME NEW x \in DOMAIN sendStore'
               PROVE  /\ x \in DOMAIN written
                      /\ writing[written[x].writer] = x
                      /\ sendStore'[x].parts = Len(PartsOf(x))
                      /\ sendStore'[x].held = {}
                      /\ sendStore'[x].completed
                            <= Cardinality((1 .. Len(PartsOf(x))) \ Pending(x)')
    BY <1>1 DEF SendStoreInv, PartsOf
  <2>1. x \in DOMAIN sendStore
    BY <1>5
  <2>2. /\ x \in DOMAIN written /\ writing[written[x].writer] = x
        /\ sendStore[x].parts = Len(PartsOf(x)) /\ sendStore[x].held = {}
        /\ sendStore[x].completed <= Cardinality((1 .. Len(PartsOf(x))) \ Pending(x))
        /\ sendStore[x].completed \in Nat
    BY <2>1 DEF SenderInv, SendStoreInv, SendTypeOK, Completion
  <2>3. CASE x = q
    <3>1. sendStore'[q] = c
      BY <1>5, <2>3
    <3> QED
      BY <1>4, <1>9, <2>2, <2>3, <3>1
  <2>4. CASE x # q
    <3>1. sendStore'[x] = sendStore[x]
      BY <1>5, <2>1, <2>4
    <3>2. Len(PartsOf(x)) \in Nat
      BY <2>2, DecisionFacts DEF SenderInv, SendTypeOK, PartsOf
    <3>3. /\ Cardinality((1 .. Len(PartsOf(x))) \ Pending(x)) \in Nat
          /\ Cardinality((1 .. Len(PartsOf(x))) \ Pending(x)') \in Nat
          /\ Cardinality((1 .. Len(PartsOf(x))) \ Pending(x))
                <= Cardinality((1 .. Len(PartsOf(x))) \ Pending(x)')
      BY <1>8, <3>2, DoneGrows
    <3> QED
      BY <2>2, <3>1, <3>3
  <2> QED
    BY <2>3, <2>4
<1>16. SignalInv'
  <2> SUFFICES ASSUME NEW e \in Dp, NEW x \in SeqIds, wpc'[e] = "signal", wpart'[e].seq = x
               PROVE  /\ x \notin DOMAIN sendStore'
                      /\ Pending(x)' = {}
                      /\ writing[written[x].writer] = x
                      /\ \A f \in Dp : wpc'[f] = "signal" /\ wpart'[f].seq = x => e = f
    BY <1>1 DEF SignalInv
  <2>1. \A f \in Dp : f # d /\ wpc'[f] = "signal" => wpc[f] = "signal" /\ wpart'[f] = wpart[f]
    BY <1>2
  <2>2. \A f \in Dp : wpc[f] = "signal" => wpart[f].seq # q
    BY <1>3 DEF SenderInv, SignalInv
  <2>3. CASE e = d
    <3>1. pc = "signal" /\ x = q /\ IsComplete(c)
      BY <1>2, <2>3
    <3>2. q \notin DOMAIN sendStore' /\ Pending(q)' = {}
      BY <1>5, <1>10, <3>1
    <3>3. writing[written[q].writer] = q
      BY <1>3 DEF SenderInv, SendStoreInv
    <3> QED
      BY <2>1, <2>2, <2>3, <3>1, <3>2, <3>3
  <2>4. CASE e # d
    <3>1. x # q /\ wpc[e] = "signal" /\ wpart[e].seq = x
      BY <2>1, <2>2, <2>4
    <3>2. /\ x \notin DOMAIN sendStore
          /\ Pending(x) = {}
          /\ writing[written[x].writer] = x
          /\ \A f \in Dp : wpc[f] = "signal" /\ wpart[f].seq = x => e = f
      BY <3>1 DEF SenderInv, SignalInv
    <3>3. \A f \in Dp : wpc'[f] = "signal" /\ wpart'[f].seq = x => e = f
      BY <1>2, <2>1, <3>1, <3>2
    <3> QED
      BY <1>5, <1>8, <3>1, <3>2, <3>3
  <2> QED
    BY <2>3, <2>4
<1> QED
  BY <1>11, <1>12, <1>13, <1>14, <1>15, <1>16 DEF SenderInv

LEMMA CompleteSender ==
    ASSUME SenderInv, NEW d \in Dp, NEW w \in Writers, Complete(d, w)
    PROVE  SenderInv'
<1> PICK q : q = wpart[d].seq
  OBVIOUS
<1>1. /\ wpc[d] = "signal" /\ writing[w] = q
      /\ writing' = [writing EXCEPT ![w] = None]
      /\ wpc' = [wpc EXCEPT ![d] = "get"]
      /\ wpart' = [wpart EXCEPT ![d] = None]
      /\ UNCHANGED <<written, next, sendStore, queue>>
  BY DEF Complete
<1>2. /\ wpc'[d] = "get" /\ \A e \in Dp : e # d => wpc'[e] = wpc[e] /\ wpart'[e] = wpart[e]
      /\ wpc' \in [Dp -> {"get", "header", "data", "count", "signal"}]
      /\ wpart' \in [Dp -> Assignment \cup {None}]
      /\ \A e \in Dp : wpart'[e] = None <=> wpc'[e] = "get"
  BY <1>1, ReleaseSender
<1>3. wpart[d] \in Assignment /\ q \in SeqIds /\ None \notin SeqIds
  <2>1. wpart[d] \in Assignment
    BY <1>1 DEF SenderInv, SendTypeOK
  <2>2. None \notin SeqIds
    BY DataplaneAssumption DEF DataplaneAssumption
  <2> QED
    BY <2>1, <2>2 DEF Assignment
<1>4. /\ writing \in [Writers -> SeqIds \cup {None}]
      /\ writing'[w] = None /\ \A v \in Writers : v # w => writing'[v] = writing[v]
      /\ writing' \in [Writers -> SeqIds \cup {None}]
  BY <1>1 DEF SenderInv, SendTypeOK
<1>5. SendTypeOK'
  <2>1. \A v \in Writers : writing'[v] # None => writing'[v] \in DOMAIN written'
    BY <1>1, <1>4 DEF SenderInv, SendTypeOK
  <2> QED
    BY <1>1, <1>2, <1>4, <2>1 DEF SenderInv, SendTypeOK
<1>6. WritersInv'
  <2> SUFFICES ASSUME NEW v \in Writers, writing'[v] # None
               PROVE  /\ written[writing[v]].writer = v
                      /\ written[writing[v]].stream = StreamOf[v]
                      /\ next[v] <= Len(PartsOf(writing[v])) => writing[v] \in DOMAIN sendStore
                      /\ writing'[v] = writing[v]
    BY <1>1 DEF WritersInv, PartsOf
  <2>1. v # w /\ writing'[v] = writing[v]
    BY <1>4
  <2> QED
    BY <2>1 DEF SenderInv, WritersInv
<1>7. ASSUME NEW a, NEW e, Made(a, e)
      PROVE  Made(a, e)'
  <2>1. \A v \in Writers : writing'[v] = a.seq => writing[v] = a.seq
    <3>1. a.seq # None
      BY <1>3, <1>7 DEF Made, SenderInv, SendTypeOK
    <3> QED
      BY <1>4, <3>1
  <2> QED
    BY <1>1, <1>7, <2>1 DEF Made, PartsOf
<1>8. QueueInv'
  <2> SUFFICES ASSUME NEW e \in Dp, NEW k \in 1 .. Len(queue[e])
               PROVE  QueuedInv(e, k)'
    BY <1>1 DEF QueueInv
  <2>1. QueuedInv(e, k) /\ (wpc'[e] # "get" => wpc[e] # "get" /\ wpart'[e] = wpart[e])
    BY <1>2 DEF SenderInv, QueueInv
  <2> PICK b : b = queue[e][k]
    OBVIOUS
  <2>2. Made(b, e)'
    BY <1>7, <2>1 DEF QueuedInv
  <2>3. Made(queue[e][k], e)'
    BY <1>1, <2>2 DEF Made, PartsOf
  <2> QED
    BY <1>1, <2>1, <2>3 DEF QueuedInv, Same
<1>9. WriteLoopInv'
  <2> SUFFICES ASSUME NEW e \in Dp, wpc'[e] # "get"
               PROVE  /\ Made(wpart[e], e)'
                      /\ wpc'[e] # "signal" => wpart'[e].seq \in DOMAIN sendStore'
    BY DEF WriteLoopInv
  <2> PICK b : b = wpart[e]
    OBVIOUS
  <2>1. wpc'[e] = wpc[e] /\ wpart'[e] = b
    BY <1>2
  <2>2. Made(b, e)'
    BY <1>7, <2>1 DEF SenderInv, WriteLoopInv
  <2>3. Made(wpart[e], e)'
    BY <2>1, <2>2 DEF Made, PartsOf
  <2> QED
    BY <1>1, <2>1, <2>3 DEF SenderInv, WriteLoopInv
<1>10. ASSUME NEW x, x # None PROVE Pending(x)' \subseteq Pending(x)
  <2>1. \A e \in Dp : wpc'[e] \in {"header", "data", "count"} =>
            wpc[e] \in {"header", "data", "count"} /\ wpart'[e] = wpart[e]
    BY <1>2
  <2>2. \A v \in Writers : writing'[v] = x => writing[v] = x
    BY <1>4, <1>10
  <2>3. \A j \in 1 .. Len(PartsOf(x)) : ToSend(x, j)' => ToSend(x, j)
    BY <1>1, <2>1, <2>2 DEF ToSend
  <2> QED
    BY <1>1, <2>3 DEF Pending, PartsOf
\* The Write that returns is in no store and in no other writeLoop.
<1>11. /\ q \notin DOMAIN sendStore
       /\ \A e \in Dp : wpc[e] = "signal" /\ wpart[e].seq = q => e = d
  BY <1>1, <1>3 DEF SenderInv, SignalInv
<1>12. SendStoreInv'
  <2> SUFFICES ASSUME NEW x \in DOMAIN sendStore
               PROVE  /\ writing'[written[x].writer] = x
                      /\ sendStore[x].completed
                            <= Cardinality((1 .. Len(PartsOf(x))) \ Pending(x)')
    BY <1>1 DEF SenderInv, SendStoreInv, PartsOf
  <2>1. /\ x # q /\ x # None /\ x \in DOMAIN written
        /\ writing[written[x].writer] = x /\ written[x].writer \in Writers
    <3>1. x \in DOMAIN written /\ writing[written[x].writer] = x
      BY DEF SenderInv, SendStoreInv
    <3>2. x # None /\ written[x].writer \in Writers
      BY <1>3, <3>1 DEF SenderInv, SendTypeOK
    <3> QED
      BY <1>11, <3>1, <3>2
  <2>2. writing'[written[x].writer] = x
    BY <1>1, <1>4, <2>1
  <2>3. Len(PartsOf(x)) \in Nat
    BY <2>1, DecisionFacts DEF SenderInv, SendTypeOK, PartsOf
  <2>4. /\ Cardinality((1 .. Len(PartsOf(x))) \ Pending(x)) \in Nat
        /\ Cardinality((1 .. Len(PartsOf(x))) \ Pending(x)') \in Nat
        /\ Cardinality((1 .. Len(PartsOf(x))) \ Pending(x))
              <= Cardinality((1 .. Len(PartsOf(x))) \ Pending(x)')
    BY <1>10, <2>1, <2>3, DoneGrows
  <2>5. sendStore[x].completed \in Nat
    BY DEF SenderInv, SendTypeOK, Completion
  <2>6. sendStore[x].completed <= Cardinality((1 .. Len(PartsOf(x))) \ Pending(x))
    BY DEF SenderInv, SendStoreInv
  <2> QED
    BY <2>2, <2>4, <2>5, <2>6
<1>13. SignalInv'
  <2> SUFFICES ASSUME NEW e \in Dp, NEW x \in SeqIds, wpc'[e] = "signal", wpart'[e].seq = x
               PROVE  /\ x \notin DOMAIN sendStore
                      /\ Pending(x)' = {}
                      /\ writing'[written[x].writer] = x
                      /\ \A f \in Dp : wpc'[f] = "signal" /\ wpart'[f].seq = x => e = f
    BY <1>1 DEF SignalInv
  <2>1. \A f \in Dp : wpc'[f] = "signal" => f # d /\ wpc[f] = "signal" /\ wpart'[f] = wpart[f]
    BY <1>2
  <2>2. /\ x \notin DOMAIN sendStore
        /\ Pending(x) = {}
        /\ writing[written[x].writer] = x
        /\ \A f \in Dp : wpc[f] = "signal" /\ wpart[f].seq = x => e = f
    BY <2>1 DEF SenderInv, SignalInv
  <2>3. x # q /\ x # None
    BY <1>3, <1>11, <2>1
  <2>4. x \in DOMAIN written /\ written[x].writer \in Writers
    <3>1. x \in DOMAIN written
      BY <2>1 DEF SenderInv, WriteLoopInv, Made
    <3> QED
      BY <3>1 DEF SenderInv, SendTypeOK
  <2>5. writing'[written[x].writer] = x
    BY <1>1, <1>4, <2>2, <2>3, <2>4
  <2> QED
    BY <1>10, <2>1, <2>2, <2>3, <2>5
<1> QED
  BY <1>5, <1>6, <1>8, <1>9, <1>12, <1>13 DEF SenderInv

-----------------------------------------------------------------------------
\* No other action touches the sender.
LEMMA UnchangedSender ==
    ASSUME SenderInv, UNCHANGED sendVars
    PROVE  SenderInv'
<1> USE DEF sendVars
<1>1. SendTypeOK' /\ WritersInv'
  BY DEF SenderInv, SendTypeOK, WritersInv, PartsOf
<1>2. QueueInv' /\ WriteLoopInv'
  BY DEF SenderInv, QueueInv, QueuedInv, WriteLoopInv, Made, Same, PartsOf
<1>3. \A x : Pending(x)' = Pending(x)
  BY DEF Pending, ToSend, PartsOf
<1>4. SendStoreInv'
  BY <1>3 DEF SenderInv, SendStoreInv, PartsOf
<1>5. SignalInv'
  BY <1>3 DEF SenderInv, SignalInv
<1> QED
  BY <1>1, <1>2, <1>4, <1>5 DEF SenderInv

\* Every step preserves the sender's half of the invariant.
LEMMA StepSender == SenderInv /\ [Next]_vars => SenderInv'
<1> SUFFICES ASSUME SenderInv, [Next]_vars PROVE SenderInv'
  OBVIOUS
<1>1. ASSUME NEW w \in Writers, NEW dec \in Decisions, Write(w, dec) PROVE SenderInv'
  BY <1>1, WriteSender
<1>2. ASSUME NEW w \in Writers, Enqueue(w) PROVE SenderInv'
  BY <1>2, EnqueueSender
<1>3. ASSUME NEW d \in Dp, WriteLoop(d) PROVE SenderInv'
  <2>1. CASE Dequeue(d)
    BY <2>1, DequeueSender
  <2>2. CASE WriteHeader(d)
    BY <2>2, AdvanceSender DEF WriteHeader
  <2>3. CASE WriteData(d)
    BY <2>3, AdvanceSender DEF WriteData
  <2>4. CASE WriteFails(d)
    BY <2>4, WriteFailsSender
  <2>5. CASE CountPart(d)
    BY <2>5, CountPartSender
  <2>6. ASSUME NEW w \in Writers, Complete(d, w) PROVE SenderInv'
    BY <2>6, CompleteSender
  <2> QED
    BY <1>3, <2>1, <2>2, <2>3, <2>4, <2>5, <2>6 DEF WriteLoop
<1>4. ASSUME NEW d \in Dp, ReadLoop(d) \/ ConnectionLost(d) PROVE UNCHANGED sendVars
  BY <1>4 DEF ReadLoop, ReadHeader, ReadData, ReadFails, Lookup, Deliver, Panic, ConnectionLost
<1>5. ASSUME NEW s \in Streams, AcceptStream(s) PROVE UNCHANGED sendVars
  BY <1>5 DEF AcceptStream
<1>6. StreamStored => UNCHANGED sendVars
  BY DEF StreamStored
<1>7. UNCHANGED vars => UNCHANGED sendVars
  BY DEF vars
<1> QED
  BY <1>1, <1>2, <1>3, <1>4, <1>5, <1>6, <1>7, UnchangedSender DEF Next

\* Whatever the scheduler decides and whichever connections are lost, the queues,
\* the writeLoops and the sender's CompletionStore stay consistent.
THEOREM SenderCorrect == Spec => []SenderInv
<1>1. SenderInv /\ [Next]_vars => SenderInv'
  BY StepSender
<1> QED
  BY InitSender, <1>1, PTL DEF Spec

-----------------------------------------------------------------------------
(* Assembling a sequence. *)

NonEmpty(entries) == {e \in entries : e.data.size > 0}

\* Bytes only counts: if the parts that are held are parts of the sequence and
\* together as long as it is, they are all of its parts.
LEMMA CountingIsEnough ==
    ASSUME NEW q, NEW dec \in Decisions, NEW H,
           H \subseteq NonEmpty(Slices(q, dec)),
           Cardinality(Bytes(H)) = Length(q, dec)
    PROVE  H = NonEmpty(Slices(q, dec))
<1>1. IsFiniteSet(Bytes(Slices(q, dec)))
  BY BytesFinite
<1>2. Bytes(H) \subseteq Bytes(Slices(q, dec))
  BY DEF Bytes, NonEmpty
<1>3. Bytes(H) = Bytes(Slices(q, dec))
  BY <1>1, <1>2, FS_Subset DEF Length
<1> SUFFICES ASSUME NEW e \in NonEmpty(Slices(q, dec)) PROVE e \in H
  OBVIOUS
<1>4. PICK i \in 1 .. Len(dec) : e = Slice(q, dec, i) /\ e.key = i
  BY DEF NonEmpty, Slices, Slice
<1>5. e.data.size \in Nat /\ 1 \in 1 .. e.data.size
  <2>1. e.data.size \in Nat
    BY <1>4, DecisionFacts DEF Slice
  <2> QED
    BY <2>1 DEF NonEmpty
<1>6. <<e.key, 1>> \in Bytes(Slices(q, dec))
  <2>1. e \in Slices(q, dec) /\ <<e.key, 1>> \in {e.key} \X (1 .. e.data.size)
    BY <1>5 DEF NonEmpty
  <2> QED
    BY <2>1 DEF Bytes
<1>7. PICK f \in H : <<e.key, 1>> \in {f.key} \X (1 .. f.data.size)
  BY <1>3, <1>6 DEF Bytes
<1>8. f.key = i
  BY <1>4, <1>7
<1>9. PICK j \in 1 .. Len(dec) : f = Slice(q, dec, j)
  BY DEF NonEmpty, Slices
<1>10. f = e
  BY <1>4, <1>8, <1>9 DEF Slice
<1> QED
  BY <1>7, <1>10

\* AddPart files the data under the index and leaves the rest alone.
LEMMA AddPartFacts ==
    ASSUME NEW c \in Completion, NEW i \in Nat, NEW data \in Data
    PROVE  LET new == AddPart(c, i, data)
           IN  /\ new \in Completion
               /\ new.stream = c.stream /\ new.size = c.size
               /\ new.held = {e \in c.held : e.key # i} \cup {[key |-> i, data |-> data]}
               /\ new.held # {}
<1>1. [key |-> i, data |-> data] \in Entry
  BY DEF Entry
<1> PICK held : held = {e \in c.held : e.key # i} \cup {[key |-> i, data |-> data]}
  OBVIOUS
<1>2. held \in SUBSET Entry /\ held # {}
  BY <1>1 DEF Completion
<1>3. AddPart(c, i, data) = [c EXCEPT !.completed = c.completed + 1, !.held = held]
  BY DEF AddPart
<1> DEFINE C == [stream : Streams, parts : Nat, size : Nat, completed : Nat, held : SUBSET Entry]
<1>4. c \in C
  BY DEF Completion
<1>5. /\ AddPart(c, i, data).stream = c.stream /\ AddPart(c, i, data).size = c.size
      /\ AddPart(c, i, data).held = held
  BY <1>3, <1>4
<1>6. AddPart(c, i, data) \in C
  <2> PICK n : n = c.completed + 1
    OBVIOUS
  <2>1. c \in C /\ n \in Nat
    BY <1>4
  <2>2. [c EXCEPT !.completed = n] \in C
    BY <2>1
  <2>3. [[c EXCEPT !.completed = n] EXCEPT !.held = held] \in C
    BY <1>2, <2>2
  <2>4. AddPart(c, i, data) = [[c EXCEPT !.completed = n] EXCEPT !.held = held]
    BY <1>3
  <2> QED
    BY <2>3, <2>4
<1> QED
  BY <1>2, <1>5, <1>6 DEF Completion

\* What an assignment that WriteForStream made says about its Write.
LEMMA MadeFacts ==
    ASSUME SenderInv, NEW a, NEW d, Made(a, d)
    PROVE  /\ a.seq \in DOMAIN written /\ a.seq \in SeqIds
           /\ PartsOf(a.seq) \in Decisions
           /\ Len(PartsOf(a.seq)) \in Nat
           /\ a.part \in 1 .. Len(PartsOf(a.seq))
           /\ a.size = PartsOf(a.seq)[a.part].size
           /\ a.size \in Nat
           /\ a.stream = written[a.seq].stream
           /\ a.total = Length(a.seq, PartsOf(a.seq))
           /\ a \in Assignment
           /\ d = PartsOf(a.seq)[a.part].dp
<1>1. /\ a.seq \in DOMAIN written /\ a.part \in 1 .. Len(PartsOf(a.seq))
      /\ a = PartOf(a.seq, written[a.seq].stream, PartsOf(a.seq), a.part)
      /\ d = PartsOf(a.seq)[a.part].dp
  BY DEF Made
<1>2. a.seq \in SeqIds /\ PartsOf(a.seq) \in Decisions /\ written[a.seq].stream \in Streams
  BY <1>1 DEF SenderInv, SendTypeOK, PartsOf
<1>3. a \in Assignment
  BY <1>1, <1>2, PartOfType
<1>4. /\ a.size = PartsOf(a.seq)[a.part].size
      /\ a.stream = written[a.seq].stream
      /\ a.total = Length(a.seq, PartsOf(a.seq))
  BY <1>1 DEF PartOf
<1> QED
  BY <1>1, <1>2, <1>3, <1>4, DecisionFacts DEF Assignment

-----------------------------------------------------------------------------
(* What every step keeps. *)

\* A Write, once made, is never changed.
LEMMA WrittenStays ==
    ASSUME SenderInv, [Next]_vars, NEW q \in DOMAIN written
    PROVE  q \in DOMAIN written' /\ written'[q] = written[q]
<1>1. ASSUME NEW w \in Writers, NEW dec \in Decisions, Write(w, dec)
      PROVE  q \in DOMAIN written' /\ written'[q] = written[q]
  BY <1>1, SMTT(30) DEF Write, Put
<1>2. ASSUME NEW w \in Writers, Enqueue(w) PROVE UNCHANGED written
  BY <1>2 DEF Enqueue
<1>3. ASSUME NEW d \in Dp, WriteLoop(d) PROVE UNCHANGED written
  BY <1>3 DEF WriteLoop, Dequeue, WriteHeader, WriteData, WriteFails, CountPart, Complete
<1>4. ASSUME NEW d \in Dp, ReadLoop(d) \/ ConnectionLost(d) PROVE UNCHANGED written
  BY <1>4 DEF ReadLoop, ReadHeader, ReadData, ReadFails, Lookup, Deliver, Panic,
              ConnectionLost, sendVars
<1>5. ASSUME NEW s \in Streams, AcceptStream(s) PROVE UNCHANGED written
  BY <1>5 DEF AcceptStream, sendVars
<1>6. StreamStored \/ UNCHANGED vars => UNCHANGED written
  BY DEF StreamStored, vars, sendVars
<1> QED
  BY <1>1, <1>2, <1>3, <1>4, <1>5, <1>6, SMTT(30) DEF Next

\* Neither is an assignment that was made of it.
LEMMA MadeKept ==
    ASSUME SenderInv, [Next]_vars, NEW a, NEW d, Made(a, d)
    PROVE  Made(a, d)'
<1>0. a.part \in Nat /\ a.seq \in SeqIds /\ None \notin SeqIds
  <2>1. a \in Assignment
    BY MadeFacts
  <2> QED
    BY <2>1, DataplaneAssumption DEF Assignment, DataplaneAssumption
<1>1. ASSUME NEW w \in Writers, NEW dec \in Decisions, Write(w, dec)
      PROVE  Made(a, d)'
  BY <1>1, WriteMade
<1>2. ASSUME NEW w \in Writers, Enqueue(w) PROVE Made(a, d)'
  <2>1. \A v \in Writers : next'[v] \in Nat /\ next[v] \in Nat /\ next[v] <= next'[v]
    <3>1. next \in [Writers -> Nat \ {0}]
      BY DEF SenderInv, SendTypeOK
    <3>2. next' = [next EXCEPT ![w] = next[w] + 1]
      BY <1>2, Zenon DEF Enqueue
    <3> QED
      BY ONLY <3>1, <3>2
  <2>2. UNCHANGED <<written, writing>>
    BY <1>2 DEF Enqueue
  <2> QED
    BY <1>0, <2>1, <2>2 DEF Made, PartsOf
<1>3. ASSUME NEW d2 \in Dp, NEW w \in Writers, Complete(d2, w) PROVE Made(a, d)'
  <2>1. UNCHANGED <<written, next>> /\ \A v \in Writers : writing'[v] = a.seq => writing[v] = a.seq
    BY <1>0, <1>3 DEF Complete, SenderInv, SendTypeOK
  <2> QED
    BY <2>1 DEF Made, PartsOf
<1>4. ASSUME NEW e \in Dp, Dequeue(e) \/ WriteHeader(e) \/ WriteData(e) \/ WriteFails(e) \/ CountPart(e)
      PROVE  UNCHANGED <<written, writing, next>>
  BY <1>4 DEF Dequeue, WriteHeader, WriteData, WriteFails, CountPart
<1>5. ASSUME NEW e \in Dp, ReadLoop(e) \/ ConnectionLost(e)
      PROVE  UNCHANGED <<written, writing, next>>
  BY <1>5 DEF ReadLoop, ReadHeader, ReadData, ReadFails, Lookup, Deliver, Panic,
              ConnectionLost, sendVars
<1>6. ASSUME NEW s \in Streams, AcceptStream(s) PROVE UNCHANGED <<written, writing, next>>
  BY <1>6 DEF AcceptStream, sendVars
<1>7. StreamStored \/ UNCHANGED vars => UNCHANGED <<written, writing, next>>
  BY DEF StreamStored, vars, sendVars
<1> QED
  BY <1>1, <1>2, <1>3, <1>4, <1>5, <1>6, <1>7, MadeStays DEF Next, WriteLoop

LEMMA PayloadStays ==
    ASSUME SenderInv, [Next]_vars, NEW q \in DOMAIN written
    PROVE  Payload(q)' = Payload(q)
BY WrittenStays DEF Payload

\* Queues and QUIC streams, one element more or less.
LEMMA AppendFacts ==
    ASSUME NEW S, NEW s \in Seq(S), NEW x \in S
    PROVE  /\ Append(s, x) \in Seq(S)
           /\ Len(s) \in Nat /\ Len(Append(s, x)) = Len(s) + 1
           /\ Append(s, x)[Len(s) + 1] = x
           /\ \A k \in 1 .. Len(s) : k \in 1 .. Len(Append(s, x)) /\ Append(s, x)[k] = s[k]
           /\ \A k \in 1 .. Len(Append(s, x)) : k \in 1 .. Len(s) \/ k = Len(s) + 1
OBVIOUS

LEMMA TailFacts ==
    ASSUME NEW S, NEW s \in Seq(S), s # <<>>
    PROVE  /\ Tail(s) \in Seq(S) /\ Head(s) = s[1] /\ Head(s) \in S /\ 1 \in 1 .. Len(s)
           /\ Len(s) \in Nat /\ Len(Tail(s)) = Len(s) - 1
           /\ \A k \in 1 .. Len(Tail(s)) : k + 1 \in 1 .. Len(s) /\ Tail(s)[k] = s[k + 1]
OBVIOUS

-----------------------------------------------------------------------------
(* Steps of the sender, as the receiver sees them. *)

\* A step that leaves the receiver alone leaves its stores and buffers consistent.
LEMMA RecvKept ==
    ASSUME Inv, [Next]_vars, UNCHANGED recvVars
    PROVE  /\ RecvTypeOK' /\ RecvStoreInv' /\ ReadLoopInv' /\ AtMostOnce' /\ WholeSequences'
           /\ \A q, i : Got(q, i)' <=> Got(q, i)
<1>0. UNCHANGED <<rpc, rpart, rdata, recvStore, accepted, storing, readBuffer, panicked>>
  BY DEF recvVars
<1>1. RecvTypeOK'
  BY <1>0 DEF Inv, ReceiverInv, RecvTypeOK
<1>2. RecvStoreInv'
  <2> SUFFICES ASSUME NEW q \in DOMAIN recvStore
               PROVE  /\ q \in DOMAIN written'
                      /\ recvStore[q].stream = written'[q].stream
                      /\ recvStore[q].size = Length(q, PartsOf(q)')
                      /\ recvStore[q].held \subseteq Payload(q)'
    BY <1>0 DEF RecvStoreInv
  <2>1. q \in DOMAIN written
    BY DEF Inv, ReceiverInv, RecvStoreInv
  <2>2. q \in DOMAIN written' /\ written'[q] = written[q] /\ Payload(q)' = Payload(q)
    BY <2>1, WrittenStays, PayloadStays DEF Inv
  <2> QED
    BY <2>2 DEF Inv, ReceiverInv, RecvStoreInv, PartsOf
<1>3. ReadLoopInv'
  <2> SUFFICES ASSUME NEW d \in Dp, rpc[d] \in {"lookup", "append"}
               PROVE  rdata[d] = Payload(rpart[d].seq)'
    BY <1>0 DEF Inv, ReceiverInv, ReadLoopInv
  <2> PICK q : q = rpart[d].seq
    OBVIOUS
  <2>1. rpart[d] # None
    BY DEF Inv, ReceiverInv, RecvTypeOK
  <2>2. q \in DOMAIN written
    BY <2>1 DEF Inv, ReceiverInv, WireInv, Made
  <2>3. rdata[d] = Payload(q) /\ Payload(q)' = Payload(q)
    BY <2>2, PayloadStays DEF Inv, ReceiverInv, ReadLoopInv
  <2> QED
    BY <1>0, <2>3 DEF Payload
<1>4. AtMostOnce'
  BY <1>0 DEF Inv, ReceiverInv, AtMostOnce, Delivered
<1>5. WholeSequences'
  <2> SUFFICES ASSUME NEW s \in Streams, NEW i \in 1 .. Len(readBuffer[s]),
                      NEW q, q = readBuffer[s][i].seq
               PROVE  /\ q \in DOMAIN written'
                      /\ written'[q].stream = s
                      /\ readBuffer[s][i].data = Payload(q)'
    BY <1>0 DEF WholeSequences, Payload
  <2>1. q \in DOMAIN written /\ written[q].stream = s /\ readBuffer[s][i].data = Payload(q)
    BY DEF Inv, ReceiverInv, WholeSequences
  <2> QED
    BY <2>1, WrittenStays, PayloadStays DEF Inv
<1>6. \A q, i : Got(q, i)' <=> Got(q, i)
  BY <1>0 DEF Got, Assembled, Finishing, Delivered
<1> QED
  BY <1>1, <1>2, <1>3, <1>4, <1>5, <1>6

\* Parts only move on: if nothing new is coming and nothing is received, then what
\* is coming has still not been received.
LEMMA NotYetGotKept ==
    ASSUME Inv, [Next]_vars, DOMAIN written' = DOMAIN written,
           \A q \in DOMAIN written : \A i \in 1 .. Len(PartsOf(q)) :
               PartsOf(q)[i].size > 0 /\ Coming(q, i)' => Coming(q, i),
           \A q, i : Got(q, i)' => Got(q, i)
    PROVE  NotYetGot'
<1> SUFFICES ASSUME NEW q \in DOMAIN written, NEW i \in 1 .. Len(PartsOf(q)'),
                    PartsOf(q)'[i].size > 0, Coming(q, i)', Got(q, i)'
             PROVE  FALSE
  BY DEF NotYetGot
<1>1. PartsOf(q)' = PartsOf(q)
  BY WrittenStays DEF PartsOf, Inv
<1>2. Coming(q, i) /\ Got(q, i)
  BY <1>1
<1> QED
  BY <1>1, <1>2 DEF Inv, ReceiverInv, NotYetGot

\* Nothing of a Write that has not been made is anywhere at the receiver.
LEMMA NothingOfTheUnwritten ==
    ASSUME Inv, NEW q, q \notin DOMAIN written, NEW i
    PROVE  ~ Got(q, i)
<1>1. q \notin DOMAIN recvStore
  BY DEF Inv, ReceiverInv, RecvStoreInv
<1>2. ASSUME NEW d \in Dp, Finishing(d), rpart[d].seq = q PROVE FALSE
  <2>1. rpart[d] # None
    BY <1>2 DEF Inv, ReceiverInv, RecvTypeOK, Finishing
  <2> QED
    BY <1>2, <2>1 DEF Inv, ReceiverInv, WireInv, Made
<1>3. ~ Delivered(q)
  BY DEF Inv, ReceiverInv, WholeSequences, Delivered
<1> QED
  BY <1>1, <1>2, <1>3 DEF Got, Assembled

\* The units on the wire keep their place while only the sender's state changes.
LEMMA UnitsKept ==
    ASSUME Inv, [Next]_vars, UNCHANGED <<net, rpc, rpart>>, NEW d \in Dp
    PROVE  /\ \A k \in 1 .. Len(net[d]) : UnitInv(d, k)'
           /\ (rpart[d] # None => Made(rpart[d], d))'
<1>1. ASSUME NEW k \in 1 .. Len(net[d]) PROVE UnitInv(d, k)'
  <2> PICK a : a = net[d][k].a
    OBVIOUS
  <2>1. UnitInv(d, k)
    BY DEF Inv, ReceiverInv, WireInv
  <2>2. Made(a, d)'
    BY <2>1, MadeKept DEF UnitInv, Inv
  <2>3. Made(net[d][k].a, d)'
    BY <2>2 DEF Made, PartsOf
  <2> QED
    BY <2>1, <2>3 DEF UnitInv, Owed, OwedPart, Opens
<1>2. ASSUME rpart[d] # None PROVE Made(rpart[d], d)'
  <2> PICK a : a = rpart[d]
    OBVIOUS
  <2>1. Made(a, d)
    BY <1>2 DEF Inv, ReceiverInv, WireInv
  <2>2. Made(a, d)'
    BY <2>1, MadeKept DEF Inv
  <2> QED
    BY <2>2 DEF Made, PartsOf
<1> QED
  BY <1>1, <1>2

\* What is left to show for a step that touches neither the wire nor the receiver.
LEMMA QuietStep ==
    ASSUME Inv, [Next]_vars, UNCHANGED <<netVars, recvVars>>,
           NotYetGot', DataOnce',
           \A d \in Dp : up[d] =>
               /\ wpc'[d] = "data" /\ wpart'[d].size > 0 <=> wpc[d] = "data" /\ wpart[d].size > 0
               /\ wpc[d] = "data" /\ wpart[d].size > 0 => wpart'[d] = wpart[d]
    PROVE  ReceiverInv'
<1>0. UNCHANGED <<up, net, rpc, rpart>>
  BY DEF netVars, recvVars
<1>1. NetTypeOK'
  BY <1>0 DEF Inv, ReceiverInv, NetTypeOK
<1>2. ASSUME NEW d \in Dp PROVE EndInv(d)'
  <2>1. EndInv(d)
    BY DEF Inv, ReceiverInv, WireInv
  <2> QED
    BY <1>0, <2>1 DEF EndInv, Owed, OwedPart, Opens
<1>3. WireInv'
  BY <1>0, <1>2, UnitsKept DEF WireInv
<1> QED
  BY <1>1, <1>3, RecvKept DEF ReceiverInv

\* A writeLoop that takes a part from its queue, or gives one up, sends nothing new.
LEMMA HandledByWriteLoop ==
    ASSUME Inv, [Next]_vars, UNCHANGED <<written, next, netVars, recvVars>>,
           \A w \in Writers : writing'[w] \in SeqIds => writing'[w] = writing[w],
           \A d \in Dp : \A l \in 1 .. Len(queue'[d]) :
               \E m \in 1 .. Len(queue[d]) : queue'[d][l] = queue[d][m],
           \A d \in Dp : wpc'[d] \in {"header", "data"} =>
               \/ wpc[d] \in {"header", "data"} /\ wpart'[d] = wpart[d]
               \/ \E m \in 1 .. Len(queue[d]) : wpart'[d] = queue[d][m],
           \A d \in Dp : up[d] =>
               /\ wpc'[d] = "data" /\ wpart'[d].size > 0 <=> wpc[d] = "data" /\ wpart[d].size > 0
               /\ wpc[d] = "data" /\ wpart[d].size > 0 => wpart'[d] = wpart[d]
    PROVE  ReceiverInv'
<1>0. UNCHANGED <<up, net, rpc, rpart>>
  BY DEF netVars, recvVars
<1>1. ASSUME NEW q \in DOMAIN written, NEW i, Coming(q, i)' PROVE Coming(q, i)
  <2>1. q \in SeqIds
    BY DEF Inv, SenderInv, SendTypeOK
  <2>2. CASE \E w \in Writers : writing'[w] = q /\ next'[w] <= i
    BY <2>1, <2>2 DEF Coming
  <2>3. CASE \E d \in Dp : \E k \in 1 .. Len(queue'[d]) :
                queue'[d][k].seq = q /\ queue'[d][k].part = i
    <3>0. PICK d \in Dp : \E k \in 1 .. Len(queue'[d]) :
              queue'[d][k].seq = q /\ queue'[d][k].part = i
      BY <2>3
    <3>1. PICK k \in 1 .. Len(queue'[d]) : queue'[d][k].seq = q /\ queue'[d][k].part = i
      BY <3>0
    <3>2. PICK m \in 1 .. Len(queue[d]) : queue'[d][k] = queue[d][m]
      OBVIOUS
    <3> QED
      BY <3>1, <3>2 DEF Coming
  <2>4. CASE \E d \in Dp : wpc'[d] \in {"header", "data"} /\ wpart'[d].seq = q /\ wpart'[d].part = i
    <3>1. PICK d \in Dp : wpc'[d] \in {"header", "data"} /\ wpart'[d].seq = q /\ wpart'[d].part = i
      BY <2>4
    <3>2. CASE wpc[d] \in {"header", "data"} /\ wpart'[d] = wpart[d]
      BY <3>1, <3>2 DEF Coming
    <3>3. CASE \E m \in 1 .. Len(queue[d]) : wpart'[d] = queue[d][m]
      BY <3>1, <3>3 DEF Coming
    <3> QED
      BY <3>1, <3>2, <3>3
  <2> QED
    BY <1>0, <1>1, <2>2, <2>3, <2>4 DEF Coming
<1>2. ASSUME NEW d \in Dp, NEW k \in 1 .. Len(net[d]) PROVE DataOnceAt(d, k)'
  <2>1. DataOnceAt(d, k)
    BY DEF Inv, ReceiverInv, DataOnce
  <2> SUFFICES ASSUME net[d][k].kind = "data"
               PROVE  /\ \A l \in 1 .. Len(queue'[d]) : ~ Same(net[d][k].a, queue'[d][l])
                      /\ wpc'[d] \in {"header", "data"} => ~ Same(net[d][k].a, wpart'[d])
    BY <1>0, <2>1 DEF DataOnceAt, Same
  <2>2. ASSUME NEW l \in 1 .. Len(queue'[d]) PROVE ~ Same(net[d][k].a, queue'[d][l])
    <3>1. PICK m \in 1 .. Len(queue[d]) : queue'[d][l] = queue[d][m]
      OBVIOUS
    <3> QED
      BY <2>1, <3>1 DEF DataOnceAt
  <2>3. ASSUME wpc'[d] \in {"header", "data"} PROVE ~ Same(net[d][k].a, wpart'[d])
    <3>1. CASE wpc[d] \in {"header", "data"} /\ wpart'[d] = wpart[d]
      BY <2>1, <3>1 DEF DataOnceAt
    <3>2. CASE \E m \in 1 .. Len(queue[d]) : wpart'[d] = queue[d][m]
      BY <2>1, <3>2 DEF DataOnceAt
    <3> QED
      BY <2>3, <3>1, <3>2
  <2> QED
    BY <2>2, <2>3
<1>3. DataOnce'
  BY <1>0, <1>2 DEF DataOnce
<1>4. NotYetGot'
  BY <1>1, NotYetGotKept, RecvKept
<1> QED
  BY <1>3, <1>4, QuietStep

LEMMA DequeueReceiver ==
    ASSUME Inv, [Next]_vars, NEW d \in Dp, Dequeue(d)
    PROVE  ReceiverInv'
<1>1. /\ queue[d] # <<>> /\ wpc[d] = "get"
      /\ wpart' = [wpart EXCEPT ![d] = Head(queue[d])]
      /\ queue' = [queue EXCEPT ![d] = Tail(queue[d])]
      /\ wpc' = [wpc EXCEPT ![d] = "header"]
      /\ UNCHANGED <<written, writing, next, netVars, recvVars>>
  BY DEF Dequeue
<1>2. /\ queue \in [Dp -> Seq(Assignment)] /\ wpart \in [Dp -> Assignment \cup {None}]
      /\ wpc \in [Dp -> {"get", "header", "data", "count", "signal"}]
  BY DEF Inv, SenderInv, SendTypeOK
<1>3. ASSUME NEW e \in Dp, NEW l \in 1 .. Len(queue'[e])
      PROVE  \E m \in 1 .. Len(queue[e]) : queue'[e][l] = queue[e][m]
  <2>1. CASE e = d
    <3>1. queue[d] \in Seq(Assignment) /\ queue'[e] = Tail(queue[d])
      BY <1>1, <1>2, <2>1
    <3>2. l + 1 \in 1 .. Len(queue[d]) /\ Tail(queue[d])[l] = queue[d][l + 1]
      BY <1>1, <3>1, TailFacts
    <3> QED
      BY <2>1, <3>1, <3>2
  <2>2. CASE e # d
    BY <1>1, <1>2, <2>2
  <2> QED
    BY <2>1, <2>2
<1>4. wpart'[d] = queue[d][1] /\ 1 \in 1 .. Len(queue[d])
  BY <1>1, <1>2
<1>5. \A e \in Dp : e # d => wpart'[e] = wpart[e] /\ wpc'[e] = wpc[e]
  BY <1>1, <1>2
<1>6. wpc'[d] = "header"
  BY <1>1, <1>2
<1> QED
  BY <1>1, <1>3, <1>4, <1>5, <1>6, HandledByWriteLoop

LEMMA WriteFailsReceiver ==
    ASSUME Inv, [Next]_vars, NEW d \in Dp, WriteFails(d)
    PROVE  ReceiverInv'
<1>1. /\ wpc' = [wpc EXCEPT ![d] = "get"]
      /\ wpart' = [wpart EXCEPT ![d] = None]
      /\ UNCHANGED <<written, writing, next, queue, netVars, recvVars>>
      /\ up[d] => wpart[d].size = 0
      /\ wpc \in [Dp -> {"get", "header", "data", "count", "signal"}]
      /\ wpart \in [Dp -> Assignment \cup {None}]
  BY DEF WriteFails, Inv, SenderInv, SendTypeOK
<1>2. wpc'[d] = "get" /\ \A e \in Dp : e # d => wpart'[e] = wpart[e] /\ wpc'[e] = wpc[e]
  BY <1>1
<1> QED
  BY <1>1, <1>2, HandledByWriteLoop

LEMMA CountPartReceiver ==
    ASSUME Inv, [Next]_vars, NEW d \in Dp, CountPart(d)
    PROVE  ReceiverInv'
<1>1. /\ wpc[d] = "count"
      /\ wpc' = [wpc EXCEPT ![d] = "get"] \/ wpc' = [wpc EXCEPT ![d] = "signal"]
      /\ wpart' = [wpart EXCEPT ![d] = None] \/ wpart' = wpart
      /\ UNCHANGED <<written, writing, next, queue, netVars, recvVars>>
      /\ wpc \in [Dp -> {"get", "header", "data", "count", "signal"}]
      /\ wpart \in [Dp -> Assignment \cup {None}]
  BY DEF CountPart, Inv, SenderInv, SendTypeOK
<1>2. wpc'[d] \in {"get", "signal"} /\ \A e \in Dp : e # d => wpart'[e] = wpart[e] /\ wpc'[e] = wpc[e]
  BY <1>1
<1> QED
  BY <1>1, <1>2, HandledByWriteLoop

LEMMA CompleteReceiver ==
    ASSUME Inv, [Next]_vars, NEW d \in Dp, NEW w \in Writers, Complete(d, w)
    PROVE  ReceiverInv'
<1>1. /\ wpc[d] = "signal"
      /\ wpc' = [wpc EXCEPT ![d] = "get"]
      /\ wpart' = [wpart EXCEPT ![d] = None]
      /\ writing' = [writing EXCEPT ![w] = None]
      /\ UNCHANGED <<written, next, queue, netVars, recvVars>>
      /\ wpc \in [Dp -> {"get", "header", "data", "count", "signal"}]
      /\ wpart \in [Dp -> Assignment \cup {None}]
      /\ writing \in [Writers -> SeqIds \cup {None}]
      /\ None \notin SeqIds
  BY DataplaneAssumption DEF Complete, Inv, SenderInv, SendTypeOK, DataplaneAssumption
<1>2. wpc'[d] = "get" /\ \A e \in Dp : e # d => wpart'[e] = wpart[e] /\ wpc'[e] = wpc[e]
  BY <1>1
<1>3. \A v \in Writers : writing'[v] \in SeqIds => writing'[v] = writing[v]
  BY <1>1
<1> QED
  BY <1>1, <1>2, <1>3, HandledByWriteLoop

LEMMA WriteReceiver ==
    ASSUME Inv, [Next]_vars, NEW w \in Writers, NEW dec \in Decisions, Write(w, dec)
    PROVE  ReceiverInv'
<1>1. PICK p \in SeqIds \ DOMAIN written :
        /\ DOMAIN written' = DOMAIN written \cup {p}
        /\ writing' = [writing EXCEPT ![w] = p]
        /\ next' = [next EXCEPT ![w] = 1]
  BY DEF Write, Put
<1>2. UNCHANGED <<queue, wpc, wpart, netVars, recvVars>>
  BY DEF Write
<1>3. UNCHANGED <<up, net, rpc, rpart>>
  BY <1>2 DEF netVars, recvVars
<1>4. NotYetGot'
  <2> SUFFICES ASSUME NEW q \in DOMAIN written', NEW i \in 1 .. Len(PartsOf(q)'),
                      PartsOf(q)'[i].size > 0, Coming(q, i)', Got(q, i)'
               PROVE  FALSE
    BY DEF NotYetGot
  <2>1. Got(q, i)
    BY <1>2, RecvKept
  <2>2. q # p
    BY <2>1, NothingOfTheUnwritten
  <2>3. q \in DOMAIN written /\ PartsOf(q)' = PartsOf(q)
    BY <1>1, <2>2, WrittenStays DEF PartsOf, Inv
  <2>4. ASSUME NEW v \in Writers, writing'[v] = q
        PROVE  writing[v] = q /\ next'[v] = next[v]
    BY <1>1, <2>2, <2>4 DEF Inv, SenderInv, SendTypeOK
  <2>5. Coming(q, i)
    BY <1>2, <1>3, <2>4 DEF Coming
  <2> QED
    BY <2>1, <2>3, <2>5 DEF Inv, ReceiverInv, NotYetGot
<1>5. DataOnce'
  BY <1>2, <1>3, SMTT(30) DEF Inv, ReceiverInv, DataOnce, DataOnceAt, Same
<1> QED
  BY <1>2, <1>4, <1>5, QuietStep

LEMMA EnqueueReceiver ==
    ASSUME Inv, [Next]_vars, NEW w \in Writers, Enqueue(w)
    PROVE  ReceiverInv'
<1> PICK p, i0, d0, b :
        /\ p = writing[w] /\ i0 = next[w] /\ d0 = PartsOf(p)[i0].dp
        /\ b = PartOf(p, StreamOf[w], PartsOf(p), i0)
  OBVIOUS
<1>1. /\ p # None /\ i0 <= Len(PartsOf(p))
      /\ queue' = [queue EXCEPT ![d0] = Append(queue[d0], b)]
      /\ next' = [next EXCEPT ![w] = i0 + 1]
      /\ UNCHANGED <<written, writing, wpc, wpart, netVars, recvVars>>
  BY Zenon DEF Enqueue, PartsOf
<1>2. /\ queue \in [Dp -> Seq(Assignment)] /\ p \in SeqIds /\ p \in DOMAIN written
      /\ next \in [Writers -> Nat \ {0}] /\ PartsOf(p) \in Decisions /\ StreamOf[w] \in Streams
  BY <1>1, DataplaneAssumption DEF Inv, SenderInv, SendTypeOK, PartsOf, DataplaneAssumption
<1>3. i0 \in 1 .. Len(PartsOf(p)) /\ i0 \in Nat
  BY <1>1, <1>2, DecisionFacts
<1>4. d0 \in Dp /\ b \in Assignment /\ b.seq = p /\ b.part = i0
  BY <1>2, <1>3, DecisionFacts, PartOfType DEF PartOf
<1>5. UNCHANGED <<up, net, rpc, rpart>>
  BY <1>1 DEF netVars, recvVars
<1>6. ASSUME NEW d \in Dp, NEW l \in 1 .. Len(queue'[d])
      PROVE  \/ l \in 1 .. Len(queue[d]) /\ queue'[d][l] = queue[d][l]
             \/ queue'[d][l] = b
  <2>1. CASE d = d0
    <3>1. queue[d] \in Seq(Assignment) /\ queue'[d] = Append(queue[d], b)
      BY <1>1, <1>2, <1>4, <2>1, SMTT(30)
    <3> QED
      BY <1>4, <3>1, AppendFacts
  <2>2. CASE d # d0
    BY <1>1, <1>2, <2>2
  <2> QED
    BY <2>1, <2>2
<1>7. ASSUME NEW q \in DOMAIN written, NEW i \in Nat, Coming(q, i)' PROVE Coming(q, i)
  <2>1. CASE \E v \in Writers : writing'[v] = q /\ next'[v] <= i
    <3>1. PICK v \in Writers : writing'[v] = q /\ next'[v] <= i
      BY <2>1
    <3>2. writing[v] = q /\ next[v] <= i
      BY <1>1, <1>2, <1>3, <3>1
    <3> QED
      BY <3>2 DEF Coming
  <2>2. CASE \E d \in Dp : \E k \in 1 .. Len(queue'[d]) :
                queue'[d][k].seq = q /\ queue'[d][k].part = i
    <3>1. PICK d \in Dp : \E k \in 1 .. Len(queue'[d]) :
              queue'[d][k].seq = q /\ queue'[d][k].part = i
      BY <2>2
    <3>2. PICK k \in 1 .. Len(queue'[d]) : queue'[d][k].seq = q /\ queue'[d][k].part = i
      BY <3>1
    <3>3. CASE queue'[d][k] = b
      <4>1. writing[w] = q /\ next[w] <= i
        BY <1>3, <1>4, <3>2, <3>3
      <4> QED
        BY <4>1 DEF Coming
    <3>4. CASE k \in 1 .. Len(queue[d]) /\ queue'[d][k] = queue[d][k]
      BY <3>2, <3>4 DEF Coming
    <3> QED
      BY <1>6, <3>3, <3>4
  <2> QED
    BY <1>1, <1>5, <1>7, <2>1, <2>2 DEF Coming
<1>8. NotYetGot'
  <2>1. \A q \in DOMAIN written : \A i \in 1 .. Len(PartsOf(q)) : i \in Nat
    BY DecisionFacts DEF Inv, SenderInv, SendTypeOK, PartsOf
  <2>2. DOMAIN written' = DOMAIN written
    BY <1>1
  <2> QED
    BY <1>1, <1>7, <2>1, <2>2, NotYetGotKept, RecvKept
<1>9. ASSUME NEW d \in Dp, NEW k \in 1 .. Len(net[d]) PROVE DataOnceAt(d, k)'
  <2>1. DataOnceAt(d, k) /\ Made(net[d][k].a, d)
    BY DEF Inv, ReceiverInv, DataOnce, WireInv, UnitInv
  <2>2. ~ Same(net[d][k].a, b)
    BY <1>2, <1>3, <1>4, <2>1, SMTT(30) DEF Made, Same
  <2> SUFFICES ASSUME net[d][k].kind = "data", NEW l \in 1 .. Len(queue'[d])
               PROVE  ~ Same(net[d][k].a, queue'[d][l])
    BY <1>1, <1>5, <2>1 DEF DataOnceAt, Same
  <2> QED
    BY <1>6, <2>1, <2>2 DEF DataOnceAt
<1>10. DataOnce'
  BY <1>5, <1>9 DEF DataOnce
<1> QED
  BY <1>1, <1>8, <1>10, QuietStep

\* The wire of d is one unit longer and still in order.
Appended(d, u) ==
    /\ net' \in [Dp -> Seq(Unit)]
    /\ Len(net[d]) \in Nat
    /\ Len(net'[d]) = Len(net[d]) + 1 /\ net'[d][Len(net[d]) + 1] = u
    /\ \A e \in Dp \ {d} : net'[e] = net[e]
    /\ \A k \in 1 .. Len(net[d]) : net'[d][k] = net[d][k]
    /\ \A e \in Dp : \A k \in 1 .. Len(net'[e]) :
          k \in 1 .. Len(net[e]) \/ (e = d /\ k = Len(net[d]) + 1)
    /\ \A e \in Dp : \A k \in 1 .. Len(net'[e]) : UnitInv(e, k)'
    /\ \A e \in Dp : (rpart[e] # None => Made(rpart[e], e))'

\* writeLoop puts a unit of the part it holds behind the others.
LEMMA UnitAppended ==
    ASSUME Inv, [Next]_vars, NEW d \in Dp, NEW u \in Unit,
           wpc[d] # "get", u.a = wpart[d],
           net' = [net EXCEPT ![d] = Append(net[d], u)], UNCHANGED <<rpc, rpart>>,
           u.kind = "data" <=> Owed(d, Len(net[d]) + 1),
           u.kind = "data" => u.a = OwedPart(d, Len(net[d]) + 1)
    PROVE  Appended(d, u)
<1>1. net \in [Dp -> Seq(Unit)]
  BY DEF Inv, ReceiverInv, NetTypeOK
<1>2. net[d] \in Seq(Unit)
  BY <1>1
<1>3. net'[d] = Append(net[d], u) /\ \A e \in Dp \ {d} : net'[e] = net[e]
  BY <1>1
<1>4. /\ Len(net[d]) \in Nat /\ net'[d] \in Seq(Unit)
      /\ Len(net'[d]) = Len(net[d]) + 1 /\ net'[d][Len(net[d]) + 1] = u
      /\ \A k \in 1 .. Len(net[d]) : net'[d][k] = net[d][k]
      /\ \A k \in 1 .. Len(net'[d]) : k \in 1 .. Len(net[d]) \/ k = Len(net[d]) + 1
  BY <1>2, <1>3, AppendFacts
<1>5. net' \in [Dp -> Seq(Unit)]
  BY <1>1, <1>4
<1>6. \A e \in Dp : \A k \in 1 .. Len(net'[e]) :
                 k \in 1 .. Len(net[e]) \/ (e = d /\ k = Len(net[d]) + 1)
  <2> SUFFICES ASSUME NEW e \in Dp, NEW k \in 1 .. Len(net'[e])
               PROVE  k \in 1 .. Len(net[e]) \/ (e = d /\ k = Len(net[d]) + 1)
    OBVIOUS
  <2>1. ASSUME e = d PROVE k \in 1 .. Len(net[e]) \/ k = Len(net[d]) + 1
    BY <1>4, <2>1
  <2>2. ASSUME e # d PROVE k \in 1 .. Len(net[e])
    BY <1>3, <2>2
  <2> QED
    BY <2>1, <2>2
<1>7. ASSUME NEW e \in Dp, NEW k \in 1 .. Len(net[e]) PROVE UnitInv(e, k)'
  <2> PICK a : a = net'[e][k].a
    OBVIOUS
  <2>1. UnitInv(e, k)
    BY DEF Inv, ReceiverInv, WireInv
  <2>2. net'[e][k] = net[e][k] /\ (k # 1 => net'[e][k - 1] = net[e][k - 1])
    <3>1. k \in Nat /\ Len(net[e]) \in Nat
      BY <1>1
    <3> QED
      BY <1>3, <1>4, <3>1
  <2>3. Made(a, e)'
    BY <2>1, <2>2, MadeKept, SMTT(30) DEF UnitInv, Inv
  <2>4. Made(net[e][k].a, e)'
    BY <2>3 DEF Made, PartsOf
  <2> QED
    BY <2>1, <2>2, <2>4 DEF UnitInv, Owed, OwedPart, Opens
<1>8. ASSUME NEW n, n = Len(net[d]) + 1 PROVE UnitInv(d, n)'
  <2> PICK a : a = wpart[d]
    OBVIOUS
  <2>1. Made(a, d)'
    BY MadeKept DEF Inv, SenderInv, WriteLoopInv
  <2>2. net'[d][n] = u /\ (n # 1 => net'[d][n - 1] = net[d][n - 1])
    BY <1>4, <1>8, SMTT(30)
  <2>3. Made(net[d][n].a, d)'
    BY <2>1, <2>2 DEF Made, PartsOf
  <2> QED
    BY <1>8, <2>2, <2>3 DEF UnitInv, Owed, OwedPart, Opens
<1>9. ASSUME NEW e \in Dp, rpart[e] # None PROVE Made(rpart[e], e)'
  <2> PICK a : a = rpart[e]
    OBVIOUS
  <2>1. Made(a, e)'
    BY <1>9, MadeKept DEF Inv, ReceiverInv, WireInv
  <2> QED
    BY <2>1 DEF Made, PartsOf
<1>10. ASSUME NEW e \in Dp, NEW k \in 1 .. Len(net'[e]) PROVE UnitInv(e, k)'
  <2>1. CASE k \in 1 .. Len(net[e])
    BY <1>7, <2>1
  <2>2. CASE e = d /\ k = Len(net[d]) + 1
    <3>1. UnitInv(d, k)'
      BY <1>8, <2>2
    <3> QED
      BY <2>2, <3>1
  <2> QED
    BY <1>6, <2>1, <2>2
<1> QED
  BY <1>3, <1>4, <1>5, <1>6, <1>9, <1>10 DEF Appended

LEMMA WriteHeaderReceiver ==
    ASSUME Inv, [Next]_vars, NEW d \in Dp, WriteHeader(d)
    PROVE  ReceiverInv'
<1> PICK u : u = [kind |-> "header", a |-> wpart[d]]
  OBVIOUS
<1>1. /\ wpc[d] = "header" /\ up[d]
      /\ net' = [net EXCEPT ![d] = Append(net[d], u)]
      /\ wpc' = [wpc EXCEPT ![d] = "data"]
      /\ UNCHANGED <<written, writing, next, queue, wpart, up, recvVars>>
  BY DEF WriteHeader
<1>2. /\ wpc \in [Dp -> {"get", "header", "data", "count", "signal"}]
      /\ wpart[d] \in Assignment
  BY <1>1 DEF Inv, SenderInv, SendTypeOK
<1>3. u \in Unit /\ u.kind = "header" /\ u.a = wpart[d]
  BY <1>2 DEF Unit
<1>4. UNCHANGED <<rpc, rpart>>
  BY <1>1 DEF recvVars
<1>5. wpc'[d] = "data" /\ \A e \in Dp : e # d => wpc'[e] = wpc[e]
  BY <1>1, <1>2
<1>6. EndInv(d)
  BY DEF Inv, ReceiverInv, WireInv
<1>7. ~ Owed(d, Len(net[d]) + 1)
  BY <1>1, <1>6 DEF EndInv
<1>u. /\ u.kind = "data" <=> Owed(d, Len(net[d]) + 1)
      /\ u.kind = "data" => u.a = OwedPart(d, Len(net[d]) + 1)
      /\ wpc[d] # "get" /\ u.a = wpart[d] /\ u \in Unit
      /\ net' = [net EXCEPT ![d] = Append(net[d], u)]
  BY <1>1, <1>3, <1>7
<1>v. Appended(d, u)
  BY <1>4, <1>u, UnitAppended
<1>8. /\ net' \in [Dp -> Seq(Unit)]
      /\ Len(net[d]) \in Nat
      /\ Len(net'[d]) = Len(net[d]) + 1 /\ net'[d][Len(net[d]) + 1] = u
      /\ \A e \in Dp \ {d} : net'[e] = net[e]
      /\ \A k \in 1 .. Len(net[d]) : net'[d][k] = net[d][k]
      /\ \A e \in Dp : \A k \in 1 .. Len(net'[e]) :
            k \in 1 .. Len(net[e]) \/ (e = d /\ k = Len(net[d]) + 1)
      /\ \A e \in Dp : \A k \in 1 .. Len(net'[e]) : UnitInv(e, k)'
      /\ \A e \in Dp : (rpart[e] # None => Made(rpart[e], e))'
  BY <1>v DEF Appended
<1>9. NetTypeOK'
  BY <1>1, <1>8 DEF Inv, ReceiverInv, NetTypeOK
<1>10. ASSUME NEW e \in Dp, NEW k \in 1 .. Len(net'[e]), net'[e][k].kind = "data"
       PROVE  k \in 1 .. Len(net[e]) /\ net'[e][k] = net[e][k]
  <2>1. CASE k \in 1 .. Len(net[e])
    BY <1>8, <2>1
  <2>2. CASE e = d /\ k = Len(net[d]) + 1
    BY <1>3, <1>8, <1>10, <2>2
  <2> QED
    BY <1>8, <2>1, <2>2
<1>11. ASSUME NEW e \in Dp PROVE EndInv(e)'
  <2>1. CASE e = d
    <3>1. Len(net'[d]) + 1 # 1 /\ Len(net'[d]) + 1 - 1 = Len(net[d]) + 1
      BY <1>8
    <3> QED
      BY <1>1, <1>3, <1>5, <1>8, <2>1, <3>1 DEF EndInv, Owed, OwedPart, Opens
  <2>2. CASE e # d
    <3>1. EndInv(e)
      BY DEF Inv, ReceiverInv, WireInv
    <3>2. net'[e] = net[e] /\ wpc'[e] = wpc[e] /\ UNCHANGED <<up, wpart, rpc, rpart>>
      BY <1>1, <1>4, <1>5, <1>8, <2>2
    <3> QED
      BY <3>1, <3>2 DEF EndInv, Owed, OwedPart, Opens
  <2> QED
    BY <2>1, <2>2
<1>12. WireInv'
  BY <1>8, <1>11 DEF WireInv
<1>13. ASSUME NEW e \in Dp, NEW k \in 1 .. Len(net'[e]) PROVE DataOnceAt(e, k)'
  <2> SUFFICES ASSUME net'[e][k].kind = "data" PROVE DataOnceAt(e, k)'
    BY DEF DataOnceAt
  <2>1. k \in 1 .. Len(net[e]) /\ net'[e][k] = net[e][k]
    BY <1>10
  <2>2. DataOnceAt(e, k)
    BY <2>1 DEF Inv, ReceiverInv, DataOnce
  <2>3. wpc'[e] \in {"header", "data"} => wpc[e] \in {"header", "data"}
    BY <1>1, <1>5
  <2>4. \A l \in 1 .. Len(net'[e]) : net'[e][l].kind = "data" =>
           l \in 1 .. Len(net[e]) /\ net'[e][l] = net[e][l]
    BY <1>10
  <2> QED
    BY <1>1, <2>1, <2>2, <2>3, <2>4 DEF DataOnceAt, Same
<1>14. DataOnce'
  BY <1>13, SMTT(30) DEF DataOnce
<1>15. ASSUME NEW q, NEW i, Coming(q, i)' PROVE Coming(q, i)
  <2>1. CASE \E e \in Dp : wpc'[e] \in {"header", "data"} /\ wpart'[e].seq = q /\ wpart'[e].part = i
    BY <1>1, <1>5, <2>1 DEF Coming
  <2>2. CASE \E e \in Dp : \E k \in 1 .. Len(net'[e]) :
               net'[e][k].kind = "data" /\ net'[e][k].a.seq = q /\ net'[e][k].a.part = i
    <3>1. PICK e \in Dp : \E k \in 1 .. Len(net'[e]) :
               net'[e][k].kind = "data" /\ net'[e][k].a.seq = q /\ net'[e][k].a.part = i
      BY <2>2
    <3>2. PICK k \in 1 .. Len(net'[e]) :
               net'[e][k].kind = "data" /\ net'[e][k].a.seq = q /\ net'[e][k].a.part = i
      BY <3>1
    <3> QED
      BY <1>10, <3>2 DEF Coming
  <2> QED
    BY <1>1, <1>4, <1>15, <2>1, <2>2 DEF Coming
<1>16. NotYetGot'
  BY <1>1, <1>15, NotYetGotKept, RecvKept
<1> QED
  BY <1>1, <1>9, <1>12, <1>14, <1>16, RecvKept DEF ReceiverInv

LEMMA WriteDataReceiver ==
    ASSUME Inv, [Next]_vars, NEW d \in Dp, WriteData(d)
    PROVE  ReceiverInv'
<1> PICK u : u = [kind |-> "data", a |-> wpart[d]]
  OBVIOUS
<1>1. /\ wpc[d] = "data" /\ up[d] /\ wpart[d].size > 0
      /\ net' = [net EXCEPT ![d] = Append(net[d], u)]
      /\ wpc' = [wpc EXCEPT ![d] = "count"]
      /\ UNCHANGED <<written, writing, next, queue, wpart, up, recvVars>>
  BY DEF WriteData
<1>2. /\ wpc \in [Dp -> {"get", "header", "data", "count", "signal"}]
      /\ wpart[d] \in Assignment
  BY <1>1 DEF Inv, SenderInv, SendTypeOK
<1>3. u \in Unit /\ u.kind = "data" /\ u.a = wpart[d]
  BY <1>2 DEF Unit
<1>4. UNCHANGED <<rpc, rpart>>
  BY <1>1 DEF recvVars
<1>5. wpc'[d] = "count" /\ \A e \in Dp : e # d => wpc'[e] = wpc[e]
  BY <1>1, <1>2
<1>6. EndInv(d)
  BY DEF Inv, ReceiverInv, WireInv
<1>7. Owed(d, Len(net[d]) + 1) /\ wpart[d] = OwedPart(d, Len(net[d]) + 1)
  BY <1>1, <1>6 DEF EndInv
<1>u. /\ u.kind = "data" <=> Owed(d, Len(net[d]) + 1)
      /\ u.kind = "data" => u.a = OwedPart(d, Len(net[d]) + 1)
      /\ wpc[d] # "get" /\ u.a = wpart[d] /\ u \in Unit
      /\ net' = [net EXCEPT ![d] = Append(net[d], u)]
  BY <1>1, <1>3, <1>7
<1>v. Appended(d, u)
  BY <1>4, <1>u, UnitAppended
<1>8. /\ net' \in [Dp -> Seq(Unit)]
      /\ Len(net[d]) \in Nat
      /\ Len(net'[d]) = Len(net[d]) + 1 /\ net'[d][Len(net[d]) + 1] = u
      /\ \A e \in Dp \ {d} : net'[e] = net[e]
      /\ \A k \in 1 .. Len(net[d]) : net'[d][k] = net[d][k]
      /\ \A e \in Dp : \A k \in 1 .. Len(net'[e]) :
            k \in 1 .. Len(net[e]) \/ (e = d /\ k = Len(net[d]) + 1)
      /\ \A e \in Dp : \A k \in 1 .. Len(net'[e]) : UnitInv(e, k)'
      /\ \A e \in Dp : (rpart[e] # None => Made(rpart[e], e))'
  BY <1>v DEF Appended
<1>9. NetTypeOK'
  BY <1>1, <1>8 DEF Inv, ReceiverInv, NetTypeOK
<1>10. ASSUME NEW e \in Dp, NEW k \in 1 .. Len(net'[e])
       PROVE  \/ k \in 1 .. Len(net[e]) /\ net'[e][k] = net[e][k]
              \/ e = d /\ k = Len(net[d]) + 1 /\ net'[e][k] = u
  <2>1. CASE k \in 1 .. Len(net[e])
    BY <1>8, <2>1
  <2>2. CASE e = d /\ k = Len(net[d]) + 1
    BY <1>8, <2>2
  <2> QED
    BY <1>8, <2>1, <2>2
<1>11. ASSUME NEW e \in Dp PROVE EndInv(e)'
  <2>1. CASE e = d
    <3>1. Len(net'[d]) + 1 # 1 /\ Len(net'[d]) + 1 - 1 = Len(net[d]) + 1
      BY <1>8
    <3> QED
      BY <1>1, <1>3, <1>5, <1>8, <2>1, <3>1 DEF EndInv, Owed, OwedPart, Opens
  <2>2. CASE e # d
    <3>1. EndInv(e)
      BY DEF Inv, ReceiverInv, WireInv
    <3>2. net'[e] = net[e] /\ wpc'[e] = wpc[e] /\ UNCHANGED <<up, wpart, rpc, rpart>>
      BY <1>1, <1>4, <1>5, <1>8, <2>2
    <3> QED
      BY <3>1, <3>2 DEF EndInv, Owed, OwedPart, Opens
  <2> QED
    BY <2>1, <2>2
<1>12. WireInv'
  BY <1>8, <1>11 DEF WireInv
<1>13. ASSUME NEW e \in Dp, NEW k \in 1 .. Len(net'[e]) PROVE DataOnceAt(e, k)'
  <2>1. CASE k \in 1 .. Len(net[e]) /\ net'[e][k] = net[e][k]
    <3>1. DataOnceAt(e, k)
      BY <2>1 DEF Inv, ReceiverInv, DataOnce
    <3>2. wpc'[e] \in {"header", "data"} => wpc[e] \in {"header", "data"}
      BY <1>1, <1>5
    <3>3. ASSUME NEW l \in 1 .. Len(net'[e]), net'[e][k].kind = "data",
                 net'[e][l].kind = "data", Same(net'[e][k].a, net'[e][l].a)
          PROVE  k = l
      <4>1. CASE l \in 1 .. Len(net[e]) /\ net'[e][l] = net[e][l]
        BY <2>1, <3>1, <3>3, <4>1 DEF DataOnceAt
      <4>2. CASE e = d /\ l = Len(net[d]) + 1 /\ net'[e][l] = u
        BY <1>1, <1>3, <2>1, <3>1, <3>3, <4>2 DEF DataOnceAt
      <4> QED
        BY <1>10, <4>1, <4>2
    <3> QED
      BY <1>1, <2>1, <3>1, <3>2, <3>3 DEF DataOnceAt, Same
  <2>2. CASE e = d /\ k = Len(net[d]) + 1 /\ net'[e][k] = u
    <3>1. ASSUME NEW l \in 1 .. Len(net'[d]), net'[d][l].kind = "data", Same(u.a, net'[d][l].a)
          PROVE  k = l
      <4>1. CASE l \in 1 .. Len(net[d]) /\ net'[d][l] = net[d][l]
        <5>1. DataOnceAt(d, l)
          BY <4>1 DEF Inv, ReceiverInv, DataOnce
        <5> QED
          BY <1>1, <1>3, <3>1, <4>1, <5>1 DEF DataOnceAt, Same
      <4>2. CASE l = Len(net[d]) + 1 /\ net'[d][l] = u
        BY <2>2, <4>2
      <4> QED
        BY <1>10, <4>1, <4>2
    <3>2. ASSUME NEW l \in 1 .. Len(queue[d]) PROVE ~ Same(u.a, queue[d][l])
      <4>1. QueuedInv(d, l)
        BY SMTT(30) DEF Inv, SenderInv, QueueInv
      <4> QED
        BY <1>1, <1>3, <4>1 DEF QueuedInv, Same
    <3> QED
      BY <1>1, <1>5, <2>2, <3>1, <3>2 DEF DataOnceAt, Same
  <2> QED
    BY <1>10, <2>1, <2>2
<1>14. DataOnce'
  BY <1>13, SMTT(30) DEF DataOnce
<1>15. ASSUME NEW q, NEW i, Coming(q, i)' PROVE Coming(q, i)
  <2>1. CASE \E e \in Dp : wpc'[e] \in {"header", "data"} /\ wpart'[e].seq = q /\ wpart'[e].part = i
    BY <1>1, <1>5, <2>1 DEF Coming
  <2>2. CASE \E e \in Dp : \E k \in 1 .. Len(net'[e]) :
               net'[e][k].kind = "data" /\ net'[e][k].a.seq = q /\ net'[e][k].a.part = i
    <3>1. PICK e \in Dp : \E k \in 1 .. Len(net'[e]) :
               net'[e][k].kind = "data" /\ net'[e][k].a.seq = q /\ net'[e][k].a.part = i
      BY <2>2
    <3>2. PICK k \in 1 .. Len(net'[e]) :
               net'[e][k].kind = "data" /\ net'[e][k].a.seq = q /\ net'[e][k].a.part = i
      BY <3>1
    <3>3. CASE k \in 1 .. Len(net[e]) /\ net'[e][k] = net[e][k]
      BY <3>2, <3>3 DEF Coming
    <3>4. CASE e = d /\ k = Len(net[d]) + 1 /\ net'[e][k] = u
      BY <1>1, <1>3, <3>2, <3>4 DEF Coming
    <3> QED
      BY <1>10, <3>3, <3>4
  <2> QED
    BY <1>1, <1>4, <1>15, <2>1, <2>2 DEF Coming
<1>16. NotYetGot'
  BY <1>1, <1>15, NotYetGotKept, RecvKept
<1> QED
  BY <1>1, <1>9, <1>12, <1>14, <1>16, RecvKept DEF ReceiverInv

\* What is lost with a connection is on its way no more.
LEMMA ConnectionLostReceiver ==
    ASSUME Inv, [Next]_vars, NEW d \in Dp, ConnectionLost(d)
    PROVE  ReceiverInv'
<1>1. /\ up' = [up EXCEPT ![d] = FALSE] /\ net' = [net EXCEPT ![d] = <<>>]
      /\ UNCHANGED <<sendVars, recvVars>>
  BY DEF ConnectionLost
<1>2. UNCHANGED <<written, writing, next, queue, wpc, wpart, rpc, rpart>>
  BY <1>1 DEF sendVars, recvVars
<1>3. net \in [Dp -> Seq(Unit)] /\ up \in [Dp -> BOOLEAN]
  BY DEF Inv, ReceiverInv, NetTypeOK
<1>4. /\ net'[d] = <<>> /\ ~ up'[d] /\ Len(net'[d]) = 0
      /\ \A e \in Dp : e # d => net'[e] = net[e] /\ up'[e] = up[e]
  BY <1>1, <1>3
<1>5. NetTypeOK'
  <2>1. up' \in [Dp -> BOOLEAN]
    BY <1>1, <1>3
  <2>2. net' \in [Dp -> Seq(Unit)]
    BY <1>1, <1>3
  <2> QED
    BY <2>1, <2>2 DEF NetTypeOK
<1>6. ASSUME NEW e \in Dp, NEW k \in 1 .. Len(net'[e])
      PROVE  e # d /\ k \in 1 .. Len(net[e]) /\ net'[e] = net[e]
  BY <1>4
<1>7. ASSUME NEW e \in Dp, NEW k \in 1 .. Len(net'[e]) PROVE UnitInv(e, k)'
  <2> PICK a : a = net[e][k].a
    OBVIOUS
  <2>1. UnitInv(e, k) /\ net'[e] = net[e]
    BY <1>6 DEF Inv, ReceiverInv, WireInv
  <2>2. Made(a, e)'
    BY <2>1, MadeKept DEF UnitInv, Inv
  <2>3. Made(net[e][k].a, e)'
    BY <2>1, <2>2 DEF Made, PartsOf
  <2> QED
    BY <1>2, <2>1, <2>3 DEF UnitInv, Owed, OwedPart, Opens
<1>8. ASSUME NEW e \in Dp PROVE EndInv(e)'
  <2>1. EndInv(e)
    BY DEF Inv, ReceiverInv, WireInv
  <2> QED
    BY <1>2, <1>4, <2>1 DEF EndInv, Owed, OwedPart, Opens
<1>9. ASSUME NEW e \in Dp PROVE (rpart[e] # None => Made(rpart[e], e))'
  BY <1>2 DEF Inv, ReceiverInv, WireInv, Made, PartsOf
<1>10. WireInv'
  BY <1>7, <1>8, <1>9 DEF WireInv
<1>11. ASSUME NEW e \in Dp, NEW k \in 1 .. Len(net'[e]) PROVE DataOnceAt(e, k)'
  <2>1. DataOnceAt(e, k) /\ net'[e] = net[e]
    BY <1>6 DEF Inv, ReceiverInv, DataOnce
  <2> QED
    BY <1>2, <2>1 DEF DataOnceAt, Same
<1>12. DataOnce'
  BY <1>11 DEF DataOnce
<1>13. ASSUME NEW q, NEW i, Coming(q, i)' PROVE Coming(q, i)
  BY <1>2, <1>6, <1>13 DEF Coming
<1>14. NotYetGot'
  BY <1>1, <1>2, <1>13, NotYetGotKept, RecvKept
<1> QED
  BY <1>1, <1>5, <1>10, <1>12, <1>14, RecvKept DEF ReceiverInv

-----------------------------------------------------------------------------
(* Steps of the receiver. *)

\* Of the receiver's state, the wire depends only on which readLoops wait for data.
LEMMA WireKept ==
    ASSUME Inv, UNCHANGED <<sendVars, netVars, rpart>>,
           \A d \in Dp : net[d] # <<>> \/ up[d] =>
               (rpc'[d] = "data" /\ rpart[d].size > 0 <=> rpc[d] = "data" /\ rpart[d].size > 0)
    PROVE  NetTypeOK' /\ WireInv' /\ DataOnce'
<1>0. UNCHANGED <<written, writing, next, sendStore, queue, wpc, wpart, up, net>>
  BY DEF sendVars, netVars
<1>1. NetTypeOK'
  BY <1>0 DEF Inv, ReceiverInv, NetTypeOK
<1>5. DataOnce'
  BY <1>0 DEF Inv, ReceiverInv, DataOnce, DataOnceAt, Same
<1>2. ASSUME NEW e \in Dp, NEW k \in 1 .. Len(net[e]) PROVE UnitInv(e, k)'
  <2>1. UnitInv(e, k) /\ net[e] # <<>>
    BY DEF Inv, ReceiverInv, WireInv
  <2> QED
    BY <1>0, <2>1 DEF UnitInv, Owed, OwedPart, Opens, Made, PartsOf
<1>3. ASSUME NEW e \in Dp PROVE EndInv(e)'
  <2>1. EndInv(e)
    BY DEF Inv, ReceiverInv, WireInv
  <2> QED
    BY <1>0, <2>1 DEF EndInv, Owed, OwedPart, Opens
<1>4. \A e \in Dp : (rpart[e] # None => Made(rpart[e], e))'
  BY <1>0 DEF Inv, ReceiverInv, WireInv, Made, PartsOf
<1> QED
  BY <1>0, <1>1, <1>2, <1>3, <1>4, <1>5 DEF WireInv

\* Steps that move no part: a stream is accepted, the process dies.
LEMMA FlagsOnly ==
    ASSUME Inv, RecvTypeOK',
           UNCHANGED <<sendVars, netVars, rpc, rpart, rdata, recvStore, readBuffer>>
    PROVE  ReceiverInv'
<1>0. UNCHANGED <<written, writing, next, sendStore, queue, wpc, wpart, up, net>>
  BY DEF sendVars, netVars
<1>1. NetTypeOK' /\ WireInv' /\ DataOnce'
  BY WireKept
<1>3. NotYetGot'
  BY <1>0 DEF Inv, ReceiverInv, NotYetGot, Coming, Got, Assembled, Finishing, Delivered, PartsOf
<1>4. RecvStoreInv' /\ ReadLoopInv' /\ AtMostOnce' /\ WholeSequences'
  BY <1>0 DEF Inv, ReceiverInv, RecvStoreInv, ReadLoopInv, AtMostOnce, WholeSequences,
              Delivered, Payload, PartsOf
<1> QED
  BY <1>1, <1>3, <1>4 DEF ReceiverInv

LEMMA AcceptReceiver ==
    ASSUME Inv, NEW s \in Streams, AcceptStream(s) PROVE ReceiverInv'
<1>1. RecvTypeOK'
  BY DEF AcceptStream, Inv, ReceiverInv, RecvTypeOK
<1> QED
  BY <1>1, FlagsOnly DEF AcceptStream

LEMMA StoredReceiver ==
    ASSUME Inv, StreamStored PROVE ReceiverInv'
<1>1. RecvTypeOK'
  BY DEF StreamStored, Inv, ReceiverInv, RecvTypeOK
<1> QED
  BY <1>1, FlagsOnly DEF StreamStored

LEMMA PanicReceiver ==
    ASSUME Inv, NEW d \in Dp, Panic(d) PROVE ReceiverInv'
<1>1. RecvTypeOK'
  BY DEF Panic, Inv, ReceiverInv, RecvTypeOK
<1> QED
  BY <1>1, FlagsOnly DEF Panic

LEMMA StutterReceiver ==
    ASSUME Inv, UNCHANGED vars PROVE ReceiverInv'
<1>1. RecvTypeOK'
  BY DEF vars, recvVars, Inv, ReceiverInv, RecvTypeOK
<1> QED
  BY <1>1, FlagsOnly DEF vars, recvVars

LEMMA ReadFailsReceiver ==
    ASSUME Inv, [Next]_vars, NEW d \in Dp, ReadFails(d) PROVE ReceiverInv'
<1>1. /\ rpc[d] = "data" /\ (rpart[d].size > 0 => ~ up[d])
      /\ rpc' = [rpc EXCEPT ![d] = "header"]
      /\ UNCHANGED <<sendVars, netVars, rpart, rdata, recvStore, accepted, storing,
                     readBuffer, panicked>>
      /\ rpc \in [Dp -> {"header", "data", "lookup", "append", "nil"}]
  BY DEF ReadFails, Inv, ReceiverInv, RecvTypeOK
<1>2. rpc'[d] = "header" /\ \A e \in Dp : e # d => rpc'[e] = rpc[e]
  BY <1>1
<1>3. UNCHANGED <<written, writing, next, sendStore, queue, wpc, wpart, up, net>>
  BY <1>1 DEF sendVars, netVars
<1>4. up[d] \/ net[d] = <<>>
  BY DEF Inv, ReceiverInv, WireInv, EndInv
<1>5. NetTypeOK' /\ WireInv' /\ DataOnce'
  BY <1>1, <1>2, <1>4, WireKept
<1>6. RecvTypeOK'
  BY <1>1 DEF Inv, ReceiverInv, RecvTypeOK
<1>7. \A e \in Dp : Finishing(e)' <=> Finishing(e)
  BY <1>1, <1>2 DEF Finishing
<1>8. \A q, i : Got(q, i)' <=> Got(q, i)
  BY <1>1, <1>7 DEF Got, Assembled, Delivered
<1>9. \A q, i : Coming(q, i)' => Coming(q, i)
  BY <1>1, <1>2, <1>3 DEF Coming
<1>10. NotYetGot'
  BY <1>3, <1>8, <1>9, NotYetGotKept
<1>11. RecvStoreInv' /\ WholeSequences'
  BY <1>1, <1>3 DEF Inv, ReceiverInv, RecvStoreInv, WholeSequences, Payload, PartsOf
<1>12. ReadLoopInv'
  BY <1>1, <1>2, <1>3 DEF Inv, ReceiverInv, ReadLoopInv, Payload
<1>13. AtMostOnce'
  BY <1>1, <1>2 DEF Inv, ReceiverInv, AtMostOnce, Delivered
<1> QED
  BY <1>5, <1>6, <1>10, <1>11, <1>12, <1>13 DEF ReceiverInv

\* RemoveCompletion takes no completion from a readLoop that waits for data.
LEMMA LookupReceiver ==
    ASSUME Inv, [Next]_vars, NEW d \in Dp, Lookup(d) PROVE ReceiverInv'
<1> PICK q0 : q0 = rpart[d].seq
  OBVIOUS
<1>0. /\ rpc[d] = "lookup"
      /\ UNCHANGED <<sendVars, netVars, rpart, rdata, accepted, storing, readBuffer>>
      /\ rpc \in [Dp -> {"header", "data", "lookup", "append", "nil"}]
  BY DEF Lookup, Inv, ReceiverInv, RecvTypeOK
<1>a. CASE UNCHANGED <<rpc, recvStore>>
  <2>1. RecvTypeOK'
    BY <1>0, <1>a DEF Inv, ReceiverInv, RecvTypeOK, Lookup
  <2> QED
    BY <1>0, <1>a, <2>1, FlagsOnly
<1>b. ASSUME rpc' = [rpc EXCEPT ![d] = "append"] \/ rpc' = [rpc EXCEPT ![d] = "nil"],
             recvStore' = Delete(recvStore, q0), UNCHANGED panicked
      PROVE  ReceiverInv'
  <2>1. /\ rpc'[d] \in {"append", "nil"} /\ \A e \in Dp : e # d => rpc'[e] = rpc[e]
        /\ rpc' \in [Dp -> {"header", "data", "lookup", "append", "nil"}]
    BY <1>0, <1>b
  <2>2. /\ DOMAIN recvStore' = DOMAIN recvStore \ {q0}
        /\ \A q \in DOMAIN recvStore' : recvStore'[q] = recvStore[q]
    BY <1>b DEF Delete
  <2>3. UNCHANGED <<written, writing, next, sendStore, queue, wpc, wpart, up, net>>
    BY <1>0 DEF sendVars, netVars
  <2>4. NetTypeOK' /\ WireInv' /\ DataOnce'
    BY <1>0, <2>1, WireKept
  <2>5. RecvTypeOK'
    BY <1>0, <1>b, <2>1, <2>2 DEF Inv, ReceiverInv, RecvTypeOK
  <2>6. \A e \in Dp : Finishing(e)' <=> Finishing(e)
    BY <1>0, <2>1 DEF Finishing
  <2>7. \A q, i : Got(q, i)' => Got(q, i)
    BY <1>0, <2>2, <2>6 DEF Got, Assembled, Delivered
  <2>8. \A q, i : Coming(q, i)' => Coming(q, i)
    BY <1>0, <2>1, <2>3 DEF Coming
  <2>9. NotYetGot'
    BY <2>3, <2>7, <2>8, NotYetGotKept
  <2>10. RecvStoreInv' /\ WholeSequences'
    BY <1>0, <2>2, <2>3 DEF Inv, ReceiverInv, RecvStoreInv, WholeSequences, Payload, PartsOf
  <2>11. ASSUME NEW e \in Dp, rpc[e] = "data", rpart[e].size > 0 PROVE rpart[e].seq # q0
    <3>1. rpart[e] # None
      BY <2>11 DEF Inv, ReceiverInv, RecvTypeOK
    <3>2. PICK a : a = rpart[e]
      OBVIOUS
    <3>3. Made(a, e)
      BY <3>1, <3>2 DEF Inv, ReceiverInv, WireInv
    <3>4. /\ a.seq \in DOMAIN written /\ a.part \in 1 .. Len(PartsOf(a.seq))
          /\ PartsOf(a.seq)[a.part].size > 0
      BY <2>11, <3>2, <3>3, MadeFacts DEF Inv
    <3>5. Coming(a.seq, a.part)
      BY <2>11, <3>2 DEF Coming
    <3>6. ~ Got(a.seq, a.part)
      BY <3>4, <3>5 DEF Inv, ReceiverInv, NotYetGot
    <3> QED
      BY <1>0, <3>2, <3>6 DEF Got, Assembled, Finishing
  <2>12. ReadLoopInv'
    <3>1. ASSUME NEW e \in Dp, rpc'[e] = "data", rpart'[e].size > 0
          PROVE  rpart'[e].seq \in DOMAIN recvStore'
      BY <1>0, <2>1, <2>2, <2>11, <3>1 DEF Inv, ReceiverInv, ReadLoopInv
    <3>2. ASSUME NEW e \in Dp, rpc'[e] \in {"lookup", "append"}
          PROVE  rdata'[e] = Payload(rpart[e].seq)'
      BY <1>0, <2>1, <2>3, <3>2 DEF Inv, ReceiverInv, ReadLoopInv, Payload
    <3> QED
      BY <3>1, <3>2 DEF ReadLoopInv
  <2>13. AtMostOnce'
    BY <1>0, <2>1 DEF Inv, ReceiverInv, AtMostOnce, Delivered
  <2> QED
    BY <2>4, <2>5, <2>9, <2>10, <2>12, <2>13 DEF ReceiverInv
<1> QED
  BY <1>a, <1>b DEF Lookup

\* ReadBuffer.Append: the sequence is whole, it is for this stream, and it is new.
LEMMA DeliverReceiver ==
    ASSUME Inv, [Next]_vars, NEW d \in Dp, Deliver(d) PROVE ReceiverInv'
<1> PICK q0, s0, r0 : /\ q0 = rpart[d].seq /\ s0 = rpart[d].stream
                      /\ r0 = [seq |-> q0, data |-> rdata[d]]
  OBVIOUS
<1>1. /\ rpc[d] = "append"
      /\ readBuffer' = [readBuffer EXCEPT ![s0] = Append(readBuffer[s0], r0)]
      /\ rpc' = [rpc EXCEPT ![d] = "header"]
      /\ rdata' = [rdata EXCEPT ![d] = {}]
      /\ UNCHANGED <<sendVars, netVars, rpart, recvStore, accepted, storing, panicked>>
      /\ rpc \in [Dp -> {"header", "data", "lookup", "append", "nil"}]
      /\ rdata \in [Dp -> SUBSET Entry]
      /\ readBuffer \in [Streams -> Seq(Item)]
      /\ rpart[d] # None
  BY DEF Deliver, Inv, ReceiverInv, RecvTypeOK
<1>2. /\ rpc'[d] = "header" /\ \A e \in Dp : e # d => rpc'[e] = rpc[e] /\ rdata'[e] = rdata[e]
      /\ rpc' \in [Dp -> {"header", "data", "lookup", "append", "nil"}]
      /\ rdata' \in [Dp -> SUBSET Entry]
  BY <1>1
<1>3. UNCHANGED <<written, writing, next, sendStore, queue, wpc, wpart, up, net>>
  BY <1>1 DEF sendVars, netVars
<1>4. NetTypeOK' /\ WireInv' /\ DataOnce'
  BY <1>1, <1>2, WireKept
<1>5. /\ q0 \in DOMAIN written /\ q0 \in SeqIds /\ s0 \in Streams
      /\ written[q0].stream = s0 /\ rdata[d] = Payload(q0)
  <2> PICK a : a = rpart[d]
    OBVIOUS
  <2>1. Made(a, d)
    BY <1>1 DEF Inv, ReceiverInv, WireInv
  <2> QED
    BY <1>1, <2>1, MadeFacts DEF Inv, ReceiverInv, ReadLoopInv, Assignment
<1>6. r0 \in Item /\ r0.seq = q0 /\ r0.data = Payload(q0)
  BY <1>1, <1>5 DEF Item
<1>7. readBuffer[s0] \in Seq(Item)
  BY <1>1, <1>5
<1>8. /\ readBuffer'[s0] = Append(readBuffer[s0], r0)
      /\ \A s \in Streams : s # s0 => readBuffer'[s] = readBuffer[s]
  BY <1>1, <1>5
<1>9. /\ readBuffer'[s0] \in Seq(Item)
      /\ Len(readBuffer[s0]) \in Nat /\ readBuffer'[s0][Len(readBuffer[s0]) + 1] = r0
      /\ Len(readBuffer[s0]) + 1 \in 1 .. Len(readBuffer'[s0])
      /\ \A i \in 1 .. Len(readBuffer[s0]) :
            i \in 1 .. Len(readBuffer'[s0]) /\ readBuffer'[s0][i] = readBuffer[s0][i]
      /\ \A i \in 1 .. Len(readBuffer'[s0]) :
            i \in 1 .. Len(readBuffer[s0]) \/ i = Len(readBuffer[s0]) + 1
  BY <1>6, <1>7, <1>8, AppendFacts
<1>10. ASSUME NEW s \in Streams, NEW i \in 1 .. Len(readBuffer'[s])
       PROVE  \/ i \in 1 .. Len(readBuffer[s]) /\ readBuffer'[s][i] = readBuffer[s][i]
              \/ s = s0 /\ i = Len(readBuffer[s0]) + 1 /\ readBuffer'[s][i] = r0
  <2>1. CASE s = s0
    BY <1>9, <2>1
  <2>2. CASE s # s0
    BY <1>8, <2>2
  <2> QED
    BY <2>1, <2>2
<1>11. RecvTypeOK'
  <2>1. readBuffer' \in [Streams -> Seq(Item)]
    BY <1>1, <1>9
  <2> QED
    BY <1>1, <1>2, <2>1 DEF Inv, ReceiverInv, RecvTypeOK
<1>12. ASSUME NEW q, Delivered(q)' PROVE Delivered(q) \/ q = q0
  BY <1>6, <1>10, <1>12 DEF Delivered
<1>13. \A q, i : Got(q, i)' => Got(q, i)
  <2>1. Assembled(q0)
    BY <1>1 DEF Assembled, Finishing
  <2>2. ASSUME NEW q, Assembled(q)' PROVE Assembled(q)
    BY <1>1, <1>2, <1>12, <2>1, <2>2 DEF Assembled, Finishing
  <2> QED
    BY <1>1, <2>2 DEF Got
<1>14. \A q, i : Coming(q, i)' => Coming(q, i)
  BY <1>1, <1>2, <1>3 DEF Coming
<1>15. NotYetGot'
  BY <1>3, <1>13, <1>14, NotYetGotKept
<1>16. RecvStoreInv'
  BY <1>1, <1>3 DEF Inv, ReceiverInv, RecvStoreInv, Payload, PartsOf
<1>17. ReadLoopInv'
  BY <1>1, <1>2, <1>3 DEF Inv, ReceiverInv, ReadLoopInv, Payload
<1>18. ~ Delivered(q0)
  BY <1>1 DEF Inv, ReceiverInv, AtMostOnce
<1>19. AtMostOnce'
  <2>1. ASSUME NEW s \in Streams, NEW i \in 1 .. Len(readBuffer'[s]),
               NEW j \in 1 .. Len(readBuffer'[s]),
               readBuffer'[s][i].seq = readBuffer'[s][j].seq
        PROVE  i = j
    <3>1. CASE /\ i \in 1 .. Len(readBuffer[s]) /\ readBuffer'[s][i] = readBuffer[s][i]
               /\ j \in 1 .. Len(readBuffer[s]) /\ readBuffer'[s][j] = readBuffer[s][j]
      BY <2>1, <3>1 DEF Inv, ReceiverInv, AtMostOnce
    <3>2. CASE /\ i \in 1 .. Len(readBuffer[s]) /\ readBuffer'[s][i] = readBuffer[s][i]
               /\ readBuffer'[s][j] = r0
      BY <1>6, <1>18, <2>1, <3>2 DEF Delivered
    <3>3. CASE /\ j \in 1 .. Len(readBuffer[s]) /\ readBuffer'[s][j] = readBuffer[s][j]
               /\ readBuffer'[s][i] = r0
      BY <1>6, <1>18, <2>1, <3>3 DEF Delivered
    <3> QED
      BY <1>10, <3>1, <3>2, <3>3
  <2>2. ASSUME NEW e \in Dp, rpc'[e] \in {"lookup", "append", "nil"}
        PROVE  ~ Delivered(rpart[e].seq)'
    <3> PICK q : q = rpart[e].seq
      OBVIOUS
    <3>1. e # d /\ rpc[e] = rpc'[e]
      BY <1>2, <2>2
    <3>2. ~ Delivered(q) /\ q # q0
      BY <1>1, <2>2, <3>1 DEF Inv, ReceiverInv, AtMostOnce
    <3>3. ~ Delivered(q)'
      BY <1>12, <3>2
    <3> QED
      BY <1>1, <3>3 DEF Delivered
  <2>3. ASSUME NEW e \in Dp, NEW f \in Dp, rpc'[e] \in {"lookup", "append", "nil"},
               rpc'[f] \in {"lookup", "append", "nil"}, rpart[e].seq = rpart[f].seq
        PROVE  e = f
    BY <1>2, <2>3 DEF Inv, ReceiverInv, AtMostOnce
  <2> QED
    BY <1>1, <2>1, <2>2, <2>3 DEF AtMostOnce
<1>20. WholeSequences'
  <2> SUFFICES ASSUME NEW s \in Streams, NEW i \in 1 .. Len(readBuffer'[s])
               PROVE  /\ readBuffer'[s][i].seq \in DOMAIN written
                      /\ written[readBuffer'[s][i].seq].stream = s
                      /\ readBuffer'[s][i].data = Payload(readBuffer'[s][i].seq)
    BY <1>3 DEF WholeSequences, Payload
  <2>1. CASE i \in 1 .. Len(readBuffer[s]) /\ readBuffer'[s][i] = readBuffer[s][i]
    BY <2>1 DEF Inv, ReceiverInv, WholeSequences
  <2>2. CASE s = s0 /\ i = Len(readBuffer[s0]) + 1 /\ readBuffer'[s][i] = r0
    BY <1>5, <1>6, <2>2
  <2> QED
    BY <1>10, <2>1, <2>2
<1> QED
  BY <1>4, <1>11, <1>15, <1>16, <1>17, <1>19, <1>20 DEF ReceiverInv

\* The wire of d is one unit shorter and still in order.
Taken(d) ==
    /\ net' \in [Dp -> Seq(Unit)]
    /\ \A e \in Dp \ {d} : net'[e] = net[e]
    /\ \A k \in 1 .. Len(net'[d]) :
          k \in Nat /\ k + 1 \in 1 .. Len(net[d]) /\ net'[d][k] = net[d][k + 1]
    /\ WireInv' /\ DataOnce'

\* readLoop takes the first unit.  Afterwards it waits for data exactly if that
\* unit opened a part.
LEMMA UnitTaken ==
    ASSUME Inv, NEW d \in Dp, net[d] # <<>>,
           net' = [net EXCEPT ![d] = Tail(net[d])], UNCHANGED <<sendVars, up>>,
           \A e \in Dp : e # d => rpc'[e] = rpc[e] /\ rpart'[e] = rpart[e],
           rpc'[d] = "data" /\ rpart'[d].size > 0 <=> Opens(net[d][1]),
           rpart'[d] = net[d][1].a
    PROVE  Taken(d)
<1>0. UNCHANGED <<written, writing, next, sendStore, queue, wpc, wpart, up>>
  BY DEF sendVars
<1>1. net \in [Dp -> Seq(Unit)] /\ net[d] \in Seq(Unit)
  BY DEF Inv, ReceiverInv, NetTypeOK
<1>2. net'[d] = Tail(net[d]) /\ \A e \in Dp \ {d} : net'[e] = net[e]
  BY <1>1
<1>3. /\ net'[d] \in Seq(Unit) /\ Len(net[d]) \in Nat /\ 1 \in 1 .. Len(net[d])
      /\ Len(net'[d]) = Len(net[d]) - 1
      /\ \A k \in 1 .. Len(net'[d]) : k + 1 \in 1 .. Len(net[d]) /\ net'[d][k] = net[d][k + 1]
  BY <1>1, <1>2, TailFacts
<1>4. net' \in [Dp -> Seq(Unit)]
  BY <1>1, <1>3
<1>5. ASSUME NEW k \in Nat, k \in 1 .. Len(net[d])
      PROVE  /\ Owed(d, k)' <=> Owed(d, k + 1)
             /\ OwedPart(d, k)' = OwedPart(d, k + 1)
  <2>1. k + 1 # 1 /\ k + 1 - 1 = k
    BY <1>5
  <2>2. CASE k = 1
    BY <2>1, <2>2 DEF Owed, OwedPart
  <2>3. CASE k # 1
    <3>1. k - 1 \in 1 .. Len(net'[d]) /\ (k - 1) + 1 = k
      BY <1>3, <1>5, <2>3
    <3>2. net'[d][k - 1] = net[d][k]
      BY <1>3, <3>1
    <3>3. /\ Owed(d, k + 1) <=> Opens(net[d][k])
          /\ OwedPart(d, k + 1) = net[d][k].a
      BY <2>1 DEF Owed, OwedPart
    <3>4. /\ Owed(d, k)' <=> Opens(net'[d][k - 1])
          /\ OwedPart(d, k)' = net'[d][k - 1].a
      BY <2>3 DEF Owed, OwedPart, Opens
    <3> QED
      BY <3>2, <3>3, <3>4
  <2> QED
    BY <2>2, <2>3
<1>6. ASSUME NEW k \in 1 .. Len(net'[d]) PROVE UnitInv(d, k)'
  <2>1. k \in Nat /\ k \in 1 .. Len(net[d]) /\ k + 1 \in 1 .. Len(net[d])
        /\ net'[d][k] = net[d][k + 1]
    BY <1>3
  <2>2. UnitInv(d, k + 1)
    BY <2>1 DEF Inv, ReceiverInv, WireInv
  <2>3. /\ Owed(d, k)' <=> Owed(d, k + 1)
        /\ OwedPart(d, k)' = OwedPart(d, k + 1)
    BY <1>5, <2>1, SMTT(30)
  <2>4. Made(net[d][k].a, d)'
    BY <1>0, <2>1, <2>2 DEF UnitInv, Made, PartsOf
  <2> QED
    BY <2>1, <2>2, <2>3, <2>4 DEF UnitInv
<1>7. EndInv(d)'
  <2> PICK n : n = Len(net[d])
    OBVIOUS
  <2>1. EndInv(d) /\ up[d]
    BY DEF Inv, ReceiverInv, WireInv, EndInv
  <2>2. n \in Nat /\ n \in 1 .. Len(net[d]) /\ Len(net'[d]) + 1 = n
    BY <1>3
  <2>3. /\ Owed(d, n)' <=> Owed(d, n + 1)
        /\ OwedPart(d, n)' = OwedPart(d, n + 1)
    BY <1>5, <2>2
  <2>4. /\ Owed(d, n)' <=> wpc[d] = "data" /\ wpart[d].size > 0
        /\ Owed(d, n)' => wpart[d] = OwedPart(d, n)'
    BY <2>1, <2>3 DEF EndInv
  <2> QED
    BY <1>0, <2>1, <2>2, <2>4 DEF EndInv, Owed, OwedPart
<1>8. ASSUME NEW e \in Dp, e # d
      PROVE  /\ \A k \in 1 .. Len(net'[e]) : UnitInv(e, k)'
             /\ EndInv(e)'
  <2>1. net'[e] = net[e] /\ rpc'[e] = rpc[e] /\ rpart'[e] = rpart[e]
    BY <1>2, <1>8, SMTT(30)
  <2>2. ASSUME NEW k \in 1 .. Len(net'[e]) PROVE UnitInv(e, k)'
    <3>1. UnitInv(e, k)
      BY <2>1 DEF Inv, ReceiverInv, WireInv
    <3> QED
      BY <1>0, <2>1, <3>1 DEF UnitInv, Owed, OwedPart, Opens, Made, PartsOf
  <2>3. EndInv(e)
    BY DEF Inv, ReceiverInv, WireInv
  <2> QED
    BY <1>0, <2>1, <2>2, <2>3 DEF EndInv, Owed, OwedPart, Opens
<1>9. ASSUME NEW e \in Dp, rpart'[e] # None PROVE Made(rpart[e], e)'
  <2>1. CASE e = d
    <3>1. UnitInv(d, 1)
      BY <1>3 DEF Inv, ReceiverInv, WireInv
    <3> QED
      BY <1>0, <2>1, <3>1 DEF UnitInv, Made, PartsOf
  <2>2. CASE e # d
    BY <1>0, <1>9, <2>2 DEF Inv, ReceiverInv, WireInv, Made, PartsOf
  <2> QED
    BY <2>1, <2>2
<1>10. WireInv'
  BY <1>6, <1>7, <1>8, <1>9 DEF WireInv
<1>11. ASSUME NEW e \in Dp, NEW k \in 1 .. Len(net'[e]) PROVE DataOnceAt(e, k)'
  <2>1. CASE e = d
    <3>1. DataOnceAt(d, k + 1) /\ net'[d][k] = net[d][k + 1] /\ k \in Nat
      BY <1>3, <2>1 DEF Inv, ReceiverInv, DataOnce
    <3>2. ASSUME NEW l \in 1 .. Len(net'[d]), net'[d][k].kind = "data",
                 net'[d][l].kind = "data", Same(net'[d][k].a, net'[d][l].a)
          PROVE  k = l
      <4>1. l \in Nat /\ l + 1 \in 1 .. Len(net[d]) /\ net'[d][l] = net[d][l + 1]
        BY <1>3
      <4>2. k + 1 = l + 1
        BY <3>1, <3>2, <4>1 DEF DataOnceAt
      <4> QED
        BY <3>1, <4>1, <4>2
    <3> QED
      BY ONLY <1>0, <2>1, <3>1, <3>2 DEF DataOnceAt, Same
  <2>2. CASE e # d
    <3>1. DataOnceAt(e, k) /\ net'[e] = net[e]
      BY <1>2, <2>2 DEF Inv, ReceiverInv, DataOnce
    <3> QED
      BY <1>0, <3>1, ZenonT(60) DEF DataOnceAt, Same
  <2> QED
    BY <2>1, <2>2
<1>12. DataOnce'
  BY <1>11 DEF DataOnce
<1> QED
  BY <1>2, <1>3, <1>4, <1>10, <1>12 DEF Taken

\* A header announces its data: if the part has any, it comes next on the wire or
\* writeLoop is about to write it.
LEMMA ReadHeaderReceiver ==
    ASSUME Inv, [Next]_vars, NEW d \in Dp, ReadHeader(d) PROVE ReceiverInv'
<1> PICK a : a = net[d][1].a
  OBVIOUS
<1>0. net \in [Dp -> Seq(Unit)] /\ net[d] \in Seq(Unit)
  BY DEF Inv, ReceiverInv, NetTypeOK
<1>1. /\ rpc[d] = "header" /\ net[d] # <<>> /\ Head(net[d]) = net[d][1]
      /\ rpart' = [rpart EXCEPT ![d] = a]
      /\ recvStore' = GetOrCreate(recvStore, a)
      /\ net' = [net EXCEPT ![d] = Tail(net[d])]
      /\ rpc' = [rpc EXCEPT ![d] = "data"]
      /\ UNCHANGED <<sendVars, up, rdata, accepted, storing, readBuffer, panicked>>
  BY <1>0 DEF ReadHeader
<1>2. /\ rpc \in [Dp -> {"header", "data", "lookup", "append", "nil"}]
      /\ rpart \in [Dp -> Assignment \cup {None}]
      /\ DOMAIN recvStore \subseteq SeqIds
      /\ \A q \in DOMAIN recvStore : recvStore[q] \in Completion
  BY DEF Inv, ReceiverInv, RecvTypeOK
<1>3. /\ rpc'[d] = "data" /\ rpart'[d] = a
      /\ \A e \in Dp : e # d => rpc'[e] = rpc[e] /\ rpart'[e] = rpart[e]
      /\ rpc' \in [Dp -> {"header", "data", "lookup", "append", "nil"}]
  BY <1>1, <1>2
<1>4. UNCHANGED <<written, writing, next, sendStore, queue, wpc, wpart>>
  BY <1>1 DEF sendVars
<1>5. 1 \in 1 .. Len(net[d]) /\ Len(net[d]) \in Nat
  BY <1>0, <1>1
<1>6. UnitInv(d, 1) /\ EndInv(d)
  BY <1>5 DEF Inv, ReceiverInv, WireInv
<1>7. net[d][1].kind = "header" /\ Made(a, d)
  <2>1. net[d][1] \in Unit
    BY <1>0, <1>5
  <2> QED
    BY <1>1, <1>6, <2>1 DEF UnitInv, Owed, Unit
<1>8. /\ a.seq \in DOMAIN written /\ a.seq \in SeqIds
      /\ a.stream = written[a.seq].stream /\ a.size \in Nat
      /\ a.total = Length(a.seq, PartsOf(a.seq)) /\ a \in Assignment
  BY <1>7, MadeFacts DEF Inv
<1>9. Taken(d)
  <2>1. rpc'[d] = "data" /\ rpart'[d].size > 0 <=> Opens(net[d][1])
    BY <1>3, <1>7 DEF Opens
  <2>2. UNCHANGED <<sendVars, up>>
    BY <1>1
  <2> QED
    BY <1>1, <1>3, <2>1, <2>2, UnitTaken
<1>10. NetTypeOK'
  BY <1>1, <1>9 DEF Taken, Inv, ReceiverInv, NetTypeOK
<1>11. /\ DOMAIN recvStore' = DOMAIN recvStore \cup {a.seq}
       /\ DOMAIN recvStore' \subseteq SeqIds
       /\ \A q \in DOMAIN recvStore' : recvStore'[q] \in Completion
       /\ \A q \in DOMAIN recvStore : recvStore'[q] = recvStore[q]
  <2> PICK store : store = recvStore
    OBVIOUS
  <2>1. DOMAIN store \subseteq SeqIds /\ \A q \in DOMAIN store : store[q] \in Completion
    BY <1>2
  <2>2. /\ DOMAIN GetOrCreate(store, a) = DOMAIN store \cup {a.seq}
        /\ DOMAIN GetOrCreate(store, a) \subseteq SeqIds
        /\ \A q \in DOMAIN GetOrCreate(store, a) : GetOrCreate(store, a)[q] \in Completion
        /\ \A q \in DOMAIN store : GetOrCreate(store, a)[q] = store[q]
    BY <1>8, <2>1, GetOrCreateFacts, ZenonT(60)
  <2> QED
    BY <1>1, <2>2
<1>12. a.seq \notin DOMAIN recvStore => recvStore'[a.seq] = FreshCompletion(a)
  BY <1>1 DEF GetOrCreate, Put
<1>13. RecvTypeOK'
  <2>1. rpart' \in [Dp -> Assignment \cup {None}]
    BY <1>1, <1>2, <1>8
  <2>2. \A e \in Dp : rpart'[e] = None => rpc'[e] = "header"
    <3>1. a # None
      BY <1>8, DataplaneAssumption DEF DataplaneAssumption
    <3> QED
      BY <1>3, <3>1 DEF Inv, ReceiverInv, RecvTypeOK
  <2> QED
    BY <1>1, <1>3, <1>11, <2>1, <2>2 DEF Inv, ReceiverInv, RecvTypeOK
<1>14. \A e \in Dp : Finishing(e)' => Finishing(e) /\ rpart'[e] = rpart[e]
  BY <1>3 DEF Finishing
<1>15. ASSUME NEW q, NEW i, Got(q, i)' PROVE Got(q, i)
  <2>1. CASE q \in DOMAIN recvStore
    BY <1>1, <1>11, <1>14, <1>15, <2>1 DEF Got, Assembled, Delivered
  <2>2. CASE q \notin DOMAIN recvStore
    <3>1. q \in DOMAIN recvStore' => recvStore'[q].held = {}
      BY <1>11, <1>12, <2>2 DEF FreshCompletion
    <3> QED
      BY <1>1, <1>14, <1>15, <3>1 DEF Got, Assembled, Delivered
  <2> QED
    BY <2>1, <2>2
<1>16. a.size > 0 => Coming(a.seq, a.part)
  <2> SUFFICES ASSUME a.size > 0 PROVE Coming(a.seq, a.part)
    OBVIOUS
  <2>1. Owed(d, 2) /\ OwedPart(d, 2) = a
    BY <1>7 DEF Owed, OwedPart, Opens
  <2>2. CASE 2 \in 1 .. Len(net[d])
    <3>1. UnitInv(d, 2)
      BY <2>2 DEF Inv, ReceiverInv, WireInv
    <3>2. net[d][2].kind = "data" /\ net[d][2].a = a
      BY <2>1, <3>1 DEF UnitInv
    <3> QED
      BY <2>2, <3>2 DEF Coming
  <2>3. CASE 2 \notin 1 .. Len(net[d])
    <3>1. Len(net[d]) + 1 = 2
      BY <1>5, <2>3
    <3>2. wpc[d] = "data" /\ wpart[d] = a
      BY <1>1, <1>6, <2>1, <3>1 DEF EndInv
    <3> QED
      BY <3>2 DEF Coming
  <2> QED
    BY <2>2, <2>3
<1>17. ASSUME NEW q \in DOMAIN written, NEW i \in 1 .. Len(PartsOf(q)),
              PartsOf(q)[i].size > 0, Coming(q, i)'
       PROVE  Coming(q, i)
  <2>1. CASE \E e \in Dp : rpc'[e] = "data" /\ rpart'[e].seq = q /\ rpart'[e].part = i
    <3>1. PICK e \in Dp : rpc'[e] = "data" /\ rpart'[e].seq = q /\ rpart'[e].part = i
      BY <2>1
    <3>2. CASE e = d
      <4>1. q = a.seq /\ i = a.part /\ a.size > 0
        BY <1>3, <1>7, <1>17, <3>1, <3>2, MadeFacts DEF Inv
      <4> QED
        BY <1>16, <4>1
    <3>3. CASE e # d
      BY <1>3, <3>1, <3>3 DEF Coming
    <3> QED
      BY <3>2, <3>3
  <2>2. CASE \E e \in Dp : \E k \in 1 .. Len(net'[e]) :
               net'[e][k].kind = "data" /\ net'[e][k].a.seq = q /\ net'[e][k].a.part = i
    <3>1. PICK e \in Dp : \E k \in 1 .. Len(net'[e]) :
               net'[e][k].kind = "data" /\ net'[e][k].a.seq = q /\ net'[e][k].a.part = i
      BY <2>2
    <3>2. PICK k \in 1 .. Len(net'[e]) :
               net'[e][k].kind = "data" /\ net'[e][k].a.seq = q /\ net'[e][k].a.part = i
      BY <3>1
    <3>3. \E l \in 1 .. Len(net[e]) : net'[e][k] = net[e][l]
      BY <1>9 DEF Taken
    <3> QED
      BY <3>2, <3>3 DEF Coming
  <2> QED
    BY <1>4, <1>17, <2>1, <2>2 DEF Coming
<1>18. NotYetGot'
  BY <1>4, <1>15, <1>17, NotYetGotKept
<1>19. RecvStoreInv'
  <2> SUFFICES ASSUME NEW q \in DOMAIN recvStore'
               PROVE  /\ q \in DOMAIN written
                      /\ recvStore'[q].stream = written[q].stream
                      /\ recvStore'[q].size = Length(q, PartsOf(q))
                      /\ recvStore'[q].held \subseteq Payload(q)
    BY <1>4 DEF RecvStoreInv, Payload, PartsOf
  <2>1. CASE q \in DOMAIN recvStore
    BY <1>11, <2>1 DEF Inv, ReceiverInv, RecvStoreInv
  <2>2. CASE q \notin DOMAIN recvStore
    BY <1>8, <1>11, <1>12, <2>2 DEF FreshCompletion
  <2> QED
    BY <2>1, <2>2
<1>20. ReadLoopInv'
  <2>1. ASSUME NEW e \in Dp, rpc'[e] = "data", rpart'[e].size > 0
        PROVE  rpart'[e].seq \in DOMAIN recvStore'
    BY <1>3, <1>11, <2>1 DEF Inv, ReceiverInv, ReadLoopInv
  <2>2. ASSUME NEW e \in Dp, rpc'[e] \in {"lookup", "append"}
        PROVE  rdata'[e] = Payload(rpart[e].seq)'
    BY <1>1, <1>3, <1>4, <2>2 DEF Inv, ReceiverInv, ReadLoopInv, Payload
  <2> QED
    BY <2>1, <2>2 DEF ReadLoopInv
<1>21. AtMostOnce'
  BY <1>1, <1>3 DEF Inv, ReceiverInv, AtMostOnce, Delivered
<1>22. WholeSequences'
  BY <1>1, <1>4 DEF Inv, ReceiverInv, WholeSequences, Payload
<1> QED
  BY <1>9, <1>10, <1>13, <1>18, <1>19, <1>20, <1>21, <1>22 DEF ReceiverInv, Taken

\* The data that readLoop reads is the data it waits for; it has not been received
\* before, and nothing of it is on its way any more.
LEMMA DataIsNew ==
    ASSUME Inv, [Next]_vars, NEW d \in Dp, ReadData(d), NEW a, a = rpart[d]
    PROVE  /\ Made(a, d) /\ net[d][1] = [kind |-> "data", a |-> a]
           /\ ~ Got(a.seq, a.part)
           /\ Taken(d)
           /\ ~ Coming(a.seq, a.part)'
<1>0. net \in [Dp -> Seq(Unit)] /\ net[d] \in Seq(Unit)
  BY DEF Inv, ReceiverInv, NetTypeOK
<1>1. /\ rpc[d] = "data" /\ a.size > 0 /\ net[d] # <<>>
      /\ net' = [net EXCEPT ![d] = Tail(net[d])]
      /\ rpc' = [rpc EXCEPT ![d] = "lookup"] \/ rpc' = [rpc EXCEPT ![d] = "header"]
      /\ UNCHANGED <<sendVars, up, rpart>>
      /\ rpc \in [Dp -> {"header", "data", "lookup", "append", "nil"}]
  BY DEF ReadData, Inv, ReceiverInv, RecvTypeOK
<1>2. rpc'[d] # "data" /\ \A e \in Dp : e # d => rpc'[e] = rpc[e] /\ rpart'[e] = rpart[e]
  BY <1>1
<1>3. 1 \in 1 .. Len(net[d]) /\ net[d][1] \in Unit
  BY <1>0, <1>1
<1>4. UnitInv(d, 1) /\ DataOnceAt(d, 1)
  BY <1>3 DEF Inv, ReceiverInv, WireInv, DataOnce
<1>5. net[d][1].kind = "data" /\ net[d][1].a = a
  BY <1>1, <1>4 DEF UnitInv, Owed, OwedPart
<1>6. net[d][1] = [kind |-> "data", a |-> a]
  BY <1>3, <1>5 DEF Unit
<1>7. Made(a, d)
  BY <1>4, <1>5 DEF UnitInv
<1>8. ~ Got(a.seq, a.part)
  <2>1. Coming(a.seq, a.part)
    BY <1>1 DEF Coming
  <2>2. /\ a.seq \in DOMAIN written /\ a.part \in 1 .. Len(PartsOf(a.seq))
        /\ PartsOf(a.seq)[a.part].size > 0
    BY <1>1, <1>7, MadeFacts DEF Inv
  <2> QED
    BY <2>1, <2>2 DEF Inv, ReceiverInv, NotYetGot
<1>9. Taken(d)
  <2>1. rpc'[d] = "data" /\ rpart'[d].size > 0 <=> Opens(net[d][1])
    BY <1>2, <1>5 DEF Opens
  <2>2. UNCHANGED <<sendVars, up>> /\ rpart'[d] = net[d][1].a
    BY <1>1, <1>5
  <2> QED
    BY <1>1, <1>2, <2>1, <2>2, UnitTaken
<1>10. UNCHANGED <<written, writing, next, queue, wpc, wpart>>
  BY <1>1 DEF sendVars
<1>11. ASSUME NEW b, NEW e \in Dp, Made(b, e), b.seq = a.seq, b.part = a.part PROVE e = d
  BY <1>7, <1>11, SMTT(30) DEF Made
<1>12. ~ Coming(a.seq, a.part)'
  <2>1. ASSUME NEW w \in Writers, writing[w] = a.seq, next[w] <= a.part PROVE FALSE
    <3>1. a.part < next[w]
      BY <1>7, <2>1 DEF Made
    <3>2. a.part \in Nat /\ next[w] \in Nat
      <4>1. a \in Assignment
        BY <1>7, MadeFacts DEF Inv
      <4> QED
        BY <4>1 DEF Assignment, Inv, SenderInv, SendTypeOK
    <3> QED
      BY <2>1, <3>1, <3>2
  <2>2. ASSUME NEW e \in Dp, NEW k \in 1 .. Len(queue[e]),
               queue[e][k].seq = a.seq, queue[e][k].part = a.part
        PROVE  FALSE
    <3>1. Made(queue[e][k], e)
      BY DEF Inv, SenderInv, QueueInv, QueuedInv
    <3>2. e = d
      BY <1>11, <2>2, <3>1
    <3> QED
      BY <1>4, <1>5, <2>2, <3>2 DEF DataOnceAt, Same
  <2>3. ASSUME NEW e \in Dp, wpc[e] \in {"header", "data"},
               wpart[e].seq = a.seq, wpart[e].part = a.part
        PROVE  FALSE
    <3>1. Made(wpart[e], e)
      BY <2>3 DEF Inv, SenderInv, WriteLoopInv
    <3>2. e = d
      BY <1>11, <2>3, <3>1
    <3> QED
      BY <1>4, <1>5, <2>3, <3>2 DEF DataOnceAt, Same
  <2>4. ASSUME NEW e \in Dp, NEW k \in 1 .. Len(net'[e]), net'[e][k].kind = "data",
               net'[e][k].a.seq = a.seq, net'[e][k].a.part = a.part
        PROVE  FALSE
    <3>1. PICK l \in 1 .. Len(net[e]) : net'[e][k] = net[e][l] /\ (e = d => l = k + 1)
      BY <1>9 DEF Taken
    <3>2. Made(net[e][l].a, e)
      BY DEF Inv, ReceiverInv, WireInv, UnitInv
    <3>3. e = d
      BY <1>11, <2>4, <3>1, <3>2
    <3>4. l = 1
      BY <1>4, <1>5, <2>4, <3>1, <3>3 DEF DataOnceAt, Same
    <3>5. k \in Nat /\ k # 0
      BY <1>9, <3>3 DEF Taken
    <3> QED
      BY <3>1, <3>3, <3>4, <3>5
  <2>5. ASSUME NEW e \in Dp, rpc'[e] = "data", rpart[e].seq = a.seq, rpart[e].part = a.part
        PROVE  FALSE
    <3>1. e # d /\ rpc[e] = "data"
      BY <1>2, <2>5
    <3>2. rpart[e] # None
      BY <3>1 DEF Inv, ReceiverInv, RecvTypeOK
    <3>3. Made(rpart[e], e)
      BY <3>2 DEF Inv, ReceiverInv, WireInv
    <3> QED
      BY <1>11, <2>5, <3>1, <3>3
  <2> SUFFICES ASSUME NEW q, NEW i, q = a.seq, i = a.part, Coming(q, i)' PROVE FALSE
    BY DEF Coming
  <2> QED
    BY <1>1, <1>10, <2>1, <2>2, <2>3, <2>4, <2>5 DEF Coming
<1> QED
  BY <1>6, <1>7, <1>8, <1>9, <1>12

\* c is the completion of a's Write with a's data and nothing else added.
Grown(c, a) ==
    /\ c \in Completion
    /\ c.stream = recvStore[a.seq].stream /\ c.size = recvStore[a.seq].size
    /\ c.held \subseteq Payload(a.seq)
    /\ \A e \in c.held : e.key # a.part => e \in recvStore[a.seq].held
    /\ IsComplete(c) => c.held = Payload(a.seq)

\* AddPart keeps a completion a set of parts of its own Write, and when IsComplete
\* says so it is all of them.
LEMMA PartAdded ==
    ASSUME Inv, NEW a, NEW d, Made(a, d), a.size > 0, a.seq \in DOMAIN recvStore,
           NEW c, c = AddPart(recvStore[a.seq], a.part,
                              [seq |-> a.seq, part |-> a.part, size |-> a.size])
    PROVE  Grown(c, a)
<1> PICK q, i, old, data :
        /\ q = a.seq /\ i = a.part /\ old = recvStore[q]
        /\ data = [seq |-> a.seq, part |-> a.part, size |-> a.size]
  OBVIOUS
<1>1. /\ q \in DOMAIN written /\ q \in SeqIds /\ PartsOf(q) \in Decisions
      /\ i \in 1 .. Len(PartsOf(q)) /\ a.size = PartsOf(q)[i].size /\ a.size \in Nat
      /\ a \in Assignment
  BY MadeFacts DEF Inv
<1>2. i \in Nat /\ data \in Data
  BY <1>1 DEF Data, Assignment
<1>3. old \in Completion /\ old.size = Length(q, PartsOf(q)) /\ old.held \subseteq Payload(q)
  BY DEF Inv, ReceiverInv, RecvTypeOK, RecvStoreInv
<1>4. /\ c \in Completion /\ c.stream = old.stream /\ c.size = old.size
      /\ c.held = {e \in old.held : e.key # i} \cup {[key |-> i, data |-> data]}
      /\ c.held # {}
  <2>1. c = AddPart(old, i, data)
    OBVIOUS
  <2> QED
    BY <1>2, <1>3, <2>1, AddPartFacts
<1>5. Payload(q) = NonEmpty(Slices(q, PartsOf(q)))
  BY DEF Payload, NonEmpty, PartsOf
<1>6. [key |-> i, data |-> data] \in Payload(q)
  <2>1. [key |-> i, data |-> data] = Slice(q, PartsOf(q), i)
    BY <1>1 DEF Slice
  <2>2. [key |-> i, data |-> data].data.size > 0
    OBVIOUS
  <2> QED
    BY <1>1, <1>5, <2>1, <2>2 DEF NonEmpty, Slices
<1>7. c.held \subseteq Payload(q)
  BY <1>3, <1>4, <1>6
<1>8. ASSUME IsComplete(c) PROVE c.held = Payload(q)
  <2>1. Cardinality(Bytes(c.held)) = Length(q, PartsOf(q))
    BY <1>3, <1>4, <1>8 DEF IsComplete
  <2> QED
    BY <1>1, <1>5, <1>7, <2>1, CountingIsEnough
<1> QED
  BY <1>4, <1>7, <1>8 DEF Grown

LEMMA ReadDataReceiver ==
    ASSUME Inv, [Next]_vars, NEW d \in Dp, ReadData(d) PROVE ReceiverInv'
<1> PICK a, q0, i0 : a = rpart[d] /\ q0 = a.seq /\ i0 = a.part
  OBVIOUS
<1>0. /\ Made(a, d) /\ net[d][1] = [kind |-> "data", a |-> a]
      /\ ~ Got(q0, i0) /\ Taken(d) /\ ~ Coming(q0, i0)'
  <2>1. /\ Made(a, d) /\ net[d][1] = [kind |-> "data", a |-> a]
        /\ ~ Got(a.seq, a.part) /\ Taken(d) /\ ~ Coming(a.seq, a.part)'
    BY DataIsNew
  <2>2. ~ Coming(q0, i0)'
    BY <2>1 DEF Coming
  <2> QED
    BY <2>1, <2>2
<1>1. PICK c : c = AddPart(recvStore[q0], i0, [seq |-> q0, part |-> i0, size |-> a.size])
  OBVIOUS
<1>2. /\ rpc[d] = "data" /\ a.size > 0 /\ net[d] # <<>> /\ Head(net[d]) = net[d][1]
      /\ rpc \in [Dp -> {"header", "data", "lookup", "append", "nil"}]
      /\ rdata \in [Dp -> SUBSET Entry]
  BY DEF ReadData, Inv, ReceiverInv, RecvTypeOK, NetTypeOK
<1>3. /\ recvStore' = Put(recvStore, q0, c)
      /\ \/ IsComplete(c) /\ rpc' = [rpc EXCEPT ![d] = "lookup"]
                          /\ rdata' = [rdata EXCEPT ![d] = c.held]
         \/ rpc' = [rpc EXCEPT ![d] = "header"] /\ UNCHANGED rdata
      /\ UNCHANGED <<sendVars, up, rpart, accepted, storing, readBuffer, panicked>>
  BY <1>0, <1>1, <1>2 DEF ReadData
<1>4. q0 \in DOMAIN recvStore
  BY <1>2 DEF Inv, ReceiverInv, ReadLoopInv
<1>5. /\ c \in Completion
      /\ c.stream = recvStore[q0].stream /\ c.size = recvStore[q0].size
      /\ c.held \subseteq Payload(q0)
      /\ \A e \in c.held : e.key # i0 => e \in recvStore[q0].held
      /\ IsComplete(c) => c.held = Payload(q0)
  <2>1. /\ a.seq \in DOMAIN recvStore
        /\ c = AddPart(recvStore[a.seq], a.part,
                       [seq |-> a.seq, part |-> a.part, size |-> a.size])
    BY <1>1, <1>4
  <2>2. Grown(c, a)
    BY <1>0, <1>2, <2>1, PartAdded
  <2> QED
    BY <2>2 DEF Grown
<1>6. /\ DOMAIN recvStore' = DOMAIN recvStore /\ recvStore'[q0] = c
      /\ \A q \in DOMAIN recvStore : q # q0 => recvStore'[q] = recvStore[q]
  BY <1>3, <1>4 DEF Put
<1>7. /\ \A e \in Dp : e # d => rpc'[e] = rpc[e] /\ rdata'[e] = rdata[e]
      /\ \/ rpc'[d] = "lookup" /\ IsComplete(c) /\ rdata'[d] = c.held
         \/ rpc'[d] = "header"
      /\ rpc' \in [Dp -> {"header", "data", "lookup", "append", "nil"}]
  BY <1>2, <1>3
<1>8. rdata' \in [Dp -> SUBSET Entry]
  BY <1>2, <1>3, <1>5 DEF Completion
<1>9. UNCHANGED <<written, writing, next, sendStore, queue, wpc, wpart>>
  BY <1>3 DEF sendVars
<1>10. NetTypeOK'
  BY <1>0, <1>3 DEF Taken, Inv, ReceiverInv, NetTypeOK
<1>11. RecvTypeOK'
  <2>1. \A q \in DOMAIN recvStore' : recvStore'[q] \in Completion
    BY <1>5, <1>6 DEF Inv, ReceiverInv, RecvTypeOK
  <2>2. rpart[d] # None
    BY <1>2 DEF Inv, ReceiverInv, RecvTypeOK
  <2> QED
    BY <1>3, <1>6, <1>7, <1>8, <2>1, <2>2 DEF Inv, ReceiverInv, RecvTypeOK
<1>12. ~ Assembled(q0)
  BY <1>0 DEF Got
<1>13. ASSUME NEW q, NEW i, Coming(q, i)' PROVE Coming(q, i)
  <2>1. CASE \E e \in Dp : rpc'[e] = "data" /\ rpart'[e].seq = q /\ rpart'[e].part = i
    BY <1>3, <1>7, <2>1 DEF Coming
  <2>2. CASE \E e \in Dp : \E k \in 1 .. Len(net'[e]) :
               net'[e][k].kind = "data" /\ net'[e][k].a.seq = q /\ net'[e][k].a.part = i
    <3>1. PICK e \in Dp : \E k \in 1 .. Len(net'[e]) :
               net'[e][k].kind = "data" /\ net'[e][k].a.seq = q /\ net'[e][k].a.part = i
      BY <2>2
    <3>2. PICK k \in 1 .. Len(net'[e]) :
               net'[e][k].kind = "data" /\ net'[e][k].a.seq = q /\ net'[e][k].a.part = i
      BY <3>1
    <3>3. \E l \in 1 .. Len(net[e]) : net'[e][k] = net[e][l]
      BY <1>0, SMTT(30) DEF Taken
    <3> QED
      BY <3>2, <3>3 DEF Coming
  <2> QED
    BY <1>9, <1>13, <2>1, <2>2 DEF Coming
<1>14. NotYetGot'
  <2> SUFFICES ASSUME NEW q \in DOMAIN written, NEW i \in 1 .. Len(PartsOf(q)),
                      PartsOf(q)[i].size > 0, Coming(q, i)', Got(q, i)'
               PROVE  FALSE
    BY <1>9 DEF NotYetGot, PartsOf
  <2>1. ~ Got(q, i)
    BY <1>13 DEF Inv, ReceiverInv, NotYetGot
  <2>2. CASE q # q0
    <3>1. Assembled(q)' => Assembled(q)
      BY <1>3, <1>7, <2>2 DEF Assembled, Finishing, Delivered
    <3> QED
      BY <1>6, <2>1, <2>2, <3>1 DEF Got
  <2>3. CASE q = q0
    <3>1. i # i0
      BY <1>0, <2>3
    <3>2. ~ \E e \in c.held : e.key = i
      BY <1>4, <1>5, <2>1, <2>3, <3>1 DEF Got
    <3>3. Assembled(q0)'
      BY <1>6, <2>3, <3>2 DEF Got
    <3>4. rpc'[d] = "lookup"
      BY <1>3, <1>7, <1>12, <3>3 DEF Assembled, Finishing, Delivered
    <3>5. c.held = Payload(q0)
      BY <1>5, <1>7, <3>4
    <3>6. Slice(q, PartsOf(q), i) \in Payload(q) /\ Slice(q, PartsOf(q), i).key = i
      BY DEF Payload, Slices, Slice, PartsOf
    <3> QED
      BY <2>3, <3>2, <3>5, <3>6
  <2> QED
    BY <2>2, <2>3
<1>15. RecvStoreInv'
  <2> SUFFICES ASSUME NEW q \in DOMAIN recvStore'
               PROVE  /\ q \in DOMAIN written
                      /\ recvStore'[q].stream = written[q].stream
                      /\ recvStore'[q].size = Length(q, PartsOf(q))
                      /\ recvStore'[q].held \subseteq Payload(q)
    BY <1>9 DEF RecvStoreInv, Payload, PartsOf
  <2> QED
    BY <1>5, <1>6 DEF Inv, ReceiverInv, RecvStoreInv
<1>16. ReadLoopInv'
  <2>1. ASSUME NEW e \in Dp, rpc'[e] = "data", rpart'[e].size > 0
        PROVE  rpart'[e].seq \in DOMAIN recvStore'
    BY <1>3, <1>6, <1>7, <2>1 DEF Inv, ReceiverInv, ReadLoopInv
  <2>2. ASSUME NEW e \in Dp, rpc'[e] \in {"lookup", "append"}
        PROVE  rdata'[e] = Payload(rpart[e].seq)'
    <3>1. CASE e = d
      BY <1>3, <1>5, <1>7, <1>9, <2>2, <3>1 DEF Payload
    <3>2. CASE e # d
      BY <1>3, <1>7, <1>9, <2>2, <3>2 DEF Inv, ReceiverInv, ReadLoopInv, Payload
    <3> QED
      BY <3>1, <3>2
  <2> QED
    BY <2>1, <2>2 DEF ReadLoopInv
<1>17. AtMostOnce'
  <2>1. ~ Delivered(q0) /\ \A e \in Dp : rpc[e] \in {"lookup", "append", "nil"} => rpart[e].seq # q0
    BY <1>12 DEF Assembled, Finishing
  <2>2. ASSUME NEW e \in Dp, rpc'[e] \in {"lookup", "append", "nil"}
        PROVE  ~ Delivered(rpart[e].seq) /\ (e # d => rpart[e].seq # q0)
    BY <1>7, <2>1, <2>2 DEF Inv, ReceiverInv, AtMostOnce
  <2>3. ASSUME NEW e \in Dp, NEW f \in Dp, rpc'[e] \in {"lookup", "append", "nil"},
               rpc'[f] \in {"lookup", "append", "nil"}, rpart[f].seq = rpart[e].seq
        PROVE  e = f
    BY <1>7, <2>2, <2>3 DEF Inv, ReceiverInv, AtMostOnce
  <2> QED
    BY <1>3, <2>2, <2>3 DEF Inv, ReceiverInv, AtMostOnce, Delivered
<1>18. WholeSequences'
  BY <1>3, <1>9 DEF Inv, ReceiverInv, WholeSequences, Payload
<1> QED
  BY <1>0, <1>10, <1>11, <1>14, <1>15, <1>16, <1>17, <1>18 DEF ReceiverInv, Taken

-----------------------------------------------------------------------------
(* The theorems. *)

LEMMA InitReceiver == Init => ReceiverInv
<1> SUFFICES ASSUME Init PROVE ReceiverInv
  OBVIOUS
<1> USE DEF Init
<1>1. DOMAIN EmptyMap = {}
  BY DEF EmptyMap
<1>2. NetTypeOK
  BY DEF NetTypeOK
<1>3. RecvTypeOK
  <2>1. readBuffer \in [Streams -> Seq(Item)] /\ rdata \in [Dp -> SUBSET Entry]
    OBVIOUS
  <2>2. /\ rpc \in [Dp -> {"header", "data", "lookup", "append", "nil"}]
        /\ rpart \in [Dp -> Assignment \cup {None}]
        /\ \A d \in Dp : rpart[d] = None => rpc[d] = "header"
    OBVIOUS
  <2>3. DOMAIN recvStore = {} /\ panicked \in BOOLEAN /\ storing = None
    BY <1>1
  <2>4. accepted \subseteq Streams
    BY DataplaneAssumption DEF DataplaneAssumption
  <2> HIDE DEF Init
  <2> QED
    BY <2>1, <2>2, <2>3, <2>4 DEF RecvTypeOK
<1>4. \A d \in Dp : net[d] = <<>> /\ Len(net[d]) = 0 /\ rpart[d] = None /\ rpc[d] = "header"
                    /\ wpc[d] = "get"
  OBVIOUS
<1>5. WireInv
  BY <1>4 DEF WireInv, EndInv, Owed
<1>6. DataOnce
  BY <1>4 DEF DataOnce
<1>7. NotYetGot /\ RecvStoreInv /\ ReadLoopInv
  BY <1>1, <1>4 DEF NotYetGot, RecvStoreInv, ReadLoopInv
<1>8. AtMostOnce /\ WholeSequences
  BY <1>4 DEF AtMostOnce, WholeSequences, Delivered
<1> QED
  BY <1>2, <1>3, <1>5, <1>6, <1>7, <1>8 DEF ReceiverInv

LEMMA StepInv == Inv /\ [Next]_vars => Inv'
<1> SUFFICES ASSUME Inv, [Next]_vars PROVE ReceiverInv'
  BY StepSender DEF Inv
<1>1. ASSUME NEW w \in Writers, NEW dec \in Decisions, Write(w, dec) PROVE ReceiverInv'
  BY <1>1, WriteReceiver
<1>2. ASSUME NEW w \in Writers, Enqueue(w) PROVE ReceiverInv'
  BY <1>2, EnqueueReceiver
<1>3. ASSUME NEW d \in Dp, WriteLoop(d) PROVE ReceiverInv'
  BY <1>3, DequeueReceiver, WriteHeaderReceiver, WriteDataReceiver, WriteFailsReceiver,
     CountPartReceiver, CompleteReceiver DEF WriteLoop
<1>4. ASSUME NEW d \in Dp, ReadLoop(d) PROVE ReceiverInv'
  BY <1>4, ReadHeaderReceiver, ReadDataReceiver, ReadFailsReceiver, LookupReceiver,
     DeliverReceiver, PanicReceiver DEF ReadLoop
<1>5. ASSUME NEW d \in Dp, ConnectionLost(d) PROVE ReceiverInv'
  BY <1>5, ConnectionLostReceiver
<1>6. ASSUME NEW s \in Streams, AcceptStream(s) PROVE ReceiverInv'
  BY <1>6, AcceptReceiver
<1>7. StreamStored \/ UNCHANGED vars => ReceiverInv'
  BY StoredReceiver, StutterReceiver
<1> QED
  BY <1>1, <1>2, <1>3, <1>4, <1>5, <1>6, <1>7 DEF Next

\* Inv is an invariant of the dataplane, for any number of writers, streams and
\* paths, any window, whatever the scheduler decides and whichever connections are
\* lost.
THEOREM DataplaneCorrect == Spec => []Inv
<1>1. Init => Inv
  BY InitSender, InitReceiver DEF Inv
<1> QED
  BY <1>1, StepInv, PTL DEF Spec

\* The state of the write and read loops is well typed.
THEOREM TypesCorrect == Spec => []TypeOK
<1>1. Inv => TypeOK
  BY DEF Inv, SenderInv, ReceiverInv, TypeOK
<1> QED
  BY <1>1, DataplaneCorrect, PTL

\* The Data that readLoop appends to a ReadBuffer is the whole of one Write to that
\* stream, however parts of several Writes interleave on several connections.
THEOREM SequencesAreWhole == Spec => []WholeSequences
<1>1. Inv => WholeSequences
  BY DEF Inv, ReceiverInv
<1> QED
  BY <1>1, DataplaneCorrect, PTL

\* No Write is appended twice, also not by two readLoops that add its last parts at
\* the same time.
THEOREM DeliveredAtMostOnce == Spec => []AtMostOnce
<1>1. Inv => AtMostOnce
  BY DEF Inv, ReceiverInv
<1> QED
  BY <1>1, DataplaneCorrect, PTL

\* No RemoveCompletion takes a completion from a writeLoop or a readLoop that goes
\* on to use it.
THEOREM CompletionsStayLive == Spec => []HeldCompletionLive
<1>1. Inv => HeldCompletionLive
  <2> SUFFICES ASSUME Inv, NEW d \in Dp
               PROVE  /\ wpc[d] \in {"header", "data", "count"} => wpart[d].seq \in DOMAIN sendStore
                      /\ \A i \in 1 .. Len(queue[d]) : queue[d][i].seq \in DOMAIN sendStore
                      /\ rpc[d] = "data" /\ rpart[d].size > 0 => rpart[d].seq \in DOMAIN recvStore
    BY DEF HeldCompletionLive
  <2>1. wpc[d] \in {"header", "data", "count"} => wpart[d].seq \in DOMAIN sendStore
    BY DEF Inv, SenderInv, WriteLoopInv
  <2>2. \A i \in 1 .. Len(queue[d]) : queue[d][i].seq \in DOMAIN sendStore
    BY DEF Inv, SenderInv, QueueInv, QueuedInv
  <2>3. rpc[d] = "data" /\ rpart[d].size > 0 => rpart[d].seq \in DOMAIN recvStore
    BY DEF Inv, ReceiverInv, ReadLoopInv
  <2> QED
    BY <2>1, <2>2, <2>3
<1> QED
  BY <1>1, DataplaneCorrect, PTL

\* readLoop never takes data for a header or a header for data, and never files
\* data under the header of another part.
THEOREM StreamsAreFramed == Spec => []Framed
<1>1. Inv => Framed
  <2> SUFFICES ASSUME Inv, NEW d \in Dp, net[d] # <<>>
               PROVE  /\ rpc[d] = "header" => Head(net[d]).kind = "header"
                      /\ rpc[d] = "data" /\ rpart[d].size > 0 =>
                            Head(net[d]) = [kind |-> "data", a |-> rpart[d]]
    BY DEF Framed
  <2>1. net[d] \in Seq(Unit)
    BY DEF Inv, ReceiverInv, NetTypeOK
  <2>2. 1 \in 1 .. Len(net[d]) /\ Head(net[d]) = net[d][1] /\ net[d][1] \in Unit
    BY <2>1, TailFacts
  <2>3. UnitInv(d, 1)
    BY <2>2 DEF Inv, ReceiverInv, WireInv
  <2>4. net[d][1].kind = "data" <=> rpc[d] = "data" /\ rpart[d].size > 0
    BY <2>3 DEF UnitInv, Owed
  <2>5. net[d][1].kind = "data" => net[d][1].a = rpart[d]
    BY <2>3 DEF UnitInv, OwedPart
  <2> QED
    BY <2>2, <2>4, <2>5 DEF Unit
<1> QED
  BY <1>1, DataplaneCorrect, PTL
=============================================================================
