--------------------------- MODULE DeliveryProofs ---------------------------
(***************************************************************************)
(* What follows from the dataplane's invariant, and what it leaves out:    *)
(* the dataplane implements Transfer, no completion is orphaned, a Write   *)
(* that has returned is on its way, and Writes on one path arrive in       *)
(* order.                                                                  *)
(***************************************************************************)
EXTENDS DataplaneProofs

-----------------------------------------------------------------------------
(* Refinement. *)

\* The sequences in the ReadBuffers, without their bytes.
Ids == [s \in Streams |-> [i \in 1 .. Len(readBuffer[s]) |-> readBuffer[s][i].seq]]

\* Every entry of a ReadBuffer is a whole Write, so the mapping never hides one.
LEMMA ReceivedIds == Inv => received = Ids
<1> SUFFICES ASSUME Inv, NEW s \in Streams, NEW i \in 1 .. Len(readBuffer[s])
             PROVE  /\ readBuffer[s][i].seq \in DOMAIN written
                    /\ readBuffer[s][i].data = Payload(readBuffer[s][i].seq)
  BY DEF received, Ids
<1> QED
  BY DEF Inv, ReceiverInv, WholeSequences

LEMMA ReceivedIdsNext == Inv' => received' = Ids'
<1> SUFFICES ASSUME Inv', NEW s \in Streams, NEW i \in 1 .. Len(readBuffer'[s])
             PROVE  /\ readBuffer'[s][i].seq \in DOMAIN written'
                    /\ readBuffer'[s][i].data = Payload(readBuffer[s][i].seq)'
  BY DEF received, Ids
<1> QED
  BY DEF Inv, ReceiverInv, WholeSequences

\* Appending to a ReadBuffer appends the sequence id.
LEMMA IdsAppend ==
    ASSUME NEW b \in Seq(Item), NEW r \in Item
    PROVE  [i \in 1 .. Len(Append(b, r)) |-> Append(b, r)[i].seq]
              = Append([i \in 1 .. Len(b) |-> b[i].seq], r.seq)
<1> DEFINE f == [i \in 1 .. Len(b) |-> b[i].seq]
           g == [i \in 1 .. Len(Append(b, r)) |-> Append(b, r)[i].seq]
<1>1. r.seq \in SeqIds /\ \A i \in 1 .. Len(b) : b[i].seq \in SeqIds
  <2>1. \A i \in 1 .. Len(b) : b[i] \in Item
    OBVIOUS
  <2> QED
    BY <2>1 DEF Item
<1>2. f \in Seq(SeqIds) /\ Len(f) = Len(b)
  BY <1>1
<1>3. /\ Len(Append(b, r)) = Len(b) + 1 /\ Append(b, r)[Len(b) + 1] = r
      /\ \A i \in 1 .. Len(b) : Append(b, r)[i] = b[i]
      /\ Len(b) \in Nat
  OBVIOUS
<1>4. g \in Seq(SeqIds) /\ Len(g) = Len(b) + 1
  BY <1>1, <1>3
<1>5. \A i \in 1 .. Len(b) + 1 : g[i] = Append(f, r.seq)[i]
  BY <1>2, <1>3
<1> HIDE DEF f, g
<1> QED
  BY <1>1, <1>2, <1>3, <1>4, <1>5

\* The initial states of the dataplane are initial states of the service.
LEMMA InitTransfer == Init => T!Init
BY DEF Init, T!Init, asked, received, done, EmptyMap

\* A step that leaves the Writes and the ReadBuffers alone cannot be seen.
LEMMA Invisible ==
    ASSUME UNCHANGED <<written, writing, readBuffer>>
    PROVE  UNCHANGED T!vars
BY DEF T!vars, asked, received, done, Payload

\* Write is Ask.
LEMMA WriteAsks ==
    ASSUME Inv, Inv', NEW w \in Writers, NEW dec \in Decisions, Write(w, dec)
    PROVE  T!Next
<1>1. PICK q \in SeqIds \ DOMAIN written :
        /\ DOMAIN written' = DOMAIN written \cup {q}
        /\ written'[q].stream = StreamOf[w]
        /\ \A x \in DOMAIN written : written'[x] = written[x]
        /\ writing' = [writing EXCEPT ![w] = q]
  <2>1. PICK q \in SeqIds \ DOMAIN written :
          /\ written' = Put(written, q, [stream |-> StreamOf[w], writer |-> w,
                                         no |-> Cardinality(DOMAIN written), parts |-> dec])
          /\ writing' = [writing EXCEPT ![w] = q]
    BY DEF Write
  <2> DEFINE rec == [stream |-> StreamOf[w], writer |-> w,
                     no |-> Cardinality(DOMAIN written), parts |-> dec]
  <2>2. rec.stream = StreamOf[w]
    OBVIOUS
  <2> HIDE DEF rec
  <2>3. /\ DOMAIN written' = DOMAIN written \cup {q} /\ written'[q] = rec
        /\ \A x \in DOMAIN written : x # q => written'[x] = written[x]
    <3>1. written' = Put(written, q, rec)
      BY <2>1 DEF rec
    <3> QED
      BY <3>1 DEF Put
  <2> QED
    BY <2>1, <2>2, <2>3
<1>2. readBuffer' = readBuffer /\ writing[w] = None /\ StreamOf[w] \in Streams
      /\ None \notin SeqIds
  BY DataplaneAssumption DEF Write, recvVars, DataplaneAssumption
<1>3. /\ writing \in [Writers -> SeqIds \cup {None}]
      /\ DOMAIN written \subseteq SeqIds
  BY DEF Inv, SenderInv, SendTypeOK
<1>4. received' = received
  <2>1. Ids' = Ids
    BY <1>2 DEF Ids
  <2> QED
    BY <2>1, ReceivedIds, ReceivedIdsNext
<1>5. done' = done
  <2>1. \A x \in DOMAIN written : (\A v \in Writers : writing'[v] # x)
                                     <=> (\A v \in Writers : writing[v] # x)
    BY <1>1, <1>2, <1>3
  <2>2. \E v \in Writers : writing'[v] = q
    BY <1>1, <1>3
  <2> QED
    BY <1>1, <2>1, <2>2 DEF done
<1>6. asked' = [x \in DOMAIN asked \cup {q} |-> IF x = q THEN StreamOf[w] ELSE asked[x]]
  BY <1>1 DEF asked
<1>7. q \notin DOMAIN asked
  BY DEF asked
<1> HIDE DEF asked, received, done
<1>8. T!Ask(q, StreamOf[w])
  BY <1>4, <1>5, <1>6, <1>7 DEF T!Ask
<1> QED
  BY <1>2, <1>8 DEF T!Next
\* The rendezvous of a writeLoop with the Write is Return.
LEMMA CompleteReturns ==
    ASSUME Inv, NEW d \in Dp, NEW w \in Writers, Complete(d, w)
    PROVE  T!Next
<1> PICK q : q = writing[w]
  OBVIOUS
<1>1. /\ wpc[d] = "signal" /\ q = wpart[d].seq
      /\ writing' = [writing EXCEPT ![w] = None]
      /\ UNCHANGED <<written, readBuffer>>
  BY DEF Complete, recvVars
<1>2. q \in SeqIds /\ q \in DOMAIN written /\ None \notin SeqIds
  <2>1. wpart[d] \in Assignment
    BY <1>1 DEF Inv, SenderInv, SendTypeOK
  <2>2. Made(wpart[d], d)
    BY <1>1 DEF Inv, SenderInv, WriteLoopInv
  <2> QED
    BY <1>1, <2>1, <2>2, DataplaneAssumption DEF Made, Assignment, DataplaneAssumption
<1>3. \A v \in Writers : writing[v] = q => v = w
  BY <1>2, OneWriter DEF Inv
<1>4. /\ writing \in [Writers -> SeqIds \cup {None}]
      /\ DOMAIN written \subseteq SeqIds
  BY DEF Inv, SenderInv, SendTypeOK
<1>5. q \notin done /\ done' = done \cup {q}
  <2>1. \A x \in DOMAIN written : (\A v \in Writers : writing'[v] # x)
                                     <=> x = q \/ (\A v \in Writers : writing[v] # x)
    BY <1>1, <1>2, <1>3, <1>4
  <2>2. done' = {x \in DOMAIN written : x = q \/ \A v \in Writers : writing[v] # x}
    BY <1>1, <2>1 DEF done
  <2> QED
    BY <1>2, <2>2 DEF done
<1>6. asked' = asked /\ received' = received /\ q \in DOMAIN asked
  BY <1>1, <1>2 DEF asked, received, Payload
<1> HIDE DEF asked, received, done
<1>7. T!Return(q)
  BY <1>5, <1>6 DEF T!Return
<1> QED
  BY <1>2, <1>7 DEF T!Next

\* Append of a completed sequence to its ReadBuffer is Arrive.
LEMMA DeliverArrives ==
    ASSUME Inv, Inv', NEW d \in Dp, Deliver(d)
    PROVE  T!Next
<1> PICK q, s, r : /\ q = rpart[d].seq /\ s = rpart[d].stream
                   /\ r = [seq |-> q, data |-> rdata[d]]
  OBVIOUS
<1>1. /\ rpc[d] = "append"
      /\ readBuffer' = [readBuffer EXCEPT ![s] = Append(readBuffer[s], r)]
      /\ UNCHANGED <<written, writing>>
  BY DEF Deliver, sendVars
<1>2. /\ q \in DOMAIN written /\ q \in SeqIds /\ s = written[q].stream
      /\ s \in Streams
  <2>1. rpart[d] # None /\ rpart[d] \in Assignment
    BY <1>1 DEF Inv, ReceiverInv, RecvTypeOK
  <2>2. Made(rpart[d], d)
    BY <2>1 DEF Inv, ReceiverInv, WireInv
  <2>3. q \in DOMAIN written /\ q \in SeqIds /\ s = written[q].stream
    BY <2>2, MadeFacts DEF Inv
  <2> QED
    BY <2>1, <2>3 DEF Assignment
<1>3. r \in Item /\ readBuffer \in [Streams -> Seq(Item)]
  <2>1. rdata[d] \in SUBSET Entry
    BY DEF Inv, ReceiverInv, RecvTypeOK
  <2>2. readBuffer \in [Streams -> Seq(Item)]
    BY SMTT(30) DEF Inv, ReceiverInv, RecvTypeOK
  <2> QED
    BY <1>2, <2>1, <2>2 DEF Item
<1>4. Ids' = [Ids EXCEPT ![s] = Append(Ids[s], q)]
  <2>1. /\ readBuffer'[s] = Append(readBuffer[s], r)
        /\ \A x \in Streams : x # s => readBuffer'[x] = readBuffer[x]
    BY <1>1, <1>2, <1>3
  <2>2. Ids'[s] = Append(Ids[s], q)
    <3>1. readBuffer[s] \in Seq(Item) /\ r.seq = q
      BY <1>2, <1>3
    <3>2. [i \in 1 .. Len(readBuffer'[s]) |-> readBuffer'[s][i].seq]
             = Append([i \in 1 .. Len(readBuffer[s]) |-> readBuffer[s][i].seq], q)
      BY ONLY <1>3, <2>1, <3>1, IdsAppend
    <3> QED
      BY <1>2, <3>2, Zenon DEF Ids
  <2>3. \A x \in Streams : x # s => Ids'[x] = Ids[x]
    BY <2>1 DEF Ids
  <2>4. Ids = [x \in Streams |-> Ids[x]] /\ Ids' = [x \in Streams |-> Ids'[x]]
    BY DEF Ids
  <2> HIDE DEF Ids
  <2> QED
    BY <1>2, <2>2, <2>3, <2>4
<1>5. ~ T!Arrived(q)
  <2>1. ~ Delivered(q)
    BY <1>1 DEF Inv, ReceiverInv, AtMostOnce
  <2>2. \A x \in Streams : Len(Ids[x]) = Len(readBuffer[x])
    BY <1>3 DEF Ids
  <2>3. \A x \in Streams : \A i \in 1 .. Len(Ids[x]) : Ids[x][i] # q
    BY <2>1, <2>2 DEF Ids, Delivered
  <2>4. received = Ids
    BY ReceivedIds
  <2> HIDE DEF received, Ids
  <2> QED
    BY <2>3, <2>4 DEF T!Arrived
<1>6. asked' = asked /\ done' = done /\ q \in DOMAIN asked /\ asked[q] = s
  BY <1>1, <1>2 DEF asked, done
<1>7. received' = [received EXCEPT ![asked[q]] = Append(received[asked[q]], q)]
  <2> HIDE DEF received, Ids, asked
  <2> QED
    BY <1>4, <1>6, ReceivedIds, ReceivedIdsNext
<1> HIDE DEF asked, received, done
<1>8. T!Arrive(q)
  BY <1>5, <1>6, <1>7 DEF T!Arrive
<1> QED
  BY <1>2, <1>8 DEF T!Next

\* Every step of the dataplane is a step of the service or cannot be seen.
LEMMA StepTransfer == Inv /\ Inv' /\ [Next]_vars => [T!Next]_(T!vars)
<1> SUFFICES ASSUME Inv, Inv', [Next]_vars PROVE T!Next \/ UNCHANGED T!vars
  OBVIOUS
<1>1. ASSUME NEW w \in Writers, NEW dec \in Decisions, Write(w, dec) PROVE T!Next
  BY <1>1, WriteAsks, SMTT(30)
<1>2. ASSUME NEW w \in Writers, Enqueue(w)
      PROVE  UNCHANGED <<written, writing, readBuffer>>
  BY <1>2 DEF Enqueue, recvVars
<1>3. ASSUME NEW d \in Dp, NEW w \in Writers, Complete(d, w) PROVE T!Next
  BY <1>3, CompleteReturns
<1>4. ASSUME NEW d \in Dp, \/ Dequeue(d) \/ WriteHeader(d) \/ WriteData(d)
                           \/ WriteFails(d) \/ CountPart(d) \/ ConnectionLost(d)
      PROVE  UNCHANGED <<written, writing, readBuffer>>
  BY <1>4 DEF Dequeue, WriteHeader, WriteData, WriteFails, CountPart, ConnectionLost,
              sendVars, recvVars
<1>5. ASSUME NEW d \in Dp, Deliver(d) PROVE T!Next
  BY <1>5, DeliverArrives
<1>6. ASSUME NEW d \in Dp, ReadHeader(d) \/ ReadData(d) \/ ReadFails(d) \/ Lookup(d) \/ Panic(d)
      PROVE  UNCHANGED <<written, writing, readBuffer>>
  BY <1>6 DEF ReadHeader, ReadData, ReadFails, Lookup, Panic, sendVars
<1>7. ASSUME NEW s \in Streams, AcceptStream(s)
      PROVE  UNCHANGED <<written, writing, readBuffer>>
  BY <1>7 DEF AcceptStream, sendVars
<1>8. StreamStored \/ UNCHANGED vars => UNCHANGED <<written, writing, readBuffer>>
  BY DEF StreamStored, vars, sendVars, recvVars
<1> QED
  BY <1>1, <1>2, <1>3, <1>4, <1>5, <1>6, <1>7, <1>8, Invisible DEF Next, WriteLoop, ReadLoop

\* Write, the queues, the writeLoops, the QUIC streams and the readLoops together
\* are the transfer service: each Write arrives whole and at most once, on its own
\* stream, whatever the paths do.
THEOREM DataplaneImplementsTransfer == Spec => ImplementsTransfer
BY InitTransfer, StepTransfer, DataplaneCorrect, PTL DEF Spec, ImplementsTransfer, T!Spec

-----------------------------------------------------------------------------
(* The completion stores. *)

\* A readLoop that waits for a header finds the header of a part whose data is
\* still to come, and so of a Write that is not yet assembled.
LEMMA HeaderBeforeData ==
    ASSUME Inv, NEW d \in Dp, rpc[d] = "header", net[d] # <<>>,
           NEW a, a = net[d][1].a, a.size > 0
    PROVE  ~ Assembled(a.seq)
<1>1. /\ net[d] \in Seq(Unit) /\ 1 \in 1 .. Len(net[d]) /\ Len(net[d]) \in Nat
      /\ net[d][1] \in Unit
  BY TailFacts DEF Inv, ReceiverInv, NetTypeOK
<1>2. UnitInv(d, 1) /\ EndInv(d)
  BY <1>1 DEF Inv, ReceiverInv, WireInv
<1>3. Opens(net[d][1])
  <2>1. net[d][1].kind # "data"
    BY <1>2 DEF UnitInv, Owed
  <2> QED
    BY <1>1, <2>1 DEF Opens, Unit
<1>4. Owed(d, 2) /\ OwedPart(d, 2) = a
  BY <1>3 DEF Owed, OwedPart
<1>5. Coming(a.seq, a.part)
  <2>1. CASE 2 \in 1 .. Len(net[d])
    <3>1. UnitInv(d, 2)
      BY <2>1 DEF Inv, ReceiverInv, WireInv
    <3>2. net[d][2].kind = "data" /\ net[d][2].a = a
      BY <1>4, <3>1 DEF UnitInv
    <3> QED
      BY <2>1, <3>2 DEF Coming
  <2>2. CASE 2 \notin 1 .. Len(net[d])
    <3>1. Len(net[d]) + 1 = 2
      BY <1>1, <2>2
    <3>2. wpc[d] = "data" /\ wpart[d] = a
      BY <1>2, <1>4, <3>1 DEF EndInv
    <3> QED
      BY <3>2 DEF Coming
  <2> QED
    BY <2>1, <2>2
<1>6. /\ a.seq \in DOMAIN written /\ a.part \in 1 .. Len(PartsOf(a.seq))
      /\ PartsOf(a.seq)[a.part].size > 0
  <2>1. Made(a, d)
    BY <1>2 DEF UnitInv
  <2> QED
    BY <2>1, MadeFacts DEF Inv
<1>7. ~ Got(a.seq, a.part)
  BY <1>5, <1>6 DEF Inv, ReceiverInv, NotYetGot
<1> QED
  BY <1>7 DEF Got

HasBytes(q) == \E i \in 1 .. Len(PartsOf(q)) : PartsOf(q)[i].size > 0

LEMMA InitOrphan == Init => OrphanInv
BY DEF Init, OrphanInv, EmptyMap

\* Steps that the receiver takes no part in.
LEMMA QuietOrphan ==
    ASSUME Inv, OrphanInv, [Next]_vars,
           UNCHANGED <<rpc, rpart, recvStore, readBuffer>>
    PROVE  OrphanInv'
<1>1. \A q : (Delivered(q)' <=> Delivered(q)) /\ (Assembled(q)' <=> Assembled(q))
  BY DEF Delivered, Assembled, Finishing
<1>2. ASSUME NEW q \in DOMAIN written', Assembled(q)' PROVE HasBytes(q)'
  <2>1. q \in DOMAIN written
    BY <1>1, <1>2, NothingOfTheUnwritten DEF Got
  <2>2. PartsOf(q)' = PartsOf(q)
    BY <2>1, WrittenStays DEF PartsOf, Inv
  <2> QED
    BY <1>1, <1>2, <2>1, <2>2 DEF OrphanInv, HasBytes
<1> QED
  BY <1>1, <1>2 DEF OrphanInv, HasBytes

LEMMA ReadHeaderOrphan ==
    ASSUME PartsHaveBytes, Inv, OrphanInv, [Next]_vars, NEW d \in Dp, ReadHeader(d)
    PROVE  OrphanInv'
<1> PICK a : a = net[d][1].a
  OBVIOUS
<1>1. /\ net[d] \in Seq(Unit) /\ Head(net[d]) = net[d][1] /\ 1 \in 1 .. Len(net[d])
  BY TailFacts DEF ReadHeader, Inv, ReceiverInv, NetTypeOK
<1>2. /\ rpc[d] = "header" /\ net[d] # <<>>
      /\ rpart' = [rpart EXCEPT ![d] = a]
      /\ recvStore' = GetOrCreate(recvStore, a)
      /\ rpc' = [rpc EXCEPT ![d] = "data"]
      /\ UNCHANGED <<sendVars, readBuffer>>
  BY <1>1 DEF ReadHeader
<1>3. UNCHANGED written
  BY <1>2 DEF sendVars
<1>4. Made(a, d)
  BY <1>1 DEF Inv, ReceiverInv, WireInv, UnitInv
<1>5. DOMAIN recvStore' = DOMAIN recvStore \cup {a.seq}
  <2>1. a \in Assignment
    BY <1>4, MadeFacts DEF Inv
  <2>2. DOMAIN recvStore \subseteq SeqIds /\ \A q \in DOMAIN recvStore : recvStore[q] \in Completion
    BY DEF Inv, ReceiverInv, RecvTypeOK
  <2> QED
    BY <1>2, <2>1, <2>2, GetOrCreateFacts
<1>6. \A e \in Dp : /\ e # d => rpc'[e] = rpc[e] /\ rpart'[e] = rpart[e]
                    /\ rpc'[d] = "data"
  BY <1>2 DEF Inv, ReceiverInv, RecvTypeOK
<1>7. \A q : (Delivered(q)' <=> Delivered(q)) /\ (Assembled(q)' => Assembled(q))
  BY <1>2, <1>6 DEF Delivered, Assembled, Finishing
<1>8. ~ Assembled(a.seq)
  <2>1. CASE a.size > 0
    BY <1>2, <2>1, HeaderBeforeData
  <2>2. CASE ~ (a.size > 0)
    <3> PICK q, i, dec : q = a.seq /\ i = a.part /\ dec = PartsOf(q)
      OBVIOUS
    <3>1. /\ q \in DOMAIN written /\ dec \in Decisions /\ Len(dec) \in Nat
          /\ i \in 1 .. Len(dec) /\ dec[i].size = a.size
      BY <1>4, MadeFacts DEF Inv
    <3>2. ASSUME Assembled(q) PROVE FALSE
      <4>1. PICK j \in 1 .. Len(dec) : dec[j].size > 0
        BY <3>1, <3>2 DEF OrphanInv
      <4>2. i # j
        BY <2>2, <3>1, <4>1
      <4>3. Len(dec) > 1
        BY <3>1, <4>1, <4>2
      <4> QED
        BY <2>2, <3>1, <4>3, SMTT(30) DEF PartsHaveBytes
    <3> QED
      BY <3>2
  <2> QED
    BY <2>1, <2>2
<1>9. \A q \in DOMAIN recvStore' : ~ Delivered(q)'
  BY <1>5, <1>7, <1>8 DEF OrphanInv, Assembled
<1>10. \A e \in Dp : rpc'[e] \in {"append", "nil"} => rpart'[e].seq \notin DOMAIN recvStore'
  BY <1>5, <1>6, <1>8 DEF OrphanInv, Assembled, Finishing
<1>11. \A q \in DOMAIN written' : Assembled(q)' => HasBytes(q)'
  BY <1>3, <1>7 DEF OrphanInv, HasBytes, PartsOf
<1> QED
  BY <1>9, <1>10, <1>11 DEF OrphanInv, HasBytes

LEMMA ReadDataOrphan ==
    ASSUME Inv, OrphanInv, [Next]_vars, NEW d \in Dp, ReadData(d)
    PROVE  OrphanInv'
<1>1. /\ rpc[d] = "data" /\ rpart[d].size > 0
      /\ UNCHANGED <<sendVars, rpart, readBuffer>>
      /\ rpc' = [rpc EXCEPT ![d] = "lookup"] \/ rpc' = [rpc EXCEPT ![d] = "header"]
      /\ DOMAIN recvStore' = DOMAIN recvStore \cup {rpart[d].seq}
  BY DEF ReadData, Put
<1>2. UNCHANGED written
  BY <1>1 DEF sendVars
<1>3. rpart[d].seq \in DOMAIN recvStore
  BY <1>1 DEF Inv, ReceiverInv, ReadLoopInv
<1>4. /\ \A e \in Dp : e # d => rpc'[e] = rpc[e]
      /\ rpc'[d] \in {"lookup", "header"}
  BY <1>1 DEF Inv, ReceiverInv, RecvTypeOK
<1>5. Made(rpart[d], d)
  BY <1>1 DEF Inv, ReceiverInv, RecvTypeOK, WireInv
<1>6. HasBytes(rpart[d].seq)
  BY <1>1, <1>5, MadeFacts DEF HasBytes, Inv
<1>7. \A q : (Delivered(q)' <=> Delivered(q))
             /\ (Assembled(q)' => Assembled(q) \/ q = rpart[d].seq)
  BY <1>1, <1>4 DEF Delivered, Assembled, Finishing
<1>8. \A q \in DOMAIN written : Assembled(q)' => HasBytes(q)
  BY <1>6, <1>7 DEF OrphanInv, HasBytes
<1>9. \A q \in DOMAIN recvStore' : ~ Delivered(q)'
  BY <1>1, <1>3, <1>7 DEF OrphanInv
<1>10. \A e \in Dp : rpc'[e] \in {"append", "nil"} => rpart'[e].seq \notin DOMAIN recvStore'
  BY <1>1, <1>3, <1>4 DEF OrphanInv
<1> QED
  BY <1>2, <1>8, <1>9, <1>10 DEF OrphanInv, HasBytes, PartsOf

\* Once RemoveCompletion has run, nothing of the Write is in the store.
LEMMA LookupOrphan ==
    ASSUME Inv, OrphanInv, [Next]_vars, NEW d \in Dp, Lookup(d)
    PROVE  OrphanInv'
<1>1. /\ rpc[d] = "lookup" /\ UNCHANGED <<sendVars, rpart, readBuffer>>
      /\ \/ /\ rpc' = [rpc EXCEPT ![d] = "append"] \/ rpc' = [rpc EXCEPT ![d] = "nil"]
            /\ DOMAIN recvStore' = DOMAIN recvStore \ {rpart[d].seq}
         \/ UNCHANGED <<rpc, recvStore>>
  BY DEF Lookup, Delete
<1>2. UNCHANGED written
  BY <1>1 DEF sendVars
<1>3. CASE UNCHANGED <<rpc, recvStore>>
  BY <1>1, <1>3, QuietOrphan
<1>4. CASE /\ rpc' = [rpc EXCEPT ![d] = "append"] \/ rpc' = [rpc EXCEPT ![d] = "nil"]
           /\ DOMAIN recvStore' = DOMAIN recvStore \ {rpart[d].seq}
  <2>1. /\ \A e \in Dp : e # d => rpc'[e] = rpc[e]
        /\ rpc'[d] \in {"append", "nil"}
    BY <1>4 DEF Inv, ReceiverInv, RecvTypeOK
  <2>2. \A q : (Delivered(q)' <=> Delivered(q)) /\ (Assembled(q)' => Assembled(q))
    BY <1>1, <2>1 DEF Delivered, Assembled, Finishing
  <2>3. \A q \in DOMAIN recvStore' : ~ Delivered(q)'
    BY <1>4, <2>2 DEF OrphanInv
  <2>4. \A e \in Dp : rpc'[e] \in {"append", "nil"} => rpart'[e].seq \notin DOMAIN recvStore'
    BY <1>1, <1>4, <2>1 DEF OrphanInv
  <2>5. \A q \in DOMAIN written : Assembled(q)' => HasBytes(q)
    BY <2>2 DEF OrphanInv, HasBytes
  <2> QED
    BY <1>2, <2>3, <2>4, <2>5 DEF OrphanInv, HasBytes, PartsOf
<1> QED
  BY <1>1, <1>3, <1>4

\* Deliver appends one entry to one ReadBuffer.
LEMMA OnlyOneMore ==
    ASSUME Inv, NEW d \in Dp, Deliver(d), NEW s \in Streams
    PROVE  /\ Len(readBuffer[s]) \in Nat
           /\ \A i \in 1 .. Len(readBuffer[s]) :
                 i \in 1 .. Len(readBuffer'[s]) /\ readBuffer'[s][i] = readBuffer[s][i]
           /\ \A i \in 1 .. Len(readBuffer'[s]) : i \notin 1 .. Len(readBuffer[s]) =>
                 i = Len(readBuffer[s]) + 1 /\ readBuffer'[s][i].seq = rpart[d].seq
           /\ s = rpart[d].stream => readBuffer'[s][Len(readBuffer[s]) + 1].seq = rpart[d].seq
                                     /\ Len(readBuffer[s]) + 1 \in 1 .. Len(readBuffer'[s])
<1> PICK t, r : t = rpart[d].stream /\ r = [seq |-> rpart[d].seq, data |-> rdata[d]]
  OBVIOUS
<1>1. /\ rpc[d] = "append"
      /\ readBuffer' = [readBuffer EXCEPT ![t] = Append(readBuffer[t], r)]
  BY DEF Deliver
<1>2. readBuffer \in [Streams -> Seq(Item)]
  BY DEF Inv, ReceiverInv, RecvTypeOK
<1>3. r \in Item /\ r.seq = rpart[d].seq
  <2>1. rpart[d] \in Assignment /\ rdata[d] \in SUBSET Entry
    BY <1>1 DEF Inv, ReceiverInv, RecvTypeOK
  <2> QED
    BY <2>1 DEF Item, Assignment
<1>4. CASE s = t
  <2>1. readBuffer'[s] = Append(readBuffer[s], r) /\ readBuffer[s] \in Seq(Item)
    BY <1>1, <1>2, <1>4
  <2> QED
    BY <1>3, <1>4, <2>1, AppendFacts
<1>5. CASE s # t
  BY <1>1, <1>2, <1>5
<1> QED
  BY <1>4, <1>5

LEMMA DeliveredNext ==
    ASSUME Inv, NEW d \in Dp, Deliver(d), NEW q
    PROVE  /\ Delivered(q)' => Delivered(q) \/ q = rpart[d].seq
           /\ Delivered(q) => Delivered(q)'
           /\ q = rpart[d].seq => Delivered(q)'
<1>1. Delivered(q)' => Delivered(q) \/ q = rpart[d].seq
  BY OnlyOneMore DEF Delivered
<1>2. Delivered(q) => Delivered(q)'
  BY OnlyOneMore DEF Delivered
<1>3. q = rpart[d].seq => Delivered(q)'
  <2>1. rpart[d] \in Assignment
    BY DEF Deliver, Inv, ReceiverInv, RecvTypeOK
  <2>2. rpart[d].stream \in Streams
    BY <2>1 DEF Assignment
  <2> PICK s, n : s = rpart[d].stream /\ n = Len(readBuffer[s]) + 1
    OBVIOUS
  <2>3. s \in Streams /\ n \in 1 .. Len(readBuffer'[s]) /\ readBuffer'[s][n].seq = rpart[d].seq
    BY <2>2, OnlyOneMore
  <2> QED
    BY <2>3 DEF Delivered
<1> QED
  BY <1>1, <1>2, <1>3

LEMMA DeliverOrphan ==
    ASSUME Inv, OrphanInv, [Next]_vars, NEW d \in Dp, Deliver(d)
    PROVE  OrphanInv'
<1>1. /\ rpc[d] = "append" /\ UNCHANGED <<sendVars, rpart, recvStore>>
      /\ rpc' = [rpc EXCEPT ![d] = "header"]
  BY DEF Deliver
<1>2. UNCHANGED written
  BY <1>1 DEF sendVars
<1>3. /\ \A e \in Dp : e # d => rpc'[e] = rpc[e]
      /\ rpc'[d] = "header"
  BY <1>1 DEF Inv, ReceiverInv, RecvTypeOK
<1>4. \A q : Delivered(q)' => Delivered(q) \/ q = rpart[d].seq
  BY DeliveredNext
<1>5. \A q : Assembled(q)' => Assembled(q)
  BY <1>1, <1>3, <1>4 DEF Assembled, Finishing
<1>6. \A q \in DOMAIN recvStore' : ~ Delivered(q)'
  BY <1>1, <1>4 DEF OrphanInv
<1>7. \A e \in Dp : rpc'[e] \in {"append", "nil"} => rpart'[e].seq \notin DOMAIN recvStore'
  BY <1>1, <1>3 DEF OrphanInv
<1>8. \A q \in DOMAIN written : Assembled(q)' => HasBytes(q)
  BY <1>5 DEF OrphanInv, HasBytes
<1> QED
  BY <1>2, <1>6, <1>7, <1>8 DEF OrphanInv, HasBytes, PartsOf

LEMMA StepOrphan ==
    ASSUME PartsHaveBytes, Inv, OrphanInv, [Next]_vars PROVE OrphanInv'
<1>1. ASSUME NEW w \in Writers, (\E dec \in Decisions : Write(w, dec)) \/ Enqueue(w)
      PROVE  UNCHANGED recvVars
  BY <1>1 DEF Write, Enqueue
<1>2. ASSUME NEW d \in Dp, WriteLoop(d) \/ ConnectionLost(d) PROVE UNCHANGED recvVars
  BY <1>2 DEF WriteLoop, Dequeue, WriteHeader, WriteData, WriteFails, CountPart, Complete,
              ConnectionLost
<1>3. ASSUME NEW d \in Dp, ReadFails(d) PROVE OrphanInv'
  <2>1. /\ UNCHANGED <<sendVars, rpart, recvStore, readBuffer>>
        /\ rpc' = [rpc EXCEPT ![d] = "header"] /\ rpc[d] = "data"
    BY <1>3 DEF ReadFails
  <2>2. UNCHANGED written
    BY <2>1 DEF sendVars
  <2>3. \A e \in Dp : rpc'[e] # "header" => rpc'[e] = rpc[e]
    BY <2>1 DEF Inv, ReceiverInv, RecvTypeOK
  <2>4. \A q : (Delivered(q)' <=> Delivered(q)) /\ (Assembled(q)' => Assembled(q))
    BY <2>1, <2>3 DEF Delivered, Assembled, Finishing
  <2>5. \A e \in Dp : rpc'[e] \in {"append", "nil"} => rpart[e].seq \notin DOMAIN recvStore
    BY <2>3 DEF OrphanInv
  <2> QED
    BY <2>1, <2>2, <2>4, <2>5 DEF OrphanInv, PartsOf
<1>4. ASSUME NEW d \in Dp, Panic(d) PROVE UNCHANGED <<rpc, rpart, recvStore, readBuffer>>
  BY <1>4 DEF Panic
<1>5. ASSUME NEW s \in Streams, AcceptStream(s)
      PROVE  UNCHANGED <<rpc, rpart, recvStore, readBuffer>>
  BY <1>5 DEF AcceptStream
<1>6. StreamStored \/ UNCHANGED vars => UNCHANGED <<rpc, rpart, recvStore, readBuffer>>
  BY DEF StreamStored, vars, recvVars
<1>7. UNCHANGED recvVars => UNCHANGED <<rpc, rpart, recvStore, readBuffer>>
  BY DEF recvVars
<1> QED
  BY <1>1, <1>2, <1>3, <1>4, <1>5, <1>6, <1>7, QuietOrphan, ReadHeaderOrphan, ReadDataOrphan,
     LookupOrphan, DeliverOrphan DEF Next, ReadLoop

\* No CompletionStore keeps what is done with: a completion is gone when its Write has
\* returned, and at the receiver when its data has been appended.  For the receiver this takes
\* a scheduler that makes no empty part of a longer Write, as ECMP does not: the
\* header of such a part could come last and create the completion anew.
THEOREM NoCompletionLeaks ==
    ASSUME PartsHaveBytes PROVE Spec => []NoOrphanCompletion
<1>1. Inv /\ OrphanInv /\ [Next]_vars => OrphanInv'
  BY StepOrphan
<1>2. Inv /\ OrphanInv => NoOrphanCompletion
  <2> SUFFICES ASSUME Inv, OrphanInv, NEW q \in DOMAIN sendStore PROVE ~ Returned(q)
    BY DEF NoOrphanCompletion, OrphanInv
  <2>1. q \in DOMAIN written /\ writing[written[q].writer] = q
    BY DEF Inv, SenderInv, SendStoreInv
  <2>2. written[q].writer \in Writers
    BY <2>1 DEF Inv, SenderInv, SendTypeOK
  <2> QED
    BY <2>1, <2>2 DEF Returned
<1> QED
  BY InitOrphan, <1>1, <1>2, DataplaneCorrect, PTL DEF Spec

-----------------------------------------------------------------------------
(* Writes that have returned. *)

\* Nothing that a writeLoop has finished with comes back to it.
LEMMA ToSendShrinks ==
    ASSUME SenderInv, [Next]_vars, NEW q \in DOMAIN written, NEW j \in Nat, ToSend(q, j)'
    PROVE  ToSend(q, j)
<1>0. /\ q \in SeqIds /\ q # None
      /\ wpc \in [Dp -> {"get", "header", "data", "count", "signal"}]
      /\ wpart \in [Dp -> Assignment \cup {None}]
      /\ writing \in [Writers -> SeqIds \cup {None}]
      /\ next \in [Writers -> Nat \ {0}]
      /\ queue \in [Dp -> Seq(Assignment)]
  BY DataplaneAssumption DEF SenderInv, SendTypeOK, DataplaneAssumption
<1>1. ASSUME NEW w \in Writers, NEW dec \in Decisions, Write(w, dec) PROVE ToSend(q, j)
  <2>1. \A v \in Writers : writing'[v] = q => writing[v] = q /\ next'[v] = next[v]
    BY <1>0, <1>1 DEF Write
  <2>2. UNCHANGED <<queue, wpc, wpart>>
    BY <1>1 DEF Write
  <2> QED
    BY <2>1, <2>2 DEF ToSend
<1>2. ASSUME NEW w \in Writers, Enqueue(w) PROVE ToSend(q, j)
  <2> PICK p, i, d, a : /\ p = writing[w] /\ i = next[w] /\ d = PartsOf(p)[i].dp
                        /\ a = PartOf(p, StreamOf[w], PartsOf(p), i)
    BY SMTT(30)
  <2>1. /\ p # None /\ i <= Len(PartsOf(p))
        /\ queue' = [queue EXCEPT ![d] = Append(queue[d], a)]
        /\ next' = [next EXCEPT ![w] = i + 1]
        /\ UNCHANGED <<written, writing, wpc, wpart>>
    BY <1>2 DEF Enqueue, PartsOf
  <2>2. a.seq = p /\ a.part = i
    BY DEF PartOf
  <2>3. a \in Assignment
    <3>1. p \in SeqIds /\ p \in DOMAIN written /\ PartsOf(p) \in Decisions /\ i \in Nat \ {0}
      BY <1>0, <2>1 DEF SenderInv, SendTypeOK, PartsOf
    <3>2. i \in 1 .. Len(PartsOf(p)) /\ StreamOf[w] \in Streams
      BY <2>1, <3>1, DecisionFacts, DataplaneAssumption DEF DataplaneAssumption
    <3> QED
      BY <3>1, <3>2, PartOfType, SMTT(30)
  <2>4. \A e \in Dp : \A l \in 1 .. Len(queue'[e]) :
            (l \in 1 .. Len(queue[e]) /\ queue'[e][l] = queue[e][l]) \/ queue'[e][l] = a
    <3> SUFFICES ASSUME NEW e \in Dp, NEW l \in 1 .. Len(queue'[e])
                 PROVE  (l \in 1 .. Len(queue[e]) /\ queue'[e][l] = queue[e][l]) \/ queue'[e][l] = a
      OBVIOUS
    <3>1. CASE e = d
      <4>1. queue'[e] = Append(queue[e], a) /\ queue[e] \in Seq(Assignment)
        BY <1>0, <2>1, <3>1
      <4> QED
        BY <2>3, <4>1, AppendFacts
    <3>2. CASE e # d
      BY <1>0, <2>1, <3>2
    <3> QED
      BY <3>1, <3>2
  <2>5. \A v \in Writers : next'[v] <= j => next[v] <= j
    BY <1>0, <2>1
  <2>6. CASE p = q /\ i = j
    <3>1. writing[w] = q /\ next[w] <= j
      BY <1>0, <2>6
    <3> QED
      BY <3>1 DEF ToSend
  <2>7. CASE ~ (p = q /\ i = j)
    BY <2>1, <2>2, <2>4, <2>5, <2>7, ZenonT(60) DEF ToSend
  <2> QED
    BY <2>6, <2>7
<1>3. ASSUME NEW d \in Dp, Dequeue(d) PROVE ToSend(q, j)
  <2>1. /\ queue[d] # <<>> /\ queue' = [queue EXCEPT ![d] = Tail(queue[d])]
        /\ wpart' = [wpart EXCEPT ![d] = Head(queue[d])]
        /\ wpc' = [wpc EXCEPT ![d] = "header"]
        /\ UNCHANGED <<written, writing, next>>
    BY <1>3 DEF Dequeue
  <2>2. /\ 1 \in 1 .. Len(queue[d]) /\ wpart'[d] = queue[d][1] /\ queue'[d] = Tail(queue[d])
        /\ \A k \in 1 .. Len(Tail(queue[d])) :
              k + 1 \in 1 .. Len(queue[d]) /\ Tail(queue[d])[k] = queue[d][k + 1]
    BY <1>0, <2>1, TailFacts
  <2>3. \A e \in Dp : \A l \in 1 .. Len(queue'[e]) : \E m \in 1 .. Len(queue[e]) :
            queue'[e][l] = queue[e][m]
    BY <1>0, <2>1, <2>2
  <2>4. \A e \in Dp : e # d => wpc'[e] = wpc[e] /\ wpart'[e] = wpart[e]
    BY <1>0, <2>1
  <2> QED
    BY <2>1, <2>2, <2>3, <2>4, SMTT(30) DEF ToSend
<1>4. ASSUME NEW d \in Dp, WriteHeader(d) \/ WriteData(d) \/ WriteFails(d) \/ CountPart(d)
      PROVE  ToSend(q, j)
  <2>1. /\ UNCHANGED <<written, writing, next, queue>>
        /\ \/ wpc[d] \in {"header", "data"} /\ UNCHANGED wpart
              /\ (wpc' = [wpc EXCEPT ![d] = "data"] \/ wpc' = [wpc EXCEPT ![d] = "count"])
           \/ /\ wpc' = [wpc EXCEPT ![d] = "get"] \/ wpc' = [wpc EXCEPT ![d] = "signal"]
              /\ \A e \in Dp : e # d => wpart'[e] = wpart[e]
    BY <1>0, <1>4 DEF WriteHeader, WriteData, WriteFails, CountPart
  <2>2. \A e \in Dp : wpc'[e] \in {"header", "data", "count"} =>
            wpc[e] \in {"header", "data", "count"} /\ wpart'[e] = wpart[e]
    BY <1>0, <2>1
  <2> QED
    BY <2>1, <2>2 DEF ToSend
<1>5. ASSUME NEW d \in Dp, NEW w \in Writers, Complete(d, w) PROVE ToSend(q, j)
  <2>1. /\ UNCHANGED <<written, next, queue>>
        /\ wpc' = [wpc EXCEPT ![d] = "get"] /\ wpart' = [wpart EXCEPT ![d] = None]
        /\ writing' = [writing EXCEPT ![w] = None]
    BY <1>5 DEF Complete
  <2>2. /\ \A e \in Dp : wpc'[e] \in {"header", "data", "count"} =>
              wpc[e] \in {"header", "data", "count"} /\ wpart'[e] = wpart[e]
        /\ \A v \in Writers : writing'[v] = q => writing[v] = q
    BY <1>0, <2>1
  <2> QED
    BY <2>1, <2>2 DEF ToSend
<1>6. ASSUME UNCHANGED sendVars PROVE ToSend(q, j)
  BY <1>6 DEF ToSend, sendVars
<1>7. ASSUME NEW d \in Dp, ReadLoop(d) \/ ConnectionLost(d) PROVE UNCHANGED sendVars
  BY <1>7 DEF ReadLoop, ReadHeader, ReadData, ReadFails, Lookup, Deliver, Panic, ConnectionLost
<1>8. ASSUME NEW s \in Streams, AcceptStream(s) PROVE UNCHANGED sendVars
  BY <1>8 DEF AcceptStream
<1>9. StreamStored \/ UNCHANGED vars => UNCHANGED sendVars
  BY DEF StreamStored, vars
<1> QED
  BY <1>1, <1>2, <1>3, <1>4, <1>5, <1>6, <1>7, <1>8, <1>9 DEF Next, WriteLoop

\* What the receiver has got it keeps until it is appended.
LEMMA GotKept ==
    ASSUME Inv, [Next]_vars, NEW q, NEW i, Got(q, i)
    PROVE  Got(q, i)'
<1>0. rpc \in [Dp -> {"header", "data", "lookup", "append", "nil"}]
  BY DEF Inv, ReceiverInv, RecvTypeOK
<1>1. ASSUME UNCHANGED <<rpc, rpart, recvStore, readBuffer>> PROVE Got(q, i)'
  BY <1>1 DEF Got, Assembled, Finishing, Delivered
<1>2. ASSUME NEW d \in Dp, ReadHeader(d) PROVE Got(q, i)'
  <2> PICK a : a = Head(net[d]).a
    OBVIOUS
  <2>1. /\ rpc[d] = "header" /\ rpart' = [rpart EXCEPT ![d] = a]
        /\ recvStore' = GetOrCreate(recvStore, a) /\ rpc' = [rpc EXCEPT ![d] = "data"]
        /\ UNCHANGED readBuffer
    BY <1>2 DEF ReadHeader
  <2>2. \A e \in Dp : rpc[e] # "header" => rpc'[e] = rpc[e] /\ rpart'[e] = rpart[e]
    BY <1>0, <2>1 DEF Inv, ReceiverInv, RecvTypeOK
  <2>3. q \in DOMAIN recvStore => q \in DOMAIN recvStore' /\ recvStore'[q] = recvStore[q]
    BY <2>1 DEF GetOrCreate, Put
  <2> QED
    BY <2>1, <2>2, <2>3 DEF Got, Assembled, Finishing, Delivered
<1>3. ASSUME NEW d \in Dp, ReadData(d) PROVE Got(q, i)'
  <2> PICK a, c : /\ a = rpart[d]
                  /\ c = AddPart(recvStore[a.seq], a.part,
                                 [seq |-> a.seq, part |-> a.part, size |-> a.size])
    OBVIOUS
  <2>1. Made(a, d) /\ net[d][1] = [kind |-> "data", a |-> a]
    BY <1>3, DataIsNew
  <2>2. /\ net[d] \in Seq(Unit) /\ net[d] # <<>> /\ rpc[d] = "data" /\ a.size > 0
    BY <1>3 DEF ReadData, Inv, ReceiverInv, NetTypeOK
  <2>3. Head(net[d]) = net[d][1]
    BY <2>2, TailFacts
  <2>4. /\ recvStore' = Put(recvStore, a.seq, c)
        /\ \/ rpc' = [rpc EXCEPT ![d] = "lookup"]
           \/ rpc' = [rpc EXCEPT ![d] = "header"]
        /\ UNCHANGED <<rpart, readBuffer>>
    BY <1>3, <2>1, <2>3 DEF ReadData
  <2>5. a.seq \in DOMAIN recvStore /\ recvStore[a.seq] \in Completion
    BY <2>2 DEF Inv, ReceiverInv, ReadLoopInv, RecvTypeOK
  <2>6. c.held = {e \in recvStore[a.seq].held : e.key # a.part}
                    \cup {[key |-> a.part, data |-> [seq |-> a.seq, part |-> a.part, size |-> a.size]]}
    <3>1. a \in Assignment
      BY <2>1, MadeFacts DEF Inv
    <3>2. a.part \in Nat /\ [seq |-> a.seq, part |-> a.part, size |-> a.size] \in Data
      BY <3>1 DEF Assignment, Data
    <3> QED
      BY <2>5, <3>2, AddPartFacts
  <2>7. (\E e \in recvStore[a.seq].held : e.key = i) => \E e \in c.held : e.key = i
    <3> PICK new : new = [key |-> a.part,
                          data |-> [seq |-> a.seq, part |-> a.part, size |-> a.size]]
      OBVIOUS
    <3>1. /\ new \in c.held /\ new.key = a.part
          /\ \A e \in recvStore[a.seq].held : e.key # a.part => e \in c.held
      BY <2>6
    <3> QED
      BY <3>1
  <2>8. /\ DOMAIN recvStore' = DOMAIN recvStore /\ recvStore'[a.seq] = c
        /\ \A x \in DOMAIN recvStore : x # a.seq => recvStore'[x] = recvStore[x]
    BY <2>4, <2>5 DEF Put
  <2>9. \A e \in Dp : Finishing(e) => rpc'[e] = rpc[e]
    BY <1>0, <2>2, <2>4 DEF Finishing
  <2>10. Assembled(q) => Assembled(q)'
    BY <2>4, <2>9 DEF Assembled, Finishing, Delivered
  <2> QED
    BY <2>7, <2>8, <2>10 DEF Got
<1>4. ASSUME NEW d \in Dp, ReadFails(d) PROVE Got(q, i)'
  <2>1. /\ rpc[d] = "data" /\ rpc' = [rpc EXCEPT ![d] = "header"]
        /\ UNCHANGED <<rpart, recvStore, readBuffer>>
    BY <1>4 DEF ReadFails
  <2> QED
    BY <1>0, <2>1 DEF Got, Assembled, Finishing, Delivered
<1>5. ASSUME NEW d \in Dp, Lookup(d) PROVE Got(q, i)'
  <2>1. /\ rpc[d] = "lookup" /\ UNCHANGED <<rpart, readBuffer>>
        /\ \/ /\ rpc' = [rpc EXCEPT ![d] = "append"] \/ rpc' = [rpc EXCEPT ![d] = "nil"]
              /\ recvStore' = Delete(recvStore, rpart[d].seq)
           \/ UNCHANGED <<rpc, recvStore>>
    BY <1>5 DEF Lookup
  <2>2. Assembled(rpart[d].seq)' /\ (Assembled(q) => Assembled(q)')
    BY <1>0, <2>1 DEF Assembled, Finishing, Delivered
  <2>3. q # rpart[d].seq /\ q \in DOMAIN recvStore =>
            q \in DOMAIN recvStore' /\ recvStore'[q] = recvStore[q]
    BY <2>1 DEF Delete
  <2>4. q = rpart[d].seq => Assembled(q)'
    BY <2>1, <2>2 DEF Assembled, Finishing, Delivered
  <2> QED
    BY <2>2, <2>3, <2>4 DEF Got
<1>6. ASSUME NEW d \in Dp, Deliver(d) PROVE Got(q, i)'
  <2>1. /\ rpc' = [rpc EXCEPT ![d] = "header"] /\ UNCHANGED <<rpart, recvStore>>
    BY <1>6 DEF Deliver
  <2>2. /\ Delivered(q) => Delivered(q)'
        /\ q = rpart[d].seq => Delivered(q)'
    BY <1>6, DeliveredNext, SMTT(30)
  <2> QED
    BY <1>0, <2>1, <2>2 DEF Got, Assembled, Finishing
<1>7. ASSUME NEW d \in Dp, Panic(d) PROVE UNCHANGED <<rpc, rpart, recvStore, readBuffer>>
  BY <1>7, SMTT(30) DEF Panic
<1>8. ASSUME NEW w \in Writers, (\E dec \in Decisions : Write(w, dec)) \/ Enqueue(w)
      PROVE  UNCHANGED recvVars
  BY <1>8 DEF Write, Enqueue
<1>9. ASSUME NEW d \in Dp, WriteLoop(d) \/ ConnectionLost(d) PROVE UNCHANGED recvVars
  BY <1>9 DEF WriteLoop, Dequeue, WriteHeader, WriteData, WriteFails, CountPart, Complete,
              ConnectionLost
<1>10. ASSUME NEW s \in Streams, AcceptStream(s)
       PROVE  UNCHANGED <<rpc, rpart, recvStore, readBuffer>>
  BY <1>10 DEF AcceptStream
<1>11. StreamStored \/ UNCHANGED vars \/ UNCHANGED recvVars =>
           UNCHANGED <<rpc, rpart, recvStore, readBuffer>>
  BY DEF StreamStored, vars, recvVars
<1> QED
  BY <1>1, <1>2, <1>3, <1>4, <1>5, <1>6, <1>7, <1>8, <1>9, <1>10, <1>11 DEF Next, ReadLoop

\* A QUIC stream that is not lost gives up data only to its readLoop.
LEMMA SentKept ==
    ASSUME Inv, [Next]_vars, AllUp', NEW q, NEW i, Sent(q, i)
    PROVE  Sent(q, i)'
<1> SUFFICES ASSUME OnWire(q, i) PROVE Sent(q, i)'
  BY GotKept DEF Sent
<1>0. net \in [Dp -> Seq(Unit)] /\ up \in [Dp -> BOOLEAN]
  BY DEF Inv, ReceiverInv, NetTypeOK
<1> PICK d0 \in Dp : \E k \in 1 .. Len(net[d0]) :
        net[d0][k].kind = "data" /\ net[d0][k].a.seq = q /\ net[d0][k].a.part = i
  BY DEF OnWire
<1>1. PICK k0 \in 1 .. Len(net[d0]) :
        net[d0][k0].kind = "data" /\ net[d0][k0].a.seq = q /\ net[d0][k0].a.part = i
  OBVIOUS
<1>2. ASSUME UNCHANGED net PROVE Sent(q, i)'
  BY <1>2 DEF Sent, OnWire
<1>3. ASSUME NEW d \in Dp, WriteHeader(d) \/ WriteData(d) PROVE Sent(q, i)'
  <2>1. PICK u : u.a = wpart[d] /\ u.kind \in {"header", "data"}
                 /\ u = [kind |-> u.kind, a |-> u.a]
                 /\ net' = [net EXCEPT ![d] = Append(net[d], u)]
    <3>1. CASE WriteHeader(d)
      <4> WITNESS [kind |-> "header", a |-> wpart[d]]
      <4> QED
        BY <3>1 DEF WriteHeader
    <3>2. CASE WriteData(d)
      <4> WITNESS [kind |-> "data", a |-> wpart[d]]
      <4> QED
        BY <3>2 DEF WriteData
    <3> QED
      BY <1>3, <3>1, <3>2
  <2>2. u \in Unit
    <3>1. wpart[d] \in Assignment
      BY <1>3 DEF WriteHeader, WriteData, Inv, SenderInv, SendTypeOK
    <3> QED
      BY <2>1, <3>1 DEF Unit
  <2>3. k0 \in 1 .. Len(net'[d0]) /\ net'[d0][k0] = net[d0][k0]
    <3>1. CASE d0 = d
      <4>1. net'[d0] = Append(net[d0], u) /\ net[d0] \in Seq(Unit)
        BY <1>0, <2>1, <3>1
      <4> QED
        BY <1>1, <2>2, <4>1, AppendFacts
    <3>2. CASE d0 # d
      BY <1>0, <2>1, <3>2
    <3> QED
      BY <3>1, <3>2
  <2> QED
    BY <1>1, <2>3 DEF Sent, OnWire
<1>4. ASSUME NEW d \in Dp, ConnectionLost(d) PROVE FALSE
  BY <1>0, <1>4 DEF ConnectionLost, AllUp
\* The first unit is taken, and the others move up.
<1>5. ASSUME NEW d \in Dp, net[d] # <<>>, net' = [net EXCEPT ![d] = Tail(net[d])],
             d0 # d \/ k0 # 1
      PROVE  Sent(q, i)'
  <2>1. CASE d0 = d
    <3>1. /\ net[d] \in Seq(Unit) /\ net'[d] = Tail(net[d]) /\ Len(net[d]) \in Nat
      BY <1>0, <1>5
    <3>2. k0 - 1 \in 1 .. Len(net'[d]) /\ (k0 - 1) + 1 = k0
      BY <1>5, <2>1, <3>1, TailFacts
    <3>3. net'[d][k0 - 1] = net[d][k0]
      <4> PICK l : l = k0 - 1
        OBVIOUS
      <4>1. l \in 1 .. Len(Tail(net[d])) /\ l + 1 = k0
        BY <3>1, <3>2
      <4>2. Tail(net[d])[l] = net[d][l + 1]
        BY <1>5, <3>1, <4>1, TailFacts
      <4> QED
        BY <3>1, <4>1, <4>2
    <3> QED
      BY <1>1, <2>1, <3>2, <3>3 DEF Sent, OnWire
  <2>2. CASE d0 # d
    <3>1. net'[d0] = net[d0]
      BY <1>0, <1>5, <2>2
    <3> QED
      BY <1>1, <3>1 DEF Sent, OnWire
  <2> QED
    BY <2>1, <2>2
<1>6. ASSUME NEW d \in Dp, ReadHeader(d) PROVE Sent(q, i)'
  <2>1. /\ net[d] # <<>> /\ net' = [net EXCEPT ![d] = Tail(net[d])] /\ rpc[d] = "header"
    BY <1>6 DEF ReadHeader
  <2>2. ASSUME d0 = d, k0 = 1 PROVE FALSE
    <3>1. UnitInv(d, 1)
      BY <1>1, <2>2 DEF Inv, ReceiverInv, WireInv
    <3> QED
      BY <1>1, <2>1, <2>2, <3>1 DEF UnitInv, Owed
  <2> QED
    BY <1>5, <2>1, <2>2
<1>7. ASSUME NEW d \in Dp, ReadData(d) PROVE Sent(q, i)'
  <2> PICK a : a = rpart[d]
    OBVIOUS
  <2>1. /\ net[d] # <<>> /\ net' = [net EXCEPT ![d] = Tail(net[d])] /\ rpc[d] = "data"
        /\ a.size > 0
    BY <1>7 DEF ReadData
  <2>2. CASE d0 # d \/ k0 # 1
    BY <1>5, <2>1, <2>2
  <2>3. CASE d0 = d /\ k0 = 1
    <3>1. Made(a, d) /\ net[d][1] = [kind |-> "data", a |-> a]
      BY <1>7, DataIsNew
    <3>2. a.seq = q /\ a.part = i
      BY <1>1, <2>3, <3>1
    <3>3. Head(net[d]) = net[d][1]
      BY <1>0, <2>1, TailFacts
    <3>4. a \in Assignment
      BY <3>1, MadeFacts DEF Inv
    <3> PICK dat, c : dat = [seq |-> a.seq, part |-> a.part, size |-> a.size]
                      /\ c = AddPart(recvStore[q], i, dat)
      OBVIOUS
    <3>5. recvStore' = Put(recvStore, q, c)
      BY <1>7, <3>1, <3>2, <3>3 DEF ReadData
    <3>6. q \in DOMAIN recvStore /\ recvStore[q] \in Completion
      BY <2>1, <3>2 DEF Inv, ReceiverInv, ReadLoopInv, RecvTypeOK
    <3>7. i \in Nat /\ dat \in Data
      BY <3>2, <3>4 DEF Assignment, Data
    <3>8. [key |-> i, data |-> dat] \in c.held
      BY <3>6, <3>7, AddPartFacts
    <3>9. q \in DOMAIN recvStore' /\ recvStore'[q] = c
      BY <3>5 DEF Put
    <3>10. \E e \in recvStore'[q].held : e.key = i
      <4>1. [key |-> i, data |-> dat].key = i
        BY SMTT(30)
      <4> QED
        BY <3>8, <3>9, <4>1
    <3> QED
      BY <3>9, <3>10 DEF Sent, Got
  <2> QED
    BY <2>2, <2>3
<1>8. ASSUME NEW d \in Dp, ReadFails(d) \/ Lookup(d) \/ Deliver(d) \/ Panic(d) PROVE UNCHANGED net
  BY <1>8, SMTT(30) DEF ReadFails, Lookup, Deliver, Panic, netVars
<1>9. ASSUME NEW w \in Writers, (\E dec \in Decisions : Write(w, dec)) \/ Enqueue(w)
      PROVE  UNCHANGED net
  BY <1>9 DEF Write, Enqueue, netVars
<1>10. ASSUME NEW d \in Dp, \/ Dequeue(d) \/ WriteFails(d) \/ CountPart(d)
                            \/ \E w \in Writers : Complete(d, w)
       PROVE  UNCHANGED net
  BY <1>10 DEF Dequeue, WriteFails, CountPart, Complete, netVars
<1>11. ASSUME NEW s \in Streams, AcceptStream(s) PROVE UNCHANGED net
  BY <1>11 DEF AcceptStream, netVars
<1>12. StreamStored \/ UNCHANGED vars => UNCHANGED net
  BY DEF StreamStored, vars, netVars
<1> QED
  BY <1>2, <1>3, <1>4, <1>6, <1>7, <1>8, <1>9, <1>10, <1>11, <1>12 DEF Next, WriteLoop, ReadLoop

LEMMA InitSent == Init => SentInv
BY DEF Init, SentInv, EmptyMap

\* Whoever has no step of its own in a completion leaves the count alone.
LEMMA SentCountKept ==
    ASSUME Inv, [Next]_vars, AllUp', SentInv, AllUp, NEW q \in DOMAIN sendStore
    PROVE  /\ q \in DOMAIN written /\ Len(PartsOf(q)) \in Nat
           /\ PartsOf(q)' = PartsOf(q)
           /\ Unsent(q)' \subseteq Unsent(q) /\ Unsent(q)' \subseteq 1 .. Len(PartsOf(q))
           /\ Cardinality((1 .. Len(PartsOf(q))) \ Unsent(q)) \in Nat
           /\ Cardinality((1 .. Len(PartsOf(q))) \ Unsent(q)') \in Nat
           /\ sendStore[q].completed \in Nat
           /\ sendStore[q].completed <= Cardinality((1 .. Len(PartsOf(q))) \ Unsent(q))
           /\ sendStore[q].completed <= Cardinality((1 .. Len(PartsOf(q))) \ Unsent(q)')
<1>1. q \in DOMAIN written
  BY DEF Inv, SenderInv, SendStoreInv
<1>2. PartsOf(q)' = PartsOf(q) /\ PartsOf(q) \in Decisions
  BY <1>1, WrittenStays DEF PartsOf, Inv, SenderInv, SendTypeOK
<1>3. Len(PartsOf(q)) \in Nat
  BY <1>2, DecisionFacts
<1>4. \A i \in 1 .. Len(PartsOf(q)) : /\ ToSend(q, i)' => ToSend(q, i)
                                      /\ Sent(q, i) => Sent(q, i)'
  <2>1. SenderInv
    BY DEF Inv
  <2> QED
    BY <1>1, <2>1, ToSendShrinks, SentKept
<1>5. Unsent(q)' \subseteq Unsent(q) /\ Unsent(q)' \subseteq 1 .. Len(PartsOf(q))
  BY <1>2, <1>4 DEF Unsent
<1>6. sendStore[q] \in Completion
  BY DEF Inv, SenderInv, SendTypeOK
<1>7. sendStore[q].completed \in Nat
  BY <1>6 DEF Completion
<1>8. sendStore[q].completed <= Cardinality((1 .. Len(PartsOf(q))) \ Unsent(q))
  BY DEF SentInv
<1>9. /\ Cardinality((1 .. Len(PartsOf(q))) \ Unsent(q)) \in Nat
      /\ Cardinality((1 .. Len(PartsOf(q))) \ Unsent(q)') \in Nat
      /\ Cardinality((1 .. Len(PartsOf(q))) \ Unsent(q))
            <= Cardinality((1 .. Len(PartsOf(q))) \ Unsent(q)')
  BY <1>3, <1>5, DoneGrows
<1> QED
  BY <1>1, <1>2, <1>3, <1>5, <1>7, <1>8, <1>9

\* A step that neither counts a part nor begins a Write.
LEMMA UncountedSent ==
    ASSUME Inv, [Next]_vars, SentInv, AllUp, AllUp', UNCHANGED <<written, sendStore>>,
           \A d \in Dp : wpc'[d] = "count" => Sent(wpart[d].seq, wpart[d].part)'
    PROVE  SentInv'
<1>1. ASSUME NEW q \in DOMAIN sendStore
      PROVE  sendStore[q].completed <= Cardinality((1 .. Len(PartsOf(q)')) \ Unsent(q)')
  BY SentCountKept
<1>2. ASSUME NEW q \in DOMAIN written \ DOMAIN sendStore, NEW i \in 1 .. Len(PartsOf(q))
      PROVE  Sent(q, i)'
  BY SentKept DEF SentInv
<1>3. \A q \in DOMAIN written : PartsOf(q)' = PartsOf(q)
  BY DEF PartsOf
<1> QED
  BY <1>1, <1>2, <1>3 DEF SentInv

\* WriteData puts the part on the wire before writeLoop counts it.
LEMMA CountedIsSent ==
    ASSUME Inv, [Next]_vars, SentInv, AllUp, AllUp', NEW d \in Dp, wpc'[d] = "count"
    PROVE  Sent(wpart[d].seq, wpart[d].part)'
<1> PICK a : a = wpart'[d]
  OBVIOUS
<1> SUFFICES Sent(a.seq, a.part)'
  BY DEF Sent, OnWire, Got, Assembled, Finishing, Delivered
<1>0. /\ wpc \in [Dp -> {"get", "header", "data", "count", "signal"}]
      /\ wpart \in [Dp -> Assignment \cup {None}]
  BY DEF Inv, SenderInv, SendTypeOK
<1>1. CASE WriteData(d)
  <2> PICK u : u = [kind |-> "data", a |-> a]
    OBVIOUS
  <2>1. /\ a = wpart[d] /\ wpc[d] = "data" /\ net' = [net EXCEPT ![d] = Append(net[d], u)]
    BY <1>1 DEF WriteData
  <2>2. a \in Assignment
    BY <1>0, <2>1 DEF Inv, SenderInv, SendTypeOK
  <2>3. u \in Unit
    BY <2>2 DEF Unit
  <2>4. net[d] \in Seq(Unit) /\ net'[d] = Append(net[d], u)
    BY <2>1 DEF Inv, ReceiverInv, NetTypeOK
  <2> PICK k : k = Len(net[d]) + 1
    OBVIOUS
  <2>5. k \in 1 .. Len(net'[d]) /\ net'[d][k] = u
    BY <2>3, <2>4
  <2>6. u.kind = "data" /\ u.a = a
    OBVIOUS
  <2> QED
    BY <2>5, <2>6 DEF Sent, OnWire
<1>2. CASE ~ WriteData(d)
  <2>1. wpc[d] = "count" /\ wpart'[d] = wpart[d]
    <3>1. ASSUME NEW e \in Dp, WriteLoop(e) PROVE wpc[d] = "count" /\ wpart'[d] = wpart[d]
      BY <1>0, <1>2, <3>1, SMTT(30) DEF WriteLoop, Dequeue, WriteHeader, WriteData, WriteFails,
                              CountPart, Complete
    <3>2. ASSUME UNCHANGED <<wpc, wpart>> PROVE wpc[d] = "count" /\ wpart'[d] = wpart[d]
      BY <3>2, SMTT(30)
    <3>3. ASSUME NEW w \in Writers, (\E dec \in Decisions : Write(w, dec)) \/ Enqueue(w)
          PROVE  UNCHANGED <<wpc, wpart>>
      BY <3>3 DEF Write, Enqueue
    <3>4. ASSUME NEW e \in Dp, ReadLoop(e) \/ ConnectionLost(e) PROVE UNCHANGED <<wpc, wpart>>
      BY <3>4 DEF ReadLoop, ReadHeader, ReadData, ReadFails, Lookup, Deliver, Panic,
                  ConnectionLost, sendVars
    <3>5. ASSUME NEW s \in Streams, AcceptStream(s) PROVE UNCHANGED <<wpc, wpart>>
      BY <3>5 DEF AcceptStream, sendVars
    <3>6. StreamStored \/ UNCHANGED vars => UNCHANGED <<wpc, wpart>>
      BY DEF StreamStored, vars, sendVars
    <3> QED
      BY <3>1, <3>2, <3>3, <3>4, <3>5, <3>6 DEF Next
  <2>2. Sent(a.seq, a.part)
    BY <2>1 DEF SentInv
  <2> QED
    BY <2>2, SentKept
<1> QED
  BY <1>1, <1>2

LEMMA WriteSent ==
    ASSUME Inv, [Next]_vars, SentInv, AllUp, AllUp',
           NEW w \in Writers, NEW dec \in Decisions, Write(w, dec)
    PROVE  SentInv'
<1>1. PICK p \in SeqIds \ DOMAIN written :
        /\ \E rec : written' = Put(written, p, rec) /\ rec.parts = dec
        /\ sendStore' = Put(sendStore, p, SendingCompletion(p, StreamOf[w], dec))
  <2>1. PICK p \in SeqIds \ DOMAIN written :
          /\ written' = Put(written, p, [stream |-> StreamOf[w], writer |-> w,
                                         no |-> Cardinality(DOMAIN written), parts |-> dec])
          /\ sendStore' = Put(sendStore, p, SendingCompletion(p, StreamOf[w], dec))
    BY DEF Write
  <2> PICK rec : rec = [stream |-> StreamOf[w], writer |-> w,
                        no |-> Cardinality(DOMAIN written), parts |-> dec]
    OBVIOUS
  <2>2. written' = Put(written, p, rec) /\ rec.parts = dec
    BY <2>1
  <2> QED
    BY <2>1, <2>2
<1>2. PICK rec : written' = Put(written, p, rec) /\ rec.parts = dec
  BY <1>1
<1>3. DOMAIN written' = DOMAIN written \cup {p} /\ PartsOf(p)' = dec
  BY <1>2 DEF Put, PartsOf
<1>4. /\ DOMAIN sendStore' = DOMAIN sendStore \cup {p}
      /\ sendStore'[p] = SendingCompletion(p, StreamOf[w], dec)
      /\ \A x \in DOMAIN sendStore : x # p => sendStore'[x] = sendStore[x]
  BY <1>1 DEF Put
<1>5. ASSUME NEW q \in DOMAIN sendStore'
      PROVE  sendStore'[q].completed <= Cardinality((1 .. Len(PartsOf(q)')) \ Unsent(q)')
  <2>1. CASE q = p
    <3>1. sendStore'[q].completed = 0
      BY <1>4, <2>1 DEF SendingCompletion
    <3>2. Cardinality((1 .. Len(dec)) \ Unsent(q)') \in Nat
      BY DoneGrows, DecisionFacts
    <3> QED
      BY <1>3, <2>1, <3>1, <3>2
  <2>2. CASE q # p
    BY <1>4, <2>2, SentCountKept
  <2> QED
    BY <2>1, <2>2
<1>6. ASSUME NEW q \in DOMAIN written' \ DOMAIN sendStore', NEW i \in 1 .. Len(PartsOf(q)')
      PROVE  Sent(q, i)'
  <2>1. q \in DOMAIN written \ DOMAIN sendStore
    BY <1>3, <1>4
  <2>2. PartsOf(q)' = PartsOf(q)
    BY <2>1, WrittenStays DEF PartsOf, Inv
  <2>3. Sent(q, i)
    BY <2>1, <2>2 DEF SentInv
  <2> QED
    BY <2>3, SentKept
<1> QED
  BY <1>5, <1>6, CountedIsSent DEF SentInv

LEMMA CountPartSent ==
    ASSUME Inv, [Next]_vars, SentInv, AllUp, AllUp', NEW d \in Dp, CountPart(d)
    PROVE  SentInv'
<1> PICK q, i, c : q = wpart[d].seq /\ i = wpart[d].part /\ c = AddSendingPart(sendStore[q])
  OBVIOUS
<1>1. /\ wpc[d] = "count" /\ UNCHANGED <<written, writing, next, queue>>
      /\ sendStore' = IF IsComplete(c) THEN Delete(sendStore, q) ELSE Put(sendStore, q, c)
      /\ wpc' = [wpc EXCEPT ![d] = "get"] \/ wpc' = [wpc EXCEPT ![d] = "signal"]
      /\ wpart' = [wpart EXCEPT ![d] = None] \/ UNCHANGED wpart
  BY DEF CountPart
<1>2. Made(wpart[d], d) /\ q \in DOMAIN sendStore /\ wpart[d] # None
  BY <1>1 DEF Inv, SenderInv, SendTypeOK, WriteLoopInv
<1>3. /\ q \in DOMAIN written /\ q \in SeqIds /\ i \in 1 .. Len(PartsOf(q))
  BY <1>2, MadeFacts DEF Inv
<1>4. \A e \in Dp : wpc'[e] \in {"header", "data", "count"} =>
          e # d /\ wpc[e] = wpc'[e] /\ wpart'[e] = wpart[e]
  BY <1>1 DEF Inv, SenderInv, SendTypeOK
<1>5. ~ ToSend(q, i)'
  <2>1. \A v \in Writers : writing[v] = q => ~ (next[v] <= i)
    <3>1. i \in Nat /\ \A v \in Writers : next[v] \in Nat
      BY <1>3 DEF Inv, SenderInv, SendTypeOK
    <3> QED
      BY <1>2, <3>1 DEF Made
  <2>2. ASSUME NEW e \in Dp, NEW k \in 1 .. Len(queue[e]), queue[e][k].seq = q,
               queue[e][k].part = i
        PROVE  FALSE
    <3>1. QueuedInv(e, k)
      BY DEF Inv, SenderInv, QueueInv
    <3>2. e = d
      BY <1>2, <2>2, <3>1 DEF QueuedInv, Made
    <3> QED
      BY <1>1, <2>2, <3>1, <3>2 DEF QueuedInv, Same
  <2>3. \A e \in Dp : wpc[e] # "get" /\ wpart[e].seq = q /\ wpart[e].part = i => e = d
    BY <1>2 DEF Inv, SenderInv, WriteLoopInv, Made
  <2> QED
    BY <1>1, <1>4, <2>1, <2>2, <2>3 DEF ToSend
<1>6. Sent(q, i)'
  <2>1. Sent(q, i)
    BY <1>1 DEF SentInv
  <2> QED
    BY <2>1, SentKept
<1>7. i \in Unsent(q) /\ i \notin Unsent(q)'
  BY <1>1, <1>3, <1>5, <1>6 DEF Unsent, ToSend
<1>8. /\ Len(PartsOf(q)) \in Nat /\ PartsOf(q)' = PartsOf(q)
      /\ Unsent(q)' \subseteq Unsent(q) /\ Unsent(q)' \subseteq 1 .. Len(PartsOf(q))
      /\ Cardinality((1 .. Len(PartsOf(q))) \ Unsent(q)) \in Nat
      /\ Cardinality((1 .. Len(PartsOf(q))) \ Unsent(q)') \in Nat
      /\ sendStore[q].completed \in Nat
      /\ sendStore[q].completed <= Cardinality((1 .. Len(PartsOf(q))) \ Unsent(q))
  BY <1>2, SentCountKept
<1>9. sendStore[q].completed + 1 <= Cardinality((1 .. Len(PartsOf(q))) \ Unsent(q)')
  <2>1. Cardinality((1 .. Len(PartsOf(q))) \ Unsent(q)) + 1
           <= Cardinality((1 .. Len(PartsOf(q))) \ Unsent(q)')
    BY <1>3, <1>7, <1>8, OneMoreDone
  <2> QED
    BY <1>8, <2>1
<1>10. /\ c.completed = sendStore[q].completed + 1
       /\ IsComplete(c) => Len(PartsOf(q)) = sendStore[q].completed + 1
  <2>1. sendStore[q] \in Completion
    BY <1>2 DEF Inv, SenderInv, SendTypeOK
  <2>2. sendStore[q].parts = Len(PartsOf(q)) /\ sendStore[q].held = {}
    BY <1>2 DEF Inv, SenderInv, SendStoreInv
  <2>3. /\ c.parts = Len(PartsOf(q)) /\ c.held = {}
        /\ c.completed = sendStore[q].completed + 1
    BY <2>1, <2>2, AddSendingPartType
  <2> QED
    BY <2>3 DEF IsComplete
<1>11. /\ IsComplete(c) => DOMAIN sendStore' = DOMAIN sendStore \ {q}
       /\ ~IsComplete(c) => DOMAIN sendStore' = DOMAIN sendStore /\ sendStore'[q] = c
       /\ \A x \in DOMAIN sendStore : x # q => x \in DOMAIN sendStore' /\ sendStore'[x] = sendStore[x]
  BY <1>1, <1>2 DEF Put, Delete
<1>12. ASSUME NEW x \in DOMAIN sendStore'
       PROVE  sendStore'[x].completed <= Cardinality((1 .. Len(PartsOf(x)')) \ Unsent(x)')
  <2>1. CASE x = q
    <3>1. sendStore'[x] = c
      BY <1>11, <2>1
    <3> QED
      BY <1>8, <1>9, <1>10, <2>1, <3>1
  <2>2. CASE x # q
    <3>1. x \in DOMAIN sendStore /\ sendStore'[x] = sendStore[x]
      BY <1>11, <2>2
    <3> QED
      BY <3>1, SentCountKept
  <2> QED
    BY <2>1, <2>2
<1>13. ASSUME NEW x \in DOMAIN written' \ DOMAIN sendStore', NEW j \in 1 .. Len(PartsOf(x)')
       PROVE  Sent(x, j)'
  <2>0. PartsOf(x)' = PartsOf(x) /\ x \in DOMAIN written
    BY <1>1 DEF PartsOf
  <2>1. CASE x \notin DOMAIN sendStore
    <3>1. Sent(x, j)
      BY <2>0, <2>1 DEF SentInv
    <3> QED
      BY <3>1, SentKept
  <2>2. CASE x \in DOMAIN sendStore
    <3>1. x = q /\ IsComplete(c)
      BY <1>11, <2>2
    <3>2. Unsent(q)' = {}
      BY <1>8, <1>9, <1>10, <3>1, AllDone, SMTT(30)
    <3> QED
      BY <2>0, <3>1, <3>2 DEF Unsent
  <2> QED
    BY <2>1, <2>2
<1> QED
  BY <1>12, <1>13, CountedIsSent DEF SentInv

LEMMA StepSent ==
    ASSUME Inv, [Next]_vars, SentInv PROVE SentInv'
<1> SUFFICES ASSUME AllUp' PROVE SentInv'
  BY DEF SentInv
<1>1. AllUp
  <2>1. ASSUME NEW d \in Dp, ConnectionLost(d) PROVE FALSE
    BY <2>1 DEF ConnectionLost, AllUp, Inv, ReceiverInv, NetTypeOK
  <2>2. ASSUME NEW w \in Writers, (\E dec \in Decisions : Write(w, dec)) \/ Enqueue(w)
        PROVE  UNCHANGED up
    BY <2>2 DEF Write, Enqueue, netVars
  <2>3. ASSUME NEW d \in Dp, WriteLoop(d) \/ ReadLoop(d) PROVE UNCHANGED up
    BY <2>3 DEF WriteLoop, Dequeue, WriteHeader, WriteData, WriteFails, CountPart, Complete,
                ReadLoop, ReadHeader, ReadData, ReadFails, Lookup, Deliver, Panic, netVars
  <2>4. ASSUME NEW s \in Streams, AcceptStream(s) PROVE UNCHANGED up
    BY <2>4 DEF AcceptStream, netVars
  <2>5. StreamStored \/ UNCHANGED vars => UNCHANGED up
    BY DEF StreamStored, vars, netVars
  <2> QED
    BY <2>1, <2>2, <2>3, <2>4, <2>5 DEF Next, AllUp
<1>2. ASSUME UNCHANGED <<written, sendStore>> PROVE SentInv'
  BY <1>1, <1>2, UncountedSent, CountedIsSent
<1>3. ASSUME NEW w \in Writers, NEW dec \in Decisions, Write(w, dec) PROVE SentInv'
  BY <1>1, <1>3, WriteSent
<1>4. ASSUME NEW d \in Dp, CountPart(d) PROVE SentInv'
  BY <1>1, <1>4, CountPartSent, SMTT(30)
<1>5. ASSUME NEW w \in Writers, Enqueue(w) PROVE UNCHANGED <<written, sendStore>>
  BY <1>5 DEF Enqueue
<1>6. ASSUME NEW d \in Dp, Dequeue(d) PROVE UNCHANGED <<written, sendStore>>
  <2>1. queue[d] \in Seq(Assignment) /\ queue[d] # <<>>
    BY <1>6 DEF Dequeue, Inv, SenderInv, SendTypeOK
  <2>2. 1 \in 1 .. Len(queue[d]) /\ Head(queue[d]) = queue[d][1]
    BY <2>1, TailFacts
  <2>3. Head(queue[d]).seq \in DOMAIN sendStore
    BY <2>2 DEF Inv, SenderInv, QueueInv, QueuedInv
  <2> QED
    BY <1>6, <2>3 DEF Dequeue, GetOrCreate
<1>7. ASSUME NEW d \in Dp, \/ WriteHeader(d) \/ WriteData(d) \/ WriteFails(d)
                           \/ \E w \in Writers : Complete(d, w)
      PROVE  UNCHANGED <<written, sendStore>>
  BY <1>7 DEF WriteHeader, WriteData, WriteFails, Complete
<1>8. ASSUME NEW d \in Dp, ReadLoop(d) \/ ConnectionLost(d) PROVE UNCHANGED <<written, sendStore>>
  BY <1>8 DEF ReadLoop, ReadHeader, ReadData, ReadFails, Lookup, Deliver, Panic,
              ConnectionLost, sendVars
<1>9. ASSUME NEW s \in Streams, AcceptStream(s) PROVE UNCHANGED <<written, sendStore>>
  BY <1>9 DEF AcceptStream, sendVars
<1>10. StreamStored \/ UNCHANGED vars => UNCHANGED <<written, sendStore>>
  BY DEF StreamStored, vars, sendVars
<1> QED
  BY <1>2, <1>3, <1>4, <1>5, <1>6, <1>7, <1>8, <1>9, <1>10 DEF Next, WriteLoop

\* A Write returns only when every part has been handed to a QUIC stream, and while
\* no connection is lost every part of it can be found on the way to the ReadBuffer.
THEOREM ReturnedIsSent == Spec => []ReturnMeansSent
<1>1. Inv /\ SentInv => ReturnMeansSent
  <2> SUFFICES ASSUME Inv, SentInv, NEW q \in DOMAIN written, Returned(q)
               PROVE  /\ \A d \in Dp :
                            /\ \A k \in 1 .. Len(queue[d]) : queue[d][k].seq # q
                            /\ wpart[d] # None => wpart[d].seq # q
                      /\ (\A d \in Dp : up[d]) =>
                            \A i \in 1 .. Len(PartsOf(q)) :
                                \/ InFlight(q, i)
                                \/ q \in DOMAIN recvStore /\ \E e \in recvStore[q].held : e.key = i
                                \/ Delivered(q)
    BY DEF ReturnMeansSent, PartsOf
  <2>1. \A w \in Writers : writing[w] # q
    BY DEF Returned
  <2>2. written[q].writer \in Writers /\ q \in SeqIds
    BY DEF Inv, SenderInv, SendTypeOK
  <2>3. q \notin DOMAIN sendStore
    BY <2>1, <2>2 DEF Inv, SenderInv, SendStoreInv
  <2>4. ASSUME NEW d \in Dp PROVE \A k \in 1 .. Len(queue[d]) : queue[d][k].seq # q
    BY <2>3 DEF Inv, SenderInv, QueueInv, QueuedInv
  <2>5. ASSUME NEW d \in Dp, wpart[d] # None, wpart[d].seq = q PROVE FALSE
    <3>1. wpc[d] # "get"
      BY <2>5 DEF Inv, SenderInv, SendTypeOK
    <3>2. wpc[d] = "signal"
      BY <2>3, <2>5, <3>1 DEF Inv, SenderInv, WriteLoopInv
    <3> QED
      BY <2>1, <2>2, <2>5, <3>2 DEF Inv, SenderInv, SignalInv
  <2>6. ASSUME \A d \in Dp : up[d], NEW i \in 1 .. Len(PartsOf(q))
        PROVE  \/ InFlight(q, i)
               \/ q \in DOMAIN recvStore /\ \E e \in recvStore[q].held : e.key = i
               \/ Delivered(q)
    <3>1. Sent(q, i)
      BY <2>3, <2>6 DEF SentInv, AllUp
    <3> QED
      BY <3>1 DEF Sent, OnWire, Got, Assembled, Finishing, InFlight
  <2> QED
    BY <2>4, <2>5, <2>6
<1>2. Inv /\ SentInv /\ [Next]_vars => SentInv'
  BY StepSent
<1> QED
  BY <1>1, <1>2, InitSent, DataplaneCorrect, PTL DEF Spec

-----------------------------------------------------------------------------
(* The order on one path. *)

LEMMA LineFacts ==
    ASSUME Inv, NEW d \in Dp
    PROVE  /\ Len(net[d]) \in Nat /\ Len(queue[d]) \in Nat
           /\ \A n : n \in Line(d) <=> n \in Int /\ Place(d, n)
           /\ \A n \in Line(d) : Made(PartAt(d, n), d)
           /\ \A n \in Line(d) : PartAt(d, n).seq \in DOMAIN written
<1>1. net[d] \in Seq(Unit) /\ queue[d] \in Seq(Assignment)
  BY DEF Inv, ReceiverInv, NetTypeOK, SenderInv, SendTypeOK
<1>2. Len(net[d]) \in Nat /\ Len(queue[d]) \in Nat
  BY <1>1
<1>3. \A n : n \in Line(d) <=> n \in Int /\ Place(d, n)
  BY <1>2 DEF Line, Place
<1>4. ASSUME NEW n \in Line(d) PROVE Made(PartAt(d, n), d)
  <2>1. n \in Int /\ Place(d, n)
    BY <1>3
  <2>2. CASE n \in 1 .. Len(queue[d])
    <3>1. PartAt(d, n) = queue[d][n]
      BY <2>2 DEF PartAt
    <3> QED
      BY <2>2, <3>1 DEF Inv, SenderInv, QueueInv, QueuedInv
  <2>3. CASE n = 0 /\ wpc[d] # "get"
    <3>1. PartAt(d, n) = wpart[d]
      BY <2>3 DEF PartAt
    <3> QED
      BY <2>3, <3>1 DEF Inv, SenderInv, WriteLoopInv
  <2>4. CASE n \in - Len(net[d]) .. -1
    <3> PICK k : k = n + Len(net[d]) + 1
      OBVIOUS
    <3>1. k \in 1 .. Len(net[d]) /\ PartAt(d, n) = net[d][k].a
      BY <1>2, <2>4 DEF PartAt
    <3> QED
      BY <3>1 DEF Inv, ReceiverInv, WireInv, UnitInv
  <2>5. CASE n = - Len(net[d]) - 1 /\ rpc[d] # "header"
    <3>1. PartAt(d, n) = rpart[d]
      BY <1>2, <2>5 DEF PartAt
    <3> QED
      BY <2>5, <3>1 DEF Inv, ReceiverInv, RecvTypeOK, WireInv
  <2> QED
    BY <2>1, <2>2, <2>3, <2>4, <2>5 DEF Place
<1> QED
  BY <1>2, <1>3, <1>4 DEF Made

\* Order among Writes does not change once they are made.
LEMMA NotAfterKept ==
    ASSUME Inv, [Next]_vars, NEW p \in DOMAIN written, NEW q \in DOMAIN written
    PROVE  NotAfter(p, q)' <=> NotAfter(p, q)
BY WrittenStays DEF NotAfter, Inv

\* Parts move towards the readLoop without overtaking each other: f says where the
\* part at place n was before the step.
LEMMA LineShift ==
    ASSUME Inv, [Next]_vars, Inv', NEW d \in Dp, LineInv(d), FirstOut(d),
           NEW f,
           \A n \in Line(d)' : f[n] \in Line(d) /\ PartAt(d, n)' = PartAt(d, f[n]),
           \A m, n \in Line(d)' : m <= n => f[m] <= f[n]
    PROVE  /\ LineInv(d)'
           /\ \A p \in DOMAIN written : Delivered(p) /\ OnPath(p, d) =>
                 \A n \in Line(d)' : NotAfter(p, PartAt(d, n).seq)'
<1>1. \A n \in Line(d)' : PartAt(d, f[n]).seq \in DOMAIN written
  BY LineFacts
<1>2. ASSUME NEW m \in Line(d)', NEW n \in Line(d)', m <= n
      PROVE  NotAfter(PartAt(d, m).seq, PartAt(d, n).seq)'
  <2> PICK p, q : p = PartAt(d, f[m]).seq /\ q = PartAt(d, f[n]).seq
    OBVIOUS
  <2>1. NotAfter(p, q) /\ p \in DOMAIN written /\ q \in DOMAIN written
    BY <1>1, <1>2 DEF LineInv
  <2>2. NotAfter(p, q)'
    BY <2>1, NotAfterKept
  <2>3. p = PartAt(d, m).seq' /\ q = PartAt(d, n).seq'
    OBVIOUS
  <2> QED
    BY <2>2, <2>3 DEF NotAfter
<1>3. ASSUME NEW p \in DOMAIN written, Delivered(p), OnPath(p, d), NEW n \in Line(d)'
      PROVE  NotAfter(p, PartAt(d, n).seq)'
  <2> PICK q : q = PartAt(d, f[n]).seq
    OBVIOUS
  <2>1. NotAfter(p, q) /\ q \in DOMAIN written
    BY <1>1, <1>3 DEF FirstOut
  <2>2. NotAfter(p, q)'
    BY <2>1, NotAfterKept
  <2> QED
    BY <2>2 DEF NotAfter
<1> QED
  BY <1>2, <1>3 DEF LineInv

\* The place of a part in the line, and what is delivered, stay in order on d.
LineKept(d) ==
    /\ LineInv(d)'
    /\ \A p \in DOMAIN written : Delivered(p) /\ OnPath(p, d) =>
          \A n \in Line(d)' : NotAfter(p, PartAt(d, n).seq)'

LEMMA LineFactsNext ==
    ASSUME Inv', NEW d \in Dp
    PROVE  /\ Len(net'[d]) \in Nat /\ Len(queue'[d]) \in Nat
           /\ \A n : n \in Line(d)' <=> n \in Int /\ Place(d, n)'
<1>1. net'[d] \in Seq(Unit) /\ queue'[d] \in Seq(Assignment)
  BY DEF Inv, ReceiverInv, NetTypeOK, SenderInv, SendTypeOK
<1>2. Len(net'[d]) \in Nat /\ Len(queue'[d]) \in Nat
  BY <1>1
<1>3. \A n : n \in Line(d)' <=> n \in Int /\ Place(d, n)'
  BY <1>2 DEF Line, Place
<1> QED
  BY <1>2, <1>3

\* At most the writeLoop or the readLoop lets go of its part.
LEMMA LineStands ==
    ASSUME Inv, [Next]_vars, Inv', NEW d \in Dp, LineInv(d), FirstOut(d),
           net'[d] = net[d], queue'[d] = queue[d],
           wpc'[d] # "get" => wpc[d] # "get" /\ wpart'[d] = wpart[d],
           rpc'[d] # "header" => rpc[d] # "header" /\ rpart'[d] = rpart[d]
    PROVE  LineKept(d)
<1> DEFINE f == [n \in Int |-> n]
<1>1. ASSUME NEW n \in Line(d)'
      PROVE  n \in Int /\ n \in Line(d) /\ PartAt(d, n)' = PartAt(d, n)
  <2>1. n \in Int /\ Place(d, n)'
    BY LineFactsNext
  <2>2. Place(d, n)
    BY <2>1 DEF Place
  <2>3. PartAt(d, n)' = PartAt(d, n)
    BY <2>1, LineFacts DEF Place, PartAt
  <2> QED
    BY <2>1, <2>2, <2>3, LineFacts
<1>2. \A n \in Line(d)' : f[n] \in Line(d) /\ PartAt(d, n)' = PartAt(d, f[n])
  BY <1>1
<1>3. \A m, n \in Line(d)' : m <= n => f[m] <= f[n]
  BY <1>1
<1> HIDE DEF f
<1> QED
  BY <1>2, <1>3, LineShift DEF LineKept

LEMMA LineDequeue ==
    ASSUME Inv, [Next]_vars, Inv', NEW d \in Dp, LineInv(d), FirstOut(d), Dequeue(d)
    PROVE  LineKept(d)
<1> DEFINE f == [n \in Int |-> IF n >= 0 THEN n + 1 ELSE n]
<1>1. /\ queue[d] \in Seq(Assignment) /\ queue[d] # <<>> /\ queue'[d] = Tail(queue[d])
      /\ wpc[d] = "get" /\ wpart'[d] = Head(queue[d]) /\ net'[d] = net[d]
      /\ rpc'[d] = rpc[d] /\ rpart'[d] = rpart[d]
  BY DEF Dequeue, netVars, recvVars, Inv, SenderInv, SendTypeOK
<1>2. /\ Head(queue[d]) = queue[d][1] /\ Len(queue'[d]) = Len(queue[d]) - 1
      /\ 1 \in 1 .. Len(queue[d])
      /\ \A k \in 1 .. Len(queue'[d]) : k + 1 \in 1 .. Len(queue[d]) /\ queue'[d][k] = queue[d][k + 1]
  BY <1>1, TailFacts
<1>3. ASSUME NEW n \in Line(d)'
      PROVE  n \in Int /\ f[n] \in Line(d) /\ PartAt(d, n)' = PartAt(d, f[n])
  <2>1. n \in Int /\ Place(d, n)'
    BY LineFactsNext
  <2>2. CASE n > 0
    <3>1. n \in 1 .. Len(queue'[d]) /\ f[n] = n + 1
      BY <2>1, <2>2, LineFacts, <1>1 DEF Place
    <3>2. Place(d, n + 1) /\ PartAt(d, n + 1) = queue[d][n + 1] /\ PartAt(d, n)' = queue'[d][n]
      BY <1>2, <2>1, <2>2, <3>1 DEF Place, PartAt
    <3> QED
      BY <1>2, <2>1, <3>1, <3>2, LineFacts
  <2>3. CASE n = 0
    <3>1. f[n] = 1 /\ Place(d, 1) /\ PartAt(d, 1) = queue[d][1] /\ PartAt(d, n)' = wpart'[d]
      BY <1>2, <2>3 DEF Place, PartAt
    <3> QED
      BY <1>1, <1>2, <2>1, <3>1, LineFacts
  <2>4. CASE n < 0
    <3>1. f[n] = n /\ Place(d, n) /\ PartAt(d, n)' = PartAt(d, n)
      BY <1>1, <2>1, <2>4 DEF Place, PartAt
    <3> QED
      BY <2>1, <3>1, LineFacts
  <2> QED
    BY <2>1, <2>2, <2>3, <2>4
<1>4. \A m, n \in Line(d)' : m <= n => f[m] <= f[n]
  BY <1>3
<1> HIDE DEF f
<1> QED
  BY <1>3, <1>4, LineShift DEF LineKept

LEMMA PlaceArithmetic ==
    ASSUME NEW n \in Int, NEW L \in Nat, n < -1, n >= - (L + 1)
    PROVE  /\ (n + 1) + L + 1 \in 1 .. L
           /\ n + (L + 1) + 1 = (n + 1) + L + 1
           /\ n + 1 >= - L
OBVIOUS

\* WriteAll: writeLoop's part enters the QUIC stream behind all others, while
\* writeLoop still holds it.
LEMMA LineWrite ==
    ASSUME Inv, [Next]_vars, Inv', NEW d \in Dp, LineInv(d), FirstOut(d),
           WriteHeader(d) \/ WriteData(d)
    PROVE  LineKept(d)
<1> DEFINE f == [n \in Int |-> IF n < 0 THEN n + 1 ELSE n]
<1>0. wpc[d] # "get" /\ queue'[d] = queue[d] /\ wpart'[d] = wpart[d]
      /\ rpc'[d] = rpc[d] /\ rpart'[d] = rpart[d] /\ net[d] \in Seq(Unit)
  BY DEF WriteHeader, WriteData, recvVars, Inv, ReceiverInv, NetTypeOK
<1>1. PICK kind \in {"header", "data"} :
        net'[d] = Append(net[d], [kind |-> kind, a |-> wpart[d]])
  BY DEF WriteHeader, WriteData, Inv, ReceiverInv, NetTypeOK
<1> PICK u : u = [kind |-> kind, a |-> wpart[d]]
  OBVIOUS
<1>2. u \in Unit /\ u.a = wpart[d]
  BY <1>0 DEF Unit, Inv, SenderInv, SendTypeOK
<1>3. /\ Len(net'[d]) = Len(net[d]) + 1 /\ Len(net[d]) \in Nat
      /\ net'[d][Len(net[d]) + 1] = u
      /\ \A k \in 1 .. Len(net[d]) : net'[d][k] = net[d][k]
  BY <1>0, <1>1, <1>2, AppendFacts
<1>4. ASSUME NEW n \in Line(d)'
      PROVE  n \in Int /\ f[n] \in Line(d) /\ PartAt(d, n)' = PartAt(d, f[n])
  <2>1. n \in Int /\ Place(d, n)'
    BY LineFactsNext
  <2>2. CASE n >= 0
    <3>1. f[n] = n /\ Place(d, n) /\ PartAt(d, n)' = PartAt(d, n)
      BY <1>0, <1>3, <2>1, <2>2 DEF Place, PartAt
    <3> QED
      BY <2>1, <3>1, LineFacts
  <2>3. CASE n = -1
    <3>1. f[n] = 0 /\ Place(d, 0) /\ PartAt(d, 0) = wpart[d]
      BY <1>0, <2>3 DEF Place, PartAt
    <3>2. PartAt(d, n)' = net'[d][Len(net[d]) + 1].a
      BY <1>3, <2>3 DEF PartAt
    <3> QED
      BY <1>2, <1>3, <2>1, <3>1, <3>2, LineFacts
  <2>4. CASE n < -1
    <3>1. f[n] = n + 1 /\ n + 1 < 0
      BY <2>1, <2>4
    <3>2. Place(d, n + 1)
      BY <1>0, <1>3, <2>1, <2>4, LineFacts DEF Place
    <3>3. PartAt(d, n)' = PartAt(d, n + 1)
      <4>1. CASE n >= - Len(net'[d])
        <5> PICK L : L = Len(net[d])
          OBVIOUS
        <5> PICK k : k = (n + 1) + L + 1
          OBVIOUS
        <5>0. L \in Nat /\ Len(net'[d]) = L + 1 /\ n >= - (L + 1)
          BY <1>3, <4>1
        <5>1. /\ k \in 1 .. L /\ n + (L + 1) + 1 = k /\ n + 1 >= - L
          BY <2>1, <2>4, <5>0, PlaceArithmetic
        <5>2. ~ (n > 0) /\ n # 0 /\ ~ (n + 1 > 0) /\ n + 1 # 0
          BY <2>1, <2>4
        <5>3. PartAt(d, n)' = net'[d][k].a
          BY <4>1, <5>0, <5>1, <5>2 DEF PartAt
        <5>4. PartAt(d, n + 1) = net[d][k].a
          BY <5>0, <5>1, <5>2 DEF PartAt
        <5> QED
          BY <1>3, <5>1, <5>3, <5>4
      <4>2. CASE ~ (n >= - Len(net'[d]))
        <5>1. ~ (n + 1 >= - Len(net[d]))
          BY <1>3, <2>1, <4>2
        <5> QED
          BY <1>0, <2>1, <2>4, <3>1, <4>2, <5>1 DEF PartAt
      <4> QED
        BY <4>1, <4>2
    <3> QED
      BY <2>1, <3>1, <3>2, <3>3, LineFacts
  <2> QED
    BY <2>1, <2>2, <2>3, <2>4
<1>5. \A m, n \in Line(d)' : m <= n => f[m] <= f[n]
  BY <1>4
<1> HIDE DEF f
<1> QED
  BY <1>4, <1>5, LineShift DEF LineKept

\* What was on the QUIC stream is gone; the others close up.
LEMMA LineLost ==
    ASSUME Inv, [Next]_vars, Inv', NEW d \in Dp, LineInv(d), FirstOut(d), ConnectionLost(d)
    PROVE  LineKept(d)
<1> PICK L : L = Len(net[d])
  OBVIOUS
<1> DEFINE f == [n \in Int |-> IF n < 0 THEN - L - 1 ELSE n]
<1>1. /\ net'[d] = <<>> /\ queue'[d] = queue[d] /\ wpc'[d] = wpc[d] /\ wpart'[d] = wpart[d]
      /\ rpc'[d] = rpc[d] /\ rpart'[d] = rpart[d]
  BY DEF ConnectionLost, sendVars, recvVars, Inv, ReceiverInv, NetTypeOK
<1>2. L \in Nat /\ Len(net'[d]) = 0
  BY <1>1, LineFacts
<1>3. ASSUME NEW n \in Line(d)'
      PROVE  n \in Int /\ f[n] \in Line(d) /\ PartAt(d, n)' = PartAt(d, f[n])
  <2>1. n \in Int /\ Place(d, n)'
    BY LineFactsNext
  <2>2. CASE n >= 0
    <3>1. f[n] = n /\ Place(d, n) /\ PartAt(d, n)' = PartAt(d, n)
      BY <1>1, <1>2, <2>1, <2>2 DEF Place, PartAt
    <3> QED
      BY <2>1, <3>1, LineFacts
  <2>3. CASE n < 0
    <3>1. n = -1 /\ rpc[d] # "header" /\ f[n] = - L - 1 /\ f[n] \in Int
      BY <1>1, <1>2, <2>1, <2>3, LineFactsNext DEF Place
    <3> PICK m : m = - L - 1
      OBVIOUS
    <3>2. m \in Int /\ ~ (m > 0) /\ m # 0 /\ ~ (m >= - L)
      BY <1>2
    <3>3. Place(d, m) /\ PartAt(d, m) = rpart[d]
      BY <3>1, <3>2 DEF Place, PartAt
    <3>4. PartAt(d, n)' = rpart'[d]
      BY <1>2, <3>1 DEF PartAt
    <3> QED
      BY <1>1, <2>1, <3>1, <3>2, <3>3, <3>4, LineFacts
  <2> QED
    BY <2>1, <2>2, <2>3
<1>4. \A m, n \in Line(d)' : m <= n => f[m] <= f[n]
  BY <1>2, <1>3
<1> HIDE DEF f
<1> QED
  BY <1>3, <1>4, LineShift DEF LineKept

\* readLoop takes the first unit into its hands, or drops it when the part is added.
LEMMA LineRead ==
    ASSUME Inv, [Next]_vars, Inv', NEW d \in Dp, LineInv(d), FirstOut(d),
           ReadHeader(d) \/ ReadData(d)
    PROVE  LineKept(d)
<1> PICK L : L = Len(net[d])
  OBVIOUS
<1> DEFINE f == [n \in Int |-> n]
<1>1. /\ net[d] \in Seq(Unit) /\ net[d] # <<>> /\ net'[d] = Tail(net[d])
      /\ UNCHANGED sendVars
  BY DEF ReadHeader, ReadData, Inv, ReceiverInv, NetTypeOK
<1>2. queue'[d] = queue[d] /\ wpc'[d] = wpc[d] /\ wpart'[d] = wpart[d]
  BY <1>1 DEF sendVars
<1>3. /\ L \in Nat /\ 1 \in 1 .. L /\ Len(net'[d]) = L - 1 /\ Head(net[d]) = net[d][1]
      /\ \A k \in 1 .. L - 1 : k + 1 \in 1 .. L /\ net'[d][k] = net[d][k + 1]
  BY <1>1, TailFacts
<1>4. rpart'[d] = net[d][1].a
  <2>1. CASE ReadHeader(d)
    BY <1>3, <2>1 DEF ReadHeader, Inv, ReceiverInv, RecvTypeOK
  <2>2. CASE ReadData(d)
    <3>1. net[d][1] = [kind |-> "data", a |-> rpart[d]]
      BY <2>2, DataIsNew
    <3> QED
      BY <2>2, <3>1 DEF ReadData
  <2> QED
    BY <2>1, <2>2
<1>5. ASSUME NEW n \in Line(d)'
      PROVE  n \in Int /\ n \in Line(d) /\ PartAt(d, n)' = PartAt(d, n)
  <2>1. n \in Int /\ Place(d, n)'
    BY LineFactsNext
  <2>2. CASE n >= 0
    <3>1. Place(d, n) /\ PartAt(d, n)' = PartAt(d, n)
      BY <1>2, <1>3, <2>1, <2>2 DEF Place, PartAt
    <3> QED
      BY <2>1, <3>1, LineFacts
  <2>3. CASE n < 0
    <3>1. ~ (n > 0) /\ n # 0 /\ n \in - L .. -1 /\ n >= - L
      BY <1>3, <2>1, <2>3, LineFactsNext DEF Place
    <3>2. Place(d, n) /\ PartAt(d, n) = net[d][n + L + 1].a
      BY <3>1 DEF Place, PartAt
    <3>3. CASE n = - L
      <4>1. ~ (n >= - (L - 1)) /\ n + L + 1 = 1
        BY <1>3, <3>3
      <4>2. PartAt(d, n)' = rpart'[d]
        BY <1>3, <3>1, <4>1 DEF PartAt
      <4> QED
        BY <1>4, <2>1, <3>2, <4>1, <4>2, LineFacts
    <3>4. CASE n # - L
      <4> PICK k : k = n + L
        OBVIOUS
      <4>1. k \in 1 .. L - 1 /\ n >= - (L - 1) /\ n + (L - 1) + 1 = k /\ n + L + 1 = k + 1
        BY <1>3, <2>1, <3>1, <3>4, SMTT(30)
      <4>2. PartAt(d, n)' = net'[d][k].a
        BY <1>3, <3>1, <4>1 DEF PartAt
      <4> QED
        BY <1>3, <2>1, <3>2, <4>1, <4>2, LineFacts
    <3> QED
      BY <3>3, <3>4
  <2> QED
    BY <2>1, <2>2, <2>3
<1>6. \A n \in Line(d)' : f[n] \in Line(d) /\ PartAt(d, n)' = PartAt(d, f[n])
  BY <1>5
<1>7. \A m, n \in Line(d)' : m <= n => f[m] <= f[n]
  BY <1>5
<1> HIDE DEF f
<1> QED
  BY <1>6, <1>7, LineShift DEF LineKept

\* A part that is added to the queue belongs to the newest Write of its goroutine.
LEMMA LineEnqueue ==
    ASSUME Inv, [Next]_vars, Inv', NEW d \in Dp, LineInv(d), FirstOut(d), NewestInv,
           NEW w \in Writers, Enqueue(w)
    PROVE  LineKept(d)
<1> PICK q, i, d0, a : /\ q = writing[w] /\ i = next[w] /\ d0 = PartsOf(q)[i].dp
                       /\ a = PartOf(q, StreamOf[w], PartsOf(q), i)
  OBVIOUS
<1>1. /\ q # None /\ queue' = [queue EXCEPT ![d0] = Append(queue[d0], a)]
      /\ net'[d] = net[d] /\ wpc'[d] = wpc[d] /\ wpart'[d] = wpart[d]
      /\ rpc'[d] = rpc[d] /\ rpart'[d] = rpart[d] /\ written' = written
      /\ i <= Len(PartsOf(q))
  BY Zenon DEF Enqueue, PartsOf, netVars, recvVars
<1>2. /\ queue \in [Dp -> Seq(Assignment)] /\ q \in SeqIds /\ q \in DOMAIN written
      /\ PartsOf(q) \in Decisions /\ i \in Nat \ {0}
  BY <1>1 DEF Inv, SenderInv, SendTypeOK, PartsOf
<1>3. a \in Assignment /\ a.seq = q
  <2>1. i \in 1 .. Len(PartsOf(q)) /\ StreamOf[w] \in Streams
    BY <1>1, <1>2, DecisionFacts, DataplaneAssumption DEF DataplaneAssumption
  <2> QED
    BY <1>2, <2>1, PartOfType DEF PartOf
<1>4. CASE d # d0
  <2>1. queue'[d] = queue[d]
    BY <1>1, <1>2, <1>4
  <2> QED
    BY <1>1, <2>1, LineStands
<1>5. CASE d = d0
  <2> PICK Q : Q = Len(queue[d])
    OBVIOUS
  <2>1. queue'[d] = Append(queue[d], a) /\ queue[d] \in Seq(Assignment)
    BY <1>1, <1>2, <1>5
  <2>2. /\ Q \in Nat /\ Len(queue'[d]) = Q + 1 /\ queue'[d][Q + 1] = a
        /\ \A k \in 1 .. Q : queue'[d][k] = queue[d][k]
    BY <1>3, <2>1, AppendFacts
  <2>3. ASSUME NEW n \in Line(d)', n # Q + 1
        PROVE  n \in Int /\ n \in Line(d) /\ PartAt(d, n)' = PartAt(d, n) /\ n < Q + 1
    <3>1. n \in Int /\ Place(d, n)'
      BY LineFactsNext
    <3>2. CASE n > 0
      <4>1. n \in 1 .. Q
        BY ONLY <1>1, <2>2, <2>3, <3>1, <3>2, LineFacts DEF Place
      <4>2. Place(d, n) /\ PartAt(d, n)' = PartAt(d, n)
        BY <2>2, <3>2, <4>1 DEF Place, PartAt
      <4> QED
        BY <2>2, <3>1, <4>1, <4>2, LineFacts
    <3>3. CASE ~ (n > 0)
      <4>1. Place(d, n) /\ PartAt(d, n)' = PartAt(d, n)
        BY <1>1, <3>1, <3>3 DEF Place, PartAt
      <4> QED
        BY <2>2, <3>1, <3>3, <4>1, LineFacts
    <3> QED
      BY <3>2, <3>3
  <2>4. ASSUME NEW n \in Line(d)', n = Q + 1 PROVE PartAt(d, n).seq' = q
    BY <1>3, <2>2, <2>4 DEF PartAt
  <2>5. \A p \in DOMAIN written : NotAfter(p, q)
    BY <1>1 DEF NewestInv
  <2>6. ASSUME NEW m \in Line(d)', NEW n \in Line(d)', m <= n
        PROVE  NotAfter(PartAt(d, m).seq, PartAt(d, n).seq)'
    <3> PICK x, y : x = PartAt(d, m).seq' /\ y = PartAt(d, n).seq'
      OBVIOUS
    <3>1. CASE n = Q + 1
      <4>1. y = q
        BY <2>4, <3>1
      <4>2. x \in DOMAIN written
        BY <1>2, <2>3, <2>4, LineFacts
      <4>3. NotAfter(x, y)
        BY <2>5, <4>1, <4>2
      <4> QED
        BY <1>1, <4>3 DEF NotAfter
    <3>2. CASE n # Q + 1
      <4>1. n \in Line(d) /\ y = PartAt(d, n).seq /\ n < Q + 1 /\ n \in Int
        BY <2>3, <3>2
      <4>2. m # Q + 1
        BY <2>2, <2>6, <4>1
      <4>3. m \in Line(d) /\ x = PartAt(d, m).seq
        BY <2>3, <4>2
      <4>4. NotAfter(x, y)
        BY <2>6, <4>1, <4>3 DEF LineInv
      <4> QED
        BY <1>1, <4>4 DEF NotAfter
    <3> QED
      BY <3>1, <3>2
  <2>7. ASSUME NEW p \in DOMAIN written, Delivered(p), OnPath(p, d), NEW n \in Line(d)'
        PROVE  NotAfter(p, PartAt(d, n).seq)'
    <3> PICK y : y = PartAt(d, n).seq'
      OBVIOUS
    <3>1. NotAfter(p, y)
      <4>1. CASE n = Q + 1
        BY <2>4, <2>5, <4>1
      <4>2. CASE n # Q + 1
        BY <2>3, <2>7, <4>2 DEF FirstOut
      <4> QED
        BY <4>1, <4>2
    <3> QED
      BY <1>1, <3>1 DEF NotAfter
  <2> QED
    BY <2>6, <2>7 DEF LineKept, LineInv
<1> QED
  BY <1>4, <1>5

\* Every path keeps its order in every step.
LEMMA StepLine ==
    ASSUME Inv, [Next]_vars, Inv', NEW d \in Dp, LineInv(d), FirstOut(d), NewestInv
    PROVE  LineKept(d)
<1>0. /\ wpc \in [Dp -> {"get", "header", "data", "count", "signal"}]
      /\ wpart \in [Dp -> Assignment \cup {None}]
      /\ rpc \in [Dp -> {"header", "data", "lookup", "append", "nil"}]
      /\ rpart \in [Dp -> Assignment \cup {None}]
      /\ net \in [Dp -> Seq(Unit)] /\ queue \in [Dp -> Seq(Assignment)]
  BY DEF Inv, SenderInv, SendTypeOK, ReceiverInv, NetTypeOK, RecvTypeOK
<1> DEFINE Stands ==
        /\ net'[d] = net[d] /\ queue'[d] = queue[d]
        /\ wpc'[d] # "get" => wpc[d] # "get" /\ wpart'[d] = wpart[d]
        /\ rpc'[d] # "header" => rpc[d] # "header" /\ rpart'[d] = rpart[d]
<1>1. Stands => LineKept(d)
  BY LineStands
<1>2. ASSUME NEW w \in Writers, NEW dec \in Decisions, Write(w, dec) PROVE Stands
  BY <1>2 DEF Write, netVars, recvVars
<1>3. ASSUME NEW w \in Writers, Enqueue(w) PROVE LineKept(d)
  BY <1>3, LineEnqueue
<1>4. ASSUME NEW e \in Dp, Dequeue(e) PROVE LineKept(d)
  <2>1. CASE e = d
    BY <1>4, <2>1, LineDequeue
  <2>2. CASE e # d
    <3>1. Stands
      BY <1>0, <1>4, <2>2 DEF Dequeue, netVars, recvVars
    <3> QED
      BY <1>1, <3>1
  <2> QED
    BY <2>1, <2>2
<1>5. ASSUME NEW e \in Dp, WriteHeader(e) \/ WriteData(e) PROVE LineKept(d)
  <2>1. CASE e = d
    BY <1>5, <2>1, LineWrite
  <2>2. CASE e # d
    <3>1. Stands
      BY <1>0, <1>5, <2>2 DEF WriteHeader, WriteData, recvVars
    <3> QED
      BY <1>1, <3>1
  <2> QED
    BY <2>1, <2>2
<1>6. ASSUME NEW e \in Dp, WriteFails(e) \/ CountPart(e) \/ \E w \in Writers : Complete(e, w)
      PROVE  Stands
  <2>1. /\ UNCHANGED <<queue, netVars, recvVars>> /\ wpc[e] # "get"
        /\ wpc' = [wpc EXCEPT ![e] = "get"] \/ wpc' = [wpc EXCEPT ![e] = "signal"]
        /\ wpart' = [wpart EXCEPT ![e] = None] \/ UNCHANGED wpart
        /\ wpc' = [wpc EXCEPT ![e] = "signal"] => UNCHANGED wpart
    <3>1. CASE WriteFails(e)
      BY <1>0, <3>1 DEF WriteFails
    <3>2. CASE CountPart(e)
      BY <1>0, <3>2 DEF CountPart
    <3>3. CASE \E w \in Writers : Complete(e, w)
      BY <1>0, <3>3 DEF Complete
    <3> QED
      BY <1>6, <3>1, <3>2, <3>3
  <2> QED
    BY <1>0, <2>1 DEF netVars, recvVars
<1>7. ASSUME NEW e \in Dp, ConnectionLost(e) PROVE LineKept(d)
  <2>1. CASE e = d
    BY <1>7, <2>1, LineLost
  <2>2. CASE e # d
    <3>1. Stands
      BY <1>0, <1>7, <2>2 DEF ConnectionLost, sendVars, recvVars
    <3> QED
      BY <1>1, <3>1
  <2> QED
    BY <2>1, <2>2
<1>8. ASSUME NEW e \in Dp, ReadHeader(e) \/ ReadData(e) PROVE LineKept(d)
  <2>1. CASE e = d
    BY <1>8, <2>1, LineRead
  <2>2. CASE e # d
    <3>1. Stands
      BY <1>0, <1>8, <2>2 DEF ReadHeader, ReadData, sendVars
    <3> QED
      BY <1>1, <3>1
  <2> QED
    BY <2>1, <2>2
<1>9. ASSUME NEW e \in Dp, ReadFails(e) \/ Lookup(e) \/ Deliver(e) \/ Panic(e) PROVE Stands
  BY <1>0, <1>9 DEF ReadFails, Lookup, Deliver, Panic, sendVars, netVars
<1>10. ASSUME NEW s \in Streams, AcceptStream(s) PROVE Stands
  BY <1>10 DEF AcceptStream, sendVars, netVars
<1>11. StreamStored \/ UNCHANGED vars => Stands
  BY SMTT(30) DEF StreamStored, vars, sendVars, netVars, recvVars
<1> HIDE DEF Stands
<1> QED
  BY <1>1, <1>2, <1>3, <1>4, <1>5, <1>6, <1>7, <1>8, <1>9, <1>10, <1>11
     DEF Next, WriteLoop, ReadLoop

\* Only readLoop's last step changes a ReadBuffer here.
LEMMA WhoDelivers ==
    ASSUME [Next]_vars, readBuffer' # readBuffer
    PROVE  \E d \in Dp : Deliver(d)
<1>1. ASSUME NEW w \in Writers, (\E dec \in Decisions : Write(w, dec)) \/ Enqueue(w)
      PROVE  UNCHANGED readBuffer
  BY <1>1 DEF Write, Enqueue, recvVars
<1>2. ASSUME NEW d \in Dp, WriteLoop(d) \/ ConnectionLost(d) PROVE UNCHANGED readBuffer
  BY <1>2 DEF WriteLoop, Dequeue, WriteHeader, WriteData, WriteFails, CountPart, Complete,
              ConnectionLost, recvVars
<1>3. ASSUME NEW d \in Dp, ReadHeader(d) \/ ReadData(d) \/ ReadFails(d) \/ Lookup(d) \/ Panic(d)
      PROVE  UNCHANGED readBuffer
  BY <1>3 DEF ReadHeader, ReadData, ReadFails, Lookup, Panic
<1>4. ASSUME NEW s \in Streams, AcceptStream(s) PROVE UNCHANGED readBuffer
  BY <1>4 DEF AcceptStream
<1>5. StreamStored \/ UNCHANGED vars => UNCHANGED readBuffer
  BY DEF StreamStored, vars, recvVars
<1> QED
  BY <1>1, <1>2, <1>3, <1>4, <1>5, SMTT(30) DEF Next, ReadLoop

\* What is delivered next came the same way as what was delivered before.
LEMMA StepFirstOut ==
    ASSUME Inv, [Next]_vars, Inv', NEW d \in Dp, LineInv(d), FirstOut(d), NewestInv
    PROVE  LineInv(d)' /\ FirstOut(d)'
<1>1. LineKept(d)
  BY StepLine
<1> SUFFICES ASSUME NEW p \in DOMAIN written', Delivered(p)', OnPath(p, d)',
                    NEW n \in Line(d)'
             PROVE  NotAfter(p, PartAt(d, n).seq)'
  BY <1>1 DEF LineKept, FirstOut
<1>2. CASE p \in DOMAIN written /\ Delivered(p)
  <2>1. OnPath(p, d)
    BY <1>2, WrittenStays DEF OnPath, PartsOf, Inv
  <2> QED
    BY <1>1, <1>2, <2>1 DEF LineKept
<1>3. CASE ~ Delivered(p)
  <2>1. PICK e \in Dp : Deliver(e)
    BY <1>3, WhoDelivers DEF Delivered
  <2>2. p = rpart[e].seq /\ rpc[e] = "append"
    BY <1>3, <2>1, DeliveredNext DEF Deliver
  <2>3. Made(rpart[e], e) /\ UNCHANGED <<sendVars, netVars, rpart>>
    BY <2>1, <2>2 DEF Deliver, Inv, ReceiverInv, RecvTypeOK, WireInv
  <2>4. UNCHANGED <<written, writing, next, queue, wpc, wpart, net>>
    BY <2>3 DEF sendVars, netVars
  <2>5. p \in DOMAIN written /\ d = e
    <3>1. /\ p \in DOMAIN written /\ rpart[e].part \in 1 .. Len(PartsOf(p))
          /\ e = PartsOf(p)[rpart[e].part].dp
      BY <2>2, <2>3, MadeFacts DEF Inv
    <3> QED
      BY <2>4, <3>1 DEF OnPath, PartsOf
  <2> PICK m : m = - Len(net[d]) - 1
    OBVIOUS
  <2>6. m \in Line(d) /\ PartAt(d, m) = rpart[d]
    <3>1. m \in Int /\ ~ (m > 0) /\ m # 0 /\ ~ (m >= - Len(net[d]))
      BY LineFacts
    <3>2. Place(d, m) /\ PartAt(d, m) = rpart[d]
      BY <2>2, <2>5, <3>1 DEF Place, PartAt
    <3> QED
      BY <3>1, <3>2, LineFacts
  <2>7. n \in Line(d) /\ PartAt(d, n)' = PartAt(d, n) /\ m <= n
    <3>1. n \in Int /\ Place(d, n)'
      BY LineFactsNext
    <3>2. rpc'[d] = "header"
      BY <2>1, <2>5 DEF Deliver, Inv, ReceiverInv, RecvTypeOK
    <3>3. Place(d, n) /\ PartAt(d, n)' = PartAt(d, n)
      BY <2>3, <2>4, <3>1, <3>2 DEF Place, PartAt
    <3>4. m <= n
      BY <2>4, <3>1, <3>2, LineFacts DEF Place
    <3> QED
      BY <3>1, <3>3, <3>4, LineFacts
  <2> PICK q : q = PartAt(d, n).seq
    OBVIOUS
  <2>8. NotAfter(p, q)
    BY <2>2, <2>5, <2>6, <2>7 DEF LineInv
  <2> QED
    BY <2>4, <2>7, <2>8 DEF NotAfter
<1>4. p \in DOMAIN written \/ ~ Delivered(p)
  BY NothingOfTheUnwritten DEF Got, Assembled
<1> QED
  BY <1>2, <1>3, <1>4

LEMMA StepNumbers ==
    ASSUME Inv, [Next]_vars, NumbersInv, NewestInv PROVE NumbersInv' /\ NewestInv'
<1>0. /\ \A q \in DOMAIN written : written[q] \in
             [stream : Streams, writer : Writers, no : Nat, parts : Decisions]
      /\ IsFiniteSet(DOMAIN written) /\ DOMAIN written \subseteq SeqIds
      /\ writing \in [Writers -> SeqIds \cup {None}]
      /\ \A w \in Writers : writing[w] # None => writing[w] \in DOMAIN written
  BY DEF Inv, SenderInv, SendTypeOK
<1>1. ASSUME UNCHANGED <<written, writing>> PROVE NumbersInv' /\ NewestInv'
  BY <1>1 DEF NumbersInv, NewestInv, NotAfter
<1>2. ASSUME NEW w \in Writers, NEW dec \in Decisions, Write(w, dec)
      PROVE  NumbersInv' /\ NewestInv'
  <2> PICK C : C = Cardinality(DOMAIN written)
    OBVIOUS
  <2>1. PICK q \in SeqIds \ DOMAIN written :
          /\ written' = Put(written, q, [stream |-> StreamOf[w], writer |-> w,
                                         no |-> C, parts |-> dec])
          /\ writing' = [writing EXCEPT ![w] = q]
    BY <1>2 DEF Write
  <2> PICK rec : rec = [stream |-> StreamOf[w], writer |-> w, no |-> C, parts |-> dec]
    OBVIOUS
  <2>2. written' = Put(written, q, rec) /\ rec.writer = w /\ rec.no = C
    BY <2>1
  <2>3. /\ DOMAIN written' = DOMAIN written \cup {q} /\ written'[q] = rec
        /\ \A x \in DOMAIN written : x # q /\ written'[x] = written[x]
    BY <2>2 DEF Put
  <2>4. C \in Nat /\ Cardinality(DOMAIN written') = C + 1
    BY <1>0, <2>3, FS_CardinalityType, FS_AddElement
  <2>5. \A x \in DOMAIN written : written[x].no \in Nat /\ written[x].no < C
    BY <1>0 DEF NumbersInv
  <2>6. NumbersInv'
    BY <2>2, <2>3, <2>4, <2>5 DEF NumbersInv
  <2>7. ASSUME NEW v \in Writers, writing'[v] # None, NEW x \in DOMAIN written'
        PROVE  NotAfter(x, writing[v])'
    <3>1. CASE v = w
      <4>1. writing'[v] = q
        BY <1>0, <2>1, <3>1
      <4>2. written'[x].no <= C
        BY <2>2, <2>3, <2>4, <2>5
      <4> QED
        BY <2>2, <2>3, <4>1, <4>2 DEF NotAfter
    <3>2. CASE v # w
      <4> PICK y : y = writing[v]
        OBVIOUS
      <4>1. writing'[v] = y /\ y \in DOMAIN written /\ y # None
        BY <1>0, <2>1, <2>7, <3>2, SMTT(30)
      <4>2. written[y].writer = v
        BY <4>1, SMTT(30) DEF Inv, SenderInv, WritersInv
      <4>3. CASE x = q
        BY <2>2, <2>3, <3>2, <4>1, <4>2, <4>3 DEF NotAfter
      <4>4. CASE x \in DOMAIN written
        <5>1. NotAfter(x, y)
          BY <4>1, <4>4 DEF NewestInv
        <5> QED
          BY <2>3, <4>1, <4>4, <5>1 DEF NotAfter
      <4> QED
        BY <2>3, <4>3, <4>4
    <3> QED
      BY <3>1, <3>2
  <2> QED
    BY <2>6, <2>7 DEF NewestInv
<1>3. ASSUME NEW d \in Dp, NEW w \in Writers, Complete(d, w) PROVE NumbersInv' /\ NewestInv'
  <2>1. UNCHANGED written /\ writing' = [writing EXCEPT ![w] = None]
    BY <1>3 DEF Complete
  <2>2. \A v \in Writers : writing'[v] # None => writing'[v] = writing[v]
    BY <1>0, <2>1, SMTT(30)
  <2> QED
    BY <2>1, <2>2 DEF NumbersInv, NewestInv, NotAfter
<1>4. ASSUME NEW w \in Writers, Enqueue(w) PROVE UNCHANGED <<written, writing>>
  BY <1>4 DEF Enqueue
<1>5. ASSUME NEW d \in Dp, \/ Dequeue(d) \/ WriteHeader(d) \/ WriteData(d) \/ WriteFails(d)
                           \/ CountPart(d)
      PROVE  UNCHANGED <<written, writing>>
  BY <1>5 DEF Dequeue, WriteHeader, WriteData, WriteFails, CountPart
<1>6. ASSUME NEW d \in Dp, ReadLoop(d) \/ ConnectionLost(d) PROVE UNCHANGED <<written, writing>>
  BY <1>6 DEF ReadLoop, ReadHeader, ReadData, ReadFails, Lookup, Deliver, Panic,
              ConnectionLost, sendVars
<1>7. ASSUME NEW s \in Streams, AcceptStream(s) PROVE UNCHANGED <<written, writing>>
  BY <1>7 DEF AcceptStream, sendVars
<1>8. StreamStored \/ UNCHANGED vars => UNCHANGED <<written, writing>>
  BY DEF StreamStored, vars, sendVars
<1> QED
  BY <1>1, <1>2, <1>3, <1>4, <1>5, <1>6, <1>7, <1>8 DEF Next, WriteLoop
\* What is delivered is not older than anything delivered before it on its path.
LEMMA StepInOrder ==
    ASSUME Inv, [Next]_vars, Inv', NumbersInv, \A d \in Dp : FirstOut(d), InOrderOnPath
    PROVE  InOrderOnPath'
<1>0. /\ \A q \in DOMAIN written : written[q] \in
             [stream : Streams, writer : Writers, no : Nat, parts : Decisions]
      /\ readBuffer \in [Streams -> Seq(Item)]
  BY DEF Inv, SenderInv, SendTypeOK, ReceiverInv, RecvTypeOK
<1>1. \A s \in Streams : \A i \in 1 .. Len(readBuffer[s]) :
         /\ readBuffer[s][i].seq \in DOMAIN written
         /\ written'[readBuffer[s][i].seq] = written[readBuffer[s][i].seq]
  BY WrittenStays, SMTT(30) DEF Inv, ReceiverInv, WholeSequences
<1> SUFFICES ASSUME NEW s \in Streams,
                    NEW i \in 1 .. Len(readBuffer'[s]), NEW j \in 1 .. Len(readBuffer'[s]),
                    i < j,
                    written'[readBuffer'[s][i].seq].writer = written'[readBuffer'[s][j].seq].writer,
                    SamePath(written'[readBuffer'[s][i].seq], written'[readBuffer'[s][j].seq])
             PROVE  written'[readBuffer'[s][i].seq].no < written'[readBuffer'[s][j].seq].no
  BY DEF InOrderOnPath, SamePath
<1>2. CASE readBuffer' = readBuffer
  BY <1>1, <1>2 DEF InOrderOnPath
<1>3. CASE readBuffer' # readBuffer
  <2>1. PICK d \in Dp : Deliver(d)
    BY <1>3, WhoDelivers
  <2>2. /\ Len(readBuffer[s]) \in Nat
        /\ \A k \in 1 .. Len(readBuffer[s]) : readBuffer'[s][k] = readBuffer[s][k]
        /\ \A k \in 1 .. Len(readBuffer'[s]) : k \notin 1 .. Len(readBuffer[s]) =>
              k = Len(readBuffer[s]) + 1 /\ readBuffer'[s][k].seq = rpart[d].seq
    BY <2>1, OnlyOneMore
  <2>3. CASE j \in 1 .. Len(readBuffer[s])
    <3>1. i \in 1 .. Len(readBuffer[s])
      BY <2>2, <2>3
    <3> PICK p, q : p = readBuffer[s][i].seq /\ q = readBuffer[s][j].seq
      OBVIOUS
    <3>2. /\ readBuffer'[s][i].seq = p /\ readBuffer'[s][j].seq = q
          /\ written'[p] = written[p] /\ written'[q] = written[q]
      BY <1>1, <2>2, <2>3, <3>1
    <3>3. written[p].writer = written[q].writer /\ SamePath(written[p], written[q])
      BY <3>2, SMTT(30)
    <3>4. written[p].no < written[q].no
      BY <2>3, <3>1, <3>3 DEF InOrderOnPath
    <3> QED
      BY <3>2, <3>4
  <2>4. CASE j \notin 1 .. Len(readBuffer[s])
    <3> PICK p, q : p = readBuffer[s][i].seq /\ q = rpart[d].seq
      OBVIOUS
    <3>1. /\ i \in 1 .. Len(readBuffer[s])
          /\ readBuffer'[s][i].seq = p /\ readBuffer'[s][j].seq = q
      BY <2>2, <2>4, SMTT(30)
    <3>2. UNCHANGED written /\ rpc[d] = "append" /\ Made(rpart[d], d)
      BY <2>1 DEF Deliver, sendVars, Inv, ReceiverInv, RecvTypeOK, WireInv
    <3>3. /\ p \in DOMAIN written /\ q \in DOMAIN written
          /\ rpart[d].part \in 1 .. Len(PartsOf(q)) /\ PartsOf(q)[rpart[d].part].dp = d
      BY <1>1, <3>1, <3>2 DEF Made
    <3>4. Delivered(p) /\ p # q
      <4>1. Delivered(p)
        BY <3>1 DEF Delivered
      <4>2. ~ Delivered(q)
        BY <3>2, SMTT(30) DEF Inv, ReceiverInv, AtMostOnce
      <4> QED
        BY <4>1, <4>2
    <3>5. SamePath(written[p], written[q]) /\ written[p].writer = written[q].writer
      BY <3>1, <3>2, SMTT(30)
    <3>6. OnPath(p, d)
      BY <3>3, <3>5 DEF SamePath, OnPath, PartsOf
    <3> PICK m : m = - Len(net[d]) - 1
      OBVIOUS
    <3>7. m \in Line(d) /\ PartAt(d, m) = rpart[d]
      <4>1. m \in Int /\ ~ (m > 0) /\ m # 0 /\ ~ (m >= - Len(net[d]))
        BY LineFacts
      <4>2. Place(d, m) /\ PartAt(d, m) = rpart[d]
        BY <3>2, <4>1 DEF Place, PartAt
      <4> QED
        BY <4>1, <4>2, LineFacts
    <3>8. written[p].no <= written[q].no
      BY <3>3, <3>4, <3>5, <3>6, <3>7 DEF FirstOut, NotAfter
    <3>9. written[p].no # written[q].no /\ written[p].no \in Nat /\ written[q].no \in Nat
      BY <1>0, <3>3, <3>4 DEF NumbersInv
    <3> QED
      BY <3>1, <3>2, <3>8, <3>9, SMTT(30)
  <2> QED
    BY <2>3, <2>4
<1> QED
  BY <1>2, <1>3

LEMMA InitOrder ==
    ASSUME Init PROVE OrderInv
<1>1. DOMAIN written = {}
  BY DEF Init, EmptyMap
<1>2. NumbersInv /\ NewestInv
  BY <1>1 DEF Init, NumbersInv, NewestInv
<1>3. \A d \in Dp : Line(d) = {}
  BY DEF Init, Line, Place
<1>4. InOrderOnPath
  BY DEF Init, InOrderOnPath
<1> QED
  BY <1>1, <1>2, <1>3, <1>4 DEF OrderInv, LineInv, FirstOut

LEMMA StepOrder ==
    ASSUME Inv, Inv', [Next]_vars, OrderInv PROVE OrderInv'
<1>1. /\ NumbersInv /\ NewestInv /\ InOrderOnPath
      /\ \A d \in Dp : LineInv(d) /\ FirstOut(d)
  BY DEF OrderInv
<1>2. NumbersInv' /\ NewestInv'
  BY <1>1, StepNumbers
<1>3. \A d \in Dp : LineInv(d)' /\ FirstOut(d)'
  BY <1>1, StepFirstOut
<1>4. InOrderOnPath'
  BY <1>1, StepInOrder
<1> QED
  BY <1>2, <1>3, <1>4 DEF OrderInv

\* Writes that one goroutine makes, and whose parts all go over one path, enter the
\* ReadBuffer in the order they were made, whatever else is sent on that path
\* between them and whichever connections are lost.
THEOREM PathsKeepOrder == Spec => []InOrderOnPath
<1>1. OrderInv => InOrderOnPath
  BY DEF OrderInv
<1>2. Inv /\ Inv' /\ [Next]_vars /\ OrderInv => OrderInv'
  BY StepOrder
<1> QED
  BY <1>1, <1>2, InitOrder, DataplaneCorrect, PTL DEF Spec
=============================================================================
