------------------------------ MODULE Dataplane ------------------------------
(***************************************************************************)
(* One direction of a Q-PARTS connection (qparts_dataplane.go and          *)
(* qparts_dataplane_completion.go).  The goroutines of the sending         *)
(* application call PartsStream.Write; every Write becomes one "sequence", *)
(* cut into parts by the scheduler and queued on the dataplane streams.    *)
(* One writeLoop goroutine per dataplane stream moves parts from its queue *)
(* to its QUIC stream, one readLoop goroutine per dataplane stream takes   *)
(* them off at the peer, and the goroutine that adds the last byte of a    *)
(* sequence appends the whole of it to the ReadBuffer of its PartsStream.  *)
(*                                                                         *)
(* A part's bytes are known only by where they come from: the sequence,    *)
(* the position of the part in the scheduling decision, and how many they  *)
(* are.  Part ids count from 1 here and from 0 in the code.                *)
(*                                                                         *)
(* A definition named X_Something is X with a mistake in it.  No           *)
(* specification uses it; the properties below must fail when it stands in *)
(* for X.                                                                  *)
(***************************************************************************)
EXTENDS Integers, Sequences, FiniteSets

CONSTANTS
    Writers,    \* application goroutines that call Write
    Streams,    \* ids of the PartsStreams
    StreamOf,   \* StreamOf[w]: the PartsStream that w writes to
    Dp,         \* the QPartsDataplaneStreams, one QUIC connection each
    SeqIds,     \* what newSequenceId may return; bounds the number of Writes
    Decisions,  \* what the scheduler plugin may return: sequences of [dp, size]
    Window,     \* how many writes a QUIC stream takes before WriteAll blocks
    Fallible,   \* dataplane streams whose QUIC connection may be lost
    Accepted0,  \* streams the peer has accepted before any data is sent
    None        \* nothing in the hands of a goroutine

\* What a goroutine holds between Queue.Get and the end of its iteration, and
\* what the 52-byte header carries: DataAssignment and QPartsDataplanePacket.
Assignment == [stream : Streams, seq : SeqIds, part : Nat,
               num : Nat, size : Nat, total : Nat]

ASSUME DataplaneAssumption ==
    /\ StreamOf \in [Writers -> Streams]
    /\ \A dec \in Decisions : /\ dec \in Seq([dp : Dp, size : Nat])
                              /\ Len(dec) > 0
    /\ Window \in Nat \ {0}
    /\ Fallible \subseteq Dp
    /\ Accepted0 \subseteq Streams
    /\ None \notin SeqIds
    /\ None \notin Assignment
    /\ None \notin Streams

VARIABLES
    written,     \* written[q]: the Write call that was given sequence id q
    writing,     \* writing[w]: the sequence of w's Write in progress, or None
    next,        \* next[w]: the assignment that w's Write enqueues next
    sendStore,   \* the sender's CompletionStore: sequence id -> completion
    queue,       \* queue[d]: QPartsDataplaneStream.Queue
    wpc,         \* wpc[d]: where d's writeLoop goroutine is
    wpart,       \* wpart[d]: the assignment it holds, or None
    up,          \* up[d]: the QUIC connection of d is alive
    net,         \* net[d]: what is written to d's QUIC stream and not yet read
    rpc,         \* rpc[d]: where d's readLoop goroutine is
    rpart,       \* rpart[d]: the header it read last, or None
    rdata,       \* rdata[d]: the completed sequence it is about to append
    recvStore,   \* the receiver's CompletionStore
    accepted,    \* streams registered in the receiver's QPartsStreams map
    storing,     \* the stream being stored into that map, or None
    readBuffer,  \* readBuffer[s]: what was appended to s.ReadBuffer
    panicked     \* the receiving process is dead

sendVars == <<written, writing, next, sendStore, queue, wpc, wpart>>
recvVars == <<rpc, rpart, rdata, recvStore, accepted, storing, readBuffer,
              panicked>>
netVars  == <<up, net>>
vars     == <<sendVars, netVars, recvVars>>

-----------------------------------------------------------------------------
(* Go maps: partial functions. *)

Put(m, k, v) == [x \in DOMAIN m \cup {k} |-> IF x = k THEN v ELSE m[x]]
Delete(m, k) == [x \in DOMAIN m \ {k} |-> m[x]]
EmptyMap     == [x \in {} |-> None]

-----------------------------------------------------------------------------
(* Parts and completions. *)

\* What one WriteAll puts on a QUIC stream: a header, or the data of a part.
Unit == [kind : {"header", "data"}, a : Assignment]

\* The bytes of a part.
Data == [seq : SeqIds, part : Nat, size : Nat]

\* An entry of internalParts: the bytes stored under a part id.
Entry == [key : Nat, data : Data]

\* QPartsSequenceCompletion, sending and receiving.  held is internalParts as a
\* set of entries with different keys; its Data is held in the order of the keys.
Completion == [stream : Streams, parts : Nat, size : Nat, completed : Nat,
               held : SUBSET Entry]

\* What Append puts into a ReadBuffer: the Data of one completion.
Item == [seq : SeqIds, data : SUBSET Entry]

\* The bytes of a set of entries, each tagged with its key, so that counting
\* them is adding up the lengths of the parts.
Bytes(entries) == UNION {{e.key} \X (1 .. e.data.size) : e \in entries}

\* The parts that a scheduling decision makes of sequence q.
Slice(q, dec, i) == [key  |-> i,
                     data |-> [seq |-> q, part |-> i, size |-> dec[i].size]]
Slices(q, dec)   == {Slice(q, dec, i) : i \in 1 .. Len(dec)}
Length(q, dec)   == Cardinality(Bytes(Slices(q, dec)))

SendingCompletion_OneTooMany(q, stream, dec) ==
    [stream |-> stream, parts |-> Len(dec) + 1,
     size |-> Length(q, dec), completed |-> 0, held |-> {}]

\* NewSequenceCompletionFromSchedulingDecision
SendingCompletion(q, stream, dec) ==
    [stream |-> stream, parts |-> Len(dec),
     size |-> Length(q, dec), completed |-> 0, held |-> {}]

\* The DataAssignment for part i, once WriteForStream has filled it in.
PartOf(q, stream, dec, i) ==
    [stream |-> stream, seq |-> q, part |-> i, num |-> Len(dec),
     size |-> dec[i].size, total |-> Length(q, dec)]

\* The completion that GetOrCreate...SequenceCompletion creates.
FreshCompletion(a) ==
    [stream |-> a.stream, parts |-> a.num, size |-> a.total,
     completed |-> 0, held |-> {}]

GetOrCreate(store, a) ==
    IF a.seq \in DOMAIN store THEN store ELSE Put(store, a.seq, FreshCompletion(a))

IsComplete_OneMissing(c) ==
    IF c.held = {} THEN c.parts <= c.completed + 1
                   ELSE Cardinality(Bytes(c.held)) + 1 >= c.size

IsComplete_OneByteEarly(c) ==
    IF c.held = {} THEN c.parts = c.completed
                   ELSE Cardinality(Bytes(c.held)) + 1 >= c.size

IsComplete(c) ==
    IF c.held = {} THEN c.parts = c.completed
                   ELSE Cardinality(Bytes(c.held)) = c.size

AddPart_InArrivalOrder(c, index, data) ==
    [c EXCEPT !.completed = @ + 1,
              !.held = @ \cup {[key |-> c.completed + 1, data |-> data]}]

\* AddSendingPart and AddPart, up to their test of IsComplete.
AddSendingPart(c) == [c EXCEPT !.completed = @ + 1]
AddPart(c, index, data) ==
    [c EXCEPT !.completed = @ + 1,
              !.held = {e \in @ : e.key # index}
                         \cup {[key |-> index, data |-> data]}]

-----------------------------------------------------------------------------
Init ==
    /\ written = EmptyMap
    /\ writing = [w \in Writers |-> None]
    /\ next = [w \in Writers |-> 1]
    /\ sendStore = EmptyMap
    /\ queue = [d \in Dp |-> <<>>]
    /\ wpc = [d \in Dp |-> "get"]
    /\ wpart = [d \in Dp |-> None]
    /\ up = [d \in Dp |-> TRUE]
    /\ net = [d \in Dp |-> <<>>]
    /\ rpc = [d \in Dp |-> "header"]
    /\ rpart = [d \in Dp |-> None]
    /\ rdata = [d \in Dp |-> {}]
    /\ recvStore = EmptyMap
    /\ accepted = Accepted0
    /\ storing = None
    /\ readBuffer = [s \in Streams |-> <<>>]
    /\ panicked = FALSE

-----------------------------------------------------------------------------
(* PartsStream.Write and WriteForStream. *)

\* ScheduleWrite, a new completion, AddCompletion.  no numbers the calls.
Write(w, dec) ==
    /\ writing[w] = None
    /\ \E q \in SeqIds \ DOMAIN written :
          /\ written' = Put(written, q, [stream |-> StreamOf[w], writer |-> w,
                                         no |-> Cardinality(DOMAIN written),
                                         parts |-> dec])
          /\ sendStore' = Put(sendStore, q, SendingCompletion(q, StreamOf[w], dec))
          /\ writing' = [writing EXCEPT ![w] = q]
          /\ next' = [next EXCEPT ![w] = 1]
    /\ UNCHANGED <<queue, wpc, wpart, netVars, recvVars>>

\* The loop over the assignments: fill in one and add it to its queue.
Enqueue(w) ==
    /\ writing[w] # None
    /\ LET q   == writing[w]
           dec == written[q].parts
           i   == next[w]
       IN  /\ i <= Len(dec)
           /\ queue' = [queue EXCEPT ![dec[i].dp] =
                            Append(@, PartOf(q, StreamOf[w], dec, i))]
           /\ next' = [next EXCEPT ![w] = i + 1]
    /\ UNCHANGED <<written, writing, sendStore, wpc, wpart, netVars, recvVars>>

-----------------------------------------------------------------------------
(* writeLoop: the goroutine of dataplane stream d. *)

\* Queue.Get and GetOrCreateSendingSequenceCompletion.
Dequeue(d) ==
    /\ wpc[d] = "get"
    /\ queue[d] # <<>>
    /\ wpart' = [wpart EXCEPT ![d] = Head(queue[d])]
    /\ queue' = [queue EXCEPT ![d] = Tail(@)]
    /\ sendStore' = GetOrCreate(sendStore, Head(queue[d]))
    /\ wpc' = [wpc EXCEPT ![d] = "header"]
    /\ UNCHANGED <<written, writing, next, netVars, recvVars>>

WriteHeader_DataFirst(d) ==
    /\ wpc[d] = "header"
    /\ up[d]
    /\ Len(net[d]) < Window
    /\ net' = [net EXCEPT ![d] = Append(@, [kind |-> "data", a |-> wpart[d]])]
    /\ wpc' = [wpc EXCEPT ![d] = "data"]
    /\ UNCHANGED <<written, writing, next, sendStore, queue, wpart, up, recvVars>>

\* WriteAll of the header, then of the data; each blocks while the QUIC stream
\* is full.
WriteHeader(d) ==
    /\ wpc[d] = "header"
    /\ up[d]
    /\ Len(net[d]) < Window
    /\ net' = [net EXCEPT ![d] = Append(@, [kind |-> "header", a |-> wpart[d]])]
    /\ wpc' = [wpc EXCEPT ![d] = "data"]
    /\ UNCHANGED <<written, writing, next, sendStore, queue, wpart, up, recvVars>>

WriteData(d) ==
    /\ wpc[d] = "data"
    /\ up[d]
    /\ wpart[d].size > 0
    /\ Len(net[d]) < Window
    /\ net' = [net EXCEPT ![d] = Append(@, [kind |-> "data", a |-> wpart[d]])]
    /\ wpc' = [wpc EXCEPT ![d] = "count"]
    /\ UNCHANGED <<written, writing, next, sendStore, queue, wpart, up, recvVars>>

\* "Error writing data packet" and "No data sent on dataconn": continue with the
\* next assignment.
WriteFails(d) ==
    /\ \/ wpc[d] = "header" /\ ~up[d]
       \/ wpc[d] = "data" /\ ~up[d]
       \/ wpc[d] = "data" /\ up[d] /\ wpart[d].size = 0
    /\ wpc' = [wpc EXCEPT ![d] = "get"]
    /\ wpart' = [wpart EXCEPT ![d] = None]
    /\ UNCHANGED <<written, writing, next, sendStore, queue, netVars, recvVars>>

CountPart_AlwaysRemoves(d) ==
    /\ wpc[d] = "count"
    /\ LET q == wpart[d].seq
           c == AddSendingPart(sendStore[q])
       IN  /\ sendStore' = Delete(sendStore, q)
           /\ \/ /\ IsComplete(c)
                 /\ wpc' = [wpc EXCEPT ![d] = "signal"]
                 /\ UNCHANGED wpart
              \/ /\ ~IsComplete(c)
                 /\ wpc' = [wpc EXCEPT ![d] = "get"]
                 /\ wpart' = [wpart EXCEPT ![d] = None]
    /\ UNCHANGED <<written, writing, next, queue, netVars, recvVars>>

\* AddSendingPart and, when it completes the sequence, RemoveCompletion.
CountPart(d) ==
    /\ wpc[d] = "count"
    /\ LET q == wpart[d].seq
           c == AddSendingPart(sendStore[q])
       IN  \/ /\ IsComplete(c)
              /\ sendStore' = Delete(sendStore, q)
              /\ wpc' = [wpc EXCEPT ![d] = "signal"]
              /\ UNCHANGED wpart
           \/ /\ ~IsComplete(c)
              /\ sendStore' = Put(sendStore, q, c)
              /\ wpc' = [wpc EXCEPT ![d] = "get"]
              /\ wpart' = [wpart EXCEPT ![d] = None]
    /\ UNCHANGED <<written, writing, next, queue, netVars, recvVars>>

Complete_KeepsPart(d, w) ==
    /\ wpc[d] = "signal"
    /\ writing[w] = wpart[d].seq
    /\ next[w] > Len(written[writing[w]].parts)
    /\ writing' = [writing EXCEPT ![w] = None]
    /\ wpc' = [wpc EXCEPT ![d] = "get"]
    /\ UNCHANGED <<written, next, sendStore, queue, wpart, netVars, recvVars>>

\* compl.CompleteChan <- true meets <-compl.CompleteChan; the Write returns.
Complete(d, w) ==
    /\ wpc[d] = "signal"
    /\ writing[w] = wpart[d].seq
    /\ next[w] > Len(written[writing[w]].parts)
    /\ writing' = [writing EXCEPT ![w] = None]
    /\ wpc' = [wpc EXCEPT ![d] = "get"]
    /\ wpart' = [wpart EXCEPT ![d] = None]
    /\ UNCHANGED <<written, next, sendStore, queue, netVars, recvVars>>

-----------------------------------------------------------------------------
(* The QUIC connection under dataplane stream d is lost: what the peer has   *)
(* not read is gone, and every later read or write returns an error.  It     *)
(* happens too when the peer's process is gone.  The two ends notice at      *)
(* different times; what the sender still writes in between nobody reads, so *)
(* it may as well have been written before.                                  *)
ConnectionLost(d) ==
    /\ d \in Fallible \/ panicked
    /\ up[d]
    /\ up' = [up EXCEPT ![d] = FALSE]
    /\ net' = [net EXCEPT ![d] = <<>>]
    /\ UNCHANGED <<sendVars, recvVars>>

-----------------------------------------------------------------------------
(* readLoop: the goroutine of dataplane stream d at the receiver. *)

\* ReadAll of the header, Decode, GetOrCreateSequenceCompletion.
ReadHeader(d) ==
    /\ ~panicked
    /\ rpc[d] = "header"
    /\ net[d] # <<>>
    /\ LET a == Head(net[d]).a
       IN  /\ rpart' = [rpart EXCEPT ![d] = a]
           /\ recvStore' = GetOrCreate(recvStore, a)
    /\ net' = [net EXCEPT ![d] = Tail(@)]
    /\ rpc' = [rpc EXCEPT ![d] = "data"]
    /\ UNCHANGED <<sendVars, up, rdata, accepted, storing, readBuffer, panicked>>

\* ReadAll of the data, AddPart.  The index is the header's.
ReadData(d) ==
    /\ ~panicked
    /\ rpc[d] = "data"
    /\ rpart[d].size > 0
    /\ net[d] # <<>>
    /\ LET q    == rpart[d].seq
           a    == Head(net[d]).a
           c    == AddPart(recvStore[q], rpart[d].part,
                           [seq |-> a.seq, part |-> a.part, size |-> a.size])
       IN  /\ recvStore' = Put(recvStore, q, c)
           /\ \/ /\ IsComplete(c)
                 /\ rpc' = [rpc EXCEPT ![d] = "lookup"]
                 /\ rdata' = [rdata EXCEPT ![d] = c.held]
              \/ /\ ~IsComplete(c)
                 /\ rpc' = [rpc EXCEPT ![d] = "header"]
                 /\ UNCHANGED rdata
    /\ net' = [net EXCEPT ![d] = Tail(@)]
    /\ UNCHANGED <<sendVars, up, rpart, accepted, storing, readBuffer, panicked>>

ReadFails_SkipsNext(d) ==
    /\ ~panicked
    /\ rpc[d] = "data"
    /\ \/ rpart[d].size = 0
       \/ rpart[d].size > 0 /\ ~up[d]
    /\ net[d] # <<>>
    /\ net' = [net EXCEPT ![d] = Tail(@)]
    /\ rpc' = [rpc EXCEPT ![d] = "header"]
    /\ UNCHANGED <<sendVars, up, rpart, rdata, recvStore, accepted, storing,
                   readBuffer, panicked>>

\* "Error reading data packet" and "No data received on dataconn" after a header.
ReadFails(d) ==
    /\ ~panicked
    /\ rpc[d] = "data"
    /\ \/ rpart[d].size = 0
       \/ rpart[d].size > 0 /\ ~up[d]
    /\ rpc' = [rpc EXCEPT ![d] = "header"]
    /\ UNCHANGED <<sendVars, netVars, rpart, rdata, recvStore, accepted, storing,
                   readBuffer, panicked>>

Lookup_KeepsCompletion(d) ==
    /\ ~panicked
    /\ rpc[d] = "lookup"
    /\ rpart[d].stream \in accepted
    /\ rpc' = [rpc EXCEPT ![d] = "append"]
    /\ UNCHANGED <<sendVars, netVars, rpart, rdata, recvStore, accepted, storing,
                   readBuffer, panicked>>

\* s := dp.QPartsStreams[...], which may be nil; RemoveCompletion.  The map has
\* no lock: a lookup during a store finds the old or the new content, or the Go
\* runtime notices it and ends the process.
Lookup(d) ==
    /\ ~panicked
    /\ rpc[d] = "lookup"
    /\ \/ /\ rpart[d].stream \in accepted \cup {storing}
          /\ rpc' = [rpc EXCEPT ![d] = "append"]
          /\ recvStore' = Delete(recvStore, rpart[d].seq)
          /\ UNCHANGED panicked
       \/ /\ rpart[d].stream \notin accepted
          /\ rpc' = [rpc EXCEPT ![d] = "nil"]
          /\ recvStore' = Delete(recvStore, rpart[d].seq)
          /\ UNCHANGED panicked
       \/ /\ storing # None
          /\ panicked' = TRUE
          /\ UNCHANGED <<rpc, recvStore>>
    /\ UNCHANGED <<sendVars, netVars, rpart, rdata, accepted, storing, readBuffer>>

Deliver_AtTheFront(d) ==
    /\ ~panicked
    /\ rpc[d] = "append"
    /\ readBuffer' = [readBuffer EXCEPT ![rpart[d].stream] =
                         <<[seq |-> rpart[d].seq, data |-> rdata[d]]>> \o @]
    /\ rpc' = [rpc EXCEPT ![d] = "header"]
    /\ rdata' = [rdata EXCEPT ![d] = {}]
    /\ UNCHANGED <<sendVars, netVars, rpart, recvStore, accepted, storing, panicked>>

\* s.ReadBuffer.Append(compl.Data)
Deliver(d) ==
    /\ ~panicked
    /\ rpc[d] = "append"
    /\ readBuffer' = [readBuffer EXCEPT ![rpart[d].stream] =
                         Append(@, [seq |-> rpart[d].seq, data |-> rdata[d]])]
    /\ rpc' = [rpc EXCEPT ![d] = "header"]
    /\ rdata' = [rdata EXCEPT ![d] = {}]
    /\ UNCHANGED <<sendVars, netVars, rpart, recvStore, accepted, storing, panicked>>

\* The same statement with s = nil.
Panic(d) ==
    /\ ~panicked
    /\ rpc[d] = "nil"
    /\ panicked' = TRUE
    /\ UNCHANGED <<sendVars, netVars, rpc, rpart, rdata, recvStore, accepted,
                   storing, readBuffer>>

-----------------------------------------------------------------------------
(* AcceptStream at the receiver: the stream enters the map that readLoop     *)
(* looks it up in.  One goroutine of the application accepts.                *)
AcceptStream(s) ==
    /\ ~panicked
    /\ storing = None
    /\ s \notin accepted
    /\ storing' = s
    /\ UNCHANGED <<sendVars, netVars, rpc, rpart, rdata, recvStore, accepted,
                   readBuffer, panicked>>

StreamStored ==
    /\ ~panicked
    /\ storing # None
    /\ accepted' = accepted \cup {storing}
    /\ storing' = None
    /\ UNCHANGED <<sendVars, netVars, rpc, rpart, rdata, recvStore, readBuffer,
                   panicked>>

-----------------------------------------------------------------------------
WriteLoop(d) ==
    \/ Dequeue(d) \/ WriteHeader(d) \/ WriteData(d) \/ WriteFails(d)
    \/ CountPart(d) \/ \E w \in Writers : Complete(d, w)

ReadLoop(d) ==
    \/ ReadHeader(d) \/ ReadData(d) \/ ReadFails(d)
    \/ Lookup(d) \/ Deliver(d) \/ Panic(d)

Next ==
    \/ \E w \in Writers : \/ \E dec \in Decisions : Write(w, dec)
                          \/ Enqueue(w)
    \/ \E d \in Dp : WriteLoop(d) \/ ReadLoop(d) \/ ConnectionLost(d)
    \/ \E s \in Streams : AcceptStream(s)
    \/ StreamStored

Spec == Init /\ [][Next]_vars

\* The Go scheduler runs every goroutine that can run.  Nothing obliges an
\* application to write or to accept, nor a connection to be lost.
Fairness ==
    /\ \A w \in Writers : WF_vars(Enqueue(w))
    /\ \A d \in Dp : WF_vars(WriteLoop(d)) /\ WF_vars(ReadLoop(d))
    /\ WF_vars(StreamStored)

FairSpec == Spec /\ Fairness

-----------------------------------------------------------------------------
(* Properties. *)

SendTypeOK ==
    /\ DOMAIN written \subseteq SeqIds /\ IsFiniteSet(DOMAIN written)
    /\ \A q \in DOMAIN written : written[q] \in
          [stream : Streams, writer : Writers, no : Nat, parts : Decisions]
    /\ writing \in [Writers -> SeqIds \cup {None}]
    /\ \A w \in Writers : writing[w] # None => writing[w] \in DOMAIN written
    /\ next \in [Writers -> Nat \ {0}]
    /\ DOMAIN sendStore \subseteq SeqIds
    /\ \A q \in DOMAIN sendStore : sendStore[q] \in Completion
    /\ queue \in [Dp -> Seq(Assignment)]
    /\ wpc \in [Dp -> {"get", "header", "data", "count", "signal"}]
    /\ wpart \in [Dp -> Assignment \cup {None}]
    /\ \A d \in Dp : wpart[d] = None <=> wpc[d] = "get"

NetTypeOK ==
    /\ up \in [Dp -> BOOLEAN]
    /\ net \in [Dp -> Seq(Unit)]

RecvTypeOK ==
    /\ rpc \in [Dp -> {"header", "data", "lookup", "append", "nil"}]
    /\ rpart \in [Dp -> Assignment \cup {None}]
    /\ \A d \in Dp : rpart[d] = None => rpc[d] = "header"
    /\ rdata \in [Dp -> SUBSET Entry]
    /\ DOMAIN recvStore \subseteq SeqIds
    /\ \A q \in DOMAIN recvStore : recvStore[q] \in Completion
    /\ accepted \subseteq Streams
    /\ storing \in Streams \cup {None}
    /\ readBuffer \in [Streams -> Seq(Item)]
    /\ panicked \in BOOLEAN

\* Every variable holds what its Go counterpart may hold; a goroutine that is past
\* Queue.Get, or past the header, holds an assignment.
TypeOK == SendTypeOK /\ NetTypeOK /\ RecvTypeOK

\* The bytes of the Write that was given sequence id q.
Payload(q) == {e \in Slices(q, written[q].parts) : e.data.size > 0}

Returned(q)  == q \in DOMAIN written /\ \A w \in Writers : writing[w] # q
Delivered(q) == \E s \in Streams : \E i \in 1 .. Len(readBuffer[s]) :
                    readBuffer[s][i].seq = q

\* What enters a ReadBuffer is the whole of one Write to that stream: every part,
\* its own bytes under its own id, and no part of another Write, however the parts
\* of several Writes interleave on the QUIC streams.
WholeSequences ==
    \A s \in Streams : \A i \in 1 .. Len(readBuffer[s]) :
        LET r == readBuffer[s][i]
        IN  /\ r.seq \in DOMAIN written
            /\ written[r.seq].stream = s
            /\ r.data = Payload(r.seq)

\* No Write enters a ReadBuffer twice, and none is about to: a readLoop that finds
\* a sequence complete is the only one to do so.
AtMostOnce ==
    /\ \A s \in Streams : \A i, j \in 1 .. Len(readBuffer[s]) :
          readBuffer[s][i].seq = readBuffer[s][j].seq => i = j
    /\ \A d, e \in Dp :
          rpc[d] \in {"lookup", "append", "nil"} =>
              /\ ~ Delivered(rpart[d].seq)
              /\ rpc[e] \in {"lookup", "append", "nil"}
                    /\ rpart[e].seq = rpart[d].seq => d = e

\* The completion that a goroutine took from its CompletionStore before it went to
\* the network is still the one in the store when it comes back: RemoveCompletion
\* never pulls it from under a goroutine, and no second completion is created for
\* a sequence whose Write waits on the CompleteChan of the first.
HeldCompletionLive ==
    \A d \in Dp :
        /\ wpc[d] \in {"header", "data", "count"} => wpart[d].seq \in DOMAIN sendStore
        /\ \A i \in 1 .. Len(queue[d]) : queue[d][i].seq \in DOMAIN sendStore
        /\ rpc[d] = "data" /\ rpart[d].size > 0 => rpart[d].seq \in DOMAIN recvStore

\* A Write returns only when the QUIC streams have taken every one of its parts,
\* and as long as no connection is lost nothing of it is missing: each part is in
\* a QUIC stream, in the hands of a readLoop, in its completion, or delivered.
InFlight(q, i) ==
    \E d \in Dp : \/ \E k \in 1 .. Len(net[d]) :
                        net[d][k].kind = "data" /\ net[d][k].a.seq = q /\ net[d][k].a.part = i
                  \/ rpc[d] \in {"lookup", "append", "nil"} /\ rpart[d].seq = q
ReturnMeansSent ==
    \A q \in DOMAIN written : Returned(q) =>
        /\ \A d \in Dp :
              /\ \A k \in 1 .. Len(queue[d]) : queue[d][k].seq # q
              /\ wpart[d] # None => wpart[d].seq # q
        /\ (\A d \in Dp : up[d]) =>
              \A i \in 1 .. Len(written[q].parts) :
                  \/ InFlight(q, i)
                  \/ q \in DOMAIN recvStore /\ \E e \in recvStore[q].held : e.key = i
                  \/ Delivered(q)

\* A Write that has returned leaves no completion in the sender's store, and a sequence
\* that was delivered none in the receiver's: nobody would remove it, not even with
\* every connection up.  The completion of an empty Write, and of one that a lost
\* connection has harmed, does stay: that Write does not return, or is not delivered.
NoOrphanCompletion ==
    /\ \A q \in DOMAIN sendStore : ~ Returned(q)
    /\ \A q \in DOMAIN recvStore : ~ Delivered(q)

\* A QUIC stream carries no record marks: readLoop finds the headers again only by
\* counting.  What it reads as a header is one, and what it reads as data is the
\* data that belongs to the header it read before.
Framed ==
    \A d \in Dp : net[d] # <<>> /\ ~panicked =>
        /\ rpc[d] = "header" => Head(net[d]).kind = "header"
        /\ rpc[d] = "data" /\ rpart[d].size > 0 =>
               Head(net[d]) = [kind |-> "data", a |-> rpart[d]]

\* The Writes of one goroutine to a stream are appended in the order they were
\* made, as on a QUIC stream.
InOrder ==
    \A s \in Streams : \A i, j \in 1 .. Len(readBuffer[s]) :
        LET a == written[readBuffer[s][i].seq]
            b == written[readBuffer[s][j].seq]
        IN  i < j /\ a.writer = b.writer => a.no < b.no

\* Writes that travel the same path do keep their order, with the parts of other
\* Writes between them.
SamePath(a, b) ==
    \E d \in Dp : /\ \A k \in 1 .. Len(a.parts) : a.parts[k].dp = d
                  /\ \A k \in 1 .. Len(b.parts) : b.parts[k].dp = d
InOrderOnPath ==
    \A s \in Streams : \A i, j \in 1 .. Len(readBuffer[s]) :
        LET a == written[readBuffer[s][i].seq]
            b == written[readBuffer[s][j].seq]
        IN  i < j /\ a.writer = b.writer /\ SamePath(a, b) => a.no < b.no

\* No readLoop dies: the stream of a complete sequence is registered by the time
\* it is looked up.
NoPanic == ~panicked

\* A lost connection harms nobody else: a Write returns and is delivered unless a
\* connection that one of its own parts goes over is lost, whatever happens to the
\* other connections and to the Writes that wait for them.
Harmed(q) == /\ q \in DOMAIN written
             /\ \E i \in 1 .. Len(written[q].parts) : ~ up[written[q].parts[i].dp]
FailureIsolation ==
    \A q \in SeqIds :
        q \in DOMAIN written ~> Harmed(q) \/ (Returned(q) /\ Delivered(q))

-----------------------------------------------------------------------------
(* The dataplane implements Transfer.  A ReadBuffer entry stands for its      *)
(* Write only if it is the whole of it.                                      *)
asked    == [q \in DOMAIN written |-> written[q].stream]
received == [s \in Streams |-> [i \in 1 .. Len(readBuffer[s]) |->
                LET r == readBuffer[s][i]
                IN  IF r.seq \in DOMAIN written /\ r.data = Payload(r.seq)
                    THEN r.seq ELSE None]]
done     == {q \in DOMAIN written : \A w \in Writers : writing[w] # q}

T == INSTANCE Transfer WITH asked <- asked, received <- received, done <- done

\* Every behaviour of the write and read loops is one of the transfer service:
\* Write, Complete and Deliver are its steps and all other actions are invisible.
ImplementsTransfer == T!Spec
=============================================================================
