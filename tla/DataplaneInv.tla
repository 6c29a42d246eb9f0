---------------------------- MODULE DataplaneInv ----------------------------
(***************************************************************************)
(* The inductive invariant of Dataplane.  It says where a part can be:     *)
(* still with its Write, in the queue of its dataplane stream, in the      *)
(* hands of the writeLoop, on the QUIC stream, or at the receiver; that it *)
(* is in one of these places only; and that the completion which waits for *)
(* it is there as long as it is on its way.                                *)
(***************************************************************************)
EXTENDS Dataplane

PartsOf(q) == written[q].parts

\* a is the assignment that WriteForStream made of part a.part of Write a.seq, it
\* is on its own path, and the Write has passed it.
Made(a, d) ==
    /\ a.seq \in DOMAIN written
    /\ a.part \in 1 .. Len(PartsOf(a.seq))
    /\ a = PartOf(a.seq, written[a.seq].stream, PartsOf(a.seq), a.part)
    /\ PartsOf(a.seq)[a.part].dp = d
    /\ \A w \in Writers : writing[w] = a.seq => a.part < next[w]

Same(a, b) == a.seq = b.seq /\ a.part = b.part

-----------------------------------------------------------------------------
(* The sender. *)

WritersInv ==
    \A w \in Writers : writing[w] # None =>
        /\ written[writing[w]].writer = w
        /\ written[writing[w]].stream = StreamOf[w]
        /\ next[w] <= Len(PartsOf(writing[w])) => writing[w] \in DOMAIN sendStore

QueuedInv(d, k) ==
    /\ Made(queue[d][k], d)
    /\ queue[d][k].seq \in DOMAIN sendStore
    /\ \A l \in 1 .. Len(queue[d]) : Same(queue[d][k], queue[d][l]) => k = l
    /\ wpc[d] # "get" => ~ Same(queue[d][k], wpart[d])

QueueInv == \A d \in Dp : \A k \in 1 .. Len(queue[d]) : QueuedInv(d, k)

WriteLoopInv ==
    \A d \in Dp : wpc[d] # "get" =>
        /\ Made(wpart[d], d)
        /\ wpc[d] # "signal" => wpart[d].seq \in DOMAIN sendStore

\* The parts of Write q that no writeLoop has finished with.
ToSend(q, i) ==
    \/ \E w \in Writers : writing[w] = q /\ next[w] <= i
    \/ \E d \in Dp : \E k \in 1 .. Len(queue[d]) :
          queue[d][k].seq = q /\ queue[d][k].part = i
    \/ \E d \in Dp : /\ wpc[d] \in {"header", "data", "count"}
                     /\ wpart[d].seq = q /\ wpart[d].part = i
Pending(q) == {i \in 1 .. Len(PartsOf(q)) : ToSend(q, i)}

SendStoreInv ==
    \A q \in DOMAIN sendStore :
        /\ q \in DOMAIN written
        /\ writing[written[q].writer] = q
        /\ sendStore[q].parts = Len(PartsOf(q))
        /\ sendStore[q].held = {}
        /\ sendStore[q].completed <= Cardinality((1 .. Len(PartsOf(q))) \ Pending(q))

SignalInv ==
    \A d \in Dp : \A q \in SeqIds : wpc[d] = "signal" /\ wpart[d].seq = q =>
        /\ q \notin DOMAIN sendStore
        /\ Pending(q) = {}
        /\ writing[written[q].writer] = q
        /\ \A e \in Dp : wpc[e] = "signal" /\ wpart[e].seq = q => d = e

SenderInv == /\ SendTypeOK
             /\ WritersInv
             /\ QueueInv
             /\ WriteLoopInv
             /\ SendStoreInv
             /\ SignalInv

-----------------------------------------------------------------------------
(* The QUIC streams. *)

Opens(u) == u.kind = "header" /\ u.a.size > 0

\* The unit at place k of d's QUIC stream has to be the data of the part before it.
Owed(d, k)     == IF k = 1 THEN rpc[d] = "data" /\ rpart[d].size > 0
                           ELSE Opens(net[d][k - 1])
OwedPart(d, k) == IF k = 1 THEN rpart[d] ELSE net[d][k - 1].a

\* Data follows its header and nothing else does.
UnitInv(d, k) ==
    /\ Made(net[d][k].a, d)
    /\ net[d][k].kind = "data" <=> Owed(d, k)
    /\ net[d][k].kind = "data" => net[d][k].a = OwedPart(d, k)

\* If the last header on the wire lacks its data, writeLoop is about to write it.
EndInv(d) ==
    /\ ~up[d] => net[d] = <<>>
    /\ up[d] => /\ Owed(d, Len(net[d]) + 1) <=> wpc[d] = "data" /\ wpart[d].size > 0
                /\ Owed(d, Len(net[d]) + 1) => wpart[d] = OwedPart(d, Len(net[d]) + 1)

WireInv ==
    \A d \in Dp : /\ \A k \in 1 .. Len(net[d]) : UnitInv(d, k)
                  /\ EndInv(d)
                  /\ rpart[d] # None => Made(rpart[d], d)

\* A part's data is on the wire once, and not while the part is still to be sent.
DataOnceAt(d, k) ==
    net[d][k].kind = "data" =>
        /\ \A l \in 1 .. Len(net[d]) :
              net[d][l].kind = "data" /\ Same(net[d][k].a, net[d][l].a) => k = l
        /\ \A l \in 1 .. Len(queue[d]) : ~ Same(net[d][k].a, queue[d][l])
        /\ wpc[d] \in {"header", "data"} => ~ Same(net[d][k].a, wpart[d])

DataOnce == \A d \in Dp : \A k \in 1 .. Len(net[d]) : DataOnceAt(d, k)

-----------------------------------------------------------------------------
(* The receiver. *)

Finishing(d) == rpc[d] \in {"lookup", "append", "nil"}
Assembled(q) == (\E d \in Dp : Finishing(d) /\ rpart[d].seq = q) \/ Delivered(q)
Got(q, i)    == \/ q \in DOMAIN recvStore /\ \E e \in recvStore[q].held : e.key = i
                \/ Assembled(q)

\* Part i of Write q is still on its way to its completion.
Coming(q, i) ==
    \/ \E w \in Writers : writing[w] = q /\ next[w] <= i
    \/ \E d \in Dp : \E k \in 1 .. Len(queue[d]) :
          queue[d][k].seq = q /\ queue[d][k].part = i
    \/ \E d \in Dp : wpc[d] \in {"header", "data"} /\ wpart[d].seq = q /\ wpart[d].part = i
    \/ \E d \in Dp : \E k \in 1 .. Len(net[d]) :
          net[d][k].kind = "data" /\ net[d][k].a.seq = q /\ net[d][k].a.part = i
    \/ \E d \in Dp : rpc[d] = "data" /\ rpart[d].seq = q /\ rpart[d].part = i

\* A part with bytes in it that is still on its way has not been received.
NotYetGot ==
    \A q \in DOMAIN written : \A i \in 1 .. Len(PartsOf(q)) :
        PartsOf(q)[i].size > 0 /\ Coming(q, i) => ~ Got(q, i)

RecvStoreInv ==
    \A q \in DOMAIN recvStore :
        /\ q \in DOMAIN written
        /\ recvStore[q].stream = written[q].stream
        /\ recvStore[q].size = Length(q, PartsOf(q))
        /\ recvStore[q].held \subseteq Payload(q)

ReadLoopInv ==
    \A d \in Dp :
        /\ rpc[d] = "data" /\ rpart[d].size > 0 => rpart[d].seq \in DOMAIN recvStore
        /\ rpc[d] \in {"lookup", "append"} => rdata[d] = Payload(rpart[d].seq)

ReceiverInv == /\ NetTypeOK
               /\ RecvTypeOK
               /\ WireInv
               /\ DataOnce
               /\ NotYetGot
               /\ RecvStoreInv
               /\ ReadLoopInv
               /\ AtMostOnce
               /\ WholeSequences

\* The inductive invariant.  Every action of the dataplane preserves it, whatever
\* the scheduler decides and whichever connections are lost.
Inv == SenderInv /\ ReceiverInv

-----------------------------------------------------------------------------
(* What the completion stores and the order of Writes need besides Inv.  Each *)
(* part below is inductive together with Inv.                                *)

\* The scheduler cuts no Write into parts of which some are empty.
PartsHaveBytes ==
    \A dec \in Decisions : Len(dec) > 1 => \A i \in 1 .. Len(dec) : dec[i].size > 0

\* A completion that a readLoop has removed does not come back, and an empty Write
\* is never assembled.
OrphanInv ==
    /\ \A q \in DOMAIN recvStore : ~ Delivered(q)
    /\ \A d \in Dp : rpc[d] \in {"append", "nil"} => rpart[d].seq \notin DOMAIN recvStore
    /\ \A q \in DOMAIN written :
          Assembled(q) => \E i \in 1 .. Len(PartsOf(q)) : PartsOf(q)[i].size > 0

\* The data of part i of Write q has left the sender and has not been lost.
OnWire(q, i) ==
    \E d \in Dp : \E k \in 1 .. Len(net[d]) :
        net[d][k].kind = "data" /\ net[d][k].a.seq = q /\ net[d][k].a.part = i
Sent(q, i) == OnWire(q, i) \/ Got(q, i)

AllUp == \A d \in Dp : up[d]

\* As long as no connection is lost, a part is counted only after it is sent, so a
\* completion that has been removed had all of its parts sent.
Unsent(q) == {i \in 1 .. Len(PartsOf(q)) : ToSend(q, i) \/ ~ Sent(q, i)}
SentInv ==
    AllUp =>
        /\ \A d \in Dp : wpc[d] = "count" => Sent(wpart[d].seq, wpart[d].part)
        /\ \A q \in DOMAIN sendStore :
              sendStore[q].completed <= Cardinality((1 .. Len(PartsOf(q))) \ Unsent(q))
        /\ \A q \in DOMAIN written \ DOMAIN sendStore :
              \A i \in 1 .. Len(PartsOf(q)) : Sent(q, i)

\* The parts on dataplane stream d stand in a line: the readLoop's, the QUIC
\* stream, the writeLoop's at place 0, the queue.
Place(d, n) ==
    \/ n \in 1 .. Len(queue[d])
    \/ n = 0 /\ wpc[d] # "get"
    \/ n \in - Len(net[d]) .. -1
    \/ n = - Len(net[d]) - 1 /\ rpc[d] # "header"
PartAt(d, n) ==
    IF n > 0 THEN queue[d][n]
    ELSE IF n = 0 THEN wpart[d]
    ELSE IF n >= - Len(net[d]) THEN net[d][n + Len(net[d]) + 1].a
    ELSE rpart[d]
Line(d) == {n \in (- Len(net[d]) - 1) .. Len(queue[d]) : Place(d, n)}

\* Write p was made by the goroutine that made q, and not after it.
NotAfter(p, q) == written[p].writer = written[q].writer => written[p].no <= written[q].no

OnPath(q, d) == \A k \in 1 .. Len(PartsOf(q)) : PartsOf(q)[k].dp = d

\* Writes are numbered in the order they are made.
NumbersInv ==
    \A p \in DOMAIN written :
        /\ written[p].no < Cardinality(DOMAIN written)
        /\ \A q \in DOMAIN written : written[p].no = written[q].no => p = q

\* A goroutine is in the last of its Writes.
NewestInv ==
    \A w \in Writers : writing[w] # None =>
        \A p \in DOMAIN written : NotAfter(p, writing[w])

\* The parts of one goroutine's Writes stand in line in the order of the Writes,
\* and behind whatever came the same way and has been delivered.
LineInv(d) ==
    \A m, n \in Line(d) : m <= n => NotAfter(PartAt(d, m).seq, PartAt(d, n).seq)
FirstOut(d) ==
    \A p \in DOMAIN written : Delivered(p) /\ OnPath(p, d) =>
        \A n \in Line(d) : NotAfter(p, PartAt(d, n).seq)

OrderInv ==
    /\ NumbersInv
    /\ NewestInv
    /\ \A d \in Dp : LineInv(d) /\ FirstOut(d)
    /\ InOrderOnPath
=============================================================================
