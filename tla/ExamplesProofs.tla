--------------------------- MODULE ExamplesProofs ---------------------------
(***************************************************************************)
(* The safety of the programs under examples/, for any length of a header  *)
(* or a ping, any sizes of the files, and any number of rounds.            *)
(***************************************************************************)
EXTENDS ExamplesInv, SumProofs, SequenceTheorems

-----------------------------------------------------------------------------
(* The programs. *)

Calls == WriteCalls \cup {"readHeader", "readBody", "readPing"}

LEMMA Peers ==
    ASSUME NEW e \in Ends
    PROVE  Peer(e) \in Ends /\ Peer(e) # e /\ Peer(Peer(e)) = e /\ Ends = {e, Peer(e)}
BY DEF Ends, Peer

\* A program is two sequences of calls.
LEMMA ProgramType ==
    ASSUME NEW p \in Programs, NEW e \in Ends
    PROVE  /\ p[e] \in Seq(Calls)
           /\ Len(p[e]) \in Nat
           /\ DOMAIN p[e] = 1 .. Len(p[e])
<1>1. Put \in Seq(Calls) /\ Get \in Seq(Calls) /\ Len(Put) = 2 /\ Len(Get) = 2
  BY DEF Put, Get, Calls, WriteCalls
<1>2. ASSUME NEW calls \in Seq(Calls), Len(calls) \in {1, 2} PROVE Repeat(calls) \in Seq(Calls)
  <2>1. Rounds * Len(calls) \in Nat
    BY <1>2, ExamplesAssumption
  <2>2. ASSUME NEW i \in 1 .. Rounds * Len(calls)
        PROVE  ((i - 1) % Len(calls)) + 1 \in 1 .. Len(calls)
    <3>1. CASE Len(calls) = 1
      BY <2>1, <3>1
    <3>2. CASE Len(calls) = 2
      BY <2>1, <3>2
    <3> QED
      BY <1>2, <3>1, <3>2
  <2>3. \A i \in 1 .. Rounds * Len(calls) : calls[((i - 1) % Len(calls)) + 1] \in Calls
    BY <2>2
  <2> QED
    BY <2>1, <2>3 DEF Repeat
<1>3. Repeat(Put) \in Seq(Calls) /\ Repeat(Get) \in Seq(Calls)
  BY <1>1, <1>2
<1>4. Repeat(<<"writePing">>) \in Seq(Calls) /\ Repeat(<<"readPing">>) \in Seq(Calls)
  <2>1. <<"writePing">> \in Seq(Calls) /\ <<"readPing">> \in Seq(Calls)
        /\ Len(<<"writePing">>) = 1 /\ Len(<<"readPing">>) = 1
    BY DEF Calls, WriteCalls
  <2> QED
    BY <2>1, <1>2
<1>5. p[e] \in Seq(Calls)
  <2>1. Put \o Get \in Seq(Calls) /\ Get \o Put \in Seq(Calls)
    BY <1>1
  <2>2. CASE p = filetransfer
    BY <1>1, <2>2 DEF Ends, filetransfer
  <2>3. CASE p = fileserver
    <3>1. p[e] \in {Put \o Get, Get \o Put}
      <4>1. p["client"] = Put \o Get /\ p["server"] = Get \o Put
        BY <2>3 DEF fileserver
      <4> QED
        BY ONLY <4>1 DEF Ends
    <3> QED
      BY <2>1, <3>1
  <2>4. CASE p = pingpong
    BY <1>4, <2>4 DEF Ends, pingpong
  <2>5. CASE p = quictest
    BY <1>3, <2>5 DEF Ends, quictest
  <2> QED
    BY <2>2, <2>3, <2>4, <2>5 DEF Programs
<1> QED
  BY <1>5

\* In pingpong one end writes pings only, and the other reads them.
LEMMA PingpongCalls ==
    /\ \A i \in DOMAIN pingpong["client"] : pingpong["client"][i] = "writePing"
    /\ \A i \in DOMAIN pingpong["server"] : pingpong["server"][i] = "readPing"
    /\ pingpong # quictest /\ pingpong \notin Ending
<1>1. ASSUME NEW c
      PROVE  /\ DOMAIN Repeat(<<c>>) = 1 .. Rounds
             /\ \A i \in 1 .. Rounds : Repeat(<<c>>)[i] = c
  <2>1. Rounds * Len(<<c>>) = Rounds /\ Rounds \in Nat
    BY ExamplesAssumption
  <2>2. \A i \in 1 .. Rounds : ((i - 1) % Len(<<c>>)) + 1 = 1
    BY ExamplesAssumption
  <2> QED
    BY <2>1, <2>2 DEF Repeat
<1>2. 1 \in 1 .. Rounds /\ pingpong["client"][1] = "writePing"
  BY <1>1, ExamplesAssumption DEF pingpong
<1>3. Put[1] = "writeHeader" /\ (Put \o Get)[1] = "writeHeader"
  BY DEF Put, Get
<1>4. Repeat(Put)[1] = "writeHeader"
  <2>1. Rounds * Len(Put) \in Nat /\ 1 \in 1 .. Rounds * Len(Put) /\ ((1 - 1) % Len(Put)) + 1 = 1
    BY ExamplesAssumption DEF Put
  <2> QED
    BY <2>1, <1>3 DEF Repeat
<1>5. quictest["client"][1] = "writeHeader" /\ filetransfer["client"][1] = "writeHeader"
      /\ fileserver["client"][1] = "writeHeader"
  BY <1>3, <1>4 DEF quictest, filetransfer, fileserver
<1> QED
  BY <1>1, <1>2, <1>5 DEF pingpong, Ending

\* In a program that transfers files an end makes a call once at most, and it writes
\* and reads a header just before a body.
LEMMA FileCalls ==
    ASSUME NEW p \in Ending, NEW e \in Ends, NEW i \in DOMAIN p[e]
    PROVE  /\ p[e][i] \in {"writeHeader", "writeBody", "readHeader", "readBody"}
           /\ \A j \in DOMAIN p[e] : p[e][j] = p[e][i] => j = i
           /\ p[e][i] = "writeBody" => i - 1 \in DOMAIN p[e] /\ p[e][i - 1] = "writeHeader"
           /\ p[e][i] = "readBody" => i - 1 \in DOMAIN p[e] /\ p[e][i - 1] = "readHeader"
<1>1. p[e] \in {Put, Get, Put \o Get, Get \o Put}
  BY DEF Ending, Ends, filetransfer, fileserver
<1>2. CASE p[e] = Put
  BY <1>2 DEF Put
<1>3. CASE p[e] = Get
  BY <1>3 DEF Get
<1>4. CASE p[e] = Put \o Get
  <2>1. /\ DOMAIN p[e] = 1 .. 4
        /\ p[e][1] = "writeHeader" /\ p[e][2] = "writeBody"
        /\ p[e][3] = "readHeader" /\ p[e][4] = "readBody"
    BY <1>4 DEF Put, Get
  <2> QED
    BY <2>1
<1>5. CASE p[e] = Get \o Put
  <2>1. /\ DOMAIN p[e] = 1 .. 4
        /\ p[e][1] = "readHeader" /\ p[e][2] = "readBody"
        /\ p[e][3] = "writeHeader" /\ p[e][4] = "writeBody"
    BY <1>5 DEF Put, Get
  <2> QED
    BY <2>1
<1> QED
  BY <1>1, <1>2, <1>3, <1>4, <1>5

-----------------------------------------------------------------------------
(* What a Write puts on the stream. *)

LEMMA BytesType ==
    ASSUME NEW q \in Nat, NEW n \in Nat
    PROVE  /\ Bytes(q, n) \in Seq(Byte)
           /\ Len(Bytes(q, n)) = n
           /\ \A i \in 1 .. n : Bytes(q, n)[i] = [write |-> q, place |-> i]
<1>1. \A i \in 1 .. n : [write |-> q, place |-> i] \in Byte
  BY DEF Byte
<1> QED
  BY <1>1 DEF Bytes

\* Two Writes have no byte in common.
LEMMA BytesDiffer ==
    ASSUME NEW q \in Nat, NEW r \in Nat, NEW n \in Nat \ {0}, Bytes(q, n) = Bytes(r, n)
    PROVE  q = r
<1>1. Bytes(q, n)[1] = [write |-> q, place |-> 1] /\ Bytes(r, n)[1] = [write |-> r, place |-> 1]
  <2>1. 1 \in 1 .. n /\ n \in Nat
    OBVIOUS
  <2> QED
    BY <2>1, BytesType
<1>2. Bytes(q, n)[1].write = q /\ Bytes(r, n)[1].write = r
  BY <1>1
<1> QED
  BY <1>2

LEMMA PayloadType ==
    ASSUME StateInv, NEW e \in Ends, NEW call \in WriteCalls, NEW q \in Nat
    PROVE  /\ Payload(e, call, q) \in Seq(Byte)
           /\ call = "writeHeader" => Payload(e, call, q) = Bytes(q, Header)
           /\ call = "writeBody" => Payload(e, call, q) = Bytes(q, size[e])
           /\ call = "writePing" => Payload(e, call, q) = Bytes(q, PingSize)
<1>1. Header \in Nat /\ size[e] \in Nat /\ PingSize \in Nat
  BY ExamplesAssumption DEF StateInv
<1>2. CASE call = "writeHeader"
  BY <1>1, <1>2, BytesType DEF Payload
<1>3. CASE call = "writeBody"
  BY <1>1, <1>3, BytesType DEF Payload
<1>4. CASE call = "writePing"
  BY <1>1, <1>4, BytesType DEF Payload
<1> QED
  BY <1>2, <1>3, <1>4 DEF WriteCalls

-----------------------------------------------------------------------------
(* What the steps do. *)

\* The Writes are numbered from 1.
LEMMA WritesNumbered ==
    ASSUME WritesInv
    PROVE  \E n \in Nat : DOMAIN asked = 1 .. n /\ Cardinality(DOMAIN asked) = n
BY FS_CardinalityType DEF WritesInv

\* A Write gets the next number, and nothing of it has arrived.
Wrote(e, call, q) ==
    /\ DOMAIN asked = 1 .. q - 1
    /\ ~wrong[e] /\ calling[e] = 0 /\ at[e] \in DOMAIN program[e] /\ program[e][at[e]] = call
    /\ DOMAIN asked' = 1 .. q /\ DOMAIN content' = 1 .. q /\ DOMAIN landed' = 1 .. q
    /\ asked'[q] = e /\ landed'[q] = 0
    /\ content'[q] = [call |-> call, data |-> Payload(e, call, q)]
    /\ \A x \in 1 .. q - 1 :
          asked'[x] = asked[x] /\ content'[x] = content[x] /\ landed'[x] = landed[x]
    /\ asked' = [x \in 1 .. q |-> asked'[x]]
    /\ content' = [x \in 1 .. q |-> content'[x]]
    /\ landed' = [x \in 1 .. q |-> landed'[x]]
    /\ calling' = [calling EXCEPT ![e] = q]
    /\ UNCHANGED <<program, service, size, at, need, part, got, wrong, buffer, exited>>

LEMMA WriteDoes ==
    ASSUME BaseInv, NEW e \in Ends, Write(e)
    PROVE  \E call \in WriteCalls, q \in Nat \ {0} : Wrote(e, call, q)
<1>1. PICK call \in WriteCalls, q \in Writes :
        /\ Makes(e, call)
        /\ q = Cardinality(DOMAIN asked) + 1
        /\ T!Ask(q, e)
        /\ content' = [x \in DOMAIN content \cup {q} |->
                          IF x = q THEN [call |-> call, data |-> Payload(e, call, q)]
                          ELSE content[x]]
        /\ landed' = [x \in DOMAIN landed \cup {q} |-> IF x = q THEN 0 ELSE landed[x]]
        /\ calling' = [calling EXCEPT ![e] = q]
        /\ UNCHANGED <<program, service, size, at, need, part, got, wrong, buffer, exited>>
  BY Zenon DEF Write, WriteCalls
<1>2. PICK n \in Nat : DOMAIN asked = 1 .. n /\ Cardinality(DOMAIN asked) = n
  BY WritesNumbered DEF BaseInv
<1>3. q = n + 1 /\ q \in Nat \ {0} /\ 1 .. n = 1 .. q - 1 /\ (1 .. n) \cup {q} = 1 .. q
  BY <1>1, <1>2
<1>4. DOMAIN content = 1 .. n /\ DOMAIN landed = 1 .. n
  BY <1>2 DEF BaseInv, WritesInv
<1>5. asked' = [x \in 1 .. q |-> IF x = q THEN e ELSE asked[x]]
  BY <1>1, <1>2, <1>3 DEF T!Ask
<1>6. content' = [x \in 1 .. q |-> IF x = q THEN [call |-> call, data |-> Payload(e, call, q)]
                                   ELSE content[x]]
  BY <1>1, <1>3, <1>4
<1>7. landed' = [x \in 1 .. q |-> IF x = q THEN 0 ELSE landed[x]]
  BY <1>1, <1>3, <1>4
<1>8. ~wrong[e] /\ calling[e] = 0 /\ at[e] \in DOMAIN program[e] /\ program[e][at[e]] = call
  BY <1>1 DEF Makes, Running
<1>9. \A x \in 1 .. q - 1 : x \in 1 .. q /\ x # q
  BY <1>3
<1>10. q \in 1 .. q
  BY <1>3
<1>11. /\ DOMAIN asked' = 1 .. q /\ asked'[q] = e /\ asked' = [x \in 1 .. q |-> asked'[x]]
       /\ \A x \in 1 .. q - 1 : asked'[x] = asked[x]
  BY ONLY <1>5, <1>9, <1>10
<1>12. /\ DOMAIN content' = 1 .. q /\ content' = [x \in 1 .. q |-> content'[x]]
       /\ content'[q] = [call |-> call, data |-> Payload(e, call, q)]
       /\ \A x \in 1 .. q - 1 : content'[x] = content[x]
  BY ONLY <1>6, <1>9, <1>10
<1>13. /\ DOMAIN landed' = 1 .. q /\ landed'[q] = 0 /\ landed' = [x \in 1 .. q |-> landed'[x]]
       /\ \A x \in 1 .. q - 1 : landed'[x] = landed[x]
  BY ONLY <1>7, <1>9, <1>10
<1>14. Wrote(e, call, q)
  BY <1>1, <1>2, <1>3, <1>8, <1>11, <1>12, <1>13 DEF Wrote
<1> QED
  BY <1>3, <1>14

\* A Write that waits returns.
Returned(e) ==
    /\ calling[e] # 0
    /\ calling' = [calling EXCEPT ![e] = 0]
    /\ at' = [at EXCEPT ![e] = at[e] + 1]
    /\ UNCHANGED <<program, service, size, need, part, got, wrong, content, landed, buffer,
                   exited, asked>>

LEMMA WriteReturnsDoes ==
    ASSUME NEW e \in Ends, WriteReturns(e)
    PROVE  Returned(e)
BY DEF WriteReturns, Returned, T!Return

\* n bytes of Write q arrive; all of them, unless the stream is one of QUIC.
Delivered(q, n) ==
    /\ q \in DOMAIN asked
    /\ n \in 1 .. Len(content[q].data) - landed[q]
    /\ service # "quic" => landed[q] = 0 /\ n = Len(content[q].data)
    /\ service # "paths" =>
         \A r \in DOMAIN asked :
            asked[r] = asked[q] /\ r < q => landed[r] = Len(content[r].data)
    /\ buffer' = [buffer EXCEPT ![Peer(asked[q])] =
                     buffer[Peer(asked[q])] \o SubSeq(content[q].data, landed[q] + 1, landed[q] + n)]
    /\ landed' = [landed EXCEPT ![q] = landed[q] + n]
    /\ UNCHANGED <<program, service, size, app, content, exited, asked>>

LEMMA DeliverDoes ==
    ASSUME BaseInv, NEW q, Deliver(q)
    PROVE  \E n \in Nat : Delivered(q, n)
<1>1. q \in DOMAIN asked
      /\ (service # "paths" =>
             \A r \in DOMAIN asked : asked[r] = asked[q] /\ r < q => Missing(r) = 0)
  BY DEF Deliver
<1>2. PICK n \in 1 .. Missing(q) : (service # "quic" => n = Missing(q)) /\ Lands(q, n)
  BY DEF Deliver
<1>3. \A r \in DOMAIN asked : landed[r] \in Nat /\ Len(content[r].data) \in Nat
  <2> SUFFICES ASSUME NEW r \in DOMAIN asked
               PROVE  landed[r] \in Nat /\ Len(content[r].data) \in Nat
    OBVIOUS
  <2>1. content[r] \in [call : WriteCalls, data : Seq(Byte)] /\ landed[r] \in Nat
    BY DEF BaseInv, WritesInv
  <2> QED
    BY <2>1
<1>4. service # "paths" =>
         \A r \in DOMAIN asked :
            asked[r] = asked[q] /\ r < q => landed[r] = Len(content[r].data)
  BY <1>1, <1>3 DEF Missing
<1>5. n \in Nat /\ n \in 1 .. Len(content[q].data) - landed[q]
  BY <1>1, <1>2, <1>3 DEF Missing
<1>6. service # "quic" => landed[q] = 0 /\ n = Len(content[q].data)
  <2>1. service # "quic" => landed[q] \in {0, Len(content[q].data)}
    BY <1>1 DEF BaseInv, WritesInv
  <2>2. service # "quic" => n = Len(content[q].data) - landed[q]
    BY <1>2 DEF Missing
  <2> QED
    BY <1>1, <1>3, <1>5, <2>1, <2>2
<1>7. UNCHANGED asked
  BY <1>2 DEF Lands, T!Arrive, net
<1> QED
  BY <1>1, <1>2, <1>4, <1>5, <1>6, <1>7 DEF Delivered, Lands

\* e takes the first n bytes of its buffer.
Took(e, n) ==
    /\ n \in 0 .. Len(buffer[e])
    /\ buffer' = [buffer EXCEPT ![e] = SubSeq(buffer[e], n + 1, Len(buffer[e]))]
    /\ UNCHANGED <<program, service, size, calling, content, landed, exited, asked>>

\* A Read returns as many of the bytes that it asked for as there are.
LEMMA ReadIs ==
    ASSUME StateInv, NEW e \in Ends, NEW n \in Nat
    PROVE  \E m \in Nat : /\ m = IF n > Len(buffer[e]) THEN Len(buffer[e]) ELSE n
                          /\ m <= Len(buffer[e])
                          /\ Read(e, n) = SubSeq(buffer[e], 1, m)
                          /\ Read(e, n) \in Seq(Byte)
                          /\ Len(Read(e, n)) = m
<1>1. buffer[e] \in Seq(Byte) /\ Len(buffer[e]) \in Nat
  BY DEF StateInv
<1>2. PICK m \in Nat : m = IF n > Len(buffer[e]) THEN Len(buffer[e]) ELSE n
  BY <1>1
<1>3. Read(e, n) = SubSeq(buffer[e], 1, m)
  BY <1>2 DEF Read
<1>4. m <= Len(buffer[e])
  BY <1>1, <1>2
<1>5. SubSeq(buffer[e], 1, m) \in Seq(Byte) /\ Len(SubSeq(buffer[e], 1, m)) = m
  BY <1>1, <1>4
<1> QED
  BY <1>2, <1>3, <1>4, <1>5

ReadCalls == {"readHeader", "readBody", "readPing"}

\* What the steps that read have in common.
ReadStep(e) ==
    /\ calling[e] = 0 /\ at[e] \in DOMAIN program[e] /\ program[e][at[e]] \in ReadCalls
    /\ at' \in {at, [at EXCEPT ![e] = at[e] + 1]}
    /\ need' \in {need, [need EXCEPT ![e] = size[Peer(e)]]}
    /\ wrong' \in {wrong, [wrong EXCEPT ![e] = TRUE]}
    /\ \E b \in Seq(Byte) : buffer' = [buffer EXCEPT ![e] = b]
    /\ \E p \in Seq(Byte) : part' = [part EXCEPT ![e] = p]
    /\ \E g \in Seq(Seq(Byte)) : got' = [got EXCEPT ![e] = g]
    /\ part'[e] # <<>> => /\ Len(part'[e]) < need'[e]
                          /\ at' = at
                          /\ program[e][at[e]] = "readBody"
    /\ UNCHANGED <<program, service, size, calling, content, landed, exited, asked>>

-----------------------------------------------------------------------------
(* BaseInv holds at first, and every step keeps it. *)

LEMMA BaseInit == Init => BaseInv
<1> SUFFICES ASSUME Init PROVE BaseInv
  OBVIOUS
<1>1. program \in Programs /\ service \in Service(program)
  BY DEF Init, Programs
<1>2. size \in [Ends -> Nat]
  BY ExamplesAssumption DEF Init
<1>3. StateInv
  BY <1>1, <1>2 DEF Init, StateInv
<1>4. asked = [x \in {} |-> x] /\ content = [x \in {} |-> <<>>] /\ landed = [x \in {} |-> 0]
  BY DEF Init, T!Init
<1>5. IsFiniteSet({}) /\ Cardinality({}) = 0
  BY FS_EmptySet
<1>6. WritesInv
  BY <1>4, <1>5 DEF WritesInv
<1>7. ASSUME NEW e \in Ends PROVE CallInv(e)
  <2>1. Len(program[e]) \in Nat
    BY <1>1, ProgramType
  <2>2. at[e] = 1 /\ calling[e] = 0 /\ need[e] = 0 /\ part[e] = <<>>
    BY DEF Init
  <2> QED
    BY <2>1, <2>2 DEF CallInv
<1>8. ASSUME NEW e \in Ends, NEW j \in DOMAIN program[e] PROVE ~(j < at[e])
  BY <1>1, ProgramType DEF Init
<1> QED
  BY <1>3, <1>4, <1>6, <1>7, <1>8 DEF BaseInv, CallsInv

\* The parts of CallsInv, each by itself.
LEMMA CallsFacts ==
    ASSUME BaseInv
    PROVE  /\ \A e \in Ends : /\ at[e] \in 1 .. Len(program[e]) + 1
                              /\ DOMAIN program[e] = 1 .. Len(program[e])
                              /\ Len(program[e]) \in Nat
           /\ \A e \in Ends : calling[e] # 0 => /\ calling[e] \in DOMAIN asked
                                                /\ asked[calling[e]] = e
                                                /\ at[e] \in DOMAIN program[e]
                                                /\ program[e][at[e]] = content[calling[e]].call
           /\ \A e \in Ends : need[e] \in {0, size[Peer(e)]}
           /\ \A e \in Ends : part[e] # <<>> => /\ Len(part[e]) < need[e]
                                                /\ at[e] \in DOMAIN program[e]
                                                /\ program[e][at[e]] = "readBody"
           /\ \A q \in DOMAIN asked : /\ asked[q] \in Ends
                                      /\ content[q].call \in WriteCalls
                                      /\ content[q].data \in Seq(Byte)
                                      /\ landed[q] \in Nat
                                      /\ Len(content[q].data) \in Nat
<1>1. ASSUME NEW e \in Ends
      PROVE  Len(program[e]) \in Nat /\ DOMAIN program[e] = 1 .. Len(program[e])
  BY ProgramType DEF BaseInv, StateInv
<1>2. ASSUME NEW q \in DOMAIN asked
      PROVE  /\ asked[q] \in Ends
             /\ content[q].call \in WriteCalls
             /\ content[q].data \in Seq(Byte)
             /\ landed[q] \in Nat
             /\ Len(content[q].data) \in Nat
  <2>1. content[q] \in [call : WriteCalls, data : Seq(Byte)] /\ asked[q] \in Ends /\ landed[q] \in Nat
    BY DEF BaseInv, WritesInv
  <2> QED
    BY <2>1
<1>3. \A e \in Ends : CallInv(e)
  BY DEF BaseInv, CallsInv
<1> QED
  BY <1>1, <1>2, <1>3 DEF CallInv

LEMMA BaseWrite ==
    ASSUME BaseInv, NEW e \in Ends, NEW call \in WriteCalls, NEW q \in Nat \ {0},
           Wrote(e, call, q)
    PROVE  BaseInv'
<1>1. StateInv'
  <2>1. calling' \in [Ends -> Nat]
    BY DEF BaseInv, StateInv, Wrote
  <2> QED
    BY <2>1 DEF BaseInv, StateInv, Wrote
<1>2. 1 .. q = 1 .. q - 1 \cup {q} /\ q \notin 1 .. q - 1 /\ q \in 1 .. q
  OBVIOUS
<1>3. WritesInv'
  <2>1. IsFiniteSet(1 .. q) /\ Cardinality(1 .. q) = q
    BY FS_Interval
  <2>2. Payload(e, call, q) \in Seq(Byte) /\ Len(Payload(e, call, q)) \in Nat
    BY PayloadType DEF BaseInv
  <2>3. \A x \in 1 .. q : asked'[x] \in Ends
    BY <1>2, CallsFacts DEF Wrote
  <2>4. asked' \in [DOMAIN asked' -> Ends]
    BY <2>3 DEF Wrote
  <2>5. \A x \in 1 .. q : content'[x] \in [call : WriteCalls, data : Seq(Byte)]
    BY <1>2, <2>2 DEF Wrote, BaseInv, WritesInv
  <2>6. content' \in [DOMAIN asked' -> [call : WriteCalls, data : Seq(Byte)]]
    BY <2>5 DEF Wrote
  <2>7. \A x \in 1 .. q : landed'[x] \in Nat
    BY <1>2 DEF Wrote, BaseInv, WritesInv
  <2>8. landed' \in [DOMAIN asked' -> Nat]
    BY <2>7 DEF Wrote
  <2>9. ASSUME NEW x \in 1 .. q
        PROVE  /\ content'[x].data = Payload(asked[x], content[x].call, x)'
               /\ landed'[x] <= Len(content'[x].data)
               /\ service' # "quic" => landed'[x] \in {0, Len(content'[x].data)}
    <3>1. Payload(asked[x], content[x].call, x)' = Payload(asked'[x], content'[x].call, x)
      BY DEF Wrote, Payload
    <3>2. CASE x = q
      BY <2>2, <3>1, <3>2 DEF Wrote
    <3>3. CASE x \in 1 .. q - 1
      BY <3>1, <3>3 DEF Wrote, BaseInv, WritesInv
    <3> QED
      BY <1>2, <3>2, <3>3
  <2>10. DOMAIN asked' = 1 .. q
    BY DEF Wrote
  <2> QED
    BY ONLY <2>1, <2>4, <2>6, <2>8, <2>9, <2>10 DEF WritesInv
<1>4. ASSUME NEW f \in Ends PROVE CallInv(f)'
  <2>1. CASE f = e
    <3>1. calling'[e] = q /\ asked'[q] = e /\ content'[q].call = call /\ q \in DOMAIN asked'
      BY <1>2 DEF Wrote, BaseInv, StateInv
    <3> QED
      BY <2>1, <3>1 DEF BaseInv, CallsInv, CallInv, Wrote
  <2>2. CASE f # e
    <3>1. calling'[f] = calling[f] /\ CallInv(f)
      BY <2>2 DEF Wrote, BaseInv, StateInv, CallsInv
    <3>2. calling[f] # 0 => /\ calling[f] \in DOMAIN asked' /\ asked'[calling[f]] = asked[calling[f]]
                            /\ content'[calling[f]] = content[calling[f]]
      BY <1>2, <3>1 DEF CallInv, Wrote
    <3> QED
      BY <3>1, <3>2 DEF CallInv, Wrote
  <2> QED
    BY <2>1, <2>2
<1>5. ASSUME NEW x \in DOMAIN asked'
      PROVE  \E j \in DOMAIN program'[asked'[x]] : MadeAt(x, j)'
  <2>1. CASE x = q
    BY <2>1 DEF Wrote, MadeAt, BaseInv, StateInv
  <2>2. CASE x \in 1 .. q - 1
    <3>1. PICK j \in DOMAIN program[asked[x]] : MadeAt(x, j)
      BY <2>2 DEF Wrote, BaseInv, CallsInv
    <3>2. asked[x] \in Ends /\ asked'[x] = asked[x] /\ content'[x] = content[x]
      BY <2>2, CallsFacts DEF Wrote
    <3>3. calling[asked[x]] = x => calling'[asked[x]] = x
      BY <2>2, <3>2 DEF Wrote, BaseInv, StateInv
    <3> QED
      BY <3>1, <3>2, <3>3 DEF MadeAt, Wrote
  <2> QED
    BY <1>2, <2>1, <2>2 DEF Wrote
<1>6. ASSUME NEW f \in Ends, NEW j \in DOMAIN program'[f],
             j < at'[f], program'[f][j] \in WriteCalls
      PROVE  \E x \in DOMAIN asked' : asked'[x] = f /\ content'[x].call = program'[f][j]
  <2>1. PICK x \in DOMAIN asked : asked[x] = f /\ content[x].call = program[f][j]
    BY <1>6 DEF Wrote, BaseInv, CallsInv
  <2> QED
    BY <1>2, <2>1 DEF Wrote
<1> QED
  BY <1>1, <1>3, <1>4, <1>5, <1>6 DEF BaseInv, CallsInv

LEMMA BaseReturn ==
    ASSUME BaseInv, NEW e \in Ends, Returned(e)
    PROVE  BaseInv'
<1>1. StateInv'
  BY DEF BaseInv, StateInv, Returned
<1>2. WritesInv'
  BY DEF BaseInv, WritesInv, Returned, Payload
<1>3. /\ calling[e] \in DOMAIN asked /\ asked[calling[e]] = e /\ at[e] \in DOMAIN program[e]
      /\ program[e][at[e]] = content[calling[e]].call /\ program[e][at[e]] \in WriteCalls
  BY CallsFacts DEF Returned
<1>4. /\ at'[e] = at[e] + 1 /\ calling'[e] = 0
      /\ \A f \in Ends : f # e => at'[f] = at[f] /\ calling'[f] = calling[f]
  BY DEF BaseInv, StateInv, Returned
<1>5. part[e] = <<>>
  BY <1>3, CallsFacts DEF WriteCalls
<1>6. ASSUME NEW f \in Ends PROVE CallInv(f)'
  <2>1. CASE f = e
    <3>1. at[e] + 1 \in 1 .. Len(program[e]) + 1
      BY <1>3, CallsFacts
    <3> QED
      BY <2>1, <3>1, <1>4, <1>5 DEF BaseInv, CallsInv, CallInv, Returned
  <2>2. CASE f # e
    BY <2>2, <1>4 DEF BaseInv, CallsInv, CallInv, Returned
  <2> QED
    BY <2>1, <2>2
<1>7. ASSUME NEW x \in DOMAIN asked'
      PROVE  \E j \in DOMAIN program'[asked'[x]] : MadeAt(x, j)'
  <2>1. PICK j \in DOMAIN program[asked[x]] : MadeAt(x, j)
    BY <1>7 DEF Returned, BaseInv, CallsInv
  <2>2. asked[x] \in Ends /\ at[asked[x]] \in Nat /\ j \in Nat
    BY <1>7, <2>1, CallsFacts DEF Returned
  <2>3. CASE asked[x] = e
    BY <2>1, <2>2, <2>3, <1>4 DEF MadeAt, Returned
  <2>4. CASE asked[x] # e
    BY <2>1, <2>2, <2>4, <1>4 DEF MadeAt, Returned
  <2> QED
    BY <2>3, <2>4
<1>8. ASSUME NEW f \in Ends, NEW j \in DOMAIN program'[f],
             j < at'[f], program'[f][j] \in WriteCalls
      PROVE  \E x \in DOMAIN asked' : asked'[x] = f /\ content'[x].call = program'[f][j]
  <2>1. at[f] \in Nat /\ j \in Nat /\ j \in DOMAIN program[f] /\ program'[f] = program[f]
    BY CallsFacts DEF Returned
  <2>2. CASE j < at[f]
    BY <1>8, <2>1, <2>2 DEF Returned, BaseInv, CallsInv
  <2>3. CASE ~(j < at[f])
    <3>1. f = e /\ j = at[e]
      BY <1>4, <1>8, <2>1, <2>3
    <3> QED
      BY <1>3, <3>1 DEF Returned
  <2> QED
    BY <2>2, <2>3
<1> QED
  BY <1>1, <1>2, <1>6, <1>7, <1>8 DEF BaseInv, CallsInv

LEMMA BaseDeliver ==
    ASSUME BaseInv, NEW q, NEW n \in Nat, Delivered(q, n)
    PROVE  BaseInv'
<1>1. /\ q \in DOMAIN asked /\ asked[q] \in Ends /\ landed[q] \in Nat
      /\ content[q].data \in Seq(Byte) /\ Len(content[q].data) \in Nat
  BY CallsFacts DEF Delivered
<1>2. n \in 1 .. Len(content[q].data) - landed[q]
  BY DEF Delivered
<1>3. StateInv'
  <2>1. SubSeq(content[q].data, landed[q] + 1, landed[q] + n) \in Seq(Byte)
    BY <1>1, <1>2
  <2>2. Peer(asked[q]) \in Ends /\ buffer[Peer(asked[q])] \in Seq(Byte)
    BY <1>1, Peers DEF BaseInv, StateInv
  <2>3. buffer' \in [Ends -> Seq(Byte)]
    <3>1. PICK u \in Seq(Byte) : u = buffer[Peer(asked[q])]
      BY ONLY <2>2
    <3>2. PICK v \in Seq(Byte) : v = SubSeq(content[q].data, landed[q] + 1, landed[q] + n)
      BY ONLY <2>1
    <3>3. u \o v \in Seq(Byte)
      BY ONLY <3>1, <3>2
    <3>4. PICK b \in Seq(Byte) :
            b = buffer[Peer(asked[q])] \o SubSeq(content[q].data, landed[q] + 1, landed[q] + n)
      BY ONLY <3>1, <3>2, <3>3, Zenon
    <3>5. buffer' = [buffer EXCEPT ![Peer(asked[q])] = b] /\ buffer \in [Ends -> Seq(Byte)]
      BY <3>4 DEF BaseInv, StateInv, Delivered
    <3> QED
      BY ONLY <3>5
  <2> QED
    BY <2>3 DEF BaseInv, StateInv, Delivered, app
<1>4. WritesInv'
  <2>1. landed \in [DOMAIN asked -> Nat] /\ landed' = [landed EXCEPT ![q] = landed[q] + n]
    BY DEF BaseInv, WritesInv, Delivered
  <2>2. landed' \in [DOMAIN asked -> Nat]
    BY <2>1, <1>1
  <2>3. ASSUME NEW x \in DOMAIN asked
        PROVE  /\ landed'[x] <= Len(content[x].data)
               /\ service # "quic" => landed'[x] \in {0, Len(content[x].data)}
    <3>1. CASE x = q
      <4>1. landed'[x] = landed[q] + n
        BY <2>1, <3>1
      <4>2. service # "quic" => landed[q] = 0 /\ n = Len(content[q].data)
        BY DEF Delivered
      <4> QED
        BY <1>1, <1>2, <3>1, <4>1, <4>2
    <3>2. CASE x # q
      BY <2>1, <3>2 DEF BaseInv, WritesInv
    <3> QED
      BY <3>1, <3>2
  <2>4. UNCHANGED <<asked, content, size, service>>
    BY DEF Delivered
  <2>5. ASSUME NEW x \in DOMAIN asked
        PROVE  content'[x].data = Payload(asked[x], content[x].call, x)'
    BY <2>4 DEF BaseInv, WritesInv, Payload
  <2> QED
    BY <2>2, <2>3, <2>4, <2>5 DEF BaseInv, WritesInv
<1>5. CallsInv'
  BY DEF BaseInv, CallsInv, CallInv, MadeAt, Delivered, app
<1> QED
  BY <1>3, <1>4, <1>5 DEF BaseInv

LEMMA BaseRead ==
    ASSUME BaseInv, NEW e \in Ends, ReadStep(e)
    PROVE  BaseInv'
<1>1. size[Peer(e)] \in Nat /\ Peer(e) \in Ends
  BY Peers DEF BaseInv, StateInv
<1>2. StateInv'
  <2>1. at' \in [Ends -> Nat] /\ need' \in [Ends -> Nat]
    <3>1. at \in [Ends -> Nat] /\ at' \in {at, [at EXCEPT ![e] = at[e] + 1]}
      BY DEF BaseInv, StateInv, ReadStep
    <3>2. need \in [Ends -> Nat] /\ need' \in {need, [need EXCEPT ![e] = size[Peer(e)]]}
      BY DEF BaseInv, StateInv, ReadStep
    <3>3. at' \in [Ends -> Nat]
      BY ONLY <3>1
    <3> QED
      BY ONLY <3>2, <3>3, <1>1
  <2>2. wrong' \in [Ends -> BOOLEAN]
    BY DEF BaseInv, StateInv, ReadStep
  <2>3. buffer' \in [Ends -> Seq(Byte)] /\ part' \in [Ends -> Seq(Byte)]
    BY DEF BaseInv, StateInv, ReadStep
  <2>4. got' \in [Ends -> Seq(Seq(Byte))]
    BY DEF BaseInv, StateInv, ReadStep
  <2> QED
    BY <2>1, <2>2, <2>3, <2>4 DEF BaseInv, StateInv, ReadStep
<1>3. WritesInv'
  BY DEF BaseInv, WritesInv, ReadStep, Payload
<1>4. at[e] \in DOMAIN program[e] /\ program[e][at[e]] \in ReadCalls /\ calling[e] = 0
  BY DEF ReadStep
<1>5. /\ at'[e] \in {at[e], at[e] + 1}
      /\ \A f \in Ends : f # e => at'[f] = at[f] /\ need'[f] = need[f] /\ part'[f] = part[f]
      /\ need'[e] \in {need[e], size[Peer(e)]}
  BY DEF BaseInv, StateInv, ReadStep
<1>6. ASSUME NEW f \in Ends PROVE CallInv(f)'
  <2>1. CASE f = e
    <3>1. at'[e] \in 1 .. Len(program[e]) + 1
      BY <1>4, <1>5, CallsFacts
    <3>2. need'[e] \in {0, size[Peer(e)]}
      BY <1>5, CallsFacts
    <3>3. part'[e] # <<>> => /\ Len(part'[e]) < need'[e]
                             /\ at'[e] = at[e]
                             /\ program[e][at[e]] = "readBody"
      BY DEF ReadStep
    <3> QED
      BY <2>1, <3>1, <3>2, <3>3, <1>4 DEF CallInv, ReadStep
  <2>2. CASE f # e
    BY <2>2, <1>5 DEF BaseInv, CallsInv, CallInv, ReadStep
  <2> QED
    BY <2>1, <2>2
<1>7. ASSUME NEW x \in DOMAIN asked'
      PROVE  \E j \in DOMAIN program'[asked'[x]] : MadeAt(x, j)'
  <2>1. PICK j \in DOMAIN program[asked[x]] : MadeAt(x, j)
    BY <1>7 DEF ReadStep, BaseInv, CallsInv
  <2>2. asked[x] \in Ends /\ at[asked[x]] \in Nat /\ j \in Nat
        /\ content[x].call \in WriteCalls
    BY <1>7, <2>1, CallsFacts DEF ReadStep
  <2>3. CASE asked[x] = e
    <3>1. j # at[e]
      BY <1>4, <2>1, <2>2, <2>3 DEF MadeAt, ReadCalls, WriteCalls
    <3>2. j < at'[e]
      BY <1>5, <2>1, <2>2, <2>3, <3>1 DEF MadeAt
    <3> QED
      BY <2>1, <2>3, <3>2 DEF MadeAt, ReadStep
  <2>4. CASE asked[x] # e
    BY <2>1, <2>2, <2>4, <1>5 DEF MadeAt, ReadStep
  <2> QED
    BY <2>3, <2>4
<1>8. ASSUME NEW f \in Ends, NEW j \in DOMAIN program'[f],
             j < at'[f], program'[f][j] \in WriteCalls
      PROVE  \E x \in DOMAIN asked' : asked'[x] = f /\ content'[x].call = program'[f][j]
  <2>1. at[f] \in Nat /\ j \in Nat /\ j \in DOMAIN program[f] /\ program'[f] = program[f]
    BY CallsFacts DEF ReadStep
  <2>2. ~(f = e /\ j = at[e])
    BY <1>4, <1>8, <2>1 DEF ReadCalls, WriteCalls
  <2>3. j < at[f]
    BY <1>5, <1>8, <2>1, <2>2
  <2> QED
    BY <1>8, <2>1, <2>3 DEF ReadStep, BaseInv, CallsInv
<1> QED
  BY <1>2, <1>3, <1>6, <1>7, <1>8 DEF BaseInv, CallsInv

\* e takes the bytes of data off its buffer.
LEMMA ConsumeDoes ==
    ASSUME StateInv, NEW e \in Ends, NEW n \in Nat, Consume(e, Read(e, n))
    PROVE  /\ Read(e, n) # <<>>
           /\ buffer' = [buffer EXCEPT ![e] = SubSeq(buffer[e], Len(Read(e, n)) + 1, Len(buffer[e]))]
           /\ SubSeq(buffer[e], Len(Read(e, n)) + 1, Len(buffer[e])) \in Seq(Byte)
           /\ UNCHANGED <<program, service, size, calling, content, landed, exited, asked>>
<1>1. PICK m \in Nat : m <= Len(buffer[e]) /\ Len(Read(e, n)) = m
  BY ReadIs
<1>2. buffer[e] \in Seq(Byte)
  BY DEF StateInv
<1>3. SubSeq(buffer[e], m + 1, Len(buffer[e])) \in Seq(Byte)
  BY <1>1, <1>2
<1> QED
  BY <1>1, <1>3 DEF Consume, net

LEMMA ReadHeaderStep ==
    ASSUME BaseInv, NEW e \in Ends, ReadHeader(e)
    PROVE  ReadStep(e)
<1>1. /\ calling[e] = 0 /\ at[e] \in DOMAIN program[e] /\ program[e][at[e]] = "readHeader"
  BY DEF ReadHeader, Makes, Running
<1>2. Header \in Nat
  BY ExamplesAssumption
<1>3. \E b \in Seq(Byte) : buffer' = [buffer EXCEPT ![e] = b]
  BY <1>2, ConsumeDoes DEF BaseInv, ReadHeader
<1>4. UNCHANGED <<program, service, size, calling, content, landed, exited, asked>>
  BY <1>2, ConsumeDoes DEF BaseInv, ReadHeader
<1>5. /\ at' \in {at, [at EXCEPT ![e] = at[e] + 1]}
      /\ need' \in {need, [need EXCEPT ![e] = size[Peer(e)]]}
      /\ wrong' \in {wrong, [wrong EXCEPT ![e] = TRUE]}
      /\ part' = part /\ got' = got
  BY DEF ReadHeader
<1>6. part[e] = <<>>
  BY <1>1, CallsFacts
<1>7. part[e] \in Seq(Byte) /\ part = [part EXCEPT ![e] = part[e]]
      /\ got[e] \in Seq(Seq(Byte)) /\ got = [got EXCEPT ![e] = got[e]]
  BY DEF BaseInv, StateInv
<1> QED
  BY <1>1, <1>3, <1>4, <1>5, <1>6, <1>7 DEF ReadStep, ReadCalls

\* e asks for no more than its buffer still has room for.
LEMMA RoomLeft ==
    ASSUME BaseInv, NEW e \in Ends
    PROVE  need[e] - Len(part[e]) \in Nat /\ part[e] \in Seq(Byte) /\ need[e] \in Nat
<1>1. need[e] \in Nat /\ part[e] \in Seq(Byte) /\ Len(part[e]) \in Nat
  BY DEF BaseInv, StateInv
<1>2. CASE part[e] = <<>>
  BY <1>1, <1>2
<1>3. CASE part[e] # <<>>
  BY <1>1, <1>3, CallsFacts
<1> QED
  BY <1>1, <1>2, <1>3

LEMMA ReadBodyStep ==
    ASSUME BaseInv, NEW e \in Ends, ReadBody(e)
    PROVE  ReadStep(e)
<1> DEFINE data == Read(e, need[e] - Len(part[e]))
<1>1. /\ calling[e] = 0 /\ at[e] \in DOMAIN program[e] /\ program[e][at[e]] = "readBody"
  BY DEF ReadBody, Makes, Running
<1>2. need[e] - Len(part[e]) \in Nat /\ part[e] \in Seq(Byte)
  BY RoomLeft
<1>3. data \in Seq(Byte)
  BY <1>2, ReadIs DEF BaseInv
<1>4. buffer[e] \in Seq(Byte) /\ buffer = [buffer EXCEPT ![e] = buffer[e]]
      /\ got[e] \in Seq(Seq(Byte)) /\ got = [got EXCEPT ![e] = got[e]]
  BY DEF BaseInv, StateInv
<1>5. /\ \E b \in Seq(Byte) : buffer' = [buffer EXCEPT ![e] = b]
      /\ UNCHANGED <<program, service, size, calling, content, landed, exited, asked>>
  <2>1. CASE Consume(e, data)
    BY <1>2, <2>1, ConsumeDoes DEF BaseInv
  <2>2. CASE ~Consume(e, data)
    BY <1>4, <2>2 DEF ReadBody, net
  <2> QED
    BY <2>1, <2>2
<1>6. need' = need /\ wrong' = wrong
  BY DEF ReadBody
<1>7. part[e] \o data \in Seq(Byte)
  BY <1>2, <1>3
<1>8. \/ BodyDone(e, part[e] \o data)
      \/ /\ Len(part[e] \o data) < need[e]
         /\ part' = [part EXCEPT ![e] = part[e] \o data]
         /\ UNCHANGED <<got, at>>
  BY DEF ReadBody
<1> HIDE DEF data
<1>9. part \in [Ends -> Seq(Byte)]
  BY DEF BaseInv, StateInv
<1>10. CASE BodyDone(e, part[e] \o data)
  <2>1. /\ at' = [at EXCEPT ![e] = at[e] + 1]
        /\ part' = [part EXCEPT ![e] = <<>>] /\ part'[e] = <<>>
        /\ got' = [got EXCEPT ![e] = Append(got[e], part[e] \o data)]
    BY <1>9, <1>10 DEF BodyDone
  <2>2. <<>> \in Seq(Byte) /\ Append(got[e], part[e] \o data) \in Seq(Seq(Byte))
    BY <1>4, <1>7
  <2> QED
    BY <1>1, <1>5, <1>6, <2>1, <2>2 DEF ReadStep, ReadCalls
<1>11. CASE /\ Len(part[e] \o data) < need[e]
            /\ part' = [part EXCEPT ![e] = part[e] \o data]
            /\ UNCHANGED <<got, at>>
  <2>1. part'[e] = part[e] \o data
    BY <1>9, <1>11
  <2> QED
    BY <1>1, <1>4, <1>5, <1>6, <1>7, <1>11, <2>1 DEF ReadStep, ReadCalls
<1> QED
  BY <1>8, <1>10, <1>11

LEMMA ReadPingStep ==
    ASSUME BaseInv, NEW e \in Ends, ReadPing(e)
    PROVE  ReadStep(e)
<1> DEFINE data == Read(e, PingSize)
<1>1. /\ calling[e] = 0 /\ at[e] \in DOMAIN program[e] /\ program[e][at[e]] = "readPing"
  BY DEF ReadPing, Makes, Running
<1>2. PingSize \in Nat
  BY ExamplesAssumption
<1>3. data \in Seq(Byte)
  BY <1>2, ReadIs DEF BaseInv
<1>4. \E b \in Seq(Byte) : buffer' = [buffer EXCEPT ![e] = b]
  BY <1>2, ConsumeDoes DEF BaseInv, ReadPing
<1>5. UNCHANGED <<program, service, size, calling, content, landed, exited, asked>>
  BY <1>2, ConsumeDoes DEF BaseInv, ReadPing
<1>6. need' = need /\ wrong' = wrong
  BY DEF ReadPing
<1>7. part \in [Ends -> Seq(Byte)] /\ got[e] \in Seq(Seq(Byte))
  BY DEF BaseInv, StateInv
<1>8. /\ at' = [at EXCEPT ![e] = at[e] + 1]
      /\ part' = [part EXCEPT ![e] = <<>>]
      /\ got' = [got EXCEPT ![e] = Append(got[e], data)]
  BY DEF ReadPing, BodyDone
<1> HIDE DEF data
<1>9. <<>> \in Seq(Byte) /\ Append(got[e], data) \in Seq(Seq(Byte)) /\ part'[e] = <<>>
  BY <1>3, <1>7, <1>8
<1> QED
  BY <1>1, <1>4, <1>5, <1>6, <1>8, <1>9 DEF ReadStep, ReadCalls

LEMMA BaseExit ==
    ASSUME BaseInv, NEW e \in Ends, Exit(e)
    PROVE  BaseInv'
<1>1. /\ exited' = [exited EXCEPT ![e] = TRUE]
      /\ UNCHANGED <<program, service, size, app, content, landed, buffer, asked>>
  BY DEF Exit, net
<1>2. StateInv'
  BY <1>1 DEF BaseInv, StateInv, app
<1>3. WritesInv'
  BY <1>1 DEF BaseInv, WritesInv, Payload
<1>4. CallsInv'
  BY <1>1 DEF BaseInv, CallsInv, CallInv, MadeAt, app
<1> QED
  BY <1>2, <1>3, <1>4 DEF BaseInv

\* The steps of the programs, by what they do.
LEMMA StepCases ==
    ASSUME BaseInv, Next
    PROVE  \/ \E e \in Ends, call \in WriteCalls, q \in Nat \ {0} : Wrote(e, call, q)
           \/ \E e \in Ends : Returned(e)
           \/ \E e \in Ends : ReadStep(e) /\ (ReadHeader(e) \/ ReadBody(e) \/ ReadPing(e))
           \/ \E e \in Ends : Exit(e)
           \/ \E q \in Nat, n \in Nat : Delivered(q, n)
<1>1. ASSUME NEW e \in Ends, Steps(e)
      PROVE  \/ \E call \in WriteCalls, q \in Nat \ {0} : Wrote(e, call, q)
             \/ Returned(e)
             \/ ReadStep(e) /\ (ReadHeader(e) \/ ReadBody(e) \/ ReadPing(e))
  BY <1>1, WriteDoes, WriteReturnsDoes, ReadHeaderStep, ReadBodyStep, ReadPingStep DEF Steps
<1>2. ASSUME NEW q \in Writes, Deliver(q) PROVE q \in Nat /\ \E n \in Nat : Delivered(q, n)
  <2>1. q \in Nat
    BY ExamplesAssumption DEF Writes
  <2> QED
    BY <1>2, <2>1, DeliverDoes
<1> QED
  BY <1>1, <1>2 DEF Next

LEMMA BaseStep ==
    ASSUME BaseInv, [Next]_vars
    PROVE  BaseInv'
<1>1. CASE Next
  BY <1>1, StepCases, BaseWrite, BaseReturn, BaseRead, BaseExit, BaseDeliver
<1>2. CASE UNCHANGED vars
  <2>1. StateInv'
    BY <1>2 DEF BaseInv, StateInv, vars, app
  <2>2. WritesInv'
    BY <1>2 DEF BaseInv, WritesInv, vars, net, Payload
  <2>3. CallsInv'
    BY <1>2 DEF BaseInv, CallsInv, CallInv, MadeAt, vars, app, net
  <2> QED
    BY <2>1, <2>2, <2>3 DEF BaseInv
<1> QED
  BY <1>1, <1>2

-----------------------------------------------------------------------------
(* The pings. *)

\* What pingpong's Writes are.
Pings ==
    /\ service # "quic"
    /\ PingSize \in Nat \ {0}
    /\ \A q \in DOMAIN asked : /\ q \in Nat \ {0}
                               /\ content[q].data = Bytes(q, PingSize)
                               /\ content[q].data \in Seq(Byte)
                               /\ Len(content[q].data) = PingSize
                               /\ landed[q] \in {0, PingSize}
                               /\ content[q].call = "writePing"
    /\ \A q \in DOMAIN asked : \A r \in 1 .. q : r \in DOMAIN asked
    /\ buffer["server"] \in Seq(Byte)
    /\ got["server"] \in Seq(Seq(Byte))

LEMMA PingFacts ==
    ASSUME BaseInv, program = pingpong
    PROVE  Pings
<1>1. service # "quic"
  BY PingpongCalls DEF BaseInv, StateInv, Service
<1>2. PingSize \in Nat \ {0}
  BY ExamplesAssumption
<1>3. \E n \in Nat : DOMAIN asked = 1 .. n
  BY WritesNumbered DEF BaseInv
<1>4. ASSUME NEW q \in DOMAIN asked
      PROVE  /\ content[q].data = Bytes(q, PingSize)
             /\ content[q].data \in Seq(Byte)
             /\ Len(content[q].data) = PingSize
             /\ landed[q] \in {0, PingSize}
             /\ content[q].call = "writePing"
  <2>1. asked[q] \in Ends /\ content[q].call \in WriteCalls /\ q \in Nat
    BY <1>3, CallsFacts
  <2>2. PICK j \in DOMAIN program[asked[q]] : program[asked[q]][j] = content[q].call
    BY DEF BaseInv, CallsInv, MadeAt
  <2>3. content[q].call = "writePing"
    BY <2>1, <2>2, PingpongCalls DEF Ends, WriteCalls
  <2>4. content[q].data = Payload(asked[q], content[q].call, q)
        /\ landed[q] \in {0, Len(content[q].data)}
    BY <1>1 DEF BaseInv, WritesInv
  <2>5. content[q].data = Bytes(q, PingSize)
    BY <2>1, <2>3, <2>4, PayloadType DEF BaseInv
  <2>6. content[q].data \in Seq(Byte) /\ Len(content[q].data) = PingSize
    BY <1>2, <2>1, <2>5, BytesType
  <2> QED
    BY <2>3, <2>4, <2>5, <2>6
<1>5. buffer["server"] \in Seq(Byte) /\ got["server"] \in Seq(Seq(Byte))
  BY DEF BaseInv, StateInv, Ends
<1> QED
  BY <1>1, <1>2, <1>3, <1>4, <1>5 DEF Pings

LEMMA PingWrite ==
    ASSUME BaseInv, PingInv, NEW e \in Ends, NEW call \in WriteCalls, NEW q \in Nat \ {0},
           Wrote(e, call, q)
    PROVE  PingInv'
<1> SUFFICES ASSUME program = pingpong, PingpongInv PROVE PingpongInv'
  BY DEF PingInv, Wrote
<1>1. e = "client"
  BY PingpongCalls DEF Wrote, Ends, WriteCalls
<1>2. \A x \in DOMAIN asked' : x = q \/ x \in DOMAIN asked
  BY DEF Wrote
<1>3. /\ \A x \in DOMAIN asked : /\ x \in DOMAIN asked' /\ asked'[x] = asked[x]
                                 /\ content'[x] = content[x] /\ landed'[x] = landed[x]
      /\ asked'[q] = "client" /\ landed'[q] = 0
      /\ \A x \in DOMAIN asked : x < q
  BY <1>1 DEF Wrote
<1>4. UNCHANGED <<buffer, got, wrong, service>>
  BY DEF Wrote
<1>5. \A x \in DOMAIN asked' : asked'[x] = "client"
  BY <1>2, <1>3 DEF PingpongInv
<1>6. WholeInv("server")'
  <2>1. WholeInv("server")
    BY DEF PingpongInv
  <2> QED
    BY <2>1, <1>3, <1>4 DEF WholeInv
<1>7. OnceEachInv("server")'
  <2>1. OnceEachInv("server")
    BY DEF PingpongInv
  <2> QED
    BY <2>1, <1>3, <1>4 DEF OnceEachInv
<1>8. ASSUME service = "one path" PROVE OrderInv("server")'
  <2>1. OrderInv("server")
    BY <1>8 DEF PingpongInv
  <2>2. ASSUME NEW x \in DOMAIN asked', NEW y \in DOMAIN asked', y < x, landed'[x] # 0
        PROVE  landed'[y] # 0
    <3>1. x \in DOMAIN asked
      BY <1>2, <1>3, <2>2
    <3>2. y \in DOMAIN asked
      <4>1. x < q /\ x \in Nat
        BY <1>3, <3>1 DEF Wrote
      <4> QED
        BY <1>2, <2>2, <4>1
    <3> QED
      BY <1>3, <2>1, <2>2, <3>1, <3>2 DEF OrderInv
  <2>3. \A k, l \in 1 .. Len(buffer'["server"]) :
           k < l => buffer'["server"][k].write <= buffer'["server"][l].write
    BY <1>4, <2>1 DEF OrderInv
  <2>4. \A i \in 1 .. Len(got'["server"]) :
           i \in DOMAIN asked' /\ got'["server"][i] = content'[i].data
    BY <1>3, <1>4, <2>1 DEF OrderInv
  <2>5. \A x \in DOMAIN asked' :
           landed'[x] # 0 => \/ x <= Len(got'["server"])
                             \/ \E k \in 1 .. Len(buffer'["server"]) : buffer'["server"][k].write = x
    BY <1>2, <1>3, <1>4, <2>1 DEF OrderInv
  <2> QED
    BY <2>2, <2>3, <2>4, <2>5 DEF OrderInv
<1> QED
  BY <1>4, <1>5, <1>6, <1>7, <1>8 DEF PingpongInv

LEMMA PingKeep ==
    ASSUME PingInv, UNCHANGED <<program, service, asked, content, landed, buffer, got, wrong>>
    PROVE  PingInv'
<1>1. WholeInv("server") => WholeInv("server")'
  BY DEF WholeInv
<1>2. OnceEachInv("server") => OnceEachInv("server")'
  BY DEF OnceEachInv
<1>3. OrderInv("server") => OrderInv("server")'
  BY DEF OrderInv
<1> QED
  BY <1>1, <1>2, <1>3 DEF PingInv, PingpongInv

LEMMA PingDeliver ==
    ASSUME BaseInv, PingInv, NEW q, NEW n \in Nat, Delivered(q, n)
    PROVE  PingInv'
<1> SUFFICES ASSUME program = pingpong, PingpongInv PROVE PingpongInv'
  BY DEF PingInv, Delivered
<1> DEFINE b0 == buffer["server"]
           b1 == buffer'["server"]
           L  == Len(b0)
           g  == got["server"]
<1>1. Pings
  BY PingFacts
<1>2. /\ q \in DOMAIN asked /\ asked[q] = "client" /\ Peer(asked[q]) = "server"
      /\ q \in Nat /\ landed[q] = 0 /\ n = PingSize /\ n \in Nat \ {0}
      /\ content[q].data = Bytes(q, n) /\ Bytes(q, n) \in Seq(Byte) /\ Len(Bytes(q, n)) = n
  BY <1>1 DEF Delivered, Pings, PingpongInv, Peer
<1>3. b0 \in Seq(Byte) /\ L \in Nat
  BY <1>1 DEF Pings
<1>4. b1 = b0 \o SubSeq(Bytes(q, n), 1, n)
  <2>1. 0 + 1 = 1 /\ 0 + n = n
    BY <1>2
  <2>2. buffer' = [buffer EXCEPT ![Peer(asked[q])] =
                     buffer[Peer(asked[q])] \o SubSeq(content[q].data, landed[q] + 1, landed[q] + n)]
    BY DEF Delivered
  <2>3. buffer' = [buffer EXCEPT !["server"] = buffer["server"] \o SubSeq(Bytes(q, n), 1, n)]
    BY ONLY <2>1, <2>2, <1>2
  <2>4. "server" \in DOMAIN buffer
    BY DEF BaseInv, StateInv, Ends
  <2> QED
    BY ONLY <2>3, <2>4
<1>5. /\ Len(b1) = L + n
      /\ \A k \in 1 .. L : b1[k] = b0[k]
      /\ \A k \in L + 1 .. L + n : b1[k] = [write |-> q, place |-> k - L]
  <2>1. SubSeq(Bytes(q, n), 1, n) \in Seq(Byte) /\ Len(SubSeq(Bytes(q, n), 1, n)) = n
    BY <1>2
  <2>2. ASSUME NEW i \in 1 .. n
        PROVE  SubSeq(Bytes(q, n), 1, n)[i] = [write |-> q, place |-> i]
    <3>1. Bytes(q, n)[i] = [write |-> q, place |-> i]
      <4>1. q \in Nat /\ n \in Nat
        BY <1>2
      <4> QED
        BY ONLY <4>1, <2>2, BytesType
    <3>2. SubSeq(Bytes(q, n), 1, n)[i] = Bytes(q, n)[i]
      BY <1>2
    <3> QED
      BY <3>1, <3>2
  <2> HIDE DEF b0, b1
  <2>3. Len(b1) = L + n /\ \A k \in 1 .. L : b1[k] = b0[k]
    BY <1>2, <1>3, <1>4, <2>1
  <2>4. ASSUME NEW k \in L + 1 .. L + n PROVE b1[k] = [write |-> q, place |-> k - L]
    <3>1. k - L \in 1 .. n
      BY <1>2, <1>3
    <3>2. b1[k] = SubSeq(Bytes(q, n), 1, n)[k - L]
      BY <1>2, <1>3, <1>4, <2>1
    <3> QED
      BY <2>2, <3>1, <3>2
  <2> QED
    BY <2>3, <2>4
<1>6. landed'[q] = n /\ \A x \in DOMAIN asked : x # q => landed'[x] = landed[x]
  BY <1>2 DEF Delivered, BaseInv, WritesInv
<1>7. UNCHANGED <<asked, content, got, wrong, service>>
  BY DEF Delivered, app
<1>8. buffer'["client"] = buffer["client"]
  BY <1>2 DEF Delivered, BaseInv, StateInv, Ends
<1>9. /\ \A k \in 1 .. L : /\ b0[k].write \in DOMAIN asked /\ landed[b0[k].write] # 0
                           /\ b0[k].write # q
                           /\ b0[k].place \in 1 .. n
                           /\ k = 1 => b0[k].place = 1
                           /\ b0[k].place < n =>
                                 k < L /\ b0[k + 1] = [write |-> b0[k].write, place |-> b0[k].place + 1]
                           /\ b0[k].place = n /\ k < L => b0[k + 1].place = 1
  BY <1>2 DEF PingpongInv, WholeInv
<1>10. OnceEachInv("server")
  BY DEF PingpongInv
<1>11. \A k \in 1 .. Len(b1) : k \in 1 .. L \/ (k \in L + 1 .. L + n /\ k \notin 1 .. L)
  BY <1>2, <1>3, <1>5
<1>12. ASSUME NEW k \in L + 1 .. L + n PROVE b1[k].write = q /\ b1[k].place = k - L
  <2>1. b1[k] = [write |-> q, place |-> k - L]
    BY <1>5
  <2> HIDE DEF b1, L
  <2> QED
    BY ONLY <2>1
<1> HIDE DEF b0, b1, L
<1>13. WholeInv("server")'
  <2> SUFFICES ASSUME NEW k \in 1 .. Len(b1)
               PROVE  /\ b1[k].write \in DOMAIN asked
                      /\ landed'[b1[k].write] # 0
                      /\ b1[k].place \in 1 .. PingSize
                      /\ k = 1 => b1[k].place = 1
                      /\ b1[k].place < PingSize =>
                            /\ k < Len(b1)
                            /\ b1[k + 1] = [write |-> b1[k].write, place |-> b1[k].place + 1]
                      /\ b1[k].place = PingSize /\ k < Len(b1) => b1[k + 1].place = 1
    BY <1>7 DEF WholeInv, b1
  <2>1. CASE k \in 1 .. L
    <3>1. b1[k] = b0[k]
      BY <1>5, <2>1
    <3>2. CASE k < L
      <4>1. k + 1 \in 1 .. L /\ k < Len(b1)
        BY <1>2, <1>3, <1>5, <2>1, <3>2
      <4>2. b1[k + 1] = b0[k + 1]
        BY <1>5, <4>1
      <4> QED
        BY <1>2, <1>6, <1>9, <2>1, <3>1, <3>2, <4>1, <4>2
    <3>3. CASE k = L
      <4>1. k + 1 \in L + 1 .. L + n /\ (k + 1) - L = 1
        BY <1>2, <1>3, <3>3
      <4>2. b1[k + 1].place = 1
        BY <1>12, <4>1
      <4>3. ~(b0[k].place < n)
        <5>1. b0[k].place < n => k < L
          BY <1>9, <2>1
        <5> QED
          BY ONLY <5>1, <3>3, <1>3
      <4> QED
        BY <1>2, <1>6, <1>9, <2>1, <3>1, <3>3, <4>2, <4>3
    <3> QED
      BY <1>3, <2>1, <3>2, <3>3
  <2>2. CASE k \in L + 1 .. L + n
    <3>1. b1[k].write = q /\ b1[k].place = k - L
      BY <1>12, <2>2
    <3>2. k - L \in 1 .. n /\ (k = 1 => k - L = 1)
      BY <1>2, <1>3, <2>2
    <3>3. ASSUME k - L < n
          PROVE  k < Len(b1) /\ b1[k + 1] = [write |-> q, place |-> (k - L) + 1]
      <4>1. k + 1 \in L + 1 .. L + n /\ (k + 1) - L = (k - L) + 1 /\ k < L + n
        BY <1>2, <1>3, <2>2, <3>3
      <4> QED
        BY <1>5, <4>1
    <3>4. k - L = n => ~(k < Len(b1))
      BY <1>2, <1>3, <1>5, <2>2
    <3> QED
      BY <1>2, <1>6, <3>1, <3>2, <3>3, <3>4
  <2> QED
    BY <1>11, <2>1, <2>2
<1>14. OnceEachInv("server")'
  <2>1. ASSUME NEW k \in 1 .. Len(b1), NEW l \in 1 .. Len(b1), b1[k] = b1[l]
        PROVE  k = l
    <3>1. CASE k \in 1 .. L /\ l \in 1 .. L
      BY <1>5, <1>10, <2>1, <3>1 DEF OnceEachInv, b0, L
    <3>2. CASE k \in L + 1 .. L + n /\ l \in L + 1 .. L + n
      <4>1. k - L = l - L
        BY <1>12, <2>1, <3>2
      <4> QED
        BY <1>2, <1>3, <3>2, <4>1
    <3>3. /\ k \in 1 .. L => b1[k].write # q
          /\ l \in 1 .. L => b1[l].write # q
          /\ k \in L + 1 .. L + n => b1[k].write = q
          /\ l \in L + 1 .. L + n => b1[l].write = q
      BY <1>5, <1>9, <1>12
    <3> QED
      BY <1>11, <2>1, <3>1, <3>2, <3>3
  <2>2. ASSUME NEW i \in 1 .. Len(g)
        PROVE  \E r \in DOMAIN asked : /\ landed'[r] # 0
                                       /\ g[i] = content[r].data
                                       /\ \A k \in 1 .. Len(b1) : b1[k].write # r
    <3>1. PICK r \in DOMAIN asked : /\ landed[r] # 0
                                    /\ g[i] = content[r].data
                                    /\ \A k \in 1 .. L : b0[k].write # r
      BY <1>10 DEF OnceEachInv, b0, L
    <3>2. r # q /\ landed'[r] # 0
      BY <1>2, <1>6, <3>1
    <3>3. \A k \in 1 .. Len(b1) : b1[k].write # r
      BY <1>5, <1>11, <1>12, <3>1, <3>2
    <3> QED
      BY <3>1, <3>2, <3>3
  <2>3. \A i, j \in 1 .. Len(g) : g[i] = g[j] => i = j
    BY <1>10 DEF OnceEachInv
  <2> QED
    BY <1>7, <2>1, <2>2, <2>3 DEF OnceEachInv, b1
<1>15. ASSUME service = "one path" PROVE OrderInv("server")'
  <2>1. /\ \A x, y \in DOMAIN asked : y < x /\ landed[x] # 0 => landed[y] # 0
        /\ \A k, l \in 1 .. L : k < l => b0[k].write <= b0[l].write
        /\ \A i \in 1 .. Len(g) : i \in DOMAIN asked /\ g[i] = content[i].data
        /\ \A x \in DOMAIN asked :
              landed[x] # 0 => x <= Len(g) \/ \E k \in 1 .. L : b0[k].write = x
    <3>1. OrderInv("server")
      BY <1>15 DEF PingpongInv
    <3> QED
      BY ONLY <3>1 DEF OrderInv, b0, L
  <2>2. ASSUME NEW y \in DOMAIN asked, y < q PROVE landed[y] # 0
    <3>1. asked[y] = asked[q] /\ service # "paths"
      BY <1>2, <1>15 DEF PingpongInv
    <3>2. landed[y] = Len(content[y].data)
      BY <2>2, <3>1 DEF Delivered
    <3>3. Len(content[y].data) = PingSize /\ PingSize # 0
      BY <1>1 DEF Pings
    <3> QED
      BY ONLY <3>2, <3>3
  <2>3. \A x, y \in DOMAIN asked : y < x /\ landed'[x] # 0 => landed'[y] # 0
    BY <1>2, <1>6, <2>1, <2>2
  <2>4. ASSUME NEW k \in 1 .. L PROVE b0[k].write <= q
    <3>1. b0[k].write \in DOMAIN asked /\ landed[b0[k].write] # 0 /\ b0[k].write \in Nat
      BY <1>1, <1>9 DEF Pings
    <3>2. ~(q < b0[k].write)
      BY <1>2, <2>1, <3>1
    <3> QED
      BY <1>2, <3>1, <3>2
  <2>5. ASSUME NEW k \in 1 .. Len(b1), NEW l \in 1 .. Len(b1), k < l
        PROVE  b1[k].write <= b1[l].write
    <3>1. CASE l \in 1 .. L
      <4>1. k \in 1 .. L
        BY <1>3, <2>5, <3>1
      <4> QED
        BY <1>5, <2>1, <2>5, <3>1, <4>1
    <3>2. CASE l \in L + 1 .. L + n
      BY <1>2, <1>5, <1>11, <1>12, <2>4, <3>2
    <3> QED
      BY <1>11, <3>1, <3>2
  <2>6. ASSUME NEW x \in DOMAIN asked, landed'[x] # 0
        PROVE  x <= Len(g) \/ \E k \in 1 .. Len(b1) : b1[k].write = x
    <3>1. CASE x = q
      <4>1. L + 1 \in L + 1 .. L + n /\ L + 1 \in 1 .. Len(b1)
        BY <1>2, <1>3, <1>5
      <4> QED
        BY <1>12, <3>1, <4>1
    <3>2. CASE x # q
      <4>1. \A k \in 1 .. L : k \in 1 .. Len(b1)
        BY <1>2, <1>3, <1>5
      <4> QED
        BY <1>5, <1>6, <2>1, <2>6, <3>2, <4>1
    <3> QED
      BY <3>1, <3>2
  <2> QED
    BY <1>7, <2>1, <2>3, <2>5, <2>6 DEF OrderInv, b1
<1> QED
  BY <1>7, <1>8, <1>13, <1>14, <1>15 DEF PingpongInv

\* If there is anything to read, there is a whole ping first.
LEMMA FirstPing ==
    ASSUME Pings, WholeInv("server"), buffer["server"] # <<>>
    PROVE  \E w \in DOMAIN asked :
              /\ landed[w] # 0
              /\ PingSize <= Len(buffer["server"])
              /\ \A j \in 1 .. PingSize : buffer["server"][j] = [write |-> w, place |-> j]
              /\ SubSeq(buffer["server"], 1, PingSize) = content[w].data
<1> DEFINE b == buffer["server"]
           L == Len(b)
<1>1. b \in Seq(Byte) /\ L \in Nat /\ b # <<>> /\ PingSize \in Nat \ {0}
  BY DEF Pings
<1>2. 1 \in 1 .. L
  BY <1>1
<1>3. \A k \in 1 .. L : /\ b[k].write \in DOMAIN asked /\ landed[b[k].write] # 0
                        /\ k = 1 => b[k].place = 1
                        /\ b[k].place < PingSize =>
                              k < L /\ b[k + 1] = [write |-> b[k].write, place |-> b[k].place + 1]
  BY DEF WholeInv
<1>4. PICK w \in DOMAIN asked : w = b[1].write /\ landed[w] # 0
  BY <1>2, <1>3
<1>5. b[1] = [write |-> w, place |-> 1]
  <2>1. b[1] \in Byte /\ b[1].place = 1
    <3>1. b[1] \in Byte
      BY ONLY <1>1, <1>2
    <3> QED
      BY <1>2, <1>3, <3>1
  <2> HIDE DEF b, L
  <2> QED
    BY <1>4, <2>1 DEF Byte
<1> DEFINE whole == {j \in 0 .. PingSize : j = 0 \/ (j <= L /\ b[j] = [write |-> w, place |-> j])}
<1> HIDE DEF b, L
<1>6. 0 \in whole
  BY <1>1
<1>7. ASSUME NEW i \in 1 .. PingSize, i - 1 \in whole PROVE i \in whole
  <2>1. CASE i = 1
    BY <1>1, <1>2, <1>5, <2>1
  <2>2. CASE i # 1
    <3> DEFINE h == i - 1
    <3>1. h \in 1 .. L /\ b[h] = [write |-> w, place |-> h] /\ h < PingSize /\ h + 1 = i
      BY <1>1, <1>7, <2>2
    <3> HIDE DEF h, whole
    <3>2. b[h].write = w /\ b[h].place = h
      BY ONLY <3>1
    <3>3. h < L /\ b[h + 1] = [write |-> b[h].write, place |-> b[h].place + 1]
      BY <1>3, <3>1, <3>2
    <3>4. i <= L /\ b[i] = [write |-> w, place |-> i]
      BY <1>1, <3>1, <3>2, <3>3
    <3> QED
      BY <1>1, <3>4 DEF whole
  <2> QED
    BY <2>1, <2>2
<1>8. 0 .. PingSize \subseteq whole
  <2> HIDE DEF whole
  <2> QED
    BY <1>1, <1>6, <1>7, Induction
<1>9. /\ PingSize <= L
      /\ \A j \in 1 .. PingSize : b[j] = [write |-> w, place |-> j]
  <2>1. ASSUME NEW j \in 1 .. PingSize
        PROVE  j <= L /\ b[j] = [write |-> w, place |-> j]
    <3>1. j \in 0 .. PingSize /\ j # 0
      BY <1>1
    <3> QED
      BY ONLY <3>1, <1>8 DEF whole
  <2>2. PingSize \in 1 .. PingSize
    BY <1>1
  <2> QED
    BY <2>1, <2>2
<1>10. SubSeq(b, 1, PingSize) = content[w].data
  <2>1. w \in Nat /\ content[w].data = Bytes(w, PingSize)
    BY DEF Pings
  <2>2. \A j \in 1 .. PingSize : Bytes(w, PingSize)[j] = [write |-> w, place |-> j]
    BY <1>1, <2>1, BytesType
  <2>3. Bytes(w, PingSize) \in Seq(Byte) /\ Len(Bytes(w, PingSize)) = PingSize
    BY <1>1, <2>1, BytesType
  <2>4. SubSeq(b, 1, PingSize) \in Seq(Byte) /\ Len(SubSeq(b, 1, PingSize)) = PingSize
        /\ \A j \in 1 .. PingSize : SubSeq(b, 1, PingSize)[j] = b[j]
    BY ONLY <1>1, <1>9 DEF L
  <2>5. \A j \in 1 .. PingSize : SubSeq(b, 1, PingSize)[j] = Bytes(w, PingSize)[j]
    BY ONLY <1>9, <2>2, <2>4
  <2> QED
    BY ONLY <2>1, <2>3, <2>4, <2>5, SeqEqual
<1> QED
  BY <1>4, <1>9, <1>10 DEF b, L

LEMMA PingRead ==
    ASSUME BaseInv, PingInv, NEW e \in Ends, ReadHeader(e) \/ ReadBody(e) \/ ReadPing(e)
    PROVE  PingInv'
<1>1. UNCHANGED <<program, service, asked, content, landed>>
  BY ReadHeaderStep, ReadBodyStep, ReadPingStep DEF ReadStep
<1> SUFFICES ASSUME program = pingpong, PingpongInv PROVE PingpongInv'
  BY <1>1 DEF PingInv
<1> DEFINE b0 == buffer["server"]
           L  == Len(b0)
           b1 == buffer'["server"]
           g0 == got["server"]
           g1 == got'["server"]
           G  == Len(g0)
           P  == PingSize
<1>2. e = "server" /\ ReadPing(e)
  BY PingpongCalls DEF ReadHeader, ReadBody, ReadPing, Makes, Running, Ends
<1>3. Pings /\ StateInv
  BY PingFacts DEF BaseInv
<1>4. b0 \in Seq(Byte) /\ L \in Nat /\ P \in Nat \ {0} /\ g0 \in Seq(Seq(Byte)) /\ G \in Nat
  BY <1>3 DEF Pings
<1>5. PICK m \in Nat : /\ m = IF P > L THEN L ELSE P
                       /\ Read("server", P) = SubSeq(b0, 1, m)
                       /\ Len(Read("server", P)) = m
  BY <1>3, <1>4, ReadIs DEF Ends
<1>6. /\ Read("server", P) # <<>>
      /\ buffer' = [buffer EXCEPT !["server"] = SubSeq(b0, Len(Read("server", P)) + 1, L)]
  BY <1>2, <1>3, <1>4, ConsumeDoes DEF ReadPing
<1>7. b0 # <<>>
  BY <1>4, <1>5, <1>6
<1>8. PICK w \in DOMAIN asked : /\ landed[w] # 0
                                /\ P <= L
                                /\ \A j \in 1 .. P : b0[j] = [write |-> w, place |-> j]
                                /\ SubSeq(b0, 1, P) = content[w].data
  BY <1>3, <1>7, FirstPing DEF PingpongInv
<1>9. m = P /\ Read("server", P) = content[w].data
  <2>1. m = P
    <3> HIDE DEF L, P
    <3> QED
      BY ONLY <1>4, <1>5, <1>8
  <2> QED
    BY ONLY <2>1, <1>5, <1>8
<1>10. /\ b1 = SubSeq(b0, P + 1, L) /\ buffer'["client"] = buffer["client"]
  BY <1>5, <1>6, <1>9 DEF BaseInv, StateInv, Ends
<1>11. /\ Len(b1) = L - P
       /\ \A k \in 1 .. Len(b1) : b1[k] = b0[k + P] /\ k + P \in P + 1 .. L
  <2> HIDE DEF b0, b1, L, P
  <2> QED
    BY <1>4, <1>8, <1>10 DEF L
<1>12. g1 = Append(g0, content[w].data) /\ got'["client"] = got["client"] /\ wrong' = wrong
  BY <1>2, <1>9 DEF BaseInv, StateInv, Ends, ReadPing, BodyDone
<1>13. /\ Len(g1) = G + 1
       /\ \A i \in 1 .. G : g1[i] = g0[i]
       /\ g1[G + 1] = content[w].data
  <2>1. content[w].data \in Seq(Byte)
    BY <1>3 DEF Pings
  <2> HIDE DEF g0, g1
  <2> QED
    BY <1>4, <1>12, <2>1
<1>14. \A k \in 1 .. L : /\ b0[k].write \in DOMAIN asked /\ landed[b0[k].write] # 0
                         /\ b0[k].place \in 1 .. P
                         /\ k = 1 => b0[k].place = 1
                         /\ b0[k].place < P =>
                               k < L /\ b0[k + 1] = [write |-> b0[k].write, place |-> b0[k].place + 1]
                         /\ b0[k].place = P /\ k < L => b0[k + 1].place = 1
  BY DEF PingpongInv, WholeInv
<1>15. /\ \A k, l \in 1 .. L : b0[k] = b0[l] => k = l
       /\ \A i \in 1 .. G : \E q \in DOMAIN asked : /\ landed[q] # 0
                                                    /\ g0[i] = content[q].data
                                                    /\ \A k \in 1 .. L : b0[k].write # q
       /\ \A i, j \in 1 .. G : g0[i] = g0[j] => i = j
  BY DEF PingpongInv, OnceEachInv
<1>16. \A k \in 1 .. L : b0[k] \in Byte
  BY <1>4
<1>17. \A q, r \in DOMAIN asked : content[q].data = content[r].data => q = r
  BY <1>3, BytesDiffer DEF Pings
<1>18. \A i \in 1 .. Len(g1) : i \in 1 .. G \/ i = G + 1
  BY <1>4, <1>13
<1> HIDE DEF b0, L, b1, g0, g1, G, P
\* The place after the first ping.
<1>19. P \in 1 .. L /\ b0[P].write = w /\ b0[P].place = P
  <2>1. P \in 1 .. P /\ P \in 1 .. L
    BY <1>4, <1>8
  <2>2. b0[P] = [write |-> w, place |-> P]
    BY <1>8, <2>1
  <2> QED
    BY ONLY <2>1, <2>2
\* Nothing is left of the ping.
<1>20. ASSUME NEW k \in 1 .. Len(b1) PROVE b1[k].write # w
  <2> SUFFICES ASSUME b1[k].write = w PROVE FALSE
    OBVIOUS
  <2>1. k + P \in 1 .. L /\ k + P > P /\ b1[k] = b0[k + P]
    BY <1>4, <1>11
  <2>2. PICK p : p = b0[k + P].place
    OBVIOUS
  <2>3. p \in 1 .. P /\ b0[k + P] = [write |-> w, place |-> p]
    BY <1>14, <1>16, <2>1, <2>2 DEF Byte
  <2>4. b0[p] = b0[k + P] /\ p \in 1 .. L
    BY <1>4, <1>8, <2>3
  <2>5. p = k + P
    BY <1>15, <2>1, <2>4
  <2> QED
    BY <1>4, <2>1, <2>3, <2>5
<1>21. WholeInv("server")'
  <2> SUFFICES ASSUME NEW k \in 1 .. Len(b1)
               PROVE  /\ b1[k].write \in DOMAIN asked
                      /\ landed[b1[k].write] # 0
                      /\ b1[k].place \in 1 .. P
                      /\ k = 1 => b1[k].place = 1
                      /\ b1[k].place < P =>
                            /\ k < Len(b1)
                            /\ b1[k + 1] = [write |-> b1[k].write, place |-> b1[k].place + 1]
                      /\ b1[k].place = P /\ k < Len(b1) => b1[k + 1].place = 1
    BY <1>1 DEF WholeInv, b1, P
  <2>1. k + P \in 1 .. L /\ b1[k] = b0[k + P]
    BY <1>4, <1>11
  <2>2. k < Len(b1) <=> k + P < L
    BY <1>4, <1>11
  <2>3. k < Len(b1) => b1[k + 1] = b0[(k + P) + 1]
    <3> SUFFICES ASSUME k < Len(b1) PROVE b1[k + 1] = b0[(k + P) + 1]
      OBVIOUS
    <3>1. k + 1 \in 1 .. Len(b1) /\ (k + 1) + P = (k + P) + 1
      BY <1>4, <1>11
    <3> QED
      BY <1>11, <3>1
  <2>4. k = 1 => b1[k].place = 1
    <3> SUFFICES ASSUME k = 1 PROVE b1[1].place = 1
      OBVIOUS
    <3>1. 1 + P = P + 1 /\ P < L
      BY <1>4, <1>11, <2>1
    <3> QED
      BY <1>14, <1>19, <2>1, <3>1
  <2> QED
    BY <1>14, <2>1, <2>2, <2>3, <2>4
<1>22. OnceEachInv("server")'
  <2>1. ASSUME NEW k \in 1 .. Len(b1), NEW l \in 1 .. Len(b1), b1[k] = b1[l]
        PROVE  k = l
    <3>1. k + P \in 1 .. L /\ l + P \in 1 .. L /\ b0[k + P] = b0[l + P]
      BY <1>4, <1>11, <2>1
    <3>2. k + P = l + P
      BY <1>15, <3>1
    <3> QED
      BY <1>4, <3>2
  <2>2. ASSUME NEW i \in 1 .. G
        PROVE  \E q \in DOMAIN asked : /\ landed[q] # 0 /\ q # w
                                       /\ g0[i] = content[q].data
                                       /\ \A k \in 1 .. Len(b1) : b1[k].write # q
    <3>1. PICK q \in DOMAIN asked : /\ landed[q] # 0
                                    /\ g0[i] = content[q].data
                                    /\ \A k \in 1 .. L : b0[k].write # q
      BY <1>15
    <3>2. q # w
      BY <1>19, <3>1
    <3>3. \A k \in 1 .. Len(b1) : b1[k].write # q
      <4>1. \A k \in 1 .. Len(b1) : k + P \in 1 .. L /\ b1[k] = b0[k + P]
        BY <1>4, <1>11
      <4> QED
        BY <3>1, <4>1
    <3> QED
      BY <3>1, <3>2, <3>3
  <2>3. ASSUME NEW i \in 1 .. Len(g1)
        PROVE  \E q \in DOMAIN asked : /\ landed[q] # 0
                                       /\ g1[i] = content[q].data
                                       /\ \A k \in 1 .. Len(b1) : b1[k].write # q
    <3>1. CASE i \in 1 .. G
      BY <1>13, <2>2, <3>1
    <3>2. CASE i = G + 1
      BY <1>8, <1>13, <1>20, <3>2
    <3> QED
      BY <1>18, <3>1, <3>2
  <2>4. \A i \in 1 .. G : g1[i] # content[w].data
    BY <1>13, <1>17, <2>2
  <2>5. ASSUME NEW i \in 1 .. Len(g1), NEW j \in 1 .. Len(g1), g1[i] = g1[j]
        PROVE  i = j
    <3>1. CASE i \in 1 .. G /\ j \in 1 .. G
      BY <1>13, <1>15, <2>5, <3>1
    <3>2. CASE i = G + 1 \/ j = G + 1
      BY <1>13, <1>18, <2>4, <2>5, <3>2
    <3> QED
      BY <1>18, <3>1, <3>2
  <2> QED
    BY <1>1, <2>1, <2>3, <2>5 DEF OnceEachInv, b1, g1
<1>23. ASSUME service = "one path" PROVE OrderInv("server")'
  <2>1. /\ \A x, y \in DOMAIN asked : y < x /\ landed[x] # 0 => landed[y] # 0
        /\ \A k, l \in 1 .. L : k < l => b0[k].write <= b0[l].write
        /\ \A i \in 1 .. G : i \in DOMAIN asked /\ g0[i] = content[i].data
        /\ \A x \in DOMAIN asked :
              landed[x] # 0 => x <= G \/ \E k \in 1 .. L : b0[k].write = x
    BY <1>23 DEF PingpongInv, OrderInv, b0, L, g0, G
  <2>2. /\ w \in Nat \ {0}
        /\ \A x \in DOMAIN asked : x \in Nat \ {0}
        /\ \A x \in 1 .. w : x \in DOMAIN asked
    BY <1>3 DEF Pings
  <2>3. 1 \in 1 .. L /\ b0[1].write = w
    <3>1. 1 \in 1 .. P /\ 1 \in 1 .. L
      BY <1>4, <1>8
    <3>2. b0[1] = [write |-> w, place |-> 1]
      BY <1>8, <3>1
    <3> QED
      BY ONLY <3>1, <3>2
  \* The ping is the one that is due.
  <2>4. w = G + 1
    <3>1. ~(w <= G)
      <4> SUFFICES ASSUME w <= G PROVE FALSE
        OBVIOUS
      <4>1. w \in 1 .. G
        BY <1>4, <2>2
      <4>2. g0[w] = content[w].data
        BY <2>1, <4>1
      <4>3. PICK q \in DOMAIN asked : g0[w] = content[q].data /\ \A k \in 1 .. L : b0[k].write # q
        BY <1>15, <4>1
      <4> QED
        BY <1>17, <2>3, <4>2, <4>3
    <3>2. ~(w > G + 1)
      <4> SUFFICES ASSUME w > G + 1 PROVE FALSE
        OBVIOUS
      <4>1. G + 1 \in DOMAIN asked /\ G + 1 < w
        BY <1>4, <2>2
      <4>2. landed[G + 1] # 0 /\ ~(G + 1 <= G)
        BY <1>4, <1>8, <2>1, <4>1
      <4>3. PICK k \in 1 .. L : b0[k].write = G + 1
        BY <2>1, <4>1, <4>2
      <4>4. k = 1 \/ 1 < k
        OBVIOUS
      <4>5. w <= b0[k].write
        BY <2>1, <2>2, <2>3, <4>4
      <4> QED
        BY <1>4, <2>2, <4>1, <4>3, <4>5
    <3> QED
      BY <1>4, <2>2, <3>1, <3>2
  <2>5. ASSUME NEW k \in 1 .. Len(b1), NEW l \in 1 .. Len(b1), k < l
        PROVE  b1[k].write <= b1[l].write
    <3>1. k + P \in 1 .. L /\ l + P \in 1 .. L /\ k + P < l + P
          /\ b1[k] = b0[k + P] /\ b1[l] = b0[l + P]
      BY <1>4, <1>11, <2>5
    <3> QED
      BY <2>1, <3>1
  <2>6. ASSUME NEW i \in 1 .. Len(g1)
        PROVE  i \in DOMAIN asked /\ g1[i] = content[i].data
    BY <1>13, <1>18, <2>1, <2>4
  <2>7. ASSUME NEW x \in DOMAIN asked, landed[x] # 0
        PROVE  x <= Len(g1) \/ \E k \in 1 .. Len(b1) : b1[k].write = x
    <3>1. CASE x <= G
      BY <1>4, <1>13, <2>2, <3>1
    <3>2. CASE \E k \in 1 .. L : b0[k].write = x
      <4>1. PICK k \in 1 .. L : b0[k].write = x
        BY <3>2
      <4>2. CASE k <= P
        <5>1. k \in 1 .. P
          BY <1>4, <4>2
        <5>2. b0[k] = [write |-> w, place |-> k]
          BY <1>8, <5>1
        <5>3. b0[k].write = w
          BY ONLY <5>2
        <5> QED
          BY <1>4, <1>13, <2>4, <4>1, <5>3
      <4>3. CASE k > P
        <5>1. k - P \in 1 .. Len(b1) /\ (k - P) + P = k
          BY <1>4, <1>11, <4>3
        <5>2. b1[k - P].write = x
          BY <1>11, <4>1, <5>1
        <5> QED
          BY <5>1, <5>2
      <4> QED
        BY <1>4, <4>2, <4>3
    <3> QED
      BY <2>1, <2>7, <3>1, <3>2
  <2> QED
    BY <1>1, <2>1, <2>5, <2>6, <2>7 DEF OrderInv, b1, g1
<1> QED
  BY <1>1, <1>10, <1>12, <1>21, <1>22, <1>23 DEF PingpongInv

LEMMA PingStep ==
    ASSUME BaseInv, PingInv, [Next]_vars
    PROVE  PingInv'
<1>1. CASE Next
  <2>1. ASSUME NEW e \in Ends, Returned(e) PROVE PingInv'
    BY <2>1, PingKeep DEF Returned
  <2>2. ASSUME NEW e \in Ends, Exit(e) PROVE PingInv'
    BY <2>2, PingKeep DEF Exit, net, app
  <2> QED
    BY <1>1, <2>1, <2>2, StepCases, PingWrite, PingRead, PingDeliver
<1>2. CASE UNCHANGED vars
  BY <1>2, PingKeep DEF vars, app, net
<1> QED
  BY <1>1, <1>2

-----------------------------------------------------------------------------
(* The files. *)

\* What the Writes are of a program that transfers files.
Pieces ==
    /\ Header \in Nat \ {0}
    /\ \A e \in Ends : size[e] \in Nat
    /\ \A q \in DOMAIN asked : /\ q \in Nat \ {0}
                               /\ asked[q] \in Ends
                               /\ content[q].call \in {"writeHeader", "writeBody"}
                               /\ content[q].data \in Seq(Byte)
                               /\ landed[q] \in Nat
                               /\ landed[q] <= Len(content[q].data)
                               /\ content[q].call = "writeHeader" => Len(content[q].data) = Header
                               /\ content[q].call = "writeBody" =>
                                     Len(content[q].data) = size[asked[q]]

LEMMA FileFacts ==
    ASSUME BaseInv, program \in Ending
    PROVE  Pieces
<1>1. Header \in Nat \ {0}
  BY ExamplesAssumption
<1>2. \A e \in Ends : size[e] \in Nat
  BY DEF BaseInv, StateInv
<1>3. \E n \in Nat : DOMAIN asked = 1 .. n
  BY WritesNumbered DEF BaseInv
<1>4. ASSUME NEW q \in DOMAIN asked
      PROVE  /\ q \in Nat \ {0}
             /\ asked[q] \in Ends
             /\ content[q].call \in {"writeHeader", "writeBody"}
             /\ content[q].data \in Seq(Byte)
             /\ landed[q] \in Nat
             /\ landed[q] <= Len(content[q].data)
             /\ content[q].call = "writeHeader" => Len(content[q].data) = Header
             /\ content[q].call = "writeBody" => Len(content[q].data) = size[asked[q]]
  <2>1. /\ asked[q] \in Ends /\ content[q].call \in WriteCalls /\ q \in Nat \ {0}
        /\ content[q].data \in Seq(Byte) /\ landed[q] \in Nat
    BY <1>3, CallsFacts
  <2>2. PICK j \in DOMAIN program[asked[q]] : program[asked[q]][j] = content[q].call
    BY DEF BaseInv, CallsInv, MadeAt
  <2>3. content[q].call \in {"writeHeader", "writeBody"}
    <3>1. program[asked[q]][j] \in {"writeHeader", "writeBody", "readHeader", "readBody"}
      BY <2>1, <2>2, FileCalls
    <3> QED
      BY ONLY <2>1, <2>2, <3>1 DEF WriteCalls
  <2>4. content[q].data = Payload(asked[q], content[q].call, q)
        /\ landed[q] <= Len(content[q].data)
    BY DEF BaseInv, WritesInv
  <2>5. CASE content[q].call = "writeHeader"
    <3>1. content[q].data = Bytes(q, Header)
      BY <2>1, <2>4, <2>5, PayloadType DEF BaseInv
    <3> QED
      BY <1>1, <2>1, <2>4, <2>5, <3>1, BytesType
  <2>6. CASE content[q].call = "writeBody"
    <3>1. content[q].data = Bytes(q, size[asked[q]])
      BY <2>1, <2>4, <2>6, PayloadType DEF BaseInv
    <3> QED
      <4>1. size[asked[q]] \in Nat
        BY <1>2, <2>1
      <4>2. Len(content[q].data) = size[asked[q]]
        <5>1. q \in Nat
          BY <2>1
        <5>2. PICK n \in Nat : n = size[asked[q]]
          BY ONLY <4>1
        <5>3. Len(Bytes(q, n)) = n
          BY ONLY <5>1, BytesType
        <5> QED
          BY ONLY <3>1, <5>2, <5>3
      <4> QED
        BY ONLY <2>1, <2>4, <2>6, <4>2
  <2> QED
    BY <2>3, <2>5, <2>6
<1> QED
  BY <1>1, <1>2, <1>4 DEF Pieces

LEMMA OnceWrite ==
    ASSUME BaseInv, OnceInv, program \in Ending,
           NEW e \in Ends, NEW call \in WriteCalls, NEW q \in Nat \ {0}, Wrote(e, call, q)
    PROVE  OnceInv'
<1>1. /\ at[e] \in DOMAIN program[e] /\ program[e][at[e]] = call /\ calling[e] = 0
      /\ \A x \in DOMAIN asked' : x = q \/ x \in DOMAIN asked
      /\ \A x \in DOMAIN asked : /\ x \in DOMAIN asked' /\ asked'[x] = asked[x]
                                 /\ content'[x] = content[x] /\ x < q /\ x # 0
      /\ asked'[q] = e /\ content'[q].call = call
  BY DEF Wrote
<1>2. at[e] \in Nat /\ DOMAIN program[e] \subseteq Nat
  BY CallsFacts
<1>3. ASSUME NEW r \in DOMAIN asked, asked[r] = e, content[r].call = call
      PROVE  FALSE
  <2>1. PICK j \in DOMAIN program[e] : MadeAt(r, j)
    BY <1>3 DEF BaseInv, CallsInv
  <2>2. program[e][j] = call /\ (j < at[e] \/ (j = at[e] /\ calling[e] = r))
    BY <1>3, <2>1 DEF MadeAt
  <2>3. j = at[e]
    BY <1>1, <2>2, FileCalls
  <2> QED
    BY <1>1, <1>2, <2>2, <2>3
<1>4. ASSUME NEW x \in DOMAIN asked', NEW y \in DOMAIN asked',
             asked'[x] = asked'[y], content'[x].call = content'[y].call
      PROVE  x = y
  BY <1>1, <1>3, <1>4 DEF OnceInv
<1>5. ASSUME NEW b \in DOMAIN asked', content'[b].call = "writeBody"
      PROVE  \E h \in DOMAIN asked' : h < b /\ Is(h, asked[b], "writeHeader")'
  <2>1. CASE b = q
    <3>1. at[e] - 1 \in DOMAIN program[e] /\ program[e][at[e] - 1] = "writeHeader"
      BY <1>1, <1>5, <2>1, FileCalls
    <3>2. at[e] - 1 < at[e] /\ "writeHeader" \in WriteCalls
      BY <1>2 DEF WriteCalls
    <3>3. PICK h \in DOMAIN asked : asked[h] = e /\ content[h].call = "writeHeader"
      BY <3>1, <3>2 DEF BaseInv, CallsInv
    <3> QED
      BY <1>1, <2>1, <3>3 DEF Is
  <2>2. CASE b \in DOMAIN asked
    <3>1. PICK h \in DOMAIN asked : h < b /\ Is(h, asked[b], "writeHeader")
      BY <1>1, <1>5, <2>2 DEF OnceInv
    <3> QED
      BY <1>1, <2>2, <3>1 DEF Is
  <2> QED
    BY <1>1, <2>1, <2>2
<1> QED
  BY <1>4, <1>5 DEF OnceInv

\* Making call at[e] adds it to those that e has got past.
LEMMA PastGrows ==
    ASSUME BaseInv, NEW e \in Ends, program' = program, at'[e] = at[e] + 1,
           at[e] \in DOMAIN program[e], NEW c
    PROVE  Past(e, c)' <=> (Past(e, c) \/ program[e][at[e]] = c)
<1>1. at[e] \in Nat /\ \A j \in DOMAIN program[e] : j \in Nat
  BY CallsFacts
<1>2. \A j \in DOMAIN program[e] : j < at'[e] <=> (j < at[e] \/ j = at[e])
  BY <1>1
<1> QED
  BY <1>2 DEF Past

\* Where e is in its program, when it reads.
LEMMA WhereReads ==
    ASSUME BaseInv, program \in Ending, NEW e \in Ends, at[e] \in DOMAIN program[e]
    PROVE  /\ program[e][at[e]] = "readHeader" => ~Past(e, "readHeader") /\ ~Past(e, "readBody")
           /\ program[e][at[e]] = "readBody" => Past(e, "readHeader") /\ ~Past(e, "readBody")
<1>1. at[e] \in Nat /\ \A j \in DOMAIN program[e] : j \in Nat
  BY CallsFacts
<1>2. ASSUME NEW j \in DOMAIN program[e], j < at[e] PROVE program[e][j] # program[e][at[e]]
  BY <1>1, <1>2, FileCalls
<1>3. ASSUME program[e][at[e]] = "readHeader", NEW j \in DOMAIN program[e], j < at[e]
      PROVE  program[e][j] # "readBody"
  <2> SUFFICES ASSUME program[e][j] = "readBody" PROVE FALSE
    OBVIOUS
  <2>1. j - 1 \in DOMAIN program[e] /\ program[e][j - 1] = "readHeader"
    BY FileCalls
  <2> QED
    BY <1>1, <1>2, <1>3, <2>1
<1>4. ASSUME program[e][at[e]] = "readBody" PROVE Past(e, "readHeader")
  <2>1. at[e] - 1 \in DOMAIN program[e] /\ program[e][at[e] - 1] = "readHeader"
    BY <1>4, FileCalls
  <2> QED
    BY <1>1, <2>1 DEF Past
<1> QED
  BY <1>2, <1>3, <1>4 DEF Past

\* A step that is not about e leaves e where it is.
LEMMA StageKeep ==
    ASSUME NEW e \in Ends, StageInv(e), size' = size,
           Past(e, "readHeader")' <=> Past(e, "readHeader"),
           Past(e, "readBody")' <=> Past(e, "readBody"),
           part'[e] = part[e], need'[e] = need[e], buffer'[e] = buffer[e], got'[e] = got[e],
           \A q \in DOMAIN asked : /\ q \in DOMAIN asked' /\ asked'[q] = asked[q]
                                   /\ content'[q] = content[q]
                                   /\ asked[q] = Peer(e) => landed'[q] = landed[q],
           \A q \in DOMAIN asked' : q \in DOMAIN asked \/ landed'[q] = 0
    PROVE  StageInv(e)'
<1>1. ASSUME NEW call, NEW d, HasArrived(Peer(e), call, d) PROVE HasArrived(Peer(e), call, d)'
  <2>1. CASE \E q \in DOMAIN asked : Is(q, Peer(e), call) /\ landed[q] # 0 /\ d = content[q].data
    BY <2>1 DEF HasArrived, Is
  <2>2. CASE d = <<>> /\ \A q \in DOMAIN asked : Is(q, Peer(e), call) => landed[q] = 0
    BY <2>2 DEF HasArrived, Is
  <2> QED
    BY <1>1, <2>1, <2>2 DEF HasArrived
<1>2. PICK header, body \in {<<>>} \cup {content[q].data : q \in DOMAIN asked} :
        /\ HasArrived(Peer(e), "writeHeader", header)
        /\ HasArrived(Peer(e), "writeBody", body)
        /\ Stage(e, header, body)
  BY DEF StageInv
<1>3. header \in {<<>>} \cup {content'[q].data : q \in DOMAIN asked'}
      /\ body \in {<<>>} \cup {content'[q].data : q \in DOMAIN asked'}
  BY <1>2
<1>4. Stage(e, header, body)'
  BY <1>2 DEF Stage
<1> QED
  BY <1>1, <1>2, <1>3, <1>4 DEF StageInv

LEMMA FileWrite ==
    ASSUME BaseInv, FileInv, NEW e \in Ends, NEW call \in WriteCalls, NEW q \in Nat \ {0},
           Wrote(e, call, q)
    PROVE  FileInv'
<1> SUFFICES ASSUME program \in Ending
             PROVE  /\ OnceInv'
                    /\ service = "one path" => \A f \in Ends : ~wrong'[f] /\ StageInv(f)'
  BY DEF FileInv, Wrote
<1>1. OnceInv'
  BY OnceWrite DEF FileInv
<1>2. ASSUME service = "one path", NEW f \in Ends PROVE ~wrong'[f] /\ StageInv(f)'
  <2>1. ~wrong[f] /\ StageInv(f)
    BY <1>2 DEF FileInv
  <2>2. Past(f, "readHeader")' <=> Past(f, "readHeader")
    BY DEF Past, Wrote
  <2>3. Past(f, "readBody")' <=> Past(f, "readBody")
    BY DEF Past, Wrote
  <2>4. /\ \A x \in DOMAIN asked : /\ x \in DOMAIN asked' /\ asked'[x] = asked[x]
                                   /\ content'[x] = content[x] /\ landed'[x] = landed[x]
        /\ \A x \in DOMAIN asked' : x \in DOMAIN asked \/ landed'[x] = 0
    BY DEF Wrote
  <2>5. size' = size /\ part' = part /\ need' = need /\ buffer' = buffer /\ got' = got
        /\ wrong' = wrong
    BY DEF Wrote
  <2> QED
    BY <2>1, <2>2, <2>3, <2>4, <2>5, StageKeep
<1> QED
  BY <1>1, <1>2

\* A step that writes nothing, reads nothing and delivers nothing.
LEMMA FileKeep ==
    ASSUME FileInv,
           UNCHANGED <<program, service, size, part, need, buffer, got, wrong, asked, content, landed>>,
           \A f \in Ends : /\ Past(f, "readHeader")' <=> Past(f, "readHeader")
                           /\ Past(f, "readBody")' <=> Past(f, "readBody")
    PROVE  FileInv'
<1>1. OnceInv => OnceInv'
  BY DEF OnceInv, Is
<1>2. ASSUME NEW f \in Ends, StageInv(f) PROVE StageInv(f)'
  BY <1>2, StageKeep
<1> QED
  BY <1>1, <1>2 DEF FileInv

LEMMA FileReturn ==
    ASSUME BaseInv, FileInv, NEW e \in Ends, Returned(e)
    PROVE  FileInv'
<1>1. at[e] \in DOMAIN program[e] /\ program[e][at[e]] \in WriteCalls
  BY CallsFacts DEF Returned
<1>2. program' = program /\ at'[e] = at[e] + 1 /\ \A f \in Ends : f # e => at'[f] = at[f]
  BY DEF Returned, BaseInv, StateInv
<1>3. ASSUME NEW f \in Ends, NEW c \in {"readHeader", "readBody"}
      PROVE  Past(f, c)' <=> Past(f, c)
  <2>1. CASE f = e
    BY <1>1, <1>2, <2>1, PastGrows DEF WriteCalls
  <2>2. CASE f # e
    BY <1>2, <2>2 DEF Past
  <2> QED
    BY <2>1, <2>2
<1>4. UNCHANGED <<program, service, size, part, need, buffer, got, wrong, asked, content, landed>>
  BY DEF Returned
<1> QED
  BY <1>3, <1>4, FileKeep

\* There is only one header of an end, and one body.
LEMMA ArrivedOnce ==
    ASSUME OnceInv, NEW f, NEW call, NEW d, HasArrived(f, call, d),
           NEW q \in DOMAIN asked, Is(q, f, call)
    PROVE  IF landed[q] = 0 THEN d = <<>> ELSE d = content[q].data
<1>1. \A r \in DOMAIN asked : Is(r, f, call) => r = q
  BY DEF OnceInv, Is
<1> QED
  BY <1>1 DEF HasArrived

LEMMA ArrivedSize ==
    ASSUME Pieces, NEW f \in Ends
    PROVE  /\ \A d : HasArrived(f, "writeHeader", d) =>
                        d \in Seq(Byte) /\ (d = <<>> \/ Len(d) = Header)
           /\ \A d : HasArrived(f, "writeBody", d) =>
                        d \in Seq(Byte) /\ (d = <<>> \/ Len(d) = size[f])
<1>1. ASSUME NEW d, HasArrived(f, "writeHeader", d)
      PROVE  d \in Seq(Byte) /\ (d = <<>> \/ Len(d) = Header)
  <2>1. CASE \E q \in DOMAIN asked : Is(q, f, "writeHeader") /\ d = content[q].data
    <3>1. PICK q \in DOMAIN asked : Is(q, f, "writeHeader") /\ d = content[q].data
      BY <2>1
    <3>2. content[q].data \in Seq(Byte) /\ Len(content[q].data) = Header
      BY <3>1 DEF Pieces, Is
    <3> QED
      BY ONLY <3>1, <3>2
  <2>2. CASE d = <<>>
    BY <2>2
  <2> QED
    BY <1>1, <2>1, <2>2 DEF HasArrived
<1>2. ASSUME NEW d, HasArrived(f, "writeBody", d)
      PROVE  d \in Seq(Byte) /\ (d = <<>> \/ Len(d) = size[f])
  <2>1. CASE \E q \in DOMAIN asked : Is(q, f, "writeBody") /\ d = content[q].data
    <3>1. PICK q \in DOMAIN asked : Is(q, f, "writeBody") /\ d = content[q].data
      BY <2>1
    <3>2. content[q].data \in Seq(Byte) /\ Len(content[q].data) = size[f]
      BY <3>1 DEF Pieces, Is
    <3> QED
      BY ONLY <3>1, <3>2
  <2>2. CASE d = <<>>
    BY <2>2
  <2> QED
    BY <1>2, <2>1, <2>2 DEF HasArrived
<1> QED
  BY <1>1, <1>2

LEMMA FileDeliver ==
    ASSUME BaseInv, FileInv, NEW q, NEW n \in Nat, Delivered(q, n)
    PROVE  FileInv'
<1> SUFFICES ASSUME program \in Ending
             PROVE  /\ OnceInv'
                    /\ service = "one path" => \A f \in Ends : ~wrong'[f] /\ StageInv(f)'
  BY DEF FileInv, Delivered
<1>1. OnceInv /\ Pieces
  BY FileFacts DEF FileInv
<1>2. OnceInv'
  BY <1>1 DEF OnceInv, Is, Delivered
<1>3. /\ q \in DOMAIN asked
      /\ UNCHANGED <<program, size, at, need, part, got, wrong, content, asked>>
  BY DEF Delivered, app
<1>4. \A f \in Ends : /\ Past(f, "readHeader")' <=> Past(f, "readHeader")
                      /\ Past(f, "readBody")' <=> Past(f, "readBody")
  BY <1>3 DEF Past
<1>5. PICK f \in Ends : f = asked[q]
  BY <1>1, <1>3 DEF Pieces
<1>6. PICK e \in Ends : e = Peer(f) /\ f = Peer(e) /\ e # f /\ Ends = {e, f}
  BY Peers
<1>7. ASSUME service = "one path" PROVE \A x \in Ends : ~wrong'[x] /\ StageInv(x)'
  <2>1. PICK data : data = content[q].data
    OBVIOUS
  <2>2. /\ landed[q] = 0 /\ n = Len(data) /\ n # 0
        /\ data \in Seq(Byte) /\ Len(data) \in Nat /\ data # <<>>
    <3>1. landed[q] = 0 /\ n = Len(data) /\ n \in 1 .. Len(data) - landed[q]
      BY <1>7, <2>1 DEF Delivered
    <3>2. data \in Seq(Byte)
      BY <1>1, <1>3, <2>1 DEF Pieces
    <3>3. n # 0 /\ Len(data) \in Nat
      BY ONLY <3>1, <3>2
    <3> QED
      BY ONLY <3>1, <3>2, <3>3
  <2>3. /\ buffer'[e] = buffer[e] \o data
        /\ buffer'[f] = buffer[f]
    <3>1. SubSeq(data, 1, Len(data)) = data
      BY ONLY <2>2
    <3>2. buffer' = [buffer EXCEPT ![Peer(asked[q])] =
                        buffer[Peer(asked[q])] \o SubSeq(content[q].data, landed[q] + 1, landed[q] + n)]
      BY DEF Delivered
    <3>3. 0 + 1 = 1 /\ 0 + n = n
      OBVIOUS
    <3>4. buffer' = [buffer EXCEPT ![e] = buffer[e] \o data]
      BY ONLY <1>5, <1>6, <2>1, <2>2, <3>1, <3>2, <3>3
    <3>5. e \in DOMAIN buffer /\ e # f
      BY <1>6 DEF BaseInv, StateInv
    <3> QED
      BY ONLY <3>4, <3>5
  <2>4. landed'[q] = n /\ \A r \in DOMAIN asked : r # q => landed'[r] = landed[r]
    BY <1>3, <2>2 DEF Delivered, BaseInv, WritesInv
  <2>5. \A x \in Ends : ~wrong'[x] /\ StageInv(x)
    BY <1>3, <1>7 DEF FileInv
  <2>6. StageInv(f)'
    <3>1. \A r \in DOMAIN asked : asked[r] = Peer(f) => landed'[r] = landed[r]
      BY <1>5, <1>6, <2>4
    <3> QED
      BY <1>3, <1>4, <2>3, <2>5, <3>1, StageKeep
  <2>7. PICK header, body \in {<<>>} \cup {content[r].data : r \in DOMAIN asked} :
          /\ HasArrived(f, "writeHeader", header)
          /\ HasArrived(f, "writeBody", body)
          /\ Stage(e, header, body)
    BY <1>6, <2>5 DEF StageInv
  <2>8. buffer[e] \in Seq(Byte) /\ size[f] \in Nat
    BY DEF BaseInv, StateInv
  \* What has arrived of the other Write of f is what it was.
  <2>9. ASSUME NEW call, NEW d, HasArrived(f, call, d), ~Is(q, f, call)
        PROVE  HasArrived(f, call, d)'
    <3>1. CASE \E r \in DOMAIN asked : Is(r, f, call) /\ landed[r] # 0 /\ d = content[r].data
      BY <1>3, <2>4, <2>9, <3>1 DEF HasArrived, Is
    <3>2. CASE d = <<>> /\ \A r \in DOMAIN asked : Is(r, f, call) => landed[r] = 0
      BY <1>3, <2>4, <2>9, <3>2 DEF HasArrived, Is
    <3> QED
      BY <2>9, <3>1, <3>2 DEF HasArrived
  <2>10. ASSUME NEW call, Is(q, f, call) PROVE HasArrived(f, call, data)'
    BY <1>3, <2>1, <2>2, <2>4, <2>10 DEF HasArrived, Is
  <2>11. data \in {<<>>} \cup {content[r].data : r \in DOMAIN asked}
    BY <1>3, <2>1
  <2>12. CASE content[q].call = "writeHeader"
    <3>1. Is(q, f, "writeHeader") /\ ~Is(q, f, "writeBody")
      BY <1>5, <2>12 DEF Is
    <3>2. header = <<>>
      BY <1>1, <1>3, <2>2, <2>7, <3>1, ArrivedOnce
    <3>3. body = <<>>
      BY <2>7, <3>2 DEF Stage
    <3>4. buffer'[e] = data \o <<>> /\ ~Past(e, "readHeader") /\ ~Past(e, "readBody")
      <4>1. ~Past(e, "readHeader") /\ ~Past(e, "readBody")
        BY <2>7, <3>2 DEF Stage
      <4>2. buffer[e] = <<>> \o <<>>
        BY <2>7, <3>2, <3>3, <4>1 DEF Stage
      <4>3. <<>> \o <<>> = <<>> /\ <<>> \o data = data \o <<>>
        BY <2>2
      <4> QED
        BY <2>3, <4>1, <4>2, <4>3
    <3>5. Stage(e, data, <<>>)'
      BY <1>3, <1>4, <2>7, <3>4 DEF Stage
    <3>6. HasArrived(f, "writeHeader", data)' /\ HasArrived(f, "writeBody", <<>>)'
      BY <2>7, <2>9, <2>10, <3>1, <3>3
    <3>7. StageInv(e)'
      BY <1>3, <1>6, <2>11, <3>5, <3>6 DEF StageInv
    <3> QED
      BY <1>6, <2>5, <2>6, <3>7
  <2>13. CASE content[q].call = "writeBody"
    <3>1. Is(q, f, "writeBody") /\ ~Is(q, f, "writeHeader")
      BY <1>5, <2>13 DEF Is
    <3>2. body = <<>>
      BY <1>1, <1>3, <2>2, <2>7, <3>1, ArrivedOnce
    <3>3. header # <<>>
      <4>1. PICK h \in DOMAIN asked : h < q /\ Is(h, f, "writeHeader")
        BY <1>1, <1>3, <1>5, <2>13 DEF OnceInv
      <4>2. landed[h] = Len(content[h].data)
        BY <1>5, <1>7, <4>1 DEF Delivered, Is
      <4>3. Len(content[h].data) = Header /\ Header # 0 /\ content[h].data # <<>>
        BY <1>1, <4>1 DEF Pieces, Is
      <4> QED
        BY <1>1, <2>7, <4>1, <4>2, <4>3, ArrivedOnce
    <3>4. ~Past(e, "readBody")
      <4>1. n = size[f]
        BY <1>1, <1>3, <1>5, <2>1, <2>2, <2>13 DEF Pieces
      <4> QED
        BY <1>6, <2>2, <2>7, <3>2, <4>1 DEF Stage
    <3>5. /\ ~Past(e, "readHeader") => buffer'[e] = header \o data
          /\ Past(e, "readHeader") => buffer'[e] = data
      <4>1. header \in Seq(Byte)
        BY <1>1, <2>7, ArrivedSize
      <4>2. header \o <<>> = header /\ <<>> \o data = data
        BY <2>2, <4>1
      <4>3. /\ ~Past(e, "readHeader") => buffer[e] = header \o <<>>
            /\ Past(e, "readHeader") => buffer[e] = <<>>
        BY <2>7, <3>2, <3>4 DEF Stage
      <4> QED
        BY <2>3, <4>2, <4>3
    <3>6. Stage(e, header, data)'
      BY <1>3, <1>4, <2>7, <3>3, <3>4, <3>5 DEF Stage
    <3>7. HasArrived(f, "writeHeader", header)' /\ HasArrived(f, "writeBody", data)'
      BY <2>7, <2>9, <2>10, <3>1
    <3>8. StageInv(e)'
      BY <1>3, <1>6, <2>7, <2>11, <3>6, <3>7 DEF StageInv
    <3> QED
      BY <1>6, <2>5, <2>6, <3>8
  <2> QED
    BY <1>1, <1>3, <2>12, <2>13 DEF Pieces
<1> QED
  BY <1>2, <1>7

\* What a step of e that reads leaves alone: all that is not of e, and what is sent.
LEMMA ReadElsewhere ==
    ASSUME BaseInv, NEW e \in Ends, ReadStep(e)
    PROVE  /\ UNCHANGED <<program, service, size, asked, content, landed>>
           /\ \A f \in Ends : f # e => /\ at'[f] = at[f] /\ part'[f] = part[f]
                                       /\ need'[f] = need[f] /\ buffer'[f] = buffer[f]
                                       /\ got'[f] = got[f] /\ wrong'[f] = wrong[f]
<1>1. UNCHANGED <<program, service, size, asked, content, landed>>
  BY DEF ReadStep
<1>2. ASSUME NEW f \in Ends, f # e PROVE at'[f] = at[f] /\ need'[f] = need[f] /\ wrong'[f] = wrong[f]
  BY <1>2 DEF ReadStep, BaseInv, StateInv
<1>3. ASSUME NEW f \in Ends, f # e
      PROVE  part'[f] = part[f] /\ buffer'[f] = buffer[f] /\ got'[f] = got[f]
  BY <1>3 DEF ReadStep, BaseInv, StateInv
<1> QED
  BY <1>1, <1>2, <1>3

\* Over one path the first Read of an end returns the header, and nothing else.
LEMMA FileReadHeader ==
    ASSUME BaseInv, program \in Ending, OnceInv, NEW e \in Ends, StageInv(e), ReadHeader(e)
    PROVE  StageInv(e)' /\ wrong'[e] = wrong[e]
<1>1. Pieces /\ StateInv /\ ReadStep(e)
  BY FileFacts, ReadHeaderStep DEF BaseInv
<1>2. UNCHANGED <<program, size, asked, content, landed>>
  BY <1>1, ReadElsewhere
<1>3. at[e] \in DOMAIN program[e] /\ program[e][at[e]] = "readHeader"
  BY DEF ReadHeader, Makes, Running
<1>4. ~Past(e, "readHeader") /\ ~Past(e, "readBody")
  BY <1>3, WhereReads
<1>5. PICK header, body \in {<<>>} \cup {content[q].data : q \in DOMAIN asked} :
        /\ HasArrived(Peer(e), "writeHeader", header)
        /\ HasArrived(Peer(e), "writeBody", body)
        /\ Stage(e, header, body)
  BY DEF StageInv
<1>6. /\ part[e] = <<>> /\ got[e] = <<>> /\ buffer[e] = header \o body
      /\ body # <<>> => header # <<>>
  BY <1>4, <1>5 DEF Stage
<1>7. /\ header \in Seq(Byte) /\ body \in Seq(Byte)
      /\ header = <<>> \/ Len(header) = Header
  BY <1>1, <1>5, Peers, ArrivedSize
<1>8. Header \in Nat \ {0}
  BY <1>1 DEF Pieces
<1>9. PICK m \in Nat : /\ m = IF Header > Len(buffer[e]) THEN Len(buffer[e]) ELSE Header
                       /\ Read(e, Header) = SubSeq(buffer[e], 1, m)
                       /\ Len(Read(e, Header)) = m
  BY <1>1, <1>8, ReadIs
<1>10. /\ Read(e, Header) # <<>>
       /\ buffer' = [buffer EXCEPT ![e] = SubSeq(buffer[e], Len(Read(e, Header)) + 1, Len(buffer[e]))]
  BY <1>1, <1>8, ConsumeDoes DEF ReadHeader
<1>11. header # <<>> /\ Len(header) = Header
  <2>1. CASE header = <<>>
    <3>1. buffer[e] = <<>>
      BY <1>6, <2>1
    <3>2. m = 0
      BY ONLY <1>8, <1>9, <3>1
    <3> QED
      BY ONLY <1>9, <1>10, <3>1, <3>2
  <2> QED
    BY <1>7, <2>1
<1>12. m = Header /\ Read(e, Header) = header
       /\ SubSeq(buffer[e], Header + 1, Len(buffer[e])) = body
  <2>1. Len(buffer[e]) = Header + Len(body) /\ Len(body) \in Nat
    BY ONLY <1>6, <1>7, <1>11
  <2>2. m = Header
    BY ONLY <1>8, <1>9, <2>1
  <2>3. SubSeq(header \o body, 1, Header) = header
        /\ SubSeq(header \o body, Header + 1, Header + Len(body)) = body
    <3> DEFINE u == header \o body
    <3>1. u \in Seq(Byte) /\ Len(u) = Header + Len(body)
      BY ONLY <1>7, <1>11
    <3>2. ASSUME NEW i \in 1 .. Header PROVE SubSeq(u, 1, Header)[i] = header[i]
      BY ONLY <1>7, <1>8, <1>11, <2>1
    <3>3. SubSeq(u, 1, Header) \in Seq(Byte) /\ Len(SubSeq(u, 1, Header)) = Header
      BY ONLY <1>8, <2>1, <3>1
    <3>4. ASSUME NEW i \in 1 .. Len(body)
          PROVE  SubSeq(u, Header + 1, Header + Len(body))[i] = body[i]
      BY ONLY <1>7, <1>8, <1>11, <2>1
    <3>5. /\ SubSeq(u, Header + 1, Header + Len(body)) \in Seq(Byte)
          /\ Len(SubSeq(u, Header + 1, Header + Len(body))) = Len(body)
      BY ONLY <1>8, <2>1, <3>1
    <3> HIDE DEF u
    <3>6. SubSeq(u, 1, Header) = header
      BY ONLY <1>7, <1>11, <3>2, <3>3, SeqEqual
    <3>7. SubSeq(u, Header + 1, Header + Len(body)) = body
      BY ONLY <1>7, <3>4, <3>5, SeqEqual
    <3> QED
      BY <3>6, <3>7 DEF u
  <2> QED
    BY ONLY <1>6, <1>9, <2>1, <2>2, <2>3
<1>13. \E q \in DOMAIN asked : content[q].call = "writeHeader" /\ header = content[q].data
  BY <1>5, <1>11 DEF HasArrived, Is
<1>14. /\ need' = [need EXCEPT ![e] = size[Peer(e)]]
       /\ at' = [at EXCEPT ![e] = at[e] + 1]
       /\ UNCHANGED <<wrong, part, got>>
  BY <1>12, <1>13 DEF ReadHeader
<1>15. /\ at'[e] = at[e] + 1 /\ need'[e] = size[Peer(e)]
       /\ buffer'[e] = body
  BY <1>1, <1>9, <1>10, <1>12, <1>14 DEF StateInv
<1>16. Past(e, "readHeader")' /\ ~Past(e, "readBody")'
  BY <1>2, <1>3, <1>4, <1>15, PastGrows
<1>17. Stage(e, header, body)'
  BY <1>2, <1>6, <1>11, <1>14, <1>15, <1>16 DEF Stage
<1>18. HasArrived(Peer(e), "writeHeader", header)' /\ HasArrived(Peer(e), "writeBody", body)'
  BY <1>2, <1>5 DEF HasArrived, Is
<1> QED
  BY <1>2, <1>5, <1>14, <1>17, <1>18 DEF StageInv

\* Over one path the body is there at once: io.ReadFull makes one Read.
LEMMA FileReadBody ==
    ASSUME BaseInv, program \in Ending, OnceInv, NEW e \in Ends, StageInv(e), ReadBody(e)
    PROVE  StageInv(e)' /\ wrong'[e] = wrong[e]
<1>1. Pieces /\ StateInv /\ ReadStep(e)
  BY FileFacts, ReadBodyStep DEF BaseInv
<1>2. UNCHANGED <<program, size, asked, content, landed>>
  BY <1>1, ReadElsewhere
<1>3. at[e] \in DOMAIN program[e] /\ program[e][at[e]] = "readBody"
  BY DEF ReadBody, Makes, Running
<1>4. Past(e, "readHeader") /\ ~Past(e, "readBody")
  BY <1>3, WhereReads
<1>5. PICK header, body \in {<<>>} \cup {content[q].data : q \in DOMAIN asked} :
        /\ HasArrived(Peer(e), "writeHeader", header)
        /\ HasArrived(Peer(e), "writeBody", body)
        /\ Stage(e, header, body)
  BY DEF StageInv
<1>6. /\ part[e] = <<>> /\ got[e] = <<>> /\ buffer[e] = body
      /\ header # <<>> /\ need[e] = size[Peer(e)]
  BY <1>4, <1>5 DEF Stage
<1>7. /\ body \in Seq(Byte) /\ need[e] \in Nat
      /\ body = <<>> \/ Len(body) = need[e]
  BY <1>1, <1>5, <1>6, Peers, ArrivedSize DEF Pieces
<1>8. PICK data : data = Read(e, need[e] - Len(part[e]))
  OBVIOUS
<1>9. need[e] - Len(part[e]) = need[e]
  BY ONLY <1>6, <1>7
<1>10. data = body
  <2>1. PICK m \in Nat : /\ m = IF need[e] > Len(buffer[e]) THEN Len(buffer[e]) ELSE need[e]
                         /\ Read(e, need[e]) = SubSeq(buffer[e], 1, m)
    BY <1>1, <1>7, ReadIs
  <2>2. m = Len(body)
    BY ONLY <1>6, <1>7, <2>1
  <2>3. SubSeq(body, 1, Len(body)) = body
    BY ONLY <1>7
  <2> QED
    BY ONLY <1>6, <1>8, <1>9, <2>1, <2>2, <2>3
<1>11. \/ data # <<>> /\ buffer' = [buffer EXCEPT ![e] = SubSeq(buffer[e], Len(data) + 1, Len(buffer[e]))]
       \/ need[e] = 0 /\ buffer' = buffer
  <2>1. CASE Consume(e, data)
    BY <1>1, <1>7, <1>8, <1>9, <2>1, ConsumeDoes
  <2>2. CASE ~Consume(e, data)
    BY <1>8, <2>2 DEF ReadBody
  <2> QED
    BY <2>1, <2>2
<1>12. Len(body) = need[e] /\ (body # <<>> \/ need[e] = 0)
  BY <1>7, <1>10, <1>11
<1>13. part[e] \o data = body
  BY ONLY <1>6, <1>7, <1>10
<1>14. /\ got' = [got EXCEPT ![e] = Append(got[e], body)]
       /\ part' = [part EXCEPT ![e] = <<>>]
       /\ at' = [at EXCEPT ![e] = at[e] + 1]
       /\ UNCHANGED <<need, wrong>>
  <2>1. /\ \/ Len(part[e] \o data) = need[e] /\ BodyDone(e, part[e] \o data)
           \/ Len(part[e] \o data) < need[e]
        /\ UNCHANGED <<need, wrong>>
    BY <1>8 DEF ReadBody
  <2> QED
    BY <1>7, <1>12, <1>13, <2>1 DEF BodyDone
<1>15. buffer'[e] = <<>>
  <2>1. CASE data # <<>>
    <3>1. SubSeq(body, Len(body) + 1, Len(body)) = <<>>
      BY ONLY <1>7
    <3>2. CASE buffer' = [buffer EXCEPT ![e] = SubSeq(buffer[e], Len(data) + 1, Len(buffer[e]))]
      BY <1>1, <1>6, <1>10, <3>1, <3>2 DEF StateInv
    <3>3. CASE need[e] = 0
      BY <1>7, <1>10, <1>12, <2>1, <3>3
    <3> QED
      BY <1>11, <3>2, <3>3
  <2>2. CASE data = <<>>
    BY <1>6, <1>10, <1>11, <2>2
  <2> QED
    BY <2>1, <2>2
<1>16. at'[e] = at[e] + 1 /\ part'[e] = <<>> /\ got'[e] = <<body>>
  <2>1. Append(<<>>, body) = <<body>>
    OBVIOUS
  <2> QED
    BY <1>1, <1>6, <1>14, <2>1 DEF StateInv
<1>17. Past(e, "readHeader")' /\ Past(e, "readBody")'
  BY <1>2, <1>3, <1>4, <1>16, PastGrows
<1>18. Stage(e, header, body)'
  BY <1>2, <1>6, <1>12, <1>14, <1>15, <1>16, <1>17 DEF Stage
<1>19. HasArrived(Peer(e), "writeHeader", header)' /\ HasArrived(Peer(e), "writeBody", body)'
  BY <1>2, <1>5 DEF HasArrived, Is
<1> QED
  BY <1>2, <1>5, <1>14, <1>18, <1>19 DEF StageInv

LEMMA FileRead ==
    ASSUME BaseInv, FileInv, NEW e \in Ends, ReadStep(e), ReadHeader(e) \/ ReadBody(e) \/ ReadPing(e)
    PROVE  FileInv'
<1>1. /\ UNCHANGED <<program, service, size, asked, content, landed>>
      /\ \A f \in Ends : f # e => /\ at'[f] = at[f] /\ part'[f] = part[f]
                                  /\ need'[f] = need[f] /\ buffer'[f] = buffer[f]
                                  /\ got'[f] = got[f] /\ wrong'[f] = wrong[f]
  BY ReadElsewhere
<1> SUFFICES ASSUME program \in Ending
             PROVE  /\ OnceInv'
                    /\ service = "one path" => \A f \in Ends : ~wrong'[f] /\ StageInv(f)'
  BY <1>1 DEF FileInv
<1>2. OnceInv /\ OnceInv'
  BY <1>1 DEF FileInv, OnceInv, Is
<1>3. ~ReadPing(e)
  <2>1. ASSUME ReadPing(e) PROVE FALSE
    <3>1. at[e] \in DOMAIN program[e] /\ program[e][at[e]] = "readPing"
      BY <2>1 DEF ReadPing, Makes, Running
    <3>2. program[e][at[e]] \in {"writeHeader", "writeBody", "readHeader", "readBody"}
      BY <3>1, FileCalls
    <3> QED
      BY ONLY <3>1, <3>2
  <2> QED
    BY <2>1
<1>4. ASSUME service = "one path", NEW f \in Ends PROVE ~wrong'[f] /\ StageInv(f)'
  <2>1. ~wrong[f] /\ StageInv(f)
    BY <1>4 DEF FileInv
  <2>2. CASE f = e
    BY <1>2, <1>3, <2>1, <2>2, FileReadHeader, FileReadBody
  <2>3. CASE f # e
    <3>1. Past(f, "readHeader")' <=> Past(f, "readHeader")
      BY <1>1, <2>3 DEF Past
    <3>2. Past(f, "readBody")' <=> Past(f, "readBody")
      BY <1>1, <2>3 DEF Past
    <3> QED
      BY <1>1, <2>1, <2>3, <3>1, <3>2, StageKeep
  <2> QED
    BY <2>2, <2>3
<1> QED
  BY <1>2, <1>4

LEMMA FileStep ==
    ASSUME BaseInv, FileInv, [Next]_vars
    PROVE  FileInv'
<1>1. CASE Next
  <2>1. ASSUME NEW e \in Ends, Exit(e) PROVE FileInv'
    <3>1. UNCHANGED <<program, service, size, at, part, need, buffer, got, wrong, asked, content, landed>>
      BY <2>1 DEF Exit, net, app
    <3> QED
      BY <3>1, FileKeep DEF Past
  <2> QED
    BY <1>1, <2>1, StepCases, FileWrite, FileReturn, FileRead, FileDeliver
<1>2. CASE UNCHANGED vars
  <2>1. UNCHANGED <<program, service, size, at, part, need, buffer, got, wrong, asked, content, landed>>
    BY <1>2 DEF vars, app, net
  <2> QED
    BY <2>1, FileKeep DEF Past
<1> QED
  BY <1>1, <1>2

-----------------------------------------------------------------------------
(* The invariant, and what follows from it. *)

LEMMA NothingIn == DOMAIN <<>> = {}
OBVIOUS

LEMMA ExamplesInit == Init => Inv
<1> SUFFICES ASSUME Init PROVE Inv
  OBVIOUS
<1>1. BaseInv
  BY BaseInit
<1>2. DOMAIN asked = {}
  BY DEF Init, T!Init
<1>3. \A e \in Ends : /\ buffer[e] = <<>> /\ got[e] = <<>> /\ part[e] = <<>> /\ ~wrong[e]
                      /\ at[e] = 1
  BY DEF Init
<1>4. PingInv
  <2>1. WholeInv("server") /\ OnceEachInv("server") /\ OrderInv("server")
    BY <1>2, <1>3 DEF WholeInv, OnceEachInv, OrderInv, Ends
  <2> QED
    BY <1>2, <1>3, <2>1 DEF PingInv, PingpongInv, Ends
<1>5. ASSUME NEW e \in Ends PROVE StageInv(e)
  <2>1. ~Past(e, "readHeader") /\ ~Past(e, "readBody")
    <3>1. \A j \in DOMAIN program[e] : j \in Nat /\ ~(j < 1)
      BY <1>1, CallsFacts
    <3> QED
      BY <1>3, <3>1 DEF Past
  <2>2. HasArrived(Peer(e), "writeHeader", <<>>) /\ HasArrived(Peer(e), "writeBody", <<>>)
    BY <1>2 DEF HasArrived
  <2>3. <<>> \o <<>> = <<>>
    OBVIOUS
  <2>4. Stage(e, <<>>, <<>>)
    BY <1>3, <2>1, <2>3 DEF Stage
  <2> QED
    BY <2>2, <2>4 DEF StageInv
<1>6. FileInv
  BY <1>2, <1>3, <1>5 DEF FileInv, OnceInv
<1> QED
  BY <1>1, <1>4, <1>6 DEF Inv

\* The invariant, for every program under examples/.
THEOREM ExamplesInvariant == Spec => []Inv
<1>1. Init => Inv
  BY ExamplesInit
<1>2. Inv /\ [Next]_vars => Inv'
  BY BaseStep, PingStep, FileStep DEF Inv
<1> QED
  BY <1>1, <1>2, PTL DEF Spec

\* The variables of the examples have their types, no more of a Write lands than was
\* written, and only an end that is in io.ReadFull has a body in part.
THEOREM ExamplesTypes == Spec => []TypeOK
<1>1. Inv => TypeOK
  <2> SUFFICES ASSUME BaseInv PROVE TypeOK
    BY DEF Inv
  <2>1. DOMAIN asked = DOMAIN content /\ DOMAIN landed = DOMAIN content
    BY DEF BaseInv, WritesInv
  <2>2. ASSUME NEW q \in DOMAIN content PROVE landed[q] \in 0 .. Len(content[q].data)
    <3>1. landed[q] \in Nat /\ Len(content[q].data) \in Nat
      BY <2>1, CallsFacts
    <3>2. landed[q] <= Len(content[q].data)
      BY <2>1 DEF BaseInv, WritesInv
    <3> QED
      BY <3>1, <3>2
  <2>3. \A e \in Ends : wrong[e] \in BOOLEAN /\ exited[e] \in BOOLEAN
    BY DEF BaseInv, StateInv
  <2> QED
    BY <2>1, <2>2, <2>3, CallsFacts DEF TypeOK
<1> QED
  BY <1>1, ExamplesInvariant, PTL

\* Over any number of paths a Read of pingpong's server returns exactly one ping that
\* its client has sent, and no two Reads return the same one.
THEOREM PingsAreWhole == Spec => []OnePingPerRead
<1>1. Inv => OnePingPerRead
  <2> SUFFICES ASSUME BaseInv, PingpongInv, Pings
               PROVE  /\ \A e \in Ends : \A i \in DOMAIN got[e] :
                            \E q \in Sent(Peer(e)) : got[e][i] = content[q].data
                      /\ \A e \in Ends : \A i, j \in DOMAIN got[e] : got[e][i] = got[e][j] => i = j
    BY PingFacts DEF Inv, PingInv, OnePingPerRead
  <2>1. DOMAIN got["client"] = {}
    BY NothingIn DEF PingpongInv
  <2>2. DOMAIN got["server"] = 1 .. Len(got["server"])
    BY DEF Pings
  <2>3. ASSUME NEW i \in 1 .. Len(got["server"])
        PROVE  \E q \in Sent("client") : got["server"][i] = content[q].data
    <3>1. PICK q \in DOMAIN asked : got["server"][i] = content[q].data
      BY DEF PingpongInv, OnceEachInv
    <3>2. asked[q] = "client" /\ content[q].call = "writePing"
      BY DEF PingpongInv, Pings
    <3> QED
      BY <3>1, <3>2 DEF Sent
  <2>4. \A i, j \in 1 .. Len(got["server"]) : got["server"][i] = got["server"][j] => i = j
    BY DEF PingpongInv, OnceEachInv
  <2> QED
    BY <2>1, <2>2, <2>3, <2>4 DEF Ends, Peer
<1> QED
  BY <1>1, ExamplesInvariant, PTL

\* Over one path nobody takes something else for a header, although it is read with a
\* single Read, and the files, names and pings that an end has received are those
\* that the other end has sent, in order and complete.
THEOREM FramesStayWhole == Spec => []FramesKept
<1>1. Inv => FramesKept
  <2> SUFFICES ASSUME Inv, service = "one path", NEW e \in Ends
               PROVE  /\ ~wrong[e]
                      /\ \A i \in DOMAIN got[e] :
                            \/ \E q \in Sent(Peer(e)) :
                                  Rank(q, Sent(Peer(e))) = i /\ got[e][i] = content[q].data
                            \/ size[Peer(e)] = 0 /\ got[e][i] = <<>>
    BY DEF FramesKept
  <2>1. BaseInv
    BY DEF Inv
  <2>2. CASE program = pingpong
    <3>1. PingpongInv /\ Pings /\ OrderInv("server")
      BY <2>1, <2>2, PingFacts DEF Inv, PingInv, PingpongInv
    <3>2. ~wrong[e]
      BY <3>1 DEF PingpongInv
    <3>3. CASE e = "client"
      <4>1. DOMAIN got[e] = {}
        BY <3>1, <3>3, NothingIn DEF PingpongInv
      <4> QED
        BY <3>2, <4>1
    <3>4. CASE e = "server"
      <4>1. Sent("client") = DOMAIN asked
        BY <3>1 DEF PingpongInv, Pings, Sent
      <4>2. ASSUME NEW i \in 1 .. Len(got["server"])
            PROVE  /\ i \in DOMAIN asked /\ got["server"][i] = content[i].data
                   /\ Rank(i, DOMAIN asked) = i
        <5>1. i \in DOMAIN asked /\ got["server"][i] = content[i].data
          BY <3>1 DEF OrderInv
        <5>2. PICK n \in Nat : DOMAIN asked = 1 .. n
          BY <2>1, WritesNumbered DEF BaseInv
        <5>3. {r \in DOMAIN asked : r <= i} = 1 .. i
          BY ONLY <5>1, <5>2
        <5>4. Cardinality(1 .. i) = i
          <6>1. i \in Nat /\ i - 1 + 1 = i /\ ~(1 > i)
            BY ONLY <5>1, <5>2
          <6>2. Cardinality(1 .. i) = IF 1 > i THEN 0 ELSE i - 1 + 1
            BY ONLY <6>1, FS_Interval
          <6> QED
            BY ONLY <6>1, <6>2
        <5> QED
          BY <5>1, <5>3, <5>4 DEF Rank
      <4>3. DOMAIN got["server"] = 1 .. Len(got["server"])
        <5>1. got["server"] \in Seq(Seq(Byte))
          BY <3>1 DEF Pings
        <5> QED
          BY ONLY <5>1
      <4> QED
        BY <3>2, <3>4, <4>1, <4>2, <4>3 DEF Peer
    <3> QED
      BY <3>3, <3>4 DEF Ends
  <2>3. CASE program \in Ending
    <3>1. OnceInv /\ ~wrong[e] /\ StageInv(e) /\ Pieces
      BY <2>1, <2>3, FileFacts DEF Inv, FileInv
    <3>2. PICK header, body \in {<<>>} \cup {content[q].data : q \in DOMAIN asked} :
            HasArrived(Peer(e), "writeBody", body) /\ Stage(e, header, body)
      BY <3>1 DEF StageInv
    <3>3. CASE ~Past(e, "readBody")
      <4>1. got[e] = <<>>
        BY <3>2, <3>3 DEF Stage
      <4>2. DOMAIN got[e] = {}
        BY <4>1, NothingIn
      <4> QED
        BY <3>1, <4>2
    <3>4. CASE Past(e, "readBody")
      <4>1. got[e] = <<body>> /\ (body # <<>> \/ size[Peer(e)] = 0)
        BY <3>2, <3>4 DEF Stage
      <4>2. DOMAIN got[e] = {1} /\ got[e][1] = body
        BY ONLY <4>1
      <4>3. CASE body = <<>>
        BY <3>1, <4>1, <4>2, <4>3
      <4>4. CASE body # <<>>
        <5>1. PICK b \in DOMAIN asked : Is(b, Peer(e), "writeBody") /\ body = content[b].data
          BY <3>2, <4>4 DEF HasArrived
        <5>2. Sent(Peer(e)) = {b}
          <6>1. b \in Sent(Peer(e))
            BY <5>1 DEF Sent, Is
          <6>2. ASSUME NEW q \in Sent(Peer(e)) PROVE q = b
            <7>1. q \in DOMAIN asked /\ asked[q] = Peer(e) /\ content[q].call = "writeBody"
              BY <3>1 DEF Sent, Pieces
            <7> QED
              BY <3>1, <5>1, <7>1 DEF OnceInv, Is
          <6> QED
            BY <6>1, <6>2
        <5>3. {r \in {b} : r <= b} = {b}
          <6>1. b \in Nat
            BY <3>1, <5>1 DEF Pieces
          <6>2. b <= b
            BY ONLY <6>1
          <6> QED
            BY ONLY <6>2
        <5>4. Rank(b, Sent(Peer(e))) = 1
          BY <5>2, <5>3, FS_Singleton DEF Rank
        <5> QED
          BY <3>1, <4>2, <5>1, <5>2, <5>4
      <4> QED
        BY <4>3, <4>4
    <3> QED
      BY <3>3, <3>4
  <2>4. program # quictest
    BY <2>1 DEF BaseInv, StateInv, Service
  <2> QED
    BY <2>1, <2>2, <2>3, <2>4 DEF BaseInv, StateInv, Programs, Ending
<1> QED
  BY <1>1, ExamplesInvariant, PTL
=============================================================================
