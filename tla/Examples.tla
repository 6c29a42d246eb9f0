------------------------------ MODULE Examples ------------------------------
(***************************************************************************)
(* The programs under examples/ as applications of a stream: filetransfer, *)
(* fileserver and pingpong over the service that Q-PARTS gives them, which *)
(* is Transfer (Dataplane is shown to implement it), and quictest, which   *)
(* does the same over a QUIC stream of its own.  The stream is open at     *)
(* both ends.                                                              *)
(*                                                                         *)
(* A program is the sequence of its calls on the stream.  A byte is known  *)
(* by the call that wrote it and its place in it; a header stands for the  *)
(* eight bytes (36 in quictest) that announce a size.                      *)
(*                                                                         *)
(* A definition named X_Something is X with a mistake in it, to test the   *)
(* properties with.                                                        *)
(***************************************************************************)
EXTENDS Integers, Sequences, FiniteSets

CONSTANTS
    Header,      \* the number of bytes of a header
    FileSizes,   \* the sizes that a file may have
    PingSize,    \* the number of bytes of a ping (1400)
    Rounds       \* bound on the rounds of the programs that never end (one would make
                 \* quictest and filetransfer the same program)

ASSUME ExamplesAssumption ==
    /\ Header \in Nat \ {0}
    /\ FileSizes \subseteq Nat
    /\ PingSize \in Nat \ {0}
    /\ Rounds \in Nat \ {0, 1}

Ends == {"client", "server"}
Peer(e) == IF e = "client" THEN "server" ELSE "client"

-----------------------------------------------------------------------------
(* The calls that the programs make on their stream, in order. *)

Put == <<"writeHeader", "writeBody">>
Get == <<"readHeader", "readBody">>

Repeat(calls) == [i \in 1 .. Rounds * Len(calls) |-> calls[((i - 1) % Len(calls)) + 1]]

filetransfer == [client |-> Put, server |-> Get]
fileserver   == [client |-> Put \o Get, server |-> Get \o Put]
\* (the goroutine of pingpong's client that reads gets nothing, as the server does
\* not write)
pingpong     == [client |-> Repeat(<<"writePing">>), server |-> Repeat(<<"readPing">>)]
quictest     == [client |-> Repeat(Put), server |-> Repeat(Get)]

\* The service that a program may have: a Q-PARTS connection over one path or over
\* several, or a QUIC stream.
Service(program) == IF program = quictest THEN {"quic"} ELSE {"one path", "paths"}

\* main returns, and the process ends, when it has made its last call.
Ending == {filetransfer, fileserver}

-----------------------------------------------------------------------------
VARIABLES
    program,    \* the program that runs
    service,    \* what it runs over
    size,       \* size[e]: the size of the file, or name, that e sends
    at,         \* at[e]: the index of the call that e makes next
    calling,    \* calling[e]: the Write that e waits for, or 0
    content,    \* content[q]: the call that made Write q, and its bytes
    landed,     \* landed[q]: how many of them have arrived
    buffer,     \* buffer[e]: the bytes that e can read
    need,       \* need[e]: the size that e was told last
    part,       \* part[e]: what io.ReadFull has read so far
    got,        \* got[e]: what e received, in order
    wrong,      \* wrong[e]: e took something else for a header
    exited,     \* exited[e]: the process of e has ended
    asked, received, done   \* the variables of Transfer; its streams are the ends
                            \* that write, and its Writes are numbered

app  == <<at, calling, need, part, got, wrong>>
net  == <<asked, received, done>>
vars == <<program, service, size, app, content, landed, buffer, exited, net>>

Writes == 1 .. 4 * (Rounds + 1)

T == INSTANCE Transfer WITH Streams <- Ends, SeqIds <- Writes,
                            asked <- asked, received <- received, done <- done

Init ==
    /\ program \in {filetransfer, fileserver, pingpong, quictest}
    /\ service \in Service(program)
    /\ size \in [Ends -> FileSizes]
    /\ program \in {fileserver, quictest} => size["client"] > 0
    /\ at = [e \in Ends |-> 1]
    /\ calling = [e \in Ends |-> 0]
    /\ content = [q \in {} |-> <<>>]
    /\ landed = [q \in {} |-> 0]
    /\ buffer = [e \in Ends |-> <<>>]
    /\ need = [e \in Ends |-> 0]
    /\ part = [e \in Ends |-> <<>>]
    /\ got = [e \in Ends |-> <<>>]
    /\ wrong = [e \in Ends |-> FALSE]
    /\ exited = [e \in Ends |-> FALSE]
    /\ T!Init

Running(e) == ~exited[e] /\ ~wrong[e] /\ at[e] \in DOMAIN program[e]
Makes(e, call) == Running(e) /\ calling[e] = 0 /\ program[e][at[e]] = call

-----------------------------------------------------------------------------
(* Writing. *)

Bytes(q, n) == [i \in 1 .. n |-> [write |-> q, place |-> i]]

\* What a Write of e puts on the stream: a header announces size[e].
Payload(e, call, q) ==
    Bytes(q, CASE call = "writeHeader" -> Header
               [] call = "writeBody"   -> size[e]
               [] call = "writePing"   -> PingSize)

Write(e) ==
    \E call \in {"writeHeader", "writeBody", "writePing"}, q \in Writes :
        /\ Makes(e, call)
        /\ q = Cardinality(DOMAIN asked) + 1
        /\ T!Ask(q, e)
        /\ content' = [x \in DOMAIN content \cup {q} |->
                          IF x = q THEN [call |-> call, data |-> Payload(e, call, q)]
                          ELSE content[x]]
        /\ landed' = [x \in DOMAIN landed \cup {q} |-> IF x = q THEN 0 ELSE landed[x]]
        /\ calling' = [calling EXCEPT ![e] = q]
        /\ UNCHANGED <<program, service, size, at, need, part, got, wrong, buffer, exited>>

\* The Write returns, whether or not the data has arrived.  One of no bytes does
\* not: the dataplane takes its only part for a failed write.
WriteReturns(e) ==
    /\ Running(e)
    /\ calling[e] # 0
    /\ content[calling[e]].data # <<>>
    /\ T!Return(calling[e])
    /\ calling' = [calling EXCEPT ![e] = 0]
    /\ at' = [at EXCEPT ![e] = @ + 1]
    /\ UNCHANGED <<program, service, size, need, part, got, wrong, content, landed, buffer,
                   exited>>

Missing(q) == Len(content[q].data) - landed[q]

Lands(q, n) ==
    /\ buffer' = [buffer EXCEPT ![Peer(asked[q])] =
                     @ \o SubSeq(content[q].data, landed[q] + 1, landed[q] + n)]
    /\ landed' = [landed EXCEPT ![q] = @ + n]
    /\ \/ n = Missing(q) /\ T!Arrive(q)
       \/ n < Missing(q) /\ UNCHANGED net
    /\ UNCHANGED <<program, service, size, app, content, exited>>

Deliver_Pieces(q) ==
    /\ q \in DOMAIN asked
    /\ service # "paths" =>
         \A r \in DOMAIN asked : asked[r] = asked[q] /\ r < q => Missing(r) = 0
    /\ \E n \in 1 .. Missing(q) : Lands(q, n)

Deliver_AnyOrder(q) ==
    /\ q \in DOMAIN asked
    /\ \E n \in 1 .. Missing(q) :
          /\ service # "quic" => n = Missing(q)
          /\ Lands(q, n)

\* The data, or some of it, can be read at the other end.  Q-PARTS appends a Write
\* whole, and keeps the order of the Writes if it has only one path.
Deliver(q) ==
    /\ q \in DOMAIN asked
    /\ service # "paths" =>
         \A r \in DOMAIN asked : asked[r] = asked[q] /\ r < q => Missing(r) = 0
    /\ \E n \in 1 .. Missing(q) :
          /\ service # "quic" => n = Missing(q)
          /\ Lands(q, n)

-----------------------------------------------------------------------------
(* Reading. *)

\* stream.Read of up to n bytes.
Read(e, n) == SubSeq(buffer[e], 1, IF n > Len(buffer[e]) THEN Len(buffer[e]) ELSE n)

Consume(e, data) ==
    /\ data # <<>>
    /\ buffer' = [buffer EXCEPT ![e] = SubSeq(@, Len(data) + 1, Len(@))]
    /\ UNCHANGED <<program, service, size, calling, content, landed, exited, net>>

\* A single Read into the header, whose length is not looked at: anything but the
\* bytes of one header makes a size that has nothing to do with what follows.
ReadHeader(e) ==
    /\ Makes(e, "readHeader")
    /\ Consume(e, Read(e, Header))
    /\ \/ /\ \E q \in DOMAIN asked : /\ content[q].call = "writeHeader"
                                     /\ Read(e, Header) = content[q].data
          /\ need' = [need EXCEPT ![e] = size[Peer(e)]]
          /\ at' = [at EXCEPT ![e] = @ + 1]
          /\ UNCHANGED wrong
       \/ /\ \A q \in DOMAIN asked : content[q].call = "writeHeader"
                                        => Read(e, Header) # content[q].data
          /\ wrong' = [wrong EXCEPT ![e] = TRUE]
          /\ UNCHANGED <<need, at>>
    /\ UNCHANGED <<part, got>>

BodyDone_KeepsPart(e, data) ==
    /\ got' = [got EXCEPT ![e] = Append(@, data)]
    /\ part' = [part EXCEPT ![e] = data]
    /\ at' = [at EXCEPT ![e] = @ + 1]

BodyDone(e, data) ==
    /\ got' = [got EXCEPT ![e] = Append(@, data)]
    /\ part' = [part EXCEPT ![e] = <<>>]
    /\ at' = [at EXCEPT ![e] = @ + 1]

ReadBody_NeverEmpty(e) ==
    /\ Makes(e, "readBody")
    /\ LET data == Read(e, need[e] - Len(part[e]))
       IN  /\ Consume(e, data)
           /\ \/ Len(part[e] \o data) = need[e] /\ BodyDone(e, part[e] \o data)
              \/ /\ Len(part[e] \o data) < need[e]
                 /\ part' = [part EXCEPT ![e] = @ \o data]
                 /\ UNCHANGED <<got, at>>
    /\ UNCHANGED <<need, wrong>>

\* One Read of io.ReadFull(stream, buf), which makes none if buf has no room.
ReadBody(e) ==
    /\ Makes(e, "readBody")
    /\ LET data == Read(e, need[e] - Len(part[e]))
       IN  /\ \/ Consume(e, data)
              \/ need[e] = 0 /\ UNCHANGED <<program, service, size, calling, content, landed,
                                            buffer, exited, net>>
           /\ \/ Len(part[e] \o data) = need[e] /\ BodyDone(e, part[e] \o data)
              \/ /\ Len(part[e] \o data) < need[e]
                 /\ part' = [part EXCEPT ![e] = @ \o data]
                 /\ UNCHANGED <<got, at>>
    /\ UNCHANGED <<need, wrong>>

ReadPing(e) ==
    /\ Makes(e, "readPing")
    /\ Consume(e, Read(e, PingSize))
    /\ BodyDone(e, Read(e, PingSize))
    /\ UNCHANGED <<need, wrong>>

\* main returns.  Writes that have returned and not arrived may be lost.
Exit(e) ==
    /\ program \in Ending
    /\ ~exited[e]
    /\ at[e] > Len(program[e])
    /\ exited' = [exited EXCEPT ![e] = TRUE]
    /\ UNCHANGED <<program, service, size, app, content, landed, buffer, net>>

-----------------------------------------------------------------------------
Steps(e) == Write(e) \/ WriteReturns(e) \/ ReadHeader(e) \/ ReadBody(e) \/ ReadPing(e)

Next == (\E e \in Ends : Steps(e) \/ Exit(e)) \/ \E q \in Writes : Deliver(q)

Spec == Init /\ [][Next]_vars

\* The programs run, and the connection delivers what a running process has sent.
Fairness ==
    /\ \A e \in Ends : WF_vars(Steps(e))
    /\ \A q \in Writes : WF_vars(Deliver(q) /\ ~exited[asked[q]])

FairSpec == Spec /\ Fairness

-----------------------------------------------------------------------------
(* Properties. *)

\* Every variable has its type, no more lands of a Write than was written, and only
\* an end that is in io.ReadFull has a body in part.
TypeOK ==
    /\ DOMAIN asked = DOMAIN content /\ DOMAIN landed = DOMAIN content
    /\ \A q \in DOMAIN content : landed[q] \in 0 .. Len(content[q].data)
    /\ \A e \in Ends : /\ at[e] \in 1 .. Len(program[e]) + 1
                       /\ calling[e] \in DOMAIN asked \cup {0}
                       /\ need[e] \in {0, size[Peer(e)]}
                       /\ part[e] # <<>> => /\ Len(part[e]) < need[e]
                                            /\ program[e][at[e]] = "readBody"
                       /\ wrong[e] \in BOOLEAN
                       /\ exited[e] \in BOOLEAN

\* What an end sends, headers apart, by the number of the Write.
Sent(e) == {q \in DOMAIN asked : asked[q] = e /\ content[q].call # "writeHeader"}
Rank(q, S) == Cardinality({r \in S : r <= q})

\* Over one path the examples frame their data correctly, although they read a
\* header with a single Read and ignore how much it returned: nobody ever takes
\* something else for a header, and the files, names and pings that an end has
\* received are those that the other has sent, in order and complete (an empty one
\* is received with its header).
FramesKept ==
    service = "one path" =>
        \A e \in Ends :
            /\ ~wrong[e]
            /\ \A i \in DOMAIN got[e] :
                  \/ \E q \in Sent(Peer(e)) :
                        Rank(q, Sent(Peer(e))) = i /\ got[e][i] = content[q].data
                  \/ size[Peer(e)] = 0 /\ got[e][i] = <<>>

\* Over any number of paths, a Read of pingpong returns exactly one ping, and no
\* two return the same.
OnePingPerRead ==
    program = pingpong =>
        /\ \A e \in Ends : \A i \in DOMAIN got[e] :
              \E q \in Sent(Peer(e)) : got[e][i] = content[q].data
        /\ \A e \in Ends : \A i, j \in DOMAIN got[e] : got[e][i] = got[e][j] => i = j

\* Every end makes its last call in the end, unless it sends an empty file, in whose
\* Write it stays for ever, or somebody has read a wrong header, or the other end
\* has exited before all that it had written arrived.
EmptyWrite(e) == calling[e] # 0 /\ content[calling[e]].data = <<>>
Lost(e)       == exited[e] /\ \E q \in DOMAIN asked : asked[q] = e /\ Missing(q) > 0
EveryEndFinishes ==
    \A e \in Ends : <>(\/ at[e] > Len(program[e]) \/ EmptyWrite(e) \/ Lost(Peer(e))
                       \/ \E f \in Ends : wrong[f])
=============================================================================
