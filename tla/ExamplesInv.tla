---------------------------- MODULE ExamplesInv -----------------------------
(***************************************************************************)
(* The inductive invariant of Examples.  It has three parts.  BaseInv is   *)
(* about every program: which Writes there are, which call made each, and  *)
(* what a call that waits may expect.  PingInv is about pingpong: the      *)
(* bytes that can be read are whole pings, none of which was read before.  *)
(* FileInv is about filetransfer and fileserver: what an end has read and  *)
(* can read is the header and the body that its peer has sent, as far as   *)
(* they have arrived.                                                      *)
(***************************************************************************)
EXTENDS Examples

Programs   == {filetransfer, fileserver, pingpong, quictest}
WriteCalls == {"writeHeader", "writeBody", "writePing"}
Byte       == [write : Nat, place : Nat]

StateInv ==
    /\ program \in Programs
    /\ service \in Service(program)
    /\ size \in [Ends -> Nat]
    /\ at \in [Ends -> Nat]
    /\ calling \in [Ends -> Nat]
    /\ buffer \in [Ends -> Seq(Byte)]
    /\ need \in [Ends -> Nat]
    /\ part \in [Ends -> Seq(Byte)]
    /\ got \in [Ends -> Seq(Seq(Byte))]
    /\ wrong \in [Ends -> BOOLEAN]
    /\ exited \in [Ends -> BOOLEAN]

\* The Writes are numbered, each has the content that its call made, and unless the
\* stream is one of QUIC it arrives whole.
WritesInv ==
    /\ IsFiniteSet(DOMAIN asked)
    /\ DOMAIN asked = 1 .. Cardinality(DOMAIN asked)
    /\ asked \in [DOMAIN asked -> Ends]
    /\ content \in [DOMAIN asked -> [call : WriteCalls, data : Seq(Byte)]]
    /\ landed \in [DOMAIN asked -> Nat]
    /\ \A q \in DOMAIN asked :
          /\ content[q].data = Payload(asked[q], content[q].call, q)
          /\ landed[q] <= Len(content[q].data)
          /\ service # "quic" => landed[q] \in {0, Len(content[q].data)}

\* Write q was made by call j of its end, which the end has got past or waits in.
MadeAt(q, j) ==
    /\ program[asked[q]][j] = content[q].call
    /\ j < at[asked[q]] \/ (j = at[asked[q]] /\ calling[asked[q]] = q)

CallInv(e) ==
    /\ at[e] \in 1 .. Len(program[e]) + 1
    /\ calling[e] # 0 => /\ calling[e] \in DOMAIN asked
                         /\ asked[calling[e]] = e
                         /\ at[e] \in DOMAIN program[e]
                         /\ program[e][at[e]] = content[calling[e]].call
    /\ need[e] \in {0, size[Peer(e)]}
    /\ part[e] # <<>> => /\ Len(part[e]) < need[e]
                         /\ at[e] \in DOMAIN program[e]
                         /\ program[e][at[e]] = "readBody"

\* The calls and the Writes belong to each other.
CallsInv ==
    /\ \A e \in Ends : CallInv(e)
    /\ \A q \in DOMAIN asked : \E j \in DOMAIN program[asked[q]] : MadeAt(q, j)
    /\ \A e \in Ends : \A j \in DOMAIN program[e] :
          j < at[e] /\ program[e][j] \in WriteCalls
             => \E q \in DOMAIN asked : asked[q] = e /\ content[q].call = program[e][j]

BaseInv == StateInv /\ WritesInv /\ CallsInv

\* The bytes that can be read are whole pings that have landed, each byte once ...
WholeInv(e) ==
    \A k \in 1 .. Len(buffer[e]) :
        LET b == buffer[e][k]
        IN  /\ b.write \in DOMAIN asked
            /\ landed[b.write] # 0
            /\ b.place \in 1 .. PingSize
            /\ k = 1 => b.place = 1
            /\ b.place < PingSize =>
                  /\ k < Len(buffer[e])
                  /\ buffer[e][k + 1] = [write |-> b.write, place |-> b.place + 1]
            /\ b.place = PingSize /\ k < Len(buffer[e]) => buffer[e][k + 1].place = 1

\* ... and none of them was read before.
OnceEachInv(e) ==
    /\ \A k, l \in 1 .. Len(buffer[e]) : buffer[e][k] = buffer[e][l] => k = l
    /\ \A i \in 1 .. Len(got[e]) :
          \E q \in DOMAIN asked : /\ landed[q] # 0
                                  /\ got[e][i] = content[q].data
                                  /\ \A k \in 1 .. Len(buffer[e]) : buffer[e][k].write # q
    /\ \A i, j \in 1 .. Len(got[e]) : got[e][i] = got[e][j] => i = j

\* Over one path they are in order, and none is left out.
OrderInv(e) ==
    /\ \A q, r \in DOMAIN asked : r < q /\ landed[q] # 0 => landed[r] # 0
    /\ \A k, l \in 1 .. Len(buffer[e]) : k < l => buffer[e][k].write <= buffer[e][l].write
    /\ \A i \in 1 .. Len(got[e]) : i \in DOMAIN asked /\ got[e][i] = content[i].data
    /\ \A q \in DOMAIN asked :
          landed[q] # 0 => \/ q <= Len(got[e])
                           \/ \E k \in 1 .. Len(buffer[e]) : buffer[e][k].write = q

PingpongInv ==
    /\ \A q \in DOMAIN asked : asked[q] = "client"
    /\ \A e \in Ends : ~wrong[e]
    /\ buffer["client"] = <<>> /\ got["client"] = <<>>
    /\ WholeInv("server")
    /\ OnceEachInv("server")
    /\ service = "one path" => OrderInv("server")

PingInv == program = pingpong => PingpongInv

Past(e, call)  == \E j \in DOMAIN program[e] : j < at[e] /\ program[e][j] = call
Is(q, f, call) == asked[q] = f /\ content[q].call = call

\* An end writes one header, and then one body.
OnceInv ==
    /\ \A q, r \in DOMAIN asked : asked[q] = asked[r] /\ content[q].call = content[r].call => q = r
    /\ \A b \in DOMAIN asked :
          content[b].call = "writeBody" =>
              \E h \in DOMAIN asked : h < b /\ Is(h, asked[b], "writeHeader")

\* d is what has arrived of the header, or of the body, of f.
HasArrived(f, call, d) ==
    \/ \E q \in DOMAIN asked : Is(q, f, call) /\ landed[q] # 0 /\ d = content[q].data
    \/ d = <<>> /\ \A q \in DOMAIN asked : Is(q, f, call) => landed[q] = 0

\* How far e has got with them.
Stage(e, header, body) ==
    /\ part[e] = <<>>
    /\ body # <<>> => header # <<>>
    /\ ~Past(e, "readHeader") => got[e] = <<>> /\ buffer[e] = header \o body
    /\ Past(e, "readHeader") => header # <<>> /\ need[e] = size[Peer(e)]
    /\ Past(e, "readHeader") /\ ~Past(e, "readBody") => got[e] = <<>> /\ buffer[e] = body
    /\ Past(e, "readBody") => /\ Past(e, "readHeader")
                              /\ got[e] = <<body>>
                              /\ buffer[e] = <<>>
                              /\ body # <<>> \/ size[Peer(e)] = 0

StageInv(e) ==
    \E header, body \in {<<>>} \cup {content[q].data : q \in DOMAIN asked} :
        /\ HasArrived(Peer(e), "writeHeader", header)
        /\ HasArrived(Peer(e), "writeBody", body)
        /\ Stage(e, header, body)

FileInv ==
    program \in Ending =>
        /\ OnceInv
        /\ service = "one path" => \A e \in Ends : ~wrong[e] /\ StageInv(e)

\* At any time, whichever program runs and over whichever service: everything that was
\* written is where the calls of the programs and the order of the stream put it.
Inv == BaseInv /\ PingInv /\ FileInv
=============================================================================
