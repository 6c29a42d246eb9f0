-------------------------- MODULE SchedulerProofs ---------------------------
(***************************************************************************)
(* The ECMP scheduler and the state of the network, for Writes of every    *)
(* length, any number of paths, tickers, queries and packets.              *)
(***************************************************************************)
EXTENDS MCScheduler, SumProofs

-----------------------------------------------------------------------------
(* Numbers. *)

LEMMA DivMod ==
    ASSUME NEW a \in Nat, NEW n \in Nat \ {0}
    PROVE  /\ a \div n \in Nat /\ a % n \in 0 .. n - 1
           /\ a = n * (a \div n) + (a % n)
OBVIOUS

LEMMA Times ==
    ASSUME NEW i \in Nat \ {0}, NEW q \in Nat
    PROVE  i * q \in Nat /\ (i - 1) * q \in Nat /\ i * q = (i - 1) * q + q
<1>1. i - 1 \in Nat
  OBVIOUS
<1> PICK j \in Nat : i = j + 1
  BY <1>1
<1>2. (j + 1) * q = j * q + q
  OBVIOUS
<1>3. j * q \in Nat /\ (j + 1) * q \in Nat
  OBVIOUS
<1>4. i - 1 = j
  OBVIOUS
<1> QED
  BY <1>2, <1>3, <1>4

\* Where piece i ends: what PieceSize adds up to.
PieceEnd(total, m, i) == i * (total \div m) + (IF i <= total % m THEN i ELSE total % m)

LEMMA EndSteps ==
    ASSUME NEW total \in Nat, NEW m \in Nat \ {0}
    PROVE  /\ PieceEnd(total, m, 0) = 0 /\ PieceEnd(total, m, m) = total
           /\ \A i \in 0 .. m : PieceEnd(total, m, i) \in Nat
           /\ \A i \in 1 .. m : PieceEnd(total, m, i) = PieceEnd(total, m, i - 1) + PieceSize(total, m, i)
<1> PICK q, r : q = total \div m /\ r = total % m
  OBVIOUS
<1>1. q \in Nat /\ r \in 0 .. m - 1 /\ total = m * q + r
  BY DivMod
<1>2. \A i \in 0 .. m : PieceEnd(total, m, i) = i * q + (IF i <= r THEN i ELSE r)
  BY DEF PieceEnd
<1>3. ASSUME NEW i \in 1 .. m PROVE i * q = (i - 1) * q + q
  <2>1. i \in Nat \ {0}
    OBVIOUS
  <2> QED
    BY <1>1, <2>1, Times
<1>4. ASSUME NEW i \in 0 .. m PROVE i * q \in Nat
  <2>1. i \in Nat
    OBVIOUS
  <2> QED
    BY <1>1, <2>1
<1>5. \A i \in 1 .. m : PieceSize(total, m, i) = q + (IF i <= r THEN 1 ELSE 0)
  BY DEF PieceSize
<1>6. PieceEnd(total, m, 0) = 0 /\ PieceEnd(total, m, m) = total
  BY <1>1, <1>2
<1>7. ASSUME NEW i \in 0 .. m PROVE PieceEnd(total, m, i) \in Nat
  <2> PICK x : x = i * q
    OBVIOUS
  <2>1. x \in Nat /\ PieceEnd(total, m, i) = x + (IF i <= r THEN i ELSE r)
    BY <1>2, <1>4
  <2>2. (IF i <= r THEN i ELSE r) \in Nat
    BY <1>1
  <2> QED
    BY <2>1, <2>2
<1>8. ASSUME NEW i \in 1 .. m
      PROVE  PieceEnd(total, m, i) = PieceEnd(total, m, i - 1) + PieceSize(total, m, i)
  <2> PICK x, y : x = i * q /\ y = (i - 1) * q
    OBVIOUS
  <2>1. i \in 0 .. m /\ i - 1 \in 0 .. m
    OBVIOUS
  <2>2. /\ PieceEnd(total, m, i) = x + (IF i <= r THEN i ELSE r)
        /\ PieceEnd(total, m, i - 1) = y + (IF i - 1 <= r THEN i - 1 ELSE r)
    BY <1>2, <2>1
  <2>3. x \in Nat /\ y \in Nat /\ x = y + q
    BY <1>3, <1>4, <2>1
  <2>4. PieceSize(total, m, i) = q + (IF i <= r THEN 1 ELSE 0)
    BY <1>5
  <2> QED
    BY <1>1, <2>2, <2>3, <2>4
<1> QED
  BY <1>6, <1>7, <1>8

\* The loop of splitBytes computes them.
LEMMA PieceEndsIs ==
    ASSUME NEW total \in Nat, NEW n \in Nat \ {0}
    PROVE  PieceEnds(total, n) = [i \in 0 .. n |-> PieceEnd(total, n, i)]
<1> DEFINE Def(g) == [i \in 0 .. n |-> IF i = 0 THEN 0 ELSE g[i - 1] + PieceSize(total, n, i)]
           f == [i \in 0 .. n |-> PieceEnd(total, n, i)]
<1>1. f = Def(f)
  <2>1. ASSUME NEW i \in 0 .. n
        PROVE  f[i] = IF i = 0 THEN 0 ELSE f[i - 1] + PieceSize(total, n, i)
    <3>1. CASE i = 0
      BY <3>1, EndSteps
    <3>2. CASE i # 0
      <4>1. i \in 1 .. n /\ i - 1 \in 0 .. n
        BY <3>2
      <4>2. f[i] = PieceEnd(total, n, i) /\ f[i - 1] = PieceEnd(total, n, i - 1)
        BY <4>1
      <4> HIDE DEF f
      <4> QED
        BY <3>2, <4>1, <4>2, EndSteps
    <3> QED
      BY <3>1, <3>2
  <2> QED
    BY <2>1
<1>2. PICK end : end = PieceEnds(total, n)
  OBVIOUS
<1>3. end = Def(end)
  BY <1>1, <1>2 DEF PieceEnds
<1>4. \A i \in 0 .. n : end[i] = IF i = 0 THEN 0 ELSE end[i - 1] + PieceSize(total, n, i)
  BY <1>3
<1>5. \A i \in 0 .. n : f[i] = IF i = 0 THEN 0 ELSE f[i - 1] + PieceSize(total, n, i)
  BY <1>1
<1>6. 0 .. n \subseteq {i \in 0 .. n : end[i] = f[i]}
  <2> HIDE DEF f
  <2> DEFINE T == {i \in 0 .. n : end[i] = f[i]}
  <2>1. 0 \in T
    <3>1. 0 \in 0 .. n
      OBVIOUS
    <3> QED
      BY <1>4, <1>5, <3>1
  <2>2. ASSUME NEW i \in 1 .. n, i - 1 \in T PROVE i \in T
    <3>1. i \in 0 .. n /\ i # 0
      OBVIOUS
    <3> QED
      BY <1>4, <1>5, <2>2, <3>1
  <2> HIDE DEF T
  <2>3. 0 .. n \subseteq T
    BY <2>1, <2>2, Induction
  <2> QED
    BY <2>3 DEF T
<1> QED
  BY <1>2, <1>3, <1>6

LEMMA SplitBytesIs ==
    ASSUME NEW total \in Nat, NEW n \in Nat \ {0}, n <= total
    PROVE  SplitBytes(total, n) =
             [i \in 1 .. n |-> [from |-> PieceEnd(total, n, i - 1), to |-> PieceEnd(total, n, i)]]
<1> PICK end : end = PieceEnds(total, n)
  OBVIOUS
<1>1. end = [i \in 0 .. n |-> PieceEnd(total, n, i)]
  BY PieceEndsIs
<1>2. SplitBytes(total, n) = [i \in 1 .. n |-> [from |-> end[i - 1], to |-> end[i]]]
  BY DEF SplitBytes
<1>3. \A i \in 1 .. n : end[i - 1] = PieceEnd(total, n, i - 1) /\ end[i] = PieceEnd(total, n, i)
  BY <1>1
<1> QED
  BY <1>2, <1>3
-----------------------------------------------------------------------------
(* The parts of a Write. *)

\* A number has one quotient and one remainder.
LEMMA DivModUnique ==
    ASSUME NEW p \in Nat \ {0}, NEW x \in Nat, NEW y \in 0 .. p - 1
    PROVE  (p * x + y) \div p = x /\ (p * x + y) % p = y
<1> PICK a, u, v : a = p * x + y /\ u = a \div p /\ v = a % p
  OBVIOUS
<1>1. a \in Nat
  OBVIOUS
<1>2. u \in Nat /\ v \in 0 .. p - 1 /\ a = p * u + v
  BY <1>1, DivMod
<1>3. ASSUME u < x PROVE FALSE
  <2>1. p * (u + 1) <= p * x
    BY <1>2, <1>3
  <2>2. p * (u + 1) = p * u + p
    BY <1>2
  <2> QED
    BY <1>2, <2>1, <2>2
<1>4. ASSUME x < u PROVE FALSE
  <2>1. p * (x + 1) <= p * u
    BY <1>2, <1>4
  <2>2. p * (x + 1) = p * x + p
    OBVIOUS
  <2> QED
    BY <1>2, <2>1, <2>2
<1> QED
  BY <1>2, <1>3, <1>4

\* Part j of a share starts where the one before it ends, the first at the start of
\* the share, and the last ends at the end of the share.
LEMMA PartFacts ==
    ASSUME NEW a \in Nat, NEW b \in Nat, a <= b, NEW j \in 0 .. PartsPerStream - 1
    PROVE  LET share == [from |-> a, to |-> b]
           IN  /\ Part(share, 0).from = a
               /\ j = PartsPerStream - 1 => Part(share, j).to = b
               /\ j < PartsPerStream - 1 => Part(share, j).to = Part(share, j + 1).from
               /\ PartsPerStream <= b - a => Part(share, j).from < Part(share, j).to
<1> PICK total, p, s : total = b - a /\ p = PartsPerStream /\ s = total \div p
  OBVIOUS
<1> DEFINE share == [from |-> a, to |-> b]
<1>1. total \in Nat /\ p \in Nat \ {0}
  BY EcmpAssumption
<1>2. s \in Nat /\ total % p \in 0 .. p - 1 /\ total = p * s + (total % p)
  BY <1>1, DivMod
<1>3. \A i \in Nat : i * s \in Nat /\ (i + 1) * s = i * s + s
  BY <1>2
<1>4. \A i \in 0 .. p - 1 : (i + 1) * s <= p * s
  BY <1>1, <1>2
<1>5. p * s <= total
  BY <1>1, <1>2
<1>6. ASSUME NEW i \in 0 .. p - 1
      PROVE  /\ Part(share, i).from = a + i * s
             /\ Part(share, i).to = a + (IF i = p - 1 THEN total ELSE (i + 1) * s)
  <2>1. ~ ((i + 1) * s > total)
    <3>1. (i + 1) * s <= p * s /\ (i + 1) * s \in Nat /\ p * s \in Nat
      BY <1>1, <1>2, <1>4
    <3> QED
      BY <1>1, <1>5, <3>1
  <2> QED
    BY <2>1 DEF Part
<1>7. Part(share, 0).from = a
  BY <1>1, <1>2, <1>6
<1>8. j = p - 1 => Part(share, j).to = b
  BY <1>1, <1>6
<1>9. j < p - 1 => Part(share, j).to = Part(share, j + 1).from
  <2> SUFFICES ASSUME j < p - 1 PROVE Part(share, j).to = Part(share, j + 1).from
    OBVIOUS
  <2>1. j \in 0 .. p - 1 /\ j + 1 \in 0 .. p - 1 /\ j # p - 1
    BY <1>1
  <2>2. Part(share, j).to = a + (j + 1) * s /\ Part(share, j + 1).from = a + (j + 1) * s
    BY <1>6, <2>1
  <2> QED
    BY <2>2
<1>10. p <= total => Part(share, j).from < Part(share, j).to
  <2> SUFFICES ASSUME p <= total PROVE Part(share, j).from < Part(share, j).to
    OBVIOUS
  <2>1. s >= 1
    <3>1. CASE s = 0
      BY <1>1, <1>2, <3>1
    <3> QED
      BY <1>2, <3>1
  <2>2. j * s < (j + 1) * s /\ j * s \in Nat /\ (j + 1) * s \in Nat /\ (j + 1) * s <= total
    <3>1. j * s \in Nat /\ (j + 1) * s = j * s + s
      BY <1>3
    <3>2. (j + 1) * s <= p * s /\ p * s \in Nat
      BY <1>1, <1>2, <1>4
    <3> QED
      BY <1>1, <1>2, <1>5, <2>1, <3>1, <3>2
  <2>3. /\ Part(share, j).from = a + j * s
        /\ Part(share, j).to = a + (IF j = p - 1 THEN total ELSE (j + 1) * s)
    BY <1>6
  <2> QED
    BY <1>1, <2>2, <2>3
<1> QED
  BY <1>7, <1>8, <1>9, <1>10

\* Part j of stream number x + 1, counting from 0.
LEMMA PlaceFacts ==
    ASSUME NEW p \in Nat \ {0}, NEW n \in Nat \ {0}
    PROVE  /\ \A x \in 0 .. n - 1 : \A j \in 0 .. p - 1 :
                 /\ p * x + j + 1 \in 1 .. p * n
                 /\ (p * x + j) \div p = x /\ (p * x + j) % p = j
           /\ \A k \in 1 .. p * n : \E x \in 0 .. n - 1 : \E j \in 0 .. p - 1 : k = p * x + j + 1
<1>1. ASSUME NEW x \in 0 .. n - 1, NEW j \in 0 .. p - 1
      PROVE  /\ p * x + j + 1 \in 1 .. p * n
             /\ (p * x + j) \div p = x /\ (p * x + j) % p = j
  <2>1. x \in Nat
    OBVIOUS
  <2>2. (p * x + j) \div p = x /\ (p * x + j) % p = j
    BY <2>1, DivModUnique
  <2>3. p * (x + 1) <= p * n /\ p * (x + 1) = p * x + p /\ p * x \in Nat /\ p * n \in Nat
    BY <2>1
  <2> QED
    BY <2>2, <2>3
<1>2. ASSUME NEW k \in 1 .. p * n
      PROVE  \E x \in 0 .. n - 1 : \E j \in 0 .. p - 1 : k = p * x + j + 1
  <2> PICK a, x, j : a = k - 1 /\ x = a \div p /\ j = a % p
    OBVIOUS
  <2>1. a \in Nat /\ p * n \in Nat
    OBVIOUS
  <2>2. x \in Nat /\ j \in 0 .. p - 1 /\ a = p * x + j
    BY <2>1, DivMod
  <2>3. x < n
    <3>1. CASE n <= x
      <4>1. p * n <= p * x
        BY <2>2, <3>1
      <4> QED
        BY <2>1, <2>2, <4>1
    <3> QED
      BY <2>2, <3>1
  <2>4. x \in 0 .. n - 1 /\ k = p * x + j + 1
    BY <2>1, <2>2, <2>3
  <2> QED
    BY <2>2, <2>4
<1> QED
  BY <1>1, <1>2

\* Every piece of a long Write has bytes for all its parts.
LEMMA PieceFacts ==
    ASSUME NEW total \in Nat, NEW n \in Nat \ {0}, NEW p \in Nat, p * n <= total, NEW x \in 0 .. n - 1
    PROVE  /\ PieceEnd(total, n, x) \in Nat /\ PieceEnd(total, n, x + 1) \in Nat
           /\ p <= PieceEnd(total, n, x + 1) - PieceEnd(total, n, x)
<1> PICK q, a, b, z : /\ q = total \div n /\ a = PieceEnd(total, n, x)
                      /\ b = PieceEnd(total, n, x + 1) /\ z = PieceSize(total, n, x + 1)
  OBVIOUS
<1>1. q \in Nat /\ total % n \in 0 .. n - 1 /\ total = n * q + (total % n)
  BY DivMod
<1>2. p <= q
  <2>1. CASE q < p
    <3>1. n * (q + 1) <= n * p /\ n * (q + 1) = n * q + n
      BY <1>1, <2>1
    <3>2. n * q \in Nat /\ n * p = p * n /\ p * n \in Nat
      BY <1>1
    <3> QED
      BY <1>1, <3>1, <3>2
  <2> QED
    BY <1>1, <2>1
<1>3. z \in Nat /\ q <= z
  BY <1>1 DEF PieceSize
<1>4. x \in 0 .. n /\ x + 1 \in 1 .. n /\ x + 1 \in 0 .. n /\ (x + 1) - 1 = x
  OBVIOUS
<1>5. a \in Nat /\ b \in Nat /\ b = a + z
  <2>1. /\ \A i \in 0 .. n : PieceEnd(total, n, i) \in Nat
        /\ \A i \in 1 .. n : PieceEnd(total, n, i)
                               = PieceEnd(total, n, i - 1) + PieceSize(total, n, i)
    BY EndSteps
  <2>2. PieceEnd(total, n, x + 1)
          = PieceEnd(total, n, (x + 1) - 1) + PieceSize(total, n, x + 1)
    BY <1>4, <2>1
  <2> QED
    BY <1>4, <2>1, <2>2
<1> QED
  BY <1>2, <1>3, <1>5

\* ScheduleWrite, for a Write of any length and the dataplane streams in any order:
\* the parts, one after the other, are the Write.
Consecutive(d, total) ==
    /\ Len(d) \in Nat \ {0}
    /\ d[1].data.from = 0
    /\ d[Len(d)].data.to = total
    /\ \A k \in 1 .. Len(d) - 1 : d[k].data.to = d[k + 1].data.from

\* Part j of the share of stream x (both count from 0), in the order of the ids.
At(x, j) == PartsPerStream * x + j + 1
ShareOf(total, n, x) == [from |-> PieceEnd(total, n, x), to |-> PieceEnd(total, n, x + 1)]

\* The decision for a Write that is split.
LEMMA LongSchedule ==
    ASSUME NEW S, NEW order \in Seq(S), NEW n \in Nat \ {0}, Len(order) = n,
           PartsPerStream * n <= SmallWrite + 1, NEW total \in Nat, ~ (total <= SmallWrite),
           NEW d, d = ScheduleWrite(total, order)
    PROVE  /\ PartsPerStream * n \in Nat \ {0} /\ PartsPerStream * n <= total /\ n <= total
           /\ Len(d) = PartsPerStream * n /\ DOMAIN d = 1 .. PartsPerStream * n
           /\ \A x \in 0 .. n - 1 : \A j \in 0 .. PartsPerStream - 1 :
                 /\ At(x, j) \in 1 .. PartsPerStream * n
                 /\ d[At(x, j)] = [dp |-> order[x + 1], data |-> Part(ShareOf(total, n, x), j)]
<1> PICK p : p = PartsPerStream
  OBVIOUS
<1>1. p \in Nat \ {0} /\ SmallWrite \in Nat
  BY EcmpAssumption
<1>2. p * n \in Nat \ {0} /\ p * n <= total /\ n <= total
  <2>1. p * n \in Nat /\ n <= p * n
    BY <1>1
  <2> QED
    BY <1>1, <2>1
<1>3. SplitBytes(total, n) =
        [i \in 1 .. n |-> [from |-> PieceEnd(total, n, i - 1), to |-> PieceEnd(total, n, i)]]
  BY <1>2, SplitBytesIs
<1>4. d = [k \in 1 .. p * n |->
             [dp |-> order[(k - 1) \div p + 1],
              data |-> Part(SplitBytes(total, n)[(k - 1) \div p + 1], (k - 1) % p)]]
  BY DEF ScheduleWrite
<1>5. Len(d) = p * n /\ DOMAIN d = 1 .. p * n
  BY <1>2, <1>4
<1>6. ASSUME NEW x \in 0 .. n - 1, NEW j \in 0 .. p - 1
      PROVE  /\ At(x, j) \in 1 .. p * n
             /\ d[At(x, j)] = [dp |-> order[x + 1], data |-> Part(ShareOf(total, n, x), j)]
  <2> PICK k : k = At(x, j)
    OBVIOUS
  <2>1. k \in 1 .. p * n /\ k - 1 = p * x + j
    <3>1. p * x + j + 1 \in 1 .. p * n
      BY <1>1, PlaceFacts
    <3>2. p * x \in Nat
      BY <1>1
    <3> QED
      BY <1>1, <3>1, <3>2 DEF At
  <2>2. (k - 1) \div p = x /\ (k - 1) % p = j
    <3>1. (p * x + j) \div p = x /\ (p * x + j) % p = j
      BY <1>1, PlaceFacts
    <3> QED
      BY <2>1, <3>1
  <2>3. SplitBytes(total, n)[x + 1] = ShareOf(total, n, x)
    <3>1. x + 1 \in 1 .. n /\ (x + 1) - 1 = x
      OBVIOUS
    <3> QED
      BY <1>3, <3>1 DEF ShareOf
  <2>4. d[k] = [dp |-> order[(k - 1) \div p + 1],
                data |-> Part(SplitBytes(total, n)[(k - 1) \div p + 1], (k - 1) % p)]
    BY <1>4, <2>1
  <2> QED
    BY <2>1, <2>2, <2>3, <2>4
<1> QED
  BY <1>2, <1>5, <1>6

\* The parts of one share follow one another, and none is empty.
LEMMA ShareFacts ==
    ASSUME NEW n \in Nat \ {0}, NEW total \in Nat, PartsPerStream * n <= total,
           NEW x \in 0 .. n - 1, NEW j \in 0 .. PartsPerStream - 1
    PROVE  /\ Part(ShareOf(total, n, x), 0).from = PieceEnd(total, n, x)
           /\ j = PartsPerStream - 1 => Part(ShareOf(total, n, x), j).to = PieceEnd(total, n, x + 1)
           /\ j < PartsPerStream - 1 =>
                 Part(ShareOf(total, n, x), j).to = Part(ShareOf(total, n, x), j + 1).from
           /\ Part(ShareOf(total, n, x), j).from < Part(ShareOf(total, n, x), j).to
           /\ Part(ShareOf(total, n, x), j).from \in Int /\ Part(ShareOf(total, n, x), j).to \in Int
<1> PICK p, a, b, h : /\ p = PartsPerStream /\ h = ShareOf(total, n, x)
                      /\ a = PieceEnd(total, n, x) /\ b = PieceEnd(total, n, x + 1)
  OBVIOUS
<1>1. p \in Nat \ {0}
  BY EcmpAssumption
<1>2. a \in Nat /\ b \in Nat /\ p <= b - a
  BY <1>1, PieceFacts
<1>3. a <= b /\ p <= b - a
  BY <1>1, <1>2
<1>4. h = [from |-> a, to |-> b]
  BY DEF ShareOf
<1>5. Part(h, j).from \in Int /\ Part(h, j).to \in Int
  <2>1. (b - a) \div p \in Nat
    <3>1. b - a \in Nat
      BY <1>2, <1>3
    <3> QED
      BY <1>1, <3>1, DivMod
  <2> PICK s : s = (b - a) \div p
    OBVIOUS
  <2>2. j * s \in Nat /\ (j + 1) * s \in Nat
    BY <1>1, <2>1
  <2> QED
    BY <1>2, <1>4, <2>2 DEF Part
<1> QED
  BY <1>2, <1>3, <1>4, <1>5, PartFacts

LEMMA ScheduleFacts ==
    ASSUME NEW S, NEW order \in Seq(S), NEW n \in Nat \ {0}, Len(order) = n,
           PartsPerStream * n <= SmallWrite + 1, NEW total \in Nat,
           NEW d, d = ScheduleWrite(total, order)
    PROVE  /\ Consecutive(d, total)
           /\ total > 0 => \A k \in 1 .. Len(d) : d[k].data.from < d[k].data.to
<1>1. CASE total <= SmallWrite
  <2>1. d = <<[dp |-> Head(order), data |-> [from |-> 0, to |-> total]]>>
    BY <1>1 DEF ScheduleWrite
  <2>2. Len(d) = 1 /\ d[1].data.from = 0 /\ d[1].data.to = total
    BY <2>1
  <2>3. 1 .. Len(d) - 1 = {} /\ 1 .. Len(d) = {1}
    BY <2>2
  <2> QED
    BY <2>2, <2>3 DEF Consecutive
<1>2. CASE ~ (total <= SmallWrite)
  <2> PICK p : p = PartsPerStream
    OBVIOUS
  <2>1. p \in Nat \ {0}
    BY EcmpAssumption
  <2>a. \A k \in 1 .. p * n : \E x \in 0 .. n - 1 : \E j \in 0 .. p - 1 : k = p * x + j + 1
    BY <2>1, PlaceFacts, ZenonT(60)
  <2>2. p * n \in Nat \ {0} /\ p * n <= total /\ Len(d) = p * n
    BY <1>2, LongSchedule
  <2>6. \A x \in 0 .. n - 1 : \A j \in 0 .. p - 1 :
          At(x, j) \in 1 .. p * n /\ d[At(x, j)].data = Part(ShareOf(total, n, x), j)
    <3>1. \A x \in 0 .. n - 1 : \A j \in 0 .. p - 1 :
            /\ At(x, j) \in 1 .. p * n
            /\ d[At(x, j)] = [dp |-> order[x + 1], data |-> Part(ShareOf(total, n, x), j)]
      BY <1>2, LongSchedule
    <3>2. ASSUME NEW x \in 0 .. n - 1, NEW j \in 0 .. p - 1
          PROVE  At(x, j) \in 1 .. p * n /\ d[At(x, j)].data = Part(ShareOf(total, n, x), j)
      <4>1. /\ At(x, j) \in 1 .. p * n
            /\ d[At(x, j)] = [dp |-> order[x + 1], data |-> Part(ShareOf(total, n, x), j)]
        BY <3>1
      <4> QED
        BY ONLY <4>1
    <3> QED
      BY <3>2
  <2>7. ASSUME NEW x \in 0 .. n - 1, NEW j \in 0 .. p - 1
        PROVE  /\ Part(ShareOf(total, n, x), 0).from = PieceEnd(total, n, x)
               /\ j = p - 1 => Part(ShareOf(total, n, x), j).to = PieceEnd(total, n, x + 1)
               /\ j < p - 1 => Part(ShareOf(total, n, x), j).to = Part(ShareOf(total, n, x), j + 1).from
               /\ Part(ShareOf(total, n, x), j).from < Part(ShareOf(total, n, x), j).to
    BY <2>2, ShareFacts
  <2>8. PieceEnd(total, n, 0) = 0 /\ PieceEnd(total, n, n) = total
    BY EndSteps
    <2>9. d[1].data.from = 0
    <3>1. 0 \in 0 .. n - 1 /\ 0 \in 0 .. p - 1 /\ At(0, 0) = 1
      BY <2>1 DEF At
    <3> QED
      BY <2>6, <2>7, <2>8, <3>1
  <2>10. d[p * n].data.to = total
    <3>1. n - 1 \in 0 .. n - 1 /\ p - 1 \in 0 .. p - 1 /\ (n - 1) + 1 = n
      BY <2>1
    <3>2. At(n - 1, p - 1) = p * n
      <4>1. n * p = (n - 1) * p + p /\ p * n = n * p /\ p * (n - 1) = (n - 1) * p
        BY <2>1
      <4>2. p * (n - 1) \in Nat
        BY <2>1
      <4> QED
        BY <2>1, <4>1, <4>2 DEF At
    <3> QED
      BY <2>6, <2>7, <2>8, <3>1, <3>2
  <2>11. ASSUME NEW k \in 1 .. p * n - 1 PROVE d[k].data.to = d[k + 1].data.from
    <3>1. k \in 1 .. p * n
      BY <2>2
    <3>2. PICK x \in 0 .. n - 1 : \E j \in 0 .. p - 1 : k = p * x + j + 1
      BY <2>a, <3>1
    <3>3. PICK j \in 0 .. p - 1 : k = p * x + j + 1
      BY <3>2
    <3>4. p * x \in Nat /\ p * (x + 1) = p * x + p
      BY <2>1
    <3>5. CASE j < p - 1
      <4>1. j + 1 \in 0 .. p - 1 /\ At(x, j + 1) = k + 1 /\ At(x, j) = k
        BY <2>1, <3>3, <3>4, <3>5 DEF At
      <4> QED
        BY <2>6, <2>7, <3>5, <4>1
    <3>6. CASE j = p - 1
      <4>1. x + 1 \in 0 .. n - 1
        <5>1. CASE x = n - 1
          <6>1. x + 1 = n
            BY <5>1
          <6>2. p * (x + 1) = p * n
            BY <6>1
          <6> QED
            BY <2>1, <2>2, <3>3, <3>4, <3>6, <6>2
        <5> QED
          BY <5>1
      <4>2. 0 \in 0 .. p - 1 /\ At(x + 1, 0) = k + 1 /\ At(x, j) = k
        BY <2>1, <3>3, <3>4, <3>6 DEF At
      <4>3. d[k].data.to = PieceEnd(total, n, x + 1)
        BY <2>6, <2>7, <3>6, <4>2
      <4>4. d[k + 1].data.from = PieceEnd(total, n, x + 1)
        BY <2>6, <2>7, <4>1, <4>2, SMTT(30)
      <4> QED
        BY <4>3, <4>4
    <3> QED
      BY <2>1, <3>5, <3>6
  <2>12. ASSUME NEW k \in 1 .. p * n PROVE d[k].data.from < d[k].data.to
    <3>1. PICK x \in 0 .. n - 1 : \E j \in 0 .. p - 1 : k = p * x + j + 1
      BY <2>a
    <3>2. PICK j \in 0 .. p - 1 : k = p * x + j + 1
      BY <3>1
    <3> QED
      BY <2>6, <2>7, <3>2 DEF At
  <2> QED
    BY <2>2, <2>9, <2>10, <2>11, <2>12 DEF Consecutive
<1> QED
  BY <1>1, <1>2

\* A sum over consecutive indices, of differences.
Differences(f, s, n, pos) ==
    /\ s \in Nat /\ n \in Nat
    /\ \A i \in 0 .. n : pos[i] \in Int
    /\ \A i \in 1 .. n : f[s + i] \in Nat /\ pos[i] = pos[i - 1] + f[s + i]

LEMMA Telescope ==
    ASSUME NEW f, NEW s, NEW n, NEW pos, Differences(f, s, n, pos)
    PROVE  SumFunctionOnSet(f, s + 1 .. s + n) = pos[n] - pos[0]
<1> USE DEF Differences
<1> DEFINE T == {i \in 0 .. n : SumFunctionOnSet(f, s + 1 .. s + i) = pos[i] - pos[0]}
<1>1. ASSUME NEW i \in 0 .. n
      PROVE  IsFiniteSet(s + 1 .. s + i) /\ \A x \in s + 1 .. s + i : f[x] \in Nat
  <2>1. IsFiniteSet(s + 1 .. s + i)
    BY FS_Interval
  <2>2. ASSUME NEW x \in s + 1 .. s + i PROVE f[x] \in Nat
    <3>1. x - s \in 1 .. n /\ s + (x - s) = x
      OBVIOUS
    <3> QED
      BY <3>1
  <2> QED
    BY <2>1, <2>2
<1>2. 0 \in T
  <2>1. s + 1 .. s + 0 = {} /\ 0 \in 0 .. n
    OBVIOUS
  <2>2. SumFunctionOnSet(f, s + 1 .. s + 0) = 0
    BY <1>1, <2>1, SumFacts
  <2> QED
    BY <2>1, <2>2
<1>3. ASSUME NEW i \in 1 .. n, i - 1 \in T PROVE i \in T
  <2> DEFINE K == s + 1 .. s + i
             L == s + 1 .. s + (i - 1)
  <2>1. s + i \in K /\ K \ {s + i} = L /\ i \in 0 .. n
    OBVIOUS
  <2>2. IsFiniteSet(K) /\ \A x \in K : f[x] \in Nat
    BY <1>1, <2>1
  <2>3. SumFunctionOnSet(f, L) = pos[i - 1] - pos[0]
    BY <1>3
  <2> HIDE DEF K, L
  <2>4. SumFunctionOnSet(f, K) = f[s + i] + SumFunctionOnSet(f, L)
    BY <2>1, <2>2, SumFacts
  <2>5. f[s + i] \in Nat /\ pos[i] = pos[i - 1] + f[s + i]
    OBVIOUS
  <2>6. pos[i - 1] \in Int /\ pos[0] \in Int
    OBVIOUS
  <2>7. SumFunctionOnSet(f, K) = pos[i] - pos[0]
    BY ONLY <2>3, <2>4, <2>5, <2>6
  <2> QED
    BY <2>1, <2>7 DEF K
<1> HIDE DEF T
<1>4. 0 .. n \subseteq T
  BY <1>2, <1>3, Induction
<1> QED
  BY <1>4 DEF T

\* The bytes of the parts of one stream are those of its share.
LEMMA ShareSum ==
    ASSUME NEW S, NEW order \in Seq(S), NEW n \in Nat \ {0}, Len(order) = n,
           PartsPerStream * n <= SmallWrite + 1, NEW total \in Nat, ~ (total <= SmallWrite),
           NEW d, d = ScheduleWrite(total, order), NEW x \in 0 .. n - 1,
           \A y \in 0 .. n - 1 : order[y + 1] = order[x + 1] => y = x,
           NEW f, f = [k \in DOMAIN d |-> d[k].data.to - d[k].data.from],
           NEW K, K = {k \in DOMAIN d : d[k].dp = order[x + 1]}
    PROVE  SumFunctionOnSet(f, K) = PieceSize(total, n, x + 1)
<1> PICK p, h, s : p = PartsPerStream /\ h = ShareOf(total, n, x) /\ s = p * x
  OBVIOUS
<1>1. p \in Nat \ {0}
  BY EcmpAssumption
<1>2. s \in Nat
  BY <1>1
<1>3. p * n \in Nat \ {0} /\ p * n <= total /\ DOMAIN d = 1 .. p * n
  BY LongSchedule
<1>4. \A y \in 0 .. n - 1 : \A j \in 0 .. p - 1 :
        /\ At(y, j) \in 1 .. p * n
        /\ d[At(y, j)] = [dp |-> order[y + 1], data |-> Part(ShareOf(total, n, y), j)]
  BY LongSchedule
<1>5. ASSUME NEW y \in 0 .. n - 1, NEW j \in 0 .. p - 1
      PROVE  /\ At(y, j) \in 1 .. p * n /\ d[At(y, j)].dp = order[y + 1]
             /\ d[At(y, j)].data = Part(ShareOf(total, n, y), j)
  <2>1. /\ At(y, j) \in 1 .. p * n
        /\ d[At(y, j)] = [dp |-> order[y + 1], data |-> Part(ShareOf(total, n, y), j)]
    BY <1>4
  <2> QED
    BY ONLY <2>1
<1>6. \A k \in 1 .. p * n : \E y \in 0 .. n - 1 : \E j \in 0 .. p - 1 : k = p * y + j + 1
  <2>1. n \in Nat \ {0}
    OBVIOUS
  <2> QED
    BY ONLY <1>1, <2>1, PlaceFacts
<1>7. K = s + 1 .. s + p
  <2>1. ASSUME NEW k \in 1 .. p * n, d[k].dp = order[x + 1] PROVE k \in s + 1 .. s + p
    <3>1. PICK y \in 0 .. n - 1 : \E j \in 0 .. p - 1 : k = p * y + j + 1
      BY <1>6
    <3>2. PICK j \in 0 .. p - 1 : k = p * y + j + 1
      BY <3>1
    <3>3. k = At(y, j)
      BY <3>2 DEF At
    <3>4. order[y + 1] = order[x + 1]
      BY <1>5, <2>1, <3>3
    <3>5. y = x
      BY <3>4
    <3>6. k = s + j + 1
      BY <3>2, <3>5
    <3> QED
      BY <1>1, <1>2, <3>6, SMTT(30)
  <2>2. ASSUME NEW k \in s + 1 .. s + p PROVE k \in 1 .. p * n /\ d[k].dp = order[x + 1]
    <3>1. k - s - 1 \in 0 .. p - 1 /\ k = s + (k - s - 1) + 1
      BY ONLY <1>1, <1>2, <2>2
    <3>2. k = At(x, k - s - 1)
      BY <3>1 DEF At
    <3> QED
      BY <1>5, <3>1, <3>2, SMTT(30)
  <2> QED
    BY <1>3, <2>1, <2>2
<1> DEFINE pos == [i \in 0 .. p |-> IF i = 0 THEN PieceEnd(total, n, x) ELSE Part(h, i - 1).to]
<1>8. ASSUME NEW j \in 0 .. p - 1
      PROVE  /\ Part(h, 0).from = PieceEnd(total, n, x)
             /\ j = p - 1 => Part(h, j).to = PieceEnd(total, n, x + 1)
             /\ j < p - 1 => Part(h, j).to = Part(h, j + 1).from
             /\ Part(h, j).from < Part(h, j).to
             /\ Part(h, j).from \in Int /\ Part(h, j).to \in Int
  BY <1>3, ShareFacts
<1>9. ASSUME NEW i \in 1 .. p
      PROVE  /\ f[s + i] \in Nat /\ pos[i] = pos[i - 1] + f[s + i] /\ pos[i] \in Int
             /\ pos[i - 1] \in Int
  <2>1. i - 1 \in 0 .. p - 1
    BY <1>1
  <2>2. At(x, i - 1) = s + i
    BY <1>1, <1>2 DEF At
  <2>3. s + i \in 1 .. p * n /\ d[s + i].data = Part(h, i - 1)
    BY <1>5, <2>1, <2>2
  <2>4. f[s + i] = Part(h, i - 1).to - Part(h, i - 1).from
    BY <1>3, <2>3
  <2>5. /\ Part(h, i - 1).from < Part(h, i - 1).to
        /\ Part(h, i - 1).from \in Int /\ Part(h, i - 1).to \in Int
    BY <1>8, <2>1
  <2>6. pos[i] = Part(h, i - 1).to
    BY <1>1
  <2>7. pos[i - 1] = Part(h, i - 1).from
    <3>1. CASE i = 1
      <4>1. pos[0] = PieceEnd(total, n, x) /\ 0 \in 0 .. p - 1
        BY <1>1
      <4>2. pos[0] = Part(h, 0).from
        BY <1>8, <4>1
      <4> QED
        BY <3>1, <4>2
    <3>2. CASE i # 1
      <4>1. i - 2 \in 0 .. p - 1 /\ i - 2 < p - 1 /\ (i - 2) + 1 = i - 1 /\ (i - 1) - 1 = i - 2
        BY ONLY <1>1, <1>9, <3>2
      <4>2. pos[i - 1] = Part(h, i - 2).to
        BY <1>1, <3>2, <4>1
      <4>3. Part(h, i - 2).to = Part(h, (i - 2) + 1).from
        BY <1>8, <4>1
      <4> QED
        BY <4>1, <4>2, <4>3
    <3> QED
      BY <3>1, <3>2
  <2> HIDE DEF pos
  <2> QED
    BY ONLY <2>4, <2>5, <2>6, <2>7
<1>10. pos[0] = PieceEnd(total, n, x) /\ pos[p] = PieceEnd(total, n, x + 1)
  <2>1. p - 1 \in 0 .. p - 1
    BY <1>1
  <2>2. Part(h, p - 1).to = PieceEnd(total, n, x + 1)
    BY <1>8, <2>1
  <2> QED
    BY <1>1, <2>2
<1>11. \A i \in 0 .. p : pos[i] \in Int
  <2> HIDE DEF pos
  <2>1. ASSUME NEW i \in 0 .. p PROVE pos[i] \in Int
    <3>1. CASE i = 0
      <4>1. 1 \in 1 .. p /\ 1 - 1 = 0
        BY <1>1
      <4>2. pos[1 - 1] \in Int
        BY <1>9, <4>1
      <4> QED
        BY <3>1, <4>1, <4>2
    <3>2. CASE i \in 1 .. p
      BY <1>9, <3>2
    <3> QED
      BY <1>1, <3>1, <3>2
  <2> QED
    BY <2>1
<1> HIDE DEF pos
<1>12. SumFunctionOnSet(f, s + 1 .. s + p) = pos[p] - pos[0]
  <2>1. p \in Nat
    BY <1>1
  <2>2. \A i \in 1 .. p : f[s + i] \in Nat /\ pos[i] = pos[i - 1] + f[s + i]
    BY <1>9
  <2>3. Differences(f, s, p, pos)
    BY ONLY <1>2, <1>11, <2>1, <2>2 DEF Differences
  <2> QED
    BY ONLY <2>3, Telescope
<1>13. /\ PieceEnd(total, n, x + 1) = PieceEnd(total, n, x) + PieceSize(total, n, x + 1)
       /\ PieceEnd(total, n, x) \in Nat
  <2>1. /\ \A i \in 0 .. n : PieceEnd(total, n, i) \in Nat
        /\ \A i \in 1 .. n : PieceEnd(total, n, i) = PieceEnd(total, n, i - 1) + PieceSize(total, n, i)
    BY EndSteps, ZenonT(60)
  <2>2. x + 1 \in 1 .. n /\ (x + 1) - 1 = x /\ x \in 0 .. n
    OBVIOUS
  <2> QED
    BY <2>1, <2>2
<1>14. PieceSize(total, n, x + 1) \in Nat
  <2>1. total \div n \in Nat
    BY DivMod
  <2> QED
    BY <2>1 DEF PieceSize
<1>15. SumFunctionOnSet(f, s + 1 .. s + p) = PieceSize(total, n, x + 1)
  BY ONLY <1>10, <1>12, <1>13, <1>14
<1> QED
  BY <1>7, <1>15

-----------------------------------------------------------------------------
(* The scenario of the Write. *)

\* No Write is shorter than MinLen, and there are at most MaxStreams streams.
WriteInv == len \in Nat /\ streams \in 0 .. MaxStreams

LEMMA WriteInvariant == MCSpec => []WriteInv
<1>1. MCInit => WriteInv
  BY MCSchedulerAssumption, EcmpAssumption DEF MCInit, WriteInv
<1>2. WriteInv /\ [MCNext]_<<vars, len, streams>> => WriteInv'
  BY DEF WriteInv, MCNext, LongerWrite
<1> QED
  BY <1>1, <1>2, PTL DEF MCSpec

\* What ScheduleWrite is called with, when there is a Write.
LEMMA WriteFacts ==
    ASSUME WriteInv, streams > 0
    PROVE  /\ [i \in 1 .. streams |-> i] \in Seq(Nat)
           /\ Len([i \in 1 .. streams |-> i]) = streams
           /\ streams \in Nat \ {0} /\ len \in Nat
           /\ PartsPerStream * streams <= SmallWrite + 1
<1>1. streams \in Nat \ {0} /\ len \in Nat
  BY MCSchedulerAssumption DEF WriteInv
<1>2. PartsPerStream * streams <= SmallWrite + 1
  <2> PICK p, n, m, s : p = PartsPerStream /\ n = streams /\ m = MaxStreams /\ s = SmallWrite
    OBVIOUS
  <2>1. p \in Nat /\ m \in Nat /\ s \in Nat /\ p * m <= s + 1 /\ n \in Nat /\ n <= m
    BY <1>1, EcmpAssumption, MCSchedulerAssumption DEF WriteInv
  <2>2. p * n <= p * m /\ p * n \in Nat /\ p * m \in Nat
    BY ONLY <2>1
  <2> QED
    BY <2>1, <2>2
<1>3. [i \in 1 .. streams |-> i] \in [1 .. streams -> Nat]
  BY <1>1
<1> QED
  BY <1>1, <1>2, <1>3

\* The parts of a Write, in the order of their ids, are its bytes, for every length
\* of the Write and every number of dataplane streams up to MaxStreams.
THEOREM SplitKeepsTheWrite == MCSpec => []PartsAreTheWrite
<1>1. WriteInv => PartsAreTheWrite
  <2> SUFFICES ASSUME WriteInv, streams > 0
               PROVE  /\ decision[1].data.from = 0
                      /\ decision[Len(decision)].data.to = len
                      /\ \A k \in 1 .. Len(decision) - 1 :
                            decision[k].data.to = decision[k + 1].data.from
    BY DEF PartsAreTheWrite
  <2> PICK order, d : order = [i \in 1 .. streams |-> i] /\ d = decision
    OBVIOUS
  <2>1. /\ order \in Seq(Nat) /\ Len(order) = streams /\ streams \in Nat \ {0}
        /\ len \in Nat /\ PartsPerStream * streams <= SmallWrite + 1
    BY WriteFacts
  <2>2. d = ScheduleWrite(len, order)
    BY DEF decision
  <2>3. Consecutive(d, len)
    BY <2>1, <2>2, ScheduleFacts
  <2> QED
    BY <2>3 DEF Consecutive
<1> QED
  BY <1>1, WriteInvariant, PTL

\* No part is empty, for every length of the Write but 0 and every number of
\* dataplane streams up to MaxStreams.
THEOREM NoPartIsEmpty == MCSpec => []NoEmptyPart
<1>1. WriteInv => NoEmptyPart
  <2> SUFFICES ASSUME WriteInv, streams > 0, len > 0
               PROVE  \A k \in 1 .. Len(decision) : decision[k].data.from < decision[k].data.to
    BY DEF NoEmptyPart
  <2> PICK order, d : order = [i \in 1 .. streams |-> i] /\ d = decision
    OBVIOUS
  <2>1. /\ order \in Seq(Nat) /\ Len(order) = streams /\ streams \in Nat \ {0}
        /\ len \in Nat /\ PartsPerStream * streams <= SmallWrite + 1
    BY WriteFacts
  <2>2. d = ScheduleWrite(len, order)
    BY DEF decision
  <2>3. len > 0 => \A k \in 1 .. Len(d) : d[k].data.from < d[k].data.to
    BY <2>1, <2>2, ScheduleFacts
  <2> QED
    BY <2>3
<1> QED
  BY <1>1, WriteInvariant, PTL

\* Any two dataplane streams carry the same number of bytes of a Write that is
\* split, but for one byte, for every length and every number of streams up to
\* MaxStreams.
THEOREM SplitIsBalanced == MCSpec => []Balanced
<1>1. WriteInv => Balanced
  <2> SUFFICES ASSUME WriteInv, streams > 0, len > SmallWrite,
                      NEW x \in 1 .. streams, NEW y \in 1 .. streams
               PROVE  Share(x) <= Share(y) + 1
    BY DEF Balanced
  <2> PICK order, d, f : /\ order = [i \in 1 .. streams |-> i] /\ d = decision
                         /\ f = [k \in DOMAIN d |-> d[k].data.to - d[k].data.from]
    OBVIOUS
  <2>1. /\ order \in Seq(Nat) /\ Len(order) = streams /\ streams \in Nat \ {0}
        /\ len \in Nat /\ PartsPerStream * streams <= SmallWrite + 1
    BY WriteFacts
  <2>2. d = ScheduleWrite(len, order)
    BY DEF decision
  <2>3. ~ (len <= SmallWrite)
    BY <2>1, EcmpAssumption
  <2>4. ASSUME NEW z \in 1 .. streams PROVE Share(z) = PieceSize(len, streams, z)
    <3>1. \A i \in 0 .. streams - 1 : order[i + 1] = i + 1
      BY <2>1
    <3> PICK u, K : u = z - 1 /\ K = {k \in DOMAIN d : d[k].dp = z}
      OBVIOUS
    <3>2. u \in 0 .. streams - 1 /\ u + 1 = z /\ order[u + 1] = z
      BY <2>1
    <3>3. \A i \in 0 .. streams - 1 : order[i + 1] = order[u + 1] => i = u
      BY <3>1, <3>2
    <3>4. K = {k \in DOMAIN d : d[k].dp = order[u + 1]}
      BY <3>2
    <3>5. f = [k \in DOMAIN d |-> d[k].data.to - d[k].data.from]
      OBVIOUS
    <3>6. SumFunctionOnSet(f, K) = PieceSize(len, streams, u + 1)
      BY ONLY <2>1, <2>2, <2>3, <3>2, <3>3, <3>4, <3>5, ShareSum, SMTT(30)
    <3>7. Share(z) = SumFunctionOnSet(f, K)
      BY DEF Share
    <3> QED
      BY <3>2, <3>6, <3>7
  <2>5. len \div streams \in Nat
    BY <2>1, DivMod
  <2>6. PieceSize(len, streams, x) <= PieceSize(len, streams, y) + 1
    BY <2>5 DEF PieceSize
  <2> QED
    BY <2>4, <2>6
<1> QED
  BY <1>1, WriteInvariant, PTL

-----------------------------------------------------------------------------
(* What is measured. *)

EntryState == [state : {"active", "inactive"}, pref : {"latency", "throughput"},
               counters : [Counters -> Nat], begun : [Counters -> Nat],
               added : [Counters -> Seq(Nat)], settled : [Counters -> Nat]]

\* The entries that LatestPackets allows.
SoundEntry ==
    {e \in EntryState :
        /\ \A c \in Counters : Latest(e.counters[c], e.added[c], e.settled[c])
        /\ e.counters["CwndDecreaseEvents"] = Len(e.added["CwndDecreaseEvents"])}

Copied == [path : Entries, counters : [Counters -> Nat]]

\* Every pointer that is in use points to a sound entry.  A tracer that has loaded a
\* counter has what was latest when it loaded; only it adds to the path, so that is
\* still so when it stores, whatever the tickers have reset since.
HeapInv ==
    /\ load \in Loads
    /\ DOMAIN remotes \subseteq Entries
    /\ remotes \in [DOMAIN remotes -> Slots]
    /\ heap \in [Entries -> [Slots -> SoundEntry \cup {None}]]
    /\ \A p \in DOMAIN remotes : heap[p][remotes[p]] \in SoundEntry

\* What an addition a has loaded is latest in the entry e that it will store to.
SoundAddition(a, e) ==
    /\ a \in Adding /\ e \in SoundEntry
    /\ Latest(a.loaded, e.added[a.counter], e.settled[a.counter])
    /\ a.counter = "CwndDecreaseEvents" => a.loaded = Len(e.added[a.counter]) /\ a.n = 1

TracerInv ==
    /\ DOMAIN tracer = Entries
    /\ \A p \in Entries : tracer[p] # None => SoundAddition(tracer[p], heap[p][tracer[p].slot])

\* In the entry that the map holds, and in the one that the tracer of the path adds to,
\* of the additions that have begun all have ended but the one under way.
InUse(p, s) == \/ p \in DOMAIN remotes /\ remotes[p] = s
               \/ tracer[p] # None /\ tracer[p].slot = s

Pending(p, s, c) == IF UnderWay(p, s, c) THEN 1 ELSE 0

Exact(p, s) ==
    \A c \in Counters : heap[p][s].begun[c] = Len(heap[p][s].added[c]) + Pending(p, s, c)

CountInv == \A p \in Entries, s \in Slots : InUse(p, s) => Exact(p, s)

TickerState == [pc : {"sleep", "scan", "reset"}, todo : SUBSET Entries,
                hold : (Entries \X Slots) \cup {None}, copies : Seq(Copied)]

\* What a ticker has in its hand is an entry, which AddRemote may have replaced.
TickerOK(k) ==
    /\ k.todo \subseteq DOMAIN remotes
    /\ k.hold # None => heap[k.hold[1]][k.hold[2]] \in SoundEntry

TickerInv ==
    /\ ticker \in [Tickers -> TickerState]
    /\ \A t \in Tickers : TickerOK(ticker[t])

NetInv == HeapInv /\ TracerInv /\ CountInv /\ TickerInv

\* The total of no additions, which may all be settled.
LEMMA LatestNone ==
    ASSUME NEW s \in Seq(Nat), NEW z \in 0 .. Len(s)
    PROVE  Latest(0, s, z)
<1>1. Len(s) \in z .. Len(s) /\ Len(s) + 1 .. Len(s) = {}
  OBVIOUS
<1>2. SumFunctionOnSet(s, {}) = 0
  BY SumFacts, FS_EmptySet
<1> QED
  BY <1>1, <1>2 DEF Latest

\* One addition more.
LEMMA LatestAppend ==
    ASSUME NEW s \in Seq(Nat), NEW v \in Nat, NEW n \in Nat, NEW z \in Nat, Latest(v, s, z)
    PROVE  Latest(v + n, Append(s, n), z)
<1> PICK m, u : m = Len(s) /\ u = Append(s, n)
  OBVIOUS
<1>1. /\ m \in Nat /\ Len(u) = m + 1 /\ u[m + 1] = n
      /\ \A i \in 1 .. m : u[i] = s[i] /\ s[i] \in Nat
  OBVIOUS
<1>2. PICK k \in z .. m : v = SumFunctionOnSet(s, k + 1 .. m)
  BY DEF Latest
<1>a. k \in Nat
  BY <1>1
<1> DEFINE K == k + 1 .. m
           L == k + 1 .. m + 1
<1>3. m + 1 \in L /\ L \ {m + 1} = K /\ K \subseteq 1 .. m /\ L \subseteq 1 .. m + 1
  BY <1>1
<1>4. IsFiniteSet(K) /\ IsFiniteSet(L)
  BY <1>1, <1>a, FS_Interval
<1> HIDE DEF K, L
<1>5. \A i \in K : s[i] \in Nat /\ u[i] = s[i]
  BY <1>1, <1>3
<1>6. \A i \in L : u[i] \in Nat
  BY <1>1, <1>3
<1>7. SumFunctionOnSet(u, K) = SumFunctionOnSet(s, K)
  BY <1>4, <1>5, SumSame
<1>8. SumFunctionOnSet(u, L) = u[m + 1] + SumFunctionOnSet(u, L \ {m + 1})
  <2>1. \A x \in L : SumFunctionOnSet(u, L) = u[x] + SumFunctionOnSet(u, L \ {x})
    BY ONLY <1>4, <1>6, SumFacts
  <2> QED
    BY <1>3, <2>1
<1>9. SumFunctionOnSet(u, L) = v + n
  <2>1. v = SumFunctionOnSet(s, K)
    BY <1>2 DEF K
  <2>2. v \in Nat /\ n \in Nat
    OBVIOUS
  <2>3. u[m + 1] = n
    BY <1>1
  <2>4. SumFunctionOnSet(u, L \ {m + 1}) = SumFunctionOnSet(u, K)
    BY <1>3, Zenon
  <2> PICK x, y : x = SumFunctionOnSet(u, L \ {m + 1}) /\ y = SumFunctionOnSet(u, L)
    OBVIOUS
  <2>5. y = n + x /\ x = v
    BY <1>7, <1>8, <2>1, <2>3, <2>4, Zenon
  <2> QED
    BY <2>2, <2>5
<1>10. v + n = SumFunctionOnSet(u, k + 1 .. Len(u)) /\ k \in z .. Len(u)
  BY <1>1, <1>9 DEF L
<1> QED
  BY <1>10 DEF Latest

-----------------------------------------------------------------------------
(* The entries. *)

LEMMA NewIsSound ==
    /\ NewEntry \in SoundEntry
    /\ \A c \in Counters : NewEntry.begun[c] = 0 /\ Len(NewEntry.added[c]) = 0
<1>1. \A c \in Counters : /\ NewEntry.counters[c] = 0 /\ NewEntry.added[c] = <<>>
                          /\ NewEntry.settled[c] = 0 /\ NewEntry.begun[c] = 0
  BY DEF NewEntry
<1>2. NewEntry \in EntryState
  BY DEF NewEntry, EntryState
<1>3. <<>> \in Seq(Nat) /\ Len(<<>>) = 0 /\ 0 \in 0 .. Len(<<>>)
  OBVIOUS
<1>4. Latest(0, <<>>, 0)
  BY <1>3, LatestNone
<1> QED
  BY <1>1, <1>2, <1>3, <1>4 DEF SoundEntry, Counters

\* What an entry is made of, for the steps that change a part of it.
LEMMA EntryFacts ==
    ASSUME NEW e \in SoundEntry
    PROVE  /\ e = [state |-> e.state, pref |-> e.pref, counters |-> e.counters,
                   begun |-> e.begun, added |-> e.added, settled |-> e.settled]
           /\ e.state \in {"active", "inactive"} /\ e.pref \in {"latency", "throughput"}
           /\ e.counters \in [Counters -> Nat] /\ e.begun \in [Counters -> Nat]
           /\ e.added \in [Counters -> Seq(Nat)] /\ e.settled \in [Counters -> Nat]
           /\ \A c \in Counters : /\ Latest(e.counters[c], e.added[c], e.settled[c])
                                  /\ e.settled[c] \in 0 .. Len(e.added[c])
           /\ e.counters["CwndDecreaseEvents"] = Len(e.added["CwndDecreaseEvents"])
<1>1. e \in EntryState
  BY DEF SoundEntry
<1>2. /\ e = [state |-> e.state, pref |-> e.pref, counters |-> e.counters,
              begun |-> e.begun, added |-> e.added, settled |-> e.settled]
      /\ e.state \in {"active", "inactive"} /\ e.pref \in {"latency", "throughput"}
      /\ e.counters \in [Counters -> Nat] /\ e.begun \in [Counters -> Nat]
      /\ e.added \in [Counters -> Seq(Nat)] /\ e.settled \in [Counters -> Nat]
  BY <1>1 DEF EntryState
<1>3. ASSUME NEW c \in Counters
      PROVE  /\ Latest(e.counters[c], e.added[c], e.settled[c])
             /\ e.settled[c] \in 0 .. Len(e.added[c])
  <2>1. Latest(e.counters[c], e.added[c], e.settled[c])
    BY DEF SoundEntry
  <2>2. PICK k \in e.settled[c] .. Len(e.added[c]) : TRUE
    BY <2>1 DEF Latest
  <2>3. e.settled[c] \in Nat /\ Len(e.added[c]) \in Nat
    BY <1>2
  <2> QED
    BY <2>1, <2>2, <2>3
<1> QED
  BY <1>2, <1>3 DEF SoundEntry

LEMMA LenNat == \A s \in Seq(Nat) : Len(s) \in Nat
  OBVIOUS

\* An entry of sound parts is sound.
LEMMA SoundParts ==
    ASSUME NEW e,
           e = [state |-> e.state, pref |-> e.pref, counters |-> e.counters,
                begun |-> e.begun, added |-> e.added, settled |-> e.settled],
           e.state \in {"active", "inactive"}, e.pref \in {"latency", "throughput"},
           e.counters \in [Counters -> Nat], e.begun \in [Counters -> Nat],
           e.added \in [Counters -> Seq(Nat)], e.settled \in [Counters -> Nat],
           \A c \in Counters : Latest(e.counters[c], e.added[c], e.settled[c]),
           e.counters["CwndDecreaseEvents"] = Len(e.added["CwndDecreaseEvents"])
    PROVE  e \in SoundEntry
<1>1. e \in EntryState
  BY DEF EntryState
<1> QED
  BY <1>1 DEF SoundEntry

\* What a reset, the end of an addition and its beginning make of an entry.
ResetIn(e, r, z) == [e EXCEPT !.counters[r] = 0, !.settled[r] = z]
AddIn(e, a) == [e EXCEPT !.counters[a.counter] = a.loaded + a.n, !.added[a.counter] = Append(@, a.n)]
BeginIn(e, r) == [e EXCEPT !.begun[r] = @ + 1]

LEMMA ResetIsSound ==
    ASSUME NEW e \in SoundEntry, NEW r \in {"Throughput", "Packetloss"},
           NEW z \in 0 .. Len(e.added[r]),
           NEW f, f = ResetIn(e, r, z)
    PROVE  /\ f \in SoundEntry
           /\ f.added = e.added /\ f.begun = e.begun
           /\ f.settled = [e.settled EXCEPT ![r] = z]
<1> PICK cs, ss : cs = [e.counters EXCEPT ![r] = 0] /\ ss = [e.settled EXCEPT ![r] = z]
  OBVIOUS
<1>1. /\ e = [state |-> e.state, pref |-> e.pref, counters |-> e.counters,
              begun |-> e.begun, added |-> e.added, settled |-> e.settled]
      /\ e.state \in {"active", "inactive"} /\ e.pref \in {"latency", "throughput"}
      /\ e.counters \in [Counters -> Nat] /\ e.begun \in [Counters -> Nat]
      /\ e.added \in [Counters -> Seq(Nat)] /\ e.settled \in [Counters -> Nat]
      /\ \A c \in Counters : Latest(e.counters[c], e.added[c], e.settled[c])
      /\ e.counters["CwndDecreaseEvents"] = Len(e.added["CwndDecreaseEvents"])
  BY EntryFacts
<1>2. f = [state |-> e.state, pref |-> e.pref, counters |-> cs,
           begun |-> e.begun, added |-> e.added, settled |-> ss]
  BY <1>1 DEF ResetIn
<1>3. r \in Counters /\ z \in Nat /\ e.added[r] \in Seq(Nat)
  BY <1>1 DEF Counters
<1>4. cs \in [Counters -> Nat] /\ ss \in [Counters -> Nat]
  BY <1>1, <1>3
<1>5. ASSUME NEW c \in Counters PROVE Latest(cs[c], e.added[c], ss[c])
  <2>1. Latest(0, e.added[r], z)
    BY <1>3, LatestNone
  <2>2. cs[c] = (IF c = r THEN 0 ELSE e.counters[c]) /\ ss[c] = (IF c = r THEN z ELSE e.settled[c])
    BY <1>1
  <2> QED
    BY <1>1, <2>1, <2>2
<1>6. cs["CwndDecreaseEvents"] = Len(e.added["CwndDecreaseEvents"])
  BY <1>1 DEF Counters
<1>7. f \in SoundEntry
  <2>1. /\ f.state = e.state /\ f.pref = e.pref /\ f.counters = cs
        /\ f.begun = e.begun /\ f.added = e.added /\ f.settled = ss
    BY <1>2
  <2>2. f = [state |-> f.state, pref |-> f.pref, counters |-> f.counters,
             begun |-> f.begun, added |-> f.added, settled |-> f.settled]
    BY <1>2
  <2> QED
    BY ONLY <1>1, <1>4, <1>5, <1>6, <2>1, <2>2, SoundParts
<1> QED
  BY <1>2, <1>7

\* f is sound, and e with one addition more to counter r.
OneMore(e, r, f) ==
    /\ f \in SoundEntry /\ f.begun = e.begun
    /\ \A c \in Counters : Len(f.added[c]) = Len(e.added[c]) + (IF c = r THEN 1 ELSE 0)

LEMMA AddIsSound ==
    ASSUME NEW e \in SoundEntry, NEW a \in Adding, SoundAddition(a, e),
           NEW f, f = AddIn(e, a)
    PROVE  OneMore(e, a.counter, f)
<1> PICK x, v, n, s : x = a.counter /\ v = a.loaded /\ n = a.n /\ s = e.added[x]
  OBVIOUS
<1> PICK cs, as : cs = [e.counters EXCEPT ![x] = v + n] /\ as = [e.added EXCEPT ![x] = Append(s, n)]
  OBVIOUS
<1>0. /\ e \in SoundEntry /\ a \in Adding /\ Latest(v, s, e.settled[x])
      /\ x = "CwndDecreaseEvents" => v = Len(s) /\ n = 1
  BY DEF SoundAddition
<1>1. /\ e = [state |-> e.state, pref |-> e.pref, counters |-> e.counters,
              begun |-> e.begun, added |-> e.added, settled |-> e.settled]
      /\ e.state \in {"active", "inactive"} /\ e.pref \in {"latency", "throughput"}
      /\ e.counters \in [Counters -> Nat] /\ e.begun \in [Counters -> Nat]
      /\ e.added \in [Counters -> Seq(Nat)] /\ e.settled \in [Counters -> Nat]
      /\ \A c \in Counters : Latest(e.counters[c], e.added[c], e.settled[c])
      /\ e.counters["CwndDecreaseEvents"] = Len(e.added["CwndDecreaseEvents"])
  BY <1>0, EntryFacts
<1>2. x \in Counters /\ v \in Nat /\ n \in Nat
  BY <1>0 DEF Adding
<1>3. s \in Seq(Nat) /\ e.settled[x] \in Nat
  BY <1>1, <1>2
<1>4. f = [state |-> e.state, pref |-> e.pref, counters |-> cs,
           begun |-> e.begun, added |-> as, settled |-> e.settled]
  <2> PICK g, w : g = [e EXCEPT !.counters[x] = v + n] /\ w = Append(s, n)
    OBVIOUS
  <2>1. f = [g EXCEPT !.added[x] = w]
    BY Zenon DEF AddIn
  <2>2. g = [state |-> e.state, pref |-> e.pref, counters |-> cs,
             begun |-> e.begun, added |-> e.added, settled |-> e.settled]
    BY <1>1
  <2>3. as = [e.added EXCEPT ![x] = w]
    BY Zenon
  <2> QED
    BY ONLY <2>1, <2>2, <2>3
<1>5. v + n \in Nat /\ Append(s, n) \in Seq(Nat) /\ Len(Append(s, n)) = Len(s) + 1
  BY <1>2, <1>3
<1>6. cs \in [Counters -> Nat] /\ as \in [Counters -> Seq(Nat)]
  BY <1>1, <1>2, <1>5
<1>7. Latest(v + n, Append(s, n), e.settled[x])
  BY <1>0, <1>2, <1>3, LatestAppend
<1>8. ASSUME NEW c \in Counters
      PROVE  /\ cs[c] = IF c = x THEN v + n ELSE e.counters[c]
             /\ as[c] = IF c = x THEN Append(s, n) ELSE e.added[c]
  BY <1>1
<1>9. ASSUME NEW c \in Counters PROVE Latest(cs[c], as[c], e.settled[c])
  BY <1>1, <1>7, <1>8
<1>10. cs["CwndDecreaseEvents"] = Len(as["CwndDecreaseEvents"])
  <2>1. "CwndDecreaseEvents" \in Counters
    BY DEF Counters
  <2> QED
    BY <1>0, <1>1, <1>5, <1>8, <2>1
<1>11. f \in SoundEntry
  <2>1. /\ f.state = e.state /\ f.pref = e.pref /\ f.counters = cs
        /\ f.begun = e.begun /\ f.added = as /\ f.settled = e.settled
    BY <1>4
  <2>2. f = [state |-> f.state, pref |-> f.pref, counters |-> f.counters,
             begun |-> f.begun, added |-> f.added, settled |-> f.settled]
    BY <1>4
  <2> QED
    BY ONLY <1>1, <1>6, <1>9, <1>10, <2>1, <2>2, SoundParts
<1>12. ASSUME NEW c \in Counters
       PROVE  Len(as[c]) = Len(e.added[c]) + (IF c = x THEN 1 ELSE 0)
  <2>1. CASE c = x
    BY <1>5, <1>8, <2>1
  <2>2. CASE c # x
    <3>1. as[c] = e.added[c] /\ e.added[c] \in Seq(Nat)
      BY <1>1, <1>8, <2>2
    <3> QED
      BY <2>2, <3>1
  <2> QED
    BY <2>1, <2>2
<1>13. f.begun = e.begun /\ f.added = as
  BY ONLY <1>4
<1> QED
  BY <1>11, <1>12, <1>13, Zenon DEF OneMore

LEMMA BegunIsSound ==
    ASSUME NEW e \in SoundEntry, NEW r \in Counters, NEW f, f = BeginIn(e, r)
    PROVE  /\ f \in SoundEntry
           /\ f.counters = e.counters /\ f.added = e.added /\ f.settled = e.settled
           /\ \A c \in Counters : f.begun[c] = e.begun[c] + (IF c = r THEN 1 ELSE 0)
<1> PICK bs : bs = [e.begun EXCEPT ![r] = @ + 1]
  OBVIOUS
<1>1. /\ e = [state |-> e.state, pref |-> e.pref, counters |-> e.counters,
              begun |-> e.begun, added |-> e.added, settled |-> e.settled]
      /\ e.state \in {"active", "inactive"} /\ e.pref \in {"latency", "throughput"}
      /\ e.counters \in [Counters -> Nat] /\ e.begun \in [Counters -> Nat]
      /\ e.added \in [Counters -> Seq(Nat)] /\ e.settled \in [Counters -> Nat]
      /\ \A c \in Counters : Latest(e.counters[c], e.added[c], e.settled[c])
      /\ e.counters["CwndDecreaseEvents"] = Len(e.added["CwndDecreaseEvents"])
  BY EntryFacts
<1>2. f = [state |-> e.state, pref |-> e.pref, counters |-> e.counters,
           begun |-> bs, added |-> e.added, settled |-> e.settled]
  BY <1>1 DEF BeginIn
<1>3. bs \in [Counters -> Nat] /\ \A c \in Counters : bs[c] = e.begun[c] + (IF c = r THEN 1 ELSE 0)
  BY <1>1
<1>4. f \in SoundEntry
  <2>1. /\ f.state = e.state /\ f.pref = e.pref /\ f.counters = e.counters
        /\ f.begun = bs /\ f.added = e.added /\ f.settled = e.settled
    BY <1>2
  <2>2. f = [state |-> f.state, pref |-> f.pref, counters |-> f.counters,
             begun |-> f.begun, added |-> f.added, settled |-> f.settled]
    BY <1>2
  <2> QED
    BY ONLY <1>1, <1>3, <2>1, <2>2, SoundParts
<1> QED
  BY <1>2, <1>3, <1>4

LEMMA MarkIsSound ==
    ASSUME NEW e \in SoundEntry, NEW pref \in {"latency", "throughput"},
           NEW f, f = [e EXCEPT !.pref = pref, !.state = "active"]
    PROVE  /\ f \in SoundEntry /\ f.pref = pref /\ f.state = "active"
           /\ f.added = e.added /\ f.begun = e.begun /\ f.settled = e.settled
<1>1. /\ e = [state |-> e.state, pref |-> e.pref, counters |-> e.counters,
              begun |-> e.begun, added |-> e.added, settled |-> e.settled]
      /\ e.counters \in [Counters -> Nat] /\ e.begun \in [Counters -> Nat]
      /\ e.added \in [Counters -> Seq(Nat)] /\ e.settled \in [Counters -> Nat]
      /\ \A c \in Counters : Latest(e.counters[c], e.added[c], e.settled[c])
      /\ e.counters["CwndDecreaseEvents"] = Len(e.added["CwndDecreaseEvents"])
  BY EntryFacts
<1>2. f = [state |-> "active", pref |-> pref, counters |-> e.counters,
           begun |-> e.begun, added |-> e.added, settled |-> e.settled]
  BY <1>1
<1>3. f \in SoundEntry
  <2>1. /\ f.state = "active" /\ f.pref = pref /\ f.counters = e.counters
        /\ f.begun = e.begun /\ f.added = e.added /\ f.settled = e.settled
    BY <1>2
  <2>2. f = [state |-> f.state, pref |-> f.pref, counters |-> f.counters,
             begun |-> f.begun, added |-> f.added, settled |-> f.settled]
    BY <1>2
  <2> QED
    BY ONLY <1>1, pref \in {"latency", "throughput"}, <2>1, <2>2, SoundParts
<1> QED
  BY <1>2, <1>3

-----------------------------------------------------------------------------
(* Steps. *)

\* A step that makes no entry unsound; and one that does not count anything in an entry
\* either, nor settles a counter to which an addition is under way.
HeapSound ==
    /\ heap' \in [Entries -> [Slots -> SoundEntry \cup {None}]]
    /\ \A p \in Entries, s \in Slots : heap[p][s] \in SoundEntry => heap'[p][s] \in SoundEntry

SameCounts(p, s) ==
    /\ heap'[p][s].added = heap[p][s].added
    /\ heap'[p][s].begun = heap[p][s].begun
    /\ \A c \in Counters : UnderWay(p, s, c) => heap'[p][s].settled[c] = heap[p][s].settled[c]

HeapKept ==
    /\ HeapSound
    /\ \A p \in Entries, s \in Slots : heap[p][s] \in SoundEntry => SameCounts(p, s)

LEMMA KeptHeap ==
    ASSUME HeapInv, HeapSound, UNCHANGED <<load, remotes>>
    PROVE  HeapInv'
<1>1. /\ load' \in Loads /\ DOMAIN remotes' \subseteq Entries /\ remotes' \in [DOMAIN remotes' -> Slots]
      /\ heap' \in [Entries -> [Slots -> SoundEntry \cup {None}]]
  BY DEF HeapInv, HeapSound
<1>2. ASSUME NEW p \in DOMAIN remotes PROVE heap'[p][remotes'[p]] \in SoundEntry
  <2>1. p \in Entries /\ remotes[p] \in Slots /\ heap[p][remotes[p]] \in SoundEntry
    BY DEF HeapInv
  <2> QED
    BY <2>1 DEF HeapSound
<1> QED
  BY <1>1, <1>2 DEF HeapInv

LEMMA KeptTracer ==
    ASSUME TracerInv, HeapKept, UNCHANGED tracer
    PROVE  TracerInv'
<1>1. ASSUME NEW p \in Entries, tracer[p] # None
      PROVE  SoundAddition(tracer[p], heap'[p][tracer[p].slot])
  <2> PICK a, e, f : a = tracer[p] /\ e = heap[p][a.slot] /\ f = heap'[p][a.slot]
    OBVIOUS
  <2>1. SoundAddition(a, e)
    BY <1>1 DEF TracerInv
  <2>2. a.slot \in Slots /\ a.counter \in Counters
    BY <2>1 DEF SoundAddition, Adding
  <2>3. f \in SoundEntry /\ SameCounts(p, a.slot)
    BY <2>1, <2>2 DEF SoundAddition, HeapKept, HeapSound
  <2>4. UnderWay(p, a.slot, a.counter)
    BY <1>1 DEF UnderWay
  <2>5. f.added = e.added /\ f.settled[a.counter] = e.settled[a.counter]
    BY <2>2, <2>3, <2>4 DEF SameCounts
  <2> QED
    BY <2>1, <2>3, <2>5 DEF SoundAddition
<1>2. DOMAIN tracer' = Entries /\ tracer' = tracer
  BY DEF TracerInv
<1> QED
  BY <1>1, <1>2 DEF TracerInv, SoundAddition

\* The entries that are in use are sound, and so they are counted as before.
LEMMA UsedIsSound ==
    ASSUME HeapInv, TracerInv, NEW p \in Entries, NEW s \in Slots, InUse(p, s)
    PROVE  heap[p][s] \in SoundEntry
<1>1. CASE p \in DOMAIN remotes /\ remotes[p] = s
  BY <1>1 DEF HeapInv
<1>2. CASE tracer[p] # None /\ tracer[p].slot = s
  BY <1>2 DEF TracerInv, SoundAddition
<1> QED
  BY <1>1, <1>2 DEF InUse

LEMMA KeptCounts ==
    ASSUME HeapInv, TracerInv, CountInv, HeapKept, UNCHANGED <<remotes, tracer>>
    PROVE  CountInv'
<1>1. ASSUME NEW p \in Entries, NEW s \in Slots, InUse(p, s)
      PROVE  Exact(p, s)'
  <2>1. heap[p][s] \in SoundEntry /\ Exact(p, s)
    BY <1>1, UsedIsSound DEF CountInv
  <2>2. heap'[p][s].added = heap[p][s].added /\ heap'[p][s].begun = heap[p][s].begun
    BY <2>1 DEF HeapKept, SameCounts
  <2>3. \A c \in Counters : Pending(p, s, c)' = Pending(p, s, c)
    BY DEF UnderWay, Pending
  <2> QED
    BY <2>1, <2>2, <2>3 DEF Exact
<1>2. \A p \in Entries, s \in Slots : InUse(p, s)' <=> InUse(p, s)
  BY DEF InUse
<1> QED
  BY <1>1, <1>2 DEF CountInv

\* A ticker that a step leaves alone, and that has not lost a path.
LEMMA KeptTickerOK ==
    ASSUME HeapSound, DOMAIN remotes \subseteq Entries, DOMAIN remotes \subseteq DOMAIN remotes',
           NEW k \in TickerState, TickerOK(k)
    PROVE  TickerOK(k)'
<1>1. ASSUME k.hold # None PROVE heap'[k.hold[1]][k.hold[2]] \in SoundEntry
  <2>1. k.hold \in Entries \X Slots
    BY <1>1 DEF TickerState
  <2>2. k.hold[1] \in Entries /\ k.hold[2] \in Slots
    BY <2>1
  <2> QED
    BY <1>1, <2>2 DEF HeapSound, TickerOK
<1> QED
  BY <1>1 DEF TickerOK

LEMMA KeptTickers ==
    ASSUME HeapInv, TickerInv, HeapSound, UNCHANGED <<remotes, ticker>>
    PROVE  TickerInv'
<1>1. ASSUME NEW t \in Tickers PROVE TickerOK(ticker[t])'
  <2> PICK k : k = ticker[t]
    OBVIOUS
  <2>1. k \in TickerState /\ TickerOK(k)
    BY DEF TickerInv
  <2>2. TickerOK(k)'
    BY <2>1, KeptTickerOK DEF HeapInv
  <2>3. k = ticker'[t]
    OBVIOUS
  <2> QED
    BY <2>2, <2>3 DEF TickerOK
<1> QED
  BY <1>1 DEF TickerInv

LEMMA HeapUnchanged ==
    ASSUME HeapInv, UNCHANGED heap
    PROVE  HeapKept
BY DEF HeapInv, HeapKept, HeapSound, SameCounts

\* A reset makes a sound entry of a sound entry, and settles no addition under way.
LEMMA ResetKeepsHeap ==
    ASSUME HeapInv, NEW p \in Entries, NEW s \in Slots, heap[p][s] \in SoundEntry,
           NEW r \in {"Throughput", "Packetloss"}, Reset(p, s, r)
    PROVE  HeapKept
<1> PICK e, z, f : /\ e = heap[p][s] /\ z = Settled(p, s, r)
                   /\ f = ResetIn(e, r, z)
  OBVIOUS
<1>0. r \in Counters
  BY DEF Counters
<1>1. z \in 0 .. Len(e.added[r]) /\ (UnderWay(p, s, r) => z = e.settled[r])
  <2>1. e.settled[r] \in 0 .. Len(e.added[r]) /\ e.added[r] \in Seq(Nat)
    BY <1>0, EntryFacts
  <2>2. Len(e.added[r]) \in 0 .. Len(e.added[r])
    BY <2>1
  <2>3. z = IF UnderWay(p, s, r) THEN e.settled[r] ELSE Len(e.added[r])
    BY DEF Settled
  <2> QED
    BY <2>1, <2>2, <2>3, Zenon
<1>2. /\ f \in SoundEntry /\ f.added = e.added /\ f.begun = e.begun
      /\ f.settled = [e.settled EXCEPT ![r] = z]
  BY <1>1, ResetIsSound
<1>3. \A c \in Counters : UnderWay(p, s, c) => f.settled[c] = e.settled[c]
  <2>1. e.settled \in [Counters -> Nat]
    BY EntryFacts
  <2> QED
    BY <1>1, <1>2, <2>1
<1>4. heap \in [Entries -> [Slots -> SoundEntry \cup {None}]]
  BY DEF HeapInv
<1>5. heap' = [heap EXCEPT ![p][s] = f]
  <2> PICK e1, h1 : e1 = [e EXCEPT !.counters[r] = 0] /\ h1 = [heap EXCEPT ![p][s].counters[r] = 0]
    BY Zenon
  <2>1. f = [e1 EXCEPT !.settled[r] = z]
    BY Zenon DEF ResetIn
  <2>2. heap' = [h1 EXCEPT ![p][s].settled[r] = z]
    BY Zenon DEF Reset
  <2>3. h1 = [heap EXCEPT ![p][s] = e1]
    BY ONLY <1>4, p \in Entries, s \in Slots, e = heap[p][s],
       e1 = [e EXCEPT !.counters[r] = 0], h1 = [heap EXCEPT ![p][s].counters[r] = 0]
  <2>4. h1[p][s] = e1 /\ p \in DOMAIN h1 /\ s \in DOMAIN h1[p]
    BY ONLY <1>4, <2>3, p \in Entries, s \in Slots
  <2>5. heap' = [h1 EXCEPT ![p][s] = f]
    BY ONLY <2>1, <2>2, <2>4
  <2> QED
    BY ONLY <1>4, <2>3, <2>5, p \in Entries, s \in Slots, ZenonT(60)
<1>6. \A q \in Entries, u \in Slots : heap'[q][u] = IF q = p /\ u = s THEN f ELSE heap[q][u]
  BY <1>4, <1>5
<1>7. heap' \in [Entries -> [Slots -> SoundEntry \cup {None}]]
  BY <1>2, <1>4, <1>5
<1>8. ASSUME NEW q \in Entries, NEW u \in Slots, heap[q][u] \in SoundEntry
      PROVE  heap'[q][u] \in SoundEntry /\ SameCounts(q, u)
  <2>1. CASE q = p /\ u = s
    <3>1. heap'[q][u] = f /\ heap[q][u] = e
      BY <1>6, <2>1
    <3> QED
      BY <1>2, <1>3, <2>1, <3>1 DEF SameCounts
  <2>2. CASE ~ (q = p /\ u = s)
    <3>1. heap'[q][u] = heap[q][u]
      BY <1>6, <2>2
    <3> QED
      BY <1>8, <3>1 DEF SameCounts
  <2> QED
    BY <2>1, <2>2
<1> QED
  BY <1>7, <1>8 DEF HeapKept, HeapSound

\* A step that only ends the process.
LEMMA NothingMoves ==
    ASSUME NetInv, UNCHANGED <<load, remotes, heap, tracer, ticker>>
    PROVE  NetInv'
<1>1. HeapInv /\ TracerInv /\ CountInv /\ TickerInv
  BY DEF NetInv
<1>2. HeapKept
  BY <1>1, HeapUnchanged
<1> QED
  BY <1>1, <1>2, KeptHeap, KeptTracer, KeptCounts, KeptTickers DEF NetInv, HeapKept

LEMMA TickStep ==
    ASSUME NetInv, HeapKept, NEW t \in Tickers, NEW from, NEW k \in TickerState,
           Tick(t, from, k), TickerOK(k)'
    PROVE  NetInv'
<1>1. HeapInv' /\ TracerInv' /\ CountInv'
  BY KeptHeap, KeptTracer, KeptCounts DEF NetInv, Tick, HeapKept
<1>2. ticker' = [ticker EXCEPT ![t] = k] /\ remotes' = remotes
  BY DEF Tick
<1>3. ticker \in [Tickers -> TickerState]
  BY DEF NetInv, TickerInv
<1>4. ticker' \in [Tickers -> TickerState]
  BY <1>2, <1>3
<1>5. ASSUME NEW u \in Tickers PROVE TickerOK(ticker[u])'
  <2> PICK h : h = ticker'[u]
    OBVIOUS
  <2>1. TickerOK(h)'
    <3>1. CASE u = t
      BY <1>2, <1>3, <3>1
    <3>2. CASE u # t
      <4>1. h = ticker[u] /\ h \in TickerState
        BY <1>2, <1>3, <3>2
      <4>2. TickerOK(h)
        BY <4>1 DEF NetInv, TickerInv
      <4> QED
        BY <1>2, <4>1, <4>2, KeptTickerOK DEF NetInv, HeapInv, HeapKept
    <3> QED
      BY <3>1, <3>2
  <2> QED
    BY <2>1 DEF TickerOK
<1> QED
  BY <1>1, <1>4, <1>5 DEF NetInv, TickerInv

\* A ticker without copies, with nothing in its hand.
LEMMA FreshTicker ==
    ASSUME HeapInv, UNCHANGED remotes, NEW pc \in {"sleep", "scan", "reset"},
           NEW todo \in SUBSET DOMAIN remotes,
           NEW k, k = [pc |-> pc, todo |-> todo, hold |-> None, copies |-> <<>>]
    PROVE  k \in TickerState /\ TickerOK(k)'
<1>1. k \in TickerState
  BY DEF TickerState, HeapInv
<1>2. k.todo = todo /\ k.hold = None
  OBVIOUS
<1> QED
  BY <1>1, <1>2 DEF TickerOK

LEMMA SleepingBut ==
    ASSUME NEW z, z = [pc |-> "sleep", todo |-> {}, hold |-> None, copies |-> <<>>],
           NEW pc, NEW todo, NEW k, k = [z EXCEPT !.pc = pc, !.todo = todo]
    PROVE  k = [pc |-> pc, todo |-> todo, hold |-> None, copies |-> <<>>]
OBVIOUS

LEMMA FreshSteps ==
    ASSUME NetInv, NEW t \in Tickers, StartTick(t) \/ Report(t) \/ EndTick(t)
    PROVE  NetInv'
<1> PICK scan, reset, sleep :
      /\ scan  = [pc |-> "scan", todo |-> DOMAIN remotes, hold |-> None, copies |-> <<>>]
      /\ reset = [pc |-> "reset", todo |-> DOMAIN remotes, hold |-> None, copies |-> <<>>]
      /\ sleep = [pc |-> "sleep", todo |-> {}, hold |-> None, copies |-> <<>>]
  OBVIOUS
<1>1. HeapInv /\ UNCHANGED <<heap, remotes>>
  BY DEF NetInv, StartTick, Report, EndTick, Tick
<1>2. HeapKept
  BY <1>1, HeapUnchanged
<1>3. DOMAIN remotes \in SUBSET DOMAIN remotes /\ {} \in SUBSET DOMAIN remotes
  OBVIOUS
<1>4. scan \in TickerState /\ TickerOK(scan)'
  BY <1>1, <1>3, FreshTicker
<1>5. reset \in TickerState /\ TickerOK(reset)'
  BY <1>1, <1>3, FreshTicker
<1>6. sleep \in TickerState /\ TickerOK(sleep)'
  BY <1>1, <1>3, FreshTicker
<1>7. \/ Tick(t, "sleep", scan)
      \/ Tick(t, "scan", reset)
      \/ Tick(t, "reset", sleep)
  <2>1. /\ scan = [Sleeping EXCEPT !.pc = "scan", !.todo = DOMAIN remotes]
        /\ reset = [Sleeping EXCEPT !.pc = "reset", !.todo = DOMAIN remotes]
        /\ sleep = Sleeping
    BY SleepingBut, ZenonT(60) DEF Sleeping
  <2> QED
    BY <2>1, Zenon DEF StartTick, Report, EndTick
<1> QED
  BY <1>2, <1>4, <1>5, <1>6, <1>7, TickStep

\* The fields of a ticker.
LEMMA TickerFields ==
    ASSUME NetInv, NEW t \in Tickers, NEW k, k = ticker[t]
    PROVE  /\ k \in TickerState /\ TickerOK(k)
           /\ k = [pc |-> k.pc, todo |-> k.todo, hold |-> k.hold, copies |-> k.copies]
           /\ k.pc \in {"sleep", "scan", "reset"} /\ k.todo \in SUBSET Entries
           /\ k.copies \in Seq(Copied)
           /\ k.hold # None => /\ k.hold[1] \in Entries /\ k.hold[2] \in Slots
                               /\ k.hold = <<k.hold[1], k.hold[2]>>
<1>1. k \in TickerState /\ TickerOK(k)
  BY DEF NetInv, TickerInv
<1>2. ASSUME k.hold # None
      PROVE  k.hold[1] \in Entries /\ k.hold[2] \in Slots /\ k.hold = <<k.hold[1], k.hold[2]>>
  <2>1. k.hold \in Entries \X Slots
    BY <1>1, <1>2 DEF TickerState
  <2> QED
    BY <2>1
<1> QED
  BY <1>1, <1>2 DEF TickerState

\* A path leaves todo, and may come into the hand.
LEMMA TakePath ==
    ASSUME NetInv, NEW t \in Tickers, NEW p \in ticker[t].todo, HeapKept, UNCHANGED remotes,
           NEW hold \in {None, <<p, remotes[p]>>},
           NEW k, k = [ticker[t] EXCEPT !.todo = @ \ {p}, !.hold = hold]
    PROVE  k \in TickerState /\ TickerOK(k)'
<1> PICK j : j = ticker[t]
  OBVIOUS
<1>1. /\ j \in TickerState /\ TickerOK(j)
      /\ j = [pc |-> j.pc, todo |-> j.todo, hold |-> j.hold, copies |-> j.copies]
      /\ j.pc \in {"sleep", "scan", "reset"} /\ j.todo \in SUBSET Entries
      /\ j.copies \in Seq(Copied)
  BY TickerFields
<1>2. k = [pc |-> j.pc, todo |-> j.todo \ {p}, hold |-> hold, copies |-> j.copies]
  BY <1>1
<1>3. k.todo = j.todo \ {p} /\ k.hold = hold
  BY <1>2
<1>5. /\ p \in Entries /\ p \in DOMAIN remotes /\ remotes[p] \in Slots
      /\ heap[p][remotes[p]] \in SoundEntry
  BY <1>1 DEF TickerOK, NetInv, HeapInv
<1>6. heap'[p][remotes[p]] \in SoundEntry
  BY <1>5 DEF HeapKept, HeapSound
<1>7. k \in TickerState
  <2>1. hold \in (Entries \X Slots) \cup {None}
    BY <1>5
  <2>2. j.todo \ {p} \in SUBSET Entries
    BY <1>1
  <2> QED
    BY ONLY <1>1, <1>2, <2>1, <2>2 DEF TickerState
<1>8. ASSUME k.hold # None PROVE heap'[k.hold[1]][k.hold[2]] \in SoundEntry
  <2>1. k.hold[1] = p /\ k.hold[2] = remotes[p]
    BY <1>3, <1>8
  <2> QED
    BY <1>6, <2>1
<1>9. k.todo \subseteq DOMAIN remotes'
  BY <1>1, <1>3 DEF TickerOK
<1> QED
  BY <1>7, <1>8, <1>9 DEF TickerOK

LEMMA LookStep ==
    ASSUME NetInv, NEW t \in Tickers, NEW p \in Entries, Look(t, p)
    PROVE  NetInv'
<1> PICK j, a, b : /\ j = ticker[t] /\ a = [j EXCEPT !.todo = @ \ {p}, !.hold = None]
                   /\ b = [j EXCEPT !.todo = @ \ {p}, !.hold = <<p, remotes[p]>>]
  OBVIOUS
<1>1. HeapInv /\ UNCHANGED <<heap, remotes>> /\ p \in ticker[t].todo /\ j.hold = None
  BY DEF NetInv, Look, Tick
<1>2. HeapKept
  BY <1>1, HeapUnchanged, SMTT(30)
<1>3. a \in TickerState /\ TickerOK(a)'
  BY <1>1, <1>2, TakePath
<1>4. b \in TickerState /\ TickerOK(b)'
  BY <1>1, <1>2, TakePath
<1>5. [j EXCEPT !.todo = @ \ {p}] = a
  <2>1. j = [pc |-> j.pc, todo |-> j.todo, hold |-> j.hold, copies |-> j.copies]
    BY TickerFields
  <2> PICK c : c = [j EXCEPT !.todo = @ \ {p}]
    OBVIOUS
  <2>2. c = [pc |-> j.pc, todo |-> j.todo \ {p}, hold |-> j.hold, copies |-> j.copies]
    BY <2>1
  <2>3. a = [pc |-> j.pc, todo |-> j.todo \ {p}, hold |-> None, copies |-> j.copies]
    BY <2>1
  <2> QED
    BY <1>1, <2>2, <2>3
<1>6. \/ Tick(t, "scan", [j EXCEPT !.todo = @ \ {p}])
      \/ Tick(t, "scan", b)
  BY DEF Look
<1>7. Tick(t, "scan", a) \/ Tick(t, "scan", b)
  BY <1>5, <1>6, Zenon
<1> QED
  BY <1>2, <1>3, <1>4, <1>7, TickStep, SMTT(30)

LEMMA ResetThroughputStep ==
    ASSUME NetInv, NEW t \in Tickers, NEW p \in Entries, ResetThroughput(t, p)
    PROVE  NetInv'
<1> PICK b : b = [ticker[t] EXCEPT !.todo = @ \ {p}, !.hold = <<p, remotes[p]>>]
  OBVIOUS
<1>1. /\ HeapInv /\ UNCHANGED remotes /\ p \in ticker[t].todo /\ Tick(t, "reset", b)
      /\ Reset(p, remotes[p], "Throughput")
  BY DEF NetInv, ResetThroughput, Tick
<1>2. remotes[p] \in Slots /\ heap[p][remotes[p]] \in SoundEntry
  <2>1. TickerOK(ticker[t])
    BY DEF NetInv, TickerInv
  <2>2. p \in DOMAIN remotes
    BY <1>1, <2>1 DEF TickerOK
  <2> QED
    BY <2>2 DEF NetInv, HeapInv
<1>3. HeapKept
  BY <1>1, <1>2, ResetKeepsHeap, ZenonT(60)
<1>4. b \in TickerState /\ TickerOK(b)'
  BY <1>1, <1>3, TakePath
<1> QED
  BY <1>1, <1>3, <1>4, TickStep

\* The path in the hand is put down, and perhaps copied.
LEMMA ResetPacketlossStep ==
    ASSUME NetInv, NEW t \in Tickers, ResetPacketloss(t)
    PROVE  NetInv'
<1> PICK j, k, p, s : /\ j = ticker[t] /\ k = [j EXCEPT !.hold = None]
                      /\ p = j.hold[1] /\ s = j.hold[2]
  BY Zenon
<1>1. /\ j \in TickerState /\ TickerOK(j)
      /\ j = [pc |-> j.pc, todo |-> j.todo, hold |-> j.hold, copies |-> j.copies]
      /\ j.pc \in {"sleep", "scan", "reset"} /\ j.todo \in SUBSET Entries
      /\ j.copies \in Seq(Copied)
      /\ j.hold # None => p \in Entries /\ s \in Slots
  BY TickerFields
<1>2. /\ HeapInv /\ UNCHANGED remotes /\ j.hold # None /\ Tick(t, "reset", k)
      /\ Reset(p, s, "Packetloss")
  BY ZenonT(60) DEF NetInv, ResetPacketloss, Tick
<1>3. p \in Entries /\ s \in Slots /\ heap[p][s] \in SoundEntry
  BY <1>1, <1>2, ZenonT(60) DEF TickerOK
<1>4. HeapKept
  BY <1>2, <1>3, ResetKeepsHeap
<1>5. k = [pc |-> j.pc, todo |-> j.todo, hold |-> None, copies |-> j.copies]
  BY <1>1
<1>6. k \in TickerState
  BY ONLY <1>1, <1>5 DEF TickerState
<1>7. k.todo = j.todo /\ k.hold = None
  BY <1>5
<1>8. TickerOK(k)'
  BY <1>1, <1>2, <1>7, ZenonT(60) DEF TickerOK
<1> QED
  BY <1>2, <1>4, <1>6, <1>8, TickStep

LEMMA CopyStep ==
    ASSUME NetInv, NEW t \in Tickers, Copy(t)
    PROVE  NetInv'
<1> PICK j, p, s, x, k : /\ j = ticker[t] /\ p = j.hold[1] /\ s = j.hold[2]
                         /\ x = [path |-> p, counters |-> heap[p][s].counters]
                         /\ k = [j EXCEPT !.hold = None, !.copies = Append(@, x)]
  OBVIOUS
<1>1. /\ j \in TickerState /\ TickerOK(j)
      /\ j = [pc |-> j.pc, todo |-> j.todo, hold |-> j.hold, copies |-> j.copies]
      /\ j.pc \in {"sleep", "scan", "reset"} /\ j.todo \in SUBSET Entries
      /\ j.copies \in Seq(Copied)
      /\ j.hold # None => p \in Entries /\ s \in Slots
  BY TickerFields
<1>2. HeapInv /\ UNCHANGED <<heap, remotes>> /\ j.hold # None /\ Tick(t, "scan", k)
  BY Zenon DEF NetInv, Copy, Tick
<1>3. HeapKept
  BY <1>2, HeapUnchanged, Zenon
<1>4. /\ p \in Entries /\ s \in Slots /\ heap[p][s] \in SoundEntry
  BY <1>1, <1>2, Zenon DEF TickerOK
<1>5. x \in Copied
  <2>1. heap[p][s].counters \in [Counters -> Nat]
    BY ONLY <1>4, EntryFacts
  <2> QED
    BY <1>4, <2>1, ZenonT(60) DEF Copied
<1> PICK w, u : w = j.copies /\ u = Append(w, x)
  OBVIOUS
<1>6. k = [pc |-> j.pc, todo |-> j.todo, hold |-> None, copies |-> u]
  BY <1>1, Zenon
<1>7. u \in Seq(Copied)
  <2>1. w \in Seq(Copied) /\ u = Append(w, x)
    BY <1>1, Zenon
  <2> QED
    BY ONLY <1>5, <2>1
<1>8. k \in TickerState
  BY ONLY <1>1, <1>6, <1>7 DEF TickerState
<1>9. k.todo = j.todo /\ k.hold = None
  BY <1>6, Zenon
<1>10. TickerOK(k)'
  BY <1>1, <1>2, <1>9, ZenonT(60) DEF TickerOK
<1> QED
  BY <1>2, <1>3, <1>8, <1>10, TickStep

\* The tracers.
LEMMA BeginAddStep ==
    ASSUME NetInv, NEW p \in Entries, NEW c \in Counters, NEW n \in Nat,
           c = "CwndDecreaseEvents" => n = 1, BeginAdd(p, c, n)
    PROVE  NetInv'
<1> PICK s, e, a, f :
      /\ s = remotes[p] /\ e = heap[p][s] /\ f = BeginIn(e, c)
      /\ a = [slot |-> s, counter |-> c, n |-> n, loaded |-> e.counters[c]]
  OBVIOUS
<1>1. /\ HeapInv /\ TracerInv /\ CountInv /\ TickerInv /\ p \in DOMAIN remotes /\ tracer[p] = None
      /\ UNCHANGED <<load, remotes, ticker>> /\ tracer' = [tracer EXCEPT ![p] = a]
      /\ heap' = [heap EXCEPT ![p][s].begun[c] = @ + 1]
  BY DEF NetInv, BeginAdd, PathMetrics
<1>2. /\ e \in SoundEntry /\ s \in Slots
      /\ heap \in [Entries -> [Slots -> SoundEntry \cup {None}]]
  BY <1>1 DEF HeapInv
<1>3. /\ f \in SoundEntry
      /\ f.counters = e.counters /\ f.added = e.added /\ f.settled = e.settled
      /\ \A d \in Counters : f.begun[d] = e.begun[d] + (IF d = c THEN 1 ELSE 0)
  BY <1>2, BegunIsSound
<1>4. heap' = [heap EXCEPT ![p][s] = f]
  BY ONLY <1>1, <1>2, p \in Entries, e = heap[p][s], f = BeginIn(e, c) DEF BeginIn
<1>5. \A q \in Entries, u \in Slots : heap'[q][u] = IF q = p /\ u = s THEN f ELSE heap[q][u]
  BY <1>2, <1>4
<1>6. HeapSound
  <2>1. heap' \in [Entries -> [Slots -> SoundEntry \cup {None}]]
    BY <1>2, <1>3, <1>4
  <2> QED
    BY <1>3, <1>5, <2>1 DEF HeapSound
<1>7. HeapInv' /\ TickerInv'
  BY <1>1, <1>6, KeptHeap, KeptTickers
<1>8. \A q \in Entries : tracer'[q] = IF q = p THEN a ELSE tracer[q]
  BY <1>1 DEF TracerInv
<1>9. a \in Adding
  <2>1. e.counters \in [Counters -> Nat]
    BY <1>2, EntryFacts
  <2> QED
    BY <1>2, <2>1 DEF Adding
<1>10. TracerInv'
  <2>1. SoundAddition(a, f)
    <3>1. /\ Latest(e.counters[c], e.added[c], e.settled[c])
          /\ e.counters["CwndDecreaseEvents"] = Len(e.added["CwndDecreaseEvents"])
      BY <1>2, EntryFacts
    <3>2. a \in Adding
      BY <1>9
    <3>3. a.loaded = e.counters[c] /\ a.counter = c /\ a.n = n
      OBVIOUS
    <3> QED
      BY <1>3, <3>1, <3>2, <3>3 DEF SoundAddition
  <2>2. ASSUME NEW q \in Entries, tracer'[q] # None
        PROVE  SoundAddition(tracer'[q], heap'[q][tracer'[q].slot])
    <3>1. CASE q = p
      BY <1>2, <1>5, <1>8, <2>1, <3>1
    <3>2. CASE q # p
      <4>1. tracer'[q] = tracer[q] /\ tracer[q] # None
        BY <1>8, <2>2, <3>2
      <4>2. SoundAddition(tracer[q], heap[q][tracer[q].slot])
        BY <1>1, <4>1 DEF TracerInv
      <4>3. tracer[q].slot \in Slots
        BY <4>2 DEF SoundAddition, Adding
      <4> QED
        BY <1>5, <3>2, <4>1, <4>2, <4>3
    <3> QED
      BY <3>1, <3>2
  <2>3. DOMAIN tracer' = Entries
    BY <1>1 DEF TracerInv
  <2> QED
    BY <2>2, <2>3 DEF TracerInv, SoundAddition
<1>11. CountInv'
  <2>1. ASSUME NEW q \in Entries, NEW u \in Slots, InUse(q, u)' PROVE Exact(q, u)'
    <3>1. CASE q = p
      <4>1. u = s /\ heap'[q][u] = f
        BY <1>1, <1>2, <1>5, <1>8, <2>1, <3>1 DEF InUse
      <4>2. Exact(p, s) /\ \A d \in Counters : ~UnderWay(p, s, d)
        BY <1>1, <1>2 DEF CountInv, InUse, UnderWay
      <4>3. \A d \in Counters : UnderWay(p, s, d)' <=> d = c
        <5>1. tracer'[p] = a /\ a.slot = s /\ a.counter = c
          BY <1>8
        <5>2. a # None
          BY <1>9, NoneAssumption
        <5> QED
          BY <5>1, <5>2 DEF UnderWay
      <4>4. ASSUME NEW d \in Counters PROVE f.begun[d] = Len(f.added[d]) + Pending(p, s, d)'
        <5>1. e.begun[d] = Len(e.added[d]) + 0 /\ e.added[d] \in Seq(Nat)
          <6>1. e.begun[d] = Len(e.added[d]) + Pending(p, s, d) /\ Pending(p, s, d) = 0
            BY <4>2 DEF Exact, Pending
          <6>2. e.added \in [Counters -> Seq(Nat)]
            BY <1>2, EntryFacts
          <6>3. e.added[d] \in Seq(Nat) /\ Len(e.added[d]) \in Nat
            BY ONLY <6>2, d \in Counters
          <6> QED
            BY ONLY <6>1, <6>3
        <5>2. Len(e.added[d]) \in Nat
          BY ONLY <5>1, LenNat, Zenon
        <5>3. f.begun[d] = e.begun[d] + (IF d = c THEN 1 ELSE 0) /\ f.added = e.added
          BY <1>3
        <5>4. Pending(p, s, d)' = IF d = c THEN 1 ELSE 0
          BY <4>3 DEF Pending
        <5> QED
          BY ONLY <5>1, <5>2, <5>3, <5>4
      <4>5. heap'[p][s] = f
        BY <3>1, <4>1
      <4>6. Exact(p, s)'
        BY <4>4, <4>5 DEF Exact
      <4> QED
        BY <3>1, <4>1, <4>6
    <3>2. CASE q # p
      <4>1. heap'[q][u] = heap[q][u] /\ tracer'[q] = tracer[q] /\ remotes' = remotes
        BY <1>1, <1>5, <1>8, <3>2
      <4>2. InUse(q, u) /\ \A d \in Counters : Pending(q, u, d)' = Pending(q, u, d)
        BY <2>1, <4>1 DEF InUse, UnderWay, Pending
      <4>3. Exact(q, u)
        BY <1>1, <4>2 DEF CountInv
      <4> QED
        BY <4>1, <4>2, <4>3 DEF Exact
    <3> QED
      BY <3>1, <3>2
  <2> QED
    BY <2>1 DEF CountInv
<1> QED
  BY <1>7, <1>10, <1>11 DEF NetInv

LEMMA EndAddStep ==
    ASSUME NetInv, NEW p \in Entries, EndAdd(p)
    PROVE  NetInv'
<1> PICK a, e, f : /\ a = tracer[p] /\ e = heap[p][a.slot]
                   /\ f = AddIn(e, a)
  BY Zenon
<1>1. /\ HeapInv /\ TracerInv /\ CountInv /\ TickerInv /\ tracer[p] # None
      /\ UNCHANGED <<load, remotes, ticker>> /\ tracer' = [tracer EXCEPT ![p] = None]
      /\ heap' = [heap EXCEPT ![p][a.slot].counters[a.counter] = a.loaded + a.n,
                              ![p][a.slot].added[a.counter] = Append(@, a.n)]
  BY Zenon DEF NetInv, EndAdd, Store
<1>2. SoundAddition(a, e)
  BY <1>1, Zenon DEF TracerInv
<1>3. /\ f \in SoundEntry /\ f.begun = e.begun
      /\ \A c \in Counters :
            Len(f.added[c]) = Len(e.added[c]) + (IF c = a.counter THEN 1 ELSE 0)
  <2>1. e \in SoundEntry /\ a \in Adding
    BY <1>2, Zenon DEF SoundAddition
  <2>2. OneMore(e, a.counter, f)
    BY <1>2, <2>1, AddIsSound
  <2> QED
    BY <2>2, Zenon DEF OneMore
<1>4. heap \in [Entries -> [Slots -> SoundEntry \cup {None}]] /\ a.slot \in Slots
  BY <1>1, <1>2, Zenon DEF HeapInv, SoundAddition, Adding
<1>5. heap' = [heap EXCEPT ![p][a.slot] = f]
  <2> PICK c, u, v, n : c = a.counter /\ u = a.slot /\ v = a.loaded + a.n /\ n = a.n
    OBVIOUS
  <2> PICK e1, h1 : e1 = [e EXCEPT !.counters[c] = v] /\ h1 = [heap EXCEPT ![p][u].counters[c] = v]
    BY Zenon
  <2> PICK w : w = Append(e.added[c], n)
    BY Zenon
  <2>1. f = [e1 EXCEPT !.added[c] = w]
    BY Zenon DEF AddIn
  <2>2. heap' = [h1 EXCEPT ![p][u].added[c] = w]
    BY <1>1, ZenonT(60)
  <2>3. /\ heap \in [Entries -> [Slots -> SoundEntry \cup {None}]] /\ u \in Slots /\ e = heap[p][u]
        /\ e1 = [e EXCEPT !.counters[c] = v] /\ h1 = [heap EXCEPT ![p][u].counters[c] = v]
    BY <1>4
  <2>4. h1 = [heap EXCEPT ![p][u] = e1]
    BY ONLY <2>3
  <2>5. h1[p][u] = e1 /\ p \in DOMAIN h1 /\ u \in DOMAIN h1[p]
    BY ONLY <2>3, <2>4, p \in Entries
  <2>6. heap' = [h1 EXCEPT ![p][u] = f]
    BY ONLY <2>1, <2>2, <2>5
  <2>7. heap' = [heap EXCEPT ![p][u] = f]
    BY ONLY <2>3, <2>4, <2>6, p \in Entries, ZenonT(60)
  <2> QED
    BY <2>7, Zenon
<1>6. \A q \in Entries, u \in Slots : heap'[q][u] = IF q = p /\ u = a.slot THEN f ELSE heap[q][u]
  BY ONLY <1>4, <1>5
<1>7. heap' \in [Entries -> [Slots -> SoundEntry \cup {None}]]
  BY <1>3, <1>4, <1>5, Zenon
<1>8. HeapSound
  BY <1>3, <1>6, <1>7, Zenon DEF HeapSound
<1>9. HeapInv' /\ TickerInv'
  BY <1>1, <1>8, KeptHeap, KeptTickers, Zenon
<1>10. \A q \in Entries : tracer'[q] = IF q = p THEN None ELSE tracer[q]
  <2>1. DOMAIN tracer = Entries /\ tracer' = [tracer EXCEPT ![p] = None]
    BY <1>1, Zenon DEF TracerInv
  <2> QED
    BY ONLY <2>1
<1>11. ASSUME NEW q \in Entries, q # p
       PROVE  tracer'[q] = tracer[q] /\ heap'[q] = heap[q]
  BY <1>4, <1>5, <1>10, <1>11, ZenonT(60)
<1>12. TracerInv'
  <2>1. DOMAIN tracer' = Entries
    BY <1>1 DEF TracerInv
  <2>2. ASSUME NEW q \in Entries, tracer'[q] # None
        PROVE  SoundAddition(tracer'[q], heap'[q][tracer'[q].slot])
    <3>1. tracer'[q] = tracer[q] /\ heap'[q] = heap[q]
      BY <1>10, <1>11, <2>2, Zenon
    <3>2. SoundAddition(tracer[q], heap[q][tracer[q].slot])
      BY <1>1, <2>2, <3>1, Zenon DEF TracerInv
    <3> QED
      BY <3>1, <3>2, Zenon
  <2> QED
    BY <2>1, <2>2, Zenon DEF TracerInv, SoundAddition
<1>13. ASSUME NEW q \in Entries, NEW u \in Slots, InUse(q, u)' PROVE Exact(q, u)'
  <2>1. CASE q = p
    <3>1. p \in DOMAIN remotes /\ remotes[p] = u
      BY <1>1, <1>10, <1>13, <2>1, Zenon DEF InUse
    <3>2. InUse(p, u) /\ Exact(p, u) /\ \A c \in Counters : ~UnderWay(p, u, c)'
      BY <1>1, <1>10, <3>1, Zenon DEF InUse, CountInv, UnderWay
    <3>3. CASE u = a.slot
      <4>1. heap'[p][u] = f /\ heap[p][u] = e
        BY <1>6, <3>3, Zenon
      <4>2. \A c \in Counters : UnderWay(p, u, c) <=> c = a.counter
        BY <1>1, <3>3, Zenon DEF UnderWay
      <4>3. ASSUME NEW c \in Counters PROVE f.begun[c] = Len(f.added[c]) + Pending(p, u, c)'
        <5>1. e.begun[c] = Len(e.added[c]) + (IF c = a.counter THEN 1 ELSE 0)
          <6>1. Pending(p, u, c) = IF c = a.counter THEN 1 ELSE 0
            BY <4>2 DEF Pending
          <6> QED
            BY <3>2, <4>1, <6>1 DEF Exact
        <5>2. Len(f.added[c]) = Len(e.added[c]) + (IF c = a.counter THEN 1 ELSE 0)
          BY <1>3, Zenon
        <5>3. f.begun = e.begun /\ Len(f.added[c]) \in Nat
          BY <1>3, EntryFacts
        <5>4. Pending(p, u, c)' = 0
          BY <3>2 DEF Pending
        <5>5. f.begun[c] = Len(f.added[c])
          BY ONLY <5>1, <5>2, <5>3, Zenon
        <5> PICK k, m : k = f.begun[c] /\ m = Len(f.added[c])
          OBVIOUS
        <5>6. k = m /\ m \in Nat
          BY <5>3, <5>5, Zenon
        <5>7. k = m + 0
          BY ONLY <5>6
        <5> QED
          BY <5>4, <5>7, Zenon
      <4>4. Exact(p, u)'
        BY <4>1, <4>3 DEF Exact
      <4> QED
        BY <2>1, <4>4
    <3>4. CASE u # a.slot
      <4>1. heap'[p][u] = heap[p][u]
        BY <1>6, <3>4, Zenon
      <4>2. \A c \in Counters : Pending(p, u, c)' = Pending(p, u, c)
        BY <3>2, <3>4 DEF UnderWay, Pending
      <4> QED
        BY <2>1, <3>2, <4>1, <4>2 DEF Exact
    <3> QED
      BY <3>3, <3>4, Zenon
  <2>2. CASE q # p
    <3>1. heap'[q] = heap[q] /\ tracer'[q] = tracer[q] /\ remotes' = remotes
      BY <1>1, <1>11, <2>2, Zenon
    <3>2. InUse(q, u) /\ \A c \in Counters : Pending(q, u, c)' = Pending(q, u, c)
      BY <1>13, <3>1 DEF InUse, UnderWay, Pending
    <3>3. Exact(q, u)
      BY <1>1, <3>2, Zenon DEF CountInv
    <3> QED
      BY ONLY <3>1, <3>2, <3>3 DEF Exact
  <2> QED
    BY <2>1, <2>2, Zenon
<1> QED
  BY <1>9, <1>12, <1>13, Zenon DEF NetInv, CountInv

LEMMA TracerStep ==
    ASSUME NetInv, NEW p \in Entries, Tracer(p)
    PROVE  NetInv'
<1>1. load.size[p] \in Nat
  BY NetworkStateAssumption DEF NetInv, HeapInv, Load
<1>2. "Throughput" \in Counters /\ "Packetloss" \in Counters /\ "CwndDecreaseEvents" \in Counters
  BY DEF Counters
<1>3. CASE BeginAdd(p, "Throughput", load.size[p])
  BY <1>1, <1>2, <1>3, BeginAddStep
<1>4. CASE BeginAdd(p, "Packetloss", 1)
  BY <1>2, <1>4, BeginAddStep
<1>5. CASE BeginAdd(p, "CwndDecreaseEvents", 1)
  BY <1>2, <1>5, BeginAddStep
<1>6. CASE EndAdd(p)
  BY <1>6, EndAddStep
<1>7. CASE AddPanics(p)
  BY <1>7, NothingMoves DEF AddPanics
<1> QED
  BY <1>3, <1>4, <1>5, <1>6, <1>7 DEF Tracer

-----------------------------------------------------------------------------
(* A selection. *)

\* What a selection makes of an entry, of a path that is in the map.
LEMMA MarkedFacts ==
    ASSUME HeapInv, NEW p \in DOMAIN remotes, NEW s, s.low \cap s.high = {}
    PROVE  /\ Marked(p, s) \in SoundEntry
           /\ Marked(p, s).added = heap[p][remotes[p]].added
           /\ Marked(p, s).begun = heap[p][remotes[p]].begun
           /\ Marked(p, s).settled = heap[p][remotes[p]].settled
           /\ p \in s.high \cup s.low => Marked(p, s).state = "active"
           /\ p \in s.high => Marked(p, s).pref = "throughput"
           /\ p \in s.low => Marked(p, s).pref = "latency"
<1> PICK e, f, g : /\ e = heap[p][remotes[p]]
                   /\ f = [e EXCEPT !.pref = "throughput", !.state = "active"]
                   /\ g = [e EXCEPT !.pref = "latency", !.state = "active"]
  OBVIOUS
<1>1. e \in SoundEntry
  BY DEF HeapInv
<1>2. /\ f \in SoundEntry /\ f.pref = "throughput" /\ f.state = "active"
      /\ f.added = e.added /\ f.begun = e.begun /\ f.settled = e.settled
  <2>1. "throughput" \in {"latency", "throughput"} /\ f = [e EXCEPT !.pref = "throughput", !.state = "active"]
    OBVIOUS
  <2> QED
    BY ONLY <1>1, <2>1, MarkIsSound, ZenonT(60)
<1>3. /\ g \in SoundEntry /\ g.pref = "latency" /\ g.state = "active"
      /\ g.added = e.added /\ g.begun = e.begun /\ g.settled = e.settled
  <2>1. "latency" \in {"latency", "throughput"} /\ g = [e EXCEPT !.pref = "latency", !.state = "active"]
    OBVIOUS
  <2> QED
    BY ONLY <1>1, <2>1, MarkIsSound, ZenonT(60)
<1>4. CASE p \in s.high /\ p \notin s.low
  <2>1. Marked(p, s) = f
    BY <1>4 DEF Marked, PathMetrics
  <2> QED
    BY <1>2, <1>4, <2>1
<1>5. CASE p \notin s.high /\ p \in s.low
  <2>1. Marked(p, s) = g
    BY <1>5 DEF Marked, PathMetrics
  <2> QED
    BY <1>3, <1>5, <2>1
<1>6. CASE p \notin s.high /\ p \notin s.low
  <2>1. Marked(p, s) = e
    BY <1>6 DEF Marked, PathMetrics
  <2> QED
    BY <1>1, <1>6, <2>1
<1> QED
  BY <1>4, <1>5, <1>6, SMTT(30)

LEMMA EntriesFinite == IsFiniteSet(Entries)
  BY NetworkStateAssumption, FS_Product DEF Entries

LEMMA PathsFacts ==
    ASSUME HeapInv, NEW r
    PROVE  /\ IsFiniteSet(ToPathSlice(r)) /\ ToPathSlice(r) \subseteq DOMAIN remotes
           /\ \A p \in ToPathSlice(r) : MTU(p) \in Nat
<1>1. DOMAIN remotes \in SUBSET Entries /\ load \in Load
  BY NetworkStateAssumption DEF HeapInv
<1>2. ToPathSlice(r) \subseteq DOMAIN remotes
  BY DEF ToPathSlice
<1>3. IsFiniteSet(ToPathSlice(r))
  BY <1>1, <1>2, FS_Subset, EntriesFinite
<1>4. ASSUME NEW p \in ToPathSlice(r) PROVE MTU(p) \in Nat
  <2>1. p[2] \in Ids
    BY <1>1, <1>2 DEF Entries
  <2>2. load.meta[p[2]] \in [hops : Nat, mtu : Nat]
    BY <1>1, <2>1 DEF Load
  <2> QED
    BY <2>2 DEF MTU
<1> QED
  BY <1>2, <1>3, <1>4

\* The n best of a finite set, or all of it if it is smaller.
LEMMA TopNFacts ==
    ASSUME NEW S, IsFiniteSet(S), NEW n \in Nat, NEW T \in TopN(S, n)
    PROVE  /\ T \subseteq S /\ IsFiniteSet(T) /\ Cardinality(T) \in Nat /\ Cardinality(T) <= n
           /\ Cardinality(S) >= n => Cardinality(T) = n
           /\ Cardinality(T) < n => T = S
<1>1. T \in SUBSET S /\ Cardinality(T) = IF n > Cardinality(S) THEN Cardinality(S) ELSE n
  BY DEF TopN, kSubset
<1>2. Cardinality(S) \in Nat
  BY FS_CardinalityType
<1>3. IsFiniteSet(T) /\ (Cardinality(S) = Cardinality(T) => S = T)
  BY <1>1, FS_Subset
<1> QED
  BY <1>1, <1>2, <1>3

\* A selection among three paths or more, for GoodSelection.
LEMMA SelectionFacts ==
    ASSUME NEW paths, IsFiniteSet(paths), \A p \in paths : MTU(p) \in Nat,
           NEW s \in Selections(paths)
    PROVE  /\ s.low \cap s.high = {} /\ s.low \cup s.high \subseteq paths
           /\ Cardinality(paths) >= 3 =>
                 /\ Cardinality(s.low) = 1 /\ Cardinality(s.high) = 2
                 /\ \A p \in s.low, q \in paths : Hops(p) <= Hops(q)
                 /\ \A p \in s.high, q \in paths \ (s.low \cup s.high) :
                       MTU(p) < MTU(q) => \E r \in paths : MTU(q) < MTU(r)
<1>1. CASE Cardinality(paths) <= 2
  <2>1. PICK l \in paths : s = [low |-> {l}, high |-> paths \ {l}]
    BY <1>1 DEF Selections
  <2>2. ~ (Cardinality(paths) >= 3)
    BY <1>1, FS_CardinalityType
  <2>3. s.low = {l} /\ s.high = paths \ {l}
    BY <2>1
  <2> QED
    BY <2>2, <2>3
<1>2. CASE ~ (Cardinality(paths) <= 2)
  <2>1. PICK l \in filterPathsByHops(paths) : \E h \in HighThroughput(paths, l) :
          s = [low |-> {l}, high |-> h]
    BY <1>2 DEF Selections
  <2>2. PICK h \in HighThroughput(paths, l) : s = [low |-> {l}, high |-> h]
    BY <2>1
  <2> DEFINE F == filterPathsByMTU(paths, l)
  <2>3. PICK H \in TopN(F, 2) :
          h \in {H \cup more : more \in TopN(paths \ (H \cup {l}), 2 - Cardinality(H))}
    BY <2>2 DEF HighThroughput
  <2> DEFINE R == paths \ (H \cup {l})
  <2>4. PICK M \in TopN(R, 2 - Cardinality(H)) : h = H \cup M
    BY <2>3
  <2>5. l \in paths /\ \A q \in paths : Hops(l) <= Hops(q)
    BY DEF filterPathsByHops
  <2>6. F \subseteq paths \ {l} /\ F = {p \in paths \ {l} : \A q \in paths : MTU(q) <= MTU(p)}
    BY DEF filterPathsByMTU
  <2>7. IsFiniteSet(F) /\ IsFiniteSet(R)
    BY <2>6, FS_Subset
  <2>8. s.low = {l} /\ s.high = H \cup M
    BY <2>2, <2>4
  <2> HIDE DEF F
  <2>9. /\ H \subseteq F /\ IsFiniteSet(H) /\ Cardinality(H) \in Nat /\ Cardinality(H) <= 2
        /\ Cardinality(H) < 2 => H = F
    BY <2>7, TopNFacts
  <2>10. 2 - Cardinality(H) \in Nat
    BY <2>9
  <2> PICK c : c = 2 - Cardinality(H)
    OBVIOUS
  <2> HIDE DEF R
  <2>11. /\ M \subseteq R /\ IsFiniteSet(M) /\ Cardinality(M) \in Nat /\ Cardinality(M) <= c
         /\ Cardinality(R) >= c => Cardinality(M) = c
    <3>1. c \in Nat /\ M \in TopN(R, c)
      BY <2>10
    <3> QED
      BY <2>7, <3>1, TopNFacts
  <2>12. Cardinality(R) >= c
    <3>1. Cardinality(paths) \in Nat /\ Cardinality(R) \in Nat
      BY <2>7, FS_CardinalityType
    <3>2. IsFiniteSet(H \cup {l}) /\ Cardinality(H \cup {l}) = Cardinality(H) + 1
      BY <2>6, <2>9, FS_AddElement
    <3>3. (H \cup {l}) \cup R = paths /\ (H \cup {l}) \cap R = {}
      BY <2>5, <2>6, <2>9 DEF R
    <3> PICK A : A = H \cup {l}
      OBVIOUS
    <3>4. Cardinality(A \cup R) = Cardinality(A) + Cardinality(R) - Cardinality(A \cap R)
      BY <2>7, <3>2, FS_Union
    <3>5. Cardinality(A \cap R) = 0 /\ Cardinality(A \cup R) = Cardinality(paths)
      BY <3>3, FS_EmptySet
    <3> QED
      BY <1>2, <2>9, <3>1, <3>2, <3>4, <3>5
  <2>13. M \cap H = {} /\ l \notin M /\ l \notin H /\ M \subseteq paths /\ H \subseteq paths
    BY <2>6, <2>9, <2>11 DEF R
  <2>14. Cardinality(H \cup M) = 2
    <3>1. Cardinality(H \cup M) = Cardinality(H) + Cardinality(M) - Cardinality(H \cap M)
      BY <2>9, <2>11, FS_Union
    <3>2. Cardinality(H \cap M) = 0
      BY <2>13, FS_EmptySet
    <3> QED
      BY <2>9, <2>11, <2>12, <3>1, <3>2
  <2>15. Cardinality({l}) = 1
    BY FS_Singleton
  <2>16. ASSUME NEW p \in H \cup M, NEW q \in paths \ ({l} \cup (H \cup M)), MTU(p) < MTU(q),
                \A r \in paths : ~ (MTU(q) < MTU(r))
         PROVE  FALSE
    <3>1. p \in paths /\ q \in paths /\ \A r \in paths : MTU(r) \in Nat
      BY <2>13
    <3>2. q \in F
      BY <2>6, <2>16, <3>1
    <3>3. p \notin F
      BY <2>6, <2>16, <3>1
    <3>4. p \in M
      BY <2>9, <3>3
    <3>5. Cardinality(M) # 0
      BY <2>11, <3>4, FS_EmptySet
    <3>6. Cardinality(H) < 2
      BY <2>9, <2>11, <2>12, <3>5
    <3> QED
      BY <2>9, <3>2, <3>6
  <2> QED
    BY <2>5, <2>8, <2>13, <2>14, <2>15, <2>16
<1> QED
  BY <1>1, <1>2

LEMMA SelectionStep ==
    ASSUME NetInv, NEW r, InitialPathSelection(r)
    PROVE  NetInv'
<1> PICK paths : paths = ToPathSlice(r)
  OBVIOUS
<1>1. PICK s \in Selections(paths) :
        heap' = [p \in Entries |-> IF p \in paths
                                   THEN [heap[p] EXCEPT ![remotes[p]] = Marked(p, s)]
                                   ELSE heap[p]]
  BY DEF InitialPathSelection
<1>2. /\ HeapInv /\ TracerInv /\ CountInv /\ TickerInv
      /\ UNCHANGED <<load, remotes, tracer, ticker>>
      /\ heap \in [Entries -> [Slots -> SoundEntry \cup {None}]]
  BY DEF NetInv, HeapInv, InitialPathSelection
<1>3. paths \subseteq DOMAIN remotes /\ s.low \cap s.high = {}
  <2>1. /\ IsFiniteSet(paths) /\ paths \subseteq DOMAIN remotes
        /\ \A p \in paths : MTU(p) \in Nat
    BY <1>2, PathsFacts
  <2> QED
    BY <2>1, SelectionFacts
<1>4. ASSUME NEW p \in Entries
      PROVE  /\ heap'[p] \in [Slots -> SoundEntry \cup {None}]
             /\ \A u \in Slots : heap[p][u] \in SoundEntry =>
                   heap'[p][u] \in SoundEntry /\ SameCounts(p, u)
  <2>1. CASE p \in paths
    <3> PICK m : m = Marked(p, s)
      OBVIOUS
    <3>1. /\ m \in SoundEntry
          /\ m.added = heap[p][remotes[p]].added /\ m.begun = heap[p][remotes[p]].begun
          /\ m.settled = heap[p][remotes[p]].settled
      BY <1>2, <1>3, <2>1, MarkedFacts
    <3>2. heap'[p] = [heap[p] EXCEPT ![remotes[p]] = m]
      BY <1>1, <2>1
    <3>3. remotes[p] \in Slots /\ heap[p] \in [Slots -> SoundEntry \cup {None}]
      BY <1>2, <1>3, <2>1 DEF HeapInv
    <3>4. \A u \in Slots : heap'[p][u] = IF u = remotes[p] THEN m ELSE heap[p][u]
      BY <3>2, <3>3
    <3>5. heap'[p] \in [Slots -> SoundEntry \cup {None}]
      BY <3>1, <3>2, <3>3
    <3> QED
      BY <3>1, <3>4, <3>5 DEF SameCounts
  <2>2. CASE p \notin paths
    <3>1. heap'[p] = heap[p]
      BY <1>1, <2>2
    <3> QED
      BY <1>2, <3>1 DEF SameCounts
  <2> QED
    BY <2>1, <2>2
<1>5. heap' \in [Entries -> [Slots -> SoundEntry \cup {None}]]
  <2>1. heap' = [p \in Entries |-> heap'[p]]
    BY <1>1
  <2> QED
    BY <1>4, <2>1
<1>6. HeapKept
  BY <1>4, <1>5 DEF HeapKept, HeapSound
<1> QED
  BY <1>2, <1>6, KeptHeap, KeptTracer, KeptCounts, KeptTickers DEF NetInv, HeapKept

-----------------------------------------------------------------------------
(* A query. *)

\* There is always a slot that no goroutine holds: the tracer of a path holds one of
\* its slots at most, and so does every ticker.
LEMMA FreeSlot ==
    ASSUME NetInv, NEW p \in Entries
    PROVE  \E s \in Slots : s \notin Held(p)
<1> SUFFICES ASSUME \A s \in Slots : s \in Held(p) PROVE FALSE
  OBVIOUS
<1> PICK n, x : n = Cardinality(Tickers) /\ x = tracer[p].slot
  OBVIOUS
<1> DEFINE S == Slots \ {x}
           Holds(t, s) == ticker[t].hold # None /\ ticker[t].hold[1] = p /\ ticker[t].hold[2] = s
           f == [s \in S |-> CHOOSE t \in Tickers : Holds(t, s)]
<1>1. n \in Nat /\ IsFiniteSet(Tickers)
  BY FS_CardinalityType, NetworkStateAssumption
<1>2. IsFiniteSet(Slots) /\ Cardinality(Slots) = n + 2
  <2>1. Slots = 1 .. n + 2 /\ 1 \in Int /\ n + 2 \in Int /\ ~ (1 > n + 2) /\ (n + 2) - 1 + 1 = n + 2
    BY <1>1 DEF Slots
  <2> PICK m : m = n + 2
    OBVIOUS
  <2>2. IsFiniteSet(1 .. m) /\ Cardinality(1 .. m) = IF 1 > m THEN 0 ELSE m - 1 + 1
    BY <2>1, FS_Interval
  <2> QED
    BY <1>1, <2>1, <2>2
<1>3. IsFiniteSet(S) /\ Cardinality(S) >= n + 1
  <2>1. /\ IsFiniteSet(Slots \ {x})
        /\ Cardinality(Slots \ {x}) = IF x \in Slots THEN Cardinality(Slots) - 1 ELSE Cardinality(Slots)
    BY <1>2, FS_RemoveElement
  <2> QED
    BY <1>1, <1>2, <2>1
<1>4. ASSUME NEW s \in S PROVE f[s] \in Tickers /\ Holds(f[s], s)
  <2>1. s \in Held(p) /\ s # x
    OBVIOUS
  <2>2. \E t \in Tickers : Holds(t, s)
    BY <2>1 DEF Held
  <2> QED
    BY <2>2
<1>5. f \in [S -> Tickers]
  BY <1>4
<1>6. \A s, u \in S : f[s] = f[u] => s = u
  <2> HIDE DEF f, S
  <2>1. ASSUME NEW s \in S, NEW u \in S, f[s] = f[u] PROVE s = u
    <3>1. Holds(f[s], s) /\ Holds(f[u], u)
      BY <1>4
    <3> QED
      BY <2>1, <3>1
  <2> QED
    BY <2>1
<1> HIDE DEF f, S
<1>7. \E s, u \in S : s # u /\ f[s] = f[u]
  <2>1. n < Cardinality(S)
    BY <1>1, <1>3, FS_CardinalityType
  <2> QED
    BY <1>1, <1>3, <1>5, <2>1, FS_PigeonHole
<1> QED
  BY <1>6, <1>7

\* AddRemote(paths), as far as the invariant is concerned.
LEMMA AddRemoteFacts ==
    ASSUME NetInv, NEW paths \in SUBSET Entries, AddRemote(paths)
    PROVE  /\ UNCHANGED <<load, tracer>>
           /\ DOMAIN remotes' = paths \cup DOMAIN remotes
           /\ \A p \in paths : /\ remotes'[p] \in Slots /\ remotes'[p] \notin Held(p)
                              /\ heap'[p][remotes'[p]] = NewEntry
           /\ \A p \in DOMAIN remotes \ paths : remotes'[p] = remotes[p]
           /\ remotes' = [p \in DOMAIN remotes' |-> remotes'[p]]
           /\ heap' \in [Entries -> [Slots -> SoundEntry \cup {None}]]
           /\ \A p \in Entries \ paths : heap'[p] = heap[p]
           /\ \A p \in Entries : \A s \in Held(p) : s \in Slots => heap'[p][s] = heap[p][s]
<1> DEFINE slot == [p \in paths |-> CHOOSE s \in Slots : s \notin Held(p)]
<1>1. /\ UNCHANGED <<load, tracer>>
      /\ remotes' = [p \in paths \cup DOMAIN remotes |-> IF p \in paths THEN slot[p] ELSE remotes[p]]
      /\ heap' = [p \in Entries |->
                    IF p \in paths
                    THEN [s \in Slots |-> IF s = slot[p] THEN NewEntry
                                          ELSE IF s \in Held(p) THEN heap[p][s] ELSE None]
                    ELSE heap[p]]
  BY DEF AddRemote, Query
<1>2. ASSUME NEW p \in paths PROVE slot[p] \in Slots /\ slot[p] \notin Held(p)
  <2>1. \E s \in Slots : s \notin Held(p)
    BY FreeSlot
  <2> QED
    BY <2>1
<1> HIDE DEF slot
<1>5. /\ DOMAIN remotes' = paths \cup DOMAIN remotes
      /\ \A p \in paths : remotes'[p] = slot[p]
      /\ \A p \in DOMAIN remotes \ paths : remotes'[p] = remotes[p]
      /\ remotes' = [p \in DOMAIN remotes' |-> remotes'[p]]
  BY <1>1
<1>6. heap \in [Entries -> [Slots -> SoundEntry \cup {None}]] /\ NewEntry \in SoundEntry
  BY NewIsSound DEF NetInv, HeapInv
<1>7. ASSUME NEW p \in Entries
      PROVE  /\ heap'[p] \in [Slots -> SoundEntry \cup {None}]
             /\ p \notin paths => heap'[p] = heap[p]
             /\ p \in paths => heap'[p][slot[p]] = NewEntry
             /\ \A s \in Held(p) : s \in Slots => heap'[p][s] = heap[p][s]
  <2>1. CASE p \in paths
    <3>1. heap'[p] = [s \in Slots |-> IF s = slot[p] THEN NewEntry
                                      ELSE IF s \in Held(p) THEN heap[p][s] ELSE None]
      BY <1>1, <2>1
    <3> QED
      BY <1>2, <1>6, <2>1, <3>1
  <2>2. CASE p \notin paths
    BY <1>1, <1>6, <2>2
  <2> QED
    BY <2>1, <2>2
<1>8. heap' \in [Entries -> [Slots -> SoundEntry \cup {None}]]
  <2>1. heap' = [p \in Entries |-> heap'[p]]
    BY <1>1
  <2> QED
    BY <1>7, <2>1
<1> QED
  BY <1>1, <1>2, <1>5, <1>7, <1>8

LEMMA AddRemoteStep ==
    ASSUME NetInv, NEW paths \in SUBSET Entries, AddRemote(paths)
    PROVE  NetInv'
<1>1. /\ UNCHANGED <<load, tracer>>
      /\ DOMAIN remotes' = paths \cup DOMAIN remotes
      /\ \A p \in paths : /\ remotes'[p] \in Slots /\ remotes'[p] \notin Held(p)
                         /\ heap'[p][remotes'[p]] = NewEntry
      /\ \A p \in DOMAIN remotes \ paths : remotes'[p] = remotes[p]
      /\ remotes' = [p \in DOMAIN remotes' |-> remotes'[p]]
      /\ heap' \in [Entries -> [Slots -> SoundEntry \cup {None}]]
      /\ \A p \in Entries \ paths : heap'[p] = heap[p]
      /\ \A p \in Entries : \A s \in Held(p) : s \in Slots => heap'[p][s] = heap[p][s]
  BY AddRemoteFacts
<1>2. HeapInv /\ TracerInv /\ CountInv /\ TickerInv
  BY DEF NetInv
<1>3. HeapInv'
  <2>1. ASSUME NEW p \in DOMAIN remotes'
        PROVE  p \in Entries /\ remotes'[p] \in Slots /\ heap'[p][remotes'[p]] \in SoundEntry
    <3>1. CASE p \in paths
      BY <1>1, <3>1, NewIsSound
    <3>2. CASE p \notin paths
      <4>1. p \in DOMAIN remotes /\ p \in Entries
        BY <1>1, <1>2, <3>2 DEF HeapInv
      <4>2. remotes[p] \in Slots /\ heap[p][remotes[p]] \in SoundEntry
        BY <1>2, <4>1 DEF HeapInv
      <4> QED
        BY <1>1, <3>2, <4>1, <4>2
    <3> QED
      BY <3>1, <3>2
  <2>2. remotes' \in [DOMAIN remotes' -> Slots] /\ DOMAIN remotes' \subseteq Entries
    BY <1>1, <2>1
  <2>3. load' \in Loads
    BY <1>1, <1>2 DEF HeapInv
  <2> QED
    BY <1>1, <2>1, <2>2, <2>3 DEF HeapInv
<1>4. ASSUME NEW p \in Entries, tracer[p] # None
      PROVE  /\ tracer[p].slot \in Slots /\ tracer[p].slot \in Held(p)
             /\ heap'[p][tracer[p].slot] = heap[p][tracer[p].slot]
  <2>1. tracer[p].slot \in Slots
    BY <1>2, <1>4 DEF TracerInv, SoundAddition, Adding
  <2>2. tracer[p].slot \in Held(p)
    BY <1>4 DEF Held
  <2> QED
    BY <1>1, <2>1, <2>2
<1>5. TracerInv'
  <2>1. DOMAIN tracer' = Entries /\ tracer' = tracer
    BY <1>1, <1>2 DEF TracerInv
  <2>2. ASSUME NEW p \in Entries, tracer[p] # None
        PROVE  SoundAddition(tracer[p], heap'[p][tracer[p].slot])
    BY <1>2, <1>4, <2>2 DEF TracerInv
  <2> QED
    BY <2>1, <2>2 DEF TracerInv, SoundAddition
<1>6. CountInv'
  <2>1. ASSUME NEW p \in Entries, NEW s \in Slots, InUse(p, s)' PROVE Exact(p, s)'
    <3>1. \A c \in Counters : Pending(p, s, c)' = Pending(p, s, c)
      BY <1>1 DEF UnderWay, Pending
    <3>2. CASE tracer[p] # None /\ tracer[p].slot = s
      <4>1. heap'[p][s] = heap[p][s]
        BY <1>4, <3>2
      <4>2. Exact(p, s)
        BY <1>2, <3>2 DEF CountInv, InUse
      <4> QED
        BY <3>1, <4>1, <4>2 DEF Exact
    <3>3. CASE ~ (tracer[p] # None /\ tracer[p].slot = s)
      <4>1. p \in DOMAIN remotes' /\ remotes'[p] = s /\ \A c \in Counters : ~UnderWay(p, s, c)
        BY <1>1, <2>1, <3>3 DEF InUse, UnderWay
      <4>2. CASE p \in paths
        <5>1. heap'[p][s] = NewEntry
          BY <1>1, <4>1, <4>2
        <5>2. ASSUME NEW c \in Counters
              PROVE  NewEntry.begun[c] = Len(NewEntry.added[c]) + Pending(p, s, c)'
          <6>1. Pending(p, s, c)' = 0
            BY <3>1, <4>1 DEF Pending
          <6> QED
            BY <6>1, NewIsSound
        <5> QED
          BY <5>1, <5>2, Zenon DEF Exact
      <4>3. CASE p \notin paths
        <5>1. heap'[p] = heap[p] /\ p \in DOMAIN remotes /\ remotes[p] = s
          BY <1>1, <4>1, <4>3
        <5>2. Exact(p, s)
          BY <1>2, <5>1 DEF CountInv, InUse
        <5> QED
          BY <3>1, <5>1, <5>2 DEF Exact
      <4> QED
        BY <4>2, <4>3
    <3> QED
      BY <3>2, <3>3
  <2> QED
    BY <2>1 DEF CountInv
<1>7. TickerInv'
  <2>1. PICK more \in [Tickers -> SUBSET (paths \ DOMAIN remotes)] :
          ticker' = [t \in Tickers |-> [ticker[t] EXCEPT !.todo = @ \cup more[t]]]
    BY DEF AddRemote, Query
  <2>2. ASSUME NEW t \in Tickers PROVE ticker'[t] \in TickerState /\ TickerOK(ticker[t])'
    <3> PICK j, m, k : j = ticker[t] /\ m = more[t] /\ k = [j EXCEPT !.todo = @ \cup m]
      OBVIOUS
    <3>1. ticker'[t] = k
      BY <2>1
    <3>2. m \subseteq paths \ DOMAIN remotes
      BY <2>1
    <3>3. /\ j \in TickerState /\ TickerOK(j)
          /\ j = [pc |-> j.pc, todo |-> j.todo, hold |-> j.hold, copies |-> j.copies]
          /\ j.pc \in {"sleep", "scan", "reset"} /\ j.todo \in SUBSET Entries
          /\ j.copies \in Seq(Copied)
          /\ j.hold # None => j.hold[1] \in Entries /\ j.hold[2] \in Slots
      BY TickerFields
    <3>4. k = [pc |-> j.pc, todo |-> j.todo \cup m, hold |-> j.hold, copies |-> j.copies]
      BY <3>3
    <3>5. k.todo = j.todo \cup m /\ k.hold = j.hold
      BY <3>4
    <3>6. k \in TickerState
      <4>1. j.hold \in (Entries \X Slots) \cup {None} /\ j.todo \cup m \in SUBSET Entries
        BY <3>2, <3>3 DEF TickerState
      <4> QED
        BY ONLY <3>3, <3>4, <4>1 DEF TickerState
    <3>7. ASSUME k.hold # None PROVE heap'[k.hold[1]][k.hold[2]] \in SoundEntry
      <4> PICK p, s : p = j.hold[1] /\ s = j.hold[2]
        OBVIOUS
      <4>1. p \in Entries /\ s \in Slots /\ heap[p][s] \in SoundEntry
        BY <3>3, <3>5, <3>7 DEF TickerOK
      <4>2. s \in Held(p)
        BY <3>5, <3>7 DEF Held
      <4>3. heap'[p][s] = heap[p][s]
        BY <1>1, <4>1, <4>2
      <4> QED
        BY <3>5, <4>1, <4>3
    <3>8. k.todo \subseteq DOMAIN remotes'
      BY <1>1, <3>2, <3>3, <3>5, ZenonT(60) DEF TickerOK
    <3>9. TickerOK(k)'
      BY <3>7, <3>8 DEF TickerOK
    <3> QED
      BY <3>1, <3>6, <3>9 DEF TickerOK
  <2>3. ticker' = [t \in Tickers |-> ticker'[t]]
    BY <2>1
  <2> QED
    BY <2>2, <2>3 DEF TickerInv
<1> QED
  BY <1>3, <1>5, <1>6, <1>7 DEF NetInv

-----------------------------------------------------------------------------

LEMMA NetInit == Init => NetInv
<1> SUFFICES ASSUME Init PROVE NetInv
  OBVIOUS
<1>1. HeapInv
  BY DEF Init, HeapInv
<1>2. TracerInv
  BY DEF Init, TracerInv
<1>3. CountInv
  BY DEF Init, CountInv, InUse
<1>4. TickerInv
  <2> PICK k : k = [pc |-> "sleep", todo |-> {}, hold |-> None, copies |-> <<>>]
    OBVIOUS
  <2>1. k \in TickerState
    BY DEF TickerState
  <2>2. TickerOK(k)
    <3>1. k.todo = {} /\ k.hold = None
      OBVIOUS
    <3> QED
      BY <3>1 DEF TickerOK
  <2>3. ticker = [t \in Tickers |-> k]
    BY DEF Init, Sleeping
  <2> QED
    BY <2>1, <2>2, <2>3 DEF TickerInv
<1> QED
  BY <1>1, <1>2, <1>3, <1>4 DEF NetInv

LEMMA NetNext == NetInv /\ [Next]_vars => NetInv'
<1> SUFFICES ASSUME NetInv, [Next]_vars PROVE NetInv'
  OBVIOUS
<1>1. ASSUME NEW r \in Addrs, NEW paths \in SUBSET {p \in load.paths : p[1] = r} \ {{}},
             AddRemote(paths)
      PROVE  NetInv'
  <2>1. load.paths \subseteq Entries
    BY NetworkStateAssumption DEF NetInv, HeapInv, Load
  <2>2. paths \in SUBSET Entries
    BY <2>1
  <2> QED
    BY <1>1, <2>2, AddRemoteStep
<1>2. ASSUME NEW r \in Addrs, InitialPathSelection(r) PROVE NetInv'
  BY <1>2, SelectionStep
<1>3. ASSUME NEW p \in Entries, Tracer(p) PROVE NetInv'
  BY <1>3, TracerStep
<1>4. ASSUME NEW t \in Tickers, Ticker(t) PROVE NetInv'
  <2>1. CASE StartTick(t) \/ Report(t) \/ EndTick(t)
    BY <2>1, FreshSteps
  <2>2. CASE Copy(t)
    BY <2>2, CopyStep
  <2>3. CASE ResetPacketloss(t)
    BY <2>3, ResetPacketlossStep
  <2>4. ASSUME NEW p \in Entries, Look(t, p) PROVE NetInv'
    BY <2>4, LookStep
  <2>5. ASSUME NEW p \in Entries, ResetThroughput(t, p) PROVE NetInv'
    BY <2>5, ResetThroughputStep
  <2> QED
    BY <1>4, <2>1, <2>2, <2>3, <2>4, <2>5 DEF Ticker
<1>5. CASE UNCHANGED <<load, remotes, heap, tracer, ticker>>
  BY <1>5, NothingMoves
<1> QED
  BY <1>1, <1>2, <1>3, <1>4, <1>5 DEF Next, MapRace, vars

LEMMA NetInvariant == Spec => []NetInv
  BY NetInit, NetNext, PTL DEF Spec

\* Whatever the tracers and the tickers of any number of connections do to the
\* counters of any number of paths, a counter is the total of the latest additions,
\* and what was settled at a reset never comes back.
THEOREM CountersAreLatest == Spec => []LatestPackets
<1>1. NetInv => LatestPackets
  <2> SUFFICES ASSUME NetInv, NEW p \in DOMAIN remotes, NEW e, e = PathMetrics(p)
               PROVE  /\ \A c \in Counters : Latest(e.counters[c], e.added[c], e.settled[c])
                      /\ e.counters["CwndDecreaseEvents"] = Len(e.added["CwndDecreaseEvents"])
    BY DEF LatestPackets
  <2>1. e \in SoundEntry
    BY DEF PathMetrics, NetInv, HeapInv
  <2> QED
    BY <2>1, EntryFacts
<1> QED
  BY <1>1, NetInvariant, PTL

\* However often paths are queried while packets are counted, of what begins with an
\* entry in the map nothing is lost with another.
THEOREM NoPacketIsMissed == Spec => []EveryPacketCounted
<1>1. NetInv => EveryPacketCounted
  <2> SUFFICES ASSUME NetInv, NEW p \in DOMAIN remotes, NEW c \in Counters
               PROVE  PathMetrics(p).begun[c] =
                        Len(PathMetrics(p).added[c]) + (IF UnderWay(p, remotes[p], c) THEN 1 ELSE 0)
    BY DEF EveryPacketCounted
  <2>1. p \in Entries /\ remotes[p] \in Slots
    BY DEF NetInv, HeapInv
  <2>2. Exact(p, remotes[p])
    BY <2>1 DEF NetInv, CountInv, InUse
  <2> QED
    BY <2>2 DEF Exact, Pending, PathMetrics
<1> QED
  BY <1>1, NetInvariant, PTL

-----------------------------------------------------------------------------
(* What a ticker copies. *)

\* A ticker has every entry in one place: still to come, in its hand, or copied.  D is
\* what the map has.
Once(D, todo, hold, w) ==
    /\ todo \subseteq D
    /\ \A i \in DOMAIN w : w[i].path \in D \ todo
    /\ \A i, j \in DOMAIN w : w[i].path = w[j].path => i = j
    /\ hold # None => /\ hold[1] \in D \ todo
                      /\ \A i \in DOMAIN w : w[i].path # hold[1]

OnceInv == \A t \in Tickers : Once(DOMAIN remotes, ticker[t].todo, ticker[t].hold, ticker[t].copies)

LEMMA OnceTick ==
    ASSUME NetInv, OnceInv, NEW t \in Tickers, NEW from, NEW k, Tick(t, from, k),
           Once(DOMAIN remotes, k.todo, k.hold, k.copies)
    PROVE  OnceInv'
<1>1. /\ ticker \in [Tickers -> TickerState]
      /\ ticker' = [ticker EXCEPT ![t] = k] /\ remotes' = remotes
  BY DEF NetInv, TickerInv, Tick
<1>2. ASSUME NEW u \in Tickers
      PROVE  Once(DOMAIN remotes, ticker'[u].todo, ticker'[u].hold, ticker'[u].copies)
  <2>1. CASE u = t
    <3>1. ticker'[u] = k
      BY ONLY <1>1, <2>1, t \in Tickers
    <3> QED
      BY <3>1
  <2>2. CASE u # t
    <3>1. ticker'[u] = ticker[u]
      BY ONLY <1>1, <2>2, u \in Tickers
    <3> QED
      BY <3>1 DEF OnceInv
  <2> QED
    BY <2>1, <2>2
<1> QED
  BY <1>1, <1>2 DEF OnceInv

\* The path in the hand is copied.
LEMMA OnceCopied ==
    ASSUME NEW D, NEW todo, NEW hold, hold # None, NEW w \in Seq(Copied),
           Once(D, todo, hold, w), NEW x \in Copied, x.path = hold[1]
    PROVE  Once(D, todo, None, Append(w, x))
<1> PICK u, n, p : u = Append(w, x) /\ n = Len(w) /\ p = hold[1]
  OBVIOUS
<1>1. /\ n \in Nat /\ DOMAIN w = 1 .. n /\ DOMAIN u = 1 .. n + 1 /\ u[n + 1] = x
      /\ \A i \in 1 .. n : u[i] = w[i]
  OBVIOUS
<1>2. /\ todo \subseteq D /\ p \in D \ todo /\ x.path = p
      /\ \A i \in 1 .. n : w[i].path \in D \ todo /\ w[i].path # p
      /\ \A i, j \in 1 .. n : w[i].path = w[j].path => i = j
  BY <1>1 DEF Once
<1>3. \A i \in 1 .. n + 1 : i = n + 1 \/ i \in 1 .. n
  BY <1>1
<1>4. \A i \in 1 .. n + 1 : u[i].path \in D \ todo
  BY ONLY <1>1, <1>2, <1>3
<1>5. ASSUME NEW i \in 1 .. n + 1, NEW j \in 1 .. n + 1, u[i].path = u[j].path PROVE i = j
  <2>1. CASE i \in 1 .. n /\ j \in 1 .. n
    BY ONLY <1>1, <1>2, <1>5, <2>1
  <2>2. CASE i = n + 1 /\ j \in 1 .. n
    BY ONLY <1>1, <1>2, <1>5, <2>2
  <2>3. CASE i \in 1 .. n /\ j = n + 1
    BY ONLY <1>1, <1>2, <1>5, <2>3
  <2> QED
    BY ONLY <1>3, <2>1, <2>2, <2>3
<1>6. Once(D, todo, None, u)
  BY ONLY <1>1, <1>2, <1>4, <1>5 DEF Once
<1> QED
  BY <1>6

\* What p and its pointer, or a copy, make of a ticker.
LEMMA TakenOut ==
    ASSUME NEW j, j = [pc |-> j.pc, todo |-> j.todo, hold |-> j.hold, copies |-> j.copies],
           NEW p, NEW h, NEW k, k = [j EXCEPT !.todo = @ \ {p}, !.hold = h]
    PROVE  k = [pc |-> j.pc, todo |-> j.todo \ {p}, hold |-> h, copies |-> j.copies]
OBVIOUS

LEMMA PutDown ==
    ASSUME NEW j, j = [pc |-> j.pc, todo |-> j.todo, hold |-> j.hold, copies |-> j.copies],
           NEW h, NEW w, NEW k, k = [j EXCEPT !.hold = h, !.copies = w]
    PROVE  k = [pc |-> j.pc, todo |-> j.todo, hold |-> h, copies |-> w]
OBVIOUS

LEMMA OnceTicker ==
    ASSUME NetInv, OnceInv, NEW t \in Tickers, Ticker(t)
    PROVE  OnceInv'
<1> PICK j, D : j = ticker[t] /\ D = DOMAIN remotes
  OBVIOUS
<1>1. /\ j \in TickerState /\ TickerOK(j)
      /\ j = [pc |-> j.pc, todo |-> j.todo, hold |-> j.hold, copies |-> j.copies]
      /\ j.copies \in Seq(Copied)
  BY TickerFields
<1>2. Once(D, j.todo, j.hold, j.copies)
  BY DEF OnceInv
<1>3. \A todo \in SUBSET D : Once(D, todo, None, <<>>)
  BY DEF Once
<1>4. ASSUME NEW from, NEW k, Tick(t, from, k),
             k.todo \in SUBSET D, k.hold = None, k.copies = <<>>
      PROVE  OnceInv'
  <2>1. Once(D, k.todo, k.hold, k.copies)
    BY <1>3, <1>4
  <2> QED
    BY <1>4, <2>1, OnceTick
<1>5. CASE StartTick(t) \/ Report(t) \/ EndTick(t)
  <2> PICK a, b : /\ a = [Sleeping EXCEPT !.pc = "scan", !.todo = D]
                  /\ b = [Sleeping EXCEPT !.pc = "reset", !.todo = D]
    OBVIOUS
  <2>1. /\ a = [pc |-> "scan", todo |-> D, hold |-> None, copies |-> <<>>]
        /\ b = [pc |-> "reset", todo |-> D, hold |-> None, copies |-> <<>>]
        /\ Sleeping = [pc |-> "sleep", todo |-> {}, hold |-> None, copies |-> <<>>]
    BY SleepingBut, ZenonT(60) DEF Sleeping
  <2>2. \A k \in {a, b, Sleeping} : k.todo \in SUBSET D /\ k.hold = None /\ k.copies = <<>>
    BY ONLY <2>1
  <2>3. StartTick(t) => Tick(t, "sleep", a)
    BY Zenon DEF StartTick
  <2>4. Report(t) => Tick(t, "scan", b)
    BY Zenon DEF Report
  <2>5. EndTick(t) => Tick(t, "reset", Sleeping)
    BY Zenon DEF EndTick
  <2> QED
    BY <1>4, <1>5, <2>2, <2>3, <2>4, <2>5
<1>6. ASSUME NEW p \in j.todo, NEW hold \in {None, <<p, remotes[p]>>}, NEW from,
             NEW k, k = [pc |-> j.pc, todo |-> j.todo \ {p}, hold |-> hold, copies |-> j.copies],
             Tick(t, from, k)
      PROVE  OnceInv'
  <2>1. k.todo = j.todo \ {p} /\ k.hold = hold /\ k.copies = j.copies
    BY <1>6
  <2>2. hold # None => hold[1] = p
    OBVIOUS
  <2>3. Once(D, j.todo \ {p}, hold, j.copies)
    BY ONLY <1>2, <2>2, p \in j.todo DEF Once
  <2> QED
    BY <1>6, <2>1, <2>3, OnceTick
<1>7. ASSUME NEW p \in Entries, Look(t, p) PROVE OnceInv'
  <2>1. p \in j.todo /\ j.hold = None
    BY <1>7 DEF Look
  <2> PICK a, b : /\ a = [j EXCEPT !.todo = @ \ {p}]
                  /\ b = [j EXCEPT !.todo = @ \ {p}, !.hold = <<p, remotes[p]>>]
    OBVIOUS
  <2>2. a = [pc |-> j.pc, todo |-> j.todo \ {p}, hold |-> None, copies |-> j.copies]
    BY <1>1, <2>1
  <2>3. b = [pc |-> j.pc, todo |-> j.todo \ {p}, hold |-> <<p, remotes[p]>>,
             copies |-> j.copies]
    BY <1>1, TakenOut
  <2>4. Tick(t, "scan", a) \/ Tick(t, "scan", b)
    BY <1>7 DEF Look
  <2> QED
    BY <1>6, <2>1, <2>2, <2>3, <2>4
<1>8. ASSUME NEW p \in Entries, ResetThroughput(t, p) PROVE OnceInv'
  <2> PICK b : b = [j EXCEPT !.todo = @ \ {p}, !.hold = <<p, remotes[p]>>]
    OBVIOUS
  <2>1. b = [pc |-> j.pc, todo |-> j.todo \ {p}, hold |-> <<p, remotes[p]>>,
             copies |-> j.copies]
    BY <1>1, TakenOut
  <2>2. p \in j.todo /\ Tick(t, "reset", b)
    BY <1>8, Zenon DEF ResetThroughput
  <2> QED
    BY <1>6, <2>1, <2>2
<1>9. CASE ResetPacketloss(t)
  <2> PICK k : k = [j EXCEPT !.hold = None]
    OBVIOUS
  <2>1. k = [pc |-> j.pc, todo |-> j.todo, hold |-> None, copies |-> j.copies]
    BY <1>1
  <2>2. Tick(t, "reset", k)
    BY <1>9, Zenon DEF ResetPacketloss
  <2>3. k.todo = j.todo /\ k.hold = None /\ k.copies = j.copies
    BY <2>1
  <2>4. Once(D, j.todo, None, j.copies)
    BY ONLY <1>2 DEF Once
  <2>5. Once(DOMAIN remotes, k.todo, k.hold, k.copies)
    BY <2>3, <2>4
  <2> QED
    BY <2>2, <2>5, OnceTick
<1>10. CASE Copy(t)
  <2> PICK p, s, x : /\ p = j.hold[1] /\ s = j.hold[2]
                     /\ x = [path |-> p, counters |-> heap[p][s].counters]
    OBVIOUS
  <2> PICK w : w = Append(j.copies, x)
    OBVIOUS
  <2> PICK k : k = [j EXCEPT !.hold = None, !.copies = w]
    OBVIOUS
  <2>1. k = [pc |-> j.pc, todo |-> j.todo, hold |-> None, copies |-> w]
    BY <1>1, PutDown
  <2>2. j.hold # None /\ Tick(t, "scan", k)
    BY <1>10, Zenon DEF Copy
  <2>3. p \in Entries /\ heap[p][s] \in SoundEntry
    BY <1>1, <2>2, ZenonT(60) DEF TickerOK, TickerState
  <2>4. heap[p][s].counters \in [Counters -> Nat]
    BY ONLY <2>3, EntryFacts
  <2>5. x \in Copied /\ x.path = j.hold[1]
    BY <2>3, <2>4 DEF Copied
  <2>6. Once(D, j.todo, None, w)
    BY <1>1, <1>2, <2>2, <2>5, OnceCopied
  <2>7. k.todo = j.todo /\ k.hold = None /\ k.copies = w
    BY <2>1
  <2>8. Once(DOMAIN remotes, k.todo, k.hold, k.copies)
    BY <2>6, <2>7
  <2> QED
    BY <2>2, <2>8, OnceTick
<1> QED
  BY <1>5, <1>7, <1>8, <1>9, <1>10 DEF Ticker

\* AddRemote lets a ticker come to what was not in the map.
LEMMA OnceAddRemote ==
    ASSUME NetInv, OnceInv, NEW paths \in SUBSET Entries, AddRemote(paths)
    PROVE  OnceInv'
<1>1. PICK more \in [Tickers -> SUBSET (paths \ DOMAIN remotes)] :
        ticker' = [t \in Tickers |-> [ticker[t] EXCEPT !.todo = @ \cup more[t]]]
  BY DEF AddRemote, Query
<1>2. DOMAIN remotes' = paths \cup DOMAIN remotes
  BY DEF AddRemote, Query
<1>3. ASSUME NEW t \in Tickers
      PROVE  Once(DOMAIN remotes', ticker'[t].todo, ticker'[t].hold, ticker'[t].copies)
  <2> PICK j, m, k, D : /\ j = ticker[t] /\ m = more[t] /\ k = [j EXCEPT !.todo = @ \cup m]
                        /\ D = DOMAIN remotes
    OBVIOUS
  <2>1. ticker'[t] = k /\ m \subseteq paths \ D
    BY <1>1
  <2>2. j = [pc |-> j.pc, todo |-> j.todo, hold |-> j.hold, copies |-> j.copies]
    BY TickerFields
  <2>3. k.todo = j.todo \cup m /\ k.hold = j.hold /\ k.copies = j.copies
    BY <2>2
  <2>4. Once(D, j.todo, j.hold, j.copies)
    BY DEF OnceInv
  <2>5. Once(paths \cup D, j.todo \cup m, j.hold, j.copies)
    BY ONLY <2>1, <2>4 DEF Once
  <2> QED
    BY <1>2, <2>1, <2>3, <2>5
<1> QED
  BY <1>3 DEF OnceInv

LEMMA OnceNext == NetInv /\ OnceInv /\ [Next]_vars => OnceInv'
<1> SUFFICES ASSUME NetInv, OnceInv, [Next]_vars PROVE OnceInv'
  OBVIOUS
<1>1. ASSUME NEW r \in Addrs, NEW paths \in SUBSET {p \in load.paths : p[1] = r} \ {{}},
             AddRemote(paths)
      PROVE  OnceInv'
  <2>1. load.paths \subseteq Entries
    BY NetworkStateAssumption DEF NetInv, HeapInv, Load
  <2>2. paths \in SUBSET Entries
    BY <2>1
  <2> QED
    BY <1>1, <2>2, OnceAddRemote
<1>2. CASE UNCHANGED <<remotes, ticker>>
  BY <1>2 DEF OnceInv
<1>3. ASSUME NEW p \in Entries, Tracer(p) PROVE OnceInv'
  BY <1>2, <1>3 DEF Tracer, BeginAdd, AddPanics, EndAdd, Store
<1> QED
  BY <1>1, <1>2, <1>3, OnceTicker DEF Next, InitialPathSelection, MapRace, vars

\* While AddRemote replaces entries and adds others, a ticker copies none twice, for any
\* number of remotes, paths and tickers: what it reports are pairs of two entries.
THEOREM PairsDiffer == Spec => []PairsAreTwo
<1>1. Init => OnceInv
  BY DEF Init, OnceInv, Once, Sleeping
<1>2. NetInv /\ OnceInv => PairsAreTwo
  <2> SUFFICES ASSUME NetInv, OnceInv, NEW t \in Tickers, NEW w, w = ticker[t].copies,
                      NEW x \in FindSimilarPaths(w)
               PROVE  x[1].path # x[2].path
    BY DEF PairsAreTwo
  <2>1. \A i, j \in DOMAIN w : w[i].path = w[j].path => i = j
    BY DEF OnceInv, Once
  <2>2. PICK ij \in (DOMAIN w) \X (DOMAIN w) : ij[1] < ij[2] /\ x = <<w[ij[1]], w[ij[2]]>>
    BY DEF FindSimilarPaths
  <2> PICK m, n : m = ij[1] /\ n = ij[2]
    OBVIOUS
  <2>3. m \in DOMAIN w /\ n \in DOMAIN w
    BY <2>2
  <2>4. w = ticker[t].copies /\ DOMAIN w \subseteq Int
    BY TickerFields
  <2>5. m # n
    BY <2>2, <2>3, <2>4
  <2>6. x[1] = w[m] /\ x[2] = w[n]
    BY <2>2
  <2> QED
    BY <2>1, <2>3, <2>5, <2>6
<1> QED
  BY <1>1, <1>2, NetInvariant, OnceNext, PTL DEF Spec

-----------------------------------------------------------------------------
\* Every selection among three paths or more is sound, for any number of remotes and of
\* paths with any hops and MTUs.
THEOREM SelectionsAreGood == Spec => GoodSelection
<1> DEFINE Good(D, r) ==
              LET low == chosen'.low
                  high == chosen'.high
                  left == D \ (low \cup high)
              IN  /\ Cardinality(low) = 1 /\ Cardinality(high) = 2 /\ low \cap high = {}
                  /\ \A p \in low : \A q \in D : Hops(p) <= Hops(q)
                  /\ \A p \in high, q \in left :
                        MTU(p) < MTU(q) => \E x \in D : MTU(q) < MTU(x)
                  /\ low \cup high \subseteq ActivePaths(r)'
                  /\ \A p \in low : PathMetrics(p)'.pref = "latency"
                  /\ \A p \in high : PathMetrics(p)'.pref = "throughput"
           A == \A r \in Addrs : InitialPathSelection(r) /\ Cardinality(ToPathSlice(r)) >= 3 =>
                                    Good(ToPathSlice(r), r)
<1>1. NetInv => A
  <2> SUFFICES ASSUME NetInv, NEW r \in Addrs, InitialPathSelection(r),
                      Cardinality(ToPathSlice(r)) >= 3, NEW D, D = ToPathSlice(r)
               PROVE  Good(D, r)
    OBVIOUS
  <2>1. PICK s \in Selections(D) :
          /\ heap' = [p \in Entries |-> IF p \in D
                                    THEN [heap[p] EXCEPT ![remotes[p]] = Marked(p, s)]
                                    ELSE heap[p]]
          /\ chosen' = s
    BY DEF InitialPathSelection
  <2>2. HeapInv /\ remotes' = remotes
    BY DEF NetInv, InitialPathSelection
  <2>3. IsFiniteSet(D) /\ D \subseteq DOMAIN remotes /\ \A p \in D : MTU(p) \in Nat
    BY <2>2, PathsFacts
  <2>4. /\ s.low \cap s.high = {} /\ s.low \cup s.high \subseteq D
        /\ Cardinality(D) >= 3 =>
              /\ Cardinality(s.low) = 1 /\ Cardinality(s.high) = 2
              /\ \A p \in s.low, q \in D : Hops(p) <= Hops(q)
              /\ \A p \in s.high, q \in D \ (s.low \cup s.high) :
                    MTU(p) < MTU(q) => \E x \in D : MTU(q) < MTU(x)
    BY <2>3, SelectionFacts
  <2>5. ASSUME NEW p \in s.low \cup s.high
        PROVE  /\ p \in ActivePaths(r)'
               /\ p \in s.low => PathMetrics(p)'.pref = "latency"
               /\ p \in s.high => PathMetrics(p)'.pref = "throughput"
    <3> PICK m : m = Marked(p, s)
      OBVIOUS
    <3>1. p \in D /\ p \in DOMAIN remotes
      BY <2>3, <2>4
    <3>2. /\ m.state = "active"
          /\ p \in s.high => m.pref = "throughput"
          /\ p \in s.low => m.pref = "latency"
      BY <2>2, <2>4, <3>1, MarkedFacts
    <3>3. /\ p \in Entries /\ remotes[p] \in Slots
          /\ heap \in [Entries -> [Slots -> SoundEntry \cup {None}]]
      BY <2>2, <3>1 DEF HeapInv
    <3>4. heap'[p][remotes'[p]] = m
      <4>1. heap'[p] = [heap[p] EXCEPT ![remotes[p]] = m]
        BY <2>1, <3>1, <3>3
      <4> QED
        BY <2>2, <3>3, <4>1
    <3>5. p \in ToPathSlice(r)'
      BY <2>2, <3>1 DEF ToPathSlice
    <3> QED
      BY <3>2, <3>4, <3>5 DEF ActivePaths, PathMetrics
  <2> QED
    BY <2>1, <2>4, <2>5
<1>2. NetInv /\ [Next]_vars => [A]_vars
  BY <1>1
<1>3. []NetInv /\ [][Next]_vars => [][A]_vars
  BY <1>2, PTL
<1> QED
  BY <1>3, NetInvariant, PTL DEF Spec, GoodSelection
=============================================================================
