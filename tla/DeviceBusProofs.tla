--------------------------- MODULE DeviceBusProofs ---------------------------
(***************************************************************************)
(* Theorems of DeviceBus, for every register size, address space, set of   *)
(* registrations and number of devices.  Two facts carry them: a table     *)
(* holds exactly the ranges its devices were registered with, and a device *)
(* and its history tell the same story.                                    *)
(***************************************************************************)
EXTENDS DeviceBus, FiniteSetTheorems, SequenceTheorems, WellFoundedInduction, TLAPS

-----------------------------------------------------------------------------
(* Division. *)

LEMMA Division ==
  ASSUME NEW b \in Nat \ {0}, NEW n \in Nat
  PROVE  n \div b \in Nat /\ n % b \in 0 .. b - 1 /\ n = b * (n \div b) + (n % b)
<1>1. n % b \in 0 .. b - 1 /\ n \div b \in Int
  OBVIOUS
<1>2. n = b * (n \div b) + (n % b)
  BY Z3T(30)
<1>3. n \div b >= 0
  <2> DEFINE q == n \div b
  <2> SUFFICES ASSUME q < 0 PROVE FALSE
    BY <1>1
  <2>1. q \in Int /\ n % b <= b - 1 /\ n % b \in Int
    BY <1>1
  <2>2. PICK d \in Nat : q = -1 - d
    <3> HIDE DEF q
    <3> QED BY <2>1, -1 - q \in Nat
  <2>3. n = b * q + (n % b)
    BY <1>2
  <2> HIDE DEF q
  <2>4. b * q = -b - b * d /\ b * d \in Nat
    BY <2>2
  <2> QED BY <2>1, <2>3, <2>4
<1> QED
  BY <1>1, <1>2, <1>3

LEMMA Quotient ==
  ASSUME NEW b \in Nat \ {0}, NEW q \in Nat, NEW r \in 0 .. b - 1, NEW n \in Nat,
         n = b * q + r
  PROVE  n \div b = q /\ n % b = r
  OBVIOUS

\* Counting on by one, modulo b.
LEMMA CountOn ==
  ASSUME NEW b \in Nat \ {0}, NEW n \in Nat
  PROVE  /\ n % b = b - 1 => (n + 1) % b = 0 /\ (n + 1) \div b = n \div b + 1
         /\ n % b # b - 1 => (n + 1) % b = (n % b) + 1 /\ (n + 1) \div b = n \div b
<1> DEFINE q == n \div b
           r == n % b
<1>1. q \in Nat /\ r \in 0 .. b - 1 /\ n = b * q + r
  BY Division
<1> HIDE DEF q, r
<1>2. CASE r = b - 1
  <2>1. n + 1 = b * (q + 1) + 0
    BY <1>1, <1>2
  <2>2. (n + 1) \div b = q + 1 /\ (n + 1) % b = 0
    BY <1>1, <2>1, Quotient
  <2> QED BY <1>2, <2>2 DEF q, r
<1>3. CASE r # b - 1
  <2>1. n + 1 = b * q + (r + 1) /\ r + 1 \in 0 .. b - 1
    BY <1>1, <1>3
  <2>2. (n + 1) \div b = q /\ (n + 1) % b = r + 1
    BY <1>1, <2>1, Quotient
  <2> QED BY <1>3, <2>2 DEF q, r
<1> QED
  BY <1>2, <1>3

\* The remainder may be taken before counting on.
LEMMA CountOnRemainder ==
  ASSUME NEW b \in Nat \ {0}, NEW n \in Nat
  PROVE  ((n % b) + 1) % b = (n + 1) % b
<1> DEFINE r == n % b
           t == (n + 1) % b
<1>1. r \in 0 .. b - 1 /\ (r = b - 1 => t = 0) /\ (r # b - 1 => t = r + 1)
  BY Division, CountOn
<1> HIDE DEF r, t
<1>2. CASE r = b - 1
  <2>1. r + 1 = b * 1 + 0
    BY <1>1, <1>2
  <2>2. (r + 1) % b = 0
    BY <1>1, <2>1, Quotient
  <2> QED BY <1>1, <1>2, <2>2 DEF r, t
<1>3. CASE r # b - 1
  <2>1. r + 1 = b * 0 + (r + 1) /\ r + 1 \in 0 .. b - 1
    BY <1>1, <1>3
  <2>2. (r + 1) % b = r + 1
    BY <1>1, <2>1, Quotient
  <2> QED BY <1>1, <1>3, <2>2 DEF r, t
<1> QED
  BY <1>2, <1>3

-----------------------------------------------------------------------------
(* The stream of a random device. *)

\* The byte after n others, and the device that has handed out n bytes.
ByteAfter(seed, n) == <<seed, (n \div BlockLen) % CounterSize, n % BlockLen>>

Rng(seed, counter, block, pos) ==
  [kind |-> "rng", seed |-> seed, counter |-> counter, block |-> block, pos |-> pos]

RngAfter(seed, n) ==
  IF n = 0 THEN Rng(seed, 1, 0, 0)
  ELSE Rng(seed, ((n - 1) \div BlockLen + 1) % CounterSize,
           ((n - 1) \div BlockLen) % CounterSize, ((n - 1) % BlockLen) + 1)

\* A random device with one register changed.
LEMMA RngFields ==
  ASSUME NEW s, NEW c, NEW b, NEW p, NEW x
  PROVE  /\ [Rng(s, c, b, p) EXCEPT !.seed = x] = Rng(x, c, b, p)
         /\ [Rng(s, c, b, p) EXCEPT !.counter = x] = Rng(s, x, b, p)
         /\ [Rng(s, c, b, p) EXCEPT !.block = x] = Rng(s, c, x, p)
         /\ [Rng(s, c, b, p) EXCEPT !.pos = x] = Rng(s, c, b, x)
         /\ Rng(s, c, b, p).seed = s /\ Rng(s, c, b, p).counter = c
         /\ Rng(s, c, b, p).block = b /\ Rng(s, c, b, p).pos = p
         /\ Rng(s, c, b, p).kind = "rng"
  BY DEF Rng

LEMMA RefilledRng ==
  ASSUME NEW s, NEW c, NEW b, NEW p
  PROVE  Refilled(Rng(s, c, b, p)) = Rng(s, (c + 1) % CounterSize, c, 0)
<1> DEFINE d == Rng(s, c, b, p)
<1>1. d.counter = c
  BY RngFields
<1>2. Refilled(d) = [[[d EXCEPT !.block = d.counter]
                        EXCEPT !.counter = (@ + 1) % CounterSize] EXCEPT !.pos = 0]
  BY DEF Refilled
<1>3. [d EXCEPT !.block = c] = Rng(s, c, c, p)
  BY RngFields
<1>4. [Rng(s, c, c, p) EXCEPT !.counter = (@ + 1) % CounterSize]
        = [Rng(s, c, c, p) EXCEPT !.counter = (c + 1) % CounterSize]
  BY RngFields
<1>5. [Rng(s, c, c, p) EXCEPT !.counter = (c + 1) % CounterSize]
        = Rng(s, (c + 1) % CounterSize, c, p)
  BY RngFields
<1>6. [Rng(s, (c + 1) % CounterSize, c, p) EXCEPT !.pos = 0]
        = Rng(s, (c + 1) % CounterSize, c, 0)
  BY RngFields
<1> QED
  BY <1>1, <1>2, <1>3, <1>4, <1>5, <1>6, Zenon

\* A new seed rewinds the stream.
LEMMA ReseededRng ==
  ASSUME NEW s, NEW c, NEW b, NEW p, NEW seed
  PROVE  Reseeded(Rng(s, c, b, p), seed) = RngAfter(seed, 0)
<1> DEFINE d == Rng(s, c, b, p)
<1>1. Reseeded(d, seed)
        = Refilled([[[d EXCEPT !.seed = seed] EXCEPT !.counter = 0] EXCEPT !.pos = BlockLen])
  BY DEF Reseeded
<1>2. [d EXCEPT !.seed = seed] = Rng(seed, c, b, p)
  BY RngFields
<1>3. [Rng(seed, c, b, p) EXCEPT !.counter = 0] = Rng(seed, 0, b, p)
  BY RngFields
<1>4. [Rng(seed, 0, b, p) EXCEPT !.pos = BlockLen] = Rng(seed, 0, b, BlockLen)
  BY RngFields
<1>5. Refilled(Rng(seed, 0, b, BlockLen)) = Rng(seed, (0 + 1) % CounterSize, 0, 0)
  BY RefilledRng
<1>6. (0 + 1) % CounterSize = 1
  <2>1. 1 = CounterSize * 0 + 1 /\ 1 \in 0 .. CounterSize - 1
    BY DeviceAssumption
  <2> QED BY DeviceAssumption, <2>1, Quotient
<1>7. RngAfter(seed, 0) = Rng(seed, 1, 0, 0)
  BY DEF RngAfter
<1> QED
  BY <1>1, <1>2, <1>3, <1>4, <1>5, <1>6, <1>7, Zenon

LEMMA OneByte ==
  ASSUME NEW seed, NEW n \in Nat
  PROVE  /\ NextByte(RngAfter(seed, n)) = ByteAfter(seed, n)
         /\ AfterByte(RngAfter(seed, n)) = RngAfter(seed, n + 1)
<1>a. BlockLen \in Nat \ {0} /\ CounterSize \in Nat \ {0, 1}
  BY DeviceAssumption
<1>0. 0 \div BlockLen = 0 /\ 0 % BlockLen = 0 /\ 0 % CounterSize = 0
      /\ 1 % CounterSize = 1
  <2>1. 0 = BlockLen * 0 + 0 /\ 0 = CounterSize * 0 + 0 /\ 1 = CounterSize * 0 + 1
    BY <1>a
  <2> QED BY <1>a, <2>1, Quotient
<1>s. n + 1 # 0 /\ (n + 1) - 1 = n
  OBVIOUS
<1>1. CASE n = 0
  <2>1. Ready(RngAfter(seed, n)) = Rng(seed, 1, 0, 0)
    BY <1>a, <1>1 DEF Ready, RngAfter, Rng
  <2>2. RngAfter(seed, n + 1) = Rng(seed, 1, 0, 1)
    BY <1>0, <1>1 DEF RngAfter
  <2>3. ByteAfter(seed, n) = <<seed, 0, 0>>
    BY <1>0, <1>1 DEF ByteAfter
  <2>4. NextByte(RngAfter(seed, n)) = <<seed, 0, 0>>
    BY <1>1, <2>1 DEF NextByte, RngAfter, Rng
  <2>5. AfterByte(RngAfter(seed, n)) = Rng(seed, 1, 0, 1)
    BY <2>1 DEF AfterByte, Rng
  <2> QED BY <2>2, <2>3, <2>4, <2>5
<1>2. CASE n # 0
  <2> DEFINE m == n - 1
             q == m \div BlockLen
             r == m % BlockLen
             d == RngAfter(seed, n)
  <2>1. m \in Nat /\ n = m + 1
    BY <1>2
  <2>2. q \in Nat /\ r \in 0 .. BlockLen - 1
    BY <1>a, <2>1, Division
  <2>3. d = Rng(seed, (q + 1) % CounterSize, q % CounterSize, r + 1)
    BY <1>2 DEF RngAfter
  <2>4. CASE r = BlockLen - 1
    <3>1. n % BlockLen = 0 /\ n \div BlockLen = q + 1
      BY <1>a, <2>1, <2>4, CountOn
    <3>2. (((q + 1) % CounterSize) + 1) % CounterSize = (q + 2) % CounterSize
      <4>1. q + 1 \in Nat /\ (q + 1) + 1 = q + 2
        BY <2>2
      <4> HIDE DEF q
      <4>2. (((q + 1) % CounterSize) + 1) % CounterSize = ((q + 1) + 1) % CounterSize
        BY <1>a, <4>1, CountOnRemainder
      <4> QED BY <4>1, <4>2
    <3> HIDE DEF q, r, d, m
    <3>3. Ready(d) = Rng(seed, (q + 2) % CounterSize, (q + 1) % CounterSize, 0)
      <4>1. d.pos >= BlockLen
        BY <1>a, <2>3, <2>4 DEF Rng
      <4>2. Ready(d) = Refilled(d)
        BY <4>1 DEF Ready
      <4>3. Refilled(d) = Rng(seed, (((q + 1) % CounterSize) + 1) % CounterSize,
                              (q + 1) % CounterSize, 0)
        BY <2>3, RefilledRng
      <4> QED BY <3>2, <4>2, <4>3
    <3>4. NextByte(d) = <<seed, (q + 1) % CounterSize, 0>>
      BY <2>3, <3>3 DEF NextByte, Rng
    <3>5. AfterByte(d) = Rng(seed, (q + 2) % CounterSize, (q + 1) % CounterSize, 1)
      BY <3>3 DEF AfterByte, Rng
    <3>6. RngAfter(seed, n + 1)
            = Rng(seed, (q + 2) % CounterSize, (q + 1) % CounterSize, 1)
      <4>1. n \div BlockLen + 1 = q + 2 /\ (n % BlockLen) + 1 = 1
        BY <2>2, <3>1
      <4> QED BY <1>s, <3>1, <4>1 DEF RngAfter
    <3>7. ByteAfter(seed, n) = <<seed, (q + 1) % CounterSize, 0>>
      BY <3>1 DEF ByteAfter
    <3> QED BY <3>4, <3>5, <3>6, <3>7 DEF d
  <2>5. CASE r # BlockLen - 1
    <3>1. n % BlockLen = r + 1 /\ n \div BlockLen = q
      BY <1>a, <2>1, <2>5, CountOn
    <3> HIDE DEF q, r, d, m
    <3>2. Ready(d) = d
      BY <1>a, <2>2, <2>3, <2>5 DEF Ready, Rng
    <3>3. NextByte(d) = <<seed, q % CounterSize, r + 1>>
      BY <2>3, <3>2 DEF NextByte, Rng
    <3>4. AfterByte(d) = Rng(seed, (q + 1) % CounterSize, q % CounterSize, (r + 1) + 1)
      BY <2>3, <3>2 DEF AfterByte, Rng
    <3>5. RngAfter(seed, n + 1)
            = Rng(seed, (q + 1) % CounterSize, q % CounterSize, (r + 1) + 1)
      BY <1>s, <3>1 DEF RngAfter
    <3>6. ByteAfter(seed, n) = <<seed, q % CounterSize, r + 1>>
      BY <3>1 DEF ByteAfter
    <3> QED BY <3>3, <3>4, <3>5, <3>6 DEF d
  <2> QED BY <2>4, <2>5
<1> QED
  BY <1>1, <1>2

LEMMA LeastMember ==
  ASSUME NEW T, T \subseteq Nat, T # {}
  PROVE  \E x \in T : \A y \in T : ~(y < x)
<1>1. PICK x \in T : \A y \in T : <<y, x>> \notin OpToRel(<, Nat)
  BY NatLessThanWellFounded, WFMin, Zenon
<1>2. ASSUME NEW y \in T PROVE ~(y < x)
  BY <1>1 DEF OpToRel
<1> QED
  BY <1>2

\* w more bytes: the recursion of Taken has the stream as its solution, and no other.
LEMMA TakenIsStream ==
  ASSUME NEW seed, NEW n \in Nat, NEW w \in Nat
  PROVE  Taken(RngAfter(seed, n), w)
           = [device |-> RngAfter(seed, n + w),
              bytes |-> [i \in 1 .. w |-> ByteAfter(seed, n + i - 1)]]
<1> DEFINE d == RngAfter(seed, n)
           First == [device |-> d, bytes |-> <<>>]
           Then(x) == [device |-> AfterByte(x.device),
                       bytes |-> Append(x.bytes, NextByte(x.device))]
           Solves(f) == f = [k \in 0 .. w |-> IF k = 0 THEN First ELSE Then(f[k - 1])]
           take == CHOOSE f : Solves(f)
           Some(k) == [i \in 1 .. k |-> ByteAfter(seed, n + i - 1)]
           Stream(k) == [device |-> RngAfter(seed, n + k), bytes |-> Some(k)]
           stream == [k \in 0 .. w |-> Stream(k)]
<1>1. Taken(d, w) = take[w]
  BY DEF Taken
<1>2. Stream(0) = First
  <2>1. Some(0) = <<>> /\ n + 0 = n
    OBVIOUS
  <2> QED BY <2>1
<1>3. ASSUME NEW k \in Nat \ {0} PROVE Stream(k) = Then(Stream(k - 1))
  <2>1. k - 1 \in Nat /\ n + (k - 1) \in Nat /\ (n + (k - 1)) + 1 = n + k
        /\ n + k - 1 = n + (k - 1)
    OBVIOUS
  <2>2. /\ NextByte(RngAfter(seed, n + (k - 1))) = ByteAfter(seed, n + (k - 1))
        /\ AfterByte(RngAfter(seed, n + (k - 1))) = RngAfter(seed, (n + (k - 1)) + 1)
    BY <2>1, OneByte
  <2>3. Some(k) = Append(Some(k - 1), ByteAfter(seed, n + (k - 1)))
    <3> DEFINE B(j) == ByteAfter(seed, j)
    <3> HIDE DEF B
    <3>1. [i \in 1 .. k |-> B(n + i - 1)]
            = Append([i \in 1 .. k - 1 |-> B(n + i - 1)], B(n + (k - 1)))
      OBVIOUS
    <3> QED BY <3>1 DEF B
  <2> HIDE DEF Some
  <2> QED BY <2>1, <2>2, <2>3
<1> HIDE DEF First, Then, Stream
<1>4. Solves(stream)
  <2>1. ASSUME NEW k \in 0 .. w
        PROVE  Stream(k) = IF k = 0 THEN First ELSE Then(stream[k - 1])
    <3>1. CASE k = 0
      BY <1>2, <3>1
    <3>2. CASE k # 0
      <4>1. k \in Nat \ {0} /\ k - 1 \in 0 .. w
        BY <3>2
      <4> QED BY <1>3, <3>2, <4>1
    <3> QED BY <3>1, <3>2
  <2> QED BY <2>1
<1>5. Solves(take)
  BY <1>4
<1> HIDE DEF take
<1>6. ASSUME NEW k \in 0 .. w PROVE take[k] = Stream(k)
  <2> DEFINE Wrong == {m \in 0 .. w : take[m] # Stream(m)}
  <2>1. Wrong = {}
    <3> SUFFICES ASSUME Wrong # {} PROVE FALSE
      OBVIOUS
    <3>1. PICK m \in Wrong : \A y \in Wrong : ~(y < m)
      <4>1. Wrong \subseteq Nat
        OBVIOUS
      <4> HIDE DEF Wrong
      <4> QED BY <4>1, LeastMember
    <3>2. m \in 0 .. w /\ take[m] # Stream(m)
      BY <3>1
    <3>3. CASE m = 0
      BY <1>2, <1>5, <3>2, <3>3
    <3>4. CASE m # 0
      <4>1. m \in Nat \ {0} /\ m - 1 \in 0 .. w /\ m - 1 < m
        BY <3>2, <3>4
      <4>2. take[m - 1] = Stream(m - 1)
        BY <3>1, <4>1
      <4>3. take[m] = Then(take[m - 1])
        BY <1>5, <3>2, <3>4
      <4> QED BY <1>3, <3>2, <4>1, <4>2, <4>3
    <3> QED BY <3>3, <3>4
  <2> QED BY <2>1
<1>7. take[w] = Stream(w)
  BY <1>6
<1> QED
  BY <1>1, <1>7 DEF Stream

-----------------------------------------------------------------------------
(* The tables. *)

\* A table holds exactly the ranges the devices asked for, and no two overlap.
Exact(space, routes, ranges) ==
  /\ routes = {Route(ranges[i], i) : i \in {j \in DOMAIN ranges : ranges[j] # NoRange}}
  /\ \A i, j \in DOMAIN ranges :
       ranges[i] # NoRange /\ ranges[j] # NoRange /\ i # j =>
         ~Overlaps(space, ranges[i], ranges[j])

\* A route stands for the range it was made of.
LEMMA RouteEnds ==
  ASSUME NEW space, NEW r, NEW i
  PROVE  /\ Route(r, i).base = r.base /\ Route(r, i).len = r.len
         /\ Route(r, i).device = i
         /\ End(space, Route(r, i)) = End(space, r)
         /\ \A s : Overlaps(space, Route(r, i), s) <=> Overlaps(space, r, s)
<1>1. /\ Route(r, i).base = r.base /\ Route(r, i).len = r.len
      /\ Route(r, i).device = i
  BY DEF Route
<1>2. End(space, Route(r, i)) = End(space, r)
  BY <1>1 DEF End, MmioEnd, PortEnd
<1> QED
  BY <1>1, <1>2 DEF Overlaps

LEMMA RoutesAreNumbered ==
  ASSUME NEW space, NEW routes, NEW ranges, Exact(space, routes, ranges), NEW r \in routes
  PROVE  /\ r.device \in DOMAIN ranges /\ ranges[r.device] # NoRange
         /\ r = Route(ranges[r.device], r.device)
<1>1. PICK i \in DOMAIN ranges : ranges[i] # NoRange /\ r = Route(ranges[i], i)
  BY DEF Exact
<1> QED
  BY <1>1, RouteEnds

\* An accepted registration adds its range to the table.
LEMMA RangeAdded ==
  ASSUME NEW space, NEW routes, NEW ranges, NEW more, NEW n \in Nat,
         DOMAIN ranges = 1 .. n, DOMAIN more = 1 .. n + 1,
         \A i \in 1 .. n : more[i] = ranges[i],
         Exact(space, routes, ranges), Accepts(space, routes, more[n + 1])
  PROVE  Exact(space, With(routes, more[n + 1], n + 1), more)
<1> DEFINE r == more[n + 1]
           Given(f) == {j \in DOMAIN f : f[j] # NoRange}
<1>1. With(routes, r, n + 1) = {Route(more[i], i) : i \in Given(more)}
  <2>1. routes = {Route(more[i], i) : i \in Given(ranges)}
    BY DEF Exact
  <2>2. CASE r = NoRange
    <3>1. Given(more) = Given(ranges)
      BY <2>2
    <3> QED BY <2>1, <2>2, <3>1 DEF With
  <2>3. CASE r # NoRange
    <3>1. Given(more) = Given(ranges) \cup {n + 1}
      BY <2>3
    <3>2. {Route(more[i], i) : i \in Given(more)}
            = {Route(more[i], i) : i \in Given(ranges)} \cup {Route(r, n + 1)}
      BY <3>1
    <3> QED BY <2>1, <2>3, <3>2 DEF With
  <2> QED BY <2>2, <2>3
<1>2. ASSUME NEW i \in 1 .. n, ranges[i] # NoRange, r # NoRange
      PROVE  ~Overlaps(space, ranges[i], r)
  <2>1. Route(ranges[i], i) \in routes
    BY <1>2 DEF Exact
  <2>2. ~Overlaps(space, Route(ranges[i], i), r)
    BY <1>2, <2>1 DEF Accepts, Insertable
  <2> QED BY <2>2, RouteEnds
<1>3. ASSUME NEW i \in 1 .. n + 1, NEW j \in 1 .. n + 1, more[i] # NoRange,
             more[j] # NoRange, i # j
      PROVE  ~Overlaps(space, more[i], more[j])
  <2>1. CASE i \in 1 .. n /\ j \in 1 .. n
    BY <1>3, <2>1 DEF Exact
  <2>2. CASE i \in 1 .. n /\ j = n + 1
    BY <1>2, <1>3, <2>2
  <2>3. CASE i = n + 1 /\ j \in 1 .. n
    <3>1. ~Overlaps(space, more[j], more[i])
      BY <1>2, <1>3, <2>3
    <3> QED BY <3>1 DEF Overlaps
  <2> QED BY <1>3, <2>1, <2>2, <2>3
<1> QED
  BY <1>1, <1>3 DEF Exact

\* A refused registration leaves the table as it was.
LEMMA RollBackRestores ==
  ASSUME NEW space, NEW routes, NEW ranges, NEW n \in Nat, DOMAIN ranges = 1 .. n,
         Exact(space, routes, ranges), NEW r
  PROVE  RolledBack(With(routes, r, n + 1), n + 1) = routes
<1>1. \A s \in routes : s.device # n + 1
  BY RoutesAreNumbered
<1>2. Route(r, n + 1).device = n + 1
  BY RouteEnds
<1> QED
  BY <1>1, <1>2 DEF RolledBack, With

\* The address space below the address where ranges saturate.
Below(space, a) == a \in Nat /\ (space = "mmio" => a < MaxAddr)
NatRange(r) == r # NoRange => r.base \in Nat /\ r.len \in Nat

LEMMA InSpan ==
  ASSUME NEW space \in {"mmio", "io"}, NEW r, r # NoRange, NatRange(r), NEW a \in Nat
  PROVE  /\ r.base <= a /\ a < End(space, r) => a \in Span(r)
         /\ Below(space, a) /\ a \in Span(r) => r.base <= a /\ a < End(space, r)
<1> USE BusAssumption DEF Span, End, MmioEnd, PortEnd, NatRange, Below
<1>1. CASE space = "mmio"
  BY <1>1
<1>2. CASE space = "io"
  BY <1>2
<1> QED
  BY <1>1, <1>2

Owners(ranges, a) == {i \in DOMAIN ranges : a \in Span(ranges[i])}

\* Where an address is routed, it lies in the range of the device.
LEMMA TargetsOwn ==
  ASSUME NEW space \in {"mmio", "io"}, NEW routes, NEW ranges, NEW a \in Nat,
         \A i \in DOMAIN ranges : NatRange(ranges[i]),
         Exact(space, routes, ranges), NEW t \in Targets(space, routes, a)
  PROVE  \E i \in Owners(ranges, a) : t = [device |-> i, offset |-> a - ranges[i].base]
<1>1. PICK r \in routes : /\ r.base <= a /\ a < End(space, r)
                          /\ t = [device |-> r.device, offset |-> a - r.base]
  BY DEF Targets
<1> DEFINE i == r.device
<1>2. i \in DOMAIN ranges /\ ranges[i] # NoRange /\ r = Route(ranges[i], i)
  BY RoutesAreNumbered
<1> HIDE DEF i
<1>3. r.base = ranges[i].base /\ End(space, r) = End(space, ranges[i])
  BY <1>2, RouteEnds
<1>4. a \in Span(ranges[i])
  BY <1>1, <1>2, <1>3, InSpan
<1>5. t = [device |-> i, offset |-> a - ranges[i].base]
  BY <1>1, <1>3 DEF i
<1> QED
  BY <1>2, <1>4, <1>5 DEF Owners

LEMMA TargetOwner ==
  ASSUME NEW space \in {"mmio", "io"}, NEW routes, NEW ranges, NEW a \in Nat,
         \A i \in DOMAIN ranges : NatRange(ranges[i]),
         Exact(space, routes, ranges), NEW t \in Targets(space, routes, a)
  PROVE  t.device \in Owners(ranges, a)
<1>1. PICK i \in Owners(ranges, a) : t = [device |-> i, offset |-> a - ranges[i].base]
  BY TargetsOwn
<1> QED
  BY <1>1

LEMMA OwnersAreTargets ==
  ASSUME NEW space \in {"mmio", "io"}, NEW routes, NEW ranges, NEW a,
         Below(space, a), \A i \in DOMAIN ranges : NatRange(ranges[i]),
         Exact(space, routes, ranges), NEW i \in Owners(ranges, a)
  PROVE  [device |-> i, offset |-> a - ranges[i].base] \in Targets(space, routes, a)
<1> DEFINE r == Route(ranges[i], i)
<1>1. i \in DOMAIN ranges /\ ranges[i] # NoRange /\ a \in Span(ranges[i]) /\ a \in Nat
  BY DEF Owners, Span, Below
<1>2. r \in routes
  BY <1>1 DEF Exact
<1>3. ranges[i].base <= a /\ a < End(space, ranges[i])
  BY <1>1, InSpan
<1>4. /\ r.base = ranges[i].base /\ r.device = i
      /\ End(space, r) = End(space, ranges[i])
  BY RouteEnds
<1> HIDE DEF r
<1> QED
  BY <1>2, <1>3, <1>4 DEF Targets

\* No address has two owners.
LEMMA OneOwner ==
  ASSUME NEW space \in {"mmio", "io"}, NEW routes, NEW ranges, NEW a,
         Below(space, a), \A i \in DOMAIN ranges : NatRange(ranges[i]),
         Exact(space, routes, ranges),
         NEW i \in Owners(ranges, a), NEW j \in Owners(ranges, a)
  PROVE  i = j
<1>1. /\ i \in DOMAIN ranges /\ ranges[i] # NoRange /\ a \in Span(ranges[i])
      /\ j \in DOMAIN ranges /\ ranges[j] # NoRange /\ a \in Span(ranges[j]) /\ a \in Nat
  BY DEF Owners, Span, Below
<1>2. /\ ranges[i].base <= a /\ a < End(space, ranges[i])
      /\ ranges[j].base <= a /\ a < End(space, ranges[j])
  BY <1>1, InSpan
<1>3. /\ ranges[i].base \in Nat /\ ranges[j].base \in Nat
      /\ End(space, ranges[i]) \in Int /\ End(space, ranges[j]) \in Int
  <2>1. /\ ranges[i].base \in Nat /\ ranges[j].base \in Nat
        /\ ranges[i].len \in Nat /\ ranges[j].len \in Nat
    BY <1>1 DEF NatRange
  <2> QED BY <2>1, BusAssumption DEF End, MmioEnd, PortEnd
<1>4. Overlaps(space, ranges[i], ranges[j])
  BY <1>1, <1>2, <1>3 DEF Overlaps
<1> QED
  BY <1>1, <1>4 DEF Exact

LEMMA AtMostOne ==
  ASSUME NEW S, \A i, j \in S : i = j
  PROVE  Cardinality(S) <= 1
<1>1. CASE S = {}
  <2>1. Cardinality(S) = 0
    BY <1>1, FS_EmptySet
  <2> QED BY <2>1
<1>2. CASE S # {}
  <2>1. PICK i : S = {i}
    BY <1>2
  <2>2. Cardinality(S) = 1
    BY <2>1, FS_Singleton
  <2> QED BY <2>2
<1> QED
  BY <1>1, <1>2

\* What an exact table does with an address.
LEMMA ExactRoutes ==
  ASSUME NEW space \in {"mmio", "io"}, NEW routes, NEW ranges, NEW a,
         Below(space, a), \A i \in DOMAIN ranges : NatRange(ranges[i]),
         Exact(space, routes, ranges)
  PROVE  /\ Targets(space, routes, a) =
              {[device |-> i, offset |-> a - ranges[i].base] : i \in Owners(ranges, a)}
         /\ Cardinality(Owners(ranges, a)) <= 1
<1>1. a \in Nat
  BY DEF Below
<1>2. Cardinality(Owners(ranges, a)) <= 1
  BY OneOwner, AtMostOne
<1>3. ASSUME NEW t \in Targets(space, routes, a)
      PROVE  t \in {[device |-> i, offset |-> a - ranges[i].base] : i \in Owners(ranges, a)}
  <2>1. \E i \in Owners(ranges, a) : t = [device |-> i, offset |-> a - ranges[i].base]
    BY <1>1, TargetsOwn
  <2> QED BY <2>1
<1>4. ASSUME NEW i \in Owners(ranges, a)
      PROVE  [device |-> i, offset |-> a - ranges[i].base] \in Targets(space, routes, a)
  BY OwnersAreTargets
<1> DEFINE T == Targets(space, routes, a)
           R == {[device |-> i, offset |-> a - ranges[i].base] : i \in Owners(ranges, a)}
<1>5. T \subseteq R
  BY <1>3
<1>6. R \subseteq T
  BY <1>4
<1> HIDE DEF T
<1>7. T = R
  BY <1>5, <1>6
<1> QED
  BY <1>2, <1>7 DEF T

-----------------------------------------------------------------------------
(* The devices. *)

\* A device d, what a guest wrote to it and what was heard of it tell one story:
\* a console has dropped nothing, a random device is as far along its stream as
\* the bytes it handed out.
Story(d, written, told) ==
  /\ d \in Devices
  /\ written \in Seq(Values) /\ told \in Seq(Bytes(d.kind))
  /\ d.kind = "console" => written = told \o d.out
  /\ d.kind = "rng" =>
       /\ d = RngAfter(d.seed, Len(told))
       /\ \A n \in 1 .. Len(told) : told[n] = ByteAfter(d.seed, n - 1)

LEMMA ByteTyped ==
  ASSUME NEW seed \in Values, NEW n \in Nat
  PROVE  ByteAfter(seed, n) \in Bytes("rng")
<1> DEFINE q == n \div BlockLen
           c == q % CounterSize
           r == n % BlockLen
<1>1. q \in Nat /\ r \in 0 .. BlockLen - 1
  BY DeviceAssumption, Division
<1> HIDE DEF q
<1>2. c \in 0 .. CounterSize - 1
  BY <1>1, DeviceAssumption, Division
<1> HIDE DEF c, r
<1>3. c \in Nat /\ r \in Nat
  BY <1>1, <1>2, DeviceAssumption
<1>4. ByteAfter(seed, n) = <<seed, c, r>>
  BY DEF ByteAfter, q, c, r
<1> QED
  BY <1>3, <1>4 DEF Bytes

LEMMA RngTyped ==
  ASSUME NEW seed \in Values, NEW n \in Nat
  PROVE  /\ RngAfter(seed, n) \in Devices
         /\ RngAfter(seed, n).kind = "rng" /\ RngAfter(seed, n).seed = seed
<1>1. ASSUME NEW c \in Nat, NEW b \in Nat, NEW p \in Nat
      PROVE  Rng(seed, c, b, p) \in Devices
  BY DEF Rng, Devices
<1>2. CASE n = 0
  <2>1. RngAfter(seed, n) = Rng(seed, 1, 0, 0)
    BY <1>2 DEF RngAfter
  <2>2. Rng(seed, 1, 0, 0) \in Devices
    BY <1>1
  <2> QED BY <2>1, <2>2, RngFields
<1>3. CASE n # 0
  <2> DEFINE q == (n - 1) \div BlockLen
             r == (n - 1) % BlockLen
             c == (q + 1) % CounterSize
             b == q % CounterSize
  <2>1. n - 1 \in Nat
    BY <1>3
  <2>2. q \in Nat /\ r \in 0 .. BlockLen - 1
    BY <2>1, DeviceAssumption, Division
  <2> HIDE DEF q, r
  <2>3. c \in 0 .. CounterSize - 1 /\ b \in 0 .. CounterSize - 1
    BY <2>2, DeviceAssumption, Division
  <2> HIDE DEF c, b
  <2>4. RngAfter(seed, n) = Rng(seed, c, b, r + 1)
    BY <1>3 DEF RngAfter, q, r, c, b
  <2>5. c \in Nat /\ b \in Nat /\ r + 1 \in Nat
    BY <2>2, <2>3, DeviceAssumption
  <2> QED BY <1>1, <2>4, <2>5, RngFields
<1> QED
  BY <1>2, <1>3

\* A device as it comes up, with nothing written and nothing heard.
LEMMA StoryBegins ==
  ASSUME NEW kind \in Kinds, NEW seed \in Values
  PROVE  /\ Story(PowerOn(kind, seed), <<>>, <<>>)
         /\ PowerOn(kind, seed).kind = kind
<1> DEFINE d == PowerOn(kind, seed)
<1>0. /\ \A S : <<>> \in Seq(S)
      /\ Len(<<>>) = 0
  OBVIOUS
<1>1. CASE kind = "rng"
  <2>1. d = Refilled(Rng(seed, 0, 0, BlockLen))
    BY <1>1 DEF PowerOn, VirtioRng, Rng
  <2>2. Refilled(Rng(seed, 0, 0, BlockLen)) = Rng(seed, (0 + 1) % CounterSize, 0, 0)
    BY RefilledRng
  <2>3. (0 + 1) % CounterSize = 1
    <3>1. 1 = CounterSize * 0 + 1 /\ 1 \in 0 .. CounterSize - 1
      BY DeviceAssumption
    <3> QED BY DeviceAssumption, <3>1, Quotient
  <2>4. d = RngAfter(seed, 0)
    BY <2>1, <2>2, <2>3 DEF RngAfter
  <2> HIDE DEF d
  <2>5. d \in Devices /\ d.kind = "rng" /\ d.seed = seed
    BY <2>4, RngTyped
  <2> QED BY <1>0, <1>1, <2>4, <2>5 DEF Story, d
<1>2. CASE kind = "console"
  <2>1. d = [kind |-> "console", out |-> <<>>]
    BY <1>2 DEF PowerOn, VirtioConsole
  <2>2. d \in Devices /\ d.kind = "console" /\ d.out = <<>>
    BY <1>0, <2>1 DEF Devices
  <2> HIDE DEF d
  <2>3. <<>> = <<>> \o d.out
    BY <2>2
  <2> QED BY <1>0, <1>2, <2>2, <2>3 DEF Story, d
<1>3. CASE kind = "test"
  <2>1. d \in Devices /\ d.kind = "test"
    BY <1>3 DEF PowerOn, TestDevice, Devices
  <2> HIDE DEF d
  <2> QED BY <1>0, <1>3, <2>1 DEF Story, d
<1>4. CASE kind \in {"net", "clock"}
  <2>1. d \in Devices /\ d.kind = kind
    BY <1>4 DEF PowerOn, VirtioNet, PvClock, Devices
  <2> HIDE DEF d
  <2> QED BY <1>0, <1>4, <2>1 DEF Story, d
<1> QED
  BY <1>1, <1>2, <1>3, <1>4 DEF Kinds

LEMMA ResetTold ==
  ASSUME NEW d \in Devices, NEW written, NEW told, Story(d, written, told)
  PROVE  Story(Reset(d), <<>>, <<>>) /\ Reset(d).kind = d.kind
<1>1. d.kind \in Kinds /\ (d.kind = "rng" => d.seed \in Values)
  BY DEF Devices, Kinds
<1>2. (IF d.kind = "rng" THEN d.seed ELSE 0) \in Values
  BY <1>1, BusAssumption
<1> QED
  BY <1>1, <1>2, StoryBegins DEF Reset

LEMMA SaturatedTyped ==
  ASSUME NEW n \in Nat
  PROVE  Saturated(n) \in Nat
BY DeviceAssumption DEF Saturated

LEMMA TickTold ==
  ASSUME NEW d, NEW written, NEW told, Story(d, written, told)
  PROVE  Story(Ticked(d), written, told) /\ Ticked(d).kind = d.kind
<1>0. d \in Devices
  BY DEF Story
<1>1. CASE d.kind = "test"
  <2>1. d.ticks \in Nat /\ Ticked(d) = [d EXCEPT !.ticks = Saturated(d.ticks + 1)]
    BY <1>0, <1>1 DEF Devices, Ticked
  <2>2. Saturated(d.ticks + 1) \in Nat
    BY <2>1, SaturatedTyped
  <2>3. Ticked(d) \in Devices /\ Ticked(d).kind = "test"
    BY <1>0, <1>1, <2>1, <2>2 DEF Devices
  <2> QED BY <1>1, <2>3 DEF Story
<1>2. CASE d.kind = "clock"
  <2>1. d.now \in Nat /\ Ticked(d) = [d EXCEPT !.now = Saturated(d.now + 1)]
    BY <1>0, <1>2 DEF Devices, Ticked
  <2>2. Saturated(d.now + 1) \in Nat
    BY <2>1, SaturatedTyped
  <2>3. Ticked(d) \in Devices /\ Ticked(d).kind = "clock"
    BY <1>0, <1>2, <2>1, <2>2 DEF Devices
  <2> QED BY <1>2, <2>3 DEF Story
<1>3. CASE d.kind \notin {"test", "clock"}
  <2>1. Ticked(d) = d
    BY <1>3 DEF Ticked
  <2> QED BY <2>1
<1> QED
  BY <1>1, <1>2, <1>3

\* The host takes what the console holds.
LEMMA DrainTold ==
  ASSUME NEW d, NEW written, NEW told, Story(d, written, told), d.kind = "console"
  PROVE  Story(Drained(d), written, told \o d.out) /\ Drained(d).kind = d.kind
<1>1. /\ d \in Devices /\ d.out \in Seq(Values) /\ told \in Seq(Values)
      /\ written \in Seq(Values) /\ written = told \o d.out
  BY DEF Story, Devices, Bytes
<1>2. Drained(d) \in Devices /\ Drained(d).kind = "console" /\ Drained(d).out = <<>>
  <2>1. d \in [kind : {"console"}, out : Seq(Values)]
    BY <1>1 DEF Devices
  <2>2. <<>> \in Seq(Values)
    OBVIOUS
  <2>3. /\ [d EXCEPT !.out = <<>>] \in [kind : {"console"}, out : Seq(Values)]
        /\ [d EXCEPT !.out = <<>>].out = <<>>
    BY <2>1, <2>2
  <2> QED BY <2>3 DEF Devices, Drained
<1>3. told \o d.out \in Seq(Values) /\ (told \o d.out) \o <<>> = told \o d.out
  BY <1>1, ConcatProperties, ConcatEmptySeq
<1> QED
  BY <1>1, <1>2, <1>3 DEF Story, Bytes

\* A random device hands out the next w bytes of its stream.
LEMMA ReadTold ==
  ASSUME NEW d, NEW written, NEW told, Story(d, written, told), d.kind = "rng",
         NEW w \in Nat
  PROVE  /\ Story(Taken(d, w).device, written, told \o Taken(d, w).bytes)
         /\ Taken(d, w).device.kind = d.kind
<1> DEFINE n == Len(told)
           e == Taken(d, w).device
           more == Taken(d, w).bytes
<1>1. /\ d \in Devices /\ written \in Seq(Values) /\ told \in Seq(Bytes("rng"))
      /\ d = RngAfter(d.seed, n) /\ \A k \in 1 .. n : told[k] = ByteAfter(d.seed, k - 1)
  BY DEF Story
<1>2. d.seed \in Values /\ n \in Nat
  BY <1>1 DEF Devices
<1> DEFINE seed == d.seed
<1> HIDE DEF n, seed
<1>3. seed \in Values /\ d = RngAfter(seed, n)
  BY <1>1, <1>2 DEF seed
<1>4. Taken(d, w) = [device |-> RngAfter(seed, n + w),
                     bytes |-> [k \in 1 .. w |-> ByteAfter(seed, n + k - 1)]]
  BY <1>2, <1>3, TakenIsStream
<1>5. e = RngAfter(seed, n + w) /\ more = [k \in 1 .. w |-> ByteAfter(seed, n + k - 1)]
  BY <1>4
<1> HIDE DEF e, more
<1>6. e \in Devices /\ e.kind = "rng" /\ e.seed = seed
  BY <1>2, <1>3, <1>5, RngTyped
<1>7. more \in Seq(Bytes("rng")) /\ Len(more) = w
  <2>1. ASSUME NEW k \in 1 .. w PROVE ByteAfter(seed, n + k - 1) \in Bytes("rng")
    <3>1. n + k - 1 \in Nat
      BY <1>2
    <3> QED BY <1>3, <3>1, ByteTyped
  <2> QED BY <1>5, <2>1
<1>8. /\ told \o more \in Seq(Bytes("rng")) /\ Len(told \o more) = n + w
      /\ \A k \in 1 .. n + w : (told \o more)[k] = IF k <= n THEN told[k] ELSE more[k - n]
  BY <1>1, <1>7, ConcatProperties DEF n
<1>9. ASSUME NEW k \in 1 .. n + w
      PROVE  (told \o more)[k] = ByteAfter(seed, k - 1)
  <2>1. CASE k <= n
    <3>1. k \in 1 .. n
      BY <1>2, <2>1
    <3> QED BY <1>1, <1>8, <2>1, <3>1 DEF seed
  <2>2. CASE ~(k <= n)
    <3>1. k - n \in 1 .. w /\ n + (k - n) - 1 = k - 1
      BY <1>2, <2>2
    <3>2. (told \o more)[k] = more[k - n]
      BY <1>8, <2>2
    <3>3. more[k - n] = ByteAfter(seed, n + (k - n) - 1)
      BY <1>5, <3>1
    <3> QED BY <3>1, <3>2, <3>3
  <2> QED BY <2>1, <2>2
<1>10. Story(e, written, told \o more)
  BY <1>1, <1>5, <1>6, <1>8, <1>9 DEF Story
<1> QED
  BY <1>6, <1>10 DEF e, more

\* A write that a device takes.
LEMMA RegisterWrite ==
  ASSUME NEW d, NEW written, NEW told, Story(d, written, told), d.kind = "test",
         NEW reg \in Registers, NEW v \in Values
  PROVE  Story(Written(d, reg, v), written, told) /\ Written(d, reg, v).kind = d.kind
<1>1. d \in [kind : {"test"}, regs : [Registers -> Nat], ticks : Nat] /\ v \in Nat
  BY BusAssumption DEF Story, Devices
<1>2. Written(d, reg, v) = [d EXCEPT !.regs[reg] = v]
  BY DEF Written
<1>3. [d EXCEPT !.regs[reg] = v] \in [kind : {"test"}, regs : [Registers -> Nat], ticks : Nat]
  BY <1>1
<1>4. Written(d, reg, v) \in Devices /\ Written(d, reg, v).kind = "test"
  BY <1>2, <1>3 DEF Devices
<1> QED
  BY <1>4 DEF Story

LEMMA WriteTold ==
  ASSUME NEW d, NEW written, NEW told, Story(d, written, told),
         NEW reg, NEW v \in Values, NEW width \in Widths, TakesMmio(d, reg, v, width)
  PROVE  /\ Story(Written(d, reg, v),
                  IF d.kind = "console" THEN Append(written, v) ELSE written,
                  IF d.kind = "rng" THEN <<>> ELSE told)
         /\ Written(d, reg, v).kind = d.kind
<1> DEFINE e == Written(d, reg, v)
<1>0. /\ d \in Devices /\ written \in Seq(Values) /\ told \in Seq(Bytes(d.kind))
      /\ \A S : <<>> \in Seq(S)
  BY DEF Story
<1>1. CASE d.kind = "test"
  <2>1. reg \in Registers
    BY <1>1 DEF TakesMmio, TestTakes
  <2> QED BY <1>1, <2>1, RegisterWrite
<1>2. CASE d.kind = "console"
  <2>1. d \in [kind : {"console"}, out : Seq(Values)] /\ told \in Seq(Values)
    BY <1>0, <1>2 DEF Devices, Bytes
  <2>2. Append(d.out, v) \in Seq(Values) /\ Append(written, v) \in Seq(Values)
    BY <1>0, <2>1
  <2>3. e = [d EXCEPT !.out = Append(d.out, v)]
    BY <1>2 DEF Written
  <2>4. e \in Devices /\ e.kind = "console" /\ e.out = Append(d.out, v)
    BY <2>1, <2>2, <2>3 DEF Devices
  <2> HIDE DEF e
  <2>5. Append(told \o d.out, v) = told \o Append(d.out, v)
    <3>1. d.out \in Seq(Values) /\ <<v>> \in Seq(Values) /\ told \o d.out \in Seq(Values)
      BY <2>1, ConcatProperties
    <3>2. /\ Append(told \o d.out, v) = (told \o d.out) \o <<v>>
          /\ Append(d.out, v) = d.out \o <<v>>
      BY <3>1, AppendIsConcat
    <3>3. (told \o d.out) \o <<v>> = told \o (d.out \o <<v>>)
      BY <2>1, <3>1, ConcatAssociative
    <3> QED BY <3>2, <3>3
  <2>6. written = told \o d.out
    BY <1>2 DEF Story
  <2>7. Story(e, Append(written, v), told)
    BY <2>1, <2>2, <2>4, <2>5, <2>6 DEF Story, Bytes
  <2> QED BY <1>2, <2>4, <2>7 DEF e
<1>3. CASE d.kind = "rng"
  <2>1. d \in [kind : {"rng"}, seed : Values, counter : Nat, block : Nat, pos : Nat]
    BY <1>0, <1>3 DEF Devices
  <2>2. d = Rng(d.seed, d.counter, d.block, d.pos)
    BY <2>1 DEF Rng
  <2>3. e = RngAfter(v, 0)
    BY <1>3, <2>2, ReseededRng DEF Written
  <2> HIDE DEF e
  <2>4. e \in Devices /\ e.kind = "rng" /\ e.seed = v
    BY <2>3, RngTyped
  <2>5. Len(<<>>) = 0
    OBVIOUS
  <2>6. Story(e, written, <<>>)
    BY <1>0, <2>3, <2>4, <2>5 DEF Story
  <2> QED BY <1>3, <2>4, <2>6 DEF e
<1>4. CASE d.kind = "net"
  <2>1. d \in [kind : {"net"}, tx_bytes : Nat] /\ v \in Nat
    BY <1>0, <1>4, BusAssumption DEF Devices
  <2>2. v % ByteSize \in 0 .. ByteSize - 1
    BY <2>1, DeviceAssumption, Division
  <2> DEFINE byte == v % ByteSize
  <2> HIDE DEF byte
  <2>3. d.tx_bytes + byte \in Nat
    BY <2>1, <2>2, DeviceAssumption DEF byte
  <2>4. Saturated(d.tx_bytes + byte) \in Nat
    BY <2>3, SaturatedTyped
  <2>5. e = [d EXCEPT !.tx_bytes = Saturated(d.tx_bytes + byte)]
    BY <1>4 DEF Written, byte
  <2>6. e \in Devices /\ e.kind = "net"
    BY <2>1, <2>4, <2>5 DEF Devices
  <2> HIDE DEF e
  <2>7. Story(e, written, told)
    BY <1>0, <1>4, <2>6 DEF Story
  <2> QED BY <1>4, <2>6, <2>7 DEF e
<1> QED
  BY <1>1, <1>2, <1>3, <1>4 DEF TakesMmio

-----------------------------------------------------------------------------
(* The invariant. *)

MmioRanges == [i \in DOMAIN asked |-> asked[i].mmio]
IoRanges == [i \in DOMAIN asked |-> asked[i].io]

\* One entry per device in every history, each device with its story.
DeviceInv ==
  /\ devices \in Seq(Devices) /\ asked \in Seq(Registrations)
  /\ sent \in Seq(Seq(Values)) /\ heard \in Seq(Seq(Values) \cup Seq(Bytes("rng")))
  /\ Len(asked) = Len(devices) /\ Len(sent) = Len(devices) /\ Len(heard) = Len(devices)
  /\ \A i \in DOMAIN devices :
       devices[i].kind = asked[i].kind /\ Story(devices[i], sent[i], heard[i])

\* The tables hold what was asked for.
RouteInv ==
  /\ Exact("mmio", mmio, MmioRanges)
  /\ Exact("io", io, IoRanges)
  /\ \A r \in irqs : r.device \in DOMAIN asked

BusInv == DeviceInv /\ RouteInv

LEMMA RangesNatural ==
  ASSUME asked \in Seq(Registrations)
  PROVE  /\ DOMAIN MmioRanges = DOMAIN asked /\ DOMAIN IoRanges = DOMAIN asked
         /\ \A i \in DOMAIN asked :
              /\ MmioRanges[i] = asked[i].mmio /\ IoRanges[i] = asked[i].io
              /\ NatRange(MmioRanges[i]) /\ NatRange(IoRanges[i])
<1>1. \A i \in DOMAIN asked : asked[i] \in Registrations
  OBVIOUS
<1>2. \A r \in Registrations : NatRange(r.mmio) /\ NatRange(r.io)
  BY BusAssumption DEF NatRange
<1> QED
  BY <1>1, <1>2 DEF MmioRanges, IoRanges

LEMMA BusInvInit == Init => BusInv
<1> SUFFICES ASSUME Init PROVE BusInv
  OBVIOUS
<1>1. DeviceInv
  BY DEF Init, DeviceInv
<1>2. DOMAIN asked = {}
  BY DEF Init
<1>3. RouteInv
  BY <1>2 DEF Init, RouteInv, Exact, MmioRanges, IoRanges
<1> QED
  BY <1>1, <1>3 DEF BusInv

\* A step that goes on with the story of one device keeps the invariant.
LEMMA OneDeviceMoves ==
  ASSUME BusInv, NEW i \in DOMAIN devices, NEW d, NEW written, NEW told,
         Story(d, written, told), d.kind = devices[i].kind,
         devices' = [devices EXCEPT ![i] = d],
         sent' = [sent EXCEPT ![i] = written], heard' = [heard EXCEPT ![i] = told],
         UNCHANGED <<mmio, io, irqs, asked>>
  PROVE  BusInv'
<1>1. DeviceInv'
  <2>1. /\ d \in Devices /\ written \in Seq(Values)
        /\ told \in Seq(Values) \cup Seq(Bytes("rng"))
    BY DEF Story, Bytes
  <2>2. /\ devices \in Seq(Devices) /\ sent \in Seq(Seq(Values))
        /\ heard \in Seq(Seq(Values) \cup Seq(Bytes("rng"))) /\ asked \in Seq(Registrations)
        /\ Len(asked) = Len(devices) /\ Len(sent) = Len(devices) /\ Len(heard) = Len(devices)
    BY DEF BusInv, DeviceInv
  <2>3. /\ i \in 1 .. Len(devices) /\ i \in 1 .. Len(sent) /\ i \in 1 .. Len(heard)
    BY <2>2
  <2>4. /\ devices' \in Seq(Devices) /\ Len(devices') = Len(devices)
        /\ \A j \in 1 .. Len(devices) : devices'[j] = IF j = i THEN d ELSE devices[j]
    BY <2>1, <2>2, <2>3, ExceptSeq
  <2>5. /\ sent' \in Seq(Seq(Values)) /\ Len(sent') = Len(sent)
        /\ \A j \in 1 .. Len(sent) : sent'[j] = IF j = i THEN written ELSE sent[j]
    BY <2>1, <2>2, <2>3, ExceptSeq
  <2>6. /\ heard' \in Seq(Seq(Values) \cup Seq(Bytes("rng"))) /\ Len(heard') = Len(heard)
        /\ \A j \in 1 .. Len(heard) : heard'[j] = IF j = i THEN told ELSE heard[j]
    <3> DEFINE Told == Seq(Values) \cup Seq(Bytes("rng"))
    <3> HIDE DEF Told
    <3>1. heard \in Seq(Told) /\ told \in Told
      BY <2>1, <2>2 DEF Told
    <3>2. /\ heard' \in Seq(Told) /\ Len(heard') = Len(heard)
          /\ \A j \in 1 .. Len(heard) : heard'[j] = IF j = i THEN told ELSE heard[j]
      BY <2>3, <3>1, ExceptSeq
    <3> QED BY <3>2 DEF Told
  <2>7. ASSUME NEW j \in 1 .. Len(devices)
        PROVE  devices'[j].kind = asked[j].kind /\ Story(devices'[j], sent'[j], heard'[j])
    <3>1. devices[j].kind = asked[j].kind /\ Story(devices[j], sent[j], heard[j])
      BY <2>2 DEF BusInv, DeviceInv
    <3>2. CASE j = i
      BY <2>2, <2>4, <2>5, <2>6, <3>1, <3>2
    <3>3. CASE j # i
      BY <2>2, <2>4, <2>5, <2>6, <3>1, <3>3
    <3> QED BY <3>2, <3>3
  <2>8. DOMAIN devices' = 1 .. Len(devices)
    BY <2>4
  <2> QED BY <2>2, <2>4, <2>5, <2>6, <2>7, <2>8 DEF DeviceInv
<1>2. RouteInv'
  BY DEF BusInv, RouteInv, MmioRanges, IoRanges
<1> QED
  BY <1>1, <1>2 DEF BusInv

LEMMA Unmoved ==
  ASSUME BusInv, NEW i \in DOMAIN devices
  PROVE  /\ Story(devices[i], sent[i], heard[i]) /\ devices[i] \in Devices
         /\ [sent EXCEPT ![i] = sent[i]] = sent
         /\ [heard EXCEPT ![i] = heard[i]] = heard
<1>1. Story(devices[i], sent[i], heard[i])
  BY DEF BusInv, DeviceInv
<1>2. devices[i] \in Devices
  BY <1>1 DEF Story
<1>3. /\ sent \in Seq(Seq(Values)) /\ i \in DOMAIN sent
      /\ heard \in Seq(Seq(Values) \cup Seq(Bytes("rng"))) /\ i \in DOMAIN heard
  BY DEF BusInv, DeviceInv
<1>4. [sent EXCEPT ![i] = sent[i]] = sent
  BY <1>3
<1>5. [heard EXCEPT ![i] = heard[i]] = heard
  BY <1>3
<1> QED
  BY <1>1, <1>2, <1>4, <1>5

\* A device joins, or is refused and leaves no trace.
LEMMA RegisterKeeps ==
  ASSUME BusInv, NEW reg \in Registrations, NEW seed \in Values, Register(reg, seed)
  PROVE  BusInv'
<1> DEFINE n == Len(devices)
           d == PowerOn(reg.kind, seed)
           Told == Seq(Values) \cup Seq(Bytes("rng"))
<1>1. /\ devices \in Seq(Devices) /\ sent \in Seq(Seq(Values))
      /\ heard \in Seq(Told) /\ asked \in Seq(Registrations)
      /\ Len(asked) = n /\ Len(sent) = n /\ Len(heard) = n /\ n \in Nat
      /\ Exact("mmio", mmio, MmioRanges) /\ Exact("io", io, IoRanges)
      /\ \A r \in irqs : r.device \in DOMAIN asked
  BY DEF BusInv, DeviceInv, RouteInv
<1>2. /\ DOMAIN MmioRanges = 1 .. n /\ DOMAIN IoRanges = 1 .. n
      /\ DOMAIN asked = 1 .. n /\ DOMAIN devices = 1 .. n
  BY <1>1, RangesNatural
<1>3. CASE Accepts("io", io, reg.io)
  <2>1. /\ Accepts("mmio", mmio, reg.mmio)
        /\ mmio' = With(mmio, reg.mmio, n + 1)
        /\ io' = With(io, reg.io, n + 1)
        /\ irqs' = Bound(irqs, reg.irq, n + 1)
        /\ devices' = Append(devices, d)
        /\ asked' = Append(asked, reg)
        /\ sent' = Append(sent, <<>>) /\ heard' = Append(heard, <<>>)
    BY <1>3 DEF Register
  <2>2. Story(d, <<>>, <<>>) /\ d.kind = reg.kind
    <3>1. reg.kind \in Kinds
      BY BusAssumption
    <3> QED BY <3>1, StoryBegins
  <2> HIDE DEF d
  <2>3. d \in Devices /\ <<>> \in Seq(Values) /\ <<>> \in Told
    BY <2>2 DEF Story
  <2> HIDE DEF Told
  <2>4. /\ devices' \in Seq(Devices) /\ Len(devices') = n + 1 /\ devices'[n + 1] = d
        /\ \A j \in 1 .. n : devices'[j] = devices[j]
    BY <1>1, <2>1, <2>3, AppendProperties
  <2>5. /\ sent' \in Seq(Seq(Values)) /\ Len(sent') = n + 1 /\ sent'[n + 1] = <<>>
        /\ \A j \in 1 .. n : sent'[j] = sent[j]
    BY <1>1, <2>1, <2>3, AppendProperties
  <2>6. /\ heard' \in Seq(Told) /\ Len(heard') = n + 1 /\ heard'[n + 1] = <<>>
        /\ \A j \in 1 .. n : heard'[j] = heard[j]
    BY <1>1, <2>1, <2>3, AppendProperties
  <2>7. /\ asked' \in Seq(Registrations) /\ Len(asked') = n + 1 /\ asked'[n + 1] = reg
        /\ \A j \in 1 .. n : asked'[j] = asked[j]
    BY <1>1, <2>1, AppendProperties
  <2>8. ASSUME NEW j \in 1 .. n + 1
        PROVE  devices'[j].kind = asked'[j].kind /\ Story(devices'[j], sent'[j], heard'[j])
    <3>1. CASE j = n + 1
      BY <2>2, <2>4, <2>5, <2>6, <2>7, <3>1
    <3>2. CASE j # n + 1
      <4>1. j \in 1 .. n
        BY <1>1, <3>2
      <4>2. devices[j].kind = asked[j].kind /\ Story(devices[j], sent[j], heard[j])
        BY <1>2, <4>1 DEF BusInv, DeviceInv
      <4> QED BY <2>4, <2>5, <2>6, <2>7, <4>1, <4>2
    <3> QED BY <3>1, <3>2
  <2>9. DOMAIN devices' = 1 .. n + 1 /\ DOMAIN asked' = 1 .. n + 1
    BY <2>4, <2>7
  <2>10. DeviceInv'
    BY <2>4, <2>5, <2>6, <2>7, <2>8, <2>9 DEF DeviceInv, Told
  <2>11. /\ DOMAIN MmioRanges' = 1 .. n + 1 /\ DOMAIN IoRanges' = 1 .. n + 1
         /\ MmioRanges'[n + 1] = reg.mmio /\ IoRanges'[n + 1] = reg.io
         /\ \A j \in 1 .. n : MmioRanges'[j] = MmioRanges[j] /\ IoRanges'[j] = IoRanges[j]
    BY <1>1, <1>2, <2>7, <2>9 DEF MmioRanges, IoRanges
  <2>12. Exact("mmio", mmio', MmioRanges')
    <3> DEFINE more == MmioRanges'
    <3> HIDE DEF more
    <3>1. /\ DOMAIN more = 1 .. n + 1 /\ more[n + 1] = reg.mmio
          /\ \A j \in 1 .. n : more[j] = MmioRanges[j]
      BY <2>11 DEF more
    <3>2. Exact("mmio", With(mmio, more[n + 1], n + 1), more)
      BY <1>1, <1>2, <2>1, <3>1, RangeAdded
    <3> QED BY <2>1, <3>1, <3>2 DEF more
  <2>13. Exact("io", io', IoRanges')
    <3> DEFINE more == IoRanges'
    <3> HIDE DEF more
    <3>1. /\ DOMAIN more = 1 .. n + 1 /\ more[n + 1] = reg.io
          /\ \A j \in 1 .. n : more[j] = IoRanges[j]
      BY <2>11 DEF more
    <3>2. Exact("io", With(io, more[n + 1], n + 1), more)
      BY <1>1, <1>2, <1>3, <3>1, RangeAdded
    <3> QED BY <2>1, <3>1, <3>2 DEF more
  <2>14. \A r \in irqs' : r.device \in DOMAIN asked'
    BY <1>1, <1>2, <2>1, <2>9 DEF Bound
  <2> QED BY <2>10, <2>12, <2>13, <2>14 DEF BusInv, RouteInv
<1>4. CASE ~Accepts("io", io, reg.io)
  <2>1. /\ mmio' = RolledBack(With(mmio, reg.mmio, n + 1), n + 1)
        /\ UNCHANGED <<devices, io, irqs, asked, sent, heard>>
    BY <1>4 DEF Register
  <2>2. mmio' = mmio
    BY <1>1, <1>2, <2>1, RollBackRestores
  <2> QED BY <2>1, <2>2 DEF BusInv, DeviceInv, RouteInv, MmioRanges, IoRanges
<1> QED
  BY <1>3, <1>4

LEMMA MmioWriteKeeps ==
  ASSUME BusInv, NEW a, NEW v \in Values, NEW w \in Widths, MmioWrite(a, v, w)
  PROVE  BusInv'
<1> PICK t \in Targets("mmio", mmio, a) :
      LET d == devices[t.device] IN
      /\ t.device \in DOMAIN devices
      /\ TakesMmio(d, t.offset, v, w)
      /\ devices' = [devices EXCEPT ![t.device] = Written(d, t.offset, v)]
      /\ sent' = IF d.kind = "console" THEN [sent EXCEPT ![t.device] = Append(@, v)] ELSE sent
      /\ heard' = IF d.kind = "rng" THEN [heard EXCEPT ![t.device] = <<>>] ELSE heard
      /\ UNCHANGED <<mmio, io, irqs, asked>>
  BY DEF MmioWrite
<1> DEFINE i == t.device
           d == devices[i]
           e == Written(d, t.offset, v)
           written == IF d.kind = "console" THEN Append(sent[i], v) ELSE sent[i]
           told == IF d.kind = "rng" THEN <<>> ELSE heard[i]
<1>1. Story(d, sent[i], heard[i])
  BY Unmoved
<1>2. Story(e, written, told) /\ e.kind = d.kind
  BY <1>1, WriteTold
<1>3. sent' = [sent EXCEPT ![i] = written] /\ heard' = [heard EXCEPT ![i] = told]
  <2>1. [sent EXCEPT ![i] = sent[i]] = sent /\ [heard EXCEPT ![i] = heard[i]] = heard
    BY Unmoved
  <2>2. sent' = [sent EXCEPT ![i] = written]
    BY <2>1
  <2>3. heard' = [heard EXCEPT ![i] = told]
    BY <2>1
  <2> QED BY <2>2, <2>3
<1> HIDE DEF written, told, e
<1>4. devices' = [devices EXCEPT ![i] = e]
  BY DEF e
<1> QED
  BY <1>2, <1>3, <1>4, OneDeviceMoves

LEMMA MmioReadKeeps ==
  ASSUME BusInv, NEW a, NEW w \in Widths, MmioRead(a, w)
  PROVE  BusInv'
<1> PICK t \in Targets("mmio", mmio, a) :
      LET d == devices[t.device] IN
      /\ t.device \in DOMAIN devices
      /\ d.kind = "rng"
      /\ devices' = [devices EXCEPT ![t.device] = Taken(d, w).device]
      /\ heard' = [heard EXCEPT ![t.device] = @ \o Taken(d, w).bytes]
      /\ UNCHANGED <<mmio, io, irqs, asked, sent>>
  BY DEF MmioRead
<1> DEFINE i == t.device
           d == devices[i]
           e == Taken(d, w).device
           told == heard[i] \o Taken(d, w).bytes
<1>1. Story(d, sent[i], heard[i])
  BY Unmoved
<1>2. w \in Nat
  BY BusAssumption
<1>3. Story(e, sent[i], told) /\ e.kind = d.kind
  BY <1>1, <1>2, ReadTold
<1>4. sent' = [sent EXCEPT ![i] = sent[i]]
  BY Unmoved
<1>5. heard' = [heard EXCEPT ![i] = told] /\ devices' = [devices EXCEPT ![i] = e]
  OBVIOUS
<1> HIDE DEF told, e
<1> QED
  BY <1>3, <1>4, <1>5, OneDeviceMoves

LEMMA IoWriteKeeps ==
  ASSUME BusInv, NEW p, NEW v \in Values, NEW w \in Widths, IoWrite(p, v, w)
  PROVE  BusInv'
<1>1. PICK t \in Targets("io", io, p) :
        LET d == devices[t.device] IN
        /\ t.device \in DOMAIN devices
        /\ TakesIo(d, t.offset, v, w)
        /\ devices' = [devices EXCEPT ![t.device] = Written(d, t.offset, v)]
        /\ UNCHANGED <<mmio, io, irqs, asked, sent, heard>>
  BY DEF IoWrite
<1> DEFINE i == t.device
           d == devices[i]
           e == Written(d, t.offset, v)
<1>2. i \in DOMAIN devices /\ d.kind = "test" /\ t.offset \in Registers
  BY <1>1 DEF TakesIo, TestTakes
<1>3. Story(d, sent[i], heard[i])
  BY <1>2, Unmoved
<1>4. Story(e, sent[i], heard[i]) /\ e.kind = d.kind
  BY <1>2, <1>3, RegisterWrite
<1>5. [sent EXCEPT ![i] = sent[i]] = sent /\ [heard EXCEPT ![i] = heard[i]] = heard
  BY <1>2, Unmoved
<1>6. /\ devices' = [devices EXCEPT ![i] = e]
      /\ sent' = [sent EXCEPT ![i] = sent[i]] /\ heard' = [heard EXCEPT ![i] = heard[i]]
      /\ UNCHANGED <<mmio, io, irqs, asked>>
  BY <1>1, <1>5
<1> HIDE DEF e, i
<1> QED
  BY <1>2, <1>4, <1>6, OneDeviceMoves

LEMMA HostKeeps ==
  ASSUME BusInv, NEW i \in DOMAIN devices,
         TickDevice(i) \/ TakeOutput(i) \/ ResetDevice(i)
  PROVE  BusInv'
<1> DEFINE d == devices[i]
<1>1. /\ Story(d, sent[i], heard[i]) /\ d \in Devices
      /\ [sent EXCEPT ![i] = sent[i]] = sent /\ [heard EXCEPT ![i] = heard[i]] = heard
  BY Unmoved
<1>2. CASE TickDevice(i)
  <2>1. Story(Ticked(d), sent[i], heard[i]) /\ Ticked(d).kind = d.kind
    BY <1>1, TickTold
  <2>2. /\ devices' = [devices EXCEPT ![i] = Ticked(d)]
        /\ sent' = [sent EXCEPT ![i] = sent[i]] /\ heard' = [heard EXCEPT ![i] = heard[i]]
        /\ UNCHANGED <<mmio, io, irqs, asked>>
    BY <1>1, <1>2 DEF TickDevice
  <2> QED BY <2>1, <2>2, OneDeviceMoves
<1>3. CASE TakeOutput(i)
  <2>1. Story(Drained(d), sent[i], heard[i] \o d.out) /\ Drained(d).kind = d.kind
    BY <1>1, <1>3, DrainTold DEF TakeOutput
  <2>2. /\ devices' = [devices EXCEPT ![i] = Drained(d)]
        /\ sent' = [sent EXCEPT ![i] = sent[i]]
        /\ heard' = [heard EXCEPT ![i] = heard[i] \o d.out]
        /\ UNCHANGED <<mmio, io, irqs, asked>>
    BY <1>1, <1>3 DEF TakeOutput
  <2> QED BY <2>1, <2>2, OneDeviceMoves
<1>4. CASE ResetDevice(i)
  <2>1. Story(Reset(d), <<>>, <<>>) /\ Reset(d).kind = d.kind
    BY <1>1, ResetTold
  <2>2. /\ devices' = [devices EXCEPT ![i] = Reset(d)]
        /\ sent' = [sent EXCEPT ![i] = <<>>] /\ heard' = [heard EXCEPT ![i] = <<>>]
        /\ UNCHANGED <<mmio, io, irqs, asked>>
    BY <1>4 DEF ResetDevice
  <2> QED BY <2>1, <2>2, OneDeviceMoves
<1> QED
  BY <1>2, <1>3, <1>4

LEMMA BusInvStep == BusInv /\ [Next]_vars => BusInv'
<1> SUFFICES ASSUME BusInv, [Next]_vars PROVE BusInv'
  OBVIOUS
<1>1. CASE \E reg \in Registrations, seed \in Values : Register(reg, seed)
  BY <1>1, RegisterKeeps
<1>2. CASE \E a \in 0 .. MaxAddr, v \in Values, w \in Widths : MmioWrite(a, v, w)
  BY <1>2, MmioWriteKeeps
<1>3. CASE \E a \in 0 .. MaxAddr, w \in Widths : MmioRead(a, w)
  BY <1>3, MmioReadKeeps
<1>4. CASE \E p \in 0 .. MaxPort, v \in Values, w \in Widths : IoWrite(p, v, w)
  BY <1>4, IoWriteKeeps
<1>5. CASE \E i \in DOMAIN devices : TickDevice(i) \/ TakeOutput(i) \/ ResetDevice(i)
  BY <1>5, HostKeeps
<1>6. CASE UNCHANGED vars
  <2>1. UNCHANGED <<devices, mmio, io, irqs, asked, sent, heard>>
    BY <1>6 DEF vars
  <2>2. DeviceInv'
    BY <2>1 DEF BusInv, DeviceInv
  <2>3. RouteInv'
    BY <2>1 DEF BusInv, RouteInv, MmioRanges, IoRanges
  <2> QED BY <2>2, <2>3 DEF BusInv
<1> QED
  BY <1>1, <1>2, <1>3, <1>4, <1>5, <1>6 DEF Next

LEMMA BusInvariant == Spec => []BusInv
  BY BusInvInit, BusInvStep, PTL DEF Spec

-----------------------------------------------------------------------------
(* The theorems. *)

\* Every device has the kind it was registered with and registers of that kind, every
\* history has an entry for it, and no route leads to a device that is not there.
THEOREM TypeCorrect == Spec => []TypeOK
<1>1. BusInv => TypeOK
  <2> SUFFICES ASSUME BusInv PROVE TypeOK
    OBVIOUS
  <2>1. DOMAIN devices = DOMAIN asked /\ DOMAIN asked = DOMAIN MmioRanges
        /\ DOMAIN asked = DOMAIN IoRanges
    BY RangesNatural DEF BusInv, DeviceInv
  <2>2. \A r \in mmio : r.device \in DOMAIN devices
    BY <2>1, RoutesAreNumbered DEF BusInv, RouteInv
  <2>3. \A r \in io : r.device \in DOMAIN devices
    BY <2>1, RoutesAreNumbered DEF BusInv, RouteInv
  <2>4. \A r \in irqs : r.device \in DOMAIN devices
    BY <2>1 DEF BusInv, RouteInv
  <2>5. \A i \in DOMAIN devices :
          devices[i].kind = asked[i].kind /\ heard[i] \in Seq(Bytes(devices[i].kind))
    BY DEF BusInv, DeviceInv, Story
  <2> QED BY <2>2, <2>3, <2>4, <2>5 DEF TypeOK, BusInv, DeviceInv
<1> QED
  BY <1>1, BusInvariant, PTL

\* An address below the top and a port reach the one device registered for it, at its
\* place in that device's range, also after refused registrations (DeviceGraph::register
\* and its roll-back).
THEOREM RoutesReachOwner == Spec => []RoutedToOwner
<1>1. BusInv => RoutedToOwner
  <2> SUFFICES ASSUME BusInv PROVE RoutedToOwner
    OBVIOUS
  <2>1. /\ Exact("mmio", mmio, MmioRanges) /\ Exact("io", io, IoRanges)
        /\ asked \in Seq(Registrations)
    BY DEF BusInv, DeviceInv, RouteInv
  <2>2. /\ \A i \in DOMAIN MmioRanges : NatRange(MmioRanges[i])
        /\ \A i \in DOMAIN IoRanges : NatRange(IoRanges[i])
        /\ DOMAIN MmioRanges = DOMAIN asked /\ DOMAIN IoRanges = DOMAIN asked
        /\ \A i \in DOMAIN asked : MmioRanges[i] = asked[i].mmio /\ IoRanges[i] = asked[i].io
    BY <2>1, RangesNatural
  <2>3. ASSUME NEW a
        PROVE  /\ Owners(MmioRanges, a) = MmioOwners(a)
               /\ Owners(IoRanges, a) = PortOwners(a)
    BY <2>2 DEF Owners, MmioOwners, PortOwners
  <2>4. ASSUME NEW a \in 0 .. MaxAddr - 1
        PROVE  /\ Targets("mmio", mmio, a) =
                    {[device |-> i, offset |-> a - asked[i].mmio.base] : i \in MmioOwners(a)}
               /\ Cardinality(MmioOwners(a)) <= 1
    <3>1. Below("mmio", a)
      BY BusAssumption DEF Below
    <3>2. /\ Targets("mmio", mmio, a) =
               {[device |-> i, offset |-> a - MmioRanges[i].base] : i \in MmioOwners(a)}
          /\ Cardinality(MmioOwners(a)) <= 1
      BY <2>1, <2>2, <2>3, <3>1, ExactRoutes
    <3>3. \A i \in MmioOwners(a) : MmioRanges[i].base = asked[i].mmio.base
      BY <2>2 DEF MmioOwners
    <3> QED BY <3>2, <3>3
  <2>5. ASSUME NEW p \in 0 .. MaxPort
        PROVE  /\ Targets("io", io, p) =
                    {[device |-> i, offset |-> p - asked[i].io.base] : i \in PortOwners(p)}
               /\ Cardinality(PortOwners(p)) <= 1
    <3>1. Below("io", p)
      BY BusAssumption DEF Below
    <3>2. /\ Targets("io", io, p) =
               {[device |-> i, offset |-> p - IoRanges[i].base] : i \in PortOwners(p)}
          /\ Cardinality(PortOwners(p)) <= 1
      BY <2>1, <2>2, <2>3, <3>1, ExactRoutes
    <3>3. \A i \in PortOwners(p) : IoRanges[i].base = asked[i].io.base
      BY <2>2 DEF PortOwners
    <3> QED BY <3>2, <3>3
  <2> QED BY <2>4, <2>5 DEF RoutedToOwner
<1> QED
  BY <1>1, BusInvariant, PTL

\* What the guest wrote to a console is what the host drained and what is still buffered,
\* in order and each byte once (VirtioConsole, take_output).
THEOREM ConsolesLoseNothing == Spec => []ConsoleLosesNothing
<1>1. BusInv => ConsoleLosesNothing
  BY DEF BusInv, DeviceInv, Story, ConsoleLosesNothing
<1> QED
  BY <1>1, BusInvariant, PTL

\* The n-th byte since the seed was set or the device was reset depends on the seed and n
\* alone: across blocks, past the wrap of the block counter and for reads of every width
\* (VirtioRng).
THEOREM StreamsFollowSeed == Spec => []StreamFollowsSeed
<1>1. BusInv => StreamFollowsSeed
  <2> SUFFICES ASSUME BusInv, NEW i \in DOMAIN devices, devices[i].kind = "rng",
                      NEW n \in DOMAIN heard[i]
               PROVE  heard[i][n] = ByteAfter(devices[i].seed, n - 1)
    BY DEF StreamFollowsSeed, ByteAfter
  <2>1. Story(devices[i], sent[i], heard[i])
    BY DEF BusInv, DeviceInv
  <2>2. DOMAIN heard[i] = 1 .. Len(heard[i])
    BY <2>1 DEF Story
  <2> QED BY <2>1, <2>2 DEF Story
<1> QED
  BY <1>1, BusInvariant, PTL

\* The device i that an access changes is registered for it.
OwnAccess(i) ==
  \/ ResetDevice(i) \/ TickDevice(i) \/ TakeOutput(i)
  \/ \E a \in Span(asked[i].mmio), w \in Widths : MmioRead(a, w)
  \/ \E v \in Values, w \in Widths :
       /\ v <= Mask(w) \/ devices[i].kind = "net"
       /\ \/ \E a \in Span(asked[i].mmio) : MmioWrite(a, v, w)
          \/ \E p \in Span(asked[i].io) : IoWrite(p, v, w)

LEMMA ChangedByOwnAccess ==
  ASSUME BusInv, Next, NEW i \in DOMAIN devices, devices'[i] # devices[i]
  PROVE  OwnAccess(i)
<1>1. /\ Exact("mmio", mmio, MmioRanges) /\ Exact("io", io, IoRanges)
      /\ asked \in Seq(Registrations) /\ devices \in Seq(Devices)
      /\ Len(asked) = Len(devices)
  BY DEF BusInv, DeviceInv, RouteInv
<1>2. /\ \A j \in DOMAIN MmioRanges : NatRange(MmioRanges[j])
      /\ \A j \in DOMAIN IoRanges : NatRange(IoRanges[j])
      /\ \A j \in DOMAIN asked : MmioRanges[j] = asked[j].mmio /\ IoRanges[j] = asked[j].io
      /\ DOMAIN MmioRanges = DOMAIN asked /\ DOMAIN IoRanges = DOMAIN asked
  BY <1>1, RangesNatural
<1>3. ASSUME NEW a \in Nat, NEW t \in Targets("mmio", mmio, a)
      PROVE  a \in Span(asked[t.device].mmio)
  <2>0. Exact("mmio", mmio, MmioRanges) /\ \A j \in DOMAIN MmioRanges : NatRange(MmioRanges[j])
    BY <1>1, <1>2
  <2>1. t.device \in Owners(MmioRanges, a)
    BY <2>0, TargetOwner
  <2> QED BY <1>2, <2>1 DEF Owners
<1>4. ASSUME NEW p \in Nat, NEW t \in Targets("io", io, p)
      PROVE  p \in Span(asked[t.device].io)
  <2>0. Exact("io", io, IoRanges) /\ \A j \in DOMAIN IoRanges : NatRange(IoRanges[j])
    BY <1>1, <1>2
  <2>1. t.device \in Owners(IoRanges, p)
    BY <2>0, TargetOwner
  <2> QED BY <1>2, <2>1 DEF Owners
<1>5. ASSUME NEW j \in DOMAIN devices, NEW d, devices' = [devices EXCEPT ![j] = d]
      PROVE  i = j
  BY <1>5
<1>6. ASSUME NEW reg \in Registrations, NEW seed \in Values, Register(reg, seed)
      PROVE  FALSE
  <2>1. CASE UNCHANGED devices
    BY <2>1
  <2>2. CASE devices' = Append(devices, PowerOn(reg.kind, seed))
    BY <1>1, <2>2
  <2> QED BY <1>6, <2>1, <2>2 DEF Register
<1>7. ASSUME NEW a \in 0 .. MaxAddr, NEW v \in Values, NEW w \in Widths, MmioWrite(a, v, w)
      PROVE  a \in Span(asked[i].mmio) /\ (v <= Mask(w) \/ devices[i].kind = "net")
  <2>1. PICK t \in Targets("mmio", mmio, a) :
          /\ t.device \in DOMAIN devices
          /\ TakesMmio(devices[t.device], t.offset, v, w)
          /\ devices' = [devices EXCEPT
                           ![t.device] = Written(devices[t.device], t.offset, v)]
    BY <1>7 DEF MmioWrite
  <2>2. t.device = i
    BY <1>5, <2>1
  <2>3. a \in Span(asked[i].mmio)
    BY <1>3, <2>2
  <2>4. TakesMmio(devices[i], t.offset, v, w)
    BY <2>1, <2>2
  <2> QED BY <2>3, <2>4 DEF TakesMmio, TestTakes, ConsoleTakes, RngTakes, Fits
<1>8. ASSUME NEW a \in 0 .. MaxAddr, NEW w \in Widths, MmioRead(a, w)
      PROVE  a \in Span(asked[i].mmio)
  <2>1. PICK t \in Targets("mmio", mmio, a) :
          /\ t.device \in DOMAIN devices
          /\ devices' = [devices EXCEPT ![t.device] = Taken(devices[t.device], w).device]
    BY <1>8 DEF MmioRead
  <2>2. t.device = i
    BY <1>5, <2>1
  <2> QED BY <1>3, <2>2
<1>9. ASSUME NEW p \in 0 .. MaxPort, NEW v \in Values, NEW w \in Widths, IoWrite(p, v, w)
      PROVE  p \in Span(asked[i].io) /\ v <= Mask(w)
  <2>1. PICK t \in Targets("io", io, p) :
          /\ t.device \in DOMAIN devices
          /\ TakesIo(devices[t.device], t.offset, v, w)
          /\ devices' = [devices EXCEPT
                           ![t.device] = Written(devices[t.device], t.offset, v)]
    BY <1>9 DEF IoWrite
  <2>2. t.device = i
    BY <1>5, <2>1
  <2>3. p \in Span(asked[i].io)
    BY <1>4, <2>2
  <2>4. TakesIo(devices[i], t.offset, v, w)
    BY <2>1, <2>2
  <2> QED BY <2>3, <2>4 DEF TakesIo, TestTakes, Fits
<1>10. ASSUME NEW j \in DOMAIN devices, TickDevice(j) \/ TakeOutput(j) \/ ResetDevice(j)
       PROVE  j = i
  <2>1. \E d : devices' = [devices EXCEPT ![j] = d]
    BY <1>10 DEF TickDevice, TakeOutput, ResetDevice
  <2> QED BY <1>5, <2>1
<1>11. ~UNCHANGED vars
  BY DEF vars
<1> QED
  BY <1>6, <1>7, <1>8, <1>9, <1>10 DEF Next, OwnAccess

\* A device changes only by an access to an address or a port it was registered for, with
\* a value that fits the access, or by its own tick, drain or reset.
THEOREM WritesAlwaysStayInRange == Spec => WritesStayInRange
<1>1. BusInv /\ [Next]_vars =>
        [\A i \in DOMAIN devices : devices'[i] # devices[i] =>
           \/ ResetDevice(i) \/ TickDevice(i) \/ TakeOutput(i)
           \/ \E a \in Span(asked[i].mmio), w \in Widths : MmioRead(a, w)
           \/ \E v \in Values, w \in Widths :
                /\ v <= Mask(w) \/ devices[i].kind = "net"
                /\ \/ \E a \in Span(asked[i].mmio) : MmioWrite(a, v, w)
                   \/ \E p \in Span(asked[i].io) : IoWrite(p, v, w)]_vars
  BY ChangedByOwnAccess DEF OwnAccess
<1> QED
  BY <1>1, BusInvariant, PTL DEF Spec, WritesStayInRange

=============================================================================
