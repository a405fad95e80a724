--------------------------- MODULE VirtioBlkProofs ---------------------------
(***************************************************************************)
(* Theorems of VirtioBlk, for every sector size, image and policy.  That   *)
(* the concatenation of the sectors of a backend is the expected image     *)
(* places each sector in that image: sector and image are compared byte by *)
(* byte, at the offsets the sector size gives.                             *)
(***************************************************************************)
EXTENDS VirtioBlk, SequenceTheorems, TLAPS

USE DEF STATUS_OK, STATUS_OUT_OF_RANGE, STATUS_INTEGRITY, Bytes

-----------------------------------------------------------------------------
(* Sectors of a sequence of bytes. *)

\* Multiples of a size are ordered like their factors.
LEMMA Multiples ==
  ASSUME NEW b \in Nat, NEW x \in Nat, NEW y \in Nat, x <= y
  PROVE  x * b \in Nat /\ y * b \in Nat /\ x * b <= y * b
<1>1. PICK d \in Nat : y = x + d
  <2>1. y - x \in Nat /\ y = x + (y - x)
    OBVIOUS
  <2>2. QED
    BY <2>1
<1>2. x * b \in Nat /\ d * b \in Nat /\ y * b = x * b + d * b
  BY <1>1
<1>3. QED
  BY <1>2

\* Division by a sector size.
LEMMA Division ==
  ASSUME NEW b \in Nat \ {0}, NEW n \in Nat
  PROVE  n \div b \in Nat /\ n % b \in 0 .. b - 1 /\ n = (n \div b) * b + (n % b)
<1>1. n % b \in 0 .. b - 1 /\ n \div b \in Int
  OBVIOUS
<1>2. n = (n \div b) * b + (n % b)
  BY Z3T(30)
<1>3. n \div b >= 0
  <2> DEFINE q == n \div b
  <2> SUFFICES ASSUME q < 0 PROVE FALSE
    BY <1>1
  <2>1. q \in Int /\ n % b <= b - 1 /\ n % b \in Int
    BY <1>1
  <2>2. PICK d \in Nat : q = -1 - d
    <3> HIDE DEF q
    <3> QED BY <2>1, -1 - q \in Nat
  <2>3. n = q * b + (n % b)
    BY <1>2
  <2> HIDE DEF q
  <2>4. q * b = -b - d * b /\ d * b \in Nat
    BY <2>2
  <2> QED BY <2>1, <2>3, <2>4
<1> QED
  BY <1>1, <1>2, <1>3

\* The capacity counts the sectors that can be read.
LEMMA CapacityIsReadable ==
  ASSUME NEW b \in [data : Bytes, size : Nat \ {0}], NEW idx \in Nat
  PROVE  /\ Capacity(b) \in Nat /\ Capacity(b) * b.size <= Len(b.data)
         /\ idx < Capacity(b) <=> Readable(b, idx)
<1> DEFINE n == Len(b.data)
           s == b.size
           q == n \div s
           r == n % s
<1>1. s \in Nat \ {0} /\ n \in Nat
  OBVIOUS
<1>2. q \in Nat /\ r \in 0 .. s - 1 /\ n = q * s + r
  <2> HIDE DEF n, s
  <2> QED
    BY <1>1, Division
<1>3. Capacity(b) = q /\ (Readable(b, idx) <=> (idx + 1) * s <= n)
  BY DEF Capacity, Readable
<1> HIDE DEF n, s, q, r
<1>4. q * s \in Nat /\ q * s <= n
  BY <1>1, <1>2
<1>5. CASE idx < q
  <2>1. (idx + 1) * s <= q * s /\ (idx + 1) * s \in Nat
    BY <1>1, <1>2, <1>5, Multiples
  <2>2. QED
    BY <1>1, <1>2, <1>3, <1>4, <1>5, <2>1 DEF n, s
<1>6. CASE q <= idx
  <2>1. (q + 1) * s <= (idx + 1) * s /\ (idx + 1) * s \in Nat
    BY <1>1, <1>2, <1>6, Multiples
  <2>2. (q + 1) * s = q * s + s
    BY <1>1, <1>2
  <2>3. ~((idx + 1) * s <= n)
    BY <1>1, <1>2, <1>4, <2>1, <2>2
  <2>4. QED
    BY <1>1, <1>2, <1>3, <1>4, <1>6, <2>3 DEF n, s
<1>7. QED
  BY <1>2, <1>5, <1>6

\* The bytes of a sector and where they lie.
LEMMA SliceBytes ==
  ASSUME NEW data \in Bytes, NEW idx \in Nat, NEW size \in Nat,
         (idx + 1) * size <= Len(data)
  PROVE  /\ idx * size \in Nat /\ (idx + 1) * size = idx * size + size
         /\ Slice(data, idx, size) \in Bytes
         /\ Len(Slice(data, idx, size)) = size
         /\ \A i \in 1 .. size :
              /\ idx * size + i \in DOMAIN data
              /\ Slice(data, idx, size)[i] = data[idx * size + i]
<1> DEFINE k == idx * size
<1>1. k \in Nat /\ (idx + 1) * size = k + size
  OBVIOUS
<1> HIDE DEF k
<1>2. \A i \in k + 1 .. k + size : i \in DOMAIN data /\ data[i] \in Nat
  BY <1>1
<1>3. /\ SubSeq(data, k + 1, k + size) \in Seq(Nat)
      /\ Len(SubSeq(data, k + 1, k + size)) = size
      /\ \A i \in 1 .. size : SubSeq(data, k + 1, k + size)[i] = data[k + i]
  <2> DEFINE m == k + 1
             n == k + size
  <2>1. m \in Int /\ n \in Int /\ \A i \in m .. n : data[i] \in Nat
    BY <1>1, <1>2
  <2> HIDE DEF m, n
  <2>2. /\ SubSeq(data, m, n) \in Seq(Nat)
        /\ Len(SubSeq(data, m, n)) = IF m <= n THEN n - m + 1 ELSE 0
        /\ \A i \in 1 .. n - m + 1 : SubSeq(data, m, n)[i] = data[m + i - 1]
    BY <2>1, SubSeqProperties
  <2>3. n - m + 1 = size /\ (~(m <= n) => size = 0)
        /\ \A i \in 1 .. size : m + i - 1 = k + i
    BY <1>1 DEF m, n
  <2>4. QED
    BY <2>2, <2>3 DEF m, n
<1>4. Slice(data, idx, size) = SubSeq(data, k + 1, k + size)
  BY <1>1 DEF Slice, k
<1>5. \A i \in 1 .. size : k + i \in DOMAIN data
  BY <1>1, <1>2
<1>6. QED
  BY <1>1, <1>3, <1>4, <1>5 DEF k

\* Reading on: the concatenation grows by the next sector of the same bytes.
LEMMA ReadingOn ==
  ASSUME NEW data \in Bytes, NEW all \in Bytes, NEW k \in Nat, NEW size \in Nat,
         (k + 1) * size <= Len(data), Len(all) = k * size,
         \A i \in DOMAIN all : all[i] = data[i]
  PROVE  /\ Len(all \o Slice(data, k, size)) = (k + 1) * size
         /\ \A i \in DOMAIN (all \o Slice(data, k, size)) :
              (all \o Slice(data, k, size))[i] = data[i]
<1> DEFINE t == Slice(data, k, size)
           m == k * size
<1>1. /\ m \in Nat /\ (k + 1) * size = m + size
      /\ t \in Seq(Nat) /\ Len(t) = size
      /\ \A i \in 1 .. size : t[i] = data[m + i]
  BY SliceBytes
<1>2. Len(all) = m /\ all \in Seq(Nat)
  OBVIOUS
<1> HIDE DEF t, m
<1>3. /\ Len(all \o t) = m + size
      /\ \A i \in 1 .. m + size : (all \o t)[i] = IF i <= m THEN all[i] ELSE t[i - m]
      /\ all \o t \in Seq(Nat)
  <2>1. /\ all \o t \in Seq(Nat) /\ Len(all \o t) = Len(all) + Len(t)
        /\ \A i \in 1 .. Len(all) + Len(t) :
             (all \o t)[i] = IF i <= Len(all) THEN all[i] ELSE t[i - Len(all)]
    BY <1>1, <1>2, ConcatProperties, Zenon
  <2>2. QED
    BY <1>1, <1>2, <2>1
<1>4. ASSUME NEW i \in 1 .. m + size
      PROVE  (all \o t)[i] = data[i]
  <2>1. CASE i <= m
    BY <1>2, <1>3, <1>1, <2>1
  <2>2. CASE i > m
    <3>1. i - m \in 1 .. size /\ m + (i - m) = i /\ ~(i <= m)
      BY <1>1, <2>2
    <3>2. (all \o t)[i] = t[i - m]
      BY <1>3, <3>1
    <3>3. t[i - m] = data[m + (i - m)]
      BY <1>1, <3>1
    <3>4. QED
      BY <3>1, <3>2, <3>3
  <2>3. QED
    BY <1>1, <2>1, <2>2
<1>5. DOMAIN (all \o t) = 1 .. m + size
  BY <1>1, <1>3
<1>6. QED
  BY <1>1, <1>3, <1>4, <1>5 DEF t

\* The sectors of bytes that agree are equal.
LEMMA EqualSlices ==
  ASSUME NEW data \in Bytes, NEW image \in Bytes, NEW idx \in Nat, NEW size \in Nat,
         (idx + 1) * size <= Len(image), (idx + 1) * size <= Len(data),
         \A i \in DOMAIN image : image[i] = data[i]
  PROVE  Slice(data, idx, size) = Slice(image, idx, size)
<1>1. /\ Slice(data, idx, size) \in Seq(Nat) /\ Len(Slice(data, idx, size)) = size
      /\ \A i \in 1 .. size : Slice(data, idx, size)[i] = data[idx * size + i]
  BY SliceBytes
<1>2. /\ Slice(image, idx, size) \in Seq(Nat) /\ Len(Slice(image, idx, size)) = size
      /\ \A i \in 1 .. size : /\ idx * size + i \in DOMAIN image
                              /\ Slice(image, idx, size)[i] = image[idx * size + i]
  BY SliceBytes
<1>3. \A i \in 1 .. size : Slice(data, idx, size)[i] = Slice(image, idx, size)[i]
  BY <1>1, <1>2
<1>4. QED
  BY <1>1, <1>2, <1>3, SeqEqual

-----------------------------------------------------------------------------
(* The invariant. *)

\* During a load nothing is loaded.  Without a loaded sector nothing can be read, and
\* with one the guest has read the buffer up to the cursor.
BufferInv ==
  /\ load.at # "idle" => loaded = Nothing
  /\ loaded = Nothing => streamed = <<>> /\ (load.at = "idle" => buffer = <<>>)
  /\ Len(streamed) = cursor \/ loaded = Nothing
  /\ loaded # Nothing => \A i \in DOMAIN streamed : streamed[i] = buffer[i]

\* These bytes are the sector of the expected image that their number puts there.
OnImage(idx, bytes) ==
  /\ (idx + 1) * Len(bytes) <= Len(policy.image)
  /\ bytes = Slice(policy.image, idx, Len(bytes))

\* What is in the buffer was verified, if the backend held still where it had to.
VerifiedInv ==
  loaded # Nothing =>
    /\ policy.kind = "per_sector" => MatchesDigest(loaded, buffer)
    /\ policy.kind = "image" /\ steady => OnImage(loaded, buffer)

\* What a load has fetched so far is what the backend still holds, if that held still;
\* the sector of the load is then still there.
LoadInv ==
  /\ load.at = "sector" /\ steady => Readable(backend, selected)
  /\ load.at \in {"size", "image"} => policy.kind = "image"
  /\ load.at \in {"size", "image"} /\ steady =>
       Readable(backend, selected) /\ load.bytes = Sector(backend, selected)
  /\ load.at = "image" => load.next <= load.count
  /\ load.at = "image" /\ steady =>
       /\ load.count = Capacity(backend)
       /\ Len(load.all) = load.next * backend.size
       /\ \A i \in DOMAIN load.all : load.all[i] = backend.data[i]

BlkInv == TypeOK /\ BufferInv /\ VerifiedInv /\ LoadInv

-----------------------------------------------------------------------------
\* The types of the variables, one by one.
LEMMA BlkTypes ==
  ASSUME TypeOK
  PROVE  /\ backend \in [data : Bytes, size : Nat \ {0}]
         /\ backend.data \in Bytes /\ backend.size \in Nat \ {0}
         /\ policy.kind \in Kinds
         /\ policy.kind = "per_sector" => policy.sectors \in Seq(Bytes)
         /\ policy.kind = "image" => policy.image \in Bytes
         /\ <<>> \in Bytes /\ buffer \in Bytes
         /\ load.at \in Stages /\ load.bytes \in Bytes /\ load.count \in Nat
         /\ load.next \in Nat /\ load.all \in Bytes
         /\ (loaded # Nothing => loaded \in Nat) /\ selected \in Nat
<1>1. backend \in [data : Bytes, size : Nat \ {0}]
  BY BlkAssumption DEF TypeOK
<1>2. /\ policy.kind \in Kinds
      /\ policy.kind = "per_sector" => policy.sectors \in Seq(Bytes)
      /\ policy.kind = "image" => policy.image \in Bytes
  BY BlkAssumption DEF TypeOK
<1>3. /\ load.at \in Stages /\ load.bytes \in Bytes /\ load.count \in Nat
      /\ load.next \in Nat /\ load.all \in Bytes
  BY DEF TypeOK, LoadSteps
<1>4. (loaded # Nothing => loaded \in Nat) /\ selected \in Nat
  BY BlkAssumption DEF TypeOK
<1>5. <<>> \in Bytes /\ buffer \in Bytes
  BY DEF TypeOK
<1>6. QED
  BY <1>1, <1>2, <1>3, <1>4, <1>5

\* What the backend answers keeps its type.
LEMMA BackendTypes ==
  ASSUME TypeOK, NEW idx \in Nat
  PROVE  /\ Capacity(backend) \in Nat
         /\ idx < Capacity(backend) <=> Readable(backend, idx)
         /\ Readable(backend, idx) =>
              /\ Sector(backend, idx) \in Bytes
              /\ Len(Sector(backend, idx)) = backend.size
<1>1. /\ backend \in [data : Bytes, size : Nat \ {0}]
      /\ backend.data \in Bytes /\ backend.size \in Nat
  BY BlkTypes
<1>2. Capacity(backend) \in Nat /\ (idx < Capacity(backend) <=> Readable(backend, idx))
  BY <1>1, CapacityIsReadable
<1>3. Readable(backend, idx) => /\ Sector(backend, idx) \in Bytes
                                /\ Len(Sector(backend, idx)) = backend.size
  BY <1>1, SliceBytes DEF Sector, Readable
<1>4. QED
  BY <1>2, <1>3

LEMMA BlkInit == Init => BlkInv
<1> SUFFICES ASSUME Init PROVE BlkInv
  OBVIOUS
<1>1. <<>> \in Bytes /\ Len(<<>>) = 0 /\ MaxSelect \in Nat
  BY BlkAssumption
<1>2. load = Idle /\ Idle.at = "idle" /\ load \in LoadSteps
  BY <1>1 DEF Init, Idle, Step, LoadSteps, Stages
<1>3. TypeOK
  BY <1>1, <1>2 DEF Init, TypeOK
<1>4. QED
  BY <1>1, <1>2, <1>3 DEF Init, BlkInv, BufferInv, VerifiedInv, LoadInv

LEMMA BlkTypeStep == TypeOK /\ [Next]_vars => TypeOK'
<1> SUFFICES ASSUME TypeOK, [Next]_vars PROVE TypeOK'
  OBVIOUS
<1>t. /\ backend \in [data : Bytes, size : Nat \ {0}]
      /\ backend.data \in Bytes /\ backend.size \in Nat \ {0}
      /\ policy.kind \in Kinds
      /\ policy.kind = "per_sector" => policy.sectors \in Seq(Bytes)
      /\ policy.kind = "image" => policy.image \in Bytes
      /\ <<>> \in Bytes /\ buffer \in Bytes
      /\ load.at \in Stages /\ load.bytes \in Bytes /\ load.count \in Nat
      /\ load.next \in Nat /\ load.all \in Bytes
      /\ (loaded # Nothing => loaded \in Nat) /\ selected \in Nat
  BY BlkTypes
<1>s. ASSUME NEW idx \in Nat, Readable(backend, idx)
      PROVE  /\ Sector(backend, idx) \in Bytes
             /\ Len(Sector(backend, idx)) = backend.size
  BY <1>s, BackendTypes
<1>c. Capacity(backend) \in Nat /\ (selected < Capacity(backend) <=> Readable(backend, selected))
  BY <1>t, BackendTypes
<1>i. Idle \in LoadSteps
  BY <1>t DEF Idle, Step, LoadSteps, Stages
<1>r. ASSUME NEW c \in {STATUS_OUT_OF_RANGE, STATUS_INTEGRITY}, Refuse(c),
             UNCHANGED <<backend, policy, selected>>, steady' \in BOOLEAN
      PROVE  TypeOK'
  BY <1>r, <1>t, <1>i DEF TypeOK, Refuse
<1>a. ASSUME NEW b \in Bytes, Accept(b), UNCHANGED <<backend, policy, selected>>,
             steady' \in BOOLEAN
      PROVE  TypeOK'
  BY <1>a, <1>t, <1>i DEF TypeOK, Accept
<1>l. ASSUME NEW at \in Stages, NEW b \in Bytes, NEW n \in Nat, NEW k \in Nat,
             NEW r \in Bytes, load' = Step(at, b, n, k, r)
      PROVE  load' \in LoadSteps
  BY <1>l DEF Step, LoadSteps
<1>1. CASE CmdLoad
  <2>1. CASE Refuse(STATUS_OUT_OF_RANGE)
    BY <1>1, <2>1, <1>r DEF CmdLoad
  <2>2. CASE load' = Step("sector", <<>>, 0, 0, <<>>) /\ UNCHANGED <<status, buffer, cursor>>
              /\ loaded' = Nothing /\ streamed' = <<>>
    <3>1. load' \in LoadSteps
      BY <2>2, <1>l, <1>t DEF Stages
    <3>2. QED
      BY <1>1, <2>2, <3>1, <1>t DEF CmdLoad, TypeOK
  <2>3. QED
    BY <1>1, <2>1, <2>2 DEF CmdLoad
<1>2. CASE ReadSector
  <2>0. UNCHANGED <<backend, policy, selected, steady>> /\ steady' \in BOOLEAN
    BY <1>2 DEF ReadSector, TypeOK
  <2>1. CASE Refuse(STATUS_INTEGRITY)
    BY <2>0, <2>1, <1>r
  <2>2. CASE Readable(backend, selected) /\ Accept(Sector(backend, selected))
    <3>1. Sector(backend, selected) \in Bytes
      BY <2>2, <1>t, <1>s
    <3>2. QED
      BY <2>0, <2>2, <3>1, <1>a
  <2>3. CASE Readable(backend, selected) /\ load' = Step("size", Sector(backend, selected), 0, 0, <<>>)
              /\ UNCHANGED <<status, buffer, cursor, loaded, streamed>>
    <3>1. Sector(backend, selected) \in Bytes
      BY <2>3, <1>t, <1>s
    <3>2. load' \in LoadSteps
      BY <2>3, <3>1, <1>l, <1>t DEF Stages
    <3>3. QED
      BY <2>0, <2>3, <3>2 DEF TypeOK
  <2>4. QED
    BY <1>2, <2>1, <2>2, <2>3 DEF ReadSector
<1>3. CASE ReadSize
  <2>2. load' \in LoadSteps
    <3>1. "image" \in Stages /\ 0 \in Nat
      BY DEF Stages
    <3>2. load' = Step("image", load.bytes, Capacity(backend), 0, <<>>)
      BY <1>3 DEF ReadSize
    <3>3. QED
      BY <3>1, <3>2, <1>l, <1>t, <1>c
  <2>3. QED
    BY <1>3, <2>2 DEF ReadSize, TypeOK, registers, history
<1>4. CASE ReadImage
  <2>0. UNCHANGED <<backend, policy, selected, steady>> /\ steady' \in BOOLEAN
    BY <1>4 DEF ReadImage, TypeOK
  <2>1. CASE Refuse(STATUS_INTEGRITY)
    BY <2>0, <2>1, <1>r
  <2>2. CASE ~Refuse(STATUS_INTEGRITY)
    <3>1. Readable(backend, load.next)
      BY <1>4, <2>2 DEF ReadImage
    <3>2. load.all \o Sector(backend, load.next) \in Bytes
      BY <3>1, <1>s, <1>t
    <3>3. load' = Step("image", load.bytes, load.count, load.next + 1,
                       load.all \o Sector(backend, load.next))
          /\ UNCHANGED <<status, buffer, cursor, loaded, streamed>>
      BY <1>4, <3>1 DEF ReadImage
    <3>4. load' \in LoadSteps
      <4>1. "image" \in Stages /\ load.next + 1 \in Nat
        BY <1>t DEF Stages
      <4>2. QED
        BY <3>2, <3>3, <4>1, <1>l, <1>t
    <3>5. QED
      BY <2>0, <3>3, <3>4 DEF TypeOK
  <2>3. QED
    BY <2>1, <2>2
<1>5. CASE CompareImage
  <2>0. UNCHANGED <<backend, policy, selected, steady>> /\ steady' \in BOOLEAN
    BY <1>5 DEF CompareImage, TypeOK
  <2>1. QED
    BY <1>5, <2>0, <1>t, <1>a, <1>r DEF CompareImage
<1>6. CASE \E idx \in 0 .. MaxSelect : Select(idx)
  BY <1>6 DEF Select, TypeOK, history
<1>7. CASE ReadData
  <2>1. buffer[cursor + 1] \in Nat
    BY <1>7, <1>t DEF ReadData, TypeOK
  <2>2. QED
    BY <1>7, <2>1, <1>t DEF ReadData, TypeOK
<1>8. CASE Reset
  BY <1>8, <1>t, BlkAssumption DEF Reset, Rewound, TypeOK
<1>9. CASE \E b \in Backends : Tamper(b)
  BY <1>9 DEF Tamper, TypeOK, registers
<1>10. CASE UNCHANGED vars
  BY <1>10 DEF vars, registers, history, TypeOK
<1>11. QED
  BY <1>1, <1>2, <1>3, <1>4, <1>5, <1>6, <1>7, <1>8, <1>9, <1>10 DEF Next

-----------------------------------------------------------------------------
\* Bytes that are all the sectors of a backend, and the expected image, put each of
\* the backend's sectors at its place in that image.
LEMMA ImagePlacesSector ==
  ASSUME TypeOK, policy.kind = "image", Readable(backend, selected),
         Len(load.all) = Capacity(backend) * backend.size,
         \A i \in DOMAIN load.all : load.all[i] = backend.data[i],
         MatchesImage(load.all)
  PROVE  OnImage(selected, Sector(backend, selected))
<1> DEFINE size == backend.size
<1>1. /\ backend.data \in Bytes /\ size \in Nat \ {0} /\ policy.image \in Bytes
      /\ selected \in Nat /\ load.all = policy.image
  BY BlkTypes DEF MatchesImage
<1>2. Capacity(backend) \in Nat /\ selected + 1 <= Capacity(backend)
      /\ Len(Sector(backend, selected)) = size
  <2>1. /\ Capacity(backend) \in Nat /\ selected < Capacity(backend)
        /\ Len(Sector(backend, selected)) = size
    BY <1>1, BackendTypes
  <2>2. QED
    BY <1>1, <2>1
<1>3. (selected + 1) * size <= Len(policy.image)
  <2>1. (selected + 1) * size <= Capacity(backend) * size
    BY <1>1, <1>2, Multiples
  <2>2. QED
    BY <1>1, <2>1
<1>4. (selected + 1) * size <= Len(backend.data)
  BY DEF Readable
<1>5. Slice(backend.data, selected, size) = Slice(policy.image, selected, size)
  <2>1. \A i \in DOMAIN policy.image : policy.image[i] = backend.data[i]
    BY <1>1
  <2>2. size \in Nat
    BY <1>1
  <2> HIDE DEF size
  <2>3. QED
    BY <1>1, <1>3, <1>4, <2>1, <2>2, EqualSlices
<1>6. QED
  BY <1>2, <1>3, <1>5 DEF OnImage, Sector

\* A step that does not end a load leaves what was loaded, or forgets it.
LEMMA BlkStep == BlkInv /\ [Next]_vars => BufferInv' /\ VerifiedInv' /\ LoadInv'
<1> SUFFICES ASSUME BlkInv, [Next]_vars PROVE BufferInv' /\ VerifiedInv' /\ LoadInv'
  OBVIOUS
<1> USE DEF BlkInv
<1>t. /\ backend \in [data : Bytes, size : Nat \ {0}]
      /\ backend.data \in Bytes /\ backend.size \in Nat \ {0}
      /\ policy.kind \in Kinds
      /\ policy.kind = "per_sector" => policy.sectors \in Seq(Bytes)
      /\ policy.kind = "image" => policy.image \in Bytes
      /\ <<>> \in Bytes /\ buffer \in Bytes
      /\ load.at \in Stages /\ load.bytes \in Bytes /\ load.count \in Nat
      /\ load.next \in Nat /\ load.all \in Bytes
      /\ (loaded # Nothing => loaded \in Nat) /\ selected \in Nat
  BY BlkTypes
<1>s. ASSUME NEW idx \in Nat, Readable(backend, idx)
      PROVE  /\ Sector(backend, idx) \in Bytes
             /\ Len(Sector(backend, idx)) = backend.size
  BY <1>s, BackendTypes
<1>c. Capacity(backend) \in Nat /\ (selected < Capacity(backend) <=> Readable(backend, selected))
  BY <1>t, BackendTypes
<1>i. Idle.at = "idle" /\ (load.at = "idle" => load = Idle \/ load # Idle)
  BY DEF Idle, Step
<1>r. ASSUME NEW c, Refuse(c), UNCHANGED <<backend, policy, selected>>
      PROVE  BufferInv' /\ VerifiedInv' /\ LoadInv'
  BY <1>r, <1>i DEF Refuse, BufferInv, VerifiedInv, LoadInv
<1>a. ASSUME NEW b \in Bytes, Accept(b), UNCHANGED <<backend, policy, selected, steady>>,
             policy.kind = "per_sector" => MatchesDigest(selected, b),
             policy.kind = "image" /\ steady => OnImage(selected, b)
      PROVE  BufferInv' /\ VerifiedInv' /\ LoadInv'
  <2>1. BufferInv'
    BY <1>a, <1>i, <1>t, BlkAssumption DEF Accept, BufferInv
  <2>2. VerifiedInv'
    BY <1>a DEF Accept, VerifiedInv, MatchesDigest, OnImage
  <2>3. LoadInv'
    BY <1>a, <1>i DEF Accept, LoadInv
  <2>4. QED
    BY <2>1, <2>2, <2>3
<1>1. CASE CmdLoad
  <2>1. CASE Refuse(STATUS_OUT_OF_RANGE)
    BY <1>1, <2>1, <1>r DEF CmdLoad
  <2>2. CASE Readable(backend, selected) /\ load' = Step("sector", <<>>, 0, 0, <<>>)
               /\ loaded' = Nothing /\ streamed' = <<>>
    <3>1. load'.at = "sector"
      BY <2>2 DEF Step
    <3>2. Readable(backend, selected)' /\ loaded' = Nothing /\ streamed' = <<>>
      BY <1>1, <2>2 DEF CmdLoad, Readable
    <3>3. QED
      BY <2>2, <3>1, <3>2 DEF BufferInv, VerifiedInv, LoadInv
  <2>3. QED
    BY <1>1, <1>c, <2>1, <2>2 DEF CmdLoad
<1>2. CASE ReadSector
  <2>0. UNCHANGED <<backend, policy, selected, steady>> /\ load.at = "sector"
    BY <1>2 DEF ReadSector
  <2>1. CASE Refuse(STATUS_INTEGRITY)
    BY <2>0, <2>1, <1>r
  <2>2. CASE /\ Readable(backend, selected) /\ policy.kind = "per_sector"
               /\ MatchesDigest(selected, Sector(backend, selected))
               /\ Accept(Sector(backend, selected))
    <3>1. Sector(backend, selected) \in Bytes
      BY <2>2, <1>t, <1>s
    <3>2. QED
      BY <2>0, <2>2, <3>1, <1>a
  <2>3. CASE Readable(backend, selected) /\ policy.kind = "image"
               /\ load' = Step("size", Sector(backend, selected), 0, 0, <<>>)
               /\ UNCHANGED <<status, buffer, cursor, loaded, streamed>>
    <3>1. Sector(backend, selected) \in Bytes
      BY <2>3, <1>t, <1>s
    <3>2. load'.at = "size" /\ load'.bytes = Sector(backend, selected)
      BY <2>3 DEF Step
    <3>3. QED
      BY <2>0, <2>3, <3>1, <3>2
      DEF BufferInv, VerifiedInv, LoadInv, MatchesDigest, OnImage, Readable, Sector
  <2>4. QED
    BY <1>2, <2>1, <2>2, <2>3 DEF ReadSector
<1>3. CASE ReadSize
  <2>0. UNCHANGED <<backend, policy, selected, status, buffer, cursor, loaded, streamed, steady>>
        /\ load.at = "size"
    BY <1>3 DEF ReadSize, registers, history
  <2>1. /\ load'.at = "image" /\ load'.bytes = load.bytes
        /\ load'.count = Capacity(backend) /\ load'.next = 0 /\ load'.all = <<>>
    BY <1>3 DEF ReadSize, Step
  <2>2. LoadInv'
    <3>1. policy.kind = "image" /\ (steady => Readable(backend, selected)
                                           /\ load.bytes = Sector(backend, selected))
      BY <2>0 DEF LoadInv
    <3>2. 0 <= Capacity(backend) /\ Len(<<>>) = 0 * backend.size
      BY <1>c, <1>t
    <3>3. QED
      BY <2>0, <2>1, <3>1, <3>2 DEF LoadInv, Readable, Sector, Capacity
  <2>3. BufferInv' /\ VerifiedInv'
    BY <2>0, <2>1 DEF BufferInv, VerifiedInv, MatchesDigest, OnImage
  <2>4. QED
    BY <2>2, <2>3
<1>4. CASE ReadImage
  <2>0. UNCHANGED <<backend, policy, selected, steady>>
    BY <1>4 DEF ReadImage
  <2>1. CASE Refuse(STATUS_INTEGRITY)
    BY <2>0, <2>1, <1>r
  <2>2. CASE ~Refuse(STATUS_INTEGRITY)
    <3> DEFINE r == load.all \o Sector(backend, load.next)
    <3>1. /\ Readable(backend, load.next) /\ load.at = "image" /\ load.next < load.count
          /\ load' = Step("image", load.bytes, load.count, load.next + 1, r)
          /\ UNCHANGED <<status, buffer, cursor, loaded, streamed>>
      BY <1>4, <2>2 DEF ReadImage
    <3>2. /\ load'.at = "image" /\ load'.bytes = load.bytes
          /\ load'.count = load.count /\ load'.next = load.next + 1 /\ load'.all = r
      BY <3>1 DEF Step
    <3>3. ASSUME steady
          PROVE  /\ Len(r) = (load.next + 1) * backend.size
                 /\ \A i \in DOMAIN r : r[i] = backend.data[i]
      <4>1. /\ Len(load.all) = load.next * backend.size
            /\ \A i \in DOMAIN load.all : load.all[i] = backend.data[i]
        BY <3>1, <3>3 DEF LoadInv
      <4>2. (load.next + 1) * backend.size <= Len(backend.data)
        BY <3>1 DEF Readable
      <4>3. backend.data \in Bytes /\ backend.size \in Nat /\ load.next \in Nat
            /\ load.all \in Bytes
        BY <1>t
      <4>4. /\ Len(load.all \o Slice(backend.data, load.next, backend.size))
                 = (load.next + 1) * backend.size
            /\ \A i \in DOMAIN (load.all \o Slice(backend.data, load.next, backend.size)) :
                 (load.all \o Slice(backend.data, load.next, backend.size))[i]
                   = backend.data[i]
        BY <4>1, <4>2, <4>3, ReadingOn
      <4>5. QED
        BY <4>4 DEF Sector
    <3>4. LoadInv'
      <4>1. /\ policy.kind = "image"
            /\ steady => /\ Readable(backend, selected)
                         /\ load.bytes = Sector(backend, selected)
                         /\ load.count = Capacity(backend)
        BY <3>1 DEF LoadInv
      <4>2. load.next + 1 <= load.count
        BY <3>1, <1>t
      <4> HIDE DEF r
      <4>3. QED
        BY <2>0, <3>2, <3>3, <4>1, <4>2 DEF LoadInv, Readable, Sector, Capacity
    <3>5. BufferInv' /\ VerifiedInv'
      BY <2>0, <3>1, <3>2 DEF BufferInv, VerifiedInv, MatchesDigest, OnImage
    <3>6. QED
      BY <3>4, <3>5
  <2>3. QED
    BY <2>1, <2>2
<1>5. CASE CompareImage
  <2>0. UNCHANGED <<backend, policy, selected, steady>> /\ load.at = "image"
    BY <1>5 DEF CompareImage
  <2>1. CASE Refuse(STATUS_INTEGRITY)
    BY <2>0, <2>1, <1>r
  <2>2. CASE MatchesImage(load.all) /\ Accept(load.bytes)
    <3>1. policy.kind = "image"
      BY <2>0 DEF LoadInv
    <3>2. ASSUME steady PROVE OnImage(selected, load.bytes)
      <4>1. load.next = load.count
        BY <1>5 DEF CompareImage
      <4>2. /\ Readable(backend, selected) /\ load.bytes = Sector(backend, selected)
            /\ Len(load.all) = Capacity(backend) * backend.size
            /\ \A i \in DOMAIN load.all : load.all[i] = backend.data[i]
        BY <2>0, <3>2, <4>1 DEF LoadInv
      <4>3. OnImage(selected, Sector(backend, selected))
        BY <2>2, <3>1, <4>2, ImagePlacesSector
      <4>4. QED
        BY <4>2, <4>3
    <3>3. QED
      BY <2>0, <2>2, <3>1, <3>2, <1>t, <1>a
  <2>3. QED
    BY <1>5, <2>1, <2>2 DEF CompareImage
<1>6. CASE \E idx \in 0 .. MaxSelect : Select(idx)
  BY <1>6, <1>i DEF Select, history, BufferInv, VerifiedInv, LoadInv, MatchesDigest, OnImage
<1>7. CASE ReadData
  <2>0. load.at = "idle" /\ UNCHANGED <<backend, policy, selected, buffer, load, loaded, steady>>
    BY <1>7, <1>i DEF ReadData
  <2>1. loaded # Nothing /\ Len(streamed) = cursor
    BY <1>7, <2>0, <1>t DEF ReadData, BufferInv, TypeOK
  <2>2. buffer[cursor + 1] \in Nat
    BY <1>7, <1>t, SMTT(30) DEF ReadData, TypeOK
  <2>3. BufferInv'
    BY <1>7, <2>0, <2>1, <2>2, <1>t, SMTT(30) DEF ReadData, BufferInv, TypeOK
  <2>4. VerifiedInv' /\ LoadInv'
    BY <2>0 DEF VerifiedInv, LoadInv, MatchesDigest, OnImage
  <2>5. QED
    BY <2>3, <2>4
<1>8. CASE Reset
  BY <1>8, <1>i DEF Reset, BufferInv, VerifiedInv, LoadInv
<1>9. CASE \E b \in Backends : Tamper(b)
  <2>1. PICK b \in Backends : Tamper(b)
    BY <1>9
  <2>2. BufferInv'
    BY <2>1 DEF Tamper, registers, BufferInv
  <2>3. VerifiedInv'
    BY <2>1, <1>i DEF Tamper, registers, VerifiedInv, MatchesDigest, OnImage
  <2>4. LoadInv'
    BY <2>1, <1>i DEF Tamper, registers, LoadInv
  <2>5. QED
    BY <2>2, <2>3, <2>4
<1>10. CASE UNCHANGED vars
  BY <1>10
  DEF vars, registers, history, BufferInv, VerifiedInv, LoadInv, MatchesDigest, OnImage,
      Readable, Sector, Capacity
<1>11. QED
  BY <1>1, <1>2, <1>3, <1>4, <1>5, <1>6, <1>7, <1>8, <1>9, <1>10 DEF Next

LEMMA BlkInvariant == Spec => []BlkInv
<1>1. BlkInv /\ [Next]_vars => BlkInv'
  BY BlkStep, BlkTypeStep DEF BlkInv
<1>2. QED
  BY BlkInit, <1>1, PTL DEF Spec

-----------------------------------------------------------------------------
\* The device's registers and the load in progress keep their types, and a failed load
\* leaves nothing in the buffer, for every backend and policy.
THEOREM TypeCorrect == Spec => []TypeOK
<1>1. BlkInv => TypeOK
  BY DEF BlkInv
<1>2. QED
  BY BlkInvariant, <1>1, PTL

\* The bytes the guest reads are those the policy expects at the sector it loaded: of
\* a digest for each sector whatever the backend does, of a digest of the image at the
\* place the sector has in that image, if the backend holds still during the load.
THEOREM StreamAlwaysVerified == Spec => []StreamIsVerified
<1>1. BlkInv => StreamIsVerified
  <2> SUFFICES ASSUME BlkInv PROVE StreamIsVerified
    OBVIOUS
  <2>1. CASE loaded = Nothing
    BY <2>1 DEF BlkInv, BufferInv, StreamIsVerified
  <2>2. CASE loaded # Nothing
    <3>1. Len(streamed) = cursor /\ cursor \in 0 .. Len(buffer)
      BY <2>2 DEF BlkInv, BufferInv, TypeOK
    <3>2. Len(streamed) <= Len(buffer)
      BY <3>1, BlkTypes DEF BlkInv
    <3>3. Begins(streamed, buffer)
      BY <2>2, <3>2 DEF BlkInv, BufferInv, Begins
    <3>4. /\ policy.kind = "per_sector" => MatchesDigest(loaded, buffer)
          /\ policy.kind = "image" /\ steady => OnImage(loaded, buffer)
      BY <2>2 DEF BlkInv, VerifiedInv
    <3>5. QED
      BY <2>2, <3>3, <3>4 DEF StreamIsVerified, MatchesDigest, OnImage
  <2>3. QED
    BY <2>1, <2>2
<1>2. QED
  BY BlkInvariant, <1>1, PTL

-----------------------------------------------------------------------------
\* The backend that held still during a load answers every call of it with what
\* verify() saw: the last step of the load, whichever it is, accepts the bytes.
LEMMA LoadOfVerified ==
  ASSUME BlkInv, [Next]_vars, load # Idle, load' = Idle, Verified, steady
  PROVE  status' = STATUS_OK
<1>t. /\ backend.data \in Bytes /\ backend.size \in Nat \ {0}
      /\ backend \in [data : Bytes, size : Nat \ {0}]
      /\ load.all \in Bytes /\ load.count \in Nat /\ load.next \in Nat /\ selected \in Nat
  BY BlkTypes DEF BlkInv
<1>c. \A idx \in Nat : /\ Capacity(backend) \in Nat
                       /\ Capacity(backend) * backend.size <= Len(backend.data)
                       /\ idx < Capacity(backend) <=> Readable(backend, idx)
  BY <1>t, CapacityIsReadable
<1>l. ASSUME NEW at, NEW bytes, NEW count, NEW next, NEW all, at # "idle"
      PROVE  Step(at, bytes, count, next, all) # Idle
  BY <1>l DEF Step, Idle
<1>1. CASE ReadSector
  <2>1. load.at = "sector" /\ Readable(backend, selected)
    BY <1>1 DEF ReadSector, BlkInv, LoadInv
  <2>2. policy.kind = "per_sector"
    BY <1>1, <1>l, <2>1 DEF ReadSector
  <2>3. MatchesDigest(selected, Sector(backend, selected))
    <3>1. selected \in 0 .. Capacity(backend) - 1
      BY <2>1, <1>t, <1>c
    <3>2. QED
      BY <2>2, <3>1 DEF Verified
  <2>4. Accept(Sector(backend, selected))
    BY <1>1, <2>1, <2>2, <2>3 DEF ReadSector
  <2>5. QED
    BY <2>4 DEF Accept
<1>2. CASE ReadImage
  <2>1. load.next < Capacity(backend)
    BY <1>2 DEF ReadImage, BlkInv, LoadInv
  <2>2. Readable(backend, load.next)
    BY <1>t, <1>c, <2>1
  <2>3. QED
    BY <1>2, <1>l, <2>2 DEF ReadImage
<1>3. CASE CompareImage
  <2> DEFINE len == Capacity(backend) * backend.size
  <2>1. /\ policy.kind = "image" /\ Len(load.all) = len
        /\ \A i \in DOMAIN load.all : load.all[i] = backend.data[i]
    BY <1>3 DEF CompareImage, BlkInv, LoadInv
  <2>2. len \in Nat /\ len <= Len(backend.data)
    BY <1>c, <1>t
  <2> HIDE DEF len
  <2>3. load.all = SubSeq(backend.data, 1, len)
    <3>1. \A i \in 1 .. len : backend.data[i] \in Nat
      BY <2>2, <1>t
    <3>2. /\ SubSeq(backend.data, 1, len) \in Seq(Nat)
          /\ Len(SubSeq(backend.data, 1, len)) = IF 1 <= len THEN len - 1 + 1 ELSE 0
          /\ \A i \in 1 .. len - 1 + 1 :
               SubSeq(backend.data, 1, len)[i] = backend.data[1 + i - 1]
      BY <2>2, <3>1, SubSeqProperties
    <3>3. Len(SubSeq(backend.data, 1, len)) = len
          /\ \A i \in 1 .. len : SubSeq(backend.data, 1, len)[i] = backend.data[i]
      BY <2>2, <3>2
    <3>4. QED
      BY <1>t, <2>1, <2>2, <3>2, <3>3, SeqEqual
  <2>4. MatchesImage(load.all)
    BY <2>1, <2>3 DEF Verified, len
  <2>5. Accept(load.bytes)
    BY <1>3, <2>4 DEF CompareImage
  <2>6. QED
    BY <2>5 DEF Accept
<1>4. ~CmdLoad /\ ~ReadData /\ ~Reset /\ (\A idx : ~Select(idx))
  BY DEF CmdLoad, ReadData, Reset, Select
<1>5. ~ReadSize
  BY <1>l DEF ReadSize
<1>6. (\A b : ~Tamper(b)) /\ ~UNCHANGED vars
  BY DEF Tamper, vars
<1>7. QED
  BY <1>1, <1>2, <1>3, <1>4, <1>5, <1>6 DEF Next

\* A load of a sector of a verified backend that holds still succeeds, for every
\* sector size, image and policy.
THEOREM VerifiedBackendAlwaysLoads == Spec => VerifiedBackendLoads
<1>1. BlkInv /\ [Next]_vars
        => [load # Idle /\ load' = Idle /\ Verified /\ steady => status' = STATUS_OK]_vars
  BY LoadOfVerified
<1>2. QED
  BY BlkInvariant, <1>1, PTL DEF Spec, VerifiedBackendLoads

=============================================================================
