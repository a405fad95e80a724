------------------------------ MODULE VirtioBlk ------------------------------
(***************************************************************************)
(* The read-only block device with integrity verification (hyper-virtio    *)
(* blk.rs) over its in-memory backend.  The guest selects a sector,        *)
(* commands a load and reads the loaded bytes one by one; the host keeps   *)
(* the image in a backend the device does not trust.                       *)
(*                                                                         *)
(* A digest is the content it commits to: of each sector, or of all the    *)
(* sectors of the backend one after the other.  Neither commits to the     *)
(* sector size.  Each call to the backend is a step of its own.  A refused *)
(* access is no step.                                                      *)
(***************************************************************************)
EXTENDS Integers, Sequences

CONSTANTS
  Backends,  \* the backends the host can have
  Policies,  \* the integrity policies a device can be created with
  MaxSelect, \* bound: the highest sector number a guest selects
  Nothing    \* no sector is loaded

Bytes == Seq(Nat)
Kinds == {"per_sector", "image"}

\* InMemoryBlockBackend: both fields are public, and the length need not be a
\* multiple of the size.
ASSUME BlkAssumption ==
  /\ Backends \subseteq [data : Bytes, size : Nat \ {0}]
  /\ \A p \in Policies :
       /\ p.kind \in Kinds
       /\ p.kind = "per_sector" => p.sectors \in Seq(Bytes)
       /\ p.kind = "image" => p.image \in Bytes
  /\ MaxSelect \in Nat
  /\ Nothing \notin Nat

VARIABLES
  backend, \* the backing store: its bytes and its sector size
  policy,  \* the device's integrity policy
  selected, status, buffer, cursor, \* the device's registers
  load,    \* how far the load in progress is
  loaded,  \* history: the sector of the last load, when it succeeded
  streamed, \* history: the bytes handed to the guest since
  steady    \* history: the backend did not change during the last load

registers == <<selected, status, buffer, cursor>>
history == <<loaded, streamed, steady>>
vars == <<backend, policy, registers, load, history>>

STATUS_OK == 0
STATUS_OUT_OF_RANGE == 1
STATUS_INTEGRITY == 2

\* A load: the sector fetched, and of the pass over the image the number of sectors
\* to read, the next one and the bytes read so far.
Step(at, bytes, count, next, all) ==
  [at |-> at, bytes |-> bytes, count |-> count, next |-> next, all |-> all]
Idle == Step("idle", <<>>, 0, 0, <<>>)

Init ==
  /\ backend \in Backends /\ policy \in Policies
  /\ selected = 0 /\ status = STATUS_OK /\ buffer = <<>> /\ cursor = 0
  /\ load = Idle
  /\ loaded = Nothing /\ streamed = <<>> /\ steady = TRUE

-----------------------------------------------------------------------------
\* InMemoryBlockBackend: its number of sectors, whether it can read one, and that
\* sector's bytes.
Capacity(b) == Len(b.data) \div b.size

\* Faulty variant: the last sector is taken to end outside.
EndsBefore(b, idx) == (idx + 1) * b.size < Len(b.data)

Readable(b, idx) == (idx + 1) * b.size <= Len(b.data)

Slice(bytes, idx, size) == SubSeq(bytes, idx * size + 1, (idx + 1) * size)
Sector(b, idx) == Slice(b.data, idx, b.size)

\* The policy has a digest for the sector, and it is the digest of these bytes.
MatchesDigest(idx, bytes) ==
  idx + 1 \in DOMAIN policy.sectors /\ bytes = policy.sectors[idx + 1]

\* The digest of the concatenated sectors is the expected one.
MatchesImage(all) == all = policy.image

\* verify(), asked of a backend that does not change meanwhile.
Verified ==
  LET n == Capacity(backend)
  IN  \/ policy.kind = "image" /\ MatchesImage(SubSeq(backend.data, 1, n * backend.size))
      \/ /\ policy.kind = "per_sector" /\ Len(policy.sectors) = n
         /\ \A idx \in 0 .. n - 1 : MatchesDigest(idx, Sector(backend, idx))

Accept(bytes) ==
  /\ buffer' = bytes /\ cursor' = 0 /\ status' = STATUS_OK
  /\ load' = Idle
  /\ loaded' = selected /\ streamed' = <<>>

\* Faulty variant: a failed load leaves the last buffer readable.
RefuseQuietly(code) ==
  /\ status' = STATUS_OK /\ cursor' = 0 /\ UNCHANGED buffer
  /\ load' = Idle
  /\ loaded' = Nothing /\ streamed' = <<>>

Refuse(code) ==
  /\ buffer' = <<>> /\ cursor' = 0 /\ status' = code
  /\ load' = Idle
  /\ loaded' = Nothing /\ streamed' = <<>>

\* CMD_LOAD: read_sector first compares the number with the capacity.
CmdLoad ==
  /\ load = Idle
  /\ \/ /\ selected >= Capacity(backend)
        /\ Refuse(STATUS_OUT_OF_RANGE)
     \/ /\ selected < Capacity(backend)
        /\ load' = Step("sector", <<>>, 0, 0, <<>>)
        /\ loaded' = Nothing /\ streamed' = <<>>
        /\ UNCHANGED <<status, buffer, cursor>>
  /\ steady' = TRUE
  /\ UNCHANGED <<backend, policy, selected>>

\* The bytes are fetched.  A digest of the sector decides at once; for a digest of
\* the image the backend is asked for its size and then for every sector again.
ReadSector ==
  /\ load.at = "sector"
  /\ \/ /\ ~Readable(backend, selected)
        /\ Refuse(STATUS_INTEGRITY)
     \/ /\ Readable(backend, selected) /\ policy.kind = "per_sector"
        /\ IF MatchesDigest(selected, Sector(backend, selected))
           THEN Accept(Sector(backend, selected))
           ELSE Refuse(STATUS_INTEGRITY)
     \/ /\ Readable(backend, selected) /\ policy.kind = "image"
        /\ load' = Step("size", Sector(backend, selected), 0, 0, <<>>)
        /\ UNCHANGED <<status, buffer, cursor, loaded, streamed>>
  /\ UNCHANGED <<backend, policy, selected, steady>>

\* image_digest, call by call: the number of sectors, each sector, the comparison.
ReadSize ==
  /\ load.at = "size"
  /\ load' = Step("image", load.bytes, Capacity(backend), 0, <<>>)
  /\ UNCHANGED <<backend, policy, registers, history>>

ReadImage ==
  /\ load.at = "image" /\ load.next < load.count
  /\ IF Readable(backend, load.next)
     THEN /\ load' = Step("image", load.bytes, load.count, load.next + 1,
                          load.all \o Sector(backend, load.next))
          /\ UNCHANGED <<status, buffer, cursor, loaded, streamed>>
     ELSE Refuse(STATUS_INTEGRITY)
  /\ UNCHANGED <<backend, policy, selected, steady>>

CompareImage ==
  /\ load.at = "image" /\ load.next = load.count
  /\ IF MatchesImage(load.all) THEN Accept(load.bytes) ELSE Refuse(STATUS_INTEGRITY)
  /\ UNCHANGED <<backend, policy, selected, steady>>

-----------------------------------------------------------------------------
\* Any sector may be selected; the loaded one stays readable.
Select(idx) ==
  /\ load = Idle
  /\ selected' = idx
  /\ UNCHANGED <<backend, policy, status, buffer, cursor, load, history>>

\* The next byte of the buffer; every access width is at least a byte.
ReadData ==
  /\ load = Idle
  /\ status = STATUS_OK /\ cursor < Len(buffer)
  /\ cursor' = cursor + 1
  /\ streamed' = Append(streamed, buffer[cursor + 1])
  /\ UNCHANGED <<backend, policy, selected, status, buffer, load, loaded, steady>>

Rewound == 0

Reset ==
  /\ load = Idle
  /\ selected' = 0 /\ status' = STATUS_OK /\ buffer' = <<>> /\ cursor' = Rewound
  /\ loaded' = Nothing /\ streamed' = <<>>
  /\ UNCHANGED <<backend, policy, load, steady>>

\* The host changes the backing store, its bytes, their number or the sector size,
\* through backend_mut, between two calls to it.
Tamper(b) ==
  /\ b # backend /\ backend' = b
  /\ steady' = (steady /\ load = Idle)
  /\ UNCHANGED <<policy, registers, load, loaded, streamed>>

Next ==
  \/ CmdLoad \/ ReadSector \/ ReadSize \/ ReadImage \/ CompareImage
  \/ \E idx \in 0 .. MaxSelect : Select(idx)
  \/ ReadData \/ Reset
  \/ \E b \in Backends : Tamper(b)

Spec == Init /\ [][Next]_vars

-----------------------------------------------------------------------------
Stages == {"idle", "sector", "size", "image"}
LoadSteps == [at : Stages, bytes : Bytes, count : Nat, next : Nat, all : Bytes]

\* Registers and load keep their types; the cursor stays in the buffer, and a failed
\* load leaves nothing in it.
TypeOK ==
  /\ backend \in Backends /\ policy \in Policies
  /\ selected \in 0 .. MaxSelect
  /\ status \in {STATUS_OK, STATUS_OUT_OF_RANGE, STATUS_INTEGRITY}
  /\ buffer \in Bytes
  /\ cursor \in 0 .. Len(buffer)
  /\ status # STATUS_OK => buffer = <<>>
  /\ load \in LoadSteps
  /\ loaded \in 0 .. MaxSelect \cup {Nothing}
  /\ streamed \in Bytes
  /\ steady \in BOOLEAN

\* The bytes read are the first of these, in order and without a gap.
Begins(read, bytes) ==
  Len(read) <= Len(bytes) /\ \A i \in DOMAIN read : read[i] = bytes[i]

\* What the guest has read since the last load are the first bytes of the sector it
\* had selected for that load, whatever is selected in between.  With a digest for
\* each sector this is the sector the policy expects, whatever the host does to the
\* backend between the calls and whatever sector size it claims.  A digest of the
\* image is taken after the sector was fetched and commits to no sector size: if the
\* backend does not change during the load, it is that part of the expected image
\* where the backend's size puts the sector.  After a failed load or a reset the
\* guest reads nothing.
StreamIsVerified ==
  IF loaded = Nothing THEN streamed = <<>>
  ELSE /\ policy.kind = "per_sector" =>
            /\ loaded + 1 \in DOMAIN policy.sectors
            /\ Begins(streamed, policy.sectors[loaded + 1])
       /\ policy.kind = "image" /\ steady =>
            /\ (loaded + 1) * Len(buffer) <= Len(policy.image)
            /\ Begins(streamed, Slice(policy.image, loaded, Len(buffer)))

\* A load of a sector of a backend that verify() accepts, and that does not change
\* during the load, succeeds.
VerifiedBackendLoads ==
  [][load # Idle /\ load' = Idle /\ Verified /\ steady => status' = STATUS_OK]_vars

\* The doc of blk.rs: every sector read re-hashes "the bytes returned by the backend"
\* and "a single flipped byte makes the read fail closed".  What the guest reads from
\* a device with a digest of the image is a piece of that image, wherever it lies.
StreamIsPartOfImage ==
  policy.kind = "image" =>
    \E start \in 0 .. Len(policy.image) - Len(streamed) :
      streamed = SubSeq(policy.image, start + 1, start + Len(streamed))

=============================================================================
