----------------------------- MODULE GuestMemory -----------------------------
(***************************************************************************)
(* NestedPageTable over InMemoryNpt (hyper-mm): the mappings of one table, *)
(* the zeroization state of host page frames and the reserved host range.  *)
(*                                                                         *)
(* Addresses and lengths are whole page frames: the ranges that callers in *)
(* src/ pass are page aligned.  A refused call (zero length, W+X, overlap  *)
(* with the reserved range, a frame that is not zeroed, an unknown id)     *)
(* returns before it changes anything and is a stuttering step.            *)
(*                                                                         *)
(* The crate holds no page contents: that a frame is zeroed is a state the *)
(* caller, or allocate, gives it, and no code under src/ writes the        *)
(* zeroes.  `freed' remembers which frames an unmap took from a guest and  *)
(* nobody has declared zeroed since.                                       *)
(***************************************************************************)
EXTENDS Integers, FiniteSets

CONSTANTS
  Frames,     \* host page frame numbers
  MaxMaps,    \* bound: mapping ids a run explores
  Ranges,     \* host ranges callers pass, records [start, len]
  GuestFrames, \* guest page frames that are mapped from and accessed
  NoRange     \* reserved_host = None

ASSUME MemoryAssumption ==
  /\ Frames \subseteq Nat /\ GuestFrames \subseteq Nat
  /\ MaxMaps \in Nat
  /\ \A r \in Ranges : /\ r.start \in Nat /\ r.len \in Nat \ {0}
                       /\ r.start .. r.start + r.len - 1 \subseteq Frames
  /\ NoRange \notin Ranges

VARIABLES
  frames,    \* PageZeroizer.frames: frame -> PageState
  mappings,  \* the live mappings (InMemoryNpt.mappings and .records): id -> mapping
  nextId,    \* InMemoryNpt.next_id
  reserved,  \* reserved_host
  freed      \* history: frames taken from a guest and not marked zeroed since

vars == <<frames, mappings, nextId, reserved, freed>>

PageStates == {"Untracked", "Zeroed", "Assigned", "Poisoned"}

\* The permissions the crate names, and the one W^X forbids.
RO == {"r"}   RW == {"r", "w"}   RX == {"r", "x"}   RWX == {"r", "w", "x"}
Perms == {RO, RW, RX, RWX}

FrameRange(r) == r.start .. r.start + r.len - 1

\* Faulty variant: only the first range's start is looked at.
StartsInside(a, b) == b.start <= a.start /\ a.start < b.start + b.len

\* HostPhysRange::overlaps on half-open intervals.
Overlaps(a, b) == a.start < b.start + b.len /\ b.start < a.start + a.len

\* InMemoryNpt::translate: a mapping covers a guest frame and leads it to a
\* frame of its host range.
Covers(m, g) == m.gpa <= g /\ g < m.gpa + m.hpa.len
FrameFor(m, g) == m.hpa.start + (g - m.gpa)

\* Faulty variant: the newest mapping answers.
ServedByLatest(g, i) ==
  /\ i \in DOMAIN mappings /\ Covers(mappings[i], g)
  /\ \A j \in DOMAIN mappings : Covers(mappings[j], g) => j <= i

\* Mappings may cover the same guest frame; the table is searched in the order
\* of the ids and the first that covers it answers.
ServedBy(g, i) ==
  /\ i \in DOMAIN mappings /\ Covers(mappings[i], g)
  /\ \A j \in DOMAIN mappings : Covers(mappings[j], g) => i <= j

LiveFrames == UNION {FrameRange(mappings[i].hpa) : i \in DOMAIN mappings}

Init ==
  /\ frames = [f \in Frames |-> "Untracked"]
  /\ mappings = [i \in {} |-> {}]
  /\ nextId = 0
  /\ reserved \in Ranges \cup {NoRange}
  /\ freed = {}

-----------------------------------------------------------------------------
SetFrames(old, fs, s) == [f \in Frames |-> IF f \in fs THEN s ELSE old[f]]

\* NestedPageTable::enforce.
Enforce(r, perms) ==
  /\ ~({"w", "x"} \subseteq perms)
  /\ reserved # NoRange => ~Overlaps(r, reserved)

\* Npt::map on the table after the frames are assigned.
Install(g, r, perms) ==
  /\ mappings' = [i \in DOMAIN mappings \cup {nextId} |->
                    IF i = nextId THEN [gpa |-> g, hpa |-> r, perms |-> perms]
                                  ELSE mappings[i]]
  /\ nextId' = nextId + 1

\* Faulty variant: only the first frame of the range is looked at.
FirstAssignable(r) == frames[r.start] = "Zeroed"

\* PageZeroizer::assign refuses a range with a frame that is not Zeroed.
Assignable(r) == \A f \in FrameRange(r) : frames[f] = "Zeroed"

\* Faulty variant: unmap returns frames as if they held zeroes.
FreedZeroed == "Zeroed"

\* The state PageZeroizer::poison leaves a frame in.
Freed == "Poisoned"

\* PageZeroizer::mark_zeroed, whatever state the frames are in.
MarkZeroed(r) ==
  /\ frames' = SetFrames(frames, FrameRange(r), "Zeroed")
  /\ freed' = freed \ FrameRange(r)
  /\ UNCHANGED <<mappings, nextId, reserved>>

\* NestedPageTable::map: enforce, assign (all frames zeroed), install, record.
Map(g, r, perms) ==
  /\ nextId < MaxMaps
  /\ Enforce(r, perms)
  /\ Assignable(r)
  /\ frames' = SetFrames(frames, FrameRange(r), "Assigned")
  /\ Install(g, r, perms)
  /\ UNCHANGED <<reserved, freed>>

\* NestedPageTable::allocate: marks the range zeroed first, so assign cannot refuse.
Allocate(g, r, perms) ==
  /\ nextId < MaxMaps
  /\ Enforce(r, perms)
  /\ frames' = SetFrames(frames, FrameRange(r), "Assigned")
  /\ freed' = freed \ FrameRange(r)
  /\ Install(g, r, perms)
  /\ UNCHANGED reserved

\* NestedPageTable::unmap: the frames of the mapping are poisoned.
Unmap(id) ==
  /\ id \in DOMAIN mappings
  /\ frames' = SetFrames(frames, FrameRange(mappings[id].hpa), Freed)
  /\ mappings' = [i \in DOMAIN mappings \ {id} |-> mappings[i]]
  /\ freed' = freed \cup FrameRange(mappings[id].hpa)
  /\ UNCHANGED <<nextId, reserved>>

\* set_reserved_host_range configures or replaces the range.
SetReserved(r) ==
  /\ reserved' = r
  /\ UNCHANGED <<frames, mappings, nextId, freed>>

-----------------------------------------------------------------------------
MapStep ==
  \E g \in GuestFrames, r \in Ranges, p \in Perms :
    Map(g, r, p) \/ Allocate(g, r, p)
UnmapStep == \E id \in 0 .. MaxMaps : Unmap(id)
ZeroStep == \E r \in Ranges : MarkZeroed(r)
ReserveStep == \E r \in Ranges : SetReserved(r)

\* Any caller of the table, in any order.
Next == MapStep \/ UnmapStep \/ ZeroStep \/ ReserveStep

Spec == Init /\ [][Next]_vars

\* No live mapping covers a frame of r.
Free(r) == FrameRange(r) \cap LiveFrames = {}

\* A caller that replaces the reserved range only by one in which nothing is
\* mapped; set_reserved_host_range itself does not look.
ReserveContract == reserved' # reserved => Free(reserved')

ReserveSpec == Init /\ [][Next /\ ReserveContract]_vars

\* ... that also declares zeroed and allocates only free ranges, which the table
\* does not check either.  SlateRuntime is such a caller: it makes one allocation
\* per table and marks its range zeroed after the unmap.
ContractNext ==
  \/ \E g \in GuestFrames, r \in Ranges, p \in Perms :
       Map(g, r, p) \/ (Free(r) /\ Allocate(g, r, p))
  \/ \E r \in {q \in Ranges : Free(q)} : MarkZeroed(r) \/ SetReserved(r)
  \/ UnmapStep

ContractSpec == Init /\ [][ContractNext]_vars

-----------------------------------------------------------------------------
TypeOK ==
  /\ frames \in [Frames -> PageStates]
  /\ DOMAIN mappings \subseteq Nat
  /\ \A i \in DOMAIN mappings :
       /\ mappings[i].gpa \in GuestFrames
       /\ mappings[i].hpa \in Ranges
       /\ mappings[i].perms \in Perms
       /\ i < nextId
  /\ nextId \in Nat
  /\ reserved \in Ranges \cup {NoRange}
  /\ freed \subseteq Frames

\* maps_host_hypervisor_text.
MapsHostHypervisorText ==
  reserved # NoRange /\ \E i \in DOMAIN mappings : Overlaps(mappings[i].hpa, reserved)

\* S2: no mapping is writable and executable (has_writable_executable_pages), and
\* none covers a frame of the range reserved for the hypervisor.
NoForbiddenMapping ==
  \A i \in DOMAIN mappings :
    /\ ~({"w", "x"} \subseteq mappings[i].perms)
    /\ reserved # NoRange =>
         FrameRange(mappings[i].hpa) \cap FrameRange(reserved) = {}

\* What the doc of maps_host_hypervisor_text says of it: "Because `map` rejects such
\* mappings, this returns `false` for valid tables", those of ReserveSpec.
HostTextUnmapped == ~MapsHostHypervisorText

\* The doc of PageState: a poisoned frame is "freed" and "must be re-zeroed before
\* reuse".  A frame that one mapping gave back is under no mapping, old or new,
\* until it is declared zeroed again.
FreedFramesUnreachable == freed \cap LiveFrames = {}

\* A frame under a live mapping is in the state Assigned, "currently assigned
\* to a guest"; a frame in that state is under a live mapping.
AssignedIffMapped ==
  \A f \in Frames : frames[f] = "Assigned" <=> f \in LiveFrames

\* Two live mappings never share a host frame.
ExclusiveFrames ==
  \A i, j \in DOMAIN mappings : i # j =>
    FrameRange(mappings[i].hpa) \cap FrameRange(mappings[j].hpa) = {}

\* Every frame has at most one owner, and its state says whether it has one.
FramesHaveOneOwner == AssignedIffMapped /\ ExclusiveFrames

\* What a guest frame translates to stays until the mapping that answers for it
\* is removed: later mappings of the same guest frame, which the table accepts,
\* are shadowed, and ids are not used twice.
TranslationKept ==
  [][\A g \in GuestFrames, i \in DOMAIN mappings \cap DOMAIN mappings' :
       ServedBy(g, i) =>
         /\ ServedBy(g, i)'
         /\ FrameFor(mappings'[i], g) = FrameFor(mappings[i], g)]_vars

=============================================================================
