-------------------------- MODULE GuestMemoryProofs --------------------------
(***************************************************************************)
(* Theorems about GuestMemory.  NoForbiddenMapping holds for any caller    *)
(* that reserves only unmapped ranges, who owns a frame is certain for     *)
(* callers that keep the whole contract.  The parts of that invariant need *)
(* each other: a frame that is Zeroed is not mapped (AssignedIffMapped),   *)
(* so a new mapping shares no frame (ExclusiveFrames), so unmapping frees  *)
(* no frame that another mapping covers (AssignedIffMapped again).  A      *)
(* freed frame stays Poisoned (FreedArePoisoned), so nothing maps it.      *)
(***************************************************************************)
EXTENDS GuestMemory, TLAPS

\* A range that callers pass lies within the frames.
LEMMA RangeInFrames ==
  ASSUME NEW r \in Ranges
  PROVE  FrameRange(r) \subseteq Frames
BY MemoryAssumption DEF FrameRange

\* Ranges that do not overlap have no frame in common.
LEMMA DisjointRanges ==
  ASSUME NEW r \in Ranges, NEW q \in Ranges, ~Overlaps(r, q)
  PROVE  FrameRange(r) \cap FrameRange(q) = {}
<1>1. r.start \in Nat /\ r.len \in Nat /\ q.start \in Nat /\ q.len \in Nat
  BY MemoryAssumption
<1> QED
  BY <1>1 DEF Overlaps, FrameRange

\* ... and ranges that overlap have the later of their starts in common.
LEMMA OverlapIsShared ==
  ASSUME NEW r \in Ranges, NEW q \in Ranges, Overlaps(r, q)
  PROVE  FrameRange(r) \cap FrameRange(q) # {}
<1>1. r.start \in Nat /\ r.len \in Nat \ {0} /\ q.start \in Nat /\ q.len \in Nat \ {0}
  BY MemoryAssumption
<1>2. CASE r.start <= q.start
  <2>1. q.start \in FrameRange(r) /\ q.start \in FrameRange(q)
    BY <1>1, <1>2 DEF Overlaps, FrameRange
  <2> QED
    BY <2>1
<1>3. CASE q.start <= r.start
  <2>1. r.start \in FrameRange(r) /\ r.start \in FrameRange(q)
    BY <1>1, <1>3 DEF Overlaps, FrameRange
  <2> QED
    BY <2>1
<1> QED
  BY <1>1, <1>2, <1>3

\* The old mappings are as they were and the new one has a fresh id.
Adds(g, r, p) ==
  /\ nextId \notin DOMAIN mappings
  /\ nextId' = nextId + 1
  /\ DOMAIN mappings' = DOMAIN mappings \cup {nextId}
  /\ mappings'[nextId].gpa = g /\ mappings'[nextId].hpa = r
  /\ mappings'[nextId].perms = p
  /\ \A i \in DOMAIN mappings : mappings'[i] = mappings[i]

\* What Install leaves.
LEMMA InstallAdds ==
  ASSUME TypeOK, NEW g \in GuestFrames, NEW r \in Ranges, NEW p \in Perms,
               Install(g, r, p)
  PROVE  Adds(g, r, p)
<1>1. nextId \notin DOMAIN mappings
  BY DEF TypeOK
<1> QED
  BY <1>1 DEF Install, Adds

\* What Unmap leaves: the other mappings, unchanged.
LEMMA UnmapRemoves ==
  ASSUME NEW id, Unmap(id)
  PROVE  /\ DOMAIN mappings' = DOMAIN mappings \ {id}
         /\ \A i \in DOMAIN mappings \ {id} : mappings'[i] = mappings[i]
BY DEF Unmap

\* A frame is live when some mapping covers it.
LEMMA LiveIffCovered ==
  ASSUME NEW f
  PROVE  f \in LiveFrames <=>
           \E i \in DOMAIN mappings : f \in FrameRange(mappings[i].hpa)
BY DEF LiveFrames

-----------------------------------------------------------------------------
\* The variables keep their types: ids stay below next_id, and the tables of
\* frames cover every frame, whatever a caller does.
THEOREM TypeCorrect == Spec => []TypeOK
<1>1. Init => TypeOK
  BY DEF Init, TypeOK, PageStates
<1>2. TypeOK /\ [Next]_vars => TypeOK'
  <2> SUFFICES ASSUME TypeOK, [Next]_vars
               PROVE  TypeOK'
    OBVIOUS
  <2>1. ASSUME NEW g \in GuestFrames, NEW r \in Ranges, NEW p \in Perms,
               Map(g, r, p)
        PROVE  TypeOK'
    <3>1. Install(g, r, p)
      BY <2>1 DEF Map
    <3>0. Adds(g, r, p)
      BY <3>1, InstallAdds
    <3>2. /\ DOMAIN mappings' \subseteq Nat /\ nextId' \in Nat
          /\ \A i \in DOMAIN mappings' :
               /\ mappings'[i].gpa \in GuestFrames /\ mappings'[i].hpa \in Ranges
               /\ mappings'[i].perms \in Perms /\ i < nextId'
      BY <3>0 DEF Adds, TypeOK
    <3> QED
      BY <2>1, <3>2 DEF Map, SetFrames, PageStates, TypeOK
  <2>2. ASSUME NEW g \in GuestFrames, NEW r \in Ranges, NEW p \in Perms,
               Allocate(g, r, p)
        PROVE  TypeOK'
    <3>1. Install(g, r, p)
      BY <2>2 DEF Allocate
    <3>0. Adds(g, r, p)
      BY <3>1, InstallAdds
    <3>2. /\ DOMAIN mappings' \subseteq Nat /\ nextId' \in Nat
          /\ \A i \in DOMAIN mappings' :
               /\ mappings'[i].gpa \in GuestFrames /\ mappings'[i].hpa \in Ranges
               /\ mappings'[i].perms \in Perms /\ i < nextId'
      BY <3>0 DEF Adds, TypeOK
    <3> QED
      BY <2>2, <3>2 DEF Allocate, SetFrames, PageStates, TypeOK
  <2>3. ASSUME NEW id, Unmap(id)
        PROVE  TypeOK'
    <3>1. FrameRange(mappings[id].hpa) \subseteq Frames
      BY <2>3, RangeInFrames DEF Unmap, TypeOK
    <3> QED
      BY <2>3, <3>1, UnmapRemoves DEF Unmap, Freed, SetFrames, PageStates, TypeOK
  <2>4. ASSUME NEW r \in Ranges, MarkZeroed(r)
        PROVE  TypeOK'
    BY <2>4 DEF MarkZeroed, SetFrames, PageStates, TypeOK
  <2>5. ASSUME NEW r \in Ranges, SetReserved(r)
        PROVE  TypeOK'
    BY <2>5 DEF SetReserved, TypeOK
  <2>7. CASE UNCHANGED vars
    BY <2>7 DEF vars, TypeOK
  <2> QED
    BY <2>1, <2>2, <2>3, <2>4, <2>5, <2>7
    DEF Next, MapStep, UnmapStep, ZeroStep, ReserveStep
<1> QED
  BY <1>1, <1>2, PTL DEF Spec

\* A caller that looks before it reserves a range is a caller.
LEMMA ReserveIsSpec == ReserveSpec => Spec
BY PTL DEF ReserveSpec, Spec

\* S2 for any caller that reserves only ranges in which nothing is mapped: no live
\* mapping is writable and executable or lies over the reserved range.
THEOREM NoMappingIsForbidden == ReserveSpec => []NoForbiddenMapping
<1>1. Init => NoForbiddenMapping
  BY DEF Init, NoForbiddenMapping
<1>2. TypeOK /\ NoForbiddenMapping /\ [Next /\ ReserveContract]_vars
        => NoForbiddenMapping'
  <2> SUFFICES ASSUME TypeOK, NoForbiddenMapping, [Next /\ ReserveContract]_vars
               PROVE  NoForbiddenMapping'
    OBVIOUS
  <2>1. ASSUME NEW g \in GuestFrames, NEW r \in Ranges, NEW p \in Perms,
               Enforce(r, p), Install(g, r, p),
               UNCHANGED reserved
        PROVE  NoForbiddenMapping'
    <3>1. /\ ~({"w", "x"} \subseteq p)
          /\ reserved # NoRange => FrameRange(r) \cap FrameRange(reserved) = {}
      BY <2>1, DisjointRanges DEF Enforce, TypeOK
    <3>0. Adds(g, r, p)
      BY <2>1, InstallAdds
    <3>2. ASSUME NEW i \in DOMAIN mappings'
          PROVE  \/ i \in DOMAIN mappings /\ mappings'[i] = mappings[i]
                 \/ mappings'[i].hpa = r /\ mappings'[i].perms = p
      BY <3>0 DEF Adds
    <3> QED
      BY <2>1, <3>1, <3>2 DEF NoForbiddenMapping
  <2>2. ASSUME NEW g \in GuestFrames, NEW r \in Ranges, NEW p \in Perms,
               Map(g, r, p) \/ Allocate(g, r, p)
        PROVE  NoForbiddenMapping'
    BY <2>1, <2>2 DEF Map, Allocate
  <2>3. ASSUME NEW id, Unmap(id)
        PROVE  NoForbiddenMapping'
    BY <2>3, UnmapRemoves DEF Unmap, NoForbiddenMapping
  <2>4. ASSUME NEW r \in Ranges, MarkZeroed(r)
        PROVE  NoForbiddenMapping'
    BY <2>4 DEF MarkZeroed, NoForbiddenMapping
  <2>5. ASSUME NEW r \in Ranges, SetReserved(r), ReserveContract
        PROVE  NoForbiddenMapping'
    <3>1. CASE reserved' = reserved
      BY <2>5, <3>1 DEF SetReserved, NoForbiddenMapping
    <3>2. CASE reserved' # reserved
      <4>1. Free(r) /\ mappings' = mappings /\ reserved' = r
        BY <2>5, <3>2 DEF SetReserved, ReserveContract
      <4> QED
        BY <4>1 DEF Free, LiveFrames, NoForbiddenMapping
    <3> QED
      BY <3>1, <3>2
  <2>7. CASE UNCHANGED vars
    BY <2>7 DEF vars, NoForbiddenMapping
  <2> QED
    BY <2>2, <2>3, <2>4, <2>5, <2>7
    DEF Next, MapStep, UnmapStep, ZeroStep, ReserveStep
<1> QED
  BY <1>1, <1>2, TypeCorrect, ReserveIsSpec, PTL DEF ReserveSpec

\* maps_host_hypervisor_text returns false for every table of such a caller.
THEOREM HostTextStaysUnmapped == ReserveSpec => []HostTextUnmapped
<1>1. TypeOK /\ NoForbiddenMapping => HostTextUnmapped
  BY OverlapIsShared
  DEF TypeOK, NoForbiddenMapping, HostTextUnmapped, MapsHostHypervisorText
<1> QED
  BY <1>1, TypeCorrect, ReserveIsSpec, NoMappingIsForbidden, PTL

-----------------------------------------------------------------------------
\* A caller that keeps the contract is a caller.
LEMMA ContractIsSpec == ContractSpec => Spec
<1>1. ContractNext => Next
  BY DEF ContractNext, Next, MapStep, ZeroStep, ReserveStep
<1> QED
  BY <1>1, PTL DEF ContractSpec, Spec

\* A frame taken from a guest stays poisoned until it is declared zeroed.
FreedArePoisoned == \A f \in freed : frames[f] = "Poisoned"

\* The inductive invariant of the contract.
ContractInv == AssignedIffMapped /\ ExclusiveFrames /\ FreedArePoisoned

\* A mapping is installed over frames no other mapping covers and none of which is
\* freed; they become Assigned.
LEMMA InstallKeepsContract ==
  ASSUME TypeOK, ContractInv, NEW g \in GuestFrames,
         NEW r \in Ranges, NEW p \in Perms, Free(r), Install(g, r, p),
         frames' = SetFrames(frames, FrameRange(r), "Assigned"),
         freed' \subseteq freed \ FrameRange(r)
  PROVE  ContractInv'
<1>0. Adds(g, r, p)
  BY InstallAdds
<1>1. ASSUME NEW f
      PROVE  f \in LiveFrames' <=> f \in LiveFrames \/ f \in FrameRange(r)
  <2>1. f \in LiveFrames' <=>
          \E i \in DOMAIN mappings' : f \in FrameRange(mappings'[i].hpa)
    BY DEF LiveFrames
  <2> QED
    BY <2>1, <1>0, LiveIffCovered DEF Adds
<1>2. AssignedIffMapped'
  BY <1>1 DEF ContractInv, AssignedIffMapped, SetFrames
<1>3. ExclusiveFrames'
  <2>1. ASSUME NEW i \in DOMAIN mappings
        PROVE  FrameRange(mappings[i].hpa) \cap FrameRange(r) = {}
    BY LiveIffCovered DEF Free
  <2> QED
    BY <2>1, <1>0 DEF Adds, ContractInv, ExclusiveFrames
<1>4. FreedArePoisoned'
  BY DEF TypeOK, ContractInv, FreedArePoisoned, SetFrames
<1> QED
  BY <1>2, <1>3, <1>4 DEF ContractInv

\* Zeroed frames are under no mapping and not freed: what Map accepts is free.
LEMMA AssignableIsFree ==
  ASSUME ContractInv, NEW r \in Ranges, Assignable(r)
  PROVE  Free(r) /\ freed \cap FrameRange(r) = {}
BY RangeInFrames
DEF ContractInv, AssignedIffMapped, FreedArePoisoned, Assignable, Free

\* Only the mapping that goes covers the frames that Unmap poisons.
LEMMA UnmapKeepsContract ==
  ASSUME TypeOK, ContractInv, NEW id, Unmap(id)
  PROVE  ContractInv'
<1> DEFINE gone == FrameRange(mappings[id].hpa)
<1>1. ASSUME NEW f
      PROVE  f \in LiveFrames' <=> f \in LiveFrames /\ f \notin gone
  <2>1. f \in LiveFrames' <=>
          \E i \in DOMAIN mappings' : f \in FrameRange(mappings'[i].hpa)
    BY DEF LiveFrames
  <2>2. ASSUME NEW i \in DOMAIN mappings, i # id
        PROVE  FrameRange(mappings[i].hpa) \cap gone = {}
    <3>1. id \in DOMAIN mappings
      BY DEF Unmap
    <3> QED
      BY <2>2, <3>1 DEF ContractInv, ExclusiveFrames
  <2> QED
    BY <2>1, <2>2, UnmapRemoves, LiveIffCovered
<1>2. frames' = SetFrames(frames, gone, "Poisoned") /\ freed' = freed \cup gone
  BY DEF Unmap, Freed
<1>3. AssignedIffMapped'
  BY <1>1, <1>2 DEF ContractInv, AssignedIffMapped, SetFrames
<1>4. ExclusiveFrames'
  <2>1. /\ DOMAIN mappings' = DOMAIN mappings \ {id}
        /\ \A i \in DOMAIN mappings' : mappings'[i] = mappings[i]
    BY UnmapRemoves
  <2> QED
    BY <2>1 DEF ContractInv, ExclusiveFrames
<1>5. FreedArePoisoned'
  <2>1. gone \subseteq Frames
    BY RangeInFrames DEF Unmap, TypeOK
  <2> QED
    BY <1>2, <2>1 DEF TypeOK, ContractInv, FreedArePoisoned, SetFrames
<1> QED
  BY <1>3, <1>4, <1>5 DEF ContractInv

\* For callers that keep the contract, frame states, mappings and freed frames
\* always agree.
THEOREM ContractHolds == ContractSpec => []ContractInv
<1>1. Init => ContractInv
  BY DEF Init, ContractInv, AssignedIffMapped, LiveFrames, ExclusiveFrames,
         FreedArePoisoned
<1>2. TypeOK /\ ContractInv /\ [ContractNext]_vars => ContractInv'
  <2> SUFFICES ASSUME TypeOK, ContractInv, [ContractNext]_vars
               PROVE  ContractInv'
    OBVIOUS
  <2>1. ASSUME NEW g \in GuestFrames, NEW r \in Ranges, NEW p \in Perms,
               Map(g, r, p)
        PROVE  ContractInv'
    <3>1. Free(r) /\ freed' \subseteq freed \ FrameRange(r)
      BY <2>1, AssignableIsFree DEF Map
    <3> QED
      BY <2>1, <3>1, InstallKeepsContract DEF Map
  <2>2. ASSUME NEW g \in GuestFrames, NEW r \in Ranges, Free(r),
               NEW p \in Perms, Allocate(g, r, p)
        PROVE  ContractInv'
    BY <2>2, InstallKeepsContract DEF Allocate
  <2>3. ASSUME NEW id, Unmap(id)
        PROVE  ContractInv'
    BY <2>3, UnmapKeepsContract
  <2>4. ASSUME NEW r \in Ranges, Free(r), MarkZeroed(r)
        PROVE  ContractInv'
    <3>1. AssignedIffMapped'
      BY <2>4 DEF MarkZeroed, Free, LiveFrames, SetFrames, ContractInv,
                  AssignedIffMapped
    <3>2. ExclusiveFrames'
      BY <2>4 DEF MarkZeroed, ContractInv, ExclusiveFrames
    <3>3. FreedArePoisoned'
      BY <2>4 DEF MarkZeroed, SetFrames, TypeOK, ContractInv, FreedArePoisoned
    <3> QED
      BY <3>1, <3>2, <3>3 DEF ContractInv
  <2>5. ASSUME NEW r \in Ranges, SetReserved(r)
        PROVE  ContractInv'
    BY <2>5 DEF SetReserved, ContractInv, AssignedIffMapped, LiveFrames,
                ExclusiveFrames, FreedArePoisoned
  <2>7. CASE UNCHANGED vars
    BY <2>7 DEF vars, ContractInv, AssignedIffMapped, LiveFrames,
                ExclusiveFrames, FreedArePoisoned
  <2> QED
    BY <2>1, <2>2, <2>3, <2>4, <2>5, <2>7
    DEF ContractNext, UnmapStep
<1> QED
  BY <1>1, <1>2, TypeCorrect, ContractIsSpec, PTL DEF ContractSpec

\* No two live mappings share a frame, and the state of a frame says whether
\* one covers it.
THEOREM FramesAlwaysHaveOneOwner == ContractSpec => []FramesHaveOneOwner
BY ContractHolds, PTL DEF ContractInv, FramesHaveOneOwner

\* A frame that one mapping gave back is under no mapping until it is declared
\* zeroed again, for callers that keep the contract.
THEOREM FreedFramesStayUnreachable == ContractSpec => []FreedFramesUnreachable
<1>1. TypeOK /\ ContractInv => FreedFramesUnreachable
  BY DEF TypeOK, ContractInv, AssignedIffMapped, FreedArePoisoned,
         FreedFramesUnreachable
<1> QED
  BY <1>1, ContractHolds, TypeCorrect, ContractIsSpec, PTL

\* Only an unmap changes what a guest frame translates to, whatever a caller
\* maps over it.
THEOREM TranslationsAreKept == Spec => TranslationKept
<1>1. TypeOK /\ [Next]_vars =>
        [\A g \in GuestFrames, i \in DOMAIN mappings \cap DOMAIN mappings' :
           ServedBy(g, i) =>
             /\ ServedBy(g, i)'
             /\ FrameFor(mappings'[i], g) = FrameFor(mappings[i], g)]_vars
  <2> DEFINE Kept(g, i) ==
        ServedBy(g, i) =>
          /\ ServedBy(g, i)'
          /\ FrameFor(mappings'[i], g) = FrameFor(mappings[i], g)
  <2> SUFFICES ASSUME TypeOK, Next, NEW g \in GuestFrames,
                      NEW i \in DOMAIN mappings \cap DOMAIN mappings'
               PROVE  Kept(g, i)
    BY DEF vars
  <2>1. ASSUME NEW h \in GuestFrames, NEW r \in Ranges, NEW p \in Perms,
               Install(h, r, p)
        PROVE  Kept(g, i)
    <3>1. Adds(h, r, p)
      BY <2>1, InstallAdds
    <3>2. i <= nextId
      BY DEF TypeOK
    <3>3. \A j \in DOMAIN mappings' :
            j = nextId \/ (j \in DOMAIN mappings /\ mappings'[j] = mappings[j])
      BY <3>1 DEF Adds
    <3>4. mappings'[i] = mappings[i]
      BY <3>1 DEF Adds
    <3> QED
      BY <3>2, <3>3, <3>4 DEF ServedBy
  <2>2. ASSUME NEW h \in GuestFrames, NEW r \in Ranges, NEW p \in Perms,
               Map(h, r, p) \/ Allocate(h, r, p)
        PROVE  Kept(g, i)
    BY <2>1, <2>2 DEF Map, Allocate
  <2>3. ASSUME NEW id, Unmap(id)
        PROVE  Kept(g, i)
    BY <2>3, UnmapRemoves DEF ServedBy
  <2>4. CASE mappings' = mappings
    BY <2>4 DEF ServedBy
  <2> QED
    BY <2>2, <2>3, <2>4
    DEF Next, MapStep, UnmapStep, ZeroStep, ReserveStep, MarkZeroed, SetReserved
<1> QED
  BY <1>1, TypeCorrect, PTL DEF Spec, TranslationKept

=============================================================================
