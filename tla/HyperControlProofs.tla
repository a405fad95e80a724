------------------------- MODULE HyperControlProofs -------------------------
(***************************************************************************)
(* Proofs about the control plane, for every set of VM ids, capsules and   *)
(* snapshot names, every policy and every bound on the chain.              *)
(***************************************************************************)
EXTENDS HyperControl, TLAPS

\* Appending a receipt makes it the last one of its subject and leaves the
\* last receipts of all other VMs alone.
LEMMA LatestOfSubject ==
  ASSUME NEW l \in Seq(Audit!Receipt), NEW r \in Audit!Receipt
  PROVE  Audit!Latest(Append(l, r), r.subject, Audit!Verdict(r))
<1> DEFINE l2 == Append(l, r)
           n  == Len(l) + 1
<1>1. /\ n \in DOMAIN l2
      /\ DOMAIN l2 = 1 .. n
      /\ l2[n] = r
  OBVIOUS
<1>2. Audit!IsLastAt(l2, r.subject, n)
  BY <1>1 DEF Audit!IsLastAt
<1> QED
  BY <1>1, <1>2 DEF Audit!Latest

\* Appending a receipt about r.subject leaves the last receipt of every other VM
\* where it was.
LEMMA LatestOfOther ==
  ASSUME NEW l \in Seq(Audit!Receipt), NEW r \in Audit!Receipt,
         NEW v, v # r.subject, NEW q, Audit!Latest(l, v, q)
  PROVE  Audit!Latest(Append(l, r), v, q)
<1> DEFINE l2 == Append(l, r)
           n  == Len(l) + 1
<1>1. /\ Len(l) \in Nat
      /\ DOMAIN l = 1 .. Len(l)
      /\ DOMAIN l2 = 1 .. n
      /\ l2[n] = r
      /\ \A i \in 1 .. Len(l) : l2[i] = l[i]
  OBVIOUS
<1> HIDE DEF l2
<1>2. CASE q = Audit!NoVerdict /\ \A i \in DOMAIN l : l[i].subject # v
  <2>1. \A i \in DOMAIN l2 : l2[i].subject # v
    BY <1>1, <1>2
  <2> QED
    BY <2>1, <1>2 DEF Audit!Latest, l2
<1>3. ASSUME NEW i \in DOMAIN l, Audit!IsLastAt(l, v, i),
             q = Audit!Verdict(l[i])
      PROVE  Audit!Latest(Append(l, r), v, q)
  <2>1. Audit!IsLastAt(l2, v, i)
    BY <1>1, <1>3 DEF Audit!IsLastAt
  <2>2. i \in DOMAIN l2 /\ l2[i] = l[i]
    BY <1>1
  <2> QED
    BY <2>1, <2>2, <1>3 DEF Audit!Latest, l2
<1> QED
  BY <1>2, <1>3 DEF Audit!Latest, Audit!IsLastAt

-----------------------------------------------------------------------------
\* One receipt about v and a new stage of v that the receipt explains keep the
\* chain in step with the stages of all VMs.
LEMMA RecordedStep ==
  ASSUME TypeOK, ChainMatchesStages,
         NEW v \in VmIds, NEW e \in Audit!Events, NEW d \in Audit!Decisions,
         Append1(e, v, d),
         <<e, d>> \in PhaseVerdicts(vm'[v].phase),
         \A w \in VmIds \ {v} : vm'[w].phase = vm[w].phase
  PROVE  ChainMatchesStages'
<1> DEFINE r == Audit!Rcpt(e, v, d)
<1>1. /\ r \in Audit!Receipt
      /\ r.subject = v
      /\ Audit!Verdict(r) = <<e, d>>
  BY DEF Audit!Rcpt, Audit!Receipt, Audit!Verdict
<1>2. receipts \in Seq(Audit!Receipt) /\ receipts' = Append(receipts, r)
  BY DEF TypeOK, Append1
<1> HIDE DEF r
<1>3. ASSUME NEW w \in VmIds
      PROVE  \E q \in PhaseVerdicts(vm'[w].phase) : Audit!Latest(receipts', w, q)
  <2>1. CASE w = v
    BY <1>1, <1>2, <2>1, LatestOfSubject
  <2>2. CASE w # v
    <3>1. PICK q \in PhaseVerdicts(vm[w].phase) : Audit!Latest(receipts, w, q)
      BY DEF ChainMatchesStages
    <3>2. Audit!Latest(receipts', w, q)
      BY <1>1, <1>2, <2>2, <3>1, LatestOfOther
    <3> QED
      BY <2>2, <3>1, <3>2
  <2> QED
    BY <2>1, <2>2
<1> QED
  BY <1>3 DEF ChainMatchesStages

-----------------------------------------------------------------------------
(* Type correctness *)

Stage == [phase : Phases, capsule : Capsules \cup {NoCapsule},
          key : KeyStates, ram : RamStates]

\* Appending a well-formed receipt keeps the chain well typed and never
\* invalidates a snapshot token's position.
LEMMA AppendTyped ==
  ASSUME receipts \in Seq(Audit!Receipt),
         NEW v \in VmIds, NEW e \in Audit!Events, NEW d \in Audit!Decisions,
         Append1(e, v, d)
  PROVE  /\ receipts' \in Seq(Audit!Receipt)
         /\ Len(receipts) \in Nat
         /\ Len(receipts') = Len(receipts) + 1
         /\ \A i \in 1 .. Len(receipts) : receipts'[i] = receipts[i]
         /\ receipts'[Len(receipts) + 1] = Audit!Rcpt(e, v, d)
<1>1. Audit!Rcpt(e, v, d) \in Audit!Receipt
  BY DEF Audit!Rcpt, Audit!Receipt
<1> QED
  BY <1>1 DEF Append1

\* Dropping a stage yields a typed stage record.
LEMMA DroppedTyped ==
  ASSUME NEW s \in Stage, NEW p \in Phases
  PROVE  Dropped(s, p) \in Stage
BY DEF Dropped, Stage, KeyStates, RamStates

\* Snapshot tokens keep their type when the chain grows.
LEMMA TokensTyped ==
  ASSUME TypeOK, UNCHANGED snapshots,
         \/ UNCHANGED receipts
         \/ \E v \in VmIds, e \in Audit!Events, d \in Audit!Decisions :
              Append1(e, v, d)
  PROVE  /\ receipts' \in Seq(Audit!Receipt)
         /\ DOMAIN snapshots' \subseteq SnapNames
         /\ \A n \in DOMAIN snapshots' :
              /\ snapshots'[n].vm_id \in VmIds
              /\ snapshots'[n].receipt \in 1 .. Len(receipts')
<1>1. /\ receipts' \in Seq(Audit!Receipt)
      /\ Len(receipts) \in Nat
      /\ Len(receipts') \in {Len(receipts), Len(receipts) + 1}
  <2>1. CASE UNCHANGED receipts
    BY <2>1 DEF TypeOK
  <2>2. ASSUME NEW v \in VmIds, NEW e \in Audit!Events,
               NEW d \in Audit!Decisions, Append1(e, v, d)
        PROVE  <1>1
    BY <2>2, AppendTyped DEF TypeOK
  <2> QED
    BY <2>1, <2>2
<1> QED
  BY <1>1 DEF TypeOK

\* The part of TypeOK that a command changes.
StageTyped ==
  /\ registry \subseteq VmIds
  /\ vm \in [VmIds -> Stage]
  /\ command \in {NoCommand} \cup Commands

\* The failure path of a command (reject) keeps the registry, the stages and the
\* command typed.
LEMMA FailTyped ==
  ASSUME TypeOK, NEW v \in VmIds, Fail(v)
  PROVE  StageTyped'
<1>1. Dropped(vm[v], "Failed") \in Stage
  BY DroppedTyped DEF TypeOK, Stage, Phases
<1> QED
  BY <1>1 DEF Fail, Settle, TypeOK, Stage, StageTyped

\* Every reachable state of the control plane is typed.
THEOREM TypeCorrect == Spec => []TypeOK
<1>1. Init => TypeOK
  BY DEF Init, TypeOK, Undefined, Phases, KeyStates, RamStates
<1>2. TypeOK /\ [Next]_vars => TypeOK'
  <2> SUFFICES ASSUME TypeOK, [Next]_vars
               PROVE  TypeOK'
    OBVIOUS
  <2> USE DEF Audit!Events, Audit!Decisions
  <2>T. ASSUME StageTyped', UNCHANGED snapshots,
               \/ UNCHANGED receipts
               \/ \E v \in VmIds, e \in Audit!Events, d \in Audit!Decisions :
                    Append1(e, v, d)
        PROVE  TypeOK'
    BY <2>T, TokensTyped DEF TypeOK, StageTyped, Stage
  <2>1. ASSUME NEW c \in Capsules, VmDefine(c)
        PROVE  TypeOK'
    <3>1. c.vm_id \in VmIds
      BY ControlAssumption
    <3>2. StageTyped'
      BY <2>1, <3>1 DEF VmDefine, Admitted, TypeOK, StageTyped, Stage,
                        Undefined, Phases, KeyStates, RamStates
    <3> QED
      BY <2>1, <3>1, <3>2, <2>T DEF VmDefine
  <2>2. ASSUME NEW v \in VmIds, VmVerifyPolicyDenied(v)
        PROVE  TypeOK'
    BY <2>2, <2>T, FailTyped DEF VmVerifyPolicyDenied
  <2>3. ASSUME NEW v \in VmIds, VmVerifyGateRefused(v)
        PROVE  TypeOK'
    BY <2>3, <2>T, FailTyped DEF VmVerifyGateRefused
  <2>4. ASSUME NEW v \in VmIds,
               \/ VmVerifyApproved(v) \/ Run(v) \/ VmPause(v)
               \/ VmStop(v) \/ VmDestroy(v)
        PROVE  TypeOK'
    <3>1. StageTyped'
      BY <2>4 DEF VmVerifyApproved, Run, VmPause, Pausable, VmStop, Stoppable,
                  VmDestroy, Destroyable, Settle, TypeOK, StageTyped, Stage,
                  Phases, KeyStates, RamStates
    <3> QED
      BY <2>4, <3>1, <2>T
      DEF VmVerifyApproved, Run, VmPause, Pausable, VmStop, Stoppable, VmDestroy, Destroyable
  <2>5. ASSUME NEW v \in VmIds, VmLaunch(v)
        PROVE  TypeOK'
    BY <2>5, <2>T DEF VmLaunch, TypeOK, StageTyped, Stage, Commands
  <2>6. ASSUME NEW v \in VmIds, Prepare(v) \/ Unlock(v) \/ Attach(v)
        PROVE  TypeOK'
    <3>1. CASE Fail(v)
      BY <2>6, <3>1, <2>T, FailTyped DEF Prepare, Unlock, KeyReceipt, Attach
    <3>2. CASE ~Fail(v)
      <4>1. StageTyped'
        BY <2>6, <3>2 DEF Prepare, Unlock, KeyReceipt, Attach, TypeOK,
           StageTyped, Stage,
                          Phases, KeyStates, RamStates
      <4> QED
        BY <2>6, <3>2, <4>1, <2>T DEF Prepare, Unlock, KeyReceipt, Attach
    <3> QED
      BY <3>1, <3>2
  <2>7. ASSUME NEW v \in VmIds, NEW n \in SnapNames, VmSnapshot(v, n)
        PROVE  TypeOK'
    BY <2>7, <2>T DEF VmSnapshot, TypeOK, StageTyped, Stage, Commands
  <2>8. ASSUME NEW v \in VmIds, NEW n \in SnapNames, PauseForSnapshot(v, n)
        PROVE  TypeOK'
    <3>1. StageTyped'
      BY <2>8 DEF PauseForSnapshot, TypeOK, StageTyped, Stage, Phases
    <3> QED
      BY <2>8, <3>1, <2>T DEF PauseForSnapshot
  <2>9. ASSUME NEW v \in VmIds, NEW n \in SnapNames, Snapshot(v, n)
        PROVE  TypeOK'
    <3>1. Dropped(vm[v], "Snapshotted") \in Stage
      BY DroppedTyped DEF TypeOK, Stage, Phases
    <3>2. StageTyped'
      BY <2>9, <3>1 DEF Snapshot, TokenPosition, Settle, TypeOK, StageTyped, Stage
    <3>3. Append1("snapshot", v, "allow")
      BY <2>9 DEF Snapshot, TokenPosition
    <3>4. /\ receipts' \in Seq(Audit!Receipt)
          /\ Len(receipts) \in Nat
          /\ Len(receipts') = Len(receipts) + 1
      BY <3>3, AppendTyped DEF TypeOK
    <3>5. DOMAIN snapshots' = DOMAIN snapshots \cup {n}
      BY <2>9 DEF Snapshot, TokenPosition
    <3>6. \A m \in DOMAIN snapshots' :
            /\ snapshots'[m].vm_id \in VmIds
            /\ snapshots'[m].receipt \in 1 .. Len(receipts')
      <4> TAKE m \in DOMAIN snapshots'
      <4>1. CASE m = n
        <5>1. snapshots'[m] = [vm_id |-> v, receipt |-> Len(receipts) + 1]
          BY <2>9, <4>1 DEF Snapshot, TokenPosition
        <5> QED
          BY <5>1, <3>4
      <4>2. CASE m # n
        <5>1. m \in DOMAIN snapshots /\ snapshots'[m] = snapshots[m]
          BY <2>9, <4>2, <3>5 DEF Snapshot, TokenPosition
        <5> QED
          BY <5>1, <3>4 DEF TypeOK
      <4> QED
        BY <4>1, <4>2
    <3> QED
      BY <3>2, <3>4, <3>5, <3>6 DEF TypeOK, StageTyped, Stage
  <2>10. CASE UNCHANGED vars
    BY <2>10 DEF vars, TypeOK
  <2> QED
    BY <2>1, <2>2, <2>3, <2>4, <2>5, <2>6, <2>7, <2>8, <2>9, <2>10
    DEF Next, Command, RuntimeStep
<1> QED
  BY <1>1, <1>2, PTL DEF Spec

-----------------------------------------------------------------------------
(* The chain and the stages *)

\* A step that appends nothing keeps the chain in step when every VM whose
\* phase changes fails out of a phase whose receipt a failure may end in.
LEMMA SilentStep ==
  ASSUME ChainMatchesStages, UNCHANGED receipts,
         NEW v \in VmIds,
         PhaseVerdicts(vm[v].phase) \subseteq PhaseVerdicts(vm'[v].phase),
         \A w \in VmIds \ {v} : vm'[w].phase = vm[w].phase
  PROVE  ChainMatchesStages'
<1>1. ASSUME NEW w \in VmIds
      PROVE  \E q \in PhaseVerdicts(vm'[w].phase) : Audit!Latest(receipts', w, q)
  <2>1. PICK q \in PhaseVerdicts(vm[w].phase) : Audit!Latest(receipts, w, q)
    BY DEF ChainMatchesStages
  <2>2. q \in PhaseVerdicts(vm'[w].phase)
    BY <2>1
  <2> QED
    BY <2>1, <2>2
<1> QED
  BY <1>1 DEF ChainMatchesStages

\* What a failure does to the phases.
LEMMA FailPhases ==
  ASSUME TypeOK, NEW v \in VmIds, Fail(v)
  PROVE  /\ vm'[v].phase = "Failed"
         /\ \A w \in VmIds \ {v} : vm'[w] = vm[w]
BY DEF Fail, Settle, Dropped, TypeOK

\* The verdict pairs of the receipts the actions append.
EventsKnown == /\ Audit!Events = {"vm_define", "manifest_verify", "vm_prepare",
                                  "key_release", "device_assign", "vm_launch",
                                  "vm_pause", "snapshot", "vm_stop", "destroy"}
               /\ Audit!Decisions = {"allow", "deny"}

\* Every step of the control plane keeps the chain in step with the stages.
LEMMA ChainStep == TypeOK /\ ChainMatchesStages /\ [Next]_vars => ChainMatchesStages'
<1> SUFFICES ASSUME TypeOK, ChainMatchesStages, [Next]_vars
             PROVE  ChainMatchesStages'
  OBVIOUS
<1> EventsKnown
  BY DEF EventsKnown, Audit!Events, Audit!Decisions
<1>1. ASSUME NEW c \in Capsules, VmDefine(c)
      PROVE  ChainMatchesStages'
  <2>1. c.vm_id \in VmIds
    BY ControlAssumption
  <2>2. /\ Append1("vm_define", c.vm_id, "allow")
        /\ vm'[c.vm_id].phase = "Defined"
        /\ \A w \in VmIds \ {c.vm_id} : vm'[w] = vm[w]
    BY <1>1, <2>1 DEF VmDefine, Admitted, TypeOK, Undefined
  <2> QED
    BY <2>1, <2>2, RecordedStep DEF PhaseVerdicts, EventsKnown
<1>2. ASSUME NEW v \in VmIds, VmVerifyPolicyDenied(v)
      PROVE  ChainMatchesStages'
  BY <1>2, FailPhases, RecordedStep
  DEF VmVerifyPolicyDenied, PhaseVerdicts, EventsKnown
<1>3. ASSUME NEW v \in VmIds, VmVerifyGateRefused(v)
      PROVE  ChainMatchesStages'
  <2>1. vm[v].phase = "Defined" /\ vm'[v].phase = "Failed"
    BY <1>3, FailPhases DEF VmVerifyGateRefused, Ready
  <2> QED
    BY <1>3, <2>1, FailPhases, SilentStep
    DEF VmVerifyGateRefused, PhaseVerdicts
<1>4. ASSUME NEW v \in VmIds, VmVerifyApproved(v)
      PROVE  ChainMatchesStages'
  <2>1. /\ vm'[v].phase = "Verified"
        /\ \A w \in VmIds \ {v} : vm'[w] = vm[w]
    BY <1>4 DEF VmVerifyApproved, TypeOK
  <2> QED
    BY <1>4, <2>1, RecordedStep
    DEF VmVerifyApproved, PhaseVerdicts, EventsKnown
<1>5. ASSUME NEW v \in VmIds, VmLaunch(v)
      PROVE  ChainMatchesStages'
  BY <1>5, SilentStep DEF VmLaunch
<1>6. ASSUME NEW v \in VmIds, Prepare(v)
      PROVE  ChainMatchesStages'
  <2>1. CASE MemoryFits(vm[v].capsule)
    <3>1. /\ Append1("vm_prepare", v, "allow")
          /\ vm'[v].phase = "Prepared"
          /\ \A w \in VmIds \ {v} : vm'[w] = vm[w]
      BY <1>6, <2>1 DEF Prepare, TypeOK
    <3> QED
      BY <3>1, RecordedStep DEF PhaseVerdicts, EventsKnown
  <2>2. CASE ~MemoryFits(vm[v].capsule)
    <3>1. UNCHANGED receipts /\ Fail(v) /\ vm[v].phase = "Verified"
      BY <1>6, <2>2 DEF Prepare, Launching
    <3>2. /\ vm'[v].phase = "Failed"
          /\ \A w \in VmIds \ {v} : vm'[w] = vm[w]
      BY <3>1, FailPhases
    <3> QED
      BY <3>1, <3>2, SilentStep DEF PhaseVerdicts
  <2> QED
    BY <2>1, <2>2
<1>7. ASSUME NEW v \in VmIds, Unlock(v)
      PROVE  ChainMatchesStages'
  <2>1. CASE KmsGrants(vm[v].capsule)
    <3>1. /\ Append1("key_release", v, "allow")
          /\ vm'[v].phase = "Unlocked"
          /\ \A w \in VmIds \ {v} : vm'[w] = vm[w]
      BY <1>7, <2>1 DEF Unlock, KeyReceipt, TypeOK
    <3> QED
      BY <3>1, RecordedStep DEF PhaseVerdicts, EventsKnown
  <2>2. CASE ~KmsGrants(vm[v].capsule)
    BY <1>7, <2>2, FailPhases, RecordedStep
    DEF Unlock, KeyReceipt, PhaseVerdicts, EventsKnown
  <2> QED
    BY <2>1, <2>2
<1>8. ASSUME NEW v \in VmIds, Attach(v)
      PROVE  ChainMatchesStages'
  <2>1. CASE DevicesAssignable(vm[v].capsule)
    <3>1. /\ Append1("device_assign", v, "allow")
          /\ vm'[v].phase = "Attached"
          /\ \A w \in VmIds \ {v} : vm'[w] = vm[w]
      BY <1>8, <2>1 DEF Attach, TypeOK
    <3> QED
      BY <3>1, RecordedStep DEF PhaseVerdicts, EventsKnown
  <2>2. CASE ~DevicesAssignable(vm[v].capsule)
    BY <1>8, <2>2, FailPhases, RecordedStep
    DEF Attach, PhaseVerdicts, EventsKnown
  <2> QED
    BY <2>1, <2>2
<1>9. ASSUME NEW v \in VmIds, Run(v)
      PROVE  ChainMatchesStages'
  <2>1. /\ vm'[v].phase = "Running"
        /\ \A w \in VmIds \ {v} : vm'[w] = vm[w]
    BY <1>9 DEF Run, TypeOK
  <2> QED
    BY <1>9, <2>1, RecordedStep DEF Run, PhaseVerdicts, EventsKnown
<1>10. ASSUME NEW v \in VmIds, VmPause(v)
       PROVE  ChainMatchesStages'
  <2>1. /\ vm'[v].phase = "Paused"
        /\ \A w \in VmIds \ {v} : vm'[w] = vm[w]
    BY <1>10 DEF VmPause, Pausable, TypeOK
  <2> QED
    BY <1>10, <2>1, RecordedStep DEF VmPause, Pausable, PhaseVerdicts, EventsKnown
<1>11. ASSUME NEW v \in VmIds, VmStop(v)
       PROVE  ChainMatchesStages'
  <2>1. /\ vm'[v].phase = "Stopped"
        /\ \A w \in VmIds \ {v} : vm'[w] = vm[w]
    BY <1>11 DEF VmStop, Stoppable, TypeOK
  <2> QED
    BY <1>11, <2>1, RecordedStep DEF VmStop, Stoppable, PhaseVerdicts, EventsKnown
<1>12. ASSUME NEW v \in VmIds, VmDestroy(v)
       PROVE  ChainMatchesStages'
  <2>1. /\ vm'[v].phase = "Destroyed"
        /\ \A w \in VmIds \ {v} : vm'[w] = vm[w]
    BY <1>12 DEF VmDestroy, Destroyable, TypeOK
  <2> QED
    BY <1>12, <2>1, RecordedStep DEF VmDestroy, Destroyable, PhaseVerdicts,
       EventsKnown
<1>13. ASSUME NEW v \in VmIds, NEW n \in SnapNames, VmSnapshot(v, n)
       PROVE  ChainMatchesStages'
  BY <1>13, SilentStep DEF VmSnapshot
<1>14. ASSUME NEW v \in VmIds, NEW n \in SnapNames, PauseForSnapshot(v, n)
       PROVE  ChainMatchesStages'
  <2>1. /\ vm'[v].phase = "Paused"
        /\ \A w \in VmIds \ {v} : vm'[w] = vm[w]
    BY <1>14 DEF PauseForSnapshot, TypeOK
  <2> QED
    BY <1>14, <2>1, RecordedStep DEF PauseForSnapshot, PhaseVerdicts, EventsKnown
<1>15. ASSUME NEW v \in VmIds, NEW n \in SnapNames, Snapshot(v, n)
       PROVE  ChainMatchesStages'
  <2>1. /\ vm'[v].phase = "Snapshotted"
        /\ \A w \in VmIds \ {v} : vm'[w] = vm[w]
    BY <1>15 DEF Snapshot, TokenPosition, Dropped, TypeOK
  <2> QED
    BY <1>15, <2>1, RecordedStep DEF Snapshot, TokenPosition, PhaseVerdicts,
       EventsKnown
<1>16. CASE UNCHANGED vars
  BY <1>16 DEF vars, ChainMatchesStages
<1> QED
  BY <1>1, <1>2, <1>3, <1>4, <1>5, <1>6, <1>7, <1>8, <1>9, <1>10, <1>11,
     <1>12, <1>13, <1>14, <1>15, <1>16
  DEF Next, Command, RuntimeStep

\* ChainMatchesStages: at every moment the last receipt about a VM is one that
\* its stage in the registry, or in the command in progress, explains.
THEOREM ChainAlwaysMatches == Spec => []ChainMatchesStages
<1>1. Init => ChainMatchesStages
  <2> SUFFICES ASSUME Init, NEW v \in VmIds
               PROVE  \E q \in PhaseVerdicts(vm[v].phase) :
                        Audit!Latest(receipts, v, q)
    BY DEF ChainMatchesStages
  <2>1. vm[v].phase = "Undefined" /\ receipts = <<>>
    BY DEF Init, Undefined
  <2>2. Audit!Latest(receipts, v, Audit!NoVerdict)
    BY <2>1 DEF Audit!Latest
  <2> QED
    BY <2>1, <2>2 DEF PhaseVerdicts
<1> QED
  BY <1>1, ChainStep, TypeCorrect, PTL DEF Spec

-----------------------------------------------------------------------------
(* The chain is a behaviour of AuditLog *)

\* A receipt appended after a permitted verdict is a step of the abstract log.
LEMMA RecordIsLegal ==
  ASSUME TypeOK, ChainMatchesStages,
         NEW v \in VmIds, NEW e \in Audit!Events, NEW d \in Audit!Decisions,
         Append1(e, v, d),
         PhaseVerdicts(vm[v].phase) \subseteq Audit!MayFollow(e),
         d = "deny" => e \in Audit!MayDeny
  PROVE  Audit!Next
<1> DEFINE r == Audit!Rcpt(e, v, d)
<1>1. /\ r \in Audit!Receipt
      /\ r.subject = v /\ r.event = e /\ r.decision = d
  BY DEF Audit!Rcpt, Audit!Receipt
<1>2. receipts' = Append(receipts, r)
  BY DEF Append1
<1> HIDE DEF r
<1>3. PICK q \in PhaseVerdicts(vm[v].phase) : Audit!Latest(receipts, v, q)
  BY DEF ChainMatchesStages
<1>4. Audit!Record(r)
  BY <1>1, <1>2, <1>3 DEF Audit!Record
<1> QED
  BY <1>1, <1>4 DEF Audit!Next

\* Some verdict, possibly NoVerdict, is the latest of each VM, so that vm_define
\* may always follow.
LEMMA AnyVerdictBeforeDefine ==
  ASSUME NEW p \in Phases
  PROVE  PhaseVerdicts(p) \subseteq Audit!MayFollow("vm_define")
BY DEF PhaseVerdicts, Phases, Audit!MayFollow, Audit!Verdicts, Audit!NoVerdict,
       Audit!Events, Audit!Decisions

\* A step of the control plane is one the audit log allows.
LEMMA AuditStep ==
  TypeOK /\ ChainMatchesStages /\ [Next]_vars => [Audit!Next]_receipts
<1> SUFFICES ASSUME TypeOK, ChainMatchesStages, [Next]_vars,
                    receipts' # receipts
             PROVE  Audit!Next
  OBVIOUS
<1> EventsKnown
  BY DEF EventsKnown, Audit!Events, Audit!Decisions
<1>1. ASSUME NEW c \in Capsules, VmDefine(c)
      PROVE  Audit!Next
  <2>1. /\ c.vm_id \in VmIds
        /\ vm[c.vm_id].phase \in Phases
    BY ControlAssumption DEF TypeOK
  <2> QED
    BY <1>1, <2>1, AnyVerdictBeforeDefine, RecordIsLegal
    DEF VmDefine, Admitted, EventsKnown
<1>2. ASSUME NEW v \in VmIds, VmVerifyPolicyDenied(v) \/ VmVerifyApproved(v)
      PROVE  Audit!Next
  <2>1. PhaseVerdicts(vm[v].phase) \subseteq Audit!MayFollow("manifest_verify")
    BY <1>2 DEF VmVerifyPolicyDenied, VmVerifyApproved, Ready, PhaseVerdicts,
                Audit!MayFollow
  <2> QED
    BY <1>2, <2>1, RecordIsLegal
    DEF VmVerifyPolicyDenied, VmVerifyApproved, EventsKnown, Audit!MayDeny
<1>3. ASSUME NEW v \in VmIds, Prepare(v)
      PROVE  Audit!Next
  <2>1. PhaseVerdicts(vm[v].phase) \subseteq Audit!MayFollow("vm_prepare")
    BY <1>3 DEF Prepare, Launching, PhaseVerdicts, Audit!MayFollow
  <2> QED
    BY <1>3, <2>1, RecordIsLegal DEF Prepare, EventsKnown
<1>4. ASSUME NEW v \in VmIds, Unlock(v)
      PROVE  Audit!Next
  <2>1. PhaseVerdicts(vm[v].phase) \subseteq Audit!MayFollow("key_release")
    BY <1>4 DEF Unlock, KeyReceipt, Launching, PhaseVerdicts, Audit!MayFollow
  <2> QED
    BY <1>4, <2>1, RecordIsLegal DEF Unlock, KeyReceipt, EventsKnown, Audit!MayDeny
<1>5. ASSUME NEW v \in VmIds, Attach(v)
      PROVE  Audit!Next
  <2>1. PhaseVerdicts(vm[v].phase) \subseteq Audit!MayFollow("device_assign")
    BY <1>5 DEF Attach, Launching, PhaseVerdicts, Audit!MayFollow
  <2> QED
    BY <1>5, <2>1, RecordIsLegal DEF Attach, EventsKnown, Audit!MayDeny
<1>6. ASSUME NEW v \in VmIds, Run(v)
      PROVE  Audit!Next
  <2>1. PhaseVerdicts(vm[v].phase) \subseteq Audit!MayFollow("vm_launch")
    BY <1>6 DEF Run, Launching, PhaseVerdicts, Audit!MayFollow
  <2> QED
    BY <1>6, <2>1, RecordIsLegal DEF Run, EventsKnown
<1>7. ASSUME NEW v \in VmIds,
             \/ VmPause(v)
             \/ \E n \in SnapNames : PauseForSnapshot(v, n)
      PROVE  Audit!Next
  <2>1. PhaseVerdicts(vm[v].phase) \subseteq Audit!MayFollow("vm_pause")
    BY <1>7 DEF VmPause, Pausable, PauseForSnapshot, Ready, Snapshotting,
       PhaseVerdicts,
                Audit!MayFollow
  <2> QED
    BY <1>7, <2>1, RecordIsLegal DEF VmPause, Pausable, PauseForSnapshot,
       EventsKnown
<1>8. ASSUME NEW v \in VmIds, VmStop(v)
      PROVE  Audit!Next
  <2>1. PhaseVerdicts(vm[v].phase) \subseteq Audit!MayFollow("vm_stop")
    BY <1>8 DEF VmStop, Stoppable, Ready, PhaseVerdicts, Audit!MayFollow
  <2> QED
    BY <1>8, <2>1, RecordIsLegal DEF VmStop, Stoppable, EventsKnown
<1>9. ASSUME NEW v \in VmIds, VmDestroy(v)
      PROVE  Audit!Next
  <2>1. PhaseVerdicts(vm[v].phase) \subseteq Audit!MayFollow("destroy")
    BY <1>9 DEF VmDestroy, Destroyable, Ready, PhaseVerdicts, Audit!MayFollow
  <2> QED
    BY <1>9, <2>1, RecordIsLegal DEF VmDestroy, Destroyable, EventsKnown
<1>10. ASSUME NEW v \in VmIds, NEW n \in SnapNames, Snapshot(v, n)
       PROVE  Audit!Next
  <2>1. PhaseVerdicts(vm[v].phase) \subseteq Audit!MayFollow("snapshot")
    BY <1>10 DEF Snapshot, TokenPosition, Snapshotting, PhaseVerdicts,
       Audit!MayFollow
  <2> QED
    BY <1>10, <2>1, RecordIsLegal DEF Snapshot, TokenPosition, EventsKnown
<1> QED
  BY <1>1, <1>2, <1>3, <1>4, <1>5, <1>6, <1>7, <1>8, <1>9, <1>10
  DEF Next, Command, RuntimeStep, VmVerifyGateRefused, VmLaunch, VmSnapshot,
      vars

\* AuditSpec: whatever commands run, a reader of the chain sees each receipt
\* follow a receipt of the same VM that permits it.
THEOREM ChainImplementsAuditLog == Spec => AuditSpec
<1>1. Init => Audit!Init
  BY DEF Init, Audit!Init
<1> QED
  BY <1>1, AuditStep, TypeCorrect, ChainAlwaysMatches, PTL
  DEF Spec, AuditSpec, Audit!Spec

-----------------------------------------------------------------------------
(* Only admissible guests run *)

\* The gates that the capsule of a stage has passed by the time it is there.
GatesPassed(s) ==
  /\ s.phase \notin {"Undefined", "Failed", "Destroyed", "Snapshotted"} =>
       ManifestVerifies(s.capsule)
  /\ s.phase \in {"Verified", "Prepared", "Unlocked", "Attached", "Running",
                   "Paused", "Stopped"} =>
       PolicyAllowsLaunch(s.capsule) /\ LaunchGatePasses(s.capsule)
  /\ s.phase \in {"Prepared", "Unlocked", "Attached", "Running", "Paused",
                   "Stopped"} => MemoryFits(s.capsule)
  /\ s.phase \in {"Unlocked", "Attached", "Running", "Paused", "Stopped"} =>
       KmsGrants(s.capsule)
  /\ s.phase \in {"Attached", "Running", "Paused", "Stopped"} =>
       DevicesAssignable(s.capsule)

\* What the stage owns at each phase.
OwnsByPhase(s) ==
  /\ s.key = "held" <=>
       s.phase \in {"Unlocked", "Attached", "Running", "Paused", "Stopped"}
  /\ s.ram = "assigned" <=>
       s.phase \in {"Prepared", "Unlocked", "Attached", "Running", "Paused",
                    "Stopped"}
  /\ s.phase = "Destroyed" => s.key = "zeroized" /\ s.ram = "zeroed"

\* The strengthening: each stage carries the gates of its whole past, not just
\* the last one, because a step sees only the stage it consumes.
StageInv == \A v \in VmIds : GatesPassed(vm[v]) /\ OwnsByPhase(vm[v])

\* A step changes the stage of one VM at most.
LEMMA OneStageStep ==
  ASSUME StageInv, NEW v \in VmIds,
         \A w \in VmIds \ {v} : vm'[w] = vm[w],
         GatesPassed(vm'[v]), OwnsByPhase(vm'[v])
  PROVE  StageInv'
BY DEF StageInv, GatesPassed, OwnsByPhase

\* A dropped stage owns neither a live key nor assigned RAM.
LEMMA DroppedStage ==
  ASSUME NEW s \in Stage, OwnsByPhase(s), NEW p \in {"Failed", "Snapshotted"}
  PROVE  GatesPassed(Dropped(s, p)) /\ OwnsByPhase(Dropped(s, p))
BY DEF GatesPassed, OwnsByPhase, Dropped, Stage

\* A failing command leaves its VM with a legal stage.
LEMMA FailStageInv ==
  ASSUME TypeOK, StageInv, NEW v \in VmIds, Fail(v)
  PROVE  StageInv'
<1>1. vm[v] \in Stage /\ OwnsByPhase(vm[v])
  BY DEF TypeOK, Stage, StageInv
<1>2. vm'[v] = Dropped(vm[v], "Failed") /\ \A w \in VmIds \ {v} : vm'[w] = vm[w]
  BY DEF Fail, Settle, TypeOK
<1> QED
  BY <1>1, <1>2, DroppedStage, OneStageStep

\* Every step keeps every stage legal: gates passed so far, resources owned.
LEMMA StageStep == TypeOK /\ StageInv /\ [Next]_vars => StageInv'
<1> SUFFICES ASSUME TypeOK, StageInv, [Next]_vars
             PROVE  StageInv'
  OBVIOUS
<1>0. \A v \in VmIds : /\ vm[v] \in Stage
                        /\ GatesPassed(vm[v])
                        /\ OwnsByPhase(vm[v])
  BY DEF TypeOK, Stage, StageInv
<1>1. ASSUME NEW c \in Capsules, VmDefine(c)
      PROVE  StageInv'
  <2>1. c.vm_id \in VmIds
    BY ControlAssumption
  <2>2. /\ vm'[c.vm_id] = [phase |-> "Defined", capsule |-> c,
                           key |-> "none", ram |-> "none"]
        /\ \A w \in VmIds \ {c.vm_id} : vm'[w] = vm[w]
    BY <1>1, <2>1 DEF VmDefine, Admitted, TypeOK, Undefined
  <2>3. GatesPassed(vm'[c.vm_id]) /\ OwnsByPhase(vm'[c.vm_id])
    <3>1. ManifestVerifies(c)
      BY <1>1 DEF VmDefine, IntoCapsule
    <3>2. vm'[c.vm_id].capsule = c
      BY <2>2
    <3>3. ManifestVerifies(vm'[c.vm_id].capsule)
      BY <3>1, <3>2
    <3> QED
      BY <2>2, <3>3 DEF GatesPassed, OwnsByPhase
  <2> QED
    BY <2>1, <2>2, <2>3, OneStageStep
<1>2. ASSUME NEW v \in VmIds, Fail(v)
      PROVE  StageInv'
  BY <1>2, FailStageInv
<1>3. ASSUME NEW v \in VmIds, VmVerifyApproved(v)
      PROVE  StageInv'
  <2>1. /\ vm'[v] = [vm[v] EXCEPT !.phase = "Verified"]
        /\ \A w \in VmIds \ {v} : vm'[w] = vm[w]
    BY <1>3 DEF VmVerifyApproved, TypeOK
  <2>2. GatesPassed(vm'[v]) /\ OwnsByPhase(vm'[v])
    BY <1>0, <1>3, <2>1
    DEF VmVerifyApproved, Ready, Stage, GatesPassed, OwnsByPhase
  <2> QED
    BY <2>1, <2>2, OneStageStep
<1>4. ASSUME NEW v \in VmIds, Prepare(v), ~Fail(v)
      PROVE  StageInv'
  <2>1. /\ vm'[v] = [vm[v] EXCEPT !.phase = "Prepared", !.ram = "assigned"]
        /\ \A w \in VmIds \ {v} : vm'[w] = vm[w]
    BY <1>4 DEF Prepare, TypeOK
  <2>2. GatesPassed(vm'[v]) /\ OwnsByPhase(vm'[v])
    BY <1>0, <1>4, <2>1 DEF Prepare, Launching, Stage, GatesPassed, OwnsByPhase
  <2> QED
    BY <2>1, <2>2, OneStageStep
<1>5. ASSUME NEW v \in VmIds, Unlock(v), ~Fail(v)
      PROVE  StageInv'
  <2>1. /\ vm'[v] = [vm[v] EXCEPT !.phase = "Unlocked", !.key = "held"]
        /\ \A w \in VmIds \ {v} : vm'[w] = vm[w]
    BY <1>5 DEF Unlock, KeyReceipt, TypeOK
  <2>2. GatesPassed(vm'[v]) /\ OwnsByPhase(vm'[v])
    BY <1>0, <1>5, <2>1 DEF Unlock, KeyReceipt, Launching, Stage, GatesPassed,
       OwnsByPhase
  <2> QED
    BY <2>1, <2>2, OneStageStep
<1>6. ASSUME NEW v \in VmIds, Attach(v), ~Fail(v)
      PROVE  StageInv'
  <2>1. /\ vm'[v] = [vm[v] EXCEPT !.phase = "Attached"]
        /\ \A w \in VmIds \ {v} : vm'[w] = vm[w]
    BY <1>6 DEF Attach, TypeOK
  <2>2. GatesPassed(vm'[v]) /\ OwnsByPhase(vm'[v])
    BY <1>0, <1>6, <2>1 DEF Attach, Launching, Stage, GatesPassed, OwnsByPhase
  <2> QED
    BY <2>1, <2>2, OneStageStep
<1>7. ASSUME NEW v \in VmIds, NEW p \in {"Running", "Paused", "Stopped"},
             vm[v].phase \in {"Attached", "Running"},
             vm' = [vm EXCEPT ![v].phase = p]
      PROVE  StageInv'
  <2>1. /\ vm'[v] = [vm[v] EXCEPT !.phase = p]
        /\ \A w \in VmIds \ {v} : vm'[w] = vm[w]
    BY <1>7 DEF TypeOK
  <2>2. GatesPassed(vm'[v]) /\ OwnsByPhase(vm'[v])
    BY <1>0, <1>7, <2>1 DEF Stage, GatesPassed, OwnsByPhase
  <2> QED
    BY <2>1, <2>2, OneStageStep
<1>8. ASSUME NEW v \in VmIds, VmDestroy(v)
      PROVE  StageInv'
  <2>1. /\ vm'[v] = [vm[v] EXCEPT !.phase = "Destroyed", !.key = "zeroized",
                                  !.ram = "zeroed"]
        /\ \A w \in VmIds \ {v} : vm'[w] = vm[w]
    BY <1>8 DEF VmDestroy, Destroyable, TypeOK
  <2>2. GatesPassed(vm'[v]) /\ OwnsByPhase(vm'[v])
    BY <1>0, <2>1 DEF Stage, GatesPassed, OwnsByPhase
  <2> QED
    BY <2>1, <2>2, OneStageStep
<1>9. ASSUME NEW v \in VmIds, NEW n \in SnapNames, Snapshot(v, n)
      PROVE  StageInv'
  <2>1. /\ vm'[v] = Dropped(vm[v], "Snapshotted")
        /\ \A w \in VmIds \ {v} : vm'[w] = vm[w]
    BY <1>9 DEF Snapshot, TokenPosition, TypeOK
  <2> QED
    BY <1>0, <2>1, DroppedStage, OneStageStep
<1>10. ASSUME UNCHANGED vm
       PROVE  StageInv'
  BY <1>10 DEF StageInv
<1>11. ASSUME NEW v \in VmIds, Command(v) \/ RuntimeStep(v)
       PROVE  StageInv'
  <2>1. CASE VmVerifyPolicyDenied(v) \/ VmVerifyGateRefused(v)
    BY <1>2, <2>1 DEF VmVerifyPolicyDenied, VmVerifyGateRefused
  <2>2. CASE \/ VmLaunch(v)
             \/ \E n \in SnapNames : VmSnapshot(v, n)
    BY <1>10, <2>2 DEF VmLaunch, VmSnapshot
  <2>3. CASE \/ Run(v) \/ VmPause(v) \/ VmStop(v)
             \/ \E n \in SnapNames : PauseForSnapshot(v, n)
    BY <1>7, <2>3
    DEF Run, VmPause, Pausable, VmStop, Stoppable, PauseForSnapshot, Ready, Launching,
    Snapshotting
  <2> QED
    BY <1>11, <1>2, <1>3, <1>4, <1>5, <1>6, <1>8, <1>9, <2>1, <2>2, <2>3
    DEF Command, RuntimeStep
<1> QED
  BY <1>1, <1>10, <1>11 DEF Next, vars

\* Every reachable stage has passed the gates of its phase and owns what the
\* phase owns: the inductive invariant of the two theorems below.
LEMMA StageInvHolds == Spec => []StageInv
<1>1. Init => StageInv
  BY DEF Init, Undefined, StageInv, GatesPassed, OwnsByPhase
<1> QED
  BY <1>1, StageStep, TypeCorrect, PTL DEF Spec

\* LaunchedIsAdmissible: no order of commands, redefinitions included, brings a
\* guest to Running, Paused or Stopped whose capsule misses a requirement.
THEOREM OnlyAdmissibleGuestsRun == Spec => []LaunchedIsAdmissible
<1>1. StageInv => LaunchedIsAdmissible
  BY DEF StageInv, GatesPassed, LaunchedIsAdmissible, Admissible,
         ManifestVerifies, SignaturesValid, PolicyAllowsLaunch,
         LaunchGatePasses, MemoryFits, KmsGrants, PcrsMatch, DevicesAssignable
<1> QED
  BY <1>1, StageInvHolds, PTL

\* ResourcesFollowStage: a released key and assigned RAM exist exactly in the
\* stages that own them, under a capsule the KMS grants.
THEOREM ResourcesAlwaysFollowStage == Spec => []ResourcesFollowStage
<1>1. StageInv => ResourcesFollowStage
  BY DEF StageInv, GatesPassed, OwnsByPhase, ResourcesFollowStage
<1> QED
  BY <1>1, StageInvHolds, PTL

-----------------------------------------------------------------------------
(* The registry *)

\* A command names one VM, and a launch is never mistaken for a snapshot.
LEMMA LaunchesDistinct ==
  ASSUME NEW v \in VmIds, NEW w \in VmIds
  PROVE  /\ LaunchOf(v) = LaunchOf(w) => v = w
         /\ LaunchOf(v) # NoCommand
<1>1. LaunchOf(v) # NoCommand
  BY NoCommandAssumption DEF Commands
<1>2. LaunchOf(v).id = v /\ LaunchOf(w).id = w
  BY DEF LaunchOf
<1> QED
  BY <1>1, <1>2

\* Two snapshot commands are the same only for the same VM and name.
LEMMA SnapshotsDistinct ==
  ASSUME NEW v \in VmIds, NEW w \in VmIds, NEW m \in SnapNames,
         NEW n \in SnapNames
  PROVE  /\ SnapshotOf(v, m) = SnapshotOf(w, n) => v = w
         /\ LaunchOf(v) # SnapshotOf(w, n)
         /\ SnapshotOf(v, m) # NoCommand
<1>1. SnapshotOf(v, m) # NoCommand
  BY NoCommandAssumption DEF Commands
<1>2. /\ SnapshotOf(v, m).id = v /\ SnapshotOf(w, n).id = w
      /\ LaunchOf(v).op = "launch" /\ SnapshotOf(w, n).op = "snapshot"
  BY DEF LaunchOf, SnapshotOf
<1> QED
  BY <1>1, <1>2

InFlight(v) == \/ command = LaunchOf(v)
               \/ \E n \in SnapNames : command = SnapshotOf(v, n)

\* The end of a command on v: v is back and nothing else is in flight.
LEMMA SettleKeepsAll ==
  ASSUME NoVmLost, NEW v \in VmIds, command = NoCommand \/ InFlight(v),
         registry' = registry \cup {v},
         \A w \in VmIds \ {v} : vm'[w] = vm[w]
  PROVE  NoVmLost'
<1> SUFFICES ASSUME NEW w \in VmIds, vm'[w].phase # "Undefined"
             PROVE  w \in registry'
  BY DEF NoVmLost
<1>1. CASE w = v
  BY <1>1
<1>2. CASE w # v
  <2>1. ~InFlight(w)
    BY <1>2, LaunchesDistinct, SnapshotsDistinct DEF InFlight
  <2> QED
    BY <1>2, <2>1 DEF NoVmLost, InFlight
<1> QED
  BY <1>1, <1>2

\* NoVmLost: every way out of every command puts the VM back.
THEOREM NoVmIsLost == Spec => []NoVmLost
<1>1. Init => NoVmLost
  BY DEF Init, Undefined, NoVmLost
<1>2. TypeOK /\ NoVmLost /\ [Next]_vars => NoVmLost'
  <2> SUFFICES ASSUME TypeOK, NoVmLost, [Next]_vars
               PROVE  NoVmLost'
    OBVIOUS
  <2>1. ASSUME NEW c \in Capsules, VmDefine(c)
        PROVE  NoVmLost'
    <3>1. c.vm_id \in VmIds
      BY ControlAssumption
    <3>2. \A w \in VmIds \ {c.vm_id} : vm'[w] = vm[w]
      BY <2>1 DEF VmDefine, Admitted, TypeOK
    <3> QED
      BY <2>1, <3>1, <3>2, SettleKeepsAll DEF VmDefine
  <2>2. ASSUME NEW v \in VmIds, Fail(v), command = NoCommand \/ InFlight(v)
        PROVE  NoVmLost'
    BY <2>2, SettleKeepsAll, FailPhases DEF Fail, Settle
  <2>3. ASSUME NEW v \in VmIds,
               \/ VmVerifyApproved(v) \/ Run(v) \/ VmPause(v)
               \/ VmStop(v) \/ VmDestroy(v)
               \/ \E n \in SnapNames : Snapshot(v, n)
        PROVE  NoVmLost'
    <3>1. command = NoCommand \/ InFlight(v)
      BY <2>3 DEF VmVerifyApproved, Run, VmPause, Pausable, VmStop, Stoppable, VmDestroy,
         Destroyable, Snapshot, TokenPosition,
                  Ready, Launching, Snapshotting, InFlight
    <3>2. /\ registry' = registry \cup {v}
          /\ \A w \in VmIds \ {v} : vm'[w] = vm[w]
      BY <2>3 DEF VmVerifyApproved, Run, VmPause, Pausable, VmStop, Stoppable, VmDestroy,
         Destroyable, Snapshot, TokenPosition,
                  Settle, TypeOK
    <3> QED
      BY <3>1, <3>2, SettleKeepsAll
  <2>4. ASSUME NEW v \in VmIds,
               \/ VmLaunch(v)
               \/ \E n \in SnapNames : VmSnapshot(v, n)
        PROVE  NoVmLost'
    <3>1. /\ command = NoCommand
          /\ InFlight(v)'
          /\ registry' = registry \ {v}
          /\ vm' = vm
      BY <2>4 DEF VmLaunch, VmSnapshot, Ready, InFlight
    <3>2. \A w \in VmIds : ~InFlight(w)
      BY <3>1, LaunchesDistinct, SnapshotsDistinct DEF InFlight
    <3> QED
      BY <3>1, <3>2 DEF NoVmLost, InFlight
  <2>5. ASSUME NEW v \in VmIds,
               \/ (Prepare(v) \/ Unlock(v) \/ Attach(v)) /\ ~Fail(v)
               \/ \E n \in SnapNames : PauseForSnapshot(v, n)
        PROVE  NoVmLost'
    <3>1. /\ InFlight(v)
          /\ UNCHANGED <<registry, command>>
          /\ \A w \in VmIds \ {v} : vm'[w] = vm[w]
      BY <2>5 DEF Prepare, Unlock, KeyReceipt, Attach, PauseForSnapshot, Launching,
                  Snapshotting, InFlight, TypeOK
    <3> QED
      BY <3>1 DEF NoVmLost, InFlight
  <2>6. CASE UNCHANGED vars
    BY <2>6 DEF vars, NoVmLost
  <2>7. ASSUME NEW v \in VmIds,
               VmVerifyPolicyDenied(v) \/ VmVerifyGateRefused(v)
        PROVE  NoVmLost'
    BY <2>2, <2>7 DEF VmVerifyPolicyDenied, VmVerifyGateRefused, Ready
  <2>8. ASSUME NEW v \in VmIds, Prepare(v) \/ Unlock(v) \/ Attach(v)
        PROVE  NoVmLost'
    <3>1. InFlight(v)
      BY <2>8 DEF Prepare, Unlock, KeyReceipt, Attach, Launching, InFlight
    <3> QED
      BY <2>2, <2>5, <2>8, <3>1
  <2> QED
    BY <2>1, <2>3, <2>4, <2>5, <2>6, <2>7, <2>8 DEF Next, Command, RuntimeStep
<1> QED
  BY <1>1, <1>2, TypeCorrect, PTL DEF Spec

\* TerminalUntilRedefined: a failed, destroyed or consumed VM changes only by a
\* vm define that is on the chain.
THEOREM TerminalStagesStay == Spec => TerminalUntilRedefined
<1> DEFINE Dead(v) == vm[v].phase \in {"Failed", "Destroyed", "Snapshotted"}
           Redefined(v) ==
             /\ vm'[v].phase = "Defined"
             /\ receipts' = Append(receipts, Audit!Rcpt("vm_define", v, "allow"))
<1>1. TypeOK /\ [Next]_vars =>
        [\A v \in VmIds : Dead(v) /\ vm'[v] # vm[v] => Redefined(v)]_vars
  <2> SUFFICES ASSUME TypeOK, [Next]_vars, NEW v \in VmIds, Dead(v),
                      vm'[v] # vm[v]
               PROVE  Redefined(v)
    OBVIOUS
  <2>1. ASSUME NEW c \in Capsules, VmDefine(c)
        PROVE  Redefined(v)
    <3>1. c.vm_id = v
      BY <2>1, ControlAssumption DEF VmDefine, Admitted, TypeOK
    <3> QED
      BY <2>1, <3>1 DEF VmDefine, Admitted, Append1, Undefined, TypeOK
  <2>2. ASSUME NEW w \in VmIds, Command(w) \/ RuntimeStep(w)
        PROVE  FALSE
    <3>1. CASE w = v
      BY <2>2, <3>1
      DEF Command, RuntimeStep, VmVerifyPolicyDenied, VmVerifyGateRefused,
          VmVerifyApproved, VmLaunch, VmPause, Pausable, VmStop, Stoppable, VmDestroy,
          Destroyable, VmSnapshot,
          Prepare, Unlock, KeyReceipt, Attach, Run, PauseForSnapshot,
          Snapshot, TokenPosition, Ready,
          Launching, Snapshotting
    <3>2. CASE w # v
      BY <2>2, <3>2
      DEF Command, RuntimeStep, VmVerifyPolicyDenied, VmVerifyGateRefused,
          VmVerifyApproved, VmLaunch, VmPause, Pausable, VmStop, Stoppable, VmDestroy,
          Destroyable, VmSnapshot,
          Prepare, Unlock, KeyReceipt, Attach, Run, PauseForSnapshot,
          Snapshot, TokenPosition, Fail, Settle, TypeOK
    <3> QED
      BY <3>1, <3>2
  <2>3. CASE UNCHANGED vars
    BY <2>3 DEF vars
  <2> QED
    BY <2>1, <2>2, <2>3 DEF Next
<1> QED
  BY <1>1, TypeCorrect, PTL DEF Spec, TerminalUntilRedefined

-----------------------------------------------------------------------------
\* SnapshotTokensAreAudited: a retained token points at the snapshot receipt of
\* its own VM, whatever is snapshotted under the same name later and whatever
\* other receipts follow.
THEOREM TokensStayAudited == Spec => []SnapshotTokensAreAudited
<1>1. Init => SnapshotTokensAreAudited
  BY DEF Init, SnapshotTokensAreAudited
<1>2. TypeOK /\ ChainMatchesStages /\ SnapshotTokensAreAudited /\ [Next]_vars
        => SnapshotTokensAreAudited'
  <2> SUFFICES ASSUME TypeOK, ChainMatchesStages, SnapshotTokensAreAudited,
                      [Next]_vars
               PROVE  SnapshotTokensAreAudited'
    OBVIOUS
  <2>1. ASSUME NEW i \in 1 .. Len(receipts)
        PROVE  receipts'[i] = receipts[i]
    <3>1. CASE receipts' = receipts
      BY <3>1
    <3>2. CASE \E r \in Audit!Receipt : receipts' = Append(receipts, r)
      BY <3>2 DEF TypeOK
    <3> QED
      BY <3>1, <3>2, AuditStep DEF Audit!Next, Audit!Record
  <2>2. ASSUME NEW v \in VmIds, NEW n \in SnapNames, Snapshot(v, n)
        PROVE  SnapshotTokensAreAudited'
    <3>1. receipts'[TokenPosition] = Audit!Rcpt("snapshot", v, "allow")
      BY <2>2, AppendTyped
      DEF Snapshot, TokenPosition, TypeOK, Audit!Events, Audit!Decisions
    <3>2. DOMAIN snapshots' = DOMAIN snapshots \cup {n}
      BY <2>2 DEF Snapshot
    <3>3. /\ snapshots'[n].vm_id = v
          /\ snapshots'[n].receipt = TokenPosition
      BY <2>2 DEF Snapshot
    <3>4. \A m \in DOMAIN snapshots \ {n} : snapshots'[m] = snapshots[m]
      BY <2>2 DEF Snapshot
    <3>5. ASSUME NEW m \in DOMAIN snapshots \ {n}
          PROVE  receipts'[snapshots'[m].receipt] =
                   Audit!Rcpt("snapshot", snapshots'[m].vm_id, "allow")
      BY <2>1, <3>4, <3>5 DEF SnapshotTokensAreAudited, TypeOK
    <3> QED
      BY <3>1, <3>2, <3>3, <3>5 DEF SnapshotTokensAreAudited
  <2>3. CASE UNCHANGED snapshots
    BY <2>1, <2>3 DEF SnapshotTokensAreAudited, TypeOK
  <2>4. (\E v \in VmIds, n \in SnapNames : Snapshot(v, n)) \/ UNCHANGED snapshots
    BY DEF vars, Next, VmDefine, Command, RuntimeStep, VmVerifyPolicyDenied,
           VmVerifyGateRefused, VmVerifyApproved, VmLaunch, VmPause, VmStop,
           VmDestroy, VmSnapshot, Prepare, Unlock, Attach, Run, PauseForSnapshot
  <2> QED
    BY <2>2, <2>3, <2>4
<1> QED
  BY <1>1, <1>2, TypeCorrect, ChainAlwaysMatches, PTL DEF Spec

=============================================================================
