---------------------------- MODULE HyperControl ----------------------------
(***************************************************************************)
(* The local control plane (hyper-control) driving the slate runtime       *)
(* (hyper-vm runtime.rs).                                                  *)
(*                                                                         *)
(* Control owns a registry of typed VM stages.  A command takes the stage  *)
(* out of the registry, hands it to one or more runtime methods, each of   *)
(* which consumes it and may append audit receipts, and puts the resulting *)
(* stage back.  One action stands for one runtime method call, so vm       *)
(* launch and vm snapshot are several steps during which `command' names   *)
(* the command in progress and the VM is not in the registry.  Control is  *)
(* reached through &mut self: no other command starts in between.          *)
(*                                                                         *)
(* Calls that return an error and change nothing (an unknown id, a stage   *)
(* the command does not accept, vm destroy without wipe, a descriptor that *)
(* hyper_capsule::verify refuses) are stuttering steps.                    *)
(***************************************************************************)
EXTENDS LaunchPolicy, Sequences

CONSTANTS
  VmIds,        \* vm ids named by manifests
  Capsules,     \* capsule descriptors an operator submits
  SnapNames,    \* names given to vm snapshot
  MaxReceipts,  \* bound: length of the audit chain a run explores
  NoCapsule, NoCommand

ASSUME ControlAssumption ==
  /\ \A c \in Capsules :
       c.vm_id \in VmIds /\ ManifestTyped(c) /\ VmPolicyTyped(c)
  /\ MaxReceipts \in Nat
  /\ NoCapsule \notin Capsules

\* Control::new_local: the policy and the KMS of offline operation.
DEFAULT_HYPERVISOR_VERSION == 52
default_policy_doc ==
  [schema_version |-> 1, minimum_hypervisor_version |-> 52,
   require_signed_manifest |-> TRUE, require_measured_boot |-> TRUE,
   allow_device_passthrough |-> FALSE, allow_debug_console |-> FALSE,
   network_default |-> "deny", key_release_mode |-> "remote_attested_kms"]
default_pcrs == [pcr0 |-> "p0", pcr7 |-> "p7", pcr11 |-> "p11"]
default_kms ==
  [expected_pcrs |-> default_pcrs,
   min_hypervisor_version |-> DEFAULT_HYPERVISOR_VERSION,
   allowed_capsule_hashes |-> {"capsule-local"},
   expected_boot_policy_hash |-> "bootpol-local"]

VARIABLES
  receipts,   \* SlateRuntime.receipts
  registry,   \* ids that Control.registry currently holds
  vm,         \* the typed stage of each VM and the resources it owns
  command,    \* the multi-step command in progress, or NoCommand
  snapshots   \* Control.snapshots: name -> proof token

vars == <<receipts, registry, vm, command, snapshots>>

Audit == INSTANCE AuditLog WITH log <- receipts

\* The stages of the registry (VmStage) and the typed states a stage passes
\* through inside vm launch (PreparedVm, UnlockedVm, AttachedVm).
Phases == {"Undefined", "Defined", "Verified", "Prepared", "Unlocked",
           "Attached", "Running", "Paused", "Stopped", "Destroyed",
           "Snapshotted", "Failed"}

\* What a typed stage owns: the released key and the guest RAM.
KeyStates == {"none", "held", "zeroized"}
RamStates == {"none", "assigned", "zeroed", "abandoned"}

Undefined == [phase |-> "Undefined", capsule |-> NoCapsule,
              key |-> "none", ram |-> "none"]

LaunchOf(v) == [op |-> "launch", id |-> v]
SnapshotOf(v, n) == [op |-> "snapshot", id |-> v, name |-> n]
Commands == {LaunchOf(v) : v \in VmIds}
            \cup {SnapshotOf(v, n) : v \in VmIds, n \in SnapNames}

ASSUME NoCommandAssumption == NoCommand \notin Commands

-----------------------------------------------------------------------------
Init ==
  /\ receipts = <<>>
  /\ registry = {}
  /\ vm = [v \in VmIds |-> Undefined]
  /\ command = NoCommand
  /\ snapshots = <<>>

Room(n) == Len(receipts) + n <= MaxReceipts

Append1(e, v, d) == receipts' = Append(receipts, Audit!Rcpt(e, v, d))

\* Control::take succeeds and the stage matches; otherwise reject puts the
\* stage back.
Ready(v, phases) ==
  /\ command = NoCommand
  /\ v \in registry
  /\ vm[v].phase \in phases

\* Faulty variant: a dropped SecretHandle keeps its bytes.
DroppedUnzeroized(s, phase) ==
  [s EXCEPT !.phase = phase,
            !.ram = IF @ = "assigned" THEN "abandoned" ELSE @]

\* A stage that is dropped without destroy: SecretHandle zeroizes the key on
\* drop, guest RAM is released in the state it has, assigned.
Dropped(s, phase) ==
  [s EXCEPT !.phase = phase,
            !.key = IF @ = "held" THEN "zeroized" ELSE @,
            !.ram = IF @ = "assigned" THEN "abandoned" ELSE @]

\* Faulty variant: the VM is not put back.
SettleLosingVm(v) == registry' = registry /\ command' = NoCommand

\* The command ends with the VM back in the registry.
Settle(v) ==
  /\ registry' = registry \cup {v}
  /\ command' = NoCommand

\* The runtime method failed: the stage it consumed is gone and the command
\* registers the VM as Failed.
Fail(v) ==
  /\ vm' = [vm EXCEPT ![v] = Dropped(@, "Failed")]
  /\ Settle(v)

-----------------------------------------------------------------------------
\* SlateRuntime::define: the stage of a capsule that was admitted.
Admitted(c) == [Undefined EXCEPT !.phase = "Defined", !.capsule = c]

\* vm define: the manifest verifies, the runtime records it and the registry
\* entry of that id is overwritten, whatever it was.
VmDefine(c) ==
  LET v == c.vm_id IN
  /\ command = NoCommand /\ Room(1)
  /\ IntoCapsule(c)
  /\ Append1("vm_define", v, "allow")
  /\ vm' = [vm EXCEPT ![v] = Admitted(c)]
  /\ registry' = registry \cup {v}
  /\ UNCHANGED <<command, snapshots>>

\* vm verify, refused by the policy engine: a deny receipt.
VmVerifyPolicyDenied(v) ==
  /\ Ready(v, {"Defined"}) /\ Room(1)
  /\ ~PolicyAllowsLaunch(vm[v].capsule)
  /\ Append1("manifest_verify", v, "deny")
  /\ Fail(v)
  /\ UNCHANGED snapshots

\* vm verify, refused by check_launch: the error returns before any receipt.
VmVerifyGateRefused(v) ==
  /\ Ready(v, {"Defined"})
  /\ PolicyAllowsLaunch(vm[v].capsule)
  /\ ~LaunchGatePasses(vm[v].capsule)
  /\ Fail(v)
  /\ UNCHANGED <<receipts, snapshots>>

VmVerifyApproved(v) ==
  /\ Ready(v, {"Defined"}) /\ Room(1)
  /\ PolicyAllowsLaunch(vm[v].capsule)
  /\ LaunchGatePasses(vm[v].capsule)
  /\ Append1("manifest_verify", v, "allow")
  /\ vm' = [vm EXCEPT ![v].phase = "Verified"]
  /\ Settle(v)
  /\ UNCHANGED snapshots

-----------------------------------------------------------------------------
\* vm launch takes the verified stage; drive_to_running follows.
VmLaunch(v) ==
  /\ Ready(v, {"Verified"}) /\ Room(4)
  /\ registry' = registry \ {v}
  /\ command' = LaunchOf(v)
  /\ UNCHANGED <<receipts, vm, snapshots>>

Launching(v, phase) == command = LaunchOf(v) /\ vm[v].phase = phase

\* SlateRuntime::prepare: quota, then the nested page table allocation.
Prepare(v) ==
  /\ Launching(v, "Verified")
  /\ UNCHANGED snapshots
  /\ \/ /\ MemoryFits(vm[v].capsule)
        /\ Append1("vm_prepare", v, "allow")
        /\ vm' = [vm EXCEPT ![v].phase = "Prepared", ![v].ram = "assigned"]
        /\ UNCHANGED <<registry, command>>
     \/ /\ ~MemoryFits(vm[v].capsule)
        /\ Fail(v)
        /\ UNCHANGED receipts

\* Faulty variant: a refused key release is not recorded.
KeyReceiptIfAllowed(v, d) ==
  IF d = "allow" THEN Append1("key_release", v, d) ELSE UNCHANGED receipts

\* KmsSimulator::evaluate appends the receipt itself, of either decision.
KeyReceipt(v, d) == Append1("key_release", v, d)

\* SlateRuntime::unlock.
Unlock(v) ==
  /\ Launching(v, "Prepared")
  /\ UNCHANGED snapshots
  /\ \/ /\ KmsGrants(vm[v].capsule)
        /\ KeyReceipt(v, "allow")
        /\ vm' = [vm EXCEPT ![v].phase = "Unlocked", ![v].key = "held"]
        /\ UNCHANGED <<registry, command>>
     \/ /\ ~KmsGrants(vm[v].capsule)
        /\ KeyReceipt(v, "deny")
        /\ Fail(v)

\* SlateRuntime::attach: passthrough policy, then the device graph (whose
\* disjoint MMIO windows always register) and the vCPUs.
Attach(v) ==
  /\ Launching(v, "Unlocked")
  /\ UNCHANGED snapshots
  /\ \/ /\ DevicesAssignable(vm[v].capsule)
        /\ Append1("device_assign", v, "allow")
        /\ vm' = [vm EXCEPT ![v].phase = "Attached"]
        /\ UNCHANGED <<registry, command>>
     \/ /\ ~DevicesAssignable(vm[v].capsule)
        /\ Append1("device_assign", v, "deny")
        /\ Fail(v)

\* SlateRuntime::run; vm launch registers the running VM.
Run(v) ==
  /\ Launching(v, "Attached")
  /\ Append1("vm_launch", v, "allow")
  /\ vm' = [vm EXCEPT ![v].phase = "Running"]
  /\ Settle(v)
  /\ UNCHANGED snapshots

-----------------------------------------------------------------------------
\* Faulty variants: pausing twice, destroying a VM that never ran.
PausableAgain == {"Running", "Paused"}
DestroyableFailed == {"Stopped", "Failed"}

\* The stages that vm pause, vm stop and vm destroy accept.
Pausable == {"Running"}
Stoppable == {"Running"}
Destroyable == {"Stopped"}

\* vm pause and vm stop accept a running guest only; nothing resumes a
\* paused one.
VmPause(v) ==
  /\ Ready(v, Pausable) /\ Room(1)
  /\ Append1("vm_pause", v, "allow")
  /\ vm' = [vm EXCEPT ![v].phase = "Paused"]
  /\ Settle(v)
  /\ UNCHANGED snapshots

VmStop(v) ==
  /\ Ready(v, Stoppable) /\ Room(1)
  /\ Append1("vm_stop", v, "allow")
  /\ vm' = [vm EXCEPT ![v].phase = "Stopped"]
  /\ Settle(v)
  /\ UNCHANGED snapshots

\* vm destroy --wipe: unmap, mark the host ranges zeroed, zeroize the key, record.
VmDestroy(v) ==
  /\ Ready(v, Destroyable) /\ Room(1)
  /\ Append1("destroy", v, "allow")
  /\ vm' = [vm EXCEPT ![v].phase = "Destroyed", ![v].key = "zeroized",
                      ![v].ram = "zeroed"]
  /\ Settle(v)
  /\ UNCHANGED snapshots

\* vm snapshot takes a paused or running guest ...
VmSnapshot(v, n) ==
  /\ Ready(v, {"Running", "Paused"}) /\ Room(2)
  /\ registry' = registry \ {v}
  /\ command' = SnapshotOf(v, n)
  /\ UNCHANGED <<receipts, vm, snapshots>>

Snapshotting(v, n, phase) ==
  command = SnapshotOf(v, n) /\ vm[v].phase = phase

\* ... pauses a running one ...
PauseForSnapshot(v, n) ==
  /\ Snapshotting(v, n, "Running")
  /\ Append1("vm_pause", v, "allow")
  /\ vm' = [vm EXCEPT ![v].phase = "Paused"]
  /\ UNCHANGED <<registry, command, snapshots>>

\* Faulty variants: the position before the append, and one too many.
TokenBefore == Len(receipts)
TokenPast == Len(receipts) + 2

\* The receipt that the proof token names is the one just appended.
TokenPosition == Len(receipts) + 1

\* ... and consumes it.  The proof token replaces any earlier one of the name.
Snapshot(v, n) ==
  /\ Snapshotting(v, n, "Paused")
  /\ Append1("snapshot", v, "allow")
  /\ vm' = [vm EXCEPT ![v] = Dropped(@, "Snapshotted")]
  /\ snapshots' = [m \in DOMAIN snapshots \cup {n} |->
                     IF m = n THEN [vm_id |-> v, receipt |-> TokenPosition]
                              ELSE snapshots[m]]
  /\ Settle(v)

-----------------------------------------------------------------------------
\* The steps a command in progress still has to make.
RuntimeStep(v) ==
  \/ Prepare(v) \/ Unlock(v) \/ Attach(v) \/ Run(v)
  \/ \E n \in SnapNames : PauseForSnapshot(v, n) \/ Snapshot(v, n)

Command(v) ==
  \/ VmVerifyPolicyDenied(v) \/ VmVerifyGateRefused(v) \/ VmVerifyApproved(v)
  \/ VmLaunch(v) \/ VmPause(v) \/ VmStop(v) \/ VmDestroy(v)
  \/ \E n \in SnapNames : VmSnapshot(v, n)

Next ==
  \/ \E c \in Capsules : VmDefine(c)
  \/ \E v \in VmIds : Command(v) \/ RuntimeStep(v)

Spec == Init /\ [][Next]_vars

-----------------------------------------------------------------------------
\* Type correctness.
TypeOK ==
  /\ receipts \in Seq(Audit!Receipt)
  /\ registry \subseteq VmIds
  /\ vm \in [VmIds -> [phase : Phases, capsule : Capsules \cup {NoCapsule},
                       key : KeyStates, ram : RamStates]]
  /\ command \in {NoCommand} \cup Commands
  /\ DOMAIN snapshots \subseteq SnapNames
  /\ \A n \in DOMAIN snapshots :
       /\ snapshots[n].vm_id \in VmIds
       /\ snapshots[n].receipt \in 1 .. Len(receipts)

\* The verdicts the last receipt of a VM may carry in each phase.  A failed
\* VM may also end in an allow receipt: a launch refused by check_launch or by
\* the memory checks records nothing.
PhaseVerdicts(p) ==
  CASE p = "Undefined"   -> {Audit!NoVerdict}
    [] p = "Defined"     -> {<<"vm_define", "allow">>}
    [] p = "Verified"    -> {<<"manifest_verify", "allow">>}
    [] p = "Prepared"    -> {<<"vm_prepare", "allow">>}
    [] p = "Unlocked"    -> {<<"key_release", "allow">>}
    [] p = "Attached"    -> {<<"device_assign", "allow">>}
    [] p = "Running"     -> {<<"vm_launch", "allow">>}
    [] p = "Paused"      -> {<<"vm_pause", "allow">>}
    [] p = "Stopped"     -> {<<"vm_stop", "allow">>}
    [] p = "Destroyed"   -> {<<"destroy", "allow">>}
    [] p = "Snapshotted" -> {<<"snapshot", "allow">>}
    [] p = "Failed"      -> {<<"vm_define", "allow">>,
                             <<"manifest_verify", "deny">>,
                             <<"manifest_verify", "allow">>,
                             <<"key_release", "deny">>,
                             <<"device_assign", "deny">>}

\* The audit chain and the registry tell one story: the last receipt about a
\* VM is the one its current stage was recorded with, whatever the commands
\* on other VMs appended to the shared chain meanwhile.
ChainMatchesStages ==
  \A v \in VmIds : \E q \in PhaseVerdicts(vm[v].phase) :
    Audit!Latest(receipts, v, q)

\* take removes a stage from the registry; on every path of every command,
\* failures included, the VM is back when the command returns.
NoVmLost ==
  \A v \in VmIds : vm[v].phase # "Undefined" =>
    \/ v \in registry
    \/ command = LaunchOf(v)
    \/ \E n \in SnapNames : command = SnapshotOf(v, n)

\* What every admitted guest must satisfy, stated from the requirements and
\* not from the gates that enforce them.
Admissible(c) ==
  /\ \E s \in c.signatures : s.alg_allowed /\ s.key_id \in c.allowed_key_ids
  /\ HypervisorVersion >= c.hypervisor_min_version
  /\ c.boot_policy_version >= c.tenant_min_boot_policy
  /\ c.measured_boot \/ ~PolicyDoc.require_measured_boot
  /\ ~c.requests_debug_console \/ PolicyDoc.allow_debug_console
  /\ c.key_unwrap_authorized /\ c.device_policy_ok
  /\ c.max_mb <= c.memory_budget_mb /\ c.max_mb < ReservedFloorMb
  /\ c.boot_policy_hash = KmsPolicy.expected_boot_policy_hash
  /\ c.capsule_hash \in KmsPolicy.allowed_capsule_hashes
  /\ \A reg \in DOMAIN KmsPolicy.expected_pcrs :
       reg \in DOMAIN c.pcrs /\ c.pcrs[reg] = KmsPolicy.expected_pcrs[reg]
  /\ c.passthrough = {} \/ PolicyDoc.allow_device_passthrough

\* Deny by default: a guest that has been launched has passed every gate of
\* the launch path, with the capsule it was last defined with.
LaunchedIsAdmissible ==
  \A v \in VmIds : vm[v].phase \in {"Running", "Paused", "Stopped"} =>
    Admissible(vm[v].capsule)

\* A released key exists only in a stage that still owns it, under a capsule
\* the KMS grants; a failed, destroyed or consumed VM holds neither a live key
\* nor RAM that is still assigned to it.
ResourcesFollowStage ==
  \A v \in VmIds :
    LET s == vm[v] IN
    /\ s.key = "held" <=>
         s.phase \in {"Unlocked", "Attached", "Running", "Paused", "Stopped"}
    /\ s.key = "held" => KmsGrants(s.capsule)
    /\ s.ram = "assigned" <=>
         s.phase \in {"Prepared", "Unlocked", "Attached", "Running", "Paused",
                      "Stopped"}
    /\ s.phase = "Destroyed" => s.key = "zeroized" /\ s.ram = "zeroed"

\* A retained snapshot token points at the snapshot receipt of its own VM,
\* although names are reused and other VMs' receipts follow.
SnapshotTokensAreAudited ==
  \A n \in DOMAIN snapshots :
    receipts[snapshots[n].receipt] =
      Audit!Rcpt("snapshot", snapshots[n].vm_id, "allow")

\* Failed, Destroyed and Snapshotted are terminal: the only step out of them is
\* a vm define that records a new definition.
TerminalUntilRedefined ==
  [][\A v \in VmIds :
       vm[v].phase \in {"Failed", "Destroyed", "Snapshotted"}
         /\ vm'[v] # vm[v] =>
       /\ vm'[v].phase = "Defined"
       /\ receipts' = Append(receipts, Audit!Rcpt("vm_define", v, "allow"))]_vars

\* The chain produced by any sequence of commands is one an auditor accepts.
AuditSpec == Audit!Spec

\* VmLifecycle: "Every method is fail-closed and appends an audit receipt."
\* A method call is a step that moves a VM to another phase.
EveryMethodAppendsReceipt ==
  [][(\E v \in VmIds : vm'[v].phase # vm[v].phase) => receipts' # receipts]_vars

=============================================================================
