# TLA+ models of the slate hypervisor

This directory holds TLA+ specifications of the parts of the repository that carry its own
protocol logic: the VM lifecycle and its control plane, the launch gates, the hash-chained logs,
guest memory, vCPU execution and scheduling, the device bus and the devices on it, the verified
block device, the network sandbox, and the planning, signing and attested unlock of encrypted
volumes. TLC checks the models on small instances; TLAPS proves the safety properties for every
value of the constants. Paths below are relative to the repository root.

Run a model with `tlc -config MCx.cfg MCx`, check proofs with `tlapm XProofs.tla`.

## 1. Inventory

| Component | Source | State | Operations | What makes it correct |
|---|---|---|---|---|
| Control plane | `crates/hyper-control/src/control.rs`, `apps/hyperctl` | registry id -> typed stage, snapshot tokens by name, one runtime | vm define / verify / launch / pause / snapshot / stop / destroy | no VM lost on an error path; terminal stages stay; tokens stay valid |
| Slate runtime | `crates/hyper-vm/src/runtime.rs` | the receipt chain, the KMS simulator, what each typed stage owns | define, verify, prepare, unlock, attach, run, pause, snapshot, stop, destroy | a guest runs only past every gate; keys and RAM follow the stage; the chain tells what happened |
| Launch gates | `hyper-capsule`, `hyper-policy` `engine.rs`, `document.rs`, `hyper-attest` `kms.rs`, `pcr.rs` | none (policies are fixed) | parsing and pure decisions | deny by default |
| Receipt chain, security log, earlier chain | `hyper-receipts` `receipt.rs`, `security.rs`, `lib.rs` | genesis hash, entries | append or push, verify, head_hash, to_json, from_json | damage to the stored form is detected, intact logs verify |
| Guest memory | `hyper-mm` | page state per host frame, mappings, next id, reserved range | mark_zeroed, map, allocate, unmap, translate, set_reserved_host_range | a freed frame is out of reach until it is marked zeroed, frames have one owner, W^X, reserved range unmapped, translations stay |
| vCPU run loop | `hyper-vcpu` | state, exit counter, last exit, intercept policy | run_loop, ExitDispatcher::handle / apply | fail closed; exit storms are killed; a stopped vCPU stays stopped |
| vCPU scheduler | `hyper-vcpu` | a queue per class, blocked set | enqueue, block, next_runnable | blocked vCPUs are not picked, round robin within a class |
| Device bus | `hyper-devices` | devices, MMIO, port and interrupt routes | register, MMIO and port access, tick, reset | an access reaches its one owner; a device changes only by its own accesses |
| Devices on the bus | `hyper-devices` `TestDevice`, `hyper-virtio` `console.rs`, `rng.rs`, `net.rs` | registers and ticks; output buffer; seed, counter, block, position; traffic; time | register access, drain, tick, reset | no byte lost or doubled; a stream is that of its seed |
| Virtio block device | `hyper-virtio/src/blk.rs` | selected sector, status, buffer, cursor; a backend it does not trust | select, load, read data, reset | the guest reads only verified bytes of the sector it loaded |
| Network sandbox | `hyper-net` | one rate window per switch, counters and policy per sandbox | make a sandbox, evaluate_flow, tick | gates in order; the shared window; counters; agreement with the policy engine |
| Volume unlock | `hyper-qrse` `unlock.rs`, `downgrade.rs`, `manifest.rs`, `keyslot.rs`, `combiner.rs`, `crypto.rs` | the shared chain; a monotonic counter kept by the caller | attested_hybrid_unlock | no key past a gate; no rollback; every key on the chain and bound to its request |
| Key hierarchy | `hyper-qrse/src/hierarchy.rs`, `hyper-storage/src/key_hierarchy.rs` | none | the standard tree, wrapping chains, rotation | the tables written by hand agree with the tree |
| Storage planning | `hyper-storage` `provisioning.rs`, `luks.rs`, `pqc.rs`, `attestation.rs` | none | plan, manifest, combiner context | what is planned can be unlocked, with the key the planner expects |
| qrsectl | `apps/qrsectl` | none | manifest verify, downgrade check | its exit codes agree with what unlock does |

How they interact: `hyperctl` calls `Control` commands; `Control` moves a typed stage through
`SlateRuntime` methods by value (a consumed stage cannot be used again); the runtime calls
capsule, policy, KMS, memory, device and vCPU crates in line; runtime and KMS append to one
receipt chain shared by all VMs. A volume is planned by `hyper-storage`, signed and unlocked by
`hyper-qrse`, which asks the KMS and appends to the chain it is given, and inspected with
`qrsectl`, which rebuilds the checks from its arguments. The switch of `hyper-net` decides on a
flow by itself and can state the same flow as a request to the policy engine. There are no threads
and no callbacks: every mutation goes through `&mut self`. What is hard is therefore not data races
but long sequences of commands on several VMs, half-completed commands, state that is checked at
one time and used at another, two pieces of code that must decide alike, counters and ranges at
their limits, a host that changes what a guest reads, and damage to what is stored between two
processes. Several crate files hold an older and a newer version of the same API one after the
other; the models follow the version that the runtime and its tests use.

The hazards that guide the properties are listed, each at its line, in `PROJECT.json`.

## 2. Modules

| Module | Models | Correspondence |
|---|---|---|
| `LaunchPolicy` | parsing of descriptor, manifest and policy document; the gates | one predicate per gate; a capsule is the record of what the gates read |
| `AuditLog` | abstract specification of the audit chain | `Record(r)`: a receipt may follow the last receipt of its VM in lifecycle order |
| `HyperControl` | control plane and runtime, extends `LaunchPolicy` | one action per runtime method; `command` names a multi-step command in progress; `registry`, `vm`, `receipts`, `snapshots` are the fields of `Control` and `SlateRuntime` |
| `ReceiptChain` | the three logs of `hyper-receipts` | `kind` says which log; a hash is the term it commits to; `stored` is the JSON document; `Damage`, `DamageGenesis` are the environment |
| `GuestMemory` | `NestedPageTable`, `PageZeroizer`, `InMemoryNpt` with guest addresses | frames are numbers; `ServedBy` is `translate`; `freed` is the history of frames taken from a guest and not marked zeroed since |
| `VcpuRun` | `run_loop`, `ExitDispatcher` | one action per loop iteration; an exit is the case of the dispatch it falls into |
| `Scheduler` | `Scheduler` | one action per call; `passed` is bookkeeping for a property |
| `QrseCrypto` | KEM, signer, hash and combiner of `hyper-qrse` | terms: two values are equal exactly when their inputs are |
| `QrseManifest` | the signed manifest, keyslots, downgrade check | a manifest is a record; a signature carries the MAC of the bytes it was made over |
| `KeyHierarchy` | the key tree, wrapping chains, rotation table | a node is its path of names |
| `VolumePlan` | `hyper-storage` | a plan is a record; its manifest and combiner context are functions of it |
| `QrseCtl` | `qrsectl manifest verify`, `downgrade check` | an operator per exit code |
| `QrseUnlock` | `attested_hybrid_unlock`, extends `QrseCtl` and `VolumePlan` | one action per gate |
| `VirtualDevices` | register file, console, random, network, clock | a device is a record; one operator per constructor and per `VirtualDevice` method |
| `DeviceBus` | `VirtualDeviceGraph`, route tables, extends `VirtualDevices` | one action per call; `asked`, `sent`, `heard` are histories |
| `VirtioBlk` | `VirtioBlk`, `InMemoryBlockBackend` | one action per register access and per call to the backend; a backend is its bytes and its sector size; a digest is what it commits to, for an image the concatenation of the sectors; `Tamper` is the environment |
| `VSwitch` | `VSwitch`, `NetworkSandbox`, `NetworkPolicy`, the engine's flow decision | one action per call; `admitted`, `asked` are histories |
| `MCx` | values for the constants of `x`; `MCVcpu` of `VcpuRun` and `Scheduler` | |
| `HyperControlProofs`, `GuestMemoryProofs`, `VcpuProofs` (run loop and scheduler), `QrseUnlockProofs`, `VirtioBlkProofs`, `ReceiptChainProofs`, `VSwitchProofs`, `DeviceBusProofs` | theorems | |

`HyperControl` composes the control plane, the runtime, the gates and the chain, and implements
`AuditLog` with `log <- receipts`. `QrseUnlock` composes planning, signing, the downgrade check, the
KMS's decision, the combiner and the operator's tool. `DeviceBus` composes the route tables with
five kinds of device. Text (reasons, ids of receipts, hashes of inputs) is left out; a call that
returns an error and changes nothing is a stuttering step. Operators whose comment begins with
"Faulty variant" are used by no specification: they are deliberately wrong forms of the operator
below them, which `PROJECT.json` pairs with the property that rejects them.

Points at which a model is narrower than its code, or a property than one might expect:

* `HyperControl` has no pause or stop of individual vCPU states and no step for the command line,
  which builds a fresh `Control` for every invocation. Every guest's RAM lies at the same host base
  (`GUEST_HPA_BASE`) in a table of its own, as in the code; the models of the control plane and of
  guest memory are not composed.
* `GuestMemory` counts in whole frames: all callers pass page-aligned ranges. The crate holds no
  page contents. `mark_zeroed`, and `allocate` in passing, record that a range is zeroed
  (`hyper-mm/src/lib.rs:335`, line 601); no code under `src/` writes the zeroes, `destroy` included,
  whose comment speaks of scrubbing (`hyper-vm/src/runtime.rs:782`). The properties are therefore
  about the states: nothing here says what a guest finds in a frame. Nor does the table check that a
  range handed to `mark_zeroed` or `allocate` is free, or that nothing is mapped in a new reserved
  range. So there are three specifications. `Spec` is any caller: `TypeOK` and `TranslationKept`
  hold. `ReserveSpec` is a caller that replaces the reserved range only by a range without mappings:
  `NoForbiddenMapping` and `HostTextUnmapped` hold, and are false for a caller that does not.
  `ContractSpec` also marks and allocates only free ranges: `FramesHaveOneOwner` and
  `FreedFramesUnreachable` hold. A caller that allocates one range twice and removes one of the
  mappings breaks both: the frames are then poisoned under the other one. The runtime keeps both
  contracts with one allocation per table. Two mappings may cover one guest address: the table
  accepts them and answers with the lower id. Calls on the zeroizer past the table
  (`zeroizer_mut().assign`, `poison`), which no caller makes, are left out.
* `ReceiptChain`: `verify` starts from the genesis hash found in the document, so what a retained
  head says about a rehydrated log (`HeadPinsHistory`) holds when that hash is compared too. The
  earlier chain's hash does not tell an absent policy from an empty one, and its `verify` does not
  look at the schema version; the model says both (`Told`, `LegacyOk`).
* `VcpuRun` calls the dispatcher through `run_loop` only. A denied register access leaves the vCPU
  runnable with a fault to inject; `FailClosed` is about the fatal exits. A killed vCPU's siblings are not
  stopped by anything in the crate; no caller of `run_loop` exists in the runtime yet.
* `DeviceBus` keeps interrupt routes and models no delivery: nothing in the crate delivers one.
  `RoutedToOwner` speaks of addresses below the top one; the top is disagreement 3 of section 3.
  `VirtioRng::reset` rewinds to the seed the guest last set, where the trait says "power-on state"
  (`hyper-devices/src/lib.rs:149`); `StreamFollowsSeed` is stated for what the code does.
* `VirtioBlk`: the digest of an image is taken over the sectors one after the other and commits to no
  sector size, which is a public field of the in-memory backend. `StreamIsVerified` therefore places
  what is read by the length of the buffer, which is the size the backend had. With an image digest
  the device fetches the sector first (`hyper-virtio/src/blk.rs:232`) and reads the image it hashes
  afterwards; the property holds there only if the backend does not change during the load
  (`steady`), and disagreement 4 of section 3 is one that does. With digests per sector nothing is
  assumed of the backend. The in-memory backend cannot change during a call; the trait
  `BlockBackend` does not say that a backend may not. Loads are the only multi-step operation, so no
  other access happens during one.
* `VSwitch`: `HostOnly` and `AttestedOverlay` pass the same gates as `Nat`, so the runs use `nat`
  for all modes that are not closed. The posture "allow" opens both directions in the policy
  engine and only the way out in the switch; `AdmittedIsPermitted` is the direction in which they
  agree. With limit 0 the flow counter is a `u32` that nothing bounds: it wraps at
  `WindowSize`, as in a build without overflow checks (one with them panics there).
* `QrseUnlock` keeps the monotonic counter as a careful caller would: the highest version
  accepted so far. The repository has no caller that persists it. Unlock does not compare the
  algorithms of the KEMs it is given with the suite of the manifest, and a wrong decapsulation key
  gives another secret, not an error; both follow from the terms.
* `KeyHierarchy`: the rotation table gives every key-encryption key a year, where the tree gives
  the tenant's a quarter and the classical leg's a month; `SlotsAreOnTree` leaves that class out.
* `VolumePlan`: a plan's default version is 1, which a stricter tenant floor refuses;
  `PlannedVolumesUnlock` says that the version is the only thing such a volume is refused for.
* `QrseCtl`: `qrsectl` rebuilds a verifier with the algorithm that each signature names, from the
  first seed given for its key; its downgrade check cannot be told that a tenant does not require
  post-quantum signatures.

## 3. Runs

| Run | Question | Bounds and why they suffice | Distinct states |
|---|---|---|---|
| `control` | Does the launch path admit only what it should, does every failure clean up, and do the commands of two VMs leave one coherent chain? | two VMs, eleven capsules for one (one refused at each gate) and a launching one for the other, one snapshot name, 9 receipts: a whole life takes eight (six to running, two to destroyed or snapshotted), so both kinds of life fit with a command of the other VM in between. Taking a snapshot name a second time takes two lives and is left to the theorem `TokensStayAudited` | 358,436 |
| `control_receipts` | "Every method ... appends an audit receipt" | violated: a refusal by the launch gate | |
| `memory` | Do frames have one owner, is what was freed out of reach until it is marked zeroed, and do translations stay? | four frames; equal, nested, adjacent, overlapping host ranges; two guest frames, so mappings shadow each other; three mapping ids. The specification is `ContractSpec` | 12,572 |
| `receipts` | Is damage detected, and what is intact accepted, by each of three logs? | absent, empty and named tags; three entries (a first, a middle and a last) and two damages | 1,393,230 |
| `vcpu` | Do fatal exits stop a vCPU for good, and is a storm killed at its limit? Is the scheduler fair, and free of stale entries? | loop: two vCPUs, budget 2 below storm limit 3, so that a storm spans several calls; a trapping and a partly open policy. Scheduler: three vCPUs (two to cycle and one to come and go), two classes. The two parts of the crate share no state and neither calls the other, so the run explores each while the other is idle | 53,296 |
| `unlock` | Can a key be had past a gate, unrecorded, for an old version, or for another request? Do planner and tool agree? | strict floor, versions 1 to 4 around floor 2, one request for each refusal and for each part a key is bound to, planned volumes below and above the floor; 6 receipts: three calls | 58,292 |
| `unlock_receipts` | "on any gate failure ... a deny receipt is recorded" | violated: a decapsulation error | |
| `devices` | Does an access reach its owner, also after refused registrations, and do devices keep what they were given? | address space 0..3 with ranges up to and past its top, three ports, two devices of five kinds, streams of five bytes over blocks of two and a counter of two, so that block, counter and position all wrap | 29,890 |
| `devices_top` | "Rejects ... ranges overlapping an existing route" | violated: two ranges over the last address | |
| `blk` | Does the guest read the sector it loaded and only verified bytes, whatever the host does? | up to four bytes in sectors of one or two: the expected image, a flipped byte, exchanged bytes, shorter and longer; policies of both kinds, with fewer digests than sectors, as many, and more; any change of bytes, length and sector size at any time | 1,057,894 |
| `blk_image` | "a single flipped byte makes the read fail closed" | violated: a backend that answers the fetch and the pass over the image differently | |
| `vswitch` | Do the sandboxes of a switch share its window, and does the engine agree? | two VMs (symmetric), limits 0, 1 and the largest a two-bit window holds, up to five allowed flows so that the window fills and the unlimited counter wraps, documents that parse and that do not | 71,346 |

Deadlock is checked except where a bound stops the system (`CHECK_DEADLOCK FALSE`: receipts,
mapping ids, asked flows and chain length run out, and a guest whose vCPUs have all stopped really
stops). `TypeOK` is an invariant of the run `control` only; the other modules' types are theorems
(`TypeCorrect`, `SchedulerTypeCorrect`) or parts of the inductive invariants in section 5.

### Disagreements between code and text

Four runs end in a violation; each quotes a statement the code does not keep:

1. `control_receipts`: `VmLifecycle` says "Every method is fail-closed and appends an audit
   receipt." (`hyper-vm/src/runtime.rs:311-312`); `verify` returns the error of `check_launch`
   (line 459), and `prepare` those of quota and page table, without one. The VM becomes `Failed`
   and the chain ends in an allow.
2. `unlock_receipts`: `attested_hybrid_unlock` says "on any gate failure returns an
   [`UnlockError`] (and a deny receipt is recorded)" (`hyper-qrse/src/unlock.rs:66-67`); errors of
   decapsulation and of the combiner return with no receipt, after the KMS recorded its allow.
3. `devices_top`: `insert` "Rejects zero-length ranges and ranges overlapping an existing route
   (fail closed)." (`hyper-devices/src/lib.rs:192-193`); exclusive ends that saturate at
   `u64::MAX` leave the last address out of the comparison.
4. `blk_image`: the module says "Every sector read re-hashes the bytes returned by the backend and
   compares them against the expectation: a single flipped byte makes the read fail closed."
   (`hyper-virtio/src/blk.rs:4-6`) and "any sector read first verifies the full image" (line 14);
   with an image digest the bytes returned are those fetched before (line 232), and what is hashed
   comes from further calls to the backend.

## 4. Fairness

One property is a liveness property, `NoStarvationAtTop`, under `Scheduler.FairSchedulerSpec`: weak
fairness of `next_runnable`. It is an assumption on the host, which asks for the next vCPU again and
again; the crate cannot keep it by itself. Nothing is assumed of `enqueue` and `block`. The commands
of the control plane and `run_loop` are straight-line code and a counted loop under `&mut self`;
that they return is plain from their text and is not stated as a property.

## 5. Proofs

All theorems hold for every value of the constants that satisfies the named ASSUMEs of the
modules (`PolicyAssumption`, `ControlAssumption`, `NoCommandAssumption`, `MemoryAssumption`,
`VcpuAssumption`, `SchedulerAssumption`, `UnlockAssumption`, `BlkAssumption`, `ChainAssumption`,
`SwitchAssumption`, `TrustAssumption`, `DeviceAssumption`, `BusAssumption`): any number of VMs,
capsules, frames, vCPUs, classes, requests, plans, sectors, entries, sandboxes, devices, any address
space and any block length. `TrustAssumption` is about the operator's arguments: the seeds given to
`qrsectl` are those of the keys the caller of the unlock trusts, and the tenant requires
post-quantum signatures. Without either the tool and the unlock may differ (section 2, `QrseCtl`).

* `HyperControlProofs`. `TypeOK` is inductive. `ChainMatchesStages` is inductive with it: two
  lemmas say what appending one receipt does to the last receipt of its own VM and of any other,
  and every action either records the verdict of the phase it enters or keeps both. From it,
  `AuditStep` shows that each step is one of `AuditLog` (or leaves the chain), which gives the
  refinement `ChainImplementsAuditLog` and, because such a step only appends,
  `TokensStayAudited`. `OnlyAdmissibleGuestsRun` and `ResourcesAlwaysFollowStage` come from the
  stronger invariant `StageInv`: in each phase the capsule has passed exactly the gates before
  that phase, and key and RAM are what the phase owns. `LaunchedIsAdmissible` alone is not
  inductive, since it says nothing of the phases in which the gates are passed.
* `GuestMemoryProofs`. `TypeOK` and `TranslationKept` for any caller: new ids are above all live
  ones. `NoForbiddenMapping` and `HostTextUnmapped` for `ReserveSpec`, from the lemmas that two
  half-open intervals share a frame exactly when `Overlaps` says so. For `ContractSpec` the invariant is the conjunction `ContractInv`: assigned
  frames are exactly the mapped ones, mappings share no frame, and freed frames are poisoned; none
  of the three is inductive alone. Unmapping poisons no frame of another mapping because frames are
  exclusive; a new mapping is exclusive because what it maps is zeroed or free and so not assigned;
  `FreedFramesUnreachable` follows, since a poisoned frame is not assigned and so not mapped.
* `VcpuProofs`. Of the run loop, exit count, state and last exit agree; the storm bound needs that
  a vCPU whose budget is passed has been killed and so is not run again. Of the scheduler, queues
  hold a vCPU at most once, so that `Without`, which removes one entry, is the code's `retain`,
  which removes all. `RoundRobin` is not inductive: the invariant adds that whoever was picked from
  a class since a vCPU began to wait there stands behind it in the queue, so the front of the queue
  is none of them. The lemmas say what `Push`, `Rotate` and `Without` do to the order of two members.
* `QrseUnlockProofs`. The invariant says at each gate which requirements the request in progress
  has met, and before the combiner that the chain ends in the KMS's allow. `KeysAreBound` shows
  that the term of a key determines the manifest, device, boot policy hash and secrets it was
  derived from, and the converse. For `CtlAlwaysAgrees` the invariant `Verdicts` keeps why the last
  call ended as it did, also after the counter moved on: an accepted version raises the counter to
  itself and is accepted again. `SameVerification` shows that the verifiers the tool builds accept
  what the caller's accept. `PlannedVolumesAlwaysUnlock` needs what a plan's two keyslots are
  (`PlannedSlots`). For `SlotsAlwaysOnTree` the last name of a path settles class and rotation of
  its node (`TreeNamed`), so that the walk from the root to a data key reads them off the names, and
  the chain that the storage layer states is that reading.
* `VirtioBlkProofs`. `StreamIsVerified` is not inductive: the invariant adds that what was read is
  the buffer up to the cursor and what the buffer is. For digests per sector that is the expected
  sector, with no condition on the backend. For an image the invariant says that, as long as the
  backend held still, what a load has fetched is still there and what it has read is the
  concatenation of the sectors so far; a sector is then the piece of the concatenation that begins
  at its number times its size, so that comparing the whole says something of the sector fetched
  before. `VerifiedBackendAlwaysLoads`, for both kinds of policy, needs one part more: while the
  backend held still, the sector a load asks for exists.
* `ReceiptChainProofs`. One lemma, `AppendVerdict`, says that an entry made for the head of a log
  leaves what `verify` asks of the others alone; it gives `UndamagedLogsVerify` and
  `AppendingKeepsVerdict` for logs of any length. For `HeadsPinHistory` the invariant `HeadInv`
  keeps, of the log that a head was taken from, that it verified from the anchor. Two logs that
  verify and share a hash then share their past (`SharedHashSharedPast`): a hash commits to its
  entry and its link, no hash is an anchor, and the least place at which the logs parted would have
  a predecessor at which they do.
* `VSwitchProofs`. The window equals the flows admitted since the tick as long as there is a
  limit, because the limit is below the size of the counter; counters and calls move together.
* `DeviceBusProofs`. `RouteInv`: a table holds exactly the ranges that the devices were registered
  with (`Exact`) and no two of them overlap. A registration adds one range (`RangeAdded`) or is taken
  back without a trace (`RollBackRestores`), since the number of a refused device is new. From it
  `RoutesReachOwner` and `WritesAlwaysStayInRange` follow. `DeviceInv`: each device and its
  histories tell one `Story`. For a console it is the property itself. For a random device
  `StreamFollowsSeed` says nothing of the device's registers, so the story adds that they are those
  after as many bytes as were handed out (`RngAfter`); `OneByte` shows that one more byte keeps
  this across the end of a block and the wrap of the counter, and `TakenIsStream` that a read of any
  width does, the recursion of `Taken` having one solution.

Only model-checked: liveness (`NoStarvationAtTop`; TLAPS does not reason about fairness), and that
the four disagreements of section 3 are reachable. Every other
property of a run is a theorem.

Every invariant was checked by TLC before it was proved (except, in `DeviceBusProofs`, the set
the `heard` histories belong to: TLC cannot compare a console's number with the triple that
stands for a byte of a random stream). An action that gains a case breaks the
proof step named after it; the steps of the step lemmas follow the disjuncts of `Next`.

## 6. Not modelled

* `hyper-vm/src/model.rs` and the older launch policy in `hyper-policy/src/lib.rs`: a typestate
  lifecycle superseded by the runtime and used by nothing else. Its receipt chain is one of the
  logs of `ReceiptChain`.
* `evaluate_key_release` of the policy engine, measured-boot records and KMS evidence: pure
  decisions that the runtime does not call.
* Release of a memory quota, the region map and trap registry of `hyper-mm`: bookkeeping that the
  runtime fills once. Ranges that are not page aligned: no caller passes one.
* `hyper-x86`, `hyper-amd-svm`, `hyper-slate-core`, the UEFI probe: register layouts and hardware
  access. `hyper-pn52` and the doctor: an inventory and its report.
* The KMS prototype, a command line around the KMS simulator, and the printing commands of
  `hyperctl` and `qrsectl`.

## 7. Plan

The modules of section 2 are done, with theorems for every one that has a specification. What a
next step would add, in order of importance:

1. `HyperControl` composed with one `GuestMemory` per VM: the abandoned RAM of failed and
   overwritten VMs against the page states, once a host backend shares frames between tables.
2. `VcpuRun` composed with `Scheduler`, once the runtime calls `run_loop`: stopped vCPUs that stay
   queued, and the kill of a whole guest.
3. Measured boot and key-release evidence, once the runtime consults them.
