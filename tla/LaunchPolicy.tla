---------------------------- MODULE LaunchPolicy ----------------------------
(***************************************************************************)
(* The gates a VM capsule passes on its way to a running guest: manifest   *)
(* verification and launch gate (hyper-capsule), policy engine             *)
(* (hyper-policy), attested key release (hyper-attest) and the quota and   *)
(* reserved-range checks of guest memory (hyper-mm).                       *)
(*                                                                         *)
(* A capsule is a record of what the gates read.  Hashes, key ids and PCR  *)
(* values are compared only for equality, so they are arbitrary values.    *)
(* The reason of a refusal is text the state machine never reads again, so *)
(* a gate is a predicate and the order of its tests is left out.           *)
(***************************************************************************)
EXTENDS Integers

CONSTANTS
  HypervisorVersion,  \* SlateRuntime.hypervisor_version
  PolicyDoc,          \* the PolicyDocument fields the engine reads
  KmsPolicy,          \* the KmsPolicy pinned by the simulator
  ReservedFloorMb     \* smallest guest size, in MiB, that reaches the
                      \* reserved host range from GUEST_HPA_BASE

\* KeyReleasePolicy::unlock_mode knows these modes.
UnlockModes == {"passphrase_only", "tpm2_pcr_policy", "tpm2_pin",
                "fido2_hmac_secret", "smartcard_pkcs11", "remote_attested_kms",
                "threshold_recovery", "hybrid_classical_pqc"}

POLICY_SCHEMA_VERSION == 1

\* PolicyDocument::parse accepts the document.
PolicyParses(doc) ==
  /\ doc.schema_version = POLICY_SCHEMA_VERSION
  /\ doc.network_default \in {"deny", "allow"}
  /\ doc.key_release_mode \in UnlockModes

ASSUME PolicyAssumption ==
  /\ PolicyParses(PolicyDoc)
  /\ HypervisorVersion \in Nat
  /\ ReservedFloorMb \in Nat
  /\ PolicyDoc.minimum_hypervisor_version \in Nat
  /\ KmsPolicy.min_hypervisor_version \in Nat

\* What deserialization leaves of the parts of a descriptor: the signed
\* manifest, the launch policy beside it and the key plan.
ManifestTyped(c) ==
  {c.max_mb, c.hypervisor_min_version, c.boot_policy_version} \subseteq Nat
VmPolicyTyped(c) ==
  /\ {c.tenant_min_boot_policy, c.memory_budget_mb} \subseteq Nat
  /\ {c.measured_boot, c.requests_debug_console, c.key_unwrap_authorized,
      c.device_policy_ok} \subseteq BOOLEAN

CONTROL_CAPSULE_SCHEMA == "chain.control.capsule.v1"
CAPSULE_SCHEMA == "chain.vm_capsule.v1"

\* AllowlistVerifier::verify: one signature of an allowed algorithm by a key
\* of the descriptor's own allowlist is enough.
SignaturesValid(c) ==
  \E s \in c.signatures : s.alg_allowed /\ s.key_id \in c.allowed_key_ids

\* parse_manifest accepts the descriptor's manifest.
ManifestParses(c) == c.manifest_schema = CAPSULE_SCHEMA

\* hyper_capsule::verify, as ControlCapsuleSpec::into_capsule calls it.
ManifestVerifies(c) ==
  /\ c.signatures # {}
  /\ SignaturesValid(c)
  /\ HypervisorVersion >= c.hypervisor_min_version
  /\ c.boot_policy_version >= c.tenant_min_boot_policy

\* ControlCapsuleSpec::into_capsule.
IntoCapsule(c) ==
  /\ c.schema = CONTROL_CAPSULE_SCHEMA
  /\ ManifestParses(c)
  /\ ManifestVerifies(c)

\* DefaultPolicyEngine::evaluate_vm_launch.  It never answers RequireApproval.
PolicyAllowsLaunch(c) ==
  /\ HypervisorVersion >= PolicyDoc.minimum_hypervisor_version
  /\ PolicyDoc.require_signed_manifest => SignaturesValid(c)
  /\ PolicyDoc.require_measured_boot => c.measured_boot
  /\ c.requests_debug_console => PolicyDoc.allow_debug_console

\* check_launch, with the context SlateRuntime::verify builds: debug_override
\* is FALSE there and the expected image hash is the manifest's own.
LaunchGatePasses(c) ==
  /\ SignaturesValid(c)
  /\ HypervisorVersion >= c.hypervisor_min_version
  /\ c.boot_policy_version >= c.tenant_min_boot_policy
  /\ c.key_unwrap_authorized
  /\ c.device_policy_ok
  /\ c.max_mb <= c.memory_budget_mb

\* MemoryQuotaManager::try_reserve on the fresh quota of SlateRuntime::prepare,
\* then the overlap check of NestedPageTable::allocate.  The other checks of
\* allocate hold by construction: len is at least a page and RW is not W+X.
MemoryFits(c) ==
  /\ c.max_mb <= c.memory_budget_mb
  /\ c.max_mb < ReservedFloorMb

\* Faulty variant: only registers both sides name are compared.
CommonPcrsMatch(c) ==
  \A reg \in DOMAIN KmsPolicy.expected_pcrs \cap DOMAIN c.pcrs :
    c.pcrs[reg] = KmsPolicy.expected_pcrs[reg]

\* KmsSimulator::deny_reason_for.  A register the request leaves out is a
\* mismatch (PcrBank::first_mismatch).
PcrsMatch(c) ==
  \A reg \in DOMAIN KmsPolicy.expected_pcrs :
    reg \in DOMAIN c.pcrs /\ c.pcrs[reg] = KmsPolicy.expected_pcrs[reg]

KmsGrants(c) ==
  /\ c.boot_policy_hash = KmsPolicy.expected_boot_policy_hash
  /\ PcrsMatch(c)
  /\ c.capsule_hash \in KmsPolicy.allowed_capsule_hashes
  /\ HypervisorVersion >= KmsPolicy.min_hypervisor_version

\* evaluate_device_assignment over every passthrough device of the capsule.
DevicesAssignable(c) ==
  c.passthrough # {} => PolicyDoc.allow_device_passthrough

=============================================================================
