------------------------------ MODULE VolumePlan ------------------------------
(***************************************************************************)
(* Provisioning of a volume (hyper-storage): a plan becomes an unsigned    *)
(* manifest with a passphrase slot and a hybrid slot, and the storage      *)
(* layer states the combiner context and the wrapping chain it expects of  *)
(* the control plane.                                                      *)
(*                                                                         *)
(* What the unlock does not read goes into `rest' of the manifest's body:  *)
(* the data plane, the dates, PCR profile and rollback counter of the boot *)
(* policy, key versions and audit anchor.                                  *)
(***************************************************************************)
EXTENDS QrseManifest, KeyHierarchy

AES_256_XTS_ARGON2ID ==
  [cipher |-> "aes-xts-plain64", key_size_bits |-> 512, pbkdf |-> "argon2id"]

LAB_POLICY == [required_pcrs |-> {0, 7, 11}, require_secure_boot |-> FALSE]

\* The statically known suites.
DEFAULT_TRANSITION_SUITE ==
  [classical |-> "x25519", pqc |-> "ml-kem-768", combiner |-> "hkdf-sha384"]
HIGH_ASSURANCE_SUITE == [DEFAULT_TRANSITION_SUITE EXCEPT !.pqc = "ml-kem-1024"]

\* VolumeProvisioning::new: the lab defaults, which a caller may overwrite.
NewPlan(volume_id, profile, suite) ==
  [volume_id |-> volume_id, profile |-> profile, suite |-> suite,
   attestation |-> LAB_POLICY, boot_policy_id |-> "pol-boot-v1",
   min_boot_manifest_version |-> 1, vmk_version |-> 1, dek_version |-> 1]

\* Luks2Profile::data_plane.
DataPlane(profile) ==
  [cipher |-> "AES-256-XTS", xts_raw_key_bits |-> profile.key_size_bits,
   sector_size |-> 4096, integrity |-> "none"]

\* Luks2Profile::argon2id_keyslot makes no slot for another key derivation.
IsArgon2id(profile) == profile.pbkdf \in {"argon2id", "Argon2id"}

NoSuite == [classical |-> "", pqc |-> "", combiner |-> ""]
PassphraseSlot == Slot("active", "argon2id_passphrase", NoSuite)
HybridKeyslot(plan) == Slot("active", "hybrid_remote_kms", plan.suite)

\* VolumeProvisioning::manifest answers Ok, and the manifest.
Plannable(plan) == IsArgon2id(plan.profile)

PlannedManifest(plan) ==
  [format |-> QRSD_FORMAT, signatures |-> <<>>,
   body |->
     [volume_id |-> plan.volume_id, policy_id |-> plan.boot_policy_id,
      version |-> plan.min_boot_manifest_version,
      keyslots |-> <<PassphraseSlot, HybridKeyslot(plan)>>,
      rest |-> <<DataPlane(plan.profile), plan.attestation,
                 plan.vmk_version, plan.dek_version>>]]

\* Faulty variant: the id of the volume stands where the policy's belongs.
ContextOfVolume(plan, device_id, boot_measurement) ==
  [volume_id |-> plan.volume_id, device_id |-> device_id,
   policy_id |-> plan.volume_id,
   policy_version |-> plan.min_boot_manifest_version,
   algorithm_suite |-> plan.suite, boot_measurement |-> boot_measurement]

\* build_combiner_context, of what the plan says.
BuildCombinerContext(plan, device_id, boot_measurement) ==
  [volume_id |-> plan.volume_id, device_id |-> device_id,
   policy_id |-> plan.boot_policy_id,
   policy_version |-> plan.min_boot_manifest_version,
   algorithm_suite |-> plan.suite, boot_measurement |-> boot_measurement]

\* StorageKeyHierarchy::from_manifest: the flat summary, and wrapping_chain_for.
Summary(m) ==
  [volume_id |-> m.body.volume_id,
   keyslots |-> [i \in DOMAIN m.body.keyslots |->
                   [kind |-> m.body.keyslots[i].kind,
                    status |-> m.body.keyslots[i].status]]]
WrappingChainFor(summary, i) == WrappingChain(summary.keyslots[i].kind)
=============================================================================
