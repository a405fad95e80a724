--------------------------- MODULE MCHyperControl ---------------------------
(***************************************************************************)
(* Values for the constants of HyperControl: the policy of                 *)
(* Control::new_local and one capsule per gate that can refuse a launch.   *)
(***************************************************************************)
EXTENDS HyperControl

MCPolicyDoc == default_policy_doc
MCKmsPolicy == default_kms

Trusted == [alg_allowed |-> TRUE, key_id |-> "key-good"]

GoodCapsule(v) ==
  [schema |-> CONTROL_CAPSULE_SCHEMA, manifest_schema |-> CAPSULE_SCHEMA,
   vm_id |-> v, signatures |-> {Trusted}, allowed_key_ids |-> {"key-good"},
   hypervisor_min_version |-> 10, boot_policy_version |-> 3,
   tenant_min_boot_policy |-> 2, measured_boot |-> TRUE,
   requests_debug_console |-> FALSE, key_unwrap_authorized |-> TRUE,
   device_policy_ok |-> TRUE, max_mb |-> 512, memory_budget_mb |-> 1024,
   passthrough |-> {}, capsule_hash |-> "capsule-local",
   boot_policy_hash |-> "bootpol-local", pcrs |-> default_pcrs]

\* One capsule refused at each point of the launch path.
ForeignCapsule(v)   == [GoodCapsule(v) EXCEPT !.manifest_schema = "other"]
UnsignedCapsule(v)  == [GoodCapsule(v) EXCEPT !.signatures = {}]
UntrustedCapsule(v) == [GoodCapsule(v) EXCEPT !.allowed_key_ids = {"other"}]
RollbackCapsule(v)  == [GoodCapsule(v) EXCEPT !.boot_policy_version = 1]
FutureCapsule(v)    == [GoodCapsule(v) EXCEPT !.hypervisor_min_version = 53]
UnmeasuredCapsule(v) == [GoodCapsule(v) EXCEPT !.measured_boot = FALSE]
OverBudgetCapsule(v) == [GoodCapsule(v) EXCEPT !.max_mb = 1025]
HugeCapsule(v) ==
  [GoodCapsule(v) EXCEPT !.max_mb = 2000, !.memory_budget_mb = 4000]
MissingPcrCapsule(v) == [GoodCapsule(v) EXCEPT !.pcrs = [pcr0 |-> "p0"]]
PassthroughCapsule(v) == [GoodCapsule(v) EXCEPT !.passthrough = {"gpu"}]

MCCapsules ==
  UNION {{GoodCapsule(v), ForeignCapsule(v), UnsignedCapsule(v),
          UntrustedCapsule(v), RollbackCapsule(v), FutureCapsule(v), UnmeasuredCapsule(v),
          OverBudgetCapsule(v), HugeCapsule(v), MissingPcrCapsule(v),
          PassthroughCapsule(v)} : v \in VmIds}

\* Every capsule for one of the VMs, and for the others one that launches.
FirstVm == CHOOSE v \in VmIds : TRUE
MCMixedCapsules ==
  {c \in MCCapsules : c.vm_id = FirstVm \/ c = GoodCapsule(c.vm_id)}

\* One that launches and one refused without a receipt.
MCSilentCapsules ==
  UNION {{GoodCapsule(v), OverBudgetCapsule(v)} : v \in VmIds}

=============================================================================
