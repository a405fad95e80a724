------------------------------ MODULE QrseUnlock ------------------------------
(***************************************************************************)
(* The attested hybrid unlock of a volume (hyper-qrse unlock.rs):          *)
(* attested_hybrid_unlock takes a request through six gates to a key       *)
(* encryption key and appends receipts to the audit chain it shares with   *)
(* the KMS simulator.  One action is one gate of one call.                 *)
(*                                                                         *)
(* A request holds the manifest, the boot measurement, the device and the  *)
(* two KEM legs the caller brings.  The checks of the KMS are those of     *)
(* LaunchPolicy!KmsGrants; here a measurement is granted or not.           *)
(***************************************************************************)
EXTENDS QrseCtl, VolumePlan

CONSTANTS
  Requests,
  Verifiers,    \* the verifiers the caller trusts
  Granted,      \* measurements the KMS policy grants
  Floor,        \* VersionFloor
  Trust,        \* the operator's --trust arguments
  Plans,        \* plans of volumes with a post-quantum suite
  MaxReceipts,  \* bound: length of the chain a run explores
  NoRequest

ASSUME UnlockAssumption ==
  /\ \A r \in Requests :
       /\ r.manifest.body.version \in Nat
       /\ \A s \in Slots(r.manifest) : s.kind \in PlainKinds \cup {"hybrid_remote_kms"}
  /\ Floor.tenant_min_manifest_version \in Nat
  /\ MaxReceipts \in Nat
  /\ \A plan \in Plans : plan.suite.pqc # ""
  /\ NoRequest \notin Requests

\* The operator is given the seeds of the keys the caller trusts: every verifier of the
\* caller is the first entry for its key, and a first entry that accepts a signature of
\* a request, with the algorithm the signature names, is a verifier of the caller.  The
\* tenant requires post-quantum, for which the command has no option.
ASSUME TrustAssumption ==
  /\ Floor.require_pqc_signature
  /\ ParsesTrust(Trust)
  /\ \A v \in Verifiers : \E j \in DOMAIN Trust :
       /\ FirstFor(Trust, j)
       /\ v = VerifierOf(NewSigner(v.algorithm, Trust[j].key_id, Trust[j].seed, 1))
  /\ \A r \in Requests : \A i \in DOMAIN r.manifest.signatures, j \in DOMAIN Trust :
       LET signature == r.manifest.signatures[i]
           v == VerifierOf(NewSigner(signature.algorithm, Trust[j].key_id, Trust[j].seed, 1))
       IN  (FirstFor(Trust, j) /\ VerifySignature(v, SigningBytes(r.manifest), signature))
             => v \in Verifiers

VARIABLES
  log,      \* the receipts of the chain: who decided, and how
  step,     \* the gate the call has reached, or idle
  req,      \* the request of the call
  counter,  \* the device's monotonic counter
  outcome,  \* what the last call returned
  released  \* history: the keys handed out, with their requests

vars == <<log, step, req, counter, outcome, released>>

Gates == {"verify", "downgrade", "suite", "attest", "decapsulate", "combine"}
Errors == {"ManifestVerification", "Downgrade", "NoHybridKeyslot",
           "AttestationDenied", "Crypto"}
Receipts == [policy : {"qrse", "kms"}, decision : {"allow", "deny"}]

Rcpt(p, d) == [policy |-> p, decision |-> d]

Init ==
  /\ log = <<>>
  /\ step = "idle"
  /\ req = NoRequest
  /\ counter = 0
  /\ outcome = "none"
  /\ released = {}

-----------------------------------------------------------------------------
Unlockable(s) == IsActive(s) /\ IsHybrid(s) /\ ~ClassicalOnly(s)

HasHybridSuite(m) == \E s \in Slots(m) : Unlockable(s)

\* The suite of the first slot that unlocks.
HybridSuite(m) ==
  LET slots == m.body.keyslots
      i == CHOOSE n \in DOMAIN slots :
             Unlockable(slots[n]) /\ \A k \in 1 .. n - 1 : ~Unlockable(slots[k])
  IN slots[i].kem

\* The combiner context: of the measurement, the boot policy hash only.
Context(r) ==
  [volume_id |-> r.manifest.body.volume_id, device_id |-> r.device_id,
   policy_id |-> r.manifest.body.policy_id,
   policy_version |-> r.manifest.body.version,
   algorithm_suite |-> HybridSuite(r.manifest),
   boot_measurement |-> r.measurement.boot_policy_hash]

Decapsulable(r) == Decapsulates(r.classical) /\ Decapsulates(r.pqc)

Combinable(r) == Combines(Decapsulated(r.classical), Decapsulated(r.pqc), KEK_LEN)

KekOf(r) ==
  HybridCombine(Decapsulated(r.classical), Decapsulated(r.pqc),
                SigningBytes(r.manifest), Context(r), KEK_LEN)

-----------------------------------------------------------------------------
Record(p, d) == log' = Append(log, Rcpt(p, d))

Return(o) == step' = "idle" /\ outcome' = o

\* Gates of the call in progress: on to the next one, or record_deny and return.
At(g) == step = g
Pass(next) == step' = next /\ UNCHANGED <<log, req, counter, outcome, released>>
Refuse(error) ==
  /\ Record("qrse", "deny")
  /\ Return(error)
  /\ UNCHANGED <<req, counter, released>>

Start(r) ==
  /\ step = "idle" /\ Len(log) + 2 <= MaxReceipts
  /\ step' = "verify"
  /\ req' = r
  /\ outcome' = "none"
  /\ UNCHANGED <<log, counter, released>>

VerifyManifest ==
  /\ At("verify")
  /\ \/ ManifestVerified(req.manifest, Verifiers) /\ Pass("downgrade")
     \/ ~ManifestVerified(req.manifest, Verifiers) /\ Refuse("ManifestVerification")

CheckDowngrade ==
  /\ At("downgrade")
  /\ \/ DowngradeAccepted(req.manifest, Floor, counter) /\ Pass("suite")
     \/ ~DowngradeAccepted(req.manifest, Floor, counter) /\ Refuse("Downgrade")

PickSuite ==
  /\ At("suite")
  /\ \/ HasHybridSuite(req.manifest) /\ Pass("attest")
     \/ ~HasHybridSuite(req.manifest) /\ Refuse("NoHybridKeyslot")

\* KmsSimulator::evaluate appends the receipt of either decision.
Attest ==
  /\ At("attest")
  /\ UNCHANGED <<req, counter, released>>
  /\ \/ /\ req.measurement \in Granted
        /\ Record("kms", "allow")
        /\ step' = "decapsulate"
        /\ UNCHANGED outcome
     \/ /\ req.measurement \notin Granted
        /\ Record("kms", "deny")
        /\ Return("AttestationDenied")

\* Both legs are decapsulated; an error of either returns at once.
Decapsulate ==
  /\ At("decapsulate")
  /\ \/ Decapsulable(req) /\ Pass("combine")
     \/ /\ ~Decapsulable(req)
        /\ Return("Crypto")
        /\ UNCHANGED <<log, req, counter, released>>

\* Faulty variant: the key is returned without the closing receipt.
RecordNothing == UNCHANGED log

RecordUnlock == Record("qrse", "allow")

\* The counter holds the highest version accepted so far; the caller keeps it
\* and passes it to every call.
Accept(r) ==
  LET version == r.manifest.body.version IN
  counter' = IF version > counter THEN version ELSE counter

\* hybrid_combine refuses a dead leg; a live pair gives the key.
Combine ==
  /\ At("combine")
  /\ UNCHANGED req
  /\ \/ /\ Combinable(req)
        /\ released' = released \cup {[kek |-> KekOf(req), request |-> req]}
        /\ RecordUnlock
        /\ Return("kek")
        /\ Accept(req)
     \/ /\ ~Combinable(req)
        /\ Return("Crypto")
        /\ UNCHANGED <<log, counter, released>>

GateStep ==
  \/ VerifyManifest \/ CheckDowngrade \/ PickSuite
  \/ Attest \/ Decapsulate \/ Combine

Next == GateStep \/ \E r \in Requests : Start(r)

Spec == Init /\ [][Next]_vars

-----------------------------------------------------------------------------
TypeOK ==
  /\ log \in Seq(Receipts)
  /\ step \in Gates \cup {"idle"}
  /\ req \in Requests \cup {NoRequest}
  /\ counter \in Nat
  /\ outcome \in Errors \cup {"none", "kek"}
  /\ step # "idle" => req \in Requests /\ outcome = "none"

\* A key is handed out only for a request that meets every requirement: a trusted
\* post-quantum key signed exactly this body, the version is at the tenant's floor,
\* an active hybrid slot has both legs and no hybrid slot lost its own where the
\* floor requires post-quantum, the measurement is granted and both legs are live.
KekMeetsPolicy ==
  outcome = "kek" =>
    /\ \E v \in Verifiers, i \in DOMAIN req.manifest.signatures :
         /\ v.algorithm \in PqSignatureAlgs
         /\ req.manifest.signatures[i].mac = Mac(v, SigningBytes(req.manifest))
    /\ req.manifest.body.version >= Floor.tenant_min_manifest_version
    /\ \E s \in Slots(req.manifest) :
         s.status = "active" /\ s.kind = "hybrid_remote_kms" /\ s.kem.pqc # ""
    /\ Floor.require_pqc_signature /\ ~Floor.allow_classical_only =>
         \A s \in Slots(req.manifest) : s.kind = "hybrid_remote_kms" => s.kem.pqc # ""
    /\ req.measurement \in Granted
    /\ \A leg \in {req.classical, req.pqc} :
         leg.dk # Empty /\ leg.ct # Empty /\ ~leg.dead

\* Once a key was handed out for a manifest version, no later call hands one out for
\* an older version.
NoRollback ==
  [][outcome # "kek" /\ outcome' = "kek" =>
       req.manifest.body.version >= counter]_vars

\* A key is always on the chain: handed out right after the unlock's own receipt,
\* which follows the release by the KMS.
KekIsRecorded ==
  outcome = "kek" =>
    /\ Len(log) >= 2
    /\ log[Len(log)] = Rcpt("qrse", "allow")
    /\ log[Len(log) - 1] = Rcpt("kms", "allow")

\* "Change any of it and the KEK changes": two calls hand out the same key exactly
\* when they agree on the signed manifest, the device, the boot policy hash and the
\* secrets of both legs; signatures, and the rest of the measurement, do not count.
KekBindsRequest ==
  \A a, b \in released :
    a.kek = b.kek <=>
      /\ a.request.manifest.format = b.request.manifest.format
      /\ a.request.manifest.body = b.request.manifest.body
      /\ a.request.device_id = b.request.device_id
      /\ a.request.measurement.boot_policy_hash = b.request.measurement.boot_policy_hash
      /\ Decapsulated(a.request.classical) = Decapsulated(b.request.classical)
      /\ Decapsulated(a.request.pqc) = Decapsulated(b.request.pqc)

\* The operator's downgrade check, given the same floor and counter and the seeds of
\* the trusted keys, exits 3 exactly for the manifests that unlock refuses as a
\* downgrade, and 0 for every manifest that passes the two gates.
CtlAgreesWithUnlock ==
  step = "idle" /\ req # NoRequest =>
    LET file == [readable |-> TRUE, parses |-> TRUE, manifest |-> req.manifest]
        exit == DowngradeCheckExit(file, Floor.tenant_min_manifest_version, counter,
                                   Floor.allow_classical_only, Trust)
    IN /\ outcome = "Downgrade" <=> exit = 3
       /\ outcome \notin {"Downgrade", "ManifestVerification"} => exit = 0

\* The chain of key classes that the storage layer states for a keyslot of the manifest
\* is a path of the tree the hierarchy builds.
SlotsAreOnTree ==
  req # NoRequest =>
    \A i \in DOMAIN req.manifest.body.keyslots :
      OnTree(WrappingChainFor(Summary(req.manifest), i))

\* A volume as it was planned unlocks to the key that the storage layer derives with
\* the context it builds of the plan, and is refused for its version only, never for
\* its keyslots.
PlannedVolumesUnlock ==
  \A plan \in Plans :
    /\ \A k \in released : k.request.manifest.body = PlannedManifest(plan).body =>
         k.kek = HybridCombine(Decapsulated(k.request.classical),
                               Decapsulated(k.request.pqc),
                               SigningBytes(PlannedManifest(plan)),
                               BuildCombinerContext(plan, k.request.device_id,
                                 k.request.measurement.boot_policy_hash), KEK_LEN)
    /\ step = "idle" /\ req # NoRequest /\ req.manifest.body = PlannedManifest(plan).body =>
         /\ outcome # "NoHybridKeyslot"
         /\ outcome = "Downgrade" =>
              plan.min_boot_manifest_version
                < IF Floor.tenant_min_manifest_version > counter
                    THEN Floor.tenant_min_manifest_version ELSE counter

\* "On any gate failure returns an UnlockError (and a deny receipt is recorded)".
FailureIsRecorded ==
  [][outcome = "none" /\ outcome' \in Errors =>
       /\ Len(log') = Len(log) + 1
       /\ log'[Len(log')].decision = "deny"]_vars

=============================================================================
