-------------------------- MODULE QrseUnlockProofs --------------------------
(***************************************************************************)
(* What the unlock guarantees for every set of requests and every floor.   *)
(* The gates run in a fixed order, so the request that stands at a gate    *)
(* has passed every gate before it; with the receipts written on the way   *)
(* this is the inductive invariant.                                        *)
(***************************************************************************)
EXTENDS QrseUnlock, SequenceTheorems, TLAPS

\* The gates a request has passed when the call stands at step s.
Verified == step \in {"downgrade", "suite", "attest", "decapsulate", "combine"}
Current  == step \in {"suite", "attest", "decapsulate", "combine"}
Suited   == step \in {"attest", "decapsulate", "combine"}
Released == step \in {"decapsulate", "combine"}

GatesPassed ==
  /\ Verified => ManifestVerified(req.manifest, Verifiers)
  /\ Current => DowngradeAccepted(req.manifest, Floor, counter)
  /\ Suited => HasHybridSuite(req.manifest)
  /\ Released => /\ req.measurement \in Granted
                 /\ log # <<>> /\ log[Len(log)] = Rcpt("kms", "allow")
  /\ step = "combine" => Decapsulable(req)

\* What a request has to meet, once it passed the gates and both legs are live.
MeetsPolicy(r) ==
  /\ ManifestVerified(r.manifest, Verifiers)
  /\ DowngradeAccepted(r.manifest, Floor, counter)
  /\ HasHybridSuite(r.manifest)
  /\ r.measurement \in Granted
  /\ Decapsulable(r) /\ Combinable(r)

\* Every key is the key of the request it was handed out for.
KeysOfRequests ==
  \A k \in released : k.request \in Requests /\ k.kek = KekOf(k.request)

IInv == TypeOK /\ GatesPassed /\ KekMeetsPolicy /\ KekIsRecorded /\ KeysOfRequests

-----------------------------------------------------------------------------
(* What one receipt does to the chain. *)
LEMMA RecordAppends ==
  ASSUME log \in Seq(Receipts), NEW p \in {"qrse", "kms"},
         NEW d \in {"allow", "deny"}, Record(p, d)
  PROVE  /\ log' \in Seq(Receipts) /\ log' # <<>>
         /\ Len(log') = Len(log) + 1
         /\ log'[Len(log')] = Rcpt(p, d)
         /\ \A i \in 1 .. Len(log) : log'[i] = log[i]
  BY DEF Record, Rcpt, Receipts

(* The unlock starts with nothing passed and nothing handed out. *)
LEMMA InitInv == Init => IInv
  BY DEF Init, IInv, TypeOK, GatesPassed, KekMeetsPolicy, KekIsRecorded,
         KeysOfRequests, Verified, Current, Suited, Released, Gates

(* A gate the request does not pass leaves a deny receipt and an error. *)
LEMMA RefuseKeeps ==
  ASSUME IInv, NEW e \in Errors, Refuse(e)
  PROVE  IInv'
<1>1. /\ log' \in Seq(Receipts) /\ step' = "idle" /\ outcome' = e
      /\ UNCHANGED <<req, counter, released>>
  BY RecordAppends DEF IInv, TypeOK, Refuse, Return
<1>2. e # "kek" /\ e # "none"
  BY DEF Errors
<1> QED
  BY <1>1, <1>2 DEF IInv, TypeOK, GatesPassed, KekMeetsPolicy, KekIsRecorded,
     KeysOfRequests, Verified, Current, Suited, Released, Gates

(* A request that passed every gate meets every requirement of the policy. *)
LEMMA PolicyMet ==
  ASSUME NEW r, MeetsPolicy(r), counter \in Nat
  PROVE  /\ \E v \in Verifiers, i \in DOMAIN r.manifest.signatures :
              /\ v.algorithm \in PqSignatureAlgs
              /\ r.manifest.signatures[i].mac = Mac(v, SigningBytes(r.manifest))
         /\ r.manifest.body.version >= Floor.tenant_min_manifest_version
         /\ \E s \in Slots(r.manifest) :
              s.status = "active" /\ s.kind = "hybrid_remote_kms" /\ s.kem.pqc # ""
         /\ Floor.require_pqc_signature /\ ~Floor.allow_classical_only =>
              \A s \in Slots(r.manifest) :
                s.kind = "hybrid_remote_kms" => s.kem.pqc # ""
         /\ r.measurement \in Granted
         /\ \A leg \in {r.classical, r.pqc} :
              leg.dk # Empty /\ leg.ct # Empty /\ ~leg.dead
<1>1. \E v \in Verifiers, i \in DOMAIN r.manifest.signatures :
        /\ v.algorithm \in PqSignatureAlgs
        /\ r.manifest.signatures[i].mac = Mac(v, SigningBytes(r.manifest))
  <2>1. PICK i \in DOMAIN r.manifest.signatures :
          /\ SignatureValid(r.manifest, r.manifest.signatures[i], Verifiers)
          /\ IsPqSignatureAlg(r.manifest.signatures[i].algorithm)
    BY DEF MeetsPolicy, ManifestVerified
  <2>2. PICK v \in Verifiers :
          /\ v.algorithm = r.manifest.signatures[i].algorithm
          /\ VerifySignature(v, SigningBytes(r.manifest), r.manifest.signatures[i])
    BY <2>1 DEF SignatureValid
  <2> QED BY <2>1, <2>2 DEF VerifySignature, IsPqSignatureAlg
<1>2. \E s \in Slots(r.manifest) :
        s.status = "active" /\ s.kind = "hybrid_remote_kms" /\ s.kem.pqc # ""
  BY DEF MeetsPolicy, HasHybridSuite, Unlockable, IsActive, IsHybrid, ClassicalOnly
<1>3. /\ r.manifest.body.version >= Floor.tenant_min_manifest_version
      /\ Floor.require_pqc_signature /\ ~Floor.allow_classical_only =>
           \A s \in Slots(r.manifest) :
             s.kind = "hybrid_remote_kms" => s.kem.pqc # ""
  BY DEF MeetsPolicy, DowngradeAccepted, PqcRequired, PqcKept, IsHybrid, ClassicalOnly
<1>4. \A leg \in {r.classical, r.pqc} :
        leg.dk # Empty /\ leg.ct # Empty /\ ~leg.dead
  BY DEF MeetsPolicy, Decapsulable, Decapsulates, Combinable, Combines, IsLive,
         Decapsulated
<1> QED
  BY <1>1, <1>2, <1>3, <1>4 DEF MeetsPolicy

(* The key of a request is the term of its signed manifest, device, boot policy hash
   and secrets, and of nothing else. *)
LEMMA KekDeterminedBy ==
  ASSUME NEW r, NEW s
  PROVE  KekOf(r) = KekOf(s) <=>
           /\ r.manifest.format = s.manifest.format
           /\ r.manifest.body = s.manifest.body
           /\ r.device_id = s.device_id
           /\ r.measurement.boot_policy_hash = s.measurement.boot_policy_hash
           /\ Decapsulated(r.classical) = Decapsulated(s.classical)
           /\ Decapsulated(r.pqc) = Decapsulated(s.pqc)
<1> DEFINE Bytes(q) == ToBytes(Context(q))
<1>1. KekOf(r) = KekOf(s) <=>
        /\ SigningBytes(r.manifest) = SigningBytes(s.manifest)
        /\ Decapsulated(r.classical) = Decapsulated(s.classical)
        /\ Decapsulated(r.pqc) = Decapsulated(s.pqc)
        /\ Bytes(r) = Bytes(s)
  <2> HIDE DEF Bytes
  <2>1. \A q : KekOf(q) =
          <<"hkdf", <<"sha384", SigningBytes(q.manifest)>>,
            <<Decapsulated(q.classical), Decapsulated(q.pqc)>>,
            <<COMBINER_LABEL, Bytes(q)>>, KEK_LEN>>
    BY DEF KekOf, HybridCombine, Bytes
  <2> QED BY <2>1
<1>2. SigningBytes(r.manifest) = SigningBytes(s.manifest) <=>
        r.manifest.format = s.manifest.format /\ r.manifest.body = s.manifest.body
  BY DEF SigningBytes
<1>3. Bytes(r) = Bytes(s) =>
        /\ r.device_id = s.device_id
        /\ r.measurement.boot_policy_hash = s.measurement.boot_policy_hash
  BY DEF ToBytes, Context
<1>4. /\ r.manifest.body = s.manifest.body
      /\ r.device_id = s.device_id
      /\ r.measurement.boot_policy_hash = s.measurement.boot_policy_hash
      => Bytes(r) = Bytes(s)
  <2>1. r.manifest.body = s.manifest.body => HybridSuite(r.manifest) = HybridSuite(s.manifest)
    BY DEF HybridSuite
  <2> QED BY <2>1 DEF ToBytes, Context
<1> QED
  BY <1>1, <1>2, <1>3, <1>4

(* One step of a call, gate by gate. *)
LEMMA StepInv == IInv /\ [Next]_vars => IInv'
<1> SUFFICES ASSUME IInv, [Next]_vars PROVE IInv'
  OBVIOUS
<1> USE DEF IInv, TypeOK, GatesPassed, Gates, Verified, Current, Suited, Released,
            KekMeetsPolicy, KekIsRecorded, KeysOfRequests, At
<1>1. ASSUME NEW r \in Requests, Start(r) PROVE IInv'
  BY <1>1 DEF Start
<1>2. CASE VerifyManifest
  <2>1. CASE ManifestVerified(req.manifest, Verifiers) /\ Pass("downgrade")
    BY <1>2, <2>1 DEF VerifyManifest, Pass
  <2>2. CASE Refuse("ManifestVerification")
    BY <2>2, RefuseKeeps DEF Errors
  <2> QED BY <1>2, <2>1, <2>2 DEF VerifyManifest
<1>3. CASE CheckDowngrade
  <2>1. CASE DowngradeAccepted(req.manifest, Floor, counter) /\ Pass("suite")
    BY <1>3, <2>1 DEF CheckDowngrade, Pass
  <2>2. CASE Refuse("Downgrade")
    BY <2>2, RefuseKeeps DEF Errors
  <2> QED BY <1>3, <2>1, <2>2 DEF CheckDowngrade
<1>4. CASE PickSuite
  <2>1. CASE HasHybridSuite(req.manifest) /\ Pass("attest")
    BY <1>4, <2>1
       DEF PickSuite, Pass
  <2>2. CASE Refuse("NoHybridKeyslot")
    BY <2>2, RefuseKeeps DEF Errors
  <2> QED BY <1>4, <2>1, <2>2 DEF PickSuite
<1>5. CASE Attest
  <2>1. CASE req.measurement \in Granted /\ Record("kms", "allow")
             /\ step' = "decapsulate" /\ UNCHANGED <<req, counter, outcome, released>>
    <3>0. log \in Seq(Receipts)
      OBVIOUS
    <3>1. /\ log' \in Seq(Receipts) /\ log' # <<>>
          /\ log'[Len(log')] = Rcpt("kms", "allow")
      <4> HIDE DEF IInv, TypeOK, GatesPassed, KekMeetsPolicy, KekIsRecorded, KeysOfRequests
      <4> QED BY <2>1, <3>0, RecordAppends
    <3>2. step = "attest" /\ outcome = "none"
      BY <1>5 DEF Attest
    <3> QED
      BY <2>1, <3>1, <3>2
  <2>2. CASE Record("kms", "deny") /\ Return("AttestationDenied")
             /\ UNCHANGED <<req, counter, released>>
    <3>1. log' \in Seq(Receipts)
      BY <2>2, RecordAppends
    <3> QED
      BY <2>2, <3>1 DEF Return, Errors
  <2> QED BY <1>5, <2>1, <2>2 DEF Attest
<1>6. CASE Decapsulate
  <2>1. CASE Decapsulable(req) /\ Pass("combine")
    BY <1>6, <2>1
       DEF Decapsulate, Pass
  <2>2. CASE Return("Crypto") /\ UNCHANGED <<log, req, counter, released>>
    BY <2>2 DEF Return, Errors
  <2> QED BY <1>6, <2>1, <2>2 DEF Decapsulate
<1>7. CASE Combine
  <2>1. CASE /\ Combinable(req) /\ RecordUnlock /\ Return("kek") /\ Accept(req)
              /\ released' = released \cup {[kek |-> KekOf(req), request |-> req]}
    <3>1. /\ log' \in Seq(Receipts)
          /\ Len(log') = Len(log) + 1
          /\ log'[Len(log')] = Rcpt("qrse", "allow")
          /\ \A i \in 1 .. Len(log) : log'[i] = log[i]
      BY <2>1, RecordAppends DEF RecordUnlock
    <3>2. step = "combine" /\ req' = req /\ req \in Requests
      BY <1>7 DEF Combine
    <3>3. counter' \in Nat
      BY <2>1, <3>2, UnlockAssumption DEF Accept
    <3>4. step' = "idle" /\ outcome' = "kek"
      BY <2>1 DEF Return
    <3>5. KekMeetsPolicy'
      <4>1. MeetsPolicy(req)
        BY <2>1, <3>2 DEF MeetsPolicy
      <4>2. counter \in Nat
        OBVIOUS
      <4> HIDE DEF IInv, TypeOK, GatesPassed, KekMeetsPolicy, KekIsRecorded, KeysOfRequests
      <4> QED BY <3>2, <3>4, <4>1, <4>2, PolicyMet DEF KekMeetsPolicy
    <3>6. KekIsRecorded'
      <4>1. Len(log) \in Nat /\ Len(log) > 0 /\ log[Len(log)] = Rcpt("kms", "allow")
        BY <3>2
      <4> HIDE DEF IInv, TypeOK, GatesPassed, KekMeetsPolicy, KekIsRecorded, KeysOfRequests
      <4>2. Len(log') - 1 = Len(log) /\ Len(log) \in 1 .. Len(log)
        BY <3>1, <4>1
      <4>3. /\ Len(log') >= 2 /\ log'[Len(log')] = Rcpt("qrse", "allow")
            /\ log'[Len(log') - 1] = Rcpt("kms", "allow")
        BY <3>1, <4>1, <4>2
      <4> QED BY <4>3 DEF KekIsRecorded
    <3>7. KeysOfRequests'
      BY <2>1, <3>2
    <3> QED
      BY <3>1, <3>2, <3>3, <3>4, <3>5, <3>6, <3>7
  <2>2. CASE Return("Crypto") /\ UNCHANGED <<log, req, counter, released>>
    BY <2>2 DEF Return, Errors
  <2> QED BY <1>7, <2>1, <2>2 DEF Combine
<1>8. CASE UNCHANGED vars
  BY <1>8, Zenon DEF vars
<1> QED
  BY <1>1, <1>2, <1>3, <1>4, <1>5, <1>6, <1>7, <1>8 DEF Next, GateStep

(* The invariant holds in every reachable state. *)
LEMMA Invariant == Spec => []IInv
  BY InitInv, StepInv, PTL DEF Spec

-----------------------------------------------------------------------------
(* The state of a call is well formed: a call in progress has a request and no
   result yet. *)
THEOREM TypeCorrect == Spec => []TypeOK
  BY Invariant, PTL DEF IInv

(* A key is handed out only for a request that meets every requirement of the
   policy, whatever the floor. *)
THEOREM KeysMeetPolicy == Spec => []KekMeetsPolicy
  BY Invariant, PTL DEF IInv

(* Every key handed out is on the chain, after the release by the KMS. *)
THEOREM KeysAreRecorded == Spec => []KekIsRecorded
  BY Invariant, PTL DEF IInv

(* Two calls hand out the same key exactly when they agree on everything that the
   combiner binds it to. *)
THEOREM KeysAreBound == Spec => []KekBindsRequest
<1>1. IInv => KekBindsRequest
  BY KekDeterminedBy DEF IInv, KeysOfRequests, KekBindsRequest
<1> QED
  BY Invariant, <1>1, PTL

(* No key for a version older than one a key was handed out for, as long as the
   caller keeps the counter. *)
THEOREM NoKeyForOlderVersions == Spec => NoRollback
<1>1. ASSUME IInv, [Next]_vars, outcome # "kek", outcome' = "kek"
      PROVE  req.manifest.body.version >= counter
  <2>1. Combine
    <3>1. ~(\E r \in Requests : Start(r))
      BY <1>1 DEF Start
    <3>2. \A e \in Errors : ~Refuse(e)
      BY <1>1 DEF Refuse, Return, Errors
    <3>3. ~VerifyManifest /\ ~CheckDowngrade /\ ~PickSuite /\ ~Attest /\ ~Decapsulate
      BY <1>1, <3>2 DEF VerifyManifest, CheckDowngrade, PickSuite, Attest,
         Decapsulate, Pass, Return, Errors
    <3> QED
      BY <1>1, <3>1, <3>3 DEF Next, GateStep, vars
  <2> QED
    BY <1>1, <2>1 DEF Combine, At, IInv, GatesPassed, Current, DowngradeAccepted
<1>2. IInv /\ [Next]_vars
        => [outcome # "kek" /\ outcome' = "kek" =>
              req.manifest.body.version >= counter]_vars
  BY <1>1
<1> QED
  BY Invariant, <1>2, PTL DEF Spec, NoRollback

-----------------------------------------------------------------------------
\* What the result of a call says of the request, with the counter the device has now:
\* the gate that refused it would refuse it again, and the gates before that one pass
\* it.  Of a request without a result there is no call.
Verdicts ==
  /\ step = "idle" /\ outcome = "none" => req = NoRequest
  /\ outcome = "ManifestVerification" => ~ManifestVerified(req.manifest, Verifiers)
  /\ outcome \notin {"none", "ManifestVerification"} =>
       ManifestVerified(req.manifest, Verifiers)
  /\ outcome = "Downgrade" => ~DowngradeAccepted(req.manifest, Floor, counter)
  /\ outcome \notin {"none", "ManifestVerification", "Downgrade"} =>
       DowngradeAccepted(req.manifest, Floor, counter)
  /\ outcome = "NoHybridKeyslot" => ~HasHybridSuite(req.manifest)

\* A key is handed out for manifests of the known format only.
KnownFormats == \A k \in released : k.request.manifest.format = QRSD_FORMAT

(* A version stays accepted by the counter that it raises. *)
LEMMA AcceptedStays ==
  ASSUME NEW r \in Requests, counter \in Nat, Accept(r),
         DowngradeAccepted(r.manifest, Floor, counter)
  PROVE  DowngradeAccepted(r.manifest, Floor, counter')
<1> DEFINE version == r.manifest.body.version
<1>0. /\ version \in Nat /\ version >= counter
      /\ counter' = IF version > counter THEN version ELSE counter
  BY UnlockAssumption DEF Accept, DowngradeAccepted
<1>1. version >= counter'
  <2> HIDE DEF version
  <2> QED BY <1>0
<1> QED
  BY <1>1, Zenon DEF DowngradeAccepted

LEMMA VerdictStep ==
  ASSUME IInv, Verdicts, KnownFormats, [Next]_vars
  PROVE  Verdicts' /\ KnownFormats'
<1>g. /\ Verified => ManifestVerified(req.manifest, Verifiers)
      /\ Current => DowngradeAccepted(req.manifest, Floor, counter)
      /\ step # "idle" => req \in Requests /\ outcome = "none"
      /\ counter \in Nat
  BY DEF IInv, GatesPassed, TypeOK
<1>1. ASSUME NEW r \in Requests, Start(r) PROVE Verdicts' /\ KnownFormats'
  <2>1. step' = "verify" /\ outcome' = "none" /\ released' = released
    BY <1>1 DEF Start
  <2> QED BY <2>1 DEF Verdicts, KnownFormats
<1>p. ASSUME NEW g \in Gates, Pass(g), step # "idle" PROVE Verdicts' /\ KnownFormats'
  BY <1>p, <1>g DEF Pass, Gates, Verdicts, KnownFormats
<1>2. CASE VerifyManifest
  <2>1. CASE ~ManifestVerified(req.manifest, Verifiers) /\ Refuse("ManifestVerification")
    BY <2>1 DEF Refuse, Return, Verdicts, KnownFormats
  <2> QED BY <1>2, <2>1, <1>p DEF VerifyManifest, At, Gates
<1>3. CASE CheckDowngrade
  <2>1. CASE ~DowngradeAccepted(req.manifest, Floor, counter) /\ Refuse("Downgrade")
    BY <1>3, <1>g, <2>1 DEF CheckDowngrade, At, Verified, Refuse, Return, Verdicts,
       KnownFormats
  <2> QED BY <1>3, <2>1, <1>p DEF CheckDowngrade, At, Gates
<1>4. CASE PickSuite
  <2>1. CASE ~HasHybridSuite(req.manifest) /\ Refuse("NoHybridKeyslot")
    BY <1>4, <1>g, <2>1 DEF PickSuite, At, Verified, Current, Refuse, Return, Verdicts,
       KnownFormats
  <2> QED BY <1>4, <2>1, <1>p DEF PickSuite, At, Gates
<1>5. CASE Attest
  BY <1>5, <1>g DEF Attest, At, Verified, Current, Return, Verdicts, KnownFormats
<1>6. CASE Decapsulate
  <2>1. CASE Return("Crypto") /\ UNCHANGED <<log, req, counter, released>>
    BY <1>6, <1>g, <2>1 DEF Decapsulate, At, Verified, Current, Return, Verdicts,
       KnownFormats
  <2> QED BY <1>6, <2>1, <1>p DEF Decapsulate, At, Gates
<1>7. CASE Combine
  <2>0. /\ req' = req /\ req \in Requests
        /\ ManifestVerified(req.manifest, Verifiers)
        /\ DowngradeAccepted(req.manifest, Floor, counter)
    BY <1>7, <1>g DEF Combine, At, Verified, Current
  <2>1. CASE /\ Return("kek") /\ Accept(req)
              /\ released' = released \cup {[kek |-> KekOf(req), request |-> req]}
    <3>1. DowngradeAccepted(req.manifest, Floor, counter')
      BY <1>g, <2>0, <2>1, AcceptedStays
    <3>2. Verdicts'
      BY <2>0, <2>1, <3>1 DEF Return, Verdicts
    <3>3. req.manifest.format = QRSD_FORMAT
      BY <2>0 DEF ManifestVerified
    <3> QED BY <2>1, <3>2, <3>3 DEF KnownFormats
  <2>2. CASE Return("Crypto") /\ UNCHANGED <<log, counter, released>>
    BY <2>0, <2>2 DEF Return, Verdicts, KnownFormats
  <2> QED BY <1>7, <2>1, <2>2 DEF Combine
<1>8. CASE UNCHANGED vars
  BY <1>8 DEF vars, Verdicts, KnownFormats
<1> QED
  BY <1>1, <1>2, <1>3, <1>4, <1>5, <1>6, <1>7, <1>8 DEF Next, GateStep

LEMMA VerdictInvariant == Spec => [](IInv /\ Verdicts /\ KnownFormats)
<1>1. Init => Verdicts /\ KnownFormats
  BY DEF Init, Verdicts, KnownFormats
<1>2. IInv /\ Verdicts /\ KnownFormats /\ [Next]_vars => Verdicts' /\ KnownFormats'
  BY VerdictStep
<1> QED
  BY Invariant, <1>1, <1>2, PTL DEF Spec

-----------------------------------------------------------------------------
(* A planned volume has one slot that unlocks, its second, and keeps its post-quantum
   leg. *)
LEMMA PlannedSlots ==
  ASSUME NEW plan \in Plans, NEW m, m.body = PlannedManifest(plan).body
  PROVE  /\ HasHybridSuite(m) /\ PqcKept(m)
         /\ HybridSuite(m) = plan.suite
<1> DEFINE hybrid == HybridKeyslot(plan)
<1>1. m.body.keyslots = <<PassphraseSlot, hybrid>>
  BY DEF PlannedManifest
<1>2. /\ Unlockable(hybrid) /\ IsHybrid(hybrid) /\ hybrid.kem = plan.suite
      /\ ~Unlockable(PassphraseSlot) /\ ~IsHybrid(PassphraseSlot)
  BY UnlockAssumption DEF HybridKeyslot, PassphraseSlot, Slot, Unlockable, IsActive,
     IsHybrid, ClassicalOnly
<1> HIDE DEF hybrid
<1>3. /\ DOMAIN m.body.keyslots = {1, 2}
      /\ m.body.keyslots[1] = PassphraseSlot /\ m.body.keyslots[2] = hybrid
  BY <1>1
<1>4. Slots(m) = {PassphraseSlot, hybrid}
  BY <1>3 DEF Slots
<1>5. HasHybridSuite(m) /\ PqcKept(m)
  BY <1>2, <1>4 DEF HasHybridSuite, PqcKept, Unlockable
<1>6. HybridSuite(m) = plan.suite
  <2> DEFINE Chosen(n) == /\ Unlockable(m.body.keyslots[n])
                          /\ \A k \in 1 .. n - 1 : ~Unlockable(m.body.keyslots[k])
  <2>1. \A n \in DOMAIN m.body.keyslots : Chosen(n) <=> n = 2
    BY <1>2, <1>3
  <2>2. (CHOOSE n \in DOMAIN m.body.keyslots : Chosen(n)) = 2
    BY <1>3, <2>1
  <2> QED BY <1>2, <1>3, <2>2 DEF HybridSuite
<1> QED BY <1>5, <1>6

(* A volume unlocks as it was planned: to the key the storage layer expects, and never
   to a refusal of its keyslots, whatever the floor and the counter. *)
THEOREM PlannedVolumesAlwaysUnlock == Spec => []PlannedVolumesUnlock
<1>1. ASSUME IInv, Verdicts, KnownFormats, NEW plan \in Plans, NEW k \in released,
             k.request.manifest.body = PlannedManifest(plan).body
      PROVE  k.kek = HybridCombine(Decapsulated(k.request.classical),
                       Decapsulated(k.request.pqc),
                       SigningBytes(PlannedManifest(plan)),
                       BuildCombinerContext(plan, k.request.device_id,
                         k.request.measurement.boot_policy_hash), KEK_LEN)
  <2>1. k.kek = KekOf(k.request) /\ k.request.manifest.format = QRSD_FORMAT
    BY <1>1 DEF IInv, KeysOfRequests, KnownFormats
  <2>2. SigningBytes(k.request.manifest) = SigningBytes(PlannedManifest(plan))
    BY <1>1, <2>1 DEF SigningBytes, PlannedManifest
  <2>3. HybridSuite(k.request.manifest) = plan.suite
    BY <1>1, PlannedSlots
  <2>4. Context(k.request) = BuildCombinerContext(plan, k.request.device_id,
                               k.request.measurement.boot_policy_hash)
    BY <1>1, <2>3 DEF Context, BuildCombinerContext, PlannedManifest
  <2> QED BY <2>1, <2>2, <2>4 DEF KekOf
<1>2. ASSUME IInv, Verdicts, NEW plan \in Plans, req # NoRequest,
             req.manifest.body = PlannedManifest(plan).body
      PROVE  /\ outcome # "NoHybridKeyslot"
             /\ outcome = "Downgrade" =>
                  plan.min_boot_manifest_version
                    < IF Floor.tenant_min_manifest_version > counter
                        THEN Floor.tenant_min_manifest_version ELSE counter
  <2>1. HasHybridSuite(req.manifest) /\ PqcKept(req.manifest)
    BY <1>2, PlannedSlots
  <2>2. req.manifest.body.version = plan.min_boot_manifest_version
    BY <1>2 DEF PlannedManifest
  <2>3. /\ req.manifest.body.version \in Nat /\ counter \in Nat
        /\ Floor.tenant_min_manifest_version \in Nat
    BY <1>2, UnlockAssumption DEF IInv, TypeOK
  <2> QED BY <1>2, <2>1, <2>2, <2>3 DEF Verdicts, DowngradeAccepted
<1>3. IInv /\ Verdicts /\ KnownFormats => PlannedVolumesUnlock
  BY <1>1, <1>2, Zenon DEF PlannedVolumesUnlock
<1> QED
  BY VerdictInvariant, <1>3, PTL

-----------------------------------------------------------------------------
(* With the seeds of the keys the caller trusts the command verifies exactly the
   manifests that the unlock verifies. *)
LEMMA SameVerification ==
  ASSUME NEW r \in Requests
  PROVE  ManifestVerified(r.manifest, Verifiers)
           <=> ManifestVerified(r.manifest, BuildVerifiers(r.manifest, Trust))
<1> DEFINE m == r.manifest
           Built == BuildVerifiers(m, Trust)
<1>1. ASSUME NEW i \in DOMAIN m.signatures, SignatureValid(m, m.signatures[i], Verifiers)
      PROVE  SignatureValid(m, m.signatures[i], Built)
  <2>1. PICK v \in Verifiers :
          /\ v.key_id = m.signatures[i].key_id
          /\ v.algorithm = m.signatures[i].algorithm
          /\ VerifySignature(v, SigningBytes(m), m.signatures[i])
    BY <1>1 DEF SignatureValid
  <2>2. PICK j \in DOMAIN Trust :
          /\ FirstFor(Trust, j)
          /\ v = VerifierOf(NewSigner(v.algorithm, Trust[j].key_id, Trust[j].seed, 1))
    BY TrustAssumption
  <2>3. v.key_id = Trust[j].key_id
    BY <2>2 DEF VerifierOf, NewSigner
  <2>4. v \in Built
    <3> DEFINE Of(n, k) ==
                 VerifierOf(NewSigner(m.signatures[n].algorithm, Trust[k].key_id,
                                      Trust[k].seed, 1))
               Entries(n) == {k \in DOMAIN Trust :
                                Trust[k].key_id = m.signatures[n].key_id
                                  /\ FirstFor(Trust, k)}
    <3>1. v = Of(i, j) /\ j \in Entries(i)
      BY <2>1, <2>2, <2>3
    <3>2. Built = UNION {{Of(n, k) : k \in Entries(n)} : n \in DOMAIN m.signatures}
      BY DEF BuildVerifiers
    <3> HIDE DEF Built, Of, Entries
    <3> QED BY <3>1, <3>2
  <2> HIDE DEF Built
  <2> QED BY <2>1, <2>4 DEF SignatureValid
<1>2. ASSUME NEW i \in DOMAIN m.signatures, SignatureValid(m, m.signatures[i], Built)
      PROVE  SignatureValid(m, m.signatures[i], Verifiers)
  <2>1. PICK v \in Built :
          /\ v.key_id = m.signatures[i].key_id
          /\ v.algorithm = m.signatures[i].algorithm
          /\ VerifySignature(v, SigningBytes(m), m.signatures[i])
    BY <1>2 DEF SignatureValid
  <2> DEFINE Of(a, k) == VerifierOf(NewSigner(a, Trust[k].key_id, Trust[k].seed, 1))
  <2>2. PICK n \in DOMAIN m.signatures, k \in DOMAIN Trust :
          FirstFor(Trust, k) /\ v = Of(m.signatures[n].algorithm, k)
    BY <2>1 DEF BuildVerifiers
  <2>3. v.algorithm = m.signatures[n].algorithm
    BY <2>2 DEF VerifierOf, NewSigner
  <2>4. v = Of(m.signatures[i].algorithm, k)
    BY <2>1, <2>2, <2>3
  <2>5. v \in Verifiers
    BY <1>2, <2>1, <2>2, <2>4, TrustAssumption
  <2> HIDE DEF Built, m
  <2> QED BY <1>2, <2>1, <2>5 DEF SignatureValid
<1>3. ManifestVerified(m, Verifiers) <=> ManifestVerified(m, Built)
  <2> HIDE DEF Built, m
  <2> QED BY <1>1, <1>2, Zenon DEF ManifestVerified
<1> QED
  BY <1>3

(* The exit code of the downgrade check is the verdict of the two gates. *)
LEMMA ExitIsVerdict ==
  ASSUME NEW r \in Requests
  PROVE  LET file == [readable |-> TRUE, parses |-> TRUE, manifest |-> r.manifest]
         IN  DowngradeCheckExit(file, Floor.tenant_min_manifest_version, counter,
                                Floor.allow_classical_only, Trust)
             = IF ~ManifestVerified(r.manifest, Verifiers) THEN 2
               ELSE IF ~DowngradeAccepted(r.manifest, Floor, counter) THEN 3
               ELSE 0
<1> DEFINE file == [readable |-> TRUE, parses |-> TRUE, manifest |-> r.manifest]
           ctl == CtlFloor(Floor.tenant_min_manifest_version, Floor.allow_classical_only)
<1>1. ReadsManifest(file) /\ file.manifest = r.manifest /\ ParsesTrust(Trust)
  BY TrustAssumption DEF ReadsManifest
<1>2. CtlVerified(file, Trust) <=> ManifestVerified(r.manifest, Verifiers)
  BY <1>1, SameVerification DEF CtlVerified
<1>3. DowngradeAccepted(r.manifest, ctl, counter)
        <=> DowngradeAccepted(r.manifest, Floor, counter)
  BY TrustAssumption DEF DowngradeAccepted, PqcRequired, CtlFloor
<1> HIDE DEF file, ctl
<1>4. ManifestVerifyExit(file, Trust)
        = IF ~ManifestVerified(r.manifest, Verifiers) THEN 2 ELSE 0
  BY <1>1, <1>2 DEF ManifestVerifyExit
<1>5. DowngradeCheckExit(file, Floor.tenant_min_manifest_version, counter,
                         Floor.allow_classical_only, Trust)
        = IF ~ManifestVerified(r.manifest, Verifiers) THEN 2
          ELSE IF ~DowngradeAccepted(r.manifest, ctl, counter) THEN 3
          ELSE 0
  BY <1>1, <1>4 DEF DowngradeCheckExit, ctl
<1> QED
  BY <1>3, <1>5 DEF file

(* The command and the unlock agree on every request, whatever happened before. *)
THEOREM CtlAlwaysAgrees == Spec => []CtlAgreesWithUnlock
<1>1. ASSUME IInv, Verdicts PROVE CtlAgreesWithUnlock
  <2> DEFINE file == [readable |-> TRUE, parses |-> TRUE, manifest |-> req.manifest]
             exit == DowngradeCheckExit(file, Floor.tenant_min_manifest_version, counter,
                                        Floor.allow_classical_only, Trust)
  <2> SUFFICES ASSUME step = "idle", req # NoRequest
               PROVE  /\ outcome = "Downgrade" <=> exit = 3
                      /\ outcome \notin {"Downgrade", "ManifestVerification"} => exit = 0
    BY DEF CtlAgreesWithUnlock
  <2>1. exit = IF ~ManifestVerified(req.manifest, Verifiers) THEN 2
               ELSE IF ~DowngradeAccepted(req.manifest, Floor, counter) THEN 3
               ELSE 0
    BY <1>1, ExitIsVerdict DEF IInv, TypeOK
  <2> HIDE DEF exit
  <2>2. outcome # "none"
    BY <1>1 DEF Verdicts
  <2>3. CASE outcome = "ManifestVerification"
    BY <1>1, <2>1, <2>3 DEF Verdicts
  <2>4. CASE outcome = "Downgrade"
    BY <1>1, <2>1, <2>4 DEF Verdicts
  <2>5. CASE outcome \notin {"none", "ManifestVerification", "Downgrade"}
    BY <1>1, <2>1, <2>5 DEF Verdicts
  <2> QED BY <2>2, <2>3, <2>4, <2>5
<1> QED
  BY VerdictInvariant, <1>1, PTL

-----------------------------------------------------------------------------
(* The tree of keys. *)

\* Class and rotation of the node a path ends in: its last name settles both.
ClassNamed(name) ==
  CASE name \in {"org", "tenant", "classical-leg"} -> "Kek"
    [] name = "device" -> "DeviceKey"
    [] name = "tpm-sealed" -> "HardwareSealedKey"
    [] name = "fido2-user" -> "UserKey"
    [] name = "recovery" -> "RecoveryKey"
    [] name = "share" -> "ThresholdShare"
    [] name = "remote" -> "RemoteKmsKey"
    [] name \in {"ml-kem-leg", "hybrid"} -> "PqcWrappedKey"
    [] name = "vmk" -> "Vmk"
    [] name = "dek" -> "Dek"

RotationNamed(name) ==
  CASE name \in {"org", "device"} -> "Annual"
    [] name \in {"tenant", "vmk"} -> "Quarterly"
    [] name \in {"tpm-sealed", "dek"} -> "PerBoot"
    [] name = "fido2-user" -> "OnDemand"
    [] name \in {"recovery", "share"} -> "OnCompromise"
    [] name \in {"remote", "classical-leg", "ml-kem-leg", "hybrid"} -> "Monthly"

Names == {"org", "tenant", "device", "tpm-sealed", "fido2-user", "recovery", "share",
          "remote", "classical-leg", "ml-kem-leg", "hybrid", "vmk", "dek"}

IsPath(p) == p \in Seq(Names) /\ Len(p) \in Nat \ {0}

Named(n) ==
  /\ IsPath(n.path)
  /\ n.class = ClassNamed(n.path[Len(n.path)])
  /\ n.rotation = RotationNamed(n.path[Len(n.path)])

LEMMA NamesJoined ==
  ASSUME NEW S, NEW a \in S, NEW b \in S
  PROVE  <<a, b>> = <<a>> \o <<b>>
<1>1. <<a, b>> \in Seq(S) /\ <<a>> \in Seq(S) /\ <<b>> \in Seq(S)
  OBVIOUS
<1>2. Len(<<a>>) = 1 /\ Len(<<b>>) = 1 /\ Len(<<a, b>>) = 2
  OBVIOUS
<1>3. /\ <<a>> \o <<b>> \in Seq(S) /\ Len(<<a>> \o <<b>>) = 2
      /\ \A i \in 1 .. 2 : (<<a>> \o <<b>>)[i] = IF i <= 1 THEN <<a>>[i] ELSE <<b>>[i - 1]
  BY <1>1, <1>2, ConcatProperties
<1>4. (<<a>> \o <<b>>)[1] = a /\ (<<a>> \o <<b>>)[2] = b
  BY <1>3
<1>5. \A i \in 1 .. 2 : <<a, b>>[i] = (<<a>> \o <<b>>)[i]
  BY <1>4
<1> QED
  BY <1>1, <1>2, <1>3, <1>5, SeqEqual

LEMMA ThreeNamesJoined ==
  ASSUME NEW S, NEW a \in S, NEW b \in S, NEW c \in S
  PROVE  <<a, b, c>> = <<a, b>> \o <<c>>
<1>1. <<a, b, c>> \in Seq(S) /\ <<a, b>> \in Seq(S) /\ <<c>> \in Seq(S)
  OBVIOUS
<1>2. Len(<<a, b>>) = 2 /\ Len(<<c>>) = 1 /\ Len(<<a, b, c>>) = 3
  OBVIOUS
<1>3. /\ <<a, b>> \o <<c>> \in Seq(S) /\ Len(<<a, b>> \o <<c>>) = 3
      /\ \A i \in 1 .. 3 :
           (<<a, b>> \o <<c>>)[i] = IF i <= 2 THEN <<a, b>>[i] ELSE <<c>>[i - 2]
  BY <1>1, <1>2, ConcatProperties
<1>4. /\ (<<a, b>> \o <<c>>)[1] = a /\ (<<a, b>> \o <<c>>)[2] = b
      /\ (<<a, b>> \o <<c>>)[3] = c
  BY <1>3
<1>5. \A i \in 1 .. 3 : <<a, b, c>>[i] = (<<a, b>> \o <<c>>)[i]
  BY <1>4
<1> QED
  BY <1>1, <1>2, <1>3, <1>5, SeqEqual

\* A path one name longer.
LEMMA OneMore ==
  ASSUME NEW p, IsPath(p), NEW name \in Names
  PROVE  /\ IsPath(p \o <<name>>) /\ Len(p \o <<name>>) = Len(p) + 1
         /\ (p \o <<name>>)[Len(p) + 1] = name
         /\ \A i \in 1 .. Len(p) : /\ (p \o <<name>>)[i] = p[i]
                                   /\ SubSeq(p \o <<name>>, 1, i) = SubSeq(p, 1, i)
         /\ SubSeq(p \o <<name>>, 1, Len(p) + 1) = p \o <<name>>
<1> DEFINE more == p \o <<name>>
<1>1. p \in Seq(Names) /\ Len(p) \in Nat \ {0}
  BY DEF IsPath
<1>2. <<name>> \in Seq(Names) /\ Len(<<name>>) = 1
  OBVIOUS
<1>3. /\ more \in Seq(Names) /\ Len(more) = Len(p) + 1
      /\ \A i \in 1 .. Len(p) + 1 :
           more[i] = IF i <= Len(p) THEN p[i] ELSE <<name>>[i - Len(p)]
  BY <1>1, <1>2, ConcatProperties
<1>4. \A i \in 1 .. Len(p) : SubSeq(more, 1, i) = SubSeq(p, 1, i)
  <2>1. 1 \in 1 .. Len(p)
    BY <1>1
  <2> QED BY <1>1, <1>2, <2>1, SubSeqOfConcat1
<1> HIDE DEF more
<1>5. more[Len(p) + 1] = name
  <2>1. Len(p) + 1 \in 1 .. Len(p) + 1 /\ ~(Len(p) + 1 <= Len(p)) /\ Len(p) + 1 - Len(p) = 1
    BY <1>1
  <2>2. <<name>>[1] = name
    OBVIOUS
  <2> QED BY <1>3, <2>1, <2>2
<1>6. \A i \in 1 .. Len(p) : more[i] = p[i]
  BY <1>1, <1>3
<1>7. SubSeq(more, 1, Len(p) + 1) = more
  BY <1>3, SubSeqFull
<1> QED
  BY <1>1, <1>3, <1>4, <1>5, <1>6, <1>7 DEF IsPath, more

LEMMA TwoMore ==
  ASSUME NEW S, NEW p \in Seq(S), NEW a \in S, NEW b \in S
  PROVE  p \o <<a, b>> = (p \o <<a>>) \o <<b>>
<1>1. <<a>> \in Seq(S) /\ <<b>> \in Seq(S)
  OBVIOUS
<1>2. (p \o <<a>>) \o <<b>> = p \o (<<a>> \o <<b>>)
  BY <1>1, ConcatAssociative
<1> QED
  BY <1>2, NamesJoined

LEMMA ThreeMore ==
  ASSUME NEW S, NEW p \in Seq(S), NEW a \in S, NEW b \in S, NEW c \in S
  PROVE  p \o <<a, b, c>> = ((p \o <<a>>) \o <<b>>) \o <<c>>
<1>1. <<a, b>> \in Seq(S) /\ <<c>> \in Seq(S)
  OBVIOUS
<1>2. p \o (<<a, b>> \o <<c>>) = (p \o <<a, b>>) \o <<c>>
  BY <1>1, ConcatAssociative
<1> QED
  <2>1. <<a, b, c>> = <<a, b>> \o <<c>>
    BY ThreeNamesJoined
  <2>2. p \o <<a, b>> = (p \o <<a>>) \o <<b>>
    BY TwoMore
  <2> QED BY <1>2, <2>1, <2>2

LEMMA Trunk ==
  /\ IsPath(<<"org">>) /\ Len(<<"org">>) = 1 /\ <<"org">>[1] = "org"
  /\ <<"org", "tenant">> = <<"org">> \o <<"tenant">>
  /\ DevicePath = <<"org", "tenant">> \o <<"device">>
  /\ RemotePath = <<"org", "tenant">> \o <<"remote">>
<1>1. /\ "org" \in Names /\ "tenant" \in Names /\ "device" \in Names /\ "remote" \in Names
  BY DEF Names
<1>2. ASSUME NEW S, NEW a \in S PROVE <<a>> \in Seq(S) /\ Len(<<a>>) = 1 /\ <<a>>[1] = a
  OBVIOUS
<1>3. <<"org">> \in Seq(Names) /\ Len(<<"org">>) = 1 /\ <<"org">>[1] = "org"
  BY <1>1, <1>2
<1>4. IsPath(<<"org">>)
  BY <1>3 DEF IsPath
<1>5. <<"org", "tenant">> = <<"org">> \o <<"tenant">>
  BY <1>1, NamesJoined
<1>6. DevicePath = <<"org", "tenant">> \o <<"device">>
  BY <1>1, ThreeNamesJoined DEF DevicePath
<1>7. RemotePath = <<"org", "tenant">> \o <<"remote">>
  BY <1>1, ThreeNamesJoined DEF RemotePath
<1> QED
  BY <1>3, <1>4, <1>5, <1>6, <1>7
LEMMA Trunks ==
  /\ IsPath(<<"org", "tenant">>) /\ Len(<<"org", "tenant">>) = 2
  /\ IsPath(DevicePath) /\ Len(DevicePath) = 3
  /\ IsPath(RemotePath) /\ Len(RemotePath) = 3
<1>1. "tenant" \in Names /\ "device" \in Names /\ "remote" \in Names
  BY DEF Names
<1>2. IsPath(<<"org", "tenant">>) /\ Len(<<"org", "tenant">>) = 2
  BY <1>1, Trunk, OneMore
<1>3. IsPath(DevicePath) /\ Len(DevicePath) = 3
  BY <1>1, <1>2, Trunk, OneMore
<1>4. IsPath(RemotePath) /\ Len(RemotePath) = 3
  BY <1>1, <1>2, Trunk, OneMore
<1> QED
  BY <1>2, <1>3, <1>4

\* The last name of a path settles what its node is.
LEMMA NamedMore ==
  ASSUME NEW p, IsPath(p), NEW name \in Names
  PROVE  Named(Node(p \o <<name>>, ClassNamed(name), RotationNamed(name)))
<1> DEFINE n == Node(p \o <<name>>, ClassNamed(name), RotationNamed(name))
<1>1. /\ n.path = p \o <<name>> /\ n.class = ClassNamed(name)
      /\ n.rotation = RotationNamed(name)
  BY DEF Node
<1>2. IsPath(n.path) /\ n.path[Len(n.path)] = name
  <2>1. /\ IsPath(p \o <<name>>) /\ Len(p \o <<name>>) = Len(p) + 1
        /\ (p \o <<name>>)[Len(p) + 1] = name
    BY OneMore
  <2> HIDE DEF n
  <2> QED BY <1>1, <2>1
<1> QED
  BY <1>1, <1>2 DEF Named

LEMMA Standings ==
  /\ ClassNamed("org") = "Kek" /\ RotationNamed("org") = "Annual"
  /\ ClassNamed("tenant") = "Kek" /\ RotationNamed("tenant") = "Quarterly"
  /\ ClassNamed("device") = "DeviceKey" /\ RotationNamed("device") = "Annual"
  /\ ClassNamed("tpm-sealed") = "HardwareSealedKey" /\ RotationNamed("tpm-sealed") = "PerBoot"
  /\ ClassNamed("fido2-user") = "UserKey" /\ RotationNamed("fido2-user") = "OnDemand"
  /\ ClassNamed("recovery") = "RecoveryKey" /\ RotationNamed("recovery") = "OnCompromise"
  /\ ClassNamed("share") = "ThresholdShare" /\ RotationNamed("share") = "OnCompromise"
  /\ ClassNamed("remote") = "RemoteKmsKey" /\ RotationNamed("remote") = "Monthly"
  /\ ClassNamed("classical-leg") = "Kek" /\ RotationNamed("classical-leg") = "Monthly"
  /\ ClassNamed("ml-kem-leg") = "PqcWrappedKey" /\ RotationNamed("ml-kem-leg") = "Monthly"
  /\ ClassNamed("hybrid") = "PqcWrappedKey" /\ RotationNamed("hybrid") = "Monthly"
  /\ ClassNamed("vmk") = "Vmk" /\ RotationNamed("vmk") = "Quarterly"
  /\ ClassNamed("dek") = "Dek" /\ RotationNamed("dek") = "PerBoot"
  BY DEF ClassNamed, RotationNamed

LEMMA VmkDekNodes ==
  ASSUME NEW p, IsPath(p)
  PROVE  /\ VmkDek(p) = {Node(p \o <<"vmk">>, "Vmk", "Quarterly"),
                         Node((p \o <<"vmk">>) \o <<"dek">>, "Dek", "PerBoot")}
         /\ \A n \in VmkDek(p) : Named(n)
<1>1. "vmk" \in Names /\ "dek" \in Names
  BY DEF Names
<1>2. p \o <<"vmk", "dek">> = (p \o <<"vmk">>) \o <<"dek">>
  BY <1>1, TwoMore DEF IsPath
<1>3. IsPath(p \o <<"vmk">>)
  BY <1>1, OneMore
<1>4. VmkDek(p) = {Node(p \o <<"vmk">>, "Vmk", "Quarterly"),
                   Node((p \o <<"vmk">>) \o <<"dek">>, "Dek", "PerBoot")}
  BY <1>2, Zenon DEF VmkDek
<1>5. Named(Node(p \o <<"vmk">>, "Vmk", "Quarterly"))
  <2>1. Named(Node(p \o <<"vmk">>, ClassNamed("vmk"), RotationNamed("vmk")))
    BY <1>1, NamedMore
  <2> QED BY <2>1, Standings
<1>6. Named(Node((p \o <<"vmk">>) \o <<"dek">>, "Dek", "PerBoot"))
  <2>1. Named(Node((p \o <<"vmk">>) \o <<"dek">>, ClassNamed("dek"), RotationNamed("dek")))
    BY <1>1, <1>3, NamedMore
  <2> QED BY <2>1, Standings
<1> QED
  BY <1>4, <1>5, <1>6
LEMMA TreeNamed == \A n \in StandardTree : Named(n)
<1>0. Names = {"org", "tenant", "device", "tpm-sealed", "fido2-user", "recovery", "share",
               "remote", "classical-leg", "ml-kem-leg", "hybrid", "vmk", "dek"}
  BY DEF Names
<1> DEFINE Given(p, name) == Node(p \o <<name>>, ClassNamed(name), RotationNamed(name))
<1>1. ASSUME NEW p, IsPath(p), NEW name \in Names PROVE Named(Given(p, name))
  BY <1>1, NamedMore
<1>2. IsPath(<<"org">>) /\ IsPath(<<"org", "tenant">>) /\ IsPath(DevicePath)
      /\ IsPath(RemotePath) /\ IsPath(DevicePath \o <<"tpm-sealed">>)
      /\ IsPath(DevicePath \o <<"fido2-user">>) /\ IsPath(DevicePath \o <<"recovery">>)
      /\ IsPath(DevicePath \o <<"recovery", "share">>) /\ IsPath(RemotePath \o <<"hybrid">>)
      /\ DevicePath \o <<"recovery", "share">> = (DevicePath \o <<"recovery">>) \o <<"share">>
  <2>1. /\ IsPath(<<"org">>) /\ IsPath(<<"org", "tenant">>) /\ IsPath(DevicePath)
        /\ IsPath(RemotePath)
    BY Trunk, Trunks
  <2>2. \A p, name : IsPath(p) /\ name \in Names => IsPath(p \o <<name>>)
    BY OneMore
  <2>3. DevicePath \o <<"recovery", "share">> = (DevicePath \o <<"recovery">>) \o <<"share">>
    BY <1>0, <2>1, TwoMore DEF IsPath
  <2>4. /\ IsPath(DevicePath \o <<"tpm-sealed">>)
        /\ IsPath(DevicePath \o <<"fido2-user">>) /\ IsPath(DevicePath \o <<"recovery">>)
        /\ IsPath(RemotePath \o <<"hybrid">>)
    BY <1>0, <2>1, <2>2
  <2>5. IsPath((DevicePath \o <<"recovery">>) \o <<"share">>)
    BY <1>0, <2>2, <2>4
  <2> QED BY <2>1, <2>3, <2>4, <2>5
<1>3. Named(Node(<<"org">>, "Kek", "Annual"))
  <2>1. Node(<<"org">>, "Kek", "Annual").path = <<"org">>
        /\ Node(<<"org">>, "Kek", "Annual").class = "Kek"
        /\ Node(<<"org">>, "Kek", "Annual").rotation = "Annual"
    BY DEF Node
  <2> QED BY <2>1, Trunk, Standings DEF Named
<1>4. Named(Node(<<"org", "tenant">>, "Kek", "Quarterly"))
  <2>1. Named(Given(<<"org">>, "tenant"))
    BY <1>0, <1>1, <1>2
  <2> QED BY <2>1, Trunk, Standings
<1>5. \A n \in DeviceBranch : Named(n)
  <2>1. Named(Node(DevicePath, "DeviceKey", "Annual"))
    <3>1. Named(Given(<<"org", "tenant">>, "device"))
      BY <1>0, <1>1, <1>2
    <3> QED BY <3>1, Trunk, Standings
  <2>2. Named(Node(DevicePath \o <<"tpm-sealed">>, "HardwareSealedKey", "PerBoot"))
    <3>1. Named(Given(DevicePath, "tpm-sealed"))
      BY <1>0, <1>1, <1>2
    <3> QED BY <3>1, Standings
  <2>3. Named(Node(DevicePath \o <<"fido2-user">>, "UserKey", "OnDemand"))
    <3>1. Named(Given(DevicePath, "fido2-user"))
      BY <1>0, <1>1, <1>2
    <3> QED BY <3>1, Standings
  <2>4. Named(Node(DevicePath \o <<"recovery">>, "RecoveryKey", "OnCompromise"))
    <3>1. Named(Given(DevicePath, "recovery"))
      BY <1>0, <1>1, <1>2
    <3> QED BY <3>1, Standings
  <2>5. Named(Node(DevicePath \o <<"recovery", "share">>, "ThresholdShare", "OnCompromise"))
    <3>1. Named(Given(DevicePath \o <<"recovery">>, "share"))
      BY <1>0, <1>1, <1>2
    <3> QED BY <1>2, <3>1, Standings
  <2> QED BY <1>2, <2>1, <2>2, <2>3, <2>4, <2>5, VmkDekNodes DEF DeviceBranch
<1>6. \A n \in RemoteBranch : Named(n)
  <2>1. Named(Node(RemotePath, "RemoteKmsKey", "Monthly"))
    <3>1. Named(Given(<<"org", "tenant">>, "remote"))
      BY <1>0, <1>1, <1>2
    <3> QED BY <3>1, Trunk, Standings
  <2>2. Named(Node(RemotePath \o <<"classical-leg">>, "Kek", "Monthly"))
    <3>1. Named(Given(RemotePath, "classical-leg"))
      BY <1>0, <1>1, <1>2
    <3> QED BY <3>1, Standings
  <2>3. Named(Node(RemotePath \o <<"ml-kem-leg">>, "PqcWrappedKey", "Monthly"))
    <3>1. Named(Given(RemotePath, "ml-kem-leg"))
      BY <1>0, <1>1, <1>2
    <3> QED BY <3>1, Standings
  <2>4. Named(Node(RemotePath \o <<"hybrid">>, "PqcWrappedKey", "Monthly"))
    <3>1. Named(Given(RemotePath, "hybrid"))
      BY <1>0, <1>1, <1>2
    <3> QED BY <3>1, Standings
  <2> QED BY <1>2, <2>1, <2>2, <2>3, <2>4, VmkDekNodes DEF RemoteBranch
<1> QED
  BY <1>3, <1>4, <1>5, <1>6 DEF StandardTree

\* Every start of a path leads to a node of the tree.
Rooted(p) ==
  /\ IsPath(p)
  /\ \A i \in 1 .. Len(p) : \E n \in StandardTree : n.path = SubSeq(p, 1, i)

LEMMA RootedMore ==
  ASSUME NEW p, Rooted(p), NEW name \in Names,
         NEW class, NEW rotation, Node(p \o <<name>>, class, rotation) \in StandardTree
  PROVE  Rooted(p \o <<name>>)
<1> DEFINE more == p \o <<name>>
<1>1. /\ IsPath(p) /\ Len(p) \in Nat \ {0}
      /\ \A i \in 1 .. Len(p) : \E n \in StandardTree : n.path = SubSeq(p, 1, i)
  BY DEF Rooted, IsPath
<1>2. /\ IsPath(more) /\ Len(more) = Len(p) + 1
      /\ \A i \in 1 .. Len(p) : SubSeq(more, 1, i) = SubSeq(p, 1, i)
      /\ SubSeq(more, 1, Len(p) + 1) = more
  BY <1>1, OneMore
<1>3. \E n \in StandardTree : n.path = more
  BY DEF Node
<1> HIDE DEF more
<1>4. ASSUME NEW i \in 1 .. Len(p) + 1
      PROVE  \E n \in StandardTree : n.path = SubSeq(more, 1, i)
  <2>1. CASE i \in 1 .. Len(p)
    BY <1>1, <1>2, <2>1
  <2>2. CASE i \notin 1 .. Len(p)
    <3>1. i = Len(p) + 1
      BY <1>1, <2>2
    <3> QED BY <1>2, <1>3, <3>1
  <2> QED BY <2>1, <2>2
<1> QED
  BY <1>2, <1>4 DEF Rooted, more

\* On a rooted path the walk finds the nodes the names stand for.
LEMMA OnRootedPath ==
  ASSUME NEW node, Rooted(node.path), NEW i \in 1 .. Len(node.path)
  PROVE  /\ On(node, i).class = ClassNamed(node.path[i])
         /\ On(node, i).rotation = RotationNamed(node.path[i])
         /\ node.path[i] \in Names
<1> DEFINE p == node.path
           m == On(node, i)
<1>1. p \in Seq(Names) /\ Len(p) \in Nat \ {0}
  BY DEF Rooted, IsPath
<1>2. m \in StandardTree /\ m.path = SubSeq(p, 1, i)
  BY DEF On, Rooted
<1>3. Named(m)
  BY <1>2, TreeNamed
<1> HIDE DEF m, p
<1>4. i \in Nat /\ i >= 1 /\ i <= Len(p) /\ i \in 1 .. Len(p)
  BY <1>1 DEF p
<1>5. \A j \in 1 .. i : p[j] \in Names
  BY <1>1, <1>4
<1>6. Len(SubSeq(p, 1, i)) = i /\ SubSeq(p, 1, i)[i] = p[i]
  <2>1. /\ Len(SubSeq(p, 1, i)) = i - 1 + 1
        /\ \A j \in 1 .. i - 1 + 1 : SubSeq(p, 1, i)[j] = p[1 + j - 1]
    BY <1>4, <1>5, SubSeqProperties
  <2> QED BY <1>4, <2>1
<1>7. m.class = ClassNamed(p[i]) /\ m.rotation = RotationNamed(p[i])
  BY <1>2, <1>3, <1>6 DEF Named
<1> QED
  BY <1>4, <1>5, <1>7 DEF m, p

\* The tree rotates its keys as the table says.
LEMMA NamesKeepSchedule ==
  ASSUME NEW name \in Names, ClassNamed(name) # "Kek"
  PROVE  RotationNamed(name) = RotationFor(ClassNamed(name))
  BY DEF Names, ClassNamed, RotationNamed, RotationFor

ClassesOf(p) == [i \in 1 .. Len(p) |-> ClassNamed(p[i])]

LEMMA RootedChain ==
  ASSUME NEW p, Rooted(p \o <<"dek">>), Node(p \o <<"dek">>, "Dek", "PerBoot") \in StandardTree
  PROVE  OnTree(ClassesOf(p \o <<"dek">>))
<1> DEFINE dek == Node(p \o <<"dek">>, "Dek", "PerBoot")
           q == p \o <<"dek">>
<1>1. dek.class = "Dek" /\ dek.path = q /\ dek \in StandardTree
  BY DEF Node
<1> HIDE DEF dek, q
<1>2. DOMAIN q = 1 .. Len(q)
  BY DEF Rooted, IsPath, q
<1>3. Rooted(dek.path)
  BY <1>1 DEF q
<1>4. ASSUME NEW i \in 1 .. Len(q)
      PROVE  /\ On(dek, i).class = ClassNamed(q[i])
             /\ On(dek, i).class # "Kek" => On(dek, i).rotation = RotationFor(On(dek, i).class)
  <2>1. /\ On(dek, i).class = ClassNamed(q[i]) /\ q[i] \in Names
        /\ On(dek, i).rotation = RotationNamed(q[i])
    BY <1>1, <1>3, OnRootedPath
  <2> QED BY <2>1, NamesKeepSchedule
<1>5. ClassesTo(dek) = ClassesOf(q)
  BY <1>1, <1>2, <1>4 DEF ClassesTo, ClassesOf
<1> QED
  BY <1>1, <1>2, <1>4, <1>5 DEF OnTree, q
ClassNames == {"Kek", "DeviceKey", "HardwareSealedKey", "UserKey", "RecoveryKey",
               "ThresholdShare", "RemoteKmsKey", "PqcWrappedKey", "Vmk", "Dek"}

LEMMA ClassNamedTyped ==
  ASSUME NEW name \in Names
  PROVE  ClassNamed(name) \in ClassNames
  BY DEF Names, ClassNames, ClassNamed

LEMMA ClassesTyped ==
  ASSUME NEW p, IsPath(p)
  PROVE  ClassesOf(p) \in Seq(ClassNames) /\ Len(ClassesOf(p)) = Len(p)
<1>1. p \in Seq(Names) /\ Len(p) \in Nat
  BY DEF IsPath
<1>2. \A i \in 1 .. Len(p) : ClassNamed(p[i]) \in ClassNames
  BY <1>1, ClassNamedTyped
<1> QED
  BY <1>1, <1>2 DEF ClassesOf

LEMMA ClassesMore ==
  ASSUME NEW p, IsPath(p), NEW name \in Names
  PROVE  ClassesOf(p \o <<name>>) = ClassesOf(p) \o <<ClassNamed(name)>>
<1> DEFINE more == p \o <<name>>
           s == ClassesOf(more)
           t == ClassesOf(p)
           class == ClassNamed(name)
           u == t \o <<class>>
<1>1. /\ IsPath(more) /\ Len(more) = Len(p) + 1 /\ more[Len(p) + 1] = name
      /\ \A i \in 1 .. Len(p) : more[i] = p[i]
      /\ Len(p) \in Nat
  BY OneMore DEF IsPath
<1>2. s \in Seq(ClassNames) /\ Len(s) = Len(more) /\ t \in Seq(ClassNames) /\ Len(t) = Len(p)
  BY <1>1, ClassesTyped
<1>3. class \in ClassNames
  BY ClassNamedTyped
<1>4. \A i \in 1 .. Len(p) + 1 : s[i] = ClassNamed(more[i])
  BY <1>1 DEF ClassesOf
<1>5. \A i \in 1 .. Len(p) : t[i] = ClassNamed(p[i])
  BY DEF ClassesOf
<1> HIDE DEF s, t, more
<1>6. <<class>> \in Seq(ClassNames) /\ Len(<<class>>) = 1 /\ <<class>>[1] = class
  <2> HIDE DEF class
  <2> QED BY <1>3
<1>7. /\ u \in Seq(ClassNames) /\ Len(u) = Len(p) + 1
      /\ \A i \in 1 .. Len(p) + 1 : u[i] = IF i <= Len(p) THEN t[i] ELSE <<class>>[i - Len(p)]
  BY <1>2, <1>6, ConcatProperties
<1>8. ASSUME NEW i \in 1 .. Len(p) + 1 PROVE s[i] = u[i]
  <2>1. CASE i <= Len(p)
    <3>1. i \in 1 .. Len(p)
      BY <1>1, <2>1
    <3>2. s[i] = ClassNamed(p[i]) /\ t[i] = ClassNamed(p[i])
      BY <1>1, <1>4, <1>5, <3>1
    <3> QED BY <1>7, <2>1, <3>2
  <2>2. CASE ~(i <= Len(p))
    <3>1. i = Len(p) + 1 /\ i - Len(p) = 1
      BY <1>1, <2>2
    <3>2. s[i] = class
      BY <1>1, <1>4, <3>1
    <3>3. u[i] = <<class>>[1]
      BY <1>7, <2>2, <3>1
    <3> QED BY <1>6, <3>2, <3>3
  <2> QED BY <2>1, <2>2
<1> HIDE DEF u
<1>9. s = u
  BY <1>1, <1>2, <1>7, <1>8, SeqEqual
<1> QED
  BY <1>9 DEF s, t, u, more

LEMMA TrunkClasses == ClassesOf(<<"org", "tenant">>) = <<"Kek", "Kek">>
<1>1. "org" \in Names /\ "tenant" \in Names /\ "Kek" \in ClassNames
  BY DEF Names, ClassNames
<1>2. ClassesOf(<<"org">>) = <<"Kek">>
  <2>1. /\ ClassesOf(<<"org">>) \in Seq(ClassNames) /\ Len(ClassesOf(<<"org">>)) = 1
        /\ ClassesOf(<<"org">>)[1] = "Kek"
    BY Trunk, ClassesTyped, Standings DEF ClassesOf
  <2>2. ASSUME NEW S, NEW a \in S, NEW s \in Seq(S), Len(s) = 1, s[1] = a PROVE s = <<a>>
    BY <2>2
  <2> QED BY <1>1, <2>1, <2>2
<1>3. ClassesOf(<<"org">> \o <<"tenant">>) = ClassesOf(<<"org">>) \o <<"Kek">>
  BY <1>1, Trunk, Standings, ClassesMore
<1>4. <<"Kek">> \o <<"Kek">> = <<"Kek", "Kek">>
  BY <1>1, NamesJoined
<1> QED
  BY <1>2, <1>3, <1>4, Trunk

\* The last two steps of every chain.
LEMMA VmkDekChain ==
  ASSUME NEW p, Rooted(p), VmkDek(p) \subseteq StandardTree
  PROVE  OnTree(ClassesOf(p) \o <<"Vmk", "Dek">>)
<1>1. "vmk" \in Names /\ "dek" \in Names /\ "Vmk" \in ClassNames /\ "Dek" \in ClassNames
  BY DEF Names, ClassNames
<1>2. IsPath(p)
  BY DEF Rooted
<1>3. /\ Node(p \o <<"vmk">>, "Vmk", "Quarterly") \in StandardTree
      /\ Node((p \o <<"vmk">>) \o <<"dek">>, "Dek", "PerBoot") \in StandardTree
  BY <1>2, VmkDekNodes
<1>4. Rooted(p \o <<"vmk">>) /\ IsPath(p \o <<"vmk">>)
  <2>1. Rooted(p \o <<"vmk">>)
    BY <1>1, <1>3, RootedMore
  <2> QED BY <2>1 DEF Rooted
<1>5. Rooted((p \o <<"vmk">>) \o <<"dek">>)
  BY <1>1, <1>3, <1>4, RootedMore
<1>6. OnTree(ClassesOf((p \o <<"vmk">>) \o <<"dek">>))
  BY <1>3, <1>5, RootedChain
<1>7. ClassesOf((p \o <<"vmk">>) \o <<"dek">>) = ClassesOf(p \o <<"vmk">>) \o <<"Dek">>
  BY <1>1, <1>4, Standings, ClassesMore
<1>8. ClassesOf(p \o <<"vmk">>) = ClassesOf(p) \o <<"Vmk">>
  BY <1>1, <1>2, Standings, ClassesMore
<1>9. (ClassesOf(p) \o <<"Vmk">>) \o <<"Dek">> = ClassesOf(p) \o <<"Vmk", "Dek">>
  <2>1. ClassesOf(p) \in Seq(ClassNames)
    BY <1>2, ClassesTyped
  <2> QED BY <1>1, <2>1, TwoMore
<1> QED
  BY <1>6, <1>7, <1>8, <1>9

\* A branch of the tree, from the trunk on.
LEMMA RootedTrunks ==
  /\ Rooted(<<"org", "tenant">>) /\ Rooted(DevicePath) /\ Rooted(RemotePath)
  /\ ClassesOf(DevicePath) = <<"Kek", "Kek">> \o <<"DeviceKey">>
  /\ ClassesOf(RemotePath) = <<"Kek", "Kek">> \o <<"RemoteKmsKey">>
<1>1. "tenant" \in Names /\ "device" \in Names /\ "remote" \in Names
  BY DEF Names
<1>2. /\ Node(<<"org">>, "Kek", "Annual") \in StandardTree
      /\ Node(<<"org", "tenant">>, "Kek", "Quarterly") \in StandardTree
      /\ Node(DevicePath, "DeviceKey", "Annual") \in StandardTree
      /\ Node(RemotePath, "RemoteKmsKey", "Monthly") \in StandardTree
  BY DEF StandardTree, DeviceBranch, RemoteBranch
<1>3. Rooted(<<"org">>)
  <2>1. SubSeq(<<"org">>, 1, 1) = <<"org">>
    BY Trunk, SubSeqFull DEF IsPath
  <2>2. \E n \in StandardTree : n.path = <<"org">>
    BY <1>2 DEF Node
  <2>3. \A i \in 1 .. Len(<<"org">>) : i = 1
    BY Trunk
  <2> QED BY <2>1, <2>2, <2>3, Trunk DEF Rooted
<1>4. Rooted(<<"org", "tenant">>)
  <2>1. Rooted(<<"org">> \o <<"tenant">>)
    BY <1>1, <1>2, <1>3, Trunk, RootedMore
  <2> QED BY <2>1, Trunk
<1>5. Rooted(DevicePath)
  <2>1. Rooted(<<"org", "tenant">> \o <<"device">>)
    BY <1>1, <1>2, <1>4, Trunk, RootedMore
  <2> QED BY <2>1, Trunk
<1>6. Rooted(RemotePath)
  <2>1. Rooted(<<"org", "tenant">> \o <<"remote">>)
    BY <1>1, <1>2, <1>4, Trunk, RootedMore
  <2> QED BY <2>1, Trunk
<1>7. /\ ClassesOf(DevicePath) = <<"Kek", "Kek">> \o <<"DeviceKey">>
      /\ ClassesOf(RemotePath) = <<"Kek", "Kek">> \o <<"RemoteKmsKey">>
  <2>1. /\ ClassesOf(<<"org", "tenant">> \o <<"device">>) = <<"Kek", "Kek">> \o <<"DeviceKey">>
        /\ ClassesOf(<<"org", "tenant">> \o <<"remote">>) = <<"Kek", "Kek">> \o <<"RemoteKmsKey">>
    BY <1>1, Trunks, Standings, TrunkClasses, ClassesMore
  <2> QED BY <2>1, Trunk
<1> QED
  BY <1>4, <1>5, <1>6, <1>7

\* The four kinds of keyslot.
LEMMA ChainsOnTree ==
  ASSUME NEW kind \in PlainKinds \cup {"hybrid_remote_kms"}
  PROVE  OnTree(WrappingChain(kind))
<1>0. /\ {"tpm-sealed", "fido2-user", "recovery", "share", "hybrid"} \subseteq Names
      /\ {"Kek", "DeviceKey", "HardwareSealedKey", "UserKey", "RecoveryKey",
          "ThresholdShare", "RemoteKmsKey", "PqcWrappedKey"} \subseteq ClassNames
  BY DEF Names, ClassNames
<1>1. /\ Rooted(DevicePath) /\ IsPath(DevicePath)
      /\ ClassesOf(DevicePath) = <<"Kek", "Kek">> \o <<"DeviceKey">>
      /\ Rooted(RemotePath) /\ IsPath(RemotePath)
      /\ ClassesOf(RemotePath) = <<"Kek", "Kek">> \o <<"RemoteKmsKey">>
  BY RootedTrunks, Trunks
<1>2. /\ Node(DevicePath \o <<"tpm-sealed">>, "HardwareSealedKey", "PerBoot") \in StandardTree
      /\ Node(DevicePath \o <<"fido2-user">>, "UserKey", "OnDemand") \in StandardTree
      /\ Node(DevicePath \o <<"recovery">>, "RecoveryKey", "OnCompromise") \in StandardTree
      /\ Node(DevicePath \o <<"recovery", "share">>, "ThresholdShare", "OnCompromise")
           \in StandardTree
      /\ Node(RemotePath \o <<"hybrid">>, "PqcWrappedKey", "Monthly") \in StandardTree
      /\ VmkDek(DevicePath \o <<"tpm-sealed">>) \subseteq StandardTree
      /\ VmkDek(DevicePath \o <<"fido2-user">>) \subseteq StandardTree
      /\ VmkDek(DevicePath \o <<"recovery", "share">>) \subseteq StandardTree
      /\ VmkDek(RemotePath \o <<"hybrid">>) \subseteq StandardTree
  BY Zenon DEF StandardTree, DeviceBranch, RemoteBranch
<1>3. <<"Kek", "Kek">> \in Seq(ClassNames)
  <2>1. ASSUME NEW S, NEW a \in S, NEW b \in S PROVE <<a, b>> \in Seq(S)
    OBVIOUS
  <2> QED BY <1>0, <2>1
<1>4. CASE kind = "argon2id_passphrase"
  <2>1. Rooted(DevicePath \o <<"fido2-user">>)
    BY <1>0, <1>1, <1>2, RootedMore
  <2>2. ClassesOf(DevicePath \o <<"fido2-user">>)
          = (<<"Kek", "Kek">> \o <<"DeviceKey">>) \o <<"UserKey">>
    BY <1>0, <1>1, Standings, ClassesMore
  <2>3. (<<"Kek", "Kek">> \o <<"DeviceKey">>) \o <<"UserKey">>
          = <<"Kek", "Kek">> \o <<"DeviceKey", "UserKey">>
    BY <1>0, <1>3, TwoMore
  <2>4. WrappingChain(kind) = (<<"Kek", "Kek">> \o <<"DeviceKey", "UserKey">>) \o <<"Vmk", "Dek">>
    BY <1>4 DEF WrappingChain
  <2> QED BY <1>2, <2>1, <2>2, <2>3, <2>4, VmkDekChain
<1>5. CASE kind = "tpm2_sealed"
  <2>1. Rooted(DevicePath \o <<"tpm-sealed">>)
    BY <1>0, <1>1, <1>2, RootedMore
  <2>2. ClassesOf(DevicePath \o <<"tpm-sealed">>)
          = (<<"Kek", "Kek">> \o <<"DeviceKey">>) \o <<"HardwareSealedKey">>
    BY <1>0, <1>1, Standings, ClassesMore
  <2>3. (<<"Kek", "Kek">> \o <<"DeviceKey">>) \o <<"HardwareSealedKey">>
          = <<"Kek", "Kek">> \o <<"DeviceKey", "HardwareSealedKey">>
    BY <1>0, <1>3, TwoMore
  <2>4. WrappingChain(kind)
          = (<<"Kek", "Kek">> \o <<"DeviceKey", "HardwareSealedKey">>) \o <<"Vmk", "Dek">>
    BY <1>5 DEF WrappingChain
  <2> QED BY <1>2, <2>1, <2>2, <2>3, <2>4, VmkDekChain
<1>6. CASE kind = "threshold_recovery"
  <2>0. DevicePath \o <<"recovery", "share">> = (DevicePath \o <<"recovery">>) \o <<"share">>
    <3>1. DevicePath \in Seq(Names) /\ "recovery" \in Names /\ "share" \in Names
      BY <1>0, <1>1 DEF IsPath
    <3> QED BY <3>1, TwoMore
  <2>1. Rooted(DevicePath \o <<"recovery">>) /\ IsPath(DevicePath \o <<"recovery">>)
    <3>1. Rooted(DevicePath \o <<"recovery">>)
      BY <1>0, <1>1, <1>2, RootedMore
    <3> QED BY <3>1 DEF Rooted
  <2>2. Rooted((DevicePath \o <<"recovery">>) \o <<"share">>)
    BY <1>0, <1>2, <2>0, <2>1, RootedMore
  <2>3. ClassesOf((DevicePath \o <<"recovery">>) \o <<"share">>)
          = ClassesOf(DevicePath \o <<"recovery">>) \o <<"ThresholdShare">>
    BY <1>0, <2>1, Standings, ClassesMore
  <2>4. ClassesOf(DevicePath \o <<"recovery">>)
          = (<<"Kek", "Kek">> \o <<"DeviceKey">>) \o <<"RecoveryKey">>
    BY <1>0, <1>1, Standings, ClassesMore
  <2>5. ((<<"Kek", "Kek">> \o <<"DeviceKey">>) \o <<"RecoveryKey">>) \o <<"ThresholdShare">>
          = <<"Kek", "Kek">> \o <<"DeviceKey", "RecoveryKey", "ThresholdShare">>
    BY <1>0, <1>3, ThreeMore
  <2>6. WrappingChain(kind)
          = (<<"Kek", "Kek">> \o <<"DeviceKey", "RecoveryKey", "ThresholdShare">>)
              \o <<"Vmk", "Dek">>
    BY <1>6 DEF WrappingChain
  <2> QED BY <1>2, <2>0, <2>2, <2>3, <2>4, <2>5, <2>6, VmkDekChain
<1>7. CASE kind = "hybrid_remote_kms"
  <2>1. Rooted(RemotePath \o <<"hybrid">>)
    BY <1>0, <1>1, <1>2, RootedMore
  <2>2. ClassesOf(RemotePath \o <<"hybrid">>)
          = (<<"Kek", "Kek">> \o <<"RemoteKmsKey">>) \o <<"PqcWrappedKey">>
    BY <1>0, <1>1, Standings, ClassesMore
  <2>3. (<<"Kek", "Kek">> \o <<"RemoteKmsKey">>) \o <<"PqcWrappedKey">>
          = <<"Kek", "Kek">> \o <<"RemoteKmsKey", "PqcWrappedKey">>
    BY <1>0, <1>3, TwoMore
  <2>4. WrappingChain(kind)
          = (<<"Kek", "Kek">> \o <<"RemoteKmsKey", "PqcWrappedKey">>) \o <<"Vmk", "Dek">>
    BY <1>7 DEF WrappingChain
  <2> QED BY <1>2, <2>1, <2>2, <2>3, <2>4, VmkDekChain
<1> QED
  BY <1>4, <1>5, <1>6, <1>7 DEF PlainKinds
\* The wrapping chain that StorageKeyHierarchy states for any keyslot of a manifest is a
\* path of the tree that KeyHierarchyBuilder::build makes, and the keys on it are rotated
\* as rotation_for says.
THEOREM SlotsAlwaysOnTree == Spec => []SlotsAreOnTree
<1>1. TypeOK => SlotsAreOnTree
  <2> SUFFICES ASSUME TypeOK, req # NoRequest, NEW i \in DOMAIN req.manifest.body.keyslots
               PROVE  OnTree(WrappingChainFor(Summary(req.manifest), i))
    BY DEF SlotsAreOnTree
  <2> DEFINE kind == req.manifest.body.keyslots[i].kind
  <2>1. kind \in PlainKinds \cup {"hybrid_remote_kms"}
    BY UnlockAssumption DEF TypeOK, Slots
  <2>2. WrappingChainFor(Summary(req.manifest), i) = WrappingChain(kind)
    BY DEF WrappingChainFor, Summary
  <2> QED BY <2>1, <2>2, ChainsOnTree
<1> QED
  BY <1>1, TypeCorrect, PTL

=============================================================================
