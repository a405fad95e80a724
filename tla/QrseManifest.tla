----------------------------- MODULE QrseManifest -----------------------------
(***************************************************************************)
(* The signed manifest of a volume (hyper-qrse manifest.rs, keyslot.rs)    *)
(* and the downgrade check on it (downgrade.rs).  The body holds what the  *)
(* unlock reads; `rest' stands for the data plane, dates and audit anchor, *)
(* which only the signature tells apart.                                   *)
(***************************************************************************)
EXTENDS QrseCrypto

QRSD_FORMAT == "qrsd-v1"

\* is_pq_signature_alg looks at the prefix, in any case.
PqSignatureAlgs == {"ml-dsa-65", "ML-DSA-65", "slh-dsa-128s"}
IsPqSignatureAlg(alg) == alg \in PqSignatureAlgs

\* KeyslotKind: the last carries a KEM suite.
PlainKinds == {"argon2id_passphrase", "tpm2_sealed", "threshold_recovery"}
Statuses == {"active", "disabled_until_break_glass", "retired"}

Slot(status, kind, suite) == [status |-> status, kind |-> kind, kem |-> suite]

IsActive(s) == s.status = "active"
IsHybrid(s) == s.kind = "hybrid_remote_kms"

\* Every slot kind but the hybrid one, and a hybrid slot whose post-quantum leg was
\* stripped from its suite.
ClassicalOnly(s) == ~IsHybrid(s) \/ s.kem.pqc = ""

Slots(m) == {m.body.keyslots[i] : i \in DOMAIN m.body.keyslots}

\* QrsdManifest::signing_bytes: everything but the signatures.
SigningBytes(m) == <<m.format, m.body>>

\* QrsdManifest::sign, with the signature written as hex.
SignManifest(m, s, purpose) ==
  LET sig == Sign(s, SigningBytes(m)) IN
  [m EXCEPT !.signatures =
     Append(@, [purpose |-> purpose, algorithm |-> sig.algorithm,
                key_id |-> sig.key_id, decodes |-> TRUE,
                mac |-> sig.mac, len |-> sig.len])]

SignatureValid(m, ms, verifiers) ==
  \E v \in verifiers :
    /\ v.key_id = ms.key_id /\ v.algorithm = ms.algorithm
    /\ VerifySignature(v, SigningBytes(m), ms)

\* QrsdManifest::verify answers Ok: a classical signature alone is not enough, and
\* one reference that is no hex refuses them all.
ManifestVerified(m, verifiers) ==
  /\ m.format = QRSD_FORMAT
  /\ \A i \in DOMAIN m.signatures : m.signatures[i].decodes
  /\ \E i \in DOMAIN m.signatures :
       /\ SignatureValid(m, m.signatures[i], verifiers)
       /\ IsPqSignatureAlg(m.signatures[i].algorithm)

-----------------------------------------------------------------------------
PqcRequired(floor) == floor.require_pqc_signature /\ ~floor.allow_classical_only

\* No hybrid slot lost its post-quantum leg, and there is a hybrid slot.
PqcKept(m) ==
  /\ \A s \in Slots(m) : ~(IsHybrid(s) /\ ClassicalOnly(s))
  /\ \E s \in Slots(m) : IsHybrid(s)

\* Faulty variants of the check: the device's counter is not read, or a stripped
\* hybrid slot passes.
AcceptedWithoutCounter(m, floor, counter) ==
  /\ m.body.version >= floor.tenant_min_manifest_version
  /\ PqcRequired(floor) => PqcKept(m)

AcceptedStripped(m, floor, counter) ==
  /\ m.body.version >= floor.tenant_min_manifest_version
  /\ m.body.version >= counter
  /\ PqcRequired(floor) => \E s \in Slots(m) : IsHybrid(s)

\* downgrade::check answers Ok.
DowngradeAccepted(m, floor, counter) ==
  /\ m.body.version >= floor.tenant_min_manifest_version
  /\ m.body.version >= counter
  /\ PqcRequired(floor) => PqcKept(m)

=============================================================================
