---------------------------- MODULE MCQrseUnlock ----------------------------
(* A strict floor, requests that pass and differ in one part of what the key *)
(* is bound to, and one request for each way to fail.                        *)
EXTENDS QrseUnlock

MCFloor == [tenant_min_manifest_version |-> 2, require_pqc_signature |-> TRUE,
            allow_classical_only |-> FALSE]

DiskPq == NewSigner("ml-dsa-65", "disk-pq", "seed", 64)
DiskClassical == NewSigner("ecdsa-p384", "disk-classical", "seed", 50)
Stranger == NewSigner("ml-dsa-65", "disk-pq", "other", 64)

MCVerifiers == {VerifierOf(DiskPq), VerifierOf(DiskClassical)}
Seed(key, seed) == [separated |-> TRUE, key_id |-> key, seed |-> seed]
MCTrust == <<Seed("disk-classical", "seed"), Seed("disk-pq", "seed"),
             Seed("disk-pq", "other")>>

Suite(pqc) == [classical |-> "x25519", pqc |-> pqc, combiner |-> "hkdf-sha384"]
HybridSlot(status, pqc) == Slot(status, "hybrid_remote_kms", Suite(pqc))
Passphrase == Slot("active", "argon2id_passphrase", Suite(""))
Others == <<Slot("active", "tpm2_sealed", Suite("")),
            Slot("disabled_until_break_glass", "threshold_recovery", Suite(""))>>
Hybrid == HybridSlot("active", "ml-kem-768")

Volume(version, slots) ==
  [format |-> QRSD_FORMAT, signatures |-> <<>>,
   body |-> [volume_id |-> "vol", policy_id |-> "pol", version |-> version,
             keyslots |-> slots, rest |-> "a"]]

SignedBy(m, s) == SignManifest(m, s, "disk-manifest")
Signed(m) == SignedBy(SignedBy(m, DiskClassical), DiskPq)

Leg(alg, seed) ==
  LET key == GenerateKeypair(alg, seed) IN
  [dk |-> key.dk, ct |-> Encapsulate(key.ek, seed).ct, dead |-> FALSE]

Measured(policy, capsule) == [boot_policy_hash |-> policy, capsule |-> capsule]
MCGranted == {Measured("p", "c"), Measured("p", "d"), Measured("q", "c")}

Asking(m) ==
  [manifest |-> m, measurement |-> Measured("p", "c"), device_id |-> "d1",
   classical |-> Leg("x25519", "s"), pqc |-> Leg("ml-kem-768", "s")]

MCPlans ==
  {NewPlan("vol", AES_256_XTS_ARGON2ID, DEFAULT_TRANSITION_SUITE)} \cup
  {[NewPlan("vol", AES_256_XTS_ARGON2ID, suite) EXCEPT !.min_boot_manifest_version = 3] :
     suite \in {DEFAULT_TRANSITION_SUITE, HIGH_ASSURANCE_SUITE}} \cup
  {NewPlan("vol", [AES_256_XTS_ARGON2ID EXCEPT !.pbkdf = "pbkdf2"], HIGH_ASSURANCE_SUITE)}

Planned ==
  {Asking(Signed(PlannedManifest(plan))) : plan \in {p \in MCPlans : Plannable(p)}}

Good == Signed(Volume(3, <<Passphrase, Hybrid>> \o Others))

\* What the key is bound to, and a part of the measurement it is not.
Bindings ==
  {Asking(Good), Asking(Signed([Good EXCEPT !.signatures = <<>>])),
   Asking(Signed(Volume(3, <<HybridSlot("active", "ml-kem-1024"), Hybrid>>))),
   [Asking(Good) EXCEPT !.measurement = Measured("q", "c")],
   [Asking(Good) EXCEPT !.measurement = Measured("p", "d")],
   [Asking(Good) EXCEPT !.device_id = "d2"],
   [Asking(Good) EXCEPT !.pqc = Leg("ml-kem-768", "other")]}

Refused ==
  {Asking(Signed(Volume(v, <<Hybrid>>))) : v \in {1, 2, 4}} \cup
  {Asking(Signed(Volume(3, slots))) :
     slots \in {<<Passphrase>>, <<Passphrase, HybridSlot("retired", "ml-kem-768")>>,
                <<Hybrid, HybridSlot("active", "")>>}} \cup
  {Asking(m) : m \in {SignedBy([Good EXCEPT !.signatures = <<>>], DiskClassical),
                      SignedBy([Good EXCEPT !.signatures = <<>>], Stranger),
                      [Good EXCEPT !.signatures = <<>>],
                      [Good EXCEPT !.body.version = 4],
                      [Good EXCEPT !.format = "other"],
                      [Good EXCEPT !.signatures[1].decodes = FALSE]}} \cup
  {[Asking(Good) EXCEPT !.measurement = Measured("e", "c")],
   [Asking(Good) EXCEPT !.classical.dk = Empty],
   [Asking(Good) EXCEPT !.pqc.ct = Empty],
   [Asking(Good) EXCEPT !.pqc.dead = TRUE]}

MCRequests == Planned \cup Bindings \cup Refused
=============================================================================
