------------------------------ MODULE QrseCrypto ------------------------------
(***************************************************************************)
(* The primitives of the volume control plane (hyper-qrse crypto.rs,       *)
(* combiner.rs) as terms: the value of a hash, MAC or key derivation is    *)
(* the term of its inputs, so two values are equal exactly when their      *)
(* inputs are.  The deterministic KEM and signer are the repository's own; *)
(* names hold no separator.                                                *)
(***************************************************************************)
EXTENDS Integers, Sequences

Empty == <<>>                    \* no bytes
Zero == <<"zero", <<>>>>         \* the all-zero shared secret
SHA384_LEN == 48
KEK_LEN == 32
MaxOkm == 255 * SHA384_LEN       \* the longest output of HKDF

\* kdf writes the length of every part before it.
kdf(domain, parts) == <<domain, parts>>

-----------------------------------------------------------------------------
\* DeterministicKem.
Root(alg, seed) == kdf("qrse:kem:root", <<alg, seed>>)

EncapKey(dk) == kdf("qrse:kem:ek", <<dk>>)

GenerateKeypair(alg, seed) ==
  [ek |-> EncapKey(Root(alg, seed)), dk |-> Root(alg, seed)]

Ciphertext(ek, seed) ==
  kdf("qrse:kem:ct", <<ek, kdf("qrse:kem:r", <<ek, seed>>)>>)

Secret(ek, ct) == kdf("qrse:kem:ss", <<ek, ct>>)

Encapsulate(ek, seed) ==
  [ct |-> Ciphertext(ek, seed), ss |-> Secret(ek, Ciphertext(ek, seed))]

\* A leg holds what its caller brings: a key, a ciphertext, and whether its KEM, any
\* implementation of the trait, answers with a dead secret.
Decapsulates(leg) == leg.dk # Empty /\ leg.ct # Empty

\* A key that does not fit the ciphertext is no error: it gives another secret.
Decapsulated(leg) == IF leg.dead THEN Zero ELSE Secret(EncapKey(leg.dk), leg.ct)

IsLive(ss) == ss # Zero

-----------------------------------------------------------------------------
\* DeterministicSigner.  The public side of a key computes the same MAC.
NewSigner(alg, key_id, seed, declared) ==
  [algorithm |-> alg, key_id |-> key_id, declared |-> declared,
   secret |-> kdf("qrse:sig:sk", <<alg, key_id, seed>>)]

VerifierOf(s) == [algorithm |-> s.algorithm, key_id |-> s.key_id, secret |-> s.secret]

Mac(k, message) == <<"hmac", k.secret, k.algorithm, message>>

\* A signature is padded to its declared size, and never cut.
SignatureLen(s) == IF s.declared > SHA384_LEN THEN s.declared ELSE SHA384_LEN

Sign(s, message) ==
  [algorithm |-> s.algorithm, key_id |-> s.key_id,
   mac |-> Mac(s, message), len |-> SignatureLen(s)]

VerifySignature(v, message, sig) ==
  /\ sig.algorithm = v.algorithm /\ sig.key_id = v.key_id
  /\ sig.len >= SHA384_LEN
  /\ sig.mac = Mac(v, message)

-----------------------------------------------------------------------------
COMBINER_LABEL == "storage-unlock-v1"

Canonical(suite) == <<suite.classical, suite.pqc, suite.combiner>>

\* Faulty variant: the measurement is not written.
UnmeasuredBytes(c) ==
  <<c.volume_id, c.device_id, c.policy_id, c.policy_version,
    Canonical(c.algorithm_suite)>>

\* CombinerContext::to_bytes.
ToBytes(c) ==
  <<c.volume_id, c.device_id, c.policy_id, c.policy_version,
    Canonical(c.algorithm_suite), c.boot_measurement>>

\* hybrid_combine: an error unless both legs are live, and else the derived key.
Combines(ss_classical, ss_pqc, len) ==
  IsLive(ss_classical) /\ IsLive(ss_pqc) /\ len <= MaxOkm

HybridCombine(ss_classical, ss_pqc, transcript, context, len) ==
  <<"hkdf", <<"sha384", transcript>>, <<ss_classical, ss_pqc>>,
    <<COMBINER_LABEL, ToBytes(context)>>, len>>

=============================================================================
