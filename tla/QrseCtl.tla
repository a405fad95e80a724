-------------------------------- MODULE QrseCtl --------------------------------
(***************************************************************************)
(* The operator's command line (apps/qrsectl): the exit codes of           *)
(* `manifest verify' and `downgrade check'.  A command is stateless: it    *)
(* reads a manifest file and its arguments.  The JSON it prints is left    *)
(* out, and the commands that only print, inspect, demo and suites.        *)
(*                                                                         *)
(* A trust entry is what a KEY_ID=SEED argument says, or one without `='.  *)
(***************************************************************************)
EXTENDS QrseManifest

\* A file that cannot be read, or holds no manifest.
ReadsManifest(file) == file.readable /\ file.parses
ParsesTrust(trust) == \A i \in DOMAIN trust : trust[i].separated

\* Faulty variant: a verifier only for the first signature.
VerifiersOfFirst(m, trust) ==
  {VerifierOf(NewSigner(m.signatures[1].algorithm, trust[j].key_id, trust[j].seed, 1)) :
     j \in {k \in DOMAIN trust : /\ m.signatures # <<>>
                                /\ trust[k].key_id = m.signatures[1].key_id}}

\* build_verifiers: for each signature the first entry for its key, with the
\* algorithm the signature names.
FirstFor(trust, j) == \A k \in 1 .. j - 1 : trust[k].key_id # trust[j].key_id
BuildVerifiers(m, trust) ==
  UNION {{VerifierOf(NewSigner(m.signatures[i].algorithm, trust[j].key_id,
                               trust[j].seed, 1)) :
            j \in {k \in DOMAIN trust :
                     trust[k].key_id = m.signatures[i].key_id /\ FirstFor(trust, k)}} :
         i \in DOMAIN m.signatures}

CtlVerified(file, trust) ==
  ManifestVerified(file.manifest, BuildVerifiers(file.manifest, trust))

\* manifest_verify.
ManifestVerifyExit(file, trust) ==
  IF ~ReadsManifest(file) \/ ~ParsesTrust(trust) THEN 1
  ELSE IF ~CtlVerified(file, trust) THEN 2
  ELSE 0

\* The command has no option for a tenant that does not require post-quantum.
CtlFloor(floor, allow_classical_only) ==
  [tenant_min_manifest_version |-> floor, require_pqc_signature |-> TRUE,
   allow_classical_only |-> allow_classical_only]

\* downgrade_check.
DowngradeCheckExit(file, floor, counter, allow_classical_only, trust) ==
  IF ManifestVerifyExit(file, trust) # 0 THEN ManifestVerifyExit(file, trust)
  ELSE IF ~DowngradeAccepted(file.manifest, CtlFloor(floor, allow_classical_only), counter)
    THEN 3
  ELSE 0
=============================================================================
