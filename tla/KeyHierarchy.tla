----------------------------- MODULE KeyHierarchy -----------------------------
(***************************************************************************)
(* The key hierarchy of a volume (hyper-qrse hierarchy.rs): the standard   *)
(* tree that KeyHierarchyBuilder::build makes, and the two tables that     *)
(* speak of it without reading it: wrapping_chain, the key classes above a *)
(* data key for each kind of keyslot, and rotation_for.                    *)
(*                                                                         *)
(* A node is the path of names from the root to it.                        *)
(***************************************************************************)
EXTENDS Sequences, Integers

Node(path, class, rotation) == [path |-> path, class |-> class, rotation |-> rotation]

\* A volume master key and its data key under the node of a path.
VmkDek(path) ==
  {Node(path \o <<"vmk">>, "Vmk", "Quarterly"),
   Node(path \o <<"vmk", "dek">>, "Dek", "PerBoot")}

DevicePath == <<"org", "tenant", "device">>
RemotePath == <<"org", "tenant", "remote">>

DeviceBranch ==
  {Node(DevicePath, "DeviceKey", "Annual"),
   Node(DevicePath \o <<"tpm-sealed">>, "HardwareSealedKey", "PerBoot"),
   Node(DevicePath \o <<"fido2-user">>, "UserKey", "OnDemand"),
   Node(DevicePath \o <<"recovery">>, "RecoveryKey", "OnCompromise"),
   Node(DevicePath \o <<"recovery", "share">>, "ThresholdShare", "OnCompromise")}
  \cup VmkDek(DevicePath \o <<"tpm-sealed">>)
  \cup VmkDek(DevicePath \o <<"fido2-user">>)
  \cup VmkDek(DevicePath \o <<"recovery", "share">>)

RemoteBranch ==
  {Node(RemotePath, "RemoteKmsKey", "Monthly"),
   Node(RemotePath \o <<"classical-leg">>, "Kek", "Monthly"),
   Node(RemotePath \o <<"ml-kem-leg">>, "PqcWrappedKey", "Monthly"),
   Node(RemotePath \o <<"hybrid">>, "PqcWrappedKey", "Monthly")}
  \cup VmkDek(RemotePath \o <<"hybrid">>)

StandardTree ==
  {Node(<<"org">>, "Kek", "Annual"), Node(<<"org", "tenant">>, "Kek", "Quarterly")}
  \cup DeviceBranch \cup RemoteBranch

\* Faulty variant: recovery wraps the volume key without a share.
ChainWithoutShare(kind) ==
  <<"Kek", "Kek">> \o
  (CASE kind = "argon2id_passphrase" -> <<"DeviceKey", "UserKey">>
     [] kind = "tpm2_sealed" -> <<"DeviceKey", "HardwareSealedKey">>
     [] kind = "threshold_recovery" -> <<"DeviceKey", "RecoveryKey">>
     [] kind = "hybrid_remote_kms" -> <<"RemoteKmsKey", "PqcWrappedKey">>)
  \o <<"Vmk", "Dek">>

\* KeyHierarchy::wrapping_chain.
WrappingChain(kind) ==
  <<"Kek", "Kek">> \o
  (CASE kind = "argon2id_passphrase" -> <<"DeviceKey", "UserKey">>
     [] kind = "tpm2_sealed" -> <<"DeviceKey", "HardwareSealedKey">>
     [] kind = "threshold_recovery" -> <<"DeviceKey", "RecoveryKey", "ThresholdShare">>
     [] kind = "hybrid_remote_kms" -> <<"RemoteKmsKey", "PqcWrappedKey">>)
  \o <<"Vmk", "Dek">>

\* KeyHierarchy::rotation_for.
RotationFor(class) ==
  CASE class \in {"Dek", "HardwareSealedKey"} -> "PerBoot"
    [] class \in {"Vmk", "AuditSigningKey"} -> "Quarterly"
    [] class \in {"DeviceKey", "Kek"} -> "Annual"
    [] class = "UserKey" -> "OnDemand"
    [] class \in {"RecoveryKey", "ThresholdShare"} -> "OnCompromise"
    [] class \in {"RemoteKmsKey", "PqcWrappedKey"} -> "Monthly"

\* The nodes on the way from the root of the tree to a node, and their classes.
On(node, i) == CHOOSE n \in StandardTree : n.path = SubSeq(node.path, 1, i)
ClassesTo(node) == [i \in DOMAIN node.path |-> On(node, i).class]

\* A chain leads through the tree to a data key, and the tree rotates the
\* keys on it as the table says, but for the generic key-encryption keys: those the
\* tree rotates more often.
OnTree(chain) ==
  \E dek \in {n \in StandardTree : n.class = "Dek"} :
    /\ ClassesTo(dek) = chain
    /\ \A i \in DOMAIN dek.path :
         On(dek, i).class # "Kek" => On(dek, i).rotation = RotationFor(On(dek, i).class)
=============================================================================
