------------------------------ MODULE AuditLog ------------------------------
(***************************************************************************)
(* What the audit receipt chain promises a reader who sees nothing but the *)
(* chain: it only grows, and each receipt may follow the previous receipt  *)
(* of the same VM in the order the VM lifecycle allows.  A vm_launch       *)
(* receipt therefore stands at the end of an unbroken run of allow         *)
(* receipts that begins with a vm_define of the same VM.                   *)
(*                                                                         *)
(* A receipt is the record of its event, subject and decision; the hash    *)
(* links between receipts are the subject of ReceiptChain.tla.             *)
(***************************************************************************)
EXTENDS Sequences, Integers

CONSTANT VmIds

VARIABLE log

Events == {"vm_define", "manifest_verify", "vm_prepare", "key_release",
           "device_assign", "vm_launch", "vm_pause", "snapshot", "vm_stop",
           "destroy"}
Decisions == {"allow", "deny"}
Receipt == [event : Events, subject : VmIds, decision : Decisions]
Rcpt(e, v, d) == [event |-> e, subject |-> v, decision |-> d]

\* The verdict of a receipt, or the lack of any receipt.
NoVerdict == <<"none", "none">>
Verdict(r) == <<r.event, r.decision>>
Verdicts == (Events \X Decisions) \cup {NoVerdict}

\* The last receipt about v in l is at position i.
IsLastAt(l, v, i) ==
  /\ i \in DOMAIN l
  /\ l[i].subject = v
  /\ \A j \in DOMAIN l : j > i => l[j].subject # v

\* q is the verdict of the last receipt about v in l.
Latest(l, v, q) ==
  \/ q = NoVerdict /\ \A i \in DOMAIN l : l[i].subject # v
  \/ \E i \in DOMAIN l : IsLastAt(l, v, i) /\ q = Verdict(l[i])

\* The verdicts that a receipt of each event may directly follow, among the
\* receipts of one VM.  A VM can be defined anew at any time.
MayFollow(e) ==
  CASE e = "vm_define"       -> Verdicts
    [] e = "manifest_verify" -> {<<"vm_define", "allow">>}
    [] e = "vm_prepare"      -> {<<"manifest_verify", "allow">>}
    [] e = "key_release"     -> {<<"vm_prepare", "allow">>}
    [] e = "device_assign"   -> {<<"key_release", "allow">>}
    [] e = "vm_launch"       -> {<<"device_assign", "allow">>}
    [] e = "vm_pause"        -> {<<"vm_launch", "allow">>}
    [] e = "snapshot"        -> {<<"vm_pause", "allow">>}
    [] e = "vm_stop"         -> {<<"vm_launch", "allow">>}
    [] e = "destroy"         -> {<<"vm_stop", "allow">>}

\* Only the three gates that consult a policy can record a denial.
MayDeny == {"manifest_verify", "key_release", "device_assign"}

Init == log = <<>>

Record(r) ==
  /\ r.decision = "deny" => r.event \in MayDeny
  /\ \E q \in MayFollow(r.event) : Latest(log, r.subject, q)
  /\ log' = Append(log, r)

Next == \E r \in Receipt : Record(r)

Spec == Init /\ [][Next]_log

=============================================================================
