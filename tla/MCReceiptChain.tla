--------------------------- MODULE MCReceiptChain ---------------------------
(* policy_id of a receipt is a String; vm_id of an event and policy_id of an *)
(* earlier receipt are options, of which the earlier hash does not tell an   *)
(* absent from an empty one.                                                 *)
EXTENDS ReceiptChain

Says(tags) == [says : {"a"}, tag : tags]
MCBodies ==
  [k \in Kinds |-> CASE k = "receipt" -> Says({"", "id"})
                     [] k = "security" -> Says({None, ""})
                     [] k = "legacy" -> Says({None, "", "id"})]
=============================================================================
