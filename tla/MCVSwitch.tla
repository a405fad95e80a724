------------------------------ MODULE MCVSwitch ------------------------------
(* Two documents that parse, with rules for both directions and a wildcard,  *)
(* and two that do not; flows that meet a rule, miss it by the port or the   *)
(* peer, or come in where only going out is open.                            *)
EXTENDS VSwitch, TLC

MCSymmetry == Permutations(Vms)

Rule(proto, peer, port) == [proto |-> proto, peer |-> peer, port |-> port]
Document(version, default, egress, ingress) ==
  [schema_version |-> version, default |-> default, egress |-> egress,
   ingress |-> ingress]

Strict == Document(1, "deny", {Rule("tcp", "api", 443)}, {Rule(Wildcard, "api", 22)})
Open == Document(1, "allow", {Rule("tcp", Wildcard, 0)}, {})
MCDocuments == {Strict, Open, Document(2, "deny", {}, {}), Document(1, "Allow", {}, {})}

Flow(proto, peer, port, egress) ==
  [proto |-> proto, peer |-> peer, port |-> port, egress |-> egress]
MCFlows == {Flow("tcp", "api", 443, TRUE), Flow("udp", "host", 22, TRUE),
            Flow("udp", "api", 22, FALSE), Flow("tcp", "api", 0, FALSE)}
=============================================================================
