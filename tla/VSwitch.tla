------------------------------- MODULE VSwitch -------------------------------
(***************************************************************************)
(* The policy-first virtual switch of hyper-net: one switch with one rate  *)
(* window, shared by the sandboxes of several VMs, each under a policy of  *)
(* its own.  A flow is denied unless every gate of evaluate_flow lets it   *)
(* through.                                                                *)
(*                                                                         *)
(* Protocols are compared without case, so a value here stands for all     *)
(* spellings of a protocol.  A rule's purpose, the DNS settings, the       *)
(* addresses derived from the VM id and the text of a reason decide        *)
(* nothing and are left out.                                               *)
(***************************************************************************)
EXTENDS Integers, FiniteSets

CONSTANTS
  Vms,
  Documents,   \* network policy documents, well-formed JSON of any content
  Flows,       \* [proto, peer, port, egress]: what callers ask for
  Limits,      \* values of rate_limit_per_sec
  WindowSize,  \* 2^32: flows_this_window is a u32
  Modes,       \* the network modes sandboxes are made with
  MaxAsked,    \* bound: calls of evaluate_flow for one sandbox
  MaxAdmitted, \* bound: flows allowed between two ticks
  Wildcard,    \* "*" or "any" in a rule
  NoSandbox, NoAnswer

NetworkModes == {"none", "isolated", "host_only", "nat", "bridge",
                 "attested_overlay"}

ASSUME SwitchAssumption ==
  /\ WindowSize \in Nat \ {0} /\ Limits \subseteq 0 .. WindowSize - 1
  /\ Modes \subseteq NetworkModes
  /\ NoSandbox \notin [mode : Modes, policy : Documents]
  /\ MaxAsked \in Nat /\ MaxAdmitted \in Nat
  /\ \A f \in Flows : f.egress \in BOOLEAN

VARIABLES
  limit,     \* VSwitch.rate_limit_per_sec
  flows,     \* VSwitch.flows_this_window
  sandbox,   \* the sandbox of each VM: mode and policy
  counters,  \* FlowCounters of each sandbox
  answer,    \* what evaluate_flow returned last, to whom and for what
  admitted,  \* history: flows allowed since the last tick, over all sandboxes
  asked      \* history: calls since a sandbox was made

vars == <<limit, flows, sandbox, counters, answer, admitted, asked>>

\* NETWORK_SCHEMA_VERSION and FLOW_OVERHEAD_BYTES.
SchemaVersion == 1
FlowOverheadBytes == 64

Zeroed == [allowed |-> 0, denied |-> 0, bytes |-> 0]

Init ==
  /\ limit \in Limits
  /\ flows = 0
  /\ sandbox = [v \in Vms |-> NoSandbox]
  /\ counters = [v \in Vms |-> Zeroed]
  /\ answer = NoAnswer
  /\ admitted = 0
  /\ asked = [v \in Vms |-> 0]

-----------------------------------------------------------------------------
\* NetworkPolicy::parse: one schema version, two postures.
Parses(doc) ==
  /\ doc.schema_version = SchemaVersion
  /\ doc.default \in {"deny", "allow"}

Matches(rule, flow) ==
  /\ rule.proto \in {Wildcard, flow.proto}
  /\ rule.peer \in {Wildcard, flow.peer}
  /\ rule.port \in {0, flow.port}

MatchEgress(policy, flow) == \E rule \in policy.egress : Matches(rule, flow)
MatchIngress(policy, flow) == \E rule \in policy.ingress : Matches(rule, flow)

\* Faulty variant: the posture opens both directions, as it does in the engine.
PostureOrRule(policy, flow) ==
  policy.default = "allow" \/ MatchEgress(policy, flow) \/ MatchIngress(policy, flow)

\* The posture stands in for a rule on the way out only.
MatchedByRule(policy, flow) ==
  IF flow.egress THEN MatchEgress(policy, flow) \/ policy.default = "allow"
                 ELSE MatchIngress(policy, flow)

DeniesAllEgress(mode) == mode \in {"none", "isolated"}

\* Faulty variant: one flow more than the limit.
LimitedPast(n) == limit # 0 /\ n > limit

\* Zero turns the limiter off.
RateLimited(n) == limit # 0 /\ n >= limit

-----------------------------------------------------------------------------
\* NetworkSandbox::new, also for a VM that had a sandbox: it starts from zero,
\* the switch's window does not.
NewSandbox(v, mode, doc) ==
  /\ Parses(doc)
  /\ sandbox' = [sandbox EXCEPT ![v] = [mode |-> mode, policy |-> doc]]
  /\ counters' = [counters EXCEPT ![v] = Zeroed]
  /\ asked' = [asked EXCEPT ![v] = 0]
  /\ UNCHANGED <<limit, flows, answer, admitted>>

\* Faulty variant: an allowed flow is counted with its bytes only.
CountBytes(c) == [c EXCEPT !.bytes = @ + FlowOverheadBytes]

RecordAllow(c) == [c EXCEPT !.allowed = @ + 1, !.bytes = @ + FlowOverheadBytes]
RecordDeny(c) == [c EXCEPT !.denied = @ + 1]

Answered(v, flow, verdict) ==
  /\ answer' = [vm |-> v, flow |-> flow, verdict |-> verdict]
  /\ asked' = [asked EXCEPT ![v] = @ + 1]

Allow(v, flow) ==
  /\ flows' = (flows + 1) % WindowSize
  /\ counters' = [counters EXCEPT ![v] = RecordAllow(@)]
  /\ admitted' = admitted + 1
  /\ Answered(v, flow, "allow")

\* Faulty variant: a refused flow uses up a slot of the window too.
DenyAtACost(v, flow, reason) ==
  /\ flows' = (flows + 1) % WindowSize
  /\ counters' = [counters EXCEPT ![v] = RecordDeny(@)]
  /\ Answered(v, flow, reason)
  /\ UNCHANGED admitted

Deny(v, flow, reason) ==
  /\ counters' = [counters EXCEPT ![v] = RecordDeny(@)]
  /\ Answered(v, flow, reason)
  /\ UNCHANGED <<flows, admitted>>

\* VSwitch::evaluate_flow: isolation, then rules and posture, then the window.
EvaluateFlow(v, flow) ==
  /\ sandbox[v] # NoSandbox
  /\ asked[v] < MaxAsked /\ admitted < MaxAdmitted
  /\ \/ /\ DeniesAllEgress(sandbox[v].mode)
        /\ Deny(v, flow, "isolated")
     \/ /\ ~DeniesAllEgress(sandbox[v].mode)
        /\ ~MatchedByRule(sandbox[v].policy, flow)
        /\ Deny(v, flow, "unmatched")
     \/ /\ ~DeniesAllEgress(sandbox[v].mode)
        /\ MatchedByRule(sandbox[v].policy, flow)
        /\ RateLimited(flows)
        /\ Deny(v, flow, "rate_limited")
     \/ /\ ~DeniesAllEgress(sandbox[v].mode)
        /\ MatchedByRule(sandbox[v].policy, flow)
        /\ ~RateLimited(flows)
        /\ Allow(v, flow)
  /\ UNCHANGED <<limit, sandbox>>

\* VSwitch::tick opens the next window.
Tick ==
  /\ flows' = 0
  /\ admitted' = 0
  /\ UNCHANGED <<limit, sandbox, counters, answer, asked>>

Next ==
  \/ \E v \in Vms, mode \in Modes, doc \in Documents : NewSandbox(v, mode, doc)
  \/ \E v \in Vms, flow \in Flows : EvaluateFlow(v, flow)
  \/ Tick

Spec == Init /\ [][Next]_vars

-----------------------------------------------------------------------------
\* evaluate_network_flow of the policy engine, for the request the switch builds
\* of a flow (as_flow_request): a rule that matched, or the engine's own posture,
\* whatever the direction.
FlowRequest(policy, flow) ==
  [direction |-> IF flow.egress THEN "egress" ELSE "ingress",
   allowed_by_rule |-> IF flow.egress THEN MatchEgress(policy, flow)
                                      ELSE MatchIngress(policy, flow)]
EvaluateNetworkFlow(posture, req) == req.allowed_by_rule \/ posture = "allow"

\* "Maximum flows permitted per logical second": between two ticks the sandboxes
\* of the switch together get no more flows than the limit, also when sandboxes
\* are made anew in between, and also at the largest limit a u32 holds.
WindowKept ==
  limit # 0 => admitted <= limit /\ flows = admitted

\* A sandbox's counters account for every call it made, whichever gate answered.
CountersAddUp ==
  \A v \in Vms :
    /\ counters[v].allowed + counters[v].denied = asked[v]
    /\ counters[v].bytes = FlowOverheadBytes * counters[v].allowed

\* A flow that its policy permits is refused only when the window has been spent
\* on flows that were allowed: refused flows, of this or another sandbox, cost
\* nothing.
RefusedOnlyWhenSpent ==
  [][\A v \in Vms :
       /\ counters'[v].denied = counters[v].denied + 1
       /\ ~DeniesAllEgress(sandbox[v].mode)
       /\ MatchedByRule(sandbox[v].policy, answer'.flow)
       => limit # 0 /\ admitted = limit]_vars

\* The policy spine would have admitted what the switch admits: an engine of the
\* same posture permits the request built for the flow; an isolated sandbox
\* gets nothing and an incoming flow only by a rule, which the engine does not ask.
AdmittedIsPermitted ==
  [][admitted' > admitted =>
       LET s == sandbox[answer'.vm]
           req == FlowRequest(s.policy, answer'.flow)
       IN
       /\ s.mode \notin {"none", "isolated"}
       /\ EvaluateNetworkFlow(s.policy.default, req)
       /\ req.direction = "ingress" => req.allowed_by_rule]_vars

==============================================================================
