----------------------------- MODULE VSwitchProofs -----------------------------
(***************************************************************************)
(* Theorems about the virtual switch, for any number of VMs, any documents *)
(* and flows, and every limit.  The counting facts need the types of the   *)
(* counters, so one invariant carries both.                                *)
(***************************************************************************)
EXTENDS VSwitch, TLAPS

Counters == [allowed : Nat, denied : Nat, bytes : Nat]

SwitchTypes ==
  /\ limit \in Limits
  /\ flows \in Nat
  /\ admitted \in Nat
  /\ counters \in [Vms -> Counters]
  /\ asked \in [Vms -> Nat]

SwitchInv == SwitchTypes /\ WindowKept /\ CountersAddUp

LEMMA LimitIsNat == ASSUME SwitchTypes PROVE limit \in Nat /\ limit < WindowSize
BY SwitchAssumption DEF SwitchTypes

LEMMA InitInv == Init => SwitchInv
<1> SUFFICES ASSUME Init PROVE SwitchInv
    OBVIOUS
<1>1. SwitchTypes
      BY DEF Init, SwitchTypes, Counters, Zeroed
<1>2. WindowKept
      BY SwitchAssumption DEF Init, WindowKept
<1>3. CountersAddUp
      BY DEF Init, CountersAddUp, Zeroed, FlowOverheadBytes
<1> QED BY <1>1, <1>2, <1>3 DEF SwitchInv

\* What a call does to the counters of the sandbox it was made for.
LEMMA RecordsAddUp ==
  ASSUME NEW c \in Counters, NEW n \in Nat,
         c.allowed + c.denied = n, c.bytes = FlowOverheadBytes * c.allowed
  PROVE  /\ RecordAllow(c) \in Counters /\ RecordDeny(c) \in Counters
         /\ RecordAllow(c).allowed + RecordAllow(c).denied = n + 1
         /\ RecordAllow(c).bytes = FlowOverheadBytes * RecordAllow(c).allowed
         /\ RecordDeny(c).allowed + RecordDeny(c).denied = n + 1
         /\ RecordDeny(c).bytes = FlowOverheadBytes * RecordDeny(c).allowed
<1>1. c.allowed \in Nat /\ c.denied \in Nat /\ c.bytes \in Nat
      BY DEF Counters
<1>2. RecordDeny(c) = [allowed |-> c.allowed, denied |-> c.denied + 1, bytes |-> c.bytes]
      BY DEF Counters, RecordDeny
<1>3. RecordAllow(c) = [allowed |-> c.allowed + 1, denied |-> c.denied,
                        bytes |-> c.bytes + FlowOverheadBytes]
  <2> DEFINE d == [c EXCEPT !.allowed = c.allowed + 1]
  <2>1. d = [allowed |-> c.allowed + 1, denied |-> c.denied, bytes |-> c.bytes]
        BY DEF Counters
  <2>2. RecordAllow(c) = [d EXCEPT !.bytes = c.bytes + FlowOverheadBytes]
        BY DEF RecordAllow
  <2> HIDE DEF d
  <2> QED BY <2>1, <2>2
<1>4. RecordAllow(c) \in Counters /\ RecordDeny(c) \in Counters
      BY <1>1, <1>2, <1>3 DEF Counters, FlowOverheadBytes
<1>5. c.bytes + FlowOverheadBytes = FlowOverheadBytes * (c.allowed + 1)
      BY <1>1 DEF FlowOverheadBytes
<1> QED BY <1>1, <1>2, <1>3, <1>4, <1>5

LEMMA NewSandboxInv ==
  ASSUME SwitchInv, NEW v \in Vms, NEW mode, NEW doc, NewSandbox(v, mode, doc)
  PROVE  SwitchInv'
<1>1. SwitchTypes'
      BY DEF SwitchInv, SwitchTypes, NewSandbox, Counters, Zeroed
<1>2. WindowKept'
      BY DEF SwitchInv, WindowKept, NewSandbox
<1>3. CountersAddUp'
      BY DEF SwitchInv, SwitchTypes, CountersAddUp, NewSandbox, Zeroed, FlowOverheadBytes
<1> QED BY <1>1, <1>2, <1>3 DEF SwitchInv

LEMMA DenyInv ==
  ASSUME SwitchInv, NEW v \in Vms, NEW flow, NEW reason, Deny(v, flow, reason),
         UNCHANGED <<limit, sandbox>>
  PROVE  SwitchInv'
<1>1. /\ counters' = [counters EXCEPT ![v] = RecordDeny(@)]
      /\ asked' = [asked EXCEPT ![v] = @ + 1]
      BY DEF Deny, Answered
<1>2. \A u \in Vms :
        /\ counters[u] \in Counters /\ asked[u] \in Nat
        /\ counters[u].allowed + counters[u].denied = asked[u]
        /\ counters[u].bytes = FlowOverheadBytes * counters[u].allowed
      BY DEF SwitchInv, SwitchTypes, CountersAddUp
<1>3. /\ RecordDeny(counters[v]) \in Counters
      /\ RecordDeny(counters[v]).allowed + RecordDeny(counters[v]).denied = asked[v] + 1
      /\ RecordDeny(counters[v]).bytes = FlowOverheadBytes * RecordDeny(counters[v]).allowed
      BY <1>2, RecordsAddUp
<1>4. SwitchTypes'
      BY <1>1, <1>2, <1>3 DEF SwitchInv, SwitchTypes, Deny
<1>5. WindowKept'
      BY DEF SwitchInv, WindowKept, Deny
<1>6. CountersAddUp'
      BY <1>1, <1>2, <1>3 DEF SwitchInv, SwitchTypes, CountersAddUp
<1> QED BY <1>4, <1>5, <1>6 DEF SwitchInv

LEMMA AllowInv ==
  ASSUME SwitchInv, NEW v \in Vms, NEW flow, Allow(v, flow), ~RateLimited(flows),
         UNCHANGED <<limit, sandbox>>
  PROVE  SwitchInv'
<1>1. /\ counters' = [counters EXCEPT ![v] = RecordAllow(@)]
      /\ asked' = [asked EXCEPT ![v] = @ + 1]
      /\ admitted' = admitted + 1
      /\ flows' = (flows + 1) % WindowSize
      BY DEF Allow, Answered
<1>2. \A u \in Vms :
        /\ counters[u] \in Counters /\ asked[u] \in Nat
        /\ counters[u].allowed + counters[u].denied = asked[u]
        /\ counters[u].bytes = FlowOverheadBytes * counters[u].allowed
      BY DEF SwitchInv, SwitchTypes, CountersAddUp
<1>3. /\ RecordAllow(counters[v]) \in Counters
      /\ RecordAllow(counters[v]).allowed + RecordAllow(counters[v]).denied = asked[v] + 1
      /\ RecordAllow(counters[v]).bytes = FlowOverheadBytes * RecordAllow(counters[v]).allowed
      BY <1>2, RecordsAddUp
<1>4. (flows + 1) % WindowSize \in Nat
      BY SwitchAssumption DEF SwitchInv, SwitchTypes
<1>5. SwitchTypes'
      BY <1>1, <1>2, <1>3, <1>4 DEF SwitchInv, SwitchTypes
<1>6. WindowKept'
  <2> SUFFICES ASSUME limit # 0 PROVE admitted + 1 <= limit /\ (flows + 1) % WindowSize = admitted + 1
      BY <1>1 DEF WindowKept
  <2>1. flows < limit /\ limit \in Nat /\ limit < WindowSize /\ flows = admitted /\ flows \in Nat
        BY LimitIsNat DEF RateLimited, SwitchInv, SwitchTypes, WindowKept
  <2>2. (flows + 1) % WindowSize = flows + 1
        BY <2>1, SwitchAssumption
  <2> QED BY <2>1, <2>2
<1>7. CountersAddUp'
      BY <1>1, <1>2, <1>3 DEF SwitchInv, SwitchTypes, CountersAddUp
<1> QED BY <1>5, <1>6, <1>7 DEF SwitchInv

LEMMA EvaluateInv ==
  ASSUME SwitchInv, NEW v \in Vms, NEW flow \in Flows, EvaluateFlow(v, flow)
  PROVE  SwitchInv'
<1>1. UNCHANGED <<limit, sandbox>>
      BY DEF EvaluateFlow
<1>2. \/ \E reason \in {"isolated", "unmatched", "rate_limited"} : Deny(v, flow, reason)
      \/ Allow(v, flow) /\ ~RateLimited(flows)
      BY DEF EvaluateFlow
<1> QED BY <1>1, <1>2, DenyInv, AllowInv

LEMMA StepInv == SwitchInv /\ [Next]_vars => SwitchInv'
<1> SUFFICES ASSUME SwitchInv, [Next]_vars PROVE SwitchInv'
    OBVIOUS
<1>1. ASSUME NEW v \in Vms, NEW mode \in Modes, NEW doc \in Documents,
             NewSandbox(v, mode, doc)
      PROVE  SwitchInv'
      BY <1>1, NewSandboxInv
<1>2. ASSUME NEW v \in Vms, NEW flow \in Flows, EvaluateFlow(v, flow)
      PROVE  SwitchInv'
      BY <1>2, EvaluateInv
<1>3. CASE Tick
  <2>1. SwitchTypes' /\ CountersAddUp'
        BY <1>3 DEF Tick, SwitchInv, SwitchTypes, CountersAddUp
  <2>2. WindowKept'
        BY <1>3, LimitIsNat DEF Tick, SwitchInv, SwitchTypes, WindowKept
  <2> QED BY <2>1, <2>2 DEF SwitchInv
<1>4. CASE UNCHANGED vars
      BY <1>4 DEF vars, SwitchInv, SwitchTypes, WindowKept, CountersAddUp
<1> QED BY <1>1, <1>2, <1>3, <1>4 DEF Next

\* Between two ticks all sandboxes of a switch together get no more flows than the
\* limit, whatever is refused or made anew in between.
THEOREM WindowAlwaysKept == Spec => []WindowKept
<1>1. SwitchInv => WindowKept
      BY DEF SwitchInv
<1> QED BY InitInv, StepInv, <1>1, PTL DEF Spec

\* Every call is counted once, by whichever gate answers.
THEOREM CountersAlwaysAddUp == Spec => []CountersAddUp
<1>1. SwitchInv => CountersAddUp
      BY DEF SwitchInv
<1> QED BY InitInv, StepInv, <1>1, PTL DEF Spec

\* One action formula per action property, so that a step can be reasoned about.
Refused ==
  \A v \in Vms :
    /\ counters'[v].denied = counters[v].denied + 1
    /\ ~DeniesAllEgress(sandbox[v].mode)
    /\ MatchedByRule(sandbox[v].policy, answer'.flow)
    => limit # 0 /\ admitted = limit

Admitted ==
  admitted' > admitted =>
    LET s == sandbox[answer'.vm]
        req == FlowRequest(s.policy, answer'.flow)
    IN
    /\ s.mode \notin {"none", "isolated"}
    /\ EvaluateNetworkFlow(s.policy.default, req)
    /\ req.direction = "ingress" => req.allowed_by_rule

LEMMA StepRefused == SwitchInv /\ [Next]_vars => Refused
<1> SUFFICES ASSUME SwitchInv, [Next]_vars, NEW v \in Vms,
                    counters'[v].denied = counters[v].denied + 1,
                    ~DeniesAllEgress(sandbox[v].mode),
                    MatchedByRule(sandbox[v].policy, answer'.flow)
             PROVE  limit # 0 /\ admitted = limit
    BY DEF Refused
<1>0. \A u \in Vms : counters[u] \in Counters
      BY DEF SwitchInv, SwitchTypes
<1>1. ASSUME NEW u \in Vms, NEW mode \in Modes, NEW doc \in Documents,
             NewSandbox(u, mode, doc)
      PROVE  FALSE
      BY <1>0, <1>1 DEF NewSandbox, Zeroed, Counters, SwitchInv, SwitchTypes
<1>2. ASSUME NEW u \in Vms, NEW flow \in Flows, EvaluateFlow(u, flow)
      PROVE  limit # 0 /\ admitted = limit
  <2>1. CASE Allow(u, flow)
        BY <1>0, <2>1 DEF Allow, RecordAllow, Counters, SwitchInv, SwitchTypes
  <2>2. ASSUME NEW reason, Deny(u, flow, reason)
        PROVE  u = v /\ answer'.flow = flow
        BY <1>0, <2>2 DEF Deny, Answered, RecordDeny, Counters, SwitchInv, SwitchTypes
  <2>3. CASE DeniesAllEgress(sandbox[u].mode) /\ Deny(u, flow, "isolated")
        BY <2>2, <2>3
  <2>4. CASE ~MatchedByRule(sandbox[u].policy, flow) /\ Deny(u, flow, "unmatched")
        BY <2>2, <2>4
  <2>5. CASE RateLimited(flows)
        BY <2>5, LimitIsNat DEF RateLimited, SwitchInv, SwitchTypes, WindowKept
  <2> QED BY <1>2, <2>1, <2>3, <2>4, <2>5 DEF EvaluateFlow
<1>3. CASE Tick
      BY <1>0, <1>3 DEF Tick, Counters
<1>4. CASE UNCHANGED vars
      BY <1>0, <1>4 DEF vars, Counters
<1> QED BY <1>1, <1>2, <1>3, <1>4 DEF Next

LEMMA StepAdmitted == SwitchInv /\ [Next]_vars => Admitted
<1> SUFFICES ASSUME SwitchInv, [Next]_vars, admitted' > admitted
             PROVE  LET s == sandbox[answer'.vm]
                        req == FlowRequest(s.policy, answer'.flow)
                    IN  /\ s.mode \notin {"none", "isolated"}
                        /\ EvaluateNetworkFlow(s.policy.default, req)
                        /\ req.direction = "ingress" => req.allowed_by_rule
    BY DEF Admitted
<1>0. admitted \in Nat
      BY DEF SwitchInv, SwitchTypes
<1>1. PICK u \in Vms, flow \in Flows : EvaluateFlow(u, flow)
      BY <1>0 DEF Next, NewSandbox, Tick, vars
<1>2. /\ ~DeniesAllEgress(sandbox[u].mode)
      /\ MatchedByRule(sandbox[u].policy, flow)
      /\ answer'.vm = u /\ answer'.flow = flow
      BY <1>0, <1>1 DEF EvaluateFlow, Deny, Allow, Answered
<1>3. flow.egress \in BOOLEAN
      BY SwitchAssumption
<1> QED BY <1>2, <1>3 DEF DeniesAllEgress, MatchedByRule, FlowRequest, EvaluateNetworkFlow

\* A permitted flow is refused only when the window is spent.
THEOREM RefusalsSpendNothing == Spec => RefusedOnlyWhenSpent
<1>1. SwitchInv /\ [Next]_vars => [Refused]_vars
      BY StepRefused
<1> QED BY InitInv, StepInv, <1>1, PTL DEF Spec, RefusedOnlyWhenSpent, Refused

\* What the switch admits, an engine of the same posture would admit as well.
THEOREM AdmittedAlwaysPermitted == Spec => AdmittedIsPermitted
<1>1. SwitchInv /\ [Next]_vars => [Admitted]_vars
      BY StepAdmitted
<1> QED BY InitInv, StepInv, <1>1, PTL DEF Spec, AdmittedIsPermitted, Admitted
=============================================================================
