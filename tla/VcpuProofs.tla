----------------------------- MODULE VcpuProofs -----------------------------
(***************************************************************************)
(* Theorems of the two parts of hyper-vcpu: the run loop, for every set of *)
(* vCPUs, intercept policy, storm limit and step budget, and the           *)
(* scheduler, for any number of vCPUs and classes.  The scheduler's rest   *)
(* on the order of a queue: whoever was picked since a vCPU began to wait  *)
(* stands behind it.                                                       *)
(***************************************************************************)
EXTENDS VcpuRun, Scheduler, SequenceTheorems, TLAPS

\* Every exit leads the dispatcher to one of its actions.
LEMMA HandleTyped ==
  ASSUME NEW v, NEW r \in VmExitReasons
  PROVE  Handle(v, r) \in {"Resume", "InjectException", "BlockVcpu", "KillVm",
                           "QuarantineVm"}
BY DEF Handle, Dispatch, Trapped, VmExitReasons, Interceptable

\* The dispatcher's actions lead to states of the vCPU.
LEMMA ApplyTyped ==
  ASSUME NEW a PROVE Apply(a) \in VcpuStates
BY DEF Apply, VcpuStates

\* Every reachable state is typed; the step counter stays within the budget of
\* run_loop.
THEOREM TypeCorrect == Spec => []TypeOK
<1>1. Init => TypeOK
  BY VcpuAssumption DEF Init, TypeOK, VcpuStates
<1>2. TypeOK /\ [Next]_vars => TypeOK'
  <2> SUFFICES ASSUME TypeOK, [Next]_vars PROVE TypeOK'
    OBVIOUS
  <2>1. ASSUME NEW v \in Vcpus, RunLoop(v) PROVE TypeOK'
    BY <2>1, VcpuAssumption DEF RunLoop, TypeOK
  <2>2. ASSUME NEW v \in Vcpus, Leave(v) PROVE TypeOK'
    BY <2>2 DEF Leave, TypeOK
  <2>3. ASSUME NEW v \in Vcpus, NEW r \in VmExitReasons, Iterate(v, r)
        PROVE  TypeOK'
    BY <2>3, ApplyTyped, VcpuAssumption DEF Iterate, BudgetLeft, TypeOK
  <2>4. CASE UNCHANGED vars
    BY <2>4 DEF vars, TypeOK
  <2> QED
    BY <2>1, <2>2, <2>3, <2>4 DEF Next, LoopStep
<1> QED
  BY <1>1, <1>2, PTL DEF Spec

-----------------------------------------------------------------------------
\* A step changes the state, the counter and the last exit of a vCPU only by an
\* iteration of run_loop on that vCPU, which is then runnable.
LEMMA OnlyIterationsTouch ==
  ASSUME TypeOK, [Next]_vars, NEW v \in Vcpus
  PROVE  \/ UNCHANGED <<state[v], exits[v], lastExit[v], intercept[v]>>
         \/ \E r \in VmExitReasons :
              /\ IsRunnable(v)
              /\ state'[v] = Apply(Handle(v, r))
              /\ exits'[v] = exits[v] + 1
              /\ lastExit'[v] = r
              /\ intercept'[v] = intercept[v]
<1>1. ASSUME NEW w \in Vcpus, RunLoop(w)
      PROVE  UNCHANGED <<state[v], exits[v], lastExit[v], intercept[v]>>
  BY <1>1 DEF RunLoop
<1>2. ASSUME NEW w \in Vcpus, Leave(w)
      PROVE  UNCHANGED <<state[v], exits[v], lastExit[v], intercept[v]>>
  BY <1>2 DEF Leave
<1>3. ASSUME NEW w \in Vcpus, w # v, NEW r \in VmExitReasons, Iterate(w, r)
      PROVE  UNCHANGED <<state[v], exits[v], lastExit[v], intercept[v]>>
  BY <1>3 DEF Iterate, TypeOK
<1>4. ASSUME NEW r \in VmExitReasons, Iterate(v, r)
      PROVE  /\ IsRunnable(v)
             /\ state'[v] = Apply(Handle(v, r))
             /\ exits'[v] = exits[v] + 1
             /\ lastExit'[v] = r
             /\ intercept'[v] = intercept[v]
  BY <1>4 DEF Iterate, TypeOK
<1>5. CASE UNCHANGED vars
  BY <1>5 DEF vars
<1> QED
  BY <1>1, <1>2, <1>3, <1>4, <1>5 DEF Next, LoopStep

\* StormIsKilled: the storm limit bounds the exits of every vCPU over any number
\* of run_loop calls.
THEOREM StormsAreKilled == Spec => []StormIsKilled
<1>1. Init => StormIsKilled
  <2> SUFFICES ASSUME Init, NEW v \in Vcpus
               PROVE  /\ exits[v] <= ExitStormLimit + 1
                      /\ exits[v] > ExitStormLimit => state[v] = "Killed"
    BY DEF StormIsKilled
  <2>1. exits[v] = 0
    BY DEF Init
  <2>2. ExitStormLimit \in Nat
    BY VcpuAssumption
  <2> QED
    BY <2>1, <2>2
<1>2. TypeOK /\ StormIsKilled /\ [Next]_vars => StormIsKilled'
  <2> SUFFICES ASSUME TypeOK, StormIsKilled, [Next]_vars, NEW v \in Vcpus
               PROVE  /\ exits'[v] <= ExitStormLimit + 1
                      /\ exits'[v] > ExitStormLimit => state'[v] = "Killed"
    BY DEF StormIsKilled
  <2>1. CASE UNCHANGED <<state[v], exits[v], lastExit[v], intercept[v]>>
    BY <2>1 DEF StormIsKilled
  <2>2. ASSUME NEW r \in VmExitReasons, IsRunnable(v),
               state'[v] = Apply(Handle(v, r)), exits'[v] = exits[v] + 1
        PROVE  /\ exits'[v] <= ExitStormLimit + 1
               /\ exits'[v] > ExitStormLimit => state'[v] = "Killed"
    <3>1. exits[v] \in Nat /\ exits[v] <= ExitStormLimit
      BY <2>2, VcpuAssumption
      DEF StormIsKilled, IsRunnable, Runnable, TypeOK
    <3>2. exits'[v] > ExitStormLimit => Handle(v, r) = "KillVm"
      BY <2>2 DEF Handle, OverBudget
    <3> QED
      BY <2>2, <3>1, <3>2, VcpuAssumption DEF Apply
  <2> QED
    BY <2>1, <2>2, OnlyIterationsTouch
<1> QED
  BY <1>1, <1>2, TypeCorrect, PTL DEF Spec

\* FailClosed: no vCPU is runnable after an exit that was denied or fatal.
THEOREM ExitsFailClosed == Spec => []FailClosed
<1> DEFINE Answered(st, ex, ic) ==
             /\ st \in Runnable =>
                  /\ ex \notin {"npf_null", "shutdown", "unknown"}
                  /\ ex = "io_denied" => "io_denied" \notin ic
                  /\ ex = "hlt" => "hlt" \notin ic
             /\ st = "Quarantined" => ex = "io_denied"
<1>1. Init => FailClosed
  <2> SUFFICES ASSUME Init, NEW v \in Vcpus
               PROVE  Answered(state[v], lastExit[v], intercept[v])
    BY DEF FailClosed
  <2>1. state[v] = "Ready" /\ lastExit[v] = NoExit
    BY DEF Init
  <2>2. NoExit \notin VmExitReasons
    BY VcpuAssumption
  <2> QED
    BY <2>1, <2>2 DEF VmExitReasons, Interceptable
<1>2. TypeOK /\ FailClosed /\ [Next]_vars => FailClosed'
  <2> SUFFICES ASSUME TypeOK, FailClosed, [Next]_vars, NEW v \in Vcpus
               PROVE  Answered(state'[v], lastExit'[v], intercept'[v])
    BY DEF FailClosed
  <2>1. CASE UNCHANGED <<state[v], exits[v], lastExit[v], intercept[v]>>
    BY <2>1 DEF FailClosed
  <2>2. ASSUME NEW r \in VmExitReasons,
               state'[v] = Apply(Handle(v, r)), lastExit'[v] = r,
               intercept'[v] = intercept[v]
        PROVE  Answered(state'[v], lastExit'[v], intercept'[v])
    <3>1. CASE OverBudget(v)
      BY <2>2, <3>1 DEF Handle, Apply, Runnable
    <3>2. CASE ~OverBudget(v) /\ r \in Interceptable \ intercept[v]
      BY <2>2, <3>2 DEF Handle, Dispatch, Apply, Runnable, Interceptable
    <3>3. CASE ~OverBudget(v) /\ r \notin Interceptable \ intercept[v]
      <4>1. Handle(v, r) = Trapped(r)
        BY <3>3 DEF Handle, Dispatch
      <4> QED
        BY <2>2, <3>3, <4>1
        DEF Trapped, Apply, Runnable, VmExitReasons, Interceptable
    <3> QED
      BY <3>1, <3>2, <3>3
  <2> QED
    BY <2>1, <2>2, OnlyIterationsTouch
<1> QED
  BY <1>1, <1>2, TypeCorrect, PTL DEF Spec

\* StoppedStays: what run_loop has stopped is never run again.
THEOREM StoppedVcpusStay == Spec => StoppedStays
<1>1. TypeOK /\ [Next]_vars =>
        [\A v \in Vcpus : state[v] \notin Runnable =>
           state'[v] = state[v] /\ exits'[v] = exits[v]]_vars
  BY OnlyIterationsTouch DEF IsRunnable
<1> QED
  BY <1>1, TypeCorrect, PTL DEF Spec, StoppedStays

-----------------------------------------------------------------------------
IsQueue(q) == q \in Seq(VcpuIds) /\ IsInjective(q)

\* v stands before w in q.
Before(q, v, w) == \E i, j \in DOMAIN q : i < j /\ q[i] = v /\ q[j] = w

-----------------------------------------------------------------------------
(* What the operations of a queue do to its members and their order. *)

LEMMA PushFacts ==
  ASSUME NEW q, IsQueue(q), NEW id \in VcpuIds
  PROVE  /\ IsQueue(Push(q, id))
         /\ ToSet(Push(q, id)) = ToSet(q) \cup {id}
         /\ \A v, w : Before(q, v, w) => Before(Push(q, id), v, w)
         /\ id \notin ToSet(q) => \A v \in ToSet(q) : Before(Push(q, id), v, id)
<1>1. CASE id \in ToSet(q)
  BY <1>1 DEF Push
<1>2. CASE id \notin ToSet(q)
  <2> DEFINE p == Append(q, id)
  <2>1. /\ Push(q, id) = p
        /\ p \in Seq(VcpuIds)
        /\ Len(q) \in Nat /\ DOMAIN q = 1 .. Len(q)
        /\ DOMAIN p = 1 .. Len(q) + 1
        /\ \A i \in DOMAIN q : p[i] = q[i]
        /\ p[Len(q) + 1] = id
    BY <1>2 DEF Push, IsQueue
  <2>2. \A i \in DOMAIN q : q[i] # id
    BY <1>2 DEF ToSet
  <2> HIDE DEF p
  <2>3. IsInjective(p)
    BY <2>1, <2>2 DEF IsQueue, IsInjective
  <2>4. ToSet(p) = ToSet(q) \cup {id}
    BY <2>1 DEF ToSet
  <2>5. ASSUME NEW v, NEW w, Before(q, v, w)  PROVE  Before(p, v, w)
    BY <2>1, <2>5 DEF Before
  <2>6. ASSUME NEW v \in ToSet(q)  PROVE  Before(p, v, id)
    <3>1. PICK i \in DOMAIN q : q[i] = v
      BY <2>6 DEF ToSet
    <3>2. i < Len(q) + 1 /\ i \in DOMAIN p /\ Len(q) + 1 \in DOMAIN p /\ p[i] = v
      BY <2>1, <3>1
    <3>. QED  BY <2>1, <3>2 DEF Before
  <2>. QED  BY <2>1, <2>3, <2>4, <2>5, <2>6 DEF IsQueue
<1>. QED  BY <1>1, <1>2

LEMMA WithoutFacts ==
  ASSUME NEW q, IsQueue(q), NEW id
  PROVE  /\ IsQueue(Without(q, id))
         /\ ToSet(Without(q, id)) = ToSet(q) \ {id}
         /\ \A v, w : v # id /\ w # id /\ Before(q, v, w)
                        => Before(Without(q, id), v, w)
<1>1. CASE id \notin ToSet(q)
  BY <1>1 DEF Without
<1>2. CASE id \in ToSet(q)
  <2> DEFINE k == CHOOSE i \in DOMAIN q : q[i] = id
             p == SubSeq(q, 1, k - 1) \o SubSeq(q, k + 1, Len(q))
             To(i) == IF i < k THEN i ELSE i - 1
  <2>1. /\ Len(q) \in Nat /\ DOMAIN q = 1 .. Len(q) /\ q \in Seq(VcpuIds)
        /\ \A a, b \in DOMAIN q : q[a] = q[b] => a = b
    BY DEF IsQueue, IsInjective
  <2>2. k \in DOMAIN q /\ q[k] = id
    BY <1>2 DEF ToSet
  <2>3. Without(q, id) = p
    BY <1>2 DEF Without, RemoveAt
  <2> HIDE DEF k
  <2>4. /\ p \in Seq(VcpuIds)
        /\ DOMAIN p = 1 .. Len(q) - 1
        /\ \A i \in 1 .. Len(q) - 1 : p[i] = IF i < k THEN q[i] ELSE q[i + 1]
    <3> DEFINE l == SubSeq(q, 1, k - 1)
               r == SubSeq(q, k + 1, Len(q))
    <3>1. k \in 1 .. Len(q)
      BY <2>1, <2>2
    <3>2. /\ l \in Seq(VcpuIds) /\ Len(l) = k - 1
          /\ \A i \in 1 .. k - 1 : l[i] = q[i]
      BY <2>1, <3>1
    <3>3. /\ r \in Seq(VcpuIds) /\ Len(r) = Len(q) - k
          /\ \A i \in 1 .. Len(q) - k : r[i] = q[k + 1 + i - 1]
      <4>1. /\ k + 1 \in Int /\ Len(q) \in Int
            /\ \A i \in k + 1 .. Len(q) : q[i] \in VcpuIds
        BY <2>1, <3>1
      <4>2. /\ r \in Seq(VcpuIds)
            /\ Len(r) = IF k + 1 <= Len(q) THEN Len(q) - (k + 1) + 1 ELSE 0
            /\ \A i \in 1 .. Len(q) - (k + 1) + 1 : r[i] = q[k + 1 + i - 1]
        BY <4>1, SubSeqProperties
      <4> HIDE DEF r
      <4>3. /\ Len(q) - (k + 1) + 1 = Len(q) - k
            /\ k + 1 <= Len(q) \/ Len(q) - k = 0
        <5>1. \A n \in Nat : \A a \in 1 .. n :
                /\ n - (a + 1) + 1 = n - a
                /\ a + 1 <= n \/ n - a = 0
          OBVIOUS
        <5>. QED  BY <2>1, <3>1, <5>1, Zenon
      <4>4. Len(r) = Len(q) - k
        <5>1. CASE k + 1 <= Len(q)
          BY <4>2, <4>3, <5>1, Zenon
        <5>2. CASE ~(k + 1 <= Len(q))
          BY <4>2, <4>3, <5>2, Zenon
        <5>. QED  BY <5>1, <5>2
      <4>5. \A i \in 1 .. Len(q) - k : r[i] = q[k + 1 + i - 1]
        BY <4>2, <4>3, Zenon
      <4>. QED  BY <4>2, <4>4, <4>5
    <3> HIDE DEF l, r
    <3> DEFINE lr == l \o r
    <3>4. /\ lr \in Seq(VcpuIds)
          /\ Len(lr) = Len(l) + Len(r)
          /\ \A i \in 1 .. Len(l) + Len(r) :
               lr[i] = IF i <= Len(l) THEN l[i] ELSE r[i - Len(l)]
      BY <3>2, <3>3, ConcatProperties
    <3> HIDE DEF lr
    <3>5. DOMAIN lr = 1 .. Len(q) - 1
      BY <2>1, <3>1, <3>2, <3>3, <3>4
    <3>6. ASSUME NEW i \in 1 .. Len(q) - 1
          PROVE  lr[i] = IF i < k THEN q[i] ELSE q[i + 1]
      <4>1. lr[i] = IF i <= k - 1 THEN l[i] ELSE r[i - (k - 1)]
        BY <2>1, <3>1, <3>2, <3>3, <3>4
      <4>2. CASE i < k
        BY <2>1, <3>1, <3>2, <4>1, <4>2
      <4>3. CASE ~(i < k)
        <5>1. i - (k - 1) \in 1 .. Len(q) - k /\ k + 1 + (i - (k - 1)) - 1 = i + 1
          BY <2>1, <3>1, <4>3
        <5>. QED  BY <2>1, <3>1, <3>3, <4>1, <4>3, <5>1
      <4>. QED  BY <4>2, <4>3
    <3>. QED  BY <3>4, <3>5, <3>6 DEF l, r, lr
  <2> HIDE DEF p
  <2>5. IsInjective(p)
    <3> DEFINE From(i) == IF i < k THEN i ELSE i + 1
    <3>1. ASSUME NEW i \in 1 .. Len(q) - 1
          PROVE  From(i) \in DOMAIN q /\ p[i] = q[From(i)]
      BY <2>1, <2>2, <2>4
    <3>2. ASSUME NEW i \in 1 .. Len(q) - 1, NEW j \in 1 .. Len(q) - 1,
                 From(i) = From(j)
          PROVE  i = j
      BY <2>1, <2>2, <3>2
    <3> HIDE DEF From
    <3>3. ASSUME NEW i \in 1 .. Len(q) - 1, NEW j \in 1 .. Len(q) - 1,
                 p[i] = p[j]
          PROVE  i = j
      <4>1. q[From(i)] = q[From(j)]
        BY <3>1, <3>3
      <4>2. From(i) = From(j)
        BY <2>1, <3>1, <4>1
      <4>. QED  BY <3>2, <4>2
    <3>. QED  BY <2>4, <3>3 DEF IsInjective
  <2>6. \A i \in DOMAIN q : q[i] # id => To(i) \in DOMAIN p /\ p[To(i)] = q[i]
    BY <2>1, <2>2, <2>4
  <2>7. ASSUME NEW i \in DOMAIN p
        PROVE  \E j \in DOMAIN q : p[i] = q[j] /\ q[j] # id
    <3> DEFINE j == IF i < k THEN i ELSE i + 1
    <3>1. j \in DOMAIN q /\ j # k /\ p[i] = q[j]
      BY <2>1, <2>2, <2>4
    <3> HIDE DEF j
    <3>. QED  BY <2>1, <2>2, <3>1
  <2>8. ToSet(p) = ToSet(q) \ {id}
    BY <2>6, <2>7 DEF ToSet
  <2>9. ASSUME NEW v, NEW w, v # id, w # id, Before(q, v, w)
        PROVE  Before(p, v, w)
    <3>1. PICK i, j \in DOMAIN q : i < j /\ q[i] = v /\ q[j] = w
      BY <2>9 DEF Before
    <3>2. i # k /\ j # k
      BY <2>2, <2>9, <3>1
    <3>3. To(i) < To(j)
      BY <2>1, <2>2, <3>1, <3>2
    <3>. QED  BY <2>6, <2>9, <3>1, <3>3 DEF Before
  <2>. QED  BY <2>3, <2>4, <2>5, <2>8, <2>9 DEF IsQueue
<1>. QED  BY <1>1, <1>2

LEMMA RotateFacts ==
  ASSUME NEW q, IsQueue(q), q # <<>>
  PROVE  /\ IsQueue(Rotate(q, 1))
         /\ ToSet(Rotate(q, 1)) = ToSet(q)
         /\ \A v, w : v # q[1] /\ Before(q, v, w) => Before(Rotate(q, 1), v, w)
         /\ \A v \in ToSet(q) : v # q[1] => Before(Rotate(q, 1), v, q[1])
<1> DEFINE n == Len(q)
           p == Append(SubSeq(q, 2, n), q[1])
           To(i) == IF i = 1 THEN n ELSE i - 1
<1>1. /\ n \in Nat \ {0} /\ DOMAIN q = 1 .. n /\ q \in Seq(VcpuIds)
      /\ \A a, b \in DOMAIN q : q[a] = q[b] => a = b
  BY DEF IsQueue, IsInjective
<1>2. Rotate(q, 1) = p
  BY DEF Rotate
<1> HIDE DEF n
<1>3. /\ p \in Seq(VcpuIds)
      /\ DOMAIN p = 1 .. n
      /\ \A i \in 1 .. n : p[i] = IF i = n THEN q[1] ELSE q[i + 1]
  <2> DEFINE t == SubSeq(q, 2, n)
  <2>1. /\ t \in Seq(VcpuIds) /\ Len(t) = n - 1
        /\ \A i \in 1 .. n - 1 : t[i] = q[i + 1]
    BY <1>1 DEF n
  <2>2. q[1] \in VcpuIds
    BY <1>1
  <2> HIDE DEF t
  <2>3. /\ Append(t, q[1]) \in Seq(VcpuIds)
        /\ DOMAIN Append(t, q[1]) = 1 .. n
        /\ \A i \in 1 .. n :
             Append(t, q[1])[i] = IF i = n THEN q[1] ELSE t[i]
    BY <1>1, <2>1, <2>2
  <2>. QED  BY <1>1, <2>1, <2>3 DEF t
<1> HIDE DEF p
<1>4. IsInjective(p)
  <2> DEFINE From(i) == IF i = n THEN 1 ELSE i + 1
  <2>1. ASSUME NEW i \in 1 .. n
        PROVE  From(i) \in 1 .. n /\ p[i] = q[From(i)]
    BY <1>1, <1>3
  <2>2. ASSUME NEW i \in 1 .. n, NEW j \in 1 .. n, From(i) = From(j)
        PROVE  i = j
    BY <1>1, <2>2
  <2> HIDE DEF From
  <2>3. ASSUME NEW i \in 1 .. n, NEW j \in 1 .. n, p[i] = p[j]
        PROVE  i = j
    <3>1. q[From(i)] = q[From(j)]
      BY <2>1, <2>3
    <3>2. From(i) = From(j)
      BY <1>1, <2>1, <3>1
    <3>. QED  BY <2>2, <3>2
  <2>. QED  BY <1>3, <2>3 DEF IsInjective
<1>5. \A i \in DOMAIN q : To(i) \in DOMAIN p /\ p[To(i)] = q[i]
  BY <1>1, <1>3
<1>6. \A i \in DOMAIN p : \E j \in DOMAIN q : p[i] = q[j]
  BY <1>1, <1>3
<1>7. ToSet(p) = ToSet(q)
  BY <1>5, <1>6 DEF ToSet
<1>8. ASSUME NEW v, NEW w, v # q[1], Before(q, v, w)  PROVE  Before(p, v, w)
  <2>1. PICK i, j \in DOMAIN q : i < j /\ q[i] = v /\ q[j] = w
    BY <1>8 DEF Before
  <2>2. To(i) < To(j)
    BY <1>1, <1>8, <2>1
  <2>. QED  BY <1>5, <2>1, <2>2 DEF Before
<1>9. ASSUME NEW v \in ToSet(q), v # q[1]  PROVE  Before(p, v, q[1])
  <2>1. PICK i \in DOMAIN q : q[i] = v
    BY <1>9 DEF ToSet
  <2>2. i # 1 /\ To(i) < To(1) /\ 1 \in DOMAIN q
    BY <1>1, <1>9, <2>1
  <2>. QED  BY <1>5, <2>1, <2>2 DEF Before
<1>. QED  BY <1>2, <1>3, <1>4, <1>7, <1>8, <1>9 DEF IsQueue

-----------------------------------------------------------------------------
(* A queue without stale ids is served from its front. *)
LEMMA ServedFromFront ==
  ASSUME NEW q, IsQueue(q), ToSet(q) \cap blocked = {}
  PROVE  /\ Eligible(q) = {} <=> q = <<>>
         /\ q # <<>> => /\ FirstEligible(q) = 1
                         /\ q[1] \in ToSet(q) /\ q[1] \in VcpuIds
<1>1. /\ Len(q) \in Nat /\ DOMAIN q = 1 .. Len(q) /\ q \in Seq(VcpuIds)
      /\ \A i \in DOMAIN q : q[i] \in VcpuIds
  BY DEF IsQueue
<1>2. Eligible(q) = DOMAIN q
  BY DEF Eligible, ToSet
<1>3. CASE q = <<>>
  BY <1>2, <1>3
<1>4. CASE q # <<>>
  <2>1. 1 \in DOMAIN q /\ \A i \in DOMAIN q : 1 <= i
    BY <1>1, <1>4
  <2>2. FirstEligible(q) = 1
    BY <1>1, <1>2, <2>1 DEF FirstEligible
  <2>. QED  BY <1>1, <1>2, <1>4, <2>1, <2>2 DEF ToSet
<1>. QED  BY <1>3, <1>4

\* Whoever was picked while v waits in a class stands behind v, and bookkeeping is
\* kept of waiting vCPUs only.
PickedStandBehind ==
  \A c \in Classes, v, w \in VcpuIds : w \in passed[c][v] =>
    /\ v \in Queued(c)
    /\ w \in Queued(c) => Before(queues[c], v, w)

QueuesKept == queues \in [Classes -> Seq(VcpuIds)]
SchedulerInv == SchedulerTypeOK /\ QueuesKept /\ BlockedIsQueuedNowhere /\ PickedStandBehind

LEMMA SchedulerInvInit == SchedulerInit => SchedulerInv
<1> SUFFICES ASSUME SchedulerInit PROVE SchedulerInv
  OBVIOUS
<1>1. /\ queues = [c \in Classes |-> <<>>]
      /\ blocked = {} /\ picked = NoneRunnable
      /\ passed = [c \in Classes |-> [v \in VcpuIds |-> {}]]
  BY DEF SchedulerInit
<1>2. SchedulerTypeOK
  BY <1>1 DEF SchedulerTypeOK, IsInjective
<1>. QED  BY <1>1, <1>2 DEF SchedulerInv, QueuesKept, BlockedIsQueuedNowhere, PickedStandBehind

LEMMA EnqueueKeeps ==
  ASSUME SchedulerInv, NEW id \in VcpuIds, NEW k \in Classes, Enqueue(id, k)
  PROVE  SchedulerInv'
<1>1. /\ \A c \in Classes : IsQueue(queues[c])
      /\ blocked' = blocked \ {id}
      /\ queues' = [queues EXCEPT ![k] = Push(queues[k], id)]
      /\ picked' = picked /\ passed' = passed
  BY DEF SchedulerInv, SchedulerTypeOK, IsQueue, Enqueue
<1>2. /\ IsQueue(queues'[k])
      /\ ToSet(queues'[k]) = ToSet(queues[k]) \cup {id}
      /\ \A v, w : Before(queues[k], v, w) => Before(queues'[k], v, w)
      /\ id \notin ToSet(queues[k]) =>
           \A v \in ToSet(queues[k]) : Before(queues'[k], v, id)
  BY <1>1, PushFacts DEF SchedulerInv, QueuesKept
<1>3. \A c \in Classes : c # k => queues'[c] = queues[c]
  BY <1>1 DEF SchedulerInv, QueuesKept
<1>4. QueuesKept' /\ \A c \in Classes : IsQueue(queues'[c])
  BY <1>1, <1>2, <1>3 DEF SchedulerInv, QueuesKept, IsQueue
<1>5. SchedulerTypeOK'
  BY <1>1, <1>4 DEF SchedulerInv, SchedulerTypeOK, IsQueue
<1>6. BlockedIsQueuedNowhere'
  BY <1>1, <1>2, <1>3 DEF SchedulerInv, BlockedIsQueuedNowhere, Queued
<1>7. ASSUME NEW c \in Classes, NEW v \in VcpuIds, NEW w \in VcpuIds,
             w \in passed'[c][v]
      PROVE  v \in ToSet(queues'[c])
               /\ (w \in ToSet(queues'[c]) => Before(queues'[c], v, w))
  <2>1. /\ v \in ToSet(queues[c])
        /\ w \in ToSet(queues[c]) => Before(queues[c], v, w)
    BY <1>1, <1>7 DEF SchedulerInv, PickedStandBehind, Queued
  <2>2. CASE c # k
    BY <1>3, <2>1, <2>2
  <2>3. CASE c = k /\ w \in ToSet(queues[c])
    BY <1>2, <2>1, <2>3
  <2>4. CASE c = k /\ w \notin ToSet(queues[c])
    BY <1>2, <2>1, <2>4
  <2>. QED  BY <2>2, <2>3, <2>4
<1>. QED  BY <1>4, <1>5, <1>6, <1>7 DEF SchedulerInv, PickedStandBehind, Queued

LEMMA BlockKeeps ==
  ASSUME SchedulerInv, NEW id \in VcpuIds, Block(id)
  PROVE  SchedulerInv'
<1>1. /\ \A c \in Classes : IsQueue(queues[c])
      /\ blocked' = blocked \cup {id}
      /\ queues' = [c \in Classes |-> Without(queues[c], id)]
      /\ picked' = picked
      /\ passed' = [c \in Classes |-> [passed[c] EXCEPT ![id] = {}]]
      /\ passed \in [Classes -> [VcpuIds -> SUBSET VcpuIds]]
  BY DEF SchedulerInv, SchedulerTypeOK, IsQueue, Block, LeaveQueues
<1>2. ASSUME NEW c \in Classes
      PROVE  /\ IsQueue(queues'[c])
             /\ ToSet(queues'[c]) = ToSet(queues[c]) \ {id}
             /\ \A v, w : v # id /\ w # id /\ Before(queues[c], v, w)
                            => Before(queues'[c], v, w)
  <2>1. queues'[c] = Without(queues[c], id)
    BY <1>1
  <2>. QED  BY <1>1, <2>1, WithoutFacts
<1>3. QueuesKept'
  BY <1>1, <1>2 DEF QueuesKept, IsQueue
<1>4. passed' \in [Classes -> [VcpuIds -> SUBSET VcpuIds]]
  BY <1>1
<1>5. SchedulerTypeOK'
  BY <1>1, <1>2, <1>4 DEF SchedulerInv, SchedulerTypeOK, IsQueue
<1>6. BlockedIsQueuedNowhere'
  BY <1>1, <1>2 DEF SchedulerInv, BlockedIsQueuedNowhere, Queued
<1>7. ASSUME NEW c \in Classes, NEW v \in VcpuIds, NEW w \in VcpuIds,
             w \in passed'[c][v]
      PROVE  v \in ToSet(queues'[c])
               /\ (w \in ToSet(queues'[c]) => Before(queues'[c], v, w))
  <2>1. v # id /\ w \in passed[c][v]
    BY <1>1, <1>7
  <2>2. /\ v \in ToSet(queues[c])
        /\ w \in ToSet(queues[c]) => Before(queues[c], v, w)
    BY <2>1 DEF SchedulerInv, PickedStandBehind, Queued
  <2>. QED  BY <1>2, <2>1, <2>2
<1>. QED  BY <1>3, <1>5, <1>6, <1>7 DEF SchedulerInv, PickedStandBehind, Queued

\* The classes before the one that is served are empty already.
LEMMA PickFacts ==
  ASSUME SchedulerInv, NEW k \in Classes, NextRunnable(k)
  PROVE  /\ IsQueue(queues[k]) /\ queues[k] # <<>>
         /\ picked' = queues[k][1] /\ picked' \in Queued(k) /\ picked' \in VcpuIds
         /\ \A c \in Classes : queues'[c] = IF c = k THEN Rotate(queues[k], 1)
                                                     ELSE queues[c]
         /\ QueuesKept'
         /\ passed' = [passed EXCEPT ![k] =
              [w \in VcpuIds |-> IF w = picked' \/ w \notin Queued(k) THEN {}
                                 ELSE passed[k][w] \cup {picked'}]]
         /\ blocked' = blocked
<1>1. \A c \in Classes : IsQueue(queues[c]) /\ ToSet(queues[c]) \cap blocked = {}
  BY DEF SchedulerInv, SchedulerTypeOK, IsQueue, BlockedIsQueuedNowhere, Queued
<1>2. \A c \in Classes :
        /\ Eligible(queues[c]) = {} <=> queues[c] = <<>>
        /\ queues[c] # <<>> =>
             /\ FirstEligible(queues[c]) = 1
             /\ queues[c][1] \in ToSet(queues[c]) /\ queues[c][1] \in VcpuIds
  BY <1>1, ServedFromFront
<1>3. queues[k] # <<>> /\ FirstEligible(queues[k]) = 1
  BY <1>2 DEF NextRunnable, Serves
<1>4. \A d \in 1 .. k - 1 : d \in Classes /\ queues[d] = <<>>
  <2>1. \A d \in 1 .. k - 1 : Eligible(queues[d]) = {}
    BY DEF NextRunnable, Serves
  <2>2. \A d \in 1 .. k - 1 : d \in Classes
    BY SchedulerAssumption DEF Classes
  <2>. QED  BY <1>2, <2>1, <2>2
<1>5. queues' = [d \in Classes |-> IF d < k THEN <<>>
                                   ELSE IF d = k THEN Rotate(queues[k], 1)
                                   ELSE queues[d]]
  BY <1>3 DEF NextRunnable
<1>6. ASSUME NEW c \in Classes
      PROVE  queues'[c] = IF c = k THEN Rotate(queues[k], 1) ELSE queues[c]
  <2>1. c \in Int /\ k \in Int /\ (c < k => c \in 1 .. k - 1 /\ c # k)
    BY SchedulerAssumption DEF Classes
  <2>. QED  BY <1>4, <1>5, <2>1
<1>7. Rotate(queues[k], 1) \in Seq(VcpuIds)
  BY <1>1, <1>3, RotateFacts DEF IsQueue
<1>8. QueuesKept'
  BY <1>1, <1>5, <1>6, <1>7 DEF QueuesKept, IsQueue
<1>9. picked' = queues[k][1] /\ blocked' = blocked
  BY <1>3 DEF NextRunnable
<1>10. passed' = [passed EXCEPT ![k] =
        [w \in VcpuIds |-> IF w = picked' \/ w \notin Queued(k) THEN {}
                           ELSE passed[k][w] \cup {picked'}]]
  BY DEF NextRunnable
<1>. QED  BY <1>1, <1>2, <1>3, <1>6, <1>8, <1>9, <1>10 DEF Queued

LEMMA NextRunnableKeeps ==
  ASSUME SchedulerInv, NEW k \in Classes, NextRunnable(k)
  PROVE  SchedulerInv'
<1> DEFINE q == queues[k]
<1>1. /\ IsQueue(q) /\ q # <<>>
      /\ picked' = q[1] /\ picked' \in ToSet(q) /\ picked' \in VcpuIds
      /\ \A c \in Classes : queues'[c] = IF c = k THEN Rotate(q, 1) ELSE queues[c]
      /\ QueuesKept' /\ blocked' = blocked
      /\ passed' = [passed EXCEPT ![k] =
           [w \in VcpuIds |-> IF w = picked' \/ w \notin ToSet(q) THEN {}
                              ELSE passed[k][w] \cup {picked'}]]
      /\ passed \in [Classes -> [VcpuIds -> SUBSET VcpuIds]]
  BY PickFacts DEF SchedulerInv, SchedulerTypeOK, Queued
<1>2. /\ IsQueue(queues'[k])
      /\ ToSet(queues'[k]) = ToSet(q)
      /\ \A v, w : v # q[1] /\ Before(q, v, w) => Before(queues'[k], v, w)
      /\ \A v \in ToSet(q) : v # q[1] => Before(queues'[k], v, q[1])
  BY <1>1, RotateFacts
<1>3. \A c \in Classes : IsQueue(queues'[c]) /\ ToSet(queues'[c]) = ToSet(queues[c])
  BY <1>1, <1>2 DEF SchedulerInv, SchedulerTypeOK, IsQueue
<1>4. passed' \in [Classes -> [VcpuIds -> SUBSET VcpuIds]]
  BY <1>1
<1>5. SchedulerTypeOK'
  BY <1>1, <1>3, <1>4 DEF SchedulerInv, SchedulerTypeOK, IsQueue
<1>6. BlockedIsQueuedNowhere'
  BY <1>1, <1>3 DEF SchedulerInv, BlockedIsQueuedNowhere, Queued
<1>7. ASSUME NEW c \in Classes, NEW v \in VcpuIds, NEW w \in VcpuIds,
             w \in passed'[c][v]
      PROVE  v \in ToSet(queues'[c])
               /\ (w \in ToSet(queues'[c]) => Before(queues'[c], v, w))
  <2>1. CASE c # k
    <3>1. passed'[c] = passed[c] /\ queues'[c] = queues[c]
      BY <1>1, <2>1
    <3>. QED  BY <1>7, <3>1 DEF SchedulerInv, PickedStandBehind, Queued
  <2>2. CASE c = k
    <3>1. /\ v # q[1] /\ v \in ToSet(q)
          /\ w = q[1] \/ w \in passed[k][v]
      BY <1>1, <1>7, <2>2
    <3>2. CASE w = q[1]
      BY <1>2, <2>2, <3>1, <3>2
    <3>3. CASE w \in passed[k][v]
      <4>1. w \in ToSet(q) => Before(q, v, w)
        BY <3>3 DEF SchedulerInv, PickedStandBehind, Queued
      <4>. QED  BY <1>2, <2>2, <3>1, <4>1
    <3>. QED  BY <3>1, <3>2, <3>3
  <2>. QED  BY <2>1, <2>2
<1>. QED  BY <1>1, <1>5, <1>6, <1>7 DEF SchedulerInv, PickedStandBehind, Queued

LEMMA NothingRunnableKeeps ==
  ASSUME SchedulerInv, NothingRunnable  PROVE  SchedulerInv'
<1>1. \A c \in Classes : IsQueue(queues[c]) /\ ToSet(queues[c]) \cap blocked = {}
  BY DEF SchedulerInv, SchedulerTypeOK, IsQueue, BlockedIsQueuedNowhere, Queued
<1>2. \A c \in Classes : queues[c] = <<>>
  BY <1>1, ServedFromFront DEF NothingRunnable
<1>3. queues' = queues
  BY <1>2 DEF NothingRunnable, SchedulerInv, QueuesKept
<1>. QED  BY <1>3 DEF NothingRunnable, SchedulerInv, SchedulerTypeOK, QueuesKept, Queued,
                     BlockedIsQueuedNowhere, PickedStandBehind

LEMMA SchedulerInvStep == SchedulerInv /\ [SchedulerNext]_schedulerVars => SchedulerInv'
<1> SUFFICES ASSUME SchedulerInv, [SchedulerNext]_schedulerVars PROVE SchedulerInv'
  OBVIOUS
<1>1. ASSUME NEW id \in VcpuIds, NEW c \in Classes, Enqueue(id, c)
      PROVE  SchedulerInv'
  BY <1>1, EnqueueKeeps
<1>2. ASSUME NEW id \in VcpuIds, Block(id)  PROVE  SchedulerInv'
  BY <1>2, BlockKeeps
<1>3. ASSUME NEW c \in Classes, NextRunnable(c)  PROVE  SchedulerInv'
  BY <1>3, NextRunnableKeeps
<1>4. CASE NothingRunnable
  BY <1>4, NothingRunnableKeeps
<1>5. CASE UNCHANGED schedulerVars
  BY <1>5 DEF schedulerVars, SchedulerInv, SchedulerTypeOK, QueuesKept, Queued,
              BlockedIsQueuedNowhere, PickedStandBehind
<1>. QED  BY <1>1, <1>2, <1>3, <1>4, <1>5 DEF SchedulerNext, Pick

-----------------------------------------------------------------------------
LEMMA SchedulerInvHolds == SchedulerSpec => []SchedulerInv
<1>. QED  BY SchedulerInvInit, SchedulerInvStep, PTL DEF SchedulerSpec

\* Queues hold vCPUs, each at most once, after any sequence of enqueue, block and
\* next_runnable.
THEOREM SchedulerTypeCorrect == SchedulerSpec => []SchedulerTypeOK
<1>1. SchedulerInv => SchedulerTypeOK
  BY DEF SchedulerInv
<1>. QED  BY <1>1, SchedulerInvHolds, PTL

\* Scheduler::block and Scheduler::enqueue keep blocked vCPUs out of all queues.
THEOREM BlockedNeverQueued == SchedulerSpec => []BlockedIsQueuedNowhere
<1>1. SchedulerInv => BlockedIsQueuedNowhere
  BY DEF SchedulerInv
<1>. QED  BY <1>1, SchedulerInvHolds, PTL

\* Scheduler::next_runnable picks no vCPU twice from a class while another waits in
\* it: whoever was picked stands behind the one that waits, and picks are made in
\* front.
THEOREM PicksGoRound == SchedulerSpec => RoundRobin
<1>1. ASSUME SchedulerInv, NEW c \in Classes, NEW v \in VcpuIds, NEW w \in VcpuIds,
             NextRunnable(c), picked' = w, w # v, v \in Queued(c)
      PROVE  w \notin passed[c][v]
  <2> SUFFICES ASSUME w \in passed[c][v] PROVE FALSE
    OBVIOUS
  <2>1. IsQueue(queues[c]) /\ queues[c] # <<>> /\ w = queues[c][1] /\ w \in Queued(c)
    BY <1>1, PickFacts
  <2>2. Before(queues[c], v, w)
    BY <1>1, <2>1 DEF SchedulerInv, PickedStandBehind
  <2>3. PICK i, j \in DOMAIN queues[c] :
          i < j /\ queues[c][i] = v /\ queues[c][j] = w
    BY <2>2 DEF Before
  <2>4. 1 \in DOMAIN queues[c] /\ DOMAIN queues[c] = 1 .. Len(queues[c])
    BY <2>1 DEF IsQueue
  <2>5. j = 1
    BY <2>1, <2>3, <2>4 DEF IsQueue, IsInjective
  <2>. QED  BY <2>3, <2>4, <2>5
<1>2. SchedulerInv => [\A c \in Classes, v, w \in VcpuIds :
         NextRunnable(c) /\ picked' = w /\ w # v
           /\ v \in Queued(c) /\ v \in Queued(c)' =>
         w \notin passed[c][v]]_schedulerVars
  BY <1>1
<1>. QED  BY <1>2, SchedulerInvHolds, PTL DEF RoundRobin

=============================================================================
