------------------------------ MODULE VcpuRun ------------------------------
(***************************************************************************)
(* The vCPU run loop and the VM-exit dispatcher (hyper-vcpu).  run_loop    *)
(* drives one vCPU through the backend and ExitDispatcher::handle until it *)
(* stops being runnable or the step budget is spent; it may be called      *)
(* again on the same vCPU, whose exit counter goes on.  One action is one  *)
(* iteration of the loop.                                                  *)
(*                                                                         *)
(* An exit is named by the case of the dispatch it falls into; leaves,     *)
(* values and vectors play no part in it.  The fake backend replays an     *)
(* arbitrary script, so any exit may come next.                            *)
(***************************************************************************)
EXTENDS Integers

CONSTANTS
  Vcpus,
  Policies,         \* intercept policies in use: the exits a policy traps
  ExitStormLimit,   \* ExitDispatcher.exit_storm_limit
  MaxSteps,         \* max_steps of run_loop
  NoVcpu, NoExit

VARIABLES
  state,      \* Vcpu.state
  exits,      \* VcpuRunStats.exits
  lastExit,   \* VcpuRunStats.last_exit_reason
  intercept,  \* Vcpu.intercept_policy
  looping,    \* the vCPU that run_loop is driving, or NoVcpu
  steps       \* exits the current run_loop call has processed

vars == <<state, exits, lastExit, intercept, looping, steps>>

VcpuStates == {"Ready", "Running", "Blocked", "Halted", "Killed",
               "Quarantined"}
Runnable == {"Ready", "Running"}
Terminal == {"Halted", "Killed", "Quarantined"}

\* The exits that an intercept flag guards, and the others.
Interceptable == {"cpuid", "msr_allowed", "msr_denied", "io_allowed",
                  "io_denied", "hlt"}
VmExitReasons == Interceptable \cup
  {"npf", "npf_null", "external_irq", "shutdown", "unknown"}

ASSUME VcpuAssumption ==
  /\ ExitStormLimit \in Nat
  /\ MaxSteps \in Nat \ {0}
  /\ NoVcpu \notin Vcpus
  /\ NoExit \notin VmExitReasons
  /\ \A p \in Policies : "io_allowed" \in p <=> "io_denied" \in p
  /\ \A p \in Policies : "msr_allowed" \in p <=> "msr_denied" \in p

Init ==
  /\ state = [v \in Vcpus |-> "Ready"]
  /\ exits = [v \in Vcpus |-> 0]
  /\ lastExit = [v \in Vcpus |-> NoExit]
  /\ intercept \in [Vcpus -> Policies]
  /\ looping = NoVcpu
  /\ steps = 0

-----------------------------------------------------------------------------
\* What an exit that is trapped leads to.
Trapped(r) ==
  CASE r = "msr_denied" -> "InjectException"
    [] r = "io_denied"  -> "QuarantineVm"
    [] r = "hlt"        -> "BlockVcpu"
    [] r \in {"npf_null", "shutdown", "unknown"} -> "KillVm"
    [] r \in {"cpuid", "msr_allowed", "io_allowed", "npf", "external_irq"} ->
         "Resume"

\* Faulty variant: an intercept flag that is off wins over a fatal exit.
DispatchOpen(r, policy) == IF r \in policy THEN Trapped(r) ELSE "Resume"

\* The action of ExitDispatcher::handle for an exit within the storm budget.
\* EmulateAndResume and Resume are one action here: both keep the vCPU running.
Dispatch(r, policy) ==
  IF r \in Interceptable \ policy THEN "Resume" ELSE Trapped(r)

\* Faulty variant: the budget is counted from the start of a run_loop call.
OverBudgetThisCall(v) == steps + 1 > ExitStormLimit

\* The storm check, after the exit has been counted.
OverBudget(v) == exits[v] + 1 > ExitStormLimit

\* ExitDispatcher::handle: the storm budget comes before the reason.
Handle(v, r) ==
  IF OverBudget(v) THEN "KillVm" ELSE Dispatch(r, intercept[v])

\* ExitDispatcher::apply on a vCPU that the backend has just run.
Apply(action) ==
  CASE action = "BlockVcpu"    -> "Blocked"
    [] action = "KillVm"       -> "Killed"
    [] action = "QuarantineVm" -> "Quarantined"
    [] OTHER                   -> "Running"

-----------------------------------------------------------------------------
\* Faulty variant: a blocked vCPU is run as well.
MayRunBlocked(v) == state[v] \in Runnable \cup {"Blocked"}

\* VcpuState::is_runnable.
IsRunnable(v) == state[v] \in Runnable

\* run_loop is called; on a vCPU that is not runnable it returns an error.
RunLoop(v) ==
  /\ looping = NoVcpu
  /\ IsRunnable(v)
  /\ looping' = v
  /\ steps' = 0
  /\ UNCHANGED <<state, exits, lastExit, intercept>>

BudgetLeft == steps < MaxSteps

\* One iteration: the backend runs the vCPU to its next exit, handle counts the
\* exit, decides and applies the decision.
Iterate(v, r) ==
  /\ looping = v
  /\ IsRunnable(v)
  /\ BudgetLeft
  /\ exits' = [exits EXCEPT ![v] = @ + 1]
  /\ lastExit' = [lastExit EXCEPT ![v] = r]
  /\ state' = [state EXCEPT ![v] = Apply(Handle(v, r))]
  /\ steps' = steps + 1
  /\ UNCHANGED <<intercept, looping>>

\* run_loop returns: the vCPU stopped, or StepBudgetExceeded.
Leave(v) ==
  /\ looping = v
  /\ ~IsRunnable(v) \/ ~BudgetLeft
  /\ looping' = NoVcpu
  /\ UNCHANGED <<state, exits, lastExit, intercept, steps>>

LoopStep(v) == Leave(v) \/ \E r \in VmExitReasons : Iterate(v, r)

Next == \E v \in Vcpus : RunLoop(v) \/ LoopStep(v)

Spec == Init /\ [][Next]_vars

-----------------------------------------------------------------------------
TypeOK ==
  /\ state \in [Vcpus -> VcpuStates]
  /\ exits \in [Vcpus -> Nat]
  /\ lastExit \in [Vcpus -> VmExitReasons \cup {NoExit}]
  /\ intercept \in [Vcpus -> Policies]
  /\ looping \in Vcpus \cup {NoVcpu}
  /\ steps \in 0 .. MaxSteps

\* SOW S13: whatever its exits are and however often run_loop is called again,
\* a vCPU takes at most one exit more than the storm limit, and that exit kills
\* it, even one that alone would have resumed, blocked or quarantined it.
StormIsKilled ==
  \A v \in Vcpus :
    /\ exits[v] <= ExitStormLimit + 1
    /\ exits[v] > ExitStormLimit => state[v] = "Killed"

\* SOW S3: the state of a vCPU answers its last exit fail-closed.  A vCPU that
\* is still runnable did not last exit for a reason that is denied or fatal.
FailClosed ==
  \A v \in Vcpus :
    /\ state[v] \in Runnable =>
         /\ lastExit[v] \notin {"npf_null", "shutdown", "unknown"}
         /\ lastExit[v] = "io_denied" => "io_denied" \notin intercept[v]
         /\ lastExit[v] = "hlt" => "hlt" \notin intercept[v]
    /\ state[v] = "Quarantined" => lastExit[v] = "io_denied"

\* A vCPU that run_loop has stopped is never run again: killed and quarantined
\* vCPUs stay so, and nothing in the crate wakes a blocked one.
StoppedStays ==
  [][\A v \in Vcpus : state[v] \notin Runnable =>
       state'[v] = state[v] /\ exits'[v] = exits[v]]_vars

=============================================================================
