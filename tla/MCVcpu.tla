------------------------------- MODULE MCVcpu -------------------------------
(* The two parts of hyper-vcpu.  They share no state and neither calls the   *)
(* other, so each is run while the other is idle: all interleavings would    *)
(* show nothing more.  Of the loop, two vCPUs; each traps every exit, as     *)
(* Vcpu::new sets it up, or passes port I/O through.  Of the scheduler,      *)
(* three vCPUs and two classes: one above, one below.                        *)
EXTENDS VcpuRun, Scheduler

MCPolicies == {Interceptable, Interceptable \ {"io_allowed", "io_denied"}}

LoopPart ==
  /\ picked = NoneRunnable /\ blocked = {} /\ \A c \in Classes : queues[c] = <<>>
  /\ Next
  /\ UNCHANGED schedulerVars

SchedulerPart ==
  /\ looping = NoVcpu /\ \A v \in Vcpus : exits[v] = 0
  /\ SchedulerNext
  /\ UNCHANGED vars

MCInit == Init /\ SchedulerInit

\* FairSchedulerSpec beside Spec.
MCSpec ==
  /\ MCInit
  /\ [][LoopPart \/ SchedulerPart]_<<vars, schedulerVars>>
  /\ WF_schedulerVars(SchedulerPart /\ Pick)
=============================================================================
