------------------------------ MODULE Scheduler ------------------------------
(***************************************************************************)
(* The vCPU scheduler (hyper-vcpu): strict priority between six classes,   *)
(* round robin within a class, and a set of blocked vCPUs.  Its callers    *)
(* enqueue and block vCPUs between selections, in any order; it knows      *)
(* vCPUs only by their ids.                                                *)
(***************************************************************************)
EXTENDS Integers, Sequences, SequencesExt, FiniteSets

CONSTANTS
  VcpuIds,
  NumClasses,  \* SchedClass::PRIORITY_ORDER, numbered from 1, the highest
  NoneRunnable       \* next_runnable returned None

ASSUME SchedulerAssumption == NumClasses \in Nat \ {0} /\ NoneRunnable \notin VcpuIds

VARIABLES
  queues,   \* Scheduler.queues
  blocked,  \* Scheduler.blocked
  picked,   \* what the last next_runnable returned
  passed    \* class -> vCPU -> the vCPUs picked from that class while it waits
            \* there (bookkeeping for RoundRobin)

schedulerVars == <<queues, blocked, picked, passed>>

Classes == 1 .. NumClasses

Queued(c) == ToSet(queues[c])

\* VecDeque::retain.  A queue holds an id once (Push), so at most one entry goes.
Without(q, id) ==
  IF id \in ToSet(q) THEN RemoveAt(q, CHOOSE i \in DOMAIN q : q[i] = id) ELSE q

SchedulerInit ==
  /\ queues = [c \in Classes |-> <<>>]
  /\ blocked = {}
  /\ picked = NoneRunnable
  /\ passed = [c \in Classes |-> [v \in VcpuIds |-> {}]]

-----------------------------------------------------------------------------
\* Faulty variant: a new id goes first.
PushFront(q, id) == IF id \in ToSet(q) THEN q ELSE <<id>> \o q

\* An id that is in the queue already keeps its place.
Push(q, id) == IF id \in ToSet(q) THEN q ELSE Append(q, id)

\* Scheduler::enqueue clears a block.
Enqueue(id, c) ==
  /\ blocked' = blocked \ {id}
  /\ queues' = [queues EXCEPT ![c] = Push(@, id)]
  /\ UNCHANGED <<picked, passed>>

\* Faulty variant: the id leaves only the first class that holds it.
LeaveFirstQueue(id) ==
  [c \in Classes |->
     IF \E d \in 1 .. c - 1 : id \in Queued(d) THEN queues[c]
                                              ELSE Without(queues[c], id)]

LeaveQueues(id) == [c \in Classes |-> Without(queues[c], id)]

\* Scheduler::block removes the id from every class.
Block(id) ==
  /\ blocked' = blocked \cup {id}
  /\ queues' = LeaveQueues(id)
  /\ passed' = [c \in Classes |-> [passed[c] EXCEPT ![id] = {}]]
  /\ UNCHANGED picked

-----------------------------------------------------------------------------
\* Where the first id of q that is not blocked stands; the ids before it are
\* stale and dropped.
Eligible(q) == {i \in DOMAIN q : q[i] \notin blocked}
FirstEligible(q) == CHOOSE i \in Eligible(q) : \A j \in Eligible(q) : i <= j

\* Faulty variant: the picked id stays in front.
KeepFront(q, i) == SubSeq(q, i, Len(q))

\* The picked id goes to the back of its queue.
Rotate(q, i) == Append(SubSeq(q, i + 1, Len(q)), q[i])

\* The first class, in priority order, that still has an eligible id.
Serves(c) ==
  /\ Eligible(queues[c]) # {}
  /\ \A d \in 1 .. c - 1 : Eligible(queues[d]) = {}

\* Scheduler::next_runnable picks from class c; the classes before it held
\* nothing but stale ids and are empty afterwards.
NextRunnable(c) ==
  LET i == FirstEligible(queues[c])
      v == queues[c][i]
  IN
  /\ Serves(c)
  /\ picked' = v
  /\ queues' = [d \in Classes |-> IF d < c THEN <<>>
                                  ELSE IF d = c THEN Rotate(queues[c], i)
                                  ELSE queues[d]]
  /\ passed' = [passed EXCEPT ![c] =
                  [w \in VcpuIds |-> IF w = v \/ w \notin Queued(c) THEN {}
                                     ELSE passed[c][w] \cup {v}]]
  /\ UNCHANGED blocked

\* ... and finds nothing to run.
NothingRunnable ==
  /\ \A c \in Classes : Eligible(queues[c]) = {}
  /\ picked' = NoneRunnable
  /\ queues' = [c \in Classes |-> <<>>]
  /\ UNCHANGED <<blocked, passed>>

Pick == NothingRunnable \/ \E c \in Classes : NextRunnable(c)

SchedulerNext ==
  \/ \E id \in VcpuIds, c \in Classes : Enqueue(id, c)
  \/ \E id \in VcpuIds : Block(id)
  \/ Pick

SchedulerSpec == SchedulerInit /\ [][SchedulerNext]_schedulerVars

\* The host asks for the next vCPU again and again.
FairSchedulerSpec == SchedulerSpec /\ WF_schedulerVars(Pick)

-----------------------------------------------------------------------------
SchedulerTypeOK ==
  /\ \A c \in Classes : /\ queues[c] \in Seq(VcpuIds)
                        /\ IsInjective(queues[c])
  /\ blocked \subseteq VcpuIds
  /\ picked \in VcpuIds \cup {NoneRunnable}
  /\ passed \in [Classes -> [VcpuIds -> SUBSET VcpuIds]]

\* A blocked vCPU waits in no class, whatever classes it was enqueued in before
\* and after: the stale entries that next_runnable looks for never exist.
BlockedIsQueuedNowhere ==
  \A c \in Classes : Queued(c) \cap blocked = {}

\* "Within a single class, vCPUs are cycled fairly": while a vCPU waits in a
\* class no other is picked twice from that class, enqueues and blocks of the
\* others in between included.
RoundRobin ==
  [][\A c \in Classes, v, w \in VcpuIds :
       NextRunnable(c) /\ picked' = w /\ w # v
         /\ v \in Queued(c) /\ v \in Queued(c)' =>
       w \notin passed[c][v]]_schedulerVars

\* A vCPU that stays in a class while the classes above stay empty is picked
\* again and again.
NoStarvationAtTop ==
  \A v \in VcpuIds, c \in Classes :
    <>[](v \in Queued(c) /\ \A d \in 1 .. c - 1 : queues[d] = <<>>)
      => []<>(picked = v)

=============================================================================
