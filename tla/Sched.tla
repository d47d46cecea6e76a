------------------------------- MODULE Sched -------------------------------
(***************************************************************************)
(* The task scheduler of core/sched.c: what it keeps and its operations.   *)
(* Acpi composes it with the tables it takes the CPUs from and with power  *)
(* management.  No code starts an application processor, so only CPU 0 is  *)
(* ever online, and no code moves a task out of TASK_READY.                *)
(***************************************************************************)
EXTENDS Integers, Sequences, FiniteSets, FiniteSetsExt

CONSTANTS
  MAX_CPUS,    \* 64
  MAX_TASKS,   \* 256
  SLICE,       \* 10
  MaxTicks     \* bound on calls of sched_tick

ASSUME SchedConstants ==
  /\ {MAX_CPUS, SLICE} \subseteq Nat \ {0}
  /\ {MAX_TASKS, MaxTicks} \subseteq Nat

Cpu  == 0 .. MAX_CPUS - 1
Task == 1 .. MAX_TASKS    \* t->id
IDLE == 0                 \* idle_tasks[0]
NONE == -1

VARIABLES
  cpu_count,
  apic_id,         \* cpu -> the id sched_init found for it
  run_queue,       \* cpu -> its tasks, head first
  current,         \* cpu -> task
  next_task_id,
  cpu_id,          \* task -> cpu
  time_slice,      \* task -> ticks
  total_runtime,   \* task -> ticks
  smt_aware,
  busy             \* ticks during which CPU 0 had a task other than idle

pool == <<next_task_id, cpu_id, time_slice, total_runtime>>
schedVars == <<cpu_count, apic_id, run_queue, current, pool, smt_aware, busy>>

(* sched_init, given acpi_cpu_count and acpi_cpu_apic_ids as they are now. *)
sched_init(count, ids) ==
  /\ cpu_count' = Min({Max({count, 1}), MAX_CPUS})
  /\ apic_id' = [i \in Cpu |-> IF i < cpu_count' THEN ids[i] ELSE 0]
  /\ UNCHANGED <<run_queue, current, pool, smt_aware, busy>>

(* The first of the least loaded CPUs that are online and, when asked for, *)
(* no hyperthreads; CPU 0 if there is none.                                *)
Online(i) == i = 0

IsSmt(i) == apic_id[i] % 2 = 1 /\ cpu_count > 1

Candidates == {i \in 0 .. cpu_count - 1 : Online(i) /\ ~(smt_aware /\ IsSmt(i))}

TargetCpu ==
  LET least == {i \in Candidates :
                  \A j \in Candidates : Len(run_queue[i]) <= Len(run_queue[j])}
  IN  IF least = {} THEN 0 ELSE Min(least)

PoolHasRoom == next_task_id < MAX_TASKS

sched_create_task ==
  /\ PoolHasRoom
  /\ LET t == next_task_id + 1
     IN  /\ next_task_id' = t
         /\ time_slice' = [time_slice EXCEPT ![t] = SLICE]
         /\ total_runtime' = [total_runtime EXCEPT ![t] = 0]
         /\ cpu_id' = [cpu_id EXCEPT ![t] = TargetCpu]
         /\ run_queue' = [run_queue EXCEPT ![TargetCpu] = <<t>> \o @]
  /\ UNCHANGED <<cpu_count, apic_id, current, smt_aware, busy>>

(* Mutant: the head goes to the end and stays in front too.                *)
Rotated_twice(q) == Append(q, Head(q))

(* Mutant: the head is put back in front.                                  *)
Rotated_front(q) == q

Rotated(q) == Append(Tail(q), Head(q))

(* sched_yield is a call of sched_schedule.                                *)
sched_schedule ==
  /\ \/ /\ run_queue[0] = <<>>
        /\ current' = [current EXCEPT ![0] = IDLE]
        /\ UNCHANGED run_queue
     \/ /\ run_queue[0] # <<>>
        /\ current' = [current EXCEPT ![0] = Head(run_queue[0])]
        /\ run_queue' = [run_queue EXCEPT ![0] = Rotated(@)]
  /\ UNCHANGED <<cpu_count, apic_id, pool, smt_aware, busy>>

SliceAfter(slice) == IF slice = 1 THEN SLICE ELSE slice - 1

(* An idle task has no slice and is not accounted.                         *)
sched_tick ==
  LET t == current[0]
  IN  /\ t \in Task /\ busy < MaxTicks
      /\ busy' = busy + 1
      /\ IF time_slice[t] > 0
           THEN /\ time_slice' = [time_slice EXCEPT ![t] = SliceAfter(@)]
                /\ total_runtime' = [total_runtime EXCEPT ![t] = @ + 1]
           ELSE UNCHANGED <<time_slice, total_runtime>>
      /\ UNCHANGED <<cpu_count, apic_id, run_queue, current, next_task_id, cpu_id,
                     smt_aware>>

sched_set_smt_aware(enabled) ==
  /\ smt_aware' = enabled
  /\ UNCHANGED <<cpu_count, apic_id, run_queue, current, pool, busy>>

SchedInit ==
  /\ cpu_count = 0 /\ apic_id = [i \in Cpu |-> 0]
  /\ run_queue = [i \in Cpu |-> <<>>]
  /\ current = [i \in Cpu |-> NONE]
  /\ next_task_id = 0
  /\ cpu_id = [t \in Task |-> 0]
  /\ time_slice = [t \in Task |-> 0]
  /\ total_runtime = [t \in Task |-> 0]
  /\ smt_aware = TRUE
  /\ busy = 0

-----------------------------------------------------------------------------
(* Properties                                                              *)

Created == 1 .. next_task_id

(* Queues and the current tasks of all CPUs hold only tasks that were      *)
(* created, and no slice exceeds the one sched_create_task gave.           *)
TypeOK ==
  /\ cpu_count \in 0 .. MAX_CPUS
  /\ next_task_id \in 0 .. MAX_TASKS
  /\ run_queue \in [Cpu -> Seq(Created)]
  /\ current \in [Cpu -> Created \cup {IDLE, NONE}]
  /\ time_slice \in [Task -> 0 .. SLICE]
  /\ total_runtime \in [Task -> 0 .. MaxTicks]

(* Rotating the queue and pushing new tasks in front of it loses no task   *)
(* and links none twice: each is exactly once in the queue of its CPU.     *)
EachTaskQueuedOnce ==
  \A t \in Created : \A i \in Cpu :
    Cardinality({k \in DOMAIN run_queue[i] : run_queue[i][k] = t})
      = (IF i = cpu_id[t] THEN 1 ELSE 0)
=============================================================================
