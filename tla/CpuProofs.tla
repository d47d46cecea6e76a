---------------------------- MODULE CpuProofs ------------------------------
(* Theorems about what a CPU runs.  First the queues of the scheduler, for *)
(* any number of tasks and CPUs, on every machine and with power           *)
(* management in between; then the context that the stubs of interrupts    *)
(* and system calls save and restore.  The two parts share nothing.        *)
EXTENDS Acpi, Intr, FiniteSetTheorems, SequenceTheorems, TLAPS

-----------------------------------------------------------------------------
(* The inductive invariant.                                                *)

(* sched_init runs before acpi_init has counted the CPUs, so that it finds *)
(* one.                                                                    *)
CpusCounted ==
  /\ boot = "sched_init" => acpi_cpu_count = 0
  /\ cpu_count \in {0, 1}

(* A task is in the queue of its CPU and in no other.                      *)
QueuedAtItsCpu ==
  /\ cpu_id \in [Task -> Cpu]
  /\ \A t \in Created, i \in Cpu :
       (\E k \in DOMAIN run_queue[i] : run_queue[i][k] = t) <=> i = cpu_id[t]

LinkedOnce ==
  \A i \in Cpu : \A k, l \in DOMAIN run_queue[i] :
    run_queue[i][k] = run_queue[i][l] => k = l

(* No task has run for longer than all of them together.                   *)
TimeAccounted ==
  /\ busy \in 0 .. MaxTicks
  /\ \A t \in Task : total_runtime[t] <= busy

Inv == TypeOK /\ CpusCounted /\ QueuedAtItsCpu /\ LinkedOnce /\ TimeAccounted

-----------------------------------------------------------------------------

(* The numbers of CPUs and tasks, and the length of a slice.               *)
LEMMA Sizes ==
  /\ MAX_CPUS \in Nat /\ MAX_CPUS > 0 /\ SLICE \in Nat /\ SLICE > 0
  /\ MAX_TASKS \in Nat /\ MaxTicks \in Nat
<1>1. {MAX_CPUS, SLICE} \subseteq Nat \ {0} /\ {MAX_TASKS, MaxTicks} \subseteq Nat
  BY SchedConstants
<1>2. QED
  BY <1>1

(* Only CPU 0 is online, so that it is the target of every task.           *)
LEMMA TargetIsCpu0 == TargetCpu = 0
<1> DEFINE least == {i \in Candidates :
                       \A j \in Candidates : Len(run_queue[i]) <= Len(run_queue[j])}
<1>1. least \subseteq {0}
  BY DEF Candidates, Online
<1>2. TargetCpu = IF least = {} THEN 0 ELSE Min(least)
  BY DEF TargetCpu
<1> HIDE DEF least
<1>3. CASE least = {}
  BY <1>2, <1>3
<1>4. CASE least # {}
  <2>1. least = {0}
    BY <1>1, <1>4
  <2>2. Min({0}) = 0
    BY DEF Min
  <2>3. QED
    BY <1>2, <1>4, <2>1, <2>2
<1>5. QED
  BY <1>3, <1>4

(* sched_init finds one CPU, since acpi_init has not counted them yet.     *)
LEMMA SchedInitCounts ==
  ASSUME CpusCounted, boot = "sched_init",
         sched_init(acpi_cpu_count, acpi_cpu_apic_ids)
  PROVE  cpu_count' = 1
<1>1. cpu_count' = Min({Max({0, 1}), MAX_CPUS})
  BY DEF sched_init, CpusCounted
<1>2. Max({0, 1}) = 1
  BY DEF Max
<1>3. Min({1, MAX_CPUS}) = 1
  BY Sizes DEF Min
<1>4. QED
  BY <1>1, <1>2, <1>3

(* The head of a queue goes to its end, the others move up.                *)
LEMMA Rotation ==
  ASSUME NEW S, NEW q \in Seq(S), q # <<>>
  PROVE  /\ Len(q) \in Nat /\ Len(q) > 0
         /\ Head(q) \in S /\ Rotated(q) \in Seq(S)
         /\ DOMAIN q = 1 .. Len(q) /\ DOMAIN Rotated(q) = 1 .. Len(q)
         /\ \A k \in 1 .. Len(q) :
              Rotated(q)[k] = q[IF k = Len(q) THEN 1 ELSE k + 1]
<1>1. Len(q) \in Nat /\ Len(q) > 0 /\ DOMAIN q = 1 .. Len(q)
  BY EmptySeq, LenProperties
<1>2. /\ Head(q) \in S /\ Head(q) = q[1] /\ Tail(q) \in Seq(S)
      /\ Len(Tail(q)) = Len(q) - 1
      /\ \A k \in 1 .. Len(q) - 1 : Tail(q)[k] = q[k + 1]
  BY HeadTailProperties
<1>3. /\ Rotated(q) \in Seq(S) /\ Len(Rotated(q)) = Len(q)
      /\ \A k \in 1 .. Len(q) - 1 : Rotated(q)[k] = q[k + 1]
      /\ Rotated(q)[Len(q)] = q[1]
  BY <1>1, <1>2, AppendProperties DEF Rotated
<1>4. DOMAIN Rotated(q) = 1 .. Len(q)
  BY <1>3, LenProperties
<1>5. \A k \in 1 .. Len(q) : Rotated(q)[k] = q[IF k = Len(q) THEN 1 ELSE k + 1]
  <2> DEFINE n == Len(q)
  <2>1. n \in Nat
    BY <1>1
  <2> HIDE DEF n
  <2>2. \A k \in 1 .. n : k = n \/ k \in 1 .. n - 1
    BY <2>1
  <2>3. QED
    BY <1>3, <2>2 DEF n
<1>6. QED
  BY <1>1, <1>2, <1>3, <1>4, <1>5

(* A new task is put in front of the queue of CPU 0.                       *)
LEMMA CreateStep ==
  ASSUME Inv, sched_create_task, UNCHANGED <<boot, acpi_cpu_count>>
  PROVE  Inv'
<1> DEFINE t == next_task_id + 1
           q == run_queue[0]
           new == <<t>> \o q
<1>1. /\ next_task_id' = t
      /\ time_slice' = [time_slice EXCEPT ![t] = SLICE]
      /\ total_runtime' = [total_runtime EXCEPT ![t] = 0]
      /\ cpu_id' = [cpu_id EXCEPT ![t] = 0]
      /\ run_queue' = [run_queue EXCEPT ![0] = new]
      /\ UNCHANGED <<cpu_count, current, busy>>
      /\ next_task_id < MAX_TASKS
  BY TargetIsCpu0 DEF sched_create_task, PoolHasRoom
<1>2. /\ next_task_id \in 0 .. MAX_TASKS /\ run_queue \in [Cpu -> Seq(Created)]
      /\ current \in [Cpu -> Created \cup {IDLE, NONE}]
      /\ time_slice \in [Task -> 0 .. SLICE]
      /\ total_runtime \in [Task -> 0 .. MaxTicks]
      /\ cpu_id \in [Task -> Cpu]
  BY DEF Inv, TypeOK, QueuedAtItsCpu
<1>3. t \in Task /\ 0 \in Cpu /\ t \in Created' /\ t \notin Created /\ t \in Nat
  BY <1>1, <1>2, Sizes DEF Task, Cpu, Created
<1>4. Created \subseteq Created' /\ Created' = Created \cup {t}
  BY <1>1, <1>2, Sizes DEF Created
<1>5. q \in Seq(Created') /\ q \in Seq(Created)
  BY <1>2, <1>3, <1>4, SeqMonotonic
<1>6. /\ new \in Seq(Created') /\ Len(q) \in Nat /\ DOMAIN q = 1 .. Len(q)
      /\ DOMAIN new = 1 .. Len(q) + 1
      /\ new[1] = t /\ \A k \in 1 .. Len(q) : new[k + 1] = q[k]
  <2>1. <<t>> \in Seq(Created') /\ Len(<<t>>) = 1 /\ <<t>>[1] = t
    BY <1>3
  <2>2. /\ new \in Seq(Created') /\ Len(new) = 1 + Len(q)
        /\ \A k \in 1 .. 1 + Len(q) : new[k] = IF k <= 1 THEN <<t>>[k] ELSE q[k - 1]
    BY <1>5, <2>1, ConcatProperties
  <2>3. Len(q) \in Nat /\ DOMAIN q = 1 .. Len(q) /\ DOMAIN new = 1 .. Len(new)
    BY <1>5, <2>2, LenProperties
  <2> HIDE DEF new, q, t
  <2>4. DOMAIN new = 1 .. Len(q) + 1 /\ new[1] = t
    BY <2>1, <2>2, <2>3
  <2>5. ASSUME NEW k \in 1 .. Len(q) PROVE new[k + 1] = q[k]
    <3>1. /\ k + 1 \in 1 .. 1 + Len(q) /\ ~ (k + 1 <= 1) /\ (k + 1) - 1 = k
      BY <2>3
    <3>2. QED
      BY <2>2, <3>1
  <2>6. QED
    BY <2>2, <2>3, <2>4, <2>5
<1>7. run_queue'[0] = new /\ DOMAIN run_queue' = Cpu
      /\ \A i \in Cpu \ {0} : run_queue'[i] = run_queue[i]
  BY <1>1, <1>2, <1>3
<1> HIDE DEF new, q, t
<1>8. \A k \in 1 .. Len(q) : q[k] \in Created
  BY <1>5, ElementOfSeq
<1>9. \A k \in DOMAIN new : k = 1 \/ (k - 1 \in 1 .. Len(q) /\ new[k] = q[k - 1])
  BY <1>6
<1>10. TypeOK'
  <2>1. run_queue' \in [Cpu -> Seq(Created')]
    <3>1. ASSUME NEW i \in Cpu PROVE run_queue'[i] \in Seq(Created')
      BY <1>2, <1>4, <1>6, <1>7, SeqMonotonic
    <3>2. run_queue' = [i \in Cpu |-> run_queue'[i]]
      BY <1>1, <1>2
    <3>3. QED
      BY <3>1, <3>2
  <2>2. next_task_id' \in 0 .. MAX_TASKS
    BY <1>1, <1>2, Sizes DEF t
  <2>3. current' \in [Cpu -> Created' \cup {IDLE, NONE}]
    BY <1>1, <1>2, <1>4
  <2>4. time_slice' \in [Task -> 0 .. SLICE] /\ total_runtime' \in [Task -> 0 .. MaxTicks]
    <3>1. SLICE \in 0 .. SLICE /\ 0 \in 0 .. MaxTicks
      BY Sizes
    <3>2. QED
      BY <1>1, <1>2, <3>1
  <2>5. cpu_count' \in 0 .. MAX_CPUS
    BY <1>1 DEF Inv, TypeOK
  <2>6. QED
    BY <2>1, <2>2, <2>3, <2>4, <2>5 DEF TypeOK
<1>11. QueuedAtItsCpu'
  <2>1. cpu_id' \in [Task -> Cpu]
    BY <1>1, <1>2, <1>3
  <2>2. ASSUME NEW u \in Created', NEW i \in Cpu
        PROVE  (\E k \in DOMAIN run_queue'[i] : run_queue'[i][k] = u) <=> i = cpu_id'[u]
    <3>1. CASE u = t
      <4>1. cpu_id'[u] = 0
        BY <1>1, <1>2, <1>3, <3>1
      <4>2. i = 0 => 1 \in DOMAIN run_queue'[i] /\ run_queue'[i][1] = u
        BY <1>6, <1>7, <3>1
      <4>3. ASSUME i # 0, NEW k \in DOMAIN run_queue[i] PROVE run_queue[i][k] # u
        <5>1. run_queue[i] \in Seq(Created)
          BY <1>2
        <5>2. run_queue[i][k] \in Created
          BY <4>3, <5>1, LenProperties, ElementOfSeq
        <5>3. QED
          BY <1>3, <3>1, <5>2
      <4>4. QED
        BY <1>7, <4>1, <4>2, <4>3
    <3>2. CASE u # t
      <4>1. u \in Created /\ u \in Task /\ cpu_id'[u] = cpu_id[u]
        <5>1. u \in Created
          BY <1>4, <3>2
        <5>2. u \in Task
          BY <1>2, <5>1, Sizes DEF Created, Task
        <5>3. QED
          BY <1>1, <1>2, <3>2, <5>1, <5>2
      <4>2. (\E k \in DOMAIN run_queue[i] : run_queue[i][k] = u) <=> i = cpu_id[u]
        BY <4>1 DEF Inv, QueuedAtItsCpu
      <4>3. CASE i = 0
        <5>1. (\E k \in DOMAIN new : new[k] = u) <=> (\E k \in DOMAIN q : q[k] = u)
          <6>1. ASSUME NEW k \in DOMAIN new, new[k] = u
                PROVE  \E m \in DOMAIN q : q[m] = u
            BY <1>6, <1>9, <3>2, <6>1
          <6>2. ASSUME NEW k \in DOMAIN q, q[k] = u
                PROVE  \E m \in DOMAIN new : new[m] = u
            <7>1. k + 1 \in DOMAIN new /\ new[k + 1] = u
              BY <1>6, <6>2
            <7>2. QED
              BY <7>1
          <6>3. QED
            BY <6>1, <6>2
        <5>2. QED
          BY <1>7, <4>1, <4>2, <4>3, <5>1 DEF q
      <4>4. CASE i # 0
        BY <1>7, <4>1, <4>2, <4>4
      <4>5. QED
        BY <4>3, <4>4
    <3>3. QED
      BY <3>1, <3>2
  <2>3. QED
    BY <2>1, <2>2 DEF QueuedAtItsCpu
<1>12. LinkedOnce'
  <2>1. ASSUME NEW k \in DOMAIN new, NEW l \in DOMAIN new, new[k] = new[l]
        PROVE  k = l
    <3>1. ASSUME NEW m \in 1 .. Len(q), NEW n \in 1 .. Len(q), q[m] = q[n] PROVE m = n
      BY <1>3, <1>6, <3>1 DEF q, Inv, LinkedOnce
    <3>2. ASSUME NEW m \in DOMAIN new, m # 1 PROVE new[m] # t
      BY <1>3, <1>8, <1>9, <3>2
    <3>3. CASE k = 1 \/ l = 1
      BY <1>6, <2>1, <3>2, <3>3
    <3>4. CASE k # 1 /\ l # 1
      <4>1. k - 1 = l - 1
        BY <1>9, <2>1, <3>1, <3>4
      <4>2. k \in Int /\ l \in Int
        BY <1>6
      <4>3. QED
        BY <4>1, <4>2
    <3>5. QED
      BY <3>3, <3>4
  <2>2. QED
    BY <1>7, <2>1 DEF Inv, LinkedOnce
<1>13. TimeAccounted'
  BY <1>1, <1>2, <1>3 DEF Inv, TimeAccounted
<1>14. CpusCounted'
  BY <1>1 DEF Inv, CpusCounted
<1>15. QED
  BY <1>10, <1>11, <1>12, <1>13, <1>14 DEF Inv

(* sched_schedule and the rotation of the queue of CPU 0.                  *)
LEMMA ScheduleStep ==
  ASSUME Inv, sched_schedule, UNCHANGED <<boot, acpi_cpu_count>>
  PROVE  Inv'
<1> DEFINE q == run_queue[0]
           rotated == Rotated(q)
<1>1. /\ UNCHANGED <<cpu_count, next_task_id, cpu_id, time_slice, total_runtime, busy>>
      /\ Created' = Created
  BY DEF sched_schedule, pool, Created
<1>2. /\ run_queue \in [Cpu -> Seq(Created)] /\ 0 \in Cpu
      /\ current \in [Cpu -> Created \cup {IDLE, NONE}]
      /\ q \in Seq(Created)
  BY Sizes DEF Inv, TypeOK, Cpu
<1>3. CASE q = <<>>
  <2>1. UNCHANGED run_queue /\ current' = [current EXCEPT ![0] = IDLE]
    BY <1>3 DEF sched_schedule
  <2>2. current' \in [Cpu -> Created' \cup {IDLE, NONE}]
    BY <1>1, <1>2, <2>1
  <2>3. QED
    BY <1>1, <2>1, <2>2 DEF Inv, TypeOK, QueuedAtItsCpu, LinkedOnce, TimeAccounted,
       CpusCounted
<1>4. CASE q # <<>>
  <2>1. /\ current' = [current EXCEPT ![0] = Head(q)]
        /\ run_queue' = [run_queue EXCEPT ![0] = rotated]
    BY <1>4 DEF sched_schedule
  <2> DEFINE n == Len(q)
             from(k) == IF k = n THEN 1 ELSE k + 1
  <2>2. /\ n \in Nat /\ n > 0 /\ Head(q) \in Created /\ rotated \in Seq(Created)
        /\ DOMAIN q = 1 .. n /\ DOMAIN rotated = 1 .. n
        /\ \A k \in 1 .. n : rotated[k] = q[from(k)]
    BY <1>2, <1>4, Rotation
  <2>3. /\ run_queue'[0] = rotated /\ DOMAIN run_queue' = Cpu
        /\ \A i \in Cpu \ {0} : run_queue'[i] = run_queue[i]
    BY <1>2, <2>1
  <2> HIDE DEF q, n, rotated
  <2>4. /\ \A k \in 1 .. n : from(k) \in 1 .. n
        /\ \A k, l \in 1 .. n : from(k) = from(l) => k = l
        /\ \A l \in 1 .. n : \E k \in 1 .. n : from(k) = l
    <3>1. \A k \in 1 .. n : from(k) \in 1 .. n
      BY <2>2
    <3>2. \A k, l \in 1 .. n : from(k) = from(l) => k = l
      BY <2>2
    <3>3. ASSUME NEW l \in 1 .. n PROVE \E k \in 1 .. n : from(k) = l
      <4>1. CASE l = 1
        <5>1. n \in 1 .. n /\ from(n) = 1
          BY <2>2
        <5>2. QED
          BY <4>1, <5>1
      <4>2. CASE l # 1
        <5>1. l - 1 \in 1 .. n /\ from(l - 1) = l
          BY <2>2, <4>2
        <5>2. QED
          BY <5>1
      <4>3. QED
        BY <4>1, <4>2
    <3>4. QED
      BY <3>1, <3>2, <3>3
  <2> HIDE DEF from
  <2>5. TypeOK'
    <3>1. current' \in [Cpu -> Created' \cup {IDLE, NONE}]
      BY <1>1, <1>2, <2>1, <2>2
    <3>2. run_queue' \in [Cpu -> Seq(Created')]
      BY <1>1, <1>2, <2>1, <2>2
    <3>3. QED
      BY <1>1, <3>1, <3>2 DEF Inv, TypeOK
  <2>6. QueuedAtItsCpu'
    <3>1. ASSUME NEW t \in Created
          PROVE  (\E k \in DOMAIN rotated : rotated[k] = t) <=> (\E k \in DOMAIN q : q[k] = t)
      BY <2>2, <2>4
    <3>2. ASSUME NEW t \in Created, NEW i \in Cpu
          PROVE  (\E k \in DOMAIN run_queue'[i] : run_queue'[i][k] = t) <=> i = cpu_id[t]
      <4>1. (\E k \in DOMAIN run_queue[i] : run_queue[i][k] = t) <=> i = cpu_id[t]
        BY DEF Inv, QueuedAtItsCpu
      <4>2. CASE i = 0
        BY <2>3, <3>1, <4>1, <4>2 DEF q
      <4>3. CASE i # 0
        BY <2>3, <4>1, <4>3
      <4>4. QED
        BY <4>2, <4>3
    <3>3. QED
      BY <1>1, <3>2 DEF Inv, QueuedAtItsCpu
  <2>7. LinkedOnce'
    <3>1. ASSUME NEW k \in 1 .. n, NEW l \in 1 .. n, rotated[k] = rotated[l]
          PROVE  k = l
      <4>1. \A a, b \in 1 .. n : q[a] = q[b] => a = b
        BY <1>2, <2>2 DEF Inv, LinkedOnce, q
      <4>2. /\ from(k) \in 1 .. n /\ from(l) \in 1 .. n
            /\ q[from(k)] = q[from(l)]
        BY <2>2, <2>4, <3>1
      <4>3. from(k) = from(l)
        BY <4>1, <4>2
      <4>4. QED
        BY <2>4, <4>3
    <3>2. QED
      BY <2>2, <2>3, <3>1 DEF Inv, LinkedOnce
  <2>8. TimeAccounted' /\ CpusCounted'
    BY <1>1 DEF Inv, TimeAccounted, CpusCounted
  <2>9. QED
    BY <2>5, <2>6, <2>7, <2>8 DEF Inv
<1>5. QED
  BY <1>3, <1>4

(* A tick is charged to the task that runs.                                *)
LEMMA TickStep ==
  ASSUME Inv, sched_tick, UNCHANGED <<boot, acpi_cpu_count>>
  PROVE  Inv'
<1> DEFINE t == current[0]
<1>1. /\ t \in Task /\ busy < MaxTicks /\ busy' = busy + 1
      /\ UNCHANGED <<cpu_count, run_queue, current, next_task_id, cpu_id>>
      /\ \/ /\ time_slice[t] > 0
            /\ time_slice' = [time_slice EXCEPT ![t] = SliceAfter(@)]
            /\ total_runtime' = [total_runtime EXCEPT ![t] = @ + 1]
         \/ UNCHANGED <<time_slice, total_runtime>>
  BY DEF sched_tick
<1>2. /\ time_slice \in [Task -> 0 .. SLICE] /\ total_runtime \in [Task -> 0 .. MaxTicks]
      /\ busy \in 0 .. MaxTicks /\ \A u \in Task : total_runtime[u] <= busy
  BY DEF Inv, TypeOK, TimeAccounted
<1> HIDE DEF t
<1>3. time_slice' \in [Task -> 0 .. SLICE]
  <2>1. \A s \in 0 .. SLICE : s > 0 => SliceAfter(s) \in 0 .. SLICE
    BY Sizes DEF SliceAfter
  <2>2. QED
    BY <1>1, <1>2, <2>1
<1>4. total_runtime' \in [Task -> 0 .. MaxTicks] /\ TimeAccounted'
  <2>1. busy' \in 0 .. MaxTicks
    BY <1>1, <1>2, Sizes
  <2>2. ASSUME NEW u \in Task
        PROVE  total_runtime'[u] \in 0 .. MaxTicks /\ total_runtime'[u] <= busy'
    BY <1>1, <1>2, <2>1, Sizes
  <2>3. total_runtime' = [u \in Task |-> total_runtime'[u]]
    BY <1>1, <1>2
  <2>4. total_runtime' \in [Task -> 0 .. MaxTicks]
    BY <2>2, <2>3
  <2>5. QED
    BY <2>1, <2>2, <2>4 DEF TimeAccounted
<1>5. QED
  BY <1>1, <1>3, <1>4 DEF Inv, TypeOK, CpusCounted, QueuedAtItsCpu, LinkedOnce, Created

(* Steps of the boot and of power management leave the queues alone.       *)
LEMMA QueuesUntouched ==
  ASSUME Inv, CpusCounted', cpu_count' \in {0, 1},
         UNCHANGED <<run_queue, current, pool, busy>>
  PROVE  Inv'
BY Sizes DEF Inv, TypeOK, QueuedAtItsCpu, LinkedOnce, TimeAccounted, Created, pool

-----------------------------------------------------------------------------
(* The theorems                                                            *)

(* In the beginning no task was created.                                   *)
LEMMA InitInv == Init => Inv
<1> SUFFICES ASSUME Init PROVE Inv
  OBVIOUS
<1>1. next_task_id = 0 /\ Created = {}
  BY DEF Init, SchedInit, Created
<1>2. run_queue = [i \in Cpu |-> <<>>] /\ run_queue \in [Cpu -> Seq(Created)]
  BY EmptySeq DEF Init, SchedInit
<1>3. TypeOK
  BY <1>1, <1>2, Sizes DEF Init, SchedInit, TypeOK
<1>4. QueuedAtItsCpu
  BY <1>1, Sizes DEF Init, SchedInit, QueuedAtItsCpu, Cpu
<1>5. LinkedOnce
  BY <1>2 DEF LinkedOnce
<1>6. CpusCounted /\ TimeAccounted
  BY Sizes DEF Init, SchedInit, CpusCounted, TimeAccounted
<1>7. QED
  BY <1>3, <1>4, <1>5, <1>6 DEF Inv

(* Each action keeps the invariant.                                        *)
LEMMA InvStep == Inv /\ [Next]_vars => Inv'
<1> SUFFICES ASSUME Inv, [Next]_vars PROVE Inv'
  OBVIOUS
<1>1. CASE boot_sched
  <2>1. boot = "sched_init" /\ boot' = "acpi_init"
    BY <1>1 DEF boot_sched
  <2>2. cpu_count' = 1
    BY <1>1, <2>1, SchedInitCounts DEF boot_sched, Inv
  <2>3. UNCHANGED <<run_queue, current, pool, busy>>
    BY <1>1 DEF boot_sched, sched_init
  <2>4. QED
    BY <2>1, <2>2, <2>3, QueuesUntouched DEF CpusCounted
<1>2. CASE acpi_init \/ madt_entry \/ madt_end
  <2>1. boot' # "sched_init" /\ UNCHANGED schedVars
    BY <1>2 DEF acpi_init, madt_entry, madt_end
  <2>2. QED
    BY <2>1, QueuesUntouched DEF CpusCounted, Inv, schedVars
<1>3. CASE Power \/ Ask
  <2>1. UNCHANGED <<schedVars, boot, acpi_cpu_count>>
    BY <1>3 DEF Power, Ask, acpi_enable, port604, portB004, port4004, scan_dsdt, s5_pm1a,
       s5_pm1b, guess_pm1a, guess_pm1b, Guess, halt, reset_reg, pulse, cf9, triple_fault,
       wait8042, acpi_shutdown, acpi_reboot, sys_shutdown, sys_reboot, tables
  <2>2. QED
    BY <2>1, QueuesUntouched DEF CpusCounted, Inv, schedVars
<1>4. CASE Scheduled(sched_create_task)
  BY <1>4, CreateStep DEF Scheduled, tables
<1>5. CASE Scheduled(sched_schedule)
  BY <1>5, ScheduleStep DEF Scheduled, tables
<1>6. CASE Scheduled(sched_tick)
  BY <1>6, TickStep DEF Scheduled, tables
<1>7. CASE \E enabled \in BOOLEAN : Scheduled(sched_set_smt_aware(enabled))
  <2>1. UNCHANGED <<run_queue, current, pool, busy, cpu_count, boot, acpi_cpu_count>>
    BY <1>7 DEF Scheduled, tables, sched_set_smt_aware
  <2>2. QED
    BY <2>1, QueuesUntouched DEF CpusCounted, Inv
<1>8. CASE UNCHANGED vars
  <2>1. UNCHANGED <<run_queue, current, pool, busy, cpu_count, boot, acpi_cpu_count>>
    BY <1>8 DEF vars, schedVars, tables
  <2>2. QED
    BY <2>1, QueuesUntouched DEF CpusCounted, Inv
<1>9. QED
  BY <1>1, <1>2, <1>3, <1>4, <1>5, <1>6, <1>7, <1>8 DEF Next, Boot

(* The invariant holds in every reachable state of every machine.          *)
THEOREM Invariance == Spec => []Inv
BY InitInv, InvStep, PTL DEF Spec

(* The queues hold tasks that were created, and no slice or runtime leaves *)
(* its range.                                                              *)
THEOREM TypeCorrect == Spec => []TypeOK
<1>1. Inv => TypeOK
  BY DEF Inv
<1>2. QED
  BY <1>1, Invariance, PTL

(* sched_create_task and the rotation in sched_schedule neither lose a     *)
(* task nor link one twice.                                                *)
THEOREM TasksStayQueued == Spec => []EachTaskQueuedOnce
<1>1. ASSUME Inv PROVE EachTaskQueuedOnce
  <2>1. ASSUME NEW t \in Created, NEW i \in Cpu
        PROVE  Cardinality({k \in DOMAIN run_queue[i] : run_queue[i][k] = t})
                 = IF i = cpu_id[t] THEN 1 ELSE 0
    <3> DEFINE places == {k \in DOMAIN run_queue[i] : run_queue[i][k] = t}
    <3>1. (\E k \in DOMAIN run_queue[i] : run_queue[i][k] = t) <=> i = cpu_id[t]
      BY <1>1 DEF Inv, QueuedAtItsCpu
    <3>2. CASE i = cpu_id[t]
      <4>1. PICK k \in DOMAIN run_queue[i] : run_queue[i][k] = t
        BY <3>1, <3>2
      <4>2. places = {k}
        BY <1>1, <4>1 DEF Inv, LinkedOnce
      <4>3. Cardinality({k}) = 1
        BY FS_Singleton
      <4>4. QED
        BY <3>2, <4>2, <4>3
    <3>3. CASE i # cpu_id[t]
      <4>1. places = {}
        BY <3>1, <3>3
      <4>2. QED
        BY <3>3, <4>1, FS_EmptySet
    <3>4. QED
      BY <3>2, <3>3
  <2>2. QED
    BY <2>1 DEF EachTaskQueuedOnce
<1>2. QED
  BY <1>1, Invariance, PTL

-----------------------------------------------------------------------------
(* Entering and leaving the kernel.                                        *)

(* The registers of interrupted code: what it relies on is there, but al   *)
(* may hold the EOI of an earlier interrupt.                               *)
Kept(r, v) == v = r \/ (r = "al" /\ v = "eoi")

Intact == \A r \in relies : Kept(r, regs[r])

Frame(m) == <<m, "run">>

(* What a register or a place of the stack may hold.                       *)
Mark == {"junk", "eoi", "ret", "rip", "rflags", "kernel_syscall_stack", "none",
         "kernel", "user", "run"}
Word == Reg \cup Mark

(* The stub of an interrupt, which holds what it interrupted on the stack. *)
InInterrupt ==
  \E m \in {"kernel", "user"} :
    \/ stage \in {"push", "eoi", "iret"} /\ stack = Frame(m) /\ Intact
    \/ /\ stage \in {"handler", "pop"}
       /\ Len(stack) = 18 /\ stack[1] = m /\ stack[2] = "run"
       /\ \A i \in 1 .. 16 : IrqPushed[i] \in relies => Kept(IrqPushed[i], stack[2 + i])
       /\ "rsp" \in relies => regs["rsp"] = "rsp"

(* What the program left in a register when it made the call.              *)
AtSyscall(r) == IF r = "rcx" THEN "rip" ELSE IF r = "r11" THEN "rflags" ELSE r

Arguments == {"rdi", "rsi", "rdx", "r10", "r8"}

SavedByCall ==
  /\ Len(stack) = 16 /\ stack[1] = "rsp"
  /\ \A i \in 1 .. 15 : SyscallPushed[i] \notin {"rax", "al"} =>
       stack[1 + i] = AtSyscall(SyscallPushed[i])

InCall ==
  /\ relies = Reg \ {"rax", "al", "rcx", "r11"}
  /\ \/ /\ stage = "save" /\ stack = <<>>
        /\ \A r \in Reg \ {"rax", "al"} : regs[r] = AtSyscall(r)
     \/ /\ stage = "args" /\ SavedByCall
        /\ \A r \in Arguments : regs[r] = r
     \/ /\ stage = "handler" /\ SavedByCall
        /\ regs["rsi"] = "rdi" /\ regs["rdx"] = "rsi" /\ regs["rcx"] = "rdx"
        /\ regs["r8"] = "r10" /\ regs["r9"] = "r8"
     \/ stage = "pop" /\ SavedByCall
     \/ /\ stage = "sysret" /\ stack = <<>>
        /\ \A r \in relies : regs[r] = r

(* Where interrupts are on there is nothing on the stacks, so that neither *)
(* stub is interrupted.                                                    *)
ContextInv ==
  /\ regs \in [Reg -> Word] /\ relies \subseteq Reg
  /\ stack \in Seq(Word) /\ temp_rsp_storage \in Word
  /\ IFlag => mode \in {"kernel", "user"}
  /\ \/ mode \in {"kernel", "user"} /\ stage = "run" /\ stack = <<>> /\ Intact
     \/ mode = "irq" /\ InInterrupt
     \/ mode = "syscall" /\ InCall
     \/ mode = "halted" /\ Len(stack) <= 16

-----------------------------------------------------------------------------
LEMMA Words ==
  /\ Reg \subseteq Word
  /\ {"junk", "eoi", "ret", "rip", "rflags", "kernel_syscall_stack", "none",
      "kernel", "user", "run"} \subseteq Word
  /\ {"rsp", "rcx", "r11", "rax", "al", "rdi", "rbp"} \subseteq Reg
BY DEF Word, Mark, Reg, CallerSaved

LEMMA FrameIs ==
  ASSUME NEW m \in {"kernel", "user"}
  PROVE  /\ Frame(m) \in Seq(Word)
         /\ Len(Frame(m)) = 2 /\ Frame(m)[1] = m /\ Frame(m)[2] = "run"
<1>1. m \in Word /\ "run" \in Word
  BY Words
<1> QED  BY <1>1 DEF Frame

(* The orders in which the stubs push and pop.                             *)

LEMMA IrqOrder ==
  /\ DOMAIN IrqPushed = 1 .. 16 /\ Len(IrqPushed) = 16
  /\ DOMAIN IrqPopped = 1 .. 16 /\ Len(IrqPopped) = 16
  /\ \A i \in 1 .. 16 : IrqPushed[i] \in Reg \ {"rsp"}
  /\ \A i \in 1 .. 16 : IrqPopped[i] = IrqPushed[17 - i]
<1>1. \A i \in 1 .. 16 : IrqPushed[i] \in Reg \ {"rsp"}
  BY DEF IrqPushed, Reg, CallerSaved
<1>2. \A i \in 1 .. 16 : IrqPopped[i] = IrqPushed[17 - i]
  BY DEF IrqPushed, IrqPopped
<1> QED  BY <1>1, <1>2 DEF IrqPushed, IrqPopped

LEMMA IrqDistinct ==
  ASSUME NEW i \in 1 .. 16, NEW j \in 1 .. 16, IrqPopped[i] = IrqPopped[j]
  PROVE  i = j
BY DEF IrqPopped

LEMMA IrqCovers == ASSUME NEW r \in Reg \ {"rsp"} PROVE \E i \in 1 .. 16 : IrqPopped[i] = r
<1> DEFINE Has(x) == \E i \in 1 .. 16 : IrqPopped[i] = x
<1>1. Has("r15") /\ Has("r14") /\ Has("r13") /\ Has("r12") /\ Has("r11") /\ Has("r10")
  BY DEF IrqPopped
<1>2. Has("r9") /\ Has("r8") /\ Has("rdi") /\ Has("rsi") /\ Has("rdx") /\ Has("rcx")
  BY DEF IrqPopped
<1>3. Has("rbx") /\ Has("al") /\ Has("rax") /\ Has("rbp")
  BY DEF IrqPopped
<1> HIDE DEF Has
<1>4. Has(r)
  BY <1>1, <1>2, <1>3 DEF Reg, CallerSaved
<1> QED  BY <1>4 DEF Has

LEMMA IrqRestores ==
  ASSUME regs \in [Reg -> Word]
  PROVE  /\ \A i \in 1 .. 16 : PopInto(IrqPopped)[IrqPopped[i]] = stack[Len(stack) + 1 - i]
         /\ PopInto(IrqPopped)["rsp"] = regs["rsp"]
<1>1. ASSUME NEW i \in 1 .. 16
      PROVE  PopInto(IrqPopped)[IrqPopped[i]] = stack[Len(stack) + 1 - i]
  <2>1. IrqPopped[i] \in Reg
    BY IrqOrder
  <2> DEFINE k == CHOOSE k \in DOMAIN IrqPopped : IrqPopped[k] = IrqPopped[i]
  <2>2. k \in 1 .. 16 /\ IrqPopped[k] = IrqPopped[i]
    BY IrqOrder
  <2>3. k = i
    BY <2>2, IrqDistinct
  <2>4. \E l \in DOMAIN IrqPopped : IrqPopped[l] = IrqPopped[i]
    BY IrqOrder
  <2> QED  BY <2>1, <2>3, <2>4 DEF PopInto
<1>2. PopInto(IrqPopped)["rsp"] = regs["rsp"]
  <2>1. "rsp" \in Reg
    BY DEF Reg
  <2>2. ~ \E l \in DOMAIN IrqPopped : IrqPopped[l] = "rsp"
    BY IrqOrder
  <2> QED  BY <2>1, <2>2 DEF PopInto
<1> QED  BY <1>1, <1>2

LEMMA CallOrder ==
  /\ DOMAIN SyscallPushed = 1 .. 15
  /\ DOMAIN SyscallPopped = 1 .. 12 /\ Len(SyscallPopped) = 12
  /\ \A i \in 1 .. 15 : SyscallPushed[i] \in Reg
  /\ \A i \in 1 .. 12 : /\ SyscallPopped[i] = SyscallPushed[16 - i]
                        /\ SyscallPopped[i] \in Reg \ {"rsp", "rax", "al", "rcx", "r11"}
  /\ SyscallPushed[1] = "r11" /\ SyscallPushed[2] = "rcx"
<1>1. \A i \in 1 .. 15 : SyscallPushed[i] \in Reg
  BY DEF SyscallPushed, Reg, CallerSaved
<1>2. \A i \in 1 .. 12 : SyscallPopped[i] = SyscallPushed[16 - i]
  BY DEF SyscallPushed, SyscallPopped
<1>3. \A i \in 1 .. 12 : SyscallPopped[i] \in Reg \ {"rsp", "rax", "al", "rcx", "r11"}
  BY DEF SyscallPopped, Reg, CallerSaved
<1> QED  BY <1>1, <1>2, <1>3 DEF SyscallPushed, SyscallPopped

LEMMA CallDistinct ==
  ASSUME NEW i \in 1 .. 12, NEW j \in 1 .. 12, SyscallPopped[i] = SyscallPopped[j]
  PROVE  i = j
BY DEF SyscallPopped

LEMMA CallCovers ==
  ASSUME NEW r \in Reg \ {"rsp", "rax", "al", "rcx", "r11"}
  PROVE  \E i \in 1 .. 12 : SyscallPopped[i] = r
<1> DEFINE Has(x) == \E i \in 1 .. 12 : SyscallPopped[i] = x
<1>1. Has("r15") /\ Has("r14") /\ Has("r13") /\ Has("r12") /\ Has("rbp") /\ Has("rbx")
  BY DEF SyscallPopped
<1>2. Has("r9") /\ Has("r8") /\ Has("r10") /\ Has("rdx") /\ Has("rsi") /\ Has("rdi")
  BY DEF SyscallPopped
<1> HIDE DEF Has
<1>3. Has(r)
  BY <1>1, <1>2 DEF Reg, CallerSaved
<1> QED  BY <1>3 DEF Has

LEMMA CallRestores ==
  ASSUME NEW i \in 1 .. 12
  PROVE  PopInto(SyscallPopped)[SyscallPopped[i]] = stack[Len(stack) + 1 - i]
<1>1. SyscallPopped[i] \in Reg
  BY CallOrder
<1> DEFINE k == CHOOSE k \in DOMAIN SyscallPopped : SyscallPopped[k] = SyscallPopped[i]
<1>2. k \in 1 .. 12 /\ SyscallPopped[k] = SyscallPopped[i]
  BY CallOrder
<1>3. k = i
  BY <1>2, CallDistinct
<1>4. \E l \in DOMAIN SyscallPopped : SyscallPopped[l] = SyscallPopped[i]
  BY CallOrder
<1> QED  BY <1>1, <1>3, <1>4 DEF PopInto

-----------------------------------------------------------------------------
(* The invariant is inductive.                                             *)

LEMMA ContextInit == IntrInit => ContextInv
<1> SUFFICES ASSUME IntrInit PROVE ContextInv
  OBVIOUS
<1>1. regs \in [Reg -> Word]
  BY Words DEF IntrInit, Own
<1>2. Intact
  BY DEF IntrInit, Own, Intact, Kept
<1>3. temp_rsp_storage \in Word
  BY Words DEF IntrInit
<1> QED  BY <1>1, <1>2, <1>3 DEF IntrInit, ContextInv

LEMMA InterruptContext ==
  ASSUME ContextInv, NEW n \in Line, interrupt(n)
  PROVE  ContextInv'
<1>1. mode \in {"kernel", "user"} /\ stage = "run" /\ stack = <<>> /\ Intact
  BY DEF ContextInv, interrupt
<1>2. mode' = "irq" /\ stage' = "push" /\ ~IFlag' /\ UNCHANGED <<regs, relies, temp_rsp_storage>>
  BY DEF interrupt
<1>3. stack' = Frame(mode)
  <2>1. stack' = <<>> \o <<mode, stage>>
    BY <1>1 DEF interrupt
  <2>2. <<mode, stage>> \in Seq(Word)
    <3>1. mode \in Word /\ stage \in Word
      BY <1>1, Words
    <3> QED  BY <3>1
  <2> QED  BY <1>1, <2>1, <2>2 DEF Frame
<1>4. Intact'
  BY <1>1, <1>2 DEF Intact
<1>5. InInterrupt'
  BY <1>1, <1>2, <1>3, <1>4 DEF InInterrupt, Frame
<1>6. stack' \in Seq(Word)
  <2>1. mode \in Word /\ "run" \in Word
    BY <1>1, Words
  <2> QED  BY <1>3, <2>1 DEF Frame
<1> QED  BY <1>2, <1>5, <1>6 DEF ContextInv

LEMMA PushContext == ASSUME ContextInv, irq_push PROVE ContextInv'
<1>1. mode = "irq" /\ stage = "push" /\ stage' = "handler" /\ ~IFlag
      /\ UNCHANGED <<mode, IFlag, regs, relies, temp_rsp_storage>>
  BY DEF irq_push, Step, ContextInv
<1>2. PICK m \in {"kernel", "user"} : stack = Frame(m) /\ Intact
  BY <1>1 DEF ContextInv, InInterrupt
<1> DEFINE saved == [i \in DOMAIN IrqPushed |-> regs[IrqPushed[i]]]
<1>3. saved \in Seq(Word) /\ Len(saved) = 16 /\ \A i \in 1 .. 16 : saved[i] = regs[IrqPushed[i]]
  <2>1. \A i \in 1 .. 16 : regs[IrqPushed[i]] \in Word
    BY IrqOrder DEF ContextInv
  <2>2. saved \in [1 .. 16 -> Word]
    BY <2>1, IrqOrder
  <2> QED  BY <2>2, IrqOrder
<1>4. stack' = stack \o saved
  BY DEF irq_push, Push
<1> HIDE DEF saved
<1>5. stack' \in Seq(Word) /\ Len(stack') = 18 /\ stack'[1] = m /\ stack'[2] = "run"
      /\ \A i \in 1 .. 16 : stack'[2 + i] = saved[i]
  <2>1. stack \in Seq(Word) /\ Len(stack) = 2 /\ stack[1] = m /\ stack[2] = "run"
    BY <1>2, FrameIs
  <2>2. /\ stack \o saved \in Seq(Word)
        /\ Len(stack \o saved) = Len(stack) + Len(saved)
        /\ \A i \in 1 .. Len(stack) + Len(saved) :
             (stack \o saved)[i] = IF i <= Len(stack) THEN stack[i] ELSE saved[i - Len(stack)]
    <3>1. stack \in Seq(Word) /\ saved \in Seq(Word)
      BY <1>3, <2>1
    <3> QED  BY <3>1, ConcatProperties
  <2>3. /\ stack' \in Seq(Word) /\ Len(stack') = 18
        /\ \A i \in 1 .. 18 : stack'[i] = IF i <= 2 THEN stack[i] ELSE saved[i - 2]
    <3> DEFINE all == stack \o saved
    <3>1. all = stack'
      BY <1>4
    <3>2. /\ all \in Seq(Word) /\ Len(all) = Len(stack) + Len(saved)
          /\ \A i \in 1 .. Len(stack) + Len(saved) :
               all[i] = IF i <= Len(stack) THEN stack[i] ELSE saved[i - Len(stack)]
      BY <2>2
    <3> HIDE DEF all
    <3>3. Len(stack) = 2 /\ Len(saved) = 16 /\ Len(stack) + Len(saved) = 18
      BY <1>3, <2>1
    <3> QED  BY <3>1, <3>2, <3>3
  <2> QED  BY <2>1, <2>3
<1>6. "rsp" \in relies => regs["rsp"] = "rsp"
  BY <1>2 DEF Intact, Kept
<1>7. \A i \in 1 .. 16 : IrqPushed[i] \in relies => Kept(IrqPushed[i], stack'[2 + i])
  BY <1>2, <1>3, <1>5 DEF Intact
<1>8. InInterrupt'
  BY <1>1, <1>5, <1>6, <1>7 DEF InInterrupt
<1> QED  BY <1>1, <1>5, <1>8 DEF ContextInv

LEMMA HandlerContext == ASSUME ContextInv, irq_handler PROVE ContextInv'
<1>1. mode = "irq" /\ stage = "handler" /\ stage' = "pop" /\ ~IFlag /\ regs' = Clobbered
      /\ UNCHANGED <<mode, IFlag, stack, relies, temp_rsp_storage>>
  BY DEF irq_handler, Step, ContextInv
<1>2. regs' \in [Reg -> Word] /\ regs'["rsp"] = regs["rsp"]
  <2>1. "junk" \in Word /\ "rsp" \in Reg /\ "rsp" \notin CallerSaved /\ regs \in [Reg -> Word]
    BY Words DEF CallerSaved, ContextInv
  <2> QED  BY <1>1, <2>1 DEF Clobbered
<1>3. InInterrupt
  BY <1>1 DEF ContextInv
<1>4. InInterrupt'
  BY <1>1, <1>2, <1>3 DEF InInterrupt
<1> QED  BY <1>1, <1>2, <1>4 DEF ContextInv

LEMMA PopContext == ASSUME ContextInv, irq_pop PROVE ContextInv'
<1>1. mode = "irq" /\ stage = "pop" /\ stage' = "eoi" /\ ~IFlag
      /\ regs' = PopInto(IrqPopped) /\ stack' = Left(16)
      /\ UNCHANGED <<mode, IFlag, relies, temp_rsp_storage>>
  BY IrqOrder DEF irq_pop, Step, ContextInv
<1>2. PICK m \in {"kernel", "user"} :
         /\ Len(stack) = 18 /\ stack[1] = m /\ stack[2] = "run"
         /\ \A i \in 1 .. 16 : IrqPushed[i] \in relies => Kept(IrqPushed[i], stack[2 + i])
         /\ "rsp" \in relies => regs["rsp"] = "rsp"
  BY <1>1 DEF ContextInv, InInterrupt
<1>3. stack \in Seq(Word) /\ regs \in [Reg -> Word] /\ relies \subseteq Reg
  BY DEF ContextInv
<1>4. stack' = Frame(m) /\ stack' \in Seq(Word)
  <2>1. stack' = SubSeq(stack, 1, 2)
    BY <1>1, <1>2 DEF Left
  <2>2. Len(stack') = 2 /\ stack'[1] = m /\ stack'[2] = "run" /\ stack' \in Seq(Word)
    <3>1. \A i \in 1 .. 2 : stack[i] \in Word
      <4>1. \A i \in 1 .. 2 : i \in 1 .. Len(stack)
        BY <1>2
      <4> QED  BY <1>3, <4>1, ElementOfSeq
    <3> DEFINE top == SubSeq(stack, 1, 2)
    <3>2. top \in Seq(Word) /\ Len(top) = 2 /\ \A i \in 1 .. 2 : top[i] = stack[1 + i - 1]
      BY <3>1, SubSeqProperties
    <3> HIDE DEF top
    <3>3. top[1] = stack[1] /\ top[2] = stack[2]
      BY <3>2
    <3>4. stack' = top
      BY <2>1 DEF top
    <3> QED  BY <1>2, <3>2, <3>3, <3>4
  <2>3. Frame(m) \in Seq(Word) /\ Len(Frame(m)) = 2 /\ Frame(m)[1] = m /\ Frame(m)[2] = "run"
    BY FrameIs
  <2>4. \A i \in 1 .. 2 : stack'[i] = Frame(m)[i]
    <3>1. \A i \in 1 .. 2 : i = 1 \/ i = 2
      OBVIOUS
    <3> QED  BY <2>2, <2>3, <3>1
  <2> QED  BY <2>2, <2>3, <2>4, SeqEqual
<1>5. \A i \in 1 .. 16 : regs'[IrqPopped[i]] = stack[19 - i]
  <2>1. \A i \in 1 .. 16 : regs'[IrqPopped[i]] = stack[Len(stack) + 1 - i]
    BY <1>1, <1>3, IrqRestores
  <2>2. Len(stack) + 1 = 19
    BY <1>2
  <2>3. \A i \in 1 .. 16 : Len(stack) + 1 - i = 19 - i
    BY <1>2
  <2> QED  BY <2>1, <2>3
<1>6. regs'["rsp"] = regs["rsp"]
  BY <1>1, <1>3, IrqRestores
<1>7. regs' \in [Reg -> Word]
  <2>1. regs' = [r \in Reg |-> regs'[r]]
    BY <1>1 DEF PopInto
  <2>2. ASSUME NEW r \in Reg PROVE regs'[r] \in Word
    <3>1. CASE r = "rsp"
      BY <1>3, <1>6, <3>1
    <3>2. CASE r # "rsp"
      <4>1. PICK i \in 1 .. 16 : IrqPopped[i] = r
        BY <3>2, IrqCovers
      <4>2. 19 - i \in 1 .. Len(stack)
        BY <1>2
      <4>3. stack[19 - i] \in Word
        BY <1>3, <4>2, ElementOfSeq
      <4> QED  BY <1>5, <4>1, <4>3
    <3> QED  BY <3>1, <3>2
  <2> QED  BY <2>1, <2>2
<1>8. Intact'
  <2> SUFFICES ASSUME NEW r \in relies PROVE Kept(r, regs'[r])
    BY <1>1 DEF Intact
  <2>1. CASE r = "rsp"
    BY <1>2, <1>6, <2>1 DEF Kept
  <2>2. CASE r # "rsp"
    <3>1. PICK i \in 1 .. 16 : IrqPopped[i] = r
      BY <1>3, <2>2, IrqCovers
    <3>2. IrqPushed[17 - i] = r
      BY <3>1, IrqOrder
    <3>3. Kept(r, stack[2 + (17 - i)])
      BY <1>2, <3>2
    <3> QED  BY <1>5, <3>1, <3>3
  <2> QED  BY <2>1, <2>2
<1>9. InInterrupt'
  BY <1>1, <1>4, <1>8 DEF InInterrupt, Frame
<1> QED  BY <1>1, <1>3, <1>4, <1>7, <1>9 DEF ContextInv

LEMMA EoiContext == ASSUME ContextInv, irq_eoi PROVE ContextInv'
<1>1. mode = "irq" /\ stage = "eoi" /\ stage' = "iret" /\ ~IFlag
      /\ regs' = [regs EXCEPT !["al"] = "eoi"]
      /\ UNCHANGED <<mode, IFlag, relies, stack, temp_rsp_storage>>
  BY DEF irq_eoi, Step, ContextInv
<1>2. PICK m \in {"kernel", "user"} : stack = Frame(m) /\ Intact
  BY <1>1 DEF ContextInv, InInterrupt
<1>3. regs \in [Reg -> Word] /\ relies \subseteq Reg
  BY DEF ContextInv
<1>4. regs' \in [Reg -> Word]
  BY <1>1, <1>3, Words
<1>5. Intact'
  BY <1>1, <1>2, <1>3 DEF Intact, Kept
<1>6. InInterrupt'
  BY <1>1, <1>2, <1>5 DEF InInterrupt, Frame
<1> QED  BY <1>1, <1>4, <1>6 DEF ContextInv

LEMMA IretContext == ASSUME ContextInv, irq_iret PROVE ContextInv'
<1>1. mode = "irq" /\ stage = "iret" /\ UNCHANGED <<regs, relies, temp_rsp_storage>>
  BY DEF irq_iret
<1>2. PICK m \in {"kernel", "user"} : stack = Frame(m) /\ Intact
  BY <1>1 DEF ContextInv, InInterrupt
<1>3. mode' = m /\ stage' = "run" /\ stack' = <<>>
  <2>1. Len(stack) = 2 /\ stack[1] = m /\ stack[2] = "run" /\ stack \in Seq(Word)
    BY <1>2, FrameIs
  <2>2. mode' = m /\ stage' = "run"
    BY <2>1 DEF irq_iret
  <2>3. Left(2) = <<>>
    BY <2>1 DEF Left
  <2> QED  BY <2>2, <2>3 DEF irq_iret
<1>4. Intact'
  BY <1>1, <1>2 DEF Intact
<1>5. <<>> \in Seq(Word)
  OBVIOUS
<1> QED  BY <1>1, <1>3, <1>4, <1>5 DEF ContextInv

LEMMA SyscallContext == ASSUME ContextInv, SYSCALL PROVE ContextInv'
<1>1. mode = "user" /\ stage = "run" /\ relies = Reg /\ mode' = "syscall" /\ stage' = "save" /\ ~IFlag'
      /\ regs' = [regs EXCEPT !["rcx"] = "rip", !["r11"] = "rflags"]
      /\ relies' = Reg \ {"rax", "al", "rcx", "r11"}
      /\ UNCHANGED <<stack, temp_rsp_storage>>
  BY DEF SYSCALL
<1>2. stack = <<>> /\ Intact
  BY <1>1 DEF ContextInv
<1>3. regs \in [Reg -> Word] /\ "rcx" \in Reg /\ "r11" \in Reg
  BY DEF ContextInv, Reg, CallerSaved
<1>4. \A r \in Reg \ {"rax", "al"} : regs'[r] = AtSyscall(r)
  BY <1>1, <1>2, <1>3 DEF Intact, Kept, AtSyscall
<1>5. InCall'
  BY <1>1, <1>2, <1>4 DEF InCall
<1>6. regs' \in [Reg -> Word]
  BY <1>1, <1>3, Words
<1> QED  BY <1>1, <1>5, <1>6 DEF ContextInv

LEMMA SaveContext == ASSUME ContextInv, syscall_save PROVE ContextInv'
<1>1. mode = "syscall" /\ stage = "save" /\ stage' = "args" /\ ~IFlag
      /\ temp_rsp_storage' = regs["rsp"] /\ regs' = [regs EXCEPT !["rsp"] = "kernel_syscall_stack"]
      /\ UNCHANGED <<mode, IFlag, relies>>
  BY DEF syscall_save, Step, ContextInv
<1>2. InCall /\ regs \in [Reg -> Word]
  BY <1>1 DEF ContextInv
<1>3. \A r \in Reg \ {"rax", "al"} : regs[r] = AtSyscall(r)
  BY <1>1, <1>2 DEF InCall
<1> DEFINE saved == [i \in DOMAIN SyscallPushed |-> regs[SyscallPushed[i]]]
<1>4. saved \in Seq(Word) /\ Len(saved) = 15
      /\ \A i \in 1 .. 15 : saved[i] = regs[SyscallPushed[i]]
  <2>1. \A i \in 1 .. 15 : regs[SyscallPushed[i]] \in Word
    BY <1>2, CallOrder
  <2>2. saved \in [1 .. 15 -> Word]
    BY <2>1, CallOrder
  <2> QED  BY <2>2, CallOrder
<1>5. stack' = <<regs["rsp"]>> \o saved
  BY <1>1 DEF syscall_save
<1> HIDE DEF saved
<1>6. regs["rsp"] = "rsp"
  BY <1>3 DEF AtSyscall, Reg, CallerSaved
<1>7. stack' \in Seq(Word) /\ Len(stack') = 16 /\ stack'[1] = "rsp"
      /\ \A i \in 1 .. 15 : stack'[1 + i] = saved[i]
  <2>1. <<"rsp">> \in Seq(Word) /\ Len(<<"rsp">>) = 1 /\ <<"rsp">>[1] = "rsp"
    <3>1. "rsp" \in Word
      BY Words
    <3> QED  BY <3>1
  <2> DEFINE top == <<"rsp">>
  <2>2. stack' = top \o saved
    BY <1>5, <1>6
  <2>3. top \in Seq(Word) /\ Len(top) = 1 /\ top[1] = "rsp"
    BY <2>1
  <2> HIDE DEF top
  <2>4. /\ top \o saved \in Seq(Word)
        /\ Len(top \o saved) = Len(top) + Len(saved)
        /\ \A i \in 1 .. Len(top) + Len(saved) :
             (top \o saved)[i] = IF i <= Len(top) THEN top[i] ELSE saved[i - Len(top)]
    <3>1. top \in Seq(Word) /\ saved \in Seq(Word)
      BY <1>4, <2>3
    <3> QED  BY <3>1, ConcatProperties
  <2>5. /\ stack' \in Seq(Word) /\ Len(stack') = 16
        /\ \A i \in 1 .. 16 : stack'[i] = IF i <= 1 THEN top[i] ELSE saved[i - 1]
    <3> DEFINE all == top \o saved
    <3>1. all = stack'
      BY <2>2
    <3>2. /\ all \in Seq(Word) /\ Len(all) = Len(top) + Len(saved)
          /\ \A i \in 1 .. Len(top) + Len(saved) :
               all[i] = IF i <= Len(top) THEN top[i] ELSE saved[i - Len(top)]
      BY <2>4
    <3> HIDE DEF all
    <3>3. Len(top) = 1 /\ Len(saved) = 15 /\ Len(top) + Len(saved) = 16
      BY <1>4, <2>3
    <3> QED  BY <3>1, <3>2, <3>3
  <2> QED  BY <1>4, <2>3, <2>5
<1>8. SavedByCall'
  <2>1. \A i \in 1 .. 15 : SyscallPushed[i] \notin {"rax", "al"} =>
          stack'[1 + i] = AtSyscall(SyscallPushed[i])
    BY <1>3, <1>4, <1>7, CallOrder
  <2> QED  BY <1>7, <2>1 DEF SavedByCall
<1>9. \A r \in Arguments : regs'[r] = r
  BY <1>1, <1>2, <1>3 DEF Arguments, AtSyscall, Reg, CallerSaved
<1>10. InCall'
  BY <1>1, <1>2, <1>8, <1>9 DEF InCall
<1>11. regs' \in [Reg -> Word] /\ temp_rsp_storage' \in Word
  BY <1>1, <1>2, <1>6, Words
<1> QED  BY <1>1, <1>7, <1>10, <1>11, <1>2 DEF ContextInv

LEMMA ArgsContext == ASSUME ContextInv, syscall_args PROVE ContextInv'
<1>1. mode = "syscall" /\ stage = "args" /\ stage' = "handler" /\ ~IFlag /\ regs' = ArgsMoved
      /\ UNCHANGED <<mode, IFlag, relies, stack, temp_rsp_storage>>
  BY DEF syscall_args, Step, ContextInv
<1>2. InCall /\ regs \in [Reg -> Word]
  BY <1>1 DEF ContextInv
<1>3. SavedByCall /\ \A r \in Arguments : regs[r] = r
  BY <1>1, <1>2 DEF InCall
<1>4. Arguments \cup {"r9", "rcx", "rax"} \subseteq Reg
  BY DEF Arguments, Reg, CallerSaved
<1>5. regs' \in [Reg -> Word]
      /\ regs'["rsi"] = "rdi" /\ regs'["rdx"] = "rsi" /\ regs'["rcx"] = "rdx"
      /\ regs'["r8"] = "r10" /\ regs'["r9"] = "r8"
  BY <1>1, <1>2, <1>3, <1>4 DEF ArgsMoved, Move, Arguments
<1>6. SavedByCall'
  BY <1>1, <1>3 DEF SavedByCall
<1>7. InCall'
  BY <1>1, <1>2, <1>5, <1>6 DEF InCall
<1> QED  BY <1>1, <1>5, <1>7 DEF ContextInv

LEMMA CallContext == ASSUME ContextInv, syscall_handler PROVE ContextInv'
<1>1. mode = "syscall" /\ stage = "handler" /\ stage' = "pop" /\ ~IFlag
      /\ regs' = [Clobbered EXCEPT !["rax"] = "ret", !["al"] = "ret"]
      /\ UNCHANGED <<mode, IFlag, relies, stack, temp_rsp_storage>>
  BY DEF syscall_handler, Step, ContextInv
<1>2. InCall /\ regs \in [Reg -> Word]
  BY <1>1 DEF ContextInv
<1>3. Clobbered \in [Reg -> Word]
  BY <1>2, Words DEF Clobbered
<1>4. regs' \in [Reg -> Word]
  BY <1>1, <1>3, Words
<1>5. SavedByCall'
  BY <1>1, <1>2 DEF InCall, SavedByCall
<1>6. InCall'
  BY <1>1, <1>2, <1>5 DEF InCall
<1> QED  BY <1>1, <1>4, <1>6 DEF ContextInv

LEMMA CallPopContext == ASSUME ContextInv, syscall_pop PROVE ContextInv'
<1> DEFINE popped == PopInto(SyscallPopped)
<1>1. mode = "syscall" /\ stage = "pop" /\ stage' = "sysret" /\ ~IFlag /\ stack' = <<>>
      /\ regs' = [popped EXCEPT !["rcx"] = stack[Len(stack) - 12 - 1],
                                !["r11"] = stack[Len(stack) - 12 - 2],
                                !["rsp"] = stack[Len(stack) - 12 - 3]]
      /\ UNCHANGED <<mode, IFlag, relies, temp_rsp_storage>>
  BY CallOrder DEF syscall_pop, Step, ContextInv
<1>2. InCall /\ regs \in [Reg -> Word] /\ stack \in Seq(Word)
  BY <1>1 DEF ContextInv
<1>3. SavedByCall /\ relies = Reg \ {"rax", "al", "rcx", "r11"}
  BY <1>1, <1>2 DEF InCall
<1>4. Len(stack) = 16 /\ stack[1] = "rsp" /\ stack[2] = "rflags" /\ stack[3] = "rip"
  <2>1. stack[1 + 1] = AtSyscall(SyscallPushed[1]) /\ stack[1 + 2] = AtSyscall(SyscallPushed[2])
    BY <1>3, CallOrder DEF SavedByCall
  <2> QED  BY <1>3, <2>1, CallOrder DEF SavedByCall, AtSyscall
<1>5. DOMAIN popped = Reg
  BY DEF PopInto
<1>6. ASSUME NEW i \in 1 .. 12 PROVE popped[SyscallPopped[i]] = SyscallPopped[i]
  <2>1. popped[SyscallPopped[i]] = stack[17 - i]
    BY <1>4, CallRestores
  <2>2. SyscallPopped[i] = SyscallPushed[16 - i]
        /\ SyscallPopped[i] \notin {"rax", "al", "rcx", "r11"}
    BY CallOrder
  <2>3. stack[1 + (16 - i)] = AtSyscall(SyscallPushed[16 - i])
    BY <1>3, <2>2 DEF SavedByCall
  <2> QED  BY <2>1, <2>2, <2>3 DEF AtSyscall
<1>7. ASSUME NEW r \in Reg \ {"rsp", "rax", "al", "rcx", "r11"} PROVE popped[r] = r
  <2>1. PICK i \in 1 .. 12 : SyscallPopped[i] = r
    BY CallCovers
  <2> QED  BY <1>6, <2>1
<1>8. ASSUME NEW r \in {"rax", "al"} PROVE popped[r] = regs[r]
  <2>1. r \in Reg /\ ~ \E i \in DOMAIN SyscallPopped : SyscallPopped[i] = r
    BY CallOrder DEF Reg, CallerSaved
  <2> QED  BY <2>1 DEF PopInto
<1> HIDE DEF popped
<1>9. "rcx" \in Reg /\ "r11" \in Reg /\ "rsp" \in Reg /\ "rax" \in Reg /\ "al" \in Reg
  BY DEF Reg, CallerSaved
<1>10. /\ DOMAIN regs' = Reg /\ regs' = [r \in Reg |-> regs'[r]]
       /\ regs'["rcx"] = "rip" /\ regs'["r11"] = "rflags" /\ regs'["rsp"] = "rsp"
       /\ \A r \in Reg \ {"rcx", "r11", "rsp"} : regs'[r] = popped[r]
  <2>1. Len(stack) - 12 - 1 = 3 /\ Len(stack) - 12 - 2 = 2 /\ Len(stack) - 12 - 3 = 1
    BY <1>4
  <2>2. regs' = [popped EXCEPT !["rcx"] = "rip", !["r11"] = "rflags", !["rsp"] = "rsp"]
    BY <1>1, <1>4, <2>1
  <2>3. popped = [r \in Reg |-> popped[r]]
    BY DEF popped, PopInto
  <2> QED  BY <1>5, <1>9, <2>2, <2>3
<1>11. \A r \in Reg : regs'[r] \in Word
  <2> SUFFICES ASSUME NEW r \in Reg PROVE regs'[r] \in Word
    OBVIOUS
  <2>1. CASE r \in {"rcx", "r11", "rsp"}
    BY <1>10, <2>1, Words
  <2>2. CASE r \in {"rax", "al"}
    BY <1>2, <1>8, <1>10, <2>2
  <2>3. CASE r \notin {"rcx", "r11", "rsp", "rax", "al"}
    BY <1>7, <1>10, <2>3, Words
  <2> QED  BY <2>1, <2>2, <2>3
<1>12. \A r \in relies' : regs'[r] = r
  BY <1>1, <1>3, <1>7, <1>10
<1>13. InCall'
  BY <1>1, <1>3, <1>12 DEF InCall
<1>14. regs' \in [Reg -> Word]
  BY <1>10, <1>11
<1>15. relies' \subseteq Reg /\ stack' \in Seq(Word) /\ temp_rsp_storage' \in Word
  BY <1>1, <1>3 DEF ContextInv
<1> QED  BY <1>1, <1>13, <1>14, <1>15 DEF ContextInv

LEMMA SysretContext == ASSUME ContextInv, sysret PROVE ContextInv'
<1>1. mode = "syscall" /\ stage = "sysret" /\ stage' = "run" /\ mode' = "user"
      /\ UNCHANGED <<regs, relies, stack, temp_rsp_storage>>
  BY DEF sysret, Step
<1>2. stack = <<>> /\ \A r \in relies : regs[r] = r
  BY <1>1 DEF ContextInv, InCall
<1>3. Intact'
  BY <1>1, <1>2 DEF Intact, Kept
<1> QED  BY <1>1, <1>2, <1>3 DEF ContextInv

LEMMA StartContext == ASSUME ContextInv, start_program PROVE ContextInv'
<1>1. mode' = "user" /\ stage' = "run" /\ stack' = <<>> /\ relies' = {"rsp", "rdi", "rbp"}
      /\ regs' = [r \in Reg |-> IF r \in {"rsp", "rdi", "rbp"} THEN r ELSE "junk"]
      /\ UNCHANGED temp_rsp_storage
  BY DEF start_program
<1>2. Intact' /\ relies' \subseteq Reg /\ regs' \in [Reg -> Word] /\ stack' \in Seq(Word)
  BY <1>1, Words DEF Intact, Kept
<1> QED  BY <1>1, <1>2 DEF ContextInv

LEMMA RunContext == ASSUME ContextInv, code_runs PROVE ContextInv'
<1>1. mode \in {"user", "kernel"} /\ stage = "run" /\ regs' = Own /\ relies' = Reg
      /\ UNCHANGED <<mode, stage, IFlag, stack, temp_rsp_storage>>
  BY DEF code_runs
<1>2. Intact' /\ regs' \in [Reg -> Word]
  BY <1>1, Words DEF Intact, Kept, Own
<1> QED  BY <1>1, <1>2 DEF ContextInv

LEMMA StopContext == ASSUME ContextInv, stop PROVE ContextInv'
<1>1. mode' = "halted" /\ ~IFlag' /\ UNCHANGED <<regs, relies, stack, temp_rsp_storage>>
  BY DEF stop
<1>2. CASE mode \in {"kernel", "user"}
  <2>1. stack = <<>>
    BY <1>2 DEF ContextInv
  <2>2. Len(stack) <= 16
    BY <2>1
  <2> QED  BY <1>1, <2>2 DEF ContextInv
<1>3. CASE mode = "syscall" /\ stage = "handler"
  <2>1. Len(stack) <= 16
    <3>1. InCall
      BY <1>3 DEF ContextInv
    <3>2. SavedByCall
      BY <1>3, <3>1 DEF InCall
    <3>3. Len(stack) = 16
      BY <3>2 DEF SavedByCall
    <3> QED  BY <3>3
  <2> QED  BY <1>1, <2>1 DEF ContextInv
<1> QED  BY <1>2, <1>3 DEF stop

(* What touches neither registers nor stack.                               *)
LEMMA AsideContext ==
  ASSUME ContextInv, UNCHANGED <<mode, stage, regs, relies, stack, temp_rsp_storage>>,
         IFlag' => IFlag \/ mode = "kernel"
  PROVE  ContextInv'
<1>1. Intact' <=> Intact
  BY DEF Intact
<1>2. InInterrupt' <=> InInterrupt
  BY <1>1 DEF InInterrupt
<1>3. InCall' <=> InCall
  BY DEF InCall, SavedByCall
<1> QED  BY <1>1, <1>2, <1>3 DEF ContextInv

LEMMA ContextStep == ContextInv /\ [IntrNext]_intrVars => ContextInv'
<1> SUFFICES ASSUME ContextInv, [IntrNext]_intrVars PROVE ContextInv'
  OBVIOUS
<1>1. CASE UNCHANGED intrVars
  BY <1>1, AsideContext DEF intrVars
<1>2. CASE \E n \in Line : interrupt(n)
  BY <1>2, InterruptContext
<1>3. CASE \E n \in Line : request_irq(n)
  BY <1>3, AsideContext DEF request_irq
<1>4. CASE Stubs
  BY <1>4, PushContext, HandlerContext, PopContext, EoiContext, IretContext, SaveContext,
     ArgsContext, CallPopContext, SysretContext DEF Stubs
<1>5. CASE SYSCALL \/ syscall_handler
  BY <1>5, SyscallContext, CallContext
<1>6. CASE code_runs \/ start_program \/ stop
  BY <1>6, RunContext, StartContext, StopContext
<1>7. CASE kernel_sti
  BY <1>7, AsideContext DEF kernel_sti
<1>8. CASE \E ticks \in 0 .. MaxSleep : timer_sleep_ms(ticks)
  BY <1>8, AsideContext DEF timer_sleep_ms
<1>9. CASE sleep_over
  BY <1>9, AsideContext DEF sleep_over
<1> QED  BY <1>1, <1>2, <1>3, <1>4, <1>5, <1>6, <1>7, <1>8, <1>9 DEF IntrNext

LEMMA ContextInvariance == IntrSpec => []ContextInv
<1> QED  BY ContextInit, ContextStep, PTL DEF IntrSpec

(* Interrupted code and callers of system calls go on with the registers   *)
(* they rely on, whatever came in between.                                 *)
THEOREM ContextKept == IntrSpec => []ContextPreserved
<1>1. ContextInv => ContextPreserved
  <2> SUFFICES ASSUME ContextInv PROVE ContextPreserved
    OBVIOUS
  <2>1. ASSUME Running PROVE stack = <<>> /\ Intact
    BY <2>1 DEF Running, ContextInv
  <2>2. ASSUME mode = "syscall", stage = "handler"
        PROVE  <<regs["rsi"], regs["rdx"], regs["rcx"], regs["r8"], regs["r9"]>>
                 = <<"rdi", "rsi", "rdx", "r10", "r8">>
    BY <2>2 DEF ContextInv, InCall
  <2> QED  BY <2>1, <2>2 DEF ContextPreserved, Intact, Kept
<1> QED  BY <1>1, ContextInvariance, PTL

(* Lines keep their range, and the stubs never put more on their stacks    *)
(* than one interrupt, or one system call.                                 *)
THEOREM IntrTypeCorrect == IntrSpec => []IntrTypeOK
<1> DEFINE Lines == irr \subseteq Line /\ isr \subseteq Line
<1>1. IntrInit => Lines
  BY DEF IntrInit
<1>2. Lines /\ [IntrNext]_intrVars => Lines'
  <2> SUFFICES ASSUME Lines, [IntrNext]_intrVars PROVE Lines'
    OBVIOUS
  <2>1. CASE UNCHANGED intrVars
    BY <2>1 DEF intrVars, pic
  <2>2. CASE \E n \in Line : interrupt(n) \/ request_irq(n)
    BY <2>2 DEF interrupt, request_irq
  <2>3. CASE Stubs
    BY <2>3 DEF Stubs, irq_push, irq_handler, irq_pop, irq_eoi, irq_iret,
                syscall_save, syscall_args, syscall_pop, sysret, pic
  <2>4. CASE SYSCALL \/ syscall_handler \/ code_runs \/ kernel_sti \/ start_program \/ stop
    BY <2>4 DEF SYSCALL, syscall_handler, code_runs, kernel_sti, start_program, stop, pic
  <2>5. CASE sleep_over \/ \E ticks \in 0 .. MaxSleep : timer_sleep_ms(ticks)
    BY <2>5 DEF sleep_over, timer_sleep_ms, pic
  <2> QED  BY <2>1, <2>2, <2>3, <2>4, <2>5 DEF IntrNext
<1>3. ContextInv /\ Lines => IntrTypeOK
  <2> SUFFICES ASSUME ContextInv, Lines PROVE IntrTypeOK
    OBVIOUS
  <2>1. mode \in {"kernel", "user", "syscall", "irq", "halted"} /\ relies \subseteq Reg
    BY DEF ContextInv
  <2>2. Len(stack) <= 18
    <3>1. CASE stack = <<>>
      BY <3>1
    <3>2. ASSUME NEW m \in {"kernel", "user"}, stack = Frame(m) PROVE Len(stack) <= 18
      <4>1. Len(Frame(m)) = 2
        BY FrameIs
      <4> QED  BY <3>2, <4>1
    <3>3. CASE mode = "irq" /\ InInterrupt
      <4>1. PICK m \in {"kernel", "user"} : stack = Frame(m) \/ Len(stack) = 18
        BY <3>3 DEF InInterrupt
      <4>2. CASE Len(stack) = 18
        BY <4>2
      <4> QED  BY <3>2, <4>1, <4>2
    <3>4. CASE mode = "syscall" /\ InCall
      <4>1. stack = <<>> \/ Len(stack) = 16
        BY <3>4 DEF InCall, SavedByCall
      <4>2. CASE Len(stack) = 16
        BY <4>2
      <4> QED  BY <3>1, <4>1, <4>2
    <3>5. CASE mode = "halted" /\ Len(stack) <= 16
      <4>1. Len(stack) \in Nat
        BY DEF ContextInv
      <4> QED  BY <3>5, <4>1
    <3> QED  BY <3>1, <3>3, <3>4, <3>5 DEF ContextInv
  <2> QED  BY <2>1, <2>2, IrqOrder DEF IntrTypeOK
<1> QED  BY <1>1, <1>2, <1>3, ContextInvariance, PTL DEF IntrSpec
=============================================================================
