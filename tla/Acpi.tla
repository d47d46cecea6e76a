-------------------------------- MODULE Acpi --------------------------------
(***************************************************************************)
(* drivers/acpi.c: finding the tables, counting the CPUs, powering off and *)
(* rebooting, together with the two system calls that do the latter and    *)
(* with the scheduler, which takes its CPUs from the same tables.          *)
(*                                                                         *)
(* fw is the machine: its tables, and which writes it reacts to.  It never *)
(* changes.  The kernel is single threaded: while power management runs,   *)
(* nothing else does.                                                      *)
(***************************************************************************)
EXTENDS Sched, SequencesExt

CONSTANTS
  Firmware,     \* the machines
  ENABLE_POLLS  \* 1000

ASSUME AcpiConstants == ENABLE_POLLS \in Nat

VARIABLES
  fw,
  boot,         \* what kernel_main does next
  root,         \* g_xsdt or g_rsdt: "xsdt", "rsdt" or "none"
  ptr,          \* acpi_parse_madt: the entry it is at
  found,        \* acpi_parse_madt: its local cpu_count
  acpi_cpu_count, acpi_cpu_apic_ids,
  g_acpi_enabled,
  asked,        \* the request being served: "none", "shutdown", "reboot"
  by,           \* who made it: "shell" or "syscall"
  at,           \* its next step
  polls,
  pm1,          \* PM1 control blocks: the sleep type last written, or NONE
  power         \* "on", "off", "asleep", "reset" or "halted"

tables  == <<root, ptr, found, acpi_cpu_count, acpi_cpu_apic_ids>>
request == <<g_acpi_enabled, asked, by, at, polls, pm1, power>>
vars    == <<schedVars, fw, boot, tables, request>>

-----------------------------------------------------------------------------
(* Tables                                                                  *)

(* The RSDP comes from the boot loader or from find_rsdp; XSDT only from   *)
(* revision 2, RSDT only without one.                                      *)
Root ==
  CASE fw.rsdp = "none" -> "none"
    [] fw.revision >= 2 /\ fw.xsdt # <<>> -> "xsdt"
    [] (fw.revision < 2 \/ fw.xsdt = <<>>) /\ fw.rsdt # <<>> -> "rsdt"
    [] OTHER -> "none"

(* A table with a bad checksum is used all the same.                       *)
acpi_find_table(signature) ==
  \/ root = "xsdt" /\ Contains(fw.xsdt, signature)
  \/ root = "rsdt" /\ Contains(fw.rsdt, signature)

acpi_get_fadt == acpi_find_table("FACP")

acpi_init ==
  /\ boot = "acpi_init"
  /\ UNCHANGED <<schedVars, fw, ptr, found, acpi_cpu_count, acpi_cpu_apic_ids, request>>
  /\ root' = Root
  /\ boot' = IF acpi_find_table("APIC")' THEN "acpi_parse_madt" ELSE "done"

(* Mutant: the enabled flag of an entry is not looked at.                  *)
CountsAsCpu_any(e) == e.type = "lapic"

CountsAsCpu(e) == e.type = "lapic" /\ e.enabled

(* ptr += entry->length, in units of a local APIC entry: a length of zero  *)
(* does not advance, the body of a longer entry is passed over.            *)
Skip(e) == e.length

madt_entry ==
  /\ boot = "acpi_parse_madt" /\ ptr <= Len(fw.madt)
  /\ LET e == fw.madt[ptr]
     IN  /\ ptr' = ptr + Skip(e)
         /\ IF CountsAsCpu(e)
              THEN /\ found' = found + 1
                   /\ acpi_cpu_apic_ids' = IF found < MAX_CPUS
                        THEN [acpi_cpu_apic_ids EXCEPT ![found] = e.id]
                        ELSE acpi_cpu_apic_ids
              ELSE UNCHANGED <<found, acpi_cpu_apic_ids>>
  /\ UNCHANGED <<schedVars, fw, boot, root, acpi_cpu_count, request>>

madt_end ==
  /\ boot = "acpi_parse_madt" /\ ptr > Len(fw.madt)
  /\ acpi_cpu_count' = found
  /\ boot' = "done"
  /\ UNCHANGED <<schedVars, fw, root, ptr, found, acpi_cpu_apic_ids, request>>

(* kernel_main initialises the scheduler before ACPI.                      *)
boot_sched ==
  /\ boot = "sched_init" /\ boot' = "acpi_init"
  /\ sched_init(acpi_cpu_count, acpi_cpu_apic_ids)
  /\ UNCHANGED <<fw, tables, request>>

-----------------------------------------------------------------------------
(* Shutdown                                                                *)

Up == boot = "done" /\ power = "on" /\ asked = "none"

Serve(from, to) == at = from /\ at' = to /\ power = "on"

(* How the machine answers a write to one of its ports.                    *)
PortWrite(p, state) == power' = IF p \in fw.ports THEN state ELSE "on"

(* The commands shutdown and reboot of the shell of init.                  *)
acpi_shutdown ==
  /\ Up
  /\ asked' = "shutdown" /\ by' = "shell"
  /\ IF acpi_get_fadt
       THEN /\ at' = IF g_acpi_enabled THEN "port604" ELSE "acpi_enable"
            /\ UNCHANGED power
       ELSE /\ power' = "halted"
            /\ at' = "end"
  /\ UNCHANGED <<schedVars, fw, boot, tables, g_acpi_enabled, polls, pm1>>

(* Mutant: the loop has no counter.                                        *)
acpi_enable_forever ==
  /\ at \in {"acpi_enable", "poll"}
  /\ at' = IF fw.smi /\ ~fw.sci THEN "poll" ELSE "port604"
  /\ g_acpi_enabled' = (fw.smi => fw.sci)
  /\ UNCHANGED <<schedVars, fw, boot, tables, asked, by, polls, pm1, power>>

(* Without an SMI port the machine is in ACPI mode already; otherwise the  *)
(* command is sent and SCI_EN polled until the counter runs out.           *)
acpi_enable ==
  /\ \/ at = "acpi_enable" /\ ~fw.smi /\ g_acpi_enabled' = TRUE /\ at' = "port604"
        /\ UNCHANGED polls
     \/ at = "acpi_enable" /\ fw.smi /\ at' = "poll" /\ polls' = ENABLE_POLLS
        /\ UNCHANGED g_acpi_enabled
     \/ at = "poll" /\ polls > 0 /\ fw.sci /\ g_acpi_enabled' = TRUE /\ at' = "port604"
        /\ UNCHANGED polls
     \/ at = "poll" /\ polls > 0 /\ polls' = polls - 1 /\ UNCHANGED <<g_acpi_enabled, at>>
     \/ at = "poll" /\ polls = 0 /\ at' = "port604" /\ UNCHANGED <<g_acpi_enabled, polls>>
  /\ UNCHANGED <<schedVars, fw, boot, tables, asked, by, pm1, power>>

port604 ==
  /\ Serve("port604", IF by = "shell" THEN "portB004" ELSE "port4004")
  /\ PortWrite("604", "off")
  /\ UNCHANGED <<schedVars, fw, boot, tables, g_acpi_enabled, asked, by, polls, pm1>>

portB004 ==
  /\ Serve("portB004", "scan")
  /\ PortWrite("B004", "off")
  /\ UNCHANGED <<schedVars, fw, boot, tables, g_acpi_enabled, asked, by, polls, pm1>>

(* A _S5_ in the DSDT: only a package whose first two elements are a byte  *)
(* constant, Zero or One is used (NONE is any other element); the scan     *)
(* goes on behind any other.                                               *)
Usable(s5) == s5.op = "package" /\ s5.a \in Nat /\ s5.b \in Nat

Packages == SelectSeq(fw.dsdt, Usable)

scan_dsdt ==
  /\ Serve("scan", IF Packages # <<>> THEN "s5" ELSE "guess_pm1a")
  /\ polls' = 0
  /\ UNCHANGED <<schedVars, fw, boot, tables, g_acpi_enabled, asked, by, pm1, power>>

(* The control register has three bits for the type; the fourth of a       *)
(* larger value falls on SLP_EN, which is set anyway.                      *)
SleepType(v) == v % 8

(* The machine leaves S0 when all its blocks name the same state.          *)
Blocks == {b \in {"a", "b"} : fw.pm1[b]}

Sleeps(p) ==
  CASE \A b \in Blocks : p[b] = fw.s5[b] -> "off"
    [] \A b \in Blocks : p[b] = fw.s3[b] -> "asleep"
    [] OTHER -> "on"

(* outw to the control block, if the FADT has one.                         *)
WriteSleep(b, v) ==
  IF fw.pm1[b]
    THEN /\ pm1' = [pm1 EXCEPT ![b] = SleepType(v)]
         /\ power' = Sleeps(pm1')
    ELSE UNCHANGED <<pm1, power>>

s5_pm1a ==
  /\ Serve("s5", "s5_pm1b")
  /\ WriteSleep("a", Head(Packages).a)
  /\ UNCHANGED <<schedVars, fw, boot, tables, g_acpi_enabled, asked, by, polls>>

s5_pm1b ==
  /\ Serve("s5_pm1b", "halt")
  /\ WriteSleep("b", Head(Packages).b)
  /\ UNCHANGED <<schedVars, fw, boot, tables, g_acpi_enabled, asked, by, polls>>

(* slp_typ_values, tried on one block and then on the other.               *)
Guesses == <<0, 5, 7, 13>>

Guess(b, from, to) ==
  /\ power = "on" /\ at = from
  /\ polls' = IF fw.pm1[b] THEN (polls + 1) % Len(Guesses) ELSE 0
  /\ at' = IF polls' = 0 THEN to ELSE from
  /\ WriteSleep(b, Guesses[polls + 1])
  /\ UNCHANGED <<schedVars, fw, boot, tables, g_acpi_enabled, asked, by>>

guess_pm1a == Guess("a", "guess_pm1a", "guess_pm1b")

guess_pm1b == Guess("b", "guess_pm1b", "halt")

(* After S5 the code halts.  After the guesses it tries the APM BIOS, but  *)
(* int 0x15 is an exception vector here, whose handler halts.              *)
halt ==
  /\ Serve("halt", "end")
  /\ power' = "halted"
  /\ UNCHANGED <<schedVars, fw, boot, tables, g_acpi_enabled, asked, by, polls, pm1>>

-----------------------------------------------------------------------------
(* Reboot                                                                  *)

acpi_reboot ==
  /\ Up
  /\ asked' = "reboot" /\ by' = "shell"
  /\ at' = "reset_reg"
  /\ UNCHANGED <<schedVars, fw, boot, tables, g_acpi_enabled, polls, pm1, power>>

(* acpi_write_gas writes memory with any width, ports with 8, 16, 32 bits. *)
acpi_write_gas(gas) == gas.space = "memory" \/ (gas.space = "io" /\ gas.width \in {8, 16, 32})

(* Old FADTs do not tell: a controller is assumed.                         *)
has_ps2 == IF acpi_get_fadt /\ fw.fadt_revision >= 2 THEN fw.boot_arch_8042 ELSE TRUE

reset_reg ==
  /\ Serve("reset_reg", IF has_ps2 THEN "pulse" ELSE "cf9")
  /\ IF acpi_get_fadt /\ fw.reset.supported /\ acpi_write_gas(fw.reset)
       THEN PortWrite("reset", "reset")
       ELSE UNCHANGED power
  /\ UNCHANGED <<schedVars, fw, boot, tables, g_acpi_enabled, asked, by, polls, pm1>>

(* Mutant: the controller is waited for without a limit.                   *)
pulse_forever ==
  /\ Serve("pulse", "cf9")
  /\ fw.i8042 /\ power' = "reset"
  /\ UNCHANGED <<schedVars, fw, boot, tables, g_acpi_enabled, asked, by, polls, pm1>>

(* A limited number of polls, then the command in any case.                *)
pulse ==
  /\ Serve("pulse", "cf9")
  /\ power' = IF fw.i8042 THEN "reset" ELSE "on"
  /\ UNCHANGED <<schedVars, fw, boot, tables, g_acpi_enabled, asked, by, polls, pm1>>

cf9 ==
  /\ Serve("cf9", "triple_fault")
  /\ PortWrite("cf9", "reset")
  /\ UNCHANGED <<schedVars, fw, boot, tables, g_acpi_enabled, asked, by, polls, pm1>>

triple_fault ==
  /\ Serve("triple_fault", "end")
  /\ power' = "reset"
  /\ UNCHANGED <<schedVars, fw, boot, tables, g_acpi_enabled, asked, by, polls, pm1>>

-----------------------------------------------------------------------------
(* The system calls                                                        *)

sys_shutdown ==
  /\ Up
  /\ asked' = "shutdown" /\ by' = "syscall"
  /\ at' = "port604"
  /\ UNCHANGED <<schedVars, fw, boot, tables, g_acpi_enabled, polls, pm1, power>>

(* The second port; then the call returns, whatever the machine did.       *)
port4004 ==
  /\ Serve("port4004", "end")
  /\ PortWrite("4004", "off")
  /\ asked' = "none"
  /\ UNCHANGED <<schedVars, fw, boot, tables, g_acpi_enabled, by, polls, pm1>>

sys_reboot ==
  /\ Up
  /\ asked' = "reboot" /\ by' = "syscall"
  /\ at' = "wait8042"
  /\ UNCHANGED <<schedVars, fw, boot, tables, g_acpi_enabled, polls, pm1, power>>

(* The status of a missing controller reads as busy, and there is no       *)
(* limit: the loop ends only if there is one.                              *)
wait8042 ==
  /\ Serve("wait8042", "end")
  /\ fw.i8042 /\ power' = "reset"
  /\ UNCHANGED <<schedVars, fw, boot, tables, g_acpi_enabled, asked, by, polls, pm1>>

-----------------------------------------------------------------------------

Init ==
  /\ SchedInit
  /\ fw \in Firmware
  /\ boot = "sched_init"
  /\ root = "none" /\ ptr = 1 /\ found = 0
  /\ acpi_cpu_count = 0 /\ acpi_cpu_apic_ids = [i \in Cpu |-> 0]
  /\ g_acpi_enabled = FALSE
  /\ asked = "none" /\ by = "shell" /\ at = "end"
  /\ polls = 0 /\ pm1 = [b \in {"a", "b"} |-> NONE]
  /\ power = "on"

Boot == boot_sched \/ acpi_init \/ madt_entry \/ madt_end

Power ==
  \/ acpi_enable \/ port604 \/ portB004 \/ port4004 \/ scan_dsdt
  \/ s5_pm1a \/ s5_pm1b \/ guess_pm1a \/ guess_pm1b \/ halt
  \/ reset_reg \/ pulse \/ cf9 \/ triple_fault \/ wait8042

Ask == acpi_shutdown \/ acpi_reboot \/ sys_shutdown \/ sys_reboot

Scheduled(A) == Up /\ A /\ UNCHANGED <<fw, boot, tables, request>>

Next ==
  \/ Boot \/ Power \/ Ask
  \/ Scheduled(sched_create_task)
  \/ Scheduled(sched_schedule)
  \/ Scheduled(sched_tick)
  \/ \E enabled \in BOOLEAN : Scheduled(sched_set_smt_aware(enabled))

(* kernel_main runs through, and so does a request once it was made.       *)
Spec == Init /\ [][Next]_vars /\ WF_vars(Boot) /\ WF_vars(Power)

-----------------------------------------------------------------------------
(* Properties                                                              *)

(* The boot goes on behind ACPI on every machine, tables or none, unless   *)
(* an entry of the MADT has length zero.  The walk of acpi_parse_madt,     *)
(* entry by entry, has then found the enabled local APICs and only those,  *)
(* whatever the bodies of other entries look like: their number, however   *)
(* many there are, and the ids of the first MAX_CPUS in the order of the   *)
(* table.                                                                  *)
CpusMatchMadt ==
  LET enabled == SelectSeq(fw.madt,
                           LAMBDA e : ~e.body /\ e.type = "lapic" /\ e.enabled)
      matches == /\ acpi_cpu_count = Len(enabled)
                 /\ \A i \in 1 .. Min({MAX_CPUS, Len(enabled)}) :
                      acpi_cpu_apic_ids[i - 1] = enabled[i].id
  IN  (\A i \in DOMAIN fw.madt : fw.madt[i].length > 0) =>
        <>[](boot = "done" /\ (acpi_find_table("APIC") => matches))

(* What should suffice to switch the machine off: a port of an emulator, a *)
(* usable _S5_, or a sleep type among 0, 5 and 7 in a single block that    *)
(* no guess before it puts to sleep.                                       *)
CanPowerOff ==
  /\ acpi_get_fadt
  /\ \/ fw.ports \cap {"604", "B004"} # {}
     \/ Blocks # {} /\ \E i \in DOMAIN fw.dsdt : Usable(fw.dsdt[i])
     \/ \E b \in Blocks :
          /\ Blocks = {b} /\ fw.s5[b] \in {0, 5, 7}
          /\ fw.s3[b] \in {0, 5, 7} => fw.s3[b] > fw.s5[b]

(* The command shutdown always ends with the CPU stopped, and with the     *)
(* machine off wherever one of the methods suits it, also when ACPI mode   *)
(* cannot be entered.                                                      *)
ShutdownPowersOff ==
  asked = "shutdown" /\ by = "shell"
    ~> power # "on" /\ (CanPowerOff => power = "off")

(* The command reboot resets every machine, with or without reset          *)
(* register, keyboard controller and FADT; the system call only those with *)
(* a keyboard controller.                                                  *)
RebootResets ==
  asked = "reboot" /\ (by = "shell" \/ fw.i8042) ~> power = "reset"

(* Round robin: as long as somebody keeps calling sched_yield or           *)
(* sched_schedule and nobody asks to stop the machine, each task gets the  *)
(* CPU again and again, whatever is created in between.                    *)
NoTaskStarves ==
  WF_vars(Scheduled(sched_schedule)) /\ [](asked = "none") =>
    \A t \in Task : t \in Created ~> []<>(current[0] = t)
=============================================================================
