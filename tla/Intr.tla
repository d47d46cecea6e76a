-------------------------------- MODULE Intr --------------------------------
(***************************************************************************)
(* Entering and leaving the kernel on its one CPU: the interrupt stubs of  *)
(* x86_64/isr.asm with irq.c and idt.c, the SYSCALL entry of               *)
(* x86_64/syscall.asm, the exceptions of idt_exceptions.c, and the timer   *)
(* of timer.c that hangs on IRQ0.                                          *)
(*                                                                         *)
(* A register holds its own name while it holds what the running code put  *)
(* there.  rax is split into al and the rest.  CPU, PIC and PIT are        *)
(* external: an interrupt gate clears IF, STI takes effect after the next  *)
(* instruction, so that sti and iretq are one step.                        *)
(***************************************************************************)
EXTENDS Integers, Sequences

CONSTANTS
  MaxSleep   \* bound on the ticks asked of timer_sleep_ms

ASSUME IntrConstants == MaxSleep \in Nat

CallerSaved == {"rax", "al", "rcx", "rdx", "rsi", "rdi", "r8", "r9", "r10", "r11"}
Reg  == CallerSaved \cup {"rsp", "rbp", "rbx", "r12", "r13", "r14", "r15"}
Own  == [r \in Reg |-> r]
Line == {0, 1}   \* timer and keyboard

(* What pic_remap leaves unmasked.                                         *)
Unmasked == {0, 1}

VARIABLES
  mode,    \* whose code runs: "kernel", "user", "syscall", "irq", "halted"
  stage,      \* the next step of a stub, "run" outside of them
  irq,     \* the line of the stub that runs
  IFlag,   \* the interrupt flag
  regs, relies,   \* what registers hold, and those the running code relies on
  stack,   \* what stubs have put on the stack of ring 0
  temp_rsp_storage,
  irr, isr,   \* PIC: lines requesting, lines in service
  sleeps   \* the kernel is in timer_sleep_ms: target_ticks - g_timer_ticks, or -1

pic  == <<irr, isr>>
intrVars == <<mode, stage, irq, IFlag, regs, relies, stack, temp_rsp_storage, pic, sleeps>>

Step(where, from, to) == mode = where /\ stage = from /\ stage' = to

Push(order) == stack \o [i \in DOMAIN order |-> regs[order[i]]]

(* The registers after popping in this order, and what is left.            *)
PopInto(order) ==
  [r \in Reg |->
     IF \E i \in DOMAIN order : order[i] = r
       THEN stack[Len(stack) + 1 - (CHOOSE i \in DOMAIN order : order[i] = r)]
       ELSE regs[r]]

Left(n) == SubSeq(stack, 1, Len(stack) - n)

(* What a C function leaves: System V keeps the other registers.           *)
Clobbered == [r \in Reg |-> IF r \in CallerSaved THEN "junk" ELSE regs[r]]

-----------------------------------------------------------------------------
(* Interrupts                                                              *)

IrqPushed == <<"rbp", "rax", "al", "rbx", "rcx", "rdx", "rsi", "rdi", "r8", "r9",
               "r10", "r11", "r12", "r13", "r14", "r15">>

(* Mutant: the stub pops in the order it pushed.                           *)
IrqPopped_same == IrqPushed

IrqPopped == <<"r15", "r14", "r13", "r12", "r11", "r10", "r9", "r8", "rdi", "rsi",
               "rdx", "rcx", "rbx", "al", "rax", "rbp">>

(* The CPU takes the most urgent line that beats those in service.  From   *)
(* user mode it changes to the stack of the TSS.                           *)
interrupt(n) ==
  /\ IFlag /\ mode # "halted"
  /\ n \in irr \cap Unmasked
  /\ \A k \in (irr \cap Unmasked) \cup isr : n < k \/ (n = k /\ k \notin isr)
  /\ irr' = irr \ {n} /\ isr' = isr \cup {n}
  /\ stack' = (IF mode = "user" THEN <<>> ELSE stack) \o <<mode, stage>>
  /\ mode' = "irq" /\ stage' = "push" /\ irq' = n
  /\ IFlag' = FALSE
  /\ UNCHANGED <<regs, relies, temp_rsp_storage, sleeps>>

irq_push ==
  /\ Step("irq", "push", "handler")
  /\ stack' = Push(IrqPushed)
  /\ UNCHANGED <<mode, irq, IFlag, regs, relies, temp_rsp_storage, pic, sleeps>>

(* Mutant: the timer is not counted.                                       *)
timer_irq_handler_idle == UNCHANGED sleeps

timer_irq_handler == sleeps' = IF sleeps > 0 THEN sleeps - 1 ELSE sleeps

(* ps2_handle_interrupt, for line 1, is in Keyboard.                       *)
irq_handler ==
  /\ Step("irq", "handler", "pop")
  /\ IF irq = 0 THEN timer_irq_handler ELSE UNCHANGED sleeps
  /\ regs' = Clobbered
  /\ UNCHANGED <<mode, irq, IFlag, relies, stack, temp_rsp_storage, pic>>

irq_pop ==
  /\ Step("irq", "pop", "eoi")
  /\ regs' = PopInto(IrqPopped)
  /\ stack' = Left(Len(IrqPopped))
  /\ UNCHANGED <<mode, irq, IFlag, relies, temp_rsp_storage, pic, sleeps>>

(* Mutant: line 1 is acknowledged at the slave only.                       *)
irq_eoi_slave ==
  /\ Step("irq", "eoi", "iret")
  /\ regs' = [regs EXCEPT !["al"] = "eoi"]
  /\ isr' = IF irq = 0 THEN isr \ {0} ELSE isr
  /\ UNCHANGED <<mode, irq, IFlag, relies, stack, temp_rsp_storage, irr, sleeps>>

(* mov al, 0x20 comes after pop rax.  The command ends the service of the  *)
(* most urgent line; the one to the slave finds nothing to end.            *)
irq_eoi ==
  /\ Step("irq", "eoi", "iret")
  /\ regs' = [regs EXCEPT !["al"] = "eoi"]
  /\ isr' = {n \in isr : \E k \in isr : k < n}
  /\ UNCHANGED <<mode, irq, IFlag, relies, stack, temp_rsp_storage, irr, sleeps>>

irq_iret ==
  /\ mode = "irq" /\ stage = "iret"
  /\ mode' = stack[Len(stack) - 1] /\ stage' = stack[Len(stack)]
  /\ stack' = IF mode' = "user" THEN <<>> ELSE Left(2)
  /\ IFlag' = TRUE
  /\ UNCHANGED <<irq, regs, relies, temp_rsp_storage, pic, sleeps>>

-----------------------------------------------------------------------------
(* System calls                                                            *)

(* The instruction keeps the return address in rcx and the flags in r11,   *)
(* and clears IF (SFMASK).  The program has loaded number and arguments.   *)
SYSCALL ==
  /\ mode = "user" /\ stage = "run" /\ relies = Reg
  /\ mode' = "syscall" /\ stage' = "save"
  /\ regs' = [regs EXCEPT !["rcx"] = "rip", !["r11"] = "rflags"]
  /\ relies' = Reg \ {"rax", "al", "rcx", "r11"}
  /\ IFlag' = FALSE
  /\ UNCHANGED <<irq, stack, temp_rsp_storage, pic, sleeps>>

SyscallPushed == <<"r11", "rcx", "rax", "rdi", "rsi", "rdx", "r10", "r8", "r9",
                   "rbx", "rbp", "r12", "r13", "r14", "r15">>

syscall_save ==
  /\ Step("syscall", "save", "args")
  /\ temp_rsp_storage' = regs["rsp"]
  /\ stack' = <<temp_rsp_storage'>> \o [i \in DOMAIN SyscallPushed |-> regs[SyscallPushed[i]]]
  /\ regs' = [regs EXCEPT !["rsp"] = "kernel_syscall_stack"]
  /\ UNCHANGED <<mode, irq, IFlag, relies, pic, sleeps>>

Move(f, to, from) == [f EXCEPT ![to] = f[from]]

(* One move after the other.                                               *)
ArgsMoved ==
  LET m1 == Move(regs, "r9", "r8")
      m2 == Move(m1, "r8", "r10")
      m3 == Move(m2, "rcx", "rdx")
      m4 == Move(m3, "rdx", "rsi")
      m5 == Move(m4, "rsi", "rdi")
  IN  Move(m5, "rdi", "rax")

syscall_args ==
  /\ Step("syscall", "args", "handler")
  /\ regs' = ArgsMoved
  /\ UNCHANGED <<mode, irq, IFlag, relies, stack, temp_rsp_storage, pic, sleeps>>

(* syscall_handler returns, or (exec, exit) starts a program with iretq,   *)
(* or (exit without a shell, shutdown) halts with cli.  A blocking sys_read*)
(* may never come to that.                                                 *)
syscall_handler ==
  /\ Step("syscall", "handler", "pop")
  /\ regs' = [Clobbered EXCEPT !["rax"] = "ret", !["al"] = "ret"]
  /\ UNCHANGED <<mode, irq, IFlag, relies, stack, temp_rsp_storage, pic, sleeps>>

SyscallPopped == <<"r15", "r14", "r13", "r12", "rbp", "rbx", "r9", "r8", "r10",
                   "rdx", "rsi", "rdi">>

(* The slot of rax is skipped, then rcx, r11 and rsp.                      *)
syscall_pop ==
  LET n == Len(SyscallPopped)
  IN  /\ Step("syscall", "pop", "sysret")
      /\ regs' = [PopInto(SyscallPopped) EXCEPT !["rcx"] = stack[Len(stack) - n - 1],
                                                !["r11"] = stack[Len(stack) - n - 2],
                                                !["rsp"] = stack[Len(stack) - n - 3]]
      /\ stack' = <<>>
      /\ UNCHANGED <<mode, irq, IFlag, relies, temp_rsp_storage, pic, sleeps>>

(* o64 sysret: a bad address or flags word would not come back.            *)
sysret ==
  /\ Step("syscall", "sysret", "run")
  /\ regs["rcx"] = "rip" /\ regs["r11"] = "rflags"
  /\ mode' = "user"
  /\ IFlag' = TRUE
  /\ UNCHANGED <<irq, regs, relies, stack, temp_rsp_storage, pic, sleeps>>

-----------------------------------------------------------------------------
(* The code in between                                                     *)

(* The running code loads its registers again.                             *)
code_runs ==
  /\ mode \in {"user", "kernel"} /\ stage = "run"
  /\ regs' = Own /\ relies' = Reg
  /\ UNCHANGED <<mode, stage, irq, IFlag, stack, temp_rsp_storage, pic, sleeps>>

(* kernel_main enables interrupts before it starts init or its own shell.  *)
kernel_sti ==
  /\ mode = "kernel" /\ stage = "run" /\ ~IFlag
  /\ IFlag' = TRUE
  /\ UNCHANGED <<mode, stage, irq, regs, relies, stack, temp_rsp_storage, pic, sleeps>>

(* The end of elf64_load_and_run, from kernel_main or a system call.       *)
start_program ==
  /\ \/ mode = "kernel" /\ stage = "run" /\ IFlag /\ sleeps < 0
     \/ mode = "syscall" /\ stage = "handler"
  /\ mode' = "user" /\ stage' = "run"
  /\ regs' = [r \in Reg |-> IF r \in {"rsp", "rdi", "rbp"} THEN r ELSE "junk"]
  /\ relies' = {"rsp", "rdi", "rbp"}
  /\ stack' = <<>>
  /\ IFlag' = TRUE
  /\ UNCHANGED <<irq, temp_rsp_storage, pic, sleeps>>

(* exc_handler_c, isr_default_handler for any other vector (an IRQ7 the    *)
(* PIC makes up, too), sys_exit without a program to run, acpi_shutdown.   *)
stop ==
  /\ \/ mode \in {"kernel", "user"} /\ stage = "run"
     \/ mode = "syscall" /\ stage = "handler"
  /\ mode' = "halted" /\ stage' = "run"
  /\ IFlag' = FALSE
  /\ UNCHANGED <<irq, regs, relies, stack, temp_rsp_storage, pic, sleeps>>

(* The loop with hlt wakes at each interrupt and looks at the counter.     *)
timer_sleep_ms(ticks) ==
  /\ mode = "kernel" /\ stage = "run" /\ IFlag /\ sleeps < 0
  /\ sleeps' = ticks
  /\ UNCHANGED <<mode, stage, irq, IFlag, regs, relies, stack, temp_rsp_storage, pic>>

sleep_over ==
  /\ mode = "kernel" /\ stage = "run" /\ sleeps = 0
  /\ sleeps' = -1
  /\ UNCHANGED <<mode, stage, irq, IFlag, regs, relies, stack, temp_rsp_storage, pic>>

(* The PIT or the keyboard; a request that is already there absorbs it.    *)
(* Ticks are 10 ms apart: no second one comes within the stub of the first.*)
request_irq(n) ==
  /\ n \notin irr /\ ~(n = 0 /\ mode = "irq" /\ irq = 0)
  /\ irr' = irr \cup {n}
  /\ UNCHANGED <<mode, stage, irq, IFlag, regs, relies, stack, temp_rsp_storage, isr, sleeps>>

Stubs ==
  \/ irq_push \/ irq_handler \/ irq_pop \/ irq_eoi \/ irq_iret
  \/ syscall_save \/ syscall_args \/ syscall_pop \/ sysret

IntrInit ==
  /\ mode = "kernel" /\ stage = "run" /\ irq = 0 /\ IFlag = FALSE
  /\ regs = Own /\ relies = Reg
  /\ stack = <<>> /\ temp_rsp_storage = "none"
  /\ irr = {} /\ isr = {}
  /\ sleeps = -1

IntrNext ==
  \/ \E n \in Line : interrupt(n) \/ request_irq(n)
  \/ Stubs
  \/ SYSCALL \/ syscall_handler
  \/ code_runs \/ kernel_sti \/ start_program \/ stop
  \/ \E ticks \in 0 .. MaxSleep : timer_sleep_ms(ticks)
  \/ sleep_over

(* The CPU executes stubs to their end and samples the PIC between         *)
(* instructions, so that a request that can be taken again and again is    *)
(* taken; it gets on with the loop of timer_sleep_ms between ticks; the    *)
(* PIT never stops.  Whether a system call returns is up to its handler.   *)
IntrSpec ==
  /\ IntrInit /\ [][IntrNext]_intrVars
  /\ WF_intrVars(Stubs) /\ SF_intrVars(sleep_over) /\ WF_intrVars(kernel_sti)
  /\ WF_intrVars(request_irq(0)) /\ \A n \in Line : SF_intrVars(interrupt(n))

-----------------------------------------------------------------------------
(* Properties                                                              *)

Running == mode \in {"user", "kernel"} /\ stage = "run"

(* Modes and sets keep their ranges, and the stacks hold one frame of a    *)
(* stub at most: the 16 KB of the TSS and the 8 KB of SYSCALL cannot run   *)
(* full, however interrupts and system calls follow each other.            *)
IntrTypeOK ==
  /\ mode \in {"kernel", "user", "syscall", "irq", "halted"}
  /\ relies \subseteq Reg
  /\ irr \subseteq Line /\ isr \subseteq Line
  /\ Len(stack) <= 2 + Len(IrqPushed)

(* Code that was interrupted, or made a system call, goes on with every    *)
(* register it relies on and nothing left on the stack: a call may change  *)
(* rax, rcx and r11, an interrupt only al, to the 0x20 of the EOI.  And    *)
(* syscall_handler gets the arguments of the program in its own order,     *)
(* whatever interrupted the program while it loaded them; the number,      *)
(* which is in al, need not survive that.                                  *)
ContextPreserved ==
  /\ Running => /\ stack = <<>>
                /\ \A r \in relies : regs[r] = r \/ (r = "al" /\ regs[r] = "eoi")
  /\ mode = "syscall" /\ stage = "handler" =>
       <<regs["rsi"], regs["rdx"], regs["rcx"], regs["r8"], regs["r9"]>>
         = <<"rdi", "rsi", "rdx", "r10", "r8">>

(* A request is served unless interrupts stay masked from some time on: no *)
(* line is left in service, where it would keep back itself and the less   *)
(* urgent one for good.                                                    *)
RequestsServed == \A n \in Line : []<>IFlag => (n \in irr ~> n \notin irr)

(* timer_sleep_ms returns.                                                 *)
SleepEnds == (sleeps >= 0) ~> (sleeps < 0 \/ mode = "halted")
=============================================================================
