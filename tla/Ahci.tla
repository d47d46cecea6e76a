-------------------------------- MODULE Ahci --------------------------------
(***************************************************************************)
(* The AHCI disk driver, drivers/ahci.c, as with CONFIG_AHCI on: probing,  *)
(* command slots and the two polling loops of port_read and port_write,    *)
(* against a controller (HBA) and a drive that take any time, fail, or     *)
(* stay busy.                                                              *)
(*                                                                         *)
(* The controller copies a command from the table of its slot when it      *)
(* starts it and moves the data when it finishes.  After a task file error *)
(* it stops until software restarts it, which the driver never does.       *)
(* Memory below 4 GB is mapped at its physical address, as the driver      *)
(* assumes.  A request is no longer than one PRDT entry can describe.      *)
(***************************************************************************)
EXTENDS Integers, FiniteSets, FiniteSetsExt

CONSTANTS
  SLOTS,         \* 32
  READY_POLLS,   \* 100000
  POLLS,         \* 1000000
  PORTS,         \* 32
  Sector, Buffer, Value,
  MaxCalls,      \* bound on requests
  Idle

ASSUME AhciConstants ==
  /\ {SLOTS, READY_POLLS, POLLS, PORTS} \subseteq Nat \ {0}
  /\ MaxCalls \in Nat
  /\ Sector \subseteq Nat

Slot      == 0 .. SLOTS - 1
Port      == 0 .. PORTS - 1
PortKind  == {"none", "SATA", "SATAPI"}
NO_PORT   == -1
NO_SLOT   == -1

(* What the command header of a slot points to: ahci_init sets the first   *)
(* of the zeroed headers only.                                             *)
ctba(s) == IF s = 0 THEN "cmd_table" ELSE "zero"

VARIABLES
  g_ahci_port, g_ahci_initialized,
  probed,     \* ahci_init has run
  pc,         \* where port_read or port_write is
  req,        \* its arguments, or Idle
  slot, timeout,
  ret,        \* what the last call returned
  table,      \* address -> the command written there
  ci,         \* PxCI: slots issued and not completed
  tfes,       \* PxIS bit 30
  bsy,        \* PxTFD BSY or DRQ
  running,    \* what the controller executes: [slot, cmd], or Idle
  stopped,    \* it stopped after an error
  disk, mem,
  expired,    \* some request's polls ran out
  calls

driver == <<g_ahci_port, g_ahci_initialized, probed, calls>>
local  == <<pc, req, slot, timeout, ret, expired>>
port   == <<ci, tfes, bsy, running, stopped>>
data   == <<disk, mem>>
vars   == <<driver, local, table, port, data>>

D == INSTANCE Disk WITH call <- req, broken <- expired

(* Idle is neither a request nor a command under way.                      *)
ASSUME IdleIsNothing ==
  /\ Idle \notin D!Request
  /\ Idle \notin [slot : Slot, cmd : D!Request]

-----------------------------------------------------------------------------
(* Probing                                                                 *)

(* check_type decides on the link state and the signature.                 *)
(* The first SATA port is set up with three frames; if one is missing the  *)
(* port is chosen and the driver stays uninitialised.                      *)
ahci_init(controller, kind, frames) ==
  LET sata == {p \in Port : kind[p] = "SATA"}
      used == controller /\ sata # {}
  IN  /\ ~probed /\ probed' = TRUE
      /\ g_ahci_port' = IF used THEN Min(sata) ELSE NO_PORT
      /\ g_ahci_initialized' = (used /\ frames >= 3)
      /\ UNCHANGED <<calls, local, table, port, data>>

-----------------------------------------------------------------------------
(* A request                                                               *)

(* Mutant: PxCI is not looked at, as in a driver that waits for each       *)
(* command.                                                                *)
find_cmdslot_first == 0

find_cmdslot ==
  LET free == Slot \ ci IN IF free = {} THEN NO_SLOT ELSE Min(free)

(* Mutant: the task file error is logged and 0 returned.                   *)
Fails_silent == pc' = "idle" /\ req' = Idle /\ ret' = 0

Fails == pc' = "idle" /\ req' = Idle /\ ret' = -1

Usable == g_ahci_initialized /\ g_ahci_port # NO_PORT

(* Entry of ahci_read_sectors and ahci_write_sectors, and of port_read and *)
(* port_write up to the first wait.                                        *)
ahci_request(r) ==
  /\ probed /\ pc = "idle" /\ calls < MaxCalls
  /\ calls' = calls + 1
  /\ IF ~Usable
       THEN Fails /\ UNCHANGED <<slot, timeout, table, tfes>>
       ELSE /\ tfes' = FALSE
            /\ IF find_cmdslot = NO_SLOT
                 THEN Fails /\ UNCHANGED <<slot, timeout, table>>
                 ELSE /\ slot' = find_cmdslot
                      /\ table' = [table EXCEPT ![ctba(find_cmdslot)] = r]
                      /\ timeout' = READY_POLLS
                      /\ pc' = "ready" /\ req' = r
                      /\ UNCHANGED ret
  /\ UNCHANGED <<g_ahci_port, g_ahci_initialized, probed, expired, ci, bsy, running,
                 stopped, data>>

(* while (busy && timeout-- > 0); the test for 0 then misses -1, to which  *)
(* the counter goes when the wait is in vain.                              *)
wait_ready ==
  /\ pc = "ready"
  /\ \/ /\ bsy /\ timeout > 0
        /\ timeout' = timeout - 1
        /\ UNCHANGED <<pc, req, ret>>
     \/ /\ bsy /\ timeout = 0
        /\ timeout' = -1
        /\ pc' = "issue"
        /\ UNCHANGED <<req, ret>>
     \/ /\ ~bsy
        /\ IF timeout = 0 THEN Fails ELSE pc' = "issue" /\ UNCHANGED <<req, ret>>
        /\ UNCHANGED timeout
  /\ UNCHANGED <<driver, slot, expired, table, port, data>>

issue ==
  /\ pc = "issue" /\ pc' = "poll"
  /\ ci' = ci \cup {slot}
  /\ timeout' = POLLS
  /\ UNCHANGED <<driver, req, slot, ret, expired, table, tfes, bsy, running, stopped, data>>

(* Mutant: only the error bit ends the wait.                               *)
poll_forever ==
  /\ pc = "poll"
  /\ \/ /\ slot \notin ci /\ pc' = "check" /\ UNCHANGED <<req, ret>>
     \/ /\ slot \in ci /\ tfes /\ Fails
     \/ /\ slot \in ci /\ ~tfes /\ UNCHANGED <<pc, req, ret>>
  /\ UNCHANGED <<driver, slot, timeout, expired, table, port, data>>

(* Both registers of one poll are read in one step: the controller clears  *)
(* the bit in PxCI or reports an error, not both.                          *)
poll ==
  /\ pc = "poll"
  /\ timeout' = timeout - 1
  /\ \/ /\ timeout = 0
        /\ pc' = "check" /\ expired' = TRUE
        /\ UNCHANGED <<req, ret>>
     \/ /\ timeout > 0 /\ slot \notin ci
        /\ pc' = "check"
        /\ UNCHANGED <<req, ret, expired>>
     \/ /\ timeout > 0 /\ slot \in ci /\ tfes
        /\ Fails
        /\ UNCHANGED expired
     \/ /\ timeout > 0 /\ slot \in ci /\ ~tfes
        /\ UNCHANGED <<pc, req, ret, expired>>
  /\ UNCHANGED <<driver, slot, table, port, data>>

(* The counter is 0 only if the last poll of all saw the completion.       *)
Result == IF timeout = 0 \/ tfes THEN -1 ELSE 0

check_result ==
  /\ pc = "check" /\ pc' = "idle"
  /\ req' = Idle
  /\ ret' = Result
  /\ UNCHANGED <<driver, slot, timeout, expired, table, port, data>>

Driver == wait_ready \/ issue \/ poll \/ check_result

-----------------------------------------------------------------------------
(* The caller, the controller and the drive                                *)

caller_fills(b, k, v) ==
  /\ pc = "idle"
  /\ mem' = [mem EXCEPT ![b][k] = v]
  /\ UNCHANGED <<driver, local, table, port, disk>>

hba_start(s) ==
  /\ s \in ci /\ ~bsy /\ ~stopped
  /\ bsy' = TRUE
  /\ running' = [slot |-> s, cmd |-> table[ctba(s)]]
  /\ UNCHANGED <<driver, local, table, ci, tfes, stopped, data>>

(* All of the data, or some of it and an error.                            *)
hba_finish(K, fails) ==
  /\ running # Idle
  /\ K \subseteq 0 .. running.cmd.count - 1
  /\ fails \/ K = 0 .. running.cmd.count - 1
  /\ running' = Idle
  /\ bsy' = FALSE
  /\ ci' = IF fails THEN ci ELSE ci \ {running.slot}
  /\ tfes' = (tfes \/ fails)
  /\ stopped' = fails
  /\ disk' = D!DiskAfter(running.cmd, K)
  /\ mem' = D!MemAfter(running.cmd, K)
  /\ UNCHANGED <<driver, local, table>>

(* A drive that was still starting up.                                     *)
drive_ready ==
  /\ bsy /\ running = Idle
  /\ bsy' = FALSE
  /\ UNCHANGED <<driver, local, table, ci, tfes, running, stopped, data>>

Init ==
  /\ g_ahci_port = NO_PORT /\ g_ahci_initialized = FALSE /\ probed = FALSE
  /\ pc = "idle" /\ req = Idle /\ slot = 0 /\ timeout = 0 /\ ret = 0
  /\ expired = FALSE
  /\ table = [a \in {"cmd_table", "zero"} |-> Idle]
  /\ ci = {} /\ tfes = FALSE /\ bsy \in BOOLEAN
  /\ running = Idle /\ stopped = FALSE
  /\ disk \in [Sector -> Value]
  /\ mem \in [Buffer -> [D!Place -> Value]]
  /\ calls = 0

Next ==
  \/ \E controller \in BOOLEAN, kind \in [Port -> PortKind], frames \in 0 .. 3 :
       ahci_init(controller, kind, frames)
  \/ \E r \in D!Request : ahci_request(r)
  \/ Driver
  \/ \E b \in Buffer, k \in D!Place, v \in Value : caller_fills(b, k, v)
  \/ \E s \in Slot : hba_start(s)
  \/ \E K \in SUBSET D!Place, fails \in BOOLEAN : hba_finish(K, fails)
  \/ drive_ready

(* The driver's loops are bounded and wait for nothing.  Nothing is        *)
(* assumed of the controller and the drive.                                *)
Spec == Init /\ [][Next]_vars /\ WF_vars(Driver)

-----------------------------------------------------------------------------
(* Properties                                                              *)

(* The counters and slots keep their range: the two loops leave -1 behind  *)
(* at worst, and a slot is only used if there is a free one.               *)
TypeOK ==
  /\ slot \in Slot /\ ci \subseteq Slot
  /\ timeout \in -1 .. POLLS \cup -1 .. READY_POLLS
  /\ req \in D!Request \cup {Idle} /\ (req = Idle <=> pc = "idle")
  /\ ret \in {0, -1}

(* No command is put into a slot that the controller still owns, however   *)
(* many earlier ones timed out or failed: PxCI is set only for a slot      *)
(* that is clear, and the table of slot 0 is not rewritten under the       *)
(* controller.                                                             *)
SlotsPrivate ==
  /\ pc \in {"ready", "issue"} => slot \notin ci
  /\ 0 \in ci /\ running # Idle /\ running.slot = 0 => table["cmd_table"] = running.cmd

(* port_read and port_write are a synchronous disk for as long as no       *)
(* request outlives its polls: a late or failing controller never makes    *)
(* them report 0 for data that did not move, nor move data after they      *)
(* returned.                                                               *)
SynchronousDisk == D!Spec

(* Every request returns, whatever the controller does.                    *)
RequestsReturn == (pc # "idle") ~> (pc = "idle")
=============================================================================
