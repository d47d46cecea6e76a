-------------------------------- MODULE Xhci --------------------------------
(***************************************************************************)
(* The xHCI driver of drivers/xhci.c against its host controller: taking   *)
(* it from the firmware and starting it, command, event and transfer rings *)
(* in shared memory with cycle bits, enumeration of the root ports, set-up *)
(* of a keyboard, and usb_kbd_poll.                                        *)
(*                                                                         *)
(* xhci_init enumerates one port after the other and blocks on the event   *)
(* ring; afterwards the readers of drivers/ps2.c call usb_kbd_poll again   *)
(* and again.  The controller works on its own: it executes commands and   *)
(* transfers whenever it gets to them, also after the driver stopped       *)
(* waiting.  The controller and the devices are external, modelled from    *)
(* how the driver uses them.  A transfer that fails does not halt its      *)
(* endpoint, and the controller, once started, does not halt.              *)
(*                                                                         *)
(* The source says that HCRST needs a halted controller, and writes it     *)
(* also when the wait for the halt ran out.  What follows is undefined:    *)
(* here such a reset may take hold all the same, or leave a controller     *)
(* that never serves a ring, whatever its registers say.  What it writes   *)
(* to memory in that state is not modelled.                                *)
(***************************************************************************)
EXTENDS Integers, Sequences, FiniteSets

CONSTANTS
  PORTS,             \* max_ports
  CMD_RING_SIZE, EVENT_RING_SIZE, EP_RING_SIZE,
  FLUSH,             \* events xhci_init flushes before a command
  MaxPortEvents,     \* bound: port status changes
  MaxReports,        \* bound: transfers the keyboards complete
  MaxErrors          \* bound: those of them that fail

ASSUME XhciConstants ==
  /\ {PORTS, FLUSH, MaxPortEvents, MaxReports, MaxErrors} \subseteq Nat
  /\ {CMD_RING_SIZE, EVENT_RING_SIZE} \subseteq Nat
  /\ CMD_RING_SIZE >= 3 /\ EVENT_RING_SIZE >= 2
  /\ EP_RING_SIZE \in Nat /\ EP_RING_SIZE >= 5

Slot == 1 .. PORTS
EP0  == 1            \* doorbell targets
EP1  == 3

VARIABLES
  pc, port, slot_id, got_data, flushed,           \* xhci_init and what it calls
  cmd_ring, cmd_enqueue, cmd_cycle,               \* command ring, driver's end
  event_ring, event_dequeue, event_cycle, erdp,   \* event ring, driver's end
  ep0_ring,                                       \* slot -> its first TRBs
  ep1_ring, ep1_enqueue, ep1_cycle, ep1_configured,
  usb_kbd_slot,
  report,            \* reports put into usb_kbd_report_data and not looked at
  hc,                \* its registers: who owns it, and whether it runs
  xhc,               \* the controller's ends of the command and event rings
  bells,             \* doorbells rung: <<slot, target>>
  slots, addressed,  \* device slots enabled, devices addressed
  ep0_dequeue, ep1,  \* slot -> the controller's end of its rings
  sent,              \* history: commands
  queue,             \* history: events posted and not taken, oldest first
  port_events, completed, errors,
  missed             \* history: what the driver did not wait for or threw away

driver   == <<port, slot_id, got_data, flushed>>
commands == <<cmd_ring, cmd_enqueue, cmd_cycle, sent>>
events   == <<event_dequeue, event_cycle, erdp>>
transfer == <<ep1_ring, ep1_enqueue, ep1_cycle>>
keyboard == <<ep1_configured, usb_kbd_slot>>
inside   == <<slots, addressed, ep0_dequeue, ep1>>
bus      == <<port_events, completed, errors>>
outside  == <<hc, event_ring, xhc, inside, bus, report>>
vars     == <<pc, driver, commands, events, ep0_ring, transfer, keyboard, outside,
              queue, bells, missed>>

Toggle(c) == 1 - c
NoTRB     == [kind |-> "none", cycle |-> 0]
NoCommand == [kind |-> "none", slot |-> 0, id |-> 0, cycle |-> 0]
NoEvent   == [kind |-> "none", slot |-> 0, ok |-> FALSE, of |-> 0, cycle |-> 0]

-----------------------------------------------------------------------------
(* The event ring, driver's end                                            *)

Pending == event_ring[event_dequeue].cycle = event_cycle
Event   == event_ring[event_dequeue]

(* Mutant: the wrap does not turn the cycle state.                         *)
Advance_untoggled ==
  /\ event_dequeue' = (event_dequeue + 1) % EVENT_RING_SIZE
  /\ queue' = Tail(queue)
  /\ UNCHANGED event_cycle

(* The loops that take events all advance so; all but the flush write ERDP *)
(* at once.                                                                *)
Advance ==
  /\ event_dequeue' = (event_dequeue + 1) % EVENT_RING_SIZE
  /\ event_cycle' = IF event_dequeue' = 0 THEN Toggle(event_cycle) ELSE event_cycle
  /\ queue' = Tail(queue)

TakeEvent == Pending /\ Advance /\ erdp' = event_dequeue'

FromKeyboard == Event.kind = "transfer" /\ Event.slot = usb_kbd_slot

(* An event of the keyboard in use that a loop of xhci_init throws away.   *)
ThrownAway == IF ep1_configured /\ FromKeyboard THEN {"report"} ELSE {}

-----------------------------------------------------------------------------
(* Taking over the controller.  Each wait is limited.                      *)

untouched == <<driver, commands, events, ep0_ring, transfer, keyboard, event_ring, xhc,
               inside, bus, report, queue, bells, missed>>

(* A return from xhci_init leaves usb_kbd_poll without a keyboard.         *)
Ends == pc' = "poll" /\ UNCHANGED hc

(* No controller, no memory BAR or no mapping of it.                       *)
xhci_init_fails == pc = "probe" /\ Ends /\ UNCHANGED untouched

(* The firmware lets go or is made to, and cannot come back: the SMI       *)
(* enables are cleared.  Then RS is.                                       *)
xhci_perform_bios_handoff ==
  /\ pc = "probe" /\ pc' = "stop"
  /\ hc' = [hc EXCEPT !.bios = FALSE, !.smi = FALSE, !.rs = FALSE]
  /\ UNCHANGED untouched

(* Halted or not, with a warning only, the controller is reset.            *)
start_reset ==
  /\ pc = "stop" /\ pc' = "reset"
  /\ hc' = [hc EXCEPT !.reset = TRUE, !.wild = hc.run]
  /\ UNCHANGED untouched

reset_timeout == pc = "reset" /\ hc.reset /\ Ends /\ UNCHANGED untouched

(* One frame of the many is missing.                                       *)
no_memory == pc = "reset" /\ ~hc.reset /\ Ends /\ UNCHANGED untouched

(* Mutant: the end of the reset is not waited for.                         *)
init_rings_early ==
  /\ pc = "reset" /\ pc' = "start"
  /\ hc' = [hc EXCEPT !.rings = ~hc.wild, !.rs = TRUE]
  /\ UNCHANGED untouched

(* Memory for contexts, rings and scratchpads, the registers that name it, *)
(* and RS.  The rings are as in Init.                                      *)
init_rings ==
  /\ pc = "reset" /\ ~hc.reset
  /\ pc' = "start"
  /\ hc' = [hc EXCEPT !.rings = ~hc.wild, !.rs = TRUE]
  /\ UNCHANGED untouched

start_timeout == pc = "start" /\ ~hc.run /\ Ends /\ UNCHANGED untouched

power_ports ==
  /\ pc = "start" /\ hc.run
  /\ pc' = "next"
  /\ UNCHANGED <<hc, untouched>>

-----------------------------------------------------------------------------
(* xhci_send_command                                                       *)

RingFull ==
  (cmd_enqueue + 1) % CMD_RING_SIZE \in {CMD_RING_SIZE - 1, 0}

(* The command goes into the ring, doorbell 0 rings, and the driver waits. *)
(* If the ring is full the caller sees a failure at once.                  *)
xhci_send_command(kind, slot, wait, failed) ==
  IF RingFull
  THEN pc' = failed /\ UNCHANGED <<commands, bells>>
  ELSE /\ cmd_ring' = [cmd_ring EXCEPT ![cmd_enqueue] =
                         [kind |-> kind, slot |-> slot, id |-> sent + 1, cycle |-> cmd_cycle]]
       /\ sent' = sent + 1
       /\ IF cmd_enqueue + 1 = CMD_RING_SIZE - 1
            THEN cmd_enqueue' = 0 /\ cmd_cycle' = Toggle(cmd_cycle)
            ELSE cmd_enqueue' = cmd_enqueue + 1 /\ UNCHANGED cmd_cycle
       /\ bells' = bells \cup {<<0, 0>>}
       /\ pc' = wait

(* Any command completion event is taken for the one waited for; other     *)
(* events are dropped.                                                     *)
Waiting == pc \in {"wait_enable", "wait_address", "wait_configure"}
Answer  == Waiting /\ TakeEvent

(* Mutant: any other event ends the wait.                                  *)
ignore_event_returns ==
  /\ Answer /\ Event.kind # "command"
  /\ pc' = "next"
  /\ UNCHANGED <<driver, commands, ep0_ring, transfer, keyboard, outside, bells, missed>>

ignore_event ==
  /\ Answer /\ Event.kind # "command"
  /\ missed' = missed \cup ThrownAway
  /\ UNCHANGED <<pc, driver, commands, ep0_ring, transfer, keyboard, outside, bells>>

(* Also what the caller does when the command failed: it goes on with the  *)
(* next port.                                                              *)
command_failed ==
  /\ Answer /\ Event.kind = "command" /\ ~Event.ok
  /\ pc' = "next"
  /\ UNCHANGED <<driver, commands, ep0_ring, transfer, keyboard, outside, bells, missed>>

command_timeout ==
  /\ Waiting /\ ~Pending
  /\ pc' = "next"
  /\ missed' = missed \cup {"command"}
  /\ UNCHANGED <<driver, commands, events, queue, ep0_ring, transfer, keyboard, outside, bells>>

-----------------------------------------------------------------------------
(* Enumeration                                                             *)

(* A port without a device, or one whose reset times out, is passed over.  *)
next_port ==
  /\ pc = "next"
  /\ IF port = PORTS
       THEN pc' = "poll" /\ UNCHANGED <<port, flushed>>
       ELSE pc' \in {"next", "flush"} /\ port' = port + 1 /\ flushed' = 0
  /\ UNCHANGED <<slot_id, got_data, commands, events, queue, ep0_ring, transfer, keyboard,
                 outside, bells, missed>>

flush_event ==
  /\ pc = "flush" /\ flushed < FLUSH /\ Pending
  /\ Advance
  /\ flushed' = flushed + 1
  /\ missed' = missed \cup ThrownAway
  /\ UNCHANGED <<pc, port, slot_id, got_data, commands, erdp, ep0_ring, transfer,
                 keyboard, outside, bells>>

(* ERDP is written once for all flushed events.                            *)
enable_slot ==
  /\ pc = "flush" /\ (flushed = FLUSH \/ ~Pending)
  /\ erdp' = event_dequeue
  /\ xhci_send_command("enable", 0, "wait_enable", "next")
  /\ UNCHANGED <<driver, event_dequeue, event_cycle, queue, ep0_ring, transfer,
                 keyboard, outside, missed>>

(* Enable Slot answered: xhci_address_device prepares the contexts and     *)
(* sends its command.                                                      *)
xhci_address_device ==
  /\ pc = "wait_enable" /\ Answer /\ Event.kind = "command" /\ Event.ok
  /\ slot_id' = Event.slot
  /\ xhci_send_command("address", Event.slot, "wait_address", "next")
  /\ UNCHANGED <<port, got_data, flushed, ep0_ring, transfer, keyboard, outside, missed>>

(* The device is the keyboard from now on; xhci_get_device_descriptor puts *)
(* setup, data and status stage at the start of its EP0 ring.              *)
xhci_get_device_descriptor ==
  /\ pc = "wait_address" /\ Answer /\ Event.kind = "command" /\ Event.ok
  /\ usb_kbd_slot' = slot_id
  /\ ep0_ring' = [ep0_ring EXCEPT ![slot_id] = <<"get", "data", "status", "none">>]
  /\ bells' = bells \cup {<<slot_id, EP0>>}
  /\ got_data' = 0
  /\ pc' = "descriptor"
  /\ UNCHANGED <<port, slot_id, flushed, commands, transfer, ep1_configured,
                 outside, missed>>

descriptor_event ==
  /\ pc = "descriptor" /\ got_data < 2 /\ TakeEvent
  /\ got_data' = IF Event.kind = "transfer" /\ Event.slot = slot_id
                   THEN got_data + 1 ELSE got_data
  /\ UNCHANGED <<pc, port, slot_id, flushed, commands, ep0_ring, transfer, keyboard,
                 outside, bells, missed>>

(* Mutant: the first event is taken for the end of the transfer.           *)
xhci_configure_kbd_endpoint_early ==
  /\ pc = "descriptor" /\ got_data >= 1
  /\ ep1_ring' = [i \in 0 .. EP_RING_SIZE - 1 |-> NoTRB]
  /\ ep1_enqueue' = 0
  /\ ep1_cycle' = 1
  /\ xhci_send_command("configure", slot_id, "wait_configure", "next")
  /\ UNCHANGED <<driver, events, queue, ep0_ring, keyboard, outside, missed>>

(* Both events seen or none seen for too long: the endpoint's ring starts  *)
(* anew and Configure Endpoint is sent.                                    *)
xhci_configure_kbd_endpoint ==
  /\ pc = "descriptor" /\ (got_data = 2 \/ ~Pending)
  /\ missed' = IF got_data = 2 THEN missed ELSE missed \cup {"descriptor"}
  /\ ep1_ring' = [i \in 0 .. EP_RING_SIZE - 1 |-> NoTRB]
  /\ ep1_enqueue' = 0
  /\ ep1_cycle' = 1
  /\ xhci_send_command("configure", slot_id, "wait_configure", "next")
  /\ UNCHANGED <<driver, events, queue, ep0_ring, keyboard, outside>>

(* Mutant: the Link TRB and the cycle state are left alone at the wrap.    *)
QueueTRB_untoggled(ring, enqueue, cycle) ==
  /\ ep1_ring' = [ring EXCEPT ![enqueue] = [kind |-> "normal", cycle |-> cycle],
                              ![EP_RING_SIZE - 1] = [kind |-> "link", cycle |-> cycle]]
  /\ ep1_enqueue' = (enqueue + 1) % (EP_RING_SIZE - 1)
  /\ UNCHANGED ep1_cycle

(* xhci_queue_kbd_transfer: one Normal TRB; in the last usable place also  *)
(* the Link TRB, and the cycle state turns.                                *)
QueueTRB(ring, enqueue, cycle) ==
  LET usable == EP_RING_SIZE - 1
      new    == [ring EXCEPT ![enqueue] = [kind |-> "normal", cycle |-> cycle]]
  IN  IF enqueue + 1 >= usable
        THEN /\ ep1_ring' = [new EXCEPT ![usable] = [kind |-> "link", cycle |-> cycle]]
             /\ ep1_enqueue' = 0
             /\ ep1_cycle' = Toggle(cycle)
        ELSE /\ ep1_ring' = new
             /\ ep1_enqueue' = enqueue + 1
             /\ UNCHANGED ep1_cycle

(* Configure Endpoint answered: xhci_set_boot_protocol writes two stages   *)
(* at the start of the EP0 ring, xhci_queue_kbd_transfer the first TRB.    *)
xhci_set_boot_protocol ==
  /\ pc = "wait_configure" /\ Answer /\ Event.kind = "command" /\ Event.ok
  /\ ep1_configured' = TRUE
  /\ ep0_ring' = [ep0_ring EXCEPT ![slot_id][1] = "set", ![slot_id][2] = "status"]
  /\ QueueTRB(ep1_ring, ep1_enqueue, ep1_cycle)
  /\ bells' = bells \cup {<<slot_id, EP0>>, <<usb_kbd_slot, EP1>>}
  /\ pc' = "next"
  /\ UNCHANGED <<driver, commands, usb_kbd_slot, outside, missed>>

-----------------------------------------------------------------------------
(* usb_kbd_poll: one turn of its loop.  A transfer event of the keyboard's *)
(* slot is taken for a report, whichever endpoint it is of, and a transfer *)
(* is queued again.                                                        *)

poll_report ==
  /\ pc = "poll" /\ ep1_configured /\ TakeEvent
  /\ FromKeyboard
  /\ report' = IF Event.ok THEN 0 ELSE report
  /\ QueueTRB(ep1_ring, ep1_enqueue, ep1_cycle)
  /\ bells' = bells \cup {<<usb_kbd_slot, EP1>>}
  /\ UNCHANGED <<pc, driver, commands, ep0_ring, keyboard, hc, event_ring, xhc,
                 inside, bus, missed>>

poll_other ==
  /\ pc = "poll" /\ ep1_configured /\ TakeEvent
  /\ ~FromKeyboard
  /\ UNCHANGED <<pc, driver, commands, ep0_ring, transfer, keyboard, outside, bells, missed>>

Driver ==
  \/ xhci_init_fails \/ xhci_perform_bios_handoff \/ start_reset \/ reset_timeout
  \/ no_memory \/ init_rings \/ start_timeout \/ power_ports
  \/ ignore_event \/ command_failed \/ command_timeout
  \/ next_port \/ flush_event \/ enable_slot
  \/ xhci_address_device \/ xhci_get_device_descriptor \/ descriptor_event
  \/ xhci_configure_kbd_endpoint \/ xhci_set_boot_protocol
  \/ poll_report \/ poll_other

-----------------------------------------------------------------------------
(* The controller                                                          *)

software == <<pc, driver, commands, events, ep0_ring, transfer, keyboard, missed>>

(* Registers: bios and smi, the firmware's semaphore and its interrupts;   *)
(* rs and reset, the bits RS and HCRST of USBCMD; run, the opposite of     *)
(* HCH; rings, whether it works on the memory that DCBAAP, CRCR and ERST   *)
(* name; wild, whether it was reset while it ran and did not recover.      *)
hc_stop ==
  /\ hc.run /\ ~hc.rs
  /\ hc' = [hc EXCEPT !.run = FALSE]
  /\ UNCHANGED <<software, event_ring, xhc, inside, bus, report, queue, bells>>

hc_reset ==
  /\ hc.reset
  /\ \/ hc' = [hc EXCEPT !.reset = FALSE, !.wild = FALSE,
                         !.rs = FALSE, !.run = FALSE, !.rings = FALSE]
     \/ /\ hc.wild
        /\ \E rs, run \in BOOLEAN :
             hc' = [hc EXCEPT !.reset = FALSE, !.rs = rs, !.run = run]
  /\ UNCHANGED <<software, event_ring, xhc, inside, bus, report, queue, bells>>

hc_start ==
  /\ hc.rs /\ ~hc.run /\ ~hc.reset
  /\ hc' = [hc EXCEPT !.run = TRUE]
  /\ UNCHANGED <<software, event_ring, xhc, inside, bus, report, queue, bells>>

Operating == hc.run /\ hc.rings

(* It keeps one place free, as told by ERDP.                               *)
Post(kind, slot, ok, of) ==
  /\ Operating
  /\ (xhc.enqueue + 1) % EVENT_RING_SIZE # erdp
  /\ event_ring' = [event_ring EXCEPT ![xhc.enqueue] =
       [kind |-> kind, slot |-> slot, ok |-> ok, of |-> of, cycle |-> xhc.cycle]]
  /\ queue' = Append(queue, event_ring'[xhc.enqueue])

Posted == LET next == (xhc.enqueue + 1) % EVENT_RING_SIZE
          IN  [xhc EXCEPT !.enqueue = next,
                          !.cycle = IF next = 0 THEN Toggle(@) ELSE @]

Command == cmd_ring[xhc.command]

(* The next command, with its effect and its completion event.             *)
xhc_command(ok) ==
  LET Is(kind) == Command.kind = kind /\ ok
      slot     == IF Is("enable") THEN slots + 1 ELSE Command.slot
  IN  /\ <<0, 0>> \in bells /\ Command.cycle = xhc.ccs /\ Command.kind # "link"
      /\ Is("enable") => slots < PORTS
      /\ Is("address") => slot \in 1 .. slots /\ slot \notin addressed
      /\ Is("configure") => slot \in addressed /\ ~ep1[slot].on
      /\ Post("command", slot, ok, Command.id)
      /\ xhc' = [Posted EXCEPT !.command = @ + 1]
      /\ slots' = IF Is("enable") THEN slot ELSE slots
      /\ addressed' = IF Is("address") THEN addressed \cup {slot} ELSE addressed
      /\ ep1' = IF Is("configure")
                  THEN [ep1 EXCEPT ![slot] = [on |-> TRUE, at |-> 0, ccs |-> 1, busy |-> FALSE]]
                  ELSE ep1
      /\ UNCHANGED <<software, hc, ep0_dequeue, bus, report, bells>>

(* One TRB of a control transfer; data and status stages ask for an event. *)
xhc_control(s) ==
  LET trb == ep0_ring[s][ep0_dequeue[s]]
  IN  /\ <<s, EP0>> \in bells /\ s \in addressed /\ Operating
      /\ IF trb = "none"
           THEN /\ bells' = bells \ {<<s, EP0>>}
                /\ UNCHANGED <<event_ring, xhc, queue, ep0_dequeue>>
           ELSE /\ ep0_dequeue' = [ep0_dequeue EXCEPT ![s] = @ + 1]
                /\ IF trb \in {"data", "status"}
                     THEN Post("transfer", s, TRUE, 0) /\ xhc' = Posted
                     ELSE UNCHANGED <<event_ring, xhc, queue>>
                /\ UNCHANGED bells
      /\ UNCHANGED <<software, hc, slots, addressed, ep1, bus, report>>

(* The endpoint looks at its ring after a doorbell until it finds nothing. *)
xhc_fetch(s) ==
  LET trb == ep1_ring[ep1[s].at]
  IN  /\ <<s, EP1>> \in bells /\ ep1[s].on /\ ~ep1[s].busy /\ Operating
      /\ IF trb.kind = "none" \/ trb.cycle # ep1[s].ccs
           THEN bells' = bells \ {<<s, EP1>>} /\ UNCHANGED ep1
           ELSE /\ ep1' = IF trb.kind = "link"
                            THEN [ep1 EXCEPT ![s].at = 0, ![s].ccs = Toggle(@)]
                            ELSE [ep1 EXCEPT ![s].busy = TRUE]
                /\ UNCHANGED bells
      /\ UNCHANGED <<software, hc, event_ring, xhc, queue, slots, addressed, ep0_dequeue, bus,
                     report>>

(* A key is pressed or released: the report lands in the one buffer.       *)
xhc_report(s, ok) ==
  /\ ep1[s].busy /\ completed < MaxReports
  /\ ok \/ errors < MaxErrors
  /\ Post("transfer", s, ok, 0)
  /\ xhc' = Posted
  /\ ep1' = [ep1 EXCEPT ![s].busy = FALSE, ![s].at = @ + 1]
  /\ completed' = completed + 1
  /\ report' = IF ok THEN report + 1 ELSE report
  /\ errors' = IF ok THEN errors ELSE errors + 1
  /\ UNCHANGED <<software, hc, slots, addressed, ep0_dequeue, port_events, bells>>

(* A port changes while the driver resets ports; nothing is plugged later. *)
xhc_port_event ==
  /\ pc # "poll" /\ port_events < MaxPortEvents
  /\ Post("port", 0, TRUE, 0)
  /\ xhc' = Posted
  /\ port_events' = port_events + 1
  /\ UNCHANGED <<software, hc, inside, completed, errors, report, bells>>

Controller ==
  \/ \E ok \in BOOLEAN : xhc_command(ok)
  \/ \E s \in Slot : xhc_control(s) \/ xhc_fetch(s) \/ \E ok \in BOOLEAN : xhc_report(s, ok)

-----------------------------------------------------------------------------
Init ==
  /\ \E legacy, runs \in BOOLEAN :
       hc = [bios |-> legacy, smi |-> legacy, rs |-> runs, run |-> runs,
             reset |-> FALSE, rings |-> FALSE, wild |-> FALSE]
  /\ pc = "probe" /\ port = 0 /\ slot_id = 0 /\ got_data = 0 /\ flushed = 0
  /\ cmd_ring = [i \in 0 .. CMD_RING_SIZE - 1 |->
       IF i = CMD_RING_SIZE - 1 THEN [NoCommand EXCEPT !.kind = "link", !.cycle = 1]
                                ELSE NoCommand]
  /\ cmd_enqueue = 0 /\ cmd_cycle = 1
  /\ event_ring = [i \in 0 .. EVENT_RING_SIZE - 1 |-> NoEvent]
  /\ event_dequeue = 0 /\ event_cycle = 1 /\ erdp = 0
  /\ ep0_ring = [s \in Slot |-> <<"none", "none", "none", "none">>]
  /\ ep1_ring = [i \in 0 .. EP_RING_SIZE - 1 |-> NoTRB]
  /\ ep1_enqueue = 0 /\ ep1_cycle = 1 /\ ep1_configured = FALSE
  /\ usb_kbd_slot = 0 /\ report = 0
  /\ xhc = [command |-> 0, ccs |-> 1, enqueue |-> 0, cycle |-> 1]
  /\ bells = {} /\ slots = 0 /\ addressed = {}
  /\ ep0_dequeue = [s \in Slot |-> 1]
  /\ ep1 = [s \in Slot |-> [on |-> FALSE, at |-> 0, ccs |-> 1, busy |-> FALSE]]
  /\ sent = 0 /\ queue = <<>>
  /\ port_events = 0 /\ completed = 0 /\ errors = 0
  /\ missed = {}

Next == Driver \/ Controller \/ xhc_port_event \/ hc_stop \/ hc_reset \/ hc_start

(* The driver never stops, the controller gets to its work, and someone    *)
(* keeps typing.                                                           *)
Spec == Init /\ [][Next]_vars /\ WF_vars(Driver) /\ WF_vars(Controller)

-----------------------------------------------------------------------------
(* Properties                                                              *)

(* From the first port on, however long the reset and the start took, the  *)
(* firmware neither owns the controller nor is called for it, no reset is  *)
(* still to come that would take the rings away, and the controller runs   *)
(* on the ones it was given - unless it was reset while it still ran and   *)
(* went wild: of that the driver only warns, and goes on all the same.     *)
DriverOwns ==
  pc \notin {"probe", "stop", "reset", "start"} /\ (port > 0 \/ pc # "poll") =>
    ~hc.bios /\ ~hc.smi /\ ~hc.reset /\ (~hc.wild => Operating /\ hc.rs)

(* The cycle bits make the event ring a queue: the driver sees an event    *)
(* exactly when one is posted and not taken, and it is the oldest, across  *)
(* every wrap of the ring and every loop that reads it.                    *)
EventsInOrder ==
  /\ Pending <=> queue # <<>>
  /\ Pending => Event = Head(queue)

(* As long as no wait for a command timed out, the command completion the  *)
(* driver is about to take is that of the command it sent last, although   *)
(* it compares nothing but the type of the event.                          *)
AnswersMatch ==
  Waiting /\ Pending /\ Event.kind = "command" /\ "command" \notin missed =>
    Event.of = sent

(* One keyboard was found, and no command answer was missed.               *)
OneKeyboard == Cardinality(addressed) <= 1 /\ "command" \notin missed

(* Then each report is processed once, in order: none is overwritten in    *)
(* the buffer before it was looked at, none looked at twice.               *)
ReportsProcessedOnce ==
  OneKeyboard /\ missed = {} =>
    /\ report <= 1
    /\ pc = "poll" /\ Pending /\ FromKeyboard /\ Event.ok => report = 1

Alive == completed = MaxReports /\ queue = <<>>

(* And the keyboard goes on working: as long as someone types, transfers   *)
(* are queued, completed and their events taken, around the transfer ring, *)
(* unless one of its events was thrown away while ports were enumerated.   *)
KeyboardKeepsWorking ==
  LET Works == OneKeyboard /\ ep1_configured /\ "report" \notin missed
  IN  Works ~> (Alive \/ ~Works)
=============================================================================
