------------------------------ MODULE Keyboard ------------------------------
(***************************************************************************)
(* The keyboard input path: the ring buffer of drivers/ps2.c, which the    *)
(* PS/2 interrupt handler and the USB HID decoder of usb_hid.c fill and    *)
(* ps2_getchar or try_getchar empties, and the display mode of nvec.c that *)
(* decides whether keys reach it.                                          *)
(*                                                                         *)
(* There is one CPU.  The reader runs either in the embedded init shell,   *)
(* which calls try_getchar with interrupts enabled, or in a system call,   *)
(* which calls ps2_getchar with IF masked by SFMASK (in_syscall).          *)
(* An interrupt handler runs to completion; the reader is interrupted      *)
(* between any two accesses to what both share.  The 8042 and the USB      *)
(* keyboard are external.                                                  *)
(***************************************************************************)
EXTENDS Integers, Sequences, FiniteSets, SequencesExt

CONSTANTS
  Letter,      \* keys with a character
  Codes,       \* the scancodes the PS/2 keyboard sends
  Reports,     \* the boot protocol reports the USB keyboard sends
  RING,        \* 256
  g_i8042_present,
  MaxKeys,     \* bound on scancodes and reports
  None

Modifier == {"shift", "ctrl", "alt"}
Lock     == {"caps", "numlock"}

(* A byte from the keyboard.  make is bit 7 clear: the prefix 0xE0 and the *)
(* answers 0xFA and 0xFE have it set, like the break codes.                *)
Key      == Letter \cup Modifier \cup Lock \cup {"F10", "keypad"}
Scancode == [key : Key, make : BOOLEAN] \cup [key : {"e0", "ack"}, make : {FALSE}]

(* What input_add_char receives: the key and what was held with it.        *)
Char == (Letter \cup {"keypad"}) \X {"plain", "shift", "ctrl"}

ASSUME KeyboardConstants ==
  /\ Codes \subseteq Scancode /\ None \notin Reports \cup Char
  /\ Reports \subseteq [mods : SUBSET Modifier, keys : SUBSET (Letter \cup {"F10"})]
  /\ \A report \in Reports : IsFiniteSet(report.keys)
  /\ RING \in Nat /\ RING > 1
  /\ g_i8042_present \in BOOLEAN
  /\ MaxKeys \in Nat

VARIABLES
  in_syscall,   \* the reader is ps2_getchar in a system call
  in_head, in_tail, in_buf,
  keys,         \* the static flags of ps2_handle_interrupt that are set
  prev,         \* prev_keycodes of usb_hid.c
  g_mode,       \* "shell" or "graphics"
  obf, data,    \* 8042: output buffer full, and its last byte
  irq,          \* IRQ1 pending in the PIC
  usb,          \* the report of the one outstanding transfer, or None
  pressed,      \* scancodes and reports sent so far
  reader,       \* where the reader is
  sc,           \* its scancode
  todo,         \* characters it has decoded and not yet added
  next,         \* its local of input_add_char
  back,         \* where it goes after adding
  accepted,     \* characters input_add_char was given while there was room
  consumed      \* characters returned to the caller

ring    == <<in_head, in_tail, in_buf>>
device  == <<obf, data, irq, usb, pressed>>
local   == <<reader, sc, todo, next, back>>
kbdVars == <<in_syscall, ring, keys, prev, g_mode, device, local, accepted, consumed>>

-----------------------------------------------------------------------------
(* Decoding                                                                *)

nvec_toggle == IF g_mode = "shell" THEN "graphics" ELSE "shell"

(* ps2_handle_interrupt below the read of the data port.  A byte with bit  *)
(* 7 set is a break code; the test for the prefix comes after and is never *)
(* true.  In graphics mode only modifiers and Ctrl+Alt+F10 count.          *)
Chord(code) == code.make /\ code.key = "F10" /\ {"ctrl", "alt"} \subseteq keys

ModeAfter(code) == IF Chord(code) THEN nvec_toggle ELSE g_mode

KeysAfter(code) ==
  LET flipped == IF g_mode = "shell" THEN Lock \cap {code.key} ELSE {}
      ends    == IF \/ code.key \in Letter \cup {"F10"}
                    \/ g_mode = "graphics" /\ code.key \notin Modifier
                   THEN {"extended"} ELSE {}
  IN  IF code.key = "ack" THEN keys
      ELSE IF ~code.make  THEN keys \ ((Modifier \cap {code.key}) \cup {"extended"})
      ELSE IF code.key = "e0" THEN keys \cup {"extended"}
      ELSE SymDiff(keys \cup (Modifier \cap {code.key}), flipped) \ ends

CharsOf(code) ==
  IF ~code.make \/ g_mode = "graphics" THEN <<>>
  ELSE IF code.key = "keypad" /\ "numlock" \in keys THEN << <<"keypad", "plain">> >>
  ELSE IF code.key \in Letter
    THEN << <<code.key, IF {"shift", "caps"} \cap keys = {} THEN "plain" ELSE "shift">> >>
  ELSE <<>>

(* usb_kbd_process_report: only newly pressed keys count, and F10 toggles  *)
(* the mode with Ctrl alone.                                               *)
Fresh(report) == report.keys \ prev

UsbModeAfter(report) ==
  IF "F10" \in Fresh(report) /\ "ctrl" \in report.mods THEN nvec_toggle ELSE g_mode

UsbCharsOf(report) ==
  LET how   == IF "ctrl" \in report.mods THEN "ctrl"
               ELSE IF "shift" \in report.mods THEN "shift" ELSE "plain"
      order == SetToSeq(Fresh(report) \cap Letter)
  IN  IF UsbModeAfter(report) = "graphics" THEN <<>>
      ELSE [i \in DOMAIN order |-> <<order[i], how>>]

-----------------------------------------------------------------------------
(* The interrupt: irq_handler with ps2_handle_interrupt and input_add_char *)
(* inside, whole.                                                          *)

Succ(i) == (i + 1) % RING

(* Mutant: no test for a full ring.                                        *)
Full_never == FALSE

Full == Succ(in_head) = in_tail

InterruptsOn == ~in_syscall \/ reader = "caller"

irq_handler ==
  LET out == CharsOf(data)
      adds == obf /\ out # <<>> /\ ~Full
  IN  /\ irq /\ InterruptsOn /\ g_i8042_present
      /\ irq' = FALSE
      /\ obf' = FALSE
      /\ keys' = IF obf THEN KeysAfter(data) ELSE keys
      /\ g_mode' = IF obf THEN ModeAfter(data) ELSE g_mode
      /\ in_buf' = IF adds THEN [in_buf EXCEPT ![in_head] = out[1]] ELSE in_buf
      /\ in_head' = IF adds THEN Succ(in_head) ELSE in_head
      /\ accepted' = IF adds THEN accepted \o out ELSE accepted
      /\ UNCHANGED <<in_tail, prev, data, usb, pressed, local, consumed>>

-----------------------------------------------------------------------------
(* The reader                                                              *)

Goto(from, to) == reader = from /\ reader' = to

call_reader ==
  /\ Goto("caller", "start")
  /\ UNCHANGED <<ring, keys, prev, g_mode, device, sc, todo, next, back,
                 accepted, consumed>>

(* ps2_getchar polls only while the ring is empty, and USB only in shell   *)
(* mode; try_getchar always polls both.                                    *)
reader_start ==
  /\ \/ /\ in_syscall /\ in_head # in_tail
        /\ Goto("start", "take")
     \/ /\ in_syscall /\ in_head = in_tail
        /\ Goto("start", IF g_mode = "graphics" THEN "status" ELSE "usb")
     \/ /\ ~in_syscall
        /\ Goto("start", "usb")
  /\ UNCHANGED <<ring, keys, prev, g_mode, device, sc, todo, next, back,
                 accepted, consumed>>

(* usb_kbd_poll: one transfer is outstanding, and it is queued again once  *)
(* its report has been processed.                                          *)
usb_kbd_poll ==
  /\ \/ /\ usb = None
        /\ Goto("usb", "status")
        /\ UNCHANGED <<prev, g_mode, usb, todo, back>>
     \/ /\ usb # None
        /\ Goto("usb", "add")
        /\ prev' = usb.keys
        /\ g_mode' = UsbModeAfter(usb)
        /\ todo' = UsbCharsOf(usb)
        /\ usb' = None
        /\ back' = "usb"
  /\ UNCHANGED <<ring, keys, obf, data, irq, pressed, sc, next, accepted, consumed>>

(* Mutant: the controller is left to the interrupt.                        *)
poll_status_none ==
  /\ Goto("status", "polled")
  /\ UNCHANGED <<ring, keys, prev, g_mode, device, sc, todo, next, back,
                 accepted, consumed>>

(* The status port is read by the caller and again by the handler.         *)
poll_status ==
  /\ \/ reader = "status"  /\ reader' = IF g_i8042_present /\ obf THEN "status2" ELSE "polled"
     \/ reader = "status2" /\ reader' = IF obf THEN "data" ELSE "polled"
  /\ UNCHANGED <<ring, keys, prev, g_mode, device, sc, todo, next, back,
                 accepted, consumed>>

(* The data port gives its last byte whether or not it was read before.    *)
read_data ==
  /\ Goto("data", "decode")
  /\ sc' = data
  /\ obf' = FALSE
  /\ UNCHANGED <<ring, keys, prev, g_mode, data, irq, usb, pressed, todo, next, back,
                 accepted, consumed>>

ps2_handle_polled ==
  /\ Goto("decode", "add")
  /\ keys' = KeysAfter(sc)
  /\ g_mode' = ModeAfter(sc)
  /\ todo' = CharsOf(sc)
  /\ back' = "polled"
  /\ UNCHANGED <<ring, prev, device, sc, next, accepted, consumed>>

(* input_add_char in the reader: the successor of in_head, then the test   *)
(* and the store at what in_head is by then, then the new in_head.         *)
input_add_char ==
  /\ \/ /\ todo = <<>>
        /\ Goto("add", back)
        /\ UNCHANGED <<in_buf, in_head, todo, next, accepted>>
     \/ /\ todo # <<>>
        /\ Goto("add", "store")
        /\ next' = Succ(in_head)
        /\ accepted' = IF Full THEN accepted ELSE Append(accepted, Head(todo))
        /\ UNCHANGED <<in_buf, in_head, todo>>
     \/ /\ next = in_tail
        /\ Goto("store", "add")
        /\ todo' = Tail(todo)
        /\ UNCHANGED <<in_buf, in_head, next, accepted>>
     \/ /\ next # in_tail
        /\ Goto("store", "head")
        /\ in_buf' = [in_buf EXCEPT ![in_head] = Head(todo)]
        /\ UNCHANGED <<in_head, todo, next, accepted>>
     \/ /\ Goto("head", "add")
        /\ in_head' = next
        /\ todo' = Tail(todo)
        /\ UNCHANGED <<in_buf, next, accepted>>
  /\ UNCHANGED <<in_tail, keys, prev, g_mode, device, sc, back, consumed>>

(* try_getchar returns -1 on an empty ring, ps2_getchar goes round again.  *)
after_poll ==
  /\ Goto("polled", IF in_syscall THEN "start"
                    ELSE IF in_head = in_tail THEN "caller" ELSE "take")
  /\ UNCHANGED <<ring, keys, prev, g_mode, device, sc, todo, next, back,
                 accepted, consumed>>

(* Mutant: in_tail stays where it is.                                      *)
take_char_keeps ==
  /\ reader = "take" /\ reader' \in {"caller", "start"}
  /\ consumed' = Append(consumed, in_buf[in_tail])
  /\ UNCHANGED <<ring, keys, prev, g_mode, device, sc, todo, next, back, accepted>>

(* sys_read takes several characters before it returns.                    *)
take_char ==
  /\ reader = "take" /\ reader' \in {"caller", "start"}
  /\ consumed' = Append(consumed, in_buf[in_tail])
  /\ in_tail' = Succ(in_tail)
  /\ UNCHANGED <<in_head, in_buf, keys, prev, g_mode, device, sc, todo, next, back,
                 accepted>>

Reader ==
  \/ call_reader \/ reader_start \/ usb_kbd_poll \/ poll_status \/ read_data
  \/ ps2_handle_polled \/ input_add_char \/ after_poll \/ take_char

-----------------------------------------------------------------------------
(* The hardware                                                            *)

Ps2Byte(code) ==
  /\ g_i8042_present /\ ~obf
  /\ pressed < MaxKeys
  /\ obf' = TRUE /\ data' = code /\ irq' = TRUE
  /\ pressed' = pressed + 1
  /\ UNCHANGED <<ring, keys, prev, g_mode, usb, local, accepted, consumed>>

UsbReport(report) ==
  /\ usb = None
  /\ pressed < MaxKeys
  /\ usb' = report
  /\ pressed' = pressed + 1
  /\ UNCHANGED <<ring, keys, prev, g_mode, obf, data, irq, local, accepted, consumed>>

KbdInit ==
  /\ in_syscall \in BOOLEAN
  /\ in_head = 0 /\ in_tail = 0
  /\ in_buf = [i \in 0 .. RING - 1 |-> None]
  /\ keys = {} /\ prev = {}
  /\ g_mode = "shell"
  /\ obf = FALSE /\ irq = FALSE
  /\ data = [key |-> "ack", make |-> FALSE]
  /\ usb = None /\ pressed = 0
  /\ reader = "caller" /\ sc = [key |-> "ack", make |-> FALSE]
  /\ todo = <<>> /\ next = 0 /\ back = "usb"
  /\ accepted = <<>> /\ consumed = <<>>

KbdNext ==
  /\ \/ Reader
     \/ irq_handler
     \/ \E code \in Codes : Ps2Byte(code)
     \/ \E report \in Reports : UsbReport(report)
  /\ UNCHANGED in_syscall

(* The reader never waits, and its callers (the init shell, the panic      *)
(* shell, rash) call it for ever.                                          *)
KbdSpec == KbdInit /\ [][KbdNext]_kbdVars /\ WF_kbdVars(Reader /\ UNCHANGED in_syscall)

-----------------------------------------------------------------------------
(* Properties                                                              *)

(* Ring indices and flags keep their range, with the reader's copy of the  *)
(* head taken at any moment, and the ring holds only characters.           *)
TypeOK ==
  /\ in_head \in 0 .. RING - 1 /\ in_tail \in 0 .. RING - 1 /\ next \in 0 .. RING - 1
  /\ in_buf \in [0 .. RING - 1 -> Char \cup {None}]
  /\ keys \subseteq Modifier \cup Lock \cup {"extended"}
  /\ g_mode \in {"shell", "graphics"}
  /\ todo \in Seq(Char) /\ accepted \in Seq(Char) /\ consumed \in Seq(Char)

Unread == [i \in 1 .. (in_head - in_tail + RING) % RING |->
             in_buf[(in_tail + i - 1) % RING]]

SubsequenceOf(s, t) ==
  \E at \in [DOMAIN s -> DOMAIN t] :
    /\ \A i, j \in DOMAIN s : i < j => at[i] < at[j]
    /\ \A i \in DOMAIN s : s[i] = t[at[i]]

Adding == reader \in {"store", "head"}

(* With interrupts masked, as in every system call, every character that   *)
(* found room in the ring is returned to the caller, once and in order:    *)
(* "both PS/2 and USB feed the same queue".  With interrupts on it is not  *)
(* so: IRQ1 between the two accesses of input_add_char to in_head loses    *)
(* the key that the handler added.                                         *)
MaskedKeysDelivered == in_syscall /\ ~Adding => consumed \o Unread = accepted

(* Interrupted or not, the ring yields nothing but characters that were    *)
(* added, in the order they were added: no stale slot becomes readable,    *)
(* none twice.                                                             *)
DeliveredInOrder == SubsequenceOf(consumed \o Unread, accepted)

(* A byte in the controller is taken out and a character in the ring is    *)
(* read, by polling if the interrupt never comes, in either mode.          *)
InputIsRead == /\ obf ~> ~obf
               /\ (in_head # in_tail) ~> (in_head = in_tail)
=============================================================================
