------------------------------- MODULE MCAcpi -------------------------------
(* Machines that differ from a plain one in one respect, or in two that    *)
(* meet in the same step.                                                  *)
EXTENDS Acpi

Lapic(id, on) == [type |-> "lapic", enabled |-> on, id |-> id, length |-> 1, body |-> FALSE]
Entry(t, n)   == [type |-> t, enabled |-> FALSE, id |-> 0, length |-> n, body |-> FALSE]
Body(e)       == [e EXCEPT !.body = TRUE]
S5(a, b)      == [op |-> "package", a |-> a, b |-> b]

Plain ==
  [rsdp |-> "given", revision |-> 2, xsdt |-> <<"FACP", "APIC">>, rsdt |-> <<>>,
   madt |-> <<Lapic(4, TRUE), Lapic(5, TRUE)>>,
   fadt_revision |-> 2, boot_arch_8042 |-> TRUE, i8042 |-> TRUE,
   smi |-> FALSE, sci |-> FALSE, ports |-> {},
   pm1 |-> [a |-> TRUE, b |-> FALSE], s5 |-> [a |-> 7, b |-> 7], s3 |-> [a |-> 5, b |-> 5],
   dsdt |-> <<S5(7, 7)>>,
   reset |-> [supported |-> FALSE, space |-> "io", width |-> 8]]

Madts ==
  {<<>>, <<Lapic(4, FALSE), Entry("other", 2), Body(Lapic(9, TRUE)),
          Entry("ioapic", 1), Lapic(6, TRUE)>>,
   <<Entry("other", 1), Lapic(1, TRUE), Lapic(2, FALSE), Lapic(3, TRUE), Lapic(4, TRUE)>>,
   <<Lapic(1, TRUE), Entry("override", 0)>>}

Dsdts ==
  {<<>>, <<S5(NONE, NONE), S5(7, 7)>>, <<[op |-> "other", a |-> 0, b |-> 0], S5(7, 7)>>,
   <<S5(7, NONE)>>}

MCFirmware ==
  {Plain} \cup
  {[Plain EXCEPT !.madt = m] : m \in Madts} \cup
  {[Plain EXCEPT !.rsdp = "none"], [Plain EXCEPT !.xsdt = <<"APIC">>],
   [Plain EXCEPT !.revision = 0, !.rsdt = <<"FACP">>],
   [Plain EXCEPT !.xsdt = <<>>, !.rsdt = <<"FACP", "APIC">>],
   [Plain EXCEPT !.xsdt = <<>>]} \cup
  {[Plain EXCEPT !.smi = TRUE, !.sci = c] : c \in BOOLEAN} \cup
  {[Plain EXCEPT !.dsdt = d] : d \in Dsdts} \cup
  {[Plain EXCEPT !.dsdt = <<>>, !.s5 = [a |-> t, b |-> t],
                 !.s3 = [a |-> (t + 5) % 8, b |-> (t + 5) % 8], !.pm1 = p] :
     t \in {0, 5, 6}, p \in [{"a", "b"} -> BOOLEAN]} \cup
  {[Plain EXCEPT !.dsdt = <<S5(6, 1)>>, !.s5 = [a |-> 6, b |-> 1],
                 !.pm1 = [a |-> TRUE, b |-> TRUE]]} \cup
  {[Plain EXCEPT !.ports = {p}, !.dsdt = <<>>] : p \in {"604", "B004", "4004", "cf9"}} \cup
  {[Plain EXCEPT !.i8042 = FALSE, !.boot_arch_8042 = f, !.fadt_revision = r] :
     f \in BOOLEAN, r \in {1, 2}} \cup
  {[Plain EXCEPT !.ports = {"reset"}, !.i8042 = FALSE, !.boot_arch_8042 = FALSE,
                 !.reset = [supported |-> TRUE, space |-> s, width |-> w]] :
     s \in {"memory", "io", "pci"}, w \in {8, 64}}
=============================================================================
