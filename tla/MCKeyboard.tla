----------------------------- MODULE MCKeyboard -----------------------------
EXTENDS Keyboard

Make(k)  == [key |-> k, make |-> TRUE]
Break(k) == [key |-> k, make |-> FALSE]

(* Enough to type, to change case, to number and to switch the mode.       *)
MCCodes == {Make("a"), Break("a"), Make("shift"), Make("caps"), Make("numlock"),
            Make("keypad"), Make("ctrl"), Make("alt"), Make("F10"),
            Break("e0"), Break("ack")}

Report(mods, ks) == [mods |-> mods, keys |-> ks]

MCReports == {Report({}, {}), Report({}, {"b"}), Report({"ctrl", "alt"}, {"F10"})}
=============================================================================
