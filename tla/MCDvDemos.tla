------------------------------ MODULE MCDvDemos ------------------------------
(***************************************************************************)
(* The demonstrations, with two notes, and a character that plays none.    *)
(***************************************************************************)
EXTENDS DvDemos

MCKeys   == {"a", "w"}
MCNoteOf == [c \in MCKeys |-> CASE c = "a" -> 60 [] c = "w" -> 61 [] OTHER -> 0]

Beats(bit, flicker) == [BitDriver |-> bit, FlickerDriver |-> flicker]
MCMaxBeats  == [dvska |-> Beats(4, 1), osek |-> Beats(2, 1), hid |-> Beats(0, 2),
                midi |-> Beats(0, 0), serial |-> Beats(0, 0)]
MCMaxInputs == [dvska |-> {[uart |-> 0, usb |-> 0]}, osek |-> {[uart |-> 0, usb |-> 0]},
                hid    |-> {[uart |-> 0, usb |-> 1]},
                midi   |-> {[uart |-> 2, usb |-> 0], [uart |-> 0, usb |-> 1]},
                serial |-> {[uart |-> 1, usb |-> 0], [uart |-> 0, usb |-> 2]}]
=============================================================================
