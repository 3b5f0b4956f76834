----------------------------- MODULE Keyboard -----------------------------
(***************************************************************************)
(* kbdgetc() of project01/xv6-public (kbd.c, kbd.h): the bytes a keyboard  *)
(* sends when keys go down and up, decoded with the static variable shift. *)
(*                                                                         *)
(* A key is its row in the tables of kbd.h.  One above 16r80 is extended:  *)
(* it sends 16rE0 before its code, which has bit 7 cleared on the way down.*)
(***************************************************************************)
EXTENDS Integers, Sequences, FiniteSets

CONSTANTS Keys      \* rows of the tables

(* No key has a code whose release is the byte 16rE0.                      *)
ASSUME KeyboardAssumption == Keys \subseteq 0 .. 255 /\ Keys \cap {96, 224} = {}

VARIABLES kbd       \* held: keys that are down; line: bytes not yet read;
                    \* shift, and c, what kbdgetc() returned last

kbdvars == <<kbd>>

E0 == 224
Shiftcode(d) ==
  CASE d \in {29, 157} -> {"CTL"}
    [] d \in {42, 54} -> {"SHIFT"}
    [] d \in {56, 184} -> {"ALT"}
    [] OTHER -> {}
Togglecode(d) == CASE d = 58 -> {"CAPSLOCK"} [] d = 69 -> {"NUMLOCK"} [] OTHER -> {}
Letter(d) == d = 30

KeyboardInit == kbd = [held |-> {}, line |-> <<>>, shift |-> {}, c |-> "none"]

Extended(k) == k >= 128
Down(k) == IF Extended(k) THEN <<E0, k - 128>> ELSE <<k>>
Up(k) == IF Extended(k) THEN <<E0, k>> ELSE <<k + 128>>

KeyDown(k) ==      \* again and again while it is held
  /\ kbd.line = <<>>
  /\ kbd' = [kbd EXCEPT !.held = @ \cup {k}, !.line = Down(k)]

KeyUp(k) ==
  /\ kbd.line = <<>> /\ k \in kbd.held
  /\ kbd' = [kbd EXCEPT !.held = @ \ {k}, !.line = Up(k)]

(* A key that went up: its row, unless escaped, without bit 7.              *)
Released(shift, d) ==
  shift \ (Shiftcode(IF "E0ESC" \in shift THEN d ELSE d - 128) \cup {"E0ESC"})

Toggled(shift, s) == (shift \ s) \cup (s \ shift)

CharOf(shift, d) ==
  IF ~Letter(d) THEN "none"
  ELSE IF "CTL" \in shift THEN "control"
  ELSE IF ("SHIFT" \in shift) # ("CAPSLOCK" \in shift) THEN "upper" ELSE "lower"

Kbdgetc ==
  LET data == Head(kbd.line)
      row == IF "E0ESC" \in kbd.shift THEN data + 128 ELSE data
      now == Toggled((kbd.shift \ {"E0ESC"}) \cup Shiftcode(row), Togglecode(row))
      rest == [kbd EXCEPT !.line = Tail(@), !.c = "none"]
  IN  /\ kbd.line # <<>>
      /\ kbd' = IF data = E0 THEN [rest EXCEPT !.shift = @ \cup {"E0ESC"}]
                ELSE IF data >= 128 THEN [rest EXCEPT !.shift = Released(@, data)]
                ELSE [rest EXCEPT !.shift = now, !.c = CharOf(now, row)]

KeyboardNext == Kbdgetc \/ \E k \in Keys : KeyDown(k) \/ KeyUp(k)
KeyboardSpec == KeyboardInit /\ [][KeyboardNext]_kbdvars

-----------------------------------------------------------------------------
(* Once the bytes are read the escape is over, no modifier stays that no   *)
(* key holds down, and no letter is a control character without one: two   *)
(* keys of one modifier, extended or not, in any order of going up.        *)
NoModifierStuck ==
  kbd.line = <<>> =>
    /\ "E0ESC" \notin kbd.shift
    /\ kbd.shift \cap {"CTL", "SHIFT", "ALT"} \subseteq UNION {Shiftcode(k) : k \in kbd.held}
    /\ kbd.c = "control" => {29, 157} \cap kbd.held # {}
=============================================================================
