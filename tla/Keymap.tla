-------------------------------- MODULE Keymap --------------------------------
(* What a key types (drivers/keymap.rs), over one key of each kind: a letter, *)
(* a symbol with a shifted form, one without, an escape sequence, no bytes.   *)

Codes == {"KeyA", "Key1", "KeySpace", "KeyUp", "KeyF1"}
LOWER == [KeyA |-> "a", Key1 |-> "1", KeySpace |-> " ", KeyF1 |-> "none"]
UPPER == [KeyA |-> "none", Key1 |-> "!", KeySpace |-> "none", KeyF1 |-> "none"]
SPECIAL_KEYS == [KeyUp |-> <<"ESC", "[", "A">>]

\* mods: the set of "shift", "ctrl" and "caps" in force.
bytes(code, mods) ==
  IF code \in DOMAIN SPECIAL_KEYS THEN SPECIAL_KEYS[code]
  ELSE LET letter == code = "KeyA"
           c == IF letter
                THEN IF "ctrl" \in mods THEN "^A"
                     ELSE IF ("shift" \in mods) # ("caps" \in mods) THEN "A" ELSE "a"
                ELSE IF "shift" \in mods /\ UPPER[code] # "none" THEN UPPER[code]
                ELSE LOWER[code]
       IN  IF c = "none" THEN <<>> ELSE <<c>>
===============================================================================
