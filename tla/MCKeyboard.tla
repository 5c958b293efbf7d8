----------------------------- MODULE MCKeyboard -----------------------------
(* The keys A and Enter and one with a code beyond the keymaps; room for two *)
(* changes of a key.                                                         *)
EXTENDS Keyboard, TLC

MCLower == 28 :> "NL" @@ 30 :> "a"
MCUpper == 28 :> "NL" @@ 30 :> "A"
=============================================================================
