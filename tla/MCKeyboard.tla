----------------------------- MODULE MCKeyboard -----------------------------
(***************************************************************************)
(* Keyboard for TLC: some keys, a short buffer.                            *)
(***************************************************************************)
EXTENDS Keyboard

\* Reads as get_char makes them, and reads that empty the buffer.
MCGetFlags == {{}, {"ONLY_ASCII"}, {"CLEAR_BUFFER"}, {"ONLY_ASCII", "CLEAR_BUFFER"}}
=============================================================================
