------------------------------ MODULE Keyboard ------------------------------
(***************************************************************************)
(* The keyboard driver (arch/i386/arch/devices/i8042.c): translation of    *)
(* scan codes, one byte per interrupt, with the two pieces of state that   *)
(* go from one byte to the next (the prefix E0 and the modifier keys held  *)
(* down), and the buffer of keystrokes that programs read.                 *)
(*                                                                         *)
(* A stored keystroke is a character in lower or upper case ("char",       *)
(* "CHAR"), a code of a modifier key ("special", bits 15-8), or "phantom": *)
(* the code of a modifier key in the bits of a character.  The bits of the *)
(* held modifiers that are stored with it are left out.  The driver is     *)
(* initialised without flags: no echo, no raw keystrokes.                  *)
(*                                                                         *)
(* The keyboard and its controller are external.  A key that is pressed or *)
(* released sends one or two scan codes; a code waits in the controller    *)
(* until the interrupt handler has read it.                                *)
(***************************************************************************)
EXTENDS Ring, FiniteSetsExt

CONSTANTS
    PhysKey,    \* the keys of the keyboard, a subset of AllKeys
    GetFlags,   \* the flags programs read with
    MaxCodes    \* bound: scan codes waiting in keyboard and controller

AllKeys == {"letter", "arrow", "LSHIFT", "RSHIFT", "LCTRL", "RCTRL", "LALT", "RALT",
            "CAPSL"}

ASSUME KeyboardAssumption ==
    /\ PhysKey \subseteq AllKeys
    /\ GetFlags \subseteq SUBSET {"ONLY_ASCII", "ONLY_LAST", "CLEAR_BUFFER"}
    /\ MaxCodes \in Nat

\* The scan codes of keys: pressed, released.
down == [letter |-> <<"1E">>, arrow |-> <<"E0", "4B">>, LSHIFT |-> <<"2A">>,
         RSHIFT |-> <<"36">>, LCTRL |-> <<"1D">>, RCTRL |-> <<"E0", "1D">>,
         LALT |-> <<"38">>, RALT |-> <<"E0", "38">>, CAPSL |-> <<"3A">>]
up == [letter |-> <<"9E">>, arrow |-> <<"E0", "CB">>, LSHIFT |-> <<"AA">>,
       RSHIFT |-> <<"B6">>, LCTRL |-> <<"9D">>, RCTRL |-> <<"E0", "9D">>,
       LALT |-> <<"B8">>, RALT |-> <<"E0", "B8">>, CAPSL |-> <<"BA">>]

Keystroke == {"char", "CHAR", "special", "phantom"}
NoKey == "0"

VARIABLES
    keyb,           \* keyb_buffer, buf_first, buf_last, buf_size
    spec_keys_down, \* the modifiers whose bit is set
    multi_code,     \* the last code was E0
    held,           \* external: keys held down
    codes           \* external: scan codes not yet read

keybvars == <<keyb, spec_keys_down, multi_code, held, codes>>

i8042_init ==
    /\ keyb = empty_ring(NoKey)
    /\ spec_keys_down = {} /\ multi_code = FALSE
    /\ held = {} /\ codes = <<>>

press(key) ==
    /\ key \notin held /\ Len(codes \o down[key]) <= MaxCodes
    /\ held' = held \cup {key} /\ codes' = codes \o down[key]
    /\ UNCHANGED <<keyb, spec_keys_down, multi_code>>

release(key) ==
    /\ key \in held /\ Len(codes \o up[key]) <= MaxCodes
    /\ held' = held \ {key} /\ codes' = codes \o up[key]
    /\ UNCHANGED <<keyb, spec_keys_down, multi_code>>

-----------------------------------------------------------------------------
\* Translation

\* The modifiers a single code, or a code after E0, sets and clears.
single_down == [x \in {"2A", "36", "1D", "38"} |->
    CASE x = "2A" -> "LSHIFT" [] x = "36" -> "RSHIFT" [] x = "1D" -> "LCTRL" [] x = "38" -> "LALT"]
single_up == [x \in {"AA", "B6", "9D", "B8"} |->
    CASE x = "AA" -> "LSHIFT" [] x = "B6" -> "RSHIFT" [] x = "9D" -> "LCTRL" [] x = "B8" -> "LALT"]
multi_down == [x \in {"1D", "38"} |-> IF x = "1D" THEN "RCTRL" ELSE "RALT"]

\* SHIFT_ON: one of Shift and Caps Lock, not both.
shift_on(s) == (s \cap {"LSHIFT", "RSHIFT"} # {}) # ("CAPSL" \in s)

\* What i8042_prepare_char makes of code c: the keystroke, and the state after.
result(key, s, m) == [key |-> key, spec |-> s, multi |-> m]

\* Mutant: after E0 a code that is not known leaves the prefix set.
prepare_multi_sticky(c, s) ==
    CASE c \in DOMAIN multi_down -> result("special", s \cup {multi_down[c]}, FALSE)
      [] c = "9D" -> result("phantom", s \ {"RCTRL"}, FALSE)
      [] c = "B8" -> result("special", s \ {"RALT"}, FALSE)
      [] OTHER -> result(NoKey, s, TRUE)

\* The code follows E0.
prepare_multi(c, s) ==
    CASE c \in DOMAIN multi_down -> result("special", s \cup {multi_down[c]}, FALSE)
      [] c = "9D" -> result("phantom", s \ {"RCTRL"}, FALSE)
      [] c = "B8" -> result("special", s \ {"RALT"}, FALSE)
      [] OTHER -> result(NoKey, s, FALSE)

\* It does not.
prepare_single(c, s) ==
    CASE c = "BA" -> result("special", SymDiff(s, {"CAPSL"}), FALSE)
      [] c \in DOMAIN single_down -> result("special", s \cup {single_down[c]}, FALSE)
      [] c \in DOMAIN single_up -> result("special", s \ {single_up[c]}, FALSE)
      [] c = "1E" -> result(IF shift_on(s) THEN "CHAR" ELSE "char", s, FALSE)
      [] OTHER -> result(NoKey, s, FALSE)

i8042_prepare_char(c, s, m) ==
    IF c = "E0" /\ ~m THEN result(NoKey, s, TRUE)
    ELSE IF m THEN prepare_multi(c, s) ELSE prepare_single(c, s)

-----------------------------------------------------------------------------
\* The driver's operations

\* An empty keystroke changes nothing; a full buffer loses its oldest one.
i8042_insert_keystroke(r, key) == IF key = NoKey THEN r ELSE put_over(r, key)

i8042_interrupt_handler ==
    /\ codes # <<>> /\ codes' = Tail(codes)
    /\ LET x == i8042_prepare_char(Head(codes), spec_keys_down, multi_code) IN
       /\ keyb' = i8042_insert_keystroke(keyb, x.key)
       /\ spec_keys_down' = x.spec /\ multi_code' = x.multi
    /\ UNCHANGED held

\* A program puts a keystroke in the buffer, behind those that are there.
i8042_send(key) ==
    /\ keyb' = i8042_insert_keystroke(keyb, key)
    /\ UNCHANGED <<spec_keys_down, multi_code, held, codes>>

\* The buffer a read with flags f takes keystrokes from.
only_last(r, f) ==
    IF "ONLY_LAST" \in f /\ r.last # r.first THEN [r EXCEPT !.last = r.first, !.size = 1] ELSE r

ascii(key) == key \in {"char", "CHAR", "phantom"}

\* How many keystrokes the loop takes: with ONLY_ASCII up to the first character.
taken(r, f) ==
    IF "ONLY_ASCII" \notin f THEN 1
    ELSE Min({r.size} \cup {i \in 1..r.size : ascii(contents(r)[i])})

\* Mutant: the index of the next free slot is not cleared.
clear_buffer_last(r) == [r EXCEPT !.first = 0, !.size = 0]

clear_buffer(r) == [r EXCEPT !.first = 0, !.last = 0, !.size = 0]

i8042_get(f) ==
    /\ keyb.size > 0
    /\ LET l == only_last(keyb, f)
           n == taken(l, f)
           r == [l EXCEPT !.first = (@ + n) % SIZE, !.size = @ - n]
       IN  keyb' = IF "CLEAR_BUFFER" \in f THEN clear_buffer(r) ELSE r
    /\ UNCHANGED <<spec_keys_down, multi_code, held, codes>>

KeybNext ==
    \/ \E key \in PhysKey : press(key)
    \/ \E key \in PhysKey : release(key)
    \/ i8042_interrupt_handler
    \/ i8042_send("char")
    \/ \E f \in GetFlags : i8042_get(f)

KeybSpec == i8042_init /\ [][KeybNext]_keybvars

-----------------------------------------------------------------------------
\* The buffer of keystrokes: each new one, when there is no room, costs exactly
\* the oldest one.
KeyQueue == INSTANCE BoundedQueue WITH
    Element <- Keystroke, Capacity <- SIZE, KeepNew <- TRUE, queue <- contents(keyb)

\* Keystrokes are read in the order they came, none twice; each one the handler
\* makes of a code, or a program sends, comes into the buffer and at most the
\* oldest one leaves for it, so that the most recent ones are kept.
KeystrokesInOrder ==
    /\ KeyQueue!Spec
    /\ [][\A key \in Keystroke :
            \/ i8042_send(key)
            \/ /\ i8042_interrupt_handler
               /\ key = i8042_prepare_char(Head(codes), spec_keys_down, multi_code).key
            => KeyQueue!Come(key)]_keybvars

\* Once the codes have been read, the modifiers the driver believes to be down
\* are those that are: no code of a left key taken for the right one, none
\* swallowed behind a prefix of another key.
Modifiers == AllKeys \ {"letter", "arrow", "CAPSL"}
ModifiersTracked ==
    codes = <<>> => spec_keys_down \cap Modifiers = held \cap Modifiers /\ ~multi_code
=============================================================================
