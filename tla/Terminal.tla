------------------------------ MODULE Terminal ------------------------------
(***************************************************************************)
(* From the keys to the command: intr_keyboard_handler of device/          *)
(* keyboard.c, which turns the bytes of the keyboard into characters, and  *)
(* the shell (shell/shell.c), which edits a line with readline, cuts it    *)
(* into words with cmd_parse and runs the command.  The user types, and    *)
(* types ahead, in any order.                                              *)
(*                                                                         *)
(* The keyboard sends its bytes in order and the handler takes one per     *)
(* interrupt; between the two bytes of an extended key the shell may run.  *)
(***************************************************************************)
EXTENDS Integers, Sequences, FiniteSets, SequencesExt

CONSTANTS Key,         \* the keys in use, of DOMAIN Bytes
          bufsize,     \* of kbd_buf; it holds one character less
          MAX_PATH_LEN,\* the length of cmd_line (512)
          MAX_ARG_NR   \* the length of argv (16)

VARIABLES held,        \* the modifier keys that are down
          wire,        \* the byte that follows a 0xe0 just sent
          status,      \* ctrl_status, shift_status, alt_status, caps_lock_status
          ext_scancode,
          kbd_buf,
          cmd_line,    \* one cell more than there is: the one behind the end
          pos,         \* of readline
          want,        \* the line as the user means it (not in the code)
          pc,          \* where my_shell is
          next, argc, argv,  \* of cmd_parse; words by their first position
          panic

kbdVars   == <<held, wire, status, ext_scancode>>
shellVars == <<cmd_line, pos, want, pc, next, argc, argv>>
vars      == <<kbdVars, shellVars, kbd_buf, panic>>

Nul == "nul"

(* The byte of a key; those of the right-hand ctrl and alt and of the      *)
(* keypad's enter are extended, with 0xe0 in front.                        *)
Bytes == [u |-> "u", l |-> "l", semicolon |-> "semicolon", space |-> "space",
          enter |-> "enter", backspace |-> "backspace", kp_enter |-> "enter",
          ctrl_l |-> "ctrl_l", ctrl_r |-> "ctrl_l", shift_l |-> "shift_l",
          shift_r |-> "shift_r", alt_l |-> "alt_l", alt_r |-> "alt_l", caps_lock |-> "caps_lock"]
Extended(k) == Bytes[k] # k

(* Characters without and with shift, of a letter or two, a sign, and the  *)
(* keys that mean something to the shell.                                  *)
keymap == [u |-> <<"u", "U">>, l |-> <<"l", "L">>, semicolon |-> <<";", ":">>,
           space |-> <<"sp", "sp">>, enter |-> <<"cr", "cr">>, backspace |-> <<"bs", "bs">>,
           ctrl_l |-> <<Nul, Nul>>, shift_l |-> <<Nul, Nul>>, shift_r |-> <<Nul, Nul>>,
           alt_l |-> <<Nul, Nul>>, caps_lock |-> <<Nul, Nul>>]

(* The modifier that a byte is about; shift has no extended key.           *)
Modifier(b) == CASE b = "ctrl_l" -> "ctrl" [] b \in {"shift_l", "shift_r"} -> "shift"
                 [] b = "alt_l" -> "alt"   [] OTHER -> "none"

ASSUME TerminalAssumption ==
  /\ Key \subseteq DOMAIN Bytes
  /\ {bufsize, MAX_PATH_LEN, MAX_ARG_NR} \subseteq Nat \ {0} /\ bufsize > 1

Init ==
  /\ held = {} /\ wire = <<>> /\ ext_scancode = FALSE
  /\ status = [s \in {"ctrl", "shift", "alt", "caps"} |-> FALSE]
  /\ kbd_buf = <<>>
  /\ cmd_line = [i \in 0..MAX_PATH_LEN |-> Nul] /\ pos = 0 /\ want = <<>>
  /\ pc = "read" /\ next = 0 /\ argc = -1 /\ argv = <<>>
  /\ panic = "none"

Halt(why) == panic' = why /\ UNCHANGED <<kbdVars, shellVars, kbd_buf>>
-----------------------------------------------------------------------------
(* The character of a make code: signs heed shift, letters caps lock too.  *)
cur_char(b) ==
  LET shift == IF b = "semicolon" THEN status["shift"] ELSE status["shift"] # status["caps"]
      c == keymap[b][IF shift THEN 2 ELSE 1]
  IN  IF status["ctrl"] /\ c \in {"l", "u"} THEN (IF c = "l" THEN "^l" ELSE "^u") ELSE c

BreakMutant(b, ext) ==
  LET m == Modifier(b) IN
  /\ status' = IF m = "none" \/ ext THEN status ELSE [status EXCEPT ![m] = FALSE]
  /\ UNCHANGED kbd_buf

(* A break code.  There is one flag for the two keys of a kind.            *)
Break(b, ext) ==
  LET m == Modifier(b) IN
  /\ status' = IF m = "none" \/ (m = "shift" /\ ext) THEN status
               ELSE [status EXCEPT ![m] = FALSE]
  /\ UNCHANGED kbd_buf

(* A make code.  Of the extended ones only ctrl and alt count.  A key that *)
(* finds kbd_buf full is lost.                                             *)
Make(b, ext) ==
  LET m == Modifier(b)
      c == cur_char(b)
  IN  IF ext /\ m \notin {"ctrl", "alt"} THEN UNCHANGED <<status, kbd_buf>>
      ELSE IF c # Nul
      THEN /\ kbd_buf' = IF Len(kbd_buf) = bufsize - 1 THEN kbd_buf ELSE Append(kbd_buf, c)
           /\ UNCHANGED status
      ELSE /\ status' = IF b = "caps_lock" THEN [status EXCEPT !["caps"] = ~@]
                        ELSE [status EXCEPT ![m] = TRUE]
           /\ UNCHANGED kbd_buf

(* The handler for a byte other than 0xe0.                                 *)
intr_keyboard_handler(b, break_code) ==
  /\ IF break_code THEN Break(b, ext_scancode) ELSE Make(b, ext_scancode)
  /\ ext_scancode' = FALSE

Send(k, break_code) ==
  /\ panic = "none" /\ wire = <<>>
  /\ IF Extended(k)
     THEN /\ wire' = <<[byte |-> Bytes[k], break_code |-> break_code]>>
          /\ ext_scancode' = TRUE
          /\ UNCHANGED <<status, kbd_buf>>
     ELSE intr_keyboard_handler(Bytes[k], break_code) /\ UNCHANGED wire
  /\ UNCHANGED <<shellVars, panic>>

IsModifier(k) == Modifier(Bytes[k]) # "none"

(* A key goes down, or repeats while it is held.                           *)
Press(k) ==
  /\ Send(k, FALSE)
  /\ held' = IF IsModifier(k) THEN held \cup {k} ELSE held

Release(k) ==
  /\ IsModifier(k) => k \in held
  /\ Send(k, TRUE)
  /\ held' = held \ {k}

SecondByte ==
  /\ panic = "none" /\ wire # <<>>
  /\ intr_keyboard_handler(wire[1].byte, wire[1].break_code)
  /\ wire' = <<>>
  /\ UNCHANGED <<held, shellVars, panic>>
-----------------------------------------------------------------------------
(* readline: the character is stored before it is looked at.               *)

Cells(f) == cmd_line' = f /\ UNCHANGED <<next, argc, argv>>

(* A backspace at the start of the line stays in the first cell.           *)
Erase(stored) ==
  /\ Cells(stored)
  /\ pos' = IF stored[0] # "bs" THEN pos - 1 ELSE pos
  /\ want' = IF want = <<>> THEN want ELSE Front(want)
  /\ UNCHANGED pc

KillMutant(stored) ==
  /\ Cells([i \in DOMAIN stored |-> IF i \in 1..pos THEN Nul ELSE stored[i]])
  /\ want' = <<>> /\ UNCHANGED <<pos, pc>>

(* ctrl-u clears from the end down to the second cell.                     *)
Kill(stored) ==
  /\ Cells([i \in DOMAIN stored |-> IF i \in 1..pos THEN Nul ELSE stored[i]])
  /\ pos' = 0 /\ want' = <<>> /\ UNCHANGED pc

ReadChar ==
  LET c == Head(kbd_buf)
      stored == [cmd_line EXCEPT ![pos] = c]
  IN  /\ panic = "none" /\ pc = "read" /\ kbd_buf # <<>>
      /\ \/ pos = MAX_PATH_LEN /\ Halt("long_line")
         \/ /\ pos < MAX_PATH_LEN
            /\ CASE c = "^l" -> Cells([stored EXCEPT ![pos] = Nul]) /\ UNCHANGED <<pos, want, pc>>
                 [] c = "^u" -> Kill(stored)
                 [] c = "bs" -> Erase(stored)
                 [] c = "cr" -> /\ Cells([stored EXCEPT ![pos] = Nul])
                                /\ pc' = "entered" /\ UNCHANGED <<pos, want>>
                 [] OTHER    -> /\ Cells(stored) /\ pos' = pos + 1
                                /\ want' = Append(want, c) /\ UNCHANGED pc
            /\ kbd_buf' = Tail(kbd_buf)
            /\ UNCHANGED <<kbdVars, panic>>

(* my_shell: the next prompt, with the line cleared.                       *)
Prompt ==
  /\ cmd_line' = [i \in 0..MAX_PATH_LEN |-> Nul] /\ pos' = 0 /\ want' = <<>>
  /\ pc' = "read" /\ next' = 0 /\ argc' = -1 /\ argv' = <<>>

Entered ==
  /\ panic = "none" /\ pc = "entered"
  /\ IF cmd_line[0] = Nul THEN Prompt
     ELSE /\ pc' = "parse" /\ next' = 0 /\ argc' = 0 /\ argv' = <<>>
          /\ UNCHANGED <<cmd_line, pos, want>>
  /\ UNCHANGED <<kbdVars, kbd_buf, panic>>

(* From i on, the first cell of cmd_line with one of the characters S.     *)
From(i, S) == CHOOSE j \in i..MAX_PATH_LEN :
                cmd_line[j] \in S /\ \A h \in i..(j - 1) : cmd_line[h] \notin S
WordStart == From(next, {cmd_line[i] : i \in DOMAIN cmd_line} \ {"sp"})
WordEnd   == From(WordStart, {"sp", Nul})

CutMutant(end) == cmd_line' = cmd_line /\ next' = end

(* The end of a word becomes the end of its string.                        *)
Cut(end) ==
  /\ cmd_line' = [cmd_line EXCEPT ![end] = Nul]
  /\ next' = IF cmd_line[end] = "sp" THEN end + 1 ELSE end

(* One round of the outer loop of cmd_parse.  The test for too many words  *)
(* comes after the word has been stored, and allows one too many.          *)
ParseWord ==
  /\ panic = "none" /\ pc = "parse"
  /\ \/ /\ cmd_line[WordStart] = Nul
        /\ pc' = "run"
        /\ UNCHANGED <<cmd_line, pos, want, next, argc, argv, kbdVars, kbd_buf, panic>>
     \/ cmd_line[WordStart] # Nul /\ argc = MAX_ARG_NR /\ Halt("argv")
     \/ /\ cmd_line[WordStart] # Nul /\ argc < MAX_ARG_NR
        /\ argv' = Append(argv, WordStart) /\ argc' = argc + 1
        /\ Cut(WordEnd)
        /\ UNCHANGED <<pos, want, pc, kbdVars, kbd_buf, panic>>

(* strcmp of the first word; a line of spaces has none.                    *)
Command ==
  /\ panic = "none" /\ pc = "run"
  /\ IF argc = 0 THEN Halt("strcmp")
     ELSE Prompt /\ UNCHANGED <<kbdVars, kbd_buf, panic>>

Next == \/ \E k \in Key : Press(k) \/ Release(k)
        \/ SecondByte \/ ReadChar \/ Entered \/ ParseWord \/ Command

Spec == Init /\ [][Next]_vars
-----------------------------------------------------------------------------
(* Between keys, a modifier is only taken to be down while one of its keys *)
(* is, on the left or on the right and however they were pressed together, *)
(* and no 0xe0 is remembered that would spoil the next key.                *)
NoStuckModifier ==
  wire = <<>> =>
    /\ ~ext_scancode
    /\ \A m \in {"ctrl", "shift", "alt"} :
         status[m] => \E k \in held : Modifier(Bytes[k]) = m

(* The cells in front of pos are the line that the user has typed, erased  *)
(* and killed so far; what readline leaves in the cells behind never comes *)
(* back, and is cut off when the line is entered.                          *)
LineAsTyped ==
  /\ pc = "read" => pos = Len(want) /\ \A i \in 1..pos : cmd_line[i - 1] = want[i]
  /\ pc = "entered" =>
       \A i \in 1..(Len(want) + 1) : cmd_line[i - 1] = (want \o <<Nul>>)[i]

(* The words of a line are its maximal runs without a space.               *)
InWord(line, i) == i \in DOMAIN line /\ line[i] # "sp"
Starts(line)    == {i \in DOMAIN line : InWord(line, i) /\ ~InWord(line, i - 1)}
Start(line, n)  == CHOOSE i \in Starts(line) : Cardinality({j \in Starts(line) : j < i}) = n - 1
End(line, i)    == CHOOSE j \in i..Len(line) :
                     ~InWord(line, j + 1) /\ \A h \in i..j : InWord(line, h)
Words(line) ==
  [n \in 1..Cardinality(Starts(line)) |->
     SubSeq(line, Start(line, n), End(line, Start(line, n)))]

(* The string that a pointer into cmd_line stands for.                     *)
StringAt(i) ==
  LET end == CHOOSE j \in i..MAX_PATH_LEN :
               cmd_line[j] = Nul /\ \A h \in i..(j - 1) : cmd_line[h] # Nul
  IN  [n \in 1..(end - i) |-> cmd_line[i + n - 1]]

(* A command gets the words of the line that was typed, each ended where   *)
(* the word ends, whatever spaces are in front, between and behind.        *)
ArgsAreWords ==
  pc = "run" => [n \in 1..argc |-> StringAt(argv[n])] = Words(want)
=============================================================================
