--------------------------- MODULE TerminalProofs ---------------------------
(***************************************************************************)
(* Theorems about the keyboard handler, readline and cmd_parse, for any    *)
(* keys of the keymap, any length of the line, of its words and of argv.   *)
(***************************************************************************)
EXTENDS Terminal, SequenceTheorems, FiniteSetTheorems, TLAPS

(* The modifier keys, each with one flag.                                  *)
Mods == {"ctrl", "shift", "alt"}

HeldFor(m)   == \E k \in held : Modifier(Bytes[k]) = m
(* The 0xe0 of the break code of such a key has been taken, the code       *)
(* itself not yet.                                                         *)
LeavingFor(m) == wire # <<>> /\ wire[1].break_code /\ Modifier(wire[1].byte) = m

KbdInv ==
  /\ held \subseteq Key
  /\ ext_scancode = (wire # <<>>)
  /\ wire # <<>> =>
       \E k \in Key, r \in BOOLEAN :
         /\ Extended(k) /\ wire = <<[byte |-> Bytes[k], break_code |-> r]>>
         /\ IsModifier(k) /\ ~r => k \in held
  /\ status \in [Mods \cup {"caps"} -> BOOLEAN]
  /\ \A m \in Mods : status[m] => HeldFor(m) \/ LeavingFor(m)

(* There are two shift keys, and neither is extended.                      *)
LEMMA ShiftIsPlain ==
  ASSUME NEW k \in Key, Extended(k)
  PROVE  Modifier(Bytes[k]) # "shift"
<1>1. k \in DOMAIN Bytes
  BY TerminalAssumption DEF TerminalAssumption
<1>2. Modifier(Bytes[k]) = "shift" => Bytes[k] \in {"shift_l", "shift_r"}
  BY DEF Modifier
<1>3. Bytes[k] \in {"shift_l", "shift_r"} => k = Bytes[k]
  BY <1>1 DEF Bytes
<1> QED
  BY <1>2, <1>3 DEF Extended

(* What one byte does to the flags: a break code clears the flag of its    *)
(* key, a make code sets it, and no other flag of a modifier changes.      *)
LEMMA HandlerFlags ==
  ASSUME status \in [Mods \cup {"caps"} -> BOOLEAN], NEW b, NEW r \in BOOLEAN,
         intr_keyboard_handler(b, r)
  PROVE  /\ status' \in [Mods \cup {"caps"} -> BOOLEAN]
         /\ ext_scancode' = FALSE
         /\ \A m \in Mods : status'[m] =>
              \/ status[m] /\ (r /\ Modifier(b) = m => m = "shift" /\ ext_scancode)
              \/ ~r /\ Modifier(b) = m
<1>1. CASE r
  <2>1. Break(b, ext_scancode)
    BY <1>1 DEF intr_keyboard_handler
  <2> QED
    BY <2>1, <1>1 DEF Break, intr_keyboard_handler, Mods
<1>2. CASE ~r
  <2>1. Make(b, ext_scancode)
    BY <1>2 DEF intr_keyboard_handler
  <2>2. \/ status' = status
        \/ status' = [status EXCEPT !["caps"] = ~@]
        \/ status' = [status EXCEPT ![Modifier(b)] = TRUE]
    BY <2>1 DEF Make
  <2> QED
    BY <2>2, <1>2 DEF intr_keyboard_handler, Mods
<1> QED
  BY <1>1, <1>2
-----------------------------------------------------------------------------
(* A byte k sends that is its only one, or the 0xe0 in front of its only   *)
(* one: held has changed, but only by k, and k is in it if it goes down.   *)
LEMMA SendKeeps ==
  ASSUME KbdInv, NEW k \in Key, NEW r \in BOOLEAN, Send(k, r),
         held' \subseteq Key, \A j \in Key : j # k => (j \in held' <=> j \in held),
         ~r => held \subseteq held' /\ (IsModifier(k) => k \in held')
  PROVE  KbdInv'
<1>1. wire = <<>> /\ ~ext_scancode
  BY DEF Send, KbdInv
<1>2. CASE Extended(k)
  <2>1. /\ wire' = <<[byte |-> Bytes[k], break_code |-> r]>>
        /\ ext_scancode' = TRUE /\ status' = status
    BY <1>2 DEF Send
  <2>2. wire' # <<>> /\ wire'[1].break_code = r /\ wire'[1].byte = Bytes[k]
    BY <2>1
  <2>3. ASSUME NEW m \in Mods, status'[m] PROVE HeldFor(m)' \/ LeavingFor(m)'
    <3>1. PICK j \in held : Modifier(Bytes[j]) = m
      BY <1>1, <2>1, <2>3 DEF KbdInv, HeldFor, LeavingFor
    <3>2. j \in held' \/ (r /\ j = k)
      BY DEF KbdInv
    <3> QED
      BY <2>2, <3>1, <3>2 DEF HeldFor, LeavingFor
  <2>4. IsModifier(k) /\ ~r => k \in held'
    OBVIOUS
  <2> QED
    BY <1>2, <2>1, <2>2, <2>3, <2>4 DEF KbdInv
<1>3. CASE ~Extended(k)
  <2>1. intr_keyboard_handler(Bytes[k], r) /\ wire' = <<>>
    BY <1>1, <1>3 DEF Send
  <2>2. ASSUME NEW m \in Mods, status'[m] PROVE HeldFor(m)'
    <3>1. \/ status[m] /\ ~(r /\ Modifier(Bytes[k]) = m)
          \/ ~r /\ Modifier(Bytes[k]) = m
      BY <1>1, <2>1, <2>2, HandlerFlags DEF KbdInv
    <3>2. CASE ~r /\ Modifier(Bytes[k]) = m
      BY <3>2 DEF HeldFor, IsModifier, Mods
    <3>3. CASE status[m] /\ ~(r /\ Modifier(Bytes[k]) = m)
      <4>1. PICK j \in held : Modifier(Bytes[j]) = m
        BY <1>1, <3>3 DEF KbdInv, HeldFor, LeavingFor
      <4>2. j \in held'
        BY <3>3, <4>1 DEF KbdInv
      <4> QED
        BY <4>1, <4>2 DEF HeldFor
    <3> QED
      BY <3>1, <3>2, <3>3
  <2>3. status' \in [Mods \cup {"caps"} -> BOOLEAN] /\ ~ext_scancode'
    BY <2>1, HandlerFlags DEF KbdInv
  <2>4. ext_scancode' = FALSE
    BY <2>1 DEF intr_keyboard_handler
  <2> QED
    BY <2>1, <2>2, <2>3, <2>4 DEF KbdInv
<1> QED
  BY <1>2, <1>3

LEMMA SecondByteKeeps ==
  ASSUME KbdInv, SecondByte
  PROVE  KbdInv'
<1>1. PICK k \in Key, r \in BOOLEAN :
        /\ Extended(k) /\ wire = <<[byte |-> Bytes[k], break_code |-> r]>>
        /\ IsModifier(k) /\ ~r => k \in held
  BY DEF SecondByte, KbdInv
<1>2. wire[1].byte = Bytes[k] /\ wire[1].break_code = r /\ ext_scancode
  BY <1>1 DEF KbdInv
<1>3. intr_keyboard_handler(Bytes[k], r) /\ wire' = <<>> /\ held' = held
  BY <1>2 DEF SecondByte
<1>4. ext_scancode' = FALSE
  BY <1>3 DEF intr_keyboard_handler
<1>5. status' \in [Mods \cup {"caps"} -> BOOLEAN]
  BY <1>3, HandlerFlags DEF KbdInv
<1>6. ASSUME NEW m \in Mods, status'[m] PROVE HeldFor(m)'
  <2>1. \/ status[m] /\ ~(r /\ Modifier(Bytes[k]) = m)
        \/ ~r /\ Modifier(Bytes[k]) = m
    BY <1>1, <1>3, <1>6, HandlerFlags, ShiftIsPlain DEF KbdInv
  <2>2. CASE ~r /\ Modifier(Bytes[k]) = m
    BY <1>1, <1>3, <2>2 DEF HeldFor, IsModifier, Mods
  <2>3. CASE status[m] /\ ~(r /\ Modifier(Bytes[k]) = m)
    BY <1>2, <1>3, <2>3 DEF KbdInv, HeldFor, LeavingFor
  <2> QED
    BY <2>1, <2>2, <2>3
<1> QED
  BY <1>3, <1>4, <1>5, <1>6 DEF KbdInv

LEMMA KbdInvNext == KbdInv /\ [Next]_vars => KbdInv'
<1> SUFFICES ASSUME KbdInv, [Next]_vars PROVE KbdInv'
  OBVIOUS
<1>1. CASE UNCHANGED kbdVars
  BY <1>1 DEF kbdVars, KbdInv, HeldFor, LeavingFor
<1>2. ASSUME NEW k \in Key, Press(k) PROVE KbdInv'
  <2>1. Send(k, FALSE) /\ held' = IF IsModifier(k) THEN held \cup {k} ELSE held
    BY <1>2 DEF Press
  <2>2. held' \subseteq Key /\ held \subseteq held'
    BY <2>1 DEF KbdInv
  <2> QED
    BY <2>1, <2>2, SendKeeps
<1>3. ASSUME NEW k \in Key, Release(k) PROVE KbdInv'
  <2>1. Send(k, TRUE) /\ held' = held \ {k}
    BY <1>3 DEF Release
  <2>2. held' \subseteq Key
    BY <2>1 DEF KbdInv
  <2> QED
    BY <2>1, <2>2, SendKeeps
<1>4. ReadChar \/ Entered \/ ParseWord \/ Command => UNCHANGED kbdVars
  BY DEF ReadChar, Entered, ParseWord, Command, Halt
<1> QED
  BY <1>1, <1>2, <1>3, <1>4, SecondByteKeeps DEF Next, vars

LEMMA KbdInvInit == Init => KbdInv
BY DEF Init, KbdInv, Mods

(* A modifier is taken to be down only while one of its keys is, and no    *)
(* 0xe0 is left over between keys: the flags that                          *)
(* intr_keyboard_handler keeps agree with the keyboard, however the keys   *)
(* of both sides are pressed and released together.                        *)
THEOREM TerminalNoStuckModifier == Spec => []NoStuckModifier
<1>1. KbdInv => NoStuckModifier
  BY DEF KbdInv, NoStuckModifier, HeldFor, LeavingFor, Mods
<1> QED
  BY <1>1, KbdInvInit, KbdInvNext, PTL DEF Spec
-----------------------------------------------------------------------------
(* The characters that can be in kbd_buf.                                  *)
Char == ({keymap[b][n] : b \in DOMAIN keymap, n \in {1, 2}} \cup {"^l", "^u"}) \ {Nul}

(* The first cell is a backspace only while the line is empty, which is    *)
(* how readline sees that there is nothing to erase.                       *)
LineInv ==
  /\ DOMAIN cmd_line = 0..MAX_PATH_LEN /\ cmd_line = [i \in DOMAIN cmd_line |-> cmd_line[i]]
  /\ kbd_buf \in Seq(Char) /\ want \in Seq(Char)
  /\ \A i \in DOMAIN want : want[i] # "bs"
  /\ pc = "read" => pos = Len(want) /\ \A i \in DOMAIN want : cmd_line[i - 1] = want[i]
  /\ pc = "entered" =>
       /\ \A i \in DOMAIN want : cmd_line[i - 1] = want[i]
       /\ cmd_line[Len(want)] = Nul

(* Every key has a place in the keymap under the byte that it sends.       *)
LEMMA KeyHasByte ==
  ASSUME NEW k \in Key
  PROVE  Bytes[k] \in DOMAIN keymap
BY TerminalAssumption DEF TerminalAssumption, Bytes, keymap

LEMMA HandlerChars ==
  ASSUME kbd_buf \in Seq(Char), NEW b \in DOMAIN keymap, NEW r \in BOOLEAN,
         intr_keyboard_handler(b, r)
  PROVE  kbd_buf' \in Seq(Char)
<1>1. cur_char(b) \in Char \cup {Nul}
  <2> DEFINE shift == IF b = "semicolon" THEN status["shift"] ELSE status["shift"] # status["caps"]
             c == keymap[b][IF shift THEN 2 ELSE 1]
  <2>1. c \in Char \cup {Nul}
    BY DEF Char
  <2>2. cur_char(b) = IF status["ctrl"] /\ c \in {"l", "u"} THEN (IF c = "l" THEN "^l" ELSE "^u") ELSE c
    BY DEF cur_char
  <2>3. {"^l", "^u"} \subseteq Char
    BY DEF Char, Nul
  <2> HIDE DEF c
  <2> QED
    BY <2>1, <2>2, <2>3
<1>2. \/ kbd_buf' = kbd_buf
      \/ kbd_buf' = Append(kbd_buf, cur_char(b)) /\ cur_char(b) # Nul
  BY DEF intr_keyboard_handler, Break, Make
<1> QED
  BY <1>1, <1>2

(* readline, one character.                                                *)
LEMMA ReadCharKeeps ==
  ASSUME LineInv, ReadChar
  PROVE  LineInv'
<1> DEFINE c == Head(kbd_buf)
           stored == [cmd_line EXCEPT ![pos] = c]
<1>1. CASE Halt("long_line")
  BY <1>1 DEF Halt, LineInv, shellVars
<1>2. CASE pos < MAX_PATH_LEN /\ ~Halt("long_line")
  <2>1. /\ pc = "read" /\ kbd_buf # <<>> /\ kbd_buf' = Tail(kbd_buf)
        /\ CASE c = "^l" -> Cells([stored EXCEPT ![pos] = Nul]) /\ UNCHANGED <<pos, want, pc>>
             [] c = "^u" -> Kill(stored)
             [] c = "bs" -> Erase(stored)
             [] c = "cr" -> /\ Cells([stored EXCEPT ![pos] = Nul])
                            /\ pc' = "entered" /\ UNCHANGED <<pos, want>>
             [] OTHER    -> /\ Cells(stored) /\ pos' = pos + 1
                            /\ want' = Append(want, c) /\ UNCHANGED pc
    BY <1>2 DEF ReadChar
  <2>2. c \in Char /\ kbd_buf' \in Seq(Char)
    BY <2>1 DEF LineInv
  <2>3. /\ pos = Len(want) /\ pos \in Nat /\ pos \in DOMAIN cmd_line
        /\ want \in Seq(Char) /\ DOMAIN want = 1..pos
        /\ \A i \in 1..pos : cmd_line[i - 1] = want[i] /\ want[i] # "bs"
        /\ DOMAIN cmd_line = 0..MAX_PATH_LEN
    <3>1. pos = Len(want) /\ want \in Seq(Char) /\ DOMAIN cmd_line = 0..MAX_PATH_LEN
      BY <2>1 DEF LineInv
    <3>2. pos \in Nat /\ DOMAIN want = 1..pos /\ MAX_PATH_LEN \in Nat
      BY <3>1, TerminalAssumption DEF TerminalAssumption
    <3>3. pos < MAX_PATH_LEN
      BY <1>2
    <3>4. pos \in 0..MAX_PATH_LEN
      BY <3>2, <3>3
    <3> QED
      BY <2>1, <3>1, <3>2, <3>4 DEF LineInv
  <2>cells. \A i \in 1..pos : i - 1 \in DOMAIN cmd_line /\ i - 1 # pos
    <3>1. pos \in 0..MAX_PATH_LEN /\ MAX_PATH_LEN \in Nat
      BY <2>3, TerminalAssumption DEF TerminalAssumption
    <3>2. \A i \in 1..pos : i - 1 \in 0..MAX_PATH_LEN /\ i - 1 # pos
      BY <3>1
    <3> QED
      BY <2>3, <3>2
  <2> HIDE DEF c
  <2>4. CASE c = "^l"
    <3>1. cmd_line' = [stored EXCEPT ![pos] = Nul] /\ UNCHANGED <<pos, want, pc>>
      BY <2>1, <2>4 DEF Cells
    <3>2. DOMAIN cmd_line' = 0..MAX_PATH_LEN /\ \A i \in 1..pos : cmd_line'[i - 1] = cmd_line[i - 1]
      BY <2>3, <2>cells, <3>1
    <3> QED
      BY <2>1, <2>2, <2>3, <3>1, <3>2 DEF LineInv
  <2>5. CASE c = "^u"
    <3>1. /\ cmd_line' = [i \in DOMAIN stored |-> IF i \in 1..pos THEN Nul ELSE stored[i]]
          /\ pos' = 0 /\ want' = <<>> /\ UNCHANGED pc
      BY <2>1, <2>5 DEF Kill, Cells
    <3>2. DOMAIN cmd_line' = 0..MAX_PATH_LEN
      BY <2>3, <3>1
    <3> QED
      BY <2>1, <2>2, <3>1, <3>2 DEF LineInv
  <2>6. CASE c = "bs"
    <3>1. /\ cmd_line' = stored /\ UNCHANGED pc
          /\ pos' = (IF stored[0] # "bs" THEN pos - 1 ELSE pos)
          /\ want' = (IF want = <<>> THEN want ELSE Front(want))
      BY <2>1, <2>6 DEF Erase, Cells
    <3>2. DOMAIN cmd_line' = 0..MAX_PATH_LEN /\ \A i \in 1..pos : cmd_line'[i - 1] = cmd_line[i - 1]
      BY <2>3, <2>cells, <3>1
    <3>3. CASE pos = 0
      <4>1. want = <<>> /\ stored[0] = "bs"
        BY <2>3, <2>6, <3>3
      <4> QED
        BY <2>1, <2>2, <2>3, <3>1, <3>2, <3>3, <4>1 DEF LineInv
    <3>4. CASE pos # 0
      <4>1. pos \in 1..pos /\ 1 \in 1..pos
        BY <2>3, <3>4
      <4>2. stored[0] # "bs"
        BY <2>3, <4>1
      <4>3. /\ Front(want) \in Seq(Char) /\ Len(Front(want)) = pos - 1
            /\ \A i \in 1..(pos - 1) : Front(want)[i] = want[i]
        BY <2>3, <3>4 DEF Front
      <4>4. want' = Front(want) /\ pos' = pos - 1
        BY <2>3, <3>1, <3>4, <4>2
      <4>5. DOMAIN want' = 1..(pos - 1)
        BY <4>3, <4>4
      <4>6. \A i \in DOMAIN want' : i \in 1..pos /\ want'[i] = want[i]
        BY <2>3, <4>3, <4>4, <4>5
      <4>7. pos' = Len(want') /\ want' \in Seq(Char)
        BY <4>3, <4>4
      <4>8. cmd_line' = [i \in DOMAIN cmd_line' |-> cmd_line'[i]]
        BY <3>1
      <4> QED
        BY <2>1, <2>2, <2>3, <3>1, <3>2, <4>6, <4>7, <4>8 DEF LineInv
    <3> QED
      BY <3>3, <3>4
  <2>7. CASE c = "cr"
    <3>1. cmd_line' = [stored EXCEPT ![pos] = Nul] /\ pc' = "entered" /\ UNCHANGED <<pos, want>>
      BY <2>1, <2>7 DEF Cells
    <3>2. /\ DOMAIN cmd_line' = 0..MAX_PATH_LEN /\ cmd_line'[pos] = Nul
          /\ \A i \in 1..pos : cmd_line'[i - 1] = cmd_line[i - 1]
      BY <2>3, <2>cells, <3>1
    <3> QED
      BY <2>2, <2>3, <3>1, <3>2 DEF LineInv
  <2>8. CASE c \notin {"^l", "^u", "bs", "cr"}
    <3>1. cmd_line' = stored /\ pos' = pos + 1 /\ want' = Append(want, c) /\ UNCHANGED pc
      BY <2>1, <2>8 DEF Cells
    <3>2. /\ DOMAIN cmd_line' = 0..MAX_PATH_LEN /\ cmd_line'[pos] = c
          /\ \A i \in 1..pos : cmd_line'[i - 1] = cmd_line[i - 1]
      BY <2>3, <2>cells, <3>1
    <3>3. /\ want' \in Seq(Char) /\ Len(want') = pos + 1 /\ want'[pos + 1] = c
          /\ DOMAIN want' = 1..(pos + 1) /\ \A i \in 1..pos : want'[i] = want[i]
      BY <2>2, <2>3, <3>1
    <3>4. \A i \in 1..(pos + 1) : i \in 1..pos \/ i - 1 = pos
      BY <2>3
    <3>5. \A i \in 1..(pos + 1) : cmd_line'[i - 1] = want'[i] /\ want'[i] # "bs"
      BY <2>3, <2>8, <3>2, <3>3, <3>4
    <3> QED
      BY <2>1, <2>2, <3>1, <3>2, <3>3, <3>5 DEF LineInv
  <2> QED
    BY <2>4, <2>5, <2>6, <2>7, <2>8
<1> QED
  BY <1>1, <1>2 DEF ReadChar

LEMMA LineInvNext == KbdInv /\ LineInv /\ [Next]_vars => LineInv'
<1> SUFFICES ASSUME KbdInv, LineInv, [Next]_vars PROVE LineInv'
  OBVIOUS
<1>1. ASSUME UNCHANGED shellVars, kbd_buf' \in Seq(Char) PROVE LineInv'
  BY <1>1 DEF shellVars, LineInv
<1>2. ASSUME NEW k \in Key, NEW r \in BOOLEAN, Send(k, r) PROVE LineInv'
  <2>1. UNCHANGED shellVars
    BY <1>2 DEF Send
  <2>2. kbd_buf' = kbd_buf \/ intr_keyboard_handler(Bytes[k], r)
    BY <1>2 DEF Send
  <2>3. kbd_buf' \in Seq(Char)
    BY <2>2, KeyHasByte, HandlerChars DEF LineInv
  <2> QED
    BY <1>1, <2>1, <2>3
<1>3. ASSUME SecondByte PROVE LineInv'
  <2>1. PICK k \in Key, r \in BOOLEAN : wire = <<[byte |-> Bytes[k], break_code |-> r]>>
    BY <1>3 DEF SecondByte, KbdInv
  <2>2. wire[1].byte = Bytes[k] /\ wire[1].break_code = r
    BY <2>1
  <2>3. intr_keyboard_handler(Bytes[k], r) /\ UNCHANGED shellVars
    BY <1>3, <2>2 DEF SecondByte
  <2>4. kbd_buf' \in Seq(Char)
    BY <2>3, KeyHasByte, HandlerChars DEF LineInv
  <2> QED
    BY <1>1, <2>3, <2>4
<1>4. ASSUME Prompt, UNCHANGED kbd_buf PROVE LineInv'
  <2>1. /\ cmd_line' = [i \in 0..MAX_PATH_LEN |-> Nul] /\ pos' = 0 /\ want' = <<>> /\ pc' = "read"
        /\ kbd_buf' = kbd_buf
    BY <1>4 DEF Prompt
  <2> QED
    BY <2>1 DEF LineInv
<1>5. ASSUME Entered PROVE LineInv'
  <2>1. CASE cmd_line[0] = Nul
    BY <1>4, <1>5, <2>1 DEF Entered
  <2>2. CASE cmd_line[0] # Nul
    <3>1. pc' = "parse" /\ UNCHANGED <<cmd_line, want, kbd_buf>>
      BY <1>5, <2>2 DEF Entered
    <3> QED
      BY <3>1 DEF LineInv
  <2> QED
    BY <2>1, <2>2
<1>6. ASSUME ParseWord PROVE LineInv'
  <2>1. CASE UNCHANGED <<cmd_line, want, kbd_buf>> /\ pc' \in {pc, "run"} /\ pos' = pos
    BY <2>1 DEF LineInv
  <2>2. CASE Cut(WordEnd) /\ UNCHANGED <<want, pc, kbd_buf>>
    <3>1. pc = "parse"
      BY <1>6 DEF ParseWord
    <3>2. cmd_line' = [cmd_line EXCEPT ![WordEnd] = Nul]
      BY <2>2 DEF Cut
    <3>3. DOMAIN cmd_line' = 0..MAX_PATH_LEN
      BY <3>2 DEF LineInv
    <3> QED
      BY <2>2, <3>1, <3>2, <3>3 DEF LineInv
  <2> QED
    BY <1>6, <2>1, <2>2 DEF ParseWord, Halt, shellVars
<1>7. ASSUME Command PROVE LineInv'
  <2>1. CASE Halt("strcmp")
    BY <2>1 DEF Halt, LineInv, shellVars
  <2> QED
    BY <1>4, <1>7, <2>1 DEF Command
<1>8. CASE UNCHANGED vars
  BY <1>8 DEF vars, LineInv, shellVars
<1> QED
  BY <1>2, <1>3, <1>5, <1>6, <1>7, <1>8, ReadCharKeeps DEF Next, Press, Release

LEMMA LineInvInit == Init => LineInv
<1> SUFFICES ASSUME Init PROVE LineInv
  OBVIOUS
<1>1. /\ cmd_line = [i \in 0..MAX_PATH_LEN |-> Nul] /\ pos = 0 /\ want = <<>> /\ pc = "read"
      /\ kbd_buf = <<>>
  BY DEF Init
<1> QED
  BY <1>1 DEF LineInv

(* What readline keeps in cmd_line is the line as it was typed, erased and *)
(* killed, whatever was in the cells behind it before, and it ends with a  *)
(* nul when it is entered.                                                 *)
THEOREM TerminalLineAsTyped == Spec => []LineAsTyped
<1>1. KbdInv /\ LineInv /\ [Next]_vars => (KbdInv /\ LineInv)'
  BY KbdInvNext, LineInvNext
<1>2. ASSUME LineInv PROVE LineAsTyped
  <2>1. want \in Seq(Char) /\ Len(want) \in Nat /\ DOMAIN want = 1..Len(want)
    BY <1>2 DEF LineInv
  <2>2. pc = "read" => pos = Len(want) /\ \A i \in 1..pos : cmd_line[i - 1] = want[i]
    BY <1>2, <2>1 DEF LineInv
  <2>3. ASSUME pc = "entered", NEW i \in 1..(Len(want) + 1)
        PROVE  cmd_line[i - 1] = (want \o <<Nul>>)[i]
    <3>1. CASE i \in 1..Len(want)
      BY <1>2, <2>1, <2>3, <3>1 DEF LineInv
    <3>2. CASE i = Len(want) + 1
      <4>1. cmd_line[Len(want)] = Nul /\ i - 1 = Len(want)
        BY <1>2, <2>1, <2>3, <3>2 DEF LineInv
      <4>2. (want \o <<Nul>>)[i] = Nul
        BY <2>1, <3>2
      <4> QED
        BY <4>1, <4>2
    <3> QED
      BY <2>1, <3>1, <3>2
  <2> QED
    BY <2>2, <2>3 DEF LineAsTyped
<1> QED
  BY <1>1, <1>2, KbdInvInit, LineInvInit, PTL DEF Spec
-----------------------------------------------------------------------------
(* What is in cell i of cmd_line when the line is entered.                 *)
Typed(i) == IF i = Len(want) THEN Nul ELSE want[i + 1]

Below(S, x) == Cardinality({y \in S : y < x})

(* The word that starts at s is whole in cmd_line and ends there.          *)
IsCut(s) ==
  /\ End(want, s) \in s..next
  /\ \A i \in s..End(want, s) : cmd_line[i - 1] = want[i]
  /\ cmd_line[End(want, s)] = Nul

(* cmd_parse between two words: what is in front of next is cut and in     *)
(* argv, what is behind it is still as it was typed, and next is not       *)
(* inside a word.                                                          *)
ParseInv ==
  /\ Len(want) <= MAX_PATH_LEN
  /\ pc \in {"parse", "run"} =>
       /\ next \in 0..Len(want)
       /\ next \in {0, Len(want)} \/ want[next] = "sp"
       /\ \A i \in next..Len(want) : cmd_line[i] = Typed(i)
       /\ argv \in Seq(Nat) /\ argc = Len(argv)
       /\ argc = Below(Starts(want), next + 1)
       /\ \A n \in 1..argc :
            /\ argv[n] + 1 \in Starts(want) /\ IsCut(argv[n] + 1)
            /\ Below(Starts(want), argv[n] + 1) = n - 1
  /\ pc = "run" => argc = Cardinality(Starts(want))

LEMMA LeastNat ==
  ASSUME NEW S \in SUBSET Nat, S # {}
  PROVE  \E x \in S : \A y \in S : x <= y
<1> DEFINE B(x) == 0 .. (x - 1)
           T == {B(x) : x \in S}
           R == StrictSubsetOrdering(Nat)
<1>1. T # {} /\ T \subseteq FiniteSubsetsOf(Nat)
  <2>1. ASSUME NEW x \in S PROVE B(x) \subseteq Nat /\ IsFiniteSet(B(x))
    <3>1. x - 1 \in Int /\ 0 \in Int
      OBVIOUS
    <3> QED
      BY <3>1, FS_Interval
  <2> HIDE DEF B
  <2> QED
    BY <2>1 DEF FiniteSubsetsOf
<1>2. PICK m \in T : \A n \in T : ~(<<n, m>> \in R)
  <2> HIDE DEF T, R
  <2> QED
    BY <1>1, FS_StrictSubsetOrderingWellFounded, WFMin DEF R
<1>3. PICK x \in S : m = B(x)
  BY <1>2
<1>4. \A y \in S : x <= y
  <2> SUFFICES ASSUME NEW y \in S, y < x PROVE FALSE
    OBVIOUS
  <2>1. B(y) \subseteq B(x) /\ y \in B(x) /\ y \notin B(y) /\ B(x) \subseteq Nat
    OBVIOUS
  <2> HIDE DEF B
  <2>2. <<B(y), B(x)>> \in StrictSubsetOrdering(Nat)
    BY <2>1 DEF StrictSubsetOrdering
  <2> QED
    BY <1>2, <1>3, <2>2
<1> QED
  BY <1>4

(* From stops at the first cell with one of the characters, if there is    *)
(* one at all.                                                             *)
LEMMA FromOK ==
  ASSUME NEW i \in Nat, NEW S, NEW k \in i..MAX_PATH_LEN, cmd_line[k] \in S
  PROVE  /\ From(i, S) \in i..k /\ cmd_line[From(i, S)] \in S
         /\ \A h \in i..(From(i, S) - 1) : cmd_line[h] \notin S
<1> DEFINE T == {j \in i..MAX_PATH_LEN : cmd_line[j] \in S}
<1>0. MAX_PATH_LEN \in Nat
  BY TerminalAssumption DEF TerminalAssumption
<1>1. T \in SUBSET Nat /\ k \in T
  BY <1>0
<1>2. PICK j \in T : \A h \in T : j <= h
  BY <1>1, LeastNat
<1>3. \A h \in i..(j - 1) : h \in i..MAX_PATH_LEN /\ ~(j <= h)
  BY <1>0, <1>2
<1>4. \A h \in i..(j - 1) : cmd_line[h] \notin S
  BY <1>2, <1>3
<1>5. j \in i..MAX_PATH_LEN /\ cmd_line[j] \in S
  BY <1>2
<1>6. PICK f : f = From(i, S)
  OBVIOUS
<1>7. f \in i..MAX_PATH_LEN /\ cmd_line[f] \in S /\ \A h \in i..(f - 1) : cmd_line[h] \notin S
  BY <1>4, <1>5, <1>6 DEF From
<1>8. ~(k \in i..(f - 1))
  BY <1>7
<1>9. f \in i..k
  BY <1>0, <1>7, <1>8
<1> QED
  BY <1>6, <1>7, <1>9

(* The end of a word is the one place where it stops.                      *)
LEMMA EndIs ==
  ASSUME NEW line, NEW i \in Nat, Len(line) \in Nat, NEW e \in i..Len(line),
         ~InWord(line, e + 1), \A h \in i..e : InWord(line, h)
  PROVE  End(line, i) = e
<1>1. ASSUME NEW j \in i..Len(line), ~InWord(line, j + 1), \A h \in i..j : InWord(line, h)
      PROVE  j = e
  <2>1. j \in Nat /\ e \in Nat /\ i <= j /\ i <= e
    OBVIOUS
  <2>2. CASE j < e
    <3>1. j + 1 \in i..e
      BY <2>1, <2>2
    <3> QED
      BY <1>1, <3>1
  <2>3. CASE e < j
    <3>1. e + 1 \in i..j
      BY <2>1, <2>3
    <3> QED
      BY <1>1, <3>1
  <2> QED
    BY <2>1, <2>2, <2>3
<1> QED
  BY <1>1 DEF End

LEMMA WantOK ==
  ASSUME LineInv
  PROVE  /\ Len(want) \in Nat /\ DOMAIN want = 1..Len(want)
         /\ \A i \in 1..Len(want) : want[i] # Nul
         /\ Starts(want) \subseteq 1..Len(want) /\ IsFiniteSet(Starts(want))
<1>1. want \in Seq(Char)
  BY DEF LineInv
<1>2. Len(want) \in Nat /\ DOMAIN want = 1..Len(want)
  BY <1>1
<1>3. \A i \in 1..Len(want) : want[i] # Nul
  BY <1>1, <1>2 DEF Char
<1>4. Starts(want) \subseteq 1..Len(want)
  BY <1>2 DEF Starts
<1>5. IsFiniteSet(1..Len(want))
  BY <1>2, FS_Interval
<1> QED
  BY <1>2, <1>3, <1>4, <1>5, FS_Subset

(* The next word, or the end of the line.                                  *)
LEMMA WordStartOK ==
  ASSUME LineInv, ParseInv, pc = "parse"
  PROVE  /\ WordStart \in next..Len(want) /\ cmd_line[WordStart] = Typed(WordStart)
         /\ Typed(WordStart) # "sp"
         /\ \A h \in next..(WordStart - 1) : Typed(h) = "sp"
<1> DEFINE S == {cmd_line[i] : i \in DOMAIN cmd_line} \ {"sp"}
<1>1. Len(want) \in Nat /\ MAX_PATH_LEN \in Nat /\ Len(want) <= MAX_PATH_LEN /\ next \in 0..Len(want)
  BY WantOK, TerminalAssumption DEF TerminalAssumption, ParseInv
<1>2. \A i \in next..Len(want) : i \in DOMAIN cmd_line /\ cmd_line[i] = Typed(i)
  BY <1>1 DEF LineInv, ParseInv
<1>3. Len(want) \in next..MAX_PATH_LEN /\ Len(want) \in next..Len(want)
  BY <1>1
<1>4. cmd_line[Len(want)] \in S
  BY <1>2, <1>3 DEF Typed, Nul
<1>5. PICK a : a = WordStart
  OBVIOUS
<1>6. a = From(next, S)
  BY <1>5 DEF WordStart
<1>7. next \in Nat
  BY <1>1
<1> HIDE DEF S
<1>8. a \in next..Len(want) /\ cmd_line[a] \in S /\ \A h \in next..(a - 1) : cmd_line[h] \notin S
  BY <1>3, <1>4, <1>6, <1>7, FromOK
<1> USE DEF S
<1>9. \A h \in next..(a - 1) : h \in next..Len(want)
  BY <1>1, <1>8
<1>10. \A h \in next..(a - 1) : Typed(h) = "sp"
  BY <1>2, <1>8, <1>9
<1>11. cmd_line[a] = Typed(a) /\ cmd_line[a] # "sp"
  BY <1>2, <1>8
<1> QED
  BY <1>5, <1>8, <1>10, <1>11

LEMMA WordEndOK ==
  ASSUME LineInv, ParseInv, pc = "parse", WordStart # Len(want)
  PROVE  /\ WordEnd \in (WordStart + 1)..Len(want) /\ cmd_line[WordEnd] = Typed(WordEnd)
         /\ Typed(WordEnd) \in {"sp", Nul}
         /\ \A h \in WordStart..(WordEnd - 1) : h \in next..Len(want) /\ h # Len(want) /\ Typed(h) # "sp"
<1>1. PICK a : a = WordStart
  OBVIOUS
<1>2. /\ Len(want) \in Nat /\ MAX_PATH_LEN \in Nat /\ Len(want) <= MAX_PATH_LEN /\ next \in 0..Len(want)
      /\ DOMAIN want = 1..Len(want) /\ \A i \in 1..Len(want) : want[i] # Nul
  BY WantOK, TerminalAssumption DEF TerminalAssumption, ParseInv
<1>3. \A i \in next..Len(want) : cmd_line[i] = Typed(i)
  BY DEF ParseInv
<1>4. a \in next..Len(want) /\ a # Len(want) /\ Typed(a) # "sp"
  BY <1>1, WordStartOK
<1>num. /\ next \in Nat /\ a \in Nat /\ Len(want) \in Nat /\ MAX_PATH_LEN \in Nat
      /\ Len(want) <= MAX_PATH_LEN /\ next <= a /\ a < Len(want)
  <2>1. PICK L : L = Len(want)
    OBVIOUS
  <2>2. L \in Nat /\ MAX_PATH_LEN \in Nat /\ L <= MAX_PATH_LEN /\ next \in 0..L
    BY <1>2, <2>1
  <2>3. a \in next..L /\ a # L
    BY <1>4, <2>1
  <2>4. next \in Nat /\ a \in Nat /\ next <= a /\ a < L
    BY <2>2, <2>3
  <2> QED
    BY <2>1, <2>2, <2>4
<1>5. a \in Nat /\ Len(want) \in a..MAX_PATH_LEN /\ Len(want) \in next..Len(want)
  BY <1>num
<1>6. cmd_line[Len(want)] \in {"sp", Nul}
  BY <1>3, <1>5 DEF Typed
<1>7. PICK b : b = WordEnd
  OBVIOUS
<1>8. b = From(a, {"sp", Nul})
  BY <1>1, <1>7 DEF WordEnd
<1>9. /\ b \in a..Len(want) /\ cmd_line[b] \in {"sp", Nul}
      /\ \A h \in a..(b - 1) : cmd_line[h] \notin {"sp", Nul}
  BY <1>5, <1>6, <1>8, FromOK
<1>10. b # a
  <2>1. a + 1 \in 1..Len(want) /\ a # Len(want)
    BY <1>num
  <2>2. Typed(a) # Nul
    BY <1>2, <2>1 DEF Typed
  <2>3. cmd_line[a] = Typed(a)
    BY <1>3, <1>4
  <2> QED
    BY <1>4, <1>9, <2>2, <2>3
<1>11. b \in (a + 1)..Len(want) /\ b \in next..Len(want)
  <2>1. b \in a..Len(want) /\ b # a
    BY <1>9, <1>10
  <2> QED
    BY <1>num, <2>1
<1>12. \A h \in a..(b - 1) : h \in next..Len(want) /\ h # Len(want)
  BY <1>num, <1>11
<1>13. \A h \in a..(b - 1) : Typed(h) # "sp"
  BY <1>3, <1>9, <1>12
<1>14. cmd_line[b] = Typed(b)
  BY <1>3, <1>11
<1> QED
  BY <1>1, <1>7, <1>9, <1>11, <1>12, <1>13, <1>14

(* The cells from WordStart up to WordEnd are the first word behind next.  *)
LEMMA WordFound ==
  ASSUME LineInv, ParseInv, pc = "parse", WordStart # Len(want),
         NEW a, a = WordStart, NEW b, b = WordEnd,
         NEW nx, nx = IF cmd_line[b] = "sp" THEN b + 1 ELSE b
  PROVE  /\ a \in next..Len(want) /\ b \in (a + 1)..Len(want) /\ nx \in b..Len(want)
         /\ a + 1 \in Starts(want) /\ End(want, a + 1) = b
         /\ \A i \in (a + 1)..b : cmd_line[i - 1] = want[i]
         /\ {j \in Starts(want) : j < a + 1} = {j \in Starts(want) : j < next + 1}
         /\ {j \in Starts(want) : j < nx + 1} = {j \in Starts(want) : j < a + 1} \cup {a + 1}
         /\ nx = Len(want) \/ want[nx] = "sp"
         /\ nx = b => b = Len(want)
<1>1. PICK L : L = Len(want)
  OBVIOUS
<1>2. /\ L \in Nat /\ DOMAIN want = 1..L /\ next \in 0..L
      /\ \A i \in 1..L : want[i] # Nul
      /\ Starts(want) \subseteq 1..L
  BY <1>1, WantOK DEF ParseInv
<1>3. \A i \in next..L : cmd_line[i] = Typed(i)
  BY <1>1 DEF ParseInv
<1>4. /\ a \in next..L /\ a # L /\ Typed(a) # "sp"
      /\ \A h \in next..(a - 1) : Typed(h) = "sp"
  BY <1>1, WordStartOK
<1>5. /\ b \in (a + 1)..L /\ cmd_line[b] = Typed(b) /\ Typed(b) \in {"sp", Nul}
      /\ \A h \in a..(b - 1) : h \in next..L /\ h # L /\ Typed(h) # "sp"
  BY <1>1, WordEndOK
<1>6. next \in Nat /\ a \in Nat /\ b \in Nat /\ next <= a /\ a < b /\ b <= L
  BY <1>2, <1>4, <1>5
<1>7. \A i : i # L => Typed(i) = want[i + 1]
  BY <1>1 DEF Typed
<1>8. \A h \in (a + 1)..b : h \in 1..L /\ cmd_line[h - 1] = want[h] /\ want[h] # "sp"
  <2> SUFFICES ASSUME NEW h \in (a + 1)..b
               PROVE  h \in 1..L /\ cmd_line[h - 1] = want[h] /\ want[h] # "sp"
    OBVIOUS
  <2>1. h \in 1..L /\ h - 1 \in a..(b - 1) /\ (h - 1) + 1 = h
    BY <1>2, <1>6
  <2>2. h - 1 \in next..L /\ h - 1 # L /\ Typed(h - 1) # "sp"
    BY <1>5, <2>1
  <2>3. Typed(h - 1) = want[h] /\ cmd_line[h - 1] = Typed(h - 1)
    BY <1>3, <1>7, <2>1, <2>2
  <2> QED
    BY <2>1, <2>2, <2>3
<1>9. \A h \in (a + 1)..b : InWord(want, h)
  BY <1>2, <1>8 DEF InWord
<1>10. \A j \in (next + 1)..a : ~InWord(want, j)
  <2> SUFFICES ASSUME NEW j \in (next + 1)..a PROVE want[j] = "sp"
    BY DEF InWord
  <2>1. j - 1 \in next..(a - 1) /\ j - 1 # L /\ (j - 1) + 1 = j
    BY <1>2, <1>6
  <2> QED
    BY <1>4, <1>7, <2>1
<1>11. ~InWord(want, a)
  <2>1. CASE a = next
    <3>1. next # L
      BY <1>4, <2>1
    <3>2. next = 0 \/ want[next] = "sp"
      BY <1>1, <3>1 DEF ParseInv
    <3>3. ~(0 \in DOMAIN want)
      BY <1>2
    <3> QED
      BY <2>1, <3>2, <3>3 DEF InWord
  <2>2. CASE a # next
    <3>1. a \in (next + 1)..a
      BY <1>6, <2>2
    <3> QED
      BY <1>10, <3>1
  <2> QED
    BY <2>1, <2>2
<1>12. ~InWord(want, b + 1) /\ (b # L => want[b + 1] = "sp") /\ (Typed(b) = "sp" <=> b # L)
  <2>1. CASE b = L
    <3>1. ~(b + 1 \in DOMAIN want)
      BY <1>2, <2>1
    <3>2. Typed(b) = Nul
      BY <1>1, <2>1 DEF Typed
    <3> QED
      BY <2>1, <3>1, <3>2 DEF InWord, Nul
  <2>2. CASE b # L
    <3>1. b + 1 \in 1..L
      BY <1>2, <1>6, <2>2
    <3>2. want[b + 1] = "sp" /\ Typed(b) = "sp"
      BY <1>2, <1>5, <1>7, <2>2, <3>1
    <3> QED
      BY <2>2, <3>2 DEF InWord
  <2> QED
    BY <2>1, <2>2
<1>13. /\ nx = (IF b = L THEN b ELSE b + 1)
       /\ nx \in b..L /\ (nx = L \/ want[nx] = "sp") /\ (nx = b => b = L)
  <2>1. nx = (IF b = L THEN b ELSE b + 1)
    BY <1>5, <1>12
  <2>2. nx \in b..L /\ (nx = b => b = L)
    BY <1>2, <1>6, <2>1
  <2> QED
    BY <1>12, <2>1, <2>2
<1>14. a + 1 \in Starts(want)
  <2>1. a + 1 \in (a + 1)..b /\ (a + 1) - 1 = a
    BY <1>6
  <2> QED
    BY <1>9, <1>11, <2>1 DEF Starts, InWord
<1>15. End(want, a + 1) = b
  <2>1. a + 1 \in Nat /\ Len(want) \in Nat /\ b \in (a + 1)..Len(want)
    BY <1>1, <1>2, <1>5, <1>6
  <2> QED
    BY <1>9, <1>12, <2>1, EndIs
<1>16. \A j \in Starts(want) : j \in Nat /\ InWord(want, j) /\ ~InWord(want, j - 1)
  BY <1>2 DEF Starts
<1>17. ASSUME NEW j \in Starts(want) PROVE j < a + 1 <=> j < next + 1
  <2>1. ~(j \in (next + 1)..a) /\ j \in Nat
    BY <1>10, <1>16
  <2> QED
    BY <1>6, <2>1
<1>18. ASSUME NEW j \in Starts(want) PROVE j < nx + 1 <=> j < a + 1 \/ j = a + 1
  <2>1. j \in Nat /\ ~(j - 1 \in (a + 1)..b) /\ (j = b + 1 => b = L) /\ j <= L
    BY <1>2, <1>9, <1>12, <1>16
  <2> QED
    BY <1>2, <1>6, <1>13, <2>1
<1>19. {j \in Starts(want) : j < a + 1} = {j \in Starts(want) : j < next + 1}
  BY <1>17
<1>20. {j \in Starts(want) : j < nx + 1} = {j \in Starts(want) : j < a + 1} \cup {a + 1}
  BY <1>14, <1>18
<1> QED
  BY <1>1, <1>4, <1>5, <1>8, <1>13, <1>14, <1>15, <1>19, <1>20

(* One round of cmd_parse.                                                 *)
LEMMA ParseWordKeeps ==
  ASSUME LineInv, ParseInv, ParseWord
  PROVE  ParseInv'
<1>1. CASE Halt("argv")
  BY <1>1 DEF Halt, shellVars, ParseInv, IsCut, Typed
<1>2. CASE /\ cmd_line[WordStart] = Nul /\ pc = "parse" /\ pc' = "run"
           /\ UNCHANGED <<cmd_line, want, next, argc, argv>>
  <2>1. WordStart \in next..Len(want) /\ cmd_line[WordStart] = Typed(WordStart)
        /\ \A h \in next..(WordStart - 1) : Typed(h) = "sp"
    BY <1>2, WordStartOK
  <2>2. PICK L : L = Len(want)
    OBVIOUS
  <2>3. /\ L \in Nat /\ DOMAIN want = 1..L /\ (\A i \in 1..L : want[i] # Nul)
        /\ Starts(want) \subseteq 1..L /\ next \in 0..L
    BY <1>2, <2>2, WantOK DEF ParseInv
  <2>4. WordStart = L
    <3>1. WordStart \in next..L /\ Typed(WordStart) = Nul
      BY <1>2, <2>1, <2>2
    <3>2. WordStart # L => WordStart + 1 \in 1..L
      BY <2>3, <3>1
    <3> QED
      BY <2>2, <2>3, <3>1, <3>2 DEF Typed
  <2>5. ASSUME NEW j \in Starts(want) PROVE j < next + 1
    <3>1. j \in 1..L /\ want[j] # "sp"
      BY <2>3 DEF Starts, InWord
    <3>2. CASE j \in (next + 1)..L
      <4>1. j - 1 \in next..(WordStart - 1) /\ j - 1 # L /\ (j - 1) + 1 = j
        BY <2>3, <2>4, <3>2
      <4>2. Typed(j - 1) = "sp"
        BY <2>1, <4>1
      <4> QED
        BY <2>2, <3>1, <4>1, <4>2 DEF Typed
    <3>3. CASE ~(j \in (next + 1)..L)
      BY <2>3, <3>1, <3>3
    <3> QED
      BY <3>2, <3>3
  <2>6. {j \in Starts(want) : j < next + 1} = Starts(want)
    BY <2>5
  <2>7. argc = Cardinality(Starts(want))
    <3>1. argc = Cardinality({j \in Starts(want) : j < next + 1})
      BY <1>2 DEF ParseInv, Below
    <3> QED
      BY <2>6, <3>1
  <2> QED
    BY <1>2, <2>7 DEF ParseInv, IsCut, Typed
<1>3. CASE /\ cmd_line[WordStart] # Nul /\ pc = "parse"
           /\ argv' = Append(argv, WordStart) /\ argc' = argc + 1
           /\ Cut(WordEnd) /\ UNCHANGED <<want, pc>>
  <2>1. PICK a, b, nx : a = WordStart /\ b = WordEnd /\ nx = IF cmd_line[b] = "sp" THEN b + 1 ELSE b
    OBVIOUS
  <2>2. /\ cmd_line' = [cmd_line EXCEPT ![b] = Nul] /\ next' = nx
        /\ argv' = Append(argv, a) /\ argc' = argc + 1
    BY <1>3, <2>1 DEF Cut
  <2>3. WordStart # Len(want)
    <3>1. cmd_line[WordStart] = Typed(WordStart)
      BY <1>3, WordStartOK
    <3> QED
      BY <1>3, <3>1 DEF Typed
  <2>4. /\ a \in next..Len(want) /\ b \in (a + 1)..Len(want) /\ nx \in b..Len(want)
        /\ a + 1 \in Starts(want) /\ End(want, a + 1) = b
        /\ \A i \in (a + 1)..b : cmd_line[i - 1] = want[i]
        /\ {j \in Starts(want) : j < a + 1} = {j \in Starts(want) : j < next + 1}
        /\ {j \in Starts(want) : j < nx + 1} = {j \in Starts(want) : j < a + 1} \cup {a + 1}
        /\ nx = Len(want) \/ want[nx] = "sp"
        /\ nx = b => b = Len(want)
    BY <1>3, <2>1, <2>3, WordFound
  <2>5. PICK L : L = Len(want)
    OBVIOUS
  <2>6. /\ L \in Nat /\ next \in 0..L /\ L <= MAX_PATH_LEN /\ MAX_PATH_LEN \in Nat
        /\ DOMAIN cmd_line = 0..MAX_PATH_LEN /\ IsFiniteSet(Starts(want))
        /\ argv \in Seq(Nat) /\ argc = Len(argv)
        /\ argc = Below(Starts(want), next + 1)
        /\ \A n \in 1..argc :
             /\ argv[n] + 1 \in Starts(want) /\ IsCut(argv[n] + 1)
             /\ Below(Starts(want), argv[n] + 1) = n - 1
    BY <1>3, <2>5, WantOK, TerminalAssumption DEF TerminalAssumption, ParseInv, LineInv
  <2>7. a \in Nat /\ b \in Nat /\ nx \in Nat /\ next \in Nat /\ next <= a /\ a < b /\ b <= nx /\ nx <= L
    BY <2>4, <2>5, <2>6
  <2>8. \A i \in 0..MAX_PATH_LEN : cmd_line'[i] = IF i = b THEN Nul ELSE cmd_line[i]
    BY <2>2, <2>6
  <2>9. \A i \in nx..L : cmd_line'[i] = Typed(i)
    <3>1. \A i \in nx..L : i \in next..L /\ i \in 0..MAX_PATH_LEN /\ (i = b => nx = b)
      BY <2>6, <2>7
    <3>2. \A i \in next..L : cmd_line[i] = Typed(i)
      BY <1>3, <2>5 DEF ParseInv
    <3>3. nx = b => Typed(b) = Nul
      BY <2>4 DEF Typed
    <3> QED
      BY <2>8, <3>1, <3>2, <3>3
  <2>10. /\ argc \in Nat /\ argv' \in Seq(Nat) /\ Len(argv') = argc + 1
         /\ argv'[argc + 1] = a /\ \A n \in 1..argc : argv'[n] = argv[n]
    <3>1. argv \in Seq(Nat) /\ argc = Len(argv) /\ a \in Nat /\ argv' = Append(argv, a)
      BY <2>2, <2>6, <2>7
    <3> QED
      BY <3>1
  <2>11. Below(Starts(want), a + 1) = argc
    <3>1. argc = Cardinality({j \in Starts(want) : j < next + 1})
      BY <2>6 DEF Below
    <3> QED
      BY <2>4, <3>1 DEF Below
  <2>12. Below(Starts(want), nx + 1) = argc + 1
    <3>1. PICK T : T = {j \in Starts(want) : j < a + 1}
      OBVIOUS
    <3>2. IsFiniteSet(T) /\ a + 1 \notin T
      <4>1. T \subseteq Starts(want)
        BY <3>1
      <4>2. ~(a + 1 < a + 1)
        BY <2>7
      <4> QED
        BY <2>6, <3>1, <4>1, <4>2, FS_Subset
    <3>3. Cardinality(T \cup {a + 1}) = Cardinality(T) + 1
      BY <3>2, FS_AddElement
    <3>4. Cardinality(T) = argc
      BY <2>11, <3>1 DEF Below
    <3>5. {j \in Starts(want) : j < nx + 1} = T \cup {a + 1}
      BY <2>4, <3>1
    <3> QED
      BY <3>3, <3>4, <3>5 DEF Below
  <2>13. ASSUME NEW n \in 1..argc PROVE IsCut(argv[n] + 1)'
    <3>1. PICK s : s = argv[n] + 1
      OBVIOUS
    <3>2. s \in Starts(want) /\ IsCut(s)
      BY <2>6, <3>1
    <3>3. PICK e : e = End(want, s)
      OBVIOUS
    <3>4. /\ e \in s..next /\ cmd_line[e] = Nul
          /\ \A i \in s..e : cmd_line[i - 1] = want[i]
      BY <3>2, <3>3 DEF IsCut
    <3>5. s \in 1..L
      BY <2>5, <3>2, WantOK
    <3>6. e \in s..nx /\ e \in 0..MAX_PATH_LEN /\ e # b
      BY <2>6, <2>7, <3>4, <3>5
    <3>7. \A i \in s..e : i - 1 \in 0..MAX_PATH_LEN /\ i - 1 # b
      BY <2>6, <2>7, <3>4, <3>5
    <3>8. cmd_line'[e] = Nul /\ \A i \in s..e : cmd_line'[i - 1] = want[i]
      BY <2>8, <3>4, <3>6, <3>7
    <3>9. /\ want' = want /\ next' = nx /\ argv'[n] + 1 = s /\ argv[n] + 1 = s
      BY <1>3, <2>2, <2>10, <3>1
    <3>10. IsCut(s)'
      BY <3>3, <3>6, <3>8, <3>9 DEF IsCut
    <3> QED
      BY <3>10, <3>9 DEF IsCut
  <2>14. IsCut(a + 1)'
    <3>1. b \in (a + 1)..nx /\ b \in 0..MAX_PATH_LEN
      BY <2>6, <2>7
    <3>2. \A i \in (a + 1)..b : i - 1 \in 0..MAX_PATH_LEN /\ i - 1 # b
      BY <2>6, <2>7
    <3>3. cmd_line'[b] = Nul /\ \A i \in (a + 1)..b : cmd_line'[i - 1] = want[i]
      BY <2>4, <2>8, <3>1, <3>2
    <3>5. want' = want /\ next' = nx
      BY <1>3, <2>2
    <3> QED
      BY <2>4, <3>1, <3>3, <3>5 DEF IsCut
  <2>15. ASSUME NEW n \in 1..(argc + 1)
         PROVE  /\ argv'[n] + 1 \in Starts(want) /\ IsCut(argv[n] + 1)'
                /\ Below(Starts(want), argv'[n] + 1) = n - 1
    <3>1. CASE n = argc + 1
      <4>1. argv'[n] = a
        BY <2>10, <3>1
      <4>2. (argc + 1) - 1 = argc
        BY <2>10
      <4>3. IsCut(argv[n] + 1)'
        BY <2>14, <4>1 DEF IsCut
      <4> QED
        BY <2>4, <2>11, <3>1, <4>1, <4>2, <4>3
    <3>2. CASE n # argc + 1
      <4>1. n \in 1..argc
        BY <2>10, <3>2
      <4> QED
        BY <2>6, <2>10, <2>13, <4>1
    <3> QED
      BY <3>1, <3>2
  <2>16. nx \in 0..L
    BY <2>6, <2>7
  <2>17. \A n \in 1..argc' :
            /\ (argv[n] + 1 \in Starts(want) /\ IsCut(argv[n] + 1))'
            /\ (Below(Starts(want), argv[n] + 1) = n - 1)'
    BY <1>3, <2>2, <2>15
  <2>18. /\ (Len(want) <= MAX_PATH_LEN)' /\ pc' # "run"
         /\ (next \in 0..Len(want) /\ (next \in {0, Len(want)} \/ want[next] = "sp"))'
         /\ (argv \in Seq(Nat) /\ argc = Len(argv) /\ argc = Below(Starts(want), next + 1))'
    BY <1>3, <2>2, <2>4, <2>5, <2>6, <2>10, <2>12, <2>16
  <2>19. (\A i \in next..Len(want) : cmd_line[i] = Typed(i))'
    BY <1>3, <2>2, <2>5, <2>9 DEF Typed
  <2> QED
    BY <2>17, <2>18, <2>19 DEF ParseInv
<1> QED
  BY <1>1, <1>2, <1>3 DEF ParseWord

(* readline never lets the line outgrow cmd_line.                          *)
LEMMA ReadCharFits ==
  ASSUME LineInv, ParseInv, ReadChar
  PROVE  ParseInv'
<1> DEFINE c == Head(kbd_buf)
           stored == [cmd_line EXCEPT ![pos] = c]
<1>1. CASE Halt("long_line")
  BY <1>1 DEF Halt, shellVars, ParseInv, IsCut, Typed
<1>2. CASE ~Halt("long_line")
  <2>1. /\ pc = "read" /\ pos < MAX_PATH_LEN
        /\ CASE c = "^l" -> Cells([stored EXCEPT ![pos] = Nul]) /\ UNCHANGED <<pos, want, pc>>
             [] c = "^u" -> Kill(stored)
             [] c = "bs" -> Erase(stored)
             [] c = "cr" -> /\ Cells([stored EXCEPT ![pos] = Nul])
                            /\ pc' = "entered" /\ UNCHANGED <<pos, want>>
             [] OTHER    -> /\ Cells(stored) /\ pos' = pos + 1
                            /\ want' = Append(want, c) /\ UNCHANGED pc
    BY <1>2 DEF ReadChar
  <2> HIDE DEF c, stored
  <2>2. /\ pc' \in {"read", "entered"}
        /\ \/ want' = want
           \/ want' = <<>>
           \/ want # <<>> /\ want' = Front(want)
           \/ want' = Append(want, c)
    BY <2>1 DEF Kill, Erase
  <2>3. want \in Seq(Char) /\ pos = Len(want) /\ MAX_PATH_LEN \in Nat
    BY <2>1, TerminalAssumption DEF LineInv, TerminalAssumption
  <2>4. Len(want) \in Nat /\ Len(want) < MAX_PATH_LEN
    BY <2>1, <2>3
  <2>5. CASE want' = Append(want, c)
    <3>1. Len(want') = Len(want) + 1
      BY <2>3, <2>5
    <3>2. Len(want') <= MAX_PATH_LEN
      BY <2>3, <2>4, <3>1
    <3> QED
      BY <2>2, <3>2 DEF ParseInv
  <2>6. CASE want # <<>> /\ want' = Front(want)
    <3>1. Len(want') = Len(want) - 1
      BY <2>3, <2>6 DEF Front
    <3>2. Len(want') <= MAX_PATH_LEN
      BY <2>3, <2>4, <3>1
    <3> QED
      BY <2>2, <3>2 DEF ParseInv
  <2>7. CASE want' = <<>>
    <3>1. Len(want') <= MAX_PATH_LEN
      BY <2>3, <2>7
    <3> QED
      BY <2>2, <3>1 DEF ParseInv
  <2>8. CASE want' = want
    BY <2>2, <2>8 DEF ParseInv
  <2> QED
    BY <2>2, <2>5, <2>6, <2>7, <2>8
<1> QED
  BY <1>1, <1>2

(* my_shell hands the line to cmd_parse whole, with no word found yet.     *)
LEMMA EnteredKeeps ==
  ASSUME LineInv, ParseInv, Entered
  PROVE  ParseInv'
<1>1. CASE cmd_line[0] = Nul
  <2>1. pc' = "read" /\ want' = <<>>
    BY <1>1 DEF Entered, Prompt
  <2>2. Len(want') = 0 /\ MAX_PATH_LEN \in Nat
    BY <2>1, TerminalAssumption DEF TerminalAssumption
  <2> QED
    BY <2>1, <2>2 DEF ParseInv
<1>2. CASE cmd_line[0] # Nul
  <2>1. /\ pc = "entered" /\ pc' = "parse" /\ next' = 0 /\ argc' = 0 /\ argv' = <<>>
        /\ UNCHANGED <<cmd_line, want>>
    BY <1>2 DEF Entered
  <2>2. PICK L : L = Len(want)
    OBVIOUS
  <2>3. L \in Nat /\ DOMAIN want = 1..L /\ Starts(want) \subseteq 1..L
    BY <2>2, WantOK
  <2>4. /\ \A i \in 1..L : cmd_line[i - 1] = want[i]
        /\ cmd_line[L] = Nul /\ L <= MAX_PATH_LEN
    BY <2>1, <2>2, <2>3 DEF LineInv, ParseInv
  <2>5. \A i \in 0..L : cmd_line[i] = Typed(i)
    <3>1. \A i \in 0..L : i # L => i + 1 \in 1..L /\ (i + 1) - 1 = i
      BY <2>3
    <3> QED
      BY <2>2, <2>4, <3>1 DEF Typed
  <2>6. Below(Starts(want), 0 + 1) = 0
    <3>1. {j \in Starts(want) : j < 0 + 1} = {}
      BY <2>3
    <3>2. Cardinality({}) = 0
      BY FS_EmptySet
    <3> QED
      BY <3>1, <3>2 DEF Below
  <2>7. 0 \in 0..L /\ 1..0 = {}
    BY <2>3
  <2>8. <<>> \in Seq(Nat) /\ Len(<<>>) = 0
    OBVIOUS
  <2>9. /\ (Len(want) <= MAX_PATH_LEN)' /\ pc' # "run"
        /\ (next \in 0..Len(want) /\ next \in {0, Len(want)})'
        /\ (argv \in Seq(Nat) /\ argc = Len(argv))'
        /\ (argc = Below(Starts(want), next + 1))'
    BY <2>1, <2>2, <2>4, <2>6, <2>7, <2>8
  <2>10. (\A i \in next..Len(want) : cmd_line[i] = Typed(i))'
    BY <2>1, <2>2, <2>5 DEF Typed
  <2>11. 1..argc' = {}
    BY <2>1, <2>7
  <2> QED
    BY <2>9, <2>10, <2>11 DEF ParseInv
<1> QED
  BY <1>1, <1>2

LEMMA ParseInvNext == LineInv /\ ParseInv /\ [Next]_vars => ParseInv'
<1> SUFFICES ASSUME LineInv, ParseInv, [Next]_vars PROVE ParseInv'
  OBVIOUS
<1>1. CASE UNCHANGED shellVars
  BY <1>1 DEF shellVars, ParseInv, IsCut, Typed
<1>2. (\E k \in Key : Press(k) \/ Release(k)) \/ SecondByte \/ UNCHANGED vars => UNCHANGED shellVars
  BY DEF Press, Release, Send, SecondByte, vars
<1>3. ASSUME Command PROVE ParseInv'
  <2>1. CASE Halt("strcmp")
    BY <1>1, <2>1 DEF Halt
  <2>2. CASE Prompt
    <3>1. pc' = "read" /\ want' = <<>>
      BY <2>2 DEF Prompt
    <3>2. Len(want') = 0 /\ MAX_PATH_LEN \in Nat
      BY <3>1, TerminalAssumption DEF TerminalAssumption
    <3> QED
      BY <3>1, <3>2 DEF ParseInv
  <2> QED
    BY <1>3, <2>1, <2>2 DEF Command
<1> QED
  BY <1>1, <1>2, <1>3, ReadCharFits, EnteredKeeps, ParseWordKeeps DEF Next

LEMMA ParseInvInit == Init => ParseInv
<1> SUFFICES ASSUME Init PROVE ParseInv
  OBVIOUS
<1>1. pc = "read" /\ want = <<>> /\ MAX_PATH_LEN \in Nat
  BY TerminalAssumption DEF Init, TerminalAssumption
<1>2. Len(want) = 0
  BY <1>1
<1> QED
  BY <1>1, <1>2 DEF ParseInv
-----------------------------------------------------------------------------
(* A string ends at its first nul, which is where its word was cut.        *)
LEMMA StringIsWord ==
  ASSUME LineInv, ParseInv, pc = "run", NEW n \in 1..argc
  PROVE  StringAt(argv[n]) = SubSeq(want, argv[n] + 1, End(want, argv[n] + 1))
<1>1. PICK L : L = Len(want)
  OBVIOUS
<1>2. PICK a, e : a = argv[n] /\ e = End(want, a + 1)
  OBVIOUS
<1>3. /\ L \in Nat /\ L <= MAX_PATH_LEN /\ MAX_PATH_LEN \in Nat /\ next \in 0..L
      /\ (\A i \in 1..L : want[i] # Nul) /\ Starts(want) \subseteq 1..L
  BY <1>1, WantOK, TerminalAssumption DEF TerminalAssumption, ParseInv
<1>4. argv \in Seq(Nat) /\ argc = Len(argv) /\ a + 1 \in Starts(want) /\ IsCut(a + 1)
  BY <1>2 DEF ParseInv
<1>5. /\ e \in (a + 1)..next /\ cmd_line[e] = Nul
      /\ \A i \in (a + 1)..e : cmd_line[i - 1] = want[i]
  BY <1>2, <1>4 DEF IsCut
<1>6. a \in Nat
  BY <1>2, <1>4
<1>7. e \in Nat /\ a + 1 <= e /\ e <= L /\ e \in a..MAX_PATH_LEN
  BY <1>3, <1>5, <1>6
<1>8. \A h \in a..(e - 1) : h + 1 \in (a + 1)..e /\ h + 1 \in 1..L /\ (h + 1) - 1 = h
  BY <1>3, <1>6, <1>7
<1>9. \A h \in a..(e - 1) : cmd_line[h] # Nul /\ cmd_line[h] = want[h + 1]
  BY <1>3, <1>5, <1>8
<1> DEFINE Ends(j) == cmd_line[j] = Nul /\ \A h \in a..(j - 1) : cmd_line[h] # Nul
<1>10. ASSUME NEW j \in a..MAX_PATH_LEN, Ends(j) PROVE j = e
  <2>1. j \in Nat /\ ~(j \in a..(e - 1)) /\ ~(e \in a..(j - 1))
    BY <1>5, <1>6, <1>9, <1>10
  <2> QED
    BY <1>6, <1>7, <2>1
<1>11. Ends(e)
  BY <1>5, <1>9
<1>12. (CHOOSE j \in a..MAX_PATH_LEN : Ends(j)) = e
  <2> HIDE DEF Ends
  <2> QED
    BY <1>7, <1>10, <1>11
<1>13. StringAt(a) = [i \in 1..(e - a) |-> cmd_line[a + i - 1]]
  BY <1>12 DEF StringAt
<1> HIDE DEF Ends
<1>14. \A i \in (a + 1)..e : want[i] \in Char
  <2>1. want \in Seq(Char)
    BY DEF LineInv
  <2>2. \A i \in (a + 1)..e : i \in 1..L
    BY <1>3, <1>6, <1>7
  <2> QED
    BY <1>1, <2>1, <2>2
<1>15. PICK w : w = SubSeq(want, a + 1, e)
  OBVIOUS
<1>16. /\ w \in Seq(Char) /\ Len(w) = (IF a + 1 <= e THEN e - (a + 1) + 1 ELSE 0)
       /\ \A i \in 1..(e - (a + 1) + 1) : w[i] = want[a + 1 + i - 1]
  <2>1. a + 1 \in Int /\ e \in Int
    BY <1>6, <1>7
  <2>2. SubSeq(want, a + 1, e) \in Seq(Char)
    BY <1>14, <2>1, SubSeqProperties
  <2>3. Len(SubSeq(want, a + 1, e)) = (IF a + 1 <= e THEN e - (a + 1) + 1 ELSE 0)
    BY <1>14, <2>1, SubSeqProperties
  <2>4. \A i \in 1..(e - (a + 1) + 1) : SubSeq(want, a + 1, e)[i] = want[a + 1 + i - 1]
    BY <1>14, <2>1, SubSeqProperties
  <2> QED
    BY <1>15, <2>2, <2>3, <2>4
<1>17. Len(w) = e - a
  BY <1>6, <1>7, <1>16
<1>18. w = [i \in 1..(e - a) |-> w[i]]
  BY <1>16, <1>17
<1>19. ASSUME NEW i \in 1..(e - a) PROVE w[i] = cmd_line[a + i - 1]
  <2>1. /\ i \in 1..(e - (a + 1) + 1) /\ a + 1 + i - 1 = a + i
        /\ a + i \in (a + 1)..e /\ (a + i) - 1 = a + i - 1
    BY <1>6, <1>7
  <2>2. w[i] = want[a + i]
    BY <1>16, <2>1
  <2>3. cmd_line[(a + i) - 1] = want[a + i]
    BY <1>5, <2>1
  <2> QED
    BY <2>1, <2>2, <2>3
<1>20. w = [i \in 1..(e - a) |-> cmd_line[a + i - 1]]
  BY <1>18, <1>19
<1> QED
  BY <1>2, <1>13, <1>15, <1>20

(* Of the starts of words one has n - 1 in front of it, and that is the    *)
(* n-th.                                                                   *)
LEMMA StartIs ==
  ASSUME LineInv, NEW s \in Starts(want), NEW n, Below(Starts(want), s) = n - 1
  PROVE  Start(want, n) = s
<1>1. PICK S : S = Starts(want)
  OBVIOUS
<1>2. S \subseteq Nat /\ IsFiniteSet(S)
  <2>1. S \subseteq 1..Len(want) /\ Len(want) \in Nat /\ IsFiniteSet(S)
    BY <1>1, WantOK
  <2> QED
    BY <2>1
<1> DEFINE B(x) == {j \in S : j < x}
<1>3. ASSUME NEW x \in S, NEW y \in S, x < y PROVE Below(S, x) # Below(S, y)
  <2>0. x \in Nat /\ y \in Nat /\ \A j \in S : j < x => j < y
    BY <1>2, <1>3
  <2>1. x \in B(y) /\ x \notin B(x) /\ B(x) \subseteq B(y) /\ B(y) \subseteq S
    <3>1. x \in B(y)
      BY <1>3
    <3>2. x \notin B(x)
      BY <2>0
    <3>3. B(x) \subseteq B(y)
      BY <2>0
    <3> QED
      BY <3>1, <3>2, <3>3
  <2>2. Below(S, x) = Cardinality(B(x)) /\ Below(S, y) = Cardinality(B(y))
    BY DEF Below
  <2> HIDE DEF B
  <2>3. IsFiniteSet(B(y))
    BY <1>2, <2>1, FS_Subset
  <2>4. Cardinality(B(x)) = Cardinality(B(y)) => B(x) = B(y)
    BY <2>1, <2>3, FS_Subset
  <2> QED
    BY <2>1, <2>2, <2>4
<1>4. ASSUME NEW x \in S, Below(S, x) = n - 1 PROVE x = s
  <2>1. Below(S, x) = Below(S, s) /\ s \in S
    BY <1>1, <1>4
  <2>2. ~(x < s) /\ ~(s < x) /\ x \in Nat /\ s \in Nat
    BY <1>2, <1>3, <2>1
  <2> QED
    BY <2>2
<1>5. Start(want, n) = CHOOSE x \in S : Below(S, x) = n - 1
  BY <1>1 DEF Start, Below
<1> QED
  BY <1>1, <1>4, <1>5

(* A command gets the words of the line that was typed, in their order and *)
(* each ended where the word ends, although cmd_parse cuts the line in     *)
(* place while it walks it, for lines and words of any length.             *)
THEOREM TerminalArgsAreWords == Spec => []ArgsAreWords
<1>1. ASSUME LineInv, ParseInv PROVE ArgsAreWords
  <2> SUFFICES ASSUME pc = "run"
               PROVE  [n \in 1..argc |-> StringAt(argv[n])] = Words(want)
    BY DEF ArgsAreWords
  <2>1. argc = Cardinality(Starts(want))
    BY <1>1 DEF ParseInv
  <2>2. ASSUME NEW n \in 1..argc
        PROVE  StringAt(argv[n]) = SubSeq(want, Start(want, n), End(want, Start(want, n)))
    <3>1. argv[n] + 1 \in Starts(want) /\ Below(Starts(want), argv[n] + 1) = n - 1
      BY <1>1 DEF ParseInv
    <3>2. Start(want, n) = argv[n] + 1
      BY <1>1, <3>1, StartIs
    <3>3. StringAt(argv[n]) = SubSeq(want, argv[n] + 1, End(want, argv[n] + 1))
      BY <1>1, StringIsWord
    <3> QED
      BY <3>2, <3>3
  <2> QED
    BY <2>1, <2>2 DEF Words
<1>2. KbdInv /\ LineInv /\ ParseInv /\ [Next]_vars => (KbdInv /\ LineInv /\ ParseInv)'
  BY KbdInvNext, LineInvNext, ParseInvNext
<1> QED
  BY <1>1, <1>2, KbdInvInit, LineInvInit, ParseInvInit, PTL DEF Spec
===========================================================================
