------------------------------ MODULE Console ------------------------------
(***************************************************************************)
(* What the kernel does once it is up: the access key, the menu and the    *)
(* shell of src/boot/kmain.cpp, reading the keyboard of                    *)
(* src/hal/keyboard.hpp by polling it, at the pace of the timer interrupt  *)
(* of src/hal/idt.cpp.                                                     *)
(*                                                                         *)
(* The user and the keyboard controller run beside the kernel.  A byte of  *)
(* the controller is a key and whether it went up.  read_char looks for a  *)
(* byte in two places, update_state and its own test, and a byte belongs   *)
(* to whichever looks first after it came.  Drawing is left out, and with  *)
(* it the menu's selection and the shell's focus, which are only drawn.    *)
(***************************************************************************)
EXTENDS Integers, SequencesExt

CONSTANTS
    Keys,        \* the keys the user has
    Printing,    \* those of them that print a character
    Reported,    \* those of them whose release is typed too
    Back, Fold,  \* the commands "back" and "fold", as sequences of characters
    PassMax,     \* characters an access key may have (63)
    CmdMax,      \* characters a command may have (127)
    QueueMax,    \* bytes the keyboard controller holds
    MaxBytes     \* bound on the number of bytes typed

ASSUME ConsoleAssumption ==
    /\ Printing \cup Reported \subseteq Keys
    /\ Printing \cap {"ctrl", "alt", "shift", "enter", "backspace", "tab", "nul"} = {}
    /\ Back \in Seq(Printing) /\ Fold \in Seq(Printing)
    /\ PassMax \in Nat \ {0} /\ CmdMax \in Nat \ {0} /\ QueueMax \in Nat \ {0}

VARIABLES
    place,      \* where the kernel stands
    queue,      \* bytes in the keyboard controller
    pass,       \* buf[0 .. i-1] of read_password
    modifiers,  \* modifiers: "ctrl", "alt" and "shift"
    hotkey,     \* hotkey_triggered
    cmd,        \* cmd, Nul where it is zero
    cmd_idx,    \* cmd_idx
    nodes,      \* active_nodes_ beyond the first
    pulsed,     \* whether g_temporal_pulse differs from last_pulse
    held,       \* keys the user holds down
    typed       \* history: characters typed since power-on

keyboardVars == <<modifiers, hotkey>>
shellVars == <<cmd, cmd_idx, nodes>>
userVars == <<held, typed>>
vars == <<place, queue, pass, keyboardVars, shellVars, pulsed, userVars>>

Modifiers == {"ctrl", "alt", "shift"}
Byte == [key : Keys, up : BOOLEAN]
Nul == "nul"
Line == [0 .. CmdMax -> Printing \cup {Nul}]
BlankLine == [j \in 0 .. CmdMax |-> Nul]

TypeOK ==
    /\ place \in {"password", "update", "read", "menu", "wait", "poll"}
    /\ queue \in Seq(Byte) /\ Len(queue) <= QueueMax
    /\ pass \in Seq(Printing) /\ Len(pass) <= PassMax
    /\ modifiers \subseteq Modifiers /\ {hotkey, pulsed} \subseteq BOOLEAN
    /\ cmd \in Line /\ cmd_idx \in 0 .. CmdMax /\ nodes \in Nat

Init ==
    /\ place = "password"
    /\ queue = <<>> /\ pass = <<>>
    /\ modifiers = {} /\ hotkey = FALSE
    /\ cmd = BlankLine /\ cmd_idx = 0 /\ nodes = 0
    /\ pulsed = FALSE
    /\ held = {} /\ typed = <<>>

-----------------------------------------------------------------------------
(* The user and the controller, and the timer interrupt *)

\* A full controller drops the byte.
Send(byte) == queue' = IF Len(queue) < QueueMax THEN Append(queue, byte) ELSE queue

\* A key goes down, or repeats.
Press(k) ==
    /\ Len(typed) < MaxBytes
    /\ Send([key |-> k, up |-> FALSE])
    /\ held' = held \cup {k}
    /\ typed' = Append(typed, k)
    /\ UNCHANGED <<place, pass, keyboardVars, shellVars, pulsed>>

Release(k) ==
    /\ k \in held
    /\ Send([key |-> k, up |-> TRUE])
    /\ held' = held \ {k}
    /\ UNCHANGED <<place, pass, keyboardVars, shellVars, pulsed, typed>>

\* handle_timer_pulse
Pulse ==
    /\ pulsed' = TRUE
    /\ UNCHANGED <<place, queue, pass, keyboardVars, shellVars, userVars>>

-----------------------------------------------------------------------------
(* Keyboard: update_state, read_char, read_password *)

Available == queue # <<>>
Taken == queue' = Tail(queue)

\* is_data_available before read_char is called.
AwaitByte ==
    /\ place = "password"
    /\ Available
    /\ place' = "update"
    /\ UNCHANGED <<queue, pass, keyboardVars, shellVars, pulsed, userVars>>

NewModifiers(b) ==
    IF b.key \in Modifiers
    THEN IF b.up THEN modifiers \ {b.key} ELSE modifiers \cup {b.key}
    ELSE modifiers

\* update_state: the byte it takes is not given to anyone else.
UpdateState ==
    /\ place = "update"
    /\ place' = "read"
    /\ IF Available
       THEN LET b == Head(queue)
            IN  /\ Taken
                /\ modifiers' = NewModifiers(b)
                /\ hotkey' = (hotkey \/ (b = [key |-> "e", up |-> FALSE]
                                         /\ NewModifiers(b) = Modifiers))
       ELSE UNCHANGED <<queue, keyboardVars>>
    /\ UNCHANGED <<pass, shellVars, pulsed, userVars>>

\* A character the key stands for makes read_char return.
HasChar(b) == b.key \in Printing \cup {"enter", "backspace", "tab"}

Typed(p, k) ==
    IF k = "backspace" /\ p # <<>> THEN Front(p)
    ELSE IF k \in Printing THEN Append(p, k) ELSE p

\* Where the access key is complete the menu begins, with its first entry.
Accept(p, b) ==
    /\ pass' = p
    /\ place' = IF b.key = "enter" \/ Len(p) = PassMax THEN "menu" ELSE "password"

\* The rest of read_char, and read_password when it returns.
ReadWith(counts) ==
    /\ place = "read"
    /\ IF Available /\ counts
       THEN LET b == Head(queue) IN Taken /\ Accept(Typed(pass, b.key), b)
       ELSE /\ place' = "update"
            /\ queue' = IF Available THEN Tail(queue) ELSE queue
            /\ UNCHANGED pass
    /\ UNCHANGED <<keyboardVars, shellVars, pulsed, userVars>>

\* The release bit not looked at (kept for mutation).
ReadReleases == ReadWith(HasChar(Head(queue)))

\* A byte of a key that went up counts for nothing.
ReadChar == ReadWith(HasChar(Head(queue)) /\ ~ Head(queue).up)

-----------------------------------------------------------------------------
(* kmain: the menu *)

EnterShell ==
    /\ place' = "wait"
    /\ cmd' = BlankLine
    /\ cmd_idx' = 0
    /\ pulsed' = FALSE
    /\ UNCHANGED nodes

\* Enter, whichever entry is selected, leads to the shell.
MenuTakes(b) ==
    /\ place = "menu"
    /\ Taken
    /\ IF b = [key |-> "enter", up |-> FALSE] THEN EnterShell
       ELSE UNCHANGED <<place, cmd, cmd_idx, nodes, pulsed>>
    /\ UNCHANGED <<pass, keyboardVars, userVars>>

\* A menu that leaves the bytes it has no use for (kept for mutation).
MenuPeeks == Available /\ ~ Head(queue).up /\ MenuTakes(Head(queue))

\* The menu polls without a pause.
Menu == Available /\ MenuTakes(Head(queue))

-----------------------------------------------------------------------------
(* sovereign_shell *)

\* One frame to a pulse; pulses that come while it is drawn count as one.
AwaitPulse ==
    /\ place = "wait"
    /\ pulsed
    /\ pulsed' = FALSE
    /\ place' = "poll"
    /\ UNCHANGED <<queue, pass, keyboardVars, shellVars, userVars>>

\* kstarts_with: cmd is compared up to the end of the prefix.
StartsWith(line, prefix) ==
    \A j \in DOMAIN prefix : j - 1 <= CmdMax /\ line[j - 1] = prefix[j]

\* "back" goes to the menu.
Execute ==
    LET line == [cmd EXCEPT ![cmd_idx] = Nul]
    IN  IF StartsWith(line, Back)
        THEN /\ place' = "menu"
             /\ cmd' = line
             /\ UNCHANGED <<cmd_idx, nodes>>
        ELSE /\ place' = "wait"
             /\ nodes' = IF StartsWith(line, Fold) THEN nodes + 1 ELSE nodes
             /\ cmd' = BlankLine
             /\ cmd_idx' = 0

Erase == cmd' = [cmd EXCEPT ![cmd_idx - 1] = Nul] /\ cmd_idx' = cmd_idx - 1
Insert(k) == cmd' = [cmd EXCEPT ![cmd_idx] = k] /\ cmd_idx' = cmd_idx + 1

\* A backspace that leaves the character, and a line one character too long (kept
\* for mutation).
EditKeeps(k) ==
    IF k = "backspace" /\ cmd_idx > 0 THEN cmd_idx' = cmd_idx - 1 /\ UNCHANGED cmd
    ELSE IF k \in Printing /\ cmd_idx < CmdMax THEN Insert(k)
    ELSE UNCHANGED <<cmd, cmd_idx>>
EditTooLong(k) ==
    IF k = "backspace" /\ cmd_idx > 0 THEN Erase
    ELSE IF k \in Printing /\ cmd_idx <= CmdMax THEN Insert(k)
    ELSE UNCHANGED <<cmd, cmd_idx>>

Edit(k) ==
    IF k = "backspace" /\ cmd_idx > 0 THEN Erase
    ELSE IF k \in Printing /\ cmd_idx < CmdMax THEN Insert(k)
    ELSE UNCHANGED <<cmd, cmd_idx>>

\* What a byte does; a key that went up does nothing, nor does one without a
\* character.
Handle(b) ==
    IF b = [key |-> "enter", up |-> FALSE] THEN Execute
    ELSE /\ place' = "wait"
         /\ IF b.up THEN UNCHANGED <<cmd, cmd_idx>> ELSE Edit(b.key)
         /\ UNCHANGED nodes

\* At most one byte to a frame.
Poll ==
    /\ place = "poll"
    /\ IF Available
       THEN Taken /\ Handle(Head(queue))
       ELSE place' = "wait" /\ UNCHANGED <<queue, shellVars>>
    /\ UNCHANGED <<pass, keyboardVars, pulsed, userVars>>

-----------------------------------------------------------------------------
Kernel == AwaitByte \/ UpdateState \/ ReadChar \/ Menu \/ AwaitPulse \/ Poll

User == (\E k \in Keys : Press(k)) \/ (\E k \in Reported : Release(k))

Next == Kernel \/ User \/ Pulse

\* The kernel's one thread keeps running and the timer keeps firing.
Spec == Init /\ [][Next]_vars /\ WF_vars(Kernel) /\ WF_vars(Pulse)

-----------------------------------------------------------------------------
(* Properties *)

\* Bytes may be lost to update_state, but the access key never holds a character
\* that was not typed, and none out of order: its characters are some of those
\* typed, one after the other (read_password).
PasswordWasTyped ==
    \E at \in [1 .. Len(pass) -> 1 .. Len(typed)] :
        \A i \in 1 .. Len(pass) :
            typed[at[i]] = pass[i] /\ \A j \in 1 .. i - 1 : at[j] < at[i]

\* The command line is what was typed since the last Enter: characters below
\* cmd_idx, zeros from there on, so that no command is recognised in what an
\* earlier line or an earlier visit to the shell left behind (sovereign_shell).
LineIsClean ==
    place \in {"wait", "poll"} =>
        \A j \in 0 .. CmdMax : (cmd[j] = Nul) <=> (j >= cmd_idx)

\* Whatever was typed is taken from the controller in the end: no state of the
\* kernel leaves the keyboard unread, whichever way the polls and the bytes fall.
BytesAreTaken == Available ~> ~ Available

=============================================================================
