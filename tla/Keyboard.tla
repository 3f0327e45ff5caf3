------------------------------ MODULE Keyboard ------------------------------
(***************************************************************************)
(* Line input: the keyboard interrupt handler of src/drivers/keyboard.c,   *)
(* keyboard_get_line and the loop of the shell around it.  The handler     *)
(* runs between any two steps of the shell that interrupts are enabled     *)
(* for; the shell is split at its accesses to what they share.  The timer  *)
(* interrupt is here because it ends a hlt.                                *)
(*                                                                         *)
(* Shift and caps lock only choose which character a key gives, so a key   *)
(* is modelled by its character; "other" is any scan code without one, a   *)
(* release or a modifier.                                                  *)
(***************************************************************************)
EXTENDS Shell, Integers, SequencesExt

CONSTANTS INPUT_BUFFER_SIZE,
          max_len,            \* the size of the buffer of the shell
          MaxLate             \* bound: the keys from an Enter to the next prompt

ASSUME KeyboardAssumption == /\ {INPUT_BUFFER_SIZE, max_len} \subseteq Nat \ {0}
                             /\ MaxLate \in Nat

VARIABLES input_buffer,       \* up to input_buffer_pos; the rest is written before it is read
          line_ready,
          pc, i, buffer,      \* of keyboard_get_line: its place, index and output
          t,                  \* the tokenizer and the arguments found so far
          ran,                \* the command called and its arguments
          line,               \* history: the text at the Enter that ended the wait
          late,               \* history: what the keys since that Enter did to it
          pressed             \* how many of MaxLate there were

input_buffer_pos == Len(input_buffer)

input == <<input_buffer, line_ready>>

history == <<line, late>>

vars == <<input, pc, i, buffer, t, ran, history, pressed>>

Key == Char \cup {"backspace", "enter", "other"}

\* No Enter yet.
NoLine == <<Nul>>

-----------------------------------------------------------------------------
(* Interrupts *)

Backspace ==
    /\ input_buffer' = IF input_buffer = <<>> THEN <<>> ELSE Front(input_buffer)
    /\ UNCHANGED line_ready

\* The text stays where it is; a Nul closes it in the cell after the last.
Enter == line_ready' = TRUE /\ UNCHANGED input_buffer

\* A bug: no place is kept for the closing Nul.
Character_full(c) ==
    /\ input_buffer' = IF input_buffer_pos < INPUT_BUFFER_SIZE
                       THEN Append(input_buffer, c) ELSE input_buffer
    /\ UNCHANGED line_ready

Character(c) ==
    /\ input_buffer' = IF input_buffer_pos < INPUT_BUFFER_SIZE - 1
                       THEN Append(input_buffer, c) ELSE input_buffer
    /\ UNCHANGED line_ready

\* The history of a key that comes while keyboard_get_line runs.
Remember(key) ==
    IF pc \notin {"test", "tested", "hlt", "copy"} THEN UNCHANGED history
    ELSE IF line_ready
    THEN /\ late' = IF key = "backspace" \/ late = "erased" THEN "erased"
                    ELSE IF input_buffer' # input_buffer THEN "added" ELSE late
         /\ line' = IF late' = "erased" THEN NoLine ELSE line
    ELSE line' = (IF key = "enter" THEN input_buffer ELSE line) /\ UNCHANGED late

\* An interrupt ends a hlt.
Wake == pc' = IF pc = "hlt" THEN "test" ELSE pc

keyboard_handler(key) ==
    /\ line_ready => pressed < MaxLate
    /\ pressed' = IF line_ready THEN pressed + 1 ELSE pressed
    /\ \/ key \in Char /\ Character(key)
       \/ key = "backspace" /\ Backspace
       \/ key = "enter" /\ Enter
       \/ key = "other" /\ UNCHANGED input
    /\ Remember(key) /\ Wake
    /\ UNCHANGED <<i, buffer, t, ran>>

\* A bug: the timer interrupt does not end a hlt.
timer_handler_masked == UNCHANGED vars

timer_handler == Wake /\ UNCHANGED <<input, i, buffer, t, ran, history, pressed>>

-----------------------------------------------------------------------------
(* The shell *)

\* A bug: the flag of the last line is not taken back.
Reset_stale ==
    /\ pc = "reset" /\ pc' = "test" /\ input_buffer' = <<>>
    /\ buffer' = <<>> /\ ran' = Nothing /\ pressed' = 0
    /\ UNCHANGED <<line_ready, i, t, history>>

\* The prompt, and what is done between cli and sti: what was typed before,
\* an Enter included, is gone.
Reset ==
    /\ pc = "reset" /\ pc' = "test" /\ input_buffer' = <<>> /\ line_ready' = FALSE
    /\ buffer' = <<>> /\ ran' = Nothing /\ pressed' = 0
    /\ UNCHANGED <<i, t, history>>

\* The test of while (!line_ready).
Test ==
    /\ pc = "test" /\ pc' = IF line_ready THEN "copy" ELSE "tested"
    /\ UNCHANGED <<input, i, buffer, t, ran, history, pressed>>

\* The hlt: an Enter that came after the test does not keep the shell from it.
Halt ==
    /\ pc = "tested" /\ pc' = "hlt"
    /\ UNCHANGED <<input, i, buffer, t, ran, history, pressed>>

\* One turn of the copying loop, which reads input_buffer_pos each time.
Copy ==
    /\ pc = "copy"
    /\ IF i < input_buffer_pos /\ i < max_len - 1
       THEN buffer' = Append(buffer, input_buffer[i + 1]) /\ i' = i + 1 /\ pc' = "copy"
       ELSE pc' = "execute" /\ UNCHANGED <<i, buffer>>
    /\ UNCHANGED <<input, t, ran, history, pressed>>

\* shell_execute up to the first call of string_tokenize.
shell_execute ==
    /\ pc = "execute"
    /\ IF \A j \in DOMAIN buffer : buffer[j] \in Delim THEN pc' = "reset" /\ UNCHANGED t
       ELSE /\ pc' = "parse"
            /\ t' = string_tokenize([t EXCEPT !.mem = Append(buffer, Nul), !.argv = <<>>], 1)
    /\ i' = 0 /\ line' = NoLine /\ late' = "kept"
    /\ UNCHANGED <<input, buffer, ran, pressed>>

\* One turn of the loop of parse_command.
parse_command ==
    /\ pc = "parse" /\ t.token # 0 /\ Len(t.argv) < SHELL_MAX_ARGS
    /\ t' = string_tokenize([t EXCEPT !.argv = Append(@, t.token)], 0)
    /\ UNCHANGED <<input, pc, i, buffer, ran, history, pressed>>

\* The rest of shell_execute: the command is looked up and called.
Call ==
    /\ pc = "parse" /\ (t.token = 0 \/ Len(t.argv) >= SHELL_MAX_ARGS)
    /\ LET argv == [n \in DOMAIN t.argv |-> String(t.mem, t.argv[n])]
       IN  ran' = IF argv = <<>> THEN Nothing
                  ELSE [handler |-> Command(argv[1]), argv |-> argv]
    /\ pc' = "reset" /\ t' = [mem |-> <<>>, last |-> t.last, token |-> 0, argv |-> <<>>]
    /\ UNCHANGED <<input, i, buffer, history, pressed>>

shell_task == Reset \/ Test \/ Halt \/ Copy \/ shell_execute \/ parse_command \/ Call

-----------------------------------------------------------------------------
Init ==
    /\ input_buffer = <<>> /\ line_ready = FALSE
    /\ pc = "reset" /\ i = 0 /\ buffer = <<>> /\ ran = Nothing
    /\ t = [mem |-> <<>>, last |-> 0, token |-> 0, argv |-> <<>>]
    /\ line = NoLine /\ late = "kept" /\ pressed = 0

Next == \/ shell_task \/ timer_handler
        \/ \E key \in Key : keyboard_handler(key)

\* The scheduler runs the shell and the timer ticks.  No key need be pressed.
Spec == Init /\ [][Next]_vars /\ WF_vars(shell_task) /\ WF_vars(timer_handler)

(* Properties *)

TypeOK ==
    /\ input_buffer \in Seq(Char) /\ input_buffer_pos < INPUT_BUFFER_SIZE
    /\ line_ready \in BOOLEAN
    /\ pc \in {"reset", "test", "tested", "hlt", "copy", "execute", "parse"}
    /\ i \in 0 .. max_len - 1 /\ Len(buffer) < max_len /\ Len(t.argv) <= SHELL_MAX_ARGS
    /\ late \in {"kept", "added", "erased"} /\ pressed \in 0 .. MaxLate

\* What was typed when Enter was pressed, cut to the buffer of the shell.
Line == SubSeq(line, 1, Min({Len(line), max_len - 1}))

\* keyboard_get_line returns the line as it was typed when no key follows the
\* Enter before the copy ends, and keys that follow it can only add to its
\* end as long as none of them is a backspace.  An Enter that came before the
\* call never ends its wait.
LineKept ==
    pc = "execute" => /\ late = "kept" => buffer = Line
                      /\ late = "added" => IsPrefix(Line, buffer)

\* shell_execute calls the command that the first word of the line it was
\* given names, with the words of that line and no others: string_tokenize
\* goes on where the call before stopped, and leaves its place behind in the
\* middle of a line that has more words than fit.
CommandGetsWords == pc = "reset" => ran = CallFor(buffer)

\* An Enter while the shell waits ends the wait, an Enter between the test of
\* line_ready and the hlt included: the timer ends that hlt.
EnterEndsWait == (pc \in {"test", "tested", "hlt"} /\ line_ready) ~> pc = "execute"
=============================================================================
