------------------------------- MODULE Shell -------------------------------
(***************************************************************************)
(* From a line to a command: string_tokenize of src/kernel/string.c, the   *)
(* command table of src/kernel/shell.c, and what the words of a line are.  *)
(* A C string is a sequence of characters that ends in Nul; a pointer into *)
(* it is an index, and 0 is the null pointer.                              *)
(***************************************************************************)
EXTENDS Naturals, Sequences, FiniteSetsExt

CONSTANTS SHELL_MAX_ARGS,
          command_table,      \* the names of the commands, in order
          Char,               \* the characters keys give
          Delim,              \* those that separate words
          Nul

ASSUME ShellAssumption == /\ SHELL_MAX_ARGS \in Nat \ {0} /\ Delim \subseteq Char
                          /\ Nul \notin Char /\ command_table \in Seq(Seq(Char))

\* The first position from k on whose character is in, or not in, chars.
First(mem, k, chars) == Min({j \in k .. Len(mem) : mem[j] \in chars})

\* A bug: the scan of a line whose words did not all fit goes on in the next.
string_tokenize_stale(t, str) ==
    LET s == IF t.last \in 1 .. Len(t.mem) THEN t.last ELSE str
        token == First(t.mem, s, {Nul} \cup (Char \ Delim))
        end == First(t.mem, token, {Nul} \cup Delim)
        more == \E j \in end + 1 .. Len(t.mem) : t.mem[j] \in Char \ Delim
    IN  IF s = 0 \/ t.mem[s] = Nul THEN [t EXCEPT !.token = 0]
        ELSE IF t.mem[token] = Nul THEN [t EXCEPT !.token = 0, !.last = 0]
        ELSE IF ~more THEN [t EXCEPT !.token = token, !.last = 0, !.mem[end] = Nul]
        ELSE [t EXCEPT !.token = token, !.last = end + 1, !.mem[end] = Nul]

\* One call: t holds the string, the position kept for the next call and the
\* token returned.  A call at the end of the string leaves the position.
string_tokenize(t, str) ==
    LET s == IF str = 0 THEN t.last ELSE str
        token == First(t.mem, s, {Nul} \cup (Char \ Delim))
        end == First(t.mem, token, {Nul} \cup Delim)
    IN  IF s = 0 \/ t.mem[s] = Nul THEN [t EXCEPT !.token = 0]
        ELSE IF t.mem[token] = Nul THEN [t EXCEPT !.token = 0, !.last = 0]
        ELSE IF t.mem[end] = Nul THEN [t EXCEPT !.token = token, !.last = 0]
        ELSE [t EXCEPT !.token = token, !.last = end + 1, !.mem[end] = Nul]

\* The C string that starts at p.
String(mem, p) == SubSeq(mem, p, First(mem, p, {Nul}) - 1)

\* The first command of that name; 0 is "Command not found".
Command(name) == LET found == {c \in DOMAIN command_table : command_table[c] = name}
                 IN  IF found = {} THEN 0 ELSE Min(found)

Nothing == [handler |-> 0, argv |-> <<>>]

(* The reference: what the words of a line are. *)

Starts(input) == {a \in DOMAIN input : /\ input[a] \notin Delim
                                       /\ a = 1 \/ input[a - 1] \in Delim}

\* The n-th word: from the n-th start up to the next separator.
Word(input, n) ==
    LET a == CHOOSE x \in Starts(input) : Cardinality(Starts(input) \cap 1 .. x) = n
    IN  SubSeq(input, a, Min({b \in a .. Len(input) : b = Len(input) \/ input[b + 1] \in Delim}))

Words(input) == [n \in 1 .. Cardinality(Starts(input)) |-> Word(input, n)]

\* What a line calls for: as many of its words as there is room for.
CallFor(input) ==
    LET words == Words(input)
    IN  IF words = <<>> THEN Nothing
        ELSE [handler |-> Command(words[1]),
              argv |-> SubSeq(words, 1, Min({Len(words), SHELL_MAX_ARGS}))]
=============================================================================
