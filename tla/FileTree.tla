------------------------------ MODULE FileTree ------------------------------
(***************************************************************************)
(* What the file commands of the shell promise: a tree of named            *)
(* directories and files, a directory to work in, and for every command    *)
(* the effect on the tree and the answer that its argument calls for.      *)
(*                                                                         *)
(* The tree is a function from paths (sequences of names from the root) to *)
(* what is there.  Creating may fail for lack of room at any time; the     *)
(* tree is then unchanged.                                                 *)
(***************************************************************************)
EXTENDS Integers, Sequences, SequencesExt

CONSTANTS Args,               \* the arguments of commands, as fields
          Words,              \* what write may be given to write
          Text(_),            \* and the text it stores of it
          InitialTree

VARIABLES tree,               \* path -> [type, data]
          here,               \* the working directory, a path
          done                \* the last command: [cmd, arg, out, shows]

\* Not a path: no name is empty.
Missing == <<"">>

Folder == [type |-> "directory", data |-> <<>>]

File(data) == [type |-> "file", data |-> data]

IsDir(p) == p \in DOMAIN tree /\ tree[p].type = "directory"

\* Where the fields of a path lead from a path of the tree.
Walk(from, fields) ==
    LET step(at, field) ==
            IF at = Missing \/ field \in {"", "."} THEN at
            ELSE IF field = ".." THEN IF at = <<>> THEN at ELSE Front(at)
            ELSE IF IsDir(at) /\ Append(at, field) \in DOMAIN tree THEN Append(at, field)
            ELSE Missing
    IN  FoldLeft(step, from, fields)

Lookup(arg) == Walk(IF arg[1] = "" THEN <<>> ELSE here, arg)

\* The directory in which the last field of arg is, or is to be made.
Place(arg) == LET p == IF Len(arg) = 1 THEN here ELSE Lookup(Front(arg))
              IN  IF IsDir(p) THEN p ELSE Missing

Target(arg) == Append(Place(arg), Last(arg))

\* The step is command cmd on arg, and this is its answer.
Runs(cmd, arg) == done'.cmd = cmd /\ done'.arg = arg

Shows(out, shows) == done'.out = out /\ done'.shows = shows

Says(out) == Shows(out, {})

Put(p, what) == tree' = [q \in DOMAIN tree \cup {p} |-> IF q = p THEN what ELSE tree[q]]

\* mkdir and touch.
Make(cmd, arg, what, whenThere) ==
    /\ Runs(cmd, arg) /\ UNCHANGED here
    /\ \/ Place(arg) = Missing /\ Says("missing") /\ UNCHANGED tree
       \/ /\ Place(arg) # Missing
          /\ \/ Last(arg) = "" /\ Says("invalid") /\ UNCHANGED tree
             \/ /\ Last(arg) # "" /\ Target(arg) \in DOMAIN tree
                /\ Says(whenThere) /\ UNCHANGED tree
             \/ /\ Last(arg) # "" /\ Target(arg) \notin DOMAIN tree
                /\ \/ Says("ok") /\ Put(Target(arg), what)
                   \/ Says("full") /\ UNCHANGED tree

Write(arg, words) ==
    /\ Runs("write", <<arg, words>>) /\ UNCHANGED here
    /\ \/ Place(arg) = Missing /\ Says("missing") /\ UNCHANGED tree
       \/ /\ Place(arg) # Missing
          /\ \/ Last(arg) = "" /\ Says("invalid") /\ UNCHANGED tree
             \/ /\ Last(arg) # "" /\ IsDir(Target(arg))
                /\ Says("directory") /\ UNCHANGED tree
             \/ /\ Last(arg) # "" /\ ~ IsDir(Target(arg))
                /\ \/ Says("ok") /\ Put(Target(arg), File(Text(words)))
                   \/ /\ Target(arg) \notin DOMAIN tree
                      /\ Says("full") /\ UNCHANGED tree

\* Removing a directory removes everything below it.
Rm(arg) ==
    LET p == Target(arg)
    IN  /\ Runs("rm", arg) /\ UNCHANGED here
        /\ \/ Place(arg) = Missing /\ Says("missing") /\ UNCHANGED tree
           \/ /\ Place(arg) # Missing /\ Last(arg) \in {"", ".", ".."}
              /\ Says("refused") /\ UNCHANGED tree
           \/ /\ Place(arg) # Missing /\ Last(arg) \notin {"", ".", ".."}
              /\ IF p \in DOMAIN tree
                 THEN /\ Says("ok")
                      /\ tree' = [q \in {x \in DOMAIN tree : ~ IsPrefix(p, x)} |-> tree[q]]
                 ELSE Says("missing") /\ UNCHANGED tree

Cd(arg) ==
    LET p == Lookup(arg)
    IN  /\ Runs("cd", arg) /\ UNCHANGED tree
        /\ \/ IsDir(p) /\ here' = p /\ Says("ok")
           \/ p = Missing /\ UNCHANGED here /\ Says("missing")
           \/ p # Missing /\ ~ IsDir(p) /\ UNCHANGED here /\ Says("file")

Cat(arg) ==
    LET p == Lookup(arg)
    IN  /\ Runs("cat", arg) /\ UNCHANGED <<tree, here>>
        /\ \/ p = Missing /\ Says("missing")
           \/ IsDir(p) /\ Says("directory")
           \/ p # Missing /\ ~ IsDir(p) /\ Shows("ok", {tree[p].data})

Stat(arg) ==
    LET p == Lookup(arg)
    IN  /\ Runs("stat", arg) /\ UNCHANGED <<tree, here>>
        /\ \/ p = Missing /\ Says("missing")
           \/ p # Missing /\ Shows(tree[p].type,
                                   {IF p = <<>> THEN <<"/">> ELSE <<Last(p)>>})

\* Lists everything below, or what no leading dot hides.
Ls(arg, all) ==
    LET p == Lookup(arg)
        shown(x) == all \/ \A i \in 1 .. Len(x) : x[i] \notin {".", ".."}
        below == {SubSeq(x, Len(p) + 1, Len(x)) : x \in {q \in DOMAIN tree : IsStrictPrefix(p, q)}}
    IN  /\ Runs("ls", arg) /\ UNCHANGED <<tree, here>>
        /\ \/ p = Missing /\ Says("missing")
           \/ p # Missing /\ Shows(tree[p].type, {x \in below : shown(x)})

Pwd == Runs("pwd", <<>>) /\ UNCHANGED <<tree, here>> /\ Shows("ok", {here})

Init == /\ tree = InitialTree /\ here = <<>>
        /\ done = [cmd |-> "boot", arg |-> <<>>, out |-> "ok", shows |-> {}]

Next == \/ Pwd
        \/ \E arg \in Args :
              \/ Make("mkdir", arg, Folder, "exists") \/ Make("touch", arg, File(<<>>), "ok")
              \/ Rm(arg) \/ Cd(arg) \/ Cat(arg) \/ Stat(arg)
              \/ \E all \in BOOLEAN : Ls(arg, all)
              \/ \E words \in Words : Write(arg, words)

Spec == Init /\ [][Next]_<<tree, here, done>>
=============================================================================
