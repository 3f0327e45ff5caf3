---------------------------- MODULE FileCommands ----------------------------
(***************************************************************************)
(* The shell's commands on files and directories (src/kernel/commands.c)   *)
(* over the node pool of Vfs, and the working directory of kernel.c.       *)
(*                                                                         *)
(* A command works through its arguments one by one and keeps nothing from *)
(* one to the next, so a step is one command on one argument.  The options *)
(* that only change the layout (ls -l, cat -n) and the usage messages are  *)
(* left out.                                                               *)
(***************************************************************************)
EXTENDS Vfs

CONSTANTS Args,               \* arguments, as sequences of fields
          Words,              \* what the words of a write command are joined to
          NewLine,
          MaxInode            \* bound on the nodes ever made

ASSUME CommandsAssumption ==
    /\ NewLine \in Byte /\ Words \subseteq Seq(Byte)
    /\ \A arg \in Args : Last(arg) # "" => Last(arg) \in Names

VARIABLES current_directory,
          done                \* the last command, its arguments and its answer

vars == <<used, node, next_inode, current_directory, done>>

\* One turn of the loop that walks up: from a node to its parent.  The loop
\* ends at a node that is its own parent, or where there is none.
above == [n \in Slots \cup {None} |->
             IF n = None \/ node[n].parent = n THEN n ELSE node[n].parent]

\* The walk of build_absolute_path and cmd_pwd, after k turns.
walk[k \in 0 .. VFS_MAX_NODES] == IF k = 0 THEN current_directory ELSE above[walk[k - 1]]

\* It cannot visit more nodes than there are.
WalkEnds == above[walk[VFS_MAX_NODES]] = walk[VFS_MAX_NODES]

\* The names met on the way, the last one first.
CurrentPath ==
    LET turns == Cardinality({k \in 0 .. VFS_MAX_NODES : above[walk[k]] # walk[k]})
    IN  [i \in 1 .. turns |-> node[walk[turns - i]].name]

\* build_absolute_path before vfs_resolve_path, when arg is relative.
Absolute(arg) == IF arg[1] = "" THEN arg ELSE CurrentPath \o arg

Lookup(arg) == vfs_resolve_path(Pool, Absolute(arg))

\* resolve_parent_and_leaf: the parent.  For a bare name the working
\* directory is returned as it is.
Parent(arg) ==
    IF Len(arg) = 1 THEN current_directory
    ELSE LET p == Lookup(Front(arg))
         IN  IF p # None /\ node[p].type = NODE_DIRECTORY THEN p ELSE None

Shows(cmd, arg, out, shows) ==
    done' = [cmd |-> cmd, arg |-> arg, out |-> out, shows |-> shows]

Says(cmd, arg, out) == Shows(cmd, arg, out, {})

\* A command that changes nothing.
Answers(cmd, arg, out, shows) ==
    Shows(cmd, arg, out, shows) /\ UNCHANGED <<used, node, next_inode, current_directory>>

-----------------------------------------------------------------------------
\* A bug: an existing entry is not looked for.
Make_again(cmd, arg, type, there) ==
    \E parent \in {Parent(arg)}, new \in {FirstFree(Pool)} :
        /\ next_inode <= MaxInode /\ parent \in Slots /\ Last(arg) # "" /\ new # None
        /\ PoolBecomes(vfs_add_child(vfs_create_node(Pool, Last(arg), type), parent, new))
        /\ Says(cmd, arg, "ok") /\ UNCHANGED current_directory

\* The loop body of cmd_mkdir and cmd_touch.  A node that does not fit into
\* its parent stays in use.
Make(cmd, arg, type, there) ==
    \E parent \in {Parent(arg)}, new \in {FirstFree(Pool)} :
        \/ parent = None /\ Answers(cmd, arg, "missing", {})
        \/ parent \in Slots /\ Last(arg) = "" /\ Answers(cmd, arg, "invalid", {})
        \/ /\ parent \in Slots /\ Last(arg) # ""
           /\ vfs_find_node(Pool, parent, Last(arg)) # None
           /\ Answers(cmd, arg, there, {})
        \/ /\ parent \in Slots /\ Last(arg) # ""
           /\ vfs_find_node(Pool, parent, Last(arg)) = None
           /\ \/ new = None /\ Answers(cmd, arg, "full", {})
              \/ /\ new # None /\ next_inode <= MaxInode
                 /\ LET made == vfs_create_node(Pool, Last(arg), type)
                    IN  /\ PoolBecomes(vfs_add_child(made, parent, new))
                        /\ Says(cmd, arg, IF CanAdd(made, parent) THEN "ok" ELSE "full")
                 /\ UNCHANGED current_directory

cmd_mkdir(arg) == Make("mkdir", arg, NODE_DIRECTORY, "exists")

cmd_touch(arg) == Make("touch", arg, NODE_FILE, "ok")

\* The words are followed by a newline if there is room for it.
Payload(words) == SubSeq(Append(words, NewLine), 1, Min({Len(words) + 1, VFS_MAX_FILE_SIZE}))

\* A bug: the length is not cut back to what was written.
Store_grow(p, file, words) == vfs_write(p, file, Payload(words))

\* The end of cmd_write: the content, then the length.
Store(p, file, words) ==
    [vfs_write(p, file, Payload(words)) EXCEPT !.node[file].length = Len(Payload(words))]

cmd_write(arg, words) ==
    \E parent \in {Parent(arg)}, new \in {FirstFree(Pool)} :
        \/ parent = None /\ Answers("write", <<arg, words>>, "missing", {})
        \/ parent \in Slots /\ Last(arg) = "" /\ Answers("write", <<arg, words>>, "invalid", {})
        \/ /\ parent \in Slots /\ Last(arg) # ""
           /\ \E file \in {vfs_find_node(Pool, parent, Last(arg))} :
                 \/ /\ file # None /\ node[file].type # NODE_FILE
                    /\ Answers("write", <<arg, words>>, "directory", {})
                 \/ /\ file # None /\ node[file].type = NODE_FILE
                    /\ PoolBecomes(Store(Pool, file, words))
                    /\ Says("write", <<arg, words>>, "ok") /\ UNCHANGED current_directory
                 \/ file = None /\ new = None /\ Answers("write", <<arg, words>>, "full", {})
                 \/ /\ file = None /\ new # None /\ next_inode <= MaxInode
                    /\ LET made == vfs_create_node(Pool, Last(arg), NODE_FILE)
                       IN  IF CanAdd(made, parent)
                           THEN /\ PoolBecomes(Store(vfs_add_child(made, parent, new), new, words))
                                /\ Says("write", <<arg, words>>, "ok")
                           ELSE PoolBecomes(made) /\ Says("write", <<arg, words>>, "full")
                    /\ UNCHANGED current_directory

\* The working directory, and what it is in, are removed like anything else.
cmd_rm(arg) ==
    \E parent \in {Parent(arg)} :
        \/ parent = None /\ Answers("rm", arg, "missing", {})
        \/ /\ parent \in Slots /\ Last(arg) \in {"", ".", ".."}
           /\ Answers("rm", arg, "refused", {})
        \/ /\ parent \in Slots /\ Last(arg) \notin {"", ".", ".."}
           /\ vfs_find_node(Pool, parent, Last(arg)) = None
           /\ Answers("rm", arg, "missing", {})
        \/ /\ parent \in Slots /\ Last(arg) \notin {"", ".", ".."}
           /\ vfs_find_node(Pool, parent, Last(arg)) # None
           /\ PoolBecomes(vfs_remove_child(Pool, parent, Last(arg)))
           /\ Says("rm", arg, "ok") /\ UNCHANGED current_directory

\* ".." follows the parent pointer without building a path.
CdTarget(arg) ==
    IF arg = <<"..">> THEN IF node[current_directory].parent # None
                           THEN node[current_directory].parent ELSE vfs_root
    ELSE Lookup(arg)

\* "." stays without looking.
cmd_cd(arg) ==
    \/ arg = <<".">> /\ Answers("cd", arg, "ok", {})
    \/ /\ arg # <<".">>
       /\ \E target \in {CdTarget(arg)} :
             \/ target = None /\ Answers("cd", arg, "missing", {})
             \/ /\ target \in Slots /\ node[target].type # NODE_DIRECTORY
                /\ Answers("cd", arg, "file", {})
             \/ /\ target \in Slots /\ node[target].type = NODE_DIRECTORY
                /\ current_directory' = target
                /\ Says("cd", arg, "ok") /\ UNCHANGED <<used, node, next_inode>>

cmd_cat(arg) ==
    \E file \in {Lookup(arg)} :
        \/ file = None /\ Answers("cat", arg, "missing", {})
        \/ /\ file # None /\ node[file].type # NODE_FILE
           /\ Answers("cat", arg, "directory", {})
        \/ /\ file # None /\ node[file].type = NODE_FILE
           /\ Answers("cat", arg, "ok", {vfs_read(Pool, file)})

cmd_stat(arg) ==
    \E n \in {Lookup(arg)} :
        \/ n = None /\ Answers("stat", arg, "missing", {})
        \/ n # None /\ Answers("stat", arg, node[n].type, {<<node[n].name>>})

\* ls_list_dir on every pair of a path below and its node.
ls_list_dir(at, all) ==
    {<<Append(at[1], node[c].name), c>> :
        c \in {x \in node[at[2]].children : all \/ node[x].name \notin {".", ".."}}}

\* ls_recursive: level k of the listing holds what is k names below dir.
ls_recursive(dir, all) ==
    LET level[k \in 0 .. VFS_MAX_NODES] ==
            IF k = 0 THEN {<< <<>>, dir>>}
            ELSE UNION {ls_list_dir(at, all) :
                           at \in {x \in level[k - 1] : node[x[2]].type = NODE_DIRECTORY}}
    IN  UNION {level[k] : k \in 1 .. VFS_MAX_NODES}

\* ls -R, with -a or without.
cmd_ls(arg, all) ==
    \E dir \in {Lookup(arg)} :
        \/ dir = None /\ Answers("ls", arg, "missing", {})
        \/ dir # None /\ Answers("ls", arg, node[dir].type,
                                 {x[1] : x \in ls_recursive(dir, all)})

cmd_pwd == Answers("pwd", <<>>, "ok", {CurrentPath})

-----------------------------------------------------------------------------
Init == /\ used = vfs_init.used /\ node = vfs_init.node /\ next_inode = vfs_init.next_inode
        /\ current_directory = vfs_root
        /\ done = [cmd |-> "boot", arg |-> <<>>, out |-> "ok", shows |-> {}]

\* Where a relative path is looked up and the walk does not end, the program
\* writes past the end of its path buffer; the model stops short of that.
Defined(fields) == (fields # <<>> /\ fields[1] # "") => WalkEnds

Changes(arg) ==
    \/ Defined(Front(arg)) /\ (\/ cmd_mkdir(arg) \/ cmd_touch(arg)
                               \/ \E words \in Words : cmd_write(arg, words))
    \/ (arg # <<"..">> => Defined(arg)) /\ cmd_cd(arg)

Looks(arg) == \/ cmd_cat(arg) \/ cmd_stat(arg)
              \/ \E all \in BOOLEAN : cmd_ls(arg, all)

Removes(arg) == Defined(Front(arg)) /\ cmd_rm(arg)

Next == \E arg \in Args : Changes(arg) \/ Removes(arg)

Spec == Init /\ [][Next]_vars

-----------------------------------------------------------------------------
(* Properties *)

TypeOK == /\ used \subseteq Slots /\ node \in [Slots -> Node] /\ next_inode \in Nat
          /\ current_directory \in Slots
          /\ \A d \in Slots : Cardinality(node[d].children) <= VFS_MAX_CHILDREN

\* Whatever was removed while something still pointed at it: an entry of any
\* directory, removed ones included, is a node in use, and no node is an
\* entry of two directories.  So a node that is handed out again by
\* allocate_node is in no directory.
EntriesInUse ==
    /\ \A d \in Slots : node[d].children \subseteq used
    /\ \A d, e \in Slots : d # e => node[d].children \cap node[e].children = {}

\* No directory has two entries of one name: vfs_find_node and
\* vfs_remove_child, which take the first, take the only one.
UniqueNames == \A d \in Slots : \A a, b \in node[d].children :
                   node[a].name = node[b].name => a = b

\* commands.c:260 and 266, of the loop of cmd_pwd: "Build path by walking up
\* to root", "Stop at root (root is its own parent)".
PwdWalkStops == WalkEnds
=============================================================================
