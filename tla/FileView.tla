------------------------------ MODULE FileView ------------------------------
(***************************************************************************)
(* The tree of files that the pool of nodes stands for, and the statement  *)
(* that the commands treat it as one for as long as the user has removed   *)
(* neither the directory they work in nor one above it.  Until then tree   *)
(* and here are functions of the state of FileCommands, kept in variables  *)
(* to spare evaluating them at every mention; from then on they stay.      *)
(***************************************************************************)
EXTENDS FileCommands

VARIABLES tree, here, answer, careful

\* The paths from the root, each with its node, and what is there.
At == {<< <<>>, vfs_root>>} \cup ls_recursive(vfs_root, TRUE)

TreeOf(at, nodes) ==
    [p \in {x[1] : x \in at} |->
        LET n == nodes[(CHOOSE x \in at : x[1] = p)[2]]
        IN  [type |-> n.type, data |-> SubSeq(n.content, 1, n.length)]]

ViewInit == /\ Init /\ tree = TreeOf(At, node) /\ here = CurrentPath
            /\ answer = done /\ careful = TRUE

\* The node rm would remove is the working directory or above it.
RemovesHere(arg) ==
    /\ Parent(arg) \in Slots
    /\ vfs_find_node(Pool, Parent(arg), Last(arg)) \in {walk[k] : k \in 0 .. VFS_MAX_NODES}

Command ==
    \/ careful /\ cmd_pwd /\ UNCHANGED careful
    \/ \E arg \in Args :
        \/ Changes(arg) /\ UNCHANGED careful
        \/ careful /\ Looks(arg) /\ UNCHANGED careful
        \/ Removes(arg) /\ careful' = (careful /\ ~ RemovesHere(arg))

ViewNext ==
    /\ Command
    /\ IF ~ careful' THEN UNCHANGED <<tree, here, answer>>
       ELSE /\ answer' = done'
            /\ IF node' = node THEN tree' = tree
                               ELSE \E at \in {At'} : tree' = TreeOf(at, node')
            /\ IF node' = node /\ current_directory' = current_directory
               THEN here' = here ELSE here' = CurrentPath'

ViewSpec == ViewInit /\ [][ViewNext]_<<vars, tree, here, answer, careful>>

Files == INSTANCE FileTree
             WITH done <- answer,
                  Text <- Payload,
                  InitialTree <- [p \in {<<>>, <<"bin">>, <<"etc">>, <<"home">>, <<"tmp">>,
                                         <<"etc", "motd.txt">>} |->
                                     IF Len(p) = 2 THEN [type |-> NODE_FILE, data |-> Motd]
                                     ELSE [type |-> NODE_DIRECTORY, data |-> <<>>]]

\* While the user has removed no directory they are in, the pool of nodes, with
\* its reuse, stale contents and losses, is a tree of files: every command
\* has the effect and gives the answer that its argument calls for.
PoolIsFileTree == Files!Spec

\* The nodes in use that no path leads to.
Lost == Cardinality(used) - Cardinality(DOMAIN tree)

\* Again while nobody removed where they are, nodes are lost in two ways only:
\* those below a removed directory (the note on vfs_remove_child,
\* vfs.c:269-272), and the one node made for a parent that turns out to be
\* full.  The removed node itself is always freed.
LeaksOnlyBelowRemovedOrWhenFull ==
    [][careful' => \/ Lost' = Lost
                   \/ done'.out = "full" /\ Lost' = Lost + 1
                   \/ done'.cmd = "rm" /\ Cardinality(used') = Cardinality(used) - 1]_<<vars, tree>>
=============================================================================
