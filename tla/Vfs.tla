-------------------------------- MODULE Vfs --------------------------------
(***************************************************************************)
(* The in-memory file system of src/fs/vfs.c: a pool of nodes that point   *)
(* at each other.  A freed node keeps its contents, and whoever points at  *)
(* it still does.                                                          *)
(*                                                                         *)
(* The children of a directory are a set: their order matters only to the  *)
(* listings.  A path is the sequence of its fields between slashes, so     *)
(* "/a/b" is <<"", "a", "b">> and "a/" is <<"a", "">>; the length limits   *)
(* of names and paths are left out.                                        *)
(***************************************************************************)
EXTENDS Integers, Sequences, FiniteSets, FiniteSetsExt, SequencesExt

CONSTANTS VFS_MAX_NODES, VFS_MAX_CHILDREN, VFS_MAX_FILE_SIZE,
          Names,              \* names a file or a directory may get
          Byte,               \* the content of files, Zero included
          Zero,
          Motd                \* the content of /etc/motd.txt

ASSUME VfsAssumption ==
    /\ {VFS_MAX_NODES, VFS_MAX_CHILDREN, VFS_MAX_FILE_SIZE} \subseteq Nat \ {0}
    /\ VFS_MAX_NODES >= 6 /\ VFS_MAX_CHILDREN >= 4
    /\ {"/", "bin", "etc", "home", "tmp", "motd.txt"} \subseteq Names
    /\ Zero \in Byte /\ Motd \in Seq(Byte) /\ Len(Motd) <= VFS_MAX_FILE_SIZE

VARIABLES used,               \* node_pool_bitmap
          node,               \* node_pool
          next_inode

Slots == 0 .. VFS_MAX_NODES - 1

None == -1

vfs_root == 0

NODE_FILE == "file"

NODE_DIRECTORY == "directory"

Node == [name : Names, type : {NODE_FILE, NODE_DIRECTORY}, inode : Nat,
         length : 0 .. VFS_MAX_FILE_SIZE,
         content : [1 .. VFS_MAX_FILE_SIZE -> Byte],
         parent : Slots \cup {None}, children : SUBSET Slots]

\* The state of the pool, threaded through the calls of one command.
Pool == [used |-> used, node |-> node, next_inode |-> next_inode]

PoolBecomes(p) == used' = p.used /\ node' = p.node /\ next_inode' = p.next_inode

Blank == [i \in 1 .. VFS_MAX_FILE_SIZE |-> Zero]

Fresh(name, type, inode) ==
    [name |-> name, type |-> type, inode |-> inode, length |-> 0, content |-> Blank,
     parent |-> None, children |-> {}]

FirstFree(p) == IF p.used = Slots THEN None ELSE Min(Slots \ p.used)

\* Takes the first free node of the pool; only when FirstFree is not None.
vfs_create_node(p, name, type) ==
    LET s == FirstFree(p)
    IN  [used |-> p.used \cup {s},
         node |-> [p.node EXCEPT ![s] = Fresh(name, type, p.next_inode)],
         next_inode |-> p.next_inode + 1]

\* A bug: one child more than there is room for.
CanAdd_full(p, parent) == /\ p.node[parent].type = NODE_DIRECTORY
                          /\ Cardinality(p.node[parent].children) <= VFS_MAX_CHILDREN

CanAdd(p, parent) == /\ p.node[parent].type = NODE_DIRECTORY
                     /\ Cardinality(p.node[parent].children) < VFS_MAX_CHILDREN

\* Changes nothing when parent is not a directory or is full.
vfs_add_child(p, parent, child) ==
    IF CanAdd(p, parent)
    THEN [p EXCEPT !.node[parent].children = @ \cup {child}, !.node[child].parent = parent]
    ELSE p

Matches(p, parent, name) ==
    {c \in p.node[parent].children : p.node[c].name = name}

vfs_find_node(p, parent, name) ==
    IF p.node[parent].type = NODE_DIRECTORY /\ Matches(p, parent, name) # {}
    THEN CHOOSE c \in Matches(p, parent, name) : TRUE
    ELSE None

\* A bug: the entry is not taken out of the directory.
vfs_remove_child_keep(p, parent, name) ==
    [p EXCEPT !.used = @ \ {vfs_find_node(p, parent, name)}]

\* A bug: the node is not freed.
vfs_remove_child_unfreed(p, parent, name) ==
    [p EXCEPT !.node[parent].children = @ \ {vfs_find_node(p, parent, name)}]

\* Frees the node and takes it out of parent.  The children of a directory
\* stay in use.
vfs_remove_child(p, parent, name) ==
    LET c == vfs_find_node(p, parent, name)
    IN  IF c = None THEN p
        ELSE [p EXCEPT !.used = @ \ {c}, !.node[parent].children = @ \ {c}]

\* ramfs_write at offset 0.
vfs_write(p, n, data) ==
    LET size == Min({Len(data), VFS_MAX_FILE_SIZE})
    IN  [p EXCEPT !.node[n].content = [i \in DOMAIN @ |-> IF i <= size THEN data[i] ELSE @[i]],
                  !.node[n].length = Max({@, size})]

vfs_read(p, n) == SubSeq(p.node[n].content, 1, p.node[n].length)

Tokens(fields) == SelectSeq(fields, LAMBDA field : field # "")

\* vfs_resolve_path for an absolute path.
vfs_resolve_path(p, fields) ==
    LET step(at, token) ==
            IF at = None \/ token = "." THEN at
            ELSE IF token = ".." THEN IF p.node[at].parent # None THEN p.node[at].parent ELSE at
            ELSE vfs_find_node(p, at, token)
    IN  FoldLeft(step, vfs_root, Tokens(fields))

\* The pool vfs_init leaves: the root, which is its own parent, four
\* directories in it and a file in the second of them.
vfs_init ==
    LET names == <<"/", "bin", "etc", "home", "tmp", "motd.txt">>
        made(s) == [Fresh(names[s + 1], IF s = 5 THEN NODE_FILE ELSE NODE_DIRECTORY, s + 1)
                    EXCEPT !.parent = IF s = 5 THEN 2 ELSE vfs_root,
                           !.children = IF s = vfs_root THEN 1 .. 4
                                        ELSE IF s = 2 THEN {5} ELSE {}]
        pool == [used |-> 0 .. 5, next_inode |-> 7,
                 node |-> [s \in Slots |-> IF s \in 0 .. 5 THEN made(s)
                                           ELSE Fresh("/", NODE_FILE, 0)]]
    IN  vfs_write(pool, 5, Motd)
============================================================================
