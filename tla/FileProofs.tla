----------------------------- MODULE FileProofs -----------------------------
(***************************************************************************)
(* The invariants of the pool of nodes, for every size of the pool, of     *)
(* directories and of files, and for every sequence of commands, the       *)
(* removal of the working directory included.  There is one lemma for each *)
(* function of vfs.c that changes the pool, and one for each command.      *)
(***************************************************************************)
EXTENDS FileCommands, FiniteSetTheorems, WellFoundedInduction, TLAPS

(* The default prover and its time limit; the leaves that are pure logic   *)
(* name Zenon instead.                                                     *)
USE SMTT(30)

PoolType == [used : SUBSET Slots, node : [Slots -> Node], next_inode : Nat]

(* What a call finds and leaves: the three facts about entries have to be  *)
(* carried together.  A node that is handed out again changes its name,    *)
(* which disturbs no directory because it is in none.                      *)
Good(p) ==
    /\ p \in PoolType
    /\ \A d \in Slots : p.node[d].children \subseteq p.used
    /\ \A d, e \in Slots : d # e => p.node[d].children \cap p.node[e].children = {}
    /\ \A d \in Slots : \A a, b \in p.node[d].children :
          p.node[a].name = p.node[b].name => a = b
    /\ \A d \in Slots : Cardinality(p.node[d].children) <= VFS_MAX_CHILDREN

(* No directory has an entry for c. *)
Loose(p, c) == \A d \in Slots : c \notin p.node[d].children

IInv == Good(Pool) /\ current_directory \in Slots
-----------------------------------------------------------------------------
LEMMA SlotsAreNats == Slots \subseteq Nat /\ vfs_root \in Slots /\ None \notin Slots
BY VfsAssumption DEF Slots, vfs_root, None

(* A set of slots has a least one. *)
LEMMA LeastSlot ==
    ASSUME NEW S \in SUBSET Slots, S # {}
    PROVE  Min(S) \in S /\ \A y \in S : Min(S) <= y
<1>0. S \in SUBSET Nat
  BY SlotsAreNats
<1>1. PICK x \in S : \A y \in S : ~(<<y, x>> \in OpToRel(<, Nat))
  BY <1>0, NatLessThanWellFounded, WFMin, Zenon
<1>2. \A y \in S : x <= y
  <2> TAKE y \in S
  <2>1. ~(y < x)
    BY <1>0, <1>1, Zenon DEF OpToRel
  <2> QED BY <1>0, <2>1
<1> QED BY <1>2 DEF Min

(* allocate_node hands out a node that is not in use. *)
LEMMA FreeSlot ==
    ASSUME NEW p \in PoolType, FirstFree(p) # None
    PROVE  FirstFree(p) \in Slots /\ FirstFree(p) \notin p.used
<1>1. p.used # Slots /\ FirstFree(p) = Min(Slots \ p.used)
  BY DEF FirstFree
<1>2. p.used \in SUBSET Slots
  BY DEF PoolType
<1>3. Slots \ p.used # {}
  BY <1>1, <1>2
<1> QED BY <1>1, <1>3, LeastSlot

LEMMA SlotSetsFinite ==
    ASSUME NEW S \in SUBSET Slots
    PROVE  IsFiniteSet(S) /\ Cardinality(S) \in Nat
<1>1. IsFiniteSet(Slots)
  BY VfsAssumption, FS_Interval DEF Slots
<1> QED BY <1>1, FS_Subset, FS_CardinalityType

LEMMA FreshNode ==
    ASSUME NEW name \in Names, NEW type \in {NODE_FILE, NODE_DIRECTORY}, NEW inode \in Nat
    PROVE  Fresh(name, type, inode) \in Node
<1>1. Blank \in [1 .. VFS_MAX_FILE_SIZE -> Byte]
  BY VfsAssumption DEF Blank
<1> QED BY <1>1, VfsAssumption DEF Fresh, Node

LEMMA NodeUpdates ==
    ASSUME NEW r \in Node, NEW X \in SUBSET Slots, NEW d \in Slots
    PROVE  [r EXCEPT !.children = X] \in Node /\ [r EXCEPT !.parent = d] \in Node
BY DEF Node

LEMMA PoolUpdates ==
    ASSUME NEW p \in PoolType, NEW f \in [Slots -> Node], NEW u \in SUBSET Slots
    PROVE  [p EXCEPT !.node = f] \in PoolType /\ [p EXCEPT !.used = u, !.node = f] \in PoolType
BY Zenon DEF PoolType

(* vfs_create_node: the new node is in use and in no directory. *)
LEMMA CreateGood ==
    ASSUME NEW p, Good(p), FirstFree(p) # None,
           NEW name \in Names, NEW type \in {NODE_FILE, NODE_DIRECTORY}
    PROVE  LET q == vfs_create_node(p, name, type)
               s == FirstFree(p)
           IN  /\ Good(q)
               /\ q.used = p.used \cup {s} /\ Loose(q, s)
               /\ q.node[s] = Fresh(name, type, p.next_inode)
               /\ \A d \in Slots \ {s} : q.node[d] = p.node[d]
<1> DEFINE q == vfs_create_node(p, name, type)
           s == FirstFree(p)
           f == Fresh(name, type, p.next_inode)
<1>1. p \in PoolType
  BY DEF Good
<1>2. s \in Slots /\ s \notin p.used
  BY <1>1, FreeSlot
<1>3. f \in Node /\ f.children = {}
  BY <1>1, FreshNode DEF Fresh, PoolType
<1>4. /\ q = [used |-> p.used \cup {s}, node |-> [p.node EXCEPT ![s] = f],
              next_inode |-> p.next_inode + 1]
  BY Zenon DEF vfs_create_node
<1>5. q \in PoolType
  BY <1>1, <1>2, <1>3, <1>4 DEF PoolType
<1>6. q.used = p.used \cup {s} /\ q.node[s] = f /\ \A d \in Slots \ {s} : q.node[d] = p.node[d]
  BY <1>1, <1>2, <1>4 DEF PoolType
<1>7. \A d \in Slots : s \notin p.node[d].children
  BY <1>2 DEF Good
<1>8. Loose(q, s)
  BY <1>3, <1>6, <1>7 DEF Loose
<1>9. \A d \in Slots : q.node[d].children = p.node[d].children \/ q.node[d].children = {}
  BY <1>3, <1>6
<1>10. \A d \in Slots : q.node[d].children \subseteq p.node[d].children
  BY <1>9
<1>11. \A d \in Slots : \A a \in q.node[d].children : a \in Slots /\ q.node[a] = p.node[a]
  BY <1>1, <1>6, <1>7, <1>10 DEF Good, PoolType
<1>12. \A d \in Slots : Cardinality(q.node[d].children) <= VFS_MAX_CHILDREN
  <2>1. Cardinality({}) <= VFS_MAX_CHILDREN
    BY FS_EmptySet, VfsAssumption
  <2> QED BY <1>9, <2>1, Zenon DEF Good
<1>13. \A d \in Slots : q.node[d].children \subseteq q.used
  BY <1>6, <1>10 DEF Good
<1>14. \A d, e \in Slots : d # e => q.node[d].children \cap q.node[e].children = {}
  BY <1>10 DEF Good
<1>15. \A d \in Slots : \A a, b \in q.node[d].children : q.node[a].name = q.node[b].name => a = b
  BY <1>10, <1>11 DEF Good
<1>16. Good(q)
  BY <1>5, <1>12, <1>13, <1>14, <1>15 DEF Good
<1> QED BY <1>6, <1>8, <1>16

(* vfs_add_child of a node that is in no directory, under a name that      *)
(* parent does not have.                                                   *)
LEMMA AddGood ==
    ASSUME NEW p, Good(p), NEW parent \in Slots, NEW c \in p.used, Loose(p, c),
           \A a \in p.node[parent].children : p.node[a].name # p.node[c].name
    PROVE  Good(vfs_add_child(p, parent, c))
<1> DEFINE q == vfs_add_child(p, parent, c)
<1>0. p \in PoolType /\ c \in Slots
  BY DEF Good, PoolType
<1>1. CASE ~ CanAdd(p, parent)
  BY <1>1 DEF vfs_add_child
<1>2. CASE CanAdd(p, parent)
  <2>1. q = [p EXCEPT !.node[parent].children = @ \cup {c}, !.node[c].parent = parent]
    BY <1>2 DEF vfs_add_child
  <2>2. q \in PoolType
    <3> DEFINE r == [p.node[parent] EXCEPT !.children = p.node[parent].children \cup {c}]
               f == [p.node EXCEPT ![parent] = r]
               g == [f EXCEPT ![c] = [f[c] EXCEPT !.parent = parent]]
    <3>1. p.node \in [Slots -> Node] /\ p.node[parent] \in Node
      BY <1>0 DEF PoolType
    <3>2. p.node[parent].children \cup {c} \in SUBSET Slots
      BY <1>0, <3>1 DEF Node
    <3>3. r \in Node
      BY <3>1, <3>2, NodeUpdates, Zenon
    <3>4. f \in [Slots -> Node]
      BY <3>1, <3>3
    <3> HIDE DEF f
    <3>5. [f[c] EXCEPT !.parent = parent] \in Node
      BY <1>0, <3>4, NodeUpdates, Zenon
    <3>6. g \in [Slots -> Node]
      BY <3>4, <3>5, Zenon
    <3>7. q = [p EXCEPT !.node = g]
      BY <1>0, <2>1, Zenon DEF f, PoolType
    <3> QED BY <1>0, <3>6, <3>7, PoolUpdates, Zenon
  <2>3. /\ q.used = p.used
        /\ q.node[parent].children = p.node[parent].children \cup {c}
        /\ \A d \in Slots \ {parent} : q.node[d].children = p.node[d].children
        /\ \A d \in Slots : q.node[d].name = p.node[d].name
    BY <1>0, <2>1 DEF PoolType, Node
  <2>4. \A d \in Slots : p.node[d].children \subseteq Slots
    BY <1>0 DEF PoolType, Node
  <2>5. \A d \in Slots : q.node[d].children \subseteq q.used
    BY <2>3 DEF Good
  <2>6. \A d, e \in Slots : d # e => q.node[d].children \cap q.node[e].children = {}
    BY <2>3 DEF Good, Loose
  <2>7. \A d \in Slots : \A a, b \in q.node[d].children : q.node[a].name = q.node[b].name => a = b
    BY <1>0, <2>3, <2>4 DEF Good
  <2>8. \A d \in Slots : Cardinality(q.node[d].children) <= VFS_MAX_CHILDREN
    <3>1. IsFiniteSet(p.node[parent].children) /\ Cardinality(p.node[parent].children) \in Nat
      BY <2>4, SlotSetsFinite
    <3>2. Cardinality(q.node[parent].children) = Cardinality(p.node[parent].children) + 1
      BY <2>3, <3>1, FS_AddElement, Zenon DEF Loose
    <3>3. Cardinality(q.node[parent].children) <= VFS_MAX_CHILDREN
      BY <1>2, <3>1, <3>2, VfsAssumption DEF CanAdd
    <3> QED BY <2>3, <3>3, Zenon DEF Good
  <2> QED BY <2>2, <2>5, <2>6, <2>7, <2>8 DEF Good
<1> QED BY <1>1, <1>2

(* vfs_find_node returns an entry. *)
LEMMA FoundIsEntry ==
    ASSUME NEW p, NEW parent, NEW name, vfs_find_node(p, parent, name) # None
    PROVE  vfs_find_node(p, parent, name) \in p.node[parent].children
BY DEF vfs_find_node, Matches

(* When it finds nothing in a directory, the name is free. *)
LEMMA NotFoundIsFree ==
    ASSUME NEW p, Good(p), NEW parent \in Slots, NEW name,
           vfs_find_node(p, parent, name) = None, p.node[parent].type = NODE_DIRECTORY
    PROVE  \A a \in p.node[parent].children : p.node[a].name # name
<1>1. SUFFICES ASSUME Matches(p, parent, name) # {} PROVE FALSE
  BY DEF Matches
<1>2. None \in Matches(p, parent, name)
  BY <1>1 DEF vfs_find_node
<1>3. None \in Slots
  BY <1>2 DEF Matches, Good, PoolType, Node
<1> QED BY <1>3, SlotsAreNats

(* vfs_remove_child: the node is an entry of parent and of nothing else. *)
LEMMA RemoveGood ==
    ASSUME NEW p, Good(p), NEW parent \in Slots, NEW name
    PROVE  Good(vfs_remove_child(p, parent, name))
<1> DEFINE q == vfs_remove_child(p, parent, name)
           c == vfs_find_node(p, parent, name)
<1>1. CASE c = None
  BY <1>1 DEF vfs_remove_child
<1>2. CASE c # None
  <2>0. p \in PoolType /\ c \in p.node[parent].children
    BY <1>2, FoundIsEntry DEF Good
  <2>1. q = [p EXCEPT !.used = @ \ {c}, !.node[parent].children = @ \ {c}]
    BY <1>2 DEF vfs_remove_child
  <2> HIDE DEF q, c
  <2>2. q \in PoolType
    <3> DEFINE f == [p.node EXCEPT ![parent] =
                        [p.node[parent] EXCEPT !.children = p.node[parent].children \ {c}]]
    <3>1. p.node \in [Slots -> Node] /\ p.node[parent] \in Node
      BY <2>0 DEF PoolType
    <3>2. p.node[parent].children \ {c} \in SUBSET Slots
      BY <3>1 DEF Node
    <3>3. f \in [Slots -> Node]
      BY <3>1, <3>2, NodeUpdates, Zenon
    <3>4. p.used \ {c} \in SUBSET Slots
      BY <2>0 DEF PoolType
    <3>5. q = [p EXCEPT !.used = p.used \ {c}, !.node = f]
      BY <2>0, <2>1 DEF PoolType
    <3> QED BY <2>0, <3>3, <3>4, <3>5, PoolUpdates, Zenon
  <2>3. /\ q.used = p.used \ {c}
        /\ q.node[parent].children = p.node[parent].children \ {c}
        /\ \A d \in Slots \ {parent} : q.node[d].children = p.node[d].children
        /\ \A d \in Slots : q.node[d].name = p.node[d].name
    BY <2>0, <2>1 DEF PoolType, Node
  <2>4. \A d \in Slots : p.node[d].children \subseteq Slots
    BY <2>0 DEF PoolType, Node
  <2>5. \A d \in Slots \ {parent} : c \notin p.node[d].children
    BY <2>0 DEF Good
  <2>6. \A d \in Slots : q.node[d].children \subseteq q.used
    BY <2>3, <2>5 DEF Good
  <2>7. \A d, e \in Slots : d # e => q.node[d].children \cap q.node[e].children = {}
    BY <2>3 DEF Good
  <2>8. \A d \in Slots : \A a, b \in q.node[d].children : q.node[a].name = q.node[b].name => a = b
    BY <2>3, <2>4 DEF Good
  <2>9. \A d \in Slots : Cardinality(q.node[d].children) <= VFS_MAX_CHILDREN
    <3>1. IsFiniteSet(p.node[parent].children) /\ Cardinality(p.node[parent].children) \in Nat
      BY <2>4, SlotSetsFinite
    <3>2. /\ Cardinality(q.node[parent].children) \in Nat
          /\ Cardinality(q.node[parent].children) <= Cardinality(p.node[parent].children)
      BY <2>3, <3>1, FS_Subset, FS_CardinalityType
    <3>3. Cardinality(q.node[parent].children) <= VFS_MAX_CHILDREN
      BY <3>1, <3>2, VfsAssumption DEF Good
    <3>4. \A d \in Slots \ {parent} : Cardinality(q.node[d].children) <= VFS_MAX_CHILDREN
      BY <2>3, Zenon DEF Good
    <3> QED BY <3>3, <3>4
  <2> QED BY <2>2, <2>6, <2>7, <2>8, <2>9 DEF Good, q
<1> QED BY <1>1, <1>2
-----------------------------------------------------------------------------
(* Two pools with the same entries under the same names. *)
SameTree(p, q) ==
    /\ q.used = p.used
    /\ \A d \in Slots : /\ q.node[d].children = p.node[d].children
                         /\ q.node[d].name = p.node[d].name

LEMMA SameTreeGood ==
    ASSUME NEW p, Good(p), NEW q \in PoolType, SameTree(p, q)
    PROVE  Good(q)
<1>1. \A d \in Slots : p.node[d].children \subseteq Slots
  BY DEF Good, PoolType, Node
<1>2. \A d \in Slots : \A a, b \in q.node[d].children : q.node[a].name = q.node[b].name => a = b
  BY <1>1 DEF Good, SameTree
<1>3. \A d \in Slots : Cardinality(q.node[d].children) <= VFS_MAX_CHILDREN
  BY Zenon DEF Good, SameTree
<1>4. /\ \A d \in Slots : q.node[d].children \subseteq q.used
      /\ \A d, e \in Slots : d # e => q.node[d].children \cap q.node[e].children = {}
  BY DEF Good, SameTree
<1> QED BY <1>2, <1>3, <1>4 DEF Good

LEMMA MinMaxOfTwo ==
    ASSUME NEW a \in Nat, NEW b \in Nat
    PROVE  /\ Min({a, b}) \in {a, b} /\ Min({a, b}) <= a /\ Min({a, b}) <= b
           /\ Max({a, b}) \in {a, b} /\ Max({a, b}) >= a /\ Max({a, b}) >= b
<1>1. \E x \in {a, b} : \A y \in {a, b} : x <= y
  OBVIOUS
<1>2. \E x \in {a, b} : \A y \in {a, b} : x >= y
  OBVIOUS
<1>3. Min({a, b}) \in {a, b} /\ \A y \in {a, b} : Min({a, b}) <= y
  BY <1>1, Zenon DEF Min
<1>4. Max({a, b}) \in {a, b} /\ \A y \in {a, b} : Max({a, b}) >= y
  BY <1>2, Zenon DEF Max
<1> QED BY <1>3, <1>4

(* vfs_write stays within the node's contents. *)
LEMMA WriteKeeps ==
    ASSUME NEW p \in PoolType, NEW n \in Slots, NEW data \in Seq(Byte)
    PROVE  vfs_write(p, n, data) \in PoolType /\ SameTree(p, vfs_write(p, n, data))
<1> DEFINE q == vfs_write(p, n, data)
           r == p.node[n]
           size == Min({Len(data), VFS_MAX_FILE_SIZE})
           content == [i \in DOMAIN r.content |-> IF i <= size THEN data[i] ELSE r.content[i]]
           len == Max({r.length, size})
           f == [p.node EXCEPT ![n] = [r EXCEPT !.content = content, !.length = len]]
<1>1. p.node \in [Slots -> Node] /\ r \in Node
  BY DEF PoolType
<1>2. VFS_MAX_FILE_SIZE \in Nat /\ r.length \in 0 .. VFS_MAX_FILE_SIZE
      /\ r.content \in [1 .. VFS_MAX_FILE_SIZE -> Byte]
  BY <1>1, VfsAssumption DEF Node
<1>3. size \in 0 .. VFS_MAX_FILE_SIZE /\ size <= Len(data)
  BY <1>2, MinMaxOfTwo
<1> HIDE DEF size
<1>4. len \in 0 .. VFS_MAX_FILE_SIZE
  <2>1. r.length \in Nat /\ size \in Nat
    BY <1>2, <1>3
  <2> HIDE DEF r
  <2>2. len \in {r.length, size}
    BY <2>1, MinMaxOfTwo, Zenon
  <2> QED BY <1>2, <1>3, <2>2 DEF r
<1>5. content \in [1 .. VFS_MAX_FILE_SIZE -> Byte]
  BY <1>2, <1>3
<1> HIDE DEF len, content
<1>6. /\ [r EXCEPT !.content = content, !.length = len] \in Node
      /\ [r EXCEPT !.content = content, !.length = len].children = r.children
      /\ [r EXCEPT !.content = content, !.length = len].name = r.name
  BY <1>1, <1>4, <1>5, Zenon DEF Node
<1> HIDE DEF r
<1>7. f \in [Slots -> Node]
  BY <1>1, <1>6
<1>8. q = [p EXCEPT !.node = f]
  BY <1>1, Zenon DEF vfs_write, PoolType, len, content, size, r, Node
<1>9. q \in PoolType /\ q.used = p.used /\ q.node = f
  BY <1>7, <1>8 DEF PoolType
<1> QED BY <1>1, <1>6, <1>9 DEF SameTree, r

(* What cmd_write has put together fits into a file. *)
LEMMA PayloadFits ==
    ASSUME NEW words \in Words
    PROVE  Payload(words) \in Seq(Byte) /\ Len(Payload(words)) \in 0 .. VFS_MAX_FILE_SIZE
<1> DEFINE all == Append(words, NewLine)
           size == Min({Len(words) + 1, VFS_MAX_FILE_SIZE})
<1>1. words \in Seq(Byte) /\ NewLine \in Byte /\ VFS_MAX_FILE_SIZE \in Nat
  BY CommandsAssumption, VfsAssumption, Zenon
<1>2. all \in Seq(Byte) /\ Len(all) = Len(words) + 1 /\ Len(words) \in Nat
  BY <1>1
<1>3. size \in Nat /\ size <= Len(all) /\ size <= VFS_MAX_FILE_SIZE
  BY <1>1, <1>2, MinMaxOfTwo
<1>4. Payload(words) = SubSeq(all, 1, size)
  BY DEF Payload
<1> HIDE DEF all, size
<1>5. SubSeq(all, 1, size) \in Seq(Byte) /\ Len(SubSeq(all, 1, size)) = size
  BY <1>2, <1>3
<1> QED BY <1>3, <1>4, <1>5

(* Store, the end of cmd_write. *)
LEMMA StoreGood ==
    ASSUME NEW p, Good(p), NEW file \in Slots, NEW words \in Words
    PROVE  Good(Store(p, file, words))
<1> DEFINE w == vfs_write(p, file, Payload(words))
           len == Len(Payload(words))
           r == [w.node[file] EXCEPT !.length = len]
           f == [w.node EXCEPT ![file] = r]
           q == Store(p, file, words)
<1>1. w \in PoolType /\ SameTree(p, w) /\ Good(w)
  BY PayloadFits, WriteKeeps, SameTreeGood DEF Good
<1>2. len \in 0 .. VFS_MAX_FILE_SIZE
  BY PayloadFits
<1>3. q = [w EXCEPT !.node[file].length = len]
  BY DEF Store
<1> HIDE DEF w, len, q
<1>4. w.node \in [Slots -> Node] /\ w.node[file] \in Node
  BY <1>1 DEF PoolType
<1>5. r \in Node /\ r.children = w.node[file].children /\ r.name = w.node[file].name
  BY <1>2, <1>4 DEF Node
<1>6. q = [w EXCEPT !.node = f]
  BY <1>1, <1>3 DEF PoolType
<1> HIDE DEF r
<1>7. q \in PoolType /\ q.used = w.used /\ q.node = f
  BY <1>1, <1>4, <1>5, <1>6 DEF PoolType
<1>8. SameTree(w, q)
  BY <1>4, <1>5, <1>7 DEF SameTree
<1> QED BY <1>1, <1>7, <1>8, SameTreeGood DEF q
-----------------------------------------------------------------------------
(* The pool vfs_init leaves. *)
LEMMA InitGood == vfs_init \in PoolType /\ Good(vfs_init)
<1> DEFINE names == <<"/", "bin", "etc", "home", "tmp", "motd.txt">>
           made(s) == [Fresh(names[s + 1], IF s = 5 THEN NODE_FILE ELSE NODE_DIRECTORY, s + 1)
                       EXCEPT !.parent = IF s = 5 THEN 2 ELSE vfs_root,
                              !.children = IF s = vfs_root THEN 1 .. 4
                                           ELSE IF s = 2 THEN {5} ELSE {}]
           f == [s \in Slots |-> IF s \in 0 .. 5 THEN made(s) ELSE Fresh("/", NODE_FILE, 0)]
           pool == [used |-> 0 .. 5, next_inode |-> 7, node |-> f]
<1>1. vfs_init = vfs_write(pool, 5, Motd)
  BY DEF vfs_init
<1>2. 0 .. 5 \subseteq Slots /\ 1 .. 4 \subseteq Slots /\ {5} \subseteq Slots
      /\ vfs_root = 0 /\ 2 \in Slots /\ 5 \in Slots /\ vfs_root \in Slots
  BY VfsAssumption DEF Slots, vfs_root
<1>3. \A s \in 0 .. 5 : names[s + 1] \in Names
  <2> TAKE s \in 0 .. 5
  <2>1. s = 0 \/ s = 1 \/ s = 2 \/ s = 3 \/ s = 4 \/ s = 5
    OBVIOUS
  <2> QED BY <2>1, VfsAssumption
<1>4. \A s, t \in 1 .. 4 : names[s + 1] = names[t + 1] => s = t
  <2> TAKE s, t \in 1 .. 4
  <2>1. s = 1 \/ s = 2 \/ s = 3 \/ s = 4
    OBVIOUS
  <2>2. t = 1 \/ t = 2 \/ t = 3 \/ t = 4
    OBVIOUS
  <2> QED BY <2>1, <2>2
<1> HIDE DEF names
<1>5. \A s \in 0 .. 5 : /\ made(s) \in Node
                        /\ made(s).name = names[s + 1]
                        /\ made(s).children = IF s = 0 THEN 1 .. 4
                                              ELSE IF s = 2 THEN {5} ELSE {}
  <2> TAKE s \in 0 .. 5
  <2> DEFINE type == IF s = 5 THEN NODE_FILE ELSE NODE_DIRECTORY
             parent == IF s = 5 THEN 2 ELSE vfs_root
             children == IF s = vfs_root THEN 1 .. 4 ELSE IF s = 2 THEN {5} ELSE {}
             fresh == Fresh(names[s + 1], type, s + 1)
  <2>1. fresh \in Node /\ fresh.name = names[s + 1]
    <3>1. type \in {NODE_FILE, NODE_DIRECTORY} /\ s + 1 \in Nat /\ names[s + 1] \in Names
      BY <1>3
    <3> QED BY <3>1, FreshNode DEF Fresh
  <2>2. parent \in Slots /\ children \in SUBSET Slots
    BY <1>2
  <2>3. children = IF s = 0 THEN 1 .. 4 ELSE IF s = 2 THEN {5} ELSE {}
    BY <1>2
  <2>4. made(s) = [fresh EXCEPT !.parent = parent, !.children = children]
    OBVIOUS
  <2> HIDE DEF fresh, parent, children, made
  <2> QED BY <2>1, <2>2, <2>3, <2>4, Zenon DEF Node
<1> HIDE DEF made
<1>6. Fresh("/", NODE_FILE, 0) \in Node /\ Fresh("/", NODE_FILE, 0).children = {}
  <2>1. "/" \in Names
    BY VfsAssumption
  <2> QED BY <2>1, FreshNode DEF Fresh
<1>7. f \in [Slots -> Node]
  BY <1>5, <1>6
<1>8. pool \in PoolType
  BY <1>2, <1>7 DEF PoolType
<1>9. \A d \in Slots : f[d].children = IF d = 0 THEN 1 .. 4 ELSE IF d = 2 THEN {5} ELSE {}
  <2> TAKE d \in Slots
  <2>1. CASE d \in 0 .. 5
    BY <1>5, <2>1, Zenon
  <2>2. CASE d \notin 0 .. 5
    <3>1. f[d] = Fresh("/", NODE_FILE, 0) /\ d # 0 /\ d # 2
      BY <2>2
    <3> QED BY <1>6, <3>1
  <2> QED BY <2>1, <2>2
<1>10. \A d \in 1 .. 4 : f[d].name = names[d + 1]
  BY <1>2, <1>5
<1> HIDE DEF f
<1>11. \A d \in Slots : f[d].children \subseteq 0 .. 5
  BY <1>9
<1>12. \A d, e \in Slots : d # e => f[d].children \cap f[e].children = {}
  BY <1>9
<1>13. \A d \in Slots : \A a, b \in f[d].children : f[a].name = f[b].name => a = b
  BY <1>4, <1>9, <1>10
<1>14. \A d \in Slots : Cardinality(f[d].children) <= VFS_MAX_CHILDREN
  <2>0. Cardinality(1 .. 4) = 4
    <3>1. 1 \in Int /\ 4 \in Int
      OBVIOUS
    <3>2. Cardinality(1 .. 4) = IF 1 > 4 THEN 0 ELSE 4 - 1 + 1
      BY <3>1, FS_Interval, Zenon
    <3> QED BY <3>2
  <2>1. Cardinality(1 .. 4) = 4 /\ Cardinality({5}) = 1 /\ Cardinality({}) = 0
    BY <2>0, FS_Singleton, FS_EmptySet, Zenon
  <2>2. Cardinality(1 .. 4) <= VFS_MAX_CHILDREN /\ Cardinality({5}) <= VFS_MAX_CHILDREN
        /\ Cardinality({}) <= VFS_MAX_CHILDREN
    BY <2>1, VfsAssumption
  <2>3. \A d \in Slots : f[d].children \in {1 .. 4, {5}, {}}
    BY <1>9
  <2> QED BY <2>2, <2>3, Zenon
<1>15. Good(pool)
  BY <1>8, <1>11, <1>12, <1>13, <1>14 DEF Good
<1> HIDE DEF pool
<1>16. Motd \in Seq(Byte)
  BY VfsAssumption
<1> QED BY <1>1, <1>2, <1>8, <1>15, <1>16, WriteKeeps, SameTreeGood
-----------------------------------------------------------------------------
(* The commands. *)

LEMMA PoolIsNext ==
    ASSUME NEW p \in PoolType, PoolBecomes(p)
    PROVE  Pool' = p
BY DEF Pool, PoolBecomes, PoolType

LEMMA AnswersKeeps ==
    ASSUME IInv, NEW cmd, NEW arg, NEW out, NEW shows, Answers(cmd, arg, out, shows)
    PROVE  IInv'
<1>1. Pool' = Pool /\ current_directory' = current_directory
  BY DEF Answers, Pool
<1> QED BY <1>1 DEF IInv

(* A node made for a name that parent does not have and linked if there is *)
(* room, as mkdir, touch and write do.                                     *)
LEMMA MadeGood ==
    ASSUME NEW p, Good(p), NEW parent \in Slots, NEW name \in Names,
           NEW type \in {NODE_FILE, NODE_DIRECTORY}, FirstFree(p) # None,
           vfs_find_node(p, parent, name) = None
    PROVE  LET made == vfs_create_node(p, name, type)
           IN  Good(made) /\ Good(vfs_add_child(made, parent, FirstFree(p)))
<1> DEFINE made == vfs_create_node(p, name, type)
           s == FirstFree(p)
<1>1. /\ Good(made) /\ made.used = p.used \cup {s} /\ Loose(made, s)
      /\ made.node[s] = Fresh(name, type, p.next_inode)
      /\ \A d \in Slots \ {s} : made.node[d] = p.node[d]
  BY CreateGood
<1>2. s \in Slots
  BY FreeSlot DEF Good
<1> HIDE DEF made, s
<1>3. CASE ~ CanAdd(made, parent)
  BY <1>1, <1>3 DEF vfs_add_child, made, s
<1>4. CASE CanAdd(made, parent)
  <2>1. \A a \in made.node[parent].children : made.node[a].name # made.node[s].name
    <3>1. CASE parent = s
      BY <1>1, <3>1 DEF Fresh
    <3>2. CASE parent # s
      <4>1. made.node[parent] = p.node[parent]
        BY <1>1, <3>2
      <4>2. p.node[parent].type = NODE_DIRECTORY
        BY <1>4, <4>1 DEF CanAdd
      <4>3. \A a \in p.node[parent].children : p.node[a].name # name
        BY <4>2, NotFoundIsFree
      <4>4. \A a \in p.node[parent].children : a \in Slots \ {s}
        BY <1>1, <4>1 DEF Good, PoolType, Node, Loose
      <4>5. made.node[s].name = name
        BY <1>1 DEF Fresh
      <4> QED BY <1>1, <4>1, <4>3, <4>4, <4>5
    <3> QED BY <3>1, <3>2
  <2>2. s \in made.used
    BY <1>1
  <2> QED BY <1>1, <2>1, <2>2, AddGood DEF made, s
<1> QED BY <1>3, <1>4

(* cmd_mkdir and cmd_touch. *)
LEMMA MakeKeeps ==
    ASSUME IInv, NEW cmd, NEW arg \in Args, NEW type \in {NODE_FILE, NODE_DIRECTORY},
           NEW there, Make(cmd, arg, type, there)
    PROVE  IInv'
<1>1. CASE \E out : Answers(cmd, arg, out, {})
  BY <1>1, AnswersKeeps
<1>2. CASE ~ \E out : Answers(cmd, arg, out, {})
  <2> DEFINE parent == Parent(arg)
             new == FirstFree(Pool)
             made == vfs_create_node(Pool, Last(arg), type)
             q == vfs_add_child(made, parent, new)
  <2>1. /\ parent \in Slots /\ Last(arg) # ""
        /\ vfs_find_node(Pool, parent, Last(arg)) = None /\ new # None
        /\ PoolBecomes(q) /\ UNCHANGED current_directory
    BY <1>2, Zenon DEF Make
  <2>2. Last(arg) \in Names
    BY <2>1, CommandsAssumption, Zenon
  <2>3. Good(q)
    BY <2>1, <2>2, MadeGood, Zenon DEF IInv
  <2> HIDE DEF q
  <2>4. Pool' = q
    BY <2>1, <2>3, PoolIsNext, Zenon DEF Good
  <2> QED BY <2>1, <2>3, <2>4, Zenon DEF IInv
<1> QED BY <1>1, <1>2

LEMMA WriteCommandKeeps ==
    ASSUME IInv, NEW arg \in Args, NEW words \in Words, cmd_write(arg, words)
    PROVE  IInv'
<1> DEFINE parent == Parent(arg)
           new == FirstFree(Pool)
           file == vfs_find_node(Pool, parent, Last(arg))
           made == vfs_create_node(Pool, Last(arg), NODE_FILE)
           q == vfs_add_child(made, parent, new)
<1>0. Good(Pool) /\ current_directory \in Slots
  BY DEF IInv
<1>1. CASE \E out : Answers("write", <<arg, words>>, out, {})
  BY <1>1, AnswersKeeps
<1>2. CASE /\ parent \in Slots /\ file # None /\ UNCHANGED current_directory
           /\ PoolBecomes(Store(Pool, file, words))
  <2>1. file \in Pool.node[parent].children
    BY <1>2, FoundIsEntry
  <2>2. file \in Slots
    BY <1>0, <1>2, <2>1 DEF Good, PoolType, Node
  <2> HIDE DEF file
  <2>3. Good(Store(Pool, file, words))
    BY <1>0, <2>2, StoreGood
  <2>4. Pool' = Store(Pool, file, words)
    BY <1>2, <2>3, PoolIsNext DEF Good
  <2> QED BY <1>0, <1>2, <2>3, <2>4 DEF IInv
<1>3. CASE /\ parent \in Slots /\ Last(arg) # "" /\ file = None /\ new # None
           /\ UNCHANGED current_directory
           /\ PoolBecomes(Store(q, new, words)) \/ PoolBecomes(made)
  <2>1. Last(arg) \in Names
    BY <1>3, CommandsAssumption, Zenon
  <2>2. Good(made) /\ Good(q) /\ new \in Slots
    <3>1. Good(made) /\ Good(q)
      BY <1>0, <1>3, <2>1, MadeGood, Zenon
    <3>2. new \in Slots
      BY <1>0, <1>3, FreeSlot, Zenon DEF Good
    <3> QED BY <3>1, <3>2
  <2> HIDE DEF made, q, new
  <2>3. Good(Store(q, new, words))
    BY <2>2, StoreGood
  <2>4. Pool' = Store(q, new, words) \/ Pool' = made
    BY <1>3, <2>2, <2>3, PoolIsNext, Zenon DEF Good
  <2> QED BY <1>0, <1>3, <2>2, <2>3, <2>4, Zenon DEF IInv
<1>4. \/ \E out : Answers("write", <<arg, words>>, out, {})
      \/ /\ parent \in Slots /\ file # None /\ UNCHANGED current_directory
         /\ PoolBecomes(Store(Pool, file, words))
      \/ /\ parent \in Slots /\ Last(arg) # "" /\ file = None /\ new # None
         /\ UNCHANGED current_directory
         /\ PoolBecomes(Store(q, new, words)) \/ PoolBecomes(made)
  BY Zenon DEF cmd_write
<1> QED BY <1>1, <1>2, <1>3, <1>4, Zenon

LEMMA RmKeeps ==
    ASSUME IInv, NEW arg \in Args, cmd_rm(arg)
    PROVE  IInv'
<1>1. CASE \E out : Answers("rm", arg, out, {})
  BY <1>1, AnswersKeeps
<1>2. CASE ~ \E out : Answers("rm", arg, out, {})
  <2> DEFINE q == vfs_remove_child(Pool, Parent(arg), Last(arg))
  <2>1. Parent(arg) \in Slots /\ PoolBecomes(q) /\ UNCHANGED current_directory
    BY <1>2, Zenon DEF cmd_rm
  <2>2. Good(q)
    BY <2>1, RemoveGood DEF IInv
  <2> HIDE DEF q
  <2>3. Pool' = q
    BY <2>1, <2>2, PoolIsNext DEF Good
  <2> QED BY <2>1, <2>2, <2>3 DEF IInv
<1> QED BY <1>1, <1>2

LEMMA CdKeeps ==
    ASSUME IInv, NEW arg, cmd_cd(arg)
    PROVE  IInv'
<1>1. CASE \E out : Answers("cd", arg, out, {})
  BY <1>1, AnswersKeeps
<1>2. CASE ~ \E out : Answers("cd", arg, out, {})
  <2>1. current_directory' \in Slots /\ UNCHANGED <<used, node, next_inode>>
    BY <1>2 DEF cmd_cd
  <2>2. Pool' = Pool
    BY <2>1 DEF Pool
  <2> QED BY <2>1, <2>2 DEF IInv
<1> QED BY <1>1, <1>2
-----------------------------------------------------------------------------
LEMMA NextKeeps ==
    ASSUME IInv, [Next]_vars
    PROVE  IInv'
<1>1. CASE UNCHANGED vars
  <2>1. Pool' = Pool /\ current_directory' = current_directory
    BY <1>1 DEF vars, Pool
  <2> QED BY <2>1 DEF IInv
<1>2. CASE Next
  <2>1. PICK arg \in Args : Changes(arg) \/ Removes(arg)
    BY <1>2 DEF Next
  <2>2. CASE cmd_mkdir(arg)
    BY <2>2, MakeKeeps DEF cmd_mkdir
  <2>3. CASE cmd_touch(arg)
    BY <2>3, MakeKeeps DEF cmd_touch
  <2>4. CASE \E words \in Words : cmd_write(arg, words)
    BY <2>4, WriteCommandKeeps
  <2>5. CASE cmd_cd(arg)
    BY <2>5, CdKeeps
  <2>6. CASE cmd_rm(arg)
    BY <2>6, RmKeeps
  <2> QED BY <2>1, <2>2, <2>3, <2>4, <2>5, <2>6 DEF Changes, Removes
<1> QED BY <1>1, <1>2

(* The inductive invariant the theorems below follow from: whatever the    *)
(* commands of commands.c do to the pool, its entries stay in order.       *)
THEOREM FilesInvariance == Spec => []IInv
<1>1. Init => IInv
  <2> SUFFICES ASSUME Init PROVE IInv
    OBVIOUS
  <2>1. Pool = vfs_init
    BY InitGood DEF Init, Pool, PoolType
  <2> QED BY <2>1, InitGood, SlotsAreNats DEF Init, IInv
<1>2. IInv /\ [Next]_vars => IInv'
  BY NextKeeps
<1> QED BY <1>1, <1>2, PTL DEF Spec

(* No directory, a removed one included, has an entry for a node that was  *)
(* freed or for a node of another directory: allocate_node hands out only  *)
(* nodes that no directory shows.                                          *)
THEOREM EntriesAlwaysInUse == Spec => []EntriesInUse
<1>1. IInv => EntriesInUse
  BY DEF IInv, Good, Pool, EntriesInUse
<1> QED BY <1>1, FilesInvariance, PTL

(* No directory ever has two entries of one name, whichever of mkdir,      *)
(* touch and write made them.                                              *)
THEOREM NamesAlwaysUnique == Spec => []UniqueNames
<1>1. IInv => UniqueNames
  BY DEF IInv, Good, Pool, UniqueNames
<1> QED BY <1>1, FilesInvariance, PTL

(* The pool stays within its types: no directory has more than             *)
(* VFS_MAX_CHILDREN entries and no file more than VFS_MAX_FILE_SIZE bytes. *)
THEOREM FilesTypeCorrect == Spec => []TypeOK
<1>1. IInv => TypeOK
  BY DEF IInv, Good, Pool, PoolType, TypeOK
<1> QED BY <1>1, FilesInvariance, PTL
=============================================================================
