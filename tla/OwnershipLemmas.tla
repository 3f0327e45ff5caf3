-------------------------- MODULE OwnershipLemmas --------------------------
(***************************************************************************)
(* What processes own, for every table size and heap: the invariant, the   *)
(* frame lemmas, and the operations that move stacks between the heap, the *)
(* PCBs and the local variables of processes that exist already.  The      *)
(* operations that add or collect a process, and the theorems, are in      *)
(* OwnershipProofs.                                                        *)
(*                                                                         *)
(* The scheduler never touches what a process owns (SchedulerProofs), so   *)
(* the work is in the operations: each moves stacks between the heap, the  *)
(* PCBs and the local variables of at most two processes.                  *)
(***************************************************************************)
EXTENDS ProcessProofs

(* The default prover and its time limit; the leaves that are pure logic   *)
(* name Zenon instead.                                                     *)
USE SMTT(30)

(* The stacks a process refers to, from its PCB and its local variables. *)
Hold(b) == {b.kstack, b.ustack, b.kloc, b.uloc} \ {NULL}

(* They are different blocks. *)
Distinct(b) ==
    /\ b.kstack # NULL => b.kstack \notin {b.ustack, b.kloc, b.uloc}
    /\ b.ustack # NULL => b.ustack \notin {b.kloc, b.uloc}
    /\ b.kloc # NULL => b.kloc # b.uloc

(* Where a process stands says what it holds: only the shell is inside     *)
(* process_create, stacks in local variables exist only there and on the   *)
(* error paths, and a PCB in use has its kernel stack.                     *)
OwnPlace(p, b) ==
    /\ b.state = "UNUSED" => b = Unused
    /\ b.state = "ZOMBIE" => b.pc = "dead"
    /\ b.state = "BLOCKED" => b.parent_waiting
    /\ b.state # "UNUSED" /\ p # Idle => b.kstack # NULL
    /\ b.pc \in {"ucreate", "create", "fields"} => p = Shell
    /\ b.pc = "create" => b.kloc # NULL
    /\ b.kloc # NULL => b.pc \in {"create", "unwind", "dead"}
    /\ b.uloc # NULL => b.pc \in {"ucreate", "create", "fields", "unwind", "dead"}

(* A user process that process_create has made and process_create_user has *)
(* not completed yet.                                                      *)
Fresh(b) ==
    /\ Live(b) /\ b.pc \in {"tramp", "wild"}
    /\ ~b.user_entry /\ b.ustack = NULL

(* The PCB that process_create_user is about to complete is one of these,  *)
(* and a child of the caller.                                              *)
NewUser(kk, p) ==
    LET c == kk.tab[p].kid
    IN  /\ c \in Slots \ {p} /\ Fresh(kk.tab[c])
        /\ kk.tab[c].ppid = kk.tab[p].pid

(* Every process stands where its state and its stacks say. *)
Places(kk) == \A p \in Slots : /\ OwnPlace(p, kk.tab[p])
                               /\ kk.tab[p].pc = "fields" => NewUser(kk, p)

(* Every stack has one owner, and none is lost. *)
Owned(kk) ==
    /\ \A p \in Slots : Distinct(kk.tab[p]) /\ Hold(kk.tab[p]) \cap kk.free = {}
    /\ \A p, r \in Slots : p # r => Hold(kk.tab[p]) \cap Hold(kk.tab[r]) = {}

(* The blocks that are free or that a process of P refers to. *)
Pool(kk, P) == kk.free \cup UNION {Hold(kk.tab[p]) : p \in P}

(* No stack is lost, unless a process died with stacks in its local        *)
(* variables.                                                              *)
Whole(kk) == kk.torn \/ Blocks \subseteq Pool(kk, Slots)

(* What holds of places and stacks in every reachable state. *)
Kept(kk) == Places(kk) /\ Owned(kk) /\ Whole(kk)

(* While pids are unique: a parent about to read its new child's PCB still *)
(* has that child, and a blocked parent has nothing to collect.            *)
Family(kk) ==
    /\ ~Duplicate(kk)
    /\ \A p \in Slots :
          /\ kk.tab[p].pc = "forked" => kk.tab[p].kid \in ChildrenOf(kk, p)
          /\ kk.tab[p].state = "BLOCKED" => ZombiesOf(kk, p) = {}

(* The zombie of a live process is released by that process only, in       *)
(* process_wait or when it exits.                                          *)
Spares(kk, e) ==
    \A p, z \in Slots :
       /\ kk.tab[z].state = "ZOMBIE" /\ e.tab[z].state = "UNUSED"
       /\ Live(kk.tab[p]) /\ p # Idle /\ z \in ZombiesOf(kk, p)
       => p = kk.current /\ (process_wait \/ process_exit)
-----------------------------------------------------------------------------
(* Membership in a pool. *)
LEMMA PoolIn ==
    ASSUME NEW kk, NEW P, NEW x
    PROVE  x \in Pool(kk, P) <=> x \in kk.free \/ \E p \in P : x \in Hold(kk.tab[p])
BY DEF Pool

(* The stacks of the processes in P and of the heap change hands. *)
Traded(kk, e, P) ==
    /\ \A r \in Slots \ P : Hold(e.tab[r]) = Hold(kk.tab[r]) /\ Distinct(e.tab[r])
    /\ \A p \in P : Distinct(e.tab[p]) /\ Hold(e.tab[p]) \cap e.free = {}
    /\ \A p, r \in P : p # r => Hold(e.tab[p]) \cap Hold(e.tab[r]) = {}
    /\ Pool(e, P) \subseteq Pool(kk, P)
    /\ e.torn \/ (~kk.torn /\ Pool(kk, P) \subseteq Pool(e, P))

(* When stacks change hands inside a group and the pool of the group stays *)
(* the same, every stack keeps one owner and none is lost.                 *)
LEMMA Exchange ==
    ASSUME NEW kk, NEW e, NEW P \in SUBSET Slots, Owned(kk), Whole(kk),
           Traded(kk, e, P)
    PROVE  Owned(e) /\ Whole(e)
<1>0. /\ \A r \in Slots \ P : Hold(e.tab[r]) = Hold(kk.tab[r]) /\ Distinct(e.tab[r])
      /\ \A p \in P : Distinct(e.tab[p]) /\ Hold(e.tab[p]) \cap e.free = {}
      /\ \A p, r \in P : p # r => Hold(e.tab[p]) \cap Hold(e.tab[r]) = {}
      /\ Pool(e, P) \subseteq Pool(kk, P)
      /\ e.torn \/ (~kk.torn /\ Pool(kk, P) \subseteq Pool(e, P))
  BY DEF Traded
<1>1. \A r \in Slots \ P : \A x \in Hold(kk.tab[r]) : x \notin Pool(kk, P)
  BY PoolIn DEF Owned
<1>2. ASSUME NEW r \in Slots \ P
      PROVE  /\ Hold(e.tab[r]) \cap e.free = {}
             /\ \A p \in P : Hold(e.tab[r]) \cap Hold(e.tab[p]) = {}
  <2> SUFFICES ASSUME NEW x \in Hold(e.tab[r])
               PROVE  x \notin e.free /\ \A p \in P : x \notin Hold(e.tab[p])
    OBVIOUS
  <2>1. x \notin Pool(e, P)
    BY <1>0, <1>1
  <2> QED BY <2>1, PoolIn
<1>3. ASSUME NEW p \in Slots PROVE Distinct(e.tab[p]) /\ Hold(e.tab[p]) \cap e.free = {}
  BY <1>0, <1>2
<1>4. ASSUME NEW p \in Slots, NEW r \in Slots, p # r
      PROVE  Hold(e.tab[p]) \cap Hold(e.tab[r]) = {}
  <2>1. CASE p \in P /\ r \in P
    BY <1>0, <1>4, <2>1
  <2>2. CASE p \in P /\ r \notin P
    BY <1>2, <2>2
  <2>3. CASE p \notin P /\ r \in P
    BY <1>2, <2>3
  <2>4. CASE p \notin P /\ r \notin P
    <3>1. Hold(kk.tab[p]) \cap Hold(kk.tab[r]) = {}
      BY <1>4 DEF Owned
    <3> QED BY <1>0, <2>4, <3>1
  <2> QED BY <2>1, <2>2, <2>3, <2>4
<1>5. Owned(e)
  BY <1>3, <1>4 DEF Owned
<1>6. Whole(e)
  <2> SUFFICES ASSUME ~e.torn, NEW x \in Blocks PROVE x \in Pool(e, Slots)
    BY DEF Whole
  <2>1. x \in Pool(kk, Slots)
    BY <1>0 DEF Whole
  <2>2. CASE x \in Pool(kk, P)
    <3>1. x \in Pool(e, P)
      BY <1>0, <2>2
    <3> QED BY <3>1, PoolIn
  <2>3. CASE x \notin Pool(kk, P)
    <3>1. PICK r \in Slots : x \in Hold(kk.tab[r])
      BY <2>1, <2>3, PoolIn
    <3>2. r \notin P
      BY <2>3, <3>1, PoolIn
    <3> QED BY <1>0, <3>1, <3>2, PoolIn
  <2> QED BY <2>2, <2>3
<1> QED BY <1>5, <1>6

(* What the scheduler does to contexts keeps places and stacks. *)
LEMMA MovesKeep ==
    ASSUME NEW kk, NEW e, Moves(kk, e), Kept(kk)
    PROVE  Kept(e)
<1>1. \A p \in Slots : Moved(kk.tab[p], e.tab[p])
  BY DEF Moves
<1>2. \A p \in Slots : /\ Hold(e.tab[p]) = Hold(kk.tab[p])
                       /\ Distinct(kk.tab[p]) => Distinct(e.tab[p])
                       /\ Fresh(kk.tab[p]) => Fresh(e.tab[p])
  <2>1. ASSUME NEW b, NEW c, Moved(b, c)
        PROVE  /\ Hold(c) = Hold(b) /\ (Distinct(b) => Distinct(c))
               /\ Fresh(b) => Fresh(c)
    BY <2>1 DEF Moved, SameContext, Hold, Distinct, Fresh
  <2> QED BY <1>1, <2>1
<1>3. ASSUME NEW p \in Slots PROVE OwnPlace(p, e.tab[p])
  <2>1. ASSUME NEW b, NEW c, Moved(b, c), OwnPlace(p, b)
        PROVE  OwnPlace(p, c)
    BY <2>1 DEF Moved, SameContext, OwnPlace, Live
  <2> QED BY <1>1, <2>1 DEF Kept, Places
<1>4. ASSUME NEW p \in Slots, e.tab[p].pc = "fields" PROVE NewUser(e, p)
  <2>1. kk.tab[p].pc = "fields" /\ e.tab[p].kid = kk.tab[p].kid
        /\ e.tab[p].pid = kk.tab[p].pid
    BY <1>1, <1>4 DEF Moved, SameContext
  <2>2. NewUser(kk, p)
    BY <2>1 DEF Kept, Places
  <2>3. \A c \in Slots : e.tab[c].ppid = kk.tab[c].ppid
    BY <1>1 DEF Moved, SameContext
  <2> QED BY <1>2, <2>1, <2>2, <2>3 DEF NewUser
<1>5. Owned(e)
  BY <1>2 DEF Owned, Kept, Moves
<1>6. Whole(e)
  BY <1>2, PoolIn DEF Whole, Kept, Moves
<1> QED BY <1>3, <1>4, <1>5, <1>6 DEF Kept, Places

(* Changes that leave pids, parents and zombies alone keep families. *)
LEMMA FamilyFrame ==
    ASSUME NEW kk, NEW e, Family(kk),
           \A r \in Slots :
              /\ e.tab[r].pid = kk.tab[r].pid /\ e.tab[r].ppid = kk.tab[r].ppid
              /\ e.tab[r].state = "UNUSED" <=> kk.tab[r].state = "UNUSED"
              /\ e.tab[r].state = "ZOMBIE" => kk.tab[r].state = "ZOMBIE"
              /\ e.tab[r].pc = "forked" =>
                    kk.tab[r].pc = "forked" /\ e.tab[r].kid = kk.tab[r].kid
              /\ e.tab[r].state = "BLOCKED" =>
                    kk.tab[r].state = "BLOCKED" \/ ZombiesOf(kk, r) = {}
    PROVE  Family(e)
<1>1. ~Duplicate(e)
  BY DEF Family, Duplicate
<1>2. \A r \in Slots : ChildrenOf(e, r) = ChildrenOf(kk, r)
  BY DEF ChildrenOf
<1>3. \A r \in Slots : ZombiesOf(e, r) \subseteq ZombiesOf(kk, r)
  BY <1>2 DEF ZombiesOf, ChildrenOf
<1> QED BY <1>1, <1>2, <1>3 DEF Family

(* What the scheduler does to contexts keeps families. *)
LEMMA MovesFamily ==
    ASSUME NEW kk, NEW e, Moves(kk, e), Family(kk)
    PROVE  Family(e)
<1>1. \A r \in Slots :
        /\ e.tab[r].pid = kk.tab[r].pid /\ e.tab[r].ppid = kk.tab[r].ppid
        /\ e.tab[r].state = "UNUSED" <=> kk.tab[r].state = "UNUSED"
        /\ e.tab[r].state = "ZOMBIE" => kk.tab[r].state = "ZOMBIE"
        /\ e.tab[r].pc = "forked" =>
              kk.tab[r].pc = "forked" /\ e.tab[r].kid = kk.tab[r].kid
        /\ e.tab[r].state = "BLOCKED" => kk.tab[r].state = "BLOCKED"
  BY DEF Moves, Moved, SameContext, Live
<1> QED BY <1>1, FamilyFrame

(* While pids are unique, reap_orphans spares the children of the living. *)
LEMMA OrphanAlone ==
    ASSUME NEW kk, IdleStands(kk), ~Duplicate(kk), NEW g \in SUBSET Reapable(kk),
           NEW z \in Slots, Orphan(kk, g, z),
           NEW p \in Slots \ {Idle}, Live(kk.tab[p])
    PROVE  kk.tab[p].pid # kk.tab[z].ppid
<1> SUFFICES ASSUME kk.tab[p].pid = kk.tab[z].ppid PROVE FALSE
  OBVIOUS
<1> DEFINE S == {r \in Slots \ g : /\ kk.tab[r].state # "UNUSED"
                                   /\ kk.tab[r].pid = kk.tab[z].ppid}
<1>1. p \in S
  BY DEF Live, Reapable
<1>2. S \in SUBSET Nat
  BY IdleIsSlot, ZenonT(30)
<1>3. Min(S) \in S
  BY <1>1, <1>2, MinOf, ZenonT(30)
<1>4. Min(S) = p
  <2>1. Min(S) \in Slots /\ kk.tab[Min(S)].state # "UNUSED"
        /\ kk.tab[Min(S)].pid = kk.tab[p].pid
    BY <1>3, ZenonT(30)
  <2>2. kk.tab[p].state # "UNUSED"
    BY DEF Live
  <2> HIDE DEF S
  <2> QED BY <2>1, <2>2 DEF Duplicate
<1>5. S = {} \/ kk.tab[Min(S)].state = "ZOMBIE" \/ kk.tab[Min(S)].pid = 0
  BY ZenonT(30) DEF Orphan
<1> HIDE DEF S
<1> QED BY <1>1, <1>4, <1>5 DEF Live, IdleStands

(* A free slot refers to no stack. *)
LEMMA UnusedHolds ==
    /\ Hold(Unused) = {} /\ Distinct(Unused) /\ \A p : OwnPlace(p, Unused)
    /\ Unused.pc = "none" /\ Unused.state = "UNUSED"
BY DEF Hold, Distinct, OwnPlace, Unused

(* process_release of exited processes. *)
LEMMA ReleaseKeeps ==
    ASSUME NEW kk \in KernelState, Kept(kk), NEW P \in SUBSET Slots,
           kk.current \notin P, \A p \in P : kk.tab[p].state = "ZOMBIE"
    PROVE  Kept(Release(kk, P))
<1> DEFINE e == Release(kk, P)
<1>1. /\ \A p \in P : e.tab[p] = Unused
      /\ \A p \in Slots \ P : e.tab[p] = kk.tab[p]
      /\ e.free = kk.free \cup ((UNION {{kk.tab[p].kstack, kk.tab[p].ustack} :
                                         p \in P}) \ {NULL})
      /\ e.torn = (kk.torn \/ \E p \in P :
                                {kk.tab[p].kloc, kk.tab[p].uloc} # {NULL})
  BY ReleaseParts, ZenonT(30)
<1> HIDE DEF e
<1>2. \A x : x \in e.free <=> \/ x \in kk.free
                              \/ /\ x # NULL
                                 /\ \E p \in P : x \in {kk.tab[p].kstack, kk.tab[p].ustack}
  BY <1>1
<1>3. ASSUME NEW p \in Slots PROVE OwnPlace(p, e.tab[p])
  BY <1>1, UnusedHolds DEF Kept, Places
<1>4. ASSUME NEW p \in Slots, e.tab[p].pc = "fields" PROVE NewUser(e, p)
  <2>1. p \notin P /\ e.tab[p] = kk.tab[p]
    BY <1>1, <1>4, UnusedHolds
  <2>2. NewUser(kk, p)
    BY <1>4, <2>1 DEF Kept, Places
  <2>3. kk.tab[p].kid \notin P
    BY <2>2 DEF NewUser, Fresh, Live
  <2> QED BY <1>1, <2>1, <2>2, <2>3 DEF NewUser
<1>5. Pool(e, P) \subseteq Pool(kk, P)
  <2> SUFFICES ASSUME NEW x \in Pool(e, P) PROVE x \in Pool(kk, P)
    OBVIOUS
  <2>1. x \in e.free
    BY <1>1, PoolIn, UnusedHolds
  <2> QED BY <1>2, <2>1, PoolIn DEF Hold
<1>6. ASSUME ~e.torn PROVE Pool(kk, P) \subseteq Pool(e, P)
  <2> SUFFICES ASSUME NEW x \in Pool(kk, P) PROVE x \in e.free
    BY PoolIn
  <2>1. CASE x \in kk.free
    BY <1>2, <2>1
  <2>2. CASE x \notin kk.free
    <3>1. PICK p \in P : x \in Hold(kk.tab[p])
      BY <2>2, PoolIn
    <3>2. {kk.tab[p].kloc, kk.tab[p].uloc} = {NULL}
      BY <1>1, <1>6, ZenonT(30)
    <3>3. x # NULL /\ x \in {kk.tab[p].kstack, kk.tab[p].ustack}
      BY <3>1, <3>2 DEF Hold
    <3> QED BY <1>2, <3>3
  <2> QED BY <2>1, <2>2
<1>7. /\ \A r \in Slots \ P : Hold(e.tab[r]) = Hold(kk.tab[r]) /\ Distinct(e.tab[r])
      /\ \A p \in P : Distinct(e.tab[p]) /\ Hold(e.tab[p]) = {}
  BY <1>1, UnusedHolds DEF Kept, Owned
<1>8. Traded(kk, e, P)
  BY <1>1, <1>5, <1>6, <1>7, ZenonT(30) DEF Traded
<1>9. Owned(e) /\ Whole(e)
  BY <1>8, Exchange DEF Kept
<1>10. Kept(e)
  BY <1>3, <1>4, <1>9 DEF Kept, Places
<1> QED BY <1>10 DEF e

(* process_release keeps families, if nobody is about to read the PCB. *)
LEMMA ReleaseFamily ==
    ASSUME NEW kk \in KernelState, Family(kk), NEW P \in SUBSET Slots,
           kk.current \notin P,
           \A p \in Slots : kk.tab[p].pc = "forked" => kk.tab[p].kid \notin P
    PROVE  Family(Release(kk, P))
<1> DEFINE e == Release(kk, P)
<1>1. /\ \A p \in P : e.tab[p] = Unused
      /\ \A p \in Slots \ P : e.tab[p] = kk.tab[p]
  BY ReleaseParts
<1> HIDE DEF e
<1>2. ~Duplicate(e)
  BY <1>1, UnusedHolds DEF Family, Duplicate
<1>3. ASSUME NEW p \in Slots, e.tab[p].pc = "forked"
      PROVE  e.tab[p].kid \in ChildrenOf(e, p)
  <2>1. p \notin P /\ e.tab[p] = kk.tab[p]
    BY <1>1, <1>3, UnusedHolds
  <2>2. kk.tab[p].kid \in ChildrenOf(kk, p) /\ kk.tab[p].kid \notin P
    BY <1>3, <2>1 DEF Family
  <2> QED BY <1>1, <2>1, <2>2 DEF ChildrenOf
<1>4. ASSUME NEW p \in Slots, e.tab[p].state = "BLOCKED"
      PROVE  ZombiesOf(e, p) = {}
  <2>1. p \notin P /\ e.tab[p] = kk.tab[p]
    BY <1>1, <1>4, UnusedHolds
  <2>2. ZombiesOf(kk, p) = {}
    BY <1>4, <2>1 DEF Family
  <2> QED BY <1>1, <2>1, <2>2, UnusedHolds DEF ZombiesOf, ChildrenOf
<1> QED BY <1>2, <1>3, <1>4 DEF Family, e

(* schedule() *)
LEMMA ScheduleKeeps ==
    ASSUME NEW kk, Sound(kk, {}), kk.tab[kk.current].state # "READY", Kept(kk)
    PROVE  /\ Kept(Schedule(kk))
           /\ Family(kk) =>
                /\ Family(Schedule(kk))
                /\ \A p \in Slots \ {Idle}, z \in Slots :
                      Live(kk.tab[p]) /\ z \in ZombiesOf(kk, p) =>
                         Schedule(kk).tab[z].state = "ZOMBIE"
<1> DEFINE e == Schedule(kk)
<1>1. PICK P : Reapt(kk, P) /\ Moves(Release(kk, P), e)
  BY ScheduleMoves
<1> HIDE DEF e
<1>2. /\ kk \in KernelState /\ IdleStands(kk)
      /\ P \in SUBSET Slots /\ kk.current \notin P
      /\ \A p \in P : kk.tab[p].state = "ZOMBIE"
  BY <1>1 DEF Sound, Reapt, Visited, Reapable
<1>3. Kept(e)
  BY <1>1, <1>2, ReleaseKeeps, MovesKeep
<1>4. ASSUME Family(kk), NEW p \in Slots \ {Idle}, NEW z \in Slots,
             Live(kk.tab[p]), kk.tab[z].ppid = kk.tab[p].pid
      PROVE  z \notin P
  BY <1>1, <1>2, <1>4, OrphanAlone DEF Reapt, Visited, Family
<1>5. ASSUME Family(kk) PROVE Family(e)
  <2>1. ASSUME NEW p \in Slots, kk.tab[p].pc = "forked" PROVE kk.tab[p].kid \notin P
    <3>1. OwnPlace(p, kk.tab[p])
      BY DEF Kept, Places
    <3>2. Live(kk.tab[p]) /\ p # Idle
      BY <1>2, <2>1, <3>1, UnusedHolds DEF OwnPlace, Live, IdleStands
    <3>3. kk.tab[p].kid \in ChildrenOf(kk, p)
      BY <1>5, <2>1 DEF Family
    <3> QED BY <1>4, <1>5, <3>2, <3>3 DEF ChildrenOf
  <2>2. Family(Release(kk, P))
    BY <1>2, <1>5, <2>1, ReleaseFamily
  <2> QED BY <1>1, <2>2, MovesFamily
<1>6. ASSUME Family(kk), NEW p \in Slots \ {Idle}, NEW z \in Slots,
             Live(kk.tab[p]), z \in ZombiesOf(kk, p)
      PROVE  e.tab[z].state = "ZOMBIE"
  <2>1. kk.tab[z].ppid = kk.tab[p].pid /\ kk.tab[z].state = "ZOMBIE"
    BY <1>6 DEF ZombiesOf, ChildrenOf
  <2>2. z \notin P
    BY <1>4, <1>6, <2>1
  <2>3. Release(kk, P).tab[z] = kk.tab[z]
    BY <1>2, <2>2, ReleaseParts
  <2> QED BY <1>1, <2>1, <2>3 DEF Moves, Moved, Live
<1> QED BY <1>3, <1>5, <1>6 DEF e
-----------------------------------------------------------------------------
(* Nobody is completing the PCB of p. *)
Unawaited(kk, p) ==
    \A r \in Slots : kk.tab[r].pc = "fields" => kk.tab[r].kid # p

(* One process changes, and with it the heap. *)
LEMMA OneKeeps ==
    ASSUME NEW kk \in KernelState, Kept(kk), NEW p \in Slots, NEW b \in PCB,
           NEW f \in SUBSET Blocks,
           OwnPlace(p, b), b.pc # "fields",
           Unawaited(kk, p) \/ (Fresh(b) /\ b.ppid = kk.tab[p].ppid),
           Distinct(b), Hold(b) \cap f = {},
           Hold(b) \cup f = Hold(kk.tab[p]) \cup kk.free
    PROVE  Kept(Update(kk, p, b, f))
<1> DEFINE e == Update(kk, p, b, f)
           P == {p}
<1>1. /\ e.tab[p] = b /\ \A r \in Slots \ {p} : e.tab[r] = kk.tab[r]
  BY Updated
<1>2. e.free = f /\ e.torn = kk.torn
  BY DEF Update, KernelState
<1> HIDE DEF e
<1>3. \A x : /\ x \in Pool(e, P) <=> x \in f \/ x \in Hold(b)
             /\ x \in Pool(kk, P) <=> x \in kk.free \/ x \in Hold(kk.tab[p])
  BY <1>1, <1>2, PoolIn
<1>4. Pool(e, P) \subseteq Pool(kk, P) /\ Pool(kk, P) \subseteq Pool(e, P)
  BY <1>3
<1>5. /\ \A r \in Slots \ P : Hold(e.tab[r]) = Hold(kk.tab[r]) /\ Distinct(e.tab[r])
      /\ \A r \in P : Distinct(e.tab[r]) /\ Hold(e.tab[r]) \cap e.free = {}
      /\ \A r, s \in P : r # s => Hold(e.tab[r]) \cap Hold(e.tab[s]) = {}
      /\ P \in SUBSET Slots
  BY <1>1, <1>2 DEF Kept, Owned
<1> HIDE DEF P
<1>6. Owned(e) /\ Whole(e)
  <2>1. Traded(kk, e, P)
    BY <1>2, <1>4, <1>5 DEF Traded
  <2> QED BY <1>5, <2>1, Exchange DEF Kept
<1>7. ASSUME NEW r \in Slots PROVE OwnPlace(r, e.tab[r])
  BY <1>1 DEF Kept, Places
<1>8. ASSUME NEW r \in Slots, e.tab[r].pc = "fields" PROVE NewUser(e, r)
  <2>1. r # p /\ e.tab[r] = kk.tab[r]
    BY <1>1, <1>8
  <2>2. NewUser(kk, r)
    BY <1>8, <2>1 DEF Kept, Places
  <2>3. CASE kk.tab[r].kid = p
    BY <1>1, <1>8, <2>1, <2>2, <2>3 DEF NewUser, Unawaited
  <2>4. CASE kk.tab[r].kid # p
    BY <1>1, <2>1, <2>2, <2>4 DEF NewUser
  <2> QED BY <2>3, <2>4
<1> QED BY <1>6, <1>7, <1>8 DEF Kept, Places, e

(* Two processes change, and with them the heap. *)
LEMMA TwoKeep ==
    ASSUME NEW kk, NEW e, Kept(kk), NEW p \in Slots, NEW s \in Slots \ {p},
           \A r \in Slots \ {p, s} : e.tab[r] = kk.tab[r],
           e.torn = kk.torn,
           OwnPlace(p, e.tab[p]), OwnPlace(s, e.tab[s]),
           e.tab[p].pc = "fields" => NewUser(e, p), e.tab[s].pc # "fields",
           \A r \in Slots \ {p} : kk.tab[r].pc = "fields" => kk.tab[r].kid \notin {p, s},
           Distinct(e.tab[p]), Distinct(e.tab[s]),
           Hold(e.tab[p]) \cap e.free = {}, Hold(e.tab[s]) \cap e.free = {},
           Hold(e.tab[p]) \cap Hold(e.tab[s]) = {},
           Hold(e.tab[p]) \cup Hold(e.tab[s]) \cup e.free
              = Hold(kk.tab[p]) \cup Hold(kk.tab[s]) \cup kk.free
    PROVE  Kept(e)
<1> DEFINE P == {p, s}
<1>1. \A x : /\ x \in Pool(e, P) <=>
                   x \in e.free \/ x \in Hold(e.tab[p]) \/ x \in Hold(e.tab[s])
             /\ x \in Pool(kk, P) <=>
                   x \in kk.free \/ x \in Hold(kk.tab[p]) \/ x \in Hold(kk.tab[s])
  BY PoolIn
<1>2. Pool(e, P) \subseteq Pool(kk, P) /\ Pool(kk, P) \subseteq Pool(e, P)
  BY <1>1, ZenonT(30)
<1>3. /\ \A r \in Slots \ P : Hold(e.tab[r]) = Hold(kk.tab[r]) /\ Distinct(e.tab[r])
      /\ \A r \in P : Distinct(e.tab[r]) /\ Hold(e.tab[r]) \cap e.free = {}
      /\ P \in SUBSET Slots
  BY DEF Kept, Owned
<1>4. \A r, t \in P : r # t => Hold(e.tab[r]) \cap Hold(e.tab[t]) = {}
  OBVIOUS
<1> HIDE DEF P
<1>5. Owned(e) /\ Whole(e)
  <2>1. Traded(kk, e, P)
    BY <1>2, <1>3, <1>4 DEF Traded
  <2> QED BY <1>3, <2>1, Exchange DEF Kept
<1>6. ASSUME NEW r \in Slots PROVE OwnPlace(r, e.tab[r])
  BY DEF Kept, Places
<1>7. ASSUME NEW r \in Slots, e.tab[r].pc = "fields" PROVE NewUser(e, r)
  <2>1. CASE r = p
    BY <1>7, <2>1
  <2>2. CASE r # p
    <3>1. r # s /\ e.tab[r] = kk.tab[r]
      BY <1>7, <2>2
    <3>2. NewUser(kk, r) /\ kk.tab[r].kid \notin {p, s}
      BY <1>7, <2>2, <3>1 DEF Kept, Places
    <3> QED BY <3>1, <3>2 DEF NewUser
  <2> QED BY <2>1, <2>2
<1> QED BY <1>5, <1>6, <1>7 DEF Kept, Places

(* What an operation must leave. *)
Follows(e) == Kept(e) /\ (Family(k) => Family(e) /\ Spares(k, e))

(* What the current process is. *)
LEMMA SelfParts ==
    ASSUME Good(k), Kept(k)
    PROVE  /\ k \in KernelState /\ Self \in Slots /\ Me \in PCB /\ Me = k.tab[Self]
           /\ Self = k.current /\ k.free \in SUBSET Blocks /\ NULL \notin Blocks
           /\ Me.state = "RUNNING" /\ OwnPlace(Self, Me) /\ Distinct(Me)
           /\ Hold(Me) \cap k.free = {}
<1>1. NULL \notin Blocks
  BY SchedulerAssumption DEF NULL, Blocks
<1> QED BY <1>1, GoodParts DEF Kept, Places, Owned, Self

(* process_create_user completes only a PCB it has not completed yet. *)
LEMMA NotFresh ==
    ASSUME NEW kk, Kept(kk), NEW p \in Slots, ~Fresh(kk.tab[p])
    PROVE  Unawaited(kk, p)
BY DEF Kept, Places, NewUser, Unawaited

(* The current process moves on inside a kernel call. *)
LEMMA MoveOn ==
    ASSUME Good(k), Kept(k), NEW b \in PCB, NEW f \in SUBSET Blocks,
           b.state = Me.state, b.pid = Me.pid, b.ppid = Me.ppid,
           b.pc \notin {"fields", "forked"},
           OwnPlace(Self, b), Distinct(b), Fresh(Me) => Fresh(b),
           Hold(b) \cap f = {}, Hold(b) \cup f = Hold(Me) \cup k.free
    PROVE  Follows(Update(k, Self, b, f))
<1> DEFINE e == Update(k, Self, b, f)
<1>1. /\ k \in KernelState /\ Self \in Slots /\ Me = k.tab[Self]
      /\ Me.state = "RUNNING"
  BY SelfParts
<1>2. Kept(e)
  <2>1. Unawaited(k, Self) \/ (Fresh(b) /\ b.ppid = k.tab[Self].ppid)
    BY <1>1, NotFresh
  <2> QED BY <1>1, <2>1, OneKeeps
<1>3. e.tab[Self] = b /\ \A r \in Slots \ {Self} : e.tab[r] = k.tab[r]
  BY <1>1, Updated
<1> HIDE DEF e
<1>4. \A r \in Slots : /\ e.tab[r].pid = k.tab[r].pid /\ e.tab[r].ppid = k.tab[r].ppid
                       /\ e.tab[r].state = k.tab[r].state
                       /\ e.tab[r].pc = "forked" =>
                             k.tab[r].pc = "forked" /\ e.tab[r].kid = k.tab[r].kid
  BY <1>1, <1>3
<1>5. Family(k) => Family(e)
  BY <1>4, FamilyFrame
<1>6. Spares(k, e)
  BY <1>4 DEF Spares
<1> QED BY <1>2, <1>5, <1>6 DEF Follows, e

(* process_create_user keeps the user stack in a local variable. *)
LEMMA CreateUserStackKeeps ==
    ASSUME Good(k), Kept(k), create_user_stack
    PROVE  Follows(k')
<1> DEFINE m == Kmalloc(k.free)
           b == [Me EXCEPT !.uloc = m, !.pc = "ucreate"]
           f == k.free \ {m}
<1>1. /\ Me \in PCB /\ k.free \in SUBSET Blocks /\ NULL \notin Blocks
      /\ Me.state = "RUNNING" /\ OwnPlace(Self, Me) /\ Distinct(Me)
      /\ Hold(Me) \cap k.free = {}
  BY SelfParts
<1>2. Me.pc = "run" /\ Self = Shell /\ k.free # {} /\ k' = Update(k, Self, b, f)
  BY DEF create_user_stack, At
<1>3. m \in k.free
  BY <1>1, <1>2, KmallocFound
<1> HIDE DEF m
<1>4. /\ b \in PCB /\ b.state = Me.state /\ b.pid = Me.pid /\ b.ppid = Me.ppid
      /\ b.pc = "ucreate" /\ b.uloc = m /\ b.kloc = Me.kloc
      /\ b.kstack = Me.kstack /\ b.ustack = Me.ustack
      /\ b.parent_waiting = Me.parent_waiting
  BY <1>1, <1>3, ZenonT(30) DEF PCB, Points
<1> HIDE DEF b
<1>5. Me.kloc = NULL /\ Me.uloc = NULL /\ m # NULL /\ m \notin Hold(Me)
  BY <1>1, <1>2, <1>3 DEF OwnPlace
<1>6. OwnPlace(Self, b)
  BY <1>1, <1>2, <1>4, <1>5 DEF OwnPlace
<1>7. Distinct(b) /\ Hold(b) = Hold(Me) \cup {m}
  BY <1>1, <1>4, <1>5 DEF Distinct, Hold
<1>8. /\ f \in SUBSET Blocks /\ Hold(b) \cap f = {}
      /\ Hold(b) \cup f = Hold(Me) \cup k.free
  BY <1>1, <1>3, <1>7
<1>9. ~Fresh(Me)
  BY <1>2 DEF Fresh
<1> HIDE DEF f
<1> QED BY <1>2, <1>4, <1>6, <1>7, <1>8, <1>9, MoveOn

(* process_create keeps the kernel stack in a local variable, or takes the *)
(* error path.                                                             *)
LEMMA CreateKernelStackKeeps ==
    ASSUME Good(k), Kept(k), create_kernel_stack
    PROVE  Follows(k')
<1>1. /\ Me \in PCB /\ k.free \in SUBSET Blocks /\ NULL \notin Blocks
      /\ Me.state = "RUNNING" /\ OwnPlace(Self, Me) /\ Distinct(Me)
      /\ Hold(Me) \cap k.free = {}
  BY SelfParts
<1>2. Me.pc \in {"run", "ucreate"} /\ Self = Shell
  BY DEF create_kernel_stack, At
<1>3. ~Fresh(Me) /\ Me.kloc = NULL
  BY <1>1, <1>2 DEF Fresh, OwnPlace
<1>4. CASE k.free # {}
  <2> DEFINE m == Kmalloc(k.free)
             b == [Me EXCEPT !.kloc = m, !.pc = "create"]
             f == k.free \ {m}
  <2>1. m \in k.free
    BY <1>1, <1>4, KmallocFound
  <2>2. k' = Update(k, Self, b, f)
    BY <1>4 DEF create_kernel_stack
  <2> HIDE DEF m
  <2>3. /\ b \in PCB /\ b.state = Me.state /\ b.pid = Me.pid /\ b.ppid = Me.ppid
        /\ b.pc = "create" /\ b.uloc = Me.uloc /\ b.kloc = m
        /\ b.kstack = Me.kstack /\ b.ustack = Me.ustack
        /\ b.parent_waiting = Me.parent_waiting
    BY <1>1, <2>1, ZenonT(30) DEF PCB, Points
  <2> HIDE DEF b
  <2>4. m # NULL /\ m \notin Hold(Me)
    BY <1>1, <2>1
  <2>5. OwnPlace(Self, b)
    BY <1>1, <1>2, <2>3, <2>4 DEF OwnPlace
  <2>6. Distinct(b) /\ Hold(b) = Hold(Me) \cup {m}
    BY <1>1, <1>3, <2>3, <2>4 DEF Distinct, Hold
  <2>7. /\ f \in SUBSET Blocks /\ Hold(b) \cap f = {}
        /\ Hold(b) \cup f = Hold(Me) \cup k.free
    BY <1>1, <2>1, <2>6
  <2> HIDE DEF f
  <2> QED BY <1>3, <2>2, <2>3, <2>5, <2>6, <2>7, MoveOn
<1>5. CASE k.free = {}
  <2> DEFINE b == [Me EXCEPT !.pc = "unwind"]
  <2>1. k' = Update(k, Self, b, k.free)
    BY <1>5 DEF create_kernel_stack
  <2>2. /\ b \in PCB /\ b.state = Me.state /\ b.pid = Me.pid /\ b.ppid = Me.ppid
        /\ b.pc = "unwind" /\ b.uloc = Me.uloc /\ b.kloc = Me.kloc
        /\ b.kstack = Me.kstack /\ b.ustack = Me.ustack
        /\ b.parent_waiting = Me.parent_waiting
    BY <1>1 DEF PCB, Points
  <2> HIDE DEF b
  <2>3. OwnPlace(Self, b)
    BY <1>1, <1>2, <2>2 DEF OwnPlace
  <2>4. Distinct(b) /\ Hold(b) = Hold(Me)
    BY <1>1, <2>2 DEF Distinct, Hold
  <2> QED BY <1>1, <1>3, <2>1, <2>2, <2>3, <2>4, MoveOn
<1> QED BY <1>4, <1>5

(* The error paths free the stacks of the local variables. *)
LEMMA UnwindKeeps ==
    ASSUME Good(k), Kept(k), unwind
    PROVE  Follows(k')
<1>1. /\ Me \in PCB /\ k.free \in SUBSET Blocks /\ NULL \notin Blocks
      /\ Me.state = "RUNNING" /\ OwnPlace(Self, Me) /\ Distinct(Me)
      /\ Hold(Me) \cap k.free = {}
  BY SelfParts
<1>2. Me.pc = "unwind" /\ Unwound \in {"run", "user"}
  BY DEF unwind, At, Unwound
<1>3. Me.kloc \in Blocks \cup {NULL} /\ Me.uloc \in Blocks \cup {NULL} /\ ~Fresh(Me)
  BY <1>1, <1>2 DEF PCB, Fresh
<1>4. CASE Me.kloc # NULL
  <2> DEFINE pc == IF Me.uloc = NULL THEN Unwound ELSE Me.pc
             b  == [Me EXCEPT !.kloc = NULL, !.pc = pc]
             f  == k.free \cup {Me.kloc}
  <2>1. k' = Update(k, Self, b, f)
    BY <1>4 DEF unwind
  <2>2. pc \in {"run", "user", "unwind"} /\ (Me.uloc # NULL => pc = "unwind")
    BY <1>2
  <2> HIDE DEF pc
  <2>3. /\ b \in PCB /\ b.state = Me.state /\ b.pid = Me.pid /\ b.ppid = Me.ppid
        /\ b.pc = pc /\ b.uloc = Me.uloc /\ b.kloc = NULL
        /\ b.kstack = Me.kstack /\ b.ustack = Me.ustack
        /\ b.parent_waiting = Me.parent_waiting
    BY <1>1, <2>2, ZenonT(30) DEF PCB, Points
  <2> HIDE DEF b
  <2>4. OwnPlace(Self, b) /\ b.pc \notin {"fields", "forked"}
    BY <1>1, <1>2, <2>2, <2>3 DEF OwnPlace
  <2>5. Distinct(b) /\ Hold(b) = Hold(Me) \ {Me.kloc} /\ Me.kloc \in Hold(Me)
    BY <1>1, <1>4, <2>3 DEF Distinct, Hold
  <2>6. /\ f \in SUBSET Blocks /\ Hold(b) \cap f = {}
        /\ Hold(b) \cup f = Hold(Me) \cup k.free
    BY <1>1, <1>3, <1>4, <2>5
  <2> HIDE DEF f
  <2> QED BY <1>3, <2>1, <2>3, <2>4, <2>5, <2>6, MoveOn
<1>5. CASE Me.kloc = NULL
  <2> DEFINE b == [Me EXCEPT !.uloc = NULL, !.pc = Unwound]
             f == k.free \cup ({Me.uloc} \ {NULL})
  <2>1. k' = Update(k, Self, b, f)
    BY <1>5 DEF unwind
  <2>2. /\ b \in PCB /\ b.state = Me.state /\ b.pid = Me.pid /\ b.ppid = Me.ppid
        /\ b.pc = Unwound /\ b.uloc = NULL /\ b.kloc = NULL
        /\ b.kstack = Me.kstack /\ b.ustack = Me.ustack
        /\ b.parent_waiting = Me.parent_waiting
    BY <1>1, <1>2, <1>5, ZenonT(30) DEF PCB, Points
  <2> HIDE DEF b
  <2>3. OwnPlace(Self, b) /\ b.pc \notin {"fields", "forked"}
    BY <1>1, <1>2, <2>2 DEF OwnPlace
  <2>4. Distinct(b)
    BY <1>1, <2>2 DEF Distinct
  <2>5. /\ f \in SUBSET Blocks /\ Hold(b) \cap f = {}
        /\ Hold(b) \cup f = Hold(Me) \cup k.free
    BY <1>1, <1>3, <1>5, <2>2 DEF Hold, Distinct
  <2> HIDE DEF f
  <2> QED BY <1>3, <2>1, <2>2, <2>3, <2>4, <2>5, MoveOn
<1> QED BY <1>4, <1>5

(* Two PCBs with the same stacks. *)
SameStacks(b, c) ==
    b.kstack = c.kstack /\ b.ustack = c.ustack /\ b.kloc = c.kloc /\ b.uloc = c.uloc

(* They refer to the same blocks. *)
LEMMA SameHold ==
    ASSUME NEW b, NEW c, SameStacks(b, c)
    PROVE  Hold(b) = Hold(c) /\ (Distinct(c) => Distinct(b))
BY DEF SameStacks, Hold, Distinct

(* The current process moves on and its stacks stay as they are. *)
LEMMA MoveAlong ==
    ASSUME Good(k), Kept(k), NEW b \in PCB, SameStacks(b, Me),
           b.state = Me.state, b.pid = Me.pid, b.ppid = Me.ppid,
           b.pc \notin {"fields", "forked"},
           OwnPlace(Self, b), Fresh(Me) => Fresh(b)
    PROVE  Follows(Update(k, Self, b, k.free))
<1>1. /\ k.free \in SUBSET Blocks /\ Distinct(Me) /\ Hold(Me) \cap k.free = {}
  BY SelfParts
<1>2. Distinct(b) /\ Hold(b) = Hold(Me)
  BY <1>1, SameHold
<1> QED BY <1>1, <1>2, MoveOn

(* user_process_trampoline. *)
LEMMA TrampolineKeeps ==
    ASSUME Good(k), Kept(k), user_process_trampoline
    PROVE  Follows(k')
<1> DEFINE pc == IF Me.user_entry THEN "user" ELSE "wild"
           b  == [Me EXCEPT !.pc = pc]
<1>1. Me \in PCB /\ Me.state = "RUNNING" /\ OwnPlace(Self, Me)
  BY SelfParts
<1>2. Me.pc = "tramp" /\ k' = Update(k, Self, b, k.free)
  BY DEF user_process_trampoline, At
<1>3. pc \in {"user", "wild"} /\ (~Me.user_entry => pc = "wild")
  OBVIOUS
<1> HIDE DEF pc
<1>4. /\ b \in PCB /\ b.state = Me.state /\ b.pid = Me.pid /\ b.ppid = Me.ppid
      /\ b.pc = pc /\ SameStacks(b, Me) /\ b.user_entry = Me.user_entry
  BY <1>1, <1>3 DEF PCB, Points, SameStacks
<1> HIDE DEF b
<1>5. OwnPlace(Self, b)
  BY <1>1, <1>2, <1>3, <1>4 DEF OwnPlace, SameStacks
<1>6. Fresh(Me) => Fresh(b)
  BY <1>1, <1>3, <1>4 DEF Fresh, Live, SameStacks
<1>7. b.pc \notin {"fields", "forked"}
  BY <1>3, <1>4
<1> QED BY <1>2, <1>4, <1>5, <1>6, <1>7, MoveAlong

(* The end of sys_fork. *)
LEMMA ForkReturnKeeps ==
    ASSUME Good(k), Kept(k), sys_fork_return
    PROVE  Follows(k')
<1> DEFINE b == [Me EXCEPT !.kid = None, !.pc = "user"]
<1>1. Me \in PCB /\ Me.state = "RUNNING" /\ OwnPlace(Self, Me)
  BY SelfParts
<1>2. Me.pc = "forked" /\ k' = Update(k, Self, b, k.free)
  BY DEF sys_fork_return, At
<1>3. /\ b \in PCB /\ b.state = Me.state /\ b.pid = Me.pid /\ b.ppid = Me.ppid
      /\ b.pc = "user" /\ SameStacks(b, Me)
  BY <1>1, ZenonT(30) DEF PCB, Points, SameStacks
<1> HIDE DEF b
<1>4. OwnPlace(Self, b) /\ ~Fresh(Me)
  BY <1>1, <1>2, <1>3 DEF OwnPlace, SameStacks, Fresh
<1> QED BY <1>2, <1>3, <1>4, MoveAlong

(* A process resumed inside process_wait. *)
LEMMA WaitResumeKeeps ==
    ASSUME Good(k), Kept(k), process_wait_resume
    PROVE  Follows(k')
<1> DEFINE b == [Me EXCEPT !.parent_waiting = FALSE, !.pc = "rewait"]
<1>1. Me \in PCB /\ Me.state = "RUNNING" /\ OwnPlace(Self, Me)
  BY SelfParts
<1>2. Me.pc = "resume" /\ k' = Update(k, Self, b, k.free)
  BY DEF process_wait_resume, At
<1>3. /\ b \in PCB /\ b.state = Me.state /\ b.pid = Me.pid /\ b.ppid = Me.ppid
      /\ b.pc = "rewait" /\ SameStacks(b, Me)
  BY <1>1, ZenonT(30) DEF PCB, Points, SameStacks
<1> HIDE DEF b
<1>4. OwnPlace(Self, b) /\ ~Fresh(Me)
  BY <1>1, <1>2, <1>3 DEF OwnPlace, SameStacks, Fresh
<1> QED BY <1>2, <1>3, <1>4, MoveAlong

(* The current process sleeps or blocks, and another one runs. *)
LEMMA StopKeeps ==
    ASSUME Good(k), Kept(k), NEW b \in PCB, SameStacks(b, Me),
           b.state \in {"SLEEPING", "BLOCKED"}, b.pid = Me.pid, b.ppid = Me.ppid,
           Me.pc \notin {"idle", "tramp", "wild"}, b.pc \notin {"fields", "forked"},
           OwnPlace(Self, b), b.state = "BLOCKED" => ZombiesOf(k, Self) = {}
    PROVE  Follows(Schedule(Update(k, Self, b, k.free)))
<1> DEFINE u == Update(k, Self, b, k.free)
<1>1. /\ k \in KernelState /\ Self \in Slots /\ Me = k.tab[Self]
      /\ k.free \in SUBSET Blocks /\ Distinct(Me) /\ Hold(Me) \cap k.free = {}
      /\ Me.state = "RUNNING"
  BY SelfParts
<1>2. Kept(u)
  <2>1. Distinct(b) /\ Hold(b) = Hold(Me)
    BY <1>1, SameHold
  <2>2. Unawaited(k, Self)
    BY <1>1, NotFresh DEF Fresh
  <2> QED BY <1>1, <2>1, <2>2, OneKeeps
<1>3. u.tab[Self] = b /\ \A r \in Slots \ {Self} : u.tab[r] = k.tab[r]
  BY <1>1, Updated
<1>4. Sound(u, {}) /\ u.tab[u.current].state # "READY"
  <2>1. Sound(u, {}) /\ u.current = Self
    BY <1>1, GoodStop
  <2> QED BY <1>3, <2>1
<1> HIDE DEF u
<1>5. \A r \in Slots : /\ u.tab[r].pid = k.tab[r].pid /\ u.tab[r].ppid = k.tab[r].ppid
                       /\ u.tab[r].state = "UNUSED" <=> k.tab[r].state = "UNUSED"
                       /\ u.tab[r].state = "ZOMBIE" <=> k.tab[r].state = "ZOMBIE"
                       /\ u.tab[r].pc = "forked" =>
                             k.tab[r].pc = "forked" /\ u.tab[r].kid = k.tab[r].kid
                       /\ u.tab[r].state = "BLOCKED" =>
                             k.tab[r].state = "BLOCKED" \/ ZombiesOf(k, r) = {}
  BY <1>1, <1>3
<1>6. Kept(Schedule(u))
  BY <1>2, <1>4, ScheduleKeeps
<1>7. ASSUME Family(k) PROVE Family(Schedule(u)) /\ Spares(k, Schedule(u))
  <2>1. Family(u)
    BY <1>5, <1>7, FamilyFrame
  <2>2. /\ Family(Schedule(u))
        /\ \A p \in Slots \ {Idle}, z \in Slots :
              Live(u.tab[p]) /\ z \in ZombiesOf(u, p) =>
                 Schedule(u).tab[z].state = "ZOMBIE"
    BY <1>2, <1>4, <2>1, ScheduleKeeps
  <2>3. \A p \in Slots : /\ ZombiesOf(u, p) = ZombiesOf(k, p)
                         /\ Live(u.tab[p]) <=> Live(k.tab[p])
    BY <1>5 DEF ZombiesOf, ChildrenOf, Live
  <2> QED BY <2>2, <2>3 DEF Spares
<1> QED BY <1>6, <1>7 DEF Follows, u

(* process_sleep. *)
LEMMA SleepKeeps ==
    ASSUME Good(k), Kept(k), NEW ticks \in Nat, process_sleep(ticks)
    PROVE  Follows(k')
<1> DEFINE b == [Me EXCEPT !.state = "SLEEPING", !.sleep_left = ticks]
<1>1. Me \in PCB /\ Me.state = "RUNNING" /\ OwnPlace(Self, Me)
  BY SelfParts
<1>2. Me.pc \in {"run", "user"} /\ k' = Schedule(Update(k, Self, b, k.free))
  BY DEF process_sleep, At
<1>3. /\ b \in PCB /\ b.state = "SLEEPING" /\ b.pid = Me.pid /\ b.ppid = Me.ppid
      /\ b.pc = Me.pc /\ SameStacks(b, Me)
  BY <1>1, ZenonT(30) DEF PCB, ProcState, SameStacks
<1> HIDE DEF b
<1>4. OwnPlace(Self, b)
  BY <1>1, <1>2, <1>3 DEF OwnPlace, SameStacks
<1>5. Me.pc \notin {"idle", "tramp", "wild"} /\ b.pc \notin {"fields", "forked"}
  BY <1>2, <1>3
<1> QED BY <1>2, <1>3, <1>4, <1>5, StopKeeps

(* scheduler_yield. *)
LEMMA YieldKeeps ==
    ASSUME Good(k), Kept(k), scheduler_yield
    PROVE  Follows(k')
<1> DEFINE e == [k EXCEPT !.quantum_left = 0]
<1>1. /\ Sound(k, {}) /\ k \in KernelState /\ Me.state = "RUNNING"
      /\ Me = k.tab[k.current]
  BY GoodParts DEF Self
<1>2. k' = Schedule(e)
  BY DEF scheduler_yield
<1>3. /\ e \in KernelState /\ e.tab = k.tab /\ e.queue = k.queue
      /\ e.current = k.current /\ e.free = k.free /\ e.torn = k.torn
  <2>1. 0 \in 0 .. SCHED_QUANTUM_TICKS
    BY SchedulerAssumption
  <2> QED BY <1>1, <2>1, ZenonT(30) DEF KernelState
<1> HIDE DEF e
<1>4. Sound(e, {})
  <2>1. QueuesMatch(e, {}) /\ IdleStands(e)
    BY <1>1, <1>3, QuietChange DEF IdleStands, Sound
  <2> QED BY <1>1, <1>3, <2>1 DEF Sound
<1>5. Moves(k, e)
  BY <1>3, MovesNot
<1>6. Kept(e) /\ (Family(k) => Family(e))
  BY <1>5, MovesKeep, MovesFamily
<1>7. e.tab[e.current].state # "READY"
  BY <1>1, <1>3
<1>8. Kept(k')
  BY <1>2, <1>4, <1>6, <1>7, ScheduleKeeps
<1>9. ASSUME Family(k) PROVE Family(k') /\ Spares(k, k')
  <2>1. /\ Family(Schedule(e))
        /\ \A p \in Slots \ {Idle}, z \in Slots :
              Live(e.tab[p]) /\ z \in ZombiesOf(e, p) =>
                 Schedule(e).tab[z].state = "ZOMBIE"
    BY <1>4, <1>6, <1>7, <1>9, ScheduleKeeps
  <2>2. \A p \in Slots : ZombiesOf(e, p) = ZombiesOf(k, p)
    BY <1>3 DEF ZombiesOf, ChildrenOf
  <2> QED BY <1>2, <1>3, <2>1, <2>2 DEF Spares
<1> QED BY <1>8, <1>9 DEF Follows

(* The timer interrupt. *)
LEMMA TimerKeeps ==
    ASSUME Good(k), Kept(k), timer_handler
    PROVE  Follows(k')
<1>1. k' = SchedulerTick(k)
  BY DEF timer_handler
<1>2. PICK m : /\ Moves(k, m) /\ Sound(m, {})
               /\ m.current = k.current /\ m.tab[m.current].state = "RUNNING"
               /\ SchedulerTick(k) \in {m, Schedule(m)}
  BY TickMoves DEF Good
<1>3. Kept(m) /\ (Family(k) => Family(m))
  BY <1>2, MovesKeep, MovesFamily
<1>4. \A p \in Slots : /\ k.tab[p].state = "ZOMBIE" => m.tab[p].state = "ZOMBIE"
                       /\ Live(k.tab[p]) => Live(m.tab[p])
  BY <1>2 DEF Moves, Moved, Live
<1>5. CASE k' = m
  BY <1>3, <1>4, <1>5 DEF Follows, Spares
<1>6. CASE k' = Schedule(m)
  <2>1. Kept(k')
    BY <1>2, <1>3, <1>6, ScheduleKeeps
  <2>2. ASSUME Family(k) PROVE Family(k') /\ Spares(k, k')
    <3>1. /\ Family(Schedule(m))
          /\ \A p \in Slots \ {Idle}, z \in Slots :
                Live(m.tab[p]) /\ z \in ZombiesOf(m, p) =>
                   Schedule(m).tab[z].state = "ZOMBIE"
      BY <1>2, <1>3, <2>2, ScheduleKeeps
    <3>2. \A p \in Slots : ZombiesOf(k, p) \subseteq ZombiesOf(m, p)
      BY <1>2, <1>4, ZenonT(30) DEF ZombiesOf, ChildrenOf, Moves, Moved, SameContext, Live
    <3> QED BY <1>4, <1>6, <3>1, <3>2 DEF Spares
  <2> QED BY <2>1, <2>2 DEF Follows
<1> QED BY <1>1, <1>2, <1>5, <1>6

(* Only process p changed, from alive to a zombie. *)
Buried(kk, p, z) ==
    /\ Live(kk.tab[p]) /\ z.tab[p].state = "ZOMBIE" /\ z.tab[p].pc = "dead"
    /\ z.tab[p].pid = kk.tab[p].pid /\ z.tab[p].ppid = kk.tab[p].ppid
    /\ \A r \in Slots \ {p} : z.tab[r] = kk.tab[r]

(* What its death leaves of the others. *)
Survived(kk, p, e) ==
    \A r \in Slots : /\ kk.tab[r].state = "ZOMBIE" => e.tab[r].state = "ZOMBIE"
                     /\ e.tab[r].pid = kk.tab[r].pid
                     /\ e.tab[r].ppid = kk.tab[r].ppid
                     /\ r # p /\ Live(kk.tab[r]) => Live(e.tab[r])

(* A process becomes a zombie. *)
LEMMA BuryKeeps ==
    ASSUME NEW kk \in KernelState, Kept(kk), NEW p \in Slots, Live(kk.tab[p]),
           Unawaited(kk, p)
    PROVE  LET z == Bury(kk, p)
           IN  Kept(z) /\ Buried(kk, p, z)
<1> DEFINE c == kk.tab[p]
           b == [c EXCEPT !.state = "ZOMBIE", !.pc = "dead", !.ustack = NULL]
           f == kk.free \cup ({c.ustack} \ {NULL})
           z == Update(kk, p, b, f)
<1>1. /\ c \in PCB /\ kk.free \in SUBSET Blocks /\ Distinct(c)
      /\ Hold(c) \cap kk.free = {} /\ OwnPlace(p, c) /\ Live(c)
  BY StateParts DEF Kept, Places, Owned
<1>2. Bury(kk, p) = z
  BY DEF Bury
<1> HIDE DEF c
<1>3. /\ b \in PCB /\ b.state = "ZOMBIE" /\ b.pc = "dead" /\ b.ustack = NULL
      /\ b.pid = c.pid /\ b.ppid = c.ppid /\ b.kstack = c.kstack
      /\ b.kloc = c.kloc /\ b.uloc = c.uloc
  BY <1>1, ZenonT(30) DEF PCB, ProcState, Points
<1>4. c.ustack \in Blocks \cup {NULL}
  BY <1>1 DEF PCB
<1> HIDE DEF b
<1>5. OwnPlace(p, b)
  BY <1>1, <1>3 DEF OwnPlace, Live
<1>6. Distinct(b)
  BY <1>1, <1>3 DEF Distinct
<1>7. /\ f \in SUBSET Blocks /\ Hold(b) \cap f = {}
      /\ Hold(b) \cup f = Hold(c) \cup kk.free
  BY <1>1, <1>3, <1>4 DEF Hold, Distinct
<1> HIDE DEF f
<1>8. Kept(z)
  BY <1>3, <1>5, <1>6, <1>7, OneKeeps DEF c
<1>9. z.tab[p] = b /\ \A r \in Slots \ {p} : z.tab[r] = kk.tab[r]
  BY <1>3, <1>7, Updated
<1> HIDE DEF z
<1>10. Buried(kk, p, z)
  BY <1>1, <1>3, <1>9 DEF c, Buried
<1> QED BY <1>2, <1>8, <1>10

(* The same pids and parents in the same slots. *)
SameIds(kk, e) ==
    \A r \in Slots : /\ e.tab[r].pid = kk.tab[r].pid /\ e.tab[r].ppid = kk.tab[r].ppid
                     /\ e.tab[r].state = "UNUSED" <=> kk.tab[r].state = "UNUSED"

(* They are as unique as before. *)
LEMMA StillUnique ==
    ASSUME NEW kk, NEW e, SameIds(kk, e), ~Duplicate(kk)
    PROVE  ~Duplicate(e)
BY DEF SameIds, Duplicate

(* Everybody has the children they had. *)
LEMMA SameChildren ==
    ASSUME NEW kk, NEW e, SameIds(kk, e), NEW r \in Slots
    PROVE  ChildrenOf(e, r) = ChildrenOf(kk, r)
BY DEF SameIds, ChildrenOf

(* Its parent is woken if it waits. *)
LEMMA WakeKeeps ==
    ASSUME NEW kk, NEW p \in Slots, NEW z, Sound(z, {}), Kept(z), Buried(kk, p, z)
    PROVE  LET e == WakeParent(z, p)
           IN  Kept(e) /\ (Family(kk) => Family(e)) /\ Survived(kk, p, e)
<1> DEFINE e == WakeParent(z, p)
           w == ByPid(z, z.tab[p].ppid)
           Roused == w \in Slots /\ z.tab[w].parent_waiting => e.tab[w].state # "BLOCKED"
<1>1. Moves(z, e) /\ Roused
  BY WakeParentMoves, ZenonT(30)
<1> HIDE DEF e, Roused
<1>2. Kept(e)
  BY <1>1, MovesKeep
<1>3. \A r \in Slots : /\ z.tab[r].pid = kk.tab[r].pid
                       /\ z.tab[r].ppid = kk.tab[r].ppid
                       /\ z.tab[r].state = "UNUSED" <=> kk.tab[r].state = "UNUSED"
                       /\ z.tab[r].pc = "forked" =>
                             kk.tab[r].pc = "forked" /\ z.tab[r].kid = kk.tab[r].kid
                       /\ z.tab[r].state = "BLOCKED" => kk.tab[r].state = "BLOCKED"
                       /\ z.tab[r].state = "ZOMBIE" => r = p \/ kk.tab[r].state = "ZOMBIE"
                       /\ kk.tab[r].state = "ZOMBIE" => z.tab[r].state = "ZOMBIE"
                       /\ r # p /\ Live(kk.tab[r]) => Live(z.tab[r])
  BY DEF Live, Buried
<1>4. \A r \in Slots : /\ e.tab[r].pid = z.tab[r].pid
                       /\ e.tab[r].ppid = z.tab[r].ppid
                       /\ e.tab[r].state = "UNUSED" <=> z.tab[r].state = "UNUSED"
                       /\ e.tab[r].state = "ZOMBIE" <=> z.tab[r].state = "ZOMBIE"
                       /\ e.tab[r].pc = "forked" =>
                             z.tab[r].pc = "forked" /\ e.tab[r].kid = z.tab[r].kid
                       /\ e.tab[r].state = "BLOCKED" => z.tab[r].state = "BLOCKED"
                       /\ Live(z.tab[r]) => Live(e.tab[r])
  BY <1>1, ZenonT(30) DEF Moves, Moved, SameContext, Live
<1>5. ASSUME Family(kk) PROVE Family(e)
  <2>0. SameIds(kk, z) /\ SameIds(z, e)
    <3>1. SameIds(kk, z)
      BY <1>3 DEF SameIds
    <3>2. SameIds(z, e)
      BY <1>4 DEF SameIds
    <3> QED BY <3>1, <3>2
  <2>1. ~Duplicate(e) /\ ~Duplicate(z)
    <3>1. ~Duplicate(kk)
      BY <1>5 DEF Family
    <3> QED BY <2>0, <3>1, StillUnique
  <2>2. \A r \in Slots : ChildrenOf(e, r) = ChildrenOf(kk, r)
    BY <2>0, SameChildren
  <2>3. \A r \in Slots : e.tab[r].pc = "forked" => e.tab[r].kid \in ChildrenOf(e, r)
    BY <1>3, <1>4, <1>5, <2>2, ZenonT(30) DEF Family
  <2>4. ASSUME NEW r \in Slots, e.tab[r].state = "BLOCKED", NEW c \in ZombiesOf(e, r)
        PROVE  FALSE
    <3>1. z.tab[r].state = "BLOCKED" /\ ZombiesOf(kk, r) = {}
      BY <1>3, <1>4, <1>5, <2>4, ZenonT(30) DEF Family
    <3>2. c \in ChildrenOf(kk, r) /\ e.tab[c].state = "ZOMBIE" /\ c \in Slots
      BY <2>2, <2>4, ZenonT(30) DEF ZombiesOf, ChildrenOf
    <3>3. c = p
      <4>1. c = p \/ kk.tab[c].state = "ZOMBIE"
        BY <1>3, <1>4, <3>2, ZenonT(30)
      <4>2. c \notin ZombiesOf(kk, r)
        BY <3>1, ZenonT(30)
      <4> QED BY <3>2, <4>1, <4>2, ZenonT(30) DEF ZombiesOf
    <3>4. z.tab[r].pid = z.tab[p].ppid
      BY <1>3, <3>2, <3>3, ZenonT(30) DEF ChildrenOf
    <3>5. w \in Slots /\ z.tab[w].state # "UNUSED" /\ z.tab[w].pid = z.tab[p].ppid
      BY <3>1, <3>4, ByPidFound
    <3> HIDE DEF w
    <3>6. w = r
      BY <2>1, <3>1, <3>4, <3>5 DEF Duplicate
    <3>7. z.tab[r].parent_waiting
      BY <3>1, ZenonT(30) DEF Kept, Places, OwnPlace
    <3> QED BY <1>1, <2>4, <3>5, <3>6, <3>7, ZenonT(30) DEF Roused
  <2> QED BY <2>1, <2>3, <2>4, ZenonT(30) DEF Family
<1>6. Survived(kk, p, e)
  BY <1>3, <1>4, ZenonT(30) DEF Survived
<1> QED BY <1>2, <1>5, <1>6 DEF e

(* process_exit: the zombie gives up its user stack and its parent is      *)
(* woken before schedule() looks for orphans.                              *)
LEMMA ExitKeeps ==
    ASSUME Good(k), Kept(k), process_exit
    PROVE  Follows(k')
<1> DEFINE z == Bury(k, Self)
           w == WakeParent(z, Self)
<1>1. /\ k \in KernelState /\ Self \in Slots /\ Me = k.tab[Self]
      /\ Me.state = "RUNNING" /\ Me \in PCB /\ k.free \in SUBSET Blocks
      /\ Self = k.current
  BY SelfParts
<1>2. Me.pc \in {"run", "user"} /\ k' = Schedule(w)
  BY DEF process_exit, At
<1>3. Live(k.tab[Self]) /\ Unawaited(k, Self)
  BY <1>1, <1>2, NotFresh DEF Live, Fresh
<1>4. Kept(z) /\ Buried(k, Self, z)
  BY <1>1, <1>3, BuryKeeps
<1>5. Sound(z, {}) /\ z.current = Self
  <2> DEFINE b == [Me EXCEPT !.state = "ZOMBIE", !.pc = "dead", !.ustack = NULL]
             f == k.free \cup ({Me.ustack} \ {NULL})
  <2>1. z = Update(k, Self, b, f)
    BY <1>1 DEF Bury
  <2>2. b \in PCB /\ b.state = "ZOMBIE" /\ b.pid = Me.pid
    BY <1>1, BuryPCB, ZenonT(30)
  <2>3. Me.ustack \in Blocks \cup {NULL}
    BY <1>1 DEF PCB
  <2>4. f \in SUBSET Blocks
    BY <1>1, <2>3
  <2> HIDE DEF b, f, z
  <2>5. Me.pc # "idle" /\ b.state \notin {"READY", "RUNNING", "UNUSED"}
    BY <1>2, <2>2
  <2> QED BY <2>1, <2>2, <2>4, <2>5, GoodStop
<1> HIDE DEF z
<1>6. Kept(w) /\ (Family(k) => Family(w)) /\ Survived(k, Self, w)
  <2>1. Self \in Slots
    BY <1>1
  <2> QED BY <1>4, <1>5, <2>1, WakeKeeps, Zenon
<1>7. Sound(w, {}) /\ w.tab[w.current].state = "ZOMBIE"
  <2>1. z.tab[Self].state = "ZOMBIE"
    BY <1>4 DEF Buried
  <2> QED BY <1>5, <2>1, WakeParentSound
<1> HIDE DEF w
<1>8. Kept(k')
  BY <1>2, <1>6, <1>7, ScheduleKeeps
<1>9. ASSUME Family(k) PROVE Family(k') /\ Spares(k, k')
  <2>1. /\ Family(Schedule(w))
        /\ \A p \in Slots \ {Idle}, c \in Slots :
              Live(w.tab[p]) /\ c \in ZombiesOf(w, p) =>
                 Schedule(w).tab[c].state = "ZOMBIE"
    BY <1>6, <1>7, <1>9, ScheduleKeeps
  <2>2. \A p \in Slots : ZombiesOf(k, p) \subseteq ZombiesOf(w, p)
    BY <1>6 DEF ZombiesOf, ChildrenOf, Survived
  <2>3. process_exit
    OBVIOUS
  <2> QED BY <1>1, <1>2, <1>6, <2>1, <2>2, <2>3 DEF Spares, Survived
<1> QED BY <1>8, <1>9 DEF Follows

(* process_kill: the victim is not the process whose PCB the shell is      *)
(* completing, as the shell is the caller.                                 *)
LEMMA KillKeeps ==
    ASSUME Good(k), Kept(k), NEW x \in Nat \ {0}, process_kill(x)
    PROVE  Follows(k')
<1> DEFINE p == ByPid(k, x)
           d == Dequeue(k, p)
           z == Bury(d, p)
           w == WakeParent(z, p)
<1>1. /\ k \in KernelState /\ Self \in Slots /\ Me = k.tab[Self]
      /\ Sound(k, {}) /\ IdleStands(k)
  BY GoodParts
<1>2. /\ p # None /\ k' = w /\ Me.pc = "run" /\ Self = Shell
      /\ k.tab[p].state # "ZOMBIE"
  BY DEF process_kill, At
<1>3. p \in Slots /\ k.tab[p].state # "UNUSED" /\ k.tab[p].pid = x
  BY <1>2, ByPidFound
<1>4. p # Idle /\ Live(k.tab[p])
  BY <1>1, <1>2, <1>3 DEF IdleStands, Live
<1> HIDE DEF p
<1>5. /\ Sound(d, {p}) /\ d.tab = k.tab /\ d.current = k.current
      /\ d.free = k.free /\ d.torn = k.torn
  <2>1. Sound(d, {p})
    BY <1>1, <1>3, DequeueSound
  <2>2. PICK s : d = [k EXCEPT !.queue = s]
    BY <1>1, <1>3, DequeueSound, ZenonT(30)
  <2> HIDE DEF d
  <2> QED BY <1>1, <2>1, <2>2 DEF KernelState
<1> HIDE DEF d
<1>6. Kept(d) /\ d \in KernelState
  <2>1. Moves(k, d)
    BY <1>5, MovesNot
  <2> QED BY <1>5, <2>1, MovesKeep DEF Sound
<1>7. Unawaited(d, p)
  <2>1. \A r \in Slots : k.tab[r].pc = "fields" => r = Shell
    BY DEF Kept, Places, OwnPlace
  <2> QED BY <1>1, <1>2, <1>5, <2>1 DEF Unawaited
<1>8. Kept(z) /\ Buried(k, p, z)
  <2>1. Kept(z) /\ Buried(d, p, z)
    BY <1>3, <1>4, <1>5, <1>6, <1>7, BuryKeeps
  <2> QED BY <1>5, <2>1 DEF Buried
<1>9. Sound(z, {})
  <2> DEFINE c == d.tab[p]
             b == [c EXCEPT !.state = "ZOMBIE", !.pc = "dead", !.ustack = NULL]
             f == d.free \cup ({c.ustack} \ {NULL})
  <2>1. z = Update(d, p, b, f)
    BY DEF Bury
  <2>2. c \in PCB /\ d.free \in SUBSET Blocks /\ c = d.tab[p]
    BY <1>3, <1>6, StateParts
  <2> HIDE DEF c
  <2>3. b \in PCB /\ b.state = "ZOMBIE" /\ b.pid = c.pid
    BY <2>2, BuryPCB, ZenonT(30)
  <2>4. f \in SUBSET Blocks
    <3>1. c.ustack \in Blocks \cup {NULL}
      BY <2>2 DEF PCB
    <3> QED BY <2>2, <3>1
  <2> HIDE DEF b, f, z
  <2>5. /\ p \in Slots \ {Idle} /\ d.tab[p].state # "UNUSED"
        /\ b.state \notin {"READY", "RUNNING", "UNUSED"} /\ b.pid = d.tab[p].pid
    BY <1>3, <1>4, <1>5, <2>2, <2>3
  <2> QED BY <1>5, <2>1, <2>3, <2>4, <2>5, StopSound
<1> HIDE DEF z
<1>10. Kept(w) /\ (Family(k) => Family(w)) /\ Survived(k, p, w)
  BY <1>3, <1>8, <1>9, WakeKeeps
<1> HIDE DEF w
<1>11. Spares(k, w)
  BY <1>10 DEF Spares, Survived
<1> QED BY <1>2, <1>10, <1>11 DEF Follows
=============================================================================
