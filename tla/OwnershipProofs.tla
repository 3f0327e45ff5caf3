------------------------- MODULE OwnershipProofs --------------------------
(***************************************************************************)
(* What processes own, for every table size and heap: every stack has one  *)
(* owner and none is lost; and while pids are unique no wake-up is lost, a *)
(* new child stays in its slot until its creator is done with it, and a    *)
(* zombie stays for its parent.  Here are the operations that add or       *)
(* collect a process, the inductive invariant and the theorems.            *)
(***************************************************************************)
EXTENDS OwnershipLemmas

(* The default prover and its time limit; the leaves that are pure logic   *)
(* name Zenon instead.                                                     *)
USE SMTT(30)

(* The new process enters the table with its stacks. *)
LEMMA SpawnKeeps ==
    ASSUME Good(k), Kept(k), ~TableFull, ~Fresh(Me),
           NEW me \in PCB, NEW b \in PCB, NEW f \in SUBSET Blocks,
           me.state = "RUNNING", me.pid = Me.pid, me.ppid = Me.ppid,
           me.pc \in {"fields", "forked"} => me.kid = FreeSlot,
           me.pc = "fields" => Fresh(b),
           b.state = "READY", b.ppid = Me.pid, b.pc \notin {"fields", "forked"},
           OwnPlace(Self, me), OwnPlace(FreeSlot, b), Distinct(me), Distinct(b),
           Hold(me) \cap f = {}, Hold(b) \cap f = {}, Hold(me) \cap Hold(b) = {},
           Hold(me) \cup Hold(b) \cup f = Hold(Me) \cup k.free
    PROVE  LET e == Spawn(Update(k, Self, me, f), b)
           IN  /\ Kept(e) /\ Spares(k, e)
               /\ Family(k) /\ ~Duplicate(e) => Family(e)
<1> DEFINE s == FreeSlot
           u == Update(k, Self, me, f)
           v == Update(u, s, b, u.free)
           e == Enqueue(v, s)
<1>1. /\ k \in KernelState /\ Self \in Slots /\ Me = k.tab[Self]
      /\ Me.state = "RUNNING"
  BY SelfParts
<1>2. s \in Slots /\ k.tab[s].state = "UNUSED"
  BY <1>1, FreeSlotFound
<1>3. s # Self /\ k.tab[s] = Unused
  BY <1>1, <1>2, ZenonT(30) DEF Kept, Places, OwnPlace
<1>4. e = Spawn(u, b)
  BY DEF Spawn
<1> HIDE DEF s
<1>5. /\ u \in KernelState /\ u.tab[Self] = me /\ u.free = f /\ u.torn = k.torn
      /\ \A r \in Slots \ {Self} : u.tab[r] = k.tab[r]
  <2>1. u.free = f /\ u.torn = k.torn
    BY <1>1 DEF Update, KernelState
  <2> QED BY <1>1, <2>1, Updated
<1> HIDE DEF u
<1>6. /\ v \in KernelState /\ v.tab[s] = b /\ v.tab[Self] = me /\ v.free = f
      /\ v.torn = k.torn /\ \A r \in Slots \ {Self, s} : v.tab[r] = k.tab[r]
  <2>1. v.free = f /\ v.torn = k.torn
    BY <1>5 DEF Update, KernelState
  <2>2. v \in KernelState /\ v.tab[s] = b /\ \A r \in Slots \ {s} : v.tab[r] = u.tab[r]
    BY <1>2, <1>5, Updated
  <2> HIDE DEF v
  <2> QED BY <1>1, <1>3, <1>5, <2>1, <2>2, ZenonT(30)
<1> HIDE DEF v
<1>7. Kept(v)
  <2>1. v.tab[Self].pc = "fields" => NewUser(v, Self)
    BY <1>2, <1>3, <1>6 DEF NewUser, s
  <2>2. \A r \in Slots \ {Self} : k.tab[r].pc = "fields" =>
                                     k.tab[r].kid \notin {Self, s}
    BY <1>1, <1>2, ZenonT(30) DEF Kept, Places, NewUser, Fresh, Live
  <2>3. Hold(k.tab[s]) = {} /\ OwnPlace(s, b)
    BY <1>3, UnusedHolds DEF s
  <2>4. Hold(me) \cup Hold(b) \cup f = Hold(k.tab[Self]) \cup Hold(k.tab[s]) \cup k.free
    BY <1>1, <2>3
  <2>5. s \in Slots \ {Self}
    BY <1>2, <1>3
  <2> QED BY <1>1, <1>6, <2>1, <2>2, <2>3, <2>4, <2>5, TwoKeep, ZenonT(30)
<1>8. Moves(v, e)
  BY <1>2, <1>6, EnqueueMoves DEF Live
<1> HIDE DEF e
<1>9. Kept(e)
  BY <1>7, <1>8, MovesKeep
<1>10. \A r \in Slots : /\ e.tab[r].pid = v.tab[r].pid
                        /\ e.tab[r].state = "UNUSED" <=> v.tab[r].state = "UNUSED"
  BY <1>8 DEF Moves, Moved, SameContext, Live
<1>11. ASSUME Family(k), ~Duplicate(e) PROVE Family(v)
  <2>1. ~Duplicate(v)
    BY <1>10, <1>11 DEF Duplicate
  <2>2. ASSUME NEW r \in Slots, v.tab[r].pc = "forked"
        PROVE  v.tab[r].kid \in ChildrenOf(v, r)
    <3>1. CASE r = Self
      BY <1>2, <1>3, <1>6, <2>2, <3>1 DEF ChildrenOf, s
    <3>2. CASE r # Self
      <4>1. r # s /\ v.tab[r] = k.tab[r]
        BY <1>6, <2>2, <3>2
      <4>2. k.tab[r].kid \in ChildrenOf(k, r)
        BY <1>11, <2>2, <4>1 DEF Family
      <4>3. k.tab[r].kid # s
        BY <1>2, <4>2, ZenonT(30) DEF ChildrenOf
      <4>4. CASE k.tab[r].kid = Self
        BY <1>1, <1>6, <4>1, <4>2, <4>4 DEF ChildrenOf
      <4>5. CASE k.tab[r].kid # Self
        BY <1>6, <4>1, <4>2, <4>3, <4>5, ZenonT(30) DEF ChildrenOf
      <4> QED BY <4>4, <4>5
    <3> QED BY <3>1, <3>2
  <2>3. ASSUME NEW r \in Slots, v.tab[r].state = "BLOCKED", NEW c \in ZombiesOf(v, r)
        PROVE  FALSE
    <3>1. r \notin {Self, s} /\ v.tab[r] = k.tab[r]
      BY <1>6, <2>3
    <3>2. c \in Slots \ {Self, s} /\ v.tab[c] = k.tab[c]
      BY <1>6, <2>3 DEF ZombiesOf, ChildrenOf
    <3>3. c \in ZombiesOf(k, r)
      BY <2>3, <3>1, <3>2 DEF ZombiesOf, ChildrenOf
    <3> QED BY <1>11, <2>3, <3>1, <3>3, ZenonT(30) DEF Family
  <2> QED BY <2>1, <2>2, <2>3 DEF Family
<1>12. Spares(k, e)
  BY <1>1, <1>2, <1>6, <1>10, ZenonT(30) DEF Spares
<1> QED BY <1>4, <1>8, <1>9, <1>11, <1>12, MovesFamily, ZenonT(30) DEF u

(* What process_create leaves, while pids stay unique. *)
FollowsUnless(e) ==
    Kept(e) /\ Spares(k, e) /\ (Family(k) /\ ~Duplicate(e) => Family(e))

(* process_create enters the PCB in the table: the kernel stack passes     *)
(* from the local variable to the PCB.                                     *)
LEMMA CreatePcbKeeps ==
    ASSUME Good(k), Kept(k), next_pid \in Nat, create_pcb
    PROVE  /\ TableFull => Follows(k') /\ UNCHANGED clash
           /\ ~TableFull => FollowsUnless(k') /\ clash' = (clash \/ Duplicate(k'))
<1>1. /\ k \in KernelState /\ Me \in PCB /\ k.free \in SUBSET Blocks
      /\ Me.state = "RUNNING" /\ OwnPlace(Self, Me) /\ Distinct(Me)
      /\ Hold(Me) \cap k.free = {} /\ NULL \notin Blocks
  BY SelfParts
<1>2. Me.pc = "create"
  BY DEF create_pcb, At
<1>3. ~Fresh(Me) /\ Me.kloc # NULL /\ Self = Shell
  BY <1>1, <1>2 DEF Fresh, OwnPlace
<1>4. CASE TableFull
  <2> DEFINE b == [Me EXCEPT !.pc = "unwind"]
  <2>1. k' = Update(k, Self, b, k.free) /\ UNCHANGED clash
    BY <1>4 DEF create_pcb
  <2>2. /\ b \in PCB /\ b.state = Me.state /\ b.pid = Me.pid /\ b.ppid = Me.ppid
        /\ b.pc = "unwind" /\ SameStacks(b, Me)
    BY <1>1 DEF PCB, Points, SameStacks
  <2> HIDE DEF b
  <2>3. OwnPlace(Self, b)
    BY <1>1, <1>2, <2>2 DEF OwnPlace, SameStacks
  <2> QED BY <1>3, <1>4, <2>1, <2>2, <2>3, MoveAlong
<1>5. CASE ~TableFull
  <2>1. PICK prio \in {1, 2} :
           k' = Spawn(Update(k, Self, Creator, k.free), Created(prio))
    BY <1>5 DEF create_pcb
  <2>2. clash' = (clash \/ Duplicate(k'))
    BY <1>5 DEF create_pcb
  <2> DEFINE me == Creator
             b  == Created(prio)
             c  == IF ForUser THEN FreeSlot ELSE None
             pc == IF ForUser THEN "fields" ELSE "run"
             pb == IF ForUser THEN "tramp" ELSE "run"
  <2>3. FreeSlot \in Slots
    BY <1>1, <1>5, FreeSlotFound
  <2>4. /\ c \in Slots \cup {None} /\ pc \in {"fields", "run"}
        /\ pb \in {"tramp", "run"}
        /\ pc = "fields" => c = FreeSlot /\ pb = "tramp"
        /\ pc = "run" => Me.uloc = NULL
    BY <2>3 DEF ForUser
  <2>5. me = [Me EXCEPT !.kloc = NULL, !.kid = c, !.pc = pc]
    BY DEF Creator
  <2> DEFINE n == next_pid
             m == Me.pid
             q == prio
             t == Me.kloc
  <2>6. b = [Unused EXCEPT !.state = "READY", !.pid = n, !.ppid = m,
                           !.priority = q, !.base_priority = q, !.kstack = t,
                           !.pc = pb]
    BY DEF Created
  <2>7. m \in Nat /\ t \in Blocks \cup {NULL} /\ n \in Nat /\ q \in Levels
    BY <1>1 DEF PCB, Levels
  <2> HIDE DEF me, b, c, pc, pb, n, m, q, t
  <2>8. /\ me \in PCB /\ me.state = Me.state /\ me.pid = Me.pid /\ me.ppid = Me.ppid
        /\ me.kid = c /\ me.pc = pc /\ me.kloc = NULL /\ me.uloc = Me.uloc
        /\ me.kstack = Me.kstack /\ me.ustack = Me.ustack
        /\ me.parent_waiting = Me.parent_waiting
    BY <1>1, <2>4, <2>5, ZenonT(30) DEF PCB, Points
  <2>9. b = [state |-> "READY", pid |-> n, ppid |-> m,
             priority |-> q, base_priority |-> q, wait_ticks |-> 0, sleep_left |-> 0,
             parent_waiting |-> FALSE, is_user |-> FALSE, user_entry |-> FALSE,
             kstack |-> t, ustack |-> NULL,
             pc |-> pb, kloc |-> NULL, uloc |-> NULL, kid |-> None]
    BY <2>6, ZenonT(30) DEF Unused
  <2>10. b \in PCB
    <3>1. "READY" \in ProcState /\ pb \in Points /\ 0 \in Nat
      BY <2>4 DEF ProcState, Points
    <3> QED BY <2>7, <2>9, <3>1 DEF PCB
  <2>11. /\ b.state = "READY" /\ b.ppid = m /\ b.pc = pb /\ b.user_entry = FALSE
         /\ b.kstack = t /\ b.ustack = NULL /\ b.kloc = NULL /\ b.uloc = NULL
    BY <2>9
  <2>12. OwnPlace(Self, me)
    BY <1>1, <1>3, <2>4, <2>8 DEF OwnPlace
  <2>13. OwnPlace(FreeSlot, b)
    BY <1>3, <2>4, <2>11 DEF OwnPlace, t
  <2>14. Distinct(me) /\ Distinct(b)
    BY <1>1, <2>8, <2>11 DEF Distinct
  <2>15. Hold(b) = {t} /\ t = Me.kloc
    BY <1>3, <2>11 DEF Hold, t
  <2>16. Hold(me) = Hold(Me) \ {t} /\ t \in Hold(Me)
    BY <1>1, <1>3, <2>8 DEF Hold, Distinct, t
  <2>17. /\ Hold(me) \cap k.free = {} /\ Hold(b) \cap k.free = {}
         /\ Hold(me) \cap Hold(b) = {}
         /\ Hold(me) \cup Hold(b) \cup k.free = Hold(Me) \cup k.free
    BY <1>1, <2>15, <2>16
  <2>18. /\ me.pc \in {"fields", "forked"} => me.kid = FreeSlot
         /\ me.pc = "fields" => Fresh(b)
         /\ b.pc \notin {"fields", "forked"}
    BY <2>4, <2>8, <2>11 DEF Fresh, Live
  <2>19. b.ppid = Me.pid
    BY <2>11 DEF m
  <2>20. FollowsUnless(Spawn(Update(k, Self, me, k.free), b))
    BY <1>1, <1>3, <1>5, <2>8, <2>10, <2>11, <2>12, <2>13, <2>14, <2>17, <2>18, <2>19,
       SpawnKeeps, ZenonT(30) DEF FollowsUnless
  <2> QED BY <1>5, <2>1, <2>2, <2>20 DEF me, b
<1> QED BY <1>4, <1>5

(* process_create_user writes the fields of the new PCB: the user stack    *)
(* passes from the local variable to the PCB, which is still the new one.  *)
LEMMA CreateUserFieldsKeeps ==
    ASSUME Good(k), Kept(k), create_user_fields
    PROVE  Follows(k')
<1> DEFINE c     == Me.kid
           a     == k.tab[c]
           child == [a EXCEPT !.is_user = TRUE, !.ustack = Me.uloc, !.user_entry = TRUE]
           u     == Update(k, c, child, k.free)
           b     == [Me EXCEPT !.uloc = NULL, !.kid = None, !.pc = "run"]
           e     == Update(u, Self, b, k.free)
<1>1. /\ k \in KernelState /\ Self \in Slots /\ Me \in PCB /\ Me = k.tab[Self]
      /\ k.free \in SUBSET Blocks /\ NULL \notin Blocks
      /\ Me.state = "RUNNING" /\ OwnPlace(Self, Me) /\ Distinct(Me)
      /\ Hold(Me) \cap k.free = {}
  BY SelfParts
<1>2. Me.pc = "fields" /\ k' = e
  BY DEF create_user_fields, At
<1>3. c \in Slots /\ c # Self /\ Fresh(a) /\ a.ppid = Me.pid
  BY <1>1, <1>2 DEF Kept, Places, NewUser
<1>4. /\ a \in PCB /\ Distinct(a) /\ Hold(a) \cap k.free = {} /\ OwnPlace(c, a)
      /\ Hold(a) \cap Hold(Me) = {}
  BY <1>1, <1>3, StateParts, ZenonT(30) DEF Kept, Places, Owned
<1>5. a = k.tab[c]
  OBVIOUS
<1> HIDE DEF c, a
<1>6. Me.uloc \in Blocks \cup {NULL}
  BY <1>1, ZenonT(30) DEF PCB
<1>7. /\ child \in PCB /\ child.state = a.state /\ child.pid = a.pid
      /\ child.ppid = a.ppid /\ child.pc = a.pc /\ child.kid = a.kid
      /\ child.parent_waiting = a.parent_waiting
      /\ child.kstack = a.kstack /\ child.ustack = Me.uloc
      /\ child.kloc = a.kloc /\ child.uloc = a.uloc
  BY <1>4, <1>6, ZenonT(30) DEF PCB
<1>8. /\ b \in PCB /\ b.state = Me.state /\ b.pid = Me.pid /\ b.ppid = Me.ppid
      /\ b.pc = "run" /\ b.parent_waiting = Me.parent_waiting
      /\ b.kstack = Me.kstack /\ b.ustack = Me.ustack
      /\ b.kloc = Me.kloc /\ b.uloc = NULL
  BY <1>1, ZenonT(30) DEF PCB, Points
<1> HIDE DEF child, b
<1>9. /\ u \in KernelState /\ u.tab[c] = child /\ u.free = k.free /\ u.torn = k.torn
      /\ \A r \in Slots \ {c} : u.tab[r] = k.tab[r]
  <2>1. u.free = k.free /\ u.torn = k.torn
    BY <1>1 DEF Update, KernelState
  <2> QED BY <1>1, <1>3, <1>7, <2>1, Updated
<1> HIDE DEF u
<1>10. /\ e.tab[c] = child /\ e.tab[Self] = b /\ e.free = k.free /\ e.torn = k.torn
       /\ \A r \in Slots \ {Self, c} : e.tab[r] = k.tab[r]
  <2>1. e.free = k.free /\ e.torn = k.torn
    BY <1>9 DEF Update, KernelState
  <2>2. e.tab[Self] = b /\ \A r \in Slots \ {Self} : e.tab[r] = u.tab[r]
    BY <1>1, <1>8, <1>9, Updated
  <2> HIDE DEF e
  <2> QED BY <1>3, <1>9, <2>1, <2>2, ZenonT(30)
<1> HIDE DEF e
<1>11. a.ustack = NULL /\ a.pc \in {"tramp", "wild"} /\ Live(a)
  BY <1>3 DEF Fresh
<1>12. OwnPlace(c, child)
  BY <1>4, <1>7, <1>11 DEF OwnPlace, Live
<1>13. OwnPlace(Self, b)
  BY <1>1, <1>2, <1>8 DEF OwnPlace
<1>14. /\ Hold(child) = Hold(a) \cup ({Me.uloc} \ {NULL})
       /\ Hold(b) = Hold(Me) \ {Me.uloc}
       /\ {Me.uloc} \ {NULL} \subseteq Hold(Me) /\ NULL \notin Hold(Me)
  <2>1. Hold(child) = Hold(a) \cup ({Me.uloc} \ {NULL})
    BY <1>7, <1>11 DEF Hold
  <2>2. {Me.uloc} \ {NULL} \subseteq Hold(Me) /\ NULL \notin Hold(Me)
    BY DEF Hold
  <2>3. \A x : x \in Hold(b) <=> x \in Hold(Me) /\ x # Me.uloc
    BY <1>1, <1>8 DEF Hold, Distinct
  <2> QED BY <2>1, <2>2, <2>3
<1>15. Distinct(b)
  BY <1>1, <1>8, ZenonT(30) DEF Distinct
<1>16. Distinct(child)
  <2>1. Me.uloc # NULL => Me.uloc \notin Hold(a)
    BY <1>4, <1>14
  <2> QED BY <1>4, <1>7, <2>1 DEF Distinct, Hold
<1>17. /\ Hold(b) \cap k.free = {} /\ Hold(child) \cap k.free = {}
       /\ Hold(b) \cap Hold(child) = {}
       /\ Hold(b) \cup Hold(child) \cup k.free = Hold(Me) \cup Hold(a) \cup k.free
  BY <1>1, <1>4, <1>14
<1>18. Kept(e)
  <2>1. \A r \in Slots \ {Self} : k.tab[r].pc = "fields" => k.tab[r].kid \notin {Self, c}
    BY <1>1, <1>2, ZenonT(30) DEF Kept, Places, OwnPlace
  <2>2. child.pc # "fields" /\ b.pc # "fields" /\ c \in Slots \ {Self}
    BY <1>3, <1>7, <1>8, <1>11
  <2> QED BY <1>1, <1>5, <1>10, <1>12, <1>13, <1>15, <1>16, <1>17, <2>1, <2>2, TwoKeep
<1>19. \A r \in Slots : /\ e.tab[r].pid = k.tab[r].pid /\ e.tab[r].ppid = k.tab[r].ppid
                        /\ e.tab[r].state = k.tab[r].state
                        /\ e.tab[r].pc = "forked" =>
                              k.tab[r].pc = "forked" /\ e.tab[r].kid = k.tab[r].kid
  BY <1>1, <1>5, <1>7, <1>8, <1>10, <1>11
<1>20. Family(k) => Family(e)
  BY <1>19, FamilyFrame, ZenonT(30)
<1>21. Spares(k, e)
  BY <1>19 DEF Spares
<1> QED BY <1>2, <1>18, <1>20, <1>21 DEF Follows

(* sys_fork: both stacks come from the heap and go to the child, or to     *)
(* local variables when the table is full.                                 *)
LEMMA ForkKeeps ==
    ASSUME Good(k), Kept(k), sys_fork
    PROVE  /\ TableFull => Follows(k') /\ UNCHANGED clash
           /\ ~TableFull => FollowsUnless(k') /\ clash' = (clash \/ Duplicate(k'))
<1> DEFINE ks == Kmalloc(k.free)
           us == Kmalloc(k.free \ {ks})
           f  == k.free \ {ks, us}
<1>1. /\ k \in KernelState /\ Me \in PCB /\ k.free \in SUBSET Blocks
      /\ Me.state = "RUNNING" /\ OwnPlace(Self, Me) /\ Distinct(Me)
      /\ Hold(Me) \cap k.free = {} /\ NULL \notin Blocks
  BY SelfParts
<1>2. Me.pc = "user" /\ Cardinality(k.free) >= 2
  BY DEF sys_fork, At
<1>3. ~Fresh(Me) /\ Me.kloc = NULL /\ Me.uloc = NULL
  BY <1>1, <1>2 DEF Fresh, OwnPlace
<1>4. ks \in k.free /\ us \in k.free /\ us # ks
  <2>1. IsFiniteSet(k.free)
    <3>1. IsFiniteSet(Blocks)
      BY SchedulerAssumption, FS_Interval DEF Blocks
    <3> QED BY <1>1, <3>1, FS_Subset
  <2>2. k.free # {} /\ k.free \ {ks} # {}
    <3> HIDE DEF ks
    <3>1. k.free # {}
      BY <1>2, <2>1, FS_EmptySet
    <3>2. SUFFICES ASSUME k.free \subseteq {ks} PROVE FALSE
      BY <3>1
    <3>3. IsFiniteSet({ks}) /\ Cardinality({ks}) = 1
      BY FS_Singleton, ZenonT(30)
    <3>4. Cardinality(k.free) <= 1
      BY <3>2, <3>3, FS_Subset
    <3> QED BY <1>2, <2>1, <3>4, FS_CardinalityType
  <2>3. ks \in k.free
    BY <1>1, <2>2, KmallocFound
  <2> HIDE DEF ks
  <2>4. k.free \ {ks} \in SUBSET Blocks
    BY <1>1
  <2>5. us \in k.free \ {ks}
    BY <2>2, <2>4, KmallocFound
  <2> QED BY <2>3, <2>5
<1>5. /\ f \in SUBSET Blocks /\ ks # NULL /\ us # NULL
      /\ ks \in Blocks /\ us \in Blocks /\ ks \notin Hold(Me) /\ us \notin Hold(Me)
  BY <1>1, <1>4, ZenonT(30)
<1>6. CASE TableFull
  <2> DEFINE b == [Me EXCEPT !.kloc = ks, !.uloc = us, !.pc = "unwind"]
  <2>1. k' = Update(k, Self, b, f) /\ UNCHANGED clash
    BY <1>6 DEF sys_fork
  <2> HIDE DEF ks, us
  <2>2. /\ b \in PCB /\ b.state = Me.state /\ b.pid = Me.pid /\ b.ppid = Me.ppid
        /\ b.pc = "unwind" /\ b.uloc = us /\ b.kloc = ks
        /\ b.kstack = Me.kstack /\ b.ustack = Me.ustack
        /\ b.parent_waiting = Me.parent_waiting
    BY <1>1, <1>5, ZenonT(30) DEF PCB, Points
  <2> HIDE DEF b
  <2>3. OwnPlace(Self, b)
    BY <1>1, <1>2, <2>2 DEF OwnPlace
  <2>4. Distinct(b) /\ Hold(b) = Hold(Me) \cup {ks, us}
    BY <1>1, <1>3, <1>4, <1>5, <2>2 DEF Distinct, Hold
  <2>5. Hold(b) \cap f = {} /\ Hold(b) \cup f = Hold(Me) \cup k.free
    BY <1>1, <1>4, <2>4
  <2> HIDE DEF f
  <2> QED BY <1>3, <1>5, <1>6, <2>1, <2>2, <2>3, <2>4, <2>5, MoveOn, ZenonT(30)
<1>7. CASE ~TableFull
  <2> DEFINE me == [Me EXCEPT !.kid = FreeSlot, !.pc = "forked"]
             n  == ForkPid
             b  == [Me EXCEPT !.state = "READY", !.pid = n,
                              !.ppid = Me.pid, !.parent_waiting = FALSE,
                              !.wait_ticks = 0, !.kstack = ks, !.ustack = us]
  <2>1. k' = Spawn(Update(k, Self, me, f), b) /\ clash' = (clash \/ Duplicate(k'))
    BY <1>7 DEF sys_fork
  <2> HIDE DEF ks, us
  <2>2. FreeSlot \in Slots
    BY <1>1, <1>7, FreeSlotFound
  <2>3. n \in Nat
    BY <1>1, <1>7, ForkPidFound, GoodParts
  <2> HIDE DEF n
  <2>4. /\ me \in PCB /\ me.state = Me.state /\ me.pid = Me.pid /\ me.ppid = Me.ppid
        /\ me.kid = FreeSlot /\ me.pc = "forked" /\ SameStacks(me, Me)
        /\ me.parent_waiting = Me.parent_waiting
    BY <1>1, <2>2, ZenonT(30) DEF PCB, Points, SameStacks
  <2>5. b \in PCB
    BY <1>1, <1>5, <2>3, ZenonT(30) DEF PCB, ProcState
  <2>6. /\ b.state = "READY" /\ b.ppid = Me.pid /\ b.pc = Me.pc
        /\ b.kstack = ks /\ b.ustack = us /\ b.kloc = NULL /\ b.uloc = NULL
    BY <1>1, <1>3 DEF PCB
  <2> HIDE DEF me, b
  <2>7. OwnPlace(Self, me)
    BY <1>1, <1>3, <2>4 DEF OwnPlace, SameStacks
  <2>8. OwnPlace(FreeSlot, b)
    BY <1>2, <1>5, <2>6 DEF OwnPlace
  <2>9. Distinct(me) /\ Hold(me) = Hold(Me)
    BY <1>1, <2>4, SameHold
  <2>10. Distinct(b) /\ Hold(b) = {ks, us}
    BY <1>4, <1>5, <2>6 DEF Distinct, Hold
  <2>11. /\ Hold(me) \cap f = {} /\ Hold(b) \cap f = {} /\ Hold(me) \cap Hold(b) = {}
         /\ Hold(me) \cup Hold(b) \cup f = Hold(Me) \cup k.free
    BY <1>1, <1>4, <1>5, <2>9, <2>10
  <2>12. /\ me.pc \in {"fields", "forked"} => me.kid = FreeSlot
         /\ me.pc = "fields" => Fresh(b)
         /\ b.pc \notin {"fields", "forked"}
         /\ me.state = "RUNNING"
    BY <1>1, <1>2, <2>4, <2>6
  <2> HIDE DEF f
  <2>13. FollowsUnless(Spawn(Update(k, Self, me, f), b))
    BY <1>3, <1>5, <1>7, <2>4, <2>5, <2>6, <2>7, <2>8, <2>9, <2>10, <2>11, <2>12,
       SpawnKeeps, ZenonT(30) DEF FollowsUnless
  <2> QED BY <1>7, <2>1, <2>13
<1> QED BY <1>6, <1>7

(* process_wait collects a zombie, returns or blocks. *)
LEMMA WaitKeeps ==
    ASSUME Good(k), Kept(k), process_wait
    PROVE  Follows(k')
<1> DEFINE b == [Me EXCEPT !.pc = "user"]
           u == Update(k, Self, b, k.free)
           Z == ZombiesOf(k, Self)
           z == Min(Z)
           c == [Me EXCEPT !.parent_waiting = TRUE, !.state = "BLOCKED",
                           !.pc = "resume"]
<1>1. /\ k \in KernelState /\ Self \in Slots /\ Me \in PCB /\ Me = k.tab[Self]
      /\ Self = k.current /\ k.free \in SUBSET Blocks
      /\ Me.state = "RUNNING" /\ OwnPlace(Self, Me)
  BY SelfParts
<1>2. Me.pc \in {"user", "rewait"}
  BY DEF process_wait, At
<1>3. \/ k' = u
      \/ Z # {} /\ k' = Release(u, {z})
      \/ Z = {} /\ k' = Schedule(Update(k, Self, c, k.free))
  BY DEF process_wait
<1>4. /\ b \in PCB /\ b.state = Me.state /\ b.pid = Me.pid /\ b.ppid = Me.ppid
      /\ b.pc = "user" /\ SameStacks(b, Me)
  BY <1>1 DEF PCB, Points, SameStacks
<1>5. /\ c \in PCB /\ c.state = "BLOCKED" /\ c.pid = Me.pid /\ c.ppid = Me.ppid
      /\ c.pc = "resume" /\ c.parent_waiting /\ SameStacks(c, Me)
  BY <1>1, ZenonT(30) DEF PCB, Points, ProcState, SameStacks
<1> HIDE DEF b, c
<1>6. OwnPlace(Self, b) /\ OwnPlace(Self, c) /\ ~Fresh(Me)
  BY <1>1, <1>2, <1>4, <1>5, ZenonT(30) DEF OwnPlace, SameStacks, Fresh
<1>7. Follows(u)
  BY <1>4, <1>6, MoveAlong
<1>8. CASE k' = u
  BY <1>7, <1>8
<1>9. CASE Z # {} /\ k' = Release(u, {z})
  <2>1. z \in Z
    <3>1. Z \in SUBSET Nat
      BY DEF ZombiesOf, ChildrenOf, Slots
    <3> HIDE DEF Z
    <3> QED BY <1>9, <3>1, MinOf
  <2>2. z \in Slots \ {Self} /\ k.tab[z].state = "ZOMBIE" /\ k.tab[z].ppid = Me.pid
    BY <1>1, <2>1, ZenonT(30) DEF ZombiesOf, ChildrenOf
  <2>3. /\ u \in KernelState /\ u.current = Self /\ u.tab[Self] = b
        /\ \A r \in Slots \ {Self} : u.tab[r] = k.tab[r]
    BY <1>1, <1>4, Updated
  <2> HIDE DEF u, z
  <2> DEFINE P == {z}
             e == Release(u, P)
  <2>4. P \in SUBSET Slots /\ u.current \notin P /\ \A p \in P : u.tab[p].state = "ZOMBIE"
    BY <2>2, <2>3
  <2>5. Kept(e)
    BY <1>7, <2>3, <2>4, ReleaseKeeps DEF Follows
  <2>6. \A p \in Slots \ P : e.tab[p] = u.tab[p]
    BY <2>3, <2>4, ReleaseParts
  <2>7. ASSUME Family(k), NEW p \in Slots, k.tab[p].state # "UNUSED",
               k.tab[p].pid = k.tab[z].ppid
        PROVE  p = Self
    BY <1>1, <2>2, <2>7 DEF Family, Duplicate
  <2>8. ASSUME Family(k) PROVE Family(e)
    <3>1. Family(u)
      BY <1>7, <2>8 DEF Follows
    <3>2. ASSUME NEW p \in Slots, u.tab[p].pc = "forked" PROVE u.tab[p].kid \notin P
      <4>1. p # Self /\ u.tab[p] = k.tab[p]
        BY <1>4, <2>3, <3>2
      <4>2. k.tab[p].state # "UNUSED"
        BY <3>2, <4>1, UnusedHolds, ZenonT(30) DEF Kept, Places, OwnPlace
      <4>3. k.tab[p].kid \in ChildrenOf(k, p)
        BY <2>8, <3>2, <4>1 DEF Family
      <4> QED BY <2>7, <2>8, <4>1, <4>2, <4>3 DEF ChildrenOf
    <3> QED BY <2>3, <2>4, <3>1, <3>2, ReleaseFamily
  <2>9. ASSUME Family(k) PROVE Spares(k, e)
    <3> SUFFICES ASSUME NEW p \in Slots, NEW y \in Slots,
                        k.tab[y].state = "ZOMBIE", e.tab[y].state = "UNUSED",
                        Live(k.tab[p]), y \in ZombiesOf(k, p)
                 PROVE  p = k.current
      <4>1. process_wait
        OBVIOUS
      <4> QED BY <4>1 DEF Spares
    <3>1. y = z
      BY <1>1, <1>4, <2>3, <2>6, ZenonT(30)
    <3> QED BY <1>1, <2>7, <2>9, <3>1 DEF ZombiesOf, ChildrenOf, Live
  <2> QED BY <1>9, <2>5, <2>8, <2>9 DEF Follows
<1>10. CASE Z = {} /\ k' = Schedule(Update(k, Self, c, k.free))
  <2>1. /\ Me.pc \notin {"idle", "tramp", "wild"}
        /\ c.pc \notin {"fields", "forked"}
        /\ c.state \in {"SLEEPING", "BLOCKED"}
    BY <1>2, <1>5
  <2> QED BY <1>5, <1>6, <1>10, <2>1, StopKeeps, ZenonT(30)
<1> QED BY <1>3, <1>8, <1>9, <1>10

(* The stronger invariant, about stacks and families. *)
OwnInv == IInv /\ Kept(k) /\ (clash \/ Family(k))

(* It holds at boot, when the shell owns the only stack. *)
LEMMA InitOwn == Init => OwnInv
<1> SUFFICES ASSUME Init PROVE OwnInv
  OBVIOUS
<1>1. IInv
  BY InitInv
<1>2. Idle \in Slots /\ Shell \in Slots /\ Shell # Idle /\ 1 \in Blocks /\ NULL \notin Blocks
  BY SchedulerAssumption DEF Slots, Idle, Shell, Blocks, NULL
<1>3. /\ k.tab[Idle] = IdlePCB /\ k.tab[Shell] = ShellPCB
      /\ \A p \in Slots \ {Idle, Shell} : k.tab[p] = Unused
      /\ k.free = Blocks \ {1} /\ k.torn = FALSE
  BY <1>2 DEF Init
<1>4. /\ IdlePCB.state = "RUNNING" /\ IdlePCB.pid = 0 /\ IdlePCB.pc = "idle"
      /\ IdlePCB.kstack = NULL /\ IdlePCB.ustack = NULL
      /\ IdlePCB.kloc = NULL /\ IdlePCB.uloc = NULL
  BY DEF IdlePCB, Unused
<1>5. /\ ShellPCB.state = "READY" /\ ShellPCB.pid = 1 /\ ShellPCB.pc = "run"
      /\ ShellPCB.kstack = 1 /\ ShellPCB.ustack = NULL
      /\ ShellPCB.kloc = NULL /\ ShellPCB.uloc = NULL
  BY DEF ShellPCB, Unused
<1>6. /\ Hold(IdlePCB) = {} /\ Distinct(IdlePCB) /\ OwnPlace(Idle, IdlePCB)
  BY <1>4 DEF Hold, Distinct, OwnPlace
<1>7. /\ Hold(ShellPCB) = {1} /\ Distinct(ShellPCB) /\ OwnPlace(Shell, ShellPCB)
  BY <1>5 DEF Hold, Distinct, OwnPlace, NULL
<1>8. Places(k)
  BY <1>2, <1>3, <1>4, <1>5, <1>6, <1>7, UnusedHolds DEF Places
<1>9. \A p \in Slots : Hold(k.tab[p]) = IF p = Shell THEN {1} ELSE {}
  BY <1>2, <1>3, <1>6, <1>7, UnusedHolds
<1>10. Owned(k)
  <2>1. \A p \in Slots : Distinct(k.tab[p])
    BY <1>2, <1>3, <1>6, <1>7, UnusedHolds
  <2> QED BY <1>3, <1>9, <2>1 DEF Owned
<1>11. Whole(k)
  BY <1>2, <1>3, <1>9, PoolIn DEF Whole
<1>12. Family(k)
  <2>1. ~Duplicate(k)
    BY <1>2, <1>3, <1>4, <1>5, UnusedHolds DEF Duplicate
  <2> QED BY <1>2, <1>3, <1>4, <1>5, <2>1, UnusedHolds DEF Family
<1> QED BY <1>1, <1>8, <1>10, <1>11, <1>12 DEF OwnInv, Kept

(* What every step leaves. *)
Stays == Kept(k') /\ (clash' \/ Family(k')) /\ (clash \/ Spares(k, k'))

(* An action that leaves clash alone. *)
LEMMA FollowsStays ==
    ASSUME clash \/ Family(k), Follows(k'), UNCHANGED clash
    PROVE  Stays
BY DEF Follows, Stays

(* An action that may give two processes one pid. *)
LEMMA UnlessStays ==
    ASSUME clash \/ Family(k), FollowsUnless(k'), clash' = (clash \/ Duplicate(k'))
    PROVE  Stays
BY ZenonT(30) DEF FollowsUnless, Stays

(* Every step of the system. *)
LEMMA StepStays ==
    ASSUME OwnInv, Next
    PROVE  Stays
<1>1. Good(k) /\ Kept(k) /\ next_pid \in Nat /\ (clash \/ Family(k))
  BY DEF OwnInv, IInv, TypeOK
<1>2. CASE UNCHANGED <<k, clash>>
  <2>1. Kept(k') /\ (clash' \/ Family(k'))
    BY <1>1, <1>2
  <2>2. Spares(k, k')
    BY <1>2 DEF Spares
  <2> QED BY <2>1, <2>2 DEF Stays
<1>3. CASE timer_handler
  BY <1>1, <1>3, TimerKeeps, FollowsStays DEF timer_handler
<1>4. CASE create_user_stack
  BY <1>1, <1>4, CreateUserStackKeeps, FollowsStays DEF create_user_stack
<1>5. CASE create_kernel_stack
  BY <1>1, <1>5, CreateKernelStackKeeps, FollowsStays DEF create_kernel_stack
<1>6. CASE create_pcb
  BY <1>1, <1>6, CreatePcbKeeps, FollowsStays, UnlessStays
<1>7. CASE create_user_fields
  BY <1>1, <1>7, CreateUserFieldsKeeps, FollowsStays DEF create_user_fields
<1>8. CASE unwind
  BY <1>1, <1>8, UnwindKeeps, FollowsStays DEF unwind
<1>9. CASE user_process_trampoline
  BY <1>1, <1>9, TrampolineKeeps, FollowsStays DEF user_process_trampoline
<1>10. CASE process_exit
  BY <1>1, <1>10, ExitKeeps, FollowsStays DEF process_exit
<1>11. ASSUME NEW x \in 1 .. MaxPid + PROCESS_MAX, process_kill(x)
       PROVE  Stays
  <2>1. x \in Nat \ {0}
    BY ProcessAssumption, SchedulerAssumption
  <2>2. UNCHANGED clash
    BY <1>11 DEF process_kill
  <2> QED BY <1>1, <1>11, <2>1, <2>2, KillKeeps, FollowsStays
<1>12. ASSUME NEW ticks \in 0 .. MaxSleepTicks, process_sleep(ticks)
       PROVE  Stays
  <2>1. ticks \in Nat
    BY ProcessAssumption
  <2>2. UNCHANGED clash
    BY <1>12 DEF process_sleep
  <2> QED BY <1>1, <1>12, <2>1, <2>2, SleepKeeps, FollowsStays
<1>13. CASE scheduler_yield
  BY <1>1, <1>13, YieldKeeps, FollowsStays DEF scheduler_yield
<1>14. CASE sys_fork
  BY <1>1, <1>14, ForkKeeps, FollowsStays, UnlessStays
<1>15. CASE sys_fork_return
  BY <1>1, <1>15, ForkReturnKeeps, FollowsStays DEF sys_fork_return
<1>16. CASE process_wait
  BY <1>1, <1>16, WaitKeeps, FollowsStays DEF process_wait
<1>17. CASE process_wait_resume
  BY <1>1, <1>17, WaitResumeKeeps, FollowsStays DEF process_wait_resume
<1>18. scheduler_start \/ exception_handler \/ HaltLoop => UNCHANGED <<k, clash>>
  BY DEF scheduler_start, exception_handler, HaltLoop, vars
<1> QED BY <1>2, <1>3, <1>4, <1>5, <1>6, <1>7, <1>8, <1>9, <1>10, <1>11, <1>12,
           <1>13, <1>14, <1>15, <1>16, <1>17, <1>18 DEF Next

(* The invariant is inductive. *)
LEMMA StepOwn == OwnInv /\ [Next]_vars => OwnInv'
<1>1. ASSUME OwnInv, Next PROVE OwnInv'
  <2>1. IInv'
    BY <1>1, StepInv DEF OwnInv
  <2>2. Stays
    BY <1>1, StepStays
  <2> QED BY <2>1, <2>2 DEF OwnInv, Stays
<1>2. ASSUME OwnInv, UNCHANGED vars PROVE OwnInv'
  <2>1. IInv'
    BY <1>2, StepInv DEF OwnInv
  <2>2. k' = k /\ clash' = clash
    BY <1>2 DEF vars
  <2>3. Kept(k') /\ (clash' \/ Family(k'))
    BY <1>2, <2>2 DEF OwnInv
  <2> QED BY <2>1, <2>3 DEF OwnInv
<1> QED BY <1>1, <1>2

(* Stacks, places and families are as OwnInv says in every reachable       *)
(* state.                                                                  *)
THEOREM OwnInvariance == Spec => []OwnInv
<1>1. Init => OwnInv
  BY InitOwn
<1>2. OwnInv /\ [Next]_vars => OwnInv'
  BY StepOwn
<1> QED BY <1>1, <1>2, PTL DEF Spec

(* The four places a stack pointer lives in. *)
LEMMA RefHeld ==
    ASSUME NEW b, NEW f \in {"kstack", "ustack", "kloc", "uloc"}
    PROVE  /\ b[f] # NULL => b[f] \in Hold(b)
           /\ Distinct(b) => \A g \in {"kstack", "ustack", "kloc", "uloc"} :
                                b[f] # NULL /\ b[f] = b[g] => f = g
BY DEF Hold, Distinct

(* No block is free and referenced or referenced twice, so kfree is never  *)
(* called twice for one stack, and a process keeps its kernel stack until  *)
(* process_release: for every table size and heap, and every sequence of   *)
(* creations, forks, exits, kills, waits and ticks.                        *)
THEOREM StacksOwned == Spec => []StackOwnership
<1>1. OwnInv => StackOwnership
  <2> SUFFICES ASSUME OwnInv PROVE StackOwnership
    OBVIOUS
  <2>1. Owned(k) /\ Places(k)
    BY DEF OwnInv, Kept
  <2>2. ASSUME NEW r \in StackRefs, Ref(r) # NULL
        PROVE  Ref(r) \notin k.free /\ \A s \in StackRefs : Ref(r) = Ref(s) => r = s
    <3>1. PICK p \in Slots, f \in {"kstack", "ustack", "kloc", "uloc"} : r = <<p, f>>
      BY DEF StackRefs
    <3>2. k.tab[p][f] # NULL /\ Ref(r) = k.tab[p][f]
      BY <2>2, <3>1 DEF Ref
    <3>3. k.tab[p][f] \in Hold(k.tab[p])
      BY <3>2, RefHeld
    <3>4. Ref(r) \notin k.free
      BY <2>1, <3>2, <3>3 DEF Owned
    <3>5. ASSUME NEW s \in StackRefs, Ref(r) = Ref(s) PROVE r = s
      <4>1. PICK q \in Slots, g \in {"kstack", "ustack", "kloc", "uloc"} : s = <<q, g>>
        BY DEF StackRefs
      <4>2. k.tab[q][g] = k.tab[p][f] /\ k.tab[q][g] # NULL
        BY <2>2, <3>1, <3>5, <4>1 DEF Ref
      <4>3. k.tab[q][g] \in Hold(k.tab[q])
        BY <4>2, RefHeld
      <4>4. p = q
        BY <2>1, <3>3, <4>2, <4>3 DEF Owned
      <4>5. f = g
        BY <2>1, <3>2, <4>2, <4>4, RefHeld DEF Owned
      <4> QED BY <3>1, <4>1, <4>4, <4>5
    <3> QED BY <3>4, <3>5
  <2>3. \A p \in Slots \ {Idle} : InUse(p) <=> k.tab[p].kstack # NULL
    BY <2>1 DEF Places, OwnPlace, InUse, Unused
  <2> QED BY <2>2, <2>3 DEF StackOwnership
<1> QED BY <1>1, OwnInvariance, PTL

(* Every block kmalloc handed out is free again or still referenced: no    *)
(* exit, kill, wait, reap or error path drops one, unless a process is     *)
(* killed between sys_fork's sti and its kfree calls.                      *)
THEOREM StacksNeverLeak == Spec => []NoStackLeak
<1>1. OwnInv => NoStackLeak
  <2> SUFFICES ASSUME OwnInv, ~k.torn, NEW b \in Blocks \ k.free
               PROVE  \E r \in StackRefs : Ref(r) = b
    BY DEF NoStackLeak
  <2>1. b \in Pool(k, Slots)
    BY DEF OwnInv, Kept, Whole
  <2>2. PICK p \in Slots : b \in Hold(k.tab[p])
    BY <2>1, PoolIn
  <2>3. \E f \in {"kstack", "ustack", "kloc", "uloc"} : k.tab[p][f] = b
    BY <2>2 DEF Hold
  <2>4. PICK f \in {"kstack", "ustack", "kloc", "uloc"} : k.tab[p][f] = b
    BY <2>3
  <2>5. <<p, f>> \in StackRefs /\ Ref(<<p, f>>) = b
    BY <2>4 DEF StackRefs, Ref
  <2> QED BY <2>5
<1> QED BY <1>1, OwnInvariance, PTL

(* While pids are unique, no process sleeps in process_wait with an exited *)
(* child to collect.                                                       *)
THEOREM WakeupsNeverLost == Spec => []NoLostWakeup
<1>1. OwnInv => NoLostWakeup
  BY DEF OwnInv, Family, NoLostWakeup
<1> QED BY <1>1, OwnInvariance, PTL

(* While pids are unique, the PCB pointer that sys_fork reads and          *)
(* process_create_user writes with interrupts enabled still points to the  *)
(* caller's child.                                                         *)
THEOREM ChildrenPinned == Spec => []ChildPinned
<1>1. OwnInv => ChildPinned
  <2> SUFFICES ASSUME OwnInv, ~clash, NEW p \in Slots,
                      k.tab[p].pc \in {"fields", "forked"}
               PROVE  k.tab[p].kid \in ChildrenOf(k, p)
    BY DEF ChildPinned
  <2>1. Places(k) /\ Family(k)
    BY DEF OwnInv, Kept
  <2>2. CASE k.tab[p].pc = "forked"
    BY <2>1, <2>2 DEF Family
  <2>3. CASE k.tab[p].pc = "fields"
    BY <2>1, <2>3 DEF Places, NewUser, Fresh, Live, ChildrenOf
  <2> QED BY <2>2, <2>3
<1> QED BY <1>1, OwnInvariance, PTL

(* A zombie that reap_orphans passes over has a live parent. *)
LEMMA ParentLives ==
    ASSUME NEW kk, IdleStands(kk), NEW g, NEW z, ~Orphan(kk, g, z)
    PROVE  \E p \in Slots \ {Idle} : Live(kk.tab[p]) /\ kk.tab[p].pid = kk.tab[z].ppid
<1> DEFINE S == {r \in Slots \ g : /\ kk.tab[r].state # "UNUSED"
                                   /\ kk.tab[r].pid = kk.tab[z].ppid}
           p == Min(S)
<1>1. S # {} /\ kk.tab[p].state # "ZOMBIE" /\ kk.tab[p].pid # 0
  BY ZenonT(30) DEF Orphan
<1>2. S \in SUBSET Nat
  BY IdleIsSlot, ZenonT(30)
<1>3. p \in S
  BY <1>1, <1>2, MinOf, ZenonT(30)
<1>4. p \in Slots /\ kk.tab[p].state # "UNUSED" /\ kk.tab[p].pid = kk.tab[z].ppid
  BY <1>3, ZenonT(30)
<1> HIDE DEF p
<1> QED BY <1>1, <1>4 DEF Live, IdleStands

(* schedule() leaves no zombie without a live parent, but for the process  *)
(* it was called by.                                                       *)
LEMMA ScheduleReaps ==
    ASSUME NEW kk, Sound(kk, {}), kk.tab[kk.current].state # "READY",
           NEW z \in Slots \ {kk.current}
    PROVE  ~Forlorn(Schedule(kk), z)
<1> DEFINE e == Schedule(kk)
<1>1. PICK P : Reapt(kk, P) /\ Moves(Release(kk, P), e)
  BY ScheduleMoves
<1> HIDE DEF e
<1> SUFFICES ASSUME Forlorn(e, z) PROVE FALSE
  BY DEF e
<1>2. /\ kk \in KernelState /\ IdleStands(kk)
      /\ P \in SUBSET Slots /\ kk.current \notin P
      /\ \A p \in P : kk.tab[p].state = "ZOMBIE"
  BY <1>1 DEF Sound, Reapt, Visited, Reapable
<1>3. /\ \A p \in P : Release(kk, P).tab[p] = Unused
      /\ \A p \in Slots \ P : Release(kk, P).tab[p] = kk.tab[p]
  BY <1>2, ReleaseParts
<1>4. /\ \A p \in P : e.tab[p].state = "UNUSED"
      /\ \A p \in Slots \ P : Moved(kk.tab[p], e.tab[p])
  BY <1>1, <1>2, <1>3, UnusedHolds DEF Moves, Moved, Live
<1>5. z \notin P /\ kk.tab[z].state = "ZOMBIE" /\ e.tab[z].ppid = kk.tab[z].ppid
  BY <1>4 DEF Forlorn, Moved, SameContext, Live
<1>6. PICK g : ~Orphan(kk, g, z)
  <2>1. z \in Reapable(kk) \ P /\ z < PROCESS_MAX
    BY <1>5, SchedulerAssumption DEF Reapable, Slots
  <2> QED BY <1>1, <2>1 DEF Reapt, Visited
<1>7. PICK p \in Slots \ {Idle} : Live(kk.tab[p]) /\ kk.tab[p].pid = kk.tab[z].ppid
  BY <1>2, <1>6, ParentLives
<1>8. Moved(kk.tab[p], e.tab[p])
  BY <1>2, <1>4, <1>7 DEF Live
<1> QED BY <1>5, <1>7, <1>8 DEF Forlorn, Moved, SameContext, Live

(* process_exit, process_sleep and scheduler_yield call schedule() in a     *)
(* state in which every invariant of the scheduler holds.                  *)
Reaches(w) == /\ Sound(w, {}) /\ w.tab[w.current].state # "READY"
              /\ w.current = k.current /\ k' = Schedule(w)

LEMMA ExitSchedules ==
    ASSUME Good(k), process_exit
    PROVE  \E w : Reaches(w)
<1> DEFINE b == [Me EXCEPT !.state = "ZOMBIE", !.pc = "dead", !.ustack = NULL]
           f == k.free \cup ({Me.ustack} \ {NULL})
           z == Update(k, Self, b, f)
           w == WakeParent(z, Self)
<1>1. /\ k \in KernelState /\ Self \in Slots /\ Me = k.tab[Self] /\ Self = k.current
      /\ Me \in PCB /\ k.free \in SUBSET Blocks
  BY GoodParts, StateParts DEF Self, Sound
<1>2. Bury(k, Self) = z
  BY <1>1 DEF Bury
<1>3. Me.pc \in {"run", "user"} /\ k' = Schedule(w)
  BY <1>2, Zenon DEF process_exit, At
<1>4. b \in PCB /\ b.state = "ZOMBIE" /\ b.pid = Me.pid
  BY <1>1, BuryPCB, ZenonT(30)
<1>5. Me.ustack \in Blocks \cup {NULL}
  BY <1>1 DEF PCB
<1>6. f \in SUBSET Blocks
  BY <1>1, <1>5
<1> HIDE DEF b, f
<1>7. Me.pc # "idle" /\ b.state \notin {"READY", "RUNNING", "UNUSED"}
  BY <1>3, <1>4
<1>8. Sound(z, {}) /\ z.current = Self /\ z.tab[Self].state = "ZOMBIE"
  BY <1>4, <1>6, <1>7, GoodStop
<1> HIDE DEF z
<1>9. Sound(w, {}) /\ w.current = Self /\ w.tab[w.current].state = "ZOMBIE"
  BY <1>8, WakeParentSound
<1> HIDE DEF w
<1>10. Reaches(w)
  BY <1>1, <1>3, <1>9 DEF Reaches
<1> QED BY <1>10

LEMMA SleepSchedules ==
    ASSUME Good(k), NEW ticks \in Nat, process_sleep(ticks)
    PROVE  \E w : Reaches(w)
<1> DEFINE b == [Me EXCEPT !.state = "SLEEPING", !.sleep_left = ticks]
           w == Update(k, Self, b, k.free)
<1>1. /\ Self = k.current /\ Me \in PCB /\ k.free \in SUBSET Blocks
  BY GoodParts, StateParts DEF Self, Sound
<1>2. Me.pc \in {"run", "user"} /\ k' = Schedule(w)
  BY DEF process_sleep, At
<1>3. b \in PCB /\ b.state = "SLEEPING" /\ b.pid = Me.pid
  BY <1>1, ZenonT(30) DEF PCB, ProcState
<1> HIDE DEF b
<1>4. Me.pc # "idle" /\ b.state \notin {"READY", "RUNNING", "UNUSED"}
  BY <1>2, <1>3
<1>5. Sound(w, {}) /\ w.current = Self /\ w.tab[Self] = b
  BY <1>1, <1>3, <1>4, GoodStop
<1> HIDE DEF w
<1>6. Reaches(w)
  BY <1>1, <1>2, <1>3, <1>5 DEF Reaches
<1> QED BY <1>6

LEMMA YieldSchedules ==
    ASSUME Good(k), scheduler_yield
    PROVE  \E w : Reaches(w)
<1> DEFINE w == [k EXCEPT !.quantum_left = 0]
<1>1. /\ Sound(k, {}) /\ k \in KernelState /\ k.tab[k.current].state = "RUNNING"
  BY GoodParts DEF Self
<1>2. k' = Schedule(w)
  BY DEF scheduler_yield
<1>3. /\ w \in KernelState /\ w.tab = k.tab /\ w.queue = k.queue
      /\ w.current = k.current
  <2>1. 0 \in 0 .. SCHED_QUANTUM_TICKS
    BY SchedulerAssumption
  <2> QED BY <1>1, <2>1, ZenonT(30) DEF KernelState
<1> HIDE DEF w
<1>4. Sound(w, {})
  <2>1. QueuesMatch(w, {}) /\ IdleStands(w)
    BY <1>1, <1>3, QuietChange DEF IdleStands, Sound
  <2> QED BY <1>1, <1>3, <2>1 DEF Sound
<1>5. Reaches(w)
  BY <1>1, <1>2, <1>3, <1>4 DEF Reaches
<1> QED BY <1>5

(* So they leave no zombie without a live parent. *)
LEMMA ReapingStep ==
    ASSUME Good(k), NEW z \in Slots \ {k.current},
           \/ process_exit \/ scheduler_yield
           \/ \E ticks \in 0 .. MaxSleepTicks : process_sleep(ticks)
    PROVE  ~Forlorn(k', z)
<1>1. PICK w : Reaches(w)
  <2>1. ASSUME NEW ticks \in 0 .. MaxSleepTicks, process_sleep(ticks)
        PROVE  \E w : Reaches(w)
    <3>1. ticks \in Nat
      BY ProcessAssumption
    <3> QED BY <2>1, <3>1, SleepSchedules
  <2> QED BY <2>1, ExitSchedules, YieldSchedules
<1> QED BY <1>1, ScheduleReaps DEF Reaches

(* While pids are unique, the zombie of a live process is released by that *)
(* process only, when it waits or exits; and no zombie stays for want of a *)
(* parent when a process exits, yields or sleeps, whoever shares a pid.    *)
THEOREM ZombiesKept == Spec => KeptForParent
<1> DEFINE A == /\ \A p, z \in Slots :
                      /\ k.tab[z].state = "ZOMBIE" /\ k'.tab[z].state = "UNUSED"
                      /\ ~clash /\ Alive(p) /\ p # Idle /\ z \in ZombiesOf(k, p)
                      => p = k.current /\ (process_wait \/ process_exit)
                /\ \A z \in Slots \ {k.current} : Forlorn(k', z) =>
                      ~ \/ process_exit \/ scheduler_yield
                        \/ \E ticks \in 0 .. MaxSleepTicks : process_sleep(ticks)
<1>1. OwnInv /\ [Next]_vars => [A]_vars
  <2> SUFFICES ASSUME OwnInv, Next PROVE A
    OBVIOUS
  <2>1. clash \/ Spares(k, k')
    BY StepStays DEF Stays
  <2>2. Good(k)
    BY DEF OwnInv, IInv
  <2>3. ASSUME NEW p \in Slots, NEW z \in Slots,
               k.tab[z].state = "ZOMBIE", k'.tab[z].state = "UNUSED",
               ~clash, Alive(p), p # Idle, z \in ZombiesOf(k, p)
        PROVE  p = k.current /\ (process_wait \/ process_exit)
    BY <2>1, <2>3 DEF Spares, Alive, Live
  <2>4. ASSUME NEW z \in Slots \ {k.current}, Forlorn(k', z)
        PROVE  ~ \/ process_exit \/ scheduler_yield
                 \/ \E ticks \in 0 .. MaxSleepTicks : process_sleep(ticks)
    BY <2>2, <2>4, ReapingStep
  <2> QED BY <2>3, <2>4
<1> HIDE DEF A
<1>2. Spec => [][A]_vars
  BY <1>1, OwnInvariance, PTL DEF Spec
<1> QED BY <1>2 DEF A, KeptForParent
=============================================================================
