-------------------------- MODULE SchedulerProofs --------------------------
(***************************************************************************)
(* Facts about the operators of Scheduler, for every number of slots,      *)
(* quantum and aging threshold.  First come facts about sequences without  *)
(* repetition, the shape of the ready queues; then one lemma per C         *)
(* function, saying that it keeps the kernel state sound; last, what the   *)
(* scheduler leaves alone (who a process is, what it owns and where it     *)
(* stands), which zombies it releases and which process it dispatches.     *)
(***************************************************************************)
EXTENDS Scheduler, FiniteSetTheorems, WellFoundedInduction, TLAPS

(* The default prover and its time limit; the leaves that are pure logic   *)
(* name Zenon instead.                                                     *)
USE SMTT(30)

-----------------------------------------------------------------------------
(* scheduler_enqueue links p once at the tail. *)
LEMMA AppendOnce ==
    ASSUME NEW S, NEW s \in Seq(S), NEW p \in S, Once(s), p \notin Members(s)
    PROVE  /\ Append(s, p) \in Seq(S)
           /\ Once(Append(s, p))
           /\ Members(Append(s, p)) = Members(s) \cup {p}
<1> DEFINE t == Append(s, p)
<1>1. /\ t \in Seq(S) /\ Len(t) = Len(s) + 1
      /\ \A i \in 1 .. Len(s) : t[i] = s[i]
      /\ t[Len(s) + 1] = p
      /\ Len(s) \in Nat /\ DOMAIN s = 1 .. Len(s) /\ DOMAIN t = 1 .. Len(s) + 1
  OBVIOUS
<1> HIDE DEF t
<1>2. \A i \in 1 .. Len(s) : s[i] # p
  BY <1>1 DEF Members
<1>3. Once(t)
  BY <1>1, <1>2 DEF Once
<1>4. Members(t) = Members(s) \cup {p}
  <2>1. ASSUME NEW x \in Members(t) PROVE x \in Members(s) \cup {p}
    BY <1>1 DEF Members
  <2>2. ASSUME NEW x \in Members(s) PROVE x \in Members(t)
    BY <1>1 DEF Members
  <2>3. p \in Members(t)
    BY <1>1 DEF Members
  <2> QED BY <2>1, <2>2, <2>3
<1> QED BY <1>1, <1>3, <1>4 DEF t

(* pick_next unlinks the head of a queue. *)
LEMMA TailOnce ==
    ASSUME NEW S, NEW s \in Seq(S), Once(s), s # <<>>
    PROVE  /\ Tail(s) \in Seq(S) /\ Once(Tail(s))
           /\ Head(s) \in S /\ Head(s) \in Members(s)
           /\ Members(Tail(s)) = Members(s) \ {Head(s)}
<1> DEFINE t == Tail(s)
<1>1. /\ t \in Seq(S) /\ Len(t) = Len(s) - 1 /\ Head(s) = s[1] /\ Head(s) \in S
      /\ \A i \in 1 .. Len(s) - 1 : t[i] = s[i + 1]
      /\ Len(s) \in Nat /\ Len(s) >= 1
      /\ DOMAIN s = 1 .. Len(s) /\ DOMAIN t = 1 .. Len(s) - 1
  OBVIOUS
<1> HIDE DEF t
<1>2. Once(t)
  <2> SUFFICES ASSUME NEW i \in DOMAIN t, NEW j \in DOMAIN t, t[i] = t[j]
               PROVE  i = j
    BY DEF Once
  <2>1. i + 1 \in DOMAIN s /\ j + 1 \in DOMAIN s /\ s[i + 1] = s[j + 1]
    BY <1>1
  <2>2. i + 1 = j + 1
    BY <2>1 DEF Once
  <2> QED BY <2>2, <1>1
<1>3. Members(t) = Members(s) \ {Head(s)}
  <2>1. ASSUME NEW i \in DOMAIN t PROVE t[i] \in Members(s) \ {s[1]}
    <3>1. i + 1 \in DOMAIN s /\ 1 \in DOMAIN s /\ i + 1 # 1 /\ t[i] = s[i + 1]
      BY <1>1
    <3> QED BY <3>1 DEF Members, Once
  <2>2. ASSUME NEW i \in DOMAIN s, s[i] # s[1] PROVE s[i] \in Members(t)
    <3>1. i - 1 \in DOMAIN t /\ t[i - 1] = s[i]
      BY <2>2, <1>1
    <3> QED BY <3>1 DEF Members
  <2> QED BY <2>1, <2>2, <1>1 DEF Members
<1>4. Head(s) \in Members(s)
  BY <1>1 DEF Members
<1> QED BY <1>1, <1>2, <1>3, <1>4 DEF t

(* Two lists without a common element, one appended to the other. *)
LEMMA ConcatOnce ==
    ASSUME NEW S, NEW s \in Seq(S), NEW t \in Seq(S), Once(s), Once(t),
           Members(s) \cap Members(t) = {}
    PROVE  /\ s \o t \in Seq(S) /\ Once(s \o t)
           /\ Members(s \o t) = Members(s) \cup Members(t)
<1> DEFINE u == s \o t
<1>1. /\ u \in Seq(S) /\ Len(u) = Len(s) + Len(t)
      /\ \A i \in 1 .. Len(s) : u[i] = s[i]
      /\ \A i \in Len(s) + 1 .. Len(s) + Len(t) : u[i] = t[i - Len(s)]
      /\ Len(s) \in Nat /\ Len(t) \in Nat
      /\ DOMAIN s = 1 .. Len(s) /\ DOMAIN t = 1 .. Len(t)
      /\ DOMAIN u = 1 .. Len(s) + Len(t)
  OBVIOUS
<1> HIDE DEF u
<1>2. \A i \in DOMAIN u : \/ i \in DOMAIN s /\ u[i] = s[i]
                          \/ i \notin DOMAIN s /\ i - Len(s) \in DOMAIN t
                             /\ u[i] = t[i - Len(s)]
  BY <1>1
<1>3. \A i \in DOMAIN s, j \in DOMAIN t : s[i] # t[j]
  BY Zenon DEF Members
<1>4. Once(u)
  <2> SUFFICES ASSUME NEW i \in DOMAIN u, NEW j \in DOMAIN u, u[i] = u[j]
               PROVE  i = j
    BY DEF Once
  <2>1. CASE i \in DOMAIN s /\ j \in DOMAIN s
    BY <2>1, <1>2, <1>1 DEF Once
  <2>2. CASE i \notin DOMAIN s /\ j \notin DOMAIN s
    <3>1. i - Len(s) = j - Len(s)
      BY <2>2, <1>2 DEF Once
    <3> QED BY <3>1, <1>1
  <2> QED BY <2>1, <2>2, <1>2, <1>3
<1>5. Members(u) = Members(s) \cup Members(t)
  <2>1. ASSUME NEW i \in DOMAIN u PROVE u[i] \in Members(s) \cup Members(t)
    BY <1>2 DEF Members
  <2>2. ASSUME NEW i \in DOMAIN s PROVE s[i] \in Members(u)
    BY <1>1 DEF Members
  <2>3. ASSUME NEW i \in DOMAIN t PROVE t[i] \in Members(u)
    <3>1. i + Len(s) \in DOMAIN u /\ u[i + Len(s)] = t[i]
      BY <1>1
    <3> QED BY <3>1 DEF Members
  <2> QED BY <2>1, <2>2, <2>3 DEF Members
<1> QED BY <1>1, <1>4, <1>5 DEF u

(* scheduler_dequeue unlinks the element at position n. *)
LEMMA RemoveOnce ==
    ASSUME NEW S, NEW s \in Seq(S), Once(s), NEW n \in DOMAIN s
    PROVE  LET u == SubSeq(s, 1, n - 1) \o SubSeq(s, n + 1, Len(s))
           IN  u \in Seq(S) /\ Once(u) /\ Members(u) = Members(s) \ {s[n]}
<1> DEFINE a == SubSeq(s, 1, n - 1)
           b == SubSeq(s, n + 1, Len(s))
<1>0. Len(s) \in Nat /\ DOMAIN s = 1 .. Len(s) /\ n \in 1 .. Len(s)
  OBVIOUS
<1>1. /\ a \in Seq(S) /\ DOMAIN a = 1 .. n - 1
      /\ \A i \in 1 .. n - 1 : a[i] = s[i]
  BY <1>0
<1>2. /\ b \in Seq(S) /\ DOMAIN b = 1 .. Len(s) - n
      /\ \A i \in 1 .. Len(s) - n : b[i] = s[i + n]
  BY <1>0
<1> HIDE DEF a, b
<1>6. \A i \in DOMAIN b : i + n \in DOMAIN s /\ i + n > n /\ b[i] = s[i + n]
  BY <1>0, <1>2
<1>3. Once(a)
  BY <1>0, <1>1 DEF Once
<1>4. Once(b)
  <2> SUFFICES ASSUME NEW i \in DOMAIN b, NEW j \in DOMAIN b, b[i] = b[j]
               PROVE  i = j
    BY DEF Once
  <2>1. i + n \in DOMAIN s /\ j + n \in DOMAIN s /\ s[i + n] = s[j + n]
    BY <1>6
  <2>2. i + n = j + n
    BY <2>1 DEF Once
  <2> QED BY <2>2, <1>0, <1>2
<1>5. \A i \in DOMAIN a : i \in DOMAIN s /\ i < n /\ a[i] = s[i]
  BY <1>0, <1>1
<1>7. Members(a) \cap Members(b) = {}
  <2> SUFFICES ASSUME NEW i \in DOMAIN a, NEW j \in DOMAIN b, a[i] = b[j]
               PROVE  FALSE
    BY DEF Members
  <2>1. i = j + n
    BY <1>5, <1>6 DEF Once
  <2> QED BY <2>1, <1>0, <1>1, <1>5, <1>6
<1>8. Members(a) \cup Members(b) = Members(s) \ {s[n]}
  <2>1. ASSUME NEW i \in DOMAIN a PROVE a[i] \in Members(s) \ {s[n]}
    BY <1>0, <1>5 DEF Members, Once
  <2>2. ASSUME NEW i \in DOMAIN b PROVE b[i] \in Members(s) \ {s[n]}
    <3>1. i + n \in DOMAIN s /\ i + n # n /\ b[i] = s[i + n]
      BY <1>0, <1>2
    <3> QED BY <3>1 DEF Members, Once
  <2>3. ASSUME NEW i \in DOMAIN s, s[i] # s[n]
        PROVE  s[i] \in Members(a) \cup Members(b)
    <3>1. CASE i < n
      BY <3>1, <1>0, <1>1 DEF Members
    <3>2. CASE i > n
      <4>1. i - n \in DOMAIN b /\ b[i - n] = s[i]
        BY <3>2, <1>0, <1>2
      <4> QED BY <4>1 DEF Members
    <3> QED BY <2>3, <3>1, <3>2, <1>0
  <2> QED BY <2>1, <2>2, <2>3 DEF Members
<1>9. /\ a \o b \in Seq(S) /\ Once(a \o b)
      /\ Members(a \o b) = Members(a) \cup Members(b)
  BY <1>1, <1>2, <1>3, <1>4, <1>7, ConcatOnce
<1> QED BY <1>8, <1>9 DEF a, b

(* Sorted lists every element of a finite set of integers exactly once. *)
LEMMA SortedOnce ==
    ASSUME NEW S \in SUBSET Int, IsFiniteSet(S)
    PROVE  Sorted(S) \in Seq(S) /\ Once(Sorted(S)) /\ Members(Sorted(S)) = S
<1> DEFINE N == Cardinality(S)
           Below(i) == {j \in S : j <= i}
           f == [i \in S |-> Cardinality(Below(i))]
<1>1. N \in Nat
  BY FS_CardinalityType
<1>2. ASSUME NEW i \in S
      PROVE  IsFiniteSet(Below(i)) /\ Cardinality(Below(i)) \in 1 .. N
  <2>1. Below(i) \subseteq S /\ i \in Below(i)
    OBVIOUS
  <2>2. IsFiniteSet(Below(i)) /\ Cardinality(Below(i)) <= N
    BY <2>1, FS_Subset
  <2>3. Cardinality(Below(i)) \in Nat /\ Cardinality(Below(i)) # 0
    BY <2>1, <2>2, FS_CardinalityType, FS_EmptySet
  <2> QED BY <1>1, <2>2, <2>3
<1>3. ASSUME NEW i \in S, NEW j \in S, i < j
      PROVE  Cardinality(Below(i)) < Cardinality(Below(j))
  <2>1. Below(i) \subseteq Below(j) /\ Below(i) # Below(j)
    <3>1. j \in Below(j) /\ j \notin Below(i)
      BY <1>3
    <3>2. \A x \in S : x <= i => x <= j
      BY <1>3
    <3> QED BY <3>1, <3>2, Zenon
  <2> HIDE DEF Below
  <2> QED BY <2>1, <1>2, FS_Subset, FS_CardinalityType
<1>4. f \in Injection(S, 1 .. N)
  <2>1. f \in [S -> 1 .. N]
    BY <1>2
  <2>2. ASSUME NEW i \in S, NEW j \in S, f[i] = f[j] PROVE i = j
    <3>1. ~(i < j) /\ ~(j < i)
      BY <2>2, <1>2, <1>3
    <3> QED BY <3>1
  <2> QED BY <2>1, <2>2, Zenon DEF Injection, IsInjective
<1>5. IsFiniteSet(1 .. N) /\ Cardinality(1 .. N) = N
  BY <1>1, FS_Interval
<1>6. f \in Surjection(S, 1 .. N)
  <2> HIDE DEF f
  <2> QED BY <1>4, <1>5, FS_Injection
<1>7. \A n \in 1 .. N : \E i \in S : Cardinality(Below(i)) = n
  BY <1>6, Zenon DEF Surjection
<1>8. /\ DOMAIN Sorted(S) = 1 .. N
      /\ \A n \in 1 .. N : Sorted(S)[n] \in S /\ Cardinality(Below(Sorted(S)[n])) = n
  BY <1>7 DEF Sorted
<1>9. Sorted(S) \in Seq(S)
  <2> DEFINE g == Sorted(S)
  <2>1. g \in [1 .. N -> S]
    BY <1>8, Zenon DEF Sorted
  <2> HIDE DEF g, N
  <2>2. g \in Seq(S)
    BY <2>1, <1>1
  <2> QED BY <2>2 DEF g
<1>10. Once(Sorted(S))
  <2> SUFFICES ASSUME NEW m \in 1 .. N, NEW n \in 1 .. N,
                      Sorted(S)[m] = Sorted(S)[n]
               PROVE  m = n
    BY <1>8 DEF Once
  <2> QED BY <1>8, Zenon
<1>11. ASSUME NEW i \in S PROVE i \in Members(Sorted(S))
  <2>1. /\ f[i] \in 1 .. N /\ f[i] = Cardinality(Below(i))
    BY <1>2
  <2>2. PICK m \in S : m = Sorted(S)[f[i]] /\ Cardinality(Below(m)) = f[i]
    BY <2>1, <1>8, Zenon
  <2>3. m = i
    BY <2>2, <2>1, <1>4, Zenon DEF Injection, IsInjective
  <2> QED BY <2>1, <2>2, <2>3, <1>8, Zenon DEF Members
<1> QED BY <1>8, <1>9, <1>10, <1>11, Zenon DEF Members

(* Pick lists the elements of s at the given positions exactly once. *)
LEMMA PickOnce ==
    ASSUME NEW S, NEW s \in Seq(S), Once(s), NEW K \in SUBSET DOMAIN s
    PROVE  /\ Pick(s, K) \in Seq(S) /\ Once(Pick(s, K))
           /\ Members(Pick(s, K)) = {s[i] : i \in K}
<1> DEFINE N == Cardinality(K)
           o == Sorted(K)
           t == Pick(s, K)
<1>1. Len(s) \in Nat /\ DOMAIN s = 1 .. Len(s) /\ \A i \in DOMAIN s : s[i] \in S
  OBVIOUS
<1>2. IsFiniteSet(K) /\ K \in SUBSET Int
  <2>1. IsFiniteSet(1 .. Len(s)) /\ K \in SUBSET (1 .. Len(s))
    BY <1>1, FS_Interval
  <2> QED BY <1>1, <2>1, FS_Subset
<1>3. N \in Nat
  BY <1>2, FS_CardinalityType
<1>4. o \in Seq(K) /\ Once(o) /\ Members(o) = K
  BY <1>2, SortedOnce
<1>5. DOMAIN o = 1 .. N
  BY DEF Sorted
<1>6. \A n \in 1 .. N : o[n] \in K
  BY <1>4, <1>5 DEF Members
<1>7. DOMAIN t = 1 .. N /\ \A n \in 1 .. N : t[n] = s[o[n]]
  BY DEF Pick
<1>8. t \in [1 .. N -> S]
  BY <1>1, <1>6 DEF Pick
<1> HIDE DEF t, o, N
<1>9. t \in Seq(S)
  BY <1>3, <1>8
<1>10. Once(t)
  BY <1>4, <1>5, <1>6, <1>7 DEF Once
<1>11. Members(t) = {s[i] : i \in K}
  <2>1. ASSUME NEW n \in 1 .. N PROVE t[n] \in {s[i] : i \in K}
    BY <1>6, <1>7
  <2>2. ASSUME NEW i \in K PROVE s[i] \in Members(t)
    <3>1. PICK n \in 1 .. N : o[n] = i
      BY <1>4, <1>5 DEF Members
    <3> QED BY <3>1, <1>7 DEF Members
  <2> QED BY <2>1, <2>2, <1>7 DEF Members
<1> QED BY <1>9, <1>10, <1>11 DEF t

-----------------------------------------------------------------------------
(* The components of a kernel state. *)
LEMMA StateParts ==
    ASSUME NEW k \in KernelState
    PROVE  /\ k.tab \in [Slots -> PCB] /\ k.queue \in [Levels -> Seq(Slots)]
           /\ k.current \in Slots
           /\ k.quantum_left \in 0 .. SCHED_QUANTUM_TICKS
           /\ k.free \in SUBSET Blocks /\ k.torn \in BOOLEAN
BY DEF KernelState

LEMMA PCBParts ==
    ASSUME NEW b \in PCB
    PROVE  /\ b.state \in ProcState /\ b.pid \in Nat
           /\ b.priority \in Levels /\ b.base_priority \in Levels
           /\ b.wait_ticks \in Nat /\ b.sleep_left \in Nat
           /\ b.kstack \in Blocks \cup {NULL} /\ b.ustack \in Blocks \cup {NULL}
BY DEF PCB

LEMMA UnusedPCB ==
    /\ Unused \in PCB /\ Unused.state = "UNUSED"
    /\ Unused.pid = 0 /\ Unused.priority = 0
BY DEF Unused, PCB, ProcState, Levels, Points, NULL, None

LEMMA IdleIsSlot ==
    /\ Idle \in Slots /\ Slots \subseteq Nat /\ Slots \subseteq Int
    /\ IsFiniteSet(Slots)
BY SchedulerAssumption, FS_Interval DEF Idle, Slots

(* The scan for the first slot with some property finds the lowest one. *)
LEMMA MinOf ==
    ASSUME NEW S \in SUBSET Nat, S # {}
    PROVE  Min(S) \in S /\ \A y \in S : Min(S) <= y
<1>1. PICK x \in S : \A y \in S : ~(<<y, x>> \in OpToRel(<, Nat))
  BY NatLessThanWellFounded, WFMin, Zenon
<1>2. ASSUME NEW y \in S PROVE x <= y
  <2>0. y \in Nat /\ x \in Nat
    OBVIOUS
  <2>1. ~(<<y, x>> \in OpToRel(<, Nat))
    BY <1>1, Zenon
  <2>2. ~(y < x)
    <3> SUFFICES ASSUME y < x PROVE FALSE
      OBVIOUS
    <3>1. <<y, x>> \in Nat \X Nat /\ <<y, x>>[1] < <<y, x>>[2]
      BY <2>0
    <3> QED BY <2>1, <3>1 DEF OpToRel
  <2> QED BY <2>0, <2>2
<1> QED BY <1>2, Zenon DEF Min

LEMMA ByPidFound ==
    ASSUME NEW k, NEW x
    PROVE  \/ /\ ByPid(k, x) \in Slots
              /\ k.tab[ByPid(k, x)].state # "UNUSED"
              /\ k.tab[ByPid(k, x)].pid = x
           \/ /\ ByPid(k, x) = None
              /\ \A p \in Slots : k.tab[p].state # "UNUSED" => k.tab[p].pid # x
<1> DEFINE S == {p \in Slots : k.tab[p].state # "UNUSED" /\ k.tab[p].pid = x}
<1>1. S \in SUBSET Nat
  BY IdleIsSlot, Zenon
<1>2. CASE S = {}
  BY <1>2 DEF ByPid
<1>3. CASE S # {}
  <2>1. ByPid(k, x) = Min(S)
    BY <1>3 DEF ByPid
  <2> QED BY <2>1, <1>1, <1>3, MinOf
<1> QED BY <1>2, <1>3

LEMMA ByPidIdle ==
    ASSUME NEW k, IdleStands(k)
    PROVE  ByPid(k, 0) = Idle
<1>1. Idle \in Slots /\ k.tab[Idle].state # "UNUSED" /\ k.tab[Idle].pid = 0
  BY IdleIsSlot DEF IdleStands
<1>2. None \notin Slots
  BY IdleIsSlot DEF None
<1> QED BY <1>1, <1>2, ByPidFound DEF IdleStands

LEMMA PCBWaitTicks ==
    ASSUME NEW b \in PCB, NEW n \in Nat
    PROVE  LET c == [b EXCEPT !.wait_ticks = n]
           IN  /\ c \in PCB /\ c.state = b.state /\ c.priority = b.priority
               /\ c.pid = b.pid /\ c.pc = b.pc
BY DEF PCB

(* scheduler_enqueue completes the queues for a READY process that is not  *)
(* linked yet.                                                             *)
LEMMA EnqueueSound ==
    ASSUME NEW k, NEW X, NEW p \in Slots \ {Idle}, p \notin X,
           Sound(k, X \cup {p}), k.tab[p].state = "READY"
    PROVE  /\ Sound(Enqueue(k, p), X)
           /\ Enqueue(k, p).current = k.current
           /\ \A r \in Slots : Enqueue(k, p).tab[r].state = k.tab[r].state
<1> DEFINE l == k.tab[p].priority
           t == [k.tab EXCEPT ![p] = [@ EXCEPT !.wait_ticks = 0]]
           s == [k.queue EXCEPT ![l] = Append(@, p)]
           e == [k EXCEPT !.tab = t, !.queue = s]
<1>1. /\ k \in KernelState /\ QueuesMatch(k, X \cup {p}) /\ IdleStands(k)
      /\ \A r \in Slots : k.tab[r].state = "RUNNING" => r = k.current
      /\ k.tab \in [Slots -> PCB] /\ k.queue \in [Levels -> Seq(Slots)]
  BY StateParts DEF Sound
<1>2. k.tab[p].pid # 0 /\ l \in Levels
  BY <1>1, PCBParts DEF IdleStands
<1>3. /\ k.queue[l] \in Seq(Slots) /\ Once(k.queue[l])
      /\ Members(k.queue[l]) = ReadyAt(k, l) \ (X \cup {p})
  BY <1>1, <1>2 DEF QueuesMatch
<1>4. /\ Append(k.queue[l], p) \in Seq(Slots) /\ Once(Append(k.queue[l], p))
      /\ Members(Append(k.queue[l], p)) = (ReadyAt(k, l) \ (X \cup {p})) \cup {p}
  BY <1>3, AppendOnce
<1>5. t \in [Slots -> PCB] /\ s \in [Levels -> Seq(Slots)]
  BY <1>1, <1>2, <1>4, PCBWaitTicks, Zenon
<1>6. \A r \in Slots : /\ t[r].state = k.tab[r].state
                       /\ t[r].priority = k.tab[r].priority
                       /\ t[r].pid = k.tab[r].pid
                       /\ t[r].pc = k.tab[r].pc
  BY <1>1, PCBWaitTicks
<1>7. Enqueue(k, p) = e
  BY <1>1, <1>2 DEF Enqueue, KernelState
<1>8. \A q \in Levels : s[q] = IF q = l THEN Append(k.queue[l], p) ELSE k.queue[q]
  BY <1>1, <1>2
<1> HIDE DEF t, s
<1>9. e \in KernelState /\ e.tab = t /\ e.queue = s /\ e.current = k.current
  BY <1>1, <1>5, Zenon DEF KernelState
<1> HIDE DEF e
<1>10. QueuesMatch(e, X)
  <2> SUFFICES ASSUME NEW q \in Levels
               PROVE  Once(s[q]) /\ Members(s[q]) = ReadyAt(k, q) \ X
    BY <1>6, <1>9 DEF QueuesMatch, ReadyAt
  <2>1. CASE q = l
    BY <2>1, <1>4, <1>8 DEF ReadyAt
  <2>2. CASE q # l
    <3>1. p \notin ReadyAt(k, q)
      BY <2>2 DEF ReadyAt
    <3>2. ReadyAt(k, q) \ (X \cup {p}) = ReadyAt(k, q) \ X
      BY <3>1
    <3>3. s[q] = k.queue[q]
      BY <2>2, <1>8
    <3> QED BY <3>2, <3>3, <1>1 DEF QueuesMatch
  <2> QED BY <2>1, <2>2
<1>11. IdleStands(e)
  BY <1>1, <1>6, <1>9, IdleIsSlot DEF IdleStands
<1> QED BY <1>1, <1>6, <1>7, <1>9, <1>10, <1>11 DEF Sound

(* Changes that leave READY processes alone leave the queues right. *)
LEMMA QuietChange ==
    ASSUME NEW k, NEW e, NEW X, QueuesMatch(k, X), e.queue = k.queue,
           \A r \in Slots \ {Idle} :
              "READY" \in {k.tab[r].state, e.tab[r].state} =>
                 /\ e.tab[r].state = k.tab[r].state
                 /\ e.tab[r].priority = k.tab[r].priority
    PROVE  QueuesMatch(e, X)
<1>1. \A q \in Levels : ReadyAt(e, q) = ReadyAt(k, q)
  BY DEF ReadyAt
<1> QED BY <1>1 DEF QueuesMatch

(* A process that is not READY need not be exempted, and neither need the  *)
(* idle process.                                                           *)
LEMMA Exempt ==
    ASSUME NEW k, NEW X, NEW p, p = Idle \/ k.tab[p].state # "READY"
    PROVE  /\ QueuesMatch(k, X \cup {p}) <=> QueuesMatch(k, X)
           /\ Sound(k, X \cup {p}) <=> Sound(k, X)
<1>1. \A q \in Levels : p \notin ReadyAt(k, q)
  BY DEF ReadyAt
<1>2. \A q \in Levels : ReadyAt(k, q) \ (X \cup {p}) = ReadyAt(k, q) \ X
  BY <1>1
<1>3. QueuesMatch(k, X \cup {p}) <=> QueuesMatch(k, X)
  BY <1>2 DEF QueuesMatch
<1> QED BY <1>3 DEF Sound

(* process_release of exited processes. *)
LEMMA ReleaseSound ==
    ASSUME NEW k, Sound(k, {}), NEW P \in SUBSET Slots,
           \A p \in P : k.tab[p].state = "ZOMBIE"
    PROVE  LET e == Release(k, P)
           IN  /\ Sound(e, {}) /\ e.current = k.current
               /\ \A r \in Slots : k.tab[r].state # "ZOMBIE" => e.tab[r] = k.tab[r]
               /\ e.tab[e.current] = k.tab[k.current]
               /\ e.quantum_left = k.quantum_left
<1> DEFINE R == P \ {k.current}
           t == [p \in Slots |-> IF p \in R THEN Unused ELSE k.tab[p]]
           f == k.free \cup ((UNION {{k.tab[p].kstack, k.tab[p].ustack} : p \in R})
                               \ {NULL})
           w == k.torn \/ \E p \in R : {k.tab[p].kloc, k.tab[p].uloc} # {NULL}
           e == [k EXCEPT !.tab = t, !.free = f, !.torn = w]
<1>1. /\ k \in KernelState /\ QueuesMatch(k, {}) /\ IdleStands(k)
      /\ \A r \in Slots : k.tab[r].state = "RUNNING" => r = k.current
      /\ k.tab \in [Slots -> PCB] /\ k.current \in Slots
      /\ k.free \in SUBSET Blocks /\ k.torn \in BOOLEAN
  BY StateParts DEF Sound
<1>2. Release(k, P) = e
  BY <1>1 DEF Release, KernelState
<1>3. Unused \in PCB /\ Unused.state = "UNUSED"
  BY UnusedPCB
<1>4. t \in [Slots -> PCB]
  BY <1>1, <1>3
<1>5. f \in SUBSET Blocks
  <2>1. \A p \in R : {k.tab[p].kstack, k.tab[p].ustack} \subseteq Blocks \cup {NULL}
    BY <1>1, PCBParts
  <2> QED BY <1>1, <2>1
<1>6. w \in BOOLEAN
  BY <1>1
<1>7. \A r \in Slots : t[r] = k.tab[r] \/ (k.tab[r].state = "ZOMBIE" /\ t[r] = Unused)
  OBVIOUS
<1>8. t[k.current] = k.tab[k.current]
  BY <1>1
<1> HIDE DEF t, f, w
<1>9. /\ e \in KernelState /\ e.tab = t /\ e.queue = k.queue
      /\ e.current = k.current /\ e.quantum_left = k.quantum_left
  BY <1>1, <1>4, <1>5, <1>6, Zenon DEF KernelState
<1> HIDE DEF e
<1>10. QueuesMatch(e, {})
  BY <1>1, <1>3, <1>7, <1>9, QuietChange
<1>11. IdleStands(e)
  BY <1>1, <1>3, <1>7, <1>9, IdleIsSlot DEF IdleStands
<1>12. Sound(e, {})
  BY <1>1, <1>3, <1>7, <1>9, <1>10, <1>11 DEF Sound
<1>13. \A r \in Slots : k.tab[r].state # "ZOMBIE" => e.tab[r] = k.tab[r]
  BY <1>7, <1>9
<1> QED BY <1>2, <1>8, <1>9, <1>12, <1>13

(* reap_orphans. *)
LEMMA ReapSound ==
    ASSUME NEW k, Sound(k, {})
    PROVE  LET e == ReapOrphans(k)
           IN  /\ Sound(e, {}) /\ e.current = k.current
               /\ \A r \in Slots : k.tab[r].state # "ZOMBIE" => e.tab[r] = k.tab[r]
               /\ e.tab[e.current] = k.tab[k.current]
               /\ e.quantum_left = k.quantum_left
<1>1. PICK G : ReapOrphans(k) = Release(k, Reapable(k) \cap G)
  BY Zenon DEF ReapOrphans
<1>2. /\ Reapable(k) \cap G \in SUBSET Slots
      /\ \A p \in Reapable(k) \cap G : k.tab[p].state = "ZOMBIE"
  BY DEF Reapable
<1> QED BY <1>1, <1>2, ReleaseSound

(* scheduler_dequeue unlinks p, if it was linked, and changes nothing else. *)
LEMMA DequeueSound ==
    ASSUME NEW k, NEW p \in Slots, Sound(k, {})
    PROVE  /\ Sound(Dequeue(k, p), {p})
           /\ \E s : Dequeue(k, p) = [k EXCEPT !.queue = s]
<1> DEFINE At(q) == {i \in DOMAIN k.queue[q] : k.queue[q][i] = p}
           Held  == {q \in Levels : At(q) # {}}
           l     == Min(Held)
           n     == Min(At(l))
           u     == SubSeq(k.queue[l], 1, n - 1) \o
                       SubSeq(k.queue[l], n + 1, Len(k.queue[l]))
           s     == [k.queue EXCEPT ![l] = u]
           e     == [k EXCEPT !.queue = s]
<1>1. /\ k \in KernelState /\ QueuesMatch(k, {}) /\ IdleStands(k)
      /\ \A r \in Slots : k.tab[r].state = "RUNNING" => r = k.current
      /\ k.queue \in [Levels -> Seq(Slots)]
  BY StateParts DEF Sound
<1>2. \A q \in Levels : p \in Members(k.queue[q]) <=> At(q) # {}
  BY DEF Members
<1>3. CASE Held = {}
  <2>1. Dequeue(k, p) = k
    BY <1>3 DEF Dequeue
  <2>2. \A q \in Levels : p \notin ReadyAt(k, q)
    BY <1>1, <1>2, <1>3 DEF QueuesMatch
  <2>3. QueuesMatch(k, {p})
    <3>1. \A q \in Levels : ReadyAt(k, q) \ {p} = ReadyAt(k, q) \ {}
      BY <2>2
    <3> QED BY <3>1, <1>1 DEF QueuesMatch
  <2>4. k = [k EXCEPT !.queue = k.queue]
    BY <1>1 DEF KernelState
  <2> QED BY <1>1, <2>1, <2>3, <2>4 DEF Sound
<1>4. CASE Held # {}
  <2>1. Dequeue(k, p) = e
    BY <1>4, <1>1, Zenon DEF Dequeue, KernelState
  <2>2. l \in Levels /\ At(l) # {}
    <3>1. Held \in SUBSET Nat
      BY DEF Levels
    <3>2. l \in Held
      BY <3>1, <1>4, MinOf, Zenon
    <3> QED BY <3>2, Zenon
  <2>3. n \in DOMAIN k.queue[l] /\ k.queue[l][n] = p
    <3>1. At(l) \in SUBSET Nat
      <4>1. l \in Levels
        BY <2>2
      <4> HIDE DEF l
      <4>2. k.queue[l] \in Seq(Slots)
        BY <4>1, <1>1
      <4> QED BY <4>2
    <3>2. n \in At(l)
      BY <3>1, <2>2, MinOf, Zenon
    <3> QED BY <3>2, Zenon
  <2> HIDE DEF n, l, At
  <2>4. /\ k.queue[l] \in Seq(Slots) /\ Once(k.queue[l])
        /\ Members(k.queue[l]) = ReadyAt(k, l)
    BY <1>1, <2>2 DEF QueuesMatch
  <2>5. u \in Seq(Slots) /\ Once(u) /\ Members(u) = ReadyAt(k, l) \ {p}
    BY <2>3, <2>4, RemoveOnce
  <2>6. p \in ReadyAt(k, l)
    BY <2>3, <2>4 DEF Members
  <2> HIDE DEF u
  <2>7. /\ s \in [Levels -> Seq(Slots)]
        /\ \A q \in Levels : s[q] = IF q = l THEN u ELSE k.queue[q]
    BY <1>1, <2>5, Zenon
  <2> HIDE DEF s
  <2>8. e \in KernelState /\ e.tab = k.tab /\ e.queue = s /\ e.current = k.current
    BY <1>1, <2>7, Zenon DEF KernelState
  <2>9. QueuesMatch(e, {p})
    <3> SUFFICES ASSUME NEW q \in Levels
                 PROVE  Once(s[q]) /\ Members(s[q]) = ReadyAt(k, q) \ {p}
      BY <2>8 DEF QueuesMatch, ReadyAt
    <3>1. CASE q = l
      BY <3>1, <2>5, <2>7
    <3>2. CASE q # l
      <4>1. p \notin ReadyAt(k, q)
        BY <3>2, <2>6 DEF ReadyAt
      <4>2. Once(k.queue[q]) /\ Members(k.queue[q]) = ReadyAt(k, q)
        BY <1>1 DEF QueuesMatch
      <4> QED BY <4>1, <4>2, <3>2, <2>7
    <3> QED BY <3>1, <3>2
  <2>10. IdleStands(e)
    BY <1>1, <2>8 DEF IdleStands
  <2> QED BY <1>1, <2>1, <2>8, <2>9, <2>10, Zenon DEF Sound
<1> QED BY <1>3, <1>4

LEMMA PCBWoken ==
    ASSUME NEW b \in PCB
    PROVE  LET c == [b EXCEPT !.state = "READY", !.sleep_left = 0]
           IN  /\ c \in PCB /\ c.state = "READY"
               /\ c.priority = b.priority /\ c.pid = b.pid
BY Zenon DEF PCB, ProcState

LEMMA PCBRequeued ==
    ASSUME NEW b \in PCB, NEW n \in Levels
    PROVE  LET c == [b EXCEPT !.state = "READY", !.priority = n]
           IN  c \in PCB /\ c.state = "READY" /\ c.pid = b.pid /\ c.pc = b.pc
BY Zenon DEF PCB, ProcState

LEMMA PCBDispatched ==
    ASSUME NEW b \in PCB, NEW n \in Levels
    PROVE  LET c == [b EXCEPT !.state = "RUNNING", !.priority = n, !.wait_ticks = 0]
           IN  c \in PCB /\ c.state = "RUNNING" /\ c.pid = b.pid /\ c.pc = b.pc
BY Zenon DEF PCB, ProcState

(* Making one process READY leaves a sound state once it is exempted. *)
LEMMA MadeReady ==
    ASSUME NEW k, NEW X, Sound(k, X), NEW p \in Slots \ {Idle},
           k.tab[p].state # "READY",
           NEW b \in PCB, b.state = "READY", b.pid = k.tab[p].pid,
           k.tab[p].state # "UNUSED"
    PROVE  LET e == [k EXCEPT !.tab = [k.tab EXCEPT ![p] = b]]
           IN  /\ Sound(e, X \cup {p})
               /\ e.tab[p] = b /\ e.current = k.current
               /\ \A r \in Slots \ {p} : e.tab[r] = k.tab[r]
<1> DEFINE t == [k.tab EXCEPT ![p] = b]
           e == [k EXCEPT !.tab = t]
<1>1. /\ k \in KernelState /\ QueuesMatch(k, X) /\ IdleStands(k)
      /\ \A r \in Slots : k.tab[r].state = "RUNNING" => r = k.current
      /\ k.tab \in [Slots -> PCB]
  BY StateParts DEF Sound
<1>2. /\ t \in [Slots -> PCB] /\ t[p] = b
      /\ \A r \in Slots \ {p} : t[r] = k.tab[r]
  BY <1>1
<1> HIDE DEF t
<1>3. /\ e \in KernelState /\ e.tab = t /\ e.queue = k.queue
      /\ e.current = k.current
  BY <1>1, <1>2, Zenon DEF KernelState
<1> HIDE DEF e
<1>4. QueuesMatch(e, X \cup {p})
  <2>1. QueuesMatch(k, X \cup {p})
    BY <1>1, Exempt, Zenon
  <2>2. \A q \in Levels : ReadyAt(e, q) \ (X \cup {p}) = ReadyAt(k, q) \ (X \cup {p})
    BY <1>2, <1>3 DEF ReadyAt
  <2> QED BY <2>1, <2>2, <1>3 DEF QueuesMatch
<1>5. IdleStands(e)
  BY <1>1, <1>2, <1>3, IdleIsSlot DEF IdleStands
<1>6. Sound(e, X \cup {p})
  BY <1>1, <1>2, <1>3, <1>4, <1>5 DEF Sound
<1> QED BY <1>2, <1>3, <1>6 DEF e, t

(* scheduler_unblock. *)
LEMMA UnblockSound ==
    ASSUME NEW k, Sound(k, {}), NEW p \in Slots
    PROVE  LET e == Unblock(k, p)
           IN  /\ Sound(e, {}) /\ e.current = k.current
               /\ k.tab[k.current].state \notin {"BLOCKED", "SLEEPING"} =>
                     e.tab[e.current].state = k.tab[k.current].state
<1> DEFINE b == [k.tab[p] EXCEPT !.state = "READY", !.sleep_left = 0]
           e == [k EXCEPT !.tab = [k.tab EXCEPT ![p] = b]]
<1>1. /\ k \in KernelState /\ IdleStands(k) /\ k.tab \in [Slots -> PCB]
      /\ k.current \in Slots
  BY StateParts DEF Sound
<1>2. CASE k.tab[p].state \notin {"BLOCKED", "SLEEPING"}
  <2>1. Unblock(k, p) = k
    BY <1>2 DEF Unblock
  <2> QED BY <2>1
<1>3. CASE k.tab[p].state \in {"BLOCKED", "SLEEPING"}
  <2>1. Unblock(k, p) = Enqueue(e, p)
    BY <1>1, <1>3, Zenon DEF Unblock, KernelState
  <2>2. p # Idle
    BY <1>1, <1>3 DEF IdleStands
  <2>3. b \in PCB /\ b.state = "READY" /\ b.pid = k.tab[p].pid
    BY <1>1, PCBWoken, Zenon
  <2> HIDE DEF b
  <2>4. /\ Sound(e, {p}) /\ e.tab[p] = b /\ e.current = k.current
        /\ \A r \in Slots \ {p} : e.tab[r] = k.tab[r]
    <3>1. {} \cup {p} = {p}
      OBVIOUS
    <3> QED BY <1>3, <2>2, <2>3, <3>1, MadeReady
  <2> HIDE DEF e
  <2>5. /\ Sound(Enqueue(e, p), {}) /\ Enqueue(e, p).current = e.current
        /\ \A r \in Slots : Enqueue(e, p).tab[r].state = e.tab[r].state
    <3>1. {} \cup {p} = {p}
      OBVIOUS
    <3> QED BY <2>2, <2>3, <2>4, <3>1, EnqueueSound
  <2> QED BY <1>1, <1>3, <2>1, <2>4, <2>5
<1> QED BY <1>2, <1>3

(* The wake-up of a waiting parent. *)
LEMMA WakeParentSound ==
    ASSUME NEW k, Sound(k, {}), NEW p
    PROVE  LET e == WakeParent(k, p)
           IN  /\ Sound(e, {}) /\ e.current = k.current
               /\ k.tab[k.current].state \notin {"BLOCKED", "SLEEPING"} =>
                     e.tab[e.current].state = k.tab[k.current].state
<1> DEFINE parent == ByPid(k, k.tab[p].ppid)
<1>1. CASE WakeParent(k, p) = k
  BY <1>1
<1>2. CASE parent # None /\ WakeParent(k, p) = Unblock(k, parent)
  <2>1. parent \in Slots
    BY <1>2, ByPidFound
  <2> QED BY <1>2, <2>1, UnblockSound
<1> QED BY <1>1, <1>2, Zenon DEF WakeParent

-----------------------------------------------------------------------------
(* schedule() has put the outgoing process back: nobody runs, and next is  *)
(* no longer linked.                                                       *)
Between(k, next) ==
    /\ k \in KernelState
    /\ QueuesMatch(k, {next})
    /\ k.tab[Idle].pid = 0 /\ k.tab[Idle].pc = "idle" /\ k.tab[Idle].state = "READY"
    /\ \A p \in Slots \ {Idle} : k.tab[p].state # "UNUSED" => k.tab[p].pid # 0
    /\ \A p \in Slots : k.tab[p].state # "RUNNING"
    /\ k.tab[next].state = "READY"

(* The dispatch of next, the last part of schedule(). *)
LEMMA DispatchSound ==
    ASSUME NEW k, NEW next \in Slots, Between(k, next)
    PROVE  LET e == Dispatch(k, next)
           IN  Sound(e, {}) /\ e.tab[e.current].state = "RUNNING"
<1> DEFINE b == [k.tab[next] EXCEPT !.state = "RUNNING",
                                    !.priority = k.tab[next].base_priority,
                                    !.wait_ticks = 0]
           t == [k.tab EXCEPT ![next] = b]
           e == [k EXCEPT !.tab = t, !.current = next,
                          !.quantum_left = SCHED_QUANTUM_TICKS]
<1>1. /\ k \in KernelState /\ k.tab \in [Slots -> PCB]
      /\ SCHED_QUANTUM_TICKS \in 0 .. SCHED_QUANTUM_TICKS
  BY StateParts, SchedulerAssumption DEF Between
<1>2. Dispatch(k, next) = e
  BY <1>1 DEF Dispatch, KernelState
<1>3. /\ b \in PCB /\ b.state = "RUNNING" /\ b.pid = k.tab[next].pid
      /\ b.pc = k.tab[next].pc
  <2>1. k.tab[next] \in PCB /\ k.tab[next].base_priority \in Levels
    BY <1>1, PCBParts
  <2> QED BY <2>1, PCBDispatched, Zenon
<1> HIDE DEF b
<1>4. /\ t \in [Slots -> PCB] /\ t[next] = b
      /\ \A r \in Slots \ {next} : t[r] = k.tab[r]
  BY <1>1, <1>3
<1> HIDE DEF t
<1>5. /\ e \in KernelState /\ e.tab = t /\ e.queue = k.queue /\ e.current = next
  BY <1>1, <1>4, Zenon DEF KernelState
<1> HIDE DEF e
<1>6. QueuesMatch(e, {})
  <2>1. \A q \in Levels : ReadyAt(e, q) \ {} = ReadyAt(k, q) \ {next}
    BY <1>3, <1>4, <1>5 DEF ReadyAt
  <2> QED BY <2>1, <1>5, Zenon DEF QueuesMatch, Between
<1>7. IdleStands(e)
  BY <1>3, <1>4, <1>5, IdleIsSlot DEF IdleStands, Between
<1>8. Sound(e, {}) /\ e.tab[e.current].state = "RUNNING"
  BY <1>3, <1>4, <1>5, <1>6, <1>7 DEF Sound, Between
<1> QED BY <1>2, <1>8

(* The second half of schedule(). *)
LEMMA SwitchToSound ==
    ASSUME NEW k, NEW next \in Slots \ {k.current}, Sound(k, {next}),
           k.tab[next].state = "READY", k.tab[k.current].state # "READY"
    PROVE  LET e == SwitchTo(k, next)
           IN  Sound(e, {}) /\ e.tab[e.current].state = "RUNNING"
<1> DEFINE prev == k.current
           b    == [k.tab[prev] EXCEPT !.state = "READY",
                                       !.priority = k.tab[prev].base_priority]
           t    == [k.tab EXCEPT ![prev] = b]
           m    == [k EXCEPT !.tab = t]
           out  == IF k.tab[prev].state = "RUNNING" THEN Enqueue(m, prev) ELSE k
<1>1. /\ k \in KernelState /\ QueuesMatch(k, {next}) /\ IdleStands(k)
      /\ \A r \in Slots : k.tab[r].state = "RUNNING" => r = prev
      /\ k.tab \in [Slots -> PCB] /\ prev \in Slots
  BY StateParts DEF Sound
<1>2. SwitchTo(k, next) = Dispatch(out, next)
  <2>1. m = Requeued(k, prev)
    BY <1>1 DEF Requeued, KernelState
  <2> HIDE DEF m
  <2> QED BY <2>1 DEF SwitchTo
<1>3. /\ b \in PCB /\ b.state = "READY" /\ b.pid = k.tab[prev].pid
      /\ b.pc = k.tab[prev].pc
  <2>1. k.tab[prev] \in PCB /\ k.tab[prev].base_priority \in Levels
    BY <1>1, PCBParts
  <2> QED BY <2>1, PCBRequeued, Zenon
<1>4. Between(out, next)
  <2> HIDE DEF b
  <2>1. CASE k.tab[prev].state # "RUNNING"
    <3>1. out = k
      BY <2>1
    <3>2. \A r \in Slots : k.tab[r].state # "RUNNING"
      BY <1>1, <2>1
    <3>3. prev # Idle
      BY <1>1, <2>1 DEF IdleStands
    <3> QED BY <1>1, <3>1, <3>2, <3>3 DEF Between, IdleStands
  <2>2. CASE k.tab[prev].state = "RUNNING" /\ prev # Idle
    <3> DEFINE X == {next}
    <3>0. Sound(k, X) /\ prev \notin X /\ prev \in Slots \ {Idle}
      BY <1>1, <2>2
    <3> HIDE DEF X
    <3>1. /\ Sound(m, X \cup {prev}) /\ m.tab[prev] = b /\ m.current = prev
          /\ \A r \in Slots \ {prev} : m.tab[r] = k.tab[r]
      BY <3>0, <1>3, <2>2, MadeReady
    <3> HIDE DEF m
    <3>2. /\ Sound(Enqueue(m, prev), X)
          /\ Enqueue(m, prev).current = prev
          /\ \A r \in Slots : Enqueue(m, prev).tab[r].state = m.tab[r].state
      <4>1. m.tab[prev].state = "READY" /\ Sound(m, X \cup {prev})
        BY <1>3, <3>1
      <4> HIDE DEF prev
      <4>2. m.current = prev
        BY <3>1
      <4> QED BY <3>0, <4>1, <4>2, EnqueueSound, Zenon
    <3>3. out = Enqueue(m, prev)
      BY <2>2
    <3>4. \A r \in Slots : out.tab[r].state # "RUNNING"
      BY <1>1, <1>3, <3>1, <3>2, <3>3
    <3>5. out.tab[next].state = "READY"
      BY <3>1, <3>2, <3>3
    <3> HIDE DEF out
    <3> QED BY <2>2, <3>2, <3>3, <3>4, <3>5 DEF Between, IdleStands, Sound, X
  <2>3. CASE k.tab[prev].state = "RUNNING" /\ prev = Idle
    <3>1. /\ t \in [Slots -> PCB] /\ t[prev] = b
          /\ \A r \in Slots \ {prev} : t[r] = k.tab[r]
      BY <1>1, <1>3
    <3> HIDE DEF t
    <3>2. /\ m \in KernelState /\ m.tab = t /\ m.queue = k.queue
      BY <1>1, <3>1, Zenon DEF KernelState
    <3> HIDE DEF m
    <3>3. out = m
      BY <1>1, <1>3, <2>3, <3>1, <3>2 DEF Enqueue, IdleStands
    <3> HIDE DEF out
    <3>4. QueuesMatch(m, {next})
      <4>1. \A q \in Levels : ReadyAt(m, q) = ReadyAt(k, q)
        BY <2>3, <3>1, <3>2 DEF ReadyAt
      <4> QED BY <1>1, <3>2, <4>1 DEF QueuesMatch
    <3> QED BY <1>1, <1>3, <2>3, <3>1, <3>2, <3>3, <3>4 DEF Between, IdleStands
  <2> QED BY <2>1, <2>2, <2>3
<1> HIDE DEF out
<1> QED BY <1>2, <1>4, DispatchSound

(* schedule(): whatever the current process has become, there is a process *)
(* to run, and it alone is RUNNING.                                        *)
LEMMA ScheduleSound ==
    ASSUME NEW k, Sound(k, {}), k.tab[k.current].state # "READY"
    PROVE  LET e == Schedule(k)
           IN  Sound(e, {}) /\ e.tab[e.current].state = "RUNNING"
<1> DEFINE r     == ReapOrphans(k)
           Ready == {q \in Levels : r.queue[q] # <<>>}
           top   == Min(Ready)
           h     == Head(r.queue[top])
           s     == [r.queue EXCEPT ![top] = Tail(@)]
           u     == [r EXCEPT !.queue = s]
<1>1. Sound(r, {}) /\ r.tab[r.current].state # "READY"
  BY ReapSound
<1>2. Eager(r) = r
  BY DEF Eager
<1> HIDE DEF r
<1>3. /\ r \in KernelState /\ QueuesMatch(r, {}) /\ IdleStands(r)
      /\ \A p \in Slots : r.tab[p].state = "RUNNING" => p = r.current
      /\ r.tab \in [Slots -> PCB] /\ r.current \in Slots
      /\ r.queue \in [Levels -> Seq(Slots)]
  BY <1>1, StateParts DEF Sound
<1>4. CASE Ready # {}
  <2>1. top \in Levels /\ r.queue[top] # <<>>
    <3>1. Ready \in SUBSET Nat
      BY DEF Levels
    <3>2. top \in Ready
      BY <3>1, <1>4, MinOf, Zenon
    <3> QED BY <3>2
  <2>2. Schedule(k) = SwitchTo([r EXCEPT !.queue[top] = Tail(@)], h)
    BY <1>2, <1>4 DEF Schedule, r
  <2>3. [r EXCEPT !.queue[top] = Tail(@)] = u
    BY <1>3 DEF KernelState
  <2> HIDE DEF top
  <2>4. /\ r.queue[top] \in Seq(Slots) /\ Once(r.queue[top])
        /\ Members(r.queue[top]) = ReadyAt(r, top)
    BY <1>3, <2>1 DEF QueuesMatch
  <2>5. /\ Tail(r.queue[top]) \in Seq(Slots) /\ Once(Tail(r.queue[top]))
        /\ h \in ReadyAt(r, top)
        /\ Members(Tail(r.queue[top])) = ReadyAt(r, top) \ {h}
    BY <2>1, <2>4, TailOnce
  <2> HIDE DEF h
  <2>6. /\ s \in [Levels -> Seq(Slots)]
        /\ \A q \in Levels : s[q] = IF q = top THEN Tail(r.queue[top]) ELSE r.queue[q]
    BY <1>3, <2>1, <2>5
  <2> HIDE DEF s
  <2>7. u \in KernelState /\ u.tab = r.tab /\ u.queue = s /\ u.current = r.current
    BY <1>3, <2>6, Zenon DEF KernelState
  <2> HIDE DEF u
  <2>8. QueuesMatch(u, {h})
    <3> SUFFICES ASSUME NEW q \in Levels
                 PROVE  Once(s[q]) /\ Members(s[q]) = ReadyAt(r, q) \ {h}
      BY <2>7 DEF QueuesMatch, ReadyAt
    <3>1. CASE q = top
      BY <3>1, <2>5, <2>6, Zenon
    <3>2. CASE q # top
      <4>1. h \notin ReadyAt(r, q)
        BY <3>2, <2>5 DEF ReadyAt
      <4>2. Once(r.queue[q]) /\ Members(r.queue[q]) = ReadyAt(r, q)
        BY <1>3 DEF QueuesMatch
      <4> QED BY <4>1, <4>2, <3>2, <2>6
    <3> QED BY <3>1, <3>2
  <2>9. IdleStands(u)
    BY <1>3, <2>7 DEF IdleStands
  <2>10. Sound(u, {h})
    BY <1>3, <2>7, <2>8, <2>9 DEF Sound
  <2>11. /\ h \in Slots \ {u.current} /\ u.tab[h].state = "READY"
         /\ u.tab[u.current].state # "READY"
    BY <1>1, <2>5, <2>7 DEF ReadyAt
  <2> QED BY <2>2, <2>3, <2>10, <2>11, SwitchToSound, Zenon
<1>5. CASE Ready = {} /\ r.tab[r.current].state = "RUNNING"
  <2> DEFINE e == [r EXCEPT !.quantum_left = SCHED_QUANTUM_TICKS]
  <2>1. Schedule(k) = e
    BY <1>2, <1>5 DEF Schedule, r
  <2>2. /\ e \in KernelState /\ e.tab = r.tab /\ e.queue = r.queue
        /\ e.current = r.current
    <3>1. SCHED_QUANTUM_TICKS \in 0 .. SCHED_QUANTUM_TICKS
      BY SchedulerAssumption
    <3> QED BY <1>3, <3>1, Zenon DEF KernelState
  <2> HIDE DEF e
  <2>3. QueuesMatch(e, {}) /\ IdleStands(e)
    BY <1>3, <2>2, QuietChange DEF IdleStands
  <2> QED BY <1>3, <1>5, <2>1, <2>2, <2>3 DEF Sound
<1>6. CASE Ready = {} /\ r.tab[r.current].state # "RUNNING"
  <2>1. ByPid(r, 0) = Idle /\ r.current # Idle /\ r.tab[Idle].state = "READY"
    BY <1>3, <1>6, ByPidIdle DEF IdleStands
  <2>2. Idle \in Slots \ {r.current} /\ Idle # None
    BY <2>1, IdleIsSlot DEF Idle, None
  <2>3. Schedule(k) = SwitchTo(r, Idle)
    BY <1>2, <1>6, <2>1, <2>2 DEF Schedule, r
  <2>4. Sound(r, {Idle})
    <3>1. {} \cup {Idle} = {Idle}
      OBVIOUS
    <3> QED BY <1>1, <3>1, Exempt
  <2> QED BY <1>1, <2>1, <2>2, <2>3, <2>4, SwitchToSound
<1> QED BY <1>4, <1>5, <1>6

-----------------------------------------------------------------------------
LEMMA PCBSlept ==
    ASSUME NEW b \in PCB
    PROVE  LET c == [b EXCEPT !.state = "READY", !.sleep_left = 0, !.wait_ticks = 0]
           IN  /\ c \in PCB /\ c.state = "READY"
               /\ c.priority = b.priority /\ c.pid = b.pid /\ c.pc = b.pc
BY Zenon DEF PCB, ProcState

LEMMA PCBSleeps ==
    ASSUME NEW b \in PCB, b.sleep_left > 1
    PROVE  LET c == [b EXCEPT !.sleep_left = @ - 1]
           IN  /\ c \in PCB /\ c.state = b.state
               /\ c.priority = b.priority /\ c.pid = b.pid /\ c.pc = b.pc
<1>1. b.sleep_left - 1 \in Nat
  BY PCBParts
<1> QED BY <1>1 DEF PCB

(* wake_sleepers. *)
LEMMA WakeSleepersSound ==
    ASSUME NEW k, Sound(k, {})
    PROVE  LET e == WakeSleepers(k)
           IN  /\ Sound(e, {}) /\ e.current = k.current
               /\ k.tab[k.current].state # "SLEEPING" =>
                     e.tab[e.current].state = k.tab[k.current].state
<1> DEFINE Due  == {p \in Slots : /\ k.tab[p].state = "SLEEPING"
                                  /\ k.tab[p].sleep_left <= 1}
           Woken(p) ==
              IF p \in Due
              THEN [k.tab[p] EXCEPT !.state = "READY", !.sleep_left = 0,
                                    !.wait_ticks = 0]
              ELSE IF k.tab[p].state = "SLEEPING"
                   THEN [k.tab[p] EXCEPT !.sleep_left = @ - 1]
                   ELSE k.tab[p]
           D(q) == {p \in Due : k.tab[p].priority = q /\ k.tab[p].pid # 0}
           t    == [p \in Slots |-> Woken(p)]
           s    == [q \in Levels |-> k.queue[q] \o Sorted(D(q))]
           e    == [k EXCEPT !.tab = t, !.queue = s]
<1>1. /\ k \in KernelState /\ QueuesMatch(k, {}) /\ IdleStands(k)
      /\ \A r \in Slots : k.tab[r].state = "RUNNING" => r = k.current
      /\ k.tab \in [Slots -> PCB] /\ k.queue \in [Levels -> Seq(Slots)]
      /\ k.current \in Slots
  BY StateParts DEF Sound
<1>2. WakeSleepers(k) = e
  BY <1>1 DEF WakeSleepers, KernelState
<1>3. ASSUME NEW p \in Slots
      PROVE  /\ Woken(p) \in PCB /\ Woken(p).priority = k.tab[p].priority
             /\ Woken(p).pid = k.tab[p].pid /\ Woken(p).pc = k.tab[p].pc
             /\ p \in Due => Woken(p).state = "READY"
             /\ p \notin Due => Woken(p).state = k.tab[p].state
  <2>1. k.tab[p] \in PCB /\ k.tab[p].sleep_left \in Nat
    BY <1>1, PCBParts
  <2>2. CASE p \in Due
    <3>1. Woken(p) = [k.tab[p] EXCEPT !.state = "READY", !.sleep_left = 0,
                                    !.wait_ticks = 0]
      BY <2>2
    <3> HIDE DEF Woken, Due
    <3> QED BY <2>1, <2>2, <3>1, PCBSlept, Zenon
  <2>3. CASE p \notin Due /\ k.tab[p].state = "SLEEPING"
    <3>1. k.tab[p].sleep_left > 1
      BY <2>1, <2>3
    <3>2. Woken(p) = [k.tab[p] EXCEPT !.sleep_left = @ - 1]
      BY <2>3
    <3> HIDE DEF Woken, Due
    <3> QED BY <2>1, <2>3, <3>1, <3>2, PCBSleeps
  <2>4. CASE p \notin Due /\ k.tab[p].state # "SLEEPING"
    BY <2>1, <2>4
  <2> QED BY <2>2, <2>3, <2>4
<1>4. \A p \in Due : p \in Slots \ {Idle} /\ k.tab[p].state = "SLEEPING"
                       /\ k.tab[p].pid # 0
  BY <1>1 DEF IdleStands
<1>5. ASSUME NEW q \in Levels
      PROVE  /\ s[q] \in Seq(Slots) /\ Once(s[q])
             /\ Members(s[q]) = ReadyAt(k, q) \cup D(q)
  <2>1. /\ k.queue[q] \in Seq(Slots) /\ Once(k.queue[q])
        /\ Members(k.queue[q]) = ReadyAt(k, q)
    BY <1>1 DEF QueuesMatch
  <2>2. D(q) \in SUBSET Int /\ D(q) \subseteq Slots /\ IsFiniteSet(D(q))
    <3>1. D(q) \in SUBSET Slots
      OBVIOUS
    <3> HIDE DEF D
    <3>2. IsFiniteSet(D(q))
      BY <3>1, IdleIsSlot, FS_Subset
    <3>3. D(q) \in SUBSET Int
      BY <3>1, IdleIsSlot, Zenon
    <3> QED BY <3>1, <3>2, <3>3
  <2>3. \A p \in D(q) : p \notin ReadyAt(k, q)
    BY DEF ReadyAt
  <2>4. s[q] = k.queue[q] \o Sorted(D(q))
    OBVIOUS
  <2> HIDE DEF D, s
  <2>5. Sorted(D(q)) \in Seq(D(q)) /\ Once(Sorted(D(q))) /\ Members(Sorted(D(q))) = D(q)
    BY <2>2, SortedOnce
  <2>6. Sorted(D(q)) \in Seq(Slots)
    BY <2>2, <2>5
  <2>7. Members(k.queue[q]) \cap Members(Sorted(D(q))) = {}
    BY <2>1, <2>3, <2>5
  <2> QED BY <2>1, <2>4, <2>5, <2>6, <2>7, ConcatOnce
<1>6. t \in [Slots -> PCB] /\ \A p \in Slots : t[p] = Woken(p)
  BY <1>3, Zenon
<1>7. s \in [Levels -> Seq(Slots)]
  <2>1. s = [q \in Levels |-> s[q]]
    OBVIOUS
  <2> HIDE DEF s
  <2> QED BY <1>5, <2>1
<1> HIDE DEF t, s, Woken
<1>8. /\ e \in KernelState /\ e.tab = t /\ e.queue = s /\ e.current = k.current
  BY <1>1, <1>6, <1>7, Zenon DEF KernelState
<1> HIDE DEF e
<1>9. QueuesMatch(e, {})
  <2> SUFFICES ASSUME NEW q \in Levels
               PROVE  Once(s[q]) /\ Members(s[q]) = ReadyAt(e, q)
    BY <1>8 DEF QueuesMatch
  <2>1. ReadyAt(e, q) = ReadyAt(k, q) \cup D(q)
    <3>1. ASSUME NEW p \in Slots \ {Idle}
          PROVE  p \in ReadyAt(e, q) <=> p \in ReadyAt(k, q) \cup D(q)
      <4>1. /\ e.tab[p] = Woken(p) /\ Woken(p).priority = k.tab[p].priority
            /\ p \in Due => Woken(p).state = "READY"
            /\ p \notin Due => Woken(p).state = k.tab[p].state
        BY <1>3, <1>6, <1>8
      <4>2. p \in D(q) <=> p \in Due /\ k.tab[p].priority = q
        BY <1>4
      <4>3. p \in Due => k.tab[p].state # "READY"
        BY <1>4
      <4> HIDE DEF D, Due
      <4> QED BY <4>1, <4>2, <4>3 DEF ReadyAt
    <3>2. D(q) \subseteq Slots \ {Idle}
      BY <1>4
    <3> HIDE DEF D
    <3> QED BY <3>1, <3>2 DEF ReadyAt
  <2> QED BY <1>5, <2>1
<1>10. /\ IdleStands(e)
       /\ \A r \in Slots : e.tab[r].state = "RUNNING" => r = e.current
  <2>1. Idle \notin Due
    BY <1>4
  <2> HIDE DEF Due
  <2> QED BY <1>1, <1>3, <1>4, <1>6, <1>8, <2>1, IdleIsSlot DEF IdleStands
<1>11. k.tab[k.current].state # "SLEEPING" =>
          e.tab[e.current].state = k.tab[k.current].state
  <2>1. k.tab[k.current].state # "SLEEPING" => k.current \notin Due
    OBVIOUS
  <2> HIDE DEF Due
  <2> QED BY <1>1, <1>3, <1>6, <1>8, <2>1
<1> QED BY <1>2, <1>8, <1>9, <1>10, <1>11 DEF Sound

LEMMA PCBAged ==
    ASSUME NEW b \in PCB, NEW n \in Levels
    PROVE  /\ LET c == [b EXCEPT !.priority = n, !.wait_ticks = 0]
              IN  /\ c \in PCB /\ c.state = b.state
                  /\ c.priority = n /\ c.pid = b.pid /\ c.pc = b.pc
           /\ LET c == [b EXCEPT !.wait_ticks = @ + 1]
              IN  /\ c \in PCB /\ c.state = b.state
                  /\ c.priority = b.priority /\ c.pid = b.pid /\ c.pc = b.pc
<1> DEFINE c == [b EXCEPT !.priority = n, !.wait_ticks = 0]
           d == [b EXCEPT !.wait_ticks = @ + 1]
<1>1. /\ c \in PCB /\ c.state = b.state /\ c.priority = n
      /\ c.pid = b.pid /\ c.pc = b.pc
  BY Zenon DEF PCB
<1>2. /\ d \in PCB /\ d.state = b.state /\ d.priority = b.priority
      /\ d.pid = b.pid /\ d.pc = b.pc
  <2>1. b.wait_ticks + 1 \in Nat
    BY PCBParts
  <2> QED BY <2>1 DEF PCB
<1> QED BY <1>1, <1>2

(* apply_aging moves processes between the queues and changes their        *)
(* priority accordingly.                                                   *)
LEMMA ApplyAgingSound ==
    ASSUME NEW k, Sound(k, {})
    PROVE  LET e == ApplyAging(k)
           IN  /\ Sound(e, {}) /\ e.current = k.current
               /\ \A r \in Slots : e.tab[r].state = k.tab[r].state
<1> DEFINE B(q)    == Boosted(k, q)
           U(q)    == {k.queue[q][i] : i \in B(q)}
           Up(q)   == Pick(k.queue[q], B(q))
           Stay(q) == Pick(k.queue[q], DOMAIN k.queue[q] \ B(q))
           In(p, q, K) == \E i \in K : k.queue[q][i] = p
           Aged(p) ==
              IF \E q \in {1, 2} : In(p, q, B(q))
              THEN [k.tab[p] EXCEPT
                      !.priority = CHOOSE l \in {0, 1} : In(p, l + 1, B(l + 1)),
                      !.wait_ticks = 0]
              ELSE IF \E q \in {1, 2} : In(p, q, DOMAIN k.queue[q])
                   THEN [k.tab[p] EXCEPT !.wait_ticks = @ + 1]
                   ELSE k.tab[p]
           t == [p \in Slots |-> Aged(p)]
           s == [q \in Levels |-> IF q = 2 THEN Stay(q) ELSE Stay(q) \o Up(q + 1)]
           e == [k EXCEPT !.tab = t, !.queue = s]
<1>1. /\ k \in KernelState /\ QueuesMatch(k, {}) /\ IdleStands(k)
      /\ \A r \in Slots : k.tab[r].state = "RUNNING" => r = k.current
      /\ k.tab \in [Slots -> PCB] /\ k.queue \in [Levels -> Seq(Slots)]
  BY StateParts DEF Sound
<1>2. ApplyAging(k) = e
  BY <1>1 DEF ApplyAging, KernelState
<1>3. \A q \in Levels : B(q) \in SUBSET DOMAIN k.queue[q]
  BY DEF Boosted
<1>4. U(0) = {}
  BY DEF Boosted
<1> HIDE DEF B
<1>5. ASSUME NEW q \in Levels
      PROVE  /\ Up(q) \in Seq(Slots) /\ Once(Up(q)) /\ Members(Up(q)) = U(q)
             /\ Stay(q) \in Seq(Slots) /\ Once(Stay(q))
             /\ Members(Stay(q)) = ReadyAt(k, q) \ U(q)
             /\ U(q) \subseteq ReadyAt(k, q)
  <2> DEFINE w == k.queue[q]
             C == DOMAIN w \ B(q)
  <2>1. w \in Seq(Slots) /\ Once(w) /\ Members(w) = ReadyAt(k, q)
    BY <1>1 DEF QueuesMatch
  <2>2. B(q) \in SUBSET DOMAIN w /\ C \in SUBSET DOMAIN w
    BY <1>3
  <2>3. U(q) \subseteq ReadyAt(k, q)
    BY <2>1, <2>2 DEF Members
  <2>4. {w[i] : i \in C} = ReadyAt(k, q) \ U(q)
    <3>1. ASSUME NEW i \in DOMAIN w PROVE i \in C <=> w[i] \notin U(q)
      BY <2>1, <2>2 DEF Once
    <3>2. ASSUME NEW x \in ReadyAt(k, q) PROVE \E i \in DOMAIN w : x = w[i]
      BY <2>1 DEF Members
    <3>3. ASSUME NEW i \in DOMAIN w PROVE w[i] \in ReadyAt(k, q)
      BY <2>1 DEF Members
    <3> HIDE DEF U
    <3>4. ASSUME NEW x \in ReadyAt(k, q) \ U(q) PROVE x \in {w[i] : i \in C}
      BY <3>1, <3>2
    <3>5. ASSUME NEW i \in C PROVE w[i] \in ReadyAt(k, q) \ U(q)
      BY <3>1, <3>3
    <3> QED BY <3>4, <3>5
  <2> HIDE DEF w, C
  <2>5. /\ Pick(w, B(q)) \in Seq(Slots) /\ Once(Pick(w, B(q)))
        /\ Members(Pick(w, B(q))) = {w[i] : i \in B(q)}
    BY <2>1, <2>2, PickOnce
  <2>6. /\ Pick(w, C) \in Seq(Slots) /\ Once(Pick(w, C))
        /\ Members(Pick(w, C)) = {w[i] : i \in C}
    BY <2>1, <2>2, PickOnce
  <2> QED BY <2>3, <2>4, <2>5, <2>6, Zenon DEF w, C
<1>6. \A p, q : In(p, q, B(q)) <=> p \in U(q)
  OBVIOUS
<1>8. ASSUME NEW p \in Slots
      PROVE  /\ Aged(p) \in PCB /\ Aged(p).state = k.tab[p].state
             /\ Aged(p).pid = k.tab[p].pid /\ Aged(p).pc = k.tab[p].pc
             /\ Aged(p).priority = IF p \in U(1) THEN 0
                                   ELSE IF p \in U(2) THEN 1
                                   ELSE k.tab[p].priority
  <2>1. k.tab[p] \in PCB /\ 0 \in Levels /\ 1 \in Levels /\ 2 \in Levels
    BY <1>1 DEF Levels
  <2>2. ~(p \in U(1) /\ p \in U(2))
    <3>1. U(1) \subseteq ReadyAt(k, 1) /\ U(2) \subseteq ReadyAt(k, 2)
      BY <1>5, <2>1, Zenon
    <3>2. ReadyAt(k, 1) \cap ReadyAt(k, 2) = {}
      BY DEF ReadyAt
    <3> HIDE DEF U
    <3> QED BY <3>1, <3>2
  <2> DEFINE l == CHOOSE l \in {0, 1} : In(p, l + 1, B(l + 1))
             c == [k.tab[p] EXCEPT !.priority = l, !.wait_ticks = 0]
             d == [k.tab[p] EXCEPT !.wait_ticks = @ + 1]
  <2>3. CASE p \in U(1) \/ p \in U(2)
    <3>1. Aged(p) = c
      <4>1. \E q \in {1, 2} : In(p, q, B(q))
        BY <1>6, <2>3
      <4> QED BY <4>1
    <3>2. l = IF p \in U(1) THEN 0 ELSE 1
      <4>1. In(p, 0 + 1, B(0 + 1)) <=> p \in U(1)
        BY <1>6
      <4>2. In(p, 1 + 1, B(1 + 1)) <=> p \in U(2)
        BY <1>6
      <4> HIDE DEF In, U
      <4> QED BY <2>2, <2>3, <4>1, <4>2
    <3> HIDE DEF l, Aged
    <3>3. l \in Levels
      BY <2>1, <3>2
    <3>4. /\ c \in PCB /\ c.state = k.tab[p].state
          /\ c.priority = l /\ c.pid = k.tab[p].pid /\ c.pc = k.tab[p].pc
      BY <2>1, <3>3, PCBAged, Zenon
    <3> HIDE DEF c, U
    <3> QED BY <2>3, <3>1, <3>2, <3>4
  <2>4. CASE p \notin U(1) /\ p \notin U(2)
    <3>1. Aged(p) \in {d, k.tab[p]}
      <4>1. ~ \E q \in {1, 2} : In(p, q, B(q))
        BY <1>6, <2>4
      <4> QED BY <4>1
    <3> HIDE DEF Aged
    <3>2. /\ d \in PCB /\ d.state = k.tab[p].state
          /\ d.priority = k.tab[p].priority /\ d.pid = k.tab[p].pid
          /\ d.pc = k.tab[p].pc
      BY <2>1, PCBAged, Zenon
    <3> HIDE DEF d
    <3> QED BY <2>1, <2>4, <3>1, <3>2
  <2> QED BY <2>3, <2>4
<1> HIDE DEF Aged, In, Up, Stay
<1>9. t \in [Slots -> PCB] /\ \A p \in Slots : t[p] = Aged(p)
  BY <1>8
<1> HIDE DEF U
<1>10. ASSUME NEW q \in Levels
       PROVE  /\ s[q] \in Seq(Slots) /\ Once(s[q])
              /\ q = 2 => Members(s[q]) = ReadyAt(k, q) \ U(q)
              /\ q # 2 => Members(s[q]) = (ReadyAt(k, q) \ U(q)) \cup U(q + 1)
  <2>1. CASE q = 2
    BY <1>5, <2>1
  <2>2. CASE q # 2
    <3>1. q + 1 \in Levels /\ q + 1 # q
      BY <2>2 DEF Levels
    <3> DEFINE v == q + 1
               a == Stay(q)
               b == Up(v)
    <3>2. /\ a \in Seq(Slots) /\ Once(a) /\ Members(a) = ReadyAt(k, q) \ U(q)
          /\ b \in Seq(Slots) /\ Once(b) /\ Members(b) = U(v)
          /\ U(v) \subseteq ReadyAt(k, v)
      BY <1>5, <3>1
    <3>3. ReadyAt(k, q) \cap ReadyAt(k, v) = {}
      BY <3>1 DEF ReadyAt
    <3>4. s[q] = a \o b
      BY <2>2
    <3> HIDE DEF a, b, v, s
    <3>5. Members(a) \cap Members(b) = {}
      BY <3>2, <3>3
    <3>6. /\ a \o b \in Seq(Slots) /\ Once(a \o b)
          /\ Members(a \o b) = Members(a) \cup Members(b)
      BY <3>2, <3>5, ConcatOnce
    <3>7. Members(s[q]) = (ReadyAt(k, q) \ U(q)) \cup U(v)
      BY <3>2, <3>4, <3>6
    <3> QED BY <2>2, <3>4, <3>6, <3>7 DEF v
  <2> QED BY <2>1, <2>2
<1>11. s \in [Levels -> Seq(Slots)]
  <2>1. s = [q \in Levels |-> s[q]]
    OBVIOUS
  <2> HIDE DEF s
  <2> QED BY <1>10, <2>1
<1> HIDE DEF t, s
<1>12. /\ e \in KernelState /\ e.tab = t /\ e.queue = s /\ e.current = k.current
  BY <1>1, <1>9, <1>11, Zenon DEF KernelState
<1> HIDE DEF e
<1>13. \A r \in Slots : /\ e.tab[r].state = k.tab[r].state
                        /\ e.tab[r].pid = k.tab[r].pid
                        /\ e.tab[r].pc = k.tab[r].pc
                        /\ e.tab[r].priority = IF r \in U(1) THEN 0
                                               ELSE IF r \in U(2) THEN 1
                                               ELSE k.tab[r].priority
  BY <1>8, <1>9, <1>12
<1>14. QueuesMatch(e, {})
  <2> SUFFICES ASSUME NEW q \in Levels
               PROVE  Once(s[q]) /\ Members(s[q]) = ReadyAt(e, q)
    BY <1>12 DEF QueuesMatch
  <2>1. U(1) \subseteq ReadyAt(k, 1) /\ U(2) \subseteq ReadyAt(k, 2)
    BY <1>5 DEF Levels
  <2>2. CASE q = 0
    <3>1. ReadyAt(e, 0) = ReadyAt(k, 0) \cup U(1)
      BY <1>13, <2>1 DEF ReadyAt
    <3>2. Members(s[q]) = (ReadyAt(k, 0) \ U(0)) \cup U(1)
      <4>1. Members(s[q]) = (ReadyAt(k, q) \ U(q)) \cup U(q + 1)
        <5>1. q # 2
          BY <2>2
        <5> QED BY <1>10, <5>1
      <4>2. q + 1 = 1
        BY <2>2
      <4> QED BY <4>1, <4>2, <2>2
    <3> QED BY <1>4, <1>10, <2>2, <3>1, <3>2
  <2>3. CASE q = 1
    <3>1. ReadyAt(e, 1) = (ReadyAt(k, 1) \ U(1)) \cup U(2)
      BY <1>13, <2>1 DEF ReadyAt
    <3>2. Members(s[q]) = (ReadyAt(k, 1) \ U(1)) \cup U(2)
      <4>1. Members(s[q]) = (ReadyAt(k, q) \ U(q)) \cup U(q + 1)
        <5>1. q # 2
          BY <2>3
        <5> QED BY <1>10, <5>1
      <4>2. q + 1 = 2
        BY <2>3
      <4> QED BY <4>1, <4>2, <2>3
    <3> QED BY <1>10, <2>3, <3>1, <3>2
  <2>4. CASE q = 2
    <3>1. ReadyAt(e, 2) = ReadyAt(k, 2) \ U(2)
      BY <1>13, <2>1 DEF ReadyAt
    <3>2. Members(s[q]) = ReadyAt(k, 2) \ U(2)
      BY <1>10, <2>4
    <3> QED BY <1>10, <2>4, <3>1, <3>2
  <2> QED BY <2>2, <2>3, <2>4 DEF Levels
<1>15. IdleStands(e)
  BY <1>1, <1>12, <1>13, IdleIsSlot DEF IdleStands
<1>16. Sound(e, {})
  BY <1>1, <1>12, <1>13, <1>14, <1>15 DEF Sound
<1> QED BY <1>2, <1>12, <1>13, <1>16

(* scheduler_tick: a timer interrupt leaves one process running. *)
LEMMA SchedulerTickSound ==
    ASSUME NEW k, Sound(k, {}), k.tab[k.current].state = "RUNNING"
    PROVE  LET e == SchedulerTick(k)
           IN  Sound(e, {}) /\ e.tab[e.current].state = "RUNNING"
<1> DEFINE w == WakeSleepers(k)
           a == ApplyAging(w)
           b == [a EXCEPT !.quantum_left = IF @ > 0 THEN @ - 1 ELSE @]
<1>1. Sound(w, {}) /\ w.tab[w.current].state = "RUNNING"
  BY WakeSleepersSound
<1>2. Eager(ApplyAging(Eager(WakeSleepers(k)))) = a
  BY DEF Eager
<1> HIDE DEF w
<1>3. w.current \in Slots
  BY <1>1, StateParts DEF Sound
<1>4. Sound(a, {}) /\ a.tab[a.current].state = "RUNNING"
  BY <1>1, <1>3, ApplyAgingSound
<1>5. SchedulerTick(k) \in {Schedule(b), b}
  BY <1>2 DEF SchedulerTick
<1> HIDE DEF a
<1>6. a \in KernelState /\ a.quantum_left \in 0 .. SCHED_QUANTUM_TICKS
  BY <1>4, StateParts DEF Sound
<1>7. /\ b \in KernelState /\ b.tab = a.tab /\ b.queue = a.queue
      /\ b.current = a.current
  <2> DEFINE n == IF a.quantum_left > 0 THEN a.quantum_left - 1 ELSE a.quantum_left
  <2>1. n \in 0 .. SCHED_QUANTUM_TICKS
    BY <1>6, SchedulerAssumption
  <2> HIDE DEF n
  <2>2. b = [a EXCEPT !.quantum_left = n]
    BY DEF n
  <2> HIDE DEF b
  <2> QED BY <1>6, <2>1, <2>2 DEF KernelState
<1> HIDE DEF b
<1>8. Sound(b, {}) /\ b.tab[b.current].state = "RUNNING"
  <2>1. QueuesMatch(b, {}) /\ IdleStands(b)
    BY <1>4, <1>7, QuietChange DEF IdleStands, Sound
  <2> QED BY <1>4, <1>7, <2>1 DEF Sound
<1>9. Sound(Schedule(b), {}) /\ Schedule(b).tab[Schedule(b).current].state = "RUNNING"
  BY <1>8, ScheduleSound
<1> QED BY <1>5, <1>8, <1>9

-----------------------------------------------------------------------------
(* What the scheduler never touches of a process: who it is, what it owns  *)
(* and where it stands.                                                    *)
SameContext(b, c) ==
    /\ b.pid = c.pid /\ b.ppid = c.ppid
    /\ b.parent_waiting = c.parent_waiting /\ b.user_entry = c.user_entry
    /\ b.kstack = c.kstack /\ b.ustack = c.ustack
    /\ b.pc = c.pc /\ b.kloc = c.kloc /\ b.uloc = c.uloc /\ b.kid = c.kid

(* A process in use that has not exited. *)
Live(b) == b.state \notin {"UNUSED", "ZOMBIE"}

(* e differs from k only in which live process runs, waits or is queued. *)
Moved(b, c) ==
    /\ SameContext(b, c)
    /\ ~Live(b) => c = b
    /\ Live(b) => Live(c)
    /\ c.state = "BLOCKED" => b.state = "BLOCKED"

(* The whole table so, with stacks and heap untouched. *)
Moves(k, e) ==
    /\ e.free = k.free /\ e.torn = k.torn
    /\ \A p \in Slots : Moved(k.tab[p], e.tab[p])

(* Such changes compose. *)
LEMMA MovesOn ==
    ASSUME NEW k, NEW m, NEW e, Moves(k, m), Moves(m, e)
    PROVE  Moves(k, e)
<1>1. ASSUME NEW b, NEW c, NEW d, Moved(b, c), Moved(c, d)
      PROVE  Moved(b, d)
  BY <1>1 DEF Moved, SameContext, Live
<1> QED BY <1>1 DEF Moves

(* A change of the queues, of the current process or of the quantum only   *)
(* is one.                                                                 *)
LEMMA MovesNot ==
    ASSUME NEW k, NEW e, e.free = k.free, e.torn = k.torn, e.tab = k.tab
    PROVE  Moves(k, e)
BY DEF Moves, Moved, SameContext, Live

(* One PCB changes in the fields the scheduler owns. *)
LEMMA MovesOne ==
    ASSUME NEW k \in KernelState, NEW e, NEW p \in Slots,
           e.free = k.free, e.torn = k.torn,
           \A r \in Slots \ {p} : e.tab[r] = k.tab[r],
           Moved(k.tab[p], e.tab[p])
    PROVE  Moves(k, e)
BY DEF Moves, Moved, SameContext, Live

(* The PCB updates of the scheduler keep the context. *)
LEMMA PCBMoved ==
    ASSUME NEW b \in PCB, Live(b), NEW n, NEW m
    PROVE  /\ Moved(b, [b EXCEPT !.wait_ticks = n])
           /\ Moved(b, [b EXCEPT !.sleep_left = n])
           /\ Moved(b, [b EXCEPT !.priority = n, !.wait_ticks = m])
           /\ Moved(b, [b EXCEPT !.state = "READY", !.sleep_left = n])
           /\ Moved(b, [b EXCEPT !.state = "READY", !.sleep_left = n,
                                 !.wait_ticks = m])
           /\ Moved(b, [b EXCEPT !.state = "READY", !.priority = n])
           /\ Moved(b, [b EXCEPT !.state = "RUNNING", !.priority = n,
                                 !.wait_ticks = m])
           /\ Moved(b, b)
<1>1. Moved(b, [b EXCEPT !.wait_ticks = n])
  BY DEF Moved, SameContext, Live, PCB
<1>2. Moved(b, [b EXCEPT !.sleep_left = n])
  BY DEF Moved, SameContext, Live, PCB
<1>3. Moved(b, [b EXCEPT !.priority = n, !.wait_ticks = m])
  BY DEF Moved, SameContext, Live, PCB
<1>4. Moved(b, [b EXCEPT !.state = "READY", !.sleep_left = n])
  BY DEF Moved, SameContext, Live, PCB
<1>5. Moved(b, [b EXCEPT !.state = "READY", !.sleep_left = n, !.wait_ticks = m])
  BY DEF Moved, SameContext, Live, PCB
<1>6. Moved(b, [b EXCEPT !.state = "READY", !.priority = n])
  BY DEF Moved, SameContext, Live, PCB
<1>7. Moved(b, [b EXCEPT !.state = "RUNNING", !.priority = n, !.wait_ticks = m])
  BY DEF Moved, SameContext, Live, PCB
<1>8. Moved(b, b)
  BY DEF Moved, SameContext, Live
<1> QED BY <1>1, <1>2, <1>3, <1>4, <1>5, <1>6, <1>7, <1>8

(* scheduler_enqueue leaves every context alone. *)
LEMMA EnqueueMoves ==
    ASSUME NEW k \in KernelState, NEW p \in Slots, Live(k.tab[p])
    PROVE  Moves(k, Enqueue(k, p)) /\ Enqueue(k, p).current = k.current
<1> DEFINE b == [k.tab[p] EXCEPT !.wait_ticks = 0]
           t == [k.tab EXCEPT ![p] = b]
           s == [k.queue EXCEPT ![k.tab[p].priority] =
                    Append(k.queue[k.tab[p].priority], p)]
           e == [k EXCEPT !.tab = t, !.queue = s]
<1>1. k.tab \in [Slots -> PCB] /\ k.tab[p] \in PCB
  BY StateParts
<1>2. CASE k.tab[p].pid = 0
  BY <1>2, MovesNot DEF Enqueue
<1>3. CASE k.tab[p].pid # 0
  <2>1. Enqueue(k, p) = e
    BY <1>1, <1>3 DEF Enqueue, KernelState
  <2>2. Moved(k.tab[p], b)
    BY <1>1, PCBMoved, Zenon
  <2> HIDE DEF b
  <2>3. t[p] = b /\ \A r \in Slots \ {p} : t[r] = k.tab[r]
    BY <1>1
  <2> HIDE DEF t, s
  <2>4. e.tab = t /\ e.free = k.free /\ e.torn = k.torn /\ e.current = k.current
    BY DEF KernelState
  <2> HIDE DEF e
  <2> QED BY <2>1, <2>2, <2>3, <2>4, MovesOne
<1> QED BY <1>2, <1>3

(* scheduler_unblock leaves every context alone, and what it wakes is no   *)
(* longer blocked.                                                         *)
LEMMA UnblockMoves ==
    ASSUME NEW k, Sound(k, {}), NEW p \in Slots
    PROVE  /\ Moves(k, Unblock(k, p))
           /\ \A r \in Slots \ {p} : Unblock(k, p).tab[r] = k.tab[r]
           /\ Unblock(k, p).tab[p].state # "BLOCKED"
<1> DEFINE b == [k.tab[p] EXCEPT !.state = "READY", !.sleep_left = 0]
           t == [k.tab EXCEPT ![p] = b]
           e == [k EXCEPT !.tab = t]
<1>1. k \in KernelState /\ k.tab \in [Slots -> PCB] /\ k.tab[p] \in PCB
  BY StateParts DEF Sound
<1>2. CASE k.tab[p].state \notin {"BLOCKED", "SLEEPING"}
  BY <1>2, MovesNot DEF Unblock
<1>3. CASE k.tab[p].state \in {"BLOCKED", "SLEEPING"}
  <2>1. Unblock(k, p) = Enqueue(e, p)
    BY <1>1, <1>3, Zenon DEF Unblock, KernelState
  <2>2. Moved(k.tab[p], b) /\ b \in PCB /\ b.state = "READY"
    <3>1. Live(k.tab[p])
      BY <1>3 DEF Live
    <3> QED BY <1>1, <3>1, PCBMoved, PCBWoken, Zenon
  <2> HIDE DEF b
  <2>3. /\ t \in [Slots -> PCB] /\ t[p] = b
        /\ \A r \in Slots \ {p} : t[r] = k.tab[r]
    BY <1>1, <2>2
  <2> HIDE DEF t
  <2>4. e \in KernelState /\ e.tab = t /\ e.free = k.free /\ e.torn = k.torn
    BY <1>1, <2>3, Zenon DEF KernelState
  <2> HIDE DEF e
  <2>5. Moves(k, e) /\ Live(e.tab[p])
    BY <1>1, <2>2, <2>3, <2>4, MovesOne DEF Live
  <2>6. Moves(e, Enqueue(e, p))
    BY <2>4, <2>5, EnqueueMoves
  <2>7. \A r \in Slots \ {p} : Enqueue(e, p).tab[r] = e.tab[r]
    BY <2>4 DEF Enqueue, KernelState
  <2>8. Enqueue(e, p).tab[p].state # "BLOCKED"
    BY <2>2, <2>3, <2>4, <2>6 DEF Moves, Moved
  <2> QED BY <2>1, <2>3, <2>4, <2>5, <2>6, <2>7, <2>8, MovesOn
<1> QED BY <1>2, <1>3

(* The wake-up in process_exit and process_kill leaves every context       *)
(* alone, and a parent that waits is no longer blocked after it.           *)
LEMMA WakeParentMoves ==
    ASSUME NEW k, Sound(k, {}), NEW p
    PROVE  LET e == WakeParent(k, p)
               w == ByPid(k, k.tab[p].ppid)
           IN  /\ Moves(k, e)
               /\ w \in Slots /\ k.tab[w].parent_waiting =>
                     e.tab[w].state # "BLOCKED"
<1> DEFINE w == ByPid(k, k.tab[p].ppid)
<1>1. None \notin Slots
  BY IdleIsSlot DEF None
<1>2. CASE w = None
  BY <1>1, <1>2, MovesNot DEF WakeParent
<1>3. CASE w # None
  <2>1. w \in Slots
    BY <1>3, ByPidFound
  <2>2. WakeParent(k, p) = IF k.tab[w].parent_waiting /\ k.tab[w].state = "BLOCKED"
                           THEN Unblock(k, w) ELSE k
    BY <1>3 DEF WakeParent
  <2> HIDE DEF w
  <2>3. Moves(k, Unblock(k, w)) /\ Unblock(k, w).tab[w].state # "BLOCKED"
    BY <2>1, UnblockMoves
  <2>4. Moves(k, k)
    BY MovesNot
  <2> QED BY <2>2, <2>3, <2>4 DEF w
<1> QED BY <1>2, <1>3

(* wake_sleepers leaves every context alone. *)
LEMMA WakeSleepersMoves ==
    ASSUME NEW k \in KernelState
    PROVE  Moves(k, WakeSleepers(k))
<1> DEFINE Due  == {p \in Slots : /\ k.tab[p].state = "SLEEPING"
                                  /\ k.tab[p].sleep_left <= 1}
           Woken(p) ==
              IF p \in Due
              THEN [k.tab[p] EXCEPT !.state = "READY", !.sleep_left = 0,
                                    !.wait_ticks = 0]
              ELSE IF k.tab[p].state = "SLEEPING"
                   THEN [k.tab[p] EXCEPT !.sleep_left = @ - 1]
                   ELSE k.tab[p]
           t == [p \in Slots |-> Woken(p)]
           s == [q \in Levels |-> k.queue[q] \o
                   Sorted({p \in Due : k.tab[p].priority = q /\ k.tab[p].pid # 0})]
           e == [k EXCEPT !.tab = t, !.queue = s]
<1>1. WakeSleepers(k) = e
  BY DEF WakeSleepers, KernelState
<1>2. ASSUME NEW p \in Slots PROVE Moved(k.tab[p], Woken(p))
  <2>1. k.tab[p] \in PCB
    BY StateParts
  <2>2. CASE k.tab[p].state = "SLEEPING"
    <3>1. Live(k.tab[p])
      BY <2>2 DEF Live
    <3> QED BY <2>1, <3>1, PCBMoved, Zenon
  <2>3. CASE k.tab[p].state # "SLEEPING"
    <3>1. Woken(p) = k.tab[p]
      BY <2>3
    <3> HIDE DEF Woken
    <3> QED BY <3>1 DEF Moved, SameContext
  <2> QED BY <2>2, <2>3
<1>3. \A p \in Slots : Moved(k.tab[p], t[p])
  BY <1>2, Zenon
<1> HIDE DEF t, s
<1>4. e.tab = t /\ e.free = k.free /\ e.torn = k.torn
  BY DEF KernelState
<1> QED BY <1>1, <1>3, <1>4 DEF Moves

(* apply_aging leaves every context alone. *)
LEMMA ApplyAgingMoves ==
    ASSUME NEW k, Sound(k, {})
    PROVE  Moves(k, ApplyAging(k))
<1> DEFINE In(p, q, K) == \E i \in K : k.queue[q][i] = p
           l(p) == CHOOSE l \in {0, 1} : In(p, l + 1, Boosted(k, l + 1))
           Aged(p) ==
              IF \E q \in {1, 2} : In(p, q, Boosted(k, q))
              THEN [k.tab[p] EXCEPT !.priority = l(p), !.wait_ticks = 0]
              ELSE IF \E q \in {1, 2} : In(p, q, DOMAIN k.queue[q])
                   THEN [k.tab[p] EXCEPT !.wait_ticks = @ + 1]
                   ELSE k.tab[p]
           t == [p \in Slots |-> Aged(p)]
           s == [q \in Levels |->
                   IF q = 2 THEN Pick(k.queue[q], DOMAIN k.queue[q] \ Boosted(k, q))
                   ELSE Pick(k.queue[q], DOMAIN k.queue[q] \ Boosted(k, q))
                          \o Pick(k.queue[q + 1], Boosted(k, q + 1))]
           e == [k EXCEPT !.tab = t, !.queue = s]
<1>1. k \in KernelState /\ QueuesMatch(k, {})
  BY DEF Sound
<1>2. ApplyAging(k) = e
  BY <1>1 DEF ApplyAging, KernelState
<1>3. ASSUME NEW p \in Slots PROVE Moved(k.tab[p], Aged(p))
  <2>1. k.tab[p] \in PCB
    BY <1>1, StateParts
  <2>2. CASE \E q \in {1, 2} : In(p, q, DOMAIN k.queue[q])
    <3>1. Live(k.tab[p])
      <4>1. PICK q \in Levels : p \in Members(k.queue[q])
        BY <2>2 DEF Members, Levels
      <4>2. p \in ReadyAt(k, q)
        BY <1>1, <4>1 DEF QueuesMatch
      <4> QED BY <4>2 DEF ReadyAt, Live
    <3>2. Aged(p) \in {[k.tab[p] EXCEPT !.priority = l(p), !.wait_ticks = 0],
                       [k.tab[p] EXCEPT !.wait_ticks = @ + 1]}
      BY <2>2
    <3> HIDE DEF Aged, l
    <3>3. Moved(k.tab[p], [k.tab[p] EXCEPT !.priority = l(p), !.wait_ticks = 0])
      BY <2>1, <3>1, PCBMoved, Zenon
    <3>4. Moved(k.tab[p], [k.tab[p] EXCEPT !.wait_ticks = @ + 1])
      BY <2>1, <3>1, PCBMoved, Zenon
    <3> QED BY <3>2, <3>3, <3>4, Zenon
  <2>3. CASE ~ \E q \in {1, 2} : In(p, q, DOMAIN k.queue[q])
    <3>1. Aged(p) = k.tab[p]
      BY <2>3, Zenon DEF Boosted
    <3> HIDE DEF Aged
    <3> QED BY <3>1 DEF Moved, SameContext
  <2> QED BY <2>2, <2>3
<1> HIDE DEF Aged
<1>4. \A p \in Slots : Moved(k.tab[p], t[p])
  BY <1>3
<1> HIDE DEF t, s
<1>5. e.tab = t /\ e.free = k.free /\ e.torn = k.torn
  BY <1>1 DEF KernelState
<1> QED BY <1>2, <1>4, <1>5 DEF Moves

(* Dispatching a process leaves every context alone. *)
LEMMA DispatchMoves ==
    ASSUME NEW k \in KernelState, NEW p \in Slots, Live(k.tab[p])
    PROVE  Moves(k, Dispatch(k, p)) /\ Dispatch(k, p).current = p
<1> DEFINE b == [k.tab[p] EXCEPT !.state = "RUNNING",
                                 !.priority = k.tab[p].base_priority,
                                 !.wait_ticks = 0]
           t == [k.tab EXCEPT ![p] = b]
           e == [k EXCEPT !.tab = t, !.current = p,
                          !.quantum_left = SCHED_QUANTUM_TICKS]
<1>1. k.tab \in [Slots -> PCB] /\ k.tab[p] \in PCB
  BY StateParts
<1>2. Dispatch(k, p) = e
  BY <1>1 DEF Dispatch, KernelState
<1>3. Moved(k.tab[p], b)
  BY <1>1, PCBMoved, Zenon
<1> HIDE DEF b
<1>4. t[p] = b /\ \A r \in Slots \ {p} : t[r] = k.tab[r]
  BY <1>1
<1> HIDE DEF t
<1>5. e.tab = t /\ e.free = k.free /\ e.torn = k.torn /\ e.current = p
  BY DEF KernelState
<1> HIDE DEF e
<1> QED BY <1>2, <1>3, <1>4, <1>5, MovesOne

(* Requeueing the outgoing process and dispatching the next one leaves     *)
(* every context alone.                                                    *)
LEMMA SwitchToMoves ==
    ASSUME NEW k \in KernelState, NEW next \in Slots, Live(k.tab[next])
    PROVE  Moves(k, SwitchTo(k, next)) /\ SwitchTo(k, next).current = next
<1> DEFINE prev == k.current
           b    == [k.tab[prev] EXCEPT !.state = "READY",
                                       !.priority = k.tab[prev].base_priority]
           t    == [k.tab EXCEPT ![prev] = b]
           m    == [k EXCEPT !.tab = t]
           out  == IF k.tab[prev].state = "RUNNING" THEN Enqueue(m, prev) ELSE k
<1>1. k.tab \in [Slots -> PCB] /\ prev \in Slots /\ k.tab[prev] \in PCB
  BY StateParts
<1>2. SwitchTo(k, next) = Dispatch(out, next)
  <2>1. m = Requeued(k, prev)
    BY <1>1 DEF Requeued, KernelState
  <2> HIDE DEF m
  <2> QED BY <2>1 DEF SwitchTo
<1>3. out \in KernelState /\ Moves(k, out)
  <2>1. CASE k.tab[prev].state # "RUNNING"
    BY <2>1, MovesNot
  <2>2. CASE k.tab[prev].state = "RUNNING"
    <3>1. Live(k.tab[prev])
      BY <2>2 DEF Live
    <3>2. Moved(k.tab[prev], b) /\ b \in PCB
      <4>1. k.tab[prev].base_priority \in Levels
        BY <1>1, PCBParts
      <4> QED BY <1>1, <3>1, <4>1, PCBMoved, PCBRequeued, Zenon
    <3> HIDE DEF b
    <3>3. /\ t \in [Slots -> PCB] /\ t[prev] = b
          /\ \A r \in Slots \ {prev} : t[r] = k.tab[r]
      BY <1>1, <3>2
    <3> HIDE DEF t
    <3>4. m \in KernelState /\ m.tab = t /\ m.free = k.free /\ m.torn = k.torn
      BY <3>3 DEF KernelState
    <3> HIDE DEF m
    <3>5. Moves(k, m)
      BY <1>1, <3>2, <3>3, <3>4, MovesOne
    <3>6. Live(m.tab[prev])
      BY <1>1, <3>1, <3>5 DEF Moves, Moved
    <3>7. Moves(m, Enqueue(m, prev))
      BY <1>1, <3>4, <3>6, EnqueueMoves
    <3>8. Enqueue(m, prev) \in KernelState
      <4>1. m.tab[prev] \in PCB /\ m.tab[prev].priority \in Levels
        BY <1>1, <3>4, StateParts, PCBParts
      <4> HIDE DEF prev
      <4> DEFINE l == m.tab[prev].priority
                 c == [m.tab[prev] EXCEPT !.wait_ticks = 0]
                 u == [m.tab EXCEPT ![prev] = c]
                 s == [m.queue EXCEPT ![l] = Append(m.queue[l], prev)]
      <4>2. m.tab \in [Slots -> PCB] /\ m.queue \in [Levels -> Seq(Slots)]
        BY <3>4, StateParts
      <4>3. c \in PCB
        BY <4>1, PCBWaitTicks
      <4>4. Enqueue(m, prev) \in {m, [m EXCEPT !.tab = u, !.queue = s]}
        BY <3>4 DEF Enqueue, KernelState
      <4> HIDE DEF c
      <4>5. u \in [Slots -> PCB]
        BY <1>1, <4>2, <4>3
      <4>6. s \in [Levels -> Seq(Slots)]
        BY <1>1, <4>1, <4>2
      <4> HIDE DEF u, s
      <4>7. [m EXCEPT !.tab = u, !.queue = s] \in KernelState
        BY <3>4, <4>5, <4>6, Zenon DEF KernelState
      <4> QED BY <3>4, <4>4, <4>7
    <3>9. out = Enqueue(m, prev)
      BY <2>2
    <3> QED BY <3>5, <3>7, <3>8, <3>9, MovesOn
  <2> QED BY <2>1, <2>2
<1> HIDE DEF out
<1>4. Live(out.tab[next])
  BY <1>3 DEF Moves, Moved
<1>5. Moves(out, Dispatch(out, next)) /\ Dispatch(out, next).current = next
  BY <1>3, <1>4, DispatchMoves
<1> QED BY <1>2, <1>3, <1>5, MovesOn

(* Induction on the natural numbers, for a set. *)
LEMMA CountUp ==
    ASSUME NEW S, 0 \in S, \A n \in Nat : n \in S => n + 1 \in S
    PROVE  Nat \subseteq S
<1> DEFINE T == Nat \ S
<1> SUFFICES ASSUME T # {} PROVE FALSE
  OBVIOUS
<1>1. T \in SUBSET Nat
  OBVIOUS
<1>2. Min(T) \in T /\ \A y \in T : Min(T) <= y
  BY <1>1, MinOf
<1> DEFINE m == Min(T)
<1>3. m \in Nat /\ m \notin S /\ \A y \in Nat \ S : m <= y
  BY <1>2
<1> HIDE DEF m, T
<1>4. m # 0 /\ m - 1 \in Nat
  BY <1>3
<1>5. m - 1 \in S
  BY <1>3, <1>4
<1>6. (m - 1) + 1 \in S
  BY <1>4, <1>5
<1> QED BY <1>3, <1>4, <1>6

(* reap_orphans' scan: gone[i] are the slots released once the slots below *)
(* i have been visited.                                                    *)
Scan(k, f, n) ==
    [i \in 0 .. n |->
        IF i = 0 THEN {}
        ELSE f[i - 1] \cup {z \in Reapable(k) : z = i - 1 /\ Orphan(k, f[i - 1], z)}]

(* The scan of reap_orphans is well defined: some function satisfies its   *)
(* recursion.                                                              *)
LEMMA ScanFound ==
    ASSUME NEW k, NEW n \in Nat
    PROVE  \E f : f = Scan(k, f, n)
<1> DEFINE S == {m \in Nat : \E f : f = Scan(k, f, m)}
           More(g, i) == g \cup {z \in Reapable(k) : z = i - 1 /\ Orphan(k, g, z)}
<1>1. 0 \in S
  <2> DEFINE f == [i \in 0 .. 0 |-> {}]
  <2>1. f = Scan(k, f, 0)
    BY DEF Scan
  <2> QED BY <2>1
<1>2. ASSUME NEW m \in Nat, m \in S PROVE m + 1 \in S
  <2>1. PICK f : f = Scan(k, f, m)
    BY <1>2
  <2> DEFINE h == [i \in 0 .. m + 1 |-> IF i = m + 1 THEN More(f[m], m + 1) ELSE f[i]]
             R(i) == IF i = 0 THEN {} ELSE More(h[i - 1], i)
  <2>2. ASSUME NEW i \in 0 .. m + 1 PROVE h[i] = R(i)
    <3>1. CASE i = m + 1
      <4>1. h[i] = More(f[m], m + 1) /\ h[i - 1] = f[m] /\ i # 0
        BY <3>1
      <4> HIDE DEF h, More
      <4> QED BY <3>1, <4>1
    <3>2. CASE i # m + 1
      <4>1. i \in 0 .. m /\ h[i] = f[i]
        BY <3>2
      <4>2. i # 0 => i - 1 \in 0 .. m /\ h[i - 1] = f[i - 1]
        BY <3>2
      <4>3. f[i] = IF i = 0 THEN {} ELSE More(f[i - 1], i)
        BY <2>1, <4>1, Zenon DEF Scan
      <4> HIDE DEF h, More
      <4> QED BY <4>1, <4>2, <4>3
    <3> QED BY <3>1, <3>2
  <2>3. h = [i \in 0 .. m + 1 |-> h[i]]
    OBVIOUS
  <2>4. Scan(k, h, m + 1) = [i \in 0 .. m + 1 |-> R(i)]
    BY DEF Scan
  <2> HIDE DEF h, R
  <2>5. h = Scan(k, h, m + 1)
    BY <2>2, <2>3, <2>4
  <2> QED BY <2>5
<1>3. Nat \subseteq S
  <2> HIDE DEF S
  <2> QED BY <1>1, <1>2, CountUp
<1> QED BY <1>3

(* What a scan of the slots below n leaves: it has released zombies, each   *)
(* an orphan when it was visited, and the others were not orphans then.    *)
Visited(k, P, n) ==
    /\ P \in SUBSET Reapable(k)
    /\ \A z \in P : \E g \in SUBSET Reapable(k) : Orphan(k, g, z)
    /\ \A z \in Reapable(k) \ P :
          z < n => \E g \in SUBSET Reapable(k) : ~Orphan(k, g, z)

Reapt(k, P) == Visited(k, P, PROCESS_MAX)

(* The scan releases exactly the zombies that are orphans when visited. *)
LEMMA ScanReaps ==
    ASSUME NEW k, NEW n \in Nat, NEW f, f = Scan(k, f, n)
    PROVE  Visited(k, f[n], n)
<1> DEFINE S == {m \in Nat : m <= n => Visited(k, f[m], m)}
<1>1. 0 \in S
  <2>1. f[0] = {}
    BY DEF Scan
  <2>2. \A z \in Reapable(k) : ~(z < 0)
    BY SchedulerAssumption DEF Reapable, Slots
  <2> QED BY <2>1, <2>2 DEF Visited
<1>2. ASSUME NEW m \in Nat, m \in S PROVE m + 1 \in S
  <2> SUFFICES ASSUME m + 1 <= n PROVE Visited(k, f[m + 1], m + 1)
    OBVIOUS
  <2> DEFINE g == f[m]
             D == {z \in Reapable(k) : z = m /\ Orphan(k, g, z)}
  <2>1. Visited(k, g, m)
    BY <1>2
  <2>2. f[m + 1] = g \cup D
    <3>1. m + 1 \in 0 .. n /\ m + 1 # 0 /\ (m + 1) - 1 = m
      OBVIOUS
    <3> QED BY <3>1, Zenon DEF Scan
  <2>3. /\ D \subseteq Reapable(k) /\ \A z \in D : Orphan(k, g, z)
        /\ \A z \in Reapable(k) : z = m /\ z \notin D => ~Orphan(k, g, z)
    OBVIOUS
  <2>4. \A z \in Reapable(k) : z < m + 1 => z < m \/ z = m
    BY SchedulerAssumption DEF Reapable, Slots
  <2> HIDE DEF g, D, S
  <2> QED BY <2>1, <2>2, <2>3, <2>4 DEF Visited
<1>3. Nat \subseteq S
  <2> HIDE DEF S
  <2> QED BY <1>1, <1>2, CountUp
<1> QED BY <1>3

(* reap_orphans releases zombies only, each an orphan when it was visited. *)
LEMMA ReapsOrphans ==
    ASSUME NEW k
    PROVE  \E P : Reapt(k, P) /\ ReapOrphans(k) = Release(k, P)
<1> DEFINE f == CHOOSE f : f = Scan(k, f, PROCESS_MAX)
<1>1. PROCESS_MAX \in Nat
  BY SchedulerAssumption
<1>2. f = Scan(k, f, PROCESS_MAX)
  BY <1>1, ScanFound
<1>3. ReapOrphans(k) = Release(k, Reapable(k) \cap f[PROCESS_MAX])
  BY DEF ReapOrphans, Scan
<1> HIDE DEF f
<1>4. Reapt(k, f[PROCESS_MAX])
  BY <1>1, <1>2, ScanReaps DEF Reapt
<1>5. Reapable(k) \cap f[PROCESS_MAX] = f[PROCESS_MAX]
  BY <1>4 DEF Reapt, Visited
<1> QED BY <1>3, <1>4, <1>5

(* process_release, field by field. *)
LEMMA ReleaseParts ==
    ASSUME NEW k \in KernelState, NEW P \in SUBSET Slots, k.current \notin P
    PROVE  LET e == Release(k, P)
           IN  /\ \A p \in P : e.tab[p] = Unused
               /\ \A p \in Slots \ P : e.tab[p] = k.tab[p]
               /\ e.free = k.free \cup ((UNION {{k.tab[p].kstack, k.tab[p].ustack} :
                                                  p \in P}) \ {NULL})
               /\ e.torn = (k.torn \/ \E p \in P :
                                         {k.tab[p].kloc, k.tab[p].uloc} # {NULL})
               /\ e.queue = k.queue /\ e.current = k.current
<1>1. P \ {k.current} = P
  OBVIOUS
<1> DEFINE t == [p \in Slots |-> IF p \in P THEN Unused ELSE k.tab[p]]
           f == k.free \cup ((UNION {{k.tab[p].kstack, k.tab[p].ustack} : p \in P})
                               \ {NULL})
           w == k.torn \/ \E p \in P : {k.tab[p].kloc, k.tab[p].uloc} # {NULL}
           e == [k EXCEPT !.tab = t, !.free = f, !.torn = w]
<1>2. Release(k, P) = e
  BY <1>1, Zenon DEF Release, KernelState
<1>3. /\ \A p \in P : t[p] = Unused
      /\ \A p \in Slots \ P : t[p] = k.tab[p]
  OBVIOUS
<1> HIDE DEF t, f, w
<1>4. /\ e.tab = t /\ e.free = f /\ e.torn = w
      /\ e.queue = k.queue /\ e.current = k.current
  BY DEF KernelState
<1> HIDE DEF e
<1>5. /\ \A p \in P : e.tab[p] = Unused
      /\ \A p \in Slots \ P : e.tab[p] = k.tab[p]
  BY <1>3, <1>4
<1> QED BY <1>2, <1>4, <1>5 DEF f, w

(* schedule() releases orphaned zombies and moves live processes; what it  *)
(* dispatches comes from the highest queue in use.                         *)
LEMMA ScheduleMoves ==
    ASSUME NEW k, Sound(k, {}), k.tab[k.current].state # "READY"
    PROVE  /\ \E P : Reapt(k, P) /\ Moves(Release(k, P), Schedule(k))
           /\ \A q \in Levels : k.queue[q] # <<>> =>
                 \E l \in Levels :
                    /\ l <= q /\ k.queue[l] # <<>>
                    /\ \A i \in Levels : i < l => k.queue[i] = <<>>
                    /\ Schedule(k).current = Head(k.queue[l])
<1> DEFINE r     == ReapOrphans(k)
           Ready == {q \in Levels : r.queue[q] # <<>>}
           top   == Min(Ready)
           h     == Head(r.queue[top])
           s     == [r.queue EXCEPT ![top] = Tail(@)]
           u     == [r EXCEPT !.queue = s]
<1>1. PICK P : Reapt(k, P) /\ r = Release(k, P)
  BY ReapsOrphans
<1>2. Eager(r) = r
  BY DEF Eager
<1>3. Sound(r, {})
  BY ReapSound
<1>4. r.queue = k.queue
  <2>1. P \in SUBSET Slots /\ k.current \notin P /\ k \in KernelState
    BY <1>1 DEF Reapt, Visited, Reapable, Sound
  <2> QED BY <1>1, <2>1, ReleaseParts
<1> HIDE DEF r
<1>5. /\ r \in KernelState /\ QueuesMatch(r, {}) /\ IdleStands(r)
      /\ r.tab \in [Slots -> PCB] /\ r.current \in Slots
      /\ r.queue \in [Levels -> Seq(Slots)]
  BY <1>3, StateParts DEF Sound
<1>6. CASE Ready # {}
  <2>1. top \in Ready /\ \A q \in Ready : top <= q
    <3>1. Ready \in SUBSET Nat
      BY DEF Levels
    <3> HIDE DEF Ready
    <3> QED BY <3>1, <1>6, MinOf
  <2>2. Schedule(k) = SwitchTo([r EXCEPT !.queue[top] = Tail(@)], h)
    BY <1>2, <1>6 DEF Schedule, r
  <2>3. [r EXCEPT !.queue[top] = Tail(@)] = u
    BY <1>5 DEF KernelState
  <2>4. top \in Levels /\ r.queue[top] # <<>>
    BY <2>1
  <2>5. \A i \in Levels : i < top => r.queue[i] = <<>>
    <3>1. \A i \in Levels : i < top => i \notin Ready
      <4> HIDE DEF Ready
      <4> QED BY <2>1, <2>4 DEF Levels
    <3> HIDE DEF top
    <3> QED BY <3>1
  <2>6. \A q \in Levels : r.queue[q] # <<>> => top <= q
    BY <2>1
  <2> HIDE DEF top
  <2>7. /\ r.queue[top] \in Seq(Slots) /\ Once(r.queue[top])
        /\ Members(r.queue[top]) = ReadyAt(r, top)
    BY <1>5, <2>4 DEF QueuesMatch
  <2>8. Tail(r.queue[top]) \in Seq(Slots) /\ h \in ReadyAt(r, top)
    BY <2>4, <2>7, TailOnce
  <2> HIDE DEF h
  <2>9. s \in [Levels -> Seq(Slots)]
    BY <1>5, <2>4, <2>8
  <2> HIDE DEF s
  <2>10. u \in KernelState /\ u.tab = r.tab /\ u.free = r.free /\ u.torn = r.torn
    BY <1>5, <2>9, Zenon DEF KernelState
  <2> HIDE DEF u
  <2>11. h \in Slots /\ Live(u.tab[h])
    BY <2>8, <2>10 DEF ReadyAt, Live
  <2>12. Moves(u, SwitchTo(u, h)) /\ SwitchTo(u, h).current = h
    BY <2>10, <2>11, SwitchToMoves
  <2>13. Moves(r, u)
    BY <2>10, MovesNot
  <2>14. Moves(r, Schedule(k)) /\ Schedule(k).current = h
    BY <2>2, <2>3, <2>12, <2>13, MovesOn, Zenon
  <2>15. Schedule(k).current = Head(k.queue[top])
    BY <2>14, <1>4 DEF h
  <2> QED BY <1>1, <1>4, <2>4, <2>5, <2>6, <2>14, <2>15
<1>7. CASE Ready = {}
  <2>1. \A q \in Levels : k.queue[q] = <<>>
    BY <1>4, <1>7
  <2> DEFINE e == [r EXCEPT !.quantum_left = SCHED_QUANTUM_TICKS]
  <2>2. CASE r.tab[r.current].state = "RUNNING"
    <3>1. Schedule(k) = e
      BY <1>2, <1>7, <2>2 DEF Schedule, r
    <3>2. e.tab = r.tab /\ e.free = r.free /\ e.torn = r.torn
      BY <1>5 DEF KernelState
    <3>3. Moves(r, Schedule(k))
      BY <3>1, <3>2, MovesNot, Zenon
    <3> QED BY <1>1, <2>1, <3>3
  <2>3. CASE r.tab[r.current].state # "RUNNING"
    <3>1. ByPid(r, 0) = Idle /\ r.current # Idle /\ r.tab[Idle].state = "READY"
      BY <1>5, <2>3, ByPidIdle DEF IdleStands
    <3>2. Idle \in Slots /\ Idle \notin {None, r.current}
      BY <3>1, IdleIsSlot DEF Idle, None
    <3>3. Schedule(k) = SwitchTo(r, Idle)
      BY <1>2, <1>7, <2>3, <3>1, <3>2 DEF Schedule, r
    <3>4. Live(r.tab[Idle])
      BY <3>1 DEF Live
    <3>5. Moves(r, Schedule(k))
      BY <1>5, <3>2, <3>3, <3>4, SwitchToMoves
    <3> QED BY <1>1, <2>1, <3>5
  <2> QED BY <2>2, <2>3
<1> QED BY <1>6, <1>7

(* A tick moves live processes, and then schedules or not. *)
LEMMA TickMoves ==
    ASSUME NEW k, Sound(k, {}), k.tab[k.current].state = "RUNNING"
    PROVE  \E m : /\ Moves(k, m) /\ Sound(m, {})
                  /\ m.current = k.current /\ m.tab[m.current].state = "RUNNING"
                  /\ SchedulerTick(k) \in {m, Schedule(m)}
<1> DEFINE w == WakeSleepers(k)
           a == ApplyAging(w)
           b == [a EXCEPT !.quantum_left = IF @ > 0 THEN @ - 1 ELSE @]
<1>1. /\ Sound(w, {}) /\ w.tab[w.current].state = "RUNNING"
      /\ w.current = k.current
  BY WakeSleepersSound
<1>2. Moves(k, w)
  BY WakeSleepersMoves DEF Sound
<1>3. Eager(ApplyAging(Eager(WakeSleepers(k)))) = a
  BY DEF Eager
<1> HIDE DEF w
<1>4. w.current \in Slots
  BY <1>1, StateParts DEF Sound
<1>5. /\ Sound(a, {}) /\ a.tab[a.current].state = "RUNNING"
      /\ a.current = w.current
  BY <1>1, <1>4, ApplyAgingSound
<1>6. Moves(w, a)
  BY <1>1, ApplyAgingMoves
<1>7. SchedulerTick(k) \in {b, Schedule(b)}
  BY <1>3 DEF SchedulerTick
<1> HIDE DEF a
<1>8. a \in KernelState /\ a.quantum_left \in 0 .. SCHED_QUANTUM_TICKS
  BY <1>5, StateParts DEF Sound
<1>9. /\ b \in KernelState /\ b.tab = a.tab /\ b.queue = a.queue
      /\ b.current = a.current /\ b.free = a.free /\ b.torn = a.torn
  <2> DEFINE n == IF a.quantum_left > 0 THEN a.quantum_left - 1 ELSE a.quantum_left
  <2>1. n \in 0 .. SCHED_QUANTUM_TICKS
    BY <1>8, SchedulerAssumption
  <2> HIDE DEF n
  <2>2. b = [a EXCEPT !.quantum_left = n]
    BY DEF n
  <2> HIDE DEF b
  <2> QED BY <1>8, <2>1, <2>2 DEF KernelState
<1> HIDE DEF b
<1>10. Sound(b, {}) /\ b.tab[b.current].state = "RUNNING"
  <2>1. QueuesMatch(b, {}) /\ IdleStands(b)
    BY <1>5, <1>9, QuietChange DEF IdleStands, Sound
  <2> QED BY <1>5, <1>9, <2>1 DEF Sound
<1>11. Moves(k, b)
  BY <1>2, <1>6, <1>9, MovesNot, MovesOn
<1> QED BY <1>1, <1>5, <1>7, <1>9, <1>10, <1>11

(* The head of a queue is a member of it. *)
LEMMA HeadIn ==
    ASSUME NEW S, NEW s \in Seq(S), s # <<>>
    PROVE  Head(s) \in Members(s)
BY DEF Members

(* wake_sleepers changes no priority and empties no queue. *)
LEMMA WakeSleepersPriority ==
    ASSUME NEW k, Sound(k, {})
    PROVE  LET w == WakeSleepers(k)
           IN  /\ \A p \in Slots : w.tab[p].priority = k.tab[p].priority
               /\ \A q \in Levels : k.queue[q] # <<>> => w.queue[q] # <<>>
<1> DEFINE Due  == {p \in Slots : /\ k.tab[p].state = "SLEEPING"
                                  /\ k.tab[p].sleep_left <= 1}
           Woken(p) ==
              IF p \in Due
              THEN [k.tab[p] EXCEPT !.state = "READY", !.sleep_left = 0,
                                    !.wait_ticks = 0]
              ELSE IF k.tab[p].state = "SLEEPING"
                   THEN [k.tab[p] EXCEPT !.sleep_left = @ - 1]
                   ELSE k.tab[p]
           D(q) == {p \in Due : k.tab[p].priority = q /\ k.tab[p].pid # 0}
           t == [p \in Slots |-> Woken(p)]
           s == [q \in Levels |-> k.queue[q] \o Sorted(D(q))]
           e == [k EXCEPT !.tab = t, !.queue = s]
<1>1. k \in KernelState
  BY DEF Sound
<1>2. WakeSleepers(k) = e
  BY <1>1 DEF WakeSleepers, KernelState
<1>3. ASSUME NEW p \in Slots PROVE Woken(p).priority = k.tab[p].priority
  <2>1. k.tab[p] \in PCB
    BY <1>1, StateParts
  <2> QED BY <2>1 DEF PCB
<1>4. \A p \in Slots : t[p].priority = k.tab[p].priority
  BY <1>3
<1>5. ASSUME NEW q \in Levels, k.queue[q] # <<>> PROVE s[q] # <<>>
  <2>1. k.queue[q] \in Seq(Slots)
    BY <1>1, StateParts
  <2>2. Sorted(D(q)) \in Seq(D(q))
    <3>1. D(q) \in SUBSET Slots
      OBVIOUS
    <3> HIDE DEF D
    <3>2. D(q) \in SUBSET Int /\ IsFiniteSet(D(q))
      BY <3>1, IdleIsSlot, FS_Subset, Zenon
    <3> QED BY <3>2, SortedOnce
  <2>3. s[q] = k.queue[q] \o Sorted(D(q))
    OBVIOUS
  <2> HIDE DEF D, s
  <2> QED BY <1>5, <2>1, <2>2, <2>3
<1> HIDE DEF t, s
<1>6. e.tab = t /\ e.queue = s
  BY <1>1 DEF KernelState
<1> QED BY <1>2, <1>4, <1>5, <1>6

(* After apply_aging the processes that stay precede those that come from  *)
(* the queue below, and a process that runs is not aged.                   *)
LEMMA ApplyAgingOrder ==
    ASSUME NEW k, Sound(k, {})
    PROVE  LET a       == ApplyAging(k)
               Up(q)   == Pick(k.queue[q], Boosted(k, q))
               Stay(q) == Pick(k.queue[q], DOMAIN k.queue[q] \ Boosted(k, q))
           IN  /\ \A q \in Levels :
                     /\ Stay(q) \in Seq(Slots) /\ Up(q) \in Seq(Slots)
                     /\ Members(Stay(q)) \subseteq ReadyAt(k, q)
                     /\ Members(Up(q)) \subseteq ReadyAt(k, q)
                     /\ k.queue[q] # <<>> /\ Stay(q) = <<>> => q # 0 /\ Up(q) # <<>>
               /\ a.queue[0] = Stay(0) \o Up(1)
               /\ a.queue[1] = Stay(1) \o Up(2)
               /\ a.queue[2] = Stay(2)
               /\ k.tab[k.current].state = "RUNNING" =>
                     a.tab[k.current] = k.tab[k.current]
<1> DEFINE In(p, q, K) == \E i \in K : k.queue[q][i] = p
           l(p) == CHOOSE l \in {0, 1} : In(p, l + 1, Boosted(k, l + 1))
           Aged(p) ==
              IF \E q \in {1, 2} : In(p, q, Boosted(k, q))
              THEN [k.tab[p] EXCEPT !.priority = l(p), !.wait_ticks = 0]
              ELSE IF \E q \in {1, 2} : In(p, q, DOMAIN k.queue[q])
                   THEN [k.tab[p] EXCEPT !.wait_ticks = @ + 1]
                   ELSE k.tab[p]
           Up(q)   == Pick(k.queue[q], Boosted(k, q))
           Stay(q) == Pick(k.queue[q], DOMAIN k.queue[q] \ Boosted(k, q))
           t == [p \in Slots |-> Aged(p)]
           s == [q \in Levels |-> IF q = 2 THEN Stay(q) ELSE Stay(q) \o Up(q + 1)]
           e == [k EXCEPT !.tab = t, !.queue = s]
<1>1. /\ k \in KernelState /\ QueuesMatch(k, {}) /\ k.current \in Slots
      /\ k.queue \in [Levels -> Seq(Slots)]
  BY StateParts DEF Sound
<1>2. ApplyAging(k) = e
  BY <1>1 DEF ApplyAging, KernelState
<1>3. k.tab[k.current].state = "RUNNING" => t[k.current] = k.tab[k.current]
  <2> SUFFICES ASSUME k.tab[k.current].state = "RUNNING"
               PROVE  Aged(k.current) = k.tab[k.current]
    BY <1>1, Zenon
  <2>1. ASSUME NEW q \in {1, 2} PROVE ~In(k.current, q, DOMAIN k.queue[q])
    <3>1. q \in Levels /\ Members(k.queue[q]) = ReadyAt(k, q)
      BY <1>1 DEF QueuesMatch, Levels
    <3>2. k.current \notin Members(k.queue[q])
      BY <3>1 DEF ReadyAt
    <3> QED BY <3>2 DEF Members
  <2>2. \A q \in {1, 2} : Boosted(k, q) \subseteq DOMAIN k.queue[q]
    BY DEF Boosted
  <2> QED BY <2>1, <2>2
<1>4. ASSUME NEW q \in Levels
      PROVE  /\ Stay(q) \in Seq(Slots) /\ Up(q) \in Seq(Slots)
             /\ Members(Stay(q)) \subseteq ReadyAt(k, q)
             /\ Members(Up(q)) \subseteq ReadyAt(k, q)
             /\ k.queue[q] # <<>> /\ Stay(q) = <<>> => q # 0 /\ Up(q) # <<>>
  <2> DEFINE w == k.queue[q]
             B == Boosted(k, q)
             C == DOMAIN w \ B
  <2>1. w \in Seq(Slots) /\ Once(w) /\ Members(w) = ReadyAt(k, q)
    BY <1>1 DEF QueuesMatch
  <2>2. B \in SUBSET DOMAIN w /\ C \in SUBSET DOMAIN w /\ (q = 0 => B = {})
        /\ B \cup C = DOMAIN w
    BY Zenon DEF Boosted
  <2> HIDE DEF w, B, C
  <2>3. /\ Pick(w, B) \in Seq(Slots) /\ Members(Pick(w, B)) = {w[i] : i \in B}
    BY <2>1, <2>2, PickOnce
  <2>4. /\ Pick(w, C) \in Seq(Slots) /\ Members(Pick(w, C)) = {w[i] : i \in C}
    BY <2>1, <2>2, PickOnce
  <2>5. Members(Pick(w, B)) \subseteq ReadyAt(k, q)
    BY <2>1, <2>2, <2>3, Zenon DEF Members
  <2>6. Members(Pick(w, C)) \subseteq ReadyAt(k, q)
    BY <2>1, <2>2, <2>4, Zenon DEF Members
  <2>7. ASSUME w # <<>>, Pick(w, C) = <<>> PROVE B # {}
    <3>1. 1 \in DOMAIN w
      BY <2>1, <2>7
    <3>2. Members(Pick(w, C)) = {}
      BY <2>7 DEF Members
    <3>3. C = {}
      BY <2>4, <3>2, Zenon
    <3> QED BY <2>2, <3>1, <3>3
  <2>8. ASSUME B # {} PROVE Pick(w, B) # <<>>
    <3>1. Members(Pick(w, B)) # {}
      BY <2>3, <2>8, Zenon
    <3> QED BY <3>1 DEF Members
  <2> QED BY <2>2, <2>3, <2>4, <2>5, <2>6, <2>7, <2>8, Zenon DEF w, B, C
<1>5. /\ s[0] = Stay(0) \o Up(1) /\ s[1] = Stay(1) \o Up(2) /\ s[2] = Stay(2)
  <2>1. 0 \in Levels /\ 1 \in Levels /\ 2 \in Levels /\ 0 + 1 = 1 /\ 1 + 1 = 2
    BY DEF Levels
  <2> HIDE DEF Stay, Up
  <2> QED BY <2>1
<1> HIDE DEF t, s, Stay, Up
<1>6. e.tab = t /\ e.queue = s
  BY <1>1 DEF KernelState
<1> HIDE DEF e
<1>7. \A q \in Levels :
         /\ Stay(q) \in Seq(Slots) /\ Up(q) \in Seq(Slots)
         /\ Members(Stay(q)) \subseteq ReadyAt(k, q)
         /\ Members(Up(q)) \subseteq ReadyAt(k, q)
         /\ k.queue[q] # <<>> /\ Stay(q) = <<>> => q # 0 /\ Up(q) # <<>>
  BY <1>4
<1> QED BY <1>2, <1>3, <1>5, <1>6, <1>7, Zenon DEF Stay, Up

(* A tick never leaves the CPU below a queue that was not empty. *)
LEMMA TickRunsHigher ==
    ASSUME NEW k, Sound(k, {}), k.tab[k.current].state = "RUNNING",
           NEW q \in Levels, k.queue[q] # <<>>,
           q < k.tab[k.current].priority \/ k.current = Idle
    PROVE  k.tab[SchedulerTick(k).current].priority <= q
<1> DEFINE w == WakeSleepers(k)
           a == ApplyAging(w)
           b == [a EXCEPT !.quantum_left = IF @ > 0 THEN @ - 1 ELSE @]
           Up(i)   == Pick(w.queue[i], Boosted(w, i))
           Stay(i) == Pick(w.queue[i], DOMAIN w.queue[i] \ Boosted(w, i))
           higher  == \E i \in Levels : /\ \/ i < a.tab[a.current].priority
                                           \/ a.tab[a.current].pid = 0
                                        /\ a.queue[i] # <<>>
<1>1. /\ Sound(w, {}) /\ w.tab[w.current].state = "RUNNING"
      /\ w.current = k.current
  BY WakeSleepersSound
<1>2. /\ \A p \in Slots : w.tab[p].priority = k.tab[p].priority
      /\ w.queue[q] # <<>>
  BY WakeSleepersPriority
<1>3. Moves(k, w)
  BY WakeSleepersMoves DEF Sound
<1>4. Eager(ApplyAging(Eager(WakeSleepers(k)))) = a
  BY DEF Eager
<1>5. SchedulerTick(k) = IF higher \/ b.quantum_left = 0 THEN Schedule(b) ELSE b
  BY <1>4 DEF SchedulerTick
<1> HIDE DEF w
<1>6. w.current \in Slots
  BY <1>1, StateParts DEF Sound
<1>7. /\ Sound(a, {}) /\ a.tab[a.current].state = "RUNNING"
      /\ a.current = w.current
  BY <1>1, <1>6, ApplyAgingSound
<1>8. /\ \A i \in Levels :
            /\ Stay(i) \in Seq(Slots) /\ Up(i) \in Seq(Slots)
            /\ Members(Stay(i)) \subseteq ReadyAt(w, i)
            /\ Members(Up(i)) \subseteq ReadyAt(w, i)
            /\ w.queue[i] # <<>> /\ Stay(i) = <<>> => i # 0 /\ Up(i) # <<>>
      /\ a.queue[0] = Stay(0) \o Up(1)
      /\ a.queue[1] = Stay(1) \o Up(2)
      /\ a.queue[2] = Stay(2)
      /\ a.tab[w.current] = w.tab[w.current]
  BY <1>1, ApplyAgingOrder, Zenon
<1> HIDE DEF a, Stay, Up
<1>9. a \in KernelState /\ a.quantum_left \in 0 .. SCHED_QUANTUM_TICKS
  BY <1>7, StateParts DEF Sound
<1>10. /\ b \in KernelState /\ b.tab = a.tab /\ b.queue = a.queue
       /\ b.current = a.current
  <2> DEFINE n == IF a.quantum_left > 0 THEN a.quantum_left - 1 ELSE a.quantum_left
  <2>1. n \in 0 .. SCHED_QUANTUM_TICKS
    BY <1>9, SchedulerAssumption
  <2> HIDE DEF n
  <2>2. b = [a EXCEPT !.quantum_left = n]
    BY DEF n
  <2> HIDE DEF b
  <2> QED BY <1>9, <2>1, <2>2, Zenon DEF KernelState
<1> HIDE DEF b
<1>11. Sound(b, {}) /\ b.tab[b.current].state # "READY"
  <2>1. QueuesMatch(b, {}) /\ IdleStands(b)
    BY <1>7, <1>10, QuietChange DEF IdleStands, Sound
  <2> QED BY <1>7, <1>10, <2>1 DEF Sound
<1>12. PICK l \in Levels : l <= q /\ a.queue[l] # <<>>
  <2>1. q \in {0, 1, 2}
    BY DEF Levels
  <2>2. CASE Stay(q) # <<>>
    <3>1. /\ Stay(0) \in Seq(Slots) /\ Stay(1) \in Seq(Slots)
          /\ Up(1) \in Seq(Slots) /\ Up(2) \in Seq(Slots)
      BY <1>8 DEF Levels
    <3>2. q = 0 => a.queue[0] # <<>>
      BY <1>8, <2>2, <3>1
    <3>3. q = 1 => a.queue[1] # <<>>
      BY <1>8, <2>2, <3>1
    <3>4. q = 2 => a.queue[2] # <<>>
      BY <1>8, <2>2
    <3>5. a.queue[q] # <<>> /\ q <= q
      BY <2>1, <3>2, <3>3, <3>4
    <3> QED BY <3>5
  <2>3. CASE Stay(q) = <<>>
    <3>1. Up(q) # <<>> /\ q # 0
      BY <1>2, <1>8, <2>3
    <3>2. CASE q = 1
      <4>1. a.queue[0] # <<>>
        BY <1>8, <3>1, <3>2 DEF Levels
      <4> QED BY <3>2, <4>1 DEF Levels
    <3>3. CASE q = 2
      <4>1. a.queue[1] # <<>>
        BY <1>8, <3>1, <3>3 DEF Levels
      <4> QED BY <3>3, <4>1 DEF Levels
    <3> QED BY <2>1, <3>1, <3>2, <3>3
  <2> QED BY <2>2, <2>3
<1>13. higher
  <2>1. k.current = Idle => a.tab[a.current].pid = 0
    BY <1>1, <1>7 DEF Sound, IdleStands
  <2>2. a.tab[a.current].priority = k.tab[k.current].priority
    BY <1>1, <1>2, <1>6, <1>7, <1>8
  <2>3. k.tab[k.current].priority \in Levels
    BY StateParts, PCBParts DEF Sound
  <2>4. l < k.tab[k.current].priority \/ k.current = Idle
    BY <1>12, <2>3 DEF Levels
  <2> QED BY <1>12, <2>1, <2>2, <2>4
<1>14. SchedulerTick(k) = Schedule(b)
  BY <1>5, <1>13
<1> HIDE DEF higher
<1>15. PICK j \in Levels : /\ j <= l /\ a.queue[j] # <<>>
                           /\ \A i \in Levels : i < j => a.queue[i] = <<>>
                           /\ Schedule(b).current = Head(a.queue[j])
  <2>1. \A i \in Levels : b.queue[i] # <<>> =>
           \E j \in Levels :
              /\ j <= i /\ b.queue[j] # <<>>
              /\ \A x \in Levels : x < j => b.queue[x] = <<>>
              /\ Schedule(b).current = Head(b.queue[j])
    BY <1>11, ScheduleMoves
  <2>2. b.queue = a.queue
    BY <1>10
  <2> QED BY <1>12, <2>1, <2>2, Zenon
<1> DEFINE c == Head(a.queue[j])
<1>16. j \in {0, 1, 2} /\ j <= q
  BY <1>12, <1>15 DEF Levels
<1> DEFINE y == a.queue[j]
<1>17. c = Head(y) /\ y # <<>> /\ Schedule(b).current = c
  BY <1>15
<1>18. /\ j # 2 => j + 1 \in Levels /\ y = Stay(j) \o Up(j + 1)
       /\ j = 2 => y = Stay(j)
  <2>1. CASE j = 0
    <3>1. j + 1 = 1 /\ 1 \in Levels /\ j # 2
      BY <2>1 DEF Levels
    <3>2. y = Stay(0) \o Up(1)
      BY <1>8, <2>1, Zenon
    <3> QED BY <2>1, <3>1, <3>2, Zenon
  <2>2. CASE j = 1
    <3>1. j + 1 = 2 /\ 2 \in Levels /\ j # 2
      BY <2>2 DEF Levels
    <3>2. y = Stay(1) \o Up(2)
      BY <1>8, <2>2, Zenon
    <3> QED BY <2>2, <3>1, <3>2, Zenon
  <2>3. CASE j = 2
    BY <1>8, <2>3 DEF Levels
  <2> QED BY <1>16, <2>1, <2>2, <2>3
<1> HIDE DEF c, y
<1>19. ASSUME NEW i \in Levels, i <= q, c \in ReadyAt(w, i)
       PROVE  k.tab[c].priority <= q
  BY <1>2, <1>19 DEF ReadyAt
<1>20. CASE Stay(j) # <<>>
  <2>1. c = Head(Stay(j))
    <3>1. CASE j = 2
      BY <1>17, <1>18, <3>1
    <3>2. CASE j # 2
      <4> DEFINE u == Stay(j)
                 v == Up(j + 1)
      <4>1. j + 1 \in Levels /\ y = u \o v
        BY <1>18, <3>2, Zenon
      <4>2. u \in Seq(Slots) /\ v \in Seq(Slots) /\ u # <<>>
        BY <1>8, <1>20, <4>1, Zenon
      <4> HIDE DEF u, v
      <4>3. Head(y) = Head(u)
        BY <4>1, <4>2
      <4> QED BY <1>17, <4>3 DEF u
    <3> QED BY <3>1, <3>2
  <2>2. c \in ReadyAt(w, j)
    BY <1>8, <1>20, <2>1, HeadIn
  <2> QED BY <1>17, <1>14, <1>16, <1>19, <2>2
<1>21. CASE Stay(j) = <<>>
  <2>1. j # 2 /\ j + 1 \in Levels /\ y = Up(j + 1)
    <3>1. j # 2
      BY <1>17, <1>18, <1>21
    <3> DEFINE v == Up(j + 1)
    <3>2. j + 1 \in Levels /\ y = Stay(j) \o v
      BY <1>18, <3>1, Zenon
    <3>3. v \in Seq(Slots) /\ y = <<>> \o v
      BY <1>8, <1>21, <3>2, Zenon
    <3> HIDE DEF v
    <3>4. y = v
      BY <3>3
    <3> QED BY <3>1, <3>2, <3>4 DEF v
  <2>2. j # q
    <3> SUFFICES ASSUME j = q PROVE FALSE
      OBVIOUS
    <3>1. q # 0 /\ Up(q) # <<>>
      BY <1>2, <1>8, <1>21
    <3>2. q = 1
      BY <1>16, <2>1, <3>1
    <3>3. a.queue[0] # <<>>
      BY <1>8, <3>1, <3>2 DEF Levels
    <3> QED BY <1>15, <3>2, <3>3 DEF Levels
  <2>3. c \in ReadyAt(w, j + 1)
    <3>1. Up(j + 1) \in Seq(Slots) /\ Up(j + 1) # <<>>
      BY <1>17, <1>8, <2>1
    <3>2. Head(Up(j + 1)) \in Members(Up(j + 1))
      BY <3>1, HeadIn
    <3> QED BY <1>17, <1>8, <2>1, <3>2
  <2>4. j + 1 <= q
    BY <1>16, <2>2 DEF Levels
  <2> QED BY <1>17, <1>14, <1>19, <2>1, <2>3, <2>4
<1> QED BY <1>20, <1>21
=============================================================================
