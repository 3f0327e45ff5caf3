----------------------------- MODULE IpcProofs -----------------------------
(***************************************************************************)
(* For every size of the tables and of their rings: the rings of pipes and *)
(* of message queues keep their types, and implement bounded first-in      *)
(* first-out channels.                                                     *)
(***************************************************************************)
EXTENDS Ipc, WellFoundedInduction, TLAPS

(* The default prover and its time limit; the leaves that are pure logic   *)
(* name Zenon instead.                                                     *)
USE SMTT(30)

(* The smallest element of a set of numbers. *)
LEMMA Smallest ==
    ASSUME NEW S \in SUBSET Nat, S # {}
    PROVE  Min(S) \in S /\ \A y \in S : Min(S) <= y
<1>1. PICK x \in S : \A y \in S : ~(<<y, x>> \in OpToRel(<, Nat))
  BY NatLessThanWellFounded, WFMin, Zenon
<1>2. ASSUME NEW y \in S PROVE x <= y
  <2>1. y \in Nat /\ x \in Nat
    OBVIOUS
  <2>2. SUFFICES ASSUME y < x PROVE FALSE
    BY <2>1
  <2>3. <<y, x>> \in Nat \X Nat /\ <<y, x>>[1] < <<y, x>>[2]
    BY <2>1, <2>2
  <2> QED BY <1>1, <2>3 DEF OpToRel
<1> QED BY <1>2, Zenon DEF Min

(* The smaller of two numbers. *)
LEMMA SmallerOf ==
    ASSUME NEW a \in Nat, NEW b \in Nat
    PROVE  Min({a, b}) = IF a <= b THEN a ELSE b
<1> DEFINE S == {a, b}
<1>1. S \in SUBSET Nat /\ S # {}
  OBVIOUS
<1>2. Min(S) \in S /\ \A y \in S : Min(S) <= y
  BY <1>1, Smallest
<1> DEFINE m == Min(S)
<1>3. (m = a \/ m = b) /\ m <= a /\ m <= b
  BY <1>2
<1> HIDE DEF m
<1>4. m = IF a <= b THEN a ELSE b
  BY <1>3
<1> QED BY <1>4 DEF m

(* Counting from 0 reaches every number. *)
LEMMA Counting ==
    ASSUME NEW S, 0 \in S, \A n \in Nat : n \in S => n + 1 \in S
    PROVE  Nat \subseteq S
<1> DEFINE T == Nat \ S
           m == Min(T)
<1> SUFFICES ASSUME T # {} PROVE FALSE
  OBVIOUS
<1>1. T \in SUBSET Nat
  OBVIOUS
<1>2. m \in T /\ \A y \in T : m <= y
  BY <1>1, Smallest
<1>3. m \in Nat /\ m \notin S /\ \A y \in Nat \ S : m <= y
  BY <1>2
<1> HIDE DEF m, T
<1>4. m # 0 /\ m - 1 \in Nat
  BY <1>3
<1>5. (m - 1) + 1 \in S
  BY <1>3, <1>4
<1> QED BY <1>3, <1>4, <1>5

(* A position i steps ahead of r in a ring of n entries. *)
LEMMA Ahead ==
    ASSUME NEW n \in Nat \ {0}, NEW r \in 0 .. n - 1, NEW i \in 0 .. n
    PROVE  /\ (r + i) % n = IF r + i < n THEN r + i ELSE r + i - n
           /\ (r + i) % n \in 0 .. n - 1
<1>1. CASE r + i < n
  BY <1>1
<1>2. CASE ~(r + i < n)
  BY <1>2
<1> QED BY <1>1, <1>2

(* Fewer than n steps apart are different positions. *)
LEMMA Apart ==
    ASSUME NEW n \in Nat \ {0}, NEW r \in 0 .. n - 1, NEW i \in 0 .. n, NEW j \in 0 .. n,
           (r + i) % n = (r + j) % n, i < j
    PROVE  i = 0 /\ j = n
<1>1. (r + i) % n = IF r + i < n THEN r + i ELSE r + i - n
  BY Ahead, Zenon
<1>2. (r + j) % n = IF r + j < n THEN r + j ELSE r + j - n
  BY Ahead, Zenon
<1> DEFINE a == (r + i) % n
           b == (r + j) % n
<1> HIDE DEF a, b
<1> QED BY <1>1, <1>2

(* A step ahead of a position ahead. *)
LEMMA Further ==
    ASSUME NEW n \in Nat \ {0}, NEW r \in 0 .. n - 1, NEW i \in 0 .. n, NEW j \in 0 .. n,
           i + j <= n
    PROVE  (((r + i) % n) + j) % n = (r + (i + j)) % n
<1> DEFINE s == (r + i) % n
<1>1. s \in 0 .. n - 1 /\ s = IF r + i < n THEN r + i ELSE r + i - n
  BY Ahead, Zenon
<1> HIDE DEF s
<1>2. (s + j) % n = IF s + j < n THEN s + j ELSE s + j - n
  BY <1>1, Ahead, Zenon
<1>3. i + j \in 0 .. n
  OBVIOUS
<1>4. (r + (i + j)) % n = IF r + (i + j) < n THEN r + (i + j) ELSE r + (i + j) - n
  BY <1>3, Ahead, Zenon
<1>5. (s + j) % n = (r + (i + j)) % n
  BY <1>1, <1>2, <1>4
<1> QED BY <1>5 DEF s

(* The entries of a ring buf of n from position r on, c of them. *)
Ring(buf, r, c, n) == [i \in 1 .. c |-> buf[(r + i - 1) % n]]

(* buf is a ring of n entries of S, and c of them follow r. *)
IsRing(S, buf, r, c, n) ==
    /\ n \in Nat \ {0} /\ r \in 0 .. n - 1 /\ c \in 0 .. n
    /\ buf \in [0 .. n - 1 -> S]

(* They are a sequence of entries. *)
LEMMA RingSeq ==
    ASSUME NEW S, NEW buf, NEW r, NEW c, NEW n, IsRing(S, buf, r, c, n)
    PROVE  /\ Ring(buf, r, c, n) \in Seq(S) /\ Len(Ring(buf, r, c, n)) = c
           /\ \A i \in 1 .. c : /\ Ring(buf, r, c, n)[i] = buf[(r + (i - 1)) % n]
                               /\ (r + (i - 1)) % n \in 0 .. n - 1
<1>0. /\ n \in Nat \ {0} /\ r \in 0 .. n - 1 /\ c \in 0 .. n
      /\ buf \in [0 .. n - 1 -> S]
  BY DEF IsRing
<1>1. ASSUME NEW i \in 1 .. c
      PROVE  /\ (r + i - 1) % n \in 0 .. n - 1 /\ r + i - 1 = r + (i - 1)
             /\ buf[(r + i - 1) % n] \in S
  <2>1. i - 1 \in 0 .. n /\ r + i - 1 = r + (i - 1)
    BY <1>0
  <2>2. (r + (i - 1)) % n \in 0 .. n - 1
    BY <1>0, <2>1, Ahead
  <2> QED BY <1>0, <2>1, <2>2
<1> DEFINE q == Ring(buf, r, c, n)
<1>2. q = [i \in 1 .. c |-> buf[(r + i - 1) % n]]
  BY DEF Ring
<1> HIDE DEF q
<1>3. q \in [1 .. c -> S] /\ \A i \in 1 .. c : q[i] = buf[(r + (i - 1)) % n]
  BY <1>1, <1>2
<1>4. q \in Seq(S) /\ Len(q) = c
  BY <1>0, <1>3
<1> QED BY <1>1, <1>3, <1>4 DEF q

(* Two sequences of the same length with the same entries are the same. *)
LEMMA SameSeq ==
    ASSUME NEW S, NEW s \in Seq(S), NEW t \in Seq(S), Len(s) = Len(t),
           \A i \in 1 .. Len(s) : s[i] = t[i]
    PROVE  s = t
OBVIOUS

(* new is buf with b after c entries from r. *)
PutAfter(buf, r, c, n, b, new) == new = [buf EXCEPT ![(r + c) % n] = b]

(* An entry put after the last one is appended. *)
LEMMA RingPut ==
    ASSUME NEW S, NEW buf, NEW r, NEW c, NEW n, IsRing(S, buf, r, c, n), c # n, NEW b \in S,
           NEW new, PutAfter(buf, r, c, n, b, new)
    PROVE  Ring(new, r, c + 1, n) = Append(Ring(buf, r, c, n), b)
<1> DEFINE w == (r + c) % n
           s == Ring(new, r, c + 1, n)
           q == Ring(buf, r, c, n)
<1>0. /\ n \in Nat \ {0} /\ r \in 0 .. n - 1 /\ c \in 0 .. n - 1
      /\ buf \in [0 .. n - 1 -> S]
  BY DEF IsRing
<1>1. w \in 0 .. n - 1 /\ c \in 0 .. n /\ c + 1 \in 0 .. n
  BY <1>0, Ahead
<1>2. new \in [0 .. n - 1 -> S] /\ new[w] = b /\ \A i \in 0 .. n - 1 : i # w => new[i] = buf[i]
  BY <1>0, <1>1 DEF PutAfter
<1>3. /\ s \in Seq(S) /\ Len(s) = c + 1
      /\ \A i \in 1 .. c + 1 : s[i] = new[(r + (i - 1)) % n]
  <2> DEFINE d == c + 1
  <2>1. IsRing(S, new, r, d, n)
    BY <1>0, <1>1, <1>2 DEF IsRing
  <2>2. ASSUME NEW g, NEW x, IsRing(S, g, r, x, n)
        PROVE  /\ Ring(g, r, x, n) \in Seq(S) /\ Len(Ring(g, r, x, n)) = x
               /\ \A i \in 1 .. x : /\ Ring(g, r, x, n)[i] = g[(r + (i - 1)) % n]
                                   /\ (r + (i - 1)) % n \in 0 .. n - 1
    BY <2>2, RingSeq
  <2> HIDE DEF w, d
  <2> QED BY <2>1, <2>2 DEF d
<1>4. /\ q \in Seq(S) /\ Len(q) = c
      /\ \A i \in 1 .. c : /\ q[i] = buf[(r + (i - 1)) % n]
                          /\ (r + (i - 1)) % n \in 0 .. n - 1
  BY RingSeq
<1>5. ASSUME NEW i \in 1 .. c PROVE (r + (i - 1)) % n # w
  <2>1. i - 1 \in 0 .. n /\ i - 1 < c /\ c # n
    BY <1>0
  <2> QED BY <1>0, <1>1, <2>1, Apart, Zenon
<1>6. s[c + 1] = b
  <2>1. c + 1 \in 1 .. c + 1 /\ (c + 1) - 1 = c
    BY <1>0
  <2>2. s[c + 1] = new[w]
    BY <2>1, <1>3
  <2> HIDE DEF w, s
  <2> QED BY <2>2, <1>2
<1>7. ASSUME NEW i \in 1 .. c PROVE s[i] = q[i]
  <2> DEFINE a == (r + (i - 1)) % n
  <2>1. s[i] = new[a] /\ q[i] = buf[a] /\ a \in 0 .. n - 1 /\ a # w
    <3> HIDE DEF w, s, q
    <3>1. i \in 1 .. c + 1
      BY <1>0
    <3> QED BY <3>1, <1>3, <1>4, <1>5
  <2> HIDE DEF a, w, s, q
  <2> QED BY <2>1, <1>2
<1> HIDE DEF s, q, w
<1>8. s = Append(q, b)
  <2> DEFINE t == Append(q, b)
  <2>1. /\ t \in Seq(S) /\ Len(t) = c + 1
        /\ t[c + 1] = b /\ \A i \in 1 .. c : t[i] = q[i]
    BY <1>0, <1>4
  <2> HIDE DEF t
  <2>2. ASSUME NEW i \in 1 .. c + 1 PROVE s[i] = t[i]
    <3>1. CASE i = c + 1
      BY <3>1, <2>1, <1>6
    <3>2. CASE i # c + 1
      <4>1. i \in 1 .. c
        BY <1>0, <3>2
      <4> QED BY <4>1, <2>1, <1>7
    <3> QED BY <3>1, <3>2
  <2>3. s = t
    BY <2>1, <2>2, <1>3, SameSeq
  <2> QED BY <2>3 DEF t
<1> QED BY <1>8 DEF s, q, w

(* Passing over k of c entries from r leads to u, with d entries left. *)
Passed(r, c, n, k, u, d) == k \in 0 .. c /\ u = (r + k) % n /\ d = c - k

(* With the first k entries passed over, the others are left, in order. *)
LEMMA RingDrop ==
    ASSUME NEW S, NEW buf, NEW r, NEW c, NEW n, IsRing(S, buf, r, c, n),
           NEW k, NEW u, NEW d, Passed(r, c, n, k, u, d)
    PROVE  /\ Ring(buf, u, d, n) = SubSeq(Ring(buf, r, c, n), k + 1, c)
           /\ u \in 0 .. n - 1 /\ d \in 0 .. n /\ (u + d) % n = (r + c) % n
<1> DEFINE s == Ring(buf, u, d, n)
           q == Ring(buf, r, c, n)
<1>0. /\ n \in Nat \ {0} /\ r \in 0 .. n - 1 /\ c \in 0 .. n
      /\ buf \in [0 .. n - 1 -> S]
      /\ k \in 0 .. c /\ u = (r + k) % n /\ d = c - k
  BY DEF IsRing, Passed
<1>1. k \in 0 .. n /\ d \in 0 .. n /\ k + d = c /\ u \in 0 .. n - 1
  <2>1. k \in 0 .. n /\ d \in 0 .. n /\ k + d = c
    BY <1>0
  <2> QED BY <1>0, <2>1, Ahead
<1>2. /\ s \in Seq(S) /\ Len(s) = d
      /\ \A i \in 1 .. d : s[i] = buf[(u + (i - 1)) % n]
  <2>1. IsRing(S, buf, u, d, n)
    BY <1>0, <1>1 DEF IsRing
  <2>2. /\ Ring(buf, u, d, n) \in Seq(S) /\ Len(Ring(buf, u, d, n)) = d
        /\ \A i \in 1 .. d : /\ Ring(buf, u, d, n)[i] = buf[(u + (i - 1)) % n]
                            /\ (u + (i - 1)) % n \in 0 .. n - 1
    BY <2>1, RingSeq
  <2> QED BY <2>2
<1>3. /\ q \in Seq(S) /\ Len(q) = c
      /\ \A i \in 1 .. c : /\ q[i] = buf[(r + (i - 1)) % n]
                          /\ (r + (i - 1)) % n \in 0 .. n - 1
  BY RingSeq
<1>4. ASSUME NEW i \in 1 .. d PROVE s[i] = q[k + i]
  <2>1. i - 1 \in 0 .. n /\ k + (i - 1) <= n /\ k + i \in 1 .. c /\ (k + i) - 1 = k + (i - 1)
    BY <1>0, <1>1
  <2>2. (u + (i - 1)) % n = (r + (k + (i - 1))) % n
    BY <1>0, <1>1, <2>1, Further, Zenon
  <2>3. q[k + i] = buf[(r + ((k + i) - 1)) % n]
    BY <1>3, <2>1
  <2>4. s[i] = buf[(u + (i - 1)) % n]
    BY <1>2
  <2> HIDE DEF s, q
  <2> QED BY <2>1, <2>2, <2>3, <2>4
<1> HIDE DEF s, q
<1> DEFINE t == SubSeq(q, k + 1, c)
<1>5. /\ t \in Seq(S) /\ Len(t) = d
      /\ \A i \in 1 .. d : t[i] = q[k + i]
  BY <1>0, <1>3
<1> HIDE DEF t
<1>6. s = t
  BY <1>2, <1>4, <1>5, SameSeq
<1>7. (u + d) % n = (r + c) % n
  <2>1. k + d <= n
    BY <1>0, <1>1
  <2>2. (((r + k) % n) + d) % n = (r + (k + d)) % n
    BY <1>0, <1>1, <2>1, Further, Zenon
  <2> QED BY <1>0, <1>1, <2>2, Zenon
<1> QED BY <1>1, <1>6, <1>7 DEF s, q, t
-----------------------------------------------------------------------------
(* Pipes. *)

(* A pipe whose write position is count bytes ahead of its read position.  *)
Wound(p) ==
    /\ p \in Pipe
    /\ p.write_pos = (p.read_pos + p.count) % PIPE_BUF_SIZE

(* The bytes of a pipe are as many as it counts. *)
LEMMA BufferedSeq ==
    ASSUME NEW p \in Pipe
    PROVE  /\ IsRing(Byte, p.buffer, p.read_pos, p.count, PIPE_BUF_SIZE)
           /\ Buffered(p) = Ring(p.buffer, p.read_pos, p.count, PIPE_BUF_SIZE)
           /\ Buffered(p) \in Seq(Byte) /\ Len(Buffered(p)) = p.count
<1> DEFINE N == PIPE_BUF_SIZE
<1>1. IsRing(Byte, p.buffer, p.read_pos, p.count, N)
  BY RingAssumption DEF Pipe, IsRing
<1>2. Buffered(p) = Ring(p.buffer, p.read_pos, p.count, N)
  BY DEF Buffered, Ring
<1> HIDE DEF N
<1>3. /\ Ring(p.buffer, p.read_pos, p.count, N) \in Seq(Byte)
      /\ Len(Ring(p.buffer, p.read_pos, p.count, N)) = p.count
  BY <1>1, RingSeq
<1> QED BY <1>1, <1>2, <1>3 DEF N

(* One turn of the loop of pipe_write appends its byte to a pipe with room *)
(* and leaves a full one alone.                                            *)
LEMMA PutByteAppends ==
    ASSUME NEW p, Wound(p), NEW b \in Byte
    PROVE  /\ Wound(PutByte(p, b)) /\ PutByte(p, b).is_open = p.is_open
           /\ p.count < PIPE_BUF_SIZE => Buffered(PutByte(p, b)) = Append(Buffered(p), b)
           /\ ~(p.count < PIPE_BUF_SIZE) => PutByte(p, b) = p
<1> DEFINE N == PIPE_BUF_SIZE
<1>0. N \in Nat \ {0} /\ p \in Pipe
  BY RingAssumption DEF Wound
<1>1. CASE ~(p.count < N)
  <2>1. PutByte(p, b) = p
    BY <1>1 DEF PutByte
  <2> QED BY <2>1, <1>1
<1>2. CASE p.count < N
  <2> DEFINE w == (p.read_pos + p.count) % N
             B == [p.buffer EXCEPT ![w] = b]
             v == (w + 1) % N
             e == PutByte(p, b)
  <2>1. /\ p.buffer \in [0 .. N - 1 -> Byte] /\ p.read_pos \in 0 .. N - 1
        /\ p.count \in 0 .. N /\ p.count \in 0 .. N - 1 /\ p.is_open \in BOOLEAN
        /\ p.write_pos = w /\ 1 \in 0 .. N /\ p.count + 1 <= N
    BY <1>0, <1>2 DEF Pipe, Wound
  <2>2. w \in 0 .. N - 1
    BY <1>0, <2>1, Ahead, Zenon
  <2>3. v = (p.read_pos + (p.count + 1)) % N /\ v \in 0 .. N - 1
    BY <1>0, <2>1, <2>2, Ahead, Further, Zenon
  <2>4. e = [p EXCEPT !.buffer = B, !.write_pos = v, !.count = p.count + 1]
    BY <1>0, <1>2, <2>1, Zenon DEF PutByte, Pipe
  <2>5. B \in [0 .. N - 1 -> Byte]
    BY <2>1, Zenon
  <2>6. Ring(B, p.read_pos, p.count + 1, N) = Append(Ring(p.buffer, p.read_pos, p.count, N), b)
    <3>1. IsRing(Byte, p.buffer, p.read_pos, p.count, N) /\ p.count # N
      BY <1>0, <1>2, BufferedSeq
    <3>2. PutAfter(p.buffer, p.read_pos, p.count, N, b, B)
      BY DEF PutAfter
    <3> HIDE DEF B, N
    <3> QED BY <3>1, <3>2, RingPut
  <2> HIDE DEF w, B, v, e, N
  <2>r. e = [buffer |-> B, read_pos |-> p.read_pos, write_pos |-> v,
             count |-> p.count + 1, is_open |-> p.is_open]
    <3> DEFINE c == p.count + 1
    <3>1. p = [buffer |-> p.buffer, read_pos |-> p.read_pos, write_pos |-> p.write_pos,
               count |-> p.count, is_open |-> p.is_open]
      BY <1>0 DEF Pipe
    <3>2. e = [p EXCEPT !.buffer = B, !.write_pos = v, !.count = c]
      BY <2>4
    <3> HIDE DEF c
    <3>3. e = [buffer |-> B, read_pos |-> p.read_pos, write_pos |-> v,
               count |-> c, is_open |-> p.is_open]
      BY <3>1, <3>2, Zenon
    <3> QED BY <3>3 DEF c
  <2>7. /\ e.buffer = B /\ e.read_pos = p.read_pos /\ e.write_pos = v
        /\ e.count = p.count + 1 /\ e.is_open = p.is_open
    BY <2>r
  <2>8. e \in Pipe
    <3>1. p.count + 1 \in 0 .. N
      BY <1>0, <2>1
    <3> QED BY <3>1, <2>r, <2>1, <2>3, <2>5 DEF Pipe, N
  <2>9. Wound(e)
    BY <2>3, <2>7, <2>8 DEF Wound, N
  <2>10. Buffered(e) = Append(Buffered(p), b)
    <3>1. Buffered(e) = Ring(e.buffer, e.read_pos, e.count, N)
      BY <2>8, BufferedSeq DEF N
    <3>2. Buffered(p) = Ring(p.buffer, p.read_pos, p.count, N)
      BY <1>0, BufferedSeq DEF N
    <3> QED BY <2>6, <2>7, <3>1, <3>2
  <2> QED BY <1>2, <2>7, <2>9, <2>10 DEF e, N
<1> QED BY <1>1, <1>2

(* The turns of the loop of pipe_write, as a function f of their number.   *)
Turns(p, data, f, n) ==
    [i \in 0 .. n |-> IF i = 0 THEN p ELSE PutByte(f[i - 1], data[i])]

(* The loop runs. *)
LEMMA TurnsFound ==
    ASSUME NEW p, NEW data, NEW n \in Nat
    PROVE  \E f : f = Turns(p, data, f, n)
<1> DEFINE S == {m \in Nat : \E f : f = Turns(p, data, f, m)}
<1>1. 0 \in S
  <2> DEFINE f == [i \in 0 .. 0 |-> p]
  <2>1. f = Turns(p, data, f, 0)
    BY DEF Turns
  <2> QED BY <2>1
<1>2. ASSUME NEW m \in Nat, m \in S PROVE m + 1 \in S
  <2>1. PICK f : f = Turns(p, data, f, m)
    BY <1>2
  <2> DEFINE h == [i \in 0 .. m + 1 |-> IF i = m + 1 THEN PutByte(f[m], data[m + 1]) ELSE f[i]]
             R(i) == IF i = 0 THEN p ELSE PutByte(h[i - 1], data[i])
  <2>2. ASSUME NEW i \in 0 .. m + 1 PROVE h[i] = R(i)
    <3>1. CASE i = m + 1
      <4>1. h[i] = PutByte(f[m], data[m + 1]) /\ h[i - 1] = f[m] /\ i # 0
        BY <3>1
      <4> HIDE DEF h
      <4> QED BY <3>1, <4>1
    <3>2. CASE i # m + 1
      <4>1. i \in 0 .. m /\ h[i] = f[i]
        BY <3>2
      <4>2. i # 0 => i - 1 \in 0 .. m /\ h[i - 1] = f[i - 1]
        BY <3>2
      <4>3. f[i] = IF i = 0 THEN p ELSE PutByte(f[i - 1], data[i])
        BY <2>1, <4>1 DEF Turns
      <4> HIDE DEF h
      <4> QED BY <4>1, <4>2, <4>3
    <3> QED BY <3>1, <3>2
  <2>3. h = [i \in 0 .. m + 1 |-> h[i]]
    OBVIOUS
  <2>4. Turns(p, data, h, m + 1) = [i \in 0 .. m + 1 |-> R(i)]
    BY DEF Turns
  <2> HIDE DEF h, R
  <2>5. h = Turns(p, data, h, m + 1)
    BY <2>2, <2>3, <2>4
  <2> QED BY <2>5
<1>3. Nat \subseteq S
  <2> HIDE DEF S
  <2> QED BY <1>1, <1>2, Counting
<1> QED BY <1>3

(* The smaller of a and the size of a pipe. *)
Fit(a) == IF a <= PIPE_BUF_SIZE THEN a ELSE PIPE_BUF_SIZE

(* After i turns the pipe p holds its bytes and the first i of data, as    *)
(* far as they fit.                                                        *)
Took(p, data, e, i) ==
    /\ Wound(e) /\ e.is_open = p.is_open
    /\ Buffered(e) = SubSeq(Buffered(p) \o data, 1, Fit(p.count + i))

(* A turn takes one byte more. *)
LEMMA TurnTakes ==
    ASSUME NEW p, Wound(p), NEW data \in Seq(Byte), NEW i \in 0 .. Len(data) - 1,
           NEW e, Took(p, data, e, i)
    PROVE  Took(p, data, PutByte(e, data[i + 1]), i + 1)
<1> DEFINE b == data[i + 1]
           a == Buffered(p) \o data
           x == Buffered(e)
           N == PIPE_BUF_SIZE
           c == p.count + i
           L == Len(a)
<1>0. e \in Pipe /\ p \in Pipe /\ Wound(e) /\ e.is_open = p.is_open
  BY DEF Took, Wound
<1>1. b \in Byte /\ i \in Nat /\ N \in Nat \ {0} /\ p.count \in 0 .. N /\ c \in Nat
  BY <1>0, RingAssumption DEF Pipe
<1>2. /\ Buffered(p) \in Seq(Byte) /\ Len(Buffered(p)) = p.count
      /\ x \in Seq(Byte) /\ Len(x) = e.count
  BY <1>0, BufferedSeq
<1>3. a \in Seq(Byte) /\ L = p.count + Len(data) /\ c + 1 <= L /\ a[c + 1] = b /\ L \in Nat
  <2> DEFINE q == Buffered(p)
             d == p.count
  <2>1. q \in Seq(Byte) /\ Len(q) = d /\ d \in Nat
    BY <1>1, <1>2
  <2> HIDE DEF q, d
  <2>2. /\ q \o data \in Seq(Byte) /\ Len(q \o data) = d + Len(data)
        /\ \A j \in 1 .. Len(data) : (q \o data)[d + j] = data[j]
    BY <2>1
  <2>3. i + 1 \in 1 .. Len(data) /\ Len(data) \in Nat
    OBVIOUS
  <2>4. (q \o data)[d + (i + 1)] = data[i + 1] /\ d + (i + 1) = (d + i) + 1
    BY <2>1, <2>2, <2>3
  <2>5. (d + i) + 1 <= d + Len(data) /\ d + Len(data) \in Nat
    BY <2>1, <2>3
  <2> QED BY <2>2, <2>4, <2>5, Zenon DEF q, d
<1>4. x = SubSeq(a, 1, Fit(c))
  BY DEF Took
<1> HIDE DEF a, x, b, c, L
<1>5. CASE c < N
  <2>1. Fit(c) = c /\ Fit(c + 1) = c + 1
    BY <1>1, <1>5 DEF Fit
  <2>2. Len(x) = c /\ \A j \in 1 .. c : x[j] = a[j]
    BY <1>1, <1>2, <1>3, <1>4, <2>1 DEF L
  <2> DEFINE s == SubSeq(a, 1, c + 1)
             t == Append(x, b)
  <2>3. s \in Seq(Byte) /\ Len(s) = c + 1 /\ \A j \in 1 .. c + 1 : s[j] = a[j]
    BY <1>1, <1>3 DEF L
  <2>4. t \in Seq(Byte) /\ Len(t) = c + 1 /\ t[c + 1] = b /\ \A j \in 1 .. c : t[j] = x[j]
    BY <1>1, <1>2, <2>2
  <2> HIDE DEF s, t
  <2>5. ASSUME NEW j \in 1 .. c + 1 PROVE s[j] = t[j]
    <3>1. CASE j = c + 1
      BY <3>1, <2>3, <2>4, <1>3
    <3>2. CASE j # c + 1
      <4>1. j \in 1 .. c
        BY <3>2, <1>1
      <4> QED BY <4>1, <2>2, <2>3, <2>4
    <3> QED BY <3>1, <3>2
  <2>6. s = t
    BY <2>3, <2>4, <2>5, SameSeq
  <2>7. e.count < N
    BY <1>2, <1>5, <2>2
  <2>8. /\ Wound(PutByte(e, b)) /\ PutByte(e, b).is_open = e.is_open
        /\ Buffered(PutByte(e, b)) = t
    BY <1>0, <1>1, <2>7, PutByteAppends DEF t, x
  <2>9. c + 1 = p.count + (i + 1)
    BY <1>1 DEF c
  <2> QED BY <1>0, <2>1, <2>6, <2>8, <2>9, Zenon DEF Took, s, a, b
<1>6. CASE ~(c < N)
  <2>1. Fit(c) = N /\ Fit(c + 1) = N
    BY <1>1, <1>6 DEF Fit
  <2>2. Len(x) = N
    BY <1>1, <1>3, <1>4, <1>6, <2>1 DEF L
  <2>3. PutByte(e, b) = e
    <3>1. ~(e.count < N)
      BY <1>1, <1>2, <2>2
    <3> QED BY <1>0, <1>1, <3>1, PutByteAppends
  <2>4. c + 1 = p.count + (i + 1)
    BY <1>1 DEF c
  <2> QED BY <1>0, <1>4, <2>1, <2>3, <2>4, Zenon DEF Took, x, a, b
<1> QED BY <1>1, <1>5, <1>6

(* The loop of pipe_write takes the bytes of data in order, as far as they *)
(* fit.                                                                    *)
LEMMA WrittenTakes ==
    ASSUME NEW p, Wound(p), NEW data \in Seq(Byte)
    PROVE  Took(p, data, Written(p, data), Len(data))
<1> DEFINE n == Len(data)
           f == CHOOSE f : f = Turns(p, data, f, n)
<1>1. n \in Nat
  OBVIOUS
<1>2. Written(p, data) = f[n]
  BY DEF Written, Turns
<1>3. f = Turns(p, data, f, n)
  BY <1>1, TurnsFound
<1> HIDE DEF f
<1> DEFINE S == {i \in Nat : i <= n => Took(p, data, f[i], i)}
<1>4. 0 \in S
  <2>1. f[0] = p
    BY <1>1, <1>3 DEF Turns
  <2> DEFINE q == Buffered(p)
             c == p.count
  <2>2. q \in Seq(Byte) /\ Len(q) = c /\ c \in 0 .. PIPE_BUF_SIZE /\ PIPE_BUF_SIZE \in Nat
    BY BufferedSeq, RingAssumption DEF Wound, Pipe
  <2>3. Fit(c + 0) = c
    BY <2>2 DEF Fit
  <2> HIDE DEF q, c, n
  <2> DEFINE s == SubSeq(q \o data, 1, c)
  <2>4. s \in Seq(Byte) /\ Len(s) = c /\ \A j \in 1 .. c : s[j] = q[j]
    BY <2>2
  <2> HIDE DEF s
  <2>5. q = s
    BY <2>2, <2>4, SameSeq
  <2>6. Took(p, data, p, 0)
    BY <2>3, <2>5, Zenon DEF Took, q, c, s
  <2> QED BY <2>1, <2>6
<1>5. ASSUME NEW i \in Nat, i \in S PROVE i + 1 \in S
  <2> SUFFICES ASSUME i + 1 <= n PROVE Took(p, data, f[i + 1], i + 1)
    OBVIOUS
  <2>1. i \in 0 .. Len(data) - 1 /\ Took(p, data, f[i], i)
    BY <1>1, <1>5
  <2>2. f[i + 1] = PutByte(f[i], data[i + 1])
    <3>1. i + 1 \in 0 .. n /\ i + 1 # 0 /\ (i + 1) - 1 = i
      BY <1>1
    <3> HIDE DEF n
    <3> QED BY <1>3, <3>1, Zenon DEF Turns
  <2>3. Took(p, data, PutByte(f[i], data[i + 1]), i + 1)
    BY <2>1, TurnTakes
  <2> QED BY <2>2, <2>3
<1>6. Nat \subseteq S
  <2> HIDE DEF S
  <2> QED BY <1>4, <1>5, Counting
<1>7. Took(p, data, f[n], n)
  BY <1>1, <1>6
<1> QED BY <1>2, <1>7

(* What pipe_create, pipe_read and pipe_close make of a pipe. *)
LEMMA CreatedPipe ==
    ASSUME NEW p \in Pipe,
           NEW e, e = [p EXCEPT !.is_open = TRUE, !.read_pos = 0, !.write_pos = 0, !.count = 0]
    PROVE  Wound(e) /\ e.is_open /\ Buffered(e) = << >>
<1>0. PIPE_BUF_SIZE \in Nat \ {0}
  BY RingAssumption
<1>1. /\ e = [buffer |-> p.buffer, read_pos |-> 0, write_pos |-> 0, count |-> 0, is_open |-> TRUE]
      /\ p.buffer \in [0 .. PIPE_BUF_SIZE - 1 -> Byte]
  BY Zenon DEF Pipe
<1>2. 0 \in 0 .. PIPE_BUF_SIZE - 1 /\ 0 \in 0 .. PIPE_BUF_SIZE /\ (0 + 0) % PIPE_BUF_SIZE = 0
  BY <1>0
<1>3. e \in Pipe /\ e.is_open /\ e.count = 0 /\ e.read_pos = 0 /\ e.write_pos = 0
  BY <1>1, <1>2, Zenon DEF Pipe
<1>4. Wound(e)
  BY <1>2, <1>3 DEF Wound
<1>5. Buffered(e) = << >>
  <2>1. Buffered(e) \in Seq(Byte) /\ Len(Buffered(e)) = 0
    BY <1>3, BufferedSeq, Zenon
  <2> QED BY <2>1
<1> QED BY <1>3, <1>4, <1>5

MovedTo(p, u, d, e) == e = [p EXCEPT !.read_pos = u, !.count = d]

LEMMA PipeMoved ==
    ASSUME NEW p \in Pipe, NEW u, NEW d, NEW e, MovedTo(p, u, d, e)
    PROVE  /\ e = [buffer |-> p.buffer, read_pos |-> u, write_pos |-> p.write_pos,
                   count |-> d, is_open |-> p.is_open]
           /\ e.buffer = p.buffer /\ e.read_pos = u /\ e.write_pos = p.write_pos
           /\ e.count = d /\ e.is_open = p.is_open
<1>1. p = [buffer |-> p.buffer, read_pos |-> p.read_pos, write_pos |-> p.write_pos,
           count |-> p.count, is_open |-> p.is_open]
  BY DEF Pipe
<1>2. e = [buffer |-> p.buffer, read_pos |-> u, write_pos |-> p.write_pos,
           count |-> d, is_open |-> p.is_open]
  BY <1>1, Zenon DEF MovedTo
<1> QED BY <1>1, <1>2

LEMMA ReadPipe ==
    ASSUME NEW p, Wound(p), NEW n, NEW u, NEW d, NEW e, MovedTo(p, u, d, e),
           Passed(p.read_pos, p.count, PIPE_BUF_SIZE, n, u, d)
    PROVE  /\ Wound(e) /\ e.is_open = p.is_open
           /\ Buffered(e) = SubSeq(Buffered(p), n + 1, Len(Buffered(p)))
<1> DEFINE N == PIPE_BUF_SIZE
           r == p.read_pos
           c == p.count
<1>0. p \in Pipe /\ p.write_pos = (r + c) % N
  BY DEF Wound
<1>1. /\ e = [buffer |-> p.buffer, read_pos |-> u, write_pos |-> p.write_pos,
              count |-> d, is_open |-> p.is_open]
      /\ e.buffer = p.buffer /\ e.read_pos = u /\ e.write_pos = p.write_pos
      /\ e.count = d /\ e.is_open = p.is_open
  BY <1>0, PipeMoved
<1>2. /\ Buffered(p) = Ring(p.buffer, r, c, N) /\ IsRing(Byte, p.buffer, r, c, N)
      /\ Len(Buffered(p)) = c
  BY <1>0, BufferedSeq
<1>3. Passed(r, c, N, n, u, d)
  OBVIOUS
<1>4. p.write_pos \in 0 .. N - 1 /\ p.buffer \in [0 .. N - 1 -> Byte] /\ p.is_open \in BOOLEAN
  BY <1>0 DEF Pipe
<1> HIDE DEF N, r, c
<1>5. /\ Ring(p.buffer, u, d, N) = SubSeq(Ring(p.buffer, r, c, N), n + 1, c)
      /\ u \in 0 .. N - 1 /\ d \in 0 .. N /\ (u + d) % N = (r + c) % N
  BY <1>2, <1>3, RingDrop
<1>6. e \in Pipe
  BY <1>1, <1>4, <1>5 DEF Pipe, N
<1>7. Wound(e)
  BY <1>0, <1>1, <1>5, <1>6 DEF Wound, N
<1>8. Buffered(e) = Ring(p.buffer, u, d, N)
  BY <1>1, <1>6, BufferedSeq DEF N
<1> QED BY <1>1, <1>2, <1>5, <1>7, <1>8

LEMMA ClosedPipe ==
    ASSUME NEW p, Wound(p), NEW e, e = [p EXCEPT !.is_open = FALSE]
    PROVE  Wound(e) /\ ~e.is_open
<1>1. p \in Pipe
  BY DEF Wound
<1>2. /\ e \in Pipe /\ e.is_open = FALSE /\ e.count = p.count /\ e.read_pos = p.read_pos
      /\ e.write_pos = p.write_pos
  BY <1>1, Zenon DEF Pipe
<1> QED BY <1>2 DEF Wound

(* What a pipe shows its users, and all of them together. *)
Shown(p) == IF p.is_open THEN Buffered(p) ELSE << >>
OpenIn(t) == {p \in Pipes : t[p].is_open}
ShownIn(t) == [p \in Pipes |-> IF t[p].is_open THEN Buffered(t[p]) ELSE << >>]

PipesWound(t) == t \in [Pipes -> Pipe] /\ \A p \in Pipes : Wound(t[p])

(* u is t with e for its entry c. *)
Changed(t, c, e, u) == u = [t EXCEPT ![c] = e]

(* A call on one pipe changes what that one shows, and no other. *)
LEMMA PipeChanged ==
    ASSUME NEW t, PipesWound(t), NEW c \in Pipes, NEW e, Wound(e), NEW u, Changed(t, c, e, u)
    PROVE  /\ PipesWound(u)
           /\ OpenIn(u) = IF e.is_open THEN OpenIn(t) \cup {c} ELSE OpenIn(t) \ {c}
           /\ ShownIn(u) = [ShownIn(t) EXCEPT ![c] = Shown(e)]
           /\ ShownIn(t)[c] = Shown(t[c]) /\ (c \in OpenIn(t) <=> t[c].is_open)
<1>1. t \in [Pipes -> Pipe] /\ e \in Pipe /\ \A p \in Pipes : Wound(t[p])
  BY DEF PipesWound, Wound
<1>2. u \in [Pipes -> Pipe] /\ u[c] = e /\ \A p \in Pipes : p # c => u[p] = t[p]
  BY <1>1 DEF Changed
<1>3. PipesWound(u)
  BY <1>1, <1>2 DEF PipesWound
<1>4. OpenIn(u) = IF e.is_open THEN OpenIn(t) \cup {c} ELSE OpenIn(t) \ {c}
  BY <1>2 DEF OpenIn
<1>5. ShownIn(u) = [ShownIn(t) EXCEPT ![c] = Shown(e)]
  <2>1. ShownIn(u)[c] = Shown(e)
    BY <1>2 DEF ShownIn, Shown
  <2>2. ASSUME NEW p \in Pipes, p # c PROVE ShownIn(u)[p] = ShownIn(t)[p]
    BY <1>2, <2>2 DEF ShownIn
  <2>3. DOMAIN ShownIn(u) = Pipes /\ DOMAIN ShownIn(t) = Pipes
    BY DEF ShownIn
  <2>4. ShownIn(u) = [p \in Pipes |-> ShownIn(u)[p]]
    BY DEF ShownIn
  <2> QED BY <2>1, <2>2, <2>3, <2>4, Zenon
<1>6. ShownIn(t)[c] = Shown(t[c]) /\ (c \in OpenIn(t) <=> t[c].is_open)
  BY DEF ShownIn, Shown, OpenIn
<1> QED BY <1>3, <1>4, <1>5, <1>6

(* The slot a create call takes is closed. *)
LEMMA FirstClosedFound ==
    ASSUME NEW t, DOMAIN t \in SUBSET Nat, FirstClosed(t) # NULL
    PROVE  FirstClosed(t) \in DOMAIN t /\ ~t[FirstClosed(t)].is_open
<1> DEFINE C == {i \in DOMAIN t : ~t[i].is_open}
<1>1. C # {} /\ FirstClosed(t) = Min(C)
  BY DEF FirstClosed
<1>2. C \in SUBSET Nat
  OBVIOUS
<1> HIDE DEF C
<1>3. Min(C) \in C
  BY <1>1, <1>2, Smallest
<1> QED BY <1>1, <1>3 DEF C

(* pipe_create opens a channel, which is empty. *)
LEMMA PipeCreates ==
    ASSUME PipesWound(pipes), pipe_create
    PROVE  PipesWound(pipes') /\ \E c \in Pipes : PipeChannel!Create(c)
<1> DEFINE c == FirstClosed(pipes)
           e == [pipes[c] EXCEPT !.is_open = TRUE, !.read_pos = 0, !.write_pos = 0, !.count = 0]
<1>1. c # NULL /\ Changed(pipes, c, e, pipes') /\ piped' = piped
  BY DEF pipe_create, Changed
<1>2. DOMAIN pipes = Pipes /\ Pipes \in SUBSET Nat
  BY RingAssumption DEF PipesWound, Pipes
<1>3. c \in Pipes /\ ~pipes[c].is_open
  BY <1>1, <1>2, FirstClosedFound
<1>4. pipes[c] \in Pipe
  BY <1>3 DEF PipesWound
<1>5. Wound(e) /\ e.is_open /\ Buffered(e) = << >>
  <2> HIDE DEF c
  <2> QED BY <1>4, CreatedPipe, Zenon
<1> HIDE DEF c, e
<1>6. /\ PipesWound(pipes') /\ OpenIn(pipes') = OpenIn(pipes) \cup {c} /\ c \notin OpenIn(pipes)
      /\ ShownIn(pipes') = [ShownIn(pipes) EXCEPT ![c] = << >>] /\ ShownIn(pipes)[c] = << >>
  BY <1>1, <1>3, <1>5, PipeChanged DEF Shown
<1>7. ShownIn(pipes') = ShownIn(pipes)
  BY <1>3, <1>6, Zenon DEF ShownIn
<1>8. PipeChannel!Create(c)
  BY <1>1, <1>6, <1>7 DEF PipeChannel!Create, OpenIn, ShownIn
<1> QED
  <2>1. \E x \in Pipes : PipeChannel!Create(x)
    BY <1>3, <1>8 DEF PipeChannel!Create
  <2> QED BY <1>6, <2>1

(* pipe_write puts its bytes into an open channel, as far as they fit. *)
LEMMA PipeWrites ==
    ASSUME PipesWound(pipes), NEW p \in Pipes, NEW n \in Nat, NEW data \in [1 .. n -> Byte],
           pipe_write(p, data)
    PROVE  PipesWound(pipes') /\ PipeChannel!Put(p)
<1> DEFINE e == Written(pipes[p], data)
           a == Buffered(pipes[p]) \o data
<1>1. data \in Seq(Byte)
  OBVIOUS
<1>2. pipes[p].is_open /\ Changed(pipes, p, e, pipes') /\ piped' = data
  BY DEF pipe_write, Changed
<1>3. Wound(pipes[p]) /\ pipes[p] \in Pipe
  BY DEF PipesWound, Wound
<1>4. Took(pipes[p], data, e, Len(data))
  BY <1>1, <1>3, WrittenTakes
<1>5. /\ Buffered(pipes[p]) \in Seq(Byte) /\ Len(Buffered(pipes[p])) = pipes[p].count
      /\ pipes[p].count \in Nat /\ PIPE_BUF_SIZE \in Nat
  BY <1>3, BufferedSeq, RingAssumption DEF Pipe
<1>6. Len(a) = pipes[p].count + Len(data) /\ Len(a) \in Nat
  BY <1>1, <1>5
<1>7. Fit(pipes[p].count + Len(data)) = Min({Len(a), PIPE_BUF_SIZE})
  BY <1>5, <1>6, SmallerOf DEF Fit
<1>8. Wound(e) /\ e.is_open = pipes[p].is_open /\ Buffered(e) = SubSeq(a, 1, Min({Len(a), PIPE_BUF_SIZE}))
  BY <1>4, <1>7, Zenon DEF Took
<1> HIDE DEF e
<1>o. e.is_open
  BY <1>2, <1>8
<1>9. /\ PipesWound(pipes') /\ OpenIn(pipes') = OpenIn(pipes) \cup {p} /\ p \in OpenIn(pipes)
      /\ ShownIn(pipes') = [ShownIn(pipes) EXCEPT ![p] = Buffered(e)]
      /\ ShownIn(pipes)[p] = Buffered(pipes[p])
  <2>1. Shown(e) = Buffered(e) /\ Shown(pipes[p]) = Buffered(pipes[p])
    BY <1>2, <1>o DEF Shown
  <2>2. /\ PipesWound(pipes')
        /\ OpenIn(pipes') = IF e.is_open THEN OpenIn(pipes) \cup {p} ELSE OpenIn(pipes) \ {p}
        /\ ShownIn(pipes') = [ShownIn(pipes) EXCEPT ![p] = Shown(e)]
        /\ ShownIn(pipes)[p] = Shown(pipes[p]) /\ (p \in OpenIn(pipes) <=> pipes[p].is_open)
    BY <1>2, <1>8, PipeChanged, Zenon
  <2> QED BY <1>2, <1>o, <2>1, <2>2
<1>10. OpenIn(pipes') = OpenIn(pipes)
  BY <1>9
<1>11. PipeChannel!Put(p)
  <2>1. ShownIn(pipes') = [ShownIn(pipes) EXCEPT ![p] =
              SubSeq(ShownIn(pipes)[p] \o piped', 1, Min({Len(ShownIn(pipes)[p] \o piped'), PIPE_BUF_SIZE}))]
    BY <1>2, <1>8, <1>9
  <2> QED BY <1>1, <1>2, <1>9, <1>10, <2>1
             DEF PipeChannel!Put, PipeChannel!Min, Min, OpenIn, ShownIn
<1> QED BY <1>9, <1>11

(* pipe_read takes the oldest bytes out of an open channel. *)
LEMMA PipeReads ==
    ASSUME PipesWound(pipes), NEW p \in Pipes, NEW size \in Nat, pipe_read(p, size)
    PROVE  PipesWound(pipes') /\ \E n \in 0 .. PIPE_BUF_SIZE : PipeChannel!Take(p, n)
<1> DEFINE n == Min({size, pipes[p].count})
           u == (pipes[p].read_pos + n) % PIPE_BUF_SIZE
           d == pipes[p].count - n
           e == [pipes[p] EXCEPT !.read_pos = u, !.count = d]
<1>1. Wound(pipes[p]) /\ pipes[p] \in Pipe
  BY DEF PipesWound, Wound
<1>2. /\ pipes[p].is_open /\ piped' = SubSeq(Buffered(pipes[p]), 1, n)
      /\ pipes' = [pipes EXCEPT ![p].read_pos = u, ![p].count = d]
  BY DEF pipe_read
<1>3. pipes[p].count \in 0 .. PIPE_BUF_SIZE /\ PIPE_BUF_SIZE \in Nat
  BY <1>1, RingAssumption DEF Pipe
<1>4. n \in 0 .. pipes[p].count /\ n \in 0 .. PIPE_BUF_SIZE
  <2>1. n = IF size <= pipes[p].count THEN size ELSE pipes[p].count
    BY <1>3, SmallerOf
  <2> HIDE DEF n
  <2> QED BY <1>3, <2>1
<1>5. Passed(pipes[p].read_pos, pipes[p].count, PIPE_BUF_SIZE, n, u, d)
  <2> HIDE DEF n
  <2> QED BY <1>4 DEF Passed
<1> HIDE DEF n, u, d
<1>6. Changed(pipes, p, e, pipes')
  <2>1. pipes \in [Pipes -> Pipe]
    BY DEF PipesWound
  <2> QED BY <1>1, <1>2, <2>1, Zenon DEF Changed
<1>7. MovedTo(pipes[p], u, d, e)
  BY DEF MovedTo
<1> HIDE DEF e
<1>8. /\ Wound(e) /\ e.is_open = pipes[p].is_open
      /\ Buffered(e) = SubSeq(Buffered(pipes[p]), n + 1, Len(Buffered(pipes[p])))
  BY <1>1, <1>5, <1>7, ReadPipe
<1>9. e.is_open
  BY <1>2, <1>8
<1>10. Shown(e) = Buffered(e) /\ Shown(pipes[p]) = Buffered(pipes[p])
  BY <1>2, <1>9 DEF Shown
<1>11. /\ PipesWound(pipes')
       /\ OpenIn(pipes') = IF e.is_open THEN OpenIn(pipes) \cup {p} ELSE OpenIn(pipes) \ {p}
       /\ ShownIn(pipes') = [ShownIn(pipes) EXCEPT ![p] = Shown(e)]
       /\ ShownIn(pipes)[p] = Shown(pipes[p]) /\ (p \in OpenIn(pipes) <=> pipes[p].is_open)
  BY <1>6, <1>8, PipeChanged
<1>12. OpenIn(pipes') = OpenIn(pipes) /\ p \in OpenIn(pipes)
  BY <1>2, <1>9, <1>11, Zenon
<1>13. n <= Len(ShownIn(pipes)[p])
  BY <1>1, <1>3, <1>4, <1>10, <1>11, BufferedSeq
<1>14. /\ piped' = SubSeq(ShownIn(pipes)[p], 1, n)
       /\ ShownIn(pipes') = [ShownIn(pipes) EXCEPT ![p] =
                   SubSeq(ShownIn(pipes)[p], n + 1, Len(ShownIn(pipes)[p]))]
  BY <1>2, <1>8, <1>10, <1>11, Zenon
<1>15. PipeChannel!Take(p, n)
  BY <1>12, <1>13, <1>14 DEF PipeChannel!Take, OpenIn, ShownIn
<1>16. \E m \in 0 .. PIPE_BUF_SIZE : PipeChannel!Take(p, m)
  BY <1>4, <1>15, Zenon DEF PipeChannel!Take
<1> QED BY <1>11, <1>16

(* pipe_close closes a channel, and changes nothing of one that was closed *)
(* before.                                                                 *)
LEMMA PipeCloses ==
    ASSUME PipesWound(pipes), NEW p \in Pipes, pipe_close(p)
    PROVE  /\ PipesWound(pipes')
           /\ PipeChannel!Close(p) \/ UNCHANGED PipeChannel!channel
<1> DEFINE e == [pipes[p] EXCEPT !.is_open = FALSE]
<1>1. Wound(pipes[p])
  BY DEF PipesWound
<1>2. Changed(pipes, p, e, pipes') /\ piped' = piped
  BY DEF pipe_close, Changed
<1>3. Wound(e) /\ ~e.is_open
  BY <1>1, ClosedPipe
<1> HIDE DEF e
<1>4. Shown(e) = << >>
  BY <1>3 DEF Shown
<1>5. /\ PipesWound(pipes')
      /\ OpenIn(pipes') = IF e.is_open THEN OpenIn(pipes) \cup {p} ELSE OpenIn(pipes) \ {p}
      /\ ShownIn(pipes') = [ShownIn(pipes) EXCEPT ![p] = Shown(e)]
      /\ ShownIn(pipes)[p] = Shown(pipes[p]) /\ (p \in OpenIn(pipes) <=> pipes[p].is_open)
  BY <1>2, <1>3, PipeChanged
<1>6. /\ OpenIn(pipes') = OpenIn(pipes) \ {p}
      /\ ShownIn(pipes') = [ShownIn(pipes) EXCEPT ![p] = << >>]
  BY <1>3, <1>4, <1>5
<1>7. CASE pipes[p].is_open
  <2>1. PipeChannel!Close(p)
    BY <1>2, <1>5, <1>6, <1>7 DEF PipeChannel!Close, OpenIn, ShownIn
  <2> QED BY <1>5, <2>1
<1>8. CASE ~pipes[p].is_open
  <2>1. ShownIn(pipes)[p] = << >> /\ p \notin OpenIn(pipes)
    BY <1>5, <1>8 DEF Shown
  <2>2. OpenIn(pipes') = OpenIn(pipes)
    BY <1>6, <2>1
  <2>3. ShownIn(pipes') = ShownIn(pipes)
    BY <1>6, <2>1, Zenon DEF ShownIn
  <2>4. UNCHANGED PipeChannel!channel
    BY <1>2, <2>2, <2>3 DEF PipeChannel!channel, OpenIn, ShownIn
  <2> QED BY <1>5, <2>4
<1> QED BY <1>7, <1>8

(* Every call on a pipe is a call on its channel or changes nothing.       *)
LEMMA PipeStep ==
    ASSUME PipesWound(pipes), PipeNext
    PROVE  PipesWound(pipes') /\ (PipeChannel!Next \/ UNCHANGED PipeChannel!channel)
<1>1. CASE pipe_create
  BY <1>1, PipeCreates DEF PipeChannel!Next
<1>2. ASSUME NEW p \in Pipes, NEW n \in 1 .. PIPE_BUF_SIZE + 1, NEW data \in [1 .. n -> Byte],
             pipe_write(p, data)
      PROVE  PipesWound(pipes') /\ PipeChannel!Next
  <2>1. n \in Nat
    OBVIOUS
  <2>2. PipesWound(pipes') /\ PipeChannel!Put(p)
    BY <1>2, <2>1, PipeWrites
  <2> QED BY <2>2 DEF PipeChannel!Next
<1>3. ASSUME NEW p \in Pipes, NEW size \in 0 .. PIPE_BUF_SIZE + 1, pipe_read(p, size)
      PROVE  PipesWound(pipes') /\ PipeChannel!Next
  <2>1. size \in Nat
    OBVIOUS
  <2>2. PipesWound(pipes') /\ \E n \in 0 .. PIPE_BUF_SIZE : PipeChannel!Take(p, n)
    BY <1>3, <2>1, PipeReads
  <2> QED BY <2>2 DEF PipeChannel!Next
<1>4. ASSUME NEW p \in Pipes, pipe_close(p)
      PROVE  PipesWound(pipes') /\ (PipeChannel!Next \/ UNCHANGED PipeChannel!channel)
  <2>1. PipesWound(pipes') /\ (PipeChannel!Close(p) \/ UNCHANGED PipeChannel!channel)
    BY <1>4, PipeCloses
  <2> QED BY <2>1 DEF PipeChannel!Next
<1> QED BY <1>1, <1>2, <1>3, <1>4 DEF PipeNext
-----------------------------------------------------------------------------
(* Message queues. *)

(* What the receivers of messages may see. *)
Item == {[type |-> t, data |-> d] : t \in Type,
             d \in UNION {[1 .. n -> Byte] : n \in 0 .. MSG_MAX_SIZE}}

LEMMA VisibleItem ==
    ASSUME NEW m \in Message
    PROVE  Visible(m) \in Item
<1> DEFINE d == SubSeq(m.data, 1, m.size)
<1>1. /\ MSG_MAX_SIZE \in Nat /\ m.type \in Type /\ m.size \in 0 .. MSG_MAX_SIZE
      /\ m.data \in [1 .. MSG_MAX_SIZE -> Byte]
  BY RingAssumption DEF Message
<1>2. d \in [1 .. m.size -> Byte]
  <2>1. m.data \in Seq(Byte) /\ Len(m.data) = MSG_MAX_SIZE
    BY <1>1
  <2>2. d \in Seq(Byte) /\ Len(d) = m.size
    BY <1>1, <2>1
  <2> HIDE DEF d
  <2> QED BY <2>2
<1>3. d \in UNION {[1 .. n -> Byte] : n \in 0 .. MSG_MAX_SIZE}
  BY <1>1, <1>2
<1>4. Visible(m) = [type |-> m.type, data |-> d]
  BY DEF Visible
<1> HIDE DEF d
<1> QED BY <1>1, <1>3, <1>4 DEF Item

(* A message as msgqueue_send stores it shows what its sender passed.      *)
LEMMA FilledShowsSent ==
    ASSUME NEW old \in Message, NEW type \in Type, NEW size \in 0 .. MSG_MAX_SIZE,
           NEW data \in {NULL} \cup [1 .. size -> Byte]
    PROVE  /\ Filled(old, type, data, size) \in Message
           /\ Visible(Filled(old, type, data, size)) = Sent(old, type, data, size)
<1> DEFINE M == MSG_MAX_SIZE
           f == [i \in 1 .. M |-> IF data # NULL /\ i <= size THEN data[i] ELSE old.data[i]]
           m == Filled(old, type, data, size)
<1>1. M \in Nat /\ size \in 0 .. M /\ old.data \in [1 .. M -> Byte]
  BY RingAssumption DEF Message
<1>2. m = [type |-> type, size |-> size, data |-> f]
  BY DEF Filled
<1>3. f \in [1 .. M -> Byte]
  <2>1. ASSUME NEW i \in 1 .. M
        PROVE  (IF data # NULL /\ i <= size THEN data[i] ELSE old.data[i]) \in Byte
    <3>1. CASE data # NULL /\ i <= size
      <4>1. data \in [1 .. size -> Byte] /\ i \in 1 .. size
        BY <1>1, <3>1
      <4> QED BY <3>1, <4>1
    <3>2. CASE ~(data # NULL /\ i <= size)
      BY <1>1, <3>2
    <3> QED BY <3>1, <3>2
  <2> QED BY <2>1
<1>4. data = NULL => f = old.data
  <2> SUFFICES ASSUME data = NULL PROVE f = old.data
    OBVIOUS
  <2>1. \A i \in 1 .. M : f[i] = old.data[i]
    OBVIOUS
  <2> HIDE DEF f
  <2> QED BY <1>1, <1>3, <2>1
<1>5. data # NULL => SubSeq(f, 1, size) = data
  <2> SUFFICES ASSUME data # NULL PROVE SubSeq(f, 1, size) = data
    OBVIOUS
  <2>1. data \in [1 .. size -> Byte]
    OBVIOUS
  <2>2. \A i \in 1 .. size : i \in 1 .. M /\ f[i] = data[i]
    BY <1>1
  <2> HIDE DEF f
  <2> DEFINE s == SubSeq(f, 1, size)
  <2>3. s \in Seq(Byte) /\ Len(s) = size /\ \A i \in 1 .. size : s[i] = f[i]
    BY <1>1, <1>3
  <2>4. data \in Seq(Byte) /\ Len(data) = size
    BY <1>1, <2>1
  <2> HIDE DEF s
  <2>5. s = data
    BY <2>2, <2>3, <2>4, SameSeq
  <2> QED BY <2>5 DEF s
<1> HIDE DEF f, m
<1>6. m \in Message
  BY <1>1, <1>2, <1>3 DEF Message
<1>7. Visible(m) = [type |-> type, data |-> SubSeq(f, 1, size)]
  BY <1>2 DEF Visible
<1>8. Visible(m) = Sent(old, type, data, size)
  BY <1>4, <1>5, <1>7 DEF Sent
<1> QED BY <1>6, <1>8 DEF m

(* The messages of a queue as its receivers would see them. *)
Views(q) == [i \in 0 .. MSG_QUEUE_SIZE - 1 |-> Visible(q.messages[i])]

(* A queue whose tail is count messages ahead of its head. *)
WoundQ(q) ==
    /\ q \in MsgQueue
    /\ q.tail = (q.head + q.count) % MSG_QUEUE_SIZE

(* The messages of a queue are as many as it counts. *)
LEMMA QueuedSeq ==
    ASSUME NEW q \in MsgQueue
    PROVE  /\ IsRing(Item, Views(q), q.head, q.count, MSG_QUEUE_SIZE)
           /\ Queued(q) = Ring(Views(q), q.head, q.count, MSG_QUEUE_SIZE)
           /\ Queued(q) \in Seq(Item) /\ Len(Queued(q)) = q.count
<1> DEFINE N == MSG_QUEUE_SIZE
<1>0. /\ N \in Nat \ {0} /\ q.head \in 0 .. N - 1 /\ q.count \in 0 .. N
      /\ q.messages \in [0 .. N - 1 -> Message]
  BY RingAssumption DEF MsgQueue
<1>1. Views(q) \in [0 .. N - 1 -> Item]
  BY <1>0, VisibleItem DEF Views
<1>2. IsRing(Item, Views(q), q.head, q.count, N)
  BY <1>0, <1>1 DEF IsRing
<1>3. Queued(q) = Ring(Views(q), q.head, q.count, N)
  <2>1. ASSUME NEW i \in 1 .. q.count
        PROVE  Views(q)[(q.head + i - 1) % N] = Visible(q.messages[(q.head + i - 1) % N])
    <3>1. i - 1 \in 0 .. N /\ q.head + i - 1 = q.head + (i - 1)
      BY <1>0
    <3>2. (q.head + (i - 1)) % N \in 0 .. N - 1
      BY <1>0, <3>1, Ahead, Zenon
    <3> QED BY <3>1, <3>2 DEF Views
  <2> QED BY <2>1 DEF Queued, Ring
<1> HIDE DEF N
<1>4. /\ Ring(Views(q), q.head, q.count, N) \in Seq(Item)
      /\ Len(Ring(Views(q), q.head, q.count, N)) = q.count
  BY <1>2, RingSeq
<1> QED BY <1>2, <1>3, <1>4 DEF N

(* What msgqueue_create, msgqueue_send, msgqueue_receive and               *)
(* msgqueue_close make of a queue.                                         *)
LEMMA CreatedQueue ==
    ASSUME NEW q \in MsgQueue,
           NEW e, e = [q EXCEPT !.is_open = TRUE, !.head = 0, !.tail = 0, !.count = 0]
    PROVE  WoundQ(e) /\ e.is_open /\ Queued(e) = << >>
<1>0. MSG_QUEUE_SIZE \in Nat \ {0}
  BY RingAssumption
<1>1. /\ e = [messages |-> q.messages, head |-> 0, tail |-> 0, count |-> 0, is_open |-> TRUE]
      /\ q.messages \in [0 .. MSG_QUEUE_SIZE - 1 -> Message]
  BY Zenon DEF MsgQueue
<1>2. 0 \in 0 .. MSG_QUEUE_SIZE - 1 /\ 0 \in 0 .. MSG_QUEUE_SIZE /\ (0 + 0) % MSG_QUEUE_SIZE = 0
  BY <1>0
<1>3. e \in MsgQueue /\ e.is_open /\ e.count = 0 /\ e.head = 0 /\ e.tail = 0
  BY <1>1, <1>2, Zenon DEF MsgQueue
<1>4. WoundQ(e)
  BY <1>2, <1>3 DEF WoundQ
<1>5. Queued(e) = << >>
  <2>1. Queued(e) \in Seq(Item) /\ Len(Queued(e)) = 0
    BY <1>3, QueuedSeq, Zenon
  <2> QED BY <2>1
<1> QED BY <1>3, <1>4, <1>5

(* e is q with messages B, head h, tail t and count c. *)
QueueSet(q, B, h, t, c, e) ==
    e = [messages |-> B, head |-> h, tail |-> t, count |-> c, is_open |-> q.is_open]

SentSet(q, B, t, c, e) == e = [q EXCEPT !.messages = B, !.tail = t, !.count = c]
ReceivedSet(q, h, c, e) == e = [q EXCEPT !.head = h, !.count = c]

LEMMA SetQueue ==
    ASSUME NEW q \in MsgQueue, NEW e
    PROVE  /\ \A B, t, c : SentSet(q, B, t, c, e) => QueueSet(q, B, q.head, t, c, e)
           /\ \A h, c : ReceivedSet(q, h, c, e) => QueueSet(q, q.messages, h, q.tail, c, e)
<1>1. q = [messages |-> q.messages, head |-> q.head, tail |-> q.tail, count |-> q.count,
           is_open |-> q.is_open]
  BY DEF MsgQueue
<1>2. ASSUME NEW B, NEW t, NEW c, SentSet(q, B, t, c, e)
      PROVE  QueueSet(q, B, q.head, t, c, e)
  BY <1>1, <1>2, Zenon DEF SentSet, QueueSet
<1>3. ASSUME NEW h, NEW c, ReceivedSet(q, h, c, e)
      PROVE  QueueSet(q, q.messages, h, q.tail, c, e)
  BY <1>1, <1>3, Zenon DEF ReceivedSet, QueueSet
<1> QED BY <1>2, <1>3

LEMMA SentQueue ==
    ASSUME NEW q, WoundQ(q), q.count < MSG_QUEUE_SIZE, NEW m \in Message,
           NEW B, B = [q.messages EXCEPT ![q.tail] = m],
           NEW e, QueueSet(q, B, q.head, (q.tail + 1) % MSG_QUEUE_SIZE, q.count + 1, e)
    PROVE  /\ WoundQ(e) /\ e.is_open = q.is_open
           /\ Queued(e) = Append(Queued(q), Visible(m))
<1> DEFINE N == MSG_QUEUE_SIZE
           h == q.head
           c == q.count
           t == q.tail
           v == (t + 1) % N
           d == c + 1
<1>0. q \in MsgQueue /\ t = (h + c) % N
  BY DEF WoundQ
<1>1. /\ N \in Nat \ {0} /\ q.messages \in [0 .. N - 1 -> Message] /\ h \in 0 .. N - 1
      /\ c \in 0 .. N /\ c \in 0 .. N - 1 /\ q.is_open \in BOOLEAN /\ t \in 0 .. N - 1
      /\ 1 \in 0 .. N /\ c + 1 <= N /\ d \in 0 .. N /\ c # N
  BY <1>0, RingAssumption DEF MsgQueue
<1>2. /\ e = [messages |-> B, head |-> h, tail |-> v, count |-> d, is_open |-> q.is_open]
      /\ e.messages = B /\ e.head = h /\ e.tail = v /\ e.count = d /\ e.is_open = q.is_open
  <2>1. QueueSet(q, B, h, v, d, e)
    OBVIOUS
  <2> HIDE DEF h, v, d
  <2> QED BY <2>1 DEF QueueSet
<1>3. B \in [0 .. N - 1 -> Message] /\ B[t] = m /\ \A i \in 0 .. N - 1 : i # t => B[i] = q.messages[i]
  BY <1>1
<1>4. v = (h + d) % N /\ v \in 0 .. N - 1
  <2> HIDE DEF N, h, c, t
  <2>1. v \in 0 .. N - 1
    BY <1>1, Ahead
  <2>2. (((h + c) % N) + 1) % N = (h + (c + 1)) % N
    BY <1>1, Further
  <2> QED BY <1>0, <2>1, <2>2
<1> HIDE DEF N, h, c, t, v, d
<1>5. e \in MsgQueue
  BY <1>1, <1>2, <1>3, <1>4 DEF MsgQueue, N
<1>6. WoundQ(e)
  BY <1>2, <1>4, <1>5 DEF WoundQ, N
<1>7. Views(e) = [Views(q) EXCEPT ![t] = Visible(m)]
  <2>1. Views(e) = [i \in 0 .. N - 1 |-> Visible(B[i])]
    BY <1>2 DEF Views, N
  <2>2. Views(q) = [i \in 0 .. N - 1 |-> Visible(q.messages[i])]
    BY DEF Views, N
  <2> DEFINE f == Views(e)
             g == Views(q)
  <2>3. f = [i \in 0 .. N - 1 |-> f[i]] /\ \A i \in 0 .. N - 1 : f[i] = Visible(B[i])
    BY <2>1
  <2>4. g = [i \in 0 .. N - 1 |-> g[i]] /\ \A i \in 0 .. N - 1 : g[i] = Visible(q.messages[i])
    BY <2>2
  <2>5. f[t] = Visible(m) /\ \A i \in 0 .. N - 1 : i # t => f[i] = g[i]
    BY <1>1, <1>3, <2>3, <2>4
  <2> HIDE DEF f, g
  <2>6. f = [g EXCEPT ![t] = Visible(m)]
    BY <2>3, <2>4, <2>5, Zenon
  <2> QED BY <2>6 DEF f, g
<1>8. IsRing(Item, Views(q), h, c, N) /\ Queued(q) = Ring(Views(q), h, c, N)
  BY <1>0, QueuedSeq DEF N, h, c
<1>9. Queued(e) = Ring(Views(e), h, d, N)
  BY <1>2, <1>5, QueuedSeq DEF N
<1>10. Ring(Views(e), h, c + 1, N) = Append(Ring(Views(q), h, c, N), Visible(m))
  <2>1. Visible(m) \in Item
    BY VisibleItem
  <2>2. PutAfter(Views(q), h, c, N, Visible(m), Views(e))
    BY <1>0, <1>7 DEF PutAfter
  <2> QED BY <1>1, <1>8, <2>1, <2>2, RingPut
<1> QED BY <1>2, <1>6, <1>8, <1>9, <1>10, Zenon DEF d

LEMMA ReceivedQueue ==
    ASSUME NEW q, WoundQ(q), NEW n, NEW u, NEW d,
           Passed(q.head, q.count, MSG_QUEUE_SIZE, n, u, d),
           NEW e, QueueSet(q, q.messages, u, q.tail, d, e)
    PROVE  /\ WoundQ(e) /\ e.is_open = q.is_open
           /\ Queued(e) = SubSeq(Queued(q), n + 1, Len(Queued(q)))
<1> DEFINE N == MSG_QUEUE_SIZE
           h == q.head
           c == q.count
<1>0. q \in MsgQueue /\ q.tail = (h + c) % N
  BY DEF WoundQ
<1>1. /\ e = [messages |-> q.messages, head |-> u, tail |-> q.tail, count |-> d,
              is_open |-> q.is_open]
      /\ e.messages = q.messages /\ e.head = u /\ e.tail = q.tail
      /\ e.count = d /\ e.is_open = q.is_open
  BY DEF QueueSet
<1>2. /\ Queued(q) = Ring(Views(q), h, c, N) /\ IsRing(Item, Views(q), h, c, N)
      /\ Len(Queued(q)) = c
  BY <1>0, QueuedSeq
<1>3. Passed(h, c, N, n, u, d)
  OBVIOUS
<1>4. q.tail \in 0 .. N - 1 /\ q.messages \in [0 .. N - 1 -> Message] /\ q.is_open \in BOOLEAN
  BY <1>0 DEF MsgQueue
<1> HIDE DEF N, h, c
<1>5. /\ Ring(Views(q), u, d, N) = SubSeq(Ring(Views(q), h, c, N), n + 1, c)
      /\ u \in 0 .. N - 1 /\ d \in 0 .. N /\ (u + d) % N = (h + c) % N
  BY <1>2, <1>3, RingDrop
<1>6. e \in MsgQueue
  BY <1>1, <1>4, <1>5 DEF MsgQueue, N
<1>7. WoundQ(e)
  BY <1>0, <1>1, <1>5, <1>6 DEF WoundQ, N
<1>8. Queued(e) = Ring(Views(q), u, d, N)
  <2>1. Views(e) = Views(q)
    BY <1>1 DEF Views
  <2> QED BY <1>1, <1>6, <2>1, QueuedSeq DEF N
<1> QED BY <1>1, <1>2, <1>5, <1>7, <1>8

LEMMA ClosedQueue ==
    ASSUME NEW q, WoundQ(q), NEW e, e = [q EXCEPT !.is_open = FALSE]
    PROVE  WoundQ(e) /\ ~e.is_open
<1>1. q \in MsgQueue
  BY DEF WoundQ
<1>2. /\ e \in MsgQueue /\ e.is_open = FALSE /\ e.count = q.count /\ e.head = q.head
      /\ e.tail = q.tail
  BY <1>1, Zenon DEF MsgQueue
<1> QED BY <1>2 DEF WoundQ

(* What the queues show their users. *)
ShownQ(q) == IF q.is_open THEN Queued(q) ELSE << >>
OpenInQ(t) == {q \in Queues : t[q].is_open}
ShownInQ(t) == [q \in Queues |-> IF t[q].is_open THEN Queued(t[q]) ELSE << >>]

QueuesWound(t) == t \in [Queues -> MsgQueue] /\ \A q \in Queues : WoundQ(t[q])

(* A call on one queue changes what that one shows, and no other. *)
LEMMA QueueChanged ==
    ASSUME NEW t, QueuesWound(t), NEW c \in Queues, NEW e, WoundQ(e), NEW u, Changed(t, c, e, u)
    PROVE  /\ QueuesWound(u)
           /\ OpenInQ(u) = IF e.is_open THEN OpenInQ(t) \cup {c} ELSE OpenInQ(t) \ {c}
           /\ ShownInQ(u) = [ShownInQ(t) EXCEPT ![c] = ShownQ(e)]
           /\ ShownInQ(t)[c] = ShownQ(t[c]) /\ (c \in OpenInQ(t) <=> t[c].is_open)
<1>1. t \in [Queues -> MsgQueue] /\ e \in MsgQueue /\ \A q \in Queues : WoundQ(t[q])
  BY DEF QueuesWound, WoundQ
<1>2. u \in [Queues -> MsgQueue] /\ u[c] = e /\ \A q \in Queues : q # c => u[q] = t[q]
  BY <1>1 DEF Changed
<1>3. QueuesWound(u)
  BY <1>1, <1>2 DEF QueuesWound
<1>4. OpenInQ(u) = IF e.is_open THEN OpenInQ(t) \cup {c} ELSE OpenInQ(t) \ {c}
  BY <1>2 DEF OpenInQ
<1>5. ShownInQ(u) = [ShownInQ(t) EXCEPT ![c] = ShownQ(e)]
  <2>1. ShownInQ(u)[c] = ShownQ(e)
    BY <1>2 DEF ShownInQ, ShownQ
  <2>2. ASSUME NEW q \in Queues, q # c PROVE ShownInQ(u)[q] = ShownInQ(t)[q]
    BY <1>2, <2>2 DEF ShownInQ
  <2>3. DOMAIN ShownInQ(u) = Queues /\ DOMAIN ShownInQ(t) = Queues
    BY DEF ShownInQ
  <2>4. ShownInQ(u) = [q \in Queues |-> ShownInQ(u)[q]]
    BY DEF ShownInQ
  <2> QED BY <2>1, <2>2, <2>3, <2>4, Zenon
<1>6. ShownInQ(t)[c] = ShownQ(t[c]) /\ (c \in OpenInQ(t) <=> t[c].is_open)
  BY DEF ShownInQ, ShownQ, OpenInQ
<1> QED BY <1>3, <1>4, <1>5, <1>6

(* msgqueue_create opens a channel, which is empty. *)
LEMMA QueueCreates ==
    ASSUME QueuesWound(msg_queues), msgqueue_create
    PROVE  QueuesWound(msg_queues') /\ \E c \in Queues : QueueChannel!Create(c)
<1> DEFINE c == FirstClosed(msg_queues)
           e == [msg_queues[c] EXCEPT !.is_open = TRUE, !.head = 0, !.tail = 0, !.count = 0]
<1>1. c # NULL /\ Changed(msg_queues, c, e, msg_queues') /\ messaged' = messaged
  BY DEF msgqueue_create, Changed
<1>2. DOMAIN msg_queues = Queues /\ Queues \in SUBSET Nat
  BY RingAssumption DEF QueuesWound, Queues
<1>3. c \in Queues /\ ~msg_queues[c].is_open
  BY <1>1, <1>2, FirstClosedFound
<1>4. msg_queues[c] \in MsgQueue
  BY <1>3 DEF QueuesWound
<1>5. WoundQ(e) /\ e.is_open /\ Queued(e) = << >>
  <2> HIDE DEF c
  <2> QED BY <1>4, CreatedQueue, Zenon
<1> HIDE DEF c, e
<1>6. /\ QueuesWound(msg_queues') /\ OpenInQ(msg_queues') = OpenInQ(msg_queues) \cup {c}
      /\ c \notin OpenInQ(msg_queues) /\ ShownInQ(msg_queues)[c] = << >>
      /\ ShownInQ(msg_queues') = [ShownInQ(msg_queues) EXCEPT ![c] = << >>]
  BY <1>1, <1>3, <1>5, QueueChanged DEF ShownQ
<1>7. ShownInQ(msg_queues') = ShownInQ(msg_queues)
  BY <1>3, <1>6, Zenon DEF ShownInQ
<1>8. QueueChannel!Create(c)
  BY <1>1, <1>6, <1>7 DEF QueueChannel!Create, OpenInQ, ShownInQ
<1>9. \E x \in Queues : QueueChannel!Create(x)
  BY <1>3, <1>8 DEF QueueChannel!Create
<1> QED BY <1>6, <1>9

(* msgqueue_send puts one message into an open channel that has room.      *)
LEMMA QueueSends ==
    ASSUME QueuesWound(msg_queues), NEW q \in Queues, NEW type \in Type, NEW size \in Nat,
           NEW data \in {NULL} \cup [1 .. size -> Byte], msgqueue_send(q, type, data, size)
    PROVE  QueuesWound(msg_queues') /\ QueueChannel!Put(q)
<1> DEFINE k == msg_queues[q]
           t == k.tail
           m == Filled(k.messages[t], type, data, size)
           B == [k.messages EXCEPT ![t] = m]
           v == (t + 1) % MSG_QUEUE_SIZE
           d == k.count + 1
           e == [k EXCEPT !.messages = B, !.tail = v, !.count = d]
           x == Sent(k.messages[t], type, data, size)
<1>1. WoundQ(k) /\ k \in MsgQueue /\ msg_queues \in [Queues -> MsgQueue]
  BY DEF QueuesWound, WoundQ
<1>2. /\ k.is_open /\ size <= MSG_MAX_SIZE /\ k.count < MSG_QUEUE_SIZE /\ messaged' = <<x>>
      /\ msg_queues' = [msg_queues EXCEPT ![q].messages[t] = m, ![q].tail = v, ![q].count = d]
  BY DEF msgqueue_send
<1>3. /\ k.messages \in [0 .. MSG_QUEUE_SIZE - 1 -> Message] /\ t \in 0 .. MSG_QUEUE_SIZE - 1
      /\ k.count \in 0 .. MSG_QUEUE_SIZE /\ MSG_QUEUE_SIZE \in Nat
      /\ size \in 0 .. MSG_MAX_SIZE
  BY <1>1, <1>2, RingAssumption DEF MsgQueue
<1>4. m \in Message /\ Visible(m) = x
  <2> DEFINE o == k.messages[t]
  <2>1. o \in Message
    BY <1>3
  <2> HIDE DEF o
  <2>2. /\ Filled(o, type, data, size) \in Message
        /\ Visible(Filled(o, type, data, size)) = Sent(o, type, data, size)
    BY <1>3, <2>1, FilledShowsSent
  <2> QED BY <2>2 DEF o
<1>5. Changed(msg_queues, q, e, msg_queues')
  <2> HIDE DEF m, v, d
  <2> QED BY <1>1, <1>2, Zenon DEF Changed
<1>6. QueueSet(k, B, k.head, v, d, e)
  <2>1. SentSet(k, B, v, d, e)
    BY DEF SentSet
  <2> HIDE DEF k, B, v, d, e
  <2> QED BY <1>1, <2>1, SetQueue
<1>7. WoundQ(e) /\ e.is_open = k.is_open /\ Queued(e) = Append(Queued(k), Visible(m))
  <2>1. B = [k.messages EXCEPT ![k.tail] = m]
    OBVIOUS
  <2>2. QueueSet(k, B, k.head, (k.tail + 1) % MSG_QUEUE_SIZE, k.count + 1, e)
    BY <1>6
  <2> HIDE DEF e, B, m, k
  <2> QED BY <1>1, <1>2, <1>4, <2>1, <2>2, SentQueue, Zenon
<1> HIDE DEF e, B, m, v, d, x
<1>8. e.is_open
  BY <1>2, <1>7
<1>9. ShownQ(e) = Queued(e) /\ ShownQ(k) = Queued(k)
  BY <1>2, <1>8 DEF ShownQ
<1>10. /\ QueuesWound(msg_queues')
       /\ OpenInQ(msg_queues') = IF e.is_open THEN OpenInQ(msg_queues) \cup {q} ELSE OpenInQ(msg_queues) \ {q}
       /\ ShownInQ(msg_queues') = [ShownInQ(msg_queues) EXCEPT ![q] = ShownQ(e)]
       /\ ShownInQ(msg_queues)[q] = ShownQ(k) /\ (q \in OpenInQ(msg_queues) <=> k.is_open)
  BY <1>5, <1>7, QueueChanged
<1>11. OpenInQ(msg_queues') = OpenInQ(msg_queues) /\ q \in OpenInQ(msg_queues)
  BY <1>2, <1>8, <1>10, Zenon
<1>12. x \in Item /\ messaged' \in Seq(Item)
  BY <1>2, <1>4, VisibleItem
<1> DEFINE a == Queued(k) \o messaged'
<1>13. SubSeq(a, 1, Min({Len(a), MSG_QUEUE_SIZE})) = Queued(e)
  <2>1. Queued(k) \in Seq(Item) /\ Len(Queued(k)) = k.count
    BY <1>1, QueuedSeq
  <2> DEFINE z == Queued(k)
  <2> HIDE DEF z, k
  <2>2. a = Append(z, x) /\ a \in Seq(Item) /\ Len(a) = k.count + 1
    <3>1. z \in Seq(Item) /\ Len(z) = k.count /\ messaged' = <<x>> /\ k.count \in Nat
      BY <1>2, <1>3, <2>1 DEF z
    <3>2. z \o <<x>> = Append(z, x) /\ Append(z, x) \in Seq(Item) /\ Len(Append(z, x)) = Len(z) + 1
      BY <1>12, <3>1
    <3> QED BY <3>1, <3>2 DEF z
  <2>3. Min({Len(a), MSG_QUEUE_SIZE}) = Len(a) /\ Len(a) \in Nat
    <3> DEFINE l == Len(a)
    <3>1. l \in Nat /\ l <= MSG_QUEUE_SIZE /\ MSG_QUEUE_SIZE \in Nat
      BY <1>2, <1>3, <2>2
    <3> HIDE DEF l
    <3>2. Min({l, MSG_QUEUE_SIZE}) = IF l <= MSG_QUEUE_SIZE THEN l ELSE MSG_QUEUE_SIZE
      BY <3>1, SmallerOf
    <3> QED BY <3>1, <3>2 DEF l
  <2> HIDE DEF a
  <2>4. SubSeq(a, 1, Len(a)) = a
    BY <2>2, <2>3
  <2> QED BY <1>4, <1>7, <2>2, <2>3, <2>4, Zenon DEF z
<1>14. ShownInQ(msg_queues') = [ShownInQ(msg_queues) EXCEPT ![q] =
            SubSeq(ShownInQ(msg_queues)[q] \o messaged', 1,
                   Min({Len(ShownInQ(msg_queues)[q] \o messaged'), MSG_QUEUE_SIZE}))]
  BY <1>9, <1>10, <1>13, Zenon
<1>15. QueueChannel!Put(q)
  BY <1>11, <1>12, <1>14
     DEF QueueChannel!Put, QueueChannel!Min, Min, OpenInQ, ShownInQ, Item
<1> QED BY <1>10, <1>15

(* msgqueue_receive takes the oldest message out of an open channel. *)
LEMMA QueueReceives ==
    ASSUME QueuesWound(msg_queues), NEW q \in Queues, msgqueue_receive(q)
    PROVE  QueuesWound(msg_queues') /\ \E n \in 0 .. MSG_QUEUE_SIZE : QueueChannel!Take(q, n)
<1> DEFINE k == msg_queues[q]
           N == MSG_QUEUE_SIZE
           n == 1
           u == (k.head + n) % N
           d == k.count - n
           e == [k EXCEPT !.head = u, !.count = d]
<1>1. WoundQ(k) /\ k \in MsgQueue /\ msg_queues \in [Queues -> MsgQueue]
  BY DEF QueuesWound, WoundQ
<1>2. /\ k.is_open /\ k.count # 0 /\ messaged' = <<Visible(k.messages[k.head])>>
      /\ msg_queues' = [msg_queues EXCEPT ![q].head = u, ![q].count = d]
  BY DEF msgqueue_receive
<1>3. k.count \in 0 .. N /\ N \in Nat \ {0} /\ k.head \in 0 .. N - 1
  BY <1>1, RingAssumption DEF MsgQueue
<1>4. n \in 0 .. k.count /\ n \in 0 .. N /\ n <= k.count
  BY <1>2, <1>3
<1>5. Passed(k.head, k.count, N, n, u, d)
  <2> HIDE DEF n
  <2> QED BY <1>4 DEF Passed
<1>6. SubSeq(Queued(k), 1, n) = <<Visible(k.messages[k.head])>>
  <2>1. Queued(k) \in Seq(Item) /\ Len(Queued(k)) = k.count
    BY <1>1, QueuedSeq
  <2>2. Queued(k)[1] = Visible(k.messages[(k.head + 1 - 1) % N])
    BY <1>2, <1>3 DEF Queued
  <2>3. (k.head + 1 - 1) % N = k.head
    BY <1>3
  <2> DEFINE z == Queued(k)
  <2> HIDE DEF z, k
  <2>4. SubSeq(z, 1, 1) = <<z[1]>>
    <3> DEFINE s == SubSeq(z, 1, 1)
               b == <<z[1]>>
    <3>1. z \in Seq(Item) /\ 1 \in 1 .. Len(z) /\ 1 <= Len(z)
      BY <1>3, <1>4, <2>1 DEF z
    <3>2. s \in Seq(Item) /\ Len(s) = 1 /\ s[1] = z[1]
      BY <3>1
    <3>3. z[1] \in Item
      BY <3>1
    <3>4. b \in Seq(Item) /\ Len(b) = 1 /\ b[1] = z[1]
      BY <3>3
    <3> HIDE DEF s, b
    <3>5. \A i \in 1 .. Len(s) : s[i] = b[i]
      BY <3>2, <3>4
    <3>6. s = b
      BY <3>2, <3>4, <3>5, SameSeq
    <3> QED BY <3>6 DEF s, b
  <2> QED BY <2>2, <2>3, <2>4 DEF z
<1> HIDE DEF n, u, d
<1>7. Changed(msg_queues, q, e, msg_queues')
  BY <1>1, <1>2, Zenon DEF Changed
<1>8. QueueSet(k, k.messages, u, k.tail, d, e)
  <2>1. ReceivedSet(k, u, d, e)
    BY DEF ReceivedSet
  <2> HIDE DEF k, e
  <2> QED BY <1>1, <2>1, SetQueue
<1> HIDE DEF e
<1>9. /\ WoundQ(e) /\ e.is_open = k.is_open
      /\ Queued(e) = SubSeq(Queued(k), n + 1, Len(Queued(k)))
  BY <1>1, <1>5, <1>8, ReceivedQueue, Zenon
<1>10. e.is_open
  BY <1>2, <1>9
<1>11. ShownQ(e) = Queued(e) /\ ShownQ(k) = Queued(k)
  BY <1>2, <1>10 DEF ShownQ
<1>12. /\ QueuesWound(msg_queues')
       /\ OpenInQ(msg_queues') = IF e.is_open THEN OpenInQ(msg_queues) \cup {q} ELSE OpenInQ(msg_queues) \ {q}
       /\ ShownInQ(msg_queues') = [ShownInQ(msg_queues) EXCEPT ![q] = ShownQ(e)]
       /\ ShownInQ(msg_queues)[q] = ShownQ(k) /\ (q \in OpenInQ(msg_queues) <=> k.is_open)
  BY <1>7, <1>9, QueueChanged
<1>13. OpenInQ(msg_queues') = OpenInQ(msg_queues) /\ q \in OpenInQ(msg_queues)
  BY <1>2, <1>10, <1>12, Zenon
<1>14. n <= Len(ShownInQ(msg_queues)[q])
  BY <1>1, <1>4, <1>11, <1>12, QueuedSeq
<1>15. /\ messaged' = SubSeq(ShownInQ(msg_queues)[q], 1, n)
       /\ ShownInQ(msg_queues') = [ShownInQ(msg_queues) EXCEPT ![q] =
                   SubSeq(ShownInQ(msg_queues)[q], n + 1, Len(ShownInQ(msg_queues)[q]))]
  BY <1>2, <1>6, <1>9, <1>11, <1>12, Zenon
<1>16. QueueChannel!Take(q, n)
  BY <1>13, <1>14, <1>15 DEF QueueChannel!Take, OpenInQ, ShownInQ
<1>17. \E m \in 0 .. N : QueueChannel!Take(q, m)
  BY <1>4, <1>16, Zenon DEF QueueChannel!Take
<1> QED BY <1>12, <1>17

(* msgqueue_close closes a channel, and changes nothing of one that was    *)
(* closed before.                                                          *)
LEMMA QueueCloses ==
    ASSUME QueuesWound(msg_queues), NEW q \in Queues, msgqueue_close(q)
    PROVE  /\ QueuesWound(msg_queues')
           /\ QueueChannel!Close(q) \/ UNCHANGED QueueChannel!channel
<1> DEFINE k == msg_queues[q]
           e == [k EXCEPT !.is_open = FALSE]
<1>1. WoundQ(k)
  BY DEF QueuesWound
<1>2. Changed(msg_queues, q, e, msg_queues') /\ messaged' = messaged
  BY DEF msgqueue_close, Changed
<1>3. WoundQ(e) /\ ~e.is_open
  BY <1>1, ClosedQueue
<1> HIDE DEF e
<1>4. ShownQ(e) = << >>
  BY <1>3 DEF ShownQ
<1>5. /\ QueuesWound(msg_queues')
      /\ OpenInQ(msg_queues') = IF e.is_open THEN OpenInQ(msg_queues) \cup {q} ELSE OpenInQ(msg_queues) \ {q}
      /\ ShownInQ(msg_queues') = [ShownInQ(msg_queues) EXCEPT ![q] = ShownQ(e)]
      /\ ShownInQ(msg_queues)[q] = ShownQ(k) /\ (q \in OpenInQ(msg_queues) <=> k.is_open)
  BY <1>2, <1>3, QueueChanged
<1>6. /\ OpenInQ(msg_queues') = OpenInQ(msg_queues) \ {q}
      /\ ShownInQ(msg_queues') = [ShownInQ(msg_queues) EXCEPT ![q] = << >>]
  BY <1>3, <1>4, <1>5
<1>7. CASE k.is_open
  <2>1. QueueChannel!Close(q)
    BY <1>2, <1>5, <1>6, <1>7 DEF QueueChannel!Close, OpenInQ, ShownInQ
  <2> QED BY <1>5, <2>1
<1>8. CASE ~k.is_open
  <2>1. ShownInQ(msg_queues)[q] = << >> /\ q \notin OpenInQ(msg_queues)
    BY <1>5, <1>8 DEF ShownQ
  <2>2. OpenInQ(msg_queues') = OpenInQ(msg_queues)
    BY <1>6, <2>1
  <2>3. ShownInQ(msg_queues') = ShownInQ(msg_queues)
    BY <1>6, <2>1, Zenon DEF ShownInQ
  <2>4. UNCHANGED QueueChannel!channel
    BY <1>2, <2>2, <2>3 DEF QueueChannel!channel, OpenInQ, ShownInQ
  <2> QED BY <1>5, <2>4
<1> QED BY <1>7, <1>8

(* Every call on a queue is a call on its channel or changes nothing.      *)
LEMMA QueueStep ==
    ASSUME QueuesWound(msg_queues), QueueNext
    PROVE  QueuesWound(msg_queues') /\ (QueueChannel!Next \/ UNCHANGED QueueChannel!channel)
<1>1. CASE msgqueue_create
  BY <1>1, QueueCreates DEF QueueChannel!Next
<1>2. ASSUME NEW q \in Queues, NEW type \in Type, NEW size \in 0 .. MSG_MAX_SIZE + 1,
             NEW data \in {NULL} \cup [1 .. size -> Byte], msgqueue_send(q, type, data, size)
      PROVE  QueuesWound(msg_queues') /\ QueueChannel!Next
  <2>1. size \in Nat
    OBVIOUS
  <2>2. QueuesWound(msg_queues') /\ QueueChannel!Put(q)
    BY <1>2, <2>1, QueueSends
  <2> QED BY <2>2 DEF QueueChannel!Next
<1>3. ASSUME NEW q \in Queues, msgqueue_receive(q)
      PROVE  QueuesWound(msg_queues') /\ QueueChannel!Next
  <2>1. QueuesWound(msg_queues') /\ \E n \in 0 .. MSG_QUEUE_SIZE : QueueChannel!Take(q, n)
    BY <1>3, QueueReceives
  <2> QED BY <2>1 DEF QueueChannel!Next
<1>4. ASSUME NEW q \in Queues, msgqueue_close(q)
      PROVE  QueuesWound(msg_queues') /\ (QueueChannel!Next \/ UNCHANGED QueueChannel!channel)
  <2>1. QueuesWound(msg_queues') /\ (QueueChannel!Close(q) \/ UNCHANGED QueueChannel!channel)
    BY <1>4, QueueCloses
  <2> QED BY <2>1 DEF QueueChannel!Next
<1> QED BY <1>1, <1>2, <1>3, <1>4 DEF QueueNext
-----------------------------------------------------------------------------
(* Both tables together. *)

(* In every slot, open or closed, the position to write to is as far ahead *)
(* of the position to read from as the count says.                         *)
IInv == PipesWound(pipes) /\ QueuesWound(msg_queues)

LEMMA InitWound ==
    ipc_init => IInv /\ PipeChannel!Init /\ QueueChannel!Init
<1> SUFFICES ASSUME ipc_init PROVE IInv /\ PipeChannel!Init /\ QueueChannel!Init
  OBVIOUS
<1> DEFINE p0 == [buffer |-> [i \in 0 .. PIPE_BUF_SIZE - 1 |-> zero],
                  read_pos |-> 0, write_pos |-> 0, count |-> 0, is_open |-> FALSE]
           q0 == [messages |-> [i \in 0 .. MSG_QUEUE_SIZE - 1 |-> blank],
                  head |-> 0, tail |-> 0, count |-> 0, is_open |-> FALSE]
<1>1. /\ pipes = [p \in Pipes |-> p0] /\ msg_queues = [q \in Queues |-> q0]
      /\ piped = << >> /\ messaged = << >>
  BY DEF ipc_init
<1>2. /\ PIPE_BUF_SIZE \in Nat \ {0} /\ MSG_QUEUE_SIZE \in Nat \ {0} /\ MSG_MAX_SIZE \in Nat
      /\ zero \in Byte /\ zero \in Type
  BY RingAssumption
<1>3. Wound(p0) /\ p0.is_open = FALSE
  <2>1. p0 \in Pipe
    BY <1>2 DEF Pipe
  <2>2. (0 + 0) % PIPE_BUF_SIZE = 0
    BY <1>2
  <2> QED BY <2>1, <2>2 DEF Wound
<1>4. WoundQ(q0) /\ q0.is_open = FALSE
  <2>1. blank \in Message
    BY <1>2 DEF blank, Message
  <2>2. q0 \in MsgQueue
    BY <1>2, <2>1 DEF MsgQueue
  <2>3. (0 + 0) % MSG_QUEUE_SIZE = 0
    BY <1>2
  <2> QED BY <2>2, <2>3 DEF WoundQ
<1> HIDE DEF p0, q0
<1>5. IInv
  BY <1>1, <1>3, <1>4 DEF IInv, PipesWound, QueuesWound, Wound, WoundQ
<1>6. PipeChannel!Init
  BY <1>1, <1>3 DEF PipeChannel!Init
<1>7. QueueChannel!Init
  BY <1>1, <1>4 DEF QueueChannel!Init
<1> QED BY <1>5, <1>6, <1>7

LEMMA StepWound ==
    ASSUME IInv, [PipeNext \/ QueueNext]_vars
    PROVE  /\ IInv'
           /\ PipeChannel!Next \/ UNCHANGED PipeChannel!channel
           /\ QueueChannel!Next \/ UNCHANGED QueueChannel!channel
<1>1. CASE PipeNext
  <2>1. PipesWound(pipes') /\ (PipeChannel!Next \/ UNCHANGED PipeChannel!channel)
    BY <1>1, PipeStep DEF IInv
  <2>2. msg_queues' = msg_queues /\ messaged' = messaged
    BY <1>1, Zenon DEF PipeNext, pipe_create, pipe_write, pipe_read, pipe_close
  <2>3. UNCHANGED QueueChannel!channel
    BY <2>2 DEF QueueChannel!channel
  <2> QED BY <2>1, <2>2, <2>3 DEF IInv
<1>2. CASE QueueNext
  <2>1. QueuesWound(msg_queues') /\ (QueueChannel!Next \/ UNCHANGED QueueChannel!channel)
    BY <1>2, QueueStep DEF IInv
  <2>2. pipes' = pipes /\ piped' = piped
    <3>1. ASSUME NEW q, NEW type, NEW data, NEW size, msgqueue_send(q, type, data, size)
          PROVE  pipes' = pipes /\ piped' = piped
      BY <3>1 DEF msgqueue_send
    <3>2. msgqueue_create => pipes' = pipes /\ piped' = piped
      BY DEF msgqueue_create
    <3>3. ASSUME NEW q, msgqueue_receive(q) \/ msgqueue_close(q)
          PROVE  pipes' = pipes /\ piped' = piped
      BY <3>3 DEF msgqueue_receive, msgqueue_close
    <3> QED BY <1>2, <3>1, <3>2, <3>3 DEF QueueNext
  <2>3. UNCHANGED PipeChannel!channel
    BY <2>2 DEF PipeChannel!channel
  <2> QED BY <2>1, <2>2, <2>3 DEF IInv
<1>3. CASE UNCHANGED vars
  <2>1. pipes' = pipes /\ piped' = piped /\ msg_queues' = msg_queues /\ messaged' = messaged
    BY <1>3 DEF vars
  <2>2. UNCHANGED PipeChannel!channel /\ UNCHANGED QueueChannel!channel
    BY <2>1 DEF PipeChannel!channel, QueueChannel!channel
  <2> QED BY <2>1, <2>2 DEF IInv
<1> QED BY <1>1, <1>2, <1>3

(* The read position, the write position and the count of a ring agree in  *)
(* every reachable state, whatever was opened, closed and opened again.    *)
THEOREM RingsWound == Spec => []IInv
<1>1. IInv /\ [PipeNext \/ QueueNext]_vars => IInv'
  BY StepWound
<1> QED BY <1>1, InitWound, PTL DEF Spec

(* Positions and counts stay inside the buffers: no call of ipc.c indexes  *)
(* a ring beyond its end, for any sizes of the rings.                      *)
THEOREM RingsTyped == Spec => []TypeOK
<1>1. IInv => TypeOK
  BY DEF IInv, TypeOK, PipesWound, QueuesWound
<1> QED BY <1>1, RingsWound, PTL

(* pipe_create, pipe_write, pipe_read and pipe_close implement bounded     *)
(* first-in first-out channels, for any number and any size of the pipes.  *)
THEOREM PipesImplementChannels == Spec => PipesAreChannels
<1>1. IInv /\ [PipeNext \/ QueueNext]_vars => [PipeChannel!Next]_(PipeChannel!channel)
  BY StepWound
<1>2. ipc_init => PipeChannel!Init
  BY InitWound
<1> QED BY <1>1, <1>2, RingsWound, PTL DEF Spec, PipesAreChannels, PipeChannel!Spec

(* msgqueue_create, msgqueue_send, msgqueue_receive and msgqueue_close     *)
(* implement the same channels with whole messages for items.              *)
THEOREM QueuesImplementChannels == Spec => QueuesAreChannels
<1>1. IInv /\ [PipeNext \/ QueueNext]_vars => [QueueChannel!Next]_(QueueChannel!channel)
  BY StepWound
<1>2. ipc_init => QueueChannel!Init
  BY InitWound
<1> QED BY <1>1, <1>2, RingsWound, PTL DEF Spec, QueuesAreChannels, QueueChannel!Spec
=============================================================================
