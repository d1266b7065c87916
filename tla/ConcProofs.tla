------------------------------ MODULE ConcProofs ------------------------------
(***************************************************************************)
(* Proofs about Chan, for any number of threads and channels, any values,    *)
(* any select statements and any MaxPolls: type correctness, the FIFO       *)
(* property, freedom from lost wakeups, and that the runtime implements     *)
(* Channel.  Then proofs about Context, for any tree of contexts of any kinds *)
(* and any number of cancelling threads: a tree of contexts is a use of the   *)
(* channel runtime, and channels are closed for a cause.                    *)
(***************************************************************************)
EXTENDS Context, FiniteSetTheorems, SequenceTheorems, WellFoundedInduction, TLAPS

USE ChanAssumption DEF vars, chanVars, selVars

(* A thread waits in recv for one of the channels, and its poll index is a   *)
(* case of its select: the part of the invariant that keeps on[t] and        *)
(* TheCase(t) meaningful.                                                    *)
PlaceOK == \A t \in Threads : pc[t] \in {"parked", "woken"} => on[t] \in Chans

-----------------------------------------------------------------------------
(* Lists.                                                                     *)

(* A set of numbers with an upper bound has a least one.                      *)
LEMMA Least ==
    ASSUME NEW n \in Nat, NEW T \in SUBSET (0 .. n), T # {}
    PROVE  \E k \in T : \A j \in T : k <= j
  <1> DEFINE Upto(k) == {j \in T : j <= k}
             U       == {Upto(k) : k \in T}
             R       == StrictSubsetOrdering(T)
  <1>1. IsFiniteSet(T)
    <2>1. IsFiniteSet(0 .. n)
      BY FS_Interval
    <2>2. QED
      BY <2>1, FS_Subset
  <1>2. IsWellFoundedOn(R, FiniteSubsetsOf(T))
    BY FS_StrictSubsetOrderingWellFounded
  <1>3. U \subseteq FiniteSubsetsOf(T) /\ U # {}
    <2>1. ASSUME NEW k \in T PROVE Upto(k) \in FiniteSubsetsOf(T)
      BY <1>1, FS_Subset DEF FiniteSubsetsOf
    <2>2. QED
      BY <2>1, Zenon
  <1>4. PICK s \in U : \A t \in U : ~(<<t, s>> \in R)
    <2> HIDE DEF U, R
    <2> QED
      BY <1>2, <1>3, WFMin
  <1>5. PICK k \in T : s = Upto(k)
    OBVIOUS
  <1>6. ASSUME NEW j \in T, j < k PROVE FALSE
    <2>1. Upto(j) \subseteq Upto(k) /\ Upto(j) # Upto(k)
      <3>1. k \in Upto(k) /\ k \notin Upto(j)
        BY <1>6
      <3>2. \A m \in T : m <= j => m <= k
        BY <1>6
      <3>3. QED
        BY <3>1, <3>2
    <2>2. <<Upto(j), Upto(k)>> \in R
      BY <2>1 DEF StrictSubsetOrdering
    <2>3. Upto(j) \in U
      OBVIOUS
    <2>4. QED
      BY <1>4, <1>5, <2>2, <2>3
  <1>7. QED
    BY <1>6

Span(cs, k, n) == [i \in 1 .. n - k |-> cs[k + i].data]

(* A list whose nodes from k + 1 to n are linked in order, and whose head is   *)
(* the first of them, holds their data in that order: it is the only way from  *)
(* the head.                                                                  *)
LEMMA ListIs ==
    ASSUME NEW cs, NEW k \in Nat, NEW n \in Nat, NEW h, k <= n,
           DOMAIN cs = 1 .. n, Len(cs) = n,
           h = IF k = n THEN Nil ELSE k + 1,
           \A i \in k + 1 .. n : cs[i].next = IF i = n THEN Nil ELSE i + 1
    PROVE  ListFrom(h, cs) = Span(cs, k, n)
  <1> USE DEF Nil
  <1> DEFINE q == [i \in 1 .. n - k |-> k + i]
             P == UNION {[1 .. m -> DOMAIN cs] : m \in 0 .. Len(cs)}
  <1>1. q \in P
    <2>1. q \in [1 .. n - k -> DOMAIN cs] /\ n - k \in 0 .. n
      OBVIOUS
    <2>2. QED
      BY <2>1
  <1>2. IsWay(h, cs, q)
    <2>1. q \in Seq(Nat) /\ Len(q) = n - k
      OBVIOUS
    <2>2. \A i \in 1 .. n - k : Append(q, 0)[i] = k + i
      BY <2>1
    <2>3. Append(q, 0)[n - k + 1] = 0
      BY <2>1
    <2>4. Append(q, 0)[1] = h
      BY <2>2, <2>3
    <2>5. \A i \in 1 .. n - k : Append(q, 0)[i + 1] = cs[q[i]].next
      BY <2>2, <2>3
    <2>6. QED
      BY <2>4, <2>5 DEF IsWay
  <1>3. ASSUME NEW p \in P, IsWay(h, cs, p) PROVE p = q
    <2>1. PICK m \in 0 .. n : p \in [1 .. m -> 1 .. n]
      OBVIOUS
    <2>2. p \in Seq(Nat) /\ Len(p) = m /\ DOMAIN p = 1 .. m
      BY <2>1
    <2>3. /\ \A i \in 1 .. m : Append(p, 0)[i] = p[i]
          /\ Append(p, 0)[m + 1] = 0
      BY <2>2
    <2>4. /\ Append(p, 0)[1] = h
          /\ \A i \in 1 .. m : Append(p, 0)[i + 1] = cs[p[i]].next
      BY <1>3, <2>2 DEF IsWay
    <2> DEFINE T == {i \in 1 .. m : p[i] # k + i \/ i > n - k}
    <2>5. T = {}
      <3>1. SUFFICES ASSUME T # {} PROVE FALSE
        OBVIOUS
      <3>2. PICK j \in T : \A i \in T : j <= i
        <4>1. T \in SUBSET (0 .. m) /\ m \in Nat
          OBVIOUS
        <4> HIDE DEF T
        <4> QED
          BY <3>1, <4>1, Least
      <3>3. p[j] \in 1 .. n
        BY <2>1
      <3>4. CASE j = 1
        <4>1. p[1] = h
          BY <2>3, <2>4, <3>4
        <4>2. QED
          BY <3>3, <3>4, <4>1
      <3>5. CASE j # 1
        <4>0. j \in 1 .. m /\ j - 1 \in 1 .. m /\ (j - 1) + 1 = j
          BY <3>5
        <4>1. j - 1 \notin T
          <5>1. ~(j <= j - 1)
            BY <4>0
          <5> HIDE DEF T
          <5> QED
            BY <3>2, <5>1
        <4>2. p[j - 1] = k + (j - 1) /\ j - 1 <= n - k
          BY <4>0, <4>1
        <4>3. p[j] = cs[k + (j - 1)].next
          <5>1. Append(p, 0)[(j - 1) + 1] = cs[p[j - 1]].next
            BY <2>4, <4>0
          <5>2. Append(p, 0)[j] = p[j]
            BY <2>3, <4>0
          <5>3. QED
            BY <4>0, <4>2, <5>1, <5>2
        <4>4. QED
          BY <3>3, <3>5, <4>2, <4>3
      <3>6. QED
        BY <3>4, <3>5
    <2>6. m <= n - k /\ \A i \in 1 .. m : p[i] = k + i
      <3>1. ASSUME NEW i \in 1 .. m PROVE i <= n - k /\ p[i] = k + i
        <4>1. i \notin T
          BY <2>5
        <4>2. QED
          BY <4>1
      <3>2. m \in 1 .. m => m <= n - k
        BY <3>1, Zenon
      <3>3. m <= n - k
        BY <3>2
      <3>4. QED
        BY <3>1, <3>3
    <2>7. m = n - k
      <3>1. SUFFICES ASSUME m < n - k PROVE FALSE
        BY <2>6
      <3>2. CASE m = 0
        BY <2>3, <2>4, <3>1, <3>2
      <3>3. CASE m # 0
        <4>1. m \in 1 .. m /\ p[m] = k + m
          BY <2>6, <3>3
        <4>2. cs[k + m].next = 0
          BY <2>3, <2>4, <4>1
        <4>3. QED
          BY <3>1, <3>3, <4>2
      <3>4. QED
        BY <3>2, <3>3
    <2>8. QED
      BY <2>1, <2>6, <2>7
  <1>4. WayFrom(h, cs) = q
    <2>1. (CHOOSE p \in P : IsWay(h, cs, p)) = q
      <3> HIDE DEF P, q
      <3> QED
        BY <1>1, <1>2, <1>3
    <2>2. QED
      BY <2>1 DEF WayFrom
  <1>5. ListFrom(h, cs) = [i \in DOMAIN q |-> cs[q[i]].data]
    BY <1>4 DEF ListFrom
  <1>6. QED
    BY <1>5 DEF Span

(* The list of a channel that accepted s and gave out u, as send and recv keep *)
(* it: h is its head, l its tail and cs its nodes by address.                 *)
IsChain(h, l, cs, s, u) ==
    /\ Len(u) <= Len(s) /\ Len(cs) = Len(s)
    /\ h = IF Len(u) = Len(s) THEN Nil ELSE Len(u) + 1
    /\ l = IF Len(u) = Len(s) THEN Nil ELSE Len(s)
    /\ \A i \in Len(u) + 1 .. Len(s) :
          /\ cs[i].data = s[i]
          /\ cs[i].next = IF i = Len(s) THEN Nil ELSE i + 1

(* What is still to be given out.                                             *)
Rest(s, u) == [i \in 1 .. Len(s) - Len(u) |-> s[Len(u) + i]]

LEMMA ChainList ==
    ASSUME NEW s \in Seq(Values), NEW u \in Seq(Values), NEW cs \in Seq(Node), NEW h, NEW l,
           IsChain(h, l, cs, s, u)
    PROVE  /\ ListFrom(h, cs) = Rest(s, u) /\ Rest(s, u) \in Seq(Values)
           /\ h = Nil <=> Rest(s, u) = << >>
  <1> DEFINE k == Len(u)
             n == Len(s)
  <1>1. k \in Nat /\ n \in Nat /\ k <= n /\ Len(cs) = n /\ DOMAIN cs = 1 .. n
    BY DEF IsChain
  <1>2. h = IF k = n THEN Nil ELSE k + 1
    BY DEF IsChain
  <1>3. \A i \in k + 1 .. n : cs[i].next = IF i = n THEN Nil ELSE i + 1
    BY DEF IsChain
  <1>4. ListFrom(h, cs) = [i \in 1 .. n - k |-> cs[k + i].data]
    <2>1. ListFrom(h, cs) = Span(cs, k, n)
      <3> HIDE DEF k, n
      <3> QED
        BY <1>1, <1>2, <1>3, ListIs
    <2>2. QED
      BY <2>1 DEF Span
  <1>5. \A i \in 1 .. n - k : cs[k + i].data = s[k + i]
    <2>1. ASSUME NEW i \in 1 .. n - k PROVE cs[k + i].data = s[k + i]
      <3>1. k + i \in k + 1 .. n
        BY <1>1
      <3>2. QED
        BY <3>1 DEF IsChain
    <2>2. QED
      BY <2>1
  <1>6. ListFrom(h, cs) = Rest(s, u)
    BY <1>4, <1>5 DEF Rest
  <1>7. Rest(s, u) \in Seq(Values) /\ Len(Rest(s, u)) = n - k
    <2>1. \A i \in 1 .. n - k : s[k + i] \in Values
      BY <1>1
    <2>2. QED
      BY <1>1, <2>1 DEF Rest
  <1>8. h = Nil <=> Rest(s, u) = << >>
    <2>1. h = Nil <=> k = n
      BY <1>1, <1>2 DEF Nil
    <2>2. Rest(s, u) = << >> <=> Len(Rest(s, u)) = 0
      BY <1>7
    <2>3. QED
      BY <1>1, <1>7, <2>1, <2>2
  <1>9. QED
    BY <1>6, <1>7, <1>8

(* send links its node behind the tail, or makes it the only one.             *)
LEMMA ChainPut ==
    ASSUME NEW s \in Seq(Values), NEW u \in Seq(Values), NEW cs \in Seq(Node), NEW h, NEW l,
           IsChain(h, l, cs, s, u), NEW v \in Values
    PROVE  /\ Linked(l, cs, v) \in Seq(Node)
           /\ IsChain(IF l = Nil THEN Len(cs) + 1 ELSE h, Len(cs) + 1, Linked(l, cs, v),
                      Append(s, v), u)
           /\ Rest(Append(s, v), u) = Append(Rest(s, u), v)
  <1> DEFINE k == Len(u)
             n == Len(s)
             new == [data |-> v, next |-> Nil]
             old == IF l = Nil THEN cs ELSE [cs EXCEPT ![l].next = n + 1]
  <1>1. /\ k \in Nat /\ n \in Nat /\ k <= n /\ Len(cs) = n /\ DOMAIN cs = 1 .. n
        /\ l = IF k = n THEN Nil ELSE n
        /\ h = IF k = n THEN Nil ELSE k + 1
    BY DEF IsChain
  <1>2. /\ old \in Seq(Node) /\ Len(old) = n
        /\ \A i \in 1 .. n : /\ old[i].data = cs[i].data
                             /\ old[i].next = IF i = l THEN n + 1 ELSE cs[i].next
    <2>1. CASE l = Nil
      BY <1>1, <2>1 DEF Nil
    <2>2. CASE l # Nil
      <3>1. l = n /\ n \in 1 .. n /\ n + 1 \in Nat /\ old = [cs EXCEPT ![l] = [cs[l] EXCEPT !.next = n + 1]]
        BY <1>1, <2>2 DEF Nil
      <3>2. cs[l] \in Node /\ [cs[l] EXCEPT !.next = n + 1] \in Node
        <4>1. cs[l] \in Node
          BY <1>1, <3>1
        <4>2. ASSUME NEW r \in Node, NEW m \in Nat PROVE [r EXCEPT !.next = m] \in Node
          BY DEF Node
        <4>3. QED
          BY <3>1, <4>1, <4>2, Zenon
      <3>3. old \in Seq(Node) /\ Len(old) = n
        BY <1>1, <3>1, <3>2
      <3>4. ASSUME NEW i \in 1 .. n
            PROVE  /\ old[i].data = cs[i].data
                   /\ old[i].next = IF i = l THEN n + 1 ELSE cs[i].next
        <4>1. CASE i = l
          <5>1. old[i] = [cs[l] EXCEPT !.next = n + 1]
            BY <1>1, <3>1, <4>1
          <5>2. QED
            BY <3>2, <4>1, <5>1 DEF Node
        <4>2. CASE i # l
          BY <1>1, <3>1, <4>2
        <4>3. QED
          BY <4>1, <4>2
      <3>5. QED
        BY <3>3, <3>4
    <2>3. QED
      BY <2>1, <2>2
  <1>3. Linked(l, cs, v) = Append(old, new)
    BY <1>1 DEF Linked
  <1>4. new \in Node /\ new.data = v /\ new.next = Nil
    BY DEF Node, Nil
  <1> HIDE DEF old, new
  <1>5. /\ Append(old, new) \in Seq(Node) /\ Len(Append(old, new)) = n + 1
        /\ Append(old, new)[n + 1] = new
        /\ \A i \in 1 .. n : Append(old, new)[i] = old[i]
    <2>1. old \in Seq(Node) /\ Len(old) = n
      BY <1>2
    <2> HIDE DEF n
    <2>2. QED
      BY <1>4, <2>1
  <1>6. /\ Append(s, v) \in Seq(Values) /\ Len(Append(s, v)) = n + 1
        /\ Append(s, v)[n + 1] = v
        /\ \A i \in 1 .. n : Append(s, v)[i] = s[i]
    BY <1>1
  <1>7. ASSUME NEW i \in k + 1 .. n + 1
        PROVE  /\ Append(old, new)[i].data = Append(s, v)[i]
               /\ Append(old, new)[i].next = IF i = n + 1 THEN Nil ELSE i + 1
    <2>1. CASE i = n + 1
      BY <1>4, <1>5, <1>6, <2>1
    <2>2. CASE i # n + 1
      <3>1. i \in k + 1 .. n /\ i \in 1 .. n /\ k # n
        BY <1>1, <2>2
      <3>2. cs[i].data = s[i] /\ cs[i].next = IF i = n THEN Nil ELSE i + 1
        BY <3>1 DEF IsChain
      <3>3. l = n
        BY <1>1, <3>1
      <3>4. QED
        BY <1>2, <1>5, <1>6, <2>2, <3>1, <3>2, <3>3
    <2>3. QED
      BY <2>1, <2>2
  <1>8. IsChain(IF l = Nil THEN Len(cs) + 1 ELSE h, Len(cs) + 1, Append(old, new), Append(s, v), u)
    <2>0. k \in Nat /\ n \in Nat /\ k <= n /\ Len(cs) = n
      BY <1>1
    <2>1. (IF l = Nil THEN Len(cs) + 1 ELSE h) = k + 1
      <3>1. l = Nil <=> k = n
        <4>1. l = (IF k = n THEN 0 ELSE n) /\ k \in Nat /\ n \in Nat /\ k <= n
          BY <1>1 DEF Nil
        <4> HIDE DEF k, n
        <4>2. QED
          BY <4>1 DEF Nil
      <3>2. h = IF k = n THEN Nil ELSE k + 1
        BY <1>1
      <3> HIDE DEF k, n
      <3> QED
        BY <2>0, <3>1, <3>2
    <2>2. k # n + 1 /\ k <= n + 1
      BY <1>1
    <2>3. Len(Append(old, new)) = n + 1 /\ Len(Append(s, v)) = n + 1 /\ k = Len(u)
      BY <1>5, <1>6
    <2>4. QED
      BY <1>7, <2>0, <2>1, <2>2, <2>3 DEF IsChain
  <1>9. Rest(Append(s, v), u) = Append(Rest(s, u), v)
    <2>1. Rest(s, u) \in Seq(Values) /\ Len(Rest(s, u)) = n - k
      BY <1>1, ChainList DEF Rest
    <2>2. /\ Append(Rest(s, u), v) \in Seq(Values) /\ Len(Append(Rest(s, u), v)) = n - k + 1
          /\ Append(Rest(s, u), v)[n - k + 1] = v
          /\ \A i \in 1 .. n - k : Append(Rest(s, u), v)[i] = Rest(s, u)[i]
      <3> DEFINE w == Rest(s, u)
                 m == n - k
      <3>1. w \in Seq(Values) /\ Len(w) = m
        BY <2>1
      <3> HIDE DEF w, m
      <3>2. /\ Append(w, v) \in Seq(Values) /\ Len(Append(w, v)) = m + 1
            /\ Append(w, v)[m + 1] = v
            /\ \A i \in 1 .. m : Append(w, v)[i] = w[i]
        BY <3>1
      <3>3. QED
        BY <3>2 DEF w, m
    <2>3. /\ Rest(Append(s, v), u) \in Seq(Values) /\ Len(Rest(Append(s, v), u)) = n - k + 1
          /\ \A i \in 1 .. n - k + 1 : Rest(Append(s, v), u)[i] = Append(s, v)[k + i]
      <3>1. \A i \in 1 .. n - k + 1 : Append(s, v)[k + i] \in Values
        BY <1>1, <1>6
      <3>2. n + 1 - k = n - k + 1 /\ n - k + 1 \in Nat
        BY <1>1
      <3>3. Rest(Append(s, v), u) = [i \in 1 .. n - k + 1 |-> Append(s, v)[k + i]]
        BY <1>6, <3>2 DEF Rest
      <3> DEFINE m == n - k + 1
                 f(i) == Append(s, v)[k + i]
      <3>4. \A i \in 1 .. m : f(i) \in Values
        BY <3>1
      <3>5. m \in Nat
        BY <3>2
      <3> HIDE DEF m, f
      <3>6. /\ [i \in 1 .. m |-> f(i)] \in Seq(Values) /\ Len([i \in 1 .. m |-> f(i)]) = m
            /\ \A i \in 1 .. m : [j \in 1 .. m |-> f(j)][i] = f(i)
        BY <3>4, <3>5
      <3> USE DEF m, f
      <3>7. QED
        BY <3>3, <3>6
    <2>4. \A i \in 1 .. n - k : Rest(s, u)[i] = s[k + i] /\ Append(s, v)[k + i] = s[k + i]
      BY <1>1, <1>6 DEF Rest
    <2>5. ASSUME NEW i \in 1 .. n - k + 1 PROVE Rest(Append(s, v), u)[i] = Append(Rest(s, u), v)[i]
      <3>1. CASE i = n - k + 1
        <4>1. k + i = n + 1
          BY <1>1, <3>1
        <4>2. QED
          BY <1>6, <2>2, <2>3, <3>1, <4>1
      <3>2. CASE i # n - k + 1
        <4>1. i \in 1 .. n - k
          BY <1>1, <3>2
        <4>2. QED
          BY <2>2, <2>3, <2>4, <4>1
      <3>3. QED
        BY <3>1, <3>2
    <2>6. QED
      BY <1>1, <2>2, <2>3, <2>5, SeqEqual
  <1>10. QED
    BY <1>3, <1>5, <1>8, <1>9

(* recv unlinks the first node, and resets the tail with the last one.        *)
LEMMA ChainGet ==
    ASSUME NEW s \in Seq(Values), NEW u \in Seq(Values), NEW cs \in Seq(Node), NEW h, NEW l,
           IsChain(h, l, cs, s, u), h # Nil
    PROVE  /\ h \in DOMAIN cs /\ cs[h].data \in Values /\ cs[h].next \in Nat
           /\ [cs EXCEPT ![h] = Freed] \in Seq(Node)
           /\ IsChain(cs[h].next, IF cs[h].next = Nil THEN Nil ELSE l,
                      [cs EXCEPT ![h] = Freed], s, Append(u, cs[h].data))
           /\ Rest(s, u) # << >>
           /\ cs[h].data = Head(Rest(s, u))
           /\ Rest(s, Append(u, cs[h].data)) = Tail(Rest(s, u))
  <1> DEFINE k == Len(u)
             n == Len(s)
             d == cs[h].data
             rest == [cs EXCEPT ![h] = Freed]
  <1>1. /\ k \in Nat /\ n \in Nat /\ k < n /\ Len(cs) = n /\ DOMAIN cs = 1 .. n
        /\ l = n /\ h = k + 1 /\ h \in k + 1 .. n /\ h \in 1 .. n
    BY DEF IsChain, Nil
  <1>2. d = s[h] /\ d \in Values /\ cs[h].next = IF h = n THEN Nil ELSE h + 1
    <2>1. d = s[h] /\ cs[h].next = IF h = n THEN Nil ELSE h + 1
      BY <1>1 DEF IsChain
    <2>2. s[h] \in Values
      BY <1>1
    <2>3. QED
      BY <2>1, <2>2
  <1>3. rest \in Seq(Node) /\ Len(rest) = n /\ \A i \in k + 2 .. n : rest[i] = cs[i]
    <2>1. Freed \in Node
      BY DEF Freed, Node, Nil
    <2>2. QED
      BY <1>1, <2>1
  <1>4. Append(u, d) \in Seq(Values) /\ Len(Append(u, d)) = k + 1
    <2>1. d \in Values
      BY <1>2
    <2> HIDE DEF d
    <2> QED
      BY <2>1
  <1>5. IsChain(cs[h].next, IF cs[h].next = Nil THEN Nil ELSE l, rest, s, Append(u, d))
    <2>1. \A i \in (k + 1) + 1 .. n : rest[i].data = s[i] /\ rest[i].next = IF i = n THEN Nil ELSE i + 1
      <3>1. ASSUME NEW i \in (k + 1) + 1 .. n
            PROVE  rest[i].data = s[i] /\ rest[i].next = IF i = n THEN Nil ELSE i + 1
        <4>1. i \in k + 1 .. n /\ i \in k + 2 .. n
          BY <1>1
        <4>2. QED
          BY <1>3, <4>1 DEF IsChain
      <3>2. QED
        BY <3>1
    <2>2. cs[h].next = IF k + 1 = n THEN Nil ELSE (k + 1) + 1
      BY <1>1, <1>2
    <2>3. (IF cs[h].next = Nil THEN Nil ELSE l) = IF k + 1 = n THEN Nil ELSE n
      <3>1. cs[h].next = Nil <=> k + 1 = n
        <4>1. (k + 1) + 1 # 0
          BY <1>1
        <4>2. QED
          BY <2>2, <4>1 DEF Nil
      <3>2. QED
        BY <1>1, <3>1
    <2>4. k + 1 <= n
      BY <1>1
    <2> HIDE DEF rest, d
    <2>5. QED
      BY <1>3, <1>4, <2>1, <2>2, <2>3, <2>4 DEF IsChain
  <1>6. Rest(s, u) \in Seq(Values) /\ Len(Rest(s, u)) = n - k /\ n - k > 0 /\ n - k \in Nat
    BY <1>1, ChainList DEF Rest
  <1>7. Rest(s, u) # << >> /\ d = Head(Rest(s, u))
    <2>1. Rest(s, u)[1] = s[h]
      BY <1>1 DEF Rest
    <2>2. QED
      BY <1>2, <1>6, <2>1
  <1>8. Rest(s, Append(u, d)) = Tail(Rest(s, u))
    <2>1. /\ Tail(Rest(s, u)) \in Seq(Values) /\ Len(Tail(Rest(s, u))) = n - k - 1
          /\ \A i \in 1 .. n - k - 1 : Tail(Rest(s, u))[i] = Rest(s, u)[i + 1]
      BY <1>6
    <2>2. \A i \in 1 .. n - k - 1 : Rest(s, u)[i + 1] = s[k + (i + 1)]
      BY <1>1 DEF Rest
    <2>3. Rest(s, Append(u, d)) = [i \in 1 .. n - k - 1 |-> s[(k + 1) + i]]
      <3>1. n - (k + 1) = n - k - 1
        BY <1>1
      <3>2. QED
        BY <1>4, <3>1 DEF Rest
    <2>4. \A i \in 1 .. n - k - 1 : s[(k + 1) + i] \in Values /\ (k + 1) + i = k + (i + 1)
      BY <1>1
    <2>5. Rest(s, Append(u, d)) \in Seq(Values) /\ Len(Rest(s, Append(u, d))) = n - k - 1
      BY <1>6, <2>3, <2>4
    <2>6. \A i \in 1 .. n - k - 1 : Rest(s, Append(u, d))[i] = Tail(Rest(s, u))[i]
      BY <2>1, <2>2, <2>3, <2>4
    <2>7. QED
      BY <2>1, <2>5, <2>6, SeqEqual
  <1>9. cs[h].next \in Nat
    <2>1. h + 1 \in Nat /\ Nil \in Nat
      BY <1>1 DEF Nil
    <2>2. QED
      BY <1>2, <2>1
  <1>10. QED
    BY <1>1, <1>2, <1>3, <1>5, <1>7, <1>8, <1>9

-----------------------------------------------------------------------------
(* The lists of the channels: every one of them is a chain, and so send and   *)
(* recv change what is listed as they would change a queue.                   *)

ListOK == \A c \in Chans : IsChain(head[c], tail[c], cells[c], sent[c], taken[c])

ListTypes == /\ head  \in [Chans -> Nat]
             /\ tail  \in [Chans -> Nat]
             /\ cells \in [Chans -> Seq(Node)]

LEMMA NodesAre ==
    ASSUME TypeOK, ListOK
    PROVE  /\ nodes \in [Chans -> Seq(Values)]
           /\ \A c \in Chans : /\ nodes[c] = Rest(sent[c], taken[c])
                               /\ head[c] = Nil <=> nodes[c] = << >>
  <1>1. ASSUME NEW c \in Chans
        PROVE  /\ ListFrom(head[c], cells[c]) = Rest(sent[c], taken[c])
               /\ Rest(sent[c], taken[c]) \in Seq(Values)
               /\ head[c] = Nil <=> Rest(sent[c], taken[c]) = << >>
    <2>1. IsChain(head[c], tail[c], cells[c], sent[c], taken[c])
      BY DEF ListOK
    <2>2. sent[c] \in Seq(Values) /\ taken[c] \in Seq(Values) /\ cells[c] \in Seq(Node)
      BY DEF TypeOK
    <2>3. QED
      BY <2>1, <2>2, ChainList
  <1>2. QED
    BY <1>1 DEF nodes

LEMMA NodesKept ==
    ASSUME UNCHANGED <<head, cells>> PROVE nodes' = nodes
  BY DEF nodes

Queued(c, v) == /\ nodes' = [nodes EXCEPT ![c] = Append(@, v)]
                /\ count' = [count EXCEPT ![c] = @ + 1]
                /\ sent'  = [sent EXCEPT ![c] = Append(@, v)]
                /\ UNCHANGED <<closed, taken>>

LEMMA EnqueueIs ==
    ASSUME TypeOK, ListOK, NEW c \in Chans, NEW v \in Values, Enqueue(c, v)
    PROVE  Queued(c, v) /\ ListOK' /\ ListTypes'
  <1> DEFINE new == Len(cells[c]) + 1
             h   == IF tail[c] = Nil THEN new ELSE head[c]
             cs  == Linked(tail[c], cells[c], v)
  <1>1. /\ IsChain(head[c], tail[c], cells[c], sent[c], taken[c])
        /\ sent[c] \in Seq(Values) /\ taken[c] \in Seq(Values) /\ cells[c] \in Seq(Node)
    BY DEF ListOK, TypeOK
  <1>2. /\ cs \in Seq(Node)
        /\ IsChain(h, new, cs, Append(sent[c], v), taken[c])
        /\ Rest(Append(sent[c], v), taken[c]) = Append(Rest(sent[c], taken[c]), v)
    BY <1>1, ChainPut
  <1>3. /\ head' = [head EXCEPT ![c] = h] /\ tail' = [tail EXCEPT ![c] = new]
        /\ cells' = [cells EXCEPT ![c] = cs] /\ sent' = [sent EXCEPT ![c] = Append(@, v)]
        /\ taken' = taken
    BY DEF Enqueue
  <1>4. new \in Nat /\ h \in Nat
    BY <1>1 DEF TypeOK
  <1> HIDE DEF new, h, cs
  <1>5. ListTypes'
    BY <1>2, <1>3, <1>4 DEF ListTypes, TypeOK
  <1>6. /\ head'[c] = h /\ tail'[c] = new /\ cells'[c] = cs /\ sent'[c] = Append(sent[c], v)
        /\ \A d \in Chans : d # c => /\ head'[d] = head[d] /\ tail'[d] = tail[d]
                                     /\ cells'[d] = cells[d] /\ sent'[d] = sent[d]
    BY <1>3 DEF TypeOK
  <1>7. ListOK'
    BY <1>2, <1>3, <1>6 DEF ListOK
  <1>8. nodes' = [nodes EXCEPT ![c] = Append(@, v)]
    <2>1. Append(sent[c], v) \in Seq(Values)
      BY <1>1
    <2>2. ListFrom(h, cs) = Append(nodes[c], v)
      <3>1. ListFrom(h, cs) = Rest(Append(sent[c], v), taken[c])
        BY <1>1, <1>2, <2>1, ChainList
      <3>2. nodes[c] = Rest(sent[c], taken[c])
        BY NodesAre
      <3>3. QED
        BY <1>2, <3>1, <3>2
    <2>3. \A d \in Chans : nodes'[d] = IF d = c THEN Append(nodes[c], v) ELSE nodes[d]
      BY <1>6, <2>2 DEF nodes
    <2>4. nodes' = [d \in Chans |-> nodes'[d]] /\ nodes = [d \in Chans |-> nodes[d]]
      BY DEF nodes
    <2>5. QED
      BY <2>3, <2>4
  <1>9. QED
    BY <1>5, <1>7, <1>8 DEF Enqueue, Queued

Unqueued(t, c) == /\ nodes[c] # << >>
                  /\ nodes' = [nodes EXCEPT ![c] = Tail(@)]
                  /\ count' = [count EXCEPT ![c] = @ - 1]
                  /\ taken' = [taken EXCEPT ![c] = Append(@, Head(nodes[c]))]
                  /\ out'   = [out EXCEPT ![t] = Head(nodes[c])]
                  /\ UNCHANGED <<closed, sent>>

LEMMA DequeueIs ==
    ASSUME TypeOK, ListOK, NEW t \in Threads, NEW c \in Chans, Dequeue(t, c)
    PROVE  Unqueued(t, c) /\ ListOK' /\ ListTypes'
  <1> DEFINE n  == First(c).next
             d  == First(c).data
             cs == [cells[c] EXCEPT ![head[c]] = Freed]
             l  == IF n = Nil THEN Nil ELSE tail[c]
  <1>1. /\ IsChain(head[c], tail[c], cells[c], sent[c], taken[c])
        /\ sent[c] \in Seq(Values) /\ taken[c] \in Seq(Values) /\ cells[c] \in Seq(Node)
        /\ tail[c] \in Nat /\ head[c] # Nil
    BY DEF ListOK, TypeOK, Dequeue
  <1>2. /\ d \in Values /\ n \in Nat /\ cs \in Seq(Node)
        /\ IsChain(n, l, cs, sent[c], Append(taken[c], d))
        /\ Rest(sent[c], taken[c]) # << >>
        /\ d = Head(Rest(sent[c], taken[c]))
        /\ Rest(sent[c], Append(taken[c], d)) = Tail(Rest(sent[c], taken[c]))
    <2> DEFINE old == cells[c]
               h   == head[c]
    <2>1. /\ h \in DOMAIN old /\ old[h].data \in Values /\ old[h].next \in Nat
          /\ [old EXCEPT ![h] = Freed] \in Seq(Node)
          /\ IsChain(old[h].next, IF old[h].next = Nil THEN Nil ELSE tail[c],
                     [old EXCEPT ![h] = Freed], sent[c], Append(taken[c], old[h].data))
          /\ Rest(sent[c], taken[c]) # << >>
          /\ old[h].data = Head(Rest(sent[c], taken[c]))
          /\ Rest(sent[c], Append(taken[c], old[h].data)) = Tail(Rest(sent[c], taken[c]))
      <3> HIDE DEF old, h
      <3>1. /\ IsChain(h, tail[c], old, sent[c], taken[c]) /\ h # Nil /\ old \in Seq(Node)
            /\ sent[c] \in Seq(Values) /\ taken[c] \in Seq(Values)
        BY <1>1 DEF old, h
      <3>2. QED
        BY <3>1, ChainGet
    <2>2. QED
      BY <2>1 DEF First
  <1>3. /\ head' = [head EXCEPT ![c] = n] /\ tail' = [tail EXCEPT ![c] = l]
        /\ cells' = [cells EXCEPT ![c] = cs] /\ taken' = [taken EXCEPT ![c] = Append(@, d)]
        /\ out' = [out EXCEPT ![t] = d] /\ sent' = sent
    BY DEF Dequeue
  <1>4. l \in Nat
    BY <1>1 DEF Nil
  <1> HIDE DEF n, d, cs, l
  <1>5. ListTypes'
    BY <1>2, <1>3, <1>4 DEF ListTypes, TypeOK
  <1>6. /\ head'[c] = n /\ tail'[c] = l /\ cells'[c] = cs /\ taken'[c] = Append(taken[c], d)
        /\ \A e \in Chans : e # c => /\ head'[e] = head[e] /\ tail'[e] = tail[e]
                                     /\ cells'[e] = cells[e] /\ taken'[e] = taken[e]
    BY <1>3 DEF TypeOK
  <1>7. ListOK'
    BY <1>2, <1>3, <1>6 DEF ListOK
  <1>8. nodes[c] = Rest(sent[c], taken[c])
    BY NodesAre
  <1>9. nodes' = [nodes EXCEPT ![c] = Tail(@)]
    <2>1. Append(taken[c], d) \in Seq(Values)
      BY <1>1, <1>2
    <2>2. ListFrom(n, cs) = Tail(nodes[c])
      <3>1. ListFrom(n, cs) = Rest(sent[c], Append(taken[c], d))
        BY <1>1, <1>2, <2>1, ChainList
      <3>2. QED
        BY <1>2, <1>8, <3>1
    <2>3. \A e \in Chans : nodes'[e] = IF e = c THEN Tail(nodes[c]) ELSE nodes[e]
      BY <1>6, <2>2 DEF nodes
    <2>4. nodes' = [e \in Chans |-> nodes'[e]] /\ nodes = [e \in Chans |-> nodes[e]]
      BY DEF nodes
    <2>5. QED
      BY <2>3, <2>4
  <1>10. QED
    BY <1>2, <1>3, <1>5, <1>7, <1>8, <1>9 DEF Dequeue, Unqueued

-----------------------------------------------------------------------------
(* The case a polling thread looks at is a case.                             *)
LEMMA TheCaseType ==
    ASSUME TypeOK, NEW t \in Threads, pc[t] \in {"poll", "chosen"}
    PROVE  /\ TheCase(t) \in Case
           /\ TheCase(t).ch \in Chans
           /\ TheCase(t).send => TheCase(t).val \in Values
  <1>1. idx[t] \in DOMAIN sel[t]
    BY DEF TypeOK
  <1>2. sel[t] \in Selects
    <2>1. sel[t] \in Selects \cup {<< >>}
      BY DEF TypeOK
    <2>2. sel[t] # << >>
      BY <1>1
    <2>3. QED
      BY <2>1, <2>2
  <1>3. sel[t] \in Seq(Case)
    BY <1>2
  <1>4. TheCase(t) \in Case
    BY <1>1, <1>3, ElementOfSeq DEF TheCase
  <1>5. TheCase(t).send => TheCase(t).val \in Values
    BY <1>1, <1>2 DEF TheCase
  <1>6. QED
    BY <1>4, <1>5 DEF Case

(* Waking changes no label to one inside select, and keeps labels labels.    *)
LEMMA WakeType ==
    ASSUME NEW labels \in [Threads -> Labels], NEW W \in SUBSET Threads
    PROVE  /\ Wake(labels, W) \in [Threads -> Labels]
           /\ \A u \in Threads : Wake(labels, W)[u] =
                                  IF u \in W THEN "woken" ELSE labels[u]
  BY DEF Wake, Labels

LEMMA SignalledType ==
    ASSUME NEW c, NEW W \in Signalled(c)
    PROVE  W \in SUBSET Parked(c) /\ W \in SUBSET Threads
  BY DEF Signalled, Parked

-----------------------------------------------------------------------------
(* Type correctness: first the variables of the channels, for the bodies of  *)
(* send and recv, which several actions share.                               *)

ChanTypes == /\ ListTypes
             /\ count  \in [Chans -> Int]
             /\ closed \in [Chans -> BOOLEAN]
             /\ sent   \in [Chans -> Seq(Values)]
             /\ taken  \in [Chans -> Seq(Values)]

(* The variables of select when t leaves it.                                 *)
LEMMA LeaveSelectTypes ==
    ASSUME TypeOK, NEW t \in Threads, NEW i \in Int, LeaveSelect(t, i)
    PROVE  /\ sel'   \in [Threads -> Selects \cup {<< >>}]
           /\ idx'   \in [Threads -> Nat]
           /\ loops' \in [Threads -> 0 .. MaxPolls - 1]
           /\ which' \in [Threads -> Int]
           /\ \A u \in Threads : u # t => sel'[u] = sel[u] /\ idx'[u] = idx[u]
  <1>1. /\ sel'   \in [Threads -> Selects \cup {<< >>}]
        /\ \A u \in Threads : u # t => sel'[u] = sel[u]
    BY DEF LeaveSelect, TypeOK
  <1>2. /\ idx'   \in [Threads -> Nat]
        /\ \A u \in Threads : u # t => idx'[u] = idx[u]
    BY DEF LeaveSelect, TypeOK
  <1>3. loops' \in [Threads -> 0 .. MaxPolls - 1]
    BY DEF LeaveSelect, TypeOK
  <1>4. which' \in [Threads -> Int]
    <2>1. (IF sel[t] = << >> THEN which[t] ELSE i) \in Int
      BY DEF TypeOK
    <2>2. QED
      BY <2>1 DEF LeaveSelect, TypeOK
  <1>5. QED
    BY <1>1, <1>2, <1>3, <1>4

LEMMA ReturnTypes ==
    ASSUME TypeOK, NEW t \in Threads, NEW i \in Int, LeaveSelect(t, i),
           ChanTypes',
           on'  \in [Threads -> Chans \cup {Null}],
           out' \in [Threads -> Values \cup {Null}],
           pc'  \in [Threads -> Labels],
           \A u \in Threads : pc'[u] \in {"poll", "chosen"} => u # t /\ pc'[u] = pc[u]
    PROVE  TypeOK'
  <1>1. \A u \in Threads : pc'[u] \in {"poll", "chosen"} => idx'[u] \in DOMAIN sel'[u]
    BY LeaveSelectTypes DEF TypeOK
  <1>2. QED
    BY <1>1, LeaveSelectTypes DEF ChanTypes, ListTypes, TypeOK

LEMMA SendBodyTypes ==
    ASSUME TypeOK, ListOK, NEW t \in Threads, NEW c \in Chans, NEW v \in Values,
           SendBody(t, c, v)
    PROVE  /\ ChanTypes'
           /\ on' = on /\ out' = out
           /\ pc' \in [Threads -> Labels]
           /\ \A u \in Threads : pc'[u] \in {"poll", "chosen"} => u # t /\ pc'[u] = pc[u]
           /\ \A u \in Threads : pc'[u] \in {"parked", "woken"} => pc[u] \in {"parked", "woken"}
           /\ pc'[t] = "idle" \/ pc[t] = "parked"
  <1> DEFINE back == [pc EXCEPT ![t] = "idle"]
  <1>0. pc \in [Threads -> Labels] /\ back \in [Threads -> Labels]
    BY DEF TypeOK, Labels
  <1>1. CASE SendOpen(t, c, v)
    <2>1. PICK W \in Signalled(c) : pc' = Wake(back, W)
      BY <1>1 DEF SendOpen
    <2>2. W \in SUBSET Parked(c) /\ W \in SUBSET Threads
      BY SignalledType
    <2>3. /\ pc' \in [Threads -> Labels]
          /\ \A u \in Threads : pc'[u] = IF u \in W THEN "woken" ELSE back[u]
      BY <1>0, <2>1, <2>2, WakeType
    <2>4. ChanTypes'
      <3>1. Queued(c, v) /\ ListTypes'
        BY <1>1, EnqueueIs DEF SendOpen
      <3>2. sent' \in [Chans -> Seq(Values)] /\ count' \in [Chans -> Int]
        BY <3>1 DEF Queued, TypeOK
      <3>3. QED
        BY <3>1, <3>2 DEF Queued, ChanTypes, TypeOK
    <2>5. on' = on /\ out' = out
      BY <1>1 DEF SendOpen
    <2>6. \A u \in W : pc[u] = "parked"
      BY <2>2 DEF Parked
    <2>7. QED
      BY <1>0, <2>2, <2>3, <2>4, <2>5, <2>6
  <1>2. CASE SendClosed(t, c)
    BY <1>0, <1>2 DEF SendClosed, ChanTypes, ListTypes, TypeOK
  <1>3. QED
    BY <1>1, <1>2 DEF SendBody

LEMMA RecvBodyTypes ==
    ASSUME TypeOK, ListOK, NEW t \in Threads, NEW c \in Chans, RecvBody(t, c)
    PROVE  TypeOK'
  <1> USE DEF Labels
  <1>1. CASE RecvWait(t, c)
    BY <1>1 DEF RecvWait, TypeOK
  <1>2. CASE RecvReturn(t, c)
    <2>1. ChanTypes' /\ out' \in [Threads -> Values \cup {Null}]
      <3>1. CASE Dequeue(t, c)
        <4>1. Unqueued(t, c) /\ ListTypes'
          BY <3>1, DequeueIs
        <4>2. Head(nodes[c]) \in Values
          BY <4>1, NodesAre DEF Unqueued
        <4>3. QED
          BY <4>1, <4>2 DEF Unqueued, ChanTypes, TypeOK
      <3>2. CASE RecvNull(t, c)
        BY <3>2 DEF RecvNull, ChanTypes, ListTypes, TypeOK
      <3>3. QED
        BY <1>2, <3>1, <3>2 DEF RecvReturn
    <2>2. LeaveSelect(t, idx[t])
      BY <1>2 DEF RecvReturn
    <2>3. /\ pc' = [pc EXCEPT ![t] = "idle"]
          /\ on' = [on EXCEPT ![t] = Null]
      BY <1>2 DEF RecvReturn
    <2>4. idx[t] \in Int
      BY DEF TypeOK
    <2>5. /\ pc' \in [Threads -> Labels]
          /\ on' \in [Threads -> Chans \cup {Null}]
          /\ \A u \in Threads : pc'[u] \in {"poll", "chosen"} => u # t /\ pc'[u] = pc[u]
      BY <2>3 DEF TypeOK
    <2>6. QED
      BY <2>1, <2>2, <2>4, <2>5, ReturnTypes
  <1>3. QED
    BY <1>1, <1>2 DEF RecvBody

(* Steps of select that touch only the variables of select.                  *)
LEMMA PollTypes ==
    ASSUME TypeOK, NEW t \in Threads, Poll(t)
    PROVE  TypeOK'
  <1> USE DEF Labels
  <1>0. /\ UNCHANGED <<chanVars, on, out>>
        /\ pc[t] = "poll" /\ idx[t] \in DOMAIN sel[t]
        /\ sel[t] \in Seq(Case)
    <2>1. pc[t] = "poll" /\ UNCHANGED <<chanVars, on, out>>
      BY DEF Poll, PollReady, PollNextCase, PollNextRound, GiveUp
    <2>2. idx[t] \in DOMAIN sel[t]
      BY <2>1 DEF TypeOK
    <2>3. QED
      BY <2>1, <2>2 DEF TypeOK
  <1>1. CASE PollReady(t)
    BY <1>1 DEF PollReady, TypeOK
  <1>2. CASE PollNextCase(t)
    <2>1. idx'[t] \in DOMAIN sel[t]
      BY <1>0, <1>2 DEF PollNextCase, TypeOK
    <2>2. QED
      BY <1>2, <2>1 DEF PollNextCase, TypeOK
  <1>3. CASE PollNextRound(t)
    <2>1. idx'[t] \in DOMAIN sel[t]
      BY <1>0, <1>3 DEF PollNextRound, TypeOK
    <2>2. loops' \in [Threads -> 0 .. MaxPolls - 1]
      BY <1>3 DEF PollNextRound, TypeOK
    <2>3. QED
      BY <1>3, <2>1, <2>2 DEF PollNextRound, TypeOK
  <1>4. CASE GiveUp(t)
    <2>1. LeaveSelect(t, -1)
      BY <1>4 DEF GiveUp
    <2>2. /\ pc' \in [Threads -> Labels]
          /\ \A u \in Threads : pc'[u] \in {"poll", "chosen"} => u # t /\ pc'[u] = pc[u]
      BY <1>4 DEF GiveUp, TypeOK
    <2>3. /\ ChanTypes'
          /\ on'  \in [Threads -> Chans \cup {Null}]
          /\ out' \in [Threads -> Values \cup {Null}]
      BY <1>0 DEF ChanTypes, ListTypes, TypeOK
    <2>4. QED
      BY <2>1, <2>2, <2>3, ReturnTypes
  <1>5. QED
    BY <1>1, <1>2, <1>3, <1>4 DEF Poll

LEMMA TypeStep ==
    ASSUME TypeOK, PlaceOK, ListOK, [Next]_vars
    PROVE  TypeOK'
  <1> USE DEF Labels
  <1>1. CASE UNCHANGED vars
    BY <1>1 DEF TypeOK
  <1>2. ASSUME NEW t \in Threads, NEW c \in Chans, NEW v \in Values, Send(t, c, v)
        PROVE  TypeOK'
    <2>1. SendBody(t, c, v) /\ UNCHANGED selVars
      BY <1>2 DEF Send
    <2>2. QED
      BY <2>1, SendBodyTypes DEF ChanTypes, ListTypes, TypeOK
  <1>3. ASSUME NEW t \in Threads, NEW c \in Chans, Recv(t, c)
        PROVE  TypeOK'
    BY <1>3, RecvBodyTypes DEF Recv
  <1>4. ASSUME NEW t \in Threads, NEW c \in Chans, Close(t, c)
        PROVE  TypeOK'
    <2>1. pc \in [Threads -> Labels] /\ Parked(c) \in SUBSET Threads
      BY DEF TypeOK, Parked
    <2>0. /\ pc' \in [Threads -> Labels]
          /\ \A u \in Threads : pc'[u] = IF u \in Parked(c) THEN "woken" ELSE pc[u]
      BY <1>4, <2>1, WakeType DEF Close
    <2>2. closed' \in [Chans -> BOOLEAN]
      BY <1>4 DEF Close, TypeOK
    <2>3. QED
      BY <1>4, <2>0, <2>2 DEF Close, TypeOK
  <1>5. ASSUME NEW t \in Threads, NEW cs \in Selects, SelectStart(t, cs)
        PROVE  TypeOK'
    <2>1. 1 \in DOMAIN cs
      BY <1>5
    <2>2. /\ sel' \in [Threads -> Selects \cup {<< >>}]
          /\ idx' \in [Threads -> Nat]
          /\ loops' \in [Threads -> 0 .. MaxPolls - 1]
          /\ pc' \in [Threads -> Labels]
      BY <1>5 DEF SelectStart, TypeOK
    <2>3. \A u \in Threads : pc'[u] \in {"poll", "chosen"} => idx'[u] \in DOMAIN sel'[u]
      BY <1>5, <2>1 DEF SelectStart, TypeOK
    <2>4. QED
      BY <1>5, <2>2, <2>3 DEF SelectStart, TypeOK
  <1>6. ASSUME NEW t \in Threads, Resume(t)
        PROVE  TypeOK'
    BY <1>6, RecvBodyTypes DEF Resume, PlaceOK
  <1>7. ASSUME NEW t \in Threads, ChosenSend(t)
        PROVE  TypeOK'
    <2>1. /\ TheCase(t).ch \in Chans /\ TheCase(t).val \in Values
          /\ SendBody(t, TheCase(t).ch, TheCase(t).val)
          /\ LeaveSelect(t, idx[t])
      BY <1>7, TheCaseType DEF ChosenSend
    <2>2. /\ idx[t] \in Int
          /\ on  \in [Threads -> Chans \cup {Null}]
          /\ out \in [Threads -> Values \cup {Null}]
      BY DEF TypeOK
    <2>3. QED
      BY <2>1, <2>2, SendBodyTypes, ReturnTypes
  <1>8. ASSUME NEW t \in Threads, ChosenRecv(t)
        PROVE  TypeOK'
    BY <1>8, TheCaseType, RecvBodyTypes DEF ChosenRecv
  <1>9. ASSUME NEW t \in Threads, Spurious(t)
        PROVE  TypeOK'
    BY <1>9 DEF Spurious, TypeOK
  <1>10. QED
    BY <1>1, <1>2, <1>3, <1>4, <1>5, <1>6, <1>7, <1>8, <1>9, PollTypes
       DEF Next, Call, Progress

-----------------------------------------------------------------------------
(* What a step does to the channels and to recv_cv: a send, a receive that   *)
(* returns, one that waits, a close, or nothing that matters here.           *)

Receiving(t, c) == pc[t] \in {"idle", "chosen"} \/ (pc[t] = "woken" /\ on[t] = c)

Quiet == /\ UNCHANGED <<chanVars, out>>
         /\ \A t \in Threads : pc'[t] = "parked" => pc[t] = "parked"
         /\ \A t \in Threads : pc[t] = "woken" => pc'[t] = "woken"
         /\ \A t \in Threads : pc'[t] \in {"parked", "woken"} => pc[t] \in {"parked", "woken"}
         /\ on' = on

LEMMA StepCases ==
    ASSUME TypeOK, PlaceOK, [Next]_vars
    PROVE  \/ \E t \in Threads, c \in Chans, v \in Values :
                 pc[t] \in {"idle", "chosen"} /\ SendOpen(t, c, v)
           \/ \E t \in Threads, c \in Chans : Receiving(t, c) /\ RecvReturn(t, c)
           \/ \E t \in Threads, c \in Chans : Receiving(t, c) /\ RecvWait(t, c)
           \/ \E t \in Threads, c \in Chans : Close(t, c)
           \/ Quiet
  <1>1. CASE UNCHANGED vars
    BY <1>1 DEF Quiet
  <1>2. ASSUME NEW t \in Threads, NEW c \in Chans, SendClosed(t, c), pc[t] \in {"idle", "chosen"}
        PROVE  Quiet
    BY <1>2 DEF SendClosed, Quiet, TypeOK
  <1>3. ASSUME NEW t \in Threads, NEW c \in Chans, NEW v \in Values, Send(t, c, v)
        PROVE  pc[t] \in {"idle", "chosen"} /\ (SendOpen(t, c, v) \/ Quiet)
    BY <1>2, <1>3 DEF Send, SendBody
  <1>4. ASSUME NEW t \in Threads, NEW c \in Chans, Recv(t, c)
        PROVE  Receiving(t, c) /\ (RecvReturn(t, c) \/ RecvWait(t, c))
    BY <1>4 DEF Recv, RecvBody, Receiving
  <1>5. ASSUME NEW t \in Threads, NEW cs \in Selects, SelectStart(t, cs)
        PROVE  Quiet
    BY <1>5 DEF SelectStart, Quiet, TypeOK
  <1>6. ASSUME NEW t \in Threads, Resume(t)
        PROVE  \E c \in Chans : Receiving(t, c) /\ (RecvReturn(t, c) \/ RecvWait(t, c))
    BY <1>6 DEF Resume, RecvBody, Receiving, PlaceOK
  <1>7. ASSUME NEW t \in Threads, Poll(t)
        PROVE  Quiet
    BY <1>7 DEF Poll, PollReady, PollNextCase, PollNextRound, GiveUp, Quiet, TypeOK
  <1>8. ASSUME NEW t \in Threads, ChosenSend(t)
        PROVE  \/ Quiet
               \/ \E c \in Chans, v \in Values :
                     pc[t] \in {"idle", "chosen"} /\ SendOpen(t, c, v)
    BY <1>2, <1>8, TheCaseType DEF ChosenSend, SendBody
  <1>9. ASSUME NEW t \in Threads, ChosenRecv(t)
        PROVE  \E c \in Chans : Receiving(t, c) /\ (RecvReturn(t, c) \/ RecvWait(t, c))
    BY <1>9, TheCaseType DEF ChosenRecv, RecvBody, Receiving
  <1>10. ASSUME NEW t \in Threads, Spurious(t)
         PROVE  Quiet
    BY <1>10 DEF Spurious, Quiet, TypeOK
  <1>11. QED
    BY <1>1, <1>3, <1>4, <1>5, <1>6, <1>7, <1>8, <1>9, <1>10 DEF Next, Call, Progress

(* How a send and a receive move threads between the wait sets.              *)
LEMMA SendWaiters ==
    ASSUME TypeOK, NEW t \in Threads, NEW c \in Chans, NEW v \in Values,
           pc[t] \in {"idle", "chosen"}, SendOpen(t, c, v)
    PROVE  /\ on' = on
           /\ \A d \in Chans : d # c => Parked(d)' = Parked(d) /\ Woken(d)' = Woken(d)
           /\ \/ Parked(c)' = {}
              \/ \E u \in Threads \ Woken(c) : Woken(c)' = Woken(c) \cup {u}
           /\ \A u \in Threads : pc'[u] \in {"parked", "woken"} => pc[u] \in {"parked", "woken"}
  <1> DEFINE back == [pc EXCEPT ![t] = "idle"]
  <1>1. PICK W \in Signalled(c) : pc' = Wake(back, W)
    BY DEF SendOpen
  <1>2. on' = on
    BY DEF SendOpen
  <1>3. back \in [Threads -> Labels] /\ pc \in [Threads -> Labels]
    BY DEF TypeOK, Labels
  <1>0. W \in SUBSET Threads
    BY <1>1, SignalledType
  <1>4. \A u \in Threads : pc'[u] = IF u \in W THEN "woken" ELSE back[u]
    BY <1>0, <1>1 DEF Wake
  <1>5. CASE Parked(c) = {}
    <2>1. W = {}
      BY <1>5, <1>1 DEF Signalled
    <2>2. \A d \in Chans : Parked(d)' = Parked(d) /\ Woken(d)' = Woken(d)
      BY <1>2, <1>3, <1>4, <2>1 DEF Parked, Woken
    <2>3. QED
      BY <1>2, <1>3, <1>4, <1>5, <2>1, <2>2
  <1>6. CASE Parked(c) # {}
    <2>1. PICK u \in Parked(c) : W = {u}
      BY <1>6, <1>1 DEF Signalled
    <2>2. u \in Threads /\ pc[u] = "parked" /\ on[u] = c /\ u \notin Woken(c)
      BY DEF Parked, Woken
    <2>3. \A d \in Chans : d # c => Parked(d)' = Parked(d) /\ Woken(d)' = Woken(d)
      BY <1>2, <1>3, <1>4, <2>1, <2>2 DEF Parked, Woken
    <2>4. Woken(c)' = Woken(c) \cup {u}
      BY <1>2, <1>3, <1>4, <2>1, <2>2 DEF Woken
    <2>5. QED
      BY <1>2, <1>3, <1>4, <2>1, <2>2, <2>3, <2>4
  <1>7. QED
    BY <1>5, <1>6

LEMMA RecvWaiters ==
    ASSUME TypeOK, NEW t \in Threads, NEW c \in Chans, Receiving(t, c), RecvReturn(t, c)
    PROVE  /\ \A d \in Chans : d # c => Parked(d)' = Parked(d) /\ Woken(d)' = Woken(d)
           /\ Parked(c)' = Parked(c)
           /\ Woken(c)' = Woken(c) \ {t}
  <1>1. /\ pc' = [pc EXCEPT ![t] = "idle"]
        /\ on' = [on EXCEPT ![t] = Null]
    BY DEF RecvReturn
  <1>2. QED
    BY <1>1 DEF Receiving, Parked, Woken, TypeOK

-----------------------------------------------------------------------------
(* The parts of the invariant, one lemma each: PlaceOK, the two facts about  *)
(* the list, and the wait sets.                                              *)

LEMMA PlaceStep ==
    ASSUME TypeOK, PlaceOK, [Next]_vars
    PROVE  PlaceOK'
  <1> USE DEF PlaceOK
  <1>1. ASSUME NEW t \in Threads, NEW c \in Chans, NEW v \in Values,
               pc[t] \in {"idle", "chosen"}, SendOpen(t, c, v)
        PROVE  PlaceOK'
    BY <1>1, SendWaiters
  <1>2. ASSUME NEW t \in Threads, NEW c \in Chans, RecvReturn(t, c)
        PROVE  PlaceOK'
    BY <1>2 DEF RecvReturn, TypeOK
  <1>3. ASSUME NEW t \in Threads, NEW c \in Chans, RecvWait(t, c)
        PROVE  PlaceOK'
    BY <1>3 DEF RecvWait, TypeOK
  <1>4. ASSUME NEW t \in Threads, NEW c \in Chans, Close(t, c)
        PROVE  PlaceOK'
    <2>1. pc \in [Threads -> Labels] /\ Parked(c) \in SUBSET Threads
      BY DEF TypeOK, Parked
    <2>2. \A u \in Threads : pc'[u] = IF u \in Parked(c) THEN "woken" ELSE pc[u]
      BY <1>4, <2>1, WakeType DEF Close
    <2>3. QED
      BY <1>4, <2>2 DEF Close, Parked
  <1>5. CASE Quiet
    BY <1>5 DEF Quiet
  <1>6. QED
    BY <1>1, <1>2, <1>3, <1>4, <1>5, StepCases

LEMMA AppendConcat ==
    ASSUME NEW s \in Seq(Values), NEW r \in Seq(Values), NEW v \in Values
    PROVE  s \o Append(r, v) = Append(s \o r, v)
  <1>1. s \o (r \o <<v>>) = (s \o r) \o <<v>>
    BY ConcatAssociative
  <1>2. QED
    BY <1>1, AppendIsConcat, ConcatProperties

LEMMA HeadMoves ==
    ASSUME NEW s \in Seq(Values), NEW r \in Seq(Values), r # << >>
    PROVE  Append(s, Head(r)) \o Tail(r) = s \o r
  <1>1. Head(r) \in Values /\ Tail(r) \in Seq(Values)
    BY HeadTailProperties
  <1>2. Append(s, Head(r)) \o Tail(r) = (s \o <<Head(r)>>) \o Tail(r)
    BY <1>1, AppendIsConcat
  <1>3. @ = s \o (<<Head(r)>> \o Tail(r))
    BY <1>1, ConcatAssociative
  <1>4. <<Head(r)>> \o Tail(r) = r
    BY <1>1
  <1>5. QED
    BY <1>2, <1>3, <1>4

LEMMA ChainStep ==
    ASSUME TypeOK, PlaceOK, ListOK, [Next]_vars PROVE ListOK'
  <1>1. ASSUME UNCHANGED <<head, tail, cells, sent, taken>> PROVE ListOK'
    BY <1>1 DEF ListOK
  <1>2. ASSUME NEW t \in Threads, NEW c \in Chans, NEW v \in Values, SendOpen(t, c, v)
        PROVE  ListOK'
    BY <1>2, EnqueueIs DEF SendOpen
  <1>3. ASSUME NEW t \in Threads, NEW c \in Chans, RecvReturn(t, c)
        PROVE  ListOK'
    <2>1. CASE Dequeue(t, c)
      BY <2>1, DequeueIs
    <2>2. CASE RecvNull(t, c)
      BY <1>1, <2>2 DEF RecvNull
    <2>3. QED
      BY <1>3, <2>1, <2>2 DEF RecvReturn
  <1>4. QED
    BY <1>1, <1>2, <1>3, StepCases DEF RecvWait, Close, Quiet

LEMMA ListStep ==
    ASSUME TypeOK, PlaceOK, ListOK, CountMatches, Fifo, [Next]_vars
    PROVE  CountMatches' /\ Fifo'
  <1>1. ASSUME NEW t \in Threads, NEW c \in Chans, NEW v \in Values, SendOpen(t, c, v)
        PROVE  CountMatches' /\ Fifo'
    <2>0. nodes \in [Chans -> Seq(Values)]
      BY NodesAre
    <2>1. Queued(c, v)
      BY <1>1, EnqueueIs DEF SendOpen
    <2>2. CountMatches'
      <3>1. Len(Append(nodes[c], v)) = Len(nodes[c]) + 1
        BY <2>0
      <3>2. QED
        BY <2>0, <2>1, <3>1 DEF Queued, CountMatches, TypeOK
    <2>3. Append(sent[c], v) = taken[c] \o Append(nodes[c], v)
      <3>1. nodes[c] \in Seq(Values) /\ taken[c] \in Seq(Values)
        BY <2>0 DEF TypeOK
      <3>2. sent[c] = taken[c] \o nodes[c]
        BY DEF Fifo
      <3>3. taken[c] \o Append(nodes[c], v) = Append(taken[c] \o nodes[c], v)
        BY <3>1, AppendConcat
      <3>4. QED
        BY <3>2, <3>3
    <2>4. Fifo'
      BY <2>0, <2>1, <2>3 DEF Queued, Fifo, TypeOK
    <2>5. QED
      BY <2>2, <2>4
  <1>2. ASSUME NEW t \in Threads, NEW c \in Chans, Dequeue(t, c)
        PROVE  CountMatches' /\ Fifo'
    <2>0. Unqueued(t, c) /\ nodes \in [Chans -> Seq(Values)]
      BY <1>2, DequeueIs, NodesAre
    <2>1. nodes[c] \in Seq(Values) /\ nodes[c] # << >> /\ taken[c] \in Seq(Values)
      BY <2>0 DEF Unqueued, TypeOK
    <2>2. Len(Tail(nodes[c])) = Len(nodes[c]) - 1
      BY <2>1, HeadTailProperties
    <2>3. CountMatches'
      BY <2>0, <2>2 DEF Unqueued, CountMatches, TypeOK
    <2>4. Append(taken[c], Head(nodes[c])) \o Tail(nodes[c]) = sent[c]
      BY <2>1, HeadMoves DEF Fifo
    <2>5. Fifo'
      BY <2>0, <2>4 DEF Unqueued, Fifo, TypeOK
    <2>6. QED
      BY <2>3, <2>5
  <1>3. ASSUME UNCHANGED <<head, cells, count, sent, taken>>
        PROVE  CountMatches' /\ Fifo'
    BY <1>3, NodesKept DEF CountMatches, Fifo
  <1>4. ASSUME NEW t \in Threads, NEW c \in Chans, RecvReturn(t, c)
        PROVE  CountMatches' /\ Fifo'
    BY <1>2, <1>3, <1>4 DEF RecvReturn, RecvNull
  <1>5. QED
    BY <1>1, <1>3, <1>4, StepCases DEF RecvWait, Close, Quiet

(* The wait sets are finite, so their cardinalities are numbers.             *)
LEMMA WaitersFinite ==
    ASSUME NEW c
    PROVE  IsFiniteSet(Woken(c)) /\ Cardinality(Woken(c)) \in Nat
  BY FS_Subset, FS_CardinalityType DEF Woken

(* Nothing can go wrong on a channel that keeps its list and its wait sets.  *)
LEMMA WakeupFrame ==
    ASSUME TypeOK, ListOK, NEW d \in Chans, WakeupComing(d),
           nodes'[d] = nodes[d], closed'[d] = closed[d],
           Parked(d)' \subseteq Parked(d), Woken(d) \subseteq Woken(d)'
    PROVE  WakeupComing(d)'
  <1>1. Len(nodes[d]) \in Nat
    BY NodesAre
  <1>2. IsFiniteSet(Woken(d)') /\ Cardinality(Woken(d)') \in Nat
    <2>1. Woken(d)' \in SUBSET Threads
      BY DEF Woken
    <2>2. QED
      BY <2>1, FS_Subset, FS_CardinalityType
  <1>3. Cardinality(Woken(d)) \in Nat /\ Cardinality(Woken(d)) <= Cardinality(Woken(d)')
    BY <1>2, WaitersFinite, FS_Subset
  <1>4. Cardinality(Woken(d))' = Cardinality(Woken(d)')
    OBVIOUS
  <1>5. QED
    BY <1>1, <1>2, <1>3, <1>4 DEF WakeupComing

LEMMA WakeupStep ==
    ASSUME TypeOK, PlaceOK, ListOK, NoLostWakeup, [Next]_vars
    PROVE  NoLostWakeup'
  <1>1. ASSUME NEW t \in Threads, NEW c \in Chans, NEW v \in Values,
               pc[t] \in {"idle", "chosen"}, SendOpen(t, c, v), NEW d \in Chans
        PROVE  WakeupComing(d)'
    <2>1. /\ Queued(c, v) /\ nodes \in [Chans -> Seq(Values)] /\ closed' = closed
      BY <1>1, EnqueueIs, NodesAre DEF SendOpen, Queued
    <2>2. CASE d # c
      <3>1. nodes'[d] = nodes[d]
        BY <2>1, <2>2 DEF Queued
      <3>2. Parked(d)' = Parked(d) /\ Woken(d)' = Woken(d)
        BY <1>1, <2>2, SendWaiters
      <3>3. QED
        BY <2>1, <3>1, <3>2, WakeupFrame DEF NoLostWakeup
    <2>3. CASE d = c /\ Parked(c)' = {}
      BY <2>3 DEF WakeupComing
    <2>4. ASSUME d = c, NEW u \in Threads \ Woken(c), Woken(c)' = Woken(c) \cup {u},
                 Parked(c)' # {}
          PROVE  WakeupComing(d)'
      <3>1. Parked(c) # {}
        BY <1>1, <2>4, SendWaiters DEF Parked, Signalled, SendOpen, Wake
      <3>2. Len(nodes[c]) <= Cardinality(Woken(c)) /\ ~closed[c]
        BY <3>1 DEF NoLostWakeup, WakeupComing
      <3>3. Len(nodes'[c]) = Len(nodes[c]) + 1 /\ Len(nodes[c]) \in Nat
        BY <2>1 DEF Queued
      <3>4. Cardinality(Woken(c) \cup {u}) = Cardinality(Woken(c)) + 1
        BY <2>4, WaitersFinite, FS_AddElement
      <3>5. QED
        BY <2>1, <2>4, <3>2, <3>3, <3>4, WaitersFinite DEF WakeupComing
    <2>5. QED
      BY <1>1, <2>2, <2>3, <2>4, SendWaiters
  <1>2. ASSUME NEW t \in Threads, NEW c \in Chans, Receiving(t, c), RecvReturn(t, c),
               NEW d \in Chans
        PROVE  WakeupComing(d)'
    <2>0. nodes \in [Chans -> Seq(Values)]
      BY NodesAre
    <2>1. closed' = closed /\ \A e \in Chans : e # c => nodes'[e] = nodes[e]
      <3>1. CASE Dequeue(t, c)
        BY <2>0, <3>1, DequeueIs DEF Unqueued
      <3>2. CASE RecvNull(t, c)
        BY <3>2, NodesKept DEF RecvNull
      <3>3. QED
        BY <1>2, <3>1, <3>2 DEF RecvReturn
    <2>2. CASE d # c
      BY <1>2, <2>1, <2>2, RecvWaiters, WakeupFrame DEF NoLostWakeup
    <2>3. CASE d = c /\ Dequeue(t, c)
      <3>1. /\ nodes[c] \in Seq(Values) /\ nodes[c] # << >>
            /\ nodes'[c] = Tail(nodes[c])
        BY <2>0, <2>3, DequeueIs DEF Unqueued
      <3>2. Len(nodes'[c]) = Len(nodes[c]) - 1 /\ Len(nodes[c]) \in Nat
        BY <3>1, HeadTailProperties
      <3>3. Cardinality(Woken(c) \ {t}) >= Cardinality(Woken(c)) - 1
        <4>1. IsFiniteSet(Woken(c)) /\ Cardinality(Woken(c)) \in Nat
          BY WaitersFinite
        <4>2. Cardinality(Woken(c) \ {t}) =
                IF t \in Woken(c) THEN Cardinality(Woken(c)) - 1 ELSE Cardinality(Woken(c))
          BY <4>1, FS_RemoveElement
        <4>3. QED
          BY <4>1, <4>2
      <3>4. IsFiniteSet(Woken(c) \ {t}) /\ Cardinality(Woken(c) \ {t}) \in Nat
        BY WaitersFinite, FS_RemoveElement, FS_CardinalityType
      <3>5. WakeupComing(c)
        BY DEF NoLostWakeup
      <3>6. Parked(c)' = Parked(c) /\ Woken(c)' = Woken(c) \ {t}
        BY <1>2, RecvWaiters
      <3>7. QED
        BY <2>1, <2>3, <3>2, <3>3, <3>4, <3>5, <3>6, WaitersFinite DEF WakeupComing
    <2>4. CASE d = c /\ RecvNull(t, c)
      <3>1. closed[c] /\ Parked(c) = {}
        BY <2>4 DEF RecvNull, NoLostWakeup, WakeupComing
      <3>2. QED
        BY <1>2, <2>4, <3>1, RecvWaiters DEF WakeupComing
    <2>5. QED
      BY <1>2, <2>2, <2>3, <2>4 DEF RecvReturn
  <1>3. ASSUME NEW t \in Threads, NEW c \in Chans, Receiving(t, c), RecvWait(t, c),
               NEW d \in Chans
        PROVE  WakeupComing(d)'
    <2>1. nodes' = nodes /\ closed' = closed /\ nodes[c] = << >> /\ ~closed[c]
      BY <1>3, NodesKept, NodesAre DEF RecvWait
    <2>2. CASE d # c
      <3>1. Parked(d)' = Parked(d) /\ Woken(d)' = Woken(d)
        BY <1>3, <2>2 DEF RecvWait, Receiving, Parked, Woken, TypeOK
      <3>2. QED
        BY <2>1, <3>1, WakeupFrame DEF NoLostWakeup
    <2>3. CASE d = c
      <3>1. Woken(c)' \in SUBSET Threads
        BY DEF Woken
      <3>2. Cardinality(Woken(c)') \in Nat
        BY <3>1, FS_Subset, FS_CardinalityType
      <3>3. QED
        BY <2>1, <2>3, <3>2, EmptySeq DEF WakeupComing
    <2>4. QED
      BY <2>2, <2>3
  <1>4. ASSUME NEW t \in Threads, NEW c \in Chans, Close(t, c), NEW d \in Chans
        PROVE  WakeupComing(d)'
    <2>1. pc \in [Threads -> Labels] /\ Parked(c) \in SUBSET Threads
      BY DEF TypeOK, Parked
    <2>2. \A u \in Threads : pc'[u] = IF u \in Parked(c) THEN "woken" ELSE pc[u]
      BY <1>4, <2>1, WakeType DEF Close
    <2>3. on' = on /\ nodes' = nodes
      BY <1>4, NodesKept DEF Close
    <2>4. CASE d = c
      <3>1. Parked(c)' = {}
        BY <2>2, <2>3 DEF Parked
      <3>2. QED
        BY <2>4, <3>1 DEF WakeupComing
    <2>5. CASE d # c
      <3>1. Parked(d)' = Parked(d) /\ Woken(d)' = Woken(d)
        BY <2>2, <2>3, <2>5 DEF Parked, Woken
      <3>2. closed'[d] = closed[d]
        BY <1>4, <2>5 DEF Close, TypeOK
      <3>3. QED
        BY <2>3, <3>1, <3>2, WakeupFrame DEF NoLostWakeup
    <2>6. QED
      BY <2>4, <2>5
  <1>5. ASSUME Quiet, NEW d \in Chans
        PROVE  WakeupComing(d)'
    BY <1>5, NodesKept, WakeupFrame DEF Quiet, Parked, Woken, NoLostWakeup
  <1>6. QED
    BY <1>1, <1>2, <1>3, <1>4, <1>5, StepCases DEF NoLostWakeup

-----------------------------------------------------------------------------
(* The invariant and its theorems.                                           *)

IInv == TypeOK /\ PlaceOK /\ ListOK /\ CountMatches /\ Fifo /\ NoLostWakeup

LEMMA InitInv == Init => IInv
  <1> SUFFICES ASSUME Init PROVE IInv
    OBVIOUS
  <1> USE DEF Init
  <1>1. TypeOK
    BY EmptySeq DEF TypeOK, Labels, Nil
  <1>2. PlaceOK
    BY DEF PlaceOK
  <1>0. ListOK
    BY EmptySeq DEF ListOK, IsChain
  <1>7. \A c \in Chans : nodes[c] = << >>
    BY <1>0, <1>1, NodesAre
  <1>3. CountMatches
    BY <1>7, EmptySeq DEF CountMatches
  <1>4. Fifo
    BY <1>7, EmptySeq, ConcatEmptySeq DEF Fifo
  <1>5. NoLostWakeup
    BY DEF NoLostWakeup, WakeupComing, Parked
  <1>6. QED
    BY <1>0, <1>1, <1>2, <1>3, <1>4, <1>5 DEF IInv

LEMMA StepInv == IInv /\ [Next]_vars => IInv'
  BY TypeStep, PlaceStep, ChainStep, ListStep, WakeupStep DEF IInv

LEMMA Invariance == Spec => []IInv
  BY InitInv, StepInv, PTL DEF Spec

(* Every variable keeps its type, and a polling thread's index is a case of   *)
(* its select, in every behaviour of conc_rt.c's channel calls.               *)
THEOREM TypeCorrect == Spec => []TypeOK
  BY Invariance, PTL DEF IInv

(* No accepted value is lost, duplicated or reordered, and the count field    *)
(* is the length of the list.                                                 *)
THEOREM FifoCorrect == Spec => [](Fifo /\ CountMatches)
  BY Invariance, PTL DEF IInv

(* While a thread sleeps on recv_cv the channel is open and every listed      *)
(* value has a woken thread coming for it.                                    *)
THEOREM WakeupCorrect == Spec => []NoLostWakeup
  BY Invariance, PTL DEF IInv

(* A channel that is closed stays closed and accepts nothing more.            *)
THEOREM CloseIsFinal == Spec => NothingAcceptedAfterClose
  <1>1. IInv /\ [Next]_vars => [\A c \in Chans : closed[c] => closed'[c] /\ sent'[c] = sent[c]]_vars
    <2> SUFFICES ASSUME IInv, [Next]_vars, NEW c \in Chans, closed[c]
                 PROVE  closed'[c] /\ sent'[c] = sent[c]
      OBVIOUS
    <2> USE DEF IInv, TypeOK
    <2>1. ASSUME NEW t \in Threads, NEW d \in Chans, NEW v \in Values, SendOpen(t, d, v)
          PROVE  closed'[c] /\ sent'[c] = sent[c]
      BY <2>1 DEF SendOpen, Enqueue
    <2>2. ASSUME NEW t \in Threads, NEW d \in Chans, RecvReturn(t, d) \/ RecvWait(t, d)
          PROVE  closed'[c] /\ sent'[c] = sent[c]
      BY <2>2 DEF RecvReturn, RecvWait, Dequeue, RecvNull
    <2>3. ASSUME NEW t \in Threads, NEW d \in Chans, Close(t, d)
          PROVE  closed'[c] /\ sent'[c] = sent[c]
      BY <2>3 DEF Close
    <2>4. QED
      BY <2>1, <2>2, <2>3, StepCases DEF Quiet
  <1>2. QED
    BY <1>1, Invariance, PTL DEF Spec, NothingAcceptedAfterClose

(* The runtime implements Channel: a send that is not refused is Put, a recv  *)
(* that returns is Get or GetNull, close is Close, and everything else, the   *)
(* waiting and polling included, is invisible.                                *)
THEOREM Implementation == Spec => Implements
  <1>1. Init => Promise!Init
    <2> SUFFICES ASSUME Init PROVE Promise!Init
      OBVIOUS
    <2>1. nodes = [c \in Chans |-> << >>]
      <3>1. \A c \in Chans : nodes[c] = << >>
        BY InitInv, NodesAre DEF IInv, Init
      <3>2. QED
        BY <3>1 DEF nodes
    <2>2. QED
      BY <2>1 DEF Init, Promise!Init
  <1>2. IInv /\ [Next]_vars => [Promise!Next]_(Promise!vars)
    <2> SUFFICES ASSUME IInv, [Next]_vars
                 PROVE  Promise!Next \/ UNCHANGED Promise!vars
      BY DEF Promise!vars
    <2>1. ASSUME NEW t \in Threads, NEW c \in Chans, NEW v \in Values, SendOpen(t, c, v)
          PROVE  Promise!Put(c, v)
      BY <2>1, EnqueueIs DEF IInv, SendOpen, Queued, Promise!Put
    <2>2. ASSUME NEW t \in Threads, NEW c \in Chans, RecvReturn(t, c)
          PROVE  Promise!Get(t, c) \/ Promise!GetNull(t, c)
      <3>1. CASE Dequeue(t, c)
        BY <3>1, DequeueIs DEF IInv, Unqueued, Promise!Get
      <3>2. CASE RecvNull(t, c)
        BY <3>2, NodesKept, NodesAre DEF IInv, RecvNull, Promise!GetNull
      <3>3. QED
        BY <2>2, <3>1, <3>2 DEF RecvReturn
    <2>3. ASSUME NEW t \in Threads, NEW c \in Chans, RecvWait(t, c)
          PROVE  UNCHANGED Promise!vars
      BY <2>3, NodesKept DEF RecvWait, Promise!vars
    <2>4. ASSUME NEW t \in Threads, NEW c \in Chans, Close(t, c)
          PROVE  Promise!Close(c)
      BY <2>4, NodesKept DEF Close, Promise!Close
    <2>5. CASE Quiet
      BY <2>5, NodesKept DEF Quiet, Promise!vars
    <2>6. QED
      BY <2>1, <2>2, <2>3, <2>4, <2>5, StepCases DEF IInv, Promise!Next
  <1>3. QED
    BY <1>1, <1>2, Invariance, PTL DEF Spec, Implements, Promise!Spec

-----------------------------------------------------------------------------
(* Contexts.                                                                 *)

(* The types of the variables that Context adds.                             *)
CtxTypeOK ==
    /\ kind       \in [Ctxs -> Kinds]
    /\ parent     \in [Ctxs -> Ctxs \cup {Null}]
    /\ done       \in [Ctxs -> BOOLEAN]
    /\ doneCh     \in [Ctxs -> Ctxs]
    /\ deadline   \in [Ctxs -> Nat]
    /\ work       \in [Workers -> Points]
    /\ testing    \in [Users -> Ctxs \cup {Null}]
    /\ cancelling \in [Users -> Ctxs \cup {Null}]
    /\ now        \in Nat

(* Nothing is ever sent, so a select chooses a closed channel or none, and   *)
(* nobody waits in recv.                                                     *)
OnlyCloses ==
    /\ \A c \in Chans : head[c] = Nil
    /\ \A t \in Threads : /\ pc[t] \in {"idle", "poll", "chosen"}
                          /\ pc[t] = "chosen" => closed[TheCase(t).ch]

(* A context that is not made yet is no part of the tree; one that is made    *)
(* has the channel of a context on its way to the root.                      *)
TreeOK ==
    \A x \in Ctxs :
        /\ parent[x] \in Ctxs => kind[parent[x]] # "none"
        /\ kind[x] = "none" => parent[x] = Null /\ doneCh[x] = x /\ ~done[x] /\ ~closed[x]
        /\ kind[x] # "none" => kind[doneCh[x]] # "none" /\ doneCh[x] \in Lineage(x)
        /\ kind[x] \in {"cancel", "deadline"} => parent[x] \in Ctxs /\ doneCh[x] = x

(* Who runs a worker, and what a propagate that left its select by case 1     *)
(* knows.                                                                    *)
WorkOK ==
    \A x \in Ctxs :
        /\ work[Propagator(x)] # "off" => kind[x] \in {"cancel", "deadline"}
        /\ work[Timer(x)] # "off" => kind[x] = "deadline"
        /\ work[Propagator(x)] = "select" =>
              /\ pc[Propagator(x)] # "idle" =>
                    sel[Propagator(x)] = <<Receive(doneCh[parent[x]]), Receive(doneCh[x])>>
              /\ pc[Propagator(x)] = "idle" /\ which[Propagator(x)] = 1 =>
                    closed[doneCh[parent[x]]]

Flagged == \A u \in Users :
              /\ testing[u] # Null => kind[testing[u]] # "none"
              /\ cancelling[u] # Null => done[cancelling[u]]

CtxInv == TypeOK /\ PlaceOK /\ ListOK /\ CtxTypeOK /\ OnlyCloses /\ TreeOK /\ WorkOK /\ Flagged
              /\ ClosedHasCause

-----------------------------------------------------------------------------
(* The lineage of a context: it is reflexive and transitive, contains the     *)
(* parent, and only grows when a context that has no parent gets one.         *)

LEMMA LineageSelf ==
    ASSUME NEW x \in Ctxs PROVE x \in Lineage(x)
  BY DEF Lineage

LEMMA LineageParent ==
    ASSUME NEW x \in Ctxs, parent[x] \in Ctxs PROVE parent[x] \in Lineage(x)
  BY DEF Lineage

LEMMA LineageTrans ==
    ASSUME NEW x \in Ctxs, NEW y \in Lineage(x), NEW z \in Lineage(y)
    PROVE  z \in Lineage(x)
  BY DEF Lineage

LEMMA LineageKept ==
    ASSUME parent' = parent, NEW x \in Ctxs PROVE Lineage(x)' = Lineage(x)
  BY DEF Lineage

LEMMA LineageGrows ==
    ASSUME NEW x \in Ctxs, NEW p \in Ctxs, parent[x] \notin Ctxs, CtxTypeOK,
           parent' = [parent EXCEPT ![x] = p],
           NEW y \in Ctxs, NEW z \in Lineage(y)
    PROVE  z \in Lineage(y)'
  <1>1. \A w \in Ctxs : parent[w] \in Ctxs => parent'[w] = parent[w]
    BY DEF CtxTypeOK
  <1>2. SUFFICES ASSUME NEW S \in SUBSET Ctxs, y \in S,
                        \A w \in S : parent'[w] \in Ctxs => parent'[w] \in S
                 PROVE  z \in S
    BY DEF Lineage
  <1>3. \A w \in S : parent[w] \in Ctxs => parent[w] \in S
    BY <1>1, <1>2
  <1>4. QED
    BY <1>2, <1>3 DEF Lineage

-----------------------------------------------------------------------------
(* Worker threads are threads, and no two of them are the same.               *)
LEMMA WorkerTypes ==
    ASSUME NEW x \in Ctxs
    PROVE  /\ Propagator(x) \in Workers /\ Timer(x) \in Workers
           /\ Propagator(x) \in Threads /\ Timer(x) \in Threads
           /\ Propagator(x) # Timer(x)
           /\ \A y \in Ctxs : /\ Propagator(x) # Timer(y)
                              /\ Propagator(x) = Propagator(y) => x = y
                              /\ Timer(x) = Timer(y) => x = y
  BY ContextAssumption DEF Propagator, Timer, Workers

(* Nobody waits in recv, so Close changes one channel and no label.           *)
LEMMA CloseEffect ==
    ASSUME TypeOK, OnlyCloses, NEW t \in Threads, NEW c \in Chans, Close(t, c)
    PROVE  /\ closed' = [closed EXCEPT ![c] = TRUE]
           /\ pc' = pc
           /\ UNCHANGED <<head, selVars>>
  <1>1. Parked(c) = {}
    BY DEF Parked, OnlyCloses
  <1>2. Wake(pc, {}) = pc
    BY DEF Wake, TypeOK
  <1>3. QED
    BY <1>1, <1>2 DEF Close

(* Every case of every select is a receive.                                   *)
LEMMA OnlyReceives ==
    ASSUME NEW cs \in Selects, NEW i \in DOMAIN cs
    PROVE  ~cs[i].send
  BY ContextAssumption DEF Receive

(* A step inside a select stays there with the same cases, or ends it at a    *)
(* closed channel or with nothing.                                            *)
SelectStep(w) ==
    /\ head' = head /\ closed' = closed
    /\ pc[w] # "idle"
    /\ \A u \in Threads \ {w} : /\ pc'[u] = pc[u] /\ sel'[u] = sel[u]
                                /\ idx'[u] = idx[u] /\ which'[u] = which[u]
    /\ \/ /\ pc'[w] \in {"poll", "chosen"} /\ sel'[w] = sel[w]
          /\ pc'[w] = "chosen" => idx'[w] = idx[w] /\ closed[TheCase(w).ch]
       \/ pc'[w] = "idle" /\ which'[w] = -1
       \/ pc'[w] = "idle" /\ which'[w] = idx[w] /\ closed[TheCase(w).ch]

LEMMA InSelectEffect ==
    ASSUME TypeOK, OnlyCloses, NEW w \in Threads, Progress(w)
    PROVE  SelectStep(w)
  <1> USE DEF vars, chanVars, selVars
  <1>1. pc[w] \in {"idle", "poll", "chosen"} /\ (pc[w] = "chosen" => closed[TheCase(w).ch])
    BY DEF OnlyCloses
  <1>2. pc[w] \in {"poll", "chosen"} =>
            TheCase(w).ch \in Chans /\ ~TheCase(w).send /\ head[TheCase(w).ch] = Nil
               /\ sel[w] # << >> /\ idx[w] \in Nat
    <2>1. SUFFICES ASSUME pc[w] \in {"poll", "chosen"}
                   PROVE  /\ TheCase(w).ch \in Chans /\ ~TheCase(w).send
                          /\ head[TheCase(w).ch] = Nil
                          /\ sel[w] # << >> /\ idx[w] \in Nat
      OBVIOUS
    <2>2. TheCase(w).ch \in Chans
      BY <2>1, TheCaseType
    <2>3. idx[w] \in DOMAIN sel[w] /\ idx[w] \in Nat /\ sel[w] \in Selects \cup {<< >>}
      BY <2>1 DEF TypeOK
    <2>4. sel[w] # << >>
      BY <2>3
    <2>5. ~TheCase(w).send
      BY <2>3, <2>4, OnlyReceives DEF TheCase
    <2>6. QED
      BY <2>2, <2>3, <2>4, <2>5 DEF OnlyCloses
  <1>3. CASE PollReady(w)
    BY <1>2, <1>3 DEF PollReady, Ready, SelectStep, TypeOK
  <1>4. CASE PollNextCase(w)
    BY <1>4 DEF PollNextCase, SelectStep, TypeOK
  <1>5. CASE PollNextRound(w)
    BY <1>5 DEF PollNextRound, SelectStep, TypeOK
  <1>6. CASE GiveUp(w)
    BY <1>2, <1>6 DEF GiveUp, LeaveSelect, SelectStep, TypeOK
  <1>7. CASE ChosenRecv(w)
    <2>1. RecvReturn(w, TheCase(w).ch)
      BY <1>1, <1>7 DEF ChosenRecv, RecvBody, RecvWait
    <2>2. RecvNull(w, TheCase(w).ch)
      BY <1>2, <1>7, <2>1 DEF ChosenRecv, RecvReturn, Dequeue
    <2>3. pc[w] = "chosen"
      BY <1>7 DEF ChosenRecv
    <2>4. QED
      BY <1>1, <1>2, <2>1, <2>2, <2>3 DEF RecvReturn, RecvNull, LeaveSelect, SelectStep, TypeOK
  <1>8. ~Resume(w) /\ ~ChosenSend(w)
    BY <1>1, <1>2 DEF Resume, ChosenSend
  <1>9. QED
    BY <1>3, <1>4, <1>5, <1>6, <1>7, <1>8 DEF Progress, Poll

-----------------------------------------------------------------------------
(* The initial state.                                                         *)
LEMMA CtxInvInit ==
    ASSUME CtxInit PROVE CtxInv
  <1>1. Init /\ TypeOK /\ PlaceOK /\ ListOK
    BY InitInv DEF CtxInit, IInv
  <1>2. CtxTypeOK
    BY ContextAssumption DEF CtxInit, CtxTypeOK, Kinds, Points
  <1>3. OnlyCloses
    BY DEF CtxInit, Init, OnlyCloses
  <1>4. \A x \in Ctxs : ~closed[x]
    BY ContextAssumption DEF CtxInit, Init
  <1>5. TreeOK
    BY <1>4, ContextAssumption, LineageSelf DEF CtxInit, TreeOK
  <1>6. WorkOK
    BY WorkerTypes DEF CtxInit, WorkOK
  <1>7. Flagged
    BY DEF CtxInit, Flagged
  <1>8. ClosedHasCause
    BY <1>4 DEF CtxInit, ClosedHasCause
  <1>9. QED
    BY <1>1, <1>2, <1>3, <1>5, <1>6, <1>7, <1>8 DEF CtxInv

-----------------------------------------------------------------------------
(* The constructors.  A new context has its own channel and workers, or the   *)
(* channel of its parent and none.                                            *)

LEMMA NewChildStep ==
    ASSUME CtxInv, NEW p \in Ctxs, NEW x \in Ctxs, NEW k \in Kinds, NEW ch \in Ctxs,
           NEW dl \in Nat, NEW W,
           \/ k \in {"cancel", "deadline"} /\ ch = x
           \/ k = "value" /\ ch = doneCh[p] /\ W = {},
           W \subseteq {Propagator(x), Timer(x)},
           Timer(x) \in W => k = "deadline",
           NewChild(p, x, k, ch, dl, W)
    PROVE  CtxTypeOK' /\ OnlyCloses' /\ TreeOK' /\ WorkOK' /\ Flagged' /\ ClosedHasCause'
  <1> USE DEF CtxInv
  <1>1. /\ kind[p] # "none" /\ kind[x] = "none" /\ k # "none" /\ p # x
        /\ parent[x] = Null /\ parent[x] \notin Ctxs /\ doneCh[x] = x /\ ~done[x] /\ ~closed[x]
    BY ContextAssumption DEF NewChild, TreeOK
  <1>2. /\ kind' = [kind EXCEPT ![x] = k]
        /\ parent' = [parent EXCEPT ![x] = p]
        /\ doneCh' = [doneCh EXCEPT ![x] = ch]
        /\ deadline' = [deadline EXCEPT ![x] = dl]
        /\ work' = [w \in Workers |-> IF w \in W THEN "created" ELSE work[w]]
        /\ UNCHANGED <<done, testing, cancelling, now>>
    BY DEF NewChild
  <1>3. UNCHANGED <<head, closed, pc, sel, idx, which>>
    BY DEF NewChild, vars, chanVars, selVars
  <1>4. /\ kind'[x] = k /\ parent'[x] = p /\ doneCh'[x] = ch
        /\ \A y \in Ctxs : y # x => /\ kind'[y] = kind[y] /\ parent'[y] = parent[y]
                                    /\ doneCh'[y] = doneCh[y] /\ deadline'[y] = deadline[y]
    BY <1>2 DEF CtxTypeOK
  <1>5. CtxTypeOK'
    BY <1>2 DEF CtxTypeOK, Points
  <1>6. OnlyCloses'
    BY <1>3 DEF OnlyCloses, TheCase
  <1>7. \A y \in Ctxs : \A z \in Lineage(y) : z \in Lineage(y)'
    BY <1>1, <1>2, LineageGrows
  <1>8. p \in Lineage(x)' /\ x \in Lineage(x)'
    BY <1>4 DEF Lineage
  <1>9. doneCh[p] \in Lineage(p) /\ kind[doneCh[p]] # "none"
    BY <1>1 DEF TreeOK
  <1>10. \A z \in Lineage(p) : z \in Lineage(x)'
    <2>1. SUFFICES ASSUME NEW z \in Lineage(p) PROVE z \in Lineage(x)'
      OBVIOUS
    <2>2. z \in Lineage(p)'
      BY <1>7
    <2>3. QED
      BY <1>8, <2>2 DEF Lineage
  <1>11. TreeOK'
    <2>1. SUFFICES ASSUME NEW y \in Ctxs
                   PROVE  /\ parent'[y] \in Ctxs => kind'[parent'[y]] # "none"
                          /\ kind'[y] = "none" => /\ parent'[y] = Null /\ doneCh'[y] = y
                                                  /\ ~done'[y] /\ ~closed'[y]
                          /\ kind'[y] # "none" => /\ kind'[doneCh'[y]] # "none"
                                                  /\ doneCh'[y] \in Lineage(y)'
                          /\ kind'[y] \in {"cancel", "deadline"} =>
                                parent'[y] \in Ctxs /\ doneCh'[y] = y
      BY DEF TreeOK
    <2>2. CASE y = x
      BY <1>1, <1>4, <1>8, <1>9, <1>10, <2>2
    <2>3. CASE y # x
      <3>1. /\ parent[y] \in Ctxs => kind[parent[y]] # "none"
            /\ kind[y] = "none" => parent[y] = Null /\ doneCh[y] = y /\ ~done[y] /\ ~closed[y]
            /\ kind[y] # "none" => kind[doneCh[y]] # "none" /\ doneCh[y] \in Lineage(y)
            /\ kind[y] \in {"cancel", "deadline"} => parent[y] \in Ctxs /\ doneCh[y] = y
        BY DEF TreeOK
      <3>2. \A z \in Ctxs : kind[z] # "none" => kind'[z] # "none"
        BY <1>1, <1>4
      <3>3. doneCh[y] \in Ctxs
        BY DEF CtxTypeOK
      <3>4. QED
        BY <1>2, <1>3, <1>4, <1>7, <2>3, <3>1, <3>2, <3>3
    <2>4. QED
      BY <2>2, <2>3
  <1>12. WorkOK'
    <2>1. SUFFICES ASSUME NEW y \in Ctxs
                   PROVE  /\ work'[Propagator(y)] # "off" => kind'[y] \in {"cancel", "deadline"}
                          /\ work'[Timer(y)] # "off" => kind'[y] = "deadline"
                          /\ work'[Propagator(y)] = "select" =>
                                /\ pc'[Propagator(y)] # "idle" =>
                                      sel'[Propagator(y)] =
                                          <<Receive(doneCh'[parent'[y]]), Receive(doneCh'[y])>>
                                /\ pc'[Propagator(y)] = "idle" /\ which'[Propagator(y)] = 1 =>
                                      closed'[doneCh'[parent'[y]]]
      BY DEF WorkOK, Receive
    <2>2. /\ Propagator(y) \in Workers /\ Timer(y) \in Workers
          /\ Propagator(x) \in Workers /\ Timer(x) \in Workers
          /\ Propagator(x) # Timer(x)
      BY WorkerTypes
    <2>3. CASE y = x
      <3>1. work[Propagator(x)] = "off" /\ work[Timer(x)] = "off"
        BY <1>1 DEF WorkOK
      <3>2. work'[Propagator(x)] \in {"off", "created"} /\ (Propagator(x) \notin W => work'[Propagator(x)] = "off")
        BY <1>2, <2>2, <3>1
      <3>3. work'[Timer(x)] # "off" => Timer(x) \in W
        BY <1>2, <2>2, <3>1
      <3>4. QED
        BY <1>4, <2>3, <3>2, <3>3
    <2>4. CASE y # x
      <3>1. Propagator(y) \notin W /\ Timer(y) \notin W
        BY <2>4, WorkerTypes
      <3>2. work'[Propagator(y)] = work[Propagator(y)] /\ work'[Timer(y)] = work[Timer(y)]
        BY <1>2, <2>2, <3>1
      <3>3. kind[y] \in {"cancel", "deadline"} => parent[y] \in Ctxs /\ parent[y] # x
        BY <1>1 DEF TreeOK
      <3>4. QED
        BY <1>3, <1>4, <2>4, <3>2, <3>3 DEF WorkOK
    <2>5. QED
      BY <2>3, <2>4
  <1>13. Flagged'
    <2>1. \A z \in Ctxs : kind[z] # "none" => kind'[z] # "none"
      BY <1>1, <1>4
    <2>2. QED
      <3>1. \A v \in Users : testing[v] # Null => testing[v] \in Ctxs
        BY DEF CtxTypeOK
      <3>2. UNCHANGED <<done, testing, cancelling>>
        BY <1>2
      <3>3. QED
        BY <2>1, <3>1, <3>2, Zenon DEF Flagged
  <1>14. \A y \in Ctxs : y # x /\ HasCause(y) => HasCause(y)'
    <2>1. SUFFICES ASSUME NEW y \in Ctxs, y # x, HasCause(y) PROVE HasCause(y)'
      OBVIOUS
    <2>2. PICK v \in Lineage(y), z \in Ctxs : doneCh[z] = doneCh[v] /\ (done[z] \/ Expired(z))
      BY <2>1 DEF HasCause
    <2>3. v \in Ctxs /\ v \in Lineage(y)'
      BY <1>7 DEF Lineage
    <2>4. kind[z] # "none" /\ z # x
      BY <1>1, <2>2 DEF TreeOK, Expired
    <2>5. v # x
      BY <1>1, <2>2, <2>4 DEF TreeOK
    <2>6. doneCh'[z] = doneCh'[v] /\ (done'[z] \/ Expired(z)')
      BY <1>2, <1>4, <2>2, <2>3, <2>4, <2>5 DEF Expired
    <2>7. QED
      BY <2>3, <2>6 DEF HasCause
  <1>15. ClosedHasCause'
    <2>1. SUFFICES ASSUME NEW y \in Ctxs, closed'[doneCh'[y]] PROVE HasCause(y)'
      BY DEF ClosedHasCause
    <2>2. CASE y # x
      BY <1>3, <1>4, <1>14, <2>1, <2>2 DEF ClosedHasCause
    <2>3. CASE y = x
      <3>1. ch = doneCh[p] /\ closed[doneCh[p]]
        BY <1>1, <1>3, <1>4, <2>1, <2>3
      <3>2. HasCause(p)'
        BY <1>1, <1>14, <3>1 DEF ClosedHasCause
      <3>3. PICK v \in Lineage(p)', z \in Ctxs :
                doneCh'[z] = doneCh'[v] /\ (done'[z] \/ Expired(z)')
        BY <3>2 DEF HasCause
      <3>4. v \in Lineage(x)'
        BY <1>8 DEF Lineage
      <3>5. QED
        BY <2>3, <3>3, <3>4 DEF HasCause
    <2>4. QED
      BY <2>2, <2>3
  <1>16. QED
    BY <1>5, <1>6, <1>11, <1>12, <1>13, <1>15

-----------------------------------------------------------------------------
(* The other actions leave the tree alone.                                    *)

TreeKept == UNCHANGED <<kind, parent, doneCh, deadline>>

LEMMA CauseKept ==
    ASSUME CtxTypeOK, TreeKept, \A z \in Ctxs : done[z] => done'[z],
           now' \in Int, now' >= now, NEW x \in Ctxs, HasCause(x)
    PROVE  HasCause(x)'
  <1>1. PICK y \in Lineage(x), z \in Ctxs : doneCh[z] = doneCh[y] /\ (done[z] \/ Expired(z))
    BY DEF HasCause
  <1>2. y \in Lineage(x)'
    BY LineageKept DEF TreeKept
  <1>3. Expired(z) => Expired(z)'
    BY DEF Expired, TreeKept, CtxTypeOK
  <1>4. QED
    BY <1>1, <1>2, <1>3 DEF HasCause, TreeKept

(* A context uses a channel of its own lineage, or has never been made.       *)
LEMMA SharedChannel ==
    ASSUME TreeOK, NEW x \in Ctxs, kind[x] # "none", NEW y \in Ctxs, doneCh[y] = doneCh[x]
    PROVE  kind[y] # "none" /\ doneCh[x] \in Lineage(y)
  BY DEF TreeOK

(* Closing the channel of x is justified when x has a cause by itself: what   *)
(* is cancelled or expired, or inherited by a context with its own channel.   *)
Justified(x) == \/ done[x] \/ Expired(x)
                \/ doneCh[x] = x /\ HasCause(x)

LEMMA CloseJustified ==
    ASSUME CtxInv, TreeKept, UNCHANGED <<done, now>>, NEW x \in Ctxs, Justified(x),
           kind[x] # "none", closed' = [closed EXCEPT ![doneCh[x]] = TRUE]
    PROVE  TreeOK' /\ ClosedHasCause'
  <1> USE DEF CtxInv
  <1>1. doneCh[x] \in Ctxs /\ kind[doneCh[x]] # "none" /\ closed \in [Ctxs -> BOOLEAN]
    BY ContextAssumption DEF CtxTypeOK, TypeOK, TreeOK
  <1>2. \A y \in Ctxs : Lineage(y)' = Lineage(y)
    BY LineageKept DEF TreeKept
  <1>3. TreeOK'
    BY <1>1, <1>2 DEF TreeOK, TreeKept
  <1>4. \A y \in Ctxs : HasCause(y) => HasCause(y)'
    BY CauseKept DEF CtxTypeOK
  <1>5. SUFFICES ASSUME NEW y \in Ctxs, closed'[doneCh'[y]] PROVE HasCause(y)'
    BY <1>3 DEF ClosedHasCause
  <1>6. CASE doneCh[y] # doneCh[x]
    <2>1. closed[doneCh[y]]
      BY <1>1, <1>5, <1>6 DEF TreeKept, CtxTypeOK
    <2>2. QED
      BY <1>4, <2>1 DEF ClosedHasCause
  <1>7. CASE doneCh[y] = doneCh[x]
    <2>1. doneCh[x] \in Lineage(y)
      BY <1>7, SharedChannel
    <2>2. CASE done[x] \/ Expired(x)
      <3>1. y \in Lineage(y)
        BY LineageSelf
      <3>2. HasCause(y)
        BY <1>7, <2>2, <3>1 DEF HasCause
      <3>3. QED
        BY <1>4, <3>2
    <2>3. CASE doneCh[x] = x /\ HasCause(x)
      <3>1. PICK v \in Lineage(x), z \in Ctxs :
                doneCh[z] = doneCh[v] /\ (done[z] \/ Expired(z))
        BY <2>3 DEF HasCause
      <3>2. v \in Lineage(y)
        BY <2>1, <2>3, <3>1, LineageTrans
      <3>3. HasCause(y)
        BY <3>1, <3>2 DEF HasCause
      <3>4. QED
        BY <1>4, <3>3
    <2>4. QED
      BY <2>2, <2>3 DEF Justified
  <1>8. QED
    BY <1>6, <1>7

(* When closed is unchanged and nothing is uncancelled, causes remain.        *)
LEMMA NothingCloses ==
    ASSUME CtxInv, TreeKept, closed' = closed,
           \A z \in Ctxs : kind[z] = "none" => done'[z] = done[z],
           \A z \in Ctxs : done[z] => done'[z],
           now' \in Int, now' >= now
    PROVE  TreeOK' /\ ClosedHasCause'
  <1> USE DEF CtxInv
  <1>1. \A y \in Ctxs : Lineage(y)' = Lineage(y)
    BY LineageKept DEF TreeKept
  <1>2. TreeOK'
    BY <1>1 DEF TreeOK, TreeKept
  <1>3. \A y \in Ctxs : HasCause(y) => HasCause(y)'
    BY CauseKept
  <1>4. ClosedHasCause'
    BY <1>3 DEF ClosedHasCause, TreeKept
  <1>5. QED
    BY <1>2, <1>4

(* Closing a channel leaves every select where it is.                         *)
LEMMA ClosePlaces ==
    ASSUME TypeOK, OnlyCloses, NEW t \in Threads, NEW c \in Chans, Close(t, c)
    PROVE  /\ OnlyCloses'
           /\ \A d \in Chans : closed[d] => closed'[d]
           /\ closed' = [closed EXCEPT ![c] = TRUE]
           /\ UNCHANGED <<head, pc, sel, idx, which>>
  <1>1. /\ closed' = [closed EXCEPT ![c] = TRUE]
        /\ UNCHANGED <<head, pc, sel, idx, which>>
    BY CloseEffect DEF selVars
  <1>2. \A d \in Chans : closed[d] => closed'[d]
    BY <1>1 DEF TypeOK
  <1>3. \A w \in Threads : pc[w] = "chosen" => TheCase(w).ch \in Chans
    BY TheCaseType
  <1>4. TheCase(t)' = TheCase(t) /\ \A w \in Threads : TheCase(w)' = TheCase(w)
    BY <1>1 DEF TheCase
  <1>5. OnlyCloses'
    BY <1>1, <1>2, <1>3, <1>4 DEF OnlyCloses
  <1>6. QED
    BY <1>1, <1>2, <1>5

(* What WorkOK says of a worker depends on its place and on its channels.     *)
LEMMA WorkKept ==
    ASSUME WorkOK, TreeKept, CtxTypeOK, TreeOK, UNCHANGED work,
           UNCHANGED <<pc, sel, which>>,
           \A d \in Ctxs : closed[d] => closed'[d]
    PROVE  WorkOK'
  <1>1. \A x \in Ctxs : kind[x] \in {"cancel", "deadline"} =>
            parent[x] \in Ctxs /\ doneCh[parent[x]] \in Ctxs
    BY DEF TreeOK, CtxTypeOK
  <1>2. QED
    BY <1>1 DEF WorkOK, TreeKept, Receive

-----------------------------------------------------------------------------
(* Each action keeps what Context adds to the invariant of the channels.      *)

TreeInv == CtxTypeOK /\ OnlyCloses /\ TreeOK /\ WorkOK /\ Flagged /\ ClosedHasCause

LEMMA ConstructStep ==
    ASSUME CtxInv, Construct PROVE TreeInv'
  <1>1. PICK p, x \in Ctxs : \/ WithCancel(p, x) \/ WithValue(p, x)
                             \/ \E dl \in 1 .. MaxTime : WithDeadline(p, x, dl)
    BY DEF Construct
  <1>2. doneCh[p] \in Ctxs
    BY DEF CtxInv, CtxTypeOK
  <1>3. CASE WithCancel(p, x)
    BY <1>3, NewChildStep, WorkerTypes DEF WithCancel, Kinds, TreeInv
  <1>4. CASE WithValue(p, x)
    BY <1>2, <1>4, NewChildStep DEF WithValue, Kinds, TreeInv
  <1>5. ASSUME NEW dl \in 1 .. MaxTime, WithDeadline(p, x, dl) PROVE TreeInv'
    <2>1. dl \in Nat
      BY ContextAssumption
    <2>2. QED
      BY <1>5, <2>1, NewChildStep DEF WithDeadline, Kinds, TreeInv
  <1>6. QED
    BY <1>1, <1>3, <1>4, <1>5

LEMMA CancelTestStep ==
    ASSUME CtxInv, NEW u \in Users, NEW x \in Ctxs, CancelTest(u, x) PROVE TreeInv'
  <1> USE DEF CtxInv
  <1>1. /\ testing' = [testing EXCEPT ![u] = x] /\ kind[x] # "none"
        /\ TreeKept /\ UNCHANGED <<done, cancelling, work, now>>
        /\ UNCHANGED <<head, closed, pc, sel, idx, which>>
    BY ContextAssumption DEF CancelTest, TreeKept, ctxVars, vars, chanVars, selVars
  <1>2. now' \in Int /\ now' >= now
    BY <1>1 DEF CtxTypeOK
  <1>3. CtxTypeOK'
    BY <1>1 DEF CtxTypeOK, TreeKept
  <1>4. OnlyCloses'
    BY <1>1 DEF OnlyCloses, TheCase
  <1>5. TreeOK' /\ ClosedHasCause'
    BY <1>1, <1>2, NothingCloses
  <1>6. WorkOK'
    BY <1>1, WorkKept
  <1>7. Flagged'
    <2>1. \A v \in Users : testing'[v] = IF v = u THEN x ELSE testing[v]
      BY <1>1 DEF CtxTypeOK
    <2>2. kind' = kind /\ kind[x] # "none" /\ done' = done /\ cancelling' = cancelling
      BY <1>1 DEF TreeKept
    <2>3. QED
      BY <2>1, <2>2, Zenon DEF Flagged
  <1>8. QED
    BY <1>3, <1>4, <1>5, <1>6, <1>7 DEF TreeInv

LEMMA CancelFlagStep ==
    ASSUME CtxInv, NEW u \in Users, CancelFlag(u) PROVE TreeInv'
  <1> USE DEF CtxInv
  <1> DEFINE x == testing[u]
  <1>0. x \in Ctxs /\ kind[x] # "none" /\ testing' = [testing EXCEPT ![u] = Null]
    <2>1. testing[u] # Null /\ testing' = [testing EXCEPT ![u] = Null]
      BY DEF CancelFlag
    <2>2. testing[u] \in Ctxs
      BY <2>1 DEF CtxTypeOK
    <2>3. kind[testing[u]] # "none"
      BY <2>1, Zenon DEF Flagged
    <2>4. QED
      BY <2>1, <2>2, <2>3
  <1>1. /\ done' = [done EXCEPT ![x] = TRUE] /\ cancelling' = [cancelling EXCEPT ![u] = x]
        /\ kind[x] # "none" /\ TreeKept /\ UNCHANGED <<work, now>>
        /\ UNCHANGED <<head, closed, pc, sel, idx, which>>
    BY <1>0 DEF CancelFlag, TreeKept, vars, chanVars, selVars
  <1>2. CtxTypeOK'
    BY <1>0, <1>1 DEF CtxTypeOK, TreeKept
  <1>3. OnlyCloses'
    BY <1>1 DEF OnlyCloses, TheCase
  <1>4. /\ \A z \in Ctxs : kind[z] = "none" => done'[z] = done[z]
        /\ \A z \in Ctxs : done[z] => done'[z]
        /\ now' \in Int /\ now' >= now
    <2>1. done \in [Ctxs -> BOOLEAN] /\ now \in Nat /\ now' = now
      BY <1>1 DEF CtxTypeOK
    <2>2. done' = [done EXCEPT ![x] = TRUE] /\ kind[x] # "none"
      BY <1>1
    <2> HIDE DEF x
    <2>3. \A z \in Ctxs : done'[z] = IF z = x THEN TRUE ELSE done[z]
      BY <2>1, <2>2, Zenon
    <2>4. now' \in Int /\ now' >= now
      BY <2>1
    <2>5. \A z \in Ctxs : kind[z] = "none" => done'[z] = done[z]
      BY <2>2, <2>3
    <2>6. \A z \in Ctxs : done[z] => done'[z]
      BY <2>3
    <2>7. QED
      BY <2>4, <2>5, <2>6
  <1>5. TreeOK' /\ ClosedHasCause'
    BY <1>1, <1>4, NothingCloses
  <1>6. WorkOK'
    BY <1>1, WorkKept
  <1>7. Flagged'
    <2>1. \A v \in Users : testing'[v] = IF v = u THEN Null ELSE testing[v]
      BY <1>0 DEF CtxTypeOK
    <2>2. \A v \in Users : cancelling'[v] = IF v = u THEN x ELSE cancelling[v]
      BY <1>1 DEF CtxTypeOK
    <2>3. \A z \in Ctxs : done[z] => done'[z]
      BY <1>4
    <2>4. done'[x]
      BY <1>0, <1>1 DEF CtxTypeOK
    <2>5. \A v \in Users : cancelling[v] # Null => cancelling[v] \in Ctxs
      BY DEF CtxTypeOK
    <2> HIDE DEF x
    <2>6. QED
      BY <1>1, <2>1, <2>2, <2>3, <2>4, <2>5 DEF Flagged, TreeKept
  <1>8. QED
    BY <1>2, <1>3, <1>5, <1>6, <1>7 DEF TreeInv

LEMMA CancelCloseStep ==
    ASSUME CtxInv, NEW u \in Users, CancelClose(u) PROVE TreeInv'
  <1> USE DEF CtxInv
  <1> DEFINE x == cancelling[u]
  <1>1. /\ x \in Ctxs /\ done[x] /\ kind[x] # "none" /\ doneCh[x] \in Chans /\ u \in Threads
        /\ Close(u, doneCh[x])
        /\ cancelling' = [cancelling EXCEPT ![u] = Null]
        /\ TreeKept /\ UNCHANGED <<work, done, testing, now>>
    <2>1. /\ x # Null /\ Close(u, doneCh[x])
          /\ cancelling' = [cancelling EXCEPT ![u] = Null]
          /\ TreeKept /\ UNCHANGED <<work, done, testing, now>>
      BY DEF CancelClose, ctxVars, TreeKept
    <2>2. x \in Ctxs
      BY <2>1 DEF CtxTypeOK
    <2>3. done[x]
      BY <2>1, Zenon DEF Flagged
    <2>4. kind[x] # "none"
      BY <2>2, <2>3, Zenon DEF TreeOK
    <2>5. doneCh[x] \in Chans /\ u \in Threads
      BY <2>2, ContextAssumption DEF CtxTypeOK
    <2>6. QED
      BY <2>1, <2>2, <2>3, <2>4, <2>5
  <1>2. /\ OnlyCloses'
        /\ \A d \in Ctxs : closed[d] => closed'[d]
        /\ closed' = [closed EXCEPT ![doneCh[x]] = TRUE]
        /\ UNCHANGED <<pc, sel, which>>
    BY <1>1, ClosePlaces, ContextAssumption
  <1>3. CtxTypeOK'
    BY <1>1 DEF CtxTypeOK, TreeKept
  <1>4. TreeOK' /\ ClosedHasCause'
    BY <1>1, <1>2, CloseJustified DEF Justified
  <1>5. WorkOK'
    BY <1>1, <1>2, WorkKept
  <1>6. Flagged'
    <2>1. \A v \in Users : cancelling'[v] = IF v = u THEN Null ELSE cancelling[v]
      BY <1>1 DEF CtxTypeOK
    <2>2. QED
      BY <1>1, <2>1 DEF Flagged, TreeKept
  <1>7. QED
    BY <1>2, <1>3, <1>4, <1>5, <1>6 DEF TreeInv

(* A worker that has just started its select.                                 *)
LEMMA SelectStarts ==
    ASSUME CtxInv, NEW w \in Workers, work[w] = "created", NEW cs \in Selects,
           SelectStart(w, cs), Goto(w, "select"),
           \A x \in Ctxs : w = Propagator(x) =>
                 cs = <<Receive(doneCh[parent[x]]), Receive(doneCh[x])>>
    PROVE  TreeInv'
  <1> USE DEF CtxInv
  <1>1. /\ pc' = [pc EXCEPT ![w] = "poll"] /\ sel' = [sel EXCEPT ![w] = cs]
        /\ idx' = [idx EXCEPT ![w] = 1] /\ UNCHANGED <<head, closed, which>>
        /\ work' = [work EXCEPT ![w] = "select"]
        /\ TreeKept /\ UNCHANGED <<done, testing, cancelling, now>>
    BY DEF SelectStart, chanVars, Goto, TreeKept, ctxVars
  <1>2. w \in Threads /\ \A u \in Threads : u # w => pc'[u] = pc[u] /\ sel'[u] = sel[u]
    BY <1>1, ContextAssumption DEF TypeOK
  <1>3. CtxTypeOK'
    BY <1>1 DEF CtxTypeOK, TreeKept, Points
  <1>4. OnlyCloses'
    <2>1. pc'[w] = "poll"
      BY <1>1, <1>2 DEF TypeOK
    <2>2. \A u \in Threads : u # w => TheCase(u)' = TheCase(u)
      BY <1>1 DEF TheCase, TypeOK
    <2>3. QED
      BY <1>1, <1>2, <2>1, <2>2 DEF OnlyCloses
  <1>5. TreeOK' /\ ClosedHasCause'
    BY <1>1, NothingCloses DEF CtxTypeOK
  <1>6. WorkOK'
    <2>1. SUFFICES ASSUME NEW x \in Ctxs
                   PROVE  /\ work'[Propagator(x)] # "off" => kind[x] \in {"cancel", "deadline"}
                          /\ work'[Timer(x)] # "off" => kind[x] = "deadline"
                          /\ work'[Propagator(x)] = "select" =>
                                /\ pc'[Propagator(x)] # "idle" =>
                                      sel'[Propagator(x)] =
                                          <<Receive(doneCh[parent[x]]), Receive(doneCh[x])>>
                                /\ pc'[Propagator(x)] = "idle" /\ which[Propagator(x)] = 1 =>
                                      closed[doneCh[parent[x]]]
      BY <1>1 DEF WorkOK, TreeKept, Receive
    <2>2. /\ Propagator(x) \in Workers /\ Timer(x) \in Workers
          /\ Propagator(x) \in Threads
      BY WorkerTypes
    <2>3. work[Propagator(x)] # "off" <=> work'[Propagator(x)] # "off"
      BY <1>1, <2>2 DEF CtxTypeOK
    <2>4. work[Timer(x)] # "off" <=> work'[Timer(x)] # "off"
      BY <1>1, <2>2 DEF CtxTypeOK
    <2>5. CASE w = Propagator(x)
      <3>1. pc'[w] = "poll" /\ sel'[w] = cs
        BY <1>1, <1>2 DEF TypeOK
      <3>2. QED
        BY <2>3, <2>4, <2>5, <3>1 DEF WorkOK
    <2>6. CASE w # Propagator(x)
      <3>1. work'[Propagator(x)] = work[Propagator(x)]
        BY <1>1, <2>2, <2>6 DEF CtxTypeOK
      <3>2. QED
        BY <1>2, <2>2, <2>4, <2>6, <3>1 DEF WorkOK
    <2>7. QED
      BY <2>5, <2>6
  <1>7. Flagged'
    BY <1>1 DEF Flagged, TreeKept
  <1>8. QED
    BY <1>3, <1>4, <1>5, <1>6, <1>7 DEF TreeInv

(* A step inside a select.                                                    *)
LEMMA InSelectStep ==
    ASSUME CtxInv, NEW w \in Workers, InSelect(w) PROVE TreeInv'
  <1> USE DEF CtxInv
  <1>1. w \in Threads /\ SelectStep(w) /\ TreeKept /\ UNCHANGED <<done, work, testing, cancelling, now>>
    BY InSelectEffect, ContextAssumption DEF InSelect, treeVars, ctxVars, TreeKept
  <1>2. CtxTypeOK'
    BY <1>1 DEF CtxTypeOK, TreeKept
  <1>3. OnlyCloses'
    <2>1. \A u \in Threads : u # w => TheCase(u)' = TheCase(u)
      BY <1>1 DEF SelectStep, TheCase
    <2>2. pc'[w] = "chosen" => TheCase(w)' = TheCase(w) /\ closed[TheCase(w).ch]
      BY <1>1 DEF SelectStep, TheCase
    <2>3. QED
      BY <1>1, <2>1, <2>2 DEF SelectStep, OnlyCloses
  <1>4. TreeOK' /\ ClosedHasCause'
    BY <1>1, NothingCloses DEF CtxTypeOK, SelectStep
  <1>5. WorkOK'
    <2>1. SUFFICES ASSUME NEW x \in Ctxs, work[Propagator(x)] = "select"
                   PROVE  /\ pc'[Propagator(x)] # "idle" =>
                                 sel'[Propagator(x)] =
                                     <<Receive(doneCh[parent[x]]), Receive(doneCh[x])>>
                          /\ pc'[Propagator(x)] = "idle" /\ which'[Propagator(x)] = 1 =>
                                 closed[doneCh[parent[x]]]
      BY <1>1 DEF WorkOK, TreeKept, SelectStep, Receive
    <2>2. Propagator(x) \in Threads
      BY WorkerTypes
    <2>3. CASE w = Propagator(x)
      <3>1. sel[w] = <<Receive(doneCh[parent[x]]), Receive(doneCh[x])>>
        BY <1>1, <2>1, <2>3 DEF SelectStep, WorkOK
      <3>2. idx[w] = 1 => TheCase(w).ch = doneCh[parent[x]]
        BY <3>1 DEF TheCase, Receive
      <3>3. QED
        BY <1>1, <2>3, <3>1, <3>2 DEF SelectStep
    <2>4. CASE w # Propagator(x)
      BY <1>1, <2>1, <2>2, <2>4 DEF SelectStep, WorkOK
    <2>5. QED
      BY <2>3, <2>4
  <1>6. Flagged'
    BY <1>1 DEF Flagged, TreeKept
  <1>7. QED
    BY <1>2, <1>3, <1>4, <1>5, <1>6 DEF TreeInv

(* A worker outside a select, that goes elsewhere but into one, and may close *)
(* the channel of a context that has a cause.                                 *)
LEMMA WorkerMoves ==
    ASSUME CtxInv, NEW w \in Workers, work[w] # "off", NEW q \in Points \ {"off", "select"},
           Goto(w, q), NEW x \in Ctxs,
           \/ UNCHANGED vars
           \/ Close(w, doneCh[x]) /\ Justified(x) /\ kind[x] # "none"
    PROVE  TreeInv'
  <1> USE DEF CtxInv
  <1>1. /\ w \in Threads /\ doneCh[x] \in Chans
        /\ work' = [work EXCEPT ![w] = q]
        /\ TreeKept /\ UNCHANGED <<done, testing, cancelling, now>>
    BY ContextAssumption DEF Goto, TreeKept, ctxVars, CtxTypeOK
  <1>2. /\ OnlyCloses' /\ TreeOK' /\ ClosedHasCause'
        /\ \A d \in Ctxs : closed[d] => closed'[d]
        /\ UNCHANGED <<pc, sel, which>>
    <2>1. CASE UNCHANGED vars
      <3>1. UNCHANGED <<head, closed, pc, sel, idx, which>>
        BY <2>1 DEF vars, chanVars, selVars
      <3>2. OnlyCloses'
        BY <3>1 DEF OnlyCloses, TheCase
      <3>3. now' \in Int /\ now' >= now
        BY <1>1 DEF CtxTypeOK
      <3>4. QED
        BY <1>1, <3>1, <3>2, <3>3, NothingCloses
    <2>2. CASE Close(w, doneCh[x]) /\ Justified(x) /\ kind[x] # "none"
      <3>1. /\ OnlyCloses'
            /\ \A d \in Ctxs : closed[d] => closed'[d]
            /\ closed' = [closed EXCEPT ![doneCh[x]] = TRUE]
            /\ UNCHANGED <<pc, sel, which>>
        BY <1>1, <2>2, ClosePlaces, ContextAssumption
      <3>2. QED
        BY <1>1, <2>2, <3>1, CloseJustified
    <2>3. QED
      BY <2>1, <2>2
  <1>3. CtxTypeOK'
    BY <1>1 DEF CtxTypeOK, TreeKept
  <1>4. WorkOK'
    <2>1. SUFFICES ASSUME NEW y \in Ctxs
                   PROVE  /\ work'[Propagator(y)] # "off" => kind[y] \in {"cancel", "deadline"}
                          /\ work'[Timer(y)] # "off" => kind[y] = "deadline"
                          /\ work'[Propagator(y)] = "select" =>
                                /\ pc[Propagator(y)] # "idle" =>
                                      sel[Propagator(y)] =
                                          <<Receive(doneCh[parent[y]]), Receive(doneCh[y])>>
                                /\ pc[Propagator(y)] = "idle" /\ which[Propagator(y)] = 1 =>
                                      closed'[doneCh[parent[y]]]
      BY <1>1, <1>2 DEF WorkOK, TreeKept, Receive
    <2>2. Propagator(y) \in Workers /\ Timer(y) \in Workers
      BY WorkerTypes
    <2>3. work'[Propagator(y)] # "off" => work[Propagator(y)] # "off"
      BY <1>1, <2>2 DEF CtxTypeOK
    <2>4. work'[Timer(y)] # "off" => work[Timer(y)] # "off"
      BY <1>1, <2>2 DEF CtxTypeOK
    <2>5. work'[Propagator(y)] = "select" => work[Propagator(y)] = "select"
      BY <1>1, <2>2 DEF CtxTypeOK
    <2>6. kind[y] \in {"cancel", "deadline"} => doneCh[parent[y]] \in Ctxs
      BY DEF TreeOK, CtxTypeOK
    <2>7. QED
      BY <1>2, <2>3, <2>4, <2>5, <2>6 DEF WorkOK
  <1>5. Flagged'
    BY <1>1 DEF Flagged, TreeKept
  <1>6. QED
    BY <1>2, <1>3, <1>4, <1>5 DEF TreeInv

(* The two cases that a worker selects over are channels.                     *)
LEMMA WorkerChannels ==
    ASSUME CtxInv, NEW x \in Ctxs
    PROVE  /\ doneCh[x] \in Ctxs
           /\ work[Propagator(x)] # "off" =>
                 /\ kind[x] \in {"cancel", "deadline"} /\ doneCh[x] = x
                 /\ parent[x] \in Ctxs /\ doneCh[parent[x]] \in Ctxs
                 /\ <<Receive(doneCh[parent[x]]), Receive(doneCh[x])>> \in Selects
           /\ work[Timer(x)] # "off" => kind[x] = "deadline" /\ doneCh[x] = x
           /\ <<Receive(doneCh[x])>> \in Selects
  <1>1. doneCh[x] \in Ctxs
    BY DEF CtxInv, CtxTypeOK
  <1>2. <<Receive(doneCh[x])>> \in Selects
    BY <1>1, ContextAssumption
  <1>3. ASSUME work[Propagator(x)] # "off"
        PROVE  /\ kind[x] \in {"cancel", "deadline"} /\ doneCh[x] = x
               /\ parent[x] \in Ctxs /\ doneCh[parent[x]] \in Ctxs
    BY <1>3 DEF CtxInv, WorkOK, TreeOK, CtxTypeOK
  <1>4. ASSUME work[Propagator(x)] # "off"
        PROVE  <<Receive(doneCh[parent[x]]), Receive(doneCh[x])>> \in Selects
    BY <1>1, <1>3, <1>4, ContextAssumption
  <1>5. work[Timer(x)] # "off" => kind[x] = "deadline" /\ doneCh[x] = x
    BY DEF CtxInv, WorkOK, TreeOK
  <1>6. QED
    BY <1>1, <1>2, <1>3, <1>4, <1>5

LEMMA PropagateSelectStep ==
    ASSUME CtxInv, NEW x \in Ctxs, PropagateSelect(x) PROVE TreeInv'
  <1>1. Propagator(x) \in Workers /\ \A y \in Ctxs : Propagator(x) = Propagator(y) => x = y
    BY WorkerTypes
  <1>2. <<Receive(doneCh[parent[x]]), Receive(doneCh[x])>> \in Selects
    BY WorkerChannels DEF PropagateSelect
  <1>3. QED
    BY <1>1, <1>2, SelectStarts DEF PropagateSelect

LEMMA TimerSelectStep ==
    ASSUME CtxInv, NEW x \in Ctxs, TimerSelect(x) PROVE TreeInv'
  <1>1. Timer(x) \in Workers /\ \A y \in Ctxs : Timer(x) # Propagator(y)
    BY WorkerTypes
  <1>2. <<Receive(doneCh[x])>> \in Selects
    BY WorkerChannels
  <1>3. QED
    BY <1>1, <1>2, SelectStarts DEF TimerSelect

(* The close that propagate passes on: the parent has a cause, and the child  *)
(* has it too.                                                               *)
LEMMA PropagateCaseStep ==
    ASSUME CtxInv, NEW x \in Ctxs, PropagateCase(x) PROVE TreeInv'
  <1> DEFINE w == Propagator(x)
  <1>1. /\ w \in Workers /\ work[w] = "select" /\ pc[w] = "idle" /\ Goto(w, "over")
        /\ IF which[w] = 1 THEN Close(w, doneCh[x]) ELSE UNCHANGED vars
    BY WorkerTypes DEF PropagateCase
  <1>2. kind[x] \in {"cancel", "deadline"} /\ doneCh[x] = x /\ parent[x] \in Ctxs
    BY <1>1, WorkerChannels
  <1>3. ASSUME which[w] = 1 PROVE HasCause(x)
    <2>1. closed[doneCh[parent[x]]]
      BY <1>1, <1>3 DEF CtxInv, WorkOK
    <2>2. PICK y \in Lineage(parent[x]), z \in Ctxs :
              doneCh[z] = doneCh[y] /\ (done[z] \/ Expired(z))
      BY <1>2, <2>1 DEF CtxInv, ClosedHasCause, HasCause
    <2>3. y \in Lineage(x)
      BY <1>2, <2>2, LineageParent, LineageTrans
    <2>4. QED
      BY <2>2, <2>3 DEF HasCause
  <1>4. UNCHANGED vars \/ (Close(w, doneCh[x]) /\ Justified(x) /\ kind[x] # "none")
    BY <1>1, <1>2, <1>3 DEF Justified
  <1>5. work[w] # "off" /\ "over" \in Points \ {"off", "select"}
    BY <1>1 DEF Points
  <1>6. QED
    BY <1>1, <1>4, <1>5, WorkerMoves

LEMMA TimerCaseStep ==
    ASSUME CtxInv, NEW x \in Ctxs, TimerCase(x) PROVE TreeInv'
  <1> DEFINE w == Timer(x)
             q == IF which[w] = 1 THEN "over" ELSE "check"
  <1>1. w \in Workers /\ work[w] # "off" /\ UNCHANGED vars /\ Goto(w, q)
    BY WorkerTypes DEF TimerCase
  <1>2. q \in Points \ {"off", "select"}
    BY DEF Points
  <1>3. QED
    BY <1>1, <1>2, WorkerMoves

LEMMA TimerCheckStep ==
    ASSUME CtxInv, NEW x \in Ctxs, TimerCheck(x) PROVE TreeInv'
  <1> DEFINE w == Timer(x)
  <1>1. /\ w \in Workers /\ work[w] = "check"
        /\ IF now >= deadline[x] THEN Close(w, doneCh[x]) /\ Goto(w, "over")
                                 ELSE UNCHANGED vars /\ Goto(w, "created")
    BY WorkerTypes DEF TimerCheck
  <1>2. kind[x] = "deadline"
    BY <1>1, WorkerChannels
  <1>3. now >= deadline[x] => Justified(x)
    BY <1>2 DEF Justified, Expired
  <1>4. \E q \in Points \ {"off", "select"} :
            /\ Goto(w, q)
            /\ UNCHANGED vars \/ (Close(w, doneCh[x]) /\ Justified(x) /\ kind[x] # "none")
    BY <1>1, <1>2, <1>3 DEF Points
  <1>5. QED
    BY <1>1, <1>4, WorkerMoves

(* Time passes, or nothing happens: no channel changes.                       *)
LEMMA TickStep ==
    ASSUME CtxInv, Tick \/ UNCHANGED allVars PROVE TreeInv'
  <1> USE DEF CtxInv
  <1>1. /\ TreeKept /\ UNCHANGED <<done, testing, cancelling, work>>
        /\ now' = now \/ now' = now + 1
        /\ UNCHANGED <<head, closed, pc, sel, idx, which>>
    BY DEF Tick, allVars, treeVars, ctxVars, TreeKept, vars, chanVars, selVars
  <1>2. now \in Nat /\ now' \in Nat /\ now' >= now /\ now' \in Int
    BY <1>1 DEF CtxTypeOK
  <1>3. CtxTypeOK'
    BY <1>1, <1>2 DEF CtxTypeOK, TreeKept
  <1>4. OnlyCloses'
    BY <1>1 DEF OnlyCloses, TheCase
  <1>5. TreeOK' /\ ClosedHasCause'
    BY <1>1, <1>2, NothingCloses
  <1>6. WorkOK'
    BY <1>1, WorkKept
  <1>7. Flagged'
    BY <1>1 DEF Flagged, TreeKept
  <1>8. QED
    BY <1>3, <1>4, <1>5, <1>6, <1>7 DEF TreeInv

-----------------------------------------------------------------------------
(* Every step of the tree is a step of the channel runtime, or none of it.    *)

LEMMA CloseIsCall ==
    ASSUME NEW t \in Threads, NEW c \in Chans, Close(t, c) PROVE Next
  BY DEF Call, Next

LEMMA SelectIsCall ==
    ASSUME NEW t \in Threads, NEW cs \in Selects, SelectStart(t, cs) PROVE Next
  <1>1. \A i \in DOMAIN cs : cs[i].send => MaySend(cs[i].ch)
    BY OnlyReceives
  <1>2. QED
    BY <1>1 DEF Call, Next

LEMMA RuntimeStep ==
    ASSUME CtxInv, [CtxNext]_allVars PROVE [Next]_vars
  <1>1. CASE Construct
    BY <1>1 DEF Construct, WithCancel, WithValue, WithDeadline, NewChild
  <1>2. ASSUME NEW u \in Users, CancelFlag(u) \/ \E x \in Ctxs : CancelTest(u, x)
        PROVE  UNCHANGED vars
    BY <1>2 DEF CancelFlag, CancelTest
  <1>3. ASSUME NEW u \in Users, CancelClose(u) PROVE Next
    <2>1. u \in Threads /\ doneCh[cancelling[u]] \in Chans
      BY <1>3, ContextAssumption DEF CancelClose, CtxInv, CtxTypeOK
    <2>2. QED
      BY <1>3, <2>1, CloseIsCall DEF CancelClose
  <1>4. ASSUME NEW x \in Ctxs, Work(x) PROVE [Next]_vars
    <2>1. Propagator(x) \in Threads /\ Timer(x) \in Threads /\ doneCh[x] \in Chans
      BY WorkerTypes, WorkerChannels, ContextAssumption
    <2>2. CASE PropagateSelect(x)
      BY <2>1, <2>2, WorkerChannels, SelectIsCall DEF PropagateSelect
    <2>3. CASE TimerSelect(x)
      BY <2>1, <2>3, WorkerChannels, SelectIsCall DEF TimerSelect
    <2>4. CASE InSelect(Propagator(x)) \/ InSelect(Timer(x))
      BY <2>1, <2>4 DEF InSelect, Next
    <2>5. CASE PropagateCase(x)
      BY <2>1, <2>5, CloseIsCall DEF PropagateCase
    <2>6. CASE TimerCase(x)
      BY <2>6 DEF TimerCase
    <2>7. CASE TimerCheck(x)
      BY <2>1, <2>7, CloseIsCall DEF TimerCheck
    <2>8. QED
      BY <1>4, <2>2, <2>3, <2>4, <2>5, <2>6, <2>7 DEF Work
  <1>5. CASE Tick \/ UNCHANGED allVars
    BY <1>5 DEF Tick, allVars
  <1>6. QED
    BY <1>1, <1>2, <1>3, <1>4, <1>5 DEF CtxNext

LEMMA TreeStep ==
    ASSUME CtxInv, [CtxNext]_allVars PROVE TreeInv'
  <1>1. ASSUME NEW x \in Ctxs, Work(x) PROVE TreeInv'
    <2>1. CASE InSelect(Propagator(x)) \/ InSelect(Timer(x))
      BY <2>1, InSelectStep, WorkerTypes
    <2>2. QED
      BY <1>1, <2>1, PropagateSelectStep, PropagateCaseStep, TimerSelectStep, TimerCaseStep,
         TimerCheckStep DEF Work
  <1>2. QED
    BY <1>1, ConstructStep, CancelTestStep, CancelFlagStep, CancelCloseStep, TickStep DEF CtxNext

LEMMA CtxInvStep == CtxInv /\ [CtxNext]_allVars => CtxInv'
  <1> SUFFICES ASSUME CtxInv, [CtxNext]_allVars PROVE CtxInv'
    OBVIOUS
  <1>1. TypeOK' /\ PlaceOK' /\ ListOK'
    BY RuntimeStep, TypeStep, PlaceStep, ChainStep DEF CtxInv
  <1>2. TreeInv'
    BY TreeStep
  <1>3. QED
    BY <1>1, <1>2 DEF CtxInv, TreeInv

LEMMA CtxInvariance == CtxSpec => []CtxInv
  BY CtxInvInit, CtxInvStep, PTL DEF CtxSpec

(* A tree of contexts is a program over the channel runtime: what is proved   *)
(* above of any program (no lost wakeup, nothing accepted after a close)      *)
(* holds of every tree.                                                       *)
THEOREM TreeUsesRuntime == CtxSpec => Spec
  <1>1. CtxInit => Init
    BY DEF CtxInit
  <1>2. CtxInv /\ [CtxNext]_allVars => [Next]_vars
    BY RuntimeStep
  <1>3. QED
    BY <1>1, <1>2, CtxInvariance, PTL DEF CtxSpec, Spec

(* Cancellation flows down only, in a tree of any depth and any kinds of      *)
(* context: no channel is closed unless a context that uses it, or the        *)
(* channel of an ancestor, was cancelled or expired.                          *)
THEOREM ContextCorrect == CtxSpec => []ClosedHasCause
  BY CtxInvariance, PTL DEF CtxInv

===============================================================================
