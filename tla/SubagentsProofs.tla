-------------------------- MODULE SubagentsProofs --------------------------
(***************************************************************************)
(* What deferral may do to the events it keeps, for every limit: whatever  *)
(* is displaced, evicted or refused, the queues that are left are          *)
(* subsequences of what came, so the order of the events of a thread       *)
(* stands.  Then retention, ancestry, the truth about turns and the        *)
(* watching of interrupts in Subagents, for every set of agents and every  *)
(* limit, from one inductive invariant.  The registry (`kept`) is sound by *)
(* itself, see IsSound; that a turn whose truth was shown does not become  *)
(* active again needs the order of the events that are still to be         *)
(* handled, see Lines and SeenInv.  An argument by induction over a number *)
(* goes through a set of numbers, see SetInduction of FiniteSums.          *)
(***************************************************************************)
EXTENDS Subagents, FiniteSums

-----------------------------------------------------------------------------
(* Sequences that lose some of their elements *)

\* s is what is left of q: its elements come from q, in the order of q.
Within(s, q) ==
    \E f \in [DOMAIN s -> DOMAIN q] :
        /\ \A i \in DOMAIN s : s[i] = q[f[i]]
        /\ \A i, j \in DOMAIN s : i < j => f[i] < f[j]

\* What is left is all or less of it.
LEMMA WithinItself ==
    ASSUME NEW S, NEW q \in Seq(S)
    PROVE  Within(q, q)
<1> DEFINE f == [i \in DOMAIN q |-> i]
<1>1. f \in [DOMAIN q -> DOMAIN q]
    OBVIOUS
<1>2. /\ \A i \in DOMAIN q : q[i] = q[f[i]]
      /\ \A i, j \in DOMAIN q : i < j => f[i] < f[j]
    OBVIOUS
<1> HIDE DEF f
<1> QED
    BY <1>1, <1>2 DEF Within

\* What is left of what is left of a queue is left of it.
LEMMA WithinWithin ==
    ASSUME NEW S, NEW q \in Seq(S), NEW r \in Seq(S), NEW s \in Seq(S), Within(s, r), Within(r, q)
    PROVE  Within(s, q)
<1>1. PICK f \in [DOMAIN s -> DOMAIN r] :
          /\ \A i \in DOMAIN s : s[i] = r[f[i]]
          /\ \A i, j \in DOMAIN s : i < j => f[i] < f[j]
    BY DEF Within
<1>2. PICK g \in [DOMAIN r -> DOMAIN q] :
          /\ \A i \in DOMAIN r : r[i] = q[g[i]]
          /\ \A i, j \in DOMAIN r : i < j => g[i] < g[j]
    BY DEF Within
<1> DEFINE h == [i \in DOMAIN s |-> g[f[i]]]
<1>3. h \in [DOMAIN s -> DOMAIN q]
    BY <1>1, <1>2
<1>4. \A i \in DOMAIN s : s[i] = q[h[i]]
    BY <1>1, <1>2
<1>5. \A i, j \in DOMAIN s : i < j => h[i] < h[j]
    BY <1>1, <1>2
<1> HIDE DEF h
<1> QED
    BY <1>3, <1>4, <1>5 DEF Within

\* Nothing is within anything.
LEMMA NothingWithin ==
    ASSUME NEW S, NEW q \in Seq(S)
    PROVE  Within(<<>>, q)
<1> DEFINE f == [i \in {} |-> 1]
<1> DEFINE e == <<>>
<1>1. DOMAIN e = {}
    OBVIOUS
<1> HIDE DEF e
<1>2. f \in [DOMAIN e -> DOMAIN q]
    BY <1>1
<1> HIDE DEF f
<1>3. Within(e, q)
    BY <1>1, <1>2 DEF Within
<1> QED
    BY <1>3 DEF e

\* An element is taken out.
LEMMA RemovedWithin ==
    ASSUME NEW S, NEW q \in Seq(S), NEW n \in DOMAIN q
    PROVE  /\ RemoveAt(q, n) \in Seq(S)
           /\ Len(RemoveAt(q, n)) = Len(q) - 1
           /\ \A i \in DOMAIN RemoveAt(q, n) :
                 RemoveAt(q, n)[i] = IF i < n THEN q[i] ELSE q[i + 1]
           /\ Within(RemoveAt(q, n), q)
<1> DEFINE l == SubSeq(q, 1, n - 1)
           r == SubSeq(q, n + 1, Len(q))
           s == RemoveAt(q, n)
           f == [i \in DOMAIN s |-> IF i < n THEN i ELSE i + 1]
<1>1. l \in Seq(S) /\ Len(l) = n - 1 /\ \A i \in 1 .. n - 1 : l[i] = q[i]
    OBVIOUS
<1>2. r \in Seq(S) /\ Len(r) = Len(q) - n /\ \A i \in 1 .. Len(q) - n : r[i] = q[n + i]
    OBVIOUS
<1>3. s = l \o r
    BY DEF RemoveAt
<1> HIDE DEF l, r
<1>4. s \in Seq(S) /\ Len(s) = Len(q) - 1
    BY <1>1, <1>2, <1>3
<1>5. ASSUME NEW i \in DOMAIN s
      PROVE  s[i] = IF i < n THEN q[i] ELSE q[i + 1]
    <2>1. CASE i < n
        BY <2>1, <1>1, <1>2, <1>3, <1>4
    <2>2. CASE ~(i < n)
        <3>1. s[i] = r[i - Len(l)]
            BY <2>2, <1>1, <1>2, <1>3, <1>4
        <3> DEFINE k == i - n + 1
        <3>2. k \in 1 .. Len(q) - n /\ i - Len(l) = k /\ n + k = i + 1
            BY <2>2, <1>1, <1>4
        <3>3. r[k] = q[n + k]
            BY <3>2, <1>2
        <3> QED
            BY <3>1, <3>2, <3>3, <2>2
    <2> QED
        BY <2>1, <2>2
<1> HIDE DEF s
<1>6. f \in [DOMAIN s -> DOMAIN q]
    BY <1>4
<1>7. \A i \in DOMAIN s : s[i] = q[f[i]]
    BY <1>5
<1>8. \A i, j \in DOMAIN s : i < j => f[i] < f[j]
    BY <1>4
<1> HIDE DEF f
<1>9. Within(s, q)
    BY <1>6, <1>7, <1>8 DEF Within
<1> QED
    BY <1>4, <1>5, <1>9 DEF s

\* The first element is taken out.
LEMMA TailWithin ==
    ASSUME NEW S, NEW q \in Seq(S), q # <<>>
    PROVE  Tail(q) \in Seq(S) /\ Within(Tail(q), q)
<1> DEFINE f == [i \in DOMAIN Tail(q) |-> i + 1]
<1>1. f \in [DOMAIN Tail(q) -> DOMAIN q]
    OBVIOUS
<1>2. /\ \A i \in DOMAIN Tail(q) : Tail(q)[i] = q[f[i]]
      /\ \A i, j \in DOMAIN Tail(q) : i < j => f[i] < f[j]
    OBVIOUS
<1> HIDE DEF f
<1> QED
    BY <1>1, <1>2 DEF Within

\* An element is added to what is left, or to the whole only.
LEMMA AppendWithin ==
    ASSUME NEW S, NEW q \in Seq(S), NEW s \in Seq(S), NEW e \in S, Within(s, q)
    PROVE  Within(s, Append(q, e)) /\ Within(Append(s, e), Append(q, e))
<1>1. PICK f \in [DOMAIN s -> DOMAIN q] :
          /\ \A i \in DOMAIN s : s[i] = q[f[i]]
          /\ \A i, j \in DOMAIN s : i < j => f[i] < f[j]
    BY DEF Within
<1> DEFINE p == Append(q, e)
           t == Append(s, e)
           g == [i \in DOMAIN t |-> IF i = Len(t) THEN Len(p) ELSE f[i]]
<1>2. /\ DOMAIN p = 1 .. Len(q) + 1 /\ p[Len(q) + 1] = e /\ \A i \in DOMAIN q : p[i] = q[i]
      /\ DOMAIN t = 1 .. Len(s) + 1 /\ t[Len(s) + 1] = e /\ \A i \in DOMAIN s : t[i] = s[i]
      /\ Len(p) = Len(q) + 1 /\ Len(t) = Len(s) + 1
      /\ DOMAIN q = 1 .. Len(q) /\ DOMAIN s = 1 .. Len(s)
    OBVIOUS
<1> HIDE DEF p, t
<1>3. f \in [DOMAIN s -> DOMAIN p] /\ \A i \in DOMAIN s : s[i] = p[f[i]]
    BY <1>1, <1>2
<1>4. Within(s, p)
    BY <1>1, <1>3 DEF Within
<1>5. g \in [DOMAIN t -> DOMAIN p]
    BY <1>1, <1>2
<1>6. \A i \in DOMAIN t : t[i] = p[g[i]]
    BY <1>1, <1>2
<1>7. \A i, j \in DOMAIN t : i < j => g[i] < g[j]
    BY <1>1, <1>2
<1> HIDE DEF g
<1>8. Within(t, p)
    BY <1>5, <1>6, <1>7 DEF Within
<1> QED
    BY <1>4, <1>8 DEF p, t

-----------------------------------------------------------------------------
(* What deferral leaves of the queues *)

\* A full queue gives up one event.
LEMMA DisplaceWithin ==
    ASSUME NEW S, NEW q \in Seq(S), NEW e
    PROVE  Displace(q, e) \in Seq(S) /\ Within(Displace(q, e), q)
<1>1. CASE Diagnostics(q) # {}
    <2> DEFINE n == Min(Diagnostics(q))
    <2>1. Diagnostics(q) \subseteq Nat /\ Diagnostics(q) \subseteq DOMAIN q
        BY DEF Diagnostics
    <2>2. n \in DOMAIN q
        BY <1>1, <2>1, MinIsMember
    <2> HIDE DEF n
    <2>3. RemoveAt(q, n) \in Seq(S) /\ Within(RemoveAt(q, n), q)
        BY <2>2, RemovedWithin
    <2>4. Displace(q, e) = RemoveAt(q, n)
        BY <1>1 DEF Displace, n
    <2> QED
        BY <2>3, <2>4
<1>2. CASE Diagnostics(q) = {} /\ e.terminal /\ q # <<>>
    BY <1>2, TailWithin DEF Displace
<1>3. CASE Diagnostics(q) = {} /\ ~(e.terminal /\ q # <<>>)
    BY <1>3, WithinItself DEF Displace
<1> QED
    BY <1>1, <1>2, <1>3

\* The recursive function in Enqueue.
IsDisplaced(f, q, e) ==
    f = [n \in 0 .. Len(q) |->
            IF n = 0 THEN q
            ELSE LET left == f[n - 1]
                 IN  IF Saturated(left, e) THEN Displace(left, e) ELSE left]

\* It exists: there is one up to every number.
LEMMA DisplacedExists ==
    ASSUME NEW S, NEW q \in Seq(S), NEW e
    PROVE  \E f : IsDisplaced(f, q, e)
<1> DEFINE Next1(x) == IF Saturated(x, e) THEN Displace(x, e) ELSE x
           Good(m) == \E f : f = [n \in 0 .. m |-> IF n = 0 THEN q ELSE Next1(f[n - 1])]
           G == {m \in Nat : Good(m)}
<1> HIDE DEF Next1
<1>1. 0 \in G
    <2> DEFINE f == [n \in 0 .. 0 |-> q]
    <2>1. f = [n \in 0 .. 0 |-> IF n = 0 THEN q ELSE Next1(f[n - 1])]
        OBVIOUS
    <2> HIDE DEF f
    <2> QED
        BY <2>1
<1>2. ASSUME NEW m \in Nat, m \in G
      PROVE  m + 1 \in G
    <2>1. PICK f : f = [n \in 0 .. m |-> IF n = 0 THEN q ELSE Next1(f[n - 1])]
        BY <1>2
    <2> DEFINE g == [n \in 0 .. m + 1 |-> IF n = 0 THEN q ELSE Next1(f[n - 1])]
    <2>2. ASSUME NEW n \in 0 .. m
          PROVE  g[n] = f[n]
        BY <2>1
    <2>3. ASSUME NEW n \in 0 .. m + 1, n # 0
          PROVE  g[n - 1] = f[n - 1]
        <3>1. n - 1 \in 0 .. m
            BY <2>3
        <3> QED
            BY <3>1, <2>2
    <2>4. g = [n \in 0 .. m + 1 |-> IF n = 0 THEN q ELSE Next1(g[n - 1])]
        BY <2>3
    <2> HIDE DEF g
    <2> QED
        BY <2>4
<1>3. Nat \subseteq G
    <2> HIDE DEF G
    <2> QED
        BY <1>1, <1>2, SetInduction
<1>4. Len(q) \in G
    BY <1>3
<1> QED
    BY <1>4 DEF IsDisplaced, Next1

\* An event enters a queue, which may lose others for it.
LEMMA EnqueueWithin ==
    ASSUME NEW S, NEW q \in Seq(S), NEW e \in S
    PROVE  Enqueue(q, e).queue \in Seq(S) /\ Within(Enqueue(q, e).queue, Append(q, e))
<1> DEFINE F == CHOOSE f : IsDisplaced(f, q, e)
<1>1. IsDisplaced(F, q, e)
    BY DisplacedExists
<1>2. Enqueue(q, e) =
          IF e.size > MaxBytesPerThread THEN [queue |-> q, inserted |-> FALSE]
          ELSE IF Saturated(F[Len(q)], e) THEN [queue |-> F[Len(q)], inserted |-> FALSE]
          ELSE [queue |-> Append(F[Len(q)], e), inserted |-> TRUE]
    BY DEF Enqueue, IsDisplaced
<1> HIDE DEF F
<1> DEFINE Good(s) == s \in Seq(S) /\ Within(s, q)
           G == {n \in Nat : n <= Len(q) => Good(F[n])}
<1>3. 0 \in G
    BY <1>1, WithinItself DEF IsDisplaced
<1>4. ASSUME NEW n \in Nat, n \in G
      PROVE  n + 1 \in G
    <2> SUFFICES ASSUME n + 1 <= Len(q) PROVE Good(F[n + 1])
        OBVIOUS
    <2>1. Good(F[n])
        BY <1>4
    <2>2. F[n + 1] = IF Saturated(F[n], e) THEN Displace(F[n], e) ELSE F[n]
        BY <1>1 DEF IsDisplaced
    <2>3. Displace(F[n], e) \in Seq(S) /\ Within(Displace(F[n], e), F[n])
        BY <2>1, DisplaceWithin
    <2>4. Within(Displace(F[n], e), q)
        BY <2>1, <2>3, WithinWithin
    <2> QED
        BY <2>1, <2>2, <2>3, <2>4
<1>5. Nat \subseteq G
    <2> HIDE DEF G
    <2> QED
        BY <1>3, <1>4, SetInduction
<1>6. Good(F[Len(q)])
    BY <1>5
<1> DEFINE left == F[Len(q)]
<1>7. left \in Seq(S) /\ Within(left, q)
    BY <1>6
<1> HIDE DEF left, G
<1>8. Within(left, Append(q, e)) /\ Within(Append(left, e), Append(q, e))
    BY <1>7, AppendWithin
<1>9. Within(q, Append(q, e))
    BY WithinItself, AppendWithin
<1>10. Enqueue(q, e).queue \in {q, left, Append(left, e)}
    BY <1>2 DEF left
<1>11. Append(left, e) \in Seq(S)
    BY <1>7
<1> DEFINE r == Enqueue(q, e).queue
<1>12. r = q \/ r = left \/ r = Append(left, e)
    BY <1>10
<1> HIDE DEF r
<1>13. r \in Seq(S) /\ Within(r, Append(q, e))
    BY <1>7, <1>8, <1>9, <1>11, <1>12
<1> QED
    BY <1>13 DEF r

-----------------------------------------------------------------------------
(* The table *)

\* A table of queues of elements of S.
IsTable(T, S) == T = [t \in DOMAIN T |-> T[t]] /\ \A t \in DOMAIN T : T[t] \in Seq(S)
\* What is left of a table.
Thins(T, U) == DOMAIN T \subseteq DOMAIN U /\ \A t \in DOMAIN T : Within(T[t], U[t])

\* So is a whole table left of itself,
LEMMA ThinsItself ==
    ASSUME NEW S, NEW T, IsTable(T, S)
    PROVE  Thins(T, T)
BY WithinItself DEF IsTable, Thins

\* and what is left of what is left of a table is left of it.
LEMMA ThinsThins ==
    ASSUME NEW S, NEW T, NEW U, NEW V, IsTable(T, S), IsTable(U, S), IsTable(V, S),
           Thins(T, U), Thins(U, V)
    PROVE  Thins(T, V)
<1>1. ASSUME NEW t \in DOMAIN T
      PROVE  Within(T[t], V[t])
    <2>1. /\ t \in DOMAIN U /\ t \in DOMAIN V
          /\ Within(T[t], U[t]) /\ Within(U[t], V[t])
          /\ T[t] \in Seq(S) /\ U[t] \in Seq(S) /\ V[t] \in Seq(S)
        BY <1>1 DEF Thins, IsTable
    <2> QED
        BY <2>1, WithinWithin
<1> QED
    BY <1>1 DEF Thins

\* Some queue is dropped.
LEMMA DropThins ==
    ASSUME NEW S, NEW T, IsTable(T, S), NEW t
    PROVE  IsTable(Drop(T, t), S) /\ Thins(Drop(T, t), T)
BY WithinItself DEF IsTable, Thins, Drop

\* The first of some threads is one of them: all are in the order.
LEMMA FirstIsMember ==
    ASSUME NEW D, IsFiniteSet(D), NEW first \in SetToSeqs(D), NEW L \in SUBSET D, L # {}
    PROVE  FirstOf(first, L) \in L
<1> DEFINE n == Cardinality(D)
<1>1. n \in Nat /\ IsFiniteSet(1 .. n) /\ Cardinality(1 .. n) = n
    BY FS_CardinalityType, FS_Interval
<1>2. first \in [1 .. n -> D] /\ \A i, j \in 1 .. n : i # j => first[i] # first[j]
    BY DEF SetToSeqs
<1>3. first \in Injection(1 .. n, D)
    BY <1>2, Zenon DEF Injection, IsInjective
<1>4. first \in Surjection(1 .. n, D)
    BY <1>1, <1>3, FS_Injection
<1>5. PICK i \in 1 .. n : first[i] \in L
    BY <1>4 DEF Surjection
<1>6. Len(first) = n
    BY <1>1, <1>2
<1> DEFINE I == {j \in 1 .. Len(first) : first[j] \in L}
<1>7. I # {} /\ I \subseteq Nat
    BY <1>5, <1>6
<1>8. Min(I) \in I
    BY <1>7, MinIsMember
<1>9. SelectInSeq(first, LAMBDA t : t \in L) = Min(I)
    BY <1>7 DEF SelectInSeq
<1> QED
    BY <1>8, <1>9 DEF FirstOf

\* One diagnostic of a thread goes, and the thread's queue if it was the last.
LEMMA DiagnosticThins ==
    ASSUME NEW S, NEW T, IsTable(T, S), NEW t \in DOMAIN T, Diagnostics(T[t]) # {}
    PROVE  IsTable(EvictDiagnostic(T, t), S) /\ Thins(EvictDiagnostic(T, t), T)
<1> DEFINE n == Min(Diagnostics(T[t]))
           r == RemoveAt(T[t], n)
<1>1. T[t] \in Seq(S)
    BY DEF IsTable
<1>2. n \in DOMAIN T[t]
    <2>1. Diagnostics(T[t]) \subseteq Nat /\ Diagnostics(T[t]) \subseteq DOMAIN T[t]
        BY <1>1 DEF Diagnostics
    <2> QED
        BY <2>1, MinIsMember
<1> HIDE DEF n
<1>3. r \in Seq(S) /\ Within(r, T[t])
    BY <1>1, <1>2, RemovedWithin
<1>4. EvictDiagnostic(T, t) = IF r = <<>> THEN Drop(T, t) ELSE [T EXCEPT ![t] = r]
    BY DEF EvictDiagnostic, n
<1> HIDE DEF r
<1>5. IsTable([T EXCEPT ![t] = r], S) /\ Thins([T EXCEPT ![t] = r], T)
    <2> DEFINE U == [T EXCEPT ![t] = r]
    <2>1. U = [u \in DOMAIN T |-> IF u = t THEN r ELSE T[u]]
        BY DEF IsTable
    <2>2. DOMAIN U = DOMAIN T /\ \A u \in DOMAIN T : U[u] = IF u = t THEN r ELSE T[u]
        BY <2>1
    <2> HIDE DEF U
    <2>3. U = [u \in DOMAIN U |-> U[u]]
        BY <2>1
    <2>4. \A u \in DOMAIN T : Within(T[u], T[u])
        BY WithinItself DEF IsTable
    <2>5. IsTable(U, S) /\ Thins(U, T)
        BY <1>3, <2>2, <2>3, <2>4 DEF IsTable, Thins
    <2> QED
        BY <2>5 DEF U
<1>6. IsTable(Drop(T, t), S) /\ Thins(Drop(T, t), T)
    BY DropThins
<1> QED
    BY <1>4, <1>5, <1>6

\* Over the total limit, something goes.
LEMMA ShrinkThins ==
    ASSUME NEW S, NEW T, IsTable(T, S), NEW D, IsFiniteSet(D), DOMAIN T \subseteq D,
           NEW first \in SetToSeqs(D)
    PROVE  IsTable(Shrink(T, first), S) /\ Thins(Shrink(T, first), T)
<1> DEFINE loose == {t \in DOMAIN T : Diagnostics(T[t]) # {}}
<1>1. CASE loose # {}
    <2> DEFINE u == FirstOf(first, loose)
    <2>1. loose \in SUBSET D
        OBVIOUS
    <2> HIDE DEF loose
    <2>2. u \in loose
        BY <1>1, <2>1, FirstIsMember
    <2>3. Shrink(T, first) = EvictDiagnostic(T, u)
        BY <1>1 DEF Shrink, loose
    <2> HIDE DEF u
    <2> QED
        BY <2>2, <2>3, DiagnosticThins DEF loose
<1>2. CASE loose = {}
    <2>1. Shrink(T, first) = Drop(T, FirstOf(first, DOMAIN T))
        BY <1>2 DEF Shrink
    <2> QED
        BY <2>1, DropThins
<1> QED
    BY <1>1, <1>2

\* The recursive function in WithinTotal.
IsShrunk(f, N, T, first) ==
    f = [n \in 0 .. N |->
            IF n = 0 THEN T
            ELSE LET left == f[n - 1]
                 IN  IF TotalBytes(left) > MaxBytesTotal THEN Shrink(left, first) ELSE left]

\* It exists up to every number.
LEMMA ShrunkExists ==
    ASSUME NEW N \in Nat, NEW T, NEW first
    PROVE  \E f : IsShrunk(f, N, T, first)
<1> DEFINE Next1(x) == IF TotalBytes(x) > MaxBytesTotal THEN Shrink(x, first) ELSE x
           Good(m) == \E f : f = [n \in 0 .. m |-> IF n = 0 THEN T ELSE Next1(f[n - 1])]
           G == {m \in Nat : Good(m)}
<1> HIDE DEF Next1
<1>1. 0 \in G
    <2> DEFINE f == [n \in 0 .. 0 |-> T]
    <2>1. f = [n \in 0 .. 0 |-> IF n = 0 THEN T ELSE Next1(f[n - 1])]
        OBVIOUS
    <2> HIDE DEF f
    <2> QED
        BY <2>1
<1>2. ASSUME NEW m \in Nat, m \in G
      PROVE  m + 1 \in G
    <2>1. PICK f : f = [n \in 0 .. m |-> IF n = 0 THEN T ELSE Next1(f[n - 1])]
        BY <1>2
    <2> DEFINE g == [n \in 0 .. m + 1 |-> IF n = 0 THEN T ELSE Next1(f[n - 1])]
    <2>2. ASSUME NEW n \in 0 .. m
          PROVE  g[n] = f[n]
        BY <2>1
    <2>3. ASSUME NEW n \in 0 .. m + 1, n # 0
          PROVE  g[n - 1] = f[n - 1]
        <3>1. n - 1 \in 0 .. m
            BY <2>3
        <3> QED
            BY <3>1, <2>2
    <2>4. g = [n \in 0 .. m + 1 |-> IF n = 0 THEN T ELSE Next1(g[n - 1])]
        BY <2>3
    <2> HIDE DEF g
    <2> QED
        BY <2>4
<1>3. Nat \subseteq G
    <2> HIDE DEF G
    <2> QED
        BY <1>1, <1>2, SetInduction
<1>4. N \in G
    BY <1>3
<1> QED
    BY <1>4 DEF IsShrunk, Next1
-----------------------------------------------------------------------------
(* Sums over finite sets *)

\* A table has a number of events.
LEMMA EventCountIsNumber ==
    ASSUME NEW S, NEW T, IsTable(T, S), IsFiniteSet(DOMAIN T)
    PROVE  EventCount(T) \in Nat
<1> DEFINE D == DOMAIN T
           w == [t \in D |-> Len(T[t]) + 1]
           IsIt(f) == f = [s \in SUBSET D |->
                              IF s = {} THEN 0
                              ELSE LET x == CHOOSE x \in s : TRUE
                                   IN  (Len(T[x]) + 1) + f[s \ {x}]]
           F == CHOOSE f : IsIt(f)
<1>1. w \in [D -> Nat]
    BY DEF IsTable
<1>2. ASSUME NEW f, IsSumOn(f, SUBSET D, w)
      PROVE  IsIt(f)
    <2>1. ASSUME NEW s \in SUBSET D, s # {}
          PROVE  w[Some(s)] = Len(T[Some(s)]) + 1
        BY <2>1 DEF Some
    <2> QED
        BY <1>2, <2>1 DEF IsSumOn, Some
<1>3. ASSUME NEW f, IsIt(f)
      PROVE  IsSumOn(f, SUBSET D, w)
    <2>1. ASSUME NEW s \in SUBSET D, s # {}
          PROVE  w[Some(s)] = Len(T[Some(s)]) + 1
        BY <2>1 DEF Some
    <2> QED
        BY <1>3, <2>1 DEF IsSumOn, Some
<1>4. \E f : IsIt(f)
    <2>1. PICK f : IsSumOn(f, SUBSET D, w)
        BY SumExists
    <2>2. IsIt(f)
        BY <2>1, <1>2
    <2> HIDE DEF IsIt
    <2> QED
        BY <2>2
<1>5. IsIt(F)
    <2> HIDE DEF IsIt
    <2> QED
        BY <1>4
<1>6. EventCount(T) = F[D]
    BY DEF EventCount, MapThenSumSet, MapThenFoldSet
<1> HIDE DEF F, IsIt
<1>7. \A s \in SUBSET D : F[s] \in Nat
    <2> HIDE DEF D, w
    <2> QED
        BY <1>1, <1>3, <1>5, SumIsNumber DEF D
<1> QED
    BY <1>6, <1>7

\* Within the total limit, the table is what is left of it.
LEMMA WithinTotalThins ==
    ASSUME NEW S, NEW T, IsTable(T, S), NEW D, IsFiniteSet(D), DOMAIN T \subseteq D,
           NEW first \in SetToSeqs(D)
    PROVE  IsTable(WithinTotal(T, first), S) /\ Thins(WithinTotal(T, first), T)
<1> DEFINE N == EventCount(T)
           F == CHOOSE f : IsShrunk(f, N, T, first)
<1>1. N \in Nat
    BY FS_Subset, EventCountIsNumber
<1> HIDE DEF N
<1>2. IsShrunk(F, N, T, first)
    BY <1>1, ShrunkExists
<1>3. WithinTotal(T, first) = F[N]
    BY DEF WithinTotal, IsShrunk, N
<1> HIDE DEF F
<1> DEFINE Good(U) == IsTable(U, S) /\ Thins(U, T)
           G == {n \in Nat : n <= N => Good(F[n])}
<1>4. 0 \in G
    BY <1>1, <1>2, ThinsItself DEF IsShrunk
<1>5. ASSUME NEW n \in Nat, n \in G
      PROVE  n + 1 \in G
    <2> SUFFICES ASSUME n + 1 <= N PROVE Good(F[n + 1])
        OBVIOUS
    <2>1. Good(F[n])
        BY <1>1, <1>5
    <2>2. F[n + 1] = IF TotalBytes(F[n]) > MaxBytesTotal THEN Shrink(F[n], first) ELSE F[n]
        BY <1>1, <1>2 DEF IsShrunk
    <2>3. IsTable(Shrink(F[n], first), S) /\ Thins(Shrink(F[n], first), F[n])
        <3>1. DOMAIN F[n] \subseteq D
            BY <2>1 DEF Thins
        <3> QED
            BY <2>1, <3>1, ShrinkThins
    <2>4. Thins(Shrink(F[n], first), T)
        BY <2>1, <2>3, ThinsThins
    <2> QED
        BY <2>1, <2>2, <2>3, <2>4
<1>6. Nat \subseteq G
    <2> HIDE DEF G
    <2> QED
        BY <1>4, <1>5, SetInduction
<1>7. Good(F[N])
    BY <1>1, <1>6
<1> QED
    BY <1>3, <1>7

\* What a queue may be once e was deferred for t: what is left of it and, for t, of e.
Deferred(T, t, e, u) == IF u = t THEN Append(QueueOf(T, t), e) ELSE T[u]

\* Deferring an event: no queue gains anything else, whatever the limits displace.
THEOREM DeferThins ==
    ASSUME NEW S, NEW T, IsTable(T, S), NEW t, NEW e \in S,
           IsFiniteSet(DOMAIN T), NEW first \in SetToSeqs(DOMAIN T \cup {t})
    PROVE  LET U == Defer(T, t, e, first).table
           IN  /\ IsTable(U, S)
               /\ DOMAIN U \subseteq DOMAIN T \cup {t}
               /\ \A u \in DOMAIN U : Within(U[u], Deferred(T, t, e, u))
<1> DEFINE crowded == t \notin DOMAIN T /\ Cardinality(DOMAIN T) >= MaxDeferredThreads
           A == IF crowded /\ e.terminal THEN EvictThread(T, first) ELSE T
           q == IF t \in DOMAIN A THEN A[t] ELSE <<>>
           r == Enqueue(q, e).queue
           filled == [u \in DOMAIN A \cup {t} |-> IF u = t THEN r ELSE A[u]]
           K == WithinTotal(filled, first)
           D == DOMAIN T \cup {t}
           U == Defer(T, t, e, first).table
<1>1. IsFiniteSet(D)
    BY FS_AddElement
<1>2. U = IF crowded /\ ~e.terminal THEN T ELSE K
    BY DEF Defer
<1>3. IsTable(A, S) /\ Thins(A, T)
    <2>1. IsTable(EvictThread(T, first), S) /\ Thins(EvictThread(T, first), T)
        BY DropThins DEF EvictThread
    <2>2. IsTable(T, S) /\ Thins(T, T)
        BY ThinsItself
    <2> QED
        BY <2>1, <2>2
<1> HIDE DEF A, crowded
<1>4. q \in Seq(S) /\ QueueOf(T, t) \in Seq(S) /\ Within(q, QueueOf(T, t))
    <2>1. QueueOf(T, t) \in Seq(S)
        BY DEF QueueOf, IsTable
    <2>2. Within(<<>>, QueueOf(T, t))
        BY <2>1, NothingWithin
    <2>3. ASSUME t \in DOMAIN A
          PROVE  A[t] \in Seq(S) /\ Within(A[t], QueueOf(T, t))
        BY <2>3, <1>3 DEF IsTable, Thins, QueueOf
    <2> QED
        BY <2>1, <2>2, <2>3
<1> HIDE DEF q
<1>5. r \in Seq(S) /\ Within(r, Append(q, e))
    BY <1>4, EnqueueWithin
<1>6. Append(q, e) \in Seq(S) /\ Append(QueueOf(T, t), e) \in Seq(S)
    BY <1>4
<1>7. Within(Append(q, e), Append(QueueOf(T, t), e))
    BY <1>4, AppendWithin
<1>8. Within(r, Append(QueueOf(T, t), e))
    BY <1>5, <1>6, <1>7, WithinWithin
<1> HIDE DEF r
<1>9. DOMAIN filled = DOMAIN A \cup {t} /\ DOMAIN filled \subseteq D
    BY <1>3 DEF Thins
<1>10. IsTable(filled, S)
    <2>1. \A u \in DOMAIN filled : filled[u] \in Seq(S)
        BY <1>3, <1>5 DEF IsTable
    <2>2. filled = [u \in DOMAIN filled |-> filled[u]]
        OBVIOUS
    <2> HIDE DEF filled
    <2> QED
        BY <2>1, <2>2 DEF IsTable
<1>11. ASSUME NEW u \in DOMAIN filled
       PROVE  Within(filled[u], Deferred(T, t, e, u)) /\ Deferred(T, t, e, u) \in Seq(S)
    <2>1. CASE u = t
        BY <2>1, <1>6, <1>8 DEF Deferred
    <2>2. CASE u # t
        <3>1. u \in DOMAIN A /\ u \in DOMAIN T /\ filled[u] = A[u]
            BY <2>2, <1>3 DEF Thins
        <3> QED
            BY <2>2, <3>1, <1>3 DEF Deferred, Thins, IsTable
    <2> QED
        BY <2>1, <2>2
<1> HIDE DEF filled
<1>12. IsTable(K, S) /\ Thins(K, filled)
    BY <1>1, <1>9, <1>10, WithinTotalThins
<1> HIDE DEF K
<1>13. ASSUME NEW u \in DOMAIN K
       PROVE  u \in D /\ Within(K[u], Deferred(T, t, e, u))
    <2>1. u \in DOMAIN filled /\ Within(K[u], filled[u])
        BY <1>12 DEF Thins
    <2>2. K[u] \in Seq(S) /\ filled[u] \in Seq(S)
        BY <1>10, <1>12, <2>1 DEF IsTable
    <2>3. Within(filled[u], Deferred(T, t, e, u)) /\ Deferred(T, t, e, u) \in Seq(S)
        BY <2>1, <1>11
    <2>4. Within(K[u], Deferred(T, t, e, u))
        BY <2>1, <2>2, <2>3, WithinWithin
    <2> QED
        BY <2>1, <2>4, <1>9
<1>14. ASSUME NEW u \in DOMAIN T
       PROVE  Within(T[u], Deferred(T, t, e, u))
    <2>1. T[u] \in Seq(S) /\ Within(T[u], T[u])
        BY WithinItself DEF IsTable
    <2>2. u = t => QueueOf(T, t) = T[u]
        BY DEF QueueOf
    <2>3. Within(T[u], Append(T[u], e))
        BY <2>1, AppendWithin
    <2> QED
        BY <2>1, <2>2, <2>3 DEF Deferred
<1>15. IsTable(U, S) /\ DOMAIN U \subseteq D /\ \A u \in DOMAIN U : Within(U[u], Deferred(T, t, e, u))
    <2>1. CASE crowded /\ ~e.terminal
        BY <2>1, <1>2, <1>14
    <2>2. CASE ~(crowded /\ ~e.terminal)
        <3>1. U = K
            BY <2>2, <1>2
        <3> HIDE DEF U
        <3>2. \A u \in DOMAIN K : u \in D /\ Within(K[u], Deferred(T, t, e, u))
            BY <1>13
        <3> QED
            BY <3>1, <3>2, <1>12
    <2> QED
        BY <2>1, <2>2
<1> QED
    BY <1>15


-----------------------------------------------------------------------------
(* The events of a generation are forgotten *)

\* f is the function that OtherThan defines.
IsOthers(f, q, g) ==
    f = [n \in 0 .. Len(q) |->
            IF n = 0 THEN <<>>
            ELSE IF q[n].gen = g THEN f[n - 1] ELSE Append(f[n - 1], q[n])]

\* There is such a function.
LEMMA OthersExist ==
    ASSUME NEW S, NEW q \in Seq(S), NEW g
    PROVE  \E f : IsOthers(f, q, g)
<1> DEFINE none == <<>>
           Next1(x, n) == IF q[n].gen = g THEN x ELSE Append(x, q[n])
           Good(m) == \E f : f = [n \in 0 .. m |-> IF n = 0 THEN none ELSE Next1(f[n - 1], n)]
           G == {m \in Nat : Good(m)}
<1> HIDE DEF none, Next1
<1>1. 0 \in G
    <2> DEFINE f == [n \in 0 .. 0 |-> none]
    <2>1. f = [n \in 0 .. 0 |-> IF n = 0 THEN none ELSE Next1(f[n - 1], n)]
        OBVIOUS
    <2> HIDE DEF f
    <2> QED
        BY <2>1
<1>2. ASSUME NEW m \in Nat, m \in G
      PROVE  m + 1 \in G
    <2>1. PICK f : f = [n \in 0 .. m |-> IF n = 0 THEN none ELSE Next1(f[n - 1], n)]
        BY <1>2
    <2> DEFINE h == [n \in 0 .. m + 1 |-> IF n = 0 THEN none ELSE Next1(f[n - 1], n)]
    <2>2. ASSUME NEW n \in 0 .. m
          PROVE  h[n] = f[n]
        BY <2>1
    <2>3. ASSUME NEW n \in 0 .. m + 1, n # 0
          PROVE  h[n - 1] = f[n - 1]
        <3>1. n - 1 \in 0 .. m
            BY <2>3
        <3> QED
            BY <3>1, <2>2
    <2>4. h = [n \in 0 .. m + 1 |-> IF n = 0 THEN none ELSE Next1(h[n - 1], n)]
        BY <2>3
    <2> HIDE DEF h
    <2> QED
        BY <2>4
<1>3. Nat \subseteq G
    <2> HIDE DEF G
    <2> QED
        BY <1>1, <1>2, SetInduction
<1>4. Len(q) \in G
    BY <1>3
<1> QED
    BY <1>4 DEF IsOthers, none, Next1

\* What is left of a queue are events of it.
LEMMA OtherThanType ==
    ASSUME NEW S, NEW q \in Seq(S), NEW g
    PROVE  OtherThan(q, g) \in Seq(S)
<1> DEFINE F == CHOOSE f : IsOthers(f, q, g)
<1>1. IsOthers(F, q, g)
    BY OthersExist
<1>2. OtherThan(q, g) = F[Len(q)]
    BY DEF OtherThan, IsOthers
<1> HIDE DEF F
<1> DEFINE G == {n \in Nat : n <= Len(q) => F[n] \in Seq(S)}
<1>3. 0 \in G
    BY <1>1 DEF IsOthers
<1>4. ASSUME NEW n \in Nat, n \in G
      PROVE  n + 1 \in G
    <2> SUFFICES ASSUME n + 1 <= Len(q) PROVE F[n + 1] \in Seq(S)
        OBVIOUS
    <2>1. F[n] \in Seq(S) /\ q[n + 1] \in S
        BY <1>4
    <2>2. F[n + 1] = IF q[n + 1].gen = g THEN F[n] ELSE Append(F[n], q[n + 1])
        <3>1. n + 1 \in 0 .. Len(q) /\ n + 1 # 0 /\ (n + 1) - 1 = n
            OBVIOUS
        <3> QED
            BY <1>1, <3>1 DEF IsOthers
    <2> QED
        BY <2>1, <2>2
<1>5. Nat \subseteq G
    <2> HIDE DEF G
    <2> QED
        BY <1>3, <1>4, SetInduction
<1> QED
    BY <1>2, <1>5

-----------------------------------------------------------------------------
(* The order in which agents and turns are forgotten *)

Distinct(q) == \A i, j \in DOMAIN q : q[i] = q[j] => i = j

\* An item leaves an order.
LEMMA WithoutItemKeeps ==
    ASSUME NEW S, NEW q \in Seq(S), NEW x
    PROVE  /\ WithoutItem(q, x) \in Seq(S)
           /\ Len(WithoutItem(q, x)) <= Len(q)
           /\ ToSetOf(WithoutItem(q, x)) \subseteq ToSetOf(q)
           /\ ToSetOf(q) \subseteq ToSetOf(WithoutItem(q, x)) \cup {x}
           /\ Distinct(q) => Distinct(WithoutItem(q, x)) /\ x \notin ToSetOf(WithoutItem(q, x))
<1> DEFINE I == {i \in 1 .. Len(q) : q[i] = x}
           n == Min(I)
           s == WithoutItem(q, x)
<1>1. CASE I = {}
    <2>1. s = q
        BY <1>1 DEF WithoutItem, RemoveFirst
    <2>2. Distinct(q) => x \notin ToSetOf(q)
        BY <1>1 DEF ToSetOf
    <2> QED
        BY <2>1, <2>2
<1>2. CASE I # {}
    <2>1. n \in I
        <3>1. I \subseteq Nat
            OBVIOUS
        <3> HIDE DEF I
        <3> QED
            BY <3>1, <1>2, MinIsMember
    <2>2. s = RemoveAt(q, n)
        BY <1>2 DEF WithoutItem, RemoveFirst, SelectInSeq
    <2> HIDE DEF n, s
    <2>3. n \in DOMAIN q /\ q[n] = x
        BY <2>1
    <2>4. /\ s \in Seq(S) /\ Len(s) = Len(q) - 1
          /\ \A i \in DOMAIN s : s[i] = IF i < n THEN q[i] ELSE q[i + 1]
        BY <2>2, <2>3, RemovedWithin
    <2>5. ToSetOf(s) \subseteq ToSetOf(q)
        BY <2>4 DEF ToSetOf
    <2>6. ASSUME NEW i \in DOMAIN q, q[i] # x
          PROVE  q[i] \in ToSetOf(s)
        <3>1. CASE i < n
            BY <3>1, <2>3, <2>4 DEF ToSetOf
        <3>2. CASE ~(i < n)
            <4>1. i - 1 \in DOMAIN s /\ s[i - 1] = q[i]
                BY <3>2, <2>3, <2>4, <2>6
            <4> QED
                BY <4>1 DEF ToSetOf
        <3> QED
            BY <3>1, <3>2
    <2>7. ASSUME Distinct(q)
          PROVE  Distinct(s) /\ x \notin ToSetOf(s)
        <3>1. ASSUME NEW i \in DOMAIN s
              PROVE  s[i] # x
            BY <2>7, <2>3, <2>4 DEF Distinct
        <3>2. ASSUME NEW i \in DOMAIN s, NEW j \in DOMAIN s, s[i] = s[j]
              PROVE  i = j
            BY <3>2, <2>7, <2>3, <2>4, SMTT(30) DEF Distinct
        <3> QED
            BY <3>1, <3>2 DEF Distinct, ToSetOf
    <2>8. ToSetOf(q) \subseteq ToSetOf(s) \cup {x}
        BY <2>6 DEF ToSetOf
    <2> QED
        BY <2>4, <2>5, <2>7, <2>8 DEF s
<1> QED
    BY <1>1, <1>2

\* The first of an order goes.
LEMMA TailKeeps ==
    ASSUME NEW S, NEW q \in Seq(S), q # <<>>
    PROVE  /\ Head(q) \in S /\ Head(q) \in ToSetOf(q)
           /\ Tail(q) \in Seq(S) /\ Len(Tail(q)) = Len(q) - 1
           /\ ToSetOf(q) \subseteq ToSetOf(Tail(q)) \cup {Head(q)}
           /\ ToSetOf(Tail(q)) \subseteq ToSetOf(q)
           /\ Distinct(q) => Distinct(Tail(q)) /\ Head(q) \notin ToSetOf(Tail(q))
<1> DEFINE s == Tail(q)
<1>1. /\ s \in Seq(S) /\ Len(s) = Len(q) - 1 /\ \A i \in DOMAIN s : s[i] = q[i + 1]
      /\ Head(q) = q[1] /\ 1 \in DOMAIN q
    OBVIOUS
<1> HIDE DEF s
<1>2. ASSUME NEW i \in DOMAIN q, i # 1
      PROVE  q[i] \in ToSetOf(s)
    <2>1. i - 1 \in DOMAIN s /\ s[i - 1] = q[i]
        BY <1>1, <1>2
    <2> QED
        BY <2>1 DEF ToSetOf
<1>3. ToSetOf(q) \subseteq ToSetOf(s) \cup {Head(q)}
    BY <1>1, <1>2 DEF ToSetOf
<1>4. ToSetOf(s) \subseteq ToSetOf(q) /\ Head(q) \in ToSetOf(q)
    BY <1>1 DEF ToSetOf
<1>5. ASSUME Distinct(q)
      PROVE  Distinct(s) /\ Head(q) \notin ToSetOf(s)
    <2>1. ASSUME NEW i \in DOMAIN s
          PROVE  s[i] # Head(q)
        BY <1>1, <1>5 DEF Distinct
    <2>2. Distinct(s)
        BY <1>1, <1>5 DEF Distinct
    <2> QED
        BY <2>1, <2>2 DEF ToSetOf
<1>6. Head(q) \in S
    BY <1>1
<1> QED
    BY <1>1, <1>3, <1>4, <1>5, <1>6 DEF s

\* Something comes last.
LEMMA AppendKeeps ==
    ASSUME NEW S, NEW q \in Seq(S), NEW x \in S
    PROVE  /\ Append(q, x) \in Seq(S) /\ Len(Append(q, x)) = Len(q) + 1
           /\ ToSetOf(Append(q, x)) = ToSetOf(q) \cup {x}
           /\ Distinct(q) /\ x \notin ToSetOf(q) => Distinct(Append(q, x))
<1> DEFINE s == Append(q, x)
<1>1. /\ s \in Seq(S) /\ Len(s) = Len(q) + 1 /\ s[Len(q) + 1] = x
      /\ \A i \in DOMAIN q : s[i] = q[i]
      /\ DOMAIN q = 1 .. Len(q) /\ DOMAIN s = 1 .. Len(q) + 1 /\ Len(q) \in Nat
    OBVIOUS
<1> HIDE DEF s
<1>2. ToSetOf(s) = ToSetOf(q) \cup {x}
    <2>1. ASSUME NEW i \in DOMAIN q
          PROVE  q[i] \in ToSetOf(s)
        <3>1. i \in DOMAIN s /\ s[i] = q[i]
            BY <1>1
        <3> QED
            BY <3>1 DEF ToSetOf
    <2>2. x \in ToSetOf(s)
        BY <1>1 DEF ToSetOf
    <2>3. ASSUME NEW i \in DOMAIN s
          PROVE  s[i] \in ToSetOf(q) \cup {x}
        BY <1>1 DEF ToSetOf
    <2> QED
        BY <2>1, <2>2, <2>3 DEF ToSetOf
<1>3. ASSUME Distinct(q), x \notin ToSetOf(q)
      PROVE  Distinct(s)
    BY <1>1, <1>3 DEF Distinct, ToSetOf
<1> QED
    BY <1>1, <1>2, <1>3 DEF s

\* What is in an order is counted by its length.
LEMMA DistinctIsCounted ==
    ASSUME NEW S, NEW q \in Seq(S), Distinct(q)
    PROVE  Cardinality(ToSetOf(q)) = Len(q)
<1> DEFINE D == 1 .. Len(q)
           T == ToSetOf(q)
<1>1. IsFiniteSet(D) /\ Cardinality(D) = Len(q)
    <2>1. Len(q) \in Nat /\ Len(q) \in Int /\ 1 \in Int
        OBVIOUS
    <2>2. Cardinality(D) = IF 1 > Len(q) THEN 0 ELSE Len(q) - 1 + 1
        BY <2>1, FS_Interval
    <2>3. IsFiniteSet(D)
        BY <2>1, FS_Interval
    <2> QED
        BY <2>1, <2>2, <2>3
<1>2. q \in [D -> T] /\ \A y \in T : \E i \in D : q[i] = y
    BY DEF ToSetOf
<1>3. q \in Surjection(D, T)
    BY <1>2 DEF Surjection
<1>4. \A i, j \in D : q[i] = q[j] => i = j
    BY DEF Distinct
<1> HIDE DEF D, T
<1>5. q \in Injection(D, T)
    BY <1>2, <1>4, Zenon DEF Injection, IsInjective
<1>6. Cardinality(T) = Cardinality(D)
    BY <1>1, <1>3, <1>5, FS_Surjection
<1> QED
    BY <1>1, <1>6 DEF T

-----------------------------------------------------------------------------
(* Ancestors *)

ParentsOf(k, B) == {k.route[a].parent : a \in B \cap RoutedAgents(k)}
\* B has the parents of its agents.
IsClosed(k, B) == ParentsOf(k, B) \subseteq B

\* The recursive function in Ancestors.
IsUp(f, k, t) ==
    f = [n \in 0 .. Cardinality(Agents) |->
            IF n = 0 THEN {t}
            ELSE LET below == f[n - 1]
                 IN  below \cup {k.route[a].parent : a \in below \cap RoutedAgents(k)}]

\* There is such a function.
LEMMA UpExists ==
    ASSUME NEW k, NEW t
    PROVE  \E f : IsUp(f, k, t)
<1> DEFINE start == {t}
           Next1(x) == x \cup {k.route[a].parent : a \in x \cap RoutedAgents(k)}
           Good(m) == \E f : f = [n \in 0 .. m |-> IF n = 0 THEN start ELSE Next1(f[n - 1])]
           G == {m \in Nat : Good(m)}
<1> HIDE DEF start, Next1
<1>1. 0 \in G
    <2> DEFINE f == [n \in 0 .. 0 |-> start]
    <2>1. f = [n \in 0 .. 0 |-> IF n = 0 THEN start ELSE Next1(f[n - 1])]
        OBVIOUS
    <2> HIDE DEF f
    <2> QED
        BY <2>1
<1>2. ASSUME NEW m \in Nat, m \in G
      PROVE  m + 1 \in G
    <2>1. PICK f : f = [n \in 0 .. m |-> IF n = 0 THEN start ELSE Next1(f[n - 1])]
        BY <1>2
    <2> DEFINE g == [n \in 0 .. m + 1 |-> IF n = 0 THEN start ELSE Next1(f[n - 1])]
    <2>2. ASSUME NEW n \in 0 .. m
          PROVE  g[n] = f[n]
        BY <2>1
    <2>3. ASSUME NEW n \in 0 .. m + 1, n # 0
          PROVE  g[n - 1] = f[n - 1]
        <3>1. n - 1 \in 0 .. m
            BY <2>3
        <3> QED
            BY <3>1, <2>2
    <2>4. g = [n \in 0 .. m + 1 |-> IF n = 0 THEN start ELSE Next1(g[n - 1])]
        BY <2>3
    <2> HIDE DEF g
    <2> QED
        BY <2>4
<1>3. Nat \subseteq G
    <2> HIDE DEF G
    <2> QED
        BY <1>1, <1>2, SetInduction
<1>4. Cardinality(Agents) \in G
    BY <1>3, FS_CardinalityType, SubagentsAssumption
<1> QED
    BY <1>4 DEF IsUp, start, Next1

\* The ancestors of t, itself among them, are the least set that is closed: as many steps
\* as there are agents are enough.
LEMMA AncestorsAreClosed ==
    ASSUME NEW k, NEW t
    PROVE  /\ t \in Ancestors(k, t)
           /\ IsClosed(k, Ancestors(k, t))
           /\ \A B : t \in B /\ IsClosed(k, B) => Ancestors(k, t) \subseteq B
<1> DEFINE N == Cardinality(Agents)
           R == RoutedAgents(k)
           F == CHOOSE f : IsUp(f, k, t)
<1>1. N \in Nat /\ IsFiniteSet(R) /\ Cardinality(R) \in Nat /\ Cardinality(R) <= N
    BY FS_CardinalityType, FS_Subset, SubagentsAssumption DEF RoutedAgents
<1>2. IsUp(F, k, t)
    BY UpExists
<1>3. Ancestors(k, t) = F[N]
    BY DEF Ancestors, IsUp
<1> HIDE DEF F
<1>4. F[0] = {t}
    BY <1>1, <1>2 DEF IsUp
<1>5. ASSUME NEW n \in Nat, n + 1 <= N
      PROVE  F[n + 1] = F[n] \cup ParentsOf(k, F[n])
    BY <1>1, <1>2, <1>5 DEF IsUp, ParentsOf
<1> HIDE DEF N
<1>6. \A B : t \in B /\ IsClosed(k, B) => F[N] \subseteq B
    <2> SUFFICES ASSUME NEW B, t \in B, IsClosed(k, B) PROVE F[N] \subseteq B
        OBVIOUS
    <2> DEFINE G == {n \in Nat : n <= N => F[n] \subseteq B}
    <2>1. 0 \in G
        BY <1>4
    <2>2. ASSUME NEW n \in Nat, n \in G
          PROVE  n + 1 \in G
        <3> SUFFICES ASSUME n + 1 <= N PROVE F[n + 1] \subseteq B
            OBVIOUS
        <3>1. F[n] \subseteq B
            BY <1>1, <2>2
        <3>2. ParentsOf(k, F[n]) \subseteq B
            BY <3>1 DEF IsClosed, ParentsOf
        <3> QED
            BY <3>1, <3>2, <1>5
    <2>3. Nat \subseteq G
        <3> HIDE DEF G
        <3> QED
            BY <2>1, <2>2, SetInduction
    <2> QED
        BY <2>3, <1>1
<1> DEFINE Count(n) == Cardinality(F[n] \cap R)
           Good(n) == t \in F[n] /\ (IsClosed(k, F[n]) \/ Count(n) >= n + 1)
           G == {n \in Nat : n <= N => Good(n)}
<1>7. \A n : IsFiniteSet(F[n] \cap R) /\ Count(n) \in Nat /\ Count(n) <= N
    BY <1>1, FS_Subset, FS_CardinalityType
<1>8. 0 \in G
    <2>1. CASE F[0] \cap R = {}
        <3>1. ParentsOf(k, F[0]) = {}
            BY <2>1 DEF ParentsOf
        <3> QED
            BY <3>1, <1>4 DEF IsClosed
    <2>2. CASE F[0] \cap R # {}
        <3>1. Count(0) # 0
            BY <2>2, <1>7, FS_EmptySet
        <3>2. Count(0) \in Nat
            BY <1>7
        <3> HIDE DEF Count
        <3> QED
            BY <3>1, <3>2, <1>4
    <2> QED
        BY <2>1, <2>2
<1>9. ASSUME NEW n \in Nat, n \in G
      PROVE  n + 1 \in G
    <2> SUFFICES ASSUME n + 1 <= N PROVE Good(n + 1)
        OBVIOUS
    <2>1. Good(n) /\ F[n + 1] = F[n] \cup ParentsOf(k, F[n])
        BY <1>1, <1>5, <1>9
    <2>2. t \in F[n + 1]
        BY <2>1
    <2>3. CASE IsClosed(k, F[n])
        <3>1. F[n + 1] = F[n]
            BY <2>1, <2>3 DEF IsClosed
        <3> QED
            BY <3>1, <2>2, <2>3
    <2>4. CASE Count(n) >= n + 1 /\ ~IsClosed(k, F[n + 1])
        <3>1. F[n] \cap R \subseteq F[n + 1] \cap R
            BY <2>1
        <3>2. F[n] \cap R # F[n + 1] \cap R
            <4> SUFFICES ASSUME F[n] \cap R = F[n + 1] \cap R PROVE IsClosed(k, F[n + 1])
                BY <2>4
            <4>1. ParentsOf(k, F[n + 1]) = ParentsOf(k, F[n])
                BY DEF ParentsOf
            <4> QED
                BY <4>1, <2>1 DEF IsClosed
        <3>3. Count(n) <= Count(n + 1) /\ Count(n) # Count(n + 1)
            BY <3>1, <3>2, <1>7, FS_Subset
        <3>4. Count(n) \in Nat /\ Count(n + 1) \in Nat
            BY <1>7
        <3> HIDE DEF Count
        <3>5. Count(n + 1) >= n + 1 + 1
            BY <3>3, <3>4, <2>4
        <3> QED
            BY <3>5, <2>2
    <2> QED
        BY <2>1, <2>2, <2>3, <2>4
<1>10. Nat \subseteq G
    <2> HIDE DEF G
    <2> QED
        BY <1>8, <1>9, SetInduction
<1>11. Good(N)
    BY <1>1, <1>10
<1>12. t \in F[N] /\ IsClosed(k, F[N])
    <2>1. Count(N) \in Nat /\ Count(N) <= N
        BY <1>7
    <2> HIDE DEF Count
    <2> QED
        BY <1>1, <1>11, <2>1
<1> QED
    BY <1>3, <1>6, <1>12

-----------------------------------------------------------------------------
(* Types *)

Marks == {"none", "synthetic", "authoritative"}
Phases == {"none", "Sending", "Sent", "Retryable"}
Routes == [gen : 0 .. MaxGeneration, parent : Threads \cup {NoThread}, launch : 0 .. MaxTurns]
Attempts == [gen : 0 .. MaxGeneration, turn : 0 .. MaxTurns, attempt : 0 .. MaxAttempts,
             phase : Phases]
Actives == [gen : 0 .. MaxGeneration, turn : 0 .. MaxTurns]
Servers == [parent : Threads \cup {NoThread}, turns : 0 .. MaxTurns, running : BOOLEAN]
Registries ==
    [route     : [Agents -> Routes],
     current   : [Agents -> 0 .. MaxTurns],
     terminals : [Agents -> [TurnKeys -> Marks]],
     order     : Seq(Agents),
     turnOrder : [Agents -> Seq(TurnKeys)],
     interrupt : [Agents -> Attempts]]

\* An event of a turn is of an agent and names a turn that the agent has begun; an item
\* names an agent; thread/started names a thread and its parent.
Sound(e, p, s) ==
    /\ e.gen <= p
    /\ e.kind \in {"turnStarted", "turnCompleted", "agentMessage"} =>
          e.thread \in Agents /\ e.turn \in Turns /\ e.turn <= s[e.thread].turns
    /\ e.kind \in {"collabItem", "agentActivity", "collabStatus"} => e.other \in Agents
    /\ e.kind = "threadStarted" => e.thread \in Agents /\ e.other \in Threads
Events(p, s) == {e \in Event : Sound(e, p, s)}
\* What can be deferred for t.
EventsOf(t, p, s) == {e \in Events(p, s) : e.thread = t /\ e.kind # "collabStatus"}

-----------------------------------------------------------------------------
(* The registry of the children *)

\* Routes are of generation g; without a route no turn of an agent is known.
RoutesAreOf(k, g) ==
    \A a \in Agents : IF k.route[a] = NoRoute THEN k.current[a] = 0 ELSE k.route[a].gen = g
\* An active turn is the current one of a routed agent, and no end of it is recorded.
ActiveIsCurrent(k, act, g) ==
    \A a \in Agents : act[a] # NoActive =>
        /\ k.route[a] # NoRoute
        /\ act[a].gen = g
        /\ act[a].turn = k.current[a]
        /\ act[a].turn \in Turns
        /\ k.terminals[a][act[a].turn] = "none"
IsAcyclic(k) == \A a \in RoutedAgents(k) : a \notin Ancestors(k, k.route[a].parent)
\* The limits; what is recorded of a turn is in the order it will be forgotten by.
IsBounded(k) ==
    /\ Cardinality(RoutedAgents(k)) <= Room
    /\ Len(k.order) <= Room
    /\ Distinct(k.order)
    /\ \A a \in Agents :
          /\ Len(k.turnOrder[a]) <= MaxRetainedTurns
          /\ \A t \in TurnKeys : k.terminals[a][t] # "none" => t \in ToSetOf(k.turnOrder[a])
\* A finished agent is in the order it will be forgotten by.
IsFinished(k, act, a) ==
    /\ k.route[a] # NoRoute
    /\ act[a] = NoActive
    /\ k.current[a] # 0
    /\ k.terminals[a][k.current[a]] = "authoritative"
IsEvictable(k, act, a) == IsFinished(k, act, a) => a \in ToSetOf(k.order)
\* The registry is sound, but for agents that may have to be put into that order.
IsSound(k, act, g, but) ==
    /\ k \in Registries
    /\ RoutesAreOf(k, g)
    /\ ActiveIsCurrent(k, act, g)
    /\ IsAcyclic(k)
    /\ IsBounded(k)
    /\ \A a \in Agents \ but : IsEvictable(k, act, a)

\* What a step may do to what is kept of an agent besides: forget it.
Fades(k, l, a) ==
    /\ l.route[a] \in {k.route[a], NoRoute}
    /\ l.current[a] \in {k.current[a], 0}
    /\ l.interrupt[a] = k.interrupt[a] \/ (l.interrupt[a] = NoInterrupt /\ l.route[a] = NoRoute)

\* A scenario has room, and there are some turns.
LEMMA BoundsAreNumbers ==
    /\ {MaxTurns, MaxGeneration, MaxAttempts, MaxRetainedTurns} \subseteq Nat \ {0}
    /\ scenario \in Scenarios => Room \in Nat \ {0}
BY SubagentsAssumption DEF Room

\* Nothing is kept of an agent that is forgotten.
LEMMA EvictFields ==
    ASSUME NEW k \in Registries, NEW a \in Agents
    PROVE  /\ Evict(k, a) \in Registries
           /\ Evict(k, a).route = [k.route EXCEPT ![a] = NoRoute]
           /\ Evict(k, a).current = [k.current EXCEPT ![a] = 0]
           /\ Evict(k, a).terminals = [k.terminals EXCEPT ![a] = [t \in TurnKeys |-> "none"]]
           /\ Evict(k, a).turnOrder = [k.turnOrder EXCEPT ![a] = <<>>]
           /\ Evict(k, a).interrupt = [k.interrupt EXCEPT ![a] = NoInterrupt]
           /\ Evict(k, a).order = k.order
<1>1. NoRoute \in Routes /\ NoInterrupt \in Attempts /\ <<>> \in Seq(TurnKeys)
    BY BoundsAreNumbers DEF NoRoute, NoInterrupt, Routes, Attempts, Phases
<1>2. [t \in TurnKeys |-> "none"] \in [TurnKeys -> Marks]
    BY DEF Marks
<1>3. 0 \in 0 .. MaxTurns
    BY BoundsAreNumbers
<1> DEFINE none == [t \in TurnKeys |-> "none"]
<1> HIDE DEF none
<1> QED
    BY <1>1, <1>2, <1>3 DEF Evict, Registries, none

\* Fewer routes, fewer ancestors.
LEMMA AcyclicStays ==
    ASSUME NEW k, NEW l, IsAcyclic(k), RoutedAgents(l) \subseteq RoutedAgents(k),
           \A a \in RoutedAgents(l) : l.route[a].parent = k.route[a].parent
    PROVE  IsAcyclic(l)
<1> SUFFICES ASSUME NEW a \in RoutedAgents(l)
             PROVE  a \notin Ancestors(l, l.route[a].parent)
    BY DEF IsAcyclic
<1> DEFINE p == k.route[a].parent
           B == Ancestors(k, p)
<1>1. a \in RoutedAgents(k) /\ l.route[a].parent = p /\ a \notin B
    BY DEF IsAcyclic
<1>2. p \in B /\ IsClosed(k, B)
    BY AncestorsAreClosed
<1> HIDE DEF p, B
<1>3. IsClosed(l, B)
    BY <1>2 DEF IsClosed, ParentsOf
<1>4. Ancestors(l, p) \subseteq B
    BY <1>2, <1>3, AncestorsAreClosed
<1> QED
    BY <1>1, <1>4

\* A child that is not among the ancestors of its parent closes no cycle.
LEMMA AcyclicGrows ==
    ASSUME NEW k, NEW l, IsAcyclic(k), NEW c, c \notin RoutedAgents(k),
           RoutedAgents(l) = RoutedAgents(k) \cup {c},
           \A a \in RoutedAgents(k) : l.route[a].parent = k.route[a].parent,
           c \notin Ancestors(k, l.route[c].parent)
    PROVE  IsAcyclic(l)
<1> DEFINE q == l.route[c].parent
           C == Ancestors(k, q)
<1>1. q \in C /\ IsClosed(k, C) /\ c \notin C
    BY AncestorsAreClosed
<1>2. \A B : q \in B /\ IsClosed(k, B) => C \subseteq B
    BY AncestorsAreClosed
<1> HIDE DEF C
<1>3. \A B : IsClosed(k, B) /\ (c \in B => q \in B) => IsClosed(l, B)
    BY DEF IsClosed, ParentsOf
<1> HIDE DEF q
<1>4. ASSUME NEW a \in RoutedAgents(l), a = c
      PROVE  a \notin Ancestors(l, l.route[a].parent)
    <2>1. IsClosed(l, C)
        BY <1>1, <1>3
    <2>2. Ancestors(l, q) \subseteq C
        BY <1>1, <2>1, AncestorsAreClosed
    <2> QED
        BY <1>4, <1>1, <2>2 DEF q
<1>5. ASSUME NEW a \in RoutedAgents(l), a # c
      PROVE  a \notin Ancestors(l, l.route[a].parent)
    <2> DEFINE p == k.route[a].parent
               B == Ancestors(k, p)
    <2>1. a \in RoutedAgents(k) /\ l.route[a].parent = p /\ a \notin B
        BY <1>5 DEF IsAcyclic
    <2>2. p \in B /\ IsClosed(k, B)
        BY AncestorsAreClosed
    <2>3. \A D : p \in D /\ IsClosed(k, D) => B \subseteq D
        BY AncestorsAreClosed
    <2>4. a \in C => p \in C
        BY <1>1, <2>1 DEF IsClosed, ParentsOf
    <2> HIDE DEF p, B
    <2>5. CASE c \notin B
        <3>1. IsClosed(l, B)
            BY <2>2, <2>5, <1>3
        <3>2. Ancestors(l, p) \subseteq B
            BY <2>2, <3>1, AncestorsAreClosed
        <3> QED
            BY <2>1, <3>2
    <2>6. CASE c \in B
        <3>1. IsClosed(k, B \cup C)
            BY <1>1, <2>2 DEF IsClosed, ParentsOf
        <3>2. IsClosed(l, B \cup C)
            BY <3>1, <1>1, <1>3
        <3>3. Ancestors(l, p) \subseteq B \cup C
            BY <2>2, <3>2, AncestorsAreClosed
        <3>4. a \notin C
            BY <2>3, <2>4, <2>6, <1>1
        <3> QED
            BY <2>1, <3>3, <3>4
    <2> QED
        BY <2>5, <2>6
<1> QED
    BY <1>4, <1>5 DEF IsAcyclic

\* Who is not active can be forgotten.
LEMMA EvictKeeps ==
    ASSUME NEW k, NEW act, NEW g, NEW a \in Agents, IsSound(k, act, g, {a}), act[a] = NoActive,
           scenario \in Scenarios
    PROVE  /\ IsSound(Evict(k, a), act, g, {})
           /\ \A b \in Agents : Fades(k, Evict(k, a), b)
<1> DEFINE l == Evict(k, a)
           none == [t \in TurnKeys |-> "none"]
<1>1. k \in Registries
    BY DEF IsSound
<1>2. /\ l \in Registries
      /\ l.route = [k.route EXCEPT ![a] = NoRoute]
      /\ l.current = [k.current EXCEPT ![a] = 0]
      /\ l.terminals = [k.terminals EXCEPT ![a] = none]
      /\ l.turnOrder = [k.turnOrder EXCEPT ![a] = <<>>]
      /\ l.interrupt = [k.interrupt EXCEPT ![a] = NoInterrupt]
      /\ l.order = k.order
    BY <1>1, EvictFields
<1> HIDE DEF l
<1>3. /\ l.route[a] = NoRoute /\ l.current[a] = 0 /\ l.interrupt[a] = NoInterrupt
      /\ l.turnOrder[a] = <<>> /\ l.terminals[a] = none
    BY <1>1, <1>2 DEF Registries
<1>4. \A b \in Agents : b # a =>
          /\ l.route[b] = k.route[b] /\ l.current[b] = k.current[b]
          /\ l.interrupt[b] = k.interrupt[b]
          /\ l.turnOrder[b] = k.turnOrder[b] /\ l.terminals[b] = k.terminals[b]
    BY <1>1, <1>2 DEF Registries
<1>5. RoutesAreOf(l, g)
    BY <1>3, <1>4 DEF IsSound, RoutesAreOf
<1>6. ActiveIsCurrent(l, act, g)
    BY <1>4 DEF IsSound, ActiveIsCurrent
<1>7. RoutedAgents(l) \subseteq RoutedAgents(k) /\ \A b \in RoutedAgents(l) : l.route[b] = k.route[b]
    BY <1>3, <1>4 DEF RoutedAgents
<1>8. IsAcyclic(l)
    BY <1>7, AcyclicStays DEF IsSound
<1>9. IsBounded(l)
    <2>1. Cardinality(RoutedAgents(l)) <= Cardinality(RoutedAgents(k))
        BY <1>7, SubagentsAssumption, FS_Subset DEF RoutedAgents
    <2>2. Cardinality(RoutedAgents(l)) \in Nat /\ Cardinality(RoutedAgents(k)) \in Nat
        BY SubagentsAssumption, FS_Subset, FS_CardinalityType DEF RoutedAgents
    <2>3. Len(k.order) <= Room /\ Distinct(k.order) /\ Cardinality(RoutedAgents(k)) <= Room
        BY DEF IsSound, IsBounded
    <2>4. scenario.room >= Cardinality(RoutedAgents(l))
        BY <2>1, <2>2, <2>3, BoundsAreNumbers DEF Room
    <2>5. Len(<<>>) = 0 /\ 0 <= MaxRetainedTurns
        BY BoundsAreNumbers
    <2>6. ASSUME NEW b \in Agents
          PROVE  /\ Len(l.turnOrder[b]) <= MaxRetainedTurns
                 /\ \A t \in TurnKeys : l.terminals[b][t] # "none" => t \in ToSetOf(l.turnOrder[b])
        <3>1. CASE b = a
            BY <3>1, <1>3, <2>5
        <3>2. CASE b # a
            BY <3>2, <1>4 DEF IsSound, IsBounded
        <3> QED
            BY <3>1, <3>2
    <2> QED
        BY <1>2, <2>3, <2>4, <2>6 DEF IsBounded, Room
<1>10. \A b \in Agents : IsEvictable(l, act, b)
    BY <1>2, <1>3, <1>4 DEF IsSound, IsEvictable, IsFinished
<1>11. IsSound(l, act, g, {})
    BY <1>2, <1>5, <1>6, <1>8, <1>9, <1>10 DEF IsSound
<1>12. \A b \in Agents : Fades(k, l, b)
    BY <1>3, <1>4 DEF Fades
<1> QED
    BY <1>11, <1>12 DEF l

\* Another order with everyone of the old one, but for one agent.
LEMMA ReorderKeeps ==
    ASSUME NEW k, NEW act, NEW g, NEW but, IsSound(k, act, g, but), NEW q \in Seq(Agents),
           Len(q) <= Room, Distinct(q), NEW more \in SUBSET Agents,
           \A a \in Agents \ but : a \in ToSetOf(k.order) => a \in ToSetOf(q) \/ a \in more,
           \A a \in but \ more : a \in ToSetOf(q)
    PROVE  /\ IsSound([k EXCEPT !.order = q], act, g, more)
           /\ \A b \in Agents : Fades(k, [k EXCEPT !.order = q], b)
<1> DEFINE l == [k EXCEPT !.order = q]
<1>1. k \in Registries
    BY DEF IsSound
<1>2. /\ l \in Registries
      /\ l.route = k.route /\ l.current = k.current /\ l.terminals = k.terminals
      /\ l.turnOrder = k.turnOrder /\ l.interrupt = k.interrupt /\ l.order = q
    BY <1>1 DEF Registries
<1> HIDE DEF l
<1>3. RoutesAreOf(l, g)
    BY <1>2 DEF IsSound, RoutesAreOf
<1>4. ActiveIsCurrent(l, act, g)
    BY <1>2 DEF IsSound, ActiveIsCurrent
<1>5. RoutedAgents(l) = RoutedAgents(k)
    BY <1>2 DEF RoutedAgents
<1>6. IsAcyclic(l)
    BY <1>2, <1>5, AcyclicStays DEF IsSound
<1>7. IsBounded(l)
    BY <1>2, <1>5 DEF IsSound, IsBounded
<1>8. ASSUME NEW a \in Agents \ more
      PROVE  IsEvictable(l, act, a)
    <2>1. CASE a \in but
        BY <2>1, <1>2 DEF IsEvictable
    <2>2. CASE a \notin but
        BY <2>2, <1>2 DEF IsSound, IsEvictable, IsFinished
    <2> QED
        BY <2>1, <2>2
<1>9. IsSound(l, act, g, more)
    BY <1>2, <1>3, <1>4, <1>6, <1>7, <1>8 DEF IsSound
<1>10. \A b \in Agents : Fades(k, l, b)
    BY <1>2 DEF Fades
<1> QED
    BY <1>9, <1>10 DEF l

\* Two steps that may forget an agent are such a step.
LEMMA FadesTwice ==
    ASSUME NEW k, NEW l, NEW m, NEW b, Fades(k, l, b), Fades(l, m, b)
    PROVE  Fades(k, m, b)
BY DEF Fades

\* Making room: at most the oldest finished agent is forgotten.
LEMMA MakeRoomKeeps ==
    ASSUME NEW k, NEW g, NEW h, scenario \in Scenarios, IsSound(k, active, g, {})
    PROVE  /\ IsSound(MakeRoom(k, h), active, g, {})
           /\ \A b \in Agents : Fades(k, MakeRoom(k, h), b)
<1> DEFINE q == k.order
           oldest == Head(q)
           rest == Tail(q)
<1>1. k \in Registries /\ q \in Seq(Agents)
    BY DEF IsSound, Registries
<1>2. CASE ~IsFull(k, h) \/ q = <<>>
    BY <1>2 DEF MakeRoom, Fades
<1>3. CASE IsFull(k, h) /\ q # <<>>
    <2>1. /\ oldest \in Agents /\ rest \in Seq(Agents) /\ Len(rest) = Len(q) - 1
          /\ ToSetOf(q) \subseteq ToSetOf(rest) \cup {oldest}
          /\ Distinct(rest) /\ oldest \notin ToSetOf(rest)
          /\ Len(q) <= Room /\ Len(q) \in Nat
        BY <1>1, <1>3, TailKeeps DEF IsSound, IsBounded
    <2> HIDE DEF oldest, rest
    <2>2. CASE active[oldest] # NoActive
        <3> DEFINE r == Append(rest, oldest)
        <3>1. r \in Seq(Agents) /\ Len(r) = Len(rest) + 1 /\ Distinct(r)
              /\ ToSetOf(r) = ToSetOf(rest) \cup {oldest}
            BY <2>1, AppendKeeps
        <3>2. MakeRoom(k, h) = [k EXCEPT !.order = r]
            BY <1>3, <2>2 DEF MakeRoom, oldest, rest
        <3> HIDE DEF r
        <3>3. Len(r) <= Room
            BY <2>1, <3>1
        <3>4. \A a \in Agents \ {} : a \in ToSetOf(k.order) => a \in ToSetOf(r) \/ a \in {}
            BY <2>1, <3>1
        <3> DEFINE none == {}
        <3>5. /\ none \in SUBSET Agents /\ \A a \in none \ none : a \in ToSetOf(r)
              /\ IsSound(k, active, g, none)
              /\ \A a \in Agents \ none : a \in ToSetOf(k.order) => a \in ToSetOf(r) \/ a \in none
            BY <3>4
        <3> HIDE DEF none
        <3>6. /\ IsSound([k EXCEPT !.order = r], active, g, none)
              /\ \A b \in Agents : Fades(k, [k EXCEPT !.order = r], b)
            BY <3>1, <3>3, <3>5, ReorderKeeps
        <3> QED
            BY <3>2, <3>6 DEF none
    <2>3. CASE active[oldest] = NoActive
        <3> DEFINE l == [k EXCEPT !.order = rest]
        <3>1. MakeRoom(k, h) = Evict(l, oldest)
            BY <1>3, <2>3 DEF MakeRoom, oldest, rest
        <3>2. Len(rest) <= Room
            BY <2>1, BoundsAreNumbers
        <3>3. {oldest} \in SUBSET Agents
            BY <2>1
        <3>4. \A a \in Agents \ {} : a \in ToSetOf(k.order) => a \in ToSetOf(rest) \/ a \in {oldest}
            BY <2>1
        <3>5. IsSound(l, active, g, {oldest}) /\ \A b \in Agents : Fades(k, l, b)
            BY <2>1, <3>2, <3>3, <3>4, ReorderKeeps
        <3> HIDE DEF l
        <3>6. IsSound(Evict(l, oldest), active, g, {})
              /\ \A b \in Agents : Fades(l, Evict(l, oldest), b)
            BY <2>1, <2>3, <3>5, EvictKeeps
        <3> QED
            BY <3>1, <3>5, <3>6, FadesTwice
    <2> QED
        BY <2>2, <2>3
<1> QED
    BY <1>2, <1>3

\* One agent more may have to be put into the order, or one less.
LEMMA ButOne ==
    ASSUME NEW k, NEW act, NEW g, NEW a \in Agents
    PROVE  /\ IsSound(k, act, g, {}) => IsSound(k, act, g, {a})
           /\ IsSound(k, act, g, {a}) /\ IsEvictable(k, act, a) => IsSound(k, act, g, {})
<1>1. ASSUME IsSound(k, act, g, {})
      PROVE  IsSound(k, act, g, {a})
    BY <1>1 DEF IsSound
<1>2. ASSUME IsSound(k, act, g, {a}), IsEvictable(k, act, a)
      PROVE  IsSound(k, act, g, {})
    BY <1>2 DEF IsSound
<1> QED
    BY <1>1, <1>2

\* The interrupt of an agent is nothing to the rest.
LEMMA InterruptKeeps ==
    ASSUME NEW k, NEW act, NEW g, NEW but, IsSound(k, act, g, but), NEW a \in Agents,
           NEW x \in Attempts, NEW l, l = [k EXCEPT !.interrupt[a] = x]
    PROVE  /\ IsSound(l, act, g, but)
           /\ l.route = k.route /\ l.current = k.current /\ l.terminals = k.terminals
           /\ l.interrupt = [k.interrupt EXCEPT ![a] = x]
<1>1. k \in Registries
    BY DEF IsSound
<1>2. /\ l \in Registries
      /\ l.route = k.route /\ l.current = k.current /\ l.terminals = k.terminals
      /\ l.turnOrder = k.turnOrder /\ l.order = k.order
      /\ l.interrupt = [k.interrupt EXCEPT ![a] = x]
    BY <1>1 DEF Registries
<1>3. RoutesAreOf(l, g) /\ ActiveIsCurrent(l, act, g)
    BY <1>2 DEF IsSound, RoutesAreOf, ActiveIsCurrent
<1>4. RoutedAgents(l) = RoutedAgents(k)
    BY <1>2 DEF RoutedAgents
<1>5. IsAcyclic(l)
    BY <1>2, <1>4, AcyclicStays DEF IsSound
<1>6. IsBounded(l)
    BY <1>2, <1>4 DEF IsSound, IsBounded
<1>7. \A b \in Agents \ but : IsEvictable(l, act, b)
    BY <1>2 DEF IsSound, IsEvictable, IsFinished
<1>8. IsSound(l, act, g, but)
    BY <1>2, <1>3, <1>5, <1>6, <1>7 DEF IsSound
<1> QED
    BY <1>2, <1>8

\* A turn ends.
LEMMA RetiredKeeps ==
    ASSUME NEW k, NEW act, NEW g, NEW a \in Agents, IsSound(k, act, g, {}), NEW other,
           \A b \in Agents \ {a} : other[b] = act[b], other[a] \in {act[a], NoActive}
    PROVE  IsSound(k, other, g, {a})
<1>1. ActiveIsCurrent(k, other, g)
    BY DEF IsSound, ActiveIsCurrent
<1>2. \A b \in Agents \ {a} : IsEvictable(k, other, b)
    BY DEF IsSound, IsEvictable, IsFinished
<1> QED
    BY <1>1, <1>2 DEF IsSound

\* A mark is put to a turn, which is the last that is forgotten.
Marked(k, a, t, mark) == KeepTurn([k EXCEPT !.terminals[a][t] = mark], a, t)

\* The fields of the registry once the end of a turn is recorded.
LEMMA MarkedFields ==
    ASSUME NEW k \in Registries, NEW a \in Agents, NEW t, NEW mark
    PROVE  /\ Marked(k, a, t, mark).route = k.route
           /\ Marked(k, a, t, mark).current = k.current
           /\ Marked(k, a, t, mark).order = k.order
           /\ Marked(k, a, t, mark).interrupt = k.interrupt
BY DEF Marked, KeepTurn, Registries

\* It is put to the turn or forgotten at once, and the others stay or are forgotten.
LEMMA MarkedKeeps ==
    ASSUME NEW k, NEW act, NEW g, NEW a \in Agents, NEW t \in TurnKeys, NEW mark \in Marks,
           IsSound(k, act, g, {a}), mark = "none" \/ act[a] = NoActive \/ act[a].turn # t,
           NEW l, l = Marked(k, a, t, mark)
    PROVE  /\ IsSound(l, act, g, {a})
           /\ l.terminals[a][t] \in {mark, "none"}
           /\ \A u \in TurnKeys \ {t} : l.terminals[a][u] \in {k.terminals[a][u], "none"}
<1> DEFINE k1 == [k EXCEPT !.terminals[a][t] = mark]
           less == WithoutItem(k.turnOrder[a], t)
           order == Append(less, t)
           over == Len(order) > MaxRetainedTurns
<1>1. k \in Registries /\ k.turnOrder[a] \in Seq(TurnKeys)
    BY DEF IsSound, Registries
<1>2. /\ k1 \in Registries /\ k1.route = k.route /\ k1.current = k.current
      /\ k1.turnOrder = k.turnOrder /\ k1.order = k.order /\ k1.interrupt = k.interrupt
      /\ k1.terminals = [k.terminals EXCEPT ![a] = [k.terminals[a] EXCEPT ![t] = mark]]
    BY <1>1 DEF Registries
<1> HIDE DEF k1
<1>3. /\ less \in Seq(TurnKeys) /\ Len(less) <= Len(k.turnOrder[a])
      /\ ToSetOf(k.turnOrder[a]) \subseteq ToSetOf(less) \cup {t}
    BY <1>1, WithoutItemKeeps
<1> HIDE DEF less
<1>4. /\ order \in Seq(TurnKeys) /\ Len(order) = Len(less) + 1
      /\ ToSetOf(order) = ToSetOf(less) \cup {t} /\ order # <<>>
    BY <1>3, AppendKeeps
<1> HIDE DEF order
<1>5. /\ Head(order) \in TurnKeys /\ Tail(order) \in Seq(TurnKeys)
      /\ Len(Tail(order)) = Len(order) - 1
      /\ ToSetOf(order) \subseteq ToSetOf(Tail(order)) \cup {Head(order)}
    BY <1>4, TailKeeps
<1>6. l = [k1 EXCEPT !.turnOrder[a] = IF over THEN Tail(order) ELSE order,
                     !.terminals[a] = IF over THEN [@ EXCEPT ![Head(order)] = "none"] ELSE @]
    BY <1>2 DEF Marked, KeepTurn, k1, order, less
<1> DEFINE order1 == IF over THEN Tail(order) ELSE order
           marks == [k.terminals[a] EXCEPT ![t] = mark]
           marks1 == IF over THEN [marks EXCEPT ![Head(order)] = "none"] ELSE marks
<1>7. order1 \in Seq(TurnKeys) /\ Len(order1) <= MaxRetainedTurns
    <2>1. Len(k.turnOrder[a]) <= MaxRetainedTurns
        BY DEF IsSound, IsBounded
    <2>2. Len(k.turnOrder[a]) \in Nat /\ Len(less) \in Nat /\ Len(order) \in Nat
        BY <1>1, <1>3, <1>4
    <2> QED
        BY <1>3, <1>4, <1>5, <2>1, <2>2, BoundsAreNumbers
<1>8. marks \in [TurnKeys -> Marks] /\ marks[t] = mark
      /\ \A u \in TurnKeys \ {t} : marks[u] = k.terminals[a][u]
    BY <1>1 DEF Registries
<1> HIDE DEF marks
<1>9. /\ marks1 \in [TurnKeys -> Marks]
      /\ \A u \in TurnKeys : marks1[u] \in {marks[u], "none"}
      /\ over => marks1[Head(order)] = "none"
    BY <1>5, <1>8 DEF Marks
<1>10. \A u \in TurnKeys : marks1[u] # "none" => u \in ToSetOf(order1)
    <2> SUFFICES ASSUME NEW u \in TurnKeys, marks1[u] # "none" PROVE u \in ToSetOf(order1)
        OBVIOUS
    <2>1. marks[u] # "none"
        BY <1>9
    <2>2. u \in ToSetOf(order)
        <3>1. u # t => u \in ToSetOf(k.turnOrder[a])
            BY <1>8, <2>1 DEF IsSound, IsBounded
        <3> QED
            BY <3>1, <1>3, <1>4
    <2> QED
        BY <2>2, <1>5, <1>9
<1>11. k1.terminals[a] = marks
    BY <1>1, <1>2 DEF Registries, marks
<1> HIDE DEF order1, marks1
<1> DEFINE orders == [k1.turnOrder EXCEPT ![a] = order1]
           terms == [k1.terminals EXCEPT ![a] = marks1]
<1>12. l = [k1 EXCEPT !.turnOrder = orders, !.terminals = terms]
    BY <1>6, <1>11 DEF order1, marks1
<1>13. /\ l \in Registries
       /\ l.route = k.route /\ l.current = k.current /\ l.interrupt = k.interrupt
       /\ l.order = k.order
       /\ l.turnOrder = [k.turnOrder EXCEPT ![a] = order1]
       /\ l.terminals = [k1.terminals EXCEPT ![a] = marks1]
    <2>1. orders \in [Agents -> Seq(TurnKeys)] /\ terms \in [Agents -> [TurnKeys -> Marks]]
        BY <1>2, <1>7, <1>9 DEF Registries
    <2>2. orders = [k.turnOrder EXCEPT ![a] = order1]
        BY <1>2
    <2> HIDE DEF orders, terms
    <2>3. /\ l \in Registries
          /\ l.route = k1.route /\ l.current = k1.current /\ l.interrupt = k1.interrupt
          /\ l.order = k1.order /\ l.turnOrder = orders /\ l.terminals = terms
        BY <1>2, <1>12, <2>1 DEF Registries
    <2> QED
        BY <1>2, <2>2, <2>3 DEF terms
<1>14. l.turnOrder[a] = order1 /\ l.terminals[a] = marks1
    BY <1>1, <1>2, <1>13 DEF Registries
<1>15. \A b \in Agents : b # a =>
           l.turnOrder[b] = k.turnOrder[b] /\ l.terminals[b] = k.terminals[b]
    BY <1>1, <1>2, <1>13 DEF Registries
<1>16. l.terminals[a][t] \in {mark, "none"}
       /\ \A u \in TurnKeys \ {t} : l.terminals[a][u] \in {k.terminals[a][u], "none"}
    BY <1>8, <1>9, <1>14
<1>17. RoutesAreOf(l, g)
    BY <1>13 DEF IsSound, RoutesAreOf
<1>18. ActiveIsCurrent(l, act, g)
    <2> SUFFICES ASSUME NEW b \in Agents, act[b] # NoActive
                 PROVE  l.terminals[b][act[b].turn] = "none"
        BY <1>13 DEF IsSound, ActiveIsCurrent
    <2>1. k.terminals[b][act[b].turn] = "none" /\ act[b].turn \in Turns
        BY DEF IsSound, ActiveIsCurrent
    <2>2. act[b].turn \in TurnKeys
        BY <2>1 DEF TurnKeys
    <2> QED
        BY <2>1, <2>2, <1>15, <1>16
<1>19. RoutedAgents(l) = RoutedAgents(k)
    BY <1>13 DEF RoutedAgents
<1>20. IsAcyclic(l)
    BY <1>13, <1>19, AcyclicStays DEF IsSound
<1>21. IsBounded(l)
    <2>1. ASSUME NEW b \in Agents
          PROVE  /\ Len(l.turnOrder[b]) <= MaxRetainedTurns
                 /\ \A u \in TurnKeys : l.terminals[b][u] # "none" => u \in ToSetOf(l.turnOrder[b])
        <3>1. CASE b = a
            BY <3>1, <1>7, <1>10, <1>14
        <3>2. CASE b # a
            BY <3>2, <1>15 DEF IsSound, IsBounded
        <3> QED
            BY <3>1, <3>2
    <2> QED
        BY <2>1, <1>13, <1>19 DEF IsSound, IsBounded
<1>22. \A b \in Agents \ {a} : IsEvictable(l, act, b)
    BY <1>13, <1>15 DEF IsSound, IsEvictable, IsFinished
<1>23. IsSound(l, act, g, {a})
    BY <1>13, <1>17, <1>18, <1>20, <1>21, <1>22 DEF IsSound
<1> QED
    BY <1>13, <1>16, <1>23

\* An agent is put last into the order; the first gives way to it.
LEMMA KeepAgentKeeps ==
    ASSUME NEW k, NEW act, NEW g, NEW a \in Agents, IsSound(k, act, g, {a}),
           scenario \in Scenarios
    PROVE  /\ IsSound(KeepAgent(k, a, Running(act)), act, g, {})
           /\ \A b \in Agents : Fades(k, KeepAgent(k, a, Running(act)), b)
<1> DEFINE less == WithoutItem(k.order, a)
           order == Append(less, a)
           first == Head(order)
           rest == Tail(order)
           none == {}
<1>1. k.order \in Seq(Agents) /\ Distinct(k.order) /\ Len(k.order) <= Room
    BY DEF IsSound, IsBounded, Registries
<1>2. /\ less \in Seq(Agents) /\ Len(less) <= Len(k.order)
      /\ ToSetOf(k.order) \subseteq ToSetOf(less) \cup {a}
      /\ Distinct(less) /\ a \notin ToSetOf(less)
    BY <1>1, WithoutItemKeeps
<1> HIDE DEF less
<1>3. /\ order \in Seq(Agents) /\ Len(order) = Len(less) + 1 /\ order # <<>>
      /\ ToSetOf(order) = ToSetOf(less) \cup {a} /\ Distinct(order)
    BY <1>2, AppendKeeps
<1> HIDE DEF order
<1>4. /\ first \in Agents /\ rest \in Seq(Agents) /\ Len(rest) = Len(order) - 1
      /\ ToSetOf(order) \subseteq ToSetOf(rest) \cup {first} /\ Distinct(rest)
    BY <1>3, TailKeeps
<1>5. KeepAgent(k, a, Running(act)) =
          LET k1 == [k EXCEPT !.order = IF Len(order) > Room THEN rest ELSE order]
          IN  IF Len(order) > Room /\ first \notin Running(act) THEN Evict(k1, first) ELSE k1
    BY DEF KeepAgent, order, less
<1> HIDE DEF first, rest
<1>6. CASE ~(Len(order) > Room)
    <2>1. Len(order) \in Nat /\ Len(order) <= Room
        BY <1>3, <1>6, BoundsAreNumbers
    <2>2. /\ none \in SUBSET Agents
          /\ \A b \in Agents \ {a} : b \in ToSetOf(k.order) => b \in ToSetOf(order) \/ b \in none
          /\ \A b \in {a} \ none : b \in ToSetOf(order)
        BY <1>2, <1>3
    <2> HIDE DEF none
    <2>3. order \in Seq(Agents) /\ Distinct(order)
        BY <1>3
    <2>4. /\ IsSound([k EXCEPT !.order = order], act, g, none)
          /\ \A b \in Agents : Fades(k, [k EXCEPT !.order = order], b)
        BY <2>1, <2>2, <2>3, ReorderKeeps
    <2>5. KeepAgent(k, a, Running(act)) = [k EXCEPT !.order = order]
        BY <1>5, <1>6
    <2> QED
        BY <2>4, <2>5 DEF none
<1>7. CASE Len(order) > Room
    <2> DEFINE l == [k EXCEPT !.order = rest]
    <2>1. Len(rest) <= Room
        <3>1. Len(order) \in Nat /\ Len(less) \in Nat /\ Len(k.order) \in Nat
            BY <1>1, <1>2, <1>3
        <3> QED
            BY <3>1, <1>1, <1>2, <1>3, <1>4, BoundsAreNumbers
    <2>2. /\ {first} \in SUBSET Agents
          /\ \A b \in Agents \ {a} : b \in ToSetOf(k.order) => b \in ToSetOf(rest) \/ b \in {first}
          /\ \A b \in {a} \ {first} : b \in ToSetOf(rest)
        BY <1>2, <1>3, <1>4
    <2>3. IsSound(l, act, g, {first}) /\ \A b \in Agents : Fades(k, l, b)
        BY <1>4, <2>1, <2>2, ReorderKeeps
    <2> HIDE DEF l
    <2>4. CASE first \in Running(act)
        <3>1. IsEvictable(l, act, first)
            BY <2>4 DEF IsEvictable, IsFinished, Running
        <3>2. IsSound(l, act, g, {})
            BY <2>3, <3>1, <1>4, ButOne
        <3>3. KeepAgent(k, a, Running(act)) = l
            BY <1>5, <1>7, <2>4 DEF l
        <3> QED
            BY <2>3, <3>2, <3>3
    <2>5. CASE first \notin Running(act)
        <3>1. act[first] = NoActive
            BY <2>5, <1>4 DEF Running
        <3>2. IsSound(Evict(l, first), act, g, {}) /\ \A b \in Agents : Fades(l, Evict(l, first), b)
            BY <2>3, <3>1, <1>4, EvictKeeps
        <3>3. KeepAgent(k, a, Running(act)) = Evict(l, first)
            BY <1>5, <1>7, <2>5 DEF l
        <3> QED
            BY <2>3, <3>2, <3>3, FadesTwice
    <2> QED
        BY <2>4, <2>5
<1> QED
    BY <1>6, <1>7

\* The truth about a turn that is not active (any more) is remembered.
LEMMA RememberedKeeps ==
    ASSUME NEW k, NEW act, NEW g, NEW a \in Agents, NEW t \in TurnKeys, IsSound(k, act, g, {a}),
           act[a] = NoActive \/ act[a].turn # t, scenario \in Scenarios
    PROVE  /\ IsSound(Remembered(k, a, t, Running(act)), act, g, {})
           /\ \A b \in Agents : Fades(k, Remembered(k, a, t, Running(act)), b)
<1> DEFINE truth == "authoritative"
           l == Marked(k, a, t, truth)
           m == KeepAgent(l, a, Running(act))
<1>1. Remembered(k, a, t, Running(act)) = m
    BY DEF Remembered, Marked
<1>2. truth \in Marks
    BY DEF Marks
<1> HIDE DEF truth, m
<1> HIDE DEF l
<1>3. /\ IsSound(l, act, g, {a})
      /\ l.route = k.route /\ l.current = k.current /\ l.interrupt = k.interrupt
    <2>1. act[a] = NoActive \/ act[a].turn # t
        OBVIOUS
    <2>2. IsSound(k, act, g, {a})
        OBVIOUS
    <2>3. l = Marked(k, a, t, truth)
        BY DEF l
    <2>4. IsSound(l, act, g, {a})
        BY <1>2, <2>1, <2>2, <2>3, MarkedKeeps, ZenonT(30)
    <2>5. k \in Registries
        BY DEF IsSound
    <2> QED
        BY <2>4, <2>5, MarkedFields DEF l
<1>4. IsSound(m, act, g, {}) /\ \A b \in Agents : Fades(l, m, b)
    BY <1>3, KeepAgentKeeps DEF m
<1> HIDE DEF m
<1>5. \A b \in Agents : Fades(k, m, b)
    BY <1>3, <1>4 DEF Fades
<1> QED
    BY <1>1, <1>4, <1>5

\* What a step may do to what is kept of an agent: forget it, or route it; while it is routed
\* its parent stays, and its launch turn once that is known.  Its interrupt stays as well while
\* a watchdog has the lock.
Stays(k, l, a) ==
    /\ l.current[a] \in {k.current[a], 0}
    /\ l.interrupt[a] \in {k.interrupt[a], NoInterrupt}
    /\ ~LifecycleFree /\ k.route[a] # NoRoute /\ l.route[a] # NoRoute =>
          l.interrupt[a] = k.interrupt[a]
    /\ k.route[a] # NoRoute /\ l.route[a] # NoRoute =>
          /\ l.route[a].gen = k.route[a].gen
          /\ l.route[a].parent = k.route[a].parent
          /\ k.route[a].launch \in {0, l.route[a].launch}

\* An agent that may be forgotten stays.
LEMMA FadesStays ==
    ASSUME NEW k, NEW l, NEW m, NEW a
    PROVE  /\ Fades(k, l, a) => Stays(k, l, a)
           /\ Stays(k, l, a) /\ Fades(l, m, a) => Stays(k, m, a)
           /\ Fades(k, l, a) /\ Stays(l, m, a) /\ (k.route[a] # NoRoute => m.route[a] = NoRoute \/ l.route[a] # NoRoute)
              => Stays(k, m, a)
<1>1. Fades(k, l, a) => Stays(k, l, a)
    BY DEF Fades, Stays
<1>2. Stays(k, l, a) /\ Fades(l, m, a) => Stays(k, m, a)
    BY DEF Fades, Stays
<1>3. Fades(k, l, a) /\ Stays(l, m, a) /\ (k.route[a] # NoRoute => m.route[a] = NoRoute \/ l.route[a] # NoRoute)
          => Stays(k, m, a)
    BY DEF Fades, Stays
<1> QED
    BY <1>1, <1>2, <1>3

\* A child gets another launch turn.
LEMMA RelaunchKeeps ==
    ASSUME NEW k, NEW act, NEW g, IsSound(k, act, g, {}), NEW c \in RoutedAgents(k),
           NEW launch \in 0 .. MaxTurns, k.route[c].parent # NoThread
    PROVE  /\ IsSound([k EXCEPT !.route[c].launch = LaunchOf(k.route[c], launch)], act, g, {})
           /\ RoutedAgents([k EXCEPT !.route[c].launch = LaunchOf(k.route[c], launch)]) = RoutedAgents(k)
           /\ \A b \in Agents : Stays(k, [k EXCEPT !.route[c].launch = LaunchOf(k.route[c], launch)], b)
<1> DEFINE new == LaunchOf(k.route[c], launch)
           l == [k EXCEPT !.route[c].launch = new]
           r == [k.route[c] EXCEPT !.launch = new]
           routes == [k.route EXCEPT ![c] = r]
<1>1. k \in Registries /\ c \in Agents /\ k.route[c] # NoRoute /\ k.route[c] \in Routes
    BY DEF IsSound, RoutedAgents, Registries
<1>2. r \in Routes /\ r.gen = k.route[c].gen /\ r.parent = k.route[c].parent
      /\ k.route[c].launch \in {0, r.launch}
    BY <1>1 DEF LaunchOf, Routes
<1> HIDE DEF new
<1>3. l = [k EXCEPT !.route = routes]
    OBVIOUS
<1> HIDE DEF r
<1>4. routes \in [Agents -> Routes] /\ routes[c] = r /\ \A b \in Agents \ {c} : routes[b] = k.route[b]
    BY <1>1, <1>2 DEF Registries
<1> HIDE DEF routes, l
<1>5. /\ l \in Registries
      /\ l.route = routes /\ l.current = k.current /\ l.terminals = k.terminals
      /\ l.turnOrder = k.turnOrder /\ l.order = k.order /\ l.interrupt = k.interrupt
    BY <1>1, <1>3, <1>4 DEF Registries
<1>6. r # NoRoute
    BY <1>2 DEF NoRoute
<1>7. RoutesAreOf(l, g)
    BY <1>1, <1>2, <1>4, <1>5, <1>6 DEF IsSound, RoutesAreOf
<1>8. ActiveIsCurrent(l, act, g)
    BY <1>1, <1>4, <1>5, <1>6 DEF IsSound, ActiveIsCurrent
<1>9. RoutedAgents(l) = RoutedAgents(k) /\ \A b \in RoutedAgents(l) : l.route[b].parent = k.route[b].parent
    BY <1>1, <1>2, <1>4, <1>5, <1>6 DEF RoutedAgents
<1>10. IsAcyclic(l)
    BY <1>9, AcyclicStays DEF IsSound
<1>11. IsBounded(l)
    BY <1>5, <1>9 DEF IsSound, IsBounded
<1>12. \A b \in Agents : IsEvictable(l, act, b)
    BY <1>1, <1>4, <1>5, <1>6 DEF IsSound, IsEvictable, IsFinished
<1>13. IsSound(l, act, g, {})
    BY <1>5, <1>7, <1>8, <1>10, <1>11, <1>12 DEF IsSound
<1>14. ASSUME NEW b \in Agents
       PROVE  Stays(k, l, b)
    BY <1>2, <1>4, <1>5 DEF Stays
<1> QED
    BY <1>9, <1>13, <1>14 DEF l, new

\* A child gets a route.
LEMMA RouteKeeps ==
    ASSUME NEW k, NEW act, NEW g \in 0 .. MaxGeneration, IsSound(k, act, g, {}),
           NEW c \in Agents, c \notin RoutedAgents(k), NEW p \in Threads,
           NEW launch \in 0 .. MaxTurns,
           c \notin Ancestors(k, p), ~IsFull(k, g), scenario \in Scenarios,
           NEW r, r = [gen |-> g, parent |-> p, launch |-> launch],
           NEW l, l = [k EXCEPT !.route[c] = r]
    PROVE  /\ IsSound(l, act, g, {})
           /\ RoutedAgents(l) = RoutedAgents(k) \cup {c}
           /\ \A b \in Agents : Stays(k, l, b)
<1> DEFINE routes == [k.route EXCEPT ![c] = r]
<1>1. k \in Registries /\ k.route[c] = NoRoute
    BY DEF IsSound, RoutedAgents
<1>2. r \in Routes /\ r.gen = g /\ r.parent = p /\ r # NoRoute
    BY SubagentsAssumption DEF Routes, NoRoute, Threads
<1>3. l = [k EXCEPT !.route = routes]
    OBVIOUS
<1>4. routes \in [Agents -> Routes] /\ routes[c] = r /\ \A b \in Agents \ {c} : routes[b] = k.route[b]
    BY <1>1, <1>2 DEF Registries
<1> HIDE DEF routes
<1>5. /\ l \in Registries
      /\ l.route = routes /\ l.current = k.current /\ l.terminals = k.terminals
      /\ l.turnOrder = k.turnOrder /\ l.order = k.order /\ l.interrupt = k.interrupt
    BY <1>1, <1>3, <1>4 DEF Registries
<1>6. k.current[c] = 0
    BY <1>1 DEF IsSound, RoutesAreOf
<1>7. RoutesAreOf(l, g)
    BY <1>2, <1>4, <1>5 DEF IsSound, RoutesAreOf
<1>8. ActiveIsCurrent(l, act, g)
    BY <1>2, <1>4, <1>5 DEF IsSound, ActiveIsCurrent
<1>9. RoutedAgents(l) = RoutedAgents(k) \cup {c}
      /\ \A b \in RoutedAgents(k) : l.route[b].parent = k.route[b].parent
    BY <1>1, <1>2, <1>4, <1>5 DEF RoutedAgents
<1>10. IsAcyclic(l)
    <2>1. c \notin Ancestors(k, l.route[c].parent)
        BY <1>2, <1>4, <1>5
    <2> QED
        BY <2>1, <1>9, AcyclicGrows DEF IsSound
<1>11. IsBounded(l)
    <2> DEFINE R == RoutedAgents(k)
               M == Retained(k, g)
    <2>1. R \subseteq M
        BY DEF IsSound, RoutesAreOf, RoutedAgents, Retained
    <2>2. IsFiniteSet(R) /\ IsFiniteSet(M)
        BY SubagentsAssumption, FS_Subset DEF RoutedAgents, Retained
    <2>3. Cardinality(R) <= Cardinality(M) /\ Cardinality(R) \in Nat /\ Cardinality(M) \in Nat
        BY <2>1, <2>2, FS_Subset, FS_CardinalityType
    <2>4. ~(Cardinality(M) >= Room)
        BY DEF IsFull
    <2>5. Cardinality(R \cup {c}) = Cardinality(R) + 1
        BY <2>2, FS_AddElement
    <2> HIDE DEF R, M
    <2>6. Cardinality(R \cup {c}) <= Room
        BY <2>3, <2>4, <2>5, BoundsAreNumbers
    <2> QED
        BY <2>6, <1>5, <1>9 DEF IsSound, IsBounded, R
<1>12. \A b \in Agents : IsEvictable(l, act, b)
    BY <1>4, <1>5, <1>6 DEF IsSound, IsEvictable, IsFinished
<1>13. IsSound(l, act, g, {})
    BY <1>5, <1>7, <1>8, <1>10, <1>11, <1>12 DEF IsSound
<1>14. \A b \in Agents : Stays(k, l, b)
    BY <1>1, <1>4, <1>5 DEF Stays
<1> QED
    BY <1>9, <1>13, <1>14

\* Whatever establish_child_route does, the registry stays sound, and only the child that is
\* routed afterwards can have got a route.
LEMMA EstablishKeeps ==
    ASSUME NEW k, IsSound(k, active, generation, {}), scenario \in Scenarios,
           generation \in 0 .. MaxGeneration,
           NEW c \in Agents, NEW p \in Threads, NEW h, NEW launch \in 0 .. MaxTurns,
           NEW x, x = Establish(k, c, p, h, launch)
    PROVE  /\ IsSound(x.kept, active, generation, {})
           /\ \A b \in Agents : Stays(k, x.kept, b)
           /\ RoutedAgents(x.kept) \subseteq RoutedAgents(k) \cup (IF x.ok THEN {c} ELSE {})
           /\ x.ok \in BOOLEAN
           /\ x.ok => c \in RoutedAgents(x.kept) /\ h = generation /\ IsRouted(x.kept, p)
<1> DEFINE k1 == IF c \in RoutedAgents(k) THEN k ELSE MakeRoom(k, h)
           old == k1.route[c]
<1>1. /\ IsSound(k1, active, generation, {})
      /\ \A b \in Agents : Fades(k, k1, b)
      /\ c \in RoutedAgents(k) => k1 = k
    BY MakeRoomKeeps DEF Fades
<1>2. RoutedAgents(k1) \subseteq RoutedAgents(k)
    BY <1>1 DEF Fades, RoutedAgents
<1>3. \A b \in Agents : Stays(k, k1, b)
    BY <1>1, FadesStays
<1>4. CASE c = p
    <2>1. x = [kept |-> k, ok |-> FALSE]
        BY <1>4 DEF Establish
    <2>2. \A b \in Agents : Stays(k, k, b)
        BY DEF Stays
    <2> QED
        BY <2>1, <2>2
<1>5. ASSUME x = [kept |-> k1, ok |-> FALSE]
      PROVE  /\ IsSound(x.kept, active, generation, {})
             /\ \A b \in Agents : Stays(k, x.kept, b)
             /\ RoutedAgents(x.kept) \subseteq RoutedAgents(k) \cup (IF x.ok THEN {c} ELSE {})
             /\ x.ok = FALSE
    <2> HIDE DEF k1
    <2>1. x.kept = k1 /\ x.ok = FALSE
        BY <1>5
    <2> QED
        BY <2>1, <1>1, <1>2, <1>3
<1>6. CASE c # p /\ ~IsAdmissible(k1, c, p, h)
    <2>1. x = [kept |-> k1, ok |-> FALSE]
        BY <1>6 DEF Establish
    <2> HIDE DEF k1
    <2> QED
        BY <2>1, <1>5
<1>7. CASE c # p /\ IsAdmissible(k1, c, p, h)
    <2>1. /\ h = generation
          /\ c \notin Ancestors(k1, p)
          /\ IsRouted(k1, p)
        <3> HIDE DEF k1
        <3>1. IsRouted(k1, p) /\ RouteGeneration(k1, p) = h /\ c \notin Ancestors(k1, p)
            BY <1>7 DEF IsAdmissible, IsBelowRoot
        <3> QED
            BY <3>1, <1>1 DEF IsRouted, RouteGeneration, IsSound, RoutesAreOf, RoutedAgents
    <2>2. CASE old # NoRoute
        <3>1. c \in RoutedAgents(k1)
            BY <2>2 DEF RoutedAgents
        <3>2. CASE old.gen = h /\ old.parent = p
            <4> DEFINE l == [k1 EXCEPT !.route[c].launch = LaunchOf(k1.route[c], launch)]
            <4>1. x = [kept |-> l, ok |-> TRUE]
                BY <1>7, <2>2, <3>2 DEF Establish
            <4>2. c \in RoutedAgents(k) /\ k1 = k
                BY <3>1, <1>1, <1>2
            <4>3. k1.route[c].parent # NoThread
                BY <3>2, SubagentsAssumption DEF Threads
            <4>4. IsSound(l, active, generation, {}) /\ RoutedAgents(l) = RoutedAgents(k1)
                  /\ \A b \in Agents : Stays(k1, l, b)
                <5> HIDE DEF k1
                <5> QED
                    BY <1>1, <3>1, <4>3, RelaunchKeeps
            <4>5. IsRouted(l, p)
                BY <2>1, <4>4 DEF IsRouted
            <4>6. x.kept = l /\ x.ok = TRUE
                BY <4>1
            <4> HIDE DEF l, k1
            <4> QED
                BY <4>2, <4>4, <4>5, <4>6, <3>1, <2>1
        <3>3. CASE ~(old.gen = h /\ old.parent = p)
            <4>1. x = [kept |-> k1, ok |-> FALSE]
                BY <1>7, <2>2, <3>3 DEF Establish
            <4> HIDE DEF k1
            <4> QED
                BY <4>1, <1>5
        <3> QED
            BY <3>2, <3>3
    <2>3. CASE old = NoRoute /\ IsFull(k1, h)
        <3>1. x = [kept |-> k1, ok |-> FALSE]
            BY <1>7, <2>3 DEF Establish
        <3> HIDE DEF k1
        <3> QED
            BY <3>1, <1>5
    <2>4. CASE old = NoRoute /\ ~IsFull(k1, h)
        <3> DEFINE r == [gen |-> h, parent |-> p, launch |-> launch]
                   l == [k1 EXCEPT !.route[c] = r]
        <3>1. x = [kept |-> l, ok |-> TRUE]
            BY <1>7, <2>4 DEF Establish
        <3>2. c \notin RoutedAgents(k1) /\ c \notin RoutedAgents(k)
            BY <1>1, <2>4 DEF RoutedAgents
        <3> HIDE DEF k1
        <3>3. /\ IsSound(l, active, generation, {})
              /\ RoutedAgents(l) = RoutedAgents(k1) \cup {c}
              /\ \A b \in Agents : Stays(k1, l, b)
            BY <1>1, <2>1, <2>4, <3>2, RouteKeeps
        <3>4. x.kept = l /\ x.ok = TRUE
            BY <3>1
        <3> HIDE DEF l
        <3>5. IsRouted(l, p)
            BY <2>1, <3>3 DEF IsRouted
        <3>6. \A b \in Agents : Stays(k, l, b)
            <4> SUFFICES ASSUME NEW b \in Agents PROVE Stays(k, l, b)
                OBVIOUS
            <4>1. k.route[b] # NoRoute => l.route[b] = NoRoute \/ k1.route[b] # NoRoute
                BY <3>2, <3>3 DEF RoutedAgents
            <4> QED
                BY <4>1, <1>1, <3>3, FadesStays
        <3> QED
            BY <2>1, <3>3, <3>4, <3>5, <3>6, <1>2
    <2> QED
        BY <2>2, <2>3, <2>4
<1> QED
    BY <1>4, <1>5, <1>6, <1>7

-----------------------------------------------------------------------------
(* The order of the turns of an agent *)

\* The starts and ends of a's turns under generation g.
IsStart(e, a, g) == e.kind = "turnStarted" /\ e.thread = a /\ e.gen = g
IsOfTurn(e, a, g) == e.kind \in {"turnStarted", "turnCompleted"} /\ e.thread = a /\ e.gen = g
\* e comes before the start d only if d is of a later turn.
Allows(e, d, a, g) == IsOfTurn(e, a, g) /\ IsStart(d, a, g) => e.turn < d.turn
Ordered(q, a, g) == \A i, j \in DOMAIN q : i < j => Allows(q[i], q[j], a, g)
Precedes(q, r, a, g) == \A i \in DOMAIN q, j \in DOMAIN r : Allows(q[i], r[j], a, g)
\* The starts in a queue are of turns after n.
After(q, a, g, n) == \A i \in DOMAIN q : IsStart(q[i], a, g) => n < q[i].turn
\* A queue has neither starts nor ends of a's turns.
Idle(q, a) == \A i \in DOMAIN q :
                  ~(q[i].kind \in {"turnStarted", "turnCompleted"} /\ q[i].thread = a)

\* What is left of a queue is in the order of the queue.
LEMMA OrderWithin ==
    ASSUME NEW S, NEW q \in Seq(S), NEW s \in Seq(S), Within(s, q), NEW a, NEW g
    PROVE  /\ Ordered(q, a, g) => Ordered(s, a, g)
           /\ \A r : Precedes(q, r, a, g) => Precedes(s, r, a, g)
           /\ \A n : After(q, a, g, n) => After(s, a, g, n)
<1>1. PICK f \in [DOMAIN s -> DOMAIN q] :
          /\ \A i \in DOMAIN s : s[i] = q[f[i]]
          /\ \A i, j \in DOMAIN s : i < j => f[i] < f[j]
    BY DEF Within
<1>2. ASSUME Ordered(q, a, g)
      PROVE  Ordered(s, a, g)
    BY <1>1, <1>2 DEF Ordered
<1>3. ASSUME NEW r, Precedes(q, r, a, g)
      PROVE  Precedes(s, r, a, g)
    BY <1>1, <1>3 DEF Precedes
<1>4. ASSUME NEW n, After(q, a, g, n)
      PROVE  After(s, a, g, n)
    BY <1>1, <1>4 DEF After
<1> QED
    BY <1>2, <1>3, <1>4

\* The order of two queues, one after the other.
LEMMA OrderJoined ==
    ASSUME NEW S, NEW q \in Seq(S), NEW r \in Seq(S), NEW a, NEW g
    PROVE  /\ q \o r \in Seq(S)
           /\ Ordered(q, a, g) /\ Ordered(r, a, g) /\ Precedes(q, r, a, g) => Ordered(q \o r, a, g)
           /\ \A p : Precedes(p, q, a, g) /\ Precedes(p, r, a, g) => Precedes(p, q \o r, a, g)
           /\ \A p : Precedes(q, p, a, g) /\ Precedes(r, p, a, g) => Precedes(q \o r, p, a, g)
           /\ \A n : After(q, a, g, n) /\ After(r, a, g, n) => After(q \o r, a, g, n)
<1> DEFINE s == q \o r
<1>1. s \in Seq(S) /\ DOMAIN s = 1 .. Len(q) + Len(r) /\ Len(q) \in Nat /\ Len(r) \in Nat
    OBVIOUS
<1>2. DOMAIN q = 1 .. Len(q) /\ DOMAIN r = 1 .. Len(r)
    OBVIOUS
<1>3. ASSUME NEW i \in DOMAIN s
      PROVE  \/ i \in DOMAIN q /\ s[i] = q[i]
             \/ i > Len(q) /\ i - Len(q) \in DOMAIN r /\ s[i] = r[i - Len(q)]
    <2>1. CASE i <= Len(q)
        BY <2>1, <1>1, <1>2
    <2>2. CASE i > Len(q)
        BY <2>2, <1>1, <1>2
    <2> QED
        BY <2>1, <2>2, <1>1
<1> HIDE DEF s
<1>4. ASSUME Ordered(q, a, g), Ordered(r, a, g), Precedes(q, r, a, g)
      PROVE  Ordered(s, a, g)
    <2> SUFFICES ASSUME NEW i \in DOMAIN s, NEW j \in DOMAIN s, i < j
                 PROVE  Allows(s[i], s[j], a, g)
        BY DEF Ordered
    <2>1. CASE i \in DOMAIN q /\ s[i] = q[i]
        <3>1. CASE j \in DOMAIN q /\ s[j] = q[j]
            BY <2>1, <3>1, <1>4 DEF Ordered
        <3>2. CASE j - Len(q) \in DOMAIN r /\ s[j] = r[j - Len(q)]
            BY <2>1, <3>2, <1>4 DEF Precedes
        <3> QED
            BY <3>1, <3>2, <1>3
    <2>2. CASE i > Len(q) /\ i - Len(q) \in DOMAIN r /\ s[i] = r[i - Len(q)]
        <3>1. j > Len(q)
            BY <2>2, <1>1
        <3>2. j - Len(q) \in DOMAIN r /\ s[j] = r[j - Len(q)]
            BY <3>1, <1>1, <1>2, <1>3
        <3>3. i - Len(q) < j - Len(q)
            BY <1>1
        <3> QED
            BY <2>2, <3>2, <3>3, <1>4 DEF Ordered
    <2> QED
        BY <2>1, <2>2, <1>3
<1>5. ASSUME NEW p, Precedes(p, q, a, g), Precedes(p, r, a, g)
      PROVE  Precedes(p, s, a, g)
    BY <1>3, <1>5 DEF Precedes
<1>6. ASSUME NEW p, Precedes(q, p, a, g), Precedes(r, p, a, g)
      PROVE  Precedes(s, p, a, g)
    BY <1>3, <1>6 DEF Precedes
<1>7. ASSUME NEW n, After(q, a, g, n), After(r, a, g, n)
      PROVE  After(s, a, g, n)
    BY <1>3, <1>7 DEF After
<1> QED
    BY <1>1, <1>4, <1>5, <1>6, <1>7 DEF s

\* One event alone is in order.
LEMMA OrderAlone ==
    ASSUME NEW e, NEW a, NEW g
    PROVE  /\ Ordered(<<e>>, a, g)
           /\ ~(e.kind \in {"turnStarted", "turnCompleted"} /\ e.thread = a) => Idle(<<e>>, a)
           /\ \A q : Precedes(q, <<e>>, a, g) <=> \A i \in DOMAIN q : Allows(q[i], e, a, g)
           /\ \A q : Precedes(<<e>>, q, a, g) <=> \A i \in DOMAIN q : Allows(e, q[i], a, g)
           /\ \A n : After(<<e>>, a, g, n) <=> (IsStart(e, a, g) => n < e.turn)
<1> DEFINE s == <<e>>
<1>1. DOMAIN s = {1} /\ s[1] = e
    OBVIOUS
<1> HIDE DEF s
<1>2. Ordered(s, a, g)
    BY <1>1 DEF Ordered
<1>3. ~(e.kind \in {"turnStarted", "turnCompleted"} /\ e.thread = a) => Idle(s, a)
    BY <1>1 DEF Idle
<1>4. \A q : Precedes(q, s, a, g) <=> \A i \in DOMAIN q : Allows(q[i], e, a, g)
    BY <1>1 DEF Precedes
<1>5. \A q : Precedes(s, q, a, g) <=> \A i \in DOMAIN q : Allows(e, q[i], a, g)
    BY <1>1 DEF Precedes
<1>6. \A n : After(s, a, g, n) <=> (IsStart(e, a, g) => n < e.turn)
    BY <1>1 DEF After
<1> QED
    BY <1>2, <1>3, <1>4, <1>5, <1>6 DEF s

\* What does not concern an agent is in any order.
LEMMA OrderIdle ==
    ASSUME NEW q, NEW a, NEW g, Idle(q, a)
    PROVE  /\ Ordered(q, a, g)
           /\ \A r : Precedes(q, r, a, g) /\ Precedes(r, q, a, g)
           /\ \A n : After(q, a, g, n)
<1>1. Ordered(q, a, g)
    BY DEF Idle, Ordered, Allows, IsOfTurn
<1>2. \A r : Precedes(q, r, a, g)
    BY DEF Idle, Precedes, Allows, IsOfTurn
<1>3. \A r : Precedes(r, q, a, g)
    BY DEF Idle, Precedes, Allows, IsStart
<1>4. \A n : After(q, a, g, n)
    BY DEF Idle, After, IsStart
<1> QED
    BY <1>1, <1>2, <1>3, <1>4

\* The first of a queue and the rest.
LEMMA OrderSplit ==
    ASSUME NEW S, NEW q \in Seq(S), q # <<>>, NEW a, NEW g
    PROVE  /\ Head(q) \in S /\ Tail(q) \in Seq(S)
           /\ Ordered(q, a, g) => Ordered(Tail(q), a, g) /\ Precedes(<<Head(q)>>, Tail(q), a, g)
           /\ \A p : Precedes(p, q, a, g) =>
                         Precedes(p, <<Head(q)>>, a, g) /\ Precedes(p, Tail(q), a, g)
           /\ \A n : After(q, a, g, n) => After(<<Head(q)>>, a, g, n) /\ After(Tail(q), a, g, n)
<1> DEFINE e == Head(q)
           r == Tail(q)
<1>1. /\ e \in S /\ r \in Seq(S) /\ 1 \in DOMAIN q /\ q[1] = e
      /\ \A i \in DOMAIN r : i + 1 \in DOMAIN q /\ r[i] = q[i + 1] /\ i \in Nat /\ 1 < i + 1
    OBVIOUS
<1> HIDE DEF e, r
<1>2. ASSUME Ordered(q, a, g)
      PROVE  Ordered(r, a, g) /\ Precedes(<<e>>, r, a, g)
    <2>1. Ordered(r, a, g)
        <3> SUFFICES ASSUME NEW i \in DOMAIN r, NEW j \in DOMAIN r, i < j
                     PROVE  Allows(r[i], r[j], a, g)
            BY DEF Ordered
        <3>1. i + 1 < j + 1
            BY <1>1
        <3> QED
            BY <3>1, <1>1, <1>2 DEF Ordered
    <2>2. \A i \in DOMAIN r : Allows(e, r[i], a, g)
        <3> SUFFICES ASSUME NEW i \in DOMAIN r PROVE Allows(q[1], q[i + 1], a, g)
            BY <1>1
        <3> QED
            BY <1>1, <1>2 DEF Ordered
    <2> QED
        BY <2>1, <2>2, OrderAlone
<1>3. ASSUME NEW p, Precedes(p, q, a, g)
      PROVE  Precedes(p, <<e>>, a, g) /\ Precedes(p, r, a, g)
    <2>1. Precedes(p, r, a, g)
        BY <1>1, <1>3 DEF Precedes
    <2>2. \A i \in DOMAIN p : Allows(p[i], e, a, g)
        BY <1>1, <1>3 DEF Precedes
    <2> QED
        BY <2>1, <2>2, OrderAlone
<1>4. ASSUME NEW n, After(q, a, g, n)
      PROVE  After(<<e>>, a, g, n) /\ After(r, a, g, n)
    <2>1. After(r, a, g, n)
        BY <1>1, <1>4 DEF After
    <2>2. IsStart(e, a, g) => n < e.turn
        BY <1>1, <1>4 DEF After
    <2> QED
        BY <2>1, <2>2, OrderAlone
<1> QED
    BY <1>1, <1>2, <1>3, <1>4 DEF e, r

\* What is left of some events is of their kind.
LEMMA WithinType ==
    ASSUME NEW S, NEW R, NEW q \in Seq(R), NEW s \in Seq(S), Within(s, q)
    PROVE  s \in Seq(R)
<1>1. PICK f \in [DOMAIN s -> DOMAIN q] : \A i \in DOMAIN s : s[i] = q[f[i]]
    BY DEF Within
<1>2. \A i \in 1 .. Len(s) : s[i] \in R
    BY <1>1
<1>3. Len(s) \in Nat /\ s = [i \in 1 .. Len(s) |-> s[i]]
    OBVIOUS
<1> QED
    BY <1>2, <1>3

-----------------------------------------------------------------------------
(* The queues in a step of the pump *)

\* q is what the pump has still to handle, T what is deferred, s the app-server's side.
QueuesOf(q, T, s) ==
    /\ q \in Seq(Events(process, s))
    /\ T = [t \in DOMAIN T |-> T[t]]
    /\ DOMAIN T \subseteq Threads
    /\ \A t \in DOMAIN T : T[t] \in Seq(EventsOf(t, process, s))
    /\ \A i \in DOMAIN q : q[i].kind = "collabStatus" => q[i].gen = generation
\* The deferred events of an agent come before those that the pump has taken.
Lines(q, T, a, g) ==
    /\ Ordered(QueueOf(T, a), a, g)
    /\ Ordered(q, a, g)
    /\ Precedes(QueueOf(T, a), q, a, g)
Afters(q, T, a, g, n) == After(QueueOf(T, a), a, g, n) /\ After(q, a, g, n)
\* While e is handled.
LinesFrom(e, q, T, a, g) ==
    /\ Lines(q, T, a, g)
    /\ Precedes(QueueOf(T, a), <<e>>, a, g)
    /\ Precedes(<<e>>, q, a, g)
AftersFrom(e, q, T, a, g, n) == Afters(q, T, a, g, n) /\ After(<<e>>, a, g, n)
\* The queues are sound after e if they were before.
Advances(e, rest, q, T, s) ==
    /\ QueuesOf(q, T, s)
    /\ \A a \in Agents : LinesFrom(e, rest, table, a, generation) => Lines(q, T, a, generation)
    /\ \A a \in Agents, n \in 0 .. MaxTurns :
          AftersFrom(e, rest, table, a, generation, n) => Afters(q, T, a, generation, n)

\* e is handled.
LEMMA PassAdvances ==
    ASSUME NEW e, NEW rest, NEW s, QueuesOf(rest, table, s)
    PROVE  Advances(e, rest, rest, table, s)
BY DEF Advances, LinesFrom, AftersFrom

\* A queue of the table is a sequence of events.
LEMMA QueueType ==
    ASSUME NEW q, NEW s, NEW T, QueuesOf(q, T, s), NEW t
    PROVE  QueueOf(T, t) \in Seq(EventsOf(t, process, s)) /\ QueueOf(T, t) \in Seq(Events(process, s))
<1> DEFINE R == EventsOf(t, process, s)
           S == Events(process, s)
<1>1. R \subseteq S
    BY DEF EventsOf
<1>2. QueueOf(T, t) \in Seq(R)
    BY DEF QueuesOf, QueueOf
<1> HIDE DEF R, S
<1>3. QueueOf(T, t) \in Seq(S)
    BY <1>1, <1>2
<1> QED
    BY <1>2, <1>3 DEF R, S

\* e waits for request_lifecycle.
LEMMA WaitAdvances ==
    ASSUME NEW s, NEW e \in Events(process, s), NEW rest, QueuesOf(rest, table, s),
           e.kind # "collabStatus"
    PROVE  Advances(e, rest, <<e>> \o rest, table, s)
<1> DEFINE S == Events(process, s)
           g == generation
           q == <<e>> \o rest
<1>1. <<e>> \in Seq(S) /\ rest \in Seq(S) /\ q \in Seq(S)
    <2>1. e \in S /\ rest \in Seq(S)
        BY DEF QueuesOf
    <2> HIDE DEF S
    <2> QED
        BY <2>1
<1>2. ASSUME NEW i \in DOMAIN q
      PROVE  q[i].kind = "collabStatus" => q[i].gen = generation
    <2>1. CASE i = 1
        <3>1. q[i] = e
            BY <2>1, <1>1
        <3> QED
            BY <3>1
    <2>2. CASE i # 1
        <3>1. i - 1 \in DOMAIN rest /\ q[i] = rest[i - 1]
            <4> HIDE DEF S
            <4> QED
                BY <2>2, <1>1
        <3> QED
            BY <3>1 DEF QueuesOf
    <2> QED
        BY <2>1, <2>2
<1>3. QueuesOf(q, table, s)
    BY <1>1, <1>2 DEF QueuesOf
<1> HIDE DEF S
<1>4. ASSUME NEW a \in Agents, LinesFrom(e, rest, table, a, g)
      PROVE  Lines(q, table, a, g)
    <2>1. Ordered(<<e>>, a, g)
        BY OrderAlone
    <2>2. Ordered(q, a, g)
        BY <1>1, <1>4, <2>1, OrderJoined DEF LinesFrom, Lines
    <2>3. Precedes(QueueOf(table, a), q, a, g)
        BY <1>1, <1>4, OrderJoined DEF LinesFrom, Lines
    <2> QED
        BY <1>4, <2>2, <2>3 DEF LinesFrom, Lines
<1>5. ASSUME NEW a \in Agents, NEW n \in 0 .. MaxTurns, AftersFrom(e, rest, table, a, g, n)
      PROVE  Afters(q, table, a, g, n)
    <2>1. After(q, a, g, n)
        BY <1>1, <1>5, OrderJoined DEF AftersFrom, Afters
    <2> QED
        BY <1>5, <2>1 DEF AftersFrom, Afters
<1> QED
    BY <1>3, <1>4, <1>5 DEF Advances

\* d, which is e but for what was drained with it, is deferred.
LEMMA DeferAdvances ==
    ASSUME NEW s, NEW e, NEW rest, QueuesOf(rest, table, s),
           NEW d \in Events(process, s), d.kind # "collabStatus",
           d.kind = e.kind, d.thread = e.thread, d.gen = e.gen, d.turn = e.turn,
           NEW first \in SetToSeqs(DOMAIN table \cup {d.thread}),
           NEW T, T = Defer(table, d.thread, d, first).table
    PROVE  /\ Advances(e, rest, rest, T, s)
           /\ DOMAIN T \subseteq DOMAIN table \cup {d.thread}
<1> DEFINE S == Events(process, s)
           g == generation
           t == d.thread
<1>1. IsTable(table, S)
    <2>1. \A u \in DOMAIN table : table[u] \in Seq(S)
        BY QueueType DEF QueueOf
    <2>2. table = [u \in DOMAIN table |-> table[u]]
        BY DEF QueuesOf
    <2> HIDE DEF S
    <2> QED
        BY <2>1, <2>2 DEF IsTable
<1>2. IsFiniteSet(DOMAIN table)
    <2>1. IsFiniteSet(Threads)
        BY SubagentsAssumption, FS_AddElement DEF Threads
    <2>2. DOMAIN table \subseteq Threads
        BY DEF QueuesOf
    <2> QED
        BY <2>1, <2>2, FS_Subset
<1>3. /\ IsTable(T, S)
      /\ DOMAIN T \subseteq DOMAIN table \cup {t}
      /\ \A u \in DOMAIN T : Within(T[u], Deferred(table, t, d, u))
    <2>1. d \in S /\ first \in SetToSeqs(DOMAIN table \cup {t}) /\ T = Defer(table, t, d, first).table
        OBVIOUS
    <2> HIDE DEF S, t
    <2> QED
        BY <1>1, <1>2, <2>1, DeferThins
<1>4. t \in Threads /\ d \in EventsOf(t, process, s)
    BY DEF Events, EventsOf, Event
<1>5. ASSUME NEW u \in DOMAIN T
      PROVE  /\ u \in Threads
             /\ Deferred(table, t, d, u) \in Seq(EventsOf(u, process, s))
             /\ T[u] \in Seq(S)
    <2>1. u \in Threads
        BY <1>3, <1>4 DEF QueuesOf
    <2>2. T[u] \in Seq(S)
        BY <1>3 DEF IsTable
    <2> DEFINE R == EventsOf(u, process, s)
    <2>3. QueueOf(table, u) \in Seq(R) /\ (u = t => d \in R)
        BY <1>4, QueueType
    <2>4. u # t => QueueOf(table, u) = table[u]
        BY <1>3 DEF QueueOf
    <2> HIDE DEF R, t
    <2>5. Deferred(table, t, d, u) \in Seq(R)
        BY <2>3, <2>4 DEF Deferred
    <2> QED
        BY <2>1, <2>2, <2>5 DEF R
<1>6. \A u \in DOMAIN T : T[u] \in Seq(EventsOf(u, process, s))
    <2> HIDE DEF S, t
    <2> QED
        BY <1>3, <1>5, WithinType
<1>7. QueuesOf(rest, T, s)
    BY <1>3, <1>5, <1>6 DEF QueuesOf, IsTable
<1> HIDE DEF S
<1>8. ASSUME NEW a \in Agents
      PROVE  /\ QueueOf(T, a) \in Seq(S) /\ QueueOf(table, a) \in Seq(S)
             /\ <<d>> \in Seq(S) /\ QueueOf(table, a) \o <<d>> \in Seq(S)
             /\ \/ a = t /\ Within(QueueOf(T, a), QueueOf(table, a) \o <<d>>)
                \/ Within(QueueOf(T, a), QueueOf(table, a))
    <2>1. QueueOf(table, a) \in Seq(S)
        BY QueueType DEF S
    <2>2. QueueOf(T, a) \in Seq(S)
        BY <1>3 DEF QueueOf, IsTable
    <2>3. d \in S
        BY DEF S
    <2>4. <<d>> \in Seq(S) /\ QueueOf(table, a) \o <<d>> \in Seq(S)
          /\ Append(QueueOf(table, a), d) = QueueOf(table, a) \o <<d>>
        BY <2>1, <2>3
    <2>5. CASE a \notin DOMAIN T
        <3>1. QueueOf(T, a) = <<>>
            BY <2>5 DEF QueueOf
        <3>2. Within(<<>>, QueueOf(table, a))
            BY <2>1, NothingWithin
        <3> QED
            BY <3>1, <3>2, <2>1, <2>2, <2>4
    <2>6. CASE a \in DOMAIN T
        <3>1. Within(QueueOf(T, a), Deferred(table, t, d, a))
            BY <2>6, <1>3 DEF QueueOf
        <3>2. a # t => Deferred(table, t, d, a) = QueueOf(table, a)
            BY <2>6, <1>3 DEF QueueOf, Deferred
        <3>3. a = t => Deferred(table, t, d, a) = QueueOf(table, a) \o <<d>>
            BY <2>4 DEF Deferred
        <3> QED
            BY <3>1, <3>2, <3>3, <2>1, <2>2, <2>4
    <2> QED
        BY <2>5, <2>6
<1>9. ASSUME NEW a \in Agents
      PROVE  /\ \A q : Precedes(q, <<e>>, a, g) => Precedes(q, <<d>>, a, g)
             /\ \A q : Precedes(<<e>>, q, a, g) => Precedes(<<d>>, q, a, g)
             /\ \A n : After(<<e>>, a, g, n) => After(<<d>>, a, g, n)
    <2>1. \A c : /\ Allows(c, e, a, g) => Allows(c, d, a, g)
                 /\ Allows(e, c, a, g) => Allows(d, c, a, g)
        BY DEF Allows, IsOfTurn, IsStart
    <2>2. \A n : (IsStart(e, a, g) => n < e.turn) => (IsStart(d, a, g) => n < d.turn)
        BY DEF IsStart
    <2> QED
        BY <2>1, <2>2, OrderAlone
<1> HIDE DEF t
<1>10. ASSUME NEW a \in Agents, LinesFrom(e, rest, table, a, g)
       PROVE  Lines(rest, T, a, g)
    <2> DEFINE Q == QueueOf(table, a)
               R == QueueOf(T, a)
    <2>1. /\ Ordered(Q, a, g) /\ Ordered(rest, a, g) /\ Precedes(Q, rest, a, g)
          /\ Precedes(Q, <<d>>, a, g) /\ Precedes(<<d>>, rest, a, g)
        BY <1>9, <1>10 DEF LinesFrom, Lines
    <2>2. Ordered(<<d>>, a, g)
        BY OrderAlone
    <2>3. R \in Seq(S) /\ Q \in Seq(S) /\ <<d>> \in Seq(S) /\ Q \o <<d>> \in Seq(S)
          /\ (Within(R, Q \o <<d>>) \/ Within(R, Q))
        BY <1>8
    <2> HIDE DEF Q
    <2>4. Ordered(Q \o <<d>>, a, g) /\ Precedes(Q \o <<d>>, rest, a, g)
        BY <2>1, <2>2, <2>3, OrderJoined
    <2> HIDE DEF R
    <2>5. Ordered(R, a, g) /\ Precedes(R, rest, a, g)
        BY <2>1, <2>3, <2>4, OrderWithin
    <2> QED
        BY <2>1, <2>5 DEF Lines, R
<1>11. ASSUME NEW a \in Agents, NEW n \in 0 .. MaxTurns, AftersFrom(e, rest, table, a, g, n)
       PROVE  Afters(rest, T, a, g, n)
    <2> DEFINE Q == QueueOf(table, a)
               R == QueueOf(T, a)
    <2>1. After(Q, a, g, n) /\ After(rest, a, g, n) /\ After(<<d>>, a, g, n)
        BY <1>9, <1>11 DEF AftersFrom, Afters
    <2>2. R \in Seq(S) /\ Q \in Seq(S) /\ <<d>> \in Seq(S) /\ Q \o <<d>> \in Seq(S)
          /\ (Within(R, Q \o <<d>>) \/ Within(R, Q))
        BY <1>8
    <2> HIDE DEF Q
    <2>3. After(Q \o <<d>>, a, g, n)
        BY <2>1, <2>2, OrderJoined
    <2> HIDE DEF R
    <2>4. After(R, a, g, n)
        BY <2>1, <2>2, <2>3, OrderWithin
    <2> QED
        BY <2>1, <2>4 DEF Afters, R
<1>12. Advances(e, rest, rest, T, s)
    BY <1>7, <1>10, <1>11 DEF Advances
<1> QED
    BY <1>3, <1>12 DEF t

\* What follows a drained queue: the rest, or an event besides.
Follows(after, rest, s) ==
    \/ after = rest
    \/ \E d \in Events(process, s) :
           /\ after = <<d>> \o rest
           /\ d.kind \notin {"turnStarted", "turnCompleted"}
           /\ d.kind = "collabStatus" => d.gen = generation

\* The rest is as it was.
LEMMA FollowsKeeps ==
    ASSUME NEW s, NEW rest, QueuesOf(rest, table, s), NEW after, Follows(after, rest, s)
    PROVE  /\ after \in Seq(Events(process, s))
           /\ \A i \in DOMAIN after : after[i].kind = "collabStatus" => after[i].gen = generation
           /\ \A a \in Agents :
                 /\ Ordered(rest, a, generation) => Ordered(after, a, generation)
                 /\ \A r : Precedes(r, rest, a, generation) => Precedes(r, after, a, generation)
                 /\ \A n : After(rest, a, generation, n) => After(after, a, generation, n)
<1> DEFINE S == Events(process, s)
           g == generation
<1>1. rest \in Seq(S) /\ \A i \in DOMAIN rest : rest[i].kind = "collabStatus" => rest[i].gen = g
    BY DEF QueuesOf
<1>2. CASE after = rest
    BY <1>1, <1>2
<1>3. CASE after # rest
    <2>1. PICK d \in S : /\ after = <<d>> \o rest
                         /\ d.kind \notin {"turnStarted", "turnCompleted"}
                         /\ d.kind = "collabStatus" => d.gen = g
        BY <1>3 DEF Follows
    <2> HIDE DEF S
    <2>2. <<d>> \in Seq(S) /\ after \in Seq(S)
        BY <1>1, <2>1
    <2>3. ASSUME NEW i \in DOMAIN after
          PROVE  after[i].kind = "collabStatus" => after[i].gen = g
        <3>1. CASE i = 1
            <4>1. after[i] = d
                BY <1>1, <2>1, <3>1
            <4> QED
                BY <2>1, <4>1
        <3>2. CASE i # 1
            <4>1. i - 1 \in DOMAIN rest /\ after[i] = rest[i - 1]
                BY <1>1, <2>1, <3>2
            <4> QED
                BY <1>1, <4>1
        <3> QED
            BY <3>1, <3>2
    <2> HIDE DEF g
    <2>4. ASSUME NEW a \in Agents
          PROVE  /\ Ordered(rest, a, g) => Ordered(after, a, g)
                 /\ \A r : Precedes(r, rest, a, g) => Precedes(r, after, a, g)
                 /\ \A n : After(rest, a, g, n) => After(after, a, g, n)
        <3>1. Idle(<<d>>, a)
            BY <2>1, OrderAlone
        <3>2. /\ Ordered(<<d>>, a, g)
              /\ \A r : Precedes(<<d>>, r, a, g) /\ Precedes(r, <<d>>, a, g)
              /\ \A n : After(<<d>>, a, g, n)
            BY <3>1, OrderIdle
        <3>3. Ordered(rest, a, g) => Ordered(<<d>> \o rest, a, g)
            BY <1>1, <2>2, <3>2, OrderJoined
        <3>4. \A r : Precedes(r, rest, a, g) => Precedes(r, <<d>> \o rest, a, g)
            BY <1>1, <2>2, <3>2, OrderJoined
        <3>5. \A n : After(rest, a, g, n) => After(<<d>> \o rest, a, g, n)
            BY <1>1, <2>2, <3>2, OrderJoined
        <3> QED
            BY <2>1, <3>3, <3>4, <3>5
    <2> QED
        BY <2>2, <2>3, <2>4 DEF S, g
<1> QED
    BY <1>2, <1>3

\* Nothing is drained.
LEMMA AfterAdvances ==
    ASSUME NEW s, NEW e, NEW rest, QueuesOf(rest, table, s), NEW after, Follows(after, rest, s)
    PROVE  Advances(e, rest, after, table, s)
<1>1. QueuesOf(after, table, s)
    BY FollowsKeeps DEF QueuesOf
<1>2. ASSUME NEW a \in Agents, LinesFrom(e, rest, table, a, generation)
      PROVE  Lines(after, table, a, generation)
    BY <1>2, FollowsKeeps DEF LinesFrom, Lines
<1>3. ASSUME NEW a \in Agents, NEW n \in 0 .. MaxTurns,
             AftersFrom(e, rest, table, a, generation, n)
      PROVE  Afters(after, table, a, generation, n)
    BY <1>3, FollowsKeeps DEF AftersFrom, Afters
<1> QED
    BY <1>1, <1>2, <1>3 DEF Advances

\* The queue of t is drained.
LEMMA DrainAdvances ==
    ASSUME NEW s, NEW e, NEW rest, QueuesOf(rest, table, s), NEW after, Follows(after, rest, s),
           NEW t
    PROVE  Advances(e, rest, QueueOf(table, t) \o after, Drop(table, t), s)
<1> DEFINE S == Events(process, s)
           g == generation
           Q == QueueOf(table, t)
           q == Q \o after
           T == Drop(table, t)
<1>1. Q \in Seq(EventsOf(t, process, s)) /\ Q \in Seq(S)
    BY QueueType
<1>2. /\ after \in Seq(S)
      /\ \A i \in DOMAIN after : after[i].kind = "collabStatus" => after[i].gen = generation
      /\ \A a \in Agents :
            /\ Ordered(rest, a, g) => Ordered(after, a, g)
            /\ \A r : Precedes(r, rest, a, g) => Precedes(r, after, a, g)
            /\ \A n : After(rest, a, g, n) => After(after, a, g, n)
    BY FollowsKeeps
<1>3. ASSUME NEW i \in DOMAIN Q
      PROVE  Q[i].thread = t /\ Q[i].kind # "collabStatus"
    <2> HIDE DEF Q
    <2> QED
        BY <1>1, <1>3 DEF EventsOf
<1> HIDE DEF Q
<1>4. ASSUME NEW i \in DOMAIN q
      PROVE  q[i].kind = "collabStatus" => q[i].gen = generation
    <2> HIDE DEF S
    <2>1. CASE i <= Len(Q)
        <3>1. i \in DOMAIN Q /\ q[i] = Q[i]
            BY <1>1, <1>2, <2>1
        <3> QED
            BY <1>3, <3>1
    <2>2. CASE ~(i <= Len(Q))
        <3>1. i - Len(Q) \in DOMAIN after /\ q[i] = after[i - Len(Q)]
            BY <1>1, <1>2, <2>2
        <3> QED
            BY <1>2, <3>1
    <2> QED
        BY <2>1, <2>2
<1>5. QueuesOf(q, T, s)
    <2>1. q \in Seq(S)
        <3> HIDE DEF S
        <3> QED
            BY <1>1, <1>2
    <2> HIDE DEF q
    <2>2. /\ T = [u \in DOMAIN T |-> T[u]]
          /\ DOMAIN T \subseteq Threads
          /\ \A u \in DOMAIN T : T[u] \in Seq(EventsOf(u, process, s))
        BY DEF QueuesOf, Drop
    <2> QED
        BY <2>1, <2>2, <1>4 DEF QueuesOf
<1> HIDE DEF S
<1>6. ASSUME NEW a \in Agents, a # t
      PROVE  QueueOf(T, a) = QueueOf(table, a) /\ Idle(Q, a)
    BY <1>3, <1>6 DEF QueueOf, Drop, Idle
<1>7. QueueOf(T, t) = <<>> /\ QueueOf(table, t) = Q
    BY DEF QueueOf, Drop, Q
<1> HIDE DEF T, g
<1>8. ASSUME NEW a \in Agents, LinesFrom(e, rest, table, a, g)
      PROVE  Lines(q, T, a, g)
    <2> DEFINE P == QueueOf(T, a)
    <2>1. /\ Ordered(QueueOf(table, a), a, g) /\ Ordered(after, a, g)
          /\ Precedes(QueueOf(table, a), after, a, g)
        BY <1>2, <1>8 DEF LinesFrom, Lines
    <2>2. CASE a = t
        <3>1. P = <<>> /\ QueueOf(table, a) = Q
            BY <1>7, <2>2
        <3>2. Idle(<<>>, a)
            BY DEF Idle
        <3>3. Ordered(P, a, g) /\ Precedes(P, q, a, g)
            BY <3>1, <3>2, OrderIdle
        <3>4. Ordered(q, a, g)
            BY <1>1, <1>2, <2>1, <3>1, OrderJoined
        <3> QED
            BY <3>3, <3>4 DEF Lines
    <2>3. CASE a # t
        <3>1. P = QueueOf(table, a) /\ Idle(Q, a)
            BY <1>6, <2>3
        <3>2. Ordered(Q, a, g) /\ Precedes(Q, after, a, g) /\ Precedes(P, Q, a, g)
            BY <3>1, OrderIdle
        <3>3. Ordered(q, a, g)
            BY <1>1, <1>2, <2>1, <3>2, OrderJoined
        <3>4. Precedes(P, q, a, g)
            BY <1>1, <1>2, <2>1, <3>1, <3>2, OrderJoined
        <3> QED
            BY <2>1, <3>1, <3>3, <3>4 DEF Lines
    <2> QED
        BY <2>2, <2>3
<1>9. ASSUME NEW a \in Agents, NEW n \in 0 .. MaxTurns, AftersFrom(e, rest, table, a, g, n)
      PROVE  Afters(q, T, a, g, n)
    <2>1. After(QueueOf(table, a), a, g, n) /\ After(after, a, g, n)
        BY <1>2, <1>9 DEF AftersFrom, Afters
    <2>2. Idle(<<>>, a)
        BY DEF Idle
    <2>3. After(QueueOf(T, a), a, g, n) /\ After(Q, a, g, n)
        <3>1. CASE a = t
            BY <1>7, <2>1, <2>2, <3>1, OrderIdle
        <3>2. CASE a # t
            BY <1>6, <2>1, <3>2, OrderIdle
        <3> QED
            BY <3>1, <3>2
    <2>4. After(q, a, g, n)
        BY <1>1, <1>2, <2>1, <2>3, OrderJoined
    <2> QED
        BY <2>3, <2>4 DEF Afters
<1>10. Advances(e, rest, q, T, s)
    BY <1>5, <1>8, <1>9 DEF Advances, g
<1> QED
    BY <1>10 DEF Q, q, T

-----------------------------------------------------------------------------
(* The inductive invariant *)

TypeInv ==
    /\ scenario \in Scenarios
    /\ process \in Generations
    /\ generation \in {0, process}
    /\ completing \in BOOLEAN
    /\ active \in [Agents -> Actives]
    /\ sending \subseteq Watchdogs
    /\ watchdogs \subseteq Watchdogs
    /\ cancelling \in Watchdogs \cup {NoWatchdog}
    /\ shown \in [Agents -> [Turns -> Marks]]
    /\ overtaken \subseteq Agents \X Turns

\* The app-server's side s of the agents.
ServersAre(s) ==
    /\ s \in [Agents -> Servers]
    /\ \A a \in Agents : s[a].running => s[a].turns # 0
    /\ generation = 0 => \A a \in Agents : s[a].parent = NoThread /\ ~s[a].running

\* Without a process nothing is kept; the watchdog that holds the lock is of this process.
GensInv ==
    /\ generation = 0 => /\ agenda = <<>>
                         /\ kept = NothingKept
                         /\ active = [a \in Agents |-> NoActive]
    /\ cancelling # NoWatchdog => cancelling.gen = generation

KeptInv == IsSound(kept, active, generation, {})

\* The truth about the active turn was not shown.
ShownInv == \A a \in Agents : active[a] # NoActive => shown[a][active[a].turn] # "authoritative"

\* Nothing is deferred for a thread that is routed.
RoutedInv == \A a \in RoutedAgents(kept) : a \notin DOMAIN table

\* An end of a turn that waits for request_lifecycle is of a routed agent.
CompletingInv ==
    completing => /\ agenda # <<>>
                  /\ Head(agenda).kind = "turnCompleted"
                  /\ Head(agenda).gen = generation
                  /\ Head(agenda).thread \in RoutedAgents(kept)

\* The events of an agent are in the order of its turns.
OrderInv == \A a \in Agents : Lines(agenda, table, a, generation)

\* The turns of a that the engine has seen begin: current, shown, interrupted or about to be
\* cancelled.
Seen(a, n) ==
    \/ n = 0
    \/ n = kept.current[a]
    \/ n \in Turns /\ shown[a][n] # "none"
    \/ n = kept.interrupt[a].turn
    \/ cancelling.agent = a /\ n = cancelling.turn

\* No start of a turn that was seen is still to come.
SeenInv ==
    \A a \in Agents, n \in 0 .. MaxTurns : Seen(a, n) =>
        n <= server[a].turns /\ Afters(agenda, table, a, generation, n)

\* A watchdog that is recording its own end of a turn whose truth was shown was overtaken.
CancelInv ==
    cancelling # NoWatchdog /\ shown[cancelling.agent][cancelling.turn] = "authoritative" =>
        <<cancelling.agent, cancelling.turn>> \in overtaken

\* While a watchdog records the end of a turn that is still active, the turn's entry is of
\* the watchdog's attempt, which was answered, or of a later one.
WatchedInv ==
    LET w == cancelling
        state == kept.interrupt[w.agent]
    IN  cancelling # NoWatchdog /\ active[w.agent] = [gen |-> w.gen, turn |-> w.turn] =>
            /\ state.gen = w.gen /\ state.turn = w.turn
            /\ w.attempt <= state.attempt
            /\ w.attempt = state.attempt => state.phase # "Sending"

\* An interrupt is of a turn, and its attempts are counted from one.
EntryInv ==
    \A a \in Agents :
        \/ kept.interrupt[a] = NoInterrupt
        \/ kept.interrupt[a].turn \in Turns /\ kept.interrupt[a].attempt # 0

\* An interrupt whose answer is awaited is the one that its agent's entry is about, or that
\* entry is not about the active turn.
IsLive(a) == active[a] # NoActive /\ IsFor(kept.interrupt[a], a)
SendingInv ==
    /\ \A v, w \in sending : v.agent = w.agent => v = w
    /\ \A w \in sending :
          \/ IsExact(kept.interrupt[w.agent], w) /\ kept.interrupt[w.agent].phase = "Sending"
          \/ ~IsLive(w.agent)

IInv ==
    /\ TypeInv
    /\ ServersAre(server)
    /\ GensInv
    /\ KeptInv
    /\ ShownInv
    /\ QueuesOf(agenda, table, server)
    /\ RoutedInv
    /\ CompletingInv
    /\ OrderInv
    /\ SeenInv
    /\ CancelInv
    /\ WatchedInv
    /\ EntryInv
    /\ AnswersInTime => SendingInv /\ SentIsWatched

-----------------------------------------------------------------------------
(* What a step of the pump does *)

\* The pump handles e, and rest is what it has to handle after it.
PumpFrom(e, rest, s) ==
    /\ e \in Events(process, s)
    /\ e.kind = "collabStatus" => e.gen = generation
    /\ QueuesOf(rest, table, s)
    /\ ServersAre(s)
    /\ generation = 0 => rest = <<>> /\ e.kind = "turnStarted"
    /\ \A a \in Agents : LinesFrom(e, rest, table, a, generation)
    /\ \A a \in Agents, n \in 0 .. MaxTurns : Seen(a, n) =>
          n <= s[a].turns /\ AftersFrom(e, rest, table, a, generation, n)

\* e is handled at once: it is of a's turns, and a is routed.
Passes(e, rest, a) ==
    /\ IsOfTurn(e, a, generation)
    /\ a \in RoutedAgents(kept)
    /\ agenda' = rest
    /\ table' = table
Continues(a) == Stays(kept, kept', a) /\ active'[a] \in {active[a], NoActive}
Begins(e, rest, a) ==
    /\ Passes(e, rest, a)
    /\ e.kind = "turnStarted"
    /\ active'[a] = [gen |-> generation, turn |-> e.turn]
    /\ kept'.current[a] = e.turn
    /\ kept'.interrupt[a] = kept.interrupt[a]
    /\ kept'.route[a] = kept.route[a]
    /\ shown' = shown
\* What is shown anew of turn n.
IsShown(e, rest, a, n) ==
    /\ shown'[a][n] = "authoritative"
    /\ active'[a] = NoActive \/ active'[a].turn # n
    /\ n = kept.current[a] \/ (Passes(e, rest, a) /\ n = e.turn)
    /\ cancelling.agent = a /\ cancelling.turn = n => <<a, n>> \in overtaken'
ShowsTruth(e, rest) ==
    /\ shown' \in [Agents -> [Turns -> Marks]]
    /\ overtaken \subseteq overtaken'
    /\ overtaken' \subseteq Agents \X Turns
    /\ \A a \in Agents, n \in Turns : shown'[a][n] = shown[a][n] \/ IsShown(e, rest, a, n)
Pumped(e, rest, s) ==
    /\ Advances(e, rest, agenda', table', s)
    /\ generation = 0 => agenda' = rest /\ UNCHANGED <<kept, active>>
    /\ \A a \in RoutedAgents(kept') : a \notin DOMAIN table'
    /\ IsSound(kept', active', generation, {})
    /\ active' \in [Agents -> Actives]
    /\ \A a \in Agents : Continues(a) \/ Begins(e, rest, a)
    /\ ShowsTruth(e, rest)
    /\ UNCHANGED <<scenario, process, generation, interrupts>>

\* The registry is as sound as its values.
LEMMA SoundLater ==
    ASSUME scenario' = scenario, IsSound(kept', active', generation', {})
    PROVE  KeptInv'
<1>1. RoutesAreOf(kept', generation') /\ ActiveIsCurrent(kept', active', generation')
      /\ IsAcyclic(kept') /\ kept' \in Registries
    BY DEF IsSound
<1>2. RoutesAreOf(kept, generation)' /\ ActiveIsCurrent(kept, active, generation)'
    BY <1>1 DEF RoutesAreOf, ActiveIsCurrent
<1>3. IsAcyclic(kept)'
    BY <1>1 DEF IsAcyclic
<1>4. IsBounded(kept)'
    BY DEF IsSound, IsBounded, Room
<1>5. \A a \in Agents \ {} : IsEvictable(kept, active, a)'
    BY DEF IsSound, IsEvictable, IsFinished
<1> QED
    BY <1>1, <1>2, <1>3, <1>4, <1>5 DEF KeptInv, IsSound

\* What is known of a child is not unlearned in a step, see HistoryStands.
StepStands ==
    /\ \A a \in RoutedAgents(kept) : kept'.route[a] # NoRoute =>
          /\ kept'.route[a].parent = kept.route[a].parent
          /\ kept'.route[a].gen = kept.route[a].gen
          /\ kept.route[a].launch \in {0, kept'.route[a].launch}
    /\ \A a \in Agents, t \in Turns :
          shown[a][t] = "authoritative" /\ shown'[a][t] = "synthetic" => <<a, t>> \in overtaken

\* The starts that are still to come after an event of a routed agent's turn are of later turns.
LEMMA PassedBy ==
    ASSUME NEW e, NEW rest, NEW s, PumpFrom(e, rest, s), NEW a \in Agents, Passes(e, rest, a),
           RoutedInv
    PROVE  Afters(rest, table, a, generation, e.turn)
<1>1. QueueOf(table, a) = <<>>
    BY DEF RoutedInv, Passes, QueueOf
<1>2. Idle(<<>>, a)
    BY DEF Idle
<1>3. After(<<>>, a, generation, e.turn)
    BY <1>2, OrderIdle
<1>4. Precedes(<<e>>, rest, a, generation)
    BY DEF PumpFrom, LinesFrom
<1>5. \A i \in DOMAIN rest : Allows(e, rest[i], a, generation)
    BY <1>4, OrderAlone
<1>6. After(rest, a, generation, e.turn)
    BY <1>5 DEF After, Allows, Passes
<1> QED
    BY <1>1, <1>3, <1>6 DEF Afters

\* The turn of an event of a's turns has begun.
LEMMA TurnIsKnown ==
    ASSUME NEW e, NEW s, e \in Events(process, s), NEW a, IsOfTurn(e, a, generation)
    PROVE  a \in Agents /\ e.turn \in Turns /\ e.turn <= s[a].turns
BY DEF Events, Sound, IsOfTurn

\* No start of a turn that was seen when it is handled.
LEMMA StartIsNew ==
    ASSUME NEW e, NEW rest, NEW s, PumpFrom(e, rest, s), NEW a \in Agents,
           IsStart(e, a, generation)
    PROVE  e.turn \in Turns /\ ~Seen(a, e.turn)
<1>1. e.turn \in Turns
    BY TurnIsKnown DEF PumpFrom, IsStart, IsOfTurn
<1>2. e.turn \in 0 .. MaxTurns /\ ~(e.turn < e.turn)
    BY <1>1, BoundsAreNumbers DEF Turns
<1>3. ASSUME Seen(a, e.turn)
      PROVE  FALSE
    <2>1. After(<<e>>, a, generation, e.turn)
        BY <1>2, <1>3 DEF PumpFrom, AftersFrom
    <2> QED
        BY <1>2, <2>1, OrderAlone
<1> QED
    BY <1>1, <1>3

\* The invariant after a step of the pump.
LEMMA PumpedKeeps ==
    ASSUME IInv, NEW e, NEW rest, NEW s, PumpFrom(e, rest, s), Pumped(e, rest, s),
           server' = s, completing' \in BOOLEAN, CompletingInv'
    PROVE  IInv' /\ StepStands
<1> DEFINE g == generation
<1>1. scenario' = scenario /\ process' = process /\ generation' = g
      /\ sending' = sending /\ watchdogs' = watchdogs /\ cancelling' = cancelling
    BY DEF Pumped, interrupts
<1>2. TypeInv'
    BY <1>1 DEF IInv, TypeInv, Pumped, ShowsTruth
<1>3. ServersAre(server)'
    BY <1>1 DEF PumpFrom, ServersAre
<1>4. GensInv'
    BY <1>1 DEF IInv, GensInv, PumpFrom, Pumped
<1>5. KeptInv'
    BY <1>1, SoundLater DEF Pumped
<1>6. kept \in Registries /\ kept' \in Registries
    BY DEF IInv, KeptInv, IsSound, Pumped
<1>7. ASSUME NEW a \in Agents
      PROVE  \/ Stays(kept, kept', a) /\ active'[a] \in {active[a], NoActive}
             \/ Begins(e, rest, a)
    BY DEF Pumped, Continues
<1>8. ASSUME NEW a \in Agents, Begins(e, rest, a)
      PROVE  e.turn \in Turns /\ ~Seen(a, e.turn) /\ IsOfTurn(e, a, g)
    <2>1. IsStart(e, a, g) /\ IsOfTurn(e, a, g)
        BY <1>8 DEF Begins, Passes, IsOfTurn, IsStart
    <2> QED
        BY <2>1, StartIsNew
<1>9. ASSUME NEW a \in Agents, active[a] # NoActive
      PROVE  active[a].turn \in Turns
    BY <1>9 DEF IInv, KeptInv, IsSound, ActiveIsCurrent
<1>10. ShownInv'
    <2> SUFFICES ASSUME NEW a \in Agents, active'[a] # NoActive
                 PROVE  shown'[a][active'[a].turn] # "authoritative"
        BY DEF ShownInv
    <2>1. CASE active'[a] = active[a]
        <3>1. shown[a][active[a].turn] # "authoritative" /\ active[a].turn \in Turns
            BY <2>1, <1>9 DEF IInv, ShownInv
        <3> QED
            BY <2>1, <3>1 DEF Pumped, ShowsTruth, IsShown
    <2>2. CASE Begins(e, rest, a)
        <3>1. e.turn \in Turns /\ ~Seen(a, e.turn)
            BY <2>2, <1>8
        <3>2. shown[a][e.turn] = "none"
            BY <3>1 DEF Seen
        <3>3. active'[a].turn = e.turn /\ shown' = shown
            BY <2>2 DEF Begins
        <3> QED
            BY <3>2, <3>3
    <2> QED
        BY <2>1, <2>2, <1>7
<1>11. QueuesOf(agenda, table, server)'
    BY <1>1 DEF Pumped, Advances, QueuesOf
<1>12. RoutedInv'
    BY DEF Pumped, RoutedInv
<1>13. OrderInv'
    BY <1>1 DEF OrderInv, Pumped, Advances, PumpFrom
<1>14. SeenInv'
    <2> SUFFICES ASSUME NEW a \in Agents, NEW n \in 0 .. MaxTurns, Seen(a, n)'
                 PROVE  n <= s[a].turns /\ Afters(agenda', table', a, g, n)
        BY <1>1 DEF SeenInv
    <2>1. Seen(a, n) \/ (Passes(e, rest, a) /\ n = e.turn)
        <3>1. CASE n = 0 \/ (cancelling.agent = a /\ n = cancelling.turn)
            BY <3>1 DEF Seen
        <3>2. CASE n = kept'.current[a]
            <4>1. CASE Stays(kept, kept', a)
                BY <3>2, <4>1 DEF Stays, Seen
            <4>2. CASE Begins(e, rest, a)
                BY <3>2, <4>2 DEF Begins
            <4> QED
                BY <4>1, <4>2, <1>7
        <3>3. CASE n = kept'.interrupt[a].turn
            <4>1. CASE Stays(kept, kept', a)
                BY <3>3, <4>1 DEF Stays, Seen, NoInterrupt
            <4>2. CASE Begins(e, rest, a)
                BY <3>3, <4>2 DEF Begins, Seen
            <4> QED
                BY <4>1, <4>2, <1>7
        <3>4. CASE n \in Turns /\ shown'[a][n] # "none"
            <4>1. shown'[a][n] = shown[a][n] \/ IsShown(e, rest, a, n)
                BY <3>4 DEF Pumped, ShowsTruth
            <4> QED
                BY <3>4, <4>1 DEF Seen, IsShown
        <3> QED
            BY <1>1, <3>1, <3>2, <3>3, <3>4 DEF Seen
    <2>2. CASE Seen(a, n)
        BY <2>2 DEF Pumped, Advances, PumpFrom
    <2>3. CASE Passes(e, rest, a) /\ n = e.turn
        <3>1. Afters(rest, table, a, g, n)
            BY <2>3, PassedBy DEF IInv
        <3>2. n <= s[a].turns
            BY <2>3, TurnIsKnown DEF PumpFrom, Passes
        <3> QED
            BY <2>3, <3>1, <3>2 DEF Passes
    <2> QED
        BY <2>1, <2>2, <2>3
<1>15. CancelInv'
    <2> SUFFICES ASSUME cancelling # NoWatchdog,
                        shown'[cancelling.agent][cancelling.turn] = "authoritative"
                 PROVE  <<cancelling.agent, cancelling.turn>> \in overtaken'
        BY <1>1 DEF CancelInv
    <2>1. cancelling.agent \in Agents /\ cancelling.turn \in Turns
        BY DEF IInv, TypeInv, Watchdogs
    <2>2. CASE shown'[cancelling.agent][cancelling.turn] = shown[cancelling.agent][cancelling.turn]
        BY <2>2 DEF IInv, CancelInv, Pumped, ShowsTruth
    <2>3. CASE IsShown(e, rest, cancelling.agent, cancelling.turn)
        BY <2>3 DEF IsShown
    <2> QED
        BY <2>1, <2>2, <2>3 DEF Pumped, ShowsTruth
<1>19. WatchedInv'
    <2> DEFINE w == cancelling
               a == w.agent
               new == [gen |-> w.gen, turn |-> w.turn]
    <2> SUFFICES ASSUME cancelling # NoWatchdog, active'[a] = new
                 PROVE  /\ kept'.interrupt[a].gen = w.gen /\ kept'.interrupt[a].turn = w.turn
                        /\ w.attempt <= kept'.interrupt[a].attempt
                        /\ w.attempt = kept'.interrupt[a].attempt =>
                               kept'.interrupt[a].phase # "Sending"
        BY <1>1 DEF WatchedInv
    <2>1. a \in Agents /\ w.turn \in Turns /\ new # NoActive /\ new.turn = w.turn
        BY DEF IInv, TypeInv, Watchdogs, NoActive, Turns
    <2>2. ~Begins(e, rest, a)
        <3> SUFFICES ASSUME Begins(e, rest, a) PROVE FALSE
            OBVIOUS
        <3>1. active'[a].turn = e.turn
            BY DEF Begins
        <3> QED
            BY <2>1, <3>1, <1>8 DEF Seen
    <2>3. Stays(kept, kept', a) /\ active[a] = new
        BY <2>1, <2>2, <1>7
    <2>4. kept.route[a] # NoRoute
        BY <2>1, <2>3 DEF IInv, KeptInv, IsSound, ActiveIsCurrent
    <2>5. kept'.route[a] # NoRoute
        BY <2>1 DEF Pumped, IsSound, ActiveIsCurrent
    <2>6. kept'.interrupt[a] = kept.interrupt[a]
        BY <2>3, <2>4, <2>5 DEF Stays, LifecycleFree
    <2> QED
        BY <2>3, <2>6 DEF IInv, WatchedInv
<1>16. EntryInv'
    <2>1. EntryInv /\ \A a \in Agents : kept'.interrupt[a] \in {kept.interrupt[a], NoInterrupt}
        BY <1>7 DEF IInv, Stays, Begins
    <2> QED
        BY <2>1 DEF EntryInv
<1>17. ASSUME NEW a \in Agents, active'[a] # NoActive, IsFor(kept.interrupt[a], a)'
       PROVE  active'[a] = active[a] /\ kept'.interrupt[a] = kept.interrupt[a]
    <2>1. CASE Begins(e, rest, a)
        <3>1. active'[a].turn = e.turn /\ kept'.interrupt[a] = kept.interrupt[a]
            BY <2>1 DEF Begins
        <3>2. kept.interrupt[a].turn = e.turn
            BY <3>1, <1>17 DEF IsFor
        <3> QED
            BY <3>2, <2>1, <1>8 DEF Seen
    <2>2. CASE Stays(kept, kept', a) /\ active'[a] \in {active[a], NoActive}
        <3>1. active'[a] = active[a] /\ active[a].turn \in Turns
            BY <2>2, <1>9, <1>17
        <3>2. kept'.interrupt[a] # NoInterrupt
            BY <3>1, <1>17 DEF IsFor, NoInterrupt, Turns
        <3> QED
            BY <2>2, <3>1, <3>2 DEF Stays
    <2> QED
        BY <1>7, <2>1, <2>2
<1>18. ASSUME AnswersInTime
       PROVE  SendingInv' /\ SentIsWatched'
    <2>1. SendingInv /\ SentIsWatched
        BY <1>18 DEF IInv
    <2>2. SendingInv'
        <3>1. \A v, w \in sending' : v.agent = w.agent => v = w
            BY <1>1, <2>1 DEF SendingInv
        <3>2. ASSUME NEW w \in sending, ~(~IsLive(w.agent)')
              PROVE  IsExact(kept'.interrupt[w.agent], w) /\ kept'.interrupt[w.agent].phase = "Sending"
            <4>1. w.agent \in Agents
                BY DEF IInv, TypeInv, Watchdogs
            <4>2. active'[w.agent] = active[w.agent] /\ kept'.interrupt[w.agent] = kept.interrupt[w.agent]
                BY <3>2, <4>1, <1>17 DEF IsLive
            <4>3. IsLive(w.agent)
                BY <3>2, <4>2 DEF IsLive, IsFor
            <4> QED
                BY <2>1, <4>2, <4>3 DEF SendingInv
        <3> QED
            BY <1>1, <3>1, <3>2 DEF SendingInv, IsExact
    <2>3. SentIsWatched'
        <3> SUFFICES ASSUME NEW a \in Agents, kept'.interrupt[a].phase = "Sent",
                            active'[a] = [gen |-> kept'.interrupt[a].gen, turn |-> kept'.interrupt[a].turn]
                     PROVE  \E w \in watchdogs \cup {cancelling} :
                                w.agent = a /\ IsExact(kept'.interrupt[a], w)
            BY <1>1 DEF SentIsWatched, IsExact
        <3>1. kept'.interrupt[a] # NoInterrupt
            BY DEF NoInterrupt
        <3>2. CASE Begins(e, rest, a)
            <4>1. kept.interrupt[a].turn = e.turn
                BY <3>2 DEF Begins
            <4> QED
                BY <4>1, <3>2, <1>8 DEF Seen
        <3>3. CASE Stays(kept, kept', a) /\ active'[a] = active[a]
            <4>1. kept'.interrupt[a] = kept.interrupt[a]
                BY <3>1, <3>3 DEF Stays
            <4> QED
                BY <2>1, <3>3, <4>1 DEF SentIsWatched
        <3>4. CASE active'[a] = NoActive
            <4>1. kept'.interrupt[a].turn = 0
                BY <3>4 DEF NoActive
            <4>2. kept'.interrupt[a].turn \in Turns
                BY <1>16, <3>1 DEF EntryInv
            <4> QED
                BY <4>1, <4>2 DEF Turns
        <3> QED
            BY <3>2, <3>3, <3>4, <1>7
    <2> QED
        BY <2>2, <2>3
<1>20. StepStands
    <2>1. \A a \in RoutedAgents(kept) : kept'.route[a] # NoRoute =>
              /\ kept'.route[a].parent = kept.route[a].parent
              /\ kept'.route[a].gen = kept.route[a].gen
              /\ kept.route[a].launch \in {0, kept'.route[a].launch}
        BY <1>7 DEF Stays, Begins, RoutedAgents
    <2>2. \A a \in Agents, t \in Turns : shown'[a][t] \in {shown[a][t], "authoritative"}
        BY DEF Pumped, ShowsTruth, IsShown
    <2> QED
        BY <2>1, <2>2 DEF StepStands
<1> QED
    BY <1>2, <1>3, <1>4, <1>5, <1>10, <1>11, <1>12, <1>13, <1>14, <1>15, <1>16, <1>18,
       <1>19, <1>20 DEF IInv

-----------------------------------------------------------------------------
(* Each kind of event *)

\* The pump's step changes nothing of these.
Around == UNCHANGED <<scenario, process, generation, interrupts>>

\* Numbers and the process that events are of.
LEMMA GenerationIsNumber ==
    ASSUME IInv
    PROVE  /\ generation \in 0 .. MaxGeneration
           /\ scenario \in Scenarios
           /\ kept \in Registries
           /\ \A a \in Agents : Stays(kept, kept, a)
<1>1. generation \in 0 .. MaxGeneration
    BY BoundsAreNumbers DEF IInv, TypeInv, Generations
<1>2. scenario \in Scenarios /\ kept \in Registries
    BY DEF IInv, TypeInv, KeptInv, IsSound
<1>3. \A a \in Agents : Stays(kept, kept, a)
    BY DEF Stays
<1> QED
    BY <1>1, <1>2, <1>3

\* A step that shows nothing and ends no turn.
LEMMA UnshownPumped ==
    ASSUME IInv, NEW e, NEW rest, NEW s, Around, UNCHANGED <<active, seen>>,
           Advances(e, rest, agenda', table', s),
           generation = 0 => agenda' = rest /\ kept' = kept,
           IsSound(kept', active, generation, {}),
           \A a \in Agents : Stays(kept, kept', a),
           \A a \in RoutedAgents(kept') : a \notin DOMAIN table'
    PROVE  Pumped(e, rest, s)
<1>1. active' = active /\ shown' = shown /\ overtaken' = overtaken
    BY DEF seen
<1>2. IsSound(kept', active', generation, {})
    BY <1>1
<1>3. active' \in [Agents -> Actives]
    BY <1>1 DEF IInv, TypeInv
<1>4. \A a \in Agents : Continues(a)
    BY <1>1 DEF Continues
<1>5. ShowsTruth(e, rest)
    BY <1>1 DEF ShowsTruth, IInv, TypeInv
<1> QED
    BY <1>1, <1>2, <1>3, <1>4, <1>5 DEF Pumped, Around

\* Nothing is done.
LEMMA NothingPumped ==
    ASSUME IInv, NEW e, NEW rest, NEW s, PumpFrom(e, rest, s), Around, UNCHANGED <<active, seen>>,
           kept' = kept, Advances(e, rest, agenda', table', s), table' = table,
           generation = 0 => agenda' = rest
    PROVE  Pumped(e, rest, s)
<1>1. IsSound(kept', active, generation, {})
    BY DEF IInv, KeptInv
<1>2. \A a \in Agents : Stays(kept, kept', a)
    BY GenerationIsNumber
<1>3. \A a \in RoutedAgents(kept') : a \notin DOMAIN table'
    BY DEF IInv, RoutedInv
<1> QED
    BY <1>1, <1>2, <1>3, UnshownPumped

\* An event is deferred.
LEMMA DeferPumped ==
    ASSUME IInv, NEW e, NEW rest, NEW s, PumpFrom(e, rest, s), Around,
           e.kind # "collabStatus",
           NEW d, d = e \/ d = [e EXCEPT !.status = "none"],
           NEW k, IsSound(k, active, generation, {}), \A a \in Agents : Stays(kept, k, a),
           RoutedAgents(k) \subseteq RoutedAgents(kept), e.thread \notin RoutedAgents(k),
           generation = 0 => k = kept,
           DeferEvent(k, d, rest)
    PROVE  Pumped(e, rest, s)
<1>1. /\ d \in Events(process, s)
      /\ d.kind = e.kind /\ d.thread = e.thread /\ d.gen = e.gen /\ d.turn = e.turn
    <2>1. e \in Events(process, s)
        BY DEF PumpFrom
    <2>2. CASE d = e
        BY <2>1, <2>2
    <2>3. CASE d = [e EXCEPT !.status = "none"]
        <3>1. e \in Event /\ Sound(e, process, s)
            BY <2>1 DEF Events
        <3>2. /\ d \in Event
              /\ d.kind = e.kind /\ d.thread = e.thread /\ d.gen = e.gen /\ d.turn = e.turn
              /\ d.other = e.other
            BY <2>3, <3>1 DEF Event
        <3>3. Sound(d, process, s)
            BY <3>1, <3>2 DEF Sound
        <3> QED
            BY <3>2, <3>3 DEF Events
    <2> QED
        BY <2>2, <2>3
<1>2. PICK first \in SetToSeqs(DOMAIN table \cup {d.thread}) :
          table' = Defer(table, d.thread, d, first).table
    BY DEF DeferEvent
<1>3. kept' = k /\ agenda' = rest /\ UNCHANGED <<active, seen>>
    BY DEF DeferEvent
<1>4. Advances(e, rest, rest, table', s) /\ DOMAIN table' \subseteq DOMAIN table \cup {d.thread}
    <2>1. QueuesOf(rest, table, s) /\ d.kind # "collabStatus"
        BY <1>1 DEF PumpFrom
    <2> QED
        BY <1>1, <1>2, <2>1, DeferAdvances
<1>5. \A a \in RoutedAgents(kept') : a \notin DOMAIN table'
    BY <1>1, <1>3, <1>4 DEF IInv, RoutedInv
<1> QED
    BY <1>3, <1>4, <1>5, UnshownPumped

\* The event of a thread that is routed is of the current process.
LEMMA RoutedIsCurrent ==
    ASSUME IInv, NEW t, IsRouted(kept, t)
    PROVE  /\ RouteGeneration(kept, t) = generation /\ generation # 0
           /\ t = Root \/ t \in RoutedAgents(kept)
<1>1. CASE t = Root
    BY <1>1 DEF IsRouted, RouteGeneration
<1>2. CASE t # Root
    <2>1. t \in RoutedAgents(kept)
        BY <1>2 DEF IsRouted
    <2>2. t \in Agents /\ kept.route[t] # NoRoute
        BY <2>1 DEF RoutedAgents
    <2>3. kept.route[t].gen = generation
        BY <2>2 DEF IInv, KeptInv, IsSound, RoutesAreOf
    <2>4. generation # 0
        BY <2>2 DEF IInv, GensInv, NothingKept
    <2> QED
        BY <1>2, <2>1, <2>3, <2>4 DEF RouteGeneration
<1> QED
    BY <1>1, <1>2

\* The queue of a thread that is routed now is drained.
LEMMA DrainedPumped ==
    ASSUME IInv, NEW e, NEW rest, NEW s, PumpFrom(e, rest, s), Around, generation # 0,
           NEW c \in Agents, NEW after, Follows(after, rest, s), Drained(c, after),
           IsSound(kept', active, generation, {}), \A a \in Agents : Stays(kept, kept', a),
           RoutedAgents(kept') \subseteq RoutedAgents(kept) \cup {c},
           UNCHANGED <<active, seen>>
    PROVE  Pumped(e, rest, s)
<1>1. agenda' = QueueOf(table, c) \o after /\ table' = Drop(table, c)
    BY DEF Drained
<1>2. Advances(e, rest, agenda', table', s)
    BY <1>1, DrainAdvances DEF PumpFrom
<1>3. \A a \in RoutedAgents(kept') : a \notin DOMAIN table'
    BY <1>1 DEF IInv, RoutedInv, Drop
<1> QED
    BY <1>2, <1>3, UnshownPumped

\* thread/started
LEMMA ThreadStartedPumped ==
    ASSUME IInv, NEW e, NEW rest, NEW s, PumpFrom(e, rest, s), Around, generation # 0,
           e.kind = "threadStarted", ThreadStarted(e, rest)
    PROVE  Pumped(e, rest, s) /\ completing' = completing
<1> DEFINE x == Establish(kept, e.thread, e.other, e.gen, 0)
           k == x.kept
<1>1. e \in Event /\ e.thread \in Agents /\ e.other \in Threads
    BY DEF PumpFrom, Events, Sound
<1>2. /\ IsSound(k, active, generation, {})
      /\ \A b \in Agents : Stays(kept, k, b)
      /\ RoutedAgents(k) \subseteq RoutedAgents(kept) \cup (IF x.ok THEN {e.thread} ELSE {})
    <2>1. 0 \in 0 .. MaxTurns
        BY BoundsAreNumbers
    <2>2. IsSound(kept, active, generation, {})
        BY DEF IInv, KeptInv
    <2> HIDE DEF x
    <2>3. x = Establish(kept, e.thread, e.other, e.gen, 0)
        BY DEF x
    <2> QED
        BY <1>1, <2>1, <2>2, <2>3, GenerationIsNumber, EstablishKeeps
<1>3. CASE HandledNothing(rest)
    BY <1>3, NothingPumped, PassAdvances DEF HandledNothing, PumpFrom
<1>4. CASE /\ x.ok
           /\ kept' = k
           /\ Drained(e.thread, <<[e EXCEPT !.status = "drained"]>> \o rest)
           /\ UNCHANGED <<completing, active, seen>>
    <2> DEFINE d == [e EXCEPT !.status = "drained"]
    <2>1. d \in Events(process, s) /\ d.kind = "threadStarted"
        <3>1. /\ d \in Event
              /\ d.kind = e.kind /\ d.thread = e.thread /\ d.gen = e.gen /\ d.turn = e.turn
              /\ d.other = e.other
            BY <1>1 DEF Event
        <3> HIDE DEF d
        <3> QED
            BY <3>1 DEF PumpFrom, Events, Sound
    <2> HIDE DEF d
    <2>2. Follows(<<d>> \o rest, rest, s)
        BY <2>1 DEF Follows
    <2>3. Drained(e.thread, <<d>> \o rest)
        BY <1>4 DEF d
    <2> HIDE DEF x
    <2> QED
        BY <1>1, <1>2, <1>4, <2>2, <2>3, DrainedPumped
<1>5. CASE /\ ~x.ok
           /\ kept' = k
           /\ agenda' = rest
           /\ UNCHANGED <<completing, table, active, seen>>
    <2> HIDE DEF x
    <2>1. Advances(e, rest, agenda', table', s)
        BY <1>5, PassAdvances DEF PumpFrom
    <2>2. \A a \in RoutedAgents(kept') : a \notin DOMAIN table'
        BY <1>2, <1>5 DEF IInv, RoutedInv
    <2> QED
        BY <1>2, <1>5, <2>1, <2>2, UnshownPumped
<1>6. CASE ~x.ok /\ ~IsRouted(k, e.thread) /\ DeferEvent(k, e, rest)
    <2> HIDE DEF x
    <2>1. e.thread \notin RoutedAgents(k)
        BY <1>1, <1>6, SubagentsAssumption DEF IsRouted
    <2>2. RoutedAgents(k) \subseteq RoutedAgents(kept)
        BY <1>2, <1>6
    <2>3. Pumped(e, rest, s)
        BY <1>2, <1>6, <2>1, <2>2, DeferPumped
    <2> QED
        BY <2>3, <1>6 DEF DeferEvent
<1> QED
    BY <1>3, <1>4, <1>5, <1>6 DEF ThreadStarted, HandledNothing

\* The event of a routed thread.
RoutedEvent(e) ==
    /\ IsRouted(kept, e.thread)
    /\ RouteGeneration(kept, e.thread) = e.gen

\* turn/started
LEMMA TurnStartedPumped ==
    ASSUME IInv, NEW e, NEW rest, NEW s, PumpFrom(e, rest, s), Around, RoutedEvent(e),
           e.kind = "turnStarted", TurnStarted(e, rest)
    PROVE  Pumped(e, rest, s) /\ completing' = completing
<1> DEFINE a == e.thread
           u == e.turn
<1>1. a \in Agents /\ u \in Turns /\ e.gen = generation /\ generation # 0 /\ a \in RoutedAgents(kept)
    <2>1. e \in Event /\ Sound(e, process, s)
        BY DEF PumpFrom, Events
    <2>2. a \in Agents /\ u \in Turns
        BY <2>1 DEF Sound
    <2>3. a # Root
        BY <2>2, SubagentsAssumption
    <2> QED
        BY <2>2, <2>3, RoutedIsCurrent DEF RoutedEvent
<1>2. agenda' = rest /\ table' = table /\ UNCHANGED <<completing, seen>>
    BY DEF TurnStarted
<1>3. Advances(e, rest, agenda', table', s)
    BY <1>2, PassAdvances DEF PumpFrom
<1>4. CASE kept.terminals[a][u] # "none"
    <2>1. UNCHANGED <<active, kept>>
        BY <1>4 DEF TurnStarted
    <2> QED
        BY <2>1, <1>2, <1>3, NothingPumped
<1>5. CASE kept.terminals[a][u] = "none"
    <2> DEFINE g == generation
               new == [gen |-> g, turn |-> u]
    <2>1. /\ active' = [active EXCEPT ![a] = new]
          /\ kept' = [kept EXCEPT !.current[a] = u]
        BY <1>1, <1>5 DEF TurnStarted
    <2>2. kept \in Registries /\ active \in [Agents -> Actives] /\ new \in Actives
        BY <1>1, GenerationIsNumber DEF IInv, TypeInv, Actives, Turns
    <2>3. /\ active' \in [Agents -> Actives]
          /\ active'[a] = new /\ \A b \in Agents \ {a} : active'[b] = active[b]
        BY <1>1, <2>1, <2>2
    <2>4. new # NoActive /\ new.gen = g /\ new.turn = u
        BY <1>1 DEF NoActive
    <2> HIDE DEF new
    <2>5. u \in 0 .. MaxTurns
        BY <1>1 DEF Turns
    <2>6. /\ kept' \in Registries
          /\ kept'.current = [kept.current EXCEPT ![a] = u]
          /\ kept'.route = kept.route /\ kept'.terminals = kept.terminals
          /\ kept'.order = kept.order /\ kept'.turnOrder = kept.turnOrder
          /\ kept'.interrupt = kept.interrupt
        BY <1>1, <2>1, <2>2, <2>5 DEF Registries
    <2>7. kept'.current[a] = u /\ \A b \in Agents \ {a} : kept'.current[b] = kept.current[b]
        BY <1>1, <2>2, <2>6 DEF Registries
    <2>8. kept.route[a] # NoRoute
        BY <1>1 DEF RoutedAgents
    <2>9. IsSound(kept, active, g, {})
        BY DEF IInv, KeptInv
    <2>10. RoutesAreOf(kept', g)
        BY <2>6, <2>7, <2>8, <2>9 DEF IsSound, RoutesAreOf
    <2>11. ActiveIsCurrent(kept', active', g)
        <3> SUFFICES ASSUME NEW b \in Agents, active'[b] # NoActive
                     PROVE  /\ kept'.route[b] # NoRoute
                            /\ active'[b].gen = g
                            /\ active'[b].turn = kept'.current[b]
                            /\ active'[b].turn \in Turns
                            /\ kept'.terminals[b][active'[b].turn] = "none"
            BY DEF ActiveIsCurrent
        <3>1. CASE b = a
            BY <3>1, <1>1, <1>5, <2>3, <2>4, <2>6, <2>7, <2>8
        <3>2. CASE b # a
            BY <3>2, <2>3, <2>6, <2>7, <2>9 DEF IsSound, ActiveIsCurrent
        <3> QED
            BY <3>1, <3>2
    <2>12. RoutedAgents(kept') = RoutedAgents(kept)
        BY <2>6 DEF RoutedAgents
    <2>13. IsAcyclic(kept')
        BY <2>6, <2>9, <2>12, AcyclicStays DEF IsSound
    <2>14. IsBounded(kept')
        BY <2>6, <2>9, <2>12 DEF IsSound, IsBounded
    <2>15. ASSUME NEW b \in Agents
           PROVE  IsEvictable(kept', active', b)
        <3>1. CASE b = a
            BY <3>1, <2>3, <2>4 DEF IsEvictable, IsFinished
        <3>2. CASE b # a
            BY <3>2, <2>3, <2>6, <2>7, <2>9 DEF IsSound, IsEvictable, IsFinished
        <3> QED
            BY <3>1, <3>2
    <2>16. IsSound(kept', active', g, {})
        BY <2>6, <2>10, <2>11, <2>13, <2>14, <2>15 DEF IsSound
    <2>17. ASSUME NEW b \in Agents, b # a
           PROVE  Continues(b)
        BY <2>3, <2>6, <2>7, <2>17 DEF Continues, Stays
    <2>18. shown' = shown /\ overtaken' = overtaken
        BY <1>2 DEF seen
    <2>19. Passes(e, rest, a)
        BY <1>1, <1>2 DEF Passes, IsOfTurn
    <2>20. Begins(e, rest, a)
        BY <1>1, <2>3, <2>6, <2>7, <2>18, <2>19 DEF Begins, new
    <2>21. ShowsTruth(e, rest)
        BY <2>18 DEF ShowsTruth, IInv, TypeInv
    <2>22. \A b \in RoutedAgents(kept') : b \notin DOMAIN table'
        BY <1>2, <2>12 DEF IInv, RoutedInv
    <2> QED
        BY <1>1, <1>2, <1>3, <2>3, <2>16, <2>17, <2>20, <2>21, <2>22 DEF Pumped, Around
<1> QED
    BY <1>4, <1>5

\* turn/completed waits for request_lifecycle.
LEMMA WaitPumped ==
    ASSUME IInv, NEW e, NEW rest, NEW s, PumpFrom(e, rest, s), Around, RoutedEvent(e),
           e.kind = "turnCompleted", completing' = TRUE, agenda' = <<e>> \o rest,
           UNCHANGED <<table, active, kept, seen>>
    PROVE  Pumped(e, rest, s) /\ CompletingInv'
<1>1. e \in Events(process, s) /\ QueuesOf(rest, table, s)
    BY DEF PumpFrom
<1>2. Advances(e, rest, agenda', table', s)
    BY <1>1, WaitAdvances
<1>3. /\ e.gen = generation /\ generation # 0 /\ e.thread \in RoutedAgents(kept)
    <2>1. e.thread \in Agents
        BY <1>1 DEF Events, Sound
    <2> QED
        BY <2>1, RoutedIsCurrent, SubagentsAssumption DEF RoutedEvent
<1>4. Pumped(e, rest, s)
    BY <1>2, <1>3, NothingPumped
<1>5. rest \in Seq(Events(process, s))
    BY <1>1 DEF QueuesOf
<1>6. agenda' # <<>> /\ Head(agenda') = e
    <2> HIDE DEF Events
    <2> QED
        BY <1>5
<1>7. CompletingInv'
    BY <1>3, <1>6 DEF CompletingInv, RoutedAgents, Around
<1> QED
    BY <1>4, <1>7

\* An item about an agent
LEMMA CollabItemPumped ==
    ASSUME IInv, NEW e, NEW rest, NEW s, PumpFrom(e, rest, s), Around, RoutedEvent(e),
           e.kind = "collabItem", CollabItem(e, rest)
    PROVE  Pumped(e, rest, s) /\ completing' = completing
<1> DEFINE x == Establish(kept, e.other, e.thread, e.gen, e.turn)
           k == x.kept
           d == [e EXCEPT !.kind = "collabStatus"]
           after == IF e.status = "ended" THEN <<d>> \o rest ELSE rest
<1>1. e \in Event /\ e.other \in Agents /\ e.gen = generation /\ generation # 0
    BY RoutedIsCurrent DEF PumpFrom, Events, Sound, RoutedEvent
<1>2. /\ IsSound(k, active, generation, {})
      /\ \A b \in Agents : Stays(kept, k, b)
      /\ RoutedAgents(k) \subseteq RoutedAgents(kept) \cup (IF x.ok THEN {e.other} ELSE {})
    <2>1. e.turn \in 0 .. MaxTurns /\ e.thread \in Threads
        BY <1>1 DEF Event
    <2>2. IsSound(kept, active, generation, {})
        BY DEF IInv, KeptInv
    <2> HIDE DEF x
    <2>3. x = Establish(kept, e.other, e.thread, e.gen, e.turn)
        BY DEF x
    <2> QED
        BY <1>1, <2>1, <2>2, <2>3, GenerationIsNumber, EstablishKeeps
<1>3. d \in Events(process, s) /\ d.kind = "collabStatus" /\ d.gen = generation
    <2>1. /\ d \in Event
          /\ d.kind = "collabStatus" /\ d.thread = e.thread /\ d.gen = e.gen /\ d.turn = e.turn
          /\ d.other = e.other
        BY <1>1 DEF Event, Kinds
    <2> HIDE DEF d
    <2> QED
        BY <1>1, <2>1 DEF PumpFrom, Events, Sound
<1> HIDE DEF d
<1>4. Follows(after, rest, s)
    BY <1>3 DEF Follows
<1>5. CASE x.ok
    <2>1. Drained(e.other, after) /\ kept' = k /\ UNCHANGED <<completing, active, seen>>
        BY <1>5 DEF CollabItem, d
    <2> HIDE DEF x, after
    <2> QED
        BY <1>1, <1>2, <1>4, <1>5, <2>1, DrainedPumped
<1>6. CASE ~x.ok
    <2>1. agenda' = after /\ table' = table /\ kept' = k /\ UNCHANGED <<completing, active, seen>>
        BY <1>6 DEF CollabItem, d
    <2> HIDE DEF x
    <2>2. \A a \in RoutedAgents(kept') : a \notin DOMAIN table'
        BY <1>2, <1>6, <2>1 DEF IInv, RoutedInv
    <2> HIDE DEF after
    <2>3. Advances(e, rest, agenda', table', s)
        BY <1>4, <2>1, AfterAdvances DEF PumpFrom
    <2> QED
        BY <1>1, <1>2, <2>1, <2>2, <2>3, UnshownPumped
<1> QED
    BY <1>5, <1>6

\* agentMessage: the turn is put last into the order.
LEMMA MessagePumped ==
    ASSUME IInv, NEW e, NEW rest, NEW s, PumpFrom(e, rest, s), Around, RoutedEvent(e),
           e.kind = "agentMessage", kept' = KeepTurn(kept, e.thread, e.turn), agenda' = rest,
           UNCHANGED <<table, active, seen>>
    PROVE  Pumped(e, rest, s)
<1> DEFINE a == e.thread
           t == e.turn
           mark == kept.terminals[a][t]
           g == generation
<1>1. a \in Agents /\ t \in TurnKeys /\ t \in Turns /\ generation # 0
    BY RoutedIsCurrent DEF PumpFrom, Events, Sound, RoutedEvent, TurnKeys
<1>2. kept \in Registries /\ mark \in Marks
    BY <1>1, GenerationIsNumber DEF Registries
<1>3. kept' = Marked(kept, a, t, mark)
    <2>1. kept = [kept EXCEPT !.terminals[a][t] = mark]
        BY <1>1, <1>2 DEF Registries
    <2> HIDE DEF mark
    <2> QED
        BY <2>1 DEF Marked
<1>4. IsSound(kept, active, g, {}) /\ IsSound(kept, active, g, {a})
    BY <1>1, ButOne DEF IInv, KeptInv
<1>5. mark = "none" \/ active[a] = NoActive \/ active[a].turn # t
    BY <1>1, <1>4 DEF IsSound, ActiveIsCurrent
<1> HIDE DEF mark
<1>6. /\ IsSound(kept', active, g, {a})
      /\ kept'.terminals[a][t] \in {mark, "none"}
      /\ \A u \in TurnKeys \ {t} : kept'.terminals[a][u] \in {kept.terminals[a][u], "none"}
    <2> DEFINE l == kept'
    <2>1. l = Marked(kept, a, t, mark)
        BY <1>3
    <2> HIDE DEF a, t, g, l
    <2>2. IsSound(l, active, g, {a})
        BY <1>1, <1>2, <1>4, <1>5, <2>1, MarkedKeeps, ZenonT(30)
    <2>3. l.terminals[a][t] \in {mark, "none"}
        BY <1>1, <1>2, <1>4, <1>5, <2>1, MarkedKeeps, ZenonT(30)
    <2>4. \A u \in TurnKeys \ {t} : l.terminals[a][u] \in {kept.terminals[a][u], "none"}
        BY <1>1, <1>2, <1>4, <1>5, <2>1, MarkedKeeps, ZenonT(30)
    <2> QED
        BY <2>2, <2>3, <2>4 DEF l
<1>7. kept'.route = kept.route /\ kept'.current = kept.current /\ kept'.order = kept.order
      /\ kept'.interrupt = kept.interrupt
    BY <1>1, <1>2, <1>3, MarkedFields
<1>8. IsEvictable(kept', active, a)
    <2>1. \A u \in TurnKeys : kept'.terminals[a][u] \in {kept.terminals[a][u], "none"}
        BY <1>6 DEF mark
    <2>2. kept.current[a] # 0 => kept.current[a] \in TurnKeys
        BY <1>1, <1>2 DEF Registries, TurnKeys, Turns
    <2>3. IsEvictable(kept, active, a)
        BY <1>1, <1>4 DEF IsSound
    <2> QED
        BY <1>7, <2>1, <2>2, <2>3 DEF IsEvictable, IsFinished
<1>9. IsSound(kept', active, g, {})
    BY <1>1, <1>6, <1>8, ButOne
<1>10. \A b \in Agents : Stays(kept, kept', b)
    BY <1>7 DEF Stays
<1>11. \A b \in RoutedAgents(kept') : b \notin DOMAIN table'
    BY <1>7 DEF IInv, RoutedInv, RoutedAgents
<1>12. Advances(e, rest, agenda', table', s)
    BY PassAdvances DEF PumpFrom
<1> QED
    BY <1>1, <1>9, <1>10, <1>11, <1>12, UnshownPumped


\* The truth about a turn is shown and remembered.  It is the agent's current turn, or the
\* turn of e, which is handled at once.
LEMMA TruthPumped ==
    ASSUME IInv, NEW e, NEW rest, NEW s, Around, generation # 0,
           NEW a \in Agents, NEW t \in TurnKeys,
           NEW k, IsSound(k, active, generation, {}), \A b \in Agents : Stays(kept, k, b),
           t \in Turns => t = kept.current[a] \/ (Passes(e, rest, a) /\ t = e.turn),
           active' = Retire(a, generation, t), kept' = Remembered(k, a, t, Running(active')),
           ShowTruth(a, t), Advances(e, rest, agenda', table', s),
           \A b \in RoutedAgents(k) : b \notin DOMAIN table'
    PROVE  Pumped(e, rest, s)
<1> DEFINE g == generation
           act == active'
           l == kept'
<1>1. active \in [Agents -> Actives] /\ k \in Registries /\ scenario \in Scenarios
    BY GenerationIsNumber DEF IInv, TypeInv, IsSound
<1>2. ActiveIsCurrent(kept, active, g) /\ ActiveIsCurrent(k, active, g)
    BY DEF IInv, KeptInv, IsSound
<1>3. /\ act \in [Agents -> Actives]
      /\ \A b \in Agents \ {a} : act[b] = active[b]
      /\ act[a] \in {active[a], NoActive}
      /\ act[a] = NoActive \/ act[a].turn # t
    <2>1. NoActive \in Actives
        BY BoundsAreNumbers DEF NoActive, Actives
    <2>2. CASE active[a] = [gen |-> g, turn |-> t]
        <3>1. act = [active EXCEPT ![a] = NoActive]
            BY <2>2 DEF Retire
        <3> QED
            BY <1>1, <2>1, <3>1
    <2>3. CASE active[a] # [gen |-> g, turn |-> t]
        <3>1. act = active
            BY <2>3 DEF Retire
        <3>2. active[a] # NoActive => active[a].gen = g
            BY <1>2 DEF ActiveIsCurrent
        <3>3. active[a] = [gen |-> active[a].gen, turn |-> active[a].turn]
            BY <1>1 DEF Actives
        <3> QED
            BY <1>1, <2>3, <3>1, <3>2, <3>3
    <2> QED
        BY <2>2, <2>3
<1>4. l = Remembered(k, a, t, Running(act))
    OBVIOUS
<1> HIDE DEF act, l
<1>5. IsSound(k, act, g, {a})
    BY <1>3, RetiredKeeps, ZenonT(30)
<1>6. IsSound(l, act, g, {})
    BY <1>1, <1>3, <1>4, <1>5, RememberedKeeps, ZenonT(30)
<1>7. \A b \in Agents : Fades(k, l, b)
    BY <1>1, <1>3, <1>4, <1>5, RememberedKeeps, ZenonT(30)
<1>8. \A b \in Agents : Stays(kept, l, b)
    BY <1>7, FadesStays
<1>9. \A b \in RoutedAgents(l) : b \notin DOMAIN table'
    BY <1>7 DEF Fades, RoutedAgents
<1>10. \A b \in Agents : Continues(b)
    BY <1>3, <1>8 DEF Continues, act, l
<1>11. ShowsTruth(e, rest)
    <2>1. shown \in [Agents -> [Turns -> Marks]] /\ overtaken \subseteq Agents \X Turns
        BY DEF IInv, TypeInv
    <2>2. shown' \in [Agents -> [Turns -> Marks]]
        BY <2>1 DEF ShowTruth, Marks
    <2>3. cancelling.agent = a /\ cancelling.turn = t => t \in Turns
        BY SubagentsAssumption DEF IInv, TypeInv, Watchdogs, NoWatchdog
    <2>4. overtaken \subseteq overtaken' /\ overtaken' \subseteq Agents \X Turns
        BY <2>1, <2>3 DEF ShowTruth
    <2>5. ASSUME NEW b \in Agents, NEW n \in Turns, shown'[b][n] # shown[b][n]
          PROVE  IsShown(e, rest, b, n)
        <3>1. b = a /\ n = t /\ shown'[b][n] = "authoritative"
            BY <2>1, <2>5 DEF ShowTruth
        <3>2. cancelling.agent = a /\ cancelling.turn = t => <<a, t>> \in overtaken'
            BY DEF ShowTruth
        <3> QED
            BY <1>3, <3>1, <3>2 DEF IsShown, act
    <2> QED
        BY <2>2, <2>4, <2>5 DEF ShowsTruth
<1> QED
    BY <1>3, <1>6, <1>9, <1>10, <1>11 DEF Pumped, Around, act, l

\* Which turn an item is about.
LEMMA TurnKeyIs ==
    ASSUME NEW k \in Registries, NEW a \in Agents, NEW item \in {CollabKey, ActivityKey}
    PROVE  /\ TurnKey(k, a, item) \in TurnKeys
           /\ TurnKey(k, a, item) \in Turns => TurnKey(k, a, item) = k.current[a] /\ k.current[a] # 0
<1>1. k.current[a] \in 0 .. MaxTurns
    BY DEF Registries
<1>2. item \in TurnKeys /\ item \notin Turns
    BY BoundsAreNumbers DEF TurnKeys, Turns, CollabKey, ActivityKey
<1>3. k.current[a] # 0 => k.current[a] \in TurnKeys
    BY <1>1, BoundsAreNumbers DEF TurnKeys, Turns
<1> QED
    BY <1>2, <1>3 DEF TurnKey

\* The end that an item's status says.
LEMMA CollabStatusPumped ==
    ASSUME IInv, NEW e, NEW rest, NEW s, PumpFrom(e, rest, s), Around, e.kind = "collabStatus",
           CollabStatus(e, rest)
    PROVE  Pumped(e, rest, s) /\ completing' = completing
<1> DEFINE a == e.other
           t == TurnKey(kept, a, CollabKey)
<1>1. a \in Agents /\ e.gen = generation /\ generation # 0
    BY DEF PumpFrom, Events, Sound
<1>2. kept \in Registries /\ IsSound(kept, active, generation, {})
      /\ \A b \in Agents : Stays(kept, kept, b)
    BY GenerationIsNumber DEF IInv, KeptInv
<1>3. t \in TurnKeys /\ (t \in Turns => t = kept.current[a])
    BY <1>1, <1>2, TurnKeyIs
<1>4. agenda' = rest /\ table' = table /\ completing' = completing
    BY DEF CollabStatus
<1>5. Advances(e, rest, agenda', table', s)
    BY <1>4, PassAdvances DEF PumpFrom
<1>6. \A b \in RoutedAgents(kept) : b \notin DOMAIN table'
    BY <1>4 DEF IInv, RoutedInv
<1>7. CASE IsFirst(kept, a, t)
    <2>1. /\ active' = Retire(a, generation, t)
          /\ kept' = Remembered(kept, a, t, Running(active'))
          /\ ShowTruth(a, t)
        BY <1>1, <1>7 DEF CollabStatus, RetiredByItem
    <2> HIDE DEF a, t
    <2> QED
        BY <1>1, <1>2, <1>3, <1>4, <1>5, <1>6, <2>1, TruthPumped
<1>8. CASE ~IsFirst(kept, a, t)
    <2>1. UNCHANGED <<active, kept, seen>>
        BY <1>8 DEF CollabStatus
    <2> QED
        BY <1>4, <1>5, <2>1, NothingPumped
<1> QED
    BY <1>7, <1>8

\* What an item says of an agent's activity.
LEMMA AgentActivityPumped ==
    ASSUME IInv, NEW e, NEW rest, NEW s, PumpFrom(e, rest, s), Around, RoutedEvent(e),
           e.kind = "agentActivity", AgentActivity(e, rest)
    PROVE  Pumped(e, rest, s) /\ completing' = completing
<1> DEFINE a == e.other
           x == Establish(kept, a, e.thread, e.gen, e.turn)
           k == x.kept
           t == TurnKey(k, a, ActivityKey)
           ends == e.status = "ended"
<1>1. e \in Event /\ a \in Agents /\ e.gen = generation /\ generation # 0
    BY RoutedIsCurrent DEF PumpFrom, Events, Sound, RoutedEvent
<1>2. /\ IsSound(k, active, generation, {})
      /\ \A b \in Agents : Stays(kept, k, b)
      /\ RoutedAgents(k) \subseteq RoutedAgents(kept) \cup (IF x.ok THEN {a} ELSE {})
    <2>1. e.turn \in 0 .. MaxTurns /\ e.thread \in Threads
        BY <1>1 DEF Event
    <2>2. IsSound(kept, active, generation, {})
        BY DEF IInv, KeptInv
    <2> HIDE DEF x
    <2>3. x = Establish(kept, a, e.thread, e.gen, e.turn)
        BY DEF x
    <2> QED
        BY <1>1, <2>1, <2>2, <2>3, GenerationIsNumber, EstablishKeeps
<1>3. \/ ~x.ok /\ kept' = k /\ agenda' = rest /\ UNCHANGED <<completing, table, active, seen>>
      \/ /\ x.ok
         /\ active' = IF ends THEN Retire(a, generation, t) ELSE active
         /\ kept' = IF ends /\ IsFirst(k, a, t) THEN Remembered(k, a, t, Running(active')) ELSE k
         /\ IF ends /\ IsFirst(k, a, t) THEN ShowTruth(a, t) ELSE UNCHANGED seen
         /\ IF a \in RoutedAgents(kept) THEN agenda' = rest /\ UNCHANGED table
            ELSE Drained(a, rest)
         /\ UNCHANGED completing
    BY <1>1 DEF AgentActivity, RetiredByItem
<1> HIDE DEF x
<1>4. /\ Advances(e, rest, agenda', table', s)
      /\ \A b \in RoutedAgents(k) : b \notin DOMAIN table'
    <2>1. CASE agenda' = rest /\ table' = table
               /\ RoutedAgents(k) \subseteq RoutedAgents(kept)
        <3>1. Advances(e, rest, agenda', table', s)
            BY <2>1, PassAdvances DEF PumpFrom
        <3> QED
            BY <2>1, <3>1 DEF IInv, RoutedInv
    <2>2. CASE Drained(a, rest)
        <3>1. agenda' = QueueOf(table, a) \o rest /\ table' = Drop(table, a)
            BY <2>2 DEF Drained
        <3>2. Follows(rest, rest, s)
            BY DEF Follows
        <3>3. Advances(e, rest, agenda', table', s)
            BY <3>1, <3>2, DrainAdvances DEF PumpFrom
        <3> QED
            BY <1>2, <3>1, <3>3 DEF IInv, RoutedInv, Drop
    <2> QED
        BY <1>2, <1>3, <2>1, <2>2
<1>5. k \in Registries /\ ActiveIsCurrent(k, active, generation)
    BY <1>2 DEF IsSound
<1>6. t \in TurnKeys /\ (t \in Turns => t = kept.current[a])
    <2>1. t \in TurnKeys /\ (t \in Turns => t = k.current[a] /\ k.current[a] # 0)
        BY <1>1, <1>5, TurnKeyIs
    <2> QED
        BY <1>1, <1>2, <2>1 DEF Stays
<1>7. CASE x.ok /\ ends /\ IsFirst(k, a, t)
    <2>1. /\ active' = Retire(a, generation, t)
          /\ kept' = Remembered(k, a, t, Running(active'))
          /\ ShowTruth(a, t)
        BY <1>3, <1>7
    <2> HIDE DEF a, k, t
    <2>2. Pumped(e, rest, s)
        BY <1>1, <1>2, <1>4, <1>6, <2>1, TruthPumped
    <2> QED
        BY <1>3, <2>2
<1>8. CASE ~(x.ok /\ ends /\ IsFirst(k, a, t))
    <2>1. x.ok /\ ends => active' = active
        <3> SUFFICES ASSUME x.ok, ends, active[a] = [gen |-> generation, turn |-> t]
                     PROVE  FALSE
            BY <1>3 DEF Retire
        <3>1. active[a] # NoActive
            BY <1>1 DEF NoActive
        <3>2. k.terminals[a][t] = "none"
            BY <1>1, <1>5, <3>1 DEF ActiveIsCurrent
        <3> QED
            BY <1>8, <3>2 DEF IsFirst
    <2>2. kept' = k /\ UNCHANGED <<active, seen>> /\ completing' = completing
        BY <1>3, <1>8, <2>1
    <2> HIDE DEF k
    <2>3. Pumped(e, rest, s)
        BY <1>1, <1>2, <1>4, <2>2, UnshownPumped
    <2> QED
        BY <2>2, <2>3
<1> QED
    BY <1>7, <1>8

-----------------------------------------------------------------------------
(* The pump *)

\* An event is handled.
LEMMA HandleKeeps ==
    ASSUME IInv, ~completing, NEW e, NEW rest, NEW s, PumpFrom(e, rest, s), server' = s,
           Handle(e, rest)
    PROVE  IInv' /\ StepStands
<1>1. Around
    BY DEF Handle, Around
<1>2. completing' = completing => CompletingInv' /\ completing' \in BOOLEAN
    BY DEF CompletingInv, IInv, TypeInv
<1> DEFINE d == [e EXCEPT !.status = IF @ = "drained" THEN "none" ELSE @]
<1>3. CASE e.kind = "collabStatus"
    <2>1. CollabStatus(e, rest)
        BY <1>3 DEF Handle
    <2>2. Pumped(e, rest, s) /\ completing' = completing
        BY <1>1, <1>3, <2>1, CollabStatusPumped
    <2> QED
        BY <1>2, <2>2, PumpedKeeps
<1>4. CASE HandledNothing(rest)
    <2>1. Pumped(e, rest, s)
        BY <1>1, <1>4, NothingPumped, PassAdvances DEF HandledNothing, PumpFrom
    <2> QED
        BY <1>2, <1>4, <2>1, PumpedKeeps DEF HandledNothing
<1>5. CASE e.kind = "threadStarted" /\ ThreadStarted(e, rest)
    <2>1. generation # 0
        BY <1>5 DEF PumpFrom
    <2>2. Pumped(e, rest, s) /\ completing' = completing
        BY <1>1, <1>5, <2>1, ThreadStartedPumped
    <2> QED
        BY <1>2, <2>2, PumpedKeeps
<1>6. CASE e.kind # "collabStatus" /\ ~IsRouted(kept, e.thread) /\ DeferEvent(kept, d, rest)
    <2>1. d = e \/ d = [e EXCEPT !.status = "none"]
        <3>1. e \in Event
            BY DEF PumpFrom, Events
        <3> QED
            BY <3>1 DEF Event
    <2>2. e.thread \notin RoutedAgents(kept)
        <3>1. e.thread # Root => e.thread \notin RoutedAgents(kept)
            BY <1>6 DEF IsRouted
        <3>2. Root \notin RoutedAgents(kept)
            BY SubagentsAssumption DEF RoutedAgents
        <3> QED
            BY <3>1, <3>2
    <2>3. IsSound(kept, active, generation, {}) /\ \A a \in Agents : Stays(kept, kept, a)
        BY GenerationIsNumber DEF IInv, KeptInv
    <2> HIDE DEF d
    <2>4. Pumped(e, rest, s)
        BY <1>1, <1>6, <2>1, <2>2, <2>3, DeferPumped
    <2> QED
        BY <1>2, <1>6, <2>4, PumpedKeeps DEF DeferEvent
<1>7. CASE RoutedEvent(e) /\ e.kind = "turnStarted" /\ TurnStarted(e, rest)
    <2>1. Pumped(e, rest, s) /\ completing' = completing
        BY <1>1, <1>7, TurnStartedPumped
    <2> QED
        BY <1>2, <2>1, PumpedKeeps
<1>8. CASE RoutedEvent(e) /\ e.kind = "turnCompleted" /\ completing' = TRUE
           /\ agenda' = <<e>> \o rest /\ UNCHANGED <<table, active, kept, seen>>
    <2>1. Pumped(e, rest, s) /\ CompletingInv'
        BY <1>1, <1>8, WaitPumped
    <2> QED
        BY <1>8, <2>1, PumpedKeeps
<1>9. CASE RoutedEvent(e) /\ e.kind = "collabItem" /\ CollabItem(e, rest)
    <2>1. Pumped(e, rest, s) /\ completing' = completing
        BY <1>1, <1>9, CollabItemPumped
    <2> QED
        BY <1>2, <2>1, PumpedKeeps
<1>10. CASE RoutedEvent(e) /\ e.kind = "agentActivity" /\ AgentActivity(e, rest)
    <2>1. Pumped(e, rest, s) /\ completing' = completing
        BY <1>1, <1>10, AgentActivityPumped
    <2> QED
        BY <1>2, <2>1, PumpedKeeps
<1>11. CASE RoutedEvent(e) /\ e.kind = "agentMessage" /\ kept' = KeepTurn(kept, e.thread, e.turn)
            /\ agenda' = rest /\ UNCHANGED <<completing, table, active, seen>>
    <2>1. Pumped(e, rest, s)
        BY <1>1, <1>11, MessagePumped
    <2> QED
        BY <1>2, <1>11, <2>1, PumpedKeeps
<1>12. CASE RoutedEvent(e) /\ e.kind # "collabStatus"
    <2>1. \/ HandledNothing(rest)
          \/ e.kind = "threadStarted" /\ ThreadStarted(e, rest)
          \/ CASE e.kind = "turnStarted" -> TurnStarted(e, rest)
               [] e.kind = "turnCompleted" ->
                      /\ completing' = TRUE
                      /\ agenda' = <<e>> \o rest
                      /\ UNCHANGED <<table, active, kept, seen>>
               [] e.kind = "collabItem" -> CollabItem(e, rest)
               [] e.kind = "agentActivity" -> AgentActivity(e, rest)
               [] e.kind = "agentMessage" ->
                      /\ kept' = KeepTurn(kept, e.thread, e.turn)
                      /\ agenda' = rest
                      /\ UNCHANGED <<completing, table, active, seen>>
               [] OTHER -> HandledNothing(rest)
        BY <1>12 DEF Handle, RoutedEvent
    <2> QED
        BY <2>1, <1>4, <1>5, <1>7, <1>8, <1>9, <1>10, <1>11, <1>12
<1>13. CASE ~RoutedEvent(e) /\ e.kind # "collabStatus"
    <2>1. \/ HandledNothing(rest)
          \/ e.kind = "threadStarted" /\ ThreadStarted(e, rest)
          \/ ~IsRouted(kept, e.thread) /\ DeferEvent(kept, d, rest)
        BY <1>13 DEF Handle, RoutedEvent
    <2> QED
        BY <2>1, <1>4, <1>5, <1>6, <1>13
<1> QED
    BY <1>3, <1>12, <1>13

\* The pump takes the first of what it has to handle.
LEMMA NextPumpFrom ==
    ASSUME IInv, agenda # <<>>
    PROVE  PumpFrom(Head(agenda), Tail(agenda), server)
<1> DEFINE S == Events(process, server)
           e == Head(agenda)
           rest == Tail(agenda)
           g == generation
<1>1. QueuesOf(agenda, table, server) /\ agenda \in Seq(S)
    BY DEF IInv, QueuesOf
<1> HIDE DEF S
<1>2. e \in S /\ rest \in Seq(S)
    BY <1>1
<1>3. e = agenda[1] /\ 1 \in DOMAIN agenda
      /\ \A i \in DOMAIN rest : i + 1 \in DOMAIN agenda /\ rest[i] = agenda[i + 1]
    BY <1>1
<1>4. e.kind = "collabStatus" => e.gen = g
    BY <1>1, <1>3 DEF QueuesOf
<1> HIDE DEF e, rest
<1>5. QueuesOf(rest, table, server)
    <2>1. \A i \in DOMAIN rest : rest[i].kind = "collabStatus" => rest[i].gen = g
        BY <1>1, <1>3 DEF QueuesOf
    <2> QED
        BY <1>1, <1>2, <2>1 DEF QueuesOf, S
<1>6. g # 0 /\ ServersAre(server)
    BY DEF IInv, GensInv
<1> HIDE DEF g
<1>7. ASSUME NEW a \in Agents
      PROVE  LinesFrom(e, rest, table, a, g)
    <2>1. Lines(agenda, table, a, g)
        BY DEF IInv, OrderInv, g
    <2> QED
        BY <1>1, <2>1, OrderSplit DEF Lines, LinesFrom, e, rest
<1>8. ASSUME NEW a \in Agents, NEW n \in 0 .. MaxTurns, Seen(a, n)
      PROVE  n <= server[a].turns /\ AftersFrom(e, rest, table, a, g, n)
    <2>1. n <= server[a].turns /\ Afters(agenda, table, a, g, n)
        BY <1>8 DEF IInv, SeenInv, g
    <2> QED
        BY <1>1, <2>1, OrderSplit DEF Afters, AftersFrom, e, rest
<1> QED
    BY <1>2, <1>4, <1>5, <1>6, <1>7, <1>8 DEF PumpFrom, S, e, rest, g

\* What is known of an event stays when the app-server has begun more turns.
LEMMA EventsGrow ==
    ASSUME NEW p \in Nat, NEW q \in Nat, p <= q, p <= MaxGeneration,
           NEW r \in [Agents -> Servers], NEW s \in [Agents -> Servers],
           \A a \in Agents : r[a].turns <= s[a].turns
    PROVE  /\ Events(p, r) \subseteq Events(q, s)
           /\ \A t : EventsOf(t, p, r) \subseteq EventsOf(t, q, s)
<1>1. ASSUME NEW e \in Event, Sound(e, p, r)
      PROVE  Sound(e, q, s)
    <2>1. e.gen <= q
        <3>1. e.gen \in Nat /\ e.gen <= p
            BY <1>1, BoundsAreNumbers DEF Sound, Event, Generations
        <3> QED
            BY <3>1
    <2>2. ASSUME NEW a \in Agents, e.turn <= r[a].turns
          PROVE  e.turn <= s[a].turns
        <3>1. e.turn \in Nat /\ r[a].turns \in Nat /\ s[a].turns \in Nat
            BY <1>1, BoundsAreNumbers DEF Event, Servers
        <3> QED
            BY <2>2, <3>1
    <2> QED
        BY <1>1, <2>1, <2>2 DEF Sound
<1> QED
    BY <1>1 DEF Events, EventsOf

\* So does a queue of them.
LEMMA QueuesGrow ==
    ASSUME IInv, NEW s \in [Agents -> Servers],
           \A a \in Agents : server[a].turns <= s[a].turns
    PROVE  QueuesOf(agenda, table, s)
<1>1. QueuesOf(agenda, table, server)
    BY DEF IInv
<1>2. server \in [Agents -> Servers] /\ process \in Nat /\ process <= process
      /\ process <= MaxGeneration
    BY BoundsAreNumbers DEF IInv, TypeInv, ServersAre, Generations
<1>3. /\ Events(process, server) \subseteq Events(process, s)
      /\ \A t : EventsOf(t, process, server) \subseteq EventsOf(t, process, s)
    BY <1>2, EventsGrow
<1>4. \A S, T : S \subseteq T => Seq(S) \subseteq Seq(T)
    OBVIOUS
<1>5. /\ Seq(Events(process, server)) \subseteq Seq(Events(process, s))
      /\ \A t : Seq(EventsOf(t, process, server)) \subseteq Seq(EventsOf(t, process, s))
    BY <1>3, <1>4
<1> QED
    BY <1>1, <1>5 DEF QueuesOf

\* The pump takes an event that has just been sent: a start is of a turn after all that
\* the agent has begun.
LEMMA SentPumpFrom ==
    ASSUME IInv, agenda = <<>>, NEW s, ServersAre(s),
           \A a \in Agents : server[a].turns <= s[a].turns,
           NEW e \in Events(process, s), e.kind # "collabStatus",
           generation = 0 => e.kind = "turnStarted",
           IsStart(e, e.thread, generation) => server[e.thread].turns < e.turn
    PROVE  PumpFrom(e, <<>>, s)
<1> DEFINE g == generation
           q == <<>>
           S == Events(process, server)
<1>1. QueuesOf(q, table, s)
    BY QueuesGrow DEF ServersAre
<1>2. \A a \in Agents : Idle(q, a)
    BY DEF Idle
<1>3. ASSUME NEW a \in Agents
      PROVE  LinesFrom(e, q, table, a, g)
    <2>1. Ordered(QueueOf(table, a), a, g)
        BY DEF IInv, OrderInv, Lines
    <2>2. /\ Ordered(q, a, g) /\ Precedes(QueueOf(table, a), q, a, g)
          /\ Precedes(<<e>>, q, a, g)
        BY <1>2, OrderIdle
    <2>3. ASSUME NEW i \in DOMAIN QueueOf(table, a)
          PROVE  Allows(QueueOf(table, a)[i], e, a, g)
        <3> DEFINE Q == QueueOf(table, a)
                   d == Q[i]
        <3>1. QueuesOf(agenda, table, server)
            BY DEF IInv
        <3>2. Q \in Seq(S)
            BY <3>1, QueueType
        <3> HIDE DEF Q, S
        <3>3. d \in S
            BY <2>3, <3>2 DEF Q
        <3> SUFFICES ASSUME IsOfTurn(d, a, g), IsStart(e, a, g)
                     PROVE  d.turn < e.turn
            BY DEF Allows, Q
        <3>4. d.turn <= server[a].turns /\ d.turn \in Turns
            BY <3>3, TurnIsKnown DEF S
        <3>5. server[a].turns < e.turn
            BY DEF IsStart
        <3>6. server[a].turns \in Nat /\ d.turn \in Nat /\ e.turn \in Nat
            BY <3>4, BoundsAreNumbers DEF IInv, ServersAre, Servers, Turns, Events, Event
        <3> QED
            BY <3>4, <3>5, <3>6
    <2>4. Precedes(QueueOf(table, a), <<e>>, a, g)
        BY <2>3, OrderAlone
    <2> QED
        BY <2>1, <2>2, <2>4 DEF LinesFrom, Lines
<1>4. ASSUME NEW a \in Agents, NEW n \in 0 .. MaxTurns, Seen(a, n)
      PROVE  n <= s[a].turns /\ AftersFrom(e, q, table, a, g, n)
    <2>1. n <= server[a].turns /\ After(QueueOf(table, a), a, g, n)
        BY <1>4 DEF IInv, SeenInv, Afters
    <2>2. n \in Nat /\ server[a].turns \in Nat /\ s[a].turns \in Nat /\ e.turn \in Nat
        BY BoundsAreNumbers DEF IInv, ServersAre, Servers, Events, Event
    <2>3. After(q, a, g, n)
        BY <1>2, OrderIdle
    <2>4. IsStart(e, a, g) => n < e.turn
        <3>1. IsStart(e, a, g) => server[a].turns < e.turn
            BY DEF IsStart
        <3> QED
            BY <2>1, <2>2, <3>1
    <2>5. After(<<e>>, a, g, n)
        BY <2>4, OrderAlone
    <2> QED
        BY <2>1, <2>2, <2>3, <2>5 DEF AftersFrom, Afters
<1> QED
    BY <1>1, <1>3, <1>4 DEF PumpFrom

\* What is sent is handled.
LEMMA SendKeeps ==
    ASSUME IInv, NEW e, ServersAre(server'),
           \A a \in Agents : server[a].turns <= server'[a].turns,
           e \in Events(process, server'), e.kind # "collabStatus",
           generation = 0 => e.kind = "turnStarted",
           IsStart(e, e.thread, generation) => server[e.thread].turns < e.turn,
           Send(e)
    PROVE  IInv' /\ StepStands
<1> DEFINE s == server'
<1>1. agenda = <<>> /\ Handle(e, <<>>) /\ server' = s
    BY DEF Send
<1>2. ~completing
    BY <1>1 DEF IInv, CompletingInv
<1>3. ServersAre(s) /\ e \in Events(process, s)
      /\ \A a \in Agents : server[a].turns <= s[a].turns
    OBVIOUS
<1> HIDE DEF s
<1>4. PumpFrom(e, <<>>, s)
    BY <1>1, <1>3, SentPumpFrom
<1> QED
    BY <1>1, <1>2, <1>4, HandleKeeps

-----------------------------------------------------------------------------
(* Each action *)

\* An event of the app-server.
LEMMA EventOfIs ==
    ASSUME NEW kind \in Kinds, NEW g \in Generations, NEW t \in Threads, NEW n \in 0 .. MaxTurns,
           NEW other \in Threads \cup {NoThread}, NEW status \in {"none", "ended"},
           NEW e, e = EventOf(kind, g, t, n, other, status)
    PROVE  /\ e \in Event
           /\ e.kind = kind /\ e.gen = g /\ e.thread = t /\ e.turn = n /\ e.other = other
BY DEF EventOf, Event

\* The app-server's side is sound; what it sends is of the process.
LEMMA ServerIs ==
    ASSUME IInv
    PROVE  /\ server \in [Agents -> Servers]
           /\ \A a \in Agents : /\ server[a].turns \in 0 .. MaxTurns
                                /\ scenario.turns[a] \in 0 .. MaxTurns
                                /\ server[a].parent \in Threads \cup {NoThread}
                                /\ server[a].running \in BOOLEAN
           /\ process \in Generations /\ process \in Nat
           /\ generation # 0 => generation \in Generations /\ generation <= process
           /\ \A a \in Agents : server[a].running => server[a].turns # 0 /\ generation # 0
           /\ \A a \in Agents : server[a].parent # NoThread => generation # 0
           /\ ServersAre(server)
<1>1. ServersAre(server)
    BY DEF IInv
<1>2. process \in Generations /\ process \in Nat /\ generation \in {0, process}
    BY BoundsAreNumbers DEF IInv, TypeInv, Generations
<1>3. \A a \in Agents : scenario.turns[a] \in 0 .. MaxTurns
    BY SubagentsAssumption DEF IInv, TypeInv
<1> QED
    BY <1>1, <1>2, <1>3 DEF ServersAre, Servers

\* A turn begins.
LEMMA SendStartedKeeps ==
    ASSUME IInv, NEW a \in Agents, SendStarted(a)
    PROVE  IInv' /\ StepStands
<1> DEFINE n == server[a].turns + 1
           e == EventOf("turnStarted", generation, a, n, NoThread, "none")
<1>1. /\ generation # 0 /\ server[a].turns < scenario.turns[a]
      /\ server' = [server EXCEPT ![a].turns = n, ![a].running = TRUE]
      /\ Send(e)
    BY DEF SendStarted
<1>2. n \in Turns /\ n \in 0 .. MaxTurns /\ server[a].turns < n
    BY <1>1, ServerIs, BoundsAreNumbers DEF Turns
<1>3. /\ e \in Event /\ e.kind = "turnStarted" /\ e.gen = generation /\ e.thread = a
      /\ e.turn = n
    <2>1. "turnStarted" \in Kinds /\ a \in Threads /\ generation \in Generations
        BY <1>1, ServerIs DEF Kinds, Threads
    <2> HIDE DEF n, e
    <2>2. e = EventOf("turnStarted", generation, a, n, NoThread, "none")
        BY DEF e
    <2> QED
        BY <1>2, <2>1, <2>2, EventOfIs
<1> HIDE DEF n, e
<1> DEFINE r == [server[a] EXCEPT !.turns = n, !.running = TRUE]
<1>4. server' = [server EXCEPT ![a] = r]
    BY <1>1, ServerIs
<1>5. r \in Servers /\ r.turns = n /\ r.running /\ r.parent = server[a].parent
    BY <1>2, ServerIs DEF Servers
<1> HIDE DEF r
<1>6. /\ server' \in [Agents -> Servers] /\ server'[a] = r
      /\ \A b \in Agents \ {a} : server'[b] = server[b]
    BY <1>4, <1>5, ServerIs
<1>7. ServersAre(server')
    <2>1. \A b \in Agents : server'[b].running => server'[b].turns # 0
        BY <1>2, <1>5, <1>6, ServerIs DEF Turns
    <2> QED
        BY <1>1, <1>6, <2>1 DEF ServersAre
<1>8. \A b \in Agents : server[b].turns <= server'[b].turns
    <2> SUFFICES ASSUME NEW b \in Agents PROVE server[b].turns <= server'[b].turns
        OBVIOUS
    <2>1. server[b].turns \in Nat /\ n \in Nat
        BY <1>2, ServerIs, BoundsAreNumbers
    <2> QED
        BY <2>1, <1>2, <1>5, <1>6
<1>9. e \in Events(process, server')
    <2>1. n \in Nat
        BY <1>2, BoundsAreNumbers
    <2> QED
        BY <2>1, <1>1, <1>2, <1>3, <1>5, <1>6, ServerIs DEF Events, Sound
<1> QED
    BY <1>1, <1>2, <1>3, <1>7, <1>8, <1>9, SendKeeps

\* An event of the current process that is no start.
LEMMA SendOtherKeeps ==
    ASSUME IInv, generation # 0, ServersAre(server'),
           \A a \in Agents : server'[a].turns = server[a].turns,
           NEW kind \in Kinds \ {"turnStarted", "collabStatus"}, NEW t \in Threads,
           NEW n \in 0 .. MaxTurns, NEW other \in Threads \cup {NoThread},
           NEW status \in {"none", "ended"},
           kind \in {"turnCompleted", "agentMessage"} =>
               t \in Agents /\ n = server[t].turns /\ n # 0,
           kind \in {"collabItem", "agentActivity"} => other \in Agents,
           kind = "threadStarted" => t \in Agents /\ other \in Threads,
           Send(EventOf(kind, generation, t, n, other, status))
    PROVE  IInv' /\ StepStands
<1> DEFINE e == EventOf(kind, generation, t, n, other, status)
<1>1. Send(e) /\ e = EventOf(kind, generation, t, n, other, status)
    OBVIOUS
<1> HIDE DEF e
<1>2. generation \in Generations /\ generation <= process
    BY ServerIs
<1>3. /\ e \in Event
      /\ e.kind = kind /\ e.gen = generation /\ e.thread = t /\ e.turn = n /\ e.other = other
    BY <1>1, <1>2, EventOfIs
<1>4. kind \in {"turnCompleted", "agentMessage"} => n \in Turns /\ n <= server'[t].turns
    BY BoundsAreNumbers DEF Turns
<1>5. e \in Events(process, server')
    BY <1>2, <1>3, <1>4 DEF Events, Sound
<1>6. \A a \in Agents : server[a].turns <= server'[a].turns
    BY ServerIs, BoundsAreNumbers
<1> QED
    BY <1>1, <1>3, <1>5, <1>6, SendKeeps DEF IsStart

\* A turn ends.
LEMMA SendCompletedKeeps ==
    ASSUME IInv, NEW a \in Agents, SendCompleted(a)
    PROVE  IInv' /\ StepStands
<1> DEFINE r == [server[a] EXCEPT !.running = FALSE]
           n == server[a].turns
<1>1. /\ server[a].running /\ server' = [server EXCEPT ![a] = r]
      /\ Send(EventOf("turnCompleted", generation, a, n, NoThread, "none"))
    BY ServerIs DEF SendCompleted
<1>2. r \in Servers /\ r.turns = n /\ ~r.running /\ r.parent = server[a].parent
    BY ServerIs DEF Servers
<1>3. generation # 0 /\ n \in 0 .. MaxTurns /\ n # 0
    BY <1>1, ServerIs
<1> HIDE DEF r
<1>4. /\ server' \in [Agents -> Servers] /\ server'[a] = r
      /\ \A b \in Agents \ {a} : server'[b] = server[b]
    BY <1>1, <1>2, ServerIs
<1>5. ServersAre(server')
    BY <1>2, <1>3, <1>4, ServerIs DEF ServersAre
<1>6. \A b \in Agents : server'[b].turns = server[b].turns
    BY <1>2, <1>4
<1>7. /\ "turnCompleted" \in Kinds \ {"turnStarted", "collabStatus"} /\ a \in Threads
      /\ NoThread \in Threads \cup {NoThread} /\ "none" \in {"none", "ended"}
    BY DEF Kinds, Threads
<1> HIDE DEF n
<1>8. n = server[a].turns
    BY DEF n
<1> QED
    BY <1>1, <1>3, <1>5, <1>6, <1>7, <1>8, SendOtherKeeps

\* An agent says something, or its thread is announced.
LEMMA SendMessageKeeps ==
    ASSUME IInv, NEW a \in Agents, SendMessage(a) \/ SendThreadStarted(a)
    PROVE  IInv' /\ StepStands
<1>1. /\ "agentMessage" \in Kinds \ {"turnStarted", "collabStatus"} /\ a \in Threads
      /\ "threadStarted" \in Kinds \ {"turnStarted", "collabStatus"}
      /\ NoThread \in Threads \cup {NoThread} /\ "none" \in {"none", "ended"}
      /\ 0 \in 0 .. MaxTurns
    BY BoundsAreNumbers DEF Kinds, Threads
<1>2. server' = server
    BY DEF SendMessage, SendThreadStarted
<1>3. ServersAre(server')
    BY <1>2, ServerIs
<1>4. CASE SendMessage(a)
    <2> DEFINE n == server[a].turns
    <2>1. server[a].running /\ Send(EventOf("agentMessage", generation, a, n, NoThread, "none"))
        BY <1>4 DEF SendMessage
    <2>2. generation # 0 /\ n \in 0 .. MaxTurns /\ n # 0 /\ n = server[a].turns
        BY <2>1, ServerIs
    <2> HIDE DEF n
    <2> QED
        BY <1>1, <1>2, <1>3, <2>1, <2>2, SendOtherKeeps
<1>5. CASE SendThreadStarted(a)
    <2> DEFINE p == server[a].parent
    <2>1. p # NoThread /\ Send(EventOf("threadStarted", generation, a, 0, p, "none"))
        BY <1>5 DEF SendThreadStarted
    <2>2. generation # 0 /\ p \in Threads
        BY <2>1, ServerIs
    <2> HIDE DEF p
    <2> QED
        BY <1>1, <1>2, <1>3, <2>1, <2>2, SendOtherKeeps
<1> QED
    BY <1>4, <1>5

\* A thread that speaks.
LEMMA SpeakerIs ==
    ASSUME IInv, NEW p, Speaks(p)
    PROVE  generation # 0 /\ p \in Threads /\ TurnOf(p) \in 0 .. MaxTurns
<1>1. generation # 0 /\ (p = Root \/ p \in Agents)
    BY SubagentsAssumption DEF Speaks, Speaking, IInv, TypeInv
<1>2. 1 \in 0 .. MaxTurns
    BY BoundsAreNumbers
<1> QED
    BY <1>1, <1>2, ServerIs, SubagentsAssumption DEF Threads, TurnOf

\* An item of a thread about an agent.
LEMMA SendItemKeeps ==
    ASSUME IInv, NEW a \in Agents, NEW status \in {"none", "ended"},
           NEW p \in Threads, SendCollabItem(a, status) \/ SendActivity(p, a, status)
    PROVE  IInv' /\ StepStands
<1>1. /\ "collabItem" \in Kinds \ {"turnStarted", "collabStatus"}
      /\ "agentActivity" \in Kinds \ {"turnStarted", "collabStatus"}
      /\ a \in Threads \cup {NoThread}
    BY DEF Kinds, Threads
<1>2. server' = server
    BY DEF SendCollabItem, SendActivity
<1>3. ServersAre(server')
    BY <1>2, ServerIs
<1>4. CASE SendCollabItem(a, status)
    <2> DEFINE q == server[a].parent
               n == TurnOf(q)
    <2>1. Speaks(q) /\ Send(EventOf("collabItem", generation, q, n, a, status))
        BY <1>4 DEF SendCollabItem
    <2>2. generation # 0 /\ q \in Threads /\ n \in 0 .. MaxTurns
        BY <2>1, SpeakerIs
    <2> HIDE DEF n, q
    <2> QED
        BY <1>1, <1>2, <1>3, <2>1, <2>2, SendOtherKeeps
<1>5. CASE SendActivity(p, a, status)
    <2> DEFINE n == TurnOf(p)
    <2>1. Speaks(p) /\ Send(EventOf("agentActivity", generation, p, n, a, status))
        BY <1>5 DEF SendActivity
    <2>2. generation # 0 /\ n \in 0 .. MaxTurns
        BY <2>1, SpeakerIs
    <2> HIDE DEF n
    <2> QED
        BY <1>1, <1>2, <1>3, <2>1, <2>2, SendOtherKeeps
<1> QED
    BY <1>4, <1>5

\* A late event of a process that is gone.
LEMMA SendStaleKeeps ==
    ASSUME IInv, NEW a \in Agents, NEW t \in Turns, SendStale(a, t)
    PROVE  IInv' /\ StepStands
<1>1. PICK g \in 1 .. process : g # generation /\ Send(EventOf("turnStarted", g, a, t, NoThread, "none"))
    BY DEF SendStale
<1>2. server' = server /\ t <= server[a].turns
    BY ServerIs, BoundsAreNumbers DEF SendStale
<1> DEFINE e == EventOf("turnStarted", g, a, t, NoThread, "none")
<1>3. /\ "turnStarted" \in Kinds /\ a \in Threads /\ t \in 0 .. MaxTurns
      /\ NoThread \in Threads \cup {NoThread} /\ "none" \in {"none", "ended"}
    BY DEF Kinds, Threads, Turns
<1>4. g \in Generations /\ g <= process
    BY ServerIs, BoundsAreNumbers DEF Generations
<1>5. Send(e) /\ e = EventOf("turnStarted", g, a, t, NoThread, "none")
    BY <1>1
<1> HIDE DEF e
<1>6. /\ e \in Event
      /\ e.kind = "turnStarted" /\ e.gen = g /\ e.thread = a /\ e.turn = t
    BY <1>3, <1>4, <1>5, EventOfIs
<1>7. e \in Events(process, server')
    BY <1>2, <1>4, <1>6 DEF Events, Sound
<1>8. \A b \in Agents : server[b].turns <= server'[b].turns
    BY <1>2, ServerIs, BoundsAreNumbers
<1>9. ServersAre(server')
    BY <1>2, ServerIs
<1>10. ~IsStart(e, e.thread, generation)
    BY <1>1, <1>6 DEF IsStart
<1> QED
    BY <1>5, <1>6, <1>7, <1>8, <1>9, <1>10, SendKeeps

\* Only interrupts and the app-server's side change.
LEMMA StandsKeeps ==
    ASSUME IInv, UNCHANGED <<scenario, process, generation, pump, active, seen>>,
           ServersAre(server'), \A a \in Agents : server'[a].turns = server[a].turns,
           IsSound(kept', active, generation, {}),
           kept'.route = kept.route, kept'.current = kept.current,
           generation = 0 => kept' = kept,
           \A a \in Agents :
               \/ kept'.interrupt[a] = NoInterrupt
               \/ /\ kept'.interrupt[a].turn \in Turns /\ kept'.interrupt[a].attempt # 0
                  /\ Seen(a, kept'.interrupt[a].turn),
           sending' \subseteq Watchdogs, watchdogs' \subseteq Watchdogs,
           cancelling' \in Watchdogs \cup {NoWatchdog},
           \/ cancelling' \in {cancelling, NoWatchdog}
           \/ /\ cancelling'.gen = generation
              /\ Seen(cancelling'.agent, cancelling'.turn)
              /\ shown[cancelling'.agent][cancelling'.turn] # "authoritative",
           WatchedInv',
           AnswersInTime => SendingInv' /\ SentIsWatched'
    PROVE  IInv' /\ StepStands
<1>1. /\ scenario' = scenario /\ process' = process /\ generation' = generation
      /\ agenda' = agenda /\ completing' = completing /\ table' = table
      /\ active' = active /\ shown' = shown /\ overtaken' = overtaken
    BY DEF pump, seen
<1>2. TypeInv'
    BY <1>1 DEF IInv, TypeInv
<1>3. ServersAre(server)'
    BY <1>1 DEF ServersAre
<1>4. GensInv'
    BY <1>1 DEF IInv, GensInv
<1>5. KeptInv'
    BY <1>1, SoundLater
<1>6. ShownInv'
    BY <1>1 DEF IInv, ShownInv
<1>7. QueuesOf(agenda, table, server)'
    <2>1. \A a \in Agents : server[a].turns <= server'[a].turns
        BY ServerIs, BoundsAreNumbers
    <2>2. QueuesOf(agenda, table, server')
        BY <2>1, QueuesGrow DEF ServersAre
    <2> QED
        BY <1>1, <2>2 DEF QueuesOf
<1>8. RoutedInv' /\ CompletingInv'
    BY <1>1 DEF IInv, RoutedInv, CompletingInv, RoutedAgents
<1>9. OrderInv'
    BY <1>1 DEF IInv, OrderInv
<1>10. SeenInv'
    <2> SUFFICES ASSUME NEW a \in Agents, NEW n \in 0 .. MaxTurns, Seen(a, n)'
                 PROVE  n <= server'[a].turns /\ Afters(agenda, table, a, generation, n)
        BY <1>1 DEF SeenInv
    <2>1. Seen(a, n)
        <3>1. kept'.interrupt[a].turn = n => Seen(a, n)
            BY DEF Seen, NoInterrupt
        <3>2. cancelling'.agent = a /\ n = cancelling'.turn => Seen(a, n)
            <4>1. NoWatchdog.agent # a
                BY SubagentsAssumption DEF NoWatchdog
            <4> QED
                BY <4>1 DEF Seen
        <3> QED
            BY <1>1, <3>1, <3>2 DEF Seen
    <2> QED
        BY <1>1, <2>1 DEF IInv, SeenInv
<1>11. CancelInv'
    BY <1>1 DEF IInv, CancelInv
<1>12. EntryInv'
    BY DEF EntryInv
<1>13. StepStands
    BY <1>1 DEF StepStands
<1> QED
    BY <1>2, <1>3, <1>4, <1>5, <1>6, <1>7, <1>8, <1>9, <1>10, <1>11, <1>12, <1>13 DEF IInv

\* Nothing that IInv is about changes.
LEMMA SpawnKeeps ==
    ASSUME IInv,
           \/ UNCHANGED vars
           \/ \E a \in Agents, p \in Threads : Spawn(a, p)
    PROVE  IInv' /\ StepStands
<1>1. UNCHANGED <<scenario, process, generation, pump, active, kept, interrupts, seen>>
    BY DEF vars, Spawn
<1>2. kept' = kept /\ sending' = sending /\ watchdogs' = watchdogs /\ cancelling' = cancelling
      /\ active' = active
    BY <1>1 DEF interrupts
<1>3. ServersAre(server') /\ \A a \in Agents : server'[a].turns = server[a].turns
    <2>1. CASE server' = server
        BY <2>1, ServerIs
    <2>2. ASSUME NEW a \in Agents, NEW p \in Threads, Spawn(a, p)
          PROVE  ServersAre(server') /\ \A b \in Agents : server'[b].turns = server[b].turns
        <3> DEFINE r == [server[a] EXCEPT !.parent = p]
        <3>1. server' = [server EXCEPT ![a] = r] /\ generation # 0
            BY <2>2, ServerIs DEF Spawn, Speaks
        <3>2. r \in Servers /\ r.turns = server[a].turns /\ r.running = server[a].running
            BY ServerIs DEF Servers
        <3> HIDE DEF r
        <3>3. /\ server' \in [Agents -> Servers] /\ server'[a] = r
              /\ \A b \in Agents \ {a} : server'[b] = server[b]
            BY <3>1, <3>2, ServerIs
        <3> QED
            BY <3>1, <3>2, <3>3, ServerIs DEF ServersAre
    <2> QED
        BY <2>1, <2>2 DEF vars
<1>4. IsSound(kept', active, generation, {})
    BY <1>2 DEF IInv, KeptInv
<1>5. \A a \in Agents :
          \/ kept'.interrupt[a] = NoInterrupt
          \/ /\ kept'.interrupt[a].turn \in Turns /\ kept'.interrupt[a].attempt # 0
             /\ Seen(a, kept'.interrupt[a].turn)
    BY <1>2 DEF IInv, EntryInv, Seen
<1>6. WatchedInv'
    BY <1>2 DEF IInv, WatchedInv
<1>7. AnswersInTime => SendingInv' /\ SentIsWatched'
    BY <1>2 DEF IInv, SendingInv, SentIsWatched, IsLive, IsFor, IsExact
<1>8. sending' \subseteq Watchdogs /\ watchdogs' \subseteq Watchdogs
      /\ cancelling' \in Watchdogs \cup {NoWatchdog}
    BY <1>2 DEF IInv, TypeInv
<1> QED
    BY <1>1, <1>2, <1>3, <1>4, <1>5, <1>6, <1>7, <1>8, StandsKeeps

\* An agent is interrupted.
LEMMA InterruptIsKept ==
    ASSUME IInv, NEW a \in Agents, Interrupt(a)
    PROVE  IInv' /\ StepStands
<1> DEFINE state == kept.interrupt[a]
           n == IF IsFor(state, a) THEN state.attempt + 1 ELSE 1
           w == [agent |-> a, gen |-> active[a].gen, turn |-> active[a].turn, attempt |-> n]
           x == [gen |-> w.gen, turn |-> w.turn, attempt |-> n, phase |-> "Sending"]
<1>1. /\ active[a] # NoActive
      /\ ~(IsFor(state, a) /\ state.phase \in {"Sending", "Sent"})
      /\ n <= scenario.attempts[a]
      /\ AnswersInTime => \A v \in sending : v.agent # a
      /\ kept' = [kept EXCEPT !.interrupt[a] = x]
      /\ sending' = sending \cup {w}
      /\ UNCHANGED <<scenario, process, generation, server, pump, active, watchdogs, cancelling, seen>>
    BY DEF Interrupt
<1>2. /\ active[a].gen = generation /\ generation # 0 /\ generation \in Generations
      /\ active[a].turn = kept.current[a] /\ active[a].turn \in Turns
    <2>1. kept.route[a] # NoRoute /\ active[a].gen = generation
          /\ active[a].turn = kept.current[a] /\ active[a].turn \in Turns
        BY <1>1 DEF IInv, KeptInv, IsSound, ActiveIsCurrent
    <2>2. generation # 0
        BY <2>1 DEF IInv, GensInv, NothingKept
    <2> QED
        BY <2>1, <2>2, ServerIs
<1>3. kept \in Registries /\ state \in Attempts
    BY GenerationIsNumber DEF Registries
<1>4. n \in 1 .. MaxAttempts
    <2>1. scenario.attempts[a] \in 0 .. MaxAttempts
        BY SubagentsAssumption DEF IInv, TypeInv
    <2>2. state.attempt \in Nat
        BY <1>3, BoundsAreNumbers DEF Attempts
    <2> QED
        BY <1>1, <2>1, <2>2, BoundsAreNumbers
<1>5. w \in Watchdogs /\ x \in Attempts
    BY <1>2, <1>4, BoundsAreNumbers DEF Watchdogs, Attempts, Phases, Generations, Turns
<1>6. /\ x.gen = active[a].gen /\ x.turn = active[a].turn /\ x.attempt = n /\ x.phase = "Sending"
      /\ w.agent = a /\ IsExact(x, w)
    BY DEF IsExact
<1>7. state.attempt \in Nat /\ (IsFor(state, a) => n = state.attempt + 1)
    BY <1>3, BoundsAreNumbers DEF Attempts
<1> HIDE DEF x, w, n, state
<1>8. /\ IsSound(kept', active, generation, {})
      /\ kept'.route = kept.route /\ kept'.current = kept.current
      /\ kept'.interrupt = [kept.interrupt EXCEPT ![a] = x]
    <2>1. IsSound(kept, active, generation, {})
        BY DEF IInv, KeptInv
    <2> DEFINE l == kept'
    <2>2. l = [kept EXCEPT !.interrupt[a] = x]
        BY <1>1
    <2> HIDE DEF l
    <2>3. IsSound(l, active, generation, {})
        BY <1>5, <2>1, <2>2, InterruptKeeps, ZenonT(30)
    <2>4. l.route = kept.route /\ l.current = kept.current
          /\ l.interrupt = [kept.interrupt EXCEPT ![a] = x]
        BY <1>3, <2>2 DEF Registries
    <2> QED
        BY <2>3, <2>4 DEF l
<1>9. kept'.interrupt[a] = x /\ \A b \in Agents \ {a} : kept'.interrupt[b] = kept.interrupt[b]
    BY <1>3, <1>8 DEF Registries
<1>10. ASSUME NEW b \in Agents
       PROVE  \/ kept'.interrupt[b] = NoInterrupt
              \/ /\ kept'.interrupt[b].turn \in Turns /\ kept'.interrupt[b].attempt # 0
                 /\ Seen(b, kept'.interrupt[b].turn)
    <2>1. CASE b = a
        BY <2>1, <1>2, <1>4, <1>6, <1>9 DEF Seen
    <2>2. CASE b # a
        BY <2>2, <1>9 DEF IInv, EntryInv, Seen
    <2> QED
        BY <2>1, <2>2
<1>11. active' = active /\ watchdogs' = watchdogs /\ cancelling' = cancelling /\ server' = server
    BY <1>1
<1>12. WatchedInv'
    <2> DEFINE v == cancelling
    <2> SUFFICES ASSUME v # NoWatchdog, active[v.agent] = [gen |-> v.gen, turn |-> v.turn]
                 PROVE  /\ kept'.interrupt[v.agent].gen = v.gen
                        /\ kept'.interrupt[v.agent].turn = v.turn
                        /\ v.attempt <= kept'.interrupt[v.agent].attempt
                        /\ v.attempt = kept'.interrupt[v.agent].attempt =>
                               kept'.interrupt[v.agent].phase # "Sending"
        BY <1>11 DEF WatchedInv
    <2>1. /\ kept.interrupt[v.agent].gen = v.gen /\ kept.interrupt[v.agent].turn = v.turn
          /\ v.attempt <= kept.interrupt[v.agent].attempt
          /\ v.attempt = kept.interrupt[v.agent].attempt => kept.interrupt[v.agent].phase # "Sending"
        BY DEF IInv, WatchedInv
    <2>2. v.agent \in Agents /\ v.attempt \in Nat
        BY BoundsAreNumbers DEF IInv, TypeInv, Watchdogs
    <2>3. CASE v.agent = a
        <3>1. IsFor(state, a) /\ v.attempt <= state.attempt
            BY <2>1, <2>3 DEF IsFor, state
        <3>2. n = state.attempt + 1
            BY <3>1, <1>7
        <3>3. v.attempt <= n /\ v.attempt # n
            BY <3>1, <3>2, <2>2, <1>7
        <3> QED
            BY <3>3, <2>3, <1>6, <1>9
    <2>4. CASE v.agent # a
        BY <2>1, <2>2, <2>4, <1>9
    <2> QED
        BY <2>3, <2>4
<1>13. ASSUME AnswersInTime
       PROVE  SendingInv' /\ SentIsWatched'
    <2>1. SendingInv /\ SentIsWatched /\ \A v \in sending : v.agent # a /\ v.agent \in Agents
        BY <1>13, <1>1 DEF IInv, TypeInv, Watchdogs
    <2>2. SendingInv'
        <3>1. \A u, v \in sending' : u.agent = v.agent => u = v
            BY <1>1, <1>6, <2>1 DEF SendingInv
        <3>2. ASSUME NEW v \in sending'
              PROVE  \/ IsExact(kept'.interrupt[v.agent], v) /\ kept'.interrupt[v.agent].phase = "Sending"
                     \/ ~(IsLive(v.agent)')
            <4>1. CASE v = w
                BY <4>1, <1>6, <1>9
            <4>2. CASE v \in sending
                <5>1. kept'.interrupt[v.agent] = kept.interrupt[v.agent]
                    BY <4>2, <2>1, <1>9
                <5> QED
                    BY <4>2, <5>1, <2>1, <1>11 DEF SendingInv, IsLive, IsFor
            <4> QED
                BY <1>1, <4>1, <4>2
        <3> QED
            BY <3>1, <3>2 DEF SendingInv, IsExact
    <2>3. SentIsWatched'
        <3> SUFFICES ASSUME NEW b \in Agents, kept'.interrupt[b].phase = "Sent",
                            active[b] = [gen |-> kept'.interrupt[b].gen, turn |-> kept'.interrupt[b].turn]
                     PROVE  \E v \in watchdogs \cup {cancelling} :
                                v.agent = b /\ IsExact(kept'.interrupt[b], v)
            BY <1>11 DEF SentIsWatched, IsExact
        <3>1. b # a
            BY <1>6, <1>9
        <3> QED
            BY <3>1, <1>9, <2>1 DEF SentIsWatched
    <2> QED
        BY <2>2, <2>3
<1>14. sending' \subseteq Watchdogs /\ watchdogs' \subseteq Watchdogs
       /\ cancelling' \in Watchdogs \cup {NoWatchdog}
    BY <1>1, <1>5 DEF IInv, TypeInv
<1>15. ServersAre(server') /\ \A b \in Agents : server'[b].turns = server[b].turns
    BY <1>11, ServerIs
<1> QED
    BY <1>1, <1>2, <1>8, <1>10, <1>11, <1>12, <1>13, <1>14, <1>15, StandsKeeps

\* The phase of an entry, if there is one.
LEMMA PhaseKeeps ==
    ASSUME IInv, NEW a \in Agents, NEW p \in Phases,
           \/ kept' = kept
           \/ /\ kept' = [kept EXCEPT !.interrupt[a].phase = p]
              /\ kept.interrupt[a].attempt # 0
    PROVE  /\ IsSound(kept', active, generation, {})
           /\ kept'.route = kept.route /\ kept'.current = kept.current
           /\ generation = 0 => kept' = kept
           /\ \A b \in Agents \ {a} : kept'.interrupt[b] = kept.interrupt[b]
           /\ kept'.interrupt[a].gen = kept.interrupt[a].gen
           /\ kept'.interrupt[a].turn = kept.interrupt[a].turn
           /\ kept'.interrupt[a].attempt = kept.interrupt[a].attempt
           /\ kept' # kept => kept'.interrupt[a].phase = p
           /\ \A b \in Agents :
                  \/ kept'.interrupt[b] = NoInterrupt
                  \/ /\ kept'.interrupt[b].turn \in Turns /\ kept'.interrupt[b].attempt # 0
                     /\ Seen(b, kept'.interrupt[b].turn)
<1>1. IsSound(kept, active, generation, {}) /\ kept \in Registries /\ EntryInv
    BY GenerationIsNumber DEF IInv, KeptInv
<1>2. \A b \in Agents : kept.interrupt[b] # NoInterrupt =>
          /\ kept.interrupt[b].turn \in Turns /\ kept.interrupt[b].attempt # 0
          /\ Seen(b, kept.interrupt[b].turn)
    BY <1>1 DEF EntryInv, Seen
<1>3. CASE kept' = kept
    <2>1. IsSound(kept', active, generation, {})
        BY <1>1, <1>3
    <2> QED
        BY <1>2, <1>3, <2>1
<1>4. CASE /\ kept' = [kept EXCEPT !.interrupt[a].phase = p]
           /\ kept.interrupt[a].attempt # 0
    <2> DEFINE x == [kept.interrupt[a] EXCEPT !.phase = p]
               l == kept'
    <2>1. kept.interrupt[a] # NoInterrupt
        BY <1>4 DEF NoInterrupt
    <2>2. generation # 0
        BY <2>1 DEF IInv, GensInv, NothingKept
    <2>3. /\ x \in Attempts /\ x.gen = kept.interrupt[a].gen /\ x.turn = kept.interrupt[a].turn
          /\ x.attempt = kept.interrupt[a].attempt /\ x.phase = p
        BY <1>1 DEF Registries, Attempts
    <2>4. l = [kept EXCEPT !.interrupt[a] = x]
        BY <1>1, <1>4, ZenonT(30) DEF Registries
    <2> HIDE DEF l, x
    <2>5. IsSound(l, active, generation, {})
        BY <1>1, <2>3, <2>4, InterruptKeeps, ZenonT(30)
    <2>6. /\ l.route = kept.route /\ l.current = kept.current
          /\ l.interrupt[a] = x /\ \A b \in Agents \ {a} : l.interrupt[b] = kept.interrupt[b]
        BY <1>1, <2>4 DEF Registries
    <2>7. ASSUME NEW b \in Agents
          PROVE  \/ l.interrupt[b] = NoInterrupt
                 \/ /\ l.interrupt[b].turn \in Turns /\ l.interrupt[b].attempt # 0
                    /\ Seen(b, l.interrupt[b].turn)
        <3>1. CASE b = a
            BY <3>1, <1>2, <2>1, <2>3, <2>6
        <3>2. CASE b # a
            BY <3>2, <1>2, <2>6
        <3> QED
            BY <3>1, <3>2
    <2> QED
        BY <2>2, <2>3, <2>5, <2>6, <2>7 DEF l
<1> QED
    BY <1>3, <1>4

\* What is known of the watchdog that holds the lock after such a change.
LEMMA WatchedStays ==
    ASSUME IInv, NEW a \in Agents, active' = active,
           cancelling' \in {cancelling, NoWatchdog},
           \A b \in Agents \ {a} : kept'.interrupt[b] = kept.interrupt[b],
           kept'.interrupt[a].gen = kept.interrupt[a].gen,
           kept'.interrupt[a].turn = kept.interrupt[a].turn,
           kept'.interrupt[a].attempt = kept.interrupt[a].attempt,
           kept' # kept => kept'.interrupt[a].phase # "Sending"
    PROVE  WatchedInv'
<1> SUFFICES ASSUME cancelling' = cancelling, cancelling # NoWatchdog
             PROVE  WatchedInv'
    BY DEF WatchedInv
<1>1. cancelling.agent \in Agents
    BY DEF IInv, TypeInv, Watchdogs
<1>2. CASE kept' = kept
    BY <1>2 DEF IInv, WatchedInv
<1>3. CASE kept' # kept
    BY <1>1, <1>3 DEF IInv, WatchedInv
<1> QED
    BY <1>2, <1>3

\* turn/interrupt is answered, fails or times out.
LEMMA AnswerKeeps ==
    ASSUME IInv, NEW w \in sending, Answer(w)
    PROVE  IInv' /\ StepStands
<1> DEFINE a == w.agent
           state == kept.interrupt[a]
<1>1. w \in Watchdogs /\ a \in Agents /\ w.turn \in Turns /\ w.attempt # 0
    BY DEF IInv, TypeInv, Watchdogs
<1>2. PICK phase \in {"Sent", "Retryable"} :
          /\ Settle(w, phase)
          /\ phase = "Sent" => w \in watchdogs'
    BY DEF Answer, InterruptAccepted, InterruptFails
<1>3. /\ sending' = sending \ {w}
      /\ watchdogs \subseteq watchdogs' /\ watchdogs' \subseteq watchdogs \cup {w}
      /\ UNCHANGED <<scenario, process, generation, server, pump, active, cancelling, seen>>
    BY DEF Answer, InterruptAccepted, InterruptFails
<1>4. \/ kept' = kept
      \/ /\ kept' = [kept EXCEPT !.interrupt[a].phase = phase]
         /\ kept.interrupt[a].attempt = w.attempt
    BY <1>2 DEF Settle
<1>5. phase \in Phases /\ phase # "Sending"
    BY <1>2 DEF Phases
<1> HIDE DEF a
<1>6. /\ IsSound(kept', active, generation, {})
      /\ kept'.route = kept.route /\ kept'.current = kept.current
      /\ generation = 0 => kept' = kept
      /\ \A b \in Agents \ {a} : kept'.interrupt[b] = kept.interrupt[b]
      /\ kept'.interrupt[a].gen = kept.interrupt[a].gen
      /\ kept'.interrupt[a].turn = kept.interrupt[a].turn
      /\ kept'.interrupt[a].attempt = kept.interrupt[a].attempt
      /\ kept' # kept => kept'.interrupt[a].phase = phase
      /\ \A b \in Agents :
             \/ kept'.interrupt[b] = NoInterrupt
             \/ /\ kept'.interrupt[b].turn \in Turns /\ kept'.interrupt[b].attempt # 0
                /\ Seen(b, kept'.interrupt[b].turn)
    BY <1>1, <1>4, <1>5, PhaseKeeps
<1>7. active' = active /\ cancelling' = cancelling /\ server' = server
    BY <1>3
<1>8. WatchedInv'
    <2>1. kept' # kept => kept'.interrupt[a].phase # "Sending"
        BY <1>5, <1>6
    <2> QED
        BY <1>1, <1>6, <1>7, <2>1, WatchedStays
<1>9. ASSUME AnswersInTime
      PROVE  SendingInv' /\ SentIsWatched'
    <2>1. SendingInv /\ SentIsWatched
        BY <1>9 DEF IInv
    <2>2. SendingInv'
        <3>1. \A u, v \in sending' : u.agent = v.agent => u = v
            BY <1>3, <2>1 DEF SendingInv
        <3>2. ASSUME NEW v \in sending'
              PROVE  \/ IsExact(kept'.interrupt[v.agent], v) /\ kept'.interrupt[v.agent].phase = "Sending"
                     \/ ~(IsLive(v.agent)')
            <4>1. v \in sending /\ v.agent # a /\ v.agent \in Agents
                BY <1>3, <2>1 DEF SendingInv, IInv, TypeInv, Watchdogs, a
            <4>2. kept'.interrupt[v.agent] = kept.interrupt[v.agent]
                BY <4>1, <1>6
            <4> QED
                BY <4>1, <4>2, <2>1, <1>7 DEF SendingInv, IsLive, IsFor
        <3> QED
            BY <3>1, <3>2 DEF SendingInv, IsExact
    <2>3. SentIsWatched'
        <3> SUFFICES ASSUME NEW b \in Agents, kept'.interrupt[b].phase = "Sent",
                            active[b] = [gen |-> kept'.interrupt[b].gen, turn |-> kept'.interrupt[b].turn]
                     PROVE  \E v \in watchdogs' \cup {cancelling} :
                                v.agent = b /\ IsExact(kept'.interrupt[b], v)
            BY <1>7 DEF SentIsWatched, IsExact
        <3>1. CASE kept' = kept \/ b # a
            <4>1. kept'.interrupt[b] = kept.interrupt[b]
                BY <3>1, <1>6
            <4> QED
                BY <4>1, <1>3, <2>1 DEF SentIsWatched
        <3>2. CASE kept' # kept /\ b = a
            <4>1. phase = "Sent" /\ kept.interrupt[a].attempt = w.attempt
                BY <3>2, <1>4, <1>6
            <4>2. kept.interrupt[a].turn \in Turns
                BY <1>1, <4>1 DEF IInv, EntryInv, NoInterrupt
            <4>3. IsLive(a)
                <5>1. active[a].gen = kept.interrupt[a].gen
                      /\ active[a].turn = kept.interrupt[a].turn
                    BY <3>2, <1>6
                <5>2. active[a] # NoActive
                    BY <4>2, <5>1 DEF NoActive, Turns
                <5> QED
                    BY <5>1, <5>2 DEF IsLive, IsFor
            <4>4. IsExact(kept.interrupt[a], w)
                BY <4>3, <2>1 DEF SendingInv, a
            <4>5. w \in watchdogs' /\ w.agent = a /\ IsExact(kept'.interrupt[a], w)
                BY <4>1, <4>4, <1>2, <1>6 DEF IsExact, a
            <4> QED
                BY <3>2, <4>5
        <3> QED
            BY <3>1, <3>2
    <2> QED
        BY <2>2, <2>3
<1>10. sending' \subseteq Watchdogs /\ watchdogs' \subseteq Watchdogs
       /\ cancelling' \in Watchdogs \cup {NoWatchdog}
    BY <1>1, <1>3 DEF IInv, TypeInv
<1>11. ServersAre(server') /\ \A b \in Agents : server'[b].turns = server[b].turns
    BY <1>7, ServerIs
<1> QED
    BY <1>3, <1>6, <1>7, <1>8, <1>9, <1>10, <1>11, StandsKeeps

\* The write of a watchdog fails.
LEMMA UnsavedKeeps ==
    ASSUME IInv, WatchdogUnsaved
    PROVE  IInv' /\ StepStands
<1> DEFINE w == cancelling
           a == w.agent
<1>1. w \in Watchdogs /\ a \in Agents /\ w.turn \in Turns /\ w.attempt # 0
    BY DEF WatchdogUnsaved, IInv, TypeInv, Watchdogs
<1>2. /\ cancelling' = NoWatchdog /\ cancelling # NoWatchdog
      /\ UNCHANGED <<scenario, process, generation, server, pump, active, sending, watchdogs, seen>>
      /\ kept' = IF IsExact(kept.interrupt[a], w)
                 THEN [kept EXCEPT !.interrupt[a].phase = "Retryable"] ELSE kept
    BY DEF WatchdogUnsaved
<1>3. \/ kept' = kept
      \/ kept' = [kept EXCEPT !.interrupt[a].phase = "Retryable"] /\ kept.interrupt[a].attempt # 0
    BY <1>1, <1>2 DEF IsExact
<1>4. "Retryable" \in Phases
    BY DEF Phases
<1> HIDE DEF a
<1>5. /\ IsSound(kept', active, generation, {})
      /\ kept'.route = kept.route /\ kept'.current = kept.current
      /\ generation = 0 => kept' = kept
      /\ \A b \in Agents \ {a} : kept'.interrupt[b] = kept.interrupt[b]
      /\ kept'.interrupt[a].gen = kept.interrupt[a].gen
      /\ kept'.interrupt[a].turn = kept.interrupt[a].turn
      /\ kept'.interrupt[a].attempt = kept.interrupt[a].attempt
      /\ kept' # kept => kept'.interrupt[a].phase = "Retryable"
      /\ \A b \in Agents :
             \/ kept'.interrupt[b] = NoInterrupt
             \/ /\ kept'.interrupt[b].turn \in Turns /\ kept'.interrupt[b].attempt # 0
                /\ Seen(b, kept'.interrupt[b].turn)
    BY <1>1, <1>3, <1>4, PhaseKeeps
<1>6. active' = active /\ server' = server /\ sending' = sending /\ watchdogs' = watchdogs
    BY <1>2
<1>7. WatchedInv'
    BY <1>2 DEF WatchedInv
<1>8. ASSUME AnswersInTime
      PROVE  SendingInv' /\ SentIsWatched'
    <2>1. SendingInv /\ SentIsWatched
        BY <1>8 DEF IInv
    <2>2. SendingInv'
        <3>1. ASSUME NEW v \in sending, IsLive(v.agent)'
              PROVE  IsExact(kept'.interrupt[v.agent], v) /\ kept'.interrupt[v.agent].phase = "Sending"
            <4>1. v.agent \in Agents
                BY DEF IInv, TypeInv, Watchdogs
            <4>2. IsLive(v.agent)
                BY <3>1, <4>1, <1>5, <1>6 DEF IsLive, IsFor
            <4>3. IsExact(kept.interrupt[v.agent], v) /\ kept.interrupt[v.agent].phase = "Sending"
                BY <4>2, <2>1 DEF SendingInv
            <4>4. CASE v.agent = a /\ IsExact(kept.interrupt[a], w)
                <5>1. active[a] \in Actives
                    BY <1>1 DEF IInv, TypeInv
                <5>2. active[a] = [gen |-> w.gen, turn |-> w.turn]
                    BY <4>2, <4>4, <5>1 DEF IsLive, IsFor, IsExact, Actives
                <5> QED
                    BY <4>3, <4>4, <5>2, <1>2 DEF IInv, WatchedInv, IsExact, a
            <4>5. CASE ~(v.agent = a /\ IsExact(kept.interrupt[a], w))
                <5>1. kept'.interrupt[v.agent] = kept.interrupt[v.agent]
                    BY <4>1, <4>5, <1>2, <1>5
                <5> QED
                    BY <4>3, <5>1
            <4> QED
                BY <4>4, <4>5
        <3> QED
            BY <3>1, <1>6, <2>1 DEF SendingInv, IsExact
    <2>3. SentIsWatched'
        <3> SUFFICES ASSUME NEW b \in Agents, kept'.interrupt[b].phase = "Sent",
                            active[b] = [gen |-> kept'.interrupt[b].gen, turn |-> kept'.interrupt[b].turn]
                     PROVE  \E v \in watchdogs \cup {NoWatchdog} :
                                v.agent = b /\ IsExact(kept'.interrupt[b], v)
            BY <1>2, <1>6 DEF SentIsWatched, IsExact
        <3>1. kept'.interrupt[b] = kept.interrupt[b] /\ ~(b = a /\ IsExact(kept.interrupt[a], w))
            <4>1. CASE b # a
                BY <4>1, <1>5
            <4>2. CASE b = a
                <5>1. kept' = kept
                    BY <4>2, <1>5
                <5>2. ASSUME IsExact(kept.interrupt[a], w)
                      PROVE  FALSE
                    <6>1. kept' = [kept EXCEPT !.interrupt[a].phase = "Retryable"]
                        BY <1>2, <5>2
                    <6>2. kept \in Registries
                        BY GenerationIsNumber
                    <6>3. kept'.interrupt[a].phase = "Retryable"
                        BY <1>1, <6>1, <6>2 DEF Registries, Attempts
                    <6> QED
                        BY <6>3, <4>2
                <5> QED
                    BY <4>2, <5>1, <5>2
            <4> QED
                BY <4>1, <4>2
        <3>2. PICK v \in watchdogs \cup {cancelling} : v.agent = b /\ IsExact(kept.interrupt[b], v)
            BY <3>1, <2>1 DEF SentIsWatched
        <3>3. v \in watchdogs
            BY <3>1, <3>2 DEF a
        <3> QED
            BY <3>1, <3>2, <3>3
    <2> QED
        BY <2>2, <2>3
<1>9. sending' \subseteq Watchdogs /\ watchdogs' \subseteq Watchdogs
      /\ cancelling' \in Watchdogs \cup {NoWatchdog}
    BY <1>2, <1>6 DEF IInv, TypeInv
<1>10. ServersAre(server') /\ \A b \in Agents : server'[b].turns = server[b].turns
    BY <1>6, ServerIs
<1> QED
    BY <1>2, <1>5, <1>7, <1>8, <1>9, <1>10, StandsKeeps

\* A watchdog gets the lock.
LEMMA ChecksKeeps ==
    ASSUME IInv, NEW w \in watchdogs, WatchdogChecks(w)
    PROVE  IInv' /\ StepStands
<1> DEFINE a == w.agent
           state == kept.interrupt[a]
           exact == /\ kept.route[a].gen = w.gen
                    /\ IsExact(state, w) /\ state.phase = "Sent"
                    /\ IsOpen(w)
<1>1. w \in Watchdogs /\ a \in Agents /\ w.turn \in Turns /\ w # NoWatchdog
    BY SubagentsAssumption DEF IInv, TypeInv, Watchdogs, NoWatchdog
<1>2. /\ cancelling = NoWatchdog
      /\ watchdogs' = watchdogs \ {w}
      /\ cancelling' = IF exact THEN w ELSE NoWatchdog
      /\ UNCHANGED <<scenario, process, generation, server, pump, active, kept, sending, seen>>
    BY DEF WatchdogChecks, LifecycleFree
<1>3. active' = active /\ kept' = kept /\ server' = server /\ sending' = sending
    BY <1>2
<1>4. IsSound(kept', active, generation, {}) /\ kept \in Registries
      /\ RoutesAreOf(kept, generation) /\ ActiveIsCurrent(kept, active, generation)
    BY <1>3 DEF IInv, KeptInv, IsSound
<1>5. \A b \in Agents :
          \/ kept'.interrupt[b] = NoInterrupt
          \/ /\ kept'.interrupt[b].turn \in Turns /\ kept'.interrupt[b].attempt # 0
             /\ Seen(b, kept'.interrupt[b].turn)
    BY <1>3 DEF IInv, EntryInv, Seen
<1>6. \/ cancelling' \in {cancelling, NoWatchdog}
      \/ /\ cancelling'.gen = generation
         /\ Seen(cancelling'.agent, cancelling'.turn)
         /\ shown[cancelling'.agent][cancelling'.turn] # "authoritative"
    <2>1. CASE ~exact
        BY <2>1, <1>2
    <2>2. CASE exact
        <3>1. active[a].gen = w.gen /\ active[a].turn = w.turn
            BY <2>2 DEF IsOpen
        <3>2. active[a] # NoActive
            BY <3>1, <1>1 DEF NoActive, Turns
        <3>3. w.gen = generation /\ kept.current[a] = w.turn
            BY <3>1, <3>2, <1>1, <1>4 DEF ActiveIsCurrent
        <3>4. shown[a][w.turn] # "authoritative"
            BY <3>1, <3>2, <1>1 DEF IInv, ShownInv
        <3> QED
            BY <2>2, <3>3, <3>4, <1>2 DEF Seen
    <2> QED
        BY <2>1, <2>2
<1>7. WatchedInv'
    <2> SUFFICES ASSUME exact
                 PROVE  WatchedInv'
        BY <1>2 DEF WatchedInv
    <2>1. state.gen = w.gen /\ state.turn = w.turn /\ state.attempt = w.attempt
          /\ state.phase = "Sent"
        BY DEF IsExact
    <2>2. w.attempt <= w.attempt
        BY <1>1, BoundsAreNumbers DEF Watchdogs
    <2>3. cancelling' = w
        BY <1>2
    <2> HIDE DEF exact
    <2> QED
        BY <2>1, <2>2, <2>3, <1>3, SMTT(30) DEF WatchedInv
<1>8. ASSUME AnswersInTime
      PROVE  SendingInv' /\ SentIsWatched'
    <2>1. SendingInv /\ SentIsWatched
        BY <1>8 DEF IInv
    <2>2. SendingInv'
        BY <1>3, <2>1 DEF SendingInv, IsLive, IsFor, IsExact
    <2>3. SentIsWatched'
        <3> SUFFICES ASSUME NEW b \in Agents, kept.interrupt[b].phase = "Sent",
                            active[b] = [gen |-> kept.interrupt[b].gen, turn |-> kept.interrupt[b].turn]
                     PROVE  \E v \in watchdogs' \cup {cancelling'} :
                                v.agent = b /\ IsExact(kept.interrupt[b], v)
            BY <1>3 DEF SentIsWatched, IsExact
        <3>1. PICK v \in watchdogs \cup {cancelling} : v.agent = b /\ IsExact(kept.interrupt[b], v)
            BY <2>1 DEF SentIsWatched
        <3>2. v \in watchdogs
            BY <3>1, <1>2, SubagentsAssumption DEF NoWatchdog
        <3>3. CASE v # w
            BY <3>1, <3>2, <3>3, <1>2
        <3>4. CASE v = w
            <4>1. b = a /\ IsExact(state, w) /\ active[a] = [gen |-> w.gen, turn |-> w.turn]
                BY <3>1, <3>4 DEF IsExact
            <4>2. active[a] # NoActive
                BY <4>1, <1>1 DEF NoActive, Turns
            <4>3. kept.route[a].gen = w.gen /\ kept.terminals[a][w.turn] = "none"
                BY <4>1, <4>2, <1>1, <1>4 DEF ActiveIsCurrent, RoutesAreOf
            <4>4. exact
                BY <4>1, <4>3 DEF IsOpen
            <4>5. cancelling' = w
                BY <4>4, <1>2
            <4> QED
                BY <3>1, <3>4, <4>5
        <3> QED
            BY <3>3, <3>4
    <2> QED
        BY <2>2, <2>3
<1>9. sending' \subseteq Watchdogs /\ watchdogs' \subseteq Watchdogs
      /\ cancelling' \in Watchdogs \cup {NoWatchdog}
    BY <1>1, <1>2 DEF IInv, TypeInv
<1>10. ServersAre(server') /\ \A b \in Agents : server'[b].turns = server[b].turns
    BY <1>3, ServerIs
<1> HIDE DEF exact
<1> QED
    BY <1>2, <1>3, <1>4, <1>5, <1>6, <1>7, <1>8, <1>9, <1>10, StandsKeeps

\* A watchdog records its own end of a turn.
LEMMA CancelsKeeps ==
    ASSUME IInv, WatchdogCancels
    PROVE  IInv' /\ StepStands
<1> DEFINE w == cancelling
           a == w.agent
           t == w.turn
           g == generation
           mark == "synthetic"
           x == IF IsExact(kept.interrupt[a], w) THEN NoInterrupt ELSE kept.interrupt[a]
           k == [kept EXCEPT !.interrupt[a] = x]
           act == active'
           l == kept'
<1>1. /\ a \in Agents /\ t \in Turns /\ t \in TurnKeys /\ w.attempt # 0
      /\ w.gen = g /\ g # 0
    BY DEF WatchdogCancels, IInv, TypeInv, GensInv, Watchdogs, TurnKeys, Generations
<1>2. /\ active' = Retire(a, g, t)
      /\ kept' = KeepTurn([kept EXCEPT !.interrupt[a] = IF IsExact(@, w) THEN NoInterrupt ELSE @,
                                       !.terminals[a][t] = "synthetic"], a, t)
      /\ shown' = [shown EXCEPT ![a][t] = "synthetic"]
      /\ cancelling' = NoWatchdog
      /\ UNCHANGED <<scenario, process, generation, server, pump, sending, watchdogs, overtaken>>
    BY <1>1 DEF WatchdogCancels
<1>3. kept \in Registries /\ IsSound(kept, active, g, {}) /\ active \in [Agents -> Actives]
      /\ shown \in [Agents -> [Turns -> Marks]] /\ ActiveIsCurrent(kept, active, g)
    BY GenerationIsNumber DEF IInv, TypeInv, KeptInv, IsSound
<1>4. x \in Attempts
    BY <1>1, <1>3, BoundsAreNumbers DEF Registries, NoInterrupt, Attempts, Phases
<1>5. l = Marked(k, a, t, mark)
    BY <1>1, <1>2, <1>3, <1>4 DEF Marked, Registries
<1>6. /\ k \in Registries /\ k.route = kept.route /\ k.current = kept.current
      /\ k.order = kept.order /\ k.terminals = kept.terminals
      /\ k.interrupt[a] = x /\ \A b \in Agents \ {a} : k.interrupt[b] = kept.interrupt[b]
    BY <1>1, <1>3, <1>4 DEF Registries
<1>7. IsSound(k, active, g, {})
    <2> DEFINE m == k
    <2>1. m = [kept EXCEPT !.interrupt[a] = x]
        OBVIOUS
    <2> HIDE DEF m, x
    <2>2. IsSound(m, active, g, {})
        BY <1>1, <1>3, <1>4, <2>1, InterruptKeeps, ZenonT(30)
    <2> QED
        BY <2>2 DEF m
<1>8. /\ act \in [Agents -> Actives]
      /\ \A b \in Agents \ {a} : act[b] = active[b]
      /\ act[a] \in {active[a], NoActive}
      /\ act[a] = NoActive \/ act[a].turn # t
    <2>1. NoActive \in Actives
        BY BoundsAreNumbers DEF NoActive, Actives
    <2>2. CASE active[a] = [gen |-> g, turn |-> t]
        <3>1. act = [active EXCEPT ![a] = NoActive]
            BY <1>2, <2>2 DEF Retire
        <3> QED
            BY <1>1, <1>3, <2>1, <3>1
    <2>3. CASE active[a] # [gen |-> g, turn |-> t]
        <3>1. act = active
            BY <1>2, <2>3 DEF Retire
        <3>2. active[a] # NoActive => active[a].gen = g
            BY <1>1, <1>3 DEF ActiveIsCurrent
        <3>3. active[a] = [gen |-> active[a].gen, turn |-> active[a].turn]
            BY <1>1, <1>3 DEF Actives
        <3> QED
            BY <1>3, <2>3, <3>1, <3>2, <3>3
    <2> QED
        BY <2>2, <2>3
<1>9. mark \in Marks /\ mark # "authoritative"
    BY DEF Marks
<1> HIDE DEF a, t, g, mark, x, k, act, l
<1>10. IsSound(k, act, g, {a})
    BY <1>1, <1>7, <1>8, RetiredKeeps, ZenonT(30)
<1>11. IsSound(l, act, g, {a})
    BY <1>1, <1>5, <1>8, <1>9, <1>10, MarkedKeeps, ZenonT(30)
<1>12. l.terminals[a][t] \in {mark, "none"}
    BY <1>1, <1>5, <1>8, <1>9, <1>10, MarkedKeeps, ZenonT(30)
<1>13. \A u \in TurnKeys \ {t} : l.terminals[a][u] \in {k.terminals[a][u], "none"}
    BY <1>1, <1>5, <1>8, <1>9, <1>10, MarkedKeeps, ZenonT(30)
<1>14. /\ l.route = kept.route /\ l.current = kept.current /\ l.order = kept.order
       /\ l.interrupt[a] = x /\ \A b \in Agents \ {a} : l.interrupt[b] = kept.interrupt[b]
    BY <1>5, <1>6, <1>1, MarkedFields
<1>15. IsEvictable(l, act, a)
    <2> SUFFICES ASSUME IsFinished(l, act, a)
                 PROVE  a \in ToSetOf(l.order)
        BY DEF IsEvictable
    <2> DEFINE n == kept.current[a]
    <2>1. /\ kept.route[a] # NoRoute /\ act[a] = NoActive /\ n # 0
          /\ l.terminals[a][n] = "authoritative"
        BY <1>14 DEF IsFinished
    <2>2. n \in TurnKeys
        BY <1>1, <1>3, <2>1, BoundsAreNumbers DEF Registries, TurnKeys, Turns
    <2>3. n # t
        BY <2>1, <1>9, <1>12
    <2>4. kept.terminals[a][n] = "authoritative"
        BY <1>6, <1>13, <2>1, <2>2, <2>3
    <2>5. active[a] = NoActive
        <3> SUFFICES ASSUME active[a] # NoActive PROVE FALSE
            OBVIOUS
        <3>1. active[a].turn = n /\ kept.terminals[a][active[a].turn] = "none"
            BY <1>1, <1>3 DEF ActiveIsCurrent
        <3> QED
            BY <2>4, <3>1
    <2>6. IsFinished(kept, active, a)
        BY <2>1, <2>4, <2>5 DEF IsFinished
    <2> QED
        BY <1>1, <1>3, <1>14, <2>6 DEF IsSound, IsEvictable
<1>16. IsSound(l, act, g, {})
    BY <1>1, <1>11, <1>15, ButOne
<1>17. /\ scenario' = scenario /\ process' = process /\ generation' = generation
       /\ server' = server /\ agenda' = agenda /\ completing' = completing /\ table' = table
       /\ sending' = sending /\ watchdogs' = watchdogs /\ overtaken' = overtaken
       /\ cancelling' = NoWatchdog /\ kept' = l /\ active' = act
    BY <1>2 DEF pump, l, act
<1>18. /\ shown' \in [Agents -> [Turns -> Marks]]
       /\ shown'[a][t] = "synthetic"
       /\ \A b \in Agents, n \in Turns : shown'[b][n] = shown[b][n] \/ (b = a /\ n = t)
    BY <1>1, <1>2, <1>3 DEF Marks
<1>19. TypeInv'
    BY <1>8, <1>17, <1>18 DEF IInv, TypeInv
<1>20. ServersAre(server)'
    BY <1>17 DEF IInv, ServersAre
<1>21. GensInv'
    BY <1>1, <1>17 DEF GensInv, g
<1>22. KeptInv'
    BY <1>16, <1>17, SoundLater DEF g
<1>23. ShownInv'
    <2> SUFFICES ASSUME NEW b \in Agents, act[b] # NoActive
                 PROVE  shown'[b][act[b].turn] # "authoritative"
        BY <1>17 DEF ShownInv
    <2>1. act[b] = active[b]
        BY <1>8
    <2>2. act[b].turn \in Turns /\ shown[b][act[b].turn] # "authoritative"
        BY <2>1, <1>3 DEF IInv, ShownInv, ActiveIsCurrent
    <2> QED
        BY <2>2, <1>18
<1>24. QueuesOf(agenda, table, server)'
    BY <1>17 DEF IInv, QueuesOf
<1>25. RoutedInv' /\ CompletingInv'
    BY <1>14, <1>17 DEF IInv, RoutedInv, CompletingInv, RoutedAgents
<1>26. OrderInv'
    BY <1>17 DEF IInv, OrderInv
<1>27. SeenInv'
    <2> SUFFICES ASSUME NEW b \in Agents, NEW n \in 0 .. MaxTurns, Seen(b, n)'
                 PROVE  n <= server[b].turns /\ Afters(agenda, table, b, generation, n)
        BY <1>17 DEF SeenInv
    <2>1. Seen(b, n)
        <3>1. l.interrupt[b].turn = n => n = 0 \/ kept.interrupt[b].turn = n
            BY <1>14 DEF NoInterrupt, x
        <3>2. n \in Turns /\ shown'[b][n] # "none" => Seen(b, n)
            BY <1>18 DEF Seen, a, t
        <3>3. NoWatchdog.agent # b
            BY SubagentsAssumption DEF NoWatchdog
        <3> QED
            BY <1>14, <1>17, <3>1, <3>2, <3>3 DEF Seen
    <2> QED
        BY <2>1 DEF IInv, SeenInv
<1>28. CancelInv' /\ WatchedInv'
    BY <1>17 DEF CancelInv, WatchedInv
<1>29. EntryInv'
    <2> SUFFICES ASSUME NEW b \in Agents
                 PROVE  \/ l.interrupt[b] = NoInterrupt
                        \/ l.interrupt[b].turn \in Turns /\ l.interrupt[b].attempt # 0
        BY <1>17 DEF EntryInv
    <2>1. l.interrupt[b] = kept.interrupt[b] \/ l.interrupt[b] = NoInterrupt
        BY <1>14 DEF x
    <2> QED
        BY <2>1 DEF IInv, EntryInv
<1>30. ASSUME NEW b \in Agents, act[b] # NoActive, IsFor(kept.interrupt[b], b)'
       PROVE  active[b] = act[b] /\ l.interrupt[b] = kept.interrupt[b]
    <2>1. active[b] = act[b]
        BY <1>8, <1>30
    <2>2. act[b].turn \in Turns
        BY <2>1, <1>3, <1>30 DEF ActiveIsCurrent
    <2>3. l.interrupt[b] # NoInterrupt
        BY <2>2, <1>17, <1>30 DEF IsFor, NoInterrupt, Turns
    <2> QED
        BY <2>1, <2>3, <1>14 DEF x
<1>31. ASSUME AnswersInTime
       PROVE  SendingInv' /\ SentIsWatched'
    <2>1. SendingInv /\ SentIsWatched
        BY <1>31 DEF IInv
    <2>2. SendingInv'
        <3>1. ASSUME NEW v \in sending, IsLive(v.agent)'
              PROVE  IsExact(l.interrupt[v.agent], v) /\ l.interrupt[v.agent].phase = "Sending"
            <4>1. v.agent \in Agents
                BY DEF IInv, TypeInv, Watchdogs
            <4>2. active[v.agent] = act[v.agent] /\ l.interrupt[v.agent] = kept.interrupt[v.agent]
                BY <3>1, <4>1, <1>17, <1>30 DEF IsLive
            <4>3. IsLive(v.agent)
                BY <3>1, <4>2, <1>17 DEF IsLive, IsFor
            <4> QED
                BY <4>2, <4>3, <2>1 DEF SendingInv
        <3> QED
            BY <3>1, <1>17, <2>1 DEF SendingInv, IsExact
    <2>3. SentIsWatched'
        <3> SUFFICES ASSUME NEW b \in Agents, l.interrupt[b].phase = "Sent",
                            act[b] = [gen |-> l.interrupt[b].gen, turn |-> l.interrupt[b].turn]
                     PROVE  \E v \in watchdogs \cup {NoWatchdog} :
                                v.agent = b /\ IsExact(l.interrupt[b], v)
            BY <1>17 DEF SentIsWatched, IsExact
        <3>1. l.interrupt[b].turn \in Turns
            BY <1>17, <1>29 DEF EntryInv, NoInterrupt
        <3>2. act[b] # NoActive
            BY <3>1 DEF NoActive, Turns
        <3>3. active[b] = act[b] /\ l.interrupt[b] = kept.interrupt[b]
            BY <3>2, <1>17, <1>30 DEF IsFor
        <3>4. PICK v \in watchdogs \cup {w} : v.agent = b /\ IsExact(kept.interrupt[b], v)
            BY <3>3, <2>1 DEF SentIsWatched
        <3>5. v # w
            <4> SUFFICES ASSUME v = w PROVE FALSE
                OBVIOUS
            <4>1. b = a /\ act[a].turn = t
                BY <3>3, <3>4 DEF IsExact, a, t
            <4> QED
                BY <4>1, <3>2, <1>8
        <3> QED
            BY <3>3, <3>4, <3>5
    <2> QED
        BY <2>2, <2>3
<1>32. StepStands
    <2>1. ASSUME NEW b \in Agents, NEW n \in Turns, shown[b][n] = "authoritative",
                 shown'[b][n] = "synthetic"
          PROVE  <<b, n>> \in overtaken
        <3>1. b = a /\ n = t
            BY <1>18, <2>1
        <3> QED
            BY <2>1, <3>1 DEF WatchdogCancels, IInv, CancelInv, a, t
    <2> QED
        BY <2>1, <1>14, <1>17 DEF StepStands
<1> QED
    BY <1>19, <1>20, <1>21, <1>22, <1>23, <1>24, <1>25, <1>26, <1>27, <1>28, <1>29, <1>31,
       <1>32 DEF IInv

\* The end of a turn, once request_lifecycle is held.
LEMMA CompleteTurnKeeps ==
    ASSUME IInv, CompleteTurn
    PROVE  IInv' /\ StepStands
<1> DEFINE e == Head(agenda)
           rest == Tail(agenda)
           a == e.thread
           t == e.turn
           k == [kept EXCEPT !.interrupt[a] = NoInterrupt]
           g == generation
<1>1. /\ agenda # <<>> /\ LifecycleFree
      /\ active' = Retire(a, e.gen, t)
      /\ IF IsFirst(kept, a, t)
         THEN kept' = Remembered(k, a, t, Running(active')) /\ ShowTruth(a, t)
         ELSE UNCHANGED <<kept, seen>>
      /\ agenda' = rest /\ completing' = FALSE
      /\ UNCHANGED <<scenario, process, generation, server, table, interrupts>>
    BY DEF CompleteTurn, IInv, CompletingInv
<1>2. e.kind = "turnCompleted" /\ e.gen = g /\ a \in RoutedAgents(kept)
    BY DEF CompleteTurn, IInv, CompletingInv
<1>3. PumpFrom(e, rest, server)
    BY <1>1, NextPumpFrom
<1> HIDE DEF e, rest
<1>4. a \in Agents /\ t \in Turns /\ t \in TurnKeys /\ g # 0
    BY <1>1, <1>2, <1>3 DEF PumpFrom, Events, Sound, TurnKeys, IInv, GensInv
<1>5. Around /\ table' = table
    BY <1>1 DEF Around
<1>6. /\ kept \in Registries /\ IsSound(kept, active, g, {}) /\ ActiveIsCurrent(kept, active, g)
      /\ NoInterrupt \in Attempts
    BY GenerationIsNumber, BoundsAreNumbers
       DEF IInv, KeptInv, IsSound, NoInterrupt, Attempts, Phases
<1>7. /\ k.route = kept.route /\ k.current = kept.current
      /\ \A b \in Agents : k.interrupt[b] \in {kept.interrupt[b], NoInterrupt}
    BY <1>4, <1>6 DEF Registries
<1>8. Advances(e, rest, agenda', table', server)
    BY <1>1, <1>3, PassAdvances DEF PumpFrom
<1>9. Pumped(e, rest, server)
    <2>1. CASE IsFirst(kept, a, t)
        <3>1. IsSound(k, active, g, {})
            <4> DEFINE m == k
            <4>1. m = [kept EXCEPT !.interrupt[a] = NoInterrupt]
                OBVIOUS
            <4> HIDE DEF m
            <4>2. IsSound(m, active, g, {})
                BY <1>4, <1>6, <4>1, InterruptKeeps, ZenonT(30)
            <4> QED
                BY <4>2 DEF m
        <3>2. \A b \in Agents : Stays(kept, k, b)
            BY <1>1, <1>7 DEF Stays
        <3>3. Passes(e, rest, a)
            BY <1>1, <1>2 DEF Passes, IsOfTurn
        <3>4. \A b \in RoutedAgents(k) : b \notin DOMAIN table'
            BY <1>5, <1>7 DEF IInv, RoutedInv, RoutedAgents
        <3>5. /\ active' = Retire(a, g, t)
              /\ kept' = Remembered(k, a, t, Running(active')) /\ ShowTruth(a, t)
            BY <1>1, <1>2, <2>1
        <3>6. t \in Turns => t = kept.current[a] \/ (Passes(e, rest, a) /\ t = e.turn)
            BY <3>3
        <3> HIDE DEF a, t, k
        <3> QED
            BY <1>4, <1>5, <1>8, <3>1, <3>2, <3>4, <3>5, <3>6, TruthPumped
    <2>2. CASE ~IsFirst(kept, a, t)
        <3>1. active[a] # [gen |-> g, turn |-> t]
            <4> SUFFICES ASSUME active[a] = [gen |-> g, turn |-> t] PROVE FALSE
                OBVIOUS
            <4>1. active[a] # NoActive /\ active[a].turn = t
                BY <1>4 DEF NoActive
            <4>2. kept.terminals[a][t] = "none"
                BY <1>4, <1>6, <4>1 DEF ActiveIsCurrent
            <4> QED
                BY <2>2, <4>2 DEF IsFirst
        <3>2. UNCHANGED <<active, kept, seen>>
            BY <1>1, <1>2, <2>2, <3>1 DEF Retire
        <3> QED
            BY <1>1, <1>3, <1>5, <1>8, <3>2, NothingPumped
    <2> QED
        BY <2>1, <2>2
<1>10. CompletingInv' /\ completing' \in BOOLEAN /\ server' = server
    BY <1>1 DEF CompletingInv
<1> QED
    BY <1>3, <1>9, <1>10, PumpedKeeps

-----------------------------------------------------------------------------
(* A generation begins or ends *)

\* A registry of nothing is sound.
LEMMA NothingIsSound ==
    ASSUME scenario \in Scenarios, NEW g
    PROVE  /\ IsSound(NothingKept, [a \in Agents |-> NoActive], g, {})
           /\ RoutedAgents(NothingKept) = {}
<1> DEFINE k == NothingKept
           act == [a \in Agents |-> NoActive]
           none == [t \in TurnKeys |-> "none"]
<1>1. NoRoute \in Routes /\ NoInterrupt \in Attempts /\ 0 \in 0 .. MaxTurns
    BY BoundsAreNumbers DEF NoRoute, NoInterrupt, Routes, Attempts, Phases
<1>2. none \in [TurnKeys -> Marks] /\ <<>> \in Seq(TurnKeys) /\ <<>> \in Seq(Agents)
    BY DEF Marks
<1>3. /\ \A a \in Agents : /\ k.route[a] = NoRoute /\ k.current[a] = 0
                           /\ k.terminals[a] = none /\ k.turnOrder[a] = <<>>
      /\ k.order = <<>>
    BY DEF NothingKept
<1>4. k \in Registries
    <2> HIDE DEF none
    <2> QED
        BY <1>1, <1>2 DEF NothingKept, Registries, none
<1>5. RoutedAgents(k) = {}
    BY <1>3 DEF RoutedAgents
<1> HIDE DEF k
<1>6. IsAcyclic(k)
    BY <1>5 DEF IsAcyclic
<1>7. IsBounded(k)
    <2>1. Cardinality(RoutedAgents(k)) = 0
        BY <1>5, FS_EmptySet
    <2>2. 0 <= Room /\ 0 <= MaxRetainedTurns
        BY BoundsAreNumbers
    <2>3. Distinct(k.order) /\ Len(k.order) = 0
        BY <1>3 DEF Distinct
    <2>4. \A a \in Agents : Len(k.turnOrder[a]) = 0 /\ \A t \in TurnKeys : k.terminals[a][t] = "none"
        BY <1>3
    <2> QED
        BY <2>1, <2>2, <2>3, <2>4 DEF IsBounded
<1>8. RoutesAreOf(k, g) /\ \A a \in Agents : IsEvictable(k, act, a)
    BY <1>3 DEF RoutesAreOf, IsEvictable, IsFinished
<1>9. ActiveIsCurrent(k, act, g)
    BY DEF ActiveIsCurrent
<1> QED
    BY <1>4, <1>5, <1>6, <1>7, <1>8, <1>9 DEF IsSound, k

\* A queue without events of generation g.
LEMMA OrderForeign ==
    ASSUME NEW q, NEW g, \A i \in DOMAIN q : q[i].gen # g
    PROVE  \A a : Ordered(q, a, g) /\ \A n : After(q, a, g, n)
BY DEF Ordered, Allows, IsOfTurn, After, IsStart

\* Nothing is kept, and no event is of the new generation.
LEMMA GenerationKeeps ==
    ASSUME IInv, agenda = <<>>, agenda' = <<>>, cancelling = NoWatchdog,
           process' \in Generations, process <= process', generation' \in {0, process'},
           kept' = NothingKept, active' = [a \in Agents |-> NoActive],
           ServersAre(server)', \A a \in Agents : server'[a].turns = server[a].turns,
           NEW T, table' = T, T = [t \in DOMAIN T |-> T[t]], DOMAIN T \subseteq DOMAIN table,
           \A t \in DOMAIN T : T[t] \in Seq(EventsOf(t, process, server)),
           \A e \in Events(process, server) : e.gen # generation',
           UNCHANGED <<scenario, completing, interrupts, seen>>
    PROVE  IInv' /\ StepStands
<1> DEFINE g == generation'
           s == server'
<1>1. scenario' = scenario /\ completing' = completing /\ sending' = sending
      /\ watchdogs' = watchdogs /\ cancelling' = NoWatchdog /\ shown' = shown
      /\ overtaken' = overtaken
    BY DEF interrupts, seen
<1>2. scenario \in Scenarios /\ server \in [Agents -> Servers] /\ s \in [Agents -> Servers]
    BY DEF IInv, TypeInv, ServersAre
<1>3. IsSound(kept', active', g, {}) /\ RoutedAgents(kept') = {}
    BY <1>2, NothingIsSound
<1>4. \A a \in Agents : /\ kept'.route[a] = NoRoute /\ kept'.current[a] = 0
                        /\ kept'.interrupt[a] = NoInterrupt /\ active'[a] = NoActive
    BY DEF NothingKept
<1>5. completing = FALSE
    BY DEF IInv, TypeInv, CompletingInv
<1>6. TypeInv'
    <2>1. active' \in [Agents -> Actives]
        <3>1. NoActive \in Actives
            BY BoundsAreNumbers DEF NoActive, Actives
        <3> QED
            BY <3>1
    <2> QED
        BY <1>1, <2>1 DEF IInv, TypeInv
<1>7. GensInv'
    BY <1>1 DEF GensInv
<1>8. KeptInv'
    BY <1>1, <1>3, SoundLater
<1>9. ASSUME NEW t \in DOMAIN T
      PROVE  /\ t \in Threads
             /\ T[t] \in Seq(EventsOf(t, process', s))
             /\ \A i \in DOMAIN T[t] : T[t][i].gen # g
    <2> DEFINE R == EventsOf(t, process, server)
               Q == EventsOf(t, process', s)
    <2>1. \A a \in Agents : server[a].turns <= s[a].turns
        <3>1. \A a \in Agents : s[a].turns \in Nat
            BY <1>2, BoundsAreNumbers DEF Servers
        <3> QED
            BY <3>1
    <2>2. process \in Nat /\ process' \in Nat /\ process <= MaxGeneration
        BY BoundsAreNumbers DEF IInv, TypeInv, Generations
    <2> DEFINE p2 == process'
    <2>3. R \subseteq Q
        <3>1. p2 \in Nat /\ process <= p2 /\ s \in [Agents -> Servers]
              /\ \A a \in Agents : server[a].turns <= s[a].turns
            BY <1>2, <2>1, <2>2
        <3> HIDE DEF p2, s
        <3>2. \A u : EventsOf(u, process, server) \subseteq EventsOf(u, p2, s)
            BY <1>2, <2>2, <3>1, EventsGrow
        <3> QED
            BY <3>2 DEF p2
    <2>4. \A e \in R : e.gen # g
        BY DEF EventsOf
    <2>5. T[t] \in Seq(R)
        OBVIOUS
    <2>6. t \in Threads
        BY DEF IInv, QueuesOf
    <2> HIDE DEF R, Q, g
    <2>7. T[t] \in Seq(Q)
        BY <2>3, <2>5
    <2>8. \A i \in DOMAIN T[t] : T[t][i] \in R
        BY <2>5
    <2> QED
        BY <2>4, <2>6, <2>7, <2>8 DEF Q, g
<1>10. QueuesOf(agenda, table, server)'
    <2>1. <<>> \in Seq(Events(process', s)) /\ DOMAIN <<>> = {}
        OBVIOUS
    <2> QED
        BY <2>1, <1>9 DEF QueuesOf
<1>11. RoutedInv'
    BY <1>3 DEF RoutedInv
<1>12. CompletingInv'
    BY <1>1, <1>5 DEF CompletingInv
<1>13. ASSUME NEW a
       PROVE  Lines(agenda', table', a, g) /\ \A n : Afters(agenda', table', a, g, n)
    <2> DEFINE q == <<>>
               Q == QueueOf(T, a)
    <2>1. Idle(q, a)
        BY DEF Idle
    <2>2. \A i \in DOMAIN Q : Q[i].gen # g
        BY <1>9 DEF QueueOf
    <2>3. agenda' = q /\ QueueOf(table', a) = Q
        OBVIOUS
    <2> HIDE DEF q, Q
    <2>4. Ordered(q, a, g) /\ Precedes(Q, q, a, g) /\ \A n : After(q, a, g, n)
        BY <2>1, OrderIdle
    <2>5. Ordered(Q, a, g) /\ \A n : After(Q, a, g, n)
        BY <2>2, OrderForeign
    <2> QED
        BY <2>3, <2>4, <2>5 DEF Lines, Afters
<1>14. OrderInv'
    BY <1>13 DEF OrderInv
<1>15. SeenInv'
    <2> SUFFICES ASSUME NEW a \in Agents, NEW n \in 0 .. MaxTurns, Seen(a, n)'
                 PROVE  n <= s[a].turns
        BY <1>13 DEF SeenInv
    <2>1. NoWatchdog.agent # a
        BY SubagentsAssumption DEF NoWatchdog
    <2>2. n = 0 \/ Seen(a, n)
        BY <1>1, <1>4, <2>1 DEF Seen, NoInterrupt
    <2>3. s[a].turns \in Nat
        BY <1>2, BoundsAreNumbers DEF Servers
    <2> QED
        BY <2>2, <2>3 DEF IInv, SeenInv
<1>16. ShownInv' /\ CancelInv' /\ WatchedInv' /\ EntryInv'
    BY <1>1, <1>4 DEF ShownInv, CancelInv, WatchedInv, EntryInv
<1>17. AnswersInTime => SendingInv' /\ SentIsWatched'
    <2>1. AnswersInTime => SendingInv'
        <3>1. \A w \in sending : w.agent \in Agents
            BY DEF IInv, TypeInv, Watchdogs
        <3> QED
            BY <1>1, <1>4, <3>1 DEF IInv, SendingInv, IsLive
    <2>2. SentIsWatched'
        BY <1>4 DEF SentIsWatched, NoInterrupt
    <2> QED
        BY <2>1, <2>2
<1>18. StepStands
    BY <1>1, <1>4 DEF StepStands, RoutedAgents
<1> QED
    BY <1>6, <1>7, <1>8, <1>10, <1>11, <1>12, <1>14, <1>15, <1>16, <1>17, <1>18 DEF IInv

\* The engine begins with nothing.
LEMMA InitKeeps ==
    ASSUME Init
    PROVE  IInv
<1>1. /\ scenario \in Scenarios /\ process = 1 /\ generation = 1
      /\ server = [a \in Agents |-> NotSpawned]
      /\ agenda = <<>> /\ completing = FALSE /\ table = <<>>
      /\ active = [a \in Agents |-> NoActive] /\ kept = NothingKept
      /\ sending = {} /\ watchdogs = {} /\ cancelling = NoWatchdog
      /\ shown = [a \in Agents |-> [t \in Turns |-> "none"]] /\ overtaken = {}
    BY DEF Init
<1>2. 1 \in Generations /\ 1 # 0
    BY BoundsAreNumbers DEF Generations
<1>3. TypeInv
    <2>1. NoActive \in Actives
        BY BoundsAreNumbers DEF NoActive, Actives
    <2>2. active \in [Agents -> Actives] /\ shown \in [Agents -> [Turns -> Marks]]
        BY <1>1, <2>1 DEF Marks
    <2> QED
        BY <1>1, <1>2, <2>2 DEF TypeInv
<1>4. ServersAre(server)
    <2>1. NotSpawned \in Servers /\ ~NotSpawned.running
        BY BoundsAreNumbers DEF NotSpawned, Servers
    <2> QED
        BY <1>1, <1>2, <2>1 DEF ServersAre
<1>5. GensInv
    BY <1>1, <1>2 DEF GensInv
<1>6. KeptInv /\ RoutedAgents(kept) = {}
    BY <1>1, NothingIsSound DEF KeptInv
<1>7. \A a \in Agents : /\ kept.current[a] = 0 /\ kept.interrupt[a] = NoInterrupt
                        /\ active[a] = NoActive
    BY <1>1 DEF NothingKept
<1> DEFINE q == <<>>
<1>8. agenda = q /\ table = q /\ DOMAIN q = {} /\ q \in Seq(Events(process, server))
    BY <1>1
<1>9. \A a : QueueOf(q, a) = q /\ Idle(q, a)
    BY DEF QueueOf, Idle
<1>10. q = [t \in DOMAIN q |-> q[t]]
    OBVIOUS
<1> HIDE DEF q
<1>11. QueuesOf(agenda, table, server)
    BY <1>8, <1>10 DEF QueuesOf
<1>12. RoutedInv /\ CompletingInv
    BY <1>1, <1>6 DEF RoutedInv, CompletingInv
<1>13. \A a : Lines(agenda, table, a, generation)
              /\ \A n : Afters(agenda, table, a, generation, n)
    BY <1>8, <1>9, OrderIdle DEF Lines, Afters
<1>14. OrderInv
    BY <1>13 DEF OrderInv
<1>15. SeenInv
    <2> SUFFICES ASSUME NEW a \in Agents, NEW n \in 0 .. MaxTurns, Seen(a, n)
                 PROVE  n <= server[a].turns
        BY <1>13 DEF SeenInv
    <2>1. NoWatchdog.agent # a
        BY SubagentsAssumption DEF NoWatchdog
    <2>2. n = 0
        BY <1>1, <1>7, <2>1 DEF Seen, NoInterrupt
    <2>3. server[a].turns = 0
        BY <1>1 DEF NotSpawned
    <2> QED
        BY <2>2, <2>3
<1>16. ShownInv /\ CancelInv /\ WatchedInv /\ EntryInv
    BY <1>1, <1>7 DEF ShownInv, CancelInv, WatchedInv, EntryInv
<1>17. SendingInv /\ SentIsWatched
    BY <1>1, <1>7 DEF SendingInv, SentIsWatched, NoInterrupt
<1> QED
    BY <1>3, <1>4, <1>5, <1>6, <1>11, <1>12, <1>14, <1>15, <1>16, <1>17 DEF IInv

\* The process is lost.
LEMMA ClosedKeeps ==
    ASSUME IInv, HandleClosed
    PROVE  IInv' /\ StepStands
<1> DEFINE T == WithoutGeneration(table, generation)
<1>1. /\ agenda = <<>> /\ agenda' = <<>> /\ cancelling = NoWatchdog /\ generation' = 0
      /\ kept' = NothingKept /\ active' = [a \in Agents |-> NoActive]
      /\ table' = T /\ process' = process
      /\ server' = [a \in Agents |-> [server[a] EXCEPT !.parent = NoThread, !.running = FALSE]]
      /\ UNCHANGED <<scenario, completing, interrupts, seen>>
    BY DEF HandleClosed, LifecycleFree
<1>2. process \in Generations /\ process <= process /\ server \in [Agents -> Servers]
    BY BoundsAreNumbers DEF IInv, TypeInv, ServersAre, Generations
<1>3. /\ \A a \in Agents : /\ server'[a] \in Servers /\ server'[a].turns = server[a].turns
                           /\ server'[a].parent = NoThread /\ server'[a].running = FALSE
      /\ server' \in [Agents -> Servers]
    <2>1. \A a \in Agents :
              LET r == [server[a] EXCEPT !.parent = NoThread, !.running = FALSE]
              IN  /\ r \in Servers /\ r.turns = server[a].turns
                  /\ r.parent = NoThread /\ r.running = FALSE
        BY <1>2 DEF Servers
    <2> QED
        BY <1>1, <2>1
<1>4. ServersAre(server)'
    BY <1>1, <1>3 DEF ServersAre
<1>5. /\ T = [t \in DOMAIN T |-> T[t]] /\ DOMAIN T \subseteq DOMAIN table
      /\ \A t \in DOMAIN T : T[t] \in Seq(EventsOf(t, process, server))
    <2>1. /\ DOMAIN T \subseteq DOMAIN table
          /\ \A t \in DOMAIN T : T[t] = OtherThan(table[t], generation)
          /\ T = [t \in DOMAIN T |-> T[t]]
        BY DEF WithoutGeneration
    <2>2. \A t \in DOMAIN table : table[t] \in Seq(EventsOf(t, process, server))
        BY DEF IInv, QueuesOf
    <2> HIDE DEF T
    <2>3. ASSUME NEW t \in DOMAIN T
          PROVE  T[t] \in Seq(EventsOf(t, process, server))
        BY <2>1, <2>2, OtherThanType
    <2> QED
        BY <2>1, <2>3
<1>6. \A e \in Events(process, server) : e.gen # 0
    BY BoundsAreNumbers DEF Events, Event, Generations
<1> HIDE DEF T
<1> QED
    BY <1>1, <1>2, <1>3, <1>4, <1>5, <1>6, GenerationKeeps

\* The root is routed under a new process.
LEMMA RegisterKeeps ==
    ASSUME IInv, RegisterRoot
    PROVE  IInv' /\ StepStands
<1> DEFINE T == Drop(table, Root)
<1>1. /\ generation = 0 /\ process' = process + 1 /\ generation' = process'
      /\ process < scenario.processes
      /\ table' = T /\ server' = server /\ agenda' = agenda /\ kept' = kept /\ active' = active
      /\ cancelling' = cancelling
      /\ UNCHANGED <<scenario, completing, interrupts, seen>>
    BY DEF RegisterRoot, interrupts
<1>2. agenda = <<>> /\ kept = NothingKept /\ active = [a \in Agents |-> NoActive]
    BY <1>1 DEF IInv, GensInv
<1>3. cancelling = NoWatchdog
    <2>1. cancelling \in Watchdogs => cancelling.gen # 0
        BY BoundsAreNumbers DEF Watchdogs, Generations
    <2> QED
        BY <1>1, <2>1 DEF IInv, TypeInv, GensInv
<1>4. process' \in Generations /\ process <= process' /\ process' # 0 /\ process \in Nat
    <2>1. scenario.processes \in 1 .. MaxGeneration
        BY SubagentsAssumption DEF IInv, TypeInv
    <2> QED
        BY <1>1, <2>1, BoundsAreNumbers DEF IInv, TypeInv, Generations
<1>5. ServersAre(server)'
    BY <1>1, <1>4 DEF IInv, ServersAre
<1>6. /\ T = [t \in DOMAIN T |-> T[t]] /\ DOMAIN T \subseteq DOMAIN table
      /\ \A t \in DOMAIN T : T[t] \in Seq(EventsOf(t, process, server))
    BY DEF Drop, IInv, QueuesOf
<1>7. \A e \in Events(process, server) : e.gen # generation'
    <2>1. \A e \in Events(process, server) : e.gen \in Nat /\ e.gen <= process
        BY BoundsAreNumbers DEF Events, Event, Sound, Generations
    <2> QED
        BY <1>1, <1>4, <2>1
<1> HIDE DEF T
<1> QED
    BY <1>1, <1>2, <1>3, <1>4, <1>5, <1>6, <1>7, GenerationKeeps

\* The pump takes the next event.
LEMMA HandleNextKeeps ==
    ASSUME IInv, HandleNext
    PROVE  IInv' /\ StepStands
<1>1. agenda # <<>> /\ ~completing /\ server' = server
      /\ Handle(Head(agenda), Tail(agenda))
    BY DEF HandleNext
<1>2. PumpFrom(Head(agenda), Tail(agenda), server)
    BY <1>1, NextPumpFrom
<1> QED
    BY <1>1, <1>2, HandleKeeps

\* Every step.
LEMMA StepKeeps ==
    ASSUME IInv, [Next]_vars
    PROVE  IInv' /\ StepStands
<1>1. CASE Pump
    BY <1>1, HandleNextKeeps, CompleteTurnKeeps DEF Pump
<1>2. CASE HandleClosed
    BY <1>2, ClosedKeeps
<1>3. CASE RegisterRoot
    BY <1>3, RegisterKeeps
<1>4. CASE WatchdogCancels
    BY <1>4, CancelsKeeps
<1>5. CASE WatchdogUnsaved
    BY <1>5, UnsavedKeeps
<1>6. CASE \E w \in sending : Answer(w)
    BY <1>6, AnswerKeeps
<1>7. CASE \E w \in watchdogs : WatchdogChecks(w)
    BY <1>7, ChecksKeeps
<1>8. ASSUME NEW a \in Agents, Interrupt(a)
      PROVE  IInv' /\ StepStands
    BY <1>8, InterruptIsKept
<1>9. ASSUME NEW a \in Agents, SendStarted(a)
      PROVE  IInv' /\ StepStands
    BY <1>9, SendStartedKeeps
<1>10. ASSUME NEW a \in Agents, SendCompleted(a)
       PROVE  IInv' /\ StepStands
    BY <1>10, SendCompletedKeeps
<1>11. ASSUME NEW a \in Agents, SendMessage(a) \/ SendThreadStarted(a)
       PROVE  IInv' /\ StepStands
    BY <1>11, SendMessageKeeps
<1>12. ASSUME NEW a \in Agents, NEW status \in {"none", "ended"}, SendCollabItem(a, status)
       PROVE  IInv' /\ StepStands
    <2>1. Root \in Threads
        BY DEF Threads
    <2> QED
        BY <1>12, <2>1, SendItemKeeps
<1>13. ASSUME NEW a \in Agents, NEW p \in Threads, NEW status \in {"none", "ended"},
              SendActivity(p, a, status)
       PROVE  IInv' /\ StepStands
    BY <1>13, SendItemKeeps
<1>14. ASSUME NEW a \in Agents, NEW t \in Turns, SendStale(a, t)
       PROVE  IInv' /\ StepStands
    BY <1>14, SendStaleKeeps
<1>15. CASE UNCHANGED vars \/ \E a \in Agents, p \in Threads : Spawn(a, p)
    BY <1>15, SpawnKeeps
<1> QED
    BY <1>1, <1>2, <1>3, <1>4, <1>5, <1>6, <1>7, <1>8, <1>9, <1>10, <1>11, <1>12, <1>13,
       <1>14, <1>15 DEF Next

-----------------------------------------------------------------------------
(* What the invariant gives *)

\* The invariant holds of every reachable state.
THEOREM Invariance == Spec => []IInv
<1>1. Init => IInv
    BY InitKeeps
<1>2. IInv /\ [Next]_vars => IInv'
    BY StepKeeps
<1> QED
    BY <1>1, <1>2, PTL DEF Spec

\* The elements of a sequence are in its set.
LEMMA ElementsAreIn ==
    ASSUME NEW S, NEW q \in Seq(S)
    PROVE  ToSetOf(q) \subseteq S
BY DEF ToSetOf

\* The types of the variables.
LEMMA TypesHold ==
    ASSUME IInv
    PROVE  TypeOK
<1>1. /\ scenario \in Scenarios /\ process \in Generations /\ generation \in {0, process}
      /\ active \in [Agents -> Actives] /\ sending \cup watchdogs \subseteq Watchdogs
      /\ cancelling \in Watchdogs \cup {NoWatchdog}
      /\ shown \in [Agents -> [Turns -> Marks]] /\ overtaken \subseteq Agents \X Turns
    BY DEF IInv, TypeInv
<1>2. server \in [Agents -> Servers] /\ (completing => agenda # <<>>)
    BY DEF IInv, ServersAre, CompletingInv
<1>3. /\ ToSetOf(agenda) \subseteq Event /\ DOMAIN table \subseteq Threads
      /\ \A t \in DOMAIN table : ToSetOf(table[t]) \subseteq Event
    <2> DEFINE S == Events(process, server)
    <2>1. agenda \in Seq(S) /\ DOMAIN table \subseteq Threads /\ S \subseteq Event
          /\ \A t \in DOMAIN table : table[t] \in Seq(EventsOf(t, process, server))
          /\ \A u : EventsOf(u, process, server) \subseteq S
        BY DEF IInv, QueuesOf, EventsOf, Events
    <2> HIDE DEF S
    <2> QED
        BY <2>1, ElementsAreIn
<1>4. kept \in Registries
    BY DEF IInv, KeptInv, IsSound
<1>5. /\ kept.route \in [Agents -> Routes] /\ kept.current \in [Agents -> 0 .. MaxTurns]
      /\ kept.terminals \in [Agents -> [TurnKeys -> Marks]]
      /\ kept.order \in Seq(Agents) /\ kept.turnOrder \in [Agents -> Seq(TurnKeys)]
      /\ kept.interrupt \in [Agents -> Attempts]
    BY <1>4 DEF Registries
<1>6. ToSetOf(kept.order) \subseteq Agents /\ \A a \in Agents : ToSetOf(kept.turnOrder[a]) \subseteq TurnKeys
    BY <1>5, ElementsAreIn
<1> QED
    BY <1>1, <1>2, <1>3, <1>5, <1>6 DEF TypeOK, Actives, Servers, Routes, Attempts, Marks, Phases

\* However items, events, activities, deferrals and failed writes alternate, at most as many
\* agents are kept as there is room for, whatever is recorded of a turn is in the order it will
\* be forgotten by, and an agent whose last turn ended by the truth can give way to a new one.
THEOREM Retention == Spec => []RetentionIsSound
<1>1. ASSUME IInv PROVE RetentionIsSound
    <2>1. IsBounded(kept) /\ kept \in Registries
          /\ \A a \in Agents : IsEvictable(kept, active, a)
        BY <1>1 DEF IInv, KeptInv, IsSound
    <2>2. kept.order \in Seq(Agents)
        BY <2>1 DEF Registries
    <2>3. Cardinality(ToSetOf(kept.order)) = Len(kept.order)
        BY <2>1, <2>2, DistinctIsCounted DEF IsBounded
    <2>4. RetentionIsBounded
        BY <2>1, <2>3 DEF RetentionIsBounded, IsBounded
    <2>5. FinishedIsEvictable
        BY <2>1 DEF FinishedIsEvictable, IsEvictable, IsFinished, RoutedAgents
    <2> QED
        BY <1>1, <2>4, <2>5, TypesHold DEF RetentionIsSound
<1> QED
    BY <1>1, Invariance, PTL

\* The parents of a routed agent lead to the root or to a parent that was forgotten, and never
\* back to the agent, and a turn whose truth is known is not the active one: whatever the order
\* of answers.
THEOREM AncestryAndTruth == Spec => [](NoCycle /\ ActiveIsUnfinished)
<1>1. ASSUME IInv PROVE NoCycle /\ ActiveIsUnfinished
    BY <1>1 DEF IInv, KeptInv, IsSound, NoCycle, IsAcyclic, ActiveIsUnfinished, ActiveIsCurrent
<1> QED
    BY <1>1, Invariance, PTL

\* Of an app-server that answers an interrupt of an agent before the agent is interrupted again,
\* an active turn whose interrupt was sent is watched by a watchdog of exactly that attempt.
LEMMA RegistryInTime ==
    ASSUME AnswersInTime
    PROVE  Spec => []RegistryAgrees
<1>1. ASSUME IInv PROVE RegistryAgrees
    <2>1. NoCycle /\ ActiveIsUnfinished
        BY <1>1 DEF IInv, KeptInv, IsSound, NoCycle, IsAcyclic, ActiveIsUnfinished, ActiveIsCurrent
    <2> QED
        BY <1>1, <2>1 DEF IInv, RegistryAgrees
<1> QED
    BY <1>1, Invariance, PTL

\* While a child is routed its parent and generation stay, and its launch turn once it is known;
\* the shown truth of a turn gives way to a watchdog's record only if it came while the watchdog
\* was writing.
THEOREM History == Spec => HistoryStands
<1>1. ASSUME IInv, [Next]_vars
      PROVE  [\A a \in RoutedAgents(kept) \cap RoutedAgents(kept') :
                 /\ kept'.route[a].parent = kept.route[a].parent
                 /\ kept'.route[a].gen = kept.route[a].gen
                 /\ kept.route[a].launch \in {0, kept'.route[a].launch}]_vars
    BY <1>1, StepKeeps DEF StepStands, RoutedAgents
<1>2. ASSUME IInv, [Next]_vars
      PROVE  [\A a \in Agents, t \in Turns :
                 /\ shown[a][t] = "authoritative"
                 /\ shown'[a][t] = "synthetic"
                 => <<a, t>> \in overtaken]_vars
    BY <1>2, StepKeeps DEF StepStands
<1> QED
    BY <1>1, <1>2, Invariance, PTL DEF Spec, HistoryStands, ProvenanceStays, TruthStays
=============================================================================
