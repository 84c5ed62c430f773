------------------------- MODULE SessionStoreProofs -------------------------
(***************************************************************************)
(* What the database of the desktop promises, for any limits of the        *)
(* activity, any turns, callers and models and any scenarios: an inductive *)
(* invariant of seven parts, StoreInv, and an eighth, Gone, for how far a  *)
(* deleted session gets.  The retention of one append is a lemma about     *)
(* ActivityLog alone, AppendedKeeps; every action is reduced to what       *)
(* it does to the activity (EventStep), to the messages (MessageStep) and  *)
(* to a receipt (Advanced).                                                *)
(***************************************************************************)
EXTENDS SessionStore, FiniteSums, SequenceTheorems

-----------------------------------------------------------------------------
(* The activity and its limits *)

\* Rows with numbers, no two under one sequence.
IsLog(E) ==
    /\ IsFiniteSet(E)
    /\ \A e \in E : e.seq \in Nat /\ e.bytes \in Nat
    /\ \A d, e \in E : d.seq = e.seq => d = e
Limits == [rows : Nat, bytes : Nat]
Fits(E, limits) == Cardinality(E) <= limits.rows /\ BytesOf(E) <= limits.bytes

\* A part of the activity is one as well.
LEMMA PartIsLog ==
    ASSUME NEW A, NEW B, A \subseteq B, IsLog(B)
    PROVE  IsLog(A) /\ Cardinality(A) \in Nat /\ Cardinality(B) \in Nat
           /\ Cardinality(A) <= Cardinality(B)
BY FS_Subset, FS_CardinalityType DEF IsLog

\* The function that BytesOf defines is a sum.
LEMMA BytesIsSum ==
    ASSUME NEW B, IsLog(B)
    PROVE  \E f : IsSumOn(f, SUBSET B, [e \in B |-> e.bytes]) /\ BytesOf(B) = f[B]
<1> DEFINE w == [e \in B |-> e.bytes]
           IsIt(f) == f = [s \in SUBSET B |->
                              IF s = {} THEN 0
                              ELSE LET x == CHOOSE x \in s : TRUE
                                   IN  x.bytes + f[s \ {x}]]
           F == CHOOSE f : IsIt(f)
<1>1. ASSUME NEW s \in SUBSET B, s # {}
      PROVE  w[Some(s)] = Some(s).bytes
    BY <1>1 DEF Some
<1>2. \E f : IsIt(f)
    <2>1. PICK f : IsSumOn(f, SUBSET B, w)
        BY SumExists DEF IsLog
    <2>2. IsIt(f)
        BY <2>1, <1>1 DEF IsSumOn, Some
    <2> HIDE DEF IsIt
    <2> QED
        BY <2>2
<1>3. IsIt(F)
    <2> HIDE DEF IsIt
    <2> QED
        BY <1>2
<1>4. BytesOf(B) = F[B]
    BY DEF BytesOf, MapThenSumSet, MapThenFoldSet
<1> HIDE DEF F
<1>5. IsSumOn(F, SUBSET B, w)
    BY <1>3, <1>1 DEF IsSumOn, Some
<1> QED
    BY <1>4, <1>5

\* More rows, more bytes.
LEMMA BytesGrow ==
    ASSUME NEW A, NEW B, A \subseteq B, IsLog(B)
    PROVE  BytesOf(A) \in Nat /\ BytesOf(B) \in Nat /\ BytesOf(A) <= BytesOf(B)
<1> DEFINE v == [e \in A |-> e.bytes]
           w == [e \in B |-> e.bytes]
<1>1. IsLog(A) /\ IsFiniteSet(B)
    BY PartIsLog DEF IsLog
<1>2. PICK f : IsSumOn(f, SUBSET A, v) /\ BytesOf(A) = f[A]
    BY <1>1, BytesIsSum
<1>3. PICK g : IsSumOn(g, SUBSET B, w) /\ BytesOf(B) = g[B]
    BY BytesIsSum
<1>4. w \in [B -> Nat] /\ \A e \in A : v[e] = w[e]
    BY DEF IsLog
<1> HIDE DEF v, w
<1>5. f[A] = g[A]
    <2>1. AgreeOn(v, w, A)
        BY <1>4 DEF AgreeOn
    <2>2. A \in SUBSET B
        OBVIOUS
    <2> QED
        BY <1>1, <1>2, <1>3, <2>1, <2>2, SumAgrees
<1>6. g[A] \in Nat /\ g[B] \in Nat
    BY <1>1, <1>3, <1>4, SumIsNumber
<1>7. g[A] <= g[B]
    BY <1>1, <1>3, <1>4, SumGrows
<1> QED
    BY <1>2, <1>3, <1>5, <1>6, <1>7

\* No rows, no bytes.
LEMMA NothingFits ==
    ASSUME NEW limits \in Limits
    PROVE  IsLog({}) /\ Fits({}, limits)
<1>1. IsLog({}) /\ Cardinality({}) = 0
    BY FS_EmptySet DEF IsLog
<1>2. PICK f : IsSumOn(f, SUBSET {}, [e \in {} |-> e.bytes]) /\ BytesOf({}) = f[{}]
    BY <1>1, BytesIsSum
<1>3. f[{}] = 0
    BY <1>2 DEF IsSumOn
<1> QED
    BY <1>1, <1>2, <1>3 DEF Fits, Limits

\* What is part of rows that fit, fits.
LEMMA PartFits ==
    ASSUME NEW A, NEW B, A \subseteq B, IsLog(B), NEW limits \in Limits, Fits(B, limits)
    PROVE  Fits(A, limits)
<1>1. limits.rows \in Nat /\ limits.bytes \in Nat
    BY DEF Limits
<1>2. /\ Cardinality(A) \in Nat /\ Cardinality(B) \in Nat /\ Cardinality(A) <= Cardinality(B)
      /\ BytesOf(A) \in Nat /\ BytesOf(B) \in Nat /\ BytesOf(A) <= BytesOf(B)
    BY PartIsLog, BytesGrow
<1> QED
    BY <1>1, <1>2 DEF Fits

\* What goes before a row has all that comes after that row, and more, after it.
LEMMA FromGrows ==
    ASSUME NEW E, IsLog(E), NEW d \in E, NEW e \in E, GoesBefore(d, e)
    PROVE  From(e, E) \subseteq From(d, E)
<1> SUFFICES ASSUME NEW x \in From(e, E), GoesBefore(x, d)
             PROVE  FALSE
    BY DEF From
<1>1. x \in E /\ ~GoesBefore(x, e)
    BY DEF From
<1>2. x.seq \in Nat /\ d.seq \in Nat /\ e.seq \in Nat
    BY <1>1 DEF IsLog
<1>3. IsTerminal(x) \in BOOLEAN /\ IsTerminal(d) \in BOOLEAN /\ IsTerminal(e) \in BOOLEAN
    BY DEF IsTerminal
<1> QED
    BY <1>1, <1>2, <1>3 DEF GoesBefore

\* Among some numbered rows one has the least number.
LEMMA LeastRow ==
    ASSUME NEW A, IsLog(A), A # {}
    PROVE  \E m \in A : \A d \in A : m.seq <= d.seq
<1> DEFINE N == {d.seq : d \in A}
<1>1. N \subseteq Nat /\ N # {}
    BY DEF IsLog
<1> HIDE DEF N
<1>2. PICK n \in N : \A k \in N : n <= k
    BY <1>1, LeastNumber
<1> QED
    BY <1>2 DEF N

\* Of some rows one goes first.
LEMMA OneGoesFirst ==
    ASSUME NEW A, IsLog(A), A # {}
    PROVE  \E m \in A : \A d \in A : ~GoesBefore(d, m)
<1> DEFINE P == {d \in A : ~IsTerminal(d)}
<1>1. CASE P # {}
    <2>1. IsLog(P)
        BY PartIsLog
    <2>2. PICK m \in P : \A d \in P : m.seq <= d.seq
        BY <1>1, <2>1, LeastRow
    <2>3. ASSUME NEW d \in A
          PROVE  ~GoesBefore(d, m)
        <3>1. m.seq \in Nat /\ d.seq \in Nat
            BY DEF IsLog
        <3>2. ~IsTerminal(m) /\ (~IsTerminal(d) => m.seq <= d.seq)
            BY <2>2
        <3> QED
            BY <3>1, <3>2 DEF GoesBefore
    <2> QED
        BY <2>3
<1>2. CASE P = {}
    <2>1. PICK m \in A : \A d \in A : m.seq <= d.seq
        BY LeastRow
    <2>2. ASSUME NEW d \in A
          PROVE  ~GoesBefore(d, m)
        <3>1. m.seq \in Nat /\ d.seq \in Nat
            BY DEF IsLog
        <3>2. IsTerminal(m) /\ IsTerminal(d) /\ m.seq <= d.seq
            BY <1>2, <2>1
        <3> QED
            BY <3>1, <3>2 DEF GoesBefore
    <2> QED
        BY <2>2
<1> QED
    BY <1>1, <1>2

\* What is left within some limits fits them; and if the proof that something ended had to
\* go, only such proof is left.
LEMMA WithinFits ==
    ASSUME NEW E, IsLog(E), NEW limits \in Limits
    PROVE  /\ Within(E, limits) \subseteq E
           /\ Fits(Within(E, limits), limits)
           /\ \A e \in E \ Within(E, limits) :
                 IsTerminal(e) => \A d \in Within(E, limits) : IsTerminal(d)
<1> DEFINE C == {e \in E : Cardinality(From(e, E)) <= limits.rows}
           W == {e \in C : BytesOf(From(e, C)) <= limits.bytes}
<1>1. Within(E, limits) = W
    BY DEF Within
<1>2. IsLog(C) /\ IsLog(W) /\ W \subseteq C /\ C \subseteq E
    <2>1. W \subseteq C /\ C \subseteq E
        OBVIOUS
    <2> HIDE DEF W, C
    <2>2. W \subseteq E
        BY <2>1
    <2> QED
        BY <2>1, <2>2, PartIsLog
<1>3. limits.rows \in Nat /\ limits.bytes \in Nat
    BY DEF Limits
<1>4. \A e, A : From(e, A) \subseteq A
    BY DEF From
<1>5. Cardinality(C) <= limits.rows
    <2>1. CASE C = {}
        BY <2>1, <1>3, FS_EmptySet
    <2>2. CASE C # {}
        <3>1. PICK m \in C : \A d \in C : ~GoesBefore(d, m)
            BY <1>2, <2>2, OneGoesFirst
        <3>2. C \subseteq From(m, E)
            BY <3>1, <1>2 DEF From
        <3>3. Cardinality(From(m, E)) <= limits.rows
            OBVIOUS
        <3> HIDE DEF C
        <3>4. IsLog(From(m, E))
            BY <1>4, PartIsLog
        <3>5. /\ Cardinality(C) \in Nat /\ Cardinality(From(m, E)) \in Nat
              /\ Cardinality(C) <= Cardinality(From(m, E))
            BY <3>2, <3>4, PartIsLog
        <3> QED
            BY <1>3, <3>3, <3>5
    <2> QED
        BY <2>1, <2>2
<1>6. Fits(W, limits)
    <2>1. CASE W = {}
        BY <2>1, NothingFits
    <2>2. CASE W # {}
        <3>1. PICK m \in W : \A d \in W : ~GoesBefore(d, m)
            BY <1>2, <2>2, OneGoesFirst
        <3>2. W \subseteq From(m, C)
            BY <3>1, <1>2 DEF From
        <3>3. BytesOf(From(m, C)) <= limits.bytes
            OBVIOUS
        <3> HIDE DEF W, C
        <3>4. IsLog(From(m, C))
            BY <1>2, <1>4, PartIsLog
        <3>5. /\ BytesOf(W) \in Nat /\ BytesOf(From(m, C)) \in Nat
              /\ BytesOf(W) <= BytesOf(From(m, C))
            BY <3>2, <3>4, BytesGrow
        <3>6. Cardinality(W) \in Nat /\ Cardinality(C) \in Nat /\ Cardinality(W) <= Cardinality(C)
            BY <1>2, PartIsLog
        <3> QED
            BY <1>3, <1>5, <3>3, <3>5, <3>6 DEF Fits
    <2> QED
        BY <2>1, <2>2
<1>7. ASSUME NEW e \in E, IsTerminal(e), NEW d \in W, ~IsTerminal(d)
      PROVE  e \in W
    <2>1. GoesBefore(d, e)
        BY <1>7 DEF GoesBefore
    <2>2. d \in C /\ d \in E /\ Cardinality(From(d, E)) <= limits.rows
          /\ BytesOf(From(d, C)) <= limits.bytes
        OBVIOUS
    <2>3. e \in C
        <3>1. From(e, E) \subseteq From(d, E)
            BY <2>1, <2>2, FromGrows
        <3>2. IsLog(From(d, E))
            BY <1>4, PartIsLog
        <3>3. /\ Cardinality(From(e, E)) \in Nat /\ Cardinality(From(d, E)) \in Nat
              /\ Cardinality(From(e, E)) <= Cardinality(From(d, E))
            BY <3>1, <3>2, PartIsLog
        <3>4. Cardinality(From(e, E)) <= limits.rows
            BY <1>3, <2>2, <3>3
        <3> QED
            BY <3>4
    <2>4. BytesOf(From(e, C)) <= limits.bytes
        <3> HIDE DEF C
        <3>1. From(e, C) \subseteq From(d, C)
            BY <1>2, <2>1, <2>2, <2>3, FromGrows
        <3>2. IsLog(From(d, C))
            BY <1>2, <1>4, PartIsLog
        <3>3. /\ BytesOf(From(e, C)) \in Nat /\ BytesOf(From(d, C)) \in Nat
              /\ BytesOf(From(e, C)) <= BytesOf(From(d, C))
            BY <3>1, <3>2, BytesGrow
        <3> QED
            BY <1>3, <2>2, <3>3
    <2> QED
        BY <2>3, <2>4
<1> QED
    BY <1>1, <1>2, <1>6, <1>7

-----------------------------------------------------------------------------
(* Appending *)

\* What is left of the scopes a row was added to.
Retains(E) ==
    /\ Fits(E, GlobalLimits)
    /\ \A d \in E : Fits(OfThread(d, E), ThreadLimits) /\ Fits(OfSession(d.session, E), SessionLimits)

\* The three limits are limits.
LEMMA LimitsAre == {ThreadLimits, SessionLimits, GlobalLimits} \subseteq Limits
BY LimitsAssumption DEF LimitsAssumption, Limits

\* With one more row of a larger sequence the activity is one as well.
LEMMA AddedIsLog ==
    ASSUME NEW E, IsLog(E), NEW e, e.seq \in Nat, e.bytes \in Nat, \A d \in E : d.seq < e.seq
    PROVE  IsLog(E \cup {e})
<1>1. IsFiniteSet(E \cup {e})
    BY FS_AddElement DEF IsLog
<1>2. \A d \in E : d.seq # e.seq
    BY DEF IsLog
<1> QED
    BY <1>1, <1>2 DEF IsLog

\* A row added: the activity stays within its bounds, and the proof that something
\* ended goes only where nothing but such proof is left.
LEMMA AppendedKeeps ==
    ASSUME NEW E, IsLog(E), Retains(E), NEW e, e.seq \in Nat, e.bytes \in Nat,
           \A d \in E : d.seq < e.seq
    PROVE  /\ Appended(e, E) \subseteq E \cup {e}
           /\ IsLog(Appended(e, E))
           /\ Retains(Appended(e, E))
           /\ \A d \in E \ Appended(e, E) : IsTerminal(d) =>
                 \E rest \in {OfThread(d, Appended(e, E)), OfSession(d.session, Appended(e, E)),
                              Appended(e, E)} :
                    \A x \in rest : IsTerminal(x)
<1> DEFINE A == E \cup {e}
           TA == OfThread(e, A)
           W1 == Within(TA, ThreadLimits)
           T1 == (A \ TA) \cup W1
           SA == OfSession(e.session, T1)
           W2 == Within(SA, SessionLimits)
           S1 == (T1 \ SA) \cup W2
           G == Within(S1, GlobalLimits)
<1>1. Appended(e, E) = G
    <2>1. Pruned(A, TA, ThreadLimits) = T1
        BY DEF Pruned
    <2>2. Pruned(T1, SA, SessionLimits) = S1
        BY DEF Pruned
    <2>3. Pruned(S1, S1, GlobalLimits) = G
        BY DEF Pruned
    <2>4. Appended(e, E) = Pruned(Pruned(T1, SA, SessionLimits), Pruned(T1, SA, SessionLimits), GlobalLimits)
        BY <2>1 DEF Appended
    <2> QED
        BY <2>2, <2>3, <2>4
<1>2. TA = {d \in A : d.session = e.session /\ d.thread = e.thread}
    BY DEF OfThread
<1>3. SA = {d \in T1 : d.session = e.session}
    BY DEF OfSession
<1>4. e \in A /\ E \subseteq A /\ \A d \in A : d = e \/ d \in E
    OBVIOUS
<1>5. T1 = (A \ TA) \cup W1 /\ S1 = (T1 \ SA) \cup W2
    OBVIOUS
<1>6. IsLog(A)
    BY AddedIsLog
<1> HIDE DEF A
<1>7. IsLog(TA)
    BY <1>2, <1>6, PartIsLog
<1> HIDE DEF TA
<1>8. W1 \subseteq TA /\ Fits(W1, ThreadLimits)
      /\ \A d \in TA \ W1 : IsTerminal(d) => \A x \in W1 : IsTerminal(x)
    BY <1>7, LimitsAre, WithinFits
<1> HIDE DEF W1
<1>9. T1 \subseteq A /\ IsLog(T1)
    BY <1>2, <1>5, <1>6, <1>8, PartIsLog
<1> HIDE DEF T1
<1>10. IsLog(SA)
    BY <1>3, <1>9, PartIsLog
<1> HIDE DEF SA
<1>11. W2 \subseteq SA /\ Fits(W2, SessionLimits)
       /\ \A d \in SA \ W2 : IsTerminal(d) => \A x \in W2 : IsTerminal(x)
    BY <1>10, LimitsAre, WithinFits
<1> HIDE DEF W2
<1>12. S1 \subseteq T1 /\ IsLog(S1)
    BY <1>3, <1>5, <1>9, <1>11, PartIsLog
<1> HIDE DEF S1
<1>13. G \subseteq S1 /\ Fits(G, GlobalLimits)
       /\ \A d \in S1 \ G : IsTerminal(d) => \A x \in G : IsTerminal(x)
    BY <1>12, LimitsAre, WithinFits
<1> HIDE DEF G
<1>14. G \subseteq A /\ IsLog(G)
    BY <1>6, <1>9, <1>12, <1>13, PartIsLog
<1>15. \A d \in A : (d.session = e.session /\ d.thread = e.thread) => OfThread(d, G) \subseteq W1
    <2> SUFFICES ASSUME NEW d \in A, d.session = e.session, d.thread = e.thread,
                        NEW x \in OfThread(d, G)
                 PROVE  x \in W1
        OBVIOUS
    <2>1. x \in G /\ x.session = e.session /\ x.thread = e.thread
        BY DEF OfThread
    <2>2. x \in T1 /\ x \in A
        BY <2>1, <1>9, <1>12, <1>13
    <2> QED
        BY <1>2, <1>5, <2>1, <2>2
<1>16. OfSession(e.session, G) \subseteq W2
    <2> SUFFICES ASSUME NEW x \in OfSession(e.session, G)
                 PROVE  x \in W2
        OBVIOUS
    <2>1. x \in G /\ x.session = e.session
        BY DEF OfSession
    <2>2. x \in S1 /\ x \in T1
        BY <2>1, <1>12, <1>13
    <2> QED
        BY <1>3, <1>5, <2>1, <2>2
<1>17. IsLog(W1) /\ IsLog(W2)
    BY <1>7, <1>8, <1>10, <1>11, PartIsLog
<1>18. ASSUME NEW d \in G
       PROVE  Fits(OfThread(d, G), ThreadLimits)
    <2>1. CASE d.session = e.session /\ d.thread = e.thread
        <3>1. OfThread(d, G) \subseteq W1
            BY <1>14, <1>15, <2>1
        <3> QED
            BY <1>8, <1>17, <3>1, LimitsAre, PartFits
    <2>2. CASE ~(d.session = e.session /\ d.thread = e.thread)
        <3>1. d \in E
            BY <1>4, <1>14, <2>2
        <3>2. OfThread(d, G) \subseteq OfThread(d, E)
            BY <1>4, <1>14, <2>2 DEF OfThread
        <3>3. OfThread(d, E) \subseteq E
            BY DEF OfThread
        <3>4. IsLog(OfThread(d, E)) /\ Fits(OfThread(d, E), ThreadLimits)
            BY <3>1, <3>3, PartIsLog DEF Retains
        <3> QED
            BY <3>2, <3>4, LimitsAre, PartFits
    <2> QED
        BY <2>1, <2>2
<1>19. ASSUME NEW d \in G
       PROVE  Fits(OfSession(d.session, G), SessionLimits)
    <2>1. CASE d.session = e.session
        BY <1>11, <1>16, <1>17, <2>1, LimitsAre, PartFits
    <2>2. CASE d.session # e.session
        <3>1. d \in E
            BY <1>4, <1>14, <2>2
        <3>2. OfSession(d.session, G) \subseteq OfSession(d.session, E)
            BY <1>4, <1>14, <2>2 DEF OfSession
        <3>3. OfSession(d.session, E) \subseteq E
            BY DEF OfSession
        <3>4. IsLog(OfSession(d.session, E)) /\ Fits(OfSession(d.session, E), SessionLimits)
            BY <3>1, <3>3, PartIsLog DEF Retains
        <3> QED
            BY <3>2, <3>4, LimitsAre, PartFits
    <2> QED
        BY <2>1, <2>2
<1>20. Retains(G)
    BY <1>13, <1>18, <1>19 DEF Retains
<1>21. ASSUME NEW d \in E \ G, IsTerminal(d)
       PROVE  \E rest \in {OfThread(d, G), OfSession(d.session, G), G} : \A x \in rest : IsTerminal(x)
    <2>0. d \in A
        BY <1>4
    <2>1. CASE d \in TA \ W1
        <3>1. OfThread(d, G) \subseteq W1
            BY <1>2, <1>15, <2>1
        <3>2. \A x \in OfThread(d, G) : IsTerminal(x)
            BY <1>8, <1>21, <2>1, <3>1
        <3> QED
            BY <3>2
    <2>2. CASE d \in SA \ W2
        <3>1. OfSession(d.session, G) \subseteq W2
            BY <1>3, <1>16, <2>2
        <3>2. \A x \in OfSession(d.session, G) : IsTerminal(x)
            BY <1>11, <1>21, <2>2, <3>1
        <3> QED
            BY <3>2
    <2>3. CASE d \in S1 \ G
        BY <1>13, <1>21, <2>3
    <2> QED
        BY <1>5, <2>0, <2>1, <2>2, <2>3
<1> QED
    BY <1>1, <1>4, <1>14, <1>20, <1>21 DEF A

-----------------------------------------------------------------------------
(* What the variables hold *)

Places == {"idle", "reserved", "binding", "restoring", "ready", "started", "running"}
Message == [turn : Turns, role : {"user", "assistant"}]
CodexTurn == [turn : Turns, answered : BOOLEAN]
Rows == [exists : BOOLEAN, model : Models, account : Accounts, bound : BOOLEAN]
Engines == [turn : Turns \cup {NoTurn}, at : Places, restore : Seq(CodexTurn), resumed : BOOLEAN,
            projections : SUBSET Turns, mine : SUBSET Turns]
AReceipt == [state : ReceiptStates, status : Statuses, anchor : Nat]

Types ==
    /\ scenario \in Scenarios
    /\ row \in Rows
    /\ lastSeq \in Nat /\ appends \in Nat /\ process \in Nat
    /\ messages \in Seq(Message)
    /\ receipts \in [Turns -> {NoReceipt} \cup AReceipt]
    /\ codex \in Seq(CodexTurn) /\ Len(codex) <= Cardinality(Turns)
    /\ engine \in Engines
    /\ DOMAIN callers = Callers /\ \A c \in Callers : callers[c].model \in Models

\* The turns of the root thread are numbered.
LEMMA TurnOrderIs ==
    /\ Cardinality(Turns) \in Nat
    /\ TurnOrder \in [1 .. Cardinality(Turns) -> Turns]
    /\ \A i, j \in 1 .. Cardinality(Turns) : TurnOrder[i] = TurnOrder[j] => i = j
<1> DEFINE n == Cardinality(Turns)
<1>1. n \in Nat
    BY StoreAssumption, FS_CardinalityType DEF StoreAssumption
<1>2. Cardinality(1 .. n) = n /\ IsFiniteSet(1 .. n)
    BY <1>1, FS_Interval
<1> HIDE DEF n
<1>3. ExistsBijection(1 .. n, Turns)
    BY <1>2, StoreAssumption, FS_SameCardinalityBij DEF StoreAssumption, n
<1>4. \E f \in [1 .. n -> Turns] : IsInjective(f)
    BY <1>3 DEF ExistsBijection, Bijection, Injection
<1>5. TurnOrder \in [1 .. n -> Turns] /\ IsInjective(TurnOrder)
    BY <1>4 DEF TurnOrder, SetToSeq, n
<1> QED
    BY <1>1, <1>5 DEF IsInjective, n

\* The bounds of a scenario.
LEMMA ScenarioIs ==
    ASSUME scenario \in Scenarios
    PROVE  scenario.turns \in Nat /\ scenario.turns <= Cardinality(Turns)
BY ScenarioAssumption, TurnOrderIs DEF ScenarioAssumption

\* The variables hold it at first.
LEMMA TypesAtFirst ==
    ASSUME Init
    PROVE  Types
<1>1. (CHOOSE m \in Models : TRUE) \in Models
    BY StoreAssumption DEF StoreAssumption
<1>2. row \in Rows
    BY <1>1 DEF Init, Rows, Accounts, Primary, NoAccount
<1>3. engine \in Engines
    BY DEF Init, IdleEngine, Engines, Places
<1>4. DOMAIN callers = Callers /\ \A c \in Callers : callers[c].model \in Models
    BY <1>1 DEF Init, IdleCaller
<1>5. scenario \in Scenarios /\ lastSeq \in Nat /\ appends \in Nat /\ process \in Nat
      /\ messages = <<>> /\ codex = <<>> /\ receipts \in [Turns -> {NoReceipt}]
    BY DEF Init
<1>6. Len(codex) <= Cardinality(Turns) /\ messages \in Seq(Message) /\ codex \in Seq(CodexTurn)
    BY <1>5, TurnOrderIs
<1> QED
    BY <1>2, <1>3, <1>4, <1>5, <1>6 DEF Types

\* The rows that are written of a turn.
LEMMA RowsAre ==
    /\ \A t \in Turns : UserRow(t) \in Message /\ AnswerRow(t) \in Message
    /\ \A t : UserRow(t).turn = t /\ AnswerRow(t).turn = t /\ UserRow(t) # AnswerRow(t)
    /\ \A t, u : UserRow(t) # AnswerRow(u)
BY DEF UserRow, AnswerRow, Message

\* A turn is restored as the row of the user, and the answer if there is one.
LEMMA RestoredRows ==
    ASSUME NEW t \in CodexTurn
    PROVE  /\ RowsOf(t) \in Seq(Message)
           /\ \/ RowsOf(t) = <<UserRow(t.turn)>>
              \/ RowsOf(t) = <<UserRow(t.turn), AnswerRow(t.turn)>>
<1>1. t.turn \in Turns
    BY DEF CodexTurn
<1> DEFINE u == UserRow(t.turn)
           a == AnswerRow(t.turn)
<1>2. u \in Message /\ a \in Message
    BY <1>1, RowsAre
<1>3. RowsOf(t) = <<u>> \o <<a>> \/ RowsOf(t) = <<u>> \o <<>>
    BY DEF RowsOf
<1> HIDE DEF u, a
<1>4. <<u>> \o <<a>> = <<u, a>> /\ <<u>> \o <<>> = <<u>>
    <2>1. <<u>> \in Seq(Message) /\ <<a>> \in Seq(Message) /\ Len(<<u>>) = 1 /\ Len(<<a>>) = 1
        BY <1>2
    <2> DEFINE x == <<u>> \o <<a>>
    <2>2. x \in Seq(Message) /\ Len(x) = 2 /\ x[1] = u /\ x[2] = a
        BY <2>1
    <2>3. <<u, a>> \in Seq(Message) /\ Len(<<u, a>>) = 2 /\ <<u, a>>[1] = u /\ <<u, a>>[2] = a
        BY <1>2
    <2>4. \A i \in 1 .. 2 : i = 1 \/ i = 2
        OBVIOUS
    <2> HIDE DEF x
    <2>5. x = <<u, a>>
        BY <2>2, <2>3, <2>4, SeqEqual
    <2>6. <<u>> \o <<>> = <<u>>
        BY <2>1, ConcatEmptySeq
    <2> QED
        BY <2>5, <2>6 DEF x
<1>5. <<u>> \in Seq(Message) /\ <<u, a>> \in Seq(Message)
    BY <1>2
<1> QED
    BY <1>3, <1>4, <1>5 DEF u, a

\* The end of a turn adds its answer, if it has a projection and an answer.
LEMMA AnswerRows ==
    ASSUME Types, NEW i \in DOMAIN codex
    PROVE  /\ codex[i] \in CodexTurn /\ codex[i].turn \in Turns
           /\ AnswerOf(i) \in Seq(Message)
           /\ \/ AnswerOf(i) = <<>>
              \/ /\ codex[i].turn \in engine.projections
                 /\ AnswerOf(i) = <<AnswerRow(codex[i].turn)>>
<1>1. codex[i] \in CodexTurn
    BY DEF Types
<1>2. codex[i].turn \in Turns
    BY <1>1 DEF CodexTurn
<1> DEFINE a == AnswerRow(codex[i].turn)
<1>3. a \in Message
    BY <1>2, RowsAre
<1>4. AnswerOf(i) = <<>> \/ (codex[i].turn \in engine.projections
                             /\ AnswerOf(i) = <<AnswerRow(codex[i].turn)>>)
    BY DEF AnswerOf
<1> HIDE DEF a
<1>5. <<a>> \in Seq(Message) /\ <<>> \in Seq(Message)
    BY <1>3
<1> QED
    BY <1>1, <1>2, <1>4, <1>5 DEF a

\* Every case of Next, by the action.
Acts ==
    \/ \E thread \in Threads, kind \in TerminalKinds \cup {"progress"}, bytes \in 1 .. MaxBytes :
          Record(thread, kind, bytes)
    \/ Reserve \/ LoadSession \/ BindThread \/ RestoreTurn \/ RestoreEnds
    \/ CodexStarts \/ Activate \/ CodexAnswers \/ ServerLost \/ Kill
    \/ \E i \in DOMAIN codex : Terminal(i)
    \/ \E t \in Turns, state \in ReceiptStates : WriteReceipt(t, state)
    \/ \E c \in Callers, model \in Models, purpose \in {"update", "select"} : ReadConfig(c, model, purpose)
    \/ \E c \in Callers : UpdateModel(c)
    \/ \E c \in Callers : SelectAccount(c)
    \/ ReadPage \/ CheckInactive \/ DeleteRuns
    \/ UNCHANGED vars

\* Next and stuttering have no other cases.
LEMMA NextActs ==
    ASSUME [Next]_vars
    PROVE  Acts
BY DEF Next, Acts, Finished

\* A row of activity that is new.
IsNew(e) ==
    /\ e.seq = lastSeq + 1 /\ e.bytes \in 1 .. MaxBytes
    /\ e.thread \in Threads /\ e.session = SessionOf(e.thread)

\* What a step does to the activity ...
EventStep ==
    \/ \E e : /\ IsNew(e) /\ events' = Appended(e, events) /\ lastSeq' = e.seq
              /\ shown' = shown \cup {<<e.seq, e.id>>}
    \/ UNCHANGED <<events, lastSeq, shown>>
    \/ events' = events \ OfSession(Chat, events) /\ UNCHANGED <<lastSeq, shown, appends>>

\* ... and to the messages.
MessageStep ==
    \/ UNCHANGED messages
    \/ messages' = <<>> /\ DeleteRuns
    \/ \E t \in CodexTurn : /\ engine.at = "restoring" /\ engine.restore # <<>>
                            /\ t = Head(engine.restore) /\ ~HasMessages(t.turn)
                            /\ messages' = messages \o RowsOf(t)
                            /\ engine' = [engine EXCEPT !.restore = Tail(@)]
    \/ /\ engine.at = "started" /\ messages' = Append(messages, UserRow(engine.turn))
       /\ engine' = [engine EXCEPT !.at = "running", !.projections = @ \cup {engine.turn},
                                   !.mine = @ \cup {engine.turn}]
    \/ \E i \in DOMAIN codex : /\ messages' = messages \o AnswerOf(i)
                               /\ engine' = EngineAfter(codex[i].turn, ProjectionGoes(codex[i].turn))

\* A row that is made for the next sequence is new ...
LEMMA NewIsNew ==
    ASSUME NEW thread \in Threads, NEW kind, NEW turn, NEW bytes \in 1 .. MaxBytes
    PROVE  IsNew(NewEvent(thread, kind, turn, bytes))
BY DEF IsNew, NewEvent, NextSeq

\* ... also one of the engine itself.
LEMMA NewOfRoot ==
    ASSUME NEW kind, NEW turn
    PROVE  IsNew(NewEvent(Root, kind, turn, 1))
<1>1. 1 \in 1 .. MaxBytes
    BY StoreAssumption DEF StoreAssumption
<1>2. Root \in Threads
    BY DEF Threads
<1> QED
    BY <1>1, <1>2, NewIsNew

\* A commit adds one new row.
LEMMA CommitsEvent ==
    ASSUME NEW e, IsNew(e), NEW new, Commit(e, new)
    PROVE  EventStep
BY DEF Commit, EventStep

\* Every step does one of these things to the activity.
LEMMA ActsOnEvents ==
    ASSUME Acts
    PROVE  EventStep
<1>1. ASSUME NEW thread \in Threads, NEW kind, NEW bytes \in 1 .. MaxBytes, Record(thread, kind, bytes)
      PROVE  EventStep
    <2>1. CASE Commit(NewEvent(thread, kind, NoTurn, bytes), <<>>)
        BY <2>1, NewIsNew, CommitsEvent
    <2>2. CASE Rollback
        BY <2>2 DEF Rollback, EventStep
    <2> QED
        BY <1>1, <2>1, <2>2 DEF Record
<1>2. CASE RestoreTurn
    <2>1. CASE Commit(NewEvent(Root, "thread/resume/history", Head(engine.restore).turn, 1),
                      RowsOf(Head(engine.restore)))
        BY <2>1, NewOfRoot, CommitsEvent
    <2>2. CASE Rollback
        BY <2>2 DEF Rollback, EventStep
    <2> QED
        BY <1>2, <2>1, <2>2 DEF RestoreTurn, EventStep
<1>3. ASSUME NEW i \in DOMAIN codex, Terminal(i)
      PROVE  EventStep
    <2>1. CASE Commit(NewEvent(Root, "turn/completed", codex[i].turn, 1), AnswerOf(i))
        BY <2>1, NewOfRoot, CommitsEvent
    <2>2. CASE Commit(NewEvent(Root, "portcode/codexBridge/terminalPersistenceFailed", codex[i].turn, 1),
                      <<>>)
        BY <2>2, NewOfRoot, CommitsEvent
    <2>3. CASE Rollback
        BY <2>3 DEF Rollback, EventStep
    <2> QED
        BY <1>3, <2>1, <2>2, <2>3 DEF Terminal
<1>4. CASE DeleteRuns
    BY <1>4 DEF DeleteRuns, EventStep
<1>5. CASE \/ Reserve \/ LoadSession \/ BindThread \/ RestoreEnds \/ CodexStarts \/ Activate
           \/ CodexAnswers \/ ServerLost \/ Kill \/ ReadPage \/ CheckInactive \/ UNCHANGED vars
    BY <1>5 DEF EventStep, Reserve, LoadSession, BindThread, RestoreEnds, CodexStarts, Activate,
                CodexAnswers, ServerLost, Kill, ReadPage, CheckInactive, vars, tables
<1>6. ASSUME NEW t, NEW state, WriteReceipt(t, state)
      PROVE  EventStep
    BY <1>6 DEF EventStep, WriteReceipt
<1>7. ASSUME NEW c, \/ \E model, purpose : ReadConfig(c, model, purpose)
                    \/ UpdateModel(c) \/ SelectAccount(c)
      PROVE  EventStep
    BY <1>7 DEF EventStep, ReadConfig, UpdateModel, SelectAccount, CallerDone, CallerMoves
<1> QED
    BY <1>1, <1>2, <1>3, <1>4, <1>5, <1>6, <1>7 DEF Acts

\* Every step does one of these things to the messages.
LEMMA ActsOnMessages ==
    ASSUME Types, Acts
    PROVE  MessageStep
<1>0. messages \in Seq(Message)
    BY DEF Types
<1>1. ASSUME NEW thread, NEW kind, NEW bytes, Record(thread, kind, bytes)
      PROVE  MessageStep
    <2>1. messages' = messages \o <<>> \/ messages' = messages
        BY <1>1 DEF Record, Commit, Rollback
    <2> QED
        BY <1>0, <2>1, ConcatEmptySeq DEF MessageStep
<1>2. CASE RestoreTurn
    <2>1. CASE UNCHANGED messages
        BY <2>1 DEF MessageStep
    <2>2. CASE ~UNCHANGED messages
        <3>1. Head(engine.restore) \in CodexTurn
            <4>1. engine.restore \in Seq(CodexTurn) /\ engine.restore # <<>>
                BY <1>2 DEF Types, Engines, RestoreTurn
            <4> HIDE DEF CodexTurn
            <4> QED
                BY <4>1
        <3> HIDE DEF CodexTurn
        <3> QED
            BY <1>2, <2>2, <3>1 DEF RestoreTurn, Commit, Rollback, MessageStep, At, IsRestored
    <2> QED
        BY <2>1, <2>2
<1>3. ASSUME NEW i \in DOMAIN codex, Terminal(i)
      PROVE  MessageStep
    <2>1. \/ messages' = messages
          \/ messages' = messages \o <<>>
          \/ messages' = messages \o AnswerOf(i)
             /\ engine' = EngineAfter(codex[i].turn, ProjectionGoes(codex[i].turn))
        BY <1>3 DEF Terminal, Commit, Rollback
    <2> QED
        BY <1>0, <2>1, ConcatEmptySeq DEF MessageStep
<1>4. CASE DeleteRuns
    BY <1>4 DEF DeleteRuns, MessageStep
<1>5. CASE Activate
    BY <1>5 DEF Activate, MessageStep, At
<1>6. CASE \/ Reserve \/ LoadSession \/ BindThread \/ RestoreEnds \/ CodexStarts
           \/ CodexAnswers \/ ServerLost \/ Kill \/ ReadPage \/ CheckInactive \/ UNCHANGED vars
    BY <1>6 DEF MessageStep, Reserve, LoadSession, BindThread, RestoreEnds, CodexStarts,
                CodexAnswers, ServerLost, Kill, ReadPage, CheckInactive, vars, tables
<1>7. ASSUME NEW t, NEW state, WriteReceipt(t, state)
      PROVE  MessageStep
    BY <1>7 DEF MessageStep, WriteReceipt
<1>8. ASSUME NEW c, \/ \E model, purpose : ReadConfig(c, model, purpose)
                    \/ UpdateModel(c) \/ SelectAccount(c)
      PROVE  MessageStep
    BY <1>8 DEF MessageStep, ReadConfig, UpdateModel, SelectAccount, CallerDone, CallerMoves
<1> QED
    BY <1>1, <1>2, <1>3, <1>4, <1>5, <1>6, <1>7, <1>8 DEF Acts

-----------------------------------------------------------------------------
(* Where the engine stands *)

\* The turns Codex remembers are the first of the root thread.  The one being
\* started is the next, and nothing is known of it until Codex has it.  A thread
\* that is not resumed has no projections; it is restored before it is.
Stands ==
    /\ \A i \in DOMAIN codex : codex[i].turn = TurnOrder[i]
    /\ engine.at \in {"reserved", "binding", "restoring", "ready"} =>
          Len(codex) < Cardinality(Turns) /\ engine.turn = TurnOrder[Len(codex) + 1]
    /\ engine.at \in {"started", "running"} => Len(codex) # 0 /\ engine.turn = TurnOrder[Len(codex)]
    /\ engine.at \in {"ready", "started", "running"} => engine.resumed
    /\ engine.at = "restoring" => ~engine.resumed
    /\ engine.at = "started" => engine.turn \notin engine.mine
    /\ ~engine.resumed => engine.projections = {}
    /\ engine.projections \subseteq engine.mine
    /\ \A t \in engine.mine : \E i \in DOMAIN codex : codex[i].turn = t
    /\ \A k \in DOMAIN engine.restore : \E i \in DOMAIN codex : codex[i].turn = engine.restore[k].turn

\* The turn that is started has a number.
LEMMA StartedIsTurn ==
    ASSUME Types, Stands
    PROVE  /\ engine.at \in {"started", "running"} => engine.turn \in Turns
           /\ engine.at \in {"reserved", "binding", "restoring", "ready"} => engine.turn \in Turns
<1>1. Len(codex) \in Nat /\ Len(codex) <= Cardinality(Turns) /\ Cardinality(Turns) \in Nat
    BY TurnOrderIs DEF Types
<1>2. CASE engine.at \in {"started", "running"}
    <2>1. Len(codex) \in 1 .. Cardinality(Turns) /\ engine.turn = TurnOrder[Len(codex)]
        BY <1>1, <1>2 DEF Stands
    <2> QED
        BY <1>2, <2>1, TurnOrderIs
<1>3. CASE engine.at \in {"reserved", "binding", "restoring", "ready"}
    <2>1. Len(codex) + 1 \in 1 .. Cardinality(Turns) /\ engine.turn = TurnOrder[Len(codex) + 1]
        BY <1>1, <1>3 DEF Stands
    <2> QED
        BY <1>3, <2>1, TurnOrderIs
<1> QED
    BY <1>2, <1>3

\* The messages stay messages.
LEMMA MessagesStayTyped ==
    ASSUME Types, Stands, MessageStep
    PROVE  messages' \in Seq(Message)
<1>1. messages \in Seq(Message) /\ engine.turn \in Turns \cup {NoTurn}
    BY DEF Types, Engines
<1>2. CASE messages' = <<>> \/ UNCHANGED messages
    BY <1>1, <1>2, EmptySeq
<1>3. ASSUME NEW t \in CodexTurn, messages' = messages \o RowsOf(t)
      PROVE  messages' \in Seq(Message)
    BY <1>1, <1>3, RestoredRows, ConcatProperties
<1>4. CASE /\ engine.at = "started" /\ messages' = Append(messages, UserRow(engine.turn))
           /\ engine.turn \in Turns
    <2>1. UserRow(engine.turn) \in Message
        BY <1>4, RowsAre
    <2> HIDE DEF Message
    <2> QED
        BY <1>1, <1>4, <2>1, AppendProperties
<1>5. ASSUME NEW i \in DOMAIN codex, messages' = messages \o AnswerOf(i)
      PROVE  messages' \in Seq(Message)
    BY <1>1, <1>5, AnswerRows, ConcatProperties
<1> QED
    BY <1>2, <1>3, <1>4, <1>5, StartedIsTurn DEF MessageStep

\* A commit or a failure counts.
LEMMA Counted ==
    ASSUME Types, Acts
    PROVE  lastSeq' \in Nat /\ appends' \in Nat /\ process' \in Nat
<1>1. lastSeq' \in Nat
    <2>1. ASSUME NEW e, IsNew(e), lastSeq' = e.seq
          PROVE  lastSeq' \in Nat
        BY <2>1 DEF Types, IsNew
    <2> QED
        BY <2>1, ActsOnEvents DEF EventStep, Types
<1>2. appends' \in {appends, appends + 1} /\ process' \in {process, process + 1}
    <2>1. ASSUME NEW thread, NEW kind, NEW bytes, Record(thread, kind, bytes)
          PROVE  appends' \in {appends, appends + 1} /\ process' \in {process, process + 1}
        BY <2>1 DEF Record, Commit, Rollback
    <2>2. CASE RestoreTurn
        BY <2>2 DEF RestoreTurn, Commit, Rollback
    <2>3. ASSUME NEW i, Terminal(i)
          PROVE  appends' \in {appends, appends + 1} /\ process' \in {process, process + 1}
        BY <2>3 DEF Terminal, Commit, Rollback
    <2>4. CASE \/ Reserve \/ LoadSession \/ BindThread \/ RestoreEnds \/ CodexStarts \/ Activate
               \/ CodexAnswers \/ ServerLost \/ Kill \/ ReadPage \/ CheckInactive \/ DeleteRuns
               \/ UNCHANGED vars
        BY <2>4 DEF Reserve, LoadSession, BindThread, RestoreEnds, CodexStarts, Activate,
                    CodexAnswers, ServerLost, Kill, ReadPage, CheckInactive, DeleteRuns, vars, tables
    <2>5. ASSUME NEW t, NEW state, WriteReceipt(t, state)
          PROVE  appends' \in {appends, appends + 1} /\ process' \in {process, process + 1}
        BY <2>5 DEF WriteReceipt
    <2>6. ASSUME NEW c, \/ \E model, purpose : ReadConfig(c, model, purpose)
                        \/ UpdateModel(c) \/ SelectAccount(c)
          PROVE  appends' \in {appends, appends + 1} /\ process' \in {process, process + 1}
        BY <2>6 DEF ReadConfig, UpdateModel, SelectAccount, CallerDone, CallerMoves
    <2> QED
        BY <2>1, <2>2, <2>3, <2>4, <2>5, <2>6 DEF Acts
<1> QED
    BY <1>1, <1>2 DEF Types

\* The session's row and the commands on it
LEMMA RowStays ==
    ASSUME Types, Acts
    PROVE  /\ row' \in Rows
           /\ DOMAIN callers' = Callers /\ \A c \in Callers : callers'[c].model \in Models
           /\ row'.account # row.account => row.account = NoAccount \/ ~HasStarted
<1>0. /\ row \in Rows
      /\ DOMAIN callers = Callers /\ \A c \in Callers : callers[c].model \in Models
    BY DEF Types
<1>1. ASSUME UNCHANGED <<row, callers>>
      PROVE  /\ row' \in Rows
             /\ DOMAIN callers' = Callers /\ \A c \in Callers : callers'[c].model \in Models
             /\ row'.account = row.account
    BY <1>0, <1>1
<1>2. CASE BindThread
    BY <1>0, <1>2 DEF BindThread, Rows
<1>3. CASE DeleteRuns
    <2>1. PICK n \in 0 .. Len(Statements) :
             row' = [row EXCEPT !.exists = @ /\ "sessions" \notin Range(SubSeq(Statements, 1, n))]
        BY <1>3 DEF DeleteRuns
    <2>2. callers' = callers
        BY <1>3 DEF DeleteRuns
    <2>3. (row.exists /\ "sessions" \notin Range(SubSeq(Statements, 1, n))) \in BOOLEAN
        OBVIOUS
    <2> QED
        BY <1>0, <2>1, <2>2, <2>3 DEF Rows
<1>4. CASE Kill
    <2>1. (CHOOSE m \in Models : TRUE) \in Models
        BY StoreAssumption DEF StoreAssumption
    <2> QED
        BY <1>0, <1>4, <2>1 DEF Kill, IdleCaller
<1>5. ASSUME NEW c \in Callers, NEW model \in Models, NEW purpose, ReadConfig(c, model, purpose)
      PROVE  /\ row' \in Rows
             /\ DOMAIN callers' = Callers /\ \A d \in Callers : callers'[d].model \in Models
             /\ row'.account = row.account
    <2>1. callers' = [callers EXCEPT ![c] = [at |-> purpose, read |-> Config, model |-> model]]
          /\ row' = row
        BY <1>5 DEF ReadConfig, CallerMoves
    <2> QED
        BY <1>0, <2>1
<1>6. ASSUME NEW c \in Callers, CallerDone(c)
      PROVE  DOMAIN callers' = Callers /\ \A d \in Callers : callers'[d].model \in Models
    <2>1. callers' = [callers EXCEPT ![c] = [callers[c] EXCEPT !.at = "done"]]
        BY <1>6 DEF CallerDone, CallerMoves
    <2>2. [callers[c] EXCEPT !.at = "done"].model = callers[c].model
        OBVIOUS
    <2> QED
        BY <1>0, <2>1, <2>2
<1>7. ASSUME NEW c \in Callers, UpdateModel(c)
      PROVE  row' \in Rows /\ row'.account = row.account /\ CallerDone(c)
    BY <1>0, <1>7 DEF UpdateModel, Rows
<1>8. ASSUME NEW c \in Callers, SelectAccount(c)
      PROVE  /\ row' \in Rows /\ CallerDone(c)
             /\ row'.account # row.account => row.account = NoAccount \/ ~HasStarted
    BY <1>0, <1>8 DEF SelectAccount, Rows, Accounts
<1>9. ASSUME NEW thread, NEW kind, NEW bytes, Record(thread, kind, bytes)
      PROVE  UNCHANGED <<row, callers>>
    BY <1>9 DEF Record
<1>10. ASSUME \/ Reserve \/ LoadSession \/ RestoreTurn \/ RestoreEnds \/ CodexStarts \/ Activate
              \/ CodexAnswers \/ ServerLost \/ ReadPage \/ CheckInactive \/ UNCHANGED vars
       PROVE  UNCHANGED <<row, callers>>
    BY <1>10 DEF Reserve, LoadSession, RestoreTurn, RestoreEnds, CodexStarts, Activate, CodexAnswers,
                 ServerLost, ReadPage, CheckInactive, vars, tables
<1>11. ASSUME NEW i, Terminal(i)
       PROVE  UNCHANGED <<row, callers>>
    BY <1>11 DEF Terminal
<1>12. ASSUME NEW t, NEW state, WriteReceipt(t, state)
       PROVE  UNCHANGED <<row, callers>>
    BY <1>12 DEF WriteReceipt
<1> QED
    BY <1>1, <1>2, <1>3, <1>4, <1>5, <1>6, <1>7, <1>8, <1>9, <1>10, <1>11, <1>12 DEF Acts

-----------------------------------------------------------------------------
(* Receipts *)

\* What a step makes of the receipt r of a turn.
Advanced(r, new) ==
    \/ new = r
    \/ new = NoReceipt
    \/ process' # process /\ new = Recovered(r)
    \/ \E state \in ReceiptStates, status \in Statuses :
          new = Written(r, NewReceipt(state, status, Len(messages)))

\* Every step advances receipts, a restart all of them; only writes make new ones.
LEMMA ReceiptSteps ==
    ASSUME Types, Acts
    PROVE  /\ receipts' = [u \in Turns |-> receipts'[u]]
           /\ \A t \in Turns : Advanced(receipts[t], receipts'[t])
           /\ process' # process => \A t \in Turns : receipts'[t] = Recovered(receipts[t])
           /\ May("receipts") \/ \A t \in Turns : receipts[t] = NoReceipt => receipts'[t] = NoReceipt
<1>0. receipts \in [Turns -> {NoReceipt} \cup AReceipt] /\ process \in Nat
    BY DEF Types
<1>1. ASSUME receipts' = receipts, process' = process
      PROVE  /\ receipts' = [u \in Turns |-> receipts'[u]]
             /\ \A t \in Turns : Advanced(receipts[t], receipts'[t])
             /\ process' = process
             /\ \A t \in Turns : receipts[t] = NoReceipt => receipts'[t] = NoReceipt
    BY <1>0, <1>1 DEF Advanced
<1>2. CASE Kill
    <2>1. receipts' = [t \in Turns |-> Recovered(receipts[t])] /\ process' = process + 1
        BY <1>2 DEF Kill
    <2>2. process' # process
        BY <1>0, <2>1
    <2>3. \A t \in Turns : Advanced(receipts[t], receipts'[t]) /\ receipts'[t] = Recovered(receipts[t])
        BY <2>1, <2>2 DEF Advanced
    <2>4. Recovered(NoReceipt) = NoReceipt
        BY DEF Recovered, NoReceipt
    <2> QED
        BY <2>1, <2>3, <2>4
<1>3. CASE DeleteRuns
    <2>1. receipts' = [t \in Turns |-> NoReceipt] \/ receipts' = receipts
        BY <1>3 DEF DeleteRuns
    <2>2. process' = process
        BY <1>3 DEF DeleteRuns
    <2> QED
        BY <1>0, <2>1, <2>2 DEF Advanced
<1>4. ASSUME NEW t \in Turns, NEW state \in ReceiptStates, WriteReceipt(t, state)
      PROVE  /\ receipts' = [u \in Turns |-> receipts'[u]]
             /\ \A u \in Turns : Advanced(receipts[u], receipts'[u])
             /\ process' = process /\ May("receipts")
    <2>1. PICK status \in Statuses :
             receipts' = [receipts EXCEPT ![t] = Written(@, NewReceipt(state, status, Len(messages)))]
        <3>1. (IF state = "pending" THEN "interrupted" ELSE Outcome(t)) \in Statuses
            BY DEF Outcome, Statuses
        <3> QED
            BY <1>4, <3>1 DEF WriteReceipt
    <2>2. ASSUME NEW u \in Turns
          PROVE  Advanced(receipts[u], receipts'[u])
        <3>1. CASE u = t
            <4>1. receipts'[u] = Written(receipts[u], NewReceipt(state, status, Len(messages)))
                BY <1>0, <2>1, <3>1
            <4> QED
                BY <4>1 DEF Advanced
        <3>2. CASE u # t
            <4>1. receipts'[u] = receipts[u]
                BY <1>0, <2>1, <3>2
            <4> QED
                BY <4>1 DEF Advanced
        <3> QED
            BY <3>1, <3>2
    <2>3. receipts' = [u \in Turns |-> receipts'[u]]
        BY <1>0, <2>1
    <2> QED
        BY <1>4, <2>2, <2>3 DEF WriteReceipt
<1>5. ASSUME NEW thread, NEW kind, NEW bytes, Record(thread, kind, bytes)
      PROVE  receipts' = receipts /\ process' = process
    BY <1>5 DEF Record
<1>6. ASSUME \/ Reserve \/ LoadSession \/ BindThread \/ RestoreTurn \/ RestoreEnds \/ CodexStarts
             \/ Activate \/ CodexAnswers \/ ServerLost \/ ReadPage \/ CheckInactive \/ UNCHANGED vars
      PROVE  receipts' = receipts /\ process' = process
    BY <1>6 DEF Reserve, LoadSession, BindThread, RestoreTurn, RestoreEnds, CodexStarts, Activate,
                CodexAnswers, ServerLost, ReadPage, CheckInactive, vars, tables
<1>7. ASSUME NEW i, Terminal(i)
      PROVE  receipts' = receipts /\ process' = process
    BY <1>7 DEF Terminal
<1>8. ASSUME NEW c, \/ \E model, purpose : ReadConfig(c, model, purpose)
                    \/ UpdateModel(c) \/ SelectAccount(c)
      PROVE  receipts' = receipts /\ process' = process
    BY <1>8 DEF ReadConfig, UpdateModel, SelectAccount, CallerDone, CallerMoves
<1> QED
    BY <1>1, <1>2, <1>3, <1>4, <1>5, <1>6, <1>7, <1>8 DEF Acts

\* A receipt that advanced is one, with the anchor it had or the number of messages.
LEMMA AdvancedIsReceipt ==
    ASSUME Types, NEW r \in {NoReceipt} \cup AReceipt, NEW new, Advanced(r, new)
    PROVE  /\ new \in {NoReceipt} \cup AReceipt
           /\ new # NoReceipt => new.anchor = Len(messages) \/ (r # NoReceipt /\ new.anchor = r.anchor)
           /\ (r # NoReceipt /\ new # NoReceipt /\ new # r) =>
                 /\ r.state # "terminal"
                 /\ r.state = "known" => new.state # "pending"
                 /\ new.anchor = r.anchor
<1>0. Len(messages) \in Nat
    BY DEF Types
<1>1. r = NoReceipt \/ r \in AReceipt
    OBVIOUS
<1>2. NoReceipt.state = "none" /\ \A a \in AReceipt : a.state \in ReceiptStates /\ a # NoReceipt
    BY DEF NoReceipt, AReceipt, ReceiptStates
<1>3. CASE new = r
    BY <1>2, <1>3
<1>4. CASE new = NoReceipt
    BY <1>4
<1>5. CASE new = Recovered(r)
    <2>1. CASE r = NoReceipt \/ r.state = "terminal"
        <3>1. new = r
            BY <1>2, <1>5, <2>1 DEF Recovered
        <3> QED
            BY <1>3, <3>1
    <2>2. CASE r \in AReceipt /\ r.state # "terminal"
        <3>1. r.state \in {"pending", "known"}
            BY <2>2 DEF AReceipt, ReceiptStates
        <3>2. new = [r EXCEPT !.state = "terminal",
                              !.status = IF OutcomeIsKnown(r) THEN r.status ELSE "interrupted"]
            BY <1>5, <3>1 DEF Recovered
        <3>3. new \in AReceipt /\ new.anchor = r.anchor /\ new.state = "terminal"
            BY <2>2, <3>2 DEF AReceipt, ReceiptStates, Statuses
        <3> QED
            BY <1>2, <2>2, <3>1, <3>3
    <2> QED
        BY <1>1, <2>1, <2>2
<1>6. ASSUME NEW state \in ReceiptStates, NEW status \in Statuses,
             new = Written(r, NewReceipt(state, status, Len(messages)))
      PROVE  /\ new \in {NoReceipt} \cup AReceipt
             /\ new # NoReceipt => new.anchor = Len(messages) \/ (r # NoReceipt /\ new.anchor = r.anchor)
             /\ (r # NoReceipt /\ new # NoReceipt /\ new # r) =>
                   /\ r.state # "terminal"
                   /\ r.state = "known" => new.state # "pending"
                   /\ new.anchor = r.anchor
    <2> DEFINE w == NewReceipt(state, status, Len(messages))
    <2>1. w \in AReceipt /\ w.anchor = Len(messages) /\ w.state = state
        BY <1>0 DEF NewReceipt, AReceipt
    <2> HIDE DEF w
    <2>2. CASE r = NoReceipt
        <3>1. new = w
            BY <1>6, <2>2 DEF Written, w
        <3> QED
            BY <2>1, <2>2, <3>1
    <2>3. CASE r \in AReceipt
        <3>1. r # NoReceipt
            BY <1>2, <2>3
        <3>2. CASE ~MayReplace(r, w)
            <4>1. new = r
                BY <1>6, <3>1, <3>2 DEF Written, w
            <4> QED
                BY <1>3, <4>1
        <3>3. CASE MayReplace(r, w)
            <4>1. new = [w EXCEPT !.anchor = r.anchor]
                BY <1>6, <3>1, <3>3 DEF Written, w
            <4>2. new \in AReceipt /\ new.anchor = r.anchor /\ new.state = w.state
                BY <2>1, <2>3, <4>1 DEF AReceipt
            <4>3. r.state # "terminal" /\ (r.state = "known" => w.state # "pending")
                BY <3>3 DEF MayReplace
            <4> QED
                BY <1>2, <3>1, <4>2, <4>3
        <3> QED
            BY <3>2, <3>3
    <2> QED
        BY <1>1, <2>2, <2>3
<1> QED
    BY <1>3, <1>4, <1>5, <1>6 DEF Advanced

\* The receipts stay receipts.
LEMMA ReceiptsStayTyped ==
    ASSUME Types, Acts
    PROVE  receipts' \in [Turns -> {NoReceipt} \cup AReceipt]
<1>1. receipts \in [Turns -> {NoReceipt} \cup AReceipt]
    BY DEF Types
<1>2. \A t \in Turns : receipts'[t] \in {NoReceipt} \cup AReceipt
    BY <1>1, ReceiptSteps, AdvancedIsReceipt
<1> QED
    BY <1>2, ReceiptSteps

-----------------------------------------------------------------------------
(* The turns *)

\* The fields of the engine, for a step that gives them one by one.
LEMMA Fields ==
    ASSUME NEW x \in Engines
    PROVE  /\ x.turn \in Turns \cup {NoTurn} /\ x.at \in Places /\ x.restore \in Seq(CodexTurn)
           /\ x.resumed \in BOOLEAN /\ x.projections \subseteq Turns /\ x.mine \subseteq Turns
BY DEF Engines

\* The turns that are restored come from the front of the list.
LEMMA RestoreShrinks ==
    ASSUME Types, engine.restore # <<>>
    PROVE  /\ Head(engine.restore) \in CodexTurn /\ Tail(engine.restore) \in Seq(CodexTurn)
           /\ 1 \in DOMAIN engine.restore /\ Head(engine.restore) = engine.restore[1]
           /\ \A k \in DOMAIN Tail(engine.restore) :
                 k + 1 \in DOMAIN engine.restore /\ Tail(engine.restore)[k] = engine.restore[k + 1]
           /\ \A k \in DOMAIN engine.restore :
                 k = 1 \/ (k - 1 \in DOMAIN Tail(engine.restore)
                           /\ Tail(engine.restore)[k - 1] = engine.restore[k])
<1>1. engine.restore \in Seq(CodexTurn)
    BY DEF Types, Engines
<1> HIDE DEF CodexTurn
<1> QED
    BY <1>1, HeadTailProperties

\* The engine as a whole, and what Codex remembers, while neither changes.
LEMMA StandsStill ==
    ASSUME Types, Stands, UNCHANGED <<engine, codex>>
    PROVE  engine' \in Engines /\ codex' \in Seq(CodexTurn) /\ Len(codex') <= Cardinality(Turns) /\ Stands'
BY DEF Types, Stands

\* A turn that is let go of leaves a part of the projections.
LEMMA LetGo ==
    ASSUME Types, Stands, NEW kept, kept \subseteq engine.projections,
           engine' = [Released EXCEPT !.projections = kept], codex' = codex
    PROVE  engine' \in Engines /\ codex' \in Seq(CodexTurn) /\ Len(codex') <= Cardinality(Turns) /\ Stands'
<1>1. engine \in Engines /\ codex \in Seq(CodexTurn) /\ Len(codex) <= Cardinality(Turns)
    BY DEF Types
<1>2. /\ engine'.turn = NoTurn /\ engine'.at = "idle" /\ engine'.restore = <<>>
      /\ engine'.resumed = engine.resumed /\ engine'.projections = kept /\ engine'.mine = engine.mine
    BY <1>1 DEF Released, Engines
<1>3. engine' \in Engines
    <2>1. kept \in SUBSET Turns /\ "idle" \in Places
        BY <1>1, Fields DEF Places
    <2> HIDE DEF CodexTurn, Places
    <2> QED
        BY <1>1, <2>1, EmptySeq DEF Released, Engines
<1>4. Stands'
    BY <1>1, <1>2 DEF Stands
<1> QED
    BY <1>1, <1>3, <1>4

\* ... or all of them.
LEMMA LetGoAll ==
    ASSUME Types, Stands, engine' = Released, codex' = codex
    PROVE  engine' \in Engines /\ codex' \in Seq(CodexTurn) /\ Len(codex') <= Cardinality(Turns) /\ Stands'
<1>1. engine' = [Released EXCEPT !.projections = engine.projections]
    BY DEF Released, Types, Engines
<1> QED
    BY <1>1, LetGo

\* One of the turn's steps up to the answer to turn/start
LEMMA StartStands ==
    ASSUME Types, Stands, Reserve \/ LoadSession \/ BindThread \/ RestoreEnds
    PROVE  engine' \in Engines /\ codex' \in Seq(CodexTurn) /\ Len(codex') <= Cardinality(Turns) /\ Stands'
<1>0. engine \in Engines /\ codex \in Seq(CodexTurn) /\ Len(codex) <= Cardinality(Turns)
      /\ Cardinality(Turns) \in Nat /\ Len(codex) \in Nat
    BY TurnOrderIs DEF Types
<1>1. CASE Reserve
    <2>1. engine' = [engine EXCEPT !.turn = TurnOrder[Started + 1], !.at = "reserved"] /\ codex' = codex
        BY <1>1 DEF Reserve
    <2>2. Len(codex) < Cardinality(Turns) /\ engine.at = "idle"
        BY <1>0, <1>1, ScenarioIs DEF Reserve, Started, Types, At
    <2>3. TurnOrder[Len(codex) + 1] \in Turns
        <3>1. Len(codex) + 1 \in 1 .. Cardinality(Turns)
            BY <1>0, <2>2
        <3> QED
            BY <3>1, TurnOrderIs
    <2>4. engine' \in Engines /\ engine'.turn = TurnOrder[Len(codex) + 1] /\ engine'.at = "reserved"
          /\ engine'.restore = engine.restore /\ engine'.resumed = engine.resumed
          /\ engine'.projections = engine.projections /\ engine'.mine = engine.mine
        BY <1>0, <2>1, <2>3 DEF Engines, Started, Places
    <2>5. Stands'
        BY <1>0, <2>1, <2>2, <2>4 DEF Stands
    <2> QED
        BY <1>0, <2>1, <2>4, <2>5
<1>2. CASE LoadSession
    <2>0. codex' = codex /\ engine.at = "reserved"
        BY <1>2 DEF LoadSession, At
    <2>1. CASE engine' = Released
        BY <2>0, <2>1, LetGoAll
    <2>2. CASE engine' = [engine EXCEPT !.at = "binding"]
        <3>1. engine' \in Engines /\ engine'.turn = engine.turn /\ engine'.at = "binding"
              /\ engine'.restore = engine.restore /\ engine'.resumed = engine.resumed
              /\ engine'.projections = engine.projections /\ engine'.mine = engine.mine
            BY <1>0, <2>2 DEF Engines, Places
        <3> QED
            BY <1>0, <2>0, <3>1 DEF Stands
    <2>3. CASE engine' = [engine EXCEPT !.at = "ready"] /\ engine.resumed
        <3>1. engine' \in Engines /\ engine'.turn = engine.turn /\ engine'.at = "ready"
              /\ engine'.restore = engine.restore /\ engine'.resumed = engine.resumed
              /\ engine'.projections = engine.projections /\ engine'.mine = engine.mine
            BY <1>0, <2>3 DEF Engines, Places
        <3> QED
            BY <1>0, <2>0, <2>3, <3>1 DEF Stands
    <2>4. CASE engine' = [engine EXCEPT !.at = "restoring", !.restore = codex] /\ ~engine.resumed
        <3>1. engine' \in Engines /\ engine'.turn = engine.turn /\ engine'.at = "restoring"
              /\ engine'.restore = codex /\ engine'.resumed = engine.resumed
              /\ engine'.projections = engine.projections /\ engine'.mine = engine.mine
            BY <1>0, <2>4 DEF Engines, Places
        <3> QED
            BY <1>0, <2>0, <2>4, <3>1 DEF Stands
    <2> QED
        BY <1>2, <2>1, <2>2, <2>3, <2>4 DEF LoadSession
<1>3. CASE BindThread
    <2>0. codex' = codex /\ engine.at = "binding"
        BY <1>3 DEF BindThread, At
    <2>1. CASE engine' = Released
        BY <2>0, <2>1, LetGoAll
    <2>2. CASE engine' = [engine EXCEPT !.at = "ready", !.resumed = TRUE]
        <3>1. engine' \in Engines /\ engine'.turn = engine.turn /\ engine'.at = "ready"
              /\ engine'.restore = engine.restore /\ engine'.resumed = TRUE
              /\ engine'.projections = engine.projections /\ engine'.mine = engine.mine
            BY <1>0, <2>2 DEF Engines, Places
        <3> QED
            BY <1>0, <2>0, <3>1 DEF Stands
    <2> QED
        BY <1>3, <2>1, <2>2 DEF BindThread
<1>4. CASE RestoreEnds
    <2>0. codex' = codex /\ engine.at = "restoring"
        BY <1>4 DEF RestoreEnds, At
    <2>1. engine' = [engine EXCEPT !.at = "ready", !.resumed = TRUE]
        BY <1>4 DEF RestoreEnds
    <2>2. engine' \in Engines /\ engine'.turn = engine.turn /\ engine'.at = "ready"
          /\ engine'.restore = engine.restore /\ engine'.resumed = TRUE
          /\ engine'.projections = engine.projections /\ engine'.mine = engine.mine
        BY <1>0, <2>1 DEF Engines, Places
    <2> QED
        BY <1>0, <2>0, <2>2 DEF Stands
<1> QED
    BY <1>1, <1>2, <1>3, <1>4

\* Restoring one turn
LEMMA RestoreStands ==
    ASSUME Types, Stands, RestoreTurn
    PROVE  engine' \in Engines /\ codex' \in Seq(CodexTurn) /\ Len(codex') <= Cardinality(Turns) /\ Stands'
<1>0. engine \in Engines /\ codex \in Seq(CodexTurn) /\ Len(codex) <= Cardinality(Turns)
    BY DEF Types
<1>1. codex' = codex /\ engine.at = "restoring" /\ engine.restore # <<>>
      /\ (engine' = Released \/ engine' = [engine EXCEPT !.restore = Tail(@)])
    BY DEF RestoreTurn, At
<1>2. CASE engine' = Released
    BY <1>1, <1>2, LetGoAll
<1>3. CASE engine' = [engine EXCEPT !.restore = Tail(@)]
    <2>1. Tail(engine.restore) \in Seq(CodexTurn)
        BY <1>1, RestoreShrinks
    <2>2. engine' \in Engines /\ engine'.turn = engine.turn /\ engine'.at = "restoring"
          /\ engine'.restore = Tail(engine.restore) /\ engine'.resumed = engine.resumed
          /\ engine'.projections = engine.projections /\ engine'.mine = engine.mine
        BY <1>0, <1>1, <1>3, <2>1 DEF Engines
    <2>3. ASSUME NEW k \in DOMAIN engine'.restore
          PROVE  \E i \in DOMAIN codex' : codex'[i].turn = engine'.restore[k].turn
        <3>1. k + 1 \in DOMAIN engine.restore /\ engine'.restore[k] = engine.restore[k + 1]
            BY <1>1, <2>2, <2>3, RestoreShrinks
        <3> QED
            BY <1>1, <3>1 DEF Stands
    <2> QED
        BY <1>0, <1>1, <2>2, <2>3 DEF Stands
<1> QED
    BY <1>1, <1>2, <1>3

\* A turn that Codex has, from its start to its answer
LEMMA RunStands ==
    ASSUME Types, Stands, CodexStarts \/ Activate \/ CodexAnswers
    PROVE  engine' \in Engines /\ codex' \in Seq(CodexTurn) /\ Len(codex') <= Cardinality(Turns) /\ Stands'
<1>0. engine \in Engines /\ codex \in Seq(CodexTurn) /\ Len(codex) <= Cardinality(Turns)
      /\ Cardinality(Turns) \in Nat /\ Len(codex) \in Nat
    BY TurnOrderIs DEF Types
<1>1. CASE CodexStarts
    <2> DEFINE new == [turn |-> engine.turn, answered |-> FALSE]
    <2>1. engine.at = "ready" /\ codex' = Append(codex, new)
          /\ engine' = [engine EXCEPT !.at = "started"]
        BY <1>1 DEF CodexStarts, At
    <2>2. new \in CodexTurn /\ new.turn = engine.turn
        BY <2>1, StartedIsTurn DEF CodexTurn
    <2> HIDE DEF new
    <2>3. /\ codex' \in Seq(CodexTurn) /\ Len(codex') = Len(codex) + 1
          /\ codex'[Len(codex) + 1] = new
          /\ \A i \in DOMAIN codex : codex'[i] = codex[i]
        <3> HIDE DEF CodexTurn
        <3> QED
            BY <1>0, <2>1, <2>2, AppendProperties
    <2>4. DOMAIN codex' = 1 .. Len(codex) + 1 /\ DOMAIN codex = 1 .. Len(codex)
        <3> HIDE DEF CodexTurn
        <3> QED
            BY <1>0, <2>3
    <2>5. engine' \in Engines /\ engine'.turn = engine.turn /\ engine'.at = "started"
          /\ engine'.restore = engine.restore /\ engine'.resumed = engine.resumed
          /\ engine'.projections = engine.projections /\ engine'.mine = engine.mine
        BY <1>0, <2>1 DEF Engines, Places
    <2>6. Len(codex) < Cardinality(Turns) /\ engine.turn = TurnOrder[Len(codex) + 1] /\ engine.resumed
        BY <2>1 DEF Stands
    <2>7. Len(codex') <= Cardinality(Turns)
        BY <1>0, <2>3, <2>6
    <2>8. \A i \in DOMAIN codex' : codex'[i].turn = TurnOrder[i]
        <3>1. \A i \in DOMAIN codex' : i \in DOMAIN codex \/ i = Len(codex) + 1
            BY <1>0, <2>4
        <3> QED
            BY <2>2, <2>3, <2>6, <3>1 DEF Stands
    <2>9. engine.turn \notin engine.mine
        <3> SUFFICES ASSUME engine.turn \in engine.mine PROVE FALSE
            OBVIOUS
        <3>1. PICK i \in DOMAIN codex : codex[i].turn = engine.turn
            BY DEF Stands
        <3>2. TurnOrder[i] = TurnOrder[Len(codex) + 1]
            BY <2>6, <3>1 DEF Stands
        <3>3. i \in 1 .. Cardinality(Turns) /\ Len(codex) + 1 \in 1 .. Cardinality(Turns) /\ i # Len(codex) + 1
            BY <1>0, <2>4, <2>6
        <3> QED
            BY <3>2, <3>3, TurnOrderIs
    <2>10. \A i \in DOMAIN codex : i \in DOMAIN codex' /\ codex'[i].turn = codex[i].turn
        BY <1>0, <2>3, <2>4
    <2>11. /\ \A t \in engine.mine : \E i \in DOMAIN codex' : codex'[i].turn = t
           /\ \A k \in DOMAIN engine.restore : \E i \in DOMAIN codex' : codex'[i].turn = engine.restore[k].turn
        BY <2>10 DEF Stands
    <2>12. Len(codex') # 0 /\ engine.turn = TurnOrder[Len(codex')]
        BY <1>0, <2>3, <2>6
    <2>13. engine.projections \subseteq engine.mine
        BY DEF Stands
    <2>14. Stands'
        BY <2>5, <2>6, <2>8, <2>9, <2>11, <2>12, <2>13 DEF Stands
    <2> QED
        BY <2>3, <2>5, <2>7, <2>14
<1>2. CASE Activate
    <2>0. codex' = codex /\ engine.at = "started"
        BY <1>2 DEF Activate, At
    <2>1. CASE engine' = Released
        BY <2>0, <2>1, LetGoAll
    <2>2. CASE engine' = [engine EXCEPT !.at = "running", !.projections = @ \cup {engine.turn},
                                        !.mine = @ \cup {engine.turn}]
        <3>1. engine.turn \in Turns
            BY <2>0, StartedIsTurn
        <3>2. engine' \in Engines /\ engine'.turn = engine.turn /\ engine'.at = "running"
              /\ engine'.restore = engine.restore /\ engine'.resumed = engine.resumed
              /\ engine'.projections = engine.projections \cup {engine.turn}
              /\ engine'.mine = engine.mine \cup {engine.turn}
            BY <1>0, <2>2, <3>1 DEF Engines, Places
        <3>3. Len(codex) \in DOMAIN codex /\ codex[Len(codex)].turn = engine.turn
            <4>1. Len(codex) # 0 /\ engine.turn = TurnOrder[Len(codex)]
                BY <2>0 DEF Stands
            <4>2. Len(codex) \in DOMAIN codex
                <5> HIDE DEF CodexTurn
                <5> QED
                    BY <1>0, <4>1
            <4> QED
                BY <4>1, <4>2 DEF Stands
        <3>4. \A t \in engine'.mine : \E i \in DOMAIN codex : codex[i].turn = t
            BY <3>2, <3>3 DEF Stands
        <3>5. engine.resumed
            BY <2>0 DEF Stands
        <3>6. Stands'
            BY <2>0, <3>2, <3>4, <3>5 DEF Stands
        <3> QED
            BY <1>0, <2>0, <3>2, <3>6
    <2> QED
        BY <1>2, <2>1, <2>2 DEF Activate
<1>3. CASE CodexAnswers
    <2>1. engine' = engine /\ codex # <<>> /\ codex' = [codex EXCEPT ![Len(codex)].answered = TRUE]
        BY <1>3 DEF CodexAnswers
    <2>2. Len(codex) \in DOMAIN codex /\ codex[Len(codex)] \in CodexTurn
        <3> HIDE DEF CodexTurn
        <3> QED
            BY <1>0, <2>1
    <2> DEFINE new == [codex[Len(codex)] EXCEPT !.answered = TRUE]
    <2>3. new \in CodexTurn /\ new.turn = codex[Len(codex)].turn
        BY <2>2 DEF CodexTurn
    <2>4. codex' = [codex EXCEPT ![Len(codex)] = new]
        BY <2>1
    <2> HIDE DEF new
    <2>5. codex' \in Seq(CodexTurn) /\ Len(codex') = Len(codex) /\ DOMAIN codex' = DOMAIN codex
          /\ \A i \in DOMAIN codex : codex'[i] = IF i = Len(codex) THEN new ELSE codex[i]
        <3> HIDE DEF CodexTurn
        <3> QED
            BY <1>0, <2>2, <2>3, <2>4, ExceptSeq
    <2>6. \A i \in DOMAIN codex : codex'[i].turn = codex[i].turn
        BY <2>3, <2>5
    <2>7. Stands'
        BY <2>1, <2>5, <2>6 DEF Stands
    <2> QED
        BY <1>0, <2>1, <2>5, <2>7
<1> QED
    BY <1>1, <1>2, <1>3

\* The end of a turn, also one announced again
LEMMA EndStands ==
    ASSUME Types, Stands, NEW i \in DOMAIN codex, Terminal(i)
    PROVE  engine' \in Engines /\ codex' \in Seq(CodexTurn) /\ Len(codex') <= Cardinality(Turns) /\ Stands'
<1>0. engine \in Engines /\ codex \in Seq(CodexTurn) /\ Len(codex) <= Cardinality(Turns)
    BY DEF Types
<1>1. codex' = codex
    BY DEF Terminal
<1>2. ASSUME NEW kept, kept \subseteq engine.projections, engine' = EngineAfter(codex[i].turn, kept)
      PROVE  engine' \in Engines /\ codex' \in Seq(CodexTurn) /\ Len(codex') <= Cardinality(Turns) /\ Stands'
    <2>1. CASE engine' = [Released EXCEPT !.projections = kept]
        BY <1>1, <1>2, <2>1, LetGo
    <2>2. CASE engine' = [engine EXCEPT !.projections = kept]
        <3>1. kept \in SUBSET Turns
            BY <1>0, <1>2, Fields
        <3>2. engine' \in Engines /\ engine'.turn = engine.turn /\ engine'.at = engine.at
              /\ engine'.restore = engine.restore /\ engine'.resumed = engine.resumed
              /\ engine'.projections = kept /\ engine'.mine = engine.mine
            BY <1>0, <2>2, <3>1 DEF Engines
        <3> QED
            BY <1>0, <1>1, <1>2, <3>2 DEF Stands
    <2> QED
        BY <1>2, <2>1, <2>2 DEF EngineAfter
<1>3. \/ engine' = EngineAfter(codex[i].turn, ProjectionGoes(codex[i].turn))
      \/ engine' = EngineAfter(codex[i].turn, engine.projections)
      \/ engine' = engine
    BY DEF Terminal
<1>4. ProjectionGoes(codex[i].turn) \subseteq engine.projections
    BY DEF ProjectionGoes
<1> QED
    BY <1>1, <1>2, <1>3, <1>4, StandsStill

\* A lost server, and a restart
LEMMA LossStands ==
    ASSUME Types, Stands, ServerLost \/ Kill
    PROVE  engine' \in Engines /\ codex' \in Seq(CodexTurn) /\ Len(codex') <= Cardinality(Turns) /\ Stands'
<1>0. engine \in Engines /\ codex \in Seq(CodexTurn) /\ Len(codex) <= Cardinality(Turns)
      /\ {} \in SUBSET Turns /\ "idle" \in Places /\ <<>> \in Seq(CodexTurn)
    BY EmptySeq DEF Types, Places
<1>1. codex' = codex
    BY DEF ServerLost, Kill, tables
<1>2. CASE ServerLost
    <2>1. engine' = [Released EXCEPT !.resumed = FALSE, !.projections = {}]
        BY <1>2 DEF ServerLost
    <2>2. engine' \in Engines /\ engine'.at = "idle"
          /\ engine'.restore = <<>> /\ engine'.resumed = FALSE
          /\ engine'.projections = {} /\ engine'.mine = engine.mine
        BY <1>0, <2>1 DEF Engines, Released
    <2> QED
        BY <1>0, <1>1, <2>2 DEF Stands
<1>3. CASE Kill
    <2>1. engine' = IdleEngine
        BY <1>3 DEF Kill
    <2>2. engine' \in Engines /\ engine'.at = "idle"
          /\ engine'.restore = <<>> /\ engine'.resumed = FALSE
          /\ engine'.projections = {} /\ engine'.mine = {}
        BY <1>0, <2>1 DEF Engines, IdleEngine
    <2> QED
        BY <1>0, <1>1, <2>2 DEF Stands
<1> QED
    BY <1>2, <1>3

\* What the other steps leave alone
LEMMA OthersStandStill ==
    ASSUME Acts
    PROVE  \/ UNCHANGED <<engine, codex>>
           \/ Reserve \/ LoadSession \/ BindThread \/ RestoreTurn \/ RestoreEnds
           \/ CodexStarts \/ Activate \/ CodexAnswers \/ ServerLost \/ Kill
           \/ \E i \in DOMAIN codex : Terminal(i)
<1>1. ASSUME NEW thread, NEW kind, NEW bytes, Record(thread, kind, bytes)
      PROVE  UNCHANGED <<engine, codex>>
    BY <1>1 DEF Record
<1>2. ASSUME NEW t, NEW state, WriteReceipt(t, state)
      PROVE  UNCHANGED <<engine, codex>>
    BY <1>2 DEF WriteReceipt
<1>3. ASSUME NEW c, \/ \E model, purpose : ReadConfig(c, model, purpose)
                    \/ UpdateModel(c) \/ SelectAccount(c)
      PROVE  UNCHANGED <<engine, codex>>
    BY <1>3 DEF ReadConfig, UpdateModel, SelectAccount, CallerDone, CallerMoves
<1>4. ASSUME ReadPage \/ CheckInactive \/ DeleteRuns \/ UNCHANGED vars
      PROVE  UNCHANGED <<engine, codex>>
    BY <1>4 DEF ReadPage, CheckInactive, DeleteRuns, vars
<1> QED
    BY <1>1, <1>2, <1>3, <1>4 DEF Acts

\* No step changes the scenario.
LEMMA ScenarioStays ==
    ASSUME Acts
    PROVE  scenario' = scenario
<1>1. ASSUME NEW thread, NEW kind, NEW bytes, Record(thread, kind, bytes)
      PROVE  scenario' = scenario
    BY <1>1 DEF Record
<1>2. ASSUME NEW t, NEW state, WriteReceipt(t, state)
      PROVE  scenario' = scenario
    BY <1>2 DEF WriteReceipt
<1>3. ASSUME NEW c, \/ \E model, purpose : ReadConfig(c, model, purpose)
                    \/ UpdateModel(c) \/ SelectAccount(c)
      PROVE  scenario' = scenario
    BY <1>3 DEF ReadConfig, UpdateModel, SelectAccount, CallerDone, CallerMoves
<1>4. ASSUME NEW i, Terminal(i)
      PROVE  scenario' = scenario
    BY <1>4 DEF Terminal
<1>5. CASE \/ Reserve \/ LoadSession \/ BindThread \/ RestoreTurn \/ RestoreEnds \/ CodexStarts
           \/ Activate \/ CodexAnswers \/ ServerLost \/ Kill \/ ReadPage \/ CheckInactive \/ DeleteRuns
           \/ UNCHANGED vars
    BY <1>5 DEF Reserve, LoadSession, BindThread, RestoreTurn, RestoreEnds, CodexStarts, Activate,
                CodexAnswers, ServerLost, Kill, ReadPage, CheckInactive, DeleteRuns, vars
<1> QED
    BY <1>1, <1>2, <1>3, <1>4, <1>5 DEF Acts

\* Every step keeps the types and where the engine stands.
LEMMA TypesKept ==
    ASSUME Types, Stands, Acts
    PROVE  Types' /\ Stands'
<1>1. engine' \in Engines /\ codex' \in Seq(CodexTurn) /\ Len(codex') <= Cardinality(Turns) /\ Stands'
    BY OthersStandStill, StandsStill, StartStands, RestoreStands, RunStands, EndStands, LossStands
<1>2. messages' \in Seq(Message)
    BY ActsOnMessages, MessagesStayTyped
<1>3. scenario' \in Scenarios
    BY ScenarioStays DEF Types
<1> QED
    BY <1>1, <1>2, <1>3, Counted, RowStays, ReceiptsStayTyped DEF Types

\* The engine stands idle at first.
LEMMA StandsAtFirst ==
    ASSUME Init
    PROVE  Stands
BY DEF Init, Stands, IdleEngine

-----------------------------------------------------------------------------
(* The activity *)

\* The rows are those of some thread, announced under their sequences.
Logged ==
    /\ IsLog(events) /\ Retains(events)
    /\ \A e \in events : /\ e.seq \in 1 .. lastSeq /\ e.bytes \in 1 .. MaxBytes
                         /\ e.thread \in Threads /\ e.session = SessionOf(e.thread)
                         /\ <<e.seq, e.id>> \in shown
    /\ \A a \in shown : a[1] \in 1 .. lastSeq
    /\ \A a, b \in shown : a[1] = b[1] => a[2] = b[2]

\* The activity is empty at first.
LEMMA LoggedAtFirst ==
    ASSUME Init
    PROVE  Logged
<1>1. events = {} /\ shown = {}
    BY DEF Init
<1>2. IsLog({}) /\ Fits({}, GlobalLimits)
    BY LimitsAre, NothingFits
<1> QED
    BY <1>1, <1>2 DEF Logged, Retains

\* A new row has the largest sequence.
LEMMA NewNumbers ==
    ASSUME Types, Logged, NEW e, IsNew(e)
    PROVE  e.seq \in Nat /\ e.bytes \in Nat /\ \A d \in events : d.seq < e.seq
<1>1. MaxBytes \in Nat
    BY StoreAssumption DEF StoreAssumption
<1>2. lastSeq \in Nat
    BY DEF Types
<1>3. \A d \in events : d.seq \in 1 .. lastSeq
    BY DEF Logged
<1> QED
    BY <1>1, <1>2, <1>3 DEF IsNew

\* Every step keeps the activity within its bounds, one row to a sequence.
LEMMA LoggedKept ==
    ASSUME Types, Logged, EventStep
    PROVE  Logged'
<1>0. lastSeq \in Nat
    BY DEF Types
<1>1. ASSUME NEW e, IsNew(e), events' = Appended(e, events), lastSeq' = e.seq,
             shown' = shown \cup {<<e.seq, e.id>>}
      PROVE  Logged'
    <2>1. /\ events' \subseteq events \cup {e} /\ IsLog(events') /\ Retains(events')
        BY <1>1, NewNumbers, AppendedKeeps DEF Logged
    <2>2. lastSeq' = lastSeq + 1 /\ e.seq = lastSeq + 1
        BY <1>1 DEF IsNew
    <2>3. \A n \in 1 .. lastSeq : n \in 1 .. lastSeq'
        BY <1>0, <2>2
    <2>4. e.seq \in 1 .. lastSeq'
        BY <1>0, <2>2
    <2>5. ASSUME NEW d \in events'
          PROVE  /\ d.seq \in 1 .. lastSeq' /\ d.bytes \in 1 .. MaxBytes
                 /\ d.thread \in Threads /\ d.session = SessionOf(d.thread)
                 /\ <<d.seq, d.id>> \in shown'
        <3>1. CASE d = e
            BY <1>1, <2>4, <3>1 DEF IsNew
        <3>2. CASE d \in events
            BY <1>1, <2>3, <3>2 DEF Logged
        <3> QED
            BY <2>1, <3>1, <3>2
    <2>6. \A a \in shown' : a \in shown \/ a = <<e.seq, e.id>>
        BY <1>1
    <2>7. \A a \in shown : a[1] \in 1 .. lastSeq /\ a[1] # e.seq
        BY <1>0, <2>2 DEF Logged
    <2>8. \A a \in shown' : a[1] \in 1 .. lastSeq'
        BY <2>3, <2>4, <2>6, <2>7
    <2>9. ASSUME NEW a \in shown', NEW b \in shown', a[1] = b[1]
          PROVE  a[2] = b[2]
        <3>1. CASE a \in shown /\ b \in shown
            BY <2>9, <3>1 DEF Logged
        <3>2. CASE a = <<e.seq, e.id>> \/ b = <<e.seq, e.id>>
            BY <2>6, <2>7, <2>9, <3>2
        <3> QED
            BY <2>6, <3>1, <3>2
    <2> QED
        BY <2>1, <2>5, <2>8, <2>9 DEF Logged
<1>2. CASE UNCHANGED <<events, lastSeq, shown>>
    BY <1>2 DEF Logged
<1>3. CASE events' = events \ OfSession(Chat, events) /\ UNCHANGED <<lastSeq, shown>>
    <2>0. events' \subseteq events
        BY <1>3
    <2>1. IsLog(events')
        BY <2>0, PartIsLog DEF Logged
    <2>2. Fits(events', GlobalLimits)
        BY <2>0, LimitsAre, PartFits DEF Logged, Retains
    <2>3. ASSUME NEW d \in events'
          PROVE  Fits(OfThread(d, events'), ThreadLimits) /\ Fits(OfSession(d.session, events'), SessionLimits)
        <3>1. OfThread(d, events') \subseteq OfThread(d, events)
              /\ OfSession(d.session, events') \subseteq OfSession(d.session, events)
            BY <2>0 DEF OfThread, OfSession
        <3>2. OfThread(d, events) \subseteq events /\ OfSession(d.session, events) \subseteq events
            BY DEF OfThread, OfSession
        <3>3. IsLog(OfThread(d, events)) /\ IsLog(OfSession(d.session, events))
            BY <3>2, PartIsLog DEF Logged
        <3>4. Fits(OfThread(d, events), ThreadLimits) /\ Fits(OfSession(d.session, events), SessionLimits)
            BY <2>0 DEF Logged, Retains
        <3> QED
            BY <3>1, <3>3, <3>4, LimitsAre, PartFits
    <2>4. Retains(events')
        BY <2>2, <2>3 DEF Retains
    <2> QED
        BY <1>3, <2>0, <2>1, <2>4 DEF Logged
<1> QED
    BY <1>1, <1>2, <1>3 DEF EventStep

\* Proof that something ended goes last.
LEMMA TerminalsGoLast ==
    ASSUME Types, Logged, EventStep, appends' # appends
    PROVE  \A e \in events \ events' : IsTerminal(e) =>
              \E rest \in {OfThread(e, events'), OfSession(e.session, events'), events'} :
                 \A d \in rest : IsTerminal(d)
<1>1. ASSUME NEW e, IsNew(e), events' = Appended(e, events)
      PROVE  \A d \in events \ events' : IsTerminal(d) =>
                \E rest \in {OfThread(d, events'), OfSession(d.session, events'), events'} :
                   \A x \in rest : IsTerminal(x)
    BY <1>1, NewNumbers, AppendedKeeps DEF Logged
<1>2. CASE events' = events
    BY <1>2
<1> QED
    BY <1>1, <1>2 DEF EventStep

\* Of what is left, nothing is of another row than its sequence was announced for.
LEMMA LoggedIsRetained ==
    ASSUME Logged
    PROVE  RetentionHolds /\ SequenceNamesOneRow
<1>1. RetentionHolds
    BY DEF Logged, Retains, RetentionHolds, Fits
<1>2. \A a \in {<<e.seq, e.id>> : e \in events} : a \in shown
    BY DEF Logged
<1>3. SequenceNamesOneRow
    BY <1>2 DEF Logged, SequenceNamesOneRow
<1> QED
    BY <1>1, <1>3

-----------------------------------------------------------------------------
(* The reader *)

\* Of some rows one is last.
LEMMA LastRow ==
    ASSUME NEW A, IsLog(A), A # {}
    PROVE  \E m \in A : {d \in A : d.seq >= m.seq} = {m}
<1> DEFINE Up(x) == {d \in A : d.seq >= x.seq}
           N == {Cardinality(Up(x)) : x \in A}
<1>1. \A x \in A : Up(x) \subseteq A /\ IsFiniteSet(Up(x)) /\ Cardinality(Up(x)) \in Nat
    BY PartIsLog, FS_Subset DEF IsLog
<1>2. N \subseteq Nat /\ N # {}
    BY <1>1
<1> HIDE DEF N
<1>3. PICK n \in N : \A k \in N : n <= k
    BY <1>2, LeastNumber
<1>4. PICK m \in A : n = Cardinality(Up(m))
    BY <1>3 DEF N
<1>5. ASSUME NEW d \in Up(m), d # m
      PROVE  FALSE
    <2>1. d \in A /\ d.seq \in Nat /\ m.seq \in Nat /\ d.seq >= m.seq /\ d.seq # m.seq
        BY <1>5 DEF IsLog
    <2>2. \A x \in Up(d) : x \in Up(m)
        BY <2>1 DEF IsLog
    <2>3. m \in Up(m) /\ m \notin Up(d)
        BY <2>1
    <2>4. Cardinality(Up(d)) \in N
        BY <2>1 DEF N
    <2>5. IsFiniteSet(Up(m)) /\ Cardinality(Up(m)) \in Nat /\ Cardinality(Up(d)) \in Nat
        BY <1>1, <2>1
    <2>6. Up(d) \subseteq Up(m) /\ Up(d) # Up(m)
        BY <2>2, <2>3
    <2> HIDE DEF Up
    <2>7. Cardinality(Up(d)) < Cardinality(Up(m))
        BY <2>5, <2>6, FS_Subset
    <2> QED
        BY <1>3, <1>4, <2>4, <2>5, <2>7
<1>6. m \in Up(m)
    BY DEF IsLog
<1> QED
    BY <1>5, <1>6

\* A page has every row between the cursor it was read from and the one it gives.
LEMMA PageIs ==
    ASSUME NEW E, IsLog(E), \A e \in E : e.seq # 0, NEW c \in Nat,
           NEW p, p = ActivityPage(Chat, PageSize, c, E)
    PROVE  /\ p.cursor \in Nat
           /\ \A e \in OfSession(Chat, E) :
                 (e.seq >= p.cursor /\ (c = 0 \/ e.seq < c)) => e \in p.rows
<1> DEFINE below == {e \in OfSession(Chat, E) : c = 0 \/ e.seq < c}
           Up(x) == {d \in below : d.seq >= x.seq}
           page == {e \in below : Cardinality(Up(e)) <= PageSize}
           N == {e.seq : e \in page}
<1>1. p = [rows |-> page, cursor |-> IF page # below THEN Min(N) ELSE NoCursor]
    BY DEF ActivityPage, NoCursor
<1>2. PageSize \in Nat /\ PageSize >= 1
    BY StoreAssumption DEF StoreAssumption
<1>3. IsLog(below)
    <2>1. below \subseteq E
        BY DEF OfSession
    <2> HIDE DEF below
    <2> QED
        BY <2>1, PartIsLog
<1>4. CASE page = below
    <2>1. p.cursor = 0 /\ p.rows = below
        BY <1>1, <1>4 DEF NoCursor
    <2> QED
        BY <2>1
<1>5. CASE page # below
    <2>0. p.cursor = Min(N) /\ p.rows = page
        BY <1>1, <1>5
    <2>1. below # {}
        BY <1>5
    <2>2. PICK m \in below : Up(m) = {m}
        <3> HIDE DEF below
        <3> QED
            BY <1>3, <2>1, LastRow
    <2>3. m \in page
        <3>1. Cardinality(Up(m)) = 1
            BY <2>2, FS_Singleton
        <3> QED
            BY <1>2, <3>1
    <2>4. N \subseteq Nat /\ N # {}
        <3>1. page \subseteq below
            OBVIOUS
        <3> HIDE DEF page, below
        <3> QED
            BY <1>3, <2>3, <3>1 DEF IsLog
    <2>5. Min(N) \in N
        <3> HIDE DEF N
        <3> QED
            BY <2>4, MinIsMember
    <2>6. PICK l \in page : l.seq = Min(N)
        BY <2>5
    <2>7. ASSUME NEW e \in below, e.seq >= l.seq
          PROVE  e \in page
        <3>1. Up(e) \subseteq Up(l) /\ Up(l) \subseteq below
            <4>1. l.seq \in Nat /\ e.seq \in Nat /\ \A d \in below : d.seq \in Nat
                BY <1>3 DEF IsLog
            <4> HIDE DEF below
            <4> QED
                BY <2>7, <4>1
        <3> HIDE DEF below, Up
        <3>2. IsLog(Up(l))
            BY <1>3, <3>1, PartIsLog
        <3>3. /\ Cardinality(Up(e)) \in Nat /\ Cardinality(Up(l)) \in Nat
              /\ Cardinality(Up(e)) <= Cardinality(Up(l))
            BY <3>1, <3>2, PartIsLog
        <3>4. Cardinality(Up(l)) <= PageSize
            OBVIOUS
        <3>5. Cardinality(Up(e)) <= PageSize
            BY <1>2, <3>3, <3>4
        <3> QED
            BY <3>5
    <2>8. ASSUME NEW e \in OfSession(Chat, E), e.seq >= p.cursor, c = 0 \/ e.seq < c
          PROVE  e \in p.rows
        <3>1. e \in below /\ e.seq >= l.seq
            BY <2>0, <2>6, <2>8
        <3> HIDE DEF below, page
        <3> QED
            BY <2>0, <2>7, <3>1
    <2>9. p.cursor \in Nat
        BY <2>0, <2>4, <2>5
    <2> QED
        BY <2>8, <2>9
<1> QED
    BY <1>4, <1>5

\* A walk that has not begun has no cursor, one under way has one; no page is from
\* above the newest row there was.
Walks ==
    /\ reader.cursor \in Nat /\ reader.top \in Nat /\ reader.top <= lastSeq
    /\ reader.at = "idle" => reader.cursor = 0
    /\ reader.at \in {"idle", "done"} \/ reader.cursor # 0
    /\ PagesHaveNoHole

\* The reader is idle at first.
LEMMA WalksAtFirst ==
    ASSUME Init
    PROVE  Walks
BY DEF Init, Walks, IdleReader, NoCursor, PagesHaveNoHole

\* Nothing moves the reader but its pages and a restart.
LEMMA OthersDoNotRead ==
    ASSUME Acts
    PROVE  UNCHANGED reader \/ (UNCHANGED <<events, lastSeq>> /\ (reader' = IdleReader \/ ReadPage))
<1>1. ASSUME NEW thread, NEW kind, NEW bytes, Record(thread, kind, bytes)
      PROVE  UNCHANGED reader
    BY <1>1 DEF Record
<1>2. ASSUME NEW t, NEW state, WriteReceipt(t, state)
      PROVE  UNCHANGED reader
    BY <1>2 DEF WriteReceipt
<1>3. ASSUME NEW c, \/ \E model, purpose : ReadConfig(c, model, purpose)
                    \/ UpdateModel(c) \/ SelectAccount(c)
      PROVE  UNCHANGED reader
    BY <1>3 DEF ReadConfig, UpdateModel, SelectAccount, CallerDone, CallerMoves
<1>4. ASSUME NEW i, Terminal(i)
      PROVE  UNCHANGED reader
    BY <1>4 DEF Terminal
<1>5. ASSUME \/ Reserve \/ LoadSession \/ BindThread \/ RestoreTurn \/ RestoreEnds \/ CodexStarts
             \/ Activate \/ CodexAnswers \/ ServerLost \/ CheckInactive \/ DeleteRuns \/ UNCHANGED vars
      PROVE  UNCHANGED reader
    BY <1>5 DEF Reserve, LoadSession, BindThread, RestoreTurn, RestoreEnds, CodexStarts, Activate,
                CodexAnswers, ServerLost, CheckInactive, DeleteRuns, vars
<1>6. CASE ReadPage
    BY <1>6 DEF ReadPage, tables
<1>7. CASE Kill
    BY <1>7 DEF Kill
<1> QED
    BY <1>1, <1>2, <1>3, <1>4, <1>5, <1>6, <1>7 DEF Acts

\* A walk misses no row, whatever is appended or pruned meanwhile.
LEMMA WalksKept ==
    ASSUME Types, Logged, Walks, Acts
    PROVE  Walks'
<1>0. lastSeq \in Nat /\ reader.cursor \in Nat /\ reader.top \in Nat
    BY DEF Types, Walks
<1>1. CASE UNCHANGED reader
    <2>1. ASSUME NEW e, IsNew(e), events' = Appended(e, events), lastSeq' = e.seq
          PROVE  Walks'
        <3>1. events' \subseteq events \cup {e}
            BY <2>1, NewNumbers, AppendedKeeps DEF Logged
        <3>2. lastSeq' = lastSeq + 1 /\ e.seq = lastSeq + 1
            BY <2>1 DEF IsNew
        <3>3. e.seq \notin reader.cursor .. reader.top
            BY <1>0, <3>2 DEF Walks
        <3>4. PagesHaveNoHole'
            BY <1>1, <3>1, <3>3 DEF Walks, PagesHaveNoHole, OfSession
        <3> QED
            BY <1>0, <1>1, <3>2, <3>4 DEF Walks
    <2>2. ASSUME events' \subseteq events, lastSeq' = lastSeq
          PROVE  Walks'
        <3>1. PagesHaveNoHole'
            BY <1>1, <2>2 DEF Walks, PagesHaveNoHole, OfSession
        <3> QED
            BY <1>1, <2>2, <3>1 DEF Walks
    <2>3. events \ OfSession(Chat, events) \subseteq events
        OBVIOUS
    <2> QED
        BY <2>1, <2>2, <2>3, ActsOnEvents DEF EventStep
<1>2. CASE reader' = IdleReader /\ UNCHANGED <<events, lastSeq>>
    BY <1>0, <1>2 DEF Walks, IdleReader, NoCursor, PagesHaveNoHole
<1>3. CASE ReadPage /\ UNCHANGED <<events, lastSeq>>
    <2> DEFINE p == ActivityPage(Chat, PageSize, reader.cursor, events)
               seqs == {e.seq : e \in p.rows}
    <2>1. IsLog(events) /\ \A e \in events : e.seq # 0 /\ e.seq \in Nat
        <3>1. \A e \in events : e.seq \in 1 .. lastSeq
            BY DEF Logged
        <3>2. IsLog(events)
            BY DEF Logged
        <3>3. \A n \in 1 .. lastSeq : n # 0 /\ n \in Nat
            BY <1>0
        <3> QED
            BY <3>1, <3>2, <3>3
    <2>2. /\ p.cursor \in Nat
          /\ \A e \in OfSession(Chat, events) :
                (e.seq >= p.cursor /\ (reader.cursor = 0 \/ e.seq < reader.cursor)) => e \in p.rows
        BY <1>0, <2>1, PageIs
    <2> HIDE DEF p
    <2>3. /\ reader'.at = (IF p.cursor = NoCursor THEN "done" ELSE "walking")
          /\ reader'.cursor = p.cursor
          /\ reader'.top = (IF reader.at = "idle" THEN lastSeq ELSE reader.top)
          /\ reader'.held = reader.held \cup seqs
        BY <1>3 DEF ReadPage, p
    <2>4. ASSUME NEW e \in OfSession(Chat, events), e.seq \in reader'.cursor .. reader'.top
          PROVE  e.seq \in reader'.held
        <3>0. e.seq \in Nat
            BY <2>1 DEF OfSession
        <3>1. e.seq >= p.cursor /\ e.seq <= reader'.top
            BY <2>3, <2>4
        <3>2. CASE reader.cursor = 0 \/ e.seq < reader.cursor
            <4>1. e \in p.rows
                BY <2>2, <3>1, <3>2
            <4> QED
                BY <2>3, <4>1
        <3>3. CASE reader.cursor # 0 /\ ~(e.seq < reader.cursor)
            <4>1. reader.at # "idle" /\ reader'.top = reader.top
                BY <2>3, <3>3 DEF Walks
            <4>2. e.seq \in reader.cursor .. reader.top
                BY <1>0, <3>0, <3>1, <3>3, <4>1
            <4>3. e.seq \in reader.held
                BY <4>1, <4>2 DEF Walks, PagesHaveNoHole
            <4> QED
                BY <2>3, <4>3
        <3> QED
            BY <3>2, <3>3
    <2>5. PagesHaveNoHole'
        BY <1>3, <2>4 DEF PagesHaveNoHole, OfSession
    <2>6. reader'.top \in Nat /\ reader'.top <= lastSeq'
        BY <1>0, <1>3, <2>3 DEF Walks
    <2>7. /\ reader'.at = "idle" => reader'.cursor = 0
          /\ reader'.at \in {"idle", "done"} \/ reader'.cursor # 0
        BY <2>3 DEF NoCursor
    <2> QED
        BY <2>2, <2>3, <2>5, <2>6, <2>7 DEF Walks
<1> QED
    BY <1>1, <1>2, <1>3, OthersDoNotRead

-----------------------------------------------------------------------------
(* The transcript *)

Distinct(s) == \A i, j \in DOMAIN s : s[i] = s[j] => i = j

\* Two sequences with nothing in common, one after the other
LEMMA Joined ==
    ASSUME NEW S, NEW s \in Seq(S), NEW r \in Seq(S), NEW z, z = s \o r
    PROVE  /\ \A k \in DOMAIN z : (\E i \in DOMAIN s : z[k] = s[i]) \/ (\E j \in DOMAIN r : z[k] = r[j])
           /\ \A i \in DOMAIN s : i \in DOMAIN z /\ z[i] = s[i]
           /\ \A j \in DOMAIN r : Len(s) + j \in DOMAIN z /\ z[Len(s) + j] = r[j]
           /\ (Distinct(s) /\ Distinct(r) /\ \A i \in DOMAIN s, j \in DOMAIN r : s[i] # r[j]) => Distinct(z)
<1>1. /\ z \in Seq(S) /\ Len(z) = Len(s) + Len(r) /\ Len(s) \in Nat /\ Len(r) \in Nat
      /\ \A i \in 1 .. Len(s) + Len(r) : z[i] = IF i <= Len(s) THEN s[i] ELSE r[i - Len(s)]
    BY ConcatProperties, LenProperties
<1>2. DOMAIN z = 1 .. Len(s) + Len(r) /\ DOMAIN s = 1 .. Len(s) /\ DOMAIN r = 1 .. Len(r)
    BY <1>1, LenProperties
<1>3. \A k \in DOMAIN z : \/ k \in DOMAIN s /\ z[k] = s[k]
                          \/ k > Len(s) /\ k - Len(s) \in DOMAIN r /\ z[k] = r[k - Len(s)]
    BY <1>1, <1>2
<1>4. \A i \in DOMAIN s : i \in DOMAIN z /\ z[i] = s[i]
    BY <1>1, <1>2
<1>5. \A j \in DOMAIN r : Len(s) + j \in DOMAIN z /\ z[Len(s) + j] = r[j]
    <2> SUFFICES ASSUME NEW j \in DOMAIN r
                 PROVE  Len(s) + j \in DOMAIN z /\ z[Len(s) + j] = r[j]
        OBVIOUS
    <2>1. Len(s) + j \in 1 .. Len(s) + Len(r) /\ ~(Len(s) + j <= Len(s)) /\ Len(s) + j - Len(s) = j
        BY <1>1, <1>2
    <2> QED
        BY <1>1, <1>2, <2>1
<1>6. ASSUME Distinct(s), Distinct(r), \A i \in DOMAIN s, j \in DOMAIN r : s[i] # r[j],
             NEW k \in DOMAIN z, NEW l \in DOMAIN z, z[k] = z[l]
      PROVE  k = l
    <2>0. k \in Nat /\ l \in Nat
        BY <1>1, <1>2
    <2>1. CASE k \in DOMAIN s /\ l \in DOMAIN s
        BY <1>4, <1>6, <2>1 DEF Distinct
    <2>2. CASE k - Len(s) \in DOMAIN r /\ l - Len(s) \in DOMAIN r /\ z[k] = r[k - Len(s)] /\ z[l] = r[l - Len(s)]
        <3>1. k - Len(s) = l - Len(s)
            BY <1>6, <2>2 DEF Distinct
        <3> QED
            BY <1>1, <2>0, <3>1
    <2>3. ASSUME k \in DOMAIN s /\ z[k] = s[k] /\ l - Len(s) \in DOMAIN r /\ z[l] = r[l - Len(s)]
          PROVE  FALSE
        BY <1>6, <2>3
    <2>4. ASSUME l \in DOMAIN s /\ z[l] = s[l] /\ k - Len(s) \in DOMAIN r /\ z[k] = r[k - Len(s)]
          PROVE  FALSE
        BY <1>6, <2>4
    <2> QED
        BY <1>3, <2>1, <2>2, <2>3, <2>4
<1> QED
    BY <1>3, <1>4, <1>5, <1>6 DEF Distinct

\* What is in two sequences one after the other is in one of them.
LEMMA JoinedFrom ==
    ASSUME NEW S, NEW s \in Seq(S), NEW r \in Seq(S), NEW k \in DOMAIN (s \o r)
    PROVE  (\E i \in DOMAIN s : (s \o r)[k] = s[i]) \/ (\E j \in DOMAIN r : (s \o r)[k] = r[j])
<1>1. /\ s \o r \in Seq(S) /\ Len(s \o r) = Len(s) + Len(r) /\ Len(s) \in Nat /\ Len(r) \in Nat
      /\ \A i \in 1 .. Len(s) + Len(r) : (s \o r)[i] = IF i <= Len(s) THEN s[i] ELSE r[i - Len(s)]
    BY ConcatProperties, LenProperties
<1>2. k \in 1 .. Len(s) + Len(r) /\ DOMAIN s = 1 .. Len(s) /\ DOMAIN r = 1 .. Len(r)
    BY <1>1, LenProperties
<1>3. CASE k <= Len(s)
    <2>1. k \in DOMAIN s /\ (s \o r)[k] = s[k]
        BY <1>1, <1>2, <1>3
    <2> QED
        BY <2>1
<1>4. CASE ~(k <= Len(s))
    <2>1. k - Len(s) \in DOMAIN r /\ (s \o r)[k] = r[k - Len(s)]
        BY <1>1, <1>2, <1>4
    <2> QED
        BY <2>1
<1> QED
    BY <1>3, <1>4

\* Every turn is in the transcript once; the ones in it are known to Codex; of the
\* one just started nothing is there, of one with a projection no answer.
Once ==
    /\ Distinct(messages)
    /\ \A i \in DOMAIN messages : \E k \in DOMAIN codex : codex[k].turn = messages[i].turn
    /\ engine.at = "started" => ~HasMessages(engine.turn)
    /\ \A t \in engine.projections : \A i \in DOMAIN messages : messages[i] # AnswerRow(t)

\* The transcript is empty at first.
LEMMA OnceAtFirst ==
    ASSUME Init
    PROVE  Once
BY DEF Init, Once, Distinct, IdleEngine, HasMessages

\* Codex forgets no turn.
LEMMA CodexGrows ==
    ASSUME Types, Stands, Acts
    PROVE  \A k \in DOMAIN codex : k \in DOMAIN codex' /\ codex'[k].turn = codex[k].turn
<1>0. codex \in Seq(CodexTurn)
    BY DEF Types
<1>1. CASE codex' = codex
    BY <1>1
<1>2. CASE CodexStarts
    <2> DEFINE new == [turn |-> engine.turn, answered |-> FALSE]
    <2>1. codex' = Append(codex, new) /\ engine.at = "ready"
        BY <1>2 DEF CodexStarts, At
    <2>2. new \in CodexTurn
        BY <2>1, StartedIsTurn DEF CodexTurn
    <2> HIDE DEF new, CodexTurn
    <2>3. Len(codex') = Len(codex) + 1 /\ codex' \in Seq(CodexTurn)
          /\ \A i \in 1 .. Len(codex) : codex'[i] = codex[i]
        BY <1>0, <2>1, <2>2, AppendProperties
    <2>4. \A i \in DOMAIN codex : i \in 1 .. Len(codex) /\ i \in DOMAIN codex'
        BY <1>0, <2>3
    <2> QED
        BY <2>3, <2>4
<1>3. CASE CodexAnswers
    <2>1. codex' = [codex EXCEPT ![Len(codex)].answered = TRUE]
        BY <1>3 DEF CodexAnswers
    <2> QED
        BY <2>1
<1>4. CASE \/ Reserve \/ LoadSession \/ BindThread \/ RestoreTurn \/ RestoreEnds
           \/ Activate \/ ServerLost \/ Kill
    BY <1>1, <1>4 DEF Reserve, LoadSession, BindThread, RestoreTurn, RestoreEnds, Activate, ServerLost, Kill
<1>5. ASSUME NEW i, Terminal(i)
      PROVE  codex' = codex
    BY <1>5 DEF Terminal
<1> QED
    BY <1>1, <1>2, <1>3, <1>4, <1>5, OthersStandStill

\* What a step makes of the turn just started and of the projections, unless it is
\* the step that begins one.
Follows ==
    /\ engine'.at = "started" =>
          /\ engine'.turn = engine.turn
          /\ engine.at = "started" \/ (engine.at = "ready" /\ UNCHANGED messages)
    /\ engine'.projections \subseteq engine.projections

\* Every step follows, or it begins a turn.
LEMMA EngineMoves ==
    ASSUME Types, Stands, Acts
    PROVE  \/ Follows
           \/ /\ Activate /\ engine.at = "started"
              /\ messages' = Append(messages, UserRow(engine.turn))
              /\ engine'.at = "running"
              /\ engine'.projections = engine.projections \cup {engine.turn}
<1>0. engine \in Engines
    BY DEF Types
<1>1. ASSUME engine' = engine PROVE Follows
    BY <1>1 DEF Follows
<1>2. CASE Reserve
    <2>1. engine' = [engine EXCEPT !.turn = TurnOrder[Started + 1], !.at = "reserved"]
        BY <1>2 DEF Reserve
    <2>2. engine'.at = "reserved" /\ engine'.projections = engine.projections
        BY <1>0, <2>1 DEF Engines
    <2> QED
        BY <2>2 DEF Follows
<1>3. Released.at = "idle" /\ Released.projections = engine.projections
    BY <1>0 DEF Released, Engines
<1>4. CASE LoadSession
    <2>1. \/ engine' = Released \/ engine' = [engine EXCEPT !.at = "binding"]
          \/ engine' = [engine EXCEPT !.at = "ready"]
          \/ engine' = [engine EXCEPT !.at = "restoring", !.restore = codex]
        BY <1>4 DEF LoadSession
    <2>2. engine'.at # "started" /\ engine'.projections = engine.projections
        BY <1>0, <1>3, <2>1 DEF Engines
    <2> QED
        BY <2>2 DEF Follows
<1>5. CASE BindThread
    <2>1. engine' = Released \/ engine' = [engine EXCEPT !.at = "ready", !.resumed = TRUE]
        BY <1>5 DEF BindThread
    <2>2. engine'.at # "started" /\ engine'.projections = engine.projections
        BY <1>0, <1>3, <2>1 DEF Engines
    <2> QED
        BY <2>2 DEF Follows
<1>6. CASE RestoreTurn
    <2>1. (engine' = Released \/ engine' = [engine EXCEPT !.restore = Tail(@)]) /\ engine.at = "restoring"
        BY <1>6 DEF RestoreTurn, At
    <2>2. engine'.at # "started" /\ engine'.projections = engine.projections
        BY <1>0, <1>3, <2>1 DEF Engines
    <2> QED
        BY <2>2 DEF Follows
<1>7. CASE RestoreEnds
    <2>1. engine' = [engine EXCEPT !.at = "ready", !.resumed = TRUE]
        BY <1>7 DEF RestoreEnds
    <2>2. engine'.at # "started" /\ engine'.projections = engine.projections
        BY <1>0, <2>1 DEF Engines
    <2> QED
        BY <2>2 DEF Follows
<1>8. CASE CodexStarts
    <2>1. engine' = [engine EXCEPT !.at = "started"] /\ engine.at = "ready" /\ UNCHANGED messages
        BY <1>8 DEF CodexStarts, At, tables
    <2>2. engine'.turn = engine.turn /\ engine'.projections = engine.projections
        BY <1>0, <2>1 DEF Engines
    <2> QED
        BY <2>1, <2>2 DEF Follows
<1>9. CASE Activate /\ engine' = Released
    BY <1>3, <1>9 DEF Follows
<1>10. CASE /\ Activate /\ messages' = Append(messages, UserRow(engine.turn))
            /\ engine' = [engine EXCEPT !.at = "running", !.projections = @ \cup {engine.turn},
                                        !.mine = @ \cup {engine.turn}]
    <2>1. engine.at = "started"
        BY <1>10 DEF Activate, At
    <2>2. engine'.at = "running" /\ engine'.projections = engine.projections \cup {engine.turn}
        BY <1>0, <1>10 DEF Engines
    <2> QED
        BY <1>10, <2>1, <2>2
<1>11. CASE CodexAnswers
    BY <1>1, <1>11 DEF CodexAnswers
<1>12. CASE ServerLost \/ Kill
    <2>1. engine'.at = "idle" /\ engine'.projections = {}
        <3>1. CASE ServerLost
            <4>1. engine' = [Released EXCEPT !.resumed = FALSE, !.projections = {}]
                BY <3>1 DEF ServerLost
            <4> QED
                BY <1>0, <4>1 DEF Released, Engines
        <3>2. CASE Kill
            <4>1. engine' = IdleEngine
                BY <3>2 DEF Kill
            <4> QED
                BY <4>1 DEF IdleEngine
        <3> QED
            BY <1>12, <3>1, <3>2
    <2> QED
        BY <2>1 DEF Follows
<1>13. ASSUME NEW i \in DOMAIN codex, Terminal(i)
       PROVE  Follows
    <2>1. PICK kept : kept \subseteq engine.projections /\ (engine' = engine \/ engine' = EngineAfter(codex[i].turn, kept))
        BY <1>13 DEF Terminal, ProjectionGoes
    <2>2. CASE engine' = engine
        BY <1>1, <2>2
    <2>3. CASE engine' = [Released EXCEPT !.projections = kept]
        <3>1. engine'.at = "idle" /\ engine'.projections = kept
            BY <1>0, <2>3 DEF Released, Engines
        <3> QED
            BY <2>1, <3>1 DEF Follows
    <2>4. CASE engine' = [engine EXCEPT !.projections = kept]
        <3>1. engine'.at = engine.at /\ engine'.turn = engine.turn /\ engine'.projections = kept
            BY <1>0, <2>4 DEF Engines
        <3>2. engine.at # "ready" \/ engine'.at # "started"
            BY <3>1
        <3> QED
            BY <2>1, <3>1, <3>2 DEF Follows
    <2> QED
        BY <2>1, <2>2, <2>3, <2>4 DEF EngineAfter
<1> QED
    BY <1>1, <1>2, <1>4, <1>5, <1>6, <1>7, <1>8, <1>9, <1>10, <1>11, <1>12, <1>13, OthersStandStill
    DEF Activate

\* Every step keeps each turn in the transcript once.
LEMMA OnceKept ==
    ASSUME Types, Stands, Once, Acts
    PROVE  Once'
<1>0. /\ messages \in Seq(Message) /\ engine \in Engines
      /\ Len(codex) \in Nat /\ Cardinality(Turns) \in Nat /\ Len(codex) <= Cardinality(Turns)
      /\ DOMAIN codex = 1 .. Len(codex)
    <2>1. codex \in Seq(CodexTurn) /\ Len(codex) <= Cardinality(Turns) /\ messages \in Seq(Message)
          /\ engine \in Engines
        BY DEF Types
    <2>2. Len(codex) \in Nat /\ DOMAIN codex = 1 .. Len(codex)
        <3> HIDE DEF CodexTurn
        <3> QED
            BY <2>1
    <2> QED
        BY <2>1, <2>2, TurnOrderIs
\* Rows of turns that are not the next one
<1>1. ASSUME engine.at = "ready", HasMessages(engine.turn)
      PROVE  FALSE
    <2>1. PICK i \in DOMAIN messages : messages[i].turn = engine.turn
        BY <1>1 DEF HasMessages
    <2>2. PICK k \in DOMAIN codex : codex[k].turn = engine.turn
        BY <2>1 DEF Once
    <2>3. TurnOrder[k] = TurnOrder[Len(codex) + 1] /\ Len(codex) < Cardinality(Turns)
        BY <1>1, <2>2 DEF Stands
    <2>4. k \in 1 .. Cardinality(Turns) /\ Len(codex) + 1 \in 1 .. Cardinality(Turns) /\ k # Len(codex) + 1
        BY <1>0, <2>3
    <2> QED
        BY <2>3, <2>4, TurnOrderIs
\* What follows when only rows of known turns are added, none of the one just
\* started, and no answer of one that keeps its projection
<1>2. ASSUME NEW rows \in Seq(Message), messages' = messages \o rows, Distinct(rows), Follows,
             \A i \in DOMAIN messages, j \in DOMAIN rows : messages[i] # rows[j],
             \A j \in DOMAIN rows : \E k \in DOMAIN codex : codex[k].turn = rows[j].turn,
             \A j \in DOMAIN rows : engine.at = "started" => rows[j].turn # engine.turn,
             \A j \in DOMAIN rows, t \in engine'.projections : rows[j] # AnswerRow(t)
      PROVE  Once'
    <2>1. \A k \in DOMAIN messages' : (\E i \in DOMAIN messages : messages'[k] = messages[i])
                                      \/ (\E j \in DOMAIN rows : messages'[k] = rows[j])
        <3> SUFFICES ASSUME NEW k \in DOMAIN messages'
                     PROVE  (\E i \in DOMAIN messages : messages'[k] = messages[i])
                            \/ (\E j \in DOMAIN rows : messages'[k] = rows[j])
            OBVIOUS
        <3>1. k \in DOMAIN (messages \o rows) /\ messages'[k] = (messages \o rows)[k]
            BY <1>2
        <3>2. \/ \E i \in DOMAIN messages : (messages \o rows)[k] = messages[i]
              \/ \E j \in DOMAIN rows : (messages \o rows)[k] = rows[j]
            BY <1>0, <3>1, JoinedFrom
        <3> QED
            BY <3>1, <3>2
    <2>2. Distinct(messages')
        <3>1. Distinct(messages)
            BY DEF Once
        <3> QED
            BY <1>0, <1>2, <3>1, Joined
    <2>3. ASSUME NEW i \in DOMAIN messages'
          PROVE  \E k \in DOMAIN codex' : codex'[k].turn = messages'[i].turn
        <3>1. \E k \in DOMAIN codex : codex[k].turn = messages'[i].turn
            <4>1. ASSUME NEW l \in DOMAIN messages, messages'[i] = messages[l]
                  PROVE  \E k \in DOMAIN codex : codex[k].turn = messages'[i].turn
                BY <4>1 DEF Once
            <4>2. ASSUME NEW j \in DOMAIN rows, messages'[i] = rows[j]
                  PROVE  \E k \in DOMAIN codex : codex[k].turn = messages'[i].turn
                BY <1>2, <4>2
            <4> QED
                BY <2>1, <4>1, <4>2
        <3> QED
            BY <3>1, CodexGrows
    <2>4. ASSUME engine'.at = "started", NEW i \in DOMAIN messages', messages'[i].turn = engine'.turn
          PROVE  FALSE
        <3>1. CASE engine.at = "started"
            <4>1. engine'.turn = engine.turn
                BY <1>2, <2>4 DEF Follows
            <4>2. \A k \in DOMAIN messages : messages[k].turn # engine.turn
                BY <3>1 DEF Once, HasMessages
            <4> QED
                BY <1>2, <2>1, <2>4, <3>1, <4>1, <4>2
        <3>2. CASE engine.at = "ready" /\ UNCHANGED messages
            <4>1. engine'.turn = engine.turn
                BY <1>2, <2>4 DEF Follows
            <4> QED
                BY <1>1, <2>4, <3>2, <4>1 DEF HasMessages
        <3> QED
            BY <1>2, <2>4, <3>1, <3>2 DEF Follows
    <2>5. ASSUME NEW t \in engine'.projections, NEW i \in DOMAIN messages'
          PROVE  messages'[i] # AnswerRow(t)
        <3>1. t \in engine.projections
            BY <1>2 DEF Follows
        <3>2. \A k \in DOMAIN messages : messages[k] # AnswerRow(t)
            BY <3>1 DEF Once
        <3> QED
            BY <1>2, <2>1, <3>2
    <2> QED
        BY <2>2, <2>3, <2>4, <2>5 DEF Once, HasMessages
<1>3. CASE UNCHANGED messages /\ Follows
    <2>1. messages \o <<>> = messages /\ <<>> \in Seq(Message)
        BY <1>0, ConcatEmptySeq, EmptySeq
    <2>2. Distinct(<<>>) /\ \A j \in DOMAIN <<>> : FALSE
        BY DEF Distinct
    <2> QED
        BY <1>2, <1>3, <2>1, <2>2
<1>4. CASE messages' = <<>> /\ Follows
    BY <1>4 DEF Once, Distinct, HasMessages
<1>5. ASSUME NEW t \in CodexTurn, engine.at = "restoring", engine.restore # <<>>,
             t = Head(engine.restore), ~HasMessages(t.turn), messages' = messages \o RowsOf(t), Follows
      PROVE  Once'
    <2> DEFINE rows == RowsOf(t)
    <2>1. rows \in Seq(Message) /\ \A j \in DOMAIN rows : rows[j] \in {UserRow(t.turn), AnswerRow(t.turn)}
        BY RestoredRows
    <2>2. Distinct(rows)
        BY RestoredRows, RowsAre DEF Distinct
    <2>3. \A j \in DOMAIN rows : rows[j].turn = t.turn
        BY <2>1, RowsAre
    <2>4. \E k \in DOMAIN codex : codex[k].turn = t.turn
        BY <1>5, RestoreShrinks DEF Stands
    <2>5. \A i \in DOMAIN messages : messages[i].turn # t.turn
        BY <1>5 DEF HasMessages
    <2>6. engine'.projections = {}
        BY <1>5 DEF Follows, Stands
    <2> HIDE DEF rows
    <2>7. \A i \in DOMAIN messages, j \in DOMAIN rows : messages[i] # rows[j]
        BY <2>3, <2>5
    <2>8. messages' = messages \o rows
        BY <1>5 DEF rows
    <2>9. \A j \in DOMAIN rows : \E k \in DOMAIN codex : codex[k].turn = rows[j].turn
        BY <2>3, <2>4
    <2> QED
        BY <1>2, <1>5, <2>1, <2>2, <2>6, <2>7, <2>8, <2>9
<1>6. ASSUME NEW i \in DOMAIN codex, messages' = messages \o AnswerOf(i), Follows,
             engine' = EngineAfter(codex[i].turn, ProjectionGoes(codex[i].turn))
      PROVE  Once'
    <2>1. CASE AnswerOf(i) = <<>>
        <3>1. UNCHANGED messages
            BY <1>0, <1>6, <2>1, ConcatEmptySeq
        <3> QED
            BY <1>3, <1>6, <3>1
    <2>2. CASE codex[i].turn \in engine.projections /\ AnswerOf(i) = <<AnswerRow(codex[i].turn)>>
        <3> DEFINE t == codex[i].turn
                   rows == <<AnswerRow(t)>>
        <3>1. rows \in Seq(Message)
            BY <2>2, AnswerRows
        <3>2. DOMAIN rows = {1} /\ rows[1] = AnswerRow(t)
            OBVIOUS
        <3>3. engine'.projections = engine.projections \ {t}
            BY <1>0, <1>6 DEF EngineAfter, ProjectionGoes, Released, Engines
        <3>4. \A k \in DOMAIN messages : messages[k] # AnswerRow(t)
            BY <2>2 DEF Once
        <3>5. engine.at = "started" => t # engine.turn
            BY <2>2 DEF Stands
        <3>6. messages' = messages \o rows
            BY <1>6, <2>2
        <3>7. AnswerRow(t).turn = t /\ \A u : AnswerRow(u).turn = u
            BY RowsAre
        <3> HIDE DEF rows
        <3>8. Distinct(rows)
            BY <3>2 DEF Distinct
        <3>9. \A j \in DOMAIN rows : \E k \in DOMAIN codex : codex[k].turn = rows[j].turn
            BY <3>2, <3>7
        <3>10. \A j \in DOMAIN rows : engine.at = "started" => rows[j].turn # engine.turn
            BY <3>2, <3>5, <3>7
        <3>11. \A j \in DOMAIN rows, u \in engine'.projections : rows[j] # AnswerRow(u)
            BY <3>2, <3>3, <3>7
        <3>12. \A k \in DOMAIN messages, j \in DOMAIN rows : messages[k] # rows[j]
            BY <3>2, <3>4
        <3> QED
            BY <1>2, <1>6, <3>1, <3>6, <3>8, <3>9, <3>10, <3>11, <3>12
    <2> QED
        BY <2>1, <2>2, AnswerRows
<1>7. CASE /\ Activate /\ engine.at = "started"
           /\ messages' = Append(messages, UserRow(engine.turn))
           /\ engine'.at = "running"
           /\ engine'.projections = engine.projections \cup {engine.turn}
    <2> DEFINE t == engine.turn
               u == UserRow(t)
               rows == <<u>>
    <2>1. u \in Message /\ u.turn = t /\ \A x : u # AnswerRow(x) /\ AnswerRow(x).turn = x
        BY <1>7, StartedIsTurn, RowsAre
    <2>2. messages' = messages \o rows /\ rows \in Seq(Message) /\ DOMAIN rows = {1} /\ rows[1] = u
        <3> HIDE DEF u, Message
        <3> QED
            BY <1>0, <1>7, <2>1, AppendIsConcat DEF u
    <2>3. \A k \in DOMAIN messages : messages[k].turn # t
        BY <1>7 DEF Once, HasMessages
    <2> HIDE DEF u, rows
    <2>4. Distinct(rows) /\ Distinct(messages)
        BY <2>2 DEF Distinct, Once
    <2>5. \A i \in DOMAIN messages, j \in DOMAIN rows : messages[i] # rows[j]
        BY <2>1, <2>2, <2>3
    <2>6. /\ \A k \in DOMAIN messages' : (\E i \in DOMAIN messages : messages'[k] = messages[i])
                                         \/ (\E j \in DOMAIN rows : messages'[k] = rows[j])
          /\ Distinct(messages')
        <3>1. Distinct(messages')
            BY <1>0, <2>2, <2>4, <2>5, Joined
        <3> QED
            BY <1>0, <2>2, <3>1, JoinedFrom
    <2>7. \A k \in DOMAIN messages' : messages'[k] = u \/ \E i \in DOMAIN messages : messages'[k] = messages[i]
        BY <2>2, <2>6
    <2>8. \E k \in DOMAIN codex : codex[k].turn = t
        <3>1. Len(codex) # 0 /\ t = TurnOrder[Len(codex)]
            BY <1>7 DEF Stands
        <3>2. Len(codex) \in DOMAIN codex
            BY <1>0, <3>1
        <3> QED
            BY <3>1, <3>2 DEF Stands
    <2>9. ASSUME NEW k \in DOMAIN messages'
          PROVE  \E l \in DOMAIN codex' : codex'[l].turn = messages'[k].turn
        <3>1. \E l \in DOMAIN codex : codex[l].turn = messages'[k].turn
            BY <2>1, <2>7, <2>8 DEF Once
        <3> QED
            BY <3>1, CodexGrows
    <2>10. ASSUME NEW x \in engine'.projections, NEW k \in DOMAIN messages'
           PROVE  messages'[k] # AnswerRow(x)
        <3>1. CASE messages'[k] = u
            BY <2>1, <3>1
        <3>2. ASSUME NEW i \in DOMAIN messages, messages'[k] = messages[i]
              PROVE  messages'[k] # AnswerRow(x)
            <4>1. CASE x = t
                BY <2>1, <2>3, <3>2, <4>1
            <4>2. CASE x \in engine.projections
                BY <3>2, <4>2 DEF Once
            <4> QED
                BY <1>7, <4>1, <4>2
        <3> QED
            BY <2>7, <3>1, <3>2
    <2> QED
        BY <1>7, <2>6, <2>9, <2>10 DEF Once
\* The steps of the messages, each beside what it makes of the engine
<1>8. CASE Follows
    <2>1. engine.at = "started" /\ engine' = [engine EXCEPT !.at = "running",
             !.projections = @ \cup {engine.turn}, !.mine = @ \cup {engine.turn}] => FALSE
        <3>1. ASSUME engine.at = "started", engine' = [engine EXCEPT !.at = "running",
                        !.projections = @ \cup {engine.turn}, !.mine = @ \cup {engine.turn}]
              PROVE  FALSE
            <4>1. engine.turn \in engine'.projections
                BY <1>0, <3>1 DEF Engines
            <4> QED
                BY <1>8, <3>1, <4>1 DEF Follows, Stands
        <3> QED
            BY <3>1
    <2> QED
        BY <1>3, <1>4, <1>5, <1>6, <1>8, <2>1, ActsOnMessages DEF MessageStep
<1> QED
    BY <1>7, <1>8, EngineMoves

\* Each turn has at most two rows.
LEMMA MessagesAreFew ==
    ASSUME Types, Once
    PROVE  Len(messages) <= 2 * Cardinality(Turns)
<1> DEFINE roles == {"user", "assistant"}
           n == Len(messages)
           f == [i \in 1 .. n |-> <<messages[i].turn, messages[i].role>>]
<1>1. IsFiniteSet(Turns) /\ Cardinality(Turns) \in Nat
    BY StoreAssumption, TurnOrderIs DEF StoreAssumption
<1>2. IsFiniteSet(roles) /\ Cardinality(roles) = 2
    <2>1. IsFiniteSet({"user"}) /\ Cardinality({"user"}) = 1 /\ "assistant" \notin {"user"}
        BY FS_Singleton
    <2>2. roles = {"user"} \cup {"assistant"}
        OBVIOUS
    <2> QED
        BY <2>1, <2>2, FS_AddElement
<1>3. n \in Nat /\ \A i \in 1 .. n : i \in DOMAIN messages /\ messages[i] \in Message
    <2>1. messages \in Seq(Message)
        BY DEF Types
    <2> HIDE DEF Message
    <2> QED
        BY <2>1
<1>4. \A i \in 1 .. n : messages[i].turn \in Turns /\ messages[i].role \in roles
                        /\ messages[i] = [turn |-> messages[i].turn, role |-> messages[i].role]
    BY <1>3 DEF Message
<1> HIDE DEF n
<1>5. f \in [1 .. n -> Turns \X roles]
    BY <1>4
<1>6. ASSUME NEW i \in 1 .. n, NEW j \in 1 .. n, f[i] = f[j]
      PROVE  i = j
    <2>1. messages[i].turn = messages[j].turn /\ messages[i].role = messages[j].role
        BY <1>6
    <2>2. messages[i] = messages[j]
        BY <1>4, <2>1
    <2> QED
        BY <1>3, <2>2 DEF Once, Distinct
<1>7. f \in Injection(1 .. n, Turns \X roles)
    BY <1>5, <1>6 DEF Injection, IsInjective
<1>8. IsFiniteSet(Turns \X roles) /\ Cardinality(Turns \X roles) = Cardinality(Turns) * 2
    BY <1>1, <1>2, FS_Product
<1> HIDE DEF f, roles
<1>9. Cardinality(1 .. n) <= Cardinality(Turns \X roles)
    BY <1>7, <1>8, FS_Injection
<1>10. Cardinality(1 .. n) = n
    BY <1>3, FS_Interval
<1> QED
    BY <1>1, <1>8, <1>9, <1>10 DEF n

\* The anchor of a receipt is a place in the transcript, or was one.
Anchored == \A t \in Turns : receipts[t] # NoReceipt => receipts[t].anchor <= 2 * Cardinality(Turns)

\* Anchors stay within the transcript.
LEMMA AnchoredKept ==
    ASSUME Types, Once, Anchored, Acts
    PROVE  Anchored'
<1> SUFFICES ASSUME NEW t \in Turns, receipts'[t] # NoReceipt
             PROVE  receipts'[t].anchor <= 2 * Cardinality(Turns)
    BY DEF Anchored
<1>1. receipts[t] \in {NoReceipt} \cup AReceipt
    BY DEF Types
<1>2. Advanced(receipts[t], receipts'[t])
    BY ReceiptSteps
<1>3. \/ receipts'[t].anchor = Len(messages)
      \/ receipts[t] # NoReceipt /\ receipts'[t].anchor = receipts[t].anchor
    BY <1>1, <1>2, AdvancedIsReceipt
<1> QED
    BY <1>3, MessagesAreFew DEF Anchored

\* While a thread is restored, every turn is in the transcript or still to come.
Restores ==
    (engine.at = "restoring" /\ ~raced) =>
        \A k \in DOMAIN codex : \/ HasMessages(codex[k].turn)
                                \/ \E i \in DOMAIN engine.restore : engine.restore[i].turn = codex[k].turn

\* What has been written of a turn stays, but for a deletion while the turn is under way.
LEMMA MessagesStay ==
    ASSUME Types, Stands, Acts, ~raced', engine.at # "idle"
    PROVE  ~raced /\ \A t : HasMessages(t) => HasMessages(t)'
<1>1. \/ UNCHANGED raced /\ ~DeleteRuns
      \/ DeleteRuns /\ raced' = (raced \/ ~At("idle"))
    <2>1. ASSUME NEW thread, NEW kind, NEW bytes, Record(thread, kind, bytes)
          PROVE  UNCHANGED raced
        BY <2>1 DEF Record
    <2>2. ASSUME NEW t, NEW state, WriteReceipt(t, state)
          PROVE  UNCHANGED raced
        BY <2>2 DEF WriteReceipt
    <2>3. ASSUME NEW c, \/ \E model, purpose : ReadConfig(c, model, purpose)
                        \/ UpdateModel(c) \/ SelectAccount(c)
          PROVE  UNCHANGED raced
        BY <2>3 DEF ReadConfig, UpdateModel, SelectAccount, CallerDone, CallerMoves
    <2>4. ASSUME NEW i, Terminal(i)
          PROVE  UNCHANGED raced
        BY <2>4 DEF Terminal
    <2>5. ASSUME \/ Reserve \/ LoadSession \/ BindThread \/ RestoreTurn \/ RestoreEnds \/ CodexStarts
                 \/ Activate \/ CodexAnswers \/ ServerLost \/ Kill \/ ReadPage \/ CheckInactive
                 \/ UNCHANGED vars
          PROVE  UNCHANGED raced
        BY <2>5 DEF Reserve, LoadSession, BindThread, RestoreTurn, RestoreEnds, CodexStarts, Activate,
                    CodexAnswers, ServerLost, Kill, ReadPage, CheckInactive, vars
    <2>6. ASSUME DeleteRuns
          PROVE  raced' = (raced \/ ~At("idle"))
        BY <2>6 DEF DeleteRuns
    <2> QED
        BY <2>1, <2>2, <2>3, <2>4, <2>5, <2>6 DEF Acts
<1>2. ~raced /\ ~DeleteRuns
    <2>1. CASE UNCHANGED raced /\ ~DeleteRuns
        BY <2>1, Zenon
    <2>2. CASE DeleteRuns /\ raced' = (raced \/ ~At("idle"))
        <3>1. ~At("idle")
            BY DEF At
        <3> QED
            BY <2>2, <3>1, Zenon
    <2> QED
        BY <1>1, <2>1, <2>2, Zenon
<1>3. messages \in Seq(Message)
    BY DEF Types
<1>4. ASSUME NEW rows \in Seq(Message), messages' = messages \o rows
      PROVE  \A t : HasMessages(t) => HasMessages(t)'
    <2>1. \A i \in DOMAIN messages : i \in DOMAIN messages' /\ messages'[i] = messages[i]
        BY <1>3, <1>4, Joined
    <2> QED
        BY <2>1 DEF HasMessages
<1>5. ASSUME UNCHANGED messages
      PROVE  \A t : HasMessages(t) => HasMessages(t)'
    BY <1>5 DEF HasMessages
<1>6. ASSUME NEW t \in CodexTurn, messages' = messages \o RowsOf(t)
      PROVE  \A u : HasMessages(u) => HasMessages(u)'
    BY <1>4, <1>6, RestoredRows
<1>7. ASSUME NEW i \in DOMAIN codex, messages' = messages \o AnswerOf(i)
      PROVE  \A u : HasMessages(u) => HasMessages(u)'
    BY <1>4, <1>7, AnswerRows
<1>8. CASE engine.at = "started" /\ messages' = Append(messages, UserRow(engine.turn))
    <2>1. UserRow(engine.turn) \in Message
        BY <1>8, StartedIsTurn, RowsAre
    <2>2. messages' = messages \o <<UserRow(engine.turn)>> /\ <<UserRow(engine.turn)>> \in Seq(Message)
        <3> HIDE DEF Message
        <3> QED
            BY <1>3, <1>8, <2>1, AppendIsConcat
    <2>3. PICK rows \in Seq(Message) : messages' = messages \o rows
        BY <2>2
    <2> QED
        BY <1>2, <1>4, <2>3
<1> QED
    BY <1>2, <1>5, <1>6, <1>7, <1>8, ActsOnMessages DEF MessageStep

\* No step loses a turn that is to be restored.
LEMMA RestoresKept ==
    ASSUME Types, Stands, Restores, Acts
    PROVE  Restores'
<1> SUFFICES ASSUME engine'.at = "restoring", ~raced', NEW k \in DOMAIN codex'
             PROVE  \/ HasMessages(codex[k].turn)'
                    \/ \E i \in DOMAIN engine'.restore : engine'.restore[i].turn = codex'[k].turn
    BY DEF Restores, HasMessages
<1>0. engine \in Engines /\ Released.at = "idle"
    BY DEF Types, Released, Engines
<1>1. CASE LoadSession
    <2>1. \/ engine' = Released \/ engine' = [engine EXCEPT !.at = "binding"]
          \/ engine' = [engine EXCEPT !.at = "ready"]
          \/ engine' = [engine EXCEPT !.at = "restoring", !.restore = codex]
        BY <1>1 DEF LoadSession
    <2>2. engine'.restore = codex
        BY <1>0, <2>1 DEF Engines
    <2>3. codex' = codex
        BY <1>1 DEF LoadSession
    <2> QED
        BY <2>2, <2>3
<1>2. ASSUME engine.at = "restoring", codex' = codex, engine'.restore = engine.restore
      PROVE  \/ HasMessages(codex[k].turn)'
             \/ \E i \in DOMAIN engine'.restore : engine'.restore[i].turn = codex'[k].turn
    <2>1. ~raced /\ (HasMessages(codex[k].turn) => \E i \in DOMAIN messages' : messages'[i].turn = codex[k].turn)
        BY <1>2, MessagesStay DEF HasMessages
    <2>2. \/ HasMessages(codex[k].turn)
          \/ \E i \in DOMAIN engine.restore : engine.restore[i].turn = codex[k].turn
        BY <1>2, <2>1 DEF Restores
    <2> QED
        BY <1>2, <2>1, <2>2 DEF HasMessages
<1>3. CASE UNCHANGED <<engine, codex>>
    BY <1>2, <1>3
<1>4. CASE CodexAnswers
    BY <1>4 DEF CodexAnswers, Stands
<1>5. CASE RestoreTurn
    <2>1. engine.at = "restoring" /\ engine.restore # <<>> /\ codex' = codex
        BY <1>5 DEF RestoreTurn, At
    <2> DEFINE t == Head(engine.restore)
    <2>2. engine' = [engine EXCEPT !.restore = Tail(@)]
          /\ (HasMessages(t.turn) \/ messages' = messages \o RowsOf(t))
        BY <1>0, <1>5 DEF RestoreTurn, Commit, IsRestored
    <2>3. engine'.restore = Tail(engine.restore)
        BY <1>0, <2>2 DEF Engines
    <2>4. ~raced /\ \A u : HasMessages(u) => \E i \in DOMAIN messages' : messages'[i].turn = u
        BY <2>1, MessagesStay DEF HasMessages
    <2>5. \E i \in DOMAIN messages' : messages'[i].turn = t.turn
        <3>1. CASE HasMessages(t.turn)
            BY <2>4, <3>1
        <3>2. CASE messages' = messages \o RowsOf(t)
            <4>1. t \in CodexTurn
                BY <2>1, RestoreShrinks
            <4> HIDE DEF t
            <4>2. RowsOf(t) \in Seq(Message) /\ 1 \in DOMAIN RowsOf(t) /\ RowsOf(t)[1] = UserRow(t.turn)
                BY <4>1, RestoredRows
            <4>3. messages \in Seq(Message)
                BY DEF Types
            <4>4. Len(messages) + 1 \in DOMAIN messages' /\ messages'[Len(messages) + 1] = RowsOf(t)[1]
                BY <3>2, <4>2, <4>3, Joined
            <4>5. messages'[Len(messages) + 1].turn = t.turn
                BY <4>2, <4>4, RowsAre
            <4> QED
                BY <4>4, <4>5
        <3> QED
            BY <2>2, <3>1, <3>2
    <2>6. CASE HasMessages(codex[k].turn)
        BY <2>1, <2>4, <2>6 DEF HasMessages
    <2>7. ASSUME NEW i \in DOMAIN engine.restore, engine.restore[i].turn = codex[k].turn
          PROVE  \/ HasMessages(codex[k].turn)'
                 \/ \E j \in DOMAIN engine'.restore : engine'.restore[j].turn = codex'[k].turn
        <3>1. CASE i = 1
            <4>1. t = engine.restore[1]
                BY <2>1, RestoreShrinks
            <4> QED
                BY <2>1, <2>5, <2>7, <3>1, <4>1 DEF HasMessages
        <3>2. CASE i - 1 \in DOMAIN Tail(engine.restore) /\ Tail(engine.restore)[i - 1] = engine.restore[i]
            BY <2>1, <2>3, <2>7, <3>2
        <3> QED
            BY <2>1, <3>1, <3>2, RestoreShrinks
    <2> QED
        BY <2>1, <2>4, <2>6, <2>7 DEF Restores
<1>6. CASE Reserve
    <2>1. engine' = [engine EXCEPT !.turn = TurnOrder[Started + 1], !.at = "reserved"]
        BY <1>6 DEF Reserve
    <2> QED
        BY <1>0, <2>1 DEF Engines
<1>7. CASE BindThread
    <2>1. engine' = Released \/ engine' = [engine EXCEPT !.at = "ready", !.resumed = TRUE]
        BY <1>7 DEF BindThread
    <2> QED
        BY <1>0, <2>1 DEF Engines
<1>8. CASE RestoreEnds
    <2>1. engine' = [engine EXCEPT !.at = "ready", !.resumed = TRUE]
        BY <1>8 DEF RestoreEnds
    <2> QED
        BY <1>0, <2>1 DEF Engines
<1>9. CASE CodexStarts
    <2>1. engine' = [engine EXCEPT !.at = "started"]
        BY <1>9 DEF CodexStarts
    <2> QED
        BY <1>0, <2>1 DEF Engines
<1>10. CASE Activate
    <2>1. \/ engine' = Released
          \/ engine' = [engine EXCEPT !.at = "running", !.projections = @ \cup {engine.turn},
                                      !.mine = @ \cup {engine.turn}]
        BY <1>10 DEF Activate
    <2> QED
        BY <1>0, <2>1 DEF Engines
<1>11. CASE ServerLost \/ Kill
    <2>1. engine'.at = "idle"
        <3>1. ASSUME ServerLost PROVE engine'.at = "idle"
            <4>1. engine' = [Released EXCEPT !.resumed = FALSE, !.projections = {}]
                BY <3>1 DEF ServerLost
            <4> QED
                BY <1>0, <4>1 DEF Engines, Released
        <3>2. ASSUME Kill PROVE engine'.at = "idle"
            <4>1. engine' = IdleEngine
                BY <3>2 DEF Kill
            <4> QED
                BY <4>1 DEF IdleEngine
        <3> QED
            BY <1>11, <3>1, <3>2
    <2> QED
        BY <2>1
<1>12. ASSUME NEW i \in DOMAIN codex, Terminal(i)
       PROVE  FALSE
    <2>1. engine.resumed
        BY <1>12 DEF Terminal
    <2>2. engine.at # "restoring"
        BY <2>1 DEF Stands
    <2>3. PICK kept : engine' = engine \/ engine' = EngineAfter(codex[i].turn, kept)
        BY <1>12 DEF Terminal
    <2>4. \/ engine' = engine \/ engine' = [Released EXCEPT !.projections = kept]
          \/ engine' = [engine EXCEPT !.projections = kept]
        BY <2>3 DEF EngineAfter
    <2> QED
        BY <1>0, <2>2, <2>4 DEF Engines, Released
<1> QED
    BY <1>1, <1>3, <1>4, <1>5, <1>6, <1>7, <1>8, <1>9, <1>10, <1>11, <1>12, OthersStandStill

\* A thread has been resumed when nothing is left to restore.
LEMMA ResumedIsRestored ==
    ASSUME Types, Stands, Restores, Acts, engine.at = "restoring", engine'.at = "ready", ~raced
    PROVE  \A k \in DOMAIN codex : HasMessages(codex[k].turn)
<1>0. engine \in Engines /\ Released.at = "idle"
    BY DEF Types, Released, Engines
<1>1. CASE RestoreEnds
    <2>1. engine.restore = <<>>
        BY <1>1 DEF RestoreEnds
    <2>2. \A i \in DOMAIN engine.restore : FALSE
        BY <2>1
    <2> QED
        BY <2>2 DEF Restores
<1>2. CASE RestoreTurn
    <2>1. engine' = Released \/ engine' = [engine EXCEPT !.restore = Tail(@)]
        BY <1>2 DEF RestoreTurn
    <2> QED
        BY <1>0, <2>1 DEF Engines
<1>3. CASE ServerLost \/ Kill
    <2>1. engine'.at = "idle"
        <3>1. ASSUME ServerLost PROVE engine'.at = "idle"
            <4>1. engine' = [Released EXCEPT !.resumed = FALSE, !.projections = {}]
                BY <3>1 DEF ServerLost
            <4> QED
                BY <1>0, <4>1 DEF Engines, Released
        <3>2. ASSUME Kill PROVE engine'.at = "idle"
            <4>1. engine' = IdleEngine
                BY <3>2 DEF Kill
            <4> QED
                BY <4>1 DEF IdleEngine
        <3> QED
            BY <1>3, <3>1, <3>2
    <2> QED
        BY <2>1
<1>4. CASE Reserve \/ LoadSession \/ BindThread \/ CodexStarts \/ Activate
    BY <1>4 DEF Reserve, LoadSession, BindThread, CodexStarts, Activate, At
<1>5. CASE CodexAnswers \/ UNCHANGED <<engine, codex>>
    BY <1>5 DEF CodexAnswers
<1>6. ASSUME NEW i \in DOMAIN codex, Terminal(i)
      PROVE  FALSE
    BY <1>6 DEF Terminal, Stands
<1> QED
    BY <1>1, <1>2, <1>3, <1>4, <1>5, <1>6, OthersStandStill

-----------------------------------------------------------------------------
(* A deleted session *)

\* No turn of a session without its row gets further than finding that out, unless it
\* was under way when the row went.
Gone ==
    /\ raced \in BOOLEAN
    /\ (~row.exists /\ ~raced) => engine.at \in {"idle", "reserved"}

\* The session is there at first.
LEMMA GoneAtFirst ==
    ASSUME Init
    PROVE  Gone
<1>1. row.exists /\ raced = FALSE
    BY DEF Init
<1> QED
    BY <1>1 DEF Gone

\* The row goes with the last of the statements, after all that the others delete.
LEMMA RowGoesLast ==
    ASSUME NEW n \in 0 .. Len(Statements), "sessions" \in Range(SubSeq(Statements, 1, n))
    PROVE  {"messages", "turn_receipts", "codex_events"} \subseteq Range(SubSeq(Statements, 1, n))
<1> DEFINE S == {"messages", "turn_receipts", "drafts", "usage", "codex_events", "sessions"}
           r == SubSeq(Statements, 1, n)
<1>1. /\ Statements \in Seq(S) /\ Len(Statements) = 6
      /\ Statements[1] = "messages" /\ Statements[2] = "turn_receipts" /\ Statements[3] = "drafts"
      /\ Statements[4] = "usage" /\ Statements[5] = "codex_events" /\ Statements[6] = "sessions"
    <2>1. Statements = <<"messages", "turn_receipts", "drafts", "usage", "codex_events", "sessions">>
        BY DEF Statements
    <2>2. /\ Len(Statements) = 6
          /\ Statements[1] = "messages" /\ Statements[2] = "turn_receipts" /\ Statements[3] = "drafts"
          /\ Statements[4] = "usage" /\ Statements[5] = "codex_events" /\ Statements[6] = "sessions"
        BY <2>1
    <2>3. Statements \in Seq(S)
        BY <2>1
    <2> QED
        BY <2>2, <2>3
<1>2. n \in 0 .. 6
    BY <1>1
<1> HIDE DEF S
<1>3. Len(r) = n /\ DOMAIN r = 1 .. n /\ \A i \in 1 .. n : r[i] = Statements[i]
    BY <1>1, <1>2, SubSeqProperties
<1> HIDE DEF r
<1>4. PICK i \in 1 .. n : Statements[i] = "sessions"
    BY <1>3 DEF Range, r
<1>5. i = 6 /\ n = 6
    <2>1. i \in 1 .. 6
        BY <1>2
    <2>2. i \notin {1, 2, 3, 4, 5}
        BY <1>1, <1>4
    <2> QED
        BY <1>2, <2>1, <2>2
<1>6. r[1] = "messages" /\ r[2] = "turn_receipts" /\ r[5] = "codex_events"
      /\ 1 \in DOMAIN r /\ 2 \in DOMAIN r /\ 5 \in DOMAIN r
    BY <1>1, <1>3, <1>5
<1> QED
    BY <1>6 DEF Range, r

\* What one run of the statements leaves
LEMMA DeletionLeaves ==
    ASSUME Types, DeleteRuns
    PROVE  (row.exists /\ ~row'.exists) =>
              /\ messages' = <<>>
              /\ \A t \in Turns : receipts'[t] = NoReceipt
              /\ events' = events \ OfSession(Chat, events)
<1>0. row \in Rows
    BY DEF Types
<1>1. PICK n \in 0 .. Len(Statements) :
         LET gone == Range(SubSeq(Statements, 1, n))
         IN  /\ messages' = IF "messages" \in gone THEN <<>> ELSE messages
             /\ receipts' = IF "turn_receipts" \in gone THEN [t \in Turns |-> NoReceipt] ELSE receipts
             /\ events' = IF "codex_events" \in gone THEN events \ OfSession(Chat, events) ELSE events
             /\ row' = [row EXCEPT !.exists = @ /\ "sessions" \notin gone]
    BY DEF DeleteRuns
<1> DEFINE gone == Range(SubSeq(Statements, 1, n))
<1>2. /\ messages' = IF "messages" \in gone THEN <<>> ELSE messages
      /\ receipts' = IF "turn_receipts" \in gone THEN [t \in Turns |-> NoReceipt] ELSE receipts
      /\ events' = IF "codex_events" \in gone THEN events \ OfSession(Chat, events) ELSE events
      /\ row' = [row EXCEPT !.exists = @ /\ "sessions" \notin gone]
    BY <1>1
<1>3. "sessions" \in gone => {"messages", "turn_receipts", "codex_events"} \subseteq gone
    BY RowGoesLast
<1> HIDE DEF gone
<1>4. row'.exists = (row.exists /\ "sessions" \notin gone)
    BY <1>0, <1>2 DEF Rows
<1> QED
    BY <1>2, <1>3, <1>4

\* A deleted session is not begun again.
LEMMA GoneKept ==
    ASSUME Types, Gone, Acts
    PROVE  Gone'
<1>0. engine \in Engines /\ Released.at = "idle" /\ row \in Rows
    BY DEF Types, Released, Engines
<1>1. ASSUME row'.exists = row.exists, raced' = raced, ~row.exists => engine'.at \in {engine.at, "idle", "reserved"}
      PROVE  Gone'
    BY <1>1 DEF Gone
<1>2. ASSUME NEW thread, NEW kind, NEW bytes, Record(thread, kind, bytes)
      PROVE  Gone'
    BY <1>1, <1>2 DEF Record
<1>3. CASE Reserve
    <2>1. row' = row /\ raced' = raced /\ engine' = [engine EXCEPT !.turn = TurnOrder[Started + 1], !.at = "reserved"]
        BY <1>3 DEF Reserve, tables
    <2>2. engine'.at = "reserved"
        BY <1>0, <2>1 DEF Engines
    <2> QED
        BY <1>1, <2>1, <2>2
<1>4. CASE LoadSession
    <2>1. row' = row /\ raced' = raced /\ (~row.exists => engine' = Released)
        BY <1>4 DEF LoadSession, tables
    <2> QED
        BY <1>0, <1>1, <2>1
<1>5. CASE BindThread
    <2>1. /\ raced' = raced /\ row' = [row EXCEPT !.bound = row.exists]
          /\ (~row.exists => engine' = Released)
        BY <1>5 DEF BindThread
    <2>2. row'.exists = row.exists
        BY <1>0, <2>1 DEF Rows
    <2> QED
        BY <1>0, <1>1, <2>1, <2>2
<1>6. CASE RestoreTurn \/ RestoreEnds \/ CodexStarts \/ Activate
    <2>1. row' = row /\ raced' = raced
        BY <1>6 DEF RestoreTurn, RestoreEnds, CodexStarts, Activate, tables
    <2>2. engine.at \notin {"idle", "reserved"}
        BY <1>6 DEF RestoreTurn, RestoreEnds, CodexStarts, Activate, At
    <2> QED
        BY <2>1, <2>2 DEF Gone
<1>7. ASSUME NEW i \in DOMAIN codex, Terminal(i)
      PROVE  Gone'
    <2>1. row' = row /\ raced' = raced
        BY <1>7 DEF Terminal
    <2>2. PICK kept : engine' = EngineAfter(codex[i].turn, kept) \/ engine' = engine
        BY <1>7 DEF Terminal
    <2>3. EngineAfter(codex[i].turn, kept).at \in {"idle", engine.at}
        BY <1>0 DEF EngineAfter, Released, Engines
    <2> QED
        BY <1>1, <2>1, <2>2, <2>3
<1>8. CASE CodexAnswers \/ ReadPage \/ CheckInactive \/ UNCHANGED vars
    BY <1>1, <1>8 DEF CodexAnswers, ReadPage, CheckInactive, vars, tables
<1>9. CASE ServerLost
    <2>1. row' = row /\ raced' = raced /\ engine' = [Released EXCEPT !.resumed = FALSE, !.projections = {}]
        BY <1>9 DEF ServerLost, tables
    <2>2. engine'.at = "idle"
        BY <1>0, <2>1 DEF Released, Engines
    <2> QED
        BY <1>1, <2>1, <2>2
<1>10. CASE Kill
    BY <1>1, <1>10 DEF Kill, IdleEngine
<1>11. ASSUME NEW t, NEW state, WriteReceipt(t, state)
       PROVE  Gone'
    BY <1>1, <1>11 DEF WriteReceipt
<1>12. ASSUME NEW c, \/ \E model, purpose : ReadConfig(c, model, purpose)
                     \/ UpdateModel(c) \/ SelectAccount(c)
       PROVE  Gone'
    <2>1. raced' = raced /\ engine' = engine
        BY <1>12 DEF ReadConfig, UpdateModel, SelectAccount, CallerDone, CallerMoves
    <2>2. \/ row' = row \/ row' = [row EXCEPT !.model = callers[c].model]
          \/ row' = [row EXCEPT !.account = Primary, !.model = callers[c].model]
        BY <1>12 DEF ReadConfig, UpdateModel, SelectAccount
    <2>3. row'.exists = row.exists
        BY <1>0, <2>2 DEF Rows
    <2> QED
        BY <1>1, <2>1, <2>3
<1>13. CASE DeleteRuns
    BY <1>13 DEF DeleteRuns, Gone, At
<1> QED
    BY <1>2, <1>3, <1>4, <1>5, <1>6, <1>7, <1>8, <1>9, <1>10, <1>11, <1>12, <1>13 DEF Acts

\* Nothing but a deletion takes the row of a session.
LEMMA OnlyDeletionDeletes ==
    ASSUME Types, Acts, row.exists, ~row'.exists
    PROVE  DeleteRuns
<1>0. row \in Rows
    BY DEF Types
<1>1. ASSUME ~DeleteRuns
      PROVE  \/ row' = row
             \/ row' = [row EXCEPT !.bound = row.exists]
             \/ \E c \in Callers : \/ row' = [row EXCEPT !.model = callers[c].model]
                                   \/ row' = [row EXCEPT !.account = Primary, !.model = callers[c].model]
    BY <1>1 DEF Acts, Record, Reserve, LoadSession, BindThread, RestoreTurn, RestoreEnds, CodexStarts, Activate,
           CodexAnswers, ServerLost, Kill, Terminal, WriteReceipt, ReadConfig, UpdateModel, SelectAccount,
           CallerDone, CallerMoves, ReadPage, CheckInactive, vars, tables
<1> QED
    BY <1>0, <1>1 DEF Rows

\* Nothing is started of a session whose engine stands still, and no row of the user
\* is written of it.
LEMMA StandingStill ==
    ASSUME Types, Acts, engine.at \in {"idle", "reserved"}
    PROVE  /\ Len(codex') = Len(codex)
           /\ \A i \in DOMAIN messages' : messages'[i].role = "user" =>
                 \E j \in DOMAIN messages : messages[j] = messages'[i]
<1>0. messages \in Seq(Message) /\ codex \in Seq(CodexTurn)
    BY DEF Types
<1>1. codex' = codex \/ CodexAnswers
    BY DEF Acts, Record, Reserve, LoadSession, BindThread, RestoreTurn, RestoreEnds, CodexStarts, Activate,
           ServerLost, Kill, Terminal, WriteReceipt, ReadConfig, UpdateModel, SelectAccount, CallerDone,
           CallerMoves, ReadPage, CheckInactive, DeleteRuns, vars, At
<1>2. CodexAnswers => Len(codex') = Len(codex)
    BY <1>0 DEF CodexAnswers
<1>3. MessageStep
    BY ActsOnMessages
<1>4. \/ messages' \in {messages, <<>>}
      \/ \E i \in DOMAIN codex : messages' = messages \o AnswerOf(i)
    BY <1>3 DEF MessageStep
<1>5. ASSUME NEW i \in DOMAIN codex, messages' = messages \o AnswerOf(i),
             NEW k \in DOMAIN messages', messages'[k].role = "user"
      PROVE  \E j \in DOMAIN messages : messages[j] = messages'[k]
    <2>1. AnswerOf(i) = <<>> \/ AnswerOf(i) = <<AnswerRow(codex[i].turn)>>
        BY AnswerRows
    <2>2. AnswerOf(i) \in Seq(Message)
        BY AnswerRows
    <2> HIDE DEF Message
    <2>3. CASE k \in DOMAIN messages
        <3>1. messages'[k] = messages[k]
            BY <1>0, <1>5, <2>2, <2>3
        <3> QED
            BY <2>3, <3>1
    <2>4. CASE k \notin DOMAIN messages
        <3>1. AnswerOf(i) = <<AnswerRow(codex[i].turn)>> /\ messages'[k] = AnswerOf(i)[1]
            BY <1>0, <1>5, <2>1, <2>2, <2>4
        <3>2. messages'[k] = AnswerRow(codex[i].turn)
            BY <3>1
        <3> QED
            BY <1>5, <3>2 DEF AnswerRow
    <2> QED
        BY <2>3, <2>4
<1>6. ASSUME messages' \in {messages, <<>>}
      PROVE  \A i \in DOMAIN messages' : \E j \in DOMAIN messages : messages[j] = messages'[i]
    BY <1>6
<1> QED
    BY <1>1, <1>2, <1>4, <1>5, <1>6

-----------------------------------------------------------------------------
(* What the store promises *)

StoreInv == Types /\ Stands /\ Logged /\ Walks /\ Once /\ Anchored /\ Restores

\* The invariant holds at first ...
LEMMA StoreInvAtFirst ==
    ASSUME Init
    PROVE  StoreInv
<1>1. Anchored
    BY DEF Init, Anchored
<1>2. Restores
    BY DEF Init, Restores, IdleEngine
<1> QED
    BY <1>1, <1>2, TypesAtFirst, StandsAtFirst, LoggedAtFirst, WalksAtFirst, OnceAtFirst DEF StoreInv

\* ... and every step keeps it.
LEMMA StoreInvKept ==
    ASSUME StoreInv, [Next]_vars
    PROVE  StoreInv'
<1>1. Acts
    BY NextActs
<1>2. Types /\ Stands /\ Logged /\ Walks /\ Once /\ Anchored /\ Restores
    BY DEF StoreInv
<1>3. Types' /\ Stands'
    BY <1>1, <1>2, TypesKept
<1>4. Logged' /\ Walks'
    BY <1>1, <1>2, ActsOnEvents, LoggedKept, WalksKept
<1>5. Once' /\ Anchored' /\ Restores'
    BY <1>1, <1>2, OnceKept, AnchoredKept, RestoresKept
<1> QED
    BY <1>3, <1>4, <1>5 DEF StoreInv

\* The invariant holds of every reachable state.
THEOREM StoreInvariance == Spec => []StoreInv
<1>1. Init => StoreInv
    BY StoreInvAtFirst
<1>2. StoreInv /\ [Next]_vars => StoreInv'
    BY StoreInvKept
<1> QED
    BY <1>1, <1>2, PTL DEF Spec

\* The invariant gives the types.
LEMMA StoreTypes ==
    ASSUME StoreInv
    PROVE  TypeOK
<1>1. row \in [exists : BOOLEAN, model : Models, account : Accounts, bound : BOOLEAN]
    BY DEF StoreInv, Types, Rows
<1>2. \A e \in events : e.seq \in 1 .. lastSeq /\ e.thread \in Threads /\ e.bytes \in 1 .. MaxBytes
    BY DEF StoreInv, Logged
<1>3. \A i \in DOMAIN messages : messages[i] \in Message
    BY DEF StoreInv, Types
<1>4. \A i \in DOMAIN messages : messages[i].turn \in Turns /\ messages[i].role \in {"user", "assistant"}
    BY <1>3 DEF Message
<1>5. ASSUME NEW t \in Turns, receipts[t] # NoReceipt
      PROVE  /\ receipts[t].state \in ReceiptStates /\ receipts[t].status \in Statuses
             /\ receipts[t].anchor \in 0 .. 2 * Cardinality(Turns)
    <2>1. receipts[t] \in AReceipt
        BY <1>5 DEF StoreInv, Types
    <2>2. receipts[t].anchor \in Nat /\ receipts[t].state \in ReceiptStates /\ receipts[t].status \in Statuses
        BY <2>1 DEF AReceipt
    <2>3. receipts[t].anchor <= 2 * Cardinality(Turns)
        BY <1>5 DEF StoreInv, Anchored
    <2> QED
        BY <2>2, <2>3, TurnOrderIs
<1>6. engine.projections \subseteq engine.mine /\ engine.mine \subseteq Turns
    BY Fields DEF StoreInv, Types, Stands
<1> QED
    BY <1>1, <1>2, <1>4, <1>5, <1>6 DEF TypeOK

\* The activity is within the bounds of every thread, every session and the whole,
\* its sequences name one row each for ever, and a reader of its pages misses no row
\* (db.rs, codex_events and codex_activity_page).
THEOREM Activity == Spec => []ActivityIsSound
<1>1. ASSUME StoreInv PROVE ActivityIsSound
    BY <1>1, StoreTypes, LoggedIsRetained DEF StoreInv, Walks, ActivityIsSound
<1> QED
    BY <1>1, StoreInvariance, PTL

\* Every turn is in the transcript once, for any number of failures, lost servers,
\* kills, deletions and announcements of its end (complete_turn, reconcile_resumed_thread).
THEOREM Transcript == Spec => []TurnsAppearOnce
<1>1. ASSUME StoreInv PROVE TurnsAppearOnce
    BY <1>1 DEF StoreInv, Once, Distinct, TurnsAppearOnce
<1> QED
    BY <1>1, StoreInvariance, PTL

\* However often a deletion is cut off and whatever is written late, in any scenario:
\* the row of a session goes only when nothing of it is left, and a session without
\* one is neither begun again nor restored (delete_session, codex_session_config).
THEOREM Deletion == Spec => DeletionIsWhole
<1>1. Init => StoreInv /\ Gone
    BY StoreInvAtFirst, GoneAtFirst
<1>2. (StoreInv /\ Gone) /\ [Next]_vars => (StoreInv /\ Gone)'
    <2>1. ASSUME StoreInv, Gone, [Next]_vars PROVE Gone'
        BY <2>1, NextActs, GoneKept DEF StoreInv
    <2> QED
        BY <2>1, StoreInvKept
<1>3. ASSUME StoreInv, Gone, [Next]_vars
      PROVE  [/\ row.exists /\ ~row'.exists =>
                    /\ messages' = <<>> /\ OfSession(Chat, events') = {}
                    /\ \A t \in Turns : receipts'[t] = NoReceipt
              /\ ~row.exists /\ ~raced =>
                    /\ Len(codex') = Len(codex)
                    /\ \A i \in DOMAIN messages' : messages'[i].role = "user" =>
                          \E j \in DOMAIN messages : messages[j] = messages'[i]]_vars
    <2>1. Types /\ Acts
        BY <1>3, NextActs DEF StoreInv
    <2>2. row.exists /\ ~row'.exists => DeleteRuns
        BY <2>1, OnlyDeletionDeletes
    <2>3. ASSUME row.exists, ~row'.exists
          PROVE  /\ messages' = <<>> /\ OfSession(Chat, events') = {}
                 /\ \A t \in Turns : receipts'[t] = NoReceipt
        BY <2>1, <2>2, <2>3, DeletionLeaves DEF OfSession
    <2>4. ~row.exists /\ ~raced => engine.at \in {"idle", "reserved"}
        BY <1>3 DEF Gone
    <2> QED
        BY <2>1, <2>3, <2>4, StandingStill
<1> QED
    BY <1>1, <1>2, <1>3, PTL DEF Spec, DeletionIsWhole

\* A thread that has been resumed has all its turns in the transcript (reconcile_resumed_thread).
THEOREM Restoration == Spec => HistoryIsRestored
<1>1. ASSUME StoreInv, [Next]_vars
      PROVE  [(At("restoring") /\ engine'.at = "ready" /\ ~raced) =>
                 \A i \in DOMAIN codex : HasMessages(codex[i].turn)]_engine
    BY <1>1, NextActs, ResumedIsRestored DEF StoreInv, At
<1> QED
    BY <1>1, StoreInvariance, PTL DEF Spec, HistoryIsRestored

\* A restart closes a receipt and keeps the outcome that was known.
LEMMA KilledReceipts ==
    ASSUME Types, NEW r \in AReceipt
    PROVE  /\ IsVisible(Recovered(r))
           /\ r.state # "pending" => Recovered(r).status = r.status
<1>1. r.state \in {"pending", "known", "terminal"} /\ r.status \in {"interrupted", "completed"}
    BY DEF AReceipt, ReceiptStates, Statuses
<1>2. CASE r.state = "terminal"
    BY <1>2 DEF Recovered, IsVisible
<1>3. CASE r.state # "terminal"
    <2>1. Recovered(r) = [r EXCEPT !.state = "terminal",
                                   !.status = IF OutcomeIsKnown(r) THEN r.status ELSE "interrupted"]
        BY <1>1, <1>3 DEF Recovered
    <2>2. Recovered(r).state = "terminal"
          /\ Recovered(r).status = IF OutcomeIsKnown(r) THEN r.status ELSE "interrupted"
        BY <2>1 DEF AReceipt
    <2> QED
        BY <1>1, <1>3, <2>2 DEF IsVisible, OutcomeIsKnown
<1> QED
    BY <1>2, <1>3

\* The account of a session that has begun, the proof that something ended and the
\* outcome of a turn outlive whatever comes later, a restart included (db.rs).
THEOREM Facts == Spec => FactsStay
<1>1. ASSUME StoreInv, [Next]_vars
      PROVE  [(row.exists /\ row.account # NoAccount /\ messages # <<>>) => row'.account = row.account]_row
    <2>1. row'.account # row.account => row.account = NoAccount \/ ~HasStarted
        BY <1>1, NextActs, RowStays DEF StoreInv
    <2> QED
        BY <2>1 DEF HasStarted
<1>2. ASSUME StoreInv, [Next]_vars
      PROVE  [\A e \in events \ events' :
                 (IsTerminal(e) /\ appends' # appends) =>
                    \E rest \in {OfThread(e, events'), OfSession(e.session, events'), events'} :
                       \A d \in rest : IsTerminal(d)]_vars
    <2>1. EventStep /\ Types /\ Logged
        BY <1>2, NextActs, ActsOnEvents DEF StoreInv
    <2> QED
        BY <2>1, TerminalsGoLast
<1>3. ASSUME StoreInv, [Next]_vars
      PROVE  [\A t \in Turns :
                 (receipts[t] # NoReceipt /\ receipts'[t] # NoReceipt /\ receipts'[t] # receipts[t]) =>
                    /\ receipts[t].state # "terminal"
                    /\ receipts[t].state = "known" => receipts'[t].state # "pending"
                    /\ receipts'[t].anchor = receipts[t].anchor]_receipts
    <2>1. Types /\ Acts
        BY <1>3, NextActs DEF StoreInv
    <2>2. \A t \in Turns : receipts[t] \in {NoReceipt} \cup AReceipt /\ Advanced(receipts[t], receipts'[t])
        BY <2>1, ReceiptSteps DEF Types
    <2> QED
        BY <2>1, <2>2, AdvancedIsReceipt
<1>4. ASSUME StoreInv, [Next]_vars
      PROVE  [process' # process =>
                 \A t \in Turns : receipts[t] # NoReceipt =>
                    /\ IsVisible(receipts'[t])
                    /\ receipts[t].state # "pending" => receipts'[t].status = receipts[t].status]_process
    <2>1. Types /\ Acts
        BY <1>4, NextActs DEF StoreInv
    <2>2. \A t \in Turns : receipts[t] # NoReceipt => receipts[t] \in AReceipt
        BY <2>1 DEF Types
    <2>3. process' # process => \A t \in Turns : receipts'[t] = Recovered(receipts[t])
        BY <2>1, ReceiptSteps
    <2> QED
        BY <2>1, <2>2, <2>3, KilledReceipts
<1> QED
    BY <1>1, <1>2, <1>3, <1>4, StoreInvariance, PTL
    DEF Spec, FactsStay, AccountStays, TerminalsOutlive, ReceiptsOnlyAdvance, RestartClosesReceipts
=============================================================================
