----------------------------- MODULE ConsoleProofs -----------------------------
(***************************************************************************)
(* Proofs about the console, for all messages, words of any width, lines   *)
(* of any length and any characters typed: what is printed is each message *)
(* with its directives rendered, what snprintf leaves is in its buffer,    *)
(* and readline returns, and shows, the line as it was edited.             *)
(***************************************************************************)
EXTENDS Libs, StringsProofs, SequenceTheorems

-----------------------------------------------------------------------------
(* Sequences: what is left of one behind its first p elements, and what is *)
(* joined from pieces.                                                     *)

Rest(s, p) == SubSeq(s, p + 1, Len(s))

LEMMA RestAll ==
  ASSUME NEW V, NEW s \in Seq(V)
  PROVE  Rest(s, 0) = s
BY SubSeqFull DEF Rest

LEMMA RestNone ==
  ASSUME NEW V, NEW s \in Seq(V)
  PROVE  Rest(s, Len(s)) = <<>>
BY SubSeqEmpty DEF Rest

LEMMA RestMoves ==
  ASSUME NEW V, NEW s \in Seq(V), NEW p \in Nat, p < Len(s)
  PROVE  /\ Rest(s, p) # <<>>
         /\ Head(Rest(s, p)) = s[p + 1]
         /\ Tail(Rest(s, p)) = Rest(s, p + 1)
<1>1. Len(s) \in Nat /\ p + 1 \in 1..Len(s) /\ Len(s) \in (p + 1)..Len(s)
  OBVIOUS
<1>2. Head(Rest(s, p)) = s[p + 1] /\ Tail(Rest(s, p)) = Rest(s, p + 1)
  BY <1>1, HeadTailOfSubSeq DEF Rest
<1>3. Len(Rest(s, p)) # 0
  BY <1>1 DEF Rest
<1> QED
  BY <1>2, <1>3

\* u is s and, behind it, t.
Joins(s, t, u) ==
  /\ Len(s) \in Nat /\ Len(t) \in Nat /\ Len(u) \in Nat /\ Len(u) = Len(s) + Len(t)
  /\ \A x \in 1..Len(s) : u[x] = s[x]
  /\ \A x \in 1..Len(t) : u[Len(s) + x] = t[x]

LEMMA ConcatIs ==
  ASSUME NEW V, NEW s \in Seq(V), NEW t \in Seq(V), NEW u, u = s \o t
  PROVE  u \in Seq(V) /\ Joins(s, t, u)
<1>1. /\ u \in Seq(V) /\ Len(u) = Len(s) + Len(t)
      /\ Len(s) \in Nat /\ Len(t) \in Nat
  BY ConcatProperties
<1>2. \A x \in 1..Len(s) : u[x] = s[x]
  BY <1>1
<1>3. \A x \in 1..Len(t) : u[Len(s) + x] = t[x]
  BY <1>1
<1> QED
  BY <1>1, <1>2, <1>3 DEF Joins

ArePieces(pieces, n, V) == \A k \in 1..n : pieces[k] \in Seq(V)

\* join[k] are the first k pieces, one behind the other.
IsJoin(join, pieces, n) ==
  join[0] = <<>> /\ \A k \in 1..n : join[k] = join[k - 1] \o pieces[k]

Join(pieces, n) == CHOOSE join : DOMAIN join = 0..n /\ IsJoin(join, pieces, n)

LEMMA JoinTyped ==
  ASSUME NEW V, NEW n \in Nat, NEW pieces, NEW J, ArePieces(pieces, n, V),
         IsJoin(J, pieces, n)
  PROVE  \A k \in 0..n : J[k] \in Seq(V)
<1>1. ASSUME NEW k \in 1..n, J[k - 1] \in Seq(V) PROVE J[k] \in Seq(V)
  <2>1. J[k] = J[k - 1] \o pieces[k] /\ pieces[k] \in Seq(V)
    BY DEF IsJoin, ArePieces
  <2> QED
    BY <1>1, <2>1, ConcatProperties
<1>2. J[0] \in Seq(V)
  BY DEF IsJoin
<1> QED
  BY <1>1, <1>2, RecursionTyped

LEMMA JoinExists ==
  ASSUME NEW V, NEW n \in Nat, NEW pieces, ArePieces(pieces, n, V)
  PROVE  /\ DOMAIN Join(pieces, n) = 0..n
         /\ IsJoin(Join(pieces, n), pieces, n)
         /\ \A k \in 0..n : Join(pieces, n)[k] \in Seq(V)
<1> DEFINE step == [k \in 1..n |-> [s \in Seq(V) |-> s \o pieces[k]]]
<1>1. step \in [1..n -> [Seq(V) -> Seq(V)]]
  <2>1. ASSUME NEW k \in 1..n, NEW s \in Seq(V) PROVE s \o pieces[k] \in Seq(V)
    <3>1. pieces[k] \in Seq(V)
      BY DEF ArePieces
    <3> QED
      BY <3>1, ConcatProperties
  <2> QED
    BY <2>1
<1>2. <<>> \in Seq(V)
  OBVIOUS
<1>3. PICK f : Follows(f, step, <<>>, n, Seq(V))
  <2> HIDE DEF step
  <2> QED
    BY <1>1, <1>2, RecursionFollows
<1>4. ASSUME NEW k \in 1..n PROVE f[k] = f[k - 1] \o pieces[k]
  <2>1. k - 1 \in 0..n
    OBVIOUS
  <2>2. f[k - 1] \in Seq(V)
    BY <1>3, <2>1 DEF Follows
  <2>3. f[k] = step[k][f[k - 1]]
    BY <1>3 DEF Follows
  <2> QED
    BY <2>2, <2>3
<1>5. DOMAIN f = 0..n /\ IsJoin(f, pieces, n)
  BY <1>3, <1>4 DEF IsJoin, Follows
<1>6. DOMAIN Join(pieces, n) = 0..n /\ IsJoin(Join(pieces, n), pieces, n)
  BY <1>5 DEF Join
<1> QED
  BY <1>6, JoinTyped

\* FlattenSeq joins all pieces.
LEMMA FlattenIsJoin ==
  ASSUME NEW V, NEW n \in Nat, NEW pieces, pieces \in [1..n -> Seq(V)]
  PROVE  FlattenSeq(pieces) = Join(pieces, n)[n]
<1> DEFINE J == Join(pieces, n)
           IsIt(f) == f = [k \in 1..n |-> IF k = 1 THEN pieces[k] ELSE f[k - 1] \o pieces[k]]
           g == [k \in 1..n |-> J[k]]
<1>1. pieces \in Seq(Seq(V)) /\ Len(pieces) = n
  OBVIOUS
<1>2. IsJoin(J, pieces, n) /\ \A k \in 0..n : J[k] \in Seq(V)
  BY JoinExists DEF ArePieces
<1> HIDE DEF J
<1>3. CASE n = 0
  <2>1. pieces = <<>>
    BY <1>1, <1>3, EmptySeq
  <2>2. FlattenSeq(pieces) = <<>>
    BY <1>1, <1>3, <2>1 DEF FlattenSeq
  <2> QED
    BY <1>2, <1>3, <2>2 DEF IsJoin, J
<1>4. CASE n # 0
  <2>1. IsIt(g)
    <3>1. ASSUME NEW k \in 1..n
          PROVE  g[k] = IF k = 1 THEN pieces[k] ELSE g[k - 1] \o pieces[k]
      <4>1. CASE k = 1
        <5>1. J[1] = <<>> \o pieces[1] /\ pieces[1] \in Seq(V)
          <6>1. 1 \in 1..n /\ 1 - 1 = 0
            BY <4>1
          <6> QED
            BY <1>2, <6>1 DEF IsJoin
        <5>2. J[1] = pieces[1]
          BY <5>1, ConcatEmptySeq
        <5> QED
          BY <4>1, <5>2
      <4>2. CASE k # 1
        <5>1. k - 1 \in 1..n
          BY <4>2
        <5> QED
          BY <1>2, <4>2, <5>1 DEF IsJoin
      <4> QED
        BY <4>1, <4>2
    <3> QED
      BY <3>1
  <2>2. ASSUME NEW f, IsIt(f) PROVE f[n] = J[n]
    <3>1. \A k \in 1..n : f[k] = IF k = 1 THEN pieces[k] ELSE f[k - 1] \o pieces[k]
      BY <2>2
    <3> DEFINE bad == {k \in 1..n : f[k] # J[k]}
    <3>2. SUFFICES ASSUME bad # {} PROVE FALSE
      BY <1>4
    <3>3. PICK m \in bad : \A l \in bad : m <= l
      <4>1. bad \in SUBSET Nat
        OBVIOUS
      <4> HIDE DEF bad
      <4> QED
        BY <3>2, <4>1, LeastNatural
    <3>4. g[m] = IF m = 1 THEN pieces[m] ELSE g[m - 1] \o pieces[m]
      BY <2>1
    <3>5. CASE m = 1
      BY <3>1, <3>3, <3>4, <3>5
    <3>6. CASE m # 1
      <4>1. m - 1 \in 1..n /\ m - 1 \notin bad
        <5>1. m \in 1..n
          BY <3>3
        <5>2. m - 1 \in 1..n /\ ~(m <= m - 1)
          BY <3>6, <5>1
        <5> HIDE DEF bad
        <5> QED
          BY <3>3, <5>2
      <4> QED
        BY <3>1, <3>3, <3>4, <3>6, <4>1
    <3> QED
      BY <3>5, <3>6
  <2>3. FlattenSeq(pieces) = (CHOOSE f : IsIt(f))[n]
    BY <1>1, <1>4 DEF FlattenSeq
  <2>4. IsIt(CHOOSE f : IsIt(f))
    BY <2>1
  <2> HIDE DEF IsIt
  <2> QED
    BY <2>2, <2>3, <2>4 DEF J
<1> QED
  BY <1>3, <1>4

\* One piece more.
LEMMA JoinedOne ==
  ASSUME NEW V, NEW n \in Nat, NEW pieces, NEW J, ArePieces(pieces, n, V),
         IsJoin(J, pieces, n), NEW k \in 1..n
  PROVE  Joins(J[k - 1], pieces[k], J[k])
<1>1. J[k - 1] \in Seq(V) /\ pieces[k] \in Seq(V) /\ J[k] = J[k - 1] \o pieces[k]
  <2>1. k - 1 \in 0..n
    OBVIOUS
  <2> QED
    BY <2>1, JoinTyped DEF ArePieces, IsJoin
<1> QED
  BY <1>1, ConcatIs

\* s is what t begins with.
Begins(s, t) ==
  /\ Len(s) \in Nat /\ Len(t) \in Nat /\ Len(s) <= Len(t)
  /\ \A x \in 1..Len(s) : t[x] = s[x]

LEMMA BeginsJoined ==
  ASSUME NEW s, NEW t, NEW u, NEW v, Begins(s, t), Joins(t, v, u)
  PROVE  Begins(s, u)
<1>1. PICK a \in Nat, b \in Nat, c \in Nat, d \in Nat :
        a = Len(s) /\ b = Len(t) /\ c = Len(u) /\ d = Len(v) /\ a <= b /\ c = b + d
  BY DEF Begins, Joins
<1>2. a <= c /\ \A x \in 1..a : x \in 1..b
  BY <1>1
<1> QED
  BY <1>1, <1>2 DEF Begins, Joins

LEMMA BeginsItself ==
  ASSUME NEW V, NEW s \in Seq(V)
  PROVE  Begins(s, s)
<1>1. Len(s) \in Nat
  OBVIOUS
<1> QED
  BY <1>1 DEF Begins

LEMMA JoinedBegin ==
  ASSUME NEW V, NEW n \in Nat, NEW pieces, NEW J, ArePieces(pieces, n, V),
         IsJoin(J, pieces, n), NEW k \in 0..n
  PROVE  Begins(J[k], J[n])
<1> DEFINE bad == {q \in k..n : ~Begins(J[k], J[q])}
<1>1. SUFFICES ASSUME bad # {} PROVE FALSE
  OBVIOUS
<1>2. PICK m \in bad : \A l \in bad : m <= l
  <2>1. bad \in SUBSET Nat
    OBVIOUS
  <2> HIDE DEF bad
  <2> QED
    BY <1>1, <2>1, LeastNatural
<1>3. Begins(J[k], J[k])
  BY JoinTyped, BeginsItself
<1>4. m \in 1..n /\ m - 1 \in k..n /\ ~(m <= m - 1) /\ ~Begins(J[k], J[m])
  <2>1. m \in k..n /\ ~Begins(J[k], J[m])
    OBVIOUS
  <2>2. m # k
    BY <1>3, <2>1
  <2> QED
    BY <2>1, <2>2
<1>5. Begins(J[k], J[m - 1])
  <2>1. m - 1 \notin bad
    <3> HIDE DEF bad
    <3> QED
      BY <1>2, <1>4
  <2> QED
    BY <1>4, <2>1
<1>6. Joins(J[m - 1], pieces[m], J[m])
  BY <1>4, JoinedOne
<1> QED
  BY <1>4, <1>5, <1>6, BeginsJoined

\* What is joined to the beginning of u is there in u.
LEMMA JoinedThere ==
  ASSUME NEW s, NEW t, NEW v, NEW u, Joins(s, v, t), Begins(t, u)
  PROVE  \A x \in 1..Len(v) : u[Len(s) + x] = v[x]
<1>1. PICK a \in Nat, b \in Nat, c \in Nat :
        a = Len(s) /\ b = Len(v) /\ c = Len(t) /\ c = a + b
  BY DEF Joins
<1>2. \A x \in 1..b : t[a + x] = v[x]
  BY <1>1 DEF Joins
<1>3. \A x \in 1..c : u[x] = t[x]
  BY <1>1 DEF Begins
<1>4. ASSUME NEW x \in 1..b PROVE u[a + x] = v[x]
  <2>1. a + x \in 1..c
    BY <1>1
  <2> QED
    BY <1>2, <1>3, <2>1
<1> QED
  BY <1>1, <1>4

-----------------------------------------------------------------------------
(* Numerals.                                                               *)

Wide == Nat \ {0, 1}

LEMMA PowersAre ==
  ASSUME NEW base \in Wide
  PROVE  /\ \A k \in 0..LongBits : Powers(base)[k] \in Nat \ {0}
         /\ Powers(base)[0] = 1
         /\ \A k \in 1..LongBits : Powers(base)[k] = base * Powers(base)[k - 1]
<1> DEFINE n == LongBits
           V == Nat \ {0}
           IsIt(f) == f = [k \in 0..n |-> IF k = 0 THEN 1 ELSE base * f[k - 1]]
           step == [k \in 1..n |-> [v \in V |-> base * v]]
<1>1. n \in Nat /\ base \in Nat \ {0, 1}
  BY PrintfmtAssumption DEF Wide
<1> HIDE DEF n
<1>2. \A v \in V : base * v \in V
  <2>1. ASSUME NEW v \in V PROVE base * v \in V
    <3>1. 1 * v <= base * v /\ 1 * v = v
      BY <1>1, TimesMonotone
    <3> QED
      BY <1>1, <3>1
  <2> QED
    BY <2>1
<1>3. step \in [1..n -> [V -> V]]
  <2> HIDE DEF V
  <2> QED
    BY <1>2
<1>4. PICK f : Follows(f, step, 1, n, V)
  <2>1. 1 \in V
    OBVIOUS
  <2> HIDE DEF step, V
  <2> QED
    BY <1>1, <1>3, <2>1, RecursionFollows
<1>5. ASSUME NEW k \in 1..n PROVE f[k - 1] \in V /\ step[k][f[k - 1]] = base * f[k - 1]
  <2>1. k - 1 \in 0..n
    BY <1>1
  <2> HIDE DEF V
  <2>2. f[k - 1] \in V
    BY <1>4, <2>1 DEF Follows
  <2> QED
    BY <2>2
<1>6. IsIt(f)
  <2>1. ASSUME NEW k \in 0..n PROVE f[k] = IF k = 0 THEN 1 ELSE base * f[k - 1]
    <3>1. k = 0 \/ k \in 1..n
      BY <1>1
    <3> HIDE DEF step, V
    <3> QED
      BY <1>4, <1>5, <3>1 DEF Follows
  <2> HIDE DEF V
  <2> QED
    BY <1>4, <2>1 DEF Follows
<1> DEFINE p == Powers(base)
<1>7. IsIt(p)
  <2>1. p = CHOOSE g : IsIt(g)
    BY DEF Powers, n
  <2> QED
    BY <1>6, <2>1
<1>8. p[0] = 1 /\ \A k \in 1..n : p[k] = base * p[k - 1]
  <2> HIDE DEF p
  <2>1. \A k \in 0..n : p[k] = IF k = 0 THEN 1 ELSE base * p[k - 1]
    BY <1>7
  <2>2. 0 \in 0..n /\ \A k \in 1..n : k \in 0..n /\ k # 0
    BY <1>1
  <2> QED
    BY <2>1, <2>2
<1>9. \A k \in 0..n : p[k] \in V
  <2> HIDE DEF p
  <2>1. ASSUME NEW k \in 1..n, p[k - 1] \in V PROVE p[k] \in V
    BY <1>2, <1>8, <2>1
  <2>2. p[0] \in V
    BY <1>8
  <2> QED
    BY <1>1, <2>1, <2>2, RecursionTyped
<1> QED
  BY <1>8, <1>9 DEF n

LEMMA PowersGrow ==
  ASSUME NEW base \in Wide, NEW j \in 0..LongBits, NEW k \in j..LongBits
  PROVE  Powers(base)[j] <= Powers(base)[k]
<1> DEFINE p == Powers(base)
           bad == {m \in j..LongBits : ~(p[j] <= p[m])}
<1>1. SUFFICES ASSUME bad # {} PROVE FALSE
  OBVIOUS
<1>2. LongBits \in Nat /\ base \in Nat \ {0, 1}
  BY PrintfmtAssumption DEF Wide
<1>3. PICK m \in bad : \A l \in bad : m <= l
  <2>1. bad \in SUBSET Nat
    BY <1>2
  <2> HIDE DEF bad
  <2> QED
    BY <1>1, <2>1, LeastNatural
<1>4. /\ \A l \in 0..LongBits : p[l] \in Nat \ {0}
      /\ \A l \in 1..LongBits : p[l] = base * p[l - 1]
  BY PowersAre
<1> HIDE DEF p
<1>5. m \in j..LongBits /\ m \in 0..LongBits /\ ~(p[j] <= p[m]) /\ m # j
  BY <1>2, <1>4
<1>6. m \in 1..LongBits /\ m - 1 \in 0..LongBits /\ m - 1 \in j..LongBits /\ ~(m <= m - 1)
  BY <1>2, <1>5
<1>7. p[j] <= p[m - 1]
  <2>1. m - 1 \notin bad
    <3> HIDE DEF bad
    <3> QED
      BY <1>3, <1>6
  <2> QED
    BY <1>6, <2>1
<1>8. p[m - 1] <= p[m]
  <2>1. PICK x \in Nat : x = p[m - 1]
    BY <1>4, <1>6
  <2>2. 1 * x <= base * x /\ 1 * x = x
    BY <1>2, TimesMonotone
  <2> QED
    BY <1>4, <1>6, <2>1, <2>2
<1>9. p[j] \in Nat /\ p[m - 1] \in Nat /\ p[m] \in Nat
  BY <1>4, <1>5, <1>6
<1> QED
  BY <1>5, <1>7, <1>8, <1>9

LEMMA BinaryFits ==
  ASSUME NEW base \in Wide, NEW k \in 0..LongBits
  PROVE  Powers(2)[k] <= Powers(base)[k]
<1> DEFINE p == Powers(base)
           b == Powers(2)
           bad == {m \in 0..LongBits : ~(b[m] <= p[m])}
<1>1. SUFFICES ASSUME bad # {} PROVE FALSE
  OBVIOUS
<1>2. LongBits \in Nat /\ base \in Nat \ {0, 1} /\ 2 \in Wide
  BY PrintfmtAssumption DEF Wide
<1>3. PICK m \in bad : \A l \in bad : m <= l
  <2>1. bad \in SUBSET Nat
    BY <1>2
  <2> HIDE DEF bad
  <2> QED
    BY <1>1, <2>1, LeastNatural
<1>4. /\ \A l \in 0..LongBits : p[l] \in Nat \ {0}
      /\ p[0] = 1
      /\ \A l \in 1..LongBits : p[l] = base * p[l - 1]
  BY PowersAre
<1>5. /\ \A l \in 0..LongBits : b[l] \in Nat \ {0}
      /\ b[0] = 1
      /\ \A l \in 1..LongBits : b[l] = 2 * b[l - 1]
  BY <1>2, PowersAre
<1> HIDE DEF p, b
<1>6. m \in 0..LongBits /\ ~(b[m] <= p[m]) /\ m # 0
  BY <1>4, <1>5
<1>7. m \in 1..LongBits /\ m - 1 \in 0..LongBits /\ ~(m <= m - 1)
  BY <1>2, <1>6
<1>8. b[m - 1] <= p[m - 1]
  <2>1. m - 1 \notin bad
    <3> HIDE DEF bad
    <3> QED
      BY <1>3, <1>7
  <2> QED
    BY <1>7, <2>1
<1>9. PICK x \in Nat, y \in Nat : x = b[m - 1] /\ y = p[m - 1]
  BY <1>4, <1>5, <1>7
<1>10. x * 2 <= y * 2 /\ 2 * y <= base * y /\ x * 2 = 2 * x /\ y * 2 = 2 * y
  BY <1>2, <1>8, <1>9, TimesMonotone
<1>11. 2 * x <= base * y
  BY <1>2, <1>10
<1> QED
  BY <1>4, <1>5, <1>6, <1>7, <1>9, <1>11

\* num, divided by the base again and again.
Quotients(num, base) ==
  LET nested[k \in 0..LongBits] == IF k = 0 THEN num ELSE nested[k - 1] \div base IN nested

LEMMA QuotientsAre ==
  ASSUME NEW num \in Nat, NEW base \in Wide
  PROVE  \A k \in 0..LongBits : Quotients(num, base)[k] = num \div Powers(base)[k]
<1> DEFINE n == LongBits
           p == Powers(base)
           IsIt(f) == f = [k \in 0..n |-> IF k = 0 THEN num ELSE f[k - 1] \div base]
           f0 == [k \in 0..n |-> num \div p[k]]
           h == Quotients(num, base)
           bad == {k \in 0..n : h[k] # num \div p[k]}
<1>1. n \in Nat /\ base \in Nat \ {0, 1}
  BY PrintfmtAssumption DEF Wide
<1>2. /\ \A k \in 0..n : p[k] \in Nat \ {0}
      /\ p[0] = 1
      /\ \A k \in 1..n : p[k] = base * p[k - 1]
  BY PowersAre
<1> HIDE DEF n, p
<1>3. num \div p[0] = num
  <2>1. num \div 1 = num
    <3>1. num * 1 <= num /\ num < (num + 1) * 1
      OBVIOUS
    <3> QED
      BY <3>1, DivUnique
  <2> QED
    BY <1>2, <2>1
<1>4. \A k \in 1..n : num \div p[k] = (num \div p[k - 1]) \div base
  <2>1. ASSUME NEW k \in 1..n PROVE num \div p[k] = (num \div p[k - 1]) \div base
    <3>1. k - 1 \in 0..n
      BY <1>1
    <3>2. PICK x \in Nat \ {0} : x = p[k - 1]
      BY <1>2, <3>1
    <3>3. (num \div x) \div base = num \div (base * x)
      BY <1>1, DivDiv
    <3> QED
      BY <1>2, <3>2, <3>3
  <2> QED
    BY <2>1
<1>5. IsIt(f0)
  <2>1. ASSUME NEW k \in 0..n PROVE f0[k] = IF k = 0 THEN num ELSE f0[k - 1] \div base
    <3>1. CASE k = 0
      BY <1>3, <3>1
    <3>2. CASE k # 0
      <4>1. k \in 1..n /\ k - 1 \in 0..n
        BY <1>1, <3>2
      <4>2. f0[k] = num \div p[k] /\ f0[k - 1] = num \div p[k - 1]
        BY <4>1
      <4> HIDE DEF f0
      <4> QED
        BY <1>4, <3>2, <4>1, <4>2
    <3> QED
      BY <3>1, <3>2
  <2> QED
    BY <2>1
<1>6. IsIt(h)
  <2>1. h = CHOOSE g : IsIt(g)
    BY DEF Quotients, n
  <2> QED
    BY <1>5, <2>1
<1>7. h[0] = num /\ \A k \in 1..n : h[k] = h[k - 1] \div base
  <2> HIDE DEF h
  <2>1. \A k \in 0..n : h[k] = IF k = 0 THEN num ELSE h[k - 1] \div base
    BY <1>6
  <2>2. 0 \in 0..n /\ \A k \in 1..n : k \in 0..n /\ k # 0
    BY <1>1
  <2> QED
    BY <2>1, <2>2
<1> HIDE DEF h
<1>8. bad = {}
  <2>1. SUFFICES ASSUME bad # {} PROVE FALSE
    OBVIOUS
  <2>2. PICK m \in bad : \A l \in bad : m <= l
    <3>1. bad \in SUBSET Nat
      BY <1>1
    <3> HIDE DEF bad
    <3> QED
      BY <2>1, <3>1, LeastNatural
  <2>3. m \in 0..n /\ h[m] # num \div p[m] /\ m # 0
    BY <1>3, <1>7
  <2>4. m \in 1..n /\ m - 1 \in 0..n /\ ~(m <= m - 1)
    BY <1>1, <2>3
  <2>5. h[m - 1] = num \div p[m - 1]
    <3>1. m - 1 \notin bad
      <4> HIDE DEF bad
      <4> QED
        BY <2>2, <2>4
    <3> QED
      BY <2>4, <3>1
  <2> QED
    BY <1>4, <1>7, <2>3, <2>4, <2>5
<1> QED
  BY <1>8 DEF n, p, h

\* How many digits the shortest numeral has: as many as divisions leave something
\* to write, and one.
NumeralLength(v, base) ==
  CHOOSE k \in 1..LongBits :
    v < Powers(base)[k] /\ (k = 1 \/ v >= Powers(base)[k - 1])

LEMMA NumeralLengthIs ==
  ASSUME NEW base \in Wide, NEW v \in Nat, v < Powers(2)[LongBits]
  PROVE  /\ NumeralLength(v, base) \in 1..LongBits
         /\ (CHOOSE k \in 0..LongBits :
               /\ Quotients(v, base)[k] < base
               /\ \A q \in 0..(k - 1) : Quotients(v, base)[q] >= base)
              = NumeralLength(v, base) - 1
<1> DEFINE n == LongBits
           p == Powers(base)
           h == Quotients(v, base)
           IsDepth(k) == h[k] < base /\ \A q \in 0..(k - 1) : h[q] >= base
           T == {k \in 0..n : k < n /\ v < p[k + 1]}
           d == Min(T)
<1>1. n \in Nat /\ 1 < n /\ base \in Nat \ {0, 1}
  BY PrintfmtAssumption DEF Wide
<1>2. /\ \A k \in 0..n : p[k] \in Nat \ {0}
      /\ \A k \in 1..n : p[k] = base * p[k - 1]
  BY PowersAre
<1>3. \A j \in 0..n : \A k \in j..n : p[j] <= p[k]
  BY PowersGrow
<1>4. v < p[n]
  <2>1. n \in 0..n /\ 2 \in Wide
    BY <1>1 DEF Wide
  <2>2. Powers(2)[n] \in Nat /\ Powers(2)[n] <= p[n]
    BY <2>1, PowersAre, BinaryFits
  <2> HIDE DEF p
  <2> QED
    BY <1>2, <2>1, <2>2
<1>5. \A k \in 0..n : h[k] = v \div p[k]
  BY QuotientsAre
<1> HIDE DEF n, p, h
<1>6. ASSUME NEW k \in 0..(n - 1) PROVE h[k] < base <=> v < p[k + 1]
  <2>1. k \in 0..n /\ k + 1 \in 1..n /\ k + 1 \in 0..n /\ (k + 1) - 1 = k
    BY <1>1
  <2>2. PICK x \in Nat \ {0} : x = p[k]
    BY <1>2, <2>1
  <2>3. p[k + 1] = base * x
    BY <1>2, <2>1, <2>2
  <2>4. base * x <= v <=> base <= v \div x
    BY <1>1, FloorGreatest
  <2>5. v \div x \in Nat /\ base * x \in Nat
    BY <1>1, DivBounds
  <2> QED
    BY <1>1, <1>5, <2>1, <2>2, <2>3, <2>4, <2>5
<1>7. T \in SUBSET Nat /\ n - 1 \in T
  BY <1>1, <1>4
<1>8. d \in T /\ d \in Nat /\ \A k \in T : d <= k
  <2> HIDE DEF T
  <2> QED
    BY <1>7, MinIsLeast
<1>9. d \in 0..(n - 1) /\ v < p[d + 1]
  BY <1>1, <1>8
<1>10. ASSUME NEW k \in 0..(d - 1) PROVE ~(v < p[k + 1])
  <2>1. k \in 0..n /\ k < n /\ ~(d <= k)
    BY <1>1, <1>9
  <2> HIDE DEF T, d
  <2>2. k \notin T
    BY <1>8, <2>1
  <2> QED
    BY <2>1, <2>2 DEF T
<1> HIDE DEF T, d
<1>11. IsDepth(d)
  <2>1. h[d] < base
    BY <1>6, <1>9
  <2>2. ASSUME NEW q \in 0..(d - 1) PROVE h[q] >= base
    <3>1. q \in 0..(n - 1) /\ q \in 0..n
      BY <1>1, <1>9
    <3>2. ~(h[q] < base)
      BY <1>6, <1>10, <3>1
    <3>3. h[q] \in Nat
      <4>1. p[q] \in Nat \ {0}
        BY <1>2, <3>1
      <4>2. v \div p[q] \in Nat
        BY <4>1, DivBounds
      <4> QED
        BY <1>5, <3>1, <4>2
    <3> QED
      BY <1>1, <3>2, <3>3
  <2> QED
    BY <2>1, <2>2
<1>12. ASSUME NEW k \in 0..n, IsDepth(k) PROVE k = d
  <2>1. ~(k < d)
    <3>1. SUFFICES ASSUME k < d PROVE FALSE
      OBVIOUS
    <3>2. k \in 0..(d - 1) /\ k \in 0..(n - 1)
      BY <1>1, <1>9, <3>1
    <3> QED
      BY <1>6, <1>10, <1>12, <3>2
  <2>2. ~(d < k)
    <3>1. SUFFICES ASSUME d < k PROVE FALSE
      OBVIOUS
    <3>2. d \in 0..(k - 1)
      BY <1>1, <1>9, <3>1
    <3>3. h[d] >= base /\ h[d] < base
      BY <1>11, <1>12, <3>2
    <3>4. h[d] \in Nat
      <4>1. d \in 0..n
        BY <1>1, <1>9
      <4>2. p[d] \in Nat \ {0}
        BY <1>2, <4>1
      <4>3. v \div p[d] \in Nat
        BY <4>2, DivBounds
      <4> QED
        BY <1>5, <4>1, <4>3
    <3> QED
      BY <1>1, <3>3, <3>4
  <2> QED
    BY <1>9, <2>1, <2>2
<1>13. (CHOOSE k \in 0..n : IsDepth(k)) = d
  <2>1. d \in 0..n
    BY <1>1, <1>9
  <2> HIDE DEF IsDepth
  <2> QED
    BY <1>11, <1>12, <2>1
<1> DEFINE IsLength(k) == v < p[k] /\ (k = 1 \/ v >= p[k - 1])
<1>14. IsLength(d + 1) /\ d + 1 \in 1..n
  <2>1. d + 1 \in 1..n /\ (d + 1) - 1 = d /\ d \in 0..n
    BY <1>1, <1>9
  <2>2. d + 1 = 1 \/ v >= p[d]
    <3>1. CASE d = 0
      BY <3>1
    <3>2. CASE d # 0
      <4>1. d - 1 \in 0..(d - 1) /\ (d - 1) + 1 = d
        BY <1>9, <3>2
      <4>2. ~(v < p[d])
        BY <1>10, <4>1
      <4>3. p[d] \in Nat
        BY <1>2, <2>1
      <4> QED
        BY <4>2, <4>3
    <3> QED
      BY <3>1, <3>2
  <2> QED
    BY <1>9, <2>1, <2>2
<1>15. ASSUME NEW k \in 1..n, IsLength(k) PROVE k = d + 1
  <2>1. k \in 0..n /\ k - 1 \in 0..n /\ d \in 0..n /\ d + 1 \in 0..n
    BY <1>1, <1>9
  <2>2. ~(k < d + 1)
    <3>1. SUFFICES ASSUME k < d + 1 PROVE FALSE
      OBVIOUS
    <3>2. k - 1 \in 0..(d - 1) /\ (k - 1) + 1 = k
      BY <1>9, <3>1
    <3> QED
      BY <1>10, <1>15, <3>2
  <2>3. ~(d + 1 < k)
    <3>1. SUFFICES ASSUME d + 1 < k PROVE FALSE
      OBVIOUS
    <3>2. d + 1 \in 0..n /\ k - 1 \in (d + 1)..n /\ k # 1
      BY <1>1, <1>9, <3>1
    <3>3. p[d + 1] <= p[k - 1] /\ v >= p[k - 1] /\ v < p[d + 1]
      BY <1>3, <1>9, <1>15, <3>2
    <3>4. p[d + 1] \in Nat /\ p[k - 1] \in Nat
      BY <1>2, <2>1
    <3> QED
      BY <3>3, <3>4
  <2> QED
    BY <1>9, <2>2, <2>3
<1>16. NumeralLength(v, base) = d + 1
  <2>1. NumeralLength(v, base) = CHOOSE k \in 1..n : IsLength(k)
    BY DEF NumeralLength, n, p
  <2> HIDE DEF IsLength
  <2> QED
    BY <1>14, <1>15, <2>1
<1>17. NumeralLength(v, base) \in 1..n /\ NumeralLength(v, base) - 1 = d
  BY <1>9, <1>14, <1>16
<1> QED
  BY <1>13, <1>17 DEF n, h

Digits16 == {DigitChars[x] : x \in 1..16}

\* What printnum prints: the shortest numeral, padded to the width.
LEMMA PrintnumIs ==
  ASSUME NEW base \in 2..16, NEW v \in Nat, v < Powers(2)[LongBits], NEW width \in Int,
         NEW padc
  PROVE  /\ Numeral(v, base) \in Seq(Digits16)
         /\ printnum(v, base, width, padc)
              = Pad(padc, width - Len(Numeral(v, base))) \o Numeral(v, base)
<1> DEFINE n == NumeralLength(v, base)
           h == Quotients(v, base)
           numeral == [x \in 1..n |-> DigitChars[((v \div Powers(base)[n - x]) % base) + 1]]
           digits == [x \in 1..n |-> DigitChars[(h[n - x] % base) + 1]]
<1>1. base \in Wide /\ LongBits \in Nat
  BY PrintfmtAssumption DEF Wide
<1>2. /\ n \in 1..LongBits
      /\ (CHOOSE k \in 0..LongBits :
            /\ Quotients(v, base)[k] < base
            /\ \A q \in 0..(k - 1) : Quotients(v, base)[q] >= base) = n - 1
  BY <1>1, NumeralLengthIs
<1>3. ASSUME NEW x \in 1..n
      PROVE  /\ h[n - x] = v \div Powers(base)[n - x]
             /\ (v \div Powers(base)[n - x]) % base \in 0..15
  <2>1. n - x \in 0..LongBits
    BY <1>1, <1>2
  <2>2. h[n - x] = v \div Powers(base)[n - x]
    BY <1>1, <2>1, QuotientsAre
  <2>3. Powers(base)[n - x] \in Nat \ {0}
    BY <1>1, <2>1, PowersAre
  <2>4. PICK y \in Nat : y = v \div Powers(base)[n - x]
    BY <2>3, DivBounds
  <2>5. y % base \in 0..15
    BY SMT
  <2> QED
    BY <2>2, <2>4, <2>5
<1>4. Numeral(v, base) = numeral
  BY DEF Numeral, NumeralLength
<1> HIDE DEF n, h
<1>5. digits = numeral
  BY <1>3
<1>6. numeral \in Seq(Digits16) /\ Len(numeral) = n
  <2>1. ASSUME NEW x \in 1..n PROVE numeral[x] \in Digits16
    <3>1. PICK y \in 0..15 : y = (v \div Powers(base)[n - x]) % base
      BY <1>3
    <3> QED
      BY <3>1, y + 1 \in 1..16 DEF Digits16
  <2>2. n \in Nat
    BY <1>2
  <2> QED
    BY <2>1, <2>2
<1>7. printnum(v, base, width, padc) = Pad(padc, (width - (n - 1)) - 1)
        \o [x \in 1..((n - 1) + 1) |-> DigitChars[(h[((n - 1) + 1) - x] % base) + 1]]
  <2> DEFINE depth == CHOOSE k \in 0..LongBits :
                        /\ Quotients(v, base)[k] < base
                        /\ \A q \in 0..(k - 1) : Quotients(v, base)[q] >= base
             Nested(k) == Pad(padc, (width - k) - 1)
                            \o [x \in 1..(k + 1) |-> DigitChars[(h[(k + 1) - x] % base) + 1]]
  <2>1. printnum(v, base, width, padc) = Nested(depth)
    BY DEF printnum, Quotients, h
  <2>2. depth = n - 1
    BY <1>2
  <2>3. Nested(depth) = Nested(n - 1)
    <3> HIDE DEF Nested, depth
    <3> QED
      BY <2>2
  <2>4. Nested(n - 1) = Pad(padc, (width - (n - 1)) - 1)
        \o [x \in 1..((n - 1) + 1) |-> DigitChars[(h[((n - 1) + 1) - x] % base) + 1]]
    OBVIOUS
  <2> HIDE DEF Nested, depth
  <2> QED
    BY <2>1, <2>3, <2>4
<1>8. (width - (n - 1)) - 1 = width - n /\ (n - 1) + 1 = n
  BY <1>2
<1> HIDE DEF digits, numeral
<1>9. printnum(v, base, width, padc) = Pad(padc, width - n) \o digits
  BY <1>7, <1>8 DEF digits
<1> QED
  BY <1>4, <1>5, <1>6, <1>9

-----------------------------------------------------------------------------
(* Sequences of anything.                                                  *)

LEMMA SequenceOf ==
  ASSUME NEW V, NEW s \in Seq(V)
  PROVE  IsSequence(s) /\ Range(s) \subseteq V
<1>1. Len(s) \in Nat /\ DOMAIN s = 1..Len(s) /\ s \in [1..Len(s) -> V]
  BY LenProperties
<1>2. Range(s) \subseteq V
  BY <1>1 DEF Range
<1>3. s \in [1..Len(s) -> Range(s)]
  BY <1>1 DEF Range
<1>4. s \in Seq(Range(s))
  <2> DEFINE R == Range(s)
             n == Len(s)
  <2> HIDE DEF R, n
  <2>1. s \in [1..n -> R] /\ n \in Nat
    BY <1>1, <1>3 DEF R, n
  <2> QED
    BY <2>1 DEF R
<1> QED
  BY <1>2, <1>4 DEF IsSequence

LEMMA ThreeSequences ==
  ASSUME NEW s, NEW t, NEW u, IsSequence(s), IsSequence(t), IsSequence(u)
  PROVE  \E V : s \in Seq(V) /\ t \in Seq(V) /\ u \in Seq(V)
<1> DEFINE V == Range(s) \cup Range(t) \cup Range(u)
<1>1. Range(s) \subseteq V /\ Range(t) \subseteq V /\ Range(u) \subseteq V
  OBVIOUS
<1> HIDE DEF V
<1>2. s \in Seq(V) /\ t \in Seq(V) /\ u \in Seq(V)
  BY <1>1, SeqMonotonic DEF IsSequence
<1> QED
  BY <1>2

LEMMA ConcatSequences ==
  ASSUME NEW s, NEW t, IsSequence(s), IsSequence(t)
  PROVE  IsSequence(s \o t) /\ Joins(s, t, s \o t) /\ Len(s \o t) = Len(s) + Len(t)
<1>1. PICK V : s \in Seq(V) /\ t \in Seq(V)
  BY ThreeSequences
<1>2. s \o t \in Seq(V) /\ Joins(s, t, s \o t)
  BY <1>1, ConcatIs
<1>3. IsSequence(s \o t)
  BY <1>2, SequenceOf
<1> QED
  BY <1>2, <1>3 DEF Joins

LEMMA ConcatAgain ==
  ASSUME NEW s, NEW t, NEW u, IsSequence(s), IsSequence(t), IsSequence(u)
  PROVE  (s \o t) \o u = s \o (t \o u)
<1>1. PICK V : s \in Seq(V) /\ t \in Seq(V) /\ u \in Seq(V)
  BY ThreeSequences
<1> QED
  BY <1>1, ConcatAssociative

LEMMA OneIsSequence ==
  ASSUME NEW x
  PROVE  IsSequence(<<x>>) /\ Len(<<x>>) = 1
<1>1. <<x>> \in Seq({x}) /\ Len(<<x>>) = 1
  OBVIOUS
<1> QED
  BY <1>1, SequenceOf

LEMMA ConcatOneMore ==
  ASSUME NEW s, NEW t, NEW c, IsSequence(s), IsSequence(t)
  PROVE  (s \o t) \o <<c>> = s \o (t \o <<c>>)
<1>1. PICK u : u = <<c>>
  OBVIOUS
<1>2. IsSequence(u)
  BY <1>1, OneIsSequence
<1>3. (s \o t) \o u = s \o (t \o u)
  BY <1>2, ConcatAgain
<1> QED
  BY <1>1, <1>3

LEMMA ConcatNothing ==
  ASSUME NEW s, IsSequence(s)
  PROVE  s \o <<>> = s /\ <<>> \o s = s
BY ConcatEmptySeq DEF IsSequence

LEMMA NothingIsSequence == IsSequence(<<>>)
<1>1. <<>> \in Seq({})
  OBVIOUS
<1> QED
  BY <1>1, SequenceOf

LEMMA AppendSequence ==
  ASSUME NEW s, NEW x, IsSequence(s)
  PROVE  Append(s, x) = s \o <<x>> /\ IsSequence(Append(s, x))
<1>1. PICK V : s \in Seq(V) /\ <<x>> \in Seq(V)
  BY ThreeSequences, OneIsSequence
<1>2. x \in V
  <2>1. <<x>>[1] \in V
    <3>1. 1 \in 1..Len(<<x>>)
      BY OneIsSequence
    <3> QED
      BY <1>1, <3>1, ElementOfSeq
  <2> QED
    BY <2>1
<1>3. Append(s, x) = s \o <<x>> /\ Append(s, x) \in Seq(V)
  BY <1>1, <1>2, AppendIsConcat, AppendProperties
<1> QED
  BY <1>3, SequenceOf

LEMMA PieceSequences ==
  ASSUME NEW n \in Nat, NEW pieces, \A k \in 1..n : IsSequence(pieces[k])
  PROVE  \E V : ArePieces(pieces, n, V)
<1> DEFINE V == UNION {Range(pieces[k]) : k \in 1..n}
<1>1. ASSUME NEW k \in 1..n PROVE pieces[k] \in Seq(V)
  <2>1. Range(pieces[k]) \subseteq V
    OBVIOUS
  <2> HIDE DEF V
  <2> QED
    BY <2>1, SeqMonotonic DEF IsSequence
<1> QED
  BY <1>1 DEF ArePieces

LEMMA PadIs ==
  ASSUME NEW c, NEW n \in Int
  PROVE  /\ IsSequence(Pad(c, n))
         /\ Len(Pad(c, n)) = IF n > 0 THEN n ELSE 0
         /\ \A x \in 1..Len(Pad(c, n)) : Pad(c, n)[x] = c
<1>1. CASE n > 0
  <2>1. Pad(c, n) \in Seq({c}) /\ Len(Pad(c, n)) = n /\ \A x \in 1..n : Pad(c, n)[x] = c
    BY <1>1 DEF Pad
  <2> QED
    BY <1>1, <2>1, SequenceOf
<1>2. CASE ~(n > 0)
  <2>1. Pad(c, n) = <<>>
    BY <1>2 DEF Pad
  <2> QED
    BY <1>2, <2>1, NothingIsSequence
<1> QED
  BY <1>1, <1>2

-----------------------------------------------------------------------------
(* The buffer of snprintf.                                                 *)

BufferOf(size, chars, n) == [fn |-> "sprintputch", size |-> size, buf |-> chars, cnt |-> n]

LEMMA BufferCounts ==
  ASSUME NEW size, NEW chars, NEW n, NEW m
  PROVE  [BufferOf(size, chars, n) EXCEPT !.cnt = m] = BufferOf(size, chars, m)
BY DEF BufferOf

LEMMA BufferGrows ==
  ASSUME NEW size, NEW chars, NEW n, NEW more
  PROVE  [BufferOf(size, chars, n) EXCEPT !.buf = more] = BufferOf(size, more, n)
BY DEF BufferOf

LEMMA SprintputchIs ==
  ASSUME NEW size \in Nat, NEW chars, NEW n \in Nat, NEW c
  PROVE  /\ Len(chars) < size - 1 =>
              sprintputch(BufferOf(size, chars, n), c) = BufferOf(size, Append(chars, c), n + 1)
         /\ ~(Len(chars) < size - 1) =>
              sprintputch(BufferOf(size, chars, n), c) = BufferOf(size, chars, n + 1)
<1>1. PICK m : m = n + 1
  OBVIOUS
<1>2. PICK more : more = IF Len(chars) < size - 1 THEN Append(chars, c) ELSE chars
  OBVIOUS
<1> DEFINE b == BufferOf(size, chars, n)
<1>3. b.cnt = n /\ b.buf = chars /\ b.size = size
  BY DEF BufferOf
<1>4. [b EXCEPT !.cnt = m] = BufferOf(size, chars, m)
  BY BufferCounts
<1>5. [BufferOf(size, chars, m) EXCEPT !.buf = more] = BufferOf(size, more, m)
  BY BufferGrows
<1> HIDE DEF b
<1>6. sprintputch(b, c) = [[b EXCEPT !.cnt = m] EXCEPT !.buf = more]
  BY <1>1, <1>2, <1>3 DEF sprintputch
<1>7. sprintputch(b, c) = BufferOf(size, more, m)
  BY <1>4, <1>5, <1>6
<1> QED
  BY <1>1, <1>2, <1>7 DEF b

\* The buffer when out has gone into it.
Filled(size, out) ==
  BufferOf(size, SubSeq(out, 1, Min({Len(out), size - 1})), Len(out))

LEMMA FilledOne ==
  ASSUME NEW size \in Nat \ {0}, NEW out, IsSequence(out), NEW c
  PROVE  sprintputch(Filled(size, out), c) = Filled(size, out \o <<c>>)
<1>1. PICK V : out \in Seq(V) /\ <<c>> \in Seq(V)
  BY ThreeSequences, OneIsSequence
<1> DEFINE more == out \o <<c>>
           n == Len(out)
           b == SubSeq(out, 1, Min({n, size - 1}))
<1>2. more \in Seq(V) /\ Len(more) = n + 1 /\ n \in Nat /\ size - 1 \in Nat
  BY <1>1
<1>3. \A x \in 1..n : more[x] = out[x]
  BY <1>1
<1>4. more[n + 1] = c
  BY <1>1
<1>5. Append(out, c) = more
  BY AppendSequence
<1> HIDE DEF more, n
<1>6. CASE n < size - 1
  <2>1. Min({n, size - 1}) = n /\ Min({n + 1, size - 1}) = n + 1
    BY <1>2, <1>6, MinOfTwo
  <2>2. b = out /\ Len(b) = n
    BY <1>1, <2>1, SubSeqFull DEF n
  <2>3. SubSeq(more, 1, n + 1) = more
    BY <1>2, SubSeqFull
  <2>4. sprintputch(Filled(size, out), c)
          = BufferOf(size, more, n + 1)
    <3> HIDE DEF b
    <3>1. Filled(size, out) = BufferOf(size, b, n)
      BY DEF Filled, b, n
    <3>2. size \in Nat /\ n \in Nat /\ Len(b) < size - 1
      BY <1>2, <1>6, <2>2
    <3>3. sprintputch(BufferOf(size, b, n), c) = BufferOf(size, Append(b, c), n + 1)
      BY <3>2, SprintputchIs
    <3>4. Append(b, c) = more
      BY <1>5, <2>2
    <3> QED
      BY <3>1, <3>3, <3>4
  <2> QED
    BY <1>2, <2>1, <2>3, <2>4 DEF Filled, more
<1>7. CASE ~(n < size - 1)
  <2>1. Min({n, size - 1}) = size - 1 /\ Min({n + 1, size - 1}) = size - 1
    BY <1>2, <1>7, MinOfTwo
  <2>2. b = SubSeq(out, 1, size - 1) /\ Len(b) = size - 1
    <3>1. PICK s \in Nat : s = size - 1
      BY <1>2
    <3>2. s <= Len(out) /\ \A x \in 1..s : out[x] \in V
      <4>1. s <= Len(out)
        BY <1>2, <1>7, <3>1 DEF n
      <4>2. \A x \in 1..s : x \in 1..Len(out)
        BY <1>2, <4>1 DEF n
      <4> QED
        BY <1>1, <4>1, <4>2, ElementOfSeq
    <3>3. Len(SubSeq(out, 1, s)) = IF 1 <= s THEN (s - 1) + 1 ELSE 0
      BY <3>2, SubSeqProperties
    <3>4. Len(SubSeq(out, 1, s)) = s
      BY <3>3
    <3>5. Min({n, size - 1}) = s
      BY <2>1, <3>1
    <3> QED
      BY <3>1, <3>4, <3>5
  <2>3. SubSeq(more, 1, size - 1) = SubSeq(out, 1, size - 1)
    <3>1. CASE size - 1 = 0
      BY <3>1, SubSeqEmpty
    <3>2. CASE size - 1 # 0
      <4>1. 1 \in 1..Len(out) /\ size - 1 \in 1..Len(out)
        BY <1>2, <1>7, <3>2 DEF n
      <4> QED
        BY <1>1, <4>1, SubSeqOfConcat1 DEF more
    <3> QED
      BY <3>1, <3>2
  <2>4. sprintputch(Filled(size, out), c)
          = BufferOf(size, b, n + 1)
    <3> HIDE DEF b
    <3>1. Filled(size, out) = BufferOf(size, b, n)
      BY DEF Filled, b, n
    <3>2. size \in Nat /\ n \in Nat /\ ~(Len(b) < size - 1)
      BY <1>2, <2>2
    <3>3. sprintputch(BufferOf(size, b, n), c) = BufferOf(size, b, n + 1)
      BY <3>2, SprintputchIs
    <3> QED
      BY <3>1, <3>3
  <2> QED
    BY <1>2, <2>1, <2>2, <2>3, <2>4 DEF Filled, more
<1> QED
  BY <1>6, <1>7

LEMMA BufferedIs ==
  ASSUME NEW size \in Nat \ {0}, NEW out, IsSequence(out), NEW chars, IsSequence(chars)
  PROVE  Buffered(Filled(size, out), chars) = Filled(size, out \o chars)
<1> DEFINE n == Len(chars)
           b == Filled(size, out)
           So(k) == SubSeq(chars, 1, k)
           IsIt(f) == f = [k \in 0..n |->
                             IF k = 0 THEN b ELSE sprintputch(f[k - 1], chars[k])]
           g == [k \in 0..n |-> Filled(size, out \o So(k))]
           h == CHOOSE f : IsIt(f)
<1>1. PICK V : chars \in Seq(V)
  BY DEF IsSequence
<1>2. n \in Nat
  BY <1>1
<1>3. So(0) = <<>> /\ So(n) = chars
  BY <1>1, SubSeqEmpty, SubSeqFull
<1>4. ASSUME NEW k \in 1..n
      PROVE  /\ IsSequence(So(k - 1))
             /\ So(k) = So(k - 1) \o <<chars[k]>>
  <2>1. \A x \in 1..(k - 1) : chars[x] \in V
    BY <1>1
  <2>2. So(k - 1) \in Seq(V)
    BY <2>1, SubSeqProperties
  <2>3. 1 \in 1..Len(chars) /\ k \in 1..Len(chars)
    BY <1>2
  <2> QED
    BY <1>1, <2>2, <2>3, SequenceOf, SubSeqRecursiveSecond
<1>5. ASSUME NEW k \in 1..n PROVE g[k] = sprintputch(g[k - 1], chars[k])
  <2>1. k - 1 \in 0..n /\ k \in 0..n
    BY <1>2
  <2>2. IsSequence(So(k - 1)) /\ So(k) = So(k - 1) \o <<chars[k]>>
    BY <1>4
  <2>3. g[k - 1] = Filled(size, out \o So(k - 1)) /\ g[k] = Filled(size, out \o So(k))
    BY <2>1
  <2> HIDE DEF g, So
  <2>4. IsSequence(out \o So(k - 1))
    BY <2>2, ConcatSequences
  <2>5. sprintputch(Filled(size, out \o So(k - 1)), chars[k])
          = Filled(size, (out \o So(k - 1)) \o <<chars[k]>>)
    BY <2>4, FilledOne
  <2>6. (out \o So(k - 1)) \o <<chars[k]>> = out \o (So(k - 1) \o <<chars[k]>>)
    <3>1. PICK s, c : s = So(k - 1) /\ c = chars[k]
      OBVIOUS
    <3>2. IsSequence(s)
      BY <2>2, <3>1
    <3> HIDE <3>1
    <3>3. (out \o s) \o <<c>> = out \o (s \o <<c>>)
      BY <3>2, ConcatOneMore
    <3> QED
      BY <3>1, <3>3
  <2> QED
    BY <2>2, <2>3, <2>5, <2>6
<1>6. g[0] = b
  <2>1. out \o <<>> = out
    BY ConcatNothing
  <2>2. g[0] = Filled(size, out \o So(0))
    BY <1>2
  <2> QED
    BY <1>3, <2>1, <2>2
<1>7. IsIt(g)
  <2>1. ASSUME NEW k \in 0..n
        PROVE  g[k] = IF k = 0 THEN b ELSE sprintputch(g[k - 1], chars[k])
    <3>1. k = 0 \/ k \in 1..n
      BY <1>2
    <3> HIDE DEF g, n, b
    <3> QED
      BY <1>5, <1>6, <3>1
  <2> HIDE DEF b, So
  <2> QED
    BY <2>1
<1>8. IsIt(h)
  BY <1>7
<1> HIDE DEF h, g, b, So
<1>9. \A k \in 0..n : h[k] = IF k = 0 THEN b ELSE sprintputch(h[k - 1], chars[k])
  <2> HIDE DEF n
  <2> QED
    BY <1>8
<1>10. h[0] = g[0] /\ \A k \in 1..n : h[k - 1] = g[k - 1] => h[k] = g[k]
  <2>1. 0 \in 0..n /\ \A k \in 1..n : k \in 0..n /\ k # 0
    BY <1>2
  <2> HIDE DEF n
  <2> QED
    BY <1>5, <1>6, <1>9, <2>1
<1>11. h[n] = g[n]
  <2>1. n \in 0..n
    BY <1>2
  <2> HIDE DEF n
  <2> QED
    BY <1>2, <1>10, <2>1, RecursionUnique
<1>12. g[n] = Filled(size, out \o chars)
  <2>1. n \in 0..n
    BY <1>2
  <2> HIDE DEF n
  <2> QED
    BY <1>3, <2>1 DEF g
<1>13. Buffered(b, chars) = h[n]
  BY DEF Buffered, h
<1> QED
  BY <1>11, <1>12, <1>13 DEF b

-----------------------------------------------------------------------------
(* The parts of a directive.                                               *)

\* Where they end in its text.
FlagsEnd(d) == 1 + Len(d.flags)
WidthEnd(d) == FlagsEnd(d) + Len(d.width)
PrecEnd(d) == WidthEnd(d) + Len(d.prec)
LongEnd(d) == PrecEnd(d) + d.l

LEMMA DecimalIs == Decimal = {"0", "1", "2", "3", "4", "5", "6", "7", "8", "9"}
<1>1. /\ DigitChars[1] = "0" /\ DigitChars[2] = "1" /\ DigitChars[3] = "2"
      /\ DigitChars[4] = "3" /\ DigitChars[5] = "4" /\ DigitChars[6] = "5"
      /\ DigitChars[7] = "6" /\ DigitChars[8] = "7" /\ DigitChars[9] = "8"
      /\ DigitChars[10] = "9"
  BY DEF DigitChars
<1>2. ASSUME NEW x \in 1..10
      PROVE  x = 1 \/ x = 2 \/ x = 3 \/ x = 4 \/ x = 5 \/ x = 6 \/ x = 7 \/ x = 8
               \/ x = 9 \/ x = 10
  OBVIOUS
<1>3. Decimal \subseteq {"0", "1", "2", "3", "4", "5", "6", "7", "8", "9"}
  BY <1>1, <1>2 DEF Decimal
<1>4. {"0", "1", "2", "3", "4", "5", "6", "7", "8", "9"} \subseteq Decimal
  <2>1. 1 \in 1..10 /\ 2 \in 1..10 /\ 3 \in 1..10 /\ 4 \in 1..10 /\ 5 \in 1..10
        /\ 6 \in 1..10 /\ 7 \in 1..10 /\ 8 \in 1..10 /\ 9 \in 1..10 /\ 10 \in 1..10
    OBVIOUS
  <2> HIDE DEF DigitChars
  <2> QED
    BY <1>1, <2>1 DEF Decimal
<1> QED
  BY <1>3, <1>4

LEMMA DirectiveTyped ==
  ASSUME NEW d, IsDirective(d)
  PROVE  /\ IsSequence(d.flags) /\ IsSequence(d.width) /\ IsSequence(d.prec)
         /\ IsSequence(d.stars)
         /\ Len(d.flags) \in Nat /\ Len(d.width) \in Nat /\ Len(d.prec) \in Nat
         /\ Len(d.stars) \in Nat
         /\ d.l \in Nat
         /\ FlagsEnd(d) \in Nat /\ WidthEnd(d) \in Nat /\ PrecEnd(d) \in Nat
         /\ LongEnd(d) \in Nat
         /\ 1 <= FlagsEnd(d) /\ FlagsEnd(d) <= WidthEnd(d) /\ WidthEnd(d) <= PrecEnd(d)
         /\ PrecEnd(d) <= LongEnd(d)
<1>1. IsSequence(d.flags) /\ Len(d.flags) \in Nat
  <2>1. d.flags \in Seq({"-", "0", "#"})
    BY DEF IsDirective
  <2> QED
    BY <2>1, SequenceOf
<1>2. IsSequence(d.width) /\ Len(d.width) \in Nat
  <2>1. d.width = <<>> \/ d.width = <<"*">> \/ d.width \in Seq(Decimal)
    BY DEF IsDirective, IsCount, IsNumber
  <2>2. CASE d.width = <<>>
    BY <2>2, NothingIsSequence
  <2>3. CASE d.width = <<"*">>
    BY <2>3, OneIsSequence
  <2>4. CASE d.width \in Seq(Decimal)
    BY <2>4, SequenceOf
  <2> QED
    BY <2>1, <2>2, <2>3, <2>4
<1>3. IsSequence(d.prec) /\ Len(d.prec) \in Nat
  <2>1. \/ d.prec = <<>> \/ d.prec = <<".">> \/ d.prec = <<".", "*">>
        \/ d.prec \in Seq({"."} \cup Decimal)
    BY DEF IsDirective
  <2>2. CASE d.prec = <<>>
    BY <2>2, NothingIsSequence
  <2>3. CASE d.prec = <<".">>
    BY <2>3, OneIsSequence
  <2>4. CASE d.prec = <<".", "*">>
    <3>1. d.prec \in Seq({".", "*"}) /\ Len(d.prec) = 2
      BY <2>4
    <3> QED
      BY <3>1, SequenceOf
  <2>5. CASE d.prec \in Seq({"."} \cup Decimal)
    BY <2>5, SequenceOf
  <2> QED
    BY <2>1, <2>2, <2>3, <2>4, <2>5
<1>4. IsSequence(d.stars) /\ Len(d.stars) \in Nat
  <2>1. d.stars \in Seq(Int)
    BY DEF IsDirective
  <2> QED
    BY <2>1, SequenceOf
<1>5. d.l \in Nat
  BY DEF IsDirective
<1>6. /\ FlagsEnd(d) \in Nat /\ WidthEnd(d) \in Nat /\ PrecEnd(d) \in Nat
      /\ LongEnd(d) \in Nat
      /\ 1 <= FlagsEnd(d) /\ FlagsEnd(d) <= WidthEnd(d) /\ WidthEnd(d) <= PrecEnd(d)
      /\ PrecEnd(d) <= LongEnd(d)
  <2>1. PICK a \in Nat, b \in Nat, c \in Nat, e \in Nat :
          a = Len(d.flags) /\ b = Len(d.width) /\ c = Len(d.prec) /\ e = d.l
    BY <1>1, <1>2, <1>3, <1>5
  <2>2. /\ FlagsEnd(d) = 1 + a /\ WidthEnd(d) = (1 + a) + b
        /\ PrecEnd(d) = ((1 + a) + b) + c /\ LongEnd(d) = (((1 + a) + b) + c) + e
    BY <2>1 DEF FlagsEnd, WidthEnd, PrecEnd, LongEnd
  <2> QED
    BY <2>2
<1> QED
  BY <1>1, <1>2, <1>3, <1>4, <1>5, <1>6

\* The characters that end a directive.
ConvPart(d) == IF d.conv = NUL THEN <<>> ELSE <<d.conv>>

LEMMA DirectiveText ==
  ASSUME NEW d, IsDirective(d), d.conv # "text", NEW s, s = FormatOfDirective(d)
  PROVE  /\ IsSequence(s) /\ Len(s) = LongEnd(d) + (IF d.conv = NUL THEN 0 ELSE 1)
         /\ s[1] = "%"
         /\ \A x \in 1..Len(d.flags) : s[1 + x] = d.flags[x]
         /\ \A x \in 1..Len(d.width) : s[FlagsEnd(d) + x] = d.width[x]
         /\ \A x \in 1..Len(d.prec) : s[WidthEnd(d) + x] = d.prec[x]
         /\ \A x \in 1..d.l : s[PrecEnd(d) + x] = "l"
         /\ d.conv # NUL => s[LongEnd(d) + 1] = d.conv
<1>1. /\ IsSequence(d.flags) /\ IsSequence(d.width) /\ IsSequence(d.prec)
      /\ d.l \in Nat
      /\ Len(d.flags) \in Nat /\ Len(d.width) \in Nat /\ Len(d.prec) \in Nat
  BY DirectiveTyped
<1>2. /\ IsSequence(Pad("l", d.l)) /\ Len(Pad("l", d.l)) = d.l
      /\ \A x \in 1..d.l : Pad("l", d.l)[x] = "l"
  <2>1. /\ IsSequence(Pad("l", d.l))
        /\ Len(Pad("l", d.l)) = IF d.l > 0 THEN d.l ELSE 0
        /\ \A x \in 1..Len(Pad("l", d.l)) : Pad("l", d.l)[x] = "l"
    BY <1>1, PadIs
  <2> QED
    BY <1>1, <2>1
<1>3. /\ IsSequence(ConvPart(d)) /\ Len(ConvPart(d)) = (IF d.conv = NUL THEN 0 ELSE 1)
      /\ d.conv # NUL => ConvPart(d)[1] = d.conv
  BY NothingIsSequence, OneIsSequence DEF ConvPart
<1>4. PICK s1, p2, p3, p4, p5, p6 :
        /\ s1 = <<"%">> /\ p2 = d.flags /\ p3 = d.width /\ p4 = d.prec
        /\ p5 = Pad("l", d.l) /\ p6 = ConvPart(d)
  OBVIOUS
<1>5. PICK s2, s3, s4, s5 :
        s2 = s1 \o p2 /\ s3 = s2 \o p3 /\ s4 = s3 \o p4 /\ s5 = s4 \o p5
  OBVIOUS
<1>6. s = s5 \o p6
  BY <1>4, <1>5 DEF FormatOfDirective, ConvPart
<1>7. IsSequence(s1) /\ Len(s1) = 1 /\ s1[1] = "%"
  BY <1>4, OneIsSequence
<1>8. /\ IsSequence(p2) /\ IsSequence(p3) /\ IsSequence(p4) /\ IsSequence(p5)
      /\ IsSequence(p6)
  BY <1>1, <1>2, <1>3, <1>4
<1>9. IsSequence(s2) /\ Joins(s1, p2, s2)
  BY <1>5, <1>7, <1>8, ConcatSequences
<1>10. IsSequence(s3) /\ Joins(s2, p3, s3)
  BY <1>5, <1>8, <1>9, ConcatSequences
<1>11. IsSequence(s4) /\ Joins(s3, p4, s4)
  BY <1>5, <1>8, <1>10, ConcatSequences
<1>12. IsSequence(s5) /\ Joins(s4, p5, s5)
  BY <1>5, <1>8, <1>11, ConcatSequences
<1>13. IsSequence(s) /\ Joins(s5, p6, s)
  BY <1>6, <1>8, <1>12, ConcatSequences
<1>14. Begins(s5, s) /\ Begins(s4, s) /\ Begins(s3, s) /\ Begins(s2, s) /\ Begins(s1, s)
  <2>1. /\ Begins(s1, s1) /\ Begins(s2, s2) /\ Begins(s3, s3) /\ Begins(s4, s4)
        /\ Begins(s5, s5)
    BY <1>7, <1>9, <1>10, <1>11, <1>12, BeginsItself DEF IsSequence
  <2>2. Begins(s1, s2) /\ Begins(s2, s3) /\ Begins(s3, s4) /\ Begins(s4, s5)
    BY <1>9, <1>10, <1>11, <1>12, <2>1, BeginsJoined
  <2>3. Begins(s1, s3) /\ Begins(s2, s4) /\ Begins(s3, s5)
    BY <1>10, <1>11, <1>12, <2>2, BeginsJoined
  <2>4. Begins(s1, s4) /\ Begins(s2, s5)
    BY <1>11, <1>12, <2>3, BeginsJoined
  <2>5. Begins(s1, s5)
    BY <1>12, <2>4, BeginsJoined
  <2> QED
    BY <1>13, <2>1, <2>2, <2>3, <2>4, <2>5, BeginsJoined
<1>15. /\ Len(s1) = 1 /\ Len(s2) = FlagsEnd(d) /\ Len(s3) = WidthEnd(d)
       /\ Len(s4) = PrecEnd(d) /\ Len(s5) = LongEnd(d)
       /\ Len(s) = LongEnd(d) + Len(p6)
  <2>1. /\ Len(s2) = 1 + Len(d.flags) /\ Len(s3) = Len(s2) + Len(d.width)
        /\ Len(s4) = Len(s3) + Len(d.prec) /\ Len(s5) = Len(s4) + d.l
        /\ Len(s) = Len(s5) + Len(p6)
    BY <1>2, <1>4, <1>7, <1>9, <1>10, <1>11, <1>12, <1>13 DEF Joins
  <2> QED
    BY <1>7, <2>1 DEF FlagsEnd, WidthEnd, PrecEnd, LongEnd
<1>16. s[1] = "%"
  BY <1>7, <1>14 DEF Begins
<1>17. \A x \in 1..Len(d.flags) : s[1 + x] = d.flags[x]
  <2>1. \A x \in 1..Len(p2) : s[Len(s1) + x] = p2[x]
    BY <1>9, <1>14, JoinedThere
  <2> QED
    BY <1>4, <1>15, <2>1
<1>18. \A x \in 1..Len(d.width) : s[FlagsEnd(d) + x] = d.width[x]
  <2>1. \A x \in 1..Len(p3) : s[Len(s2) + x] = p3[x]
    BY <1>10, <1>14, JoinedThere
  <2> QED
    BY <1>4, <1>15, <2>1
<1>19. \A x \in 1..Len(d.prec) : s[WidthEnd(d) + x] = d.prec[x]
  <2>1. \A x \in 1..Len(p4) : s[Len(s3) + x] = p4[x]
    BY <1>11, <1>14, JoinedThere
  <2> QED
    BY <1>4, <1>15, <2>1
<1>20. \A x \in 1..d.l : s[PrecEnd(d) + x] = "l"
  <2>1. \A x \in 1..Len(p5) : s[Len(s4) + x] = p5[x]
    BY <1>12, <1>14, JoinedThere
  <2> QED
    BY <1>2, <1>4, <1>15, <2>1
<1>21. d.conv # NUL => s[LongEnd(d) + 1] = d.conv
  <2>1. ASSUME d.conv # NUL PROVE s[LongEnd(d) + 1] = d.conv
    <3>1. 1 \in 1..Len(p6) /\ p6[1] = d.conv
      <4>1. Len(p6) = 1 /\ p6[1] = d.conv
        BY <1>3, <1>4, <2>1
      <4> QED
        BY <4>1
    <3>2. s[Len(s5) + 1] = p6[1]
      BY <1>13, <3>1 DEF Joins
    <3> QED
      BY <1>15, <3>1, <3>2
  <2> QED
    BY <2>1
<1>22. Len(s) = LongEnd(d) + (IF d.conv = NUL THEN 0 ELSE 1)
  BY <1>3, <1>4, <1>15
<1> QED
  BY <1>13, <1>16, <1>17, <1>18, <1>19, <1>20, <1>21, <1>22

-----------------------------------------------------------------------------
(* The frames of vprintfmt, field by field.                                *)

FrameOf(fmt, pos, ap, escape, padc, width, precision, lflag, altflag) ==
  [fmt |-> fmt, pos |-> pos, ap |-> ap, escape |-> escape, padc |-> padc,
   width |-> width, precision |-> precision, lflag |-> lflag, altflag |-> altflag]

LEMMA FrameFields ==
  ASSUME NEW fmt, NEW pos, NEW ap, NEW escape, NEW padc, NEW width, NEW precision,
         NEW lflag, NEW altflag, NEW f,
         f = FrameOf(fmt, pos, ap, escape, padc, width, precision, lflag, altflag)
  PROVE  /\ f.fmt = fmt /\ f.pos = pos /\ f.ap = ap /\ f.padc = padc /\ f.width = width
         /\ f.precision = precision /\ f.lflag = lflag
         /\ f.escape = escape
         /\ f.altflag = altflag
BY DEF FrameOf

LEMMA SkippingIs ==
  ASSUME NEW fmt, NEW pos \in Nat, NEW ap, NEW escape, NEW padc, NEW width, NEW precision,
         NEW lflag, NEW altflag, NEW f,
         f = FrameOf(fmt, pos, ap, escape, padc, width, precision, lflag, altflag)
  PROVE  Skipping(f)
           = FrameOf(fmt, pos + 1, ap, escape, padc, width, precision, lflag, altflag)
<1>1. PICK p : p = pos + 1
  OBVIOUS
<1>2. f.pos = pos
  BY FrameFields
<1>3. Skipping(f) = [f EXCEPT !.pos = p]
  BY <1>1, <1>2 DEF Skipping
<1>4. [f EXCEPT !.pos = p]
        = FrameOf(fmt, p, ap, escape, padc, width, precision, lflag, altflag)
  BY DEF FrameOf
<1> QED
  BY <1>1, <1>3, <1>4

\* A frame at the '%' of a directive, and behind it.
\* What BeginEscape makes of a frame.
Begun(f) == [Skipping(f) EXCEPT !.escape = TRUE, !.padc = " ", !.width = -1,
                                !.precision = -1, !.lflag = 0, !.altflag = FALSE]

BegunFrame(fmt, pos, ap) == FrameOf(fmt, pos, ap, TRUE, " ", -1, -1, 0, FALSE)

LEMMA BeginIs ==
  ASSUME NEW fmt, NEW pos \in Nat, NEW ap, NEW escape, NEW padc, NEW width, NEW precision,
         NEW lflag, NEW altflag, NEW f,
         f = FrameOf(fmt, pos, ap, escape, padc, width, precision, lflag, altflag)
  PROVE  Begun(f) = BegunFrame(fmt, pos + 1, ap)
<1>0. PICK p : p = pos + 1
  OBVIOUS
<1>1. PICK m, yes, no, blank, zero :
        m = -1 /\ yes = TRUE /\ no = FALSE /\ blank = " " /\ zero = 0
  OBVIOUS
<1> DEFINE s == Skipping(f)
           s1 == [s EXCEPT !.escape = yes]
           s2 == [s1 EXCEPT !.padc = blank]
           s3 == [s2 EXCEPT !.width = m]
           s4 == [s3 EXCEPT !.precision = m]
           s5 == [s4 EXCEPT !.lflag = zero]
           s6 == [s5 EXCEPT !.altflag = no]
<1>2. s = FrameOf(fmt, p, ap, escape, padc, width, precision, lflag, altflag)
  BY <1>0, SkippingIs
<1> HIDE DEF s
<1>3. s1 = FrameOf(fmt, p, ap, yes, padc, width, precision, lflag, altflag)
  BY <1>2 DEF FrameOf
<1> HIDE DEF s1
<1>4. s2 = FrameOf(fmt, p, ap, yes, blank, width, precision, lflag, altflag)
  BY <1>3 DEF FrameOf
<1> HIDE DEF s2
<1>5. s3 = FrameOf(fmt, p, ap, yes, blank, m, precision, lflag, altflag)
  BY <1>4 DEF FrameOf
<1> HIDE DEF s3
<1>6. s4 = FrameOf(fmt, p, ap, yes, blank, m, m, lflag, altflag)
  BY <1>5 DEF FrameOf
<1> HIDE DEF s4
<1>7. s5 = FrameOf(fmt, p, ap, yes, blank, m, m, zero, altflag)
  BY <1>6 DEF FrameOf
<1> HIDE DEF s5
<1>8. s6 = FrameOf(fmt, p, ap, yes, blank, m, m, zero, no)
  BY <1>7 DEF FrameOf
<1>9. [s EXCEPT !.escape = yes, !.padc = blank, !.width = m, !.precision = m, !.lflag = zero,
                !.altflag = no] = s6
  BY DEF s1, s2, s3, s4, s5, s6
<1> HIDE DEF s6
<1> QED
  BY <1>0, <1>1, <1>8, <1>9 DEF s, Begun, BegunFrame

LEMMA SetTwo ==
  ASSUME NEW f, NEW x, NEW y, NEW z
  PROVE  /\ [f EXCEPT !.width = x, !.precision = y]
              = [[f EXCEPT !.width = x] EXCEPT !.precision = y]
         /\ [f EXCEPT !.escape = x, !.ap = y] = [[f EXCEPT !.escape = x] EXCEPT !.ap = y]
         /\ [f EXCEPT !.escape = x, !.pos = y] = [[f EXCEPT !.escape = x] EXCEPT !.pos = y]
OBVIOUS

LEMMA ProcessPrecisionIs ==
  ASSUME NEW fmt, NEW pos, NEW ap, NEW escape, NEW padc, NEW width \in Int, NEW precision,
         NEW lflag, NEW altflag, NEW f, NEW v,
         f = FrameOf(fmt, pos, ap, escape, padc, width, precision, lflag, altflag)
  PROVE  /\ width < 0 => process_precision(f, v)
                           = FrameOf(fmt, pos, ap, escape, padc, v, -1, lflag, altflag)
         /\ ~(width < 0) => process_precision(f, v)
                           = FrameOf(fmt, pos, ap, escape, padc, width, v, lflag, altflag)
<1>1. PICK m : m = -1
  OBVIOUS
<1>2. f.width = width
  BY FrameFields
<1>3. ASSUME width < 0
      PROVE  process_precision(f, v)
               = FrameOf(fmt, pos, ap, escape, padc, v, -1, lflag, altflag)
  <2>1. process_precision(f, v) = [[f EXCEPT !.width = v] EXCEPT !.precision = m]
    BY <1>1, <1>2, <1>3, SetTwo DEF process_precision
  <2>2. [f EXCEPT !.width = v]
          = FrameOf(fmt, pos, ap, escape, padc, v, precision, lflag, altflag)
    BY DEF FrameOf
  <2>3. [FrameOf(fmt, pos, ap, escape, padc, v, precision, lflag, altflag)
           EXCEPT !.precision = m]
          = FrameOf(fmt, pos, ap, escape, padc, v, m, lflag, altflag)
    BY DEF FrameOf
  <2> QED
    BY <1>1, <2>1, <2>2, <2>3
<1>4. ASSUME ~(width < 0)
      PROVE  process_precision(f, v)
               = FrameOf(fmt, pos, ap, escape, padc, width, v, lflag, altflag)
  <2>1. process_precision(f, v) = [f EXCEPT !.precision = v]
    BY <1>2, <1>4 DEF process_precision
  <2>2. [f EXCEPT !.precision = v]
          = FrameOf(fmt, pos, ap, escape, padc, width, v, lflag, altflag)
    BY DEF FrameOf
  <2> QED
    BY <2>1, <2>2
<1> QED
  BY <1>3, <1>4

LEMMA ConvertedIs ==
  ASSUME NEW fmt, NEW pos \in Nat, NEW ap, NEW escape, NEW padc, NEW width, NEW precision,
         NEW lflag, NEW altflag,
         top = FrameOf(fmt, pos, ap, escape, padc, width, precision, lflag, altflag)
  PROVE  Converted = FrameOf(fmt, pos + 1, Tail(ap), FALSE, padc, width, precision, lflag,
                             altflag)
<1>1. PICK p, no, rest : p = pos + 1 /\ no = FALSE /\ rest = Tail(ap)
  OBVIOUS
<1> DEFINE s == Skipping(top)
<1>2. s = FrameOf(fmt, p, ap, escape, padc, width, precision, lflag, altflag)
  BY <1>1, SkippingIs
<1>3. s.ap = ap
  BY <1>2, FrameFields
<1> HIDE DEF s
<1>4. Converted = [[s EXCEPT !.escape = no] EXCEPT !.ap = rest]
  BY <1>1, <1>3, SetTwo DEF Converted, s
<1>5. [s EXCEPT !.escape = no]
        = FrameOf(fmt, p, ap, no, padc, width, precision, lflag, altflag)
  BY <1>2 DEF FrameOf
<1>6. [FrameOf(fmt, p, ap, no, padc, width, precision, lflag, altflag) EXCEPT !.ap = rest]
        = FrameOf(fmt, p, rest, no, padc, width, precision, lflag, altflag)
  BY DEF FrameOf
<1> QED
  BY <1>1, <1>4, <1>5, <1>6

-----------------------------------------------------------------------------
(* Messages: their formats, arguments and texts up to each directive.      *)

\* All about n pieces and what they make.
JoinFacts(pieces, n, J) ==
  /\ J[0] = <<>>
  /\ \A k \in 0..n : IsSequence(J[k]) /\ Len(J[k]) \in Nat /\ Len(J[k]) <= Len(J[n])
  /\ \A k \in 1..n : /\ J[k] = J[k - 1] \o pieces[k]
                     /\ Len(J[k]) = Len(J[k - 1]) + Len(pieces[k])
                     /\ IsSequence(pieces[k]) /\ Len(pieces[k]) \in Nat
                     /\ \A x \in 1..Len(pieces[k]) : J[n][Len(J[k - 1]) + x] = pieces[k][x]

LEMMA JoinFactsHold ==
  ASSUME NEW n \in Nat, NEW pieces, pieces = [k \in 1..n |-> pieces[k]],
         \A k \in 1..n : IsSequence(pieces[k])
  PROVE  JoinFacts(pieces, n, Join(pieces, n)) /\ FlattenSeq(pieces) = Join(pieces, n)[n]
<1>1. PICK V : ArePieces(pieces, n, V)
  BY PieceSequences
<1> DEFINE J == Join(pieces, n)
<1>2. IsJoin(J, pieces, n) /\ \A k \in 0..n : J[k] \in Seq(V)
  BY <1>1, JoinExists
<1>3. FlattenSeq(pieces) = J[n]
  <2>1. pieces \in [1..n -> Seq(V)]
    BY <1>1 DEF ArePieces
  <2> QED
    BY <2>1, FlattenIsJoin
<1> HIDE DEF J
<1>4. ASSUME NEW k \in 0..n
      PROVE  IsSequence(J[k]) /\ Len(J[k]) \in Nat /\ Len(J[k]) <= Len(J[n])
  <2>1. IsSequence(J[k])
    <3>1. J[k] \in Seq(V)
      BY <1>2
    <3> QED
      BY <3>1, SequenceOf
  <2>2. Begins(J[k], J[n])
    BY <1>1, <1>2, JoinedBegin
  <2> QED
    BY <2>1, <2>2 DEF Begins
<1>5. ASSUME NEW k \in 1..n
      PROVE  /\ J[k] = J[k - 1] \o pieces[k]
             /\ Len(J[k]) = Len(J[k - 1]) + Len(pieces[k])
             /\ IsSequence(pieces[k]) /\ Len(pieces[k]) \in Nat
             /\ \A x \in 1..Len(pieces[k]) : J[n][Len(J[k - 1]) + x] = pieces[k][x]
  <2>1. Joins(J[k - 1], pieces[k], J[k])
    BY <1>1, <1>2, JoinedOne
  <2>2. \A x \in 1..Len(pieces[k]) : J[n][Len(J[k - 1]) + x] = pieces[k][x]
    <3>1. k \in 0..n
      OBVIOUS
    <3>2. Begins(J[k], J[n])
      BY <1>1, <1>2, <3>1, JoinedBegin
    <3> QED
      BY <2>1, <3>2, JoinedThere
  <2>3. J[k] = J[k - 1] \o pieces[k]
    BY <1>2 DEF IsJoin
  <2> QED
    BY <2>1, <2>2, <2>3 DEF Joins
<1>6. J[0] = <<>>
  BY <1>2 DEF IsJoin
<1>7. JoinFacts(pieces, n, J)
  BY <1>4, <1>5, <1>6 DEF JoinFacts
<1> QED
  BY <1>3, <1>7 DEF J

ArgsOfDirective(d) == d.stars \o (IF TakesArgument(d) THEN <<d.arg>> ELSE <<>>)

FormatPieces(m) == [k \in 1..Len(m) |-> FormatOfDirective(m[k])]
ArgPieces(m) == [k \in 1..Len(m) |-> ArgsOfDirective(m[k])]
TextPieces(m) == [k \in 1..Len(m) |-> Rendered(m[k])]

FormatTo(m) == Join(FormatPieces(m), Len(m))
ArgsTo(m) == Join(ArgPieces(m), Len(m))
TextTo(m) == Join(TextPieces(m), Len(m))

LEMMA FormatIsSequence ==
  ASSUME NEW d, IsDirective(d)
  PROVE  IsSequence(FormatOfDirective(d))
<1>1. CASE d.conv = "text"
  <2>1. FormatOfDirective(d) = <<d.arg>>
    BY <1>1 DEF FormatOfDirective
  <2> QED
    BY <2>1, OneIsSequence
<1>2. CASE d.conv # "text"
  BY <1>2, DirectiveText
<1> QED
  BY <1>1, <1>2

\* A directive's arguments are what '*' asks for, and the value converted.
LEMMA ArgsAre ==
  ASSUME NEW d, IsDirective(d), NEW s, s = ArgsOfDirective(d)
  PROVE  /\ IsSequence(s)
         /\ Len(s) = Len(d.stars) + (IF TakesArgument(d) THEN 1 ELSE 0)
         /\ \A x \in 1..Len(d.stars) : s[x] = d.stars[x]
         /\ TakesArgument(d) => s[Len(d.stars) + 1] = d.arg
<1>1. IsSequence(d.stars) /\ Len(d.stars) \in Nat
  BY DirectiveTyped
<1>2. PICK t : t = IF TakesArgument(d) THEN <<d.arg>> ELSE <<>>
  OBVIOUS
<1>3. /\ IsSequence(t) /\ Len(t) = (IF TakesArgument(d) THEN 1 ELSE 0)
      /\ TakesArgument(d) => t[1] = d.arg
  BY <1>2, NothingIsSequence, OneIsSequence
<1>4. s = d.stars \o t
  BY <1>2 DEF ArgsOfDirective
<1>5. IsSequence(s) /\ Joins(d.stars, t, s)
  BY <1>1, <1>3, <1>4, ConcatSequences
<1>6. TakesArgument(d) => s[Len(d.stars) + 1] = d.arg
  <2>1. ASSUME TakesArgument(d) PROVE s[Len(d.stars) + 1] = d.arg
    <3>1. Len(t) = 1 /\ t[1] = d.arg
      BY <1>3, <2>1
    <3>2. 1 \in 1..Len(t)
      BY <3>1
    <3> QED
      BY <1>5, <3>1, <3>2 DEF Joins
  <2> QED
    BY <2>1
<1> QED
  BY <1>3, <1>5, <1>6 DEF Joins

LEMMA MessageIs ==
  ASSUME NEW m, IsMessage(m)
  PROVE  /\ Len(m) \in Nat
         /\ \A k \in 1..Len(m) : /\ IsDirective(m[k])
                                 /\ m[k].conv = NUL => k = Len(m)
                                 /\ FormatPieces(m)[k] = FormatOfDirective(m[k])
                                 /\ ArgPieces(m)[k] = ArgsOfDirective(m[k])
         /\ JoinFacts(FormatPieces(m), Len(m), FormatTo(m))
         /\ JoinFacts(ArgPieces(m), Len(m), ArgsTo(m))
         /\ FormatOf(m) = FormatTo(m)[Len(m)]
         /\ ArgsOf(m) = ArgsTo(m)[Len(m)]
<1>1. /\ Len(m) \in Nat
      /\ \A k \in 1..Len(m) : IsDirective(m[k]) /\ (m[k].conv = NUL => k = Len(m))
  BY DEF IsMessage
<1> DEFINE n == Len(m)
           fp == FormatPieces(m)
           ap == ArgPieces(m)
<1>2. \A k \in 1..n : fp[k] = FormatOfDirective(m[k]) /\ ap[k] = ArgsOfDirective(m[k])
  BY DEF FormatPieces, ArgPieces
<1>3. fp = [k \in 1..n |-> fp[k]] /\ ap = [k \in 1..n |-> ap[k]]
  BY DEF FormatPieces, ArgPieces
<1>4. FlattenSeq(fp) = FormatOf(m) /\ FlattenSeq(ap) = ArgsOf(m)
  BY DEF FormatPieces, ArgPieces, FormatOf, ArgsOf, ArgsOfDirective
<1> HIDE DEF fp, ap
<1>5. \A k \in 1..n : IsSequence(fp[k]) /\ IsSequence(ap[k])
  BY <1>1, <1>2, FormatIsSequence, ArgsAre
<1>6. JoinFacts(fp, n, Join(fp, n)) /\ FlattenSeq(fp) = Join(fp, n)[n]
  BY <1>1, <1>3, <1>5, JoinFactsHold
<1>7. JoinFacts(ap, n, Join(ap, n)) /\ FlattenSeq(ap) = Join(ap, n)[n]
  BY <1>1, <1>3, <1>5, JoinFactsHold
<1> QED
  BY <1>1, <1>2, <1>4, <1>6, <1>7 DEF fp, ap, FormatTo, ArgsTo

\* The place of the element j of the piece k among all pieces.
LEMMA PiecePlace ==
  ASSUME NEW n \in Nat, NEW pieces, NEW J, JoinFacts(pieces, n, J), NEW k \in 1..n,
         NEW j \in Nat, j < Len(pieces[k])
  PROVE  /\ J[n][(Len(J[k - 1]) + j) + 1] = pieces[k][j + 1]
         /\ (Len(J[k - 1]) + j) + 1 <= Len(J[n])
         /\ Len(J[k - 1]) \in Nat /\ Len(J[n]) \in Nat
<1>1. k \in 0..n /\ k - 1 \in 0..n /\ n \in 0..n
  OBVIOUS
<1>2. /\ Len(J[k - 1]) \in Nat /\ Len(J[n]) \in Nat /\ Len(J[k]) <= Len(J[n])
      /\ Len(J[k]) = Len(J[k - 1]) + Len(pieces[k]) /\ Len(pieces[k]) \in Nat
  BY <1>1 DEF JoinFacts
<1>3. \A x \in 1..Len(pieces[k]) : J[n][Len(J[k - 1]) + x] = pieces[k][x]
  BY DEF JoinFacts
<1>4. PICK a, b, c, e : a = Len(J[k - 1]) /\ b = Len(pieces[k]) /\ c = Len(J[k]) /\ e = Len(J[n])
  OBVIOUS
<1>5. a \in Nat /\ b \in Nat /\ e \in Nat /\ c <= e /\ c = a + b /\ j < b
  BY <1>2, <1>4
<1>6. \A x \in 1..b : J[n][a + x] = pieces[k][x]
  BY <1>3, <1>4
<1> SUFFICES J[n][(a + j) + 1] = pieces[k][j + 1] /\ (a + j) + 1 <= e
  BY <1>2, <1>4
<1> HIDE <1>4
<1>7. j + 1 \in 1..b /\ (a + j) + 1 = a + (j + 1) /\ (a + j) + 1 <= e
  BY <1>5
<1> QED
  BY <1>6, <1>7

\* The characters of a directive are in the format behind those before it.
LEMMA CharInFormat ==
  ASSUME NEW m, IsMessage(m), NEW k \in 1..Len(m), NEW j \in Nat,
         j < Len(FormatOfDirective(m[k])), NEW f, f.fmt = FormatOf(m)
  PROVE  /\ CharAt(f, (Len(FormatTo(m)[k - 1]) + j) + 1) = FormatOfDirective(m[k])[j + 1]
         /\ f.fmt[(Len(FormatTo(m)[k - 1]) + j) + 1] = FormatOfDirective(m[k])[j + 1]
         /\ (Len(FormatTo(m)[k - 1]) + j) + 1 <= Len(f.fmt)
         /\ Len(FormatTo(m)[k - 1]) \in Nat /\ Len(f.fmt) \in Nat
<1> DEFINE n == Len(m)
           fp == FormatPieces(m)
           J == FormatTo(m)
<1>1. n \in Nat /\ JoinFacts(fp, n, J) /\ f.fmt = J[n] /\ fp[k] = FormatOfDirective(m[k])
  BY MessageIs
<1>2. k \in 1..n /\ j < Len(fp[k])
  BY <1>1
<1> HIDE DEF n, fp, J
<1>3. /\ J[n][(Len(J[k - 1]) + j) + 1] = fp[k][j + 1]
      /\ (Len(J[k - 1]) + j) + 1 <= Len(J[n])
      /\ Len(J[k - 1]) \in Nat /\ Len(J[n]) \in Nat
  BY <1>1, <1>2, PiecePlace
<1>4. PICK q \in Nat, e \in Nat : q = (Len(J[k - 1]) + j) + 1 /\ e = Len(J[n])
  BY <1>3
<1>5. CharAt(f, q) = f.fmt[q]
  BY <1>1, <1>3, <1>4 DEF CharAt
<1> QED
  BY <1>1, <1>3, <1>4, <1>5 DEF J

LEMMA FormatEnds ==
  ASSUME NEW m, IsMessage(m), NEW f, f.fmt = FormatOf(m)
  PROVE  CharAt(f, Len(FormatTo(m)[Len(m)]) + 1) = NUL
<1>1. Len(m) \in Nat /\ FormatOf(m) = FormatTo(m)[Len(m)]
      /\ JoinFacts(FormatPieces(m), Len(m), FormatTo(m))
  BY MessageIs
<1>2. PICK e \in Nat : e = Len(f.fmt) /\ e = Len(FormatTo(m)[Len(m)])
  BY <1>1 DEF JoinFacts
<1> QED
  BY <1>2 DEF CharAt

\* The arguments of a directive are behind those of the ones before it.
LEMMA ArgInOrder ==
  ASSUME NEW m, IsMessage(m), NEW k \in 1..Len(m), NEW x \in Nat,
         x < Len(ArgsOfDirective(m[k]))
  PROVE  /\ Head(Rest(ArgsOf(m), Len(ArgsTo(m)[k - 1]) + x)) = ArgsOfDirective(m[k])[x + 1]
         /\ Tail(Rest(ArgsOf(m), Len(ArgsTo(m)[k - 1]) + x))
              = Rest(ArgsOf(m), Len(ArgsTo(m)[k - 1]) + (x + 1))
<1> DEFINE n == Len(m)
           p == ArgPieces(m)
           J == ArgsTo(m)
<1>1. n \in Nat /\ JoinFacts(p, n, J) /\ ArgsOf(m) = J[n] /\ p[k] = ArgsOfDirective(m[k])
  BY MessageIs
<1>2. k \in 1..n /\ n \in 0..n /\ x < Len(p[k])
  BY <1>1
<1> HIDE DEF n, p, J
<1>3. /\ J[n][(Len(J[k - 1]) + x) + 1] = p[k][x + 1]
      /\ (Len(J[k - 1]) + x) + 1 <= Len(J[n])
      /\ Len(J[k - 1]) \in Nat /\ Len(J[n]) \in Nat
  BY <1>1, <1>2, PiecePlace
<1>4. PICK a \in Nat : a = Len(J[k - 1])
  BY <1>3
<1>5. PICK q \in Nat : q = a + x
  BY <1>4
<1>6. PICK s, V : s = J[n] /\ s \in Seq(V)
  <2>1. IsSequence(J[n])
    BY <1>1, <1>2 DEF JoinFacts
  <2> QED
    BY <2>1 DEF IsSequence
<1>7. Head(Rest(s, q)) = s[q + 1] /\ Tail(Rest(s, q)) = Rest(s, q + 1)
  <2>1. q < Len(s)
    BY <1>3, <1>4, <1>5, <1>6
  <2> QED
    BY <1>6, <2>1, RestMoves
<1>8. a + (x + 1) = q + 1
  BY <1>5
<1> QED
  BY <1>1, <1>3, <1>4, <1>5, <1>6, <1>7, <1>8 DEF J

-----------------------------------------------------------------------------
(* The actions that what is read next allows.                              *)

Reserved == Decimal \cup {"-", "*", ".", "#", "l", "c", "e", "s", "d", "u", "o", "p", "x",
                          "%"}

LEMMA PlainActions ==
  ASSUME vprintfmt, top.escape = FALSE
  PROVE  /\ ch \notin {"%", NUL} => Literal
         /\ ch = NUL => Finish
         /\ ch = "%" => BeginEscape
BY DEF vprintfmt, Literal, Finish, BeginEscape, PadFlag, NumberField, StarField, PointFlag,
       AltFlag, LongFlag, Reswitch, CharConversion, ErrorConversion, StringConversion,
       DecimalConversion, UnsignedConversion, OctalConversion, HexConversion,
       PointerConversion, PercentConversion, UnknownConversion, Convert, NUL

LEMMA EscapeActions ==
  ASSUME vprintfmt, top.escape = TRUE
  PROVE  /\ ch \in {"-", "0"} => PadFlag
         /\ ch = "#" => AltFlag
         /\ ch \in Decimal \ {"0"} => NumberField
         /\ ch = "*" => StarField
         /\ ch = "." => PointFlag
         /\ ch = "l" => LongFlag
         /\ ch = "c" => CharConversion
         /\ ch = "e" => ErrorConversion
         /\ ch = "s" => StringConversion
         /\ ch = "d" => DecimalConversion
         /\ ch = "u" => UnsignedConversion
         /\ ch = "o" => OctalConversion
         /\ ch = "x" => HexConversion
         /\ ch = "p" => PointerConversion
         /\ ch = "%" => PercentConversion
         /\ ch \notin Reserved => UnknownConversion
<1>1. \/ PadFlag \/ NumberField \/ StarField \/ PointFlag \/ AltFlag \/ LongFlag
      \/ CharConversion \/ ErrorConversion \/ StringConversion \/ DecimalConversion
      \/ UnsignedConversion \/ OctalConversion \/ HexConversion \/ PointerConversion
      \/ PercentConversion \/ UnknownConversion
  BY DEF vprintfmt, Literal, Finish, BeginEscape
<1>2. /\ PadFlag => ch \in {"-", "0"}
      /\ NumberField => ch \in Decimal \ {"0"}
      /\ StarField => ch = "*"
      /\ PointFlag => ch = "."
      /\ AltFlag => ch = "#"
      /\ LongFlag => ch = "l"
      /\ CharConversion => ch = "c"
      /\ ErrorConversion => ch = "e"
      /\ StringConversion => ch = "s"
      /\ DecimalConversion => ch = "d"
      /\ UnsignedConversion => ch = "u"
      /\ OctalConversion => ch = "o"
      /\ HexConversion => ch = "x"
      /\ PointerConversion => ch = "p"
      /\ PercentConversion => ch = "%"
      /\ UnknownConversion => ch \notin Reserved
  BY DEF PadFlag, NumberField, StarField, PointFlag, AltFlag, LongFlag, CharConversion,
         ErrorConversion, StringConversion, DecimalConversion, UnsignedConversion,
         OctalConversion, HexConversion, PointerConversion, PercentConversion,
         UnknownConversion, Convert, Reserved
<1> HIDE DEF ch
<1>3. Decimal = {"0", "1", "2", "3", "4", "5", "6", "7", "8", "9"}
  BY DecimalIs
<1>4. ASSUME NEW c, c = ch
      PROVE  /\ c \in {"-", "0"} => PadFlag
             /\ c = "#" => AltFlag
             /\ c \in Decimal \ {"0"} => NumberField
             /\ c = "*" => StarField
             /\ c = "." => PointFlag
             /\ c = "l" => LongFlag
  BY <1>1, <1>2, <1>3, <1>4 DEF Reserved
<1>5. ASSUME NEW c, c = ch
      PROVE  /\ c = "c" => CharConversion
             /\ c = "e" => ErrorConversion
             /\ c = "s" => StringConversion
             /\ c = "d" => DecimalConversion
             /\ c = "u" => UnsignedConversion
  BY <1>1, <1>2, <1>3, <1>5 DEF Reserved
<1>6. ASSUME NEW c, c = ch
      PROVE  /\ c = "o" => OctalConversion
             /\ c = "x" => HexConversion
             /\ c = "p" => PointerConversion
             /\ c = "%" => PercentConversion
  BY <1>1, <1>2, <1>3, <1>6 DEF Reserved
<1>7. ASSUME NEW c, c = ch
      PROVE  c \notin Reserved => UnknownConversion
  BY <1>1, <1>2, <1>3, <1>7 DEF Reserved
<1> QED
  BY <1>4, <1>5, <1>6, <1>7

-----------------------------------------------------------------------------
(* Places in the format of a message, and in its arguments: behind j       *)
(* characters, and a arguments, of the directive k.                        *)

PlaceOf(m, k, j) == (Len(FormatTo(m)[k - 1]) + j) + 1
ArgsAt(m, k, a) == Rest(ArgsOf(m), Len(ArgsTo(m)[k - 1]) + a)

LEMMA PlaceMoves ==
  ASSUME NEW m, IsMessage(m), NEW k \in 1..(Len(m) + 1), NEW j \in Nat
  PROVE  /\ PlaceOf(m, k, j) \in Nat
         /\ \A x \in Nat : PlaceOf(m, k, j) + x = PlaceOf(m, k, j + x)
<1>1. PICK a : a = Len(FormatTo(m)[k - 1])
  OBVIOUS
<1>2. a \in Nat
  <2>1. Len(m) \in Nat /\ JoinFacts(FormatPieces(m), Len(m), FormatTo(m))
    BY MessageIs
  <2>2. k - 1 \in 0..Len(m)
    BY <2>1
  <2> QED
    BY <1>1, <2>1, <2>2 DEF JoinFacts
<1>3. \A x \in Nat : PlaceOf(m, k, x) = (a + x) + 1
  BY <1>1 DEF PlaceOf
<1> HIDE <1>1
<1>4. \A x \in Nat : j + x \in Nat
  OBVIOUS
<1>5. PlaceOf(m, k, j) = (a + j) + 1 /\ \A x \in Nat : PlaceOf(m, k, j + x) = (a + (j + x)) + 1
  BY <1>3, <1>4
<1>6. (a + j) + 1 \in Nat /\ \A x \in Nat : ((a + j) + 1) + x = (a + (j + x)) + 1
  BY <1>2
<1>7. PICK q : q = (a + j) + 1
  OBVIOUS
<1>8. q \in Nat /\ PlaceOf(m, k, j) = q /\ \A x \in Nat : q + x = PlaceOf(m, k, j + x)
  BY <1>5, <1>6, <1>7
<1> QED
  BY <1>8

LEMMA PlaceOne ==
  ASSUME NEW m, IsMessage(m), NEW k \in 1..Len(m), NEW j \in Nat
  PROVE  PlaceOf(m, k, j) \in Nat \ {0} /\ PlaceOf(m, k, j) + 1 = PlaceOf(m, k, j + 1)
<1>1. k \in 1..(Len(m) + 1) /\ 1 \in Nat /\ 0 \in Nat
  BY MessageIs
<1>2. PlaceOf(m, k, j) \in Nat /\ \A x \in Nat : PlaceOf(m, k, j) + x = PlaceOf(m, k, j + x)
  BY <1>1, PlaceMoves
<1>3. PICK a \in Nat : a = Len(FormatTo(m)[k - 1])
  <2>1. Len(m) \in Nat /\ JoinFacts(FormatPieces(m), Len(m), FormatTo(m))
    BY MessageIs
  <2>2. k - 1 \in 0..Len(m)
    BY <2>1
  <2> QED
    BY <2>1, <2>2 DEF JoinFacts
<1>4. PlaceOf(m, k, j) # 0
  <2>1. PlaceOf(m, k, j) = (a + j) + 1
    BY <1>3 DEF PlaceOf
  <2>2. (a + j) + 1 # 0
    OBVIOUS
  <2> QED
    BY <2>1, <2>2
<1> QED
  BY <1>1, <1>2, <1>4

LEMMA PlaceNext ==
  ASSUME NEW m, IsMessage(m), NEW k \in 1..Len(m)
  PROVE  /\ PlaceOf(m, k, Len(FormatOfDirective(m[k]))) = PlaceOf(m, k + 1, 0)
         /\ ArgsAt(m, k, Len(ArgsOfDirective(m[k]))) = ArgsAt(m, k + 1, 0)
<1>1. /\ Len(m) \in Nat /\ JoinFacts(FormatPieces(m), Len(m), FormatTo(m))
      /\ JoinFacts(ArgPieces(m), Len(m), ArgsTo(m))
      /\ FormatPieces(m)[k] = FormatOfDirective(m[k])
      /\ ArgPieces(m)[k] = ArgsOfDirective(m[k])
  BY MessageIs
<1>2. k \in 0..Len(m) /\ (k + 1) - 1 = k
  BY <1>1
<1>3. /\ Len(FormatTo(m)[k]) = Len(FormatTo(m)[k - 1]) + Len(FormatOfDirective(m[k]))
      /\ Len(FormatTo(m)[k]) \in Nat
  BY <1>1, <1>2 DEF JoinFacts
<1>4. /\ Len(ArgsTo(m)[k]) = Len(ArgsTo(m)[k - 1]) + Len(ArgsOfDirective(m[k]))
      /\ Len(ArgsTo(m)[k]) \in Nat
  BY <1>1, <1>2 DEF JoinFacts
<1>5. PlaceOf(m, k + 1, 0) = Len(FormatTo(m)[k]) + 1
  <2>1. PICK y \in Nat : y = Len(FormatTo(m)[k])
    BY <1>3
  <2>2. PlaceOf(m, k + 1, 0) = (y + 0) + 1
    BY <1>2, <2>1 DEF PlaceOf
  <2>3. y + 0 = y
    OBVIOUS
  <2> QED
    BY <2>1, <2>2, <2>3
<1>6. ArgsAt(m, k + 1, 0) = Rest(ArgsOf(m), Len(ArgsTo(m)[k]))
  <2>1. PICK y \in Nat : y = Len(ArgsTo(m)[k])
    BY <1>4
  <2>2. ArgsAt(m, k + 1, 0) = Rest(ArgsOf(m), y + 0)
    BY <1>2, <2>1 DEF ArgsAt
  <2>3. y + 0 = y
    OBVIOUS
  <2> QED
    BY <2>1, <2>2, <2>3
<1> QED
  BY <1>3, <1>4, <1>5, <1>6 DEF PlaceOf, ArgsAt

LEMMA ArgAt ==
  ASSUME NEW m, IsMessage(m), NEW k \in 1..Len(m), NEW x \in Nat,
         x < Len(ArgsOfDirective(m[k]))
  PROVE  /\ Head(ArgsAt(m, k, x)) = ArgsOfDirective(m[k])[x + 1]
         /\ Tail(ArgsAt(m, k, x)) = ArgsAt(m, k, x + 1)
BY ArgInOrder DEF ArgsAt

LEMMA CharPlace ==
  ASSUME NEW m, IsMessage(m), NEW k \in 1..Len(m), NEW j \in Nat,
         j < Len(FormatOfDirective(m[k])), NEW f, f.fmt = FormatOf(m)
  PROVE  /\ CharAt(f, PlaceOf(m, k, j)) = FormatOfDirective(m[k])[j + 1]
         /\ f.fmt[PlaceOf(m, k, j)] = FormatOfDirective(m[k])[j + 1]
         /\ PlaceOf(m, k, j) <= Len(f.fmt)
         /\ Len(f.fmt) \in Nat
BY CharInFormat DEF PlaceOf

LEMMA CharsEnd ==
  ASSUME NEW m, IsMessage(m), NEW f, f.fmt = FormatOf(m)
  PROVE  CharAt(f, PlaceOf(m, Len(m) + 1, 0)) = NUL
<1>1. Len(m) \in Nat /\ JoinFacts(FormatPieces(m), Len(m), FormatTo(m))
  BY MessageIs
<1>2. (Len(m) + 1) - 1 = Len(m) /\ Len(FormatTo(m)[Len(m)]) \in Nat
  BY <1>1 DEF JoinFacts
<1>3. PlaceOf(m, Len(m) + 1, 0) = Len(FormatTo(m)[Len(m)]) + 1
  BY <1>2 DEF PlaceOf
<1> QED
  BY <1>3, FormatEnds

\* What is read at each place of a directive.
LEMMA DirectiveChars ==
  ASSUME NEW m, IsMessage(m), NEW k \in 1..Len(m), NEW d, d = m[k], d.conv # "text",
         NEW f, f.fmt = FormatOf(m)
  PROVE  /\ CharAt(f, PlaceOf(m, k, 0)) = "%" /\ f.fmt[PlaceOf(m, k, 0)] = "%"
         /\ \A x \in Nat : x < Len(d.flags) =>
              /\ CharAt(f, PlaceOf(m, k, 1 + x)) = d.flags[x + 1]
              /\ f.fmt[PlaceOf(m, k, 1 + x)] = d.flags[x + 1]
         /\ \A x \in Nat : x < Len(d.width) =>
              /\ CharAt(f, PlaceOf(m, k, FlagsEnd(d) + x)) = d.width[x + 1]
              /\ f.fmt[PlaceOf(m, k, FlagsEnd(d) + x)] = d.width[x + 1]
         /\ \A x \in Nat : x < Len(d.prec) =>
              /\ CharAt(f, PlaceOf(m, k, WidthEnd(d) + x)) = d.prec[x + 1]
              /\ f.fmt[PlaceOf(m, k, WidthEnd(d) + x)] = d.prec[x + 1]
         /\ \A x \in Nat : x < d.l =>
              /\ CharAt(f, PlaceOf(m, k, PrecEnd(d) + x)) = "l"
              /\ f.fmt[PlaceOf(m, k, PrecEnd(d) + x)] = "l"
         /\ CharAt(f, PlaceOf(m, k, LongEnd(d))) = d.conv
         /\ \A x \in Nat : x < LongEnd(d) => PlaceOf(m, k, x) <= Len(f.fmt)
         /\ Len(f.fmt) \in Nat
<1>1. IsDirective(d) /\ (d.conv = NUL => k = Len(m)) /\ Len(m) \in Nat
  BY MessageIs
<1>2. PICK s : s = FormatOfDirective(d)
  OBVIOUS
<1>3. /\ Len(s) = LongEnd(d) + (IF d.conv = NUL THEN 0 ELSE 1)
      /\ s[1] = "%"
      /\ \A x \in 1..Len(d.flags) : s[1 + x] = d.flags[x]
      /\ \A x \in 1..Len(d.width) : s[FlagsEnd(d) + x] = d.width[x]
      /\ \A x \in 1..Len(d.prec) : s[WidthEnd(d) + x] = d.prec[x]
      /\ \A x \in 1..d.l : s[PrecEnd(d) + x] = "l"
      /\ d.conv # NUL => s[LongEnd(d) + 1] = d.conv
  BY <1>1, <1>2, DirectiveText
<1>4. \A j \in Nat : j < Len(s) => /\ CharAt(f, PlaceOf(m, k, j)) = s[j + 1]
                                   /\ f.fmt[PlaceOf(m, k, j)] = s[j + 1]
                                   /\ PlaceOf(m, k, j) <= Len(f.fmt)
                                   /\ Len(f.fmt) \in Nat
  BY <1>2, CharPlace
<1>5. PICK a \in Nat, b \in Nat, c \in Nat, e \in Nat, fe \in Nat, we \in Nat, pe \in Nat,
           le \in Nat, n \in Nat :
        /\ a = Len(d.flags) /\ b = Len(d.width) /\ c = Len(d.prec) /\ e = d.l
        /\ fe = FlagsEnd(d) /\ we = WidthEnd(d) /\ pe = PrecEnd(d) /\ le = LongEnd(d)
        /\ n = Len(s)
  <2>1. /\ Len(d.flags) \in Nat /\ Len(d.width) \in Nat /\ Len(d.prec) \in Nat /\ d.l \in Nat
        /\ FlagsEnd(d) \in Nat /\ WidthEnd(d) \in Nat /\ PrecEnd(d) \in Nat
        /\ LongEnd(d) \in Nat
    BY <1>1, DirectiveTyped
  <2>2. Len(s) \in Nat
    BY <1>3, <2>1
  <2> QED
    BY <2>1, <2>2
<1>6. fe = 1 + a /\ we = fe + b /\ pe = we + c /\ le = pe + e
  BY <1>5 DEF FlagsEnd, WidthEnd, PrecEnd, LongEnd
<1>7. (d.conv = NUL => n = le) /\ (d.conv # NUL => n = le + 1)
  BY <1>3, <1>5
<1>8. n >= le /\ le >= 1
  BY <1>6, <1>7
<1>9. /\ \A x \in 1..a : s[1 + x] = d.flags[x]
      /\ \A x \in 1..b : s[fe + x] = d.width[x]
      /\ \A x \in 1..c : s[we + x] = d.prec[x]
      /\ \A x \in 1..e : s[pe + x] = "l"
      /\ d.conv # NUL => s[le + 1] = d.conv
  BY <1>3, <1>5
<1>10. \A j \in Nat : j < n => /\ CharAt(f, PlaceOf(m, k, j)) = s[j + 1]
                               /\ f.fmt[PlaceOf(m, k, j)] = s[j + 1]
                               /\ PlaceOf(m, k, j) <= Len(f.fmt)
                               /\ Len(f.fmt) \in Nat
  BY <1>4, <1>5
<1> SUFFICES /\ CharAt(f, PlaceOf(m, k, 0)) = "%" /\ f.fmt[PlaceOf(m, k, 0)] = "%"
             /\ \A x \in Nat : x < a =>
                  /\ CharAt(f, PlaceOf(m, k, 1 + x)) = d.flags[x + 1]
                  /\ f.fmt[PlaceOf(m, k, 1 + x)] = d.flags[x + 1]
             /\ \A x \in Nat : x < b =>
                  /\ CharAt(f, PlaceOf(m, k, fe + x)) = d.width[x + 1]
                  /\ f.fmt[PlaceOf(m, k, fe + x)] = d.width[x + 1]
             /\ \A x \in Nat : x < c =>
                  /\ CharAt(f, PlaceOf(m, k, we + x)) = d.prec[x + 1]
                  /\ f.fmt[PlaceOf(m, k, we + x)] = d.prec[x + 1]
             /\ \A x \in Nat : x < e =>
                  /\ CharAt(f, PlaceOf(m, k, pe + x)) = "l"
                  /\ f.fmt[PlaceOf(m, k, pe + x)] = "l"
             /\ CharAt(f, PlaceOf(m, k, le)) = d.conv
             /\ \A x \in Nat : x < le => PlaceOf(m, k, x) <= Len(f.fmt)
             /\ Len(f.fmt) \in Nat
  BY <1>5
<1> HIDE <1>4, <1>5
<1>11. CharAt(f, PlaceOf(m, k, 0)) = "%" /\ f.fmt[PlaceOf(m, k, 0)] = "%"
  BY <1>3, <1>8, <1>10
<1>12. ASSUME NEW x \in Nat, x < a
       PROVE  /\ CharAt(f, PlaceOf(m, k, 1 + x)) = d.flags[x + 1]
              /\ f.fmt[PlaceOf(m, k, 1 + x)] = d.flags[x + 1]
  <2>1. x + 1 \in 1..a /\ 1 + x \in Nat /\ 1 + x < n /\ (1 + x) + 1 = 1 + (x + 1)
    BY <1>6, <1>8, <1>12
  <2> QED
    BY <1>9, <1>10, <2>1
<1>13. ASSUME NEW x \in Nat, x < b
       PROVE  /\ CharAt(f, PlaceOf(m, k, fe + x)) = d.width[x + 1]
              /\ f.fmt[PlaceOf(m, k, fe + x)] = d.width[x + 1]
  <2>1. x + 1 \in 1..b /\ fe + x \in Nat /\ fe + x < n /\ (fe + x) + 1 = fe + (x + 1)
    BY <1>6, <1>8, <1>13
  <2>2. PICK q : q = fe + x
    OBVIOUS
  <2>3. CharAt(f, PlaceOf(m, k, q)) = s[q + 1] /\ f.fmt[PlaceOf(m, k, q)] = s[q + 1]
    BY <1>10, <2>1, <2>2
  <2>4. s[q + 1] = d.width[x + 1]
    BY <1>9, <2>1, <2>2
  <2> QED
    BY <2>2, <2>3, <2>4
<1>14. ASSUME NEW x \in Nat, x < c
       PROVE  /\ CharAt(f, PlaceOf(m, k, we + x)) = d.prec[x + 1]
              /\ f.fmt[PlaceOf(m, k, we + x)] = d.prec[x + 1]
  <2>1. x + 1 \in 1..c /\ we + x \in Nat /\ we + x < n /\ (we + x) + 1 = we + (x + 1)
    BY <1>6, <1>8, <1>14
  <2>2. PICK q : q = we + x
    OBVIOUS
  <2>3. CharAt(f, PlaceOf(m, k, q)) = s[q + 1] /\ f.fmt[PlaceOf(m, k, q)] = s[q + 1]
    BY <1>10, <2>1, <2>2
  <2>4. s[q + 1] = d.prec[x + 1]
    BY <1>9, <2>1, <2>2
  <2> QED
    BY <2>2, <2>3, <2>4
<1>15. ASSUME NEW x \in Nat, x < e
       PROVE  /\ CharAt(f, PlaceOf(m, k, pe + x)) = "l"
              /\ f.fmt[PlaceOf(m, k, pe + x)] = "l"
  <2>1. x + 1 \in 1..e /\ pe + x \in Nat /\ pe + x < n /\ (pe + x) + 1 = pe + (x + 1)
    BY <1>6, <1>8, <1>15
  <2>2. PICK q : q = pe + x
    OBVIOUS
  <2>3. CharAt(f, PlaceOf(m, k, q)) = s[q + 1] /\ f.fmt[PlaceOf(m, k, q)] = s[q + 1]
    BY <1>10, <2>1, <2>2
  <2>4. s[q + 1] = "l"
    BY <1>9, <2>1, <2>2
  <2> QED
    BY <2>2, <2>3, <2>4
<1>16. CharAt(f, PlaceOf(m, k, le)) = d.conv
  <2>1. CASE d.conv # NUL
    BY <1>7, <1>9, <1>10, <2>1
  <2>2. CASE d.conv = NUL
    <3>1. PlaceOf(m, k, n) = PlaceOf(m, Len(m) + 1, 0)
      <4>1. PlaceOf(m, k, Len(s)) = PlaceOf(m, k + 1, 0)
        BY <1>2, PlaceNext
      <4> QED
        BY <1>1, <1>5, <2>2, <4>1
    <3> QED
      BY <1>1, <1>7, <2>2, <3>1, CharsEnd
  <2> QED
    BY <2>1, <2>2
<1>17. Len(f.fmt) \in Nat /\ \A x \in Nat : x < le => PlaceOf(m, k, x) <= Len(f.fmt)
  BY <1>8, <1>10
<1> QED
  BY <1>11, <1>12, <1>13, <1>14, <1>15, <1>16, <1>17

-----------------------------------------------------------------------------
(* The numbers in a directive, and its flags.                              *)

LEMMA NumberTyped ==
  ASSUME NEW digits \in Seq(Decimal)
  PROVE  Number(digits) \in Nat
<1> DEFINE n == Len(digits)
           IsIt(f) == f = [k \in 0..n |->
                             IF k = 0 THEN 0 ELSE f[k - 1] * 10 + DigitValue(digits[k])]
           step == [k \in 1..n |-> [v \in Nat |-> v * 10 + DigitValue(digits[k])]]
<1>1. n \in Nat
  OBVIOUS
<1>2. ASSUME NEW k \in 1..n PROVE DigitValue(digits[k]) \in Nat
  <2>1. digits[k] \in Decimal
    OBVIOUS
  <2>2. PICK x \in 1..10 : digits[k] = DigitChars[x]
    BY <2>1 DEF Decimal
  <2>3. x \in 1..16
    OBVIOUS
  <2>4. PICK c : c = digits[k]
    OBVIOUS
  <2>5. PICK z : z = CHOOSE y \in 1..16 : DigitChars[y] = c
    OBVIOUS
  <2>6. z \in 1..16
    <3> HIDE DEF DigitChars
    <3> QED
      BY <2>2, <2>3, <2>4, <2>5
  <2>7. DigitValue(c) = z - 1
    BY <2>5 DEF DigitValue
  <2>8. z - 1 \in Nat
    BY <2>6
  <2> QED
    BY <2>4, <2>7, <2>8
<1> HIDE DEF n
<1>3. step \in [1..n -> [Nat -> Nat]]
  <2>1. ASSUME NEW k \in 1..n, NEW v \in Nat PROVE v * 10 + DigitValue(digits[k]) \in Nat
    <3>1. PICK w \in Nat : w = DigitValue(digits[k])
      BY <1>2
    <3>2. v * 10 + w \in Nat
      OBVIOUS
    <3> QED
      BY <3>1, <3>2
  <2> QED
    BY <2>1
<1>4. PICK f : Follows(f, step, 0, n, Nat)
  <2> HIDE DEF step
  <2> QED
    BY <1>1, <1>3, RecursionFollows
<1>5. ASSUME NEW k \in 1..n
      PROVE  f[k] = f[k - 1] * 10 + DigitValue(digits[k])
  <2>1. k - 1 \in 0..n
    BY <1>1
  <2>2. f[k - 1] \in Nat
    BY <1>4, <2>1 DEF Follows
  <2>3. f[k] = step[k][f[k - 1]]
    BY <1>4 DEF Follows
  <2> QED
    BY <2>2, <2>3
<1>6. IsIt(f)
  <2>1. ASSUME NEW k \in 0..n
        PROVE f[k] = IF k = 0 THEN 0 ELSE f[k - 1] * 10 + DigitValue(digits[k])
    <3>1. k = 0 \/ k \in 1..n
      BY <1>1
    <3> HIDE DEF step
    <3> QED
      BY <1>4, <1>5, <3>1 DEF Follows
  <2> QED
    BY <1>4, <2>1 DEF Follows
<1> DEFINE p == CHOOSE g : IsIt(g)
<1>7. IsIt(p)
  BY <1>6
<1> HIDE DEF p
<1>8. \A k \in 0..n : p[k] = IF k = 0 THEN 0 ELSE p[k - 1] * 10 + DigitValue(digits[k])
  BY <1>7
<1>9. ASSUME NEW k \in 1..n, p[k - 1] \in Nat PROVE p[k] \in Nat
  <2>1. k \in 0..n /\ k # 0
    BY <1>1
  <2>2. p[k] = p[k - 1] * 10 + DigitValue(digits[k])
    BY <1>8, <2>1
  <2>3. PICK v \in Nat, w \in Nat : v = p[k - 1] /\ w = DigitValue(digits[k])
    BY <1>2, <1>9
  <2>4. v * 10 + w \in Nat
    OBVIOUS
  <2> QED
    BY <2>2, <2>3, <2>4
<1>10. p[0] \in Nat
  <2>1. 0 \in 0..n
    BY <1>1
  <2> QED
    BY <1>8, <2>1
<1>11. \A k \in 0..n : p[k] \in Nat
  BY <1>1, <1>9, <1>10, RecursionTyped
<1>12. Number(digits) = p[n]
  BY DEF Number, p, n
<1>13. n \in 0..n
  BY <1>1
<1> QED
  BY <1>11, <1>12, <1>13

\* The directive has a width that is a number, or one that is an argument, or none.
LEMMA WidthIs ==
  ASSUME NEW d, IsDirective(d)
  PROVE  /\ d.width = <<>> \/ d.width = <<"*">> \/ IsNumber(d.width)
         /\ FieldWidth(d) \in Int
         /\ d.width = <<"*">> => FieldWidth(d) = d.stars[1] /\ 1 <= Len(d.stars)
         /\ d.width = <<>> => FieldWidth(d) = -1
         /\ IsNumber(d.width) => FieldWidth(d) = Number(d.width) /\ FieldWidth(d) \in Nat
<1>1. d.width = <<>> \/ d.width = <<"*">> \/ IsNumber(d.width)
  BY DEF IsDirective, IsCount
<1>2. d.stars \in Seq(Int) /\ Len(d.stars) = StarCount(d)
  BY DEF IsDirective
<1>3. CASE d.width = <<>>
  <2>1. d.width # <<"*">> /\ ~IsNumber(d.width)
    BY <1>3 DEF IsNumber
  <2>2. FieldWidth(d) = -1
    BY <1>3, <2>1 DEF FieldWidth
  <2> QED
    BY <1>3, <2>1, <2>2
<1>4. CASE d.width = <<"*">>
  <2>1. FieldWidth(d) = d.stars[1]
    BY <1>4 DEF FieldWidth
  <2>2. 1 <= Len(d.stars) /\ 1 \in 1..Len(d.stars)
    <3>1. StarCount(d) = 1 + (IF d.prec = <<".", "*">> THEN 1 ELSE 0)
      BY <1>4 DEF StarCount
    <3> QED
      BY <1>2, <3>1
  <2>3. d.stars[1] \in Int
    BY <1>2, <2>2, ElementOfSeq
  <2>4. d.width # <<>>
    BY <1>4
  <2>5. ~IsNumber(d.width)
    <3>1. "*" \notin Decimal
      BY DecimalIs
    <3>2. SUFFICES ASSUME <<"*">> \in Seq(Decimal) PROVE FALSE
      BY <1>4 DEF IsNumber
    <3>3. 1 \in 1..Len(<<"*">>) /\ <<"*">>[1] = "*"
      BY OneIsSequence
    <3>4. <<"*">>[1] \in Decimal
      BY <3>2, <3>3, ElementOfSeq
    <3> QED
      BY <3>1, <3>3, <3>4
  <2> QED
    BY <1>4, <2>1, <2>2, <2>3, <2>4, <2>5
<1>5. CASE d.width # <<>> /\ d.width # <<"*">>
  <2>1. IsNumber(d.width)
    BY <1>1, <1>5
  <2>2. Number(d.width) \in Nat
    BY <2>1, NumberTyped DEF IsNumber
  <2>3. FieldWidth(d) = Number(d.width)
    BY <1>5 DEF FieldWidth
  <2> QED
    BY <1>5, <2>1, <2>2, <2>3
<1> QED
  BY <1>3, <1>4, <1>5

\* What is padded with when j flags are read, and whether '#' is among them.
PadAfter(d, j) ==
  LET said == {x \in 1..j : d.flags[x] # "#"}
  IN  IF said = {} THEN " " ELSE d.flags[Max(said)]
AltAfter(d, j) == \E x \in 1..j : d.flags[x] = "#"

LEMMA AfterFlag ==
  ASSUME NEW d, NEW j \in Nat
  PROVE  /\ d.flags[j + 1] # "#" =>
              /\ PadAfter(d, j + 1) = d.flags[j + 1]
              /\ AltAfter(d, j + 1) = AltAfter(d, j)
         /\ d.flags[j + 1] = "#" =>
              /\ PadAfter(d, j + 1) = PadAfter(d, j)
              /\ AltAfter(d, j + 1) = TRUE
         /\ PadAfter(d, 0) = " "
         /\ AltAfter(d, 0) = FALSE
<1>1. j + 1 \in 1..(j + 1) /\ \A x \in 1..(j + 1) : x = j + 1 \/ x \in 1..j
  OBVIOUS
<1>2. \A x \in 1..j : x \in 1..(j + 1) /\ ~(x >= j + 1)
  OBVIOUS
<1>3. ASSUME d.flags[j + 1] # "#" PROVE PadAfter(d, j + 1) = d.flags[j + 1]
  <2> DEFINE said == {x \in 1..(j + 1) : d.flags[x] # "#"}
  <2>1. j + 1 \in said /\ \A x \in said : j + 1 >= x
    BY <1>1, <1>3
  <2>2. ASSUME NEW y \in said, \A x \in said : y >= x PROVE y = j + 1
    BY <2>1, <2>2
  <2> HIDE DEF said
  <2>3. Max(said) = j + 1
    BY <2>1, <2>2 DEF Max
  <2> QED
    BY <2>1, <2>3 DEF PadAfter, said
<1>4. ASSUME d.flags[j + 1] # "#" PROVE AltAfter(d, j + 1) <=> AltAfter(d, j)
  BY <1>1, <1>2, <1>4 DEF AltAfter
<1>5. ASSUME d.flags[j + 1] = "#" PROVE PadAfter(d, j + 1) = PadAfter(d, j)
  <2>1. {x \in 1..(j + 1) : d.flags[x] # "#"} = {x \in 1..j : d.flags[x] # "#"}
    BY <1>1, <1>2, <1>5
  <2> QED
    BY <2>1 DEF PadAfter
<1>6. ASSUME d.flags[j + 1] = "#" PROVE AltAfter(d, j + 1)
  BY <1>1, <1>6 DEF AltAfter
<1>7. PadAfter(d, 0) = " "
  <2>1. {x \in 1..0 : d.flags[x] # "#"} = {}
    OBVIOUS
  <2> QED
    BY <2>1 DEF PadAfter
<1>8. ~AltAfter(d, 0)
  BY DEF AltAfter
<1>9. AltAfter(d, j) \in BOOLEAN /\ AltAfter(d, j + 1) \in BOOLEAN /\ AltAfter(d, 0) \in BOOLEAN
  BY DEF AltAfter
<1>10. d.flags[j + 1] # "#" => AltAfter(d, j + 1) = AltAfter(d, j)
  BY <1>4, <1>9
<1>11. d.flags[j + 1] = "#" => AltAfter(d, j + 1) = TRUE
  BY <1>6, <1>9
<1>12. AltAfter(d, 0) = FALSE
  BY <1>8, <1>9
<1> QED
  BY <1>3, <1>5, <1>7, <1>10, <1>11, <1>12

LEMMA AfterFlags ==
  ASSUME NEW d, IsDirective(d)
  PROVE  /\ PadAfter(d, Len(d.flags)) = PadChar(d)
         /\ AltAfter(d, Len(d.flags)) <=> Contains(d.flags, "#")
<1>1. DOMAIN d.flags = 1..Len(d.flags)
  BY LenProperties DEF IsDirective
<1> QED
  BY <1>1 DEF PadAfter, PadChar, AltAfter, Contains

WidthStars(d) == IF d.width = <<"*">> THEN 1 ELSE 0

LEMMA StarsAre ==
  ASSUME NEW d, IsDirective(d)
  PROVE  /\ WidthStars(d) \in Nat
         /\ d.prec = <<".", "*">> => Len(d.stars) = WidthStars(d) + 1
         /\ d.prec # <<".", "*">> => Len(d.stars) = WidthStars(d)
<1>1. Len(d.stars) = StarCount(d)
  BY DEF IsDirective
<1>2. StarCount(d) = WidthStars(d) + (IF d.prec = <<".", "*">> THEN 1 ELSE 0)
  BY DEF StarCount, WidthStars
<1>3. WidthStars(d) \in Nat
  BY DEF WidthStars
<1> QED
  BY <1>1, <1>2, <1>3

\* The directive has no precision, a point only, a point and an argument or a point
\* and a number.
LEMMA PrecisionIs ==
  ASSUME NEW d, IsDirective(d)
  PROVE  /\ Precision(d) \in Int
         /\ d.prec # <<>> => 1 <= Len(d.prec) /\ d.prec[1] = "."
         /\ d.prec \in {<<>>, <<".">>} => Precision(d) = -1
         /\ d.prec = <<".", "*">> =>
              /\ Precision(d) = d.stars[WidthStars(d) + 1]
              /\ Len(d.prec) = 2 /\ d.prec[2] = "*"
         /\ d.prec \notin {<<>>, <<".">>, <<".", "*">>} =>
              /\ IsNumber(Tail(d.prec)) /\ Precision(d) = Number(Tail(d.prec))
              /\ Len(d.prec) = 1 + Len(Tail(d.prec))
              /\ \A x \in 1..Len(Tail(d.prec)) : Tail(d.prec)[x] = d.prec[x + 1]
<1>1. CASE d.prec = <<>>
  <2>1. Precision(d) = -1
    BY <1>1 DEF Precision
  <2>2. d.prec # <<".", "*">>
    BY <1>1
  <2> QED
    BY <1>1, <2>1, <2>2
<1>2. CASE d.prec = <<".">>
  <2>1. Precision(d) = -1
    BY <1>2 DEF Precision
  <2>2. Len(d.prec) = 1 /\ d.prec[1] = "."
    BY <1>2, OneIsSequence
  <2>3. d.prec # <<".", "*">>
    BY <1>2, <2>2
  <2> QED
    BY <1>2, <2>1, <2>2, <2>3
<1>3. CASE d.prec = <<".", "*">>
  <2>1. Len(d.prec) = 2 /\ d.prec[1] = "." /\ d.prec[2] = "*"
    BY <1>3
  <2>2. d.prec \notin {<<>>, <<".">>}
    <3>1. Len(<<>>) = 0 /\ Len(<<".">>) = 1
      BY OneIsSequence
    <3> QED
      BY <2>1, <3>1
  <2>3. Precision(d) = d.stars[Len(d.stars)]
    BY <1>3, <2>2 DEF Precision, Last
  <2>4. Len(d.stars) = WidthStars(d) + 1 /\ WidthStars(d) \in Nat
    BY <1>3, StarsAre
  <2>5. d.stars[Len(d.stars)] \in Int
    <3>1. d.stars \in Seq(Int)
      BY DEF IsDirective
    <3>2. Len(d.stars) \in 1..Len(d.stars)
      BY <2>4
    <3> QED
      BY <3>1, <3>2, ElementOfSeq
  <2> QED
    BY <1>3, <2>1, <2>2, <2>3, <2>4, <2>5
<1>4. CASE d.prec \notin {<<>>, <<".">>, <<".", "*">>}
  <2>1. /\ d.prec \in Seq({"."} \cup Decimal) /\ Head(d.prec) = "."
        /\ IsNumber(Tail(d.prec))
    BY <1>4 DEF IsDirective
  <2>2. Precision(d) = Number(Tail(d.prec))
    BY <1>4 DEF Precision
  <2>3. Number(Tail(d.prec)) \in Nat
    BY <2>1, NumberTyped DEF IsNumber
  <2>4. PICK s, V : s = d.prec /\ V = {"."} \cup Decimal
    OBVIOUS
  <2>5. s \in Seq(V) /\ s # <<>>
    BY <1>4, <2>1, <2>4
  <2>6. /\ Len(s) \in Nat /\ 1 <= Len(s) /\ Head(s) = s[1] /\ Len(s) = 1 + Len(Tail(s))
        /\ \A x \in 1..Len(Tail(s)) : Tail(s)[x] = s[x + 1]
    BY <2>5
  <2>7. 1 <= Len(d.prec) /\ d.prec[1] = "." /\ Len(d.prec) = 1 + Len(Tail(d.prec))
    BY <2>1, <2>4, <2>6
  <2>8. \A x \in 1..Len(Tail(d.prec)) : Tail(d.prec)[x] = d.prec[x + 1]
    BY <2>4, <2>6
  <2>9. d.prec # <<>> /\ d.prec # <<".">> /\ d.prec # <<".", "*">>
    BY <1>4
  <2>10. Precision(d) \in Int
    BY <2>2, <2>3
  <2> HIDE <2>4
  <2> QED
    BY <2>1, <2>2, <2>7, <2>8, <2>9, <2>10
<1> QED
  BY <1>1, <1>2, <1>3, <1>4

-----------------------------------------------------------------------------
(* The steps through a directive.                                          *)

\* vprintfmt goes on with g, and has printed nothing.
Moved(g) == frames' = <<g>> \o Tail(frames) /\ UNCHANGED <<sink, console>>

LEMMA ReswitchMoves ==
  ASSUME NEW g, Reswitch(g)
  PROVE  Moved(g)
BY DEF Reswitch, Goto, Moved

\* A number is read as a whole.
LEMMA NumberFieldIs ==
  ASSUME NEW fmt, IsSequence(fmt), NEW pos \in Nat \ {0}, NEW ap, NEW escape, NEW padc,
         NEW width, NEW precision, NEW lflag, NEW altflag,
         top = FrameOf(fmt, pos, ap, escape, padc, width, precision, lflag, altflag),
         NEW digits, IsNumber(digits),
         \A x \in Nat : x < Len(digits) =>
           pos + x <= Len(fmt) /\ fmt[pos + x] = digits[x + 1],
         CharAt(top, pos + Len(digits)) \notin Decimal,
         NumberField
  PROVE  Moved(process_precision(FrameOf(fmt, pos + Len(digits), ap, escape, padc,
                                         width, precision, lflag, altflag), Number(digits)))
<1>1. digits \in Seq(Decimal) /\ digits # <<>>
  BY DEF IsNumber
<1>2. PICK n \in Nat : n = Len(digits) /\ n >= 1
  BY <1>1
<1>3. PICK size \in Nat : size = Len(fmt)
  BY DEF IsSequence
<1>4. top.fmt = fmt /\ top.pos = pos
  BY FrameFields
<1>5. ASSUME NEW x \in Nat, x < n
      PROVE  pos + x <= size /\ fmt[pos + x] = digits[x + 1] /\ digits[x + 1] \in Decimal
  <2>1. x + 1 \in 1..Len(digits)
    BY <1>2, <1>5
  <2> QED
    BY <1>1, <1>2, <1>3, <1>5, <2>1, ElementOfSeq
<1>6. PICK stop \in Nat : stop = pos + n
  OBVIOUS
<1>7. stop \in pos..(size + 1)
  <2>1. n - 1 \in Nat /\ n - 1 < n
    BY <1>2
  <2>2. pos + (n - 1) <= size
    BY <1>5, <2>1
  <2> QED
    BY <1>2, <1>6, <2>2
<1>8. CharAt(top, stop) \notin Decimal
  BY <1>2, <1>6
<1>9. ASSUME NEW q \in pos..(stop - 1) PROVE fmt[q] \in Decimal /\ q <= size
  <2>1. PICK x \in Nat : q = pos + x /\ x < n
    <3>1. q - pos \in Nat /\ q - pos < n /\ q = pos + (q - pos)
      BY <1>6
    <3> QED
      BY <3>1
  <2> QED
    BY <1>5, <2>1
<1> DEFINE Stops(p) == CharAt(top, p) \notin Decimal /\ \A q \in pos..(p - 1) : fmt[q] \in Decimal
<1>10. Stops(stop)
  BY <1>8, <1>9
<1>11. ASSUME NEW p \in pos..(size + 1), Stops(p) PROVE p = stop
  <2>1. CASE p < stop
    <3>1. p \in pos..(stop - 1)
      BY <1>7, <2>1
    <3>2. fmt[p] \in Decimal /\ p <= size
      BY <1>9, <3>1
    <3>3. CharAt(top, p) = fmt[p]
      BY <1>3, <1>4, <3>2 DEF CharAt
    <3> QED
      BY <1>11, <3>2, <3>3
  <2>2. CASE stop < p
    <3>1. stop \in pos..(p - 1) /\ stop <= size
      BY <1>7, <2>2
    <3>2. fmt[stop] \in Decimal
      BY <1>11, <3>1
    <3>3. CharAt(top, stop) = fmt[stop]
      BY <1>3, <1>4, <3>1 DEF CharAt
    <3> QED
      BY <1>8, <3>2, <3>3
  <2> QED
    BY <1>7, <2>1, <2>2
<1>12. PICK behind : behind = CHOOSE p \in pos..(size + 1) : Stops(p)
  OBVIOUS
<1>13. behind = stop
  <2>1. \E p \in pos..(size + 1) : Stops(p)
    BY <1>7, <1>10
  <2> HIDE DEF Stops
  <2> QED
    BY <1>11, <1>12, <2>1
<1>14. SubSeq(fmt, pos, stop - 1) = digits
  <2>1. PICK V : fmt \in Seq(V)
    BY DEF IsSequence
  <2>2. PICK s : s = SubSeq(fmt, pos, stop - 1)
    OBVIOUS
  <2>3. pos \in 1..Len(fmt) /\ stop - 1 \in 1..Len(fmt) /\ (stop - 1) - pos + 1 = n
    BY <1>2, <1>3, <1>6, <1>7
  <2>4. s \in Seq(V) /\ Len(s) = n /\ \A x \in 1..n : s[x] = fmt[pos + (x - 1)]
    BY <1>2, <1>3, <1>6, <1>7, <2>1, <2>2, <2>3
  <2>5. ASSUME NEW x \in 1..n PROVE s[x] = digits[x]
    <3>1. x - 1 \in Nat /\ x - 1 < n /\ (x - 1) + 1 = x
      OBVIOUS
    <3> QED
      BY <1>5, <2>4, <3>1
  <2>6. PICK W : s \in Seq(W) /\ digits \in Seq(W)
    <3>1. IsSequence(s) /\ IsSequence(digits)
      BY <1>1, <2>4, SequenceOf
    <3> QED
      BY <3>1, ThreeSequences
  <2> QED
    BY <1>2, <2>2, <2>4, <2>5, <2>6, SeqEqual
<1>15. Reswitch(process_precision([top EXCEPT !.pos = behind],
                                  Number(SubSeq(fmt, pos, behind - 1))))
  BY <1>3, <1>4, <1>12 DEF NumberField
<1>16. [top EXCEPT !.pos = stop]
         = FrameOf(fmt, stop, ap, escape, padc, width, precision, lflag, altflag)
  <2>1. PICK g : g = top
    OBVIOUS
  <2>2. g = FrameOf(fmt, pos, ap, escape, padc, width, precision, lflag, altflag)
    BY <2>1
  <2> HIDE <2>1
  <2>3. [g EXCEPT !.pos = stop]
          = FrameOf(fmt, stop, ap, escape, padc, width, precision, lflag, altflag)
    BY <2>2 DEF FrameOf
  <2> QED
    BY <2>1, <2>3
<1>17. Reswitch(process_precision(FrameOf(fmt, stop, ap, escape, padc, width, precision,
                                          lflag, altflag), Number(digits)))
  BY <1>13, <1>14, <1>15, <1>16
<1> QED
  BY <1>2, <1>6, <1>17, ReswitchMoves

\* What is read at the top frame.
LEMMA TopReads ==
  ASSUME NEW fmt, NEW pos, NEW ap, NEW escape, NEW padc, NEW width, NEW precision,
         NEW lflag, NEW altflag,
         top = FrameOf(fmt, pos, ap, escape, padc, width, precision, lflag, altflag)
  PROVE  /\ ch = CharAt(top, pos) /\ top.fmt = fmt /\ top.ap = ap
         /\ top.padc = padc /\ top.width = width
         /\ top.precision = precision /\ top.lflag = lflag
         /\ top.escape = escape
         /\ top.altflag = altflag
<1>1. PICK g : g = top
  OBVIOUS
<1>2. g = FrameOf(fmt, pos, ap, escape, padc, width, precision, lflag, altflag)
  BY <1>1
<1> HIDE <1>1
<1>3. /\ g.pos = pos /\ g.fmt = fmt /\ g.ap = ap /\ g.padc = padc /\ g.width = width
      /\ g.precision = precision /\ g.lflag = lflag
  BY <1>2, FrameFields
<1>4. g.escape = escape
  BY <1>2, FrameFields
<1>5. g.altflag = altflag
  BY <1>2, FrameFields
<1> USE <1>1
<1> QED
  BY <1>3, <1>4, <1>5 DEF ch

\* Where vprintfmt is, and what it has noted: behind j flags; behind the width; behind
\* the point; behind the precision and j times 'l'.
Settled(d) == IF d.prec # <<>> /\ FieldWidth(d) < 0 THEN 0 ELSE FieldWidth(d)
AltOf(d) == AltAfter(d, Len(d.flags))

FlagsAt(m, k, j) ==
  FrameOf(FormatOf(m), PlaceOf(m, k, 1 + j), ArgsAt(m, k, 0), TRUE, PadAfter(m[k], j),
          -1, -1, 0, AltAfter(m[k], j))
WidthAt(m, k) ==
  FrameOf(FormatOf(m), PlaceOf(m, k, WidthEnd(m[k])), ArgsAt(m, k, WidthStars(m[k])), TRUE,
          PadChar(m[k]), FieldWidth(m[k]), -1, 0, AltOf(m[k]))
PointAt(m, k) ==
  FrameOf(FormatOf(m), PlaceOf(m, k, WidthEnd(m[k]) + 1), ArgsAt(m, k, WidthStars(m[k])),
          TRUE, PadChar(m[k]), Settled(m[k]), -1, 0, AltOf(m[k]))
LongAt(m, k, j) ==
  FrameOf(FormatOf(m), PlaceOf(m, k, PrecEnd(m[k]) + j), ArgsAt(m, k, Len(m[k].stars)),
          TRUE, PadChar(m[k]), Settled(m[k]), Precision(m[k]), j, AltOf(m[k]))

LEMMA FlagStep ==
  ASSUME vprintfmt, NEW m, IsMessage(m), NEW k \in 1..Len(m), m[k].conv # "text",
         NEW j \in Nat, j < Len(m[k].flags), top = FlagsAt(m, k, j)
  PROVE  Moved(FlagsAt(m, k, j + 1))
<1>1. PICK d : d = m[k]
  OBVIOUS
<1>2. IsDirective(d)
  BY <1>1, MessageIs
<1>3. PICK fmt, pos, ap, yes, padc, none, zero, alt :
        /\ fmt = FormatOf(m) /\ pos = PlaceOf(m, k, 1 + j) /\ ap = ArgsAt(m, k, 0)
        /\ yes = TRUE
        /\ padc = PadAfter(d, j) /\ none = -1 /\ zero = 0
        /\ alt = AltAfter(d, j)
  OBVIOUS
<1>4. top = FrameOf(fmt, pos, ap, yes, padc, none, none, zero, alt)
  BY <1>1, <1>3 DEF FlagsAt
<1>5. ch = CharAt(top, pos) /\ top.fmt = fmt /\ top.escape = yes
  BY <1>4, TopReads
<1>6. ch = d.flags[j + 1]
  BY <1>1, <1>3, <1>5, DirectiveChars
<1>7. d.flags[j + 1] \in {"-", "0", "#"}
  <2>1. d.flags \in Seq({"-", "0", "#"})
    BY <1>2 DEF IsDirective
  <2>2. j + 1 \in 1..Len(d.flags)
    BY <1>1, <2>1
  <2> QED
    BY <2>1, <2>2, ElementOfSeq
<1>8. pos \in Nat /\ PlaceOf(m, k, 1 + (j + 1)) = pos + 1
  <2>1. PICK y \in Nat : y = 1 + j /\ y + 1 = 1 + (j + 1)
    OBVIOUS
  <2>2. PlaceOf(m, k, y) \in Nat /\ PlaceOf(m, k, y) + 1 = PlaceOf(m, k, y + 1)
    BY PlaceOne
  <2> QED
    BY <1>3, <2>1, <2>2
<1>9. Skipping(top) = FrameOf(fmt, pos + 1, ap, yes, padc, none, none, zero, alt)
  BY <1>4, <1>8, SkippingIs
<1>10. FlagsAt(m, k, j + 1)
         = FrameOf(fmt, pos + 1, ap, yes, PadAfter(d, j + 1), none, none, zero,
                   AltAfter(d, j + 1))
  BY <1>1, <1>3, <1>8 DEF FlagsAt
<1>11. PICK p, s, c : p = pos + 1 /\ s = Skipping(top) /\ c = ch
  OBVIOUS
<1>12. s = FrameOf(fmt, p, ap, yes, padc, none, none, zero, alt)
  BY <1>9, <1>11
<1>13. CASE ch = "#"
  <2>1. AltFlag
    BY <1>3, <1>5, <1>13, EscapeActions
  <2>2. Reswitch([Skipping(top) EXCEPT !.altflag = TRUE])
    BY <2>1 DEF AltFlag
  <2>3. [s EXCEPT !.altflag = yes]
          = FrameOf(fmt, p, ap, yes, padc, none, none, zero, yes)
    BY <1>12 DEF FrameOf
  <2>4. [Skipping(top) EXCEPT !.altflag = TRUE]
          = FrameOf(fmt, p, ap, yes, padc, none, none, zero, yes)
    BY <1>3, <1>11, <2>3
  <2>5. PadAfter(d, j + 1) = padc /\ AltAfter(d, j + 1) = yes
    BY <1>3, <1>6, <1>13, AfterFlag
  <2> QED
    BY <1>10, <1>11, <2>2, <2>4, <2>5, ReswitchMoves
<1>14. CASE ch # "#"
  <2>1. PadFlag
    BY <1>3, <1>5, <1>6, <1>7, <1>14, EscapeActions
  <2>2. Reswitch([Skipping(top) EXCEPT !.padc = ch])
    BY <2>1 DEF PadFlag
  <2>3. [s EXCEPT !.padc = c]
          = FrameOf(fmt, p, ap, yes, c, none, none, zero, alt)
    BY <1>12 DEF FrameOf
  <2>4. [Skipping(top) EXCEPT !.padc = ch]
          = FrameOf(fmt, p, ap, yes, c, none, none, zero, alt)
    BY <1>11, <2>3
  <2>5. PadAfter(d, j + 1) = c /\ AltAfter(d, j + 1) = alt
    BY <1>3, <1>6, <1>11, <1>14, AfterFlag
  <2> QED
    BY <1>10, <1>11, <2>2, <2>4, <2>5, ReswitchMoves
<1> QED
  BY <1>13, <1>14

\* Behind the flags, when there is no width, and behind the width, when there is no
\* precision, and behind the point, when there is no more than that.
LEMMA StagesMeet ==
  ASSUME NEW m, IsMessage(m), NEW k \in 1..Len(m)
  PROVE  /\ m[k].width = <<>> => FlagsAt(m, k, Len(m[k].flags)) = WidthAt(m, k)
         /\ m[k].prec = <<>> => WidthAt(m, k) = LongAt(m, k, 0)
         /\ m[k].prec = <<".">> => PointAt(m, k) = LongAt(m, k, 0)
<1>1. PICK d : d = m[k]
  OBVIOUS
<1>2. IsDirective(d)
  BY <1>1, MessageIs
<1>3. /\ FlagsEnd(d) \in Nat /\ WidthEnd(d) \in Nat /\ PrecEnd(d) \in Nat
      /\ FieldWidth(d) \in Int
  BY <1>2, DirectiveTyped, WidthIs
<1>4. ASSUME d.width = <<>> PROVE FlagsAt(m, k, Len(d.flags)) = WidthAt(m, k)
  <2>1. WidthEnd(d) = 1 + Len(d.flags)
    <3>1. WidthEnd(d) = FlagsEnd(d) + Len(<<>>) /\ Len(<<>>) = 0
      BY <1>4 DEF WidthEnd
    <3>2. PICK y \in Nat : y = FlagsEnd(d)
      BY <1>3
    <3>3. y + 0 = y
      OBVIOUS
    <3>4. WidthEnd(d) = FlagsEnd(d)
      BY <3>1, <3>2, <3>3
    <3> QED
      BY <3>4 DEF FlagsEnd
  <2>2. WidthStars(d) = 0 /\ FieldWidth(d) = -1
    <3>1. d.width # <<"*">>
      BY <1>4
    <3> QED
      BY <1>2, <1>4, <3>1, WidthIs DEF WidthStars
  <2>3. PadAfter(d, Len(d.flags)) = PadChar(d)
    BY <1>2, AfterFlags
  <2> QED
    BY <1>1, <2>1, <2>2, <2>3 DEF FlagsAt, WidthAt, AltOf
<1>5. ASSUME d.prec = <<>> PROVE WidthAt(m, k) = LongAt(m, k, 0)
  <2>1. PrecEnd(d) + 0 = WidthEnd(d)
    <3>1. PrecEnd(d) = WidthEnd(d) + Len(<<>>) /\ Len(<<>>) = 0
      BY <1>5 DEF PrecEnd
    <3>2. PICK y \in Nat : y = WidthEnd(d)
      BY <1>3
    <3>3. y + 0 = y
      OBVIOUS
    <3> QED
      BY <3>1, <3>2, <3>3
  <2>2. Precision(d) = -1 /\ Settled(d) = FieldWidth(d)
    BY <1>2, <1>5, PrecisionIs DEF Settled
  <2>3. Len(d.stars) = WidthStars(d)
    <3>1. d.prec # <<".", "*">>
      BY <1>5
    <3> QED
      BY <1>2, <3>1, StarsAre
  <2> QED
    BY <1>1, <2>1, <2>2, <2>3 DEF WidthAt, LongAt
<1>6. ASSUME d.prec = <<".">> PROVE PointAt(m, k) = LongAt(m, k, 0)
  <2>1. Len(d.prec) = 1
    BY <1>6, OneIsSequence
  <2>2. PrecEnd(d) + 0 = WidthEnd(d) + 1
    <3>1. PrecEnd(d) = WidthEnd(d) + 1
      BY <2>1 DEF PrecEnd
    <3> QED
      BY <1>3, <3>1
  <2>3. Precision(d) = -1
    BY <1>2, <1>6, PrecisionIs
  <2>4. Len(d.stars) = WidthStars(d)
    <3>1. d.prec # <<".", "*">>
      <4>1. Len(<<".", "*">>) = 2
        OBVIOUS
      <4> QED
        BY <2>1, <4>1
    <3> QED
      BY <1>2, <3>1, StarsAre
  <2> QED
    BY <1>1, <2>2, <2>3, <2>4 DEF PointAt, LongAt
<1> QED
  BY <1>1, <1>4, <1>5, <1>6

\* A character that ends a number.
LEMMA NumberEnds ==
  ASSUME NEW m, IsMessage(m), NEW k \in 1..Len(m), m[k].conv # "text",
         NEW f, f.fmt = FormatOf(m)
  PROVE  /\ CharAt(f, PlaceOf(m, k, WidthEnd(m[k]))) \notin Decimal
         /\ CharAt(f, PlaceOf(m, k, PrecEnd(m[k]))) \notin Decimal
<1>1. PICK d : d = m[k]
  OBVIOUS
<1>2. IsDirective(d) /\ d.conv \notin Decimal
  <2>1. IsDirective(d)
    BY <1>1, MessageIs
  <2> QED
    BY <2>1 DEF IsDirective
<1>3. d.l \in Nat /\ WidthEnd(d) \in Nat /\ PrecEnd(d) \in Nat /\ Len(d.prec) \in Nat
  BY <1>2, DirectiveTyped
<1>4. "." \notin Decimal /\ "l" \notin Decimal
  BY DecimalIs
<1>5. CharAt(f, PlaceOf(m, k, PrecEnd(d))) \notin Decimal
  <2>1. CASE d.l = 0
    <3>1. LongEnd(d) = PrecEnd(d)
      BY <1>3, <2>1 DEF LongEnd
    <3>2. CharAt(f, PlaceOf(m, k, LongEnd(d))) = d.conv
      BY <1>1, DirectiveChars
    <3> QED
      BY <1>2, <3>1, <3>2
  <2>2. CASE d.l # 0
    <3>1. 0 < d.l /\ PrecEnd(d) + 0 = PrecEnd(d) /\ 0 \in Nat
      BY <1>3, <2>2
    <3>2. CharAt(f, PlaceOf(m, k, PrecEnd(d) + 0)) = "l"
      BY <1>1, <3>1, DirectiveChars
    <3> QED
      BY <1>4, <3>1, <3>2
  <2> QED
    BY <2>1, <2>2
<1>6. CharAt(f, PlaceOf(m, k, WidthEnd(d))) \notin Decimal
  <2>1. CASE d.prec = <<>>
    <3>1. PrecEnd(d) = WidthEnd(d)
      <4>1. Len(d.prec) = 0
        BY <2>1
      <4> QED
        BY <1>3, <4>1 DEF PrecEnd
    <3> QED
      BY <1>5, <3>1
  <2>2. CASE d.prec # <<>>
    <3>1. 1 <= Len(d.prec) /\ d.prec[1] = "."
      BY <1>2, <2>2, PrecisionIs
    <3>2. 0 < Len(d.prec) /\ WidthEnd(d) + 0 = WidthEnd(d) /\ 0 \in Nat /\ 0 + 1 = 1
      BY <1>3, <3>1
    <3>3. CharAt(f, PlaceOf(m, k, WidthEnd(d) + 0)) = d.prec[0 + 1]
      BY <1>1, <3>2, DirectiveChars
    <3> QED
      BY <1>4, <3>1, <3>2, <3>3
  <2> QED
    BY <2>1, <2>2
<1> QED
  BY <1>1, <1>5, <1>6

LEMMA StarFieldIs ==
  ASSUME NEW fmt, NEW pos \in Nat, NEW ap, NEW escape, NEW padc, NEW width, NEW precision,
         NEW lflag, NEW altflag,
         top = FrameOf(fmt, pos, ap, escape, padc, width, precision, lflag, altflag),
         StarField
  PROVE  Moved(process_precision(FrameOf(fmt, pos + 1, Tail(ap), escape, padc, width,
                                         precision, lflag, altflag), Head(ap)))
<1>1. PICK p, rest, s : p = pos + 1 /\ rest = Tail(ap) /\ s = Skipping(top)
  OBVIOUS
<1>2. s = FrameOf(fmt, p, ap, escape, padc, width, precision, lflag, altflag)
  BY <1>1, SkippingIs
<1>3. s.ap = ap
  BY <1>2, FrameFields
<1>4. [s EXCEPT !.ap = rest]
        = FrameOf(fmt, p, rest, escape, padc, width, precision, lflag, altflag)
  BY <1>2 DEF FrameOf
<1>5. [Skipping(top) EXCEPT !.ap = Tail(@)] = [s EXCEPT !.ap = rest]
  BY <1>1, <1>3
<1>6. va_arg = Head(ap)
  BY TopReads DEF va_arg
<1>7. Reswitch(process_precision([s EXCEPT !.ap = rest], Head(ap)))
  BY <1>5, <1>6 DEF StarField
<1> QED
  BY <1>1, <1>4, <1>7, ReswitchMoves

LEMMA WidthStep ==
  ASSUME vprintfmt, NEW m, IsMessage(m), NEW k \in 1..Len(m), m[k].conv # "text",
         m[k].width # <<>>, top = FlagsAt(m, k, Len(m[k].flags))
  PROVE  Moved(WidthAt(m, k))
<1>1. PICK d : d = m[k]
  OBVIOUS
<1>2. IsDirective(d)
  BY <1>1, MessageIs
<1>3. FlagsEnd(d) \in Nat /\ WidthEnd(d) \in Nat /\ WidthEnd(d) = FlagsEnd(d) + Len(d.width)
      /\ Len(d.width) \in Nat
  BY <1>2, DirectiveTyped DEF WidthEnd
<1>4. PICK fmt, pos, ap, yes, padc, none, zero, alt :
        /\ fmt = FormatOf(m) /\ pos = PlaceOf(m, k, FlagsEnd(d)) /\ ap = ArgsAt(m, k, 0)
        /\ yes = TRUE
        /\ padc = PadChar(d) /\ none = -1 /\ zero = 0
        /\ alt = AltOf(d)
  OBVIOUS
<1>5. top = FrameOf(fmt, pos, ap, yes, padc, none, none, zero, alt)
  <2>1. PadAfter(d, Len(d.flags)) = PadChar(d)
    BY <1>2, AfterFlags
  <2> QED
    BY <1>1, <1>4, <2>1 DEF FlagsAt, FlagsEnd, AltOf
<1>6. ch = CharAt(top, pos) /\ top.fmt = fmt /\ top.escape = yes
  BY <1>5, TopReads
<1>7. pos \in Nat \ {0} /\ none \in Int /\ none < 0
  BY <1>3, <1>4, PlaceOne
<1>8. ASSUME NEW p, NEW rest, NEW v, p = PlaceOf(m, k, WidthEnd(d)),
             rest = ArgsAt(m, k, WidthStars(d)), v = FieldWidth(d),
             Moved(process_precision(FrameOf(fmt, p, rest, yes, padc, none, none, zero, alt), v))
      PROVE  Moved(WidthAt(m, k))
  <2>1. PICK g : g = FrameOf(fmt, p, rest, yes, padc, none, none, zero, alt)
    OBVIOUS
  <2>2. process_precision(g, v) = FrameOf(fmt, p, rest, yes, padc, v, -1, zero, alt)
    BY <1>7, <2>1, ProcessPrecisionIs
  <2>3. WidthAt(m, k) = FrameOf(fmt, p, rest, yes, padc, v, -1, zero, alt)
    BY <1>1, <1>4, <1>8 DEF WidthAt
  <2> QED
    BY <1>8, <2>1, <2>2, <2>3
<1>9. CASE d.width = <<"*">>
  <2>1. Len(d.width) = 1 /\ d.width[1] = "*"
    BY <1>9, OneIsSequence
  <2>2. ch = "*"
    <3>1. 0 < Len(d.width) /\ FlagsEnd(d) + 0 = FlagsEnd(d) /\ 0 \in Nat /\ 0 + 1 = 1
      BY <1>3, <2>1
    <3>2. CharAt(top, PlaceOf(m, k, FlagsEnd(d) + 0)) = d.width[0 + 1]
      BY <1>1, <1>4, <1>6, <3>1, DirectiveChars
    <3> QED
      BY <1>4, <1>6, <2>1, <3>1, <3>2
  <2>3. StarField
    BY <1>4, <1>6, <2>2, EscapeActions
  <2>4. Moved(process_precision(FrameOf(fmt, pos + 1, Tail(ap), yes, padc, none, none, zero,
                                        alt), Head(ap)))
    BY <1>5, <1>7, <2>3, StarFieldIs
  <2>5. pos + 1 = PlaceOf(m, k, WidthEnd(d))
    <3>1. PICK y \in Nat : y = FlagsEnd(d)
      BY <1>3
    <3>2. PlaceOf(m, k, y) + 1 = PlaceOf(m, k, y + 1)
      BY PlaceOne
    <3> QED
      BY <1>3, <1>4, <2>1, <3>1, <3>2
  <2>6. Head(ap) = FieldWidth(d) /\ Tail(ap) = ArgsAt(m, k, WidthStars(d))
    <3>1. FieldWidth(d) = d.stars[1] /\ 1 <= Len(d.stars) /\ Len(d.stars) \in Nat
      BY <1>2, <1>9, WidthIs, DirectiveTyped
    <3>2. PICK s : s = ArgsOfDirective(d)
      OBVIOUS
    <3>3. Len(s) = Len(d.stars) + (IF TakesArgument(d) THEN 1 ELSE 0)
          /\ \A x \in 1..Len(d.stars) : s[x] = d.stars[x]
      BY <1>2, <3>2, ArgsAre
    <3>4. 0 \in Nat /\ 0 < Len(s) /\ s[0 + 1] = d.stars[1] /\ 0 + 1 = 1
      <4>1. Len(s) = Len(d.stars) \/ Len(s) = Len(d.stars) + 1
        <5>1. PICK b \in Nat : b = Len(d.stars)
          BY <3>1
        <5>2. PICK z : z = IF TakesArgument(d) THEN 1 ELSE 0
          OBVIOUS
        <5>3. Len(s) = b + z /\ (z = 1 \/ z = 0)
          BY <3>3, <5>1, <5>2
        <5>4. Len(s) = b \/ Len(s) = b + 1
          BY <5>3
        <5> QED
          BY <5>1, <5>4
      <4>2. 1 \in 1..Len(d.stars) /\ 0 < Len(s)
        BY <3>1, <4>1
      <4>3. s[1] = d.stars[1]
        BY <3>3, <4>2
      <4> QED
        BY <4>2, <4>3
    <3>5. Head(ArgsAt(m, k, 0)) = s[0 + 1] /\ Tail(ArgsAt(m, k, 0)) = ArgsAt(m, k, 0 + 1)
      BY <1>1, <3>2, <3>4, ArgAt
    <3>6. WidthStars(d) = 1
      BY <1>9 DEF WidthStars
    <3> QED
      BY <1>4, <3>1, <3>4, <3>5, <3>6
  <2> QED
    BY <1>8, <2>4, <2>5, <2>6
<1>10. CASE d.width # <<"*">>
  <2>1. IsNumber(d.width) /\ FieldWidth(d) = Number(d.width)
    BY <1>1, <1>2, <1>10, WidthIs
  <2>2. IsSequence(fmt)
    <3>1. JoinFacts(FormatPieces(m), Len(m), FormatTo(m)) /\ Len(m) \in Nat
          /\ FormatOf(m) = FormatTo(m)[Len(m)]
      BY MessageIs
    <3>2. Len(m) \in 0..Len(m)
      BY <3>1
    <3> QED
      BY <1>4, <3>1, <3>2 DEF JoinFacts
  <2>3. PICK n \in Nat, y \in Nat : n = Len(d.width) /\ y = FlagsEnd(d)
    BY <1>3
  <2>4. k \in 1..(Len(m) + 1)
    BY MessageIs
  <2>5. \A x \in Nat : pos + x = PlaceOf(m, k, y + x)
    BY <1>4, <2>3, <2>4, PlaceMoves
  <2>6. ASSUME NEW x \in Nat, x < n
        PROVE  pos + x <= Len(fmt) /\ fmt[pos + x] = d.width[x + 1]
    <3>1. top.fmt[PlaceOf(m, k, FlagsEnd(d) + x)] = d.width[x + 1]
      BY <1>1, <1>4, <1>6, <2>3, <2>6, DirectiveChars
    <3>2. \A z \in Nat : z < LongEnd(d) => PlaceOf(m, k, z) <= Len(top.fmt)
      BY <1>1, <1>4, <1>6, DirectiveChars
    <3>3. y + x < LongEnd(d) /\ y + x \in Nat
      <4>1. /\ WidthEnd(d) <= PrecEnd(d) /\ PrecEnd(d) <= LongEnd(d) /\ PrecEnd(d) \in Nat
            /\ LongEnd(d) \in Nat
        BY <1>2, DirectiveTyped
      <4> QED
        BY <1>3, <2>3, <2>6, <4>1
    <3>4. PlaceOf(m, k, y + x) <= Len(top.fmt)
      BY <3>2, <3>3
    <3>5. pos + x = PlaceOf(m, k, y + x)
      BY <2>5
    <3> QED
      BY <1>6, <2>3, <3>1, <3>4, <3>5
  <2>7. ch \in Decimal \ {"0"}
    <3>1. d.width \in Seq(Decimal) /\ d.width # <<>> /\ d.width[1] # "0"
      BY <2>1 DEF IsNumber
    <3>2. 1 \in 1..Len(d.width)
      BY <3>1
    <3>3. d.width[1] \in Decimal
      BY <3>1, <3>2, ElementOfSeq
    <3>4. ch = d.width[1]
      <4>1. 0 < Len(d.width) /\ FlagsEnd(d) + 0 = FlagsEnd(d) /\ 0 \in Nat /\ 0 + 1 = 1
        BY <1>3, <3>2
      <4>2. CharAt(top, PlaceOf(m, k, FlagsEnd(d) + 0)) = d.width[0 + 1]
        BY <1>1, <1>4, <1>6, <4>1, DirectiveChars
      <4> QED
        BY <1>4, <1>6, <4>1, <4>2
    <3> QED
      BY <3>1, <3>3, <3>4
  <2>8. NumberField
    BY <1>4, <1>6, <2>7, EscapeActions
  <2>9. pos + n = PlaceOf(m, k, WidthEnd(d))
    BY <1>3, <2>3, <2>5
  <2>10. CharAt(top, pos + n) \notin Decimal
    BY <1>1, <1>4, <1>6, <2>9, NumberEnds
  <2>11. Moved(process_precision(FrameOf(fmt, pos + n, ap, yes, padc, none, none, zero,
                                         alt), Number(d.width)))
    <3>1. PICK digits : digits = d.width
      OBVIOUS
    <3>2. IsNumber(digits) /\ n = Len(digits)
          /\ \A x \in Nat : x < Len(digits) =>
               pos + x <= Len(fmt) /\ fmt[pos + x] = digits[x + 1]
      BY <2>1, <2>3, <2>6, <3>1
    <3>3. CharAt(top, pos + Len(digits)) \notin Decimal
      BY <2>10, <3>2
    <3>4. Moved(process_precision(FrameOf(fmt, pos + Len(digits), ap, yes, padc, none, none,
                                          zero, alt), Number(digits)))
      BY <1>5, <1>7, <2>2, <2>8, <3>2, <3>3, NumberFieldIs
    <3> QED
      BY <3>1, <3>2, <3>4
  <2>12. ap = ArgsAt(m, k, WidthStars(d))
    BY <1>4, <1>10 DEF WidthStars
  <2> QED
    BY <1>8, <2>1, <2>9, <2>11, <2>12
<1> QED
  BY <1>9, <1>10

LEMMA PointStep ==
  ASSUME vprintfmt, NEW m, IsMessage(m), NEW k \in 1..Len(m), m[k].conv # "text",
         m[k].prec # <<>>, top = WidthAt(m, k)
  PROVE  Moved(PointAt(m, k))
<1>1. PICK d : d = m[k]
  OBVIOUS
<1>2. IsDirective(d)
  BY <1>1, MessageIs
<1>3. PICK y \in Nat : y = WidthEnd(d)
  BY <1>2, DirectiveTyped
<1>4. PICK fmt, pos, ap, yes, padc, width, none, zero, alt :
        /\ fmt = FormatOf(m) /\ pos = PlaceOf(m, k, y) /\ ap = ArgsAt(m, k, WidthStars(d))
        /\ yes = TRUE
        /\ padc = PadChar(d) /\ width = FieldWidth(d) /\ none = -1 /\ zero = 0
        /\ alt = AltOf(d)
  OBVIOUS
<1>5. top = FrameOf(fmt, pos, ap, yes, padc, width, none, zero, alt)
  BY <1>1, <1>3, <1>4 DEF WidthAt
<1>6. ch = CharAt(top, pos) /\ top.fmt = fmt /\ top.escape = yes /\ top.width = width
  BY <1>5, TopReads
<1>7. ch = "."
  <2>1. 1 <= Len(d.prec) /\ d.prec[1] = "." /\ Len(d.prec) \in Nat
    BY <1>1, <1>2, PrecisionIs, DirectiveTyped
  <2>2. 0 < Len(d.prec) /\ y + 0 = y /\ 0 \in Nat /\ 0 + 1 = 1
    BY <2>1
  <2>3. CharAt(top, PlaceOf(m, k, y + 0)) = d.prec[0 + 1]
    BY <1>1, <1>3, <1>4, <1>6, <2>2, DirectiveChars
  <2> QED
    BY <1>4, <1>6, <2>1, <2>2, <2>3
<1>8. Reswitch([Skipping(top) EXCEPT !.width = IF @ < 0 THEN 0 ELSE @])
  BY <1>4, <1>6, <1>7, EscapeActions DEF PointFlag
<1>9. pos \in Nat /\ pos + 1 = PlaceOf(m, k, y + 1)
  BY <1>4, PlaceOne
<1>10. PICK p, s, v : /\ p = pos + 1 /\ s = Skipping(top)
                      /\ v = IF width < 0 THEN 0 ELSE width
  OBVIOUS
<1>11. s = FrameOf(fmt, p, ap, yes, padc, width, none, zero, alt)
  BY <1>5, <1>9, <1>10, SkippingIs
<1>12. s.width = width
  BY <1>11, FrameFields
<1>13. [Skipping(top) EXCEPT !.width = IF @ < 0 THEN 0 ELSE @] = [s EXCEPT !.width = v]
  BY <1>10, <1>12
<1>14. [s EXCEPT !.width = v] = FrameOf(fmt, p, ap, yes, padc, v, none, zero, alt)
  BY <1>11 DEF FrameOf
<1>15. v = Settled(d)
  BY <1>1, <1>4, <1>10 DEF Settled
<1>16. PointAt(m, k) = FrameOf(fmt, p, ap, yes, padc, v, none, zero, alt)
  BY <1>1, <1>3, <1>4, <1>9, <1>10, <1>15 DEF PointAt
<1> QED
  BY <1>8, <1>13, <1>14, <1>16, ReswitchMoves

LEMMA FormatTyped ==
  ASSUME NEW m, IsMessage(m)
  PROVE  IsSequence(FormatOf(m)) /\ IsSequence(ArgsOf(m))
<1>1. /\ JoinFacts(FormatPieces(m), Len(m), FormatTo(m)) /\ Len(m) \in Nat
      /\ JoinFacts(ArgPieces(m), Len(m), ArgsTo(m))
      /\ FormatOf(m) = FormatTo(m)[Len(m)] /\ ArgsOf(m) = ArgsTo(m)[Len(m)]
  BY MessageIs
<1>2. Len(m) \in 0..Len(m)
  BY <1>1
<1> QED
  BY <1>1, <1>2 DEF JoinFacts

LEMMA PrecisionStep ==
  ASSUME vprintfmt, NEW m, IsMessage(m), NEW k \in 1..Len(m), m[k].conv # "text",
         m[k].prec \notin {<<>>, <<".">>}, top = PointAt(m, k)
  PROVE  Moved(LongAt(m, k, 0))
<1>1. PICK d : d = m[k]
  OBVIOUS
<1>2. IsDirective(d)
  BY <1>1, MessageIs
<1>3. /\ WidthEnd(d) \in Nat /\ PrecEnd(d) \in Nat /\ PrecEnd(d) = WidthEnd(d) + Len(d.prec)
      /\ Len(d.prec) \in Nat /\ WidthStars(d) \in Nat
  BY <1>2, DirectiveTyped, StarsAre DEF PrecEnd
<1>4. PICK y \in Nat : y = WidthEnd(d)
  BY <1>3
<1>5. PICK fmt, pos, ap, yes, padc, width, none, zero, alt :
        /\ fmt = FormatOf(m) /\ pos = PlaceOf(m, k, y + 1)
        /\ ap = ArgsAt(m, k, WidthStars(d))
        /\ yes = TRUE
        /\ padc = PadChar(d) /\ width = Settled(d) /\ none = -1 /\ zero = 0
        /\ alt = AltOf(d)
  OBVIOUS
<1>6. top = FrameOf(fmt, pos, ap, yes, padc, width, none, zero, alt)
  BY <1>1, <1>4, <1>5 DEF PointAt
<1>7. ch = CharAt(top, pos) /\ top.fmt = fmt /\ top.escape = yes
  BY <1>6, TopReads
<1>8. pos \in Nat \ {0} /\ width \in Int /\ ~(width < 0)
  <2>1. pos \in Nat \ {0}
    <3>1. y + 1 \in Nat
      OBVIOUS
    <3> QED
      BY <1>5, <3>1, PlaceOne
  <2>2. FieldWidth(d) \in Int
    BY <1>2, WidthIs
  <2>3. d.prec # <<>>
    BY <1>1
  <2> QED
    BY <1>5, <2>1, <2>2, <2>3 DEF Settled
<1>9. ASSUME NEW p, NEW rest, NEW v, p = PlaceOf(m, k, PrecEnd(d)),
             rest = ArgsAt(m, k, Len(d.stars)), v = Precision(d),
             Moved(process_precision(FrameOf(fmt, p, rest, yes, padc, width, none, zero, alt), v))
      PROVE  Moved(LongAt(m, k, 0))
  <2>1. PICK g : g = FrameOf(fmt, p, rest, yes, padc, width, none, zero, alt)
    OBVIOUS
  <2>2. process_precision(g, v) = FrameOf(fmt, p, rest, yes, padc, width, v, zero, alt)
    BY <1>8, <2>1, ProcessPrecisionIs
  <2>3. PrecEnd(d) + 0 = PrecEnd(d)
    BY <1>3
  <2>4. LongAt(m, k, 0) = FrameOf(fmt, p, rest, yes, padc, width, v, zero, alt)
    BY <1>1, <1>5, <1>9, <2>3 DEF LongAt
  <2> QED
    BY <1>9, <2>1, <2>2, <2>4
<1>10. \A x \in Nat : x < Len(d.prec) => CharAt(top, PlaceOf(m, k, y + x)) = d.prec[x + 1]
  BY <1>1, <1>4, <1>5, <1>7, DirectiveChars
<1>11. CASE d.prec = <<".", "*">>
  <2>1. Len(d.prec) = 2 /\ d.prec[2] = "*" /\ Precision(d) = d.stars[WidthStars(d) + 1]
    BY <1>2, <1>11, PrecisionIs
  <2>2. ch = "*"
    <3>1. 1 < Len(d.prec) /\ 1 \in Nat /\ 1 + 1 = 2
      BY <2>1
    <3>2. CharAt(top, PlaceOf(m, k, y + 1)) = d.prec[1 + 1]
      BY <1>10, <3>1
    <3> QED
      BY <1>5, <1>7, <2>1, <3>1, <3>2
  <2>3. StarField
    BY <1>5, <1>7, <2>2, EscapeActions
  <2>4. Moved(process_precision(FrameOf(fmt, pos + 1, Tail(ap), yes, padc, width, none, zero,
                                        alt), Head(ap)))
    BY <1>6, <1>8, <2>3, StarFieldIs
  <2>5. pos + 1 = PlaceOf(m, k, PrecEnd(d))
    <3>1. PICK z \in Nat : z = y + 1 /\ z + 1 = y + 2
      OBVIOUS
    <3>2. PlaceOf(m, k, z) + 1 = PlaceOf(m, k, z + 1)
      BY PlaceOne
    <3> QED
      BY <1>3, <1>4, <1>5, <2>1, <3>1, <3>2
  <2>6. Head(ap) = Precision(d) /\ Tail(ap) = ArgsAt(m, k, Len(d.stars))
    <3>1. PICK w \in Nat : w = WidthStars(d)
      BY <1>3
    <3>2. Len(d.stars) = w + 1
      BY <1>2, <1>11, <3>1, StarsAre
    <3>3. PICK s : s = ArgsOfDirective(d)
      OBVIOUS
    <3>4. Len(s) = Len(d.stars) + (IF TakesArgument(d) THEN 1 ELSE 0)
          /\ \A x \in 1..Len(d.stars) : s[x] = d.stars[x]
      BY <1>2, <3>3, ArgsAre
    <3>5. Len(s) = w + 1 \/ Len(s) = (w + 1) + 1
      BY <3>2, <3>4
    <3>6. w < Len(s) /\ w + 1 \in 1..Len(d.stars)
      BY <3>2, <3>5
    <3>7. s[w + 1] = d.stars[w + 1]
      BY <3>4, <3>6
    <3>8. Head(ArgsAt(m, k, w)) = s[w + 1] /\ Tail(ArgsAt(m, k, w)) = ArgsAt(m, k, w + 1)
      BY <1>1, <3>3, <3>6, ArgAt
    <3> QED
      BY <1>5, <2>1, <3>1, <3>2, <3>7, <3>8
  <2> QED
    BY <1>9, <2>4, <2>5, <2>6
<1>12. CASE d.prec # <<".", "*">>
  <2>1. PICK digits : digits = Tail(d.prec)
    OBVIOUS
  <2>2. /\ IsNumber(digits) /\ Precision(d) = Number(digits)
        /\ Len(d.prec) = 1 + Len(digits)
        /\ \A x \in 1..Len(digits) : digits[x] = d.prec[x + 1]
    <3>1. d.prec \notin {<<>>, <<".">>, <<".", "*">>}
      BY <1>1, <1>12
    <3> QED
      BY <1>2, <2>1, <3>1, PrecisionIs
  <2>3. digits \in Seq(Decimal) /\ digits # <<>> /\ digits[1] # "0"
    BY <2>2 DEF IsNumber
  <2>4. PICK n \in Nat : n = Len(digits) /\ n >= 1
    BY <2>3
  <2>5. k \in 1..(Len(m) + 1) /\ y + 1 \in Nat
    BY MessageIs
  <2>6. \A x \in Nat : pos + x = PlaceOf(m, k, (y + 1) + x)
    BY <1>5, <2>5, PlaceMoves
  <2>7. ASSUME NEW x \in Nat, x < n
        PROVE  pos + x <= Len(fmt) /\ fmt[pos + x] = digits[x + 1]
    <3>1. PICK z \in Nat : z = x + 1 /\ z \in 1..n /\ (y + 1) + x = y + z
      BY <2>7
    <3>2. z < Len(d.prec)
      BY <2>2, <2>4, <3>1
    <3>3. top.fmt[PlaceOf(m, k, WidthEnd(d) + z)] = d.prec[z + 1]
      BY <1>1, <1>5, <1>7, <3>2, DirectiveChars
    <3>4. \A q \in Nat : q < LongEnd(d) => PlaceOf(m, k, q) <= Len(top.fmt)
      BY <1>1, <1>5, <1>7, DirectiveChars
    <3>5. y + z < LongEnd(d) /\ y + z \in Nat
      <4>1. PrecEnd(d) <= LongEnd(d) /\ LongEnd(d) \in Nat
        BY <1>2, DirectiveTyped
      <4> QED
        BY <1>3, <1>4, <3>2, <4>1
    <3>6. PlaceOf(m, k, y + z) <= Len(top.fmt)
      BY <3>4, <3>5
    <3>7. pos + x = PlaceOf(m, k, y + z)
      BY <2>6, <3>1
    <3>8. digits[z] = d.prec[z + 1]
      BY <2>2, <2>4, <3>1
    <3> QED
      BY <1>4, <1>7, <3>1, <3>3, <3>6, <3>7, <3>8
  <2>8. ch \in Decimal \ {"0"}
    <3>1. 1 \in 1..Len(digits)
      BY <2>4
    <3>2. digits[1] \in Decimal
      BY <2>3, <3>1, ElementOfSeq
    <3>3. digits[1] = d.prec[1 + 1]
      BY <2>2, <3>1
    <3>4. 1 \in Nat /\ 1 < Len(d.prec)
      BY <2>2, <2>4
    <3>5. CharAt(top, PlaceOf(m, k, y + 1)) = d.prec[1 + 1]
      BY <1>10, <3>4
    <3> QED
      BY <1>5, <1>7, <2>3, <3>2, <3>3, <3>5
  <2>9. NumberField
    BY <1>5, <1>7, <2>8, EscapeActions
  <2>10. pos + n = PlaceOf(m, k, PrecEnd(d))
    <3>1. (y + 1) + n = PrecEnd(d)
      <4>1. Len(d.prec) = 1 + n
        BY <2>2, <2>4
      <4>2. PrecEnd(d) = y + (1 + n)
        BY <1>3, <1>4, <4>1
      <4> QED
        BY <4>2
    <3> QED
      BY <2>6, <3>1
  <2>11. CharAt(top, pos + n) \notin Decimal
    BY <1>1, <1>5, <1>7, <2>10, NumberEnds
  <2>12. Moved(process_precision(FrameOf(fmt, pos + n, ap, yes, padc, width, none, zero,
                                         alt), Number(digits)))
    <3>1. IsSequence(fmt)
      BY <1>5, FormatTyped
    <3>2. \A x \in Nat : x < Len(digits) =>
               pos + x <= Len(fmt) /\ fmt[pos + x] = digits[x + 1]
      BY <2>4, <2>7
    <3>3. CharAt(top, pos + Len(digits)) \notin Decimal
      BY <2>4, <2>11
    <3>4. Moved(process_precision(FrameOf(fmt, pos + Len(digits), ap, yes, padc, width, none,
                                          zero, alt), Number(digits)))
      BY <1>6, <1>8, <2>2, <2>9, <3>1, <3>2, <3>3, NumberFieldIs
    <3> QED
      BY <2>4, <3>4
  <2>13. ap = ArgsAt(m, k, Len(d.stars))
    BY <1>2, <1>5, <1>12, StarsAre
  <2> QED
    BY <1>9, <2>2, <2>10, <2>12, <2>13
<1> QED
  BY <1>11, <1>12

LEMMA LongStep ==
  ASSUME vprintfmt, NEW m, IsMessage(m), NEW k \in 1..Len(m), m[k].conv # "text",
         NEW j \in Nat, j < m[k].l, top = LongAt(m, k, j)
  PROVE  Moved(LongAt(m, k, j + 1))
<1>1. PICK d : d = m[k]
  OBVIOUS
<1>2. IsDirective(d)
  BY <1>1, MessageIs
<1>3. PICK y \in Nat : y = PrecEnd(d)
  BY <1>2, DirectiveTyped
<1>4. PICK fmt, pos, ap, yes, padc, width, precision, alt :
        /\ fmt = FormatOf(m) /\ pos = PlaceOf(m, k, y + j)
        /\ ap = ArgsAt(m, k, Len(d.stars))
        /\ yes = TRUE
        /\ padc = PadChar(d) /\ width = Settled(d) /\ precision = Precision(d)
        /\ alt = AltOf(d)
  OBVIOUS
<1>5. top = FrameOf(fmt, pos, ap, yes, padc, width, precision, j, alt)
  BY <1>1, <1>3, <1>4 DEF LongAt
<1>6. ch = CharAt(top, pos) /\ top.fmt = fmt /\ top.escape = yes
  BY <1>5, TopReads
<1>7. ch = "l"
  BY <1>1, <1>3, <1>4, <1>6, DirectiveChars
<1>8. Reswitch([Skipping(top) EXCEPT !.lflag = @ + 1])
  BY <1>4, <1>6, <1>7, EscapeActions DEF LongFlag
<1>9. pos \in Nat /\ pos + 1 = PlaceOf(m, k, y + (j + 1))
  <2>1. PICK z \in Nat : z = y + j /\ z + 1 = y + (j + 1)
    OBVIOUS
  <2>2. PlaceOf(m, k, z) \in Nat /\ PlaceOf(m, k, z) + 1 = PlaceOf(m, k, z + 1)
    BY PlaceOne
  <2> QED
    BY <1>4, <2>1, <2>2
<1>10. PICK p, s, v : p = pos + 1 /\ s = Skipping(top) /\ v = j + 1
  OBVIOUS
<1>11. s = FrameOf(fmt, p, ap, yes, padc, width, precision, j, alt)
  BY <1>5, <1>9, <1>10, SkippingIs
<1>12. s.lflag = j
  BY <1>11, FrameFields
<1>13. [Skipping(top) EXCEPT !.lflag = @ + 1] = [s EXCEPT !.lflag = v]
  BY <1>10, <1>12
<1>14. [s EXCEPT !.lflag = v] = FrameOf(fmt, p, ap, yes, padc, width, precision, v, alt)
  BY <1>11 DEF FrameOf
<1>15. LongAt(m, k, j + 1) = FrameOf(fmt, p, ap, yes, padc, width, precision, v, alt)
  BY <1>1, <1>3, <1>4, <1>9, <1>10 DEF LongAt
<1> QED
  BY <1>8, <1>13, <1>14, <1>15, ReswitchMoves

-----------------------------------------------------------------------------
(* Integers of so many bits.                                               *)

LEMMA Multiple ==
  ASSUME NEW c \in Nat \ {0}, NEW z \in Int
  PROVE  /\ z % c \in 0..(c - 1) /\ z \div c \in Int /\ z = (z \div c) * c + (z % c)
         /\ z % c = 0 => z = (z \div c) * c
<1>1. z % c \in 0..(c - 1) /\ z \div c \in Int /\ z = c * (z \div c) + (z % c)
  OBVIOUS
<1>2. PICK q \in Int, x \in Int : q = z \div c /\ x = z % c
  BY <1>1
<1>3. c * q = q * c
  OBVIOUS
<1>4. z = q * c + x
  BY <1>1, <1>2, <1>3
<1>5. q * c + 0 = q * c
  OBVIOUS
<1> QED
  BY <1>1, <1>2, <1>4, <1>5

LEMMA TimesMod ==
  ASSUME NEW c \in Nat \ {0}, NEW q \in Int
  PROVE  (q * c) % c = 0
<1>1. PICK z \in Int : z = q * c
  OBVIOUS
<1>2. PICK p \in Int, x \in 0..(c - 1) : z = p * c + x /\ x = z % c
  BY Multiple
<1>3. (p + 1) * c = p * c + c /\ (q + 1) * c = q * c + c /\ p * c \in Int /\ q * c \in Int
  OBVIOUS
<1>4. PICK pm \in Int, qm \in Int : pm = p * c /\ qm = q * c
  OBVIOUS
<1>5. qm = pm + x /\ (p + 1) * c = pm + c /\ (q + 1) * c = qm + c
  BY <1>1, <1>2, <1>3, <1>4
<1>6. pm < (q + 1) * c /\ qm < (p + 1) * c
  BY <1>5
<1>7. p * c < (q + 1) * c /\ q * c < (p + 1) * c
  BY <1>4, <1>6
<1>8. p <= q /\ q <= p
  BY <1>7, TimesBelow
<1>9. p = q
  BY <1>8
<1>10. qm = pm
  BY <1>4, <1>9
<1>11. x = 0
  BY <1>5, <1>10
<1> QED
  BY <1>1, <1>2, <1>11

\* Of the numbers that differ from v by a multiple of c one is in c places.
LEMMA ModUnique ==
  ASSUME NEW c \in Nat \ {0}, NEW v \in Int, NEW x \in Int, NEW y \in Int,
         (v - x) % c = 0, (v - y) % c = 0, x - y < c, y - x < c
  PROVE  x = y
<1>1. PICK p \in Int, q \in Int : v - x = p * c /\ v - y = q * c
  <2>1. v - x \in Int /\ v - y \in Int
    OBVIOUS
  <2> QED
    BY <2>1, Multiple
<1>2. PICK pm \in Int, qm \in Int : pm = p * c /\ qm = q * c
  OBVIOUS
<1>3. (p + 1) * c = pm + c /\ (q + 1) * c = qm + c
  BY <1>2
<1>4. pm < qm + c /\ qm < pm + c
  <2>1. v - x = pm /\ v - y = qm
    BY <1>1, <1>2
  <2> QED
    BY <2>1
<1>5. p <= q /\ q <= p
  <2>1. p * c < (q + 1) * c /\ q * c < (p + 1) * c
    BY <1>2, <1>3, <1>4
  <2> QED
    BY <2>1, TimesBelow
<1>6. p = q
  BY <1>5
<1>7. v - x = v - y
  BY <1>1, <1>6
<1> QED
  BY <1>7

LEMMA BitsAre ==
  ASSUME NEW l \in Nat
  PROVE  /\ Bits(l) \in 1..LongBits
         /\ Powers(2)[Bits(l)] \in Nat \ {0}
         /\ Powers(2)[Bits(l) - 1] \in Nat \ {0}
         /\ Powers(2)[Bits(l)] = 2 * Powers(2)[Bits(l) - 1]
         /\ Powers(2)[Bits(l)] <= Powers(2)[LongBits]
<1>1. Bits(l) \in 1..LongBits /\ LongBits \in Nat
  BY PrintfmtAssumption DEF Bits
<1>2. 2 \in Wide
  BY DEF Wide
<1>3. PICK b : b = Bits(l)
  OBVIOUS
<1>4. /\ \A k \in 0..LongBits : Powers(2)[k] \in Nat \ {0}
      /\ \A k \in 1..LongBits : Powers(2)[k] = 2 * Powers(2)[k - 1]
  BY <1>2, PowersAre
<1>5. b \in 1..LongBits /\ b \in 0..LongBits /\ b - 1 \in 0..LongBits /\ LongBits \in b..LongBits
  BY <1>1, <1>3
<1>6. Powers(2)[b] <= Powers(2)[LongBits]
  BY <1>2, <1>5, PowersGrow
<1> QED
  BY <1>3, <1>4, <1>5, <1>6

\* What va_arg gives is the argument as an integer of the size asked for.
LEMMA GetuintIs ==
  ASSUME NEW v \in Int, NEW l \in Nat
  PROVE  /\ getuint(v, l) = Unsigned(v, Bits(l))
         /\ Unsigned(v, Bits(l)) \in Nat
         /\ Unsigned(v, Bits(l)) < Powers(2)[LongBits]
<1>1. PICK c : c = Powers(2)[Bits(l)]
  OBVIOUS
<1>2. c \in Nat \ {0} /\ c <= Powers(2)[LongBits] /\ Powers(2)[LongBits] \in Nat
  <2>1. 2 \in Wide /\ LongBits \in 0..LongBits
    BY PrintfmtAssumption DEF Wide
  <2> QED
    BY <1>1, <2>1, BitsAre, PowersAre
<1>3. PICK u \in 0..(c - 1) : u = v % c /\ (v - u) % c = 0
  <2>1. PICK q \in Int, u \in 0..(c - 1) : v = q * c + u /\ u = v % c
    BY <1>2, Multiple
  <2>2. v - u = q * c
    <3>1. PICK z \in Int : z = q * c
      BY <1>2
    <3>2. v = z + u /\ u \in Int
      BY <1>2, <2>1, <3>1
    <3>3. v - u = z
      BY <3>2
    <3> QED
      BY <3>1, <3>3
  <2> QED
    BY <1>2, <2>1, <2>2, TimesMod
<1>4. ASSUME NEW w \in 0..(c - 1), (v - w) % c = 0 PROVE w = u
  <2>1. w \in Int /\ u \in Int /\ w - u < c /\ u - w < c
    BY <1>2
  <2> QED
    BY <1>2, <1>3, <1>4, <2>1, ModUnique
<1>5. (CHOOSE w \in 0..(c - 1) : (v - w) % c = 0) = u
  BY <1>3, <1>4
<1>6. getuint(v, l) = u /\ Unsigned(v, Bits(l)) = u
  BY <1>1, <1>3, <1>5 DEF getuint, Unsigned
<1>7. u \in Nat /\ u < Powers(2)[LongBits]
  BY <1>2
<1> QED
  BY <1>6, <1>7

LEMMA GetintIs ==
  ASSUME NEW v \in Int, NEW l \in Nat
  PROVE  /\ getint(v, l) = Signed(v, Bits(l))
         /\ Signed(v, Bits(l)) \in Int
         /\ Signed(v, Bits(l)) < Powers(2)[LongBits]
         /\ -Signed(v, Bits(l)) < Powers(2)[LongBits]
<1>1. PICK c, h : c = Powers(2)[Bits(l)] /\ h = Powers(2)[Bits(l) - 1]
  OBVIOUS
<1>2. c \in Nat \ {0} /\ h \in Nat \ {0} /\ c = 2 * h /\ c <= Powers(2)[LongBits]
      /\ Powers(2)[LongBits] \in Nat
  <2>1. 2 \in Wide /\ LongBits \in 0..LongBits
    BY PrintfmtAssumption DEF Wide
  <2> QED
    BY <1>1, <2>1, BitsAre, PowersAre
<1>3. PICK u \in 0..(c - 1), q \in Int : u = v % c /\ v = q * c + u
  BY <1>2, Multiple
<1>4. PICK s : s = IF u < h THEN u ELSE u - c
  OBVIOUS
<1>5. s \in -h .. (h - 1)
  BY <1>2, <1>4
<1>6. (v - s) % c = 0
  <2>1. PICK z \in Int : z = q * c
    BY <1>2
  <2>2. v = z + u /\ u \in Int
    BY <1>2, <1>3, <2>1
  <2>3. (q + 1) * c = z + c
    BY <1>2, <2>1
  <2>4. CASE u < h
    <3>1. v - s = q * c
      BY <1>4, <2>1, <2>2, <2>4
    <3> QED
      BY <1>2, <3>1, TimesMod
  <2>5. CASE ~(u < h)
    <3>1. v - s = z + c
      BY <1>2, <1>4, <2>2, <2>5
    <3>2. v - s = (q + 1) * c /\ q + 1 \in Int
      BY <2>3, <3>1
    <3> QED
      BY <1>2, <3>2, TimesMod
  <2> QED
    BY <2>4, <2>5
<1>7. ASSUME NEW w \in -h .. (h - 1), (v - w) % c = 0 PROVE w = s
  <2>1. w \in Int /\ s \in Int /\ w - s < c /\ s - w < c
    BY <1>2, <1>5
  <2> QED
    BY <1>2, <1>6, <1>7, <2>1, ModUnique
<1>8. (CHOOSE w \in -h .. (h - 1) : (v - w) % c = 0) = s
  BY <1>5, <1>6, <1>7
<1>9. Signed(v, Bits(l)) = s
  BY <1>1, <1>8 DEF Signed
<1>10. getint(v, l) = s
  BY <1>1, <1>3, <1>4 DEF getint, getuint
<1>11. s \in Int /\ s < Powers(2)[LongBits] /\ -s < Powers(2)[LongBits]
  BY <1>2, <1>5
<1> QED
  BY <1>9, <1>10, <1>11

-----------------------------------------------------------------------------
(* The text of each directive.                                             *)

LEMMA DigitsAreChars ==
  ASSUME NEW base \in 2..16, NEW v \in Nat, v < Powers(2)[LongBits]
  PROVE  IsSequence(Numeral(v, base)) /\ Len(Numeral(v, base)) \in Nat
<1>1. Numeral(v, base) \in Seq(Digits16)
  <2>1. 0 \in Int
    OBVIOUS
  <2> QED
    BY <2>1, PrintnumIs
<1> QED
  BY <1>1, SequenceOf

LEMMA SettledIs ==
  ASSUME NEW d, IsDirective(d), NEW n \in Nat, NEW c
  PROVE  /\ Settled(d) \in Int
         /\ Pad(c, Settled(d) - n) = Pad(c, FieldWidth(d) - n)
         /\ Settled(d) > 0 => Settled(d) = FieldWidth(d)
         /\ ~(Settled(d) > 0) => ~(FieldWidth(d) > 0)
<1>1. PICK w \in Int : w = FieldWidth(d)
  BY WidthIs
<1>2. PICK s \in Int : s = Settled(d)
  BY <1>1 DEF Settled
<1>3. s = w \/ (w < 0 /\ s = 0)
  BY <1>1, <1>2 DEF Settled
<1>4. Pad(c, s - n) = Pad(c, w - n)
  <2>1. CASE s = w
    BY <2>1
  <2>2. CASE w < 0 /\ s = 0
    <3>1. ~(s - n > 0) /\ ~(w - n > 0)
      BY <2>2
    <3> QED
      BY <3>1 DEF Pad
  <2> QED
    BY <1>3, <2>1, <2>2
<1> QED
  BY <1>1, <1>2, <1>3, <1>4

LEMMA PaddedNumberIs ==
  ASSUME NEW d, IsDirective(d), NEW chars, IsSequence(chars)
  PROVE  /\ IsSequence(PaddedNumber(d, chars))
         /\ PaddedNumber(d, chars) = Pad(PadChar(d), Settled(d) - Len(chars)) \o chars
<1>1. Len(chars) \in Nat
  BY DEF IsSequence
<1>2. Pad(PadChar(d), Settled(d) - Len(chars)) = Pad(PadChar(d), FieldWidth(d) - Len(chars))
  BY <1>1, SettledIs
<1>3. IsSequence(Pad(PadChar(d), FieldWidth(d) - Len(chars)))
  <2>1. FieldWidth(d) - Len(chars) \in Int
    BY <1>1, WidthIs
  <2> QED
    BY <2>1, PadIs
<1>4. PaddedNumber(d, chars) = Pad(PadChar(d), FieldWidth(d) - Len(chars)) \o chars
  BY DEF PaddedNumber, Field
<1> QED
  BY <1>2, <1>3, <1>4, ConcatSequences

\* A number, as a directive prints it.
LEMMA NumberText ==
  ASSUME NEW m, NEW k, NEW d, d = m[k], IsDirective(d), top = LongAt(m, k, d.l),
         NEW base \in 2..16, NEW v \in Nat, v < Powers(2)[LongBits]
  PROVE  /\ Printed(v, base) = PaddedNumber(d, Numeral(v, base))
         /\ IsSequence(PaddedNumber(d, Numeral(v, base)))
<1>1. top.width = Settled(d) /\ top.padc = PadChar(d)
  <2>1. PICK yes, alt : yes = TRUE /\ alt = AltOf(d)
    OBVIOUS
  <2>2. top = FrameOf(FormatOf(m), PlaceOf(m, k, PrecEnd(d) + d.l), ArgsAt(m, k, Len(d.stars)),
                      yes, PadChar(d), Settled(d), Precision(d), d.l, alt)
    BY <2>1 DEF LongAt
  <2> QED
    BY <2>2, TopReads
<1>2. PICK numeral : numeral = Numeral(v, base)
  OBVIOUS
<1>3. IsSequence(numeral)
  BY <1>2, DigitsAreChars
<1>4. Settled(d) \in Int
  <2>1. 0 \in Nat
    OBVIOUS
  <2> QED
    BY <2>1, SettledIs
<1>5. Printed(v, base) = Pad(PadChar(d), Settled(d) - Len(numeral)) \o numeral
  BY <1>1, <1>2, <1>4, PrintnumIs DEF Printed
<1> QED
  BY <1>2, <1>3, <1>5, PaddedNumberIs

StringOf(d) == IF d.arg = NullPointer THEN <<"(", "n", "u", "l", "l", ")">> ELSE d.arg

LEMMA StringOfTyped ==
  ASSUME NEW d, IsDirective(d), d.conv = "s"
  PROVE  IsSequence(StringOf(d))
<1>1. CASE d.arg = NullPointer
  <2>1. <<"(", "n", "u", "l", "l", ")">> \in Seq({"(", "n", "u", "l", ")"})
    OBVIOUS
  <2> QED
    BY <1>1, <2>1, SequenceOf DEF StringOf
<1>2. CASE d.arg # NullPointer
  <2>1. ArgumentFits(d)
    BY DEF IsDirective
  <2>2. IsSequence(d.arg)
    BY <1>2, <2>1 DEF ArgumentFits
  <2> QED
    BY <1>2, <2>2 DEF StringOf
<1> QED
  BY <1>1, <1>2

\* What %s shows of its string, and where it pads.
\* What StringConversion writes, given the string, the width, the precision, the
\* padding and whether to replace what is not printable.
StringPut(p, width, precision, padc, alt) ==
  LET left == IF width > 0 /\ padc # "-" THEN width - Shown(p, precision) ELSE 0
      n == IF precision >= 0 /\ precision < Len(p) THEN precision ELSE Len(p)
      shown == [x \in 1..n |-> IF alt /\ p[x] \in Unprintable THEN "?" ELSE p[x]]
      right == IF padc = "-" THEN width - n ELSE 0
  IN  Pad(padc, left) \o shown \o Pad(" ", right)

LEMMA StringText ==
  ASSUME NEW d, IsDirective(d), d.conv = "s",
         NEW p, p = StringOf(d), NEW alt, alt <=> Contains(d.flags, "#")
  PROVE  /\ StringPut(p, Settled(d), Precision(d), PadChar(d), alt) = StringField(d)
         /\ IsSequence(StringField(d))
<1>n. PICK n : n = IF Precision(d) >= 0 /\ Precision(d) < Len(p) THEN Precision(d) ELSE Len(p)
  OBVIOUS
<1>s. PICK shown :
        shown = [x \in 1..n |-> IF alt /\ p[x] \in Unprintable THEN "?" ELSE p[x]]
  OBVIOUS
<1>l. PICK left : left = IF Settled(d) > 0 /\ PadChar(d) # "-"
                         THEN Settled(d) - Shown(p, Precision(d)) ELSE 0
  OBVIOUS
<1>r. PICK right : right = IF PadChar(d) = "-" THEN Settled(d) - n ELSE 0
  OBVIOUS
<1>p. StringPut(p, Settled(d), Precision(d), PadChar(d), alt)
        = Pad(PadChar(d), left) \o shown \o Pad(" ", right)
  BY <1>n, <1>s, <1>l, <1>r, Zenon DEF StringPut
<1>1. PICK V : p \in Seq(V)
  BY StringOfTyped DEF IsSequence
<1>2. PICK size \in Nat : size = Len(p)
  BY <1>1
<1>3. PICK prec \in Int : prec = Precision(d)
  BY PrecisionIs
<1>4. n \in Nat /\ n <= size /\ Shown(p, Precision(d)) = n
  BY <1>n, <1>2, <1>3 DEF Shown
<1> DEFINE cut == IF Precision(d) < 0 THEN p ELSE SubSeq(p, 1, Min({Precision(d), Len(p)}))
           seen == [x \in DOMAIN cut |-> IF cut[x] \in Unprintable /\ Contains(d.flags, "#")
                                         THEN "?" ELSE cut[x]]
<1>5. DOMAIN cut = 1..n /\ \A x \in 1..n : cut[x] = p[x]
  <2>1. CASE prec < 0
    <3>1. n = size /\ cut = p
      BY <1>n, <1>2, <1>3, <2>1
    <3> QED
      BY <1>1, <1>2, <3>1, LenProperties
  <2>2. CASE ~(prec < 0)
    <3>1. Min({prec, size}) = n
      <4>1. prec \in Nat
        BY <2>2
      <4>2. CASE prec < size
        BY <1>n, <1>2, <1>3, <2>2, <4>1, <4>2, MinOfTwo
      <4>3. CASE ~(prec < size)
        BY <1>n, <1>2, <1>3, <2>2, <4>1, <4>3, MinOfTwo
      <4> QED
        BY <4>2, <4>3
    <3>2. cut = SubSeq(p, 1, n)
      BY <1>2, <1>3, <2>2, <3>1
    <3> HIDE DEF cut
    <3>3. PICK s : s = SubSeq(p, 1, n)
      OBVIOUS
    <3>4. s \in Seq(V) /\ Len(s) = n /\ \A x \in 1..n : s[x] = p[x]
      <4>1. \A x \in 1..n : p[x] \in V
        BY <1>1, <1>2, <1>4
      <4>2. /\ s \in Seq(V) /\ Len(s) = IF 1 <= n THEN (n - 1) + 1 ELSE 0
            /\ \A x \in 1..((n - 1) + 1) : s[x] = p[(1 + x) - 1]
        BY <1>4, <3>3, <4>1, SubSeqProperties
      <4>3. (n - 1) + 1 = n /\ \A x \in 1..n : (1 + x) - 1 = x
        BY <1>4
      <4> QED
        BY <1>4, <4>2, <4>3
    <3>5. DOMAIN s = 1..n
      BY <3>4, LenProperties
    <3> QED
      BY <3>2, <3>3, <3>4, <3>5
  <2> QED
    BY <2>1, <2>2
<1> HIDE DEF cut
<1>6. seen = shown
  BY <1>s, <1>5
<1>7. IsSequence(shown) /\ Len(shown) = n
  <2> DEFINE W == {IF alt /\ p[x] \in Unprintable THEN "?" ELSE p[x] : x \in 1..n}
  <2>1. shown \in [1..n -> W]
    BY <1>s
  <2> HIDE DEF W
  <2>2. shown \in Seq(W) /\ Len(shown) = n
    BY <1>4, <2>1
  <2> QED
    BY <2>2, SequenceOf
<1> HIDE DEF seen
<1>8. StringField(d) = IF PadChar(d) = "-" THEN shown \o Pad(" ", FieldWidth(d) - n)
                       ELSE Pad(PadChar(d), FieldWidth(d) - n) \o shown
  <2>1. StringField(d) = Field(d, seen)
    BY DEF StringField, cut, seen, StringOf
  <2> QED
    BY <1>6, <1>7, <2>1 DEF Field
<1>9. /\ Pad(" ", Settled(d) - n) = Pad(" ", FieldWidth(d) - n)
      /\ Pad(PadChar(d), Settled(d) - n) = Pad(PadChar(d), FieldWidth(d) - n)
      /\ Settled(d) > 0 => Settled(d) = FieldWidth(d)
      /\ ~(Settled(d) > 0) => ~(FieldWidth(d) > 0)
  BY <1>4, SettledIs
<1>10. \A c : Pad(c, 0) = <<>>
  BY DEF Pad
<1>11. IsSequence(Pad(" ", FieldWidth(d) - n)) /\ IsSequence(Pad(PadChar(d), FieldWidth(d) - n))
  <2>1. FieldWidth(d) - n \in Int
    BY <1>4, WidthIs
  <2> QED
    BY <2>1, PadIs
<1>12. CASE PadChar(d) = "-"
  <2>1. left = 0 /\ right = Settled(d) - n
    BY <1>l, <1>r, <1>12
  <2>2. Pad(PadChar(d), left) = <<>>
    BY <1>10, <2>1
  <2>3. Pad(PadChar(d), left) \o shown = shown
    BY <1>7, <2>2, ConcatNothing
  <2>4. Pad(" ", right) = Pad(" ", FieldWidth(d) - n)
    BY <1>9, <2>1
  <2>5. IsSequence(shown \o Pad(" ", FieldWidth(d) - n))
    BY <1>7, <1>11, ConcatSequences
  <2> QED
    BY <1>p, <1>8, <1>12, <2>3, <2>4, <2>5
<1>13. CASE PadChar(d) # "-"
  <2>1. right = 0
    BY <1>r, <1>13
  <2>2. Pad(PadChar(d), left) = Pad(PadChar(d), FieldWidth(d) - n)
    <3>1. CASE Settled(d) > 0
      BY <1>l, <1>4, <1>9, <1>13, <3>1
    <3>2. CASE ~(Settled(d) > 0)
      <4>1. left = 0
        BY <1>l, <3>2
      <4>2. FieldWidth(d) \in Int /\ ~(FieldWidth(d) > 0)
        BY <1>9, <3>2, WidthIs
      <4>3. ~(FieldWidth(d) - n > 0)
        BY <1>4, <4>2
      <4>4. Pad(PadChar(d), FieldWidth(d) - n) = <<>>
        BY <4>3 DEF Pad
      <4> QED
        BY <1>10, <4>1, <4>4
    <3> QED
      BY <3>1, <3>2
  <2> DEFINE padded == Pad(PadChar(d), FieldWidth(d) - n) \o shown
  <2>3. IsSequence(padded)
    BY <1>7, <1>11, ConcatSequences
  <2>4. padded \o <<>> = padded
    <3> HIDE DEF padded
    <3> QED
      BY <2>3, ConcatNothing
  <2> QED
    BY <1>p, <1>8, <1>10, <1>13, <2>1, <2>2, <2>3, <2>4
<1> QED
  BY <1>p, <1>12, <1>13

Known == {"text", "c", "e", "s", "d", "u", "o", "p", "x", "%"}

LEMMA RenderedIs ==
  ASSUME NEW d, NEW v, v = Signed(d.arg, Bits(d.l)), NEW u, u = Unsigned(d.arg, Bits(d.l))
  PROVE  /\ d.conv = "text" => Rendered(d) = <<d.arg>>
         /\ d.conv = "c" => Rendered(d) = <<d.arg>>
         /\ d.conv = "%" => Rendered(d) = <<"%">>
         /\ d.conv = "s" => Rendered(d) = StringField(d)
         /\ d.conv = "e" => Rendered(d) = ErrorText(IF d.arg < 0 THEN -d.arg ELSE d.arg)
         /\ d.conv = "d" /\ v \in Int /\ v < 0
              => Rendered(d) = <<"-">> \o PaddedNumber(d, Numeral(-v, 10))
         /\ d.conv = "d" /\ v \in Int /\ ~(v < 0) => Rendered(d) = PaddedNumber(d, Numeral(v, 10))
         /\ d.conv = "u" => Rendered(d) = PaddedNumber(d, Numeral(u, 10))
         /\ d.conv = "o" => Rendered(d) = PaddedNumber(d, Numeral(u, 8))
         /\ d.conv = "x" => Rendered(d) = PaddedNumber(d, Numeral(u, 16))
         /\ d.conv = "p" => Rendered(d) = <<"0", "x">> \o PaddedNumber(d, Numeral(d.arg, 16))
         /\ d.conv \notin Known => Rendered(d) = FormatOfDirective(d)
<1>1. d.conv = "text" => Rendered(d) = <<d.arg>>
  BY DEF Rendered
<1>2. d.conv = "c" => Rendered(d) = <<d.arg>>
  BY DEF Rendered
<1>3. d.conv = "%" => Rendered(d) = <<"%">>
  BY DEF Rendered
<1>4. d.conv = "s" => Rendered(d) = StringField(d)
  BY DEF Rendered
<1>5. d.conv = "e" => Rendered(d) = ErrorText(IF d.arg < 0 THEN -d.arg ELSE d.arg)
  BY DEF Rendered
<1>6. d.conv = "d" /\ v \in Int /\ v < 0
        => Rendered(d) = <<"-">> \o PaddedNumber(d, Numeral(-v, 10))
  BY DEF Rendered
<1>7. d.conv = "d" /\ v \in Int /\ ~(v < 0) => Rendered(d) = PaddedNumber(d, Numeral(v, 10))
  <2>1. v \in Int /\ ~(v < 0) => v >= 0
    OBVIOUS
  <2> QED
    BY <2>1 DEF Rendered
<1>8. d.conv = "u" => Rendered(d) = PaddedNumber(d, Numeral(u, 10))
  BY DEF Rendered
<1>9. d.conv = "o" => Rendered(d) = PaddedNumber(d, Numeral(u, 8))
  BY DEF Rendered
<1>10. d.conv = "x" => Rendered(d) = PaddedNumber(d, Numeral(u, 16))
  BY DEF Rendered
<1>11. d.conv = "p" => Rendered(d) = <<"0", "x">> \o PaddedNumber(d, Numeral(d.arg, 16))
  BY DEF Rendered
<1>12. d.conv \notin Known => Rendered(d) = FormatOfDirective(d)
  BY DEF Rendered, Known
<1> QED
  BY <1>1, <1>2, <1>3, <1>4, <1>5, <1>6, <1>7, <1>8, <1>9, <1>10, <1>11, <1>12

\* The error code of %e.
CodeOf(d) == IF d.arg < 0 THEN -d.arg ELSE d.arg

LEMMA IntIs ==
  /\ Bits(0) = IntBits
  /\ Powers(2)[IntBits - 1] \in Nat \ {0}
  /\ Powers(2)[IntBits] = 2 * Powers(2)[IntBits - 1]
  /\ Powers(2)[IntBits] <= Powers(2)[LongBits]
  /\ Powers(2)[LongBits] \in Nat \ {0}
<1>1. Bits(0) = IntBits
  BY DEF Bits
<1>2. 0 \in Nat /\ 2 \in Wide /\ LongBits \in 0..LongBits
  BY PrintfmtAssumption DEF Wide
<1> QED
  BY <1>1, <1>2, BitsAre, PowersAre

LEMMA CodeIs ==
  ASSUME NEW d, IsDirective(d), d.conv = "e"
  PROVE  /\ d.arg \in Int /\ CodeOf(d) \in Nat
         /\ CodeOf(d) < Powers(2)[IntBits - 1] /\ CodeOf(d) < Powers(2)[LongBits]
<1>1. ArgumentFits(d)
  BY DEF IsDirective
<1>2. d.arg \in (1 - Powers(2)[IntBits - 1]) .. (Powers(2)[IntBits - 1] - 1)
  BY <1>1 DEF ArgumentFits
<1>3. PICK h \in Nat, c \in Nat : h = Powers(2)[IntBits - 1] /\ c = Powers(2)[LongBits] /\ h <= c
  <2>1. PICK h \in Nat, b \in Nat, c \in Nat :
          h = Powers(2)[IntBits - 1] /\ b = Powers(2)[IntBits] /\ c = Powers(2)[LongBits]
          /\ b = 2 * h /\ b <= c
    BY IntIs
  <2> QED
    BY <2>1
<1>4. d.arg \in (1 - h) .. (h - 1)
  BY <1>2, <1>3
<1>5. d.arg \in Int /\ CodeOf(d) \in Nat /\ CodeOf(d) < h
  BY <1>3, <1>4 DEF CodeOf
<1> QED
  BY <1>3, <1>5

LEMMA ErrorStrings ==
  /\ MAXERROR = 6
  /\ \A e \in 1..6 : IsSequence(error_string[e]) /\ error_string[e] # NullPointer
<1>1. MAXERROR = 6
  BY DEF MAXERROR, error_string
<1>2. /\ error_string[1] = <<"unspecified error">> /\ error_string[2] = <<"bad process">>
      /\ error_string[3] = <<"invalid parameter">> /\ error_string[4] = <<"out of memory">>
      /\ error_string[5] = <<"out of processes">> /\ error_string[6] = <<"segmentation fault">>
  BY DEF error_string
<1>3. ASSUME NEW e \in 1..6 PROVE IsSequence(error_string[e])
  <2>1. e = 1 \/ e = 2 \/ e = 3 \/ e = 4 \/ e = 5 \/ e = 6
    OBVIOUS
  <2>2. PICK c : error_string[e] = <<c>>
    BY <1>2, <2>1
  <2> QED
    BY <2>2, OneIsSequence
<1>4. ASSUME NEW e \in 1..6 PROVE error_string[e] # NullPointer
  BY <1>1, PrintfmtAssumption
<1> QED
  BY <1>1, <1>3, <1>4

LEMMA ErrorTextTyped ==
  ASSUME NEW e \in Nat, e < Powers(2)[LongBits]
  PROVE  IsSequence(ErrorText(e))
<1>1. CASE e \in 1..6
  BY <1>1, ErrorStrings DEF ErrorText
<1>2. CASE e \notin 1..6
  <2>1. ErrorText(e) = <<"error ">> \o Numeral(e, 10)
    BY <1>2, ErrorStrings DEF ErrorText
  <2>2. 10 \in 2..16
    OBVIOUS
  <2>3. IsSequence(Numeral(e, 10)) /\ IsSequence(<<"error ">>)
    BY <2>2, DigitsAreChars, OneIsSequence
  <2> QED
    BY <2>1, <2>3, ConcatSequences
<1> QED
  BY <1>1, <1>2

LEMMA RenderedTyped ==
  ASSUME NEW d, IsDirective(d)
  PROVE  IsSequence(Rendered(d))
<1>1. PICK v, u : v = Signed(d.arg, Bits(d.l)) /\ u = Unsigned(d.arg, Bits(d.l))
  OBVIOUS
<1>2. ArgumentFits(d) /\ d.l \in Nat
  BY DEF IsDirective
<1>3. 10 \in 2..16 /\ 8 \in 2..16 /\ 16 \in 2..16
  OBVIOUS
<1>4. CASE d.conv \in {"text", "c", "%"}
  <2>1. Rendered(d) = <<d.arg>> \/ Rendered(d) = <<"%">>
    BY <1>1, <1>4, RenderedIs
  <2> QED
    BY <2>1, OneIsSequence
<1>5. CASE d.conv = "s"
  <2>1. PICK p, n, alt, shown, left, right :
          /\ p = StringOf(d)
          /\ n = IF Precision(d) >= 0 /\ Precision(d) < Len(p) THEN Precision(d) ELSE Len(p)
          /\ alt = Contains(d.flags, "#")
          /\ shown = [x \in 1..n |-> IF alt /\ p[x] \in Unprintable THEN "?" ELSE p[x]]
          /\ left = (IF Settled(d) > 0 /\ PadChar(d) # "-"
                     THEN Settled(d) - Shown(p, Precision(d)) ELSE 0)
          /\ right = IF PadChar(d) = "-" THEN Settled(d) - n ELSE 0
    OBVIOUS
  <2>2. alt <=> Contains(d.flags, "#")
    BY <2>1
  <2>3. IsSequence(StringField(d))
    BY <1>5, <2>1, <2>2, StringText
  <2> QED
    BY <1>1, <1>5, <2>3, RenderedIs
<1>6. CASE d.conv = "e"
  <2>1. Rendered(d) = ErrorText(CodeOf(d))
    BY <1>1, <1>6, RenderedIs DEF CodeOf
  <2> QED
    BY <1>6, <2>1, CodeIs, ErrorTextTyped
<1>7. CASE d.conv = "d"
  <2>1. d.arg \in Int
    BY <1>2, <1>7 DEF ArgumentFits
  <2>2. v \in Int /\ v < Powers(2)[LongBits] /\ -v < Powers(2)[LongBits]
    BY <1>1, <1>2, <2>1, GetintIs
  <2>3. CASE v < 0
    <3>1. -v \in Nat
      BY <2>2, <2>3
    <3>2. IsSequence(PaddedNumber(d, Numeral(-v, 10)))
      BY <1>3, <2>2, <3>1, DigitsAreChars, PaddedNumberIs
    <3>3. IsSequence(<<"-">>)
      BY OneIsSequence
    <3>4. Rendered(d) = <<"-">> \o PaddedNumber(d, Numeral(-v, 10))
      BY <1>1, <1>7, <2>2, <2>3, RenderedIs
    <3> QED
      BY <3>2, <3>3, <3>4, ConcatSequences
  <2>4. CASE ~(v < 0)
    <3>1. v \in Nat
      BY <2>2, <2>4
    <3>2. IsSequence(PaddedNumber(d, Numeral(v, 10)))
      BY <1>3, <2>2, <3>1, DigitsAreChars, PaddedNumberIs
    <3> QED
      BY <1>1, <1>7, <2>2, <2>4, <3>2, RenderedIs
  <2> QED
    BY <2>3, <2>4
<1>8. CASE d.conv \in {"u", "o", "x"}
  <2>1. d.arg \in Int
    BY <1>2, <1>8 DEF ArgumentFits
  <2>2. u \in Nat /\ u < Powers(2)[LongBits]
    BY <1>1, <1>2, <2>1, GetuintIs
  <2>3. PICK base \in 2..16 : Rendered(d) = PaddedNumber(d, Numeral(u, base))
    BY <1>1, <1>3, <1>8, RenderedIs
  <2> QED
    BY <2>2, <2>3, DigitsAreChars, PaddedNumberIs
<1>9. CASE d.conv = "p"
  <2>1. d.arg \in 0..(Powers(2)[LongBits] - 1)
    BY <1>2, <1>9 DEF ArgumentFits
  <2>2. d.arg \in Nat /\ d.arg < Powers(2)[LongBits]
    BY <2>1, IntIs
  <2>3. IsSequence(PaddedNumber(d, Numeral(d.arg, 16)))
    BY <1>3, <2>2, DigitsAreChars, PaddedNumberIs
  <2>4. IsSequence(<<"0", "x">>)
    <3>1. <<"0", "x">> \in Seq({"0", "x"})
      OBVIOUS
    <3> QED
      BY <3>1, SequenceOf
  <2>5. Rendered(d) = <<"0", "x">> \o PaddedNumber(d, Numeral(d.arg, 16))
    BY <1>1, <1>9, RenderedIs
  <2> QED
    BY <2>3, <2>4, <2>5, ConcatSequences
<1>10. CASE d.conv \notin Known
  <2>1. Rendered(d) = FormatOfDirective(d)
    BY <1>1, <1>10, RenderedIs
  <2> QED
    BY <2>1, FormatIsSequence
<1> QED
  BY <1>4, <1>5, <1>6, <1>7, <1>8, <1>9, <1>10 DEF Known

-----------------------------------------------------------------------------
(* The messages of the kernel itself.                                      *)

LEMMA TextsAre ==
  ASSUME NEW m, IsMessage(m)
  PROVE  /\ TextTo(m)[0] = <<>>
         /\ \A k \in 1..Len(m) : TextTo(m)[k] = TextTo(m)[k - 1] \o Rendered(m[k])
         /\ \A k \in 0..Len(m) : IsSequence(TextTo(m)[k])
         /\ RenderedText(m) = TextTo(m)[Len(m)]
         /\ IsSequence(RenderedText(m))
<1> DEFINE n == Len(m)
           p == TextPieces(m)
<1>1. n \in Nat /\ \A k \in 1..n : IsDirective(m[k])
  BY MessageIs
<1>2. \A k \in 1..n : p[k] = Rendered(m[k])
  BY DEF TextPieces
<1>3. p = [k \in 1..n |-> p[k]]
  BY DEF TextPieces
<1>4. FlattenSeq(p) = RenderedText(m)
  BY DEF TextPieces, RenderedText
<1> HIDE DEF p
<1>5. \A k \in 1..n : IsSequence(p[k])
  BY <1>1, <1>2, RenderedTyped
<1>6. JoinFacts(p, n, Join(p, n)) /\ FlattenSeq(p) = Join(p, n)[n]
  BY <1>1, <1>3, <1>5, JoinFactsHold
<1>7. TextTo(m) = Join(p, n)
  BY DEF TextTo, p
<1>8. JoinFacts(p, n, TextTo(m)) /\ RenderedText(m) = TextTo(m)[n]
  BY <1>4, <1>6, <1>7
<1>9. n \in 0..n
  BY <1>1
<1> QED
  BY <1>2, <1>8, <1>9 DEF JoinFacts

LEMMA TwoJoined ==
  ASSUME NEW x, NEW y
  PROVE  <<x>> \o <<y>> = <<x, y>>
<1>1. Append(<<x>>, y) = <<x>> \o <<y>>
  BY AppendSequence, OneIsSequence
<1>2. Append(<<x>>, y) = <<x, y>>
  <2>a. <<x>> \in Seq({x, y}) /\ Len(<<x>>) = 1 /\ <<x>>[1] = x
    OBVIOUS
  <2>1. PICK s : s \in Seq({x, y}) /\ s = <<x>> /\ Len(s) = 1 /\ s[1] = x
    BY <2>a
  <2>b. Append(s, y) \in Seq({x, y})
    BY <2>1, AppendProperties
  <2>2. PICK u : u \in Seq({x, y}) /\ u = Append(s, y)
    BY <2>b
  <2>3. Len(u) = 2 /\ u[1] = x /\ u[2] = y
    BY <2>1, <2>2, AppendProperties
  <2>c. <<x, y>> \in Seq({x, y}) /\ Len(<<x, y>>) = 2 /\ <<x, y>>[1] = x /\ <<x, y>>[2] = y
    OBVIOUS
  <2>4. PICK v : v \in Seq({x, y}) /\ v = <<x, y>> /\ Len(v) = 2 /\ v[1] = x /\ v[2] = y
    BY <2>c
  <2>5. \A k \in 1..2 : u[k] = v[k]
    BY <2>3, <2>4
  <2>6. u = v
    <3>1. PICK V : V = {x, y}
      OBVIOUS
    <3>2. u \in Seq(V) /\ v \in Seq(V) /\ Len(u) = Len(v) /\ \A k \in 1..Len(u) : u[k] = v[k]
      BY <2>2, <2>3, <2>4, <2>5, <3>1
    <3> QED
      BY <3>2, SeqEqual
  <2> QED
    BY <2>1, <2>2, <2>4, <2>6
<1> QED
  BY <1>1, <1>2

Plain(conv, arg) == Directive(<<>>, <<>>, <<>>, 0, conv, <<>>, arg)

LEMMA PlainIs ==
  ASSUME NEW conv \in {"text", "s", "d"}, NEW arg, NEW d, d = Plain(conv, arg),
         ArgumentFits(d)
  PROVE  /\ IsDirective(d) /\ d.conv = conv /\ d.arg = arg /\ d.stars = <<>> /\ d.l = 0
         /\ d.flags = <<>> /\ d.width = <<>> /\ d.prec = <<>>
         /\ FieldWidth(d) = -1 /\ Precision(d) = -1 /\ PadChar(d) = " "
         /\ ~Contains(d.flags, "#")
<1>1. /\ d.conv = conv /\ d.arg = arg /\ d.stars = <<>> /\ d.l = 0 /\ d.flags = <<>>
      /\ d.width = <<>> /\ d.prec = <<>>
  BY DEF Plain, Directive
<1>2. d.flags \in Seq({"-", "0", "#"}) /\ d.stars \in Seq(Int) /\ Len(d.stars) = 0
  BY <1>1
<1>3. StarCount(d) = 0
  <2>1. d.width # <<"*">> /\ d.prec # <<".", "*">>
    BY <1>1
  <2> QED
    BY <2>1 DEF StarCount
<1>4. d.conv \notin Decimal \cup {"-", "*", ".", "#", "l"}
  BY <1>1, DecimalIs
<1>5. IsDirective(d)
  BY <1>1, <1>2, <1>3, <1>4 DEF IsDirective
<1>6. FieldWidth(d) = -1 /\ Precision(d) = -1
  BY <1>1, <1>5, WidthIs, PrecisionIs
<1>7. PadChar(d) = " "
  <2>1. {k \in DOMAIN d.flags : d.flags[k] # "#"} = {}
    BY <1>1
  <2> QED
    BY <2>1 DEF PadChar
<1>8. ~Contains(d.flags, "#")
  BY <1>1 DEF Contains
<1> QED
  BY <1>1, <1>5, <1>6, <1>7, <1>8

LEMMA TextFits ==
  ASSUME NEW c, c # "%", c # NUL
  PROVE  IsDirective(Text(c)) /\ Text(c).conv = "text" /\ Rendered(Text(c)) = <<c>>
         /\ FormatOfDirective(Text(c)) = <<c>> /\ ArgsOfDirective(Text(c)) = <<>>
<1>1. PICK d : d = Text(c)
  OBVIOUS
<1>2. d = Plain("text", c)
  BY <1>1 DEF Text, Plain
<1>3. ArgumentFits(d)
  BY <1>2 DEF ArgumentFits, Plain, Directive
<1>4. IsDirective(d) /\ d.conv = "text" /\ d.arg = c /\ d.stars = <<>>
  BY <1>2, <1>3, PlainIs
<1>5. Rendered(d) = <<c>> /\ FormatOfDirective(d) = <<c>>
  BY <1>4, RenderedIs DEF FormatOfDirective
<1>6. ArgsOfDirective(d) = <<>>
  <2>1. ~TakesArgument(d)
    BY <1>4 DEF TakesArgument
  <2>2. ArgsOfDirective(d) = <<>> \o <<>>
    BY <1>4, <2>1 DEF ArgsOfDirective
  <2> QED
    BY <2>2, ConcatNothing, NothingIsSequence
<1> QED
  BY <1>1, <1>4, <1>5, <1>6

LEMMA StringFits ==
  ASSUME NEW s, s = NullPointer \/ IsSequence(s)
  PROVE  /\ IsDirective(String(s)) /\ String(s).conv = "s" /\ String(s).arg = s
         /\ String(s).stars = <<>> /\ FormatOfDirective(String(s)) = <<"%", "s">>
         /\ s # NullPointer => Rendered(String(s)) = s
<1>1. PICK d : d = String(s)
  OBVIOUS
<1>2. d = Plain("s", s)
  BY <1>1 DEF String, Plain
<1>3. ArgumentFits(d)
  BY <1>2 DEF ArgumentFits, Plain, Directive
<1>4. /\ IsDirective(d) /\ d.conv = "s" /\ d.arg = s /\ d.stars = <<>> /\ d.l = 0
      /\ d.flags = <<>> /\ d.width = <<>> /\ d.prec = <<>>
      /\ FieldWidth(d) = -1 /\ Precision(d) = -1 /\ PadChar(d) = " "
      /\ ~Contains(d.flags, "#")
  BY <1>2, <1>3, PlainIs
<1>5. FormatOfDirective(d) = <<"%", "s">>
  <2>1. Pad("l", 0) = <<>>
    BY DEF Pad
  <2>2. FormatOfDirective(d) = <<"%">> \o <<>> \o <<>> \o <<>> \o <<>> \o <<"s">>
    BY <1>4, <2>1 DEF FormatOfDirective, NUL
  <2>3. <<"%">> \o <<>> = <<"%">>
    BY ConcatNothing, OneIsSequence
  <2>4. <<"%">> \o <<"s">> = <<"%", "s">>
    BY TwoJoined
  <2> QED
    BY <2>2, <2>3, <2>4
<1>6. ASSUME s # NullPointer PROVE Rendered(d) = s
  <2>1. StringOf(d) = s
    BY <1>4, <1>6 DEF StringOf
  <2>2. Settled(d) = -1
    BY <1>4 DEF Settled
  <2>3. PICK V : s \in Seq(V)
    BY <1>6 DEF IsSequence
  <2>4. PICK n \in Nat : n = Len(s)
    BY <2>3
  <2>5. StringPut(s, Settled(d), Precision(d), PadChar(d), FALSE) = StringField(d)
    <3>1. PICK alt : alt = FALSE /\ (alt <=> Contains(d.flags, "#"))
      BY <1>4
    <3>2. StringPut(s, Settled(d), Precision(d), PadChar(d), alt) = StringField(d)
      BY <1>4, <2>1, <3>1, StringText
    <3> QED
      BY <3>1, <3>2
  <2>6. StringPut(s, Settled(d), Precision(d), PadChar(d), FALSE) = s
    <3>1. PICK q, w : q = Precision(d) /\ q = -1 /\ w = Settled(d) /\ w = -1
      BY <1>4, <2>2
    <3>c. PICK c : c = PadChar(d) /\ c = " "
      BY <1>4
    <3>2. ~(q >= 0)
      BY <3>1
    <3>3. ~(w > 0)
      BY <3>1
    <3>4. c # "-"
      BY <3>c
    <3>5. PICK shown : shown = [x \in 1..n |-> s[x]]
      OBVIOUS
    <3>6. s = shown
      BY <2>3, <2>4, <3>5
    <3>7. [x \in 1..n |-> IF FALSE /\ s[x] \in Unprintable THEN "?" ELSE s[x]] = shown
      BY <3>5
    <3>8. \A e : Pad(e, 0) = <<>>
      BY DEF Pad
    <3>9. <<>> \o shown = shown /\ shown \o <<>> = shown
      BY <1>6, <3>6, ConcatNothing
    <3>10. StringPut(s, w, q, c, FALSE) = Pad(c, 0) \o shown \o Pad(" ", 0)
      BY <2>4, <3>2, <3>3, <3>4, <3>7 DEF StringPut
    <3>11. Pad(c, 0) \o shown \o Pad(" ", 0) = s
      <4>1. Pad(c, 0) = <<>>
        BY <3>8
      <4>2. Pad(" ", 0) = <<>>
        BY <3>8
      <4> QED
        BY <3>6, <3>9, <4>1, <4>2
    <3>12. StringPut(s, w, q, c, FALSE) = s
      BY <3>10, <3>11
    <3> QED
      BY <3>1, <3>c, <3>12
  <2>15. StringField(d) = s
    BY <2>5, <2>6
  <2> QED
    BY <1>4, <2>15, RenderedIs
<1> QED
  BY <1>1, <1>4, <1>5, <1>6

LEMMA DecimalFits ==
  ASSUME NEW v \in Int
  PROVE  /\ IsDirective(Decimal32(v)) /\ Decimal32(v).conv = "d" /\ Decimal32(v).arg = v
         /\ Decimal32(v).stars = <<>> /\ FormatOfDirective(Decimal32(v)) = <<"%", "d">>
         /\ 0 <= v /\ v < Powers(2)[IntBits - 1] => Rendered(Decimal32(v)) = Numeral(v, 10)
<1>1. PICK d : d = Decimal32(v)
  OBVIOUS
<1>2. d = Plain("d", v)
  BY <1>1 DEF Decimal32, Plain
<1>3. ArgumentFits(d)
  BY <1>2 DEF ArgumentFits, Plain, Directive
<1>4. /\ IsDirective(d) /\ d.conv = "d" /\ d.arg = v /\ d.stars = <<>> /\ d.l = 0
      /\ d.flags = <<>> /\ d.width = <<>> /\ d.prec = <<>>
      /\ FieldWidth(d) = -1 /\ PadChar(d) = " "
  BY <1>2, <1>3, PlainIs
<1>5. FormatOfDirective(d) = <<"%", "d">>
  <2>1. Pad("l", 0) = <<>>
    BY DEF Pad
  <2>2. FormatOfDirective(d) = <<"%">> \o <<>> \o <<>> \o <<>> \o <<>> \o <<"d">>
    BY <1>4, <2>1 DEF FormatOfDirective, NUL
  <2>3. <<"%">> \o <<>> = <<"%">>
    BY ConcatNothing, OneIsSequence
  <2>4. <<"%">> \o <<"d">> = <<"%", "d">>
    BY TwoJoined
  <2> QED
    BY <2>2, <2>3, <2>4
<1>6. ASSUME 0 <= v, v < Powers(2)[IntBits - 1] PROVE Rendered(d) = Numeral(v, 10)
  <2>1. PICK h \in Nat, c \in Nat : h = Powers(2)[IntBits - 1] /\ c = Powers(2)[IntBits] /\ c = 2 * h
        /\ h # 0
    BY IntIs
  <2>2. v < h
    BY <1>6, <2>1
  <2>3. v \in -h .. (h - 1) /\ (v - v) % c = 0
    <3>1. v - v = 0 * c
      BY <2>1
    <3>2. c \in Nat \ {0} /\ 0 \in Int
      BY <2>1
    <3>3. (v - v) % c = 0
      BY <3>1, <3>2, TimesMod
    <3> QED
      BY <1>6, <2>2, <3>3
  <2>4. ASSUME NEW w \in -h .. (h - 1), (v - w) % c = 0 PROVE w = v
    <3>1. w \in Int /\ w - v < c /\ v - w < c /\ c \in Nat \ {0}
      BY <1>6, <2>1, <2>2
    <3> QED
      BY <2>3, <2>4, <3>1, ModUnique
  <2>5. (CHOOSE w \in -h .. (h - 1) : (v - w) % c = 0) = v
    BY <2>3, <2>4
  <2>6. Signed(v, IntBits) = v
    BY <2>1, <2>5 DEF Signed
  <2>7. Signed(d.arg, Bits(d.l)) = v
    BY <1>4, <2>6, IntIs
  <2>8. v \in Int /\ ~(v < 0)
    BY <1>6
  <2>9. Rendered(d) = PaddedNumber(d, Numeral(v, 10))
    BY <1>4, <2>7, <2>8, RenderedIs
  <2>10. IsSequence(Numeral(v, 10)) /\ Len(Numeral(v, 10)) \in Nat
    <3>1. v \in Nat /\ 10 \in 2..16
      BY <2>8
    <3>2. v < Powers(2)[LongBits]
      <4>1. PICK e \in Nat : e = Powers(2)[LongBits] /\ c <= e
        BY <2>1, IntIs
      <4> QED
        BY <2>1, <2>2, <4>1
    <3> QED
      BY <3>1, <3>2, DigitsAreChars
  <2>11. Pad(" ", -1 - Len(Numeral(v, 10))) = <<>>
    <3>1. ~(-1 - Len(Numeral(v, 10)) > 0)
      BY <2>10
    <3> QED
      BY <3>1 DEF Pad
  <2>12. PaddedNumber(d, Numeral(v, 10)) = <<>> \o Numeral(v, 10)
    BY <1>4, <2>11 DEF PaddedNumber, Field
  <2> QED
    BY <2>9, <2>10, <2>12, ConcatNothing
<1> QED
  BY <1>1, <1>4, <1>5, <1>6


-----------------------------------------------------------------------------
(* Where a call of vprintfmt stands in its message.                        *)

\* A frame that is in no directive.
PlainFrame(f, m, pos, ap) ==
  \E padc, width, precision, lflag, altflag :
    f = FrameOf(FormatOf(m), pos, ap, FALSE, padc, width, precision, lflag, altflag)

LEMMA PlainFrameIs ==
  ASSUME NEW f, NEW m, NEW pos, NEW ap, NEW padc, NEW width, NEW precision, NEW lflag,
         NEW altflag,
         f = FrameOf(FormatOf(m), pos, ap, FALSE, padc, width, precision, lflag, altflag)
  PROVE  PlainFrame(f, m, pos, ap)
BY DEF PlainFrame

\* f is before the k-th piece of m; out is what it has written.
Between(f, m, k, out) ==
  /\ k \in 1..(Len(m) + 1)
  /\ PlainFrame(f, m, PlaceOf(m, k, 0), ArgsAt(m, k, 0))
  /\ out = TextTo(m)[k - 1]

\* f reads the k-th piece of m, a directive.
Stage(f, m, k) ==
  \/ \E j \in 0..Len(m[k].flags) : f = FlagsAt(m, k, j)
  \/ f = WidthAt(m, k)
  \/ m[k].prec # <<>> /\ f = PointAt(m, k)
  \/ \E j \in 0..m[k].l : f = LongAt(m, k, j)
Inside(f, m, k, out) ==
  /\ k \in 1..Len(m) /\ m[k].conv # "text"
  /\ Stage(f, m, k)
  /\ out = TextTo(m)[k - 1]

\* f prints the k-th piece of m, an unknown directive, as it is written; it has
\* come to its j-th character.
Literally(f, m, k, j, out) ==
  /\ k \in 1..Len(m) /\ m[k].conv \notin Known
  /\ PlainFrame(f, m, PlaceOf(m, k, j), ArgsAt(m, k, Len(m[k].stars)))
  /\ out = TextTo(m)[k - 1] \o SubSeq(FormatOfDirective(m[k]), 1, j)

At(f, m, out) ==
  \E k \in Nat :
    \/ Between(f, m, k, out)
    \/ Inside(f, m, k, out)
    \/ \E j \in Nat : 1 <= j /\ j < Len(FormatOfDirective(m[k])) /\ Literally(f, m, k, j, out)

LEMMA FlagsAtStep ==
  ASSUME vprintfmt, NEW m, IsMessage(m), NEW k \in 1..Len(m), m[k].conv # "text",
         NEW j \in 0..Len(m[k].flags), top = FlagsAt(m, k, j), top # WidthAt(m, k)
  PROVE  \E g : Moved(g) /\ Stage(g, m, k)
<1>1. IsDirective(m[k]) /\ Len(m[k].flags) \in Nat
  BY MessageIs, DirectiveTyped
<1>2. CASE j < Len(m[k].flags)
  <2>1. Moved(FlagsAt(m, k, j + 1))
    BY <1>1, <1>2, FlagStep
  <2>2. j + 1 \in 0..Len(m[k].flags)
    BY <1>1, <1>2
  <2> QED
    BY <2>1, <2>2 DEF Stage
<1>3. CASE ~(j < Len(m[k].flags))
  <2>1. j = Len(m[k].flags)
    BY <1>1, <1>3
  <2>2. m[k].width # <<>>
    BY <2>1, StagesMeet
  <2>3. Moved(WidthAt(m, k))
    BY <2>1, <2>2, WidthStep
  <2> QED
    BY <2>3 DEF Stage
<1> QED
  BY <1>2, <1>3

LEMMA LongAtStep ==
  ASSUME vprintfmt, NEW m, IsMessage(m), NEW k \in 1..Len(m), m[k].conv # "text",
         NEW j \in 0..m[k].l, top = LongAt(m, k, j), top # LongAt(m, k, m[k].l)
  PROVE  \E g : Moved(g) /\ Stage(g, m, k)
<1>1. m[k].l \in Nat
  BY MessageIs, DirectiveTyped
<1>2. j \in Nat /\ j < m[k].l /\ j + 1 \in 0..m[k].l
  <2>1. j # m[k].l
    OBVIOUS
  <2> QED
    BY <1>1, <2>1
<1>3. Moved(LongAt(m, k, j + 1))
  BY <1>2, LongStep
<1> QED
  BY <1>2, <1>3 DEF Stage

\* Before its conversion is read, a directive moves on and writes nothing.
LEMMA StageStep ==
  ASSUME vprintfmt, NEW m, IsMessage(m), NEW k \in 1..Len(m), m[k].conv # "text",
         Stage(top, m, k), top # LongAt(m, k, m[k].l)
  PROVE  \E g : Moved(g) /\ Stage(g, m, k)
<1>0. m[k].l \in Nat /\ 0 \in 0..m[k].l
  <2>1. m[k].l \in Nat
    BY MessageIs, DirectiveTyped
  <2> QED
    BY <2>1
<1>1. CASE top = WidthAt(m, k)
  <2>1. CASE m[k].prec = <<>>
    <3>1. top = LongAt(m, k, 0)
      BY <1>1, <2>1, StagesMeet
    <3> QED
      BY <1>0, <3>1, LongAtStep
  <2>2. CASE m[k].prec # <<>>
    <3>1. Moved(PointAt(m, k))
      BY <1>1, <2>2, PointStep
    <3> QED
      BY <2>2, <3>1 DEF Stage
  <2> QED
    BY <2>1, <2>2
<1>2. CASE m[k].prec # <<>> /\ top = PointAt(m, k)
  <2>1. CASE m[k].prec = <<".">>
    <3>1. top = LongAt(m, k, 0)
      BY <1>2, <2>1, StagesMeet
    <3> QED
      BY <1>0, <3>1, LongAtStep
  <2>2. CASE m[k].prec # <<".">>
    <3>1. Moved(LongAt(m, k, 0))
      BY <1>2, <2>2, PrecisionStep
    <3> QED
      BY <1>0, <3>1 DEF Stage
  <2> QED
    BY <2>1, <2>2
<1>3. CASE top # WidthAt(m, k) /\ \E j \in 0..Len(m[k].flags) : top = FlagsAt(m, k, j)
  BY <1>3, FlagsAtStep
<1>4. CASE \E j \in 0..m[k].l : top = LongAt(m, k, j)
  BY <1>4, LongAtStep
<1> QED
  BY <1>1, <1>2, <1>3, <1>4 DEF Stage

Wrote(g, chars) == frames' = <<g>> \o Tail(frames) /\ Put(chars)

\* What is left to read of a directive whose conversion is next.
LEMMA ConversionNext ==
  ASSUME NEW m, IsMessage(m), NEW k \in 1..Len(m), NEW d, d = m[k], d.conv # "text",
         top = LongAt(m, k, d.l)
  PROVE  /\ ch = d.conv
         /\ top.escape = TRUE
         /\ top.fmt = FormatOf(m)
         /\ top.ap = ArgsAt(m, k, Len(d.stars))
         /\ top.lflag = d.l
         /\ top.width = Settled(d) /\ top.precision = Precision(d)
         /\ top.padc = PadChar(d)
         /\ top.altflag = AltOf(d)
         /\ TakesArgument(d) => va_arg = d.arg
<1>1. PICK fmt, pos, ap, yes, padc, width, precision, lflag, alt :
        /\ fmt = FormatOf(m) /\ pos = PlaceOf(m, k, LongEnd(d))
        /\ ap = ArgsAt(m, k, Len(d.stars))
        /\ yes = TRUE
        /\ padc = PadChar(d) /\ width = Settled(d) /\ precision = Precision(d)
        /\ lflag = d.l
        /\ alt = AltOf(d)
  OBVIOUS
<1>2. top = FrameOf(fmt, pos, ap, yes, padc, width, precision, lflag, alt)
  BY <1>1 DEF LongAt, LongEnd
<1>3. /\ ch = CharAt(top, pos) /\ top.fmt = fmt /\ top.ap = ap /\ top.padc = padc
      /\ top.width = width /\ top.precision = precision /\ top.lflag = lflag
      /\ top.escape = yes
      /\ top.altflag = alt
  BY <1>2, TopReads
<1>4. ch = d.conv
  BY <1>1, <1>3, DirectiveChars
<1>5. ASSUME TakesArgument(d) PROVE va_arg = d.arg
  <2>1. PICK n \in Nat : n = Len(d.stars)
    BY MessageIs, DirectiveTyped
  <2>2. PICK s : s = ArgsOfDirective(d)
    OBVIOUS
  <2>3. Len(s) = n + 1 /\ s[n + 1] = d.arg
    BY <1>5, <2>1, <2>2, MessageIs, ArgsAre
  <2>4. n < Len(s)
    BY <2>1, <2>3
  <2>5. Head(ArgsAt(m, k, n)) = s[n + 1]
    BY <2>1, <2>2, <2>4, ArgAt
  <2> QED
    BY <1>1, <1>3, <2>1, <2>3, <2>5 DEF va_arg
<1> QED
  BY <1>1, <1>3, <1>4, <1>5


LEMMA ConversionRead ==
  ASSUME NEW m, IsMessage(m), NEW k \in 1..Len(m), NEW d, d = m[k], d.conv # "text",
         top = LongAt(m, k, d.l)
  PROVE  ch = d.conv
<1>1. PICK fmt, pos, ap, yes, padc, width, precision, lflag, alt :
        /\ fmt = FormatOf(m) /\ pos = PlaceOf(m, k, LongEnd(d))
        /\ ap = ArgsAt(m, k, Len(d.stars))
        /\ yes = TRUE
        /\ padc = PadChar(d) /\ width = Settled(d) /\ precision = Precision(d)
        /\ lflag = d.l
        /\ alt = AltOf(d)
  OBVIOUS
<1>2. top = FrameOf(fmt, pos, ap, yes, padc, width, precision, lflag, alt)
  BY <1>1 DEF LongAt, LongEnd
<1>3. ch = CharAt(top, pos) /\ top.fmt = fmt
  BY <1>2, TopReads
<1> QED
  BY <1>1, <1>3, DirectiveChars

\* Behind a conversion the next piece of the message begins.
LEMMA BehindConversion ==
  ASSUME NEW m, IsMessage(m), NEW k \in 1..Len(m), NEW d, d = m[k],
         d.conv # "text", d.conv # NUL
  PROVE  /\ PlaceOf(m, k, LongEnd(d)) \in Nat
         /\ PlaceOf(m, k, LongEnd(d)) + 1 = PlaceOf(m, k + 1, 0)
         /\ k + 1 \in 1..(Len(m) + 1) /\ (k + 1) - 1 = k
<1>1. IsDirective(d) /\ Len(m) \in Nat
  BY MessageIs
<1>2. PICK y \in Nat : y = LongEnd(d)
  BY <1>1, DirectiveTyped
<1>3. Len(FormatOfDirective(d)) = y + 1
  <2>1. PICK s : s = FormatOfDirective(d)
    OBVIOUS
  <2>2. Len(s) = y + (IF d.conv = NUL THEN 0 ELSE 1)
    BY <1>1, <1>2, <2>1, DirectiveText
  <2> QED
    BY <1>2, <2>1, <2>2
<1>4. PlaceOf(m, k, y) \in Nat /\ PlaceOf(m, k, y) + 1 = PlaceOf(m, k, y + 1)
  BY PlaceOne
<1>5. PlaceOf(m, k, y + 1) = PlaceOf(m, k + 1, 0)
  BY <1>3, PlaceNext
<1>6. k + 1 \in 1..(Len(m) + 1) /\ (k + 1) - 1 = k
  BY <1>1
<1> QED
  BY <1>2, <1>4, <1>5, <1>6

LEMMA ArgsBehind ==
  ASSUME NEW m, IsMessage(m), NEW k \in 1..Len(m), NEW d, d = m[k]
  PROVE  /\ TakesArgument(d) => Tail(ArgsAt(m, k, Len(d.stars))) = ArgsAt(m, k + 1, 0)
         /\ ~TakesArgument(d) => ArgsAt(m, k, Len(d.stars)) = ArgsAt(m, k + 1, 0)
<1>1. IsDirective(d)
  BY MessageIs
<1>2. PICK n \in Nat : n = Len(d.stars)
  BY <1>1, DirectiveTyped
<1>3. PICK s : s = ArgsOfDirective(d)
  OBVIOUS
<1>4. Len(s) = n + (IF TakesArgument(d) THEN 1 ELSE 0)
  BY <1>1, <1>2, <1>3, ArgsAre
<1>5. ArgsAt(m, k, Len(s)) = ArgsAt(m, k + 1, 0)
  BY <1>3, PlaceNext
<1>6. ASSUME TakesArgument(d) PROVE Tail(ArgsAt(m, k, n)) = ArgsAt(m, k + 1, 0)
  <2>1. Len(s) = n + 1 /\ n < Len(s)
    BY <1>4, <1>6
  <2>2. Tail(ArgsAt(m, k, n)) = ArgsAt(m, k, n + 1)
    BY <1>3, <2>1, ArgAt
  <2> QED
    BY <1>5, <2>1, <2>2
<1>7. ASSUME ~TakesArgument(d) PROVE ArgsAt(m, k, n) = ArgsAt(m, k + 1, 0)
  <2>1. Len(s) = n
    BY <1>4, <1>7
  <2> QED
    BY <1>5, <2>1
<1> QED
  BY <1>2, <1>6, <1>7

LEMMA ConvertedPlace ==
  ASSUME NEW m, IsMessage(m), NEW k \in 1..Len(m), NEW d, d = m[k],
         d.conv # "text", d.conv # NUL, TakesArgument(d), top = LongAt(m, k, d.l)
  PROVE  Between(Converted, m, k + 1, TextTo(m)[k])
<1>1. PICK fmt, pos, ap, yes, padc, width, precision, lflag, alt :
        /\ fmt = FormatOf(m) /\ pos = PlaceOf(m, k, LongEnd(d))
        /\ ap = ArgsAt(m, k, Len(d.stars))
        /\ yes = TRUE
        /\ padc = PadChar(d) /\ width = Settled(d) /\ precision = Precision(d)
        /\ lflag = d.l
        /\ alt = AltOf(d)
  OBVIOUS
<1>2. top = FrameOf(fmt, pos, ap, yes, padc, width, precision, lflag, alt)
  BY <1>1 DEF LongAt, LongEnd
<1>3. /\ pos \in Nat /\ pos + 1 = PlaceOf(m, k + 1, 0)
      /\ k + 1 \in 1..(Len(m) + 1) /\ (k + 1) - 1 = k
  BY <1>1, BehindConversion
<1>4. Converted = FrameOf(fmt, pos + 1, Tail(ap), FALSE, padc, width, precision, lflag, alt)
  BY <1>2, <1>3, ConvertedIs
<1>5. Tail(ap) = ArgsAt(m, k + 1, 0)
  BY <1>1, ArgsBehind
<1>6. PlainFrame(Converted, m, PlaceOf(m, k + 1, 0), ArgsAt(m, k + 1, 0))
  BY <1>1, <1>3, <1>4, <1>5 DEF PlainFrame
<1> QED
  BY <1>3, <1>6 DEF Between

LEMMA PercentPlace ==
  ASSUME NEW m, IsMessage(m), NEW k \in 1..Len(m), NEW d, d = m[k],
         d.conv = "%", top = LongAt(m, k, d.l), NEW g, g = [Skipping(top) EXCEPT !.escape = FALSE]
  PROVE  Between(g, m, k + 1, TextTo(m)[k])
<1>1. PICK fmt, pos, ap, yes, padc, width, precision, lflag, alt :
        /\ fmt = FormatOf(m) /\ pos = PlaceOf(m, k, LongEnd(d))
        /\ ap = ArgsAt(m, k, Len(d.stars))
        /\ yes = TRUE
        /\ padc = PadChar(d) /\ width = Settled(d) /\ precision = Precision(d)
        /\ lflag = d.l
        /\ alt = AltOf(d)
  OBVIOUS
<1>2. top = FrameOf(fmt, pos, ap, yes, padc, width, precision, lflag, alt)
  BY <1>1 DEF LongAt, LongEnd
<1>3. /\ pos \in Nat /\ pos + 1 = PlaceOf(m, k + 1, 0)
      /\ k + 1 \in 1..(Len(m) + 1) /\ (k + 1) - 1 = k
  <2>1. d.conv # "text" /\ d.conv # NUL
    BY DEF NUL
  <2> QED
    BY <1>1, <2>1, BehindConversion
<1>4. PICK s, p, no : s = Skipping(top) /\ p = pos + 1 /\ no = FALSE
  OBVIOUS
<1>5. s = FrameOf(fmt, p, ap, yes, padc, width, precision, lflag, alt)
  BY <1>2, <1>3, <1>4, SkippingIs
<1>6. [s EXCEPT !.escape = no] = FrameOf(fmt, p, ap, no, padc, width, precision, lflag, alt)
  BY <1>5 DEF FrameOf
<1>7. ap = ArgsAt(m, k + 1, 0)
  <2>1. ~TakesArgument(d)
    BY DEF TakesArgument
  <2> QED
    BY <1>1, <2>1, ArgsBehind
<1>8. g = FrameOf(fmt, p, ap, FALSE, padc, width, precision, lflag, alt)
  BY <1>4, <1>6
<1>9. PlainFrame(g, m, PlaceOf(m, k + 1, 0), ArgsAt(m, k + 1, 0))
  <2>1. p = PlaceOf(m, k + 1, 0) /\ fmt = FormatOf(m)
    BY <1>1, <1>3, <1>4
  <2>2. g = FrameOf(FormatOf(m), PlaceOf(m, k + 1, 0), ArgsAt(m, k + 1, 0), FALSE, padc,
                    width, precision, lflag, alt)
    BY <1>7, <1>8, <2>1
  <2> QED
    BY <2>2, PlainFrameIs
<1> QED
  BY <1>3, <1>9 DEF Between

LEMMA ConvertWrites ==
  ASSUME NEW m, IsMessage(m), NEW k \in 1..Len(m), NEW d, d = m[k],
         d.conv # "text", d.conv # NUL, TakesArgument(d), top = LongAt(m, k, d.l),
         NEW c, NEW chars, Convert(c, chars), chars = Rendered(d)
  PROVE  \E g : Wrote(g, Rendered(d)) /\ Between(g, m, k + 1, TextTo(m)[k])
<1>1. Between(Converted, m, k + 1, TextTo(m)[k])
  BY ConvertedPlace
<1>2. Wrote(Converted, Rendered(d))
  BY DEF Convert, Goto, Wrote
<1> QED
  BY <1>1, <1>2

\* Every conversion but that of an error code prints what Rendered says.
LEMMA ConversionWrites ==
  ASSUME vprintfmt, NEW m, IsMessage(m), NEW k \in 1..Len(m), NEW d, d = m[k],
         d.conv \in Known \ {"text", "e"}, top = LongAt(m, k, d.l)
  PROVE  \E g : Wrote(g, Rendered(d)) /\ Between(g, m, k + 1, TextTo(m)[k])
<1>1. IsDirective(d) /\ d.l \in Nat
  BY MessageIs, DirectiveTyped
<1>2. d.conv # "text" /\ d.conv # NUL
  BY DEF Known, NUL
<1>3. /\ ch = d.conv /\ top.escape = TRUE /\ top.lflag = d.l
      /\ top.width = Settled(d) /\ top.precision = Precision(d)
      /\ top.padc = PadChar(d)
      /\ top.altflag = AltOf(d)
      /\ TakesArgument(d) => va_arg = d.arg
  <2>1. ch = d.conv /\ top.lflag = d.l /\ top.padc = PadChar(d)
    <3>1. ch = d.conv
      BY <1>2, ConversionRead
    <3>2. top.lflag = d.l
      BY <1>2, ConversionNext
    <3>3. top.padc = PadChar(d)
      BY <1>2, ConversionNext
    <3> QED
      BY <3>1, <3>2, <3>3
  <2>5. top.width = Settled(d) /\ top.precision = Precision(d)
    <3>1. top.width = Settled(d)
      BY <1>2, ConversionNext
    <3>2. top.precision = Precision(d)
      BY <1>2, ConversionNext
    <3> QED
      BY <3>1, <3>2
  <2>2. top.escape = TRUE
    BY <1>2, ConversionNext
  <2>3. top.altflag = AltOf(d)
    BY <1>2, ConversionNext
  <2>4. TakesArgument(d) => va_arg = d.arg
    BY <1>2, ConversionNext
  <2> QED
    BY <2>1, <2>2, <2>3, <2>4, <2>5
<1>4. PICK u, v : v = Signed(d.arg, Bits(d.l)) /\ u = Unsigned(d.arg, Bits(d.l))
  OBVIOUS
<1>5. ASSUME d.conv \in {"d", "u", "o", "x"}
      PROVE  /\ TakesArgument(d) /\ va_arg = d.arg
             /\ v \in Int /\ v < Powers(2)[LongBits] /\ -v < Powers(2)[LongBits]
             /\ u \in Nat /\ u < Powers(2)[LongBits]
             /\ getuint(va_arg, top.lflag) = u
             /\ getint(va_arg, top.lflag) = v
  <2>1. d.arg \in Int
    BY <1>1, <1>5 DEF IsDirective, ArgumentFits
  <2>2. TakesArgument(d)
    BY <1>5 DEF TakesArgument
  <2> QED
    BY <1>1, <1>3, <1>4, <2>1, <2>2, GetuintIs, GetintIs
<1>6. \A base \in 2..16, w \in Nat :
        w < Powers(2)[LongBits] => Printed(w, base) = PaddedNumber(d, Numeral(w, base))
  BY <1>1, NumberText
<1>7. 10 \in 2..16 /\ 8 \in 2..16 /\ 16 \in 2..16
  OBVIOUS
<1>8. CASE d.conv = "c"
  <2>1. TakesArgument(d)
    BY <1>8 DEF TakesArgument
  <2>2. Convert("c", <<va_arg>>)
    BY <1>3, <1>8, EscapeActions DEF CharConversion
  <2>3. <<va_arg>> = Rendered(d)
    BY <1>3, <1>8, <2>1, RenderedIs
  <2> QED
    BY <1>2, <2>1, <2>2, <2>3, ConvertWrites
<1>9. CASE d.conv = "s"
  <2>1. TakesArgument(d)
    BY <1>9 DEF TakesArgument
  <2>2. PICK p, alt : p = StringOf(d) /\ alt = AltOf(d)
    OBVIOUS
  <2>3. StringConversion
    BY <1>3, <1>9, EscapeActions
  <2>4. Convert("s", StringPut(IF va_arg = NullPointer THEN <<"(", "n", "u", "l", "l", ")">>
                                                       ELSE va_arg,
                               top.width, top.precision, top.padc, top.altflag))
    BY <2>3, Zenon DEF StringConversion, StringPut
  <2>5. StringPut(p, Settled(d), Precision(d), PadChar(d), alt) = StringField(d)
    <3>1. alt <=> Contains(d.flags, "#")
      BY <1>1, <2>2, AfterFlags DEF AltOf
    <3> QED
      BY <1>1, <1>9, <2>2, <3>1, StringText
  <2>6. p = IF va_arg = NullPointer THEN <<"(", "n", "u", "l", "l", ")">> ELSE va_arg
    BY <1>3, <2>1, <2>2 DEF StringOf
  <2>7. Convert("s", StringField(d))
    BY <1>3, <2>2, <2>4, <2>5, <2>6
  <2>8. Rendered(d) = StringField(d)
    BY <1>9, RenderedIs
  <2> QED
    BY <1>2, <2>1, <2>7, <2>8, ConvertWrites
<1>10. CASE d.conv = "d"
  <2>1. Convert("d", IF v < 0 THEN <<"-">> \o Printed(-v, 10) ELSE Printed(v, 10))
    BY <1>3, <1>5, <1>10, EscapeActions DEF DecimalConversion
  <2>2. CASE v < 0
    <3>1. Convert("d", <<"-">> \o Printed(-v, 10))
      BY <2>1, <2>2
    <3>2. Printed(-v, 10) = PaddedNumber(d, Numeral(-v, 10))
      <4>1. PICK w \in Nat : w = -v /\ w < Powers(2)[LongBits]
        BY <1>5, <1>10, <2>2
      <4> QED
        BY <1>6, <1>7, <4>1
    <3>3. Rendered(d) = <<"-">> \o PaddedNumber(d, Numeral(-v, 10))
      BY <1>4, <1>5, <1>10, <2>2, RenderedIs
    <3> QED
      BY <1>2, <1>5, <1>10, <3>1, <3>2, <3>3, ConvertWrites
  <2>3. CASE ~(v < 0)
    <3>1. Convert("d", Printed(v, 10))
      BY <2>1, <2>3
    <3>2. Printed(v, 10) = PaddedNumber(d, Numeral(v, 10))
      <4>1. v \in Nat /\ v < Powers(2)[LongBits]
        BY <1>5, <1>10, <2>3
      <4> QED
        BY <1>6, <1>7, <4>1
    <3>3. Rendered(d) = PaddedNumber(d, Numeral(v, 10))
      BY <1>4, <1>5, <1>10, <2>3, RenderedIs
    <3> QED
      BY <1>2, <1>5, <1>10, <3>1, <3>2, <3>3, ConvertWrites
  <2> QED
    BY <2>2, <2>3
<1>11. CASE d.conv = "u"
  <2>1. Convert("u", Printed(u, 10))
    BY <1>3, <1>5, <1>11, EscapeActions DEF UnsignedConversion
  <2>2. Printed(u, 10) = Rendered(d)
    <3>1. u \in Nat /\ u < Powers(2)[LongBits]
      BY <1>5, <1>11
    <3>2. Printed(u, 10) = PaddedNumber(d, Numeral(u, 10))
      BY <1>6, <1>7, <3>1
    <3>3. Rendered(d) = PaddedNumber(d, Numeral(u, 10))
      BY <1>4, <1>11, RenderedIs
    <3> QED
      BY <3>2, <3>3
  <2> QED
    BY <1>2, <1>5, <1>11, <2>1, <2>2, ConvertWrites
<1>12. CASE d.conv = "o"
  <2>1. Convert("o", Printed(u, 8))
    BY <1>3, <1>5, <1>12, EscapeActions DEF OctalConversion
  <2>2. Printed(u, 8) = Rendered(d)
    <3>1. u \in Nat /\ u < Powers(2)[LongBits]
      BY <1>5, <1>12
    <3>2. Printed(u, 8) = PaddedNumber(d, Numeral(u, 8))
      BY <1>6, <1>7, <3>1
    <3>3. Rendered(d) = PaddedNumber(d, Numeral(u, 8))
      BY <1>4, <1>12, RenderedIs
    <3> QED
      BY <3>2, <3>3
  <2> QED
    BY <1>2, <1>5, <1>12, <2>1, <2>2, ConvertWrites
<1>13. CASE d.conv = "x"
  <2>1. Convert("x", Printed(u, 16))
    BY <1>3, <1>5, <1>13, EscapeActions DEF HexConversion
  <2>2. Printed(u, 16) = Rendered(d)
    <3>1. u \in Nat /\ u < Powers(2)[LongBits]
      BY <1>5, <1>13
    <3>2. Printed(u, 16) = PaddedNumber(d, Numeral(u, 16))
      BY <1>6, <1>7, <3>1
    <3>3. Rendered(d) = PaddedNumber(d, Numeral(u, 16))
      BY <1>4, <1>13, RenderedIs
    <3> QED
      BY <3>2, <3>3
  <2> QED
    BY <1>2, <1>5, <1>13, <2>1, <2>2, ConvertWrites
<1>14. CASE d.conv = "p"
  <2>1. TakesArgument(d)
    BY <1>14 DEF TakesArgument
  <2>2. Convert("p", <<"0", "x">> \o Printed(d.arg, 16))
    BY <1>3, <1>14, <2>1, EscapeActions DEF PointerConversion
  <2>3. Printed(d.arg, 16) = PaddedNumber(d, Numeral(d.arg, 16))
    <3>1. d.arg \in 0..(Powers(2)[LongBits] - 1)
      BY <1>1, <1>14 DEF IsDirective, ArgumentFits
    <3>2. PICK e \in Nat : e = Powers(2)[LongBits]
      BY IntIs
    <3>3. d.arg \in Nat /\ d.arg < e
      BY <3>1, <3>2
    <3> QED
      BY <1>6, <1>7, <3>2, <3>3
  <2>4. Rendered(d) = <<"0", "x">> \o PaddedNumber(d, Numeral(d.arg, 16))
    BY <1>14, RenderedIs
  <2> QED
    BY <1>2, <2>1, <2>2, <2>3, <2>4, ConvertWrites
<1>15. CASE d.conv = "%"
  <2>1. PICK g : g = [Skipping(top) EXCEPT !.escape = FALSE]
    OBVIOUS
  <2>2. Between(g, m, k + 1, TextTo(m)[k])
    BY <1>15, <2>1, PercentPlace
  <2>3. Put(<<"%">>) /\ Goto([Skipping(top) EXCEPT !.escape = FALSE])
    BY <1>3, <1>15, EscapeActions DEF PercentConversion
  <2>4. Rendered(d) = <<"%">>
    BY <1>15, RenderedIs
  <2>5. Wrote(g, Rendered(d))
    BY <2>1, <2>3, <2>4 DEF Wrote, Goto
  <2> QED
    BY <2>2, <2>5
<1> QED
  BY <1>8, <1>9, <1>10, <1>11, <1>12, <1>13, <1>14, <1>15 DEF Known


\* The call of vprintfmt that prints the error code e.
CallFor(e) ==
  IF e > MAXERROR \/ e = 0 THEN Frame(<<"error ", "%", "d">>, <<e>>)
                           ELSE Frame(<<"%", "s">>, <<error_string[e]>>)

\* What printing the error code of the directive d, the k-th piece of m, begins with.
ErrorCalled(m, k, d) ==
  \E g, e :
    /\ frames' = <<CallFor(e), g>> \o Tail(frames) /\ UNCHANGED <<sink, console>>
    /\ e \in Nat /\ e < Powers(2)[IntBits - 1]
    /\ Between(g, m, k + 1, TextTo(m)[k]) /\ Rendered(d) = ErrorText(e)

LEMMA ErrorCalls ==
  ASSUME vprintfmt, NEW m, IsMessage(m), NEW k \in 1..Len(m), NEW d, d = m[k],
         d.conv = "e", top = LongAt(m, k, d.l)
  PROVE  ErrorCalled(m, k, d)
<1>1. IsDirective(d)
  BY MessageIs
<1>2. d.conv # "text" /\ d.conv # NUL /\ TakesArgument(d)
  BY DEF NUL, TakesArgument
<1>3. ch = d.conv
  BY <1>2, ConversionRead
<1>4. top.escape = TRUE
  BY <1>2, ConversionNext
<1>5. va_arg = d.arg
  BY <1>2, ConversionNext
<1>6. PICK e : e = CodeOf(d)
  OBVIOUS
<1>7. e \in Nat /\ e < Powers(2)[IntBits - 1]
  BY <1>1, <1>6, CodeIs
<1>8. ErrorConversion
  BY <1>3, <1>4, EscapeActions
<1>9. frames' = <<CallFor(e), Converted>> \o Tail(frames) /\ UNCHANGED <<sink, console>>
  BY <1>5, <1>6, <1>8 DEF ErrorConversion, CallFor, CodeOf
<1>10. Between(Converted, m, k + 1, TextTo(m)[k])
  BY <1>2, ConvertedPlace
<1>11. Rendered(d) = ErrorText(e)
  BY <1>6, RenderedIs DEF CodeOf
<1> QED
  BY <1>7, <1>9, <1>10, <1>11 DEF ErrorCalled

LEMMA Difference ==
  ASSUME NEW a \in Nat, NEW b \in Nat, NEW c \in Nat, a <= b, b < a + c
  PROVE  \E y \in Nat : b = a + y /\ y < c
<1>1. PICK y : y = b - a
  OBVIOUS
<1>2. y \in Nat /\ b = a + y /\ y < c
  BY <1>1
<1> QED
  BY <1>2

\* Nothing in a directive but its first character, and its conversion, is a '%',
\* and no NUL is in it.
LEMMA NoPercent ==
  ASSUME NEW m, IsMessage(m), NEW k \in 1..Len(m), NEW d, d = m[k], d.conv # "text",
         NEW f, f.fmt = FormatOf(m), NEW x \in Nat, 1 <= x, x < LongEnd(d)
  PROVE  f.fmt[PlaceOf(m, k, x)] \notin {"%", NUL}
<1>1. IsDirective(d)
  BY MessageIs
<1>2. PICK fl, wi, pr, le :
        /\ fl \in Nat /\ wi \in Nat /\ pr \in Nat /\ le \in Nat
        /\ fl = Len(d.flags) /\ wi = Len(d.width) /\ pr = Len(d.prec) /\ le = d.l
  BY <1>1, DirectiveTyped
<1>3. PICK fe \in Nat, we \in Nat, pe \in Nat :
        /\ fe = FlagsEnd(d) /\ fe = 1 + fl
        /\ we = WidthEnd(d) /\ we = fe + wi
        /\ pe = PrecEnd(d) /\ pe = we + pr
        /\ LongEnd(d) = pe + le
  BY <1>1, <1>2, DirectiveTyped DEF FlagsEnd, WidthEnd, PrecEnd, LongEnd
<1>4. Decimal \cap {"%", NUL} = {}
  BY DecimalIs DEF NUL
<1>5. CASE x < fe
  <2>1. PICK y \in Nat : y = x - 1 /\ y < fl /\ x = 1 + y /\ y + 1 \in 1..fl
    BY <1>2, <1>3, <1>5
  <2>2. f.fmt[PlaceOf(m, k, x)] = d.flags[y + 1]
    BY <1>2, <2>1, DirectiveChars
  <2>3. d.flags \in Seq({"-", "0", "#"})
    BY <1>1 DEF IsDirective
  <2>4. d.flags[y + 1] \in {"-", "0", "#"}
    BY <1>2, <2>1, <2>3, ElementOfSeq
  <2> QED
    BY <2>2, <2>4 DEF NUL
<1>6. CASE fe <= x /\ x < we
  <2>1. PICK y \in Nat : x = fe + y /\ y < wi
    <3>1. fe <= x /\ x < fe + wi
      BY <1>2, <1>3, <1>6
    <3> QED
      BY <1>2, <1>3, <3>1, Difference
  <2>a. y + 1 \in 1..wi
    BY <1>2, <2>1
  <2>2. f.fmt[PlaceOf(m, k, x)] = d.width[y + 1]
    <3>1. y < Len(d.width)
      BY <1>2, <2>1
    <3>2. x = FlagsEnd(d) + y
      BY <1>3, <2>1
    <3>3. f.fmt[PlaceOf(m, k, FlagsEnd(d) + y)] = d.width[y + 1]
      BY <3>1, DirectiveChars
    <3> QED
      BY <3>2, <3>3
  <2>3. d.width = <<"*">> \/ IsNumber(d.width)
    <3>1. d.width # <<>>
      BY <1>2, <2>1
    <3> QED
      BY <1>1, <3>1, WidthIs
  <2>4. CASE d.width = <<"*">>
    <3>1. d.width \in Seq({"*"})
      BY <2>4
    <3>2. d.width[y + 1] \in {"*"}
      BY <1>2, <2>a, <3>1, ElementOfSeq
    <3> QED
      BY <2>2, <3>2 DEF NUL
  <2>5. CASE IsNumber(d.width)
    <3>1. d.width[y + 1] \in Decimal
      BY <1>2, <2>a, <2>5, ElementOfSeq DEF IsNumber
    <3> QED
      BY <1>4, <2>2, <3>1
  <2> QED
    BY <2>3, <2>4, <2>5
<1>7. CASE we <= x /\ x < pe
  <2>1. PICK y \in Nat : x = we + y /\ y < pr
    <3>1. we <= x /\ x < we + pr
      BY <1>2, <1>3, <1>7
    <3> QED
      BY <1>2, <1>3, <3>1, Difference
  <2>a. y + 1 \in 1..pr
    BY <1>2, <2>1
  <2>2. f.fmt[PlaceOf(m, k, x)] = d.prec[y + 1]
    <3>1. y < Len(d.prec)
      BY <1>2, <2>1
    <3>2. x = WidthEnd(d) + y
      BY <1>3, <2>1
    <3>3. f.fmt[PlaceOf(m, k, WidthEnd(d) + y)] = d.prec[y + 1]
      BY <3>1, DirectiveChars
    <3> QED
      BY <3>2, <3>3
  <2>3. d.prec \in Seq({".", "*"} \cup Decimal)
    <3>1. \/ d.prec \in {<<>>, <<".">>, <<".", "*">>}
          \/ d.prec \in Seq({"."} \cup Decimal)
      BY <1>1 DEF IsDirective
    <3>2. <<>> \in Seq({".", "*"}) /\ <<".">> \in Seq({".", "*"})
          /\ <<".", "*">> \in Seq({".", "*"})
      OBVIOUS
    <3>3. \A W : Seq({".", "*"}) \subseteq Seq({".", "*"} \cup W)
      OBVIOUS
    <3>4. Seq({"."} \cup Decimal) \subseteq Seq({".", "*"} \cup Decimal)
      OBVIOUS
    <3> QED
      BY <3>1, <3>2, <3>3, <3>4
  <2>4. d.prec[y + 1] \in {".", "*"} \cup Decimal
    BY <1>2, <2>a, <2>3, ElementOfSeq
  <2> QED
    BY <1>4, <2>2, <2>4 DEF NUL
<1>8. CASE pe <= x
  <2>1. PICK y \in Nat : x = pe + y /\ y < le
    <3>1. pe <= x /\ x < pe + le
      BY <1>2, <1>3, <1>8
    <3> QED
      BY <1>2, <1>3, <3>1, Difference
  <2>2. f.fmt[PlaceOf(m, k, x)] = "l"
    <3>1. y < d.l
      BY <1>2, <2>1
    <3>2. x = PrecEnd(d) + y
      BY <1>3, <2>1
    <3>3. f.fmt[PlaceOf(m, k, PrecEnd(d) + y)] = "l"
      BY <3>1, DirectiveChars
    <3> QED
      BY <3>2, <3>3
  <2> QED
    BY <2>2 DEF NUL
<1> QED
  BY <1>2, <1>5, <1>6, <1>7, <1>8


\* The '%' that UnknownConversion goes back to is that of its directive.
LEMMA PercentFound ==
  ASSUME NEW m, IsMessage(m), NEW k \in 1..Len(m), NEW d, d = m[k], d.conv # "text",
         NEW f, f.fmt = FormatOf(m), NEW e, e = PlaceOf(m, k, LongEnd(d))
  PROVE  (CHOOSE p \in 1..(e - 1) : /\ f.fmt[p] = "%"
                                    /\ \A q \in (p + 1)..(e - 1) : f.fmt[q] # "%")
           = PlaceOf(m, k, 0)
<1>1. PICK le \in Nat : le = LongEnd(d) /\ 1 <= le
  <2>1. LongEnd(d) \in Nat /\ 1 <= LongEnd(d)
    <3>1. PICK a \in Nat, b \in Nat, c \in Nat, h \in Nat :
            /\ a = FlagsEnd(d) /\ b = WidthEnd(d) /\ c = PrecEnd(d) /\ h = LongEnd(d)
            /\ 1 <= a /\ a <= b /\ b <= c /\ c <= h
      BY MessageIs, DirectiveTyped
    <3>2. 1 <= h
      BY <3>1
    <3> QED
      BY <3>1, <3>2
  <2> QED
    BY <2>1
<1>2. PICK p0 \in Nat \ {0} : p0 = PlaceOf(m, k, 0)
  BY PlaceOne
<1>3. \A x \in Nat : p0 + x = PlaceOf(m, k, x)
  <2>1. TAKE x \in Nat
  <2>2. k \in 1..(Len(m) + 1)
    BY MessageIs
  <2>3. PlaceOf(m, k, 0) + x = PlaceOf(m, k, 0 + x)
    BY <2>2, PlaceMoves
  <2>4. 0 + x = x
    OBVIOUS
  <2> QED
    BY <1>2, <2>3, <2>4
<1>4. e = p0 + le
  BY <1>1, <1>3
<1>5. f.fmt[p0] = "%"
  BY <1>2, DirectiveChars
<1>6. ASSUME NEW q \in (p0 + 1)..(e - 1) PROVE f.fmt[q] # "%"
  <2>1. p0 <= q /\ q < p0 + le /\ q \in Nat
    BY <1>1, <1>2, <1>4
  <2>2. PICK x \in Nat : q = p0 + x /\ x < le
    BY <1>1, <1>2, <2>1, Difference
  <2>3. 1 <= x
    BY <1>2, <1>6, <2>2
  <2>4. x < LongEnd(d)
    BY <1>1, <2>2
  <2>5. f.fmt[PlaceOf(m, k, x)] \notin {"%", NUL}
    BY <2>3, <2>4, NoPercent
  <2> QED
    BY <1>3, <2>2, <2>5
<1>7. p0 \in 1..(e - 1)
  BY <1>1, <1>2, <1>4
<1>8. ASSUME NEW p \in 1..(e - 1), f.fmt[p] = "%",
             \A q \in (p + 1)..(e - 1) : f.fmt[q] # "%"
      PROVE  p = p0
  <2>1. ~(p < p0)
    <3>1. SUFFICES ASSUME p < p0 PROVE FALSE
      OBVIOUS
    <3>2. p0 \in (p + 1)..(e - 1)
      BY <1>1, <1>2, <1>4, <3>1
    <3> QED
      BY <1>5, <1>8, <3>2
  <2>2. ~(p0 < p)
    <3>1. SUFFICES ASSUME p0 < p PROVE FALSE
      OBVIOUS
    <3>2. p \in (p0 + 1)..(e - 1)
      BY <1>1, <1>2, <1>4, <3>1
    <3> QED
      BY <1>6, <1>8, <3>2
  <2> QED
    BY <1>2, <2>1, <2>2
<1> DEFINE Last0(p) == f.fmt[p] = "%" /\ \A q \in (p + 1)..(e - 1) : f.fmt[q] # "%"
<1>9. Last0(p0) /\ \A p \in 1..(e - 1) : Last0(p) => p = p0
  BY <1>5, <1>6, <1>8
<1> HIDE DEF Last0
<1>10. (CHOOSE p \in 1..(e - 1) : Last0(p)) = p0
  BY <1>7, <1>9
<1> QED
  BY <1>2, <1>10 DEF Last0

LEMMA UnknownPrints ==
  ASSUME vprintfmt, NEW m, IsMessage(m), NEW k \in 1..Len(m), NEW d, d = m[k],
         d.conv \notin Known, top = LongAt(m, k, d.l)
  PROVE  \E g : /\ Wrote(g, <<"%">>)
                /\ PlainFrame(g, m, PlaceOf(m, k, 1), ArgsAt(m, k, Len(d.stars)))
<1>1. d.conv # "text" /\ d.conv # "%"
  BY DEF Known
<1>2. IsDirective(d)
  BY MessageIs
<1>3. ch = d.conv
  BY <1>1, ConversionRead
<1>4. top.escape = TRUE
  BY <1>1, ConversionNext
<1>5. d.conv \notin Reserved
  BY <1>2 DEF IsDirective, Known, Reserved
<1>6. UnknownConversion
  BY <1>3, <1>4, <1>5, EscapeActions
<1>7. PICK fmt, pos, ap, yes, padc, width, precision, lflag, alt :
        /\ fmt = FormatOf(m) /\ pos = PlaceOf(m, k, LongEnd(d))
        /\ ap = ArgsAt(m, k, Len(d.stars))
        /\ yes = TRUE
        /\ padc = PadChar(d) /\ width = Settled(d) /\ precision = Precision(d)
        /\ lflag = d.l
        /\ alt = AltOf(d)
  OBVIOUS
<1>8. PICK f : f = top
  OBVIOUS
<1>9. f = FrameOf(fmt, pos, ap, yes, padc, width, precision, lflag, alt)
  BY <1>7, <1>8 DEF LongAt, LongEnd
<1>10. f.fmt = FormatOf(m) /\ f.pos = pos
  <2>1. f.fmt = fmt /\ f.pos = pos
    BY <1>9 DEF FrameOf
  <2> QED
    BY <1>7, <2>1
<1>11. PICK no, p : /\ no = FALSE
                    /\ p = 1 + CHOOSE x \in 1..(f.pos - 1) :
                                 /\ f.fmt[x] = "%"
                                 /\ \A q \in (x + 1)..(f.pos - 1) : f.fmt[q] # "%"
  OBVIOUS
<1>12. p = PlaceOf(m, k, 1)
  <2>1. (CHOOSE x \in 1..(f.pos - 1) : /\ f.fmt[x] = "%"
                                       /\ \A q \in (x + 1)..(f.pos - 1) : f.fmt[q] # "%")
          = PlaceOf(m, k, 0)
    BY <1>1, <1>7, <1>10, PercentFound
  <2>2. PlaceOf(m, k, 0) \in Nat /\ PlaceOf(m, k, 0) + 1 = PlaceOf(m, k, 0 + 1)
    BY PlaceOne
  <2>3. PICK y \in Nat : y = PlaceOf(m, k, 0)
    BY <2>2
  <2>4. 1 + y = y + 1 /\ 0 + 1 = 1
    BY <2>3
  <2> QED
    BY <1>11, <2>1, <2>2, <2>3, <2>4
<1>13. PICK g : g = [f EXCEPT !.escape = no, !.pos = p]
  OBVIOUS
<1>14. g = FrameOf(fmt, p, ap, no, padc, width, precision, lflag, alt)
  <2>1. PICK s : s = [f EXCEPT !.escape = no]
    OBVIOUS
  <2>2. s = FrameOf(fmt, pos, ap, no, padc, width, precision, lflag, alt)
    BY <1>9, <2>1 DEF FrameOf
  <2>3. [s EXCEPT !.pos = p] = FrameOf(fmt, p, ap, no, padc, width, precision, lflag, alt)
    BY <2>2 DEF FrameOf
  <2> QED
    BY <1>13, <2>1, <2>3, SetTwo
<1>15. Put(<<"%">>) /\ Goto(g)
  BY <1>6, <1>8, <1>11, <1>13 DEF UnknownConversion
<1>16. Wrote(g, <<"%">>)
  BY <1>15 DEF Wrote, Goto
<1>17. g = FrameOf(FormatOf(m), p, ap, FALSE, padc, width, precision, lflag, alt)
  BY <1>7, <1>11, <1>14
<1>18. PlainFrame(g, m, p, ap)
  BY <1>17, PlainFrameIs
<1> QED
  BY <1>7, <1>12, <1>16, <1>18


\* A frame in no directive reads what its message has there.
LEMMA PlainReads ==
  ASSUME NEW m, NEW pos \in Nat, NEW ap, PlainFrame(top, m, pos, ap)
  PROVE  /\ ch = CharAt(top, pos) /\ top.fmt = FormatOf(m)
         /\ top.escape = FALSE
         /\ PlainFrame(Skipping(top), m, pos + 1, ap)
<1>1. PICK padc, width, precision, lflag, altflag :
        top = FrameOf(FormatOf(m), pos, ap, FALSE, padc, width, precision, lflag, altflag)
  BY DEF PlainFrame
<1>2. PICK fmt, no : fmt = FormatOf(m) /\ no = FALSE
  OBVIOUS
<1>3. top = FrameOf(fmt, pos, ap, no, padc, width, precision, lflag, altflag)
  BY <1>1, <1>2
<1>4. ch = CharAt(top, pos) /\ top.fmt = fmt /\ top.escape = no
  BY <1>3, TopReads
<1>5. Skipping(top) = FrameOf(fmt, pos + 1, ap, no, padc, width, precision, lflag, altflag)
  BY <1>3, SkippingIs
<1>6. PlainFrame(Skipping(top), m, pos + 1, ap)
  BY <1>2, <1>5, PlainFrameIs
<1>7. top.escape = FALSE
  BY <1>2, <1>4
<1> QED
  BY <1>2, <1>4, <1>6, <1>7

LEMMA LiteralWrites ==
  ASSUME vprintfmt, NEW m, NEW pos \in Nat, NEW ap, PlainFrame(top, m, pos, ap),
         NEW c, c = CharAt(top, pos), c \notin {"%", NUL}
  PROVE  \E g : Wrote(g, <<c>>) /\ PlainFrame(g, m, pos + 1, ap)
<1>1. ch = c /\ top.escape = FALSE
  BY PlainReads
<1>2. Literal
  BY <1>1, PlainActions
<1>3. Wrote(Skipping(top), <<c>>)
  BY <1>1, <1>2 DEF Literal, Wrote, Goto
<1> QED
  BY <1>3, PlainReads

LEMMA TextWrites ==
  ASSUME vprintfmt, NEW m, IsMessage(m), NEW k \in 1..Len(m), NEW d, d = m[k],
         d.conv = "text", NEW out, Between(top, m, k, out)
  PROVE  \E g : Wrote(g, Rendered(d)) /\ Between(g, m, k + 1, TextTo(m)[k])
<1>1. /\ IsDirective(d) /\ Len(m) \in Nat
      /\ PlainFrame(top, m, PlaceOf(m, k, 0), ArgsAt(m, k, 0))
  BY MessageIs DEF Between
<1>2. d.arg \notin {"%", NUL} /\ d.stars = <<>> /\ FormatOfDirective(d) = <<d.arg>>
      /\ ~TakesArgument(d) /\ Rendered(d) = <<d.arg>>
  BY <1>1, RenderedIs DEF IsDirective, ArgumentFits, FormatOfDirective, TakesArgument
<1>3. PlaceOf(m, k, 0) \in Nat /\ PlaceOf(m, k, 0) + 1 = PlaceOf(m, k, 0 + 1)
  BY PlaceOne
<1>4. top.fmt = FormatOf(m)
  BY <1>1, <1>3, PlainReads
<1>5. CharAt(top, PlaceOf(m, k, 0)) = d.arg
  <2>1. PICK s : s = FormatOfDirective(d)
    OBVIOUS
  <2>2. Len(s) = 1 /\ s[1] = d.arg
    BY <1>2, <2>1
  <2>3. 0 \in Nat /\ 0 < Len(s) /\ 0 + 1 = 1
    BY <2>2
  <2>4. CharAt(top, PlaceOf(m, k, 0)) = s[0 + 1]
    BY <1>4, <2>1, <2>3, CharPlace
  <2> QED
    BY <2>2, <2>3, <2>4
<1>6. PICK g : Wrote(g, <<d.arg>>) /\ PlainFrame(g, m, PlaceOf(m, k, 0) + 1, ArgsAt(m, k, 0))
  BY <1>1, <1>2, <1>3, <1>5, LiteralWrites
<1>7. PlaceOf(m, k, 0) + 1 = PlaceOf(m, k + 1, 0)
  <2>1. Len(FormatOfDirective(d)) = 1
    BY <1>2
  <2>2. PlaceOf(m, k, 1) = PlaceOf(m, k + 1, 0)
    BY <2>1, PlaceNext
  <2>3. 0 + 1 = 1
    OBVIOUS
  <2> QED
    BY <1>3, <2>2, <2>3
<1>8. ArgsAt(m, k, 0) = ArgsAt(m, k + 1, 0)
  <2>1. Len(d.stars) = 0
    BY <1>2
  <2> QED
    BY <1>2, <2>1, ArgsBehind
<1>9. k + 1 \in 1..(Len(m) + 1) /\ (k + 1) - 1 = k
  BY <1>1
<1>10. Between(g, m, k + 1, TextTo(m)[k])
  BY <1>6, <1>7, <1>8, <1>9 DEF Between
<1> QED
  BY <1>2, <1>6, <1>10

LEMMA PercentBegins ==
  ASSUME vprintfmt, NEW m, IsMessage(m), NEW k \in 1..Len(m), m[k].conv # "text",
         NEW out, Between(top, m, k, out)
  PROVE  \E g : Moved(g) /\ Inside(g, m, k, out)
<1>1. PICK d : d = m[k]
  OBVIOUS
<1>2. PICK pos, ap, fmt : pos = PlaceOf(m, k, 0) /\ ap = ArgsAt(m, k, 0) /\ fmt = FormatOf(m)
  OBVIOUS
<1>3. pos \in Nat /\ pos + 1 = PlaceOf(m, k, 1 + 0)
  <2>1. pos \in Nat /\ pos + 1 = PlaceOf(m, k, 0 + 1) /\ 0 + 1 = 1 + 0
    BY <1>2, PlaceOne
  <2> QED
    BY <2>1
<1>4. PlainFrame(top, m, pos, ap) /\ out = TextTo(m)[k - 1]
  BY <1>2 DEF Between
<1>5. ch = CharAt(top, pos) /\ top.fmt = FormatOf(m) /\ top.escape = FALSE
  BY <1>3, <1>4, PlainReads
<1>6. ch = "%"
  BY <1>1, <1>2, <1>5, DirectiveChars
<1>7. BeginEscape
  BY <1>5, <1>6, PlainActions
<1>8. PICK padc, width, precision, lflag, altflag :
        top = FrameOf(FormatOf(m), pos, ap, FALSE, padc, width, precision, lflag, altflag)
  BY <1>4 DEF PlainFrame
<1>9. PICK no, f : no = FALSE /\ f = top
  OBVIOUS
<1>10. f = FrameOf(fmt, pos, ap, no, padc, width, precision, lflag, altflag)
  BY <1>2, <1>8, <1>9
<1>11. Begun(f) = BegunFrame(fmt, pos + 1, ap)
  BY <1>3, <1>10, BeginIs
<1>12. PadAfter(d, 0) = " "
  BY AfterFlag
<1>13. AltAfter(d, 0) = FALSE
  BY AfterFlag
<1>14. FlagsAt(m, k, 0) = BegunFrame(fmt, pos + 1, ap)
  BY <1>1, <1>2, <1>3, <1>12, <1>13 DEF FlagsAt, BegunFrame
<1>15. Moved(FlagsAt(m, k, 0))
  <2>1. Goto(Begun(f)) /\ UNCHANGED <<sink, console>>
    BY <1>7, <1>9 DEF BeginEscape, Begun
  <2> QED
    BY <1>11, <1>14, <2>1 DEF Goto, Moved
<1>16. 0 \in 0..Len(m[k].flags)
  <2>1. Len(m[k].flags) \in Nat
    BY MessageIs, DirectiveTyped
  <2> QED
    BY <2>1
<1>17. Inside(FlagsAt(m, k, 0), m, k, out)
  BY <1>4, <1>16 DEF Inside, Stage
<1> QED
  BY <1>15, <1>17

LEMMA EndFinishes ==
  ASSUME vprintfmt, NEW m, IsMessage(m), NEW out, Between(top, m, Len(m) + 1, out)
  PROVE  frames' = Tail(frames) /\ UNCHANGED <<sink, console>> /\ out = RenderedText(m)
<1>1. Len(m) \in Nat /\ Len(m) + 1 \in 1..(Len(m) + 1) /\ (Len(m) + 1) - 1 = Len(m)
  <2>1. Len(m) \in Nat
    BY MessageIs
  <2> QED
    BY <2>1
<1>2. PlaceOf(m, Len(m) + 1, 0) \in Nat
  BY <1>1, PlaceMoves
<1>3. /\ PlainFrame(top, m, PlaceOf(m, Len(m) + 1, 0), ArgsAt(m, Len(m) + 1, 0))
      /\ out = TextTo(m)[Len(m)]
  BY <1>1 DEF Between
<1>4. /\ ch = CharAt(top, PlaceOf(m, Len(m) + 1, 0)) /\ top.fmt = FormatOf(m)
      /\ top.escape = FALSE
  BY <1>2, <1>3, PlainReads
<1>5. ch = NUL
  BY <1>4, CharsEnd
<1>6. Finish
  BY <1>4, <1>5, PlainActions
<1> QED
  BY <1>3, <1>6, TextsAre DEF Finish


LEMMA OneMore ==
  ASSUME NEW s, IsSequence(s), NEW j \in Nat, j < Len(s)
  PROVE  /\ SubSeq(s, 1, j) \o <<s[j + 1]>> = SubSeq(s, 1, j + 1)
         /\ IsSequence(SubSeq(s, 1, j))
         /\ SubSeq(s, 1, 0) = <<>> /\ SubSeq(s, 1, Len(s)) = s
<1>1. PICK V : s \in Seq(V)
  BY DEF IsSequence
<1>2. PICK n \in Nat : n = Len(s)
  BY <1>1
<1>3. 1 \in 1..n /\ j + 1 \in 1..n /\ (j + 1) - 1 = j
  BY <1>2
<1>4. SubSeq(s, 1, j + 1) = SubSeq(s, 1, j) \o <<s[j + 1]>>
  BY <1>1, <1>2, <1>3, SubSeqRecursiveSecond
<1>5. IsSequence(SubSeq(s, 1, j))
  <2>1. \A x \in 1..j : s[x] \in V
    <3>1. \A x \in 1..j : x \in 1..Len(s)
      BY <1>2
    <3> QED
      BY <1>1, <3>1, ElementOfSeq
  <2>2. SubSeq(s, 1, j) \in Seq(V)
    BY <2>1, SubSeqProperties
  <2> QED
    BY <2>2, SequenceOf
<1>6. SubSeq(s, 1, 0) = <<>> /\ SubSeq(s, 1, Len(s)) = s
  BY <1>1, SubSeqEmpty, SubSeqFull
<1> QED
  BY <1>4, <1>5, <1>6

\* An unknown directive printed to its end is behind.
LEMMA LiterallyAt ==
  ASSUME NEW f, NEW m, IsMessage(m), NEW k \in 1..Len(m), NEW j \in Nat, 1 <= j,
         j <= Len(FormatOfDirective(m[k])), NEW out, Literally(f, m, k, j, out)
  PROVE  At(f, m, out)
<1>1. PICK d, s : d = m[k] /\ s = FormatOfDirective(d)
  OBVIOUS
<1>2. IsDirective(d) /\ Len(m) \in Nat
  BY <1>1, MessageIs
<1>3. PICK n \in Nat : n = Len(s)
  BY <1>1, <1>2, FormatIsSequence DEF IsSequence
<1>4. k \in Nat
  BY <1>2
<1>5. CASE j < n
  BY <1>1, <1>3, <1>4, <1>5 DEF At
<1>6. CASE ~(j < n)
  <2>1. j = n
    BY <1>1, <1>3, <1>6
  <2>2. PlaceOf(m, k, n) = PlaceOf(m, k + 1, 0)
    BY <1>1, <1>3, PlaceNext
  <2>3. d.conv \notin Known
    BY <1>1 DEF Literally
  <2>4. ~TakesArgument(d)
    BY <2>3 DEF Known, TakesArgument
  <2>5. ArgsAt(m, k, Len(d.stars)) = ArgsAt(m, k + 1, 0)
    BY <1>1, <2>4, ArgsBehind
  <2>6. PlainFrame(f, m, PlaceOf(m, k + 1, 0), ArgsAt(m, k + 1, 0))
    BY <1>1, <2>1, <2>2, <2>5 DEF Literally
  <2>7. IsSequence(s)
    BY <1>1, <1>2, FormatIsSequence
  <2>8. SubSeq(s, 1, n) = s
    BY <1>3, <2>7, SubSeqFull DEF IsSequence
  <2>9. Rendered(d) = s
    BY <1>1, <2>3, RenderedIs
  <2>10. out = TextTo(m)[k - 1] \o Rendered(d)
    BY <1>1, <2>1, <2>8, <2>9 DEF Literally
  <2>11. out = TextTo(m)[k]
    BY <1>1, <2>10, TextsAre
  <2>12. k + 1 \in Nat /\ k + 1 \in 1..(Len(m) + 1) /\ (k + 1) - 1 = k
    BY <1>2
  <2>13. Between(f, m, k + 1, out)
    BY <2>6, <2>11, <2>12 DEF Between
  <2> QED
    BY <2>12, <2>13 DEF At
<1> QED
  BY <1>5, <1>6

LEMMA LiterallyWrites ==
  ASSUME vprintfmt, NEW m, IsMessage(m), NEW k \in 1..Len(m), NEW j \in Nat, 1 <= j,
         j < Len(FormatOfDirective(m[k])), NEW out, Literally(top, m, k, j, out)
  PROVE  \E g, c : Wrote(g, <<c>>) /\ Literally(g, m, k, j + 1, out \o <<c>>)
<1>1. PICK d, s : d = m[k] /\ s = FormatOfDirective(d)
  OBVIOUS
<1>2. IsDirective(d) /\ IsSequence(s) /\ d.conv \notin Known
  BY <1>1, MessageIs, FormatIsSequence DEF Literally
<1>3. d.conv # "text" /\ d.conv # "%"
  BY <1>2 DEF Known
<1>4. PICK pos, ap : pos = PlaceOf(m, k, j) /\ ap = ArgsAt(m, k, Len(d.stars))
  OBVIOUS
<1>5. pos \in Nat /\ pos + 1 = PlaceOf(m, k, j + 1)
  BY <1>4, PlaceOne
<1>6. PlainFrame(top, m, pos, ap) /\ out = TextTo(m)[k - 1] \o SubSeq(s, 1, j)
  BY <1>1, <1>4 DEF Literally
<1>7. top.fmt = FormatOf(m)
  BY <1>5, <1>6, PlainReads
<1>8. PICK c : c = s[j + 1]
  OBVIOUS
<1>9. CharAt(top, pos) = c /\ top.fmt[pos] = c
  BY <1>1, <1>4, <1>7, <1>8, CharPlace
<1>10. c \notin {"%", NUL}
  <2>1. CASE j < LongEnd(d)
    <3>1. top.fmt[PlaceOf(m, k, j)] \notin {"%", NUL}
      BY <1>1, <1>3, <1>7, <2>1, NoPercent
    <3> QED
      BY <1>4, <1>9, <3>1
  <2>2. CASE ~(j < LongEnd(d))
    <3>1. PICK le \in Nat, n \in Nat : le = LongEnd(d) /\ n = Len(s)
      BY <1>2, DirectiveTyped DEF IsSequence
    <3>2. n = le + (IF d.conv = NUL THEN 0 ELSE 1) /\ (d.conv # NUL => s[le + 1] = d.conv)
      BY <1>1, <1>2, <1>3, <3>1, DirectiveText
    <3>3. j < n /\ ~(j < le)
      BY <1>1, <2>2, <3>1
    <3>4. d.conv # NUL
      BY <3>1, <3>2, <3>3
    <3>5. n = le + 1
      BY <3>2, <3>4
    <3>6. j = le
      BY <3>1, <3>3, <3>5
    <3> QED
      BY <1>3, <1>8, <3>2, <3>4, <3>6
  <2> QED
    BY <2>1, <2>2
<1>11. PICK g : Wrote(g, <<c>>) /\ PlainFrame(g, m, pos + 1, ap)
  BY <1>5, <1>6, <1>9, <1>10, LiteralWrites
<1>12. out \o <<c>> = TextTo(m)[k - 1] \o SubSeq(s, 1, j + 1)
  <2>1. SubSeq(s, 1, j) \o <<c>> = SubSeq(s, 1, j + 1) /\ IsSequence(SubSeq(s, 1, j))
    BY <1>1, <1>2, <1>8, OneMore
  <2>2. PICK t : t = TextTo(m)[k - 1]
    OBVIOUS
  <2>3. IsSequence(t)
    <3>1. k - 1 \in 0..Len(m)
      BY MessageIs
    <3> QED
      BY <2>2, <3>1, TextsAre
  <2>4. (t \o SubSeq(s, 1, j)) \o <<c>> = t \o (SubSeq(s, 1, j) \o <<c>>)
    BY <2>1, <2>3, ConcatOneMore
  <2> QED
    BY <1>6, <2>1, <2>2, <2>4
<1>13. Literally(g, m, k, j + 1, out \o <<c>>)
  BY <1>1, <1>2, <1>4, <1>5, <1>11, <1>12 DEF Literally
<1> QED
  BY <1>11, <1>13

\* What a step of vprintfmt does where its topmost call, which prints m, has written
\* out: it moves on; or it writes; or it is done; or it calls itself.
Advance(m, out) ==
  \/ \E g : Moved(g) /\ At(g, m, out)
  \/ \E g, chars : Wrote(g, chars) /\ IsSequence(chars) /\ At(g, m, out \o chars)
  \/ frames' = Tail(frames) /\ UNCHANGED <<sink, console>> /\ out = RenderedText(m)
  \/ \E g, e : /\ frames' = <<CallFor(e), g>> \o Tail(frames) /\ UNCHANGED <<sink, console>>
               /\ e \in Nat /\ e < Powers(2)[IntBits - 1]
               /\ At(g, m, out \o ErrorText(e))
               /\ \E k \in 1..Len(m) : m[k].conv = "e"

LEMMA TextMoves ==
  ASSUME NEW m, IsMessage(m), NEW k \in 1..Len(m), NEW out, out = TextTo(m)[k - 1]
  PROVE  /\ out \o Rendered(m[k]) = TextTo(m)[k] /\ IsSequence(out) /\ IsSequence(Rendered(m[k]))
         /\ k \in Nat /\ k + 1 \in Nat
<1>1. Len(m) \in Nat /\ k - 1 \in 0..Len(m)
  BY MessageIs
<1>2. IsSequence(Rendered(m[k]))
  BY MessageIs, RenderedTyped
<1>3. k \in Nat /\ k + 1 \in Nat
  BY <1>1
<1> QED
  BY <1>1, <1>2, <1>3, TextsAre

LEMMA BetweenStep ==
  ASSUME vprintfmt, NEW m, IsMessage(m), NEW out, NEW k \in Nat, Between(top, m, k, out)
  PROVE  Advance(m, out)
<1>1. Len(m) \in Nat /\ k \in 1..(Len(m) + 1) /\ out = TextTo(m)[k - 1]
  BY MessageIs DEF Between
<1>2. CASE k = Len(m) + 1
  BY <1>2, EndFinishes DEF Advance
<1>3. CASE k # Len(m) + 1
  <2>1. k \in 1..Len(m)
    BY <1>1, <1>3
  <2>2. out \o Rendered(m[k]) = TextTo(m)[k] /\ IsSequence(Rendered(m[k])) /\ k + 1 \in Nat
    BY <1>1, <2>1, TextMoves
  <2>3. CASE m[k].conv = "text"
    <3>1. PICK g : Wrote(g, Rendered(m[k])) /\ Between(g, m, k + 1, TextTo(m)[k])
      BY <2>1, <2>3, TextWrites
    <3>2. At(g, m, out \o Rendered(m[k]))
      BY <2>2, <3>1 DEF At
    <3> QED
      BY <2>2, <3>1, <3>2 DEF Advance
  <2>4. CASE m[k].conv # "text"
    <3>1. PICK g : Moved(g) /\ Inside(g, m, k, out)
      BY <2>1, <2>4, PercentBegins
    <3>2. At(g, m, out)
      BY <3>1 DEF At
    <3> QED
      BY <3>1, <3>2 DEF Advance
  <2> QED
    BY <2>3, <2>4
<1> QED
  BY <1>2, <1>3

LEMMA InsideStep ==
  ASSUME vprintfmt, NEW m, IsMessage(m), NEW out, NEW k \in Nat, Inside(top, m, k, out)
  PROVE  Advance(m, out)
<1>1. k \in 1..Len(m) /\ out = TextTo(m)[k - 1] /\ m[k].conv # "text" /\ Stage(top, m, k)
  BY DEF Inside
<1>2. /\ out \o Rendered(m[k]) = TextTo(m)[k] /\ IsSequence(Rendered(m[k])) /\ IsSequence(out)
      /\ k + 1 \in Nat
  BY <1>1, TextMoves
<1>3. CASE top # LongAt(m, k, m[k].l)
  <2>1. PICK g : Moved(g) /\ Stage(g, m, k)
    BY <1>1, <1>3, StageStep
  <2>2. At(g, m, out)
    BY <1>1, <2>1 DEF At, Inside
  <2> QED
    BY <2>1, <2>2 DEF Advance
<1>4. CASE top = LongAt(m, k, m[k].l)
  <2>1. CASE m[k].conv = "e"
    <3>0. PICK d : d = m[k]
      OBVIOUS
    <3>a. d.conv = "e" /\ top = LongAt(m, k, d.l)
      BY <1>4, <2>1, <3>0
    <3>b. PICK g, e :
            /\ frames' = <<CallFor(e), g>> \o Tail(frames) /\ UNCHANGED <<sink, console>>
            /\ e \in Nat /\ e < Powers(2)[IntBits - 1]
            /\ Between(g, m, k + 1, TextTo(m)[k]) /\ Rendered(d) = ErrorText(e)
      <4>1. ErrorCalled(m, k, d)
        BY <1>1, <3>0, <3>a, ErrorCalls
      <4> QED
        BY <4>1 DEF ErrorCalled
    <3>1. /\ frames' = <<CallFor(e), g>> \o Tail(frames) /\ UNCHANGED <<sink, console>>
          /\ e \in Nat /\ e < Powers(2)[IntBits - 1]
          /\ Between(g, m, k + 1, TextTo(m)[k]) /\ Rendered(m[k]) = ErrorText(e)
      BY <3>0, <3>b
    <3>2. At(g, m, out \o ErrorText(e))
      BY <1>2, <3>1 DEF At
    <3> QED
      BY <1>1, <2>1, <3>1, <3>2 DEF Advance
  <2>2. CASE m[k].conv \in Known \ {"text", "e"}
    <3>1. PICK g : Wrote(g, Rendered(m[k])) /\ Between(g, m, k + 1, TextTo(m)[k])
      BY <1>1, <1>4, <2>2, ConversionWrites
    <3>2. At(g, m, out \o Rendered(m[k]))
      BY <1>2, <3>1 DEF At
    <3> QED
      BY <1>2, <3>1, <3>2 DEF Advance
  <2>3. CASE m[k].conv \notin Known
    <3>1. PICK d, s : d = m[k] /\ s = FormatOfDirective(d)
      OBVIOUS
    <3>2. PICK g : /\ Wrote(g, <<"%">>)
                   /\ PlainFrame(g, m, PlaceOf(m, k, 1), ArgsAt(m, k, Len(d.stars)))
      BY <1>1, <1>4, <2>3, <3>1, UnknownPrints
    <3>3. IsDirective(d) /\ IsSequence(s)
      BY <1>1, <3>1, MessageIs, FormatIsSequence
    <3>4. PICK n \in Nat : n = Len(s) /\ 1 <= n
      <4>1. PICK le \in Nat : le = LongEnd(d) /\ 1 <= le
        <5>1. PICK a \in Nat, b \in Nat, c \in Nat, h \in Nat :
                /\ a = FlagsEnd(d) /\ b = WidthEnd(d) /\ c = PrecEnd(d) /\ h = LongEnd(d)
                /\ 1 <= a /\ a <= b /\ b <= c /\ c <= h
          BY <3>3, DirectiveTyped
        <5>2. 1 <= h
          BY <5>1
        <5> QED
          BY <5>1, <5>2
      <4>2. Len(s) = le + (IF d.conv = NUL THEN 0 ELSE 1)
        BY <1>1, <3>1, <3>3, <4>1, DirectiveText
      <4> QED
        BY <4>1, <4>2
    <3>5. s[1] = "%"
      BY <1>1, <3>1, <3>3, DirectiveText
    <3>6. SubSeq(s, 1, 1) = <<"%">>
      <4>1. 0 \in Nat /\ 0 < Len(s) /\ 0 + 1 = 1
        BY <3>4
      <4>2. SubSeq(s, 1, 0) \o <<s[0 + 1]>> = SubSeq(s, 1, 0 + 1) /\ SubSeq(s, 1, 0) = <<>>
        BY <3>3, <4>1, OneMore
      <4>3. <<>> \o <<"%">> = <<"%">>
        BY ConcatNothing, OneIsSequence
      <4> QED
        BY <3>5, <4>1, <4>2, <4>3
    <3>7. Literally(g, m, k, 1, out \o <<"%">>)
      BY <1>1, <2>3, <3>1, <3>2, <3>6 DEF Literally
    <3>8. 1 \in Nat /\ 1 <= 1 /\ 1 <= Len(FormatOfDirective(m[k]))
      BY <3>1, <3>4
    <3>9. At(g, m, out \o <<"%">>)
      BY <1>1, <3>7, <3>8, LiterallyAt
    <3>10. IsSequence(<<"%">>)
      BY OneIsSequence
    <3> QED
      BY <3>2, <3>9, <3>10 DEF Advance
  <2> QED
    BY <1>1, <2>1, <2>2, <2>3
<1> QED
  BY <1>3, <1>4

LEMMA AtStep ==
  ASSUME vprintfmt, NEW m, IsMessage(m), NEW out, At(top, m, out)
  PROVE  Advance(m, out)
<1>1. PICK k \in Nat :
        \/ Between(top, m, k, out)
        \/ Inside(top, m, k, out)
        \/ \E j \in Nat : /\ 1 <= j /\ j < Len(FormatOfDirective(m[k]))
                          /\ Literally(top, m, k, j, out)
  BY DEF At
<1>2. CASE Between(top, m, k, out)
  BY <1>2, BetweenStep
<1>3. CASE Inside(top, m, k, out)
  BY <1>3, InsideStep
<1>4. ASSUME NEW j \in Nat, 1 <= j, j < Len(FormatOfDirective(m[k])),
             Literally(top, m, k, j, out)
      PROVE  Advance(m, out)
  <2>1. k \in 1..Len(m)
    BY <1>4 DEF Literally
  <2>2. PICK g, c : Wrote(g, <<c>>) /\ Literally(g, m, k, j + 1, out \o <<c>>)
    BY <1>4, <2>1, LiterallyWrites
  <2>3. j + 1 \in Nat /\ 1 <= j + 1 /\ j + 1 <= Len(FormatOfDirective(m[k]))
    <3>1. PICK n \in Nat : n = Len(FormatOfDirective(m[k]))
      BY <2>1, MessageIs, FormatIsSequence DEF IsSequence
    <3> QED
      BY <1>4, <3>1
  <2>4. At(g, m, out \o <<c>>)
    BY <2>1, <2>2, <2>3, LiterallyAt
  <2>5. IsSequence(<<c>>)
    BY OneIsSequence
  <2> QED
    BY <2>2, <2>4, <2>5 DEF Advance
<1> QED
  BY <1>1, <1>2, <1>3, <1>4


-----------------------------------------------------------------------------
(* Messages of few pieces.                                                 *)

LEMMA ThreeJoined ==
  ASSUME NEW x, NEW y, NEW z
  PROVE  <<x>> \o <<y, z>> = <<x, y, z>>
<1>1. PICK V : V = {x, y, z}
  OBVIOUS
<1>2. x \in V /\ y \in V /\ z \in V
  BY <1>1
<1>3. PICK u, v : u = <<x>> \o <<y, z>> /\ v = <<x, y, z>>
  OBVIOUS
<1>4. <<x>> \in Seq(V) /\ <<y, z>> \in Seq(V) /\ Len(<<x>>) = 1 /\ Len(<<y, z>>) = 2
      /\ <<x>>[1] = x /\ <<y, z>>[1] = y /\ <<y, z>>[2] = z
  BY <1>2
<1>5. v \in Seq(V) /\ Len(v) = 3 /\ v[1] = x /\ v[2] = y /\ v[3] = z
  BY <1>2, <1>3
<1>6. PICK s, t : /\ s = <<x>> /\ t = <<y, z>> /\ s \in Seq(V) /\ t \in Seq(V)
                  /\ Len(s) = 1 /\ Len(t) = 2 /\ s[1] = x /\ t[1] = y /\ t[2] = z
  BY <1>4
<1>7. u = s \o t
  BY <1>3, <1>6
<1>8. u \in Seq(V) /\ Joins(s, t, u)
  BY <1>6, <1>7, ConcatIs
<1>9. Len(u) = 3 /\ u[1] = x /\ u[2] = y /\ u[3] = z
  <2>1. 1 \in 1..Len(s) /\ 1 \in 1..Len(t) /\ 2 \in 1..Len(t) /\ Len(s) + 1 = 2
        /\ Len(s) + 2 = 3 /\ Len(s) + Len(t) = 3
    BY <1>6
  <2>2. u[1] = s[1] /\ u[2] = t[1] /\ u[3] = t[2] /\ Len(u) = 3
    BY <1>8, <2>1 DEF Joins
  <2> QED
    BY <1>6, <2>2
<1>10. \A k \in 1..3 : u[k] = v[k]
  BY <1>5, <1>9
<1>11. u = v
  BY <1>5, <1>8, <1>9, <1>10, SeqEqual
<1> QED
  BY <1>3, <1>11

LEMMA OnePiece ==
  ASSUME NEW d, IsDirective(d), NEW m, m = <<d>>
  PROVE  /\ IsMessage(m) /\ FormatOf(m) = FormatOfDirective(d) /\ ArgsOf(m) = ArgsOfDirective(d)
         /\ RenderedText(m) = Rendered(d)
         /\ \A k \in 1..Len(m) : m[k] = d
<1>1. Len(m) = 1 /\ m[1] = d
  OBVIOUS
<1>2. \A k \in 1..Len(m) : m[k] = d /\ k = Len(m)
  BY <1>1
<1>3. IsMessage(m)
  BY <1>1, <1>2 DEF IsMessage
<1>4. 1 \in 1..Len(m) /\ 1 - 1 = 0
  BY <1>1
<1>5. FormatOf(m) = FormatOfDirective(d)
  <2>1. PICK J : J = FormatTo(m)
    OBVIOUS
  <2>2. J[0] = <<>> /\ J[1] = J[0] \o FormatOfDirective(d) /\ FormatOf(m) = J[1]
    BY <1>1, <1>3, <1>4, <2>1, MessageIs DEF JoinFacts
  <2> QED
    BY <2>2, FormatIsSequence, ConcatNothing
<1>6. ArgsOf(m) = ArgsOfDirective(d)
  <2>1. PICK J : J = ArgsTo(m)
    OBVIOUS
  <2>2. J[0] = <<>> /\ J[1] = J[0] \o ArgsOfDirective(d) /\ ArgsOf(m) = J[1]
    BY <1>1, <1>3, <1>4, <2>1, MessageIs DEF JoinFacts
  <2> QED
    BY <2>2, ArgsAre, ConcatNothing
<1>7. RenderedText(m) = Rendered(d)
  <2>1. PICK J : J = TextTo(m)
    OBVIOUS
  <2>2. J[0] = <<>> /\ J[1] = J[0] \o Rendered(d) /\ RenderedText(m) = J[1]
    BY <1>1, <1>3, <1>4, <2>1, TextsAre
  <2> QED
    BY <2>2, RenderedTyped, ConcatNothing
<1> QED
  BY <1>2, <1>3, <1>5, <1>6, <1>7

LEMMA TwoPieces ==
  ASSUME NEW c, IsDirective(c), c.conv # NUL, NEW d, IsDirective(d), NEW m, m = <<c, d>>
  PROVE  /\ IsMessage(m)
         /\ FormatOf(m) = FormatOfDirective(c) \o FormatOfDirective(d)
         /\ ArgsOf(m) = ArgsOfDirective(c) \o ArgsOfDirective(d)
         /\ RenderedText(m) = Rendered(c) \o Rendered(d)
         /\ \A k \in 1..Len(m) : m[k] \in {c, d}
<1>1. Len(m) = 2 /\ m[1] = c /\ m[2] = d
  OBVIOUS
<1>2. \A k \in 1..Len(m) : (k = 1 /\ m[k] = c) \/ (k = 2 /\ m[k] = d)
  BY <1>1
<1>3. IsMessage(m)
  BY <1>1, <1>2 DEF IsMessage
<1>4. 1 \in 1..Len(m) /\ 1 - 1 = 0 /\ 2 \in 1..Len(m) /\ 2 - 1 = 1
  BY <1>1
<1>5. FormatOf(m) = FormatOfDirective(c) \o FormatOfDirective(d)
  <2>1. PICK J : J = FormatTo(m)
    OBVIOUS
  <2>2. /\ J[0] = <<>> /\ J[1] = J[0] \o FormatOfDirective(c)
        /\ J[2] = J[1] \o FormatOfDirective(d) /\ FormatOf(m) = J[2]
    <3>1. JoinFacts(FormatPieces(m), Len(m), J) /\ FormatOf(m) = J[Len(m)]
      BY <1>3, <2>1, MessageIs
    <3>2. FormatPieces(m)[1] = FormatOfDirective(c) /\ FormatPieces(m)[2] = FormatOfDirective(d)
      BY <1>1, <1>3, <1>4, MessageIs
    <3>3. J[0] = <<>> /\ \A k \in 1..Len(m) : J[k] = J[k - 1] \o FormatPieces(m)[k]
      BY <3>1 DEF JoinFacts
    <3>4. J[1] = J[1 - 1] \o FormatPieces(m)[1] /\ J[2] = J[2 - 1] \o FormatPieces(m)[2]
      BY <1>4, <3>3
    <3> QED
      BY <1>1, <1>4, <3>1, <3>2, <3>3, <3>4
  <2> QED
    BY <2>2, FormatIsSequence, ConcatNothing
<1>6. ArgsOf(m) = ArgsOfDirective(c) \o ArgsOfDirective(d)
  <2>1. PICK J : J = ArgsTo(m)
    OBVIOUS
  <2>2. /\ J[0] = <<>> /\ J[1] = J[0] \o ArgsOfDirective(c)
        /\ J[2] = J[1] \o ArgsOfDirective(d) /\ ArgsOf(m) = J[2]
    <3>1. JoinFacts(ArgPieces(m), Len(m), J) /\ ArgsOf(m) = J[Len(m)]
      BY <1>3, <2>1, MessageIs
    <3>2. ArgPieces(m)[1] = ArgsOfDirective(c) /\ ArgPieces(m)[2] = ArgsOfDirective(d)
      BY <1>1, <1>3, <1>4, MessageIs
    <3>3. J[0] = <<>> /\ \A k \in 1..Len(m) : J[k] = J[k - 1] \o ArgPieces(m)[k]
      BY <3>1 DEF JoinFacts
    <3>4. J[1] = J[1 - 1] \o ArgPieces(m)[1] /\ J[2] = J[2 - 1] \o ArgPieces(m)[2]
      BY <1>4, <3>3
    <3> QED
      BY <1>1, <1>4, <3>1, <3>2, <3>3, <3>4
  <2> QED
    BY <2>2, ArgsAre, ConcatNothing
<1>7. RenderedText(m) = Rendered(c) \o Rendered(d)
  <2>1. PICK J : J = TextTo(m)
    OBVIOUS
  <2>2. /\ J[0] = <<>> /\ J[1] = J[0] \o Rendered(c)
        /\ J[2] = J[1] \o Rendered(d) /\ RenderedText(m) = J[2]
    BY <1>1, <1>3, <1>4, <2>1, TextsAre
  <2> QED
    BY <2>2, RenderedTyped, ConcatNothing
<1>8. \A k \in 1..Len(m) : m[k] \in {c, d}
  BY <1>2
<1> QED
  BY <1>3, <1>5, <1>6, <1>7, <1>8

LEMMA StartsAt ==
  ASSUME NEW m, IsMessage(m)
  PROVE  At(Frame(FormatOf(m), ArgsOf(m)), m, <<>>)
<1>1. Len(m) \in Nat /\ 1 \in Nat /\ 1 \in 1..(Len(m) + 1) /\ 1 - 1 = 0
  <2>1. Len(m) \in Nat
    BY MessageIs
  <2> QED
    BY <2>1
<1>2. FormatTo(m)[0] = <<>> /\ ArgsTo(m)[0] = <<>>
  BY MessageIs DEF JoinFacts
<1>3. Len(<<>>) = 0 /\ (0 + 0) + 1 = 1 /\ 0 + 0 = 0
  OBVIOUS
<1>4. PlaceOf(m, 1, 0) = 1
  BY <1>1, <1>2, <1>3 DEF PlaceOf
<1>5. ArgsAt(m, 1, 0) = ArgsOf(m)
  <2>1. ArgsAt(m, 1, 0) = Rest(ArgsOf(m), 0)
    BY <1>1, <1>2, <1>3 DEF ArgsAt
  <2>2. IsSequence(ArgsOf(m))
    BY FormatTyped
  <2> QED
    BY <2>1, <2>2, RestAll DEF IsSequence
<1>6. Frame(FormatOf(m), ArgsOf(m))
        = FrameOf(FormatOf(m), 1, ArgsOf(m), FALSE, " ", -1, -1, 0, FALSE)
  BY DEF Frame, FrameOf
<1>7. PICK none, no : none = -1 /\ no = FALSE
  OBVIOUS
<1>8. Frame(FormatOf(m), ArgsOf(m))
        = FrameOf(FormatOf(m), 1, ArgsOf(m), FALSE, " ", none, none, 0, no)
  BY <1>6, <1>7
<1>9. PlainFrame(Frame(FormatOf(m), ArgsOf(m)), m, 1, ArgsOf(m))
  BY <1>8, PlainFrameIs
<1>10. TextTo(m)[0] = <<>>
  BY TextsAre
<1>11. Between(Frame(FormatOf(m), ArgsOf(m)), m, 1, <<>>)
  BY <1>1, <1>4, <1>5, <1>9, <1>10 DEF Between
<1> QED
  BY <1>1, <1>11 DEF At

\* What the call for the error code e prints.
ErrorMessage(e) ==
  IF e > MAXERROR \/ e = 0 THEN <<Text("error "), Decimal32(e)>> ELSE <<String(error_string[e])>>

NoError(m) == \A k \in 1..Len(m) : m[k].conv # "e"

LEMMA ErrorMessageIs ==
  ASSUME NEW e \in Nat, e < Powers(2)[IntBits - 1], NEW m, m = ErrorMessage(e)
  PROVE  /\ IsMessage(m) /\ NoError(m)
         /\ CallFor(e) = Frame(FormatOf(m), ArgsOf(m))
         /\ RenderedText(m) = ErrorText(e)
<1>1. CASE e > MAXERROR \/ e = 0
  <2>1. PICK c, d : c = Text("error ") /\ d = Decimal32(e)
    OBVIOUS
  <2>2. "error " # "%" /\ "error " # NUL
    BY DEF NUL
  <2>3. /\ IsDirective(c) /\ c.conv = "text" /\ Rendered(c) = <<"error ">>
        /\ FormatOfDirective(c) = <<"error ">> /\ ArgsOfDirective(c) = <<>>
    BY <2>1, <2>2, TextFits
  <2>4. e \in Int /\ 0 <= e
    OBVIOUS
  <2>5. /\ IsDirective(d) /\ d.conv = "d" /\ d.arg = e /\ d.stars = <<>>
        /\ FormatOfDirective(d) = <<"%", "d">> /\ Rendered(d) = Numeral(e, 10)
    BY <2>1, <2>4, DecimalFits
  <2>6. ArgsOfDirective(d) = <<e>>
    <3>1. TakesArgument(d)
      BY <2>5 DEF TakesArgument
    <3>2. ArgsOfDirective(d) = <<>> \o <<e>>
      BY <2>5, <3>1 DEF ArgsOfDirective
    <3> QED
      BY <3>2, ConcatNothing, OneIsSequence
  <2>7. m = <<c, d>>
    BY <1>1, <2>1 DEF ErrorMessage
  <2>8. c.conv # NUL
    BY <2>3 DEF NUL
  <2>9. /\ IsMessage(m) /\ FormatOf(m) = <<"error ">> \o <<"%", "d">>
        /\ ArgsOf(m) = <<>> \o <<e>> /\ RenderedText(m) = <<"error ">> \o Numeral(e, 10)
        /\ \A k \in 1..Len(m) : m[k] \in {c, d}
    <3>1. /\ IsMessage(m) /\ FormatOf(m) = FormatOfDirective(c) \o FormatOfDirective(d)
          /\ ArgsOf(m) = ArgsOfDirective(c) \o ArgsOfDirective(d)
          /\ RenderedText(m) = Rendered(c) \o Rendered(d)
          /\ \A k \in 1..Len(m) : m[k] \in {c, d}
      <4>1. IsDirective(c) /\ IsDirective(d) /\ c.conv # NUL /\ m = <<c, d>>
        BY <2>3, <2>5, <2>7, <2>8
      <4>2. IsMessage(m) /\ FormatOf(m) = FormatOfDirective(c) \o FormatOfDirective(d)
        BY <4>1, TwoPieces
      <4>3. ArgsOf(m) = ArgsOfDirective(c) \o ArgsOfDirective(d)
        BY <4>1, TwoPieces
      <4>4. RenderedText(m) = Rendered(c) \o Rendered(d)
        BY <4>1, TwoPieces
      <4>5. \A k \in 1..Len(m) : m[k] \in {c, d}
        BY <4>1, TwoPieces
      <4> QED
        BY <4>2, <4>3, <4>4, <4>5
    <3> QED
      BY <2>3, <2>5, <2>6, <3>1
  <2>10. FormatOf(m) = <<"error ", "%", "d">> /\ ArgsOf(m) = <<e>>
    BY <2>9, ThreeJoined, ConcatNothing, OneIsSequence
  <2>11. NoError(m)
    BY <2>3, <2>5, <2>9 DEF NoError
  <2>12. ErrorText(e) = <<"error ">> \o Numeral(e, 10)
    <3>1. e \notin 1..MAXERROR
      BY <1>1, ErrorStrings
    <3> QED
      BY <3>1 DEF ErrorText
  <2> QED
    BY <1>1, <2>9, <2>10, <2>11, <2>12 DEF CallFor
<1>2. CASE ~(e > MAXERROR \/ e = 0)
  <2>1. e \in 1..MAXERROR /\ e \in 1..6
    BY <1>2, ErrorStrings
  <2>2. PICK s : s = error_string[e] /\ IsSequence(s) /\ s # NullPointer
    BY <2>1, ErrorStrings
  <2>3. PICK d : d = String(s)
    OBVIOUS
  <2>4. /\ IsDirective(d) /\ d.conv = "s" /\ d.arg = s /\ d.stars = <<>>
        /\ FormatOfDirective(d) = <<"%", "s">> /\ Rendered(d) = s
    BY <2>2, <2>3, StringFits
  <2>5. ArgsOfDirective(d) = <<s>>
    <3>1. TakesArgument(d)
      BY <2>4 DEF TakesArgument
    <3>2. ArgsOfDirective(d) = <<>> \o <<s>>
      BY <2>4, <3>1 DEF ArgsOfDirective
    <3> QED
      BY <3>2, ConcatNothing, OneIsSequence
  <2>6. m = <<d>>
    BY <1>2, <2>2, <2>3 DEF ErrorMessage
  <2>7. /\ IsMessage(m) /\ FormatOf(m) = <<"%", "s">> /\ ArgsOf(m) = <<s>> /\ RenderedText(m) = s
        /\ \A k \in 1..Len(m) : m[k] = d
    BY <2>4, <2>5, <2>6, OnePiece
  <2>8. NoError(m)
    BY <2>4, <2>7 DEF NoError
  <2>9. ErrorText(e) = s
    BY <2>1, <2>2 DEF ErrorText
  <2>10. CallFor(e) = Frame(<<"%", "s">>, <<s>>)
    BY <1>2, <2>2 DEF CallFor
  <2> QED
    BY <2>7, <2>8, <2>9, <2>10
<1> QED
  BY <1>1, <1>2

LEMMA LongFits ==
  ASSUME NEW v \in Int
  PROVE  IsDirective(Long016x(v)) /\ Long016x(v).conv = "x"
<1>1. PICK d : d = Long016x(v)
  OBVIOUS
<1>2. /\ d.flags = <<"0">> /\ d.width = <<"1", "6">> /\ d.prec = <<>> /\ d.l = 1
      /\ d.conv = "x" /\ d.stars = <<>> /\ d.arg = v
  BY <1>1 DEF Long016x, Directive
<1>3. d.flags \in Seq({"-", "0", "#"}) /\ d.stars \in Seq(Int) /\ Len(d.stars) = 0 /\ d.l \in Nat
  BY <1>2
<1>4. d.width \in Seq(Decimal) /\ d.width # <<>> /\ d.width[1] # "0"
  <2>1. "1" \in Decimal /\ "6" \in Decimal
    BY DecimalIs
  <2>2. PICK s : s = <<"1", "6">>
    OBVIOUS
  <2>3. s \in Seq(Decimal) /\ s # <<>> /\ s[1] = "1"
    BY <2>1, <2>2
  <2>4. "1" # "0"
    OBVIOUS
  <2> QED
    BY <1>2, <2>2, <2>3, <2>4
<1>5. StarCount(d) = 0
  <2>1. d.width # <<"*">>
    <3>1. Len(<<"*">>) = 1 /\ Len(<<"1", "6">>) = 2
      OBVIOUS
    <3> QED
      BY <1>2, <3>1
  <2>2. d.prec # <<".", "*">>
    BY <1>2
  <2> QED
    BY <2>1, <2>2 DEF StarCount
<1>6. d.conv \notin Decimal \cup {"-", "*", ".", "#", "l"}
  BY <1>2, DecimalIs
<1>7. ArgumentFits(d)
  BY <1>2 DEF ArgumentFits
<1>8. IsDirective(d)
  BY <1>2, <1>3, <1>4, <1>5, <1>6, <1>7 DEF IsDirective, IsCount, IsNumber
<1> QED
  BY <1>1, <1>2, <1>8


-----------------------------------------------------------------------------
(* The stack of calls: vprintfmt printing m has written out.               *)

Nested(g, f, m, out) ==
  \E e, base, inner :
    /\ e \in Nat /\ e < Powers(2)[IntBits - 1]
    /\ IsSequence(base) /\ IsSequence(inner) /\ out = base \o inner
    /\ At(g, ErrorMessage(e), inner)
    /\ At(f, m, base \o ErrorText(e))

Underway(calls, m, out) ==
  \/ \E f : calls = <<f>> /\ At(f, m, out)
  \/ \E g, f : calls = <<g, f>> /\ Nested(g, f, m, out)

\* What a step of vprintfmt does, seen from outside.
Prints(m, out) ==
  \/ /\ UNCHANGED <<sink, console>>
     /\ Underway(frames', m, out) \/ (frames' = <<>> /\ out = RenderedText(m))
  \/ \E chars : Put(chars) /\ IsSequence(chars) /\ Underway(frames', m, out \o chars)

LEMMA StackOf ==
  ASSUME NEW f, NEW g
  PROVE  /\ Head(<<f>>) = f /\ Tail(<<f>>) = <<>>
         /\ Head(<<g, f>>) = g /\ Tail(<<g, f>>) = <<f>>
         /\ <<g>> \o <<>> = <<g>> /\ <<g>> \o <<f>> = <<g, f>> /\ <<g, f>> \o <<>> = <<g, f>>
<1>1. Head(<<f>>) = f /\ Tail(<<f>>) = <<>>
  <2>1. <<f>> \in Seq({f}) /\ Len(<<f>>) = 1 /\ <<f>>[1] = f
    OBVIOUS
  <2>2. PICK s : s = <<f>> /\ s \in Seq({f}) /\ Len(s) = 1 /\ s[1] = f
    BY <2>1
  <2>3. Head(s) = f
    BY <2>2
  <2>4. s # <<>> /\ Len(Tail(s)) = 0 /\ Tail(s) \in Seq({f})
    BY <2>2
  <2>5. Tail(s) = <<>>
    BY <2>4, EmptySeq
  <2> QED
    BY <2>2, <2>3, <2>5
<1>2. Head(<<g, f>>) = g /\ Tail(<<g, f>>) = <<f>>
  <2>1. PICK V : V = {g, f}
    OBVIOUS
  <2>2. <<g, f>> \in Seq(V) /\ Len(<<g, f>>) = 2 /\ <<g, f>>[1] = g /\ <<g, f>>[2] = f
        /\ <<f>> \in Seq(V) /\ Len(<<f>>) = 1 /\ <<f>>[1] = f
    BY <2>1
  <2>3. PICK s, t : /\ s = <<g, f>> /\ s \in Seq(V) /\ Len(s) = 2 /\ s[1] = g /\ s[2] = f
                    /\ t = <<f>> /\ t \in Seq(V) /\ Len(t) = 1 /\ t[1] = f
    BY <2>2
  <2>4. Head(s) = g
    BY <2>3
  <2>5. s # <<>>
    BY <2>3
  <2>6. Tail(s) \in Seq(V) /\ Len(Tail(s)) = 1 /\ \A x \in 1..Len(Tail(s)) : Tail(s)[x] = s[x + 1]
    BY <2>3, <2>5, HeadTailProperties
  <2>7. Tail(s)[1] = f
    <3>1. 1 \in 1..Len(Tail(s)) /\ 1 + 1 = 2
      BY <2>6
    <3> QED
      BY <2>3, <2>6, <3>1
  <2>8. \A x \in 1..1 : Tail(s)[x] = t[x]
    BY <2>3, <2>7
  <2>9. Tail(s) = t
    BY <2>3, <2>6, <2>8, SeqEqual
  <2> QED
    BY <2>3, <2>4, <2>9
<1>3. IsSequence(<<g>>) /\ IsSequence(<<f>>) /\ <<g>> \o <<f>> = <<g, f>>
  BY OneIsSequence, TwoJoined
<1>4. IsSequence(<<g, f>>)
  BY <1>3, ConcatSequences
<1> QED
  BY <1>1, <1>2, <1>3, <1>4, ConcatNothing

LEMMA SingleStep ==
  ASSUME vprintfmt, NEW m, IsMessage(m), NEW out, IsSequence(out), NEW f, frames = <<f>>,
         At(f, m, out)
  PROVE  Prints(m, out)
<1>1. top = f /\ Tail(frames) = <<>>
  BY StackOf DEF top
<1>2. Advance(m, out)
  BY <1>1, AtStep
<1>3. CASE \E g : Moved(g) /\ At(g, m, out)
  <2>1. PICK g : Moved(g) /\ At(g, m, out)
    BY <1>3
  <2>2. frames' = <<g>> /\ UNCHANGED <<sink, console>>
    BY <1>1, <2>1, StackOf DEF Moved
  <2> QED
    BY <2>1, <2>2 DEF Prints, Underway
<1>4. CASE \E g, chars : Wrote(g, chars) /\ IsSequence(chars) /\ At(g, m, out \o chars)
  <2>1. PICK g, chars : Wrote(g, chars) /\ IsSequence(chars) /\ At(g, m, out \o chars)
    BY <1>4
  <2>2. frames' = <<g>> /\ Put(chars)
    BY <1>1, <2>1, StackOf DEF Wrote
  <2> QED
    BY <2>1, <2>2 DEF Prints, Underway
<1>5. CASE frames' = Tail(frames) /\ UNCHANGED <<sink, console>> /\ out = RenderedText(m)
  BY <1>1, <1>5 DEF Prints
<1>6. CASE \E g, e : /\ frames' = <<CallFor(e), g>> \o Tail(frames) /\ UNCHANGED <<sink, console>>
                     /\ e \in Nat /\ e < Powers(2)[IntBits - 1]
                     /\ At(g, m, out \o ErrorText(e))
                     /\ \E k \in 1..Len(m) : m[k].conv = "e"
  <2>1. PICK g, e : /\ frames' = <<CallFor(e), g>> \o Tail(frames) /\ UNCHANGED <<sink, console>>
                    /\ e \in Nat /\ e < Powers(2)[IntBits - 1]
                    /\ At(g, m, out \o ErrorText(e))
    BY <1>6
  <2>2. frames' = <<CallFor(e), g>>
    BY <1>1, <2>1, StackOf
  <2>3. At(CallFor(e), ErrorMessage(e), <<>>)
    BY <2>1, ErrorMessageIs, StartsAt
  <2>4. out = out \o <<>> /\ IsSequence(<<>>)
    BY ConcatNothing, NothingIsSequence
  <2>5. Nested(CallFor(e), g, m, out)
    BY <2>1, <2>3, <2>4 DEF Nested
  <2> QED
    BY <2>1, <2>2, <2>5 DEF Prints, Underway
<1> QED
  BY <1>2, <1>3, <1>4, <1>5, <1>6 DEF Advance

LEMMA NestedStep ==
  ASSUME vprintfmt, NEW m, IsMessage(m), NEW out, IsSequence(out), NEW f, NEW g,
         frames = <<g, f>>, Nested(g, f, m, out)
  PROVE  Prints(m, out)
<1>1. top = g /\ Tail(frames) = <<f>>
  BY StackOf DEF top
<1>2. PICK e, base, inner :
        /\ e \in Nat /\ e < Powers(2)[IntBits - 1]
        /\ IsSequence(base) /\ IsSequence(inner) /\ out = base \o inner
        /\ At(g, ErrorMessage(e), inner)
        /\ At(f, m, base \o ErrorText(e))
  BY DEF Nested
<1>3. PICK q : q = ErrorMessage(e)
  OBVIOUS
<1>4. IsMessage(q) /\ NoError(q) /\ RenderedText(q) = ErrorText(e)
  BY <1>2, <1>3, ErrorMessageIs
<1>5. Advance(q, inner)
  BY <1>1, <1>2, <1>3, <1>4, AtStep
<1>6. CASE \E h : Moved(h) /\ At(h, q, inner)
  <2>1. PICK h : Moved(h) /\ At(h, q, inner)
    BY <1>6
  <2>2. frames' = <<h, f>> /\ UNCHANGED <<sink, console>>
    BY <1>1, <2>1, StackOf DEF Moved
  <2>3. Nested(h, f, m, out)
    BY <1>2, <1>3, <2>1 DEF Nested
  <2> QED
    BY <2>2, <2>3 DEF Prints, Underway
<1>7. CASE \E h, chars : Wrote(h, chars) /\ IsSequence(chars) /\ At(h, q, inner \o chars)
  <2>1. PICK h, chars : Wrote(h, chars) /\ IsSequence(chars) /\ At(h, q, inner \o chars)
    BY <1>7
  <2>2. frames' = <<h, f>> /\ Put(chars)
    BY <1>1, <2>1, StackOf DEF Wrote
  <2>3. out \o chars = base \o (inner \o chars) /\ IsSequence(inner \o chars)
    BY <1>2, <2>1, ConcatAgain, ConcatSequences
  <2>4. Nested(h, f, m, out \o chars)
    BY <1>2, <1>3, <2>1, <2>3 DEF Nested
  <2> QED
    BY <2>1, <2>2, <2>4 DEF Prints, Underway
<1>8. CASE frames' = Tail(frames) /\ UNCHANGED <<sink, console>> /\ inner = RenderedText(q)
  <2>1. frames' = <<f>> /\ At(f, m, out)
    BY <1>1, <1>2, <1>4, <1>8
  <2> QED
    BY <1>8, <2>1 DEF Prints, Underway
<1>9. CASE \E h, x : /\ frames' = <<CallFor(x), h>> \o Tail(frames) /\ UNCHANGED <<sink, console>>
                     /\ x \in Nat /\ x < Powers(2)[IntBits - 1]
                     /\ At(h, q, inner \o ErrorText(x))
                     /\ \E k \in 1..Len(q) : q[k].conv = "e"
  BY <1>4, <1>9 DEF NoError
<1> QED
  BY <1>5, <1>6, <1>7, <1>8, <1>9 DEF Advance

LEMMA UnderwayStep ==
  ASSUME vprintfmt, NEW m, IsMessage(m), NEW out, IsSequence(out), Underway(frames, m, out)
  PROVE  Prints(m, out)
BY SingleStep, NestedStep DEF Underway

LEMMA UnderwayStarts ==
  ASSUME NEW m, IsMessage(m)
  PROVE  Underway(<<Frame(FormatOf(m), ArgsOf(m))>>, m, <<>>)
BY StartsAt DEF Underway

LEMMA UnderwayCalls ==
  ASSUME NEW calls, NEW m, NEW out, Underway(calls, m, out)
  PROVE  calls # <<>>
BY DEF Underway

-----------------------------------------------------------------------------
(* What the text that is written becomes in the sink.                      *)

\* out has been written to the sink since its call began, when the console showed
\* before; size is that of the buffer, for snprintf.
SunkOnConsole(dest, shown, before, out) ==
  /\ dest = [fn |-> "cputch", cnt |-> Len(out)]
  /\ shown = before \o out
SunkInBuffer(dest, shown, size, out) ==
  /\ dest = Filled(size, out)
  /\ shown = <<>>

LEMMA PutOnConsole ==
  ASSUME NEW before, IsSequence(before), NEW out, IsSequence(out), NEW chars,
         IsSequence(chars), SunkOnConsole(sink, console, before, out), Put(chars)
  PROVE  SunkOnConsole(sink', console', before, out \o chars)
<1>1. sink = [fn |-> "cputch", cnt |-> Len(out)] /\ console = before \o out
  BY DEF SunkOnConsole
<1>2. PICK n : n = Len(out)
  OBVIOUS
<1>3. sink.fn = "cputch" /\ sink.cnt = n
  BY <1>1, <1>2
<1>4. console' = console \o chars /\ sink' = [sink EXCEPT !.cnt = n + Len(chars)]
  BY <1>3 DEF Put
<1>5. Len(out \o chars) = n + Len(chars)
  BY <1>2, ConcatSequences
<1>6. PICK z : z = n + Len(chars)
  OBVIOUS
<1>7. sink' = [fn |-> "cputch", cnt |-> z]
  BY <1>1, <1>4, <1>6
<1>8. console' = before \o (out \o chars)
  BY <1>1, <1>4, ConcatAgain
<1> QED
  BY <1>5, <1>6, <1>7, <1>8 DEF SunkOnConsole

LEMMA PutInBuffer ==
  ASSUME NEW size \in Nat \ {0}, NEW out, IsSequence(out), NEW chars,
         IsSequence(chars), SunkInBuffer(sink, console, size, out), Put(chars)
  PROVE  SunkInBuffer(sink', console', size, out \o chars)
<1>1. sink = Filled(size, out) /\ console = <<>>
  BY DEF SunkInBuffer
<1>2. sink.fn # "cputch"
  BY <1>1 DEF Filled, BufferOf
<1>3. sink' = Buffered(sink, chars) /\ console' = console
  BY <1>2 DEF Put
<1>4. Buffered(Filled(size, out), chars) = Filled(size, out \o chars)
  BY BufferedIs
<1> QED
  BY <1>1, <1>3, <1>4 DEF SunkInBuffer

-----------------------------------------------------------------------------
(* What a call prints: its messages, one behind the other.                 *)

Callers == {"cprintf", "snprintf", "print_kerninfo", "__warn", "__panic", "readline"}
RequestTyped(c) ==
  /\ c.fn \in Callers \cup {"none", "cputs"}
  /\ c.fn \in {"cprintf", "snprintf"} => c.message \in Messages
  /\ c.fn \in {"__warn", "__panic"} => c.message \in PanicMessages
  /\ c.fn = "snprintf" => c.size \in Nat
  /\ c.fn = "cputs" => \E m \in Messages : c.str = FormatOf(m)
  /\ c.fn = "readline" => c.prompt \in Prompts

\* The call has something to print.
Printer(c) ==
  /\ c.fn \in Callers
  /\ c.fn = "snprintf" => c.size # 0
  /\ c.fn = "readline" => c.prompt # NullPointer

ToPrint(c) ==
  CASE c.fn \in {"cprintf", "snprintf"} -> <<c.message>>
    [] c.fn = "print_kerninfo" -> KernelInfo
    [] c.fn = "__warn" -> PanicText("kernel warning at ", c.message)
    [] c.fn = "__panic" -> PanicText("kernel panic at ", c.message)
    [] c.fn = "readline" -> << <<String(c.prompt)>> >>

AreMessages(M) == M \in Seq(Range(M)) /\ \A k \in 1..Len(M) : IsMessage(M[k])

LEMMA MessageOf ==
  ASSUME NEW V, NEW m \in Seq(V), \A k \in 1..Len(m) : IsDirective(m[k]) /\ m[k].conv # NUL
  PROVE  IsMessage(m)
BY DEF IsMessage

LEMMA ThreeMembers ==
  ASSUME NEW a, NEW b, NEW c, NEW m, m = <<a, b, c>>
  PROVE  m \in Seq({a, b, c}) /\ m # <<>> /\ \A k \in 1..Len(m) : m[k] \in {a, b, c}
OBVIOUS

LEMMA FiveMembers ==
  ASSUME NEW a, NEW b, NEW c, NEW d, NEW e, NEW m, m = <<a, b, c, d, e>>
  PROVE  m \in Seq({a, b, c, d, e}) /\ \A k \in 1..Len(m) : m[k] \in {a, b, c, d, e}
OBVIOUS

\* The heading of a panic and the end of its line are messages, and so is what
\* print_kerninfo says.
Wording(c) == c \notin {"%", NUL}

LEMMA HeadingIs ==
  ASSUME NEW what, Wording(what)
  PROVE  IsMessage(Heading(what))
<1>1. PICK file : file = <<"file.c">>
  OBVIOUS
<1>2. IsSequence(file)
  BY <1>1, OneIsSequence
<1>3. PICK s : s = String(file)
  OBVIOUS
<1>4. IsDirective(s) /\ s.conv = "s"
  BY <1>2, <1>3, StringFits
<1>5. PICK seven \in Int : seven = 7
  OBVIOUS
<1>6. PICK v : v = Decimal32(seven)
  OBVIOUS
<1>7. IsDirective(v) /\ v.conv = "d"
  BY <1>6, DecimalFits
<1>8. \A c \in {":", ":LF    "} : c # "%" /\ c # "NUL"
  OBVIOUS
<1>9. \A c \in {what, ":", ":LF    "} : IsDirective(Text(c)) /\ Text(c).conv = "text"
  BY <1>8, TextFits DEF Wording, NUL
<1>10. PICK a, b, c : a = Text(what) /\ b = Text(":") /\ c = Text(":LF    ")
  OBVIOUS
<1>11. /\ IsDirective(a) /\ a.conv = "text"
       /\ IsDirective(b) /\ b.conv = "text"
       /\ IsDirective(c) /\ c.conv = "text"
  BY <1>9, <1>10
<1>12. Heading(what) = <<a, s, b, v, c>>
  BY <1>1, <1>3, <1>5, <1>6, <1>10 DEF Heading
<1>13. PICK m : m = <<a, s, b, v, c>>
  OBVIOUS
<1>14. m \in Seq({a, s, b, v, c}) /\ \A k \in 1..Len(m) : m[k] \in {a, s, b, v, c}
  BY <1>13, FiveMembers
<1>15. "text" # NUL /\ "s" # NUL /\ "d" # NUL
  BY DEF NUL
<1>16. \A x \in {a, s, b, v, c} : IsDirective(x) /\ x.conv # NUL
  BY <1>4, <1>7, <1>11, <1>15
<1>17. IsMessage(m)
  BY <1>14, <1>16, MessageOf
<1> QED
  BY <1>12, <1>13, <1>17

LEMMA NewlineIs == IsMessage(Newline)
<1>1. "LF" # "%" /\ "LF" # NUL
  BY DEF NUL
<1>2. IsDirective(Text("LF"))
  BY <1>1, TextFits
<1> QED
  BY <1>2, OnePiece DEF Newline

LEMMA SymbolIs ==
  ASSUME NEW name \in {"entry", "etext", "edata", "end"}
  PROVE  IsMessage(<<Text(name), Long016x(KernelSymbols[name]), Text(" (virtual)LF")>>)
<1>1. \A c \in {"entry", "etext", "edata", "end", " (virtual)LF"} : c # "%" /\ c # "NUL"
  OBVIOUS
<1>2. \A c \in {"entry", "etext", "edata", "end", " (virtual)LF"} :
        IsDirective(Text(c)) /\ Text(c).conv = "text"
  BY <1>1, TextFits DEF NUL
<1>3. PICK v : v = KernelSymbols[name]
  OBVIOUS
<1>4. v \in Int
  BY <1>3, MessagesAssumption
<1>5. PICK a, b, c : a = Text(name) /\ b = Long016x(v) /\ c = Text(" (virtual)LF")
  OBVIOUS
<1>6. /\ IsDirective(a) /\ a.conv = "text"
      /\ IsDirective(b) /\ b.conv = "x"
      /\ IsDirective(c) /\ c.conv = "text"
  BY <1>2, <1>4, <1>5, LongFits
<1>7. PICK m : m = <<a, b, c>>
  OBVIOUS
<1>8. m \in Seq({a, b, c}) /\ \A k \in 1..Len(m) : m[k] \in {a, b, c}
  BY <1>7
<1>9. "text" # NUL /\ "x" # NUL
  BY DEF NUL
<1>10. \A x \in {a, b, c} : IsDirective(x) /\ x.conv # NUL
  BY <1>6, <1>9
<1>11. IsMessage(m)
  BY <1>8, <1>10, MessageOf
<1> QED
  BY <1>3, <1>5, <1>7, <1>11

LEMMA FootprintIs ==
  ASSUME NEW v \in Int
  PROVE  IsMessage(<<Text("Kernel executable memory footprint: "), Decimal32(v), Text("KBLF")>>)
<1>1. \A c \in {"Kernel executable memory footprint: ", "KBLF"} : c # "%" /\ c # "NUL"
  OBVIOUS
<1>2. \A c \in {"Kernel executable memory footprint: ", "KBLF"} :
        IsDirective(Text(c)) /\ Text(c).conv = "text"
  BY <1>1, TextFits DEF NUL
<1>3. PICK a, b, c : /\ a = Text("Kernel executable memory footprint: ")
                     /\ b = Decimal32(v) /\ c = Text("KBLF")
  OBVIOUS
<1>4. /\ IsDirective(a) /\ a.conv = "text"
      /\ IsDirective(b) /\ b.conv = "d"
      /\ IsDirective(c) /\ c.conv = "text"
  BY <1>2, <1>3, DecimalFits
<1>5. PICK m : m = <<a, b, c>>
  OBVIOUS
<1>6. m \in Seq({a, b, c}) /\ \A k \in 1..Len(m) : m[k] \in {a, b, c}
  BY <1>5
<1>7. "text" # NUL /\ "d" # NUL
  BY DEF NUL
<1>8. \A x \in {a, b, c} : IsDirective(x) /\ x.conv # NUL
  BY <1>4, <1>7
<1>9. IsMessage(m)
  BY <1>6, <1>8, MessageOf
<1> QED
  BY <1>3, <1>5, <1>9

LEMMA MessagesAre ==
  ASSUME NEW V, NEW M \in Seq(V), \A k \in 1..Len(M) : IsMessage(M[k])
  PROVE  AreMessages(M)
<1>1. M \in Seq(Range(M))
  BY SequenceOf DEF IsSequence
<1> QED
  BY <1>1 DEF AreMessages

LEMMA KernelInfoIs == AreMessages(KernelInfo) /\ KernelInfo # <<>>
<1> DEFINE Symbol(name) == <<Text(name), Long016x(KernelSymbols[name]), Text(" (virtual)LF")>>
<1>1. PICK v : v = (KernelSymbols["end"] - KernelSymbols["entry"] + 1023) \div 1024
  OBVIOUS
<1>2. KernelSymbols["end"] \in Int /\ KernelSymbols["entry"] \in Int
  BY MessagesAssumption
<1>3. v \in Int
  BY <1>1, <1>2
<1>4. \A name \in {"entry", "etext", "edata", "end"} : IsMessage(Symbol(name))
  BY SymbolIs
<1>5. PICK b, c, d, e : /\ b = Symbol("entry") /\ c = Symbol("etext")
                        /\ d = Symbol("edata") /\ e = Symbol("end")
  OBVIOUS
<1>6. IsMessage(b) /\ IsMessage(c) /\ IsMessage(d) /\ IsMessage(e)
  BY <1>4, <1>5
<1>7. PICK a : a = <<Text("Special kernel symbols:LF")>>
  OBVIOUS
<1>8. IsMessage(a)
  <2>1. "Special kernel symbols:LF" # "%" /\ "Special kernel symbols:LF" # NUL
    BY DEF NUL
  <2>2. IsDirective(Text("Special kernel symbols:LF"))
    BY <2>1, TextFits
  <2> QED
    BY <1>7, <2>2, OnePiece
<1>9. PICK f : f = <<Text("Kernel executable memory footprint: "), Decimal32(v), Text("KBLF")>>
  OBVIOUS
<1>10. IsMessage(f)
  BY <1>3, <1>9, FootprintIs
<1>11. KernelInfo = <<a, b, c, d, e, f>>
  <2>1. KernelInfo = <<a, Symbol("entry"), Symbol("etext"), Symbol("edata"), Symbol("end"), f>>
    <3> DEFINE first == <<Text("Special kernel symbols:LF")>>
               last == <<Text("Kernel executable memory footprint: "),
                         Decimal32((KernelSymbols["end"] - KernelSymbols["entry"] + 1023) \div 1024),
                         Text("KBLF")>>
    <3>1. KernelInfo = <<first, Symbol("entry"), Symbol("etext"), Symbol("edata"), Symbol("end"), last>>
      BY Zenon DEF KernelInfo
    <3>2. f = last
      BY <1>1, <1>9, Zenon
    <3>3. a = first
      BY <1>7
    <3> HIDE DEF Symbol, first, last
    <3> QED
      BY <3>1, <3>2, <3>3
  <2> HIDE DEF Symbol
  <2> QED
    BY <1>5, <2>1
<1>12. PICK M : M = <<a, b, c, d, e, f>>
  OBVIOUS
<1>13. /\ M \in Seq({a, b, c, d, e, f}) /\ M # <<>>
       /\ \A k \in 1..Len(M) : M[k] \in {a, b, c, d, e, f}
  BY <1>12
<1>14. \A k \in 1..Len(M) : IsMessage(M[k])
  BY <1>6, <1>8, <1>10, <1>13
<1> QED
  BY <1>11, <1>12, <1>13, <1>14, MessagesAre

LEMMA PanicTextIs ==
  ASSUME NEW what, Wording(what), NEW message, IsMessage(message)
  PROVE  AreMessages(PanicText(what, message)) /\ PanicText(what, message) # <<>>
<1>1. PICK a, c : a = Heading(what) /\ c = Newline
  OBVIOUS
<1>2. IsMessage(a) /\ IsMessage(c)
  BY <1>1, HeadingIs, NewlineIs
<1>3. PICK M : M = <<a, message, c>>
  OBVIOUS
<1>4. /\ M \in Seq({a, message, c}) /\ M # <<>>
      /\ \A k \in 1..Len(M) : M[k] \in {a, message, c}
  BY <1>3, ThreeMembers
<1>5. \A k \in 1..Len(M) : IsMessage(M[k])
  BY <1>2, <1>4
<1>6. PanicText(what, message) = M
  BY <1>1, <1>3 DEF PanicText
<1> QED
  BY <1>4, <1>5, <1>6, MessagesAre

LEMMA OneMessage ==
  ASSUME NEW m, IsMessage(m)
  PROVE  AreMessages(<<m>>) /\ <<m>> # <<>>
<1>1. <<m>> \in Seq({m}) /\ \A k \in 1..Len(<<m>>) : <<m>>[k] = m
  OBVIOUS
<1> QED
  BY <1>1, MessagesAre

LEMMA PromptIs ==
  ASSUME NEW p \in Prompts, p # NullPointer
  PROVE  /\ AreMessages(<< <<String(p)>> >>)
         /\ IsMessage(<<String(p)>>) /\ RenderedText(<<String(p)>>) = p /\ IsSequence(p)
<1>1. IsSequence(p)
  BY LineAssumption
<1>2. PICK d : d = String(p)
  OBVIOUS
<1>3. IsDirective(d) /\ Rendered(d) = p
  BY <1>1, <1>2, StringFits
<1>4. PICK m : m = <<d>>
  OBVIOUS
<1>5. IsMessage(m) /\ RenderedText(m) = p
  BY <1>3, <1>4, OnePiece
<1>6. AreMessages(<<m>>)
  BY <1>5, OneMessage
<1> QED
  BY <1>1, <1>2, <1>4, <1>5, <1>6

LEMMA ToPrintCases ==
  ASSUME NEW c
  PROVE  /\ c.fn = "cprintf" => ToPrint(c) = <<c.message>>
         /\ c.fn = "snprintf" => ToPrint(c) = <<c.message>>
         /\ c.fn = "print_kerninfo" => ToPrint(c) = KernelInfo
         /\ c.fn = "__warn" => ToPrint(c) = PanicText("kernel warning at ", c.message)
         /\ c.fn = "__panic" => ToPrint(c) = PanicText("kernel panic at ", c.message)
         /\ c.fn = "readline" => ToPrint(c) = << <<String(c.prompt)>> >>
BY DEF ToPrint

LEMMA ToPrintIs ==
  ASSUME NEW c, RequestTyped(c), Printer(c)
  PROVE  AreMessages(ToPrint(c)) /\ ToPrint(c) # <<>>
<1>1. CASE c.fn = "cprintf"
  BY <1>1, ToPrintCases, OneMessage, MessagesAssumption DEF RequestTyped
<1>2. CASE c.fn = "snprintf"
  BY <1>2, ToPrintCases, OneMessage, MessagesAssumption DEF RequestTyped
<1>3. CASE c.fn = "print_kerninfo"
  BY <1>3, ToPrintCases, KernelInfoIs
<1>4. CASE c.fn = "__warn"
  <2>1. c.message \in PanicMessages
    BY <1>4 DEF RequestTyped
  <2>2. PICK what : what = "kernel warning at "
    OBVIOUS
  <2>3. Wording(what)
    BY <2>2 DEF Wording, NUL
  <2>4. AreMessages(PanicText(what, c.message)) /\ PanicText(what, c.message) # <<>>
    BY <2>1, <2>3, PanicTextIs, MessagesAssumption
  <2> QED
    BY <1>4, <2>2, <2>4, ToPrintCases
<1>5. CASE c.fn = "__panic"
  <2>1. c.message \in PanicMessages
    BY <1>5 DEF RequestTyped
  <2>2. PICK what : what = "kernel panic at "
    OBVIOUS
  <2>3. Wording(what)
    BY <2>2 DEF Wording, NUL
  <2>4. AreMessages(PanicText(what, c.message)) /\ PanicText(what, c.message) # <<>>
    BY <2>1, <2>3, PanicTextIs, MessagesAssumption
  <2> QED
    BY <1>5, <2>2, <2>4, ToPrintCases
<1>6. CASE c.fn = "readline"
  <2>1. c.prompt \in Prompts /\ c.prompt # NullPointer
    BY <1>6 DEF RequestTyped, Printer
  <2>2. PICK p : p = c.prompt
    OBVIOUS
  <2>3. AreMessages(<< <<String(p)>> >>)
    BY <2>1, <2>2, PromptIs
  <2>4. << <<String(p)>> >> # <<>>
    OBVIOUS
  <2> QED
    BY <1>6, <2>2, <2>3, <2>4, ToPrintCases
<1> QED
  BY <1>1, <1>2, <1>3, <1>4, <1>5, <1>6 DEF Printer, Callers

\* The texts of the messages M, up to the k-th.
TextsOf(M) == [k \in 1..Len(M) |-> RenderedText(M[k])]
AllTo(M) == Join(TextsOf(M), Len(M))

LEMMA AllTextIs ==
  ASSUME NEW M, AreMessages(M)
  PROVE  /\ Len(M) \in Nat
         /\ AllTo(M)[0] = <<>>
         /\ \A k \in 1..Len(M) : AllTo(M)[k] = AllTo(M)[k - 1] \o RenderedText(M[k])
         /\ \A k \in 0..Len(M) : IsSequence(AllTo(M)[k])
         /\ AllText(M) = AllTo(M)[Len(M)]
<1> DEFINE n == Len(M)
           p == TextsOf(M)
<1>1. n \in Nat /\ \A k \in 1..n : IsMessage(M[k])
  BY DEF AreMessages
<1>2. \A k \in 1..n : p[k] = RenderedText(M[k])
  BY DEF TextsOf
<1>3. p = [k \in 1..n |-> p[k]]
  BY DEF TextsOf
<1>4. FlattenSeq(p) = AllText(M)
  BY DEF TextsOf, AllText
<1> HIDE DEF p
<1>5. \A k \in 1..n : IsSequence(p[k])
  BY <1>1, <1>2, TextsAre
<1>6. JoinFacts(p, n, Join(p, n)) /\ FlattenSeq(p) = Join(p, n)[n]
  BY <1>1, <1>3, <1>5, JoinFactsHold
<1>7. AllTo(M) = Join(p, n)
  BY DEF AllTo, p
<1>8. JoinFacts(p, n, AllTo(M)) /\ AllText(M) = AllTo(M)[n]
  BY <1>4, <1>6, <1>7
<1> QED
  BY <1>1, <1>2, <1>8 DEF JoinFacts

\* The call c has put its messages before the q-th on the console and, of the q-th,
\* out; snprintf has a buffer of its own and one message.
Sunk(c, dest, shown, q, out) ==
  /\ c.fn = "snprintf" => SunkInBuffer(dest, shown, c.size, out)
  /\ c.fn # "snprintf" => SunkOnConsole(dest, shown, AllTo(ToPrint(c))[q - 1], out)

\* It is between two of its messages, or in one of them.
Waiting(c, q, dest, shown) ==
  \/ q = 0 /\ dest = Cputch /\ shown = <<>>
  \/ q # 0 /\ Sunk(c, dest, shown, q, RenderedText(ToPrint(c)[q]))
Writing(c, q, calls, dest, shown) ==
  q # 0 /\ \E out : /\ IsSequence(out) /\ Underway(calls, ToPrint(c)[q], out)
                    /\ Sunk(c, dest, shown, q, out)
Busy(c, rest, calls, dest, shown) ==
  \E q \in 0..Len(ToPrint(c)) :
    /\ rest = Rest(ToPrint(c), q)
    /\ (calls = <<>> /\ Waiting(c, q, dest, shown)) \/ Writing(c, q, calls, dest, shown)

LEMMA PutSinks ==
  ASSUME RequestTyped(request), Printer(request),
         NEW q \in 1..Len(ToPrint(request)), NEW out, IsSequence(out),
         NEW chars, IsSequence(chars), Sunk(request, sink, console, q, out), Put(chars)
  PROVE  Sunk(request, sink', console', q, out \o chars)
<1>1. CASE request.fn = "snprintf"
  <2>1. SunkInBuffer(sink, console, request.size, out)
    BY <1>1 DEF Sunk
  <2>2. request.size \in Nat \ {0}
    BY <1>1 DEF RequestTyped, Printer
  <2>3. PICK size : size = request.size
    OBVIOUS
  <2>4. SunkInBuffer(sink', console', size, out \o chars)
    BY <2>1, <2>2, <2>3, PutInBuffer
  <2> QED
    BY <1>1, <2>3, <2>4 DEF Sunk
<1>2. CASE request.fn # "snprintf"
  <2>1. PICK before : before = AllTo(ToPrint(request))[q - 1]
    OBVIOUS
  <2>2. SunkOnConsole(sink, console, before, out)
    BY <1>2, <2>1 DEF Sunk
  <2>3. AreMessages(ToPrint(request))
    BY ToPrintIs
  <2>4. \A k \in 0..Len(ToPrint(request)) : IsSequence(AllTo(ToPrint(request))[k])
    BY <2>3, AllTextIs
  <2>5. q - 1 \in 0..Len(ToPrint(request))
    BY <2>3, AllTextIs
  <2>6. IsSequence(before)
    BY <2>1, <2>4, <2>5
  <2>7. SunkOnConsole(sink', console', before, out \o chars)
    BY <2>2, <2>6, PutOnConsole
  <2> QED
    BY <1>2, <2>1, <2>7 DEF Sunk
<1> QED
  BY <1>1, <1>2

LEMMA PrintingStays ==
  ASSUME RequestTyped(request), Printer(request), vprintfmt,
         Busy(request, todo, frames, sink, console)
  PROVE  Busy(request, todo, frames', sink', console')
<1>1. frames # <<>>
  BY DEF vprintfmt
<1>2. PICK q \in 0..Len(ToPrint(request)) :
        todo = Rest(ToPrint(request), q) /\ Writing(request, q, frames, sink, console)
  BY <1>1 DEF Busy
<1>3. PICK out : /\ IsSequence(out) /\ Underway(frames, ToPrint(request)[q], out)
                 /\ Sunk(request, sink, console, q, out)
  BY <1>2 DEF Writing
<1>4. q # 0
  BY <1>2 DEF Writing
<1>5. AreMessages(ToPrint(request)) /\ Len(ToPrint(request)) \in Nat
  BY ToPrintIs, AllTextIs
<1>6. q \in 1..Len(ToPrint(request))
  BY <1>4, <1>5
<1>7. PICK m : m = ToPrint(request)[q]
  OBVIOUS
<1>8. IsMessage(m)
  BY <1>5, <1>6, <1>7 DEF AreMessages
<1>9. Underway(frames, m, out)
  BY <1>3, <1>7
<1>10. Prints(m, out)
  BY <1>3, <1>8, <1>9, UnderwayStep
<1>11. \/ UNCHANGED <<sink, console>> /\ Underway(frames', m, out)
       \/ UNCHANGED <<sink, console>> /\ frames' = <<>> /\ out = RenderedText(m)
       \/ \E chars : Put(chars) /\ IsSequence(chars) /\ Underway(frames', m, out \o chars)
  BY <1>10 DEF Prints
<1>12. CASE UNCHANGED <<sink, console>> /\ Underway(frames', m, out)
  <2>1. Sunk(request, sink', console', q, out)
    BY <1>3, <1>12
  <2>2. Writing(request, q, frames', sink', console')
    BY <1>3, <1>4, <1>7, <1>12, <2>1 DEF Writing
  <2> QED
    BY <1>2, <2>2 DEF Busy
<1>13. CASE UNCHANGED <<sink, console>> /\ frames' = <<>> /\ out = RenderedText(m)
  <2>1. Sunk(request, sink', console', q, RenderedText(ToPrint(request)[q]))
    BY <1>3, <1>7, <1>13
  <2>2. Waiting(request, q, sink', console')
    BY <1>4, <2>1 DEF Waiting
  <2> QED
    BY <1>2, <1>13, <2>2 DEF Busy
<1>14. CASE \E chars : Put(chars) /\ IsSequence(chars) /\ Underway(frames', m, out \o chars)
  <2>1. PICK chars : Put(chars) /\ IsSequence(chars) /\ Underway(frames', m, out \o chars)
    BY <1>14
  <2>2. Sunk(request, sink', console', q, out \o chars)
    BY <1>3, <1>6, <2>1, PutSinks
  <2>3. IsSequence(out \o chars)
    BY <1>3, <2>1, ConcatSequences
  <2>4. Writing(request, q, frames', sink', console')
    BY <1>4, <1>7, <2>1, <2>2, <2>3 DEF Writing
  <2> QED
    BY <1>2, <2>4 DEF Busy
<1> QED
  BY <1>11, <1>12, <1>13, <1>14

LEMMA EmptyFilled ==
  ASSUME NEW size \in Nat \ {0}
  PROVE  Sprintbuf(size) = Filled(size, <<>>)
<1>1. SubSeq(<<>>, 1, Min({Len(<<>>), size - 1})) = <<>> /\ Len(<<>>) = 0
  <2>1. Min({0, size - 1}) = 0
    BY MinIsLeast
  <2>2. Len(<<>>) = 0 /\ <<>> \in Seq({})
    OBVIOUS
  <2> QED
    BY <2>1, <2>2, SubSeqEmpty
<1> QED
  BY <1>1 DEF Sprintbuf, Filled, BufferOf

\* Between two messages, what has been printed is what comes before the next.
LEMMA BetweenMessages ==
  ASSUME NEW c, RequestTyped(c), Printer(c), c.fn # "snprintf",
         NEW q \in 0..Len(ToPrint(c)), NEW dest, NEW shown, Waiting(c, q, dest, shown)
  PROVE  shown = AllTo(ToPrint(c))[q]
<1>1. AreMessages(ToPrint(c))
  BY ToPrintIs
<1>2. PICK J : J = AllTo(ToPrint(c))
  OBVIOUS
<1>3. PICK n : n = Len(ToPrint(c))
  OBVIOUS
<1>4. J[0] = <<>> /\ n \in Nat
  BY <1>1, <1>2, <1>3, AllTextIs
<1>5. \A k \in 1..n : J[k] = J[k - 1] \o RenderedText(ToPrint(c)[k])
  BY <1>1, <1>2, <1>3, AllTextIs
<1>6. CASE q = 0
  BY <1>2, <1>4, <1>6 DEF Waiting
<1>7. CASE q # 0
  <2>1. Sunk(c, dest, shown, q, RenderedText(ToPrint(c)[q]))
    BY <1>7 DEF Waiting
  <2>2. SunkOnConsole(dest, shown, J[q - 1], RenderedText(ToPrint(c)[q]))
    BY <1>2, <2>1 DEF Sunk
  <2>3. shown = J[q - 1] \o RenderedText(ToPrint(c)[q])
    BY <2>2 DEF SunkOnConsole
  <2>4. q \in 1..n
    BY <1>3, <1>4, <1>7
  <2> QED
    BY <1>2, <1>5, <2>3, <2>4
<1> QED
  BY <1>6, <1>7

LEMMA BeginStays ==
  ASSUME RequestTyped(request), Printer(request), BeginPrint,
         Busy(request, todo, frames, sink, console)
  PROVE  Busy(request, todo', frames', sink', console')
<1> DEFINE M == ToPrint(request)
           n == Len(M)
<1>1. AreMessages(M) /\ n \in Nat
  BY ToPrintIs, AllTextIs
<1>2. PICK V : M \in Seq(V)
  BY <1>1 DEF AreMessages
<1>3. /\ frames = <<>> /\ todo # <<>> /\ todo' = Tail(todo) /\ console' = console
      /\ frames' = <<Frame(FormatOf(Head(todo)), ArgsOf(Head(todo)))>>
      /\ sink' = IF request.fn = "snprintf" THEN Sprintbuf(request.size) ELSE Cputch
  BY DEF BeginPrint
<1>4. PICK q \in 0..n :
        /\ todo = Rest(M, q)
        /\ (frames = <<>> /\ Waiting(request, q, sink, console))
             \/ Writing(request, q, frames, sink, console)
  BY DEF Busy
<1>5. ~Writing(request, q, frames, sink, console)
  BY <1>3, UnderwayCalls DEF Writing
<1>6. Waiting(request, q, sink, console)
  BY <1>4, <1>5
<1> HIDE DEF M
<1>7. q < n
  <2>1. q # n
    BY <1>2, <1>3, <1>4, RestNone
  <2> QED
    BY <1>1, <2>1
<1>8. Head(todo) = M[q + 1] /\ todo' = Rest(M, q + 1)
  <2>1. q \in Nat
    BY <1>1
  <2>2. Head(Rest(M, q)) = M[q + 1] /\ Tail(Rest(M, q)) = Rest(M, q + 1)
    BY <1>2, <1>7, <2>1, RestMoves
  <2> QED
    BY <1>3, <1>4, <2>2
<1>9. PICK y : y = q + 1
  OBVIOUS
<1>10. y \in 1..n /\ y \in 0..n /\ y # 0 /\ y - 1 = q
  BY <1>1, <1>7, <1>9
<1>11. IsMessage(M[y])
  BY <1>1, <1>10 DEF AreMessages
<1>12. Underway(frames', M[y], <<>>)
  <2>1. PICK m : m = M[y]
    OBVIOUS
  <2>2. IsMessage(m)
    BY <1>11, <2>1
  <2>3. Underway(<<Frame(FormatOf(m), ArgsOf(m))>>, m, <<>>)
    BY <2>2, UnderwayStarts
  <2> QED
    BY <1>3, <1>8, <1>9, <2>1, <2>3
<1>13. Sunk(request, sink', console', y, <<>>)
  <2>1. CASE request.fn = "snprintf"
    <3>1. M = <<request.message>>
      BY <2>1, ToPrintCases DEF M
    <3>2. n = 1
      BY <3>1
    <3>3. q = 0
      BY <1>7, <3>2
    <3>4. console = <<>>
      BY <1>6, <3>3 DEF Waiting
    <3>5. request.size \in Nat \ {0}
      BY <2>1 DEF RequestTyped, Printer
    <3>6. PICK size : size = request.size
      OBVIOUS
    <3>7. sink' = Filled(size, <<>>)
      BY <1>3, <2>1, <3>5, <3>6, EmptyFilled
    <3>8. SunkInBuffer(sink', console', size, <<>>)
      BY <1>3, <3>4, <3>7 DEF SunkInBuffer
    <3> QED
      BY <2>1, <3>6, <3>8 DEF Sunk
  <2>2. CASE request.fn # "snprintf"
    <3>1. console = AllTo(M)[q]
      BY <1>6, <2>2, BetweenMessages DEF M
    <3>2. PICK before : before = AllTo(M)[q]
      OBVIOUS
    <3>3. IsSequence(before)
      BY <1>1, <3>2, AllTextIs
    <3>4. before = before \o <<>>
      BY <3>3, ConcatNothing
    <3>5. sink' = [fn |-> "cputch", cnt |-> Len(<<>>)]
      <4>1. Len(<<>>) = 0
        OBVIOUS
      <4>2. sink' = Cputch
        BY <1>3, <2>2
      <4> QED
        BY <4>1, <4>2 DEF Cputch
    <3>6. SunkOnConsole(sink', console', before, <<>>)
      BY <1>3, <3>1, <3>2, <3>4, <3>5 DEF SunkOnConsole
    <3>7. AllTo(M)[y - 1] = before
      BY <1>10, <3>2
    <3> QED
      BY <2>2, <3>6, <3>7 DEF Sunk, M
  <2> QED
    BY <2>1, <2>2
<1>14. Writing(request, y, frames', sink', console')
  BY <1>10, <1>12, <1>13, NothingIsSequence DEF Writing, M
<1> QED
  BY <1>8, <1>9, <1>10, <1>14 DEF Busy, M

\* Once the call has no more to print it has printed all of its messages.
LEMMA BusyEnds ==
  ASSUME RequestTyped(request), Printer(request), frames = <<>>, todo = <<>>,
         Busy(request, todo, frames, sink, console)
  PROVE  /\ Len(ToPrint(request)) \in Nat \ {0}
         /\ Sunk(request, sink, console, Len(ToPrint(request)),
                 RenderedText(ToPrint(request)[Len(ToPrint(request))]))
         /\ request.fn # "snprintf" => console = AllText(ToPrint(request))
<1> DEFINE M == ToPrint(request)
           n == Len(M)
<1>1. AreMessages(M) /\ n \in Nat /\ M # <<>>
  BY ToPrintIs, AllTextIs
<1>2. PICK V : M \in Seq(V)
  BY <1>1 DEF AreMessages
<1>3. PICK q \in 0..n :
        /\ todo = Rest(M, q)
        /\ (frames = <<>> /\ Waiting(request, q, sink, console))
             \/ Writing(request, q, frames, sink, console)
  BY DEF Busy
<1>4. ~Writing(request, q, frames, sink, console)
  BY UnderwayCalls DEF Writing
<1>5. Waiting(request, q, sink, console)
  BY <1>3, <1>4
<1>6. q = n
  <2> HIDE DEF M
  <2>1. q < n => Rest(M, q) # <<>>
    <3>1. q \in Nat
      BY <1>1
    <3> QED
      BY <1>2, <3>1, RestMoves
  <2> QED
    BY <1>1, <1>3, <2>1
<1>7. n # 0
  <2> HIDE DEF M
  <2> QED
    BY <1>1, <1>2, EmptySeq
<1>8. Sunk(request, sink, console, n, RenderedText(M[n]))
  BY <1>5, <1>6, <1>7 DEF Waiting
<1>9. request.fn # "snprintf" => console = AllTo(M)[n]
  BY <1>5, <1>6, BetweenMessages
<1>10. AllText(M) = AllTo(M)[n]
  BY <1>1, AllTextIs
<1> QED
  BY <1>1, <1>7, <1>8, <1>9, <1>10

LEMMA FilledFits ==
  ASSUME NEW size \in Nat \ {0}, NEW out, IsSequence(out)
  PROVE  /\ Filled(size, out).fn = "sprintputch"
         /\ Filled(size, out).cnt = Len(out)
         /\ Filled(size, out).buf = SubSeq(out, 1, Min({Len(out), size - 1}))
         /\ Len(Filled(size, out).buf) < size
<1>1. PICK V : out \in Seq(V)
  BY DEF IsSequence
<1>2. PICK n : n = Min({Len(out), size - 1})
  OBVIOUS
<1>3. n \in Nat /\ n <= Len(out) /\ n <= size - 1
  <2>1. {Len(out), size - 1} \in SUBSET Nat /\ {Len(out), size - 1} # {}
    BY <1>1
  <2> QED
    BY <1>2, <2>1, MinIsLeast
<1>4. Len(SubSeq(out, 1, n)) = n
  <2>1. \A x \in 1..n : out[x] \in V
    BY <1>1, <1>3
  <2>2. n = 0 \/ n \in 1..Len(out)
    BY <1>1, <1>3
  <2> QED
    BY <1>1, <1>3, <2>1, <2>2
<1>5. PICK s, z : s = SubSeq(out, 1, Min({Len(out), size - 1})) /\ z = Len(out)
  OBVIOUS
<1>6. Filled(size, out) = [fn |-> "sprintputch", size |-> size, buf |-> s, cnt |-> z]
  BY <1>5 DEF Filled, BufferOf
<1>7. /\ Filled(size, out).fn = "sprintputch"
      /\ Filled(size, out).cnt = z
      /\ Filled(size, out).buf = s
  BY <1>6
<1>8. Len(s) < size
  BY <1>2, <1>3, <1>4, <1>5
<1> QED
  BY <1>5, <1>7, <1>8

LEMMA BusyBounded ==
  ASSUME NEW c, RequestTyped(c), Printer(c), c.fn = "snprintf",
         NEW rest, NEW calls, NEW dest, NEW shown, Busy(c, rest, calls, dest, shown)
  PROVE  shown = <<>> /\ (dest.fn = "sprintputch" => Len(dest.buf) <= c.size)
<1>1. c.size \in Nat \ {0}
  BY DEF RequestTyped, Printer
<1>2. PICK size \in Nat \ {0} : size = c.size
  BY <1>1
<1>3. PICK q \in 0..Len(ToPrint(c)) :
        Waiting(c, q, dest, shown) \/ Writing(c, q, calls, dest, shown)
  BY DEF Busy
<1>4. CASE dest = Cputch /\ shown = <<>>
  BY <1>4 DEF Cputch
<1>5. ASSUME NEW out, IsSequence(out), Sunk(c, dest, shown, q, out)
      PROVE  shown = <<>> /\ Len(dest.buf) <= c.size
  <2>1. dest = Filled(size, out) /\ shown = <<>>
    BY <1>2, <1>5 DEF Sunk, SunkInBuffer
  <2>2. PICK n : n = Len(dest.buf)
    OBVIOUS
  <2>3. Len(Filled(size, out).buf) < size
    BY <1>5, FilledFits
  <2>4. Len(Filled(size, out).buf) \in Int
    <3>1. PICK V : out \in Seq(V)
      BY <1>5 DEF IsSequence
    <3>2. {Len(out), size - 1} \in SUBSET Nat /\ {Len(out), size - 1} # {}
      BY <3>1
    <3>3. PICK z : z = Min({Len(out), size - 1})
      OBVIOUS
    <3>4. z \in Nat /\ z <= Len(out)
      BY <3>2, <3>3, MinIsLeast
    <3>5. \A x \in 1..z : out[x] \in V
      BY <3>1, <3>4
    <3>6. Len(SubSeq(out, 1, z)) \in Nat
      BY <3>1, <3>4, <3>5, SubSeqProperties
    <3> QED
      BY <1>5, <3>3, <3>6, FilledFits
  <2> QED
    BY <1>2, <2>1, <2>3, <2>4
<1>6. CASE Writing(c, q, calls, dest, shown)
  BY <1>5, <1>6 DEF Writing
<1>7. CASE Waiting(c, q, dest, shown)
  <2>1. CASE q = 0
    BY <1>4, <1>7, <2>1 DEF Waiting
  <2>2. CASE q # 0
    <3>1. AreMessages(ToPrint(c)) /\ Len(ToPrint(c)) \in Nat
      BY ToPrintIs, AllTextIs
    <3>2. q \in 1..Len(ToPrint(c))
      BY <2>2, <3>1
    <3>3. PICK m : m = ToPrint(c)[q]
      OBVIOUS
    <3>4. IsMessage(m)
      BY <3>1, <3>2, <3>3 DEF AreMessages
    <3>5. IsSequence(RenderedText(m))
      BY <3>4, TextsAre
    <3>6. Sunk(c, dest, shown, q, RenderedText(m))
      BY <1>7, <2>2, <3>3 DEF Waiting
    <3> QED
      BY <1>5, <3>5, <3>6
  <2> QED
    BY <2>1, <2>2
<1> QED
  BY <1>3, <1>6, <1>7

-----------------------------------------------------------------------------
(* The invariant of the calls that print.                                  *)

PrintInv ==
  /\ RequestTyped(request)
  /\ pc \in {"idle", "print", "edit", "dead", "done"}
  /\ pc = "idle" => request.fn = "none" /\ sink = Cputch /\ console = <<>>
  /\ pc = "print" => Printer(request) /\ Busy(request, todo, frames, sink, console)
  /\ pc # "print" => frames = <<>> /\ todo = <<>>
  /\ pc = "edit" => request.fn = "readline"
  /\ request.fn = "__panic" => is_panic
  /\ pc = "dead" => is_panic
  /\ TextRendered
  /\ BufferBounded

LEMMA PrintInit == ConsoleInit => PrintInv
<1> SUFFICES ASSUME ConsoleInit PROVE PrintInv
  OBVIOUS
<1>1. /\ frames = <<>> /\ sink = Cputch /\ console = <<>>
      /\ request.fn = "none" /\ pc = "idle" /\ todo = <<>>
  BY DEF ConsoleInit
<1>2. RequestTyped(request)
  BY <1>1 DEF RequestTyped
<1>3. TextRendered /\ BufferBounded
  BY <1>1 DEF TextRendered, BufferBounded
<1> QED
  BY <1>1, <1>2, <1>3 DEF PrintInv

\* A call that starts to print has printed nothing.
LEMMA StartBusy ==
  ASSUME NEW c, RequestTyped(c), Printer(c)
  PROVE  Busy(c, ToPrint(c), <<>>, Cputch, <<>>)
<1>1. AreMessages(ToPrint(c)) /\ Len(ToPrint(c)) \in Nat
  BY ToPrintIs, AllTextIs
<1>2. Rest(ToPrint(c), 0) = ToPrint(c)
  BY <1>1, RestAll DEF AreMessages
<1>3. 0 \in 0..Len(ToPrint(c))
  BY <1>1
<1>4. Waiting(c, 0, Cputch, <<>>)
  BY DEF Waiting
<1> QED
  BY <1>2, <1>3, <1>4 DEF Busy

LEMMA StartPrints ==
  ASSUME PrintInv, pc = "idle", NEW c, RequestTyped(c), Printer(c), c.fn # "readline",
         request' = c, todo' = ToPrint(c), pc' = "print", UNCHANGED printVars,
         c.fn = "__panic" => is_panic'
  PROVE  PrintInv'
<1>1. frames' = <<>> /\ sink' = Cputch /\ console' = <<>>
  BY DEF PrintInv, printVars
<1>2. Busy(request', todo', frames', sink', console')
  BY <1>1, StartBusy
<1>3. TextRendered'
  BY DEF TextRendered
<1>4. BufferBounded'
  BY <1>1 DEF BufferBounded, Cputch
<1>5. pc' # "idle" /\ pc' # "edit" /\ pc' # "dead" /\ pc' # "done"
  OBVIOUS
<1> QED
  BY <1>2, <1>3, <1>4, <1>5 DEF PrintInv

LEMMA CprintfPrints ==
  ASSUME PrintInv, pc = "idle", NEW m \in Messages, CallCprintf(m)
  PROVE  PrintInv'
<1>1. PICK c : c = [fn |-> "cprintf", message |-> m]
  OBVIOUS
<1>2. c.fn = "cprintf" /\ c.message = m
  BY <1>1
<1>3. /\ request' = c /\ todo' = <<m>> /\ pc' = "print" /\ UNCHANGED printVars
  BY <1>1 DEF CallCprintf, Start
<1>4. RequestTyped(c) /\ Printer(c)
  BY <1>2 DEF RequestTyped, Printer, Callers
<1>5. todo' = ToPrint(c)
  BY <1>2, <1>3, ToPrintCases
<1> QED
  BY <1>2, <1>3, <1>4, <1>5, StartPrints

LEMMA KerninfoPrints ==
  ASSUME PrintInv, pc = "idle", CallPrintKerninfo
  PROVE  PrintInv'
<1>1. PICK c : c = [fn |-> "print_kerninfo"]
  OBVIOUS
<1>2. c.fn = "print_kerninfo"
  BY <1>1
<1>3. /\ request' = c /\ todo' = KernelInfo /\ pc' = "print" /\ UNCHANGED printVars
  BY <1>1 DEF CallPrintKerninfo, Start
<1>4. RequestTyped(c) /\ Printer(c)
  BY <1>2 DEF RequestTyped, Printer, Callers
<1>5. todo' = ToPrint(c)
  BY <1>2, <1>3, ToPrintCases
<1> QED
  BY <1>2, <1>3, <1>4, <1>5, StartPrints

LEMMA WarnPrints ==
  ASSUME PrintInv, pc = "idle", NEW m \in PanicMessages, __warn(m)
  PROVE  PrintInv'
<1>1. PICK c : c = [fn |-> "__warn", message |-> m]
  OBVIOUS
<1>2. c.fn = "__warn" /\ c.message = m
  BY <1>1
<1>3. /\ request' = c /\ todo' = PanicText("kernel warning at ", m)
      /\ pc' = "print" /\ UNCHANGED printVars
  BY <1>1 DEF __warn, Start
<1>4. RequestTyped(c) /\ Printer(c)
  BY <1>2 DEF RequestTyped, Printer, Callers
<1>5. todo' = ToPrint(c)
  BY <1>2, <1>3, ToPrintCases
<1> QED
  BY <1>2, <1>3, <1>4, <1>5, StartPrints

LEMMA PanicPrints ==
  ASSUME PrintInv, pc = "idle", NEW m \in PanicMessages, __panic(m)
  PROVE  PrintInv'
<1>1. is_panic' = TRUE
  BY DEF __panic
<1>2. CASE is_panic
  <2>1. /\ pc' = "dead" /\ request' = request /\ todo' = todo
        /\ frames' = frames /\ sink' = sink /\ console' = console
    BY <1>2 DEF __panic, printVars
  <2>2. request.fn = "none" /\ frames = <<>> /\ todo = <<>>
    BY DEF PrintInv
  <2>3. TextRendered' /\ BufferBounded'
    BY <1>1, <2>1, <2>2 DEF TextRendered, BufferBounded
  <2> QED
    BY <1>1, <2>1, <2>2, <2>3 DEF PrintInv
<1>3. CASE ~is_panic
  <2>1. PICK c : c = [fn |-> "__panic", message |-> m]
    OBVIOUS
  <2>2. c.fn = "__panic" /\ c.message = m
    BY <2>1
  <2>3. /\ request' = c /\ todo' = PanicText("kernel panic at ", m)
        /\ pc' = "print" /\ UNCHANGED printVars
    BY <1>3, <2>1 DEF __panic, Start
  <2>4. RequestTyped(c) /\ Printer(c)
    BY <2>2 DEF RequestTyped, Printer, Callers
  <2>5. todo' = ToPrint(c)
    BY <2>2, <2>3, ToPrintCases
  <2> QED
    BY <1>1, <2>2, <2>3, <2>4, <2>5, StartPrints
<1> QED
  BY <1>2, <1>3

LEMMA SnprintfPrints ==
  ASSUME PrintInv, pc = "idle", NEW m \in Messages, NEW size \in Sizes, snprintf(m, size)
  PROVE  PrintInv'
<1>1. PICK c : c = [fn |-> "snprintf", message |-> m, size |-> size]
  OBVIOUS
<1>2. c.fn = "snprintf" /\ c.message = m /\ c.size = size
  BY <1>1
<1>3. size \in Nat
  BY ConsoleAssumption
<1>4. RequestTyped(c)
  BY <1>2, <1>3 DEF RequestTyped, Callers
<1>5. CASE size = 0
  <2>1. /\ request' = c /\ pc' = "done" /\ result' = -E_INVAL
        /\ todo' = todo /\ frames' = frames /\ sink' = sink /\ console' = console
    BY <1>1, <1>5 DEF snprintf, printVars
  <2>2. frames = <<>> /\ todo = <<>> /\ sink = Cputch /\ console = <<>>
    BY DEF PrintInv
  <2>3. TextRendered'
    BY <1>2, <2>1 DEF TextRendered
  <2>4. sink'.fn # "sprintputch"
    BY <2>1, <2>2 DEF Cputch
  <2>5. BufferBounded'
    BY <1>2, <1>5, <2>1, <2>2, <2>4 DEF BufferBounded
  <2> QED
    BY <1>2, <1>4, <2>1, <2>2, <2>3, <2>5 DEF PrintInv
<1>6. CASE size # 0
  <2>1. request' = c /\ todo' = <<m>> /\ pc' = "print" /\ UNCHANGED printVars
    BY <1>1, <1>6 DEF snprintf, Start
  <2>2. Printer(c)
    BY <1>2, <1>6 DEF Printer, Callers
  <2>3. todo' = ToPrint(c)
    BY <1>2, <2>1, ToPrintCases
  <2> QED
    BY <1>2, <1>4, <2>1, <2>2, <2>3, StartPrints
<1> QED
  BY <1>5, <1>6

LEMMA CputsPrints ==
  ASSUME PrintInv, pc = "idle", NEW m \in Messages, cputs(FormatOf(m))
  PROVE  PrintInv'
<1>1. PICK str : str = FormatOf(m)
  OBVIOUS
<1>2. IsSequence(str)
  BY <1>1, FormatTyped, MessagesAssumption
<1>3. PICK c : c = [fn |-> "cputs", str |-> str]
  OBVIOUS
<1>4. c.fn = "cputs" /\ c.str = str
  BY <1>3
<1>5. RequestTyped(c)
  BY <1>1, <1>4 DEF RequestTyped, Callers
<1>6. /\ request' = c /\ pc' = "done" /\ console' = str \o <<"LF">> /\ result' = Len(str) + 1
      /\ frames' = frames /\ todo' = todo
  BY <1>1, <1>3 DEF cputs
<1>7. Len(str \o <<"LF">>) = Len(str) + 1
  BY <1>2, OneIsSequence, ConcatSequences
<1>8. frames = <<>> /\ todo = <<>>
  BY DEF PrintInv
<1>9. TextRendered'
  BY <1>4, <1>6, <1>7 DEF TextRendered
<1>10. BufferBounded'
  BY <1>4, <1>6 DEF BufferBounded
<1> QED
  BY <1>4, <1>5, <1>6, <1>8, <1>9, <1>10 DEF PrintInv

LEMMA PromptPrints ==
  ASSUME PrintInv, pc = "idle", NEW p \in Prompts, NEW left, readline(p, left)
  PROVE  PrintInv'
<1>1. PICK c : c = [fn |-> "readline", prompt |-> p]
  OBVIOUS
<1>2. c.fn = "readline" /\ c.prompt = p
  BY <1>1
<1>3. request' = c /\ frames' = frames /\ sink' = sink /\ console' = console
  BY <1>1 DEF readline, printVars
<1>4. RequestTyped(c)
  BY <1>2 DEF RequestTyped, Callers
<1>5. frames = <<>> /\ sink = Cputch /\ console = <<>>
  BY DEF PrintInv
<1>6. TextRendered' /\ BufferBounded'
  <2>1. pc' # "dead"
    BY DEF readline
  <2> QED
    BY <1>2, <1>3, <2>1 DEF TextRendered, BufferBounded
<1>7. CASE p = NullPointer
  <2>1. pc' = "edit" /\ todo' = <<>>
    BY <1>7 DEF readline
  <2> QED
    BY <1>2, <1>3, <1>4, <1>5, <1>6, <2>1 DEF PrintInv
<1>8. CASE p # NullPointer
  <2>1. pc' = "print" /\ todo' = << <<String(p)>> >>
    BY <1>8 DEF readline
  <2>2. Printer(c)
    BY <1>2, <1>8 DEF Printer, Callers
  <2>3. todo' = ToPrint(c)
    BY <1>2, <2>1, ToPrintCases
  <2>4. Busy(request', todo', frames', sink', console')
    BY <1>3, <1>4, <1>5, <2>2, <2>3, StartBusy
  <2> QED
    BY <1>2, <1>3, <1>4, <1>6, <2>1, <2>2, <2>4 DEF PrintInv
<1> QED
  BY <1>7, <1>8

\* While a call prints, its buffer is never too full.
LEMMA BusyPrints ==
  ASSUME PrintInv, pc = "print", Busy(request, todo', frames', sink', console'),
         UNCHANGED <<request, pc, is_panic>>
  PROVE  PrintInv'
<1>1. RequestTyped(request) /\ Printer(request)
  BY DEF PrintInv
<1>2. TextRendered'
  BY DEF TextRendered
<1>3. BufferBounded'
  <2>1. request.fn = "snprintf" =>
          console' = <<>> /\ (sink'.fn = "sprintputch" => Len(sink'.buf) <= request.size)
    BY <1>1, BusyBounded
  <2> QED
    BY <2>1 DEF BufferBounded
<1> QED
  BY <1>2, <1>3 DEF PrintInv

LEMMA BeginPrints ==
  ASSUME PrintInv, BeginPrint
  PROVE  PrintInv'
<1>1. pc = "print" /\ UNCHANGED <<request, pc, is_panic>>
  BY DEF BeginPrint
<1>2. Busy(request, todo', frames', sink', console')
  BY <1>1, BeginStays DEF PrintInv
<1> QED
  BY <1>1, <1>2, BusyPrints

LEMMA PrintingPrints ==
  ASSUME PrintInv, Printing
  PROVE  PrintInv'
<1>1. pc = "print" /\ vprintfmt /\ UNCHANGED <<request, pc, is_panic>> /\ todo' = todo
  BY DEF Printing, callVars
<1>2. Busy(request, todo, frames', sink', console')
  BY <1>1, PrintingStays DEF PrintInv
<1> QED
  BY <1>1, <1>2, BusyPrints

\* What snprintf leaves: its buffer ended with NUL.
LEMMA SnprintfEnds ==
  ASSUME PrintInv, EndPrint, request.fn = "snprintf"
  PROVE  TextRendered' /\ BufferBounded'
<1>1. /\ pc = "print" /\ frames = <<>> /\ todo = <<>> /\ pc' = "done" /\ result' = sink.cnt
      /\ sink' = IF sink.fn = "sprintputch" THEN [sink EXCEPT !.buf = Append(@, NUL)] ELSE sink
      /\ request' = request /\ console' = console
  BY DEF EndPrint
<1>2. /\ RequestTyped(request) /\ Printer(request)
      /\ Busy(request, todo, frames, sink, console)
  BY <1>1 DEF PrintInv
<1>3. PICK size \in Nat \ {0} : size = request.size
  BY <1>2 DEF RequestTyped, Printer
<1>4. PICK m \in Messages : m = request.message
  BY <1>2 DEF RequestTyped
<1>5. PICK text : text = RenderedText(m)
  OBVIOUS
<1>6. IsSequence(text)
  BY <1>5, TextsAre, MessagesAssumption
<1>7. ToPrint(request) = <<m>>
  BY <1>4, ToPrintCases
<1>8. Len(ToPrint(request)) = 1 /\ ToPrint(request)[1] = m
  BY <1>7
<1>9. Sunk(request, sink, console, 1, text)
  BY <1>1, <1>2, <1>5, <1>8, BusyEnds
<1>10. sink = Filled(size, text) /\ console = <<>>
  BY <1>3, <1>9 DEF Sunk, SunkInBuffer
<1>11. PICK fits : fits = Min({Len(text), size - 1})
  OBVIOUS
<1>12. PICK s, z : s = SubSeq(text, 1, fits) /\ z = Len(text)
  OBVIOUS
<1>13. sink = [fn |-> "sprintputch", size |-> size, buf |-> s, cnt |-> z]
  BY <1>10, <1>11, <1>12 DEF Filled, BufferOf
<1>14. sink.fn = "sprintputch" /\ sink.cnt = z /\ sink.buf = s
  BY <1>13
<1>15. sink' = [sink EXCEPT !.buf = Append(s, NUL)]
  BY <1>1, <1>14
<1>16. PICK t : t = Append(s, NUL)
  OBVIOUS
<1>17. sink'.buf = t
  BY <1>13, <1>15, <1>16
<1>18. IsSequence(s) /\ Len(s) \in Nat /\ Len(s) < size
  <2>1. Len(s) < size
    BY <1>6, <1>11, <1>12, FilledFits
  <2>2. PICK V : text \in Seq(V)
    BY <1>6 DEF IsSequence
  <2>3. {Len(text), size - 1} \in SUBSET Nat /\ {Len(text), size - 1} # {}
    BY <2>2
  <2>4. fits \in Nat /\ fits <= Len(text)
    BY <1>11, <2>3, MinIsLeast
  <2>5. \A x \in 1..fits : text[x] \in V
    BY <2>2, <2>4
  <2>6. s \in Seq(V)
    BY <1>12, <2>2, <2>4, <2>5, SubSeqProperties
  <2> QED
    BY <2>1, <2>6, SequenceOf
<1>19. t = s \o <<NUL>> /\ Len(t) = Len(s) + 1
  <2>1. t = s \o <<NUL>>
    BY <1>16, <1>18, AppendSequence
  <2>2. Len(s \o <<NUL>>) = Len(s) + 1
    BY <1>18, OneIsSequence, ConcatSequences
  <2> QED
    BY <2>1, <2>2
<1>20. Len(t) <= size
  BY <1>18, <1>19
<1>21. TextRendered'
  BY <1>1 DEF TextRendered
<1>22. result' = Len(text)
  BY <1>1, <1>12, <1>14
<1>23. size # 0
  OBVIOUS
<1>24. BufferBounded'
  BY <1>1, <1>3, <1>4, <1>5, <1>10, <1>11, <1>12, <1>17, <1>19, <1>20, <1>22, <1>23
     DEF BufferBounded
<1> QED
  BY <1>21, <1>24

LEMMA MessagesOfCases ==
  ASSUME NEW c, c.fn \in {"cprintf", "print_kerninfo", "__warn", "__panic"}
  PROVE  MessagesOf(c) = ToPrint(c)
<1>1. CASE c.fn = "cprintf"
  BY <1>1 DEF MessagesOf, ToPrint
<1>2. CASE c.fn = "print_kerninfo"
  BY <1>2 DEF MessagesOf, ToPrint
<1>3. CASE c.fn = "__warn"
  BY <1>3 DEF MessagesOf, ToPrint, PanicText
<1>4. CASE c.fn = "__panic"
  BY <1>4 DEF MessagesOf, ToPrint, PanicText
<1> QED
  BY <1>1, <1>2, <1>3, <1>4

\* What the calls that print on the console leave there.
LEMMA ConsoleEnds ==
  ASSUME PrintInv, EndPrint, request.fn # "snprintf"
  PROVE  TextRendered' /\ BufferBounded'
<1>1. /\ pc = "print" /\ frames = <<>> /\ todo = <<>> /\ result' = sink.cnt
      /\ request' = request /\ console' = console /\ is_panic' = is_panic
  BY DEF EndPrint
<1>2. pc' = CASE request.fn = "__panic" -> "dead"
              [] request.fn = "readline" -> "edit"
              [] OTHER -> "done"
  BY DEF EndPrint
<1>3. /\ RequestTyped(request) /\ Printer(request) /\ request.fn # "cputs"
      /\ Busy(request, todo, frames, sink, console)
  BY <1>1 DEF PrintInv, Printer, Callers
<1>4. PICK n : n = Len(ToPrint(request))
  OBVIOUS
<1>5. /\ console = AllText(ToPrint(request))
      /\ Sunk(request, sink, console, n, RenderedText(ToPrint(request)[n]))
  BY <1>1, <1>3, <1>4, BusyEnds
<1>6. request.fn \in {"cprintf", "print_kerninfo", "__warn", "__panic"} =>
        console = AllText(MessagesOf(request))
  BY <1>5, MessagesOfCases
<1>7. request.fn = "cprintf" => sink.cnt = Len(console)
  <2>1. SUFFICES ASSUME request.fn = "cprintf"
                 PROVE  sink.cnt = Len(console)
    OBVIOUS
  <2>2. PICK m : m = request.message
    OBVIOUS
  <2>3. IsMessage(m)
    BY <2>1, <2>2, <1>3, MessagesAssumption DEF RequestTyped
  <2>4. ToPrint(request) = <<m>>
    BY <2>1, <2>2, ToPrintCases
  <2>5. n = 1 /\ ToPrint(request)[1] = m
    BY <1>4, <2>4
  <2>6. PICK text : text = RenderedText(m)
    OBVIOUS
  <2>7. IsSequence(text)
    BY <2>3, <2>6, TextsAre
  <2>8. Sunk(request, sink, console, 1, text)
    BY <1>5, <2>5, <2>6
  <2>9. SunkOnConsole(sink, console, AllTo(ToPrint(request))[1 - 1], text)
    BY <2>1, <2>8 DEF Sunk
  <2>10. AllTo(ToPrint(request))[1 - 1] = <<>>
    <3>1. AreMessages(ToPrint(request))
      BY <1>3, ToPrintIs
    <3>2. AllTo(ToPrint(request))[0] = <<>>
      BY <3>1, AllTextIs
    <3> QED
      BY <3>2
  <2>11. SunkOnConsole(sink, console, <<>>, text)
    BY <2>9, <2>10
  <2>12. PICK z : z = Len(text)
    OBVIOUS
  <2>13. sink = [fn |-> "cputch", cnt |-> z] /\ console = text
    BY <2>7, <2>11, <2>12, ConcatNothing DEF SunkOnConsole
  <2> QED
    BY <2>12, <2>13
<1>8. pc' = "dead" => request.fn = "__panic"
  BY <1>2
<1>9. pc' = "dead" => is_panic'
  BY <1>1, <1>8 DEF PrintInv
<1>10. TextRendered'
  BY <1>1, <1>3, <1>6, <1>7, <1>9 DEF TextRendered
<1>11. BufferBounded'
  BY <1>1 DEF BufferBounded
<1> QED
  BY <1>10, <1>11

LEMMA EndPrints ==
  ASSUME PrintInv, EndPrint
  PROVE  PrintInv'
<1>1. /\ pc = "print" /\ frames = <<>> /\ todo = <<>>
      /\ request' = request /\ frames' = frames /\ todo' = todo /\ is_panic' = is_panic
  BY DEF EndPrint
<1>2. pc' = CASE request.fn = "__panic" -> "dead"
              [] request.fn = "readline" -> "edit"
              [] OTHER -> "done"
  BY DEF EndPrint
<1>3. /\ pc' \in {"edit", "dead", "done"}
      /\ pc' = "edit" => request.fn = "readline"
      /\ pc' = "dead" => request.fn = "__panic"
  BY <1>2
<1>4. TextRendered' /\ BufferBounded'
  BY SnprintfEnds, ConsoleEnds
<1>5. pc' # "idle" /\ pc' # "print"
  BY <1>3
<1> QED
  BY <1>1, <1>3, <1>4, <1>5 DEF PrintInv

LEMMA CharacterPrints ==
  ASSUME PrintInv, getchar
  PROVE  PrintInv'
<1>1. pc = "edit" /\ UNCHANGED <<frames, sink, request, todo, is_panic>>
  BY DEF getchar
<1>2. pc' \in {"edit", "done"}
  <2>1. EndOfInput => pc' = "done"
    BY DEF EndOfInput
  <2>2. \A c \in Keys : EndOfLine(c) => pc' = "done"
    BY DEF EndOfLine
  <2>3. \A c \in Keys : Character(c) => pc' = pc
    BY DEF Character
  <2> QED
    BY <1>1, <2>1, <2>2, <2>3 DEF getchar
<1>3. request.fn = "readline" /\ frames = <<>> /\ todo = <<>>
  BY <1>1 DEF PrintInv
<1>4. TextRendered' /\ BufferBounded'
  BY <1>1, <1>2, <1>3 DEF TextRendered, BufferBounded
<1> QED
  BY <1>1, <1>2, <1>3, <1>4 DEF PrintInv

LEMMA ForgetPrints ==
  ASSUME PrintInv, ConsoleForget
  PROVE  PrintInv'
<1>1. /\ pc = "done" /\ sink' = Cputch /\ console' = <<>> /\ pc' = "idle"
      /\ UNCHANGED <<frames, todo>>
  BY DEF ConsoleForget
<1>2. request'.fn = "none"
  BY DEF ConsoleForget
<1>3. RequestTyped(request)'
  BY <1>2 DEF RequestTyped
<1>4. frames = <<>> /\ todo = <<>>
  BY <1>1 DEF PrintInv
<1>5. TextRendered' /\ BufferBounded'
  BY <1>1, <1>2 DEF TextRendered, BufferBounded
<1> QED
  BY <1>1, <1>2, <1>3, <1>4, <1>5 DEF PrintInv

LEMMA PrintStutters ==
  ASSUME PrintInv, UNCHANGED consoleVars
  PROVE  PrintInv'
<1>1. UNCHANGED <<request, pc, todo, frames, sink, console, result, is_panic>>
  BY DEF consoleVars, printVars, callVars
<1>2. TextRendered' /\ BufferBounded'
  BY <1>1 DEF PrintInv, TextRendered, BufferBounded
<1> QED
  BY <1>1, <1>2 DEF PrintInv

LEMMA PrintStep ==
  ASSUME PrintInv, ConsoleNext
  PROVE  PrintInv'
<1>1. CASE ConsoleCall
  <2>1. pc = "idle"
    BY <1>1 DEF ConsoleCall
  <2>2. ASSUME NEW m \in Messages, CallCprintf(m) PROVE PrintInv'
    BY <2>1, <2>2, CprintfPrints
  <2>3. ASSUME NEW m \in Messages, NEW size \in Sizes, snprintf(m, size) PROVE PrintInv'
    BY <2>1, <2>3, SnprintfPrints
  <2>4. ASSUME NEW m \in PanicMessages, __warn(m) PROVE PrintInv'
    BY <2>1, <2>4, WarnPrints
  <2>5. ASSUME NEW m \in PanicMessages, __panic(m) PROVE PrintInv'
    BY <2>1, <2>5, PanicPrints
  <2>6. ASSUME CallPrintKerninfo PROVE PrintInv'
    BY <2>1, <2>6, KerninfoPrints
  <2>7. ASSUME NEW m \in Messages, cputs(FormatOf(m)) PROVE PrintInv'
    BY <2>1, <2>7, CputsPrints
  <2>8. ASSUME NEW p \in Prompts, NEW left \in LineBuffers, readline(p, left) PROVE PrintInv'
    BY <2>1, <2>8, PromptPrints
  <2> QED
    BY <1>1, <2>2, <2>3, <2>4, <2>5, <2>6, <2>7, <2>8 DEF ConsoleCall
<1>2. CASE BeginPrint
  BY <1>2, BeginPrints
<1>3. CASE Printing
  BY <1>3, PrintingPrints
<1>4. CASE EndPrint
  BY <1>4, EndPrints
<1>5. CASE PanicDead
  BY <1>5, PrintStutters DEF PanicDead
<1>6. CASE getchar
  BY <1>6, CharacterPrints
<1>7. CASE ConsoleForget
  BY <1>7, ForgetPrints
<1> QED
  BY <1>1, <1>2, <1>3, <1>4, <1>5, <1>6, <1>7 DEF ConsoleNext

-----------------------------------------------------------------------------
(* The line that the characters typed make, one character at a time.       *)

LineOf(t) ==
  LET line[k \in 0..Len(t)] == IF k = 0 THEN <<>> ELSE Edited(line[k - 1], t[k])
  IN  line[Len(t)]

\* f are the lines that the characters of t make, one after the other.
Edits(f, t) ==
  /\ f[0] = <<>>
  /\ \A k \in 1..Len(t) : f[k] = Edited(f[k - 1], t[k])
  /\ \A k \in 0..Len(t) : f[k] \in Seq(Keys)
  /\ LineOf(t) = f[Len(t)]

LEMMA FrontTyped ==
  ASSUME NEW V, NEW s \in Seq(V)
  PROVE  Front(s) \in Seq(V)
<1>1. s = <<>> \/ Len(s) > 0
  BY EmptySeq
<1>2. CASE s = <<>>
  <2>1. Front(s) = <<>>
    BY <1>2, SubSeqEmpty DEF Front
  <2> QED
    BY <2>1, EmptySeq
<1>3. CASE Len(s) > 0
  <2>1. \A x \in 1..(Len(s) - 1) : s[x] \in V
    OBVIOUS
  <2>2. SubSeq(s, 1, Len(s) - 1) \in Seq(V)
    BY <2>1, <1>3, SubSeqProperties
  <2> QED
    BY <2>2 DEF Front
<1> QED
  BY <1>1, <1>2, <1>3

LEMMA EditedTyped ==
  ASSUME NEW line \in Seq(Keys), NEW c \in Keys
  PROVE  Edited(line, c) \in Seq(Keys)
<1>1. Front(line) \in Seq(Keys)
  BY FrontTyped
<1>2. Append(line, c) \in Seq(Keys)
  BY AppendProperties
<1> QED
  BY <1>1, <1>2 DEF Edited

LEMMA LineExists ==
  ASSUME NEW t \in Seq(Keys)
  PROVE  \E f : Edits(f, t)
<1> DEFINE n == Len(t)
           IsIt(f) == f = [k \in 0..n |-> IF k = 0 THEN <<>> ELSE Edited(f[k - 1], t[k])]
           step == [k \in 1..n |-> [line \in Seq(Keys) |-> Edited(line, t[k])]]
<1>1. n \in Nat /\ \A k \in 1..n : t[k] \in Keys
  OBVIOUS
<1> HIDE DEF n
<1>2. step \in [1..n -> [Seq(Keys) -> Seq(Keys)]]
  BY <1>1, EditedTyped
<1>3. PICK empty : empty = <<>>
  OBVIOUS
<1>4. empty \in Seq(Keys)
  BY <1>3, EmptySeq
<1>5. PICK f : Follows(f, step, empty, n, Seq(Keys))
  <2> HIDE DEF step
  <2> QED
    BY <1>1, <1>2, <1>4, RecursionFollows
<1>6. ASSUME NEW k \in 1..n
      PROVE  f[k] = Edited(f[k - 1], t[k])
  <2>1. k - 1 \in 0..n
    BY <1>1
  <2>2. f[k - 1] \in Seq(Keys)
    BY <1>5, <2>1 DEF Follows
  <2>3. f[k] = step[k][f[k - 1]]
    BY <1>5 DEF Follows
  <2> QED
    BY <2>2, <2>3
<1>7. IsIt(f)
  <2>1. ASSUME NEW k \in 0..n
        PROVE f[k] = IF k = 0 THEN <<>> ELSE Edited(f[k - 1], t[k])
    <3>1. k = 0 \/ k \in 1..n
      BY <1>1
    <3> HIDE DEF step
    <3> QED
      BY <1>3, <1>5, <1>6, <3>1 DEF Follows
  <2> QED
    BY <1>5, <2>1 DEF Follows
<1> DEFINE p == CHOOSE g : IsIt(g)
<1>8. IsIt(p)
  BY <1>7
<1> HIDE DEF p
<1>9. \A k \in 0..n : p[k] = IF k = 0 THEN <<>> ELSE Edited(p[k - 1], t[k])
  BY <1>8
<1>10. p[0] = <<>> /\ \A k \in 1..n : p[k] = Edited(p[k - 1], t[k])
  <2>1. 0 \in 0..n /\ \A k \in 1..n : k \in 0..n /\ k # 0
    BY <1>1
  <2> QED
    BY <1>9, <2>1
<1>11. ASSUME NEW k \in 1..n, p[k - 1] \in Seq(Keys) PROVE p[k] \in Seq(Keys)
  BY <1>1, <1>10, <1>11, EditedTyped
<1>12. p[0] \in Seq(Keys)
  BY <1>10, EmptySeq
<1>13. \A k \in 0..n : p[k] \in Seq(Keys)
  BY <1>1, <1>11, <1>12, RecursionTyped
<1>14. LineOf(t) = p[n]
  BY DEF LineOf, p, n
<1> QED
  BY <1>10, <1>13, <1>14 DEF Edits, n

LEMMA LineBegins == LineOf(<<>>) = <<>>
<1>1. <<>> \in Seq(Keys) /\ Len(<<>>) = 0
  BY EmptySeq
<1>2. PICK f : Edits(f, <<>>)
  BY <1>1, LineExists
<1> QED
  BY <1>1, <1>2 DEF Edits

LEMMA LineContinues ==
  ASSUME NEW t \in Seq(Keys), NEW c \in Keys
  PROVE  /\ LineOf(Append(t, c)) = Edited(LineOf(t), c)
         /\ LineOf(t) \in Seq(Keys)
<1>1. PICK n : n = Len(t)
  OBVIOUS
<1>2. PICK u : u = Append(t, c)
  OBVIOUS
<1>3. /\ n \in Nat /\ u \in Seq(Keys) /\ Len(u) = n + 1 /\ u[n + 1] = c
      /\ \A k \in 1..n : u[k] = t[k]
  BY <1>1, <1>2, AppendProperties
<1>4. PICK f : Edits(f, t)
  BY LineExists
<1>5. PICK g : Edits(g, u)
  BY <1>3, LineExists
<1>6. /\ f[0] = <<>> /\ \A k \in 1..n : f[k] = Edited(f[k - 1], t[k])
      /\ LineOf(t) = f[n] /\ f[n] \in Seq(Keys)
  <2>1. n \in 0..n
    BY <1>3
  <2> QED
    BY <1>1, <1>4, <2>1 DEF Edits
<1>7. /\ g[0] = <<>> /\ \A k \in 1..(n + 1) : g[k] = Edited(g[k - 1], u[k])
      /\ LineOf(u) = g[n + 1]
  BY <1>3, <1>5 DEF Edits
<1>8. \A k \in 1..n : f[k - 1] = g[k - 1] => f[k] = g[k]
  <2>1. \A k \in 1..n : k \in 1..(n + 1)
    BY <1>3
  <2> QED
    BY <1>3, <1>6, <1>7, <2>1
<1>9. f[0] = g[0]
  BY <1>6, <1>7
<1>10. \A k \in 0..n : f[k] = g[k]
  <2>1. n \in Nat
    BY <1>3
  <2> QED
    BY <1>8, <1>9, <2>1, RecursionUnique
<1>11. f[n] = g[n]
  <2>1. n \in 0..n
    BY <1>3
  <2> QED
    BY <1>10, <2>1
<1>12. g[n + 1] = Edited(g[n], u[n + 1])
  <2>1. n + 1 \in 1..(n + 1) /\ (n + 1) - 1 = n
    BY <1>3
  <2> QED
    BY <1>7, <2>1
<1> QED
  BY <1>2, <1>3, <1>6, <1>7, <1>11, <1>12

-----------------------------------------------------------------------------
(* What is left of the cursor, one character at a time.                    *)

Seen(left, c) == IF c = "BS" THEN Front(left) ELSE Append(left, c)

\* f is what a terminal shows after the characters of s, one after the other.
Shows(f, s, V) ==
  /\ f[0] = <<>>
  /\ \A k \in 1..Len(s) : f[k] = Seen(f[k - 1], s[k])
  /\ \A k \in 0..Len(s) : f[k] \in Seq(V)
  /\ LeftOfCursor(s) = f[Len(s)]

LEMMA SeenTyped ==
  ASSUME NEW V, NEW left \in Seq(V), NEW c \in V
  PROVE  Seen(left, c) \in Seq(V)
<1>1. Front(left) \in Seq(V)
  BY FrontTyped
<1>2. Append(left, c) \in Seq(V)
  BY AppendProperties
<1> QED
  BY <1>1, <1>2 DEF Seen

LEMMA ShowsExists ==
  ASSUME NEW V, NEW s \in Seq(V)
  PROVE  \E f : Shows(f, s, V)
<1> DEFINE n == Len(s)
           IsIt(f) == f = [k \in 0..n |->
                             IF k = 0 THEN <<>>
                             ELSE IF s[k] = "BS" THEN Front(f[k - 1])
                                                 ELSE Append(f[k - 1], s[k])]
           step == [k \in 1..n |-> [left \in Seq(V) |-> Seen(left, s[k])]]
<1>1. n \in Nat /\ \A k \in 1..n : s[k] \in V
  OBVIOUS
<1> HIDE DEF n
<1>2. step \in [1..n -> [Seq(V) -> Seq(V)]]
  BY <1>1, SeenTyped
<1>3. PICK empty : empty = <<>>
  OBVIOUS
<1>4. empty \in Seq(V)
  BY <1>3, EmptySeq
<1>5. PICK f : Follows(f, step, empty, n, Seq(V))
  <2> HIDE DEF step
  <2> QED
    BY <1>1, <1>2, <1>4, RecursionFollows
<1>6. ASSUME NEW k \in 1..n
      PROVE  f[k] = Seen(f[k - 1], s[k])
  <2>1. k - 1 \in 0..n
    BY <1>1
  <2>2. f[k - 1] \in Seq(V)
    BY <1>5, <2>1 DEF Follows
  <2>3. f[k] = step[k][f[k - 1]]
    BY <1>5 DEF Follows
  <2> QED
    BY <2>2, <2>3
<1>7. IsIt(f)
  <2>1. ASSUME NEW k \in 0..n
        PROVE f[k] = IF k = 0 THEN <<>>
                     ELSE IF s[k] = "BS" THEN Front(f[k - 1]) ELSE Append(f[k - 1], s[k])
    <3>1. k = 0 \/ k \in 1..n
      BY <1>1
    <3> HIDE DEF step
    <3>2. CASE k = 0
      BY <1>3, <1>5, <3>2 DEF Follows
    <3>3. CASE k \in 1..n
      <4>1. k # 0
        BY <3>3
      <4> QED
        BY <1>6, <3>3, <4>1 DEF Seen
    <3> QED
      BY <3>1, <3>2, <3>3
  <2> QED
    BY <1>5, <2>1 DEF Follows
<1> DEFINE p == CHOOSE g : IsIt(g)
<1>8. IsIt(p)
  BY <1>7
<1> HIDE DEF p
<1>9. \A k \in 0..n : p[k] = IF k = 0 THEN <<>>
                              ELSE IF s[k] = "BS" THEN Front(p[k - 1])
                                                  ELSE Append(p[k - 1], s[k])
  BY <1>8
<1>10. p[0] = <<>> /\ \A k \in 1..n : p[k] = Seen(p[k - 1], s[k])
  <2>1. 0 \in 0..n /\ \A k \in 1..n : k \in 0..n /\ k # 0
    BY <1>1
  <2> QED
    BY <1>9, <2>1 DEF Seen
<1>11. ASSUME NEW k \in 1..n, p[k - 1] \in Seq(V) PROVE p[k] \in Seq(V)
  BY <1>1, <1>10, <1>11, SeenTyped
<1>12. p[0] \in Seq(V)
  BY <1>10, EmptySeq
<1>13. \A k \in 0..n : p[k] \in Seq(V)
  BY <1>1, <1>11, <1>12, RecursionTyped
<1>14. LeftOfCursor(s) = p[n]
  BY DEF LeftOfCursor, p, n
<1> QED
  BY <1>10, <1>13, <1>14 DEF Shows, n

LEMMA ShownBegins == LeftOfCursor(<<>>) = <<>>
<1>1. <<>> \in Seq({}) /\ Len(<<>>) = 0
  BY EmptySeq
<1>2. PICK f : Shows(f, <<>>, {})
  BY <1>1, ShowsExists
<1> QED
  BY <1>1, <1>2 DEF Shows

LEMMA ShownContinues ==
  ASSUME NEW s, IsSequence(s), NEW c
  PROVE  /\ LeftOfCursor(Append(s, c)) = Seen(LeftOfCursor(s), c)
         /\ IsSequence(LeftOfCursor(s))
<1>1. PICK V : V = Range(s) \cup {c}
  OBVIOUS
<1>2. s \in Seq(V) /\ c \in V
  BY <1>1, SeqMonotonic DEF IsSequence
<1>3. PICK n : n = Len(s)
  OBVIOUS
<1>4. PICK u : u = Append(s, c)
  OBVIOUS
<1>5. /\ n \in Nat /\ u \in Seq(V) /\ Len(u) = n + 1 /\ u[n + 1] = c
      /\ \A k \in 1..n : u[k] = s[k]
  BY <1>2, <1>3, <1>4, AppendProperties
<1>6. PICK f : Shows(f, s, V)
  BY <1>2, ShowsExists
<1>7. PICK g : Shows(g, u, V)
  BY <1>5, ShowsExists
<1>8. /\ f[0] = <<>> /\ \A k \in 1..n : f[k] = Seen(f[k - 1], s[k])
      /\ LeftOfCursor(s) = f[n] /\ f[n] \in Seq(V)
  <2>1. n \in 0..n
    BY <1>5
  <2> QED
    BY <1>3, <1>6, <2>1 DEF Shows
<1>9. /\ g[0] = <<>> /\ \A k \in 1..(n + 1) : g[k] = Seen(g[k - 1], u[k])
      /\ LeftOfCursor(u) = g[n + 1]
  BY <1>5, <1>7 DEF Shows
<1>10. \A k \in 1..n : f[k - 1] = g[k - 1] => f[k] = g[k]
  <2>1. \A k \in 1..n : k \in 1..(n + 1)
    BY <1>5
  <2> QED
    BY <1>5, <1>8, <1>9, <2>1
<1>11. f[0] = g[0]
  BY <1>8, <1>9
<1>12. \A k \in 0..n : f[k] = g[k]
  BY <1>5, <1>10, <1>11, RecursionUnique
<1>13. f[n] = g[n]
  <2>1. n \in 0..n
    BY <1>5
  <2> QED
    BY <1>12, <2>1
<1>14. g[n + 1] = Seen(g[n], u[n + 1])
  <2>1. n + 1 \in 1..(n + 1) /\ (n + 1) - 1 = n
    BY <1>5
  <2> QED
    BY <1>9, <2>1
<1>15. IsSequence(f[n])
  BY <1>8, SequenceOf
<1> QED
  BY <1>4, <1>5, <1>8, <1>9, <1>13, <1>14, <1>15

\* A prompt that moves no cursor back is shown as it is.
LEMMA PromptShown ==
  ASSUME NEW s, IsSequence(s), ~Contains(s, "BS")
  PROVE  LeftOfCursor(s) = s
<1> DEFINE n == Len(s)
           g == [k \in 0..n |-> SubSeq(s, 1, k)]
<1>1. PICK V : s \in Seq(V)
  BY DEF IsSequence
<1>2. n \in Nat /\ \A k \in 1..n : s[k] \in V /\ s[k] # "BS"
  BY <1>1 DEF Contains
<1>3. PICK f : Shows(f, s, V)
  BY <1>1, ShowsExists
<1>4. /\ f[0] = <<>> /\ \A k \in 1..n : f[k] = Seen(f[k - 1], s[k])
      /\ LeftOfCursor(s) = f[n]
  BY <1>3 DEF Shows
<1>5. ASSUME NEW k \in 1..n
      PROVE  g[k] = Seen(g[k - 1], s[k])
  <2>1. k - 1 \in 0..n /\ k \in 0..n
    BY <1>2
  <2>2. \A x \in 1..(k - 1) : s[x] \in V
    BY <1>2
  <2>3. SubSeq(s, 1, k - 1) \in Seq(V)
    BY <2>2, SubSeqProperties
  <2>4. 1 \in 1..Len(s) /\ k \in 1..Len(s)
    BY <1>2
  <2>5. SubSeq(s, 1, k) = SubSeq(s, 1, k - 1) \o <<s[k]>>
    BY <1>1, <2>4, SubSeqRecursiveSecond
  <2>6. Append(SubSeq(s, 1, k - 1), s[k]) = SubSeq(s, 1, k - 1) \o <<s[k]>>
    BY <1>2, <2>3, AppendIsConcat
  <2>7. Seen(SubSeq(s, 1, k - 1), s[k]) = Append(SubSeq(s, 1, k - 1), s[k])
    BY <1>2 DEF Seen
  <2> QED
    BY <2>1, <2>5, <2>6, <2>7
<1>6. g[0] = <<>>
  <2>1. SubSeq(s, 1, 0) = <<>>
    BY SubSeqEmpty
  <2> QED
    BY <1>2, <2>1
<1>7. g[n] = s
  <2>1. SubSeq(s, 1, n) = s
    BY <1>1, SubSeqFull
  <2> QED
    BY <1>2, <2>1
<1> HIDE DEF g, n
<1>8. \A k \in 1..n : f[k - 1] = g[k - 1] => f[k] = g[k]
  BY <1>4, <1>5
<1>9. f[0] = g[0]
  BY <1>4, <1>6
<1>10. \A k \in 0..n : f[k] = g[k]
  <2>1. n \in Nat
    BY <1>2
  <2> QED
    BY <1>8, <1>9, <2>1, RecursionUnique
<1>11. n \in 0..n
  BY <1>2
<1> QED
  BY <1>4, <1>7, <1>10, <1>11

-----------------------------------------------------------------------------
(* The characters of a buffer before its n-th.                             *)

Line(b, n) == [k \in 1..n |-> b[k - 1]]

IsLine(s, b, n, V) == s \in Seq(V) /\ Len(s) = n /\ \A k \in 1..n : s[k] = b[k - 1]

LEMMA LineIs ==
  ASSUME NEW V, NEW last \in Nat, NEW b \in [0..last -> V], NEW n \in 0..(last + 1)
  PROVE  IsLine(Line(b, n), b, n, V)
<1>1. n \in Nat /\ \A k \in 1..n : b[k - 1] \in V
  OBVIOUS
<1>2. Line(b, n) \in [1..n -> V]
  BY <1>1 DEF Line
<1>3. Line(b, n) \in Seq(V)
  BY <1>1, <1>2
<1> QED
  BY <1>1, <1>2, <1>3 DEF Line, IsLine

\* The buffer d is b with c stored behind its first n characters.
Stores(d, b, n, c) == d = [b EXCEPT ![n] = c]
Grown(d, b, n, c, last, V) ==
  /\ d \in [0..last -> V] /\ d[n] = c /\ \A k \in 0..(n - 1) : d[k] = b[k]
  /\ Line(d, n) = Line(b, n) /\ Line(d, n + 1) = Append(Line(b, n), c)

LEMMA LineGrows ==
  ASSUME NEW V, NEW last \in Nat, NEW b \in [0..last -> V], NEW n \in 0..last,
         NEW c \in V, NEW d, Stores(d, b, n, c)
  PROVE  Grown(d, b, n, c, last, V)
<1>1. d \in [0..last -> V] /\ d[n] = c /\ \A k \in 0..last : k # n => d[k] = b[k]
  BY DEF Stores
<1>2. \A k \in 0..(n - 1) : d[k] = b[k]
  BY <1>1
<1>3. \A k \in 1..n : d[k - 1] = b[k - 1]
  BY <1>1
<1>4. Line(d, n) = Line(b, n)
  BY <1>3 DEF Line
<1>5. n \in 0..(last + 1) /\ n + 1 \in 0..(last + 1)
  OBVIOUS
<1>6. /\ Line(b, n) \in Seq(V) /\ Len(Line(b, n)) = n
      /\ \A k \in 1..n : Line(b, n)[k] = b[k - 1]
  <2>1. IsLine(Line(b, n), b, n, V)
    BY <1>5, LineIs
  <2> QED
    BY <2>1 DEF IsLine
<1>7. PICK m : m = n + 1
  OBVIOUS
<1>8. m \in 0..(last + 1)
  BY <1>5, <1>7
<1>9. /\ Line(d, m) \in Seq(V) /\ Len(Line(d, m)) = m
      /\ \A k \in 1..m : Line(d, m)[k] = d[k - 1]
  <2>1. IsLine(Line(d, m), d, m, V)
    BY <1>1, <1>8, LineIs
  <2> QED
    BY <2>1 DEF IsLine
<1>10. PICK s : s = Line(b, n)
  OBVIOUS
<1>11. PICK t : t = Append(s, c)
  OBVIOUS
<1>12. /\ t \in Seq(V) /\ Len(t) = n + 1 /\ t[n + 1] = c
       /\ \A k \in 1..n : t[k] = s[k]
  <2>1. s \in Seq(V) /\ Len(s) = n
    BY <1>6, <1>10
  <2> QED
    BY <1>11, <2>1, AppendProperties
<1>13. PICK u : u = Line(d, m)
  OBVIOUS
<1>14. u \in Seq(V) /\ Len(u) = n + 1 /\ \A k \in 1..(n + 1) : u[k] = d[k - 1]
  BY <1>7, <1>9, <1>13
<1>15. ASSUME NEW k \in 1..(n + 1) PROVE u[k] = t[k]
  <2>1. k = n + 1 \/ k \in 1..n
    OBVIOUS
  <2>2. u[k] = d[k - 1]
    BY <1>14
  <2>3. CASE k = n + 1
    <3>1. d[k - 1] = c
      BY <1>1, <2>3
    <3> QED
      BY <1>12, <2>2, <2>3, <3>1
  <2>4. CASE k \in 1..n
    BY <1>3, <1>6, <1>10, <1>12, <2>2, <2>4
  <2> QED
    BY <2>1, <2>3, <2>4
<1>16. u = t
  BY <1>12, <1>14, <1>15, SeqEqual
<1> QED
  BY <1>1, <1>2, <1>4, <1>7, <1>10, <1>11, <1>13, <1>16 DEF Grown

LEMMA LineShrinks ==
  ASSUME NEW V, NEW last \in Nat, NEW b \in [0..last -> V], NEW n \in 1..(last + 1)
  PROVE  Line(b, n - 1) = Front(Line(b, n)) /\ Line(b, n) # <<>>
<1>1. n \in 0..(last + 1) /\ n - 1 \in 0..(last + 1)
  OBVIOUS
<1>2. PICK s : s = Line(b, n)
  OBVIOUS
<1>3. s \in Seq(V) /\ Len(s) = n /\ \A k \in 1..n : s[k] = b[k - 1]
  <2>1. IsLine(s, b, n, V)
    BY <1>1, <1>2, LineIs
  <2> QED
    BY <2>1 DEF IsLine
<1>4. PICK m : m = n - 1
  OBVIOUS
<1>5. m \in 0..(last + 1)
  BY <1>1, <1>4
<1>6. PICK t : t = Line(b, m)
  OBVIOUS
<1>7. t \in Seq(V) /\ Len(t) = m /\ \A k \in 1..m : t[k] = b[k - 1]
  <2>1. IsLine(t, b, m, V)
    BY <1>5, <1>6, LineIs
  <2> QED
    BY <2>1 DEF IsLine
<1>8. PICK u : u = SubSeq(s, 1, m)
  OBVIOUS
<1>9. \A x \in 1..m : s[x] \in V
  BY <1>3, <1>4
<1>10. u \in Seq(V) /\ Len(u) = m /\ \A k \in 1..m : u[k] = s[k]
  <2>1. m \in Int /\ (m = 0 \/ 1 <= m)
    BY <1>5
  <2>2. /\ u \in Seq(V) /\ Len(u) = IF 1 <= m THEN m - 1 + 1 ELSE 0
        /\ \A k \in 1..(m - 1 + 1) : u[k] = s[1 + k - 1]
    BY <1>8, <1>9, <2>1, SubSeqProperties
  <2> QED
    BY <2>1, <2>2
<1>11. \A k \in 1..m : t[k] = u[k]
  BY <1>3, <1>4, <1>7, <1>10
<1>12. t = u
  BY <1>7, <1>10, <1>11, SeqEqual
<1>13. u = Front(s)
  BY <1>3, <1>4, <1>8 DEF Front
<1>14. s # <<>>
  BY <1>3
<1> QED
  BY <1>2, <1>4, <1>6, <1>12, <1>13, <1>14

-----------------------------------------------------------------------------
(* The invariant of readline.                                              *)

LineBytes == {NUL} \cup Keys
LastByte == BUFSIZE - 1
PromptOf(c) == IF c.prompt = NullPointer THEN <<>> ELSE c.prompt

\* The line so far is in the buffer, and on the screen behind the prompt.
Editing ==
  /\ typed \in Seq(Keys)
  /\ Line(buf, i) = LineOf(typed)
  /\ \A k \in 0..(i - 1) : buf[k] \notin Controls /\ buf[k] # NUL
  /\ IsSequence(console)
  /\ IsSequence(PromptOf(request))
  /\ LeftOfCursor(console) = PromptOf(request) \o Line(buf, i)

LineInv ==
  /\ pc \in {"idle", "print"} => typed = <<>>
  /\ request.fn = "readline" => buf \in [0..LastByte -> LineBytes] /\ i \in 0..LastByte
  /\ request.fn = "readline" /\ pc = "print" => i = 0
  /\ pc = "edit" => Editing
  /\ LineAsEdited

LEMMA LastByteIs == LastByte \in Nat /\ LastByte + 1 = BUFSIZE
BY ConsoleAssumption DEF LastByte

LEMMA EditingShows ==
  ASSUME LineInv
  PROVE  ScreenShowsLine
BY DEF LineInv, Editing, Line, PromptOf, ScreenShowsLine

LEMMA LineInit == ConsoleInit => LineInv
<1> SUFFICES ASSUME ConsoleInit PROVE LineInv
  OBVIOUS
<1>1. request.fn = "none" /\ pc = "idle" /\ typed = <<>>
  BY DEF ConsoleInit
<1> QED
  BY <1>1 DEF LineInv, LineAsEdited

\* A line that is begun is empty, on the screen behind its prompt.
LEMMA LineStarts ==
  ASSUME NEW c, c.fn = "readline", c.prompt \in Prompts,
         request' = c, console' = PromptOf(c), typed' = <<>>,
         buf' \in [0..LastByte -> LineBytes], i' = 0
  PROVE  Editing'
<1>1. IsSequence(PromptOf(c)) /\ ~Contains(PromptOf(c), "BS")
  <2>1. CASE c.prompt = NullPointer
    BY <2>1, NothingIsSequence DEF PromptOf, Contains
  <2>2. CASE c.prompt # NullPointer
    BY <2>2, LineAssumption DEF PromptOf
  <2> QED
    BY <2>1, <2>2
<1>2. LeftOfCursor(PromptOf(c)) = PromptOf(c)
  BY <1>1, PromptShown
<1>3. Line(buf', 0) = <<>>
  BY DEF Line
<1>4. PromptOf(c) \o <<>> = PromptOf(c)
  BY <1>1, ConcatNothing
<1>5. LineOf(<<>>) = <<>> /\ <<>> \in Seq(Keys)
  BY LineBegins, EmptySeq
<1>6. typed' \in Seq(Keys) /\ Line(buf', i') = LineOf(typed')
  BY <1>3, <1>5
<1>7. \A k \in 0..(i' - 1) : buf'[k] \notin Controls /\ buf'[k] # NUL
  OBVIOUS
<1>8. LeftOfCursor(console') = PromptOf(request') \o Line(buf', i')
  BY <1>2, <1>3, <1>4
<1>9. IsSequence(console') /\ IsSequence(PromptOf(request'))
  BY <1>1
<1> QED
  BY <1>6, <1>7, <1>8, <1>9 DEF Editing, PromptOf

LEMMA BufferTyped ==
  ASSUME NEW left \in LineBuffers
  PROVE  left \in [0..LastByte -> LineBytes]
BY DEF LineBuffers, LastByte, LineBytes

LEMMA ReadlineReads ==
  ASSUME PrintInv, LineInv, pc = "idle", NEW p \in Prompts, NEW left \in LineBuffers,
         readline(p, left)
  PROVE  LineInv'
<1>1. PICK c : c = [fn |-> "readline", prompt |-> p]
  OBVIOUS
<1>2. c.fn = "readline" /\ c.prompt = p
  BY <1>1
<1>3. /\ request' = c /\ console' = console /\ typed' = typed /\ buf' = left /\ i' = 0
      /\ pc' = IF p = NullPointer THEN "edit" ELSE "print"
  BY <1>1 DEF readline, printVars
<1>4. console = <<>> /\ typed = <<>>
  BY DEF PrintInv, LineInv
<1>5. buf' \in [0..LastByte -> LineBytes]
  BY <1>3, BufferTyped
<1>6. i' \in 0..LastByte
  BY <1>3, LastByteIs
<1>7. LineAsEdited'
  <2>1. pc' # "done"
    BY <1>3
  <2>2. DOMAIN buf' = 0..(BUFSIZE - 1)
    BY <1>5 DEF LastByte
  <2> QED
    BY <2>1, <2>2 DEF LineAsEdited
<1>8. pc' = "edit" => Editing'
  <2>1. SUFFICES ASSUME pc' = "edit" PROVE Editing'
    OBVIOUS
  <2>2. p = NullPointer
    BY <1>3, <2>1
  <2>3. console' = PromptOf(c)
    BY <1>2, <1>3, <1>4, <2>2 DEF PromptOf
  <2> QED
    BY <1>2, <1>3, <1>4, <1>5, <2>3, LineStarts
<1>9. pc' # "idle"
  BY <1>3
<1> QED
  BY <1>2, <1>3, <1>4, <1>5, <1>6, <1>7, <1>8 DEF LineInv

\* Another call than readline leaves the line alone.
LEMMA OtherCalls ==
  ASSUME LineInv, pc = "idle", request'.fn # "readline", pc' # "edit", typed' = typed
  PROVE  LineInv'
BY DEF LineInv, LineAsEdited

LEMMA BeginReads ==
  ASSUME LineInv, BeginPrint \/ Printing
  PROVE  LineInv'
<1>1. pc = "print" /\ UNCHANGED <<request, pc, result, buf, i, typed>>
  BY DEF BeginPrint, Printing, callVars, lineVars
<1>2. LineAsEdited'
  BY <1>1 DEF LineInv, LineAsEdited
<1> QED
  BY <1>1, <1>2 DEF LineInv

LEMMA EndReads ==
  ASSUME PrintInv, LineInv, EndPrint
  PROVE  LineInv'
<1>1. /\ pc = "print" /\ frames = <<>> /\ todo = <<>>
      /\ UNCHANGED <<request, console, buf, i, typed>>
  BY DEF EndPrint, lineVars
<1>2. pc' = CASE request.fn = "__panic" -> "dead"
              [] request.fn = "readline" -> "edit"
              [] OTHER -> "done"
  BY DEF EndPrint
<1>3. CASE request.fn = "readline"
  <2>1. pc' = "edit"
    BY <1>2, <1>3
  <2>2. /\ RequestTyped(request) /\ Printer(request)
        /\ Busy(request, todo, frames, sink, console)
    BY <1>1 DEF PrintInv
  <2>3. PICK p \in Prompts : p = request.prompt /\ p # NullPointer
    BY <1>3, <2>2 DEF RequestTyped, Printer
  <2>4. console = AllText(ToPrint(request))
    BY <1>1, <1>3, <2>2, BusyEnds
  <2>5. PICK m : m = <<String(p)>>
    OBVIOUS
  <2>6. RenderedText(m) = p /\ IsSequence(p)
    BY <2>3, <2>5, PromptIs
  <2>7. ToPrint(request) = <<m>>
    BY <1>3, <2>3, <2>5, ToPrintCases
  <2>8. AllText(ToPrint(request)) = p
    <3>1. AreMessages(ToPrint(request))
      BY <2>2, ToPrintIs
    <3>2. PICK M : M = ToPrint(request)
      OBVIOUS
    <3>3. Len(M) = 1 /\ M[1] = m
      BY <2>7, <3>2
    <3>4. PICK J : J = AllTo(M)
      OBVIOUS
    <3>5. /\ J[0] = <<>> /\ AllText(M) = J[Len(M)]
          /\ \A k \in 1..Len(M) : J[k] = J[k - 1] \o RenderedText(M[k])
      BY <3>1, <3>2, <3>4, AllTextIs
    <3>6. J[1] = J[0] \o RenderedText(M[1])
      <4>1. 1 \in 1..Len(M) /\ 1 - 1 = 0
        BY <3>3
      <4> QED
        BY <3>5, <4>1
    <3>7. <<>> \o p = p
      BY <2>6, ConcatNothing
    <3> QED
      BY <2>6, <3>2, <3>3, <3>5, <3>6, <3>7
  <2>9. console' = PromptOf(request)
    BY <1>1, <2>3, <2>4, <2>8 DEF PromptOf
  <2>10. /\ typed' = <<>> /\ i' = 0
         /\ buf' \in [0..LastByte -> LineBytes] /\ i' \in 0..LastByte
    BY <1>1, <1>3 DEF LineInv
  <2>11. Editing'
    BY <1>1, <1>3, <2>3, <2>9, <2>10, LineStarts
  <2>12. LineAsEdited'
    BY <1>1, <2>1 DEF LineInv, LineAsEdited
  <2> QED
    BY <2>1, <2>10, <2>11, <2>12 DEF LineInv
<1>4. CASE request.fn # "readline"
  <2>1. pc' \in {"dead", "done"} /\ request'.fn # "readline"
    BY <1>1, <1>2, <1>4
  <2> QED
    BY <2>1 DEF LineInv, LineAsEdited
<1> QED
  BY <1>3, <1>4

LEMMA FrontAppend ==
  ASSUME NEW V, NEW s \in Seq(V), NEW e \in V
  PROVE  Front(Append(s, e)) = s
<1>1. PICK t, n : t = Append(s, e) /\ n = Len(s)
  OBVIOUS
<1>2. /\ n \in Nat /\ t \in Seq(V) /\ Len(t) = n + 1
      /\ \A k \in 1..n : t[k] = s[k]
  BY <1>1, AppendProperties
<1>3. PICK u : u = SubSeq(t, 1, n)
  OBVIOUS
<1>4. \A x \in 1..n : t[x] \in V
  BY <1>2
<1>5. u \in Seq(V) /\ Len(u) = n /\ \A k \in 1..n : u[k] = t[k]
  <2>1. n \in Int /\ (n = 0 \/ 1 <= n)
    BY <1>2
  <2>2. /\ u \in Seq(V) /\ Len(u) = IF 1 <= n THEN n - 1 + 1 ELSE 0
        /\ \A k \in 1..(n - 1 + 1) : u[k] = t[1 + k - 1]
    BY <1>3, <1>4, <2>1, SubSeqProperties
  <2> QED
    BY <2>1, <2>2
<1>6. \A k \in 1..n : u[k] = s[k]
  BY <1>2, <1>5
<1>7. u = s
  BY <1>1, <1>5, <1>6, SeqEqual
<1>8. Len(t) - 1 = n
  BY <1>2
<1> QED
  BY <1>1, <1>3, <1>7, <1>8 DEF Front

LEMMA FrontJoined ==
  ASSUME NEW s, NEW t, IsSequence(s), IsSequence(t), t # <<>>
  PROVE  Front(s \o t) = s \o Front(t)
<1>1. PICK V : V = Range(s) \cup Range(t)
  OBVIOUS
<1>2. s \in Seq(V) /\ t \in Seq(V)
  <2>1. Range(s) \subseteq V /\ Range(t) \subseteq V
    BY <1>1
  <2> QED
    BY <2>1, SeqMonotonic DEF IsSequence
<1>3. PICK u \in Seq(V), e \in V : t = Append(u, e)
  BY <1>2, SequenceEmptyOrAppend
<1>4. t = u \o <<e>> /\ Front(t) = u
  BY <1>3, AppendIsConcat, FrontAppend
<1>5. IsSequence(u)
  BY SequenceOf
<1>6. s \o t = (s \o u) \o <<e>>
  BY <1>4, <1>5, ConcatOneMore
<1>7. PICK w : w = s \o u
  OBVIOUS
<1>8. w \in Seq(V)
  BY <1>2, <1>7, ConcatProperties
<1>9. Append(w, e) = w \o <<e>> /\ Front(Append(w, e)) = w
  BY <1>8, AppendIsConcat, FrontAppend
<1> QED
  BY <1>4, <1>6, <1>7, <1>9

\* The character c, not the end of the line, has been dealt with.
Dealt(c) ==
  /\ typed' = Append(typed, c)
  /\ buf' \in [0..LastByte -> LineBytes] /\ i' \in 0..LastByte
  /\ \A k \in 0..(i' - 1) : buf'[k] \notin Controls /\ buf'[k] # NUL
  /\ Line(buf', i') = Edited(Line(buf, i), c)
  /\ \/ console' = console /\ Line(buf', i') = Line(buf, i)
     \/ /\ console' = Append(console, c)
        /\ PromptOf(request) \o Line(buf', i') = Seen(PromptOf(request) \o Line(buf, i), c)

LEMMA DealtEdits ==
  ASSUME Editing, NEW c \in Keys, Dealt(c), request' = request
  PROVE  Editing'
<1>1. typed \in Seq(Keys) /\ Line(buf, i) = LineOf(typed)
  BY DEF Editing
<1>2. PICK t : t = Append(typed, c)
  OBVIOUS
<1>3. t \in Seq(Keys) /\ LineOf(t) = Edited(LineOf(typed), c)
  BY <1>1, <1>2, LineContinues, AppendProperties
<1>4. typed' \in Seq(Keys) /\ Line(buf', i') = LineOf(typed')
  BY <1>1, <1>2, <1>3 DEF Dealt
<1>5. IsSequence(console) /\ LeftOfCursor(console) = PromptOf(request) \o Line(buf, i)
  BY DEF Editing
<1>6. IsSequence(console') /\ LeftOfCursor(console') = PromptOf(request) \o Line(buf', i')
  <2>1. CASE console' = console /\ Line(buf', i') = Line(buf, i)
    BY <1>5, <2>1
  <2>2. CASE /\ console' = Append(console, c)
             /\ PromptOf(request) \o Line(buf', i') = Seen(PromptOf(request) \o Line(buf, i), c)
    <3>1. LeftOfCursor(Append(console, c)) = Seen(LeftOfCursor(console), c)
      BY <1>5, ShownContinues
    <3>2. IsSequence(Append(console, c))
      BY <1>5, AppendSequence
    <3> QED
      BY <1>5, <2>2, <3>1, <3>2
  <2> QED
    BY <2>1, <2>2 DEF Dealt
<1>7. PromptOf(request)' = PromptOf(request)
  BY DEF PromptOf
<1>8. IsSequence(PromptOf(request))
  BY DEF Editing
<1> QED
  BY <1>4, <1>6, <1>7, <1>8 DEF Editing, Dealt

LEMMA CharacterDealt ==
  ASSUME Editing, buf \in [0..LastByte -> LineBytes], i \in 0..LastByte,
         NEW c \in Keys, typed' = Append(typed, c), Character(c)
  PROVE  Dealt(c)
<1> DEFINE line == Line(buf, i)
           prompt == PromptOf(request)
<1>1. IsSequence(prompt)
  BY DEF Editing
<1>2. i \in 0..(LastByte + 1) /\ i \in Nat /\ LastByte \in Nat /\ LastByte = BUFSIZE - 1
  BY LastByteIs DEF LastByte
<1>3. line \in Seq(LineBytes) /\ Len(line) = i
  <2>1. IsLine(line, buf, i, LineBytes)
    BY <1>2, LineIs
  <2> QED
    BY <2>1 DEF IsLine
<1>4. IsSequence(line)
  BY <1>3, SequenceOf
<1>5. \A k \in 0..(i - 1) : buf[k] \notin Controls /\ buf[k] # NUL
  BY DEF Editing
<1>6. c \in LineBytes /\ c # NUL /\ "BS" \in Controls
  BY LineAssumption DEF LineBytes, Controls
<1> HIDE DEF line, prompt
<1>7. ASSUME UNCHANGED <<console, buf, i>>, Edited(line, c) = line
      PROVE  Dealt(c)
  BY <1>5, <1>7 DEF Dealt, line
<1>8. CASE c \notin Controls /\ i < BUFSIZE - 1
  <2>1. console' = Append(console, c) /\ buf' = [buf EXCEPT ![i] = c] /\ i' = i + 1
    BY <1>6, <1>8 DEF Character, Keep, HasRoom, Echo
  <2>2. i + 1 \in 0..LastByte
    BY <1>2, <1>8
  <2>3. PICK d : d = [buf EXCEPT ![i] = c]
    OBVIOUS
  <2>4. Grown(d, buf, i, c, LastByte, LineBytes)
    <3>1. Stores(d, buf, i, c)
      BY <2>3 DEF Stores
    <3> QED
      BY <1>2, <1>6, <3>1, LineGrows
  <2>5. /\ d \in [0..LastByte -> LineBytes] /\ d[i] = c /\ \A k \in 0..(i - 1) : d[k] = buf[k]
        /\ Line(d, i + 1) = Append(line, c)
    BY <2>4 DEF Grown, line
  <2>6. \A k \in 0..((i + 1) - 1) : d[k] \notin Controls /\ d[k] # NUL
    <3>1. \A k \in 0..((i + 1) - 1) : k = i \/ k \in 0..(i - 1)
      BY <1>2
    <3> QED
      BY <1>5, <1>6, <1>8, <2>5, <3>1
  <2>7. Edited(line, c) = Append(line, c)
    <3>1. Len(line) # BUFSIZE - 1
      BY <1>2, <1>3, <1>8
    <3> QED
      BY <1>6, <1>8, <3>1 DEF Edited
  <2>8. prompt \o Append(line, c) = Seen(prompt \o line, c)
    <3>1. Append(line, c) = line \o <<c>>
      BY <1>4, AppendSequence
    <3>2. PICK s : s = prompt \o line
      OBVIOUS
    <3>3. IsSequence(s)
      BY <1>1, <1>4, <3>2, ConcatSequences
    <3>4. Append(s, c) = s \o <<c>>
      BY <3>3, AppendSequence
    <3>5. (prompt \o line) \o <<c>> = prompt \o (line \o <<c>>)
      BY <1>1, <1>4, ConcatOneMore
    <3>6. Seen(s, c) = Append(s, c)
      BY <1>6, <1>8 DEF Seen
    <3> QED
      BY <3>1, <3>2, <3>4, <3>5, <3>6
  <2>9. buf' = d
    BY <2>1, <2>3
  <2>10. Line(buf', i') = Append(line, c)
    BY <2>1, <2>5, <2>9
  <2>11. \A k \in 0..(i' - 1) : buf'[k] \notin Controls /\ buf'[k] # NUL
    BY <2>1, <2>6, <2>9
  <2> QED
    BY <2>1, <2>2, <2>5, <2>7, <2>8, <2>9, <2>10, <2>11 DEF Dealt, line, prompt
<1>9. CASE c \notin Controls /\ ~(i < BUFSIZE - 1)
  <2>1. UNCHANGED <<console, buf, i>>
    BY <1>6, <1>9 DEF Character, Keep, HasRoom
  <2>2. Len(line) = BUFSIZE - 1
    BY <1>2, <1>3, <1>9
  <2>3. Edited(line, c) = line
    BY <1>6, <1>9, <2>2 DEF Edited
  <2> QED
    BY <1>7, <2>1, <2>3
<1>10. CASE c = "BS" /\ i > 0
  <2>1. console' = Append(console, c) /\ i' = i - 1 /\ buf' = buf
    BY <1>6, <1>10 DEF Character, Erase, Echo
  <2>2. i \in 1..(LastByte + 1) /\ i - 1 \in 0..LastByte
    BY <1>2, <1>10
  <2>3. Line(buf, i - 1) = Front(line) /\ line # <<>>
    BY <1>2, <2>2, LineShrinks DEF line
  <2>4. Edited(line, c) = Front(line)
    BY <1>10, <2>3 DEF Edited
  <2>5. prompt \o Front(line) = Seen(prompt \o line, c)
    <3>1. Front(prompt \o line) = prompt \o Front(line)
      BY <1>1, <1>4, <2>3, FrontJoined
    <3>2. Seen(prompt \o line, c) = Front(prompt \o line)
      BY <1>10 DEF Seen
    <3> QED
      BY <3>1, <3>2
  <2>6. \A k \in 0..((i - 1) - 1) : buf[k] \notin Controls /\ buf[k] # NUL
    <3>1. \A k \in 0..((i - 1) - 1) : k \in 0..(i - 1)
      BY <1>2
    <3> QED
      BY <1>5, <3>1
  <2>7. Line(buf', i') = Front(line)
    BY <2>1, <2>3
  <2>8. \A k \in 0..(i' - 1) : buf'[k] \notin Controls /\ buf'[k] # NUL
    BY <2>1, <2>6
  <2> QED
    BY <2>1, <2>2, <2>4, <2>5, <2>7, <2>8 DEF Dealt, line, prompt
<1>11. CASE c = "BS" /\ ~(i > 0)
  <2>1. UNCHANGED <<console, buf, i>>
    BY <1>6, <1>11 DEF Character, Erase
  <2>2. i = 0
    BY <1>2, <1>11
  <2>3. line = <<>>
    BY <1>3, <2>2, EmptySeq
  <2>4. Edited(line, c) = line
    BY <1>11, <2>3 DEF Edited
  <2> QED
    BY <1>7, <2>1, <2>4
<1>12. CASE c \in Controls /\ c # "BS"
  <2>1. UNCHANGED <<console, buf, i>>
    BY <1>12 DEF Character
  <2>2. Edited(line, c) = line
    BY <1>12 DEF Edited
  <2> QED
    BY <1>7, <2>1, <2>2
<1> QED
  BY <1>8, <1>9, <1>10, <1>11, <1>12

\* The text in a buffer ends at its first NUL.
LEMMA TextInIs ==
  ASSUME NEW last \in Nat, NEW V, NEW b \in [0..last -> V], NEW n \in 0..last,
         b[n] = NUL, \A k \in 0..(n - 1) : b[k] # NUL
  PROVE  TextIn(b) = Line(b, n)
<1>1. DOMAIN b = 0..last
  OBVIOUS
<1>2. n \in DOMAIN b /\ b[n] = NUL /\ \A j \in 0..(n - 1) : b[j] # NUL
  BY <1>1
<1>3. PICK m : m = CHOOSE k \in DOMAIN b : b[k] = NUL /\ \A j \in 0..(k - 1) : b[j] # NUL
  OBVIOUS
<1>4. m \in DOMAIN b /\ b[m] = NUL /\ \A j \in 0..(m - 1) : b[j] # NUL
  BY <1>2, <1>3
<1>5. m \in 0..last
  BY <1>1, <1>4
<1>6. ~(m < n) /\ ~(n < m)
  <2>1. m < n => m \in 0..(n - 1)
    BY <1>5
  <2>2. n < m => n \in 0..(m - 1)
    BY <1>5
  <2> QED
    BY <1>2, <1>4, <2>1, <2>2
<1>7. m = n
  BY <1>5, <1>6
<1>8. TextIn(b) = [k \in 1..m |-> b[k - 1]]
  BY <1>3 DEF TextIn
<1> QED
  BY <1>7, <1>8 DEF Line

LEMMA EndOfLineReads ==
  ASSUME Editing, buf \in [0..LastByte -> LineBytes], i \in 0..LastByte,
         request.fn = "readline", request' = request,
         NEW c \in Keys, typed' = Append(typed, c), EndOfLine(c)
  PROVE  LineInv'
<1>1. /\ c \in {"LF", "CR"} /\ buf' = [buf EXCEPT ![i] = NUL] /\ pc' = "done" /\ i' = i
  BY DEF EndOfLine
<1>2. typed \in Seq(Keys) /\ Line(buf, i) = LineOf(typed)
  BY DEF Editing
<1>3. PICK t : t = Append(typed, c)
  OBVIOUS
<1>4. /\ t \in Seq(Keys) /\ LineOf(t) = Edited(LineOf(typed), c)
      /\ Len(t) = Len(typed) + 1 /\ t[Len(typed) + 1] = c
  BY <1>2, <1>3, LineContinues, AppendProperties
<1>5. Edited(LineOf(typed), c) = LineOf(typed)
  <2>1. c # "BS" /\ c \in Controls
    BY <1>1 DEF Controls
  <2> QED
    BY <2>1 DEF Edited
<1>6. PICK b : b = [buf EXCEPT ![i] = NUL]
  OBVIOUS
<1>7. Grown(b, buf, i, NUL, LastByte, LineBytes)
  <2>1. Stores(b, buf, i, NUL)
    BY <1>6 DEF Stores
  <2>2. NUL \in LineBytes
    BY DEF LineBytes
  <2> QED
    BY <2>1, <2>2, LastByteIs, LineGrows
<1>8. /\ b \in [0..LastByte -> LineBytes] /\ b[i] = NUL /\ Line(b, i) = Line(buf, i)
      /\ \A k \in 0..(i - 1) : b[k] = buf[k]
  BY <1>7 DEF Grown
<1>9. \A k \in 0..(i - 1) : b[k] # NUL
  BY <1>8 DEF Editing
<1>10. TextIn(b) = Line(b, i)
  BY <1>8, <1>9, LastByteIs, TextInIs
<1>11. TextIn(b) = LineOf(t)
  BY <1>2, <1>4, <1>5, <1>8, <1>10
<1>12. Last(t) = c
  BY <1>4 DEF Last
<1>13. DOMAIN b = 0..(BUFSIZE - 1) /\ i \in DOMAIN b
  BY <1>8 DEF LastByte
<1>14. LineTyped' = LineOf(t)
  BY <1>3 DEF LineTyped, LineOf
<1>15. LineAsEdited'
  BY <1>1, <1>3, <1>6, <1>8, <1>11, <1>12, <1>13, <1>14 DEF LineAsEdited
<1> QED
  BY <1>1, <1>6, <1>8, <1>15 DEF LineInv

LEMMA CharacterReads ==
  ASSUME PrintInv, LineInv, getchar
  PROVE  LineInv'
<1>1. pc = "edit" /\ request' = request
  BY DEF getchar
<1>2. /\ Editing /\ request.fn = "readline"
      /\ buf \in [0..LastByte -> LineBytes] /\ i \in 0..LastByte
  BY <1>1 DEF PrintInv, LineInv
<1>3. CASE EndOfInput
  <2>1. pc' = "done" /\ result' = NullPointer /\ buf' = buf /\ i' = i
    BY <1>3 DEF EndOfInput
  <2>2. DOMAIN buf = 0..(BUFSIZE - 1)
    BY <1>2 DEF LastByte
  <2>3. LineAsEdited'
    BY <2>1, <2>2 DEF LineAsEdited
  <2> QED
    BY <1>1, <1>2, <2>1, <2>3 DEF LineInv
<1>4. ASSUME NEW c \in Keys, typed' = Append(typed, c), Character(c)
      PROVE  LineInv'
  <2>1. Dealt(c)
    BY <1>2, <1>4, CharacterDealt
  <2>2. Editing'
    BY <1>1, <1>2, <2>1, DealtEdits
  <2>3. pc' = "edit"
    BY <1>1, <1>4 DEF Character
  <2>4. buf' \in [0..LastByte -> LineBytes] /\ i' \in 0..LastByte
    BY <2>1 DEF Dealt
  <2>5. LineAsEdited'
    <3>1. DOMAIN buf' = 0..(BUFSIZE - 1)
      BY <2>4 DEF LastByte
    <3> QED
      BY <2>3, <3>1 DEF LineAsEdited
  <2> QED
    BY <2>2, <2>3, <2>4, <2>5 DEF LineInv
<1>5. ASSUME NEW c \in Keys, typed' = Append(typed, c), EndOfLine(c)
      PROVE  LineInv'
  BY <1>1, <1>2, <1>5, EndOfLineReads
<1> QED
  BY <1>3, <1>4, <1>5 DEF getchar

LEMMA LineStutters ==
  ASSUME LineInv, UNCHANGED consoleVars
  PROVE  LineInv'
<1>1. UNCHANGED <<request, pc, result, buf, i, typed, console>>
  BY DEF consoleVars, printVars, callVars, lineVars
<1>2. LineAsEdited'
  BY <1>1 DEF LineInv, LineAsEdited, LineTyped
<1>3. pc = "edit" => Editing'
  BY <1>1 DEF LineInv, Editing, PromptOf
<1> QED
  BY <1>1, <1>2, <1>3 DEF LineInv

LEMMA LineStep ==
  ASSUME PrintInv, LineInv, ConsoleNext
  PROVE  LineInv'
<1>1. CASE ConsoleCall
  <2>1. pc = "idle"
    BY <1>1 DEF ConsoleCall
  <2>2. request.fn = "none"
    BY <2>1 DEF PrintInv
  <2>3. ASSUME NEW m \in Messages, CallCprintf(m) PROVE LineInv'
    <3>1. request'.fn # "readline" /\ pc' # "edit" /\ typed' = typed
      BY <2>3 DEF CallCprintf, Start, lineVars
    <3> QED
      BY <2>1, <3>1, OtherCalls
  <2>4. ASSUME NEW m \in Messages, NEW size \in Sizes, snprintf(m, size) PROVE LineInv'
    <3>1. request'.fn # "readline" /\ pc' # "edit" /\ typed' = typed
      BY <2>4 DEF snprintf, Start, lineVars
    <3> QED
      BY <2>1, <3>1, OtherCalls
  <2>5. ASSUME NEW m \in PanicMessages, __warn(m) PROVE LineInv'
    <3>1. request'.fn # "readline" /\ pc' # "edit" /\ typed' = typed
      BY <2>5 DEF __warn, Start, lineVars
    <3> QED
      BY <2>1, <3>1, OtherCalls
  <2>6. ASSUME NEW m \in PanicMessages, __panic(m) PROVE LineInv'
    <3>1. request'.fn # "readline" /\ pc' # "edit" /\ typed' = typed
      <4>1. CASE is_panic
        BY <2>2, <2>6, <4>1 DEF __panic, lineVars
      <4>2. CASE ~is_panic
        <5>1. Start([fn |-> "__panic", message |-> m], PanicText("kernel panic at ", m))
          BY <2>6, <4>2 DEF __panic
        <5>2. PICK c : c = [fn |-> "__panic", message |-> m]
          OBVIOUS
        <5>3. request' = c /\ pc' = "print" /\ typed' = typed
          BY <5>1, <5>2 DEF Start, lineVars
        <5>4. c.fn = "__panic"
          BY <5>2
        <5> QED
          BY <5>3, <5>4
      <4> QED
        BY <4>1, <4>2
    <3> QED
      BY <2>1, <3>1, OtherCalls
  <2>7. ASSUME CallPrintKerninfo PROVE LineInv'
    <3>1. request'.fn # "readline" /\ pc' # "edit" /\ typed' = typed
      BY <2>7 DEF CallPrintKerninfo, Start, lineVars
    <3> QED
      BY <2>1, <3>1, OtherCalls
  <2>8. ASSUME NEW m \in Messages, cputs(FormatOf(m)) PROVE LineInv'
    <3>1. request'.fn # "readline" /\ pc' # "edit" /\ typed' = typed
      BY <2>8 DEF cputs, lineVars
    <3> QED
      BY <2>1, <3>1, OtherCalls
  <2>9. ASSUME NEW p \in Prompts, NEW left \in LineBuffers, readline(p, left) PROVE LineInv'
    BY <2>1, <2>9, ReadlineReads
  <2> QED
    BY <1>1, <2>3, <2>4, <2>5, <2>6, <2>7, <2>8, <2>9 DEF ConsoleCall
<1>2. CASE BeginPrint \/ Printing
  BY <1>2, BeginReads
<1>3. CASE EndPrint
  BY <1>3, EndReads
<1>4. CASE PanicDead
  BY <1>4, LineStutters DEF PanicDead
<1>5. CASE getchar
  BY <1>5, CharacterReads
<1>6. CASE ConsoleForget
  <2>1. request'.fn # "readline" /\ pc' # "edit" /\ typed' = <<>>
    BY <1>6 DEF ConsoleForget
  <2> QED
    BY <2>1 DEF LineInv, LineAsEdited
<1> QED
  BY <1>1, <1>2, <1>3, <1>4, <1>5, <1>6 DEF ConsoleNext

-----------------------------------------------------------------------------
(* The library code as a whole: a step of the string functions is none of  *)
(* the console, and the other way round.                                   *)

\* The strings, the printing and the line are each in order.
LibsInv == StringsInv /\ PrintInv /\ LineInv

LEMMA LibsStep == LibsInv /\ [LibsNext]_<<stringVars, consoleVars>> => LibsInv'
<1> SUFFICES ASSUME LibsInv, [LibsNext]_<<stringVars, consoleVars>>
             PROVE  LibsInv'
  OBVIOUS
<1>1. StringsInv /\ PrintInv /\ LineInv
  BY DEF LibsInv
<1>2. \/ [StringsNext]_stringVars /\ UNCHANGED consoleVars
      \/ ConsoleNext /\ UNCHANGED stringVars
  BY DEF LibsNext, InStrings, InConsole
<1>3. CASE [StringsNext]_stringVars /\ UNCHANGED consoleVars
  <2>1. StringsInv'
    BY <1>1, <1>3, NextInv
  <2>2. PrintInv'
    BY <1>1, <1>3, PrintStutters
  <2>3. LineInv'
    BY <1>1, <1>3, LineStutters
  <2> QED
    BY <2>1, <2>2, <2>3 DEF LibsInv
<1>4. CASE ConsoleNext /\ UNCHANGED stringVars
  <2>1. StringsInv'
    BY <1>1, <1>4, NextInv
  <2>2. PrintInv'
    BY <1>1, <1>4, PrintStep
  <2>3. LineInv'
    BY <1>1, <1>4, LineStep
  <2> QED
    BY <2>1, <2>2, <2>3 DEF LibsInv
<1> QED
  BY <1>2, <1>3, <1>4

\* Whatever the library code does, its invariant holds.
THEOREM LibsInvHolds == Spec => []LibsInv
<1>1. LibsInit => LibsInv
  BY InitInv, PrintInit, LineInit DEF LibsInit, LibsInv
<1> QED
  BY <1>1, LibsStep, PTL DEF Spec

\* What a finished call of cprintf, cputs, print_kerninfo, __warn or __panic has put
\* on the console is its messages with every directive as Rendered gives it, the
\* two departures from the comments of printfmt.c included (numbers with the flag
\* '-' are padded on the left, strings have fields), for all messages and words
\* of any width (stdio.c, printfmt.c, panic.c).
THEOREM TextAlwaysRendered == Spec => []TextRendered
<1>1. LibsInv => TextRendered
  BY DEF LibsInv, PrintInv
<1> QED
  BY <1>1, LibsInvHolds, PTL

\* vsnprintf keeps within its buffer, ends it with NUL and returns the length of
\* the whole text (printfmt.c), for all messages and buffers of any size.
THEOREM BufferAlwaysBounded == Spec => []BufferBounded
<1>1. LibsInv => BufferBounded
  BY DEF LibsInv, PrintInv
<1> QED
  BY <1>1, LibsInvHolds, PTL

\* readline returns the line as it was edited, in its buffer and ended with NUL
\* (readline.c), for lines of any length and a buffer of any size.
THEOREM LineAlwaysAsEdited == Spec => []LineAsEdited
<1>1. LibsInv => LineAsEdited
  BY DEF LibsInv, LineInv
<1> QED
  BY <1>1, LibsInvHolds, PTL

\* While a line is edited, the screen shows the prompt and the line so far
\* (readline.c, stdio.c).
THEOREM ScreenAlwaysShowsLine == Spec => []ScreenShowsLine
<1>1. LibsInv => ScreenShowsLine
  BY EditingShows DEF LibsInv
<1> QED
  BY <1>1, LibsInvHolds, PTL

\* The functions of string.c that write leave in memory what their comments
\* promise, beside the console too.
THEOREM MemoryAlwaysAsDocumented == Spec => []MemoryAsDocumented
<1>1. LibsInv => MemoryAsDocumented
  BY DEF LibsInv, StringsInv
<1> QED
  BY <1>1, LibsInvHolds, PTL

\* The functions of string.c that only look return what their comments promise,
\* beside the console too; strtol but for the prefix "0X" in base 16.
THEOREM ResultAlwaysAsDocumented == Spec => []ResultAsDocumented
<1>1. LibsInv => ResultAsDocumented
  BY DEF LibsInv, StringsInv
<1> QED
  BY <1>1, LibsInvHolds, PTL
=============================================================================
