--------------------------- MODULE OffsetTheorems ---------------------------
(***************************************************************************)
(* What the other proofs build on: induction and sums over finite sets,    *)
(* and the arithmetic of i32 and of offsets, for every width and size.     *)
(***************************************************************************)
EXTENDS Offset, Functions, FiniteSetTheorems, WellFoundedInduction, TLAPS

-----------------------------------------------------------------------------
(* Induction.  A set stands for what is proved of its members.             *)

LEMMA SmallestExists ==
  ASSUME NEW S, S \subseteq Nat, S # {}
  PROVE  \E n \in S : \A m \in S : n <= m
<1>1. \E n \in S : \A m \in S : ~ (<<m, n>> \in OpToRel(<, Nat))
  BY NatLessThanWellFounded, WFMin
<1>2. \A m \in Nat, n \in Nat : m < n => <<m, n>> \in OpToRel(<, Nat)
  BY DEF OpToRel
<1>3. PICK n \in S : \A m \in S : ~ (m < n)
  BY <1>1, <1>2
<1> QED BY <1>3

LEMMA NatSetInduction ==
  ASSUME NEW T, 0 \in T, \A n \in Nat : n \in T => n + 1 \in T
  PROVE  \A n \in Nat : n \in T
<1> SUFFICES ASSUME Nat \ T # {} PROVE FALSE
  OBVIOUS
<1>1. PICK n \in Nat \ T : \A m \in Nat \ T : n <= m
  BY SmallestExists
<1>2. n # 0 /\ n - 1 \in Nat /\ ~ (n <= n - 1) /\ (n - 1) + 1 = n
  BY <1>1
<1> QED BY <1>1, <1>2

\* Finite sets are well-founded by inclusion: what holds of {} and of a set whenever it
\* holds of the set without the element that CHOOSE takes from it, holds of all.
LEMMA SetSetInduction ==
  ASSUME NEW S, IsFiniteSet(S), NEW T, {} \in T,
         \A s \in SUBSET S : s # {} /\ s \ {CHOOSE x \in s : TRUE} \in T => s \in T
  PROVE  S \in T
<1> DEFINE P == { n \in Nat : \A s \in SUBSET S : Cardinality(s) = n => s \in T }
<1>f. \A s \in SUBSET S : IsFiniteSet(s) /\ Cardinality(s) \in Nat
  BY FS_Subset, FS_CardinalityType
<1>1. 0 \in P
  <2>1. \A s \in SUBSET S : Cardinality(s) = 0 => s = {}
    BY <1>f, FS_EmptySet
  <2> QED BY <2>1
<1>2. ASSUME NEW n \in Nat, n \in P PROVE n + 1 \in P
  <2>1. ASSUME NEW s \in SUBSET S, Cardinality(s) = n + 1 PROVE s \in T
    <3> DEFINE x == CHOOSE x \in s : TRUE
    <3>1. s # {}
      BY <2>1, FS_EmptySet
    <3>2. x \in s
      BY <3>1
    <3> HIDE DEF x
    <3>3. Cardinality(s \ {x}) = n
      <4>1. IsFiniteSet(s)
        BY <1>f
      <4>2. Cardinality(s \ {x}) = Cardinality(s) - 1
        BY <3>2, <4>1, FS_RemoveElement
      <4> QED BY <2>1, <4>2
    <3>4. s \ {x} \in T
      BY <1>2, <3>3
    <3> QED BY <3>1, <3>4 DEF x
  <2> QED BY <2>1
<1>3. \A n \in Nat : n \in P
  <2> HIDE DEF P
  <2> QED BY <1>1, <1>2, NatSetInduction
<1> QED BY <1>3, <1>f

\* A recursive function has a solution if each of its values depends on those of a
\* smaller measure alone.
Descends(body, measure, N, D, R) ==
  /\ measure \in [D -> 0 .. N] /\ N \in Nat
  /\ body \in [[D -> R] -> [D -> R]]
  /\ \A v \in [D -> R], w \in [D -> R], x \in D :
       (\A y \in D : measure[y] < measure[x] => v[y] = w[y]) => body[v][x] = body[w][x]

LEMMA RecursionExists ==
  ASSUME NEW D, NEW R, NEW r \in R, NEW body, NEW measure, NEW N,
         Descends(body, measure, N, D, R)
  PROVE  \E v \in [D -> R] : v = body[v]
<1> DEFINE Good(v, n) == \A x \in D : measure[x] < n => v[x] = body[v][x]
           T == { n \in Nat : \E v \in [D -> R] : Good(v, n) }
<1>0. /\ measure \in [D -> 0 .. N] /\ N \in Nat
      /\ body \in [[D -> R] -> [D -> R]]
  BY DEF Descends
<1>1. 0 \in T
  <2>1. [x \in D |-> r] \in [D -> R] /\ Good([x \in D |-> r], 0)
    BY <1>0
  <2> QED BY <2>1
<1>2. ASSUME NEW n \in Nat, n \in T
      PROVE  n + 1 \in T
  <2>1. PICK v \in [D -> R] : Good(v, n)
    BY <1>2
  <2>2. body[v] \in [D -> R]
    BY <1>0, <2>1
  <2>3. ASSUME NEW x \in D, measure[x] < n + 1
        PROVE  body[v][x] = body[body[v]][x]
    <3>1. ASSUME NEW y \in D, measure[y] < measure[x]
          PROVE  v[y] = body[v][y]
      <4>1. measure[y] < n
        BY <1>0, <2>3, <3>1
      <4> QED BY <2>1, <4>1
    <3> QED BY <2>1, <2>2, <3>1 DEF Descends
  <2>4. Good(body[v], n + 1)
    BY <2>3
  <2> HIDE DEF Good
  <2> QED BY <2>2, <2>4
<1>3. N + 1 \in T
  <2>1. \A n \in Nat : n \in T
    <3> HIDE DEF T
    <3> QED BY <1>1, <1>2, NatSetInduction
  <2> QED BY <1>0, <2>1
<1>4. PICK v \in [D -> R] : Good(v, N + 1)
  BY <1>3
<1>5. \A x \in D : v[x] = body[v][x]
  <2>1. \A x \in D : measure[x] < N + 1
    BY <1>0
  <2> QED BY <1>4, <2>1
<1>6. body[v] \in [D -> R]
  BY <1>0, <1>4
<1> QED BY <1>4, <1>5, <1>6

-----------------------------------------------------------------------------
(* Sums.                                                                   *)

\* The function that SumFunction recurs with: g[s] is the sum of f over s.
AddsUp(g, f) ==
  g = [s \in SUBSET DOMAIN f |->
         IF s = {} THEN 0
         ELSE LET x == CHOOSE x \in s : TRUE IN f[x] + g[s \ {x}]]

\* It exists for every finite domain, as it does for the subsets of each size.
LEMMA SumExists ==
  ASSUME NEW f, IsFiniteSet(DOMAIN f)
  PROVE  \E g : AddsUp(g, f)
<1> DEFINE S       == DOMAIN f
           Upto(n) == { s \in SUBSET S : Cardinality(s) <= n }
           Body(g, n) == [s \in Upto(n) |->
                            IF s = {} THEN 0
                            ELSE LET x == CHOOSE x \in s : TRUE IN f[x] + g[s \ {x}]]
           T == { n \in Nat : \E g : g = Body(g, n) }
<1>f. \A s \in SUBSET S : IsFiniteSet(s) /\ Cardinality(s) \in Nat
                          /\ Cardinality(s) <= Cardinality(S)
  BY FS_Subset, FS_CardinalityType
<1>1. 0 \in T
  <2>1. Upto(0) = {{}}
    BY <1>f, FS_EmptySet
  <2>2. [s \in Upto(0) |-> 0] = Body([s \in Upto(0) |-> 0], 0)
    BY <2>1
  <2> QED BY <2>2
<1>2. ASSUME NEW n \in Nat, n \in T PROVE n + 1 \in T
  <2>1. PICK g : g = Body(g, n)
    BY <1>2
  <2> DEFINE h == Body(g, n + 1)
  <2>2. ASSUME NEW s \in Upto(n + 1), s # {}, NEW x \in s
        PROVE  s \ {x} \in Upto(n)
    <3>1. Cardinality(s \ {x}) = Cardinality(s) - 1
      BY <1>f, <2>2, FS_RemoveElement
    <3> QED BY <1>f, <2>2, <3>1
  <2>3. ASSUME NEW t \in Upto(n) PROVE h[t] = g[t]
    <3>1. t \in Upto(n + 1)
      BY <1>f
    <3> QED BY <2>1, <3>1
  <2>4. ASSUME NEW s \in Upto(n + 1)
        PROVE  h[s] = IF s = {} THEN 0
                      ELSE LET x == CHOOSE x \in s : TRUE IN f[x] + h[s \ {x}]
    <3>1. CASE s = {}
      BY <3>1
    <3>2. CASE s # {}
      <4> DEFINE x == CHOOSE x \in s : TRUE
      <4>1. x \in s
        BY <3>2
      <4>2. s \ {x} \in Upto(n)
        BY <2>2, <3>2, <4>1
      <4>3. h[s] = f[x] + g[s \ {x}]
        BY <3>2
      <4>4. h[s \ {x}] = g[s \ {x}]
        BY <2>3, <4>2
      <4> HIDE DEF h
      <4> QED BY <3>2, <4>3, <4>4
    <3> QED BY <3>1, <3>2
  <2>5. \E u : u = Body(u, n + 1)
    <3>1. h = Body(h, n + 1)
      <4>1. h = [s \in Upto(n + 1) |-> h[s]]
        OBVIOUS
      <4> DEFINE U == Upto(n + 1)
      <4>2. /\ h = [s \in U |-> h[s]]
            /\ \A s \in U : h[s] = IF s = {} THEN 0
                                   ELSE LET x == CHOOSE x \in s : TRUE IN f[x] + h[s \ {x}]
        BY <2>4, <4>1
      <4> HIDE DEF h, U
      <4>3. h = [s \in U |-> IF s = {} THEN 0
                             ELSE LET x == CHOOSE x \in s : TRUE IN f[x] + h[s \ {x}]]
        BY <4>2
      <4> QED BY <4>3 DEF U
    <3> HIDE DEF h
    <3> QED BY <3>1
  <2> HIDE DEF Body
  <2> QED BY <2>5
<1>3. \A n \in Nat : n \in T
  <2> HIDE DEF T
  <2> QED BY <1>1, <1>2, NatSetInduction
<1>4. Upto(Cardinality(S)) = SUBSET S
  BY <1>f
<1>5. PICK g : g = Body(g, Cardinality(S))
  BY <1>3, FS_CardinalityType
<1> QED BY <1>4, <1>5 DEF AddsUp

LEMMA SumAddsUp ==
  ASSUME NEW f, IsFiniteSet(DOMAIN f)
  PROVE  \E g : AddsUp(g, f) /\ SumFunction(f) = g[DOMAIN f]
<1> DEFINE g == CHOOSE h : AddsUp(h, f)
<1>1. AddsUp(g, f)
  BY SumExists
<1>2. SumFunction(f) = g[DOMAIN f]
  BY DEF SumFunction, SumFunctionOnSet, FoldFunctionOnSet, MapThenFoldSet, AddsUp
<1> QED BY <1>1, <1>2

\* g counts one more than f for the members in A.
CountsMore(f, g, S, A) ==
  \A w \in S : g[w] = f[w] + (IF w \in A THEN 1 ELSE 0)

\* Counting one more for some of the members adds their number to the sum.
LEMMA SumCounts ==
  ASSUME NEW S, IsFiniteSet(S), NEW A \in SUBSET S,
         NEW f \in [S -> Int], NEW g \in [S -> Int], CountsMore(f, g, S, A)
  PROVE  /\ SumFunction(f) \in Int
         /\ SumFunction(g) = SumFunction(f) + Cardinality(A)
<1>1. PICK sf : AddsUp(sf, f) /\ SumFunction(f) = sf[S]
  BY SumAddsUp
<1>2. PICK sg : AddsUp(sg, g) /\ SumFunction(g) = sg[S]
  BY SumAddsUp
<1> DEFINE T == { s \in SUBSET S : /\ sf[s] \in Int
                                   /\ sg[s] = sf[s] + Cardinality(s \cap A) }
<1>3. {} \in T
  <2>1. sf[{}] = 0 /\ sg[{}] = 0
    BY <1>1, <1>2 DEF AddsUp
  <2>2. {} \cap A = {} /\ Cardinality({}) = 0
    BY FS_EmptySet
  <2> QED BY <2>1, <2>2
<1>4. ASSUME NEW s \in SUBSET S, s # {}, s \ {CHOOSE x \in s : TRUE} \in T
      PROVE  s \in T
  <2> DEFINE x == CHOOSE x \in s : TRUE
             r == s \ {x}
  <2>1. x \in s /\ x \in S
    BY <1>4
  <2>2. sf[s] = f[x] + sf[r] /\ sg[s] = g[x] + sg[r]
    BY <1>1, <1>2, <1>4 DEF AddsUp
  <2>3. r \in T
    BY <1>4
  <2> HIDE DEF x
  <2>4. IsFiniteSet(r \cap A) /\ Cardinality(r \cap A) \in Nat
    BY FS_Subset, FS_CardinalityType
  <2>5. Cardinality(s \cap A) = Cardinality(r \cap A) + (IF x \in A THEN 1 ELSE 0)
    <3>1. CASE x \in A
      <4>1. s \cap A = (r \cap A) \cup {x} /\ x \notin r \cap A
        BY <2>1, <3>1
      <4> QED BY <2>4, <3>1, <4>1, FS_AddElement
    <3>2. CASE x \notin A
      <4>1. s \cap A = r \cap A
        BY <3>2
      <4>2. Cardinality(s \cap A) = Cardinality(r \cap A)
        BY <4>1
      <4> HIDE DEF r
      <4> QED BY <2>4, <3>2, <4>2
    <3> QED BY <3>1, <3>2
  <2> DEFINE more == IF x \in A THEN 1 ELSE 0
  <2>6. more \in Int /\ f[x] \in Int /\ g[x] = f[x] + more
    BY <2>1 DEF CountsMore
  <2>7. sf[r] \in Int /\ sg[r] = sf[r] + Cardinality(r \cap A)
    BY <2>3
  <2> HIDE DEF more, r
  <2>8. sf[s] \in Int /\ sg[s] = sf[s] + Cardinality(s \cap A)
    BY <2>2, <2>4, <2>5, <2>6, <2>7 DEF more
  <2> QED BY <2>8
<1>5. S \in T
  <2> HIDE DEF T
  <2> QED BY <1>3, <1>4, SetSetInduction
<1>6. S \cap A = A
  OBVIOUS
<1> QED BY <1>1, <1>2, <1>5, <1>6

\* A sum changes by what one of its members changes.
LEMMA SumChanges ==
  ASSUME NEW S, IsFiniteSet(S), NEW f \in [S -> Int], NEW c \in S, NEW v \in Int
  PROVE  /\ SumFunction(f) \in Int
         /\ SumFunction([f EXCEPT ![c] = v]) = SumFunction(f) + (v - f[c])
<1> DEFINE g == [f EXCEPT ![c] = v]
           d == v - f[c]
<1>0. /\ g \in [S -> Int] /\ d \in Int
      /\ \A w \in S : w # c => g[w] = f[w]
      /\ g[c] = f[c] + d
  OBVIOUS
<1> HIDE DEF g, d
<1>1. PICK sf : AddsUp(sf, f) /\ SumFunction(f) = sf[S]
  BY SumAddsUp
<1>2. PICK sg : AddsUp(sg, g) /\ SumFunction(g) = sg[S]
  BY <1>0, SumAddsUp
<1> DEFINE T == { s \in SUBSET S : /\ sf[s] \in Int
                                   /\ sg[s] = IF c \in s THEN sf[s] + d ELSE sf[s] }
<1>3. {} \in T
  BY <1>0, <1>1, <1>2 DEF AddsUp
<1>4. ASSUME NEW s \in SUBSET S, s # {}, s \ {CHOOSE x \in s : TRUE} \in T
      PROVE  s \in T
  <2> DEFINE x == CHOOSE x \in s : TRUE
             r == s \ {x}
  <2>1. x \in s /\ x \in S
    BY <1>4
  <2>2. sf[s] = f[x] + sf[r] /\ sg[s] = g[x] + sg[r]
    BY <1>0, <1>1, <1>2, <1>4 DEF AddsUp
  <2>3. sf[r] \in Int /\ sg[r] = IF c \in r THEN sf[r] + d ELSE sf[r]
    BY <1>4
  <2> HIDE DEF x
  <2>4. c \in s <=> c = x \/ c \in r
    BY <2>1
  <2>5. x \notin r
    OBVIOUS
  <2> HIDE DEF r
  <2>6. f[x] \in Int /\ g[x] \in Int
    BY <1>0, <2>1
  <2>7. CASE c = x
    BY <1>0, <2>2, <2>3, <2>4, <2>5, <2>6, <2>7
  <2>8. CASE c # x
    BY <1>0, <2>1, <2>2, <2>3, <2>4, <2>6, <2>8
  <2> QED BY <2>7, <2>8
<1>5. S \in T
  <2> HIDE DEF T
  <2> QED BY <1>3, <1>4, SetSetInduction
<1> QED BY <1>1, <1>2, <1>5 DEF g, d

LEMMA SumZero ==
  ASSUME NEW S, IsFiniteSet(S)
  PROVE  SumFunction([w \in S |-> 0]) = 0
<1> DEFINE f == [w \in S |-> 0]
<1>1. PICK g : AddsUp(g, f) /\ SumFunction(f) = g[S]
  BY SumAddsUp
<1> DEFINE T == { s \in SUBSET S : g[s] = 0 }
<1>2. {} \in T
  BY <1>1 DEF AddsUp
<1>3. ASSUME NEW s \in SUBSET S, s # {}, s \ {CHOOSE x \in s : TRUE} \in T
      PROVE  s \in T
  <2> DEFINE x == CHOOSE x \in s : TRUE
  <2>1. x \in s /\ f[x] = 0
    BY <1>3
  <2>2. g[s] = f[x] + g[s \ {x}]
    BY <1>1, <1>3 DEF AddsUp
  <2> QED BY <1>3, <2>1, <2>2
<1>4. S \in T
  <2> HIDE DEF T, f
  <2> QED BY <1>2, <1>3, SetSetInduction
<1> QED BY <1>1, <1>4

-----------------------------------------------------------------------------
(* Offsets.                                                                *)

\* rem_euclid brings every i32 into the core (offset.rs:10-25).
LEMMA NewInCore == \A n \in Int : New(n) \in Addr
  BY CoreSizeAssumption, MaxIntAssumption DEF New, Addr

LEMMA WrapIsInt == \A n \in Int : Wrap(n) \in Int
  BY MaxIntAssumption DEF Wrap

\* Away from i32::MAX nothing wraps.
LEMMA WrapExact == \A n \in Int : -(MaxInt + 1) <= n /\ n <= MaxInt => Wrap(n) = n
<1> SUFFICES ASSUME NEW n \in Int, -(MaxInt + 1) <= n, n <= MaxInt
             PROVE  Wrap(n) = n
  OBVIOUS
<1>m. MaxInt \in Nat
  BY MaxIntAssumption
<1>1. n + MaxInt + 1 \in 0 .. 2 * (MaxInt + 1) - 1
  BY <1>m
<1>2. \A m \in Nat \ {0} : \A k \in 0 .. m - 1 : k % m = k
  OBVIOUS
<1>3. (n + MaxInt + 1) % (2 * (MaxInt + 1)) = n + MaxInt + 1
  <2>1. 2 * (MaxInt + 1) \in Nat \ {0}
    BY <1>m
  <2> QED BY <1>1, <1>2, <2>1
<1> QED BY <1>3, <1>m DEF Wrap

LEMMA DivisionUnique ==
  \A a \in Int, q \in Int, r \in Int, c \in Nat \ {0} :
     a = q * c + r /\ 0 <= r /\ r < c => a % c = r
  OBVIOUS

\* Whole turns around the core do not count.
LEMMA NewShift == \A a \in Int, k \in Int : New(a + k * CoreSize) = New(a)
<1> TAKE a \in Int, k \in Int
<1>c. CoreSize \in Nat \ {0}
  BY CoreSizeAssumption, MaxIntAssumption
<1> DEFINE r == a % CoreSize
           q == a \div CoreSize
<1>1. a = q * CoreSize + r /\ q \in Int /\ r \in Int /\ 0 <= r /\ r < CoreSize
  BY <1>c
<1> HIDE DEF q, r
<1>2. a + k * CoreSize = (q + k) * CoreSize + r
  BY <1>c, <1>1
<1>3. (a + k * CoreSize) \in Int /\ (q + k) \in Int
  BY <1>c, <1>1
<1> HIDE <1>1
<1>4. (a + k * CoreSize) % CoreSize = r
  BY <1>c, <1>1, <1>2, <1>3, DivisionUnique
<1> QED BY <1>4 DEF New, r

\* An offset is its own representative.
LEMMA NewExact == \A a \in Addr : New(a) = a
  BY CoreSizeAssumption, MaxIntAssumption DEF New, Addr

\* A remainder may be taken before or after a sum or a difference.
LEMMA NewCongruent ==
  ASSUME NEW a \in Int, NEW b \in Int
  PROVE  /\ New(New(a) + b) = New(a + b)
         /\ New(a + New(b)) = New(a + b)
         /\ New(New(a) - b) = New(a - b)
         /\ New(a - New(b)) = New(a - b)
<1>c. CoreSize \in Nat \ {0}
  BY CoreSizeAssumption, MaxIntAssumption
<1>1. \A n \in Int : \E k \in Int : New(n) = n + k * CoreSize
  <2> TAKE n \in Int
  <2>1. n \div CoreSize \in Int /\ n = (n \div CoreSize) * CoreSize + New(n) /\ New(n) \in Int
    BY <1>c DEF New
  <2>2. -(n \div CoreSize) \in Int /\ New(n) = n + (-(n \div CoreSize)) * CoreSize
    BY <1>c, <2>1
  <2> QED BY <2>2
<1>2. PICK j \in Int : New(a) = a + j * CoreSize
  BY <1>1
<1>3. PICK k \in Int : New(b) = b + k * CoreSize
  BY <1>1
<1>4. /\ New(a) + b = (a + b) + j * CoreSize
      /\ New(a) - b = (a - b) + j * CoreSize
      /\ a + New(b) = (a + b) + k * CoreSize
      /\ a - New(b) = (a - b) + (-k) * CoreSize
  BY <1>c, <1>2, <1>3
<1>5. a + b \in Int /\ a - b \in Int /\ -k \in Int
  OBVIOUS
<1> QED BY <1>4, <1>5, NewShift

LEMMA NewSums ==
  ASSUME NEW a \in Int, NEW b \in Int, NEW c \in Int, NEW d \in Int,
         New(a) = New(c), New(b) = New(d)
  PROVE  New(a + b) = New(c + d)
<1>1. New(a + b) = New(New(a) + b) /\ New(c + d) = New(New(c) + d)
  BY NewCongruent
<1>2. New(c) \in Int
  BY NewInCore, CoreSizeAssumption, MaxIntAssumption DEF Addr
<1>3. New(New(c) + b) = New(New(c) + New(b)) /\ New(New(c) + d) = New(New(c) + New(d))
  BY <1>2, NewCongruent
<1> QED BY <1>1, <1>3

\* Every operator of offset.rs:50-111 returns an offset inside the core.
LEMMA ArithmeticInCore ==
  ASSUME NEW a \in Addr, NEW b \in Int
  PROVE  /\ Add(a, b) \in Addr
         /\ Sub(a, b) \in Addr
         /\ Mul(a, b) \in Addr
         /\ AddInt(a, b) \in Addr
         /\ SubInt(a, b) \in Addr
         /\ b > 0 => Div(a, b) \in Addr /\ Rem(a, b) \in Addr
<1>1. a \in Int /\ New(b) \in Int
  BY NewInCore, CoreSizeAssumption, MaxIntAssumption DEF Addr
<1>2. /\ a + b \in Int /\ a - b \in Int /\ a * b \in Int
      /\ a + New(b) \in Int /\ a - New(b) \in Int
  BY <1>1
<1>3. b > 0 => a \div b \in Int /\ a % b \in Int
  BY <1>1
<1> QED BY <1>2, <1>3, NewInCore, WrapIsInt DEF Add, Sub, Mul, AddInt, SubInt, Div, Rem

\* Away from i32::MAX nothing wraps, and sums, differences and products are those
\* of the integers modulo the size of the core (hazard: offset.rs:65).
THEOREM ArithmeticExact ==
  ASSUME NEW a \in Addr, NEW b \in Addr,
         2 * CoreSize <= MaxInt, a * b <= MaxInt
  PROVE  /\ Add(a, b) = (a + b) % CoreSize
         /\ Sub(a, b) = (a - b) % CoreSize
         /\ Mul(a, b) = (a * b) % CoreSize
<1>1. /\ a \in Nat /\ b \in Nat /\ CoreSize \in Nat /\ MaxInt \in Nat
      /\ a < CoreSize /\ b < CoreSize
  BY CoreSizeAssumption, MaxIntAssumption DEF Addr
<1>2. ASSUME NEW n \in Int, -(MaxInt + 1) <= n, n <= MaxInt
      PROVE  Wrap(n) = n
  BY <1>2, WrapExact
<1>3. a * b \in Nat
  BY <1>1
<1>4. /\ Wrap(a + b) = a + b
      /\ Wrap(a - b) = a - b
      /\ Wrap(a * b) = a * b
  BY <1>1, <1>2, <1>3
<1> QED BY <1>4 DEF Add, Sub, Mul, New
=============================================================================
