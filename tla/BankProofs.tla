------------------------------ MODULE BankProofs ------------------------------
(***************************************************************************)
(* Proofs about Bank.tla, as an instance of which Workload.tla has it: for  *)
(* every number of workers, of their transactions and of accounts, run      *)
(* keeps the money together.                                                *)
(*                                                                         *)
(* The sums in Bank.tla are folds of the community modules, which are      *)
(* CHOOSE expressions. That the functions they choose exist follows from    *)
(* the well-foundedness of the order of the numbers (SetInduction).        *)
(***************************************************************************)
EXTENDS Workload, SequencesExt, SequenceTheorems, FiniteSetTheorems, WellFoundedInduction, TLAPS

(* Induction over numbers and finite sets, for what the community modules   *)
(* define by recursion.                                                     *)

(* Induction over the numbers in the form the provers can use, for a set.   *)
LEMMA SetInduction ==
  ASSUME NEW S, 0 \in S, \A n \in Nat : n \in S => n + 1 \in S
  PROVE  Nat \subseteq S
<1> DEFINE T == Nat \ S
<1>1. SUFFICES ASSUME T # {} PROVE FALSE
  OBVIOUS
<1>2. PICK x \in T : \A y \in T : ~ (<<y, x>> \in OpToRel(<, Nat))
  BY <1>1, NatLessThanWellFounded, WFMin
<1>3. \A y \in T : ~ (y < x)
  BY <1>2 DEF OpToRel
<1>4. x # 0 /\ x - 1 \in Nat /\ x - 1 < x
  OBVIOUS
<1>5. QED
  BY <1>3, <1>4

(* The first values of the sequence that begins with x and goes on by F.    *)
Begins(A, x, F, n) ==
  {g \in [0 .. n -> A] : g[0] = x /\ \A k \in 0 .. n - 1 : g[k + 1] = F[<<k, g[k]>>]}

(* Two beginnings of one recursion agree where both are defined.            *)
LEMMA BeginningsAgree ==
  ASSUME NEW A, NEW x, NEW F, NEW m \in Nat, NEW n \in Nat,
         NEW g \in Begins(A, x, F, m), NEW h \in Begins(A, x, F, n)
  PROVE  \A k \in Nat : k <= m /\ k <= n => g[k] = h[k]
<1> DEFINE S == {k \in Nat : k <= m /\ k <= n => g[k] = h[k]}
<1>1. 0 \in S
  BY DEF Begins
<1>2. ASSUME NEW k \in Nat, k \in S PROVE k + 1 \in S
  <2>1. SUFFICES ASSUME k + 1 <= m, k + 1 <= n PROVE g[k + 1] = h[k + 1]
    OBVIOUS
  <2>2. k \in 0 .. m - 1 /\ k \in 0 .. n - 1 /\ g[k] = h[k]
    BY <1>2, <2>1
  <2>3. QED
    BY <2>2 DEF Begins
<1> HIDE DEF S
<1>3. Nat \subseteq S
  BY <1>1, <1>2, SetInduction
<1>4. QED
  BY <1>3 DEF S

(* There is a beginning of every length.                                    *)
LEMMA BeginningExists ==
  ASSUME NEW A, NEW x \in A, NEW F \in [Nat \X A -> A]
  PROVE  \A n \in Nat : Begins(A, x, F, n) # {}
<1> DEFINE S == {n \in Nat : Begins(A, x, F, n) # {}}
<1>1. 0 \in S
  <2>1. [k \in 0 .. 0 |-> x] \in Begins(A, x, F, 0)
    BY DEF Begins
  <2>2. QED
    BY <2>1
<1>2. ASSUME NEW n \in Nat, n \in S PROVE n + 1 \in S
  <2>1. PICK g : g \in Begins(A, x, F, n)
    BY <1>2
  <2>2. /\ g \in [0 .. n -> A] /\ g[0] = x
        /\ \A k \in 0 .. n - 1 : g[k + 1] = F[<<k, g[k]>>]
    BY <2>1 DEF Begins
  <2> DEFINE h == [k \in 0 .. n + 1 |-> IF k <= n THEN g[k] ELSE F[<<n, g[n]>>]]
  <2>3. F[<<n, g[n]>>] \in A
    BY <2>2
  <2>4. h \in [0 .. n + 1 -> A] /\ h[0] = x
    BY <2>2, <2>3
  <2>5. ASSUME NEW k \in 0 .. n PROVE h[k + 1] = F[<<k, h[k]>>]
    <3>1. CASE k = n
      BY <3>1
    <3>2. CASE k # n
      <4>1. k \in 0 .. n - 1 /\ k + 1 <= n /\ k <= n
        BY <3>2
      <4>2. h[k + 1] = g[k + 1] /\ h[k] = g[k]
        BY <4>1
      <4>3. QED
        BY <2>2, <4>1, <4>2
    <3>3. QED
      BY <3>1, <3>2
  <2> HIDE DEF h
  <2>6. (n + 1) - 1 = n
    OBVIOUS
  <2>7. h \in Begins(A, x, F, n + 1)
    BY <2>4, <2>5, <2>6 DEF Begins
  <2>8. QED
    BY <2>7
<1> HIDE DEF S
<1>3. Nat \subseteq S
  BY <1>1, <1>2, SetInduction
<1>4. QED
  BY <1>3 DEF S

(* A sequence of values of A can begin with x and go on by F ...            *)
Recursion(A, x, F) == x \in A /\ F \in [Nat \X A -> A]

(* ... and there is one that does.                                          *)
LEMMA RecursionExists ==
  ASSUME NEW A, NEW x, NEW F, Recursion(A, x, F)
  PROVE  \E f \in [Nat -> A] : f[0] = x /\ \A n \in Nat : f[n + 1] = F[<<n, f[n]>>]
<1> DEFINE g(n) == CHOOSE h : h \in Begins(A, x, F, n)
           f == [n \in Nat |-> g(n)[n]]
<1>1. \A n \in Nat : g(n) \in Begins(A, x, F, n)
  BY BeginningExists DEF Recursion
<1> HIDE DEF g
<1>2. f \in [Nat -> A] /\ f[0] = x
  BY <1>1 DEF Begins
<1>3. ASSUME NEW n \in Nat PROVE f[n + 1] = F[<<n, f[n]>>]
  <2>1. g(n + 1) \in Begins(A, x, F, n + 1) /\ g(n) \in Begins(A, x, F, n)
    BY <1>1
  <2>2. g(n + 1)[n + 1] = F[<<n, g(n + 1)[n]>>]
    BY <2>1 DEF Begins
  <2>3. g(n + 1)[n] = g(n)[n]
    BY <2>1, BeginningsAgree
  <2>4. QED
    BY <2>2, <2>3
<1>4. QED
  BY <1>2, <1>3

Some(T) == CHOOSE x \in T : TRUE

(* A property of the finite subsets of S that is passed on from a set       *)
(* without one of its elements to the set holds for all of them.            *)
LEMMA SubsetInduction ==
  ASSUME NEW S, IsFiniteSet(S), NEW P, {} \in P,
         \A T \in SUBSET S : T # {} /\ (\A x \in T : T \ {x} \in P) => T \in P
  PROVE  SUBSET S \subseteq P
<1> DEFINE N == {n \in Nat : \A T \in SUBSET S : Cardinality(T) = n => T \in P}
<1>1. \A T \in SUBSET S : IsFiniteSet(T) /\ Cardinality(T) \in Nat
  BY FS_Subset, FS_CardinalityType
<1>2. 0 \in N
  BY <1>1, FS_EmptySet
<1>3. ASSUME NEW n \in Nat, n \in N PROVE n + 1 \in N
  <2>1. SUFFICES ASSUME NEW T \in SUBSET S, Cardinality(T) = n + 1 PROVE T \in P
    OBVIOUS
  <2>2. T # {}
    <3>1. Cardinality({}) = 0 /\ n + 1 # 0
      BY FS_EmptySet
    <3>2. QED
      BY <2>1, <3>1
  <2>3. ASSUME NEW x \in T PROVE T \ {x} \in P
    <3>1. Cardinality(T \ {x}) = n
      BY <1>1, <2>1, FS_RemoveElement
    <3>2. QED
      BY <1>3, <3>1
  <2>4. QED
    BY <2>2, <2>3
<1> HIDE DEF N
<1>4. Nat \subseteq N
  BY <1>2, <1>3, SetInduction
<1>5. QED
  BY <1>1, <1>4 DEF N

(* The elements of S can be folded into a value of A, from base on by F ... *)
Fold(S, A, base, F) == IsFiniteSet(S) /\ base \in A /\ F \in [S \X A -> A]

(* ... which folds its subsets, too, taking some element first.             *)
FoldOf(S, A, base, F, g) ==
  /\ g \in [SUBSET S -> A]
  /\ \A T \in SUBSET S :
       g[T] = IF T = {} THEN base ELSE F[<<Some(T), g[T \ {Some(T)}]>>]

(* Such a fold exists: the limit of what is known of it for the sets of at  *)
(* most n elements.                                                         *)
LEMMA FoldExists ==
  ASSUME NEW S, NEW A, NEW base, NEW F, Fold(S, A, base, F)
  PROVE  \E g : FoldOf(S, A, base, F, g)
<1> DEFINE B == [SUBSET S -> A]
           Further(g) == [T \in SUBSET S |->
                         IF T = {} THEN base ELSE F[<<Some(T), g[T \ {Some(T)}]>>]]
           G == [p \in Nat \X B |-> Further(p[2])]
           b == [T \in SUBSET S |-> base]
<1> USE DEF Fold
<1>1. \A T \in SUBSET S : T # {} => Some(T) \in T
  BY DEF Some
<1>2. \A g \in B : Further(g) \in B
  BY <1>1
<1>3. b \in B
  OBVIOUS
<1>4. G \in [Nat \X B -> B]
  BY <1>2
<1> HIDE DEF b
<1>5. PICK f \in [Nat -> B] : f[0] = b /\ \A n \in Nat : f[n + 1] = G[<<n, f[n]>>]
  <2>1. Recursion(B, b, G)
    BY <1>3, <1>4 DEF Recursion
  <2> HIDE DEF G, B
  <2>2. QED
    BY <2>1, RecursionExists
<1>6. \A n \in Nat : f[n] \in B /\ f[n + 1] = Further(f[n])
  BY <1>5
<1> HIDE DEF G
<1> DEFINE P == {T \in SUBSET S : \A n \in Nat : n >= Cardinality(T) => f[n + 1][T] = f[n][T]}
<1>7. {} \in P
  <2>1. f[0][{}] = base
    BY <1>5 DEF b
  <2>2. \A n \in Nat : f[n + 1][{}] = base
    BY <1>6
  <2>3. ASSUME NEW n \in Nat PROVE f[n][{}] = base
    <3>1. CASE n = 0
      BY <2>1, <3>1
    <3>2. CASE n # 0
      <4>1. n - 1 \in Nat /\ (n - 1) + 1 = n
        BY <3>2
      <4>2. QED
        BY <2>2, <4>1
    <3>3. QED
      BY <3>1, <3>2
  <2>4. QED
    BY <2>2, <2>3
<1>8. ASSUME NEW T \in SUBSET S, T # {}, \A x \in T : T \ {x} \in P
      PROVE  T \in P
  <2>1. SUFFICES ASSUME NEW n \in Nat, n >= Cardinality(T) PROVE f[n + 1][T] = f[n][T]
    OBVIOUS
  <2> DEFINE x == Some(T)
             U == T \ {x}
  <2>2. x \in T /\ U \in SUBSET S
    BY <1>1, <1>8
  <2>3. IsFiniteSet(T) /\ Cardinality(T) \in Nat /\ Cardinality(U) = Cardinality(T) - 1
        /\ Cardinality(U) \in Nat
    BY <2>2, FS_Subset, FS_CardinalityType, FS_RemoveElement
  <2>4. n - 1 \in Nat /\ n - 1 >= Cardinality(U) /\ (n - 1) + 1 = n
    BY <2>1, <2>3
  <2>5. U \in P
    BY <1>8, <2>2
  <2>6. f[n][U] = f[n - 1][U]
    BY <2>4, <2>5
  <2>7. f[n + 1][T] = F[<<x, f[n][U]>>]
    BY <1>6, <1>8, <2>2
  <2>8. f[n][T] = F[<<x, f[n - 1][U]>>]
    <3>1. f[n] = Further(f[n - 1])
      BY <1>6, <2>4
    <3>2. QED
      BY <1>8, <2>2, <3>1
  <2>9. QED
    BY <2>6, <2>7, <2>8
<1> HIDE DEF P
<1>9. SUBSET S \subseteq P
  BY <1>7, <1>8, SubsetInduction
<1> DEFINE m == Cardinality(S)
<1>10. m \in Nat /\ \A T \in SUBSET S : Cardinality(T) <= m
  BY FS_CardinalityType, FS_Subset
<1>11. f[m] \in B /\ \A T \in SUBSET S : f[m + 1][T] = f[m][T]
  BY <1>6, <1>9, <1>10 DEF P
<1>12. \A T \in SUBSET S : f[m][T] = Further(f[m])[T]
  BY <1>6, <1>10, <1>11
<1>13. FoldOf(S, A, base, F, f[m])
  BY <1>11, <1>12 DEF FoldOf
<1>14. QED
  BY <1>13

(* What SumFunctionOnSet(f, S) is made of: the sums over the subsets of S.  *)
Sums(f, S, u) ==
  /\ u \in [SUBSET S -> Int]
  /\ u[{}] = 0
  /\ \A T \in SUBSET S : T # {} => u[T] = f[Some(T)] + u[T \ {Some(T)}]

(* SumFunctionOnSet, which is a CHOOSE, is made of such sums.               *)
LEMMA SumsExist ==
  ASSUME NEW f, NEW S, IsFiniteSet(S), \A x \in S : f[x] \in Int
  PROVE  \E u : Sums(f, S, u) /\ SumFunctionOnSet(f, S) = u[S]
<1> DEFINE Step(u) == [T \in SUBSET S |-> IF T = {} THEN 0
                                          ELSE f[Some(T)] + u[T \ {Some(T)}]]
           iter == CHOOSE u : u = Step(u)
<1>1. SumFunctionOnSet(f, S) = iter[S]
  BY DEF SumFunctionOnSet, FoldFunctionOnSet, MapThenFoldSet, Some
<1>2. \A T \in SUBSET S : T # {} => Some(T) \in T
  BY DEF Some
<1>3. \E u \in [SUBSET S -> Int] : u = Step(u)
  <2> DEFINE F == [p \in S \X Int |-> f[p[1]] + p[2]]
  <2>1. Fold(S, Int, 0, F)
    BY DEF Fold
  <2> HIDE DEF F
  <2>2. PICK u \in [SUBSET S -> Int] : \A T \in SUBSET S :
          u[T] = IF T = {} THEN 0 ELSE F[<<Some(T), u[T \ {Some(T)}]>>]
    <3>1. PICK u : FoldOf(S, Int, 0, F, u)
      BY <2>1, FoldExists
    <3>2. QED
      BY <3>1 DEF FoldOf
  <2> HIDE DEF F
  <2>3. ASSUME NEW T \in SUBSET S, T # {}
        PROVE  u[T] = f[Some(T)] + u[T \ {Some(T)}]
    <3>1. Some(T) \in S /\ u[T \ {Some(T)}] \in Int
      BY <1>2, <2>3
    <3>2. F[<<Some(T), u[T \ {Some(T)}]>>] = f[Some(T)] + u[T \ {Some(T)}]
      BY <3>1 DEF F
    <3>3. QED
      BY <2>2, <2>3, <3>2
  <2>4. u = Step(u)
    BY <2>2, <2>3
  <2>5. QED
    BY <2>4
<1>4. iter = Step(iter)
  BY <1>3
<1> HIDE DEF iter
<1>5. iter \in [SUBSET S -> Int]
  <2> DEFINE P == {T \in SUBSET S : iter[T] \in Int}
  <2>1. {} \in P
    BY <1>4
  <2>2. ASSUME NEW T \in SUBSET S, T # {}, \A x \in T : T \ {x} \in P
        PROVE  T \in P
    <3>1. Some(T) \in T /\ T \ {Some(T)} \in P
      BY <1>2, <2>2
    <3>2. iter[T] = f[Some(T)] + iter[T \ {Some(T)}]
      BY <1>4, <2>2
    <3>3. QED
      BY <3>1, <3>2
  <2> HIDE DEF P
  <2>3. SUBSET S \subseteq P
    BY <2>1, <2>2, SubsetInduction
  <2>4. QED
    BY <1>4, <2>3 DEF P
<1>6. iter[{}] = 0 /\ \A T \in SUBSET S : T # {} => iter[T] = f[Some(T)] + iter[T \ {Some(T)}]
  BY <1>4
<1>7. QED
  BY <1>1, <1>5, <1>6 DEF Sums

(* Any element may be taken first.                                          *)
LEMMA SumsTakeAny ==
  ASSUME NEW f, NEW S, IsFiniteSet(S), \A x \in S : f[x] \in Int, NEW u, Sums(f, S, u)
  PROVE  \A T \in SUBSET S : \A x \in T : u[T] = f[x] + u[T \ {x}]
<1> DEFINE P == {T \in SUBSET S : \A x \in T : u[T] = f[x] + u[T \ {x}]}
<1>1. {} \in P
  OBVIOUS
<1>2. ASSUME NEW T \in SUBSET S, T # {}, \A x \in T : T \ {x} \in P
      PROVE  T \in P
  <2> DEFINE y == Some(T)
  <2>1. y \in T /\ u[T] = f[y] + u[T \ {y}]
    BY <1>2 DEF Sums, Some
  <2> HIDE DEF y
  <2>2. ASSUME NEW x \in T, x # y PROVE u[T] = f[x] + u[T \ {x}]
    <3> DEFINE R == T \ {x, y}
    <3>1. (T \ {y}) \ {x} = R /\ (T \ {x}) \ {y} = R
      OBVIOUS
    <3>2. T \ {y} \in P /\ T \ {x} \in P /\ x \in T \ {y} /\ y \in T \ {x}
      BY <1>2, <2>1, <2>2
    <3>3. u[T \ {y}] = f[x] + u[(T \ {y}) \ {x}] /\ u[T \ {x}] = f[y] + u[(T \ {x}) \ {y}]
      BY <3>2
    <3>4. u[T \ {y}] = f[x] + u[R] /\ u[T \ {x}] = f[y] + u[R]
      BY <3>1, <3>3
    <3>5. u[R] \in Int /\ f[x] \in Int /\ f[y] \in Int
      BY <2>1 DEF Sums
    <3>6. QED
      BY <2>1, <3>4, <3>5
  <2>3. QED
    BY <2>1, <2>2
<1> HIDE DEF P
<1>3. SUBSET S \subseteq P
  BY <1>1, <1>2, SubsetInduction
<1>4. QED
  BY <1>3 DEF P

(* Sums depend on nothing but the summands.                                 *)
LEMMA SumsAgree ==
  ASSUME NEW f, NEW S, IsFiniteSet(S), NEW u, Sums(f, S, u),
         NEW g, NEW R, NEW v, Sums(g, R, v), S \subseteq R, \A x \in S : f[x] = g[x]
  PROVE  \A T \in SUBSET S : u[T] = v[T]
<1> DEFINE P == {T \in SUBSET S : u[T] = v[T]}
<1>1. {} \in P
  BY DEF Sums
<1>2. ASSUME NEW T \in SUBSET S, T # {}, \A x \in T : T \ {x} \in P
      PROVE  T \in P
  <2> DEFINE y == Some(T)
  <2>1. y \in T
    BY <1>2 DEF Some
  <2>2. u[T] = f[y] + u[T \ {y}]
    BY <1>2 DEF Sums
  <2>3. T \in SUBSET R /\ v[T] = g[y] + v[T \ {y}]
    BY <1>2 DEF Sums
  <2> HIDE DEF y
  <2>4. QED
    BY <1>2, <2>1, <2>2, <2>3
<1> HIDE DEF P
<1>3. SUBSET S \subseteq P
  BY <1>1, <1>2, SubsetInduction
<1>4. QED
  BY <1>3 DEF P

-----------------------------------------------------------------------------
(* SumFunctionOnSet: its type, the empty sum, what an element adds, and     *)
(* that nothing but the summands matters.                                   *)
LEMMA SumOnSet ==
  ASSUME NEW f, NEW S, IsFiniteSet(S), \A x \in S : f[x] \in Int
  PROVE  /\ SumFunctionOnSet(f, S) \in Int
         /\ S = {} => SumFunctionOnSet(f, S) = 0
         /\ \A x \in S : SumFunctionOnSet(f, S) = f[x] + SumFunctionOnSet(f, S \ {x})
<1>1. PICK u : Sums(f, S, u) /\ SumFunctionOnSet(f, S) = u[S]
  BY SumsExist
<1>2. ASSUME NEW x \in S
      PROVE  SumFunctionOnSet(f, S) = f[x] + SumFunctionOnSet(f, S \ {x})
  <2> DEFINE T == S \ {x}
  <2>1. IsFiniteSet(T) /\ \A y \in T : f[y] \in Int
    BY FS_Subset
  <2>2. PICK v : Sums(f, T, v) /\ SumFunctionOnSet(f, T) = v[T]
    BY <2>1, SumsExist
  <2>3. v[T] = u[T]
    BY <1>1, <2>1, <2>2, SumsAgree
  <2>4. u[S] = f[x] + u[T]
    BY <1>1, SumsTakeAny
  <2>5. QED
    BY <1>1, <2>2, <2>3, <2>4
<1>3. QED
  BY <1>1, <1>2 DEF Sums

(* The same summands have the same sum.                                     *)
LEMMA SumOnSetAgrees ==
  ASSUME NEW f, NEW g, NEW S, IsFiniteSet(S), \A x \in S : f[x] \in Int /\ f[x] = g[x]
  PROVE  SumFunctionOnSet(f, S) = SumFunctionOnSet(g, S)
<1>1. PICK u : Sums(f, S, u) /\ SumFunctionOnSet(f, S) = u[S]
  BY SumsExist
<1>2. PICK v : Sums(g, S, v) /\ SumFunctionOnSet(g, S) = v[S]
  BY SumsExist
<1>3. QED
  BY <1>1, <1>2, SumsAgree

(* Sums of integers are integers; that of none is zero.                     *)
LEMMA SumType ==
  ASSUME NEW s \in Seq(Int)
  PROVE  /\ SumFunction(s) \in Int
         /\ s = <<>> => SumFunction(s) = 0
<1>1. IsFiniteSet(DOMAIN s) /\ \A i \in DOMAIN s : s[i] \in Int
  BY FS_Interval
<1>2. s = <<>> => DOMAIN s = {}
  OBVIOUS
<1>3. QED
  BY <1>1, <1>2, SumOnSet DEF SumFunction

(* One summand less, at the end of a sequence ...                           *)
LEMMA SumFront ==
  ASSUME NEW s \in Seq(Int), s # <<>>
  PROVE  SumFunction(s) = SumFunction(Front(s)) + Last(s)
<1> DEFINE n == Len(s)
           S == DOMAIN s
           T == S \ {n}
<1>1. /\ n \in S /\ Last(s) = s[n] /\ Front(s) \in Seq(Int) /\ DOMAIN Front(s) = T
      /\ \A i \in T : Front(s)[i] = s[i]
  BY DEF Last, Front
<1>2. /\ IsFiniteSet(S) /\ IsFiniteSet(T)
      /\ \A i \in S : s[i] \in Int
  BY FS_Interval, FS_Subset
<1> HIDE DEF n
<1>3. SumFunctionOnSet(s, S) = s[n] + SumFunctionOnSet(s, T)
  BY <1>1, <1>2, SumOnSet
<1>4. SumFunctionOnSet(s, T) = SumFunctionOnSet(Front(s), T)
  <2>1. \A i \in T : s[i] \in Int /\ s[i] = Front(s)[i]
    BY <1>1, <1>2
  <2> HIDE DEF S, T
  <2>2. QED
    BY <1>2, <2>1, SumOnSetAgrees
<1>5. SumFunctionOnSet(s, T) \in Int /\ s[n] \in Int
  <2>1. \A i \in T : s[i] \in Int
    BY <1>2
  <2> HIDE DEF S, T
  <2>2. QED
    BY <1>1, <1>2, <2>1, SumOnSet
<1>6. SumFunction(s) = SumFunctionOnSet(s, S)
  BY DEF SumFunction
<1>7. SumFunction(Front(s)) = SumFunctionOnSet(Front(s), T)
  BY <1>1 DEF SumFunction
<1>8. QED
  BY <1>1, <1>3, <1>4, <1>5, <1>6, <1>7

(* ... one more ...                                                         *)
LEMMA SumAppend ==
  ASSUME NEW s \in Seq(Int), NEW x \in Int
  PROVE  SumFunction(Append(s, x)) = SumFunction(s) + x
<1> DEFINE t == Append(s, x)
<1>1. t \in Seq(Int) /\ t # <<>> /\ Last(t) = x
  BY DEF Last
<1>2. Front(t) = s
  <2>1. Len(t) = Len(s) + 1 /\ \A i \in 1 .. Len(s) : t[i] = s[i]
    OBVIOUS
  <2>2. Len(t) - 1 = Len(s)
    BY <2>1
  <2> HIDE DEF t
  <2>3. Front(t) \in Seq(Int) /\ Len(Front(t)) = Len(s) /\ \A i \in 1 .. Len(s) : Front(t)[i] = s[i]
    BY <1>1, <2>1, <2>2 DEF Front
  <2> DEFINE r == Front(t)
  <2>4. r \in Seq(Int) /\ Len(r) = Len(s) /\ \A i \in 1 .. Len(r) : r[i] = s[i]
    BY <2>3
  <2> HIDE DEF r
  <2>5. r = s
    BY <2>4, SeqEqual
  <2>6. QED
    BY <2>5 DEF r
<1>3. QED
  BY <1>1, <1>2, SumFront

(* ... and another value of one.                                            *)
LEMMA SumExcept ==
  ASSUME NEW s \in Seq(Int), NEW t \in Seq(Int), NEW k \in DOMAIN s, DOMAIN t = DOMAIN s,
         \A i \in DOMAIN s \ {k} : t[i] = s[i]
  PROVE  SumFunction(t) = SumFunction(s) - s[k] + t[k]
<1> DEFINE S == DOMAIN s
           T == S \ {k}
<1>1. /\ IsFiniteSet(S) /\ IsFiniteSet(T)
      /\ \A i \in S : s[i] \in Int /\ t[i] \in Int
  <2>1. \A i \in DOMAIN s : s[i] \in Int
    OBVIOUS
  <2>2. \A i \in DOMAIN t : t[i] \in Int
    OBVIOUS
  <2>3. IsFiniteSet(DOMAIN s)
    BY FS_Interval
  <2> HIDE DEF T
  <2>4. QED
    BY <2>1, <2>2, <2>3, FS_Subset DEF T
<1>2. /\ SumFunctionOnSet(s, S) = s[k] + SumFunctionOnSet(s, T)
      /\ SumFunctionOnSet(t, S) = t[k] + SumFunctionOnSet(t, T)
  <2> HIDE DEF S
  <2>1. k \in S
    BY DEF S
  <2>2. QED
    BY <1>1, <2>1, SumOnSet
<1>3. \A i \in T : s[i] \in Int /\ s[i] = t[i]
  BY <1>1
<1> HIDE DEF T
<1>4. SumFunctionOnSet(s, T) = SumFunctionOnSet(t, T) /\ SumFunctionOnSet(s, T) \in Int
  BY <1>1, <1>3, SumOnSetAgrees, SumOnSet
<1>5. s[k] \in Int /\ t[k] \in Int
  BY <1>1
<1>6. SumFunction(s) = SumFunctionOnSet(s, S) /\ SumFunction(t) = SumFunctionOnSet(t, S)
  BY DEF SumFunction
<1>7. QED
  BY <1>2, <1>4, <1>5, <1>6

-----------------------------------------------------------------------------
(* The totals of a bank.                                                    *)

Segment == [parity : Int, balances : Seq(Int)]

WorthOf(segment) == segment.parity + SumFunction(segment.balances)

Lengths(b) == [s \in DOMAIN b |-> Len(b[s].balances)]
Worths(b)  == [s \in DOMAIN b |-> WorthOf(b[s])]
Number(b)  == SumFunction(Lengths(b))  \* of accounts
Value(b)   == SumFunction(Worths(b))

(* The helpers of the community modules are the same in Bank as here.       *)
LEMMA SameHelpers ==
  ASSUME NEW s
  PROVE  /\ Accounts!Bank!SumFunction(s) = SumFunction(s)
         /\ Accounts!Bank!Last(s) = Last(s)
         /\ Accounts!Bank!Front(s) = Front(s)
<1>1. Accounts!Bank!SumFunction(s) = SumFunction(s)
  BY DEF Accounts!Bank!SumFunction, SumFunction, Accounts!Bank!SumFunctionOnSet, SumFunctionOnSet,
         Accounts!Bank!FoldFunctionOnSet, FoldFunctionOnSet,
         Accounts!Bank!MapThenFoldSet, MapThenFoldSet
<1>2. QED
  BY <1>1 DEF Accounts!Bank!Last, Last, Accounts!Bank!Front, Front

(* Accounts and Worth in Bank.tla are the totals of the bank.               *)
LEMMA Totals ==
  /\ Accounts!Bank!Accounts = Number(bank)
  /\ Accounts!Bank!Worth = Value(bank)
BY SameHelpers DEF Accounts!Bank!Accounts, Accounts!Bank!Worth, Number, Value, Lengths, Worths, WorthOf

(* What a segment holds, and what it is worth.                              *)
LEMMA SegmentTypes ==
  ASSUME NEW x \in Segment
  PROVE  x.parity \in Int /\ x.balances \in Seq(Int) /\ WorthOf(x) \in Int /\ Len(x.balances) \in Nat
<1>1. x.parity \in Int /\ x.balances \in Seq(Int)
  BY DEF Segment
<1>2. SumFunction(x.balances) \in Int /\ Len(x.balances) \in Nat
  BY <1>1, SumType
<1>3. QED
  BY <1>1, <1>2 DEF WorthOf

(* The totals of a bank are integers, and it has as many summands as        *)
(* segments.                                                                *)
LEMMA TotalsTypes ==
  ASSUME NEW b \in Seq(Segment)
  PROVE  /\ Lengths(b) \in Seq(Int) /\ DOMAIN Lengths(b) = DOMAIN b
         /\ Worths(b) \in Seq(Int) /\ DOMAIN Worths(b) = DOMAIN b
         /\ Len(Lengths(b)) = Len(b) /\ Len(Worths(b)) = Len(b)
         /\ Number(b) \in Int /\ Value(b) \in Int
<1> DEFINE n == Len(b)
           l == Lengths(b)
           v == Worths(b)
<1>1. n \in Nat /\ DOMAIN b = 1 .. n /\ \A s \in 1 .. n : b[s] \in Segment
  OBVIOUS
<1>2. l = [s \in 1 .. n |-> Len(b[s].balances)] /\ v = [s \in 1 .. n |-> WorthOf(b[s])]
  BY <1>1 DEF Lengths, Worths
<1> HIDE DEF n
<1>3. \A s \in 1 .. n : Len(b[s].balances) \in Int /\ WorthOf(b[s]) \in Int
  BY <1>1, SegmentTypes
<1> HIDE DEF l, v
<1>4. /\ l \in Seq(Int) /\ Len(l) = n /\ DOMAIN l = 1 .. n
      /\ v \in Seq(Int) /\ Len(v) = n /\ DOMAIN v = 1 .. n
  <2>1. l \in [1 .. n -> Int] /\ v \in [1 .. n -> Int]
    BY <1>2, <1>3
  <2>2. l \in Seq(Int) /\ v \in Seq(Int)
    BY <1>1, <2>1
  <2>3. QED
    BY <1>1, <2>1, <2>2
<1>5. SumFunction(l) \in Int /\ SumFunction(v) \in Int
  BY <1>4, SumType
<1>6. QED
  BY <1>1, <1>4, <1>5 DEF l, v, n, Number, Value

(* What another value of one segment makes of the totals ...                *)
LEMMA SegmentChanged ==
  ASSUME NEW b \in Seq(Segment), NEW d \in Seq(Segment), NEW k \in DOMAIN b,
         DOMAIN d = DOMAIN b, \A s \in DOMAIN b \ {k} : d[s] = b[s]
  PROVE  /\ Number(d) = Number(b) - Len(b[k].balances) + Len(d[k].balances)
         /\ Value(d) = Value(b) - WorthOf(b[k]) + WorthOf(d[k])
<1>1. /\ Lengths(b)[k] = Len(b[k].balances) /\ Lengths(d)[k] = Len(d[k].balances)
      /\ Worths(b)[k] = WorthOf(b[k]) /\ Worths(d)[k] = WorthOf(d[k])
      /\ \A s \in DOMAIN b \ {k} : Lengths(d)[s] = Lengths(b)[s] /\ Worths(d)[s] = Worths(b)[s]
  BY DEF Lengths, Worths
<1>2. /\ Lengths(b) \in Seq(Int) /\ DOMAIN Lengths(b) = DOMAIN b
      /\ Worths(b) \in Seq(Int) /\ DOMAIN Worths(b) = DOMAIN b
      /\ Lengths(d) \in Seq(Int) /\ DOMAIN Lengths(d) = DOMAIN b
      /\ Worths(d) \in Seq(Int) /\ DOMAIN Worths(d) = DOMAIN b
  BY TotalsTypes
<1>3. SumFunction(Lengths(d)) = SumFunction(Lengths(b)) - Lengths(b)[k] + Lengths(d)[k]
  BY <1>1, <1>2, SumExcept
<1>4. SumFunction(Worths(d)) = SumFunction(Worths(b)) - Worths(b)[k] + Worths(d)[k]
  BY <1>1, <1>2, SumExcept
<1>5. QED
  BY <1>1, <1>3, <1>4 DEF Number, Value

(* ... and what a segment at the end adds to them.                          *)
LEMMA LastSegment ==
  ASSUME NEW b \in Seq(Segment), b # <<>>
  PROVE  /\ Front(b) \in Seq(Segment) /\ Last(b) \in Segment
         /\ Number(b) = Number(Front(b)) + Len(Last(b).balances)
         /\ Value(b) = Value(Front(b)) + WorthOf(Last(b))
<1> DEFINE f == Front(b)
           n == Len(b)
<1>1. /\ n \in Nat \ {0} /\ n - 1 \in Nat /\ f \in Seq(Segment) /\ Len(f) = n - 1
      /\ \A s \in 1 .. n - 1 : f[s] = b[s]
      /\ Last(b) = b[n] /\ b[n] \in Segment /\ DOMAIN b = 1 .. n /\ DOMAIN f = 1 .. n - 1
  <2>1. n \in Nat \ {0} /\ n - 1 \in Nat /\ DOMAIN b = 1 .. n
    OBVIOUS
  <2>2. b[n] \in Segment
    BY <2>1, ElementOfSeq
  <2>3. \A s \in 1 .. n - 1 : b[s] \in Segment
    BY <2>1, ElementOfSeq
  <2>4. f = [s \in 1 .. n - 1 |-> b[s]]
    <3>1. f = SubSeq(b, 1, n - 1)
      BY DEF Front
    <3> HIDE DEF n, f
    <3>2. QED
      BY <2>1, <3>1
  <2> HIDE DEF n, f
  <2>5. f \in [1 .. n - 1 -> Segment]
    BY <2>3, <2>4
  <2>6. f \in Seq(Segment) /\ Len(f) = n - 1 /\ DOMAIN f = 1 .. n - 1
    BY <2>1, <2>5
  <2>7. \A s \in 1 .. n - 1 : f[s] = b[s]
    BY <2>4
  <2>8. QED
    BY <2>1, <2>2, <2>6, <2>7 DEF Last, n
<1>2. /\ Lengths(b) \in Seq(Int) /\ Len(Lengths(b)) = n /\ Worths(b) \in Seq(Int) /\ Len(Worths(b)) = n
      /\ Lengths(f) \in Seq(Int) /\ Len(Lengths(f)) = n - 1
      /\ Worths(f) \in Seq(Int) /\ Len(Worths(f)) = n - 1
  BY <1>1, TotalsTypes
<1>3. /\ \A s \in 1 .. n - 1 : Lengths(f)[s] = Lengths(b)[s] /\ Worths(f)[s] = Worths(b)[s]
      /\ Lengths(b)[n] = Len(b[n].balances) /\ Worths(b)[n] = WorthOf(b[n])
  BY <1>1 DEF Lengths, Worths
<1> HIDE DEF f, n
<1>4. ASSUME NEW s \in Seq(Int), NEW t \in Seq(Int), Len(s) = n, Len(t) = n - 1,
             \A i \in 1 .. n - 1 : t[i] = s[i]
      PROVE  SumFunction(s) = SumFunction(t) + s[n]
  <2>1. s # <<>> /\ Last(s) = s[n]
    BY <1>1, <1>4 DEF Last
  <2>2. /\ Front(s) \in Seq(Int) /\ Len(Front(s)) = Len(t)
        /\ \A i \in 1 .. Len(Front(s)) : Front(s)[i] = t[i]
    BY <1>1, <1>4 DEF Front
  <2>3. Front(s) = t
    BY <2>2, SeqEqual
  <2>4. QED
    BY <2>1, <2>3, SumFront
<1>5. SumFunction(Lengths(b)) = SumFunction(Lengths(f)) + Lengths(b)[n]
  BY <1>2, <1>3, <1>4
<1>6. SumFunction(Worths(b)) = SumFunction(Worths(f)) + Worths(b)[n]
  BY <1>2, <1>3, <1>4
<1>7. QED
  BY <1>1, <1>3, <1>5, <1>6 DEF Number, Value, f

-----------------------------------------------------------------------------
(* Banks that are kept well, and what another segment makes of them.        *)

(* A bank in which no account is overdrawn, every segment but the last one  *)
(* is full and none is empty, and to whose worth extra is missing.          *)
Formed(b) ==
  /\ b \in Seq(Segment) /\ b # <<>>
  /\ \A s \in DOMAIN b : /\ Len(b[s].balances) \in 1 .. nbaccounts
                         /\ s < Len(b) => Len(b[s].balances) = nbaccounts

Solvent(x) == \A i \in DOMAIN x.balances : x.balances[i] >= 0

Short(b, extra) ==
  /\ Formed(b)
  /\ \A s \in DOMAIN b : Solvent(b[s])
  /\ extra \in Int /\ Value(b) + extra = init_balance * Number(b)

(* The multiples of init_balance, which is all the arithmetic that is not   *)
(* linear.                                                                  *)
LEMMA Distributes ==
  \A m, n \in Int : /\ init_balance * (m + n) = init_balance * m + init_balance * n
                    /\ init_balance * (m - n) = init_balance * m - init_balance * n
                    /\ init_balance * m \in Int
BY BankAssumption

(* Another segment of the bank takes the place of one ...                   *)
LEMMA Replaced ==
  ASSUME NEW b, NEW extra, Short(b, extra), NEW k \in DOMAIN b, NEW x \in Segment, Solvent(x),
         Len(x.balances) \in 1 .. nbaccounts,
         k < Len(b) => Len(x.balances) = nbaccounts
  PROVE  Short([b EXCEPT ![k] = x],
               extra - (WorthOf(x) - WorthOf(b[k]))
                     + init_balance * (Len(x.balances) - Len(b[k].balances)))
<1> DEFINE d == [b EXCEPT ![k] = x]
<1>1. /\ b \in Seq(Segment) /\ b # <<>> /\ extra \in Int
      /\ Value(b) + extra = init_balance * Number(b)
      /\ \A s \in DOMAIN b : /\ Len(b[s].balances) \in 1 .. nbaccounts
                             /\ s < Len(b) => Len(b[s].balances) = nbaccounts
                             /\ Solvent(b[s])
  BY DEF Short, Formed
<1>2. /\ d \in Seq(Segment) /\ DOMAIN d = DOMAIN b /\ Len(d) = Len(b)
      /\ d[k] = x /\ \A s \in DOMAIN b \ {k} : d[s] = b[s]
  BY <1>1, ExceptSeq
<1> HIDE DEF d
<1>3. /\ Number(d) = Number(b) - Len(b[k].balances) + Len(x.balances)
      /\ Value(d) = Value(b) - WorthOf(b[k]) + WorthOf(x)
  BY <1>1, <1>2, SegmentChanged
<1>4. /\ Number(b) \in Int /\ Value(b) \in Int
      /\ WorthOf(x) \in Int /\ Len(x.balances) \in Int
  BY <1>1, TotalsTypes, SegmentTypes
<1>5. WorthOf(b[k]) \in Int /\ Len(b[k].balances) \in Int
  <2>1. b[k] \in Segment
    BY <1>1
  <2>2. QED
    BY <2>1, SegmentTypes
<1>6. Formed(d) /\ \A s \in DOMAIN d : Solvent(d[s])
  <2>1. d # <<>>
    BY <1>1, <1>2
  <2>2. ASSUME NEW s \in DOMAIN d
        PROVE  /\ Len(d[s].balances) \in 1 .. nbaccounts
               /\ s < Len(d) => Len(d[s].balances) = nbaccounts
               /\ Solvent(d[s])
    BY <1>1, <1>2
  <2>3. QED
    BY <1>2, <2>1, <2>2 DEF Formed
<1> DEFINE lx == Len(x.balances)
           lb == Len(b[k].balances)
           wx == WorthOf(x)
           wb == WorthOf(b[k])
           n == lx - lb
           v == wx - wb
<1>6a. /\ lx \in Int /\ lb \in Int /\ wx \in Int /\ wb \in Int
      /\ Number(d) = Number(b) - lb + lx /\ Value(d) = Value(b) - wb + wx
  BY <1>3, <1>4, <1>5
<1> HIDE DEF lx, lb, wx, wb
<1>7. n \in Int /\ v \in Int /\ Number(d) = Number(b) + n /\ Value(d) = Value(b) + v
  BY <1>4, <1>6a
<1> HIDE DEF n, v
<1>8. init_balance * (Number(b) + n) = init_balance * Number(b) + init_balance * n
      /\ init_balance * n \in Int /\ init_balance * Number(b) \in Int
  BY <1>4, <1>7, Distributes
<1>9. Value(d) + (extra - v + init_balance * n) = init_balance * Number(d)
      /\ extra - v + init_balance * n \in Int
  BY <1>1, <1>4, <1>7, <1>8
<1>10. Short(d, extra - v + init_balance * n)
  BY <1>6, <1>9 DEF Short
<1>11. QED
  BY <1>10 DEF d, n, v, lx, lb, wx, wb

(* ... one more is at the end ...                                           *)
LEMMA Extended ==
  ASSUME NEW b, NEW extra, Short(b, extra), NEW x \in Segment, Solvent(x),
         Len(x.balances) \in 1 .. nbaccounts, Len(Last(b).balances) = nbaccounts
  PROVE  Short(Append(b, x), extra - WorthOf(x) + init_balance * Len(x.balances))
<1> DEFINE d == Append(b, x)
<1>1. /\ b \in Seq(Segment) /\ b # <<>> /\ extra \in Int
      /\ Value(b) + extra = init_balance * Number(b)
      /\ \A s \in DOMAIN b : /\ Len(b[s].balances) \in 1 .. nbaccounts
                             /\ s < Len(b) => Len(b[s].balances) = nbaccounts
                             /\ Solvent(b[s])
  BY DEF Short, Formed
<1>2. /\ d \in Seq(Segment) /\ d # <<>> /\ Len(d) = Len(b) + 1 /\ d[Len(b) + 1] = x
      /\ \A s \in 1 .. Len(b) : d[s] = b[s]
  BY <1>1, AppendProperties
<1>3. Last(d) = x /\ Front(d) = b /\ Len(b) \in Nat /\ DOMAIN b = 1 .. Len(b)
      /\ DOMAIN d = 1 .. Len(b) + 1 /\ Last(b) = b[Len(b)]
  <2>1. Last(d) = x /\ Len(b) \in Nat /\ DOMAIN b = 1 .. Len(b)
        /\ DOMAIN d = 1 .. Len(b) + 1 /\ Last(b) = b[Len(b)]
    BY <1>1, <1>2, LenProperties DEF Last
  <2>2. Front(d) = SubSeq(d, 1, Len(b))
    BY <1>2, <2>1 DEF Front
  <2> HIDE DEF d
  <2>3. SubSeq(d, 1, Len(b)) = [s \in 1 .. Len(b) |-> d[s]]
    BY <1>2, <2>1
  <2>4. SubSeq(d, 1, Len(b)) = [s \in 1 .. Len(b) |-> b[s]]
    BY <1>2, <2>3
  <2>5. b = [s \in 1 .. Len(b) |-> b[s]]
    BY <1>1, <2>1
  <2>6. QED
    BY <2>1, <2>2, <2>4, <2>5
<1> HIDE DEF d
<1>4. /\ Number(d) = Number(b) + Len(x.balances)
      /\ Value(d) = Value(b) + WorthOf(x)
  BY <1>2, <1>3, LastSegment
<1>5. /\ Number(b) \in Int /\ Value(b) \in Int
      /\ WorthOf(x) \in Int /\ Len(x.balances) \in Int
  BY <1>1, TotalsTypes, SegmentTypes
<1>6. Formed(d) /\ \A s \in DOMAIN d : Solvent(d[s])
  <2>1. ASSUME NEW s \in DOMAIN d
        PROVE  /\ Len(d[s].balances) \in 1 .. nbaccounts
               /\ s < Len(d) => Len(d[s].balances) = nbaccounts
               /\ Solvent(d[s])
    <3>1. CASE s = Len(b) + 1
      BY <1>2, <1>3, <3>1
    <3>2. CASE s # Len(b) + 1
      <4>1. s \in 1 .. Len(b) /\ d[s] = b[s] /\ s \in DOMAIN b
        BY <1>2, <1>3, <3>2
      <4>2. CASE s = Len(b)
        BY <1>1, <1>3, <4>1, <4>2
      <4>3. CASE s # Len(b)
        <5>1. s < Len(b)
          BY <1>3, <4>1, <4>3
        <5>2. QED
          BY <1>1, <4>1, <5>1
      <4>4. QED
        BY <4>2, <4>3
    <3>3. QED
      BY <3>1, <3>2
  <2>2. QED
    BY <1>2, <2>1 DEF Formed
<1> DEFINE n == Len(x.balances)
           v == WorthOf(x)
<1>7. n \in Int /\ v \in Int /\ Number(d) = Number(b) + n /\ Value(d) = Value(b) + v
  BY <1>4, <1>5
<1> HIDE DEF n, v
<1>8. init_balance * (Number(b) + n) = init_balance * Number(b) + init_balance * n
      /\ init_balance * n \in Int /\ init_balance * Number(b) \in Int
  BY <1>5, <1>7, Distributes
<1>9. Value(d) + (extra - v + init_balance * n) = init_balance * Number(d)
      /\ extra - v + init_balance * n \in Int
  BY <1>1, <1>5, <1>7, <1>8
<1>10. Short(d, extra - v + init_balance * n)
  BY <1>6, <1>9 DEF Short
<1>11. QED
  BY <1>10 DEF d, n, v

(* ... or the last one goes.                                                *)
LEMMA Shortened ==
  ASSUME NEW b, NEW extra, Short(b, extra), Len(b) > 1
  PROVE  Short(Front(b), extra + WorthOf(Last(b)) - init_balance * Len(Last(b).balances))
<1> DEFINE d == Front(b)
           x == Last(b)
<1>1. /\ b \in Seq(Segment) /\ b # <<>> /\ extra \in Int
      /\ Value(b) + extra = init_balance * Number(b)
      /\ \A s \in DOMAIN b : /\ Len(b[s].balances) \in 1 .. nbaccounts
                             /\ s < Len(b) => Len(b[s].balances) = nbaccounts
                             /\ Solvent(b[s])
  BY DEF Short, Formed
<1>2. /\ d \in Seq(Segment) /\ x \in Segment
      /\ Number(b) = Number(d) + Len(x.balances)
      /\ Value(b) = Value(d) + WorthOf(x)
  BY <1>1, LastSegment
<1>3. /\ Len(b) \in Nat /\ DOMAIN b = 1 .. Len(b)
      /\ DOMAIN d = 1 .. Len(b) - 1 /\ d # <<>> /\ Len(d) = Len(b) - 1
      /\ \A s \in 1 .. Len(b) - 1 : d[s] = b[s]
  <2>1. Len(b) \in Nat /\ DOMAIN b = 1 .. Len(b)
    BY <1>1, LenProperties
  <2>2. d = [s \in 1 .. Len(b) - 1 |-> b[s]]
    BY <1>1, <2>1 DEF Front
  <2> HIDE DEF d
  <2>3. DOMAIN d = 1 .. Len(b) - 1 /\ \A s \in 1 .. Len(b) - 1 : d[s] = b[s]
    BY <2>2
  <2>4. Len(d) = Len(b) - 1
    <3>1. d \in [1 .. Len(b) - 1 -> Segment] /\ Len(b) - 1 \in Nat
      BY <1>2, <2>1, <2>2, ElementOfSeq
    <3>2. QED
      BY <3>1
  <2>5. d # <<>>
    BY <2>1, <2>4
  <2>6. QED
    BY <2>1, <2>3, <2>4, <2>5
<1> HIDE DEF d, x
<1>4. /\ Number(d) \in Int /\ Value(d) \in Int /\ Number(b) \in Int /\ Value(b) \in Int
      /\ WorthOf(x) \in Int /\ Len(x.balances) \in Int
  BY <1>1, <1>2, TotalsTypes, SegmentTypes
<1>5. Formed(d) /\ \A s \in DOMAIN d : Solvent(d[s])
  <2>1. ASSUME NEW s \in DOMAIN d
        PROVE  /\ Len(d[s].balances) \in 1 .. nbaccounts
               /\ s < Len(d) => Len(d[s].balances) = nbaccounts
               /\ Solvent(d[s])
    BY <1>1, <1>3
  <2>2. QED
    BY <1>2, <1>3, <2>1 DEF Formed
<1> DEFINE n == Len(x.balances)
           v == WorthOf(x)
<1>6. n \in Int /\ v \in Int /\ Number(d) = Number(b) - n /\ Value(d) = Value(b) - v
  BY <1>2, <1>4
<1> HIDE DEF n, v
<1>7. init_balance * (Number(b) - n) = init_balance * Number(b) - init_balance * n
      /\ init_balance * n \in Int /\ init_balance * Number(b) \in Int
  BY <1>4, <1>6, Distributes
<1>8. Value(d) + (extra + v - init_balance * n) = init_balance * Number(d)
      /\ extra + v - init_balance * n \in Int
  BY <1>1, <1>4, <1>6, <1>7
<1>9. Short(d, extra + v - init_balance * n)
  BY <1>5, <1>8 DEF Short
<1>10. QED
  BY <1>9 DEF d, x, n, v

Good(b) == Short(b, 0)

(* Everything is of the right kind in a segment of a good bank.             *)
LEMMA SegmentOf ==
  ASSUME NEW b, NEW extra, Short(b, extra), NEW k \in DOMAIN b
  PROVE  /\ b[k] \in Segment /\ b[k].parity \in Int /\ b[k].balances \in Seq(Int)
         /\ Len(b[k].balances) \in 1 .. nbaccounts
         /\ Len(b[k].balances) \in Nat /\ DOMAIN b[k].balances = 1 .. Len(b[k].balances)
         /\ k < Len(b) => Len(b[k].balances) = nbaccounts
         /\ \A i \in DOMAIN b[k].balances : b[k].balances[i] \in Int /\ b[k].balances[i] >= 0
         /\ WorthOf(b[k]) = b[k].parity + SumFunction(b[k].balances)
         /\ SumFunction(b[k].balances) \in Int
         /\ k \in 1 .. Len(b) /\ Len(b) \in Nat
<1>1. b[k] \in Segment /\ k \in 1 .. Len(b) /\ Len(b) \in Nat
  BY ElementOfSeq, LenProperties DEF Short, Formed
<1>2. b[k].parity \in Int /\ b[k].balances \in Seq(Int) /\ Len(b[k].balances) \in Nat
  BY <1>1, SegmentTypes
<1>3. /\ Len(b[k].balances) \in 1 .. nbaccounts
      /\ k < Len(b) => Len(b[k].balances) = nbaccounts
      /\ \A i \in DOMAIN b[k].balances : b[k].balances[i] >= 0
  BY DEF Short, Formed, Solvent
<1>4. DOMAIN b[k].balances = 1 .. Len(b[k].balances)
      /\ \A i \in DOMAIN b[k].balances : b[k].balances[i] \in Int
  BY <1>2, LenProperties, ElementOfSeq
<1>5. SumFunction(b[k].balances) \in Int
  BY <1>2, SumType
<1>6. WorthOf(b[k]) = b[k].parity + SumFunction(b[k].balances)
  BY DEF WorthOf
<1>7. \A i \in DOMAIN b[k].balances : b[k].balances[i] \in Int /\ b[k].balances[i] >= 0
  BY <1>3, <1>4
<1>8. QED
  BY <1>1, <1>2, <1>3, <1>4, <1>5, <1>6, <1>7

(* The last segment of a bank.                                              *)
LEMMA LastOf ==
  ASSUME NEW b, NEW extra, Short(b, extra)
  PROVE  Len(b) \in DOMAIN b /\ Last(b) = b[Len(b)] /\ Len(b) \in Nat \ {0} /\ DOMAIN b = 1 .. Len(b)
<1>1. b \in Seq(Segment) /\ b # <<>>
  BY DEF Short, Formed
<1>2. Len(b) \in Nat \ {0} /\ DOMAIN b = 1 .. Len(b)
  BY <1>1, LenProperties, EmptySeq
<1>3. QED
  BY <1>2 DEF Last

(* The sum of one number.                                                   *)
LEMMA SumSingle ==
  ASSUME NEW x \in Int
  PROVE  <<x>> \in Seq(Int) /\ SumFunction(<<x>>) = x
<1> DEFINE none == <<>>
<1>1. none \in Seq(Int) /\ SumFunction(none) = 0
  <2>1. none \in Seq(Int) /\ none = <<>>
    BY EmptySeq
  <2> HIDE DEF none
  <2>2. QED
    BY <2>1, SumType
<1>2. SumFunction(Append(<<>>, x)) = 0 + x
  BY <1>1, SumAppend
<1>3. Append(<<>>, x) = <<x>>
  OBVIOUS
<1>4. QED
  BY <1>2, <1>3

(* alloc_tx: an account more ...                                            *)
LEMMA AllocatedGood == Good(bank) => Good(Accounts!Bank!Allocated)
<1> SUFFICES ASSUME Good(bank) PROVE Good(Accounts!Bank!Allocated)
  OBVIOUS
<1> DEFINE n == Len(bank)
           s == bank[n]
<1>1. n \in DOMAIN bank /\ Last(bank) = s /\ n \in Nat \ {0} /\ DOMAIN bank = 1 .. n
  BY LastOf DEF Good
<1>2. /\ s \in Segment /\ s.parity \in Int /\ s.balances \in Seq(Int)
      /\ Len(s.balances) \in 1 .. nbaccounts
      /\ Len(s.balances) \in Nat /\ DOMAIN s.balances = 1 .. Len(s.balances)
      /\ \A i \in DOMAIN s.balances : s.balances[i] \in Int /\ s.balances[i] >= 0
      /\ WorthOf(s) = s.parity + SumFunction(s.balances)
      /\ SumFunction(s.balances) \in Int
  BY <1>1, SegmentOf DEF Good
<1> HIDE DEF n
<1>3. init_balance \in Nat /\ nbaccounts \in Nat \ {0}
  BY BankAssumption
<1>4. CASE Len(s.balances) < nbaccounts
  <2> DEFINE more == Append(s.balances, init_balance)
             x == [s EXCEPT !.balances = more]
  <2>1. /\ more \in Seq(Int) /\ Len(more) = Len(s.balances) + 1
        /\ \A i \in 1 .. Len(s.balances) : more[i] = s.balances[i]
        /\ more[Len(s.balances) + 1] = init_balance
        /\ DOMAIN more = 1 .. Len(s.balances) + 1
    BY <1>2, <1>3
  <2>2. SumFunction(more) = SumFunction(s.balances) + init_balance
    BY <1>2, <1>3, SumAppend
  <2> HIDE DEF more
  <2>3. x \in Segment /\ x.parity = s.parity /\ x.balances = more
    BY <1>2, <2>1 DEF Segment
  <2> HIDE DEF x
  <2>4. Solvent(x)
    <3>1. \A i \in 1 .. Len(s.balances) + 1 : more[i] >= 0
      <4> TAKE i \in 1 .. Len(s.balances) + 1
      <4>1. CASE i = Len(s.balances) + 1
        BY <1>3, <2>1, <4>1
      <4>2. CASE i # Len(s.balances) + 1
        <5>1. i \in 1 .. Len(s.balances) /\ i \in DOMAIN s.balances
          BY <1>2, <4>2
        <5>2. more[i] = s.balances[i] /\ s.balances[i] >= 0
          BY <1>2, <2>1, <5>1
        <5>3. QED
          BY <5>2
      <4>3. QED
        BY <4>1, <4>2
    <3>2. QED
      BY <2>1, <2>3, <3>1 DEF Solvent
  <2>5. WorthOf(x) = WorthOf(s) + init_balance /\ Len(x.balances) = Len(s.balances) + 1
    BY <1>2, <1>3, <2>1, <2>2, <2>3 DEF WorthOf
  <2>6. Short([bank EXCEPT ![n] = x],
              0 - (WorthOf(x) - WorthOf(bank[n]))
                + init_balance * (Len(x.balances) - Len(bank[n].balances)))
    <3>1. Len(x.balances) \in 1 .. nbaccounts
      BY <1>2, <1>3, <1>4, <2>5
    <3>2. ~ (n < Len(bank))
      BY <1>1 DEF n
    <3> HIDE DEF s
    <3>3. QED
      BY <1>1, <2>3, <2>4, <3>1, <3>2, Replaced DEF Good
  <2>7. 0 - (WorthOf(x) - WorthOf(bank[n]))
          + init_balance * (Len(x.balances) - Len(bank[n].balances)) = 0
    <3>1. WorthOf(s) \in Int
      BY <1>2
    <3>2. WorthOf(x) - WorthOf(bank[n]) = init_balance /\ Len(x.balances) - Len(bank[n].balances) = 1
      BY <1>2, <1>3, <2>5, <3>1
    <3>3. 0 - init_balance + init_balance * 1 = 0
      BY <1>3
    <3>4. QED
      BY <3>2, <3>3
  <2>8. Accounts!Bank!Allocated = [bank EXCEPT ![n] = x]
    <3>1. [bank EXCEPT ![n].balances = Append(@, init_balance)] = [bank EXCEPT ![n] = x]
      BY DEF x, more
    <3>2. QED
      BY <1>1, <1>4, <3>1, SameHelpers DEF Accounts!Bank!Allocated, n
  <2>9. QED
    BY <2>6, <2>7, <2>8 DEF Good
<1>5. CASE ~ (Len(s.balances) < nbaccounts)
  <2> DEFINE x == [parity |-> 0, balances |-> <<init_balance>>]
  <2>1. /\ x \in Segment /\ Solvent(x) /\ Len(x.balances) = 1 /\ 1 \in 1 .. nbaccounts
    BY <1>3, SumSingle DEF Segment, Solvent
  <2>2. WorthOf(x) = init_balance
    BY <1>3, SumSingle DEF WorthOf
  <2> HIDE DEF x
  <2>3. Len(Last(bank).balances) = nbaccounts
    BY <1>1, <1>2, <1>3, <1>5
  <2>4. Short(Append(bank, x), 0 - WorthOf(x) + init_balance * Len(x.balances))
    BY <2>1, <2>3, Extended DEF Good
  <2>5. 0 - WorthOf(x) + init_balance * Len(x.balances) = 0
    BY <1>3, <2>1, <2>2
  <2>6. Accounts!Bank!Allocated = Append(bank, x)
    BY <1>1, <1>5, SameHelpers DEF Accounts!Bank!Allocated, x
  <2>7. QED
    BY <2>4, <2>5, <2>6 DEF Good
<1>6. QED
  BY <1>4, <1>5

-----------------------------------------------------------------------------
(* alloc_tx.                                                                *)

(* ... an account less, with what it held in the parity of its segment ...  *)
LEMMA TruncatedGood ==
  ASSUME Good(bank), Len(Last(bank).balances) > 1
  PROVE  Good([bank EXCEPT ![Len(bank)] =
           [parity |-> Last(bank).parity + Last(Last(bank).balances) - init_balance,
            balances |-> Front(Last(bank).balances)]])
<1> DEFINE n == Len(bank)
           s == bank[n]
           t == s.balances
<1>1. n \in DOMAIN bank /\ Last(bank) = s /\ n \in Nat \ {0} /\ DOMAIN bank = 1 .. n
  BY LastOf DEF Good
<1>2. /\ s \in Segment /\ s.parity \in Int /\ t \in Seq(Int)
      /\ Len(t) \in 1 .. nbaccounts
      /\ Len(t) \in Nat /\ DOMAIN t = 1 .. Len(t)
      /\ \A i \in DOMAIN t : t[i] \in Int /\ t[i] >= 0
      /\ WorthOf(s) = s.parity + SumFunction(t)
      /\ SumFunction(t) \in Int
  BY <1>1, SegmentOf DEF Good
<1>3. init_balance \in Nat /\ nbaccounts \in Nat \ {0} /\ Len(t) > 1
  BY <1>1, BankAssumption
<1> HIDE DEF n, t
<1> DEFINE less == Front(t)
           x == [parity |-> s.parity + Last(t) - init_balance, balances |-> less]
<1>4. /\ less \in Seq(Int) /\ Len(less) = Len(t) - 1 /\ DOMAIN less = 1 .. Len(t) - 1
      /\ \A i \in 1 .. Len(t) - 1 : less[i] = t[i]
      /\ Last(t) \in Int
  BY <1>2, <1>3 DEF Front, Last
<1>5. SumFunction(t) = SumFunction(less) + Last(t) /\ SumFunction(less) \in Int
  <2>1. t # <<>>
    BY <1>3
  <2>2. SumFunction(t) = SumFunction(less) + Last(t)
    BY <1>2, <2>1, SumFront
  <2> HIDE DEF less
  <2>3. SumFunction(less) \in Int
    BY <1>4, SumType
  <2>4. QED
    BY <2>2, <2>3
<1> HIDE DEF less
<1>6. x \in Segment /\ Solvent(x) /\ Len(x.balances) = Len(t) - 1
      /\ x.parity = s.parity + Last(t) - init_balance /\ x.balances = less
  <2>1. s.parity + Last(t) - init_balance \in Int
    BY <1>2, <1>3, <1>4
  <2>2. x \in Segment
    BY <1>4, <2>1 DEF Segment
  <2>3. Solvent(x)
    <3>1. \A i \in 1 .. Len(t) - 1 : i \in DOMAIN t
      BY <1>2
    <3>2. QED
      BY <1>2, <1>4, <3>1 DEF Solvent
  <2>4. QED
    BY <1>4, <2>2, <2>3
<1> HIDE DEF x
<1>7. WorthOf(x) - WorthOf(bank[n]) = 0 - init_balance
      /\ Len(x.balances) - Len(bank[n].balances) = 0 - 1
  <2>1. WorthOf(x) = s.parity + Last(t) - init_balance + SumFunction(less)
    BY <1>6 DEF WorthOf
  <2>2. WorthOf(x) - WorthOf(s) = 0 - init_balance
    <3> HIDE DEF s
    <3>1. QED
      BY <1>2, <1>3, <1>4, <1>5, <2>1
  <2>3. QED
    BY <1>2, <1>6, <2>2 DEF t
<1>8. Short([bank EXCEPT ![n] = x],
            0 - (WorthOf(x) - WorthOf(bank[n]))
              + init_balance * (Len(x.balances) - Len(bank[n].balances)))
  <2>1. Len(x.balances) \in 1 .. nbaccounts
    BY <1>2, <1>3, <1>6
  <2>2. ~ (n < Len(bank))
    BY <1>1 DEF n
  <2> HIDE DEF s
  <2>3. QED
    BY <1>1, <1>6, <2>1, <2>2, Replaced DEF Good
<1>9. 0 - (0 - init_balance) + init_balance * (0 - 1) = 0
  BY <1>3
<1>10. Good([bank EXCEPT ![n] = x])
  BY <1>7, <1>8, <1>9 DEF Good
<1>11. QED
  BY <1>1, <1>10 DEF n, x, less, t

(* ... or the last segment less, with what it held in that of the one       *)
(* before it.                                                               *)
LEMMA DroppedGood ==
  ASSUME Good(bank), Len(Last(bank).balances) = 1, Len(bank) > 1
  PROVE  Good([Front(bank) EXCEPT ![Len(bank) - 1].parity =
           @ + (Last(bank).parity + Last(Last(bank).balances) - init_balance)])
<1> DEFINE n == Len(bank)
           s == bank[n]
           t == s.balances
           f == Front(bank)
           p == s.parity + Last(t) - init_balance
<1>1. n \in DOMAIN bank /\ Last(bank) = s /\ n \in Nat \ {0} /\ DOMAIN bank = 1 .. n /\ n > 1
  BY LastOf DEF Good
<1>2. /\ s \in Segment /\ s.parity \in Int /\ t \in Seq(Int)
      /\ \A i \in DOMAIN t : t[i] \in Int
      /\ WorthOf(s) = s.parity + SumFunction(t)
      /\ Len(t) = 1 /\ DOMAIN t = 1 .. Len(t)
  <2> HIDE DEF n
  <2>1. QED
    BY <1>1, SegmentOf DEF Good
<1>3. init_balance \in Nat
  BY BankAssumption
<1>4. SumFunction(t) = Last(t) /\ Last(t) \in Int
  <2> HIDE DEF t
  <2>1. t = <<t[1]>> /\ t[1] \in Int /\ Last(t) = t[1]
    BY <1>2 DEF Last
  <2>2. QED
    BY <2>1, SumSingle
<1>5. Short(f, 0 + WorthOf(s) - init_balance * Len(t))
  BY <1>1, Shortened DEF Good
<1>6. p \in Int /\ WorthOf(s) - init_balance = p /\ 0 + WorthOf(s) - init_balance * Len(t) = p
  <2> HIDE DEF s, t
  <2>1. QED
    BY <1>2, <1>3, <1>4
<1>7. Short(f, p)
  BY <1>5, <1>6
<1>8. Len(f) = n - 1
  BY <1>1 DEF Front, Good, Short, Formed
<1> HIDE DEF f, p, n
<1> DEFINE k == n - 1
           u == f[k]
           x == [parity |-> u.parity + p, balances |-> u.balances]
<1>9. k \in DOMAIN f
  BY <1>7, <1>8, LastOf
<1>10. /\ u \in Segment /\ u.parity \in Int /\ u.balances \in Seq(Int)
       /\ Len(u.balances) \in 1 .. nbaccounts /\ Len(u.balances) \in Nat
       /\ \A i \in DOMAIN u.balances : u.balances[i] \in Int /\ u.balances[i] >= 0
       /\ WorthOf(u) = u.parity + SumFunction(u.balances)
       /\ SumFunction(u.balances) \in Int
  <2> HIDE DEF k
  <2>1. QED
    BY <1>7, <1>9, SegmentOf
<1>11. x \in Segment /\ Solvent(x) /\ x.balances = u.balances /\ x.parity = u.parity + p
  <2> HIDE DEF u
  <2>1. QED
    BY <1>6, <1>10 DEF Segment, Solvent
<1> HIDE DEF x
<1>12. WorthOf(x) - WorthOf(f[k]) = p /\ Len(x.balances) - Len(f[k].balances) = 0
  <2>1. WorthOf(x) = u.parity + p + SumFunction(u.balances)
    BY <1>11 DEF WorthOf
  <2>2. WorthOf(x) - WorthOf(u) = p /\ Len(x.balances) - Len(u.balances) = 0
    <3> HIDE DEF u
    <3>1. QED
      BY <1>6, <1>10, <1>11, <2>1
  <2>3. QED
    BY <2>2
<1>13. Short([f EXCEPT ![k] = x],
             p - (WorthOf(x) - WorthOf(f[k]))
               + init_balance * (Len(x.balances) - Len(f[k].balances)))
  <2>1. Len(x.balances) \in 1 .. nbaccounts
    BY <1>10, <1>11
  <2>2. ~ (k < Len(f))
    BY <1>1, <1>8
  <2> HIDE DEF k, u
  <2>3. QED
    BY <1>7, <1>9, <1>11, <2>1, <2>2, Replaced
<1>14. p - p + init_balance * 0 = 0
  BY <1>3, <1>6
<1>15. Good([f EXCEPT ![k] = x])
  BY <1>12, <1>13, <1>14 DEF Good
<1>16. [f EXCEPT ![k] = x] = [f EXCEPT ![k].parity = @ + p]
  <2>1. x = [u EXCEPT !.parity = @ + p]
    BY <1>10 DEF x, Segment
  <2>2. QED
    BY <2>1
<1>17. QED
  BY <1>1, <1>15, <1>16 DEF n, f, p, t

(* The two cases of Deallocated, in the operators that the lemmas are       *)
(* about.                                                                   *)
LEMMA DeallocatedIs ==
  ASSUME Last(bank) = bank[Len(bank)]
  PROVE  /\ Len(Last(bank).balances) > 1 =>
              Accounts!Bank!Deallocated =
                [bank EXCEPT ![Len(bank)] =
                  [parity |-> Last(bank).parity + Last(Last(bank).balances) - init_balance,
                   balances |-> Front(Last(bank).balances)]]
         /\ ~ (Len(Last(bank).balances) > 1) =>
              Accounts!Bank!Deallocated =
                [Front(bank) EXCEPT ![Len(bank) - 1].parity =
                   @ + (Last(bank).parity + Last(Last(bank).balances) - init_balance)]
<1> DEFINE t == Last(bank).balances
<1>1. /\ Accounts!Bank!Last(bank) = Last(bank) /\ Accounts!Bank!Last(t) = Last(t)
      /\ Accounts!Bank!Front(bank) = Front(bank) /\ Accounts!Bank!Front(t) = Front(t)
  BY SameHelpers
<1>2. CASE Len(t) > 1
  <2> HIDE DEF t
  <2>1. Accounts!Bank!Deallocated =
          [bank EXCEPT ![Len(bank)] =
            [parity |-> Last(bank).parity + Last(t) - init_balance, balances |-> Front(t)]]
    BY <1>1, <1>2 DEF Accounts!Bank!Deallocated, t
  <2>2. QED
    BY <1>2, <2>1 DEF t
<1>3. CASE ~ (Len(t) > 1)
  <2> HIDE DEF t
  <2>1. Accounts!Bank!Deallocated =
          [Front(bank) EXCEPT ![Len(bank) - 1].parity =
             @ + (Last(bank).parity + Last(t) - init_balance)]
    BY <1>1, <1>3 DEF Accounts!Bank!Deallocated, t
  <2>2. QED
    BY <1>3, <2>1 DEF t
<1>4. QED
  BY <1>2, <1>3

(* Who has more than two accounts and one in the last segment has another   *)
(* segment.                                                                 *)
LEMMA SegmentBefore ==
  ASSUME Good(bank), Accounts!Bank!Accounts > 2, Len(Last(bank).balances) = 1
  PROVE  Len(bank) > 1
<1>1. Len(bank) \in DOMAIN bank /\ Last(bank) = bank[Len(bank)] /\ Len(bank) \in Nat \ {0}
  BY LastOf DEF Good
<1>2. SUFFICES ASSUME Len(bank) = 1 PROVE FALSE
  <2>1. \A n \in Nat \ {0} : n # 1 => n > 1
    OBVIOUS
  <2>2. QED
    BY <1>1, <2>1
<1>3. bank \in Seq(Segment)
  BY DEF Good, Short, Formed
<1> DEFINE l == Lengths(bank)
<1>4. l \in Seq(Int) /\ Len(l) = 1 /\ DOMAIN bank = 1 .. 1
  BY <1>2, <1>3, TotalsTypes
<1>5. l[1] = 1
  BY <1>1, <1>2 DEF Lengths
<1> HIDE DEF l
<1>6. l = <<1>>
  BY <1>4, <1>5
<1>7. Number(bank) = 1
  BY <1>6, SumSingle DEF Number, l
<1>8. QED
  BY <1>7, Totals

(* Taking away the last account keeps the bank good.                        *)
LEMMA DeallocatedGood ==
  ASSUME Good(bank), Accounts!Bank!Accounts > 2
  PROVE  Good(Accounts!Bank!Deallocated)
<1>1. Len(bank) \in DOMAIN bank /\ Last(bank) = bank[Len(bank)]
  BY LastOf DEF Good
<1> DEFINE a == Len(Last(bank).balances)
<1>2. a \in Nat /\ a >= 1
  <2>1. a \in 1 .. nbaccounts /\ a \in Nat
    BY <1>1, SegmentOf DEF Good
  <2> HIDE DEF a
  <2>2. QED
    BY <2>1, BankAssumption
<1>3. CASE a > 1
  BY <1>1, <1>3, DeallocatedIs, TruncatedGood
<1>4. CASE ~ (a > 1)
  <2>1. a = 1
    <3> HIDE DEF a
    <3>1. QED
      BY <1>2, <1>4
  <2>2. Len(bank) > 1
    BY <2>1, SegmentBefore
  <2>3. QED
    BY <1>1, <1>4, <2>1, <2>2, DeallocatedIs, DroppedGood
<1>5. QED
  BY <1>3, <1>4

-----------------------------------------------------------------------------
(* short_tx.                                                                *)

(* Sums of naturals are natural.                                            *)
LEMMA SumNat ==
  ASSUME NEW s \in Seq(Int), \A i \in DOMAIN s : s[i] >= 0
  PROVE  SumFunction(s) \in Nat
<1> DEFINE S == DOMAIN s
<1>1. IsFiniteSet(S) /\ \A i \in S : s[i] \in Int /\ s[i] >= 0
  <2>1. IsFiniteSet(S)
    BY FS_Interval
  <2>2. QED
    BY <2>1
<1> HIDE DEF S
<1>2. PICK u : Sums(s, S, u) /\ SumFunctionOnSet(s, S) = u[S]
  BY <1>1, SumsExist
<1> DEFINE P == {T \in SUBSET S : u[T] >= 0}
<1>3. {} \in P
  BY <1>2 DEF Sums
<1>4. ASSUME NEW T \in SUBSET S, T # {}, \A x \in T : T \ {x} \in P
      PROVE  T \in P
  <2> DEFINE y == Some(T)
  <2>1. y \in T
    BY <1>4 DEF Some
  <2>2. u[T] = s[y] + u[T \ {y}] /\ u[T \ {y}] \in Int
    BY <1>2, <1>4 DEF Sums
  <2> HIDE DEF y
  <2>3. u[T \ {y}] >= 0 /\ s[y] \in Int /\ s[y] >= 0
    BY <1>1, <1>4, <2>1
  <2>4. QED
    BY <2>2, <2>3
<1> HIDE DEF P
<1>5. SUBSET S \subseteq P
  BY <1>1, <1>3, <1>4, SubsetInduction
<1>6. u[S] >= 0 /\ u[S] \in Int
  BY <1>2, <1>5 DEF P, Sums
<1>7. QED
  BY <1>2, <1>6 DEF SumFunction, S

(* The number of accounts is natural.                                       *)
LEMMA NumberNat ==
  ASSUME NEW b \in Seq(Segment)
  PROVE  Number(b) \in Nat
<1>1. Lengths(b) \in Seq(Int) /\ DOMAIN Lengths(b) = DOMAIN b
  BY TotalsTypes
<1>2. \A s \in DOMAIN b : Lengths(b)[s] >= 0
  <2> TAKE s \in DOMAIN b
  <2>1. s \in 1 .. Len(b)
    BY LenProperties
  <2>2. b[s] \in Segment
    BY <2>1, ElementOfSeq
  <2>3. Len(b[s].balances) \in Nat
    BY <2>2, SegmentTypes
  <2>4. Lengths(b)[s] \in Nat
    BY <2>3 DEF Lengths
  <2>5. QED
    BY <2>4
<1> DEFINE l == Lengths(b)
<1> HIDE DEF l
<1>3. l \in Seq(Int) /\ \A i \in DOMAIN l : l[i] >= 0
  BY <1>1, <1>2 DEF l
<1>4. QED
  BY <1>3, SumNat DEF Number, l

(* short_tx: money comes to an account or leaves it.                        *)
LEMMA MovedShort ==
  ASSUME NEW b, NEW extra, Short(b, extra), NEW a, a.segment \in DOMAIN b,
         a.id + 1 \in DOMAIN b[a.segment].balances,
         NEW m \in Int, b[a.segment].balances[a.id + 1] + m >= 0
  PROVE  /\ Short(Accounts!Bank!Moved(b, a, m), extra - m)
         /\ DOMAIN Accounts!Bank!Moved(b, a, m) = DOMAIN b
         /\ \A s \in DOMAIN b :
              DOMAIN Accounts!Bank!Moved(b, a, m)[s].balances = DOMAIN b[s].balances
<1> DEFINE k == a.segment
           i == a.id + 1
           s == b[k]
           t == s.balances
           r == [t EXCEPT ![i] = t[i] + m]
           x == [parity |-> s.parity, balances |-> r]
           d == Accounts!Bank!Moved(b, a, m)
<1>1. /\ s \in Segment /\ s.parity \in Int /\ t \in Seq(Int)
      /\ Len(t) \in 1 .. nbaccounts
      /\ Len(t) \in Nat /\ DOMAIN t = 1 .. Len(t)
      /\ k < Len(b) => Len(t) = nbaccounts
      /\ \A j \in DOMAIN t : t[j] \in Int /\ t[j] >= 0
      /\ WorthOf(s) = s.parity + SumFunction(t)
      /\ SumFunction(t) \in Int
  BY SegmentOf
<1>2. /\ d = [b EXCEPT ![k] = [s EXCEPT !.balances = r]]
      /\ i \in DOMAIN t /\ t[i] + m >= 0 /\ t[i] \in Int /\ extra \in Int
  BY <1>1 DEF Accounts!Bank!Moved, Short
<1>3. [s EXCEPT !.balances = r] = x
  <2>1. s \in [parity : Int, balances : Seq(Int)]
    BY <1>1 DEF Segment
  <2> HIDE DEF s, r
  <2>2. QED
    BY <2>1
<1>4. d = [b EXCEPT ![k] = x]
  BY <1>2, <1>3
<1> HIDE DEF d, i, t
<1>5. /\ r \in Seq(Int) /\ DOMAIN r = DOMAIN t /\ Len(r) = Len(t)
      /\ r[i] = t[i] + m /\ \A j \in DOMAIN t \ {i} : r[j] = t[j]
  <2>1. i \in 1 .. Len(t) /\ t[i] + m \in Int
    BY <1>1, <1>2
  <2>2. QED
    BY <1>1, <2>1, ExceptSeq
<1> HIDE DEF r
<1>6. SumFunction(r) = SumFunction(t) - t[i] + r[i]
  BY <1>1, <1>2, <1>5, SumExcept
<1>7. SumFunction(r) = SumFunction(t) + m
  BY <1>1, <1>2, <1>5, <1>6
<1>8. x \in Segment /\ x.balances = r /\ x.parity = s.parity /\ Solvent(x)
  <2>1. x \in Segment /\ x.balances = r /\ x.parity = s.parity
    BY <1>1, <1>5 DEF Segment
  <2>2. \A j \in DOMAIN t : r[j] >= 0
    BY <1>1, <1>2, <1>5
  <2>3. QED
    BY <1>5, <2>1, <2>2 DEF Solvent
<1> HIDE DEF x
<1>9. WorthOf(x) - WorthOf(b[k]) = m /\ Len(x.balances) = Len(t)
  <2>1. WorthOf(x) = s.parity + SumFunction(t) + m
    BY <1>1, <1>7, <1>8 DEF WorthOf
  <2>2. WorthOf(x) - WorthOf(s) = m
    <3> HIDE DEF s
    <3>1. QED
      BY <1>1, <2>1
  <2>3. QED
    BY <1>5, <1>8, <2>2
<1>10. Short([b EXCEPT ![k] = x],
             extra - (WorthOf(x) - WorthOf(b[k]))
               + init_balance * (Len(x.balances) - Len(b[k].balances)))
  <2>1. /\ Len(x.balances) \in 1 .. nbaccounts
        /\ k < Len(b) => Len(x.balances) = nbaccounts
    BY <1>1, <1>9
  <2> HIDE DEF s
  <2>2. QED
    BY <1>8, <2>1, Replaced
<1>11. extra - m + init_balance * (Len(t) - Len(t)) = extra - m
  <2>1. Len(t) - Len(t) = 0
    BY <1>1
  <2>2. QED
    BY <1>2, <2>1, BankAssumption
<1>12. Short(d, extra - m)
  BY <1>4, <1>9, <1>10, <1>11 DEF t
<1>13. DOMAIN d = DOMAIN b /\ \A j \in DOMAIN b : DOMAIN d[j].balances = DOMAIN b[j].balances
  BY <1>4, <1>5, <1>8 DEF t
<1>14. QED
  BY <1>12, <1>13 DEF d

(* A walk goes on from segment to segment ...                               *)
LEMMA WalkSteps ==
  ASSUME bank \in Seq(Segment), NEW id \in Nat
  PROVE  LET W == Accounts!Bank!Walk(id) IN
         /\ W[0] = [id |-> id, segment |-> 0]
         /\ \A k \in 1 .. Len(bank) :
              W[k] = IF W[k - 1].segment # 0 THEN W[k - 1]
                     ELSE IF W[k - 1].id < Len(bank[k].balances)
                       THEN [W[k - 1] EXCEPT !.segment = k]
                     ELSE [W[k - 1] EXCEPT !.id = @ - Len(bank[k].balances)]
<1> DEFINE W == Accounts!Bank!Walk(id)
           A == [id : Int, segment : Nat]
           x == [id |-> id, segment |-> 0]
           To(k, p) == IF p.segment # 0 THEN p
                       ELSE IF p.id < Len(bank[k].balances) THEN [p EXCEPT !.segment = k]
                       ELSE [p EXCEPT !.id = @ - Len(bank[k].balances)]
           G(f) == [k \in 0 .. Len(bank) |-> IF k = 0 THEN x ELSE To(k, f[k - 1])]
           F == [q \in Nat \X A |-> IF q[1] + 1 \in 1 .. Len(bank) THEN To(q[1] + 1, q[2])
                                                                   ELSE q[2]]
<1>1. W = CHOOSE f : f = G(f)
  BY DEF Accounts!Bank!Walk
<1>2. Len(bank) \in Nat /\ \A k \in 1 .. Len(bank) : Len(bank[k].balances) \in Nat
  BY LenProperties, ElementOfSeq, SegmentTypes
<1>3. \A k \in 1 .. Len(bank) : \A p \in A : To(k, p) \in A
  <2> TAKE k \in 1 .. Len(bank)
  <2> TAKE p \in A
  <2>1. Len(bank[k].balances) \in Nat /\ k \in Nat /\ p.id \in Int
    BY <1>2
  <2>2. [p EXCEPT !.segment = k] \in A /\ [p EXCEPT !.id = @ - Len(bank[k].balances)] \in A
    BY <2>1
  <2>3. QED
    BY <2>2
<1> HIDE DEF To
<1>4. Recursion(A, x, F)
  <2>1. x \in A
    OBVIOUS
  <2>2. F \in [Nat \X A -> A]
    BY <1>3
  <2>3. QED
    BY <2>1, <2>2 DEF Recursion
<1> HIDE DEF A, x
<1>5. PICK f \in [Nat -> A] : f[0] = x /\ \A n \in Nat : f[n + 1] = F[<<n, f[n]>>]
  <2> HIDE DEF F
  <2>1. QED
    BY <1>4, RecursionExists
<1>6. \A k \in 1 .. Len(bank) : f[k] = To(k, f[k - 1])
  <2> TAKE k \in 1 .. Len(bank)
  <2>1. k - 1 \in Nat /\ (k - 1) + 1 = k /\ f[k - 1] \in A
    BY <1>2
  <2>2. f[k] = F[<<k - 1, f[k - 1]>>]
    BY <1>5, <2>1
  <2>3. QED
    BY <2>1, <2>2
<1> DEFINE h == [k \in 0 .. Len(bank) |-> f[k]]
<1>7. h = G(h)
  <2>1. \A k \in 0 .. Len(bank) : f[k] = IF k = 0 THEN x ELSE To(k, h[k - 1])
    <3> TAKE k \in 0 .. Len(bank)
    <3>1. CASE k = 0
      BY <1>5, <3>1
    <3>2. CASE k # 0
      <4>1. k \in 1 .. Len(bank) /\ k - 1 \in 0 .. Len(bank)
        BY <1>2, <3>2
      <4>2. QED
        BY <1>6, <3>2, <4>1
    <3>3. QED
      BY <3>1, <3>2
  <2>2. QED
    BY <2>1
<1>8. W = G(W)
  <2> HIDE DEF h, G
  <2>1. QED
    BY <1>1, <1>7
<1> HIDE DEF W
<1>9. W[0] = x
  BY <1>2, <1>8
<1>10. \A k \in 1 .. Len(bank) : W[k] = To(k, W[k - 1])
  BY <1>2, <1>8
<1>11. QED
  BY <1>9, <1>10 DEF x, W, To

(* ... and is over where the account is.                                    *)
LEMMA WalkFinds ==
  ASSUME bank \in Seq(Segment), NEW id \in Nat
  PROVE  \A k \in 0 .. Len(bank) :
           LET p == Accounts!Bank!Walk(id)[k] IN
           /\ p.id \in Nat /\ p.segment \in 0 .. Len(bank)
           /\ p.segment # 0 => p.id < Len(bank[p.segment].balances)
<1> DEFINE W == Accounts!Bank!Walk(id)
           A == [id : Int, segment : Nat]
           T(p) == /\ p \in [id : Nat, segment : 0 .. Len(bank)]
                   /\ p.segment # 0 => p.id < Len(bank[p.segment].balances)
           S == {k \in Nat : k <= Len(bank) => T(W[k])}
<1>1. Len(bank) \in Nat /\ \A k \in 1 .. Len(bank) : Len(bank[k].balances) \in Nat
  BY LenProperties, ElementOfSeq, SegmentTypes
<1>2. W[0] = [id |-> id, segment |-> 0]
  BY WalkSteps
<1>3. \A k \in 1 .. Len(bank) :
              W[k] = IF W[k - 1].segment # 0 THEN W[k - 1]
                     ELSE IF W[k - 1].id < Len(bank[k].balances)
                       THEN [W[k - 1] EXCEPT !.segment = k]
                     ELSE [W[k - 1] EXCEPT !.id = @ - Len(bank[k].balances)]
  BY WalkSteps
<1> HIDE DEF W
<1>4. 0 \in S
  BY <1>1, <1>2
<1>5. ASSUME NEW n \in Nat, n \in S PROVE n + 1 \in S
  <2> DEFINE k == n + 1
             p == W[n]
             l == Len(bank[k].balances)
  <2>1. SUFFICES ASSUME k <= Len(bank) PROVE T(W[k])
    OBVIOUS
  <2>2. k \in 1 .. Len(bank) /\ n <= Len(bank) /\ k - 1 = n /\ l \in Nat
    BY <1>1, <2>1
  <2>3. T(p)
    BY <1>5, <2>2
  <2>4. W[k] = IF p.segment # 0 THEN p
               ELSE IF p.id < l THEN [p EXCEPT !.segment = k]
               ELSE [p EXCEPT !.id = @ - l]
    BY <1>3, <2>2
  <2>5. CASE p.segment # 0
    BY <2>3, <2>4, <2>5
  <2>6. CASE p.segment = 0 /\ p.id < l
    <3>1. W[k] = [p EXCEPT !.segment = k]
      BY <2>4, <2>6
    <3>2. p \in [id : Nat, segment : 0 .. Len(bank)] /\ k \in 0 .. Len(bank)
      BY <1>1, <2>2, <2>3
    <3> DEFINE v == W[k]
    <3> HIDE DEF p
    <3>3. v \in [id : Nat, segment : 0 .. Len(bank)] /\ v.id = p.id /\ v.segment = k
      BY <3>1, <3>2
    <3>4. QED
      BY <2>6, <3>3
  <2>7. CASE p.segment = 0 /\ ~ (p.id < l)
    <3>1. W[k] = [p EXCEPT !.id = @ - l]
      BY <2>4, <2>7
    <3> HIDE DEF l
    <3>2. p.id - l \in Nat
      BY <2>2, <2>3, <2>7
    <3>3. W[k] \in [id : Nat, segment : 0 .. Len(bank)] /\ W[k].segment = 0
      BY <2>3, <2>7, <3>1, <3>2
    <3>4. QED
      BY <3>3
  <2>8. QED
    BY <2>5, <2>6, <2>7
<1> HIDE DEF S
<1>6. Nat \subseteq S
  BY <1>4, <1>5, SetInduction
<1>7. QED
  BY <1>6 DEF S, W

-----------------------------------------------------------------------------
(* The invariant of run.                                                    *)

(* The sum of n times the same number.                                      *)
LEMMA SumConstant ==
  ASSUME NEW c \in Int, NEW n \in Nat
  PROVE  /\ [i \in 1 .. n |-> c] \in Seq(Int) /\ Len([i \in 1 .. n |-> c]) = n
         /\ SumFunction([i \in 1 .. n |-> c]) = c * n
<1> DEFINE s(m) == [i \in 1 .. m |-> c]
           S == {m \in Nat : SumFunction(s(m)) = c * m}
<1>1. \A m \in Nat : /\ s(m) \in Seq(Int) /\ Len(s(m)) = m
                     /\ s(m + 1) = Append(s(m), c)
  <2> TAKE m \in Nat
  <2>1. s(m) \in Seq(Int) /\ Len(s(m)) = m /\ s(m + 1) \in Seq(Int) /\ Len(s(m + 1)) = m + 1
    OBVIOUS
  <2>2. \A i \in 1 .. m + 1 : s(m + 1)[i] = c /\ Append(s(m), c)[i] = c
    OBVIOUS
  <2> DEFINE t == Append(s(m), c)
             r == s(m + 1)
  <2>3. t \in Seq(Int) /\ Len(t) = m + 1
    BY <2>1, AppendProperties
  <2>4. r \in Seq(Int) /\ Len(r) = m + 1 /\ \A i \in 1 .. m + 1 : r[i] = t[i]
    BY <2>1, <2>2
  <2> HIDE DEF t, r
  <2>5. r = t
    BY <2>3, <2>4, SeqEqual
  <2>6. QED
    BY <2>1, <2>5 DEF t, r
<1>2. 0 \in S
  <2>1. s(0) = <<>>
    OBVIOUS
  <2> DEFINE t == s(0)
  <2>2. t \in Seq(Int) /\ t = <<>>
    BY <1>1, <2>1
  <2> HIDE DEF t
  <2>3. SumFunction(t) = 0
    BY <2>2, SumType
  <2>4. QED
    BY <2>3 DEF t
<1> HIDE DEF s
<1>3. ASSUME NEW m \in Nat, m \in S PROVE m + 1 \in S
  <2>1. SumFunction(Append(s(m), c)) = SumFunction(s(m)) + c
    BY <1>1, SumAppend
  <2>2. SumFunction(s(m + 1)) = c * m + c
    BY <1>1, <1>3, <2>1
  <2>3. c * m + c = c * (m + 1)
    OBVIOUS
  <2>4. QED
    BY <2>2, <2>3
<1> HIDE DEF S
<1>4. Nat \subseteq S
  BY <1>2, <1>3, SetInduction
<1>5. n \in S
  BY <1>4
<1>6. QED
  BY <1>1, <1>5 DEF S, s

(* What long_tx compares agrees in a good bank.                             *)
LEMMA GoodConsistent == Good(bank) => Accounts!Bank!Consistent
<1> SUFFICES ASSUME Good(bank) PROVE Accounts!Bank!Consistent
  OBVIOUS
<1>1. bank \in Seq(Segment) /\ Value(bank) + 0 = init_balance * Number(bank)
      /\ \A s \in DOMAIN bank : \A i \in DOMAIN bank[s].balances : bank[s].balances[i] >= 0
  BY DEF Good, Short, Formed, Solvent
<1>2. Value(bank) \in Int
  BY <1>1, TotalsTypes
<1>3. Value(bank) = init_balance * Number(bank)
  BY <1>1, <1>2
<1>4. QED
  BY <1>1, <1>3, Totals DEF Accounts!Bank!Consistent

(* What holds of the bank and the workers in run.                           *)
BankTypes ==
  /\ doing \in [RunWorkers -> {"next", "short", "end"}]
  /\ togo \in [RunWorkers -> 0 .. RunTxs]
  /\ count \in [RunWorkers -> Nat]
  /\ ids \in [RunWorkers -> [send : Nat, recv : Nat]]
  /\ wrong \in [RunWorkers -> BOOLEAN]

BankInv == Good(bank) /\ BankTypes /\ \A w \in RunWorkers : ~wrong[w]

(* The bank that the round of initialisation leaves is good.                *)
LEMMA InitGood == Accounts!Bank!Init => Good(bank)
<1> SUFFICES ASSUME Accounts!Bank!Init PROVE Good(bank)
  OBVIOUS
<1> DEFINE t == [i \in 1 .. nbaccounts |-> init_balance]
           x == [parity |-> 0, balances |-> t]
<1>1. bank = <<x>> /\ init_balance \in Nat /\ nbaccounts \in Nat \ {0}
  BY BankAssumption DEF Accounts!Bank!Init
<1>2. t \in Seq(Int) /\ Len(t) = nbaccounts /\ SumFunction(t) = init_balance * nbaccounts
      /\ DOMAIN t = 1 .. nbaccounts /\ \A i \in DOMAIN t : t[i] >= 0
  BY <1>1, SumConstant
<1> HIDE DEF t
<1>3. x \in Segment /\ Solvent(x) /\ Len(x.balances) = nbaccounts
  BY <1>2 DEF Segment, Solvent
<1>4. WorthOf(x) = init_balance * nbaccounts /\ WorthOf(x) \in Int
  <2>1. SumFunction(t) \in Int
    BY <1>2, SumType
  <2>2. QED
    BY <1>2, <2>1 DEF WorthOf
<1> HIDE DEF x
<1>5. bank \in Seq(Segment) /\ bank # <<>> /\ Len(bank) = 1 /\ DOMAIN bank = {1} /\ bank[1] = x
  BY <1>1, <1>3
<1>6. Lengths(bank) = <<nbaccounts>> /\ Worths(bank) = <<WorthOf(x)>>
  <2> DEFINE l == Lengths(bank)
             v == Worths(bank)
  <2>1. l \in Seq(Int) /\ Len(l) = 1 /\ v \in Seq(Int) /\ Len(v) = 1
    BY <1>5, TotalsTypes
  <2>2. l[1] = nbaccounts /\ v[1] = WorthOf(x)
    BY <1>3, <1>5 DEF Lengths, Worths
  <2> HIDE DEF l, v
  <2>3. l = <<nbaccounts>> /\ v = <<WorthOf(x)>>
    BY <2>1, <2>2
  <2>4. QED
    BY <2>3 DEF l, v
<1>7. Number(bank) = nbaccounts /\ Value(bank) = WorthOf(x)
  BY <1>1, <1>4, <1>6, SumSingle DEF Number, Value
<1>8. Value(bank) + 0 = init_balance * Number(bank)
  BY <1>4, <1>7
<1>9. Formed(bank) /\ \A s \in DOMAIN bank : Solvent(bank[s])
  BY <1>1, <1>3, <1>5 DEF Formed
<1>10. QED
  BY <1>8, <1>9 DEF Good, Short

(* run begins with it.                                                      *)
LEMMA InitBankInv == Accounts!Bank!Init => BankInv
<1> SUFFICES ASSUME Accounts!Bank!Init PROVE BankInv
  OBVIOUS
<1>1. RunTxs \in Nat /\ nbaccounts \in Nat /\ RunTxs \in 0 .. RunTxs
  BY BankAssumption
<1>2. BankTypes /\ \A w \in RunWorkers : ~wrong[w]
  BY <1>1 DEF Accounts!Bank!Init, BankTypes, Accounts!Bank!NoIds
<1>3. QED
  BY <1>2, InitGood DEF BankInv

(* long_tx finds nothing wrong.                                             *)
LEMMA LongInv ==
  ASSUME BankInv, NEW w \in RunWorkers, Accounts!Bank!Long(w)
  PROVE  BankInv'
<1>1. UNCHANGED <<bank, ids>> /\ count' = [count EXCEPT ![w] = Accounts!Bank!Accounts]
      /\ wrong' = [wrong EXCEPT ![w] = ~Accounts!Bank!Consistent]
  BY DEF Accounts!Bank!Long
<1>2. Accounts!Bank!Consistent /\ Accounts!Bank!Accounts \in Nat
  BY GoodConsistent, Totals, NumberNat DEF BankInv, Good, Short, Formed
<1>3. doing' \in [RunWorkers -> {"next", "short", "end"}] /\ togo' \in [RunWorkers -> 0 .. RunTxs]
  <2>1. /\ doing' = [doing EXCEPT ![w] = "next"] \/ doing' = [doing EXCEPT ![w] = "end"]
        /\ Accounts!Bank!Begin(w) \/ togo' = togo
    BY DEF Accounts!Bank!Long, Accounts!Bank!Go
  <2>2. doing' \in [RunWorkers -> {"next", "short", "end"}]
    BY <2>1 DEF BankInv, BankTypes
  <2>3. togo' \in [RunWorkers -> 0 .. RunTxs]
    BY <2>1, BankAssumption DEF Accounts!Bank!Begin, BankInv, BankTypes
  <2>4. QED
    BY <2>2, <2>3
<1>4. /\ count' \in [RunWorkers -> Nat] /\ ids' \in [RunWorkers -> [send : Nat, recv : Nat]]
      /\ wrong' \in [RunWorkers -> BOOLEAN] /\ \A v \in RunWorkers : ~wrong'[v]
  BY <1>1, <1>2 DEF BankInv, BankTypes
<1>5. Good(bank)'
  BY <1>1 DEF BankInv, Good, Short, Formed, Value, Number, Lengths, Worths, WorthOf, Solvent
<1>6. QED
  BY <1>3, <1>4, <1>5 DEF BankInv, BankTypes

(* alloc_tx adds an account or takes one away.                              *)
LEMMA AllocTxInv ==
  ASSUME BankInv, NEW w \in RunWorkers, Accounts!Bank!AllocTx(w)
  PROVE  BankInv'
<1>1. UNCHANGED <<count, ids, wrong>>
  BY DEF Accounts!Bank!AllocTx
<1>2. doing' \in [RunWorkers -> {"next", "short", "end"}] /\ togo' \in [RunWorkers -> 0 .. RunTxs]
  BY BankAssumption DEF Accounts!Bank!AllocTx, Accounts!Bank!Begin, Accounts!Bank!Go, BankInv, BankTypes
<1>3. Good(bank')
  <2>1. \/ bank' = Accounts!Bank!Allocated
        \/ Accounts!Bank!Accounts > 2 /\ bank' = Accounts!Bank!Deallocated
    BY DEF Accounts!Bank!AllocTx
  <2>2. QED
    BY <2>1, AllocatedGood, DeallocatedGood DEF BankInv
<1>4. QED
  BY <1>1, <1>2, <1>3 DEF BankInv, BankTypes

(* Accounts that are drawn are natural numbers.                             *)
LEMMA DrawInv ==
  ASSUME BankInv, NEW w \in RunWorkers, Accounts!Bank!Draw(w)
  PROVE  ids' \in [RunWorkers -> [send : Nat, recv : Nat]]
<1>1. PICK s, r \in 0 .. count[w] - 1 : ids' = [ids EXCEPT ![w] = [send |-> s, recv |-> r]]
  BY DEF Accounts!Bank!Draw
<1>2. count[w] \in Nat /\ ids \in [RunWorkers -> [send : Nat, recv : Nat]]
  BY DEF BankInv, BankTypes
<1>3. s \in Nat /\ r \in Nat
  BY <1>2
<1>4. QED
  BY <1>1, <1>2, <1>3

(* A bank that is not touched stays good.                                   *)
LEMMA GoodStays == ASSUME UNCHANGED bank, Good(bank) PROVE Good(bank')
OBVIOUS

(* short_tx begins.                                                         *)
LEMMA ShortTxInv ==
  ASSUME BankInv, NEW w \in RunWorkers, Accounts!Bank!ShortTx(w)
  PROVE  BankInv'
<1>1. UNCHANGED <<bank, count, wrong>> /\ ids' \in [RunWorkers -> [send : Nat, recv : Nat]]
  BY DrawInv DEF Accounts!Bank!ShortTx
<1>2. doing' \in [RunWorkers -> {"next", "short", "end"}] /\ togo' \in [RunWorkers -> 0 .. RunTxs]
  BY BankAssumption DEF Accounts!Bank!ShortTx, Accounts!Bank!Begin, Accounts!Bank!Go, BankInv, BankTypes
<1>3. QED
  BY <1>1, <1>2, GoodStays DEF BankInv, BankTypes

(* The indices that an aborted short_tx leaves are natural numbers.         *)
LEMMA RetryInv ==
  ASSUME BankInv, NEW w \in RunWorkers, Accounts!Bank!Retry(w)
  PROVE  BankInv'
<1> DEFINE W(id) == Accounts!Bank!Walk(id)
<1>1. PICK k \in 0 .. Len(bank) :
        ids' = [ids EXCEPT ![w] = [send |-> W(ids[w].send)[k].id, recv |-> W(ids[w].recv)[k].id]]
  BY DEF Accounts!Bank!Retry, BankInv, BankTypes
<1>2. ids[w].send \in Nat /\ ids[w].recv \in Nat /\ bank \in Seq(Segment)
  BY DEF BankInv, BankTypes, Good, Short, Formed
<1>3. W(ids[w].send)[k].id \in Nat /\ W(ids[w].recv)[k].id \in Nat
  BY <1>2, WalkFinds
<1>4. ids' \in [RunWorkers -> [send : Nat, recv : Nat]]
  <2> HIDE DEF W
  <2>1. QED
    BY <1>1, <1>3 DEF BankInv, BankTypes
<1>5. UNCHANGED <<bank, togo, count, wrong>> /\ doing' \in [RunWorkers -> {"next", "short", "end"}]
  BY DEF Accounts!Bank!Retry, Accounts!Bank!Go, BankInv, BankTypes
<1>6. QED
  BY <1>4, <1>5, GoodStays DEF BankInv, BankTypes

(* Other accounts are drawn.                                                *)
LEMMA RedrawInv ==
  ASSUME BankInv, NEW w \in RunWorkers, Accounts!Bank!Redraw(w)
  PROVE  BankInv'
<1>1. UNCHANGED <<bank, togo, count, wrong>> /\ ids' \in [RunWorkers -> [send : Nat, recv : Nat]]
  BY DrawInv DEF Accounts!Bank!Redraw
<1>2. doing' \in [RunWorkers -> {"next", "short", "end"}]
  BY DEF Accounts!Bank!Redraw, Accounts!Bank!Go, BankInv, BankTypes
<1>3. QED
  BY <1>1, <1>2, GoodStays DEF BankInv, BankTypes

(* The account that a walk has come to.                                     *)
LEMMA PlaceOf ==
  ASSUME Good(bank), NEW id \in Nat, Accounts!Bank!Walk(id)[Len(bank)].segment # 0
  PROVE  LET p == Accounts!Bank!Walk(id)[Len(bank)] IN
         /\ p.segment \in DOMAIN bank /\ p.segment \in 1 .. Len(bank) /\ p.id \in Nat
         /\ p.id < Len(bank[p.segment].balances)
         /\ p.id + 1 \in DOMAIN bank[p.segment].balances
         /\ p.id \in 0 .. nbaccounts - 1
<1> DEFINE p == Accounts!Bank!Walk(id)[Len(bank)]
<1>1. bank \in Seq(Segment) /\ Len(bank) \in Nat /\ DOMAIN bank = 1 .. Len(bank)
  BY LenProperties DEF Good, Short, Formed
<1>2. p.id \in Nat /\ p.segment \in 0 .. Len(bank) /\ p.id < Len(bank[p.segment].balances)
  BY <1>1, WalkFinds
<1> HIDE DEF p
<1>3. p.segment \in 1 .. Len(bank)
  BY <1>1, <1>2 DEF p
<1>4. /\ Len(bank[p.segment].balances) \in 1 .. nbaccounts
      /\ DOMAIN bank[p.segment].balances = 1 .. Len(bank[p.segment].balances)
      /\ Len(bank[p.segment].balances) \in Nat
  BY <1>1, <1>3, SegmentOf DEF Good
<1> DEFINE l == Len(bank[p.segment].balances)
<1>5. p.id + 1 \in DOMAIN bank[p.segment].balances /\ p.id \in 0 .. nbaccounts - 1
  <2>1. l \in Nat /\ l \in 1 .. nbaccounts /\ p.id < l /\ DOMAIN bank[p.segment].balances = 1 .. l
    BY <1>2, <1>4
  <2> HIDE DEF l
  <2>2. QED
    BY <1>2, <2>1, BankAssumption
<1>6. QED
  BY <1>1, <1>2, <1>3, <1>5 DEF p

(* A transfer takes as much as it gives, and only from an account that has  *)
(* something.                                                               *)
LEMMA TransferInv ==
  ASSUME BankInv, NEW w \in RunWorkers, Accounts!Bank!Transfer(w)
  PROVE  BankInv'
<1> DEFINE W(id) == Accounts!Bank!Walk(id)[Len(bank)]
           s == W(ids[w].send)
           r == W(ids[w].recv)
           d == Accounts!Bank!Moved(bank, s, -1)
<1>1. /\ s.segment # 0 /\ r.segment # 0
      /\ bank' = IF bank[s.segment].balances[s.id + 1] > 0
                   THEN Accounts!Bank!Moved(d, r, 1) ELSE bank
      /\ ids' = [ids EXCEPT ![w] = Accounts!Bank!NoIds]
      /\ UNCHANGED <<togo, count, wrong>>
      /\ Accounts!Bank!Go(w, "short", "next")
  BY DEF Accounts!Bank!Transfer
<1>2. /\ doing' \in [RunWorkers -> {"next", "short", "end"}]
      /\ ids' \in [RunWorkers -> [send : Nat, recv : Nat]]
  <2>1. Accounts!Bank!NoIds \in [send : Nat, recv : Nat]
    BY DEF Accounts!Bank!NoIds
  <2>2. QED
    BY <1>1, <2>1 DEF Accounts!Bank!Go, BankInv, BankTypes
<1>3. ids[w].send \in Nat /\ ids[w].recv \in Nat /\ Good(bank)
  BY DEF BankInv, BankTypes
<1>4. /\ s.segment \in DOMAIN bank /\ s.id + 1 \in DOMAIN bank[s.segment].balances
      /\ r.segment \in DOMAIN bank /\ r.id + 1 \in DOMAIN bank[r.segment].balances
  BY <1>1, <1>3, PlaceOf
<1> HIDE DEF s, r
<1>5. CASE bank[s.segment].balances[s.id + 1] > 0
  <2>1. bank[s.segment].balances[s.id + 1] \in Int
    BY <1>3, <1>4, SegmentOf DEF Good
  <2>2. bank[s.segment].balances[s.id + 1] + (-1) >= 0 /\ -1 \in Int
    BY <1>5, <2>1
  <2>3. Short(d, 0 - (-1)) /\ DOMAIN d = DOMAIN bank
        /\ \A j \in DOMAIN bank : DOMAIN d[j].balances = DOMAIN bank[j].balances
    BY <1>3, <1>4, <2>2, MovedShort DEF Good
  <2> HIDE DEF d
  <2>4. Short(d, 1) /\ r.segment \in DOMAIN d /\ r.id + 1 \in DOMAIN d[r.segment].balances
    BY <1>4, <2>3
  <2>5. d[r.segment].balances[r.id + 1] \in Int /\ d[r.segment].balances[r.id + 1] >= 0
    BY <2>4, SegmentOf
  <2>6. d[r.segment].balances[r.id + 1] + 1 >= 0
    BY <2>5
  <2>7. Short(Accounts!Bank!Moved(d, r, 1), 1 - 1)
    BY <2>4, <2>6, MovedShort
  <2>8. Good(bank')
    BY <1>1, <1>5, <2>7 DEF Good
  <2>9. QED
    BY <1>1, <1>2, <2>8 DEF BankInv, BankTypes
<1>6. CASE ~ (bank[s.segment].balances[s.id + 1] > 0)
  BY <1>1, <1>2, <1>3, <1>6 DEF BankInv, BankTypes
<1>7. QED
  BY <1>5, <1>6

(* BankInv is inductive.                                                    *)
LEMMA NextBankInv == BankInv /\ [Accounts!Bank!Next]_(Accounts!Bank!vars) => BankInv'
<1> SUFFICES ASSUME BankInv, [Accounts!Bank!Next]_(Accounts!Bank!vars) PROVE BankInv'
  OBVIOUS
<1>1. ASSUME NEW w \in RunWorkers, Accounts!Bank!Run(w) PROVE BankInv'
  BY <1>1, LongInv, AllocTxInv, ShortTxInv, RetryInv, TransferInv, RedrawInv DEF Accounts!Bank!Run
<1>2. CASE UNCHANGED Accounts!Bank!vars
  BY <1>2, GoodStays DEF Accounts!Bank!vars, BankInv, BankTypes
<1>3. QED
  BY <1>1, <1>2 DEF Accounts!Bank!Next

(* It implies what run promises.                                            *)
LEMMA BankInvSays == BankInv => Accounts!Bank!TypeOK /\ Accounts!Bank!NothingWrong
<1> SUFFICES ASSUME BankInv PROVE Accounts!Bank!TypeOK /\ Accounts!Bank!NothingWrong
  OBVIOUS
<1>1. Accounts!Bank!NothingWrong
  BY GoodConsistent DEF BankInv, Accounts!Bank!NothingWrong
<1>2. bank \in Seq([parity : Int, balances : Seq(Int)]) /\ bank # <<>>
      /\ \A s \in DOMAIN bank : /\ Len(bank[s].balances) \in 1 .. nbaccounts
                                /\ s < Len(bank) => Len(bank[s].balances) = nbaccounts
  BY DEF BankInv, Good, Short, Formed, Segment
<1>3. \A s \in DOMAIN bank : Len(bank[s].balances) \in
        IF s < Len(bank) THEN {nbaccounts} ELSE 1 .. nbaccounts
  BY <1>2
<1>4. QED
  BY <1>1, <1>2, <1>3 DEF BankInv, BankTypes, Accounts!Bank!TypeOK

(* BankInv is an inductive invariant of run, transaction by transaction.    *)
THEOREM BankInductive == Accounts!Bank!Spec => []BankInv
BY InitBankInv, NextBankInv, PTL DEF Accounts!Bank!Spec

(* run keeps the money together: whatever the transactions, no account is   *)
(* overdrawn and the total is what the accounts began with.                 *)
THEOREM BankKeepsMoney ==
  Accounts!Bank!Spec => [](Accounts!Bank!TypeOK /\ Accounts!Bank!NothingWrong)
BY BankInductive, BankInvSays, PTL

==============================================================================
