---------------------------- MODULE PacketProofs ----------------------------
(***************************************************************************)
(* Every datagram is understood by an end with the same digits, only what  *)
(* was sent is accepted, and no datagram of the server stops the receiver  *)
(* thread: for numbers and payloads of any length and any damage.          *)
(*                                                                         *)
(* The numbers are written and read by recursive functions.  What they     *)
(* compute is shown by induction, which is derived here from the library's *)
(* fact that < is well-founded: with a set of numbers where the library's  *)
(* own induction theorems take a predicate.                                *)
(***************************************************************************)
EXTENDS Packet, TLAPS, SequenceTheorems, WellFoundedInduction

-----------------------------------------------------------------------------
(* Induction and recursion on the natural numbers, with sets and functions *)
(* where the library's theorems take operators.                            *)

\* The order of the numbers, as the library's theorems want it.
LEMMA LessThan ==
  \E R : /\ IsWellFoundedOn(R, Nat)
         /\ \A x, y \in Nat : y < x => <<y, x>> \in R
  <1> WITNESS OpToRel(<, Nat)
  <1>1. IsWellFoundedOn(OpToRel(<, Nat), Nat)
    BY NatLessThanWellFounded
  <1>2. \A x, y \in Nat : y < x => <<y, x>> \in OpToRel(<, Nat)
    BY DEF OpToRel
  <1> QED BY <1>1, <1>2, Zenon

\* A set of numbers has a least one.
LEMMA Least ==
  ASSUME NEW T, T \subseteq Nat, T # {}
  PROVE  \E x \in T : \A y \in T : x <= y
  <1>1. PICK R : /\ IsWellFoundedOn(R, Nat)
                 /\ \A x, y \in Nat : y < x => <<y, x>> \in R
    BY LessThan
  <1>2. PICK x \in T : \A y \in T : ~(<<y, x>> \in R)
    BY <1>1, WFMin
  <1>3. ASSUME NEW y \in T PROVE x <= y
    <2>1. x \in Nat /\ y \in Nat
      OBVIOUS
    <2>2. ~(y < x)
      BY <1>1, <1>2, <2>1
    <2> QED BY <2>1, <2>2
  <1> QED BY <1>3

\* Induction, with a set in place of a predicate.
LEMMA Induction ==
  ASSUME NEW S, 0 \in S, \A n \in Nat : n \in S => n + 1 \in S
  PROVE  Nat \subseteq S
  <1> SUFFICES ASSUME Nat \ S # {} PROVE FALSE
    OBVIOUS
  <1>1. PICK x \in Nat \ S : \A y \in Nat \ S : x <= y
    BY Least
  <1> QED BY <1>1

\* f is defined at n by its value at p[n], if that comes before n.
Defines(f, p, step, a) ==
  \A n \in Nat : f[n] = IF p[n] < n THEN step[n][f[p[n]]] ELSE a[n]

\* Such a function exists: it is put together from those that are right up to some n,
\* any two of which agree.
LEMMA Recursion ==
  ASSUME NEW S, NEW a \in [Nat -> S], NEW step \in [Nat -> [S -> S]],
         NEW p \in [Nat -> Nat]
  PROVE  \E f \in [Nat -> S] : Defines(f, p, step, a)
  <1> DEFINE Upto(g, m) ==
               \A n \in 0..m : g[n] = IF p[n] < n THEN step[n][g[p[n]]] ELSE a[n]
  <1>1. ASSUME NEW m \in Nat, NEW k \in Nat, NEW g, NEW h, Upto(g, m), Upto(h, k)
        PROVE  \A n \in Nat : n <= m /\ n <= k => g[n] = h[n]
    <2> DEFINE Differ == {n \in Nat : n <= m /\ n <= k /\ g[n] # h[n]}
    <2> SUFFICES ASSUME Differ # {} PROVE FALSE
      OBVIOUS
    <2>1. PICK n \in Differ : \A i \in Differ : n <= i
      BY Least
    <2>2. p[n] < n => g[p[n]] = h[p[n]]
      BY <2>1
    <2>3. n \in 0..m /\ n \in 0..k
      OBVIOUS
    <2> QED BY <1>1, <2>2, <2>3
  <1> DEFINE Defined == {m \in Nat : \E g \in [0..m -> S] : Upto(g, m)}
  <1>2. Nat \subseteq Defined
    <2>1. 0 \in Defined
      <3> DEFINE g == [n \in 0..0 |-> a[0]]
      <3>1. g \in [0..0 -> S] /\ Upto(g, 0)
        OBVIOUS
      <3> HIDE DEF g
      <3> QED BY <3>1
    <2>2. ASSUME NEW m \in Nat, m \in Defined PROVE m + 1 \in Defined
      <3>1. PICK g \in [0..m -> S] : Upto(g, m)
        BY <2>2
      <3> DEFINE next == IF p[m + 1] < m + 1 THEN step[m + 1][g[p[m + 1]]] ELSE a[m + 1]
      <3> DEFINE h == [n \in 0..(m + 1) |-> IF n = m + 1 THEN next ELSE g[n]]
      <3>2. next \in S
        OBVIOUS
      <3>3. h \in [0..(m + 1) -> S]
        BY <3>2
      <3>4. Upto(h, m + 1)
        <4> SUFFICES ASSUME NEW n \in 0..(m + 1)
                     PROVE  h[n] = IF p[n] < n THEN step[n][h[p[n]]] ELSE a[n]
          OBVIOUS
        <4>1. p[n] < n => h[p[n]] = g[p[n]]
          <5>1. p[n] \in Nat
            OBVIOUS
          <5> HIDE DEF next
          <5> QED BY <5>1
        <4>2. CASE n = m + 1
          BY <4>1, <4>2
        <4>3. CASE n # m + 1
          <5>1. n \in 0..m /\ h[n] = g[n]
            BY <4>3
          <5> QED BY <3>1, <4>1, <5>1
        <4> QED BY <4>2, <4>3
      <3> HIDE DEF h, Upto, next
      <3>5. \E e \in [0..(m + 1) -> S] : Upto(e, m + 1)
        BY <3>3, <3>4
      <3>6. m + 1 \in Nat
        OBVIOUS
      <3> QED BY <3>5, <3>6, Zenon
    <2> HIDE DEF Defined
    <2> QED BY <2>1, <2>2, Induction
  <1>3. PICK F : \A m \in Nat : F[m] \in [0..m -> S] /\ Upto(F[m], m)
    <2> DEFINE G == [m \in Nat |-> CHOOSE g \in [0..m -> S] : Upto(g, m)]
    <2>1. ASSUME NEW m \in Nat PROVE G[m] \in [0..m -> S] /\ Upto(G[m], m)
      <3>1. \E g \in [0..m -> S] : Upto(g, m)
        BY <1>2
      <3>2. G[m] = CHOOSE g \in [0..m -> S] : Upto(g, m)
        OBVIOUS
      <3> HIDE DEF G, Upto
      <3> QED BY <3>1, <3>2, Zenon
    <2> HIDE DEF G, Upto
    <2> QED BY <2>1, Zenon
  <1> DEFINE f == [n \in Nat |-> F[n][n]]
  <1>4. f \in [Nat -> S]
    <2>1. ASSUME NEW n \in Nat PROVE F[n][n] \in S
      <3>1. F[n] \in [0..n -> S] /\ n \in 0..n
        BY <1>3
      <3> QED BY <3>1
    <2> QED BY <2>1
  <1>5. ASSUME NEW n \in Nat
        PROVE  f[n] = IF p[n] < n THEN step[n][f[p[n]]] ELSE a[n]
    <2>1. f[n] = F[n][n] /\ f[p[n]] = F[p[n]][p[n]] /\ p[n] \in Nat
      OBVIOUS
    <2>2. Upto(F[n], n) /\ Upto(F[p[n]], p[n])
      <3> HIDE DEF Upto
      <3> QED BY <1>3, <2>1
    <2>3. p[n] < n => F[p[n]][p[n]] = F[n][p[n]]
      <3> HIDE DEF Upto, f
      <3>1. \A i \in Nat : i <= n /\ i <= p[n] => F[n][i] = F[p[n]][i]
        BY <1>1, <2>1, <2>2
      <3> QED BY <2>1, <3>1
    <2>4. F[n][n] = IF p[n] < n THEN step[n][F[n][p[n]]] ELSE a[n]
      BY <2>2
    <2> HIDE DEF f
    <2> QED BY <2>1, <2>3, <2>4
  <1> HIDE DEF f
  <1>6. Defines(f, p, step, a)
    BY <1>5 DEF Defines
  <1> QED BY <1>4, <1>6

-----------------------------------------------------------------------------
(* Numbers and their digits.                                               *)

\* What tells symbols apart.
LEMMA Symbols ==
  /\ Nul[1] = "nul" /\ Nul \in Text
  /\ \A c \in Decimal : c[1] = "digit" /\ c[2] \in 0..9 /\ c \in Text /\ c # Nul
  /\ \A c \in Text : c[1] # "md5"
  /\ \A d \in 0..9 : Digit(d) \in Decimal /\ Digit(d)[2] = d
  BY DEF Nul, Decimal, Text, Digit, Byte

\* to_string satisfies its recursive definition.
LEMMA ToStringDef ==
  /\ to_string \in [Nat -> Seq(Decimal)]
  /\ \A n \in Nat : to_string[n] =
       IF n < 10 THEN <<Digit(n)>> ELSE Append(to_string[n \div 10], Digit(n % 10))
  <1> DEFINE S == Seq(Decimal)
  <1> DEFINE a == [n \in Nat |-> <<Digit(n % 10)>>]
  <1> DEFINE step == [n \in Nat |-> [s \in S |-> Append(s, Digit(n % 10))]]
  <1> DEFINE p == [n \in Nat |-> IF n < 10 THEN n ELSE n \div 10]
  <1> DEFINE Def(f) == [n \in Nat |-> IF n < 10 THEN <<Digit(n)>>
                                      ELSE Append(f[n \div 10], Digit(n % 10))]
  <1>1. ASSUME NEW n \in Nat
        PROVE  /\ n % 10 \in 0..9
               /\ n < 10 => n % 10 = n
               /\ n \div 10 \in Nat
               /\ n >= 10 => n \div 10 < n
               /\ Digit(n % 10) \in Decimal
    <2>1. n % 10 \in 0..9 /\ (n < 10 => n % 10 = n) /\ n \div 10 \in Nat
          /\ (n >= 10 => n \div 10 < n)
      OBVIOUS
    <2> QED BY <2>1, Symbols
  <1>2. a \in [Nat -> S]
    BY <1>1
  <1>3. step \in [Nat -> [S -> S]]
    <2>1. ASSUME NEW n \in Nat, NEW s \in S PROVE Append(s, Digit(n % 10)) \in S
      BY <1>1
    <2> HIDE DEF S
    <2> QED BY <2>1
  <1>4. p \in [Nat -> Nat]
    BY <1>1
  <1>5. PICK f \in [Nat -> S] :
          \A n \in Nat : f[n] = IF p[n] < n THEN step[n][f[p[n]]] ELSE a[n]
    <2>1. \E f \in [Nat -> S] : Defines(f, p, step, a)
      <3> HIDE DEF a, step, p, S
      <3> QED BY <1>2, <1>3, <1>4, Recursion
    <2> QED BY <2>1 DEF Defines
  <1>6. f = Def(f)
    <2>1. ASSUME NEW n \in Nat
          PROVE  f[n] = IF n < 10 THEN <<Digit(n)>>
                        ELSE Append(f[n \div 10], Digit(n % 10))
      <3>1. CASE n < 10
        <4>1. p[n] = n /\ a[n] = <<Digit(n)>> /\ ~(p[n] < n)
          BY <1>1, <3>1
        <4> HIDE DEF p, a, step
        <4> QED BY <1>5, <3>1, <4>1
      <3>2. CASE ~(n < 10)
        <4>1. p[n] = n \div 10 /\ p[n] < n
          BY <1>1, <3>2
        <4>2. f[n] = step[n][f[p[n]]]
          BY <1>5, <4>1
        <4>3. f[n \div 10] \in S
          BY <1>1
        <4> QED BY <3>2, <4>1, <4>2, <4>3
      <3> QED BY <3>1, <3>2
    <2> QED BY <2>1
  <1>7. to_string = Def(to_string)
    <2>1. to_string = CHOOSE g : g = Def(g)
      BY Zenon DEF to_string
    <2> HIDE DEF Def
    <2> QED BY <1>6, <2>1, Zenon
  <1>8. \A n \in Nat : to_string[n] =
          IF n < 10 THEN <<Digit(n)>> ELSE Append(to_string[n \div 10], Digit(n % 10))
    BY <1>7, Zenon
  <1>9. \A n \in Nat : to_string[n] \in S
    <2> DEFINE Bad == {n \in Nat : to_string[n] \notin S}
    <2> SUFFICES ASSUME Bad # {} PROVE FALSE
      OBVIOUS
    <2>1. PICK n \in Bad : \A i \in Bad : n <= i
      BY Least
    <2>2. n \in Nat /\ to_string[n] \notin S
      OBVIOUS
    <2>3. n >= 10 => to_string[n \div 10] \in S
      BY <1>1, <2>1
    <2>4. CASE n < 10
      <3>1. Digit(n) \in Decimal
        <4>1. n \in 0..9
          BY <2>2, <2>4
        <4> QED BY <4>1, Symbols
      <3>2. to_string[n] = <<Digit(n)>>
        BY <1>8, <2>2, <2>4
      <3> QED BY <2>2, <3>1, <3>2
    <2>5. CASE ~(n < 10)
      <3>1. to_string[n] = Append(to_string[n \div 10], Digit(n % 10))
        BY <1>8, <2>2, <2>5
      <3> QED BY <1>1, <2>2, <2>3, <2>5, <3>1
    <2> QED BY <2>4, <2>5
  <1>10. to_string \in [Nat -> S]
    <2> HIDE DEF S
    <2>1. to_string = [n \in Nat |-> to_string[n]]
      BY <1>7
    <2> QED BY <1>9, <2>1
  <1> QED BY <1>8, <1>10

\* Value satisfies its recursive definition.
LEMMA ValueDef ==
  ASSUME NEW s \in Seq(Decimal)
  PROVE  /\ \A n \in Nat : Value(s)[n] \in Nat
         /\ \A n \in Nat : Value(s)[n] =
              IF n \in 1..Len(s) THEN 10 * Value(s)[n - 1] + s[n][2] ELSE 0
  <1> DEFINE a == [n \in Nat |-> 0]
  <1> DEFINE digit(n) == IF n \in 1..Len(s) THEN s[n][2] ELSE 0
  <1> DEFINE step == [n \in Nat |-> [v \in Nat |-> 10 * v + digit(n)]]
  <1> DEFINE p == [n \in Nat |-> IF n \in 1..Len(s) THEN n - 1 ELSE n]
  <1> DEFINE Def(f) ==
               [n \in Nat |-> IF n \in 1..Len(s) THEN 10 * f[n - 1] + s[n][2] ELSE 0]
  <1>1. ASSUME NEW n \in Nat
        PROVE  digit(n) \in Nat
    <2>1. n \in 1..Len(s) => s[n] \in Decimal
      OBVIOUS
    <2>2. n \in 1..Len(s) => s[n][2] \in 0..9
      BY <2>1, Symbols
    <2> QED BY <2>2
  <1>2. a \in [Nat -> Nat]
    OBVIOUS
  <1>3. step \in [Nat -> [Nat -> Nat]]
    <2>1. ASSUME NEW n \in Nat, NEW v \in Nat PROVE 10 * v + digit(n) \in Nat
      <3> HIDE DEF digit
      <3> QED BY <1>1
    <2> HIDE DEF digit
    <2> QED BY <2>1
  <1>4. p \in [Nat -> Nat]
    OBVIOUS
  <1>5. PICK f \in [Nat -> Nat] :
          \A n \in Nat : f[n] = IF p[n] < n THEN step[n][f[p[n]]] ELSE a[n]
    <2>1. \E f \in [Nat -> Nat] : Defines(f, p, step, a)
      <3> HIDE DEF a, step, p
      <3> QED BY <1>2, <1>3, <1>4, Recursion
    <2> QED BY <2>1 DEF Defines
  <1>6. f = Def(f)
    <2>1. ASSUME NEW n \in Nat
          PROVE  f[n] = IF n \in 1..Len(s) THEN 10 * f[n - 1] + s[n][2] ELSE 0
      <3>1. CASE n \in 1..Len(s)
        <4>1. p[n] = n - 1 /\ p[n] < n /\ n - 1 \in Nat
          BY <3>1
        <4>2. f[n] = step[n][f[n - 1]] /\ f[n - 1] \in Nat
          BY <1>5, <4>1
        <4> QED BY <3>1, <4>2
      <3>2. CASE n \notin 1..Len(s)
        <4>1. p[n] = n /\ a[n] = 0 /\ ~(p[n] < n)
          BY <3>2
        <4> HIDE DEF p, a, step
        <4> QED BY <1>5, <3>2, <4>1
      <3> QED BY <3>1, <3>2
    <2> QED BY <2>1
  <1>7. Value(s) = Def(Value(s))
    <2>1. Value(s) = CHOOSE g : g = Def(g)
      BY Zenon DEF Value
    <2> HIDE DEF Def
    <2> QED BY <1>6, <2>1, Zenon
  <1>8. \A n \in Nat : Value(s)[n] =
          IF n \in 1..Len(s) THEN 10 * Value(s)[n - 1] + s[n][2] ELSE 0
    BY <1>7, Zenon
  <1>9. \A n \in Nat : Value(s)[n] \in Nat
    <2> DEFINE Typed == {n \in Nat : Value(s)[n] \in Nat}
    <2>1. 0 \in Typed
      BY <1>8
    <2>2. ASSUME NEW n \in Nat, n \in Typed PROVE n + 1 \in Typed
      <3>1. Value(s)[n + 1] =
              IF n + 1 \in 1..Len(s) THEN 10 * Value(s)[n] + s[n + 1][2] ELSE 0
        <4>1. n + 1 \in Nat /\ (n + 1) - 1 = n
          OBVIOUS
        <4> HIDE DEF Typed
        <4> QED BY <1>8, <4>1
      <3>2. n + 1 \in 1..Len(s) => s[n + 1][2] \in Nat
        <4>1. n + 1 \in Nat
          OBVIOUS
        <4> QED BY <1>1, <4>1
      <3>3. Value(s)[n] \in Nat
        BY <2>2
      <3>4. Value(s)[n + 1] \in Nat
        <4>1. CASE n + 1 \in 1..Len(s)
          <5>1. s[n + 1][2] \in Nat /\ Value(s)[n + 1] = 10 * Value(s)[n] + s[n + 1][2]
            BY <3>1, <3>2, <4>1
          <5>2. \A v, d \in Nat : 10 * v + d \in Nat
            OBVIOUS
          <5> HIDE DEF digit
          <5> QED BY <3>3, <5>1, <5>2
        <4>2. CASE n + 1 \notin 1..Len(s)
          BY <3>1, <4>2
        <4> QED BY <4>1, <4>2
      <3> QED BY <3>4
    <2> HIDE DEF Typed
    <2>3. Nat \subseteq Typed
      BY <2>1, <2>2, Induction
    <2> QED BY <2>3 DEF Typed
  <1> QED BY <1>8, <1>9

\* The value of the first digits does not depend on what comes after them.
LEMMA ValueOfPrefix ==
  ASSUME NEW s \in Seq(Decimal), NEW t \in Seq(Decimal), NEW m \in Nat,
         m <= Len(s), m <= Len(t), \A i \in 1..m : s[i] = t[i]
  PROVE  Value(s)[m] = Value(t)[m]
  <1> DEFINE Same == {n \in Nat : n <= m => Value(s)[n] = Value(t)[n]}
  <1>1. 0 \in Same
    BY ValueDef
  <1>2. ASSUME NEW n \in Nat, n \in Same PROVE n + 1 \in Same
    <2> SUFFICES ASSUME n + 1 <= m PROVE Value(s)[n + 1] = Value(t)[n + 1]
      OBVIOUS
    <2>1. /\ n + 1 \in Nat /\ (n + 1) - 1 = n /\ s[n + 1] = t[n + 1]
          /\ n + 1 \in 1..Len(s) /\ n + 1 \in 1..Len(t) /\ Value(s)[n] = Value(t)[n]
      BY <1>2
    <2>2. Value(s)[n + 1] = 10 * Value(s)[n] + s[n + 1][2]
      BY <2>1, ValueDef
    <2>3. Value(t)[n + 1] = 10 * Value(t)[n] + t[n + 1][2]
      BY <2>1, ValueDef
    <2> QED BY <2>1, <2>2, <2>3
  <1> HIDE DEF Same
  <1>3. m \in Same
    BY <1>1, <1>2, Induction
  <1> QED BY <1>3 DEF Same

\* Leading zeros do not change the value.
LEMMA ValueOfZeros ==
  ASSUME NEW k \in Nat, NEW s \in Seq(Decimal), NEW t \in Seq(Decimal),
         Len(t) = k + Len(s),
         \A i \in 1..k : t[i] = Digit(0),
         \A i \in 1..Len(s) : t[k + i] = s[i]
  PROVE  Value(t)[k + Len(s)] = Value(s)[Len(s)]
  <1> DEFINE Zero == {n \in Nat : n <= k => Value(t)[n] = 0}
  <1>1. k \in Zero
    <2>1. 0 \in Zero
      BY ValueDef
    <2>2. ASSUME NEW n \in Nat, n \in Zero PROVE n + 1 \in Zero
      <3> SUFFICES ASSUME n + 1 <= k PROVE Value(t)[n + 1] = 0
        OBVIOUS
      <3>1. /\ n + 1 \in Nat /\ (n + 1) - 1 = n /\ n + 1 \in 1..Len(t)
            /\ t[n + 1] = Digit(0) /\ Value(t)[n] = 0
        BY <2>2
      <3>2. Value(t)[n + 1] = 10 * Value(t)[n] + t[n + 1][2]
        BY <3>1, ValueDef
      <3>3. Digit(0)[2] = 0
        BY Symbols
      <3> QED BY <3>1, <3>2, <3>3
    <2> HIDE DEF Zero
    <2> QED BY <2>1, <2>2, Induction
  <1> DEFINE Same == {n \in Nat : n <= Len(s) => Value(t)[k + n] = Value(s)[n]}
  <1>2. Len(s) \in Same
    <2>1. 0 \in Same
      BY <1>1, ValueDef
    <2>2. ASSUME NEW n \in Nat, n \in Same PROVE n + 1 \in Same
      <3> SUFFICES ASSUME n + 1 <= Len(s) PROVE Value(t)[k + (n + 1)] = Value(s)[n + 1]
        OBVIOUS
      <3>1. /\ n + 1 \in Nat /\ (n + 1) - 1 = n /\ n + 1 \in 1..Len(s)
            /\ k + (n + 1) \in Nat /\ (k + (n + 1)) - 1 = k + n
            /\ k + (n + 1) \in 1..Len(t)
            /\ t[k + (n + 1)] = s[n + 1] /\ Value(t)[k + n] = Value(s)[n]
        BY <2>2
      <3>2. Value(s)[n + 1] = 10 * Value(s)[n] + s[n + 1][2]
        BY <3>1, ValueDef
      <3>3. Value(t)[k + (n + 1)] = 10 * Value(t)[k + n] + t[k + (n + 1)][2]
        BY <3>1, ValueDef
      <3> QED BY <3>1, <3>2, <3>3
    <2>3. Len(s) \in Nat
      OBVIOUS
    <2> HIDE DEF Same
    <2> QED BY <2>1, <2>2, <2>3, Induction
  <1> QED BY <1>2

\* The digits that to_string writes have the value of the number.
LEMMA ValueOfString ==
  ASSUME NEW number \in Nat
  PROVE  Value(to_string[number])[Len(to_string[number])] = number
  <1> DEFINE Bad == {n \in Nat : Value(to_string[n])[Len(to_string[n])] # n}
  <1> SUFFICES ASSUME Bad # {} PROVE FALSE
    OBVIOUS
  <1>1. PICK n \in Bad : \A i \in Bad : n <= i
    BY Least
  <1>2. n \in Nat /\ Value(to_string[n])[Len(to_string[n])] # n
    OBVIOUS
  <1>3. CASE n < 10
    <2>1. to_string[n] = <<Digit(n)>> /\ to_string[n] \in Seq(Decimal)
      BY <1>2, <1>3, ToStringDef
    <2>2. Value(to_string[n])[0] = 0
      <3>1. 0 \in Nat /\ 0 \notin 1..Len(to_string[n])
        OBVIOUS
      <3> HIDE DEF Bad
      <3> QED BY <2>1, <3>1, ValueDef
    <2>3. n \in 0..9
      BY <1>2, <1>3
    <2>4. Digit(n)[2] = n
      BY <2>3, Symbols
    <2>5. Len(to_string[n]) = 1 /\ to_string[n][1] = Digit(n)
      BY <2>1
    <2>6. Value(to_string[n])[1] = 10 * Value(to_string[n])[0] + to_string[n][1][2]
      <3>1. 1 \in Nat /\ 1 \in 1..Len(to_string[n]) /\ 1 - 1 = 0
        BY <2>5
      <3> HIDE DEF Bad
      <3> QED BY <2>1, <3>1, ValueDef
    <2> QED BY <1>2, <2>2, <2>4, <2>5, <2>6
  <1>4. CASE ~(n < 10)
    <2> DEFINE q == n \div 10
    <2> DEFINE r == n % 10
    <2>1. q \in Nat /\ r \in 0..9 /\ n = 10 * q + r /\ q < n
      BY <1>2, <1>4
    <2> HIDE DEF q, r
    <2>2. /\ to_string[n] = Append(to_string[q], Digit(r))
          /\ to_string[n] \in Seq(Decimal) /\ to_string[q] \in Seq(Decimal)
      <3>1. to_string[n] = Append(to_string[q], Digit(r))
        BY <1>2, <1>4, ToStringDef DEF q, r
      <3> QED BY <1>2, <2>1, <3>1, ToStringDef
    <2> DEFINE m == Len(to_string[q])
    <2>3. Value(to_string[q])[m] = q
      BY <1>1, <2>1
    <2>4. /\ m \in Nat /\ Len(to_string[n]) = m + 1
          /\ \A i \in 1..m : to_string[n][i] = to_string[q][i]
          /\ to_string[n][m + 1] = Digit(r)
      BY <2>2
    <2> HIDE DEF m
    <2>5. m <= Len(to_string[q]) /\ m <= Len(to_string[n])
      BY <2>4 DEF m
    <2>6. Value(to_string[n])[m] = q
      BY <2>2, <2>3, <2>4, <2>5, ValueOfPrefix
    <2>7. m + 1 \in Nat /\ (m + 1) - 1 = m /\ m + 1 \in 1..Len(to_string[n])
      BY <2>4
    <2>8. Value(to_string[n])[m + 1] =
            10 * Value(to_string[n])[m] + to_string[n][m + 1][2]
      BY <2>2, <2>7, ValueDef
    <2>9. Digit(r)[2] = r
      BY <2>1, Symbols
    <2> QED BY <1>2, <2>1, <2>4, <2>6, <2>8, <2>9
  <1> QED BY <1>3, <1>4

\* Divisions satisfies its recursive definition.
LEMMA DivisionsDef ==
  \A n \in Nat : /\ Divisions[n] \in Nat
                 /\ Divisions[n] = IF n = 0 THEN 0 ELSE Divisions[n \div 10] + 1
  <1> DEFINE a == [n \in Nat |-> 0]
  <1> DEFINE step == [n \in Nat |-> [v \in Nat |-> v + 1]]
  <1> DEFINE p == [n \in Nat |-> n \div 10]
  <1> DEFINE Def(f) == [n \in Nat |-> IF n = 0 THEN 0 ELSE f[n \div 10] + 1]
  <1>1. ASSUME NEW n \in Nat
        PROVE  n \div 10 \in Nat /\ (n \div 10 < n <=> n # 0)
    OBVIOUS
  <1>2. /\ a \in [Nat -> Nat] /\ step \in [Nat -> [Nat -> Nat]] /\ p \in [Nat -> Nat]
    BY <1>1
  <1>3. PICK f \in [Nat -> Nat] :
          \A n \in Nat : f[n] = IF p[n] < n THEN step[n][f[p[n]]] ELSE a[n]
    <2>1. \E f \in [Nat -> Nat] : Defines(f, p, step, a)
      <3> HIDE DEF a, step, p
      <3> QED BY <1>2, Recursion
    <2> QED BY <2>1 DEF Defines
  <1>4. f = Def(f)
    <2>1. ASSUME NEW n \in Nat
          PROVE  f[n] = IF n = 0 THEN 0 ELSE f[n \div 10] + 1
      <3>1. p[n] = n \div 10 /\ a[n] = 0 /\ f[p[n]] \in Nat
        BY <1>1
      <3>2. step[n][f[p[n]]] = f[p[n]] + 1
        BY <3>1
      <3> HIDE DEF p, a, step
      <3> QED BY <1>1, <1>3, <3>1, <3>2
    <2> QED BY <2>1
  <1>5. Divisions = Def(Divisions)
    <2>1. Divisions = CHOOSE g : g = Def(g)
      BY Zenon DEF Divisions
    <2> HIDE DEF Def
    <2> QED BY <1>4, <2>1, Zenon
  <1>6. \A n \in Nat : Divisions[n] = IF n = 0 THEN 0 ELSE Divisions[n \div 10] + 1
    BY <1>5, Zenon
  <1>7. \A n \in Nat : Divisions[n] \in Nat
    <2> DEFINE Bad == {n \in Nat : Divisions[n] \notin Nat}
    <2> SUFFICES ASSUME Bad # {} PROVE FALSE
      OBVIOUS
    <2>1. PICK n \in Bad : \A i \in Bad : n <= i
      BY Least
    <2>2. n # 0 => Divisions[n \div 10] \in Nat
      BY <1>1, <2>1
    <2> QED BY <1>6, <2>2
  <1> QED BY <1>6, <1>7

\* The loop of getNumberOfDigits and std::to_string agree on the length of a number.
LEMMA NumberOfDigits ==
  \A n \in Nat : getNumberOfDigits(n) = Len(to_string[n])
  <1> DEFINE Bad == {n \in Nat : getNumberOfDigits(n) # Len(to_string[n])}
  <1> SUFFICES ASSUME Bad # {} PROVE FALSE
    OBVIOUS
  <1>1. PICK n \in Bad : \A i \in Bad : n <= i
    BY Least
  <1>2. n \in Nat /\ getNumberOfDigits(n) # Len(to_string[n])
    OBVIOUS
  <1> DEFINE q == n \div 10
  <1>3. q \in Nat /\ (n < 10 => q = 0) /\ (n >= 10 => q < n /\ q # 0)
    BY <1>2
  <1>4. CASE n < 10
    <2>1. Len(to_string[n]) = 1
      BY <1>2, <1>4, ToStringDef
    <2>2. Divisions[0] = 0
      BY DivisionsDef
    <2>3. n # 0 => Divisions[n] = Divisions[0] + 1
      BY <1>2, <1>3, <1>4, DivisionsDef
    <2> QED BY <1>2, <2>1, <2>2, <2>3 DEF getNumberOfDigits
  <1>5. CASE n >= 10
    <2>1. q \notin Bad
      BY <1>1, <1>3, <1>5
    <2>2. Divisions[q] = Len(to_string[q])
      BY <1>3, <1>5, <2>1 DEF getNumberOfDigits
    <2>3. to_string[n] = Append(to_string[q], Digit(n % 10))
      BY <1>2, <1>5, ToStringDef
    <2>4. to_string[q] \in Seq(Decimal)
      BY <1>3, ToStringDef
    <2>5. Len(to_string[n]) = Len(to_string[q]) + 1
      <3> HIDE DEF q
      <3> QED BY <2>3, <2>4
    <2>6. n # 0 /\ Divisions[n] = Divisions[q] + 1
      BY <1>2, <1>5, DivisionsDef
    <2> QED BY <1>2, <2>2, <2>5, <2>6 DEF getNumberOfDigits
  <1> QED BY <1>2, <1>4, <1>5

\* The number with its leading zeros: its length and its value.
LEMMA PaddedNumber ==
  ASSUME NEW n \in Nat, NEW digits \in Nat, Len(to_string[n]) <= digits
  PROVE  /\ Padded(n, digits) \in Seq(Decimal)
         /\ Len(Padded(n, digits)) = digits
         /\ Value(Padded(n, digits))[digits] = n
  <1> DEFINE s == to_string[n]
  <1> DEFINE k == digits - Len(s)
  <1> DEFINE z == [i \in 1..k |-> Digit(0)]
  <1>1. s \in Seq(Decimal) /\ Len(s) \in Nat
    BY ToStringDef
  <1>2. k \in Nat /\ k + Len(s) = digits
    BY <1>1
  <1>3. Value(s)[Len(s)] = n
    BY ValueOfString
  <1>4. Padded(n, digits) = z \o s
    BY NumberOfDigits DEF Padded
  <1> HIDE DEF s, k
  <1>5. z \in Seq(Decimal) /\ Len(z) = k /\ \A i \in 1..k : z[i] = Digit(0)
    <2>1. Digit(0) \in Decimal
      BY Symbols
    <2> QED BY <1>2, <2>1
  <1> HIDE DEF z
  <1> DEFINE t == z \o s
  <1>6. /\ t \in Seq(Decimal) /\ Len(t) = k + Len(s)
        /\ \A i \in 1..k : t[i] = Digit(0)
        /\ \A i \in 1..Len(s) : t[k + i] = s[i]
    BY <1>1, <1>2, <1>5
  <1> HIDE DEF t
  <1>7. Value(t)[k + Len(s)] = Value(s)[Len(s)]
    BY <1>1, <1>2, <1>6, ValueOfZeros
  <1> QED BY <1>2, <1>3, <1>4, <1>6, <1>7 DEF t

-----------------------------------------------------------------------------
(* What the receiving end reads.                                           *)

\* substr returns at most n symbols, those after position pos.
LEMMA SubstrFacts ==
  ASSUME NEW X, NEW s \in Seq(X), NEW pos \in 0..Len(s), NEW n \in Nat
  PROVE  /\ Substr(s, pos, n) \in Seq(X)
         /\ Len(Substr(s, pos, n)) = IF pos + n <= Len(s) THEN n ELSE Len(s) - pos
         /\ \A i \in 1..Len(Substr(s, pos, n)) : Substr(s, pos, n)[i] = s[pos + i]
  <1> DEFINE last == IF pos + n <= Len(s) THEN pos + n ELSE Len(s)
  <1>1. last \in pos..Len(s) /\ last \in Nat /\ pos \in Nat /\ Len(s) \in Nat
    OBVIOUS
  <1>2. Substr(s, pos, n) = SubSeq(s, pos + 1, last)
    BY DEF Substr
  <1> HIDE DEF last
  <1>3. /\ SubSeq(s, pos + 1, last) \in Seq(X)
        /\ Len(SubSeq(s, pos + 1, last)) = last - pos
        /\ \A i \in 1..(last - pos) : SubSeq(s, pos + 1, last)[i] = s[pos + i]
    BY <1>1
  <1> QED BY <1>1, <1>2, <1>3 DEF last

\* The minimum of a set of numbers with a least element.
LEMMA MinIs ==
  ASSUME NEW T \in SUBSET Int, NEW m \in T, \A i \in T : m <= i
  PROVE  Min(T) = m
  <1>1. \A x \in T : (\A y \in T : x <= y) => x = m
    OBVIOUS
  <1> QED BY <1>1, Zenon DEF Min

\* A field of digits is read whole.
LEMMA ReadsDigits ==
  ASSUME NEW raw, NEW digits \in Nat,
         Substr(raw, 0, digits) \in Seq(Decimal), Len(Substr(raw, 0, digits)) = digits
  PROVE  extract_seq_num(raw, digits) = Value(Substr(raw, 0, digits))[digits]
  <1> DEFINE s == Substr(raw, 0, digits)
  <1> DEFINE t == Append(s, Nul)
  <1> DEFINE I == {i \in 1..Len(t) : t[i][1] # "digit"}
  <1>1. extract_seq_num(raw, digits) = Value(s)[(IF I # {} THEN Min(I) ELSE 0) - 1]
    BY DEF extract_seq_num, SelectInSeq
  <1>2. s \in Seq(Decimal) /\ Len(s) = digits
    OBVIOUS
  <1> HIDE DEF s
  <1>3. /\ Len(t) = digits + 1 /\ t[digits + 1] = Nul
        /\ \A i \in 1..digits : t[i] \in Decimal
    BY <1>2
  <1> HIDE DEF t
  <1>4. I = {digits + 1}
    BY <1>3, Symbols
  <1> HIDE DEF I
  <1>5. Min(I) = digits + 1
    <2>1. I \in SUBSET Int /\ digits + 1 \in I /\ \A i \in I : digits + 1 <= i
      BY <1>4
    <2> QED BY <2>1, MinIs
  <1>6. (IF I # {} THEN Min(I) ELSE 0) - 1 = digits
    BY <1>4, <1>5
  <1> QED BY <1>1, <1>6 DEF s

\* A number written with leading zeros, as generatePacketString and the server write
\* it, is read by extract_seq_num as what it was, whatever the number and the digits.
THEOREM NumberReadBack ==
  ASSUME NEW n \in Nat, NEW digits \in Nat, getNumberOfDigits(n) <= digits
  PROVE  extract_seq_num(Padded(n, digits), digits) = n
  <1> DEFINE s == Padded(n, digits)
  <1>1. s \in Seq(Decimal) /\ Len(s) = digits /\ Value(s)[digits] = n
    BY NumberOfDigits, PaddedNumber
  <1> HIDE DEF s
  <1> DEFINE r == Substr(s, 0, digits)
  <1>2. /\ r \in Seq(Decimal) /\ Len(r) = digits
        /\ \A i \in 1..Len(r) : r[i] = s[0 + i]
    <2>1. 0 \in 0..Len(s) /\ 0 + digits <= Len(s)
      BY <1>1
    <2> QED BY <1>1, <2>1, SubstrFacts
  <1> HIDE DEF r
  <1>3. \A i \in 1..digits : r[i] = s[i]
    BY <1>2
  <1>4. r = s
    BY <1>1, <1>2, <1>3
  <1>5. extract_seq_num(s, digits) = Value(r)[digits]
    BY <1>2, ReadsDigits DEF r
  <1> QED BY <1>1, <1>4, <1>5 DEF s

\* The string whose digest is compared.
Covered(raw, digits, checkACK) ==
  IF checkACK THEN Substr(raw, 0, digits) ELSE Substr(raw, digits + HashLen, Len(raw))

\* What passed the check has a whole digest of what it covers behind the number.
LEMMA Passed ==
  ASSUME NEW X, NEW raw \in Seq(X), NEW digits \in Nat, NEW checkACK \in BOOLEAN,
         checkPacketIntegrity(raw, digits, checkACK) = "good"
  PROVE  /\ digits + HashLen <= Len(raw)
         /\ raw[digits + 1] = <<"md5", Covered(raw, digits, checkACK), 1>>
  <1> DEFINE c == Covered(raw, digits, checkACK)
  <1> DEFINE d == Substr(raw, digits, HashLen)
  <1>1. HashLen \in Nat \ {0}
    BY PacketAssumption
  <1>2. digits <= Len(raw) /\ d = getHashFromString(c)
    BY DEF checkPacketIntegrity, Covered
  <1>3. /\ Len(d) = IF digits + HashLen <= Len(raw) THEN HashLen ELSE Len(raw) - digits
        /\ \A i \in 1..Len(d) : d[i] = raw[digits + i]
    <2>1. digits \in 0..Len(raw)
      BY <1>2
    <2> QED BY <1>1, <2>1, SubstrFacts
  <1> HIDE DEF c, d
  <1>4. Len(d) = HashLen /\ d[1] = <<"md5", c, 1>>
    BY <1>1, <1>2 DEF getHashFromString
  <1> QED BY <1>1, <1>2, <1>3, <1>4 DEF c

\* A digest behind the number, of what is covered, passes the check.
LEMMA Passes ==
  ASSUME NEW raw, NEW digits \in Nat, NEW checkACK \in BOOLEAN, Len(raw) \in Nat,
         digits + HashLen <= Len(raw),
         Substr(raw, digits, HashLen) = getHashFromString(Covered(raw, digits, checkACK))
  PROVE  checkPacketIntegrity(raw, digits, checkACK) = "good"
  <1>1. HashLen \in Nat
    BY PacketAssumption
  <1>2. ~(digits > Len(raw)) /\ ~(digits + HashLen > Len(raw))
    BY <1>1
  <1> QED BY <1>2 DEF checkPacketIntegrity, Covered

\* The receive buffer: the datagram, then zeros.
LEMMA BufferFacts ==
  ASSUME NEW X, wire \in Seq(X), Nul \in X, buffer_sz \in Nat
  PROVE  /\ Buffer \in Seq(X) /\ Len(Buffer) = buffer_sz
         /\ \A i \in 1..buffer_sz :
              Buffer[i] = IF i <= Len(wire) THEN wire[i] ELSE Nul
  <1> DEFINE z == [i \in 1..buffer_sz |-> Nul]
  <1> HIDE DEF buffer_sz
  <1>1. z \in Seq(X) /\ Len(z) = buffer_sz /\ \A i \in 1..buffer_sz : z[i] = Nul
    OBVIOUS
  <1>2. Buffer = SubSeq(wire \o z, 1, buffer_sz)
    BY DEF Buffer
  <1> HIDE DEF z
  <1> DEFINE t == wire \o z
  <1>3. /\ t \in Seq(X) /\ Len(t) = Len(wire) + buffer_sz
        /\ \A i \in 1..buffer_sz : t[i] = IF i <= Len(wire) THEN wire[i] ELSE Nul
    BY <1>1
  <1>4. Buffer = SubSeq(t, 1, buffer_sz)
    BY <1>2
  <1> HIDE DEF t
  <1>5. Len(wire) \in Nat
    OBVIOUS
  <1> QED BY <1>3, <1>4, <1>5

\* The C string in the buffer ends before the first zero.
LEMMA CString ==
  ASSUME NEW X, Buffer \in Seq(X)
  PROVE  /\ Terminated <=> \E i \in 1..Len(Buffer) : Buffer[i] = Nul
         /\ Terminated =>
              \E r \in 1..Len(Buffer) :
                /\ Buffer[r] = Nul /\ \A i \in 1..(r - 1) : Buffer[i] # Nul
                /\ input_raw_packet = SubSeq(Buffer, 1, r - 1)
  <1> HIDE DEF Buffer
  <1> DEFINE I == {i \in 1..Len(Buffer) : Buffer[i] = Nul}
  <1>1. Terminated <=> \E i \in 1..Len(Buffer) : Buffer[i] = Nul
    BY DEF Terminated, Range
  <1>2. ASSUME Terminated
        PROVE  \E r \in 1..Len(Buffer) :
                 /\ Buffer[r] = Nul /\ \A i \in 1..(r - 1) : Buffer[i] # Nul
                 /\ input_raw_packet = SubSeq(Buffer, 1, r - 1)
    <2>1. I # {} /\ I \subseteq Nat
      BY <1>1, <1>2
    <2>2. PICK r \in I : \A i \in I : r <= i
      BY <2>1, Least
    <2>3. input_raw_packet = SubSeq(Buffer, 1, Min(I) - 1)
      BY <2>1 DEF input_raw_packet, SelectInSeq
    <2>4. Min(I) = r
      <3>1. I \in SUBSET Int
        BY <2>1
      <3> HIDE DEF I
      <3> QED BY <2>2, <3>1, MinIs
    <2>5. r \in 1..Len(Buffer) /\ Buffer[r] = Nul
      OBVIOUS
    <2>6. \A i \in 1..(r - 1) : Buffer[i] # Nul
      BY <2>2, <2>5
    <2> QED BY <2>3, <2>4, <2>5, <2>6
  <1> QED BY <1>1, <1>2

-----------------------------------------------------------------------------
(* A datagram on its way.                                                  *)

\* The digits its sender writes numbers with, and the string its digest is of.
SenderDigits == IF sent.kind = "data" THEN seqnum_digits ELSE server_digits
Content == IF sent.kind = "data" THEN sent.payload ELSE Padded(sent.num, server_digits)

\* Symbols that can be in a datagram with the digest of x.
Written(x) == Text \cup {<<"md5", x, i>> : i \in 1..HashLen}

\* The two ends, and the datagram as its sender meant it.
Typed ==
  /\ seqnum_digits \in Nat \ {0} /\ server_digits \in Nat \ {0}
  /\ sent \in Messages
  /\ Len(to_string[sent.num]) <= SenderDigits
  /\ damage \in Nat

\* Damage leaves the symbols of the digest where they were, if it leaves them.
OnTheWay ==
  /\ wire \in Seq(Written(Content))
  /\ \A i \in 1..Len(wire) :
       wire[i] \in Text \/ wire[i] = <<"md5", Content, i - SenderDigits>>
  /\ sent.kind = "close" => wire = <<>>
  /\ damage = 0 => wire = Encode(sent)

\* A datagram is received once, so what came of it is part of the invariant.
PacketInv == Typed /\ OnTheWay /\ RoundTrip /\ AcceptedIsGenuine /\ ServerIsHarmless

\* What is sent, and the number in the digits of its sender.
LEMMA MessageFacts ==
  ASSUME Typed
  PROVE  /\ sent.num \in Nat /\ sent.payload \in Seq(Text)
         /\ sent.kind \in {"data", "ack", "close"}
         /\ sent.kind # "data" => sent.payload = <<>>
         /\ Padded(sent.num, SenderDigits) \in Seq(Decimal)
         /\ Len(Padded(sent.num, SenderDigits)) = SenderDigits
         /\ Value(Padded(sent.num, SenderDigits))[SenderDigits] = sent.num
         /\ SenderDigits \in Nat \ {0} /\ HashLen \in Nat \ {0}
  <1>1. /\ sent.num \in Nat /\ sent.payload \in Seq(Text)
        /\ sent.kind \in {"data", "ack", "close"}
        /\ sent.kind # "data" => sent.payload = <<>>
    <2>1. \/ sent \in [kind : {"data"}, num : Numbers, payload : Payloads]
          \/ sent \in [kind : {"ack"}, num : Numbers, payload : {<<>>}]
          \/ sent = [kind |-> "close", num |-> 0, payload |-> <<>>]
      BY DEF Typed, Messages
    <2>2. <<>> \in Seq(Text)
      OBVIOUS
    <2>3. Numbers \subseteq Nat /\ Payloads \subseteq Seq(Text)
      BY PacketAssumption
    <2>4. CASE sent \in [kind : {"data"}, num : Numbers, payload : Payloads]
      BY <2>3, <2>4
    <2>5. CASE sent \in [kind : {"ack"}, num : Numbers, payload : {<<>>}]
      <3>1. sent.kind = "ack" /\ sent.num \in Numbers /\ sent.payload = <<>>
        BY <2>5
      <3> QED BY <2>2, <2>3, <3>1
    <2>6. CASE sent = [kind |-> "close", num |-> 0, payload |-> <<>>]
      <3>1. sent.kind = "close" /\ sent.num = 0 /\ sent.payload = <<>>
        BY <2>6
      <3> QED BY <2>2, <3>1
    <2> QED BY <2>1, <2>4, <2>5, <2>6
  <1>2. SenderDigits \in Nat \ {0} /\ HashLen \in Nat \ {0}
    BY PacketAssumption DEF Typed, SenderDigits
  <1>3. Len(to_string[sent.num]) <= SenderDigits
    BY DEF Typed
  <1>4. /\ Padded(sent.num, SenderDigits) \in Seq(Decimal)
        /\ Len(Padded(sent.num, SenderDigits)) = SenderDigits
        /\ Value(Padded(sent.num, SenderDigits))[SenderDigits] = sent.num
    BY <1>1, <1>2, <1>3, PaddedNumber
  <1> QED BY <1>1, <1>2, <1>4

\* The string u consists of n, h and p.
LaidOut(u, n, h, p) ==
  /\ Len(u) = Len(n) + Len(h) + Len(p)
  /\ \A i \in 1..Len(n) : u[i] = n[i]
  /\ \A i \in 1..Len(h) : u[Len(n) + i] = h[i]
  /\ \A i \in 1..Len(p) : u[Len(n) + Len(h) + i] = p[i]

\* Concatenation puts the parts of a string one after the other.
LEMMA Joined ==
  ASSUME NEW X, NEW n \in Seq(X), NEW h \in Seq(X), NEW p \in Seq(X)
  PROVE  (n \o h) \o p \in Seq(X) /\ LaidOut((n \o h) \o p, n, h, p)
  <1>1. \A b : b = n \o h =>
          /\ b \in Seq(X) /\ Len(b) = Len(n) + Len(h)
          /\ \A i \in 1..Len(n) : b[i] = n[i]
          /\ \A i \in 1..Len(h) : b[Len(n) + i] = h[i]
    OBVIOUS
  <1>2. \A b \in Seq(X) : \A u : u = b \o p =>
          /\ u \in Seq(X) /\ Len(u) = Len(b) + Len(p)
          /\ \A i \in 1..Len(b) : u[i] = b[i]
          /\ \A i \in 1..Len(p) : u[Len(b) + i] = p[i]
    OBVIOUS
  <1>3. PICK b : b = n \o h
    OBVIOUS
  <1>4. PICK u : u = b \o p
    OBVIOUS
  <1>5. u = (n \o h) \o p
    BY <1>3, <1>4
  <1>6. /\ b \in Seq(X) /\ Len(b) = Len(n) + Len(h)
        /\ \A i \in 1..Len(n) : b[i] = n[i]
        /\ \A i \in 1..Len(h) : b[Len(n) + i] = h[i]
    BY ONLY <1>1, <1>3
  <1>7. /\ u \in Seq(X) /\ Len(u) = Len(b) + Len(p)
        /\ \A i \in 1..Len(b) : u[i] = b[i]
        /\ \A i \in 1..Len(p) : u[Len(b) + i] = p[i]
    BY ONLY <1>2, <1>4, <1>6
  <1>8. Len(n) \in Nat /\ Len(h) \in Nat
    OBVIOUS
  <1>9. /\ 1..Len(n) \subseteq 1..Len(b)
        /\ \A i \in 1..Len(h) : Len(n) + i \in 1..Len(b)
    BY <1>6, <1>8
  <1>10. LaidOut(u, n, h, p)
    BY <1>6, <1>7, <1>8, <1>9 DEF LaidOut
  <1> QED BY ONLY <1>5, <1>7, <1>10

\* substr takes n, h and p out of the string u.
TakenOut(u, n, h, p) ==
  /\ Len(n) + Len(h) <= Len(u)
  /\ Substr(u, 0, Len(n)) = n
  /\ Substr(u, Len(n), Len(h)) = h
  /\ Substr(u, Len(n) + Len(h), Len(u)) = p

\* The fields of a string are what substr takes out of it.
LEMMA FieldsOf ==
  ASSUME NEW X, NEW u \in Seq(X), NEW n \in Seq(X), NEW h \in Seq(X), NEW p \in Seq(X),
         Len(h) > 0, LaidOut(u, n, h, p)
  PROVE  TakenOut(u, n, h, p)
  <1>1. /\ Len(n) \in Nat /\ Len(h) \in Nat /\ Len(p) \in Nat /\ Len(u) \in Nat
        /\ Len(u) = Len(n) + Len(h) + Len(p)
    BY DEF LaidOut
  <1>2. Substr(u, 0, Len(n)) = n
    <2> DEFINE s == Substr(u, 0, Len(n))
    <2>1. 0 \in 0..Len(u) /\ 0 + Len(n) <= Len(u)
      BY <1>1
    <2>2. s \in Seq(X) /\ Len(s) = Len(n) /\ \A i \in 1..Len(s) : s[i] = u[0 + i]
      BY <1>1, <2>1, SubstrFacts
    <2> HIDE DEF s
    <2>3. \A i \in 1..Len(n) : s[i] = n[i]
      BY <2>2 DEF LaidOut
    <2>4. s = n
      BY <2>2, <2>3
    <2> QED BY <2>4 DEF s
  <1>3. Substr(u, Len(n), Len(h)) = h
    <2> DEFINE s == Substr(u, Len(n), Len(h))
    <2>1. Len(n) \in 0..Len(u) /\ Len(n) + Len(h) <= Len(u)
      BY <1>1
    <2>2. s \in Seq(X) /\ Len(s) = Len(h) /\ \A i \in 1..Len(s) : s[i] = u[Len(n) + i]
      BY <1>1, <2>1, SubstrFacts
    <2> HIDE DEF s
    <2>3. \A i \in 1..Len(h) : s[i] = h[i]
      BY <2>2 DEF LaidOut
    <2>4. s = h
      BY <2>2, <2>3
    <2> QED BY <2>4 DEF s
  <1>4. Substr(u, Len(n) + Len(h), Len(u)) = p
    <2> DEFINE pos == Len(n) + Len(h)
    <2> DEFINE s == Substr(u, pos, Len(u))
    <2>1. pos \in 0..Len(u) /\ ~(pos + Len(u) <= Len(u)) /\ Len(u) - pos = Len(p)
      BY <1>1
    <2> HIDE DEF pos
    <2>2. s \in Seq(X) /\ Len(s) = Len(p) /\ \A i \in 1..Len(s) : s[i] = u[pos + i]
      BY <1>1, <2>1, SubstrFacts
    <2> HIDE DEF s
    <2>3. \A i \in 1..Len(p) : s[i] = p[i]
      BY <2>2 DEF pos, LaidOut
    <2>4. s = p
      BY <2>2, <2>3
    <2> QED BY <2>4 DEF s, pos
  <1> QED BY <1>1, <1>2, <1>3, <1>4 DEF TakenOut

\* The three fields of a datagram.
LEMMA Fields ==
  ASSUME Typed, sent.kind # "close"
  PROVE  /\ Padded(sent.num, SenderDigits) \in Seq(Written(Content))
         /\ getHashFromString(Content) \in Seq(Written(Content))
         /\ Len(getHashFromString(Content)) = HashLen
         /\ sent.payload \in Seq(Written(Content))
         /\ Encode(sent) \in Seq(Written(Content))
         /\ LaidOut(Encode(sent), Padded(sent.num, SenderDigits),
                    getHashFromString(Content), sent.payload)
  <1> DEFINE X == Written(Content)
  <1> DEFINE n == Padded(sent.num, SenderDigits)
  <1> DEFINE h == getHashFromString(Content)
  <1> DEFINE p == sent.payload
  <1>1. /\ n \in Seq(Decimal) /\ p \in Seq(Text) /\ HashLen \in Nat \ {0}
        /\ sent.kind # "data" => p = <<>>
    BY MessageFacts
  <1>2. h \in Seq(X) /\ Len(h) = HashLen
    <2>1. \A i \in 1..HashLen : <<"md5", Content, i>> \in X
      BY DEF Written
    <2> HIDE DEF X
    <2> QED BY <1>1, <2>1 DEF getHashFromString
  <1>3. n \in Seq(X) /\ p \in Seq(X)
    <2>1. Decimal \subseteq X /\ Text \subseteq X
      BY DEF Written, Text
    <2> HIDE DEF X, n, p
    <2> QED BY <1>1, <2>1
  <1>4. Encode(sent) = (n \o h) \o p
    <2>1. CASE sent.kind = "data"
      BY <2>1 DEF Encode, generatePacketString, Content, SenderDigits
    <2>2. CASE sent.kind = "ack"
      <3>1. Encode(sent) = n \o h
        BY <2>2 DEF Encode, AckString, Content, SenderDigits
      <3>2. p = <<>>
        BY <1>1, <2>2
      <3> HIDE DEF n, h, p, X
      <3>3. n \o h \in Seq(X)
        BY <1>2, <1>3
      <3> QED BY <3>1, <3>2, <3>3
    <2> QED BY <2>1, <2>2, MessageFacts
  <1> HIDE DEF X, n, h, p
  <1>5. (n \o h) \o p \in Seq(X) /\ LaidOut((n \o h) \o p, n, h, p)
    BY <1>2, <1>3, Joined
  <1> QED BY <1>2, <1>3, <1>4, <1>5 DEF X, n, h, p

\* A symbol of a digest tells where it belongs and what the digest is of.
LEMMA DigestSymbol ==
  ASSUME Typed, OnTheWay, NEW i \in 1..Len(wire), NEW x, wire[i] = <<"md5", x, 1>>
  PROVE  x = Content /\ i = SenderDigits + 1
  <1>1. wire[i] \notin Text
    BY Symbols
  <1>2. wire[i] = <<"md5", Content, i - SenderDigits>>
    BY <1>1 DEF OnTheWay
  <1>3. x = Content /\ 1 = i - SenderDigits
    BY <1>2
  <1>4. SenderDigits \in Nat /\ i \in Int
    BY MessageFacts DEF OnTheWay
  <1> QED BY <1>3, <1>4

\* The size of the receive buffer.
LEMMA BufferSize ==
  ASSUME Typed
  PROVE  buffer_sz \in Nat /\ buffer_sz = packet_size + 1 + HashLen + seqnum_digits
  BY PacketAssumption DEF Typed, buffer_sz

\* An ACK that passes the check is one the server sent.
LEMMA AckPassed ==
  ASSUME Typed, OnTheWay, sent.kind = "ack", Terminated,
         checkPacketIntegrity(input_raw_packet, seqnum_digits, TRUE) = "good"
  PROVE  /\ extract_seq_num(input_raw_packet, seqnum_digits) = sent.num
         /\ server_digits = seqnum_digits
  <1> DEFINE X == Written(Content)
  <1> DEFINE raw == input_raw_packet
  <1>1. wire \in Seq(X) /\ Nul \in X /\ Len(wire) \in Nat
    BY Symbols DEF OnTheWay, Written
  <1> HIDE DEF X
  <1>2. /\ Buffer \in Seq(X) /\ Len(Buffer) = buffer_sz /\ buffer_sz \in Nat
        /\ \A i \in 1..buffer_sz : Buffer[i] = IF i <= Len(wire) THEN wire[i] ELSE Nul
    BY <1>1, BufferFacts, BufferSize
  <1>3. PICK r \in 1..Len(Buffer) : raw = SubSeq(Buffer, 1, r - 1)
    BY <1>2, CString
  <1>4. /\ raw \in Seq(X) /\ Len(raw) = r - 1
        /\ \A i \in 1..(r - 1) : raw[i] = Buffer[i]
    BY <1>2, <1>3
  <1> DEFINE number == Substr(raw, 0, seqnum_digits)
  <1>5. seqnum_digits \in Nat \ {0} /\ HashLen \in Nat \ {0}
    BY PacketAssumption DEF Typed
  <1> HIDE DEF raw
  <1>6. /\ seqnum_digits + HashLen <= Len(raw)
        /\ raw[seqnum_digits + 1] = <<"md5", number, 1>>
    <2>1. checkPacketIntegrity(raw, seqnum_digits, TRUE) = "good"
      BY DEF raw
    <2>2. Covered(raw, seqnum_digits, TRUE) = number
      BY DEF Covered
    <2> HIDE DEF number
    <2> QED BY <1>4, <1>5, <2>1, <2>2, Passed
  <1>7. Len(number) = seqnum_digits
    <2>1. 0 \in 0..Len(raw) /\ 0 + seqnum_digits <= Len(raw)
      BY <1>4, <1>5, <1>6
    <2> QED BY <1>4, <1>5, <2>1, SubstrFacts
  <1> HIDE DEF number
  <1>8. /\ seqnum_digits + 1 \in 1..Len(wire)
        /\ wire[seqnum_digits + 1] = <<"md5", number, 1>>
    <2>1. seqnum_digits + 1 \in 1..(r - 1) /\ seqnum_digits + 1 \in 1..buffer_sz
      BY <1>2, <1>3, <1>4, <1>5, <1>6
    <2>2. Buffer[seqnum_digits + 1] = <<"md5", number, 1>>
      BY <1>4, <1>6, <2>1
    <2>3. Nul # <<"md5", number, 1>>
      BY Symbols
    <2> DEFINE at == seqnum_digits + 1
    <2>4. at \in Nat \ {0} /\ at \in 1..buffer_sz
      BY <1>5, <2>1
    <2> HIDE DEF at
    <2>5. Buffer[at] = IF at <= Len(wire) THEN wire[at] ELSE Nul
      BY <1>2, <2>4
    <2>6. at <= Len(wire) /\ wire[at] = <<"md5", number, 1>>
      BY <2>2, <2>3, <2>5 DEF at
    <2> QED BY <1>1, <2>4, <2>6 DEF at
  <1>9. number = Content /\ seqnum_digits + 1 = SenderDigits + 1
    BY <1>8, DigestSymbol
  <1>10. /\ SenderDigits = server_digits /\ seqnum_digits = server_digits
         /\ number = Padded(sent.num, SenderDigits)
    <2>1. SenderDigits = server_digits /\ Content = Padded(sent.num, SenderDigits)
      BY DEF SenderDigits, Content
    <2>2. server_digits \in Nat
      BY DEF Typed
    <2> QED BY <1>5, <1>9, <2>1, <2>2
  <1>11. number \in Seq(Decimal) /\ Value(number)[seqnum_digits] = sent.num
    BY <1>10, MessageFacts
  <1>12. extract_seq_num(raw, seqnum_digits) = sent.num
    BY <1>5, <1>7, <1>11, ReadsDigits DEF number
  <1> QED BY <1>10, <1>12 DEF raw

\* An undamaged ACK of a server whose digits fit the buffer is read as it was sent.
LEMMA AckArrives ==
  ASSUME Typed, OnTheWay, sent.kind = "ack", damage = 0,
         server_digits <= seqnum_digits + packet_size
  PROVE  Terminated /\ input_raw_packet = wire /\ Len(wire) = server_digits + HashLen
  <1> DEFINE X == Written(Content)
  <1>1. wire \in Seq(X) /\ Nul \in X /\ Len(wire) \in Nat
    BY Symbols DEF OnTheWay, Written
  <1> HIDE DEF X
  <1>2. /\ Buffer \in Seq(X) /\ Len(Buffer) = buffer_sz /\ buffer_sz \in Nat
        /\ \A i \in 1..buffer_sz : Buffer[i] = IF i <= Len(wire) THEN wire[i] ELSE Nul
    BY <1>1, BufferFacts, BufferSize
  <1>3. /\ wire = Encode(sent) /\ SenderDigits = server_digits
        /\ HashLen \in Nat \ {0} /\ server_digits \in Nat \ {0}
        /\ seqnum_digits \in Nat /\ packet_size \in Nat
    BY PacketAssumption DEF Typed, OnTheWay, SenderDigits
  <1>4. /\ Len(wire) = server_digits + HashLen
        /\ \A i \in 1..server_digits : wire[i] = Padded(sent.num, SenderDigits)[i]
        /\ \A i \in 1..HashLen : wire[server_digits + i] = <<"md5", Content, i>>
    <2> DEFINE n == Padded(sent.num, SenderDigits)
    <2> DEFINE h == getHashFromString(Content)
    <2> DEFINE p == sent.payload
    <2>1. LaidOut(wire, n, h, p) /\ Len(h) = HashLen /\ Len(n) = server_digits /\ p = <<>>
      BY <1>3, Fields, MessageFacts
    <2>2. \A i \in 1..HashLen : h[i] = <<"md5", Content, i>>
      BY DEF getHashFromString
    <2> HIDE DEF n, h, p
    <2>3. Len(p) = 0
      BY <2>1
    <2>4. Len(wire) = server_digits + HashLen + Len(p)
      BY <2>1 DEF LaidOut
    <2>5. \A i \in 1..server_digits : wire[i] = n[i]
      BY <2>1 DEF LaidOut
    <2>6. \A i \in 1..HashLen : wire[server_digits + i] = h[i]
      BY <2>1 DEF LaidOut
    <2>7. \A i \in 1..HashLen : wire[server_digits + i] = <<"md5", Content, i>>
      BY <2>2, <2>6
    <2>8. Len(wire) = server_digits + HashLen
      BY <1>3, <2>3, <2>4
    <2> QED BY <2>5, <2>7, <2>8 DEF n
  <1>5. \A i \in 1..Len(wire) : wire[i] # Nul
    <2> SUFFICES ASSUME NEW i \in 1..Len(wire) PROVE wire[i] # Nul
      OBVIOUS
    <2>1. CASE i <= server_digits
      <3>1. i \in 1..server_digits
        BY <1>3, <1>4, <2>1
      <3>2. /\ Padded(sent.num, SenderDigits) \in Seq(Decimal)
            /\ Len(Padded(sent.num, SenderDigits)) = server_digits
        BY <1>3, MessageFacts
      <3>3. Padded(sent.num, SenderDigits)[i] \in Decimal
        BY <3>1, <3>2
      <3> QED BY <1>4, <3>1, <3>3, Symbols
    <2>2. CASE i > server_digits
      <3>1. i - server_digits \in 1..HashLen /\ server_digits + (i - server_digits) = i
        BY <1>3, <1>4, <2>2
      <3>2. wire[i] = <<"md5", Content, i - server_digits>>
        BY <1>4, <3>1
      <3> QED BY <3>2, Symbols
    <2> QED BY <1>3, <1>4, <2>1, <2>2
  <1>6. Len(wire) + 1 \in 1..buffer_sz
    BY <1>1, <1>3, <1>4, BufferSize
  <1>7. Buffer[Len(wire) + 1] = Nul
    BY <1>1, <1>2, <1>6
  <1>8. Terminated
    BY <1>2, <1>6, <1>7, CString
  <1>9. PICK r \in 1..Len(Buffer) :
          /\ Buffer[r] = Nul /\ \A i \in 1..(r - 1) : Buffer[i] # Nul
          /\ input_raw_packet = SubSeq(Buffer, 1, r - 1)
    BY <1>2, <1>8, CString
  <1>10. r = Len(wire) + 1
    <2>1. ~(r <= Len(wire))
      BY <1>2, <1>5, <1>9
    <2>2. ~(Len(wire) + 1 < r)
      BY <1>1, <1>2, <1>6, <1>7, <1>9
    <2> QED BY <1>1, <1>2, <2>1, <2>2
  <1>11. SubSeq(Buffer, 1, r - 1) = wire
    <2> DEFINE raw == SubSeq(Buffer, 1, r - 1)
    <2>1. raw \in Seq(X) /\ Len(raw) = Len(wire)
          /\ \A i \in 1..Len(wire) : raw[i] = Buffer[i]
      BY <1>1, <1>2, <1>6, <1>10
    <2>2. \A i \in 1..Len(wire) : raw[i] = wire[i]
      BY <1>1, <1>2, <1>6, <2>1
    <2> HIDE DEF raw
    <2>3. raw = wire
      BY <1>1, <2>1, <2>2
    <2> QED BY <2>3 DEF raw
  <1> QED BY <1>4, <1>8, <1>9, <1>11

\* A data packet that passes the server's check has the payload that was sent.
LEMMA DataPassed ==
  ASSUME Typed, OnTheWay, sent.kind = "data",
         checkPacketIntegrity(wire, server_digits, FALSE) = "good"
  PROVE  Substr(wire, server_digits + HashLen, Len(wire)) = sent.payload
  <1> DEFINE X == Written(Content)
  <1> DEFINE payload == Substr(wire, server_digits + HashLen, Len(wire))
  <1>1. /\ wire \in Seq(X) /\ Len(wire) \in Nat
        /\ server_digits \in Nat \ {0} /\ HashLen \in Nat \ {0}
    BY PacketAssumption DEF OnTheWay, Typed
  <1> HIDE DEF X
  <1>2. Covered(wire, server_digits, FALSE) = payload
    BY DEF Covered
  <1> HIDE DEF payload
  <1>3. /\ server_digits + HashLen <= Len(wire)
        /\ wire[server_digits + 1] = <<"md5", payload, 1>>
    BY <1>1, <1>2, Passed
  <1>4. server_digits + 1 \in 1..Len(wire)
    BY <1>1, <1>3
  <1>5. payload = Content
    BY <1>3, <1>4, DigestSymbol
  <1> QED BY <1>5 DEF payload, Content

\* An undamaged data packet passes the check of a server with the same digits,
\* and has the number it was sent with.
LEMMA DataArrives ==
  ASSUME Typed, OnTheWay, sent.kind = "data", damage = 0, server_digits = seqnum_digits
  PROVE  /\ checkPacketIntegrity(wire, server_digits, FALSE) = "good"
         /\ extract_seq_num(wire, server_digits) = sent.num
  <1> DEFINE X == Written(Content)
  <1> DEFINE n == Padded(sent.num, SenderDigits)
  <1> DEFINE h == getHashFromString(Content)
  <1> DEFINE p == sent.payload
  <1>1. /\ wire \in Seq(X) /\ wire = Encode(sent)
        /\ server_digits \in Nat /\ HashLen \in Nat \ {0}
        /\ SenderDigits = server_digits /\ Content = p
    BY PacketAssumption DEF OnTheWay, Typed, SenderDigits, Content
  <1>2. /\ n \in Seq(Decimal) /\ Len(n) = server_digits
        /\ Value(n)[server_digits] = sent.num
    BY <1>1, MessageFacts
  <1>3. /\ n \in Seq(X) /\ h \in Seq(X) /\ p \in Seq(X) /\ Len(h) = HashLen
        /\ LaidOut(wire, n, h, p)
    BY <1>1, Fields
  <1>4. h = getHashFromString(p)
    BY <1>1
  <1> HIDE DEF X, n, h, p
  <1>5. Len(h) > 0
    BY <1>1, <1>3
  <1>6. /\ Len(n) + Len(h) <= Len(wire)
        /\ Substr(wire, 0, Len(n)) = n
        /\ Substr(wire, Len(n), Len(h)) = h
        /\ Substr(wire, Len(n) + Len(h), Len(wire)) = p
    <2>1. wire \in Seq(X)
      BY <1>1
    <2>2. TakenOut(wire, n, h, p)
      BY ONLY <1>3, <1>5, <2>1, FieldsOf
    <2> QED BY <2>2 DEF TakenOut
  <1>7. Covered(wire, server_digits, FALSE) = p
    BY <1>2, <1>3, <1>6 DEF Covered
  <1>8. checkPacketIntegrity(wire, server_digits, FALSE) = "good"
    <2>1. /\ Len(wire) \in Nat /\ server_digits \in Nat
          /\ server_digits + HashLen <= Len(wire)
      BY <1>1, <1>2, <1>3, <1>6
    <2>2. Substr(wire, server_digits, HashLen)
            = getHashFromString(Covered(wire, server_digits, FALSE))
      BY <1>2, <1>3, <1>4, <1>6, <1>7
    <2> QED BY <2>1, <2>2, Passes
  <1>9. extract_seq_num(wire, server_digits) = sent.num
    BY <1>1, <1>2, <1>6, ReadsDigits
  <1> QED BY <1>8, <1>9

\* An undamaged ACK passes the check of a client with the same digits.
LEMMA AckPasses ==
  ASSUME Typed, OnTheWay, sent.kind = "ack", damage = 0, server_digits = seqnum_digits
  PROVE  checkPacketIntegrity(wire, seqnum_digits, TRUE) = "good"
  <1> DEFINE X == Written(Content)
  <1> DEFINE n == Padded(sent.num, SenderDigits)
  <1> DEFINE h == getHashFromString(Content)
  <1> DEFINE p == sent.payload
  <1>1. /\ wire \in Seq(X) /\ wire = Encode(sent)
        /\ seqnum_digits \in Nat /\ HashLen \in Nat \ {0}
        /\ SenderDigits = seqnum_digits /\ Content = n
    BY PacketAssumption DEF OnTheWay, Typed, SenderDigits, Content
  <1>2. Len(n) = seqnum_digits
    BY <1>1, MessageFacts
  <1>3. /\ n \in Seq(X) /\ h \in Seq(X) /\ p \in Seq(X) /\ Len(h) = HashLen
        /\ LaidOut(wire, n, h, p)
    BY <1>1, Fields
  <1>4. h = getHashFromString(n)
    BY <1>1
  <1> HIDE DEF X, n, h, p
  <1>5. Len(h) > 0
    BY <1>1, <1>3
  <1>6. /\ Len(n) + Len(h) <= Len(wire)
        /\ Substr(wire, 0, Len(n)) = n
        /\ Substr(wire, Len(n), Len(h)) = h
    <2>1. wire \in Seq(X)
      BY <1>1
    <2>2. TakenOut(wire, n, h, p)
      BY ONLY <1>3, <1>5, <2>1, FieldsOf
    <2> QED BY <2>2 DEF TakenOut
  <1>7. Covered(wire, seqnum_digits, TRUE) = n
    BY <1>2, <1>6 DEF Covered
  <1>8. Len(wire) \in Nat /\ seqnum_digits \in Nat /\ seqnum_digits + HashLen <= Len(wire)
    BY <1>1, <1>2, <1>3, <1>6
  <1>9. Substr(wire, seqnum_digits, HashLen)
          = getHashFromString(Covered(wire, seqnum_digits, TRUE))
    BY <1>2, <1>3, <1>4, <1>6, <1>7
  <1> QED BY <1>8, <1>9, Passes

-----------------------------------------------------------------------------
(* The invariant.                                                          *)

\* A datagram starts as its sender wrote it.
LEMMA PacketInit ==
  ASSUME Init
  PROVE  PacketInv
  <1>1. Typed
    BY PacketAssumption DEF Init, Typed, SenderDigits
  <1>2. OnTheWay
    <2>1. wire = Encode(sent)
      BY DEF Init
    <2>2. CASE sent.kind = "close"
      <3>1. wire = <<>>
        BY <2>1, <2>2 DEF Encode
      <3> QED BY <2>1, <3>1 DEF OnTheWay
    <2>3. CASE sent.kind # "close"
      <3> DEFINE n == Padded(sent.num, SenderDigits)
      <3> DEFINE h == getHashFromString(Content)
      <3> DEFINE p == sent.payload
      <3>1. LaidOut(wire, n, h, p) /\ wire \in Seq(Written(Content)) /\ Len(h) = HashLen
        BY <1>1, <2>1, <2>3, Fields
      <3>2. /\ SenderDigits \in Nat /\ HashLen \in Nat /\ p \in Seq(Text)
            /\ n \in Seq(Decimal) /\ Len(n) = SenderDigits
        BY <1>1, MessageFacts
      <3>3. \A i \in 1..HashLen : h[i] = <<"md5", Content, i>>
        BY DEF getHashFromString
      <3> HIDE DEF n, h, p
      <3>4. /\ \A i \in 1..SenderDigits : wire[i] = n[i]
            /\ \A i \in 1..HashLen : wire[SenderDigits + i] = h[i]
            /\ \A i \in 1..Len(p) : wire[SenderDigits + HashLen + i] = p[i]
        BY <3>1, <3>2 DEF LaidOut
      <3>5. /\ Len(wire) = SenderDigits + HashLen + Len(p)
            /\ Len(wire) \in Nat /\ Len(p) \in Nat
        <4>1. Len(p) \in Nat
          BY <3>2
        <4>2. Len(wire) = SenderDigits + HashLen + Len(p)
          BY <3>1, <3>2 DEF LaidOut
        <4> QED BY <3>2, <4>1, <4>2
      <3>6. ASSUME NEW i \in 1..Len(wire)
            PROVE  wire[i] \in Text \/ wire[i] = <<"md5", Content, i - SenderDigits>>
        <4>1. CASE i <= SenderDigits
          <5>1. i \in 1..SenderDigits
            BY <3>2, <3>5, <4>1
          <5>2. wire[i] = n[i]
            BY <3>4, <5>1
          <5>3. wire[i] \in Decimal
            BY <3>2, <5>1, <5>2
          <5> QED BY <5>3, Symbols
        <4>2. CASE SenderDigits < i /\ i <= SenderDigits + HashLen
          <5> DEFINE j == i - SenderDigits
          <5>1. j \in 1..HashLen /\ SenderDigits + j = i
            BY <3>2, <4>2
          <5> HIDE DEF j
          <5>2. wire[SenderDigits + j] = <<"md5", Content, j>>
            BY <3>4, <3>3, <5>1
          <5> QED BY <5>1, <5>2 DEF j
        <4>3. CASE SenderDigits + HashLen < i
          <5> DEFINE j == i - (SenderDigits + HashLen)
          <5>1. j \in 1..Len(p) /\ SenderDigits + HashLen + j = i
            <6>1. i \in Int /\ i <= Len(wire)
              BY <3>5
            <6> QED BY <3>2, <3>5, <4>3, <6>1
          <5> HIDE DEF j
          <5>2. wire[SenderDigits + HashLen + j] = p[j]
            BY <3>4, <5>1
          <5>3. p[j] \in Text
            BY <3>2, <5>1
          <5> QED BY <5>1, <5>2, <5>3
        <4>4. i \in Int /\ SenderDigits \in Int /\ HashLen \in Int
          BY <3>2
        <4> QED BY <4>1, <4>2, <4>3, <4>4
      <3> QED BY <2>1, <2>3, <3>1, <3>6 DEF OnTheWay
    <2> QED BY <2>2, <2>3
  <1>3. outcome.what = "pending"
    BY DEF Init, NoResult, Result
  <1>4. RoundTrip /\ AcceptedIsGenuine /\ ServerIsHarmless
    BY <1>3 DEF RoundTrip, Received, AcceptedIsGenuine, ServerIsHarmless
  <1> QED BY <1>1, <1>2, <1>4 DEF PacketInv

\* Damage puts text in the place of a symbol, or shortens the datagram.
LEMMA DamageStep ==
  ASSUME PacketInv, Damage
  PROVE  PacketInv'
  <1>1. /\ UNCHANGED <<seqnum_digits, server_digits, sent, outcome>>
        /\ outcome.what = "pending"
    BY DEF Damage
  <1>2. Typed' /\ SenderDigits' = SenderDigits /\ Content' = Content
    BY <1>1 DEF PacketInv, Typed, SenderDigits, Content, Damage
  <1>3. OnTheWay'
    <2> DEFINE X == Written(Content)
    <2>1. /\ wire \in Seq(X)
          /\ \A i \in 1..Len(wire) :
               wire[i] \in Text \/ wire[i] = <<"md5", Content, i - SenderDigits>>
      BY DEF PacketInv, OnTheWay
    <2>2. Text \subseteq X
      BY DEF Written
    <2>3. damage' # 0 /\ damage \in Nat
      BY DEF Damage, PacketInv, Typed
    <2>4. CASE \E i \in 1..Len(wire), c \in Noise : wire' = [wire EXCEPT ![i] = c]
      <3>1. PICK i \in 1..Len(wire), c \in Noise : wire' = [wire EXCEPT ![i] = c]
        BY <2>4
      <3>2. c \in Text
        BY PacketAssumption
      <3>3. wire' \in Seq(X) /\ Len(wire') = Len(wire)
        BY <2>1, <2>2, <3>1, <3>2
      <3>4. ASSUME NEW k \in 1..Len(wire)
            PROVE  wire'[k] \in Text \/ wire'[k] = <<"md5", Content, k - SenderDigits>>
        <4>1. CASE k = i
          BY <2>1, <3>1, <3>2, <4>1
        <4>2. CASE k # i
          <5>1. wire'[k] = wire[k]
            BY <2>1, <3>1, <4>2
          <5> QED BY <2>1, <5>1
        <4> QED BY <4>1, <4>2
      <3>5. sent.kind # "close"
        BY <3>1 DEF PacketInv, OnTheWay
      <3> QED BY <1>1, <1>2, <2>3, <3>3, <3>4, <3>5 DEF OnTheWay
    <2>5. CASE \E n \in 0..(Len(wire) - 1) : wire' = SubSeq(wire, 1, n)
      <3>1. PICK n \in 0..(Len(wire) - 1) : wire' = SubSeq(wire, 1, n)
        BY <2>5
      <3> HIDE DEF X
      <3>2. /\ wire' \in Seq(X) /\ Len(wire') = n /\ n < Len(wire)
            /\ \A k \in 1..n : wire'[k] = wire[k]
        BY <2>1, <3>1
      <3>3. ASSUME NEW k \in 1..Len(wire')
            PROVE  wire'[k] \in Text \/ wire'[k] = <<"md5", Content, k - SenderDigits>>
        <4>1. wire'[k] = wire[k] /\ k \in 1..Len(wire)
          BY <2>1, <3>2
        <4> QED BY <2>1, <4>1
      <3>4. sent.kind # "close"
        BY <3>2 DEF PacketInv, OnTheWay
      <3> QED BY <1>1, <1>2, <2>3, <3>2, <3>3, <3>4 DEF OnTheWay, X
    <2> QED BY <2>4, <2>5 DEF Damage
  <1>4. (RoundTrip /\ AcceptedIsGenuine /\ ServerIsHarmless)'
    BY <1>1 DEF RoundTrip, Received, AcceptedIsGenuine, ServerIsHarmless
  <1> QED BY <1>2, <1>3, <1>4 DEF PacketInv

\* What the check can say.
LEMMA CheckResults ==
  ASSUME NEW raw, NEW digits, NEW checkACK \in BOOLEAN
  PROVE  /\ checkPacketIntegrity(raw, digits, checkACK) \in {"good", "bad", "throw"}
         /\ checkACK /\ ~(digits > Len(raw)) =>
              checkPacketIntegrity(raw, digits, checkACK) # "throw"
  BY DEF checkPacketIntegrity

\* Receiving leaves the datagram as it was.
LEMMA DatagramKept ==
  ASSUME Typed, OnTheWay, UNCHANGED <<seqnum_digits, server_digits, sent, wire, damage>>
  PROVE  Typed' /\ OnTheWay'
  <1>1. SenderDigits' = SenderDigits /\ Content' = Content /\ Encode(sent)' = Encode(sent)
    BY DEF SenderDigits, Content, Encode
  <1> QED BY <1>1 DEF Typed, OnTheWay

\* Receiving at the client: an ACK, damaged or not, or the closing datagram.
LEMMA ClientStep ==
  ASSUME PacketInv, ClientReceives
  PROVE  PacketInv'
  <1> DEFINE raw == input_raw_packet
  <1> DEFINE check == checkPacketIntegrity(raw, seqnum_digits, TRUE)
  <1> DEFINE num == extract_seq_num(raw, seqnum_digits)
  <1>1. /\ UNCHANGED <<seqnum_digits, server_digits, sent, wire, damage>>
        /\ sent.kind # "data" /\ Typed /\ OnTheWay
    BY DEF ClientReceives, PacketInv
  <1>2. Typed' /\ OnTheWay'
    BY <1>1, DatagramKept
  <1>3. outcome' = IF Len(wire) = 0 THEN NoResult("left")
                   ELSE IF ~Terminated THEN NoResult("overread")
                   ELSE IF check = "good" THEN Result("good", num, <<>>)
                   ELSE NoResult(check)
    BY DEF ClientReceives, LeavesLoop
  <1>4. \A what, n, p : Result(what, n, p).what = what /\ NoResult(what).what = what
    BY DEF Result, NoResult
  <1>5. /\ check \in {"good", "bad", "throw"}
        /\ ~(seqnum_digits > Len(raw)) => check # "throw"
    BY CheckResults
  <1>6. sent.payload = <<>> /\ sent.kind \in {"ack", "close"}
    BY <1>1, MessageFacts
  <1>7. ASSUME sent.kind = "ack", Terminated, check = "good"
        PROVE  num = sent.num /\ server_digits = seqnum_digits
    BY <1>1, <1>7, AckPassed
  <1>8. ASSUME sent.kind = "ack", damage = 0,
               server_digits \in (seqnum_digits - HashLen)..(seqnum_digits + packet_size)
        PROVE  Terminated /\ raw = wire /\ Len(wire) > 0 /\ ~(seqnum_digits > Len(raw))
    <2>1. /\ seqnum_digits \in Nat /\ server_digits \in Nat \ {0}
          /\ HashLen \in Nat /\ packet_size \in Nat
      BY <1>1, PacketAssumption DEF Typed
    <2>2. /\ server_digits <= seqnum_digits + packet_size
          /\ seqnum_digits <= server_digits + HashLen
      BY <1>8, <2>1
    <2>3. Terminated /\ raw = wire /\ Len(wire) = server_digits + HashLen
      BY <1>1, <1>8, <2>2, AckArrives
    <2> HIDE DEF raw
    <2> QED BY <2>1, <2>2, <2>3
  <1>9. ASSUME Intact, sent.kind = "ack"
        PROVE  Terminated /\ Len(wire) > 0 /\ check = "good"
    <2>1. damage = 0 /\ server_digits = seqnum_digits
      BY <1>9 DEF Intact
    <2>2. server_digits \in (seqnum_digits - HashLen)..(seqnum_digits + packet_size)
      BY <1>1, <2>1, PacketAssumption DEF Typed
    <2>3. checkPacketIntegrity(wire, seqnum_digits, TRUE) = "good"
      BY <1>1, <1>9, <2>1, AckPasses
    <2> QED BY <1>8, <1>9, <2>1, <2>2, <2>3
  <1>10. sent.kind = "close" => Len(wire) = 0
    BY <1>1 DEF OnTheWay
  <1> HIDE DEF raw, check, num
  <1>11. RoundTrip'
    <2> SUFFICES ASSUME Intact, sent.kind # "close"
                 PROVE  outcome' = Result("good", sent.num, sent.payload)
      BY <1>1 DEF RoundTrip, Intact, Received
    <2> QED BY <1>3, <1>6, <1>7, <1>9
  <1>12. AcceptedIsGenuine'
    <2> SUFFICES ASSUME outcome'.what = "good"
                 PROVE  IF sent.kind = "ack"
                        THEN outcome'.num = sent.num /\ server_digits = seqnum_digits
                        ELSE outcome'.payload = sent.payload
      BY <1>1 DEF AcceptedIsGenuine
    <2>1. Terminated /\ check = "good" /\ outcome' = Result("good", num, <<>>)
      BY <1>3, <1>4
    <2>2. outcome'.num = num /\ outcome'.payload = <<>>
      BY <2>1 DEF Result
    <2> QED BY <1>6, <1>7, <2>1, <2>2
  <1>13. ServerIsHarmless'
    <2> SUFFICES ASSUME damage = 0,
                        server_digits \in
                          (seqnum_digits - HashLen)..(seqnum_digits + packet_size)
                 PROVE  outcome'.what \notin {"throw", "overread"}
      BY <1>1 DEF ServerIsHarmless
    <2>1. CASE sent.kind = "close"
      BY <1>3, <1>4, <1>10, <2>1
    <2>2. CASE sent.kind = "ack"
      <3>1. Terminated /\ check \in {"good", "bad"}
        BY <1>5, <1>8, <2>2
      <3> QED BY <1>3, <1>4, <3>1
    <2> QED BY <1>6, <2>1, <2>2
  <1> QED BY <1>2, <1>11, <1>12, <1>13 DEF PacketInv

\* Receiving at the server: a data packet.
LEMMA ServerStep ==
  ASSUME PacketInv, ServerReceives
  PROVE  PacketInv'
  <1> DEFINE check == checkPacketIntegrity(wire, server_digits, FALSE)
  <1> DEFINE num == extract_seq_num(wire, server_digits)
  <1> DEFINE payload == Substr(wire, server_digits + HashLen, Len(wire))
  <1>1. /\ UNCHANGED <<seqnum_digits, server_digits, sent, wire, damage>>
        /\ sent.kind = "data" /\ Typed /\ OnTheWay
    BY DEF ServerReceives, PacketInv
  <1>2. Typed' /\ OnTheWay'
    BY <1>1, DatagramKept
  <1>3. outcome' = IF check = "good" THEN Result("good", num, payload)
                   ELSE NoResult(check)
    BY DEF ServerReceives
  <1>4. check = "good" => payload = sent.payload
    BY <1>1, DataPassed
  <1>5. Intact => check = "good" /\ num = sent.num
    BY <1>1, DataArrives DEF Intact
  <1> HIDE DEF check, num, payload
  <1>6. RoundTrip'
    BY <1>1, <1>3, <1>4, <1>5 DEF RoundTrip, Intact
  <1>7. AcceptedIsGenuine'
    BY <1>1, <1>3, <1>4 DEF AcceptedIsGenuine, Result, NoResult
  <1>8. ServerIsHarmless'
    BY <1>1 DEF ServerIsHarmless
  <1> QED BY <1>2, <1>6, <1>7, <1>8 DEF PacketInv

\* Every step preserves the invariant.
LEMMA PacketStep ==
  ASSUME PacketInv, [Next]_vars
  PROVE  PacketInv'
  <1>1. CASE UNCHANGED vars
    <2>1. UNCHANGED <<seqnum_digits, server_digits, sent, wire, damage, outcome>>
      BY <1>1 DEF vars
    <2>2. Typed' /\ OnTheWay'
      BY <2>1, DatagramKept DEF PacketInv
    <2>3. (RoundTrip /\ AcceptedIsGenuine /\ ServerIsHarmless)'
      BY <2>1 DEF PacketInv, RoundTrip, Intact, Received, AcceptedIsGenuine,
           ServerIsHarmless
    <2> QED BY <2>2, <2>3 DEF PacketInv
  <1> QED BY <1>1, DamageStep, ClientStep, ServerStep DEF Next

\* The invariant holds of every datagram.
LEMMA PacketInvariant == Spec => []PacketInv
  <1>1. Init => PacketInv
    BY PacketInit
  <1>2. PacketInv /\ [Next]_vars => PacketInv'
    BY PacketStep
  <1> QED BY <1>1, <1>2, PTL DEF Spec

\* What generatePacketString and the server write, an end with the same number of
\* digits checks, takes apart and reads as it was sent: every number that fits the
\* digits, with its leading zeros, and every payload.
THEOREM DatagramsUnderstood == Spec => []RoundTrip
  <1>1. PacketInv => RoundTrip
    BY DEF PacketInv
  <1> QED BY <1>1, PacketInvariant, PTL

\* checkPacketIntegrity lets through only what was sent, however a datagram was altered
\* or cut on the way and however many digits the other end uses.
THEOREM AcceptsOnlyGenuine == Spec => []AcceptedIsGenuine
  <1>1. PacketInv => AcceptedIsGenuine
    BY DEF PacketInv
  <1> QED BY <1>1, PacketInvariant, PTL

\* An undamaged datagram of the server neither makes checkPacketIntegrity throw in the
\* receiver thread nor overruns its buffer.
THEOREM ServerDoesNotStopReceiver == Spec => []ServerIsHarmless
  <1>1. PacketInv => ServerIsHarmless
    BY DEF PacketInv
  <1> QED BY <1>1, PacketInvariant, PTL
=============================================================================
