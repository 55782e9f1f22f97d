------------------------ MODULE NumberFormatProofs -------------------------
(***************************************************************************)
(* What is printed reads back as the argument, for words of any width and  *)
(* buffers, formats and chains of any length, and a format serves the next *)
(* argument only.  The loops of the conversion are recursive functions;    *)
(* induction over them goes by sets of numbers, as the provers know no     *)
(* induction over operators.                                               *)
(***************************************************************************)
EXTENDS NumberFormat, SequenceTheorems, WellFoundedInduction, TLAPS

(* Induction and recursion. *)

\* A set of numbers that has 0 and with each number the next has them all.
LEMMA SetInduction ==
  ASSUME NEW S, 0 \in S, \A n \in Nat : n \in S => n + 1 \in S
  PROVE  Nat \subseteq S
<1> SUFFICES ASSUME Nat \ S # {} PROVE FALSE
  OBVIOUS
<1> DEFINE less == OpToRel(<, Nat)
<1>1. \A i, j \in Nat : j < i => <<j, i>> \in less
  BY DEF OpToRel
<1>2. IsWellFoundedOn(less, Nat)
  BY NatLessThanWellFounded
<1> HIDE DEF less
<1>3. PICK i \in Nat \ S : \A j \in Nat \ S : ~ (<<j, i>> \in less)
  BY <1>2, WFMin
<1>4. i # 0 /\ i \in Nat
  OBVIOUS
<1>5. i - 1 \in Nat /\ i - 1 < i /\ (i - 1) + 1 = i
  BY ONLY <1>4
<1>6. i - 1 \in S
  BY <1>1, <1>3, <1>4, <1>5
<1>7. i \in S
  BY <1>5, <1>6
<1> QED
  BY <1>3, <1>7

\* f counts the steps taken from base.
Iterates(f, S, base, step) ==
  f \in [Nat -> S] /\ f[0] = base /\ \A k \in Nat : f[k + 1] = step[f[k]]

\* Whoever can take one step from each element can take any number of them.
LEMMA Iteration ==
  ASSUME NEW S, NEW base \in S, NEW step \in [S -> S]
  PROVE  \E f : Iterates(f, S, base, step)
<1> DEFINE Good(n, g) == /\ g \in [0 .. n -> S] /\ g[0] = base
                         /\ \A k \in 0 .. n - 1 : g[k + 1] = step[g[k]]
           Known == {n \in Nat : \E g : Good(n, g)}
<1>1. Nat \subseteq Known
  <2>1. 0 \in Known
    <3>1. Good(0, [i \in 0 .. 0 |-> base])
      OBVIOUS
    <3> QED
      BY <3>1
  <2>2. ASSUME NEW n \in Nat, n \in Known
        PROVE  n + 1 \in Known
    <3>1. PICK g : Good(n, g)
      BY <2>2
    <3> DEFINE h == [i \in 0 .. n + 1 |-> IF i = n + 1 THEN step[g[n]] ELSE g[i]]
    <3>2. h \in [0 .. n + 1 -> S] /\ h[0] = base
      BY <3>1
    <3>3. ASSUME NEW k \in 0 .. n
          PROVE  h[k + 1] = step[h[k]]
      <4>1. CASE k = n
        BY <4>1
      <4>2. CASE k # n
        <5>1. k \in 0 .. n - 1 /\ k + 1 \in 0 .. n + 1 /\ k + 1 # n + 1 /\ k \in 0 .. n + 1
              /\ k # n + 1
          BY <4>2
        <5> QED
          BY <3>1, <5>1
      <4> QED
        BY <4>1, <4>2
    <3> HIDE DEF h
    <3>4. Good(n + 1, h)
      BY <3>2, <3>3
    <3> QED
      BY <3>4
  <2> HIDE DEF Known
  <2> QED
    BY ONLY <2>1, <2>2, SetInduction
<1>2. ASSUME NEW n \in Nat, NEW m \in Nat, NEW g, NEW h, Good(n, g), Good(m, h), n <= m
      PROVE  g[n] = h[n]
  <2> DEFINE Same == {k \in Nat : k <= n => g[k] = h[k]}
  <2>1. 0 \in Same
    BY <1>2
  <2>2. ASSUME NEW k \in Nat, k \in Same
        PROVE  k + 1 \in Same
    <3> SUFFICES ASSUME k + 1 <= n PROVE g[k + 1] = h[k + 1]
      OBVIOUS
    <3>1. k \in 0 .. n - 1 /\ k \in 0 .. m - 1 /\ k <= n
      BY <1>2
    <3>2. g[k + 1] = step[g[k]] /\ h[k + 1] = step[h[k]]
      BY <1>2, <3>1
    <3> QED
      BY <2>2, <3>1, <3>2
  <2>3. n \in Same
    <3> HIDE DEF Same
    <3> QED
      BY <2>1, <2>2, SetInduction
  <2> QED
    BY <2>3
<1> DEFINE part(n) == CHOOSE g : Good(n, g)
           f == [n \in Nat |-> part(n)[n]]
<1>3. \A n \in Nat : Good(n, part(n))
  BY <1>1
<1>4. f \in [Nat -> S] /\ f[0] = base
  <2> SUFFICES ASSUME NEW n \in Nat PROVE part(n)[n] \in S /\ part(0)[0] = base
    OBVIOUS
  <2>1. n \in 0 .. n
    OBVIOUS
  <2> QED
    BY <1>3, <2>1
<1>5. ASSUME NEW k \in Nat
      PROVE  f[k + 1] = step[f[k]]
  <2>1. k + 1 \in Nat /\ k \in 0 .. (k + 1) - 1 /\ k <= k + 1
    OBVIOUS
  <2>2. part(k + 1)[k + 1] = step[part(k + 1)[k]]
    BY <1>3, <2>1
  <2> HIDE DEF Good, part
  <2>3. part(k)[k] = part(k + 1)[k]
    BY <1>2, <1>3, <2>1
  <2> QED
    BY <2>1, <2>2, <2>3
<1> HIDE DEF f
<1> QED
  BY <1>4, <1>5 DEF Iterates

-----------------------------------------------------------------------------
(* Powers, and division by the base. *)

\* The powers are those of the recursion.
LEMMA PowerFacts ==
  ASSUME NEW b \in Nat
  PROVE  /\ Power(b, 0) = 1
         /\ \A k \in Nat : Power(b, k + 1) = b * Power(b, k) /\ Power(b, k) \in Nat
<1> DEFINE Recursive(p) == p = [i \in Nat |-> IF i = 0 THEN 1 ELSE b * p[i - 1]]
           q == CHOOSE p : Recursive(p)
<1>1. \A k : Power(b, k) = q[k]
  BY DEF Power
<1>2. Recursive(q)
  <2> DEFINE step == [n \in Nat |-> b * n]
  <2>1. 1 \in Nat /\ step \in [Nat -> Nat]
    OBVIOUS
  <2>2. PICK f : f \in [Nat -> Nat] /\ f[0] = 1 /\ \A k \in Nat : f[k + 1] = step[f[k]]
    <3> HIDE DEF step
    <3>1. \E f : Iterates(f, Nat, 1, step)
      BY <2>1, Iteration
    <3> QED
      BY <3>1 DEF Iterates
  <2>3. ASSUME NEW i \in Nat
        PROVE  f[i] = IF i = 0 THEN 1 ELSE b * f[i - 1]
    <3>1. CASE i # 0
      <4>1. i - 1 \in Nat /\ (i - 1) + 1 = i
        BY <3>1
      <4>2. f[i] = step[f[i - 1]]
        <5> HIDE DEF step
        <5> QED
          BY <2>2, <4>1
      <4>3. f[i - 1] \in Nat
        BY <2>2, <4>1
      <4> QED
        BY <3>1, <4>2, <4>3
    <3> QED
      BY <2>2, <3>1
  <2>4. Recursive(f)
    BY <2>2, <2>3
  <2> HIDE DEF Recursive
  <2> QED
    BY <2>4
<1> HIDE DEF q
<1>3. q[0] = 1 /\ \A k \in Nat : q[k + 1] = b * q[k]
  <2>1. \A k \in Nat : k + 1 \in Nat /\ k + 1 # 0 /\ (k + 1) - 1 = k
    OBVIOUS
  <2> QED
    BY <1>2, <2>1
<1>4. \A k \in Nat : q[k] \in Nat
  <2> DEFINE Known == {k \in Nat : q[k] \in Nat}
  <2>1. 0 \in Known
    BY <1>3
  <2>2. \A n \in Nat : n \in Known => n + 1 \in Known
    BY <1>3
  <2>3. Nat \subseteq Known
    <3> HIDE DEF Known
    <3> QED
      BY <2>1, <2>2, SetInduction
  <2> QED
    BY <2>3
<1> QED
  BY <1>1, <1>3, <1>4

Bases == {2, 10, 16}

\* Division by the base, as the provers need it.
LEMMA DivisionFacts ==
  ASSUME NEW b \in Bases, NEW x \in Nat
  PROVE  /\ x \div b \in Nat /\ x % b \in 0 .. b - 1 /\ x % b \in 0 .. 15
         /\ (x % b) + b * (x \div b) = x
         /\ x \div b = 0 => x % b = x
         /\ x = 0 => x \div b = 0
         /\ \A p \in Nat : x \div b >= p <=> x >= b * p
<1>1. b = 2 \/ b = 10 \/ b = 16
  BY DEF Bases
<1>2. /\ x \div b \in Nat /\ x % b \in 0 .. b - 1 /\ x % b \in 0 .. 15
      /\ (x % b) + b * (x \div b) = x
  BY <1>1
<1>3. x \div b = 0 => x % b = x
  BY <1>1, <1>2
<1>4. x = 0 => x \div b = 0
  BY <1>1
<1>5. \A p \in Nat : x \div b >= p <=> x >= b * p
  BY <1>1, <1>2
<1> QED
  BY <1>2, <1>3, <1>4, <1>5

\* r counts down what is left of n after so many divisions.
Rests(r, n, b) == r \in [Nat -> Nat] /\ r[0] = n /\ \A k \in Nat : r[k + 1] = r[k] \div b

\* There is such a countdown for each number.
LEMMA RestsExist ==
  ASSUME NEW b \in Bases, NEW n \in Nat
  PROVE  \E r : Rests(r, n, b)
<1> DEFINE step == [x \in Nat |-> x \div b]
<1>1. step \in [Nat -> Nat]
  BY DivisionFacts
<1>2. \A x \in Nat : step[x] = x \div b
  OBVIOUS
<1> HIDE DEF step
<1>3. PICK r : Iterates(r, Nat, n, step)
  BY <1>1, Iteration
<1>4. Rests(r, n, b)
  BY <1>2, <1>3 DEF Iterates, Rests
<1> QED
  BY <1>4

\* Nothing is left of nothing.
LEMMA RestsStayZero ==
  ASSUME NEW b \in Bases, NEW n, NEW r, Rests(r, n, b), NEW j \in Nat, r[j] = 0,
         NEW k \in Nat, j <= k
  PROVE  r[k] = 0
<1> DEFINE Zero == {i \in Nat : j <= i => r[i] = 0}
<1>1. 0 \in Zero
  OBVIOUS
<1>2. ASSUME NEW i \in Nat, i \in Zero
      PROVE  i + 1 \in Zero
  <2>1. r[i + 1] = r[i] \div b /\ r[i] \in Nat
    BY DEF Rests
  <2>2. CASE j = i + 1
    BY <2>2
  <2>3. CASE j # i + 1
    <3>1. j <= i + 1 => r[i] = 0
      BY <1>2, <2>3
    <3> QED
      BY <2>1, <3>1, DivisionFacts
  <2> QED
    BY <2>2, <2>3
<1>3. k \in Zero
  <2> HIDE DEF Zero
  <2> QED
    BY <1>1, <1>2, SetInduction
<1> QED
  BY <1>3

\* Something is left after k divisions if and only if there were more than k digits.
LEMMA RestsAndPower ==
  ASSUME NEW b \in Bases, NEW n, NEW r, Rests(r, n, b), NEW k \in Nat
  PROVE  r[k] # 0 <=> n >= Power(b, k)
<1>1. b \in Nat
  BY DEF Bases
<1>2. /\ Power(b, 0) = 1
      /\ \A i \in Nat : Power(b, i + 1) = b * Power(b, i) /\ Power(b, i) \in Nat
  BY <1>1, PowerFacts
<1> DEFINE Known == {j \in Nat : j <= k => (r[k] # 0 <=> r[k - j] >= Power(b, j))}
<1>3. 0 \in Known
  <2>1. r[k] \in Nat /\ k - 0 = k
    BY DEF Rests
  <2>2. r[k] # 0 <=> r[k - 0] >= 1
    BY <2>1
  <2> QED
    BY <1>2, <2>2
<1>4. ASSUME NEW j \in Nat, j \in Known
      PROVE  j + 1 \in Known
  <2> SUFFICES ASSUME j + 1 <= k
               PROVE  r[k] # 0 <=> r[k - (j + 1)] >= Power(b, j + 1)
    OBVIOUS
  <2> DEFINE i == k - (j + 1)
  <2>1. i \in Nat /\ i + 1 = k - j /\ j <= k
    OBVIOUS
  <2>2. r[k - j] = r[i] \div b /\ r[i] \in Nat
    BY <2>1 DEF Rests
  <2>3. r[k] # 0 <=> r[k - j] >= Power(b, j)
    BY <1>4, <2>1
  <2> HIDE DEF i
  <2>4. r[i] \div b >= Power(b, j) <=> r[i] >= b * Power(b, j)
    BY <1>2, <2>2, DivisionFacts
  <2>5. r[k] # 0 <=> r[i] >= Power(b, j + 1)
    BY <1>2, <2>2, <2>3, <2>4
  <2> QED
    BY <2>5 DEF i
<1>5. k \in Known
  <2> HIDE DEF Known
  <2> QED
    BY <1>3, <1>4, SetInduction
<1>6. k - k = 0 /\ k <= k
  OBVIOUS
<1>7. r[k] # 0 <=> r[0] >= Power(b, k)
  BY <1>5, <1>6
<1> QED
  BY <1>7 DEF Rests

-----------------------------------------------------------------------------
(* Digits, and the text of an integer. *)

Digit(d) == Digit2char[d + 1]

Numerals == {"0", "1", "2", "3", "4", "5", "6", "7", "8", "9", "a", "b", "c", "d", "e", "f"}

\* The sixteen characters are different, and none is one of those beside them.
LEMMA DigitFacts ==
  ASSUME NEW d \in 0 .. 15
  PROVE  /\ Digit(d) \in Numerals
         /\ d < 10 => Digit(d) # "e"
         /\ Digit(d) = "0" <=> d = 0
         /\ DigitValue(Digit(d)) = d
<1>1. \/ d = 0 \/ d = 1 \/ d = 2 \/ d = 3 \/ d = 4 \/ d = 5 \/ d = 6 \/ d = 7
      \/ d = 8 \/ d = 9 \/ d = 10 \/ d = 11 \/ d = 12 \/ d = 13 \/ d = 14 \/ d = 15
  OBVIOUS
<1> USE DEF Digit, Digit2char
<1>2. Digit(d) \in Numerals
  BY <1>1 DEF Numerals
<1>3. d < 10 => Digit(d) # "e"
  BY <1>1
<1>4. Digit(d) = "0" <=> d = 0
  BY <1>1
<1>5. ASSUME NEW c \in 0 .. 15, Digit(c) = Digit(d)
      PROVE  c = d
  <2>1. \/ c = 0 \/ c = 1 \/ c = 2 \/ c = 3 \/ c = 4 \/ c = 5 \/ c = 6 \/ c = 7
        \/ c = 8 \/ c = 9 \/ c = 10 \/ c = 11 \/ c = 12 \/ c = 13 \/ c = 14 \/ c = 15
    OBVIOUS
  <2> QED
    BY <1>1, <1>5, <2>1
<1> HIDE DEF Digit2char
<1>6. DigitValue(Digit(d)) = d
  BY <1>5 DEF DigitValue
<1> QED
  BY <1>2, <1>3, <1>4, <1>6

\* Nothing else that is printed looks like a digit.
LEMMA NumeralsApart == {"-", " ", "+", ".", "#"} \cap Numerals = {}
BY DEF Numerals

\* p sums up the digits of s, the first of them first.
Sums(p, s, b) ==
  /\ p[0] = 0
  /\ \A k \in 1 .. Len(s) : p[k] = b * p[k - 1] + DigitValue(s[k])

\* Who sums up the digits from the first gets what the reader gets.
LEMMA SumsToValue ==
  ASSUME NEW b, NEW s, Len(s) \in Nat, NEW p, Sums(p, s, b)
  PROVE  Value(s, b) = p[Len(s)]
<1> DEFINE n == Len(s)
           Recursive(q) == q = [k \in 0 .. n |-> IF k = 0 THEN 0
                                                  ELSE b * q[k - 1] + DigitValue(s[k])]
           value == CHOOSE q : Recursive(q)
<1>1. Value(s, b) = value[n]
  BY DEF Value
<1>2. n \in Nat /\ p[0] = 0 /\ \A k \in 1 .. n : p[k] = b * p[k - 1] + DigitValue(s[k])
  BY DEF Sums
<1> HIDE DEF n
<1>3. Recursive(value)
  <2> DEFINE q == [k \in 0 .. n |-> p[k]]
  <2>1. \A k \in 0 .. n : q[k] = IF k = 0 THEN 0 ELSE b * q[k - 1] + DigitValue(s[k])
    <3> SUFFICES ASSUME NEW k \in 0 .. n, k # 0
                 PROVE  q[k] = b * q[k - 1] + DigitValue(s[k])
      BY <1>2
    <3>1. k \in 1 .. n /\ k - 1 \in 0 .. n
      BY <1>2
    <3> QED
      BY <1>2, <3>1
  <2>2. Recursive(q)
    BY <2>1
  <2> HIDE DEF Recursive, q
  <2> QED
    BY <2>2
<1> HIDE DEF value
<1> DEFINE Known == {k \in Nat : k <= n => value[k] = p[k]}
<1>4. 0 \in Known
  BY <1>2, <1>3
<1>5. ASSUME NEW k \in Nat, k \in Known
      PROVE  k + 1 \in Known
  <2> SUFFICES ASSUME k + 1 <= n PROVE value[k + 1] = p[k + 1]
    OBVIOUS
  <2>1. k + 1 \in 1 .. n /\ k + 1 \in 0 .. n /\ k + 1 # 0 /\ (k + 1) - 1 = k /\ k <= n
    BY <1>2
  <2>2. value[k + 1] = b * value[k] + DigitValue(s[k + 1])
    BY <1>3, <2>1
  <2>3. value[k] = p[k]
    BY <1>5, <2>1
  <2> HIDE DEF Recursive, Known
  <2> QED
    BY <1>2, <2>1, <2>2, <2>3
<1>6. n \in Known
  <2> HIDE DEF Known
  <2> QED
    BY <1>2, <1>4, <1>5, SetInduction
<1> QED
  BY <1>1, <1>2, <1>6 DEF n

\* A text whose digits are the remainders of x, all of them or more, reads as x.
LEMMA RemaindersRead ==
  ASSUME NEW b \in Bases, NEW x, NEW r, Rests(r, x, b),
         NEW s, Len(s) \in Nat \ {0}, r[Len(s)] = 0,
         \A i \in 1 .. Len(s) : s[i] = Digit(r[Len(s) - i] % b)
  PROVE  Value(s, b) = x
<1> DEFINE n == Len(s)
           p == [k \in 0 .. n |-> r[n - k]]
<1>1. n \in Nat \ {0} /\ b \in Nat
  BY DEF Bases
<1>2. \A k \in Nat : r[k] \in Nat /\ r[k + 1] = r[k] \div b
  BY DEF Rests
<1> HIDE DEF n
<1>3. ASSUME NEW k \in 1 .. n
      PROVE  r[n - k] = b * r[n - (k - 1)] + DigitValue(s[k])
  <2> DEFINE j == n - k
  <2>1. j \in Nat /\ n - (k - 1) = j + 1
    BY <1>1
  <2>2. s[k] = Digit(r[j] % b)
    BY DEF n
  <2> HIDE DEF j
  <2>3. /\ r[j] \in Nat /\ r[j + 1] = r[j] \div b
    BY <1>2, <2>1
  <2>4. r[j] % b \in 0 .. 15 /\ (r[j] % b) + b * (r[j] \div b) = r[j] /\ r[j] \div b \in Nat
    BY <2>3, DivisionFacts
  <2> DEFINE t == b * r[j + 1]
             q == r[j] % b
  <2>5. DigitValue(s[k]) = q
    BY <2>2, <2>4, DigitFacts
  <2>6. t \in Nat /\ q \in Nat /\ q + t = r[j]
    <3>1. t \in Nat /\ q \in Nat
      <4>1. r[j + 1] \in Nat
        BY ONLY <2>3, <2>4
      <4>2. t \in Nat
        BY ONLY <1>1, <4>1
      <4>3. q \in Nat
        BY ONLY <2>4
      <4> QED
        BY ONLY <4>2, <4>3
    <3>2. q + t = r[j]
      BY ONLY <2>3, <2>4, ZenonT(30)
    <3> QED
      BY ONLY <3>1, <3>2
  <2>7. r[n - k] = r[j] /\ b * r[n - (k - 1)] = t
    BY <2>1 DEF j
  <2> HIDE DEF t, q
  <2> QED
    BY ONLY <2>5, <2>6, <2>7
<1>4. r[n] = 0 /\ n - n = 0 /\ n - 0 = n
  BY <1>1 DEF n
<1>5. p[0] = 0 /\ p[n] = r[0]
  BY <1>1, <1>4
<1>6. \A k \in 1 .. n : p[k] = b * p[k - 1] + DigitValue(s[k])
  <2> SUFFICES ASSUME NEW k \in 1 .. n
               PROVE  p[k] = b * p[k - 1] + DigitValue(s[k])
    OBVIOUS
  <2>1. k \in 0 .. n /\ k - 1 \in 0 .. n
    BY <1>1
  <2> QED
    BY <1>3, <2>1
<1> HIDE DEF p
<1>7. Value(s, b) = p[n]
  <2>1. Sums(p, s, b)
    BY <1>5, <1>6 DEF Sums, n
  <2> QED
    BY <1>1, <2>1, SumsToValue DEF n
<1> QED
  BY <1>5, <1>7 DEF Rests

\* Truncating division goes on with what is left of the absolute value, also for
\* the least number of a word, whose negation does not fit.
LEMMA QuotientFacts ==
  ASSUME NEW b \in Bases, NEW n \in Int
  PROVE  /\ Abs(n) \in Nat /\ Quotient(n, b) \in Int
         /\ Abs(Quotient(n, b)) = Abs(n) \div b
         /\ Abs(Remainder(n, b)) = Abs(n) % b
<1>1. b = 2 \/ b = 10 \/ b = 16
  BY DEF Bases
<1>2. CASE n < 0
  <2> DEFINE m == -n
             q == m \div b
  <2>1. m \in Nat /\ Abs(n) = m
    BY <1>2 DEF Abs
  <2>2. q \in Nat /\ m % b \in Nat /\ (m % b) + b * q = m
    BY <2>1, DivisionFacts
  <2>3. Quotient(n, b) = -q
    BY <1>2 DEF Quotient
  <2>4. n = -m
    BY <1>2
  <2> DEFINE p == m % b
  <2>5. p \in Nat /\ p + b * q = m
    BY <2>2
  <2> HIDE DEF m, q, p
  <2>6. Abs(-q) = q /\ -q \in Int
    BY <2>2 DEF Abs
  <2>7. n - b * (-q) = -p
    BY ONLY <1>1, <2>2, <2>4, <2>5
  <2>8. Abs(-p) = p
    BY <2>5 DEF Abs
  <2> QED
    BY <2>1, <2>3, <2>6, <2>7, <2>8 DEF Remainder, q, p
<1>3. CASE ~(n < 0)
  <2> DEFINE q == n \div b
             p == n % b
  <2>1. n \in Nat /\ Abs(n) = n
    BY <1>3 DEF Abs
  <2>2. q \in Nat /\ p \in Nat /\ p + b * q = n
    BY <2>1, DivisionFacts
  <2>3. Quotient(n, b) = q
    BY <1>3 DEF Quotient
  <2> HIDE DEF q, p
  <2>4. Abs(q) = q /\ q \in Int /\ Abs(p) = p
    BY <2>2 DEF Abs
  <2>5. n - b * q = p
    BY ONLY <1>1, <2>1, <2>2
  <2> QED
    BY <2>1, <2>3, <2>4, <2>5 DEF Remainder, q, p
<1> QED
  BY <1>2, <1>3

\* One turn of the loop over the buffer: it has stopped, or writes the next digit
\* in front of the others.
Turn(t, b) ==
  IF t.text # <<>> /\ t.rest = 0 THEN t
  ELSE [rest |-> Quotient(t.rest, b),
        text |-> <<Digit(Abs(Remainder(t.rest, b)))>> \o t.text]

Turns == [rest : Int, text : Seq(Numerals)]

\* A turn writes a digit or nothing.
LEMMA TurnFacts ==
  ASSUME NEW b \in Bases, NEW t \in Turns
  PROVE  /\ Turn(t, b) \in Turns /\ Turn(t, b).text # <<>>
         /\ ~(t.text # <<>> /\ t.rest = 0) =>
              /\ Turn(t, b).rest = Quotient(t.rest, b)
              /\ Abs(Remainder(t.rest, b)) \in 0 .. 15
              /\ Len(Turn(t, b).text) = Len(t.text) + 1
              /\ Turn(t, b).text[1] = Digit(Abs(Remainder(t.rest, b)))
              /\ \A i \in 1 .. Len(t.text) : Turn(t, b).text[i + 1] = t.text[i]
<1>1. t.rest \in Int /\ t.text \in Seq(Numerals)
  BY DEF Turns
<1>2. CASE t.text # <<>> /\ t.rest = 0
  BY <1>2 DEF Turn
<1>3. CASE ~(t.text # <<>> /\ t.rest = 0)
  <2> DEFINE d == Abs(Remainder(t.rest, b))
             c == Digit(d)
             s == <<c>> \o t.text
  <2>1. d \in 0 .. 15 /\ Quotient(t.rest, b) \in Int
    <3>1. d = Abs(t.rest) % b /\ Abs(t.rest) \in Nat /\ Quotient(t.rest, b) \in Int
      BY <1>1, QuotientFacts
    <3> QED
      BY <3>1, DivisionFacts
  <2>2. c \in Numerals
    BY <2>1, DigitFacts
  <2>3. Turn(t, b) = [rest |-> Quotient(t.rest, b), text |-> s]
    BY <1>3 DEF Turn
  <2> HIDE DEF c, d
  <2>4. <<c>> \in Seq(Numerals) /\ Len(<<c>>) = 1 /\ <<c>>[1] = c
    BY <2>2
  <2>5. /\ s \in Seq(Numerals) /\ Len(s) = Len(t.text) + 1 /\ Len(t.text) \in Nat
        /\ s[1] = c /\ \A i \in 1 .. Len(t.text) : s[i + 1] = t.text[i]
    <3> DEFINE u == <<c>>
    <3>0. u \in Seq(Numerals) /\ Len(u) = 1 /\ u[1] = c
      BY <2>4
    <3> HIDE DEF u
    <3>1. /\ u \o t.text \in Seq(Numerals) /\ Len(u \o t.text) = Len(u) + Len(t.text)
          /\ \A i \in 1 .. Len(u) + Len(t.text) :
               (u \o t.text)[i] = IF i <= Len(u) THEN u[i] ELSE t.text[i - Len(u)]
      BY <1>1, <3>0, ConcatProperties
    <3>2. Len(t.text) \in Nat
      BY <1>1, LenProperties
    <3>3. \A i \in 1 .. Len(t.text) : /\ i + 1 \in 1 .. Len(u) + Len(t.text)
                                      /\ ~(i + 1 <= Len(u)) /\ (i + 1) - Len(u) = i
      BY ONLY <3>0, <3>2
    <3>4. 1 \in 1 .. Len(u) + Len(t.text) /\ 1 <= Len(u)
      BY ONLY <3>0, <3>2
    <3>5. Len(u) + Len(t.text) = Len(t.text) + 1
      BY ONLY <3>0, <3>2
    <3> QED
      BY <3>0, <3>1, <3>2, <3>3, <3>4, <3>5 DEF u
  <2> HIDE DEF s
  <2>6. Turn(t, b) \in Turns
    BY <2>1, <2>3, <2>5 DEF Turns
  <2>7. s # <<>>
    <3>1. Len(s) # 0
      BY <2>5
    <3> QED
      BY <2>5, <3>1, EmptySeq
  <2> QED
    BY <1>3, <2>1, <2>3, <2>5, <2>6, <2>7 DEF c, d
<1> QED
  BY <1>2, <1>3

\* After k turns: each digit is a remainder, nothing of the first but zero was left
\* out, and the loop has stopped only where nothing was left.
Counted(t, k, r, b) ==
  /\ t \in Turns
  /\ Len(t.text) <= k /\ (k > 0 => Len(t.text) >= 1)
  /\ Abs(t.rest) = r[Len(t.text)]
  /\ \A i \in 1 .. Len(t.text) : t.text[i] = Digit(r[Len(t.text) - i] % b)
  /\ Len(t.text) > 1 => r[Len(t.text) - 1] # 0
  /\ Len(t.text) = k \/ r[Len(t.text)] = 0

\* A turn that is counted leads to one with a digit more, or has come to the end.
LEMMA TurnCounts ==
  ASSUME NEW b \in Bases, NEW n, NEW r, Rests(r, n, b), NEW k \in Nat, NEW t, Counted(t, k, r, b)
  PROVE  /\ t.text # <<>> <=> k > 0
         /\ Counted(Turn(t, b), k + 1, r, b)
<1> DEFINE m == Len(t.text)
<1>1. t \in Turns /\ t.rest \in Int /\ t.text \in Seq(Numerals) /\ m \in Nat
  BY LenProperties DEF Counted, Turns
<1>2. /\ m <= k /\ (k > 0 => m >= 1) /\ Abs(t.rest) = r[m]
      /\ \A i \in 1 .. m : t.text[i] = Digit(r[m - i] % b)
      /\ m > 1 => r[m - 1] # 0
      /\ m = k \/ r[m] = 0
  BY DEF Counted
<1>3. t.text = <<>> <=> m = 0
  BY <1>1, EmptySeq
<1> HIDE DEF m
<1>4. t.text # <<>> <=> k > 0
  BY <1>1, <1>2, <1>3
<1>5. r[m] \in Nat /\ r[m + 1] = r[m] \div b
  BY <1>1 DEF Rests
<1>6. t.rest = 0 <=> r[m] = 0
  <2>1. Abs(t.rest) = 0 <=> t.rest = 0
    BY <1>1 DEF Abs
  <2> QED
    BY <1>2, <2>1
<1>7. CASE t.text # <<>> /\ t.rest = 0
  <2>1. Turn(t, b) = t
    BY <1>7 DEF Turn
  <2>2. m <= k + 1 /\ m >= 1 /\ r[m] = 0
    BY <1>1, <1>2, <1>4, <1>6, <1>7
  <2> QED
    BY <1>1, <1>2, <1>4, <2>1, <2>2 DEF Counted, m
<1>8. CASE ~(t.text # <<>> /\ t.rest = 0)
  <2> DEFINE u == Turn(t, b)
             d == Abs(Remainder(t.rest, b))
  <2>1. m = k
    BY <1>1, <1>2, <1>4, <1>6, <1>8
  <2>2. /\ u \in Turns /\ u.rest = Quotient(t.rest, b) /\ Len(u.text) = m + 1
        /\ u.text[1] = Digit(d) /\ \A i \in 1 .. m : u.text[i + 1] = t.text[i]
    BY <1>1, <1>8, TurnFacts DEF m
  <2>3. d = r[m] % b /\ Abs(u.rest) = r[m + 1]
    <3>1. Abs(Quotient(t.rest, b)) = Abs(t.rest) \div b
          /\ Abs(Remainder(t.rest, b)) = Abs(t.rest) % b
      BY <1>1, QuotientFacts
    <3> QED
      BY <1>2, <1>5, <2>2, <3>1
  <2> HIDE DEF u, d
  <2>4. ASSUME NEW i \in 1 .. m + 1
        PROVE  u.text[i] = Digit(r[(m + 1) - i] % b)
    <3>1. CASE i = 1
      <4>1. (m + 1) - i = m
        BY <1>1, <3>1
      <4> QED
        BY <2>2, <2>3, <3>1, <4>1
    <3>2. CASE i # 1
      <4> DEFINE j == i - 1
      <4>1. j \in 1 .. m /\ j + 1 = i /\ (m + 1) - i = m - j
        BY <1>1, <3>2
      <4> HIDE DEF j
      <4>2. u.text[j + 1] = t.text[j] /\ t.text[j] = Digit(r[m - j] % b)
        BY <1>2, <2>2, <4>1
      <4> QED
        BY <4>1, <4>2
    <3> QED
      BY <3>1, <3>2
  <2>5. m + 1 > 1 => r[(m + 1) - 1] # 0
    <3>1. (m + 1) - 1 = m /\ (m + 1 > 1 => m # 0)
      BY <1>1
    <3> QED
      BY <1>3, <1>6, <1>8, <3>1
  <2>6. m + 1 <= k + 1 /\ m + 1 >= 1 /\ m + 1 = k + 1
    BY <1>1, <2>1
  <2> QED
    BY <1>4, <2>2, <2>3, <2>4, <2>5, <2>6 DEF Counted, u
<1> QED
  BY <1>7, <1>8

\* The text of the loop: all digits of v, or one more than the buffer holds.
LEMMA DigitsFacts ==
  ASSUME NEW b \in Bases, NEW v \in Int, NEW r, Rests(r, Abs(v), b), FormatAssumption
  PROVE  LET s == Digits(v, b)
             n == Len(s)
         IN  /\ s \in Seq(Numerals) /\ n \in 1 .. StackLength + 1
             /\ \A i \in 1 .. n : s[i] = Digit(r[n - i] % b)
             /\ n > 1 => r[n - 1] # 0
             /\ n > StackLength \/ r[n] = 0
<1> DEFINE last == StackLength + 1
           start == [rest |-> v, text |-> <<>>]
           Recursive(p) ==
             p = [k \in 0 .. last |->
                    IF k = 0 THEN [rest |-> v, text |-> <<>>]
                    ELSE LET t == p[k - 1]
                         IN  IF k > 1 /\ t.rest = 0 THEN t
                             ELSE [rest |-> Quotient(t.rest, b),
                                   text |-> <<Digit2char[Abs(Remainder(t.rest, b)) + 1]>> \o t.text]]
           turn == CHOOSE p : Recursive(p)
           Next1(k, t) == IF k > 1 /\ t.rest = 0 THEN t
                          ELSE [rest |-> Quotient(t.rest, b),
                                text |-> <<Digit(Abs(Remainder(t.rest, b)))>> \o t.text]
<1>1. Digits(v, b) = turn[last].text
  BY DEF Digits
<1>2. last \in Nat \ {0} /\ StackLength \in Nat \ {0}
  BY FormatAssumption DEF FormatAssumption
<1>3. \A p : Recursive(p) <=> p = [k \in 0 .. last |-> IF k = 0 THEN start ELSE Next1(k, p[k - 1])]
  BY DEF Digit
<1> HIDE DEF last, Recursive
<1>4. Counted(start, 0, r, b)
  <2>1. start.rest = v /\ start.text = <<>> /\ Len(start.text) = 0
    OBVIOUS
  <2>2. start \in Turns
    BY DEF Turns
  <2> HIDE DEF start
  <2>3. r[0] = Abs(v)
    BY DEF Rests
  <2> QED
    BY <2>1, <2>2, <2>3 DEF Counted
<1>5. ASSUME NEW k \in Nat, NEW t, Counted(t, k, r, b)
      PROVE  Next1(k + 1, t) = Turn(t, b) /\ Counted(Next1(k + 1, t), k + 1, r, b)
  <2>1. t.text # <<>> <=> k + 1 > 1
    BY <1>5, TurnCounts
  <2>2. Next1(k + 1, t) = Turn(t, b)
    BY <2>1 DEF Turn
  <2>3. Counted(Turn(t, b), k + 1, r, b)
    BY <1>5, TurnCounts
  <2> HIDE DEF Next1
  <2> QED
    BY <2>2, <2>3
<1> HIDE DEF start, Next1
<1>6. Recursive(turn)
  <2> DEFINE step == [t \in Turns |-> Turn(t, b)]
  <2>1. step \in [Turns -> Turns] /\ start \in Turns
    BY <1>4, TurnFacts DEF Counted
  <2>2. \A t \in Turns : step[t] = Turn(t, b)
    OBVIOUS
  <2> HIDE DEF step
  <2>3. PICK f : Iterates(f, Turns, start, step)
    BY <2>1, Iteration
  <2>4. f[0] = start /\ \A k \in Nat : f[k] \in Turns /\ f[k + 1] = Turn(f[k], b)
    BY <2>2, <2>3 DEF Iterates
  <2> DEFINE Known == {k \in Nat : Counted(f[k], k, r, b)}
  <2>5. 0 \in Known
    BY <1>4, <2>4
  <2>6. \A k \in Nat : k \in Known => k + 1 \in Known
    BY <2>4, TurnCounts
  <2>7. \A k \in Nat : Counted(f[k], k, r, b)
    <3>1. Nat \subseteq Known
      <4> HIDE DEF Known
      <4> QED
        BY <2>5, <2>6, SetInduction
    <3> QED
      BY <3>1
  <2>8. ASSUME NEW k \in 1 .. last
        PROVE  f[k] = Next1(k, f[k - 1])
    <3>1. k - 1 \in Nat /\ (k - 1) + 1 = k
      BY <1>2
    <3> QED
      BY <1>5, <2>4, <2>7, <3>1
  <2> DEFINE p == [k \in 0 .. last |-> f[k]]
  <2>9. \A k \in 0 .. last : p[k] = IF k = 0 THEN start ELSE Next1(k, p[k - 1])
    <3> SUFFICES ASSUME NEW k \in 0 .. last
                 PROVE  p[k] = IF k = 0 THEN start ELSE Next1(k, p[k - 1])
      OBVIOUS
    <3>1. CASE k = 0
      BY <2>4, <3>1
    <3>2. CASE k # 0
      <4>1. k \in 1 .. last /\ k - 1 \in 0 .. last
        BY <1>2, <3>2
      <4> QED
        BY <2>8, <3>2, <4>1
    <3> QED
      BY <3>1, <3>2
  <2>10. p = [k \in 0 .. last |-> IF k = 0 THEN start ELSE Next1(k, p[k - 1])]
    BY <2>9
  <2> HIDE DEF p
  <2> QED
    BY <1>3, <2>10
<1> HIDE DEF turn
<1>7. \A k \in 0 .. last : turn[k] = IF k = 0 THEN start ELSE Next1(k, turn[k - 1])
  BY <1>3, <1>6
<1> DEFINE Known == {k \in Nat : k <= last => Counted(turn[k], k, r, b)}
<1>8. 0 \in Known
  BY <1>2, <1>4, <1>7
<1>9. ASSUME NEW k \in Nat, k \in Known
      PROVE  k + 1 \in Known
  <2> SUFFICES ASSUME k + 1 <= last PROVE Counted(turn[k + 1], k + 1, r, b)
    OBVIOUS
  <2>1. k + 1 \in 0 .. last /\ k + 1 # 0 /\ (k + 1) - 1 = k /\ k <= last
    BY <1>2
  <2>2. turn[k + 1] = Next1(k + 1, turn[k])
    BY <1>7, <2>1
  <2> QED
    BY <1>5, <1>9, <2>1, <2>2
<1>10. Counted(turn[last], last, r, b)
  <2>1. last \in Known
    <3> HIDE DEF Known
    <3> QED
      BY <1>2, <1>8, <1>9, SetInduction
  <2> QED
    BY <1>2, <2>1
<1> DEFINE s == Digits(v, b)
<1>11. /\ s \in Seq(Numerals) /\ Len(s) \in Nat /\ Len(s) <= last /\ Len(s) >= 1
       /\ \A i \in 1 .. Len(s) : s[i] = Digit(r[Len(s) - i] % b)
       /\ Len(s) > 1 => r[Len(s) - 1] # 0
       /\ Len(s) = last \/ r[Len(s)] = 0
  BY <1>1, <1>2, <1>10, LenProperties DEF Counted, Turns
<1> HIDE DEF s
<1>12. Len(s) \in 1 .. StackLength + 1 /\ (Len(s) = last => Len(s) > StackLength)
  BY <1>2, <1>11 DEF last
<1> QED
  BY <1>11, <1>12 DEF s

-----------------------------------------------------------------------------
(* The reader of integers. *)

Characters == Numerals \cup {"-", " ", "+", ".", "#", "x"}

\* A text that is cut where it was put together gives its parts.
LEMMA Cut ==
  ASSUME NEW S, NEW p \in Seq(S), NEW w \in Seq(S)
  PROVE  /\ SubSeq(p \o w, 1, Len(p)) = p
         /\ SubSeq(p \o w, Len(p) + 1, Len(p \o w)) = w
<1> DEFINE t == p \o w
           m == Len(p)
           n == Len(w)
<1>1. m \in Nat /\ n \in Nat
  BY LenProperties
<1>2. /\ t \in Seq(S) /\ Len(t) = m + n
      /\ \A i \in 1 .. m + n : t[i] = IF i <= m THEN p[i] ELSE w[i - m]
  BY ConcatProperties
<1> HIDE DEF t
<1>3. \A i \in 1 .. m + n : t[i] \in S
  BY <1>2, ElementOfSeq
<1> HIDE DEF m, n
<1>4. SubSeq(t, 1, m) = p
  <2> DEFINE s == SubSeq(t, 1, m)
  <2>1. \A i \in 1 .. m : t[i] \in S
    BY <1>1, <1>3
  <2>2. s \in Seq(S) /\ Len(s) = (IF 1 <= m THEN m - 1 + 1 ELSE 0)
        /\ \A i \in 1 .. m - 1 + 1 : s[i] = t[1 + i - 1]
    BY ONLY <1>1, <2>1, 1 \in Int, m \in Int, SubSeqProperties
  <2> HIDE DEF s
  <2>3. Len(s) = m
    BY <1>1, <2>2
  <2>4. ASSUME NEW i \in 1 .. m
        PROVE  s[i] = p[i]
    <3>1. i \in 1 .. m - 1 + 1 /\ 1 + i - 1 = i /\ i <= m /\ i \in 1 .. m + n
      BY <1>1
    <3> QED
      BY <1>2, <2>2, <3>1
  <2> QED
    BY <2>2, <2>3, <2>4, SeqEqual DEF m, s
<1>5. SubSeq(t, m + 1, m + n) = w
  <2> DEFINE s == SubSeq(t, m + 1, m + n)
  <2>1. m + 1 \in Int /\ m + n \in Int /\ \A i \in m + 1 .. m + n : i \in 1 .. m + n
    BY <1>1
  <2>2. \A i \in m + 1 .. m + n : t[i] \in S
    BY <1>3, <2>1
  <2>3. s \in Seq(S) /\ Len(s) = (IF m + 1 <= m + n THEN (m + n) - (m + 1) + 1 ELSE 0)
        /\ \A i \in 1 .. (m + n) - (m + 1) + 1 : s[i] = t[(m + 1) + i - 1]
    BY ONLY <2>1, <2>2, SubSeqProperties
  <2> HIDE DEF s
  <2>4. Len(s) = n
    BY <1>1, <2>3
  <2>5. ASSUME NEW i \in 1 .. n
        PROVE  s[i] = w[i]
    <3>1. /\ i \in 1 .. (m + n) - (m + 1) + 1 /\ (m + 1) + i - 1 = m + i
          /\ ~(m + i <= m) /\ m + i \in 1 .. m + n /\ (m + i) - m = i
      BY <1>1
    <3> QED
      BY <1>2, <2>3, <3>1
  <2> QED
    BY <2>3, <2>4, <2>5, SeqEqual DEF n, s
<1> QED
  BY <1>2, <1>4, <1>5 DEF t, m

\* A character in front of a text, and the text without it.
LEMMA InFront ==
  ASSUME NEW S, NEW c \in S, NEW u \in Seq(S)
  PROVE  /\ <<c>> \o u \in Seq(S) /\ Len(<<c>> \o u) = 1 + Len(u)
         /\ (<<c>> \o u)[1] = c /\ Tail(<<c>> \o u) = u
<1> DEFINE g == <<c>>
           t == g \o u
<1>1. g \in Seq(S) /\ Len(g) = 1 /\ g[1] = c
  OBVIOUS
<1> HIDE DEF g
<1>2. /\ t \in Seq(S) /\ Len(t) = 1 + Len(u) /\ Len(u) \in Nat
      /\ \A i \in 1 .. 1 + Len(u) : t[i] = IF i <= 1 THEN g[i] ELSE u[i - 1]
  <2>1. /\ t \in Seq(S) /\ Len(t) = Len(g) + Len(u)
        /\ \A i \in 1 .. Len(g) + Len(u) : t[i] = IF i <= Len(g) THEN g[i] ELSE u[i - Len(g)]
    BY <1>1, ConcatProperties
  <2>2. Len(u) \in Nat
    BY LenProperties
  <2> HIDE DEF t
  <2> QED
    BY <1>1, <2>1, <2>2
<1> HIDE DEF t
<1>3. t[1] = c /\ t # <<>>
  <2>1. 1 \in 1 .. 1 + Len(u) /\ Len(t) # 0
    BY <1>2
  <2> QED
    BY <1>1, <1>2, <2>1, EmptySeq
<1>4. Tail(t) = u
  <2>1. /\ Tail(t) \in Seq(S) /\ Len(Tail(t)) = Len(t) - 1
        /\ \A i \in 1 .. Len(Tail(t)) : Tail(t)[i] = t[i + 1]
    BY <1>2, <1>3, HeadTailProperties
  <2>2. Len(Tail(t)) = Len(u)
    BY <1>2, <2>1
  <2>3. ASSUME NEW i \in 1 .. Len(u)
        PROVE  Tail(t)[i] = u[i]
    <3>1. i + 1 \in 1 .. 1 + Len(u) /\ ~(i + 1 <= 1) /\ (i + 1) - 1 = i
      BY <1>2
    <3> QED
      BY <1>2, <2>1, <2>2, <3>1
  <2> QED
    BY <2>1, <2>2, <2>3, SeqEqual
<1> QED
  BY <1>2, <1>3, <1>4 DEF g, t

Signs == {<<>>, <<"-">>, <<" ">>}

\* A sign is told from the digits and taken off.
LEMMA SignOff ==
  ASSUME NEW g \in Signs, NEW u \in Seq(Characters), u # <<>>, u[1] \in Numerals
  PROVE  /\ g \o u \in Seq(Characters) /\ Unsign(g \o u) = u
         /\ (g \o u)[1] = "-" <=> g = <<"-">>
<1>1. u[1] \notin {"-", " "}
  BY NumeralsApart
<1>2. CASE g = <<>>
  <2>1. g \o u = u
    BY <1>2, ConcatEmptySeq
  <2>2. g # <<"-">>
    BY <1>2
  <2> QED
    BY <1>1, <2>1, <2>2 DEF Unsign
<1>3. CASE g = <<"-">>
  <2>1. "-" \in Characters
    BY DEF Characters
  <2>2. /\ <<"-">> \o u \in Seq(Characters) /\ (<<"-">> \o u)[1] = "-"
        /\ Tail(<<"-">> \o u) = u
    BY <2>1, InFront
  <2> QED
    BY <1>3, <2>2 DEF Unsign
<1>4. CASE g = <<" ">>
  <2>1. " " \in Characters
    BY DEF Characters
  <2>2. /\ <<" ">> \o u \in Seq(Characters) /\ (<<" ">> \o u)[1] = " "
        /\ Tail(<<" ">> \o u) = u
    BY <2>1, InFront
  <2>3. <<" ">> # <<"-">>
    OBVIOUS
  <2>4. Unsign(<<" ">> \o u) = u
    BY <2>2 DEF Unsign
  <2>5. (<<" ">> \o u)[1] # "-"
    BY <2>2
  <2> QED
    BY <1>4, <2>2, <2>3, <2>4, <2>5
<1> QED
  BY <1>2, <1>3, <1>4 DEF Signs

\* A text and its remainders: as many digits as it takes, and zeros before them.
Remainders(u, r, b) ==
  /\ u \in Seq(Numerals) /\ Len(u) \in Nat \ {0}
  /\ \A i \in 1 .. Len(u) : u[i] = Digit(r[Len(u) - i] % b)

\* Zeros that fill up the digits are remainders of the same number.
LEMMA ZerosRead ==
  ASSUME NEW b \in Bases, NEW n, NEW r, Rests(r, n, b), NEW d, Remainders(d, r, b),
         r[Len(d)] = 0, NEW fill \in Nat
  PROVE  LET u == [i \in 1 .. fill - Len(d) |-> "0"] \o d
         IN  /\ Remainders(u, r, b) /\ r[Len(u)] = 0
             /\ Len(u) = IF fill >= Len(d) THEN fill ELSE Len(d)
             /\ Len(d) >= fill => u = d
<1> DEFINE m == Len(d)
           z == [i \in 1 .. fill - m |-> "0"]
           u == z \o d
           Result == /\ Remainders(u, r, b) /\ r[Len(u)] = 0
                     /\ Len(u) = IF fill >= m THEN fill ELSE m
                     /\ m >= fill => u = d
<1>1. d \in Seq(Numerals) /\ m \in Nat \ {0} /\ \A i \in 1 .. m : d[i] = Digit(r[m - i] % b)
  BY DEF Remainders
<1> SUFFICES Result
  OBVIOUS
<1> HIDE DEF m
<1>2. CASE fill <= m
  <2>1. z = <<>>
    <3>1. 1 .. fill - m = 1 .. 0
      BY <1>1, <1>2
    <3>2. z = [i \in 1 .. 0 |-> "0"]
      BY <3>1
    <3>3. [i \in 1 .. 0 |-> "0"] \in Seq({"0"}) /\ Len([i \in 1 .. 0 |-> "0"]) = 0
      OBVIOUS
    <3> HIDE DEF z
    <3>4. z \in Seq({"0"}) /\ Len(z) = 0
      BY <3>2, <3>3
    <3> QED
      BY <3>4, EmptySeq
  <2>2. u = d
    BY <1>1, <2>1, ConcatEmptySeq
  <2>3. Remainders(u, r, b) /\ Len(u) = m /\ r[Len(u)] = 0
    BY <2>2 DEF m
  <2> HIDE DEF u
  <2>4. (Len(u) = IF fill >= m THEN fill ELSE m) /\ (m >= fill => u = d)
    BY <1>1, <1>2, <2>2, <2>3
  <2> QED
    BY <2>3, <2>4
<1>3. CASE fill > m
  <2> DEFINE j == fill - m
  <2>1. j \in Nat /\ j + m = fill
    BY <1>1, <1>3
  <2>2. "0" \in Numerals
    BY DEF Numerals
  <2>3. z \in [1 .. j -> Numerals]
    BY <2>2
  <2>4. z \in Seq(Numerals) /\ Len(z) = j /\ \A i \in 1 .. j : z[i] = "0"
    BY <2>1, <2>3
  <2> HIDE DEF z, j
  <2>5. /\ u \in Seq(Numerals) /\ Len(u) = j + m
        /\ \A i \in 1 .. j + m : u[i] = IF i <= j THEN z[i] ELSE d[i - j]
    <3>1. /\ u \in Seq(Numerals) /\ Len(u) = Len(z) + Len(d)
          /\ \A i \in 1 .. Len(z) + Len(d) : u[i] = IF i <= Len(z) THEN z[i] ELSE d[i - Len(z)]
      <4>1. z \in Seq(Numerals) /\ d \in Seq(Numerals)
        BY <1>1, <2>4
      <4> QED
        BY ONLY <4>1, ConcatProperties
    <3> HIDE DEF u
    <3> QED
      <4>1. Len(z) = j /\ Len(d) = m
        BY <2>4 DEF m
      <4> QED
        BY ONLY <3>1, <4>1, ZenonT(30)
  <2> HIDE DEF u
  <2>6. ASSUME NEW i \in 1 .. fill
        PROVE  u[i] = Digit(r[fill - i] % b)
    <3>1. CASE i <= j
      <4>1. fill - i \in Nat /\ m <= fill - i /\ i \in 1 .. j /\ i \in 1 .. j + m
        BY <1>1, <2>1, <3>1
      <4>2. r[fill - i] = 0
        BY <4>1, <1>1, RestsStayZero DEF m
      <4>3. 0 % b = 0 /\ 0 \in 0 .. 15
        BY DivisionFacts
      <4>4. Digit(0) = "0"
        BY <4>3, DigitFacts
      <4> QED
        BY <2>4, <2>5, <3>1, <4>1, <4>2, <4>3, <4>4
    <3>2. CASE ~(i <= j)
      <4>1. i - j \in 1 .. m /\ m - (i - j) = fill - i /\ i \in 1 .. j + m
        BY <1>1, <2>1, <3>2
      <4> QED
        BY <1>1, <2>5, <3>2, <4>1
    <3> QED
      BY <3>1, <3>2
  <2>7. Len(u) = fill /\ fill \in Nat \ {0} /\ m <= fill /\ ~(m >= fill)
    BY <1>1, <1>3, <2>1, <2>5
  <2>8. r[fill] = 0
    BY <1>1, <2>7, RestsStayZero DEF m
  <2>9. Remainders(u, r, b)
    BY <2>5, <2>6, <2>7 DEF Remainders
  <2> QED
    BY <2>7, <2>8, <2>9
<1> HIDE DEF Result
<1> QED
  BY <1>1, <1>2, <1>3

\* What fills up is made of digits, be there anything to fill up or not.
LEMMA ZerosAreNumerals ==
  ASSUME NEW k \in Int
  PROVE  [i \in 1 .. k |-> "0"] \in Seq(Numerals)
<1> DEFINE j == IF k > 0 THEN k ELSE 0
<1>1. 1 .. k = 1 .. j /\ j \in Nat
  OBVIOUS
<1> HIDE DEF j
<1>2. "0" \in Numerals
  BY DEF Numerals
<1>3. [i \in 1 .. j |-> "0"] \in [1 .. j -> Numerals]
  BY <1>2
<1>4. [i \in 1 .. j |-> "0"] \in Seq(Numerals)
  BY <1>1, <1>3
<1> QED
  BY <1>1, <1>4

\* What is printed after the mark of the base: # for what has more digits than the
\* buffer holds, else sign and digits.
Printed(v, f, r, body) ==
  \/ Abs(v) >= Power(f.base, StackLength) /\ body = <<"#">>
  \/ /\ ~(Abs(v) >= Power(f.base, StackLength))
     /\ \E u \in Seq(Numerals) :
          /\ body = Sign(v, f.fill) \o u
          /\ Remainders(u, r, f.base) /\ r[Len(u)] = 0
          /\ Len(u) = IF f.fill >= Len(Digits(v, f.base)) THEN f.fill
                      ELSE Len(Digits(v, f.base))
          /\ Len(u) > f.fill /\ Len(u) > 1 => u[1] # "0"

\* The sign is one character or none, and a minus for negative numbers only.
LEMMA SignFacts ==
  ASSUME NEW v \in Int, NEW fill
  PROVE  /\ Sign(v, fill) \in Signs /\ Sign(v, fill) \in Seq(Characters)
         /\ Sign(v, fill) = <<"-">> <=> v < 0
<1>1. <<>> \in Seq(Characters) /\ <<>> # <<"-">> /\ <<" ">> # <<"-">>
  BY EmptySeq
<1>2. "-" \in Characters /\ " " \in Characters
  BY DEF Characters
<1>3. \A c \in Characters : <<c>> \in Seq(Characters)
  OBVIOUS
<1>4. <<"-">> \in Seq(Characters) /\ <<" ">> \in Seq(Characters)
  BY <1>2, <1>3
<1> QED
  BY <1>1, <1>4 DEF Sign, Signs

\* The text of an integer: the mark of its base, then sign and digits or #.
LEMMA IntegerPrinted ==
  ASSUME FormatAssumption, NEW v \in Int, NEW f \in LogFormat, IsValid(f),
         NEW r, Rests(r, Abs(v), f.base)
  PROVE  \E body : Printed(v, f, r, body) /\ AppendInteger(v, f) = BasePrefix(f.base) \o body
<1> DEFINE b == f.base
           d == Digits(v, b)
           n == Len(d)
           z == [i \in 1 .. f.fill - n |-> "0"]
<1>1. b \in Bases /\ f.fill \in Nat
  BY DEF IsValid, Bases, LogFormat
<1>2. /\ d \in Seq(Numerals) /\ n \in 1 .. StackLength + 1
      /\ \A i \in 1 .. n : d[i] = Digit(r[n - i] % b)
      /\ n > 1 => r[n - 1] # 0
      /\ n > StackLength \/ r[n] = 0
  BY <1>1, DigitsFacts
<1>3. AppendInteger(v, f) = BasePrefix(b) \o
        IF n > StackLength THEN <<"#">> ELSE (Sign(v, f.fill) \o z) \o d
  BY DEF AppendInteger
<1>4. StackLength \in Nat \ {0} /\ Abs(v) \in Nat /\ b \in Nat
  BY DEF FormatAssumption, Abs, LogFormat
<1>5. r[StackLength] # 0 <=> Abs(v) >= Power(b, StackLength)
  BY <1>1, <1>4, RestsAndPower
<1>6. n \in Nat \ {0}
  BY <1>2, <1>4
<1>7. n > StackLength <=> r[StackLength] # 0
  <2>1. CASE n > StackLength
    <3>1. n - 1 = StackLength /\ n > 1
      BY <1>2, <1>4, <2>1
    <3> QED
      BY <1>2, <2>1, <3>1
  <2>2. CASE ~(n > StackLength)
    <3>1. r[n] = 0 /\ n <= StackLength
      BY <1>2, <1>4, <1>6, <2>2
    <3>2. r[StackLength] = 0
      BY <1>1, <1>4, <1>6, <3>1, RestsStayZero
    <3> QED
      BY <2>2, <3>2
  <2> QED
    BY <2>1, <2>2
<1> HIDE DEF n, d
<1>8. CASE n > StackLength
  <2>1. Printed(v, f, r, <<"#">>)
    BY <1>5, <1>7, <1>8 DEF Printed
  <2> QED
    BY <1>3, <1>8, <2>1
<1>9. CASE ~(n > StackLength)
  <2> DEFINE u == z \o d
             body == Sign(v, f.fill) \o u
  <2>1. Remainders(d, r, b) /\ r[Len(d)] = 0
    BY <1>2, <1>6, <1>9 DEF Remainders, n
  <2>2. /\ Remainders(u, r, b) /\ r[Len(u)] = 0
        /\ Len(u) = IF f.fill >= n THEN f.fill ELSE n
        /\ n >= f.fill => u = d
    BY <1>1, <2>1, ZerosRead DEF n
  <2>3. z \in Seq(Numerals)
    <3>1. f.fill - n \in Int
      BY <1>1, <1>6
    <3> QED
      BY <3>1, ZerosAreNumerals
  <2> HIDE DEF z
  <2>4. (Sign(v, f.fill) \o z) \o d = body
    <3>1. z \in Seq(Characters) /\ d \in Seq(Characters)
      BY <1>2, <2>3, SeqMonotonic DEF Characters
    <3>2. Sign(v, f.fill) \in Seq(Characters)
      BY SignFacts
    <3> QED
      BY ONLY <3>1, <3>2, ConcatAssociative, SMTT(30)
  <2>5. Len(u) > f.fill /\ Len(u) > 1 => u[1] # "0"
    <3> SUFFICES ASSUME Len(u) > f.fill, Len(u) > 1 PROVE u[1] # "0"
      OBVIOUS
    <3>1. u = d /\ n > 1
      BY <1>1, <1>6, <2>2 DEF n
    <3>2. n - 1 \in Nat /\ (n - 1) + 1 = n /\ 1 \in 1 .. n
      BY <1>6
    <3>3. r[n - 1] \in Nat /\ r[n] = r[n - 1] \div b
      BY <3>2 DEF Rests
    <3>4. r[n - 1] # 0 /\ r[n] = 0
      BY <1>2, <1>9, <3>1
    <3>5. r[n - 1] % b \in 0 .. 15 /\ r[n - 1] % b # 0
      BY <1>1, <3>3, <3>4, DivisionFacts
    <3>6. d[1] = Digit(r[n - 1] % b)
      BY <1>2, <3>2
    <3> QED
      BY <3>1, <3>5, <3>6, DigitFacts
  <2>6. u \in Seq(Numerals)
    BY <2>2 DEF Remainders
  <2> HIDE DEF u
  <2>7. Printed(v, f, r, body)
    BY <1>5, <1>7, <1>9, <2>2, <2>5, <2>6 DEF Printed, n, d
  <2> QED
    BY <1>3, <1>9, <2>4, <2>7
<1> QED
  BY <1>8, <1>9

\* The mark of the base can be told from what is behind it.
LEMMA MarkOff ==
  ASSUME NEW f \in LogFormat, IsValid(f), prefix \in BOOLEAN, NEW body \in Seq(Characters)
  PROVE  LET t == BasePrefix(f.base) \o body
         IN  /\ t \in Seq(Characters)
             /\ IF prefix /\ f.base # 10
                THEN /\ SubSeq(t, 1, 2) = <<"0", IF f.base = 2 THEN "b" ELSE "x">>
                     /\ SubSeq(t, 3, Len(t)) = body
                     /\ Len(t) = 2 + Len(body)
                ELSE t = body
<1>1. f.base = 2 \/ f.base = 10 \/ f.base = 16
  BY DEF IsValid
<1>2. CASE prefix /\ f.base # 10
  <2> DEFINE c == IF f.base = 2 THEN "b" ELSE "x"
             p == <<"0", c>>
             t == p \o body
  <2>1. BasePrefix(f.base) = p
    BY <1>1, <1>2 DEF BasePrefix
  <2>2. "0" \in Characters /\ c \in Characters
    BY DEF Characters, Numerals
  <2> HIDE DEF c
  <2>3. p \in Seq(Characters) /\ Len(p) = 2
    <3>1. <<"0", c>> \in Seq(Characters)
      BY <2>2
    <3>2. Len(<<"0", c>>) = 2
      OBVIOUS
    <3> QED
      BY <3>1, <3>2
  <2> HIDE DEF p
  <2>4. Len(p) + 1 = 3
    BY <2>3
  <2>5. t \in Seq(Characters) /\ Len(t) = Len(p) + Len(body)
    BY <2>3, ConcatProperties
  <2>6. SubSeq(t, 1, Len(p)) = p /\ SubSeq(t, Len(p) + 1, Len(t)) = body
    BY <2>3, Cut
  <2>7. /\ Len(t) = 2 + Len(body)
        /\ SubSeq(t, 1, 2) = p /\ SubSeq(t, 3, Len(t)) = body
    <3> HIDE DEF t
    <3> QED
      BY <2>3, <2>4, <2>5, <2>6
  <2> QED
    BY <1>2, <2>1, <2>5, <2>7 DEF p, c
<1>3. CASE ~(prefix /\ f.base # 10)
  <2>1. BasePrefix(f.base) = <<>>
    BY <1>1, <1>3 DEF BasePrefix
  <2>2. BasePrefix(f.base) \o body = body
    BY <2>1, ConcatEmptySeq
  <2> QED
    BY <1>3, <2>2
<1> QED
  BY <1>2, <1>3

\* Who reads the text of an integer gets the integer.
LEMMA IntegerReads ==
  ASSUME FormatAssumption, prefix \in BOOLEAN, NEW v \in Int, NEW f \in LogFormat, IsValid(f)
  PROVE  /\ ReadsInteger(AppendInteger(v, f), v, f)
         /\ AppendInteger(v, f) \in Seq(Characters) /\ AppendInteger(v, f) # <<>>
<1> DEFINE b == f.base
           t == AppendInteger(v, f)
           marked == prefix /\ b # 10
           s == IF marked THEN SubSeq(t, 3, Len(t)) ELSE t
<1>1. b \in Bases /\ f.fill \in Nat /\ Abs(v) \in Nat
  BY DEF IsValid, Bases, LogFormat, Abs
<1>2. PICK r : Rests(r, Abs(v), b)
  BY <1>1, RestsExist
<1>3. PICK body : Printed(v, f, r, body) /\ t = BasePrefix(b) \o body
  BY <1>2, IntegerPrinted
<1> DEFINE long == Abs(v) >= Power(b, StackLength)
<1>4. CASE long
  <2>1. body = <<"#">>
    BY <1>3, <1>4 DEF Printed
  <2>2. "#" \in Characters
    BY DEF Characters
  <2>3. body \in Seq(Characters) /\ body # <<>> /\ Len(body) \in Nat \ {0}
    BY <2>1, <2>2
  <2>4. t \in Seq(Characters) /\ s = body /\ (t = body \/ Len(t) = 2 + Len(body))
    BY <1>3, <2>3, MarkOff
  <2> HIDE DEF t
  <2>5. t # <<>>
    <3>1. CASE Len(t) = 2 + Len(body)
      <4>1. Len(t) # 0
        BY <2>3, <3>1
      <4> QED
        BY <4>1, EmptySeq
    <3>2. CASE t = body
      BY <2>3, <3>2
    <3> QED
      BY <2>4, <3>1, <3>2
  <2> HIDE DEF s
  <2>6. s = <<"#">>
    BY <2>1, <2>4
  <2>7. ReadsInteger(t, v, f)
    BY <1>4, <2>6 DEF ReadsInteger, s
  <2> QED
    BY <2>4, <2>5, <2>7 DEF t
<1>5. CASE ~long
  <2>1. PICK u \in Seq(Numerals) :
          /\ body = Sign(v, f.fill) \o u
          /\ Remainders(u, r, b) /\ r[Len(u)] = 0
          /\ Len(u) = IF f.fill >= Len(Digits(v, b)) THEN f.fill ELSE Len(Digits(v, b))
          /\ Len(u) > f.fill /\ Len(u) > 1 => u[1] # "0"
    BY <1>3, <1>5 DEF Printed
  <2>2. /\ Len(u) \in Nat \ {0}
        /\ \A i \in 1 .. Len(u) : u[i] = Digit(r[Len(u) - i] % b)
    BY <2>1 DEF Remainders
  <2>3. u # <<>> /\ u[1] \in Numerals /\ u \in Seq(Characters)
    <3>1. 1 \in 1 .. Len(u) /\ Len(u) # 0
      BY <2>2
    <3>2. u # <<>>
      BY <2>1, <3>1, EmptySeq
    <3>3. u[1] \in Numerals
      BY <2>1, <3>1, ElementOfSeq
    <3>4. Numerals \subseteq Characters
      BY DEF Characters
    <3>5. u \in Seq(Characters)
      BY <2>1, <3>4, SeqMonotonic
    <3> QED
      BY <3>2, <3>3, <3>5
  <2>4. Sign(v, f.fill) \in Signs /\ (Sign(v, f.fill) = <<"-">> <=> v < 0)
        /\ Sign(v, f.fill) \in Seq(Characters)
    BY SignFacts
  <2>5. /\ body \in Seq(Characters) /\ Unsign(body) = u
        /\ body[1] = "-" <=> v < 0
    BY <2>1, <2>3, <2>4, SignOff
  <2>6. Len(body) \in Nat \ {0} /\ body # <<>>
    <3>1. Len(body) = Len(Sign(v, f.fill)) + Len(u) /\ Len(Sign(v, f.fill)) \in Nat
      BY <2>1, <2>3, <2>4, ConcatProperties, LenProperties
    <3>2. Len(body) # 0 /\ Len(body) \in Nat
      BY <2>2, <3>1
    <3> QED
      BY <2>5, <3>2, EmptySeq
  <2>7. /\ t \in Seq(Characters) /\ s = body /\ (t = body \/ Len(t) = 2 + Len(body))
        /\ marked => SubSeq(t, 1, 2) = <<"0", IF b = 2 THEN "b" ELSE "x">>
    BY <1>3, <2>5, MarkOff
  <2> HIDE DEF t
  <2>8. t # <<>>
    <3>1. CASE Len(t) = 2 + Len(body)
      <4>1. Len(t) # 0
        BY <2>6, <3>1
      <4> QED
        BY <4>1, EmptySeq
    <3>2. CASE t = body
      BY <2>6, <3>2
    <3> QED
      BY <2>7, <3>1, <3>2
  <2>9. IsNumeral(u, b)
    <3>1. ASSUME NEW i \in 1 .. Len(u)
          PROVE  \E d \in 0 .. b - 1 : u[i] = Digit2char[d + 1]
      <4>1. Len(u) - i \in Nat
        BY <2>2
      <4>2. r[Len(u) - i] \in Nat
        BY <1>2, <4>1 DEF Rests
      <4>3. r[Len(u) - i] % b \in 0 .. b - 1
        BY <1>1, <4>2, DivisionFacts
      <4>4. u[i] = Digit2char[(r[Len(u) - i] % b) + 1]
        BY <2>2 DEF Digit
      <4> QED
        BY <4>3, <4>4
    <3> QED
      BY <2>3, <3>1 DEF IsNumeral
  <2>10. Value(u, b) = Abs(v)
    BY <1>1, <1>2, <2>1, <2>2, RemaindersRead
  <2>11. Len(u) >= f.fill
    <3>1. PICK d \in Nat : Len(u) = IF f.fill >= d THEN f.fill ELSE d
      <4>1. Digits(v, b) \in Seq(Numerals)
        BY <1>1, <1>2, DigitsFacts
      <4> QED
        BY <2>1, <4>1, LenProperties
    <3> QED
      BY <1>1, <3>1
  <2> HIDE DEF s
  <2>12. Unsign(s) = u /\ (s[1] = "-" <=> v < 0)
    BY <2>5, <2>7
  <2>13. ReadsInteger(t, v, f)
    BY <1>5, <2>1, <2>7, <2>9, <2>10, <2>11, <2>12 DEF ReadsInteger, s
  <2> QED
    BY <2>7, <2>8, <2>13 DEF t
<1> QED
  BY <1>4, <1>5

-----------------------------------------------------------------------------
(* Floating point numbers. *)

\* No power of ten is zero.
LEMMA PowerPositive ==
  ASSUME NEW k \in Nat
  PROVE  Power(10, k) \in Nat \ {0}
<1>1. Power(10, 0) = 1 /\ \A i \in Nat : Power(10, i + 1) = 10 * Power(10, i) /\ Power(10, i) \in Nat
  BY PowerFacts
<1> DEFINE Known == {i \in Nat : Power(10, i) # 0}
<1>2. 0 \in Known
  BY <1>1
<1>3. ASSUME NEW i \in Nat, i \in Known
      PROVE  i + 1 \in Known
  BY <1>1, <1>3
<1>4. k \in Known
  <2> HIDE DEF Known
  <2> QED
    BY <1>2, <1>3, SetInduction
<1> QED
  BY <1>1, <1>4

\* Division by any number.
LEMMA Division ==
  ASSUME NEW x \in Nat, NEW one \in Nat \ {0}
  PROVE  /\ x \div one \in Nat /\ x % one \in 0 .. one - 1
         /\ (x % one) + one * (x \div one) = x
OBVIOUS

\* Products keep the order.
LEMMA Ordered ==
  ASSUME NEW one \in Nat \ {0}, NEW i \in Int, NEW j \in Int, i < j
  PROVE  one * i + one <= one * j
<1> DEFINE d == j - i
<1>1. d \in Nat \ {0} /\ j = i + d
  OBVIOUS
<1>2. one * d >= one
  BY <1>1
<1>3. one * (i + d) = one * i + one * d
  BY <1>1
<1> QED
  BY <1>1, <1>2, <1>3

\* One step of the products below.
LEMMA Distribute ==
  ASSUME NEW one \in Int, NEW s \in Int, NEW q \in Int
  PROVE  one * (10 * s + q) = 10 * (one * s) + one * q
OBVIOUS

\* What is left of mantissa after each digit, and the digits so far: ten times
\* the one more than they are.
Fraction(f, mantissa) ==
  LET one == Power(10, Precision)
  IN  /\ f \in [Nat -> [rest : Nat, sum : Nat]]
      /\ f[0] = [rest |-> mantissa, sum |-> 0]
      /\ \A k \in Nat : /\ f[k + 1] = [rest |-> 10 * (f[k].rest % one),
                                       sum |-> 10 * f[k].sum + (f[k].rest \div one)]
                        /\ f[k].rest < 10 * one
                        /\ mantissa * Power(10, k) = 10 * (one * f[k].sum) + f[k].rest

\* Each mantissa has such a countdown, and no digit in it exceeds nine.
LEMMA FractionExists ==
  ASSUME FormatAssumption, NEW m \in Power(10, Precision) .. Power(10, Precision + 1) - 1
  PROVE  \E f : Fraction(f, m)
<1> DEFINE one == Power(10, Precision)
           State == [rest : Nat, sum : Nat]
           start == [rest |-> m, sum |-> 0]
           step == [y \in State |-> [rest |-> 10 * (y.rest % one),
                                     sum |-> 10 * y.sum + (y.rest \div one)]]
<1>1. Precision \in Nat
  BY DEF FormatAssumption
<1>2. one \in Nat \ {0} /\ Power(10, Precision + 1) = 10 * one
  BY <1>1, PowerPositive, PowerFacts
<1>3. m \in Nat /\ m < 10 * one
  <2>1. Power(10, Precision + 1) \in Nat
    BY <1>1, PowerPositive
  <2> QED
    BY <1>2, <2>1
<1> HIDE DEF one
<1>4. \A y \in State : [rest |-> 10 * (y.rest % one),
                        sum |-> 10 * y.sum + (y.rest \div one)] \in State
  <2> SUFFICES ASSUME NEW y \in State
               PROVE  10 * (y.rest % one) \in Nat /\ 10 * y.sum + (y.rest \div one) \in Nat
    OBVIOUS
  <2>1. y.rest \in Nat /\ y.sum \in Nat
    OBVIOUS
  <2>2. y.rest % one \in 0 .. one - 1 /\ y.rest \div one \in Nat
    BY ONLY <1>2, <2>1, Division
  <2> HIDE DEF State
  <2> QED
    BY ONLY <1>2, <2>1, <2>2
<1>5. step \in [State -> State] /\ start \in State
  BY <1>3, <1>4
<1>6. \A y \in State : step[y] = [rest |-> 10 * (y.rest % one),
                                  sum |-> 10 * y.sum + (y.rest \div one)]
  OBVIOUS
<1> HIDE DEF step
<1>7. PICK f : Iterates(f, State, start, step)
  BY <1>5, Iteration
<1>8. /\ f \in [Nat -> State] /\ f[0] = start
      /\ \A k \in Nat : f[k + 1] = [rest |-> 10 * (f[k].rest % one),
                                    sum |-> 10 * f[k].sum + (f[k].rest \div one)]
  BY <1>6, <1>7 DEF Iterates
<1> DEFINE Good(k) == /\ f[k].rest < 10 * one
                      /\ m * Power(10, k) = 10 * (one * f[k].sum) + f[k].rest
           Known == {k \in Nat : Good(k)}
<1>9. 0 \in Known
  <2>1. Power(10, 0) = 1 /\ f[0].rest = m /\ f[0].sum = 0
    BY <1>8, PowerFacts
  <2>2. one * 0 = 0 /\ m * 1 = m /\ 10 * 0 = 0
    BY <1>2, <1>3
  <2> QED
    BY <1>3, <2>1, <2>2
<1>10. ASSUME NEW k \in Nat, k \in Known
       PROVE  k + 1 \in Known
  <2> DEFINE x == f[k].rest
             s == f[k].sum
             q == x \div one
             w == x % one
             p == m * Power(10, k)
             a == one * s
             c == one * q
  <2>1. x \in Nat /\ s \in Nat /\ p = 10 * a + x
    BY <1>8, <1>10
  <2>2. f[k + 1].rest = 10 * w /\ f[k + 1].sum = 10 * s + q
    <3>1. f[k + 1] = [rest |-> 10 * w, sum |-> 10 * s + q]
      BY <1>8
    <3> HIDE DEF w, s, q
    <3> QED
      BY ONLY <3>1
  <2>3. q \in Nat /\ w \in 0 .. one - 1 /\ w + c = x
    BY ONLY <1>2, <2>1, Division
  <2>4. m * Power(10, k + 1) = 10 * p
    <3>1. Power(10, k + 1) = 10 * Power(10, k) /\ Power(10, k) \in Nat
      BY PowerFacts
    <3>2. m * (10 * Power(10, k)) = 10 * (m * Power(10, k))
      BY <1>3, <3>1
    <3> QED
      BY <3>1, <3>2
  <2>5. one * (10 * s + q) = 10 * a + c
    <3> HIDE DEF q, s
    <3>1. one \in Int /\ s \in Int /\ q \in Int
      BY <1>2, <2>1, <2>3
    <3> QED
      BY ONLY <3>1, Distribute
  <2>6. p \in Int /\ a \in Int /\ c \in Int
    <3>1. Power(10, k) \in Nat
      BY PowerFacts
    <3> QED
      BY ONLY <1>2, <1>3, <2>1, <2>3, <3>1
  <2> HIDE DEF p, a, c, q, w, x, s
  <2>7. 10 * w < 10 * one
    BY <1>2, <2>3
  <2>8. 10 * p = 10 * (10 * a + c) + 10 * w
    BY <1>2, <2>1, <2>3, <2>6
  <2> QED
    BY <2>2, <2>4, <2>5, <2>7, <2>8
<1>11. Nat \subseteq Known
  <2> HIDE DEF Known
  <2> QED
    BY <1>9, <1>10, SetInduction
<1>12. \A k \in Nat : Good(k)
  BY <1>11
<1>13. Fraction(f, m)
  <2> HIDE DEF State
  <2> QED
    BY <1>8, <1>12 DEF Fraction, one, State
<1> QED
  BY <1>13

Decimals == {Digit(d) : d \in 0 .. 9}

\* The digits of a floating point number are decimals, and less than a unit of the
\* last one off, be that rounded or capped.
LEMMA FloatingDigitsRead ==
  ASSUME FormatAssumption, NEW m \in Power(10, Precision) .. Power(10, Precision + 1) - 1,
         NEW last \in Nat \ {0}
  PROVE  LET s == FloatingDigits(m, last)
         IN  /\ s \in Seq(Decimals) /\ Len(s) = last
             /\ Abs(Value(s, 10) * Power(10, Precision) - m * Power(10, last - 1))
                  < Power(10, Precision)
<1> DEFINE one == Power(10, Precision)
           Recursive(p) ==
             p = [i \in Nat \ {0} |-> IF i = 1 THEN m ELSE 10 * (p[i - 1] % one)]
           normalized == CHOOSE p : Recursive(p)
           truncated(i) == normalized[i] \div one
           rounded(i) == (2 * normalized[i] + one) \div (2 * one)
           capped(d) == IF d > 9 THEN 9 ELSE d
           number(i) == capped(IF i < last THEN truncated(i) ELSE rounded(i))
           s == FloatingDigits(m, last)
<1>1. s = [i \in 1 .. last |-> Digit2char[number(i) + 1]]
  BY DEF FloatingDigits
<1>2. Precision \in Nat
  BY DEF FormatAssumption
<1>3. one \in Nat \ {0}
  BY <1>2, PowerPositive
<1>4. PICK f : Fraction(f, m)
  BY FractionExists
<1>5. m \in Nat
  <2>1. Power(10, Precision + 1) \in Nat
    BY <1>2, PowerPositive
  <2> QED
    BY <1>3, <2>1
<1> HIDE DEF one
<1>6. /\ f \in [Nat -> [rest : Nat, sum : Nat]]
      /\ f[0] = [rest |-> m, sum |-> 0]
      /\ \A k \in Nat : /\ f[k + 1] = [rest |-> 10 * (f[k].rest % one),
                                       sum |-> 10 * f[k].sum + (f[k].rest \div one)]
                        /\ f[k].rest < 10 * one
                        /\ m * Power(10, k) = 10 * (one * f[k].sum) + f[k].rest
  BY <1>4 DEF Fraction, one
<1>7. \A k \in Nat : f[k].rest \in Nat /\ f[k].sum \in Nat
  BY <1>6
<1>8. /\ f[0].rest = m /\ f[0].sum = 0
      /\ \A k \in Nat : /\ f[k + 1].rest = 10 * (f[k].rest % one)
                        /\ f[k + 1].sum = 10 * f[k].sum + (f[k].rest \div one)
  <2>1. ASSUME NEW k \in Nat
        PROVE  /\ f[k + 1].rest = 10 * (f[k].rest % one)
               /\ f[k + 1].sum = 10 * f[k].sum + (f[k].rest \div one)
    <3> DEFINE i == 10 * (f[k].rest % one)
               j == 10 * f[k].sum + (f[k].rest \div one)
    <3>1. f[k + 1] = [rest |-> i, sum |-> j]
      BY <1>6
    <3> HIDE DEF i, j
    <3>2. f[k + 1].rest = i /\ f[k + 1].sum = j
      BY ONLY <3>1
    <3> QED
      BY <3>2 DEF i, j
  <2> QED
    BY <1>6, <2>1
<1>9. Recursive(normalized)
  <2> DEFINE p == [i \in Nat \ {0} |-> f[i - 1].rest]
  <2>1. \A i \in Nat \ {0} : p[i] = IF i = 1 THEN m ELSE 10 * (p[i - 1] % one)
    <3> SUFFICES ASSUME NEW i \in Nat \ {0}
                 PROVE  p[i] = IF i = 1 THEN m ELSE 10 * (p[i - 1] % one)
      OBVIOUS
    <3>1. CASE i = 1
      BY <1>8, <3>1
    <3>2. CASE i # 1
      <4>1. (i - 1) - 1 \in Nat /\ ((i - 1) - 1) + 1 = i - 1 /\ i - 1 \in Nat \ {0}
        BY <3>2
      <4>2. p[i] = f[i - 1].rest /\ p[i - 1] = f[(i - 1) - 1].rest
        BY <4>1
      <4> QED
        BY <1>8, <3>2, <4>1, <4>2
    <3> QED
      BY <3>1, <3>2
  <2>2. Recursive(p)
    BY <2>1
  <2> HIDE DEF Recursive, p
  <2> QED
    BY <2>2
<1> HIDE DEF normalized
<1> DEFINE Known == {k \in Nat : normalized[k + 1] = f[k].rest}
<1>10. 0 \in Known
  BY <1>8, <1>9
<1>11. ASSUME NEW k \in Nat, k \in Known
       PROVE  k + 1 \in Known
  <2>1. (k + 1) + 1 \in Nat \ {0} /\ (k + 1) + 1 # 1 /\ ((k + 1) + 1) - 1 = k + 1
    OBVIOUS
  <2>2. normalized[(k + 1) + 1] = 10 * (normalized[k + 1] % one)
    BY <1>9, <2>1
  <2> QED
    BY <1>8, <1>11, <2>2
<1>12. Nat \subseteq Known
  <2> HIDE DEF Known
  <2> QED
    BY <1>10, <1>11, SetInduction
<1>13. \A k \in Nat : normalized[k + 1] = f[k].rest
  BY <1>12
<1> HIDE DEF Recursive, Known
<1> DEFINE k == last - 1
           x == f[k].rest
           digit == rounded(last)
<1>14. k \in Nat /\ k + 1 = last
  OBVIOUS
<1>15. normalized[last] = x /\ x \in Nat /\ x < 10 * one
  BY <1>6, <1>7, <1>13, <1>14
<1>16. \A i \in 1 .. last : i < last => number(i) = truncated(i) /\ number(i) \in 0 .. 9
                                       /\ truncated(i) = f[i - 1].rest \div one
  <2> SUFFICES ASSUME NEW i \in 1 .. last, i < last
               PROVE  truncated(i) \in 0 .. 9 /\ truncated(i) = f[i - 1].rest \div one
    OBVIOUS
  <2> DEFINE y == f[i - 1].rest
             q == y \div one
  <2>1. i - 1 \in Nat /\ (i - 1) + 1 = i
    OBVIOUS
  <2>2. normalized[i] = y /\ y \in Nat /\ y < 10 * one
    BY <1>6, <1>7, <1>13, <2>1
  <2> HIDE DEF y
  <2>3. q \in Nat /\ y % one \in 0 .. one - 1 /\ (y % one) + one * q = y
    BY ONLY <1>3, <2>2, Division
  <2>4. q \in 0 .. 9
    <3> HIDE DEF q
    <3> SUFFICES ASSUME 9 < q PROVE FALSE
      BY <2>3
    <3>1. one * 9 + one <= one * q
      BY ONLY <1>3, <2>3, 9 < q, Ordered
    <3> DEFINE c == one * q
               w == y % one
    <3>2. c \in Nat
      BY <1>3, <2>3
    <3> HIDE DEF c, w
    <3> QED
      BY ONLY <1>3, <2>2, <2>3, <3>1, <3>2 DEF c, w
  <2> QED
    BY <2>2, <2>4 DEF y
<1>17. number(last) \in 0 .. 9 /\ one * number(last) - x < one /\ x - one * number(last) < one
  <2> DEFINE two == 2 * one
             y == 2 * x + one
             q == y \div two
             w == y % two
             c == one * q
  <2>1. two \in Nat \ {0} /\ y \in Nat
    BY <1>3, <1>15
  <2>2. rounded(last) = q
    BY <1>15
  <2> HIDE DEF two, y
  <2>3. q \in Nat /\ w \in 0 .. two - 1 /\ w + two * q = y
    BY ONLY <2>1, Division
  <2>4. number(last) = IF q > 9 THEN 9 ELSE q
    BY <2>2
  <2> HIDE DEF q, w, number
  <2>5. two * q = 2 * c /\ c \in Nat
    BY <1>3, <2>3 DEF two
  <2>6. q > 9 => one * 9 + one <= c
    BY ONLY <1>3, <2>3, Ordered
  <2> HIDE DEF c
  <2>7. w + 2 * c = 2 * x + one /\ w \in 0 .. 2 * one - 1
    BY <2>3, <2>5 DEF y, two
  <2>8. CASE q > 9
    <3>1. number(last) = 9
      BY <2>4, <2>8
    <3>2. one * 9 - x < one /\ x - one * 9 < one
      BY <1>3, <1>15, <2>5, <2>6, <2>7, <2>8
    <3> QED
      BY <3>1, <3>2
  <2>9. CASE ~(q > 9)
    <3>1. number(last) = q /\ q \in 0 .. 9
      BY <2>3, <2>4, <2>9
    <3>2. c - x < one /\ x - c < one
      BY <1>3, <1>15, <2>5, <2>7
    <3> QED
      BY <3>1, <3>2 DEF c
  <2> QED
    BY <2>8, <2>9
<1>18. \A i \in 1 .. last : number(i) \in 0 .. 9
  <2> SUFFICES ASSUME NEW i \in 1 .. last PROVE number(i) \in 0 .. 9
    OBVIOUS
  <2>1. i = last \/ i < last
    OBVIOUS
  <2> HIDE DEF number
  <2> QED
    BY <1>16, <1>17, <2>1
<1> HIDE DEF number
<1>19. \A i \in 1 .. last : s[i] = Digit(number(i)) /\ s[i] \in Decimals
  BY <1>1, <1>18 DEF Digit, Decimals
<1>20. s \in Seq(Decimals) /\ Len(s) = last
  <2>1. s \in [1 .. last -> Decimals]
    BY <1>1, <1>19
  <2> HIDE DEF s
  <2> QED
    BY <2>1
<1> HIDE DEF s
<1> DEFINE sum == [i \in 0 .. last |-> IF i < last THEN f[i].sum
                                       ELSE 10 * f[k].sum + number(last)]
<1>21. Sums(sum, s, 10)
  <2>1. sum[0] = 0
    BY <1>8
  <2>2. ASSUME NEW i \in 1 .. last
        PROVE  sum[i] = 10 * sum[i - 1] + DigitValue(s[i])
    <3>1. DigitValue(s[i]) = number(i)
      <4>1. number(i) \in 0 .. 15
        BY <1>18
      <4> QED
        BY <1>19, <4>1, DigitFacts
    <3>2. i - 1 \in Nat /\ (i - 1) + 1 = i /\ i - 1 \in 0 .. last /\ i - 1 < last /\ i \in 0 .. last
      OBVIOUS
    <3>3. sum[i - 1] = f[i - 1].sum
      BY <3>2
    <3>4. CASE i < last
      <4>1. sum[i] = f[i].sum
        BY <3>2, <3>4
      <4>2. f[i].sum = 10 * f[i - 1].sum + number(i)
        BY <1>8, <1>16, <3>2, <3>4
      <4> QED
        BY <3>1, <3>3, <4>1, <4>2
    <3>5. CASE i = last
      <4>1. sum[i] = 10 * f[k].sum + number(last) /\ i - 1 = k
        BY <3>2, <3>5
      <4> QED
        BY <3>1, <3>3, <3>5, <4>1
    <3> QED
      BY <3>4, <3>5
  <2> HIDE DEF sum
  <2> QED
    BY <1>20, <2>1, <2>2 DEF Sums
<1>22. Value(s, 10) = 10 * f[k].sum + number(last)
  <2>1. Value(s, 10) = sum[last]
    <3> HIDE DEF sum
    <3> QED
      BY <1>20, <1>21, SumsToValue
  <2> QED
    BY <2>1
<1>23. Abs(Value(s, 10) * one - m * Power(10, k)) < one
  <2> DEFINE g == f[k].sum
             d == number(last)
             a == one * g
             c == one * d
             p == m * Power(10, k)
  <2>1. p = 10 * a + x /\ g \in Nat
    BY <1>6, <1>7, <1>14
  <2>2. d \in Nat /\ c - x < one /\ x - c < one
    BY <1>17
  <2>3. Value(s, 10) = 10 * g + d
    BY <1>22
  <2> HIDE DEF g, d, x
  <2>4. (10 * g + d) * one = 10 * a + c /\ a \in Nat /\ c \in Nat
    <3>1. one * (10 * g + d) = 10 * a + c
      BY ONLY <1>3, <2>1, <2>2, Distribute
    <3> QED
      BY <1>3, <2>1, <2>2, <3>1
  <2> DEFINE e == Value(s, 10) * one
  <2>5. e = 10 * a + c
    BY <2>3, <2>4
  <2> HIDE DEF a, c, p, e
  <2>6. e - p = c - x /\ e \in Int /\ p \in Int /\ x \in Int
    BY ONLY <1>15, <2>1, <2>4, <2>5
  <2>7. Abs(e - p) < one
    BY <1>3, <2>2, <2>4, <2>6 DEF Abs
  <2> QED
    BY <2>7 DEF e, p
<1> QED
  BY <1>20, <1>23 DEF one, s

\* Of the texts around it only "e" itself can be taken for the mark of the exponent.
Plain == Decimals \cup {"-", "#", "+", "."}

\* No character of a number is an "e".
LEMMA PlainFacts ==
  /\ Decimals \subseteq Numerals /\ Decimals \subseteq Plain /\ Plain \subseteq Characters
  /\ "e" \notin Plain /\ "e" \in Characters
  /\ "+" \notin Decimals
<1>1. ASSUME NEW d \in 0 .. 9
      PROVE  Digit(d) \in Numerals /\ Digit(d) # "e"
  <2>1. d \in 0 .. 15 /\ d < 10
    OBVIOUS
  <2> QED
    BY <2>1, DigitFacts
<1>2. Decimals \subseteq Numerals /\ "e" \notin Decimals
  BY <1>1 DEF Decimals
<1>3. "+" \notin Numerals
  BY NumeralsApart
<1> QED
  BY <1>2, <1>3 DEF Plain, Characters, Numerals

Tens == [base |-> 10, fill |-> 0]

\* The exponent is read as an integer; it has no plus of its own.
LEMMA ExponentReads ==
  ASSUME FormatAssumption, prefix \in BOOLEAN, NEW v \in Int
  PROVE  LET w == AppendInteger(v, Tens)
         IN  /\ w \in Seq(Plain) /\ w # <<>> /\ w[1] # "+"
             /\ ReadsInteger(w, v, Tens)
<1> DEFINE w == AppendInteger(v, Tens)
<1>1. /\ Tens \in LogFormat /\ Tens.base = 10 /\ Tens.fill = 0 /\ IsValid(Tens)
      /\ 10 \in Bases /\ 10 \in Nat
  BY DEF Tens, LogFormat, IsValid, Bases
<1>2. Abs(v) \in Nat
  BY DEF Abs
<1>3. PICK r : Rests(r, Abs(v), 10)
  BY <1>1, <1>2, RestsExist
<1>4. PICK body : Printed(v, Tens, r, body) /\ w = BasePrefix(10) \o body
  BY <1>1, <1>3, IntegerPrinted
<1>5. BasePrefix(10) = <<>>
  BY DEF BasePrefix
<1>6. body \in Seq(Plain) /\ body # <<>> /\ body[1] # "+"
  <2>1. CASE body = <<"#">>
    <3>1. "#" \in Plain
      BY DEF Plain
    <3>2. <<"#">> \in Seq(Plain) /\ <<"#">> # <<>> /\ <<"#">>[1] # "+"
      BY <3>1
    <3> QED
      BY <2>1, <3>2
  <2>2. CASE body # <<"#">>
    <3>1. PICK u \in Seq(Numerals) : body = Sign(v, 0) \o u /\ Remainders(u, r, 10)
      BY <1>1, <1>4, <2>2 DEF Printed
    <3>2. Len(u) \in Nat \ {0} /\ \A i \in 1 .. Len(u) : u[i] = Digit(r[Len(u) - i] % 10)
      BY <3>1 DEF Remainders
    <3>3. ASSUME NEW i \in 1 .. Len(u)
          PROVE  u[i] \in Decimals
      <4>1. Len(u) - i \in Nat
        BY <3>2
      <4>2. r[Len(u) - i] \in Nat
        BY <1>3, <4>1 DEF Rests
      <4>3. r[Len(u) - i] % 10 \in 0 .. 9
        BY <4>2
      <4> QED
        BY <3>2, <4>3 DEF Decimals
    <3>4. u \in Seq(Plain) /\ u[1] \in Decimals /\ u # <<>>
      <4>1. u \in [1 .. Len(u) -> Plain] /\ Len(u) \in Nat
        BY <3>1, <3>2, <3>3, PlainFacts, LenProperties
      <4>2. u \in Seq(Plain)
        BY <4>1
      <4>3. 1 \in 1 .. Len(u) /\ Len(u) # 0
        BY <3>2
      <4>4. u # <<>>
        BY <4>2, <4>3, EmptySeq
      <4> QED
        BY <3>3, <4>2, <4>3, <4>4
    <3>5. CASE v < 0
      <4>1. Sign(v, 0) = <<"-">>
        BY <3>5 DEF Sign
      <4>2. "-" \in Plain
        BY DEF Plain
      <4>3. /\ <<"-">> \o u \in Seq(Plain) /\ (<<"-">> \o u)[1] = "-"
            /\ Len(<<"-">> \o u) = 1 + Len(u)
        BY <3>4, <4>2, InFront
      <4>4. Len(<<"-">> \o u) # 0
        BY <3>2, <4>3
      <4>5. <<"-">> \o u # <<>>
        BY <4>3, <4>4, EmptySeq
      <4> QED
        BY <3>1, <4>1, <4>3, <4>5
    <3>6. CASE ~(v < 0)
      <4>1. Sign(v, 0) = <<>>
        BY <3>6 DEF Sign
      <4>2. body = u
        BY <3>1, <4>1, <3>4, ConcatEmptySeq
      <4> QED
        BY <3>4, <4>2, PlainFacts
    <3> QED
      BY <3>5, <3>6
  <2> QED
    BY <2>1, <2>2
<1>7. w = body
  BY <1>4, <1>5, <1>6, ConcatEmptySeq
<1>8. ReadsInteger(w, v, Tens)
  BY <1>1, IntegerReads
<1> QED
  BY <1>6, <1>7, <1>8

\* The first of a text and the others.
LEMMA FirstAndOthers ==
  ASSUME NEW S, NEW d \in Seq(S), d # <<>>
  PROVE  <<d[1]>> \o Tail(d) = d
<1> DEFINE n == Len(d)
           y == Tail(d)
           z == <<d[1]>> \o y
<1>1. n \in Nat \ {0}
  BY EmptySeq
<1>2. /\ y \in Seq(S) /\ Len(y) = n - 1 /\ \A i \in 1 .. Len(y) : y[i] = d[i + 1]
  BY HeadTailProperties
<1>3. d[1] \in S
  BY <1>1, ElementOfSeq
<1> HIDE DEF y, n
<1>4. z \in Seq(S) /\ Len(z) = 1 + Len(y) /\ z[1] = d[1] /\ Tail(z) = y
  BY <1>2, <1>3, InFront
<1> HIDE DEF z
<1>5. z # <<>> /\ Len(z) = n
  <2>1. Len(z) # 0 /\ Len(z) = n
    BY <1>1, <1>2, <1>4
  <2> QED
    BY <1>4, <2>1, EmptySeq
<1>6. ASSUME NEW i \in 1 .. n
      PROVE  z[i] = d[i]
  <2>1. CASE i = 1
    BY <1>4, <2>1
  <2>2. CASE i # 1
    <3>1. i - 1 \in 1 .. Len(y) /\ (i - 1) + 1 = i
      BY <1>1, <1>2, <2>2
    <3>2. Tail(z)[i - 1] = z[(i - 1) + 1]
      BY <1>4, <1>5, <3>1, HeadTailProperties
    <3> QED
      BY <1>2, <1>4, <3>1, <3>2
  <2> QED
    BY <2>1, <2>2
<1> QED
  BY <1>4, <1>5, <1>6, SeqEqual DEF n, z, y

\* The digits with the point after the first, if there are others.
Pointed(d) == IF Len(d) > 1 THEN <<d[1], ".">> \o Tail(d) ELSE d

\* Digits and point, and what is behind the point.
LEMMA PointedFacts ==
  ASSUME NEW d \in Seq(Decimals), d # <<>>
  PROVE  LET p == Pointed(d)
             n == Len(p)
         IN  /\ p \in Seq(Plain) /\ n = (IF Len(d) > 1 THEN Len(d) + 1 ELSE 1)
             /\ Len(d) \in Nat \ {0} /\ p[1] = d[1] /\ d[1] \in Decimals
             /\ Len(d) > 1 => p[2] = "." /\ n > 2 /\ SubSeq(p, 3, n) = Tail(d)
             /\ ~(Len(d) > 1) => Tail(d) = <<>>
<1> DEFINE p == Pointed(d)
<1>1. Len(d) \in Nat \ {0}
  BY EmptySeq
<1>2. d[1] \in Decimals
  BY <1>1, ElementOfSeq
<1>3. d \in Seq(Plain) /\ d[1] \in Plain
  BY <1>2, PlainFacts, SeqMonotonic
<1>4. /\ Tail(d) \in Seq(Plain) /\ Len(Tail(d)) = Len(d) - 1
  BY <1>3, HeadTailProperties
<1>5. CASE Len(d) > 1
  <2> DEFINE c == d[1]
             h == <<c, ".">>
             y == Tail(d)
             t == h \o y
  <2>1. "." \in Plain /\ c \in Plain
    BY <1>3 DEF Plain
  <2>2. p = t
    BY <1>5 DEF Pointed
  <2> HIDE DEF c, y
  <2>3. <<c, ".">> \in Seq(Plain)
    BY <2>1
  <2>4. Len(<<c, ".">>) = 2 /\ <<c, ".">>[1] = c /\ <<c, ".">>[2] = "."
    OBVIOUS
  <2>5. h \in Seq(Plain) /\ Len(h) = 2 /\ h[1] = c /\ h[2] = "."
    BY <2>3, <2>4
  <2> HIDE DEF h
  <2>6. y \in Seq(Plain) /\ Len(y) = Len(d) - 1
    BY <1>4 DEF y
  <2>7. t \in Seq(Plain) /\ Len(t) = Len(h) + Len(y)
        /\ \A i \in 1 .. Len(h) + Len(y) : t[i] = IF i <= Len(h) THEN h[i] ELSE y[i - Len(h)]
    BY <2>5, <2>6, ConcatProperties
  <2>8. SubSeq(t, Len(h) + 1, Len(t)) = y
    BY <2>5, <2>6, Cut
  <2> HIDE DEF t
  <2>9. Len(t) = Len(d) + 1 /\ Len(t) > 2 /\ Len(h) + 1 = 3
    BY <1>1, <1>5, <2>5, <2>6, <2>7
  <2>10. t[1] = c /\ t[2] = "."
    <3>1. 1 \in 1 .. Len(h) + Len(y) /\ 2 \in 1 .. Len(h) + Len(y) /\ 1 <= Len(h) /\ 2 <= Len(h)
      BY <1>1, <1>5, <2>5, <2>6
    <3> QED
      BY <2>5, <2>7, <3>1
  <2>11. SubSeq(t, 3, Len(t)) = y
    BY <2>8, <2>9
  <2> HIDE DEF p
  <2> QED
    BY <1>1, <1>2, <1>5, <2>2, <2>7, <2>9, <2>10, <2>11 DEF p, c, y
<1>6. CASE ~(Len(d) > 1)
  <2>1. p = d /\ Len(d) = 1
    <3>1. Len(d) = 1
      <4> DEFINE n == Len(d)
      <4>1. n \in Nat \ {0} /\ ~(n > 1)
        BY <1>1, <1>6
      <4> HIDE DEF n
      <4>2. n = 1
        BY ONLY <4>1
      <4> QED
        BY <4>2 DEF n
    <3> QED
      BY <1>6, <3>1 DEF Pointed
  <2>2. Tail(d) = <<>>
    <3>1. Len(Tail(d)) = 0
      BY <1>4, <2>1
    <3> QED
      BY <1>4, <3>1, EmptySeq
  <2> HIDE DEF p
  <2> QED
    BY <1>1, <1>2, <1>3, <1>6, <2>1, <2>2 DEF p
<1> QED
  BY <1>5, <1>6

\* The digits, "e", and the exponent, of which the sign may be a plus.
Scientific(digits, plus, exponent) == digits \o (<<"e">> \o (plus \o exponent))
ExponentAt(s) == CHOOSE i \in 1 .. Len(s) : s[i] = "e"

\* The reader cuts the text in the place where "e" was put, and takes off the plus.
LEMMA ExponentFound ==
  ASSUME NEW y \in Seq(Plain), Len(y) \in Nat \ {0}, NEW p \in {<<>>, <<"+">>},
         NEW w \in Seq(Plain), w # <<>>, w[1] # "+"
  PROVE  LET s == Scientific(y, p, w)
             e == ExponentAt(s)
         IN  /\ s \in Seq(Characters) /\ e = Len(y) + 1
             /\ \A i \in 1 .. Len(y) : s[i] = y[i]
             /\ \A i, j \in 1 .. Len(y) : SubSeq(s, i, j) = SubSeq(y, i, j)
             /\ SubSeq(s, IF s[e + 1] = "+" THEN e + 2 ELSE e + 1, Len(s)) = w
<1> DEFINE x == p \o w
           z == <<"e">> \o x
           s == y \o z
           m == Len(y)
<1>1. "+" \in Plain /\ p \in Seq(Plain) /\ (p = <<>> => Len(p) = 0) /\ (p = <<"+">> => Len(p) = 1)
  <2>1. "+" \in Plain
    BY DEF Plain
  <2>2. \A c \in Plain : <<c>> \in Seq(Plain)
    OBVIOUS
  <2>3. Len(<<"+">>) = 1
    OBVIOUS
  <2> QED
    BY <2>1, <2>2, <2>3, EmptySeq
<1>2. /\ x \in Seq(Plain) /\ Len(x) = Len(p) + Len(w) /\ Len(p) \in Nat /\ Len(w) \in Nat \ {0}
      /\ \A i \in 1 .. Len(p) + Len(w) : x[i] = IF i <= Len(p) THEN p[i] ELSE w[i - Len(p)]
  BY <1>1, ConcatProperties, EmptySeq, LenProperties
<1>3. SubSeq(x, Len(p) + 1, Len(x)) = w
  BY <1>1, Cut
<1>4. x[1] = "+" <=> p = <<"+">>
  <2>1. CASE p = <<>>
    <3>1. x = w
      BY <2>1, ConcatEmptySeq
    <3>2. p # <<"+">>
      BY <2>1
    <3> QED
      BY <3>1, <3>2
  <2>2. CASE p = <<"+">>
    <3>1. (<<"+">> \o w)[1] = "+"
      BY <1>1, InFront
    <3> QED
      BY <2>2, <3>1
  <2> QED
    BY <2>1, <2>2
<1> HIDE DEF x
<1>5. x \in Seq(Characters) /\ y \in Seq(Characters)
  BY <1>2, PlainFacts, SeqMonotonic
<1>6. z \in Seq(Characters) /\ Len(z) = 1 + Len(x) /\ z[1] = "e" /\ Tail(z) = x
  BY <1>5, PlainFacts, InFront
<1> HIDE DEF z
<1>7. Len(x) \in Nat \ {0}
  BY <1>2
<1>8. z # <<>>
  <2>1. Len(z) # 0
    BY <1>6, <1>7
  <2> QED
    BY <1>6, <2>1, EmptySeq
<1>9. \A i \in 1 .. Len(x) : z[i + 1] = x[i]
  <2>1. z \in Seq(Characters) /\ \A i \in 1 .. Len(Tail(z)) : Tail(z)[i] = z[i + 1]
    BY <1>6, <1>8, HeadTailProperties
  <2> QED
    BY ONLY <1>6, <2>1, ZenonT(30)
<1>10. /\ s \in Seq(Characters) /\ Len(s) = m + Len(z)
       /\ \A i \in 1 .. m + Len(z) : s[i] = IF i <= m THEN y[i] ELSE z[i - m]
  <2>1. z \in Seq(Characters)
    BY <1>6
  <2> QED
    BY ONLY <1>5, <2>1, ConcatProperties
<1>11. \A i, j \in 1 .. m : SubSeq(s, i, j) = SubSeq(y, i, j)
  BY <1>5, <1>6, SubSeqOfConcat1
<1>12. m \in Nat \ {0}
  OBVIOUS
<1> HIDE DEF s
<1>13. \A i \in 1 .. m : s[i] = y[i] /\ y[i] \in Plain
  <2>1. \A i \in 1 .. m : i \in 1 .. m + Len(z) /\ i <= m
    BY <1>6, <1>7, <1>12
  <2>2. \A i \in 1 .. m : y[i] \in Plain
    BY ElementOfSeq
  <2> QED
    BY <1>10, <2>1, <2>2
<1> HIDE DEF m
<1>14. Len(s) = m + 1 + Len(x) /\ s[m + 1] = "e"
       /\ \A i \in 1 .. Len(x) : s[m + 1 + i] = x[i] /\ x[i] \in Plain
  <2>1. m + 1 \in 1 .. m + Len(z) /\ ~(m + 1 <= m) /\ (m + 1) - m = 1
    BY <1>6, <1>7, <1>12
  <2>2. s[m + 1] = z[1]
    BY <1>10, <2>1
  <2>3. ASSUME NEW i \in 1 .. Len(x)
        PROVE  s[m + 1 + i] = x[i]
    <3>1. m + 1 + i \in 1 .. m + Len(z) /\ ~(m + 1 + i <= m) /\ (m + 1 + i) - m = i + 1
      BY <1>6, <1>7, <1>12
    <3>2. s[m + 1 + i] = z[i + 1]
      BY <1>10, <3>1
    <3> QED
      BY <1>9, <3>2
  <2>4. \A i \in 1 .. Len(x) : x[i] \in Plain
    BY <1>2, ElementOfSeq
  <2>5. Len(s) = m + 1 + Len(x)
    BY <1>6, <1>7, <1>10, <1>12
  <2> QED
    BY <1>6, <2>2, <2>3, <2>4, <2>5
<1>15. ASSUME NEW i \in 1 .. Len(s), s[i] = "e"
       PROVE  i = m + 1
  <2>1. CASE i \in 1 .. m
    BY <1>13, <1>15, <2>1, PlainFacts
  <2>2. CASE i > m + 1
    <3> DEFINE j == i - (m + 1)
    <3>1. j \in 1 .. Len(x) /\ m + 1 + j = i
      BY <1>7, <1>12, <1>14, <2>2
    <3> HIDE DEF j
    <3>2. s[m + 1 + j] \in Plain
      BY <1>14, <3>1
    <3> QED
      BY <1>15, <3>1, <3>2, PlainFacts
  <2> QED
    BY <1>7, <1>12, <1>14, <2>1, <2>2
<1> DEFINE e == ExponentAt(s)
<1>16. e = m + 1
  <2>1. m + 1 \in 1 .. Len(s)
    BY <1>7, <1>12, <1>14
  <2> QED
    BY <1>14, <1>15, <2>1 DEF ExponentAt
<1> HIDE DEF e
<1>17. s[e + 1] = x[1]
  <2>1. 1 \in 1 .. Len(x) /\ e + 1 = m + 1 + 1
    BY <1>7, <1>12, <1>16
  <2> QED
    BY <1>14, <2>1
<1>18. SubSeq(s, e + 1 + Len(p), Len(s)) = w
  <2> DEFINE q == SubSeq(s, e + 1 + Len(p), Len(s))
             a == e + 1 + Len(p)
             b == Len(s)
  <2>1. a \in Int /\ b \in Int /\ a \in Nat \ {0} /\ b = m + 1 + Len(p) + Len(w) /\ a = m + 2 + Len(p)
    BY <1>2, <1>12, <1>14, <1>16
  <2>2. \A i \in a .. b : i \in 1 .. Len(s)
    BY <2>1
  <2>3. \A i \in a .. b : s[i] \in Characters
    BY <1>10, <2>2, ElementOfSeq
  <2> HIDE DEF a, b
  <2>4. /\ SubSeq(s, a, b) \in Seq(Characters)
        /\ Len(SubSeq(s, a, b)) = (IF a <= b THEN b - a + 1 ELSE 0)
        /\ \A i \in 1 .. b - a + 1 : SubSeq(s, a, b)[i] = s[a + i - 1]
    BY ONLY <2>1, <2>3, SubSeqProperties
  <2>5. b - a + 1 = Len(w) /\ a <= b
    BY <1>2, <1>12, <2>1
  <2>6. ASSUME NEW i \in 1 .. Len(w)
        PROVE  SubSeq(s, a, b)[i] = w[i]
    <3>1. /\ a + i - 1 = m + 1 + (Len(p) + i) /\ Len(p) + i \in 1 .. Len(x)
          /\ ~(Len(p) + i <= Len(p)) /\ (Len(p) + i) - Len(p) = i
          /\ Len(p) + i \in 1 .. Len(p) + Len(w)
      BY <1>2, <1>12, <2>1
    <3>2. s[a + i - 1] = x[Len(p) + i]
      BY <1>14, <3>1
    <3>3. x[Len(p) + i] = w[i]
      BY <1>2, <3>1
    <3> QED
      BY <2>4, <2>5, <3>2, <3>3
  <2>7. w \in Seq(Characters)
    BY PlainFacts, SeqMonotonic
  <2>8. Len(SubSeq(s, a, b)) = Len(w)
    BY <2>4, <2>5
  <2>9. SubSeq(s, a, b) = w
    BY <2>4, <2>6, <2>7, <2>8, SeqEqual
  <2> QED
    BY <2>9 DEF a, b
<1>19. SubSeq(s, IF s[e + 1] = "+" THEN e + 2 ELSE e + 1, Len(s)) = w
  <2>1. (IF s[e + 1] = "+" THEN e + 2 ELSE e + 1) = e + 1 + Len(p)
    <3>1. s[e + 1] = "+" => p = <<"+">> /\ Len(p) = 1
      BY <1>1, <1>4, <1>17
    <3>2. s[e + 1] # "+" => Len(p) = 0
      BY <1>1, <1>4, <1>17
    <3>3. e \in Nat
      BY <1>12, <1>16
    <3> DEFINE j == Len(p)
    <3> HIDE DEF j
    <3>4. CASE s[e + 1] = "+"
      <4>1. j = 1
        BY <3>1, <3>4 DEF j
      <4>2. e + 1 + j = e + 2
        BY ONLY <3>3, <4>1
      <4> QED
        BY <3>4, <4>2 DEF j
    <3>5. CASE s[e + 1] # "+"
      <4>1. j = 0
        BY <3>2, <3>5 DEF j
      <4>2. e + 1 + j = e + 1
        BY ONLY <3>3, <4>1
      <4> QED
        BY <3>5, <4>2 DEF j
    <3> QED
      BY <3>4, <3>5
  <2> QED
    BY <1>18, <2>1
<1> QED
  BY <1>10, <1>11, <1>13, <1>16, <1>19 DEF Scientific, s, e, m, z, x

Front(negative) == IF negative THEN <<"-">> ELSE IF align THEN <<" ">> ELSE <<>>
Plus(exponent) == IF exponent >= 0 THEN <<"+">> ELSE <<>>
Last(n) == IF n > 1 THEN n ELSE 1
Behind(mantissa, exponent, last) ==
  Scientific(Pointed(FloatingDigits(mantissa, last)), Plus(exponent),
             AppendInteger(exponent, Tens))

\* Floating point numbers that are neither zero nor nan nor infinite.
Finite(x) ==
  /\ x.kind = "finite" /\ x.negative \in BOOLEAN /\ x.exponent \in Int
  /\ x.mantissa \in Power(10, Precision) .. Power(10, Precision + 1) - 1 /\ x.mantissa # 0

\* The provers lose their way among the terms of \o; this one is opaque to them.
Joined(a, b) == a \o b

\* Texts may be put together in any order.
LEMMA Associate ==
  \A S : \A a, b, c \in Seq(S) :
    Joined(Joined(a, b), c) = Joined(a, Joined(b, c)) /\ Joined(a, b) \in Seq(S)
<1>1. \A S : \A a, b \in Seq(S) : Joined(a, b) \in Seq(S)
  BY ConcatProperties DEF Joined
<1>2. \A S : \A a, b, c \in Seq(S) : Joined(Joined(a, b), c) = Joined(a, Joined(b, c))
  BY ConcatAssociative DEF Joined
<1> QED
  BY <1>1, <1>2

\* The order of append, and that of the reader, who begins behind the digits.
LEMMA FiveAssociate ==
  ASSUME NEW S, NEW a \in Seq(S), NEW b \in Seq(S), NEW c \in Seq(S), NEW p \in Seq(S),
         NEW w \in Seq(S)
  PROVE  Joined(Joined(Joined(Joined(a, b), c), p), w)
           = Joined(a, Joined(b, Joined(c, Joined(p, w))))
<1>1. /\ Joined(a, b) \in Seq(S) /\ Joined(Joined(a, b), c) \in Seq(S)
      /\ Joined(p, w) \in Seq(S) /\ Joined(c, Joined(p, w)) \in Seq(S)
  BY Associate
<1>2. Joined(Joined(Joined(Joined(a, b), c), p), w)
        = Joined(Joined(Joined(a, b), c), Joined(p, w))
  BY <1>1, Associate
<1>3. Joined(Joined(Joined(a, b), c), Joined(p, w))
        = Joined(Joined(a, b), Joined(c, Joined(p, w)))
  BY <1>1, Associate
<1>4. Joined(Joined(a, b), Joined(c, Joined(p, w)))
        = Joined(a, Joined(b, Joined(c, Joined(p, w))))
  BY <1>1, Associate
<1> QED
  BY <1>2, <1>3, <1>4

\* The text of a floating point number: its sign, and what is behind it.
LEMMA FloatingPrinted ==
  ASSUME FormatAssumption, prefix \in BOOLEAN, NEW x, Finite(x), NEW n \in Nat
  PROVE  /\ AppendFloating(x, n) = Front(x.negative) \o Behind(x.mantissa, x.exponent, Last(n))
         /\ Front(x.negative) \in Signs /\ Front(x.negative) \in Seq(Characters)
         /\ Front(x.negative) = <<"-">> <=> x.negative
         /\ Behind(x.mantissa, x.exponent, Last(n)) \in Seq(Characters)
<1> DEFINE last == Last(n)
           d == FloatingDigits(x.mantissa, last)
           g == Front(x.negative)
           y == Pointed(d)
           E == <<"e">>
           p == Plus(x.exponent)
           w == AppendInteger(x.exponent, Tens)
<1>1. last \in Nat \ {0} /\ x.mantissa \in Power(10, Precision) .. Power(10, Precision + 1) - 1
  BY DEF Last, Finite
<1>2. d \in Seq(Decimals) /\ Len(d) = last
  BY <1>1, FloatingDigitsRead
<1>3. AppendFloating(x, n) = (((g \o y) \o E) \o p) \o w
  <2>1. x.kind = "finite" /\ x.mantissa # 0
    BY DEF Finite
  <2>2. (last > 1 <=> Len(d) > 1)
    BY <1>2
  <2>3. y = IF last > 1 THEN <<d[1], ".">> \o Tail(d) ELSE d
    <3> HIDE DEF d
    <3> QED
      BY <2>2 DEF Pointed
  <2>4. AppendFloating(x, n) = (((g \o (IF last > 1 THEN <<d[1], ".">> \o Tail(d) ELSE d)) \o E) \o p) \o w
    BY <2>1 DEF AppendFloating, Front, Plus, Tens, Last
  <2> QED
    BY <2>3, <2>4
<1>4. d # <<>>
  <2> HIDE DEF d
  <2>1. Len(d) # 0
    BY <1>1, <1>2
  <2> QED
    BY <1>2, <2>1, EmptySeq
<1> HIDE DEF d
<1>5. y \in Seq(Characters)
  <2>1. y \in Seq(Plain)
    BY <1>2, <1>4, PointedFacts
  <2> QED
    BY <2>1, PlainFacts, SeqMonotonic
<1>6. w \in Seq(Characters)
  <2>1. w \in Seq(Plain)
    BY ExponentReads DEF Finite
  <2> QED
    BY <2>1, PlainFacts, SeqMonotonic
<1>7. \A c \in Characters : <<c>> \in Seq(Characters)
  OBVIOUS
<1>8. {"-", " ", "+", "e"} \subseteq Characters
  BY DEF Characters, Numerals
<1>9. <<"-">> \in Seq(Characters) /\ <<" ">> \in Seq(Characters) /\ <<"+">> \in Seq(Characters)
      /\ <<"e">> \in Seq(Characters) /\ <<>> \in Seq(Characters)
  BY <1>7, <1>8, EmptySeq
<1>10. <<" ">> # <<"-">> /\ <<>> # <<"-">>
  OBVIOUS
<1>11. g \in Signs /\ g \in Seq(Characters) /\ (g = <<"-">> <=> x.negative)
  <2>1. x.negative \in BOOLEAN
    BY DEF Finite
  <2> QED
    BY <1>9, <1>10, <2>1 DEF Front, Signs
<1>12. p \in Seq(Characters) /\ E \in Seq(Characters)
  BY <1>9 DEF Plus
<1> HIDE DEF g, y, E, p, w
<1>13. (((g \o y) \o E) \o p) \o w = g \o (y \o (E \o (p \o w)))
  <2>1. Joined(Joined(Joined(Joined(g, y), E), p), w)
          = Joined(g, Joined(y, Joined(E, Joined(p, w))))
    BY <1>5, <1>6, <1>11, <1>12, FiveAssociate
  <2> QED
    BY <2>1 DEF Joined
<1>14. y \o (E \o (p \o w)) \in Seq(Characters)
  <2>1. p \o w \in Seq(Characters)
    BY <1>6, <1>12, ConcatProperties
  <2>2. E \o (p \o w) \in Seq(Characters)
    BY <1>12, <2>1, ConcatProperties
  <2> QED
    BY <1>5, <2>2, ConcatProperties
<1> QED
  BY <1>3, <1>11, <1>13, <1>14 DEF Behind, Scientific, g, y, E, p, w, d

\* Who reads the text of a floating point number gets the number.
LEMMA FloatingReads ==
  ASSUME FormatAssumption, prefix \in BOOLEAN, NEW x, Finite(x), NEW f \in LogFormat
  PROVE  ReadsFloating(AppendFloating(x, f.fill), x, f)
<1> DEFINE last == Last(f.fill)
           d == FloatingDigits(x.mantissa, last)
           g == Front(x.negative)
           y == Pointed(d)
           p == Plus(x.exponent)
           w == AppendInteger(x.exponent, Tens)
           t == AppendFloating(x, f.fill)
           b == Behind(x.mantissa, x.exponent, last)
           z == Scientific(y, p, w)
<1>1. f.fill \in Nat
  BY DEF LogFormat
<1>2. /\ t = g \o b /\ g \in Signs /\ (g = <<"-">> <=> x.negative) /\ b \in Seq(Characters)
      /\ b = z
  <2> HIDE DEF g, t, y, p, w
  <2> QED
    BY <1>1, FloatingPrinted DEF g, t, Behind, y, d, p, w
<1>3. last \in Nat \ {0} /\ last = IF f.fill > 1 THEN f.fill ELSE 1
  BY <1>1 DEF Last
<1>4. /\ d \in Seq(Decimals) /\ Len(d) = last
      /\ Abs(Value(d, 10) * Power(10, Precision) - x.mantissa * Power(10, last - 1))
           < Power(10, Precision)
  BY <1>3, FloatingDigitsRead DEF Finite
<1> HIDE DEF d
<1>5. d # <<>>
  <2>1. Len(d) # 0
    BY <1>3, <1>4
  <2> QED
    BY <1>4, <2>1, EmptySeq
<1> DEFINE n == Len(y)
<1>6. /\ y \in Seq(Plain) /\ n = (IF Len(d) > 1 THEN Len(d) + 1 ELSE 1)
      /\ y[1] = d[1] /\ d[1] \in Decimals
      /\ Len(d) > 1 => y[2] = "." /\ n > 2 /\ SubSeq(y, 3, n) = Tail(d)
      /\ ~(Len(d) > 1) => Tail(d) = <<>>
  BY <1>4, <1>5, PointedFacts
<1>7. n \in Nat \ {0}
  BY <1>3, <1>4, <1>6
<1>8. /\ w \in Seq(Plain) /\ w # <<>> /\ w[1] # "+"
      /\ ReadsInteger(w, x.exponent, Tens)
  BY ExponentReads DEF Finite
<1>9. p \in {<<>>, <<"+">>}
  BY DEF Plus
<1> DEFINE e == ExponentAt(z)
<1> HIDE DEF y, p, w
<1>10. /\ z \in Seq(Characters) /\ e = n + 1
       /\ \A i \in 1 .. n : z[i] = y[i]
       /\ \A i, j \in 1 .. n : SubSeq(z, i, j) = SubSeq(y, i, j)
       /\ SubSeq(z, IF z[e + 1] = "+" THEN e + 2 ELSE e + 1, Len(z)) = w
  <2>1. y \in Seq(Plain)
    BY <1>6
  <2> QED
    BY <1>7, <1>8, <1>9, <2>1, ExponentFound, ZenonT(30)
<1> HIDE DEF z, e, n
<1>11. z[1] = d[1] /\ z[1] \in Numerals
  <2>1. 1 \in 1 .. n
    BY <1>7
  <2> QED
    BY <1>6, <1>10, <2>1, PlainFacts
<1>12. z # <<>>
  <2>1. CASE z = <<>>
    <3>1. Len(z) = 0
      BY <2>1
    <3>2. w # SubSeq(z, IF z[e + 1] = "+" THEN e + 2 ELSE e + 1, Len(z))
      <4> DEFINE a == IF z[e + 1] = "+" THEN e + 2 ELSE e + 1
      <4>1. a \in Int /\ Len(z) \in Int /\ Len(z) < a
        BY <1>7, <1>10, <3>1
      <4> HIDE DEF a
      <4>2. SubSeq(z, a, Len(z)) = <<>>
        BY ONLY <4>1, SubSeqEmpty
      <4> QED
        <5>1. w # SubSeq(z, a, Len(z))
          BY <1>8, <4>2
        <5> QED
          BY <5>1 DEF a
    <3> QED
      BY <1>10, <3>2
  <2> QED
    BY <2>1
<1>13. Unsign(t) = z /\ (t[1] = "-" <=> x.negative)
  BY <1>2, <1>10, <1>11, <1>12, SignOff
<1>14. e - 1 = n
  BY <1>7, <1>10
<1>15. SubSeq(z, 3, e - 1) = Tail(d)
  <2>1. CASE Len(d) > 1
    <3>1. 3 \in 1 .. n /\ n \in 1 .. n
      BY <1>6, <1>7, <2>1
    <3>2. SubSeq(z, 3, n) = SubSeq(y, 3, n)
      BY <1>10, <3>1
    <3> QED
      BY <1>6, <1>14, <2>1, <3>2
  <2>2. CASE ~(Len(d) > 1)
    <3>1. n < 3 /\ n \in Int /\ 3 \in Int
      BY <1>6, <2>2
    <3>2. SubSeq(z, 3, n) = <<>>
      BY ONLY <3>1, SubSeqEmpty
    <3> QED
      BY <1>6, <1>14, <2>2, <3>2
  <2> QED
    BY <2>1, <2>2
<1>16. <<z[1]>> \o SubSeq(z, 3, e - 1) = d
  BY <1>4, <1>5, <1>11, <1>15, FirstAndOthers
<1>17. IsNumeral(d, 10)
  <2>1. ASSUME NEW i \in 1 .. Len(d)
        PROVE  \E c \in 0 .. 10 - 1 : d[i] = Digit2char[c + 1]
    <3>1. d[i] \in Decimals
      BY <1>4, ElementOfSeq
    <3>2. PICK c \in 0 .. 9 : d[i] = Digit(c)
      BY <3>1 DEF Decimals
    <3> QED
      BY <3>2 DEF Digit
  <2> QED
    BY <1>5, <2>1 DEF IsNumeral
<1>18. e > 2 => z[2] = "." /\ e > 3
  <2> SUFFICES ASSUME e > 2 PROVE z[2] = "." /\ e > 3
    OBVIOUS
  <2>1. Len(d) > 1
    BY <1>6, <1>7, <1>10
  <2>2. n > 2 /\ y[2] = "." /\ 2 \in 1 .. n
    BY <1>6, <1>7, <2>1
  <2> QED
    BY <1>7, <1>10, <2>2
<1> HIDE DEF t, last
<1>19. ReadsFloating(t, x, f)
  BY <1>3, <1>4, <1>8, <1>10, <1>13, <1>16, <1>17, <1>18 DEF ReadsFloating, ExponentAt, Tens, e
<1> QED
  BY <1>19 DEF t

-----------------------------------------------------------------------------
(* The chain: which format an argument gets. *)

\* A format is told from its absence.
LEMMA NoFormatIsNothing ==
  ASSUME NEW f \in LogFormat
  PROVE  f # Nothing
<1>1. DOMAIN f = {"base", "fill"}
  BY DEF LogFormat
<1>2. DOMAIN Nothing = {}
  BY DEF Nothing
<1> QED
  BY <1>1, <1>2

\* The item is the text of its argument by the format that was given for it, unless
\* that is ignored, and by no other.
Served(x) ==
  /\ x.argument \in Arguments
  /\ x.given \in {Nothing} \cup LogFormat
  /\ x.text = IF x.given # Nothing /\ ~Ignored(x) THEN AppendFormatted(x.given, x.argument)
              ELSE AppendDefault(x.argument)

\* A format waits in the helper if and only if one with a base was given last.
Waiting ==
  /\ prefix \in BOOLEAN /\ align \in BOOLEAN
  /\ nextFormat \in LogFormat /\ given \in {Nothing} \cup LogFormat
  /\ IsValid(nextFormat) <=> given # Nothing /\ IsValid(given)
  /\ IsValid(nextFormat) => given = nextFormat

Inv == Waiting /\ (item # Nothing => Served(item))

\* The text of an argument depends on the configuration alone.
LEMMA TextsStay ==
  ASSUME UNCHANGED <<prefix, align>>
  PROVE  /\ \A f, x : AppendFormatted(f, x)' = AppendFormatted(f, x)
         /\ \A x : AppendDefault(x)' = AppendDefault(x)
BY DEF AppendFormatted, AppendDefault, AppendNumber, AppendInteger, AppendFloating, Sign,
       BasePrefix

\* An item stays served for as long as the configuration stays.
LEMMA ServedNext ==
  ASSUME UNCHANGED <<prefix, align>>, NEW t, Served(t), item' = t
  PROVE  Served(item)'
<1>1. AppendFormatted(item.given, item.argument)' = AppendFormatted(t.given, t.argument)
  BY TextsStay
<1>2. AppendDefault(item.argument)' = AppendDefault(t.argument)
  BY TextsStay
<1>3. Ignored(item)' <=> Ignored(t)
  BY DEF Ignored, IsValid
<1> QED
  BY <1>1, <1>2, <1>3 DEF Served

\* The invariant holds in every state.
LEMMA InvHolds == Spec => []Inv
<1> USE FormatAssumption
<1>1. Init => Inv
  <2> SUFFICES ASSUME Init PROVE Inv
    OBVIOUS
  <2>1. nextFormat \in LogFormat /\ ~IsValid(nextFormat) /\ given = Nothing
    BY DEF Init, NoFormat, LogFormat, IsValid
  <2> QED
    BY <2>1 DEF Init, Inv, Waiting
<1>2. Inv /\ [Next]_vars => Inv'
  <2> SUFFICES ASSUME Inv, [Next]_vars PROVE Inv'
    OBVIOUS
  <2>0. UNCHANGED <<prefix, align>>
    BY DEF Next, vars, SetFormat, Argument, SendFormatted
  <2>1. ASSUME NEW f \in Formats, SetFormat(f)
        PROVE  Inv'
    <3>1. f \in LogFormat /\ f # Nothing
      BY NoFormatIsNothing DEF FormatAssumption
    <3>2. nextFormat' = f /\ given' = f /\ UNCHANGED <<prefix, align, item>>
      BY <2>1 DEF SetFormat
    <3>3. Waiting'
      BY <3>1, <3>2 DEF Inv, Waiting, IsValid
    <3>4. (item # Nothing => Served(item))'
      BY <2>0, <3>2, ServedNext DEF Inv
    <3> QED
      BY <3>3, <3>4 DEF Inv
  <2>2. ASSUME NEW x \in Arguments, Argument(x)
        PROVE  Inv'
    <3> DEFINE t == [argument |-> x, given |-> given, chained |-> TRUE,
                     text |-> IF IsValid(nextFormat) THEN AppendFormatted(nextFormat, x)
                              ELSE AppendDefault(x)]
    <3>1. /\ item' = t /\ given' = Nothing
          /\ nextFormat' = IF IsValid(nextFormat) THEN [nextFormat EXCEPT !.base = 0]
                           ELSE nextFormat
      BY <2>2 DEF Argument
    <3>2. nextFormat' \in LogFormat /\ ~IsValid(nextFormat)'
      BY <3>1 DEF Inv, Waiting, LogFormat, IsValid
    <3>3. Waiting'
      BY <2>0, <3>1, <3>2 DEF Inv, Waiting, IsValid
    <3>4. Served(t)
      <4>1. given \in {Nothing} \cup LogFormat
        BY DEF Inv, Waiting
      <4>2. t.argument = x /\ t.given = given /\ t.chained
            /\ t.text = IF IsValid(nextFormat) THEN AppendFormatted(nextFormat, x)
                        ELSE AppendDefault(x)
        OBVIOUS
      <4> HIDE DEF t
      <4> QED
        BY <4>1, <4>2 DEF Served, Ignored, Inv, Waiting
    <3> HIDE DEF t
    <3>5. Served(item)'
      BY <2>0, <3>1, <3>4, ServedNext
    <3> QED
      BY <3>3, <3>5 DEF Inv
  <2>3. ASSUME NEW f \in Formats, NEW x \in Arguments, SendFormatted(f, x)
        PROVE  Inv'
    <3>1. f \in LogFormat /\ f # Nothing
      BY NoFormatIsNothing DEF FormatAssumption
    <3> DEFINE t == [argument |-> x, given |-> f, chained |-> FALSE,
                     text |-> AppendFormatted(f, x)]
    <3>2. item' = t /\ UNCHANGED <<prefix, align, nextFormat, given>>
      BY <2>3 DEF SendFormatted
    <3>3. Served(t)
      BY <3>1 DEF Served, Ignored
    <3> HIDE DEF t
    <3>4. Served(item)'
      BY <2>0, <3>2, <3>3, ServedNext
    <3>5. Waiting'
      BY <3>2 DEF Inv, Waiting, IsValid
    <3> QED
      BY <3>4, <3>5 DEF Inv
  <2>4. CASE UNCHANGED vars
    <3>1. UNCHANGED <<prefix, align, nextFormat, given, item>>
      BY <2>4 DEF vars
    <3>2. (item # Nothing => Served(item))'
      BY <2>0, <3>1, ServedNext DEF Inv
    <3>3. Waiting'
      BY <3>1 DEF Inv, Waiting, IsValid
    <3> QED
      BY <3>2, <3>3 DEF Inv
  <2> QED
    BY <2>1, <2>2, <2>3, <2>4 DEF Next
<1> QED
  BY <1>1, <1>2, PTL DEF Spec

Words == UNION {{Integer(t, v) : v \in Word(t)} : t \in Signed \cup Unsigned}
Fractions ==
  [type : Floating, kind : {"finite"}, negative : BOOLEAN, mantissa : Mantissas,
   exponent : Exponents]
Specials == [type : Floating, kind : {"nan", "inf"}]
Texts == [type : {"string", "bool"}, kind : {"text"}]

\* The kinds of arguments and what each has.
LEMMA ArgumentFacts ==
  ASSUME FormatAssumption, NEW x \in Arguments
  PROVE  \/ /\ x \in Words
            /\ x.type \in Signed \cup Unsigned /\ x.kind = "integer" /\ x.value \in Int
         \/ /\ x \in Fractions
            /\ x.type \in Floating /\ x.kind = "finite" /\ x.negative \in BOOLEAN
            /\ x.mantissa \in Mantissas /\ x.exponent \in Int
            /\ x.mantissa # 0 => Finite(x)
         \/ x.type \in Floating /\ x.kind \in {"nan", "inf"}
         \/ x.type \in {"string", "bool"} /\ x.kind = "text"
<1>1. CASE x \in Words
  <2>0. PICK t \in Signed \cup Unsigned : \E v \in Word(t) : x = Integer(t, v)
    BY <1>1 DEF Words
  <2>1. PICK v \in Word(t) : x = Integer(t, v)
    BY <2>0
  <2>2. v \in Int
    BY DEF Word
  <2> QED
    BY <1>1, <2>1, <2>2 DEF Integer
<1>2. CASE x \in Fractions
  <2>1. /\ x.type \in Floating /\ x.kind = "finite" /\ x.negative \in BOOLEAN
        /\ x.mantissa \in Mantissas /\ x.exponent \in Exponents
    BY <1>2 DEF Fractions
  <2>2. x.exponent \in Int
    BY <2>1 DEF FormatAssumption
  <2>3. x.mantissa # 0 => x.mantissa \in Power(10, Precision) .. Power(10, Precision + 1) - 1
    BY <2>1 DEF FormatAssumption
  <2> QED
    BY <1>2, <2>1, <2>2, <2>3 DEF Finite
<1>3. CASE x \in Specials
  BY <1>3 DEF Specials
<1>4. CASE x \in Texts
  BY <1>4 DEF Texts
<1>5. Arguments = Words \cup Fractions \cup Specials \cup Texts
  BY DEF Arguments, Words, Fractions, Specials, Texts
<1>6. x \in Words \/ x \in Fractions \/ x \in Specials \/ x \in Texts
  BY <1>5
<1> QED
  BY <1>1, <1>2, <1>3, <1>4, <1>6

\* The text of a number is that of its value by the format promised for it, where
\* the code does not diverge.
LEMMA PromisedText ==
  ASSUME FormatAssumption, Inv, item # Nothing, ~Diverges, item.argument.kind # "text"
  PROVE  Promised \in LogFormat /\ item.text = AppendNumber(item.argument, Promised)
<1> DEFINE x == item.argument
<1>1. /\ x \in Arguments /\ item.given \in {Nothing} \cup LogFormat
      /\ item.text = IF item.given # Nothing THEN AppendFormatted(item.given, x)
                     ELSE AppendDefault(x)
  BY DEF Inv, Served, Diverges
<1>2. x.type \in Signed \cup Unsigned \cup Floating
  <2> HIDE DEF x
  <2> QED
    BY <1>1, ArgumentFacts DEF x
<1>3. x.type \notin {"string", "bool"}
  BY <1>2 DEF Signed, Unsigned, Floating
<1>4. CASE item.given # Nothing
  <2>1. x.type # "int32"
    BY <1>4 DEF Diverges
  <2>2. Promised = item.given /\ AppendFormatted(item.given, x) = AppendNumber(x, item.given)
    BY <1>3, <1>4, <2>1 DEF Promised, AppendFormatted
  <2> QED
    BY <1>1, <1>4, <2>2
<1>5. CASE item.given = Nothing
  <2>1. x.type # "uint64"
    BY <1>5 DEF Diverges
  <2>2. Promised = TypeFormat[x.type] /\ AppendDefault(x) = AppendNumber(x, TypeFormat[x.type])
    BY <1>5, <2>1 DEF Promised, AppendDefault
  <2>3. TypeFormat[x.type] \in LogFormat
    BY <1>2 DEF FormatAssumption
  <2> QED
    BY <1>1, <1>5, <2>2, <2>3
<1> QED
  BY <1>4, <1>5

\* What is served by the format promised for it reads back.
LEMMA InvReadsBack ==
  ASSUME FormatAssumption, Inv
  PROVE  ReadsBack
<1> SUFFICES ASSUME item # Nothing, item.argument.kind \in {"integer", "finite"}, ~Diverges
             PROVE  IF item.argument.kind = "integer"
                    THEN IF IsValid(Promised)
                         THEN ReadsInteger(item.text, item.argument.value, Promised)
                         ELSE item.text = <<"#">>
                    ELSE IF item.argument.mantissa = 0 THEN item.text = <<"0">>
                         ELSE ReadsFloating(item.text, item.argument, Promised)
  BY DEF ReadsBack
<1> DEFINE x == item.argument
<1>1. x \in Arguments /\ x.kind # "text" /\ prefix \in BOOLEAN
  BY DEF Inv, Served, Waiting
<1>2. PICK f \in LogFormat : f = Promised /\ item.text = AppendNumber(x, f)
  BY <1>1, PromisedText
<1>3. CASE x.kind = "integer"
  <2>1. x.value \in Int
    <3> HIDE DEF x
    <3> QED
      BY <1>1, <1>3, ArgumentFacts
  <2>2. item.text = AppendInteger(x.value, f)
    BY <1>2, <1>3 DEF AppendNumber
  <2>3. CASE IsValid(f)
    <3>1. ReadsInteger(AppendInteger(x.value, f), x.value, f)
      BY <1>1, <2>1, <2>3, IntegerReads
    <3> QED
      BY <1>2, <1>3, <2>2, <2>3, <3>1
  <2>4. CASE ~IsValid(f)
    <3>1. item.text = <<"#">>
      BY <2>2, <2>4 DEF AppendInteger
    <3> QED
      BY <1>2, <1>3, <2>4, <3>1
  <2> QED
    BY <2>3, <2>4
<1>4. CASE x.kind = "finite"
  <2>1. item.text = AppendFloating(x, f.fill)
    BY <1>2, <1>4 DEF AppendNumber
  <2>2. CASE x.mantissa = 0
    <3>1. item.text = <<"0">>
      BY <1>4, <2>1, <2>2 DEF AppendFloating
    <3> QED
      BY <1>4, <2>2, <3>1
  <2>3. CASE x.mantissa # 0
    <3>1. Finite(x)
      <4> HIDE DEF x
      <4> QED
        BY <1>1, <1>4, <2>3, ArgumentFacts
    <3>2. ReadsFloating(AppendFloating(x, f.fill), x, f)
      BY <1>1, <3>1, FloatingReads
    <3> QED
      BY <1>2, <1>4, <2>1, <2>3, <3>2
  <2> QED
    BY <2>2, <2>3
<1> QED
  BY <1>3, <1>4

\* A number and its opposite have as many digits.
LEMMA OppositeDigits ==
  ASSUME FormatAssumption, NEW b \in Bases, NEW v \in Int, NEW w \in Int, Abs(v) = Abs(w)
  PROVE  Len(Digits(v, b)) = Len(Digits(w, b))
<1> DEFINE m == Len(Digits(v, b))
           n == Len(Digits(w, b))
<1>1. Abs(v) \in Nat
  BY DEF Abs
<1>2. PICK r : Rests(r, Abs(v), b)
  BY <1>1, RestsExist
<1>3. Rests(r, Abs(w), b)
  BY <1>2
<1>4. m \in 1 .. StackLength + 1 /\ (m > 1 => r[m - 1] # 0) /\ (m > StackLength \/ r[m] = 0)
  BY <1>2, DigitsFacts
<1>5. n \in 1 .. StackLength + 1 /\ (n > 1 => r[n - 1] # 0) /\ (n > StackLength \/ r[n] = 0)
  BY <1>3, DigitsFacts
<1>6. StackLength \in Nat
  BY DEF FormatAssumption
<1> HIDE DEF m, n
<1>7. ASSUME NEW i \in 1 .. StackLength + 1, NEW j \in 1 .. StackLength + 1, i < j,
             i > StackLength \/ r[i] = 0, j > 1 => r[j - 1] # 0
      PROVE  FALSE
  <2>1. i \in Nat /\ j - 1 \in Nat /\ i <= j - 1 /\ ~(i > StackLength) /\ j > 1
    BY <1>6, <1>7
  <2>2. r[i] = 0 /\ r[j - 1] # 0
    BY <1>7, <2>1
  <2> QED
    BY <1>2, <2>1, <2>2, RestsStayZero
<1>8. ~(m < n) /\ ~(n < m)
  BY <1>4, <1>5, <1>7
<1>9. m \in Int /\ n \in Int
  BY <1>4, <1>5
<1> QED
  BY <1>8, <1>9 DEF m, n

\* An integer and its opposite take the same space if there is space for a sign.
LEMMA OppositeIntegers ==
  ASSUME FormatAssumption, prefix \in BOOLEAN, align, NEW v \in Int, NEW f \in LogFormat,
         f.fill > 0
  PROVE  Len(AppendInteger(v, f)) = Len(AppendInteger(-v, f))
<1>1. CASE ~IsValid(f)
  BY <1>1 DEF AppendInteger
<1>2. CASE IsValid(f)
  <2> DEFINE b == f.base
  <2>1. b \in Bases /\ f.fill \in Nat
    BY <1>2 DEF IsValid, Bases, LogFormat
  <2>2. Abs(v) \in Nat /\ -v \in Int /\ Abs(-v) = Abs(v)
    BY DEF Abs
  <2>3. PICK r : Rests(r, Abs(v), b)
    BY <2>1, <2>2, RestsExist
  <2>4. Len(Digits(v, b)) = Len(Digits(-v, b))
    BY <2>1, <2>2, OppositeDigits
  <2> DEFINE long == Abs(v) >= Power(b, StackLength)
             size == IF long THEN 1
                     ELSE 1 + (IF f.fill >= Len(Digits(v, b)) THEN f.fill ELSE Len(Digits(v, b)))
  <2>5. ASSUME NEW w \in Int, Abs(w) = Abs(v), Len(Digits(w, b)) = Len(Digits(v, b))
        PROVE  Len(AppendInteger(w, f)) = Len(BasePrefix(b)) + size
    <3>1. Rests(r, Abs(w), b)
      BY <2>3, <2>5
    <3>2. PICK body : Printed(w, f, r, body) /\ AppendInteger(w, f) = BasePrefix(b) \o body
      BY <1>2, <3>1, IntegerPrinted
    <3>3. body \in Seq(Characters) /\ Len(body) = size
      <4>1. CASE long
        <5>1. body = <<"#">>
          BY <2>5, <3>2, <4>1 DEF Printed
        <5>2. "#" \in Characters
          BY DEF Characters
        <5>3. <<"#">> \in Seq(Characters) /\ Len(<<"#">>) = 1
          BY <5>2
        <5> QED
          BY <4>1, <5>1, <5>3
      <4>2. CASE ~long
        <5>1. PICK u \in Seq(Numerals) :
                /\ body = Sign(w, f.fill) \o u
                /\ Len(u) = IF f.fill >= Len(Digits(v, b)) THEN f.fill ELSE Len(Digits(v, b))
          BY <2>5, <3>2, <4>2 DEF Printed
        <5>2. u \in Seq(Characters)
          BY SeqMonotonic DEF Characters
        <5>3. PICK c \in {"-", " "} : Sign(w, f.fill) = <<c>>
          BY DEF Sign
        <5>4. c \in Characters
          BY DEF Characters
        <5>5. <<c>> \o u \in Seq(Characters) /\ Len(<<c>> \o u) = 1 + Len(u)
          BY ONLY <5>2, <5>4, InFront
        <5> QED
          BY <4>2, <5>1, <5>3, <5>5
      <4> QED
        BY <4>1, <4>2
    <3>4. BasePrefix(b) \in Seq(Characters)
      <4>1. {"0", "b", "x"} \subseteq Characters
        BY DEF Characters, Numerals
      <4>2. \A c, d \in Characters : <<c, d>> \in Seq(Characters)
        OBVIOUS
      <4>3. <<"0", "b">> \in Seq(Characters) /\ <<"0", "x">> \in Seq(Characters)
            /\ <<>> \in Seq(Characters)
        BY <4>1, <4>2, EmptySeq
      <4>4. b = 2 \/ b = 10 \/ b = 16
        BY <1>2 DEF IsValid
      <4> QED
        BY <4>3, <4>4 DEF BasePrefix
    <3> HIDE DEF size
    <3> QED
      BY <3>2, <3>3, <3>4, ConcatProperties
  <2> HIDE DEF size
  <2> QED
    BY <2>2, <2>4, <2>5
<1> QED
  BY <1>1, <1>2

\* A floating point number and its opposite take the same space.
LEMMA OppositeFloating ==
  ASSUME FormatAssumption, prefix \in BOOLEAN, align, NEW x, Finite(x), NEW y, Finite(y),
         y.mantissa = x.mantissa, y.exponent = x.exponent, NEW n \in Nat
  PROVE  Len(AppendFloating(x, n)) = Len(AppendFloating(y, n))
<1> DEFINE s == Behind(x.mantissa, x.exponent, Last(n))
<1>1. ASSUME NEW z, Finite(z), z.mantissa = x.mantissa, z.exponent = x.exponent
      PROVE  Len(AppendFloating(z, n)) = 1 + Len(s)
  <2>1. AppendFloating(z, n) = Front(z.negative) \o s /\ s \in Seq(Characters)
    BY <1>1, FloatingPrinted, ZenonT(30)
  <2>2. PICK c \in {"-", " "} : Front(z.negative) = <<c>>
    <3>1. CASE z.negative
      BY <3>1 DEF Front
    <3>2. CASE ~z.negative
      <4>1. Front(z.negative) = <<" ">>
        BY <3>2 DEF Front
      <4> QED
        BY <4>1
    <3> QED
      BY <3>1, <3>2
  <2>3. c \in Characters
    BY DEF Characters
  <2> HIDE DEF s
  <2>4. Len(<<c>> \o s) = 1 + Len(s)
    <3>1. s \in Seq(Characters)
      BY <2>1
    <3> QED
      BY ONLY <2>3, <3>1, InFront
  <2> QED
    BY <2>1, <2>2, <2>4
<1> HIDE DEF s
<1> QED
  BY <1>1

\* What is served by the format promised for it is aligned.
LEMMA InvAligned ==
  ASSUME FormatAssumption, Inv
  PROVE  Aligned
<1> SUFFICES ASSUME item # Nothing, ~Diverges, align, HasOpposite(item.argument), Promised.fill > 0
             PROVE  Len(item.text) = Len(IF item.given = Nothing
                                         THEN AppendDefault(Opposite(item.argument))
                                         ELSE AppendFormatted(item.given, Opposite(item.argument)))
  BY DEF Aligned
<1> DEFINE x == item.argument
           y == Opposite(x)
<1>1. /\ x \in Arguments /\ prefix \in BOOLEAN /\ item.given \in {Nothing} \cup LogFormat
      /\ item.text = IF item.given # Nothing THEN AppendFormatted(item.given, x)
                     ELSE AppendDefault(x)
  BY DEF Inv, Served, Waiting, Diverges
<1>2. /\ y.type = x.type /\ y.kind = x.kind /\ x.kind \in {"integer", "finite"}
      /\ x.type \in Signed \cup Floating
      /\ x.kind = "integer" => x.value \in Int /\ y.value = -x.value
      /\ x.kind = "finite" => /\ Finite(x) /\ Finite(y)
                              /\ y.mantissa = x.mantissa /\ y.exponent = x.exponent
  <2> HIDE DEF x
  <2>1. CASE x.kind = "integer"
    <3>1. x.type \in Signed \cup Unsigned /\ x.value \in Int
      BY <1>1, <2>1, ArgumentFacts
    <3>2. x.type \in Signed
      BY <2>1 DEF HasOpposite, x
    <3>3. y = [x EXCEPT !.value = -@]
      BY <2>1 DEF Opposite
    <3>4. y.value = -x.value /\ y.type = x.type /\ y.kind = x.kind
      <4>1. PICK t \in Signed \cup Unsigned : \E v \in Word(t) : x = Integer(t, v)
        <5>1. x \in Words
          BY <1>1, <2>1, ArgumentFacts
        <5> QED
          BY <5>1 DEF Words
      <4>2. PICK v : x = Integer(t, v)
        BY <4>1
      <4> HIDE DEF y
      <4> QED
        BY <3>3, <4>2 DEF Integer
    <3> HIDE DEF y
    <3> QED
      BY <2>1, <3>1, <3>2, <3>4
  <2>2. CASE x.kind # "integer"
    <3>1. x.kind = "finite" /\ x.mantissa # 0
      <4>1. x.type \notin Signed
        <5>1. Signed \cap Floating = {} /\ Signed \cap {"string", "bool"} = {}
          BY DEF Signed, Floating
        <5> QED
          BY <1>1, <2>2, <5>1, ArgumentFacts
      <4> QED
        BY <4>1 DEF HasOpposite, x
    <3>2. x.type \in Floating /\ Finite(x)
      BY <1>1, <3>1, ArgumentFacts
    <3>3. y = [x EXCEPT !.negative = ~@]
      BY <2>2 DEF Opposite
    <3>4. /\ y.type = x.type /\ y.kind = x.kind /\ y.mantissa = x.mantissa
          /\ y.exponent = x.exponent /\ y.negative = ~x.negative
      <4>1. x \in Fractions
        BY <1>1, <3>1, ArgumentFacts
      <4> HIDE DEF y
      <4> QED
        BY <3>3, <4>1 DEF Fractions
    <3> HIDE DEF y
    <3>5. Finite(y)
      BY <3>2, <3>4 DEF Finite
    <3> QED
      BY <2>2, <3>1, <3>2, <3>4, <3>5
  <2> QED
    BY <2>1, <2>2
<1> HIDE DEF y
<1>3. x.type \notin {"string", "bool"} /\ x.kind # "text" /\ x.type # "uint64"
  BY <1>2 DEF Signed, Floating
<1>4. ASSUME NEW f \in LogFormat, f.fill > 0
      PROVE  Len(AppendNumber(x, f)) = Len(AppendNumber(y, f))
  <2>1. CASE x.kind = "integer"
    <3>1. Len(AppendInteger(x.value, f)) = Len(AppendInteger(-x.value, f))
      BY <1>1, <1>2, <1>4, <2>1, OppositeIntegers
    <3> QED
      BY <1>2, <2>1, <3>1 DEF AppendNumber
  <2>2. CASE x.kind # "integer"
    <3>1. f.fill \in Nat
      BY DEF LogFormat
    <3>2. Finite(x) /\ Finite(y) /\ y.mantissa = x.mantissa /\ y.exponent = x.exponent
      BY <1>2, <2>2
    <3>3. prefix \in BOOLEAN
      BY <1>1
    <3>4. Len(AppendFloating(x, f.fill)) = Len(AppendFloating(y, f.fill))
      BY <3>1, <3>2, <3>3, OppositeFloating
    <3> QED
      BY <1>2, <2>2, <3>4 DEF AppendNumber
  <2> QED
    BY <2>1, <2>2
<1>5. CASE item.given = Nothing
  <2>1. Promised = TypeFormat[x.type] /\ Promised \in LogFormat
    BY <1>2, <1>5 DEF Promised, FormatAssumption
  <2>2. AppendDefault(x) = AppendNumber(x, Promised) /\ AppendDefault(y) = AppendNumber(y, Promised)
    BY <1>2, <1>3, <2>1 DEF AppendDefault
  <2>3. Len(AppendNumber(x, Promised)) = Len(AppendNumber(y, Promised))
    BY <1>4, <2>1
  <2> QED
    BY <1>1, <1>5, <2>2, <2>3 DEF y
<1>6. CASE item.given # Nothing
  <2>1. Promised = item.given /\ Promised \in LogFormat
    BY <1>1, <1>6 DEF Promised
  <2>2. CASE x.type = "int32"
    <3>1. AppendFormatted(Promised, x) = AppendFormatted(Promised, y)
      BY <1>2, <2>2 DEF AppendFormatted
    <3> QED
      BY <1>1, <1>6, <2>1, <3>1 DEF y
  <2>3. CASE x.type # "int32"
    <3>1. /\ AppendFormatted(Promised, x) = AppendNumber(x, Promised)
          /\ AppendFormatted(Promised, y) = AppendNumber(y, Promised)
      BY <1>2, <1>3, <2>3 DEF AppendFormatted
    <3>2. Len(AppendNumber(x, Promised)) = Len(AppendNumber(y, Promised))
      BY <1>4, <2>1
    <3> QED
      BY <1>1, <1>6, <2>1, <3>1, <3>2 DEF y
  <2> QED
    BY <2>2, <2>3
<1> QED
  BY <1>5, <1>6

-----------------------------------------------------------------------------
(* The theorems. *)

\* A format serves the argument right after it and no other: the text of each
\* argument is that of the overload with the format if one was given before it,
\* in a chain one with a valid base, else that of the overload without
\* (LogShiftChainHelper::operator<<, doSend).
THEOREM FormatServesNext == Spec => [](item # Nothing => Served(item))
<1>1. Inv => (item # Nothing => Served(item))
  BY DEF Inv
<1> QED
  BY <1>1, InvHolds, PTL

\* Whatever is printed of a number reads back as this number by the format that
\* was promised for it, where the code does not diverge, for words of any width,
\* any buffer and any width of digits (the overloads of Log::append).
THEOREM NumbersReadBack == Spec => []ReadsBack
<1>1. Inv => ReadsBack
  BY FormatAssumption, InvReadsBack
<1> QED
  BY <1>1, InvHolds, PTL

\* With alignSigned a number and its opposite take the same space, the width of the
\* digits being given by a format that is not ignored
\* (LogConfig::alignSigned, appendInteger and append of double).
THEOREM OppositesAligned == Spec => []Aligned
<1>1. Inv => Aligned
  BY FormatAssumption, InvAligned
<1> QED
  BY <1>1, InvHolds, PTL

=============================================================================
