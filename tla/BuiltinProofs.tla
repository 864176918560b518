---------------------------- MODULE BuiltinProofs ----------------------------
(***************************************************************************)
(* The builtins that read texts and the one that changes directories.      *)
(*                                                                         *)
(* Of Arguments, for texts of any length and integers of any width: what   *)
(* exit ends the shell with, what export makes of its words, and the level *)
(* of a shell in other shells.  What the functions of the code compute is  *)
(* proved by induction on the length of a text or on a number, with the    *)
(* set of those for which it holds (Induction and StrongInduction).        *)
(*                                                                         *)
(* Of Cd, for any directories: the types, what a cd that returns 0 has     *)
(* done, what one that returns 1 has left, and where "cd -" leads.         *)
(***************************************************************************)
EXTENDS Arguments, Cd, SequenceTheorems, WellFoundedInduction, TLAPS
-----------------------------------------------------------------------------
(* Induction.                                                              *)

\* A set of numbers that holds 0 and the next of each is all there is.
LEMMA Induction ==
  ASSUME NEW S \in SUBSET Nat, 0 \in S, \A n \in S : n + 1 \in S
  PROVE  S = Nat
<1> DEFINE T == Nat \ S
<1> SUFFICES ASSUME T # {}
             PROVE  FALSE
  OBVIOUS
<1>1. PICK m \in T : \A j \in T : ~(<<j, m>> \in OpToRel(<, Nat))
  BY NatLessThanWellFounded, WFMin, Zenon
<1>2. m # 0 /\ m - 1 \in Nat /\ m - 1 < m /\ (m - 1) + 1 = m
  OBVIOUS
<1>3. m - 1 \notin T
  BY <1>1, <1>2 DEF OpToRel
<1>4. QED
  BY <1>2, <1>3

\* A set of numbers that holds each one whose predecessors it holds is all there is.
LEMMA StrongInduction ==
  ASSUME NEW S \in SUBSET Nat, \A n \in Nat : (\A m \in 0..(n - 1) : m \in S) => n \in S
  PROVE  S = Nat
<1> DEFINE T == {n \in Nat : \A m \in 0..n : m \in S}
<1>1. 0 \in S
  OBVIOUS
<1>2. 0 \in T
  BY <1>1
<1>3. ASSUME NEW n \in T
      PROVE  n + 1 \in T
  <2>1. n + 1 \in S
    BY <1>3
  <2>2. \A m \in 0..(n + 1) : m \in 0..n \/ m = n + 1
    OBVIOUS
  <2>3. QED
    BY <1>3, <2>1, <2>2
<1> HIDE DEF T
<1>4. T = Nat
  <2>1. T \in SUBSET Nat
    BY DEF T
  <2>2. QED
    BY <1>2, <1>3, <2>1, Induction
<1>5. \A n \in Nat : n \in 0..n
  OBVIOUS
<1>6. QED
  BY <1>4, <1>5 DEF T
-----------------------------------------------------------------------------
(* Characters and the parts of a text.                                     *)

LEMMA Least ==
  ASSUME NEW I \in SUBSET Nat, I # {}
  PROVE  Min(I) \in I /\ \A j \in I : Min(I) <= j
<1>1. PICK m \in I : \A j \in I : ~(<<j, m>> \in OpToRel(<, Nat))
  BY NatLessThanWellFounded, WFMin, Zenon
<1>2. \A j \in I : m <= j
  <2>1. TAKE j \in I
  <2>2. ~(j < m)
    BY <1>1 DEF OpToRel
  <2>3. j \in Nat /\ m \in Nat
    OBVIOUS
  <2>4. QED
    BY <2>2, <2>3
<1>3. QED
  BY <1>2 DEF Min

LEMMA DigitIsOne == \A c : c \in Digit <=> \E d \in 0..9 : Digits[d + 1] = c
BY DEF Digits, Digit, ToSet

LEMMA DigitsDiffer ==
  ASSUME NEW a \in 0..9, NEW b \in 0..9, Digits[a + 1] = Digits[b + 1]
  PROVE  a = b
BY DEF Digits

LEMMA ValueOfDigit ==
  /\ \A c \in Digit : ValueOf(c) \in 0..9 /\ Digits[ValueOf(c) + 1] = c
  /\ \A d \in 0..9 : Digits[d + 1] \in Digit /\ ValueOf(Digits[d + 1]) = d
<1>1. \A c \in Digit : ValueOf(c) \in 0..9 /\ Digits[ValueOf(c) + 1] = c
  BY DigitIsOne DEF ValueOf
<1>2. \A d \in 0..9 : Digits[d + 1] \in Digit
  BY DigitIsOne
<1>3. QED
  BY <1>1, <1>2, DigitsDiffer

LEMMA OtherCharacters ==
  /\ "0" \in Digit /\ ValueOf("0") = 0
  /\ \A c \in Digit : c \notin Blank \cup Sign \cup {"="} /\ (ValueOf(c) = 0 => c = "0")
  /\ Blank \cap Sign = {}
<1>1. Digit = {"0", "1", "2", "3", "4", "5", "6", "7", "8", "9"}
  BY DEF Digit, Digits, ToSet
<1>2. \A c \in Digit : c \notin Blank \cup Sign \cup {"="}
  BY <1>1 DEF Blank, Sign
<1>3. Digits[1] = "0" /\ 0 \in 0..9 /\ 0 + 1 = 1
  BY DEF Digits
<1>4. QED
  BY <1>2, <1>3, ValueOfDigit DEF Blank, Sign

\* A text is what it begins with and what follows.
LEMMA Parted ==
  ASSUME NEW t \in Text, NEW S
  PROVE  \E k \in 1..(Len(t) + 1) :
           /\ Leading(t, S) = SubSeq(t, 1, k - 1) /\ Behind(t, S) = SubSeq(t, k, Len(t))
           /\ \A i \in 1..(k - 1) : t[i] \in S
           /\ k <= Len(t) => t[k] \notin S
<1> DEFINE I == {i \in 1..Len(t) : t[i] \notin S}
           e == SelectInSeq(t, LAMBDA c : c \notin S)
<1>1. e = IF I # {} THEN Min(I) ELSE 0
  BY DEF SelectInSeq
<1>2. Len(t) \in Nat /\ t \in [1..Len(t) -> Characters]
  BY LenProperties DEF Text
<1> HIDE DEF e
<1>0. /\ Leading(t, S) = IF e = 0 THEN t ELSE SubSeq(t, 1, e - 1)
      /\ Behind(t, S) = SubSeq(t, Len(Leading(t, S)) + 1, Len(t))
  BY DEF e, Leading, Behind
<1>3. CASE I = {}
  <2>1. e = 0 /\ \A i \in 1..Len(t) : t[i] \in S
    BY <1>1, <1>3
  <2>2. Leading(t, S) = t /\ t = SubSeq(t, 1, Len(t)) /\ Len(t) + 1 \in 1..(Len(t) + 1)
    BY <1>0, <1>2, <2>1, SubSeqFull DEF Text
  <2>3. Behind(t, S) = SubSeq(t, Len(t) + 1, Len(t))
    BY <1>0, <2>2
  <2>4. (Len(t) + 1) - 1 = Len(t) /\ ~(Len(t) + 1 <= Len(t))
    BY <1>2
  <2>5. QED
    BY <2>1, <2>2, <2>3, <2>4
<1>4. CASE I # {}
  <2>1. e \in I /\ \A j \in I : e <= j
    BY <1>1, <1>4, Least
  <2>2. e \in 1..Len(t) /\ e # 0 /\ t[e] \notin S /\ e \in Nat
    BY <2>1
  <2>3. ASSUME NEW i \in 1..(e - 1)
        PROVE  t[i] \in S
    <3>1. i \in 1..Len(t) /\ ~(e <= i)
      BY <1>2, <2>2
    <3>2. QED
      BY <2>1, <3>1
  <2>4. Leading(t, S) = SubSeq(t, 1, e - 1)
    BY <1>0, <2>2
  <2>5. Len(SubSeq(t, 1, e - 1)) = e - 1
    BY <1>2, <2>2, SubSeqProperties DEF Text
  <2>6. Behind(t, S) = SubSeq(t, e, Len(t))
    <3>1. (e - 1) + 1 = e
      BY <2>2
    <3>2. QED
      BY <1>0, <2>4, <2>5, <3>1
  <2>7. e \in 1..(Len(t) + 1)
    BY <1>2, <2>2
  <2>8. QED
    BY <2>2, <2>3, <2>4, <2>6, <2>7
<1>5. QED
  BY <1>3, <1>4

\* Where the beginning ends is known by its characters and the one that follows.
LEMMA Parts ==
  ASSUME NEW t \in Text, NEW S, NEW k \in 1..(Len(t) + 1),
         \A i \in 1..(k - 1) : t[i] \in S, k <= Len(t) => t[k] \notin S
  PROVE  Leading(t, S) = SubSeq(t, 1, k - 1) /\ Behind(t, S) = SubSeq(t, k, Len(t))
<1>1. PICK n \in 1..(Len(t) + 1) :
        /\ Leading(t, S) = SubSeq(t, 1, n - 1) /\ Behind(t, S) = SubSeq(t, n, Len(t))
        /\ \A i \in 1..(n - 1) : t[i] \in S
        /\ n <= Len(t) => t[n] \notin S
  BY Parted
<1>2. Len(t) \in Nat
  BY LenProperties DEF Text
<1>3. ~(n < k)
  <2> SUFFICES ASSUME n < k
               PROVE  FALSE
    OBVIOUS
  <2>1. n \in 1..(k - 1) /\ n <= Len(t)
    BY <1>2
  <2>2. QED
    BY <1>1, <2>1
<1>4. ~(k < n)
  <2> SUFFICES ASSUME k < n
               PROVE  FALSE
    OBVIOUS
  <2>1. k \in 1..(n - 1) /\ k <= Len(t)
    BY <1>2
  <2>2. QED
    BY <1>1, <2>1
<1>5. k = n
  BY <1>2, <1>3, <1>4
<1>6. QED
  BY <1>1, <1>5

LEMMA TextElement ==
  ASSUME NEW t \in Text
  PROVE  Len(t) \in Nat /\ \A i \in 1..Len(t) : t[i] \in Characters
BY LenProperties, ElementOfSeq DEF Text

LEMMA SubText ==
  ASSUME NEW t \in Text, NEW a \in 1..(Len(t) + 1), NEW b \in (a - 1)..Len(t)
  PROVE  /\ SubSeq(t, a, b) \in Text /\ Len(SubSeq(t, a, b)) = b - a + 1
         /\ \A i \in 1..(b - a + 1) : SubSeq(t, a, b)[i] = t[a + i - 1]
<1>1. Len(t) \in Nat
  BY TextElement
<1>2. SubSeq(t, a, b) \in Text
  BY <1>1, SubSeqProperties DEF Text
<1>3. Len(SubSeq(t, a, b)) = b - a + 1 /\ \A i \in 1..(b - a + 1) : SubSeq(t, a, b)[i] = t[a + i - 1]
  BY <1>1, SubSeqProperties DEF Text
<1>4. QED
  BY <1>2, <1>3
-----------------------------------------------------------------------------
(* The number that a text makes.                                           *)

\* The function of Numeral exists: it can be made longer by one place.
LEMMA NumeralExists ==
  ASSUME NEW t \in Text
  PROVE  Numeral(t) = [k \in 0..Len(t) |->
                         IF k = 0 THEN 0
                         ELSE IF t[k] \in Digit THEN 10 * Numeral(t)[k - 1] + ValueOf(t[k])
                         ELSE Numeral(t)[k - 1]]
<1> DEFINE Rule(f, n) == [k \in 0..n |->
                            IF k = 0 THEN 0
                            ELSE IF t[k] \in Digit THEN 10 * f[k - 1] + ValueOf(t[k])
                            ELSE f[k - 1]]
           S == {n \in Nat : \E f : f = Rule(f, n)}
<1>1. 0 \in S
  <2>1. [k \in 0..0 |-> 0] = Rule([k \in 0..0 |-> 0], 0)
    OBVIOUS
  <2>2. QED
    BY <2>1
<1>2. ASSUME NEW n \in S
      PROVE  n + 1 \in S
  <2>1. PICK f : f = Rule(f, n)
    OBVIOUS
  <2> DEFINE g == [k \in 0..(n + 1) |-> IF k = n + 1 THEN Rule(f, n + 1)[n + 1] ELSE f[k]]
  <2>2. ASSUME NEW k \in 0..(n + 1)
        PROVE  g[k] = Rule(g, n + 1)[k]
    <3>1. CASE k = n + 1
      BY <3>1
    <3>2. CASE k # n + 1
      <4>1. k \in 0..n /\ (k # 0 => k - 1 \in 0..n /\ k - 1 # n + 1)
        BY <3>2
      <4>2. f[k] = Rule(f, n)[k]
        BY <2>1
      <4>3. QED
        BY <4>1, <4>2, <3>2
    <3>3. QED
      BY <3>1, <3>2
  <2>3. g = Rule(g, n + 1)
    BY <2>2
  <2> HIDE DEF g
  <2>4. \E h : h = Rule(h, n + 1)
    BY <2>3
  <2>5. QED
    BY <2>4
<1>3. S = Nat
  BY <1>1, <1>2, Induction
<1>4. \E f : f = Rule(f, Len(t))
  BY <1>3, TextElement
<1>5. Numeral(t) = CHOOSE f : f = Rule(f, Len(t))
  BY DEF Numeral
<1>6. QED
  BY <1>4, <1>5

LEMMA NumeralStep ==
  ASSUME NEW t \in Text
  PROVE  /\ Numeral(t)[0] = 0
         /\ \A k \in 1..Len(t) :
              Numeral(t)[k] = IF t[k] \in Digit THEN 10 * Numeral(t)[k - 1] + ValueOf(t[k])
                              ELSE Numeral(t)[k - 1]
<1>1. Len(t) \in Nat
  BY TextElement
<1>2. \A k \in 0..Len(t) :
        Numeral(t)[k] = IF k = 0 THEN 0
                        ELSE IF t[k] \in Digit THEN 10 * Numeral(t)[k - 1] + ValueOf(t[k])
                        ELSE Numeral(t)[k - 1]
  BY NumeralExists
<1>3. QED
  BY <1>1, <1>2

LEMMA NumeralType ==
  ASSUME NEW t \in Text
  PROVE  \A k \in 0..Len(t) : Numeral(t)[k] \in Nat
<1> DEFINE S == {k \in Nat : k <= Len(t) => Numeral(t)[k] \in Nat}
<1>1. Len(t) \in Nat
  BY TextElement
<1>2. 0 \in S
  BY NumeralStep
<1>3. ASSUME NEW k \in S
      PROVE  k + 1 \in S
  <2> SUFFICES ASSUME k + 1 <= Len(t)
               PROVE  Numeral(t)[k + 1] \in Nat
    OBVIOUS
  <2>1. k + 1 \in 1..Len(t) /\ (k + 1) - 1 = k /\ k <= Len(t)
    BY <1>1
  <2>2. Numeral(t)[k] \in Nat
    BY <2>1
  <2>3. Numeral(t)[k + 1] = IF t[k + 1] \in Digit THEN 10 * Numeral(t)[k] + ValueOf(t[k + 1])
                            ELSE Numeral(t)[k]
    BY <2>1, NumeralStep
  <2>4. t[k + 1] \in Digit => ValueOf(t[k + 1]) \in Nat
    <3>1. t[k + 1] \in Digit => ValueOf(t[k + 1]) \in 0..9
      BY ValueOfDigit, Zenon
    <3>2. QED
      BY <3>1
  <2>5. QED
    BY <2>2, <2>3, <2>4
<1>4. S = Nat
  BY <1>2, <1>3, Induction
<1>5. QED
  BY <1>1, <1>4

\* One more character: the number is ten times as large and more, or the same.
LEMMA NumeralNext ==
  ASSUME NEW t \in Text, NEW k \in Nat, k < Len(t)
  PROVE  /\ Numeral(t)[k] \in Nat /\ Numeral(t)[k + 1] \in Nat
         /\ t[k + 1] \in Digit =>
              /\ ValueOf(t[k + 1]) \in 0..9
              /\ Numeral(t)[k + 1] = 10 * Numeral(t)[k] + ValueOf(t[k + 1])
         /\ t[k + 1] \notin Digit => Numeral(t)[k + 1] = Numeral(t)[k]
<1>1. Len(t) \in Nat
  BY TextElement
<1>2. k + 1 \in 1..Len(t) /\ (k + 1) - 1 = k /\ k \in 0..Len(t) /\ k + 1 \in 0..Len(t)
  BY <1>1
<1>3. Numeral(t)[k + 1] = IF t[k + 1] \in Digit THEN 10 * Numeral(t)[k] + ValueOf(t[k + 1])
                          ELSE Numeral(t)[k]
  BY <1>2, NumeralStep
<1>4. Numeral(t)[k] \in Nat /\ Numeral(t)[k + 1] \in Nat
  BY <1>2, NumeralType
<1>5. QED
  BY <1>3, <1>4, ValueOfDigit

LEMMA TimesTen ==
  ASSUME NEW a \in Nat, NEW b \in Nat, NEW v \in 0..9
  PROVE  /\ a <= b => a <= 10 * b + v
         /\ a < b => \A w \in 0..9 : 10 * a + w < 10 * b + v
OBVIOUS

LEMMA NumeralGrows ==
  ASSUME NEW t \in Text, NEW i \in 0..Len(t), NEW k \in i..Len(t)
  PROVE  Numeral(t)[i] <= Numeral(t)[k]
<1> DEFINE S == {n \in Nat : i + n <= Len(t) => Numeral(t)[i] <= Numeral(t)[i + n]}
<1>1. Len(t) \in Nat /\ i \in Nat
  BY TextElement
<1>2. 0 \in S
  BY <1>1, NumeralType
<1>3. ASSUME NEW n \in S
      PROVE  n + 1 \in S
  <2> SUFFICES ASSUME i + (n + 1) <= Len(t)
               PROVE  Numeral(t)[i] <= Numeral(t)[i + (n + 1)]
    OBVIOUS
  <2>1. i + n \in Nat /\ i + n < Len(t) /\ (i + n) + 1 = i + (n + 1) /\ n \in Nat
    BY <1>1
  <2>2. Numeral(t)[i] <= Numeral(t)[i + n]
    BY <1>1, <2>1
  <2>3. Numeral(t)[i] \in Nat
    BY <1>1, NumeralType
  <2>4. /\ Numeral(t)[i + n] \in Nat /\ Numeral(t)[i + (n + 1)] \in Nat
        /\ t[i + (n + 1)] \in Digit =>
              /\ ValueOf(t[i + (n + 1)]) \in 0..9
              /\ Numeral(t)[i + (n + 1)] = 10 * Numeral(t)[i + n] + ValueOf(t[i + (n + 1)])
        /\ t[i + (n + 1)] \notin Digit => Numeral(t)[i + (n + 1)] = Numeral(t)[i + n]
    <3> DEFINE p == i + n
    <3>1. p \in Nat /\ p < Len(t) /\ p + 1 = i + (n + 1)
      BY <2>1
    <3> HIDE DEF p
    <3>2. /\ Numeral(t)[p] \in Nat /\ Numeral(t)[p + 1] \in Nat
          /\ t[p + 1] \in Digit =>
                /\ ValueOf(t[p + 1]) \in 0..9
                /\ Numeral(t)[p + 1] = 10 * Numeral(t)[p] + ValueOf(t[p + 1])
          /\ t[p + 1] \notin Digit => Numeral(t)[p + 1] = Numeral(t)[p]
      BY <3>1, NumeralNext
    <3>3. QED
      BY <3>1, <3>2 DEF p
  <2>5. CASE t[i + (n + 1)] \in Digit
    BY <2>2, <2>3, <2>4, <2>5, TimesTen
  <2>6. CASE t[i + (n + 1)] \notin Digit
    BY <2>2, <2>4, <2>6
  <2>7. QED
    BY <2>5, <2>6
<1>4. S = Nat
  BY <1>2, <1>3, Induction
<1>5. k - i \in Nat /\ i + (k - i) = k /\ i + (k - i) <= Len(t)
  BY <1>1
<1>6. k - i \in S
  BY <1>4, <1>5
<1>7. QED
  BY <1>5, <1>6

\* Behind what makes no number, a text makes the number of its part.
LEMMA NumeralOfPart ==
  ASSUME NEW t \in Text, NEW s \in Text, NEW j \in 0..Len(t), Numeral(t)[j] = 0,
         j + Len(s) <= Len(t), \A i \in 1..Len(s) : s[i] = t[j + i]
  PROVE  \A k \in 0..Len(s) : Numeral(s)[k] = Numeral(t)[j + k]
<1> DEFINE S == {k \in Nat : k <= Len(s) => Numeral(s)[k] = Numeral(t)[j + k]}
<1>1. Len(t) \in Nat /\ Len(s) \in Nat /\ j \in Nat
  BY TextElement
<1>2. 0 \in S
  BY <1>1, NumeralStep
<1>3. ASSUME NEW k \in S
      PROVE  k + 1 \in S
  <2> SUFFICES ASSUME k + 1 <= Len(s)
               PROVE  Numeral(s)[k + 1] = Numeral(t)[j + (k + 1)]
    OBVIOUS
  <2>1. /\ k + 1 \in 1..Len(s) /\ (k + 1) - 1 = k /\ k <= Len(s)
        /\ j + (k + 1) \in 1..Len(t) /\ (j + (k + 1)) - 1 = j + k
    BY <1>1
  <2>2. Numeral(s)[k] = Numeral(t)[j + k] /\ s[k + 1] = t[j + (k + 1)]
    BY <2>1
  <2>3. Numeral(s)[k + 1] = IF s[k + 1] \in Digit THEN 10 * Numeral(s)[k] + ValueOf(s[k + 1])
                            ELSE Numeral(s)[k]
    BY <2>1, NumeralStep
  <2>4. Numeral(t)[j + (k + 1)] =
          IF t[j + (k + 1)] \in Digit THEN 10 * Numeral(t)[j + k] + ValueOf(t[j + (k + 1)])
          ELSE Numeral(t)[j + k]
    BY <2>1, NumeralStep
  <2>5. QED
    BY <2>2, <2>3, <2>4
<1>4. S = Nat
  BY <1>2, <1>3, Induction
<1>5. QED
  BY <1>1, <1>4

\* Characters that are no digits, and zeros in front, change nothing.
LEMMA NumeralStays ==
  ASSUME NEW t \in Text, NEW a \in 0..Len(t), NEW b \in a..Len(t),
         \A i \in (a + 1)..b : t[i] \notin Digit \/ (t[i] = "0" /\ Numeral(t)[a] = 0)
  PROVE  Numeral(t)[b] = Numeral(t)[a]
<1> DEFINE S == {n \in Nat : a + n <= b => Numeral(t)[a + n] = Numeral(t)[a]}
<1>1. Len(t) \in Nat /\ a \in Nat /\ b \in Nat /\ a <= b /\ b <= Len(t)
  BY TextElement
<1>2. 0 \in S
  BY <1>1
<1>3. ASSUME NEW n \in S
      PROVE  n + 1 \in S
  <2> SUFFICES ASSUME a + (n + 1) <= b
               PROVE  Numeral(t)[a + (n + 1)] = Numeral(t)[a]
    OBVIOUS
  <2>1. /\ a + (n + 1) \in 1..Len(t) /\ (a + (n + 1)) - 1 = a + n
        /\ a + (n + 1) \in (a + 1)..b /\ a + n <= b
    BY <1>1
  <2>2. Numeral(t)[a + n] = Numeral(t)[a]
    BY <2>1
  <2>3. Numeral(t)[a + (n + 1)] =
          IF t[a + (n + 1)] \in Digit THEN 10 * Numeral(t)[a + n] + ValueOf(t[a + (n + 1)])
          ELSE Numeral(t)[a + n]
    BY <2>1, NumeralStep
  <2>4. t[a + (n + 1)] \notin Digit \/ (t[a + (n + 1)] = "0" /\ Numeral(t)[a] = 0)
    BY <2>1
  <2>5. QED
    BY <2>2, <2>3, <2>4, OtherCharacters
<1>4. S = Nat
  BY <1>2, <1>3, Induction
<1>5. b - a \in Nat /\ a + (b - a) = b /\ a + (b - a) <= b
  BY <1>1
<1>6. QED
  BY <1>1, <1>4, <1>5
-----------------------------------------------------------------------------
(* A number is compared by its text: by the length, then by the characters. *)

\* The text of a number: digits, and no zero in front.
Written(u) == /\ u \in Text /\ u # <<>> /\ u[1] # "0"
              /\ \A i \in 1..Len(u) : u[i] \in Digit

Value(t) == Numeral(t)[Len(t)]

LEMMA ValueType == \A t \in Text : Value(t) \in Nat
<1> SUFFICES ASSUME NEW t \in Text
             PROVE  Value(t) \in Nat
  OBVIOUS
<1>1. Len(t) \in 0..Len(t)
  BY TextElement
<1>2. QED
  BY <1>1, NumeralType DEF Value

\* Whatever part of it, the text of a number makes a number that is positive.
LEMMA WrittenPositive ==
  ASSUME NEW u, Written(u)
  PROVE  Len(u) \in Nat \ {0} /\ \A k \in 1..Len(u) : Numeral(u)[k] >= 1
<1>1. u \in Text /\ Len(u) \in Nat /\ Len(u) # 0
  BY TextElement, EmptySeq DEF Written, Text
<1>2. 1 \in 1..Len(u) /\ u[1] \in Digit /\ u[1] # "0" /\ 1 \in 0..Len(u)
  BY <1>1 DEF Written
<1>3. ValueOf(u[1]) \in 1..9
  BY <1>2, ValueOfDigit, OtherCharacters
<1>4. Numeral(u)[1] = 10 * Numeral(u)[0] + ValueOf(u[1]) /\ Numeral(u)[0] = 0
  <2>1. 1 - 1 = 0
    OBVIOUS
  <2>2. QED
    BY <1>1, <1>2, <2>1, NumeralStep
<1>5. Numeral(u)[1] >= 1
  BY <1>3, <1>4
<1>6. ASSUME NEW k \in 1..Len(u)
      PROVE  Numeral(u)[k] >= 1
  <2>1. Numeral(u)[1] <= Numeral(u)[k]
    BY <1>1, <1>2, NumeralGrows
  <2>2. Numeral(u)[1] \in Nat /\ Numeral(u)[k] \in Nat
    BY <1>1, <1>2, NumeralType
  <2>3. QED
    BY <1>5, <2>1, <2>2
<1>7. QED
  BY <1>1, <1>6

\* A digit more on each side does not turn the order of two numbers: whatever the
\* digits are if the first is below, in the order of the digits if it is not above.
LEMMA OneDigitEach ==
  ASSUME NEW a \in Nat, NEW b \in Nat, a <= b
  PROVE  /\ a < b => a < 10 * b
         /\ \A v \in 0..9, w \in 0..9 :
              /\ a < b \/ v < w => 10 * a + v < 10 * b + w
              /\ v <= w => 10 * a + v <= 10 * b + w
         /\ a < b => \A w \in 0..9 : a < 10 * b + w
<1>1. PICK e \in Nat : b = a + e
  <2>1. b - a \in Nat /\ b = a + (b - a)
    OBVIOUS
  <2>2. QED
    BY <2>1
<1>2. 10 * b = 10 * a + 10 * e
  BY <1>1
<1>3. QED
  BY <1>1, <1>2

LEMMA Shorter ==
  ASSUME NEW t \in Text, NEW u, Written(u), Len(t) < Len(u)
  PROVE  Value(t) < Value(u)
<1> DEFINE d == Len(u) - Len(t)
           S == {k \in Nat : k <= Len(t) => Numeral(t)[k] < Numeral(u)[d + k]}
<1>1. /\ u \in Text /\ Len(t) \in Nat /\ Len(u) \in Nat
      /\ d \in Nat /\ d \in 1..Len(u) /\ d + Len(t) = Len(u)
  BY TextElement DEF Written
<1> HIDE DEF d
<1>2. 0 \in S
  <2>1. Numeral(t)[0] = 0 /\ d + 0 = d
    BY <1>1, NumeralStep
  <2>2. Numeral(u)[d] >= 1 /\ Numeral(u)[d] \in Nat
    BY <1>1, WrittenPositive, NumeralType
  <2>3. QED
    BY <2>1, <2>2
<1>3. ASSUME NEW k \in S
      PROVE  k + 1 \in S
  <2> SUFFICES ASSUME k + 1 <= Len(t)
               PROVE  Numeral(t)[k + 1] < Numeral(u)[d + (k + 1)]
    OBVIOUS
  <2> DEFINE p == d + k
  <2>1. /\ k \in Nat /\ k < Len(t) /\ k <= Len(t)
        /\ p \in Nat /\ p < Len(u) /\ p + 1 = d + (k + 1) /\ p + 1 \in 1..Len(u)
    BY <1>1
  <2>2. Numeral(t)[k] < Numeral(u)[p]
    BY <2>1
  <2> HIDE DEF p
  <2>3. u[p + 1] \in Digit
    BY <2>1 DEF Written
  <2>4. /\ Numeral(u)[p] \in Nat /\ ValueOf(u[p + 1]) \in 0..9
        /\ Numeral(u)[p + 1] = 10 * Numeral(u)[p] + ValueOf(u[p + 1])
    BY <1>1, <2>1, <2>3, NumeralNext
  <2>5. /\ Numeral(t)[k] \in Nat
        /\ t[k + 1] \in Digit =>
              /\ ValueOf(t[k + 1]) \in 0..9
              /\ Numeral(t)[k + 1] = 10 * Numeral(t)[k] + ValueOf(t[k + 1])
        /\ t[k + 1] \notin Digit => Numeral(t)[k + 1] = Numeral(t)[k]
    BY <2>1, NumeralNext
  <2>6. Numeral(t)[k + 1] < Numeral(u)[p + 1]
    <3> DEFINE a == Numeral(t)[k]
               b == Numeral(u)[p]
               v == ValueOf(t[k + 1])
               w == ValueOf(u[p + 1])
               x == Numeral(t)[k + 1]
    <3>1. a \in Nat /\ b \in Nat /\ a < b /\ w \in 0..9 /\ (x = a \/ (v \in 0..9 /\ x = 10 * a + v))
      BY <2>2, <2>4, <2>5
    <3> HIDE DEF a, b, v, w, x
    <3>2. x < 10 * b + w
      <4>1. a <= b
        BY <3>1
      <4>2. a < 10 * b + w /\ (v \in 0..9 => 10 * a + v < 10 * b + w)
        BY <3>1, <4>1, OneDigitEach, Zenon
      <4>3. QED
        BY <3>1, <4>2, Zenon
    <3>3. QED
      BY <2>4, <3>2 DEF b, w, x
  <2>7. QED
    BY <2>1, <2>6
<1>4. S = Nat
  BY <1>2, <1>3, Induction
<1>5. Numeral(t)[Len(t)] < Numeral(u)[d + Len(t)]
  BY <1>1, <1>4
<1>6. QED
  BY <1>1, <1>5 DEF Value

LEMMA RankOf ==
  /\ \A c : Rank(c) \in 0..10
  /\ \A c \in Digit : Rank(c) = 1 + ValueOf(c) /\ Rank(c) \in 1..10
  /\ \A c : Rank(c) >= 1 => c \in Digit
BY ValueOfDigit DEF Rank

\* Of two texts of one length, the one that is not above has no greater number.
LEMMA NotAbove ==
  ASSUME NEW t \in Text, NEW u, Written(u), Len(t) = Len(u), ~Above(t, u)
  PROVE  Value(t) <= Value(u)
<1> DEFINE Same(k) == \A j \in 1..k : Rank(t[j]) = Rank(u[j])
           S == {k \in Nat : k <= Len(t) =>
                   \/ Same(k) /\ Numeral(t)[k] <= Numeral(u)[k]
                   \/ Numeral(t)[k] < Numeral(u)[k]}
<1>1. u \in Text /\ Len(t) \in Nat /\ Len(u) = Len(t)
  BY TextElement DEF Written
<1>2. 0 \in S
  BY <1>1, NumeralStep
<1>3. ASSUME NEW k \in S
      PROVE  k + 1 \in S
  <2> SUFFICES ASSUME k + 1 <= Len(t)
               PROVE  \/ Same(k + 1) /\ Numeral(t)[k + 1] <= Numeral(u)[k + 1]
                      \/ Numeral(t)[k + 1] < Numeral(u)[k + 1]
    OBVIOUS
  <2>1. /\ k \in Nat /\ k < Len(t) /\ k <= Len(t) /\ k < Len(u)
        /\ k + 1 \in 1..Len(u) /\ k + 1 \in 1..Len(t) /\ (k + 1) - 1 = k
    BY <1>1
  <2>2. u[k + 1] \in Digit
    BY <2>1 DEF Written
  <2>3. /\ Numeral(u)[k] \in Nat /\ ValueOf(u[k + 1]) \in 0..9 /\ Numeral(u)[k + 1] \in Nat
        /\ Numeral(u)[k + 1] = 10 * Numeral(u)[k] + ValueOf(u[k + 1])
    BY <1>1, <2>1, <2>2, NumeralNext
  <2>4. /\ Numeral(t)[k] \in Nat /\ Numeral(t)[k + 1] \in Nat
        /\ t[k + 1] \in Digit =>
              /\ ValueOf(t[k + 1]) \in 0..9
              /\ Numeral(t)[k + 1] = 10 * Numeral(t)[k] + ValueOf(t[k + 1])
        /\ t[k + 1] \notin Digit => Numeral(t)[k + 1] = Numeral(t)[k]
    BY <2>1, NumeralNext
  <2> DEFINE a == Numeral(t)[k]
             b == Numeral(u)[k]
             v == ValueOf(t[k + 1])
             w == ValueOf(u[k + 1])
             x == Numeral(t)[k + 1]
             y == Numeral(u)[k + 1]
             digit == t[k + 1] \in Digit
  <2>5. /\ a \in Nat /\ b \in Nat /\ w \in 0..9 /\ y = 10 * b + w
        /\ digit => v \in 0..9 /\ x = 10 * a + v
        /\ ~digit => x = a
        /\ Rank(u[k + 1]) = 1 + w /\ (digit => Rank(t[k + 1]) = 1 + v)
        /\ y >= 1
    BY <2>1, <2>2, <2>3, <2>4, RankOf, WrittenPositive
  <2>6. CASE a < b
    <3> HIDE DEF a, b, v, w, x, y, digit
    <3>1. x < y
      <4>1. a <= b
        BY <2>5, <2>6
      <4>2. a < 10 * b + w /\ (v \in 0..9 => 10 * a + v < 10 * b + w)
        BY <2>5, <2>6, <4>1, OneDigitEach, Zenon
      <4>3. QED
        BY <2>5, <4>2, Zenon
    <3>2. QED
      BY <3>1 DEF x, y
  <2>7. CASE Same(k) /\ a <= b
    <3>1. ~(Rank(t[k + 1]) > Rank(u[k + 1]))
      BY <2>1, <2>7 DEF Above
    <3>2. CASE Rank(t[k + 1]) = Rank(u[k + 1])
      <4>1. digit
        BY <2>2, <3>2, RankOf
      <4>2. ASSUME NEW j \in 1..(k + 1)
            PROVE  Rank(t[j]) = Rank(u[j])
        <5>1. j \in 1..k \/ j = k + 1
          BY <2>1
        <5>2. QED
          BY <2>7, <3>2, <5>1
      <4> HIDE DEF a, b, v, w, x, y, digit
      <4>3. v = w
        BY <2>5, <3>2, <4>1
      <4>4. x <= y
        <5>1. w <= w
          BY <2>5
        <5>2. 10 * a + w <= 10 * b + w
          BY <2>5, <2>7, <5>1, OneDigitEach, Zenon
        <5>3. QED
          BY <2>5, <4>1, <4>3, <5>2, Zenon
      <4>5. QED
        BY <4>2, <4>4 DEF x, y
    <3>3. CASE Rank(t[k + 1]) < Rank(u[k + 1])
      <4> HIDE DEF a, b, v, w, x, y, digit
      <4>1. digit => v < w
        BY <2>5, <3>3
      <4>2. x < 10 * b + w
        <5>1. CASE digit
          BY <2>5, <2>7, <4>1, <5>1, OneDigitEach, Zenon
        <5>2. CASE ~digit
          <6>1. a <= 10 * a + 0 /\ 0 \in 0..9 /\ 0 <= w
            BY <2>5
          <6>2. 10 * a + 0 < 10 * b + w \/ w = 0
            BY <2>5, <2>7, <6>1, OneDigitEach
          <6>3. QED
            BY <2>5, <2>7, <5>2, <6>1, <6>2
        <5>3. QED
          BY <5>1, <5>2
      <4>3. x < y
        BY <2>5, <4>2
      <4>4. QED
        BY <4>3 DEF x, y
    <3>4. Rank(t[k + 1]) \in 0..10 /\ Rank(u[k + 1]) \in 0..10
      BY RankOf
    <3>5. QED
      BY <3>1, <3>2, <3>3, <3>4
  <2>8. QED
    BY <2>1, <2>6, <2>7
<1>4. S = Nat
  BY <1>2, <1>3, Induction
<1>5. Len(t) \in S
  BY <1>1, <1>4
<1>6. Numeral(t)[Len(t)] <= Numeral(u)[Len(t)]
  <2>1. Numeral(t)[Len(t)] \in Nat /\ Numeral(u)[Len(t)] \in Nat
    BY <1>1, ValueType DEF Value
  <2>2. QED
    BY <1>5, <2>1
<1>7. QED
  BY <1>1, <1>6 DEF Value

\* Of two texts of one length, the one that is above has the greater number.
LEMMA IsAbove ==
  ASSUME NEW t \in Text, NEW u, Written(u), Len(t) = Len(u), Above(t, u),
         \A i \in 1..Len(t) : t[i] \in Digit
  PROVE  Value(t) > Value(u)
<1>1. u \in Text /\ Len(t) \in Nat /\ Len(u) = Len(t)
  BY TextElement DEF Written
<1>2. PICK i \in 1..Len(t) : /\ Rank(t[i]) > Rank(u[i])
                             /\ \A j \in 1..(i - 1) : Rank(t[j]) = Rank(u[j])
  BY DEF Above
<1>3. \A j \in 1..Len(t) : /\ t[j] \in Digit /\ u[j] \in Digit
                           /\ Rank(t[j]) = 1 + ValueOf(t[j]) /\ ValueOf(t[j]) \in 0..9
                           /\ Rank(u[j]) = 1 + ValueOf(u[j]) /\ ValueOf(u[j]) \in 0..9
  BY <1>1, RankOf, ValueOfDigit DEF Written
<1> DEFINE E == {k \in Nat : k < i => Numeral(t)[k] = Numeral(u)[k]}
           G == {k \in Nat : k <= Len(t) - i => Numeral(t)[i + k] > Numeral(u)[i + k]}
<1>4. ASSUME NEW k \in Nat, k < Len(t)
      PROVE  /\ Numeral(t)[k] \in Nat /\ Numeral(t)[k + 1] = 10 * Numeral(t)[k] + ValueOf(t[k + 1])
             /\ Numeral(u)[k] \in Nat /\ Numeral(u)[k + 1] = 10 * Numeral(u)[k] + ValueOf(u[k + 1])
  <2>1. k + 1 \in 1..Len(t)
    BY <1>1, <1>4
  <2>2. t[k + 1] \in Digit /\ u[k + 1] \in Digit
    BY <1>3, <2>1
  <2>3. QED
    BY <1>1, <1>4, <2>2, NumeralNext
<1>5. 0 \in E
  BY <1>1, NumeralStep
<1>6. ASSUME NEW k \in E
      PROVE  k + 1 \in E
  <2> SUFFICES ASSUME k + 1 < i
               PROVE  Numeral(t)[k + 1] = Numeral(u)[k + 1]
    OBVIOUS
  <2>1. k \in Nat /\ k < Len(t) /\ k < i /\ k + 1 \in 1..(i - 1) /\ k + 1 \in 1..Len(t)
    BY <1>1
  <2>2. Rank(t[k + 1]) = Rank(u[k + 1])
    BY <1>2, <2>1
  <2>3. ValueOf(t[k + 1]) = ValueOf(u[k + 1])
    <3> DEFINE v == ValueOf(t[k + 1])
               w == ValueOf(u[k + 1])
    <3>1. 1 + v = 1 + w /\ v \in 0..9 /\ w \in 0..9
      BY <1>3, <2>1, <2>2
    <3> HIDE DEF v, w
    <3>2. v = w
      BY <3>1
    <3>3. QED
      BY <3>2 DEF v, w
  <2>4. Numeral(t)[k] = Numeral(u)[k]
    BY <2>1
  <2>5. QED
    BY <1>4, <2>1, <2>3, <2>4
<1>7. E = Nat
  BY <1>5, <1>6, Induction
<1>8. 0 \in G
  <2>1. /\ i - 1 \in Nat /\ i - 1 < Len(t) /\ i - 1 < i /\ (i - 1) + 1 = i
        /\ i + 0 = i /\ i \in 1..Len(t) /\ i - 1 \in E
    BY <1>1, <1>7
  <2> DEFINE p == i - 1
             a == Numeral(t)[p]
             v == ValueOf(t[i])
             w == ValueOf(u[i])
  <2>2. /\ a \in Nat /\ Numeral(u)[p] = a
        /\ Numeral(t)[i] = 10 * a + v /\ Numeral(u)[i] = 10 * a + w
        /\ v \in 0..9 /\ w \in 0..9 /\ 1 + v > 1 + w
    <3>1. p \in Nat /\ p < Len(t) /\ p + 1 = i
      BY <2>1
    <3>2. Numeral(t)[p] = Numeral(u)[p]
      BY <2>1
    <3> HIDE DEF p
    <3>3. QED
      BY <1>2, <1>3, <1>4, <3>1, <3>2
  <2> HIDE DEF a, v, w
  <2>3. 10 * a + v > 10 * a + w
    BY <2>2
  <2>4. QED
    BY <2>1, <2>2, <2>3
<1>9. ASSUME NEW k \in G
      PROVE  k + 1 \in G
  <2> SUFFICES ASSUME k + 1 <= Len(t) - i
               PROVE  Numeral(t)[i + (k + 1)] > Numeral(u)[i + (k + 1)]
    OBVIOUS
  <2> DEFINE p == i + k
             a == Numeral(t)[p]
             b == Numeral(u)[p]
             v == ValueOf(t[p + 1])
             w == ValueOf(u[p + 1])
  <2>1. /\ k <= Len(t) - i /\ p \in Nat /\ p < Len(t)
        /\ i + (k + 1) = p + 1 /\ p + 1 \in 1..Len(t)
    BY <1>1
  <2>2. a > b
    BY <2>1
  <2> HIDE DEF p
  <2>3. /\ a \in Nat /\ b \in Nat /\ v \in 0..9 /\ w \in 0..9
        /\ Numeral(t)[p + 1] = 10 * a + v /\ Numeral(u)[p + 1] = 10 * b + w
    BY <1>3, <1>4, <2>1
  <2> HIDE DEF a, b, v, w
  <2>4. 10 * a + v > 10 * b + w
    BY <2>2, <2>3
  <2>5. QED
    BY <2>1, <2>3, <2>4
<1>10. G = Nat
  BY <1>8, <1>9, Induction
<1>11. Len(t) - i \in Nat /\ Len(t) - i <= Len(t) - i /\ i + (Len(t) - i) = Len(t)
  BY <1>1
<1>12. Len(t) - i \in G
  BY <1>10, <1>11
<1>13. Numeral(t)[Len(t)] > Numeral(u)[Len(t)]
  BY <1>11, <1>12
<1>14. QED
  BY <1>1, <1>13 DEF Value
-----------------------------------------------------------------------------
(* Widths, and numbers that are written.                                   *)

LEMMA WidthExists ==
  Width = [bits \in 0..LongBits |-> IF bits = 0 THEN 1 ELSE 2 * Width[bits - 1]]
<1> DEFINE Rule(f, n) == [bits \in 0..n |-> IF bits = 0 THEN 1 ELSE 2 * f[bits - 1]]
           S == {n \in Nat : \E f : f = Rule(f, n)}
<1>1. 0 \in S
  <2>1. [k \in 0..0 |-> 1] = Rule([k \in 0..0 |-> 1], 0)
    OBVIOUS
  <2>2. QED
    BY <2>1
<1>2. ASSUME NEW n \in S
      PROVE  n + 1 \in S
  <2>1. PICK f : f = Rule(f, n)
    OBVIOUS
  <2> DEFINE g == [k \in 0..(n + 1) |-> IF k = n + 1 THEN Rule(f, n + 1)[n + 1] ELSE f[k]]
  <2>2. ASSUME NEW k \in 0..(n + 1)
        PROVE  g[k] = Rule(g, n + 1)[k]
    <3>1. CASE k = n + 1
      BY <3>1
    <3>2. CASE k # n + 1
      <4>1. k \in 0..n /\ (k # 0 => k - 1 \in 0..n /\ k - 1 # n + 1)
        BY <3>2
      <4>2. f[k] = Rule(f, n)[k]
        BY <2>1
      <4>3. QED
        BY <4>1, <4>2, <3>2
    <3>3. QED
      BY <3>1, <3>2
  <2>3. g = Rule(g, n + 1)
    BY <2>2
  <2> HIDE DEF g
  <2>4. \E h : h = Rule(h, n + 1)
    BY <2>3
  <2>5. QED
    BY <2>4
<1>3. S = Nat
  BY <1>1, <1>2, Induction
<1>4. \E f : f = Rule(f, LongBits)
  BY <1>3, ArgumentsAssumption
<1>5. Width = CHOOSE f : f = Rule(f, LongBits)
  BY DEF Width
<1>6. QED
  BY <1>4, <1>5

LEMMA WidthStep ==
  /\ Width[0] = 1
  /\ \A b \in 0..(LongBits - 1) : Width[b + 1] = 2 * Width[b]
<1>1. LongBits \in Nat
  BY ArgumentsAssumption
<1>2. \A b \in 0..LongBits : Width[b] = IF b = 0 THEN 1 ELSE 2 * Width[b - 1]
  BY WidthExists
<1>3. ASSUME NEW b \in 0..(LongBits - 1)
      PROVE  Width[b + 1] = 2 * Width[b]
  <2>1. b + 1 \in 0..LongBits /\ b + 1 # 0 /\ (b + 1) - 1 = b
    BY <1>1
  <2>2. QED
    BY <1>2, <2>1
<1>4. QED
  BY <1>1, <1>2, <1>3

LEMMA WidthPositive == \A b \in 0..LongBits : Width[b] \in Nat \ {0}
<1> DEFINE S == {b \in Nat : b <= LongBits => Width[b] \in Nat \ {0}}
<1>1. LongBits \in Nat
  BY ArgumentsAssumption
<1>2. 0 \in S
  BY WidthStep
<1>3. ASSUME NEW b \in S
      PROVE  b + 1 \in S
  <2> SUFFICES ASSUME b + 1 <= LongBits
               PROVE  Width[b + 1] \in Nat \ {0}
    OBVIOUS
  <2>1. b \in Nat /\ b <= LongBits /\ b \in 0..(LongBits - 1)
    BY <1>1
  <2>2. Width[b] \in Nat \ {0} /\ Width[b + 1] = 2 * Width[b]
    BY <2>1, WidthStep
  <2>3. QED
    BY <2>2
<1>4. S = Nat
  BY <1>2, <1>3, Induction
<1>5. QED
  BY <1>1, <1>4

LEMMA WidthGrows ==
  ASSUME NEW b \in 0..LongBits, NEW a \in 0..b
  PROVE  Width[a] <= Width[b]
<1> DEFINE S == {n \in Nat : a + n <= LongBits => Width[a] <= Width[a + n]}
<1>1. LongBits \in Nat /\ a \in Nat /\ b \in Nat
  BY ArgumentsAssumption
<1>2. 0 \in S
  BY <1>1, WidthPositive
<1>3. ASSUME NEW n \in S
      PROVE  n + 1 \in S
  <2> SUFFICES ASSUME a + (n + 1) <= LongBits
               PROVE  Width[a] <= Width[a + (n + 1)]
    OBVIOUS
  <2> DEFINE p == a + n
  <2>1. p \in 0..(LongBits - 1) /\ p \in 0..LongBits /\ p + 1 = a + (n + 1) /\ p <= LongBits
    BY <1>1
  <2>2. Width[a] <= Width[p]
    BY <2>1
  <2> HIDE DEF p
  <2>3. /\ Width[a] \in Nat /\ Width[p] \in Nat /\ Width[p + 1] = 2 * Width[p]
    BY <1>1, <2>1, WidthPositive, WidthStep
  <2>4. Width[a] <= Width[p + 1]
    BY <2>2, <2>3
  <2>5. QED
    BY <2>1, <2>4
<1>4. S = Nat
  BY <1>2, <1>3, Induction
<1>5. b - a \in Nat /\ a + (b - a) = b /\ b <= LongBits
  BY <1>1
<1>6. b - a \in S
  BY <1>4, <1>5
<1>7. QED
  BY <1>5, <1>6

\* The widths of the three types, and what an int is good for.
LEMMA Limits ==
  /\ LLONG_MAX \in Nat /\ Width[LongBits] = 2 * (LLONG_MAX + 1)
  /\ INT_MAX \in Nat /\ Width[IntBits] = 2 * (INT_MAX + 1)
  /\ INT_MAX < LLONG_MAX /\ Width[IntBits] <= LLONG_MAX + 1
  /\ Width[ByteBits] \in Nat \ {0}
  /\ Cap \in 2..INT_MAX
<1>1. /\ LongBits \in Nat /\ IntBits \in Nat /\ ByteBits \in Nat
      /\ LongBits - 1 \in 0..(LongBits - 1) /\ IntBits - 1 \in 0..(LongBits - 1)
      /\ LongBits - 1 \in 0..LongBits /\ IntBits - 1 \in 0..LongBits
      /\ IntBits \in 0..LongBits /\ ByteBits \in 0..LongBits
      /\ IntBits \in 0..(LongBits - 1)
      /\ (LongBits - 1) + 1 = LongBits /\ (IntBits - 1) + 1 = IntBits
  BY ArgumentsAssumption
<1>2. /\ Width[LongBits] = 2 * Width[LongBits - 1] /\ Width[IntBits] = 2 * Width[IntBits - 1]
      /\ Width[LongBits - 1] \in Nat \ {0} /\ Width[IntBits - 1] \in Nat \ {0}
      /\ Width[ByteBits] \in Nat \ {0}
  <2>1. Width[(LongBits - 1) + 1] = 2 * Width[LongBits - 1]
    BY <1>1, WidthStep
  <2>2. Width[(IntBits - 1) + 1] = 2 * Width[IntBits - 1]
    BY <1>1, WidthStep
  <2>3. QED
    BY <1>1, <2>1, <2>2, WidthPositive
<1>3. Width[IntBits] <= Width[LongBits - 1]
  BY <1>1, WidthGrows
<1>4. Cap \in 2..(Width[IntBits - 1] - 1)
  BY ArgumentsAssumption
<1> DEFINE l == Width[LongBits - 1]
           i == Width[IntBits - 1]
<1>5. /\ l \in Nat \ {0} /\ i \in Nat \ {0} /\ 2 * i <= l
      /\ LLONG_MAX = l - 1 /\ INT_MAX = i - 1
      /\ Width[LongBits] = 2 * l /\ Width[IntBits] = 2 * i
  BY <1>2, <1>3 DEF LLONG_MAX, INT_MAX
<1>6. Cap \in 2..(i - 1)
  BY <1>4
<1> HIDE DEF l, i
<1>7. /\ LLONG_MAX \in Nat /\ Width[LongBits] = 2 * (LLONG_MAX + 1)
      /\ INT_MAX \in Nat /\ Width[IntBits] = 2 * (INT_MAX + 1)
      /\ INT_MAX < LLONG_MAX /\ Width[IntBits] <= LLONG_MAX + 1
  BY <1>5
<1>8. Cap \in 2..INT_MAX
  BY <1>5, <1>6
<1>9. QED
  BY <1>2, <1>7, <1>8

LEMMA WrappedIs ==
  /\ \A n \in Int : Wrapped(n) \in -(LLONG_MAX + 1)..LLONG_MAX
  /\ \A n \in -(LLONG_MAX + 1)..LLONG_MAX : Wrapped(n) = n
  /\ Wrapped(LLONG_MAX + 1) = -(LLONG_MAX + 1)
<1> DEFINE P == LLONG_MAX + 1
           Q == Width[LongBits]
<1>1. P \in Nat \ {0} /\ Q = 2 * P /\ Q \in Nat
  BY Limits
<1>2. \A n : Wrapped(n) = ((n + LLONG_MAX + 1) % Q) - P
  BY DEF Wrapped
<1>3. \A n \in Int : n + LLONG_MAX + 1 = n + P
  BY Limits
<1>4. \A n \in Int : Wrapped(n) = ((n + P) % Q) - P
  BY <1>2, <1>3
<1>5. /\ -(LLONG_MAX + 1) = -P /\ LLONG_MAX = P - 1 /\ LLONG_MAX + 1 = P
  BY Limits
<1> HIDE DEF P, Q
<1>6. \A n \in Int : ((n + P) % Q) - P \in (-P)..(P - 1)
  BY <1>1
<1>7. \A n \in (-P)..(P - 1) : ((n + P) % Q) - P = n
  BY <1>1
<1>8. ((P + P) % Q) - P = -P
  BY <1>1
<1>9. \A n \in (-P)..(P - 1) : n \in Int
  BY <1>1
<1>10. QED
  BY <1>1, <1>4, <1>5, <1>6, <1>7, <1>8, <1>9

LEMMA ToTextExists ==
  ToText = [n \in 0..(LLONG_MAX + 1) |->
              IF n < 10 THEN <<Digits[(n % 10) + 1]>>
              ELSE ToText[n \div 10] \o <<Digits[(n % 10) + 1]>>]
<1> DEFINE Rule(f, m) == [n \in 0..m |->
                            IF n < 10 THEN <<Digits[(n % 10) + 1]>>
                            ELSE f[n \div 10] \o <<Digits[(n % 10) + 1]>>]
           S == {n \in Nat : \E f : f = Rule(f, n)}
<1>1. 0 \in S
  <2>1. [k \in 0..0 |-> <<Digits[(0 % 10) + 1]>>] = Rule([k \in 0..0 |-> <<Digits[(0 % 10) + 1]>>], 0)
    OBVIOUS
  <2>2. QED
    BY <2>1
<1>2. ASSUME NEW n \in S
      PROVE  n + 1 \in S
  <2>1. PICK f : f = Rule(f, n)
    OBVIOUS
  <2> DEFINE g == [k \in 0..(n + 1) |-> IF k = n + 1 THEN Rule(f, n + 1)[n + 1] ELSE f[k]]
  <2>2. ASSUME NEW k \in 0..(n + 1)
        PROVE  g[k] = Rule(g, n + 1)[k]
    <3>1. k >= 10 => k \div 10 \in 0..n /\ k \div 10 # n + 1
      OBVIOUS
    <3>2. CASE k = n + 1
      BY <3>1, <3>2
    <3>3. CASE k # n + 1
      <4>1. k \in 0..n
        BY <3>3
      <4>2. f[k] = Rule(f, n)[k]
        BY <2>1
      <4>3. QED
        BY <3>1, <4>1, <4>2, <3>3
    <3>4. QED
      BY <3>2, <3>3
  <2>3. g = Rule(g, n + 1)
    BY <2>2
  <2> HIDE DEF g, Rule
  <2>4. \E h : h = Rule(h, n + 1)
    BY <2>3
  <2>5. QED
    BY <2>4
<1> HIDE DEF Rule
<1>3. S = Nat
  BY <1>1, <1>2, Induction
<1>4. \E f : f = Rule(f, LLONG_MAX + 1)
  BY <1>3, Limits
<1>5. ToText = CHOOSE f : f = Rule(f, LLONG_MAX + 1)
  BY DEF ToText, Rule
<1>6. ToText = Rule(ToText, LLONG_MAX + 1)
  BY <1>4, <1>5, Zenon
<1>7. QED
  BY <1>6, Zenon DEF Rule

\* A digit behind a text makes the next number.
LEMMA OneMoreDigit ==
  ASSUME NEW v \in Text, NEW c \in Digit
  PROVE  /\ v \o <<c>> \in Text /\ Len(v \o <<c>>) = Len(v) + 1
         /\ \A i \in 1..Len(v) : (v \o <<c>>)[i] = v[i]
         /\ (v \o <<c>>)[Len(v) + 1] = c
         /\ Value(v \o <<c>>) = 10 * Value(v) + ValueOf(c)
<1> DEFINE u == v \o <<c>>
<1>1. Len(v) \in Nat /\ c \in Characters
  BY TextElement, ArgumentsAssumption
<1>2. u \in Text /\ Len(u) = Len(v) + 1 /\ (\A i \in 1..Len(v) : u[i] = v[i]) /\ u[Len(v) + 1] = c
  BY <1>1 DEF Text
<1> HIDE DEF u
<1>3. Numeral(u)[0] = 0 /\ 0 \in 0..Len(u) /\ 0 + Len(v) <= Len(u)
  BY <1>1, <1>2, NumeralStep
<1>4. \A i \in 1..Len(v) : v[i] = u[0 + i]
  BY <1>2
<1>5. Numeral(v)[Len(v)] = Numeral(u)[0 + Len(v)]
  BY <1>1, <1>2, <1>3, <1>4, NumeralOfPart
<1>6. Numeral(u)[Len(v)] = Value(v)
  BY <1>1, <1>5 DEF Value
<1>7. Len(v) < Len(u)
  BY <1>1, <1>2
<1>8. Numeral(u)[Len(v) + 1] = 10 * Numeral(u)[Len(v)] + ValueOf(c)
  BY <1>1, <1>2, <1>7, NumeralNext
<1>9. Value(u) = 10 * Value(v) + ValueOf(c)
  BY <1>2, <1>6, <1>8 DEF Value
<1>10. QED
  BY <1>2, <1>9 DEF u

\* A number is written with digits, without zeros in front, and read as itself.
LEMMA ToTextIs ==
  \A n \in 0..(LLONG_MAX + 1) :
    /\ ToText[n] \in Text /\ Value(ToText[n]) = n
    /\ Len(ToText[n]) \in Nat \ {0} /\ \A i \in 1..Len(ToText[n]) : ToText[n][i] \in Digit
    /\ n # 0 => Written(ToText[n])
<1> DEFINE P(n) == /\ ToText[n] \in Text /\ Value(ToText[n]) = n
                   /\ Len(ToText[n]) \in Nat \ {0}
                   /\ \A i \in 1..Len(ToText[n]) : ToText[n][i] \in Digit
                   /\ n # 0 => ToText[n][1] # "0"
           S == {n \in Nat : n <= LLONG_MAX + 1 => P(n)}
<1>1. ASSUME NEW n \in Nat, \A m \in 0..(n - 1) : m \in S
      PROVE  n \in S
  <2> SUFFICES ASSUME n <= LLONG_MAX + 1
               PROVE  P(n)
    OBVIOUS
  <2> DEFINE d == n % 10
             c == Digits[d + 1]
  <2>1. ToText[n] = IF n < 10 THEN <<c>> ELSE ToText[n \div 10] \o <<c>>
    <3>1. n \in 0..(LLONG_MAX + 1)
      BY Limits
    <3>2. QED
      BY <3>1, ToTextExists
  <2>2. d \in 0..9 /\ (n < 10 => d = n)
    OBVIOUS
  <2>3. c \in Digit /\ ValueOf(c) = d /\ (d # 0 => c # "0") /\ c \in Characters
    BY <2>2, ValueOfDigit, OtherCharacters, ArgumentsAssumption
  <2> HIDE DEF c
  <2>4. CASE n < 10
    <3>1. <<>> \in Text /\ <<c>> = <<>> \o <<c>> /\ Len(<<>>) = 0
      BY <2>3 DEF Text
    <3>2. Value(<<>>) = 0
      BY <3>1, NumeralStep DEF Value
    <3>3. /\ <<c>> \in Text /\ Len(<<c>>) = 1 /\ <<c>>[1] = c
      BY <2>3 DEF Text
    <3>4. Value(<<c>>) = 10 * 0 + d
      <4>1. Value(<<>> \o <<c>>) = 10 * Value(<<>>) + ValueOf(c)
        BY <2>3, <3>1, OneMoreDigit, Zenon
      <4>2. QED
        BY <2>3, <3>1, <3>2, <4>1, Zenon
    <3>5. Value(<<c>>) = n
      BY <2>2, <2>4, <3>4
    <3>6. ToText[n] = <<c>>
      BY <2>1, <2>4
    <3>7. n # 0 => c # "0"
      BY <2>2, <2>3, <2>4
    <3>8. QED
      BY <2>3, <3>3, <3>5, <3>6, <3>7
  <2>5. CASE n >= 10
    <3> DEFINE m == n \div 10
               v == ToText[m]
    <3>1. m \in 1..(n - 1) /\ n = 10 * m + d
      BY <2>5
    <3>2. ToText[n] = v \o <<c>>
      BY <2>1, <2>5
    <3> HIDE DEF m, d
    <3>3. m \in S /\ m \in Nat /\ m <= LLONG_MAX + 1 /\ m # 0
      BY <1>1, <3>1, Limits
    <3>4. P(m)
      BY <3>3
    <3> HIDE DEF v
    <3>5. /\ v \in Text /\ Value(v) = m /\ Len(v) \in Nat \ {0}
          /\ \A i \in 1..Len(v) : v[i] \in Digit
          /\ v[1] # "0"
      BY <3>3, <3>4 DEF v
    <3>6. /\ v \o <<c>> \in Text /\ Len(v \o <<c>>) = Len(v) + 1
          /\ \A i \in 1..Len(v) : (v \o <<c>>)[i] = v[i]
          /\ (v \o <<c>>)[Len(v) + 1] = c
          /\ Value(v \o <<c>>) = 10 * Value(v) + ValueOf(c)
      BY <2>3, <3>5, OneMoreDigit
    <3> DEFINE u == v \o <<c>>
    <3> HIDE DEF u
    <3>7. u \in Text /\ Len(u) \in Nat \ {0} /\ Len(u) = Len(v) + 1
      BY <3>5, <3>6 DEF u
    <3>8. Value(u) = n
      BY <2>3, <3>1, <3>5, <3>6 DEF u
    <3>9. \A i \in 1..Len(u) : u[i] \in Digit
      <4>1. \A i \in 1..Len(u) : i \in 1..Len(v) \/ i = Len(v) + 1
        BY <3>5, <3>7
      <4>2. QED
        BY <2>3, <3>5, <3>6, <4>1 DEF u
    <3>10. u[1] # "0"
      BY <3>5, <3>6 DEF u
    <3>11. QED
      BY <3>2, <3>7, <3>8, <3>9, <3>10 DEF u
  <2>6. QED
    BY <2>4, <2>5
<1>2. S = Nat
  BY <1>1, StrongInduction
<1>3. \A n \in 0..(LLONG_MAX + 1) : n \in Nat /\ n <= LLONG_MAX + 1
  BY Limits
<1>4. \A n \in 0..(LLONG_MAX + 1) : P(n)
  BY <1>2, <1>3
<1>5. QED
  BY <1>4, EmptySeq DEF Written, Text
-----------------------------------------------------------------------------
(* What is left of a text is known by the place where it begins.           *)

Rest(t, a) == SubSeq(t, a, Len(t))

LEMMA RestIs ==
  ASSUME NEW t \in Text, NEW a \in 1..(Len(t) + 1)
  PROVE  /\ Rest(t, a) \in Text /\ Len(Rest(t, a)) = Len(t) - a + 1
         /\ \A i \in 1..(Len(t) - a + 1) : Rest(t, a)[i] = t[a + i - 1]
         /\ Rest(t, a) = <<>> <=> a = Len(t) + 1
         /\ \A S : Starts(Rest(t, a), S) <=> a <= Len(t) /\ t[a] \in S
         /\ a <= Len(t) => Tail(Rest(t, a)) = Rest(t, a + 1)
<1>1. Len(t) \in Nat /\ Len(t) \in (a - 1)..Len(t) /\ a \in Nat
  BY TextElement
<1>2. /\ Rest(t, a) \in Text /\ Len(Rest(t, a)) = Len(t) - a + 1
      /\ \A i \in 1..(Len(t) - a + 1) : Rest(t, a)[i] = t[a + i - 1]
  BY <1>1, SubText DEF Rest
<1>3. Rest(t, a) = <<>> <=> a = Len(t) + 1
  <2>1. Rest(t, a) = <<>> <=> Len(Rest(t, a)) = 0
    BY <1>2, EmptySeq DEF Text
  <2>2. QED
    BY <1>1, <1>2, <2>1
<1>4. ASSUME NEW S
      PROVE  Starts(Rest(t, a), S) <=> a <= Len(t) /\ t[a] \in S
  <2>1. CASE a = Len(t) + 1
    BY <1>1, <1>3, <2>1 DEF Starts
  <2>2. CASE a <= Len(t)
    <3>1. 1 \in 1..(Len(t) - a + 1) /\ a + 1 - 1 = a /\ a # Len(t) + 1
      BY <1>1, <2>2
    <3>2. Rest(t, a)[1] = t[a] /\ Rest(t, a) # <<>>
      BY <1>2, <1>3, <3>1
    <3>3. QED
      BY <2>2, <3>2 DEF Starts
  <2>3. QED
    BY <1>1, <2>1, <2>2
<1>5. ASSUME a <= Len(t)
      PROVE  Tail(Rest(t, a)) = Rest(t, a + 1)
  <2>1. a \in 1..Len(t) /\ Len(t) \in a..Len(t)
    BY <1>1, <1>5
  <2>2. QED
    BY <2>1, HeadTailOfSubSeq DEF Rest, Text
<1>6. QED
  BY <1>2, <1>3, <1>4, <1>5

LEMMA RestFull == \A t \in Text : Rest(t, 1) = t /\ 1 \in 1..(Len(t) + 1)
BY SubSeqFull, TextElement DEF Rest, Text

LEMMA RestUnsigned ==
  ASSUME NEW t \in Text, NEW a \in 1..(Len(t) + 1)
  PROVE  /\ a <= Len(t) /\ t[a] \in Sign => Unsigned(Rest(t, a)) = Rest(t, a + 1)
         /\ ~(a <= Len(t) /\ t[a] \in Sign) => Unsigned(Rest(t, a)) = Rest(t, a)
BY RestIs DEF Unsigned

LEMMA RestParted ==
  ASSUME NEW t \in Text, NEW a \in 1..(Len(t) + 1), NEW S
  PROVE  \E k \in a..(Len(t) + 1) :
           /\ Leading(Rest(t, a), S) = SubSeq(t, a, k - 1) /\ Behind(Rest(t, a), S) = Rest(t, k)
           /\ \A i \in a..(k - 1) : t[i] \in S
           /\ k <= Len(t) => t[k] \notin S
<1> DEFINE p == Rest(t, a)
<1>1. Len(t) \in Nat /\ a \in Nat
  BY TextElement
<1>2. p \in Text /\ Len(p) = Len(t) - a + 1 /\ \A i \in 1..(Len(t) - a + 1) : p[i] = t[a + i - 1]
  BY RestIs
<1> HIDE DEF p
<1>3. PICK n \in 1..(Len(p) + 1) :
        /\ Leading(p, S) = SubSeq(p, 1, n - 1) /\ Behind(p, S) = SubSeq(p, n, Len(p))
        /\ \A i \in 1..(n - 1) : p[i] \in S
        /\ n <= Len(p) => p[n] \notin S
  BY <1>2, Parted
<1> DEFINE k == a + n - 1
<1>4. k \in a..(Len(t) + 1) /\ n \in Nat /\ n <= Len(t) - a + 2 /\ k - 1 <= Len(t)
  BY <1>1, <1>2
<1>5. SubSeq(p, 1, n - 1) = SubSeq(t, a, k - 1)
  <2>1. /\ SubSeq(p, 1, n - 1) \in Text /\ Len(SubSeq(p, 1, n - 1)) = n - 1
        /\ \A i \in 1..(n - 1) : SubSeq(p, 1, n - 1)[i] = p[i]
    <3>1. 1 \in 1..(Len(p) + 1) /\ n - 1 \in (1 - 1)..Len(p) /\ (n - 1) - 1 + 1 = n - 1
      BY <1>1, <1>2, <1>4
    <3>2. \A i \in 1..(n - 1) : 1 + i - 1 = i
      OBVIOUS
    <3>3. QED
      BY <1>2, <3>1, <3>2, SubText
  <2>2. /\ SubSeq(t, a, k - 1) \in Text /\ Len(SubSeq(t, a, k - 1)) = n - 1
        /\ \A i \in 1..(n - 1) : SubSeq(t, a, k - 1)[i] = t[a + i - 1]
    <3>1. k - 1 \in (a - 1)..Len(t) /\ (k - 1) - a + 1 = n - 1
      BY <1>1, <1>4
    <3>2. QED
      BY <3>1, SubText
  <2>3. \A i \in 1..(n - 1) : p[i] = t[a + i - 1]
    BY <1>1, <1>2, <1>4
  <2>4. \A i \in 1..(n - 1) : SubSeq(p, 1, n - 1)[i] = SubSeq(t, a, k - 1)[i]
    BY <2>1, <2>2, <2>3
  <2>5. QED
    BY <2>1, <2>2, <2>4, SeqEqual DEF Text
<1>6. SubSeq(p, n, Len(p)) = Rest(t, k)
  <2> DEFINE m == Len(t) - k + 1
  <2>1. /\ SubSeq(p, n, Len(p)) \in Text /\ Len(SubSeq(p, n, Len(p))) = m
        /\ \A i \in 1..m : SubSeq(p, n, Len(p))[i] = p[n + i - 1]
    <3>1. Len(p) \in (n - 1)..Len(p) /\ Len(p) - n + 1 = m
      BY <1>1, <1>2, <1>4
    <3>2. QED
      BY <1>2, <3>1, SubText
  <2>2. /\ Rest(t, k) \in Text /\ Len(Rest(t, k)) = m
        /\ \A i \in 1..m : Rest(t, k)[i] = t[k + i - 1]
    <3>1. k \in 1..(Len(t) + 1)
      BY <1>1, <1>4
    <3>2. QED
      BY <3>1, RestIs
  <2>3. ASSUME NEW i \in 1..m
        PROVE  p[n + i - 1] = t[k + i - 1]
    <3>1. n + i - 1 \in 1..(Len(t) - a + 1) /\ a + (n + i - 1) - 1 = k + i - 1
      BY <1>1, <1>4
    <3>2. QED
      BY <1>2, <3>1
  <2>4. \A i \in 1..m : SubSeq(p, n, Len(p))[i] = Rest(t, k)[i]
    BY <2>1, <2>2, <2>3
  <2>5. QED
    BY <2>1, <2>2, <2>4, SeqEqual DEF Text
<1>7. ASSUME NEW i \in a..(k - 1)
      PROVE  t[i] \in S
  <2>1. i - a + 1 \in 1..(n - 1) /\ i - a + 1 \in 1..(Len(t) - a + 1) /\ a + (i - a + 1) - 1 = i
    BY <1>1, <1>4
  <2>2. QED
    BY <1>2, <1>3, <2>1
<1>8. ASSUME k <= Len(t)
      PROVE  t[k] \notin S
  <2>1. n <= Len(p) /\ n \in 1..(Len(t) - a + 1)
    BY <1>1, <1>2, <1>4, <1>8
  <2>2. QED
    BY <1>2, <1>3, <2>1
<1>9. QED
  BY <1>3, <1>4, <1>5, <1>6, <1>7, <1>8 DEF p
-----------------------------------------------------------------------------
(* ft_atoi_long_long() reads the number of a text that is_numeric().       *)

ReadRule(f, t) ==
  [k \in 0..Len(t) |-> IF k = 0 THEN 0 ELSE Wrapped(10 * f[k - 1] + ValueOf(t[k]))]

LEMMA ReadDigitsExists ==
  ASSUME NEW t \in Text
  PROVE  \E f : f = ReadRule(f, t) /\ ReadDigits(t) = f[Len(t)]
<1> DEFINE Rule(f, n) == [k \in 0..n |->
                            IF k = 0 THEN 0 ELSE Wrapped(10 * f[k - 1] + ValueOf(t[k]))]
           S == {n \in Nat : \E f : f = Rule(f, n)}
           num == CHOOSE f : f = Rule(f, Len(t))
<1>1. 0 \in S
  <2>1. [k \in 0..0 |-> 0] = Rule([k \in 0..0 |-> 0], 0)
    OBVIOUS
  <2>2. QED
    BY <2>1
<1>2. ASSUME NEW n \in S
      PROVE  n + 1 \in S
  <2>1. PICK f : f = Rule(f, n)
    OBVIOUS
  <2> DEFINE g == [k \in 0..(n + 1) |-> IF k = n + 1 THEN Rule(f, n + 1)[n + 1] ELSE f[k]]
  <2>2. ASSUME NEW k \in 0..(n + 1)
        PROVE  g[k] = Rule(g, n + 1)[k]
    <3>1. CASE k = n + 1
      BY <3>1
    <3>2. CASE k # n + 1
      <4>1. k \in 0..n /\ (k # 0 => k - 1 \in 0..n /\ k - 1 # n + 1)
        BY <3>2
      <4>2. f[k] = Rule(f, n)[k]
        BY <2>1
      <4>3. QED
        BY <4>1, <4>2, <3>2
    <3>3. QED
      BY <3>1, <3>2
  <2>3. g = Rule(g, n + 1)
    BY <2>2
  <2> HIDE DEF g, Rule
  <2>4. \E h : h = Rule(h, n + 1)
    BY <2>3
  <2>5. QED
    BY <2>4
<1>3. S = Nat
  BY <1>1, <1>2, Induction
<1> HIDE DEF Rule
<1>4. \E f : f = Rule(f, Len(t))
  BY <1>3, TextElement
<1>5. num = Rule(num, Len(t))
  BY <1>4
<1>6. ReadDigits(t) = num[Len(t)]
  BY DEF ReadDigits, Rule
<1> HIDE DEF num
<1>7. num = ReadRule(num, t)
  BY <1>5 DEF ReadRule, Rule
<1>8. QED
  BY <1>6, <1>7

\* As long as the number fits, no step of the loop wraps but the last.
LEMMA ReadDigitsIs ==
  ASSUME NEW t \in Text, \A i \in 1..Len(t) : t[i] \in Digit
  PROVE  /\ ReadDigits(t) \in Int
         /\ Value(t) <= LLONG_MAX + 1 => ReadDigits(t) = Wrapped(Value(t))
<1>1. PICK f : f = ReadRule(f, t) /\ ReadDigits(t) = f[Len(t)]
  BY ReadDigitsExists
<1>2. Len(t) \in Nat
  BY TextElement
<1>3. f[0] = 0 /\ \A k \in 1..Len(t) : f[k] = Wrapped(10 * f[k - 1] + ValueOf(t[k]))
  <2>1. \A k \in 0..Len(t) : f[k] = IF k = 0 THEN 0 ELSE Wrapped(10 * f[k - 1] + ValueOf(t[k]))
    BY <1>1 DEF ReadRule
  <2>2. QED
    BY <1>2, <2>1
<1> DEFINE I == {k \in Nat : k <= Len(t) => f[k] \in Int}
           S == {k \in Nat : k <= Len(t) => f[k] = Wrapped(Numeral(t)[k])}
<1>4. \A n \in Int : Wrapped(n) \in Int
  BY WrappedIs, Limits
<1>5. 0 \in I
  BY <1>3
<1>6. ASSUME NEW k \in I
      PROVE  k + 1 \in I
  <2> SUFFICES ASSUME k + 1 <= Len(t)
               PROVE  f[k + 1] \in Int
    OBVIOUS
  <2>1. k \in Nat /\ k <= Len(t) /\ k + 1 \in 1..Len(t) /\ (k + 1) - 1 = k
    BY <1>2
  <2>2. f[k] \in Int /\ ValueOf(t[k + 1]) \in Int
    BY <2>1, ValueOfDigit
  <2>3. f[k + 1] = Wrapped(10 * f[k] + ValueOf(t[k + 1]))
    BY <1>3, <2>1
  <2>4. 10 * f[k] + ValueOf(t[k + 1]) \in Int
    BY <2>2
  <2>5. QED
    BY <1>4, <2>3, <2>4
<1>7. I = Nat
  BY <1>5, <1>6, Induction
<1>8. ASSUME Value(t) <= LLONG_MAX + 1
      PROVE  ReadDigits(t) = Wrapped(Value(t))
  <2>1. 0 \in S
    BY <1>3, WrappedIs, NumeralStep, Limits
  <2>2. ASSUME NEW k \in S
        PROVE  k + 1 \in S
    <3> SUFFICES ASSUME k + 1 <= Len(t)
                 PROVE  f[k + 1] = Wrapped(Numeral(t)[k + 1])
      OBVIOUS
    <3>1. /\ k \in Nat /\ k < Len(t) /\ k <= Len(t) /\ k + 1 \in 1..Len(t) /\ (k + 1) - 1 = k
          /\ k + 1 \in 0..Len(t) /\ Len(t) \in (k + 1)..Len(t)
      BY <1>2
    <3> DEFINE a == Numeral(t)[k]
               v == ValueOf(t[k + 1])
               x == Numeral(t)[k + 1]
    <3>2. f[k] = Wrapped(a) /\ f[k + 1] = Wrapped(10 * f[k] + v)
      BY <1>3, <3>1
    <3>3. a \in Nat /\ v \in 0..9 /\ x = 10 * a + v
      BY <3>1, NumeralNext
    <3>4. x <= Value(t) /\ Value(t) \in Nat /\ x \in Nat
      <4>1. x <= Value(t)
        BY <3>1, NumeralGrows DEF Value
      <4>2. Value(t) \in Nat
        BY ValueType, Zenon
      <4> HIDE DEF a, v, x
      <4>3. x \in Nat
        BY <3>3
      <4>4. QED
        BY <4>1, <4>2, <4>3
    <3> HIDE DEF a, v, x
    <3>5. a \in -(LLONG_MAX + 1)..LLONG_MAX
      BY <1>8, <3>3, <3>4, Limits
    <3>6. Wrapped(a) = a
      BY <3>5, WrappedIs
    <3>7. f[k + 1] = Wrapped(x)
      BY <3>2, <3>3, <3>6
    <3>8. QED
      BY <3>7 DEF x
  <2>3. S = Nat
    BY <2>1, <2>2, Induction
  <2>4. Len(t) \in S
    BY <1>2, <2>3
  <2>5. f[Len(t)] = Wrapped(Numeral(t)[Len(t)])
    BY <1>2, <2>4
  <2>6. QED
    BY <1>1, <2>5 DEF Value
<1>9. Len(t) \in I
  BY <1>2, <1>7
<1>10. QED
  BY <1>1, <1>2, <1>8, <1>9

\* Blanks up to b, then a sign or none, digits from d up to e.
Places(t, b, d, e) ==
  /\ b <= d /\ d <= e
  /\ \A i \in 1..(b - 1) : t[i] \in Blank
  /\ b <= Len(t) => t[b] \notin Blank
  /\ d = IF b <= Len(t) /\ t[b] \in Sign THEN b + 1 ELSE b
  /\ \A i \in d..(e - 1) : t[i] \in Digit
  /\ e <= Len(t) => t[e] \notin Digit
  /\ Starts(Behind(t, Blank), {"-"}) <=> b <= Len(t) /\ t[b] = "-"
  /\ Leading(Unsigned(Behind(t, Blank)), Digit) = SubSeq(t, d, e - 1)
  /\ is_numeric(t) <=> /\ b <= Len(t) /\ ~(d = b + 1 /\ b = Len(t))
                       /\ \A i \in e..Len(t) : t[i] \in Blank

LEMMA Reading ==
  ASSUME NEW t \in Text
  PROVE  \E b, d, e \in 1..(Len(t) + 1) : Places(t, b, d, e)
<1>1. Len(t) \in Nat /\ Rest(t, 1) = t /\ 1 \in 1..(Len(t) + 1)
  BY TextElement, RestFull
<1>2. PICK b \in 1..(Len(t) + 1) :
        /\ Behind(t, Blank) = Rest(t, b)
        /\ \A i \in 1..(b - 1) : t[i] \in Blank
        /\ b <= Len(t) => t[b] \notin Blank
  <2>1. \E b \in 1..(Len(t) + 1) :
           /\ Behind(Rest(t, 1), Blank) = Rest(t, b)
           /\ \A i \in 1..(b - 1) : t[i] \in Blank
           /\ b <= Len(t) => t[b] \notin Blank
    BY <1>1, RestParted
  <2>2. QED
    BY <1>1, <2>1
<1> DEFINE d == IF b <= Len(t) /\ t[b] \in Sign THEN b + 1 ELSE b
<1>3. d \in b..(Len(t) + 1) /\ Unsigned(Rest(t, b)) = Rest(t, d)
  BY <1>1, RestUnsigned
<1> HIDE DEF d
<1>4. PICK e \in d..(Len(t) + 1) :
        /\ Leading(Rest(t, d), Digit) = SubSeq(t, d, e - 1)
        /\ Behind(Rest(t, d), Digit) = Rest(t, e)
        /\ \A i \in d..(e - 1) : t[i] \in Digit
        /\ e <= Len(t) => t[e] \notin Digit
  <2>1. d \in 1..(Len(t) + 1)
    BY <1>1, <1>3
  <2>2. QED
    BY <2>1, RestParted
<1>5. PICK g \in e..(Len(t) + 1) :
        /\ Behind(Rest(t, e), Blank) = Rest(t, g)
        /\ \A i \in e..(g - 1) : t[i] \in Blank
        /\ g <= Len(t) => t[g] \notin Blank
  <2>1. e \in 1..(Len(t) + 1)
    BY <1>1, <1>3, <1>4
  <2>2. QED
    BY <2>1, RestParted
<1>6. Behind(Behind(Unsigned(Rest(t, b)), Digit), Blank) = <<>> <=> \A i \in e..Len(t) : t[i] \in Blank
  <2>1. g \in 1..(Len(t) + 1)
    BY <1>1, <1>3, <1>4, <1>5
  <2>2. Behind(Behind(Unsigned(Rest(t, b)), Digit), Blank) = <<>> <=> g = Len(t) + 1
    BY <1>3, <1>4, <1>5, <2>1, RestIs
  <2>3. g = Len(t) + 1 => \A i \in e..Len(t) : t[i] \in Blank
    BY <1>1, <1>5
  <2>4. (\A i \in e..Len(t) : t[i] \in Blank) => g = Len(t) + 1
    <3> SUFFICES ASSUME \A i \in e..Len(t) : t[i] \in Blank, g # Len(t) + 1
                 PROVE  FALSE
      OBVIOUS
    <3>1. g <= Len(t) /\ g \in e..Len(t)
      BY <1>1, <1>3, <1>4, <2>1
    <3>2. QED
      BY <1>5, <3>1
  <2>5. QED
    BY <2>2, <2>3, <2>4
<1>7. /\ Rest(t, b) # <<>> <=> b <= Len(t)
      /\ \A S : Starts(Rest(t, b), S) <=> b <= Len(t) /\ t[b] \in S
      /\ Len(Rest(t, b)) = Len(t) - b + 1
  BY <1>1, RestIs
<1>8. Starts(Rest(t, b), Sign) /\ Len(Rest(t, b)) = 1 <=> d = b + 1 /\ b = Len(t)
  BY <1>1, <1>7 DEF d
<1>9. is_numeric(t) <=> /\ b <= Len(t) /\ ~(d = b + 1 /\ b = Len(t))
                        /\ \A i \in e..Len(t) : t[i] \in Blank
  BY <1>2, <1>6, <1>7, <1>8 DEF is_numeric
<1>10. Starts(Behind(t, Blank), {"-"}) <=> b <= Len(t) /\ t[b] = "-"
  BY <1>2, <1>7
<1>11. Leading(Unsigned(Behind(t, Blank)), Digit) = SubSeq(t, d, e - 1)
  BY <1>2, <1>3, <1>4
<1>12. d = IF b <= Len(t) /\ t[b] \in Sign THEN b + 1 ELSE b
  BY DEF d
<1>13. d \in 1..(Len(t) + 1) /\ e \in 1..(Len(t) + 1) /\ b <= d /\ d <= e
  BY <1>1, <1>3, <1>4
<1>14. Places(t, b, d, e)
  BY <1>2, <1>4, <1>9, <1>10, <1>11, <1>12, <1>13 DEF Places
<1>15. QED
  BY <1>13, <1>14

\* A sign that is read is one of the characters, and the other way round.
LEMMA MinusRead ==
  ASSUME NEW t \in Text, is_numeric(t)
  PROVE  Starts(Behind(t, Blank), {"-"}) <=> "-" \in ToSet(t)
<1>1. Len(t) \in Nat /\ DOMAIN t = 1..Len(t)
  BY TextElement DEF Text
<1>2. PICK b, d, e \in 1..(Len(t) + 1) : Places(t, b, d, e)
  BY Reading
<1>3. "-" \notin Blank /\ "-" \notin Digit
  BY OtherCharacters DEF Blank, Sign
<1>4. ASSUME NEW i \in 1..Len(t), t[i] = "-"
      PROVE  i = b
  <2>1. i \notin 1..(b - 1) /\ i \notin d..(e - 1) /\ i \notin e..Len(t)
    <3>1. /\ \A j \in 1..(b - 1) : t[j] \in Blank
          /\ \A j \in d..(e - 1) : t[j] \in Digit
          /\ \A j \in e..Len(t) : t[j] \in Blank
      BY <1>2 DEF Places
    <3>2. QED
      BY <1>3, <1>4, <3>1
  <2>2. i \in Nat /\ b \in Nat /\ d \in Nat /\ e \in Nat
    BY <1>1
  <2>3. d = b \/ d = b + 1
    BY <1>2, Zenon DEF Places
  <2>4. QED
    BY <1>1, <2>1, <2>2, <2>3
<1>5. "-" \in ToSet(t) <=> \E i \in 1..Len(t) : t[i] = "-"
  BY <1>1 DEF ToSet
<1>6. b <= Len(t) => b \in 1..Len(t)
  BY <1>1
<1>7. QED
  BY <1>2, <1>4, <1>5, <1>6 DEF Places

LEMMA NumberIs ==
  \A t : Number(t) = IF "-" \in ToSet(t) THEN -Value(t) ELSE Value(t)
BY DEF Number, Value

LEMMA Reads ==
  ASSUME NEW t \in Text, is_numeric(t), Number(t) \in -(LLONG_MAX + 1)..LLONG_MAX
  PROVE  ft_atoi_long_long(t) = Number(t)
<1>1. Len(t) \in Nat
  BY TextElement
<1>2. PICK b, d, e \in 1..(Len(t) + 1) : Places(t, b, d, e)
  BY Reading
<1> DEFINE digits == SubSeq(t, d, e - 1)
<1>3. /\ digits \in Text /\ Len(digits) = e - d
      /\ \A i \in 1..(e - d) : digits[i] = t[d + i - 1]
  <2>1. d \in 1..(Len(t) + 1) /\ e - 1 \in (d - 1)..Len(t) /\ (e - 1) - d + 1 = e - d
    BY <1>1, <1>2 DEF Places
  <2>2. QED
    BY <2>1, SubText
<1> HIDE DEF digits
<1>4. \A i \in 1..Len(digits) : digits[i] \in Digit
  <2>1. \A i \in 1..(e - d) : d + i - 1 \in d..(e - 1)
    BY <1>1
  <2>2. QED
    BY <1>2, <1>3, <2>1 DEF Places
<1>5. Numeral(t)[d - 1] = 0
  <2>1. d - 1 \in 0..Len(t) /\ 0 \in 0..Len(t)
    BY <1>1
  <2>2. ASSUME NEW i \in (0 + 1)..(d - 1)
        PROVE  t[i] \notin Digit
    <3>1. i \in 1..(b - 1) \/ (i = b /\ b <= Len(t) /\ t[b] \in Sign)
      BY <1>1, <1>2 DEF Places
    <3>2. QED
      BY <1>2, <3>1, OtherCharacters DEF Places
  <2>3. Numeral(t)[d - 1] = Numeral(t)[0]
    BY <2>1, <2>2, NumeralStays
  <2>4. QED
    BY <2>3, NumeralStep
<1>6. Numeral(t)[Len(t)] = Numeral(t)[e - 1]
  <2>1. e - 1 \in 0..Len(t) /\ Len(t) \in (e - 1)..Len(t) /\ (e - 1) + 1 = e
    BY <1>1
  <2>2. \A i \in ((e - 1) + 1)..Len(t) : t[i] \notin Digit
    BY <1>2, <2>1, OtherCharacters DEF Places
  <2>3. QED
    BY <2>1, <2>2, NumeralStays
<1>7. Numeral(digits)[Len(digits)] = Numeral(t)[e - 1]
  <2> DEFINE j == d - 1
  <2>1. /\ j \in 0..Len(t) /\ j + Len(digits) <= Len(t)
        /\ Len(digits) \in 0..Len(digits) /\ j + Len(digits) = e - 1
        /\ \A i \in 1..Len(digits) : digits[i] = t[j + i]
    <3>1. \A i \in 1..(e - d) : d + i - 1 = j + i
      BY <1>1
    <3>2. QED
      BY <1>1, <1>3, <3>1
  <2>2. digits \in Text /\ Numeral(t)[j] = 0
    BY <1>3, <1>5
  <2> HIDE DEF j
  <2>3. \A k \in 0..Len(digits) : Numeral(digits)[k] = Numeral(t)[j + k]
    BY <2>1, <2>2, NumeralOfPart, Zenon
  <2>4. Numeral(digits)[Len(digits)] = Numeral(t)[j + Len(digits)]
    BY <2>1, <2>3, Zenon
  <2>5. QED
    BY <2>1, <2>4, Zenon
<1>8. Value(digits) = Value(t)
  BY <1>6, <1>7 DEF Value
<1> DEFINE minus == Starts(Behind(t, Blank), {"-"})
<1>9. /\ minus <=> "-" \in ToSet(t)
      /\ Number(t) = IF minus THEN -Value(t) ELSE Value(t)
  BY MinusRead, NumberIs
<1>10. ft_atoi_long_long(t) = Wrapped(IF minus THEN -ReadDigits(digits) ELSE ReadDigits(digits))
  BY <1>2 DEF ft_atoi_long_long, digits, Places
<1> HIDE DEF minus
<1>11. Value(t) \in Nat /\ Value(t) <= LLONG_MAX + 1
  BY <1>9, ValueType, Limits
<1>12. ReadDigits(digits) = Wrapped(Value(t))
  BY <1>3, <1>4, <1>8, <1>11, ReadDigitsIs
<1>13. CASE Value(t) = LLONG_MAX + 1
  <2>1. minus
    BY <1>9, <1>13, Limits
  <2>2. ReadDigits(digits) = -(LLONG_MAX + 1)
    BY <1>12, <1>13, WrappedIs
  <2>3. -ReadDigits(digits) = LLONG_MAX + 1
    BY <2>2, Limits
  <2>4. QED
    BY <1>9, <1>10, <1>13, <2>1, <2>3, WrappedIs
<1>14. CASE Value(t) # LLONG_MAX + 1
  <2>1. Value(t) \in -(LLONG_MAX + 1)..LLONG_MAX /\ -Value(t) \in -(LLONG_MAX + 1)..LLONG_MAX
    BY <1>11, <1>14, Limits
  <2>2. ReadDigits(digits) = Value(t)
    BY <1>12, <2>1, WrappedIs
  <2>3. QED
    BY <1>9, <1>10, <2>1, <2>2, WrappedIs
<1>15. QED
  BY <1>13, <1>14

\* Any text is read as some number.
LEMMA ReadsSome ==
  ASSUME NEW t \in Text
  PROVE  ft_atoi_long_long(t) \in -(LLONG_MAX + 1)..LLONG_MAX
<1>1. Len(t) \in Nat
  BY TextElement
<1>2. PICK b, d, e \in 1..(Len(t) + 1) : Places(t, b, d, e)
  BY Reading
<1> DEFINE digits == SubSeq(t, d, e - 1)
<1>3. /\ digits \in Text /\ Len(digits) = e - d
      /\ \A i \in 1..(e - d) : digits[i] = t[d + i - 1] /\ d + i - 1 \in d..(e - 1)
  <2>1. d \in 1..(Len(t) + 1) /\ e - 1 \in (d - 1)..Len(t) /\ (e - 1) - d + 1 = e - d
    BY <1>1, <1>2 DEF Places
  <2>2. \A i \in 1..(e - d) : d + i - 1 \in d..(e - 1)
    BY <1>1
  <2>3. QED
    BY <2>1, <2>2, SubText
<1> HIDE DEF digits
<1>4. ReadDigits(digits) \in Int
  BY <1>2, <1>3, ReadDigitsIs DEF Places
<1>5. ft_atoi_long_long(t) = Wrapped(IF Starts(Behind(t, Blank), {"-"}) THEN -ReadDigits(digits)
                                     ELSE ReadDigits(digits))
  BY <1>2 DEF ft_atoi_long_long, digits, Places
<1>6. QED
  BY <1>4, <1>5, WrappedIs
-----------------------------------------------------------------------------
(* valid_numeric_argv() lets pass what a long long holds.                  *)

\* A number from its sign or first digit at i to its last digit at k.
Spelled(t, i, k) ==
  /\ i <= k /\ t[k] \in Digit /\ t[i] \in Sign \cup Digit
  /\ \A j \in 1..(i - 1) : t[j] \in Blank
  /\ \A j \in (k + 1)..Len(t) : t[j] \in Blank
  /\ \A j \in (i + 1)..k : t[j] \in Digit

LEMMA NumberParts ==
  ASSUME NEW t \in Text, IsNumber(t)
  PROVE  \E i, k \in 1..Len(t) : Spelled(t, i, k)
<1>1. PICK i \in 1..Len(t) : \E k \in i..Len(t) :
        /\ ToSet(SubSeq(t, 1, i - 1) \o SubSeq(t, k + 1, Len(t))) \subseteq Blank
        /\ t[k] \in Digit /\ t[i] \in Sign \cup Digit
        /\ ToSet(SubSeq(t, i + 1, k)) \subseteq Digit
  BY DEF IsNumber
<1>2. PICK k \in i..Len(t) :
        /\ ToSet(SubSeq(t, 1, i - 1) \o SubSeq(t, k + 1, Len(t))) \subseteq Blank
        /\ t[k] \in Digit /\ t[i] \in Sign \cup Digit
        /\ ToSet(SubSeq(t, i + 1, k)) \subseteq Digit
  BY <1>1
<1>3. Len(t) \in Nat /\ i \in Nat /\ k \in Nat /\ k \in 1..Len(t)
  BY TextElement
<1> DEFINE p == SubSeq(t, 1, i - 1)
           q == SubSeq(t, k + 1, Len(t))
           r == SubSeq(t, i + 1, k)
<1>4. p \in Text /\ Len(p) = i - 1 /\ \A j \in 1..(i - 1) : p[j] = t[j]
  <2>1. 1 \in 1..(Len(t) + 1) /\ i - 1 \in (1 - 1)..Len(t) /\ (i - 1) - 1 + 1 = i - 1
    BY <1>3
  <2>2. \A j \in 1..(i - 1) : 1 + j - 1 = j
    OBVIOUS
  <2>3. QED
    BY <2>1, <2>2, SubText
<1>5. /\ q \in Text /\ Len(q) = Len(t) - k
      /\ \A j \in 1..(Len(t) - k) : q[j] = t[k + j]
  <2>1. k + 1 \in 1..(Len(t) + 1) /\ Len(t) \in ((k + 1) - 1)..Len(t) /\ Len(t) - (k + 1) + 1 = Len(t) - k
    BY <1>3
  <2>2. \A j \in 1..(Len(t) - k) : (k + 1) + j - 1 = k + j
    BY <1>3
  <2> DEFINE n == k + 1
             m == Len(t) - k
  <2>3. n \in 1..(Len(t) + 1) /\ Len(t) - n + 1 = m
    BY <2>1
  <2>4. \A j \in 1..m : n + j - 1 = k + j
    BY <2>2
  <2> HIDE DEF n, m
  <2>5. Rest(t, n) \in Text /\ Len(Rest(t, n)) = m /\ \A j \in 1..m : Rest(t, n)[j] = t[n + j - 1]
    BY <2>3, RestIs
  <2>6. Rest(t, n) \in Text /\ Len(Rest(t, n)) = m /\ \A j \in 1..m : Rest(t, n)[j] = t[k + j]
    BY <2>4, <2>5
  <2>7. q = Rest(t, n)
    BY DEF Rest, n
  <2> HIDE DEF q
  <2>8. q \in Text /\ Len(q) = m /\ \A j \in 1..m : q[j] = t[k + j]
    BY <2>6, <2>7
  <2>9. QED
    BY <2>8 DEF m
<1>6. r \in Text /\ Len(r) = k - i /\ \A j \in 1..(k - i) : r[j] = t[i + j]
  <2>1. i + 1 \in 1..(Len(t) + 1) /\ k \in ((i + 1) - 1)..Len(t) /\ k - (i + 1) + 1 = k - i
    BY <1>3
  <2>2. \A j \in 1..(k - i) : (i + 1) + j - 1 = i + j
    BY <1>3
  <2>3. QED
    BY <2>1, <2>2, SubText
<1> HIDE DEF p, q, r
<1>7. ToSet(p \o q) \subseteq Blank /\ ToSet(r) \subseteq Digit
  BY <1>2 DEF p, q, r
<1>8. /\ DOMAIN (p \o q) = 1..(Len(p) + Len(q)) /\ DOMAIN r = 1..Len(r)
      /\ \A j \in 1..(Len(p) + Len(q)) :
           (p \o q)[j] = IF j <= Len(p) THEN p[j] ELSE q[j - Len(p)]
  <2>1. DOMAIN r = 1..Len(r)
    BY <1>6 DEF Text
  <2>2. /\ p \o q \in Seq(Characters) /\ Len(p \o q) = Len(p) + Len(q)
        /\ \A j \in 1..(Len(p) + Len(q)) :
             (p \o q)[j] = IF j <= Len(p) THEN p[j] ELSE q[j - Len(p)]
    BY <1>4, <1>5, ConcatProperties DEF Text
  <2>3. QED
    BY <2>1, <2>2
<1>9. ASSUME NEW j \in 1..(i - 1)
      PROVE  t[j] \in Blank
  <2>1. j \in 1..(Len(p) + Len(q)) /\ j <= Len(p)
    BY <1>3, <1>4, <1>5
  <2>2. (p \o q)[j] \in Blank
    BY <1>7, <1>8, <2>1 DEF ToSet
  <2>3. QED
    BY <1>4, <1>8, <2>1, <2>2
<1>10. ASSUME NEW j \in (k + 1)..Len(t)
       PROVE  t[j] \in Blank
  <2> DEFINE n == (i - 1) + (j - k)
  <2>1. /\ n \in 1..(Len(p) + Len(q)) /\ ~(n <= Len(p)) /\ n - Len(p) = j - k
        /\ j - k \in 1..(Len(t) - k) /\ k + (j - k) = j
    BY <1>3, <1>4, <1>5
  <2> HIDE DEF n
  <2>2. (p \o q)[n] \in Blank
    BY <1>7, <1>8, <2>1 DEF ToSet
  <2>3. (p \o q)[n] = q[j - k] /\ q[j - k] = t[j]
    BY <1>5, <1>8, <2>1
  <2>4. QED
    BY <2>2, <2>3
<1>11. ASSUME NEW j \in (i + 1)..k
       PROVE  t[j] \in Digit
  <2>1. j - i \in 1..(k - i) /\ i + (j - i) = j
    BY <1>3
  <2>2. r[j - i] \in Digit
    BY <1>6, <1>7, <1>8, <2>1 DEF ToSet
  <2>3. QED
    BY <1>6, <2>1, <2>2
<1>12. Spelled(t, i, k)
  BY <1>2, <1>9, <1>10, <1>11 DEF Spelled
<1>13. QED
  BY <1>3, <1>12

LEMMA NumberIsNumeric ==
  ASSUME NEW t \in Text, IsNumber(t)
  PROVE  is_numeric(t)
<1>1. Len(t) \in Nat
  BY TextElement
<1>2. PICK i, k \in 1..Len(t) : Spelled(t, i, k)
  BY NumberParts
<1>3. PICK b, d, e \in 1..(Len(t) + 1) : Places(t, b, d, e)
  BY Reading
<1>4. i \in Nat /\ k \in Nat /\ b \in Nat /\ d \in Nat /\ e \in Nat /\ i <= k /\ b <= d /\ d <= e
  BY <1>1, <1>2, <1>3 DEF Spelled, Places
<1>5. t[i] \notin Blank /\ t[k] \notin Blank /\ t[k] \notin Sign
  BY <1>2, OtherCharacters DEF Spelled
<1>6. b = i
  <2>1. ~(i < b)
    <3> SUFFICES ASSUME i < b
                 PROVE  FALSE
      OBVIOUS
    <3>1. i \in 1..(b - 1)
      BY <1>4
    <3>2. QED
      BY <1>3, <1>5, <3>1 DEF Places
  <2>2. ~(b < i)
    <3> SUFFICES ASSUME b < i
                 PROVE  FALSE
      OBVIOUS
    <3>1. b \in 1..(i - 1) /\ b <= Len(t)
      BY <1>1, <1>4
    <3>2. t[b] \in Blank /\ t[b] \notin Blank
      BY <1>2, <1>3, <3>1 DEF Spelled, Places
    <3>3. QED
      BY <3>2
  <2>3. QED
    BY <1>4, <2>1, <2>2
<1>7. d = IF t[i] \in Sign THEN i + 1 ELSE i
  BY <1>1, <1>3, <1>6 DEF Places
<1>8. d <= k
  <2>1. CASE t[i] \in Sign
    <3>1. i # k
      BY <1>5, <2>1
    <3>2. QED
      BY <1>4, <1>7, <2>1, <3>1
  <2>2. CASE t[i] \notin Sign
    BY <1>4, <1>7, <2>2
  <2>3. QED
    BY <2>1, <2>2
<1>9. \A j \in d..k : t[j] \in Digit
  <2> SUFFICES ASSUME NEW j \in d..k
               PROVE  t[j] \in Digit
    OBVIOUS
  <2>1. CASE t[i] \in Sign
    <3>1. j \in (i + 1)..k
      BY <1>7, <2>1
    <3>2. QED
      BY <1>2, <3>1 DEF Spelled
  <2>2. CASE t[i] \notin Sign
    <3>1. j = i \/ j \in (i + 1)..k
      BY <1>4, <1>7, <2>2
    <3>2. t[i] \in Digit
      BY <1>2, <2>2 DEF Spelled
    <3>3. QED
      BY <1>2, <3>1, <3>2 DEF Spelled
  <2>3. QED
    BY <2>1, <2>2
<1>10. k < e
  <2> SUFFICES ASSUME ~(k < e)
               PROVE  FALSE
    OBVIOUS
  <2>1. e \in d..k /\ e <= Len(t)
    BY <1>1, <1>4
  <2>2. t[e] \in Digit /\ t[e] \notin Digit
    BY <1>3, <1>9, <2>1 DEF Places
  <2>3. QED
    BY <2>2
<1>11. \A j \in e..Len(t) : t[j] \in Blank
  <2>1. \A j \in e..Len(t) : j \in (k + 1)..Len(t)
    BY <1>1, <1>4, <1>10
  <2>2. QED
    BY <1>2, <2>1 DEF Spelled
<1>12. b <= Len(t) /\ ~(d = b + 1 /\ b = Len(t))
  BY <1>1, <1>4, <1>6, <1>8
<1>13. QED
  BY <1>3, <1>11, <1>12 DEF Places

\* What valid_numeric_argv() compares is the number without sign and zeros.
LEMMA Stripped ==
  ASSUME NEW t \in Text, t # <<>>
  PROVE  LET number == WithoutZeros(Unsigned(t))
             a      == IF t[1] \in Sign THEN 2 ELSE 1
         IN  /\ number \in Text /\ Value(number) = Value(t) /\ Len(number) <= Len(t)
             /\ (\A i \in a..Len(t) : t[i] \in Digit) =>
                  /\ \A i \in 1..Len(number) : number[i] \in Digit
                  /\ number = <<>> \/ number = <<"0">> \/ Written(number)
<1> DEFINE number == WithoutZeros(Unsigned(t))
           a      == IF t[1] \in Sign THEN 2 ELSE 1
<1>1. Len(t) \in Nat /\ Len(t) # 0 /\ Rest(t, 1) = t /\ 1 \in 1..(Len(t) + 1)
  BY TextElement, RestFull, EmptySeq DEF Text
<1>2. a \in 1..(Len(t) + 1) /\ Unsigned(t) = Rest(t, a)
  BY <1>1, RestUnsigned
<1> HIDE DEF a
<1>3. PICK k \in a..(Len(t) + 1) :
        /\ Behind(Rest(t, a), {"0"}) = Rest(t, k)
        /\ \A i \in a..(k - 1) : t[i] \in {"0"}
        /\ k <= Len(t) => t[k] \notin {"0"}
  BY <1>2, RestParted
<1>4. k \in 1..(Len(t) + 1) /\ k \in Nat /\ a \in Nat
  BY <1>1, <1>2
<1>5. /\ Rest(t, k) \in Text /\ Len(Rest(t, k)) = Len(t) - k + 1
      /\ \A i \in 1..(Len(t) - k + 1) : Rest(t, k)[i] = t[k + i - 1]
      /\ Rest(t, k) = <<>> <=> k = Len(t) + 1
  BY <1>4, RestIs
<1>6. number = IF Rest(t, k) = <<>> /\ Rest(t, a) # <<>> THEN <<"0">> ELSE Rest(t, k)
  BY <1>2, <1>3 DEF WithoutZeros
<1> HIDE DEF number
<1>7. \A i \in 1..(k - 1) : t[i] \notin Digit \/ t[i] = "0"
  <2> SUFFICES ASSUME NEW i \in 1..(k - 1)
               PROVE  t[i] \notin Digit \/ t[i] = "0"
    OBVIOUS
  <2>1. i \in a..(k - 1) \/ (i = 1 /\ t[1] \in Sign)
    BY <1>4 DEF a
  <2>2. QED
    BY <1>3, <2>1, OtherCharacters
<1>8. Numeral(t)[k - 1] = 0
  <2>1. k - 1 \in 0..Len(t) /\ 0 \in 0..Len(t) /\ Numeral(t)[0] = 0 /\ 0 + 1 = 1
    BY <1>1, <1>4, NumeralStep
  <2>2. Numeral(t)[k - 1] = Numeral(t)[0]
    BY <1>7, <2>1, NumeralStays
  <2>3. QED
    BY <2>1, <2>2
<1>9. <<"0">> \in Text /\ Len(<<"0">>) = 1 /\ <<"0">>[1] = "0" /\ Value(<<"0">>) = 0
  <2>1. "0" \in Digit /\ "0" \in Characters /\ ValueOf("0") = 0
    BY OtherCharacters, ArgumentsAssumption
  <2>2. <<>> \in Text /\ <<"0">> = <<>> \o <<"0">> /\ Len(<<>>) = 0
    BY <2>1 DEF Text
  <2>3. Value(<<>>) = 0
    BY <2>2, NumeralStep DEF Value
  <2>4. Value(<<"0">>) = 10 * 0 + 0
    <3>1. Value(<<>> \o <<"0">>) = 10 * Value(<<>>) + ValueOf("0")
      BY <2>1, <2>2, OneMoreDigit, Zenon
    <3>2. QED
      BY <2>1, <2>2, <2>3, <3>1, Zenon
  <2>5. QED
    BY <2>1, <2>4 DEF Text
<1>10. CASE k = Len(t) + 1
  <2>1. number = <<"0">> \/ number = <<>>
    BY <1>5, <1>6, <1>10
  <2>2. Value(t) = 0
    BY <1>1, <1>8, <1>10 DEF Value
  <2>3. <<>> \in Text /\ Len(<<>>) = 0
    BY DEF Text
  <2>4. Value(<<>>) = 0
    BY <2>3, NumeralStep DEF Value
  <2>5. number \in Text /\ Value(number) = Value(t) /\ Len(number) <= Len(t)
    <3>1. 1 <= Len(t) /\ 0 <= Len(t)
      BY <1>1
    <3>2. CASE number = <<"0">>
      BY <1>9, <2>2, <3>1, <3>2
    <3>3. CASE number = <<>>
      BY <2>2, <2>3, <2>4, <3>1, <3>3
    <3>4. QED
      BY <2>1, <3>2, <3>3
  <2>6. \A i \in 1..Len(number) : number[i] \in Digit
    BY <1>9, <2>1, <2>3, OtherCharacters
  <2>7. QED
    BY <2>1, <2>5, <2>6 DEF number, a
<1>11. CASE k <= Len(t)
  <2>1. number = Rest(t, k) /\ Len(number) = Len(t) - k + 1 /\ number # <<>>
    BY <1>1, <1>5, <1>6, <1>11
  <2>2. Value(number) = Value(t)
    <3>1. /\ k - 1 \in 0..Len(t) /\ (k - 1) + Len(number) = Len(t)
          /\ Len(number) \in 0..Len(number)
      BY <1>1, <1>4, <2>1
    <3>2. \A i \in 1..Len(number) : number[i] = t[(k - 1) + i]
      <4>1. \A i \in 1..(Len(t) - k + 1) : k + i - 1 = (k - 1) + i
        BY <1>4
      <4>2. QED
        BY <1>5, <2>1, <4>1
    <3> DEFINE j == k - 1
    <3>3. /\ j \in 0..Len(t) /\ j + Len(number) <= Len(t) /\ Numeral(t)[j] = 0 /\ number \in Text
          /\ \A i \in 1..Len(number) : number[i] = t[j + i]
      BY <1>1, <1>5, <1>8, <2>1, <3>1, <3>2
    <3> HIDE DEF j
    <3>4. Numeral(number)[Len(number)] = Numeral(t)[j + Len(number)]
      BY <3>1, <3>3, NumeralOfPart
    <3>5. QED
      BY <3>1, <3>4 DEF Value, j
  <2>3. ASSUME \A i \in a..Len(t) : t[i] \in Digit
        PROVE  (\A i \in 1..Len(number) : number[i] \in Digit) /\ Written(number)
    <3>1. \A i \in 1..Len(number) : number[i] \in Digit
      <4>1. \A i \in 1..(Len(t) - k + 1) : k + i - 1 \in a..Len(t)
        BY <1>1, <1>2, <1>4
      <4>2. QED
        BY <1>5, <2>1, <2>3, <4>1
    <3>2. number[1] = t[k]
      <4>1. 1 \in 1..(Len(t) - k + 1) /\ k + 1 - 1 = k
        BY <1>1, <1>4, <1>11
      <4>2. QED
        BY <1>5, <2>1, <4>1
    <3>3. number[1] # "0"
      BY <1>3, <1>11, <3>2
    <3>4. QED
      BY <1>5, <2>1, <3>1, <3>3 DEF Written
  <2>4. number \in Text /\ Len(number) <= Len(t)
    BY <1>1, <1>4, <1>5, <2>1
  <2>5. QED
    BY <2>2, <2>3, <2>4 DEF number, a
<1>12. QED
  BY <1>1, <1>4, <1>10, <1>11

\* The limit that valid_numeric_argv() takes.
LimitOf(t) == IF Starts(t, {"-"}) THEN LLONG_MAX + 1 ELSE LLONG_MAX

LEMMA LimitIs ==
  ASSUME NEW t
  PROVE  /\ LimitOf(t) \in LLONG_MAX..(LLONG_MAX + 1) /\ LimitOf(t) \in Nat \ {0}
         /\ Written(ToText[LimitOf(t)]) /\ ToText[LimitOf(t)] \in Text
         /\ Value(ToText[LimitOf(t)]) = LimitOf(t)
         /\ Len(ToText[LLONG_MAX]) \in Nat /\ Len(ToText[LimitOf(t)]) \in Nat \ {0}
         /\ Len(ToText[LLONG_MAX]) <= Len(ToText[LimitOf(t)])
<1>1. LimitOf(t) \in LLONG_MAX..(LLONG_MAX + 1) /\ LimitOf(t) \in Nat \ {0}
  BY Limits DEF LimitOf
<1>2. \A n \in LLONG_MAX..(LLONG_MAX + 1) : n \in 0..(LLONG_MAX + 1) /\ n # 0
  BY Limits
<1>3. LLONG_MAX \in LLONG_MAX..(LLONG_MAX + 1)
  BY Limits
<1>4. \A n \in LLONG_MAX..(LLONG_MAX + 1) :
         /\ Written(ToText[n]) /\ ToText[n] \in Text /\ Value(ToText[n]) = n
         /\ Len(ToText[n]) \in Nat \ {0}
  BY <1>2, ToTextIs
<1>5. Len(ToText[LLONG_MAX]) <= Len(ToText[LimitOf(t)])
  <2> DEFINE u == ToText[LLONG_MAX]
             v == ToText[LimitOf(t)]
  <2>1. /\ Written(u) /\ u \in Text /\ Value(u) = LLONG_MAX /\ Len(u) \in Nat
        /\ Written(v) /\ v \in Text /\ Value(v) = LimitOf(t) /\ Len(v) \in Nat
    BY <1>1, <1>3, <1>4
  <2> HIDE DEF u, v
  <2>2. ~(Len(v) < Len(u))
    <3> SUFFICES ASSUME Len(v) < Len(u)
                 PROVE  FALSE
      OBVIOUS
    <3>1. Value(v) < Value(u)
      BY <2>1, Shorter
    <3>2. QED
      BY <1>1, <2>1, <3>1, Limits
  <2>3. Len(u) <= Len(v)
    BY <2>1, <2>2
  <2>4. QED
    BY <2>3 DEF u, v
<1>6. QED
  BY <1>1, <1>3, <1>4, <1>5

LEMMA NumericNotEmpty ==
  ASSUME NEW t \in Text, is_numeric(t)
  PROVE  t # <<>>
<1>1. PICK b, d, e \in 1..(Len(t) + 1) : Places(t, b, d, e)
  BY Reading
<1>2. b <= Len(t) /\ b \in Nat
  BY <1>1, TextElement DEF Places
<1>3. QED
  BY <1>2

LEMMA ValidIsLong ==
  ASSUME NEW t \in Text, valid_numeric_argv(t)
  PROVE  is_numeric(t) /\ Number(t) \in -(LLONG_MAX + 1)..LLONG_MAX
<1> DEFINE number == WithoutZeros(Unsigned(t))
           limit  == ToText[LimitOf(t)]
<1>1. /\ is_numeric(t) /\ Len(number) <= Len(limit)
      /\ Len(number) = Len(limit) => ~Above(number, limit)
  BY DEF valid_numeric_argv, LimitOf
<1>2. number \in Text /\ Value(number) = Value(t)
  BY <1>1, NumericNotEmpty, Stripped
<1>3. /\ Written(limit) /\ Value(limit) = LimitOf(t) /\ Len(limit) \in Nat
      /\ LimitOf(t) \in LLONG_MAX..(LLONG_MAX + 1)
  BY LimitIs
<1> HIDE DEF number, limit
<1>4. Value(number) <= Value(limit)
  <2>1. Len(number) \in Nat /\ Value(number) \in Nat
    BY <1>2, TextElement, ValueType
  <2>2. CASE Len(number) < Len(limit)
    <3>1. Value(number) < Value(limit)
      BY <1>2, <1>3, <2>2, Shorter
    <3>2. QED
      BY <1>3, <2>1, <3>1, Limits
  <2>3. CASE Len(number) = Len(limit)
    BY <1>1, <1>2, <1>3, <2>3, NotAbove
  <2>4. QED
    BY <1>1, <1>3, <2>1, <2>2, <2>3
<1>5. Value(t) \in Nat /\ Value(t) <= LimitOf(t)
  BY <1>2, <1>3, <1>4, ValueType
<1>6. CASE Starts(t, {"-"})
  <2>1. t[1] = "-" /\ 1 \in DOMAIN t
    BY <1>6, TextElement, EmptySeq DEF Starts, Text
  <2>2. "-" \in ToSet(t)
    BY <2>1 DEF ToSet
  <2>3. Number(t) = -Value(t)
    BY <2>2, NumberIs
  <2>4. QED
    BY <1>1, <1>3, <1>5, <2>3, Limits
<1>7. CASE ~Starts(t, {"-"})
  <2>1. Value(t) <= LLONG_MAX
    BY <1>5, <1>7 DEF LimitOf
  <2>2. Number(t) = -Value(t) \/ Number(t) = Value(t)
    BY NumberIs
  <2>3. QED
    BY <1>1, <1>5, <2>1, <2>2, Limits
<1>8. QED
  BY <1>6, <1>7

LEMMA LongIsValid ==
  ASSUME NEW t \in Text, IsLong(t), ~Padded(t)
  PROVE  valid_numeric_argv(t)
<1> DEFINE number == WithoutZeros(Unsigned(t))
           limit  == ToText[LimitOf(t)]
           a      == IF t[1] \in Sign THEN 2 ELSE 1
<1>1. IsNumber(t) /\ Number(t) \in -(LLONG_MAX + 1)..LLONG_MAX
  BY DEF IsLong
<1>2. is_numeric(t) /\ t # <<>>
  BY <1>1, NumberIsNumeric, NumericNotEmpty
<1>3. /\ number \in Text /\ Value(number) = Value(t) /\ Len(number) <= Len(t)
      /\ (\A i \in a..Len(t) : t[i] \in Digit) =>
            /\ \A i \in 1..Len(number) : number[i] \in Digit
            /\ number = <<>> \/ number = <<"0">> \/ Written(number)
  BY <1>2, Stripped
<1> HIDE DEF number, a
<1>4. /\ Written(limit) /\ Value(limit) = LimitOf(t) /\ Len(limit) \in Nat \ {0} /\ limit \in Text
      /\ LimitOf(t) \in LLONG_MAX..(LLONG_MAX + 1)
      /\ Len(ToText[LLONG_MAX]) \in Nat /\ Len(ToText[LLONG_MAX]) <= Len(limit)
  BY LimitIs
<1> HIDE DEF limit
<1>5. Len(number) \in Nat /\ Len(t) \in Nat /\ Value(t) \in Nat /\ DOMAIN t = 1..Len(t)
  BY <1>3, TextElement, ValueType DEF Text
<1>6. CASE ToSet(t) \cap Blank # {}
  <2>1. ~(Len(t) >= Len(ToText[LLONG_MAX]))
    BY <1>6 DEF Padded
  <2>2. Len(number) < Len(limit)
    BY <1>3, <1>4, <1>5, <2>1
  <2>3. Len(number) <= Len(limit) /\ Len(number) # Len(limit)
    BY <1>4, <1>5, <2>2
  <2>4. QED
    BY <1>2, <2>3 DEF valid_numeric_argv, LimitOf, number, limit
<1>7. CASE ToSet(t) \cap Blank = {}
  <2>1. PICK i, k \in 1..Len(t) : Spelled(t, i, k)
    BY <1>1, NumberParts
  <2>2. \A j \in 1..Len(t) : t[j] \notin Blank
    BY <1>5, <1>7 DEF ToSet
  <2>3. i = 1
    <3> SUFFICES ASSUME i # 1
                 PROVE  FALSE
      OBVIOUS
    <3>1. 1 \in 1..(i - 1) /\ 1 \in 1..Len(t)
      BY <1>5
    <3>2. QED
      BY <2>1, <2>2, <3>1 DEF Spelled
  <2>4. k = Len(t)
    <3> SUFFICES ASSUME k # Len(t)
                 PROVE  FALSE
      OBVIOUS
    <3>1. Len(t) \in Nat
      BY TextElement
    <3>2. Len(t) \in (k + 1)..Len(t) /\ Len(t) \in 1..Len(t)
      BY <3>1
    <3>3. QED
      BY <2>1, <2>2, <3>2 DEF Spelled
  <2>5. ASSUME NEW j \in a..Len(t)
        PROVE  t[j] \in Digit
    <3>1. j \in (1 + 1)..Len(t) \/ (j = 1 /\ t[1] \notin Sign)
      BY <1>5 DEF a
    <3>2. t[1] \in Sign \cup Digit /\ \A n \in (1 + 1)..Len(t) : t[n] \in Digit
      BY <2>1, <2>3, <2>4 DEF Spelled
    <3>3. QED
      BY <3>1, <3>2
  <2>6. /\ \A n \in 1..Len(number) : number[n] \in Digit
        /\ number = <<>> \/ number = <<"0">> \/ Written(number)
    BY <1>3, <2>5
  <2>7. Value(t) <= LimitOf(t)
    <3>1. CASE "-" \in ToSet(t)
      <4>1. PICK n \in 1..Len(t) : t[n] = "-"
        BY <1>5, <3>1 DEF ToSet
      <4>2. n = 1
        <5> SUFFICES ASSUME n # 1
                     PROVE  FALSE
          OBVIOUS
        <5>1. n \in (1 + 1)..Len(t)
          BY <1>5
        <5>2. t[n] \in Digit
          BY <2>1, <2>3, <2>4, <5>1 DEF Spelled
        <5>3. QED
          BY <4>1, <5>2, OtherCharacters DEF Sign
      <4>3. Starts(t, {"-"})
        BY <1>2, <4>1, <4>2 DEF Starts
      <4>4. LimitOf(t) = LLONG_MAX + 1 /\ Number(t) = -Value(t)
        BY <3>1, <4>3, NumberIs DEF LimitOf
      <4>5. QED
        BY <1>1, <1>5, <4>4, Limits
    <3>2. CASE "-" \notin ToSet(t)
      <4>1. Number(t) = Value(t)
        BY <3>2, NumberIs
      <4>2. QED
        BY <1>1, <1>4, <1>5, <4>1, Limits
    <3>3. QED
      BY <3>1, <3>2
  <2>8. Len(number) <= Len(limit)
    <3>1. CASE number = <<>> \/ number = <<"0">>
      <4>1. Len(number) = 0 \/ Len(number) = 1
        BY <3>1
      <4>2. 0 <= Len(limit) /\ 1 <= Len(limit)
        BY <1>4
      <4>3. QED
        BY <4>1, <4>2
    <3>2. CASE Written(number)
      <4> SUFFICES ASSUME Len(limit) < Len(number)
                   PROVE  FALSE
        BY <1>4, <1>5
      <4>1. Value(limit) < Value(number)
        BY <1>4, <3>2, Shorter
      <4>2. QED
        BY <1>3, <1>4, <1>5, <2>7, <4>1, Limits
    <3>3. QED
      BY <2>6, <3>1, <3>2
  <2>9. ASSUME Len(number) = Len(limit), Above(number, limit)
        PROVE  FALSE
    <3>1. Value(number) > Value(limit)
      BY <1>3, <1>4, <2>6, <2>9, IsAbove
    <3>2. QED
      BY <1>3, <1>4, <1>5, <2>7, <3>1, Limits
  <2>10. QED
    BY <1>2, <2>8, <2>9 DEF valid_numeric_argv, LimitOf, number, limit
<1>8. QED
  BY <1>6, <1>7
-----------------------------------------------------------------------------
(* exit ends the shell with its number.                                    *)

LEMMA ExitStep ==
  ASSUME NEW words \in ExitWords, exec_exit(words)
  PROVE  ExitRight'
<1> DEFINE first == words[1]
<1>1. words \in Seq(Text)
  BY ArgumentsAssumption
<1>2. /\ command'.name = "exit" /\ command'.words = words
      /\ command'.status = num_return_error
  BY DEF exec_exit
<1>3. words # <<>> => first \in Text
  BY <1>1
<1>4. CASE words = <<>>
  <2>1. code' = Byte(num_return_error)
    <3>1. ~(Len(words) = 1) /\ ~(Len(words) > 1)
      BY <1>4
    <3>2. QED
      BY <1>4, <3>1 DEF exec_exit, exit
  <2>2. QED
    BY <1>2, <1>4, <2>1 DEF ExitRight
<1>5. CASE words # <<>> /\ ~valid_numeric_argv(first)
  <2>1. code' = Byte(255)
    BY <1>5 DEF exec_exit, exit
  <2>2. ~IsLong(first) \/ Padded(first)
    BY <1>3, <1>5, LongIsValid
  <2>3. QED
    BY <1>2, <1>5, <2>1, <2>2 DEF ExitRight
<1>6. CASE words # <<>> /\ valid_numeric_argv(first)
  <2>1. is_numeric(first) /\ Number(first) \in -(LLONG_MAX + 1)..LLONG_MAX
    BY <1>3, <1>6, ValidIsLong
  <2>2. ft_atoi_long_long(first) = Number(first)
    BY <1>3, <1>6, <2>1, Reads
  <2>3. SignOnly(first) \/ IsLong(first)
    BY <2>1 DEF SignOnly, IsLong
  <2>4. \/ Len(words) = 1 /\ code' = Byte(Number(first))
        \/ Len(words) > 1 /\ code' = Running /\ num_return_error' = -1
    BY <1>6, <2>2 DEF exec_exit, exit, Fresh
  <2>5. CASE SignOnly(first)
    BY <1>2, <1>6, <2>5 DEF ExitRight
  <2>6. CASE ~SignOnly(first) /\ Len(words) = 1 /\ code' = Byte(Number(first))
    BY <1>2, <1>6, <2>3, <2>6 DEF ExitRight
  <2>7. CASE ~SignOnly(first) /\ Len(words) > 1 /\ code' = Running /\ num_return_error' = -1
    <3>1. num_return_error' # 0
      BY <2>7
    <3>2. QED
      BY <1>2, <1>6, <2>3, <2>7, <3>1 DEF ExitRight
  <2>8. QED
    BY <2>4, <2>5, <2>6, <2>7
<1>7. QED
  BY <1>4, <1>5, <1>6

\* The code a shell ends with is the number that exit was given, whatever the
\* width of a long long and however long the text: exec_exit(), exit.c.
THEOREM ExitIsRight == Spec => []ExitRight
<1>1. Init => ExitRight
  BY DEF Init, ExitRight, None
<1>2. ASSUME ExitRight, [Next]_vars
      PROVE  ExitRight'
  <2>1. ASSUME NEW words \in ExitWords, exec_exit(words)
        PROVE  ExitRight'
    BY <2>1, ExitStep
  <2>2. ASSUME NEW words \in ExportWords, exec_export(words)
        PROVE  ExitRight'
    <3>1. command'.name = "export"
      BY <2>2 DEF exec_export
    <3>2. QED
      BY <3>1 DEF ExitRight
  <2>3. CASE StartShell
    <3>1. command'.name = "none"
      BY <2>3 DEF StartShell, None
    <3>2. QED
      BY <3>1 DEF ExitRight
  <2>4. CASE UNCHANGED vars
    BY <1>2, <2>4 DEF ExitRight, vars
  <2>5. QED
    BY <1>2, <2>1, <2>2, <2>3, <2>4 DEF Next
<1>3. QED
  BY <1>1, <1>2, PTL DEF Spec
-----------------------------------------------------------------------------
(* export does what its words say.                                         *)

\* export_set_values() looks for the first character of its kind.
FirstAt(t, c, e) == \/ e = 0 /\ \A i \in 1..Len(t) : t[i] # c
                    \/ e \in 1..Len(t) /\ t[e] = c /\ \A i \in 1..(e - 1) : t[i] # c

LEMMA FirstOfSet ==
  ASSUME NEW t \in Text, NEW c, NEW e,
         e = IF {i \in 1..Len(t) : t[i] = c} # {} THEN Min({i \in 1..Len(t) : t[i] = c}) ELSE 0
  PROVE  FirstAt(t, c, e)
<1> DEFINE I == {i \in 1..Len(t) : t[i] = c}
<1>1. CASE I = {}
  BY <1>1 DEF FirstAt
<1>2. CASE I # {}
  <2>1. e \in I /\ \A j \in I : e <= j
    <3>1. I \in SUBSET Nat /\ e = Min(I)
      BY <1>2
    <3> HIDE DEF I
    <3>2. Min(I) \in I /\ \A j \in I : Min(I) <= j
      BY <1>2, <3>1, Least, Zenon
    <3>3. QED
      BY <3>1, <3>2, Zenon
  <2>2. e \in 1..Len(t) /\ t[e] = c
    BY <2>1
  <2>3. ASSUME NEW i \in 1..(e - 1)
        PROVE  t[i] # c
    <3>1. i \in 1..Len(t) /\ ~(e <= i)
      BY <2>2, TextElement
    <3>2. QED
      BY <2>1, <3>1
  <2>4. QED
    BY <2>2, <2>3 DEF FirstAt
<1>3. QED
  BY <1>1, <1>2

LEMMA FirstEquals ==
  ASSUME NEW t \in Text
  PROVE  FirstAt(t, "=", SelectInSeq(t, LAMBDA c : c = "="))
<1> DEFINE e == SelectInSeq(t, LAMBDA c : c = "=")
           I == {i \in 1..Len(t) : t[i] = "="}
<1>1. e = IF I # {} THEN Min(I) ELSE 0
  BY DEF SelectInSeq
<1> HIDE DEF e
<1>2. FirstAt(t, "=", e)
  BY <1>1, FirstOfSet
<1>3. QED
  BY <1>2 DEF e

LEMMA FirstPlus ==
  ASSUME NEW t \in Text
  PROVE  FirstAt(t, "+", SelectInSeq(t, LAMBDA c : c = "+"))
<1> DEFINE e == SelectInSeq(t, LAMBDA c : c = "+")
           I == {i \in 1..Len(t) : t[i] = "+"}
<1>1. e = IF I # {} THEN Min(I) ELSE 0
  BY DEF SelectInSeq
<1> HIDE DEF e
<1>2. FirstAt(t, "+", e)
  BY <1>1, FirstOfSet
<1>3. QED
  BY <1>2 DEF e

LEMMA NameCharacters ==
  ASSUME NEW c \in Letters \cup Digit
  PROVE  c # "=" /\ c # "+" /\ c # "-" /\ c # " "
<1>1. c \notin Blank \cup Sign \cup {"="}
  BY ArgumentsAssumption, OtherCharacters
<1>2. QED
  BY <1>1 DEF Blank, Sign

\* A beginning is a name if its characters are those of one.
LEMMA BeginsWithName ==
  ASSUME NEW t \in Text, NEW k \in 0..Len(t)
  PROVE  is_valid_name(SubSeq(t, 1, k)) <=>
           k # 0 /\ t[1] \in Letters /\ \A i \in 1..k : t[i] \in Letters \cup Digit
<1>1. Len(t) \in Nat /\ k \in Nat
  BY TextElement
<1> DEFINE p == SubSeq(t, 1, k)
<1>2. p \in Text /\ Len(p) = k /\ \A i \in 1..k : p[i] = t[i]
  <2>1. 1 \in 1..(Len(t) + 1) /\ k \in (1 - 1)..Len(t) /\ k - 1 + 1 = k
    BY <1>1
  <2>2. \A i \in 1..k : 1 + i - 1 = i
    OBVIOUS
  <2>3. QED
    BY <2>1, <2>2, SubText
<1> HIDE DEF p
<1>3. p # <<>> <=> k # 0
  BY <1>2, EmptySeq DEF Text
<1>4. DOMAIN p = 1..k
  BY <1>2 DEF Text
<1>5. k # 0 => 1 \in 1..k
  BY <1>1
<1>6. ToSet(p) \subseteq Letters \cup Digit <=> \A i \in 1..k : t[i] \in Letters \cup Digit
  BY <1>2, <1>4 DEF ToSet
<1>7. Starts(p, Letters) <=> k # 0 /\ t[1] \in Letters
  BY <1>2, <1>3, <1>5 DEF Starts
<1>8. QED
  BY <1>6, <1>7 DEF is_valid_name, p

\* A name of k characters and what follows it in a word.
NameAt(t, k) == /\ k \in 1..Len(t) /\ t[1] \in Letters
                /\ \A i \in 1..k : t[i] \in Letters \cup Digit
                /\ \/ k = Len(t)
                   \/ t[k + 1] = "="
                   \/ k + 1 < Len(t) /\ t[k + 1] = "+" /\ t[k + 2] = "="

LEMMA NameEndsAt ==
  ASSUME NEW t \in Text
  PROVE  \A k : k \in NameEnds(t) <=> NameAt(t, k)
<1>1. ASSUME NEW k \in 1..Len(t)
      PROVE  is_valid_name(SubSeq(t, 1, k)) <=>
               t[1] \in Letters /\ \A i \in 1..k : t[i] \in Letters \cup Digit
  <2>1. k \in 0..Len(t) /\ k # 0
    BY TextElement
  <2>2. QED
    BY <2>1, BeginsWithName
<1>2. QED
  BY <1>1 DEF NameEnds, NameAt

\* Where export_set_values() ends the name, and where the value begins.
SplitAt(t, k, op, a) ==
  \/ k = Len(t) /\ op = "none"
  \/ k + 1 <= Len(t) /\ t[k + 1] = "=" /\ op = "=" /\ a = k + 2
  \/ k + 2 <= Len(t) /\ t[k + 1] = "+" /\ t[k + 2] = "=" /\ op = "+" /\ a = k + 3

LEMMA WordParts ==
  ASSUME NEW t \in Text
  PROVE  LET x == export_set_values(t)
         IN  \E k \in 0..Len(t), a \in 1..(Len(t) + 1) :
               /\ x.name = SubSeq(t, 1, k) /\ (x.op # "none" => x.value = SubSeq(t, a, Len(t)))
               /\ SplitAt(t, k, x.op, a)
               /\ \A n : NameAt(t, n) => n = k
<1> DEFINE x    == export_set_values(t)
           e    == SelectInSeq(t, LAMBDA c : c = "=")
           plus == SelectInSeq(t, LAMBDA c : c = "+")
           end  == IF plus > 1 /\ plus = e - 1 THEN plus ELSE e
<1>1. x = IF e > 1 THEN [name |-> SubSeq(t, 1, end - 1), op |-> t[end],
                         value |-> SubSeq(t, e + 1, Len(t))]
          ELSE [name |-> t, op |-> "none", value |-> <<>>]
  BY DEF export_set_values
<1>2. FirstAt(t, "=", e) /\ FirstAt(t, "+", plus)
  BY FirstEquals, FirstPlus
<1> HIDE DEF x, e, plus
<1>3. Len(t) \in Nat /\ e \in 0..Len(t) /\ plus \in 0..Len(t) /\ SubSeq(t, 1, Len(t)) = t
  BY <1>2, TextElement, SubSeqFull DEF FirstAt, Text
<1>4. ASSUME NEW n, NameAt(t, n)
      PROVE  /\ n \in 1..Len(t) /\ \A i \in 1..n : t[i] # "=" /\ t[i] # "+"
             /\ n = Len(t) \/ e = n + 1 \/ (plus = n + 1 /\ e = n + 2)
  <2>1. n \in 1..Len(t) /\ \A i \in 1..n : t[i] # "=" /\ t[i] # "+"
    BY <1>4, NameCharacters DEF NameAt
  <2>2. CASE n = Len(t)
    BY <2>1, <2>2
  <2>3. CASE n # Len(t) /\ t[n + 1] = "="
    <3>0. n + 1 \in 1..Len(t)
      <4>1. Len(t) \in Nat /\ n \in 1..Len(t) /\ n # Len(t)
        BY <2>1, <2>3, TextElement
      <4>2. QED
        BY <4>1
    <3>1. e # 0
      BY <1>2, <2>3, <3>0 DEF FirstAt
    <3>2. e \in 1..Len(t) /\ t[e] = "=" /\ \A i \in 1..(e - 1) : t[i] # "="
      BY <1>2, <3>1 DEF FirstAt
    <3>3. ~(e <= n)
      BY <1>3, <2>1, <3>2
    <3>4. ~(n + 1 < e)
      <4>1. n + 1 < e => n + 1 \in 1..(e - 1)
        BY <1>3, <3>0
      <4>2. QED
        BY <2>3, <3>2, <4>1
    <3>5. e = n + 1
      BY <1>3, <2>1, <3>3, <3>4
    <3>6. QED
      BY <2>1, <3>5
  <2>4. CASE n + 1 < Len(t) /\ t[n + 1] = "+" /\ t[n + 2] = "="
    <3>1. n + 1 \in 1..Len(t) /\ n + 2 \in 1..Len(t)
      BY <1>3, <2>1, <2>4
    <3>2. e # 0 /\ plus # 0
      BY <1>2, <2>4, <3>1 DEF FirstAt
    <3>3. /\ e \in 1..Len(t) /\ t[e] = "=" /\ \A i \in 1..(e - 1) : t[i] # "="
          /\ plus \in 1..Len(t) /\ t[plus] = "+" /\ \A i \in 1..(plus - 1) : t[i] # "+"
      BY <1>2, <3>2 DEF FirstAt
    <3>4. ~(e <= n) /\ ~(plus <= n) /\ e # n + 1
      BY <1>3, <2>1, <2>4, <3>3
    <3>5. ~(n + 1 < plus)
      <4>1. n + 1 < plus => n + 1 \in 1..(plus - 1)
        BY <1>3, <2>1
      <4>2. QED
        BY <2>4, <3>3, <4>1
    <3>6. ~(n + 2 < e)
      <4>1. n + 2 < e => n + 2 \in 1..(e - 1)
        BY <1>3, <2>1
      <4>2. QED
        BY <2>4, <3>3, <4>1
    <3>7. e = n + 2 /\ plus = n + 1
      BY <1>3, <2>1, <3>4, <3>5, <3>6
    <3>8. QED
      BY <2>1, <3>7
  <2>5. QED
    BY <1>4, <2>2, <2>3, <2>4 DEF NameAt
<1>5. CASE e <= 1
  <2>1. x = [name |-> t, op |-> "none", value |-> <<>>]
    BY <1>1, <1>3, <1>5
  <2>2. ASSUME NEW n, NameAt(t, n)
        PROVE  n = Len(t)
    BY <1>3, <1>4, <1>5, <2>2
  <2>3. Len(t) \in 0..Len(t) /\ 1 \in 1..(Len(t) + 1)
    BY <1>3
  <2>4. x.name = SubSeq(t, 1, Len(t)) /\ x.op = "none"
    BY <1>3, <2>1
  <2>5. SplitAt(t, Len(t), x.op, 1)
    BY <2>4 DEF SplitAt
  <2>6. QED
    BY <2>2, <2>3, <2>4, <2>5 DEF x
<1>6. CASE e > 1
  <2>1. /\ e \in 1..Len(t) /\ t[e] = "=" /\ \A i \in 1..(e - 1) : t[i] # "="
        /\ e + 1 \in 1..(Len(t) + 1)
    BY <1>2, <1>3, <1>6 DEF FirstAt
  <2>2. /\ x.name = SubSeq(t, 1, end - 1) /\ x.op = t[end]
        /\ x.value = SubSeq(t, e + 1, Len(t))
    BY <1>1, <1>6
  <2>3. CASE plus > 1 /\ plus = e - 1
    <3>1. t[plus] = "+" /\ end = plus
      BY <1>2, <2>3 DEF FirstAt
    <3>2. plus - 1 \in 0..Len(t) /\ (plus - 1) + 1 = plus /\ (plus - 1) + 2 = e /\ (plus - 1) + 3 = e + 1
      BY <1>3, <2>3
    <3>3. SplitAt(t, plus - 1, x.op, e + 1)
      BY <2>1, <2>2, <3>1, <3>2 DEF SplitAt
    <3>4. ASSUME NEW n, NameAt(t, n)
          PROVE  n = plus - 1
      <4>1. n \in 1..Len(t) /\ \A i \in 1..n : t[i] # "=" /\ t[i] # "+"
        BY <1>4, <3>4
      <4>2. n = Len(t) \/ e = n + 1 \/ (plus = n + 1 /\ e = n + 2)
        BY <1>4, <3>4
      <4>3. n # Len(t)
        BY <2>1, <4>1
      <4>4. e # n + 1
        <5>1. e = n + 1 => plus \in 1..n
          BY <1>3, <2>3, <4>1
        <5>2. QED
          BY <3>1, <4>1, <5>1
      <4>5. QED
        BY <4>1, <4>2, <4>3, <4>4
    <3>5. QED
      BY <2>1, <2>2, <3>1, <3>2, <3>3, <3>4 DEF x
  <2>4. CASE ~(plus > 1 /\ plus = e - 1)
    <3>1. end = e /\ e - 1 \in 0..Len(t) /\ (e - 1) + 1 = e /\ (e - 1) + 2 = e + 1
      BY <1>3, <2>1, <2>4
    <3>2. SplitAt(t, e - 1, x.op, e + 1)
      BY <2>1, <2>2, <3>1 DEF SplitAt
    <3>3. ASSUME NEW n, NameAt(t, n)
          PROVE  n = e - 1
      <4>1. n \in 1..Len(t) /\ \A i \in 1..n : t[i] # "=" /\ t[i] # "+"
        BY <1>4, <3>3
      <4>2. n = Len(t) \/ e = n + 1 \/ (plus = n + 1 /\ e = n + 2)
        BY <1>4, <3>3
      <4>3. n # Len(t)
        BY <2>1, <4>1
      <4>4. ~(plus = n + 1 /\ e = n + 2)
        BY <2>4, <4>1
      <4>5. QED
        BY <4>1, <4>2, <4>3, <4>4
    <3>4. QED
      BY <2>1, <2>2, <3>1, <3>2, <3>3 DEF x
  <2>5. QED
    BY <2>3, <2>4
<1>7. QED
  BY <1>3, <1>5, <1>6

LEMMA WordExported ==
  ASSUME NEW t \in Text
  PROVE  LET x == export_set_values(t)
         IN  /\ ~is_valid_name(x.name) => NameEnds(t) = {}
             /\ is_valid_name(x.name) =>
                  /\ NameEnds(t) # {}
                  /\ x.name \in Text /\ (x.op # "none" => x.value \in Text)
                  /\ x.op \in {"none", "=", "+"}
                  /\ \A e : Exported(e, t) = Put(e, x.name, NewValue(e, x))
<1> DEFINE x == export_set_values(t)
<1>1. PICK k \in 0..Len(t), a \in 1..(Len(t) + 1) :
        /\ x.name = SubSeq(t, 1, k) /\ (x.op # "none" => x.value = SubSeq(t, a, Len(t)))
        /\ SplitAt(t, k, x.op, a)
        /\ \A n : NameAt(t, n) => n = k
  BY WordParts
<1> HIDE DEF x
<1>2. Len(t) \in Nat /\ k \in Nat
  BY TextElement
<1>3. is_valid_name(x.name) <=> NameAt(t, k)
  <2>1. is_valid_name(x.name) <=>
          k # 0 /\ t[1] \in Letters /\ \A i \in 1..k : t[i] \in Letters \cup Digit
    BY <1>1, BeginsWithName
  <2>2. k \in 1..Len(t) <=> k # 0
    BY <1>2
  <2>3. \/ k = Len(t)
        \/ t[k + 1] = "="
        \/ k + 1 < Len(t) /\ t[k + 1] = "+" /\ t[k + 2] = "="
    <3>1. k + 2 <= Len(t) => k + 1 < Len(t)
      BY <1>2
    <3>2. QED
      BY <1>1, <3>1 DEF SplitAt
  <2>4. QED
    BY <2>1, <2>2, <2>3 DEF NameAt
<1>4. ASSUME ~is_valid_name(x.name)
      PROVE  NameEnds(t) = {}
  <2>1. \A n : n \notin NameEnds(t)
    BY <1>1, <1>3, <1>4, NameEndsAt
  <2>2. QED
    BY <2>1
<1>5. ASSUME is_valid_name(x.name)
      PROVE  /\ NameEnds(t) # {}
             /\ x.name \in Text /\ (x.op # "none" => x.value \in Text)
             /\ x.op \in {"none", "=", "+"}
             /\ \A e : Exported(e, t) = Put(e, x.name, NewValue(e, x))
  <2>1. k \in NameEnds(t) /\ \A n \in NameEnds(t) : n = k
    BY <1>1, <1>3, <1>5, NameEndsAt
  <2>2. NameEnds(t) # {} /\ (CHOOSE n \in NameEnds(t) : TRUE) = k
    BY <2>1
  <2>3. x.name \in Text
    <3>1. 1 \in 1..(Len(t) + 1) /\ k \in (1 - 1)..Len(t)
      BY <1>2
    <3>2. QED
      BY <1>1, <3>1, SubText
  <2>4. x.op # "none" => x.value \in Text
    <3>1. Len(t) \in (a - 1)..Len(t)
      BY <1>2
    <3>2. QED
      BY <1>1, <3>1, SubText
  <2>5. x.op \in {"none", "=", "+"}
    BY <1>1 DEF SplitAt
  <2>6. ASSUME NEW e
        PROVE  Exported(e, t) = Put(e, x.name, NewValue(e, x))
    <3> DEFINE value == IF k = Len(t) THEN NoValue
                        ELSE IF t[k + 1] = "=" THEN SubSeq(t, k + 2, Len(t))
                        ELSE (IF x.name \in DOMAIN e THEN e[x.name] ELSE <<>>)
                             \o SubSeq(t, k + 3, Len(t))
    <3>1. Exported(e, t) = Put(e, x.name, value)
      BY <1>1, <2>2 DEF Exported
    <3>2. value = NewValue(e, x)
      <4>1. CASE k = Len(t) /\ x.op = "none"
        BY <4>1 DEF NewValue
      <4>2. CASE k + 1 <= Len(t) /\ t[k + 1] = "=" /\ x.op = "=" /\ a = k + 2
        <5>1. k # Len(t)
          BY <1>2, <4>2
        <5>2. value = x.value
          BY <1>1, <4>2, <5>1
        <5>3. NewValue(e, x) = x.value
          BY <4>2 DEF NewValue
        <5>4. QED
          BY <5>2, <5>3
      <4>3. CASE k + 2 <= Len(t) /\ t[k + 1] = "+" /\ t[k + 2] = "=" /\ x.op = "+" /\ a = k + 3
        <5>1. k # Len(t) /\ t[k + 1] # "="
          BY <1>2, <4>3
        <5>2. x.value = SubSeq(t, k + 3, Len(t)) /\ x.value \in Text
          BY <1>1, <2>4, <4>3
        <5>3. value = (IF x.name \in DOMAIN e THEN e[x.name] ELSE <<>>) \o x.value
          BY <5>1, <5>2
        <5>4. <<>> \o x.value = x.value
          BY <5>2, ConcatEmptySeq DEF Text
        <5>5. NewValue(e, x) = IF x.name \in DOMAIN e THEN e[x.name] \o x.value ELSE x.value
          BY <4>3 DEF NewValue
        <5>6. QED
          BY <5>3, <5>4, <5>5
      <4>4. QED
        BY <1>1, <4>1, <4>2, <4>3 DEF SplitAt
    <3>3. QED
      BY <3>1, <3>2
  <2>7. QED
    BY <2>2, <2>3, <2>4, <2>5, <2>6
<1>6. QED
  BY <1>4, <1>5 DEF x

\* One round of the loop is one word.
LEMMA ExportWordIs ==
  ASSUME NEW w \in Text, NEW e, NEW n, NEW d \in BOOLEAN
  PROVE  LET x == export_set_values(w)
         IN  ExportWord([env |-> e, rtrn |-> n, defined |-> d], w) =
               [env     |-> Exported(e, w),
                rtrn    |-> IF NameEnds(w) = {} THEN 1 ELSE n,
                defined |-> IF NameEnds(w) = {} THEN d ELSE d /\ ~Undefined(e, x)]
<1> DEFINE x == export_set_values(w)
           r == [env |-> e, rtrn |-> n, defined |-> d]
<1>1. ExportWord(r, w) = IF ~is_valid_name(x.name) THEN [r EXCEPT !.rtrn = 1]
                         ELSE [r EXCEPT !.env = Put(@, x.name, NewValue(@, x)),
                                        !.defined = @ /\ ~Undefined(r.env, x)]
  BY DEF ExportWord
<1>2. /\ ~is_valid_name(x.name) => NameEnds(w) = {}
      /\ is_valid_name(x.name) =>
           NameEnds(w) # {} /\ Exported(e, w) = Put(e, x.name, NewValue(e, x))
  BY WordExported
<1> HIDE DEF x
<1>3. CASE ~is_valid_name(x.name)
  <2>1. ExportWord(r, w) = [env |-> e, rtrn |-> 1, defined |-> d]
    BY <1>1, <1>3
  <2>2. Exported(e, w) = e /\ NameEnds(w) = {}
    BY <1>2, <1>3 DEF Exported
  <2>3. QED
    BY <2>1, <2>2
<1>4. CASE is_valid_name(x.name)
  <2>1. ExportWord(r, w) = [env |-> Put(e, x.name, NewValue(e, x)), rtrn |-> n,
                            defined |-> d /\ ~Undefined(e, x)]
    BY <1>1, <1>4
  <2>2. QED
    BY <1>2, <1>4, <2>1 DEF x
<1>5. QED
  BY <1>3, <1>4

Round(f, words) ==
  [k \in 0..Len(words) |-> IF k = 0 THEN [env |-> env, rtrn |-> 0, defined |-> TRUE]
                           ELSE ExportWord(f[k - 1], words[k])]

LEMMA ExportAllExists ==
  ASSUME NEW words \in Seq(Text)
  PROVE  \E f : f = Round(f, words) /\ ExportAll(words) = f[Len(words)]
<1> DEFINE Rule(f, n) == [k \in 0..n |->
                            IF k = 0 THEN [env |-> env, rtrn |-> 0, defined |-> TRUE]
                            ELSE ExportWord(f[k - 1], words[k])]
           S == {n \in Nat : \E f : f = Rule(f, n)}
           round == CHOOSE f : f = Rule(f, Len(words))
<1>1. 0 \in S
  <2> DEFINE r == [env |-> env, rtrn |-> 0, defined |-> TRUE]
  <2>1. [k \in 0..0 |-> r] = Rule([k \in 0..0 |-> r], 0)
    OBVIOUS
  <2> HIDE DEF r, Rule
  <2>2. \E f : f = Rule(f, 0)
    BY <2>1
  <2>3. QED
    BY <2>2
<1>2. ASSUME NEW n \in S
      PROVE  n + 1 \in S
  <2>1. PICK f : f = Rule(f, n)
    OBVIOUS
  <2> DEFINE g == [k \in 0..(n + 1) |-> IF k = n + 1 THEN Rule(f, n + 1)[n + 1] ELSE f[k]]
  <2>2. ASSUME NEW k \in 0..(n + 1)
        PROVE  g[k] = Rule(g, n + 1)[k]
    <3>1. CASE k = n + 1
      BY <3>1
    <3>2. CASE k # n + 1
      <4>1. k \in 0..n /\ (k # 0 => k - 1 \in 0..n /\ k - 1 # n + 1)
        BY <3>2
      <4>2. f[k] = Rule(f, n)[k]
        BY <2>1
      <4>3. QED
        BY <4>1, <4>2, <3>2
    <3>3. QED
      BY <3>1, <3>2
  <2>3. g = Rule(g, n + 1)
    BY <2>2
  <2> HIDE DEF g, Rule
  <2>4. \E h : h = Rule(h, n + 1)
    BY <2>3
  <2>5. QED
    BY <2>4
<1>3. S = Nat
  BY <1>1, <1>2, Induction
<1> HIDE DEF Rule
<1>4. \E f : f = Rule(f, Len(words))
  BY <1>3, LenProperties
<1>5. round = Rule(round, Len(words))
  BY <1>4
<1>6. ExportAll(words) = round[Len(words)]
  BY DEF ExportAll, Rule
<1> HIDE DEF round
<1>7. round = Round(round, words)
  BY <1>5 DEF Round, Rule
<1>8. QED
  BY <1>6, <1>7

After(f, e, words) ==
  [k \in 0..Len(words) |-> IF k = 0 THEN e ELSE Exported(f[k - 1], words[k])]

LEMMA AllExportedExists ==
  ASSUME NEW words \in Seq(Text), NEW e
  PROVE  \E f : f = After(f, e, words) /\ AllExported(e, words) = f[Len(words)]
<1> DEFINE Rule(f, n) == [k \in 0..n |-> IF k = 0 THEN e ELSE Exported(f[k - 1], words[k])]
           S == {n \in Nat : \E f : f = Rule(f, n)}
           after == CHOOSE f : f = Rule(f, Len(words))
<1>1. 0 \in S
  <2>1. [k \in 0..0 |-> e] = Rule([k \in 0..0 |-> e], 0)
    OBVIOUS
  <2> HIDE DEF Rule
  <2>2. \E f : f = Rule(f, 0)
    BY <2>1
  <2>3. QED
    BY <2>2
<1>2. ASSUME NEW n \in S
      PROVE  n + 1 \in S
  <2>1. PICK f : f = Rule(f, n)
    OBVIOUS
  <2> DEFINE g == [k \in 0..(n + 1) |-> IF k = n + 1 THEN Rule(f, n + 1)[n + 1] ELSE f[k]]
  <2>2. ASSUME NEW k \in 0..(n + 1)
        PROVE  g[k] = Rule(g, n + 1)[k]
    <3>1. CASE k = n + 1
      BY <3>1
    <3>2. CASE k # n + 1
      <4>1. k \in 0..n /\ (k # 0 => k - 1 \in 0..n /\ k - 1 # n + 1)
        BY <3>2
      <4>2. f[k] = Rule(f, n)[k]
        BY <2>1
      <4>3. QED
        BY <4>1, <4>2, <3>2
    <3>3. QED
      BY <3>1, <3>2
  <2>3. g = Rule(g, n + 1)
    BY <2>2
  <2> HIDE DEF g, Rule
  <2>4. \E h : h = Rule(h, n + 1)
    BY <2>3
  <2>5. QED
    BY <2>4
<1>3. S = Nat
  BY <1>1, <1>2, Induction
<1> HIDE DEF Rule
<1>4. \E f : f = Rule(f, Len(words))
  BY <1>3, LenProperties
<1>5. after = Rule(after, Len(words))
  BY <1>4
<1>6. AllExported(e, words) = after[Len(words)]
  BY DEF AllExported, Rule
<1> HIDE DEF after
<1>7. after = After(after, e, words)
  BY <1>5 DEF After, Rule
<1>8. QED
  BY <1>6, <1>7

\* What an environment holds: texts, or no values.
Holds(e) == \A name \in DOMAIN e : e[name] \in Text \cup {NoValue}

LEMMA NoValueNoText == NoValue \notin Text
<1>1. NoValue[1] = "NULL" /\ Len(NoValue) = 1 /\ 1 \in 1..1
  BY DEF NoValue
<1>2. NoValue \in Text => NoValue[1] \in Characters
  BY <1>1, TextElement
<1>3. QED
  BY <1>1, <1>2, ArgumentsAssumption

\* A word that is defined leaves texts in the environment, and every name.
LEMMA ExportedHolds ==
  ASSUME NEW e, Holds(e), NEW w \in Text,
         NameEnds(w) # {} => ~Undefined(e, export_set_values(w))
  PROVE  Holds(Exported(e, w)) /\ DOMAIN e \subseteq DOMAIN Exported(e, w)
<1> DEFINE x == export_set_values(w)
<1>1. CASE NameEnds(w) = {}
  BY <1>1 DEF Exported
<1>2. CASE NameEnds(w) # {}
  <2>1. /\ x.name \in Text /\ (x.op # "none" => x.value \in Text)
        /\ x.op \in {"none", "=", "+"}
        /\ Exported(e, w) = Put(e, x.name, NewValue(e, x))
    BY <1>2, WordExported
  <2>2. ~Undefined(e, x)
    BY <1>2
  <2> HIDE DEF x
  <2>3. NewValue(e, x) \in Text \cup {NoValue}
    <3>1. CASE x.op = "none"
      BY <3>1 DEF NewValue
    <3>2. CASE x.op = "="
      BY <2>1, <3>2 DEF NewValue
    <3>3. CASE x.op = "+" /\ x.name \in DOMAIN e
      <4>1. e[x.name] \in Text
        BY <2>2, <3>3 DEF Undefined, Holds
      <4>2. e[x.name] \o x.value \in Text
        BY <2>1, <3>3, <4>1 DEF Text
      <4>3. QED
        BY <3>3, <4>2 DEF NewValue
    <3>4. CASE x.op = "+" /\ x.name \notin DOMAIN e
      BY <2>1, <3>4 DEF NewValue
    <3>5. QED
      BY <2>1, <3>1, <3>2, <3>3, <3>4
  <2> DEFINE v == NewValue(e, x)
  <2> HIDE DEF v
  <2>4. Exported(e, w) = [n \in {x.name} \cup DOMAIN e |-> IF n = x.name THEN v ELSE e[n]]
    BY <2>1 DEF v, Put
  <2>5. v \in Text \cup {NoValue}
    BY <2>3 DEF v
  <2>6. QED
    BY <2>4, <2>5 DEF Holds
<1>3. QED
  BY <1>1, <1>2

\* The loop has the environment its words say, and the status.
LEMMA ExportAllIs ==
  ASSUME NEW words \in Seq(Text)
  PROVE  LET r == ExportAll(words)
         IN  /\ r.env = AllExported(env, words)
             /\ r.rtrn = IF \E word \in ToSet(words) : NameEnds(word) = {} THEN 1 ELSE 0
             /\ r.defined /\ Holds(env) => Holds(r.env) /\ DOMAIN env \subseteq DOMAIN r.env
<1>1. PICK f : f = Round(f, words) /\ ExportAll(words) = f[Len(words)]
  BY ExportAllExists
<1>2. PICK g : g = After(g, env, words) /\ AllExported(env, words) = g[Len(words)]
  BY AllExportedExists
<1>3. Len(words) \in Nat /\ DOMAIN words = 1..Len(words) /\ \A k \in 1..Len(words) : words[k] \in Text
  OBVIOUS
<1> DEFINE wrong(k) == IF \E j \in 1..k : NameEnds(words[j]) = {} THEN 1 ELSE 0
           P(k) == \E d \in BOOLEAN :
                     /\ f[k] = [env |-> g[k], rtrn |-> wrong(k), defined |-> d]
                     /\ d /\ Holds(env) => Holds(g[k]) /\ DOMAIN env \subseteq DOMAIN g[k]
           S == {k \in Nat : k <= Len(words) => P(k)}
<1>4. /\ f[0] = [env |-> env, rtrn |-> 0, defined |-> TRUE] /\ g[0] = env
      /\ \A k \in 1..Len(words) : /\ f[k] = ExportWord(f[k - 1], words[k])
                                  /\ g[k] = Exported(g[k - 1], words[k])
  <2>1. \A k \in 0..Len(words) :
          /\ f[k] = IF k = 0 THEN [env |-> env, rtrn |-> 0, defined |-> TRUE]
                    ELSE ExportWord(f[k - 1], words[k])
          /\ g[k] = IF k = 0 THEN env ELSE Exported(g[k - 1], words[k])
    BY <1>1, <1>2 DEF Round, After
  <2>2. 0 \in 0..Len(words) /\ \A k \in 1..Len(words) : k \in 0..Len(words) /\ k # 0
    BY <1>3
  <2>3. QED
    BY <2>1, <2>2
<1>5. 0 \in S
  <2>1. wrong(0) = 0
    OBVIOUS
  <2>2. QED
    BY <1>4, <2>1
<1> HIDE DEF P
<1>6. ASSUME NEW k \in S
      PROVE  k + 1 \in S
  <2> SUFFICES ASSUME k + 1 <= Len(words)
               PROVE  P(k + 1)
    OBVIOUS
  <2> DEFINE w == words[k + 1]
             x == export_set_values(w)
  <2>1. k \in Nat /\ k <= Len(words) /\ k + 1 \in 1..Len(words) /\ (k + 1) - 1 = k /\ w \in Text
    BY <1>3
  <2>2. P(k)
    BY <2>1
  <2>3. PICK d \in BOOLEAN :
          /\ f[k] = [env |-> g[k], rtrn |-> wrong(k), defined |-> d]
          /\ d /\ Holds(env) => Holds(g[k]) /\ DOMAIN env \subseteq DOMAIN g[k]
    BY <2>2 DEF P
  <2> DEFINE c == IF NameEnds(w) = {} THEN d ELSE d /\ ~Undefined(g[k], x)
  <2>4. g[k + 1] = Exported(g[k], w) /\ f[k + 1] = ExportWord(f[k], w)
    BY <1>4, <2>1
  <2>5. wrong(k + 1) = IF NameEnds(w) = {} THEN 1 ELSE wrong(k)
    <3>1. \A j \in 1..(k + 1) : j \in 1..k \/ j = k + 1
      BY <2>1
    <3>2. \A j \in 1..k : j \in 1..(k + 1)
      BY <2>1
    <3>3. k + 1 \in 1..(k + 1)
      BY <2>1
    <3>4. (\E j \in 1..(k + 1) : NameEnds(words[j]) = {}) <=>
             NameEnds(w) = {} \/ \E j \in 1..k : NameEnds(words[j]) = {}
      BY <3>1, <3>2, <3>3
    <3>5. QED
      BY <3>4
  <2> DEFINE v == wrong(k)
  <2> HIDE DEF v, w
  <2>6. ExportWord([env |-> g[k], rtrn |-> v, defined |-> d], w) =
          [env |-> Exported(g[k], w), rtrn |-> IF NameEnds(w) = {} THEN 1 ELSE v, defined |-> c]
    BY <2>1, ExportWordIs
  <2>7. f[k + 1] = [env |-> g[k + 1], rtrn |-> wrong(k + 1), defined |-> c]
    BY <2>3, <2>4, <2>5, <2>6 DEF v
  <2>8. c \in BOOLEAN
    BY DEF Undefined
  <2>9. c /\ Holds(env) => Holds(g[k + 1]) /\ DOMAIN env \subseteq DOMAIN g[k + 1]
    <3> SUFFICES ASSUME c, Holds(env)
                 PROVE  Holds(g[k + 1]) /\ DOMAIN env \subseteq DOMAIN g[k + 1]
      OBVIOUS
    <3>1. d /\ (NameEnds(w) # {} => ~Undefined(g[k], x))
      OBVIOUS
    <3>2. Holds(g[k]) /\ DOMAIN env \subseteq DOMAIN g[k]
      BY <2>3, <3>1
    <3>3. Holds(Exported(g[k], w)) /\ DOMAIN g[k] \subseteq DOMAIN Exported(g[k], w)
      BY <2>1, <3>1, <3>2, ExportedHolds
    <3>4. QED
      BY <2>4, <3>2, <3>3
  <2> HIDE DEF c
  <2>10. QED
    BY <2>7, <2>8, <2>9 DEF P
<1>7. S = Nat
  BY <1>5, <1>6, Induction
<1>8. P(Len(words))
  <2>1. Len(words) \in S /\ Len(words) <= Len(words)
    BY <1>3, <1>7
  <2>2. QED
    BY <2>1
<1>9. wrong(Len(words)) = IF \E word \in ToSet(words) : NameEnds(word) = {} THEN 1 ELSE 0
  BY <1>3 DEF ToSet
<1> HIDE DEF wrong
<1>10. QED
  BY <1>1, <1>2, <1>8, <1>9 DEF P

LEMMA ExportStep ==
  ASSUME NEW words \in ExportWords, exec_export(words)
  PROVE  ExportRight'
<1>1. words \in Seq(Text)
  BY ArgumentsAssumption
<1> DEFINE r == ExportAll(words)
<1>2. /\ r.env = AllExported(env, words)
      /\ r.rtrn = IF \E word \in ToSet(words) : NameEnds(word) = {} THEN 1 ELSE 0
  BY <1>1, ExportAllIs
<1>3. /\ env' = r.env
      /\ num_return_error' = IF r.rtrn = 1 THEN 1 ELSE num_return_error
      /\ command' = [name |-> "export", words |-> words, env |-> env,
                     status |-> num_return_error]
  BY DEF exec_export
<1> HIDE DEF r
<1>4. /\ command'.name = "export" /\ command'.words = words
      /\ command'.env = env /\ command'.status = num_return_error
  BY <1>3
<1>5. env' = AllExported(command'.env, command'.words)
  BY <1>2, <1>3, <1>4
<1>6. num_return_error' = IF \E word \in ToSet(command'.words) : NameEnds(word) = {} THEN 1
                          ELSE command'.status
  BY <1>2, <1>3, <1>4
<1>7. QED
  BY <1>5, <1>6 DEF ExportRight

\* Each word of an export is done, whatever the others are, and the status tells
\* of any that is no name: exec_export(), exec_builtin.c.
THEOREM ExportIsRight == Spec => []ExportRight
<1>1. Init => ExportRight
  BY DEF Init, ExportRight, None
<1>2. ASSUME ExportRight, [Next]_vars
      PROVE  ExportRight'
  <2>1. ASSUME NEW words \in ExportWords, exec_export(words)
        PROVE  ExportRight'
    BY <2>1, ExportStep
  <2>2. ASSUME NEW words \in ExitWords, exec_exit(words)
        PROVE  ExportRight'
    <3>1. command'.name = "exit"
      BY <2>2 DEF exec_exit
    <3>2. QED
      BY <3>1 DEF ExportRight
  <2>3. CASE StartShell
    <3>1. command'.name = "none"
      BY <2>3 DEF StartShell, None
    <3>2. QED
      BY <3>1 DEF ExportRight
  <2>4. CASE UNCHANGED vars
    BY <1>2, <2>4 DEF ExportRight, vars
  <2>5. QED
    BY <1>2, <2>1, <2>2, <2>3, <2>4 DEF Next
<1>3. QED
  BY <1>1, <1>2, PTL DEF Spec
-----------------------------------------------------------------------------
(* The level of a shell.                                                   *)

\* A number that is written is read again.
LEMMA WrittenReads ==
  ASSUME NEW n \in 0..LLONG_MAX
  PROVE  ft_atoi_long_long(ToText[n]) = n
<1> DEFINE t == ToText[n]
<1>1. /\ t \in Text /\ Value(t) = n /\ Len(t) \in Nat \ {0}
      /\ \A i \in 1..Len(t) : t[i] \in Digit
  <2>1. n \in 0..(LLONG_MAX + 1)
    BY Limits
  <2>2. QED
    BY <2>1, ToTextIs
<1> HIDE DEF t
<1>2. DOMAIN t = 1..Len(t)
  BY <1>1 DEF Text
<1>3. \A i \in 1..Len(t) : t[i] \notin Blank /\ t[i] \notin Sign /\ t[i] # "-"
  BY <1>1, OtherCharacters DEF Sign
<1>4. Number(t) = n
  <2>1. "-" \notin ToSet(t)
    BY <1>2, <1>3 DEF ToSet
  <2>2. QED
    BY <1>1, <2>1, NumberIs
<1>5. is_numeric(t)
  <2>1. PICK b, d, e \in 1..(Len(t) + 1) : Places(t, b, d, e)
    BY <1>1, Reading
  <2>2. b \in Nat /\ d \in Nat /\ e \in Nat /\ Len(t) \in Nat /\ 1 \in 1..Len(t)
    BY <1>1
  <2>3. b = 1
    <3> SUFFICES ASSUME b # 1
                 PROVE  FALSE
      OBVIOUS
    <3>1. 1 \in 1..(b - 1)
      BY <2>2
    <3>2. t[1] \in Blank
      BY <2>1, <3>1 DEF Places
    <3>3. QED
      BY <1>3, <2>2, <3>2
  <2>4. t[1] \notin Sign /\ b <= Len(t)
    BY <1>3, <2>2, <2>3
  <2>5. d = 1
    BY <2>1, <2>3, <2>4 DEF Places
  <2>6. ~(e <= Len(t))
    <3> SUFFICES ASSUME e <= Len(t)
                 PROVE  FALSE
      OBVIOUS
    <3>1. e \in 1..Len(t)
      BY <2>2
    <3>2. t[e] \notin Digit
      BY <2>1 DEF Places
    <3>3. QED
      BY <1>1, <3>1, <3>2
  <2>7. \A i \in e..Len(t) : t[i] \in Blank
    BY <2>2, <2>6
  <2>8. ~(d = b + 1 /\ b = Len(t))
    BY <2>3, <2>5
  <2>9. QED
    BY <2>1, <2>4, <2>7, <2>8 DEF Places
<1>6. Number(t) \in -(LLONG_MAX + 1)..LLONG_MAX
  BY <1>4, Limits
<1>7. ft_atoi_long_long(t) = n
  BY <1>1, <1>4, <1>5, <1>6, Reads
<1>8. QED
  BY <1>7 DEF t

\* Blanks are read as 0.
LEMMA BlanksRead ==
  ASSUME NEW t \in Text, \A i \in 1..Len(t) : t[i] \in Blank
  PROVE  ft_atoi_long_long(t) = 0
<1>1. Len(t) \in Nat
  BY TextElement
<1>2. PICK b, d, e \in 1..(Len(t) + 1) : Places(t, b, d, e)
  BY Reading
<1>3. b = Len(t) + 1
  <2> SUFFICES ASSUME b # Len(t) + 1
               PROVE  FALSE
    OBVIOUS
  <2>1. b \in 1..Len(t) /\ b <= Len(t)
    BY <1>1
  <2>2. t[b] \notin Blank
    BY <1>2, <2>1 DEF Places
  <2>3. QED
    BY <2>1, <2>2
<1>4. ~(b <= Len(t))
  BY <1>1, <1>3
<1>5. d = b /\ d <= e
  BY <1>2, <1>4 DEF Places
<1>6. e = Len(t) + 1 /\ d = Len(t) + 1
  BY <1>1, <1>3, <1>5
<1>7. /\ Leading(Unsigned(Behind(t, Blank)), Digit) = SubSeq(t, d, e - 1)
      /\ ~Starts(Behind(t, Blank), {"-"})
  BY <1>2, <1>4 DEF Places
<1>8. SubSeq(t, d, e - 1) = <<>>
  <2>1. d \in Int /\ e - 1 \in Int /\ e - 1 < d
    BY <1>1, <1>6
  <2>2. QED
    BY <2>1, SubSeqEmpty
<1>9. ReadDigits(<<>>) = 0
  <2>1. <<>> \in Text /\ Len(<<>>) = 0
    BY DEF Text
  <2>2. Value(<<>>) = 0
    BY <2>1, NumeralStep DEF Value
  <2>3. 0 <= LLONG_MAX + 1 /\ 0 \in -(LLONG_MAX + 1)..LLONG_MAX
    BY Limits
  <2>4. \A i \in 1..Len(<<>>) : <<>>[i] \in Digit
    BY <2>1
  <2>5. ReadDigits(<<>>) = Wrapped(0)
    BY <2>1, <2>2, <2>3, <2>4, ReadDigitsIs
  <2>6. QED
    BY <2>3, <2>5, WrappedIs
<1>10. ft_atoi_long_long(t) = Wrapped(0)
  BY <1>7, <1>8, <1>9 DEF ft_atoi_long_long
<1>11. QED
  BY <1>10, WrappedIs, Limits

\* A level as it is shown.
LevelText(l) == IF l = Cap THEN NoValue ELSE ToText[l]

Level(t) ==
  LET long  == ft_atoi_long_long(t)
      value == IF t = ToText[LLONG_MAX] THEN Width[IntBits] - 1
               ELSE IF long = LLONG_MAX THEN 0 ELSE long % Width[IntBits]
      next  == (value + 1) % Width[IntBits]
  IN  IF next > INT_MAX THEN 0 ELSE next

LEMMA CalculatorIs ==
  ASSUME NEW t \in Text
  PROVE  /\ Level(t) \in 0..INT_MAX
         /\ bash_lvl_calculator(t) = LevelText(IF Level(t) > Cap THEN 1 ELSE Level(t))
<1> DEFINE W     == Width[IntBits]
           long  == ft_atoi_long_long(t)
           value == IF t = ToText[LLONG_MAX] THEN W - 1
                    ELSE IF long = LLONG_MAX THEN 0 ELSE long % W
           next  == (value + 1) % W
<1>1. W \in Nat \ {0} /\ W = 2 * (INT_MAX + 1) /\ INT_MAX \in Nat /\ Cap \in 2..INT_MAX
  BY Limits
<1>2. long \in Int
  BY ReadsSome, Limits
<1>3. Level(t) = IF next > INT_MAX THEN 0 ELSE next
  BY DEF Level
<1> HIDE DEF W, long
<1>4. value \in Int
  BY <1>1, <1>2
<1> HIDE DEF value
<1>5. next \in 0..(W - 1)
  BY <1>1, <1>4
<1> HIDE DEF next
<1>6. Level(t) \in 0..INT_MAX
  BY <1>1, <1>3, <1>5
<1>7. bash_lvl_calculator(t) = IF Level(t) = Cap THEN NoValue
                               ELSE ToText[IF Level(t) > Cap THEN 1 ELSE Level(t)]
  BY DEF bash_lvl_calculator, Level
<1> DEFINE l == Level(t)
<1>8. l \in 0..INT_MAX /\ bash_lvl_calculator(t) = IF l = Cap THEN NoValue
                                                   ELSE ToText[IF l > Cap THEN 1 ELSE l]
  BY <1>6, <1>7
<1> HIDE DEF l
<1>9. bash_lvl_calculator(t) = LevelText(IF l > Cap THEN 1 ELSE l)
  <2>1. CASE l = Cap
    <3>1. ~(l > Cap)
      BY <1>1, <2>1
    <3>2. QED
      BY <1>8, <2>1, <3>1 DEF LevelText
  <2>2. CASE l # Cap
    <3>1. (IF l > Cap THEN 1 ELSE l) # Cap
      BY <1>1, <2>2
    <3>2. QED
      BY <1>8, <2>2, <3>1 DEF LevelText
  <2>3. QED
    BY <2>1, <2>2
<1>10. QED
  BY <1>6, <1>9 DEF l

LEMMA LevelIsShown ==
  ASSUME NEW l \in 0..Cap
  PROVE  LevelText(l) \in Text \cup {NoValue}
<1>1. l \in 0..(LLONG_MAX + 1)
  BY Limits
<1>2. QED
  BY <1>1, ToTextIs DEF LevelText

\* Whatever it is told, a shell has a level.
LEMMA AnyLevel ==
  ASSUME NEW t \in Text
  PROVE  \E l \in 0..Cap : bash_lvl_calculator(t) = LevelText(l)
<1>1. Level(t) \in 0..INT_MAX /\ Cap \in 2..INT_MAX /\ INT_MAX \in Nat
  BY CalculatorIs, Limits
<1>2. (IF Level(t) > Cap THEN 1 ELSE Level(t)) \in 0..Cap
  BY <1>1
<1>3. QED
  BY <1>2, CalculatorIs

\* A number an int holds makes the next level.
LEMMA NextLevel ==
  ASSUME NEW t \in Text, ft_atoi_long_long(t) \in -(INT_MAX + 1)..(INT_MAX - 1)
  PROVE  LET n == ft_atoi_long_long(t)
         IN  bash_lvl_calculator(t) =
               LevelText(IF n < 0 THEN 0 ELSE IF n >= Cap THEN 1 ELSE n + 1)
<1> DEFINE n == ft_atoi_long_long(t)
           W == Width[IntBits]
           v == n % W
           next == (v + 1) % W
<1>1. /\ W \in Nat \ {0} /\ W = 2 * (INT_MAX + 1) /\ INT_MAX \in Nat /\ Cap \in 2..INT_MAX
      /\ n \in -(INT_MAX + 1)..(INT_MAX - 1) /\ n # LLONG_MAX
  BY Limits
<1>2. t # ToText[LLONG_MAX]
  <2>1. ft_atoi_long_long(ToText[LLONG_MAX]) = LLONG_MAX
    BY WrittenReads, Limits
  <2>2. QED
    BY <1>1, <2>1
<1>3. Level(t) = IF next > INT_MAX THEN 0 ELSE next
  BY <1>1, <1>2 DEF Level
<1> HIDE DEF n, W
<1>4. next = IF n >= 0 THEN n + 1 ELSE IF n = -1 THEN 0 ELSE n + W + 1
  <2>1. CASE n >= 0
    <3>1. v = n
      BY <1>1, <2>1
    <3> HIDE DEF v
    <3>2. n + 1 \in 0..(W - 1)
      BY <1>1, <2>1
    <3>3. QED
      BY <1>1, <2>1, <3>1, <3>2
  <2>2. CASE n = -1
    <3>1. v = W - 1
      BY <1>1, <2>2
    <3> HIDE DEF v
    <3>2. v + 1 = W
      BY <1>1, <3>1
    <3>3. W % W = 0
      BY <1>1
    <3>4. QED
      BY <1>1, <2>2, <3>2, <3>3
  <2>3. CASE n < -1
    <3>1. v = n + W
      BY <1>1, <2>3
    <3> HIDE DEF v
    <3>2. v + 1 = n + W + 1 /\ n + W + 1 \in 0..(W - 1)
      BY <1>1, <2>3, <3>1
    <3>3. QED
      BY <1>1, <2>3, <3>2
  <2>4. QED
    BY <1>1, <2>1, <2>2, <2>3
<1> HIDE DEF next
<1>5. Level(t) = IF n < 0 THEN 0 ELSE n + 1
  BY <1>1, <1>3, <1>4
<1>6. (IF Level(t) > Cap THEN 1 ELSE Level(t)) = IF n < 0 THEN 0 ELSE IF n >= Cap THEN 1 ELSE n + 1
  BY <1>1, <1>5
<1>7. bash_lvl_calculator(t) = LevelText(IF Level(t) > Cap THEN 1 ELSE Level(t))
  BY CalculatorIs
<1>8. QED
  BY <1>6, <1>7 DEF n

\* What a value keeps on its way into the next shell.
Kept == Letters \cup Digit \cup Blank \cup Sign

LEMMA PassedText ==
  ASSUME NEW v \in Text \cup {NoValue}
  PROVE  Passed(v) \in Text
<1>1. CASE v = NoValue
  BY <1>1 DEF Passed, Text
<1>2. CASE v # NoValue
  <2>1. v \in Text
    BY <1>2
  <2>2. PICK k \in 1..(Len(v) + 1) : Behind(v, {"="}) = SubSeq(v, k, Len(v))
    BY <2>1, Parted
  <2>3. Behind(v, {"="}) \in Text
    <3>1. Len(v) \in Nat
      BY <2>1, TextElement
    <3>2. Len(v) \in (k - 1)..Len(v)
      BY <3>1
    <3>3. QED
      BY <2>1, <2>2, <3>2, SubText
  <2> DEFINE t == Behind(v, {"="})
  <2>4. t \in Text
    BY <2>3
  <2>5. Passed(v) = Leading(t, Kept)
    BY <1>2 DEF Passed, Kept
  <2> HIDE DEF t
  <2>6. PICK n \in 1..(Len(t) + 1) : Leading(t, Kept) = SubSeq(t, 1, n - 1)
    BY <2>4, Parted
  <2>7. Leading(t, Kept) \in Text
    <3>1. Len(t) \in Nat
      BY <2>4, TextElement
    <3>2. 1 \in 1..(Len(t) + 1) /\ n - 1 \in (1 - 1)..Len(t)
      BY <3>1
    <3>3. QED
      BY <2>4, <2>6, <3>2, SubText
  <2>8. QED
    BY <2>5, <2>7
<1>3. QED
  BY <1>1, <1>2

\* Nothing is lost of a text of these characters.
LEMMA PassedIs ==
  ASSUME NEW t \in Text, \A i \in 1..Len(t) : t[i] \in Kept
  PROVE  Passed(t) = t
<1>1. Len(t) \in Nat /\ t \in Seq(Characters) /\ t = SubSeq(t, 1, Len(t))
  BY TextElement, SubSeqFull DEF Text
<1>2. "=" \notin Kept
  <2>1. "=" \notin Digit /\ "=" \notin Letters
    BY ArgumentsAssumption, OtherCharacters
  <2>2. "=" \notin Blank /\ "=" \notin Sign
    BY DEF Blank, Sign
  <2>3. QED
    BY <2>1, <2>2 DEF Kept
<1>3. Behind(t, {"="}) = t
  <2>1. 1 \in 1..(Len(t) + 1) /\ \A i \in 1..(1 - 1) : t[i] \in {"="}
    BY <1>1
  <2>2. 1 <= Len(t) => t[1] \notin {"="}
    BY <1>1, <1>2
  <2>3. Behind(t, {"="}) = SubSeq(t, 1, Len(t))
    BY <2>1, <2>2, Parts
  <2>4. QED
    BY <1>1, <2>3
<1>4. Leading(t, Kept) = t
  <2>1. Len(t) + 1 \in 1..(Len(t) + 1) /\ (Len(t) + 1) - 1 = Len(t) /\ ~(Len(t) + 1 <= Len(t))
    BY <1>1
  <2>2. \A i \in 1..((Len(t) + 1) - 1) : t[i] \in Kept
    BY <2>1
  <2>3. Leading(t, Kept) = SubSeq(t, 1, (Len(t) + 1) - 1)
    BY <2>1, <2>2, Parts
  <2>4. QED
    BY <1>1, <2>1, <2>3
<1>5. t # NoValue
  BY NoValueNoText
<1>6. QED
  BY <1>3, <1>4, <1>5 DEF Passed, Kept

\* The level behind one that a shell gave itself.
LevelAfter(l) == IF l = Cap THEN 1 ELSE l + 1

LEMMA EmptyMakesOne == bash_lvl_calculator(<<>>) = LevelText(1)
<1>1. <<>> \in Text /\ \A i \in 1..Len(<<>>) : <<>>[i] \in Blank
  BY DEF Text
<1>2. ft_atoi_long_long(<<>>) = 0
  BY <1>1, BlanksRead
<1>3. INT_MAX \in Nat /\ Cap \in 2..INT_MAX
  BY Limits
<1>4. 0 \in -(INT_MAX + 1)..(INT_MAX - 1) /\ ~(0 < 0) /\ ~(0 >= Cap) /\ 0 + 1 = 1
  BY <1>3
<1>5. QED
  BY <1>1, <1>2, <1>4, NextLevel

LEMMA LevelBehind ==
  ASSUME NEW l \in 0..Cap
  PROVE  bash_lvl_calculator(Passed(LevelText(l))) = LevelText(LevelAfter(l))
<1>1. /\ INT_MAX \in Nat /\ Cap \in 2..INT_MAX /\ LLONG_MAX \in Nat /\ INT_MAX < LLONG_MAX
  BY Limits
<1>2. CASE l = Cap
  <2>1. Passed(LevelText(l)) = <<>>
    BY <1>2 DEF Passed, LevelText
  <2>2. QED
    BY <1>2, <2>1, EmptyMakesOne DEF LevelAfter
<1>3. CASE l # Cap
  <2> DEFINE t == ToText[l]
  <2>1. l \in 0..LLONG_MAX /\ l \in 0..(LLONG_MAX + 1)
    BY <1>1
  <2>2. t \in Text /\ \A i \in 1..Len(t) : t[i] \in Digit
    BY <2>1, ToTextIs
  <2>3. ft_atoi_long_long(t) = l
    BY <2>1, WrittenReads
  <2>4. LevelText(l) = t
    BY <1>3 DEF LevelText
  <2> HIDE DEF t
  <2>5. Passed(t) = t
    BY <2>2, PassedIs DEF Kept
  <2>6. l \in -(INT_MAX + 1)..(INT_MAX - 1) /\ ~(l < 0) /\ ~(l >= Cap)
    BY <1>1, <1>3
  <2>7. bash_lvl_calculator(t) = LevelText(l + 1)
    BY <2>2, <2>3, <2>6, NextLevel
  <2>8. QED
    BY <1>3, <2>4, <2>5, <2>7 DEF LevelAfter
<1>4. QED
  BY <1>2, <1>3

\* A remainder and the next one.
LEMMA ModNext ==
  ASSUME NEW c \in Nat, c >= 2, NEW m \in Nat
  PROVE  (m + 1) % c = IF m % c = c - 1 THEN 0 ELSE (m % c) + 1
<1> DEFINE q == m \div c
           r == m % c
           p == (m + 1) \div c
           s == (m + 1) % c
           d == p - q
<1>1. q \in Int /\ r \in 0..(c - 1) /\ m = c * q + r
  OBVIOUS
<1>2. p \in Int /\ s \in 0..(c - 1) /\ m + 1 = c * p + s
  OBVIOUS
<1> HIDE DEF q, r, p, s
<1>3. d \in Int /\ c * d = c * p - c * q
  BY <1>1, <1>2
<1> HIDE DEF d
<1>4. c * d = r + 1 - s
  <2>1. c * p \in Int /\ c * q \in Int
    BY <1>1, <1>2
  <2>2. QED
    BY <1>1, <1>2, <1>3, <2>1
<1>5. CASE d <= -1
  <2>1. c * d <= -c
    BY <1>3, <1>5
  <2>2. QED
    BY <1>1, <1>2, <1>4, <2>1
<1>6. CASE d >= 2
  <2>1. c * d >= 2 * c
    BY <1>3, <1>6
  <2>2. QED
    BY <1>1, <1>2, <1>4, <2>1
<1>7. CASE d = 0
  BY <1>1, <1>2, <1>4, <1>7 DEF r, s
<1>8. CASE d = 1
  <2>1. c * d = c
    BY <1>8
  <2>2. s = 0 /\ r = c - 1
    BY <1>1, <1>2, <1>4, <2>1
  <2>3. QED
    BY <2>2 DEF r, s
<1>9. QED
  BY <1>3, <1>5, <1>6, <1>7, <1>8

\* How the levels follow each other.
LEMMA LevelsFollow ==
  ASSUME NEW first \in 0..Cap
  PROVE  /\ LevelOf(first, 1) = first
         /\ \A k \in Nat \ {0} : /\ LevelOf(first, k) \in 0..Cap
                                 /\ LevelOf(first, k + 1) = LevelAfter(LevelOf(first, k))
<1> DEFINE c == Cap
<1>1. c \in Nat /\ c >= 2 /\ first \in 0..c
  BY Limits
<1>2. \A k : LevelOf(first, k) = IF first + k - 1 <= c THEN first + k - 1 ELSE ((first + k - 2) % c) + 1
  BY DEF LevelOf
<1>3. \A l : LevelAfter(l) = IF l = c THEN 1 ELSE l + 1
  BY DEF LevelAfter
<1> HIDE DEF c
<1>4. LevelOf(first, 1) = first
  BY <1>1, <1>2
<1>5. ASSUME NEW k \in Nat \ {0}
      PROVE  LevelOf(first, k) \in 0..c /\ LevelOf(first, k + 1) = LevelAfter(LevelOf(first, k))
  <2> DEFINE m == first + k - 2
  <2>1. m \in Int /\ m >= -1
    BY <1>1
  <2>2. first + k - 1 = m + 1 /\ first + (k + 1) - 1 = m + 2 /\ first + (k + 1) - 2 = m + 1
    BY <1>1
  <2>3. /\ LevelOf(first, k) = IF m + 1 <= c THEN m + 1 ELSE (m % c) + 1
        /\ LevelOf(first, k + 1) = IF m + 2 <= c THEN m + 2 ELSE ((m + 1) % c) + 1
    BY <1>2, <2>2 DEF m
  <2> HIDE DEF m
  <2>4. CASE m + 2 <= c
    BY <1>1, <1>3, <2>1, <2>3, <2>4
  <2>5. CASE m + 1 = c
    <3>1. (m + 1) % c = 0
      BY <1>1, <2>5
    <3>2. QED
      BY <1>1, <1>3, <2>1, <2>3, <2>5, <3>1
  <2>6. CASE m >= c
    <3>1. m % c \in 0..(c - 1)
      BY <1>1, <2>1
    <3>2. (m + 1) % c = IF m % c = c - 1 THEN 0 ELSE (m % c) + 1
      <4>1. m \in Nat /\ c >= 2
        BY <1>1, <2>1, <2>6
      <4>2. QED
        BY <1>1, <4>1, ModNext
    <3>3. LevelOf(first, k) = (m % c) + 1 /\ LevelOf(first, k + 1) = ((m + 1) % c) + 1
      BY <1>1, <2>1, <2>3, <2>6
    <3> DEFINE r == m % c
    <3>4. r \in 0..(c - 1) /\ LevelOf(first, k) = r + 1
          /\ LevelOf(first, k + 1) = (IF r = c - 1 THEN 0 ELSE r + 1) + 1
      BY <3>1, <3>2, <3>3
    <3> HIDE DEF r
    <3>5. QED
      BY <1>1, <1>3, <3>4
  <2>7. QED
    BY <1>1, <2>1, <2>4, <2>5, <2>6
<1>6. QED
  BY <1>4, <1>5 DEF c

\* A number is one of those that FirstLevels counts from.
Countable(t) == IsNumber(t) /\ Number(t) < INT_MAX /\ Number(t) >= -(INT_MAX + 1)

LEMMA FirstLevelsIs ==
  ASSUME NEW t \in Text \cup {NoValue}
  PROVE  /\ FirstLevels(t) \subseteq 0..Cap
         /\ t = NoValue \/ (\A i \in 1..Len(t) : t[i] \in Blank) => FirstLevels(t) = {1}
         /\ t # NoValue /\ ~(\A i \in 1..Len(t) : t[i] \in Blank) /\ Countable(t) =>
              FirstLevels(t) = {IF Number(t) < 0 THEN 0
                                ELSE IF Number(t) >= Cap THEN 1 ELSE Number(t) + 1}
         /\ t # NoValue /\ ~(\A i \in 1..Len(t) : t[i] \in Blank) /\ ~Countable(t) =>
              FirstLevels(t) = 0..Cap
<1>1. Cap \in Nat /\ Cap >= 2
  BY Limits
<1>2. t # NoValue => (ToSet(t) \subseteq Blank <=> \A i \in 1..Len(t) : t[i] \in Blank)
  BY DEF ToSet, Text
<1>3. FirstLevels(t) = IF t = NoValue \/ (t # NoValue /\ \A i \in 1..Len(t) : t[i] \in Blank)
                       THEN {1}
                       ELSE IF Countable(t)
                       THEN {IF Number(t) < 0 THEN 0
                             ELSE IF Number(t) >= Cap THEN 1 ELSE Number(t) + 1}
                       ELSE 0..Cap
  BY <1>2 DEF FirstLevels, Countable
<1>4. t # NoValue => Number(t) \in Int
  BY NumberIs, ValueType
<1> DEFINE n == Number(t)
           blank == \A i \in 1..Len(t) : t[i] \in Blank
<1>5. /\ t # NoValue => n \in Int
      /\ FirstLevels(t) = IF t = NoValue \/ (t # NoValue /\ blank) THEN {1}
                          ELSE IF Countable(t)
                          THEN {IF n < 0 THEN 0 ELSE IF n >= Cap THEN 1 ELSE n + 1}
                          ELSE 0..Cap
  BY <1>3, <1>4
<1> HIDE DEF n, blank
<1>6. FirstLevels(t) \subseteq 0..Cap
  BY <1>1, <1>5
<1>7. /\ t = NoValue \/ blank => FirstLevels(t) = {1}
      /\ t # NoValue /\ ~blank /\ Countable(t) =>
           FirstLevels(t) = {IF n < 0 THEN 0 ELSE IF n >= Cap THEN 1 ELSE n + 1}
      /\ t # NoValue /\ ~blank /\ ~Countable(t) => FirstLevels(t) = 0..Cap
  BY <1>5
<1>8. QED
  BY <1>6, <1>7 DEF n, blank

\* The level of a shell that is started by the first one.
LEMMA FirstStep ==
  ASSUME NEW v \in Text \cup {NoValue}
  PROVE  \E first \in FirstLevels(v) : bash_lvl_calculator(Passed(v)) = LevelText(first)
<1>1. CASE v = NoValue
  <2>1. Passed(v) = <<>> /\ FirstLevels(v) = {1}
    BY <1>1, FirstLevelsIs DEF Passed
  <2>2. QED
    BY <2>1, EmptyMakesOne
<1>2. CASE v # NoValue /\ \A i \in 1..Len(v) : v[i] \in Blank
  <2>1. FirstLevels(v) = {1} /\ v \in Text
    BY <1>2, FirstLevelsIs
  <2>2. Passed(v) = v
    BY <1>2, <2>1, PassedIs DEF Kept
  <2>3. ft_atoi_long_long(v) = 0
    BY <1>2, <2>1, BlanksRead
  <2>4. INT_MAX \in Nat /\ Cap \in 2..INT_MAX
    BY Limits
  <2>5. 0 \in -(INT_MAX + 1)..(INT_MAX - 1) /\ ~(0 < 0) /\ ~(0 >= Cap) /\ 0 + 1 = 1
    BY <2>4
  <2>6. bash_lvl_calculator(v) = LevelText(1)
    BY <2>1, <2>3, <2>5, NextLevel
  <2>7. QED
    BY <2>1, <2>2, <2>6
<1>3. CASE v # NoValue /\ ~(\A i \in 1..Len(v) : v[i] \in Blank) /\ Countable(v)
  <2> DEFINE n == Number(v)
  <2>1. /\ v \in Text /\ IsNumber(v)
        /\ FirstLevels(v) = {IF n < 0 THEN 0 ELSE IF n >= Cap THEN 1 ELSE n + 1}
    BY <1>3, FirstLevelsIs DEF Countable
  <2>2. n \in Int
    BY <2>1, NumberIs, ValueType
  <2>3. n < INT_MAX /\ n >= -(INT_MAX + 1)
    BY <1>3 DEF Countable
  <2>4. Passed(v) = v
    <3>1. Len(v) \in Nat
      BY <2>1, TextElement
    <3>2. PICK i, k \in 1..Len(v) : Spelled(v, i, k)
      BY <2>1, NumberParts
    <3>3. ASSUME NEW j \in 1..Len(v)
          PROVE  v[j] \in Kept
      <4>1. j \in 1..(i - 1) \/ j = i \/ j \in (i + 1)..k \/ j \in (k + 1)..Len(v)
        BY <3>1
      <4>2. QED
        BY <3>2, <4>1 DEF Spelled, Kept
    <3>4. QED
      BY <2>1, <3>3, PassedIs
  <2> HIDE DEF n
  <2>5. INT_MAX \in Nat /\ LLONG_MAX \in Nat /\ INT_MAX < LLONG_MAX
    BY Limits
  <2>6. n \in -(LLONG_MAX + 1)..LLONG_MAX /\ n \in -(INT_MAX + 1)..(INT_MAX - 1)
    BY <2>2, <2>3, <2>5
  <2>7. ft_atoi_long_long(v) = n
    BY <2>1, <2>6, NumberIsNumeric, Reads DEF n
  <2>8. bash_lvl_calculator(v) = LevelText(IF n < 0 THEN 0 ELSE IF n >= Cap THEN 1 ELSE n + 1)
    BY <2>1, <2>6, <2>7, NextLevel
  <2>9. QED
    BY <2>1, <2>4, <2>8
<1>4. CASE v # NoValue /\ ~(\A i \in 1..Len(v) : v[i] \in Blank) /\ ~Countable(v)
  <2>1. FirstLevels(v) = 0..Cap
    BY <1>4, FirstLevelsIs
  <2>2. QED
    BY <2>1, PassedText, AnyLevel
<1>5. QED
  BY <1>1, <1>2, <1>3, <1>4

\* What holds of the environment and of the last level that was set.
LevelInv ==
  /\ Holds(env) /\ base \in Text \cup {NoValue} /\ depth \in Nat
  /\ depth = 0 => base = Shown(env)
  /\ depth > 0 => SHLVL \in DOMAIN env
  /\ LevelRight

LEMMA ShownIs ==
  ASSUME NEW e, Holds(e)
  PROVE  Shown(e) \in Text \cup {NoValue}
BY DEF Shown, Holds

LEMMA FirstLevel ==
  <<"1">> = LevelText(1)
<1>1. Cap # 1 /\ 1 \in 0..(LLONG_MAX + 1)
  BY Limits
<1>2. ToText[1] = IF 1 < 10 THEN <<Digits[(1 % 10) + 1]>> ELSE ToText[1 \div 10] \o <<Digits[(1 % 10) + 1]>>
  BY <1>1, ToTextExists
<1>3. ToText[1] = <<Digits[2]>>
  BY <1>2
<1>4. Digits[2] = "1"
  BY DEF Digits
<1>5. QED
  BY <1>1, <1>3, <1>4 DEF LevelText

LEMMA LevelInit == Init => LevelInv
<1> SUFFICES ASSUME Init
             PROVE  LevelInv
  OBVIOUS
<1>1. depth = 0 /\ base = Shown(env) /\ env \in {Empty} \cup {Put(Empty, SHLVL, t) : t \in Levels}
  BY DEF Init
<1>2. Holds(env)
  <2>1. CASE env = Empty
    BY <2>1 DEF Empty, Holds
  <2>2. CASE env \in {Put(Empty, SHLVL, t) : t \in Levels}
    <3>1. PICK t \in Levels : env = Put(Empty, SHLVL, t)
      BY <2>2
    <3>2. t \in Text
      BY ArgumentsAssumption
    <3>3. QED
      BY <3>1, <3>2 DEF Put, Empty, Holds
  <2>3. QED
    BY <1>1, <2>1, <2>2
<1>3. QED
  BY <1>1, <1>2, ShownIs DEF LevelInv, LevelRight

LEMMA LevelExit ==
  ASSUME LevelInv, NEW words \in ExitWords, exec_exit(words)
  PROVE  LevelInv'
<1>1. (env' = Empty /\ base' = NoValue /\ depth' = 0) \/ UNCHANGED <<env, base, depth>>
  BY DEF exec_exit, exit
<1>2. CASE env' = Empty /\ base' = NoValue /\ depth' = 0
  BY <1>2 DEF LevelInv, LevelRight, Holds, Shown, Empty
<1>3. CASE UNCHANGED <<env, base, depth>>
  BY <1>3 DEF LevelInv, LevelRight, Holds, Shown
<1>4. QED
  BY <1>1, <1>2, <1>3

LEMMA LevelExport ==
  ASSUME LevelInv, NEW words \in ExportWords, exec_export(words)
  PROVE  LevelInv'
<1>1. words \in Seq(Text)
  BY ArgumentsAssumption
<1> DEFINE r == ExportAll(words)
<1>2. env' = r.env /\ r.defined
      /\ IF Shown(r.env) = Shown(env) THEN UNCHANGED <<base, depth>>
         ELSE base' = Shown(r.env) /\ depth' = 0
  BY DEF exec_export
<1>3. Holds(r.env) /\ DOMAIN env \subseteq DOMAIN r.env
  BY <1>1, <1>2, ExportAllIs DEF LevelInv
<1> HIDE DEF r
<1>4. Shown(r.env) \in Text \cup {NoValue}
  BY <1>3, ShownIs
<1>5. Shown(env)' = Shown(r.env) /\ Holds(env)' /\ DOMAIN env \subseteq DOMAIN env'
  BY <1>2, <1>3 DEF Shown, Holds
<1>6. CASE Shown(r.env) = Shown(env)
  <2>1. base' = base /\ depth' = depth /\ Shown(env)' = Shown(env)
    BY <1>2, <1>5, <1>6
  <2>2. depth > 0 => SHLVL \in DOMAIN env /\ SHLVL \in DOMAIN env'
    BY <1>5 DEF LevelInv
  <2>3. depth > 0 => env'[SHLVL] = env[SHLVL]
    BY <2>1, <2>2 DEF Shown
  <2>4. LevelRight'
    BY <2>1, <2>3 DEF LevelInv, LevelRight
  <2>5. QED
    BY <1>5, <2>1, <2>2, <2>4 DEF LevelInv
<1>7. CASE Shown(r.env) # Shown(env)
  <2>1. base' = Shown(r.env) /\ depth' = 0
    BY <1>2, <1>7
  <2>2. LevelRight'
    BY <2>1 DEF LevelRight
  <2>3. QED
    BY <1>4, <1>5, <2>1, <2>2 DEF LevelInv
<1>8. QED
  BY <1>6, <1>7

LEMMA LevelStart ==
  ASSUME LevelInv, StartShell
  PROVE  LevelInv'
<1> DEFINE e == [name \in DOMAIN env |-> Passed(env[name])]
           v == IF SHLVL \in DOMAIN e THEN bash_lvl_calculator(e[SHLVL]) ELSE <<"1">>
<1>1. env' = Put(e, SHLVL, v) /\ depth' = depth + 1 /\ base' = base
  BY DEF StartShell, add_bash_lvl
<1>2. Holds(env) /\ base \in Text \cup {NoValue} /\ depth \in Nat
  BY DEF LevelInv
<1>3. DOMAIN e = DOMAIN env /\ \A name \in DOMAIN e : e[name] \in Text
  BY <1>2, PassedText DEF Holds
<1>4. \E first \in FirstLevels(base) : v = LevelText(LevelOf(first, depth'))
  <2>1. FirstLevels(base) \subseteq 0..Cap
    BY <1>2, FirstLevelsIs
  <2>2. CASE depth = 0 /\ SHLVL \in DOMAIN env
    <3>1. base = env[SHLVL] /\ depth' = 1
      BY <1>1, <2>2 DEF LevelInv, Shown
    <3>2. v = bash_lvl_calculator(Passed(base))
      BY <1>3, <2>2, <3>1
    <3> HIDE DEF v, e
    <3>3. PICK first \in FirstLevels(base) : v = LevelText(first)
      BY <1>2, <3>2, FirstStep
    <3>4. LevelOf(first, 1) = first
      BY <2>1, LevelsFollow
    <3>5. QED
      BY <3>1, <3>3, <3>4
  <2>3. CASE depth = 0 /\ SHLVL \notin DOMAIN env
    <3>1. base = NoValue /\ depth' = 1
      BY <1>1, <2>3 DEF LevelInv, Shown
    <3>2. v = LevelText(1)
      BY <1>3, <2>3, FirstLevel
    <3> HIDE DEF v, e
    <3>3. FirstLevels(base) = {1}
      BY <3>1, FirstLevelsIs
    <3>4. LevelOf(1, 1) = 1
      BY <2>1, <3>3, LevelsFollow
    <3>5. QED
      BY <3>1, <3>2, <3>3, <3>4
  <2>4. CASE depth # 0
    <3>1. depth > 0 /\ depth \in Nat \ {0} /\ SHLVL \in DOMAIN env /\ LevelRight
      BY <1>2, <2>4 DEF LevelInv
    <3>2. PICK first \in FirstLevels(base) : env[SHLVL] = LevelText(LevelOf(first, depth))
      BY <3>1 DEF LevelRight, LevelText
    <3>3. first \in 0..Cap
      BY <2>1
    <3>4. LevelOf(first, depth) \in 0..Cap /\ LevelOf(first, depth + 1) = LevelAfter(LevelOf(first, depth))
      BY <3>1, <3>3, LevelsFollow
    <3>5. v = bash_lvl_calculator(Passed(env[SHLVL]))
      BY <1>3, <3>1
    <3> HIDE DEF v, e
    <3>6. v = LevelText(LevelAfter(LevelOf(first, depth)))
      BY <3>2, <3>4, <3>5, LevelBehind
    <3>7. QED
      BY <1>1, <3>4, <3>6
  <2>5. QED
    BY <2>2, <2>3, <2>4
<1> HIDE DEF v, e
<1>5. SHLVL \in DOMAIN env' /\ env'[SHLVL] = v /\ DOMAIN env' = {SHLVL} \cup DOMAIN e
  BY <1>1 DEF Put
<1>6. LevelRight'
  BY <1>1, <1>4, <1>5 DEF LevelRight, LevelText
<1>7. v \in Text \cup {NoValue}
  <2>1. PICK first \in FirstLevels(base) : v = LevelText(LevelOf(first, depth'))
    BY <1>4
  <2>2. first \in 0..Cap /\ depth' \in Nat \ {0}
    BY <1>1, <1>2, FirstLevelsIs
  <2>3. LevelOf(first, depth') \in 0..Cap
    BY <2>2, LevelsFollow
  <2>4. QED
    BY <2>1, <2>3, LevelIsShown
<1>8. Holds(env)'
  <2>1. \A name \in DOMAIN env' : env'[name] = IF name = SHLVL THEN v ELSE e[name]
    BY <1>1 DEF Put
  <2>2. QED
    BY <1>3, <1>5, <1>7, <2>1 DEF Holds
<1>9. depth' \in Nat /\ depth' # 0
  BY <1>1, <1>2
<1>10. QED
  BY <1>1, <1>2, <1>5, <1>6, <1>8, <1>9 DEF LevelInv

\* However many shells are in each other, the level of the last one tells how
\* many there are since SHLVL was set to a number, and starts again with 1 behind
\* Cap: add_bash_lvl(), init.c, and bash_lvl_calculator(), init_utils.c.
THEOREM LevelIsRight == Spec => []LevelRight
<1>1. Init => LevelInv
  BY LevelInit
<1>2. LevelInv /\ [Next]_vars => LevelInv'
  <2> SUFFICES ASSUME LevelInv, [Next]_vars
               PROVE  LevelInv'
    OBVIOUS
  <2>1. ASSUME NEW words \in ExitWords, exec_exit(words)
        PROVE  LevelInv'
    BY <2>1, LevelExit
  <2>2. ASSUME NEW words \in ExportWords, exec_export(words)
        PROVE  LevelInv'
    BY <2>2, LevelExport
  <2>3. CASE StartShell
    BY <2>3, LevelStart
  <2>4. CASE UNCHANGED vars
    BY <2>4 DEF LevelInv, LevelRight, Holds, Shown, vars
  <2>5. QED
    BY <2>1, <2>2, <2>3, <2>4 DEF Next
<1>3. LevelInv => LevelRight
  BY DEF LevelInv
<1>4. QED
  BY <1>1, <1>2, <1>3, PTL DEF Spec
-----------------------------------------------------------------------------
(* cd.                                                                     *)

\* What is true between the steps of exec_cd(): up to chdir() nothing has
\* changed, and before getcwd() all but PWD is done.
Underway ==
  /\ pc = "chdir" => /\ variables = before.env /\ cwd = before.cwd
                     /\ old_pwd = before.env["PWD"]
  /\ pc = "getcwd" => /\ cwd = IF to = Here THEN before.cwd ELSE to
                      /\ variables = [before.env EXCEPT !["OLDPWD"] = before.env["PWD"]]

\* OLDPWD and PWD say what the history knows, at every step, and did so when
\* exec_cd() was called; "cd -" goes to the OLDPWD of its call.
Traced ==
  /\ sure => variables["PWD"] = cwd
  /\ trail \in Dirs => variables["OLDPWD"] = trail
  /\ before.trail \in Dirs => before.env["OLDPWD"] = before.trail
  /\ dash /\ (pc \in {"chdir", "getcwd"} \/ (pc = "over" /\ ret = 0))
       => to = before.env["OLDPWD"]

CdInv == TypeOK /\ Underway /\ Arrived /\ Refused /\ Traced

LEMMA CdStarts == CdInit => CdInv
<1>. SUFFICES ASSUME CdInit PROVE CdInv
  OBVIOUS
<1>1. TypeOK
  BY DEF CdInit, TypeOK, Values, Paths
<1>2. Underway /\ Arrived /\ Refused
  BY DEF CdInit, Underway, Arrived, Refused
<1>3. Traced
  BY CdAssumption DEF CdInit, Traced
<1>. QED
  BY <1>1, <1>2, <1>3 DEF CdInv

\* The user: there is no cd underway, and none has been since.
LEMMA AssignKeeps ==
  ASSUME CdInv, NEW name \in Names, NEW value \in Values, Assign(name, value)
  PROVE  CdInv'
<1>. USE CdAssumption DEF CdInv
<1>1. TypeOK'
  BY DEF TypeOK, Assign, Idle, Paths
<1>2. Underway' /\ Arrived' /\ Refused'
  BY DEF Assign, Idle, Underway, Arrived, Refused
<1>3. Traced'
  BY DEF TypeOK, Assign, Idle, Traced, Names
<1>. QED
  BY <1>1, <1>2, <1>3

\* Another shell: what it is given is of the same kind.
LEMMA StartMshKeeps == ASSUME CdInv, StartMsh PROVE CdInv'
<1>. USE CdAssumption DEF CdInv
<1>1. ASSUME NEW value \in Values PROVE PassedOn(value) \in Values
  <2>1. CASE value = NULL
    BY <2>1 DEF PassedOn, Values, Paths
  <2>2. CASE value \in Dirs
    BY <2>2 DEF PassedOn, Values, Paths
  <2>3. CASE value \in {Here, NotSet}
    BY <2>3 DEF PassedOn, Values, Paths
  <2>. QED
    BY <2>1, <2>2, <2>3 DEF Values, Paths
<1>2. variables' \in [Names -> Values]
  BY <1>1 DEF TypeOK, StartMsh, Values
<1>3. TypeOK'
  BY <1>2 DEF TypeOK, StartMsh, Idle, Paths
<1>4. Underway' /\ Arrived' /\ Refused'
  BY DEF StartMsh, Idle, Underway, Arrived, Refused
<1>5. sure' => variables'["PWD"] = cwd'
  <2>. SUFFICES ASSUME sure' PROVE variables'["PWD"] = cwd
    BY DEF StartMsh
  <2>1. variables["PWD"] = cwd /\ Cut[cwd] = cwd
    BY DEF Traced, StartMsh
  <2>2. PassedOn(variables["PWD"]) = cwd
    BY <2>1 DEF TypeOK, PassedOn
  <2>. QED
    BY <2>2 DEF StartMsh, Names
<1>6. Traced'
  BY <1>5 DEF StartMsh, Idle, Traced
<1>. QED
  BY <1>3, <1>4, <1>6

\* The other processes: none of them changes what the last call has left.
LEMMA OthersKeep ==
  ASSUME CdInv, NEW dir \in Dirs, mkdir(dir) \/ rmdir(dir)
  PROVE  CdInv'
<1>1. CASE mkdir(dir)
  <2>1. TypeOK'
    BY <1>1 DEF CdInv, TypeOK, mkdir, call, past
  <2>2. Underway' /\ Arrived' /\ Refused' /\ Traced'
    BY <1>1 DEF CdInv, mkdir, Underway, Arrived, Refused, Traced, call, past
  <2>. QED
    BY <2>1, <2>2 DEF CdInv
<1>2. CASE rmdir(dir)
  <2>1. TypeOK'
    BY <1>2 DEF CdInv, TypeOK, rmdir, call, past
  <2>2. Underway' /\ Arrived' /\ Traced'
    BY <1>2 DEF CdInv, rmdir, Underway, Arrived, Traced, call, past
  <2>3. Refused'
    BY <1>2 DEF CdInv, rmdir, Refused, call, past
  <2>. QED
    BY <2>1, <2>2, <2>3 DEF CdInv
<1>. QED
  BY <1>1, <1>2

\* exec_cd() takes its notes and either returns or goes on to chdir().
LEMMA exec_cdKeeps ==
  ASSUME CdInv, NEW path \in Values, NEW d \in BOOLEAN,
         d => path = variables["OLDPWD"], exec_cd(path, d)
  PROVE  CdInv'
<1>. USE CdAssumption DEF CdInv
<1>1. TypeOK'
  BY DEF TypeOK, exec_cd, get_cd_dir, Return, Values, Paths, Names, past
<1>2. Underway'
  BY DEF TypeOK, Underway, exec_cd, get_cd_dir, Return
<1>3. Arrived' /\ Refused'
  BY DEF TypeOK, Arrived, Refused, exec_cd, get_cd_dir, Return
<1>4. Traced'
  BY DEF TypeOK, Traced, exec_cd, get_cd_dir, Return, past
<1>. QED
  BY <1>1, <1>2, <1>3, <1>4

LEMMA ChdirKeeps == ASSUME CdInv, Chdir PROVE CdInv'
<1>. USE CdAssumption DEF CdInv
<1>1. TypeOK'
  <2>1. CASE to \in Dirs \ there
    BY <2>1 DEF TypeOK, Chdir, Return, Paths, past
  <2>2. CASE to \in there \cup {Here}
    <3>1. variables' \in [Names -> Values]
      BY <2>2 DEF TypeOK, Chdir, set_old_pwd, Values, Names, Paths
    <3>2. gone' \in BOOLEAN
      BY <2>2 DEF TypeOK, Chdir
    <3>3. cwd' \in Dirs /\ (~gone' => cwd' \in there')
      BY <2>2 DEF TypeOK, Chdir
    <3>4. sure' \in BOOLEAN /\ trail' \in Paths
      BY <2>2 DEF TypeOK, Chdir, Paths
    <3>. QED
      BY <2>2, <3>1, <3>2, <3>3, <3>4 DEF TypeOK, Chdir
  <2>. QED
    BY <2>1, <2>2 DEF TypeOK, Paths
<1>2. Underway'
  BY DEF TypeOK, Underway, Chdir, set_old_pwd, Return, Paths
<1>3. Arrived' /\ Refused'
  BY DEF TypeOK, Underway, Arrived, Refused, Chdir, Return
<1>4. Traced'
  <2>1. CASE to \in Dirs \ there
    BY <2>1 DEF TypeOK, Traced, Chdir, Return, past
  <2>2. CASE to \in there \cup {Here}
    <3>1. variables' = [variables EXCEPT !["OLDPWD"] = variables["PWD"]]
      BY <2>2 DEF TypeOK, Underway, Chdir, set_old_pwd
    <3>2. sure' => variables'["PWD"] = cwd'
      BY <2>2, <3>1 DEF TypeOK, Traced, Chdir, Names
    <3>3. trail' \in Dirs => variables'["OLDPWD"] = trail'
      BY <2>2, <3>1 DEF TypeOK, Traced, Chdir, Names
    <3>. QED
      BY <2>2, <3>2, <3>3 DEF TypeOK, Traced, Chdir
  <2>. QED
    BY <2>1, <2>2 DEF TypeOK, Paths
<1>. QED
  BY <1>1, <1>2, <1>3, <1>4

LEMMA SetPwdKeeps == ASSUME CdInv, SetPwd PROVE CdInv'
<1>. USE CdAssumption DEF CdInv
<1>1. TypeOK'
  <2>1. UNCHANGED <<cwd, gone, there, to, old_pwd, dash, before>>
    BY DEF SetPwd
  <2>2. pc' = "over" /\ ret' \in {0, 1}
    BY DEF SetPwd, Return
  <2>3. variables' \in [Names -> Values]
    <3>1. cwd \in Values
      BY DEF TypeOK, Values, Paths
    <3>2. variables' = variables \/ variables' = [variables EXCEPT !["PWD"] = cwd]
      BY DEF SetPwd
    <3>. QED
      BY <3>1, <3>2 DEF TypeOK
  <2>4. sure' \in BOOLEAN /\ trail' \in Paths
    BY DEF TypeOK, SetPwd, past
  <2>. QED
    BY <2>1, <2>2, <2>3, <2>4 DEF TypeOK
<1>2. Underway'
  BY DEF Underway, SetPwd, Return
<1>3. Traced'
  BY DEF TypeOK, Traced, SetPwd, Return, Names, past
<1>4. CASE gone
  <2>1. Arrived'
    BY <1>4 DEF Arrived, SetPwd, Return
  <2>2. variables' = [before.env EXCEPT !["PWD"] = before.env["PWD"], !["OLDPWD"] = before.env["PWD"]]
    BY <1>4 DEF TypeOK, Underway, SetPwd, Names
  <2>3. Refused'
    BY <1>4, <2>2 DEF Underway, Refused, SetPwd
  <2>. QED
    BY <1>1, <1>2, <1>3, <2>1, <2>3
<1>5. CASE ~gone
  <2>1. variables' = [before.env EXCEPT !["PWD"] = cwd', !["OLDPWD"] = before.env["PWD"]]
    BY <1>5 DEF TypeOK, Underway, SetPwd, Names
  <2>2. Arrived'
    BY <2>1 DEF Underway, Arrived, SetPwd
  <2>3. Refused'
    BY <1>5, <2>1 DEF TypeOK, Underway, Refused, SetPwd, Return
  <2>. QED
    BY <1>1, <1>2, <1>3, <2>2, <2>3
<1>. QED
  BY <1>4, <1>5

LEMMA CdKeeps == CdInv /\ [CdNext]_cd_vars => CdInv'
<1>. SUFFICES ASSUME CdInv, [CdNext]_cd_vars PROVE CdInv'
  OBVIOUS
<1>1. ASSUME NEW name \in Names, NEW value \in Values, Assign(name, value) PROVE CdInv'
  BY <1>1, AssignKeeps
<1>2. ASSUME NEW dir \in Dirs, mkdir(dir) \/ rmdir(dir) PROVE CdInv'
  BY <1>2, OthersKeep
<1>3. CASE Command
  <2>. variables["HOME"] \in Values /\ variables["OLDPWD"] \in Values /\ Paths \subseteq Values
    BY DEF CdInv, TypeOK, Names, Values
  <2>. QED
    BY <1>3, exec_cdKeeps DEF Command
<1>4. CASE StartMsh \/ Chdir \/ SetPwd
  BY <1>4, StartMshKeeps, ChdirKeeps, SetPwdKeeps
<1>5. CASE UNCHANGED cd_vars
  <2>. USE <1>5 DEF cd_vars, call, past, CdInv
  <2>1. TypeOK'
    BY DEF TypeOK
  <2>2. Underway' /\ Arrived' /\ Refused' /\ Traced'
    BY DEF Underway, Arrived, Refused, Traced
  <2>. QED
    BY <2>1, <2>2
<1>. QED
  BY <1>1, <1>2, <1>3, <1>4, <1>5 DEF CdNext

\* The invariants hold in every state of the specification.
THEOREM CdInvariant == CdSpec => []CdInv
<1>. QED
  BY CdStarts, CdKeeps, PTL DEF CdSpec

\* The variables have their types, and a working directory that has not been
\* removed is there.
THEOREM CdTypeCorrect == CdSpec => []TypeOK
<1>1. CdInv => TypeOK
  BY DEF CdInv
<1>. QED
  BY <1>1, CdInvariant, PTL

\* exec_cd() that returns 0 has done everything.
THEOREM CdArrived == CdSpec => []Arrived
<1>1. CdInv => Arrived
  BY DEF CdInv
<1>. QED
  BY <1>1, CdInvariant, PTL

\* exec_cd() that returns 1 has done nothing, or says PWD what it could not find
\* out only if the directory was removed under it.
THEOREM CdRefused == CdSpec => []Refused
<1>1. CdInv => Refused
  BY DEF CdInv
<1>. QED
  BY <1>1, CdInvariant, PTL

\* "cd -" leads back, and PWD is the working directory from the first cd on that
\* could find it out.
THEOREM CdBackAgain == CdSpec => []BackAgain
<1>1. CdInv => BackAgain
  <2>. SUFFICES ASSUME CdInv PROVE BackAgain
    OBVIOUS
  <2>1. sure => variables["PWD"] = cwd
    BY DEF CdInv, Traced
  <2>2. pc = "over" /\ ret = 0 /\ dash /\ before.trail \in Dirs => cwd = before.trail
    BY CdAssumption DEF CdInv, Traced, Arrived
  <2>. QED
    BY <2>1, <2>2 DEF BackAgain
<1>. QED
  BY <1>1, CdInvariant, PTL
=============================================================================
