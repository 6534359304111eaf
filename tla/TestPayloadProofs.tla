-------------------------- MODULE TestPayloadProofs ---------------------------
(***************************************************************************)
(* What is sent is what is received, for every packet, every buffer and    *)
(* padding and every place where a frame is cut, and an Aaf survives the   *)
(* way into a header and back.  Every WAV file that is cut is refused, and *)
(* one that was read is written back as a file that reads the same.  So    *)
(* the audio of a test comes back, if no frame is lost.                    *)
(*                                                                         *)
(* From the bottom: a number is the number of its bits, a sequence of      *)
(* bytes that of its bits; a layout reads slices at known places; what     *)
(* encode writes begins with slices that hold its fields; so decode takes  *)
(* the packet out of any bits that begin with its encoding, and fails on   *)
(* any shorter beginning of it.  The invariant then only says that a frame *)
(* on the wire begins with its packet's encoding, or is cut out of it.     *)
(*                                                                         *)
(* The recursive functions of AvtpPdu need induction over the numbers:     *)
(* Smallest gives a set of numbers that is not all of them a least         *)
(* missing one, UpTo and Recursion follow from it.                         *)
(***************************************************************************)
EXTENDS TestPayload, SequenceTheorems, WellFoundedInduction, TLAPS

-----------------------------------------------------------------------------
(* Counting: induction over the numbers, as a fact about sets of them *)

LEMMA Smallest ==
    ASSUME NEW S \in SUBSET Nat, S # {}
    PROVE  \E n \in S : \A m \in S : n <= m
<1>1. IsWellFoundedOn(OpToRel(<, Nat), Nat)
  BY NatLessThanWellFounded
<1> DEFINE R == OpToRel(<, Nat)
<1>2. \A x, y \in Nat : y < x => <<y, x>> \in R
  BY DEF OpToRel
<1>3. IsWellFoundedOn(R, Nat)
  BY <1>1
<1> HIDE DEF R
<1>4. PICK x \in S : \A y \in S : ~(<<y, x>> \in R)
  BY <1>3, WFMin
<1>5. ASSUME NEW m \in S
      PROVE  x <= m
  <2>1. x \in Nat /\ m \in Nat /\ ~(m < x)
    BY <1>2, <1>4
  <2>2. QED
    BY <2>1
<1>6. QED
  BY <1>5

\* What holds of 0, and of n + 1 when it holds of n, holds of every number.
LEMMA UpTo ==
    ASSUME NEW S, 0 \in S, \A n \in Nat : n \in S => n + 1 \in S
    PROVE  Nat \subseteq S
<1> SUFFICES ASSUME Nat \ S # {} PROVE FALSE
  OBVIOUS
<1>1. PICK n \in Nat \ S : \A m \in Nat \ S : n <= m
  BY Smallest
<1>2. n - 1 \in Nat /\ n - 1 \in S /\ n = (n - 1) + 1
  BY <1>1
<1>3. QED
  BY <1>1, <1>2

\* What a loop has made of a after each of its n steps.
Loops(f, n, S, a, step) ==
    /\ f \in [0..n -> S] /\ f[0] = a
    /\ \A i \in 1..n : f[i] = step[i][f[i - 1]]

LEMMA Recursion ==
    ASSUME NEW n \in Nat, NEW S, NEW a \in S, NEW step \in [1..n -> [S -> S]]
    PROVE  \E f : Loops(f, n, S, a, step)
<1> DEFINE Steps(f, m) == f[0] = a /\ \A i \in 1..m : f[i] = step[i][f[i - 1]]
           T == {m \in Nat : m <= n => \E f \in [0..m -> S] : Steps(f, m)}
<1>1. 0 \in T
  <2> DEFINE f == [i \in 0..0 |-> a]
  <2>1. f \in [0..0 -> S] /\ Steps(f, 0)
    OBVIOUS
  <2>2. QED
    BY <2>1
<1>2. ASSUME NEW m \in Nat, m \in T
      PROVE  m + 1 \in T
  <2> SUFFICES ASSUME m + 1 <= n
               PROVE  \E f \in [0..(m + 1) -> S] : Steps(f, m + 1)
    OBVIOUS
  <2>1. PICK g \in [0..m -> S] : Steps(g, m)
    BY <1>2
  <2> DEFINE last == step[m + 1][g[m]]
             f == [i \in 0..(m + 1) |-> IF i = m + 1 THEN last ELSE g[i]]
  <2>2. last \in S
    <3>1. g[m] \in S /\ m + 1 \in 1..n
      BY <2>1
    <3>2. QED
      BY <3>1
  <2>3. f[m + 1] = last /\ \A i \in 0..m : f[i] = g[i]
    OBVIOUS
  <2>4. f \in [0..(m + 1) -> S]
    <3>1. \A i \in 0..(m + 1) : (IF i = m + 1 THEN last ELSE g[i]) \in S
      BY <2>1, <2>2
    <3>2. QED
      BY <3>1
  <2> HIDE DEF f
  <2>5. Steps(f, m + 1)
    <3>1. f[0] = a
      BY <2>1, <2>3
    <3>2. ASSUME NEW i \in 1..(m + 1)
          PROVE  f[i] = step[i][f[i - 1]]
      <4>1. CASE i = m + 1
        BY <2>3, <4>1
      <4>2. CASE i \in 1..m
        <5>1. f[i] = g[i] /\ f[i - 1] = g[i - 1]
          BY <2>3, <4>2
        <5>2. QED
          BY <2>1, <4>2, <5>1
      <4>3. QED
        BY <4>1, <4>2
    <3>3. QED
      BY <3>1, <3>2
  <2>6. QED
    BY <2>4, <2>5
<1>3. n \in T
  <2> HIDE DEF T
  <2>1. Nat \subseteq T
    BY <1>1, <1>2, UpTo
  <2>2. QED
    BY <2>1
<1>4. QED
  BY <1>3 DEF Loops

-----------------------------------------------------------------------------
(* Numbers and bits *)

LEMMA Halves ==
    ASSUME NEW m \in Nat
    PROVE  2 * (m \div 2) + (m % 2) = m
OBVIOUS

LEMMA Doubles ==
    ASSUME NEW m, m \in Nat, NEW b, b \in {0, 1}, NEW n, n = 2 * m + b
    PROVE  n \in Nat /\ n \div 2 = m /\ n % 2 = b
<1>1. CASE b = 0
  BY <1>1
<1>2. CASE b = 1
  BY <1>2
<1>3. QED
  BY <1>1, <1>2

LEMMA ShiftSteps ==
    ASSUME NEW n \in Nat, NEW width \in Nat
    PROVE  /\ Shifted(n, width) \in [0..width -> Nat] /\ Shifted(n, width)[0] = n
           /\ \A k \in 1..width : Shifted(n, width)[k] = Shifted(n, width)[k - 1] \div 2
<1> DEFINE step == [k \in 1..width |-> [m \in Nat |-> m \div 2]]
           s == Shifted(n, width)
<1>1. step \in [1..width -> [Nat -> Nat]]
  OBVIOUS
<1>2. \A k \in 1..width, m \in Nat : step[k][m] = m \div 2
  OBVIOUS
<1> HIDE DEF step
<1>3. PICK f : Loops(f, width, Nat, n, step)
  BY <1>1, Recursion
<1>4. f \in [0..width -> Nat] /\ f[0] = n /\ \A k \in 1..width : f[k] = step[k][f[k - 1]]
  BY <1>3 DEF Loops
<1>5. ASSUME NEW k \in 1..width
      PROVE  f[k] = f[k - 1] \div 2
  <2>1. k - 1 \in 0..width
    OBVIOUS
  <2>2. f[k - 1] \in Nat
    BY <1>4, <2>1
  <2>3. QED
    BY <1>2, <1>4, <2>2
<1>6. f = [k \in 0..width |-> IF k = 0 THEN n ELSE f[k - 1] \div 2]
  <2>1. \A k \in 0..width : f[k] = IF k = 0 THEN n ELSE f[k - 1] \div 2
    BY <1>4, <1>5
  <2>2. QED
    BY <1>4, <2>1
<1>7. s = [k \in 0..width |-> IF k = 0 THEN n ELSE s[k - 1] \div 2]
  BY <1>6 DEF Shifted
<1> HIDE DEF s
<1>8. s[0] = n /\ \A k \in 1..width : s[k] = s[k - 1] \div 2
  BY <1>7
<1> DEFINE T == {k \in Nat : k <= width => s[k] \in Nat}
<1>9. 0 \in T
  BY <1>8
<1>10. ASSUME NEW k \in Nat, k \in T
      PROVE  k + 1 \in T
  <2>1. k + 1 <= width => s[k] \in Nat /\ s[k + 1] = s[k] \div 2
    BY <1>8, <1>10
  <2>2. QED
    BY <2>1
<1>11. \A k \in 0..width : s[k] \in Nat
  <2> HIDE DEF T
  <2>1. Nat \subseteq T
    BY <1>9, <1>10, UpTo
  <2>2. QED
    BY <2>1 DEF T
<1>12. s \in [0..width -> Nat]
  BY <1>7, <1>11
<1>13. QED
  BY <1>8, <1>12 DEF s

LEMMA NumberSteps ==
    ASSUME NEW bits \in Seq({0, 1})
    PROVE  /\ Numbers(bits) \in [0..Len(bits) -> Nat] /\ Numbers(bits)[0] = 0
           /\ \A i \in 1..Len(bits) : Numbers(bits)[i] = 2 * Numbers(bits)[i - 1] + bits[i]
<1> DEFINE n == Len(bits)
           step == [i \in 1..n |-> [m \in Nat |-> 2 * m + bits[i]]]
           v == Numbers(bits)
<1>1. n \in Nat /\ \A i \in 1..n : bits[i] \in Nat
  OBVIOUS
<1>2. step \in [1..n -> [Nat -> Nat]]
  BY <1>1
<1>3. \A i \in 1..n, m \in Nat : step[i][m] = 2 * m + bits[i]
  OBVIOUS
<1> HIDE DEF step
<1>4. PICK f : Loops(f, n, Nat, 0, step)
  BY <1>1, <1>2, Recursion
<1>5. f \in [0..n -> Nat] /\ f[0] = 0 /\ \A i \in 1..n : f[i] = step[i][f[i - 1]]
  BY <1>4 DEF Loops
<1>6. ASSUME NEW i \in 1..n
      PROVE  f[i] = 2 * f[i - 1] + bits[i]
  <2>1. i - 1 \in 0..n
    BY <1>1
  <2>2. f[i - 1] \in Nat
    BY <1>5, <2>1
  <2>3. QED
    BY <1>3, <1>5, <2>2
<1>7. f = [i \in 0..n |-> IF i = 0 THEN 0 ELSE 2 * f[i - 1] + bits[i]]
  <2>1. \A i \in 0..n : f[i] = IF i = 0 THEN 0 ELSE 2 * f[i - 1] + bits[i]
    BY <1>1, <1>5, <1>6
  <2>2. QED
    BY <1>5, <2>1
<1>8. v = [i \in 0..n |-> IF i = 0 THEN 0 ELSE 2 * v[i - 1] + bits[i]]
  BY <1>7 DEF Numbers
<1> HIDE DEF v
<1>9. v[0] = 0 /\ \A i \in 1..n : v[i] = 2 * v[i - 1] + bits[i]
  BY <1>1, <1>8
<1> DEFINE T == {i \in Nat : i <= n => v[i] \in Nat}
<1>10. 0 \in T
  BY <1>9
<1>11. ASSUME NEW i \in Nat, i \in T
       PROVE  i + 1 \in T
  <2>1. i + 1 <= n => i + 1 \in 1..n /\ v[i] \in Nat /\ v[i + 1] = 2 * v[i] + bits[i + 1]
    BY <1>1, <1>9, <1>11
  <2>2. QED
    BY <1>1, <2>1
<1>12. \A i \in 0..n : v[i] \in Nat
  <2> HIDE DEF T
  <2>1. Nat \subseteq T
    BY <1>10, <1>11, UpTo
  <2>2. QED
    BY <2>1 DEF T
<1>13. v \in [0..n -> Nat]
  BY <1>8, <1>12
<1>14. QED
  BY <1>9, <1>13 DEF v

\* A word is a sequence of bits.
LEMMA Words ==
    ASSUME NEW width \in Nat, NEW bits
    PROVE  bits \in Word(width) <=> bits \in Seq({0, 1}) /\ Len(bits) = width
<1>1. ASSUME bits \in Word(width)
      PROVE  bits \in Seq({0, 1}) /\ Len(bits) = width
  BY <1>1 DEF Word
<1>2. ASSUME bits \in Seq({0, 1}), Len(bits) = width
      PROVE  bits \in Word(width)
  BY <1>2 DEF Word
<1>3. QED
  BY <1>1, <1>2

\* n has at most that many bits.
Fits(n, width) == Shifted(n, width)[width] = 0

LEMMA BitsAreWords ==
    ASSUME NEW n \in Nat, NEW width \in Nat
    PROVE  /\ Bits(n, width) \in Word(width)
           /\ \A i \in 1..width : Bits(n, width)[i] = Shifted(n, width)[width - i] % 2
<1>1. \A i \in 1..width : Shifted(n, width)[width - i] \in Nat
  <2>1. \A i \in 1..width : width - i \in 0..width
    OBVIOUS
  <2>2. QED
    BY <2>1, ShiftSteps
<1>2. \A m \in Nat : m % 2 \in {0, 1}
  OBVIOUS
<1>3. QED
  BY <1>1, <1>2 DEF Bits, Word

\* Reading i bits of n gives n without the others.
LEMMA NumberOfBits ==
    ASSUME NEW n \in Nat, NEW width \in Nat, Fits(n, width)
    PROVE  Number(Bits(n, width)) = n
<1> DEFINE bits == Bits(n, width)
           s == Shifted(n, width)
           v == Numbers(bits)
           T == {i \in Nat : i <= width => v[i] = s[width - i]}
<1>1. bits \in Seq({0, 1}) /\ Len(bits) = width
  BY BitsAreWords, Words
<1>2. \A i \in 1..width : bits[i] = s[width - i] % 2
  BY BitsAreWords
<1>3. v[0] = 0 /\ \A i \in 1..width : v[i] = 2 * v[i - 1] + bits[i]
  BY <1>1, NumberSteps
<1>4. s \in [0..width -> Nat] /\ s[0] = n /\ \A k \in 1..width : s[k] = s[k - 1] \div 2
  BY ShiftSteps
<1>5. s[width] = 0
  BY DEF Fits
<1> HIDE DEF bits, s, v
<1>6. 0 \in T
  BY <1>3, <1>5
<1>7. ASSUME NEW i \in Nat, i \in T
      PROVE  i + 1 \in T
  <2> SUFFICES ASSUME i + 1 <= width
               PROVE  v[i + 1] = s[width - (i + 1)]
    OBVIOUS
  <2> DEFINE k == width - i
  <2>1. k \in 1..width /\ k - 1 \in 0..width /\ k - 1 = width - (i + 1) /\ i + 1 \in 1..width
    OBVIOUS
  <2>2. s[k] = s[k - 1] \div 2 /\ s[k - 1] \in Nat
    <3>1. \A j \in 0..width : s[j] \in Nat
      BY <1>4
    <3>2. QED
      BY <1>4, <2>1, <3>1
  <2>3. bits[i + 1] = s[k - 1] % 2
    BY <1>2, <2>1
  <2>4. v[i + 1] = 2 * v[i] + bits[i + 1]
    BY <1>3, <2>1
  <2>5. v[i] = s[k]
    BY <1>7, <2>1
  <2> HIDE DEF k
  <2>6. v[i + 1] = 2 * (s[k - 1] \div 2) + (s[k - 1] % 2)
    BY <2>2, <2>3, <2>4, <2>5
  <2>7. QED
    BY <2>1, <2>2, <2>6, Halves
<1>8. v[width] = s[0]
  <2> HIDE DEF T
  <2>1. width \in T
    BY <1>6, <1>7, UpTo
  <2>2. QED
    BY <2>1 DEF T
<1>9. QED
  BY <1>1, <1>4, <1>8 DEF Number, bits, v

\* And the bits of a number that has been read are the ones that were there.
LEMMA BitsOfNumber ==
    ASSUME NEW bits \in Seq({0, 1})
    PROVE  /\ Number(bits) \in Nat /\ Fits(Number(bits), Len(bits))
           /\ Bits(Number(bits), Len(bits)) = bits
<1> DEFINE width == Len(bits)
           n == Number(bits)
           s == Shifted(n, width)
           v == Numbers(bits)
           T == {k \in Nat : k <= width => s[k] = v[width - k]}
<1>1. width \in Nat
  OBVIOUS
<1>2. /\ v \in [0..width -> Nat] /\ v[0] = 0
      /\ \A i \in 1..width : v[i] = 2 * v[i - 1] + bits[i]
  BY NumberSteps
<1>3. n \in Nat /\ n = v[width]
  BY <1>1, <1>2 DEF Number
<1>4. s[0] = n /\ \A k \in 1..width : s[k] = s[k - 1] \div 2
  BY <1>1, <1>3, ShiftSteps
<1>5. \A i \in 1..width : bits[i] \in {0, 1}
  OBVIOUS
<1>6. Bits(n, width) \in Word(width)
      /\ \A i \in 1..width : Bits(n, width)[i] = s[width - i] % 2
  BY <1>1, <1>3, BitsAreWords
<1> HIDE DEF n, s, v, width
<1>7. \A i \in 1..width : v[i - 1] \in Nat /\ v[i] \div 2 = v[i - 1] /\ v[i] % 2 = bits[i]
  <2>1. ASSUME NEW i \in 1..width
        PROVE  v[i - 1] \in Nat /\ v[i] \div 2 = v[i - 1] /\ v[i] % 2 = bits[i]
    <3>1. i - 1 \in 0..width
      BY <1>1
    <3>2. v[i - 1] \in Nat
      BY <1>2, <3>1
    <3>3. v[i] = 2 * v[i - 1] + bits[i] /\ bits[i] \in {0, 1}
      BY <1>2, <1>5
    <3>4. QED
      BY <3>2, <3>3, Doubles
  <2>2. QED
    BY <2>1
<1>8. 0 \in T
  BY <1>1, <1>3, <1>4
<1>9. ASSUME NEW k \in Nat, k \in T
      PROVE  k + 1 \in T
  <2> SUFFICES ASSUME k + 1 <= width
               PROVE  s[k + 1] = v[width - (k + 1)]
    OBVIOUS
  <2>1. width - k \in 1..width /\ (width - k) - 1 = width - (k + 1) /\ k + 1 \in 1..width
    BY <1>1
  <2>2. s[k] = v[width - k]
    BY <1>1, <1>9
  <2>3. s[k + 1] = s[k] \div 2
    <3>1. (k + 1) - 1 = k
      OBVIOUS
    <3>2. QED
      BY <1>4, <2>1, <3>1
  <2>4. QED
    BY <1>7, <2>1, <2>2, <2>3
<1>10. \A k \in 0..width : s[k] = v[width - k]
  <2> HIDE DEF T
  <2>1. Nat \subseteq T
    BY <1>8, <1>9, UpTo
  <2>2. QED
    BY <1>1, <2>1 DEF T
<1>11. s[width] = 0
  BY <1>1, <1>2, <1>10
<1>12. ASSUME NEW i \in 1..width
       PROVE  Bits(n, width)[i] = bits[i]
  <2>1. width - i \in 0..width /\ width - (width - i) = i
    BY <1>1
  <2>2. s[width - i] = v[i]
    BY <1>10, <2>1
  <2>3. QED
    BY <1>6, <1>7, <2>2
<1>13. Bits(n, width) = bits
  <2>1. Bits(n, width) \in Seq({0, 1}) /\ Len(Bits(n, width)) = width
    BY <1>1, <1>6, Words
  <2>2. QED
    BY <1>12, <2>1 DEF width
<1>14. QED
  BY <1>3, <1>11, <1>13 DEF Fits, n, s, width

\* How much a number is shifted by one, two and four bits.
LEMMA ShiftsBy1 ==
    ASSUME NEW n \in Nat, NEW width \in Nat, NEW k \in 0..width, NEW j \in 0..width, j = k + 1,
           NEW s, s = Shifted(n, width)
    PROVE  s[k] \in Nat /\ s[j] \in Nat /\ 2 * s[j] <= s[k] /\ s[k] < 2 * s[j] + 2
<1>1. \A i \in 0..width : s[i] \in Nat
  BY ShiftSteps
<1>2. \A i \in 1..width : s[i] = s[i - 1] \div 2
  BY ShiftSteps
<1>3. s[j] = s[k] \div 2
  <2>1. j \in 1..width /\ j - 1 = k
    OBVIOUS
  <2>2. QED
    BY <1>2, <2>1
<1>4. QED
  BY <1>1, <1>3

LEMMA ShiftsBy2 ==
    ASSUME NEW n \in Nat, NEW width \in Nat, NEW k \in 0..width, NEW j \in 0..width, j = k + 2,
           NEW s, s = Shifted(n, width)
    PROVE  s[k] \in Nat /\ s[j] \in Nat /\ 4 * s[j] <= s[k] /\ s[k] < 4 * s[j] + 4
<1>1. PICK i \in 0..width : i = k + 1 /\ j = i + 1
  OBVIOUS
<1>2. s[k] \in Nat /\ s[i] \in Nat /\ 2 * s[i] <= s[k] /\ s[k] < 2 * s[i] + 2
  BY <1>1, ShiftsBy1
<1>3. s[i] \in Nat /\ s[j] \in Nat /\ 2 * s[j] <= s[i] /\ s[i] < 2 * s[j] + 2
  BY <1>1, ShiftsBy1
<1>4. QED
  BY <1>2, <1>3

LEMMA ShiftsBy4 ==
    ASSUME NEW n \in Nat, NEW width \in Nat, NEW k \in 0..width, NEW j \in 0..width, j = k + 4,
           NEW s, s = Shifted(n, width)
    PROVE  s[k] \in Nat /\ s[j] \in Nat /\ 16 * s[j] <= s[k] /\ s[k] < 16 * s[j] + 16
<1>1. PICK i \in 0..width : i = k + 2 /\ j = i + 2
  OBVIOUS
<1>2. s[k] \in Nat /\ s[i] \in Nat /\ 4 * s[i] <= s[k] /\ s[k] < 4 * s[i] + 4
  BY <1>1, ShiftsBy2
<1>3. s[i] \in Nat /\ s[j] \in Nat /\ 4 * s[j] <= s[i] /\ s[i] < 4 * s[j] + 4
  BY <1>1, ShiftsBy2
<1>4. QED
  BY <1>2, <1>3

\* The widths of the fields that hold numbers.
LEMMA Widths ==
    ASSUME NEW n \in Nat
    PROVE  /\ Fits(n, 4) <=> n < 16
           /\ Fits(n, 8) <=> n < 256
           /\ Fits(n, 10) <=> n < 1024
           /\ Fits(n, 16) <=> n < 65536
<1>1. \A w \in Nat : Shifted(n, w)[0] = n
  BY ShiftSteps
<1>2. Fits(n, 4) <=> n < 16
  <2>1. PICK s : s = Shifted(n, 4)
    OBVIOUS
  <2>2. s[0] = n
    BY <1>1, <2>1
  <2>3. s[4] \in Nat /\ 16 * s[4] <= n /\ n < 16 * s[4] + 16
    BY <2>1, <2>2, ShiftsBy4
  <2>4. QED
    BY <2>1, <2>2, <2>3 DEF Fits
<1>3. Fits(n, 8) <=> n < 256
  <2>1. PICK s : s = Shifted(n, 8)
    OBVIOUS
  <2>2. s[0] = n
    BY <1>1, <2>1
  <2>3. s[4] \in Nat /\ 16 * s[4] <= n /\ n < 16 * s[4] + 16
    BY <2>1, <2>2, ShiftsBy4
  <2>4. s[8] \in Nat /\ 16 * s[8] <= s[4] /\ s[4] < 16 * s[8] + 16
    <3>1. PICK k \in 0..8, j \in 0..8 : k = 4 /\ j = 8 /\ j = k + 4
      OBVIOUS
    <3>2. j = k + 4
      BY <3>1
    <3>3. s[k] \in Nat /\ s[j] \in Nat /\ 16 * s[j] <= s[k] /\ s[k] < 16 * s[j] + 16
      BY <2>1, <3>2, ShiftsBy4
    <3>4. QED
      BY <3>1, <3>3
  <2>5. s[8] \in Nat /\ 256 * s[8] <= n /\ n < 256 * s[8] + 256
    BY <2>3, <2>4
  <2>6. QED
    BY <2>1, <2>5 DEF Fits
<1>4. Fits(n, 10) <=> n < 1024
  <2>1. PICK s : s = Shifted(n, 10)
    OBVIOUS
  <2>2. s[0] = n
    BY <1>1, <2>1
  <2>3. s[4] \in Nat /\ 16 * s[4] <= n /\ n < 16 * s[4] + 16
    BY <2>1, <2>2, ShiftsBy4
  <2>4. s[8] \in Nat /\ 16 * s[8] <= s[4] /\ s[4] < 16 * s[8] + 16
    <3>1. PICK k \in 0..10, j \in 0..10 : k = 4 /\ j = 8 /\ j = k + 4
      OBVIOUS
    <3>2. j = k + 4
      BY <3>1
    <3>3. s[k] \in Nat /\ s[j] \in Nat /\ 16 * s[j] <= s[k] /\ s[k] < 16 * s[j] + 16
      BY <2>1, <3>2, ShiftsBy4
    <3>4. QED
      BY <3>1, <3>3
  <2>5. s[8] \in Nat /\ 256 * s[8] <= n /\ n < 256 * s[8] + 256
    BY <2>3, <2>4
  <2>6. s[10] \in Nat /\ 4 * s[10] <= s[8] /\ s[8] < 4 * s[10] + 4
    BY <2>1, ShiftsBy2
  <2>7. s[10] \in Nat /\ 1024 * s[10] <= n /\ n < 1024 * s[10] + 1024
    BY <2>5, <2>6
  <2>8. QED
    BY <2>1, <2>7 DEF Fits
<1>5. Fits(n, 16) <=> n < 65536
  <2>1. PICK s : s = Shifted(n, 16)
    OBVIOUS
  <2>2. s[0] = n
    BY <1>1, <2>1
  <2>3. s[4] \in Nat /\ 16 * s[4] <= n /\ n < 16 * s[4] + 16
    BY <2>1, <2>2, ShiftsBy4
  <2>4. s[8] \in Nat /\ 16 * s[8] <= s[4] /\ s[4] < 16 * s[8] + 16
    <3>1. PICK k \in 0..16, j \in 0..16 : k = 4 /\ j = 8 /\ j = k + 4
      OBVIOUS
    <3>2. j = k + 4
      BY <3>1
    <3>3. s[k] \in Nat /\ s[j] \in Nat /\ 16 * s[j] <= s[k] /\ s[k] < 16 * s[j] + 16
      BY <2>1, <3>2, ShiftsBy4
    <3>4. QED
      BY <3>1, <3>3
  <2>5. s[8] \in Nat /\ 256 * s[8] <= n /\ n < 256 * s[8] + 256
    BY <2>3, <2>4
  <2>6. s[12] \in Nat /\ 16 * s[12] <= s[8] /\ s[8] < 16 * s[12] + 16
    <3>1. PICK k \in 0..16, j \in 0..16 : k = 8 /\ j = 12 /\ j = k + 4
      OBVIOUS
    <3>2. j = k + 4
      BY <3>1
    <3>3. s[k] \in Nat /\ s[j] \in Nat /\ 16 * s[j] <= s[k] /\ s[k] < 16 * s[j] + 16
      BY <2>1, <3>2, ShiftsBy4
    <3>4. QED
      BY <3>1, <3>3
  <2>7. s[12] \in Nat /\ 4096 * s[12] <= n /\ n < 4096 * s[12] + 4096
    BY <2>5, <2>6
  <2>8. s[16] \in Nat /\ 16 * s[16] <= s[12] /\ s[12] < 16 * s[16] + 16
    <3>1. PICK k \in 0..16, j \in 0..16 : k = 12 /\ j = 16 /\ j = k + 4
      OBVIOUS
    <3>2. j = k + 4
      BY <3>1
    <3>3. s[k] \in Nat /\ s[j] \in Nat /\ 16 * s[j] <= s[k] /\ s[k] < 16 * s[j] + 16
      BY <2>1, <3>2, ShiftsBy4
    <3>4. QED
      BY <3>1, <3>3
  <2>9. s[16] \in Nat /\ 65536 * s[16] <= n /\ n < 65536 * s[16] + 65536
    BY <2>7, <2>8
  <2>10. QED
    BY <2>1, <2>9 DEF Fits
<1>6. QED
  BY <1>2, <1>3, <1>4, <1>5

-----------------------------------------------------------------------------
(* Words in a sequence of bits *)

Bit == {0, 1}
Slice(bits, from, width) == SubSeq(bits, from + 1, from + width)

\* The bits start with those.
Begins(bits, word) == Len(word) <= Len(bits) /\ \A i \in 1..Len(word) : bits[i] = word[i]

LEMMA Slices ==
    ASSUME NEW S, NEW bits \in Seq(S), NEW from \in Nat, NEW width \in Nat,
           from + width <= Len(bits)
    PROVE  /\ Slice(bits, from, width) \in Seq(S) /\ Len(Slice(bits, from, width)) = width
           /\ \A i \in 1..width : Slice(bits, from, width)[i] = bits[from + i]
<1>1. \A i \in (from + 1)..(from + width) : bits[i] \in S
  OBVIOUS
<1>2. /\ Slice(bits, from, width) \in Seq(S)
      /\ Len(Slice(bits, from, width)) =
             IF from + 1 <= from + width THEN from + width - (from + 1) + 1 ELSE 0
      /\ \A i \in 1..(from + width - (from + 1) + 1) :
             Slice(bits, from, width)[i] = bits[from + 1 + i - 1]
  BY <1>1, SubSeqProperties DEF Slice
<1>3. QED
  BY <1>2

LEMMA SameWords ==
    ASSUME NEW S, NEW a \in Seq(S), NEW b \in Seq(S), Len(a) = Len(b),
           \A i \in 1..Len(a) : a[i] = b[i]
    PROVE  a = b
OBVIOUS

LEMMA SliceOfSlice ==
    ASSUME NEW S, NEW bits \in Seq(S), NEW from \in Nat, NEW width \in Nat,
           from + width <= Len(bits),
           NEW inner \in Nat, NEW part \in Nat, inner + part <= width,
           NEW start, start = from + inner
    PROVE  Slice(Slice(bits, from, width), inner, part) = Slice(bits, start, part)
<1> DEFINE s == Slice(bits, from, width)
<1>1. s \in Seq(S) /\ Len(s) = width /\ \A i \in 1..width : s[i] = bits[from + i]
  BY Slices
<1> HIDE DEF s
<1>2. /\ Slice(s, inner, part) \in Seq(S) /\ Len(Slice(s, inner, part)) = part
      /\ \A i \in 1..part : Slice(s, inner, part)[i] = s[inner + i]
  <2>1. s \in Seq(S) /\ inner + part <= Len(s)
    BY <1>1
  <2>2. QED
    BY <2>1, Slices
<1>3. PICK at \in Nat : at = start /\ at + part <= Len(bits)
  <2>1. start \in Nat /\ start + part <= Len(bits)
    OBVIOUS
  <2>2. QED
    BY <2>1
<1>4. /\ Slice(bits, start, part) \in Seq(S) /\ Len(Slice(bits, start, part)) = part
      /\ \A i \in 1..part : Slice(bits, start, part)[i] = bits[start + i]
  <2>1. at + part <= Len(bits)
    BY <1>3
  <2>2. /\ Slice(bits, at, part) \in Seq(S) /\ Len(Slice(bits, at, part)) = part
        /\ \A i \in 1..part : Slice(bits, at, part)[i] = bits[at + i]
    BY <2>1, Slices
  <2>3. QED
    BY <1>3, <2>2
<1>5. ASSUME NEW i \in 1..part
      PROVE  Slice(s, inner, part)[i] = Slice(bits, start, part)[i]
  <2>1. inner + i \in 1..width /\ from + (inner + i) = start + i
    OBVIOUS
  <2>2. QED
    BY <1>1, <1>2, <1>4, <2>1
<1>6. QED
  BY <1>2, <1>4, <1>5, SameWords DEF s

\* What follows the first bits.
LEMMA Rests ==
    ASSUME NEW S, NEW bits \in Seq(S), NEW from \in Nat, from <= Len(bits)
    PROVE  SubSeq(bits, from + 1, Len(bits)) = Slice(bits, from, Len(bits) - from)
<1>1. PICK end : end = from + (Len(bits) - from)
  OBVIOUS
<1>2. end = Len(bits)
  BY <1>1
<1>3. Slice(bits, from, Len(bits) - from) = SubSeq(bits, from + 1, end)
  BY <1>1, Zenon DEF Slice
<1>4. QED
  BY <1>2, <1>3, Zenon

\* A word written behind others is read where they end.
LEMMA Peel ==
    ASSUME NEW n \in Nat, NEW a \in Word(n), NEW w \in Nat, NEW b \in Word(w),
           NEW m, m = n + w
    PROVE  /\ a \o b \in Word(m)
           /\ \A bits \in Seq(Bit) :
                  Begins(bits, a \o b) => Begins(bits, a) /\ Slice(bits, n, w) = b
<1>1. a \in Seq(Bit) /\ Len(a) = n /\ b \in Seq(Bit) /\ Len(b) = w
  BY Words DEF Bit
<1> DEFINE ab == a \o b
<1>2. /\ ab \in Seq(Bit) /\ Len(ab) = m
      /\ \A i \in 1..m : ab[i] = IF i <= n THEN a[i] ELSE b[i - n]
  BY <1>1, ConcatProperties
<1> HIDE DEF ab
<1>3. ab \in Word(m)
  <2>1. m \in Nat
    OBVIOUS
  <2>2. QED
    BY <1>2, <2>1, Words DEF Bit
<1>4. ASSUME NEW bits \in Seq(Bit), Begins(bits, ab)
      PROVE  Begins(bits, a) /\ Slice(bits, n, w) = b
  <2>1. m <= Len(bits) /\ \A i \in 1..m : bits[i] = ab[i]
    BY <1>2, <1>4 DEF Begins
  <2>2. ASSUME NEW i \in 1..n
        PROVE  bits[i] = a[i]
    <3>1. i \in 1..m /\ i <= n
      OBVIOUS
    <3>2. QED
      BY <1>2, <2>1, <3>1
  <2>3. ASSUME NEW i \in 1..w
        PROVE  bits[n + i] = b[i]
    <3>1. n + i \in 1..m /\ ~(n + i <= n) /\ (n + i) - n = i
      OBVIOUS
    <3>2. QED
      BY <1>2, <2>1, <3>1
  <2>4. /\ Slice(bits, n, w) \in Seq(Bit) /\ Len(Slice(bits, n, w)) = w
        /\ \A i \in 1..w : Slice(bits, n, w)[i] = bits[n + i]
    BY <2>1, Slices, SMTT(40)
  <2>5. Slice(bits, n, w) = b
    BY <1>1, <2>3, <2>4, SameWords
  <2>6. QED
    BY <1>1, <2>1, <2>2, <2>5 DEF Begins
<1>5. QED
  BY <1>3, <1>4 DEF ab

-----------------------------------------------------------------------------
(* Layouts *)

LEMMA StartSteps ==
    ASSUME NEW layout, Len(layout) \in Nat,
           \A i \in 1..Len(layout) : layout[i][2] \in Nat
    PROVE  /\ Starts(layout) \in [0..Len(layout) -> Nat] /\ Starts(layout)[0] = 0
           /\ \A i \in 1..Len(layout) : Starts(layout)[i] = Starts(layout)[i - 1] + layout[i][2]
<1> DEFINE n == Len(layout)
           width == [i \in 1..n |-> layout[i][2]]
           step == [i \in 1..n |-> [m \in Nat |-> m + width[i]]]
           v == Starts(layout)
<1>1. width \in [1..n -> Nat] /\ \A i \in 1..n : width[i] = layout[i][2]
  OBVIOUS
<1> HIDE DEF width
<1>2. step \in [1..n -> [Nat -> Nat]]
  <2>1. \A i \in 1..n : width[i] \in Nat
    BY <1>1
  <2>2. QED
    BY <2>1
<1>3. \A i \in 1..n, m \in Nat : step[i][m] = m + width[i]
  OBVIOUS
<1> HIDE DEF step
<1>4. PICK f : Loops(f, n, Nat, 0, step)
  BY <1>2, Recursion
<1>5. f \in [0..n -> Nat] /\ f[0] = 0 /\ \A i \in 1..n : f[i] = step[i][f[i - 1]]
  BY <1>4 DEF Loops
<1>6. ASSUME NEW i \in 1..n
      PROVE  f[i] = f[i - 1] + width[i]
  <2>1. i - 1 \in 0..n
    OBVIOUS
  <2>2. f[i - 1] \in Nat
    BY <1>5, <2>1
  <2>3. QED
    BY <1>3, <1>5, <2>2
<1>7. f = [i \in 0..n |-> IF i = 0 THEN 0 ELSE f[i - 1] + layout[i][2]]
  <2>1. \A i \in 0..n : f[i] = IF i = 0 THEN 0 ELSE f[i - 1] + layout[i][2]
    BY <1>1, <1>5, <1>6
  <2>2. QED
    BY <1>5, <2>1
<1>8. v = [i \in 0..n |-> IF i = 0 THEN 0 ELSE v[i - 1] + layout[i][2]]
  BY <1>7 DEF Starts
<1> HIDE DEF v
<1>9. v[0] = 0 /\ \A i \in 1..n : v[i] = v[i - 1] + layout[i][2]
  BY <1>8
<1> DEFINE T == {i \in Nat : i <= n => v[i] \in Nat}
<1>10. 0 \in T
  BY <1>9
<1>11. ASSUME NEW i \in Nat, i \in T
       PROVE  i + 1 \in T
  <2> SUFFICES ASSUME i + 1 <= n
               PROVE  v[i + 1] \in Nat
    OBVIOUS
  <2>1. i + 1 \in 1..n /\ v[i] \in Nat /\ (i + 1) - 1 = i
    BY <1>11
  <2>2. width[i + 1] \in Nat /\ v[i + 1] = v[i] + width[i + 1]
    BY <1>1, <1>9, <2>1
  <2>3. QED
    BY <2>1, <2>2
<1>12. \A i \in 0..n : v[i] \in Nat
  <2> HIDE DEF T
  <2>1. Nat \subseteq T
    BY <1>10, <1>11, UpTo
  <2>2. QED
    BY <2>1 DEF T
<1>13. v \in [0..n -> Nat]
  BY <1>8, <1>12
<1>14. QED
  BY <1>9, <1>13 DEF v

\* A layout of that many fields.
Lists(layout, n) ==
    /\ Len(layout) = n /\ DOMAIN layout = 1..n
    /\ \A i \in 1..n : layout[i][2] \in Nat
    /\ \A i, j \in 1..n : layout[i][1] = layout[j][1] => i = j

LEMMA StartOf ==
    ASSUME NEW layout, NEW n \in Nat, Lists(layout, n), NEW i, i \in 1..n, NEW k \in Nat, i = k + 1,
           NEW start, Starts(layout)[k] = start,
           NEW name, NEW width, layout[i] = <<name, width>>
    PROVE  /\ Starts(layout)[i] = start + width
           /\ name \in DOMAIN Read(layout, <<>>)
           /\ \A bits : Read(layout, bits)[name] = Slice(bits, start, width)
<1>1. /\ Len(layout) = n /\ DOMAIN layout = 1..n
      /\ \A j \in 1..n : layout[j][2] \in Nat
      /\ \A j \in 1..n : layout[j][1] = layout[i][1] => j = i
  BY DEF Lists
<1>2. layout[i][1] = name /\ layout[i][2] = width /\ i - 1 = k
  OBVIOUS
<1>3. Starts(layout)[i] = Starts(layout)[i - 1] + layout[i][2]
  <2>1. Len(layout) \in Nat /\ i \in 1..Len(layout) /\ \A j \in 1..Len(layout) : layout[j][2] \in Nat
    BY <1>1
  <2> HIDE <1>1
  <2>2. QED
    BY <2>1, StartSteps
<1>4. Starts(layout)[i] = start + width
  BY <1>2, <1>3
<1> DEFINE index(x) == CHOOSE j \in DOMAIN layout : layout[j][1] = x
           names == {layout[j][1] : j \in DOMAIN layout}
<1>5. name \in names /\ index(name) = i
  BY <1>1, <1>2
<1>6. \A bits : Read(layout, bits) = [x \in names |->
          SubSeq(bits, Starts(layout)[index(x) - 1] + 1, Starts(layout)[index(x)])]
  BY DEF Read
<1> HIDE DEF index, names
<1>7. /\ name \in DOMAIN Read(layout, <<>>)
      /\ \A bits : Read(layout, bits)[name] =
             SubSeq(bits, Starts(layout)[index(name) - 1] + 1, Starts(layout)[index(name)])
  BY <1>5, <1>6
<1>8. QED
  BY <1>2, <1>4, <1>5, <1>7 DEF Slice

LEMMA NamesRead ==
    ASSUME NEW layout, NEW n \in Nat, Lists(layout, n), NEW bits
    PROVE  Read(layout, bits) = [x \in {layout[j][1] : j \in 1..n} |-> Read(layout, bits)[x]]
<1> DEFINE names == {layout[j][1] : j \in 1..n}
           index(x) == CHOOSE j \in DOMAIN layout : layout[j][1] = x
           at(x) == SubSeq(bits, Starts(layout)[index(x) - 1] + 1, Starts(layout)[index(x)])
           r == Read(layout, bits)
<1>1. DOMAIN layout = 1..n
  BY DEF Lists
<1>2. r = [x \in names |-> at(x)]
  BY <1>1 DEF Read
<1> HIDE DEF names, at, r
<1>3. r = [x \in names |-> r[x]]
  BY <1>2
<1>4. QED
  BY <1>3 DEF r, names

LEMMA StartsAt0 ==
    ASSUME NEW layout, NEW n \in Nat, Lists(layout, n)
    PROVE  Starts(layout)[0] = 0 /\ Size(layout) = Starts(layout)[n]
<1>1. Len(layout) = n /\ \A i \in 1..Len(layout) : layout[i][2] \in Nat
  BY DEF Lists
<1>2. Starts(layout)[0] = 0
  BY <1>1, StartSteps
<1>3. QED
  BY <1>1, <1>2 DEF Size

LEMMA CommonRead ==
    /\ Size(CommonLayout) = 12
    /\ \A bits : Read(CommonLayout, bits) =
                  [subtype |-> Slice(bits, 0, 8), header_specific_bit |-> Slice(bits, 8, 1),
                   version |-> Slice(bits, 9, 3)]
<1> DEFINE L == CommonLayout
           s == Starts(L)
<1>1. /\ Len(L) = 3 /\ DOMAIN L = 1..3
      /\ L[1] = <<"subtype", 8>> /\ L[2] = <<"header_specific_bit", 1>>
      /\ L[3] = <<"version", 3>>
  BY DEF CommonLayout
<1>2. Lists(L, 3)
  BY <1>1 DEF Lists
<1> HIDE DEF L, s
<1>3. s[0] = 0 /\ Size(L) = s[3]
  BY <1>2, StartsAt0 DEF s
<1>4. s[1] = 8 /\ \A bits : Read(L, bits)["subtype"] = Slice(bits, 0, 8)
  <2>1. s[1] = 0 + 8 /\ \A bits : Read(L, bits)["subtype"] = Slice(bits, 0, 8)
    BY <1>1, <1>2, <1>3, StartOf DEF s
  <2>2. QED
    BY <2>1
<1>5. s[2] = 9 /\ \A bits : Read(L, bits)["header_specific_bit"] = Slice(bits, 8, 1)
  <2>1. s[2] = 8 + 1 /\ \A bits : Read(L, bits)["header_specific_bit"] = Slice(bits, 8, 1)
    BY <1>1, <1>2, <1>4, StartOf DEF s
  <2>2. QED
    BY <2>1
<1>6. s[3] = 12 /\ \A bits : Read(L, bits)["version"] = Slice(bits, 9, 3)
  <2>1. s[3] = 9 + 3 /\ \A bits : Read(L, bits)["version"] = Slice(bits, 9, 3)
    BY <1>1, <1>2, <1>5, StartOf DEF s
  <2>2. QED
    BY <2>1
<1>7. {L[j][1] : j \in 1..3} = {"subtype", "header_specific_bit", "version"}
  BY <1>1
<1>8. ASSUME NEW bits
      PROVE  Read(L, bits) =
                 [subtype |-> Slice(bits, 0, 8), header_specific_bit |-> Slice(bits, 8, 1),
                  version |-> Slice(bits, 9, 3)]
  <2> DEFINE r == Read(L, bits)
  <2>1. r = [x \in {"subtype", "header_specific_bit", "version"} |-> r[x]]
    BY <1>2, <1>7, NamesRead
  <2>2. /\ r["subtype"] = Slice(bits, 0, 8) /\ r["header_specific_bit"] = Slice(bits, 8, 1)
        /\ r["version"] = Slice(bits, 9, 3)
    BY <1>4, <1>5, <1>6
  <2> HIDE DEF r
  <2>3. r = [subtype |-> Slice(bits, 0, 8), header_specific_bit |-> Slice(bits, 8, 1),
             version |-> Slice(bits, 9, 3)]
    BY <2>1, <2>2
  <2>4. QED
    BY <2>3 DEF r
<1>9. QED
  BY <1>3, <1>6, <1>8 DEF L

\* The fields of a header that stands at the start of those bits, without its length.
StreamFieldsIn(bits) ==
    [media_clock_restart |-> Slice(bits, 0, 1), format_specific_data |-> Slice(bits, 1, 2),
     avtp_timestamp_valid |-> Slice(bits, 3, 1), sequence_num |-> Slice(bits, 4, 8),
     format_specific_data_1 |-> Slice(bits, 12, 7), timestamp_uncertain |-> Slice(bits, 19, 1),
     mac_address |-> Slice(bits, 20, 48), unique_id |-> Slice(bits, 68, 16),
     avtp_timestamp |-> Slice(bits, 84, 32), format_specific_data_2 |-> Slice(bits, 116, 32),
     format_specific_data_3 |-> Slice(bits, 164, 16)]
ControlFieldsIn(bits) ==
    [format_specific_data |-> Slice(bits, 0, 9), control_data_length |-> Slice(bits, 9, 11),
     mac_address |-> Slice(bits, 20, 48), unique_id |-> Slice(bits, 68, 16)]

LEMMA StreamRead ==
    /\ Size(StreamLayout) = 180
    /\ \A bits : LET read == Read(StreamLayout, bits)
                IN  /\ read["stream_data_length"] = Slice(bits, 148, 16)
                    /\ [name \in DOMAIN read \ {"stream_data_length"} |-> read[name]] = StreamFieldsIn(bits)
<1> DEFINE L == StreamLayout
           s == Starts(L)
           names == {"media_clock_restart", "format_specific_data", "avtp_timestamp_valid",
                     "sequence_num", "format_specific_data_1", "timestamp_uncertain",
                     "mac_address", "unique_id", "avtp_timestamp", "format_specific_data_2",
                     "stream_data_length", "format_specific_data_3"}
<1>1. /\ Len(L) = 12 /\ DOMAIN L = 1..12
      /\ L[1] = <<"media_clock_restart", 1>>
      /\ L[2] = <<"format_specific_data", 2>>
      /\ L[3] = <<"avtp_timestamp_valid", 1>>
      /\ L[4] = <<"sequence_num", 8>>
      /\ L[5] = <<"format_specific_data_1", 7>>
      /\ L[6] = <<"timestamp_uncertain", 1>>
      /\ L[7] = <<"mac_address", 48>>
      /\ L[8] = <<"unique_id", 16>>
      /\ L[9] = <<"avtp_timestamp", 32>>
      /\ L[10] = <<"format_specific_data_2", 32>>
      /\ L[11] = <<"stream_data_length", 16>>
      /\ L[12] = <<"format_specific_data_3", 16>>
  BY DEF StreamLayout
<1> HIDE DEF L
<1>2. Lists(L, 12)
  <2>1. \A i \in 1..12 : L[i][2] \in Nat
    BY <1>1
  <2>2. \A i, j \in 1..12 : L[i][1] = L[j][1] => i = j
    BY <1>1
  <2>3. QED
    BY <1>1, <2>1, <2>2 DEF Lists
<1> HIDE DEF s
<1>3. s[0] = 0 /\ Size(L) = s[12]
  BY <1>2, StartsAt0 DEF s
<1>4. s[1] = 1 /\ \A bits : Read(L, bits)["media_clock_restart"] = Slice(bits, 0, 1)
  <2>1. L[1] = <<"media_clock_restart", 1>>
    BY <1>1
  <2>2. s[1] = 0 + 1 /\ \A bits : Read(L, bits)["media_clock_restart"] = Slice(bits, 0, 1)
    BY <1>2, <1>3, <2>1, StartOf DEF s
  <2>3. QED
    BY <2>2
<1>5. s[2] = 3 /\ \A bits : Read(L, bits)["format_specific_data"] = Slice(bits, 1, 2)
  <2>1. L[2] = <<"format_specific_data", 2>>
    BY <1>1
  <2>2. s[2] = 1 + 2 /\ \A bits : Read(L, bits)["format_specific_data"] = Slice(bits, 1, 2)
    BY <1>2, <1>4, <2>1, StartOf DEF s
  <2>3. QED
    BY <2>2
<1>6. s[3] = 4 /\ \A bits : Read(L, bits)["avtp_timestamp_valid"] = Slice(bits, 3, 1)
  <2>1. L[3] = <<"avtp_timestamp_valid", 1>>
    BY <1>1
  <2>2. s[3] = 3 + 1 /\ \A bits : Read(L, bits)["avtp_timestamp_valid"] = Slice(bits, 3, 1)
    BY <1>2, <1>5, <2>1, StartOf DEF s
  <2>3. QED
    BY <2>2
<1>7. s[4] = 12 /\ \A bits : Read(L, bits)["sequence_num"] = Slice(bits, 4, 8)
  <2>1. L[4] = <<"sequence_num", 8>>
    BY <1>1
  <2>2. s[4] = 4 + 8 /\ \A bits : Read(L, bits)["sequence_num"] = Slice(bits, 4, 8)
    BY <1>2, <1>6, <2>1, StartOf DEF s
  <2>3. QED
    BY <2>2
<1>8. s[5] = 19 /\ \A bits : Read(L, bits)["format_specific_data_1"] = Slice(bits, 12, 7)
  <2>1. L[5] = <<"format_specific_data_1", 7>>
    BY <1>1
  <2>2. s[5] = 12 + 7 /\ \A bits : Read(L, bits)["format_specific_data_1"] = Slice(bits, 12, 7)
    BY <1>2, <1>7, <2>1, StartOf DEF s
  <2>3. QED
    BY <2>2
<1>9. s[6] = 20 /\ \A bits : Read(L, bits)["timestamp_uncertain"] = Slice(bits, 19, 1)
  <2>1. L[6] = <<"timestamp_uncertain", 1>>
    BY <1>1
  <2>2. s[6] = 19 + 1 /\ \A bits : Read(L, bits)["timestamp_uncertain"] = Slice(bits, 19, 1)
    BY <1>2, <1>8, <2>1, StartOf DEF s
  <2>3. QED
    BY <2>2
<1>10. s[7] = 68 /\ \A bits : Read(L, bits)["mac_address"] = Slice(bits, 20, 48)
  <2>1. L[7] = <<"mac_address", 48>>
    BY <1>1
  <2>2. s[7] = 20 + 48 /\ \A bits : Read(L, bits)["mac_address"] = Slice(bits, 20, 48)
    BY <1>2, <1>9, <2>1, StartOf DEF s
  <2>3. QED
    BY <2>2
<1>11. s[8] = 84 /\ \A bits : Read(L, bits)["unique_id"] = Slice(bits, 68, 16)
  <2>1. L[8] = <<"unique_id", 16>>
    BY <1>1
  <2>2. s[8] = 68 + 16 /\ \A bits : Read(L, bits)["unique_id"] = Slice(bits, 68, 16)
    BY <1>2, <1>10, <2>1, StartOf DEF s
  <2>3. QED
    BY <2>2
<1>12. s[9] = 116 /\ \A bits : Read(L, bits)["avtp_timestamp"] = Slice(bits, 84, 32)
  <2>1. L[9] = <<"avtp_timestamp", 32>>
    BY <1>1
  <2>2. s[9] = 84 + 32 /\ \A bits : Read(L, bits)["avtp_timestamp"] = Slice(bits, 84, 32)
    BY <1>2, <1>11, <2>1, StartOf DEF s
  <2>3. QED
    BY <2>2
<1>13. s[10] = 148 /\ \A bits : Read(L, bits)["format_specific_data_2"] = Slice(bits, 116, 32)
  <2>1. L[10] = <<"format_specific_data_2", 32>>
    BY <1>1
  <2>2. s[10] = 116 + 32 /\ \A bits : Read(L, bits)["format_specific_data_2"] = Slice(bits, 116, 32)
    BY <1>2, <1>12, <2>1, StartOf DEF s
  <2>3. QED
    BY <2>2
<1>14. s[11] = 164 /\ \A bits : Read(L, bits)["stream_data_length"] = Slice(bits, 148, 16)
  <2>1. L[11] = <<"stream_data_length", 16>>
    BY <1>1
  <2>2. s[11] = 148 + 16 /\ \A bits : Read(L, bits)["stream_data_length"] = Slice(bits, 148, 16)
    BY <1>2, <1>13, <2>1, StartOf DEF s
  <2>3. QED
    BY <2>2
<1>15. s[12] = 180 /\ \A bits : Read(L, bits)["format_specific_data_3"] = Slice(bits, 164, 16)
  <2>1. L[12] = <<"format_specific_data_3", 16>>
    BY <1>1
  <2>2. s[12] = 164 + 16 /\ \A bits : Read(L, bits)["format_specific_data_3"] = Slice(bits, 164, 16)
    BY <1>2, <1>14, <2>1, StartOf DEF s
  <2>3. QED
    BY <2>2
<1>16. {L[j][1] : j \in 1..12} = names
  BY <1>1
<1>17. ASSUME NEW bits
      PROVE  LET read == Read(L, bits)
             IN  /\ read["stream_data_length"] = Slice(bits, 148, 16)
                 /\ [name \in DOMAIN read \ {"stream_data_length"} |-> read[name]] = StreamFieldsIn(bits)
  <2> DEFINE r == Read(L, bits)
             kept == [name \in names \ {"stream_data_length"} |-> r[name]]
  <2>1. r = [x \in names |-> r[x]]
    <3> HIDE DEF names
    <3>1. QED
      BY <1>2, <1>16, NamesRead
  <2>2. DOMAIN r = names
    <3> HIDE DEF r, names
    <3>1. QED
      BY <2>1
  <2>3. /\ r["media_clock_restart"] = Slice(bits, 0, 1)
        /\ r["format_specific_data"] = Slice(bits, 1, 2)
        /\ r["avtp_timestamp_valid"] = Slice(bits, 3, 1)
        /\ r["sequence_num"] = Slice(bits, 4, 8)
        /\ r["format_specific_data_1"] = Slice(bits, 12, 7)
        /\ r["timestamp_uncertain"] = Slice(bits, 19, 1)
        /\ r["mac_address"] = Slice(bits, 20, 48)
        /\ r["unique_id"] = Slice(bits, 68, 16)
        /\ r["avtp_timestamp"] = Slice(bits, 84, 32)
        /\ r["format_specific_data_2"] = Slice(bits, 116, 32)
        /\ r["stream_data_length"] = Slice(bits, 148, 16)
        /\ r["format_specific_data_3"] = Slice(bits, 164, 16)
    BY <1>4, <1>5, <1>6, <1>7, <1>8, <1>9, <1>10, <1>11, <1>12, <1>13, <1>14, <1>15
  <2> HIDE DEF r
  <2>4. kept = StreamFieldsIn(bits)
    BY <2>3 DEF StreamFieldsIn
  <2> HIDE DEF names
  <2>5. QED
    BY <2>2, <2>3, <2>4 DEF r
<1>18. QED
  BY <1>3, <1>15, <1>17 DEF L

LEMMA ControlRead ==
    /\ Size(ControlLayout) = 84
    /\ \A bits : LET read == Read(ControlLayout, bits)
                IN  /\ read["control_data_length"] = Slice(bits, 9, 11)
                    /\ [name \in DOMAIN read \ {"stream_data_length"} |-> read[name]] = ControlFieldsIn(bits)
<1> DEFINE L == ControlLayout
           s == Starts(L)
           names == {"format_specific_data", "control_data_length", "mac_address", "unique_id"}
<1>1. /\ Len(L) = 4 /\ DOMAIN L = 1..4
      /\ L[1] = <<"format_specific_data", 9>>
      /\ L[2] = <<"control_data_length", 11>>
      /\ L[3] = <<"mac_address", 48>>
      /\ L[4] = <<"unique_id", 16>>
  BY DEF ControlLayout
<1> HIDE DEF L
<1>2. Lists(L, 4)
  <2>1. \A i \in 1..4 : L[i][2] \in Nat
    BY <1>1
  <2>2. \A i, j \in 1..4 : L[i][1] = L[j][1] => i = j
    BY <1>1
  <2>3. QED
    BY <1>1, <2>1, <2>2 DEF Lists
<1> HIDE DEF s
<1>3. s[0] = 0 /\ Size(L) = s[4]
  BY <1>2, StartsAt0 DEF s
<1>4. s[1] = 9 /\ \A bits : Read(L, bits)["format_specific_data"] = Slice(bits, 0, 9)
  <2>1. L[1] = <<"format_specific_data", 9>>
    BY <1>1
  <2>2. s[1] = 0 + 9 /\ \A bits : Read(L, bits)["format_specific_data"] = Slice(bits, 0, 9)
    BY <1>2, <1>3, <2>1, StartOf DEF s
  <2>3. QED
    BY <2>2
<1>5. s[2] = 20 /\ \A bits : Read(L, bits)["control_data_length"] = Slice(bits, 9, 11)
  <2>1. L[2] = <<"control_data_length", 11>>
    BY <1>1
  <2>2. s[2] = 9 + 11 /\ \A bits : Read(L, bits)["control_data_length"] = Slice(bits, 9, 11)
    BY <1>2, <1>4, <2>1, StartOf DEF s
  <2>3. QED
    BY <2>2
<1>6. s[3] = 68 /\ \A bits : Read(L, bits)["mac_address"] = Slice(bits, 20, 48)
  <2>1. L[3] = <<"mac_address", 48>>
    BY <1>1
  <2>2. s[3] = 20 + 48 /\ \A bits : Read(L, bits)["mac_address"] = Slice(bits, 20, 48)
    BY <1>2, <1>5, <2>1, StartOf DEF s
  <2>3. QED
    BY <2>2
<1>7. s[4] = 84 /\ \A bits : Read(L, bits)["unique_id"] = Slice(bits, 68, 16)
  <2>1. L[4] = <<"unique_id", 16>>
    BY <1>1
  <2>2. s[4] = 68 + 16 /\ \A bits : Read(L, bits)["unique_id"] = Slice(bits, 68, 16)
    BY <1>2, <1>6, <2>1, StartOf DEF s
  <2>3. QED
    BY <2>2
<1>8. {L[j][1] : j \in 1..4} = names
  BY <1>1
<1>9. ASSUME NEW bits
      PROVE  LET read == Read(L, bits)
             IN  /\ read["control_data_length"] = Slice(bits, 9, 11)
                 /\ [name \in DOMAIN read \ {"stream_data_length"} |-> read[name]] = ControlFieldsIn(bits)
  <2> DEFINE r == Read(L, bits)
             kept == [name \in names \ {"stream_data_length"} |-> r[name]]
  <2>1. r = [x \in names |-> r[x]]
    <3> HIDE DEF names
    <3>1. QED
      BY <1>2, <1>8, NamesRead
  <2>2. DOMAIN r = names
    <3> HIDE DEF r, names
    <3>1. QED
      BY <2>1
  <2>3. /\ r["format_specific_data"] = Slice(bits, 0, 9)
        /\ r["control_data_length"] = Slice(bits, 9, 11)
        /\ r["mac_address"] = Slice(bits, 20, 48)
        /\ r["unique_id"] = Slice(bits, 68, 16)
    BY <1>4, <1>5, <1>6, <1>7
  <2> HIDE DEF r
  <2>4. kept = ControlFieldsIn(bits)
    BY <2>3 DEF ControlFieldsIn
  <2> HIDE DEF names
  <2>5. QED
    BY <2>2, <2>3, <2>4 DEF r
<1>10. QED
  BY <1>3, <1>7, <1>9 DEF L

-----------------------------------------------------------------------------
(* Bytes *)

\* The place of a bit: the byte it belongs to, and where it stands in it.
LEMMA Octets ==
    ASSUME NEW n \in Nat, NEW j \in 1..(8 * n)
    PROVE  /\ (j - 1) \div 8 + 1 \in 1..n /\ ((j - 1) % 8) + 1 \in 1..8
           /\ j = 8 * ((j - 1) \div 8 + 1 - 1) + (((j - 1) % 8) + 1)
OBVIOUS

\* A byte is what eight bits hold.
LEMMA ByteBits ==
    /\ \A byte \in Byte : Bits(byte, 8) \in Word(8) /\ Number(Bits(byte, 8)) = byte
    /\ \A bits \in Word(8) : Number(bits) \in Byte /\ Bits(Number(bits), 8) = bits
<1>1. ASSUME NEW byte \in Byte
      PROVE  Bits(byte, 8) \in Word(8) /\ Number(Bits(byte, 8)) = byte
  <2>1. byte \in Nat /\ byte < 256
    BY DEF Byte
  <2>2. QED
    BY <2>1, Widths, BitsAreWords, NumberOfBits
<1>2. ASSUME NEW bits \in Word(8)
      PROVE  Number(bits) \in Byte /\ Bits(Number(bits), 8) = bits
  <2>1. bits \in Seq({0, 1}) /\ Len(bits) = 8
    BY Words
  <2>2. Number(bits) \in Nat /\ Fits(Number(bits), 8) /\ Bits(Number(bits), 8) = bits
    BY <2>1, BitsOfNumber
  <2>3. QED
    BY <2>2, Widths DEF Byte
<1>3. QED
  BY <1>1, <1>2

LEMMA OctetIn ==
    ASSUME NEW bits \in Seq(Bit), NEW from \in Nat, from + 8 <= Len(bits)
    PROVE  /\ Slice(bits, from, 8) \in Word(8)
           /\ \A k \in 1..8 : Slice(bits, from, 8)[k] = bits[from + k]
<1>1. PICK width \in Nat : width = 8
  OBVIOUS
<1>2. /\ Slice(bits, from, width) \in Seq(Bit) /\ Len(Slice(bits, from, width)) = width
      /\ \A k \in 1..width : Slice(bits, from, width)[k] = bits[from + k]
  <2>1. from + width <= Len(bits)
    BY <1>1
  <2>2. QED
    BY <2>1, Slices
<1>3. Slice(bits, from, width) \in Word(width)
  BY <1>2, Words DEF Bit
<1>4. QED
  BY <1>1, <1>2, <1>3

LEMMA SameOctet ==
    ASSUME NEW a \in Word(8), NEW b \in Word(8), \A k \in 1..8 : a[k] = b[k]
    PROVE  a = b
BY DEF Word

LEMMA BitsOfBytes ==
    ASSUME NEW bytes \in Seq(Byte)
    PROVE  /\ ToBits(bytes) \in Seq(Bit) /\ Len(ToBits(bytes)) = 8 * Len(bytes)
           /\ \A i \in 1..Len(bytes) : Slice(ToBits(bytes), 8 * (i - 1), 8) = Bits(bytes[i], 8)
<1> DEFINE n == Len(bytes)
           bits == ToBits(bytes)
           octet(j) == (j - 1) \div 8 + 1
           place(j) == ((j - 1) % 8) + 1
<1>1. n \in Nat /\ \A i \in 1..n : Bits(bytes[i], 8) \in [1..8 -> Bit]
  <2>1. \A i \in 1..n : bytes[i] \in Byte
    OBVIOUS
  <2>2. QED
    BY <2>1, ByteBits DEF Word, Bit
<1>2. bits = [j \in 1..(8 * n) |-> Bits(bytes[octet(j)], 8)[place(j)]]
  BY DEF ToBits
<1>3. \A j \in 1..(8 * n) : octet(j) \in 1..n /\ place(j) \in 1..8
  BY <1>1, Octets
<1> HIDE DEF n, bits, octet, place
<1>4. \A j \in 1..(8 * n) : Bits(bytes[octet(j)], 8)[place(j)] \in Bit
  BY <1>1, <1>3
<1>5. bits \in [1..(8 * n) -> Bit]
  BY <1>2, <1>4
<1>6. bits \in Seq(Bit) /\ Len(bits) = 8 * n
  <2>1. 8 * n \in Nat
    BY <1>1
  <2>2. QED
    BY <1>5, <2>1
<1>7. ASSUME NEW i \in 1..n
      PROVE  Slice(bits, 8 * (i - 1), 8) = Bits(bytes[i], 8)
  <2>1. PICK from \in Nat : from = 8 * (i - 1) /\ from + 8 <= 8 * n
    BY <1>1
  <2>2. /\ Slice(bits, from, 8) \in Word(8)
        /\ \A k \in 1..8 : Slice(bits, from, 8)[k] = bits[from + k]
    <3>1. from + 8 <= Len(bits)
      BY <1>6, <2>1
    <3>2. QED
      BY <1>6, <2>1, <3>1, OctetIn
  <2>3. ASSUME NEW k \in 1..8
        PROVE  bits[from + k] = Bits(bytes[i], 8)[k]
    <3>1. PICK j : j = from + k
      OBVIOUS
    <3>2. j \in 1..(8 * n) /\ octet(j) = i /\ place(j) = k
      <4>1. j = 8 * (i - 1) + k
        BY <2>1, <3>1
      <4>2. j \in 1..(8 * n) /\ (j - 1) \div 8 + 1 = i /\ ((j - 1) % 8) + 1 = k
        <5>1. n \in Nat
          BY <1>1
        <5>2. j - 1 = 8 * (i - 1) + (k - 1) /\ k - 1 \in 0..7 /\ i - 1 \in Nat /\ i - 1 < n
          BY <4>1, <5>1
        <5>3. QED
          BY <4>1, <5>1, <5>2
      <4>3. QED
        BY <4>2 DEF octet, place
    <3>3. bits[j] = Bits(bytes[i], 8)[k]
      BY <1>2, <3>2
    <3>4. QED
      BY <3>1, <3>3
  <2>4. Bits(bytes[i], 8) \in Word(8)
    BY <1>1 DEF Word, Bit
  <2>5. Slice(bits, from, 8) = Bits(bytes[i], 8)
    BY <2>2, <2>3, <2>4, SameOctet
  <2>6. QED
    BY <2>1, <2>5
<1>8. QED
  BY <1>6, <1>7 DEF n, bits

LEMMA BytesOfBits ==
    ASSUME NEW n \in Nat, NEW bits \in Seq(Bit), Len(bits) = 8 * n
    PROVE  /\ ToBytes(bits) \in Seq(Byte) /\ Len(ToBytes(bits)) = n
           /\ \A i \in 1..n : ToBytes(bits)[i] = Number(Slice(bits, 8 * (i - 1), 8))
           /\ \A i \in 1..n : Slice(bits, 8 * (i - 1), 8) \in Word(8)
<1> DEFINE bytes == ToBytes(bits)
<1>1. ASSUME NEW i \in 1..n
      PROVE  /\ SubSeq(bits, 8 * i - 7, 8 * i) = Slice(bits, 8 * (i - 1), 8)
             /\ Slice(bits, 8 * (i - 1), 8) \in Word(8)
  <2>1. PICK from \in Nat : from = 8 * (i - 1)
    OBVIOUS
  <2>2. from + 1 = 8 * i - 7 /\ from + 8 = 8 * i /\ from + 8 <= 8 * n
    BY <2>1
  <2>3. Slice(bits, from, 8) \in Word(8)
    <3>1. from + 8 <= Len(bits)
      BY <2>2
    <3>2. QED
      BY <2>1, <3>1, OctetIn
  <2>4. SubSeq(bits, 8 * i - 7, 8 * i) = Slice(bits, from, 8)
    BY <2>2 DEF Slice
  <2>5. QED
    BY <2>1, <2>3, <2>4
<1>2. Len(bits) \div 8 = n
  OBVIOUS
<1>3. bytes = [i \in 1..n |-> Number(SubSeq(bits, 8 * i - 7, 8 * i))]
  BY <1>2 DEF ToBytes
<1> HIDE DEF bytes
<1>4. \A i \in 1..n : bytes[i] = Number(Slice(bits, 8 * (i - 1), 8)) /\ bytes[i] \in Byte
  BY <1>1, <1>3, ByteBits
<1>5. bytes \in [1..n -> Byte]
  BY <1>3, <1>4
<1>6. bytes \in Seq(Byte) /\ Len(bytes) = n
  BY <1>5
<1>7. QED
  BY <1>1, <1>4, <1>6 DEF bytes

\* Bits that agree byte by byte are the same bits.
LEMMA SameOctets ==
    ASSUME NEW n \in Nat, NEW a \in Seq(Bit), NEW b \in Seq(Bit), Len(a) >= 8 * n, Len(b) >= 8 * n,
           \A i \in 1..n : Slice(a, 8 * (i - 1), 8) = Slice(b, 8 * (i - 1), 8)
    PROVE  \A j \in 1..(8 * n) : a[j] = b[j]
<1> SUFFICES ASSUME NEW j \in 1..(8 * n)
             PROVE  a[j] = b[j]
  OBVIOUS
<1>1. PICK i \in 1..n, k \in 1..8 : j = 8 * (i - 1) + k
  <2>1. PICK i, k : i = (j - 1) \div 8 + 1 /\ k = ((j - 1) % 8) + 1
    OBVIOUS
  <2>2. i \in 1..n /\ k \in 1..8 /\ j = 8 * (i - 1) + k
    BY <2>1, Octets
  <2>3. QED
    BY <2>2
<1>2. PICK from \in Nat : from = 8 * (i - 1)
  OBVIOUS
<1>3. from + 8 <= Len(a) /\ from + 8 <= Len(b) /\ j = from + k
  BY <1>1, <1>2
<1>4. Slice(a, from, 8)[k] = a[from + k] /\ Slice(b, from, 8)[k] = b[from + k]
  BY <1>3, Slices
<1>5. Slice(a, from, 8) = Slice(b, from, 8)
  BY <1>2
<1>6. QED
  BY <1>3, <1>4, <1>5

LEMMA BytesBack ==
    ASSUME NEW bytes \in Seq(Byte)
    PROVE  ToBytes(ToBits(bytes)) = bytes
<1> DEFINE n == Len(bytes)
           bits == ToBits(bytes)
           back == ToBytes(bits)
<1>1. n \in Nat /\ \A i \in 1..n : bytes[i] \in Byte
  OBVIOUS
<1>2. /\ bits \in Seq(Bit) /\ Len(bits) = 8 * n
      /\ \A i \in 1..n : Slice(bits, 8 * (i - 1), 8) = Bits(bytes[i], 8)
  BY BitsOfBytes
<1> HIDE DEF bits
<1>3. /\ back \in Seq(Byte) /\ Len(back) = n
      /\ \A i \in 1..n : back[i] = Number(Slice(bits, 8 * (i - 1), 8))
  BY <1>1, <1>2, BytesOfBits
<1> HIDE DEF back
<1>4. \A i \in 1..n : back[i] = bytes[i]
  BY <1>1, <1>2, <1>3, ByteBits
<1>5. back = bytes
  BY <1>3, <1>4, SameWords
<1>6. QED
  BY <1>5 DEF back, bits

LEMMA BitsBack ==
    ASSUME NEW n \in Nat, NEW bits \in Seq(Bit), Len(bits) = 8 * n
    PROVE  ToBits(ToBytes(bits)) = bits
<1> DEFINE bytes == ToBytes(bits)
           back == ToBits(bytes)
<1>1. /\ bytes \in Seq(Byte) /\ Len(bytes) = n
      /\ \A i \in 1..n : bytes[i] = Number(Slice(bits, 8 * (i - 1), 8))
      /\ \A i \in 1..n : Slice(bits, 8 * (i - 1), 8) \in Word(8)
  BY BytesOfBits
<1> HIDE DEF bytes
<1>2. /\ back \in Seq(Bit) /\ Len(back) = 8 * n
      /\ \A i \in 1..n : Slice(back, 8 * (i - 1), 8) = Bits(bytes[i], 8)
  BY <1>1, BitsOfBytes
<1> HIDE DEF back
<1>3. \A i \in 1..n : Slice(back, 8 * (i - 1), 8) = Slice(bits, 8 * (i - 1), 8)
  BY <1>1, <1>2, ByteBits
<1>4. \A j \in 1..(8 * n) : back[j] = bits[j]
  BY <1>2, <1>3, SameOctets
<1>5. back = bits
  BY <1>2, <1>4, SameWords
<1>6. QED
  BY <1>5 DEF back, bytes

\* Bytes that agree as far as both go are bits that agree as far as both go.
LEMMA BitsOfPrefix ==
    ASSUME NEW a \in Seq(Byte), NEW b \in Seq(Byte), NEW n \in Nat, n <= Len(a), n <= Len(b),
           \A i \in 1..n : a[i] = b[i]
    PROVE  \A j \in 1..(8 * n) : ToBits(a)[j] = ToBits(b)[j]
<1>1. /\ ToBits(a) \in Seq(Bit) /\ Len(ToBits(a)) = 8 * Len(a)
      /\ \A i \in 1..Len(a) : Slice(ToBits(a), 8 * (i - 1), 8) = Bits(a[i], 8)
  BY BitsOfBytes
<1>2. /\ ToBits(b) \in Seq(Bit) /\ Len(ToBits(b)) = 8 * Len(b)
      /\ \A i \in 1..Len(b) : Slice(ToBits(b), 8 * (i - 1), 8) = Bits(b[i], 8)
  BY BitsOfBytes
<1>3. PICK x, y : x = ToBits(a) /\ y = ToBits(b)
  OBVIOUS
<1>4. /\ x \in Seq(Bit) /\ y \in Seq(Bit) /\ Len(x) >= 8 * n /\ Len(y) >= 8 * n
      /\ \A i \in 1..n : Slice(x, 8 * (i - 1), 8) = Slice(y, 8 * (i - 1), 8)
  <2>1. x \in Seq(Bit) /\ y \in Seq(Bit) /\ Len(x) = 8 * Len(a) /\ Len(y) = 8 * Len(b)
    BY <1>1, <1>2, <1>3
  <2>2. Len(a) \in Nat /\ Len(b) \in Nat
    OBVIOUS
  <2>3. Len(x) >= 8 * n /\ Len(y) >= 8 * n
    BY <2>1, <2>2
  <2>4. ASSUME NEW i \in 1..n
        PROVE  Slice(x, 8 * (i - 1), 8) = Slice(y, 8 * (i - 1), 8)
    <3>1. i \in 1..Len(a) /\ i \in 1..Len(b) /\ a[i] = b[i]
      BY <2>2
    <3>2. QED
      BY <1>1, <1>2, <1>3, <3>1
  <2>5. QED
    BY <2>1, <2>3, <2>4
<1>5. \A j \in 1..(8 * n) : x[j] = y[j]
  BY <1>4, SameOctets
<1>6. QED
  BY <1>3, <1>5

-----------------------------------------------------------------------------
(* Decoding, one part at a time *)

LEMMA ReadsArc ==
    ASSUME NEW bits \in Seq(Bit), NEW from \in Nat, from <= Len(bits), NEW length \in Nat
    PROVE  ReadArc(SubSeq(bits, from + 1, Len(bits)), length) =
               IF Len(bits) - from < 8 * length THEN Failed("Io")
               ELSE [outcome |-> "bytes", bytes |-> ToBytes(Slice(bits, from, 8 * length))]
<1> DEFINE width == Len(bits) - from
           s == Slice(bits, from, width)
           t == SubSeq(s, 1, 8 * length)
<1>1. width \in Nat /\ from + width <= Len(bits)
  OBVIOUS
<1>2. SubSeq(bits, from + 1, Len(bits)) = s
  BY Rests
<1> HIDE DEF width
<1>3. s \in Seq(Bit) /\ Len(s) = width
  BY <1>1, Slices
<1>4. CASE width < 8 * length
  <2> HIDE DEF s
  <2>1. ReadArc(s, length) = Failed("Io")
    BY <1>3, <1>4 DEF ReadArc
  <2>2. QED
    BY <1>2, <1>4, <2>1 DEF width
<1>5. CASE ~(width < 8 * length)
  <2>1. PICK zero \in Nat, part \in Nat :
            zero = 0 /\ part = 8 * length /\ zero + part <= width /\ from = from + zero
    BY <1>1, <1>5
  <2>2. Slice(s, zero, part) = Slice(bits, from, part)
    BY <1>1, <2>1, SliceOfSlice
  <2> HIDE DEF s
  <2>3. Slice(s, zero, part) = t
    BY <2>1 DEF Slice
  <2>4. t = Slice(bits, from, 8 * length)
    BY <2>1, <2>2, <2>3
  <2> HIDE DEF t
  <2>5. ReadArc(s, length) = [outcome |-> "bytes", bytes |-> ToBytes(t)]
    BY <1>3, <1>5 DEF ReadArc, t
  <2>6. QED
    BY <1>2, <1>5, <2>4, <2>5 DEF width
<1>6. QED
  BY <1>4, <1>5

\* What is decoded of a header of size bits, and of the payload that follows it.
AfterHeader(variant, common, fields, size, length, bits) ==
    IF Len(bits) - size < 8 * length THEN Failed("Io")
    ELSE Decoded([variant |-> variant, common |-> common, fields |-> fields,
                  payload |-> ToBytes(Slice(bits, size, 8 * length))])

LEMMA AfterHeaders ==
    ASSUME NEW variant, NEW common, NEW layout, NEW field, NEW bits \in Seq(Bit), NEW size \in Nat,
           Size(layout) = size, NEW read, read = Read(layout, bits),
           NEW length \in Nat, Number(read[field]) = length,
           NEW fields, fields = [name \in DOMAIN read \ {"stream_data_length"} |-> read[name]],
           NEW after, after = DecodeAfterCommon(variant, common, layout, field, bits)
    PROVE  /\ Len(bits) < size => after = Failed("Io")
           /\ Len(bits) >= size => after = AfterHeader(variant, common, fields, size, length, bits)
<1>1. CASE Len(bits) < size
  BY <1>1 DEF DecodeAfterCommon
<1>2. CASE Len(bits) >= size
  <2> DEFINE payload == ReadArc(SubSeq(bits, size + 1, Len(bits)), length)
             pdu == [variant |-> variant, common |-> common, fields |-> fields,
                     payload |-> payload.bytes]
             bytes == ToBytes(Slice(bits, size, 8 * length))
  <2>1. ~(Len(bits) < size)
    BY <1>2
  <2>2. after = IF payload.outcome = "Io" THEN payload ELSE Decoded(pdu)
    BY <2>1 DEF DecodeAfterCommon
  <2>3. payload = IF Len(bits) - size < 8 * length THEN Failed("Io")
                  ELSE [outcome |-> "bytes", bytes |-> bytes]
    BY <1>2, ReadsArc
  <2> HIDE DEF payload, bytes
  <2>4. CASE Len(bits) - size < 8 * length
    <3>1. payload = Failed("Io") /\ payload.outcome = "Io"
      BY <2>3, <2>4 DEF Failed
    <3>2. QED
      BY <2>1, <2>2, <2>4, <3>1 DEF AfterHeader
  <2>5. CASE ~(Len(bits) - size < 8 * length)
    <3>1. payload.outcome # "Io" /\ payload.bytes = bytes
      BY <2>3, <2>5
    <3>2. after = Decoded([variant |-> variant, common |-> common, fields |-> fields,
                           payload |-> bytes])
      BY <2>2, <3>1
    <3>3. QED
      BY <2>1, <2>5, <3>2 DEF AfterHeader, bytes
  <2>6. QED
    BY <2>4, <2>5
<1>3. QED
  BY <1>1, <1>2

CommonIn(bits) ==
    [subtype |-> Number(Slice(bits, 0, 8)), header_specific_bit |-> Slice(bits, 8, 1),
     version |-> Slice(bits, 9, 3)]

\* The bits behind the common header.
Behind(bits) == Slice(bits, 12, Len(bits) - 12)

DecodedStream(bits) ==
    IF Len(Behind(bits)) < 180 THEN Failed("Io")
    ELSE AfterHeader("Stream", CommonIn(bits), StreamFieldsIn(Behind(bits)), 180,
                     Number(Slice(Behind(bits), 148, 16)), Behind(bits))
DecodedControl(bits) ==
    IF Len(Behind(bits)) < 84 THEN Failed("Io")
    ELSE AfterHeader("Control", CommonIn(bits), ControlFieldsIn(Behind(bits)), 84,
                     Number(Slice(Behind(bits), 9, 11)), Behind(bits))

LEMMA WordsRead ==
    ASSUME NEW bits \in Seq(Bit), NEW from \in Nat, NEW width \in Nat, from + width <= Len(bits)
    PROVE  Slice(bits, from, width) \in Word(width) /\ Number(Slice(bits, from, width)) \in Nat
<1>1. Slice(bits, from, width) \in Seq(Bit) /\ Len(Slice(bits, from, width)) = width
  BY Slices
<1>2. Slice(bits, from, width) \in Word(width)
  BY <1>1, Words DEF Bit
<1>3. Number(Slice(bits, from, width)) \in Nat
  BY <1>1, BitsOfNumber DEF Bit
<1>4. QED
  BY <1>2, <1>3

LEMMA BehindIs ==
    ASSUME NEW bits \in Seq(Bit), Len(bits) >= 12
    PROVE  Behind(bits) \in Seq(Bit) /\ Len(Behind(bits)) = Len(bits) - 12
<1>1. PICK from \in Nat, width \in Nat :
          from = 12 /\ width = Len(bits) - 12 /\ from + width <= Len(bits)
  <2>1. 12 \in Nat /\ Len(bits) - 12 \in Nat /\ 12 + (Len(bits) - 12) <= Len(bits)
    OBVIOUS
  <2>2. QED
    BY <2>1
<1>2. Slice(bits, from, width) \in Seq(Bit) /\ Len(Slice(bits, from, width)) = width
  BY <1>1, Slices
<1>3. QED
  BY <1>1, <1>2 DEF Behind

LEMMA StreamDecoded ==
    ASSUME NEW bits \in Seq(Bit), Len(bits) >= 12, NEW common, common = CommonIn(bits)
    PROVE  DecodeAfterCommon("Stream", common, StreamLayout, "stream_data_length", Behind(bits)) =
               DecodedStream(bits)
<1> DEFINE remain == Behind(bits)
           read == Read(StreamLayout, remain)
           length == Number(Slice(remain, 148, 16))
           after == DecodeAfterCommon("Stream", common, StreamLayout, "stream_data_length", remain)
<1>1. remain \in Seq(Bit)
  BY BehindIs
<1>2. /\ Size(StreamLayout) = 180 /\ read["stream_data_length"] = Slice(remain, 148, 16)
      /\ [name \in DOMAIN read \ {"stream_data_length"} |-> read[name]] = StreamFieldsIn(remain)
  BY StreamRead, ZenonT(40)
<1> HIDE DEF remain, read, after
<1>3. CASE Len(remain) < 180
  <2>1. after = Failed("Io")
    BY <1>2, <1>3 DEF DecodeAfterCommon, after
  <2>2. QED
    BY <1>3, <2>1 DEF DecodedStream, after, remain
<1>4. CASE Len(remain) >= 180
  <2>1. length \in Nat
    <3>1. PICK from \in Nat, width \in Nat : from = 148 /\ width = 16 /\ from + width <= Len(remain)
      <4>1. 148 \in Nat /\ 16 \in Nat /\ 148 + 16 <= Len(remain)
        BY <1>4
      <4>2. QED
        BY <4>1
    <3>2. Number(Slice(remain, from, width)) \in Nat
      BY <1>1, <3>1, WordsRead
    <3>3. QED
      BY <3>1, <3>2
  <2>2. Number(read["stream_data_length"]) = length
    BY <1>2
  <2> HIDE DEF length
  <2>3. PICK size \in Nat : size = 180 /\ Size(StreamLayout) = size
    BY <1>2
  <2>4. PICK fields :
            /\ fields = StreamFieldsIn(remain)
            /\ fields = [name \in DOMAIN read \ {"stream_data_length"} |-> read[name]]
    BY <1>2
  <2>5. after = AfterHeader("Stream", common, fields, size, length, remain)
    BY <1>1, <1>4, <2>1, <2>2, <2>3, <2>4, AfterHeaders, SMTT(40) DEF after, read
  <2>6. ~(Len(remain) < 180)
    BY <1>1, <1>4
  <2>7. QED
    BY <2>3, <2>4, <2>5, <2>6 DEF DecodedStream, after, remain, length
<1>5. Len(remain) < 180 \/ Len(remain) >= 180
  BY <1>1
<1>6. QED
  BY <1>3, <1>4, <1>5

LEMMA ControlDecoded ==
    ASSUME NEW bits \in Seq(Bit), Len(bits) >= 12, NEW common, common = CommonIn(bits)
    PROVE  DecodeAfterCommon("Control", common, ControlLayout, "control_data_length",
                             Behind(bits)) =
               DecodedControl(bits)
<1> DEFINE remain == Behind(bits)
           read == Read(ControlLayout, remain)
           length == Number(Slice(remain, 9, 11))
           after == DecodeAfterCommon("Control", common, ControlLayout, "control_data_length", remain)
<1>1. remain \in Seq(Bit)
  BY BehindIs
<1>2. /\ Size(ControlLayout) = 84 /\ read["control_data_length"] = Slice(remain, 9, 11)
      /\ [name \in DOMAIN read \ {"stream_data_length"} |-> read[name]] = ControlFieldsIn(remain)
  BY ControlRead
<1> HIDE DEF remain, read, after
<1>3. CASE Len(remain) < 84
  <2>1. after = Failed("Io")
    BY <1>2, <1>3 DEF DecodeAfterCommon, after
  <2>2. QED
    BY <1>3, <2>1 DEF DecodedControl, after, remain
<1>4. CASE Len(remain) >= 84
  <2>1. length \in Nat
    <3>1. PICK from \in Nat, width \in Nat : from = 9 /\ width = 11 /\ from + width <= Len(remain)
      <4>1. 9 \in Nat /\ 11 \in Nat /\ 9 + 11 <= Len(remain)
        BY <1>4
      <4>2. QED
        BY <4>1
    <3>2. Number(Slice(remain, from, width)) \in Nat
      BY <1>1, <3>1, WordsRead
    <3>3. QED
      BY <3>1, <3>2
  <2>2. Number(read["control_data_length"]) = length
    BY <1>2
  <2> HIDE DEF length
  <2>3. PICK size \in Nat : size = 84 /\ Size(ControlLayout) = size
    BY <1>2
  <2>4. PICK fields :
            /\ fields = ControlFieldsIn(remain)
            /\ fields = [name \in DOMAIN read \ {"stream_data_length"} |-> read[name]]
    BY <1>2
  <2>5. after = AfterHeader("Control", common, fields, size, length, remain)
    BY <1>1, <1>4, <2>1, <2>2, <2>3, <2>4, AfterHeaders DEF after, read
  <2>6. ~(Len(remain) < 84)
    BY <1>1, <1>4
  <2>7. QED
    BY <2>3, <2>4, <2>5, <2>6 DEF DecodedControl, after, remain, length
<1>5. Len(remain) < 84 \/ Len(remain) >= 84
  BY <1>1
<1>6. QED
  BY <1>3, <1>4, <1>5

LEMMA Decodes ==
    ASSUME NEW bits \in Seq(Bit), NEW subtype, subtype = Number(Slice(bits, 0, 8))
    PROVE  Decode(bits) =
               IF Len(bits) < 8 THEN Failed("Io")
               ELSE IF subtype \notin Subtypes THEN Failed("UnknownSubtype")
               ELSE IF Len(bits) < 12 THEN Failed("Io")
               ELSE IF subtype \in StreamSubtypes THEN DecodedStream(bits)
               ELSE IF subtype \in ControlSubtypes THEN DecodedControl(bits)
               ELSE Failed("panic")
<1>1. SubSeq(bits, 1, 8) = Slice(bits, 0, 8)
  BY DEF Slice
<1>2. CASE Len(bits) < 8 \/ subtype \notin Subtypes \/ Len(bits) < 12
  <2>1. Size(CommonLayout) = 12
    BY CommonRead
  <2>2. QED
    BY <1>1, <1>2, <2>1 DEF Decode
<1>3. CASE Len(bits) >= 12 /\ subtype \in Subtypes
  <2> DEFINE read == Read(CommonLayout, bits)
             common == [read EXCEPT !.subtype = Number(@)]
  <2>1. Size(CommonLayout) = 12
        /\ read = [subtype |-> Slice(bits, 0, 8), header_specific_bit |-> Slice(bits, 8, 1),
                   version |-> Slice(bits, 9, 3)]
    BY CommonRead
  <2> HIDE DEF read
  <2>2. common = CommonIn(bits) /\ common.subtype = subtype
    BY <2>1 DEF CommonIn
  <2>3. SubSeq(bits, Size(CommonLayout) + 1, Len(bits)) = Behind(bits)
    <3>1. PICK from \in Nat : from = 12 /\ from <= Len(bits)
      BY <1>3
    <3>2. SubSeq(bits, from + 1, Len(bits)) = Slice(bits, from, Len(bits) - from)
      BY <3>1, Rests
    <3>3. QED
      BY <2>1, <3>1, <3>2 DEF Behind
  <2>4. ~(Len(bits) < 8) /\ ~(Len(bits) < 12)
    BY <1>3
  <2> HIDE DEF common
  <2>5. Decode(bits) =
          CASE HeaderType(subtype) = "Stream" ->
                   DecodeAfterCommon("Stream", common, StreamLayout, "stream_data_length",
                                     Behind(bits))
            [] HeaderType(subtype) = "Control" ->
                   DecodeAfterCommon("Control", common, ControlLayout, "control_data_length",
                                     Behind(bits))
            [] HeaderType(subtype) = "Alternative" -> DecodeAlternative
    BY <1>1, <1>3, <2>1, <2>2, <2>3, <2>4 DEF Decode, common, read
  <2>6. /\ DecodeAfterCommon("Stream", common, StreamLayout, "stream_data_length", Behind(bits)) =
               DecodedStream(bits)
        /\ DecodeAfterCommon("Control", common, ControlLayout, "control_data_length",
                             Behind(bits)) =
               DecodedControl(bits)
    BY <1>3, <2>2, StreamDecoded, ControlDecoded
  <2>7. /\ subtype \in StreamSubtypes <=> HeaderType(subtype) = "Stream"
        /\ subtype \in ControlSubtypes <=> HeaderType(subtype) = "Control"
        /\ HeaderType(subtype) \in {"Stream", "Control", "Alternative"}
    BY <1>3, SMTT(40) DEF HeaderType, Subtypes, StreamSubtypes, ControlSubtypes, AlternativeSubtypes
  <2>8. CASE subtype \in StreamSubtypes
    BY <1>3, <2>4, <2>5, <2>6, <2>7, <2>8
  <2>9. CASE subtype \in ControlSubtypes /\ subtype \notin StreamSubtypes
    BY <1>3, <2>4, <2>5, <2>6, <2>7, <2>9
  <2>10. CASE subtype \notin ControlSubtypes /\ subtype \notin StreamSubtypes
    <3>1. HeaderType(subtype) = "Alternative"
      BY <2>7, <2>10
    <3>2. Decode(bits) = DecodeAlternative
      BY <2>5, <3>1
    <3>3. QED
      BY <1>3, <2>4, <2>10, <3>2 DEF DecodeAlternative
  <2>11. QED
    BY <2>8, <2>9, <2>10
<1>4. QED
  BY <1>2, <1>3

-----------------------------------------------------------------------------
(* What is written is read *)

LEMMA BeginsWith ==
    ASSUME NEW bits \in Seq(Bit), NEW w \in Nat, NEW b \in Word(w), Begins(bits, b),
           NEW zero, zero = 0
    PROVE  Slice(bits, zero, w) = b
<1>1. b \in Seq(Bit) /\ Len(b) = w
  BY Words DEF Bit
<1>2. w <= Len(bits) /\ \A i \in 1..w : bits[i] = b[i]
  BY <1>1 DEF Begins
<1>3. /\ Slice(bits, zero, w) \in Seq(Bit) /\ Len(Slice(bits, zero, w)) = w
      /\ \A i \in 1..w : Slice(bits, zero, w)[i] = bits[zero + i]
  <2>1. zero \in Nat /\ zero + w <= Len(bits)
    BY <1>2
  <2>2. QED
    BY <2>1, Slices
<1>4. \A i \in 1..w : Slice(bits, zero, w)[i] = b[i]
  BY <1>2, <1>3
<1>5. QED
  BY <1>1, <1>3, <1>4, SameWords

LEMMA PeelPair ==
    ASSUME NEW n \in Nat, NEW a \in Word(n), NEW w \in Nat, NEW b \in Word(w),
           NEW v \in Nat, NEW c \in Word(v), NEW k, k = n + w, NEW m, m = k + v
    PROVE  /\ a \o (b \o c) \in Word(m)
           /\ \A bits \in Seq(Bit) :
                  Begins(bits, a \o (b \o c)) =>
                      Begins(bits, a) /\ Slice(bits, n, w) = b /\ Slice(bits, k, v) = c
<1>1. a \in Seq(Bit) /\ b \in Seq(Bit) /\ c \in Seq(Bit)
  BY Words DEF Bit
<1>2. a \o (b \o c) = (a \o b) \o c
  BY <1>1, ConcatAssociative, SMTT(40)
<1> DEFINE ab == a \o b
<1>3. /\ ab \in Word(k)
      /\ \A bits \in Seq(Bit) : Begins(bits, ab) => Begins(bits, a) /\ Slice(bits, n, w) = b
  BY Peel
<1> HIDE DEF ab
<1>4. k \in Nat
  OBVIOUS
<1>5. /\ ab \o c \in Word(m)
      /\ \A bits \in Seq(Bit) : Begins(bits, ab \o c) => Begins(bits, ab) /\ Slice(bits, k, v) = c
  BY <1>3, <1>4, Peel
<1>6. a \o (b \o c) = ab \o c
  BY <1>2 DEF ab
<1>7. QED
  BY <1>3, <1>5, <1>6

LEMMA SubtypesFit ==
    \A subtype \in Subtypes : Bits(subtype, 8) \in Word(8) /\ Number(Bits(subtype, 8)) = subtype
<1>1. Subtypes \subseteq Byte
  BY DEF Subtypes, StreamSubtypes, ControlSubtypes, AlternativeSubtypes, Byte
<1>2. QED
  BY <1>1, ByteBits

LEMMA CommonWritten ==
    ASSUME NEW common \in Commons
    PROVE  /\ EncodeCommon(common) \in Word(12)
           /\ \A bits \in Seq(Bit) : Begins(bits, EncodeCommon(common)) => CommonIn(bits) = common
<1> DEFINE s == Bits(common.subtype, 8)
           p1 == s \o common.header_specific_bit
           p2 == p1 \o common.version
<1>1. /\ s \in Word(8) /\ Number(s) = common.subtype
      /\ common.header_specific_bit \in Word(1) /\ common.version \in Word(3)
  BY SubtypesFit DEF Commons
<1> HIDE DEF s
<1>2. /\ p1 \in Word(9)
      /\ \A bits \in Seq(Bit) :
             Begins(bits, p1) =>
                 Begins(bits, s) /\ Slice(bits, 8, 1) = common.header_specific_bit
  <2>1. s \in Word(8) /\ common.header_specific_bit \in Word(1)
    BY <1>1
  <2>2. QED
    BY <2>1, Peel
<1> HIDE DEF p1
<1>3. /\ p2 \in Word(12)
      /\ \A bits \in Seq(Bit) :
             Begins(bits, p2) => Begins(bits, p1) /\ Slice(bits, 9, 3) = common.version
  <2>1. p1 \in Word(9) /\ common.version \in Word(3)
    BY <1>1, <1>2
  <2>2. QED
    BY <2>1, Peel
<1>4. EncodeCommon(common) = p2
  BY DEF EncodeCommon, p1, s
<1> HIDE DEF p2
<1>5. ASSUME NEW bits \in Seq(Bit), Begins(bits, p2)
      PROVE  CommonIn(bits) = common
  <2>1. Begins(bits, p1) /\ Slice(bits, 9, 3) = common.version
    BY <1>3, <1>5
  <2>2. Begins(bits, s) /\ Slice(bits, 8, 1) = common.header_specific_bit
    BY <1>2, <2>1
  <2>3. Slice(bits, 0, 8) = s
    BY <1>1, <2>2, BeginsWith
  <2>4. common = [subtype |-> common.subtype, header_specific_bit |-> common.header_specific_bit,
                  version |-> common.version]
    BY DEF Commons
  <2>5. QED
    BY <1>1, <2>1, <2>2, <2>3, <2>4 DEF CommonIn
<1>6. QED
  BY <1>3, <1>4, <1>5

LEMMA BehindSlice ==
    ASSUME NEW bits \in Seq(Bit), NEW from \in Nat, NEW width \in Nat,
           Len(bits) >= 12 + from + width, NEW start, start = 12 + from
    PROVE  Slice(Behind(bits), from, width) = Slice(bits, start, width)
<1>1. PICK before \in Nat, whole \in Nat :
          /\ before = 12 /\ whole = Len(bits) - 12
          /\ before + whole <= Len(bits) /\ from + width <= whole /\ start = before + from
  <2>1. 12 \in Nat /\ Len(bits) - 12 \in Nat /\ 12 + (Len(bits) - 12) <= Len(bits)
        /\ from + width <= Len(bits) - 12
    OBVIOUS
  <2>2. QED
    BY <2>1
<1>2. Slice(Slice(bits, before, whole), from, width) = Slice(bits, start, width)
  <2>1. before + whole <= Len(bits) /\ from + width <= whole /\ start = before + from
    BY <1>1
  <2>2. QED
    BY <2>1, SliceOfSlice
<1>3. QED
  BY <1>1, <1>2 DEF Behind

\* What is written before the payload.
StreamHead(common, f, length) ==
    EncodeCommon(common)
    \o f.media_clock_restart \o f.format_specific_data \o f.avtp_timestamp_valid
    \o f.sequence_num \o f.format_specific_data_1 \o f.timestamp_uncertain
    \o EncodeStreamID(f) \o f.avtp_timestamp \o f.format_specific_data_2
    \o Bits(length, 16) \o f.format_specific_data_3
ControlHead(common, f) ==
    EncodeCommon(common) \o f.format_specific_data \o f.control_data_length \o EncodeStreamID(f)

LEMMA StreamWritten ==
    ASSUME NEW common \in Commons, NEW f \in StreamFields,
           NEW length \in Nat, length < 65536
    PROVE  /\ StreamHead(common, f, length) \in Word(192)
           /\ \A bits \in Seq(Bit) :
                  Begins(bits, StreamHead(common, f, length)) =>
                      /\ CommonIn(bits) = common /\ StreamFieldsIn(Behind(bits)) = f
                      /\ Number(Slice(Behind(bits), 148, 16)) = length
<1> DEFINE p0 == EncodeCommon(common)
           len == Bits(length, 16)
           p1 == p0 \o f.media_clock_restart
           p2 == p1 \o f.format_specific_data
           p3 == p2 \o f.avtp_timestamp_valid
           p4 == p3 \o f.sequence_num
           p5 == p4 \o f.format_specific_data_1
           p6 == p5 \o f.timestamp_uncertain
           p7 == p6 \o EncodeStreamID(f)
           p8 == p7 \o f.avtp_timestamp
           p9 == p8 \o f.format_specific_data_2
           p10 == p9 \o len
           p11 == p10 \o f.format_specific_data_3
<1>1. /\ f.media_clock_restart \in Word(1)
      /\ f.format_specific_data \in Word(2)
      /\ f.avtp_timestamp_valid \in Word(1)
      /\ f.sequence_num \in Word(8)
      /\ f.format_specific_data_1 \in Word(7)
      /\ f.timestamp_uncertain \in Word(1)
      /\ f.mac_address \in Word(48)
      /\ f.unique_id \in Word(16)
      /\ f.avtp_timestamp \in Word(32)
      /\ f.format_specific_data_2 \in Word(32)
      /\ f.format_specific_data_3 \in Word(16)
  BY DEF StreamFields
<1>2. /\ p0 \in Word(12)
      /\ \A bits \in Seq(Bit) : Begins(bits, p0) => CommonIn(bits) = common
  BY CommonWritten
<1>3. len \in Word(16) /\ Number(len) = length
  <2>1. length \in Nat /\ length < 65536
    OBVIOUS
  <2>2. QED
    BY <2>1, Widths, BitsAreWords, NumberOfBits
<1> HIDE DEF p0, len
<1>4. /\ p1 \in Word(13)
      /\ \A bits \in Seq(Bit) :
             Begins(bits, p1) =>
                 Begins(bits, p0) /\ Slice(bits, 12, 1) = f.media_clock_restart
  <2>1. p0 \in Word(12) /\ f.media_clock_restart \in Word(1)
    BY <1>1, <1>2
  <2>2. QED
    BY <2>1, Peel
<1> HIDE DEF p1
<1>5. /\ p2 \in Word(15)
      /\ \A bits \in Seq(Bit) :
             Begins(bits, p2) =>
                 Begins(bits, p1) /\ Slice(bits, 13, 2) = f.format_specific_data
  <2>1. p1 \in Word(13) /\ f.format_specific_data \in Word(2)
    BY <1>1, <1>4
  <2>2. QED
    BY <2>1, Peel
<1> HIDE DEF p2
<1>6. /\ p3 \in Word(16)
      /\ \A bits \in Seq(Bit) :
             Begins(bits, p3) =>
                 Begins(bits, p2) /\ Slice(bits, 15, 1) = f.avtp_timestamp_valid
  <2>1. p2 \in Word(15) /\ f.avtp_timestamp_valid \in Word(1)
    BY <1>1, <1>5
  <2>2. QED
    BY <2>1, Peel
<1> HIDE DEF p3
<1>7. /\ p4 \in Word(24)
      /\ \A bits \in Seq(Bit) :
             Begins(bits, p4) =>
                 Begins(bits, p3) /\ Slice(bits, 16, 8) = f.sequence_num
  <2>1. p3 \in Word(16) /\ f.sequence_num \in Word(8)
    BY <1>1, <1>6
  <2>2. QED
    BY <2>1, Peel
<1> HIDE DEF p4
<1>8. /\ p5 \in Word(31)
      /\ \A bits \in Seq(Bit) :
             Begins(bits, p5) =>
                 Begins(bits, p4) /\ Slice(bits, 24, 7) = f.format_specific_data_1
  <2>1. p4 \in Word(24) /\ f.format_specific_data_1 \in Word(7)
    BY <1>1, <1>7
  <2>2. QED
    BY <2>1, Peel
<1> HIDE DEF p5
<1>9. /\ p6 \in Word(32)
      /\ \A bits \in Seq(Bit) :
             Begins(bits, p6) =>
                 Begins(bits, p5) /\ Slice(bits, 31, 1) = f.timestamp_uncertain
  <2>1. p5 \in Word(31) /\ f.timestamp_uncertain \in Word(1)
    BY <1>1, <1>8
  <2>2. QED
    BY <2>1, Peel
<1> HIDE DEF p6
<1>10. /\ p7 \in Word(96)
      /\ \A bits \in Seq(Bit) :
             Begins(bits, p7) =>
                 Begins(bits, p6) /\ Slice(bits, 32, 48) = f.mac_address
                 /\ Slice(bits, 80, 16) = f.unique_id
  <2>1. PICK n \in Nat, w \in Nat, v \in Nat : n = 32 /\ w = 48 /\ v = 16
    OBVIOUS
  <2>2. PICK k, m : k = 80 /\ m = 96 /\ k = n + w /\ m = k + v
    BY <2>1
  <2>3. p6 \in Word(n) /\ f.mac_address \in Word(w) /\ f.unique_id \in Word(v)
    BY <1>1, <1>9, <2>1
  <2>4. k = n + w /\ m = k + v
    BY <2>2
  <2>5. /\ p7 \in Word(m)
        /\ \A bits \in Seq(Bit) :
               Begins(bits, p7) =>
                   Begins(bits, p6) /\ Slice(bits, n, w) = f.mac_address
                   /\ Slice(bits, k, v) = f.unique_id
    BY <2>3, <2>4, PeelPair DEF EncodeStreamID
  <2>6. QED
    BY <2>1, <2>2, <2>5
<1> HIDE DEF p7
<1>11. /\ p8 \in Word(128)
      /\ \A bits \in Seq(Bit) :
             Begins(bits, p8) =>
                 Begins(bits, p7) /\ Slice(bits, 96, 32) = f.avtp_timestamp
  <2>1. p7 \in Word(96) /\ f.avtp_timestamp \in Word(32)
    BY <1>1, <1>10
  <2>2. QED
    BY <2>1, Peel
<1> HIDE DEF p8
<1>12. /\ p9 \in Word(160)
      /\ \A bits \in Seq(Bit) :
             Begins(bits, p9) =>
                 Begins(bits, p8) /\ Slice(bits, 128, 32) = f.format_specific_data_2
  <2>1. p8 \in Word(128) /\ f.format_specific_data_2 \in Word(32)
    BY <1>1, <1>11
  <2>2. QED
    BY <2>1, Peel
<1> HIDE DEF p9
<1>13. /\ p10 \in Word(176)
      /\ \A bits \in Seq(Bit) :
             Begins(bits, p10) =>
                 Begins(bits, p9) /\ Slice(bits, 160, 16) = len
  <2>1. p9 \in Word(160) /\ len \in Word(16)
    BY <1>3, <1>12
  <2>2. QED
    BY <2>1, Peel
<1> HIDE DEF p10
<1>14. /\ p11 \in Word(192)
      /\ \A bits \in Seq(Bit) :
             Begins(bits, p11) =>
                 Begins(bits, p10) /\ Slice(bits, 176, 16) = f.format_specific_data_3
  <2>1. p10 \in Word(176) /\ f.format_specific_data_3 \in Word(16)
    BY <1>1, <1>13
  <2>2. QED
    BY <2>1, Peel
<1> HIDE DEF p11
<1>15. StreamHead(common, f, length) = p11
  BY DEF StreamHead, p0, p1, p2, p3, p4, p5, p6, p7, p8, p9, p10, p11, len
<1>16. ASSUME NEW bits \in Seq(Bit), Begins(bits, p11)
      PROVE  /\ CommonIn(bits) = common /\ StreamFieldsIn(Behind(bits)) = f
             /\ Number(Slice(Behind(bits), 148, 16)) = length
  <2>1. Begins(bits, p10) /\ Slice(bits, 176, 16) = f.format_specific_data_3
    BY <1>14, <1>16
  <2>2. Begins(bits, p9) /\ Slice(bits, 160, 16) = len
    BY <1>13, <2>1
  <2>3. Begins(bits, p8) /\ Slice(bits, 128, 32) = f.format_specific_data_2
    BY <1>12, <2>2
  <2>4. Begins(bits, p7) /\ Slice(bits, 96, 32) = f.avtp_timestamp
    BY <1>11, <2>3
  <2>5. Begins(bits, p6) /\ Slice(bits, 32, 48) = f.mac_address
                 /\ Slice(bits, 80, 16) = f.unique_id
    BY <1>10, <2>4
  <2>6. Begins(bits, p5) /\ Slice(bits, 31, 1) = f.timestamp_uncertain
    BY <1>9, <2>5
  <2>7. Begins(bits, p4) /\ Slice(bits, 24, 7) = f.format_specific_data_1
    BY <1>8, <2>6
  <2>8. Begins(bits, p3) /\ Slice(bits, 16, 8) = f.sequence_num
    BY <1>7, <2>7
  <2>9. Begins(bits, p2) /\ Slice(bits, 15, 1) = f.avtp_timestamp_valid
    BY <1>6, <2>8
  <2>10. Begins(bits, p1) /\ Slice(bits, 13, 2) = f.format_specific_data
    BY <1>5, <2>9
  <2>11. Begins(bits, p0) /\ Slice(bits, 12, 1) = f.media_clock_restart
    BY <1>4, <2>10
  <2>12. CommonIn(bits) = common
    BY <1>2, <2>11
  <2>13. Len(bits) >= 192
    <3>1. Len(p11) = 192
      <4>1. PICK size \in Nat : size = 192
        OBVIOUS
      <4>2. p11 \in Word(size)
        BY <1>14, <4>1
      <4>3. Len(p11) = size
        BY <4>2, Words
      <4>4. QED
        BY <4>1, <4>3
    <3>2. Len(p11) <= Len(bits)
      BY <1>16 DEF Begins
    <3>3. QED
      BY <3>1, <3>2
  <2>14. /\ Slice(Behind(bits), 0, 1) = f.media_clock_restart
        /\ Slice(Behind(bits), 1, 2) = f.format_specific_data
        /\ Slice(Behind(bits), 3, 1) = f.avtp_timestamp_valid
        /\ Slice(Behind(bits), 4, 8) = f.sequence_num
        /\ Slice(Behind(bits), 12, 7) = f.format_specific_data_1
        /\ Slice(Behind(bits), 19, 1) = f.timestamp_uncertain
        /\ Slice(Behind(bits), 20, 48) = f.mac_address
        /\ Slice(Behind(bits), 68, 16) = f.unique_id
        /\ Slice(Behind(bits), 84, 32) = f.avtp_timestamp
        /\ Slice(Behind(bits), 116, 32) = f.format_specific_data_2
        /\ Slice(Behind(bits), 148, 16) = len
        /\ Slice(Behind(bits), 164, 16) = f.format_specific_data_3
    <3>1. Slice(Behind(bits), 0, 1) = f.media_clock_restart
      <4>1. 0 \in Nat /\ 1 \in Nat /\ Len(bits) >= 12 + 0 + 1 /\ 12 = 12 + 0
        BY <2>13
      <4>2. QED
        BY <2>11, <4>1, BehindSlice
    <3>2. Slice(Behind(bits), 1, 2) = f.format_specific_data
      <4>1. 1 \in Nat /\ 2 \in Nat /\ Len(bits) >= 12 + 1 + 2 /\ 13 = 12 + 1
        BY <2>13
      <4>2. QED
        BY <2>10, <4>1, BehindSlice
    <3>3. Slice(Behind(bits), 3, 1) = f.avtp_timestamp_valid
      <4>1. 3 \in Nat /\ 1 \in Nat /\ Len(bits) >= 12 + 3 + 1 /\ 15 = 12 + 3
        BY <2>13
      <4>2. QED
        BY <2>9, <4>1, BehindSlice
    <3>4. Slice(Behind(bits), 4, 8) = f.sequence_num
      <4>1. 4 \in Nat /\ 8 \in Nat /\ Len(bits) >= 12 + 4 + 8 /\ 16 = 12 + 4
        BY <2>13
      <4>2. QED
        BY <2>8, <4>1, BehindSlice
    <3>5. Slice(Behind(bits), 12, 7) = f.format_specific_data_1
      <4>1. 12 \in Nat /\ 7 \in Nat /\ Len(bits) >= 12 + 12 + 7 /\ 24 = 12 + 12
        BY <2>13
      <4>2. QED
        BY <2>7, <4>1, BehindSlice
    <3>6. Slice(Behind(bits), 19, 1) = f.timestamp_uncertain
      <4>1. 19 \in Nat /\ 1 \in Nat /\ Len(bits) >= 12 + 19 + 1 /\ 31 = 12 + 19
        BY <2>13
      <4>2. QED
        BY <2>6, <4>1, BehindSlice
    <3>7. Slice(Behind(bits), 20, 48) = f.mac_address
      <4>1. 20 \in Nat /\ 48 \in Nat /\ Len(bits) >= 12 + 20 + 48 /\ 32 = 12 + 20
        BY <2>13
      <4>2. QED
        BY <2>5, <4>1, BehindSlice
    <3>8. Slice(Behind(bits), 68, 16) = f.unique_id
      <4>1. 68 \in Nat /\ 16 \in Nat /\ Len(bits) >= 12 + 68 + 16 /\ 80 = 12 + 68
        BY <2>13
      <4>2. QED
        BY <2>5, <4>1, BehindSlice
    <3>9. Slice(Behind(bits), 84, 32) = f.avtp_timestamp
      <4>1. 84 \in Nat /\ 32 \in Nat /\ Len(bits) >= 12 + 84 + 32 /\ 96 = 12 + 84
        BY <2>13
      <4>2. QED
        BY <2>4, <4>1, BehindSlice
    <3>10. Slice(Behind(bits), 116, 32) = f.format_specific_data_2
      <4>1. 116 \in Nat /\ 32 \in Nat /\ Len(bits) >= 12 + 116 + 32 /\ 128 = 12 + 116
        BY <2>13
      <4>2. QED
        BY <2>3, <4>1, BehindSlice
    <3>11. Slice(Behind(bits), 148, 16) = len
      <4>1. 148 \in Nat /\ 16 \in Nat /\ Len(bits) >= 12 + 148 + 16 /\ 160 = 12 + 148
        BY <2>13
      <4>2. QED
        BY <2>2, <4>1, BehindSlice
    <3>12. Slice(Behind(bits), 164, 16) = f.format_specific_data_3
      <4>1. 164 \in Nat /\ 16 \in Nat /\ Len(bits) >= 12 + 164 + 16 /\ 176 = 12 + 164
        BY <2>13
      <4>2. QED
        BY <2>1, <4>1, BehindSlice
    <3>13. QED
      BY <3>1, <3>2, <3>3, <3>4, <3>5, <3>6, <3>7, <3>8, <3>9, <3>10, <3>11, <3>12
  <2>15. f = [media_clock_restart |-> f.media_clock_restart,
             format_specific_data |-> f.format_specific_data,
             avtp_timestamp_valid |-> f.avtp_timestamp_valid,
             sequence_num |-> f.sequence_num,
             format_specific_data_1 |-> f.format_specific_data_1,
             timestamp_uncertain |-> f.timestamp_uncertain,
             mac_address |-> f.mac_address,
             unique_id |-> f.unique_id,
             avtp_timestamp |-> f.avtp_timestamp,
             format_specific_data_2 |-> f.format_specific_data_2,
             format_specific_data_3 |-> f.format_specific_data_3]
    BY DEF StreamFields
  <2>16. StreamFieldsIn(Behind(bits)) = f
    BY <2>14, <2>15 DEF StreamFieldsIn
  <2>17. QED
    BY <1>3, <2>12, <2>14, <2>16
<1>17. QED
  BY <1>14, <1>15, <1>16

LEMMA ControlWritten ==
    ASSUME NEW common \in Commons, NEW f \in ControlFields
    PROVE  /\ ControlHead(common, f) \in Word(96)
           /\ \A bits \in Seq(Bit) :
                  Begins(bits, ControlHead(common, f)) =>
                      /\ CommonIn(bits) = common /\ ControlFieldsIn(Behind(bits)) = f
                      /\ Number(Slice(Behind(bits), 9, 11)) = Number(f.control_data_length)
<1> DEFINE p0 == EncodeCommon(common)
           p1 == p0 \o f.format_specific_data
           p2 == p1 \o f.control_data_length
           p3 == p2 \o EncodeStreamID(f)
<1>1. /\ f.format_specific_data \in Word(9)
      /\ f.control_data_length \in Word(11)
      /\ f.mac_address \in Word(48)
      /\ f.unique_id \in Word(16)
  BY DEF ControlFields
<1>2. /\ p0 \in Word(12)
      /\ \A bits \in Seq(Bit) : Begins(bits, p0) => CommonIn(bits) = common
  BY CommonWritten
<1>3. TRUE
  OBVIOUS
<1> HIDE DEF p0
<1>4. /\ p1 \in Word(21)
      /\ \A bits \in Seq(Bit) :
             Begins(bits, p1) =>
                 Begins(bits, p0) /\ Slice(bits, 12, 9) = f.format_specific_data
  <2>1. p0 \in Word(12) /\ f.format_specific_data \in Word(9)
    BY <1>1, <1>2
  <2>2. QED
    BY <2>1, Peel
<1> HIDE DEF p1
<1>5. /\ p2 \in Word(32)
      /\ \A bits \in Seq(Bit) :
             Begins(bits, p2) =>
                 Begins(bits, p1) /\ Slice(bits, 21, 11) = f.control_data_length
  <2>1. p1 \in Word(21) /\ f.control_data_length \in Word(11)
    BY <1>1, <1>4
  <2>2. QED
    BY <2>1, Peel
<1> HIDE DEF p2
<1>6. /\ p3 \in Word(96)
      /\ \A bits \in Seq(Bit) :
             Begins(bits, p3) =>
                 Begins(bits, p2) /\ Slice(bits, 32, 48) = f.mac_address
                 /\ Slice(bits, 80, 16) = f.unique_id
  <2>1. PICK n \in Nat, w \in Nat, v \in Nat : n = 32 /\ w = 48 /\ v = 16
    OBVIOUS
  <2>2. PICK k, m : k = 80 /\ m = 96 /\ k = n + w /\ m = k + v
    BY <2>1
  <2>3. p2 \in Word(n) /\ f.mac_address \in Word(w) /\ f.unique_id \in Word(v)
    BY <1>1, <1>5, <2>1
  <2>4. k = n + w /\ m = k + v
    BY <2>2
  <2>5. /\ p3 \in Word(m)
        /\ \A bits \in Seq(Bit) :
               Begins(bits, p3) =>
                   Begins(bits, p2) /\ Slice(bits, n, w) = f.mac_address
                   /\ Slice(bits, k, v) = f.unique_id
    BY <2>3, <2>4, PeelPair DEF EncodeStreamID
  <2>6. QED
    BY <2>1, <2>2, <2>5
<1> HIDE DEF p3
<1>7. ControlHead(common, f) = p3
  BY DEF ControlHead, p0, p1, p2, p3
<1>8. ASSUME NEW bits \in Seq(Bit), Begins(bits, p3)
      PROVE  /\ CommonIn(bits) = common /\ ControlFieldsIn(Behind(bits)) = f
             /\ Number(Slice(Behind(bits), 9, 11)) = Number(f.control_data_length)
  <2>1. Begins(bits, p2) /\ Slice(bits, 32, 48) = f.mac_address
                 /\ Slice(bits, 80, 16) = f.unique_id
    BY <1>6, <1>8
  <2>2. Begins(bits, p1) /\ Slice(bits, 21, 11) = f.control_data_length
    BY <1>5, <2>1
  <2>3. Begins(bits, p0) /\ Slice(bits, 12, 9) = f.format_specific_data
    BY <1>4, <2>2
  <2>4. CommonIn(bits) = common
    BY <1>2, <2>3
  <2>5. Len(bits) >= 96
    <3>1. Len(p3) = 96
      <4>1. PICK size \in Nat : size = 96
        OBVIOUS
      <4>2. p3 \in Word(size)
        BY <1>6, <4>1
      <4>3. Len(p3) = size
        BY <4>2, Words
      <4>4. QED
        BY <4>1, <4>3
    <3>2. Len(p3) <= Len(bits)
      BY <1>8 DEF Begins
    <3>3. QED
      BY <3>1, <3>2
  <2>6. /\ Slice(Behind(bits), 0, 9) = f.format_specific_data
        /\ Slice(Behind(bits), 9, 11) = f.control_data_length
        /\ Slice(Behind(bits), 20, 48) = f.mac_address
        /\ Slice(Behind(bits), 68, 16) = f.unique_id
    <3>1. Slice(Behind(bits), 0, 9) = f.format_specific_data
      <4>1. 0 \in Nat /\ 9 \in Nat /\ Len(bits) >= 12 + 0 + 9 /\ 12 = 12 + 0
        BY <2>5
      <4>2. QED
        BY <2>3, <4>1, BehindSlice
    <3>2. Slice(Behind(bits), 9, 11) = f.control_data_length
      <4>1. 9 \in Nat /\ 11 \in Nat /\ Len(bits) >= 12 + 9 + 11 /\ 21 = 12 + 9
        BY <2>5
      <4>2. QED
        BY <2>2, <4>1, BehindSlice
    <3>3. Slice(Behind(bits), 20, 48) = f.mac_address
      <4>1. 20 \in Nat /\ 48 \in Nat /\ Len(bits) >= 12 + 20 + 48 /\ 32 = 12 + 20
        BY <2>5
      <4>2. QED
        BY <2>1, <4>1, BehindSlice
    <3>4. Slice(Behind(bits), 68, 16) = f.unique_id
      <4>1. 68 \in Nat /\ 16 \in Nat /\ Len(bits) >= 12 + 68 + 16 /\ 80 = 12 + 68
        BY <2>5
      <4>2. QED
        BY <2>1, <4>1, BehindSlice
    <3>5. QED
      BY <3>1, <3>2, <3>3, <3>4
  <2>7. f = [format_specific_data |-> f.format_specific_data,
             control_data_length |-> f.control_data_length,
             mac_address |-> f.mac_address,
             unique_id |-> f.unique_id]
    BY DEF ControlFields
  <2>8. ControlFieldsIn(Behind(bits)) = f
    BY <2>6, <2>7 DEF ControlFieldsIn
  <2>9. QED
    BY <1>3, <2>4, <2>6, <2>8
<1>9. QED
  BY <1>6, <1>7, <1>8

-----------------------------------------------------------------------------
(* Decoding inverts encoding *)

LEMMA PayloadBehind ==
    ASSUME NEW n \in Nat, NEW head \in Word(n), NEW payload \in Seq(Byte)
    PROVE  /\ head \o ToBits(payload) \in Seq(Bit)
           /\ Len(head \o ToBits(payload)) = n + 8 * Len(payload)
           /\ \A bits \in Seq(Bit) :
                  Begins(bits, head \o ToBits(payload)) =>
                      /\ Begins(bits, head) /\ Len(bits) >= n + 8 * Len(payload)
                      /\ Slice(bits, n, 8 * Len(payload)) = ToBits(payload)
<1> DEFINE w == 8 * Len(payload)
           b == ToBits(payload)
           m == n + w
           whole == head \o b
<1>1. w \in Nat
  OBVIOUS
<1>2. b \in Word(w)
  <2>1. b \in Seq(Bit) /\ Len(b) = w
    BY BitsOfBytes
  <2> HIDE DEF b, w
  <2>2. QED
    BY <1>1, <2>1, Words DEF Bit
<1>3. m \in Nat /\ m = n + w
  BY <1>1
<1> HIDE DEF b, w, m
<1>4. /\ whole \in Word(m)
      /\ \A bits \in Seq(Bit) : Begins(bits, whole) => Begins(bits, head) /\ Slice(bits, n, w) = b
  BY <1>1, <1>2, <1>3, Peel
<1> HIDE DEF whole
<1>5. whole \in Seq(Bit) /\ Len(whole) = m
  BY <1>3, <1>4, Words DEF Bit
<1>6. \A bits \in Seq(Bit) : Begins(bits, whole) => Len(bits) >= m
  BY <1>5 DEF Begins
<1>7. /\ whole \in Seq(Bit) /\ Len(whole) = n + w
      /\ \A bits \in Seq(Bit) :
             Begins(bits, whole) =>
                 Begins(bits, head) /\ Len(bits) >= n + w /\ Slice(bits, n, w) = b
  BY <1>3, <1>4, <1>5, <1>6
<1>8. QED
  BY <1>7 DEF whole, b, w

LEMMA BehindHead ==
    ASSUME NEW n \in Nat, NEW head \in Word(n), NEW payload \in Seq(Byte),
           NEW bits \in Seq(Bit), Begins(bits, head \o ToBits(payload))
    PROVE  /\ Begins(bits, head) /\ Len(bits) >= n + 8 * Len(payload)
           /\ Slice(bits, n, 8 * Len(payload)) = ToBits(payload)
<1> DEFINE whole == head \o ToBits(payload)
           w == 8 * Len(payload)
           Is(b) == /\ Begins(b, head) /\ Len(b) >= n + w
                      /\ Slice(b, n, w) = ToBits(payload)
<1>1. \A b \in Seq(Bit) : Begins(b, whole) => Is(b)
  BY PayloadBehind
<1>2. Begins(bits, whole)
  OBVIOUS
<1> HIDE DEF whole, Is
<1>3. Is(bits)
  BY <1>1, <1>2
<1>4. QED
  BY <1>3 DEF Is

LEMMA StreamParts ==
    ASSUME NEW pdu \in StreamPdus
    PROVE  /\ pdu.variant = "Stream" /\ pdu.common \in Commons /\ pdu.fields \in StreamFields
           /\ pdu.payload \in Seq(Byte) /\ Len(pdu.payload) \in Nat /\ Len(pdu.payload) < 65536
<1>1. /\ pdu \in [variant : {"Stream"}, common : Commons, fields : StreamFields,
                  payload : Seq(Byte)]
      /\ Len(pdu.payload) <= 65535
  BY DEF StreamPdus, Pdus
<1>2. /\ pdu.variant = "Stream" /\ pdu.common \in Commons /\ pdu.fields \in StreamFields
      /\ pdu.payload \in Seq(Byte)
  BY <1>1
<1>3. Len(pdu.payload) \in Nat
  BY <1>2
<1>4. Len(pdu.payload) \in Nat /\ Len(pdu.payload) < 65536
  BY <1>1, <1>3
<1>5. QED
  BY <1>2, <1>4

LEMMA StreamWhole ==
    ASSUME NEW pdu \in StreamPdus, NEW c, c = pdu.common, NEW f, f = pdu.fields,
           NEW p, p = pdu.payload
    PROVE  pdu = [variant |-> "Stream", common |-> c, fields |-> f, payload |-> p]
BY DEF StreamPdus, Pdus

LEMMA ControlParts ==
    ASSUME NEW pdu \in ControlPdus
    PROVE  /\ pdu.variant = "Control" /\ pdu.common \in Commons /\ pdu.fields \in ControlFields
           /\ pdu.payload \in Seq(Byte)
           /\ Number(pdu.fields.control_data_length) = Len(pdu.payload)
<1>1. /\ pdu \in [variant : {"Control"}, common : Commons, fields : ControlFields,
                  payload : Seq(Byte)]
      /\ Number(pdu.fields.control_data_length) = Len(pdu.payload)
  BY DEF ControlPdus, Pdus
<1>2. /\ pdu.variant = "Control" /\ pdu.common \in Commons /\ pdu.fields \in ControlFields
      /\ pdu.payload \in Seq(Byte)
  BY <1>1
<1>3. QED
  BY <1>1, <1>2

LEMMA ControlWhole ==
    ASSUME NEW pdu \in ControlPdus, NEW c, c = pdu.common, NEW f, f = pdu.fields,
           NEW p, p = pdu.payload
    PROVE  pdu = [variant |-> "Control", common |-> c, fields |-> f, payload |-> p]
BY DEF ControlPdus, Pdus

LEMMA AlternativeParts ==
    ASSUME NEW pdu \in AlternativePdus
    PROVE  pdu.variant = "Alternative" /\ pdu.common \in Commons /\ pdu.payload \in Seq(Byte)
<1>1. pdu \in [variant : {"Alternative"}, common : Commons, fields : {<<>>}, payload : Seq(Byte)]
  BY DEF AlternativePdus, Pdus
<1>2. QED
  BY <1>1

LEMMA StreamHeadRead ==
    ASSUME NEW common \in Commons, NEW f \in StreamFields, NEW length \in Nat, length < 65536,
           NEW bits \in Seq(Bit), Begins(bits, StreamHead(common, f, length))
    PROVE  /\ CommonIn(bits) = common /\ StreamFieldsIn(Behind(bits)) = f
           /\ Number(Slice(Behind(bits), 148, 16)) = length
BY StreamWritten

LEMMA ControlHeadRead ==
    ASSUME NEW common \in Commons, NEW f \in ControlFields,
           NEW bits \in Seq(Bit), Begins(bits, ControlHead(common, f))
    PROVE  /\ CommonIn(bits) = common /\ ControlFieldsIn(Behind(bits)) = f
           /\ Number(Slice(Behind(bits), 9, 11)) = Number(f.control_data_length)
BY ControlWritten

\* Each variant is a head and the payload.
LEMMA StreamEncoded ==
    ASSUME NEW pdu \in StreamPdus
    PROVE  Encode(pdu) = StreamHead(pdu.common, pdu.fields, Len(pdu.payload)) \o ToBits(pdu.payload)
<1>1. pdu.variant = "Stream"
  BY StreamParts
<1>2. Encode(pdu) = EncodeStream(pdu)
  BY <1>1 DEF Encode
<1>3. QED
  BY <1>2 DEF EncodeStream, StreamHead

LEMMA ControlEncoded ==
    ASSUME NEW pdu \in ControlPdus
    PROVE  Encode(pdu) = ControlHead(pdu.common, pdu.fields) \o ToBits(pdu.payload)
<1>1. pdu.variant = "Control"
  BY ControlParts
<1>2. Encode(pdu) = EncodeControl(pdu)
  BY <1>1 DEF Encode
<1>3. QED
  BY <1>2 DEF EncodeControl, ControlHead

LEMMA StreamBack ==
    ASSUME NEW pdu \in StreamPdus, NEW bits \in Seq(Bit), Begins(bits, Encode(pdu)),
           pdu.common.subtype \in StreamSubtypes
    PROVE  Decode(bits) = Decoded(pdu)
<1> DEFINE length == Len(pdu.payload)
           head == StreamHead(pdu.common, pdu.fields, length)
           remain == Behind(bits)
<1>1. /\ pdu.common \in Commons /\ pdu.fields \in StreamFields
      /\ pdu.payload \in Seq(Byte) /\ length \in Nat /\ length < 65536
  BY StreamParts
<1>2. Encode(pdu) = head \o ToBits(pdu.payload)
  BY StreamEncoded
<1>3. head \in Word(192)
  BY <1>1, StreamWritten
<1> HIDE DEF head
<1>4. PICK w \in Nat : w = 8 * length
  BY <1>1
<1>5. Begins(bits, head) /\ Len(bits) >= 192 + w /\ Slice(bits, 192, w) = ToBits(pdu.payload)
  <2>1. PICK n \in Nat, payload \in Seq(Byte) : n = 192 /\ payload = pdu.payload
    BY <1>1
  <2>2. head \in Word(n) /\ Begins(bits, head \o ToBits(payload))
    BY <1>1, <1>2, <1>3, <2>1
  <2>3. /\ Begins(bits, head) /\ Len(bits) >= n + 8 * Len(payload)
        /\ Slice(bits, n, 8 * Len(payload)) = ToBits(payload)
    BY <2>2, BehindHead
  <2>4. QED
    BY <1>4, <2>1, <2>3
<1>6. /\ CommonIn(bits) = pdu.common /\ StreamFieldsIn(remain) = pdu.fields
      /\ Number(Slice(remain, 148, 16)) = length
  BY <1>1, <1>5, StreamHeadRead DEF head
<1>7. remain \in Seq(Bit) /\ Len(remain) = Len(bits) - 12
  <2>1. Len(bits) >= 12
    BY <1>4, <1>5
  <2>2. QED
    BY <2>1, BehindIs
<1>8. Slice(remain, 180, w) = ToBits(pdu.payload)
  <2>1. 180 \in Nat /\ Len(bits) >= 12 + 180 + w /\ 192 = 12 + 180
    BY <1>4, <1>5
  <2>2. Slice(remain, 180, w) = Slice(bits, 192, w)
    BY <1>4, <2>1, BehindSlice
  <2>3. QED
    BY <1>5, <2>2
<1> HIDE DEF remain, length
<1>9. AfterHeader("Stream", pdu.common, pdu.fields, 180, length, remain) = Decoded(pdu)
  <2>1. ~(Len(remain) - 180 < 8 * length)
    BY <1>4, <1>5, <1>7
  <2>2. ToBytes(Slice(remain, 180, 8 * length)) = pdu.payload
    BY <1>1, <1>4, <1>8, BytesBack
  <2>3. PICK c, f, p : c = pdu.common /\ f = pdu.fields /\ p = pdu.payload
    OBVIOUS
  <2>4. AfterHeader("Stream", c, f, 180, length, remain) =
            Decoded([variant |-> "Stream", common |-> c, fields |-> f, payload |-> p])
    BY <2>1, <2>2, <2>3 DEF AfterHeader
  <2>5. pdu = [variant |-> "Stream", common |-> c, fields |-> f, payload |-> p]
    BY <2>3, StreamWhole
  <2>6. QED
    BY <2>3, <2>4, <2>5
<1>10. DecodedStream(bits) = Decoded(pdu)
  <2>1. ~(Len(remain) < 180)
    BY <1>4, <1>5, <1>7
  <2>2. QED
    BY <1>6, <1>9, <2>1 DEF DecodedStream, remain
<1>11. Number(Slice(bits, 0, 8)) = pdu.common.subtype
  BY <1>6 DEF CommonIn
<1>12. ~(Len(bits) < 8) /\ ~(Len(bits) < 12) /\ pdu.common.subtype \in Subtypes
  BY <1>4, <1>5 DEF Subtypes
<1>13. QED
  BY <1>10, <1>11, <1>12, Decodes

LEMMA ControlBack ==
    ASSUME NEW pdu \in ControlPdus, NEW bits \in Seq(Bit), Begins(bits, Encode(pdu)),
           pdu.common.subtype \in ControlSubtypes
    PROVE  Decode(bits) = Decoded(pdu)
<1> DEFINE length == Len(pdu.payload)
           head == ControlHead(pdu.common, pdu.fields)
           remain == Behind(bits)
<1>1. /\ pdu.common \in Commons /\ pdu.fields \in ControlFields
      /\ pdu.payload \in Seq(Byte) /\ Number(pdu.fields.control_data_length) = length
  BY ControlParts
<1>2. Encode(pdu) = head \o ToBits(pdu.payload)
  BY ControlEncoded
<1>3. head \in Word(96)
  BY <1>1, ControlWritten
<1> HIDE DEF head
<1>4. PICK w \in Nat : w = 8 * length
  <2>1. 8 * length \in Nat
    BY <1>1
  <2>2. QED
    BY <2>1
<1>5. Begins(bits, head) /\ Len(bits) >= 96 + w /\ Slice(bits, 96, w) = ToBits(pdu.payload)
  <2>1. PICK n \in Nat, payload \in Seq(Byte) : n = 96 /\ payload = pdu.payload
    BY <1>1
  <2>2. head \in Word(n) /\ Begins(bits, head \o ToBits(payload))
    BY <1>1, <1>2, <1>3, <2>1
  <2>3. /\ Begins(bits, head) /\ Len(bits) >= n + 8 * Len(payload)
        /\ Slice(bits, n, 8 * Len(payload)) = ToBits(payload)
    BY <2>2, BehindHead
  <2>4. QED
    BY <1>4, <2>1, <2>3
<1>6. /\ CommonIn(bits) = pdu.common /\ ControlFieldsIn(remain) = pdu.fields
      /\ Number(Slice(remain, 9, 11)) = length
  BY <1>1, <1>5, ControlHeadRead DEF head
<1>7. remain \in Seq(Bit) /\ Len(remain) = Len(bits) - 12
  <2>1. Len(bits) >= 12
    BY <1>4, <1>5
  <2>2. QED
    BY <2>1, BehindIs
<1>8. Slice(remain, 84, w) = ToBits(pdu.payload)
  <2>1. 84 \in Nat /\ Len(bits) >= 12 + 84 + w /\ 96 = 12 + 84
    BY <1>4, <1>5
  <2>2. Slice(remain, 84, w) = Slice(bits, 96, w)
    BY <1>4, <2>1, BehindSlice
  <2>3. QED
    BY <1>5, <2>2
<1> HIDE DEF remain
<1>9. AfterHeader("Control", pdu.common, pdu.fields, 84, length, remain) = Decoded(pdu)
  <2>1. ~(Len(remain) - 84 < 8 * length)
    BY <1>4, <1>5, <1>7
  <2>2. ToBytes(Slice(remain, 84, 8 * length)) = pdu.payload
    BY <1>1, <1>4, <1>8, BytesBack
  <2>3. PICK c, f, p : c = pdu.common /\ f = pdu.fields /\ p = pdu.payload
    OBVIOUS
  <2>4. AfterHeader("Control", c, f, 84, length, remain) =
            Decoded([variant |-> "Control", common |-> c, fields |-> f, payload |-> p])
    BY <2>1, <2>2, <2>3 DEF AfterHeader
  <2>5. pdu = [variant |-> "Control", common |-> c, fields |-> f, payload |-> p]
    BY <2>3, ControlWhole
  <2>6. QED
    BY <2>3, <2>4, <2>5
<1>10. DecodedControl(bits) = Decoded(pdu)
  <2>1. ~(Len(remain) < 84)
    BY <1>4, <1>5, <1>7
  <2>2. QED
    BY <1>6, <1>9, <2>1 DEF DecodedControl, remain
<1>11. Number(Slice(bits, 0, 8)) = pdu.common.subtype
  BY <1>6 DEF CommonIn
<1>12. /\ ~(Len(bits) < 8) /\ ~(Len(bits) < 12)
       /\ pdu.common.subtype \in Subtypes /\ pdu.common.subtype \notin StreamSubtypes
  <2>1. pdu.common.subtype \in Subtypes /\ pdu.common.subtype \notin StreamSubtypes
    BY DEF Subtypes, StreamSubtypes, ControlSubtypes
  <2>2. QED
    BY <1>4, <1>5, <2>1
<1>13. QED
  BY <1>10, <1>11, <1>12, Decodes

-----------------------------------------------------------------------------
(* A packet that is cut *)

LEMMA SliceOfPrefix ==
    ASSUME NEW bits \in Seq(Bit), NEW whole \in Seq(Bit), Begins(whole, bits),
           NEW from \in Nat, NEW width \in Nat, from + width <= Len(bits)
    PROVE  Slice(bits, from, width) = Slice(whole, from, width)
<1>1. Len(bits) <= Len(whole) /\ \A i \in 1..Len(bits) : whole[i] = bits[i]
  BY DEF Begins
<1>2. from + width <= Len(whole)
  BY <1>1
<1>3. /\ Slice(bits, from, width) \in Seq(Bit) /\ Len(Slice(bits, from, width)) = width
      /\ \A i \in 1..width : Slice(bits, from, width)[i] = bits[from + i]
  BY Slices
<1>4. /\ Slice(whole, from, width) \in Seq(Bit) /\ Len(Slice(whole, from, width)) = width
      /\ \A i \in 1..width : Slice(whole, from, width)[i] = whole[from + i]
  BY <1>2, Slices
<1>5. ASSUME NEW i \in 1..width
      PROVE  Slice(bits, from, width)[i] = Slice(whole, from, width)[i]
  <2>1. from + i \in 1..Len(bits)
    OBVIOUS
  <2>2. QED
    BY <1>1, <1>3, <1>4, <2>1
<1>6. QED
  BY <1>3, <1>4, <1>5, SameWords

\* What an encoding is made of, and where it says how long it is.
LEMMA StreamEncoding ==
    ASSUME NEW pdu \in StreamPdus, NEW whole, whole = Encode(pdu), NEW length,
           length = Len(pdu.payload)
    PROVE  /\ whole \in Seq(Bit) /\ length \in Nat /\ Len(whole) = 192 + 8 * length
           /\ CommonIn(whole) = pdu.common
           /\ Number(Slice(Behind(whole), 148, 16)) = length
<1> DEFINE head == StreamHead(pdu.common, pdu.fields, length)
<1>1. /\ pdu.common \in Commons /\ pdu.fields \in StreamFields
      /\ pdu.payload \in Seq(Byte) /\ length \in Nat /\ length < 65536
  BY StreamParts
<1>2. whole = head \o ToBits(pdu.payload)
  BY StreamEncoded
<1>3. head \in Word(192)
  BY <1>1, StreamWritten
<1> HIDE DEF head
<1>4. PICK n \in Nat, payload \in Seq(Byte) : n = 192 /\ payload = pdu.payload
  BY <1>1
<1>5. head \in Word(n) /\ whole = head \o ToBits(payload)
  BY <1>2, <1>3, <1>4
<1>6. whole \in Seq(Bit) /\ Len(whole) = n + 8 * Len(payload)
  <2>1. head \in Word(n)
    BY <1>5
  <2>2. /\ head \o ToBits(payload) \in Seq(Bit)
        /\ Len(head \o ToBits(payload)) = n + 8 * Len(payload)
    BY <2>1, PayloadBehind
  <2>3. QED
    BY <1>5, <2>2
<1>7. Begins(whole, whole)
  BY <1>6 DEF Begins
<1>8. Begins(whole, head)
  BY <1>5, <1>6, <1>7, BehindHead
<1>9. CommonIn(whole) = pdu.common /\ Number(Slice(Behind(whole), 148, 16)) = length
  BY <1>1, <1>6, <1>8, StreamHeadRead DEF head
<1>10. QED
  BY <1>1, <1>4, <1>6, <1>9

LEMMA ControlEncoding ==
    ASSUME NEW pdu \in ControlPdus, NEW whole, whole = Encode(pdu), NEW length,
           length = Len(pdu.payload)
    PROVE  /\ whole \in Seq(Bit) /\ length \in Nat /\ Len(whole) = 96 + 8 * length
           /\ CommonIn(whole) = pdu.common
           /\ Number(Slice(Behind(whole), 9, 11)) = length
<1> DEFINE head == ControlHead(pdu.common, pdu.fields)
<1>1. /\ pdu.common \in Commons /\ pdu.fields \in ControlFields
      /\ pdu.payload \in Seq(Byte) /\ Number(pdu.fields.control_data_length) = length
  BY ControlParts
<1>2. whole = head \o ToBits(pdu.payload)
  BY ControlEncoded
<1>3. head \in Word(96)
  BY <1>1, ControlWritten
<1> HIDE DEF head
<1>4. PICK n \in Nat, payload \in Seq(Byte) : n = 96 /\ payload = pdu.payload
  BY <1>1
<1>5. head \in Word(n) /\ whole = head \o ToBits(payload)
  BY <1>2, <1>3, <1>4
<1>6. whole \in Seq(Bit) /\ Len(whole) = n + 8 * Len(payload)
  <2>1. head \in Word(n)
    BY <1>5
  <2>2. /\ head \o ToBits(payload) \in Seq(Bit)
        /\ Len(head \o ToBits(payload)) = n + 8 * Len(payload)
    BY <2>1, PayloadBehind
  <2>3. QED
    BY <1>5, <2>2
<1>7. Begins(whole, whole)
  BY <1>6 DEF Begins
<1>8. Begins(whole, head)
  BY <1>5, <1>6, <1>7, BehindHead
<1>9. CommonIn(whole) = pdu.common /\ Number(Slice(Behind(whole), 9, 11)) = length
  BY <1>1, <1>6, <1>8, ControlHeadRead DEF head
<1>10. length \in Nat
  BY <1>1
<1>11. QED
  BY <1>4, <1>6, <1>9, <1>10

\* The subtype is there as soon as the first byte is.
LEMMA SubtypeOfPrefix ==
    ASSUME NEW bits \in Seq(Bit), NEW whole \in Seq(Bit), Begins(whole, bits), Len(bits) >= 8,
           NEW subtype, CommonIn(whole).subtype = subtype
    PROVE  Number(Slice(bits, 0, 8)) = subtype
<1>1. Slice(bits, 0, 8) = Slice(whole, 0, 8)
  <2>1. 0 \in Nat /\ 8 \in Nat /\ 0 + 8 <= Len(bits)
    OBVIOUS
  <2>2. QED
    BY <2>1, SliceOfPrefix
<1>2. QED
  BY <1>1 DEF CommonIn

LEMMA StreamCut ==
    ASSUME NEW pdu \in StreamPdus, pdu.common.subtype \in StreamSubtypes,
           NEW bits \in Seq(Bit), Begins(Encode(pdu), bits), Len(bits) < Len(Encode(pdu))
    PROVE  Decode(bits) = Failed("Io")
<1>1. PICK whole, length : whole = Encode(pdu) /\ length = Len(pdu.payload)
  OBVIOUS
<1>2. /\ whole \in Seq(Bit) /\ length \in Nat /\ Len(whole) = 192 + 8 * length
      /\ CommonIn(whole) = pdu.common
      /\ Number(Slice(Behind(whole), 148, 16)) = length
  BY <1>1, StreamEncoding, SMTT(40)
<1>3. Begins(whole, bits) /\ Len(bits) < 192 + 8 * length /\ Len(bits) \in Nat
  BY <1>1, <1>2
<1>4. PICK subtype : subtype = Number(Slice(bits, 0, 8))
  OBVIOUS
<1>5. Len(bits) >= 8 => subtype \in StreamSubtypes /\ subtype \in Subtypes
  <2>1. Len(bits) >= 8 => subtype = pdu.common.subtype
    BY <1>2, <1>3, <1>4, SubtypeOfPrefix
  <2>2. QED
    BY <2>1 DEF Subtypes
<1>6. Len(bits) >= 12 => DecodedStream(bits) = Failed("Io")
  <2> SUFFICES ASSUME Len(bits) >= 12
               PROVE  DecodedStream(bits) = Failed("Io")
    OBVIOUS
  <2>1. Len(Behind(bits)) = Len(bits) - 12
    BY BehindIs
  <2>2. CASE Len(bits) < 192
    <3>1. Len(Behind(bits)) < 180
      BY <1>3, <2>1, <2>2
    <3>2. QED
      BY <3>1 DEF DecodedStream
  <2>3. CASE Len(bits) >= 192
    <3>1. Slice(Behind(bits), 148, 16) = Slice(bits, 160, 16)
      <4>1. 148 \in Nat /\ 16 \in Nat /\ Len(bits) >= 12 + 148 + 16 /\ 160 = 12 + 148
        BY <2>3
      <4>2. QED
        BY <4>1, BehindSlice
    <3>2. Slice(Behind(whole), 148, 16) = Slice(whole, 160, 16)
      <4>1. 148 \in Nat /\ 16 \in Nat /\ Len(whole) >= 12 + 148 + 16 /\ 160 = 12 + 148
        BY <1>2
      <4>2. QED
        BY <1>2, <4>1, BehindSlice
    <3>3. Slice(bits, 160, 16) = Slice(whole, 160, 16)
      <4>1. 160 \in Nat /\ 16 \in Nat /\ 160 + 16 <= Len(bits)
        BY <2>3
      <4>2. QED
        BY <1>2, <1>3, <4>1, SliceOfPrefix
    <3>4. Number(Slice(Behind(bits), 148, 16)) = length
      BY <1>2, <3>1, <3>2, <3>3
    <3>5. ~(Len(Behind(bits)) < 180) /\ Len(Behind(bits)) - 180 < 8 * length
      BY <1>2, <1>3, <2>1, <2>3
    <3>6. QED
      BY <3>4, <3>5 DEF DecodedStream, AfterHeader
  <2>4. QED
    BY <1>3, <2>2, <2>3
<1>7. QED
  BY <1>3, <1>4, <1>5, <1>6, Decodes

LEMMA ControlCut ==
    ASSUME NEW pdu \in ControlPdus, pdu.common.subtype \in ControlSubtypes,
           NEW bits \in Seq(Bit), Begins(Encode(pdu), bits), Len(bits) < Len(Encode(pdu))
    PROVE  Decode(bits) = Failed("Io")
<1>1. PICK whole, length : whole = Encode(pdu) /\ length = Len(pdu.payload)
  OBVIOUS
<1>2. /\ whole \in Seq(Bit) /\ length \in Nat /\ Len(whole) = 96 + 8 * length
      /\ CommonIn(whole) = pdu.common
      /\ Number(Slice(Behind(whole), 9, 11)) = length
  BY <1>1, ControlEncoding
<1>3. Begins(whole, bits) /\ Len(bits) < 96 + 8 * length /\ Len(bits) \in Nat
  BY <1>1, <1>2
<1>4. PICK subtype : subtype = Number(Slice(bits, 0, 8))
  OBVIOUS
<1>5. Len(bits) >= 8 =>
          /\ subtype \in ControlSubtypes /\ subtype \in Subtypes
          /\ subtype \notin StreamSubtypes
  <2>1. Len(bits) >= 8 => subtype = pdu.common.subtype
    BY <1>2, <1>3, <1>4, SubtypeOfPrefix
  <2>2. QED
    BY <2>1 DEF Subtypes, ControlSubtypes, StreamSubtypes
<1>6. Len(bits) >= 12 => DecodedControl(bits) = Failed("Io")
  <2> SUFFICES ASSUME Len(bits) >= 12
               PROVE  DecodedControl(bits) = Failed("Io")
    OBVIOUS
  <2>1. Len(Behind(bits)) = Len(bits) - 12
    BY BehindIs
  <2>2. CASE Len(bits) < 96
    <3>1. Len(Behind(bits)) < 84
      BY <1>3, <2>1, <2>2
    <3>2. QED
      BY <3>1 DEF DecodedControl
  <2>3. CASE Len(bits) >= 96
    <3>1. Slice(Behind(bits), 9, 11) = Slice(bits, 21, 11)
      <4>1. 9 \in Nat /\ 11 \in Nat /\ Len(bits) >= 12 + 9 + 11 /\ 21 = 12 + 9
        BY <2>3
      <4>2. QED
        BY <4>1, BehindSlice
    <3>2. Slice(Behind(whole), 9, 11) = Slice(whole, 21, 11)
      <4>1. 9 \in Nat /\ 11 \in Nat /\ Len(whole) >= 12 + 9 + 11 /\ 21 = 12 + 9
        BY <1>2
      <4>2. QED
        BY <1>2, <4>1, BehindSlice
    <3>3. Slice(bits, 21, 11) = Slice(whole, 21, 11)
      <4>1. 21 \in Nat /\ 11 \in Nat /\ 21 + 11 <= Len(bits)
        BY <2>3
      <4>2. QED
        BY <1>2, <1>3, <4>1, SliceOfPrefix
    <3>4. Number(Slice(Behind(bits), 9, 11)) = length
      BY <1>2, <3>1, <3>2, <3>3
    <3>5. ~(Len(Behind(bits)) < 84) /\ Len(Behind(bits)) - 84 < 8 * length
      BY <1>2, <1>3, <2>1, <2>3
    <3>6. QED
      BY <3>4, <3>5 DEF DecodedControl, AfterHeader
  <2>4. QED
    BY <1>3, <2>2, <2>3
<1>7. QED
  BY <1>3, <1>4, <1>5, <1>6, Decodes

LEMMA AlternativeEncoding ==
    ASSUME NEW pdu \in AlternativePdus, NEW whole, whole = Encode(pdu)
    PROVE  /\ whole \in Seq(Bit) /\ Len(whole) >= 8 /\ CommonIn(whole) = pdu.common
           /\ \E n \in Nat : Len(whole) = 8 * n
<1> DEFINE bits == ToBits(pdu.payload)
           tail == IF bits = <<>> THEN Bits(0, 4) ELSE SubSeq(bits, 1, Len(bits) - 4)
           head == EncodeCommon(pdu.common)
<1>1. pdu.variant = "Alternative" /\ pdu.common \in Commons /\ pdu.payload \in Seq(Byte)
  BY AlternativeParts
<1>2. whole = head \o tail
  BY <1>1 DEF Encode, EncodeAlternative
<1>3. PICK n \in Nat : n = Len(pdu.payload)
  BY <1>1
<1>4. bits \in Seq(Bit) /\ Len(bits) = 8 * n
  BY <1>1, <1>3, BitsOfBytes
<1> HIDE DEF bits
<1>5. PICK w \in Nat : tail \in Word(w) /\ \E m \in Nat : 12 + w = 8 * m
  <2>1. CASE bits = <<>>
    <3>1. Bits(0, 4) \in Word(4)
      BY BitsAreWords
    <3>2. 12 + 4 = 8 * 2 /\ 2 \in Nat /\ 4 \in Nat
      OBVIOUS
    <3>3. QED
      BY <2>1, <3>1, <3>2
  <2>2. CASE bits # <<>>
    <3>1. n # 0
      BY <1>4, <2>2
    <3>2. PICK zero \in Nat, width \in Nat :
              zero = 0 /\ width = 8 * n - 4 /\ zero + width <= Len(bits)
      <4>1. 0 \in Nat /\ 8 * n - 4 \in Nat /\ 0 + (8 * n - 4) <= Len(bits)
        BY <1>4, <3>1
      <4>2. QED
        BY <4>1
    <3>3. Slice(bits, zero, width) \in Word(width)
      <4>1. zero + width <= Len(bits)
        BY <3>2
      <4>2. QED
        BY <1>4, <4>1, WordsRead
    <3>4. Slice(bits, zero, width) = SubSeq(bits, 1, Len(bits) - 4)
      BY <1>4, <3>2 DEF Slice
    <3>5. n + 1 \in Nat /\ 12 + width = 8 * (n + 1)
      BY <3>2
    <3>6. QED
      BY <2>2, <3>3, <3>4, <3>5
  <2>3. QED
    BY <2>1, <2>2
<1> HIDE DEF tail
<1>6. /\ head \in Word(12)
      /\ \A b \in Seq(Bit) : Begins(b, head) => CommonIn(b) = pdu.common
  BY <1>1, CommonWritten
<1> HIDE DEF head
<1>7. PICK k \in Nat, m \in Nat : k = 12 /\ m = k + w
  <2>1. 12 \in Nat /\ 12 + w \in Nat
    OBVIOUS
  <2>2. QED
    BY <2>1
<1>8. /\ head \o tail \in Word(m)
      /\ \A b \in Seq(Bit) : Begins(b, head \o tail) => Begins(b, head)
  <2>1. head \in Word(k) /\ m = k + w
    BY <1>6, <1>7
  <2>2. QED
    BY <1>5, <2>1, Peel
<1>9. whole \in Seq(Bit) /\ Len(whole) = m
  BY <1>2, <1>8, Words DEF Bit
<1>10. Begins(whole, whole)
  BY <1>9 DEF Begins
<1>11. CommonIn(whole) = pdu.common
  BY <1>2, <1>6, <1>8, <1>9, <1>10
<1>12. QED
  BY <1>5, <1>7, <1>9, <1>11

LEMMA Encodings ==
    ASSUME NEW pdu \in Avtpdus
    PROVE  /\ Encode(pdu) \in Seq(Bit)
           /\ \E n \in Nat : Len(Encode(pdu)) = 8 * n
<1>1. PICK whole, length : whole = Encode(pdu) /\ length = Len(pdu.payload)
  OBVIOUS
<1>2. CASE pdu \in StreamPdus
  <2>1. whole \in Seq(Bit) /\ length \in Nat /\ Len(whole) = 192 + 8 * length
    BY <1>1, <1>2, StreamEncoding, ZenonT(40)
  <2>2. Len(whole) = 8 * (length + 24) /\ length + 24 \in Nat
    BY <2>1
  <2>3. QED
    BY <1>1, <2>1, <2>2
<1>3. CASE pdu \in ControlPdus
  <2>1. whole \in Seq(Bit) /\ length \in Nat /\ Len(whole) = 96 + 8 * length
    BY <1>1, <1>3, ControlEncoding
  <2>2. Len(whole) = 8 * (length + 12) /\ length + 12 \in Nat
    BY <2>1
  <2>3. QED
    BY <1>1, <2>1, <2>2
<1>4. CASE pdu \in AlternativePdus
  BY <1>4, AlternativeEncoding
<1>5. QED
  BY <1>2, <1>3, <1>4 DEF Avtpdus

LEMMA AlternativeNever ==
    ASSUME NEW pdu \in AlternativePdus, pdu.common.subtype \in AlternativeSubtypes,
           NEW bits \in Seq(Bit), Begins(bits, Encode(pdu)) \/ Begins(Encode(pdu), bits)
    PROVE  Decode(bits) = Failed("Io") \/ Decode(bits) = Failed("panic")
<1>1. PICK whole : whole = Encode(pdu)
  OBVIOUS
<1>2. whole \in Seq(Bit) /\ Len(whole) >= 8 /\ CommonIn(whole) = pdu.common
  BY <1>1, AlternativeEncoding
<1>3. PICK subtype : subtype = Number(Slice(bits, 0, 8))
  OBVIOUS
<1>4. Len(bits) \in Nat
  OBVIOUS
<1>5. Len(bits) >= 8 => subtype = pdu.common.subtype
  <2>1. CASE Begins(bits, whole)
    <3>1. Slice(whole, 0, 8) = Slice(bits, 0, 8)
      <4>1. 0 \in Nat /\ 8 \in Nat /\ 0 + 8 <= Len(whole)
        BY <1>2
      <4>2. QED
        BY <1>2, <2>1, <4>1, SliceOfPrefix
    <3>2. QED
      BY <1>2, <1>3, <3>1 DEF CommonIn
  <2>2. CASE Begins(whole, bits)
    BY <1>2, <1>3, <2>2, SubtypeOfPrefix
  <2>3. QED
    BY <1>1, <2>1, <2>2
<1>6. Len(bits) >= 8 =>
          /\ subtype \notin StreamSubtypes /\ subtype \notin ControlSubtypes
          /\ subtype \in Subtypes
  BY <1>5, SMTT(40) DEF Subtypes, StreamSubtypes, ControlSubtypes, AlternativeSubtypes
<1>7. QED
  BY <1>3, <1>4, <1>6, Decodes

\* The subtype of a packet that is sent is one of its variant.
LEMMA ValidSubtypes ==
    ASSUME NEW pdu \in Avtpdus, ValidSubtype(pdu)
    PROVE  /\ pdu \in StreamPdus => pdu.common.subtype \in StreamSubtypes
           /\ pdu \in ControlPdus => pdu.common.subtype \in ControlSubtypes
           /\ pdu \in AlternativePdus => pdu.common.subtype \in AlternativeSubtypes
<1>1. HeaderType(pdu.common.subtype) = pdu.variant
  BY DEF ValidSubtype
<1>2. \A subtype \in Subtypes :
          /\ HeaderType(subtype) = "Stream" => subtype \in StreamSubtypes
          /\ HeaderType(subtype) = "Control" => subtype \in ControlSubtypes
          /\ HeaderType(subtype) = "Alternative" => subtype \in AlternativeSubtypes
  BY DEF HeaderType, Subtypes, StreamSubtypes, ControlSubtypes, AlternativeSubtypes
<1>3. \A common \in Commons : common.subtype \in Subtypes
  BY DEF Commons
<1>4. CASE pdu \in StreamPdus
  <2>1. pdu.variant = "Stream" /\ pdu.common.subtype \in Subtypes
    BY <1>3, <1>4, StreamParts
  <2>2. pdu \notin ControlPdus /\ pdu \notin AlternativePdus
    BY <2>1, ControlParts, AlternativeParts
  <2>3. QED
    BY <1>1, <1>2, <2>1, <2>2
<1>5. CASE pdu \in ControlPdus
  <2>1. pdu.variant = "Control" /\ pdu.common.subtype \in Subtypes
    BY <1>3, <1>5, ControlParts
  <2>2. pdu \notin StreamPdus /\ pdu \notin AlternativePdus
    BY <2>1, StreamParts, AlternativeParts
  <2>3. QED
    BY <1>1, <1>2, <2>1, <2>2
<1>6. CASE pdu \in AlternativePdus
  <2>1. pdu.variant = "Alternative" /\ pdu.common.subtype \in Subtypes
    BY <1>3, <1>6, AlternativeParts
  <2>2. pdu \notin StreamPdus /\ pdu \notin ControlPdus
    BY <2>1, StreamParts, ControlParts
  <2>3. QED
    BY <1>1, <1>2, <2>1, <2>2
<1>7. QED
  BY <1>4, <1>5, <1>6 DEF Avtpdus

-----------------------------------------------------------------------------
(* Frames *)

\* The frame of a packet, and what a receiver decodes of a frame.
Frame(pdu) == EthernetHeader \o ToBytes(Encode(pdu))
InFrame(frame) == ToBits(SubSeq(frame, 15, Len(frame)))

LEMMA Headers ==
    EthernetHeader \in Seq(Byte) /\ Len(EthernetHeader) = 14
<1>1. EtherType \in Seq(Byte) /\ Len(EtherType) = 2
  BY DEF EtherType, Byte
<1>2. PICK addresses \in Seq(Byte) :
          addresses = [i \in 1..12 |-> 0] /\ Len(addresses) = 12
  <2>1. [i \in 1..12 |-> 0] \in Seq(Byte) /\ Len([i \in 1..12 |-> 0]) = 12
    BY DEF Byte
  <2>2. QED
    BY <2>1
<1>3. /\ addresses \o EtherType \in Seq(Byte)
      /\ Len(addresses \o EtherType) = Len(addresses) + Len(EtherType)
  BY <1>1, <1>2, ConcatProperties
<1>4. QED
  BY <1>1, <1>2, <1>3 DEF EthernetHeader

LEMMA Frames ==
    ASSUME NEW pdu \in Avtpdus
    PROVE  \E n \in Nat, bytes \in Seq(Byte) :
               /\ Frame(pdu) \in Seq(Byte) /\ Len(Frame(pdu)) = 14 + n
               /\ Len(bytes) = n /\ ToBits(bytes) = Encode(pdu)
               /\ \A i \in 1..n : Frame(pdu)[14 + i] = bytes[i]
<1>1. PICK n \in Nat : Encode(pdu) \in Seq(Bit) /\ Len(Encode(pdu)) = 8 * n
  BY Encodings
<1>2. PICK bytes : bytes = ToBytes(Encode(pdu))
  OBVIOUS
<1>3. bytes \in Seq(Byte) /\ Len(bytes) = n /\ ToBits(bytes) = Encode(pdu)
  BY <1>1, <1>2, BytesOfBits, BitsBack
<1> DEFINE frame == EthernetHeader \o bytes
<1>4. /\ frame \in Seq(Byte) /\ Len(frame) = Len(EthernetHeader) + Len(bytes)
      /\ \A i \in 1..(Len(EthernetHeader) + Len(bytes)) :
             frame[i] = IF i <= Len(EthernetHeader) THEN EthernetHeader[i]
                        ELSE bytes[i - Len(EthernetHeader)]
  BY <1>3, Headers, ConcatProperties
<1>5. frame = Frame(pdu)
  BY <1>2 DEF Frame
<1> HIDE DEF frame
<1>6. Len(frame) = 14 + n
  BY <1>3, <1>4, Headers
<1>7. ASSUME NEW i \in 1..n
      PROVE  frame[14 + i] = bytes[i]
  <2>1. PICK j : j = 14 + i
    OBVIOUS
  <2>2. j \in 1..(Len(EthernetHeader) + Len(bytes)) /\ ~(j <= Len(EthernetHeader))
        /\ j - Len(EthernetHeader) = i
    BY <1>3, <2>1, Headers
  <2>3. QED
    BY <1>4, <2>1, <2>2
<1>8. QED
  BY <1>3, <1>4, <1>5, <1>6, <1>7

\* What a receiver takes out of a frame.
LEMMA InFrames ==
    ASSUME NEW frame \in Seq(Byte), NEW m \in Nat, Len(frame) = 14 + m
    PROVE  \E bytes \in Seq(Byte) :
               /\ InFrame(frame) = ToBits(bytes) /\ Len(bytes) = m
               /\ \A i \in 1..m : bytes[i] = frame[14 + i]
<1>1. PICK from \in Nat : from = 14 /\ from <= Len(frame) /\ from + m = Len(frame)
  <2>1. 14 \in Nat /\ 14 <= Len(frame)
    OBVIOUS
  <2>2. QED
    BY <2>1
<1>2. from + 1 = 15 /\ Len(frame) - from = m
  BY <1>1
<1>3. SubSeq(frame, 15, Len(frame)) = Slice(frame, from, m)
  BY <1>1, <1>2 DEF Slice
<1>4. /\ Slice(frame, from, m) \in Seq(Byte) /\ Len(Slice(frame, from, m)) = m
      /\ \A i \in 1..m : Slice(frame, from, m)[i] = frame[from + i]
  <2>1. from + m <= Len(frame)
    BY <1>1
  <2>2. QED
    BY <2>1, Slices
<1>5. QED
  BY <1>1, <1>3, <1>4 DEF InFrame

\* A frame with more behind it carries the whole packet.
LEMMA WholeFrame ==
    ASSUME NEW pdu \in Avtpdus, NEW frame \in Seq(Byte), Begins(frame, Frame(pdu))
    PROVE  InFrame(frame) \in Seq(Bit) /\ Begins(InFrame(frame), Encode(pdu))
<1>1. PICK n \in Nat, sent \in Seq(Byte) :
          /\ Frame(pdu) \in Seq(Byte) /\ Len(Frame(pdu)) = 14 + n
          /\ Len(sent) = n /\ ToBits(sent) = Encode(pdu)
          /\ \A i \in 1..n : Frame(pdu)[14 + i] = sent[i]
  BY Frames
<1>2. 14 + n <= Len(frame) /\ \A i \in 1..(14 + n) : frame[i] = Frame(pdu)[i]
  BY <1>1 DEF Begins
<1>3. PICK m \in Nat : Len(frame) = 14 + m /\ n <= m
  <2>1. Len(frame) - 14 \in Nat /\ Len(frame) = 14 + (Len(frame) - 14) /\ n <= Len(frame) - 14
    BY <1>2
  <2>2. QED
    BY <2>1
<1>4. PICK bytes \in Seq(Byte) :
          /\ InFrame(frame) = ToBits(bytes) /\ Len(bytes) = m
          /\ \A i \in 1..m : bytes[i] = frame[14 + i]
  BY <1>3, InFrames
<1>5. \A i \in 1..n : bytes[i] = sent[i]
  <2>1. ASSUME NEW i \in 1..n
        PROVE  bytes[i] = sent[i]
    <3>1. i \in 1..m /\ 14 + i \in 1..(14 + n)
      BY <1>3
    <3>2. QED
      BY <1>1, <1>2, <1>4, <3>1
  <2>2. QED
    BY <2>1
<1>6. \A j \in 1..(8 * n) : ToBits(bytes)[j] = ToBits(sent)[j]
  <2>1. n <= Len(bytes) /\ n <= Len(sent)
    BY <1>1, <1>3, <1>4
  <2>2. QED
    BY <1>5, <2>1, BitsOfPrefix
<1>7. ToBits(bytes) \in Seq(Bit) /\ Len(ToBits(bytes)) = 8 * m /\ Len(ToBits(sent)) = 8 * n
  BY <1>1, <1>4, BitsOfBytes
<1>8. Begins(ToBits(bytes), ToBits(sent))
  <2>1. 8 * n <= 8 * m
    BY <1>3
  <2>2. QED
    BY <1>6, <1>7, <2>1 DEF Begins
<1>9. QED
  BY <1>1, <1>4, <1>7, <1>8

\* A frame that is cut behind its header carries the beginning of the packet.
LEMMA CutFrame ==
    ASSUME NEW pdu \in Avtpdus, NEW frame \in Seq(Byte), Begins(Frame(pdu), frame),
           Len(frame) < Len(Frame(pdu)), Len(frame) >= 14
    PROVE  /\ InFrame(frame) \in Seq(Bit) /\ Begins(Encode(pdu), InFrame(frame))
           /\ Len(InFrame(frame)) < Len(Encode(pdu))
<1>1. PICK n \in Nat, sent \in Seq(Byte) :
          /\ Frame(pdu) \in Seq(Byte) /\ Len(Frame(pdu)) = 14 + n
          /\ Len(sent) = n /\ ToBits(sent) = Encode(pdu)
          /\ \A i \in 1..n : Frame(pdu)[14 + i] = sent[i]
  BY Frames
<1>2. \A i \in 1..Len(frame) : Frame(pdu)[i] = frame[i]
  BY DEF Begins
<1>3. PICK m \in Nat : Len(frame) = 14 + m /\ m < n
  <2>1. Len(frame) - 14 \in Nat /\ Len(frame) = 14 + (Len(frame) - 14) /\ Len(frame) - 14 < n
    BY <1>1
  <2>2. QED
    BY <2>1
<1>4. PICK bytes \in Seq(Byte) :
          /\ InFrame(frame) = ToBits(bytes) /\ Len(bytes) = m
          /\ \A i \in 1..m : bytes[i] = frame[14 + i]
  BY <1>3, InFrames
<1>5. \A i \in 1..m : bytes[i] = sent[i]
  <2>1. ASSUME NEW i \in 1..m
        PROVE  bytes[i] = sent[i]
    <3>1. i \in 1..n /\ 14 + i \in 1..Len(frame)
      BY <1>3
    <3>2. QED
      BY <1>1, <1>2, <1>4, <3>1
  <2>2. QED
    BY <2>1
<1>6. \A j \in 1..(8 * m) : ToBits(bytes)[j] = ToBits(sent)[j]
  <2>1. m <= Len(bytes) /\ m <= Len(sent)
    BY <1>1, <1>3, <1>4
  <2>2. QED
    BY <1>5, <2>1, BitsOfPrefix
<1>7. ToBits(bytes) \in Seq(Bit) /\ Len(ToBits(bytes)) = 8 * m /\ Len(ToBits(sent)) = 8 * n
  BY <1>1, <1>4, BitsOfBytes
<1>8. Begins(ToBits(sent), ToBits(bytes)) /\ Len(ToBits(bytes)) < Len(ToBits(sent))
  <2>1. 8 * m <= 8 * n /\ 8 * m < 8 * n
    BY <1>3
  <2>2. QED
    BY <1>6, <1>7, <2>1 DEF Begins
<1>9. QED
  BY <1>1, <1>4, <1>7, <1>8

\* What comes of a packet whose frame arrives.
LEMMA WholeIsDecoded ==
    ASSUME NEW pdu \in Avtpdus, ValidSubtype(pdu), NEW frame \in Seq(Byte),
           Begins(frame, Frame(pdu))
    PROVE  /\ pdu.variant # "Alternative" => Decode(InFrame(frame)) = Decoded(pdu)
           /\ pdu.variant = "Alternative" => Decode(InFrame(frame)).outcome # "Avtpdu"
<1>1. InFrame(frame) \in Seq(Bit) /\ Begins(InFrame(frame), Encode(pdu))
  BY WholeFrame
<1>2. CASE pdu \in StreamPdus
  <2>1. pdu.variant = "Stream" /\ pdu.common.subtype \in StreamSubtypes
    BY <1>2, StreamParts, ValidSubtypes
  <2>2. Decode(InFrame(frame)) = Decoded(pdu)
    BY <1>1, <1>2, <2>1, StreamBack
  <2>3. QED
    BY <2>1, <2>2
<1>3. CASE pdu \in ControlPdus
  <2>1. pdu.variant = "Control" /\ pdu.common.subtype \in ControlSubtypes
    BY <1>3, ControlParts, ValidSubtypes
  <2>2. Decode(InFrame(frame)) = Decoded(pdu)
    BY <1>1, <1>3, <2>1, ControlBack
  <2>3. QED
    BY <2>1, <2>2
<1>4. CASE pdu \in AlternativePdus
  <2>1. pdu.variant = "Alternative" /\ pdu.common.subtype \in AlternativeSubtypes
    BY <1>4, AlternativeParts, ValidSubtypes
  <2>2. Decode(InFrame(frame)) = Failed("Io") \/ Decode(InFrame(frame)) = Failed("panic")
    BY <1>1, <1>4, <2>1, AlternativeNever
  <2>3. QED
    BY <2>1, <2>2 DEF Failed
<1>5. QED
  BY <1>2, <1>3, <1>4 DEF Avtpdus

LEMMA CutIsNotDecoded ==
    ASSUME NEW pdu \in Avtpdus, ValidSubtype(pdu), NEW frame \in Seq(Byte),
           Begins(Frame(pdu), frame), Len(frame) < Len(Frame(pdu)), Len(frame) >= 14
    PROVE  Decode(InFrame(frame)).outcome # "Avtpdu"
<1>1. /\ InFrame(frame) \in Seq(Bit) /\ Begins(Encode(pdu), InFrame(frame))
      /\ Len(InFrame(frame)) < Len(Encode(pdu))
  BY CutFrame
<1>2. Decode(InFrame(frame)) = Failed("Io") \/ Decode(InFrame(frame)) = Failed("panic")
  <2>1. CASE pdu \in StreamPdus
    BY <1>1, <2>1, StreamCut, ValidSubtypes
  <2>2. CASE pdu \in ControlPdus
    BY <1>1, <2>2, ControlCut, ValidSubtypes
  <2>3. CASE pdu \in AlternativePdus
    BY <1>1, <2>3, AlternativeNever, ValidSubtypes
  <2>4. QED
    BY <2>1, <2>2, <2>3 DEF Avtpdus
<1>3. QED
  BY <1>2 DEF Failed

-----------------------------------------------------------------------------
(* AAF: the fields of the format inside those of a stream header *)

LEMMA SpecificRead ==
    ASSUME NEW bits
    PROVE  /\ Read(SpecificLayout, bits).nominal_sample_rate = Slice(bits, 0, 4)
           /\ Read(SpecificLayout, bits).channels_per_frame = Slice(bits, 6, 10)
           /\ Read(SpecificLayout, bits).bit_depth = Slice(bits, 16, 8)
<1> DEFINE L == SpecificLayout
           s == Starts(L)
<1>1. /\ Len(L) = 4 /\ DOMAIN L = 1..4
      /\ L[1] = <<"nominal_sample_rate", 4>> /\ L[2] = <<"reserved", 2>>
      /\ L[3] = <<"channels_per_frame", 10>> /\ L[4] = <<"bit_depth", 8>>
  BY DEF SpecificLayout
<1>2. Lists(L, 4)
  BY <1>1 DEF Lists
<1> HIDE DEF L, s
<1>3. s[0] = 0
  BY <1>2, StartsAt0 DEF s
<1>4. s[1] = 4 /\ Read(L, bits)["nominal_sample_rate"] = Slice(bits, 0, 4)
  <2>1. s[1] = 0 + 4 /\ Read(L, bits)["nominal_sample_rate"] = Slice(bits, 0, 4)
    BY <1>1, <1>2, <1>3, StartOf DEF s
  <2>2. QED
    BY <2>1
<1>5. s[2] = 6
  <2>1. s[2] = 4 + 2
    BY <1>1, <1>2, <1>4, StartOf DEF s
  <2>2. QED
    BY <2>1
<1>6. s[3] = 16 /\ Read(L, bits)["channels_per_frame"] = Slice(bits, 6, 10)
  <2>1. s[3] = 6 + 10 /\ Read(L, bits)["channels_per_frame"] = Slice(bits, 6, 10)
    BY <1>1, <1>2, <1>5, StartOf DEF s
  <2>2. QED
    BY <2>1
<1>7. Read(L, bits)["bit_depth"] = Slice(bits, 16, 8)
  BY <1>1, <1>2, <1>6, StartOf DEF s
<1>8. QED
  BY <1>4, <1>6, <1>7 DEF L

LEMMA PackedRead ==
    ASSUME NEW bits
    PROVE  /\ Read(PackedLayout, bits).asfd = Slice(bits, 0, 3)
           /\ Read(PackedLayout, bits).sparse_timestamp = Slice(bits, 3, 1)
           /\ Read(PackedLayout, bits).event_flags = Slice(bits, 4, 4)
           /\ Read(PackedLayout, bits).aaf_format_specific_data_2 = Slice(bits, 8, 8)
<1> DEFINE L == PackedLayout
           s == Starts(L)
<1>1. /\ Len(L) = 4 /\ DOMAIN L = 1..4
      /\ L[1] = <<"asfd", 3>> /\ L[2] = <<"sparse_timestamp", 1>>
      /\ L[3] = <<"event_flags", 4>> /\ L[4] = <<"aaf_format_specific_data_2", 8>>
  BY DEF PackedLayout
<1>2. Lists(L, 4)
  BY <1>1 DEF Lists
<1> HIDE DEF L, s
<1>3. s[0] = 0
  BY <1>2, StartsAt0 DEF s
<1>4. s[1] = 3 /\ Read(L, bits)["asfd"] = Slice(bits, 0, 3)
  <2>1. s[1] = 0 + 3 /\ Read(L, bits)["asfd"] = Slice(bits, 0, 3)
    BY <1>1, <1>2, <1>3, StartOf DEF s
  <2>2. QED
    BY <2>1
<1>5. s[2] = 4 /\ Read(L, bits)["sparse_timestamp"] = Slice(bits, 3, 1)
  <2>1. s[2] = 3 + 1 /\ Read(L, bits)["sparse_timestamp"] = Slice(bits, 3, 1)
    BY <1>1, <1>2, <1>4, StartOf DEF s
  <2>2. QED
    BY <2>1
<1>6. s[3] = 8 /\ Read(L, bits)["event_flags"] = Slice(bits, 4, 4)
  <2>1. s[3] = 4 + 4 /\ Read(L, bits)["event_flags"] = Slice(bits, 4, 4)
    BY <1>1, <1>2, <1>5, StartOf DEF s
  <2>2. QED
    BY <2>1
<1>7. Read(L, bits)["aaf_format_specific_data_2"] = Slice(bits, 8, 8)
  BY <1>1, <1>2, <1>6, StartOf DEF s
<1>8. QED
  BY <1>4, <1>5, <1>6, <1>7 DEF L

\* Two, and four words after one another.
Both(a, b) == a \o b

LEMMA TwoWords ==
    ASSUME NEW n \in Nat, NEW a \in Word(n), NEW w \in Nat, NEW b \in Word(w),
           NEW zero, zero = 0, NEW m, m = n + w, NEW word, word = Both(a, b)
    PROVE  word \in Word(m) /\ Slice(word, zero, n) = a /\ Slice(word, n, w) = b
<1> DEFINE ab == a \o b
<1>1. /\ ab \in Word(m)
      /\ \A bits \in Seq(Bit) : Begins(bits, ab) => Begins(bits, a) /\ Slice(bits, n, w) = b
  BY Peel
<1> HIDE DEF ab
<1>2. ab \in Seq(Bit) /\ Begins(ab, ab)
  <2>1. m \in Nat
    OBVIOUS
  <2>2. ab \in Seq(Bit) /\ Len(ab) \in Nat
    BY <1>1, <2>1, Words DEF Bit
  <2>3. QED
    BY <2>2 DEF Begins
<1>3. Begins(ab, a) /\ Slice(ab, n, w) = b
  BY <1>1, <1>2
<1>4. Slice(ab, zero, n) = a
  BY <1>2, <1>3, BeginsWith
<1>5. QED
  BY <1>1, <1>3, <1>4 DEF ab, Both

Joined(a, b, c, d) == a \o b \o c \o d

LEMMA FourWords ==
    ASSUME NEW n \in Nat, NEW a \in Word(n), NEW w \in Nat, NEW b \in Word(w),
           NEW v \in Nat, NEW c \in Word(v), NEW u \in Nat, NEW d \in Word(u),
           NEW zero, zero = 0, NEW k, k = n + w, NEW l, l = k + v, NEW m, m = l + u,
           NEW word, word = Joined(a, b, c, d)
    PROVE  /\ word \in Word(m)
           /\ Slice(word, zero, n) = a /\ Slice(word, n, w) = b
           /\ Slice(word, k, v) = c /\ Slice(word, l, u) = d
<1> DEFINE ab == a \o b
           abc == ab \o c
           abcd == abc \o d
<1>1. /\ ab \in Word(k)
      /\ \A bits \in Seq(Bit) : Begins(bits, ab) => Begins(bits, a) /\ Slice(bits, n, w) = b
  BY Peel
<1>2. word = abcd /\ k \in Nat /\ l \in Nat /\ m \in Nat
  BY DEF Joined
<1> HIDE DEF ab
<1>3. /\ abc \in Word(l)
      /\ \A bits \in Seq(Bit) : Begins(bits, abc) => Begins(bits, ab) /\ Slice(bits, k, v) = c
  BY <1>1, <1>2, Peel
<1> HIDE DEF abc
<1>4. /\ abcd \in Word(m)
      /\ \A bits \in Seq(Bit) : Begins(bits, abcd) => Begins(bits, abc) /\ Slice(bits, l, u) = d
  BY <1>2, <1>3, Peel
<1> HIDE DEF abcd
<1>5. abcd \in Seq(Bit) /\ Begins(abcd, abcd)
  <2>1. abcd \in Seq(Bit) /\ Len(abcd) \in Nat
    BY <1>2, <1>4, Words DEF Bit
  <2>2. QED
    BY <2>1 DEF Begins
<1>6. Begins(abcd, a) /\ Slice(abcd, n, w) = b /\ Slice(abcd, k, v) = c /\ Slice(abcd, l, u) = d
  BY <1>1, <1>3, <1>4, <1>5
<1>7. Slice(abcd, zero, n) = a
  BY <1>5, <1>6, BeginsWith
<1>8. QED
  BY <1>2, <1>4, <1>6, <1>7

\* The values of SpecificStreamData.
SpecificDatas ==
    [format : AafFormats, aaf_format_specific_data_1 : Word(24), asfd : Word(3),
     aaf_format_specific_data_2 : Word(8), aaf_format_specific_payload : Seq(Byte)]

LEMMA NumbersWritten ==
    /\ Bits(0, 2) \in Word(2) /\ Bits(0, 3) \in Word(3) /\ Bits(0, 7) \in Word(7)
    /\ Bits(0, 8) \in Word(8)
    /\ \A n \in Nat :
           /\ n < 16 => Bits(n, 4) \in Word(4) /\ Number(Bits(n, 4)) = n
           /\ n < 256 => Bits(n, 8) \in Word(8) /\ Number(Bits(n, 8)) = n
           /\ n < 1024 => Bits(n, 10) \in Word(10) /\ Number(Bits(n, 10)) = n
<1>1. /\ Bits(0, 2) \in Word(2) /\ Bits(0, 3) \in Word(3) /\ Bits(0, 7) \in Word(7)
      /\ Bits(0, 8) \in Word(8)
  BY BitsAreWords
<1>2. ASSUME NEW n \in Nat
      PROVE  /\ n < 16 => Bits(n, 4) \in Word(4) /\ Number(Bits(n, 4)) = n
             /\ n < 256 => Bits(n, 8) \in Word(8) /\ Number(Bits(n, 8)) = n
             /\ n < 1024 => Bits(n, 10) \in Word(10) /\ Number(Bits(n, 10)) = n
  <2>1. Bits(n, 4) \in Word(4) /\ Bits(n, 8) \in Word(8) /\ Bits(n, 10) \in Word(10)
    BY BitsAreWords
  <2>2. /\ n < 16 => Fits(n, 4)
        /\ n < 256 => Fits(n, 8)
        /\ n < 1024 => Fits(n, 10)
    BY Widths
  <2>3. /\ Fits(n, 4) => Number(Bits(n, 4)) = n
        /\ Fits(n, 8) => Number(Bits(n, 8)) = n
        /\ Fits(n, 10) => Number(Bits(n, 10)) = n
    BY NumberOfBits
  <2>4. QED
    BY <2>1, <2>2, <2>3
<1>3. QED
  BY <1>1, <1>2

LEMMA WordNumbers ==
    ASSUME NEW bits
    PROVE  /\ bits \in Word(4) => Number(bits) \in Nat /\ Number(bits) < 16
           /\ bits \in Word(8) => Number(bits) \in Nat /\ Number(bits) < 256
           /\ bits \in Word(10) => Number(bits) \in Nat /\ Number(bits) < 1024
           /\ bits \in Word(16) => Number(bits) \in Nat /\ Number(bits) < 65536
<1>1. ASSUME NEW width \in Nat, bits \in Word(width)
      PROVE  Number(bits) \in Nat /\ Fits(Number(bits), width)
  <2>1. bits \in Seq({0, 1}) /\ Len(bits) = width
    BY <1>1, Words
  <2>2. QED
    BY <2>1, BitsOfNumber
<1>2. /\ bits \in Word(4) => Number(bits) \in Nat /\ Fits(Number(bits), 4)
      /\ bits \in Word(8) => Number(bits) \in Nat /\ Fits(Number(bits), 8)
      /\ bits \in Word(10) => Number(bits) \in Nat /\ Fits(Number(bits), 10)
      /\ bits \in Word(16) => Number(bits) \in Nat /\ Fits(Number(bits), 16)
  BY <1>1
<1>3. QED
  BY <1>2, Widths

LEMMA PcmParts ==
    ASSUME NEW pcm \in Pcms
    PROVE  /\ pcm.format \in PcmFormats /\ pcm.nominal_sample_rate \in SampleRates
           /\ pcm.channels_per_frame \in Nat /\ pcm.channels_per_frame < 1024
           /\ pcm.bit_depth \in Nat /\ pcm.bit_depth < 256 /\ pcm.payload \in Seq(Byte)
<1>1. /\ pcm.format \in PcmFormats /\ pcm.nominal_sample_rate \in SampleRates
      /\ pcm.channels_per_frame \in {n \in Nat : n < 1024}
      /\ pcm.bit_depth \in Byte /\ pcm.payload \in Seq(Byte)
  BY DEF Pcms
<1>2. \A n \in Byte : n \in Nat /\ n < 256
  BY DEF Byte
<1>3. QED
  BY <1>1, <1>2

LEMMA PcmWhole ==
    ASSUME NEW pcm \in Pcms, NEW f, f = pcm.format, NEW r, r = pcm.nominal_sample_rate,
           NEW c, c = pcm.channels_per_frame, NEW d, d = pcm.bit_depth, NEW p, p = pcm.payload
    PROVE  pcm = [format |-> f, nominal_sample_rate |-> r, channels_per_frame |-> c,
                  bit_depth |-> d, payload |-> p]
BY DEF Pcms

\* What AafPcm writes into a header it reads back.
LEMMA PcmBack ==
    ASSUME NEW pcm \in Pcms
    PROVE  /\ PcmIntoSpecific(pcm) \in SpecificDatas
           /\ PcmIntoSpecific(pcm).format \in PcmFormats
           /\ PcmIntoSpecific(pcm).aaf_format_specific_payload = pcm.payload
           /\ PcmFromSpecific(PcmIntoSpecific(pcm)) = pcm
<1> DEFINE rate == Bits(pcm.nominal_sample_rate, 4)
           reserved == Bits(0, 2)
           channels == Bits(pcm.channels_per_frame, 10)
           depth == Bits(pcm.bit_depth, 8)
           d1 == rate \o reserved \o channels \o depth
           data == PcmIntoSpecific(pcm)
<1>1. /\ pcm.format \in PcmFormats /\ pcm.nominal_sample_rate \in SampleRates
      /\ pcm.channels_per_frame \in Nat /\ pcm.channels_per_frame < 1024
      /\ pcm.bit_depth \in Nat /\ pcm.bit_depth < 256 /\ pcm.payload \in Seq(Byte)
  BY PcmParts
<1>2. pcm.nominal_sample_rate \in Nat /\ pcm.nominal_sample_rate < 16
  BY <1>1 DEF SampleRates
<1>3. /\ rate \in Word(4) /\ Number(rate) = pcm.nominal_sample_rate
      /\ reserved \in Word(2)
      /\ channels \in Word(10) /\ Number(channels) = pcm.channels_per_frame
      /\ depth \in Word(8) /\ Number(depth) = pcm.bit_depth
  BY <1>1, <1>2, NumbersWritten
<1>4. /\ data.format = pcm.format /\ data.aaf_format_specific_data_1 = d1
      /\ data.aaf_format_specific_payload = pcm.payload
      /\ data = [format |-> pcm.format, aaf_format_specific_data_1 |-> d1,
                 asfd |-> Bits(0, 3), aaf_format_specific_data_2 |-> Bits(0, 8),
                 aaf_format_specific_payload |-> pcm.payload]
  BY DEF PcmIntoSpecific
<1> HIDE DEF rate, reserved, channels, depth
<1>5. PICK word : word = d1
  OBVIOUS
<1>6. /\ word \in Word(24)
      /\ Slice(word, 0, 4) = rate /\ Slice(word, 6, 10) = channels /\ Slice(word, 16, 8) = depth
  <2>1. PICK n \in Nat, w \in Nat, v \in Nat, u \in Nat : n = 4 /\ w = 2 /\ v = 10 /\ u = 8
    OBVIOUS
  <2>2. PICK zero, k, l, m :
             zero = 0 /\ k = 6 /\ l = 16 /\ m = 24 /\ k = n + w /\ l = k + v /\ m = l + u
    BY <2>1
  <2>3. /\ rate \in Word(n) /\ reserved \in Word(w) /\ channels \in Word(v)
        /\ depth \in Word(u) /\ word = Joined(rate, reserved, channels, depth)
    BY <1>3, <1>5, <2>1 DEF Joined
  <2>4. zero = 0 /\ k = n + w /\ l = k + v /\ m = l + u
    BY <2>2
  <2>5. /\ word \in Word(m)
        /\ Slice(word, zero, n) = rate /\ Slice(word, k, v) = channels
        /\ Slice(word, l, u) = depth
    BY <2>3, <2>4, FourWords
  <2>6. QED
    BY <2>1, <2>2, <2>5
<1> HIDE DEF d1, data
<1>7. data \in SpecificDatas
  <2>1. pcm.format \in AafFormats
    BY <1>1 DEF AafFormats
  <2>2. QED
    BY <1>1, <1>4, <1>5, <1>6, <2>1, NumbersWritten DEF SpecificDatas
<1>8. PcmFromSpecific(data) = pcm
  <2>1. PcmFromSpecific(data) =
            [format |-> data.format,
             nominal_sample_rate |-> Number(Slice(word, 0, 4)),
             channels_per_frame |-> Number(Slice(word, 6, 10)),
             bit_depth |-> Number(Slice(word, 16, 8)),
             payload |-> data.aaf_format_specific_payload]
    BY <1>4, <1>5, SpecificRead DEF PcmFromSpecific
  <2>2. PICK f, r, c, e, p :
            /\ f = pcm.format /\ r = pcm.nominal_sample_rate /\ c = pcm.channels_per_frame
            /\ e = pcm.bit_depth /\ p = pcm.payload
    OBVIOUS
  <2>3. pcm = [format |-> f, nominal_sample_rate |-> r, channels_per_frame |-> c,
               bit_depth |-> e, payload |-> p]
    BY <2>2, PcmWhole
  <2>4. PcmFromSpecific(data) =
            [format |-> f, nominal_sample_rate |-> r, channels_per_frame |-> c,
             bit_depth |-> e, payload |-> p]
    BY <1>3, <1>4, <1>6, <2>1, <2>2
  <2>5. QED
    BY <2>3, <2>4
<1>9. QED
  BY <1>1, <1>4, <1>7, <1>8 DEF data

\* What AafPcm reads of a header, once its rate is known.
LEMMA PcmRead ==
    ASSUME NEW data \in SpecificDatas, data.format # AES3_32Bit,
           NEW pcm, pcm = PcmFromSpecific(data), pcm.nominal_sample_rate \in SampleRates
    PROVE  pcm \in Pcms /\ pcm.payload = data.aaf_format_specific_payload
<1>1. PICK bits : bits = data.aaf_format_specific_data_1
  OBVIOUS
<1>2. /\ data.format \in PcmFormats /\ bits \in Word(24)
      /\ data.aaf_format_specific_payload \in Seq(Byte)
  BY <1>1 DEF SpecificDatas, AafFormats
<1>3. pcm = [format |-> data.format,
             nominal_sample_rate |-> Number(Slice(bits, 0, 4)),
             channels_per_frame |-> Number(Slice(bits, 6, 10)),
             bit_depth |-> Number(Slice(bits, 16, 8)),
             payload |-> data.aaf_format_specific_payload]
  BY <1>1, SpecificRead DEF PcmFromSpecific
<1>4. bits \in Seq(Bit) /\ Len(bits) = 24
  BY <1>2, Words DEF Bit
<1>5. Slice(bits, 6, 10) \in Word(10) /\ Slice(bits, 16, 8) \in Word(8)
  <2>1. 6 + 10 <= Len(bits) /\ 16 + 8 <= Len(bits)
    BY <1>4
  <2>2. QED
    BY <1>4, <2>1, WordsRead
<1>6. PICK c, e : c = Number(Slice(bits, 6, 10)) /\ e = Number(Slice(bits, 16, 8))
  OBVIOUS
<1>7. c \in {n \in Nat : n < 1024}
  BY <1>5, <1>6, WordNumbers
<1>8. e \in Byte
  BY <1>5, <1>6, WordNumbers DEF Byte
<1>9. QED
  BY <1>2, <1>3, <1>6, <1>7, <1>8 DEF Pcms

AafOf(common, generic, format_data, sparse, events) ==
    [valid |-> TRUE, common |-> common, stream_data |-> generic, format_data |-> format_data,
     sparse_timestamp |-> sparse, event_flags |-> events]

LEMMA GenericParts ==
    ASSUME NEW g \in GenericStreamData
    PROVE  /\ g.media_clock_restart \in Word(1) /\ g.avtp_timestamp_valid \in Word(1)
           /\ g.sequence_num \in Word(8) /\ g.timestamp_uncertain \in Word(1)
           /\ g.mac_address \in Word(48) /\ g.unique_id \in Word(16)
           /\ g.avtp_timestamp \in Word(32)
BY DEF GenericStreamData

GenericIn(fields) == [name \in GenericFields |-> fields[name]]

\* The generic fields of a header are those of a GenericStreamData.
LEMMA GenericOf ==
    ASSUME NEW a, NEW b, NEW c, NEW d, NEW e, NEW f, NEW h, NEW fields,
           fields.media_clock_restart = a, fields.avtp_timestamp_valid = b,
           fields.sequence_num = c, fields.timestamp_uncertain = d, fields.mac_address = e,
           fields.unique_id = f, fields.avtp_timestamp = h
    PROVE  GenericIn(fields) =
               [media_clock_restart |-> a, avtp_timestamp_valid |-> b, sequence_num |-> c,
                timestamp_uncertain |-> d, mac_address |-> e, unique_id |-> f,
                avtp_timestamp |-> h]
BY DEF GenericIn, GenericFields

LEMMA GenericWhole ==
    ASSUME NEW g \in GenericStreamData, NEW a, NEW b, NEW c, NEW d, NEW e, NEW f, NEW h,
           g.media_clock_restart = a, g.avtp_timestamp_valid = b,
           g.sequence_num = c, g.timestamp_uncertain = d, g.mac_address = e,
           g.unique_id = f, g.avtp_timestamp = h
    PROVE  g = [media_clock_restart |-> a, avtp_timestamp_valid |-> b, sequence_num |-> c,
                timestamp_uncertain |-> d, mac_address |-> e, unique_id |-> f,
                avtp_timestamp |-> h]
BY DEF GenericStreamData

\* The header that an Aaf turns into, and what is found in it.
Carries(pdu, found, common, g, data, sparse, events) ==
    /\ pdu.common = common /\ pdu.payload = data.aaf_format_specific_payload
    /\ SubSeq(found.format_specific_data_2, 1, 8) = Bits(data.format, 8)
    /\ SubSeq(found.format_specific_data_2, 9, 32) = data.aaf_format_specific_data_1
    /\ Slice(found.format_specific_data_3, 0, 3) = data.asfd
    /\ Slice(found.format_specific_data_3, 3, 1) = sparse
    /\ Slice(found.format_specific_data_3, 4, 4) = events
    /\ Slice(found.format_specific_data_3, 8, 8) = data.aaf_format_specific_data_2
    /\ GenericIn(found) = g

LEMMA Converted ==
    ASSUME NEW common \in Commons, NEW g \in GenericStreamData, NEW format_data,
           NEW data \in SpecificDatas, data = IntoSpecific(format_data),
           NEW sparse \in Word(1), NEW events \in Word(4),
           NEW pdu, pdu = FromAaf(AafOf(common, g, format_data, sparse, events)),
           NEW found, found = pdu.fields
    PROVE  /\ Carries(pdu, found, common, g, data, sparse, events)
           /\ Len(data.aaf_format_specific_payload) <= 65535 => pdu \in StreamPdus
<1> DEFINE format == Bits(data.format, 8)
           two == Both(format, data.aaf_format_specific_data_1)
           three == Joined(data.asfd, sparse, events, data.aaf_format_specific_data_2)
           reserved2 == Bits(0, 2)
           reserved7 == Bits(0, 7)
           written == [media_clock_restart |-> g.media_clock_restart,
                      format_specific_data |-> reserved2,
                      avtp_timestamp_valid |-> g.avtp_timestamp_valid,
                      sequence_num |-> g.sequence_num,
                      format_specific_data_1 |-> reserved7,
                      timestamp_uncertain |-> g.timestamp_uncertain,
                      mac_address |-> g.mac_address, unique_id |-> g.unique_id,
                      avtp_timestamp |-> g.avtp_timestamp,
                      format_specific_data_2 |-> two,
                      format_specific_data_3 |-> three]
<1>1. /\ data.format \in AafFormats /\ data.aaf_format_specific_data_1 \in Word(24)
      /\ data.asfd \in Word(3) /\ data.aaf_format_specific_data_2 \in Word(8)
      /\ data.aaf_format_specific_payload \in Seq(Byte)
  BY DEF SpecificDatas
<1>2. pdu = [variant |-> "Stream", common |-> common, fields |-> written,
             payload |-> data.aaf_format_specific_payload]
  BY DEF FromAaf, AafOf, Both, Joined
<1>3. format \in Word(8) /\ reserved2 \in Word(2) /\ reserved7 \in Word(7)
  <2>1. data.format \in Nat /\ data.format < 256
    BY <1>1 DEF AafFormats, PcmFormats, AES3_32Bit
  <2>2. QED
    BY <2>1, NumbersWritten
<1> HIDE DEF format, reserved2, reserved7
<1>4. two \in Word(32) /\ Slice(two, 0, 8) = format
      /\ Slice(two, 8, 24) = data.aaf_format_specific_data_1
  <2>1. PICK n \in Nat, w \in Nat : n = 8 /\ w = 24
    OBVIOUS
  <2>2. PICK zero, m : zero = 0 /\ m = 32 /\ m = n + w
    BY <2>1
  <2>3. format \in Word(n) /\ data.aaf_format_specific_data_1 \in Word(w)
    BY <1>1, <1>3, <2>1
  <2>4. zero = 0 /\ m = n + w
    BY <2>2
  <2>5. PICK word, specific :
            word = two /\ specific = data.aaf_format_specific_data_1
            /\ word = Both(format, specific)
    OBVIOUS
  <2>6. word \in Word(m) /\ Slice(word, zero, n) = format /\ Slice(word, n, w) = specific
    <3>1. specific \in Word(w) /\ format \in Word(n) /\ word = Both(format, specific)
      BY <2>3, <2>5
    <3> HIDE DEF two
    <3>2. QED
      BY <2>4, <3>1, TwoWords
  <2>7. QED
    BY <2>1, <2>2, <2>5, <2>6
<1>5. /\ three \in Word(16)
      /\ Slice(three, 0, 3) = data.asfd /\ Slice(three, 3, 1) = sparse
      /\ Slice(three, 4, 4) = events /\ Slice(three, 8, 8) = data.aaf_format_specific_data_2
  <2>1. PICK n \in Nat, w \in Nat, v \in Nat, u \in Nat : n = 3 /\ w = 1 /\ v = 4 /\ u = 8
    OBVIOUS
  <2>2. PICK zero, k, l, m :
             zero = 0 /\ k = 4 /\ l = 8 /\ m = 16 /\ k = n + w /\ l = k + v /\ m = l + u
    BY <2>1
  <2>3. /\ data.asfd \in Word(n) /\ sparse \in Word(w) /\ events \in Word(v)
        /\ data.aaf_format_specific_data_2 \in Word(u)
    BY <1>1, <2>1
  <2>4. zero = 0 /\ k = n + w /\ l = k + v /\ m = l + u
    BY <2>2
  <2>5. /\ three \in Word(m)
        /\ Slice(three, zero, n) = data.asfd /\ Slice(three, n, w) = sparse
        /\ Slice(three, k, v) = events /\ Slice(three, l, u) = data.aaf_format_specific_data_2
    BY <2>3, <2>4, FourWords, SMTT(40)
  <2>6. QED
    BY <2>1, <2>2, <2>5
<1> HIDE DEF two, three
<1>6. SubSeq(two, 1, 8) = format /\ SubSeq(two, 9, 32) = data.aaf_format_specific_data_1
  <2>1. 0 + 1 = 1 /\ 0 + 8 = 8 /\ 8 + 1 = 9 /\ 8 + 24 = 32
    OBVIOUS
  <2>2. QED
    BY <1>4, <2>1 DEF Slice
<1>7. /\ g.media_clock_restart \in Word(1) /\ g.avtp_timestamp_valid \in Word(1)
      /\ g.sequence_num \in Word(8) /\ g.timestamp_uncertain \in Word(1)
      /\ g.mac_address \in Word(48) /\ g.unique_id \in Word(16)
      /\ g.avtp_timestamp \in Word(32)
  BY GenericParts
<1>8. written \in StreamFields
  BY <1>3, <1>4, <1>5, <1>7 DEF StreamFields
<1>9. GenericIn(found) = g
  <2>1. PICK a, b, c, d, e, f, h :
            /\ g.media_clock_restart = a /\ g.avtp_timestamp_valid = b
            /\ g.sequence_num = c /\ g.timestamp_uncertain = d /\ g.mac_address = e
            /\ g.unique_id = f /\ g.avtp_timestamp = h
    OBVIOUS
  <2>2. /\ found.media_clock_restart = a /\ found.avtp_timestamp_valid = b
        /\ found.sequence_num = c /\ found.timestamp_uncertain = d /\ found.mac_address = e
        /\ found.unique_id = f /\ found.avtp_timestamp = h
    BY <1>2, <2>1
  <2> HIDE DEF written
  <2>3. g = [media_clock_restart |-> a, avtp_timestamp_valid |-> b, sequence_num |-> c,
             timestamp_uncertain |-> d, mac_address |-> e, unique_id |-> f,
             avtp_timestamp |-> h]
    BY <2>1, GenericWhole
  <2>4. GenericIn(found) =
            [media_clock_restart |-> a, avtp_timestamp_valid |-> b, sequence_num |-> c,
             timestamp_uncertain |-> d, mac_address |-> e, unique_id |-> f,
             avtp_timestamp |-> h]
    BY <2>2, GenericOf
  <2>5. QED
    BY <2>3, <2>4
<1>10. found.format_specific_data_2 = two /\ found.format_specific_data_3 = three
  BY <1>2
<1> HIDE DEF written
<1>11. pdu.common = common
       /\ pdu.payload = data.aaf_format_specific_payload
  BY <1>2
<1>12. Len(data.aaf_format_specific_payload) <= 65535 => pdu \in StreamPdus
  BY <1>1, <1>2, <1>8 DEF StreamPdus, Pdus
<1>13. /\ SubSeq(found.format_specific_data_2, 1, 8) = format
       /\ SubSeq(found.format_specific_data_2, 9, 32) = data.aaf_format_specific_data_1
  BY <1>6, <1>10
<1>14. /\ Slice(found.format_specific_data_3, 0, 3) = data.asfd
       /\ Slice(found.format_specific_data_3, 3, 1) = sparse
       /\ Slice(found.format_specific_data_3, 4, 4) = events
       /\ Slice(found.format_specific_data_3, 8, 8) = data.aaf_format_specific_data_2
  BY <1>5, <1>10
<1>15. QED
  BY <1>9, <1>11, <1>12, <1>13, <1>14, SMTT(40) DEF format, Carries

\* An Aaf that passes validation survives the way into a header and back.
LEMMA AafBack ==
    ASSUME NEW common \in Commons, NEW g \in GenericStreamData, NEW format_data,
           NEW data \in SpecificDatas, data = IntoSpecific(format_data),
           FromSpecific(data) = format_data,
           ValidStreamData(common), ValidFormatData(format_data),
           NEW sparse \in Word(1), NEW events \in Word(4),
           NEW aaf, aaf = AafOf(common, g, format_data, sparse, events)
    PROVE  ToAaf(FromAaf(aaf)) = aaf
<1>1. PICK pdu, fields :
          /\ pdu = FromAaf(AafOf(common, g, format_data, sparse, events))
          /\ pdu = FromAaf(aaf) /\ fields = pdu.fields
  OBVIOUS
<1>2. /\ pdu.common = common /\ pdu.payload = data.aaf_format_specific_payload
      /\ SubSeq(fields.format_specific_data_2, 1, 8) = Bits(data.format, 8)
      /\ SubSeq(fields.format_specific_data_2, 9, 32) = data.aaf_format_specific_data_1
      /\ Slice(fields.format_specific_data_3, 0, 3) = data.asfd
      /\ Slice(fields.format_specific_data_3, 3, 1) = sparse
      /\ Slice(fields.format_specific_data_3, 4, 4) = events
      /\ Slice(fields.format_specific_data_3, 8, 8) = data.aaf_format_specific_data_2
      /\ GenericIn(fields) = g
  <2>1. Carries(pdu, fields, common, g, data, sparse, events)
    BY <1>1, Converted
  <2>2. QED
    BY <2>1 DEF Carries
<1>3. PICK packed :
          /\ packed = Read(PackedLayout, fields.format_specific_data_3)
          /\ packed.asfd = data.asfd /\ packed.sparse_timestamp = sparse
          /\ packed.event_flags = events
          /\ packed.aaf_format_specific_data_2 = data.aaf_format_specific_data_2
  BY <1>2, PackedRead
<1>4. data.format \in AafFormats /\ Number(Bits(data.format, 8)) = data.format
  <2>1. data.format \in AafFormats
    BY DEF SpecificDatas
  <2>2. data.format \in Nat /\ data.format < 256
    BY <2>1 DEF AafFormats, PcmFormats, AES3_32Bit
  <2>3. QED
    BY <2>1, <2>2, NumbersWritten
<1>5. [format |-> data.format,
       aaf_format_specific_data_1 |-> data.aaf_format_specific_data_1,
       asfd |-> data.asfd, aaf_format_specific_data_2 |-> data.aaf_format_specific_data_2,
       aaf_format_specific_payload |-> data.aaf_format_specific_payload] = data
  BY DEF SpecificDatas
<1>6. ToAaf(pdu) = [valid |-> TRUE, common |-> common, stream_data |-> g,
                    format_data |-> format_data,
                    sparse_timestamp |-> sparse, event_flags |-> events]
  <2>1. PICK read : read = FromSpecific(
            [format |-> data.format,
             aaf_format_specific_data_1 |-> data.aaf_format_specific_data_1,
             asfd |-> data.asfd, aaf_format_specific_data_2 |-> data.aaf_format_specific_data_2,
             aaf_format_specific_payload |-> data.aaf_format_specific_payload])
    OBVIOUS
  <2>2. read = format_data
    BY <1>5, <2>1
  <2>3. ToAaf(pdu) =
            IF ValidStreamData(common) /\ data.format \in AafFormats /\ ValidFormatData(read)
            THEN [valid |-> TRUE, common |-> common,
                  stream_data |-> GenericIn(fields),
                  format_data |-> read, sparse_timestamp |-> sparse, event_flags |-> events]
            ELSE NoAaf
    BY <1>1, <1>2, <1>3, <1>4, <2>1 DEF ToAaf, GenericIn
  <2>4. QED
    BY <1>2, <1>4, <2>2, <2>3
<1>7. QED
  BY <1>1, <1>6 DEF AafOf

LEMMA PcmAafParts ==
    ASSUME NEW aaf \in PcmAafs
    PROVE  /\ aaf.valid = TRUE
           /\ aaf.common \in Commons /\ aaf.stream_data \in GenericStreamData
           /\ aaf.format_data.variant = "Pcm" /\ aaf.format_data.data \in Pcms
           /\ aaf.sparse_timestamp \in Word(1) /\ aaf.event_flags \in Word(4)
<1>1. /\ aaf.valid = TRUE
      /\ aaf.common \in Commons /\ aaf.stream_data \in GenericStreamData
      /\ aaf.format_data \in [variant : {"Pcm"}, data : Pcms]
      /\ aaf.sparse_timestamp \in Word(1) /\ aaf.event_flags \in Word(4)
  BY DEF PcmAafs
<1>2. QED
  BY <1>1

LEMMA PcmAafWhole ==
    ASSUME NEW aaf \in PcmAafs, NEW c, c = aaf.common, NEW g, g = aaf.stream_data,
           NEW f, f = aaf.format_data, NEW sparse, sparse = aaf.sparse_timestamp,
           NEW events, events = aaf.event_flags
    PROVE  aaf = AafOf(c, g, f, sparse, events)
BY DEF PcmAafs, AafOf

\* A talker's Aaf becomes a stream packet, and is what a listener reads of it.
LEMMA TalkerBack ==
    ASSUME NEW aaf \in PcmAafs, ValidPcm(aaf.format_data.data), ValidStreamData(aaf.common)
    PROVE  Converts(aaf) /\ FromAaf(aaf) \in StreamPdus /\ ToAaf(FromAaf(aaf)) = aaf
<1>1. PICK c, g, f, sparse, events, pcm, data :
          /\ c = aaf.common /\ g = aaf.stream_data /\ f = aaf.format_data
          /\ sparse = aaf.sparse_timestamp /\ events = aaf.event_flags
          /\ pcm = f.data /\ data = PcmIntoSpecific(pcm)
  OBVIOUS
<1>2. /\ c \in Commons /\ g \in GenericStreamData /\ f.variant = "Pcm" /\ pcm \in Pcms
      /\ sparse \in Word(1) /\ events \in Word(4)
  BY <1>1, PcmAafParts
<1>3. aaf = AafOf(c, g, f, sparse, events)
  BY <1>1, PcmAafWhole
<1>4. /\ data \in SpecificDatas /\ data.format \in PcmFormats
      /\ data.aaf_format_specific_payload = pcm.payload /\ PcmFromSpecific(data) = pcm
  BY <1>1, <1>2, PcmBack
<1>5. data = IntoSpecific(f)
  BY <1>1, <1>2 DEF IntoSpecific
<1>6. FromSpecific(data) = f
  <2>1. data.format # AES3_32Bit
    BY <1>4 DEF PcmFormats, AES3_32Bit
  <2>2. f = [variant |-> "Pcm", data |-> pcm]
    <3>1. f \in [variant : {"Pcm"}, data : Pcms]
      BY <1>1 DEF PcmAafs
    <3>2. QED
      BY <1>1, <3>1
  <2>3. QED
    BY <1>4, <2>1, <2>2 DEF FromSpecific
<1>7. ValidFormatData(f)
  <2>1. pcm.nominal_sample_rate \in SampleRates /\ ValidPcm(pcm)
    BY <1>1, <1>2, PcmParts
  <2>2. QED
    BY <1>1, <2>1 DEF ValidFormatData
<1>8. Len(pcm.payload) <= MaxLength
  <2>1. ValidPcm(pcm)
    BY <1>1
  <2>2. QED
    BY <2>1 DEF ValidPcm, ValidPayloadSize
<1>9. Len(data.aaf_format_specific_payload) <= 65535
  <2>1. Len(pcm.payload) \in Nat
    BY <1>2, PcmParts
  <2>2. QED
    BY <1>4, <1>8, <2>1, LengthAssumption
<1>10. Converts(aaf)
  BY <1>1, <1>4, <1>5, <1>8 DEF Converts
<1>11. FromAaf(aaf) \in StreamPdus
  <2>1. PICK pdu, found :
            pdu = FromAaf(AafOf(c, g, f, sparse, events)) /\ found = pdu.fields
    OBVIOUS
  <2>2. pdu \in StreamPdus
    BY <1>2, <1>4, <1>5, <1>9, <2>1, Converted
  <2>3. QED
    BY <1>3, <2>1, <2>2
<1>12. ToAaf(FromAaf(aaf)) = aaf
  <2>1. ValidStreamData(c)
    BY <1>1
  <2>2. QED
    BY <1>2, <1>3, <1>4, <1>5, <1>6, <1>7, <2>1, AafBack
<1>13. QED
  BY <1>10, <1>11, <1>12

\* What Aaf::try_from reads, and when it accepts it.
DataIn(pdu, fields) ==
    [format |-> Number(SubSeq(fields.format_specific_data_2, 1, 8)),
     aaf_format_specific_data_1 |-> SubSeq(fields.format_specific_data_2, 9, 32),
     asfd |-> Slice(fields.format_specific_data_3, 0, 3),
     aaf_format_specific_data_2 |-> Slice(fields.format_specific_data_3, 8, 8),
     aaf_format_specific_payload |-> pdu.payload]

LEMMA Accepted ==
    ASSUME NEW pdu, NEW aaf, aaf = ToAaf(pdu), aaf.valid, NEW fields, fields = pdu.fields,
           NEW data, data = DataIn(pdu, fields)
    PROVE  /\ ValidStreamData(pdu.common) /\ data.format \in AafFormats
           /\ ValidFormatData(FromSpecific(data))
           /\ aaf = AafOf(pdu.common, GenericIn(fields), FromSpecific(data),
                          Slice(fields.format_specific_data_3, 3, 1),
                          Slice(fields.format_specific_data_3, 4, 4))
<1>1. PICK packed :
          /\ packed = Read(PackedLayout, fields.format_specific_data_3)
          /\ packed.asfd = Slice(fields.format_specific_data_3, 0, 3)
          /\ packed.sparse_timestamp = Slice(fields.format_specific_data_3, 3, 1)
          /\ packed.event_flags = Slice(fields.format_specific_data_3, 4, 4)
          /\ packed.aaf_format_specific_data_2 = Slice(fields.format_specific_data_3, 8, 8)
  BY PackedRead
<1>2. data = [format |-> Number(SubSeq(fields.format_specific_data_2, 1, 8)),
              aaf_format_specific_data_1 |-> SubSeq(fields.format_specific_data_2, 9, 32),
              asfd |-> packed.asfd,
              aaf_format_specific_data_2 |-> packed.aaf_format_specific_data_2,
              aaf_format_specific_payload |-> pdu.payload]
      /\ data.format = Number(SubSeq(fields.format_specific_data_2, 1, 8))
  BY <1>1 DEF DataIn
<1>3. PICK generic : generic = GenericIn(fields)
                     /\ generic = [name \in GenericFields |-> fields[name]]
  BY DEF GenericIn
<1>4. aaf = IF ValidStreamData(pdu.common) /\ data.format \in AafFormats
               /\ ValidFormatData(FromSpecific(data))
            THEN [valid |-> TRUE, common |-> pdu.common, stream_data |-> generic,
                  format_data |-> FromSpecific(data),
                  sparse_timestamp |-> packed.sparse_timestamp,
                  event_flags |-> packed.event_flags]
            ELSE NoAaf
  BY <1>1, <1>2, <1>3 DEF ToAaf
<1>5. ~NoAaf.valid
  BY DEF NoAaf
<1>6. /\ ValidStreamData(pdu.common) /\ data.format \in AafFormats
      /\ ValidFormatData(FromSpecific(data))
      /\ aaf = [valid |-> TRUE, common |-> pdu.common, stream_data |-> generic,
                format_data |-> FromSpecific(data),
                sparse_timestamp |-> packed.sparse_timestamp,
                event_flags |-> packed.event_flags]
  BY <1>4, <1>5
<1>7. QED
  BY <1>1, <1>3, <1>6 DEF AafOf

\* The fields that a stream packet holds for its format, as that reads them.
LEMMA DataRead ==
    ASSUME NEW pdu \in StreamPdus, NEW fields, fields = pdu.fields,
           NEW data, data = DataIn(pdu, fields), data.format \in AafFormats
    PROVE  /\ data \in SpecificDatas /\ GenericIn(fields) \in GenericStreamData
           /\ Slice(fields.format_specific_data_3, 3, 1) \in Word(1)
           /\ Slice(fields.format_specific_data_3, 4, 4) \in Word(4)
           /\ data.aaf_format_specific_payload = pdu.payload
<1>1. pdu.common \in Commons /\ fields \in StreamFields /\ pdu.payload \in Seq(Byte)
  BY StreamParts
<1>2. PICK two, three : two = fields.format_specific_data_2 /\ three = fields.format_specific_data_3
  OBVIOUS
<1>3. /\ two \in Word(32) /\ three \in Word(16)
      /\ fields.media_clock_restart \in Word(1) /\ fields.avtp_timestamp_valid \in Word(1)
      /\ fields.sequence_num \in Word(8) /\ fields.timestamp_uncertain \in Word(1)
      /\ fields.mac_address \in Word(48) /\ fields.unique_id \in Word(16)
      /\ fields.avtp_timestamp \in Word(32)
  BY <1>1, <1>2 DEF StreamFields
<1>4. two \in Seq(Bit) /\ Len(two) = 32 /\ three \in Seq(Bit) /\ Len(three) = 16
  BY <1>3, Words DEF Bit
<1>5. SubSeq(two, 9, 32) \in Word(24)
  <2>1. 8 + 1 = 9 /\ 8 + 24 = 32 /\ 8 + 24 <= Len(two)
    BY <1>4
  <2>2. Slice(two, 8, 24) \in Word(24)
    BY <1>4, <2>1, WordsRead
  <2>3. QED
    BY <2>1, <2>2 DEF Slice
<1>6. /\ Slice(three, 0, 3) \in Word(3) /\ Slice(three, 3, 1) \in Word(1)
      /\ Slice(three, 4, 4) \in Word(4) /\ Slice(three, 8, 8) \in Word(8)
  <2>1. /\ 0 + 3 <= Len(three) /\ 3 + 1 <= Len(three) /\ 4 + 4 <= Len(three)
        /\ 8 + 8 <= Len(three)
    BY <1>4
  <2>2. QED
    BY <1>4, <2>1, WordsRead
<1>7. data = [format |-> data.format,
              aaf_format_specific_data_1 |-> SubSeq(two, 9, 32),
              asfd |-> Slice(three, 0, 3),
              aaf_format_specific_data_2 |-> Slice(three, 8, 8),
              aaf_format_specific_payload |-> pdu.payload]
  <2>1. PICK format : format = Number(SubSeq(two, 1, 8))
    OBVIOUS
  <2>2. data = [format |-> format,
                aaf_format_specific_data_1 |-> SubSeq(two, 9, 32),
                asfd |-> Slice(three, 0, 3),
                aaf_format_specific_data_2 |-> Slice(three, 8, 8),
                aaf_format_specific_payload |-> pdu.payload]
    BY <1>2, <2>1 DEF DataIn
  <2>3. data.format = format
    BY <2>2
  <2>4. QED
    BY <2>2, <2>3
<1>8. PICK format : format = data.format
  OBVIOUS
<1>9. data \in SpecificDatas
  <2>1. format \in AafFormats
        /\ data = [format |-> format,
                   aaf_format_specific_data_1 |-> SubSeq(two, 9, 32),
                   asfd |-> Slice(three, 0, 3),
                   aaf_format_specific_data_2 |-> Slice(three, 8, 8),
                   aaf_format_specific_payload |-> pdu.payload]
    BY <1>7, <1>8
  <2> HIDE <1>7, <1>8
  <2>2. QED
    BY <1>1, <1>5, <1>6, <2>1 DEF SpecificDatas
<1>10. GenericIn(fields) \in GenericStreamData
  <2>1. PICK a, b, c, d, e, f, h :
            /\ fields.media_clock_restart = a /\ fields.avtp_timestamp_valid = b
            /\ fields.sequence_num = c /\ fields.timestamp_uncertain = d
            /\ fields.mac_address = e /\ fields.unique_id = f /\ fields.avtp_timestamp = h
    OBVIOUS
  <2>2. GenericIn(fields) =
            [media_clock_restart |-> a, avtp_timestamp_valid |-> b, sequence_num |-> c,
             timestamp_uncertain |-> d, mac_address |-> e, unique_id |-> f,
             avtp_timestamp |-> h]
    BY <2>1, GenericOf
  <2>3. QED
    BY <1>3, <2>1, <2>2 DEF GenericStreamData
<1>11. data.aaf_format_specific_payload = pdu.payload
  BY DEF DataIn
<1>12. QED
  BY <1>2, <1>6, <1>9, <1>10, <1>11

\* An Aaf taken from a stream packet turns into a header that reads as the same Aaf.
LEMMA AcceptedBack ==
    ASSUME NEW pdu \in StreamPdus, NEW aaf, aaf = ToAaf(pdu), aaf.valid
    PROVE  ToAaf(FromAaf(aaf)) = aaf /\ (MaxLength = 65535 => Converts(aaf))
<1>1. PICK fields, data, c, g, f, sparse, events :
          /\ fields = pdu.fields /\ data = DataIn(pdu, fields) /\ c = pdu.common
          /\ g = GenericIn(fields) /\ f = FromSpecific(data)
          /\ sparse = Slice(fields.format_specific_data_3, 3, 1)
          /\ events = Slice(fields.format_specific_data_3, 4, 4)
  OBVIOUS
<1>2. /\ ValidStreamData(c) /\ data.format \in AafFormats /\ ValidFormatData(f)
      /\ aaf = AafOf(c, g, f, sparse, events)
  BY <1>1, Accepted
<1>3. /\ data \in SpecificDatas /\ g \in GenericStreamData /\ sparse \in Word(1)
      /\ events \in Word(4) /\ data.aaf_format_specific_payload = pdu.payload
  BY <1>1, <1>2, DataRead
<1>4. c \in Commons /\ Len(pdu.payload) \in Nat /\ Len(pdu.payload) < 65536
  BY <1>1, StreamParts
<1>5. PICK sent : sent = IntoSpecific(f)
  OBVIOUS
<1>6. /\ sent \in SpecificDatas /\ FromSpecific(sent) = f
      /\ sent.aaf_format_specific_payload = pdu.payload
  <2>1. CASE data.format = AES3_32Bit
    <3>1. f = [variant |-> "Aes3", data |-> data]
      BY <1>1, <2>1 DEF FromSpecific
    <3>2. sent = data
      BY <1>5, <3>1 DEF IntoSpecific
    <3>3. QED
      BY <1>1, <1>3, <3>2
  <2>2. CASE data.format # AES3_32Bit
    <3>1. PICK pcm : pcm = PcmFromSpecific(data) /\ f = [variant |-> "Pcm", data |-> pcm]
      BY <1>1, <2>2 DEF FromSpecific
    <3>2. pcm.nominal_sample_rate \in SampleRates
      BY <1>2, <3>1 DEF ValidFormatData
    <3>3. pcm \in Pcms /\ pcm.payload = pdu.payload
      BY <1>3, <2>2, <3>1, <3>2, PcmRead
    <3>4. sent = PcmIntoSpecific(pcm)
      BY <1>5, <3>1 DEF IntoSpecific
    <3>5. /\ sent \in SpecificDatas /\ sent.format \in PcmFormats
          /\ sent.aaf_format_specific_payload = pcm.payload
          /\ PcmFromSpecific(sent) = pcm
      BY <3>3, <3>4, PcmBack
    <3>6. sent.format # AES3_32Bit
      BY <3>5 DEF PcmFormats, AES3_32Bit
    <3>7. FromSpecific(sent) = f
      BY <3>1, <3>5, <3>6 DEF FromSpecific
    <3>8. QED
      BY <3>3, <3>5, <3>7
  <2>3. QED
    BY <2>1, <2>2
<1>7. ToAaf(FromAaf(aaf)) = aaf
  BY <1>2, <1>3, <1>4, <1>5, <1>6, AafBack
<1>8. aaf.format_data = f
  BY <1>2 DEF AafOf
<1>9. MaxLength = 65535 => Converts(aaf)
  BY <1>4, <1>5, <1>6, <1>8 DEF Converts
<1>10. QED
  BY <1>7, <1>9

\* What arrives as a stream packet is one, whoever sent it.
LEMMA StreamArrives ==
    ASSUME NEW bits \in Seq(Bit), Decode(bits).outcome = "Avtpdu",
           Decode(bits).pdu.variant = "Stream"
    PROVE  Decode(bits).pdu \in StreamPdus
<1>1. PICK subtype : subtype = Number(Slice(bits, 0, 8))
  OBVIOUS
<1>2. /\ Failed("Io").outcome # "Avtpdu" /\ Failed("UnknownSubtype").outcome # "Avtpdu"
      /\ Failed("panic").outcome # "Avtpdu"
  BY DEF Failed
<1>3. /\ ~(Len(bits) < 8) /\ subtype \in Subtypes /\ ~(Len(bits) < 12)
      /\ \/ subtype \in StreamSubtypes /\ Decode(bits) = DecodedStream(bits)
         \/ subtype \notin StreamSubtypes /\ Decode(bits) = DecodedControl(bits)
  BY <1>1, <1>2, Decodes
<1>4. Len(bits) \in Nat /\ Len(bits) >= 12
  BY <1>3
<1>5. PICK remain : /\ remain = Behind(bits) /\ remain \in Seq(Bit) /\ Len(remain) = Len(bits) - 12
  BY <1>4, BehindIs
<1>6. Decode(bits) # DecodedControl(bits)
  <2>1. DecodedControl(bits).outcome = "Avtpdu" => DecodedControl(bits).pdu.variant = "Control"
    BY <1>2 DEF DecodedControl, AfterHeader, Decoded
  <2>2. QED
    BY <2>1
<1>7. Decode(bits) = DecodedStream(bits)
  BY <1>3, <1>6
<1>8. PICK common, fields, length :
          /\ common = CommonIn(bits) /\ fields = StreamFieldsIn(remain)
          /\ length = Number(Slice(remain, 148, 16))
  OBVIOUS
<1>9. ~(Len(remain) < 180) /\ Decode(bits) = AfterHeader("Stream", common, fields, 180, length, remain)
  BY <1>2, <1>5, <1>7, <1>8 DEF DecodedStream
<1>10. /\ ~(Len(remain) - 180 < 8 * length)
       /\ Decode(bits) = Decoded([variant |-> "Stream", common |-> common, fields |-> fields,
                                  payload |-> ToBytes(Slice(remain, 180, 8 * length))])
  BY <1>2, <1>9 DEF AfterHeader
<1>11. Len(remain) \in Nat /\ Len(remain) >= 180
  BY <1>5, <1>9
<1>12. length \in Nat /\ length < 65536
  <2>1. 148 + 16 <= Len(remain)
    BY <1>11
  <2>2. Slice(remain, 148, 16) \in Word(16)
    BY <1>5, <2>1, WordsRead
  <2>3. QED
    BY <1>8, <2>2, WordNumbers
<1>13. common \in Commons
  <2>1. 8 + 1 <= Len(bits) /\ 9 + 3 <= Len(bits)
    BY <1>4
  <2>2. Slice(bits, 8, 1) \in Word(1) /\ Slice(bits, 9, 3) \in Word(3)
    BY <2>1, WordsRead
  <2>3. QED
    BY <1>1, <1>3, <1>8, <2>2 DEF CommonIn, Commons
<1>14. fields \in StreamFields
  <2>1. /\ 0 + 1 <= Len(remain) /\ 1 + 2 <= Len(remain) /\ 3 + 1 <= Len(remain)
        /\ 4 + 8 <= Len(remain) /\ 12 + 7 <= Len(remain) /\ 19 + 1 <= Len(remain)
        /\ 20 + 48 <= Len(remain) /\ 68 + 16 <= Len(remain) /\ 84 + 32 <= Len(remain)
        /\ 116 + 32 <= Len(remain) /\ 164 + 16 <= Len(remain)
    BY <1>11
  <2>2. \A from \in Nat, width \in Nat :
             from + width <= Len(remain) => Slice(remain, from, width) \in Word(width)
    BY <1>5, WordsRead
  <2>3. /\ Slice(remain, 0, 1) \in Word(1) /\ Slice(remain, 1, 2) \in Word(2)
        /\ Slice(remain, 3, 1) \in Word(1) /\ Slice(remain, 4, 8) \in Word(8)
        /\ Slice(remain, 12, 7) \in Word(7) /\ Slice(remain, 19, 1) \in Word(1)
        /\ Slice(remain, 20, 48) \in Word(48) /\ Slice(remain, 68, 16) \in Word(16)
        /\ Slice(remain, 84, 32) \in Word(32) /\ Slice(remain, 116, 32) \in Word(32)
        /\ Slice(remain, 164, 16) \in Word(16)
    BY <2>1, <2>2
  <2>4. QED
    BY <1>8, <2>3 DEF StreamFieldsIn, StreamFields
<1>15. PICK payload : /\ payload = ToBytes(Slice(remain, 180, 8 * length))
                      /\ payload \in Seq(Byte) /\ Len(payload) = length
  <2>1. PICK from \in Nat, width \in Nat :
            from = 180 /\ width = 8 * length /\ from + width <= Len(remain)
    <3>1. 180 \in Nat /\ 8 * length \in Nat /\ 180 + 8 * length <= Len(remain)
      BY <1>10, <1>11, <1>12
    <3>2. QED
      BY <3>1
  <2>2. Slice(remain, from, width) \in Seq(Bit) /\ Len(Slice(remain, from, width)) = width
    <3>1. from + width <= Len(remain)
      BY <2>1
    <3>2. QED
      BY <1>5, <3>1, Slices
  <2>3. PICK word : word = Slice(remain, from, width) /\ word \in Seq(Bit) /\ Len(word) = 8 * length
    BY <2>1, <2>2
  <2>4. ToBytes(word) \in Seq(Byte) /\ Len(ToBytes(word)) = length
    BY <1>12, <2>3, BytesOfBits
  <2>5. QED
    BY <2>1, <2>3, <2>4
<1>16. Decode(bits).pdu = [variant |-> "Stream", common |-> common, fields |-> fields,
                           payload |-> payload]
  BY <1>10, <1>15 DEF Decoded
<1>17. Len(payload) <= 65535
  BY <1>12, <1>15
<1>18. QED
  BY <1>13, <1>14, <1>15, <1>16, <1>17 DEF StreamPdus, Pdus

-----------------------------------------------------------------------------
(* The invariant *)

\* The frame on the wire, as far as its history is known.
OnTheWire ==
    wire # NoFrame /\ state # "foreign" =>
        /\ packet \in Avtpdus /\ ValidSubtype(packet)
        /\ state \in {"whole", "padded"} => Begins(wire, Frame(packet))
        /\ state = "whole" => wire = Frame(packet)
        /\ state = "cut" => Begins(Frame(packet), wire) /\ Len(wire) < Len(Frame(packet))

\* An Aaf that the sender has accepted, and the packet it became.
FromTalker ==
    source.valid => /\ source \in PcmAafs /\ ValidPcm(source.format_data.data)
                    /\ ValidStreamData(source.common) /\ packet = FromAaf(source)
                    /\ state # "foreign"

\* What the receiver has, last.
ToListener ==
    received.outcome = "Avtpdu" =>
        /\ received.pdu.variant = "Stream" => received.pdu \in StreamPdus
        /\ source.valid => received.pdu = packet

EthernetInv ==
    /\ wire \in Seq(Byte) /\ state \in {"whole", "padded", "cut", "foreign"}
    /\ "sender" \notin panicked
    /\ source.valid \in BOOLEAN
    /\ OnTheWire /\ FromTalker /\ ToListener

\* Sending leaves that packet's frame in the buffer, or nothing on the wire.
LEMMA Transmits ==
    ASSUME NEW pdu \in Avtpdus, NEW accepted \in BOOLEAN, Transmit(pdu, accepted)
    PROVE  /\ wire' \in Seq(Byte)
           /\ wire' # NoFrame => wire' = Frame(pdu) /\ ValidSubtype(pdu)
           /\ accepted /\ ValidSubtype(pdu) => wire' = Frame(pdu)
<1>1. ClearedBuffer \o EthernetHeader = EthernetHeader
  BY Headers DEF ClearedBuffer
<1>2. Frame(pdu) = (ClearedBuffer \o EthernetHeader) \o ToBytes(Encode(pdu))
  BY <1>1 DEF Frame
<1>3. \/ wire' = NoFrame /\ ~(accepted /\ ValidSubtype(pdu))
      \/ wire' = Frame(pdu) /\ ValidSubtype(pdu)
  <2>1. PICK header, frame :
            /\ header = ClearedBuffer \o EthernetHeader
            /\ frame = header \o ToBytes(Encode(pdu)) /\ frame = Frame(pdu)
    BY <1>2
  <2>2. IF ValidSubtype(pdu)
        THEN frame_buf' = frame /\ wire' = IF accepted THEN frame_buf' ELSE NoFrame
        ELSE wire' = NoFrame
    BY <2>1 DEF Transmit
  <2>3. QED
    BY <2>1, <2>2
<1>4. Frame(pdu) \in Seq(Byte)
  BY Frames
<1>5. NoFrame \in Seq(Byte)
  BY DEF NoFrame
<1>6. QED
  BY <1>3, <1>4, <1>5

\* A word begins with itself.
LEMMA BeginsItself ==
    ASSUME NEW S, NEW word \in Seq(S)
    PROVE  Begins(word, word)
BY DEF Begins

LEMMA SendsAaf ==
    ASSUME EthernetInv, NEW aaf \in PcmAafs, NEW accepted \in BOOLEAN, SendAaf(aaf, accepted)
    PROVE  EthernetInv'
<1>1. aaf \in PcmAafs /\ ValidPcm(aaf.format_data.data) /\ ValidStreamData(aaf.common)
  BY DEF SendAaf
<1>2. Converts(aaf) /\ FromAaf(aaf) \in StreamPdus
  BY <1>1, TalkerBack
<1>3. /\ packet' = FromAaf(aaf) /\ source' = aaf /\ Transmit(packet', accepted)
      /\ panicked' = panicked /\ state' = "whole" /\ received' = Nothing
  BY <1>2 DEF SendAaf
<1>4. packet' \in Avtpdus
  BY <1>2, <1>3 DEF Avtpdus
<1>5. PICK pdu \in Avtpdus : pdu = packet' /\ Transmit(pdu, accepted)
  BY <1>3, <1>4
<1>6. /\ wire' \in Seq(Byte)
      /\ wire' # NoFrame => wire' = Frame(pdu) /\ ValidSubtype(pdu)
  BY <1>5, Transmits
<1>7. OnTheWire'
  <2>1. ASSUME wire' # NoFrame
        PROVE  wire' = Frame(packet') /\ ValidSubtype(packet') /\ Begins(wire', Frame(packet'))
    BY <1>5, <1>6, <2>1, BeginsItself
  <2>2. QED
    BY <1>3, <1>4, <2>1 DEF OnTheWire, NoFrame
<1>8. aaf.valid = TRUE
  BY <1>1, PcmAafParts
<1>9. FromTalker'
  BY <1>1, <1>3 DEF FromTalker
<1>10. ToListener'
  BY <1>3 DEF ToListener, Nothing, Failed
<1>11. QED
  BY <1>3, <1>6, <1>7, <1>8, <1>9, <1>10 DEF EthernetInv

LEMMA SendsPacket ==
    ASSUME EthernetInv, NEW pdu \in Packets, NEW accepted \in BOOLEAN, SendPacket(pdu, accepted)
    PROVE  EthernetInv'
<1>1. /\ packet' = pdu /\ source' = NoAaf /\ Transmit(pdu, accepted)
      /\ panicked' = panicked /\ state' = "whole" /\ received' = Nothing
  BY DEF SendPacket
<1>2. pdu \in Avtpdus
  BY EthernetAssumption
<1>3. /\ wire' \in Seq(Byte)
      /\ wire' # NoFrame => wire' = Frame(pdu) /\ ValidSubtype(pdu)
  BY <1>1, <1>2, Transmits
<1>4. OnTheWire'
  <2>1. ASSUME wire' # NoFrame
        PROVE  wire' = Frame(pdu) /\ ValidSubtype(pdu) /\ Begins(wire', Frame(pdu))
    BY <1>3, <2>1, BeginsItself
  <2>2. QED
    BY <1>1, <1>2, <2>1 DEF OnTheWire, NoFrame
<1>5. NoAaf.valid = FALSE
  BY DEF NoAaf
<1>6. FromTalker'
  BY <1>1, <1>5 DEF FromTalker
<1>7. ToListener'
  BY <1>1 DEF ToListener, Nothing, Failed
<1>8. QED
  BY <1>1, <1>3, <1>4, <1>5, <1>6, <1>7 DEF EthernetInv

LEMMA Pads ==
    ASSUME EthernetInv, Pad
    PROVE  EthernetInv'
<1> DEFINE zeros == [i \in 1..(MinFrame - Len(wire)) |-> 0]
           padded == wire \o zeros
<1>1. /\ wire' = padded /\ wire # NoFrame /\ state = "whole" /\ state' = "padded"
      /\ Len(wire) < MinFrame
      /\ packet' = packet /\ source' = source /\ received' = received /\ panicked' = panicked
  BY DEF Pad, sender
<1>2. /\ wire \in Seq(Byte) /\ packet \in Avtpdus /\ ValidSubtype(packet)
      /\ wire = Frame(packet)
  BY <1>1 DEF EthernetInv, OnTheWire
<1>3. zeros \in Seq(Byte)
  <2>1. MinFrame - Len(wire) \in Nat
    BY <1>1, <1>2, EthernetAssumption
  <2>2. \A n \in Nat : [i \in 1..n |-> 0] \in Seq(Byte)
    BY DEF Byte
  <2>3. QED
    BY <2>1, <2>2
<1> HIDE DEF zeros
<1>4. /\ padded \in Seq(Byte) /\ Len(padded) = Len(wire) + Len(zeros)
      /\ \A i \in 1..(Len(wire) + Len(zeros)) :
             padded[i] = IF i <= Len(wire) THEN wire[i] ELSE zeros[i - Len(wire)]
  BY <1>2, <1>3, ConcatProperties
<1> HIDE DEF padded
<1>5. Begins(padded, wire)
  BY <1>2, <1>3, <1>4 DEF Begins
<1>6. OnTheWire'
  BY <1>1, <1>2, <1>5 DEF OnTheWire
<1>7. FromTalker' /\ ToListener'
  BY <1>1 DEF EthernetInv, FromTalker, ToListener
<1>8. QED
  BY <1>1, <1>4, <1>6, <1>7 DEF EthernetInv

LEMMA Cuts ==
    ASSUME EthernetInv, NEW length \in 1..(Len(wire) - 1), Cut(length)
    PROVE  EthernetInv'
<1>1. /\ wire' = SubSeq(wire, 1, length) /\ wire # NoFrame /\ state = "whole" /\ state' = "cut"
      /\ packet' = packet /\ source' = source /\ received' = received /\ panicked' = panicked
  BY DEF Cut, sender
<1>2. /\ wire \in Seq(Byte) /\ packet \in Avtpdus /\ ValidSubtype(packet)
      /\ wire = Frame(packet)
  BY <1>1 DEF EthernetInv, OnTheWire
<1>3. PICK cut : cut = SubSeq(wire, 1, length)
  OBVIOUS
<1>4. /\ cut \in Seq(Byte) /\ Len(cut) = length /\ length < Len(wire)
      /\ \A i \in 1..length : cut[i] = wire[i]
  <2>1. PICK zero \in Nat, width \in Nat : zero = 0 /\ width = length /\ zero + width <= Len(wire)
    <3>1. 0 \in Nat /\ length \in Nat /\ 0 + length <= Len(wire)
      BY <1>2
    <3>2. QED
      BY <3>1
  <2>2. /\ Slice(wire, zero, width) \in Seq(Byte) /\ Len(Slice(wire, zero, width)) = width
        /\ \A i \in 1..width : Slice(wire, zero, width)[i] = wire[zero + i]
    <3>1. zero + width <= Len(wire)
      BY <2>1
    <3>2. QED
      BY <1>2, <3>1, Slices
  <2>3. cut = Slice(wire, zero, width)
    BY <1>3, <2>1 DEF Slice
  <2>4. QED
    BY <1>2, <2>1, <2>2, <2>3
<1>5. Begins(wire, cut) /\ Len(cut) < Len(wire)
  BY <1>2, <1>4 DEF Begins
<1>6. OnTheWire'
  BY <1>1, <1>2, <1>3, <1>5 DEF OnTheWire
<1>7. FromTalker' /\ ToListener'
  BY <1>1 DEF EthernetInv, FromTalker, ToListener
<1>8. QED
  BY <1>1, <1>3, <1>4, <1>6, <1>7 DEF EthernetInv

\* What the receiver takes out of an AVTP frame, by the frame's history.
LEMMA Receives ==
    ASSUME EthernetInv, Receive
    PROVE  /\ state \in {"whole", "padded"} /\ packet.variant # "Alternative" =>
                  received' = Decoded(packet)
           /\ state \in {"whole", "padded"} /\ packet.variant = "Alternative" =>
                  received'.outcome # "Avtpdu"
           /\ state = "cut" => received'.outcome # "Avtpdu"
           /\ received'.outcome = "Avtpdu" /\ received'.pdu.variant = "Stream" =>
                  received'.pdu \in StreamPdus
<1>1. /\ wire \in Seq(Byte) /\ wire # NoFrame /\ Len(wire) >= 14
      /\ received' = Decode(InFrame(wire))
  BY DEF Receive, IsAvtp, EthernetInv, InFrame
<1>2. ASSUME state \in {"whole", "padded"}
      PROVE  /\ packet.variant # "Alternative" => received' = Decoded(packet)
             /\ packet.variant = "Alternative" => received'.outcome # "Avtpdu"
  <2>1. packet \in Avtpdus /\ ValidSubtype(packet) /\ Begins(wire, Frame(packet))
    BY <1>1, <1>2 DEF EthernetInv, OnTheWire
  <2>2. QED
    BY <1>1, <2>1, WholeIsDecoded
<1>3. ASSUME state = "cut"
      PROVE  received'.outcome # "Avtpdu"
  <2>1. /\ packet \in Avtpdus /\ ValidSubtype(packet) /\ Begins(Frame(packet), wire)
        /\ Len(wire) < Len(Frame(packet))
    BY <1>1, <1>3 DEF EthernetInv, OnTheWire
  <2>2. QED
    BY <1>1, <2>1, CutIsNotDecoded
<1>4. InFrame(wire) \in Seq(Bit)
  <2>1. PICK m \in Nat : Len(wire) = 14 + m
    <3>1. Len(wire) - 14 \in Nat /\ Len(wire) = 14 + (Len(wire) - 14)
      BY <1>1
    <3>2. QED
      BY <3>1
  <2>2. PICK bytes \in Seq(Byte) : InFrame(wire) = ToBits(bytes)
    BY <1>1, <2>1, InFrames
  <2>3. QED
    BY <2>2, BitsOfBytes
<1>5. received'.outcome = "Avtpdu" /\ received'.pdu.variant = "Stream" =>
          received'.pdu \in StreamPdus
  BY <1>1, <1>4, StreamArrives
<1>6. QED
  BY <1>2, <1>3, <1>5

LEMMA EthernetStep ==
    ASSUME EthernetInv, [Next]_vars
    PROVE  EthernetInv'
<1>1. ASSUME NEW accepted \in BOOLEAN, NEW aaf \in Inputs, SendAaf(aaf, accepted)
      PROVE  EthernetInv'
  <2>1. aaf \in PcmAafs
    BY EthernetAssumption
  <2>2. QED
    BY <1>1, <2>1, SendsAaf
<1>2. ASSUME NEW accepted \in BOOLEAN, NEW pdu \in Packets, SendPacket(pdu, accepted)
      PROVE  EthernetInv'
  BY <1>2, SendsPacket
<1>3. ASSUME NEW frame \in OtherFrames, OtherProtocol(frame)
      PROVE  EthernetInv'
  <2>1. frame \in Seq(Byte)
    BY EthernetAssumption
  <2>2. NoAaf.valid = FALSE
    BY DEF NoAaf
  <2>3. QED
    BY <1>3, <2>1, <2>2 DEF OtherProtocol, EthernetInv, OnTheWire, FromTalker, ToListener
<1>4. CASE Pad
  BY <1>4, Pads
<1>5. CASE Lose
  <2>1. NoFrame \in Seq(Byte)
    BY DEF NoFrame
  <2>2. QED
    BY <1>5, <2>1 DEF Lose, sender, EthernetInv, OnTheWire, FromTalker, ToListener
<1>6. ASSUME NEW length \in 1..(Len(wire) - 1), Cut(length)
      PROVE  EthernetInv'
  BY <1>6, Cuts
<1>7. CASE Skip
  <2>1. NoFrame \in Seq(Byte)
    BY DEF NoFrame
  <2>2. QED
    BY <1>7, <2>1 DEF Skip, sender, EthernetInv, OnTheWire, FromTalker, ToListener
<1>8. CASE Receive
  <2>1. NoFrame \in Seq(Byte)
    BY DEF NoFrame
  <2>2. /\ wire' = NoFrame /\ packet' = packet /\ source' = source /\ state' = state
        /\ "sender" \notin panicked'
    BY <1>8 DEF Receive, sender, EthernetInv
  <2>3. OnTheWire' /\ FromTalker'
    BY <2>2 DEF EthernetInv, OnTheWire, FromTalker
  <2>4. ASSUME received'.outcome = "Avtpdu", source'.valid
        PROVE  received'.pdu = packet'
    <3>1. /\ source \in PcmAafs /\ packet = FromAaf(source) /\ state \in {"whole", "padded", "cut"}
      BY <2>2, <2>4 DEF EthernetInv, FromTalker
    <3>2. packet.variant = "Stream"
      BY <3>1 DEF FromAaf
    <3>3. received' = Decoded(packet)
      BY <1>8, <2>4, <3>1, <3>2, Receives
    <3>4. QED
      BY <2>2, <3>3 DEF Decoded
  <2>5. ToListener'
    BY <1>8, <2>4, Receives DEF ToListener
  <2>6. QED
    BY <2>1, <2>2, <2>3, <2>5 DEF EthernetInv
<1>9. CASE UNCHANGED vars
  BY <1>9 DEF vars, EthernetInv, OnTheWire, FromTalker, ToListener
<1>10. QED
  BY <1>1, <1>2, <1>3, <1>4, <1>5, <1>6, <1>7, <1>8, <1>9 DEF Next

LEMMA EthernetInit ==
    ASSUME Init
    PROVE  EthernetInv
<1>1. NoAaf.valid = FALSE /\ Nothing.outcome = "nothing"
  BY DEF NoAaf, Nothing, Failed
<1>2. NoFrame \in Seq(Byte)
  BY DEF NoFrame
<1>3. QED
  BY <1>1, <1>2 DEF Init, EthernetInv, OnTheWire, FromTalker, ToListener

\* The invariant of the segment: a frame that was not cut begins with what its packet
\* encodes to, and what was received of a talker is the packet it sent.
THEOREM EthernetCorrect == Spec => []EthernetInv
<1>1. Init => EthernetInv
  BY EthernetInit
<1>2. EthernetInv /\ [Next]_vars => EthernetInv'
  BY EthernetStep
<1>3. QED
  BY <1>1, <1>2, PTL DEF Spec

\* Whole packets arrive as they were sent, for every packet, whatever the buffer of the
\* sender and the padding of the segment hold (AvtpEthernet!ReceivedIsSent).
THEOREM ReceivedIsSentAlways == Spec => ReceivedIsSent
<1>1. EthernetInv /\ [Next]_vars =>
          [Receive /\ state \in {"whole", "padded"} /\ packet.variant # "Alternative" =>
               received' = Decoded(packet)]_vars
  BY Receives
<1>2. QED
  BY <1>1, EthernetCorrect, PTL DEF Spec, ReceivedIsSent

\* A frame that is cut anywhere is an error to the receiver and never a shorter packet
\* (AvtpEthernet!CutIsRefused).
THEOREM CutIsRefusedAlways == Spec => CutIsRefused
<1>1. EthernetInv /\ [Next]_vars =>
          [Receive /\ state = "cut" => received'.outcome # "Avtpdu"]_vars
  BY Receives
<1>2. QED
  BY <1>1, EthernetCorrect, PTL DEF Spec, CutIsRefused

\* What AafPcm::new and Aaf::new accept is converted without a panic, and Aaf::try_from
\* reads the same Aaf of it at the other end (AvtpEthernet!BuiltIsAccepted).
THEOREM BuiltIsAcceptedAlways == Spec => []BuiltIsAccepted
<1>1. EthernetInv => BuiltIsAccepted
  <2>1. ASSUME EthernetInv, source.valid, received.outcome = "Avtpdu"
        PROVE  ToAaf(received.pdu) = source
    <3>1. /\ source \in PcmAafs /\ ValidPcm(source.format_data.data)
          /\ ValidStreamData(source.common) /\ received.pdu = FromAaf(source)
      BY <2>1 DEF EthernetInv, FromTalker, ToListener
    <3>2. ToAaf(FromAaf(source)) = source
      BY <3>1, TalkerBack
    <3>3. QED
      BY <3>1, <3>2
  <2>2. QED
    BY <2>1 DEF EthernetInv, BuiltIsAccepted
<1>2. QED
  BY <1>1, EthernetCorrect, PTL

\* Every Aaf that Aaf::try_from accepts of a received packet converts into a header
\* without a panic, and that reads as the same Aaf (AvtpEthernet!SentOnUnchanged).  The
\* longest payload is that of the code, u16::MAX.
THEOREM SentOnUnchangedAlways ==
    ASSUME MaxLength = 65535
    PROVE  Spec => []SentOnUnchanged
<1>1. EthernetInv => SentOnUnchanged
  <2>1. PICK aaf : aaf = ToAaf(received.pdu)
    OBVIOUS
  <2>2. ASSUME EthernetInv, received.outcome = "Avtpdu", received.pdu.variant = "Stream",
               aaf.valid
        PROVE  Converts(aaf) /\ ToAaf(FromAaf(aaf)) = aaf
    <3>1. received.pdu \in StreamPdus
      BY <2>2 DEF EthernetInv, ToListener
    <3>2. QED
      BY <2>1, <2>2, <3>1, AcceptedBack
  <2>3. QED
    BY <2>1, <2>2 DEF SentOnUnchanged
<1>2. QED
  BY <1>1, EthernetCorrect, PTL


\* What stands at a place of a file.
SizeAt(bytes, at) == U32(bytes, at + 4)
NextOf(bytes, at) == at + 8 + Padded(SizeAt(bytes, at))
ChunkAt(bytes, at) ==
    [chunk_id |-> SubSeq(bytes, at, at + 3),
     data |-> SubSeq(bytes, at + 8, at + 7 + SizeAt(bytes, at))]
\* Why a scan ends there, or "more".
EndAt(bytes, until, at) ==
    IF ChunkHeader(bytes, at) # "chunk" THEN ChunkHeader(bytes, at)
    ELSE IF SubSeq(bytes, at, at + 3) \in until THEN "data"
    ELSE IF Len(bytes) < NextOf(bytes, at) - 1 THEN "Io"
    ELSE "more"
Ending(end, at) == [end |-> end, at |-> at, chunks |-> <<>>]

\* The body of Scan.
ScanBody(bytes, until, scan, at) ==
    IF EndAt(bytes, until, at) # "more" THEN Ending(EndAt(bytes, until, at), at)
    ELSE [scan[NextOf(bytes, at)] EXCEPT !.chunks = <<ChunkAt(bytes, at)>> \o @]

LEMMA ScanIs ==
    ASSUME NEW bytes, NEW until,
           \E s : s = [at \in 1..(Len(bytes) + 1) |-> ScanBody(bytes, until, s, at)]
    PROVE  Scan(bytes, until)
           = [at \in 1..(Len(bytes) + 1) |-> ScanBody(bytes, until, Scan(bytes, until), at)]
<1> DEFINE Ends(end, at) == [end |-> end, at |-> at, chunks |-> <<>>]
           Body(scan, at) ==
               LET id == SubSeq(bytes, at, at + 3)
                   size == U32(bytes, at + 4)
                   next == at + 8 + Padded(size)
               IN  IF ChunkHeader(bytes, at) # "chunk" THEN Ends(ChunkHeader(bytes, at), at)
                   ELSE IF id \in until THEN Ends("data", at)
                   ELSE IF Len(bytes) < next - 1 THEN Ends("Io", at)
                   ELSE [scan[next] EXCEPT !.chunks =
                            <<[chunk_id |-> id, data |-> SubSeq(bytes, at + 8, at + 7 + size)]>>
                            \o @]
<1>1. Scan(bytes, until) = CHOOSE s : s = [at \in 1..(Len(bytes) + 1) |-> Body(s, at)]
  BY DEF Scan
<1>2. ASSUME NEW s, NEW at
      PROVE  Body(s, at) = ScanBody(bytes, until, s, at)
  <2>1. ChunkHeader(bytes, at) # "more"
    BY DEF ChunkHeader
  <2>2. QED
    BY <2>1 DEF ScanBody, EndAt, Ending, NextOf, SizeAt, ChunkAt
<1> HIDE DEF Body
<1>3. ASSUME NEW s
      PROVE  [at \in 1..(Len(bytes) + 1) |-> Body(s, at)]
             = [at \in 1..(Len(bytes) + 1) |-> ScanBody(bytes, until, s, at)]
  BY <1>2
<1>4. PICK s : s = [at \in 1..(Len(bytes) + 1) |-> Body(s, at)]
  BY <1>3
<1>5. Scan(bytes, until) = [at \in 1..(Len(bytes) + 1) |-> Body(Scan(bytes, until), at)]
  BY <1>1, <1>4
<1>6. QED
  BY <1>3, <1>5

-----------------------------------------------------------------------------
(* The scan as a walk over places *)

Chunks == [chunk_id : Seq(Byte), data : Seq(Byte)]
Scans == [end : {"eof", "Io", "data"}, at : Nat, chunks : Seq(Chunks)]

LEMMA Pieces ==
    ASSUME NEW S, NEW s \in Seq(S), NEW m \in Nat \ {0}, NEW n \in Nat, m <= n + 1, n <= Len(s)
    PROVE  /\ SubSeq(s, m, n) \in Seq(S) /\ Len(SubSeq(s, m, n)) = (n - m) + 1
           /\ \A i \in 1..((n - m) + 1) : SubSeq(s, m, n)[i] = s[(m + i) - 1]
<1>1. \A i \in m..n : s[i] \in S
  OBVIOUS
<1>2. /\ SubSeq(s, m, n) \in Seq(S)
      /\ Len(SubSeq(s, m, n)) = IF m <= n THEN n - m + 1 ELSE 0
      /\ \A i \in 1..(n - m + 1) : SubSeq(s, m, n)[i] = s[m + i - 1]
  BY <1>1, SubSeqProperties
<1>3. QED
  BY <1>2

\* One more than the largest size.
Limit == 4294967296

Together(a, b, c, d) == (a + 256 * b) + 65536 * (c + 256 * d)

LEMMA FourBytes ==
    ASSUME NEW a \in 0..255, NEW b \in 0..255, NEW c \in 0..255, NEW d \in 0..255
    PROVE  Together(a, b, c, d) \in Nat /\ Together(a, b, c, d) < Limit
<1> DEFINE n == (a + 256 * b) + 65536 * (c + 256 * d)
<1>2. n \in Nat /\ n < 4294967296
  BY SMT
<1>3. n \in Nat /\ n < Limit /\ Limit \in Nat
  BY <1>2, SMT DEF Limit
<1> HIDE DEF n
<1>4. QED
  BY <1>3 DEF n, Together

LEMMA Reads ==
    ASSUME NEW bytes \in Seq(Byte), NEW at \in Nat \ {0}, at + 3 <= Len(bytes)
    PROVE  U32(bytes, at) \in Nat /\ U32(bytes, at) < Limit
<1>1. \A i \in 1..Len(bytes) : bytes[i] \in 0..255
  <2>1. \A i \in 1..Len(bytes) : bytes[i] \in Byte
    OBVIOUS
  <2>2. QED
    BY <2>1 DEF Byte
<1>2. bytes[at] \in 0..255 /\ bytes[at + 1] \in 0..255 /\ bytes[at + 2] \in 0..255
      /\ bytes[at + 3] \in 0..255
  BY <1>1
<1>3. U32(bytes, at) = Together(bytes[at], bytes[at + 1], bytes[at + 2], bytes[at + 3])
  BY SMT DEF U32, U16, Together
<1> DEFINE a == bytes[at]
           b == bytes[at + 1]
           c == bytes[at + 2]
           d == bytes[at + 3]
<1>4. a \in 0..255 /\ b \in 0..255 /\ c \in 0..255 /\ d \in 0..255
  BY <1>2
<1>5. U32(bytes, at) = Together(a, b, c, d)
  BY <1>3
<1> HIDE DEF a, b, c, d
<1>6. Together(a, b, c, d) \in Nat /\ Together(a, b, c, d) < Limit
  BY <1>4, FourBytes
<1>7. QED
  BY <1>5, <1>6

\* A scan that goes on passes a complete chunk.
LEMMA More ==
    ASSUME NEW bytes \in Seq(Byte), NEW until, NEW at \in 1..(Len(bytes) + 1),
           EndAt(bytes, until, at) = "more"
    PROVE  /\ SizeAt(bytes, at) \in Nat /\ SizeAt(bytes, at) < Limit
           /\ NextOf(bytes, at) \in 1..(Len(bytes) + 1)
           /\ NextOf(bytes, at) >= at + 8 + SizeAt(bytes, at)
           /\ ChunkAt(bytes, at) \in Chunks
           /\ Len(ChunkAt(bytes, at).data) = SizeAt(bytes, at)
           /\ Len(ChunkAt(bytes, at).chunk_id) = 4
           /\ ChunkAt(bytes, at).chunk_id \notin until
<1> DEFINE size == SizeAt(bytes, at)
           length == Len(bytes)
           next == NextOf(bytes, at)
<1>1. length \in Nat /\ Limit \in Nat
  BY SMT DEF Limit
<1>2. ChunkHeader(bytes, at) = "chunk" /\ SubSeq(bytes, at, at + 3) \notin until
      /\ ~(length < next - 1)
  <2>1. ChunkHeader(bytes, at) # "more"
    BY DEF ChunkHeader
  <2>2. QED
    BY <2>1 DEF EndAt
<1>3. at \in Nat /\ at + 7 <= length
  BY <1>1, <1>2 DEF ChunkHeader
<1>4. size \in Nat /\ size < Limit
  <2>1. at + 4 \in Nat \ {0} /\ (at + 4) + 3 <= Len(bytes)
    BY <1>3
  <2>2. QED
    BY <2>1, Reads DEF SizeAt
<1>5. next = at + 8 + (size + (size % 2))
  BY DEF NextOf, Padded
<1> HIDE DEF size, next
<1>6. next \in Nat /\ next >= at + 8 + size /\ next <= length + 1
  BY <1>1, <1>2, <1>3, <1>4, <1>5
<1>7. SubSeq(bytes, at, at + 3) \in Seq(Byte) /\ Len(SubSeq(bytes, at, at + 3)) = 4
  <2>1. at \in Nat \ {0} /\ at + 3 \in Nat /\ at <= (at + 3) + 1 /\ at + 3 <= Len(bytes)
    BY <1>3
  <2>2. QED
    BY <2>1, Pieces
<1>8. SubSeq(bytes, at + 8, at + 7 + size) \in Seq(Byte)
      /\ Len(SubSeq(bytes, at + 8, at + 7 + size)) = size
  <2>1. at + 8 \in Nat \ {0} /\ at + 7 + size \in Nat
        /\ at + 8 <= (at + 7 + size) + 1 /\ at + 7 + size <= Len(bytes)
        /\ ((at + 7 + size) - (at + 8)) + 1 = size
    BY <1>1, <1>3, <1>4, <1>6
  <2>2. QED
    BY <2>1, Pieces
<1>9. ChunkAt(bytes, at)
      = [chunk_id |-> SubSeq(bytes, at, at + 3), data |-> SubSeq(bytes, at + 8, at + 7 + size)]
  BY DEF ChunkAt, size
<1>10. QED
  BY <1>2, <1>3, <1>4, <1>6, <1>7, <1>8, <1>9 DEF Chunks, size, next

LEMMA EndIs ==
    ASSUME NEW bytes, NEW until, NEW at, EndAt(bytes, until, at) # "more"
    PROVE  EndAt(bytes, until, at) \in {"eof", "Io", "data"}
BY DEF EndAt, ChunkHeader

\* What a scan does at a place is decided by what it does at later ones.
LEMMA BodyIs ==
    ASSUME NEW bytes \in Seq(Byte), NEW until, NEW at \in 1..(Len(bytes) + 1),
           NEW s, EndAt(bytes, until, at) = "more" => s[NextOf(bytes, at)] \in Scans
    PROVE  /\ ScanBody(bytes, until, s, at) \in Scans
           /\ EndAt(bytes, until, at) # "more" =>
                  ScanBody(bytes, until, s, at) = Ending(EndAt(bytes, until, at), at)
           /\ EndAt(bytes, until, at) = "more" =>
                  LET next == s[NextOf(bytes, at)]
                  IN  ScanBody(bytes, until, s, at)
                      = [end |-> next.end, at |-> next.at,
                         chunks |-> <<ChunkAt(bytes, at)>> \o next.chunks]
<1>1. CASE EndAt(bytes, until, at) # "more"
  <2>1. at \in Nat
    OBVIOUS
  <2>2. EndAt(bytes, until, at) \in {"eof", "Io", "data"}
    BY <1>1, EndIs
  <2>3. QED
    BY <1>1, <2>1, <2>2 DEF ScanBody, Ending, Scans
<1>2. CASE EndAt(bytes, until, at) = "more"
  <2> DEFINE next == s[NextOf(bytes, at)]
             c == ChunkAt(bytes, at)
  <2>1. next \in Scans
    BY <1>2
  <2>2. c \in Chunks
    BY <1>2, More
  <2>3. ScanBody(bytes, until, s, at) = [next EXCEPT !.chunks = <<c>> \o @]
    BY <1>2 DEF ScanBody
  <2> HIDE DEF next, c
  <2>4. /\ next.end \in {"eof", "Io", "data"} /\ next.at \in Nat /\ next.chunks \in Seq(Chunks)
        /\ \A v : [next EXCEPT !.chunks = v] = [end |-> next.end, at |-> next.at, chunks |-> v]
    BY <2>1 DEF Scans
  <2>5. [next EXCEPT !.chunks = <<c>> \o @]
        = [end |-> next.end, at |-> next.at, chunks |-> <<c>> \o next.chunks]
    BY <2>4
  <2>6. <<c>> \o next.chunks \in Seq(Chunks)
    BY <2>2, <2>4
  <2>7. [end |-> next.end, at |-> next.at, chunks |-> <<c>> \o next.chunks] \in Scans
    BY <2>4, <2>6 DEF Scans
  <2>8. QED
    BY <1>2, <2>3, <2>5, <2>7 DEF next, c
<1>3. QED
  BY <1>1, <1>2

LEMMA ScanExists ==
    ASSUME NEW bytes \in Seq(Byte), NEW until
    PROVE  \E s : s = [at \in 1..(Len(bytes) + 1) |-> ScanBody(bytes, until, s, at)]
<1> DEFINE top == Len(bytes) + 1
           P == 1..top
           Right(s, m) == \A at \in P : at > top - m => s[at] = ScanBody(bytes, until, s, at)
           T == {m \in Nat : m <= top => \E s \in [P -> Scans] : Right(s, m)}
<1>1. top \in Nat /\ top >= 1
  OBVIOUS
<1>2. 0 \in T
  <2> DEFINE s == [at \in P |-> Ending("eof", at)]
  <2>1. \A at \in P : Ending("eof", at) \in Scans
    BY DEF Ending, Scans
  <2>2. s \in [P -> Scans]
    BY <2>1
  <2>3. Right(s, 0)
    BY <1>1
  <2>4. QED
    BY <2>2, <2>3
<1>3. ASSUME NEW m \in Nat, m \in T
      PROVE  m + 1 \in T
  <2> SUFFICES ASSUME m + 1 <= top
               PROVE  \E s \in [P -> Scans] : Right(s, m + 1)
    BY DEF T
  <2>1. PICK s \in [P -> Scans] : Right(s, m)
    BY <1>1, <1>3
  <2> DEFINE here == top - m
             t == [at \in P |-> IF at = here THEN ScanBody(bytes, until, s, here) ELSE s[at]]
  <2>2. here \in P /\ here \in Nat
    BY <1>1
  <2>3. \A at \in P : EndAt(bytes, until, at) = "more" => NextOf(bytes, at) \in P
                      /\ NextOf(bytes, at) > at
    <3>1. ASSUME NEW at \in P, EndAt(bytes, until, at) = "more"
          PROVE  NextOf(bytes, at) \in P /\ NextOf(bytes, at) > at
      <4>1. at \in 1..(Len(bytes) + 1)
        OBVIOUS
      <4>2. /\ NextOf(bytes, at) \in 1..(Len(bytes) + 1) /\ SizeAt(bytes, at) \in Nat /\ SizeAt(bytes, at) < Limit
            /\ NextOf(bytes, at) >= at + 8 + SizeAt(bytes, at)
        BY <3>1, <4>1, More
      <4>4. QED
        BY <4>1, <4>2
    <3>2. QED
      BY <3>1
  <2>4. \A at \in P : ScanBody(bytes, until, s, at) \in Scans
    BY <2>1, <2>3, BodyIs
  <2> HIDE DEF P, here
  <2>5. t \in [P -> Scans]
    BY <2>1, <2>2, <2>4
  <2>6. t[here] = ScanBody(bytes, until, s, here)
        /\ \A at \in P : at # here => t[at] = s[at]
    BY <2>2
  <2> HIDE DEF t
  <2>7. ASSUME NEW at \in P, at >= here
        PROVE  ScanBody(bytes, until, t, at) = ScanBody(bytes, until, s, at)
    <3>1. CASE EndAt(bytes, until, at) # "more"
      BY <3>1 DEF ScanBody
    <3>2. CASE EndAt(bytes, until, at) = "more"
      <4>1. NextOf(bytes, at) \in P /\ NextOf(bytes, at) # here
        BY <1>1, <2>2, <2>3, <2>7, <3>2 DEF P
      <4>2. t[NextOf(bytes, at)] = s[NextOf(bytes, at)]
        BY <2>6, <4>1
      <4>3. QED
        BY <4>2 DEF ScanBody
    <3>3. QED
      BY <3>1, <3>2
  <2>8. ASSUME NEW at \in P, at > top - (m + 1)
        PROVE  t[at] = ScanBody(bytes, until, t, at)
    <3>1. CASE at = here
      BY <1>1, <2>2, <2>6, <2>7, <3>1
    <3>2. CASE at # here
      <4>1. at > top - m /\ at >= here
        BY <1>1, <2>8, <3>2 DEF here, P
      <4>2. s[at] = ScanBody(bytes, until, s, at)
        BY <2>1, <4>1
      <4>3. QED
        BY <2>6, <2>7, <3>2, <4>1, <4>2
    <3>3. QED
      BY <3>1, <3>2
  <2>9. QED
    BY <2>5, <2>8
<1>4. PICK s \in [P -> Scans] : Right(s, top)
  <2> HIDE DEF T
  <2>1. Nat \subseteq T
    BY <1>2, <1>3, UpTo
  <2>2. top \in T
    BY <1>1, <2>1
  <2>3. QED
    BY <1>1, <2>2 DEF T
<1>5. \A at \in P : s[at] = ScanBody(bytes, until, s, at)
  BY <1>1, <1>4
<1>6. s = [at \in P |-> ScanBody(bytes, until, s, at)]
  BY <1>4, <1>5
<1>7. QED
  BY <1>6

LEMMA ScanType ==
    ASSUME NEW bytes \in Seq(Byte), NEW until
    PROVE  Scan(bytes, until) \in [1..(Len(bytes) + 1) -> Scans]
<1> DEFINE top == Len(bytes) + 1
           P == 1..top
           s == Scan(bytes, until)
           T == {m \in Nat : \A at \in P : at > top - m => s[at] \in Scans}
<1>1. top \in Nat /\ top >= 1
  OBVIOUS
<1>2. s = [at \in P |-> ScanBody(bytes, until, s, at)]
  BY ScanExists, ScanIs
<1> HIDE DEF s
<1>3. \A at \in P : s[at] = ScanBody(bytes, until, s, at)
  BY <1>2
<1>4. 0 \in T
  BY <1>1
<1>5. ASSUME NEW m \in Nat, m \in T
      PROVE  m + 1 \in T
  <2>1. ASSUME NEW at \in P, at > top - (m + 1)
        PROVE  s[at] \in Scans
    <3>1. ASSUME EndAt(bytes, until, at) = "more"
          PROVE  s[NextOf(bytes, at)] \in Scans
      <4>1. at \in 1..(Len(bytes) + 1)
        OBVIOUS
      <4>2. /\ NextOf(bytes, at) \in P /\ SizeAt(bytes, at) \in Nat /\ SizeAt(bytes, at) < Limit
            /\ NextOf(bytes, at) >= at + 8 + SizeAt(bytes, at)
        BY <3>1, <4>1, More
      <4>4. NextOf(bytes, at) > top - m
        BY <1>1, <2>1, <4>2
      <4>5. QED
        BY <1>5, <4>2, <4>4
    <3>2. ScanBody(bytes, until, s, at) \in Scans
      BY <3>1, BodyIs
    <3>3. QED
      BY <1>3, <3>2
  <2>2. QED
    BY <2>1
<1>6. ASSUME NEW at \in P
      PROVE  s[at] \in Scans
  <2> HIDE DEF T
  <2>1. Nat \subseteq T
    BY <1>4, <1>5, UpTo
  <2>2. top \in T
    BY <1>1, <2>1
  <2>3. at > top - top
    BY <1>1
  <2>4. QED
    BY <2>2, <2>3 DEF T
<1> HIDE DEF P
<1>7. s \in [P -> Scans]
  BY <1>2, <1>6
<1>8. QED
  BY <1>7 DEF P, s

\* The steps of a scan.
LEMMA ScanSteps ==
    ASSUME NEW bytes \in Seq(Byte), NEW until, NEW at \in 1..(Len(bytes) + 1)
    PROVE  /\ Scan(bytes, until)[at] \in Scans
           /\ EndAt(bytes, until, at) # "more" =>
                  Scan(bytes, until)[at] = Ending(EndAt(bytes, until, at), at)
           /\ EndAt(bytes, until, at) = "more" =>
                  LET next == Scan(bytes, until)[NextOf(bytes, at)]
                  IN  /\ next \in Scans
                      /\ Scan(bytes, until)[at]
                         = [end |-> next.end, at |-> next.at,
                            chunks |-> <<ChunkAt(bytes, at)>> \o next.chunks]
<1> DEFINE s == Scan(bytes, until)
           P == 1..(Len(bytes) + 1)
<1>1. s = [a \in P |-> ScanBody(bytes, until, s, a)]
  BY ScanExists, ScanIs
<1>2. s \in [P -> Scans]
  BY ScanType
<1> HIDE DEF s
<1>3. s[at] = ScanBody(bytes, until, s, at) /\ s[at] \in Scans
  BY <1>1, <1>2
<1>4. EndAt(bytes, until, at) = "more" => s[NextOf(bytes, at)] \in Scans
  BY <1>2, More
<1>5. QED
  BY <1>3, <1>4, BodyIs DEF s

\* The places of a row of chunks, the place behind the last one included.
Row(bytes, places, chunks) ==
    /\ places \in [0..Len(chunks) -> 1..(Len(bytes) + 1)]
    /\ \A i \in 1..Len(chunks) :
           /\ EndAt(bytes, {}, places[i - 1]) = "more"
           /\ ChunkAt(bytes, places[i - 1]) = chunks[i]
           /\ NextOf(bytes, places[i - 1]) = places[i]

None(chunks, until) == \A i \in 1..Len(chunks) : chunks[i].chunk_id \notin until

LEMMA MoreUntil ==
    ASSUME NEW bytes, NEW until, NEW at
    PROVE  EndAt(bytes, until, at) = "more"
           <=> EndAt(bytes, {}, at) = "more" /\ ChunkAt(bytes, at).chunk_id \notin until
<1>1. ChunkHeader(bytes, at) # "more"
  BY DEF ChunkHeader
<1>2. ChunkAt(bytes, at).chunk_id = SubSeq(bytes, at, at + 3)
  BY DEF ChunkAt
<1>3. QED
  BY <1>1, <1>2 DEF EndAt

LEMMA Regroup ==
    ASSUME NEW S, NEW a \in Seq(S), NEW b \in Seq(S), NEW c \in Seq(S)
    PROVE  a \o (b \o c) = (a \o b) \o c
OBVIOUS

\* A scan passes a row of chunks with other ids.
LEMMA ScanAlong ==
    ASSUME NEW bytes \in Seq(Byte), NEW until, NEW chunks \in Seq(Chunks), NEW places,
           Row(bytes, places, chunks), None(chunks, until)
    PROVE  LET scan == Scan(bytes, until)
               last == scan[places[Len(chunks)]]
           IN  /\ last \in Scans
               /\ scan[places[0]]
                  = [end |-> last.end, at |-> last.at, chunks |-> chunks \o last.chunks]
<1> DEFINE scan == Scan(bytes, until)
           n == Len(chunks)
           Passed(i) ==
               /\ scan[places[i]] \in Scans
               /\ scan[places[0]]
                  = [end |-> scan[places[i]].end, at |-> scan[places[i]].at,
                     chunks |-> SubSeq(chunks, 1, i) \o scan[places[i]].chunks]
           T == {i \in Nat : i <= n => Passed(i)}
<1>1. n \in Nat /\ \A i \in 0..n : places[i] \in 1..(Len(bytes) + 1)
  BY DEF Row
<1>2. \A i \in 0..n : scan[places[i]] \in Scans
  BY <1>1, ScanSteps
<1>3. 0 \in T
  <2>1. scan[places[0]] \in Scans
    BY <1>1, <1>2
  <2> DEFINE s == scan[places[0]]
  <2>2. SubSeq(chunks, 1, 0) = <<>>
    BY SubSeqEmpty
  <2> HIDE DEF s, scan
  <2>3. s \in Scans
    BY <2>1 DEF s
  <2>4. s = [end |-> s.end, at |-> s.at, chunks |-> <<>> \o s.chunks]
    BY <2>3 DEF Scans
  <2>5. QED
    BY <2>2, <2>3, <2>4 DEF s
<1>4. ASSUME NEW i \in Nat, i \in T
      PROVE  i + 1 \in T
  <2> SUFFICES ASSUME i + 1 <= n
               PROVE  Passed(i + 1)
    OBVIOUS
  <2> DEFINE s == scan[places[i]]
             t == scan[places[i + 1]]
             c == chunks[i + 1]
             head == SubSeq(chunks, 1, i)
  <2>1. i + 1 \in 1..n /\ (i + 1) - 1 = i /\ i \in 0..n /\ i + 1 \in 0..n
    BY <1>1
  <2>2. /\ EndAt(bytes, {}, places[i]) = "more" /\ ChunkAt(bytes, places[i]) = c
        /\ NextOf(bytes, places[i]) = places[i + 1] /\ c.chunk_id \notin until
    BY <2>1 DEF Row, None
  <2>3. EndAt(bytes, until, places[i]) = "more"
    BY <2>2, MoreUntil
  <2>4. s = [end |-> t.end, at |-> t.at, chunks |-> <<c>> \o t.chunks] /\ t \in Scans
    <3>1. places[i] \in 1..(Len(bytes) + 1)
      BY <1>1, <2>1
    <3> DEFINE next == scan[NextOf(bytes, places[i])]
    <3>2. next \in Scans
          /\ s = [end |-> next.end, at |-> next.at,
                  chunks |-> <<ChunkAt(bytes, places[i])>> \o next.chunks]
      BY <2>3, <3>1, ScanSteps
    <3>3. next = t
      BY <2>2
    <3> HIDE DEF next, s, t, c
    <3>4. QED
      BY <2>2, <3>2, <3>3
  <2>5. scan[places[0]] = [end |-> s.end, at |-> s.at, chunks |-> head \o s.chunks]
    BY <1>1, <1>4
  <2>6. c \in Chunks /\ t.chunks \in Seq(Chunks)
    BY <2>1, <2>4 DEF Scans
  <2>7. head \in Seq(Chunks) /\ SubSeq(chunks, 1, i + 1) = head \o <<c>>
    BY <1>1, <2>1, <2>6
  <2> HIDE DEF scan, s, t, c, head
  <2>8. s.end = t.end /\ s.at = t.at /\ s.chunks = <<c>> \o t.chunks
    BY <2>4
  <2>9. head \o (<<c>> \o t.chunks) = (head \o <<c>>) \o t.chunks
    <3>1. <<c>> \in Seq(Chunks)
      BY <2>6
    <3>2. head \in Seq(Chunks) /\ t.chunks \in Seq(Chunks)
      BY <2>6, <2>7
    <3> DEFINE one == <<c>>
               remain == t.chunks
    <3> HIDE DEF one, remain
    <3>3. one \in Seq(Chunks) /\ remain \in Seq(Chunks)
      BY <3>1, <3>2 DEF one, remain
    <3>4. head \o (one \o remain) = (head \o one) \o remain
      BY <3>2, <3>3, Regroup
    <3>5. QED
      BY <3>4 DEF one, remain
  <2>10. QED
    BY <2>4, <2>5, <2>7, <2>8, <2>9 DEF t
<1>5. Passed(n)
  <2> HIDE DEF T
  <2>1. Nat \subseteq T
    BY <1>3, <1>4, UpTo
  <2>2. n \in T
    BY <1>1, <2>1
  <2> HIDE DEF Passed
  <2>3. QED
    BY <1>1, <2>2 DEF T
<1>6. SubSeq(chunks, 1, n) = chunks
  OBVIOUS
<1>7. QED
  BY <1>5, <1>6

\* A scan is a row of chunks and a place where it ends.
Walks(bytes, until, at, scan, places) ==
    /\ Row(bytes, places, scan.chunks) /\ None(scan.chunks, until)
    /\ places[0] = at /\ places[Len(scan.chunks)] = scan.at
    /\ EndAt(bytes, until, scan.at) = scan.end

LEMMA WalksOn ==
    ASSUME NEW bytes \in Seq(Byte), NEW until, NEW at \in 1..(Len(bytes) + 1),
           EndAt(bytes, until, at) = "more",
           NEW next \in Scans, NEW places, Walks(bytes, until, NextOf(bytes, at), next, places)
    PROVE  \E p : Walks(bytes, until, at,
                        [end |-> next.end, at |-> next.at,
                         chunks |-> <<ChunkAt(bytes, at)>> \o next.chunks], p)
<1> DEFINE n == Len(next.chunks)
           c == ChunkAt(bytes, at)
           chunks == <<c>> \o next.chunks
           scan == [end |-> next.end, at |-> next.at, chunks |-> chunks]
           p == [i \in 0..(n + 1) |-> IF i = 0 THEN at ELSE places[i - 1]]
<1>1. next.chunks \in Seq(Chunks) /\ n \in Nat
  BY DEF Scans
<1>2. c \in Chunks /\ c.chunk_id \notin until /\ EndAt(bytes, {}, at) = "more"
  BY More, MoreUntil
<1>3. Len(chunks) = n + 1 /\ chunks[1] = c /\ \A i \in 2..(n + 1) : chunks[i] = next.chunks[i - 1]
  BY <1>1, <1>2
<1>4. /\ places \in [0..n -> 1..(Len(bytes) + 1)]
      /\ \A i \in 1..n :
             /\ EndAt(bytes, {}, places[i - 1]) = "more"
             /\ ChunkAt(bytes, places[i - 1]) = next.chunks[i]
             /\ NextOf(bytes, places[i - 1]) = places[i]
      /\ \A i \in 1..n : next.chunks[i].chunk_id \notin until
      /\ places[0] = NextOf(bytes, at) /\ places[n] = next.at
      /\ EndAt(bytes, until, next.at) = next.end
  BY DEF Walks, Row, None
<1>5. scan.chunks = chunks /\ scan.at = next.at /\ scan.end = next.end
  OBVIOUS
<1> HIDE DEF n, c, chunks, scan
<1>6. p[0] = at /\ \A i \in 1..(n + 1) : p[i] = places[i - 1]
  BY <1>1
<1>7. p \in [0..(n + 1) -> 1..(Len(bytes) + 1)]
  BY <1>1, <1>4
<1> HIDE DEF p
<1>8. ASSUME NEW i \in 1..(n + 1)
      PROVE  /\ EndAt(bytes, {}, p[i - 1]) = "more"
             /\ ChunkAt(bytes, p[i - 1]) = chunks[i]
             /\ NextOf(bytes, p[i - 1]) = p[i]
             /\ chunks[i].chunk_id \notin until
  <2>1. CASE i = 1
    <3>1. p[i - 1] = at /\ chunks[i] = c /\ p[i] = places[0]
      BY <1>1, <1>3, <1>6, <2>1
    <3>2. QED
      BY <1>2, <1>4, <3>1 DEF c
  <2>2. CASE i # 1
    <3>1. i - 1 \in 1..n /\ i \in 2..(n + 1)
      BY <1>1, <2>2
    <3>2. p[i - 1] = places[(i - 1) - 1] /\ p[i] = places[i - 1]
          /\ chunks[i] = next.chunks[i - 1]
      BY <1>1, <1>3, <1>6, <3>1
    <3>3. QED
      BY <1>4, <3>1, <3>2
  <2>3. QED
    BY <2>1, <2>2
<1>9. p[n + 1] = next.at
  BY <1>1, <1>4, <1>6
<1>10. Walks(bytes, until, at, scan, p)
  BY <1>3, <1>4, <1>5, <1>6, <1>7, <1>8, <1>9 DEF Walks, Row, None
<1>11. QED
  BY <1>10 DEF scan, chunks, c

LEMMA ScanWalks ==
    ASSUME NEW bytes \in Seq(Byte), NEW until, NEW at \in 1..(Len(bytes) + 1)
    PROVE  \E p : Walks(bytes, until, at, Scan(bytes, until)[at], p)
<1> DEFINE top == Len(bytes) + 1
           P == 1..top
           Sound(a) == \E p : Walks(bytes, until, a, Scan(bytes, until)[a], p)
           T == {m \in Nat : \A a \in P : a > top - m => Sound(a)}
<1>1. top \in Nat /\ top >= 1
  OBVIOUS
<1>2. 0 \in T
  BY <1>1
<1>3. ASSUME NEW m \in Nat, m \in T
      PROVE  m + 1 \in T
  <2>1. ASSUME NEW a \in P, a > top - (m + 1)
        PROVE  Sound(a)
    <3> DEFINE scan == Scan(bytes, until)[a]
    <3>1. a \in 1..(Len(bytes) + 1)
      OBVIOUS
    <3>2. CASE EndAt(bytes, until, a) # "more"
      <4> DEFINE p == [i \in 0..0 |-> a]
      <4>1. scan = Ending(EndAt(bytes, until, a), a)
        BY <3>1, <3>2, ScanSteps
      <4>2. scan.chunks = <<>> /\ scan.at = a /\ scan.end = EndAt(bytes, until, a)
        BY <4>1 DEF Ending
      <4>3. p \in [0..0 -> 1..(Len(bytes) + 1)] /\ p[0] = a
        BY <3>1
      <4> HIDE DEF scan, p
      <4>4. Walks(bytes, until, a, scan, p)
        BY <4>2, <4>3 DEF Walks, Row, None
      <4>5. QED
        BY <4>4 DEF scan
    <3>3. CASE EndAt(bytes, until, a) = "more"
      <4> DEFINE b == NextOf(bytes, a)
                 next == Scan(bytes, until)[b]
      <4>1. b \in P /\ b >= a + 8
        BY <3>1, <3>3, More
      <4>2. b > top - m
        BY <1>1, <2>1, <3>1, <4>1
      <4>3. Sound(b)
        BY <1>3, <4>1, <4>2
      <4>4. PICK p : Walks(bytes, until, b, next, p)
        BY <4>3
      <4>5. next \in Scans
            /\ scan = [end |-> next.end, at |-> next.at,
                       chunks |-> <<ChunkAt(bytes, a)>> \o next.chunks]
        BY <3>1, <3>3, ScanSteps
      <4> HIDE DEF next
      <4>6. \E q : Walks(bytes, until, a, [end |-> next.end, at |-> next.at,
                                         chunks |-> <<ChunkAt(bytes, a)>> \o next.chunks], q)
        BY <3>1, <3>3, <4>4, <4>5, WalksOn
      <4>7. QED
        BY <4>5, <4>6
    <3>4. QED
      BY <3>2, <3>3
  <2>2. QED
    BY <2>1
<1>4. Sound(at)
  <2> HIDE DEF T, Sound
  <2>1. Nat \subseteq T
    BY <1>2, <1>3, UpTo
  <2>2. top \in T
    BY <1>1, <2>1
  <2>3. at > top - top
    BY <1>1
  <2>4. QED
    BY <2>2, <2>3 DEF T
<1>5. QED
  BY <1>4

\* A scan ends where it says, and not with "more".
LEMMA ScanEnds ==
    ASSUME NEW bytes \in Seq(Byte), NEW until, NEW at \in 1..(Len(bytes) + 1),
           NEW scan, scan = Scan(bytes, until)[at]
    PROVE  /\ scan \in Scans /\ scan.at \in 1..(Len(bytes) + 1)
           /\ EndAt(bytes, until, scan.at) = scan.end
           /\ Scan(bytes, until)[scan.at] = Ending(scan.end, scan.at)
<1>1. PICK p : Walks(bytes, until, at, scan, p)
  BY ScanWalks
<1>2. scan \in Scans
  BY ScanSteps
<1>3. scan.end # "more" /\ scan.chunks \in Seq(Chunks)
  BY <1>2 DEF Scans
<1>4. scan.at \in 1..(Len(bytes) + 1) /\ EndAt(bytes, until, scan.at) = scan.end
  BY <1>1, <1>3 DEF Walks, Row
<1>5. Scan(bytes, until)[scan.at] = Ending(scan.end, scan.at)
  <2> DEFINE a == scan.at
             e == EndAt(bytes, until, a)
  <2>1. a \in 1..(Len(bytes) + 1) /\ e = scan.end /\ e # "more"
    BY <1>3, <1>4
  <2> HIDE DEF a
  <2>2. Scan(bytes, until)[a] = Ending(e, a)
    BY <2>1, ScanSteps
  <2>3. QED
    BY <2>1, <2>2 DEF a
<1>6. QED
  BY <1>2, <1>4, <1>5

-----------------------------------------------------------------------------
(* What reading a file gives *)

\* The parts of a file that reads as a value.
Preamble(bytes) == Scan(bytes, {DATA})[13]
FormatRead(bytes) == Sorted(Preamble(bytes).chunks).format
DataSize(bytes) == SizeAt(bytes, Preamble(bytes).at)
AfterData(bytes) == NextOf(bytes, Preamble(bytes).at)
Trailing(bytes) == Scan(bytes, {})[AfterData(bytes)]
FormatsFit(chunks) ==
    \A i \in DOMAIN chunks : chunks[i].chunk_id = FMT => FormatFits(chunks[i].data)

Readable(bytes) ==
    /\ RiffError(bytes) = "none"
    /\ Preamble(bytes).end = "data"
    /\ FormatsFit(Preamble(bytes).chunks) /\ FormatRead(bytes) # <<>>
    /\ AfterData(bytes) - 1 <= Len(bytes)
    /\ Trailing(bytes).end = "eof"
ValueRead(bytes) ==
    [header |-> HeaderOf(FormatRead(bytes)),
     fmt_extension |-> SubSeq(FormatRead(bytes), 17, Len(FormatRead(bytes))),
     chunks_before_fmt |-> Sorted(Preamble(bytes).chunks).before_fmt,
     chunks_before_data |-> Sorted(Preamble(bytes).chunks).before_data,
     data |-> SubSeq(bytes, Preamble(bytes).at + 8,
                     (Preamble(bytes).at + 8) + DataSize(bytes) - 1),
     chunks_after_data |-> Trailing(bytes).chunks]

LEMMA RiffErrors ==
    ASSUME NEW bytes \in Seq(Byte)
    PROVE  /\ RiffError(bytes) \in {"none", "Io", "InvalidMagic"}
           /\ RiffError(bytes) = "none" => 13 \in 1..(Len(bytes) + 1)
<1>1. Len(bytes) \in Nat
  OBVIOUS
<1>2. QED
  BY <1>1 DEF RiffError

LEMMA PreambleRead ==
    ASSUME NEW bytes \in Seq(Byte)
    PROVE  /\ ReadPreamble(bytes).outcome = "preamble"
              <=> /\ RiffError(bytes) = "none" /\ Preamble(bytes).end = "data"
                  /\ FormatsFit(Preamble(bytes).chunks) /\ FormatRead(bytes) # <<>>
           /\ ReadPreamble(bytes).outcome = "preamble" =>
                  ReadPreamble(bytes)
                  = [outcome |-> "preamble",
                     header |-> ValueRead(bytes).header,
                     fmt_extension |-> ValueRead(bytes).fmt_extension,
                     chunks_before_fmt |-> ValueRead(bytes).chunks_before_fmt,
                     chunks_before_data |-> ValueRead(bytes).chunks_before_data,
                     data_size |-> DataSize(bytes), at |-> Preamble(bytes).at + 8]
           /\ ReadPreamble(bytes).outcome # "Wav"
<1> DEFINE riff == RiffError(bytes)
           scan == Preamble(bytes)
           sorted == Sorted(scan.chunks)
           fit == FormatsFit(scan.chunks)
           error == IF riff # "none" THEN riff
                    ELSE IF ~fit THEN "InvalidChunkSize"
                    ELSE IF scan.end = "Io" THEN "Io"
                    ELSE IF scan.end = "eof"
                    THEN IF sorted.format = <<>> THEN "MissingFmtChunk" ELSE "MissingDataChunk"
                    ELSE IF sorted.format = <<>> THEN "DataBeforeFmt" ELSE "none"
           value == [outcome |-> "preamble",
                     header |-> HeaderOf(sorted.format),
                     fmt_extension |-> SubSeq(sorted.format, 17, Len(sorted.format)),
                     chunks_before_fmt |-> sorted.before_fmt,
                     chunks_before_data |-> sorted.before_data,
                     data_size |-> U32(bytes, scan.at + 4), at |-> scan.at + 8]
<1>1. fit <=> ~ \E i \in DOMAIN scan.chunks :
                     scan.chunks[i].chunk_id = FMT /\ ~FormatFits(scan.chunks[i].data)
  BY DEF FormatsFit
<1>2. ReadPreamble(bytes) = IF error # "none" THEN [outcome |-> error] ELSE value
  <2> HIDE DEF fit
  <2>1. QED
    BY <1>1 DEF ReadPreamble, Preamble
<1>3. riff \in {"none", "Io", "InvalidMagic"}
  BY RiffErrors
<1>4. riff = "none" => scan.end \in {"eof", "Io", "data"}
  <2>1. riff = "none" => scan \in Scans
    BY RiffErrors, ScanSteps DEF Preamble
  <2>2. QED
    BY <2>1 DEF Scans
<1>5. value = [outcome |-> "preamble",
               header |-> ValueRead(bytes).header,
               fmt_extension |-> ValueRead(bytes).fmt_extension,
               chunks_before_fmt |-> ValueRead(bytes).chunks_before_fmt,
               chunks_before_data |-> ValueRead(bytes).chunks_before_data,
               data_size |-> DataSize(bytes), at |-> Preamble(bytes).at + 8]
  BY DEF ValueRead, DataSize, SizeAt, FormatRead
<1>6. FormatRead(bytes) = sorted.format
  BY DEF FormatRead
<1>7. value.outcome = "preamble"
  OBVIOUS
<1> HIDE DEF riff, scan, sorted, fit, value
<1>8. error = "none" <=> riff = "none" /\ fit /\ scan.end = "data" /\ sorted.format # <<>>
  BY <1>3, <1>4
<1>9. error \notin {"preamble", "Wav"}
  BY <1>3
<1>10. ReadPreamble(bytes).outcome = IF error = "none" THEN "preamble" ELSE error
  <2> HIDE DEF error
  <2>1. QED
    BY <1>2, <1>7
<1>11. ReadPreamble(bytes).outcome = "preamble" <=> error = "none"
  <2> HIDE DEF error
  <2>1. QED
    BY <1>9, <1>10
<1>12. QED
  <2> HIDE DEF error
  <2>1. ReadPreamble(bytes).outcome = "preamble" => ReadPreamble(bytes) = value
    BY <1>2, <1>11
  <2>2. ReadPreamble(bytes).outcome # "Wav"
    BY <1>9, <1>10
  <2>3. ReadPreamble(bytes).outcome = "preamble"
        <=> /\ RiffError(bytes) = "none" /\ Preamble(bytes).end = "data"
            /\ FormatsFit(Preamble(bytes).chunks) /\ FormatRead(bytes) # <<>>
    BY <1>6, <1>8, <1>11 DEF riff, scan, fit
  <2>4. QED
    BY <1>5, <2>1, <2>2, <2>3

LEMMA ValueFields ==
    ASSUME NEW bytes
    PROVE  ValueRead(bytes)
           = [header |-> ValueRead(bytes).header,
              fmt_extension |-> ValueRead(bytes).fmt_extension,
              chunks_before_fmt |-> ValueRead(bytes).chunks_before_fmt,
              chunks_before_data |-> ValueRead(bytes).chunks_before_data,
              data |-> ValueRead(bytes).data,
              chunks_after_data |-> ValueRead(bytes).chunks_after_data]
BY DEF ValueRead

\* Where the data begins and ends.
LEMMA DataPlace ==
    ASSUME NEW bytes \in Seq(Byte), RiffError(bytes) = "none", Preamble(bytes).end = "data"
    PROVE  /\ Preamble(bytes) \in Scans
           /\ Preamble(bytes).at \in Nat \ {0} /\ Preamble(bytes).at + 7 <= Len(bytes)
           /\ EndAt(bytes, {DATA}, Preamble(bytes).at) = "data"
           /\ SubSeq(bytes, Preamble(bytes).at, Preamble(bytes).at + 3) = DATA
           /\ DataSize(bytes) \in Nat /\ DataSize(bytes) < Limit
           /\ AfterData(bytes) \in Nat /\ AfterData(bytes) >= Preamble(bytes).at + 8 + DataSize(bytes)
<1> DEFINE scan == Preamble(bytes)
           at == scan.at
<1>1. 13 \in 1..(Len(bytes) + 1) /\ Len(bytes) \in Nat
  BY RiffErrors
<1>2. /\ scan \in Scans /\ at \in 1..(Len(bytes) + 1)
      /\ EndAt(bytes, {DATA}, at) = "data"
  <2>1. /\ scan \in Scans /\ scan.at \in 1..(Len(bytes) + 1)
        /\ EndAt(bytes, {DATA}, scan.at) = scan.end
    BY <1>1, ScanEnds DEF Preamble
  <2>2. QED
    BY <2>1
<1> HIDE DEF scan
<1>3. ChunkHeader(bytes, at) = "chunk" /\ SubSeq(bytes, at, at + 3) \in {DATA}
  <2>1. ChunkHeader(bytes, at) # "data"
    BY DEF ChunkHeader
  <2>2. QED
    BY <1>2, <2>1 DEF EndAt
<1>4. at \in Nat \ {0} /\ at + 7 <= Len(bytes)
  BY <1>1, <1>2, <1>3 DEF ChunkHeader
<1> DEFINE size == SizeAt(bytes, at)
<1>5. size \in Nat /\ size < Limit
  <2>1. at + 4 \in Nat \ {0} /\ (at + 4) + 3 <= Len(bytes)
    BY <1>1, <1>4
  <2>2. QED
    BY <2>1, Reads DEF SizeAt
<1>6. NextOf(bytes, at) = at + 8 + (size + (size % 2))
  BY DEF NextOf, Padded
<1> HIDE DEF size
<1>7. NextOf(bytes, at) \in Nat /\ NextOf(bytes, at) >= at + 8 + size
  BY <1>4, <1>5, <1>6
<1>8. QED
  BY <1>2, <1>3, <1>4, <1>5, <1>7 DEF scan, size, DataSize, AfterData

LEMMA BehindEnds ==
    ASSUME NEW bytes \in Seq(Byte), NEW at \in 1..(Len(bytes) + 1)
    PROVE  /\ Scan(bytes, {})[at] \in Scans
           /\ Scan(bytes, {})[at].end \in {"eof", "Io"}
<1> DEFINE scan == Scan(bytes, {})[at]
<1>1. scan \in Scans /\ EndAt(bytes, {}, scan.at) = scan.end
  BY ScanEnds
<1>2. EndAt(bytes, {}, scan.at) # "data"
  BY DEF EndAt, ChunkHeader
<1>3. QED
  BY <1>1, <1>2 DEF Scans

LEMMA WavRead ==
    ASSUME NEW bytes \in Seq(Byte)
    PROVE  /\ ReadWav(bytes).outcome = "Wav" <=> Readable(bytes)
           /\ Readable(bytes) => ReadWav(bytes) = [outcome |-> "Wav", wav |-> ValueRead(bytes)]
<1> DEFINE preamble == ReadPreamble(bytes)
           after == preamble.at + Padded(preamble.data_size)
           remain == Scan(bytes, {})[after]
           short == Len(bytes) < after - 1
           value == [header |-> preamble.header, fmt_extension |-> preamble.fmt_extension,
                     chunks_before_fmt |-> preamble.chunks_before_fmt,
                     chunks_before_data |-> preamble.chunks_before_data,
                     data |-> SubSeq(bytes, preamble.at, preamble.at + preamble.data_size - 1),
                     chunks_after_data |-> remain.chunks]
           w == [outcome |-> "Wav", wav |-> value]
<1>1. ReadWav(bytes)
      = IF preamble.outcome # "preamble" THEN preamble
        ELSE IF short \/ remain.end = "Io" THEN [outcome |-> "Io"]
        ELSE w
  BY DEF ReadWav
<1>2. CASE preamble.outcome # "preamble"
  <2>1. ReadWav(bytes) = preamble
    BY <1>1, <1>2
  <2>2. preamble.outcome # "Wav"
    BY PreambleRead
  <2>3. ~ Readable(bytes)
    BY <1>2, PreambleRead DEF Readable
  <2>4. QED
    BY <2>1, <2>2, <2>3
<1>3. CASE preamble.outcome = "preamble"
  <2>1. /\ RiffError(bytes) = "none" /\ Preamble(bytes).end = "data"
        /\ FormatsFit(Preamble(bytes).chunks) /\ FormatRead(bytes) # <<>>
    BY <1>3, PreambleRead
  <2>2. preamble
        = [outcome |-> "preamble",
           header |-> ValueRead(bytes).header,
           fmt_extension |-> ValueRead(bytes).fmt_extension,
           chunks_before_fmt |-> ValueRead(bytes).chunks_before_fmt,
           chunks_before_data |-> ValueRead(bytes).chunks_before_data,
           data_size |-> DataSize(bytes), at |-> Preamble(bytes).at + 8]
    BY <1>3, PreambleRead
  <2>3. after = AfterData(bytes)
    BY <2>2 DEF AfterData, NextOf, DataSize
  <2>4. remain = Trailing(bytes)
    BY <2>3 DEF Trailing
  <2>5. value = ValueRead(bytes)
    <3>1. /\ ValueRead(bytes).data = SubSeq(bytes, Preamble(bytes).at + 8,
                                          (Preamble(bytes).at + 8) + DataSize(bytes) - 1)
          /\ ValueRead(bytes).chunks_after_data = Trailing(bytes).chunks
      BY DEF ValueRead
    <3>2. preamble.at = Preamble(bytes).at + 8 /\ preamble.data_size = DataSize(bytes)
      BY <2>2
    <3>3. SubSeq(bytes, preamble.at, preamble.at + preamble.data_size - 1)
          = ValueRead(bytes).data
      BY <3>1, <3>2
    <3> HIDE DEF remain
    <3>4. QED
      BY <2>2, <2>4, <3>1, <3>3, ValueFields
  <2>6. short <=> ~(AfterData(bytes) - 1 <= Len(bytes))
    <3>1. AfterData(bytes) \in Nat /\ Len(bytes) \in Nat
      BY <2>1, DataPlace
    <3>2. QED
      BY <2>3, <3>1
  <2> HIDE DEF preamble, after, remain, short, value
  <2>7. ~short => remain.end \in {"eof", "Io"}
    <3>1. ASSUME ~short
          PROVE  AfterData(bytes) \in 1..(Len(bytes) + 1)
      <4>1. AfterData(bytes) \in Nat /\ AfterData(bytes) >= 1 /\ Len(bytes) \in Nat
        BY <2>1, DataPlace
      <4>2. QED
        BY <2>6, <3>1, <4>1
    <3>2. QED
      BY <2>4, <3>1, BehindEnds DEF Trailing
  <2>8. Readable(bytes) <=> ~short /\ remain.end # "Io"
    BY <2>1, <2>4, <2>6, <2>7 DEF Readable
  <2>9. QED
    BY <1>1, <1>3, <2>5, <2>8
<1>4. QED
  BY <1>2, <1>3

-----------------------------------------------------------------------------
(* Files that end early *)

\* cut is a beginning of bytes.
CutFrom(bytes, cut) ==
    /\ cut \in Seq(Byte) /\ Len(cut) <= Len(bytes)
    /\ \A i \in 1..Len(cut) : cut[i] = bytes[i]

LEMMA CutIs ==
    ASSUME NEW bytes \in Seq(Byte), NEW length \in Nat, length <= Len(bytes)
    PROVE  CutFrom(bytes, SubSeq(bytes, 1, length)) /\ Len(SubSeq(bytes, 1, length)) = length
BY Pieces DEF CutFrom

LEMMA CutReads ==
    ASSUME NEW bytes \in Seq(Byte), NEW cut, CutFrom(bytes, cut), NEW m \in Nat \ {0}
    PROVE  /\ \A n \in Nat : m <= n + 1 /\ n <= Len(cut) => SubSeq(cut, m, n) = SubSeq(bytes, m, n)
           /\ m + 3 <= Len(cut) => U32(cut, m) = U32(bytes, m)
<1>1. cut \in Seq(Byte) /\ Len(cut) \in Nat /\ Len(bytes) \in Nat /\ Len(cut) <= Len(bytes)
      /\ \A i \in 1..Len(cut) : cut[i] = bytes[i]
  BY DEF CutFrom
<1>2. ASSUME NEW n \in Nat, m <= n + 1, n <= Len(cut)
      PROVE  SubSeq(cut, m, n) = SubSeq(bytes, m, n)
  <2>1. /\ SubSeq(cut, m, n) \in Seq(Byte) /\ Len(SubSeq(cut, m, n)) = (n - m) + 1
        /\ \A i \in 1..((n - m) + 1) : SubSeq(cut, m, n)[i] = cut[(m + i) - 1]
    BY <1>1, <1>2, Pieces
  <2>2. /\ SubSeq(bytes, m, n) \in Seq(Byte) /\ Len(SubSeq(bytes, m, n)) = (n - m) + 1
        /\ \A i \in 1..((n - m) + 1) : SubSeq(bytes, m, n)[i] = bytes[(m + i) - 1]
    <3>1. n <= Len(bytes)
      BY <1>1, <1>2
    <3>2. QED
      BY <1>2, <3>1, Pieces
  <2>3. ASSUME NEW i \in 1..((n - m) + 1)
        PROVE  SubSeq(cut, m, n)[i] = SubSeq(bytes, m, n)[i]
    <3>1. (m + i) - 1 \in 1..Len(cut)
      BY <1>1, <1>2
    <3>2. QED
      BY <1>1, <2>1, <2>2, <3>1
  <2>4. QED
    BY <2>1, <2>2, <2>3, SameWords
<1>3. ASSUME m + 3 <= Len(cut)
      PROVE  U32(cut, m) = U32(bytes, m)
  <2>1. cut[m] = bytes[m] /\ cut[m + 1] = bytes[m + 1] /\ cut[m + 2] = bytes[m + 2]
        /\ cut[m + 3] = bytes[m + 3]
    BY <1>1, <1>3
  <2>2. QED
    BY <2>1, SMT DEF U32, U16
<1>4. QED
  BY <1>2, <1>3

\* What is complete in the cut file stands in the whole one.
LEMMA CutHeader ==
    ASSUME NEW bytes \in Seq(Byte), NEW cut, CutFrom(bytes, cut), NEW at \in Nat \ {0},
           ChunkHeader(cut, at) = "chunk"
    PROVE  /\ at + 7 <= Len(cut)
           /\ ChunkHeader(bytes, at) = "chunk" /\ SizeAt(cut, at) = SizeAt(bytes, at)
           /\ SizeAt(cut, at) \in Nat
           /\ NextOf(cut, at) = NextOf(bytes, at)
           /\ SubSeq(cut, at, at + 3) = SubSeq(bytes, at, at + 3)
<1>1. cut \in Seq(Byte) /\ Len(cut) \in Nat /\ Len(bytes) \in Nat /\ Len(cut) <= Len(bytes)
  BY DEF CutFrom
<1>2. at + 7 <= Len(cut)
  BY <1>1 DEF ChunkHeader
<1>3. ChunkHeader(bytes, at) = "chunk"
  BY <1>1, <1>2 DEF ChunkHeader
<1>4. SizeAt(cut, at) = SizeAt(bytes, at) /\ SizeAt(cut, at) \in Nat
  <2>1. at + 4 \in Nat \ {0} /\ (at + 4) + 3 <= Len(cut)
    BY <1>1, <1>2
  <2>2. QED
    BY <1>1, <2>1, CutReads, Reads DEF SizeAt
<1>5. SubSeq(cut, at, at + 3) = SubSeq(bytes, at, at + 3)
  <2>1. at + 3 \in Nat /\ at <= (at + 3) + 1 /\ at + 3 <= Len(cut)
    BY <1>1, <1>2
  <2>2. QED
    BY <2>1, CutReads
<1>6. NextOf(cut, at) = NextOf(bytes, at)
  BY <1>4 DEF NextOf
<1>7. QED
  BY <1>2, <1>3, <1>4, <1>5, <1>6

LEMMA CutMore ==
    ASSUME NEW bytes \in Seq(Byte), NEW cut, CutFrom(bytes, cut), NEW until,
           NEW at \in 1..(Len(cut) + 1), EndAt(cut, until, at) = "more"
    PROVE  /\ EndAt(bytes, until, at) = "more"
           /\ ChunkAt(cut, at) = ChunkAt(bytes, at) /\ NextOf(cut, at) = NextOf(bytes, at)
<1>1. cut \in Seq(Byte) /\ Len(cut) \in Nat /\ Len(bytes) \in Nat /\ Len(cut) <= Len(bytes)
      /\ at \in Nat \ {0}
  BY DEF CutFrom
<1>2. /\ ChunkHeader(cut, at) = "chunk" /\ SubSeq(cut, at, at + 3) \notin until
      /\ ~(Len(cut) < NextOf(cut, at) - 1)
  <2>1. ChunkHeader(cut, at) # "more"
    BY DEF ChunkHeader
  <2>2. QED
    BY <2>1 DEF EndAt
<1>3. /\ at + 7 <= Len(cut)
      /\ ChunkHeader(bytes, at) = "chunk" /\ SizeAt(cut, at) = SizeAt(bytes, at)
      /\ NextOf(cut, at) = NextOf(bytes, at)
      /\ SubSeq(cut, at, at + 3) = SubSeq(bytes, at, at + 3)
  BY <1>1, <1>2, CutHeader
<1>4. /\ SizeAt(cut, at) \in Nat /\ NextOf(cut, at) \in 1..(Len(cut) + 1)
      /\ NextOf(cut, at) >= at + 8 + SizeAt(cut, at)
  BY <1>1, More
<1>5. EndAt(bytes, until, at) = "more"
  <2>1. ~(Len(bytes) < NextOf(bytes, at) - 1)
    BY <1>1, <1>2, <1>3, <1>4
  <2>2. QED
    BY <1>2, <1>3, <2>1 DEF EndAt
<1>6. SubSeq(cut, at + 8, at + 7 + SizeAt(cut, at)) = SubSeq(bytes, at + 8, at + 7 + SizeAt(cut, at))
  <2>1. at + 8 \in Nat \ {0} /\ at + 7 + SizeAt(cut, at) \in Nat
        /\ at + 8 <= (at + 7 + SizeAt(cut, at)) + 1 /\ at + 7 + SizeAt(cut, at) <= Len(cut)
    BY <1>1, <1>3, <1>4
  <2>2. QED
    BY <2>1, CutReads
<1>7. QED
  BY <1>3, <1>5, <1>6 DEF ChunkAt

LEMMA CutRow ==
    ASSUME NEW bytes \in Seq(Byte), NEW cut, CutFrom(bytes, cut), NEW chunks, Len(chunks) \in Nat,
           NEW places, Row(cut, places, chunks)
    PROVE  Row(bytes, places, chunks)
<1>1. Len(cut) \in Nat /\ Len(bytes) \in Nat /\ Len(cut) <= Len(bytes)
  BY DEF CutFrom
<1> DEFINE n == Len(chunks)
<1>2. /\ places \in [0..n -> 1..(Len(cut) + 1)]
      /\ \A i \in 1..n : /\ EndAt(cut, {}, places[i - 1]) = "more"
                         /\ ChunkAt(cut, places[i - 1]) = chunks[i]
                         /\ NextOf(cut, places[i - 1]) = places[i]
  BY DEF Row
<1> HIDE DEF n
<1>3. places \in [0..n -> 1..(Len(bytes) + 1)]
  <2>1. 1..(Len(cut) + 1) \subseteq 1..(Len(bytes) + 1)
    BY <1>1
  <2>2. QED
    BY <1>2, <2>1
<1>4. ASSUME NEW i \in 1..n
      PROVE  /\ EndAt(bytes, {}, places[i - 1]) = "more"
             /\ ChunkAt(bytes, places[i - 1]) = chunks[i]
             /\ NextOf(bytes, places[i - 1]) = places[i]
  <2>1. n \in Nat
    BY DEF n
  <2>2. i - 1 \in 0..n
    BY <2>1
  <2>3. places[i - 1] \in 1..(Len(cut) + 1)
    BY <1>2, <2>2
  <2>4. QED
    BY <1>2, <2>3, CutMore
<1>5. QED
  BY <1>3, <1>4 DEF Row, n

-----------------------------------------------------------------------------
(* The places of a row are the sizes of its chunks *)

Sizes(chunks) ==
    CHOOSE size : size = [i \in 0..Len(chunks) |->
                              IF i = 0 THEN 0 ELSE size[i - 1] + SerializedSize(chunks[i])]

LEMMA SerializedSizes ==
    ASSUME NEW c \in Chunks
    PROVE  SerializedSize(c) \in Nat /\ SerializedSize(c) = 8 + (Len(c.data) + (Len(c.data) % 2))
<1>1. Len(c.data) \in Nat
  BY DEF Chunks
<1>2. SerializedSize(c) = 8 + Len(c.data) + (Len(c.data) % 2)
  BY DEF SerializedSize
<1> DEFINE l == Len(c.data)
<1> HIDE DEF l
<1>3. l \in Nat /\ SerializedSize(c) = 8 + l + (l % 2)
  BY <1>1, <1>2 DEF l
<1>4. SerializedSize(c) \in Nat /\ SerializedSize(c) = 8 + (l + (l % 2))
  BY <1>3
<1>5. QED
  BY <1>4 DEF l

LEMMA SizeSteps ==
    ASSUME NEW chunks \in Seq(Chunks)
    PROVE  /\ Sizes(chunks) \in [0..Len(chunks) -> Nat] /\ Sizes(chunks)[0] = 0
           /\ \A i \in 1..Len(chunks) :
                  Sizes(chunks)[i] = Sizes(chunks)[i - 1] + SerializedSize(chunks[i])
           /\ TotalSize(chunks) = Sizes(chunks)[Len(chunks)]
<1> DEFINE n == Len(chunks)
           size(i) == SerializedSize(chunks[i])
           step == [i \in 1..n |-> [m \in Nat |-> m + size(i)]]
           Steps(f) == f = [i \in 0..n |-> IF i = 0 THEN 0 ELSE f[i - 1] + size(i)]
<1>1. n \in Nat /\ \A i \in 1..n : size(i) \in Nat
  <2>1. ASSUME NEW i \in 1..n
        PROVE  size(i) \in Nat
    <3> DEFINE c == chunks[i]
    <3>1. c \in Chunks
      OBVIOUS
    <3> HIDE DEF c
    <3>2. SerializedSize(c) \in Nat
      BY <3>1, SerializedSizes
    <3>3. QED
      BY <3>2 DEF c
  <2>2. QED
    BY <2>1
<1> HIDE DEF size
<1>2. step \in [1..n -> [Nat -> Nat]] /\ \A i \in 1..n, m \in Nat : step[i][m] = m + size(i)
  BY <1>1
<1> HIDE DEF step
<1>3. PICK f : Loops(f, n, Nat, 0, step)
  BY <1>1, <1>2, Recursion
<1>4. f \in [0..n -> Nat] /\ f[0] = 0 /\ \A i \in 1..n : f[i] = step[i][f[i - 1]]
  BY <1>3 DEF Loops
<1>5. \A i \in 1..n : f[i - 1] \in Nat /\ f[i] = f[i - 1] + size(i)
  <2>1. \A i \in 1..n : i - 1 \in 0..n
    BY <1>1
  <2>2. QED
    BY <1>2, <1>4, <2>1
<1>6. Steps(f)
  <2>1. \A i \in 0..n : f[i] = IF i = 0 THEN 0 ELSE f[i - 1] + size(i)
    BY <1>1, <1>4, <1>5
  <2>2. QED
    BY <1>4, <2>1
<1>7. Steps(Sizes(chunks)) /\ TotalSize(chunks) = Sizes(chunks)[n]
  <2> DEFINE g == CHOOSE g : Steps(g)
  <2>1. Sizes(chunks) = g
    BY DEF Sizes, size
  <2>2. TotalSize(chunks) = g[n]
    BY DEF TotalSize, size
  <2>3. Steps(g)
    BY <1>6
  <2>4. QED
    BY <2>1, <2>2, <2>3
<1> DEFINE s == Sizes(chunks)
<1> HIDE DEF s
<1>8. s = [i \in 0..n |-> IF i = 0 THEN 0 ELSE s[i - 1] + size(i)]
  BY <1>7 DEF s
<1>9. s[0] = 0 /\ \A i \in 1..n : s[i] = s[i - 1] + size(i)
  BY <1>1, <1>8
<1> DEFINE T == {i \in Nat : i <= n => s[i] \in Nat}
<1>10. 0 \in T
  BY <1>9
<1>11. ASSUME NEW i \in Nat, i \in T
       PROVE  i + 1 \in T
  <2>1. i + 1 <= n => i + 1 \in 1..n /\ s[i] \in Nat /\ s[i + 1] = s[i] + size(i + 1)
    BY <1>1, <1>9, <1>11
  <2>2. QED
    BY <1>1, <2>1
<1>12. \A i \in 0..n : s[i] \in Nat
  <2> HIDE DEF T
  <2>1. Nat \subseteq T
    BY <1>10, <1>11, UpTo
  <2>2. QED
    BY <2>1 DEF T
<1>13. s \in [0..n -> Nat]
  BY <1>8, <1>12
<1>14. QED
  BY <1>7, <1>9, <1>13 DEF s, size

LEMMA RowSizes ==
    ASSUME NEW bytes \in Seq(Byte), NEW chunks \in Seq(Chunks), NEW places,
           Row(bytes, places, chunks)
    PROVE  /\ places[0] \in Nat
           /\ \A i \in 0..Len(chunks) : places[i] = places[0] + Sizes(chunks)[i]
           /\ places[Len(chunks)] = places[0] + TotalSize(chunks)
<1> DEFINE n == Len(chunks)
           s == Sizes(chunks)
<1>1. n \in Nat /\ s \in [0..n -> Nat] /\ s[0] = 0
      /\ (\A i \in 1..n : s[i] = s[i - 1] + SerializedSize(chunks[i]))
      /\ TotalSize(chunks) = s[n]
  BY SizeSteps
<1>2. \A i \in 0..n : places[i] \in 1..(Len(bytes) + 1)
  BY DEF Row
<1>3. \A i \in 0..n : places[i] \in Nat
  BY <1>2
<1> HIDE DEF n, s
<1>4. ASSUME NEW i \in 1..n
      PROVE  places[i] = places[i - 1] + SerializedSize(chunks[i])
             /\ SerializedSize(chunks[i]) \in Nat
  <2> DEFINE at == places[i - 1]
             l == SizeAt(bytes, at)
  <2>1. i - 1 \in 0..n
    BY <1>1
  <2>2. at \in 1..(Len(bytes) + 1) /\ EndAt(bytes, {}, at) = "more"
        /\ ChunkAt(bytes, at) = chunks[i] /\ NextOf(bytes, at) = places[i]
    BY <1>2, <2>1 DEF Row, n
  <2>3. l \in Nat /\ Len(chunks[i].data) = l
    BY <2>2, More
  <2>4. SerializedSize(chunks[i]) \in Nat /\ SerializedSize(chunks[i]) = 8 + (l + (l % 2))
    <3>1. chunks[i] \in Chunks
      BY DEF n
    <3>2. QED
      BY <2>3, <3>1, SerializedSizes
  <2>5. places[i] = at + 8 + (l + (l % 2))
    BY <2>2 DEF NextOf, Padded
  <2> HIDE DEF at, l
  <2>6. at \in Nat
    BY <2>2
  <2>7. places[i] = at + SerializedSize(chunks[i])
    BY <2>3, <2>4, <2>5, <2>6
  <2>8. QED
    BY <2>4, <2>7 DEF at
<1> DEFINE T == {i \in Nat : i <= n => places[i] = places[0] + s[i]}
<1>5. 0 \in T
  BY <1>1, <1>3
<1>6. ASSUME NEW i \in Nat, i \in T
      PROVE  i + 1 \in T
  <2> SUFFICES ASSUME i + 1 <= n
               PROVE  places[i + 1] = places[0] + s[i + 1]
    OBVIOUS
  <2>1. i + 1 \in 1..n /\ (i + 1) - 1 = i /\ i \in 0..n /\ 0 \in 0..n
    BY <1>1
  <2>2. /\ places[i + 1] = places[i] + SerializedSize(chunks[i + 1])
        /\ SerializedSize(chunks[i + 1]) \in Nat
        /\ s[i + 1] = s[i] + SerializedSize(chunks[i + 1])
    BY <1>1, <1>4, <2>1
  <2>3. places[i] = places[0] + s[i] /\ places[0] \in Nat /\ s[i] \in Nat
    BY <1>1, <1>3, <1>6, <2>1
  <2>4. QED
    BY <2>2, <2>3
<1>7. \A i \in 0..n : places[i] = places[0] + s[i]
  <2> HIDE DEF T
  <2>1. Nat \subseteq T
    BY <1>5, <1>6, UpTo
  <2>2. QED
    BY <2>1 DEF T
<1>8. 0 \in 0..n /\ n \in 0..n
  BY <1>1
<1>9. QED
  BY <1>1, <1>3, <1>7, <1>8 DEF n, s

-----------------------------------------------------------------------------
(* A file that ends early reads as the same value, or not at all *)

\* A scan of the beginning is the beginning of the scan.
ScansOn(bytes, cut, until, at, scan) ==
    /\ scan \in Scans /\ scan.at \in 1..(Len(cut) + 1)
    /\ EndAt(cut, until, scan.at) = scan.end
    /\ scan.at = at + TotalSize(scan.chunks)
    /\ LET last == Scan(bytes, until)[scan.at]
       IN  /\ last \in Scans
           /\ Scan(bytes, until)[at]
              = [end |-> last.end, at |-> last.at, chunks |-> scan.chunks \o last.chunks]

LEMMA CutScan ==
    ASSUME NEW bytes \in Seq(Byte), NEW cut, CutFrom(bytes, cut), NEW until,
           NEW at \in 1..(Len(cut) + 1)
    PROVE  ScansOn(bytes, cut, until, at, Scan(cut, until)[at])
<1> DEFINE scan == Scan(cut, until)[at]
<1>1. cut \in Seq(Byte)
  BY DEF CutFrom
<1>2. /\ scan \in Scans /\ scan.at \in 1..(Len(cut) + 1)
      /\ EndAt(cut, until, scan.at) = scan.end
  BY <1>1, ScanEnds
<1>3. PICK p : Walks(cut, until, at, scan, p)
  BY <1>1, ScanWalks
<1>4. scan.chunks \in Seq(Chunks)
  BY <1>2 DEF Scans
<1>5. /\ Row(cut, p, scan.chunks) /\ None(scan.chunks, until)
      /\ p[0] = at /\ p[Len(scan.chunks)] = scan.at
  BY <1>3 DEF Walks
<1> DEFINE chunks == scan.chunks
<1> HIDE DEF chunks
<1>6. chunks \in Seq(Chunks) /\ Row(cut, p, chunks) /\ None(chunks, until)
      /\ p[0] = at /\ p[Len(chunks)] = scan.at
  BY <1>4, <1>5 DEF chunks
<1>7. scan.at = at + TotalSize(chunks)
  BY <1>1, <1>6, RowSizes
<1>8. Row(bytes, p, chunks)
  <2>1. Len(chunks) \in Nat
    BY <1>6
  <2>2. QED
    BY <1>6, <2>1, CutRow
<1> DEFINE last == Scan(bytes, until)[p[Len(chunks)]]
<1>9. last \in Scans
      /\ Scan(bytes, until)[p[0]]
         = [end |-> last.end, at |-> last.at, chunks |-> chunks \o last.chunks]
  BY <1>6, <1>8, ScanAlong
<1>10. last = Scan(bytes, until)[scan.at]
  BY <1>6
<1> HIDE DEF last
<1>11. QED
  BY <1>2, <1>6, <1>7, <1>9, <1>10 DEF ScansOn, chunks

LEMMA CutPreamble ==
    ASSUME NEW bytes \in Seq(Byte), NEW cut, CutFrom(bytes, cut),
           RiffError(cut) = "none", Preamble(cut).end = "data"
    PROVE  /\ RiffError(bytes) = "none" /\ Preamble(bytes) = Preamble(cut)
           /\ DataSize(bytes) = DataSize(cut) /\ AfterData(bytes) = AfterData(cut)
<1>1. cut \in Seq(Byte) /\ Len(cut) \in Nat /\ Len(bytes) \in Nat /\ Len(cut) <= Len(bytes)
  BY DEF CutFrom
<1>2. ~(Len(cut) < 12) /\ SubSeq(cut, 1, 4) = RIFF /\ SubSeq(cut, 9, 12) = WAVE
  BY DEF RiffError
<1>3. SubSeq(cut, 1, 4) = SubSeq(bytes, 1, 4) /\ SubSeq(cut, 9, 12) = SubSeq(bytes, 9, 12)
  BY <1>1, <1>2, CutReads
<1>4. RiffError(bytes) = "none"
  BY <1>1, <1>2, <1>3 DEF RiffError
<1> DEFINE scan == Preamble(cut)
           at == scan.at
<1>5. 13 \in 1..(Len(cut) + 1) /\ scan = Scan(cut, {DATA})[13]
  BY <1>1, RiffErrors DEF Preamble
<1>6. /\ scan \in Scans /\ at \in Nat \ {0} /\ EndAt(cut, {DATA}, at) = "data"
      /\ SubSeq(cut, at, at + 3) = DATA
  BY <1>1, DataPlace
<1>7. ChunkHeader(cut, at) = "chunk"
  <2>1. ChunkHeader(cut, at) # "data"
    BY DEF ChunkHeader
  <2>2. QED
    BY <1>6, <2>1 DEF EndAt
<1> HIDE DEF scan
<1>8. /\ at + 7 <= Len(cut) /\ ChunkHeader(bytes, at) = "chunk"
      /\ SizeAt(cut, at) = SizeAt(bytes, at) /\ NextOf(cut, at) = NextOf(bytes, at)
      /\ SubSeq(cut, at, at + 3) = SubSeq(bytes, at, at + 3)
  BY <1>6, <1>7, CutHeader
<1>9. EndAt(bytes, {DATA}, at) = "data" /\ at \in 1..(Len(bytes) + 1)
  <2>1. SubSeq(bytes, at, at + 3) \in {DATA}
    BY <1>6, <1>8
  <2>2. EndAt(bytes, {DATA}, at) = "data"
    BY <1>8, <2>1 DEF EndAt
  <2>3. QED
    BY <1>1, <1>6, <1>8, <2>2
<1>10. Scan(bytes, {DATA})[at] = Ending("data", at)
  <2> DEFINE a == at
  <2>1. a \in 1..(Len(bytes) + 1) /\ EndAt(bytes, {DATA}, a) = "data"
    BY <1>9
  <2> HIDE DEF a
  <2>2. Scan(bytes, {DATA})[a] = Ending("data", a)
    BY <2>1, ScanSteps
  <2>3. QED
    BY <2>2 DEF a
<1>11. Preamble(bytes) = scan
  <2> DEFINE last == Scan(bytes, {DATA})[at]
  <2>1. Preamble(bytes) = [end |-> last.end, at |-> last.at, chunks |-> scan.chunks \o last.chunks]
    <3>1. ScansOn(bytes, cut, {DATA}, 13, scan)
      BY <1>5, CutScan
    <3>2. QED
      BY <3>1 DEF ScansOn, Preamble
  <2>2. last.end = "data" /\ last.at = at /\ last.chunks = <<>>
    BY <1>10 DEF Ending
  <2> HIDE DEF last
  <2>3. scan.end = "data"
    BY DEF scan
  <2>4. scan.chunks \in Seq(Chunks) /\ scan = [end |-> scan.end, at |-> scan.at, chunks |-> scan.chunks]
    BY <1>6 DEF Scans
  <2>5. scan.chunks \o <<>> = scan.chunks
    BY <2>4
  <2>6. QED
    BY <2>1, <2>2, <2>3, <2>4, <2>5
<1>12. QED
  BY <1>4, <1>8, <1>11 DEF DataSize, AfterData, scan

LEMMA UnchainedIs ==
    ASSUME NEW bytes
    PROVE  [ValueRead(bytes) EXCEPT !.chunks_after_data = <<>>]
           = [header |-> ValueRead(bytes).header,
              fmt_extension |-> ValueRead(bytes).fmt_extension,
              chunks_before_fmt |-> ValueRead(bytes).chunks_before_fmt,
              chunks_before_data |-> ValueRead(bytes).chunks_before_data,
              data |-> ValueRead(bytes).data, chunks_after_data |-> <<>>]
<1> DEFINE header == HeaderOf(FormatRead(bytes))
           extension == SubSeq(FormatRead(bytes), 17, Len(FormatRead(bytes)))
           before_fmt == Sorted(Preamble(bytes).chunks).before_fmt
           before_data == Sorted(Preamble(bytes).chunks).before_data
           data == SubSeq(bytes, Preamble(bytes).at + 8,
                          (Preamble(bytes).at + 8) + DataSize(bytes) - 1)
           after == Trailing(bytes).chunks
<1>1. ValueRead(bytes)
      = [header |-> header, fmt_extension |-> extension, chunks_before_fmt |-> before_fmt,
         chunks_before_data |-> before_data, data |-> data, chunks_after_data |-> after]
  BY DEF ValueRead
<1> HIDE DEF header, extension, before_fmt, before_data, data, after
<1>2. QED
  BY <1>1

\* The data and what stands in front of it are the ones of the whole file, and of the
\* chunks behind it as many as are whole.
LEMMA CutValue ==
    ASSUME NEW bytes \in Seq(Byte), NEW cut, CutFrom(bytes, cut), Readable(cut), Readable(bytes)
    PROVE  LET some == ValueRead(cut).chunks_after_data
               all == ValueRead(bytes).chunks_after_data
           IN  /\ [ValueRead(cut) EXCEPT !.chunks_after_data = <<>>]
                  = [ValueRead(bytes) EXCEPT !.chunks_after_data = <<>>]
               /\ IsPrefix(some, all)
               /\ Len(bytes) + TotalSize(some) + 3 >= Len(cut) + TotalSize(all)
<1>1. cut \in Seq(Byte) /\ Len(cut) \in Nat /\ Len(bytes) \in Nat /\ Len(cut) <= Len(bytes)
  BY DEF CutFrom
<1>2. /\ RiffError(cut) = "none" /\ Preamble(cut).end = "data"
      /\ AfterData(cut) - 1 <= Len(cut) /\ Trailing(cut).end = "eof"
  BY DEF Readable
<1>3. /\ Preamble(bytes) = Preamble(cut) /\ DataSize(bytes) = DataSize(cut)
      /\ AfterData(bytes) = AfterData(cut)
  BY <1>2, CutPreamble
<1>4. /\ Preamble(cut).at \in Nat \ {0} /\ Preamble(cut).at + 7 <= Len(cut)
      /\ DataSize(cut) \in Nat
      /\ AfterData(cut) \in Nat /\ AfterData(cut) >= Preamble(cut).at + 8 + DataSize(cut)
  BY <1>1, <1>2, DataPlace
<1> DEFINE at == Preamble(cut).at
           size == DataSize(cut)
           after == AfterData(cut)
           end == (at + 8) + size - 1
<1>5. ValueRead(cut).data = ValueRead(bytes).data
  <2>1. ValueRead(cut).data = SubSeq(cut, at + 8, end) /\ ValueRead(bytes).data = SubSeq(bytes, at + 8, end)
    BY <1>3 DEF ValueRead
  <2>2. at \in Nat \ {0} /\ at + 7 <= Len(cut) /\ size \in Nat /\ after \in Nat
        /\ after >= at + 8 + size /\ after - 1 <= Len(cut)
    BY <1>2, <1>4
  <2> HIDE DEF at, size, after
  <2>3. at + 8 \in Nat \ {0} /\ end \in Nat /\ at + 8 <= end + 1 /\ end <= Len(cut)
    BY <1>1, <2>2
  <2>4. SubSeq(cut, at + 8, end) = SubSeq(bytes, at + 8, end)
    BY <2>3, CutReads
  <2>5. QED
    BY <2>1, <2>4
<1>6. [ValueRead(cut) EXCEPT !.chunks_after_data = <<>>]
      = [ValueRead(bytes) EXCEPT !.chunks_after_data = <<>>]
  <2>1. FormatRead(cut) = FormatRead(bytes)
    BY <1>3 DEF FormatRead
  <2>2. /\ ValueRead(cut).header = ValueRead(bytes).header
        /\ ValueRead(cut).fmt_extension = ValueRead(bytes).fmt_extension
        /\ ValueRead(cut).chunks_before_fmt = ValueRead(bytes).chunks_before_fmt
        /\ ValueRead(cut).chunks_before_data = ValueRead(bytes).chunks_before_data
    BY <1>3, <2>1 DEF ValueRead
  <2>3. \A w : [ValueRead(w) EXCEPT !.chunks_after_data = <<>>]
               = [header |-> ValueRead(w).header,
                  fmt_extension |-> ValueRead(w).fmt_extension,
                  chunks_before_fmt |-> ValueRead(w).chunks_before_fmt,
                  chunks_before_data |-> ValueRead(w).chunks_before_data,
                  data |-> ValueRead(w).data, chunks_after_data |-> <<>>]
    BY UnchainedIs
  <2>4. QED
    BY <1>5, <2>2, <2>3
<1> DEFINE some == Trailing(cut)
           all == Trailing(bytes)
           last == Scan(bytes, {})[some.at]
<1>7. after \in 1..(Len(cut) + 1) /\ after \in 1..(Len(bytes) + 1) /\ after \in Nat
  BY <1>1, <1>2, <1>4
<1>8. some = Scan(cut, {})[after] /\ all = Scan(bytes, {})[after]
  BY <1>3 DEF Trailing
<1> HIDE DEF some, all, after
<1>9. /\ some \in Scans /\ some.at \in 1..(Len(cut) + 1)
      /\ EndAt(cut, {}, some.at) = some.end
      /\ some.at = after + TotalSize(some.chunks)
      /\ last \in Scans
      /\ all = [end |-> last.end, at |-> last.at, chunks |-> some.chunks \o last.chunks]
  <2>1. ScansOn(bytes, cut, {}, after, some)
    BY <1>7, <1>8, CutScan
  <2>2. QED
    BY <1>8, <2>1 DEF ScansOn
<1>10. /\ all \in Scans /\ all.at \in 1..(Len(bytes) + 1)
       /\ all.at = after + TotalSize(all.chunks)
  <2>1. CutFrom(bytes, bytes)
    BY <1>1 DEF CutFrom
  <2>2. ScansOn(bytes, bytes, {}, after, all)
    BY <1>7, <1>8, <2>1, CutScan
  <2>3. QED
    BY <2>2 DEF ScansOn
<1>11. Len(cut) < some.at + 3
  <2>1. EndAt(cut, {}, some.at) = "eof"
    BY <1>2, <1>9 DEF some
  <2>2. ChunkHeader(cut, some.at) = "eof"
    BY <2>1 DEF EndAt
  <2>3. QED
    BY <2>2 DEF ChunkHeader
<1>12. TotalSize(some.chunks) \in Nat /\ TotalSize(all.chunks) \in Nat
  <2>1. some.chunks \in Seq(Chunks) /\ all.chunks \in Seq(Chunks)
    BY <1>9, <1>10 DEF Scans
  <2>2. \A chunks \in Seq(Chunks) : TotalSize(chunks) \in Nat
    <3>1. ASSUME NEW chunks \in Seq(Chunks)
          PROVE  TotalSize(chunks) \in Nat
      <4>1. Sizes(chunks) \in [0..Len(chunks) -> Nat] /\ TotalSize(chunks) = Sizes(chunks)[Len(chunks)]
        BY SizeSteps
      <4>2. Len(chunks) \in 0..Len(chunks)
        OBVIOUS
      <4>3. QED
        BY <4>1, <4>2
    <3>2. QED
      BY <3>1
  <2>3. QED
    BY <2>1, <2>2
<1>13. Len(bytes) + TotalSize(some.chunks) + 3 >= Len(cut) + TotalSize(all.chunks)
  <2> DEFINE s == TotalSize(some.chunks)
             a == TotalSize(all.chunks)
  <2>1. s \in Nat /\ a \in Nat /\ Len(cut) < after + s + 3 /\ after + a <= Len(bytes) + 1
    BY <1>7, <1>9, <1>10, <1>11, <1>12
  <2> HIDE DEF s, a
  <2>2. Len(bytes) + s + 3 >= Len(cut) + a
    BY <1>1, <1>7, <2>1
  <2>3. QED
    BY <2>2 DEF s, a
<1>14. IsPrefix(some.chunks, all.chunks)
  <2> DEFINE front == some.chunks
             back == last.chunks
  <2>1. front \in Seq(Chunks) /\ back \in Seq(Chunks)
    BY <1>9 DEF Scans
  <2>2. all.chunks = front \o back
    BY <1>9
  <2> HIDE DEF front, back
  <2>3. Len(front) <= Len(front \o back) /\ SubSeq(front \o back, 1, Len(front)) = front
        /\ SubSeq(front, 1, Len(front)) = front
    BY <2>1
  <2>4. QED
    BY <2>2, <2>3 DEF IsPrefix, front
<1>15. ValueRead(cut).chunks_after_data = some.chunks /\ ValueRead(bytes).chunks_after_data = all.chunks
  BY DEF ValueRead, some, all
<1>16. QED
  BY <1>6, <1>13, <1>14, <1>15

-----------------------------------------------------------------------------
(* The test *)

FileInv == stage = "load" => file \in Files

LEMMA FileStep ==
    ASSUME FileInv, [TestNext]_allVars
    PROVE  FileInv'
<1>1. CASE Bench
  BY <1>1 DEF Bench, testVars, FileInv
<1>2. CASE LoadWav
  <2>1. stage' # "load"
    BY <1>2 DEF LoadWav
  <2>2. QED
    BY <2>1 DEF FileInv
<1>3. CASE PadChunk
  BY <1>3 DEF PadChunk, testVars, FileInv
<1>4. CASE LoseChunk
  BY <1>4 DEF LoseChunk, FileInv
<1>5. CASE PresentChunk
  <2>1. stage' # "load"
    BY <1>5 DEF PresentChunk
  <2>2. QED
    BY <2>1 DEF FileInv
<1>6. CASE Finish
  <2>1. stage' # "load"
    BY <1>6 DEF Finish
  <2>2. QED
    BY <2>1 DEF FileInv
<1>7. ASSUME NEW accepted \in BOOLEAN, SendChunk(accepted)
      PROVE  FileInv'
  <2>1. stage' # "load"
    BY <1>7 DEF SendChunk
  <2>2. QED
    BY <2>1 DEF FileInv
<1>8. CASE UNCHANGED allVars
  BY <1>8 DEF allVars, testVars, FileInv
<1>9. QED
  BY <1>1, <1>2, <1>3, <1>4, <1>5, <1>6, <1>7, <1>8 DEF TestNext

LEMMA CutOfWhole ==
    ASSUME NEW bytes \in Seq(Byte), NEW length \in Nat, length <= Len(bytes),
           ReadWav(bytes).outcome = "Wav", ReadWav(SubSeq(bytes, 1, length)).outcome = "Wav"
    PROVE  LET whole == ReadWav(bytes)
               cut == ReadWav(SubSeq(bytes, 1, length))
           IN  /\ Unchained(cut.wav) = Unchained(whole.wav)
               /\ IsPrefix(cut.wav.chunks_after_data, whole.wav.chunks_after_data)
               /\ Len(bytes) + TotalSize(cut.wav.chunks_after_data) + 3
                      >= length + TotalSize(whole.wav.chunks_after_data)
<1> DEFINE part == SubSeq(bytes, 1, length)
<1>1. CutFrom(bytes, part) /\ Len(part) = length
  BY CutIs
<1>2. part \in Seq(Byte)
  BY <1>1 DEF CutFrom
<1> HIDE DEF part
<1>3. Readable(bytes) /\ ReadWav(bytes).wav = ValueRead(bytes)
  <2>1. Readable(bytes)
    BY WavRead
  <2>2. QED
    BY <2>1, WavRead
<1>4. Readable(part) /\ ReadWav(part).wav = ValueRead(part)
  <2>1. Readable(part)
    BY <1>2, WavRead DEF part
  <2>2. QED
    BY <1>2, <2>1, WavRead
<1>5. LET some == ValueRead(part).chunks_after_data
          all == ValueRead(bytes).chunks_after_data
      IN  /\ [ValueRead(part) EXCEPT !.chunks_after_data = <<>>]
             = [ValueRead(bytes) EXCEPT !.chunks_after_data = <<>>]
          /\ IsPrefix(some, all)
          /\ Len(bytes) + TotalSize(some) + 3 >= Len(part) + TotalSize(all)
  BY <1>1, <1>3, <1>4, CutValue
<1>6. QED
  BY <1>1, <1>3, <1>4, <1>5 DEF Unchained, part

\* A WAV file that is cut anywhere is refused, unless its samples are all there and it
\* ends with whole chunks or within the id of the next (TestPayload!CutFileIsRefused):
\* for every file, with every chunk and format, and every length.
THEOREM CutFileIsRefusedAlways == TestSpec => []CutFileIsRefused
<1>1. TestInit => FileInv
  BY DEF TestInit, FileInv
<1>2. FileInv /\ [TestNext]_allVars => FileInv'
  BY FileStep
<1>3. FileInv => CutFileIsRefused
  <2>1. ASSUME FileInv, stage = "load"
        PROVE  file \in Seq(Byte)
    BY <2>1, PayloadAssumption DEF FileInv
  <2>2. ASSUME file \in Seq(Byte), NEW length \in 0..(Len(file) - 1)
        PROVE  length \in Nat /\ length <= Len(file)
    BY <2>2
  <2>3. QED
    BY <2>1, <2>2, CutOfWhole DEF CutFileIsRefused
<1>4. QED
  BY <1>1, <1>2, <1>3, PTL DEF TestSpec

-----------------------------------------------------------------------------
(* Numbers as bytes *)

LEMMA Powers ==
    256^(1 - 1) = 1 /\ 256^(2 - 1) = 256 /\ 256^(3 - 1) = 65536 /\ 256^(4 - 1) = 16777216
BY SMT

\* The bytes of a number, the lowest first.
BytesAre(b, n, width) ==
    /\ b \in Seq(Byte) /\ Len(b) = width
    /\ width >= 1 => b[1] = n % 256
    /\ width >= 2 => b[2] = (n \div 256) % 256
    /\ width >= 3 => b[3] = (n \div 65536) % 256
    /\ width >= 4 => b[4] = (n \div 16777216) % 256

LEMMA BytesOf ==
    ASSUME NEW n \in Nat, NEW width \in 0..4
    PROVE  BytesAre(LE(n, width), n, width)
<1>1. \A i \in 1..width : LE(n, width)[i] = (n \div 256^(i - 1)) % 256
  BY DEF LE
<1>2. width >= 1 => LE(n, width)[1] = n % 256
  <2>1. width >= 1 => 1 \in 1..width
    OBVIOUS
  <2>2. width >= 1 => LE(n, width)[1] = (n \div 256^(1 - 1)) % 256
    BY <1>1, <2>1
  <2>3. n \div 1 = n
    BY SMT
  <2>4. QED
    BY <2>2, <2>3, Powers
<1>3. width >= 2 => LE(n, width)[2] = (n \div 256) % 256
  <2>1. width >= 2 => 2 \in 1..width
    OBVIOUS
  <2>2. width >= 2 => LE(n, width)[2] = (n \div 256^(2 - 1)) % 256
    BY <1>1, <2>1
  <2>3. QED
    BY <2>2, Powers
<1>4. width >= 3 => LE(n, width)[3] = (n \div 65536) % 256
  <2>1. width >= 3 => 3 \in 1..width
    OBVIOUS
  <2>2. width >= 3 => LE(n, width)[3] = (n \div 256^(3 - 1)) % 256
    BY <1>1, <2>1
  <2>3. QED
    BY <2>2, Powers, SMT
<1>5. width >= 4 => LE(n, width)[4] = (n \div 16777216) % 256
  <2>1. width >= 4 => 4 \in 1..width
    OBVIOUS
  <2>2. width >= 4 => LE(n, width)[4] = (n \div 256^(4 - 1)) % 256
    BY <1>1, <2>1
  <2>3. QED
    BY <2>2, Powers, SMT
<1>6. /\ n % 256 \in Byte /\ (n \div 256) % 256 \in Byte /\ (n \div 65536) % 256 \in Byte
      /\ (n \div 16777216) % 256 \in Byte
  BY SMT DEF Byte
<1>7. LE(n, width) \in Seq(Byte) /\ Len(LE(n, width)) = width
  <2> DEFINE s == LE(n, width)
  <2>1. ASSUME NEW i \in 1..width
        PROVE  s[i] \in Byte
    <3>1. i = 1 \/ i = 2 \/ i = 3 \/ i = 4
      OBVIOUS
    <3>2. QED
      BY <1>2, <1>3, <1>4, <1>5, <1>6, <3>1, SMT
  <2>2. DOMAIN s = 1..width /\ s = [i \in 1..width |-> s[i]] /\ width \in Nat
    BY DEF LE
  <2> HIDE DEF s
  <2>3. s \in Seq(Byte) /\ Len(s) = width
    BY <2>1, <2>2
  <2>4. QED
    BY <2>3 DEF s
<1>8. QED
  BY <1>2, <1>3, <1>4, <1>5, <1>7 DEF BytesAre

LEMMA BytesOfTwo ==
    ASSUME NEW n \in Nat
    PROVE  /\ LE(n, 2) \in Seq(Byte) /\ Len(LE(n, 2)) = 2
           /\ LE(n, 2)[1] = n % 256 /\ LE(n, 2)[2] = (n \div 256) % 256
<1>1. LE(n, 2) \in Seq(Byte) /\ Len(LE(n, 2)) = 2
  <2>1. BytesAre(LE(n, 2), n, 2)
    BY BytesOf
  <2>2. QED
    BY <2>1 DEF BytesAre
<1>2. LE(n, 2)[1] = (n \div 256^(1 - 1)) % 256 /\ LE(n, 2)[2] = (n \div 256^(2 - 1)) % 256
  BY DEF LE
<1>3. n \div 1 = n
  BY SMT
<1>4. QED
  BY <1>1, <1>2, <1>3, Powers
\* The numbers of two bytes.
TwoByteNumbers == {n \in Nat : n < 65536}

LEMMA TwoByteNumbersAre == TwoByteNumbers \subseteq Nat
BY SMT DEF TwoByteNumbers

LEMMA BytesOfFour ==
    ASSUME NEW n \in Nat
    PROVE  LE(n, 4) \in Seq(Byte) /\ Len(LE(n, 4)) = 4
<1>1. BytesAre(LE(n, 4), n, 4)
  BY BytesOf
<1>2. QED
  BY <1>1 DEF BytesAre

\* Two of its bytes make the number again, and four.
LEMMA TwoBytes ==
    ASSUME NEW n \in TwoByteNumbers, NEW bytes, NEW at \in Nat,
           bytes[at] = LE(n, 2)[1], bytes[at + 1] = LE(n, 2)[2]
    PROVE  U16(bytes, at) = n
<1>1. LE(n, 2)[1] = n % 256 /\ LE(n, 2)[2] = (n \div 256) % 256
  <2>1. n \in Nat
    BY TwoByteNumbersAre
  <2>2. QED
    BY <2>1, BytesOfTwo
<1> DEFINE a == n % 256
           p == n \div 256
<1>2. n = 256 * p + a /\ p \in 0..255 /\ a \in 0..255
  <2>1. n \in Nat /\ n < 65536
    BY SMT DEF TwoByteNumbers
  <2>2. n \div 256 \in Nat /\ n = 256 * (n \div 256) + a /\ a \in 0..255
    BY <2>1, SMT
  <2> HIDE DEF a
  <2>3. p \in Nat /\ n = 256 * p + a /\ a \in Nat
    BY <2>2
  <2> HIDE DEF p
  <2>4. p < 256
    BY <2>1, <2>3, SMT
  <2>5. QED
    BY <2>2, <2>3, <2>4
<1>3. p % 256 = p
  BY <1>2, SMT
<1>4. bytes[at] = a /\ bytes[at + 1] = p % 256
  BY <1>1
<1> HIDE DEF a, p
<1>5. bytes[at] + 256 * bytes[at + 1] = n
  BY <1>2, <1>3, <1>4
<1>6. QED
  BY <1>5 DEF U16

LEMMA FourBytesBack ==
    ASSUME NEW n \in Nat, n < Limit, NEW bytes, NEW at \in Nat,
           bytes[at] = LE(n, 4)[1], bytes[at + 1] = LE(n, 4)[2],
           bytes[at + 2] = LE(n, 4)[3], bytes[at + 3] = LE(n, 4)[4]
    PROVE  U32(bytes, at) = n
<1> DEFINE a == n % 256
           b == (n \div 256) % 256
           c == (n \div 65536) % 256
           d == (n \div 16777216) % 256
<1>1. bytes[at] = a /\ bytes[at + 1] = b /\ bytes[at + 2] = c /\ bytes[at + 3] = d
  <2>1. BytesAre(LE(n, 4), n, 4)
    BY BytesOf
  <2>2. QED
    BY <2>1 DEF BytesAre
<1>2. Together(a, b, c, d) = n
  <2>1. n < 4294967296
    BY DEF Limit
  <2>2. n \div 256 \in Nat /\ n = 256 * (n \div 256) + a /\ a \in 0..255
    BY SMT
  <2> DEFINE p == n \div 256
             q == n \div 65536
             r == n \div 16777216
  <2>3. q \in Nat /\ q = p \div 256
    BY SMT
  <2>4. r \in Nat /\ r = q \div 256 /\ r < 256
    BY <2>1, SMT
  <2>5. p \in Nat /\ p = 256 * q + b /\ b \in Nat
    BY <2>2, <2>3, SMT
  <2>6. q = 256 * r + c /\ c \in Nat
    BY <2>3, <2>4, SMT
  <2>7. d = r
    BY <2>4, SMT
  <2> HIDE DEF a, b, c, d, p, q, r
  <2>8. n = 256 * p + a /\ a \in Nat
    BY <2>2 DEF p
  <2>9. (a + 256 * b) + 65536 * (c + 256 * r) = n
    BY <2>3, <2>4, <2>5, <2>6, <2>8, SMT
  <2>10. QED
    BY <2>7, <2>9 DEF Together
<1>3. U32(bytes, at) = Together(bytes[at], bytes[at + 1], bytes[at + 2], bytes[at + 3])
  BY SMT DEF U32, U16, Together
<1>4. QED
  BY <1>1, <1>2, <1>3

LEMMA Reads16 ==
    ASSUME NEW bytes \in Seq(Byte), NEW at \in Nat \ {0}, at + 1 <= Len(bytes)
    PROVE  U16(bytes, at) \in TwoByteNumbers
<1>1. \A i \in 1..Len(bytes) : bytes[i] \in 0..255
  <2>1. \A i \in 1..Len(bytes) : bytes[i] \in Byte
    OBVIOUS
  <2>2. QED
    BY <2>1 DEF Byte
<1> DEFINE a == bytes[at]
           b == bytes[at + 1]
<1>2. a \in 0..255 /\ b \in 0..255
  BY <1>1
<1>3. U16(bytes, at) = a + 256 * b
  BY DEF U16
<1> HIDE DEF a, b
<1>4. a + 256 * b \in Nat /\ a + 256 * b < 65536
  BY <1>2, SMT
<1>5. PICK n \in Nat : n = a + 256 * b /\ n < 65536
  BY <1>4
<1>6. n \in TwoByteNumbers
  BY <1>5 DEF TwoByteNumbers
<1>7. QED
  BY <1>3, <1>5, <1>6

-----------------------------------------------------------------------------
(* Sorting the chunks in front of the data *)

Sortings == [before_fmt : Seq(Chunks), format : Seq(Byte), before_data : Seq(Chunks)]
NothingSorted == [before_fmt |-> <<>>, format |-> <<>>, before_data |-> <<>>]
SortOne(sorted, c) ==
    IF c.chunk_id = FMT THEN [sorted EXCEPT !.format = c.data]
    ELSE IF sorted.format = <<>> THEN [sorted EXCEPT !.before_fmt = Append(@, c)]
    ELSE [sorted EXCEPT !.before_data = Append(@, c)]

LEMMA SortsOne ==
    ASSUME NEW sorted \in Sortings, NEW c \in Chunks
    PROVE  /\ SortOne(sorted, c) \in Sortings
           /\ c.chunk_id = FMT =>
                  SortOne(sorted, c) = [before_fmt |-> sorted.before_fmt, format |-> c.data,
                                        before_data |-> sorted.before_data]
           /\ c.chunk_id # FMT /\ sorted.format = <<>> =>
                  SortOne(sorted, c) = [before_fmt |-> Append(sorted.before_fmt, c),
                                        format |-> sorted.format,
                                        before_data |-> sorted.before_data]
           /\ c.chunk_id # FMT /\ sorted.format # <<>> =>
                  SortOne(sorted, c) = [before_fmt |-> sorted.before_fmt,
                                        format |-> sorted.format,
                                        before_data |-> Append(sorted.before_data, c)]
<1>1. /\ sorted.before_fmt \in Seq(Chunks) /\ sorted.before_data \in Seq(Chunks)
      /\ sorted.format \in Seq(Byte) /\ c.data \in Seq(Byte)
      /\ \A v : [sorted EXCEPT !.format = v]
                = [before_fmt |-> sorted.before_fmt, format |-> v,
                   before_data |-> sorted.before_data]
      /\ \A v : [sorted EXCEPT !.before_fmt = v]
                = [before_fmt |-> v, format |-> sorted.format,
                   before_data |-> sorted.before_data]
      /\ \A v : [sorted EXCEPT !.before_data = v]
                = [before_fmt |-> sorted.before_fmt, format |-> sorted.format,
                   before_data |-> v]
  <2>1. c.data \in Seq(Byte)
    BY DEF Chunks
  <2>2. QED
    BY <2>1 DEF Sortings
<1>2. Append(sorted.before_fmt, c) \in Seq(Chunks) /\ Append(sorted.before_data, c) \in Seq(Chunks)
  BY <1>1
<1> DEFINE front == Append(sorted.before_fmt, c)
           back == Append(sorted.before_data, c)
<1>3. SortOne(sorted, c)
      = IF c.chunk_id = FMT THEN [sorted EXCEPT !.format = c.data]
        ELSE IF sorted.format = <<>> THEN [sorted EXCEPT !.before_fmt = front]
        ELSE [sorted EXCEPT !.before_data = back]
  BY DEF SortOne
<1>4. front \in Seq(Chunks) /\ back \in Seq(Chunks)
  BY <1>2
<1> HIDE DEF front, back
<1>5. CASE c.chunk_id = FMT
  <2>1. SortOne(sorted, c) = [before_fmt |-> sorted.before_fmt, format |-> c.data,
                              before_data |-> sorted.before_data]
    BY <1>1, <1>3, <1>5
  <2>2. QED
    BY <1>1, <1>5, <2>1 DEF Sortings
<1>6. CASE c.chunk_id # FMT /\ sorted.format = <<>>
  <2>1. SortOne(sorted, c) = [before_fmt |-> front, format |-> sorted.format,
                              before_data |-> sorted.before_data]
    BY <1>1, <1>3, <1>6
  <2>2. SortOne(sorted, c) \in Sortings
    BY <1>1, <1>4, <2>1 DEF Sortings
  <2>3. QED
    BY <1>6, <2>1, <2>2 DEF front
<1>7. CASE c.chunk_id # FMT /\ sorted.format # <<>>
  <2>1. SortOne(sorted, c) = [before_fmt |-> sorted.before_fmt, format |-> sorted.format,
                              before_data |-> back]
    BY <1>1, <1>3, <1>7
  <2>2. SortOne(sorted, c) \in Sortings
    BY <1>1, <1>4, <2>1 DEF Sortings
  <2>3. QED
    BY <1>7, <2>1, <2>2 DEF back
<1>8. QED
  BY <1>5, <1>6, <1>7

LEMMA SortingIs ==
    ASSUME NEW chunks,
           \E s : s = [i \in 0..Len(chunks) |->
                          IF i = 0 THEN NothingSorted ELSE SortOne(s[i - 1], chunks[i])]
    PROVE  Sorting(chunks)
           = [i \in 0..Len(chunks) |->
                 IF i = 0 THEN NothingSorted ELSE SortOne(Sorting(chunks)[i - 1], chunks[i])]
<1> DEFINE Sort(sorted, chunk) ==
               IF chunk.chunk_id = FMT THEN [sorted EXCEPT !.format = chunk.data]
               ELSE IF sorted.format = <<>>
               THEN [sorted EXCEPT !.before_fmt = Append(@, chunk)]
               ELSE [sorted EXCEPT !.before_data = Append(@, chunk)]
           Body(s) == [i \in 0..Len(chunks) |->
                          IF i = 0
                          THEN [before_fmt |-> <<>>, format |-> <<>>, before_data |-> <<>>]
                          ELSE Sort(s[i - 1], chunks[i])]
<1>1. Sorting(chunks) = CHOOSE s : s = Body(s)
  BY DEF Sorting
<1>2. \A s : Body(s) = [i \in 0..Len(chunks) |->
                           IF i = 0 THEN NothingSorted ELSE SortOne(s[i - 1], chunks[i])]
  BY DEF NothingSorted, SortOne
<1> HIDE DEF Body
<1>3. PICK s : s = Body(s)
  BY <1>2
<1>4. Sorting(chunks) = Body(Sorting(chunks))
  BY <1>1, <1>3
<1>5. QED
  BY <1>2, <1>4

LEMMA SortingSteps ==
    ASSUME NEW chunks \in Seq(Chunks)
    PROVE  /\ Sorting(chunks) \in [0..Len(chunks) -> Sortings]
           /\ Sorting(chunks)[0] = NothingSorted
           /\ \A i \in 1..Len(chunks) :
                  Sorting(chunks)[i] = SortOne(Sorting(chunks)[i - 1], chunks[i])
<1> DEFINE n == Len(chunks)
           step == [i \in 1..n |-> [s \in Sortings |-> SortOne(s, chunks[i])]]
<1>1. n \in Nat /\ \A i \in 1..n : chunks[i] \in Chunks
  OBVIOUS
<1>2. NothingSorted \in Sortings
  BY DEF NothingSorted, Sortings
<1>3. step \in [1..n -> [Sortings -> Sortings]]
      /\ \A i \in 1..n, s \in Sortings : step[i][s] = SortOne(s, chunks[i])
  BY <1>1, SortsOne
<1> HIDE DEF step, n
<1>4. PICK f : Loops(f, n, Sortings, NothingSorted, step)
  BY <1>1, <1>2, <1>3, Recursion
<1>5. f \in [0..n -> Sortings] /\ f[0] = NothingSorted /\ \A i \in 1..n : f[i] = step[i][f[i - 1]]
  BY <1>4 DEF Loops
<1>6. \A i \in 1..n : f[i] = SortOne(f[i - 1], chunks[i])
  <2>1. \A i \in 1..n : i - 1 \in 0..n
    BY <1>1
  <2>2. QED
    BY <1>3, <1>5, <2>1
<1>7. f = [i \in 0..n |-> IF i = 0 THEN NothingSorted ELSE SortOne(f[i - 1], chunks[i])]
  <2>1. \A i \in 0..n : f[i] = IF i = 0 THEN NothingSorted ELSE SortOne(f[i - 1], chunks[i])
    BY <1>1, <1>5, <1>6
  <2>2. QED
    BY <1>5, <2>1
<1> DEFINE s == Sorting(chunks)
<1>8. s = [i \in 0..n |-> IF i = 0 THEN NothingSorted ELSE SortOne(s[i - 1], chunks[i])]
  BY <1>7, SortingIs DEF n
<1> HIDE DEF s
<1>9. s[0] = NothingSorted /\ \A i \in 1..n : s[i] = SortOne(s[i - 1], chunks[i])
  BY <1>1, <1>8
<1> DEFINE T == {i \in Nat : i <= n => s[i] \in Sortings}
<1>10. 0 \in T
  BY <1>2, <1>9
<1>11. ASSUME NEW i \in Nat, i \in T
       PROVE  i + 1 \in T
  <2> SUFFICES ASSUME i + 1 <= n
               PROVE  s[i + 1] \in Sortings
    OBVIOUS
  <2>1. i + 1 \in 1..n /\ (i + 1) - 1 = i /\ s[i] \in Sortings
    BY <1>1, <1>11
  <2>2. s[i + 1] = SortOne(s[i], chunks[i + 1])
    BY <1>9, <2>1
  <2>3. QED
    BY <1>1, <2>1, <2>2, SortsOne
<1>12. \A i \in 0..n : s[i] \in Sortings
  <2> HIDE DEF T
  <2>1. Nat \subseteq T
    BY <1>10, <1>11, UpTo
  <2>2. QED
    BY <2>1 DEF T
<1>13. s \in [0..n -> Sortings]
  BY <1>8, <1>12
<1>14. QED
  BY <1>9, <1>13 DEF s, n

\* The sizes of the first chunks do not depend on the others.
LEMMA SizesAgree ==
    ASSUME NEW a \in Seq(Chunks), NEW b \in Seq(Chunks), NEW k \in Nat,
           k <= Len(a), k <= Len(b), \A i \in 1..k : a[i] = b[i]
    PROVE  Sizes(a)[k] = Sizes(b)[k]
<1> DEFINE s == Sizes(a)
           t == Sizes(b)
           T == {i \in Nat : i <= k => s[i] = t[i]}
<1>1. /\ s[0] = 0 /\ \A i \in 1..Len(a) : s[i] = s[i - 1] + SerializedSize(a[i])
      /\ t[0] = 0 /\ \A i \in 1..Len(b) : t[i] = t[i - 1] + SerializedSize(b[i])
  BY SizeSteps
<1> HIDE DEF s, t
<1>2. 0 \in T
  BY <1>1
<1>3. ASSUME NEW i \in Nat, i \in T
      PROVE  i + 1 \in T
  <2> SUFFICES ASSUME i + 1 <= k
               PROVE  s[i + 1] = t[i + 1]
    OBVIOUS
  <2>1. /\ i + 1 \in 1..Len(a) /\ i + 1 \in 1..Len(b) /\ i + 1 \in 1..k
        /\ (i + 1) - 1 = i /\ s[i] = t[i]
    BY <1>3
  <2>2. s[i + 1] = s[i] + SerializedSize(a[i + 1]) /\ t[i + 1] = t[i] + SerializedSize(b[i + 1])
    BY <1>1, <2>1
  <2>3. a[i + 1] = b[i + 1]
    BY <2>1
  <2>4. QED
    BY <2>1, <2>2, <2>3
<1>4. k \in T
  <2> HIDE DEF T
  <2>1. Nat \subseteq T
    BY <1>2, <1>3, UpTo
  <2>2. QED
    BY <2>1
<1>5. QED
  BY <1>4 DEF s, t

LEMMA TotalSizes ==
    ASSUME NEW chunks \in Seq(Chunks)
    PROVE  TotalSize(chunks) \in Nat
<1>1. Sizes(chunks) \in [0..Len(chunks) -> Nat] /\ TotalSize(chunks) = Sizes(chunks)[Len(chunks)]
  BY SizeSteps
<1>2. Len(chunks) \in 0..Len(chunks)
  OBVIOUS
<1>3. QED
  BY <1>1, <1>2

LEMMA SizeOfNone == TotalSize(<<>>) = 0
<1>1. <<>> \in Seq(Chunks) /\ Len(<<>>) = 0
  OBVIOUS
<1>2. PICK none : none = <<>>
  OBVIOUS
<1>3. none \in Seq(Chunks) /\ Len(none) = 0
  BY <1>1, <1>2
<1>4. TotalSize(none) = Sizes(none)[Len(none)] /\ Sizes(none)[0] = 0
  BY <1>3, SizeSteps
<1>5. QED
  BY <1>2, <1>3, <1>4

LEMMA SizeAppend ==
    ASSUME NEW chunks \in Seq(Chunks), NEW c \in Chunks
    PROVE  TotalSize(Append(chunks, c)) = TotalSize(chunks) + SerializedSize(c)
<1> DEFINE n == Len(chunks)
           more == Append(chunks, c)
<1>1. n \in Nat /\ more \in Seq(Chunks) /\ Len(more) = n + 1 /\ more[n + 1] = c
      /\ \A i \in 1..n : more[i] = chunks[i]
  OBVIOUS
<1> HIDE DEF n, more
<1>2. Sizes(more)[n] = Sizes(chunks)[n]
  BY <1>1, SizesAgree DEF n
<1>3. n + 1 \in 1..Len(more) /\ (n + 1) - 1 = n
  BY <1>1
<1>4. Sizes(more)[n + 1] = Sizes(more)[n] + SerializedSize(more[n + 1])
      /\ TotalSize(more) = Sizes(more)[n + 1]
  BY <1>1, <1>3, SizeSteps
<1>5. TotalSize(chunks) = Sizes(chunks)[n]
  BY SizeSteps DEF n
<1>6. QED
  BY <1>1, <1>2, <1>4, <1>5 DEF more

LEMMA SizeJoin ==
    ASSUME NEW a \in Seq(Chunks), NEW b \in Seq(Chunks)
    PROVE  TotalSize(a \o b) = TotalSize(a) + TotalSize(b)
<1> DEFINE m == Len(a)
           n == Len(b)
           c == a \o b
           s == Sizes(c)
           t == Sizes(b)
           T == {i \in Nat : i <= n => s[m + i] = TotalSize(a) + t[i]}
<1>1. m \in Nat /\ n \in Nat /\ c \in Seq(Chunks) /\ Len(c) = m + n
      /\ (\A i \in 1..m : c[i] = a[i]) /\ (\A i \in 1..n : c[m + i] = b[i])
  OBVIOUS
<1> HIDE DEF c, m, n
<1>2. /\ s[0] = 0 /\ \A i \in 1..Len(c) : s[i] = s[i - 1] + SerializedSize(c[i])
      /\ t[0] = 0 /\ \A i \in 1..n : t[i] = t[i - 1] + SerializedSize(b[i])
      /\ t \in [0..n -> Nat]
      /\ TotalSize(c) = s[Len(c)] /\ TotalSize(b) = t[n]
      /\ TotalSize(a) = Sizes(a)[m] /\ TotalSize(a) \in Nat
  BY <1>1, SizeSteps, TotalSizes DEF n, m
<1>3. s[m] = TotalSize(a)
  <2>1. m <= Len(c) /\ m <= Len(a)
    BY <1>1 DEF m
  <2>2. s[m] = Sizes(a)[m]
    BY <1>1, <2>1, SizesAgree
  <2>3. QED
    BY <1>2, <2>2
<1> HIDE DEF s, t
<1>4. 0 \in T
  BY <1>1, <1>2, <1>3
<1>5. ASSUME NEW i \in Nat, i \in T
      PROVE  i + 1 \in T
  <2> SUFFICES ASSUME i + 1 <= n
               PROVE  s[m + (i + 1)] = TotalSize(a) + t[i + 1]
    OBVIOUS
  <2>1. /\ i + 1 \in 1..n /\ m + (i + 1) \in 1..Len(c) /\ (i + 1) - 1 = i
        /\ (m + (i + 1)) - 1 = m + i /\ i \in 0..n
    <3>1. m \in Nat /\ n \in Nat /\ Len(c) = m + n
      BY <1>1
    <3> HIDE DEF T
    <3>2. QED
      BY <3>1
  <2>2. s[m + (i + 1)] = s[m + i] + SerializedSize(c[m + (i + 1)])
    BY <1>2, <2>1
  <2>3. t[i + 1] = t[i] + SerializedSize(b[i + 1]) /\ t[i] \in Nat
    BY <1>2, <2>1
  <2>4. c[m + (i + 1)] = b[i + 1] /\ b[i + 1] \in Chunks
    BY <1>1, <2>1 DEF n
  <2>5. SerializedSize(b[i + 1]) \in Nat
    BY <2>4, SerializedSizes
  <2>6. s[m + i] = TotalSize(a) + t[i]
    BY <1>5, <2>1
  <2>7. QED
    BY <1>2, <2>2, <2>3, <2>4, <2>5, <2>6
<1>6. n \in T
  <2> HIDE DEF T
  <2>1. Nat \subseteq T
    BY <1>4, <1>5, UpTo
  <2>2. QED
    BY <1>1, <2>1
<1>7. QED
  BY <1>1, <1>2, <1>6 DEF c

-----------------------------------------------------------------------------
(* What is sorted *)

LEMMA Grows ==
    ASSUME NEW S, NEW s \in Seq(S), NEW from \in Nat \ {0}, NEW i \in Nat, i < Len(s), from <= i + 1
    PROVE  SubSeq(s, from, i + 1) = Append(SubSeq(s, from, i), s[i + 1])
<1>1. /\ SubSeq(s, from, i) \in Seq(S) /\ Len(SubSeq(s, from, i)) = (i - from) + 1
      /\ \A k \in 1..((i - from) + 1) : SubSeq(s, from, i)[k] = s[(from + k) - 1]
  <2>1. i <= Len(s)
    OBVIOUS
  <2>2. QED
    BY <2>1, Pieces
<1>2. /\ SubSeq(s, from, i + 1) \in Seq(S) /\ Len(SubSeq(s, from, i + 1)) = ((i + 1) - from) + 1
      /\ \A k \in 1..(((i + 1) - from) + 1) : SubSeq(s, from, i + 1)[k] = s[(from + k) - 1]
  <2>1. i + 1 \in Nat /\ i + 1 <= Len(s) /\ from <= (i + 1) + 1
    OBVIOUS
  <2>2. QED
    BY <2>1, Pieces
<1> DEFINE short == SubSeq(s, from, i)
           long == SubSeq(s, from, i + 1)
           n == (i - from) + 1
<1>3. n \in Nat /\ n + 1 = ((i + 1) - from) + 1 /\ (from + (n + 1)) - 1 = i + 1 /\ s[i + 1] \in S
  OBVIOUS
<1>4. /\ short \in Seq(S) /\ Len(short) = n /\ long \in Seq(S) /\ Len(long) = n + 1
      /\ \A k \in 1..n : short[k] = s[(from + k) - 1]
      /\ \A k \in 1..(n + 1) : long[k] = s[(from + k) - 1]
  BY <1>1, <1>2, <1>3
<1> HIDE DEF short, long, n
<1>5. \A k \in 1..n : long[k] = short[k]
  <2>1. \A k \in 1..n : k \in 1..(n + 1)
    BY <1>3
  <2>2. QED
    BY <1>4, <2>1
<1>6. long[n + 1] = s[i + 1]
  BY <1>3, <1>4
<1>7. long = Append(short, s[i + 1])
  BY <1>3, <1>4, <1>5, <1>6
<1>8. QED
  BY <1>7 DEF short, long

\* A single format among the chunks parts the others.
LEMMA SortedAround ==
    ASSUME NEW chunks \in Seq(Chunks), NEW m \in Nat, m < Len(chunks),
           chunks[m + 1].chunk_id = FMT, chunks[m + 1].data # <<>>,
           \A i \in 1..Len(chunks) : i # m + 1 => chunks[i].chunk_id # FMT
    PROVE  Sorted(chunks) = [before_fmt |-> SubSeq(chunks, 1, m),
                             format |-> chunks[m + 1].data,
                             before_data |-> SubSeq(chunks, m + 2, Len(chunks))]
<1> DEFINE n == Len(chunks)
           s == Sorting(chunks)
           d == chunks[m + 1].data
           Right(i) ==
               s[i] = IF i <= m
                      THEN [before_fmt |-> SubSeq(chunks, 1, i), format |-> <<>>, before_data |-> <<>>]
                      ELSE [before_fmt |-> SubSeq(chunks, 1, m), format |-> d,
                            before_data |-> SubSeq(chunks, m + 2, i)]
           T == {i \in Nat : i <= n => Right(i)}
<1>1. /\ s \in [0..n -> Sortings] /\ s[0] = NothingSorted
      /\ \A i \in 1..n : s[i] = SortOne(s[i - 1], chunks[i])
  BY SortingSteps
<1>2. n \in Nat /\ \A i \in 1..n : chunks[i] \in Chunks
  OBVIOUS
<1> HIDE DEF s
<1>3. 0 \in T
  <2>1. SubSeq(chunks, 1, 0) = <<>>
    BY SubSeqEmpty
  <2>2. QED
    BY <1>1, <2>1 DEF NothingSorted
<1>4. ASSUME NEW i \in Nat, i \in T
      PROVE  i + 1 \in T
  <2> SUFFICES ASSUME i + 1 <= n
               PROVE  Right(i + 1)
    OBVIOUS
  <2> DEFINE c == chunks[i + 1]
             t == s[i]
  <2>1. i + 1 \in 1..n /\ (i + 1) - 1 = i /\ i \in 0..n /\ i < Len(chunks)
    BY <1>2
  <2>2. s[i + 1] = SortOne(t, c) /\ t \in Sortings /\ c \in Chunks
    BY <1>1, <1>2, <2>1
  <2>3. Right(i)
    BY <1>2, <1>4
  <2>4. CASE i < m
    <3>1. c.chunk_id # FMT /\ i <= m /\ i + 1 <= m
      BY <2>1, <2>4
    <3>2. t = [before_fmt |-> SubSeq(chunks, 1, i), format |-> <<>>, before_data |-> <<>>]
      BY <2>3, <3>1
    <3>3. SortOne(t, c) = [before_fmt |-> Append(t.before_fmt, c), format |-> t.format,
                           before_data |-> t.before_data]
      <4>1. t.format = <<>>
        BY <3>2
      <4> HIDE DEF t, c
      <4>2. QED
        BY <2>2, <3>1, <4>1, SortsOne
    <3>4. SubSeq(chunks, 1, i + 1) = Append(SubSeq(chunks, 1, i), c)
      BY <2>1, Grows
    <3> HIDE DEF c, t
    <3>5. QED
      BY <2>2, <3>1, <3>2, <3>3, <3>4
  <2>5. CASE i = m
    <3>1. c.chunk_id = FMT /\ c.data = d /\ i <= m /\ ~(i + 1 <= m)
      BY <2>5
    <3>2. t = [before_fmt |-> SubSeq(chunks, 1, m), format |-> <<>>, before_data |-> <<>>]
      BY <2>3, <2>5, <3>1
    <3>3. SortOne(t, c) = [before_fmt |-> t.before_fmt, format |-> c.data,
                           before_data |-> t.before_data]
      <4> HIDE DEF t, c
      <4>1. QED
        BY <2>2, <3>1, SortsOne
    <3>4. SubSeq(chunks, m + 2, i + 1) = <<>>
      BY <2>5, SubSeqEmpty
    <3> HIDE DEF c, t, d
    <3>5. QED
      BY <2>2, <3>1, <3>2, <3>3, <3>4
  <2>6. CASE i > m
    <3>1. c.chunk_id # FMT /\ ~(i <= m) /\ ~(i + 1 <= m)
      BY <2>1, <2>6
    <3>2. t = [before_fmt |-> SubSeq(chunks, 1, m), format |-> d,
               before_data |-> SubSeq(chunks, m + 2, i)]
      BY <2>3, <3>1
    <3>3. SortOne(t, c) = [before_fmt |-> t.before_fmt, format |-> t.format,
                           before_data |-> Append(t.before_data, c)]
      <4>1. t.format # <<>>
        BY <3>2
      <4> HIDE DEF t, c
      <4>2. QED
        BY <2>2, <3>1, <4>1, SortsOne
    <3>4. SubSeq(chunks, m + 2, i + 1) = Append(SubSeq(chunks, m + 2, i), c)
      <4>1. m + 2 \in Nat \ {0} /\ m + 2 <= i + 1
        BY <2>6
      <4>2. QED
        BY <2>1, <4>1, Grows
    <3> HIDE DEF c, t, d
    <3>5. QED
      BY <2>2, <3>1, <3>2, <3>3, <3>4
  <2>7. QED
    BY <2>4, <2>5, <2>6
<1>5. Right(n)
  <2> HIDE DEF T
  <2>1. Nat \subseteq T
    BY <1>3, <1>4, UpTo
  <2>2. n \in T
    BY <1>2, <2>1
  <2> HIDE DEF Right
  <2>3. QED
    BY <1>2, <2>2 DEF T
<1>6. ~(n <= m)
  BY <1>2
<1>7. Sorted(chunks) = s[n]
  BY DEF Sorted, s
<1>8. QED
  BY <1>5, <1>6, <1>7

\* The chunks a file can hold, and the ones that are kept as they are.
Proper == {c \in Chunks : Len(c.chunk_id) = 4 /\ Len(c.data) < Limit}
Kept == {c \in Proper : c.chunk_id \notin {FMT, DATA}}

LEMMA SubSequences ==
    ASSUME NEW S, NEW T, S \subseteq T, NEW s \in Seq(S)
    PROVE  s \in Seq(T)
OBVIOUS

LEMMA ProperChunks ==
    /\ Proper \subseteq Chunks /\ Kept \subseteq Proper
    /\ Seq(Proper) \subseteq Seq(Chunks) /\ Seq(Kept) \subseteq Seq(Chunks)
    /\ Seq(Kept) \subseteq Seq(Proper)
<1>1. Proper \subseteq Chunks /\ Kept \subseteq Proper
  BY DEF Proper, Kept
<1>2. QED
  BY <1>1, SubSequences

LEMMA RowProper ==
    ASSUME NEW bytes \in Seq(Byte), NEW chunks \in Seq(Chunks), NEW places,
           Row(bytes, places, chunks)
    PROVE  chunks \in Seq(Proper)
<1> DEFINE n == Len(chunks)
<1>1. n \in Nat /\ chunks = [i \in 1..n |-> chunks[i]]
  OBVIOUS
<1>2. ASSUME NEW i \in 1..n
      PROVE  chunks[i] \in Proper
  <2> DEFINE at == places[i - 1]
  <2>1. i - 1 \in 0..n
    BY <1>1
  <2>2. at \in 1..(Len(bytes) + 1) /\ EndAt(bytes, {}, at) = "more"
        /\ ChunkAt(bytes, at) = chunks[i]
    BY <2>1 DEF Row
  <2> HIDE DEF at, n
  <2>3. /\ ChunkAt(bytes, at) \in Chunks
        /\ Len(ChunkAt(bytes, at).data) = SizeAt(bytes, at) /\ SizeAt(bytes, at) < Limit
        /\ Len(ChunkAt(bytes, at).chunk_id) = 4
    BY <2>2, More
  <2>4. Len(chunks[i].data) < Limit
    BY <2>2, <2>3
  <2>5. QED
    BY <2>2, <2>3, <2>4 DEF Proper
<1> HIDE DEF n
<1>3. QED
  BY <1>1, <1>2

\* What is true of the sorted chunks while they are read.
SortedWell(sorted, chunks, size) ==
    /\ sorted.before_fmt \in Seq(Kept) /\ sorted.before_data \in Seq(Kept)
    /\ (TotalSize(sorted.before_fmt) + TotalSize(sorted.before_data)) + Len(sorted.format) <= size
    /\ sorted.format # <<>> =>
           \E j \in DOMAIN chunks : chunks[j].chunk_id = FMT /\ chunks[j].data = sorted.format

LEMMA AppendKept ==
    ASSUME NEW chunks \in Seq(Kept), NEW c \in Kept
    PROVE  /\ Append(chunks, c) \in Seq(Kept)
           /\ TotalSize(Append(chunks, c)) = TotalSize(chunks) + SerializedSize(c)
<1>1. chunks \in Seq(Chunks) /\ c \in Chunks
  BY ProperChunks
<1>2. QED
  BY <1>1, SizeAppend

LEMMA SortedStep ==
    ASSUME NEW sorted \in Sortings, NEW chunks, NEW size \in Nat,
           SortedWell(sorted, chunks, size),
           NEW j \in DOMAIN chunks, NEW c \in Proper, c = chunks[j], c.chunk_id # DATA
    PROVE  SortedWell(SortOne(sorted, c), chunks, size + SerializedSize(c))
<1> DEFINE front == sorted.before_fmt
           back == sorted.before_data
           format == sorted.format
           more == SerializedSize(c)
           next == SortOne(sorted, c)
<1>1. front \in Seq(Kept) /\ back \in Seq(Kept) /\ format \in Seq(Byte)
  BY DEF SortedWell, Sortings
<1>2. TotalSize(front) \in Nat /\ TotalSize(back) \in Nat /\ Len(format) \in Nat
  BY <1>1, TotalSizes, ProperChunks
<1>3. (TotalSize(front) + TotalSize(back)) + Len(format) <= size
  BY DEF SortedWell
<1>4. format # <<>> =>
          \E i \in DOMAIN chunks : chunks[i].chunk_id = FMT /\ chunks[i].data = format
  BY DEF SortedWell
<1>5. c \in Chunks /\ more \in Nat /\ Len(c.data) \in Nat /\ Len(c.data) <= more
  <2>1. c \in Chunks
    BY ProperChunks
  <2>2. Len(c.data) \in Nat
    BY <2>1 DEF Chunks
  <2> DEFINE l == Len(c.data)
  <2>3. more \in Nat /\ more = 8 + (l + (l % 2)) /\ l \in Nat
    BY <2>1, <2>2, SerializedSizes
  <2> HIDE DEF l, more
  <2>4. l <= more
    BY <2>3
  <2>5. QED
    BY <2>1, <2>2, <2>3, <2>4 DEF l
<1> HIDE DEF more
<1>6. CASE c.chunk_id = FMT
  <2>1. next = [before_fmt |-> front, format |-> c.data, before_data |-> back]
    BY <1>5, <1>6, SortsOne
  <2> HIDE DEF front, back, format, next
  <2>2. (TotalSize(front) + TotalSize(back)) + Len(c.data) <= size + more
    BY <1>2, <1>3, <1>5
  <2>3. next.before_fmt = front /\ next.before_data = back /\ next.format = c.data
    BY <2>1
  <2>4. \E i \in DOMAIN chunks : chunks[i].chunk_id = FMT /\ chunks[i].data = c.data
    BY <1>6
  <2>5. QED
    BY <1>1, <2>2, <2>3, <2>4 DEF SortedWell, next, more
<1>7. CASE c.chunk_id # FMT
  <2>1. c \in Kept
    BY <1>7 DEF Kept
  <2>2. /\ Append(front, c) \in Seq(Kept) /\ TotalSize(Append(front, c)) = TotalSize(front) + more
        /\ Append(back, c) \in Seq(Kept) /\ TotalSize(Append(back, c)) = TotalSize(back) + more
    BY <1>1, <2>1, AppendKept DEF more
  <2>3. CASE format = <<>>
    <3>1. next = [before_fmt |-> Append(front, c), format |-> format, before_data |-> back]
      BY <1>5, <1>7, <2>3, SortsOne
    <3> DEFINE f == Append(front, c)
    <3>2. next.before_fmt = f /\ next.before_data = back /\ next.format = format
      BY <3>1
    <3>3. f \in Seq(Kept) /\ TotalSize(f) = TotalSize(front) + more
      BY <2>2
    <3> HIDE DEF front, back, format, next, f
    <3>4. (TotalSize(f) + TotalSize(back)) + Len(format) <= size + more
      BY <1>2, <1>3, <1>5, <3>3
    <3>5. QED
      BY <1>1, <2>3, <3>2, <3>3, <3>4 DEF SortedWell, next, more
  <2>4. CASE format # <<>>
    <3>1. next = [before_fmt |-> front, format |-> format, before_data |-> Append(back, c)]
      BY <1>5, <1>7, <2>4, SortsOne
    <3> DEFINE b == Append(back, c)
    <3>2. next.before_fmt = front /\ next.before_data = b /\ next.format = format
      BY <3>1
    <3>3. b \in Seq(Kept) /\ TotalSize(b) = TotalSize(back) + more
      BY <2>2
    <3> HIDE DEF front, back, format, next, b
    <3>4. (TotalSize(front) + TotalSize(b)) + Len(format) <= size + more
      BY <1>2, <1>3, <1>5, <3>3
    <3>5. QED
      BY <1>1, <1>4, <3>2, <3>3, <3>4 DEF SortedWell, next, more
  <2>5. QED
    BY <2>3, <2>4
<1>8. QED
  BY <1>6, <1>7

LEMMA SortedParts ==
    ASSUME NEW chunks \in Seq(Proper), None(chunks, {DATA})
    PROVE  Sorted(chunks) \in Sortings /\ SortedWell(Sorted(chunks), chunks, TotalSize(chunks))
<1> DEFINE n == Len(chunks)
           s == Sorting(chunks)
           z == Sizes(chunks)
           T == {i \in Nat : i <= n => SortedWell(s[i], chunks, z[i])}
<1>1. chunks \in Seq(Chunks) /\ n \in Nat
  BY ProperChunks
<1>2. /\ s \in [0..n -> Sortings] /\ s[0] = NothingSorted
      /\ \A i \in 1..n : s[i] = SortOne(s[i - 1], chunks[i])
  BY <1>1, SortingSteps
<1>3. /\ z \in [0..n -> Nat] /\ z[0] = 0
      /\ \A i \in 1..n : z[i] = z[i - 1] + SerializedSize(chunks[i])
      /\ TotalSize(chunks) = z[n]
  BY <1>1, SizeSteps
<1>4. \A i \in 1..n : chunks[i] \in Proper /\ i \in DOMAIN chunks /\ chunks[i].chunk_id # DATA
  BY DEF None
<1> HIDE DEF s, z, n
<1>5. 0 \in T
  <2>1. <<>> \in Seq(Kept) /\ Len(<<>>) = 0
    OBVIOUS
  <2>2. NothingSorted.before_fmt = <<>> /\ NothingSorted.before_data = <<>>
        /\ NothingSorted.format = <<>>
    BY DEF NothingSorted
  <2>3. SortedWell(NothingSorted, chunks, 0)
    BY <2>1, <2>2, SizeOfNone DEF SortedWell
  <2>4. QED
    BY <1>2, <1>3, <2>3
<1>6. ASSUME NEW i \in Nat, i \in T
      PROVE  i + 1 \in T
  <2> SUFFICES ASSUME i + 1 <= n
               PROVE  SortedWell(s[i + 1], chunks, z[i + 1])
    OBVIOUS
  <2> DEFINE t == s[i]
             c == chunks[i + 1]
  <2>1. i + 1 \in 1..n /\ (i + 1) - 1 = i /\ i \in 0..n /\ i <= n
    BY <1>1
  <2>2. /\ s[i + 1] = SortOne(t, c) /\ t \in Sortings
        /\ z[i + 1] = z[i] + SerializedSize(c) /\ z[i] \in Nat
    BY <1>2, <1>3, <2>1
  <2>3. c \in Proper /\ i + 1 \in DOMAIN chunks /\ c.chunk_id # DATA
    BY <1>4, <2>1
  <2>4. SortedWell(t, chunks, z[i])
    BY <1>6, <2>1
  <2> DEFINE j == i + 1
  <2>5. j \in DOMAIN chunks /\ c = chunks[j]
    BY <2>3
  <2> HIDE DEF t, c, j
  <2>6. SortedWell(SortOne(t, c), chunks, z[i] + SerializedSize(c))
    BY <2>2, <2>3, <2>4, <2>5, SortedStep
  <2>7. QED
    BY <2>2, <2>6
<1>7. n \in T
  <2> HIDE DEF T
  <2>1. Nat \subseteq T
    BY <1>5, <1>6, UpTo
  <2>2. QED
    BY <1>1, <2>1
<1>8. Sorted(chunks) = s[n]
  BY DEF Sorted, s, n
<1>9. n \in 0..n
  BY <1>1
<1>10. QED
  BY <1>1, <1>2, <1>3, <1>7, <1>8, <1>9

-----------------------------------------------------------------------------
(* A format that is written reads as itself *)

WavHeaders ==
    [channels : TwoByteNumbers, sample_rate : {n \in Nat : n < Limit},
     bits_per_sample : TwoByteNumbers, valid_bits_per_sample : TwoByteNumbers,
     audio_format : [kind : {"Pcm", "IeeeFloat", "Other"}, tag : TwoByteNumbers]]

ValidOf(d) ==
    IF U16(d, 1) = EXTENSIBLE /\ U16(d, 19) # 0 THEN U16(d, 19) ELSE U16(d, 15)
EncodingOf(d) ==
    IF ~(U16(d, 1) = EXTENSIBLE) THEN AudioFormat(U16(d, 1))
    ELSE IF SubSeq(d, 27, 40) = KS_SUBFORMAT_GUID_SUFFIX THEN AudioFormat(U16(d, 25))
    ELSE [kind |-> "Other", tag |-> U16(d, 25)]

LEMMA HeaderIs ==
    ASSUME NEW d
    PROVE  HeaderOf(d) = [channels |-> U16(d, 3), sample_rate |-> U32(d, 5),
                          bits_per_sample |-> U16(d, 15),
                          valid_bits_per_sample |-> ValidOf(d),
                          audio_format |-> EncodingOf(d)]
BY DEF HeaderOf, ValidOf, EncodingOf

LEMMA AudioFormats ==
    ASSUME NEW tag
    PROVE  /\ AudioFormat(tag).tag = tag
           /\ AudioFormat(tag).kind \in {"Pcm", "IeeeFloat", "Other"}
           /\ AudioFormat(tag) = [kind |-> AudioFormat(tag).kind, tag |-> tag]
           /\ AudioFormat(tag).kind = "Pcm" => tag = 1
           /\ AudioFormat(tag).kind = "IeeeFloat" => tag = 3
BY DEF AudioFormat

LEMMA HeaderRead ==
    ASSUME NEW d \in Seq(Byte), FormatFits(d)
    PROVE  HeaderOf(d) \in WavHeaders
<1> DEFINE n == Len(d)
<1>1. n \in Nat /\ n >= 16 /\ (U16(d, 1) = EXTENSIBLE => n >= 40)
  BY DEF FormatFits
<1>2. \A i \in Nat \ {0} : i + 1 <= n => U16(d, i) \in TwoByteNumbers
  BY Reads16
<1> HIDE DEF n
<1>3. U16(d, 1) \in TwoByteNumbers /\ U16(d, 3) \in TwoByteNumbers /\ U16(d, 15) \in TwoByteNumbers
  BY <1>1, <1>2
<1>4. U16(d, 1) = EXTENSIBLE => U16(d, 19) \in TwoByteNumbers /\ U16(d, 25) \in TwoByteNumbers
  BY <1>1, <1>2
<1>5. U32(d, 5) \in {m \in Nat : m < Limit}
  BY <1>1, Reads DEF n
<1>6. ValidOf(d) \in TwoByteNumbers
  <2> DEFINE S == TwoByteNumbers
  <2>1. U16(d, 15) \in S /\ (U16(d, 1) = EXTENSIBLE => U16(d, 19) \in S)
    BY <1>3, <1>4
  <2>2. ValidOf(d) \in S
    BY <2>1 DEF ValidOf
  <2>3. QED
    BY <2>2
<1>7. EncodingOf(d) \in [kind : {"Pcm", "IeeeFloat", "Other"}, tag : TwoByteNumbers]
  <2> DEFINE S == TwoByteNumbers
  <2>1. U16(d, 1) \in S /\ (U16(d, 1) = EXTENSIBLE => U16(d, 25) \in S)
    BY <1>3, <1>4
  <2>2. \A tag \in S : /\ AudioFormat(tag) \in [kind : {"Pcm", "IeeeFloat", "Other"}, tag : S]
                       /\ [kind |-> "Other", tag |-> tag]
                          \in [kind : {"Pcm", "IeeeFloat", "Other"}, tag : S]
    BY AudioFormats
  <2>3. EncodingOf(d) \in [kind : {"Pcm", "IeeeFloat", "Other"}, tag : S]
    BY <2>1, <2>2 DEF EncodingOf
  <2>4. QED
    BY <2>3
<1> DEFINE S == TwoByteNumbers
<1>8. WavHeaders = [channels : S, sample_rate : {m \in Nat : m < Limit},
                 bits_per_sample : S, valid_bits_per_sample : S,
                 audio_format : [kind : {"Pcm", "IeeeFloat", "Other"}, tag : S]]
  BY DEF WavHeaders
<1>9. /\ U16(d, 3) \in S /\ U16(d, 15) \in S /\ ValidOf(d) \in S
      /\ EncodingOf(d) \in [kind : {"Pcm", "IeeeFloat", "Other"}, tag : S]
  BY <1>3, <1>6, <1>7
<1>10. QED
  BY <1>5, <1>8, <1>9, HeaderIs

-----------------------------------------------------------------------------
(* The bytes of a written format *)

\* c is a, m bytes long, and b behind it, n bytes long.
Joins(c, a, b) == c = a \o b
Parts(c, a, m, b, n) ==
    /\ c \in Seq(Byte) /\ Len(c) = m + n
    /\ \A i \in 1..m : c[i] = a[i]
    /\ \A i \in 1..n : c[m + i] = b[i]

LEMMA JoinedAt ==
    ASSUME NEW a \in Seq(Byte), NEW b \in Seq(Byte), NEW c, Joins(c, a, b),
           NEW m, Len(a) = m, NEW n, Len(b) = n
    PROVE  Parts(c, a, m, b, n)
<1>1. c = a \o b
  BY DEF Joins
<1>2. /\ c \in Seq(Byte) /\ Len(c) = Len(a) + Len(b)
      /\ \A i \in 1..Len(a) : c[i] = a[i]
      /\ \A i \in 1..Len(b) : c[Len(a) + i] = b[i]
  <2>1. /\ a \o b \in Seq(Byte) /\ Len(a \o b) = Len(a) + Len(b)
        /\ \A i \in 1..Len(a) : (a \o b)[i] = a[i]
        /\ \A i \in 1..Len(b) : (a \o b)[Len(a) + i] = b[i]
    OBVIOUS
  <2>2. QED
    BY <1>1, <2>1, Zenon
<1>3. QED
  BY <1>2 DEF Parts

Extended(header, extension) == Len(extension) >= 24 \/ NeedsExtensibleFormat(header)
WrittenExtension(header, extension) ==
    IF Extended(header, extension) /\ extension = <<>> THEN ExtensibleFmtExtension(header)
    ELSE extension
TagWritten(header, extension) ==
    IF Extended(header, extension) THEN EXTENSIBLE ELSE header.audio_format.tag

LEMMA FormatBytes ==
    ASSUME NEW header \in WavHeaders, NEW extension \in Seq(Byte),
           WrittenExtension(header, extension) \in Seq(Byte)
    PROVE  LET d == FormatChunk(header, extension).data
               e == WrittenExtension(header, extension)
           IN  /\ d \in Seq(Byte) /\ Len(d) = 16 + Len(e)
               /\ U16(d, 1) = TagWritten(header, extension)
               /\ U16(d, 3) = header.channels /\ U32(d, 5) = header.sample_rate
               /\ U16(d, 15) = header.bits_per_sample
               /\ \A i \in 1..Len(e) : d[16 + i] = e[i]
<1> DEFINE e == WrittenExtension(header, extension)
           tag == TagWritten(header, extension)
           width == header.bits_per_sample \div 8
           rate == header.sample_rate * header.channels * width
           align == header.channels * width
           b1 == LE(tag, 2)
           b2 == LE(header.channels, 2)
           b3 == LE(header.sample_rate, 4)
           b4 == LE(rate, 4)
           b5 == LE(align, 2)
           b6 == LE(header.bits_per_sample, 2)
           s2 == b1 \o b2
           s3 == s2 \o b3
           s4 == s3 \o b4
           s5 == s4 \o b5
           s6 == s5 \o b6
           d == s6 \o e
<1>1. FormatChunk(header, extension).data = d
  BY DEF FormatChunk, Extended, WrittenExtension, TagWritten
<1>2. /\ header.channels \in TwoByteNumbers /\ header.bits_per_sample \in TwoByteNumbers
      /\ header.sample_rate \in Nat /\ header.sample_rate < Limit
      /\ header.audio_format.tag \in TwoByteNumbers
  BY DEF WavHeaders
<1>3. tag \in TwoByteNumbers
  <2>1. EXTENSIBLE \in TwoByteNumbers
    BY SMT DEF EXTENSIBLE, TwoByteNumbers
  <2>2. QED
    BY <1>2, <2>1 DEF TagWritten
<1>4. \A n \in TwoByteNumbers : n \in Nat
  BY TwoByteNumbersAre
<1>5. /\ header.channels \in Nat /\ header.bits_per_sample \in Nat /\ tag \in Nat
      /\ width \in Nat /\ rate \in Nat /\ align \in Nat
  <2>1. header.channels \in Nat /\ header.bits_per_sample \in Nat /\ tag \in Nat
    BY <1>2, <1>3, <1>4
  <2>2. width \in Nat
    BY <2>1, SMT
  <2> HIDE DEF width
  <2>3. \A a, b \in Nat : a * b \in Nat
    BY SMT
  <2>4. header.channels * width \in Nat /\ header.sample_rate * header.channels \in Nat
    BY <1>2, <2>1, <2>2, <2>3
  <2>5. header.sample_rate * header.channels * width \in Nat
    BY <2>2, <2>3, <2>4
  <2>6. QED
    BY <2>1, <2>2, <2>4, <2>5
<1> HIDE DEF tag, width, rate, align, e
<1>6. /\ b1 \in Seq(Byte) /\ Len(b1) = 2 /\ b2 \in Seq(Byte) /\ Len(b2) = 2
      /\ b5 \in Seq(Byte) /\ Len(b5) = 2 /\ b6 \in Seq(Byte) /\ Len(b6) = 2
      /\ b3 \in Seq(Byte) /\ Len(b3) = 4 /\ b4 \in Seq(Byte) /\ Len(b4) = 4
  <2>1. \A n \in Nat : LE(n, 2) \in Seq(Byte) /\ Len(LE(n, 2)) = 2
    BY BytesOfTwo
  <2>2. \A n \in Nat : LE(n, 4) \in Seq(Byte) /\ Len(LE(n, 4)) = 4
    BY BytesOfFour
  <2>3. QED
    BY <1>2, <1>5, <2>1, <2>2, Zenon
<1>7. e \in Seq(Byte)
  BY DEF e
<1> HIDE DEF b1, b2, b3, b4, b5, b6
<1>8. /\ Joins(s2, b1, b2) /\ Joins(s3, s2, b3) /\ Joins(s4, s3, b4)
      /\ Joins(s5, s4, b5) /\ Joins(s6, s5, b6) /\ Joins(d, s6, e)
  BY DEF Joins
<1> HIDE DEF s2, s3, s4, s5, s6, d
<1>23. Parts(s2, b1, 2, b2, 2) /\ Len(s2) = 4 /\ s2 \in Seq(Byte)
  <2>1. Parts(s2, b1, 2, b2, 2)
    BY <1>6, <1>8, JoinedAt
  <2>2. QED
    BY <2>1 DEF Parts
<1>9. Parts(s3, s2, 4, b3, 4) /\ Len(s3) = 8 /\ s3 \in Seq(Byte)
  <2>1. Parts(s3, s2, 4, b3, 4)
    BY <1>6, <1>8, <1>23, JoinedAt
  <2>2. QED
    BY <2>1 DEF Parts
<1>10. Parts(s4, s3, 8, b4, 4) /\ Len(s4) = 12 /\ s4 \in Seq(Byte)
  <2>1. Parts(s4, s3, 8, b4, 4)
    BY <1>6, <1>8, <1>9, JoinedAt
  <2>2. QED
    BY <2>1 DEF Parts
<1>11. Parts(s5, s4, 12, b5, 2) /\ Len(s5) = 14 /\ s5 \in Seq(Byte)
  <2>1. Parts(s5, s4, 12, b5, 2)
    BY <1>6, <1>8, <1>10, JoinedAt
  <2>2. QED
    BY <2>1 DEF Parts
<1>12. Parts(s6, s5, 14, b6, 2) /\ Len(s6) = 16 /\ s6 \in Seq(Byte)
  <2>1. Parts(s6, s5, 14, b6, 2)
    BY <1>6, <1>8, <1>11, JoinedAt
  <2>2. QED
    BY <2>1 DEF Parts
<1>13. /\ d \in Seq(Byte) /\ Len(d) = 16 + Len(e)
       /\ (\A i \in 1..16 : d[i] = s6[i]) /\ (\A i \in 1..Len(e) : d[16 + i] = e[i])
  <2>1. PICK n : n = Len(e)
    OBVIOUS
  <2>2. Parts(d, s6, 16, e, n)
    BY <1>7, <1>8, <1>12, <2>1, JoinedAt
  <2>3. QED
    BY <2>1, <2>2 DEF Parts
<1>14. \A i \in 1..8 : d[i] = s3[i]
  <2>1. \A i \in 1..8 : i \in 1..16 /\ i \in 1..14 /\ i \in 1..12
    OBVIOUS
  <2>2. /\ \A i \in 1..14 : s6[i] = s5[i]
        /\ \A i \in 1..12 : s5[i] = s4[i]
        /\ \A i \in 1..8 : s4[i] = s3[i]
    BY <1>10, <1>11, <1>12 DEF Parts
  <2>3. \A i \in 1..16 : d[i] = s6[i]
    BY <1>13
  <2>4. QED
    BY <2>1, <2>2, <2>3, Zenon
<1>15. d[1] = b1[1] /\ d[2] = b1[2] /\ d[3] = b2[1] /\ d[4] = b2[2]
  <2>1. s2[1] = b1[1] /\ s2[2] = b1[2] /\ s2[2 + 1] = b2[1] /\ s2[2 + 2] = b2[2]
    BY <1>23 DEF Parts
  <2>2. d[1] = s2[1] /\ d[2] = s2[2] /\ d[3] = s2[3] /\ d[4] = s2[4]
    BY <1>9, <1>14 DEF Parts
  <2>3. QED
    BY <2>1, <2>2
<1>16. d[5] = b3[1] /\ d[6] = b3[2] /\ d[7] = b3[3] /\ d[8] = b3[4]
  <2>1. s3[4 + 1] = b3[1] /\ s3[4 + 2] = b3[2] /\ s3[4 + 3] = b3[3] /\ s3[4 + 4] = b3[4]
    BY <1>9 DEF Parts
  <2>2. d[5] = s3[5] /\ d[6] = s3[6] /\ d[7] = s3[7] /\ d[8] = s3[8]
    BY <1>14
  <2>3. QED
    BY <2>1, <2>2
<1>17. d[15] = b6[1] /\ d[16] = b6[2]
  <2>1. s6[14 + 1] = b6[1] /\ s6[14 + 2] = b6[2]
    BY <1>12 DEF Parts
  <2>2. d[15] = s6[15] /\ d[16] = s6[16]
    BY <1>13
  <2>3. QED
    BY <2>1, <2>2
<1>18. U16(d, 1) = tag
  <2>1. d[1] = LE(tag, 2)[1] /\ d[1 + 1] = LE(tag, 2)[2]
    BY <1>15 DEF b1
  <2>2. QED
    BY <1>3, <2>1, TwoBytes
<1>19. U16(d, 3) = header.channels
  <2>1. d[3] = LE(header.channels, 2)[1] /\ d[3 + 1] = LE(header.channels, 2)[2]
    BY <1>15 DEF b2
  <2>2. QED
    BY <1>2, <2>1, TwoBytes
<1>20. U16(d, 15) = header.bits_per_sample
  <2>1. d[15] = LE(header.bits_per_sample, 2)[1] /\ d[15 + 1] = LE(header.bits_per_sample, 2)[2]
    BY <1>17 DEF b6
  <2>2. QED
    BY <1>2, <2>1, TwoBytes
<1>21. U32(d, 5) = header.sample_rate
  <2>1. /\ d[5] = LE(header.sample_rate, 4)[1] /\ d[5 + 1] = LE(header.sample_rate, 4)[2]
        /\ d[5 + 2] = LE(header.sample_rate, 4)[3] /\ d[5 + 3] = LE(header.sample_rate, 4)[4]
    BY <1>16 DEF b3
  <2>2. QED
    BY <1>2, <2>1, FourBytesBack
<1>22. QED
  BY <1>1, <1>13, <1>18, <1>19, <1>20, <1>21 DEF e, tag

LEMMA SuffixIs == KS_SUBFORMAT_GUID_SUFFIX \in Seq(Byte) /\ Len(KS_SUBFORMAT_GUID_SUFFIX) = 14
BY DEF KS_SUBFORMAT_GUID_SUFFIX, Byte

\* The bytes from a place to another, which are the k after the first j.
Piece(part, bytes, j, k) ==
    part \in Seq(Byte) /\ Len(part) = k /\ \A i \in 1..k : part[i] = bytes[j + i]

LEMMA PieceIs ==
    ASSUME NEW bytes \in Seq(Byte), NEW m \in Nat \ {0}, NEW n \in Nat, m <= n + 1,
           n <= Len(bytes)
    PROVE  Piece(SubSeq(bytes, m, n), bytes, m - 1, (n - m) + 1)
<1>1. /\ SubSeq(bytes, m, n) \in Seq(Byte) /\ Len(SubSeq(bytes, m, n)) = (n - m) + 1
      /\ \A i \in 1..((n - m) + 1) : SubSeq(bytes, m, n)[i] = bytes[(m + i) - 1]
  BY Pieces
<1>2. \A i \in Nat : (m + i) - 1 = (m - 1) + i
  OBVIOUS
<1>3. QED
  BY <1>1, <1>2 DEF Piece

LEMMA SuffixPiece ==
    ASSUME NEW d \in Seq(Byte), Len(d) >= 40
    PROVE  Piece(SubSeq(d, 27, 40), d, 26, 14)
<1>1. PICK m \in Nat \ {0} : m = 27
  OBVIOUS
<1>2. PICK n \in Nat : n = 40
  OBVIOUS
<1>3. Len(d) \in Nat /\ m <= n + 1 /\ n <= Len(d) /\ m - 1 = 26 /\ (n - m) + 1 = 14
  BY <1>1, <1>2
<1>4. Piece(SubSeq(d, m, n), d, m - 1, (n - m) + 1)
  BY <1>3, PieceIs
<1>5. QED
  BY <1>1, <1>2, <1>3, <1>4

LEMMA ExtensionPiece ==
    ASSUME NEW d \in Seq(Byte), Len(d) >= 16
    PROVE  Piece(SubSeq(d, 17, Len(d)), d, 16, Len(d) - 16)
<1>1. PICK m \in Nat \ {0} : m = 17
  OBVIOUS
<1>2. PICK n \in Nat : n = Len(d)
  OBVIOUS
<1>3. m <= n + 1 /\ n <= Len(d) /\ m - 1 = 16 /\ (n - m) + 1 = Len(d) - 16
  BY <1>1, <1>2
<1>4. Piece(SubSeq(d, m, n), d, m - 1, (n - m) + 1)
  BY <1>3, PieceIs
<1>5. QED
  BY <1>1, <1>2, <1>3, <1>4

\* The extension that is made up.
LEMMA MadeExtension ==
    ASSUME NEW header \in WavHeaders
    PROVE  LET e == ExtensibleFmtExtension(header)
               valid == LE(header.valid_bits_per_sample, 2)
               tag == LE(header.audio_format.tag, 2)
           IN  /\ e \in Seq(Byte) /\ Len(e) = 24
               /\ e[3] = valid[1] /\ e[4] = valid[2] /\ e[9] = tag[1] /\ e[10] = tag[2]
               /\ \A i \in 1..14 : e[10 + i] = KS_SUBFORMAT_GUID_SUFFIX[i]
<1> DEFINE b1 == LE(22, 2)
           b2 == LE(header.valid_bits_per_sample, 2)
           b3 == LE(0, 4)
           b4 == LE(header.audio_format.tag, 2)
           b5 == KS_SUBFORMAT_GUID_SUFFIX
           s2 == b1 \o b2
           s3 == s2 \o b3
           s4 == s3 \o b4
           e == s4 \o b5
<1>1. ExtensibleFmtExtension(header) = e
  BY DEF ExtensibleFmtExtension
<1>2. header.valid_bits_per_sample \in Nat /\ header.audio_format.tag \in Nat
  BY TwoByteNumbersAre DEF WavHeaders
<1>3. /\ b1 \in Seq(Byte) /\ Len(b1) = 2 /\ b2 \in Seq(Byte) /\ Len(b2) = 2
      /\ b3 \in Seq(Byte) /\ Len(b3) = 4 /\ b4 \in Seq(Byte) /\ Len(b4) = 2
      /\ b5 \in Seq(Byte) /\ Len(b5) = 14
  BY <1>2, BytesOfTwo, BytesOfFour, SuffixIs
<1> HIDE DEF b1, b2, b3, b4, b5
<1>4. Joins(s2, b1, b2) /\ Joins(s3, s2, b3) /\ Joins(s4, s3, b4) /\ Joins(e, s4, b5)
  BY DEF Joins
<1> HIDE DEF s2, s3, s4, e
<1>5. Parts(s2, b1, 2, b2, 2) /\ Len(s2) = 4 /\ s2 \in Seq(Byte)
  <2>1. Parts(s2, b1, 2, b2, 2)
    BY <1>3, <1>4, JoinedAt
  <2>2. QED
    BY <2>1 DEF Parts
<1>6. Parts(s3, s2, 4, b3, 4) /\ Len(s3) = 8 /\ s3 \in Seq(Byte)
  <2>1. Parts(s3, s2, 4, b3, 4)
    BY <1>3, <1>4, <1>5, JoinedAt
  <2>2. QED
    BY <2>1 DEF Parts
<1>7. Parts(s4, s3, 8, b4, 2) /\ Len(s4) = 10 /\ s4 \in Seq(Byte)
  <2>1. Parts(s4, s3, 8, b4, 2)
    BY <1>3, <1>4, <1>6, JoinedAt
  <2>2. QED
    BY <2>1 DEF Parts
<1>8. Parts(e, s4, 10, b5, 14) /\ Len(e) = 24 /\ e \in Seq(Byte)
  <2>1. Parts(e, s4, 10, b5, 14)
    BY <1>3, <1>4, <1>7, JoinedAt
  <2>2. QED
    BY <2>1 DEF Parts
<1>9. e[3] = b2[1] /\ e[4] = b2[2]
  <2>1. s2[2 + 1] = b2[1] /\ s2[2 + 2] = b2[2]
    BY <1>5 DEF Parts
  <2>2. s3[3] = s2[3] /\ s3[4] = s2[4]
    BY <1>6 DEF Parts
  <2>3. s4[3] = s3[3] /\ s4[4] = s3[4]
    BY <1>7 DEF Parts
  <2>4. e[3] = s4[3] /\ e[4] = s4[4]
    BY <1>8 DEF Parts
  <2>5. QED
    BY <2>1, <2>2, <2>3, <2>4
<1>10. e[9] = b4[1] /\ e[10] = b4[2]
  <2>1. s4[8 + 1] = b4[1] /\ s4[8 + 2] = b4[2]
    BY <1>7 DEF Parts
  <2>2. e[9] = s4[9] /\ e[10] = s4[10]
    BY <1>8 DEF Parts
  <2>3. QED
    BY <2>1, <2>2
<1>11. \A i \in 1..14 : e[10 + i] = b5[i]
  BY <1>8 DEF Parts
<1>12. QED
  BY <1>1, <1>8, <1>9, <1>10, <1>11 DEF b2, b4, b5

\* A header with no extension of its own, and of an encoding with a tag of its own.
Plain(header) ==
    /\ header \in WavHeaders
    /\ header.audio_format = AudioFormat(header.audio_format.tag)
    /\ header.audio_format.tag # EXTENSIBLE
    /\ header.valid_bits_per_sample = 0 => header.bits_per_sample = 0

LEMMA HeaderFields ==
    ASSUME NEW header \in WavHeaders
    PROVE  header = [channels |-> header.channels, sample_rate |-> header.sample_rate,
                     bits_per_sample |-> header.bits_per_sample,
                     valid_bits_per_sample |-> header.valid_bits_per_sample,
                     audio_format |-> header.audio_format]
BY DEF WavHeaders

LEMMA PlainBack ==
    ASSUME NEW header, Plain(header)
    PROVE  LET d == FormatChunk(header, <<>>).data
           IN  /\ d \in Seq(Byte) /\ 16 <= Len(d) /\ Len(d) <= 40
               /\ FormatFits(d) /\ HeaderOf(d) = header
<1> DEFINE d == FormatChunk(header, <<>>).data
           e == WrittenExtension(header, <<>>)
           none == <<>>
           needs == NeedsExtensibleFormat(header)
<1>1. header \in WavHeaders /\ none \in Seq(Byte) /\ Len(none) = 0
  BY DEF Plain
<1>2. Extended(header, none) <=> needs
  BY <1>1 DEF Extended
<1>3. e = IF needs THEN ExtensibleFmtExtension(header) ELSE none
  BY <1>2 DEF WrittenExtension
<1>4. e \in Seq(Byte) /\ Len(e) = (IF needs THEN 24 ELSE 0)
  BY <1>1, <1>3, MadeExtension
<1>5. /\ d \in Seq(Byte) /\ Len(d) = 16 + Len(e)
      /\ U16(d, 1) = TagWritten(header, none)
      /\ U16(d, 3) = header.channels /\ U32(d, 5) = header.sample_rate
      /\ U16(d, 15) = header.bits_per_sample
      /\ \A i \in 1..Len(e) : d[16 + i] = e[i]
  BY <1>1, <1>4, FormatBytes
<1>6. U16(d, 1) = IF needs THEN EXTENSIBLE ELSE header.audio_format.tag
  BY <1>2, <1>5 DEF TagWritten
<1>7. /\ header.audio_format.tag # EXTENSIBLE
      /\ header.audio_format = AudioFormat(header.audio_format.tag)
      /\ header.valid_bits_per_sample = 0 => header.bits_per_sample = 0
      /\ header.valid_bits_per_sample \in TwoByteNumbers
      /\ header.audio_format.tag \in TwoByteNumbers
  BY DEF Plain, WavHeaders
<1> HIDE DEF d, e, none, needs
<1>8. ASSUME ~needs
      PROVE  16 <= Len(d) /\ Len(d) <= 40 /\ FormatFits(d) /\ HeaderOf(d) = header
  <2>1. U16(d, 1) = header.audio_format.tag /\ Len(d) = 16
    BY <1>4, <1>5, <1>6, <1>8
  <2>2. FormatFits(d)
    BY <1>7, <2>1 DEF FormatFits
  <2>3. header.valid_bits_per_sample = header.bits_per_sample
    BY <1>8 DEF needs, NeedsExtensibleFormat
  <2>4. ValidOf(d) = header.valid_bits_per_sample
    BY <1>5, <1>7, <2>1, <2>3 DEF ValidOf
  <2>5. EncodingOf(d) = header.audio_format
    BY <1>7, <2>1 DEF EncodingOf
  <2>6. HeaderOf(d) = header
    BY <1>1, <1>5, <2>4, <2>5, HeaderIs, HeaderFields
  <2>7. 16 <= Len(d) /\ Len(d) <= 40
    BY <2>1
  <2>8. QED
    BY <2>2, <2>6, <2>7
<1>9. ASSUME needs
      PROVE  16 <= Len(d) /\ Len(d) <= 40 /\ FormatFits(d) /\ HeaderOf(d) = header
  <2>1. U16(d, 1) = EXTENSIBLE /\ Len(d) = 40 /\ Len(e) = 24
    BY <1>4, <1>5, <1>6, <1>9
  <2>2. FormatFits(d)
    BY <2>1 DEF FormatFits
  <2>3. /\ e[3] = LE(header.valid_bits_per_sample, 2)[1]
        /\ e[4] = LE(header.valid_bits_per_sample, 2)[2]
        /\ e[9] = LE(header.audio_format.tag, 2)[1]
        /\ e[10] = LE(header.audio_format.tag, 2)[2]
        /\ \A i \in 1..14 : e[10 + i] = KS_SUBFORMAT_GUID_SUFFIX[i]
    BY <1>1, <1>3, <1>9, MadeExtension
  <2>4. U16(d, 19) = header.valid_bits_per_sample
    <3>1. d[16 + 3] = e[3] /\ d[16 + 4] = e[4]
      BY <1>5, <2>1
    <3>2. d[19] = LE(header.valid_bits_per_sample, 2)[1]
          /\ d[19 + 1] = LE(header.valid_bits_per_sample, 2)[2]
      BY <2>3, <3>1
    <3>3. QED
      BY <1>7, <3>2, TwoBytes
  <2>5. U16(d, 25) = header.audio_format.tag
    <3>1. d[16 + 9] = e[9] /\ d[16 + 10] = e[10]
      BY <1>5, <2>1
    <3>2. d[25] = LE(header.audio_format.tag, 2)[1]
          /\ d[25 + 1] = LE(header.audio_format.tag, 2)[2]
      BY <2>3, <3>1
    <3>3. QED
      BY <1>7, <3>2, TwoBytes
  <2>6. SubSeq(d, 27, 40) = KS_SUBFORMAT_GUID_SUFFIX
    <3> DEFINE part == SubSeq(d, 27, 40)
               suffix == KS_SUBFORMAT_GUID_SUFFIX
    <3>1. /\ part \in Seq(Byte) /\ Len(part) = 14
          /\ \A i \in 1..14 : part[i] = d[26 + i]
      <4>1. d \in Seq(Byte) /\ Len(d) >= 40
        BY <1>5, <2>1
      <4>2. Piece(part, d, 26, 14)
        BY <4>1, SuffixPiece
      <4>3. QED
        BY <4>2 DEF Piece
    <3>2. suffix \in Seq(Byte) /\ Len(suffix) = 14
      BY SuffixIs
    <3> HIDE DEF part, suffix
    <3>3. ASSUME NEW i \in 1..14
          PROVE  part[i] = suffix[i]
      <4>1. 26 + i = 16 + (10 + i) /\ 10 + i \in 1..24
        OBVIOUS
      <4>4. part[i] = d[26 + i]
        BY <3>1
      <4>2. d[16 + (10 + i)] = e[10 + i]
        BY <1>5, <2>1, <4>1
      <4>3. QED
        BY <2>3, <4>1, <4>2, <4>4 DEF suffix
    <3>4. part = suffix
      BY <3>1, <3>2, <3>3, SameWords
    <3>5. QED
      BY <3>4 DEF part, suffix
  <2>7. ValidOf(d) = header.valid_bits_per_sample
    BY <1>5, <1>7, <2>1, <2>4 DEF ValidOf
  <2>8. EncodingOf(d) = header.audio_format
    BY <1>7, <2>1, <2>5, <2>6 DEF EncodingOf
  <2>9. HeaderOf(d) = header
    BY <1>1, <1>5, <2>7, <2>8, HeaderIs, HeaderFields
  <2>10. QED
    BY <2>1, <2>2, <2>9
<1>10. QED
  BY <1>5, <1>8, <1>9 DEF d

\* A format with an extension, written under the tag it was read with.
LEMMA ExtensionBack ==
    ASSUME NEW was \in Seq(Byte), FormatFits(was),
           NEW extension, extension = SubSeq(was, 17, Len(was)), extension # <<>>,
           U16(FormatChunk(HeaderOf(was), extension).data, 1) = U16(was, 1)
    PROVE  LET d == FormatChunk(HeaderOf(was), extension).data
           IN  /\ d \in Seq(Byte) /\ Len(d) = Len(was)
               /\ FormatFits(d) /\ HeaderOf(d) = HeaderOf(was)
               /\ SubSeq(d, 17, Len(d)) = extension
<1> DEFINE header == HeaderOf(was)
           d == FormatChunk(header, extension).data
           n == Len(was)
<1>1. header \in WavHeaders
  BY HeaderRead
<1>2. n \in Nat /\ n >= 16
  BY DEF FormatFits
<1>3. /\ extension \in Seq(Byte) /\ Len(extension) = n - 16
      /\ \A i \in 1..(n - 16) : extension[i] = was[16 + i]
  <2>1. Piece(extension, was, 16, n - 16)
    BY <1>2, ExtensionPiece
  <2>2. QED
    BY <2>1 DEF Piece
<1>4. WrittenExtension(header, extension) = extension
  BY DEF WrittenExtension
<1>5. /\ d \in Seq(Byte) /\ Len(d) = 16 + Len(extension)
      /\ U16(d, 3) = header.channels /\ U32(d, 5) = header.sample_rate
      /\ U16(d, 15) = header.bits_per_sample
      /\ \A i \in 1..Len(extension) : d[16 + i] = extension[i]
  <2>1. PICK h \in WavHeaders : h = header
    BY <1>1
  <2>2. PICK x \in Seq(Byte) : x = extension
    BY <1>3
  <2>3. WrittenExtension(h, x) = x
    BY <1>4, <2>1, <2>2
  <2>4. WrittenExtension(h, x) \in Seq(Byte)
    BY <2>3
  <2>5. LET f == FormatChunk(h, x).data
        IN  /\ f \in Seq(Byte) /\ Len(f) = 16 + Len(x)
            /\ U16(f, 3) = h.channels /\ U32(f, 5) = h.sample_rate
            /\ U16(f, 15) = h.bits_per_sample
            /\ \A i \in 1..Len(x) : f[16 + i] = x[i]
    BY <2>3, <2>4, FormatBytes
  <2>6. QED
    BY <2>1, <2>2, <2>5
<1>6. U16(d, 1) = U16(was, 1)
  OBVIOUS
<1>7. /\ header.channels = U16(was, 3) /\ header.sample_rate = U32(was, 5)
      /\ header.bits_per_sample = U16(was, 15)
      /\ header.valid_bits_per_sample = ValidOf(was) /\ header.audio_format = EncodingOf(was)
  BY HeaderIs
<1> HIDE DEF d, n, header
<1>8. Len(d) = n /\ \A i \in 1..(n - 16) : d[16 + i] = was[16 + i]
  BY <1>2, <1>3, <1>5
<1>9. FormatFits(d)
  BY <1>6, <1>8 DEF FormatFits, n
<1>10. U16(was, 1) = EXTENSIBLE => n >= 40
  BY DEF FormatFits, n
<1>11. ASSUME U16(was, 1) = EXTENSIBLE
       PROVE  /\ U16(d, 19) = U16(was, 19) /\ U16(d, 25) = U16(was, 25)
              /\ SubSeq(d, 27, 40) = SubSeq(was, 27, 40)
  <2>1. n >= 40
    BY <1>10, <1>11
  <2>2. \A i \in 17..40 : d[i] = was[i]
    <3>1. ASSUME NEW i \in 17..40
          PROVE  d[i] = was[i]
      <4>1. i - 16 \in 1..(n - 16) /\ 16 + (i - 16) = i
        BY <1>2, <2>1
      <4>2. QED
        BY <1>8, <4>1
    <3>2. QED
      BY <3>1
  <2>3. d[19] = was[19] /\ d[20] = was[20] /\ d[25] = was[25] /\ d[26] = was[26]
    BY <2>2
  <2>4. U16(d, 19) = U16(was, 19) /\ U16(d, 25) = U16(was, 25)
    BY <2>3, SMT DEF U16
  <2> DEFINE a == SubSeq(d, 27, 40)
             b == SubSeq(was, 27, 40)
  <2>5. Piece(a, d, 26, 14)
    BY <1>2, <1>5, <1>8, <2>1, SuffixPiece
  <2>6. Piece(b, was, 26, 14)
    BY <2>1, SuffixPiece DEF n
  <2> HIDE DEF a, b
  <2>7. ASSUME NEW i \in 1..14
        PROVE  a[i] = b[i]
    <3>1. 26 + i \in 17..40
      OBVIOUS
    <3>2. QED
      BY <2>2, <2>5, <2>6, <3>1 DEF Piece
  <2>8. a = b
    BY <2>5, <2>6, <2>7, SameWords DEF Piece
  <2>9. QED
    BY <2>4, <2>8 DEF a, b
<1>12. ValidOf(d) = ValidOf(was)
  BY <1>5, <1>6, <1>7, <1>11 DEF ValidOf
<1>13. EncodingOf(d) = EncodingOf(was)
  BY <1>6, <1>11 DEF EncodingOf
<1>14. HeaderOf(d) = header
  BY <1>5, <1>7, <1>12, <1>13, HeaderIs DEF header
<1>15. SubSeq(d, 17, Len(d)) = extension
  <2> DEFINE a == SubSeq(d, 17, n)
  <2>1. Piece(a, d, 16, n - 16)
    BY <1>2, <1>5, <1>8, ExtensionPiece
  <2> HIDE DEF a
  <2>3. ASSUME NEW i \in 1..(n - 16)
        PROVE  a[i] = extension[i]
    BY <1>3, <1>8, <2>1 DEF Piece
  <2>4. a = extension
    BY <1>2, <1>3, <2>1, <2>3, SameWords DEF Piece
  <2>5. QED
    BY <1>8, <2>4 DEF a
<1>16. QED
  BY <1>5, <1>8, <1>9, <1>14, <1>15 DEF d, header, n

-----------------------------------------------------------------------------
(* The bytes of a written file *)

\* A chunk as it stands in a file.
ChunkLies(b, c) ==
    /\ b \in Seq(Byte) /\ Len(b) = SerializedSize(c)
    /\ \A x \in 1..4 : b[x] = c.chunk_id[x] /\ b[4 + x] = LE(Len(c.data), 4)[x]
    /\ \A x \in 1..Len(c.data) : b[8 + x] = c.data[x]

LEMMA ChunkBytesAre ==
    ASSUME NEW c \in Proper
    PROVE  ChunkLies(ChunkBytes(c), c)
<1> DEFINE l == Len(c.data)
           id == c.chunk_id
           b1 == LE(l, 4)
           d == c.data
           pad == l % 2
           b2 == LE(0, pad)
           s2 == id \o b1
           s3 == s2 \o d
           b == s3 \o b2
<1>1. ChunkBytes(c) = b
  BY DEF ChunkBytes
<1>2. c \in Chunks /\ id \in Seq(Byte) /\ Len(id) = 4 /\ d \in Seq(Byte) /\ l \in Nat
  BY DEF Proper, Chunks
<1>3. SerializedSize(c) = 8 + (l + pad)
  BY <1>2, SerializedSizes
<1>4. d \in Seq(Byte) /\ Len(d) = l
  BY <1>2
<1> HIDE DEF l, id, d
<1>5. pad \in 0..4
  BY <1>2
<1> HIDE DEF pad
<1>6. b1 \in Seq(Byte) /\ Len(b1) = 4 /\ b2 \in Seq(Byte) /\ Len(b2) = pad
  <2>1. b1 \in Seq(Byte) /\ Len(b1) = 4
    BY <1>2, BytesOfFour
  <2>2. PICK z \in Nat : z = 0
    OBVIOUS
  <2>3. LE(z, pad) \in Seq(Byte) /\ Len(LE(z, pad)) = pad
    <3>1. BytesAre(LE(z, pad), z, pad)
      BY <1>5, BytesOf
    <3>2. QED
      BY <3>1 DEF BytesAre
  <2>4. QED
    BY <2>1, <2>2, <2>3
<1> HIDE DEF b1, b2
<1>7. Joins(s2, id, b1) /\ Joins(s3, s2, d) /\ Joins(b, s3, b2)
  BY DEF Joins
<1> HIDE DEF s2, s3, b
<1>8. Parts(s2, id, 4, b1, 4) /\ s2 \in Seq(Byte) /\ Len(s2) = 8
  <2>1. Parts(s2, id, 4, b1, 4)
    BY <1>2, <1>6, <1>7, JoinedAt
  <2>2. QED
    BY <2>1 DEF Parts
<1>9. Parts(s3, s2, 8, d, l) /\ s3 \in Seq(Byte) /\ Len(s3) = 8 + l
  <2>1. Parts(s3, s2, 8, d, l)
    BY <1>4, <1>7, <1>8, JoinedAt
  <2>2. QED
    BY <2>1 DEF Parts
<1>10. PICK m \in Nat : m = 8 + l
  BY <1>2
<1>11. Parts(b, s3, m, b2, pad)
  BY <1>6, <1>7, <1>9, <1>10, JoinedAt
<1>12. b \in Seq(Byte) /\ Len(b) = 8 + (l + pad)
  <2>1. b \in Seq(Byte) /\ Len(b) = m + pad
    BY <1>11 DEF Parts
  <2>2. QED
    BY <1>2, <1>5, <1>10, <2>1
<1>13. \A x \in 1..m : b[x] = s3[x]
  BY <1>11 DEF Parts
<1>14. \A x \in 1..8 : x \in 1..m /\ s3[x] = s2[x]
  <2>1. \A x \in 1..8 : s3[x] = s2[x]
    BY <1>9 DEF Parts
  <2>2. \A x \in 1..8 : x \in 1..m
    BY <1>2, <1>10
  <2>3. QED
    BY <2>1, <2>2
<1>15. ASSUME NEW x \in 1..4
       PROVE  b[x] = id[x] /\ b[4 + x] = b1[x]
  <2>1. s2[x] = id[x] /\ s2[4 + x] = b1[x]
    BY <1>8 DEF Parts
  <2>2. x \in 1..8 /\ 4 + x \in 1..8
    OBVIOUS
  <2>3. QED
    BY <1>13, <1>14, <2>1, <2>2
<1>16. ASSUME NEW x \in 1..l
       PROVE  b[8 + x] = d[x]
  <2>1. s3[8 + x] = d[x]
    BY <1>9 DEF Parts
  <2>2. 8 + x \in 1..m
    BY <1>2, <1>10
  <2>3. QED
    BY <1>13, <2>1, <2>2
<1>17. Len(b) = SerializedSize(c)
  BY <1>3, <1>12
<1>18. QED
  BY <1>1, <1>12, <1>15, <1>16, <1>17 DEF ChunkLies, id, b1, d, l

Body(chunks) ==
    CHOOSE bytes : bytes = [i \in 0..Len(chunks) |->
                               IF i = 0 THEN WAVE ELSE bytes[i - 1] \o ChunkBytes(chunks[i])]
FileOf(chunks) ==
    (RIFF \o LE(4 + TotalSize(chunks), 4)) \o Body(chunks)[Len(chunks)]
ChunksOf(w) ==
    w.chunks_before_fmt \o <<FormatChunk(w.header, w.fmt_extension)>> \o w.chunks_before_data
    \o <<[chunk_id |-> DATA, data |-> w.data]>> \o w.chunks_after_data

LEMMA WrittenIs ==
    ASSUME NEW w
    PROVE  WriteWav(w) = FileOf(ChunksOf(w))
BY DEF WriteWav, FileOf, ChunksOf, Body

LEMMA BodySteps ==
    ASSUME NEW chunks \in Seq(Proper)
    PROVE  /\ Body(chunks) \in [0..Len(chunks) -> Seq(Byte)] /\ Body(chunks)[0] = WAVE
           /\ \A i \in 1..Len(chunks) :
                  Joins(Body(chunks)[i], Body(chunks)[i - 1], ChunkBytes(chunks[i]))
<1> DEFINE n == Len(chunks)
           more(i) == ChunkBytes(chunks[i])
           step == [i \in 1..n |-> [s \in Seq(Byte) |-> s \o more(i)]]
           Steps(f) == f = [i \in 0..n |-> IF i = 0 THEN WAVE ELSE f[i - 1] \o more(i)]
<1>1. n \in Nat /\ \A i \in 1..n : more(i) \in Seq(Byte)
  <2>1. ASSUME NEW i \in 1..n
        PROVE  more(i) \in Seq(Byte)
    <3> DEFINE c == chunks[i]
    <3>1. c \in Proper
      OBVIOUS
    <3> HIDE DEF c
    <3>2. ChunkLies(ChunkBytes(c), c)
      BY <3>1, ChunkBytesAre
    <3>3. QED
      BY <3>2 DEF c, ChunkLies
  <2>2. QED
    BY <2>1
<1> HIDE DEF more
<1>2. step \in [1..n -> [Seq(Byte) -> Seq(Byte)]]
      /\ \A i \in 1..n, s \in Seq(Byte) : step[i][s] = s \o more(i)
  <2>1. \A s, t \in Seq(Byte) : s \o t \in Seq(Byte)
    OBVIOUS
  <2>2. QED
    BY <1>1, <2>1
<1> HIDE DEF step
<1>3. WAVE \in Seq(Byte)
  BY DEF WAVE, Byte
<1>4. PICK f : Loops(f, n, Seq(Byte), WAVE, step)
  BY <1>1, <1>2, <1>3, Recursion
<1>5. f \in [0..n -> Seq(Byte)] /\ f[0] = WAVE /\ \A i \in 1..n : f[i] = step[i][f[i - 1]]
  BY <1>4 DEF Loops
<1>6. \A i \in 1..n : f[i - 1] \in Seq(Byte) /\ f[i] = f[i - 1] \o more(i)
  <2>1. \A i \in 1..n : i - 1 \in 0..n
    BY <1>1
  <2>2. QED
    BY <1>2, <1>5, <2>1
<1>7. Steps(f)
  <2>1. \A i \in 0..n : f[i] = IF i = 0 THEN WAVE ELSE f[i - 1] \o more(i)
    BY <1>1, <1>5, <1>6
  <2>2. QED
    BY <1>5, <2>1
<1>8. Steps(Body(chunks))
  <2> DEFINE g == CHOOSE g : Steps(g)
  <2>1. Body(chunks) = g
    BY DEF Body, more
  <2>2. Steps(g)
    BY <1>7
  <2>3. QED
    BY <2>1, <2>2
<1> DEFINE b == Body(chunks)
<1> HIDE DEF b
<1>9. b = [i \in 0..n |-> IF i = 0 THEN WAVE ELSE b[i - 1] \o more(i)]
  BY <1>8 DEF b
<1>10. b[0] = WAVE /\ \A i \in 1..n : b[i] = b[i - 1] \o more(i)
  <2>1. \A i \in 0..n : b[i] = IF i = 0 THEN WAVE ELSE b[i - 1] \o more(i)
    BY <1>9
  <2>2. 0 \in 0..n /\ \A i \in 1..n : i \in 0..n /\ i # 0
    BY <1>1
  <2>3. QED
    BY <2>1, <2>2, Zenon
<1>11. ASSUME NEW k \in Nat, k <= n
       PROVE  b[k] \in Seq(Byte)
  <2> DEFINE S == {j \in Nat : j <= n => b[j] \in Seq(Byte)}
  <2>1. 0 \in S
    BY <1>3, <1>10
  <2>2. \A j \in Nat : j \in S => j + 1 \in S
    <3>1. ASSUME NEW j \in Nat, j \in S, j + 1 <= n
          PROVE  b[j + 1] \in Seq(Byte)
      <4>1. b[j] \in Seq(Byte) /\ j + 1 \in 1..n /\ (j + 1) - 1 = j
        BY <1>1, <3>1
      <4>2. b[j + 1] = b[j] \o more(j + 1) /\ more(j + 1) \in Seq(Byte)
        <5>1. PICK i \in 1..n : i = j + 1
          BY <4>1
        <5>2. b[i] = b[i - 1] \o more(i) /\ more(i) \in Seq(Byte)
          BY <1>1, <1>10, Zenon
        <5>3. i - 1 = j
          BY <5>1
        <5>4. QED
          BY <5>1, <5>2, <5>3
      <4>3. QED
        BY <4>1, <4>2
    <3>2. QED
      BY <3>1
  <2> HIDE DEF S
  <2>3. Nat \subseteq S
    BY <2>1, <2>2, UpTo
  <2>4. k \in S
    BY <2>3
  <2>5. QED
    BY <1>11, <2>4 DEF S
<1>12. b \in [0..n -> Seq(Byte)]
  <2>1. \A k \in 0..n : b[k] \in Seq(Byte)
    BY <1>1, <1>11
  <2>2. QED
    BY <1>9, <2>1
<1>13. QED
  BY <1>10, <1>12 DEF b, more, Joins

LEMMA JoinBegins ==
    ASSUME NEW a \in Seq(Byte), NEW b \in Seq(Byte), NEW c, Joins(c, a, b)
    PROVE  Begins(c, a)
<1>1. PICK m \in Nat : Len(a) = m
  OBVIOUS
<1>2. PICK n \in Nat : Len(b) = n
  OBVIOUS
<1>3. Parts(c, a, m, b, n)
  BY <1>1, <1>2, JoinedAt
<1>4. QED
  BY <1>1, <1>2, <1>3 DEF Parts, Begins

LEMMA BeginsOn ==
    ASSUME NEW a \in Seq(Byte), NEW b \in Seq(Byte), NEW c \in Seq(Byte),
           Begins(c, b), Begins(b, a)
    PROVE  Begins(c, a)
<1>1. Len(a) \in Nat /\ Len(b) \in Nat /\ Len(c) \in Nat
  OBVIOUS
<1>2. QED
  BY <1>1 DEF Begins

\* The chunks up to the k-th, behind the four bytes of WAVE.
LEMMA BodyLength ==
    ASSUME NEW chunks \in Seq(Proper), NEW k \in 0..Len(chunks)
    PROVE  Len(Body(chunks)[k]) = 4 + Sizes(chunks)[k]
<1> DEFINE n == Len(chunks)
           b == Body(chunks)
           size == Sizes(chunks)
<1>1. chunks \in Seq(Chunks) /\ n \in Nat
  BY ProperChunks
<1>2. size \in [0..n -> Nat] /\ size[0] = 0
      /\ \A i \in 1..n : size[i] = size[i - 1] + SerializedSize(chunks[i])
  BY <1>1, SizeSteps
<1>3. b \in [0..n -> Seq(Byte)] /\ b[0] = WAVE
      /\ \A i \in 1..n : Joins(b[i], b[i - 1], ChunkBytes(chunks[i]))
  BY BodySteps
<1>4. \A i \in 1..n : ChunkLies(ChunkBytes(chunks[i]), chunks[i]) /\ chunks[i] \in Proper
  <2>1. ASSUME NEW i \in 1..n
        PROVE  ChunkLies(ChunkBytes(chunks[i]), chunks[i]) /\ chunks[i] \in Proper
    <3>1. PICK c \in Proper : c = chunks[i]
      BY <1>1
    <3>2. ChunkLies(ChunkBytes(c), c)
      BY ChunkBytesAre
    <3>3. QED
      BY <3>1, <3>2
  <2>2. QED
    BY <2>1
<1> DEFINE S == {j \in Nat : j <= n => Len(b[j]) = 4 + size[j]}
<1>5. k \in Nat /\ k <= n
  BY <1>1
<1> HIDE DEF n, b, size
<1>6. 0 \in S
  <2>1. Len(WAVE) = 4
    BY DEF WAVE
  <2>2. Len(b[0]) = 4
    BY <1>3, <2>1, Zenon
  <2>3. 4 + size[0] = 4
    BY <1>2
  <2>4. QED
    BY <2>2, <2>3
<1>7. \A j \in Nat : j \in S => j + 1 \in S
  <2>1. ASSUME NEW j \in Nat, j \in S, j + 1 <= n
        PROVE  Len(b[j + 1]) = 4 + size[j + 1]
    <3>1. PICK i \in 1..n : i = j + 1
      BY <1>1, <2>1
    <3>2. i - 1 = j /\ j \in 0..n
      BY <1>1, <2>1, <3>1
    <3>3. b[j] \in Seq(Byte) /\ Len(b[j]) = 4 + size[j] /\ size[j] \in Nat
      BY <1>1, <1>2, <1>3, <2>1, <3>2
    <3>4. Joins(b[i], b[j], ChunkBytes(chunks[i])) /\ size[i] = size[j] + SerializedSize(chunks[i])
      BY <1>2, <1>3, <3>2
    <3>5. ChunkBytes(chunks[i]) \in Seq(Byte)
          /\ Len(ChunkBytes(chunks[i])) = SerializedSize(chunks[i])
      BY <1>4 DEF ChunkLies
    <3>6. SerializedSize(chunks[i]) \in Nat
      BY <3>5
    <3>7. PICK m \in Nat : m = Len(b[j])
      BY <3>3
    <3>8. Parts(b[i], b[j], m, ChunkBytes(chunks[i]), SerializedSize(chunks[i]))
      BY <3>3, <3>4, <3>5, <3>7, JoinedAt
    <3>9. Len(b[i]) = m + SerializedSize(chunks[i])
      BY <3>8 DEF Parts
    <3>10. QED
      BY <3>1, <3>3, <3>4, <3>6, <3>7, <3>9
  <2>2. QED
    BY <2>1
<1> HIDE DEF S
<1>8. Nat \subseteq S
  BY <1>6, <1>7, UpTo
<1>9. k \in S
  BY <1>5, <1>8
<1>10. QED
  BY <1>5, <1>9 DEF S, b, size

LEMMA BodyBegins ==
    ASSUME NEW chunks \in Seq(Proper), NEW i \in 0..Len(chunks)
    PROVE  Begins(Body(chunks)[Len(chunks)], Body(chunks)[i])
<1> DEFINE n == Len(chunks)
           b == Body(chunks)
<1>1. n \in Nat /\ i \in Nat /\ i <= n
  OBVIOUS
<1>2. b \in [0..n -> Seq(Byte)]
      /\ \A k \in 1..n : Joins(b[k], b[k - 1], ChunkBytes(chunks[k]))
  BY BodySteps
<1>3. \A k \in 1..n : ChunkBytes(chunks[k]) \in Seq(Byte)
  <2>1. ASSUME NEW k \in 1..n
        PROVE  ChunkBytes(chunks[k]) \in Seq(Byte)
    <3>1. PICK c \in Proper : c = chunks[k]
      BY <1>1
    <3>2. ChunkLies(ChunkBytes(c), c)
      BY ChunkBytesAre
    <3>3. QED
      BY <3>1, <3>2 DEF ChunkLies
  <2>2. QED
    BY <2>1
<1> DEFINE S == {j \in Nat : i + j <= n => Begins(b[i + j], b[i])}
<1> HIDE DEF n, b
<1>4. 0 \in S
  <2>1. i + 0 = i
    BY <1>1
  <2>2. b[i] \in Seq(Byte)
    BY <1>1, <1>2
  <2>3. Begins(b[i], b[i])
    BY <2>2 DEF Begins
  <2>4. QED
    BY <2>1, <2>3
<1>5. \A j \in Nat : j \in S => j + 1 \in S
  <2>1. ASSUME NEW j \in Nat, j \in S, i + (j + 1) <= n
        PROVE  Begins(b[i + (j + 1)], b[i])
    <3>1. PICK k \in 1..n : k = i + (j + 1)
      BY <1>1, <2>1
    <3>2. k - 1 = i + j /\ k - 1 \in 0..n /\ k \in 0..n /\ i \in 0..n
      BY <1>1, <2>1, <3>1
    <3>3. b[k] \in Seq(Byte) /\ b[k - 1] \in Seq(Byte) /\ b[i] \in Seq(Byte)
      BY <1>2, <3>2
    <3>4. Begins(b[k - 1], b[i])
      BY <1>1, <2>1, <3>2
    <3>5. Begins(b[k], b[k - 1])
      BY <1>2, <1>3, <3>3, JoinBegins
    <3>6. Begins(b[k], b[i])
      BY <3>3, <3>4, <3>5, BeginsOn
    <3>7. QED
      BY <3>1, <3>6
  <2>2. QED
    BY <2>1
<1> HIDE DEF S
<1>6. Nat \subseteq S
  BY <1>4, <1>5, UpTo
<1>7. PICK j \in Nat : j = n - i
  BY <1>1
<1>8. j \in S /\ i + j = n
  BY <1>1, <1>6, <1>7
<1>9. Begins(b[n], b[i])
  BY <1>1, <1>8 DEF S
<1>10. QED
  BY <1>9 DEF b, n

\* Where the bytes of a file stand: the header, and each chunk behind those before it.
Lies(f, chunks) ==
    /\ f \in Seq(Byte) /\ Len(f) = 12 + TotalSize(chunks)
    /\ \A x \in 1..4 : /\ f[x] = RIFF[x] /\ f[8 + x] = WAVE[x]
                       /\ f[4 + x] = LE(4 + TotalSize(chunks), 4)[x]
    /\ \A i \in 1..Len(chunks) : \A x \in 1..SerializedSize(chunks[i]) :
           f[(12 + Sizes(chunks)[i - 1]) + x] = ChunkBytes(chunks[i])[x]

LEMMA ChunkInBody ==
    ASSUME NEW chunks \in Seq(Proper), NEW i \in 1..Len(chunks),
           NEW x \in 1..SerializedSize(chunks[i])
    PROVE  LET at == (4 + Sizes(chunks)[i - 1]) + x
           IN  /\ at \in 1..Len(Body(chunks)[Len(chunks)])
               /\ Body(chunks)[Len(chunks)][at] = ChunkBytes(chunks[i])[x]
<1> DEFINE n == Len(chunks)
           b == Body(chunks)
           size == Sizes(chunks)
           s == SerializedSize(chunks[i])
           bytes == ChunkBytes(chunks[i])
<1>1. n \in Nat /\ i \in 1..n /\ i \in 0..n /\ i - 1 \in 0..n /\ n \in 0..n
  OBVIOUS
<1>2. b \in [0..n -> Seq(Byte)] /\ Joins(b[i], b[i - 1], bytes)
  BY BodySteps
<1>3. Len(b[i - 1]) = 4 + size[i - 1]
  BY <1>1, BodyLength
<1>4. size[i - 1] \in Nat
  <2>1. chunks \in Seq(Chunks)
    BY ProperChunks
  <2>2. size \in [0..n -> Nat]
    BY <2>1, SizeSteps
  <2>3. QED
    BY <1>1, <2>2
<1>5. bytes \in Seq(Byte) /\ Len(bytes) = s
  <2>1. PICK c \in Proper : c = chunks[i]
    BY <1>1
  <2>2. ChunkLies(ChunkBytes(c), c)
    BY ChunkBytesAre
  <2>3. QED
    BY <2>1, <2>2 DEF ChunkLies
<1>6. Begins(b[n], b[i])
  BY <1>1, BodyBegins
<1>7. x \in 1..s
  OBVIOUS
<1> HIDE DEF n, b, size, s, bytes
<1>8. PICK m \in Nat : m = 4 + size[i - 1]
  BY <1>4
<1>9. b[i - 1] \in Seq(Byte) /\ b[i] \in Seq(Byte) /\ b[n] \in Seq(Byte)
  BY <1>1, <1>2
<1>10. Parts(b[i], b[i - 1], m, bytes, s)
  BY <1>2, <1>3, <1>5, <1>8, <1>9, JoinedAt
<1>11. b[i][m + x] = bytes[x] /\ Len(b[i]) = m + s
  BY <1>7, <1>10 DEF Parts
<1>12. s \in Nat
  BY <1>5
<1>13. m + x \in 1..Len(b[i]) /\ m + x \in 1..Len(b[n])
  BY <1>6, <1>7, <1>9, <1>11, <1>12 DEF Begins
<1>14. b[n][m + x] = b[i][m + x]
  BY <1>6, <1>13 DEF Begins
<1>15. QED
  BY <1>8, <1>11, <1>13, <1>14 DEF b, n, size, bytes

LEMMA FileLies ==
    ASSUME NEW chunks \in Seq(Proper)
    PROVE  Lies(FileOf(chunks), chunks)
<1> DEFINE n == Len(chunks)
           b == Body(chunks)[n]
           total == TotalSize(chunks)
           size == LE(4 + total, 4)
           s2 == RIFF \o size
           f == s2 \o b
<1>1. n \in Nat /\ n \in 0..n /\ 0 \in 0..n /\ chunks \in Seq(Chunks)
  BY ProperChunks
<1>2. b \in Seq(Byte) /\ Begins(b, WAVE) /\ Len(b) = 4 + total /\ total \in Nat
  <2>1. Body(chunks) \in [0..n -> Seq(Byte)] /\ Body(chunks)[0] = WAVE
    BY BodySteps
  <2>2. Begins(b, Body(chunks)[0])
    BY <1>1, BodyBegins
  <2>3. Len(b) = 4 + Sizes(chunks)[n]
    BY <1>1, BodyLength
  <2>4. total \in Nat /\ total = Sizes(chunks)[n]
    BY <1>1, SizeSteps, TotalSizes
  <2>5. QED
    BY <1>1, <2>1, <2>2, <2>3, <2>4
<1>3. FileOf(chunks) = f
  BY DEF FileOf
<1>4. RIFF \in Seq(Byte) /\ Len(RIFF) = 4 /\ Len(WAVE) = 4
  BY DEF RIFF, WAVE, Byte
<1>5. 4 + total \in Nat
  BY <1>2
<1>6. size \in Seq(Byte) /\ Len(size) = 4
  BY <1>5, BytesOfFour
<1>7. ASSUME NEW i \in 1..n, NEW x \in 1..SerializedSize(chunks[i])
      PROVE  LET at == (4 + Sizes(chunks)[i - 1]) + x
             IN  at \in 1..Len(b) /\ b[at] = ChunkBytes(chunks[i])[x] /\ Sizes(chunks)[i - 1] \in Nat
  <2>1. Sizes(chunks) \in [0..n -> Nat] /\ i - 1 \in 0..n
    BY <1>1, SizeSteps
  <2>2. Sizes(chunks)[i - 1] \in Nat
    BY <2>1
  <2>3. QED
    BY <2>2, ChunkInBody
<1> HIDE DEF b, size, total
<1>8. Joins(s2, RIFF, size) /\ Joins(f, s2, b)
  BY DEF Joins
<1> HIDE DEF s2, f
<1>9. Parts(s2, RIFF, 4, size, 4) /\ s2 \in Seq(Byte) /\ Len(s2) = 8
  <2>1. Parts(s2, RIFF, 4, size, 4)
    BY <1>4, <1>6, <1>8, JoinedAt
  <2>2. QED
    BY <2>1 DEF Parts
<1>10. PICK m \in Nat : m = Len(b)
  BY <1>2
<1>11. Parts(f, s2, 8, b, m)
  BY <1>2, <1>8, <1>9, <1>10, JoinedAt
<1>12. /\ f \in Seq(Byte) /\ Len(f) = 12 + total
       /\ (\A x \in 1..8 : f[x] = s2[x]) /\ (\A x \in 1..Len(b) : f[8 + x] = b[x])
  <2>1. /\ f \in Seq(Byte) /\ Len(f) = 8 + m
        /\ (\A x \in 1..8 : f[x] = s2[x]) /\ (\A x \in 1..m : f[8 + x] = b[x])
    BY <1>11 DEF Parts
  <2>2. QED
    BY <1>2, <1>10, <2>1
<1>13. ASSUME NEW x \in 1..4
       PROVE  f[x] = RIFF[x] /\ f[8 + x] = WAVE[x] /\ f[4 + x] = size[x]
  <2>1. s2[x] = RIFF[x] /\ s2[4 + x] = size[x]
    BY <1>9 DEF Parts
  <2>2. x \in 1..8 /\ 4 + x \in 1..8
    OBVIOUS
  <2>3. x \in 1..Len(b) /\ b[x] = WAVE[x]
    BY <1>2, <1>4 DEF Begins
  <2>4. QED
    BY <1>12, <2>1, <2>2, <2>3
<1>14. ASSUME NEW i \in 1..n, NEW x \in 1..SerializedSize(chunks[i])
       PROVE  f[(12 + Sizes(chunks)[i - 1]) + x] = ChunkBytes(chunks[i])[x]
  <2>1. PICK at : at = (4 + Sizes(chunks)[i - 1]) + x
    OBVIOUS
  <2>2. at \in 1..Len(b) /\ b[at] = ChunkBytes(chunks[i])[x] /\ Sizes(chunks)[i - 1] \in Nat
    BY <1>7, <2>1
  <2>3. f[8 + at] = b[at]
    BY <1>12, <2>2
  <2>4. 8 + at = (12 + Sizes(chunks)[i - 1]) + x
    <3>1. PICK z \in Nat : z = Sizes(chunks)[i - 1]
      BY <2>2
    <3>2. x \in Int
      <4>1. PICK k : k = SerializedSize(chunks[i])
        OBVIOUS
      <4>2. x \in 1..k
        BY <4>1
      <4>3. QED
        BY <4>2
    <3>3. 8 + ((4 + z) + x) = (12 + z) + x
      BY <3>1, <3>2
    <3>4. QED
      BY <2>1, <3>1, <3>3
  <2>5. QED
    BY <2>2, <2>3, <2>4
<1>15. QED
  BY <1>3, <1>12, <1>13, <1>14 DEF Lies, n, size, total

LEMMA SizesGrow ==
    ASSUME NEW chunks \in Seq(Chunks), NEW i \in 0..Len(chunks)
    PROVE  Sizes(chunks)[i] \in Nat /\ Sizes(chunks)[i] <= TotalSize(chunks)
<1> DEFINE n == Len(chunks)
           size == Sizes(chunks)
           S == {j \in Nat : i + j <= n => size[i] <= size[i + j]}
<1>1. n \in Nat /\ i \in Nat /\ i <= n
  OBVIOUS
<1>2. size \in [0..n -> Nat] /\ TotalSize(chunks) = size[n]
      /\ \A k \in 1..n : size[k] = size[k - 1] + SerializedSize(chunks[k])
  BY SizeSteps
<1>3. \A k \in 1..n : SerializedSize(chunks[k]) \in Nat
  <2>1. ASSUME NEW k \in 1..n
        PROVE  SerializedSize(chunks[k]) \in Nat
    <3>1. PICK c \in Chunks : c = chunks[k]
      BY <1>1
    <3>2. SerializedSize(c) \in Nat
      BY SerializedSizes
    <3>3. QED
      BY <3>1, <3>2
  <2>2. QED
    BY <2>1
<1> HIDE DEF n, size
<1>4. size[i] \in Nat
  BY <1>1, <1>2
<1>5. 0 \in S
  <2>1. i + 0 = i
    BY <1>1
  <2>2. size[i] <= size[i]
    BY <1>4
  <2>3. QED
    BY <2>1, <2>2
<1>6. \A j \in Nat : j \in S => j + 1 \in S
  <2>1. ASSUME NEW j \in Nat, j \in S, i + (j + 1) <= n
        PROVE  size[i] <= size[i + (j + 1)]
    <3>1. PICK k \in 1..n : k = i + (j + 1)
      BY <1>1, <2>1
    <3>2. k - 1 = i + j /\ k - 1 \in 0..n /\ i + j <= n
      BY <1>1, <2>1, <3>1
    <3>3. size[i] <= size[k - 1] /\ size[k - 1] \in Nat
      BY <1>2, <2>1, <3>2
    <3>4. size[k] = size[k - 1] + SerializedSize(chunks[k])
      BY <1>2
    <3>5. SerializedSize(chunks[k]) \in Nat
      BY <1>3
    <3>6. size[i] <= size[k]
      BY <1>4, <3>3, <3>4, <3>5
    <3>7. QED
      BY <3>1, <3>6
  <2>2. QED
    BY <2>1
<1> HIDE DEF S
<1>7. Nat \subseteq S
  BY <1>5, <1>6, UpTo
<1>8. PICK j \in Nat : j = n - i
  BY <1>1
<1>9. j \in S /\ i + j = n
  BY <1>1, <1>7, <1>8
<1>10. size[i] <= size[n]
  BY <1>1, <1>9 DEF S
<1>11. QED
  BY <1>2, <1>4, <1>10 DEF size

\* A chunk is read where it was written.
LEMMA ChunkReadBack ==
    ASSUME NEW f \in Seq(Byte), NEW c \in Proper, NEW z \in Nat,
           z + SerializedSize(c) <= Len(f),
           \A x \in 1..SerializedSize(c) : f[z + x] = ChunkBytes(c)[x]
    PROVE  /\ EndAt(f, {}, z + 1) = "more" /\ ChunkAt(f, z + 1) = c
           /\ NextOf(f, z + 1) = (z + 1) + SerializedSize(c)
<1> DEFINE l == Len(c.data)
           id == c.chunk_id
           data == c.data
           s == SerializedSize(c)
           cb == ChunkBytes(c)
           at == z + 1
<1>1. /\ c \in Chunks /\ id \in Seq(Byte) /\ Len(id) = 4 /\ data \in Seq(Byte) /\ Len(data) = l
      /\ l \in Nat /\ l < Limit
  BY DEF Proper, Chunks
<1>2. s \in Nat /\ s = 8 + (l + (l % 2))
  BY <1>1, SerializedSizes
<1>3. /\ \A x \in 1..4 : cb[x] = id[x] /\ cb[4 + x] = LE(l, 4)[x]
      /\ \A x \in 1..l : cb[8 + x] = data[x]
  <2>1. ChunkLies(ChunkBytes(c), c)
    BY ChunkBytesAre
  <2>2. QED
    BY <2>1 DEF ChunkLies
<1>4. c = [chunk_id |-> id, data |-> data]
  BY <1>1 DEF Chunks
<1>5. z + s <= Len(f) /\ \A x \in 1..s : f[z + x] = cb[x]
  OBVIOUS
<1> HIDE DEF l, id, data, s, cb
<1>6. Len(f) \in Nat /\ l % 2 \in 0..1
  BY <1>1
<1>7. PICK p \in 0..1 : p = l % 2
  BY <1>6
<1>8. s = 8 + (l + p)
  BY <1>2, <1>7
<1>9. \A x \in 1..4 : f[z + x] = id[x] /\ f[z + (4 + x)] = LE(l, 4)[x]
  <2>1. \A x \in 1..4 : x \in 1..s /\ 4 + x \in 1..s
    BY <1>1, <1>8
  <2>2. QED
    BY <1>3, <1>5, <2>1
<1>10. \A x \in 1..l : f[(z + 8) + x] = data[x]
  <2>1. ASSUME NEW x \in 1..l
        PROVE  f[(z + 8) + x] = data[x]
    <3>1. 8 + x \in 1..s /\ z + (8 + x) = (z + 8) + x
      BY <1>1, <1>8
    <3>2. f[z + (8 + x)] = cb[8 + x]
      BY <1>5, <3>1
    <3>3. QED
      BY <1>3, <3>1, <3>2
  <2>2. QED
    BY <2>1
<1>11. SizeAt(f, at) = l
  <2>1. PICK a \in Nat : a = at + 4
    OBVIOUS
  <2>2. a = z + (4 + 1) /\ a + 1 = z + (4 + 2) /\ a + 2 = z + (4 + 3) /\ a + 3 = z + (4 + 4)
    BY <2>1
  <2>3. /\ f[a] = LE(l, 4)[1] /\ f[a + 1] = LE(l, 4)[2]
        /\ f[a + 2] = LE(l, 4)[3] /\ f[a + 3] = LE(l, 4)[4]
    <3>1. 1 \in 1..4 /\ 2 \in 1..4 /\ 3 \in 1..4 /\ 4 \in 1..4
      OBVIOUS
    <3>2. QED
      BY <1>9, <2>2, <3>1
  <2>4. U32(f, a) = l
    BY <1>1, <2>3, FourBytesBack
  <2>5. QED
    BY <2>1, <2>4 DEF SizeAt
<1>12. NextOf(f, at) = at + s
  <2>1. NextOf(f, at) = at + 8 + Padded(l) /\ Padded(l) = l + (l % 2)
    BY <1>11 DEF NextOf, Padded
  <2>2. Padded(l) = l + p
    BY <1>7, <2>1
  <2>3. at + 8 + (l + p) = at + s
    BY <1>1, <1>8
  <2>4. QED
    BY <2>1, <2>2, <2>3
<1>13. SubSeq(f, at, at + 3) = id
  <2>1. PICK n \in Nat : n = at + 3
    OBVIOUS
  <2>2. at \in Nat \ {0} /\ at <= n + 1 /\ n <= Len(f) /\ at - 1 = z /\ (n - at) + 1 = 4
    BY <1>1, <1>5, <1>6, <1>8, <2>1
  <2>3. Piece(SubSeq(f, at, n), f, at - 1, (n - at) + 1)
    BY <2>2, PieceIs
  <2>4. Piece(SubSeq(f, at, n), f, z, 4)
    BY <2>2, <2>3
  <2>5. PICK q : q = SubSeq(f, at, n)
    OBVIOUS
  <2>6. q \in Seq(Byte) /\ Len(q) = 4 /\ \A x \in 1..4 : q[x] = f[z + x]
    BY <2>4, <2>5 DEF Piece
  <2>7. q = id
    <3>1. \A x \in 1..4 : q[x] = id[x]
      BY <1>9, <2>6, Zenon
    <3>2. \A x \in 1..Len(q) : q[x] = id[x]
      BY <2>6, <3>1
    <3>3. QED
      BY <1>1, <2>6, <3>2, SameWords
  <2>8. QED
    BY <2>1, <2>5, <2>7
<1>14. SubSeq(f, at + 8, at + 7 + l) = data
  <2>1. PICK m \in Nat \ {0} : m = at + 8
    OBVIOUS
  <2>2. PICK n \in Nat : n = at + 7 + l
    BY <1>1
  <2>3. m <= n + 1 /\ n <= Len(f) /\ m - 1 = z + 8 /\ (n - m) + 1 = l
    BY <1>1, <1>5, <1>6, <1>8, <2>1, <2>2
  <2>4. Piece(SubSeq(f, m, n), f, m - 1, (n - m) + 1)
    BY <2>3, PieceIs
  <2>5. Piece(SubSeq(f, m, n), f, z + 8, l)
    BY <2>3, <2>4
  <2>6. SubSeq(f, m, n) = data
    BY <1>1, <1>10, <2>5, SameWords DEF Piece
  <2>7. QED
    BY <2>1, <2>2, <2>6
<1>15. EndAt(f, {}, at) = "more"
  <2>1. ChunkHeader(f, at) = "chunk"
    <3>1. ~(Len(f) < at + 3) /\ ~(Len(f) < at + 7)
      BY <1>1, <1>5, <1>6, <1>8
    <3>2. QED
      BY <3>1 DEF ChunkHeader
  <2>2. ~(Len(f) < NextOf(f, at) - 1)
    BY <1>1, <1>5, <1>6, <1>8, <1>12
  <2>3. QED
    BY <2>1, <2>2 DEF EndAt
<1>16. ChunkAt(f, at) = c
  BY <1>4, <1>11, <1>13, <1>14 DEF ChunkAt
<1>17. QED
  BY <1>12, <1>15, <1>16 DEF s

PlacesOf(chunks) == [i \in 0..Len(chunks) |-> 13 + Sizes(chunks)[i]]

LEMMA RowWritten ==
    ASSUME NEW chunks \in Seq(Proper), NEW f, Lies(f, chunks)
    PROVE  Row(f, PlacesOf(chunks), chunks)
<1> DEFINE n == Len(chunks)
           size == Sizes(chunks)
           p == PlacesOf(chunks)
<1>1. chunks \in Seq(Chunks) /\ n \in Nat
  BY ProperChunks
<1>2. f \in Seq(Byte) /\ Len(f) = 12 + TotalSize(chunks) /\ TotalSize(chunks) \in Nat
  BY <1>1, TotalSizes DEF Lies
<1>3. \A i \in 0..n : size[i] \in Nat /\ size[i] <= TotalSize(chunks)
  BY <1>1, SizesGrow
<1>4. \A i \in 1..n : size[i] = size[i - 1] + SerializedSize(chunks[i])
  BY <1>1, SizeSteps
<1>5. \A i \in 0..n : p[i] = 13 + size[i]
  BY DEF PlacesOf
<1> HIDE DEF size
<1>6. p \in [0..n -> 1..(Len(f) + 1)]
  <2>1. \A i \in 0..n : 13 + size[i] \in 1..(Len(f) + 1)
    BY <1>2, <1>3
  <2>2. p = [i \in 0..n |-> 13 + size[i]]
    BY DEF PlacesOf, size
  <2>3. QED
    BY <2>1, <2>2
<1>7. ASSUME NEW i \in 1..n
      PROVE  /\ EndAt(f, {}, p[i - 1]) = "more" /\ ChunkAt(f, p[i - 1]) = chunks[i]
             /\ NextOf(f, p[i - 1]) = p[i]
  <2>1. PICK c \in Proper : c = chunks[i]
    BY <1>1
  <2>2. i \in 0..n /\ i - 1 \in 0..n
    BY <1>1
  <2>3. PICK z \in Nat : z = 12 + size[i - 1]
    BY <1>3, <2>2
  <2>4. PICK s \in Nat : s = SerializedSize(c)
    <3>1. c \in Chunks
      BY ProperChunks
    <3>2. QED
      BY <3>1, SerializedSizes
  <2>5. size[i] = size[i - 1] + s /\ size[i - 1] \in Nat
    BY <1>3, <1>4, <2>1, <2>2, <2>4
  <2>6. z + SerializedSize(c) <= Len(f)
    <3>1. z + s = 12 + size[i]
      BY <2>3, <2>5
    <3>2. size[i] <= TotalSize(chunks) /\ size[i] \in Nat
      BY <1>3, <2>2
    <3>3. QED
      BY <1>2, <2>4, <3>1, <3>2
  <2>7. \A x \in 1..SerializedSize(c) : f[z + x] = ChunkBytes(c)[x]
    BY <2>1, <2>3 DEF Lies, size
  <2>8. /\ EndAt(f, {}, z + 1) = "more" /\ ChunkAt(f, z + 1) = c
        /\ NextOf(f, z + 1) = (z + 1) + SerializedSize(c)
    BY <1>2, <2>6, <2>7, ChunkReadBack
  <2>9. p[i - 1] = z + 1
    <3>1. p[i - 1] = 13 + size[i - 1]
      BY <1>5, <2>2
    <3>2. QED
      BY <2>3, <2>5, <3>1
  <2>10. p[i] = (z + 1) + SerializedSize(c)
    <3>1. p[i] = 13 + size[i]
      BY <1>5, <2>2
    <3>2. 13 + (size[i - 1] + s) = (z + 1) + s
      BY <2>3, <2>5
    <3>3. QED
      BY <2>4, <2>5, <3>1, <3>2
  <2>11. QED
    BY <2>1, <2>8, <2>9, <2>10
<1>8. QED
  BY <1>6, <1>7 DEF Row

\* A row is one of its beginning and one of its end.
LEMMA RowFront ==
    ASSUME NEW bytes, NEW a \in Seq(Chunks), NEW b \in Seq(Chunks), NEW chunks, chunks = a \o b,
           NEW p, Row(bytes, p, chunks)
    PROVE  Row(bytes, [i \in 0..Len(a) |-> p[i]], a)
<1> DEFINE n == Len(a)
           q == [i \in 0..n |-> p[i]]
<1>1. n \in Nat /\ Len(chunks) \in Nat /\ n <= Len(chunks) /\ \A i \in 1..n : chunks[i] = a[i]
  OBVIOUS
<1>2. /\ p \in [0..Len(chunks) -> 1..(Len(bytes) + 1)]
      /\ \A i \in 1..Len(chunks) :
             /\ EndAt(bytes, {}, p[i - 1]) = "more"
             /\ ChunkAt(bytes, p[i - 1]) = chunks[i] /\ NextOf(bytes, p[i - 1]) = p[i]
  BY DEF Row
<1> HIDE DEF n
<1>3. \A i \in 0..n : i \in 0..Len(chunks)
  BY <1>1
<1>4. q \in [0..n -> 1..(Len(bytes) + 1)] /\ \A i \in 0..n : q[i] = p[i]
  BY <1>2, <1>3
<1> HIDE DEF q
<1>5. \A i \in 1..n : i \in 1..Len(chunks) /\ i \in 0..n /\ i - 1 \in 0..n
  BY <1>1
<1>6. \A i \in 1..n : /\ EndAt(bytes, {}, q[i - 1]) = "more"
                      /\ ChunkAt(bytes, q[i - 1]) = a[i] /\ NextOf(bytes, q[i - 1]) = q[i]
  BY <1>1, <1>2, <1>4, <1>5
<1>7. QED
  BY <1>4, <1>6 DEF Row, n, q

LEMMA RowBack ==
    ASSUME NEW bytes, NEW a \in Seq(Chunks), NEW b \in Seq(Chunks), NEW chunks, chunks = a \o b,
           NEW p, Row(bytes, p, chunks)
    PROVE  Row(bytes, [i \in 0..Len(b) |-> p[Len(a) + i]], b)
<1> DEFINE m == Len(a)
           n == Len(b)
           q == [i \in 0..n |-> p[m + i]]
<1>1. m \in Nat /\ n \in Nat /\ Len(chunks) = m + n /\ \A i \in 1..n : chunks[m + i] = b[i]
  OBVIOUS
<1>2. /\ p \in [0..Len(chunks) -> 1..(Len(bytes) + 1)]
      /\ \A i \in 1..Len(chunks) :
             /\ EndAt(bytes, {}, p[i - 1]) = "more"
             /\ ChunkAt(bytes, p[i - 1]) = chunks[i] /\ NextOf(bytes, p[i - 1]) = p[i]
  BY DEF Row
<1> HIDE DEF m, n
<1>3. \A i \in 0..n : m + i \in 0..Len(chunks)
  BY <1>1
<1>4. q \in [0..n -> 1..(Len(bytes) + 1)] /\ \A i \in 0..n : q[i] = p[m + i]
  BY <1>2, <1>3
<1> HIDE DEF q
<1>5. \A i \in 1..n : /\ m + i \in 1..Len(chunks) /\ i \in 0..n /\ i - 1 \in 0..n
                      /\ (m + i) - 1 = m + (i - 1)
  BY <1>1
<1>6. ASSUME NEW i \in 1..n
      PROVE  /\ EndAt(bytes, {}, q[i - 1]) = "more"
             /\ ChunkAt(bytes, q[i - 1]) = b[i] /\ NextOf(bytes, q[i - 1]) = q[i]
  <2>1. PICK j \in 1..Len(chunks) : j = m + i
    BY <1>5
  <2>2. q[i - 1] = p[j - 1] /\ q[i] = p[j] /\ chunks[j] = b[i]
    BY <1>1, <1>4, <1>5, <2>1
  <2>3. QED
    BY <1>2, <2>2
<1>7. QED
  BY <1>4, <1>6 DEF Row, m, n, q

-----------------------------------------------------------------------------
(* A written file is read *)

\* c is a, m long, and b behind it, n long.
Composed(S, c, a, m, b, n) ==
    /\ c \in Seq(S) /\ Len(c) = m + n
    /\ \A i \in 1..m : c[i] = a[i]
    /\ \A i \in 1..n : c[m + i] = b[i]

LEMMA Composes ==
    ASSUME NEW S, NEW a \in Seq(S), NEW b \in Seq(S), NEW c, Joins(c, a, b),
           NEW m, Len(a) = m, NEW n, Len(b) = n
    PROVE  Composed(S, c, a, m, b, n)
<1>1. c = a \o b
  BY DEF Joins
<1>2. /\ a \o b \in Seq(S) /\ Len(a \o b) = Len(a) + Len(b)
      /\ \A i \in 1..Len(a) : (a \o b)[i] = a[i]
      /\ \A i \in 1..Len(b) : (a \o b)[Len(a) + i] = b[i]
  OBVIOUS
<1>3. /\ c \in Seq(S) /\ Len(c) = Len(a) + Len(b)
      /\ \A i \in 1..Len(a) : c[i] = a[i]
      /\ \A i \in 1..Len(b) : c[Len(a) + i] = b[i]
  BY <1>1, <1>2, Zenon
<1>4. QED
  BY <1>3 DEF Composed

\* The scan from v is the scan from w, behind these chunks.
GoesOn(bytes, until, v, w, chunks) ==
    Scan(bytes, until)[v]
    = [end |-> Scan(bytes, until)[w].end, at |-> Scan(bytes, until)[w].at,
       chunks |-> chunks \o Scan(bytes, until)[w].chunks]

\* The scan along a row, from v to w, goes on as the scan from w.
LEMMA ScanThrough ==
    ASSUME NEW bytes \in Seq(Byte), NEW until, NEW chunks \in Seq(Chunks), NEW places,
           Row(bytes, places, chunks), None(chunks, until),
           NEW v, v = places[0], NEW w, w = places[Len(chunks)]
    PROVE  GoesOn(bytes, until, v, w, chunks)
<1>1. PICK last : last = Scan(bytes, until)[places[Len(chunks)]]
  OBVIOUS
<1>2. Scan(bytes, until)[places[0]]
      = [end |-> last.end, at |-> last.at, chunks |-> chunks \o last.chunks]
  BY <1>1, ScanAlong
<1>3. QED
  BY <1>1, <1>2 DEF GoesOn

LEMMA RiffWritten ==
    ASSUME NEW chunks \in Seq(Chunks), NEW f, Lies(f, chunks)
    PROVE  RiffError(f) = "none"
<1>1. /\ f \in Seq(Byte) /\ Len(f) = 12 + TotalSize(chunks) /\ TotalSize(chunks) \in Nat
      /\ \A x \in 1..4 : f[x] = RIFF[x] /\ f[8 + x] = WAVE[x]
  BY TotalSizes DEF Lies
<1>2. Len(f) \in Nat /\ 12 <= Len(f)
  BY <1>1
<1>3. /\ RIFF \in Seq(Byte) /\ Len(RIFF) = 4 /\ WAVE \in Seq(Byte) /\ Len(WAVE) = 4
  BY DEF RIFF, WAVE, Byte
<1>4. ASSUME NEW z \in Nat, z + 4 <= Len(f), NEW id \in Seq(Byte), Len(id) = 4,
             \A x \in 1..4 : f[z + x] = id[x]
      PROVE  SubSeq(f, z + 1, z + 4) = id
  <2>1. PICK m \in Nat \ {0} : m = z + 1
    OBVIOUS
  <2>2. PICK n \in Nat : n = z + 4
    OBVIOUS
  <2>3. m <= n + 1 /\ n <= Len(f) /\ m - 1 = z /\ (n - m) + 1 = 4
    BY <1>4, <2>1, <2>2
  <2>4. Piece(SubSeq(f, m, n), f, m - 1, (n - m) + 1)
    BY <1>1, <2>3, PieceIs
  <2>5. PICK q : q = SubSeq(f, m, n)
    OBVIOUS
  <2>6. q \in Seq(Byte) /\ Len(q) = 4 /\ \A x \in 1..4 : q[x] = f[z + x]
    BY <2>3, <2>4, <2>5 DEF Piece
  <2>7. q = id
    <3>1. \A x \in 1..4 : q[x] = id[x]
      BY <1>4, <2>6, Zenon
    <3>2. \A x \in 1..Len(q) : q[x] = id[x]
      BY <2>6, <3>1
    <3>3. QED
      BY <1>4, <2>6, <3>2, SameWords
  <2>8. QED
    BY <2>1, <2>2, <2>5, <2>7
<1>5. SubSeq(f, 1, 4) = RIFF
  <2>1. PICK z \in Nat : z = 0
    OBVIOUS
  <2>2. z + 4 <= Len(f) /\ z + 1 = 1 /\ z + 4 = 4 /\ \A x \in 1..4 : z + x = x
    BY <1>2, <2>1
  <2>3. \A x \in 1..4 : f[z + x] = RIFF[x]
    BY <1>1, <2>2
  <2>4. SubSeq(f, z + 1, z + 4) = RIFF
    BY <1>3, <1>4, <2>2, <2>3
  <2>5. QED
    BY <2>2, <2>4
<1>6. SubSeq(f, 9, 12) = WAVE
  <2>1. PICK z \in Nat : z = 8
    OBVIOUS
  <2>2. z + 4 <= Len(f) /\ z + 1 = 9 /\ z + 4 = 12
    BY <1>2, <2>1
  <2>3. \A x \in 1..4 : f[z + x] = WAVE[x]
    BY <1>1, <2>1
  <2>4. SubSeq(f, z + 1, z + 4) = WAVE
    BY <1>3, <1>4, <2>2, <2>3
  <2>5. QED
    BY <2>2, <2>4
<1>7. QED
  BY <1>2, <1>5, <1>6 DEF RiffError

\* A format between the chunks that were in front of it and behind it.
LEMMA FrontSorted ==
    ASSUME NEW before \in Seq(Kept), NEW between \in Seq(Kept),
           NEW fmt \in Proper, fmt.chunk_id = FMT, FormatFits(fmt.data),
           NEW front, front = (before \o <<fmt>>) \o between
    PROVE  /\ front \in Seq(Proper) /\ None(front, {DATA}) /\ FormatsFit(front)
           /\ Sorted(front) = [before_fmt |-> before, format |-> fmt.data,
                               before_data |-> between]
<1>1. before \in Seq(Proper) /\ between \in Seq(Proper) /\ <<fmt>> \in Seq(Proper)
  BY ProperChunks
<1>2. PICK m \in Nat : m = Len(before)
  OBVIOUS
<1>3. PICK n \in Nat : n = Len(between)
  OBVIOUS
<1>4. /\ front \in Seq(Proper) /\ Len(front) = (m + 1) + n
      /\ \A i \in 1..m : front[i] = before[i]
      /\ front[m + 1] = fmt
      /\ \A i \in 1..n : front[(m + 1) + i] = between[i]
  <2>1. PICK a : a = before \o <<fmt>>
    OBVIOUS
  <2>2. /\ a \in Seq(Proper) /\ Len(a) = m + 1 /\ a[m + 1] = fmt
        /\ \A i \in 1..m : a[i] = before[i]
    BY <1>1, <1>2, <2>1
  <2>3. Joins(front, a, between)
    BY <2>1 DEF Joins
  <2>4. PICK l \in Nat : l = m + 1
    OBVIOUS
  <2>5. Composed(Proper, front, a, l, between, n)
    BY <1>1, <1>3, <2>2, <2>3, <2>4, Composes
  <2>6. /\ front \in Seq(Proper) /\ Len(front) = (m + 1) + n
        /\ \A i \in 1..n : front[(m + 1) + i] = between[i]
    BY <2>4, <2>5 DEF Composed
  <2>7. \A i \in 1..l : front[i] = a[i]
    BY <2>5 DEF Composed
  <2>8. l \in 1..l /\ \A i \in 1..m : i \in 1..l
    BY <2>4
  <2>9. front[m + 1] = fmt /\ \A i \in 1..m : front[i] = before[i]
    BY <2>2, <2>4, <2>7, <2>8
  <2>10. QED
    BY <2>6, <2>9
<1>5. front \in Seq(Chunks)
  BY <1>4, ProperChunks
<1>6. ASSUME NEW i \in 1..Len(front)
      PROVE  i = m + 1 \/ front[i] \in Kept
  <2>1. CASE i <= m
    <3>1. i \in 1..m /\ front[i] = before[i]
      BY <1>4, <2>1
    <3>2. before[i] \in Kept
      BY <1>2, <3>1
    <3>3. QED
      BY <3>1, <3>2
  <2>2. CASE i > m + 1
    <3>1. PICK j \in 1..n : i = (m + 1) + j
      <4>1. i - (m + 1) \in 1..n /\ i = (m + 1) + (i - (m + 1))
        BY <1>4, <2>2
      <4>2. QED
        BY <4>1
    <3>2. between[j] \in Kept /\ front[i] = between[j]
      BY <1>3, <1>4, <3>1
    <3>3. QED
      BY <3>2
  <2>3. QED
    BY <2>1, <2>2
<1>7. FMT # DATA /\ \A c \in Kept : c.chunk_id # FMT /\ c.chunk_id # DATA
  <2>1. FMT[1] = 102 /\ DATA[1] = 100
    BY DEF FMT, DATA
  <2>2. \A c \in Kept : c.chunk_id # FMT /\ c.chunk_id # DATA
    BY DEF Kept
  <2>3. QED
    BY <2>1, <2>2
<1>8. None(front, {DATA})
  BY <1>4, <1>6, <1>7 DEF None
<1>9. FormatsFit(front)
  <2>1. DOMAIN front = 1..Len(front)
    BY <1>4
  <2>2. QED
    BY <1>4, <1>6, <1>7, <2>1 DEF FormatsFit
<1>10. fmt.data # <<>>
  BY DEF FormatFits
<1>11. Sorted(front) = [before_fmt |-> SubSeq(front, 1, m), format |-> front[m + 1].data,
                        before_data |-> SubSeq(front, m + 2, Len(front))]
  <2>1. m < Len(front) /\ front[m + 1].chunk_id = FMT /\ front[m + 1].data # <<>>
    BY <1>4, <1>10
  <2>2. \A i \in 1..Len(front) : i # m + 1 => front[i].chunk_id # FMT
    BY <1>6, <1>7
  <2>3. QED
    BY <1>5, <2>1, <2>2, SortedAround
<1>12. SubSeq(front, 1, m) = before
  <2>1. PICK q : q = SubSeq(front, 1, m)
    OBVIOUS
  <2>2. q \in Seq(Proper) /\ Len(q) = m /\ \A i \in 1..m : q[i] = front[i]
    <3>1. PICK o \in Nat \ {0} : o = 1
      OBVIOUS
    <3>2. o <= m + 1 /\ m <= Len(front) /\ (m - o) + 1 = m /\ \A i \in 1..m : (o + i) - 1 = i
      BY <1>4, <3>1
    <3>3. /\ SubSeq(front, o, m) \in Seq(Proper) /\ Len(SubSeq(front, o, m)) = (m - o) + 1
          /\ \A i \in 1..((m - o) + 1) : SubSeq(front, o, m)[i] = front[(o + i) - 1]
      BY <1>4, <3>2, Pieces
    <3>4. QED
      BY <2>1, <3>1, <3>2, <3>3
  <2>3. q = before
    BY <1>1, <1>2, <1>4, <2>2, SameWords
  <2>4. QED
    BY <2>1, <2>3
<1>13. SubSeq(front, m + 2, Len(front)) = between
  <2>1. PICK o \in Nat \ {0} : o = m + 2
    OBVIOUS
  <2>2. PICK l \in Nat : l = Len(front)
    BY <1>4
  <2>3. PICK q : q = SubSeq(front, o, l)
    OBVIOUS
  <2>4. q \in Seq(Proper) /\ Len(q) = n /\ \A i \in 1..n : q[i] = front[(m + 1) + i]
    <3>2. /\ o <= l + 1 /\ l <= Len(front) /\ (l - o) + 1 = n
          /\ \A i \in 1..n : (o + i) - 1 = (m + 1) + i
      BY <1>4, <2>1, <2>2
    <3>3. /\ SubSeq(front, o, l) \in Seq(Proper) /\ Len(SubSeq(front, o, l)) = (l - o) + 1
          /\ \A i \in 1..((l - o) + 1) : SubSeq(front, o, l)[i] = front[(o + i) - 1]
      BY <1>4, <3>2, Pieces
    <3>4. QED
      BY <2>3, <3>2, <3>3
  <2>5. q = between
    BY <1>1, <1>3, <1>4, <2>4, SameWords
  <2>6. QED
    BY <2>1, <2>2, <2>3, <2>5
<1>14. QED
  BY <1>4, <1>8, <1>9, <1>11, <1>12, <1>13

\* The chunks of a written file, in their order.
Ordered(chunks, before, x, between, y, after) ==
    chunks = before \o <<x>> \o between \o <<y>> \o after

\* A file reads as a format and what stands around it.
ReadsAs(f, format, before, between, data, after) ==
    /\ Readable(f)
    /\ ValueRead(f) = [header |-> HeaderOf(format),
                       fmt_extension |-> SubSeq(format, 17, Len(format)),
                       chunks_before_fmt |-> before, chunks_before_data |-> between,
                       data |-> data, chunks_after_data |-> after]

LEMMA WrittenRead ==
    ASSUME NEW before \in Seq(Kept), NEW between \in Seq(Kept), NEW after \in Seq(Proper),
           NEW fmt \in Proper, fmt.chunk_id = FMT, FormatFits(fmt.data),
           NEW d \in Proper, d.chunk_id = DATA,
           NEW chunks, Ordered(chunks, before, fmt, between, d, after),
           NEW f, Lies(f, chunks)
    PROVE  ReadsAs(f, fmt.data, before, between, d.data, after)
<1>1. PICK front : front = (before \o <<fmt>>) \o between
  OBVIOUS
<1>2. /\ front \in Seq(Proper) /\ None(front, {DATA}) /\ FormatsFit(front)
      /\ Sorted(front) = [before_fmt |-> before, format |-> fmt.data, before_data |-> between]
  BY <1>1, FrontSorted
<1>3. PICK upto : upto = front \o <<d>>
  OBVIOUS
<1>4. PICK k \in Nat : k = Len(front)
  BY <1>2
<1>5. PICK n \in Nat : n = Len(after)
  OBVIOUS
<1>6. /\ upto \in Seq(Proper) /\ Len(upto) = k + 1 /\ upto[k + 1] = d
      /\ chunks = upto \o after
  BY <1>1, <1>2, <1>3, <1>4 DEF Ordered
<1>7. /\ chunks \in Seq(Proper) /\ Len(chunks) = (k + 1) + n /\ chunks[k + 1] = d
  <2>1. PICK l \in Nat : l = k + 1
    OBVIOUS
  <2>2. Joins(chunks, upto, after) /\ Len(upto) = l
    BY <1>6, <2>1 DEF Joins
  <2>3. Composed(Proper, chunks, upto, l, after, n)
    BY <1>5, <1>6, <2>2, Composes
  <2>4. /\ chunks \in Seq(Proper) /\ Len(chunks) = l + n
        /\ \A i \in 1..l : chunks[i] = upto[i]
    BY <2>3 DEF Composed
  <2>5. l \in 1..l
    BY <2>1
  <2>6. chunks[l] = upto[l]
    BY <2>4, <2>5
  <2>7. QED
    BY <1>6, <2>1, <2>4, <2>6
<1>8. /\ front \in Seq(Chunks) /\ upto \in Seq(Chunks) /\ after \in Seq(Chunks)
      /\ chunks \in Seq(Chunks) /\ d \in Chunks
  BY <1>2, <1>6, <1>7, ProperChunks
<1>9. f \in Seq(Byte) /\ Len(f) = 12 + TotalSize(chunks) /\ TotalSize(chunks) \in Nat
  BY <1>8, TotalSizes DEF Lies
<1>10. PICK p : p = PlacesOf(chunks)
  OBVIOUS
<1>11. Row(f, p, chunks)
  BY <1>7, <1>10, RowWritten
<1>12. \A i \in 0..Len(chunks) : p[i] = 13 + Sizes(chunks)[i]
  BY <1>10 DEF PlacesOf
<1>13. p[0] = 13 /\ p[(k + 1) + n] = Len(f) + 1
  <2>1. Sizes(chunks)[0] = 0 /\ TotalSize(chunks) = Sizes(chunks)[Len(chunks)]
    BY <1>8, SizeSteps
  <2>2. 0 \in 0..Len(chunks) /\ Len(chunks) \in 0..Len(chunks)
    BY <1>7
  <2>3. p[0] = 13 + Sizes(chunks)[0] /\ p[Len(chunks)] = 13 + TotalSize(chunks)
    BY <1>12, <2>1, <2>2
  <2>4. p[0] = 13
    BY <2>1, <2>3
  <2>5. 13 + TotalSize(chunks) = Len(f) + 1
    BY <1>9
  <2>6. QED
    BY <1>7, <2>3, <2>4, <2>5
<1>14. PICK at : at = p[k]
  OBVIOUS
<1>15. /\ at \in 1..(Len(f) + 1) /\ EndAt(f, {}, at) = "more" /\ ChunkAt(f, at) = d
       /\ NextOf(f, at) = p[k + 1] /\ p[k + 1] \in 1..(Len(f) + 1)
  <2>1. PICK i \in 1..Len(chunks) : i = k + 1
    BY <1>7
  <2>2. i - 1 = k /\ k \in 0..Len(chunks) /\ i \in 0..Len(chunks)
    BY <1>7, <2>1
  <2>3. /\ EndAt(f, {}, p[i - 1]) = "more" /\ ChunkAt(f, p[i - 1]) = chunks[i]
        /\ NextOf(f, p[i - 1]) = p[i]
    BY <1>11 DEF Row
  <2>4. p \in [0..Len(chunks) -> 1..(Len(f) + 1)]
    BY <1>11 DEF Row
  <2>5. p[k] \in 1..(Len(f) + 1) /\ p[i] \in 1..(Len(f) + 1)
    BY <2>2, <2>4
  <2>6. QED
    BY <1>7, <1>14, <2>1, <2>2, <2>3, <2>5
<1>16. /\ SubSeq(f, at, at + 3) = DATA /\ Len(d.data) = SizeAt(f, at)
       /\ SubSeq(f, at + 8, at + 7 + SizeAt(f, at)) = d.data
       /\ SizeAt(f, at) \in Nat /\ at \in Nat
  <2>1. d.chunk_id = SubSeq(f, at, at + 3)
        /\ d.data = SubSeq(f, at + 8, at + 7 + SizeAt(f, at))
    BY <1>15 DEF ChunkAt
  <2>2. Len(ChunkAt(f, at).data) = SizeAt(f, at) /\ SizeAt(f, at) \in Nat
    BY <1>9, <1>15, More
  <2>3. QED
    BY <1>15, <2>1, <2>2
<1>17. Preamble(f) = [end |-> "data", at |-> at, chunks |-> front]
  <2>1. PICK q : q = [i \in 0..Len(upto) |-> p[i]]
    OBVIOUS
  <2>2. Row(f, q, upto)
    BY <1>6, <1>8, <1>11, <2>1, RowFront
  <2>3. PICK r : r = [i \in 0..Len(front) |-> q[i]]
    OBVIOUS
  <2>4. Row(f, r, front)
    <3>1. <<d>> \in Seq(Chunks)
      BY <1>8
    <3>2. QED
      BY <1>3, <1>8, <2>2, <2>3, <3>1, RowFront
  <2>5. r[0] = 13 /\ r[Len(front)] = at
    <3>1. 0 \in 0..Len(front) /\ Len(front) \in 0..Len(front)
          /\ 0 \in 0..Len(upto) /\ k \in 0..Len(upto)
      BY <1>4, <1>6
    <3>2. r[0] = q[0] /\ r[Len(front)] = q[k] /\ q[0] = p[0] /\ q[k] = p[k]
      BY <1>4, <2>1, <2>3, <3>1
    <3>3. QED
      BY <1>13, <1>14, <3>2
  <2>6. PICK last : last = Scan(f, {DATA})[at]
    OBVIOUS
  <2>7. Scan(f, {DATA})[13] = [end |-> last.end, at |-> last.at, chunks |-> front \o last.chunks]
    <3>1. PICK w : w = r[Len(front)]
      OBVIOUS
    <3>2. PICK v : v = r[0]
      OBVIOUS
    <3>3. v = 13 /\ w = at
      BY <2>5, <3>1, <3>2
    <3>4. PICK until : until = {DATA}
      OBVIOUS
    <3>5. last = Scan(f, until)[w] /\ None(front, until)
      BY <1>2, <2>6, <3>3, <3>4
    <3>9. /\ f \in Seq(Byte) /\ front \in Seq(Chunks) /\ Row(f, r, front)
          /\ None(front, until) /\ v = r[0] /\ w = r[Len(front)]
      BY <1>8, <1>9, <2>4, <3>1, <3>2, <3>5
    <3>10. GoesOn(f, until, v, w, front)
      BY <3>9, ScanThrough
    <3>6. Scan(f, until)[v]
          = [end |-> last.end, at |-> last.at, chunks |-> front \o last.chunks]
      BY <3>5, <3>10 DEF GoesOn
    <3>7. QED
      BY <3>3, <3>4, <3>6
  <2>8. EndAt(f, {DATA}, at) = "data"
    <3>1. ChunkHeader(f, at) = "chunk"
      <4>1. ChunkHeader(f, at) # "chunk" => EndAt(f, {}, at) = ChunkHeader(f, at)
        BY DEF EndAt
      <4>2. ChunkHeader(f, at) # "more"
        BY DEF ChunkHeader
      <4>3. QED
        BY <1>15, <4>1, <4>2
    <3>2. SubSeq(f, at, at + 3) \in {DATA}
      BY <1>16
    <3>3. QED
      BY <3>1, <3>2 DEF EndAt
  <2>9. last = Ending("data", at)
    <3>1. EndAt(f, {DATA}, at) # "more"
      BY <2>8
    <3>2. Scan(f, {DATA})[at] = Ending(EndAt(f, {DATA}, at), at)
      BY <1>9, <1>15, <3>1, ScanSteps
    <3>3. QED
      BY <2>6, <2>8, <3>2
  <2>10. last.end = "data" /\ last.at = at /\ last.chunks = <<>>
    BY <2>9 DEF Ending
  <2>11. front \o <<>> = front
    BY <1>8
  <2>12. QED
    BY <2>7, <2>10, <2>11 DEF Preamble
<1>18. /\ DataSize(f) = SizeAt(f, at) /\ AfterData(f) = p[k + 1]
       /\ Preamble(f).end = "data" /\ Preamble(f).at = at /\ Preamble(f).chunks = front
  BY <1>15, <1>17 DEF DataSize, AfterData
<1>19. Trailing(f).end = "eof" /\ Trailing(f).chunks = after
  <2>1. PICK q : q = [i \in 0..Len(after) |-> p[Len(upto) + i]]
    OBVIOUS
  <2>2. Row(f, q, after)
    BY <1>6, <1>8, <1>11, <2>1, RowBack
  <2>3. q[0] = p[k + 1] /\ q[Len(after)] = Len(f) + 1
    <3>1. 0 \in 0..Len(after) /\ Len(after) \in 0..Len(after) /\ Len(upto) + 0 = k + 1
      BY <1>5, <1>6
    <3>2. q[0] = p[Len(upto) + 0] /\ q[Len(after)] = p[Len(upto) + Len(after)]
      BY <2>1, <3>1
    <3>3. QED
      BY <1>5, <1>6, <1>13, <3>1, <3>2
  <2>4. None(after, {})
    BY DEF None
  <2>5. PICK end : end = Len(f) + 1
    OBVIOUS
  <2>6. PICK last : last = Scan(f, {})[end]
    OBVIOUS
  <2>7. Trailing(f) = [end |-> last.end, at |-> last.at, chunks |-> after \o last.chunks]
    <3>1. PICK w : w = q[Len(after)]
      OBVIOUS
    <3>2. PICK v : v = q[0]
      OBVIOUS
    <3>3. v = p[k + 1] /\ w = end
      BY <2>3, <2>5, <3>1, <3>2
    <3>4. PICK until : until = {}
      OBVIOUS
    <3>5. last = Scan(f, until)[w] /\ None(after, until)
      BY <2>4, <2>6, <3>3, <3>4
    <3>9. /\ f \in Seq(Byte) /\ after \in Seq(Chunks) /\ Row(f, q, after)
          /\ None(after, until) /\ v = q[0] /\ w = q[Len(after)]
      BY <1>8, <1>9, <2>2, <3>1, <3>2, <3>5
    <3>10. GoesOn(f, until, v, w, after)
      BY <3>9, ScanThrough
    <3>6. Scan(f, until)[v]
          = [end |-> last.end, at |-> last.at, chunks |-> after \o last.chunks]
      BY <3>5, <3>10 DEF GoesOn
    <3>7. Trailing(f) = Scan(f, until)[v]
      BY <1>18, <3>3, <3>4 DEF Trailing
    <3>8. QED
      BY <3>6, <3>7
  <2>8. last = Ending("eof", end)
    <3>1. Len(f) \in Nat /\ end \in 1..(Len(f) + 1)
      <4>1. PICK l \in Nat : l = Len(f)
        BY <1>9
      <4>2. l + 1 \in 1..(l + 1)
        BY <4>1
      <4>3. QED
        BY <2>5, <4>1, <4>2
    <3>2. ChunkHeader(f, end) = "eof"
      BY <2>5, <3>1 DEF ChunkHeader
    <3>3. EndAt(f, {}, end) = "eof"
      BY <3>2 DEF EndAt
    <3>4. EndAt(f, {}, end) # "more"
      BY <3>3
    <3>5. Scan(f, {})[end] = Ending(EndAt(f, {}, end), end)
      BY <1>9, <3>1, <3>4, ScanSteps
    <3>6. QED
      BY <2>6, <3>3, <3>5
  <2>9. last.end = "eof" /\ last.chunks = <<>>
    BY <2>8 DEF Ending
  <2>10. after \o <<>> = after
    BY <1>8
  <2>11. QED
    BY <2>7, <2>9, <2>10
<1>20. FormatRead(f) = fmt.data
  BY <1>2, <1>18 DEF FormatRead
<1>21. Readable(f)
  <2>1. RiffError(f) = "none"
    BY <1>8, RiffWritten
  <2>2. fmt.data # <<>>
    BY DEF FormatFits
  <2>3. AfterData(f) - 1 <= Len(f)
    <3>1. PICK l \in Nat : l = Len(f)
      BY <1>9
    <3>2. PICK b : b = AfterData(f)
      OBVIOUS
    <3>3. b \in 1..(l + 1)
      BY <1>15, <1>18, <3>1, <3>2
    <3>4. b - 1 <= l
      BY <3>3
    <3>5. QED
      BY <3>1, <3>2, <3>4
  <2>4. QED
    BY <1>2, <1>18, <1>19, <1>20, <2>1, <2>2, <2>3 DEF Readable
<1>22. (at + 8) + SizeAt(f, at) - 1 = at + 7 + SizeAt(f, at)
  BY <1>16
<1>23. SubSeq(f, Preamble(f).at + 8, (Preamble(f).at + 8) + DataSize(f) - 1) = d.data
  BY <1>16, <1>18, <1>22
<1>24. /\ Sorted(Preamble(f).chunks).before_fmt = before
       /\ Sorted(Preamble(f).chunks).before_data = between
  BY <1>2, <1>18
<1>25. QED
  BY <1>19, <1>20, <1>21, <1>23, <1>24 DEF ValueRead, ReadsAs

-----------------------------------------------------------------------------
(* A value that was read is written back *)

\* The parts of a value that can be written and read again.
ReadWell(w) ==
    /\ w.chunks_before_fmt \in Seq(Kept) /\ w.chunks_before_data \in Seq(Kept)
    /\ w.chunks_after_data \in Seq(Proper)
    /\ w.data \in Seq(Byte) /\ Len(w.data) < Limit

\* The sizes of what stands around the format.
Around(w) ==
    (TotalSize(w.chunks_before_fmt) + TotalSize(w.chunks_before_data))
    + (Len(w.data) + TotalSize(w.chunks_after_data))

LEMMA SizesAround ==
    ASSUME NEW w, ReadWell(w)
    PROVE  /\ TotalSize(w.chunks_before_fmt) \in Nat /\ TotalSize(w.chunks_before_data) \in Nat
           /\ TotalSize(w.chunks_after_data) \in Nat /\ Len(w.data) \in Nat
           /\ Around(w) \in Nat
<1>1. /\ w.chunks_before_fmt \in Seq(Chunks) /\ w.chunks_before_data \in Seq(Chunks)
      /\ w.chunks_after_data \in Seq(Chunks) /\ Len(w.data) \in Nat
  BY ProperChunks DEF ReadWell
<1>2. /\ TotalSize(w.chunks_before_fmt) \in Nat /\ TotalSize(w.chunks_before_data) \in Nat
      /\ TotalSize(w.chunks_after_data) \in Nat
  BY <1>1, TotalSizes
<1>3. QED
  BY <1>1, <1>2 DEF Around

LEMMA ValueWell ==
    ASSUME NEW bytes \in Seq(Byte), Readable(bytes)
    PROVE  /\ ReadWell(ValueRead(bytes))
           /\ FormatRead(bytes) \in Seq(Byte) /\ FormatFits(FormatRead(bytes))
           /\ Around(ValueRead(bytes)) + Len(FormatRead(bytes)) <= Len(bytes)
<1>1. /\ RiffError(bytes) = "none" /\ Preamble(bytes).end = "data"
      /\ FormatsFit(Preamble(bytes).chunks) /\ FormatRead(bytes) # <<>>
      /\ AfterData(bytes) - 1 <= Len(bytes)
  BY DEF Readable
<1>2. PICK w : w = ValueRead(bytes)
  OBVIOUS
<1>3. PICK scan : scan = Preamble(bytes)
  OBVIOUS
<1>4. PICK at : at = scan.at
  OBVIOUS
<1>5. PICK l \in Nat : l = Len(bytes)
  OBVIOUS
<1>6. PICK size : size = DataSize(bytes)
  OBVIOUS
<1>7. /\ scan \in Scans /\ at \in Nat \ {0} /\ at + 7 <= l
      /\ size \in Nat /\ size < Limit
      /\ AfterData(bytes) \in Nat /\ AfterData(bytes) >= at + 8 + size
  BY <1>1, <1>3, <1>4, <1>5, <1>6, DataPlace
<1>8. PICK p : Walks(bytes, {DATA}, 13, scan, p)
  <2>1. 13 \in 1..(Len(bytes) + 1)
    BY <1>1, RiffErrors
  <2>2. \E p : Walks(bytes, {DATA}, 13, Scan(bytes, {DATA})[13], p)
    BY <2>1, ScanWalks
  <2>3. QED
    BY <1>3, <2>2 DEF Preamble
<1>9. /\ Row(bytes, p, scan.chunks) /\ None(scan.chunks, {DATA})
      /\ p[0] = 13 /\ p[Len(scan.chunks)] = at
  BY <1>4, <1>8 DEF Walks
<1>10. scan.chunks \in Seq(Chunks)
  BY <1>7 DEF Scans
<1>11. scan.chunks \in Seq(Proper)
  BY <1>9, <1>10, RowProper
<1>12. at = 13 + TotalSize(scan.chunks) /\ TotalSize(scan.chunks) \in Nat
  <2>1. p[Len(scan.chunks)] = p[0] + TotalSize(scan.chunks)
    BY <1>9, <1>10, RowSizes
  <2>2. TotalSize(scan.chunks) \in Nat
    BY <1>10, TotalSizes
  <2>3. QED
    BY <1>9, <2>1, <2>2
<1>13. PICK sorted : sorted = Sorted(scan.chunks)
  OBVIOUS
<1>14. /\ sorted \in Sortings
       /\ sorted.before_fmt \in Seq(Kept) /\ sorted.before_data \in Seq(Kept)
       /\ (TotalSize(sorted.before_fmt) + TotalSize(sorted.before_data)) + Len(sorted.format)
          <= TotalSize(scan.chunks)
       /\ sorted.format # <<>> =>
              \E j \in DOMAIN scan.chunks : /\ scan.chunks[j].chunk_id = FMT
                                            /\ scan.chunks[j].data = sorted.format
  BY <1>9, <1>11, <1>13, SortedParts DEF SortedWell
<1>15. FormatRead(bytes) = sorted.format
  BY <1>3, <1>13 DEF FormatRead
<1>16. FormatRead(bytes) \in Seq(Byte)
  BY <1>14, <1>15 DEF Sortings
<1>17. FormatFits(FormatRead(bytes))
  BY <1>1, <1>3, <1>14, <1>15 DEF FormatsFit
<1>18. PICK after : after = Trailing(bytes)
  OBVIOUS
<1>19. PICK b \in 1..(Len(bytes) + 1) : b = AfterData(bytes)
  <2>1. PICK b \in Nat : b = AfterData(bytes)
    BY <1>7
  <2>2. b \in 1..(l + 1)
    BY <1>1, <1>5, <1>7, <2>1
  <2>3. QED
    BY <1>5, <2>1, <2>2
<1>20. after \in Scans
  BY <1>18, <1>19, BehindEnds DEF Trailing
<1>21. after.chunks \in Seq(Chunks)
  BY <1>20 DEF Scans
<1>22. PICK q : Walks(bytes, {}, b, after, q)
  <2>1. \E p2 : Walks(bytes, {}, b, Scan(bytes, {})[b], p2)
    BY <1>19, ScanWalks
  <2>2. QED
    BY <1>18, <1>19, <2>1 DEF Trailing
<1>23. /\ Row(bytes, q, after.chunks) /\ q[0] = b /\ q[Len(after.chunks)] = after.at
       /\ q \in [0..Len(after.chunks) -> 1..(Len(bytes) + 1)]
  BY <1>22 DEF Walks, Row
<1>24. after.chunks \in Seq(Proper)
  BY <1>21, <1>23, RowProper
<1>25. after.at = b + TotalSize(after.chunks) /\ TotalSize(after.chunks) \in Nat
  BY <1>21, <1>23, RowSizes, TotalSizes
<1>26. after.at \in 1..(Len(bytes) + 1)
  <2>1. Len(after.chunks) \in 0..Len(after.chunks)
    BY <1>21
  <2>2. q[Len(after.chunks)] \in 1..(Len(bytes) + 1)
    BY <1>23, <2>1
  <2>3. QED
    BY <1>23, <2>2
<1>27. w.data \in Seq(Byte) /\ Len(w.data) = size
  <2>1. PICK m \in Nat \ {0} : m = at + 8
    BY <1>7
  <2>2. PICK n \in Nat : n = (at + 8) + size - 1
    BY <1>7
  <2>3. m <= n + 1 /\ n <= Len(bytes) /\ (n - m) + 1 = size
    BY <1>1, <1>5, <1>7, <2>1, <2>2
  <2>4. SubSeq(bytes, m, n) \in Seq(Byte) /\ Len(SubSeq(bytes, m, n)) = (n - m) + 1
    BY <2>3, Pieces
  <2>5. w.data = SubSeq(bytes, m, n)
    BY <1>2, <1>3, <1>4, <1>6, <2>1, <2>2 DEF ValueRead
  <2>6. QED
    BY <2>3, <2>4, <2>5
<1>28. /\ w.chunks_before_fmt = sorted.before_fmt /\ w.chunks_before_data = sorted.before_data
       /\ w.chunks_after_data = after.chunks
  BY <1>2, <1>3, <1>13, <1>18 DEF ValueRead
<1>29. ReadWell(w)
  BY <1>7, <1>14, <1>24, <1>27, <1>28 DEF ReadWell
<1>30. Around(w) + Len(FormatRead(bytes)) <= l
  <2>1. PICK x1 \in Nat : x1 = TotalSize(w.chunks_before_fmt)
    BY <1>29, SizesAround
  <2>2. PICK x2 \in Nat : x2 = TotalSize(w.chunks_before_data)
    BY <1>29, SizesAround
  <2>3. PICK x3 \in Nat : x3 = TotalSize(w.chunks_after_data)
    BY <1>29, SizesAround
  <2>4. PICK x4 \in Nat : x4 = Len(FormatRead(bytes))
    BY <1>16
  <2>5. Around(w) = (x1 + x2) + (size + x3)
    BY <1>27, <2>1, <2>2, <2>3 DEF Around
  <2>6. (x1 + x2) + x4 <= at - 13
    <3>1. PICK t \in Nat : t = TotalSize(scan.chunks)
      BY <1>12
    <3>2. (x1 + x2) + x4 <= t
      BY <1>14, <1>15, <1>28, <2>1, <2>2, <2>4, <3>1
    <3>3. at = 13 + t
      BY <1>12, <3>1
    <3>4. QED
      BY <3>2, <3>3
  <2>7. b + x3 <= l + 1
    <3>1. PICK y \in Nat : y = after.at /\ y <= l + 1
      BY <1>5, <1>26
    <3>2. y = b + x3
      BY <1>25, <1>28, <2>3, <3>1
    <3>3. QED
      BY <3>1, <3>2
  <2>8. b \in Nat /\ b >= at + 8 + size
    BY <1>7, <1>19
  <2>9. QED
    BY <1>7, <2>4, <2>5, <2>6, <2>7, <2>8
<1>31. QED
  BY <1>2, <1>5, <1>16, <1>17, <1>29, <1>30

\* A value whose format fits is written as a file that reads as it.
WritesBack(w, f) ==
    /\ f \in Seq(Byte) /\ U32(f, 5) = Len(f) - 8
    /\ Readable(f)
    /\ ValueRead(f)
       = [header |-> w.header,
          fmt_extension |->
              SubSeq(FormatChunk(w.header, w.fmt_extension).data, 17,
                     Len(FormatChunk(w.header, w.fmt_extension).data)),
          chunks_before_fmt |-> w.chunks_before_fmt, chunks_before_data |-> w.chunks_before_data,
          data |-> w.data, chunks_after_data |-> w.chunks_after_data]

SizedSo(chunks, a, x, b, y, c) ==
    TotalSize(chunks) = (TotalSize(a) + TotalSize(b))
                        + ((SerializedSize(x) + SerializedSize(y)) + TotalSize(c))

LEMMA ChunksSize ==
    ASSUME NEW a \in Seq(Chunks), NEW x \in Chunks, NEW b \in Seq(Chunks), NEW y \in Chunks,
           NEW c \in Seq(Chunks), NEW chunks, Ordered(chunks, a, x, b, y, c)
    PROVE  SizedSo(chunks, a, x, b, y, c)
<1>1. PICK q1 : q1 = Append(a, x)
  OBVIOUS
<1>2. q1 = a \o <<x>> /\ q1 \in Seq(Chunks)
  BY <1>1
<1>3. PICK q2 : q2 = q1 \o b
  OBVIOUS
<1>4. q2 \in Seq(Chunks)
  BY <1>2, <1>3
<1>5. PICK q3 : q3 = Append(q2, y)
  OBVIOUS
<1>6. q3 = q2 \o <<y>> /\ q3 \in Seq(Chunks)
  BY <1>4, <1>5
<1>7. TotalSize(q1) = TotalSize(a) + SerializedSize(x)
  BY <1>1, SizeAppend
<1>8. TotalSize(q2) = TotalSize(q1) + TotalSize(b)
  BY <1>2, <1>3, SizeJoin
<1>9. TotalSize(q3) = TotalSize(q2) + SerializedSize(y)
  BY <1>4, <1>5, SizeAppend
<1>10. TotalSize(q3 \o c) = TotalSize(q3) + TotalSize(c)
  BY <1>6, SizeJoin
<1>11. /\ TotalSize(a) \in Nat /\ TotalSize(b) \in Nat /\ TotalSize(c) \in Nat
       /\ SerializedSize(x) \in Nat /\ SerializedSize(y) \in Nat
  BY TotalSizes, SerializedSizes
<1>12. TotalSize(q3 \o c)
       = (TotalSize(a) + TotalSize(b)) + ((SerializedSize(x) + SerializedSize(y)) + TotalSize(c))
  BY <1>7, <1>8, <1>9, <1>10, <1>11
<1>13. a \o <<x>> \o b \o <<y>> \o c = q3 \o c
  BY <1>2, <1>3, <1>6
<1>14. QED
  BY <1>12, <1>13 DEF Ordered, SizedSo

LEMMA SizeAtMost ==
    ASSUME NEW c \in Chunks
    PROVE  SerializedSize(c) \in Nat /\ SerializedSize(c) <= Len(c.data) + 9
<1>1. Len(c.data) \in Nat
  BY DEF Chunks
<1>2. PICK l \in Nat : l = Len(c.data)
  BY <1>1
<1>3. PICK r \in Nat : r = l % 2 /\ r <= 1
  <2>1. l % 2 \in Nat /\ l % 2 <= 1
    OBVIOUS
  <2>2. QED
    BY <2>1
<1>4. PICK s : s = SerializedSize(c)
  OBVIOUS
<1>5. s = 8 + (l + r)
  BY <1>2, <1>3, <1>4, SerializedSizes
<1>6. s \in Nat /\ s <= l + 9
  BY <1>3, <1>5
<1>7. QED
  BY <1>2, <1>4, <1>6

LEMMA WritingBack ==
    ASSUME NEW w, ReadWell(w),
           NEW fmt, fmt = FormatChunk(w.header, w.fmt_extension).data,
           fmt \in Seq(Byte), FormatFits(fmt), HeaderOf(fmt) = w.header,
           (Around(w) + Len(fmt)) + 22 < Limit
    PROVE  WritesBack(w, WriteWav(w))
<1>1. PICK x : x = FormatChunk(w.header, w.fmt_extension)
  OBVIOUS
<1>2. PICK d : d = [chunk_id |-> DATA, data |-> w.data]
  OBVIOUS
<1>3. PICK chunks : chunks = ChunksOf(w)
  OBVIOUS
<1>4. PICK n \in Nat : n = Len(fmt)
  OBVIOUS
<1>5. PICK g \in Nat : g = Len(w.data)
  BY DEF ReadWell
<1>6. PICK around \in Nat : around = Around(w)
  BY SizesAround
<1>7. (around + n) + 22 < Limit
  BY <1>4, <1>6
<1>8. FMT \in Seq(Byte) /\ Len(FMT) = 4 /\ DATA \in Seq(Byte) /\ Len(DATA) = 4
  BY DEF FMT, DATA, Byte
<1>9. n < Limit
  BY <1>7 DEF Limit
<1>10. x = [chunk_id |-> FMT, data |-> fmt]
  BY <1>1 DEF FormatChunk
<1>11. x \in Proper /\ x.chunk_id = FMT /\ x.data = fmt
  BY <1>4, <1>8, <1>9, <1>10 DEF Proper, Chunks
<1>12. d \in Proper /\ d.chunk_id = DATA /\ d.data = w.data
  BY <1>2, <1>8 DEF Proper, Chunks, ReadWell
<1>13. /\ w.chunks_before_fmt \in Seq(Kept) /\ w.chunks_before_data \in Seq(Kept)
       /\ w.chunks_after_data \in Seq(Proper)
  BY DEF ReadWell
<1>14. chunks = w.chunks_before_fmt \o <<x>> \o w.chunks_before_data \o <<d>>
                \o w.chunks_after_data
  BY <1>1, <1>2, <1>3 DEF ChunksOf
<1>15. PICK a : a = w.chunks_before_fmt
  OBVIOUS
<1>16. PICK b : b = w.chunks_before_data
  OBVIOUS
<1>17. PICK c : c = w.chunks_after_data
  OBVIOUS
<1>18. /\ a \in Seq(Kept) /\ b \in Seq(Kept) /\ c \in Seq(Proper)
       /\ a \in Seq(Proper) /\ b \in Seq(Proper)
       /\ a \in Seq(Chunks) /\ b \in Seq(Chunks) /\ c \in Seq(Chunks)
       /\ x \in Chunks /\ d \in Chunks
  BY <1>11, <1>12, <1>13, <1>15, <1>16, <1>17, ProperChunks
<1>19. Ordered(chunks, a, x, b, d, c)
  BY <1>14, <1>15, <1>16, <1>17 DEF Ordered
<1>20. chunks \in Seq(Proper) /\ chunks \in Seq(Chunks)
  <2>1. <<x>> \in Seq(Proper) /\ <<d>> \in Seq(Proper)
    BY <1>11, <1>12
  <2>2. a \o <<x>> \o b \o <<d>> \o c \in Seq(Proper)
    BY <1>18, <2>1
  <2>3. QED
    BY <1>19, <2>2, ProperChunks DEF Ordered
<1>21. PICK f : f = WriteWav(w)
  OBVIOUS
<1>22. Lies(f, chunks)
  BY <1>3, <1>20, <1>21, WrittenIs, FileLies
<1>23. /\ Readable(f)
       /\ ValueRead(f) = [header |-> HeaderOf(fmt), fmt_extension |-> SubSeq(fmt, 17, Len(fmt)),
                          chunks_before_fmt |-> a, chunks_before_data |-> b,
                          data |-> w.data, chunks_after_data |-> c]
  <2>1. FormatFits(x.data)
    BY <1>11
  <2>2. ReadsAs(f, x.data, a, b, d.data, c)
    BY <1>11, <1>12, <1>18, <1>19, <1>22, <2>1, WrittenRead
  <2>3. x.data = fmt /\ d.data = w.data
    BY <1>11, <1>12
  <2>4. QED
    BY <2>2, <2>3 DEF ReadsAs
<1>24. f \in Seq(Byte) /\ U32(f, 5) = Len(f) - 8
  <2>1. PICK t \in Nat : t = TotalSize(chunks)
    BY <1>20, TotalSizes
  <2>2. f \in Seq(Byte) /\ Len(f) = 12 + t
        /\ \A i \in 1..4 : f[4 + i] = LE(4 + t, 4)[i]
    BY <1>22, <2>1 DEF Lies
  <2>3. 4 + t < Limit
    <3>1. PICK t1 \in Nat : t1 = TotalSize(a)
      BY <1>18, TotalSizes
    <3>2. PICK t2 \in Nat : t2 = TotalSize(b)
      BY <1>18, TotalSizes
    <3>3. PICK t3 \in Nat : t3 = TotalSize(c)
      BY <1>18, TotalSizes
    <3>4. PICK s1 \in Nat : s1 = SerializedSize(x) /\ s1 <= n + 9
      BY <1>4, <1>11, <1>18, SizeAtMost
    <3>5. PICK s2 \in Nat : s2 = SerializedSize(d) /\ s2 <= g + 9
      BY <1>5, <1>12, <1>18, SizeAtMost
    <3>6. t = (t1 + t2) + ((s1 + s2) + t3)
      <4>1. TotalSize(chunks) = (TotalSize(a) + TotalSize(b))
                                + ((SerializedSize(x) + SerializedSize(d)) + TotalSize(c))
        BY <1>18, <1>19, ChunksSize DEF SizedSo
      <4>2. QED
        BY <2>1, <3>1, <3>2, <3>3, <3>4, <3>5, <4>1
    <3>7. around = (t1 + t2) + (g + t3)
      BY <1>5, <1>6, <1>15, <1>16, <1>17, <3>1, <3>2, <3>3 DEF Around
    <3>8. 4 + t <= (around + n) + 22
      <4>1. s1 <= n + 9 /\ s2 <= g + 9
        BY <3>4, <3>5
      <4>2. (t1 + t2) + ((s1 + s2) + t3) <= ((((t1 + t2) + (g + t3)) + n) + 18)
        BY <4>1
      <4>3. QED
        BY <3>6, <3>7, <4>2
    <3>9. QED
      BY <1>7, <3>8 DEF Limit
  <2>4. PICK m \in Nat : m = 4 + t
    OBVIOUS
  <2>5. PICK p \in Nat : p = 5
    OBVIOUS
  <2>6. /\ f[p] = LE(m, 4)[1] /\ f[p + 1] = LE(m, 4)[2]
        /\ f[p + 2] = LE(m, 4)[3] /\ f[p + 3] = LE(m, 4)[4]
    <3>1. f[4 + 1] = LE(m, 4)[1] /\ f[4 + 2] = LE(m, 4)[2] /\ f[4 + 3] = LE(m, 4)[3]
          /\ f[4 + 4] = LE(m, 4)[4]
      BY <2>2, <2>4
    <3>2. p = 4 + 1 /\ p + 1 = 4 + 2 /\ p + 2 = 4 + 3 /\ p + 3 = 4 + 4
      BY <2>5
    <3>3. QED
      BY <3>1, <3>2
  <2>7. U32(f, p) = m
    BY <2>3, <2>4, <2>6, FourBytesBack
  <2>8. Len(f) - 8 = m
    BY <2>2, <2>4
  <2>9. QED
    BY <2>2, <2>5, <2>7, <2>8
<1>25. QED
  BY <1>15, <1>16, <1>17, <1>21, <1>23, <1>24 DEF WritesBack

LEMMA HalfLimit == 2^30 = 1073741824
BY SMT

\* A header that was read from a format without an extension.
LEMMA PlainRead ==
    ASSUME NEW was \in Seq(Byte), FormatFits(was), SubSeq(was, 17, Len(was)) = <<>>
    PROVE  Plain(HeaderOf(was))
<1>1. PICK l \in Nat : l = Len(was)
  OBVIOUS
<1>2. 16 <= l /\ (U16(was, 1) = EXTENSIBLE => 40 <= l)
  BY <1>1 DEF FormatFits
<1>3. PICK q : q = SubSeq(was, 17, Len(was))
  OBVIOUS
<1>4. Len(q) = l - 16
  <2>1. Piece(SubSeq(was, 17, Len(was)), was, 16, Len(was) - 16)
    BY <1>1, <1>2, ExtensionPiece
  <2>2. QED
    BY <1>1, <1>3, <2>1 DEF Piece
<1>5. l - 16 = 0
  <2>1. Len(q) = 0
    BY <1>3
  <2>2. QED
    BY <1>4, <2>1
<1>6. U16(was, 1) # EXTENSIBLE
  BY <1>2, <1>5
<1>7. HeaderOf(was) = [channels |-> U16(was, 3), sample_rate |-> U32(was, 5),
                       bits_per_sample |-> U16(was, 15),
                       valid_bits_per_sample |-> ValidOf(was),
                       audio_format |-> EncodingOf(was)]
  BY HeaderIs
<1>8. ValidOf(was) = U16(was, 15) /\ EncodingOf(was) = AudioFormat(U16(was, 1))
  BY <1>6 DEF ValidOf, EncodingOf
<1>9. AudioFormat(U16(was, 1)).tag = U16(was, 1)
  BY AudioFormats
<1>10. HeaderOf(was) \in WavHeaders
  BY HeaderRead
<1>11. QED
  BY <1>6, <1>7, <1>8, <1>9, <1>10 DEF Plain

\* A value that was read is written back, under the tag it was read with, or without
\* an extension.
LEMMA Rewritten ==
    ASSUME NEW bytes \in Seq(Byte), Len(bytes) < 2^30, Readable(bytes),
           NEW w, w = ValueRead(bytes),
           \/ w.fmt_extension = <<>>
           \/ U16(FormatChunk(w.header, w.fmt_extension).data, 1) = U16(FormatRead(bytes), 1)
    PROVE  /\ WritesBack(w, WriteWav(w))
           /\ w.fmt_extension # <<>> =>
                  SubSeq(FormatChunk(w.header, w.fmt_extension).data, 17,
                         Len(FormatChunk(w.header, w.fmt_extension).data))
                  = w.fmt_extension
<1>1. PICK was : was = FormatRead(bytes)
  OBVIOUS
<1>2. /\ ReadWell(w) /\ was \in Seq(Byte) /\ FormatFits(was)
      /\ Around(w) + Len(was) <= Len(bytes)
  BY <1>1, ValueWell
<1>3. w.header = HeaderOf(was) /\ w.fmt_extension = SubSeq(was, 17, Len(was))
  BY <1>1 DEF ValueRead
<1>4. PICK l \in Nat : l = Len(bytes) /\ l < 1073741824
  BY HalfLimit
<1>5. PICK around \in Nat : around = Around(w)
  BY <1>2, SizesAround
<1>6. PICK k \in Nat : k = Len(was)
  BY <1>2
<1>7. around + k <= l
  BY <1>2, <1>4, <1>5, <1>6
<1>8. PICK fmt : fmt = FormatChunk(w.header, w.fmt_extension).data
  OBVIOUS
<1>9. CASE w.fmt_extension # <<>>
  <2>1. U16(FormatChunk(HeaderOf(was), w.fmt_extension).data, 1) = U16(was, 1)
    BY <1>1, <1>3, <1>9
  <2>2. /\ fmt \in Seq(Byte) /\ Len(fmt) = Len(was)
        /\ FormatFits(fmt) /\ HeaderOf(fmt) = HeaderOf(was)
        /\ SubSeq(fmt, 17, Len(fmt)) = w.fmt_extension
    <3>1. PICK e : e = w.fmt_extension
      OBVIOUS
    <3>2. /\ e = SubSeq(was, 17, Len(was)) /\ e # <<>>
          /\ U16(FormatChunk(HeaderOf(was), e).data, 1) = U16(was, 1)
      BY <1>3, <1>9, <2>1, <3>1
    <3>3. PICK d : d = FormatChunk(HeaderOf(was), e).data
      OBVIOUS
    <3>4. /\ d \in Seq(Byte) /\ Len(d) = Len(was)
          /\ FormatFits(d) /\ HeaderOf(d) = HeaderOf(was)
          /\ SubSeq(d, 17, Len(d)) = e
      BY <1>2, <3>2, <3>3, ExtensionBack
    <3>5. d = fmt
      BY <1>3, <1>8, <3>1, <3>3
    <3>6. QED
      BY <3>1, <3>4, <3>5
  <2>3. (Around(w) + Len(fmt)) + 22 < Limit
    <3>1. (around + k) + 22 < Limit
      BY <1>4, <1>7 DEF Limit
    <3>2. QED
      BY <1>5, <1>6, <2>2, <3>1
  <2>4. HeaderOf(fmt) = w.header
    BY <1>3, <2>2
  <2>5. WritesBack(w, WriteWav(w))
    BY <1>2, <1>8, <2>2, <2>3, <2>4, WritingBack
  <2>6. QED
    BY <1>8, <2>2, <2>5
<1>10. CASE w.fmt_extension = <<>>
  <2>1. Plain(w.header)
    BY <1>2, <1>3, <1>10, PlainRead
  <2>2. fmt = FormatChunk(w.header, <<>>).data
    BY <1>8, <1>10
  <2>3. /\ fmt \in Seq(Byte) /\ 16 <= Len(fmt) /\ Len(fmt) <= 40
        /\ FormatFits(fmt) /\ HeaderOf(fmt) = w.header
    BY <2>1, <2>2, PlainBack
  <2>4. (Around(w) + Len(fmt)) + 22 < Limit
    <3>1. PICK n \in Nat : n = Len(fmt)
      BY <2>3
    <3>2. n <= 40
      BY <2>3, <3>1
    <3>3. (around + n) + 22 < Limit
      BY <1>4, <1>7, <3>2 DEF Limit
    <3>4. QED
      BY <1>5, <3>1, <3>3
  <2>5. WritesBack(w, WriteWav(w))
    BY <1>2, <1>8, <2>3, <2>4, WritingBack
  <2>6. QED
    BY <1>10, <2>5
<1>11. QED
  BY <1>9, <1>10

\* The statement of RewritingKeeps for one file.
LEMMA RewritingOf ==
    ASSUME NEW bytes \in Seq(Byte), Len(bytes) < 2^30,
           NEW read, read = ReadWav(bytes), read.outcome = "Wav",
           \/ read.wav.fmt_extension = <<>>
           \/ WrittenTag(read.wav) = U16(FormatRead(bytes), 1),
           NEW f, f = WriteWav(read.wav), NEW again, again = ReadWav(f)
    PROVE  /\ U32(f, 5) = Len(f) - 8
           /\ again.outcome = "Wav"
           /\ [again.wav EXCEPT !.fmt_extension = <<>>] = [read.wav EXCEPT !.fmt_extension = <<>>]
           /\ read.wav.fmt_extension # <<>> =>
                  again.wav.fmt_extension = read.wav.fmt_extension
<1>1. Readable(bytes) /\ read.wav = ValueRead(bytes)
  BY WavRead
<1>2. PICK w : w = read.wav
  OBVIOUS
<1>3. PICK ext : ext = SubSeq(FormatChunk(w.header, w.fmt_extension).data, 17,
                              Len(FormatChunk(w.header, w.fmt_extension).data))
  OBVIOUS
<1>4. WritesBack(w, f) /\ (w.fmt_extension # <<>> => ext = w.fmt_extension)
  <2>1. \/ w.fmt_extension = <<>>
        \/ U16(FormatChunk(w.header, w.fmt_extension).data, 1) = U16(FormatRead(bytes), 1)
    BY <1>2 DEF WrittenTag
  <2>2. w = ValueRead(bytes) /\ f = WriteWav(w)
    BY <1>1, <1>2
  <2>3. /\ WritesBack(w, WriteWav(w))
        /\ w.fmt_extension # <<>> =>
               SubSeq(FormatChunk(w.header, w.fmt_extension).data, 17,
                      Len(FormatChunk(w.header, w.fmt_extension).data))
               = w.fmt_extension
    BY <1>1, <2>1, <2>2, Rewritten
  <2>4. QED
    BY <1>3, <2>2, <2>3
<1>5. /\ f \in Seq(Byte) /\ U32(f, 5) = Len(f) - 8 /\ Readable(f)
      /\ ValueRead(f) = [header |-> w.header, fmt_extension |-> ext,
                         chunks_before_fmt |-> w.chunks_before_fmt,
                         chunks_before_data |-> w.chunks_before_data,
                         data |-> w.data, chunks_after_data |-> w.chunks_after_data]
  BY <1>3, <1>4 DEF WritesBack
<1>6. again.outcome = "Wav" /\ again.wav = ValueRead(f)
  BY <1>5, WavRead
<1>7. w = [header |-> w.header, fmt_extension |-> w.fmt_extension,
           chunks_before_fmt |-> w.chunks_before_fmt,
           chunks_before_data |-> w.chunks_before_data,
           data |-> w.data, chunks_after_data |-> w.chunks_after_data]
  BY <1>1, <1>2, ValueFields
<1>8. [again.wav EXCEPT !.fmt_extension = <<>>] = [w EXCEPT !.fmt_extension = <<>>]
  <2>1. [again.wav EXCEPT !.fmt_extension = <<>>]
        = [header |-> w.header, fmt_extension |-> <<>>,
           chunks_before_fmt |-> w.chunks_before_fmt,
           chunks_before_data |-> w.chunks_before_data,
           data |-> w.data, chunks_after_data |-> w.chunks_after_data]
    BY <1>5, <1>6
  <2>2. [w EXCEPT !.fmt_extension = <<>>]
        = [header |-> w.header, fmt_extension |-> <<>>,
           chunks_before_fmt |-> w.chunks_before_fmt,
           chunks_before_data |-> w.chunks_before_data,
           data |-> w.data, chunks_after_data |-> w.chunks_after_data]
    BY <1>7
  <2>3. QED
    BY <2>1, <2>2
<1>9. again.wav.fmt_extension = ext
  BY <1>5, <1>6
<1>10. QED
  BY <1>2, <1>4, <1>5, <1>6, <1>8, <1>9

\* A WAV file that was read is written as a file that reads as the same format, the
\* same samples and the same chunks in their order, and whose size is exact
\* (TestPayload!RewritingKeeps): for every file with every chunk, where the products of
\* its format fit.
THEOREM RewritingKeepsAlways == TestSpec => []RewritingKeeps
<1>1. TestInit => FileInv
  BY DEF TestInit, FileInv
<1>2. FileInv /\ [TestNext]_allVars => FileInv'
  BY FileStep
<1>3. FileInv => RewritingKeeps
  <2>1. ASSUME FileInv, stage = "load"
        PROVE  file \in Seq(Byte) /\ Len(file) < 2^30
    BY <2>1, PayloadAssumption DEF FileInv
  <2>2. ReadTag = U16(FormatRead(file), 1)
    BY DEF ReadTag, FormatRead, Preamble
  <2>3. QED
    BY <2>1, <2>2, RewritingOf, SMTT(60) DEF RewritingKeeps, TagIsKept
<1>4. QED
  BY <1>1, <1>2, <1>3, PTL DEF TestSpec

-----------------------------------------------------------------------------
(* Swapping the bytes of the samples *)

\* The place that a place changes with, in a sequence of that length.
Place(i, word, length) ==
    IF ((i - 1) \div word) * word + word <= length
    THEN ((2 * (((i - 1) \div word) * word)) + word) - (i - 1)
    ELSE i

Exchanged(i, word, length) ==
    /\ Place(i, word, length) \in 1..length
    /\ Place(Place(i, word, length), word, length) = i

LEMMA Places ==
    ASSUME NEW word \in {2, 3, 4}, NEW length \in Nat, NEW i \in 1..length
    PROVE  Exchanged(i, word, length)
<1>1. CASE word = 2
  BY <1>1, SMT DEF Place, Exchanged
<1>2. CASE word = 3
  BY <1>2, SMT DEF Place, Exchanged
<1>3. CASE word = 4
  BY <1>3, SMT DEF Place, Exchanged
<1>4. QED
  BY <1>1, <1>2, <1>3

LEMMA SwapIs ==
    ASSUME NEW bytes \in Seq(Byte), NEW word \in {2, 3, 4}
    PROVE  /\ SwapByteOrder(bytes, word) \in Seq(Byte)
           /\ Len(SwapByteOrder(bytes, word)) = Len(bytes)
           /\ \A i \in 1..Len(bytes) :
                  SwapByteOrder(bytes, word)[i] = bytes[Place(i, word, Len(bytes))]
<1>1. PICK l \in Nat : l = Len(bytes)
  OBVIOUS
<1>2. DOMAIN bytes = 1..l
  BY <1>1
<1>3. PICK q : q = SwapByteOrder(bytes, word)
  OBVIOUS
<1>4. ASSUME NEW i \in 1..l
      PROVE  q[i] = bytes[Place(i, word, l)] /\ q[i] \in Byte
  <2>1. PICK start \in Nat : start = ((i - 1) \div word) * word
    <3>1. CASE word = 2
      BY <3>1
    <3>2. CASE word = 3
      BY <3>2
    <3>3. CASE word = 4
      BY <3>3
    <3>4. QED
      BY <3>1, <3>2, <3>3
  <2>2. q[i] = IF start + word <= l THEN bytes[2 * start + word - i + 1] ELSE bytes[i]
    BY <1>1, <1>2, <1>3, <2>1 DEF SwapByteOrder
  <2>3. Place(i, word, l) = IF start + word <= l THEN ((2 * start) + word) - (i - 1) ELSE i
    BY <2>1 DEF Place
  <2>4. 2 * start + word - i + 1 = ((2 * start) + word) - (i - 1)
    OBVIOUS
  <2>5. q[i] = bytes[Place(i, word, l)]
    BY <2>2, <2>3, <2>4, Zenon
  <2>6. Place(i, word, l) \in 1..l
    BY Places DEF Exchanged
  <2>7. bytes[Place(i, word, l)] \in Byte
    BY <1>1, <2>6
  <2>8. QED
    BY <2>5, <2>7
<1>5. q = [i \in 1..l |-> q[i]]
  BY <1>2, <1>3 DEF SwapByteOrder
<1>6. q \in [1..l -> Byte]
  BY <1>4, <1>5
<1>7. q \in Seq(Byte) /\ Len(q) = l
  BY <1>6
<1>8. QED
  BY <1>1, <1>3, <1>4, <1>7

\* Swapped twice, the bytes are in their places again.
LEMMA SwapBack ==
    ASSUME NEW bytes \in Seq(Byte), NEW word \in {2, 3, 4}
    PROVE  SwapByteOrder(SwapByteOrder(bytes, word), word) = bytes
<1>1. PICK l \in Nat : l = Len(bytes)
  OBVIOUS
<1>2. PICK q : q = SwapByteOrder(bytes, word)
  OBVIOUS
<1>3. /\ q \in Seq(Byte) /\ Len(q) = l
      /\ \A i \in 1..l : q[i] = bytes[Place(i, word, l)]
  BY <1>1, <1>2, SwapIs
<1>4. PICK r : r = SwapByteOrder(q, word)
  OBVIOUS
<1>5. /\ r \in Seq(Byte) /\ Len(r) = l
      /\ \A i \in 1..l : r[i] = q[Place(i, word, l)]
  BY <1>3, <1>4, SwapIs
<1>6. ASSUME NEW i \in 1..l
      PROVE  r[i] = bytes[i]
  <2>1. PICK j : j = Place(i, word, l)
    OBVIOUS
  <2>7. Exchanged(i, word, l)
    BY Places
  <2>6. Place(i, word, l) \in 1..l /\ Place(Place(i, word, l), word, l) = i
    BY <2>7 DEF Exchanged
  <2>2. j \in 1..l /\ Place(j, word, l) = i
    BY <2>1, <2>6, Zenon
  <2>3. r[i] = q[j]
    BY <1>5, <2>1, Zenon
  <2>5. q[j] = bytes[Place(j, word, l)]
    BY <1>3, <2>2, Zenon
  <2>4. QED
    BY <2>2, <2>3, <2>5
<1>7. r = bytes
  <2>1. Len(r) = Len(bytes)
    BY <1>1, <1>5
  <2>2. \A i \in 1..Len(r) : r[i] = bytes[i]
    BY <1>5, <1>6
  <2>3. QED
    BY <1>5, <2>1, <2>2, SameWords
<1>8. QED
  BY <1>2, <1>4, <1>7

\* A sequence is its beginning and its rest.
Divides(q, taken, chunk, left) ==
    chunk = SubSeq(q, 1, taken) /\ left = SubSeq(q, taken + 1, Len(q))

LEMMA TakenAndRest ==
    ASSUME NEW rest1 \in Seq(Byte), NEW taken \in 0..Len(rest1), NEW chunk, NEW left,
           Divides(rest1, taken, chunk, left)
    PROVE  chunk \in Seq(Byte) /\ left \in Seq(Byte) /\ chunk \o left = rest1
<1>1. PICK l \in Nat : l = Len(rest1)
  OBVIOUS
<1>20. chunk = SubSeq(rest1, 1, taken) /\ left = SubSeq(rest1, taken + 1, Len(rest1))
  BY DEF Divides
<1>2. taken \in Nat /\ taken <= l
  BY <1>1
<1>3. /\ chunk \in Seq(Byte) /\ Len(chunk) = taken
      /\ \A i \in 1..taken : chunk[i] = rest1[i]
  <2>1. PICK o \in Nat \ {0} : o = 1
    OBVIOUS
  <2>2. o <= taken + 1 /\ taken <= Len(rest1) /\ (taken - o) + 1 = taken
        /\ \A i \in 1..taken : (o + i) - 1 = i
    BY <1>1, <1>2, <2>1
  <2>3. /\ SubSeq(rest1, o, taken) \in Seq(Byte)
        /\ Len(SubSeq(rest1, o, taken)) = (taken - o) + 1
        /\ \A i \in 1..((taken - o) + 1) : SubSeq(rest1, o, taken)[i] = rest1[(o + i) - 1]
    BY <1>2, <2>2, Pieces
  <2>4. QED
    BY <1>20, <2>1, <2>2, <2>3
<1>4. /\ left \in Seq(Byte) /\ Len(left) = l - taken
      /\ \A i \in 1..(l - taken) : left[i] = rest1[taken + i]
  <2>1. PICK o \in Nat \ {0} : o = taken + 1
    BY <1>2
  <2>2. o <= l + 1 /\ l <= Len(rest1) /\ (l - o) + 1 = l - taken
        /\ \A i \in 1..(l - taken) : (o + i) - 1 = taken + i
    BY <1>1, <1>2, <2>1
  <2>3. /\ SubSeq(rest1, o, l) \in Seq(Byte) /\ Len(SubSeq(rest1, o, l)) = (l - o) + 1
        /\ \A i \in 1..((l - o) + 1) : SubSeq(rest1, o, l)[i] = rest1[(o + i) - 1]
    BY <2>2, Pieces
  <2>4. QED
    BY <1>1, <1>20, <2>1, <2>2, <2>3
<1>5. PICK both : both = chunk \o left
  OBVIOUS
<1>6. /\ both \in Seq(Byte) /\ Len(both) = taken + (l - taken)
      /\ \A i \in 1..taken : both[i] = chunk[i]
      /\ \A i \in 1..(l - taken) : both[taken + i] = left[i]
  <2>1. PICK n : n = l - taken
    OBVIOUS
  <2>2. Joins(both, chunk, left) /\ Len(left) = n
    BY <1>4, <1>5, <2>1 DEF Joins
  <2>3. Parts(both, chunk, taken, left, n)
    BY <1>3, <1>4, <2>2, JoinedAt
  <2>4. QED
    BY <2>1, <2>3 DEF Parts
<1>7. Len(both) = l
  BY <1>1, <1>2, <1>3, <1>4, <1>6
<1>8. ASSUME NEW i \in 1..l
      PROVE  both[i] = rest1[i]
  <2>1. CASE i <= taken
    <3>1. i \in 1..taken
      BY <2>1
    <3>2. QED
      BY <1>3, <1>6, <3>1
  <2>2. CASE i > taken
    <3>1. PICK j \in 1..(l - taken) : i = taken + j
      <4>1. i - taken \in 1..(l - taken) /\ i = taken + (i - taken)
        BY <1>1, <1>2, <2>2
      <4>2. QED
        BY <4>1
    <3>2. left[j] = rest1[taken + j] /\ both[taken + j] = left[j]
      BY <1>3, <1>4, <1>6, <3>1
    <3>3. QED
      BY <3>1, <3>2
  <2>3. QED
    BY <1>2, <2>1, <2>2
<1>9. both = rest1
  <2>1. \A i \in 1..Len(both) : both[i] = rest1[i]
    BY <1>7, <1>8
  <2>2. QED
    BY <1>1, <1>6, <1>7, <2>1, SameWords
<1>10. QED
  BY <1>3, <1>4, <1>5, <1>9

-----------------------------------------------------------------------------
(* The formats of a test *)

\* A header that a test can send, and write.
Sendable(header) == Plain(header) /\ Supported(header)

LEMMA SupportedPlain ==
    ASSUME NEW d \in Seq(Byte), FormatFits(d), NEW header, header = HeaderOf(d),
           Supported(header)
    PROVE  Sendable(header)
<1>1. header \in WavHeaders
  BY HeaderRead
<1>2. header.valid_bits_per_sample # 0 /\ header.audio_format.kind \in {"Pcm", "IeeeFloat"}
  <2>1. header.valid_bits_per_sample # 0
    <3>1. header.valid_bits_per_sample \in 1..255
      BY DEF Supported
    <3>2. PICK v \in 1..255 : v = header.valid_bits_per_sample
      BY <3>1
    <3>3. v # 0
      OBVIOUS
    <3>4. QED
      BY <3>2, <3>3
  <2>2. FromWavHeader(header) # User
    BY DEF Supported
  <2>3. header.audio_format.kind = "Pcm" \/ header.audio_format.kind = "IeeeFloat"
    BY <2>2 DEF FromWavHeader
  <2>4. QED
    BY <2>1, <2>3
<1>3. header.audio_format = EncodingOf(d)
  BY HeaderIs
<1>4. PICK tag : EncodingOf(d) = AudioFormat(tag) \/ EncodingOf(d) = [kind |-> "Other", tag |-> tag]
  BY DEF EncodingOf
<1>5. EncodingOf(d) = AudioFormat(tag)
  BY <1>2, <1>3, <1>4
<1>6. /\ AudioFormat(tag).tag = tag
      /\ AudioFormat(tag).kind = "Pcm" => tag = 1
      /\ AudioFormat(tag).kind = "IeeeFloat" => tag = 3
  BY AudioFormats
<1>7. /\ header.audio_format = AudioFormat(header.audio_format.tag)
      /\ header.audio_format.tag # EXTENSIBLE
  BY <1>2, <1>3, <1>5, <1>6 DEF EXTENSIBLE
<1>8. QED
  BY <1>1, <1>2, <1>7 DEF Sendable, Plain

LEMMA ContainerSizes ==
    ASSUME NEW header, Supported(header)
    PROVE  ContainerBytes(header) \in {2, 3, 4} /\ FromWavHeader(header) \in PcmFormats
<1>1. header.bits_per_sample \in {16, 24, 32}
  BY DEF Supported, FromWavHeader
<1>2. 16 \div 8 = 2 /\ 24 \div 8 = 3 /\ 32 \div 8 = 4
  OBVIOUS
<1>3. ContainerBytes(header) \in {2, 3, 4}
  BY <1>1, <1>2 DEF ContainerBytes
<1>4. FromWavHeader(header) \in PcmFormats
  BY DEF FromWavHeader, PcmFormats, User, Float32Bit
<1>5. QED
  BY <1>3, <1>4

\* What load_wav takes from a file, when a test can send it.
LEMMA LoadWell ==
    ASSUME NEW bytes \in Seq(Byte), Len(bytes) < 2^30,
           NEW read, read = ReadWav(bytes), read.outcome = "Wav", Supported(read.wav.header)
    PROVE  /\ Sendable(read.wav.header)
           /\ read.wav.data \in Seq(Byte) /\ Len(read.wav.data) < 2^30
<1>1. Readable(bytes) /\ read.wav = ValueRead(bytes)
  BY WavRead
<1>2. PICK w : w = read.wav
  OBVIOUS
<1>3. PICK was : was = FormatRead(bytes)
  OBVIOUS
<1>4. /\ ReadWell(w) /\ was \in Seq(Byte) /\ FormatFits(was)
      /\ Around(w) + Len(was) <= Len(bytes)
  BY <1>1, <1>2, <1>3, ValueWell
<1>5. w.header = HeaderOf(was)
  BY <1>1, <1>2, <1>3 DEF ValueRead
<1>6. Sendable(w.header)
  BY <1>2, <1>4, <1>5, SupportedPlain
<1>7. w.data \in Seq(Byte)
  BY <1>4 DEF ReadWell
<1>8. Len(w.data) < 2^30
  <2>1. PICK l \in Nat : l = Len(bytes) /\ l < 1073741824
    BY HalfLimit
  <2>2. PICK k \in Nat : k = Len(was)
    BY <1>4
  <2>3. PICK a \in Nat : a = TotalSize(w.chunks_before_fmt)
    BY <1>4, SizesAround
  <2>4. PICK b \in Nat : b = TotalSize(w.chunks_before_data)
    BY <1>4, SizesAround
  <2>5. PICK c \in Nat : c = TotalSize(w.chunks_after_data)
    BY <1>4, SizesAround
  <2>6. PICK g \in Nat : g = Len(w.data)
    BY <1>4, SizesAround
  <2>7. Around(w) = (a + b) + (g + c)
    BY <2>3, <2>4, <2>5, <2>6 DEF Around
  <2>8. ((a + b) + (g + c)) + k <= l
    BY <1>4, <2>1, <2>2, <2>7
  <2>9. g < 1073741824
    BY <2>1, <2>8
  <2>10. QED
    BY <2>6, <2>9, HalfLimit
<1>9. QED
  BY <1>2, <1>6, <1>7, <1>8

\* What was presented, saved with the header of the file, reads as both.
LEMMA SavedReads ==
    ASSUME NEW header, Plain(header), NEW data \in Seq(Byte), Len(data) < 2^30,
           NEW f, f = WriteWav(FromHeaderAndData(header, data)),
           NEW again, again = ReadWav(f)
    PROVE  again.outcome = "Wav" /\ again.wav.header = header /\ again.wav.data = data
<1>1. PICK w : w = FromHeaderAndData(header, data)
  OBVIOUS
<1>2. /\ w.header = header /\ w.fmt_extension = <<>> /\ w.data = data
      /\ w.chunks_before_fmt = <<>> /\ w.chunks_before_data = <<>>
      /\ w.chunks_after_data = <<>>
  BY <1>1 DEF FromHeaderAndData
<1>3. PICK fmt : fmt = FormatChunk(w.header, w.fmt_extension).data
  OBVIOUS
<1>4. fmt = FormatChunk(header, <<>>).data
  BY <1>2, <1>3
<1>5. /\ fmt \in Seq(Byte) /\ 16 <= Len(fmt) /\ Len(fmt) <= 40
      /\ FormatFits(fmt) /\ HeaderOf(fmt) = header
  BY <1>4, PlainBack
<1>6. PICK g \in Nat : g = Len(data) /\ g < 1073741824
  BY HalfLimit
<1>7. ReadWell(w)
  <2>1. <<>> \in Seq(Kept) /\ <<>> \in Seq(Proper)
    OBVIOUS
  <2>2. g < Limit
    BY <1>6 DEF Limit
  <2>3. Len(w.data) < Limit
    BY <1>2, <1>6, <2>2
  <2>4. QED
    BY <1>2, <2>1, <2>3 DEF ReadWell
<1>8. (Around(w) + Len(fmt)) + 22 < Limit
  <2>1. TotalSize(<<>>) = 0
    BY SizeOfNone
  <2>2. Around(w) = (0 + 0) + (g + 0)
    BY <1>2, <1>6, <2>1 DEF Around
  <2>3. PICK n \in Nat : n = Len(fmt)
    BY <1>5
  <2>4. n <= 40
    BY <1>5, <2>3
  <2>5. (g + n) + 22 < Limit
    BY <1>6, <2>4 DEF Limit
  <2>6. Around(w) = g
    BY <2>2
  <2>7. QED
    BY <2>3, <2>5, <2>6
<1>9. WritesBack(w, f)
  <2>1. HeaderOf(fmt) = w.header
    BY <1>2, <1>5
  <2>2. WritesBack(w, WriteWav(w))
    BY <1>3, <1>5, <1>7, <1>8, <2>1, WritingBack
  <2>3. QED
    BY <1>1, <2>2
<1>10. /\ f \in Seq(Byte) /\ Readable(f)
       /\ ValueRead(f).header = header /\ ValueRead(f).data = data
  BY <1>2, <1>9 DEF WritesBack
<1>11. again.outcome = "Wav" /\ again.wav = ValueRead(f)
  BY <1>10, WavRead
<1>12. QED
  BY <1>10, <1>11

-----------------------------------------------------------------------------
(* The talker's packets *)

LEMMA Rates ==
    ASSUME NEW header, Supported(header)
    PROVE  FromHz(header.sample_rate) \in SampleRates
<1>1. PICK i \in DOMAIN Hertz : Hertz[i] = header.sample_rate
  BY DEF Supported
<1>2. FromHz(header.sample_rate) \in DOMAIN Hertz
  BY <1>1 DEF FromHz
<1>3. DOMAIN Hertz \subseteq SampleRates
  BY DEF Hertz, SampleRates
<1>4. QED
  BY <1>2, <1>3

LEMMA TalkerAafs ==
    ASSUME Supported(wav.header), NEW payload \in Seq(Byte), NEW aaf, aaf = TalkerAaf(payload)
    PROVE  /\ aaf \in PcmAafs
           /\ aaf.format_data.data.payload = payload
           /\ aaf.format_data.data.bit_depth = wav.header.valid_bits_per_sample
<1>1. PICK header : header = wav.header
  OBVIOUS
<1>2. PICK format : format = FromWavHeader(header)
  OBVIOUS
<1>3. PICK rate : rate = FromHz(header.sample_rate)
  OBVIOUS
<1>4. /\ format \in PcmFormats /\ rate \in SampleRates
      /\ header.channels \in {n \in Nat : n < 1024} /\ header.valid_bits_per_sample \in Byte
  <2>1. format \in PcmFormats
    BY <1>1, <1>2, ContainerSizes
  <2>2. rate \in SampleRates
    BY <1>1, <1>3, Rates
  <2>3. header.channels \in 1..1023 /\ header.valid_bits_per_sample \in 1..255
    BY <1>1 DEF Supported
  <2>4. header.channels \in {n \in Nat : n < 1024}
    <3>1. PICK v \in 1..1023 : v = header.channels
      BY <2>3
    <3>2. v \in {n \in Nat : n < 1024}
      OBVIOUS
    <3>3. QED
      BY <3>1, <3>2
  <2>5. header.valid_bits_per_sample \in Byte
    BY <2>3 DEF Byte
  <2>6. QED
    BY <2>1, <2>2, <2>4, <2>5
<1>5. PICK pcm : pcm = [format |-> format, nominal_sample_rate |-> rate,
                        channels_per_frame |-> header.channels,
                        bit_depth |-> header.valid_bits_per_sample, payload |-> payload]
  OBVIOUS
<1>6. pcm \in Pcms
  BY <1>4, <1>5 DEF Pcms
<1>7. PICK version : version = Bits(0, 3)
  OBVIOUS
<1>8. PICK events : events = Bits(0, 4)
  OBVIOUS
<1>9. version \in Word(3) /\ events \in Word(4)
  BY <1>7, <1>8, BitsAreWords
<1>10. PICK one \in Word(1), zero \in Word(1) : one = <<1>> /\ zero = <<0>>
  <2>1. PICK p, q : p = <<1>> /\ q = <<0>>
    OBVIOUS
  <2>2. p = [i \in 1..1 |-> 1] /\ q = [i \in 1..1 |-> 0]
    BY <2>1
  <2>3. p \in Word(1) /\ q \in Word(1)
    BY <2>2 DEF Word
  <2>4. QED
    BY <2>1, <2>3
<1>12. PICK common : common = [subtype |-> AAF, header_specific_bit |-> one,
                               version |-> version]
  OBVIOUS
<1>13. AAF \in Subtypes
  BY DEF AAF, Subtypes, StreamSubtypes
<1>14. common \in Commons
  BY <1>9, <1>12, <1>13 DEF Commons
<1>15. aaf = [valid |-> TRUE, common |-> common, stream_data |-> TalkerStream,
              format_data |-> [variant |-> "Pcm", data |-> pcm],
              sparse_timestamp |-> zero, event_flags |-> events]
  BY <1>1, <1>2, <1>3, <1>5, <1>7, <1>8, <1>10, <1>12 DEF TalkerAaf
<1>16. TalkerStream \in GenericStreamData
  BY PayloadAssumption
<1>17. aaf \in PcmAafs
  BY <1>6, <1>9, <1>14, <1>15, <1>16 DEF PcmAafs
<1>18. aaf.format_data.data = pcm
  BY <1>15
<1>19. QED
  BY <1>1, <1>5, <1>17, <1>18

-----------------------------------------------------------------------------
(* The way of the audio *)

\* The valid bits of a sample fill its container.
FillsContainer ==
    wav.header.valid_bits_per_sample \div 8 = wav.header.bits_per_sample \div 8

\* What the frame on the wire adds to what was presented.
OnItsWay ==
    IF wire = NoFrame THEN <<>>
    ELSE SwapByteOrder(source.format_data.data.payload, DepthBytes(source.format_data.data))

\* While the talker sends, the audio of the file is what was presented, what is on its
\* way and the rest.
TalkInv ==
    stage = "talk" =>
        /\ Sendable(wav.header) /\ wav.pcm_le \in Seq(Byte) /\ Len(wav.pcm_le) < 2^30
        /\ rest \in Seq(Byte)
        /\ wire # NoFrame =>
               /\ state \in {"whole", "padded"} /\ source.valid
               /\ source.format_data.data.bit_depth = wav.header.valid_bits_per_sample
        /\ ~lost /\ FillsContainer =>
               /\ received_pcm_le \in Seq(Byte) /\ OnItsWay \in Seq(Byte)
               /\ (received_pcm_le \o OnItsWay) \o rest = wav.pcm_le

\* Nothing was saved before the end, and nothing sent before the file was read.
BeforeInv ==
    /\ stage \in {"bench", "load", "talk", "passed", "failed"}
    /\ stage \in {"bench", "load", "talk"} => saved = <<>>
    /\ stage = "load" => file \in Files /\ wire = NoFrame /\ received_pcm_le = <<>>

TestInv == EthernetInv /\ BeforeInv /\ TalkInv /\ AudioComesBack

LEMMA TestBegins ==
    ASSUME TestInit
    PROVE  TestInv
<1>1. EthernetInv
  BY EthernetInit DEF TestInit
<1>2. saved = <<>> /\ wire = NoFrame /\ received_pcm_le = <<>>
      /\ (stage = "bench" \/ (stage = "load" /\ file \in Files))
  <2>1. wire = NoFrame
    BY DEF TestInit, Init
  <2>2. saved = <<>> /\ received_pcm_le = <<>>
        /\ (stage = "bench" \/ (stage = "load" /\ file \in Files))
    BY DEF TestInit
  <2>3. QED
    BY <2>1, <2>2
<1>3. BeforeInv /\ TalkInv
  BY <1>2 DEF BeforeInv, TalkInv
<1>4. QED
  BY <1>1, <1>2, <1>3 DEF TestInv, AudioComesBack

LEMMA BenchStep ==
    ASSUME TestInv, Bench
    PROVE  TestInv'
<1>1. EthernetInv'
  BY EthernetStep DEF TestInv, Bench
<1>2. stage' = "bench" /\ saved' = <<>>
  BY DEF TestInv, BeforeInv, Bench, testVars
<1>3. BeforeInv' /\ TalkInv'
  BY <1>2 DEF BeforeInv, TalkInv
<1>4. AudioComesBack'
  BY <1>2 DEF AudioComesBack
<1>5. QED
  BY <1>1, <1>3, <1>4 DEF TestInv

LEMMA LoadStep ==
    ASSUME TestInv, LoadWav
    PROVE  TestInv'
<1>1. /\ stage = "load" /\ file \in Files /\ wire = NoFrame /\ received_pcm_le = <<>>
      /\ saved = <<>> /\ UNCHANGED <<vars, file, received_pcm_le, saved, lost>>
  BY DEF TestInv, BeforeInv, LoadWav
<1>2. EthernetInv'
  BY <1>1, EthernetStep DEF TestInv
<1>3. saved' = <<>> /\ wire' = NoFrame /\ received_pcm_le' = <<>>
  BY <1>1 DEF vars
<1>4. PICK read : read = ReadWav(file)
  OBVIOUS
<1>5. CASE read.outcome = "Wav" /\ Supported(read.wav.header)
  <2>1. /\ wav' = [header |-> read.wav.header, pcm_le |-> read.wav.data]
        /\ rest' = read.wav.data /\ stage' = "talk"
    BY <1>4, <1>5 DEF LoadWav
  <2>2. file \in Seq(Byte) /\ Len(file) < 2^30
    BY <1>1, PayloadAssumption
  <2>3. /\ Sendable(read.wav.header)
        /\ read.wav.data \in Seq(Byte) /\ Len(read.wav.data) < 2^30
    BY <1>4, <1>5, <2>2, LoadWell
  <2>4. /\ Sendable(wav'.header) /\ wav'.pcm_le \in Seq(Byte) /\ Len(wav'.pcm_le) < 2^30
        /\ rest' \in Seq(Byte) /\ rest' = wav'.pcm_le
    BY <2>1, <2>3
  <2>5. OnItsWay' = <<>>
    BY <1>3 DEF OnItsWay
  <2>6. (received_pcm_le' \o OnItsWay') \o rest' = wav'.pcm_le
    <3>1. \A q \in Seq(Byte) : (<<>> \o <<>>) \o q = q
      OBVIOUS
    <3>2. QED
      BY <1>3, <2>4, <2>5, <3>1
  <2>7. received_pcm_le' \in Seq(Byte) /\ OnItsWay' \in Seq(Byte)
    BY <1>3, <2>5
  <2>8. TalkInv'
    BY <1>3, <2>4, <2>6, <2>7 DEF TalkInv
  <2>9. BeforeInv'
    BY <1>3, <2>1 DEF BeforeInv
  <2>10. AudioComesBack'
    BY <1>3 DEF AudioComesBack
  <2>11. QED
    BY <1>2, <2>8, <2>9, <2>10 DEF TestInv
<1>6. CASE ~(read.outcome = "Wav" /\ Supported(read.wav.header))
  <2>1. stage' = "failed"
    BY <1>4, <1>6 DEF LoadWav
  <2>2. BeforeInv' /\ TalkInv'
    BY <2>1 DEF BeforeInv, TalkInv
  <2>3. AudioComesBack'
    BY <1>3 DEF AudioComesBack
  <2>4. QED
    BY <1>2, <2>2, <2>3 DEF TestInv
<1>7. QED
  BY <1>5, <1>6

\* A frame that is taken is on the wire: a packet of the talker's has the subtype of
\* its variant.
LEMMA TalkerSends ==
    ASSUME NEW aaf \in PcmAafs, SendAaf(aaf, TRUE)
    PROVE  wire' # NoFrame
<1>1. aaf \in PcmAafs /\ ValidPcm(aaf.format_data.data) /\ ValidStreamData(aaf.common)
  BY DEF SendAaf
<1>2. Converts(aaf) /\ FromAaf(aaf) \in StreamPdus
  BY <1>1, TalkerBack
<1>3. PICK pdu : pdu = FromAaf(aaf)
  OBVIOUS
<1>4. Transmit(pdu, TRUE)
  BY <1>2, <1>3 DEF SendAaf
<1>5. pdu \in Avtpdus
  BY <1>2, <1>3 DEF Avtpdus
<1>6. ValidSubtype(pdu)
  <2>1. pdu.variant = "Stream" /\ pdu.common = aaf.common
    BY <1>3 DEF FromAaf
  <2>2. aaf.common.subtype = 2
    BY <1>1 DEF ValidStreamData, AAF
  <2>3. HeaderType(2) = "Stream"
    BY DEF HeaderType, StreamSubtypes, ControlSubtypes, AlternativeSubtypes
  <2>4. QED
    BY <2>1, <2>2, <2>3 DEF ValidSubtype
<1>7. wire' = Frame(pdu)
  BY <1>4, <1>5, <1>6, Transmits
<1>8. PICK n \in Nat : Len(Frame(pdu)) = 14 + n
  BY <1>5, Frames
<1>9. Len(<<>>) = 0
  OBVIOUS
<1>10. QED
  BY <1>7, <1>8, <1>9 DEF NoFrame

\* What a round of the talker takes is on its way when it is sent.
LEMMA ChunkOnItsWay ==
    ASSUME Supported(wav.header), FillsContainer, NEW chunk \in Seq(Byte),
           NEW pcm, pcm.bit_depth = wav.header.valid_bits_per_sample,
           pcm.payload = SwapByteOrder(chunk, ContainerBytes(wav.header))
    PROVE  SwapByteOrder(pcm.payload, DepthBytes(pcm)) = chunk
<1>1. PICK word \in {2, 3, 4} : word = ContainerBytes(wav.header)
  BY ContainerSizes
<1>2. DepthBytes(pcm) = word
  BY <1>1 DEF DepthBytes, FillsContainer, ContainerBytes
<1>3. SwapByteOrder(SwapByteOrder(chunk, word), word) = chunk
  BY SwapBack
<1>4. QED
  BY <1>1, <1>2, <1>3

\* Of the rest, a round takes no more than there is.
LEMMA ChunkFits ==
    ASSUME NEW header, Sendable(header), NEW q \in Seq(Byte),
           NEW taken, taken = IF Len(q) < FileChunk(header) THEN Len(q) ELSE FileChunk(header)
    PROVE  taken \in 0..Len(q)
<1>1. PICK s \in Nat : s = SamplesPerPacket
  BY PayloadAssumption
<1>2. PICK c \in Nat : c = header.channels
  <2>1. header.channels \in 1..1023
    BY DEF Sendable, Supported
  <2>2. header.channels \in Nat
    <3>1. \A n \in 1..1023 : n \in Nat
      OBVIOUS
    <3>2. QED
      BY <2>1, <3>1, Zenon
  <2>3. QED
    BY <2>2
<1>3. PICK b \in Nat : b = ContainerBytes(header)
  BY ContainerSizes DEF Sendable
<1>4. s * c \in Nat
  OBVIOUS
<1>5. PICK p \in Nat : p = s * c
  BY <1>4
<1>6. p * b \in Nat
  OBVIOUS
<1>7. PICK size \in Nat : size = FileChunk(header)
  BY <1>1, <1>2, <1>3, <1>5, <1>6 DEF FileChunk
<1>8. PICK l \in Nat : l = Len(q)
  OBVIOUS
<1>9. taken = IF l < size THEN l ELSE size
  BY <1>7, <1>8
<1>10. QED
  BY <1>8, <1>9

LEMMA SendStep ==
    ASSUME TestInv, NEW accepted \in BOOLEAN, SendChunk(accepted)
    PROVE  TestInv'
<1>1. /\ stage = "talk" /\ rest # <<>> /\ wire = NoFrame /\ saved = <<>>
      /\ UNCHANGED <<file, wav, received_pcm_le, saved, lost>>
  BY DEF TestInv, BeforeInv, SendChunk
<1>2. /\ Sendable(wav.header) /\ wav.pcm_le \in Seq(Byte) /\ Len(wav.pcm_le) < 2^30
      /\ rest \in Seq(Byte)
  BY <1>1 DEF TestInv, TalkInv
<1>3. PICK taken, chunk, payload, left, aaf :
          /\ taken = IF Len(rest) < FileChunk(wav.header) THEN Len(rest)
                     ELSE FileChunk(wav.header)
          /\ chunk = SubSeq(rest, 1, taken) /\ left = SubSeq(rest, taken + 1, Len(rest))
          /\ payload = SwapByteOrder(chunk, ContainerBytes(wav.header))
          /\ aaf = TalkerAaf(payload)
  OBVIOUS
<1>4. chunk \in Seq(Byte) /\ left \in Seq(Byte) /\ chunk \o left = rest
  <2>1. taken \in 0..Len(rest)
    BY <1>2, <1>3, ChunkFits
  <2>2. QED
    <3>1. PICK q \in Seq(Byte) : q = rest
      BY <1>2
    <3>2. taken \in 0..Len(q) /\ Divides(q, taken, chunk, left)
      BY <1>3, <2>1, <3>1 DEF Divides
    <3>3. chunk \in Seq(Byte) /\ left \in Seq(Byte) /\ chunk \o left = q
      BY <3>2, TakenAndRest
    <3>4. QED
      BY <3>1, <3>3
<1>5. payload \in Seq(Byte)
  <2>1. ContainerBytes(wav.header) \in {2, 3, 4}
    BY <1>2, ContainerSizes DEF Sendable
  <2>2. QED
    BY <1>3, <1>4, <2>1, SwapIs
<1>6. /\ aaf \in PcmAafs
      /\ aaf.format_data.data.payload = payload
      /\ aaf.format_data.data.bit_depth = wav.header.valid_bits_per_sample
  BY <1>2, <1>3, <1>5, TalkerAafs DEF Sendable
<1>7. IF ValidPcm(aaf.format_data.data)
      THEN /\ SendAaf(aaf, accepted) /\ rest' = left
           /\ stage' = IF accepted THEN stage ELSE "failed"
      ELSE stage' = "failed" /\ UNCHANGED <<vars, rest>>
  BY <1>3 DEF SendChunk
<1>8. saved' = <<>>
  BY <1>1
<1>9. EthernetInv'
  <2>1. CASE ValidPcm(aaf.format_data.data)
    BY <1>6, <1>7, <2>1, SendsAaf DEF TestInv
  <2>2. CASE ~ValidPcm(aaf.format_data.data)
    BY <1>7, <2>2, EthernetStep DEF TestInv
  <2>3. QED
    BY <2>1, <2>2
<1>10. BeforeInv'
  BY <1>1, <1>7, <1>8 DEF BeforeInv
<1>11. AudioComesBack'
  BY <1>8 DEF AudioComesBack
<1>12. ASSUME stage' = "talk"
       PROVE  TalkInv'
  <2>1. /\ ValidPcm(aaf.format_data.data) /\ accepted = TRUE
        /\ SendAaf(aaf, TRUE) /\ rest' = left
    BY <1>7, <1>12
  <2>2. wire' # NoFrame
    BY <1>6, <2>1, TalkerSends
  <2>3. Converts(aaf)
    <3>1. ValidStreamData(aaf.common)
      BY <2>1 DEF SendAaf
    <3>2. QED
      BY <1>6, <2>1, <3>1, TalkerBack
  <2>4. source' = aaf /\ state' = "whole"
    BY <2>1, <2>3 DEF SendAaf
  <2>5. aaf.valid = TRUE
    BY <1>6, PcmAafParts
  <2>6. OnItsWay' = SwapByteOrder(aaf.format_data.data.payload, DepthBytes(aaf.format_data.data))
    BY <2>2, <2>4 DEF OnItsWay, DepthBytes, NoFrame
  <2>7. ASSUME ~lost', FillsContainer'
        PROVE  /\ received_pcm_le' \in Seq(Byte) /\ OnItsWay' \in Seq(Byte)
               /\ (received_pcm_le' \o OnItsWay') \o rest' = wav'.pcm_le
    <3>1. ~lost /\ FillsContainer
      BY <1>1, <2>7 DEF FillsContainer
    <3>2. OnItsWay = <<>>
      BY <1>1 DEF OnItsWay
    <3>3. received_pcm_le \in Seq(Byte) /\ (received_pcm_le \o <<>>) \o rest = wav.pcm_le
      BY <1>1, <3>1, <3>2 DEF TestInv, TalkInv
    <3>4. OnItsWay' = chunk
      <4>1. PICK pcm : pcm = aaf.format_data.data
        OBVIOUS
      <4>2. /\ pcm.bit_depth = wav.header.valid_bits_per_sample
            /\ pcm.payload = SwapByteOrder(chunk, ContainerBytes(wav.header))
        BY <1>3, <1>6, <4>1
      <4>3. SwapByteOrder(pcm.payload, DepthBytes(pcm)) = chunk
        BY <1>2, <1>4, <3>1, <4>2, ChunkOnItsWay DEF Sendable
      <4>4. QED
        BY <2>6, <4>1, <4>3
    <3>5. PICK got \in Seq(Byte) : got = received_pcm_le
      BY <3>3
    <3>6. got \o <<>> = got
      OBVIOUS
    <3>7. (got \o chunk) \o left = got \o (chunk \o left)
      <4>1. \A a \in Seq(Byte), b \in Seq(Byte), c \in Seq(Byte) : a \o (b \o c) = (a \o b) \o c
        BY Regroup
      <4>2. got \o (chunk \o left) = (got \o chunk) \o left
        BY <1>4, <4>1
      <4>3. QED
        BY <4>2
    <3>8. (got \o chunk) \o left = wav.pcm_le
      BY <1>4, <3>3, <3>5, <3>6, <3>7
    <3>9. QED
      BY <1>1, <1>4, <2>1, <3>4, <3>5, <3>8
  <2>8. QED
    BY <1>1, <1>2, <1>4, <1>6, <2>1, <2>4, <2>5, <2>7 DEF TalkInv
<1>13. TalkInv'
  <2>1. CASE stage' = "talk"
    BY <1>12, <2>1
  <2>2. CASE stage' # "talk"
    BY <2>2 DEF TalkInv
  <2>3. QED
    BY <2>1, <2>2
<1>14. QED
  BY <1>9, <1>10, <1>11, <1>13 DEF TestInv

LEMMA PaddedIsThere ==
    ASSUME wire \in Seq(Byte), Pad
    PROVE  wire' # NoFrame
<1>1. PICK n \in Nat : n = MinFrame - Len(wire)
  <2>1. Len(wire) < MinFrame
    BY DEF Pad
  <2>2. MinFrame - Len(wire) \in Nat
    BY <2>1, EthernetAssumption
  <2>3. QED
    BY <2>2
<1>2. PICK zeros : zeros = [i \in 1..n |-> 0]
  OBVIOUS
<1>3. zeros \in Seq(Byte) /\ Len(zeros) = n
  BY <1>2 DEF Byte
<1>4. wire' = wire \o zeros /\ wire # <<>>
  BY <1>1, <1>2 DEF Pad, NoFrame
<1>5. PICK k \in Nat : k = Len(wire) /\ k # 0
  BY <1>4
<1>6. PICK both : both = wire'
  OBVIOUS
<1>7. Joins(both, wire, zeros)
  BY <1>4, <1>6 DEF Joins
<1>8. Parts(both, wire, k, zeros, n)
  BY <1>3, <1>5, <1>7, JoinedAt
<1>9. Len(both) = k + n
  BY <1>8 DEF Parts
<1>10. Len(<<>>) = 0 /\ k + n # 0
  BY <1>5
<1>11. QED
  BY <1>6, <1>9, <1>10 DEF NoFrame

LEMMA PadStep ==
    ASSUME TestInv, PadChunk
    PROVE  TestInv'
<1>1. /\ stage = "talk" /\ saved = <<>> /\ Pad
      /\ UNCHANGED <<stage, file, wav, rest, received_pcm_le, saved, lost>>
  BY DEF TestInv, BeforeInv, PadChunk, testVars
<1>2. /\ wire \in Seq(Byte) /\ wire # NoFrame /\ state' = "padded"
      /\ UNCHANGED source
  BY <1>1 DEF TestInv, EthernetInv, Pad, sender
<1>3. EthernetInv'
  BY <1>1, Pads DEF TestInv
<1>4. wire' # NoFrame
  BY <1>1, <1>2, PaddedIsThere
<1>5. BeforeInv'
  BY <1>1 DEF BeforeInv
<1>6. AudioComesBack'
  BY <1>1 DEF AudioComesBack
<1>7. OnItsWay' = OnItsWay
  BY <1>2, <1>4 DEF OnItsWay, DepthBytes
<1>8. FillsContainer' = FillsContainer
  BY <1>1 DEF FillsContainer
<1>9. TalkInv'
  BY <1>1, <1>2, <1>4, <1>7, <1>8 DEF TestInv, TalkInv
<1>10. QED
  BY <1>3, <1>5, <1>6, <1>9 DEF TestInv

LEMMA LoseStep ==
    ASSUME TestInv, LoseChunk
    PROVE  TestInv'
<1>1. /\ stage = "talk" /\ saved = <<>> /\ Lose /\ lost' = TRUE
      /\ UNCHANGED <<stage, file, wav, rest, received_pcm_le, saved>>
  BY DEF TestInv, BeforeInv, LoseChunk
<1>2. wire' = NoFrame
  BY <1>1 DEF Lose
<1>3. EthernetInv'
  BY <1>1, EthernetStep DEF TestInv, Next
<1>4. BeforeInv'
  BY <1>1 DEF BeforeInv
<1>5. AudioComesBack'
  BY <1>1 DEF AudioComesBack
<1>6. TalkInv'
  BY <1>1, <1>2 DEF TestInv, TalkInv
<1>7. QED
  BY <1>3, <1>4, <1>5, <1>6 DEF TestInv

\* What the listener takes off the wire is the Aaf that the talker was given.
LEMMA TalkerArrives ==
    ASSUME EthernetInv, Receive, state \in {"whole", "padded"}, source.valid
    PROVE  ToAaf(received'.pdu) = source
<1>1. /\ source \in PcmAafs /\ ValidPcm(source.format_data.data)
      /\ ValidStreamData(source.common) /\ packet = FromAaf(source)
  BY DEF EthernetInv, FromTalker
<1>2. ToAaf(packet) = source
  BY <1>1, TalkerBack
<1>3. packet.variant = "Stream"
  BY <1>1 DEF FromAaf
<1>4. received' = Decoded(packet)
  BY <1>3, Receives
<1>5. received'.pdu = packet
  BY <1>4 DEF Decoded
<1>6. QED
  BY <1>2, <1>5

LEMMA PresentStep ==
    ASSUME TestInv, PresentChunk
    PROVE  TestInv'
<1>1. /\ stage = "talk" /\ saved = <<>> /\ Receive
      /\ UNCHANGED <<file, wav, rest, saved, lost>>
  BY DEF TestInv, BeforeInv, PresentChunk
<1>2. wire # NoFrame /\ wire' = NoFrame
  BY <1>1 DEF Receive
<1>3. EthernetInv'
  BY <1>1, EthernetStep DEF TestInv, Next
<1>4. ToAaf(received'.pdu) = source
  <2>1. state \in {"whole", "padded"} /\ source.valid
    BY <1>1, <1>2 DEF TestInv, TalkInv
  <2>2. QED
    BY <1>1, <2>1, TalkerArrives DEF TestInv
<1>5. PICK pcm : pcm = source.format_data.data
  OBVIOUS
<1>6. IF DepthBytes(pcm) = 0
      THEN stage' = "failed"
      ELSE /\ received_pcm_le' =
                  received_pcm_le \o SwapByteOrder(pcm.payload, DepthBytes(pcm))
           /\ UNCHANGED stage
  BY <1>4, <1>5 DEF PresentChunk
<1>7. BeforeInv'
  BY <1>1, <1>6 DEF BeforeInv
<1>8. AudioComesBack'
  BY <1>1 DEF AudioComesBack
<1>9. ASSUME stage' = "talk"
      PROVE  TalkInv'
  <2>1. received_pcm_le' = received_pcm_le \o OnItsWay
    BY <1>2, <1>5, <1>6, <1>9 DEF OnItsWay
  <2>2. OnItsWay' = <<>>
    BY <1>2 DEF OnItsWay
  <2>3. ASSUME ~lost', FillsContainer'
        PROVE  /\ received_pcm_le' \in Seq(Byte) /\ OnItsWay' \in Seq(Byte)
               /\ (received_pcm_le' \o OnItsWay') \o rest' = wav'.pcm_le
    <3>1. ~lost /\ FillsContainer
      BY <1>1, <2>3 DEF FillsContainer
    <3>2. /\ received_pcm_le \in Seq(Byte) /\ OnItsWay \in Seq(Byte)
          /\ (received_pcm_le \o OnItsWay) \o rest = wav.pcm_le
      BY <1>1, <3>1 DEF TestInv, TalkInv
    <3>3. PICK got \in Seq(Byte) : got = received_pcm_le \o OnItsWay
      <4>1. \A a \in Seq(Byte), b \in Seq(Byte) : a \o b \in Seq(Byte)
        OBVIOUS
      <4>2. received_pcm_le \o OnItsWay \in Seq(Byte)
        BY <3>2, <4>1
      <4>3. QED
        BY <4>2
    <3>4. got \o <<>> = got /\ <<>> \in Seq(Byte)
      OBVIOUS
    <3>5. QED
      BY <1>1, <2>1, <2>2, <3>2, <3>3, <3>4
  <2>4. QED
    BY <1>1, <1>2, <2>3 DEF TestInv, TalkInv
<1>10. TalkInv'
  <2>1. CASE stage' = "talk"
    BY <1>9, <2>1
  <2>2. CASE stage' # "talk"
    BY <2>2 DEF TalkInv
  <2>3. QED
    BY <2>1, <2>2
<1>11. QED
  BY <1>3, <1>7, <1>8, <1>10 DEF TestInv

LEMMA FinishStep ==
    ASSUME TestInv, Finish
    PROVE  TestInv'
<1>1. /\ stage = "talk" /\ rest = <<>> /\ wire = NoFrame
      /\ saved' = WriteWav(FromHeaderAndData(wav.header, received_pcm_le))
      /\ stage' = IF received_pcm_le = wav.pcm_le THEN "passed" ELSE "failed"
      /\ UNCHANGED <<vars, file, wav, rest, received_pcm_le, lost>>
  BY DEF Finish
<1>2. EthernetInv'
  BY <1>1, EthernetStep DEF TestInv
<1>3. BeforeInv' /\ TalkInv'
  BY <1>1 DEF BeforeInv, TalkInv
<1>4. ASSUME ~lost', FillsContainer', NEW again, again = ReadWav(saved')
      PROVE  /\ stage' = "passed" /\ again.outcome = "Wav"
             /\ again.wav.header = wav'.header /\ again.wav.data = wav'.pcm_le
  <2>1. ~lost /\ FillsContainer
    BY <1>1, <1>4 DEF FillsContainer
  <2>2. OnItsWay = <<>>
    BY <1>1 DEF OnItsWay
  <2>3. /\ Sendable(wav.header) /\ wav.pcm_le \in Seq(Byte) /\ Len(wav.pcm_le) < 2^30
        /\ received_pcm_le \in Seq(Byte)
        /\ (received_pcm_le \o <<>>) \o <<>> = wav.pcm_le
    BY <1>1, <2>1, <2>2 DEF TestInv, TalkInv
  <2>4. received_pcm_le = wav.pcm_le
    <3>1. \A q \in Seq(Byte) : (q \o <<>>) \o <<>> = q
      OBVIOUS
    <3>2. QED
      BY <2>3, <3>1
  <2>5. stage' = "passed"
    BY <1>1, <2>4
  <2>6. PICK header, data :
            /\ header = wav.header /\ data = wav.pcm_le
            /\ saved' = WriteWav(FromHeaderAndData(header, data))
    BY <1>1, <2>4
  <2>7. Plain(header) /\ data \in Seq(Byte) /\ Len(data) < 2^30
    BY <2>3, <2>6 DEF Sendable
  <2>8. PICK f : f = saved'
    OBVIOUS
  <2>9. again.outcome = "Wav" /\ again.wav.header = header /\ again.wav.data = data
    BY <1>4, <2>6, <2>7, <2>8, SavedReads
  <2>10. QED
    BY <1>1, <2>5, <2>6, <2>9
<1>5. AudioComesBack'
  <2>1. ASSUME saved' # <<>>, ~lost',
               wav'.header.valid_bits_per_sample \div 8 = wav'.header.bits_per_sample \div 8,
               NEW again \in {ReadWav(saved')}
        PROVE  /\ stage' = "passed" /\ again.outcome = "Wav"
               /\ again.wav.header = wav'.header /\ again.wav.data = wav'.pcm_le
    <3>1. FillsContainer' /\ again = ReadWav(saved')
      BY <2>1 DEF FillsContainer
    <3>2. QED
      BY <1>4, <2>1, <3>1
  <2>2. QED
    BY <2>1 DEF AudioComesBack
<1>6. QED
  BY <1>2, <1>3, <1>5 DEF TestInv

LEMMA TestStutter ==
    ASSUME TestInv, UNCHANGED allVars
    PROVE  TestInv'
<1>1. UNCHANGED vars /\ UNCHANGED testVars
  BY DEF allVars
<1>2. EthernetInv'
  BY <1>1, EthernetStep DEF TestInv
<1>3. /\ UNCHANGED <<stage, file, wav, rest, received_pcm_le, saved, lost>>
      /\ UNCHANGED <<wire, state, source>>
  BY <1>1 DEF vars, testVars
<1>4. BeforeInv'
  BY <1>3 DEF TestInv, BeforeInv
<1>5. OnItsWay' = OnItsWay /\ FillsContainer' = FillsContainer
  BY <1>3 DEF OnItsWay, FillsContainer, DepthBytes
<1>6. TalkInv'
  BY <1>3, <1>5 DEF TestInv, TalkInv
<1>7. AudioComesBack'
  BY <1>3 DEF TestInv, AudioComesBack
<1>8. QED
  BY <1>2, <1>4, <1>6, <1>7 DEF TestInv

LEMMA TestStep ==
    ASSUME TestInv, [TestNext]_allVars
    PROVE  TestInv'
<1>1. CASE Bench
  BY <1>1, BenchStep
<1>2. CASE LoadWav
  BY <1>2, LoadStep
<1>3. CASE PadChunk
  BY <1>3, PadStep
<1>4. CASE LoseChunk
  BY <1>4, LoseStep
<1>5. CASE PresentChunk
  BY <1>5, PresentStep
<1>6. CASE Finish
  BY <1>6, FinishStep
<1>7. ASSUME NEW accepted \in BOOLEAN, SendChunk(accepted)
      PROVE  TestInv'
  BY <1>7, SendStep
<1>8. CASE UNCHANGED allVars
  BY <1>8, TestStutter
<1>9. QED
  BY <1>1, <1>2, <1>3, <1>4, <1>5, <1>6, <1>7, <1>8 DEF TestNext

\* Where the samples fill their container and no frame is lost, received.wav is the
\* header and the samples of the file, whatever the file, the size of the packets, the
\* padding and the rounds: what was presented, what is on its way and the rest are at
\* all times the audio of the file.
THEOREM AudioComesBackAlways == TestSpec => []AudioComesBack
<1>1. TestInit => TestInv
  BY TestBegins
<1>2. TestInv /\ [TestNext]_allVars => TestInv'
  BY TestStep
<1>3. TestInv => AudioComesBack
  BY DEF TestInv
<1>4. QED
  BY <1>1, <1>2, <1>3, PTL DEF TestSpec
==============================================================================
