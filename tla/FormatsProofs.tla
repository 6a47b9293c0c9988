--------------------------- MODULE FormatsProofs ---------------------------
(***************************************************************************)
(* The three programs of Formats that take in bytes, for any file, picture *)
(* and text: the CRC32 by pages is the remainder by the polynomial         *)
(* (src/HW9), the detector's answer is right (src/HW1/rarjpeg) and what    *)
(* the converter writes can be read (src/HW1/converter).                   *)
(***************************************************************************)
EXTENDS ProgramsProofs, Formats

(* What is composed of the nine programs is what each does by itself.      *)
THEOREM NineByThemselves ==
  FormatsSpec => /\ Spec /\ Logs!Spec /\ Resolve!Spec /\ Sql!Spec /\ Figlet!Spec /\ Library!Spec
                 /\ Crc!Spec /\ Rar!Spec /\ Conv!Spec
<1> DEFINE all == <<which, programsVars, crcVars, rarVars, convVars>>
<1>1. FormatsInit => /\ Init /\ Logs!Init /\ Resolve!Init /\ Sql!Init /\ Figlet!Init /\ Library!Init
                     /\ Crc!Init /\ Rar!Init /\ Conv!Init
  BY DEF FormatsInit, Beginning
<1>2. [FormatsNext]_all => [ProgramsNext]_<<which, programsVars>>
  BY DEF FormatsNext
<1>3. [ProgramsNext]_<<which, programsVars>> => [Next]_vars
  BY DEF ProgramsNext, Only, programsVars
<1>4. [ProgramsNext]_<<which, programsVars>> => [Logs!Next]_(Logs!vars)
  BY DEF ProgramsNext, Only, programsVars, logsVars, Logs!vars
<1>5. [ProgramsNext]_<<which, programsVars>> => [Resolve!Next]_(Resolve!vars)
  BY DEF ProgramsNext, Only, programsVars, resolveVars, Resolve!vars, Resolve!world, Resolve!opts
<1>6. [ProgramsNext]_<<which, programsVars>> => [Sql!Next]_(Sql!vars)
  BY DEF ProgramsNext, Only, programsVars, sqlVars, Sql!vars
<1>7. [ProgramsNext]_<<which, programsVars>> => [Figlet!Next]_(Figlet!vars)
  BY DEF ProgramsNext, Only, programsVars, figletVars, Figlet!vars
<1>8. [ProgramsNext]_<<which, programsVars>> => [Library!Next]_(Library!vars)
  BY DEF ProgramsNext, Only, programsVars, loggerVars, Library!vars, Library!written
<1>9. [FormatsNext]_all => [Crc!Next]_(Crc!vars)
  BY DEF FormatsNext, crcVars, Crc!vars
<1>10. [FormatsNext]_all => [Rar!Next]_(Rar!vars)
  BY DEF FormatsNext, rarVars, Rar!vars
<1>11. [FormatsNext]_all => [Conv!Next]_(Conv!vars)
  BY DEF FormatsNext, convVars, Conv!vars
<1> QED
  BY <1>1, <1>2, <1>3, <1>4, <1>5, <1>6, <1>7, <1>8, <1>9, <1>10, <1>11, PTL
  DEF FormatsSpec, Spec, Logs!Spec, Resolve!Spec, Sql!Spec, Figlet!Spec, Library!Spec,
      Crc!Spec, Rar!Spec, Conv!Spec

-----------------------------------------------------------------------------
(* The CRC32 of a file (src/HW9).                                          *)

(* The digits of a word of the table.                                      *)
Powers == <<1, 2, 4, 8, 16, 32, 64, 128, 256, 512, 1024, 2048, 4096, 8192, 16384, 32768>>
Digit(n, j) ==
  IF j > 31 THEN 0
  ELSE IF j > 15 THEN (Crc!Crc32Tab[2 * n + 1] \div Powers[j - 15]) % 2
  ELSE (Crc!Crc32Tab[2 * n + 2] \div Powers[j + 1]) % 2

(* Word m is word 2 * m after one bit, and word 2 * m + 1 is word 2 * m    *)
(* and word 1.                                                             *)
Halved(m, j) ==
  Digit(m, j) = (Digit(2 * m, j + 1) + (IF j \in Crc!Polynomial THEN Digit(2 * m, 0) ELSE 0)) % 2
Odd(m, j) == Digit(2 * m + 1, j) = (Digit(2 * m, j) + Digit(1, j)) % 2

LEMMA HalvedDigits ==
  ASSUME NEW m \in Nat, m < 128, NEW j \in Nat, j < 32
  PROVE  Halved(m, j)
<1>1. Halved(m, 0) /\ Halved(m, 1)
  BY SMTT(60) DEF Halved, Digit, Powers, Crc!Crc32Tab, Crc!Polynomial
<1>2. Halved(m, 2) /\ Halved(m, 3)
  BY SMTT(60) DEF Halved, Digit, Powers, Crc!Crc32Tab, Crc!Polynomial
<1>3. Halved(m, 4) /\ Halved(m, 5)
  BY SMTT(60) DEF Halved, Digit, Powers, Crc!Crc32Tab, Crc!Polynomial
<1>4. Halved(m, 6) /\ Halved(m, 7)
  BY SMTT(60) DEF Halved, Digit, Powers, Crc!Crc32Tab, Crc!Polynomial
<1>5. Halved(m, 8) /\ Halved(m, 9)
  BY SMTT(60) DEF Halved, Digit, Powers, Crc!Crc32Tab, Crc!Polynomial
<1>6. Halved(m, 10) /\ Halved(m, 11)
  BY SMTT(60) DEF Halved, Digit, Powers, Crc!Crc32Tab, Crc!Polynomial
<1>7. Halved(m, 12) /\ Halved(m, 13)
  BY SMTT(60) DEF Halved, Digit, Powers, Crc!Crc32Tab, Crc!Polynomial
<1>8. Halved(m, 14) /\ Halved(m, 15)
  BY SMTT(60) DEF Halved, Digit, Powers, Crc!Crc32Tab, Crc!Polynomial
<1>9. Halved(m, 16) /\ Halved(m, 17)
  BY SMTT(60) DEF Halved, Digit, Powers, Crc!Crc32Tab, Crc!Polynomial
<1>10. Halved(m, 18) /\ Halved(m, 19)
  BY SMTT(60) DEF Halved, Digit, Powers, Crc!Crc32Tab, Crc!Polynomial
<1>11. Halved(m, 20) /\ Halved(m, 21)
  BY SMTT(60) DEF Halved, Digit, Powers, Crc!Crc32Tab, Crc!Polynomial
<1>12. Halved(m, 22) /\ Halved(m, 23)
  BY SMTT(60) DEF Halved, Digit, Powers, Crc!Crc32Tab, Crc!Polynomial
<1>13. Halved(m, 24) /\ Halved(m, 25)
  BY SMTT(60) DEF Halved, Digit, Powers, Crc!Crc32Tab, Crc!Polynomial
<1>14. Halved(m, 26) /\ Halved(m, 27)
  BY SMTT(60) DEF Halved, Digit, Powers, Crc!Crc32Tab, Crc!Polynomial
<1>15. Halved(m, 28) /\ Halved(m, 29)
  BY SMTT(60) DEF Halved, Digit, Powers, Crc!Crc32Tab, Crc!Polynomial
<1>16. Halved(m, 30) /\ Halved(m, 31)
  BY SMTT(60) DEF Halved, Digit, Powers, Crc!Crc32Tab, Crc!Polynomial
<1>17. \/ j = 0 \/ j = 1 \/ j = 2 \/ j = 3 \/ j = 4 \/ j = 5 \/ j = 6 \/ j = 7
       \/ j = 8 \/ j = 9 \/ j = 10 \/ j = 11 \/ j = 12 \/ j = 13 \/ j = 14 \/ j = 15
       \/ j = 16 \/ j = 17 \/ j = 18 \/ j = 19 \/ j = 20 \/ j = 21 \/ j = 22 \/ j = 23
       \/ j = 24 \/ j = 25 \/ j = 26 \/ j = 27 \/ j = 28 \/ j = 29 \/ j = 30 \/ j = 31
  BY SMT
<1> QED
  BY <1>17, <1>1, <1>2, <1>3, <1>4, <1>5, <1>6, <1>7, <1>8, <1>9, <1>10, <1>11, <1>12, <1>13, <1>14, <1>15, <1>16, SMT

LEMMA OddDigits ==
  ASSUME NEW m \in Nat, m < 128, NEW j \in Nat, j < 32
  PROVE  Odd(m, j)
<1>1. Odd(m, 0) /\ Odd(m, 1)
  BY SMTT(60) DEF Odd, Digit, Powers, Crc!Crc32Tab
<1>2. Odd(m, 2) /\ Odd(m, 3)
  BY SMTT(60) DEF Odd, Digit, Powers, Crc!Crc32Tab
<1>3. Odd(m, 4) /\ Odd(m, 5)
  BY SMTT(60) DEF Odd, Digit, Powers, Crc!Crc32Tab
<1>4. Odd(m, 6) /\ Odd(m, 7)
  BY SMTT(60) DEF Odd, Digit, Powers, Crc!Crc32Tab
<1>5. Odd(m, 8) /\ Odd(m, 9)
  BY SMTT(60) DEF Odd, Digit, Powers, Crc!Crc32Tab
<1>6. Odd(m, 10) /\ Odd(m, 11)
  BY SMTT(60) DEF Odd, Digit, Powers, Crc!Crc32Tab
<1>7. Odd(m, 12) /\ Odd(m, 13)
  BY SMTT(60) DEF Odd, Digit, Powers, Crc!Crc32Tab
<1>8. Odd(m, 14) /\ Odd(m, 15)
  BY SMTT(60) DEF Odd, Digit, Powers, Crc!Crc32Tab
<1>9. Odd(m, 16) /\ Odd(m, 17)
  BY SMTT(60) DEF Odd, Digit, Powers, Crc!Crc32Tab
<1>10. Odd(m, 18) /\ Odd(m, 19)
  BY SMTT(60) DEF Odd, Digit, Powers, Crc!Crc32Tab
<1>11. Odd(m, 20) /\ Odd(m, 21)
  BY SMTT(60) DEF Odd, Digit, Powers, Crc!Crc32Tab
<1>12. Odd(m, 22) /\ Odd(m, 23)
  BY SMTT(60) DEF Odd, Digit, Powers, Crc!Crc32Tab
<1>13. Odd(m, 24) /\ Odd(m, 25)
  BY SMTT(60) DEF Odd, Digit, Powers, Crc!Crc32Tab
<1>14. Odd(m, 26) /\ Odd(m, 27)
  BY SMTT(60) DEF Odd, Digit, Powers, Crc!Crc32Tab
<1>15. Odd(m, 28) /\ Odd(m, 29)
  BY SMTT(60) DEF Odd, Digit, Powers, Crc!Crc32Tab
<1>16. Odd(m, 30) /\ Odd(m, 31)
  BY SMTT(60) DEF Odd, Digit, Powers, Crc!Crc32Tab
<1>17. \/ j = 0 \/ j = 1 \/ j = 2 \/ j = 3 \/ j = 4 \/ j = 5 \/ j = 6 \/ j = 7
       \/ j = 8 \/ j = 9 \/ j = 10 \/ j = 11 \/ j = 12 \/ j = 13 \/ j = 14 \/ j = 15
       \/ j = 16 \/ j = 17 \/ j = 18 \/ j = 19 \/ j = 20 \/ j = 21 \/ j = 22 \/ j = 23
       \/ j = 24 \/ j = 25 \/ j = 26 \/ j = 27 \/ j = 28 \/ j = 29 \/ j = 30 \/ j = 31
  BY SMT
<1> QED
  BY <1>17, <1>1, <1>2, <1>3, <1>4, <1>5, <1>6, <1>7, <1>8, <1>9, <1>10, <1>11, <1>12, <1>13, <1>14, <1>15, <1>16, SMT

LEMMA PowerIs == ASSUME NEW j \in Nat, j < 16 PROVE 2 ^ j = Powers[j + 1]
<1> DEFINE q == 2 ^ j
<1>1. (j = 0 => q = 2 ^ 0) /\ (j = 1 => q = 2 ^ 1) /\ (j = 2 => q = 2 ^ 2) /\ (j = 3 => q = 2 ^ 3)
  BY Zenon DEF q
<1>2. (j = 4 => q = 2 ^ 4) /\ (j = 5 => q = 2 ^ 5) /\ (j = 6 => q = 2 ^ 6) /\ (j = 7 => q = 2 ^ 7)
  BY Zenon DEF q
<1>3. (j = 8 => q = 2 ^ 8) /\ (j = 9 => q = 2 ^ 9) /\ (j = 10 => q = 2 ^ 10) /\ (j = 11 => q = 2 ^ 11)
  BY Zenon DEF q
<1>4. (j = 12 => q = 2 ^ 12) /\ (j = 13 => q = 2 ^ 13) /\ (j = 14 => q = 2 ^ 14) /\ (j = 15 => q = 2 ^ 15)
  BY Zenon DEF q
<1> HIDE DEF q
<1>5. \/ j = 0 \/ j = 1 \/ j = 2 \/ j = 3 \/ j = 4 \/ j = 5 \/ j = 6 \/ j = 7
      \/ j = 8 \/ j = 9 \/ j = 10 \/ j = 11 \/ j = 12 \/ j = 13 \/ j = 14 \/ j = 15
  BY SMT
<1>6. q = Powers[j + 1]
  BY <1>1, <1>2, <1>3, <1>4, <1>5, SMT DEF Powers
<1> QED
  BY <1>6, Zenon DEF q

LEMMA HalvesType ==
  \A n \in Nat : n < 256 => Crc!Crc32Tab[2 * n + 1] \in Nat /\ Crc!Crc32Tab[2 * n + 2] \in Nat
  BY SMTT(60) DEF Crc!Crc32Tab

LEMMA DigitType ==
  ASSUME NEW n \in Nat, n < 256, NEW j \in Nat
  PROVE  Digit(n, j) = 0 \/ Digit(n, j) = 1
<1> DEFINE h == Crc!Crc32Tab[2 * n + 1]  l == Crc!Crc32Tab[2 * n + 2]
<1>1. h \in Nat /\ l \in Nat
  BY HalvesType
<1> HIDE DEF h, l
<1>2. CASE j > 31
  BY <1>2 DEF Digit
<1>3. CASE ~(j > 31) /\ j > 15
  <2> DEFINE p == Powers[j - 15]
  <2>1. p \in Nat \ {0}
    BY <1>3 DEF Powers
  <2> HIDE DEF p
  <2>2. h \div p \in Int
    BY <1>1, <2>1
  <2>3. Digit(n, j) = (h \div p) % 2
    BY <1>3 DEF Digit, h, p
  <2> QED
    BY <2>2, <2>3
<1>4. CASE ~(j > 31) /\ ~(j > 15)
  <2> DEFINE p == Powers[j + 1]
  <2>1. p \in Nat \ {0}
    BY <1>4 DEF Powers
  <2> HIDE DEF p
  <2>2. l \div p \in Int
    BY <1>1, <2>1
  <2>3. Digit(n, j) = (l \div p) % 2
    BY <1>4 DEF Digit, l, p
  <2> QED
    BY <2>2, <2>3
<1> QED
  BY <1>2, <1>3, <1>4

LEMMA BitsIs ==
  ASSUME NEW w, NEW j \in Nat, j < 16
  PROVE  j \in Crc!Bits(w, 16) <=> (w \div Powers[j + 1]) % 2 = 1
<1>1. j \in 0..(16 - 1)
  OBVIOUS
<1>2. j \in Crc!Bits(w, 16) <=> (w \div 2 ^ j) % 2 = 1
  BY <1>1, Zenon DEF Crc!Bits
<1> QED
  BY <1>2, PowerIs, Zenon

LEMMA BitsWithin ==
  ASSUME NEW w, NEW width \in Nat, NEW j \in Crc!Bits(w, width)
  PROVE  j \in Nat /\ j < width
<1>1. j \in 0..(width - 1)
  BY Zenon DEF Crc!Bits
<1> QED
  BY <1>1

(* The bits of a word are its digits.                                      *)
LEMMA WordIs ==
  ASSUME NEW n \in Nat, n < 256
  PROVE  /\ Crc!Word[n] \subseteq Nat
         /\ \A j \in Nat : j \in Crc!Word[n] <=> Digit(n, j) = 1
<1> DEFINE h == Crc!Crc32Tab[2 * n + 1]  l == Crc!Crc32Tab[2 * n + 2]
           up == Crc!Bits(h, 16)  low == Crc!Bits(l, 16)
<1>1. Crc!Word[n] = {x + 16 : x \in up} \cup low
  <2>1. n \in Crc!Byte
    BY DEF Crc!Byte
  <2> QED
    BY <2>1, Zenon DEF Crc!Word
<1>2. /\ \A x \in up : x \in Nat /\ x < 16
      /\ \A x \in low : x \in Nat /\ x < 16
  BY BitsWithin
<1>3. \A x \in Nat : x < 16 => /\ x \in up <=> (h \div Powers[x + 1]) % 2 = 1
                               /\ x \in low <=> (l \div Powers[x + 1]) % 2 = 1
  BY BitsIs, Zenon
<1> HIDE DEF up, low
<1>4. Crc!Word[n] \subseteq Nat
  BY <1>1, <1>2
<1>5. ASSUME NEW j \in Nat PROVE j \in Crc!Word[n] <=> Digit(n, j) = 1
  <2>1. j \in {x + 16 : x \in up} <=> j > 15 /\ j - 16 \in up
    BY <1>2
  <2>2. CASE j > 31
    <3>1. ~(j \in Crc!Word[n])
      <4>1. j \notin low
        BY <1>2, <2>2
      <4>2. j - 16 \notin up
        BY <1>2, <2>2
      <4> QED
        BY <1>1, <2>1, <4>1, <4>2, Zenon
    <3> QED
      BY <3>1, <2>2 DEF Digit
  <2>3. CASE ~(j > 31) /\ j > 15
    <3> DEFINE x == j - 16
    <3>1. x \in Nat /\ x < 16 /\ x + 1 = j - 15
      BY <2>3
    <3>2. j \notin low
      BY <1>2, <2>3
    <3>3. x \in up <=> (h \div Powers[x + 1]) % 2 = 1
      BY <1>3, <3>1, Zenon
    <3>4. Digit(n, j) = (h \div Powers[j - 15]) % 2
      BY <2>3, Zenon DEF Digit
    <3> QED
      BY <1>1, <2>1, <2>3, <3>1, <3>2, <3>3, <3>4, Zenon
  <2>4. CASE ~(j > 31) /\ ~(j > 15)
    <3>1. j < 16
      BY <2>4
    <3>2. j \in low <=> (l \div Powers[j + 1]) % 2 = 1
      BY <1>3, <3>1, Zenon
    <3>3. Digit(n, j) = (l \div Powers[j + 1]) % 2
      BY <2>4, Zenon DEF Digit
    <3> QED
      BY <1>1, <2>1, <2>4, <3>2, <3>3, Zenon
  <2> QED
    BY <2>2, <2>3, <2>4, Zenon
<1> QED
  BY <1>4, <1>5, Zenon

(* Exclusive or, shifts and the step of one bit, bit by bit.               *)
LEMMA XorIs == \A aa, bb, x : x \in Crc!Xor(aa, bb) <=> ~(x \in aa <=> x \in bb)
  BY Zenon DEF Crc!Xor

LEMMA ShiftIs ==
  ASSUME NEW s \in SUBSET Nat, NEW n \in Nat
  PROVE  /\ Crc!Shift(s, n) \in SUBSET Nat
         /\ \A x \in Nat : x \in Crc!Shift(s, n) <=> x + n \in s
<1>1. \A x \in Crc!Shift(s, n) : x \in Nat /\ x + n \in s
  BY DEF Crc!Shift
<1>2. ASSUME NEW x \in Nat, x + n \in s PROVE x \in Crc!Shift(s, n)
  <2>1. x + n >= n /\ (x + n) - n = x
    OBVIOUS
  <2> QED
    BY <1>2, <2>1 DEF Crc!Shift
<1> QED
  BY <1>1, <1>2

LEMMA PolynomialWithin == \A x \in Crc!Polynomial : x \in Nat /\ x < 32
  BY DEF Crc!Polynomial

LEMMA BitIs ==
  ASSUME NEW s \in SUBSET Nat
  PROVE  /\ Crc!Bit(s) \in SUBSET Nat
         /\ \A x \in Nat : x \in Crc!Bit(s) <=> ~(x + 1 \in s <=> 0 \in s /\ x \in Crc!Polynomial)
<1>1. /\ Crc!Shift(s, 1) \in SUBSET Nat
      /\ \A x \in Nat : x \in Crc!Shift(s, 1) <=> x + 1 \in s
  BY ShiftIs
<1>2. CASE 0 \in s
  <2>1. Crc!Bit(s) = Crc!Xor(Crc!Shift(s, 1), Crc!Polynomial)
    BY <1>2, Zenon DEF Crc!Bit
  <2>2. \A x : x \in Crc!Bit(s) <=> ~(x \in Crc!Shift(s, 1) <=> x \in Crc!Polynomial)
    BY <2>1, Zenon DEF Crc!Xor
  <2> QED
    BY <1>1, <1>2, <2>2, PolynomialWithin, Zenon
<1>3. CASE 0 \notin s
  <2>1. Crc!Bit(s) = Crc!Shift(s, 1)
    BY <1>3, Zenon DEF Crc!Bit
  <2> QED
    BY <1>1, <1>3, <2>1, Zenon
<1> QED
  BY <1>2, <1>3

(* A register has 32 bits.                                                 *)
Register(s) == s \in SUBSET Nat /\ \A x \in s : x < 32

LEMMA XorRegister ==
  ASSUME NEW s, NEW t
  PROVE  /\ s \in SUBSET Nat /\ t \in SUBSET Nat => Crc!Xor(s, t) \in SUBSET Nat
         /\ Register(s) /\ Register(t) => Register(Crc!Xor(s, t))
  BY Zenon DEF Register, Crc!Xor

LEMMA ShiftRegister == ASSUME NEW s, Register(s), NEW n \in Nat PROVE Register(Crc!Shift(s, n))
<1>1. s \in SUBSET Nat /\ \A x \in s : x < 32
  BY DEF Register
<1>2. /\ Crc!Shift(s, n) \in SUBSET Nat
      /\ \A x \in Nat : x \in Crc!Shift(s, n) <=> x + n \in s
  BY <1>1, ShiftIs
<1>3. \A x \in Nat : x + n < 32 => x < 32
  OBVIOUS
<1> QED
  BY <1>1, <1>2, <1>3, Zenon DEF Register

LEMMA BitRegister == ASSUME NEW s, Register(s) PROVE Register(Crc!Bit(s))
<1>1. s \in SUBSET Nat
  BY DEF Register
<1>2. /\ Crc!Bit(s) \in SUBSET Nat
      /\ \A x \in Nat : x \in Crc!Bit(s) <=> ~(x + 1 \in s <=> 0 \in s /\ x \in Crc!Polynomial)
  BY <1>1, BitIs
<1>3. ASSUME NEW x \in Crc!Bit(s) PROVE x < 32
  <2>1. x \in Nat /\ (x + 1 \in s \/ x \in Crc!Polynomial)
    BY <1>2, Zenon
  <2>2. x + 1 \in s => x + 1 < 32
    BY DEF Register
  <2>3. x \in Crc!Polynomial => x < 32
    BY PolynomialWithin
  <2> QED
    BY <2>1, <2>2, <2>3
<1> QED
  BY <1>2, <1>3 DEF Register

LEMMA SameBits ==
  ASSUME NEW s \in SUBSET Nat, NEW t \in SUBSET Nat, \A x \in Nat : x \in s <=> x \in t
  PROVE  s = t
  OBVIOUS

LEMMA BitXor ==
  ASSUME NEW s \in SUBSET Nat, NEW t \in SUBSET Nat
  PROVE  Crc!Bit(Crc!Xor(s, t)) = Crc!Xor(Crc!Bit(s), Crc!Bit(t))
<1> DEFINE both == Crc!Xor(s, t)
<1>1. both \in SUBSET Nat
  BY XorRegister
<1>2. \A x : x \in both <=> ~(x \in s <=> x \in t)
  BY XorIs, Zenon
<1> HIDE DEF both
<1>3. Crc!Bit(both) \in SUBSET Nat /\ Crc!Bit(s) \in SUBSET Nat /\ Crc!Bit(t) \in SUBSET Nat
  BY <1>1, BitIs
<1>4. Crc!Xor(Crc!Bit(s), Crc!Bit(t)) \in SUBSET Nat
  BY <1>3, XorRegister
<1>5. ASSUME NEW x \in Nat
      PROVE  x \in Crc!Bit(both) <=> x \in Crc!Xor(Crc!Bit(s), Crc!Bit(t))
  <2>1. /\ x \in Crc!Bit(both) <=> ~(x + 1 \in both <=> 0 \in both /\ x \in Crc!Polynomial)
        /\ x \in Crc!Bit(s) <=> ~(x + 1 \in s <=> 0 \in s /\ x \in Crc!Polynomial)
        /\ x \in Crc!Bit(t) <=> ~(x + 1 \in t <=> 0 \in t /\ x \in Crc!Polynomial)
    BY <1>1, BitIs, Zenon
  <2>2. x \in Crc!Xor(Crc!Bit(s), Crc!Bit(t)) <=> ~(x \in Crc!Bit(s) <=> x \in Crc!Bit(t))
    BY Zenon DEF Crc!Xor
  <2> QED
    BY <1>2, <2>1, <2>2, SMT
<1>6. Crc!Bit(both) = Crc!Xor(Crc!Bit(s), Crc!Bit(t))
  BY <1>3, <1>4, <1>5, SameBits
<1> QED
  BY <1>6 DEF both

(* The step of one bit can be undone.                                      *)
LEMMA BitOnce ==
  ASSUME NEW s, NEW t, Register(s), Register(t), Crc!Bit(s) = Crc!Bit(t)
  PROVE  s = t
<1>1. s \in SUBSET Nat /\ t \in SUBSET Nat
  BY DEF Register
<1>2. \A x \in Nat : ~(x + 1 \in s <=> 0 \in s /\ x \in Crc!Polynomial)
                       <=> ~(x + 1 \in t <=> 0 \in t /\ x \in Crc!Polynomial)
  <2>1. /\ \A x \in Nat : x \in Crc!Bit(s) <=> ~(x + 1 \in s <=> 0 \in s /\ x \in Crc!Polynomial)
        /\ \A x \in Nat : x \in Crc!Bit(t) <=> ~(x + 1 \in t <=> 0 \in t /\ x \in Crc!Polynomial)
    BY <1>1, BitIs
  <2> QED
    BY <2>1, Zenon
<1>3. 0 \in s <=> 0 \in t
  <2>1. 31 \in Nat /\ 31 + 1 = 32 /\ ~(32 < 32)
    OBVIOUS
  <2>2. 31 \in Crc!Polynomial
    BY DEF Crc!Polynomial
  <2>3. 31 + 1 \notin s /\ 31 + 1 \notin t
    BY <2>1 DEF Register
  <2> QED
    BY <1>2, <2>1, <2>2, <2>3
<1>4. ASSUME NEW x \in Nat PROVE x \in s <=> x \in t
  <2>1. CASE x = 0
    BY <1>3, <2>1
  <2>2. CASE x # 0
    <3> DEFINE y == x - 1
    <3>1. y \in Nat /\ y + 1 = x
      BY <2>2
    <3> HIDE DEF y
    <3> QED
      BY <1>2, <1>3, <3>1
  <2> QED
    BY <2>1, <2>2
<1> QED
  BY <1>1, <1>4, SameBits

LEMMA EightRegister == ASSUME NEW s, Register(s) PROVE Register(Crc!Eight(s))
  BY BitRegister, Zenon DEF Crc!Eight

LEMMA EightBit == \A s : Crc!Bit(Crc!Eight(s)) = Crc!Eight(Crc!Bit(s))
  BY Zenon DEF Crc!Eight

(* The words by which the others are found.                                *)
LEMMA DigitAbove == \A n, j \in Nat : ~(j < 32) => Digit(n, j) = 0
  BY DEF Digit

LEMMA WordHalf ==
  ASSUME NEW m \in Nat, m < 128
  PROVE  Crc!Word[m] = Crc!Bit(Crc!Word[2 * m])
<1> DEFINE v == Crc!Word[2 * m]
<1>1. 2 * m \in Nat /\ 2 * m < 256 /\ m < 256
  OBVIOUS
<1>2. /\ Crc!Word[m] \in SUBSET Nat /\ v \in SUBSET Nat
      /\ \A j \in Nat : /\ j \in Crc!Word[m] <=> Digit(m, j) = 1
                        /\ j \in v <=> Digit(2 * m, j) = 1
  BY <1>1, WordIs
<1> HIDE DEF v
<1>3. /\ Crc!Bit(v) \in SUBSET Nat
      /\ \A j \in Nat : j \in Crc!Bit(v) <=> ~(j + 1 \in v <=> 0 \in v /\ j \in Crc!Polynomial)
  BY <1>2, BitIs
<1>4. ASSUME NEW j \in Nat PROVE j \in Crc!Word[m] <=> j \in Crc!Bit(v)
  <2> DEFINE d == Digit(m, j)  e == Digit(2 * m, j + 1)  f == Digit(2 * m, 0)
  <2>1. j + 1 \in Nat /\ 0 \in Nat
    OBVIOUS
  <2>2. (d = 0 \/ d = 1) /\ (e = 0 \/ e = 1) /\ (f = 0 \/ f = 1)
    BY <1>1, <2>1, DigitType
  <2>3. (j \in Crc!Word[m] <=> d = 1) /\ (j + 1 \in v <=> e = 1) /\ (0 \in v <=> f = 1)
    BY <1>2, <2>1, Zenon
  <2>4. CASE j < 32
    <3>1. d = (e + (IF j \in Crc!Polynomial THEN f ELSE 0)) % 2
      BY <2>4, HalvedDigits DEF Halved
    <3> HIDE DEF d, e, f
    <3>2. CASE j \in Crc!Polynomial
      <4>1. d = (e + f) % 2
        BY <3>1, <3>2
      <4>2. d = 1 <=> ~(e = 1 <=> f = 1)
        BY <2>2, <4>1
      <4> QED
        BY <1>3, <2>3, <3>2, <4>2, Zenon
    <3>3. CASE j \notin Crc!Polynomial
      <4>1. d = (e + 0) % 2
        BY <3>1, <3>3
      <4>2. d = 1 <=> e = 1
        BY <2>2, <4>1
      <4> QED
        BY <1>3, <2>3, <3>3, <4>2, Zenon
    <3> QED
      BY <3>2, <3>3
  <2>5. CASE ~(j < 32)
    <3>1. d = 0 /\ e = 0
      <4>1. ~(j + 1 < 32)
        BY <2>5
      <4> QED
        BY <1>1, <2>1, <2>5, <4>1, DigitAbove
    <3>2. j \notin Crc!Polynomial
      BY <2>5, PolynomialWithin
    <3> HIDE DEF d, e, f
    <3>3. d # 1 /\ e # 1
      BY <3>1
    <3> QED
      BY <1>3, <2>3, <3>2, <3>3, Zenon
  <2> QED
    BY <2>4, <2>5
<1>5. Crc!Word[m] = Crc!Bit(v)
  BY <1>2, <1>3, <1>4, SameBits
<1> QED
  BY <1>5 DEF v

LEMMA WordOdd ==
  ASSUME NEW m \in Nat, m < 128
  PROVE  Crc!Word[2 * m + 1] = Crc!Xor(Crc!Word[2 * m], Crc!Word[1])
<1> DEFINE u == Crc!Word[2 * m + 1]  v == Crc!Word[2 * m]  w == Crc!Word[1]
<1>1. /\ 2 * m \in Nat /\ 2 * m < 256 /\ 2 * m + 1 \in Nat /\ 2 * m + 1 < 256
      /\ 1 \in Nat /\ 1 < 256
  OBVIOUS
<1>2. /\ u \in SUBSET Nat /\ v \in SUBSET Nat /\ w \in SUBSET Nat
      /\ \A j \in Nat : /\ j \in u <=> Digit(2 * m + 1, j) = 1
                        /\ j \in v <=> Digit(2 * m, j) = 1
                        /\ j \in w <=> Digit(1, j) = 1
  BY <1>1, WordIs
<1> HIDE DEF u, v, w
<1>3. Crc!Xor(v, w) \in SUBSET Nat
  BY <1>2, XorRegister
<1>4. ASSUME NEW j \in Nat PROVE j \in u <=> j \in Crc!Xor(v, w)
  <2> DEFINE d == Digit(2 * m + 1, j)  e == Digit(2 * m, j)  f == Digit(1, j)
  <2>1. (d = 0 \/ d = 1) /\ (e = 0 \/ e = 1) /\ (f = 0 \/ f = 1)
    BY <1>1, DigitType
  <2>2. d = (e + f) % 2
    <3>1. CASE j < 32
      BY <3>1, OddDigits DEF Odd
    <3>2. CASE ~(j < 32)
      <4>1. d = 0 /\ e = 0 /\ f = 0
        BY <1>1, <3>2, DigitAbove
      <4> QED
        BY <4>1
    <3> QED
      BY <3>1, <3>2
  <2>3. (j \in u <=> d = 1) /\ (j \in v <=> e = 1) /\ (j \in w <=> f = 1)
    BY <1>2, Zenon
  <2> HIDE DEF d, e, f
  <2>4. d = 1 <=> ~(e = 1 <=> f = 1)
    BY <2>1, <2>2
  <2>5. j \in Crc!Xor(v, w) <=> ~(j \in v <=> j \in w)
    BY Zenon DEF Crc!Xor
  <2> QED
    BY <2>3, <2>4, <2>5, Zenon
<1>5. u = Crc!Xor(v, w)
  BY <1>2, <1>3, <1>4, SameBits
<1> QED
  BY <1>5 DEF u, v, w

LEMMA WordZero == Crc!Word[0] = {}
<1>1. 0 \in Nat /\ 0 < 256 /\ 2 * 0 + 1 = 1 /\ 2 * 0 + 2 = 2
  OBVIOUS
<1>2. Crc!Crc32Tab[1] = 0 /\ Crc!Crc32Tab[2] = 0
  BY DEF Crc!Crc32Tab
<1>3. \A p \in Nat \ {0} : (0 \div p) % 2 = 0
  OBVIOUS
<1>4. ASSUME NEW j \in Nat, j < 32 PROVE Digit(0, j) = 0
  <2>1. CASE j > 15
    <3>1. Powers[j - 15] \in Nat \ {0}
      BY <1>4, <2>1 DEF Powers
    <3>2. Digit(0, j) = (0 \div Powers[j - 15]) % 2
      BY <1>1, <1>2, <1>4, <2>1 DEF Digit
    <3> QED
      BY <1>3, <3>1, <3>2
  <2>2. CASE ~(j > 15)
    <3>1. Powers[j + 1] \in Nat \ {0}
      BY <2>2 DEF Powers
    <3>2. Digit(0, j) = (0 \div Powers[j + 1]) % 2
      BY <1>1, <1>2, <1>4, <2>2 DEF Digit
    <3> QED
      BY <1>3, <3>1, <3>2
  <2> QED
    BY <2>1, <2>2
<1>5. \A j \in Nat : Digit(0, j) = 0
  BY <1>1, <1>4, DigitAbove
<1>6. Crc!Word[0] \subseteq Nat /\ \A j \in Nat : j \in Crc!Word[0] <=> Digit(0, j) = 1
  BY <1>1, WordIs
<1> QED
  BY <1>5, <1>6

LEMMA WordLast == Crc!Word[128] = Crc!Polynomial
<1>1. /\ 128 \in Nat /\ 128 < 256 /\ 2 * 128 + 1 = 257 /\ 2 * 128 + 2 = 258
      /\ Crc!Crc32Tab[257] = 60856 /\ Crc!Crc32Tab[258] = 33568
  BY DEF Crc!Crc32Tab
<1>2. Digit(128, 0) = 0 /\ Digit(128, 1) = 0 /\ Digit(128, 2) = 0 /\ Digit(128, 3) = 0
  BY <1>1, SMTT(60) DEF Digit, Powers
<1>3. Digit(128, 4) = 0 /\ Digit(128, 5) = 1 /\ Digit(128, 6) = 0 /\ Digit(128, 7) = 0
  BY <1>1, SMTT(60) DEF Digit, Powers
<1>4. Digit(128, 8) = 1 /\ Digit(128, 9) = 1 /\ Digit(128, 10) = 0 /\ Digit(128, 11) = 0
  BY <1>1, SMTT(60) DEF Digit, Powers
<1>5. Digit(128, 12) = 0 /\ Digit(128, 13) = 0 /\ Digit(128, 14) = 0 /\ Digit(128, 15) = 1
  BY <1>1, SMTT(60) DEF Digit, Powers
<1>6. Digit(128, 16) = 0 /\ Digit(128, 17) = 0 /\ Digit(128, 18) = 0 /\ Digit(128, 19) = 1
  BY <1>1, SMTT(60) DEF Digit, Powers
<1>7. Digit(128, 20) = 1 /\ Digit(128, 21) = 1 /\ Digit(128, 22) = 0 /\ Digit(128, 23) = 1
  BY <1>1, SMTT(60) DEF Digit, Powers
<1>8. Digit(128, 24) = 1 /\ Digit(128, 25) = 0 /\ Digit(128, 26) = 1 /\ Digit(128, 27) = 1
  BY <1>1, SMTT(60) DEF Digit, Powers
<1>9. Digit(128, 28) = 0 /\ Digit(128, 29) = 1 /\ Digit(128, 30) = 1 /\ Digit(128, 31) = 1
  BY <1>1, SMTT(60) DEF Digit, Powers
<1>10. Crc!Word[128] \in SUBSET Nat /\ \A j \in Nat : j \in Crc!Word[128] <=> Digit(128, j) = 1
  BY <1>1, WordIs
<1>11. ASSUME NEW j \in Nat PROVE j \in Crc!Word[128] <=> j \in Crc!Polynomial
  <2>1. CASE j < 32
    <3>1. \/ j = 0 \/ j = 1 \/ j = 2 \/ j = 3 \/ j = 4 \/ j = 5 \/ j = 6 \/ j = 7
          \/ j = 8 \/ j = 9 \/ j = 10 \/ j = 11 \/ j = 12 \/ j = 13 \/ j = 14 \/ j = 15
          \/ j = 16 \/ j = 17 \/ j = 18 \/ j = 19 \/ j = 20 \/ j = 21 \/ j = 22 \/ j = 23
          \/ j = 24 \/ j = 25 \/ j = 26 \/ j = 27 \/ j = 28 \/ j = 29 \/ j = 30 \/ j = 31
      BY <2>1
    <3>2. Digit(128, j) = 1 <=> j \in Crc!Polynomial
      BY <1>2, <1>3, <1>4, <1>5, <1>6, <1>7, <1>8, <1>9, <3>1 DEF Crc!Polynomial
    <3> QED
      BY <1>10, <3>2, Zenon
  <2>2. CASE ~(j < 32)
    <3>1. Digit(128, j) = 0 /\ j \notin Crc!Polynomial
      BY <1>1, <2>2, DigitAbove, PolynomialWithin
    <3> QED
      BY <1>10, <3>1
  <2> QED
    BY <2>1, <2>2
<1>12. Crc!Polynomial \in SUBSET Nat
  BY PolynomialWithin
<1> QED
  BY <1>10, <1>11, <1>12, SameBits

(* Word 1 is what eight steps make of the lowest bit.                      *)
LEMMA WordFirst == Crc!Word[1] = Crc!Eight({0})
<1>1. Crc!Bit({0}) = Crc!Polynomial
  <2>1. {0} \in SUBSET Nat /\ Crc!Polynomial \in SUBSET Nat
    BY PolynomialWithin
  <2>2. /\ Crc!Bit({0}) \in SUBSET Nat
        /\ \A x \in Nat : x \in Crc!Bit({0}) <=> ~(x + 1 \in {0} <=> 0 \in {0} /\ x \in Crc!Polynomial)
    BY <2>1, BitIs
  <2>3. \A x \in Nat : x + 1 \notin {0}
    OBVIOUS
  <2>4. \A x \in Nat : x \in Crc!Bit({0}) <=> x \in Crc!Polynomial
    BY <2>2, <2>3
  <2> QED
    BY <2>1, <2>2, <2>4, SameBits
<1>2. /\ Crc!Word[64] = Crc!Bit(Crc!Word[128]) /\ Crc!Word[32] = Crc!Bit(Crc!Word[64])
      /\ Crc!Word[16] = Crc!Bit(Crc!Word[32]) /\ Crc!Word[8] = Crc!Bit(Crc!Word[16])
      /\ Crc!Word[4] = Crc!Bit(Crc!Word[8]) /\ Crc!Word[2] = Crc!Bit(Crc!Word[4])
      /\ Crc!Word[1] = Crc!Bit(Crc!Word[2])
  <2>1. \A m, n \in Nat : m < 128 /\ n = 2 * m => Crc!Word[m] = Crc!Bit(Crc!Word[n])
    BY WordHalf
  <2> QED
    BY <2>1
<1> QED
  BY <1>1, <1>2, WordLast, SMT DEF Crc!Eight

(* The number of a register of which only the lower eight bits are set.    *)
Small(s) == s \in SUBSET Nat /\ \A x \in s : x < 8

LEMMA NumberFacts ==
  ASSUME NEW s \in SUBSET Nat
  PROVE  Crc!Number(s) \in Nat /\ Crc!Number(s) < 256 /\ (s = {} => Crc!Number(s) = 0)
  BY SMT DEF Crc!Number

LEMMA NumberHalf ==
  ASSUME NEW s, Small(s)
  PROVE  /\ Crc!Number(Crc!Shift(s, 1)) < 128
         /\ 0 \in s => Crc!Number(s) = 2 * Crc!Number(Crc!Shift(s, 1)) + 1
         /\ 0 \notin s => Crc!Number(s) = 2 * Crc!Number(Crc!Shift(s, 1))
<1> DEFINE t == Crc!Shift(s, 1)
<1>1. s \in SUBSET Nat /\ \A x \in s : x < 8
  BY DEF Small
<1>2. t \in SUBSET Nat /\ \A x \in Nat : x \in t <=> x + 1 \in s
  BY <1>1, ShiftIs
<1> HIDE DEF t
<1>3. /\ (0 \in t <=> 1 \in s) /\ (1 \in t <=> 2 \in s) /\ (2 \in t <=> 3 \in s) /\ (3 \in t <=> 4 \in s)
      /\ (4 \in t <=> 5 \in s) /\ (5 \in t <=> 6 \in s) /\ (6 \in t <=> 7 \in s) /\ 7 \notin t
  <2>1. 8 \notin s
    BY <1>1
  <2> QED
    BY <1>2, <2>1
<1>4. /\ Crc!Number(t) < 128
      /\ 0 \in s => Crc!Number(s) = 2 * Crc!Number(t) + 1
      /\ 0 \notin s => Crc!Number(s) = 2 * Crc!Number(t)
  BY <1>3, SMT DEF Crc!Number
<1> QED
  BY <1>4 DEF t

(* The table holds what eight steps of one bit make of the lower bits.     *)
LEMMA EightEmpty == Crc!Eight({}) = {}
<1>1. Crc!Bit({}) = {}
  <2>1. Crc!Bit({}) = Crc!Shift({}, 1)
    BY Zenon DEF Crc!Bit
  <2> QED
    BY <2>1 DEF Crc!Shift
<1> QED
  BY <1>1, Zenon DEF Crc!Eight

LEMMA EightXor ==
  ASSUME NEW s \in SUBSET Nat, NEW t \in SUBSET Nat
  PROVE  Crc!Eight(Crc!Xor(s, t)) = Crc!Xor(Crc!Eight(s), Crc!Eight(t))
<1>1. \A u, v \in SUBSET Nat : /\ Crc!Bit(u) \in SUBSET Nat
                               /\ Crc!Bit(Crc!Xor(u, v)) = Crc!Xor(Crc!Bit(u), Crc!Bit(v))
  BY BitIs, BitXor
<1> DEFINE s1 == Crc!Bit(s)  s2 == Crc!Bit(s1)  s3 == Crc!Bit(s2)  s4 == Crc!Bit(s3)
           s5 == Crc!Bit(s4)  s6 == Crc!Bit(s5)  s7 == Crc!Bit(s6)  s8 == Crc!Bit(s7)
           t1 == Crc!Bit(t)  t2 == Crc!Bit(t1)  t3 == Crc!Bit(t2)  t4 == Crc!Bit(t3)
           t5 == Crc!Bit(t4)  t6 == Crc!Bit(t5)  t7 == Crc!Bit(t6)  t8 == Crc!Bit(t7)
<1>2. s1 \in SUBSET Nat /\ t1 \in SUBSET Nat /\ Crc!Bit(Crc!Xor(s, t)) = Crc!Xor(s1, t1)
  BY <1>1, Zenon
<1>3. s2 \in SUBSET Nat /\ t2 \in SUBSET Nat /\ Crc!Bit(Crc!Xor(s1, t1)) = Crc!Xor(s2, t2)
  <2> HIDE DEF s1, t1
  <2> QED
    BY <1>1, <1>2, Zenon
<1>4. s3 \in SUBSET Nat /\ t3 \in SUBSET Nat /\ Crc!Bit(Crc!Xor(s2, t2)) = Crc!Xor(s3, t3)
  <2> HIDE DEF s2, t2
  <2> QED
    BY <1>1, <1>3, Zenon
<1>5. s4 \in SUBSET Nat /\ t4 \in SUBSET Nat /\ Crc!Bit(Crc!Xor(s3, t3)) = Crc!Xor(s4, t4)
  <2> HIDE DEF s3, t3
  <2> QED
    BY <1>1, <1>4, Zenon
<1>6. s5 \in SUBSET Nat /\ t5 \in SUBSET Nat /\ Crc!Bit(Crc!Xor(s4, t4)) = Crc!Xor(s5, t5)
  <2> HIDE DEF s4, t4
  <2> QED
    BY <1>1, <1>5, Zenon
<1>7. s6 \in SUBSET Nat /\ t6 \in SUBSET Nat /\ Crc!Bit(Crc!Xor(s5, t5)) = Crc!Xor(s6, t6)
  <2> HIDE DEF s5, t5
  <2> QED
    BY <1>1, <1>6, Zenon
<1>8. s7 \in SUBSET Nat /\ t7 \in SUBSET Nat /\ Crc!Bit(Crc!Xor(s6, t6)) = Crc!Xor(s7, t7)
  <2> HIDE DEF s6, t6
  <2> QED
    BY <1>1, <1>7, Zenon
<1>9. s8 \in SUBSET Nat /\ t8 \in SUBSET Nat /\ Crc!Bit(Crc!Xor(s7, t7)) = Crc!Xor(s8, t8)
  <2> HIDE DEF s7, t7
  <2> QED
    BY <1>1, <1>8, Zenon
<1> QED
  BY <1>2, <1>3, <1>4, <1>5, <1>6, <1>7, <1>8, <1>9, SMT DEF Crc!Eight

LEMMA WordRegister == ASSUME NEW n \in Nat, n < 256 PROVE Register(Crc!Word[n])
<1>1. Crc!Word[n] \subseteq Nat /\ \A j \in Nat : j \in Crc!Word[n] <=> Digit(n, j) = 1
  BY WordIs
<1>2. \A j \in Nat : Digit(n, j) = 1 => j < 32
  BY DigitAbove
<1> QED
  BY <1>1, <1>2, Zenon DEF Register

(* By the number of bits that may be set.                                  *)
LEMMA EntryOf == ASSUME NEW s, Small(s) PROVE Crc!Word[Crc!Number(s)] = Crc!Eight(s)
<1> DEFINE Lowest(k) == {x \in SUBSET Nat : \A y \in x : y < k}
           U == {k \in 0..8 : \A x \in Lowest(k) : Crc!Word[Crc!Number(x)] = Crc!Eight(x)}
<1>1. 0 \in U
  <2>1. \A x \in Lowest(0) : x = {}
    OBVIOUS
  <2>2. Crc!Word[Crc!Number({})] = Crc!Eight({})
    BY NumberFacts, WordZero, EightEmpty
  <2>3. \A x \in Lowest(0) : Crc!Word[Crc!Number(x)] = Crc!Eight(x)
    <3> HIDE DEF Lowest
    <3> QED
      BY <2>1, <2>2, Zenon
  <2>4. 0 \in 0..8
    OBVIOUS
  <2> QED
    BY <2>3, <2>4, Zenon
<1>2. ASSUME NEW k \in 1..8, k - 1 \in U PROVE k \in U
  <2> SUFFICES ASSUME NEW x \in SUBSET Nat, \A y \in x : y < k
               PROVE  Crc!Word[Crc!Number(x)] = Crc!Eight(x)
    OBVIOUS
  <2> DEFINE t == Crc!Shift(x, 1)  m == Crc!Number(t)  even == x \ {0}
  <2>1. Small(x) /\ Register(x) /\ Small(even) /\ Register(even) /\ even \in SUBSET Nat
    BY DEF Small, Register
  <2>2. t \in SUBSET Nat /\ \A y \in Nat : y \in t <=> y + 1 \in x
    BY ShiftIs
  <2>3. t \in Lowest(k - 1)
    BY <2>2
  <2>4. Crc!Word[m] = Crc!Eight(t)
    BY <1>2, <2>3
  <2>5. m \in Nat /\ m < 128
    BY <2>1, <2>2, NumberFacts, NumberHalf
  <2>6. 0 \in x => Crc!Number(x) = 2 * m + 1
    BY <2>1, NumberHalf
  <2>7. 0 \notin x => Crc!Number(x) = 2 * m
    BY <2>1, NumberHalf
  <2> HIDE DEF m
  <2>8. Crc!Word[2 * m] = Crc!Eight(even)
    <3>1. Crc!Bit(even) = t
      <4>1. Crc!Bit(even) = Crc!Shift(even, 1)
        BY 0 \notin even, Zenon DEF Crc!Bit
      <4>2. \A y \in Nat : y \in Crc!Shift(even, 1) <=> y + 1 \in x
        <5>1. \A y \in Nat : y \in Crc!Shift(even, 1) <=> y + 1 \in even
          BY <2>1, ShiftIs
        <5>2. \A y \in Nat : y + 1 # 0
          OBVIOUS
        <5> QED
          BY <5>1, <5>2, Zenon
      <4>3. Crc!Shift(even, 1) \in SUBSET Nat
        BY <2>1, ShiftIs
      <4> HIDE DEF t, even
      <4> QED
        BY <2>2, <4>1, <4>2, <4>3, SameBits
    <3> HIDE DEF t, even
    <3>2. Crc!Bit(Crc!Eight(even)) = Crc!Bit(Crc!Word[2 * m])
      BY <2>4, <2>5, <3>1, EightBit, WordHalf
    <3>3. Register(Crc!Eight(even))
      BY <2>1, EightRegister
    <3>4. Register(Crc!Word[2 * m])
      BY <2>5, WordRegister
    <3> QED
      BY <3>2, <3>3, <3>4, BitOnce
  <2>9. CASE 0 \notin x
    BY <2>7, <2>8, <2>9, even = x
  <2>10. CASE 0 \in x
    <3>1. x = Crc!Xor(even, {0})
      BY <2>10 DEF Crc!Xor
    <3>2. Crc!Eight(Crc!Xor(even, {0})) = Crc!Xor(Crc!Eight(even), Crc!Eight({0}))
      BY <2>1, {0} \in SUBSET Nat, EightXor
    <3>3. Crc!Word[2 * m + 1] = Crc!Xor(Crc!Word[2 * m], Crc!Word[1])
      BY <2>5, WordOdd
    <3> HIDE DEF even
    <3>4. Crc!Eight(x) = Crc!Word[2 * m + 1]
      BY <2>8, <3>1, <3>2, <3>3, WordFirst, Zenon
    <3> QED
      BY <2>6, <2>10, <3>4, Zenon
  <2> QED
    BY <2>9, <2>10
<1>3. s \in Lowest(8)
  BY DEF Small
<1> HIDE DEF U
<1>4. 0..8 \subseteq U
  BY <1>1, <1>2, UpTo
<1>5. 8 \in U
  BY <1>4
<1> QED
  BY <1>3, <1>5 DEF U

(* A step of crc is eight steps of one bit.                                *)
LEMMA EightHigh ==
  ASSUME NEW s \in SUBSET Nat, \A x \in s : x > 7
  PROVE  Crc!Eight(s) = Crc!Shift(s, 8)
<1>1. ASSUME NEW n \in Nat, NEW m \in Nat, m = n + 1, m < 9
      PROVE  Crc!Bit(Crc!Shift(s, n)) = Crc!Shift(s, m)
  <2> DEFINE t == Crc!Shift(s, n)
  <2>1. t \in SUBSET Nat /\ \A x \in Nat : x \in t <=> x + n \in s
    BY ShiftIs
  <2> HIDE DEF t
  <2>2. 0 \notin t
    <3>1. 0 + n < 8
      BY <1>1
    <3> QED
      BY <2>1, <3>1
  <2>3. Crc!Bit(t) = Crc!Shift(t, 1)
    BY <2>2, Zenon DEF Crc!Bit
  <2>4. Crc!Shift(t, 1) \in SUBSET Nat /\ \A x \in Nat : x \in Crc!Shift(t, 1) <=> x + 1 \in t
    BY <2>1, ShiftIs
  <2>5. Crc!Shift(s, m) \in SUBSET Nat /\ \A x \in Nat : x \in Crc!Shift(s, m) <=> x + m \in s
    BY ShiftIs
  <2>6. \A x \in Nat : x + 1 \in Nat /\ (x + 1) + n = x + m
    BY <1>1
  <2>7. \A x \in Nat : x \in Crc!Shift(t, 1) <=> x \in Crc!Shift(s, m)
    BY <2>1, <2>4, <2>5, <2>6, Zenon
  <2>8. Crc!Shift(t, 1) = Crc!Shift(s, m)
    BY <2>4, <2>5, <2>7, SameBits, Zenon
  <2> QED
    BY <2>3, <2>8 DEF t
<1>2. Crc!Shift(s, 0) = s
  <2>1. Crc!Shift(s, 0) \in SUBSET Nat /\ \A x \in Nat : x \in Crc!Shift(s, 0) <=> x + 0 \in s
    BY ShiftIs
  <2>2. \A x \in Nat : x + 0 = x
    OBVIOUS
  <2> QED
    BY <2>1, <2>2, SameBits
<1>3. /\ Crc!Bit(s) = Crc!Shift(s, 1) /\ Crc!Bit(Crc!Shift(s, 1)) = Crc!Shift(s, 2)
      /\ Crc!Bit(Crc!Shift(s, 2)) = Crc!Shift(s, 3) /\ Crc!Bit(Crc!Shift(s, 3)) = Crc!Shift(s, 4)
      /\ Crc!Bit(Crc!Shift(s, 4)) = Crc!Shift(s, 5) /\ Crc!Bit(Crc!Shift(s, 5)) = Crc!Shift(s, 6)
      /\ Crc!Bit(Crc!Shift(s, 6)) = Crc!Shift(s, 7) /\ Crc!Bit(Crc!Shift(s, 7)) = Crc!Shift(s, 8)
  BY <1>1, <1>2
<1> QED
  BY <1>3, Zenon DEF Crc!Eight

LEMMA StepDivides ==
  ASSUME NEW s, Register(s), NEW byte \in Crc!Byte
  PROVE  Crc!Step(s, byte) = Crc!Divide(s, byte) /\ Register(Crc!Divide(s, byte))
<1> DEFINE b == Crc!Bits(byte, 8)
           x == Crc!Xor(s, b)
           low == x \cap 0..7
           high == x \ low
<1>1. Register(b) /\ \A y \in b : y < 8
  <2>1. \A y \in b : y \in Nat /\ y < 8
    BY BitsWithin
  <2> QED
    BY <2>1 DEF Register
<1>2. Register(x) /\ \A y : y \in x <=> ~(y \in s <=> y \in b)
  <2>1. Register(x)
    BY <1>1, XorRegister
  <2> QED
    BY <2>1, Zenon DEF Crc!Xor
<1>3. Crc!Step(s, byte) = Crc!Xor(Crc!Word[Crc!Number(low)], Crc!Shift(s, 8))
  BY Zenon DEF Crc!Step
<1>4. Crc!Divide(s, byte) = Crc!Eight(x)
  BY Zenon DEF Crc!Divide
<1> HIDE DEF x, b
<1>5. /\ Small(low) /\ low \in SUBSET Nat /\ high \in SUBSET Nat
      /\ \A y \in high : y > 7
  BY <1>2 DEF Small, Register
<1>6. x = Crc!Xor(low, high)
  BY DEF Crc!Xor
<1>7. \A y \in Nat : y > 7 => (y \in high <=> y \in s)
  BY <1>1, <1>2
<1> HIDE DEF low, high
<1>8. Crc!Shift(high, 8) = Crc!Shift(s, 8)
  <2>1. s \in SUBSET Nat
    BY DEF Register
  <2>2. /\ Crc!Shift(high, 8) \in SUBSET Nat /\ Crc!Shift(s, 8) \in SUBSET Nat
        /\ \A y \in Nat : /\ y \in Crc!Shift(high, 8) <=> y + 8 \in high
                          /\ y \in Crc!Shift(s, 8) <=> y + 8 \in s
    BY <1>5, <2>1, ShiftIs
  <2>3. \A y \in Nat : y + 8 \in Nat /\ y + 8 > 7
    OBVIOUS
  <2>4. \A y \in Nat : y \in Crc!Shift(high, 8) <=> y \in Crc!Shift(s, 8)
    BY <1>7, <2>2, <2>3
  <2>5. Crc!Shift(high, 8) \in SUBSET Nat /\ Crc!Shift(s, 8) \in SUBSET Nat
    BY <2>2, Zenon
  <2> QED
    BY <2>4, <2>5, SameBits
<1>9. Crc!Eight(x) = Crc!Xor(Crc!Eight(low), Crc!Eight(high))
  BY <1>5, <1>6, EightXor
<1>10. Crc!Eight(low) = Crc!Word[Crc!Number(low)] /\ Crc!Eight(high) = Crc!Shift(high, 8)
  BY <1>5, EntryOf, EightHigh
<1>11. Register(Crc!Eight(x))
  BY <1>2, EightRegister
<1> QED
  BY <1>3, <1>4, <1>8, <1>9, <1>10, <1>11, Zenon

(* The two loops over bytes are one fold.                                  *)
Registers == {s \in SUBSET Nat : \A x \in s : x < 32}
Divides == [x \in Registers \X Crc!Byte |-> Crc!Divide(x[1], x[2])]

LEMMA DividesFolder == ASSUME NEW s \in Registers PROVE Folder(Registers, Crc!Byte, s, Divides)
<1>1. \A t \in Registers, byte \in Crc!Byte : Crc!Divide(t, byte) \in Registers
  BY StepDivides, Zenon DEF Register, Registers
<1>2. \A x \in Registers \X Crc!Byte : Divides[x] \in Registers
  BY <1>1 DEF Divides
<1> QED
  BY <1>2 DEF Folder, Divides

LEMMA StepIs ==
  ASSUME NEW t \in Registers, NEW byte \in Crc!Byte
  PROVE  Crc!Step(t, byte) = Divides[<<t, byte>>] /\ Crc!Divide(t, byte) = Divides[<<t, byte>>]
<1>1. Crc!Step(t, byte) = Crc!Divide(t, byte)
  BY StepDivides, Zenon DEF Register, Registers
<1>2. <<t, byte>> \in Registers \X Crc!Byte
  OBVIOUS
<1>3. Divides[<<t, byte>>] = Crc!Divide(t, byte)
  BY <1>2 DEF Divides
<1> QED
  BY <1>1, <1>3

LEMMA AllOnesRegister == Crc!AllOnes \in Registers
  BY DEF Crc!AllOnes, Registers

LEMMA CrcIs ==
  ASSUME NEW s \in Seq(Crc!Byte), NEW base \in Registers
  PROVE  Crc!Crc(s, base) = Fold(Divides, base, s)
<1> DEFINE n == Len(s)
           D == SUBSET (1..n)
           Eq(h) == h = [d \in D |-> IF d = {} THEN base ELSE Crc!Step(h[d \ {Max(d)}], s[Max(d)])]
<1>1. n \in Nat
  OBVIOUS
<1>2. Folder(Registers, Crc!Byte, base, Divides)
  BY DividesFolder
<1>3. PICK g \in [D -> Registers] : Iterates(g, n, base, Divides, s)
  BY <1>2, Iteration
<1>4. Eq(g)
  <2> SUFFICES ASSUME NEW d \in D, d # {} PROVE g[d] = Crc!Step(g[d \ {Max(d)}], s[Max(d)])
    BY <1>3 DEF Iterates
  <2>1. Max(d) \in 1..n /\ d \ {Max(d)} \in D
    BY <1>1, MaxWithin
  <2>2. g[d \ {Max(d)}] \in Registers /\ s[Max(d)] \in Crc!Byte
    BY <2>1
  <2>3. g[d] = Divides[<<g[d \ {Max(d)}], s[Max(d)]>>]
    BY <1>3 DEF Iterates
  <2> QED
    BY <2>2, <2>3, StepIs
<1>5. Crc!Crc(s, base) = (CHOOSE h : Eq(h))[1..n]
  BY DOMAIN s = 1..n DEF Crc!Crc, Crc!FoldLeft, Crc!MapThenFoldSet, Crc!Max, Max
<1>6. PICK h : Eq(h) /\ Crc!Crc(s, base) = h[1..n]
  BY <1>4, <1>5
<1>7. h[{}] = base
  BY <1>6
<1>8. \A d \in SUBSET (1..Len(s)) : d # {} /\ h[d \ {Max(d)}] \in Registers
        => h[d] = Divides[<<h[d \ {Max(d)}], s[Max(d)]>>]
  <2> SUFFICES ASSUME NEW d \in D, d # {}, h[d \ {Max(d)}] \in Registers
               PROVE  h[d] = Divides[<<h[d \ {Max(d)}], s[Max(d)]>>]
    OBVIOUS
  <2>1. Max(d) \in 1..n
    BY <1>1, MaxWithin
  <2>2. s[Max(d)] \in Crc!Byte
    BY <2>1
  <2>3. h[d] = Crc!Step(h[d \ {Max(d)}], s[Max(d)])
    BY <1>6
  <2> QED
    BY <2>2, <2>3, StepIs
<1>9. Agrees(h, Registers, base, Divides, s)
  BY <1>7, <1>8 DEF Agrees
<1>10. h[1..Len(s)] = Fold(Divides, base, s)
  BY <1>2, <1>9, FoldOf
<1> QED
  BY <1>6, <1>10

LEMMA RemainderIs ==
  ASSUME NEW s \in Seq(Crc!Byte)
  PROVE  Crc!Remainder(s) = Fold(Divides, Crc!AllOnes, s)
<1> DEFINE base == Crc!AllOnes
           n == Len(s)
           D == SUBSET (1..n)
           Eq(h) == h = [d \in D |-> IF d = {} THEN base ELSE Crc!Divide(h[d \ {Max(d)}], s[Max(d)])]
<1>1. n \in Nat
  OBVIOUS
<1>2. Folder(Registers, Crc!Byte, base, Divides)
  BY AllOnesRegister, DividesFolder
<1>3. PICK g \in [D -> Registers] : Iterates(g, n, base, Divides, s)
  BY <1>2, Iteration
<1>4. Eq(g)
  <2> SUFFICES ASSUME NEW d \in D, d # {} PROVE g[d] = Crc!Divide(g[d \ {Max(d)}], s[Max(d)])
    BY <1>3 DEF Iterates
  <2>1. Max(d) \in 1..n /\ d \ {Max(d)} \in D
    BY <1>1, MaxWithin
  <2>2. g[d \ {Max(d)}] \in Registers /\ s[Max(d)] \in Crc!Byte
    BY <2>1
  <2>3. g[d] = Divides[<<g[d \ {Max(d)}], s[Max(d)]>>]
    BY <1>3 DEF Iterates
  <2> QED
    BY <2>2, <2>3, StepIs
<1>5. Crc!Remainder(s) = (CHOOSE h : Eq(h))[1..n]
  BY DOMAIN s = 1..n DEF Crc!Remainder, Crc!FoldLeft, Crc!MapThenFoldSet, Crc!Max, Max
<1>6. PICK h : Eq(h) /\ Crc!Remainder(s) = h[1..n]
  BY <1>4, <1>5
<1>7. h[{}] = base
  BY <1>6
<1>8. \A d \in SUBSET (1..Len(s)) : d # {} /\ h[d \ {Max(d)}] \in Registers
        => h[d] = Divides[<<h[d \ {Max(d)}], s[Max(d)]>>]
  <2> SUFFICES ASSUME NEW d \in D, d # {}, h[d \ {Max(d)}] \in Registers
               PROVE  h[d] = Divides[<<h[d \ {Max(d)}], s[Max(d)]>>]
    OBVIOUS
  <2>1. Max(d) \in 1..n
    BY <1>1, MaxWithin
  <2>2. s[Max(d)] \in Crc!Byte
    BY <2>1
  <2>3. h[d] = Crc!Divide(h[d \ {Max(d)}], s[Max(d)])
    BY <1>6
  <2> QED
    BY <2>2, <2>3, StepIs
<1>9. Agrees(h, Registers, base, Divides, s)
  BY <1>7, <1>8 DEF Agrees
<1>10. h[1..Len(s)] = Fold(Divides, base, s)
  BY <1>2, <1>9, FoldOf
<1> QED
  BY <1>6, <1>10

LEMMA FoldConcat ==
  ASSUME NEW S, NEW T, NEW base, NEW op, Folder(S, T, base, op), NEW s \in Seq(T), NEW t \in Seq(T)
  PROVE  /\ Fold(op, base, s) \in S
         /\ Fold(op, base, s \o t) = Fold(op, Fold(op, base, s), t)
<1> DEFINE n == Len(s)
           m == Len(t)
           whole == s \o t
           middle == Fold(op, base, s)
<1>1. /\ n \in Nat /\ m \in Nat /\ whole \in Seq(T) /\ Len(whole) = n + m
      /\ \A k \in 1..n : whole[k] = s[k]
      /\ \A k \in 1..m : whole[n + k] = t[k]
  OBVIOUS
<1> HIDE DEF whole
<1>first. PICK f \in [0..n -> S] : Folds(f, op, base, s)
  BY FoldIs, Zenon
<1>2. /\ f[0] = base /\ middle = f[n]
      /\ \A k \in 1..n : f[k] = op[<<f[k - 1], s[k]>>]
  BY <1>first DEF Folds
<1>3. middle \in S
  BY <1>1, <1>2
<1> HIDE DEF middle
<1>4. Folder(S, T, middle, op)
  BY <1>3 DEF Folder
<1>second. PICK g \in [0..m -> S] : Folds(g, op, middle, t)
  BY <1>4, FoldIs, Zenon
<1>5. /\ g[0] = middle /\ Fold(op, middle, t) = g[m]
      /\ \A k \in 1..m : g[k] = op[<<g[k - 1], t[k]>>]
  BY <1>second DEF Folds
<1>third. PICK h \in [0..Len(whole) -> S] : Folds(h, op, base, whole)
  BY <1>1, FoldIs, Zenon
<1>6. /\ h[0] = base /\ Fold(op, base, whole) = h[Len(whole)]
      /\ \A k \in 1..Len(whole) : h[k] = op[<<h[k - 1], whole[k]>>]
  BY <1>third DEF Folds
<1> DEFINE U == {k \in 0..n : h[k] = f[k]}
<1>7. n \in U
  <2>1. 0 \in U
    BY <1>1, <1>2, <1>6
  <2>2. ASSUME NEW k \in 1..n, k - 1 \in U PROVE k \in U
    <3>1. k \in 0..n /\ k \in 1..Len(whole)
      BY <1>1
    <3> QED
      BY <1>1, <1>2, <1>6, <2>2, <3>1
  <2> HIDE DEF U
  <2>3. 0..n \subseteq U
    BY <1>1, <2>1, <2>2, UpTo
  <2>4. n \in 0..n
    BY <1>1
  <2> QED
    BY <2>3, <2>4, Zenon
<1> DEFINE V == {k \in 0..m : h[n + k] = g[k]}
<1>8. m \in V
  <2>1. 0 \in V
    <3>1. h[n + 0] = g[0] /\ 0 \in 0..m
      BY <1>1, <1>2, <1>5, <1>7
    <3> QED
      BY <3>1
  <2>2. ASSUME NEW k \in 1..m, k - 1 \in V PROVE k \in V
    <3>1. k \in 0..m /\ n + k \in 1..Len(whole) /\ (n + k) - 1 = n + (k - 1)
      BY <1>1
    <3>2. h[n + k] = op[<<h[n + (k - 1)], whole[n + k]>>]
      BY <1>6, <3>1
    <3> QED
      BY <1>1, <1>5, <2>2, <3>1, <3>2
  <2> HIDE DEF V
  <2>3. 0..m \subseteq V
    BY <1>1, <2>1, <2>2, UpTo
  <2>4. m \in 0..m
    BY <1>1
  <2> QED
    BY <2>3, <2>4, Zenon
<1>9. h[Len(whole)] = g[m]
  BY <1>1, <1>8
<1>10. Fold(op, base, whole) = Fold(op, middle, t)
  BY <1>5, <1>6, <1>9
<1> QED
  BY <1>3, <1>10 DEF middle, whole

(* A page more.                                                            *)
LEMMA RemainderMore ==
  ASSUME NEW s \in Seq(Crc!Byte), NEW k \in 0..Len(s), NEW n \in Nat, k + n <= Len(s)
  PROVE  /\ Crc!Remainder(SubSeq(s, 1, k)) \in Registers
         /\ Crc!Crc(SubSeq(s, k + 1, k + n), Crc!Remainder(SubSeq(s, 1, k))) = Crc!Remainder(SubSeq(s, 1, k + n))
<1> DEFINE first == SubSeq(s, 1, k)
           next == SubSeq(s, k + 1, k + n)
           both == SubSeq(s, 1, k + n)
<1>1. first \in Seq(Crc!Byte) /\ next \in Seq(Crc!Byte) /\ both \in Seq(Crc!Byte)
  OBVIOUS
<1>2. both = first \o next
  OBVIOUS
<1> HIDE DEF first, next, both
<1>3. Folder(Registers, Crc!Byte, Crc!AllOnes, Divides)
  BY AllOnesRegister, DividesFolder
<1>4. /\ Fold(Divides, Crc!AllOnes, first) \in Registers
      /\ Fold(Divides, Crc!AllOnes, first \o next) = Fold(Divides, Fold(Divides, Crc!AllOnes, first), next)
  BY <1>1, <1>3, FoldConcat
<1>5. /\ Crc!Remainder(first) = Fold(Divides, Crc!AllOnes, first)
      /\ Crc!Remainder(both) = Fold(Divides, Crc!AllOnes, both)
  BY <1>1, RemainderIs
<1>6. Crc!Crc(next, Crc!Remainder(first)) = Fold(Divides, Crc!Remainder(first), next)
  BY <1>1, <1>4, <1>5, CrcIs
<1>7. Crc!Remainder(first) \in Registers /\ Crc!Crc(next, Crc!Remainder(first)) = Crc!Remainder(both)
  BY <1>2, <1>4, <1>5, <1>6, Zenon
<1> QED
  BY <1>7 DEF first, next, both

LEMMA CrcFacts == PageSize \in Nat \ {0} /\ Contents \subseteq Seq(Crc!Byte)
  BY FormatsAssumption DEF FormatsAssumption, Crc!CrcBlocksAssumption

(* The register is the remainder of the pages before the next one.         *)
WholePages(k) == k % PageSize = 0 \/ k = Len(content)
CrcType ==
  /\ content \in Seq(Crc!Byte) /\ length \in {-1, Len(content)} /\ block \in 0..Len(content)
  /\ outcome \in {"none", "printed", "memory error", "error", "killed"}
  /\ length = -1 => block = 0 /\ res = Crc!AllOnes /\ outcome \in {"none", "error"}
Reached ==
  outcome \in {"none", "printed", "memory error"} /\ ~failed_call =>
    WholePages(block) /\ res = Crc!Remainder(SubSeq(content, 1, block))
Ended ==
  /\ outcome = "none" => ~failed_call
  /\ outcome = "printed" => ~failed_call /\ block = Len(content)
  /\ outcome = "memory error" => res = Crc!AllOnes
CrcInv == CrcType /\ Reached /\ Ended

LEMMA RemainderNone == ASSUME NEW s \in Seq(Crc!Byte) PROVE Crc!Remainder(SubSeq(s, 1, 0)) = Crc!AllOnes
<1>1. SubSeq(s, 1, 0) = <<>> /\ <<>> \in Seq(Crc!Byte)
  OBVIOUS
<1>2. Folder(Registers, Crc!Byte, Crc!AllOnes, Divides)
  BY AllOnesRegister, DividesFolder
<1>3. Crc!Remainder(<<>>) = Fold(Divides, Crc!AllOnes, <<>>)
  BY <1>1, RemainderIs
<1>4. Fold(Divides, Crc!AllOnes, <<>>) = Crc!AllOnes
  BY <1>2, FoldEmpty
<1> QED
  BY <1>1, <1>3, <1>4

LEMMA OneMore == ASSUME NEW n \in Nat, NEW b \in Nat \ {0}, n % b = 0 PROVE (n + b) % b = 0
<1> DEFINE d == n \div b
           t == n % b
<1>1. d \in Int /\ t = 0 /\ n = b * d + t
  BY Divided
<1> HIDE DEF d, t
<1>2. b * (d + 1) = b * d + b
  BY <1>1
<1>3. d + 1 \in Int /\ n + b \in Int /\ 0 \in 0..(b - 1) /\ n + b = b * (d + 1) + 0
  BY <1>1, <1>2
<1> QED
  BY <1>3, Remains

LEMMA PagesDivide == ASSUME NEW k \in Nat, k % PageSize = 0 PROVE (k + PageSize) % PageSize = 0
  BY CrcFacts, OneMore

LEMMA CrcInit == Crc!Init => CrcInv
<1> SUFFICES ASSUME Crc!Init PROVE CrcInv
  OBVIOUS
<1>1. /\ content = <<>> /\ length = -1 /\ block = 0 /\ res = Crc!AllOnes
      /\ outcome = "none" /\ failed_call = FALSE
  BY DEF Crc!Init
<1>2. content \in Seq(Crc!Byte) /\ Len(content) = 0
  BY <1>1
<1>3. res = Crc!Remainder(SubSeq(content, 1, block))
  BY <1>1, <1>2, RemainderNone
<1>4. CrcType
  BY <1>1, <1>2 DEF CrcType
<1>5. Reached
  BY <1>1, <1>2, <1>3 DEF Reached, WholePages
<1> QED
  BY <1>1, <1>4, <1>5 DEF Ended, CrcInv

(* A page of n bytes, after which whole pages or the file have been read.  *)
LEMMA BlockKeeps ==
  ASSUME CrcInv, Crc!Running, NEW n \in Nat, block + n <= Len(content), Crc!Block(n),
         block' = block + n, UNCHANGED <<content, length>>, block % PageSize = 0 => WholePages(block + n)
  PROVE  CrcInv'
<1>1. /\ length = Len(content) /\ outcome = "none" /\ ~failed_call /\ content \in Seq(Crc!Byte)
      /\ block \in 0..Len(content) /\ length # -1
  BY DEF CrcInv, CrcType, Ended, Crc!Running
<1>2. WholePages(block) /\ res = Crc!Remainder(SubSeq(content, 1, block))
  BY <1>1 DEF CrcInv, Reached
<1>3. block' \in 0..Len(content)
  BY <1>1
<1>4. WholePages(block)'
  <2>1. CASE block % PageSize = 0
    <3>1. WholePages(block + n)
      BY <2>1
    <3> QED
      BY <3>1 DEF WholePages
  <2>2. CASE block = Len(content)
    BY <1>1, <2>2 DEF WholePages
  <2> QED
    BY <1>2, <2>1, <2>2 DEF WholePages
<1>5. CASE /\ res' = Crc!Crc(Crc!Page(n), res)
           /\ outcome' = IF res' = Crc!AllOnes THEN "memory error" ELSE "none"
           /\ UNCHANGED failed_call
  <2>1. res' = Crc!Remainder(SubSeq(content, 1, block + n))
    <3>1. res' = Crc!Crc(SubSeq(content, block + 1, block + n), Crc!Remainder(SubSeq(content, 1, block)))
      BY <1>2, <1>5 DEF Crc!Page
    <3> QED
      BY <1>1, <3>1, RemainderMore
  <2>2. CrcType'
    BY <1>1, <1>3, <1>5 DEF CrcType
  <2>3. Reached'
    BY <1>4, <2>1 DEF Reached
  <2>4. Ended'
    BY <1>1, <1>5 DEF Ended
  <2> QED
    BY <2>2, <2>3, <2>4 DEF CrcInv
<1>6. CASE res' = Crc!AllOnes /\ outcome' = "memory error" /\ failed_call' = TRUE
  BY <1>1, <1>3, <1>6 DEF CrcInv, CrcType, Reached, Ended
<1>7. CASE outcome' = "killed" /\ UNCHANGED <<res, failed_call>>
  BY <1>1, <1>3, <1>7 DEF CrcInv, CrcType, Reached, Ended
<1> QED
  BY <1>5, <1>6, <1>7 DEF Crc!Block

LEMMA CrcStep == ASSUME CrcInv, [Crc!Next]_(Crc!vars) PROVE CrcInv'
<1>1. ASSUME NEW file \in Contents, Crc!Open(file) PROVE CrcInv'
  <2>1. /\ length = -1 /\ outcome = "none" /\ content' = file /\ block' = block /\ res' = res
        /\ \/ length' = Len(file) /\ outcome' = outcome /\ failed_call' = failed_call
           \/ outcome' = "error" /\ failed_call' = TRUE /\ length' = length
    BY <1>1 DEF Crc!Open
  <2>2. block = 0 /\ res = Crc!AllOnes /\ file \in Seq(Crc!Byte) /\ ~failed_call
    BY <2>1, CrcFacts DEF CrcInv, CrcType, Ended
  <2>3. res' = Crc!Remainder(SubSeq(content', 1, block'))
    BY <2>1, <2>2, RemainderNone
  <2>4. WholePages(block)'
    BY <2>1, <2>2, CrcFacts DEF WholePages
  <2>5. CrcType'
    <3>1. Len(file) \in Nat
      BY <2>2
    <3>2. CASE length' = Len(file) /\ outcome' = outcome /\ failed_call' = failed_call
      BY <2>1, <2>2, <3>1, <3>2 DEF CrcType
    <3>3. CASE outcome' = "error" /\ failed_call' = TRUE /\ length' = length
      BY <2>1, <2>2, <3>1, <3>3 DEF CrcType
    <3> QED
      BY <2>1, <3>2, <3>3
  <2>6. Reached'
    BY <2>3, <2>4 DEF Reached
  <2>7. Ended'
    BY <2>1, <2>2 DEF Ended
  <2> QED
    BY <2>5, <2>6, <2>7 DEF CrcInv
<1>2. CASE Crc!Pages
  <2>1. /\ Crc!Running /\ block < length - PageSize /\ Crc!Block(PageSize) /\ block' = block + PageSize
        /\ UNCHANGED <<content, length>>
    BY <1>2 DEF Crc!Pages
  <2>2. PageSize \in Nat /\ block \in Nat /\ length = Len(content) /\ Len(content) \in Nat
    BY <2>1, CrcFacts DEF CrcInv, CrcType, Crc!Running
  <2>3. block + PageSize <= Len(content)
    BY <2>1, <2>2
  <2>4. block % PageSize = 0 => WholePages(block + PageSize)
    BY <2>2, PagesDivide DEF WholePages
  <2> QED
    BY <2>1, <2>2, <2>3, <2>4, BlockKeeps
<1>3. CASE Crc!LastPage
  <2> DEFINE n == length - block
  <2>1. /\ Crc!Running /\ block < length /\ Crc!Block(n) /\ block' = length
        /\ UNCHANGED <<content, length>>
    BY <1>3 DEF Crc!LastPage
  <2>2. block \in Nat /\ length = Len(content) /\ Len(content) \in Nat
    BY <2>1, CrcFacts DEF CrcInv, CrcType, Crc!Running
  <2>3. n \in Nat /\ block + n = Len(content) /\ block' = block + n /\ block + n <= Len(content)
    BY <2>1, <2>2
  <2>4. WholePages(block + n)
    BY <2>3 DEF WholePages
  <2> HIDE DEF n
  <2> QED
    BY <2>1, <2>3, <2>4, BlockKeeps
<1>4. CASE Crc!Finish
  <2>1. /\ Crc!Running /\ block = length /\ UNCHANGED <<content, length, block, res, failed_call>>
        /\ outcome' = IF res = Crc!AllOnes THEN "memory error" ELSE "printed"
    BY <1>4 DEF Crc!Finish
  <2>2. length = Len(content) /\ outcome = "none" /\ ~failed_call /\ length # -1
    <3>1. length \in {-1, Len(content)} /\ length >= 0 /\ outcome = "none" /\ ~failed_call
      BY <2>1 DEF CrcInv, CrcType, Ended, Crc!Running
    <3> QED
      BY <3>1
  <2>3. CrcType'
    BY <2>1, <2>2 DEF CrcInv, CrcType
  <2>4. Reached'
    BY <2>1, <2>2 DEF CrcInv, Reached, WholePages
  <2>5. Ended'
    BY <2>1, <2>2 DEF Ended
  <2> QED
    BY <2>3, <2>4, <2>5 DEF CrcInv
<1>5. CASE UNCHANGED Crc!vars
  BY <1>5 DEF Crc!vars, CrcInv, CrcType, Reached, Ended, WholePages
<1> QED
  BY <1>1, <1>2, <1>3, <1>4, <1>5 DEF Crc!Next

(* What is printed is the CRC-32 of the file by its polynomial, whatever   *)
(* the size of a page, and a file whose calls all succeed is refused only  *)
(* for a register of all ones (src/HW9/main.c).                            *)
THEOREM CrcIsExact == Crc!Spec => []CrcExact
<1>1. ASSUME CrcInv PROVE CrcExact
  <2>1. content \in Seq(Crc!Byte) /\ block \in 0..Len(content)
    BY <1>1 DEF CrcInv, CrcType
  <2>2. ASSUME outcome = "printed" PROVE ~failed_call /\ res = Crc!Remainder(content)
    <3>1. ~failed_call /\ block = Len(content) /\ res = Crc!Remainder(SubSeq(content, 1, block))
      BY <1>1, <2>2 DEF CrcInv, Reached, Ended
    <3>2. SubSeq(content, 1, Len(content)) = content
      BY <2>1
    <3> QED
      BY <3>1, <3>2
  <2>3. ASSUME outcome = "memory error", ~failed_call
        PROVE  /\ block % PageSize = 0 \/ block = Len(content)
               /\ Crc!Remainder(SubSeq(content, 1, block)) = Crc!AllOnes
    BY <1>1, <2>3 DEF CrcInv, Reached, Ended, WholePages
  <2> QED
    BY <2>1, <2>2, <2>3, Zenon DEF CrcExact, Crc!CrcExact
<1> QED
  BY <1>1, CrcInit, CrcStep, PTL DEF Crc!Spec

-----------------------------------------------------------------------------
(***************************************************************************)
(* The rarjpeg detector.                                                   *)
(***************************************************************************)
Reads(f, o, s) == o + Len(s) <= Len(f) /\ \A k \in 1..Len(s) : f[o + k] = s[k]

LEMMA HasIs ==
  ASSUME NEW S, NEW f \in Seq(S), NEW s \in Seq(S), NEW o \in Nat
  PROVE  Rar!Has(f, o, s) <=> Reads(f, o, s)
<1> DEFINE n == Len(s)
           v == SubSeq(f, o + 1, o + n)
<1>0. n \in Nat /\ Len(f) \in Nat
  OBVIOUS
<1>1. CASE o + n <= Len(f)
  <2>1. v \in Seq(S) /\ Len(v) = n /\ \A k \in 1..n : v[k] = f[o + k]
    BY <1>0, <1>1
  <2> HIDE DEF v
  <2>2. ASSUME v = s, NEW k \in 1..n PROVE f[o + k] = s[k]
    BY <2>1, <2>2
  <2>3. ASSUME \A k \in 1..n : f[o + k] = s[k] PROVE v = s
    <3>1. \A k \in 1..n : v[k] = s[k]
      BY <2>1, <2>3
    <3> QED
      BY <2>1, <3>1
  <2>4. Rar!Has(f, o, s) <=> v = s
    BY <1>1 DEF Rar!Has, Rar!At, v
  <2> QED
    BY <1>1, <2>2, <2>3, <2>4 DEF Reads
<1>2. CASE ~(o + n <= Len(f))
  BY <1>2 DEF Rar!Has, Reads
<1> QED
  BY <1>1, <1>2

(* A file with a picture before it.                                        *)
LEMMA Behind ==
  ASSUME NEW S, NEW p \in Seq(S), NEW z \in Seq(S)
  PROVE  /\ p \o z \in Seq(S) /\ Len(p \o z) = Len(p) + Len(z)
         /\ \A k \in 1..Len(p) : (p \o z)[k] = p[k]
         /\ \A k \in 1..Len(z) : (p \o z)[Len(p) + k] = z[k]
  OBVIOUS

LEMMA HasBehind ==
  ASSUME NEW S, NEW p \in Seq(S), NEW z \in Seq(S), NEW s \in Seq(S), NEW o \in Nat
  PROVE  Rar!Has(p \o z, Len(p) + o, s) <=> Rar!Has(z, o, s)
<1> DEFINE f == p \o z
           n == Len(p)
           m == Len(s)
<1>1. /\ f \in Seq(S) /\ Len(f) = n + Len(z) /\ n \in Nat /\ m \in Nat /\ Len(z) \in Nat
      /\ \A k \in 1..Len(z) : f[n + k] = z[k]
  OBVIOUS
<1> HIDE DEF f, n
<1>2. Rar!Has(f, n + o, s) <=> Reads(f, n + o, s)
  <2>1. n + o \in Nat
    BY <1>1
  <2> QED
    BY <1>1, <2>1, HasIs
<1>3. Rar!Has(z, o, s) <=> Reads(z, o, s)
  BY HasIs
<1> HIDE DEF m
<1>4. ASSUME o + m <= Len(z), NEW k \in 1..m
      PROVE  f[n + o + k] = z[o + k]
  <2>1. o + k \in 1..Len(z) /\ n + o + k = n + (o + k)
    BY <1>1, <1>4
  <2> QED
    BY <1>1, <2>1
<1>5. n + o + m <= Len(f) <=> o + m <= Len(z)
  BY <1>1
<1>6. Reads(f, n + o, s) <=> Reads(z, o, s)
  BY <1>4, <1>5 DEF Reads, m
<1> QED
  BY <1>2, <1>3, <1>6 DEF f, n

LEMMA HasInFront ==
  ASSUME NEW S, NEW p \in Seq(S), NEW z \in Seq(S), NEW s \in Seq(S), Rar!Has(p, 0, s)
  PROVE  Rar!Has(p \o z, 0, s)
<1> DEFINE f == p \o z
<1>1. /\ f \in Seq(S) /\ Len(f) = Len(p) + Len(z) /\ Len(p) \in Nat /\ Len(s) \in Nat /\ Len(z) \in Nat
      /\ \A k \in 1..Len(p) : f[k] = p[k]
  OBVIOUS
<1> HIDE DEF f
<1>2. 0 + Len(s) <= Len(p) /\ \A k \in 1..Len(s) : p[0 + k] = s[k]
  BY HasIs DEF Reads
<1>3. 0 + Len(s) <= Len(f)
  BY <1>1, <1>2
<1>4. ASSUME NEW k \in 1..Len(s) PROVE f[0 + k] = s[k]
  <2>1. k \in 1..Len(p) /\ 0 + k = k
    BY <1>1, <1>2
  <2> QED
    BY <1>1, <1>2, <2>1
<1>5. Rar!Has(f, 0, s)
  BY <1>1, <1>3, <1>4, HasIs DEF Reads
<1> QED
  BY <1>5 DEF f

(* A number of two bytes.                                                  *)
LEMMA NumberBehind ==
  ASSUME NEW p \in Seq(Nat), NEW z \in Seq(Nat), NEW o \in Nat, o + 2 <= Len(z)
  PROVE  Rar!U16(p \o z, Len(p) + o) = Rar!U16(z, o) /\ Rar!U16(z, o) \in Nat
<1> DEFINE f == p \o z
           n == Len(p)
<1>1. \A k \in 1..Len(z) : f[n + k] = z[k]
  OBVIOUS
<1>2. o + 1 \in 1..Len(z) /\ o + 2 \in 1..Len(z) /\ n \in Nat
  OBVIOUS
<1> HIDE DEF f, n
<1>3. n + o + 1 = n + (o + 1) /\ n + o + 2 = n + (o + 2)
  BY <1>2
<1>4. f[n + o + 1] = z[o + 1] /\ f[n + o + 2] = z[o + 2] /\ z[o + 1] \in Nat /\ z[o + 2] \in Nat
  BY <1>1, <1>2, <1>3
<1>5. Rar!U16(f, n + o) = Rar!U16(z, o) /\ Rar!U16(z, o) \in Nat
  BY <1>4 DEF Rar!U16
<1> QED
  BY <1>5 DEF f, n

(* eocd_offset: behind the last record that fits.                          *)
Latest(f, o) == {k \in 1..o : Rar!Has(f, k, Rar!EndRecord)}
FoundAt(f, o) == IF Latest(f, o) = {} THEN -1 ELSE Max(Latest(f, o)) + 4

LEMMA FoundStep ==
  ASSUME NEW f, NEW o \in Nat, o >= 1
  PROVE  FoundAt(f, o) = IF Rar!Has(f, o, Rar!EndRecord) THEN o + 4 ELSE FoundAt(f, o - 1)
<1> DEFINE L == Latest(f, o)
           M == Latest(f, o - 1)
<1>1. \A k : k \in 1..o <=> k \in 1..(o - 1) \/ k = o
  OBVIOUS
<1>2. CASE Rar!Has(f, o, Rar!EndRecord)
  <2>1. o \in L /\ L \in SUBSET (1..o)
    BY <1>1, <1>2 DEF Latest
  <2> HIDE DEF L
  <2>2. Max(L) \in L /\ Max(L) >= o
    BY <2>1, MaxOf
  <2>3. Max(L) \in 1..o
    BY <2>1, <2>2
  <2>4. Max(L) = o
    BY <2>2, <2>3
  <2> QED
    BY <1>2, <2>1, <2>4 DEF FoundAt, L
<1>3. CASE ~Rar!Has(f, o, Rar!EndRecord)
  <2>1. L = M
    BY <1>1, <1>3 DEF Latest
  <2> QED
    BY <1>3, <2>1 DEF FoundAt
<1> QED
  BY <1>2, <1>3

LEMMA EocdIs ==
  ASSUME NEW f, Len(f) \in Nat, Len(f) >= 22
  PROVE  Rar!EocdOffset(f) = FoundAt(f, Len(f) - 22)
<1> DEFINE n == Len(f)
           Search(g, o) == IF o = 0 THEN -1 ELSE IF Rar!Has(f, o, Rar!EndRecord) THEN o + 4 ELSE g[o - 1]
           Eq(g) == g = [o \in 0..n |-> Search(g, o)]
           search == CHOOSE g : Eq(g)
<1>1. FoundAt(f, 0) = -1
  <2>1. 1..0 = {}
    OBVIOUS
  <2> QED
    BY <2>1 DEF FoundAt, Latest
<1>2. \E g : Eq(g)
  <2> DEFINE g == [o \in 0..n |-> FoundAt(f, o)]
  <2>1. ASSUME NEW o \in 0..n PROVE g[o] = Search(g, o)
    <3>1. CASE o = 0
      BY <1>1, <3>1
    <3>2. CASE o # 0
      <4>1. o \in Nat /\ o >= 1 /\ o - 1 \in 0..n
        BY <3>2
      <4>2. g[o] = FoundAt(f, o) /\ g[o - 1] = FoundAt(f, o - 1)
        BY <4>1
      <4> HIDE DEF g
      <4> QED
        BY <3>2, <4>1, <4>2, FoundStep
    <3> QED
      BY <3>1, <3>2
  <2>2. Eq(g)
    BY <2>1
  <2> HIDE DEF g, Eq
  <2> QED
    BY <2>2
<1>3. Eq(search)
  <2> HIDE DEF Eq
  <2> QED
    BY <1>2, Zenon
<1>4. Rar!EocdOffset(f) = search[n - 22]
  BY DEF Rar!EocdOffset, Rar!EndRecordLen
<1> HIDE DEF search
<1>5. \A o \in 0..n : search[o] = Search(search, o)
  BY <1>3
<1> HIDE DEF Eq
<1> DEFINE T == {o \in 0..n : search[o] = FoundAt(f, o)}
<1>6. 0 \in T
  <2>1. 0 \in 0..n /\ search[0] = -1
    BY <1>5
  <2> QED
    BY <1>1, <2>1
<1>7. ASSUME NEW o \in 1..n, o - 1 \in T PROVE o \in T
  <2>1. o \in 0..n /\ o # 0 /\ o \in Nat /\ o >= 1
    OBVIOUS
  <2>2. search[o - 1] = FoundAt(f, o - 1)
    BY <1>7
  <2>3. search[o] = FoundAt(f, o)
    BY <1>5, <2>1, <2>2, FoundStep
  <2> QED
    BY <2>1, <2>3
<1> HIDE DEF T
<1>8. 0..n \subseteq T
  BY <1>6, <1>7, UpTo
<1>9. n - 22 \in T
  BY <1>8
<1> QED
  BY <1>4, <1>9 DEF T

LEMMA EocdFacts ==
  ASSUME NEW f, Len(f) \in Nat, Len(f) >= 22
  PROVE  /\ Rar!EocdOffset(f) # -1 => \E o \in 0..Len(f) : Rar!Has(f, o, Rar!EndRecord)
         /\ \A o \in 1..(Len(f) - 22) :
              /\ Rar!Has(f, o, Rar!EndRecord)
              /\ \A q \in (o + 1)..(Len(f) - 22) : ~Rar!Has(f, q, Rar!EndRecord)
              => Rar!EocdOffset(f) = o + 4
<1> DEFINE n == Len(f) - 22
           L == Latest(f, n)
<1>1. n \in Nat /\ L \in SUBSET (1..n) /\ Rar!EocdOffset(f) = FoundAt(f, n)
  BY EocdIs DEF Latest
<1>2. ASSUME Rar!EocdOffset(f) # -1 PROVE \E o \in 0..Len(f) : Rar!Has(f, o, Rar!EndRecord)
  <2>1. PICK o : o \in L
    BY <1>1, <1>2 DEF FoundAt
  <2> QED
    BY <2>1 DEF Latest
<1>3. ASSUME NEW o \in 1..n, Rar!Has(f, o, Rar!EndRecord),
             \A q \in (o + 1)..n : ~Rar!Has(f, q, Rar!EndRecord)
      PROVE  Rar!EocdOffset(f) = o + 4
  <2>1. o \in L
    BY <1>3 DEF Latest
  <2>2. \A q \in L : q \in 1..n /\ q <= o
    BY <1>3 DEF Latest
  <2> HIDE DEF L, n
  <2>3. Max(L) \in L /\ Max(L) >= o
    BY <1>1, <2>1, MaxOf
  <2>4. Max(L) = o
    BY <2>2, <2>3
  <2> QED
    BY <1>1, <2>1, <2>4 DEF FoundAt, L
<1> QED
  BY <1>2, <1>3

(* get_jpeg_end, from each place of the file.                              *)
Scan(f, g, o) ==
  IF o >= Len(f) - 1 THEN Len(f)
  ELSE IF f[o + 1] # 255 THEN g[o + 1]
  ELSE IF f[o + 2] = 217 THEN o + 2 ELSE g[o + 2]

LEMMA ScanIs ==
  ASSUME NEW f, Len(f) \in Nat
  PROVE  \E g : Rar!GetJpegEnd(f) = g[0] /\ \A o \in 0..Len(f) : g[o] = Scan(f, g, o)
<1> DEFINE n == Len(f)
           Eq(g) == g = [o \in 0..n |-> Scan(f, g, o)]
           P(m) == \E g : \A o \in 0..n : o + m >= n => g[o] = Scan(f, g, o)
           U == {m \in 0..n : P(m)}
           from == CHOOSE g : Eq(g)
<1>0. n \in Nat
  OBVIOUS
<1>1. 0 \in U
  <2> DEFINE g == [o \in 0..n |-> n]
  <2>1. ASSUME NEW o \in 0..n, o + 0 >= n PROVE g[o] = Scan(f, g, o)
    <3>1. o >= Len(f) - 1
      BY <2>1
    <3> QED
      BY <3>1 DEF Scan
  <2> HIDE DEF g
  <2>2. P(0)
    BY <2>1
  <2> QED
    BY <2>2
<1>2. ASSUME NEW m \in 1..n, m - 1 \in U PROVE m \in U
  <2> DEFINE p == n - m
  <2>1. PICK g : \A o \in 0..n : o + (m - 1) >= n => g[o] = Scan(f, g, o)
    BY <1>2
  <2> DEFINE h == [o \in 0..n |-> IF o = p THEN Scan(f, g, p) ELSE g[o]]
  <2>2. ASSUME NEW o \in 0..n, o >= p PROVE Scan(f, h, o) = Scan(f, g, o)
    <3>1. o < n - 1 => /\ o + 1 \in 0..n /\ o + 1 # p
                       /\ o + 2 \in 0..n /\ o + 2 # p
      BY <2>2
    <3>2. o < n - 1 => h[o + 1] = g[o + 1] /\ h[o + 2] = g[o + 2]
      BY <3>1
    <3> HIDE DEF h, p
    <3> QED
      BY <3>2 DEF Scan
  <2>3. ASSUME NEW o \in 0..n, o + m >= n PROVE h[o] = Scan(f, h, o)
    <3>1. o >= p /\ Scan(f, h, o) = Scan(f, g, o)
      BY <2>2, <2>3
    <3>2. CASE o = p
      BY <3>1, <3>2
    <3>3. CASE o # p
      <4>1. o >= n - m /\ o # n - m /\ o \in Int /\ m \in Int /\ n \in Int
        BY <3>1, <3>3
      <4>2. o + (m - 1) >= n
        BY <4>1
      <4> QED
        BY <2>1, <3>1, <3>3, <4>2
    <3> QED
      BY <3>2, <3>3
  <2> HIDE DEF h
  <2>4. P(m)
    BY <2>3
  <2> QED
    BY <2>4
<1>3. \A m \in 1..n : m - 1 \in U => m \in U
  BY <1>2
<1> HIDE DEF U
<1>4. 0..n \subseteq U
  BY <1>0, <1>1, <1>3, UpTo
<1>5. P(n)
  BY <1>4 DEF U
<1>6. PICK g : \A o \in 0..n : g[o] = Scan(f, g, o)
  BY <1>5
<1>7. \E h : Eq(h)
  <2> DEFINE h == [o \in 0..n |-> g[o]]
  <2>1. ASSUME NEW o \in 0..n PROVE g[o] = Scan(f, h, o)
    <3>1. o < n - 1 => h[o + 1] = g[o + 1] /\ h[o + 2] = g[o + 2]
      OBVIOUS
    <3> HIDE DEF h
    <3> QED
      BY <1>6, <3>1 DEF Scan
  <2>2. Eq(h)
    BY <2>1
  <2> HIDE DEF h
  <2> QED
    BY <2>2
<1>8. Eq(from)
  <2> HIDE DEF Eq
  <2> QED
    BY <1>7, Zenon
<1>9. Rar!GetJpegEnd(f) = from[0]
  BY DEF Rar!GetJpegEnd, Scan
<1> HIDE DEF from
<1>10. \A o \in 0..n : from[o] = Scan(f, from, o)
  BY <1>8
<1> QED
  BY <1>9, <1>10

(* Either there is no end marker, or the place is right behind one.        *)
LEMMA JpegEndFacts ==
  ASSUME NEW f \in Seq(Nat)
  PROVE  \/ Rar!GetJpegEnd(f) = Len(f)
         \/ /\ Rar!GetJpegEnd(f) \in 2..Len(f)
            /\ f[Rar!GetJpegEnd(f) - 1] = 255 /\ f[Rar!GetJpegEnd(f)] = 217
<1> DEFINE n == Len(f)
           Right(x) == x = n \/ (x \in 2..n /\ f[x - 1] = 255 /\ f[x] = 217)
<1>1. PICK g : Rar!GetJpegEnd(f) = g[0] /\ \A o \in 0..n : g[o] = Scan(f, g, o)
  BY ScanIs
<1> DEFINE T == {m \in 0..n : \A o \in 0..n : o + m >= n => Right(g[o])}
<1>2. n \in Nat
  OBVIOUS
<1>3. 0 \in T
  <2>1. ASSUME NEW o \in 0..n, o + 0 >= n PROVE g[o] = n
    <3>1. o >= n - 1
      BY <2>1
    <3> QED
      BY <1>1, <3>1 DEF Scan
  <2> QED
    BY <2>1
<1>4. ASSUME NEW m \in 1..n, m - 1 \in T PROVE m \in T
  <2>1. ASSUME NEW o \in 0..n, o + m >= n PROVE Right(g[o])
    <3>1. g[o] = Scan(f, g, o)
      BY <1>1
    <3>2. o < n - 1 => /\ o + 1 \in 0..n /\ o + 1 + (m - 1) >= n
                       /\ o + 2 \in 0..n /\ o + 2 + (m - 1) >= n
                       /\ o + 2 \in 2..n /\ o + 2 - 1 = o + 1
      BY <2>1
    <3>3. o < n - 1 => Right(g[o + 1]) /\ Right(g[o + 2])
      BY <1>4, <3>2
    <3>4. CASE o >= n - 1
      BY <3>1, <3>4 DEF Scan
    <3>5. CASE o < n - 1 /\ f[o + 1] = 255 /\ f[o + 2] = 217
      <4>1. g[o] = o + 2
        BY <3>1, <3>5 DEF Scan
      <4> QED
        BY <3>2, <3>5, <4>1
    <3>6. CASE o < n - 1 /\ ~(f[o + 1] = 255 /\ f[o + 2] = 217)
      <4> HIDE DEF Right
      <4>1. g[o] = g[o + 1] \/ g[o] = g[o + 2]
        BY <3>1, <3>6 DEF Scan
      <4> QED
        BY <3>3, <3>6, <4>1
    <3> QED
      BY <3>4, <3>5, <3>6
  <2> HIDE DEF Right
  <2> QED
    BY <2>1
<1>5. \A m \in 1..n : m - 1 \in T => m \in T
  BY <1>4
<1> HIDE DEF T
<1>6. 0..n \subseteq T
  BY <1>2, <1>3, <1>5, UpTo
<1>7. n \in T /\ 0 \in 0..n /\ 0 + n >= n
  BY <1>2, <1>6
<1> HIDE DEF Right
<1>8. Right(g[0])
  BY <1>7 DEF T
<1> QED
  BY <1>1, <1>8 DEF Right

(* The end of a plain picture is found, whatever is behind it.             *)
LEMMA PlainEnd ==
  ASSUME NEW p \in Seq(Nat), Rar!Plain(p), NEW z \in Seq(Nat), Len(z) >= 1
  PROVE  Rar!GetJpegEnd(p \o z) = Len(p)
<1> DEFINE f == p \o z
           n == Len(p)
<1>1. /\ f \in Seq(Nat) /\ Len(f) \in Nat /\ Len(f) >= n + 1 /\ n \in Nat /\ n >= 4
      /\ \A k \in 1..n : f[k] = p[k]
  BY DEF Rar!Plain
<1>2. /\ p[n - 1] = 255 /\ p[n] = 217
  <2> DEFINE s == <<255, 217>>
             o == n - 2
  <2>1. o \in Nat /\ o + 1 = n - 1 /\ o + 2 = n
    BY <1>1
  <2>2. s \in Seq(Nat) /\ Len(s) = 2 /\ s[1] = 255 /\ s[2] = 217
    OBVIOUS
  <2>3. Rar!Has(p, o, s)
    BY DEF Rar!Plain
  <2> HIDE DEF s, n, o
  <2>4. Reads(p, o, s)
    BY <2>1, <2>2, <2>3, HasIs
  <2>5. 1 \in 1..Len(s) /\ 2 \in 1..Len(s)
    BY <2>2
  <2>6. p[o + 1] = s[1] /\ p[o + 2] = s[2]
    BY <2>4, <2>5, Zenon DEF Reads
  <2>7. p[n - 1] = s[1] /\ p[n] = s[2]
    BY <2>1, <2>6, Zenon
  <2> QED
    BY <2>2, <2>7
<1>3. \A o \in 1..(n - 1) : p[o] = 255 => p[o + 1] # 255 /\ (p[o + 1] = 217 => o = n - 1)
  BY DEF Rar!Plain
<1>4. PICK g : Rar!GetJpegEnd(f) = g[0] /\ \A o \in 0..Len(f) : g[o] = Scan(f, g, o)
  BY <1>1, ScanIs
<1> HIDE DEF f, n
<1>5. ASSUME NEW o \in 0..(n - 2)
      PROVE  g[o] = IF p[o + 1] # 255 THEN g[o + 1] ELSE IF p[o + 2] = 217 THEN o + 2 ELSE g[o + 2]
  <2>1. o \in 0..Len(f) /\ ~(o >= Len(f) - 1) /\ o + 1 \in 1..n /\ o + 2 \in 1..n
    <3>1. Len(f) \in Nat /\ Len(f) >= n + 1 /\ n \in Nat /\ n >= 4
      BY <1>1
    <3> QED
      BY <3>1
  <2>2. f[o + 1] = p[o + 1] /\ f[o + 2] = p[o + 2] /\ g[o] = Scan(f, g, o)
    BY <1>1, <1>4, <2>1
  <2> QED
    BY <2>1, <2>2 DEF Scan
<1> DEFINE T == {m \in 0..(n - 2) : \A o \in 0..(n - 2) : o + m >= n - 2 => g[o] = n}
<1>6. 0 \in T
  <2>1. ASSUME NEW o \in 0..(n - 2), o + 0 >= n - 2 PROVE g[o] = n
    <3>1. o = n - 2 /\ o + 1 = n - 1 /\ o + 2 = n
      BY <1>1, <2>1
    <3>2. g[o] = o + 2
      BY <1>2, <1>5, <3>1
    <3> QED
      BY <3>1, <3>2
  <2>2. 0 \in 0..(n - 2)
    BY <1>1
  <2> QED
    BY <2>1, <2>2
<1>7. ASSUME NEW m \in 1..(n - 2), m - 1 \in T PROVE m \in T
  <2>1. ASSUME NEW o \in 0..(n - 2), o + m >= n - 2 PROVE g[o] = n
    <3>1. CASE o = n - 2
      <4>1. o + 0 >= n - 2
        BY <1>1, <3>1
      <4> QED
        BY <1>6, <4>1
    <3>2. CASE o # n - 2
      <4>1. /\ o + 1 \in 0..(n - 2) /\ o + 1 + (m - 1) >= n - 2 /\ o + 1 \in 1..(n - 1) /\ o + 1 + 1 = o + 2
            /\ o + 1 # n - 1
        BY <1>1, <2>1, <3>2
      <4>2. g[o + 1] = n
        BY <1>7, <4>1
      <4>3. CASE p[o + 1] # 255
        BY <1>5, <4>2, <4>3
      <4>4. CASE p[o + 1] = 255
        <5>1. p[o + 2] # 255 /\ p[o + 2] # 217
          BY <1>3, <4>1, <4>4
        <5>2. o + 2 # n - 1
          BY <1>2, <5>1
        <5>3. o + 2 \in 0..(n - 2) /\ o + 2 + (m - 1) >= n - 2
          BY <1>1, <2>1, <4>1, <5>2
        <5>4. g[o + 2] = n
          BY <1>7, <5>3
        <5> QED
          BY <1>5, <4>4, <5>1, <5>4
      <4> QED
        BY <4>3, <4>4
    <3> QED
      BY <3>1, <3>2
  <2>2. m \in 0..(n - 2)
    BY <1>1
  <2> QED
    BY <2>1, <2>2
<1>8. \A m \in 1..(n - 2) : m - 1 \in T => m \in T
  BY <1>7
<1> HIDE DEF T
<1>9. 0..(n - 2) \subseteq T
  <2>1. n - 2 \in Nat
    BY <1>1
  <2> QED
    BY <1>6, <1>8, <2>1, UpTo
<1>10. n - 2 \in T /\ 0 \in 0..(n - 2) /\ 0 + (n - 2) >= n - 2
  BY <1>1, <1>9
<1>11. g[0] = n
  BY <1>10 DEF T
<1> QED
  BY <1>4, <1>11 DEF f, n

(* The entries of an archive that has a picture before it.                 *)
Archived(a) == a.bytes \in Seq(Nat) /\ a.names \in Seq(Seq(Nat)) /\ a.at \in Seq(Nat) /\ Rar!Zip(a)
EntryAt(f, x, name, y) ==
  /\ x \in Nat /\ Len(name) \in Nat /\ Len(name) >= 1 /\ x + 46 + Len(name) <= Len(f)
  /\ Rar!U16(f, x + 28) = Len(name) /\ Rar!At(f, x + 46, Len(name)) = name
  /\ y = x + 46 + Len(name) + Rar!U16(f, x + 30) + Rar!U16(f, x + 32)

LEMMA EntryFacts ==
  ASSUME NEW p \in Seq(Nat), NEW a, Archived(a), NEW n \in 1..Len(a.names)
  PROVE  EntryAt(p \o a.bytes, Len(p) + a.at[n], a.names[n], Len(p) + a.at[n + 1])
<1> DEFINE z == a.bytes
           f == p \o a.bytes
           i == Len(p)
           s == a.names[n]
           x == a.at[n]
           y == a.at[n + 1]
<1>1. /\ z \in Seq(Nat) /\ s \in Seq(Nat) /\ Len(s) \in Nat /\ i \in Nat /\ Len(z) \in Nat
  BY DEF Archived
<1>2. x \in Nat /\ y \in Nat
  <2>1. Len(a.at) = Len(a.names) + 1 /\ a.at \in Seq(Nat) /\ Len(a.names) \in Nat
    BY DEF Archived, Rar!Zip
  <2>2. n \in 1..Len(a.at) /\ n + 1 \in 1..Len(a.at)
    BY <2>1
  <2> QED
    BY <2>1, <2>2
<1>3. /\ s # <<>> /\ Rar!U16(z, x + 28) = Len(s) /\ Rar!Has(z, x + 46, s)
      /\ y = x + 46 + Len(s) + Rar!U16(z, x + 30) + Rar!U16(z, x + 32)
  BY DEF Archived, Rar!Zip, Rar!Entry
<1>4. /\ f \in Seq(Nat) /\ Len(f) = i + Len(z)
  BY <1>1, Behind
<1> HIDE DEF z, s, x, y, i
<1>5. x + 46 + Len(s) <= Len(z) /\ Len(s) >= 1
  <2>1. x + 46 \in Nat
    BY <1>2
  <2>2. Reads(z, x + 46, s)
    BY <1>1, <1>3, <2>1, HasIs
  <2>3. Len(s) # 0
    BY <1>1, <1>3
  <2> QED
    BY <1>1, <2>2, <2>3 DEF Reads
<1>6. Rar!Has(f, i + (x + 46), s)
  <2>1. x + 46 \in Nat
    BY <1>2
  <2> QED
    BY <1>1, <1>3, <2>1, HasBehind DEF i, z
<1>7. ASSUME NEW q \in Nat, q + 2 <= 46
      PROVE  Rar!U16(f, i + (x + q)) = Rar!U16(z, x + q) /\ Rar!U16(z, x + q) \in Nat
  <2>1. x + q \in Nat /\ x + q + 2 <= Len(z)
    BY <1>1, <1>2, <1>5, <1>7
  <2> QED
    BY <1>1, <2>1, NumberBehind DEF i, z
<1>8. /\ i + x + 28 = i + (x + 28) /\ i + x + 30 = i + (x + 30) /\ i + x + 32 = i + (x + 32)
      /\ i + x + 46 = i + (x + 46)
  BY <1>1, <1>2
<1>9. /\ Rar!U16(f, i + x + 28) = Rar!U16(z, x + 28) /\ Rar!U16(f, i + x + 30) = Rar!U16(z, x + 30)
      /\ Rar!U16(f, i + x + 32) = Rar!U16(z, x + 32)
      /\ Rar!U16(z, x + 30) \in Nat /\ Rar!U16(z, x + 32) \in Nat
  BY <1>7, <1>8
<1>10. Rar!At(f, i + x + 46, Len(s)) = s
  BY <1>6, <1>8 DEF Rar!Has
<1> HIDE DEF f
<1>11. EntryAt(f, i + x, s, i + y)
  <2>1. i + x + 46 + Len(s) <= Len(f)
    BY <1>1, <1>2, <1>4, <1>5
  <2> DEFINE u == Rar!U16(z, x + 30)
             v == Rar!U16(z, x + 32)
  <2>2. i + y = i + x + 46 + Len(s) + Rar!U16(f, i + x + 30) + Rar!U16(f, i + x + 32)
    <3>1. /\ y = x + 46 + Len(s) + u + v /\ u \in Nat /\ v \in Nat
          /\ Rar!U16(f, i + x + 30) = u /\ Rar!U16(f, i + x + 32) = v
      BY <1>3, <1>9
    <3> HIDE DEF u, v
    <3>2. i + y = i + x + 46 + Len(s) + u + v
      BY <1>1, <1>2, <3>1
    <3> QED
      BY <3>1, <3>2
  <2>3. Rar!U16(f, i + x + 28) = Len(s)
    BY <1>3, <1>9
  <2> QED
    BY <1>1, <1>2, <1>5, <1>10, <2>1, <2>2, <2>3 DEF EntryAt
<1> QED
  BY <1>11 DEF f, i, x, s, y

(* get_file_name, at an entry that is whole.                               *)
Entered(x, got) == [at |-> x, names |-> got, short |-> FALSE]

LEMMA NameIs ==
  ASSUME NEW f, Len(f) \in Nat, NEW x, NEW y, NEW name, EntryAt(f, x, name, y), NEW got
  PROVE  Rar!GetFileName(f, Entered(x, got)) = Entered(y, Append(got, name))
<1> DEFINE e == Entered(x, got)
           n == Len(name)
<1>1. /\ x \in Nat /\ n \in Nat /\ n # 0 /\ x + 46 <= Len(f) /\ ~(x + 46 + n > Len(f))
      /\ Rar!U16(f, x + 28) = n /\ Rar!At(f, x + 46, n) = name
      /\ y = x + 46 + n + Rar!U16(f, x + 30) + Rar!U16(f, x + 32)
  BY DEF EntryAt
<1>2. e.at = x /\ e.names = got /\ e.short = FALSE /\ e = [at |-> x, names |-> got, short |-> FALSE]
  BY DEF Entered
<1> HIDE DEF n, e
<1>3. Rar!GetFileName(f, e) = [e EXCEPT !.at = x + 46 + n + Rar!U16(f, x + 30) + Rar!U16(f, x + 32),
                                        !.names = Append(got, name)]
  BY <1>1, <1>2 DEF Rar!GetFileName, Rar!Entry
<1>4. Rar!GetFileName(f, e) = [at |-> y, names |-> Append(got, name), short |-> FALSE]
  BY <1>1, <1>2, <1>3
<1> QED
  BY <1>4 DEF e, Entered

LEMMA NamesBehind ==
  ASSUME NEW p \in Seq(Nat), NEW a, Archived(a), NEW eocd, eocd = Len(p) + a.end + 4
  PROVE  LET found == Rar!CollectFileNames(p \o a.bytes, eocd, Len(p))
         IN  found.names = a.names /\ found.short = FALSE
<1> DEFINE z == a.bytes
           f == p \o a.bytes
           i == Len(p)
           m == Len(a.names)
           d == a.end
           G(n) == Entered(i + a.at[n + 1], SubSeq(a.names, 1, n))
<1>1. /\ z \in Seq(Nat) /\ i \in Nat /\ Len(z) \in Nat /\ f \in Seq(Nat) /\ Len(f) \in Nat
      /\ m \in Nat /\ a.names \in Seq(Seq(Nat)) /\ eocd = i + d + 4
  BY DEF Archived
<1>2. /\ d \in Nat /\ d + 22 <= Len(z)
      /\ Rar!U16(z, d + 8) = m
      /\ a.at[1] = Rar!U16(z, d + 16) + 65536 * Rar!U16(z, d + 18)
  <2>1. d \in 1..(Len(z) - 22)
    BY DEF Archived, Rar!Zip, Rar!EndRecordLen
  <2>2. Rar!U16(z, d + 8) = m /\ a.at[1] = Rar!U16(z, d + 16) + 65536 * Rar!U16(z, d + 18)
    BY SMT DEF Archived, Rar!Zip
  <2> HIDE DEF z, d, m, f, i
  <2>3. d \in Nat /\ d + 22 <= Len(z)
    BY <1>1, <2>1
  <2> QED
    BY <2>2, <2>3
<1> HIDE DEF d
<1>3. ASSUME NEW q \in Nat, q <= 20
      PROVE  Rar!U16(f, i + (d + q)) = Rar!U16(z, d + q) /\ Rar!U16(z, d + q) \in Nat
  <2>1. d + q \in Nat /\ d + q + 2 <= Len(z)
    <3> HIDE DEF z, f, i, m
    <3>1. d \in Nat /\ d + 22 <= Len(z) /\ Len(z) \in Nat /\ q \in Nat /\ q <= 20
      BY <1>1, <1>2, <1>3
    <3> QED
      BY <3>1
  <2> QED
    BY <1>1, <2>1, NumberBehind
<1>a. \A n \in 1..m : EntryAt(f, i + a.at[n], a.names[n], i + a.at[n + 1])
  BY EntryFacts
<1>b. SubSeq(a.names, 1, m) = a.names /\ SubSeq(a.names, 1, 0) = <<>>
  BY <1>1
<1>c. \A n \in 1..m : Append(SubSeq(a.names, 1, n - 1), a.names[n]) = SubSeq(a.names, 1, n)
  BY <1>1
<1> HIDE DEF z, f, i, m
<1>4. /\ eocd + 4 = i + (d + 8) /\ eocd + 12 = i + (d + 16) /\ eocd + 14 = i + (d + 18)
  <2>1. i \in Nat /\ eocd = i + d + 4
    BY <1>1
  <2>2. d \in Nat
    BY <1>2
  <2> QED
    BY <2>1, <2>2
<1>5. /\ Rar!U16(f, eocd + 4) = m
      /\ i + Rar!U16(f, eocd + 12) + 65536 * Rar!U16(f, eocd + 14) = i + a.at[1]
  <2>1. /\ Rar!U16(f, i + (d + 8)) = Rar!U16(z, d + 8)
        /\ Rar!U16(f, i + (d + 16)) = Rar!U16(z, d + 16)
        /\ Rar!U16(f, i + (d + 18)) = Rar!U16(z, d + 18)
        /\ Rar!U16(z, d + 16) \in Nat /\ Rar!U16(z, d + 18) \in Nat
    BY <1>3
  <2> DEFINE u == Rar!U16(z, d + 16)
             v == Rar!U16(z, d + 18)
  <2>2. /\ Rar!U16(f, eocd + 4) = m /\ Rar!U16(f, eocd + 12) = u /\ Rar!U16(f, eocd + 14) = v
        /\ a.at[1] = u + 65536 * v /\ u \in Nat /\ v \in Nat
    BY <1>2, <1>4, <2>1
  <2> HIDE DEF u, v
  <2>3. i + u + 65536 * v = i + (u + 65536 * v)
    BY <1>1, <2>2
  <2> QED
    BY <2>2, <2>3
<1>6. ASSUME NEW n \in 1..m PROVE Rar!GetFileName(f, G(n - 1)) = G(n)
  <2> DEFINE got == SubSeq(a.names, 1, n - 1)
             x == i + a.at[n]
             y == i + a.at[n + 1]
             name == a.names[n]
  <2>1. EntryAt(f, x, name, y)
    BY <1>a
  <2>2. Append(got, name) = SubSeq(a.names, 1, n)
    BY <1>c
  <2>3. G(n - 1) = Entered(x, got)
    <3>1. n - 1 + 1 = n
      BY <1>1
    <3> QED
      BY <3>1
  <2>4. G(n) = Entered(y, Append(got, name))
    BY <2>2
  <2> HIDE DEF x, y, got, name, G
  <2> QED
    BY <1>1, <2>1, <2>3, <2>4, NameIs
<1> DEFINE first == Entered(i + a.at[1], <<>>)
<1>7. G(0) = first
  <2>1. 0 + 1 = 1
    OBVIOUS
  <2> QED
    BY <1>b, <2>1
<1>8. G(m).names = a.names /\ G(m).short = FALSE
  BY <1>b DEF Entered
<1> HIDE DEF G
<1> DEFINE Eq(g) == g = [n \in 0..m |-> IF n = 0 THEN first ELSE Rar!GetFileName(f, g[n - 1])]
           after == CHOOSE g : Eq(g)
<1>9. \E g : Eq(g)
  <2> DEFINE g == [n \in 0..m |-> G(n)]
  <2> HIDE DEF first
  <2>1. ASSUME NEW n \in 0..m PROVE g[n] = IF n = 0 THEN first ELSE Rar!GetFileName(f, g[n - 1])
    <3>1. CASE n = 0
      BY <1>7, <3>1
    <3>2. CASE n # 0
      <4>1. n \in 1..m /\ n - 1 \in 0..m
        BY <1>1, <3>2
      <4>2. g[n] = G(n) /\ g[n - 1] = G(n - 1)
        BY <4>1
      <4> HIDE DEF g
      <4> QED
        BY <1>6, <3>2, <4>1, <4>2
    <3> QED
      BY <3>1, <3>2
  <2>2. Eq(g)
    BY <2>1
  <2> HIDE DEF g, Eq
  <2> QED
    BY <2>2
<1>10. Eq(after)
  <2> HIDE DEF Eq
  <2> QED
    BY <1>9, Zenon
<1>11. Rar!CollectFileNames(f, eocd, i) = after[m]
  <2> DEFINE All(base, count) ==
               CHOOSE h : h = [n \in 0..count |-> IF n = 0 THEN base ELSE Rar!GetFileName(f, h[n - 1])]
             count == Rar!U16(f, eocd + 4)
             from == i + Rar!U16(f, eocd + 12) + 65536 * Rar!U16(f, eocd + 14)
  <2>1. Rar!CollectFileNames(f, eocd, i) = All(Entered(from, <<>>), count)[count]
    BY DEF Rar!CollectFileNames, Entered
  <2>2. after = All(first, m)
    OBVIOUS
  <2>3. count = m /\ from = i + a.at[1]
    BY <1>5
  <2> HIDE DEF All, count, from, after
  <2> QED
    BY <2>1, <2>2, <2>3
<1> HIDE DEF after, first
<1>12. \A n \in 0..m : after[n] = IF n = 0 THEN first ELSE Rar!GetFileName(f, after[n - 1])
  BY <1>10
<1> HIDE DEF Eq
<1> DEFINE T == {n \in 0..m : after[n] = G(n)}
<1>13. 0 \in T
  BY <1>1, <1>7, <1>12
<1>14. ASSUME NEW n \in 1..m, n - 1 \in T PROVE n \in T
  <2>1. n \in 0..m /\ n # 0 /\ after[n - 1] = G(n - 1)
    BY <1>1, <1>14
  <2> QED
    BY <1>6, <1>12, <2>1
<1> HIDE DEF T
<1>15. 0..m \subseteq T
  BY <1>1, <1>13, <1>14, UpTo
<1>16. m \in T
  BY <1>1, <1>15
<1>17. Rar!CollectFileNames(f, eocd, i) = G(m)
  BY <1>11, <1>16 DEF T
<1> QED
  BY <1>8, <1>17 DEF f, i

(* An archive and what is before it.                                       *)
LEMMA HeaderIs ==
  /\ Rar!LocalHeader \in Seq(Nat) /\ Len(Rar!LocalHeader) = 4 /\ Rar!LocalHeader[1] = 80
  /\ Rar!LocalHeader[2] = 75 /\ Rar!LocalHeader[3] = 3 /\ Rar!LocalHeader[4] = 4
  /\ Rar!EndRecord \in Seq(Nat) /\ Len(Rar!EndRecord) = 4
  BY DEF Rar!LocalHeader, Rar!EndRecord

LEMMA ZipBehind ==
  ASSUME NEW p \in Seq(Nat), NEW a, Archived(a)
  PROVE  LET f == p \o a.bytes
             found == Rar!CollectFileNames(f, Rar!EocdOffset(f), Len(p))
         IN  /\ f \in Seq(Nat) /\ Len(f) >= 23 /\ Len(p) + 4 <= Len(f)
             /\ Rar!EocdOffset(f) \in Nat /\ Rar!Has(f, Len(p), Rar!LocalHeader)
             /\ found.names = a.names /\ found.short = FALSE
<1> DEFINE z == a.bytes
           f == p \o a.bytes
           i == Len(p)
           d == a.end
           w == Rar!EndRecord
           found == Rar!CollectFileNames(f, Rar!EocdOffset(f), i)
<1>1. /\ z \in Seq(Nat) /\ i \in Nat /\ Len(z) \in Nat /\ f \in Seq(Nat) /\ Len(f) = i + Len(z)
  BY DEF Archived
<1>2. d \in 1..(Len(z) - 22) /\ Rar!Has(z, d, w) /\ Rar!Has(z, 0, Rar!LocalHeader)
  BY DEF Archived, Rar!Zip, Rar!EndRecordLen
<1>3. \A o \in (d + 1)..(Len(z) - 22) : ~Rar!Has(z, o, w)
  BY DEF Archived, Rar!Zip, Rar!EndRecordLen
<1>4. w \in Seq(Nat) /\ Len(Rar!LocalHeader) = 4 /\ Rar!LocalHeader \in Seq(Nat)
  BY HeaderIs
<1>5. \A o \in Nat : Rar!Has(f, i + o, w) <=> Rar!Has(z, o, w)
  BY <1>1, <1>4, HasBehind
<1>6. Rar!Has(f, i + 0, Rar!LocalHeader)
  BY <1>1, <1>2, <1>4, HasBehind
<1>7. f = p \o z /\ Archived(a)
  OBVIOUS
<1>9. i + d + 4 = Rar!EocdOffset(f) => found.names = a.names /\ found.short = FALSE
  BY NamesBehind
<1> HIDE DEF z, f, i, d, w, found
<1>10. /\ d \in Nat /\ d >= 1 /\ d + 22 <= Len(z)
       /\ i + d \in 1..(Len(f) - 22) /\ Len(f) >= 23 /\ i + 4 <= Len(f) /\ i + 0 = i
  BY <1>1, <1>2
<1>11. Rar!EocdOffset(f) = i + d + 4
  <2>1. Rar!Has(f, i + d, w)
    BY <1>2, <1>5, <1>10
  <2>2. ASSUME NEW q \in (i + d + 1)..(Len(f) - 22) PROVE ~Rar!Has(f, q, w)
    <3> DEFINE o == q - i
    <3>1. o \in (d + 1)..(Len(z) - 22) /\ o \in Nat /\ i + o = q
      BY <1>1, <1>10
    <3> HIDE DEF o
    <3>2. ~Rar!Has(z, o, w) /\ (Rar!Has(f, i + o, w) <=> Rar!Has(z, o, w))
      BY <1>3, <1>5, <3>1
    <3> QED
      BY <3>1, <3>2
  <2>3. Len(f) \in Nat /\ Len(f) >= 22
    BY <1>1, <1>10
  <2> QED
    BY <1>10, <2>1, <2>2, <2>3, EocdFacts DEF w
<1> QED
  BY <1>1, <1>6, <1>9, <1>10, <1>11 DEF f, i, found

(* The inputs are what the assumption says.                                *)
LEMMA BytesAre == Rar!Bytes \subseteq Seq(Nat) /\ Seq(Rar!Bytes) \subseteq Seq(Seq(Nat))
<1> DEFINE O == 0..255
<1>1. \A x \in O : x \in Nat
  OBVIOUS
<1>2. Rar!Bytes = Seq(O)
  BY DEF Rar!Bytes
<1> HIDE DEF O
<1>3. Seq(O) \subseteq Seq(Nat)
  BY <1>1
<1> DEFINE B == Rar!Bytes
           N == Seq(Nat)
<1>4. B \subseteq N
  BY <1>2, <1>3
<1> HIDE DEF B, N
<1>5. Seq(B) \subseteq Seq(N)
  BY <1>4
<1> QED
  BY <1>4, <1>5 DEF B, N

LEMMA LastBehind ==
  ASSUME NEW S, NEW s \in Seq(S), NEW t \in Seq(S)
  PROVE  Len(t) = 1 => /\ s \o t \in Seq(S) /\ Len(s \o t) = Len(s) + 1
                       /\ (s \o t)[Len(s \o t)] = t[1]
<1> DEFINE c == s \o t
<1>1. c \in Seq(S) /\ Len(c) = Len(s) + Len(t) /\ \A k \in 1..Len(t) : c[Len(s) + k] = t[k]
  BY Behind
<1> HIDE DEF c
<1>2. ASSUME Len(t) = 1 PROVE c \in Seq(S) /\ Len(c) = Len(s) + 1 /\ c[Len(c)] = t[1]
  BY <1>1, <1>2
<1> QED
  BY <1>2 DEF c

(* A line printed for a name begins with it, up to a zero.                 *)
LEMMA PrintedShows ==
  ASSUME NEW name \in Seq(Nat), NEW beyond \in Seq(Nat)
  PROVE  Rar!Shows(Rar!Printed(name, beyond), name)
<1> DEFINE all == name \o beyond \o <<0>>
           m == Len(name)
           n == Len(all)
           Stops(k) == all[k] = 0 /\ \A j \in 1..(k - 1) : all[j] # 0
           stop == CHOOSE k \in 1..n : Stops(k)
           line == SubSeq(all, 1, stop - 1)
<1>1. /\ m \in Nat /\ n \in Nat /\ n >= 1 /\ all[n] = 0 /\ m <= n /\ all \in Seq(Nat)
      /\ \A k \in 1..m : all[k] = name[k]
  <2> DEFINE zero == <<0>>
             more == beyond \o zero
  <2>0. zero \in Seq(Nat) /\ Len(zero) = 1 /\ zero[1] = 0
    OBVIOUS
  <2>1. all = name \o more
    BY <2>0, ConcatAssociative
  <2> HIDE DEF zero
  <2>2. more \in Seq(Nat) /\ Len(more) = Len(beyond) + 1 /\ more[Len(more)] = zero[1]
    BY <2>0, LastBehind
  <2> HIDE DEF all, more
  <2>3. more # <<>> /\ Len(more) >= 1
    BY <2>2
  <2>4. /\ all \in Seq(Nat) /\ Len(all) = Len(name) + Len(more)
        /\ \A k \in 1..Len(name) : all[k] = name[k]
        /\ \A k \in 1..Len(more) : all[Len(name) + k] = more[k]
    BY <2>1, <2>2, Behind
  <2>5. Len(more) \in Nat /\ Len(name) \in Nat /\ Len(all) \in Nat
    BY <2>2, <2>4
  <2>6. Len(more) \in 1..Len(more)
    BY <2>3, <2>5
  <2>7. all[Len(all)] = more[Len(more)]
    BY <2>4, <2>6
  <2> HIDE DEF m, n
  <2>8. n >= 1 /\ m <= n /\ m \in Nat /\ n \in Nat
    BY <2>3, <2>4, <2>5 DEF m, n
  <2>9. all[n] = 0
    BY <2>0, <2>2, <2>7 DEF n
  <2> QED
    BY <2>4, <2>8, <2>9 DEF m
<1>2. Rar!Printed(name, beyond) = line
  BY DEF Rar!Printed
<1> HIDE DEF all, m, n
<1>3. \E k \in 1..n : Stops(k)
  <2> DEFINE Z == {k \in 1..n : all[k] = 0}
  <2>1. Z \subseteq Nat /\ n \in Z
    BY <1>1
  <2>2. PICK k \in Z : \A j \in Z : k <= j
    BY <2>1, Smallest
  <2>3. \A j \in 1..(k - 1) : all[j] # 0
    BY <1>1, <2>2
  <2> QED
    BY <2>2, <2>3
<1>4. stop \in 1..n /\ Stops(stop)
  BY <1>3
<1> HIDE DEF stop
<1>5. /\ Len(line) = stop - 1
      /\ \A k \in 1..(stop - 1) : line[k] = all[k]
  BY <1>1, <1>4, SubSeqProperties
<1> HIDE DEF line
<1>6. ASSUME NEW k \in 1..Len(name), \A j \in 1..(k - 1) : name[j] # 0
      PROVE  IF name[k] = 0 THEN Len(line) = k - 1 ELSE k <= Len(line) /\ line[k] = name[k]
  <2>1. k \in 1..m /\ all[k] = name[k] /\ k \in Nat /\ stop \in Nat /\ k >= 1 /\ stop >= 1
    BY <1>1, <1>4 DEF m
  <2>2. \A j \in 1..(k - 1) : all[j] # 0
    <3>1. ASSUME NEW j \in 1..(k - 1) PROVE all[j] # 0
      <4>1. j \in 1..m
        BY <1>1, <2>1
      <4>2. all[j] = name[j]
        BY <1>1, <4>1
      <4> QED
        BY <1>6, <4>2
    <3> QED
      BY <3>1
  <2>3. stop >= k
    BY <1>4, <2>1, <2>2
  <2>4. CASE name[k] = 0
    BY <1>4, <1>5, <2>1, <2>3, <2>4
  <2>5. CASE name[k] # 0
    <3>1. stop # k
      BY <1>4, <2>1, <2>5
    <3>2. k <= stop - 1 /\ k \in 1..(stop - 1)
      BY <2>1, <2>3, <3>1
    <3> QED
      BY <1>5, <2>1, <2>5, <3>2
  <2> QED
    BY <2>4, <2>5
<1> QED
  BY <1>2, <1>6 DEF Rar!Shows

LEMMA LinesShow ==
  ASSUME NEW all \in Seq(Seq(Nat)), NEW lines \in Rar!Shown(all)
  PROVE  Rar!Listed(lines, all)
<1>1. PICK beyond \in [1..Len(all) -> Beyond] :
        lines = [n \in 1..Len(all) |-> Rar!Printed(all[n], beyond[n])]
  BY DEF Rar!Shown
<1>2. Len(all) \in Nat /\ Len(lines) = Len(all)
  <2> DEFINE say == [n \in 1..Len(all) |-> Rar!Printed(all[n], beyond[n])]
  <2>1. Len(all) \in Nat /\ say \in [1..Len(all) -> {say[n] : n \in 1..Len(all)}]
    OBVIOUS
  <2> HIDE DEF say
  <2>2. Len(say) = Len(all)
    BY <2>1, ArrayIsSeq
  <2> QED
    BY <1>1, <2>1, <2>2 DEF say
<1>3. ASSUME NEW n \in 1..Len(all) PROVE Rar!Shows(lines[n], all[n])
  <2>1. all[n] \in Seq(Nat)
    OBVIOUS
  <2>2. beyond[n] \in Seq(Nat)
    BY FormatsAssumption, BytesAre DEF Rar!RarjpegAssumption
  <2> QED
    BY <1>1, <2>1, <2>2, PrintedShows
<1> QED
  BY <1>2, <1>3 DEF Rar!Listed

(* What the outcome says of the file.                                      *)
Told(p, a, q, v, got) ==
  LET f == p \o a.bytes \o q
      full == a.names # <<>> /\ q = <<>> /\ ~Rar!IsJpegEnd(f)
  IN /\ Rar!Plain(f) => v = 5
     /\ full /\ p = <<>> => v = 3 /\ Rar!Listed(got, a.names)
     /\ full /\ Rar!Plain(p) => v = 4 /\ Rar!Listed(got, a.names)
     /\ v = 4 =>
          /\ Rar!Has(f, 0, <<255, 216>>)
          /\ \E o \in 0..Len(f) : Rar!Has(f, o, <<255, 217>> \o Rar!LocalHeader)
          /\ \E o \in 0..Len(f) : Rar!Has(f, o, Rar!EndRecord)

LEMMA PlainFile ==
  ASSUME NEW f, Rar!Plain(f)
  PROVE  ~Rar!IsShort(f) /\ Rar!IsJpegBegun(f) /\ Rar!IsJpegEnd(f)
  BY DEF Rar!Plain, Rar!IsShort, Rar!IsJpegBegun, Rar!IsJpegEnd

LEMMA ZipFile ==
  ASSUME NEW a, Archived(a)
  PROVE  LET f == a.bytes
             found == Rar!CollectFileNames(f, Rar!EocdOffset(f), 0)
         IN  /\ ~Rar!IsJpegBegun(f) /\ ~Rar!IsShort(f) /\ Len(f) >= 22 /\ 4 <= Len(f)
             /\ Rar!EocdOffset(f) # -1 /\ Rar!Has(f, 0, Rar!LocalHeader)
             /\ found.names = a.names /\ found.short = FALSE
<1> DEFINE f == a.bytes
<1>1. f \in Seq(Nat) /\ <<>> \o f = f /\ Len(<<>>) = 0 /\ <<>> \in Seq(Nat)
  BY DEF Archived
<1>2. LET found == Rar!CollectFileNames(f, Rar!EocdOffset(f), 0)
      IN  /\ Len(f) >= 23 /\ 0 + 4 <= Len(f) /\ Rar!EocdOffset(f) \in Nat /\ Rar!Has(f, 0, Rar!LocalHeader)
          /\ found.names = a.names /\ found.short = FALSE
  BY <1>1, ZipBehind
<1>3. ~Rar!IsJpegBegun(f)
  <2>1. Rar!LocalHeader[1] = 80 /\ Rar!LocalHeader \in Seq(Nat) /\ Len(Rar!LocalHeader) = 4
    BY HeaderIs
  <2>2. Reads(f, 0, Rar!LocalHeader)
    BY <1>1, <1>2, <2>1, HasIs
  <2> HIDE DEF f
  <2>3. f[0 + 1] = 80
    BY <2>1, <2>2 DEF Reads
  <2> DEFINE s == <<255, 216>>
  <2>4. s \in Seq(Nat) /\ Len(s) = 2 /\ s[1] = 255
    OBVIOUS
  <2>5. Rar!IsJpegBegun(f) <=> Rar!Has(f, 0, s)
    BY DEF Rar!IsJpegBegun
  <2> HIDE DEF s
  <2>6. ASSUME Rar!Has(f, 0, s) PROVE f[0 + 1] = 255
    <3>1. f \in Seq(Nat)
      BY <1>1
    <3>2. Reads(f, 0, s)
      BY <2>4, <2>6, <3>1, HasIs
    <3> QED
      BY <2>4, <3>2 DEF Reads
  <2> QED
    BY <2>3, <2>5, <2>6
<1> HIDE DEF f
<1>4. ~Rar!IsShort(f) /\ Rar!EocdOffset(f) # -1 /\ Len(f) >= 22 /\ 4 <= Len(f)
  BY <1>1, <1>2 DEF Rar!IsShort
<1> QED
  BY <1>2, <1>3, <1>4 DEF f

LEMMA PictureFile ==
  ASSUME NEW p \in Seq(Nat), Rar!Plain(p), NEW a, Archived(a)
  PROVE  LET f == p \o a.bytes
             found == Rar!CollectFileNames(f, Rar!EocdOffset(f), Len(p))
         IN  /\ Rar!IsJpegBegun(f) /\ ~Rar!IsShort(f) /\ Len(f) >= 22 /\ Len(p) + 4 <= Len(f)
             /\ Rar!EocdOffset(f) # -1 /\ Rar!GetJpegEnd(f) = Len(p) /\ Rar!Has(f, Len(p), Rar!LocalHeader)
             /\ found.names = a.names /\ found.short = FALSE
<1> DEFINE z == a.bytes
           f == p \o z
           s == <<255, 216>>
<1>1. z \in Seq(Nat) /\ Len(z) \in Nat /\ Len(z) >= 1 /\ f \in Seq(Nat) /\ Len(f) \in Nat
  <2>1. z \in Seq(Nat) /\ Rar!Has(z, 0, Rar!LocalHeader)
    BY DEF Archived, Rar!Zip
  <2> HIDE DEF z
  <2>2. 0 + 4 <= Len(z)
    BY <2>1, HeaderIs, HasIs DEF Reads
  <2> QED
    BY <2>1, <2>2
<1>2. Rar!IsJpegBegun(f)
  <2>1. Rar!Has(p, 0, s)
    BY DEF Rar!Plain
  <2>2. s \in Seq(Nat)
    OBVIOUS
  <2> HIDE DEF s, z
  <2>3. Rar!Has(f, 0, s)
    BY <1>1, <2>1, <2>2, HasInFront
  <2> QED
    BY <2>3 DEF Rar!IsJpegBegun, s
<1>3. Rar!GetJpegEnd(f) = Len(p)
  <2> HIDE DEF z
  <2> QED
    BY <1>1, PlainEnd
<1>4. LET found == Rar!CollectFileNames(f, Rar!EocdOffset(f), Len(p))
      IN  /\ Len(f) >= 23 /\ Len(p) + 4 <= Len(f)
          /\ Rar!EocdOffset(f) \in Nat /\ Rar!Has(f, Len(p), Rar!LocalHeader)
          /\ found.names = a.names /\ found.short = FALSE
  BY ZipBehind
<1> HIDE DEF f
<1>5. ~Rar!IsShort(f) /\ Rar!EocdOffset(f) # -1 /\ Len(f) >= 22
  BY <1>1, <1>4 DEF Rar!IsShort
<1> QED
  BY <1>2, <1>3, <1>4, <1>5 DEF f

LEMMA TwoAndFour ==
  ASSUME NEW S, NEW t \in Seq(S), NEW h \in Seq(S)
  PROVE  Len(t) = 2 /\ Len(h) = 4 =>
           /\ t \o h \in Seq(S) /\ Len(t \o h) = 6 /\ (t \o h)[1] = t[1] /\ (t \o h)[2] = t[2]
           /\ \A k \in 1..4 : (t \o h)[2 + k] = h[k]
<1> DEFINE c == t \o h
<1>1. /\ c \in Seq(S) /\ Len(c) = Len(t) + Len(h)
      /\ \A k \in 1..Len(t) : c[k] = t[k]
      /\ \A k \in 1..Len(h) : c[Len(t) + k] = h[k]
  BY Behind
<1> HIDE DEF c
<1>2. ASSUME Len(t) = 2, Len(h) = 4
      PROVE  /\ c \in Seq(S) /\ Len(c) = 6 /\ c[1] = t[1] /\ c[2] = t[2]
             /\ \A k \in 1..4 : c[2 + k] = h[k]
  BY <1>1, <1>2
<1> QED
  BY <1>2 DEF c

LEMMA MarkerBefore ==
  ASSUME NEW f \in Seq(Nat), Rar!Has(f, Rar!GetJpegEnd(f), Rar!LocalHeader)
  PROVE  \E o \in 0..Len(f) : Rar!Has(f, o, <<255, 217>> \o Rar!LocalHeader)
<1> DEFINE x == Rar!GetJpegEnd(f)
           h == Rar!LocalHeader
           s == <<255, 217>> \o h
<1>1. h \in Seq(Nat) /\ Len(h) = 4
  BY HeaderIs
<1> HIDE DEF h
<1>2. /\ s \in Seq(Nat) /\ Len(s) = 6 /\ s[1] = 255 /\ s[2] = 217 /\ \A k \in 1..4 : s[2 + k] = h[k]
  <2> DEFINE t == <<255, 217>>
  <2>1. t \in Seq(Nat) /\ Len(t) = 2 /\ t[1] = 255 /\ t[2] = 217
    OBVIOUS
  <2> HIDE DEF t
  <2>2. /\ t \o h \in Seq(Nat) /\ Len(t \o h) = 6 /\ (t \o h)[1] = t[1] /\ (t \o h)[2] = t[2]
        /\ \A k \in 1..4 : (t \o h)[2 + k] = h[k]
    BY <1>1, <2>1, TwoAndFour
  <2> QED
    BY <2>1, <2>2 DEF t
<1>3. x = Len(f) \/ (x \in 2..Len(f) /\ f[x - 1] = 255 /\ f[x] = 217)
  BY JpegEndFacts
<1> HIDE DEF x, s
<1>4. x \in Nat /\ Len(f) \in Nat
  BY <1>3
<1>5. x + 4 <= Len(f) /\ \A k \in 1..4 : f[x + k] = h[k]
  <2>1. Rar!Has(f, x, h)
    BY DEF x, h
  <2>2. Reads(f, x, h)
    BY <1>1, <1>4, <2>1, HasIs
  <2> QED
    BY <1>1, <2>2 DEF Reads
<1>6. x \in 2..Len(f) /\ f[x - 1] = 255 /\ f[x] = 217
  BY <1>3, <1>4, <1>5
<1> DEFINE o == x - 2
<1>7. o \in 0..Len(f) /\ o \in Nat /\ o + 6 <= Len(f) /\ x = o + 2
  BY <1>5, <1>6
<1> HIDE DEF o
<1>8. ASSUME NEW k \in 1..6 PROVE f[o + k] = s[k]
  <2>1. CASE k = 1
    <3>1. o + 1 = x - 1
      BY <1>4, <1>7
    <3> QED
      BY <1>2, <1>6, <2>1, <3>1
  <2>2. CASE k = 2
    BY <1>2, <1>6, <1>7, <2>2
  <2>3. CASE k > 2
    <3>1. k - 2 \in 1..4 /\ 2 + (k - 2) = k /\ x + (k - 2) = o + k
      BY <1>7, <2>3
    <3>2. s[k] = h[k - 2]
      BY <1>2, <3>1
    <3>3. f[o + k] = f[x + (k - 2)] /\ f[x + (k - 2)] = h[k - 2]
      BY <1>5, <3>1, Zenon
    <3> QED
      BY <3>2, <3>3, Zenon
  <2> QED
    BY <2>1, <2>2, <2>3
<1>9. Rar!Has(f, o, s)
  BY <1>2, <1>7, <1>8, HasIs DEF Reads
<1> QED
  BY <1>7, <1>9 DEF s, h

Chosen(p, a, q) == p \in Pictures /\ a \in Archives /\ q \in Rests

LEMMA ChosenFacts ==
  ASSUME NEW p, NEW a, NEW q, Chosen(p, a, q)
  PROVE  /\ p \in Seq(Nat) /\ a.bytes \in Seq(Nat) /\ q \in Seq(Nat) /\ p \o a.bytes \o q \in Seq(Nat)
         /\ a.names # <<>> => Archived(a)
<1>1. /\ p \in Rar!Bytes /\ a.bytes \in Rar!Bytes /\ q \in Rar!Bytes
      /\ a.names \in Seq(Rar!Bytes) /\ a.at \in Seq(Nat) /\ (a.names # <<>> => Rar!Zip(a))
  BY FormatsAssumption DEF Rar!RarjpegAssumption, Chosen
<1>2. p \in Seq(Nat) /\ a.bytes \in Seq(Nat) /\ q \in Seq(Nat) /\ a.names \in Seq(Seq(Nat))
  BY <1>1, BytesAre
<1> QED
  BY <1>1, <1>2 DEF Archived

(* main() without a look at the ZIP.                                       *)
LEMMA RefuseTells ==
  ASSUME NEW p, NEW a, NEW q, Chosen(p, a, q), NEW v, NEW got, NEW f, f = p \o a.bytes \o q,
         \/ Rar!IsShort(f) /\ v = 6
         \/ ~Rar!IsShort(f) /\ Rar!IsJpegBegun(f) /\ Rar!IsJpegEnd(f) /\ v = 5
         \/ /\ ~Rar!IsShort(f) /\ ~(Rar!IsJpegBegun(f) /\ Rar!IsJpegEnd(f))
            /\ \/ Len(f) < 22 /\ v = 22
               \/ Len(f) >= 22 /\ Rar!EocdOffset(f) = -1 /\ v = 6
  PROVE  Told(p, a, q, v, got)
<1>1. Len(f) \in Nat
  BY ChosenFacts
<1>2. Rar!Plain(f) => v = 5
  BY PlainFile
<1>3. ASSUME a.names # <<>>, q = <<>>, ~Rar!IsJpegEnd(f), p = <<>>
      PROVE  FALSE
  <2>1. Archived(a) /\ f = a.bytes
    BY <1>3, ChosenFacts
  <2>2. /\ ~Rar!IsShort(f) /\ Len(f) >= 22 /\ Rar!EocdOffset(f) # -1
    BY <2>1, ZipFile
  <2> QED
    BY <1>1, <1>3, <2>2
<1>4. ASSUME a.names # <<>>, q = <<>>, ~Rar!IsJpegEnd(f), Rar!Plain(p)
      PROVE  FALSE
  <2>1. Archived(a) /\ f = p \o a.bytes /\ p \in Seq(Nat)
    BY <1>4, ChosenFacts
  <2>2. /\ ~Rar!IsShort(f) /\ Len(f) >= 22 /\ Rar!EocdOffset(f) # -1
    BY <1>4, <2>1, PictureFile
  <2> QED
    BY <1>1, <1>4, <2>2
<1>5. v # 4
  OBVIOUS
<1> QED
  BY <1>2, <1>3, <1>4, <1>5 DEF Told

(* main() with a look at it.                                               *)
Inspected(f, begin, found, v, got) ==
  /\ begin = IF Rar!IsJpegBegun(f) THEN Rar!GetJpegEnd(f) ELSE 0
  /\ found = Rar!CollectFileNames(f, Rar!EocdOffset(f), begin)
  /\ ~(Rar!IsJpegBegun(f) /\ Rar!IsJpegEnd(f)) /\ Len(f) >= 22 /\ Rar!EocdOffset(f) # -1
  /\ \/ begin + 4 > Len(f) /\ v = 14
     \/ /\ Rar!Has(f, begin, Rar!LocalHeader) /\ got \in Rar!Shown(found.names)
        /\ v = IF found.short THEN 101 ELSE IF Rar!IsJpegBegun(f) THEN 4 ELSE 3
     \/ begin + 4 <= Len(f) /\ ~Rar!Has(f, begin, Rar!LocalHeader) /\ v = 6

LEMMA InspectTells ==
  ASSUME NEW p, NEW a, NEW q, Chosen(p, a, q), NEW v, NEW got, NEW f, f = p \o a.bytes \o q,
         NEW begin, NEW found, Inspected(f, begin, found, v, got)
  PROVE  Told(p, a, q, v, got)
<1> USE DEF Inspected
<1>1. f \in Seq(Nat) /\ Len(f) \in Nat
  BY ChosenFacts
<1>2. Rar!Plain(f) => v = 5
  BY PlainFile
<1>3. ASSUME a.names # <<>>, q = <<>>, p = <<>>
      PROVE  v = 3 /\ Rar!Listed(got, a.names)
  <2>1. Archived(a) /\ f = a.bytes
    BY <1>3, ChosenFacts
  <2>2. ~Rar!IsJpegBegun(f) /\ 4 <= Len(f) /\ Rar!Has(f, 0, Rar!LocalHeader)
    BY <2>1, ZipFile
  <2>3. begin = 0
    BY <2>2
  <2>4. found.names = a.names /\ found.short = FALSE
    BY <2>1, <2>3, ZipFile
  <2>5. ~(begin + 4 > Len(f))
    BY <1>1, <2>2, <2>3
  <2>6. v = 3 /\ got \in Rar!Shown(a.names)
    BY <2>2, <2>3, <2>4, <2>5
  <2> QED
    BY <2>1, <2>6, LinesShow DEF Archived
<1>4. ASSUME a.names # <<>>, q = <<>>, Rar!Plain(p)
      PROVE  v = 4 /\ Rar!Listed(got, a.names)
  <2>1. Archived(a) /\ f = p \o a.bytes /\ p \in Seq(Nat)
    BY <1>4, ChosenFacts
  <2>2. /\ Rar!IsJpegBegun(f) /\ Rar!GetJpegEnd(f) = Len(p) /\ Len(p) + 4 <= Len(f)
        /\ Rar!Has(f, Len(p), Rar!LocalHeader)
    BY <1>4, <2>1, PictureFile
  <2>3. begin = Len(p)
    BY <2>2
  <2>4. found.names = a.names /\ found.short = FALSE
    BY <1>4, <2>1, <2>3, PictureFile
  <2>5. ~(begin + 4 > Len(f))
    BY <1>1, <2>1, <2>2, <2>3
  <2>6. v = 4 /\ got \in Rar!Shown(a.names)
    BY <2>2, <2>3, <2>4, <2>5
  <2> QED
    BY <2>1, <2>6, LinesShow DEF Archived
<1>5. ASSUME v = 4
      PROVE  /\ Rar!Has(f, 0, <<255, 216>>)
             /\ \E o \in 0..Len(f) : Rar!Has(f, o, <<255, 217>> \o Rar!LocalHeader)
             /\ \E o \in 0..Len(f) : Rar!Has(f, o, Rar!EndRecord)
  <2>1. Rar!IsJpegBegun(f) /\ Rar!Has(f, Rar!GetJpegEnd(f), Rar!LocalHeader)
    BY <1>5
  <2>2. \E o \in 0..Len(f) : Rar!Has(f, o, <<255, 217>> \o Rar!LocalHeader)
    BY <1>1, <2>1, MarkerBefore
  <2>3. \E o \in 0..Len(f) : Rar!Has(f, o, Rar!EndRecord)
    BY <1>1, EocdFacts
  <2> QED
    BY <2>1, <2>2, <2>3 DEF Rar!IsJpegBegun
<1> QED
  BY <1>2, <1>3, <1>4, <1>5, Zenon DEF Told

RarInv ==
  /\ verdict \in Int
  /\ verdict # -1 => Chosen(picture, archive, rest)
  /\ verdict >= 0 => Told(picture, archive, rest, verdict, names)

LEMMA RarInvInductive == RarInv /\ [Rar!Next]_(Rar!vars) => RarInv'
<1> SUFFICES ASSUME RarInv, [Rar!Next]_(Rar!vars) PROVE RarInv'
  OBVIOUS
<1> USE DEF RarInv
<1> DEFINE f == picture \o archive.bytes \o rest
<1>0. Rar!File = f
  BY DEF Rar!File
<1>1. ASSUME NEW p \in Pictures, NEW a \in Archives, NEW q \in Rests, Rar!Choose(p, a, q)
      PROVE  RarInv'
  <2>1. picture' = p /\ archive' = a /\ rest' = q /\ verdict' = -2
    BY <1>1 DEF Rar!Choose
  <2>2. verdict' \in Int /\ ~(verdict' >= 0)
    BY <2>1
  <2>3. Chosen(picture, archive, rest)'
    BY <2>1 DEF Chosen
  <2> QED
    BY <2>2, <2>3
<1>2. ASSUME NEW v \in Int, verdict = -2, verdict' = v, Told(picture, archive, rest, v, names'),
             picture' = picture, archive' = archive, rest' = rest
      PROVE  RarInv'
  <2>1. Chosen(picture, archive, rest)
    BY <1>2
  <2>2. Chosen(picture, archive, rest)' /\ Told(picture, archive, rest, verdict, names)'
    BY <1>2, <2>1 DEF Chosen, Told
  <2> QED
    BY <1>2, <2>2
<1>3. CASE Rar!Refuse
  <2> DEFINE v == verdict'
  <2>1. /\ verdict = -2 /\ picture' = picture /\ archive' = archive /\ rest' = rest
        /\ \/ Rar!IsShort(f) /\ v = 6
           \/ ~Rar!IsShort(f) /\ Rar!IsJpegBegun(f) /\ Rar!IsJpegEnd(f) /\ v = 5
           \/ /\ ~Rar!IsShort(f) /\ ~(Rar!IsJpegBegun(f) /\ Rar!IsJpegEnd(f))
              /\ \/ Len(f) < 22 /\ v = 22
                 \/ Len(f) >= 22 /\ Rar!EocdOffset(f) = -1 /\ v = 6
    BY <1>0, <1>3 DEF Rar!Refuse, Rar!Ends, Rar!EndRecordLen, Rar!Invalid
  <2>2. v \in Int /\ Chosen(picture, archive, rest)
    BY <2>1
  <2>3. Told(picture, archive, rest, v, names')
    BY <2>1, <2>2, RefuseTells
  <2> QED
    BY <1>2, <2>1, <2>2, <2>3
<1>4. CASE Rar!Inspect
  <2> DEFINE v == verdict'
             begin == IF Rar!IsJpegBegun(f) THEN Rar!GetJpegEnd(f) ELSE 0
             found == Rar!CollectFileNames(f, Rar!EocdOffset(f), begin)
  <2>1. /\ verdict = -2 /\ picture' = picture /\ archive' = archive /\ rest' = rest
        /\ ~(Rar!IsJpegBegun(f) /\ Rar!IsJpegEnd(f)) /\ Len(f) >= 22 /\ Rar!EocdOffset(f) # -1
        /\ \/ begin + 4 > Len(f) /\ v = 14
           \/ /\ Rar!Has(f, begin, Rar!LocalHeader) /\ names' \in Rar!Shown(found.names)
              /\ v = IF found.short THEN 101 ELSE IF Rar!IsJpegBegun(f) THEN 4 ELSE 3
           \/ begin + 4 <= Len(f) /\ ~Rar!Has(f, begin, Rar!LocalHeader) /\ v = 6
    BY <1>0, <1>4 DEF Rar!Inspect, Rar!List, Rar!Ends, Rar!EndRecordLen, Rar!CutShort
  <2>2. v \in Int /\ Chosen(picture, archive, rest)
    BY <2>1
  <2>3. Told(picture, archive, rest, v, names')
    <3>1. Inspected(f, begin, found, v, names') /\ f = picture \o archive.bytes \o rest
      BY <2>1 DEF Inspected
    <3> HIDE DEF f, v, begin, found
    <3> QED
      BY <2>2, <3>1, InspectTells
  <2> QED
    BY <1>2, <2>1, <2>2, <2>3
<1>5. CASE UNCHANGED Rar!vars
  BY <1>5 DEF Rar!vars, Chosen, Told
<1> QED
  BY <1>1, <1>3, <1>4, <1>5 DEF Rar!Next

(* The verdict of the detector, and the names it prints.                   *)
THEOREM VerdictIsRight == Rar!Spec => []VerdictRight
<1>1. Rar!Init => RarInv
  BY DEF Rar!Init, RarInv
<1>2. RarInv /\ [Rar!Next]_(Rar!vars) => RarInv'
  BY RarInvInductive
<1>3. RarInv => VerdictRight
  BY DEF RarInv, Told, VerdictRight, Rar!VerdictRight, Rar!File
<1> QED
  BY <1>1, <1>2, <1>3, PTL DEF Rar!Spec

-----------------------------------------------------------------------------
(***************************************************************************)
(* The converter: the tables, one character, and the text.                 *)
(***************************************************************************)
Point(pg, byte) == IF byte < 128 THEN byte ELSE Conv!Table(pg)[byte - 127]

(* What codepoint_to_utf8 writes in two or three bytes.                    *)
Plane(t) == \A k \in 1..128 : t[k] \in Int /\ t[k] >= 128 /\ t[k] <= 65535 /\ (t[k] < 55296 \/ t[k] > 57343)
OneToOne(t) == \A k, l \in 1..128 : t[k] = t[l] => k = l
HasLetters(t) == \A c \in Conv!RussianLetters : \E k \in 1..128 : t[k] = c

LEMMA KoiFacts == Plane(Conv!CpKoi) /\ OneToOne(Conv!CpKoi) /\ HasLetters(Conv!CpKoi)
<1>1. Plane(Conv!CpKoi)
  BY SMTT(60) DEF Conv!CpKoi, Plane
<1>2. OneToOne(Conv!CpKoi)
  BY SMTT(60) DEF Conv!CpKoi, OneToOne
<1>3. HasLetters(Conv!CpKoi)
  BY SMTT(60) DEF Conv!CpKoi, HasLetters, Conv!RussianLetters
<1> QED
  BY <1>1, <1>2, <1>3

LEMMA CpFacts == Plane(Conv!CpCp) /\ OneToOne(Conv!CpCp) /\ HasLetters(Conv!CpCp)
<1>1. Plane(Conv!CpCp)
  BY SMTT(60) DEF Conv!CpCp, Plane
<1>2. OneToOne(Conv!CpCp)
  BY SMTT(60) DEF Conv!CpCp, OneToOne
<1>3. HasLetters(Conv!CpCp)
  BY SMTT(60) DEF Conv!CpCp, HasLetters, Conv!RussianLetters
<1> QED
  BY <1>1, <1>2, <1>3

LEMMA IsoFacts == Plane(Conv!CpIso) /\ OneToOne(Conv!CpIso) /\ HasLetters(Conv!CpIso)
<1>1. Plane(Conv!CpIso)
  BY SMTT(60) DEF Conv!CpIso, Plane
<1>2. OneToOne(Conv!CpIso)
  BY SMTT(60) DEF Conv!CpIso, OneToOne
<1>3. HasLetters(Conv!CpIso)
  BY SMTT(60) DEF Conv!CpIso, HasLetters, Conv!RussianLetters
<1> QED
  BY <1>1, <1>2, <1>3

LEMMA TableFacts ==
  ASSUME NEW pg \in Conv!Pages
  PROVE  Plane(Conv!Table(pg)) /\ OneToOne(Conv!Table(pg)) /\ HasLetters(Conv!Table(pg))
<1>1. CASE pg = "KOI8-R"
  <2>1. Conv!Table(pg) = Conv!CpKoi
    BY <1>1 DEF Conv!Table
  <2> QED
    BY <2>1, KoiFacts
<1>2. CASE pg = "CP-1251"
  <2>1. Conv!Table(pg) = Conv!CpCp
    BY <1>2 DEF Conv!Table
  <2> QED
    BY <2>1, CpFacts
<1>3. CASE pg = "ISO-8859-5"
  <2>1. Conv!Table(pg) = Conv!CpIso
    BY <1>3 DEF Conv!Table
  <2> QED
    BY <2>1, IsoFacts
<1> QED
  BY <1>1, <1>2, <1>3 DEF Conv!Pages

TwoOrThree(cp) == cp \in Nat /\ cp >= 128 /\ cp <= 65535 /\ (cp < 55296 \/ cp > 57343)

LEMMA PointFacts ==
  ASSUME NEW pg \in Conv!Pages
  PROVE  /\ \A x \in 0..255 : (x < 128 => Point(pg, x) = x) /\ (x >= 128 => TwoOrThree(Point(pg, x)))
         /\ \A x, y \in 0..255 : Point(pg, x) = Point(pg, y) => x = y
<1>1. Plane(Conv!Table(pg)) /\ OneToOne(Conv!Table(pg))
  BY TableFacts
<1> DEFINE t == Conv!Table(pg)
<1> HIDE DEF t
<1>2. ASSUME NEW x \in 128..255
      PROVE  x - 127 \in 1..128 /\ TwoOrThree(t[x - 127])
  <2>1. x - 127 \in 1..128
    OBVIOUS
  <2> QED
    BY <1>1, <2>1 DEF Plane, t, TwoOrThree
<1>3. \A x \in 0..255 : Point(pg, x) = IF x < 128 THEN x ELSE t[x - 127]
  BY DEF Point, t
<1>4. ASSUME NEW x \in 0..255
      PROVE  (x < 128 => Point(pg, x) = x) /\ (x >= 128 => TwoOrThree(Point(pg, x)))
  BY <1>2, <1>3
<1>5. ASSUME NEW x \in 0..255, NEW y \in 0..255, Point(pg, x) = Point(pg, y)
      PROVE  x = y
  <2> DEFINE u == Point(pg, x)
             v == Point(pg, y)
  <2>1. /\ (x < 128 => u = x) /\ (x >= 128 => TwoOrThree(u))
        /\ (y < 128 => v = y) /\ (y >= 128 => TwoOrThree(v))
        /\ u = v
    BY <1>4, <1>5
  <2>2. /\ (x < 128 => u = x) /\ (x >= 128 => u = t[x - 127])
        /\ (y < 128 => v = y) /\ (y >= 128 => v = t[y - 127])
    BY <1>3
  <2> HIDE DEF u, v
  <2>3. CASE x < 128
    <3>1. y < 128
      BY <2>1, <2>3 DEF TwoOrThree
    <3> QED
      BY <2>1, <2>3, <3>1
  <2>4. CASE x >= 128
    <3> DEFINE k == x - 127
               l == y - 127
    <3>0. y >= 128
      BY <2>1, <2>4 DEF TwoOrThree
    <3>1. k \in 1..128 /\ l \in 1..128 /\ t[k] = t[l]
      BY <2>1, <2>2, <2>4, <3>0
    <3> HIDE DEF k, l
    <3>2. k = l
      BY <1>1, <3>1 DEF OneToOne, t
    <3> USE DEF k, l
    <3> QED
      BY <3>2
  <2> QED
    BY <2>3, <2>4
<1> QED
  BY <1>4, <1>5

(* How a character is read back, by its length.                            *)
Value(c, n, k) == IF k = 1 THEN c[1] - <<0, 192, 224, 240>>[n]
                  ELSE IF k = 2 THEN 64 * (c[1] - <<0, 192, 224, 240>>[n]) + c[2] - 128
                  ELSE 64 * (64 * (c[1] - <<0, 192, 224, 240>>[n]) + c[2] - 128) + c[3] - 128

WellFormed(c) ==
  /\ Len(c) = 1 => c[1] < 128
  /\ \A k \in 2..Len(c) : c[k] \in 128..191
  /\ Value(c, Len(c), Len(c)) >= <<0, 128, 2048, 65536>>[Len(c)]

LEMMA CharacterIs ==
  ASSUME NEW c, Len(c) \in 1..3, WellFormed(c)
  PROVE  Conv!Character(c) = Value(c, Len(c), Len(c))
<1> DEFINE n == Len(c)
           Eq(f) == f = [k \in 1..n |-> IF k = 1 THEN c[1] - <<0, 192, 224, 240>>[n]
                                        ELSE 64 * f[k - 1] + c[k] - 128]
<1>1. \E f : Eq(f)
  <2> DEFINE f == [k \in 1..n |-> Value(c, n, k)]
  <2>1. \A k \in 1..n : f[k] = IF k = 1 THEN c[1] - <<0, 192, 224, 240>>[n]
                                        ELSE 64 * f[k - 1] + c[k] - 128
    <3> TAKE k \in 1..n
    <3>0. n \in 1..3
      OBVIOUS
    <3> HIDE DEF n
    <3>1. k = 1 \/ (k = 2 /\ k - 1 = 1 /\ 1 \in 1..n) \/ (k = 3 /\ k - 1 = 2 /\ 2 \in 1..n)
      BY <3>0
    <3> QED
      BY <3>1 DEF Value
  <2> HIDE DEF f
  <2>2. Eq(f)
    BY <2>1 DEF f
  <2> QED
    BY <2>2
<1>2. PICK f : Eq(f) /\ f = CHOOSE g : Eq(g)
  BY <1>1
<1>3. f[n] = Value(c, n, n)
  <2> HIDE DEF n
  <2>0. n \in 1..3
    BY DEF n
  <2>1. \A k \in 1..n : f[k] = IF k = 1 THEN c[1] - <<0, 192, 224, 240>>[n]
                                        ELSE 64 * f[k - 1] + c[k] - 128
    BY <1>2
  <2>2. n = 1 \/ n = 2 \/ n = 3
    BY <2>0
  <2>3. f[1] = Value(c, n, 1) /\ 1 \in 1..n
    BY <2>0, <2>1 DEF Value
  <2>4. n >= 2 => f[2] = Value(c, n, 2)
    <3>1. n >= 2 => 2 \in 1..n /\ f[2] = 64 * f[2 - 1] + c[2] - 128
      BY <2>0, <2>1
    <3> QED
      BY <2>3, <3>1 DEF Value
  <2>5. n = 3 => f[3] = Value(c, n, 3)
    <3>1. n = 3 => 3 \in 1..n /\ f[3] = 64 * f[3 - 1] + c[3] - 128
      BY <2>0, <2>1
    <3> QED
      BY <2>4, <3>1 DEF Value
  <2> QED
    BY <2>2, <2>3, <2>4, <2>5
<1> DEFINE value == CHOOSE g : Eq(g)
<1>4. Conv!Character(c) =
        IF (n = 1 => c[1] < 128) /\ (\A k \in 2..n : c[k] \in 128..191) /\ value[n] >= <<0, 128, 2048, 65536>>[n]
        THEN value[n] ELSE 0
  BY DEF Conv!Character
<1>5. value[n] = Value(c, n, n)
  <2>1. value = f
    BY <1>2, Zenon
  <2> HIDE DEF value
  <2> QED
    BY <1>3, <2>1
<1> HIDE DEF Eq, value
<1> QED
  BY <1>4, <1>5 DEF WellFormed, n

Octet == 0..255

LEMMA OctetIs == \A x : x \in Octet <=> x \in Nat /\ x <= 255
  BY DEF Octet

LEMMA CharacterOf ==
  ASSUME NEW c, WellFormed(c), NEW n, n \in 1..3, Len(c) = n
  PROVE  Conv!Character(c) = Value(c, n, n)
  BY CharacterIs, Zenon

LEMMA OctetSequences ==
  ASSUME NEW a \in Octet, NEW b \in Octet, NEW c \in Octet
  PROVE  <<a>> \in Seq(Octet) /\ <<a, b>> \in Seq(Octet) /\ <<a, b, c>> \in Seq(Octet)
  OBVIOUS

LEMMA OneByte ==
  ASSUME NEW cp \in 0..127
  PROVE  Conv!Length(cp) = 1 /\ Conv!Character(<<cp>>) = cp
<1>1. Conv!Length(cp) = 1
  BY DEF Conv!Length
<1> DEFINE c == <<cp>>
<1>2. Len(c) = 1 /\ c[1] = cp
  OBVIOUS
<1> HIDE DEF c
<1>3. Value(c, 1, 1) = cp
  BY <1>2 DEF Value
<1>4. 2..1 = {}
  OBVIOUS
<1>5. Conv!Character(c) = cp
  <2>1. \A k \in 2..1 : c[k] \in 128..191
    BY <1>4
  <2>2. WellFormed(c) /\ Len(c) \in 1..3
    BY <1>2, <1>3, <2>1 DEF WellFormed
  <2>3. Len(c) = 1 /\ 1 \in 1..3
    BY <1>2
  <2>4. Conv!Character(c) = Value(c, 1, 1)
    BY <2>2, <2>3, CharacterOf
  <2> QED
    BY <1>3, <2>4
<1> QED
  BY <1>1, <1>5 DEF c

LEMMA TwoRead ==
  ASSUME NEW q \in Nat, q >= 2, q <= 31, NEW m \in Nat, m <= 63,
         NEW c, Len(c) = 2, c[1] = 192 + q, c[2] = 128 + m, NEW v, v = 64 * q + m
  PROVE  Conv!Length(c[1]) = 2 /\ Conv!Character(c) = v
<1>1. c[1] \in 192..223 /\ c[2] \in 128..191
  OBVIOUS
<1>2. Conv!Length(c[1]) = 2
  <2>1. ~(c[1] < 128)
    BY <1>1
  <2>2. c[1] \notin 224..239 /\ c[1] \notin 240..247
    BY <1>1
  <2> QED
    BY <1>1, <2>1, <2>2 DEF Conv!Length
<1>3. Value(c, 2, 2) = v
  BY DEF Value
<1>4. \A k \in 2..2 : c[k] \in 128..191
  BY <1>1
<1>5. WellFormed(c) /\ Len(c) \in 1..3
  BY <1>3, <1>4 DEF WellFormed
<1>6. Conv!Character(c) = Value(c, Len(c), Len(c))
  BY <1>5, CharacterIs
<1> QED
  BY <1>2, <1>3, <1>6

LEMMA TwoBytes ==
  ASSUME NEW cp \in Nat, cp >= 128, cp <= 2047, NEW c, c = <<192 + cp \div 64, 128 + (cp % 64)>>
  PROVE  /\ c[1] \in Octet /\ c[2] \in Octet /\ Len(c) = 2
         /\ c = <<c[1], c[2]>> /\ Conv!Length(c[1]) = 2 /\ Conv!Character(c) = cp
<1> DEFINE q == cp \div 64
           m == cp % 64
<1>1. /\ q \in Nat /\ q >= 2 /\ q <= 31 /\ m \in Nat /\ m <= 63
      /\ cp = 64 * q + m
  BY SMT
<1>2. Len(c) = 2 /\ c[1] = 192 + q /\ c[2] = 128 + m /\ c = <<c[1], c[2]>>
  OBVIOUS
<1> HIDE DEF q, m
<1>3. Conv!Length(c[1]) = 2 /\ Conv!Character(c) = cp
  BY <1>1, <1>2, TwoRead
<1>4. c[1] \in Octet /\ c[2] \in Octet
  BY <1>1, <1>2, OctetIs
<1> QED
  BY <1>2, <1>3, <1>4

LEMMA ThreeRead ==
  ASSUME NEW q \in Nat, q <= 15, NEW m \in Nat, m <= 63, NEW l \in Nat, l <= 63,
         NEW c, Len(c) = 3, c[1] = 224 + q, c[2] = 128 + m, c[3] = 128 + l, 64 * q + m >= 32,
         NEW v, v = 4096 * q + 64 * m + l
  PROVE  Conv!Length(c[1]) = 3 /\ Conv!Character(c) = v
<1>1. c[1] \in 224..239 /\ c[2] \in 128..191 /\ c[3] \in 128..191
  OBVIOUS
<1>2. Conv!Length(c[1]) = 3
  <2>1. ~(c[1] < 128)
    BY <1>1
  <2>2. c[1] \notin 192..223 /\ c[1] \notin 240..247
    BY <1>1
  <2> QED
    BY <1>1, <2>1, <2>2 DEF Conv!Length
<1>3. Value(c, 3, 3) = v /\ v >= 2048
  BY DEF Value
<1>4. \A k \in 2..3 : c[k] \in 128..191
  <2>1. \A k \in 2..3 : k = 2 \/ k = 3
    OBVIOUS
  <2> QED
    BY <1>1, <2>1
<1>5. WellFormed(c) /\ Len(c) \in 1..3
  BY <1>3, <1>4 DEF WellFormed
<1>6. Conv!Character(c) = Value(c, Len(c), Len(c))
  BY <1>5, CharacterIs
<1> QED
  BY <1>2, <1>3, <1>6

LEMMA ThreeBytes ==
  ASSUME NEW cp \in Nat, cp >= 2048, cp <= 65535,
         NEW c, c = <<224 + cp \div 4096, 128 + ((cp \div 64) % 64), 128 + (cp % 64)>>
  PROVE  /\ c[1] \in Octet /\ c[2] \in Octet /\ c[3] \in Octet /\ Len(c) = 3
         /\ c = <<c[1], c[2], c[3]>> /\ Conv!Length(c[1]) = 3 /\ Conv!Character(c) = cp
<1> DEFINE q == cp \div 4096
           m == (cp \div 64) % 64
           l == cp % 64
<1>1. q \in Nat /\ q <= 15 /\ m \in Nat /\ m <= 63 /\ l \in Nat /\ l <= 63 /\ cp = 4096 * q + 64 * m + l
  BY SMT
<1>2. /\ c = <<c[1], c[2], c[3]>> /\ Len(c) = 3
      /\ c[1] = 224 + q /\ c[2] = 128 + m /\ c[3] = 128 + l
  OBVIOUS
<1> HIDE DEF q, m, l
<1>3. 64 * q + m >= 32
  BY <1>1
<1>4. Conv!Length(c[1]) = 3 /\ Conv!Character(c) = cp
  BY <1>1, <1>2, <1>3, ThreeRead
<1>5. c[1] \in Octet /\ c[2] \in Octet /\ c[3] \in Octet
  BY <1>1, <1>2, OctetIs
<1> QED
  BY <1>2, <1>4, <1>5

(* A byte of the text, written and read back.                              *)
LEMMA EncodedFacts ==
  ASSUME NEW pg \in Conv!Pages, NEW x \in Octet
  PROVE  LET e == Conv!Encoded(pg, x)
         IN  /\ e \in Seq(Octet) /\ Len(e) \in 1..3
             /\ Conv!Length(e[1]) = Len(e) /\ Conv!Character(e) = Point(pg, x)
<1>0. x \in Nat /\ x <= 255
  BY OctetIs
<1> DEFINE e == Conv!Encoded(pg, x)
           cp == Point(pg, x)
<1>1. CASE x < 128
  <2>1. e = <<x>> /\ cp = x
    BY <1>0, <1>1 DEF Conv!Encoded, Point
  <2>2. e \in Seq(Octet) /\ Len(e) = 1 /\ e[1] = x
    BY <2>1, OctetSequences
  <2>3. Conv!Length(x) = 1 /\ Conv!Character(<<x>>) = x
    <3>1. x \in 0..127
      BY <1>0, <1>1
    <3> QED
      BY <3>1, OneByte
  <2> HIDE DEF e, cp
  <2> QED
    BY <2>1, <2>2, <2>3 DEF e, cp
<1>2. CASE x >= 128
  <2>1. TwoOrThree(cp)
    <3>1. x \in 0..255
      BY <1>0
    <3> QED
      BY <1>2, <3>1, PointFacts
  <2>2. e = Conv!Utf8(cp)
    BY <1>0, <1>2 DEF Conv!Encoded, Point
  <2> HIDE DEF e, cp
  <2>3. CASE cp <= 2047
    <3>1. e = <<192 + cp \div 64, 128 + (cp % 64)>>
      BY <2>1, <2>2, <2>3 DEF Conv!Utf8, Conv!Trail, TwoOrThree
    <3>2. /\ e[1] \in Octet /\ e[2] \in Octet /\ Len(e) = 2
          /\ e = <<e[1], e[2]>> /\ Conv!Length(e[1]) = 2 /\ Conv!Character(e) = cp
      <4>1. cp \in Nat /\ cp >= 128 /\ cp <= 2047
        BY <2>1, <2>3 DEF TwoOrThree
      <4> QED
        BY <3>1, <4>1, TwoBytes
    <3>3. <<e[1], e[2]>> \in Seq(Octet)
      BY <3>2, OctetSequences
    <3>4. e \in Seq(Octet)
      BY <3>2, <3>3
    <3> QED
      BY <3>2, <3>4 DEF e, cp
  <2>4. CASE cp > 2047
    <3>1. e = <<224 + cp \div 4096, 128 + ((cp \div 64) % 64), 128 + (cp % 64)>>
      BY <2>1, <2>2, <2>4 DEF Conv!Utf8, Conv!Trail, TwoOrThree
    <3>2. cp \in Nat /\ cp >= 2048 /\ cp <= 65535
      BY <2>1, <2>4 DEF TwoOrThree
    <3>3. /\ e[1] \in Octet /\ e[2] \in Octet /\ e[3] \in Octet /\ Len(e) = 3
          /\ e = <<e[1], e[2], e[3]>> /\ Conv!Length(e[1]) = 3 /\ Conv!Character(e) = cp
      BY <3>1, <3>2, ThreeBytes
    <3>4. <<e[1], e[2], e[3]>> \in Seq(Octet)
      BY <3>3, OctetSequences
    <3>5. e \in Seq(Octet)
      BY <3>3, <3>4
    <3> QED
      BY <3>3, <3>5 DEF e, cp
  <2> QED
    BY <2>1, <2>3, <2>4 DEF TwoOrThree
<1> QED
  BY <1>0, <1>1, <1>2

(* How a text is read back, from each place of it.                         *)
ReadFrom(s, g, k) ==
  IF k > Len(s) THEN <<>>
  ELSE IF k + Conv!Length(s[k]) - 1 > Len(s) THEN <<0>>
  ELSE <<Conv!Character(SubSeq(s, k, k + Conv!Length(s[k]) - 1))>> \o g[k + Conv!Length(s[k])]

LEMMA LengthFacts ==
  ASSUME NEW x
  PROVE  Conv!Length(x) \in 1..4
  BY DEF Conv!Length

LEMMA CharactersIs ==
  ASSUME NEW s, Len(s) \in Nat
  PROVE  \E f : Conv!Characters(s) = f[1] /\ \A k \in 1..(Len(s) + 1) : f[k] = ReadFrom(s, f, k)
<1> DEFINE n == Len(s)
           Eq(f) == f = [k \in 1..(n + 1) |-> ReadFrom(s, f, k)]
           P(m) == \E g : \A k \in 1..(n + 1) : k + m >= n + 1 => g[k] = ReadFrom(s, g, k)
           U == {m \in 0..n : P(m)}
<1>1. 0 \in U
  <2> DEFINE g == [k \in 1..(n + 1) |-> <<>>]
  <2>1. ASSUME NEW k \in 1..(n + 1), k + 0 >= n + 1
        PROVE  g[k] = ReadFrom(s, g, k)
    <3>1. k > Len(s)
      BY <2>1
    <3> QED
      BY <3>1 DEF ReadFrom
  <2> HIDE DEF g
  <2>2. P(0)
    BY <2>1
  <2> QED
    BY <2>2
<1>2. ASSUME NEW m \in 1..n, m - 1 \in U PROVE m \in U
  <2> DEFINE p == n + 1 - m
  <2>1. PICK g : \A k \in 1..(n + 1) : k + (m - 1) >= n + 1 => g[k] = ReadFrom(s, g, k)
    BY <1>2
  <2> DEFINE h == [k \in 1..(n + 1) |-> IF k = p THEN ReadFrom(s, g, p) ELSE g[k]]
  <2>2. ASSUME NEW k \in 1..(n + 1), k >= p
        PROVE  ReadFrom(s, h, k) = ReadFrom(s, g, k)
    <3> DEFINE l == Conv!Length(s[k])
    <3>1. l \in 1..4
      BY LengthFacts
    <3> HIDE DEF l, h
    <3>2. k + l - 1 <= n => k + l \in 1..(n + 1) /\ k + l # p
      BY <2>2, <3>1
    <3>3. k + l - 1 <= n => h[k + l] = g[k + l]
      BY <3>2 DEF h
    <3> QED
      BY <3>1, <3>3 DEF ReadFrom, l
  <2>3. ASSUME NEW k \in 1..(n + 1), k + m >= n + 1
        PROVE  h[k] = ReadFrom(s, h, k)
    <3>1. k >= p /\ ReadFrom(s, h, k) = ReadFrom(s, g, k)
      BY <2>2, <2>3
    <3>2. CASE k = p
      BY <3>1, <3>2
    <3>3. CASE k # p
      <4>0. k >= n + 1 - m /\ k # n + 1 - m /\ k \in Int /\ n \in Int /\ m \in Int
        BY <3>1, <3>3
      <4>1. k + (m - 1) >= n + 1
        BY <4>0
      <4> QED
        BY <2>1, <3>1, <3>3, <4>1
    <3> QED
      BY <3>2, <3>3
  <2> HIDE DEF h
  <2>4. P(m)
    BY <2>3
  <2> QED
    BY <2>4
<1> HIDE DEF U
<1>3. 0..n \subseteq U
  BY <1>1, <1>2, UpTo
<1>4. P(n)
  BY <1>3 DEF U
<1>5. PICK g : \A k \in 1..(n + 1) : k + n >= n + 1 => g[k] = ReadFrom(s, g, k)
  BY <1>4
<1>6. \E f : Eq(f)
  <2> DEFINE f == [k \in 1..(n + 1) |-> g[k]]
  <2>1. ASSUME NEW k \in 1..(n + 1) PROVE g[k] = ReadFrom(s, f, k)
    <3> DEFINE l == Conv!Length(s[k])
    <3>1. l \in 1..4
      BY LengthFacts
    <3> HIDE DEF l, f
    <3>2. k + l - 1 <= n => k + l \in 1..(n + 1)
      BY <3>1
    <3>3. k + l - 1 <= n => f[k + l] = g[k + l]
      BY <3>2 DEF f
    <3>4. g[k] = ReadFrom(s, g, k)
      BY <1>5
    <3> QED
      BY <3>1, <3>3, <3>4 DEF ReadFrom, l
  <2>2. Eq(f)
    BY <2>1
  <2> HIDE DEF f
  <2> QED
    BY <2>2
<1> DEFINE from == CHOOSE f : Eq(f)
<1>7. Eq(from)
  <2> HIDE DEF Eq
  <2> QED
    BY <1>6, Zenon
<1>8. Conv!Characters(s) = from[1]
  BY DEF Conv!Characters, ReadFrom
<1> HIDE DEF from
<1>9. \A k \in 1..(n + 1) : from[k] = ReadFrom(s, from, k)
  BY <1>7
<1> QED
  BY <1>8, <1>9

(* The places at which the characters of a text begin.                     *)
Laid(b, s, u, pg) ==
  /\ b \in [1..(Len(s) + 1) -> 1..(Len(u) + 1)] /\ b[1] = 1 /\ b[Len(s) + 1] = Len(u) + 1
  /\ \A k \in 1..Len(s) : /\ b[k + 1] = b[k] + Len(Conv!Encoded(pg, s[k]))
                          /\ \A j \in 1..Len(Conv!Encoded(pg, s[k])) :
                               u[b[k] + j - 1] = Conv!Encoded(pg, s[k])[j]

LEMMA LaidAppend ==
  ASSUME NEW pg \in Conv!Pages, NEW x \in Octet, NEW s \in Seq(Octet), NEW u \in Seq(Octet),
         NEW b, Laid(b, s, u, pg)
  PROVE  \E c : Laid(c, Append(s, x), u \o Conv!Encoded(pg, x), pg)
<1> DEFINE e == Conv!Encoded(pg, x)
           n == Len(s)
           z == Len(u)
           s2 == Append(s, x)
           u2 == u \o e
           c == [k \in 1..(n + 2) |-> IF k = n + 2 THEN z + Len(e) + 1 ELSE b[k]]
<1>1. e \in Seq(Octet) /\ Len(e) \in Nat
  BY EncodedFacts
<1> HIDE DEF e
<1>2. /\ n \in Nat /\ z \in Nat /\ Len(s2) = n + 1 /\ s2[n + 1] = x /\ \A k \in 1..n : s2[k] = s[k]
      /\ Len(u2) = z + Len(e) /\ \A j \in 1..z : u2[j] = u[j]
      /\ \A j \in 1..Len(e) : u2[z + j] = e[j]
  BY <1>1
<1>3. /\ b \in [1..(n + 1) -> 1..(z + 1)] /\ b[1] = 1 /\ b[n + 1] = z + 1
      /\ \A k \in 1..n : /\ b[k + 1] = b[k] + Len(Conv!Encoded(pg, s[k]))
                         /\ \A j \in 1..Len(Conv!Encoded(pg, s[k])) :
                              u[b[k] + j - 1] = Conv!Encoded(pg, s[k])[j]
  BY DEF Laid
<1> HIDE DEF s2, u2, n, z
<1>4. c \in [1..(n + 2) -> 1..(z + Len(e) + 1)]
  <2>1. ASSUME NEW k \in 1..(n + 2)
        PROVE  (IF k = n + 2 THEN z + Len(e) + 1 ELSE b[k]) \in 1..(z + Len(e) + 1)
    <3>1. CASE k = n + 2
      BY <1>1, <1>2, <3>1
    <3>2. CASE k # n + 2
      <4>1. k \in 1..(n + 1)
        BY <1>2, <3>2
      <4>2. b[k] \in 1..(z + 1)
        BY <1>3, <4>1
      <4> QED
        BY <1>1, <1>2, <3>2, <4>2
    <3> QED
      BY <3>1, <3>2
  <2> QED
    BY <2>1
<1>5. c[1] = 1 /\ c[n + 2] = z + Len(e) + 1
  BY <1>2, <1>3
<1>6. ASSUME NEW k \in 1..(n + 1)
      PROVE  /\ c[k + 1] = c[k] + Len(Conv!Encoded(pg, s2[k]))
             /\ \A j \in 1..Len(Conv!Encoded(pg, s2[k])) : u2[c[k] + j - 1] = Conv!Encoded(pg, s2[k])[j]
  <2>1. CASE k = n + 1
    <3>1. c[k] = z + 1 /\ c[k + 1] = z + Len(e) + 1
      BY <1>2, <1>3, <2>1
    <3> HIDE DEF c
    <3>2. Conv!Encoded(pg, s2[k]) = e
      BY <1>2, <2>1 DEF e
    <3>3. ASSUME NEW j \in 1..Len(e) PROVE u2[c[k] + j - 1] = e[j]
      <4>1. c[k] + j - 1 = z + j
        BY <1>1, <1>2, <3>1
      <4> QED
        BY <1>2, <4>1
    <3>4. c[k + 1] = c[k] + Len(e)
      BY <1>1, <1>2, <3>1
    <3> QED
      BY <3>2, <3>3, <3>4
  <2>2. CASE k # n + 1
    <3>1. k \in 1..n
      BY <1>2, <2>2
    <3>2. c[k] = b[k] /\ c[k + 1] = b[k + 1] /\ s2[k] = s[k]
      BY <1>2, <3>1
    <3> DEFINE d == Conv!Encoded(pg, s[k])
    <3>3. d \in Seq(Octet) /\ Len(d) \in Nat
      <4>1. s[k] \in Octet
        BY <3>1 DEF n
      <4> QED
        BY <4>1, EncodedFacts
    <3>4. b[k + 1] = b[k] + Len(d) /\ \A j \in 1..Len(d) : u[b[k] + j - 1] = d[j]
      BY <1>3, <3>1
    <3> HIDE DEF d, c
    <3>5. b[k] \in 1..(z + 1) /\ b[k + 1] \in 1..(z + 1)
      <4>1. k \in 1..(n + 1) /\ k + 1 \in 1..(n + 1)
        BY <1>2, <3>1
      <4>2. b \in [1..(n + 1) -> 1..(z + 1)]
        BY <1>3
      <4> QED
        BY <4>1, <4>2
    <3>6. ASSUME NEW j \in 1..Len(d) PROVE u2[b[k] + j - 1] = d[j]
      <4> DEFINE p == b[k] + j - 1
      <4>1. b[k] \in Nat /\ b[k] >= 1 /\ b[k + 1] \in Nat /\ b[k + 1] <= z + 1 /\ z \in Nat
        BY <1>2, <3>5
      <4>2. p \in 1..z
        BY <3>3, <3>4, <4>1
      <4>3. u[p] = d[j]
        BY <3>4
      <4> HIDE DEF p
      <4>4. u2[p] = d[j]
        BY <1>2, <4>2, <4>3
      <4> QED
        BY <4>4 DEF p
    <3> QED
      BY <3>2, <3>4, <3>6 DEF d
  <2> QED
    BY <2>1, <2>2
<1>7. Laid(c, s2, u2, pg)
  <2>1. Len(s2) + 1 = n + 2 /\ Len(u2) + 1 = z + Len(e) + 1
    BY <1>1, <1>2
  <2> HIDE DEF c
  <2> QED
    BY <1>2, <1>4, <1>5, <1>6, <2>1 DEF Laid
<1> QED
  BY <1>7 DEF s2, u2, e

(* What is laid out so is read back so.                                    *)
LEMMA LaidRead ==
  ASSUME NEW pg \in Conv!Pages, NEW s \in Seq(Octet), NEW u \in Seq(Octet),
         NEW b, Laid(b, s, u, pg)
  PROVE  Conv!Characters(u) = [k \in 1..Len(s) |-> Point(pg, s[k])]
<1> DEFINE n == Len(s)
           z == Len(u)
           Rest(k) == [j \in 1..(n + 1 - k) |-> Point(pg, s[k + j - 1])]
<1>1. n \in Nat /\ z \in Nat
  OBVIOUS
<1>2. PICK f : Conv!Characters(u) = f[1] /\ \A k \in 1..(z + 1) : f[k] = ReadFrom(u, f, k)
  BY <1>1, CharactersIs
<1>3. /\ b \in [1..(n + 1) -> 1..(z + 1)] /\ b[1] = 1 /\ b[n + 1] = z + 1
      /\ \A k \in 1..n : /\ b[k + 1] = b[k] + Len(Conv!Encoded(pg, s[k]))
                         /\ \A j \in 1..Len(Conv!Encoded(pg, s[k])) :
                              u[b[k] + j - 1] = Conv!Encoded(pg, s[k])[j]
  BY DEF Laid
<1> DEFINE U == {m \in 0..n : f[b[n + 1 - m]] = Rest(n + 1 - m)}
<1>4. 0 \in U
  <2>1. f[z + 1] = <<>>
    <3>1. z + 1 \in 1..(z + 1) /\ z + 1 > z
      BY <1>1
    <3> QED
      BY <1>2, <3>1 DEF ReadFrom
  <2>2. Rest(n + 1) = <<>>
    <3>1. 1..(n + 1 - (n + 1)) = {}
      BY <1>1
    <3> QED
      BY <3>1
  <2> HIDE DEF Rest
  <2>3. n + 1 - 0 = n + 1 /\ 0 \in 0..n
    BY <1>1
  <2> QED
    BY <1>3, <2>1, <2>2, <2>3
<1>5. ASSUME NEW m \in 1..n, m - 1 \in U PROVE m \in U
  <2> DEFINE k == n + 1 - m
             e == Conv!Encoded(pg, s[k])
  <2>1. k \in 1..n /\ n + 1 - (m - 1) = k + 1 /\ n \in Nat
    BY <1>1
  <2>2. f[b[k + 1]] = Rest(k + 1)
    BY <1>5, <2>1
  <2> HIDE DEF k
  <2>3. s[k] \in Octet
    BY <2>1
  <2>4. /\ e \in Seq(Octet) /\ Len(e) \in 1..3
        /\ Conv!Length(e[1]) = Len(e) /\ Conv!Character(e) = Point(pg, s[k])
    BY <2>3, EncodedFacts
  <2>5. b[k + 1] = b[k] + Len(e) /\ \A j \in 1..Len(e) : u[b[k] + j - 1] = e[j]
    BY <1>3, <2>1
  <2>6. b[k] \in 1..(z + 1) /\ b[k + 1] \in 1..(z + 1)
    BY <1>1, <1>3, <2>1
  <2> DEFINE p == b[k]
             l == Len(e)
  <2> HIDE DEF e, Rest
  <2>7. p \in 1..z /\ l \in 1..3 /\ p + l - 1 <= z /\ p + l \in 1..(z + 1) /\ u[p] = e[1]
    <3>1. 1 \in 1..l /\ p + 1 - 1 = p
      BY <2>4, <2>6
    <3> QED
      BY <1>1, <2>4, <2>5, <2>6, <3>1
  <2>8. SubSeq(u, p, p + l - 1) = e
    <3> DEFINE v == SubSeq(u, p, p + l - 1)
    <3> HIDE DEF p, l
    <3>1. v \in Seq(Octet) /\ Len(v) = l /\ \A j \in 1..l : v[j] = u[p + j - 1]
      BY <1>1, <2>7
    <3>2. \A j \in 1..l : v[j] = e[j]
      BY <2>5, <3>1 DEF p, l
    <3> HIDE DEF v
    <3>3. v = e
      BY <2>4, <3>1, <3>2 DEF l
    <3> QED
      BY <3>3 DEF v
  <2>9. f[p] = <<Point(pg, s[k])>> \o f[p + l]
    <3>1. Conv!Length(u[p]) = l
      BY <2>4, <2>7
    <3>2. p \in 1..(z + 1) /\ ~(p > z) /\ ~(p + l - 1 > z)
      BY <1>1, <2>7
    <3>3. f[p] = ReadFrom(u, f, p)
      BY <1>2, <3>2
    <3> HIDE DEF p, l
    <3>4. ReadFrom(u, f, p) = <<Conv!Character(SubSeq(u, p, p + l - 1))>> \o f[p + l]
      BY <3>1, <3>2 DEF ReadFrom
    <3> QED
      BY <2>4, <2>8, <3>3, <3>4
  <2>10. f[p] = <<Point(pg, s[k])>> \o Rest(k + 1)
    BY <2>2, <2>5, <2>9
  <2>11. <<Point(pg, s[k])>> \o Rest(k + 1) = Rest(k)
    <3>1. n + 1 - (k + 1) = n - k /\ n - k \in Nat
      BY <1>1, <2>1
    <3>2. Rest(k + 1) = [j \in 1..(n - k) |-> Point(pg, s[k + 1 + j - 1])]
      BY <3>1 DEF Rest
    <3>3. Rest(k) = [j \in 1..(n - k + 1) |-> Point(pg, s[k + j - 1])]
      BY <1>1, <2>1 DEF Rest
    <3> DEFINE v == <<Point(pg, s[k])>> \o Rest(k + 1)
               w == n - k
    <3>4. Rest(k + 1) \in Seq({Point(pg, x) : x \in Octet}) /\ Len(Rest(k + 1)) = w
      <4>1. ASSUME NEW j \in 1..w PROVE s[k + 1 + j - 1] \in Octet
        <5>1. k + 1 + j - 1 \in 1..n
          BY <2>1, <3>1
        <5> QED
          BY <5>1
      <4> QED
        BY <3>1, <3>2, <4>1
    <3>5. Point(pg, s[k]) \in {Point(pg, x) : x \in Octet}
      BY <2>3
    <3> HIDE DEF w
    <3>6. /\ v \in Seq({Point(pg, x) : x \in Octet}) /\ Len(v) = w + 1 /\ v[1] = Point(pg, s[k])
          /\ \A j \in 1..w : v[j + 1] = Rest(k + 1)[j]
      BY <3>1, <3>4, <3>5 DEF w
    <3>7. ASSUME NEW j \in 1..(w + 1) PROVE v[j] = Point(pg, s[k + j - 1])
      <4>1. CASE j = 1
        <5>1. k + 1 - 1 = k
          BY <2>1
        <5> QED
          BY <3>6, <4>1, <5>1
      <4>2. CASE j # 1
        <5>1. j - 1 \in 1..w /\ j - 1 + 1 = j /\ k + 1 + (j - 1) - 1 = k + j - 1
          BY <2>1, <3>1, <4>2 DEF w
        <5>2. v[j] = Rest(k + 1)[j - 1]
          BY <3>6, <5>1
        <5> QED
          BY <3>2, <5>1, <5>2 DEF w
      <4> QED
        BY <4>1, <4>2
    <3> HIDE DEF v
    <3>8. v = [j \in 1..(w + 1) |-> Point(pg, s[k + j - 1])]
      BY <3>6, <3>7
    <3> QED
      BY <3>3, <3>8 DEF v, w
  <2>12. m \in 0..n /\ f[b[n + 1 - m]] = Rest(n + 1 - m)
    BY <1>1, <2>10, <2>11 DEF k
  <2> QED
    BY <2>12
<1> HIDE DEF U
<1>6. n \in U
  <2>0. n \in Nat
    BY <1>1
  <2> HIDE DEF n
  <2>1. \A m \in 1..n : m - 1 \in U => m \in U
    BY <1>5
  <2>2. 0..n \subseteq U
    BY <1>4, <2>0, <2>1, UpTo
  <2>3. n \in 0..n
    BY <2>0
  <2> QED
    BY <2>2, <2>3
<1>7. f[b[1]] = Rest(1)
  <2>1. f[b[n + 1 - n]] = Rest(n + 1 - n) /\ n + 1 - n = 1
    BY <1>1, <1>6 DEF U
  <2> HIDE DEF Rest, n
  <2> QED
    BY <2>1
<1>8. Rest(1) = [k \in 1..n |-> Point(pg, s[k])]
  <2>1. n + 1 - 1 = n /\ \A j \in 1..n : 1 + j - 1 = j
    BY <1>1
  <2> QED
    BY <2>1
<1> QED
  BY <1>2, <1>3, <1>7, <1>8

(* What has been read is laid out in what has been written.                *)
ConvInv ==
  /\ page \in Conv!Pages \cup {"none"} /\ text \in Seq(Octet) /\ utf8 \in Seq(Octet)
  /\ page = "none" => text = <<>> /\ utf8 = <<>>
  /\ page # "none" => \E b : Laid(b, text, utf8, page)

LEMMA LaidEmpty == ASSUME NEW pg PROVE \E b : Laid(b, <<>>, <<>>, pg)
<1> DEFINE b == [k \in 1..1 |-> 1]
<1>1. Laid(b, <<>>, <<>>, pg)
  BY DEF Laid
<1> QED
  BY <1>1

LEMMA ConvInvInductive == ConvInv /\ [Conv!Next]_(Conv!vars) => ConvInv'
<1> SUFFICES ASSUME ConvInv, [Conv!Next]_(Conv!vars) PROVE ConvInv'
  OBVIOUS
<1> USE DEF ConvInv
<1>1. ASSUME NEW name \in Names, Conv!Open(name) PROVE ConvInv'
  <2>1. page = "none" /\ text = <<>> /\ utf8 = <<>> /\ text' = <<>> /\ utf8' = <<>>
    BY <1>1 DEF Conv!Open
  <2>2. page' \in Conv!Pages \cup {"none"}
    BY <1>1 DEF Conv!Open
  <2>3. \E b : Laid(b, text', utf8', page')
    BY <2>1, LaidEmpty
  <2>4. text' \in Seq(Octet) /\ utf8' \in Seq(Octet)
    BY <2>1
  <2> QED
    BY <2>1, <2>2, <2>3, <2>4
<1>2. ASSUME NEW x \in Octets, Conv!Convert(x) PROVE ConvInv'
  <2>1. /\ page # "none" /\ page' = page
        /\ text' = Append(text, x) /\ utf8' = utf8 \o Conv!Encoded(page, x)
    BY <1>2 DEF Conv!Convert
  <2>2. x \in Octet
    BY FormatsAssumption DEF Conv!ConverterAssumption, Octet
  <2>3. page \in Conv!Pages
    BY <2>1
  <2>4. Conv!Encoded(page, x) \in Seq(Octet)
    BY <2>2, <2>3, EncodedFacts
  <2>5. \E b : Laid(b, text', utf8', page')
    <3>1. PICK b : Laid(b, text, utf8, page)
      BY <2>1
    <3>2. \E c : Laid(c, Append(text, x), utf8 \o Conv!Encoded(page, x), page)
      BY <2>2, <2>3, <3>1, LaidAppend
    <3> QED
      BY <2>1, <3>2
  <2>6. text' \in Seq(Octet) /\ utf8' \in Seq(Octet)
    BY <2>1, <2>2, <2>4
  <2> QED
    BY <2>1, <2>3, <2>5, <2>6
<1>3. ASSUME UNCHANGED <<page, text, utf8>> PROVE ConvInv'
  BY <1>3
<1>4. CASE Conv!Finish
  BY <1>3, <1>4 DEF Conv!Finish
<1>5. CASE UNCHANGED Conv!vars
  BY <1>3, <1>5 DEF Conv!vars
<1> QED
  BY <1>1, <1>2, <1>4, <1>5 DEF Conv!Next

(* As many characters as bytes, the Russian letters among them.            *)
LEMMA NoneLost ==
  ASSUME NEW pg \in Conv!Pages
  PROVE  /\ Cardinality({Point(pg, b) : b \in 0..255}) = 256
         /\ Conv!RussianLetters \subseteq {Point(pg, b) : b \in 128..255}
<1> DEFINE S == 0..255
           T == {Point(pg, b) : b \in S}
           F == [b \in S |-> Point(pg, b)]
<1>1. Cardinality(T) = 256
  <2>1. \A x, y \in S : Point(pg, x) = Point(pg, y) => x = y
    BY PointFacts
  <2>2. IsFiniteSet(S) /\ Cardinality(S) = 256
    <3> DEFINE lo == 0
               hi == 255
    <3>1. lo \in Int /\ hi \in Int /\ hi - lo + 1 = 256 /\ ~(lo > hi)
      OBVIOUS
    <3> HIDE DEF lo, hi
    <3>2. IsFiniteSet(lo..hi) /\ Cardinality(lo..hi) = 256
      BY <3>1, FS_Interval
    <3> QED
      BY <3>2, Zenon DEF lo, hi
  <2> HIDE DEF S
  <2>3. F \in Bijection(S, T)
    <3>1. F \in [S -> T] /\ (\A x, y \in S : F[x] = F[y] => x = y) /\ (\A t \in T : \E x \in S : F[x] = t)
      BY <2>1
    <3> HIDE DEF F, T
    <3>2. F \in Injection(S, T) /\ F \in Surjection(S, T)
      BY <3>1, Zenon DEF Injection, Surjection, IsInjective
    <3> QED
      BY <3>2, Zenon DEF Bijection
  <2>4. ExistsBijection(S, T)
    BY <2>3 DEF ExistsBijection
  <2> HIDE DEF T
  <2> QED
    BY <2>2, <2>4, FS_Bijection
<1>2. ASSUME NEW c \in Conv!RussianLetters PROVE \E b \in 128..255 : c = Point(pg, b)
  <2> DEFINE t == Conv!Table(pg)
  <2>1. PICK k \in 1..128 : t[k] = c
    BY TableFacts DEF HasLetters
  <2> HIDE DEF t
  <2>2. k + 127 \in 128..255 /\ k + 127 - 127 = k /\ ~(k + 127 < 128)
    OBVIOUS
  <2>3. Point(pg, k + 127) = c
    BY <2>1, <2>2 DEF Point, t
  <2> QED
    BY <2>2, <2>3
<1> QED
  BY <1>1, <1>2

(* The converter writes UTF-8 from which its text can be read.             *)
THEOREM TextIsReadable == Conv!Spec => []Readable
<1>1. Conv!Init => ConvInv
  BY DEF Conv!Init, ConvInv
<1>2. ConvInv /\ [Conv!Next]_(Conv!vars) => ConvInv'
  BY ConvInvInductive
<1>3. ConvInv => Readable
  <2> SUFFICES ASSUME ConvInv, page # "none" PROVE Readable
    BY DEF Readable, Conv!Readable
  <2>1. page \in Conv!Pages /\ text \in Seq(Octet) /\ utf8 \in Seq(Octet)
    BY DEF ConvInv
  <2>2. Conv!Characters(utf8) = [k \in 1..Len(text) |-> Point(page, text[k])]
    BY <2>1, LaidRead DEF ConvInv
  <2>3. /\ Cardinality({Point(page, b) : b \in 0..255}) = 256
        /\ Conv!RussianLetters \subseteq {Point(page, b) : b \in 128..255}
    BY <2>1, NoneLost
  <2>4. \A S : Conv!Cardinality(S) = Cardinality(S)
    BY Zenon DEF Conv!Cardinality, Cardinality
  <2> QED
    BY <2>2, <2>3, <2>4, Zenon DEF Readable, Conv!Readable, Point
<1> QED
  BY <1>1, <1>2, <1>3, PTL DEF Conv!Spec
=============================================================================
