-------------------------- MODULE RingBufferProofs --------------------------
(***************************************************************************)
(* Proofs about RingBuffer.tla for any threads, any bytes, any size of the *)
(* buffer and any length of a call.                                        *)
(***************************************************************************)
EXTENDS RingBuffer, SequenceTheorems, TLAPS

-----------------------------------------------------------------------------
(* Index arithmetic.                                                       *)

(* An index that has passed the end of the buffer at most once comes back  *)
(* by subtracting the size.                                                *)
(* The slot an index k >= 0 of a buffer of n bytes wraps to.               *)
Slot(k, n) == k % n

LEMMA WrapOnce ==
  ASSUME NEW n \in Nat \ {0}, NEW k \in 0..(n - 1)
  PROVE  Slot(k, n) = k /\ Slot(k + n, n) = k
  BY SMT DEF Slot

(* The m bytes of buffer buf, of size n, from index k on.                  *)
Window(buf, n, k, m) == [i \in 1..m |-> buf[Slot(k + i - 1, n)]]

LEMMA WindowIsSeq ==
  ASSUME NEW S, NEW n \in Nat \ {0}, NEW buf, NEW k \in 0..(n - 1), NEW m \in 0..n,
         \A i \in 1..m : buf[Slot(k + i - 1, n)] \in S
  PROVE  /\ Window(buf, n, k, m) \in Seq(S)
         /\ Len(Window(buf, n, k, m)) = m
         /\ \A i \in 1..m : Window(buf, n, k, m)[i] = buf[Slot(k + i - 1, n)]
  BY DEF Window

(* Taking the byte at the tail: l is the next tail.  The first byte of the *)
(* window is the one taken, the others follow, the head stays where it is. *)
LEMMA PopFirst ==
  ASSUME NEW n \in Nat \ {0}, NEW buf, NEW k \in 0..(n - 1), NEW m \in 1..n
  PROVE  Window(buf, n, k, m)[1] = buf[k]
<1>1. Slot(k, n) = k /\ k + 1 - 1 = k
  BY WrapOnce
<1> QED
  BY <1>1 DEF Window

LEMMA NextIndex ==
  ASSUME NEW n \in Nat \ {0}, NEW k \in 0..(n - 1), NEW i \in 0..(n - 1)
  PROVE  /\ Slot(k + 1, n) \in 0..(n - 1)
         /\ Slot(Slot(k + 1, n) + i, n) = Slot(k + i + 1, n)
<1>1. CASE k + 1 < n
  <2>1. Slot(k + 1, n) = k + 1 /\ k + 1 + i = k + i + 1
    BY <1>1, WrapOnce
  <2> QED
    BY <1>1, <2>1
<1>2. CASE k + 1 = n
  <2>1. Slot(k + 1, n) = 0
    BY <1>2 DEF Slot
  <2>2. k + i + 1 = i + n
    BY <1>2
  <2>3. Slot(k + i + 1, n) = i /\ Slot(i, n) = i
    BY <2>2, WrapOnce
  <2> QED
    BY <2>1, <2>3
<1> QED
  BY <1>1, <1>2

LEMMA PopRest ==
  ASSUME NEW n \in Nat \ {0}, NEW buf, NEW k \in 0..(n - 1), NEW m \in 1..n,
         NEW l, l = Slot(k + 1, n), NEW i \in 1..(m - 1)
  PROVE  Window(buf, n, l, m - 1)[i] = Window(buf, n, k, m)[i + 1]
<1>1. i - 1 \in 0..(n - 1) /\ k + (i - 1) + 1 = k + (i + 1) - 1
  OBVIOUS
<1>2. l \in 0..(n - 1) /\ Slot(l + (i - 1), n) = Slot(k + (i - 1) + 1, n)
  BY <1>1, NextIndex
<1>3. l + (i - 1) = l + i - 1
  BY <1>2
<1> QED
  BY <1>1, <1>2, <1>3 DEF Window

LEMMA PopIndices ==
  ASSUME NEW n \in Nat \ {0}, NEW k \in 0..(n - 1), NEW m \in 1..n,
         NEW l, l = Slot(k + 1, n)
  PROVE  l \in 0..(n - 1) /\ Slot(l + (m - 1), n) = Slot(k + m, n)
<1>1. m - 1 \in 0..(n - 1) /\ k + (m - 1) + 1 = k + m
  OBVIOUS
<1>2. l \in 0..(n - 1) /\ Slot(l + (m - 1), n) = Slot(k + (m - 1) + 1, n)
  BY <1>1, NextIndex
<1> QED
  BY <1>1, <1>2

(* Memory new is memory buf, of n slots, with b stored in slot h.          *)
Stored(new, buf, n, h, b) ==
  \A j \in 0..(n - 1) : new[j] = IF j = h THEN b ELSE buf[j]

(* Storing byte b at the head, slot h, of a buffer with room: the window   *)
(* keeps its bytes and b follows them.                                     *)
LEMMA PushIndices ==
  ASSUME NEW n \in Nat \ {0}, NEW k \in 0..(n - 1), NEW m \in 0..(n - 1),
         NEW h, h = Slot(k + m, n)
  PROVE  h \in 0..(n - 1) /\ Slot(h + 1, n) = Slot(k + (m + 1), n)
<1>1. CASE k + m < n
  <2>1. h = k + m /\ h + 1 = k + (m + 1)
    BY <1>1, WrapOnce
  <2> QED
    BY <1>1, <2>1
<1>2. CASE k + m >= n
  <2>1. k + m - n \in 0..(n - 1) /\ k + m = (k + m - n) + n
    BY <1>2
  <2>2. h = k + m - n
    BY <2>1, WrapOnce
  <2>3. k + m - n + 1 \in 0..(n - 1) /\ k + (m + 1) = (k + m - n + 1) + n
    BY <1>2
  <2>4. Slot(k + (m + 1), n) = k + m - n + 1 /\ Slot(k + m - n + 1, n) = k + m - n + 1
    BY <2>3, WrapOnce
  <2> QED
    BY <2>1, <2>2, <2>4
<1> QED
  BY <1>1, <1>2

LEMMA PushOld ==
  ASSUME NEW n \in Nat \ {0}, NEW k \in 0..(n - 1), NEW m \in 0..(n - 1),
         NEW h, h = Slot(k + m, n),
         NEW buf, NEW b, NEW new, Stored(new, buf, n, h, b),
         NEW i \in 1..m
  PROVE  Window(new, n, k, m + 1)[i] = Window(buf, n, k, m)[i]
<1>1. \A j \in 0..(n - 1) : Slot(k + j, n) = IF k + j < n THEN k + j ELSE k + j - n
  BY DEF Slot
<1>2. i - 1 \in 0..(n - 1) /\ k + (i - 1) = k + i - 1
  OBVIOUS
<1>3. Slot(k + i - 1, n) = IF k + i - 1 < n THEN k + i - 1 ELSE k + i - 1 - n
  BY <1>1, <1>2
<1>4. h = IF k + m < n THEN k + m ELSE k + m - n
  BY <1>1
<1>5. Slot(k + i - 1, n) \in 0..(n - 1) /\ Slot(k + i - 1, n) # h
  BY <1>3, <1>4
<1>6. new[Slot(k + i - 1, n)] = buf[Slot(k + i - 1, n)]
  BY <1>5 DEF Stored
<1> QED
  BY <1>6 DEF Window

LEMMA PushNew ==
  ASSUME NEW n \in Nat \ {0}, NEW k \in 0..(n - 1), NEW m \in 0..(n - 1),
         NEW h, h = Slot(k + m, n),
         NEW buf, NEW b, NEW new, Stored(new, buf, n, h, b)
  PROVE  Window(new, n, k, m + 1)[m + 1] = b
<1>1. k + (m + 1) - 1 = k + m /\ h \in 0..(n - 1)
  BY PushIndices
<1>2. new[h] = b
  BY <1>1 DEF Stored
<1> QED
  BY <1>1, <1>2 DEF Window

(* Storing byte b at the head of a full buffer, which is where the tail k  *)
(* is: the oldest byte goes, b is the newest.                              *)
LEMMA EvictedSlot ==
  ASSUME NEW n \in Nat \ {0}, NEW k \in 0..(n - 1), NEW l, l = Slot(k + 1, n),
         NEW i \in 1..n
  PROVE  /\ Slot(l + i - 1, n) = Slot(k + i, n)
         /\ Slot(k + i, n) \in 0..(n - 1)
         /\ Slot(k + i, n) = k <=> i = n
<1>1. i - 1 \in 0..(n - 1) /\ k + (i - 1) + 1 = k + i
  OBVIOUS
<1>2. l \in 0..(n - 1) /\ Slot(l + (i - 1), n) = Slot(k + (i - 1) + 1, n)
  BY <1>1, NextIndex
<1>3. l + (i - 1) = l + i - 1
  BY <1>2
<1>4. Slot(k + i, n) = IF k + i < n THEN k + i ELSE k + i - n
  BY DEF Slot
<1> QED
  BY <1>1, <1>2, <1>3, <1>4

LEMMA EvictOld ==
  ASSUME NEW n \in Nat \ {0}, NEW k \in 0..(n - 1), NEW l, l = Slot(k + 1, n),
         NEW buf, NEW b, NEW new, Stored(new, buf, n, k, b),
         NEW i \in 1..(n - 1)
  PROVE  Window(new, n, l, n)[i] = Window(buf, n, k, n)[i + 1]
<1>1. /\ Slot(l + i - 1, n) = Slot(k + i, n)
      /\ Slot(k + i, n) \in 0..(n - 1)
      /\ Slot(k + i, n) # k
  <2>1. i \in 1..n /\ i # n
    OBVIOUS
  <2> QED
    BY <2>1, EvictedSlot
<1>2. k + (i + 1) - 1 = k + i /\ i + 1 \in 1..n /\ i \in 1..n
  OBVIOUS
<1>3. new[Slot(l + i - 1, n)] = buf[Slot(k + (i + 1) - 1, n)]
  BY <1>1, <1>2 DEF Stored
<1> QED
  BY <1>2, <1>3 DEF Window

LEMMA EvictNew ==
  ASSUME NEW n \in Nat \ {0}, NEW k \in 0..(n - 1), NEW l, l = Slot(k + 1, n),
         NEW buf, NEW b, NEW new, Stored(new, buf, n, k, b)
  PROVE  Window(new, n, l, n)[n] = b
<1>1. Slot(l + n - 1, n) = k
  <2>1. n \in 1..n
    OBVIOUS
  <2>2. Slot(l + n - 1, n) = Slot(k + n, n)
    BY <2>1, EvictedSlot
  <2> QED
    BY <2>2, WrapOnce
<1>2. new[k] = b
  BY DEF Stored
<1> QED
  BY <1>1, <1>2 DEF Window

-----------------------------------------------------------------------------
(* The copy loops on sequences: m is what a call has moved, w the bytes in *)
(* the buffer.                                                             *)

(* Moving the first byte of w to the end of m changes nothing together.    *)
LEMMA MoveOne ==
  ASSUME NEW S, NEW m \in Seq(S), NEW w \in Seq(S), NEW v \in Seq(S),
         Len(w) >= 1, Len(v) = Len(w) - 1,
         \A i \in 1..(Len(w) - 1) : v[i] = w[i + 1]
  PROVE  m \o w = Append(m, w[1]) \o v
<1> DEFINE a == Append(m, w[1])
           x == m \o w
           y == a \o v
           k == Len(m)
           l == Len(w)
<1>1. k \in Nat /\ l \in Nat \ {0}
  BY LenProperties
<1>2. /\ a \in Seq(S)
      /\ Len(a) = k + 1
      /\ a[k + 1] = w[1]
      /\ \A i \in 1..k : a[i] = m[i]
  BY AppendProperties, ElementOfSeq
<1>3. /\ x \in Seq(S)
      /\ Len(x) = k + l
      /\ \A i \in 1..(k + l) : x[i] = IF i <= k THEN m[i] ELSE w[i - k]
  BY ConcatProperties
<1>4. /\ y \in Seq(S)
      /\ Len(y) = k + l
      /\ \A i \in 1..(k + l) : y[i] = IF i <= k + 1 THEN a[i] ELSE v[i - (k + 1)]
  <2>1. Len(a) + Len(v) = k + l
    BY <1>1, <1>2
  <2> HIDE DEF a
  <2>2. /\ y \in Seq(S)
        /\ Len(y) = Len(a) + Len(v)
        /\ \A i \in 1..(Len(a) + Len(v)) :
             y[i] = IF i <= Len(a) THEN a[i] ELSE v[i - Len(a)]
    BY <1>2, ConcatProperties
  <2> HIDE DEF y
  <2> QED
    BY <1>2, <2>1, <2>2
<1>5. \A i \in 1..(l - 1) : v[i] = w[i + 1]
  OBVIOUS
<1> HIDE DEF a, x, y, k, l
<1>6. ASSUME NEW i \in 1..(k + l) PROVE x[i] = y[i]
  <2>1. CASE i <= k
    <3>1. i \in 1..k /\ i <= k + 1
      BY <1>1, <2>1
    <3>2. x[i] = m[i]
      BY <1>3, <2>1
    <3>3. y[i] = a[i]
      BY <1>4, <3>1
    <3> QED
      BY <1>2, <3>1, <3>2, <3>3
  <2>2. CASE i = k + 1
    <3>1. i - k = 1
      BY <1>1, <2>2
    <3> QED
      BY <1>1, <1>2, <1>3, <1>4, <2>2, <3>1
  <2>3. CASE i > k + 1
    <3>1. i - (k + 1) \in 1..(l - 1) /\ (i - (k + 1)) + 1 = i - k
      BY <1>1, <2>3
    <3>2. v[i - (k + 1)] = w[i - k]
      BY <1>5, <3>1
    <3> QED
      BY <1>1, <1>3, <1>4, <2>3, <3>2
  <2> QED
    BY <1>1, <2>1, <2>2, <2>3
<1>7. x = y
  BY <1>3, <1>4, <1>6, SeqEqual
<1> QED
  BY <1>7 DEF x, a, y

(* The last n elements of a sequence, element by element.                  *)
LEMMA LastNElements ==
  ASSUME NEW S, NEW s \in Seq(S), NEW n \in Nat
  PROVE  /\ Queue!LastN(s, n) \in Seq(S)
         /\ Len(Queue!LastN(s, n)) = Smaller(n, Len(s))
         /\ \A i \in 1..Smaller(n, Len(s)) :
              Queue!LastN(s, n)[i] = s[i + (Len(s) - Smaller(n, Len(s)))]
<1> DEFINE k == Smaller(n, Len(s))
           d == Len(s) - k
<1>1. Len(s) \in Nat /\ \A i \in 1..Len(s) : s[i] \in S
  BY LenProperties, ElementOfSeq
<1>2. k \in Nat /\ d \in Nat /\ Len(s) - d = k
  BY <1>1 DEF Smaller
<1>3. Queue!LastN(s, n) = [i \in 1..k |-> s[i + d]]
  BY <1>2 DEF Queue!LastN, Queue!Drop, Queue!Smaller, Smaller
<1> HIDE DEF k, d
<1>4. k + d = Len(s)
  BY <1>1, <1>2
<1>5. \A i \in 1..k : s[i + d] \in S
  <2> TAKE i \in 1..k
  <2>1. i + d \in 1..Len(s)
    BY <1>2, <1>4
  <2> QED
    BY <1>1, <2>1
<1>6. /\ [i \in 1..k |-> s[i + d]] \in Seq(S)
      /\ Len([i \in 1..k |-> s[i + d]]) = k
  BY <1>2, <1>5
<1> QED
  BY <1>3, <1>6 DEF k, d

(* A byte behind the last n of s: one more while there is room, else the   *)
(* oldest of the n goes.                                                   *)
OneMore(v, w, b, n) ==
  /\ Len(v) = IF Len(w) < n THEN Len(w) + 1 ELSE n
  /\ \A i \in 1..Len(v) :
       v[i] = IF i = Len(v) THEN b ELSE IF Len(w) < n THEN w[i] ELSE w[i + 1]

LEMMA KeepOneMore ==
  ASSUME NEW S, NEW x \in Seq(S), NEW b \in S, NEW n \in Nat \ {0},
         NEW y, y = Append(x, b),
         NEW w, w = Queue!LastN(x, n),
         NEW v \in Seq(S), OneMore(v, w, b, n)
  PROVE  v = Queue!LastN(y, n)
<1> DEFINE z == Queue!LastN(y, n)
           k == Smaller(n, Len(x))
           j == Smaller(n, Len(y))
<1>1. Len(x) \in Nat
  BY LenProperties
<1>2. y \in Seq(S) /\ Len(y) = Len(x) + 1 /\ y[Len(y)] = b
      /\ \A i \in 1..Len(x) : y[i] = x[i]
  BY AppendProperties
<1>3. w \in Seq(S) /\ Len(w) = k /\ \A i \in 1..k : w[i] = x[i + (Len(x) - k)]
  BY LastNElements
<1>4. z \in Seq(S) /\ Len(z) = j /\ \A i \in 1..j : z[i] = y[i + (Len(y) - j)]
  BY <1>2, LastNElements
<1>5. \A i \in 1..Len(v) :
        v[i] = IF i = Len(v) THEN b ELSE IF Len(w) < n THEN w[i] ELSE w[i + 1]
  BY DEF OneMore
<1>6. /\ Len(x) < n => k = Len(x) /\ j = Len(y)
      /\ Len(x) >= n => k = n /\ j = n
  BY <1>1, <1>2 DEF Smaller
<1> HIDE DEF z, k, j
<1>7. Len(v) = j
  BY <1>1, <1>2, <1>3, <1>6 DEF OneMore
<1>8. CASE Len(x) < n
  <2>1. Len(x) - k = 0 /\ Len(y) - j = 0
    BY <1>1, <1>2, <1>6, <1>8
  <2>2. ASSUME NEW i \in 1..j PROVE v[i] = z[i]
    <3>1. i + 0 = i
      OBVIOUS
    <3>2. z[i] = y[i]
      BY <1>4, <2>1, <3>1
    <3>3. CASE i = j
      BY <1>2, <1>5, <1>6, <1>7, <1>8, <3>2, <3>3
    <3>4. CASE i # j
      <4>1. i \in 1..Len(x) /\ i \in 1..k
        BY <1>1, <1>2, <1>6, <1>8, <3>4
      <4>2. w[i] = x[i]
        BY <1>3, <2>1, <3>1, <4>1
      <4>3. v[i] = w[i]
        BY <1>3, <1>5, <1>6, <1>7, <1>8, <3>4
      <4> QED
        BY <1>2, <3>2, <4>1, <4>2, <4>3
    <3> QED
      BY <3>3, <3>4
  <2> QED
    BY <1>4, <1>7, <2>2, SeqEqual DEF z
<1>9. CASE Len(x) >= n
  <2>1. ASSUME NEW i \in 1..j PROVE v[i] = z[i]
    <3>1. z[i] = y[i + (Len(y) - j)]
      BY <1>4
    <3>2. CASE i = j
      <4>1. i + (Len(y) - j) = Len(y)
        BY <1>1, <1>2, <3>2
      <4> QED
        BY <1>2, <1>5, <1>7, <3>1, <3>2, <4>1
    <3>3. CASE i # j
      <4>1. /\ i + 1 \in 1..k
            /\ (i + 1) + (Len(x) - k) = i + (Len(y) - j)
            /\ i + (Len(y) - j) \in 1..Len(x)
        <5>1. k = n /\ j = n /\ Len(y) = Len(x) + 1
          BY <1>2, <1>6, <1>9
        <5>2. i \in 1..n /\ i # n
          BY <3>3, <5>1
        <5> QED
          BY <1>1, <1>9, <5>1, <5>2
      <4>2. v[i] = w[i + 1]
        BY <1>3, <1>5, <1>6, <1>7, <1>9, <3>3
      <4>3. w[i + 1] = x[i + (Len(y) - j)]
        BY <1>3, <4>1
      <4> QED
        BY <1>2, <3>1, <4>1, <4>2, <4>3
    <3> QED
      BY <3>2, <3>3
  <2> QED
    BY <1>4, <1>7, <2>1, SeqEqual DEF z
<1> QED
  BY <1>1, <1>8, <1>9

-----------------------------------------------------------------------------
(* The inductive invariant.  The properties checked by TLC need, to be     *)
(* kept by every step, that the window between the indices holds written   *)
(* bytes, what each call's argument and progress may be, and that a wipe   *)
(* or a store under the lock still sees what it found.                     *)
ContentsWritten == \A i \in 1..count : buffer[Slot(tail + i - 1, size)] \in Byte

CallState ==
  \A t \in Threads :
    /\ pc[t] = "out" <=> op[t] = "none"
    /\ op[t] \in {"read", "write"} => arg[t] \in 0..MaxCount
    /\ op[t] = "store" => arg[t] \in 1..MaxSize
    /\ pc[t] = "wait" => moved[t] = <<>>
    /\ op[t] \in {"wipe", "store"} => moved[t] = <<>>
    /\ Running(t, "read") => Len(moved[t]) <= to_read
    /\ Running(t, "write") => Len(moved[t]) <= arg[t]
    /\ pc[t] = "run" /\ op[t] \in {"wipe", "store"} => before = Contents

Inv ==
  /\ TypeOK
  /\ IndicesAgree
  /\ ContentsWritten
  /\ LockProtects
  /\ CallState
  /\ ReadSplitsContents
  /\ WriteKeepsNewest

LEMMA ContentsType ==
  ASSUME TypeOK, ContentsWritten
  PROVE  /\ Contents \in Seq(Byte)
         /\ Len(Contents) = count
         /\ Contents = Window(buffer, size, tail, count)
  BY SizeAssumption DEF TypeOK, ContentsWritten, Contents, Window, Slot

(* init_rb leaves a state of the invariant.                                *)
LEMMA InitInv == Init => Inv
<1> SUFFICES ASSUME Init PROVE Inv
  OBVIOUS
<1>1. TypeOK
  BY SizeAssumption DEF Init, TypeOK
<1>2. IndicesAgree
  BY SizeAssumption DEF Init, IndicesAgree
<1>3. ContentsWritten /\ LockProtects
  BY ThreadAssumption DEF Init, ContentsWritten, LockProtects
<1>4. CallState /\ ReadSplitsContents /\ WriteKeepsNewest
  BY DEF Init, CallState, ReadSplitsContents, WriteKeepsNewest, Running
<1> QED
  BY <1>1, <1>2, <1>3, <1>4 DEF Inv

(* A step that leaves the buffer alone and changes only thread t, which    *)
(* does not run before or after it: a call begins, is rejected, reads the  *)
(* size or is interrupted.                                                 *)
OutsideStep(t, p, o, a, m, r) ==
  /\ pc[t] # "run"
  /\ pc' = [pc EXCEPT ![t] = p]
  /\ op' = [op EXCEPT ![t] = o]
  /\ arg' = [arg EXCEPT ![t] = a]
  /\ moved' = [moved EXCEPT ![t] = m]
  /\ ret' = [ret EXCEPT ![t] = r]
  /\ UNCHANGED <<rbVars, lock, to_read, before>>

LEMMA OutsideInv ==
  ASSUME Inv, NEW t \in Threads,
         NEW p \in {"out", "wait"}, NEW o \in {"none", "read", "write", "wipe", "store"},
         NEW a \in Nat, NEW m \in Seq(Byte), NEW r \in Int,
         OutsideStep(t, p, o, a, m, r),
         p = "out" <=> o = "none",
         o \in {"read", "write"} => a \in 0..MaxCount,
         o = "store" => a \in 1..MaxSize,
         o # "none" => m = <<>>
  PROVE  Inv'
<1> USE DEF Inv, rbVars, OutsideStep
<1>2. TypeOK'
  BY DEF TypeOK
<1>3. IndicesAgree' /\ ContentsWritten' /\ Contents' = Contents
  BY DEF IndicesAgree, ContentsWritten, Contents
<1>4. LockProtects'
  BY DEF LockProtects, TypeOK
<1>5. \A u \in Threads, q \in {"read", "write", "wipe", "store"} :
         Running(u, q)' => u # t /\ Running(u, q) /\ moved'[u] = moved[u] /\ arg'[u] = arg[u]
  BY DEF Running, TypeOK
<1>6. CallState'
  <2> SUFFICES ASSUME NEW u \in Threads PROVE CallState!(u)'
    BY DEF CallState
  <2>1. CASE u = t
    BY <2>1, <1>5 DEF CallState, TypeOK
  <2>2. CASE u # t
    BY <2>2, <1>3, <1>5 DEF CallState, TypeOK, Running
  <2> QED
    BY <2>1, <2>2
<1>7. ReadSplitsContents'
  BY <1>3, <1>5 DEF ReadSplitsContents
<1>8. WriteKeepsNewest'
  BY <1>3, <1>5 DEF WriteKeepsNewest
<1> QED
  BY <1>2, <1>3, <1>4, <1>6, <1>7, <1>8

(* Thread t takes the lock.                                                *)
LEMMA AcquireInv ==
  ASSUME Inv, NEW t \in Threads, Acquire(t)
  PROVE  Inv'
<1> USE DEF Inv, rbVars
<1>1. Contents \in Seq(Byte) /\ Len(Contents) = count /\ Contents' = Contents
  BY ContentsType DEF Acquire, Contents
<1>2. moved[t] = <<>> /\ op[t] # "none" /\ arg[t] \in Nat /\ count \in Nat /\ t # NoThread
  BY ThreadAssumption, SizeAssumption DEF Acquire, CallState, TypeOK
<1>3. to_read' \in Nat
  BY <1>2 DEF Acquire, Smaller
<1>4. TypeOK'
  BY <1>1, <1>3 DEF Acquire, TypeOK
<1>5. IndicesAgree' /\ ContentsWritten'
  BY DEF Acquire, IndicesAgree, ContentsWritten
<1>6. LockProtects'
  <2> SUFFICES ASSUME NEW u \in Threads PROVE pc'[u] = "run" <=> lock' = u
    BY DEF LockProtects
  <2>1. CASE u = t
    BY <2>1 DEF Acquire, TypeOK
  <2>2. CASE u # t
    BY <2>2, ThreadAssumption DEF Acquire, TypeOK, LockProtects
  <2> QED
    BY <2>1, <2>2
<1>7. \A u \in Threads : \A q : Running(u, q)' => u = t /\ op[t] = q
  BY <1>6 DEF Acquire, Running, LockProtects
<1>8. CallState'
  <2> SUFFICES ASSUME NEW u \in Threads PROVE CallState!(u)'
    BY DEF CallState
  <2>1. CASE u = t
    BY <1>1, <1>2, <1>3, <2>1, EmptySeq DEF Acquire, CallState, TypeOK, Running
  <2>2. CASE u # t
    BY <1>7, <2>2 DEF Acquire, CallState, TypeOK, Running, LockProtects
  <2> QED
    BY <2>1, <2>2
<1>9. ReadSplitsContents'
  <2> SUFFICES ASSUME op[t] = "read", Running(t, "read")'
               PROVE  /\ before' = moved'[t] \o Contents'
                      /\ to_read' = Smaller(arg'[t], Len(before'))
    BY <1>7 DEF ReadSplitsContents
  <2> QED
    BY <1>1, <1>2, ConcatEmptySeq DEF Acquire
<1>10. WriteKeepsNewest'
  <2> SUFFICES ASSUME op[t] = "write", Running(t, "write")'
               PROVE  Contents' = Queue!LastN(before' \o moved'[t], size')
    BY <1>7 DEF WriteKeepsNewest
  <2>1. before' \o moved'[t] = Contents /\ size' = size
    BY <1>1, <1>2, ConcatEmptySeq DEF Acquire
  <2>2. Queue!LastN(Contents, size) = Contents
    <3> DEFINE z == Queue!LastN(Contents, size)
    <3>1. Smaller(size, Len(Contents)) = count /\ Len(Contents) - count = 0 /\ size \in Nat
      BY <1>1, SizeAssumption DEF Smaller, TypeOK
    <3>2. /\ z \in Seq(Byte)
          /\ Len(z) = count
          /\ \A i \in 1..count : z[i] = Contents[i + 0]
      <4> HIDE DEF z
      <4>1. /\ z \in Seq(Byte)
            /\ Len(z) = Smaller(size, Len(Contents))
            /\ \A i \in 1..Smaller(size, Len(Contents)) :
                 z[i] = Contents[i + (Len(Contents) - Smaller(size, Len(Contents)))]
        BY <1>1, <3>1, LastNElements DEF z
      <4> QED
        BY <3>1, <4>1
    <3> HIDE DEF z
    <3>3. z = Contents
      BY <1>1, <3>2, SeqEqual
    <3> QED
      BY <3>3 DEF z
  <2> QED
    BY <1>1, <2>1, <2>2
<1> QED
  BY <1>4, <1>5, <1>6, <1>8, <1>9, <1>10

(* What the invariant says of the buffer and its indices alone.            *)
BufferOK ==
  /\ size \in 1..MaxSize
  /\ buffer \in [0..(size - 1) -> Byte \cup {Unset}]
  /\ head \in 0..(size - 1)
  /\ tail \in 0..(size - 1)
  /\ count \in 0..size
  /\ IndicesAgree
  /\ ContentsWritten

(* A step by which the running thread t leaves the driver: whatever state  *)
(* of the buffer it leaves must be consistent.                             *)
LEMMA LeaveInv ==
  ASSUME Inv, NEW t \in Threads, pc[t] = "run", NEW r \in Int, UnlockAndLeave(t, r),
         UNCHANGED moved, BufferOK'
  PROVE  Inv'
<1>1. TypeOK' /\ IndicesAgree' /\ ContentsWritten'
  BY EmptySeq DEF Inv, BufferOK, TypeOK, UnlockAndLeave, Leave
<1>2. lock = t /\ lock' = NoThread
  BY DEF Inv, LockProtects, UnlockAndLeave
<1>3. \A u \in Threads : pc'[u] # "run"
  BY <1>2, ThreadAssumption DEF Inv, LockProtects, TypeOK, UnlockAndLeave, Leave
<1>4. LockProtects'
  BY <1>2, <1>3, ThreadAssumption DEF LockProtects
<1>5. CallState'
  <2> SUFFICES ASSUME NEW u \in Threads PROVE CallState!(u)'
    BY DEF CallState
  <2>1. CASE u = t
    BY <1>3, <2>1 DEF Inv, UnlockAndLeave, Leave, CallState, TypeOK, Running
  <2>2. CASE u # t
    BY <1>3, <2>2 DEF Inv, UnlockAndLeave, Leave, CallState, TypeOK, Running
  <2> QED
    BY <2>1, <2>2
<1>6. ReadSplitsContents' /\ WriteKeepsNewest'
  BY <1>3 DEF ReadSplitsContents, WriteKeepsNewest, Running
<1> QED
  BY <1>1, <1>4, <1>5, <1>6 DEF Inv

(* What a step inside a copy loop of thread t leaves to be shown.          *)
LEMMA LoopInv ==
  ASSUME Inv, NEW t \in Threads, pc[t] = "run", op[t] \in {"read", "write"},
         NEW b \in Byte, moved' = [moved EXCEPT ![t] = Append(@, b)],
         UNCHANGED <<size, lock, op, pc, arg, ret, to_read, before>>,
         BufferOK',
         op[t] = "read" =>
           /\ Len(moved[t]) < to_read
           /\ moved[t] \o Contents = moved'[t] \o Contents',
         op[t] = "write" =>
           /\ Len(moved[t]) < arg[t]
           /\ Contents' = Queue!LastN(before \o moved'[t], size)
  PROVE  Inv'
<1>1. /\ moved[t] \in Seq(Byte)
      /\ moved'[t] = Append(moved[t], b)
      /\ moved'[t] \in Seq(Byte)
      /\ Len(moved'[t]) = Len(moved[t]) + 1
      /\ \A u \in Threads : u # t => moved'[u] = moved[u]
  BY AppendProperties DEF Inv, TypeOK
<1>2. moved' \in [Threads -> Seq(Byte)]
  BY <1>1 DEF Inv, TypeOK
<1>3. TypeOK' /\ IndicesAgree' /\ ContentsWritten'
  BY <1>2 DEF Inv, BufferOK, TypeOK
<1>4. lock = t
  BY DEF Inv, LockProtects
<1>5. LockProtects' /\ \A u \in Threads : pc'[u] = "run" <=> u = t
  BY <1>4 DEF Inv, LockProtects
<1>6. /\ Len(moved[t]) \in Nat
      /\ op[t] = "read" => Len(moved'[t]) <= to_read
      /\ op[t] = "write" => Len(moved'[t]) <= arg[t]
  <2>1. Len(moved[t]) \in Nat /\ to_read \in Nat /\ arg[t] \in Nat
    BY <1>1, LenProperties DEF Inv, TypeOK
  <2> QED
    BY <1>1, <2>1
<1>7. CallState'
  <2> SUFFICES ASSUME NEW u \in Threads PROVE CallState!(u)'
    BY DEF CallState
  <2>1. CASE u = t
    <3>1. /\ op'[t] = op[t] /\ pc'[t] = "run" /\ arg'[t] = arg[t]
          /\ op[t] \notin {"none", "wipe", "store"}
      OBVIOUS
    <3>2. op'[t] \in {"read", "write"} => arg'[t] \in 0..MaxCount
      BY DEF Inv, CallState
    <3> QED
      BY <1>6, <2>1, <3>1, <3>2 DEF Running
  <2>2. CASE u # t
    BY <1>1, <1>5, <2>2 DEF Inv, CallState, Running
  <2> QED
    BY <2>1, <2>2
<1>8. ReadSplitsContents'
  BY <1>5 DEF Inv, ReadSplitsContents, Running
<1>9. WriteKeepsNewest'
  BY <1>5 DEF WriteKeepsNewest, Running
<1> QED
  BY <1>3, <1>5, <1>7, <1>8, <1>9 DEF Inv

(* rb_read moves the byte at the tail to the caller.                       *)
LEMMA ReadByteInv ==
  ASSUME Inv, NEW t \in Threads, ReadByte(t)
  PROVE  Inv'
<1>1. /\ TypeOK /\ ContentsWritten /\ IndicesAgree
      /\ size \in Nat \ {0} /\ count \in 0..size /\ tail \in 0..(size - 1)
  BY SizeAssumption DEF Inv, TypeOK
<1>2. moved[t] \in Seq(Byte) /\ Len(moved[t]) \in Nat
  BY <1>1, LenProperties DEF TypeOK
<1>3. Contents \in Seq(Byte) /\ Len(Contents) = count
      /\ Contents = Window(buffer, size, tail, count)
  BY <1>1, ContentsType
<1>4. Running(t, "read") /\ Len(moved[t]) < to_read
  BY DEF ReadByte
<1>5. before = moved[t] \o Contents /\ to_read = Smaller(arg[t], Len(before)) /\ arg[t] \in Nat
  BY <1>1, <1>4 DEF Inv, ReadSplitsContents, TypeOK
<1>6. count \in 1..size
  <2>1. Len(before) = Len(moved[t]) + count
    BY <1>2, <1>3, <1>5, ConcatProperties
  <2>2. to_read <= Len(before)
    BY <1>1, <1>2, <1>5, <2>1 DEF Smaller
  <2>3. to_read \in Nat
    BY <1>1 DEF TypeOK
  <2> QED
    BY <1>1, <1>2, <1>4, <2>1, <2>2, <2>3
<1>7. /\ tail' = Slot(tail + 1, size)
      /\ count' = count - 1
      /\ UNCHANGED <<buffer, size, head, lock, op, pc, arg, ret, to_read, before>>
      /\ moved' = [moved EXCEPT ![t] = Append(@, buffer[tail])]
  BY DEF ReadByte, Step, Slot
<1>8. /\ tail' \in 0..(size - 1)
      /\ Contents[1] = buffer[tail]
      /\ \A i \in 1..(count - 1) : Window(buffer, size, tail', count')[i] = Contents[i + 1]
      /\ Slot(tail' + count', size) = Slot(tail + count, size)
  <2>1. tail' \in 0..(size - 1) /\ Slot(tail' + (count - 1), size) = Slot(tail + count, size)
    BY <1>1, <1>6, <1>7, PopIndices
  <2>2. Contents[1] = buffer[tail]
    BY <1>1, <1>3, <1>6, PopFirst
  <2>3. ASSUME NEW i \in 1..(count - 1)
        PROVE  Window(buffer, size, tail', count')[i] = Contents[i + 1]
    BY <1>1, <1>3, <1>6, <1>7, PopRest
  <2> QED
    BY <1>7, <2>1, <2>2, <2>3
<1>9. Contents' = Window(buffer, size, tail', count')
  BY <1>7 DEF Contents, Window, Slot
<1>10. Contents[1] \in Byte /\ \A i \in 1..(count - 1) : Contents[i + 1] \in Byte
  <2>1. \A i \in 1..count : Contents[i] \in Byte
    BY <1>3, ElementOfSeq
  <2> QED
    BY <1>6, <2>1
<1>11. /\ Contents' \in Seq(Byte)
       /\ Len(Contents') = count - 1
       /\ \A i \in 1..(count - 1) : Contents'[i] = Contents[i + 1]
  <2>1. Contents' = [i \in 1..count' |-> Contents'[i]]
    BY DEF Contents
  <2>2. count - 1 \in Nat /\ count' = count - 1
    BY <1>6, <1>7
  <2>3. \A i \in 1..(count - 1) : Contents'[i] = Contents[i + 1]
    BY <1>8, <1>9
  <2>4. \A i \in 1..(count - 1) : Contents'[i] \in Byte
    BY <1>10, <2>3
  <2> QED
    BY <2>1, <2>2, <2>3, <2>4
<1>12. moved[t] \o Contents = moved'[t] \o Contents'
  <2>1. moved'[t] = Append(moved[t], Contents[1])
    BY <1>1, <1>7, <1>8 DEF TypeOK
  <2> DEFINE m == moved[t]
             w == Contents
             v == Contents'
  <2>2. /\ m \in Seq(Byte) /\ w \in Seq(Byte) /\ v \in Seq(Byte)
        /\ Len(w) >= 1 /\ Len(v) = Len(w) - 1
        /\ \A i \in 1..(Len(w) - 1) : v[i] = w[i + 1]
    BY <1>2, <1>3, <1>6, <1>11
  <2>3. m \o w = Append(m, w[1]) \o v
    <3> HIDE DEF m, w, v
    <3> QED
      BY <2>2, MoveOne
  <2> QED
    BY <2>1, <2>3
<1>13. ContentsWritten'
  <2>1. \A i \in 1..count' : Contents'[i] = buffer'[Slot(tail' + i - 1, size')]
    BY DEF Contents, Slot
  <2>2. \A i \in 1..count' : Contents'[i] \in Byte
    BY <1>7, <1>10, <1>11
  <2> QED
    BY <2>1, <2>2 DEF ContentsWritten
<1>14. BufferOK'
  <2>1. /\ size' \in 1..MaxSize
        /\ head' \in 0..(size' - 1)
        /\ buffer' \in [0..(size' - 1) -> Byte \cup {Unset}]
    BY <1>1, <1>7 DEF TypeOK
  <2>2. tail' \in 0..(size' - 1) /\ count' \in 0..size'
    BY <1>1, <1>6, <1>7, <1>8
  <2>3. IndicesAgree'
    BY <1>1, <1>7, <1>8 DEF IndicesAgree, Slot
  <2> QED
    BY <1>13, <2>1, <2>2, <2>3 DEF BufferOK
<1> QED
  BY <1>4, <1>7, <1>8, <1>10, <1>12, <1>14, LoopInv DEF Running, Inv

(* rb_write stores a byte at the head.                                     *)
LEMMA WriteByteInv ==
  ASSUME Inv, NEW t \in Threads, WriteByte(t)
  PROVE  Inv'
<1>1. /\ TypeOK /\ ContentsWritten /\ IndicesAgree
      /\ size \in Nat \ {0} /\ count \in 0..size /\ tail \in 0..(size - 1)
      /\ head = Slot(tail + count, size)
      /\ buffer \in [0..(size - 1) -> Byte \cup {Unset}]
  BY SizeAssumption DEF Inv, TypeOK, IndicesAgree, Slot
<1>2. moved[t] \in Seq(Byte) /\ before \in Seq(Byte)
  BY <1>1 DEF TypeOK
<1>3. Contents \in Seq(Byte) /\ Len(Contents) = count
      /\ Contents = Window(buffer, size, tail, count)
  BY <1>1, ContentsType
<1>4. Running(t, "write") /\ Len(moved[t]) < arg[t]
  BY DEF WriteByte
<1>5. Contents = Queue!LastN(before \o moved[t], size)
  BY <1>4 DEF Inv, WriteKeepsNewest
<1>6. PICK b \in Byte : /\ buffer' = [buffer EXCEPT ![head] = b]
                        /\ moved' = [moved EXCEPT ![t] = Append(@, b)]
  BY DEF WriteByte
<1>16. Stored(buffer', buffer, size, head, b)
  BY <1>1, <1>6 DEF Stored
<1>7. /\ head' = Slot(head + 1, size)
      /\ count < size => count' = count + 1 /\ tail' = tail
      /\ ~(count < size) => count' = count /\ tail' = Slot(tail + 1, size)
      /\ UNCHANGED <<size, lock, op, pc, arg, ret, to_read, before>>
  BY DEF WriteByte, Admit, Step, Slot
<1>8. /\ buffer' \in [0..(size - 1) -> Byte \cup {Unset}]
      /\ tail' \in 0..(size - 1)
      /\ count' \in 0..size
      /\ head' \in 0..(size - 1)
  <2>1. Slot(tail + 1, size) \in 0..(size - 1) /\ Slot(head + 1, size) \in 0..(size - 1)
    <3>1. head \in 0..(size - 1) /\ 0 \in 0..(size - 1)
      BY <1>1 DEF TypeOK
    <3> QED
      BY <1>1, <3>1, NextIndex
  <2>2. buffer' \in [0..(size - 1) -> Byte \cup {Unset}]
    BY <1>1, <1>6
  <2> QED
    BY <1>1, <1>7, <2>1, <2>2
<1>9. Contents' = Window(buffer', size, tail', count')
  BY <1>7 DEF Contents, Window, Slot
<1>10. \A i \in 1..count : Contents[i] \in Byte
  BY <1>3, ElementOfSeq
<1>11. /\ head' = Slot(tail' + count', size)
       /\ Contents' = [i \in 1..count' |-> Contents'[i]]
       /\ \A i \in 1..count' :
            Contents'[i] = IF i = count' THEN b
                           ELSE IF count < size THEN Contents[i] ELSE Contents[i + 1]
  <2>1. Contents' = [i \in 1..count' |-> Contents'[i]]
    BY DEF Contents
  <2>2. CASE count < size
    <3>1. count \in 0..(size - 1) /\ count' = count + 1 /\ tail' = tail
      BY <1>1, <1>7, <2>2
    <3>2. Slot(head + 1, size) = Slot(tail + (count + 1), size)
      BY <1>1, <3>1, PushIndices
    <3>3. Window(buffer', size, tail, count + 1)[count + 1] = b
      BY <1>1, <1>16, <3>1, PushNew
    <3>6. ASSUME NEW i \in 1..count
          PROVE  Window(buffer', size, tail, count + 1)[i]
                   = Window(buffer, size, tail, count)[i]
      BY <1>1, <1>16, <3>1, PushOld
    <3>4. \A i \in 1..(count + 1) : i # count + 1 => i \in 1..count
      BY <3>1
    <3>5. \A i \in 1..count' : Contents'[i] = IF i = count' THEN b ELSE Contents[i]
      BY <1>3, <1>7, <1>9, <3>1, <3>3, <3>4, <3>6
    <3> QED
      BY <1>1, <1>7, <2>1, <2>2, <3>1, <3>2, <3>5
  <2>3. CASE ~(count < size)
    <3>1. count = size /\ count' = size /\ tail' = Slot(tail + 1, size)
      BY <1>1, <1>7, <2>3
    <3>2. head = tail /\ Slot(head + 1, size) = Slot(tail' + size, size)
      <4>1. head = Slot(tail + size, size)
        BY <1>1, <3>1
      <4>2. head = tail
        BY <1>1, <4>1, WrapOnce
      <4>3. Slot(tail' + size, size) = tail'
        BY <1>1, <1>8, WrapOnce
      <4> QED
        BY <3>1, <4>2, <4>3
    <3>3. Window(buffer', size, tail', size)[size] = b
      BY <1>1, <1>16, <3>1, <3>2, EvictNew
    <3>6. ASSUME NEW i \in 1..(size - 1)
          PROVE  Window(buffer', size, tail', size)[i] = Window(buffer, size, tail, size)[i + 1]
      <4>1. Stored(buffer', buffer, size, tail, b)
        BY <1>16, <3>2
      <4>2. size \in Nat \ {0} /\ tail \in 0..(size - 1) /\ tail' = Slot(tail + 1, size)
        BY <1>1, <3>1
      <4> QED
        BY <4>1, <4>2, EvictOld
    <3>4. \A i \in 1..size : i # size => i \in 1..(size - 1)
      BY <1>1
    <3>7. Contents' = Window(buffer', size, tail', size) /\ Contents = Window(buffer, size, tail, size)
      BY <1>3, <1>9, <3>1
    <3>5. \A i \in 1..count' : Contents'[i] = IF i = count' THEN b ELSE Contents[i + 1]
      BY <3>1, <3>3, <3>4, <3>6, <3>7
    <3> QED
      BY <1>1, <1>7, <2>1, <2>3, <3>1, <3>2, <3>5
  <2> QED
    BY <2>2, <2>3
<1>12. /\ Contents' \in Seq(Byte)
       /\ Len(Contents') = count'
       /\ \A i \in 1..count' : Contents'[i] \in Byte
  <2>1. \A i \in 1..count' : Contents'[i] \in Byte
    <3> SUFFICES ASSUME NEW i \in 1..count' PROVE Contents'[i] \in Byte
      OBVIOUS
    <3>1. CASE i = count'
      BY <1>11, <3>1
    <3>2. CASE i # count'
      <4>1. count < size => i \in 1..count
        BY <1>1, <1>7, <3>2
      <4>2. ~(count < size) => i + 1 \in 1..count
        BY <1>1, <1>7, <3>2
      <4> QED
        BY <1>10, <1>11, <3>2, <4>1, <4>2
    <3> QED
      BY <3>1, <3>2
  <2>2. count' \in Nat
    BY <1>1, <1>8
  <2> QED
    BY <1>11, <2>1, <2>2
<1>13. ContentsWritten'
  <2>1. \A i \in 1..count' : Contents'[i] = buffer'[Slot(tail' + i - 1, size')]
    BY DEF Contents, Slot
  <2>2. \A i \in 1..count' : Contents'[i] \in Byte
    BY <1>12
  <2> QED
    BY <2>1, <2>2 DEF ContentsWritten
<1>14. BufferOK'
  <2>1. size' \in 1..MaxSize /\ size' = size
    BY <1>1, <1>7 DEF TypeOK
  <2>2. IndicesAgree'
    BY <1>11, <2>1 DEF IndicesAgree, Slot
  <2> QED
    BY <1>8, <1>13, <2>1, <2>2 DEF BufferOK
<1>15. Contents' = Queue!LastN(before \o moved'[t], size)
  <2> DEFINE x == before \o moved[t]
             y == before \o moved'[t]
             w == Contents
             v == Contents'
  <2>1. moved'[t] = Append(moved[t], b)
    BY <1>1, <1>6 DEF TypeOK
  <2>2. x \in Seq(Byte) /\ y = Append(x, b)
    BY <1>2, <2>1, AppendIsConcat, ConcatAssociative, ConcatProperties, SMTT(30)
  <2>3. w = Queue!LastN(x, size) /\ v \in Seq(Byte) /\ OneMore(v, w, b, size)
    BY <1>1, <1>3, <1>5, <1>7, <1>11, <1>12 DEF OneMore
  <2> HIDE DEF x, y, w, v
  <2>4. v = Queue!LastN(y, size)
    BY <1>1, <2>2, <2>3, KeepOneMore
  <2> QED
    BY <2>4 DEF v, y
<1> QED
  BY <1>4, <1>6, <1>7, <1>14, <1>15, LoopInv DEF Running, Inv

(* Every step keeps the invariant.                                         *)
LEMMA BufferUnchanged ==
  ASSUME Inv, UNCHANGED rbVars
  PROVE  BufferOK'
  BY DEF Inv, BufferOK, rbVars, TypeOK, IndicesAgree, ContentsWritten

LEMMA EmptyBuffer ==
  ASSUME NEW n \in 1..MaxSize, size' = n, head' = 0, tail' = 0, count' = 0,
         buffer' \in [0..(n - 1) -> Byte \cup {Unset}]
  PROVE  BufferOK'
<1>1. n \in Nat \ {0} /\ 0 \in 0..(n - 1)
  BY SizeAssumption
<1>2. 0 % n = 0 /\ 0 + 0 = 0
  BY <1>1, WrapOnce DEF Slot
<1>3. IndicesAgree'
  BY <1>2 DEF IndicesAgree
<1>4. ContentsWritten'
  BY DEF ContentsWritten
<1> QED
  BY <1>1, <1>3, <1>4 DEF BufferOK

LEMMA StepInv ==
  ASSUME Inv, [Next]_vars
  PROVE  Inv'
<1>1. CASE UNCHANGED vars
  BY <1>1 DEF Inv, vars, TypeOK, IndicesAgree, ContentsWritten, LockProtects, CallState,
              ReadSplitsContents, WriteKeepsNewest, Running, Contents
<1>2. ASSUME NEW t \in Threads, NEW o \in {"read", "write", "wipe", "store"}, NEW a \in Nat,
             o \in {"read", "write"} => a \in 0..MaxCount, o = "store" => a \in 1..MaxSize,
             Enter(t, o, a)
      PROVE  Inv'
  <2>1. OutsideStep(t, "wait", o, a, <<>>, 0)
    BY <1>2 DEF Enter, OutsideStep
  <2>2. <<>> \in Seq(Byte) /\ 0 \in Int /\ o # "none"
    BY <1>2, EmptySeq
  <2>3. pc[t] # "run"
    BY <1>2 DEF Enter
  <2> QED
    BY <1>2, <2>1, <2>2, <2>3, OutsideInv
<1>3. ASSUME NEW t \in Threads, NEW r \in Int, pc[t] # "run", Leave(t, r),
             moved' = [moved EXCEPT ![t] = <<>>] \/ moved' = moved,
             UNCHANGED <<rbVars, lock, to_read, before>>
      PROVE  Inv'
  <2>1. moved' = [moved EXCEPT ![t] = <<>>] \/ moved' = [moved EXCEPT ![t] = moved[t]]
    BY <1>3 DEF Inv, TypeOK
  <2>2. ASSUME NEW m \in Seq(Byte), moved' = [moved EXCEPT ![t] = m] PROVE Inv'
    <3>1. OutsideStep(t, "out", "none", 0, m, r)
      BY <1>3, <2>2 DEF Leave, OutsideStep
    <3> QED
      BY <2>2, <1>3, <3>1, OutsideInv
  <2>3. <<>> \in Seq(Byte) /\ moved[t] \in Seq(Byte)
    BY EmptySeq DEF Inv, TypeOK
  <2> QED
    BY <2>1, <2>2, <2>3
<1>4. ASSUME NEW t \in Threads, NEW r \in Int, pc[t] = "run", UnlockAndLeave(t, r),
             UNCHANGED <<rbVars, moved>>
      PROVE  Inv'
  BY <1>4, BufferUnchanged, LeaveInv
<1>5. ASSUME NEW t \in Threads, CallRead(t) \/ CallWrite(t) \/ CallWipe(t) \/ CallStore(t)
      PROVE  Inv'
  <2>1. 0..MaxCount \subseteq Nat /\ 1..MaxSize \subseteq Nat
    BY SizeAssumption
  <2> QED
    BY <1>2, <1>5, <2>1 DEF CallRead, CallWrite, CallWipe, CallStore
<1>6. ASSUME NEW t \in Threads, CallRejected(t) \/ CallShow(t)
      PROVE  Inv'
  <2>1. EINVAL \in Int /\ size \in Int
    BY SizeAssumption DEF Inv, TypeOK, EINVAL
  <2> QED
    BY <1>3, <1>6, <2>1 DEF CallRejected, CallShow
<1>7. ASSUME NEW t \in Threads, Interrupt(t)
      PROVE  Inv'
  <2>1. ERESTARTSYS \in Int
    BY DEF ERESTARTSYS
  <2> QED
    BY <1>3, <1>7, <2>1 DEF Interrupt
<1>8. ASSUME NEW t \in Threads, ReadFault(t) \/ ReadReturn(t) \/ WriteFault(t)
                                \/ WriteReturn(t) \/ StoreNoMemory(t)
      PROVE  Inv'
  <2>1. EFAULT \in Int /\ ENOMEM \in Int /\ to_read \in Int /\ arg[t] \in Int
    BY DEF Inv, TypeOK, EFAULT, ENOMEM
  <2> QED
    BY <1>4, <1>8, <2>1 DEF ReadFault, ReadReturn, WriteFault, WriteReturn, StoreNoMemory, Running
<1>9. ASSUME NEW t \in Threads, Wipe(t)
      PROVE  Inv'
  <2>1. BufferOK'
    BY <1>9, EmptyBuffer DEF Wipe, Inv, TypeOK
  <2> QED
    BY <1>9, <2>1, LeaveInv DEF Wipe, Running
<1>10. ASSUME NEW t \in Threads, Store(t)
       PROVE  Inv'
  <2>1. arg[t] \in 1..MaxSize
    BY <1>10 DEF Store, Running, Inv, CallState
  <2>2. BufferOK'
    BY <1>10, <2>1, EmptyBuffer DEF Store
  <2>3. StoreOK \in Int
    BY DEF StoreOK
  <2> QED
    BY <1>10, <2>2, <2>3, LeaveInv DEF Store, Running
<1> QED
  BY <1>1, <1>5, <1>6, <1>7, <1>8, <1>9, <1>10, AcquireInv, ReadByteInv, WriteByteInv
  DEF Next, Work

-----------------------------------------------------------------------------
(* The invariant holds in every reachable state: the indices agree with    *)
(* count, the lock protects, a read delivers what it found and a write     *)
(* loses nothing but the oldest bytes.                                     *)
THEOREM Invariance == Spec => []Inv
<1>1. Init => Inv
  BY InitInv
<1>2. Inv /\ [Next]_vars => Inv'
  BY StepInv
<1> QED
  BY <1>1, <1>2, PTL DEF Spec

(* The variables stay in their ranges: no handler indexes outside the      *)
(* buffer, whatever sizes it has been given.                               *)
THEOREM TypeCorrect == Spec => []TypeOK
<1>1. Inv => TypeOK
  BY DEF Inv
<1> QED
  BY <1>1, Invariance, PTL

(* rb_write and rb_read never disagree on where the data is.               *)
THEOREM IndicesAlwaysAgree == Spec => []IndicesAgree
<1>1. Inv => IndicesAgree
  BY DEF Inv
<1> QED
  BY <1>1, Invariance, PTL

(* At most one thread is in a critical section, and it holds rb->lock.     *)
THEOREM MutualExclusion == Spec => []LockProtects
<1>1. Inv => LockProtects
  BY DEF Inv
<1> QED
  BY <1>1, Invariance, PTL

(* A read delivers a prefix of the bytes it found under the lock.          *)
THEOREM ReadsAreExact == Spec => []ReadSplitsContents
<1>1. Inv => ReadSplitsContents
  BY DEF Inv
<1> QED
  BY <1>1, Invariance, PTL

(* A write drops the oldest bytes only.                                    *)
THEOREM WritesAreExact == Spec => []WriteKeepsNewest
<1>1. Inv => WriteKeepsNewest
  BY DEF Inv
<1> QED
  BY <1>1, Invariance, PTL
-----------------------------------------------------------------------------
(* The ring buffer implements the overwrite queue: each step of a handler  *)
(* is a step of OverwriteQueue.tla or changes nothing that a caller sees.  *)

(* Splitting a sequence where two were joined.                             *)
LEMMA SplitJoined ==
  ASSUME NEW S, NEW m \in Seq(S), NEW w \in Seq(S)
  PROVE  /\ Queue!Take(m \o w, Len(m)) = m
         /\ Queue!Drop(m \o w, Len(m)) = w
  BY ConcatProperties, LenProperties DEF Queue!Take, Queue!Drop

(* An empty buffer holds the empty sequence.                               *)
LEMMA EmptyContents ==
  /\ count = 0 => Contents = <<>>
  /\ count' = 0 => Contents' = <<>>
  BY DEF Contents

(* How the last step of a call that held the lock looks to the callers.    *)
LEMMA AbsLeave ==
  ASSUME Inv, NEW t \in Threads, pc[t] = "run", NEW r, UnlockAndLeave(t, r), UNCHANGED moved
  PROVE  /\ Queue!Return(t, r, moved[t])
         /\ AbsQueue = before
         /\ AbsQueue' = Contents'
<1>1. lock = t /\ lock # NoThread /\ lock' = NoThread
  BY ThreadAssumption DEF Inv, LockProtects, UnlockAndLeave
<1>2. AbsQueue = before /\ AbsQueue' = Contents'
  BY <1>1 DEF AbsQueue
<1>3. AbsMoved' = [AbsMoved EXCEPT ![t] = moved[t]]
  BY DEF AbsMoved, UnlockAndLeave, Leave, Inv, TypeOK
<1> QED
  BY <1>2, <1>3 DEF Queue!Return, UnlockAndLeave, Leave

(* How a step of a thread outside its critical section looks.              *)
LEMMA AbsOutside ==
  ASSUME Inv, NEW t \in Threads, NEW p, NEW m,
         pc[t] # "run", pc' = [pc EXCEPT ![t] = p], moved' = [moved EXCEPT ![t] = m],
         p = "out" \/ m = <<>>,
         UNCHANGED <<rbVars, lock, to_read, before>>
  PROVE  /\ AbsMoved' = [AbsMoved EXCEPT ![t] = m]
         /\ UNCHANGED AbsQueue
<1>1. AbsMoved' = [AbsMoved EXCEPT ![t] = m]
  BY DEF AbsMoved, Inv, TypeOK
<1>2. UNCHANGED AbsQueue
  BY DEF AbsQueue, Contents, rbVars
<1> QED
  BY <1>1, <1>2

(* A step inside a copy loop, or taking the lock, is invisible.            *)
LEMMA AbsHidden ==
  ASSUME Inv, NEW t \in Threads, pc[t] # "out", pc'[t] # "out",
         \A u \in Threads : u # t => pc'[u] = pc[u] /\ moved'[u] = moved[u],
         UNCHANGED <<size, op, arg, ret>>, UNCHANGED AbsQueue
  PROVE  UNCHANGED Queue!vars
<1>1. UNCHANGED AbsMoved
  BY DEF AbsMoved
<1> QED
  BY <1>1 DEF Queue!vars

LEMMA InitRefines == Init => Queue!Init
<1> SUFFICES ASSUME Init PROVE Queue!Init
  OBVIOUS
<1>1. AbsQueue = <<>>
  BY EmptyContents DEF Init, AbsQueue
<1>2. AbsMoved = [t \in Threads |-> <<>>]
  BY DEF Init, AbsMoved
<1> QED
  BY <1>1, <1>2 DEF Init, Queue!Init

LEMMA ReadRefines ==
  ASSUME Inv, NEW t \in Threads, ReadFault(t) \/ ReadReturn(t)
  PROVE  Queue!Next
<1>1. /\ pc[t] = "run" /\ op[t] = "read" /\ moved[t] \in Seq(Byte) /\ to_read \in Nat
      /\ Contents \in Seq(Byte) /\ UNCHANGED <<rbVars, moved, size>> /\ Contents' = Contents
  BY ContentsType DEF Inv, TypeOK, Running, ReadFault, ReadReturn, rbVars, Contents
<1>2. /\ before = moved[t] \o Contents /\ Len(moved[t]) <= to_read /\ Len(moved[t]) \in Nat
      /\ to_read = Smaller(arg[t], Len(before))
  BY <1>1, LenProperties DEF Inv, ReadSplitsContents, CallState, Running
<1>3. /\ Queue!Take(before, Len(moved[t])) = moved[t]
      /\ Queue!Drop(before, Len(moved[t])) = Contents
  BY <1>1, <1>2, SplitJoined
<1>4. to_read = Queue!Smaller(arg[t], Len(before))
  BY <1>2 DEF Smaller, Queue!Smaller
<1>5. CASE ReadFault(t)
  <2>1. /\ Queue!Return(t, EFAULT, moved[t]) /\ AbsQueue = before /\ AbsQueue' = Contents'
        /\ Len(moved[t]) < to_read
    BY <1>1, <1>5, AbsLeave DEF ReadFault
  <2>2. Len(moved[t]) \in 0..(Queue!Smaller(arg[t], Len(AbsQueue)) - 1)
    BY <1>1, <1>2, <1>4, <2>1
  <2>3. Queue!ReadFault(t)
    BY <1>1, <1>3, <2>1, <2>2 DEF Queue!ReadFault, EFAULT, Queue!EFAULT
  <2> QED
    BY <2>3 DEF Queue!Next
<1>6. CASE ReadReturn(t)
  <2>1. /\ Queue!Return(t, to_read, moved[t]) /\ AbsQueue = before /\ AbsQueue' = Contents'
        /\ Len(moved[t]) = to_read
    BY <1>1, <1>2, <1>6, AbsLeave DEF ReadReturn
  <2>2. Queue!Read(t)
    BY <1>1, <1>3, <1>4, <2>1 DEF Queue!Read
  <2> QED
    BY <2>2 DEF Queue!Next
<1> QED
  BY <1>5, <1>6

LEMMA WriteRefines ==
  ASSUME Inv, NEW t \in Threads, WriteFault(t) \/ WriteReturn(t)
  PROVE  Queue!Next
<1>1. /\ pc[t] = "run" /\ op[t] = "write" /\ moved[t] \in Seq(Byte)
      /\ UNCHANGED <<rbVars, moved, size>> /\ Contents' = Contents
  BY DEF Inv, TypeOK, Running, WriteFault, WriteReturn, rbVars, Contents
<1>2. /\ Contents = Queue!LastN(before \o moved[t], size)
      /\ Len(moved[t]) <= arg[t] /\ Len(moved[t]) \in Nat /\ arg[t] \in Nat
      /\ moved[t] \in [1..Len(moved[t]) -> Byte]
  BY <1>1, LenProperties DEF Inv, TypeOK, WriteKeepsNewest, CallState, Running
<1>3. CASE WriteFault(t)
  <2>1. /\ Queue!Return(t, EFAULT, moved[t]) /\ AbsQueue = before /\ AbsQueue' = Contents'
        /\ Len(moved[t]) \in 0..(arg[t] - 1)
    BY <1>1, <1>2, <1>3, AbsLeave DEF WriteFault
  <2>2. Queue!WriteFault(t)
    BY <1>1, <1>2, <2>1 DEF Queue!WriteFault, EFAULT, Queue!EFAULT
  <2> QED
    BY <2>2 DEF Queue!Next
<1>4. CASE WriteReturn(t)
  <2>1. /\ Queue!Return(t, arg[t], moved[t]) /\ AbsQueue = before /\ AbsQueue' = Contents'
        /\ Len(moved[t]) = arg[t]
    BY <1>1, <1>2, <1>4, AbsLeave DEF WriteReturn
  <2>2. Queue!Write(t)
    BY <1>1, <1>2, <2>1 DEF Queue!Write
  <2> QED
    BY <2>2 DEF Queue!Next
<1> QED
  BY <1>3, <1>4

LEMMA EmptyRefines ==
  ASSUME Inv, NEW t \in Threads, Wipe(t) \/ Store(t) \/ StoreNoMemory(t)
  PROVE  Queue!Next
<1>1. /\ pc[t] = "run" /\ op[t] \in {"wipe", "store"} /\ moved[t] = <<>> /\ before = Contents
      /\ UNCHANGED moved
  BY DEF Inv, CallState, Running, Wipe, Store, StoreNoMemory
<1>2. CASE Wipe(t)
  <2>1. Queue!Return(t, 0, <<>>) /\ AbsQueue' = Contents' /\ Contents' = <<>>
    BY <1>1, <1>2, AbsLeave, EmptyContents DEF Wipe
  <2>2. Queue!Wipe(t)
    BY <1>2, <2>1 DEF Queue!Wipe, Wipe, Running
  <2> QED
    BY <2>2 DEF Queue!Next
<1>3. CASE Store(t)
  <2>1. Queue!Return(t, StoreOK, <<>>) /\ AbsQueue' = Contents' /\ Contents' = <<>>
    BY <1>1, <1>3, AbsLeave, EmptyContents DEF Store
  <2>2. Queue!Resize(t)
    BY <1>3, <2>1 DEF Queue!Resize, Store, Running, StoreOK, Queue!StoreOK
  <2> QED
    BY <2>2 DEF Queue!Next
<1>4. CASE StoreNoMemory(t)
  <2>1. /\ Queue!Return(t, ENOMEM, <<>>) /\ AbsQueue = before /\ AbsQueue' = Contents'
        /\ Contents' = Contents
    BY <1>1, <1>4, AbsLeave DEF StoreNoMemory, rbVars, Contents
  <2>2. Queue!ResizeNoMemory(t)
    BY <1>1, <1>4, <2>1
    DEF Queue!ResizeNoMemory, StoreNoMemory, Running, rbVars, ENOMEM, Queue!ENOMEM
  <2> QED
    BY <2>2 DEF Queue!Next
<1> QED
  BY <1>2, <1>3, <1>4

LEMMA EnterRefines ==
  ASSUME Inv, NEW t \in Threads, NEW o, NEW a, Enter(t, o, a)
  PROVE  Queue!Call(t, o, a)
<1>1. op[t] = "none"
  BY DEF Inv, CallState, Enter
<1>2. AbsMoved' = [AbsMoved EXCEPT ![t] = <<>>] /\ UNCHANGED AbsQueue
  BY AbsOutside DEF Enter
<1> QED
  BY <1>1, <1>2 DEF Enter, Queue!Call, rbVars

LEMMA OutsideRefines ==
  ASSUME Inv, NEW t \in Threads, CallRejected(t) \/ CallShow(t) \/ Interrupt(t)
  PROVE  Queue!Next
<1>1. moved' = [moved EXCEPT ![t] = <<>>]
  <2>1. moved \in [Threads -> Seq(Byte)]
    BY DEF Inv, TypeOK
  <2>2. Interrupt(t) => moved[t] = <<>>
    BY DEF Inv, CallState, Interrupt
  <2> QED
    BY <2>1, <2>2 DEF CallRejected, CallShow, Interrupt
<1>2. /\ pc[t] # "run" /\ pc' = [pc EXCEPT ![t] = "out"]
      /\ UNCHANGED <<rbVars, lock, to_read, before>>
  BY DEF CallRejected, CallShow, Interrupt, Leave
<1>3. AbsMoved' = [AbsMoved EXCEPT ![t] = <<>>] /\ UNCHANGED AbsQueue
  BY <1>1, <1>2, AbsOutside
<1>4. ASSUME NEW r, Leave(t, r) PROVE Queue!Return(t, r, <<>>)
  BY <1>3, <1>4 DEF Leave, Queue!Return
<1>5. pc[t] = "out" <=> op[t] = "none"
  BY DEF Inv, CallState
<1>6. CASE CallRejected(t)
  <2>1. Queue!Reject(t)
    BY <1>2, <1>3, <1>4, <1>5, <1>6 DEF CallRejected, Queue!Reject, rbVars, EINVAL, Queue!EINVAL
  <2> QED
    BY <2>1 DEF Queue!Next
<1>7. CASE CallShow(t)
  <2>1. Queue!Show(t)
    BY <1>2, <1>3, <1>4, <1>5, <1>7 DEF CallShow, Queue!Show, rbVars
  <2> QED
    BY <2>1 DEF Queue!Next
<1>8. CASE Interrupt(t)
  <2>1. Queue!Interrupted(t)
    BY <1>2, <1>3, <1>4, <1>5, <1>8
    DEF Interrupt, Queue!Interrupted, rbVars, ERESTARTSYS, Queue!ERESTARTSYS
  <2> QED
    BY <2>1 DEF Queue!Next
<1> QED
  BY <1>6, <1>7, <1>8

LEMMA StepRefines ==
  ASSUME Inv, [Next]_vars
  PROVE  [Queue!Next]_(Queue!vars)
<1>1. CASE UNCHANGED vars
  <2>1. UNCHANGED AbsQueue
    BY <1>1 DEF vars, AbsQueue, Contents
  <2>2. UNCHANGED AbsMoved
    BY <1>1 DEF vars, AbsMoved
  <2> QED
    BY <1>1, <2>1, <2>2 DEF vars, Queue!vars
<1>2. ASSUME NEW t \in Threads, CallRead(t) \/ CallWrite(t) \/ CallWipe(t) \/ CallStore(t)
      PROVE  Queue!Next
  BY <1>2, EnterRefines DEF CallRead, CallWrite, CallWipe, CallStore, Queue!Next
<1>3. ASSUME NEW t \in Threads, Acquire(t)
      PROVE  UNCHANGED Queue!vars
  <2>1. UNCHANGED AbsQueue
    BY <1>3, ThreadAssumption DEF Acquire, AbsQueue
  <2>2. /\ pc[t] # "out" /\ pc'[t] # "out" /\ UNCHANGED <<size, op, arg, ret>>
        /\ \A u \in Threads : u # t => pc'[u] = pc[u] /\ moved'[u] = moved[u]
    BY <1>3 DEF Acquire, rbVars, Inv, TypeOK
  <2> QED
    BY <2>1, <2>2, AbsHidden
<1>4. ASSUME NEW t \in Threads, ReadByte(t) \/ WriteByte(t)
      PROVE  UNCHANGED Queue!vars
  <2>1. UNCHANGED AbsQueue
    <3>1. lock # NoThread
      BY <1>4, ThreadAssumption DEF ReadByte, WriteByte, Running, Inv, LockProtects
    <3>2. lock' = lock /\ before' = before
      BY <1>4 DEF ReadByte, WriteByte
    <3> QED
      BY <3>1, <3>2 DEF AbsQueue
  <2>2. /\ pc[t] # "out" /\ pc'[t] # "out" /\ UNCHANGED <<size, op, arg, ret>>
        /\ \A u \in Threads : u # t => pc'[u] = pc[u] /\ moved'[u] = moved[u]
    BY <1>4 DEF ReadByte, WriteByte, Running, Inv, TypeOK
  <2> QED
    BY <2>1, <2>2, AbsHidden
<1> QED
  BY <1>1, <1>2, <1>3, <1>4, OutsideRefines, ReadRefines, WriteRefines, EmptyRefines
  DEF Next, Work

(* Every behaviour of the driver's data path is one of the overwrite       *)
(* queue: reads, writes, wipes and changes of size are atomic.             *)
THEOREM ImplementsQueue == Spec => AtomicCalls
<1>1. Init => Queue!Init
  BY InitRefines
<1>2. Inv /\ [Next]_vars => [Queue!Next]_(Queue!vars)
  BY StepRefines
<1> QED
  BY <1>1, <1>2, Invariance, PTL DEF Spec, AtomicCalls, Queue!Spec
=============================================================================
