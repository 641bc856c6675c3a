---------------------------- MODULE DedupProofs ----------------------------
(***************************************************************************)
(* The deduplicator's verdicts and its bitmap for every window, modulus,   *)
(* lag and jump: what dedup.go computes with wrapped numbers and a bitmap  *)
(* that forgets slot by slot is what a set of the last Window unwrapped    *)
(* numbers says.  The arithmetic comes first.                              *)
(***************************************************************************)
EXTENDS Dedup, TLAPS

-----------------------------------------------------------------------------
(* Remainders *)

\* Quotient and remainder.
LEMMA Remainder ==
  ASSUME NEW n \in Int, NEW M \in Nat \ {0}
  PROVE  n % M \in 0 .. (M - 1) /\ \E q \in Int : n = (M * q) + (n % M)
<1>1. n % M \in 0 .. (M - 1) /\ n \div M \in Int /\ n = (M * (n \div M)) + (n % M)
  OBVIOUS
<1>2. \E q \in Int : n = (M * q) + (n % M)
  <2>. WITNESS n \div M \in Int
  <2>. QED
    BY <1>1
<1>. QED
  BY <1>1, <1>2

\* Multiples of M between bounds.
LEMMA NearMultiple ==
  ASSUME NEW M \in Nat \ {0}, NEW k \in Int
  PROVE  /\ -M < M * k /\ M * k < M => k = 0
         /\ -2 * M < M * k /\ M * k < 2 * M => k \in {-1, 0, 1}
<1>1. k >= 1 => M * k >= M
  OBVIOUS
<1>2. k >= 2 => M * k >= 2 * M
  OBVIOUS
<1>3. k <= -1 => M * k <= -M
  OBVIOUS
<1>4. k <= -2 => M * k <= -2 * M
  OBVIOUS
<1>. QED
  BY <1>1, <1>2, <1>3, <1>4

\* There is one remainder.
LEMMA ModUnique ==
  ASSUME NEW M \in Nat \ {0}, NEW q \in Int, NEW p \in Int,
         NEW r \in 0 .. (M - 1), NEW s \in 0 .. (M - 1), (M * q) + r = (M * p) + s
  PROVE  r = s
<1>1. PICK k \in Int : k = q - p
  OBVIOUS
<1>2. M * k = s - r
  BY <1>1, Z3
<1>3. k = 0
  BY <1>2, NearMultiple
<1>. QED
  BY <1>2, <1>3

\* ... and it is that of %.
LEMMA RemainderIs ==
  ASSUME NEW M \in Nat \ {0}, NEW r \in 0 .. (M - 1), NEW n \in Int, \E q \in Int : n = (M * q) + r
  PROVE  n % M = r
<1>0. PICK q \in Int : n = (M * q) + r
  OBVIOUS
<1>1. PICK p \in Int : n = (M * p) + (n % M)
  BY Remainder
<1>2. n % M \in 0 .. (M - 1)
  BY Remainder
<1>3. PICK s \in 0 .. (M - 1) : s = n % M
  BY <1>2
<1>4. r = s
  <2>1. (M * q) + r = (M * p) + s
    BY <1>0, <1>1, <1>3
  <2>. QED
    BY <2>1, ModUnique
<1>. QED
  BY <1>3, <1>4

\* Multiples do not change it.
LEMMA ModPlus ==
  ASSUME NEW x \in Int, NEW M \in Nat \ {0}, NEW y \in Int, \E k \in Int : y = x + (M * k)
  PROVE  y % M = x % M
<1>1. PICK k \in Int : y = x + (M * k)
  OBVIOUS
<1>2. PICK r \in 0 .. (M - 1) : r = x % M
  BY Remainder
<1>3. PICK q \in Int : x = (M * q) + r
  BY <1>2, Remainder
<1>4. PICK p \in Int : p = q + k
  OBVIOUS
<1>5. M * p = (M * q) + (M * k)
  BY <1>4, Z3
<1>6. y = (M * p) + r
  <2>1. M * q \in Int /\ M * k \in Int
    OBVIOUS
  <2>. QED
    BY <1>1, <1>3, <1>5, <2>1
<1>7. y % M = r
  <2>1. \E t \in Int : y = (M * t) + r
    BY <1>6
  <2>. QED
    BY <2>1, RemainderIs
<1>. QED
  BY <1>2, <1>7

\* A number that is a remainder already.
LEMMA ModSmall ==
  ASSUME NEW M \in Nat \ {0}, NEW x \in 0 .. (M - 1)
  PROVE  x % M = x
<1>1. x = (M * 0) + x
  OBVIOUS
<1>. QED
  BY <1>1, RemainderIs

\* The difference of two numbers and of their remainders.
LEMMA ModDifference ==
  ASSUME NEW M \in Nat \ {0}, NEW x \in Int, NEW y \in Int
  PROVE  \E k \in Int : x - y = (M * k) + ((x % M) - (y % M))
<1>1. PICK r \in 0 .. (M - 1) : r = x % M
  BY Remainder
<1>2. PICK s \in 0 .. (M - 1) : s = y % M
  BY Remainder
<1>3. PICK q \in Int : x = (M * q) + r
  BY <1>1, Remainder
<1>4. PICK p \in Int : y = (M * p) + s
  BY <1>2, Remainder
<1>5. PICK k \in Int : k = q - p
  OBVIOUS
<1>6. M * k = (M * q) - (M * p)
  BY <1>5, Z3
<1>7. x - y = (M * k) + (r - s)
  <2>1. M * q \in Int /\ M * p \in Int
    OBVIOUS
  <2>. QED
    BY <1>3, <1>4, <1>6, <2>1
<1>8. \E t \in Int : x - y = (M * t) + (r - s)
  BY <1>7
<1>. QED
  BY <1>1, <1>2, <1>8

\* Numbers with one remainder are a multiple of M apart.
LEMMA SameMod ==
  ASSUME NEW M \in Nat \ {0}, NEW x \in Int, NEW y \in Int, x % M = y % M, -M < x - y, x - y < M
  PROVE  x = y
<1>1. PICK k \in Int : x - y = (M * k) + ((x % M) - (y % M))
  BY ModDifference
<1>2. PICK r \in Int : r = x % M
  BY Remainder
<1>3. x - y = M * k
  BY <1>1, <1>2
<1>4. k = 0
  BY <1>3, NearMultiple
<1>. QED
  BY <1>3, <1>4

-----------------------------------------------------------------------------
(* Sequence numbers and slots *)

\* The numbers wrap after at least two windows.
LEMMA Sizes ==
  /\ Window \in Nat \ {0} /\ Modulus \in Nat \ {0}
  /\ \E w \in Nat : Modulus = Window * w
  /\ 2 * Window <= Modulus
  /\ MaxLag \in Nat /\ MaxLag < Window /\ MaxJump \in Nat /\ MaxLag + MaxJump <= Modulus - Window
<1>1. /\ Window \in Nat \ {0} /\ Modulus \in Nat \ {0}
      /\ MaxLag \in Nat /\ MaxLag < Window /\ MaxJump \in Nat /\ MaxJump >= 1
      /\ MaxLag + MaxJump <= Modulus - Window
  BY WindowDividesModulus, CopiesAreNear
<1>2. PICK w \in Int : Modulus = Window * w
  <2>1. PICK w \in Int : Modulus = (Window * w) + (Modulus % Window)
    BY <1>1, Modulus \in Int, Remainder
  <2>2. Modulus = Window * w
    BY <1>1, <2>1, WindowDividesModulus
  <2>. QED
    BY <2>2
<1>3. w >= 2
  <2>1. w <= 0 => Window * w <= 0
    BY <1>1
  <2>2. w = 1 => Modulus = Window
    BY <1>1, <1>2
  <2>. QED
    BY <1>1, <1>2, <2>1, <2>2
<1>4. Window * w >= 2 * Window
  BY <1>1, <1>3
<1>. QED
  BY <1>1, <1>2, <1>3, <1>4

\* A number on the wire.
LEMMA SeqRange == ASSUME NEW n \in Int PROVE Seq(n) \in 0 .. (Modulus - 1)
BY Sizes, Remainder DEF Seq

\* A slot of the bitmap.
LEMMA SlotRange == ASSUME NEW n \in Int PROVE Slot(n) \in 0 .. (Window - 1)
BY Sizes, Remainder DEF Slot

\* A slot can be told from the number on the wire: Window divides Modulus.
LEMMA SlotOfSeq == ASSUME NEW n \in Int PROVE Slot(Seq(n)) = Slot(n)
<1>1. PICK w \in Nat : Modulus = Window * w
  BY Sizes
<1>2. PICK q \in Int : n = (Modulus * q) + Seq(n)
  BY Sizes, Remainder DEF Seq
<1>3. PICK k \in Int : k = w * q
  OBVIOUS
<1>4. Modulus * q = Window * k
  <2>1. PICK v \in Nat : v = Window
    BY Sizes
  <2>. QED
    BY <1>1, <1>3, <2>1, Z3
<1>5. PICK s \in Int : s = Seq(n)
  BY SeqRange
<1>6. n = s + (Window * k)
  BY <1>2, <1>4, <1>5, Sizes
<1>7. n % Window = s % Window
  <2>1. \E t \in Int : n = s + (Window * t)
    BY <1>6
  <2>. QED
    BY <2>1, ModPlus, Sizes
<1>. QED
  BY <1>5, <1>7 DEF Slot

\* Numbers within one window have different slots.
LEMMA SlotsDiffer ==
  ASSUME NEW k \in Int, NEW n \in Int, -Window < k - n, k - n < Window, Slot(k) = Slot(n)
  PROVE  k = n
BY SameMod, Sizes DEF Slot

\* The slots that SlotsPassed clears are those of the numbers between.
LEMMA SlotsBetween ==
  ASSUME NEW m \in Int, NEW d \in Int, d < Window
  PROVE  SlotsPassed(Seq(m), d) = {Slot(m + i) : i \in 1 .. d}
<1>1. ASSUME NEW i \in 1 .. d PROVE Slot((Seq(m) + i) % Modulus) = Slot(m + i)
  <2>1. PICK q \in Int : m = (Modulus * q) + Seq(m)
    BY Sizes, Remainder DEF Seq
  <2>2. PICK s \in Int : s = Seq(m) + i
    BY SeqRange
  <2>3. PICK t \in Int : t = m + i
    OBVIOUS
  <2>4. t = s + (Modulus * q)
    BY <2>1, <2>2, <2>3, SeqRange, Sizes
  <2>5. Seq(t) = s % Modulus
    <3>1. \E k \in Int : t = s + (Modulus * k)
      BY <2>4
    <3>. QED
      BY <3>1, ModPlus, Sizes DEF Seq
  <2>. QED
    BY <2>2, <2>3, <2>5, SlotOfSeq
<1>2. SlotsPassed(Seq(m), d) = {Slot((Seq(m) + i) % Modulus) : i \in 1 .. d}
  BY Sizes DEF SlotsPassed
<1>. QED
  BY <1>1, <1>2

\* The distance on the wire is the true one, unless that is half a turn or more:
\* then the number seems to be a window behind, at least.
LEMMA DiffNear ==
  ASSUME NEW n \in Int, NEW m \in Int, -Window < n - m, n - m <= Modulus - Window
  PROVE  \/ Diff(Seq(n), Seq(m)) = n - m
         \/ n - m >= Window /\ Diff(Seq(n), Seq(m)) = n - m - Modulus
<1>1. PICK k \in Int : n - m = (Modulus * k) + (Seq(n) - Seq(m))
  BY ModDifference, Sizes DEF Seq
<1>2. PICK a \in Int : a = Seq(n) - Seq(m)
  BY SeqRange
<1>3. -Modulus < a /\ a < Modulus
  BY <1>2, SeqRange, Sizes
<1>4. PICK b \in Int : b = Modulus * k
  BY Sizes
<1>5. -2 * Modulus < b /\ b < 2 * Modulus
  BY <1>1, <1>2, <1>3, <1>4, Sizes
<1>6. k \in {-1, 0, 1}
  BY <1>4, <1>5, NearMultiple, Sizes
<1>7. b \in {0, Modulus, -Modulus}
  BY <1>4, <1>6, Sizes
<1>8. PICK half \in Nat : half = Modulus \div 2 /\ half >= Window /\ 2 * half <= Modulus /\ Modulus - 1 <= 2 * half
  BY Sizes
<1>9. Diff(Seq(n), Seq(m)) = IF a > half THEN a - Modulus ELSE IF a < -half THEN a + Modulus ELSE a
  BY <1>2, <1>8 DEF Diff
<1>10. n - m = b + a
  BY <1>1, <1>2, <1>4
<1>. QED
  BY <1>3, <1>7, <1>8, <1>9, <1>10, Sizes

-----------------------------------------------------------------------------
(* Types *)

\* What Recorded makes is a state.
LEMMA RecordedTyped ==
  ASSUME NEW s \in State \cup {NoState}, NEW n \in Int
  PROVE  (s # NoState \/ ~Duplicate(s, Seq(n))) => Recorded(s, Seq(n)) \in State
<1>1. Seq(n) \in 0 .. (Modulus - 1) /\ Slot(Seq(n)) \in 0 .. (Window - 1)
  BY SeqRange, SlotRange
<1>2. [maxSeq |-> Seq(n), bitmap |-> {Slot(Seq(n))}] \in State
  BY <1>1 DEF State
<1>3. ASSUME s # NoState
      PROVE  /\ [s EXCEPT !.bitmap = @ \cup {Slot(Seq(n))}] \in State
             /\ \A P : [maxSeq |-> Seq(n), bitmap |-> (s.bitmap \ P) \cup {Slot(Seq(n))}] \in State
  BY <1>1, <1>3 DEF State
<1>. QED
  BY <1>2, <1>3 DEF Recorded

\* No sequence number, slot or packet leaves its range.
THEOREM TypeCorrect == Spec => []TypeOK
<1>1. Init => TypeOK
  BY BoundsAreNatural DEF Init, TypeOK
<1>2. TypeOK /\ [Next]_vars => TypeOK'
  <2> SUFFICES ASSUME TypeOK, [Next]_vars PROVE TypeOK'
    OBVIOUS
  <2> USE BoundsAreNatural
  <2>1. ASSUME NEW n \in 0 .. (MaxSent - 1), Lookup(n) PROVE TypeOK'
    BY <2>1 DEF Lookup, TypeOK
  <2>2. CASE Judge
    <3>1. reader.n \in 0 .. (MaxSent - 1) /\ reader.n \in Int
      BY <2>2 DEF Judge, TypeOK, Idle
    <3>2. cs' \in State \cup {NoState}
      BY <2>2, <3>1, RecordedTyped DEF Judge, TypeOK
    <3>3. top' = (IF reader.n > top THEN reader.n ELSE top) /\ top' \in -1 .. (MaxSent - 1)
      BY <2>2, <3>1 DEF Judge, TypeOK
    <3>4. accepted' \subseteq accepted \cup {reader.n}
      BY <2>2 DEF Judge, InWindow
    <3>5. accepted' \subseteq 0 .. top'
      BY <3>1, <3>3, <3>4 DEF TypeOK
    <3>. QED
      BY <2>2, <3>2, <3>3, <3>5 DEF Judge, TypeOK
  <2>3. CASE JudgeOrphan
    <3>1. reader.n \in 0 .. (MaxSent - 1)
      BY <2>3 DEF JudgeOrphan, TypeOK, Idle
    <3>2. top' = (IF reader.n > top THEN reader.n ELSE top) /\ top' \in -1 .. (MaxSent - 1)
      BY <2>3, <3>1 DEF JudgeOrphan, TypeOK
    <3>3. accepted' \subseteq accepted
      BY <2>3 DEF JudgeOrphan, InWindow
    <3>4. accepted' \subseteq 0 .. top'
      BY <3>1, <3>2, <3>3 DEF TypeOK
    <3>. QED
      BY <2>3, <3>2, <3>4 DEF JudgeOrphan, TypeOK
  <2>4. CASE Reset
    BY <2>4 DEF Reset, TypeOK, Idle
  <2>5. CASE SenderRestart
    BY <2>5 DEF SenderRestart, TypeOK
  <2>6. CASE UNCHANGED vars
    BY <2>6 DEF vars, TypeOK
  <2>. QED
    BY <2>1, <2>2, <2>3, <2>4, <2>5, <2>6 DEF Next
<1>. QED
  BY <1>1, <1>2, PTL DEF Spec

-----------------------------------------------------------------------------
(* The invariant *)

\* The packet on its way is near the newest one.
ReaderNear == reader.pc = "judge" => top - MaxLag <= reader.n /\ reader.n <= top + MaxJump

\* A reader without a state has the map's state gone with it.
OrphanAlone == reader.pc = "orphan" => cs = NoState

NothingKept == cs = NoState => accepted = {}

\* A state from before the sender's restart takes all that comes for newer or
\* for older than its window.
OldLife == cs # NoState /\ accepted = {} => top = -1 /\ cs.maxSeq >= Window + MaxJump - 1

\* maxSeq is the newest packet accepted, on the wire.  Packets that a Reset made
\* the deduplicator forget may be newer, by MaxLag at most.
Newest ==
  accepted # {} =>
    /\ cs # NoState
    /\ \E m \in accepted : /\ m >= top - MaxLag
                           /\ cs.maxSeq = Seq(m)
                           /\ \A k \in accepted : k <= m /\ k > top - Window

WindowInv ==
  TypeOK /\ ReaderNear /\ OrphanAlone /\ NothingKept /\ OldLife /\ Newest /\ BitmapIsWindow

\* The first packet after a restart, which is less than MaxJump: the old state
\* takes it for a number a window behind, or for one ahead of everything.
LEMMA FirstOfNewLife ==
  ASSUME NEW s \in State, s.maxSeq >= Window + MaxJump - 1,
         NEW n \in Nat, n <= MaxJump - 1
  PROVE  /\ ~Duplicate(s, Seq(n))
         /\ Recorded(s, Seq(n)).maxSeq = Seq(n)
         /\ Slot(n) \in Recorded(s, Seq(n)).bitmap
         /\ \A k \in 0 .. n : k > n - Window /\ k # n => Slot(k) \notin Recorded(s, Seq(n)).bitmap
<1>1. PICK max \in 0 .. (Modulus - 1) : max = s.maxSeq
  BY DEF State
<1>2. n \in 0 .. (Modulus - 1)
  BY Sizes
<1>3. Seq(n) = n
  BY <1>2, ModSmall, Sizes DEF Seq
<1>4. PICK half \in Nat : half = Modulus \div 2 /\ half >= Window /\ 2 * half <= Modulus
  BY Sizes
<1>5. max >= Window + MaxJump - 1 /\ n - max <= -Window
  BY <1>1, Sizes
<1>6. PICK d \in Int : d = Diff(n, max) /\ (d = n - max \/ d = n - max + Modulus)
  BY <1>1, <1>2, <1>4, <1>5, Sizes DEF Diff
<1>7. d # 0 /\ (d < 0 => -d >= Window)
  BY <1>1, <1>2, <1>5, <1>6, Sizes
<1>8. s # NoState
  BY <1>1, <1>5 DEF NoState
<1>9. ASSUME NEW k \in 0 .. n, k > n - Window, k # n PROVE Slot(k) # Slot(n)
  BY <1>9, SlotsDiffer, Sizes
<1>10. ~Duplicate(s, Seq(n))
  BY <1>1, <1>3, <1>6, <1>7, Sizes DEF Duplicate
<1>11. Slot(Seq(n)) = Slot(n)
  BY <1>3
<1>12. CASE d < 0
  <2>1. Recorded(s, Seq(n)) = [maxSeq |-> Seq(n), bitmap |-> {Slot(n)}]
    BY <1>1, <1>3, <1>6, <1>7, <1>11, <1>12 DEF Recorded
  <2>. QED
    BY <1>9, <1>10, <2>1
<1>13. CASE d > 0
  <2>1. Recorded(s, Seq(n)) =
          [maxSeq |-> Seq(n), bitmap |-> (s.bitmap \ SlotsPassed(max, d)) \cup {Slot(n)}]
    BY <1>1, <1>3, <1>6, <1>8, <1>11, <1>13, Sizes DEF Recorded
  <2>2. ASSUME NEW k \in 0 .. n PROVE Slot(k) \in SlotsPassed(max, d)
    <3>1. CASE d >= Window
      BY <3>1, SlotRange DEF SlotsPassed
    <3>2. CASE d < Window
      <4>1. PICK i \in 1 .. d : i = k + Modulus - max
        BY <1>1, <1>2, <1>5, <1>6, <1>13, Sizes
      <4>2. (max + i) % Modulus = k
        <5>1. PICK x \in Int : x = k + Modulus /\ x = k + (Modulus * 1)
          BY Sizes
        <5>2. x % Modulus = k % Modulus
          <6>1. \E q \in Int : x = k + (Modulus * q)
            BY <5>1
          <6>2. k \in Int /\ Modulus \in Nat \ {0}
            BY Sizes
          <6>. QED
            BY <6>1, <6>2, ModPlus
        <5>3. k % Modulus = k
          BY <1>2, ModSmall, Sizes
        <5>. QED
          BY <4>1, <5>1, <5>2, <5>3, <1>1, Sizes
      <4>3. SlotsPassed(max, d) = {Slot((max + j) % Modulus) : j \in 1 .. d}
        BY <1>6, <3>2, Sizes DEF SlotsPassed
      <4>. QED
        BY <4>1, <4>2, <4>3
    <3>. QED
      BY <3>1, <3>2, <1>6, Sizes
  <2>. QED
    BY <1>9, <1>10, <2>1, <2>2
<1>. QED
  BY <1>7, <1>12, <1>13

\* A packet near the newest one m of a state whose bitmap is the window up to top:
\* it is a duplicate if and only if it is in A, and the bitmap is the window again.
LEMMA NextOfLife ==
  ASSUME NEW s \in State, NEW A \in SUBSET Nat, NEW t \in Nat, NEW m \in A, NEW n \in Nat,
         s.maxSeq = Seq(m), m >= t - MaxLag, m <= t,
         \A k \in A : k <= m /\ k > t - Window,
         \A k \in 0 .. t : k > t - Window => (k \in A <=> Slot(k) \in s.bitmap),
         n >= t - MaxLag, n <= t + MaxJump
  PROVE  /\ Duplicate(s, Seq(n)) <=> n \in A
         /\ n \notin A =>
              LET top1 == IF n > t THEN n ELSE t
                  r    == Recorded(s, Seq(n))
              IN  /\ r.maxSeq = IF n > m THEN Seq(n) ELSE Seq(m)
                  /\ \A k \in 0 .. top1 : k > top1 - Window =>
                       ((k \in A \/ k = n) <=> Slot(k) \in r.bitmap)
<1>1. -Window < n - m /\ n - m <= Modulus - Window
  BY Sizes
<1>2. PICK d \in Int : d = Diff(Seq(n), Seq(m))
  BY SeqRange, Sizes DEF Diff
<1>3. \/ d = n - m
      \/ n - m >= Window /\ d = n - m - Modulus
  BY <1>1, <1>2, DiffNear
<1>4. s # NoState
  BY DEF State, NoState
<1>5. Slot(Seq(n)) = Slot(n)
  BY SlotOfSeq
<1>6. ASSUME NEW k \in Int, -Window < k - n, k - n < Window, Slot(k) = Slot(n) PROVE k = n
  BY <1>6, SlotsDiffer
<1>7. CASE d = n - m /\ d = 0
  <2>1. n \in A /\ Duplicate(s, Seq(n))
    BY <1>2, <1>4, <1>7 DEF Duplicate
  <2>. QED
    BY <2>1
<1>8. CASE d = n - m /\ d < 0
  <2>1. n < m /\ n > t - Window /\ n <= t /\ -d < Window
    BY <1>1, <1>8, Sizes
  <2>2. Duplicate(s, Seq(n)) <=> Slot(n) \in s.bitmap
    BY <1>2, <1>4, <1>5, <1>8, <2>1 DEF Duplicate
  <2>3. Slot(n) \in s.bitmap <=> n \in A
    BY <2>1
  <2>4. Recorded(s, Seq(n)) = [s EXCEPT !.bitmap = @ \cup {Slot(n)}]
    BY <1>2, <1>4, <1>5, <1>8, <2>1, Sizes DEF Recorded
  <2>5. Recorded(s, Seq(n)).maxSeq = Seq(m) /\ Recorded(s, Seq(n)).bitmap = s.bitmap \cup {Slot(n)}
    BY <2>4 DEF State
  <2>6. \A k \in 0 .. t : k > t - Window => -Window < k - n /\ k - n < Window
    BY <2>1, Sizes
  <2>7. \A k \in 0 .. t : k > t - Window => (Slot(k) = Slot(n) <=> k = n)
    BY <1>6, <2>6
  <2>. QED
    BY <2>1, <2>2, <2>3, <2>5, <2>7
<1>9. CASE d = n - m /\ d > 0
  <2> DEFINE top1 == IF n > t THEN n ELSE t
  <2>1. n > m /\ n \notin A
    BY <1>9
  <2>2. ~Duplicate(s, Seq(n))
    BY <1>2, <1>9 DEF Duplicate
  <2>3. Recorded(s, Seq(n)) = [maxSeq |-> Seq(n), bitmap |-> (s.bitmap \ SlotsPassed(Seq(m), d)) \cup {Slot(n)}]
    BY <1>2, <1>4, <1>5, <1>9, Sizes DEF Recorded
  <2>4. ASSUME NEW k \in 0 .. top1, k > top1 - Window
        PROVE  (k \in A \/ k = n) <=> Slot(k) \in (s.bitmap \ SlotsPassed(Seq(m), d)) \cup {Slot(n)}
    <3>1. Slot(k) = Slot(n) <=> k = n
      BY <1>6, <2>4, Sizes
    <3>2. ASSUME k # n, k > m PROVE k \notin A /\ (Slot(k) \in SlotsPassed(Seq(m), d) \/ Slot(k) \notin s.bitmap)
      <4>1. k \in Int /\ k \notin A
        BY <2>4, <3>2
      <4>2. CASE k > n
        <5>1. k \in 0 .. t /\ k > t - Window
          BY <2>4, <4>2
        <5>. QED
          BY <4>1, <5>1
      <4>3. CASE k < n /\ d >= Window
        <5>1. SlotsPassed(Seq(m), d) = 0 .. (Window - 1)
          BY <4>3 DEF SlotsPassed
        <5>. QED
          BY <4>1, <5>1, SlotRange
      <4>4. CASE k < n /\ d < Window
        <5>1. k - m \in 1 .. d /\ k = m + (k - m)
          BY <1>9, <3>2, <4>4
        <5>. QED
          BY <3>2, <4>4, <5>1, SlotsBetween
      <4>. QED
        BY <2>4, <3>2, <4>2, <4>3, <4>4, <4>1, Sizes
    <3>3. ASSUME k <= m PROVE Slot(k) \notin SlotsPassed(Seq(m), d) /\ (k \in A <=> Slot(k) \in s.bitmap)
      <4>1. k \in 0 .. t /\ k > t - Window
        BY <2>4, <3>3, Sizes
      <4>2. d < Window
        BY <1>9, <2>4, <3>3, Sizes
      <4>3. ASSUME NEW i \in 1 .. d, Slot(k) = Slot(m + i) PROVE FALSE
        <5>1. -Window < k - (m + i) /\ k - (m + i) < Window /\ m + i \in Int
          BY <1>9, <2>4, <3>3, Sizes
        <5>2. k = m + i
          BY <4>3, <5>1, SlotsDiffer
        <5>. QED
          BY <3>3, <5>2
      <4>4. Slot(k) \notin SlotsPassed(Seq(m), d)
        BY <4>2, <4>3, SlotsBetween
      <4>. QED
        BY <4>1, <4>4
    <3>. QED
      BY <3>1, <3>2, <3>3
  <2>. QED
    BY <2>1, <2>2, <2>3, <2>4
<1>10. CASE n - m >= Window /\ d = n - m - Modulus
  <2>1. n > t /\ n \notin A /\ d < 0 /\ -d >= Window
    BY <1>1, <1>10, Sizes
  <2>2. ~Duplicate(s, Seq(n))
    BY <1>2, <2>1, Sizes DEF Duplicate
  <2>3. Recorded(s, Seq(n)) = [maxSeq |-> Seq(n), bitmap |-> {Slot(n)}]
    BY <1>2, <1>5, <2>1 DEF Recorded
  <2>4. ASSUME NEW k \in 0 .. n, k > n - Window PROVE (k \in A \/ k = n) <=> Slot(k) = Slot(n)
    BY <1>6, <1>10, <2>4, Sizes
  <2>5. (IF n > t THEN n ELSE t) = n /\ n > m
    BY <2>1, <1>10
  <2>. QED
    BY <2>1, <2>2, <2>3, <2>4, <2>5
<1>. QED
  BY <1>3, <1>7, <1>8, <1>9, <1>10

\* What NextOfLife needs to know of the state and the window.
LEMMA InLife ==
  ASSUME WindowInv, accepted # {}
  PROVE  /\ cs \in State /\ accepted \in SUBSET Nat /\ top \in Nat
         /\ \E m \in accepted : /\ cs.maxSeq = Seq(m) /\ m >= top - MaxLag /\ m <= top
                                /\ \A k \in accepted : k <= m /\ k > top - Window
         /\ \A k \in 0 .. top : k > top - Window => (k \in accepted <=> Slot(k) \in cs.bitmap)
<1>1. cs \in State /\ top \in Nat /\ accepted \subseteq 0 .. top
  BY DEF WindowInv, TypeOK, Newest
<1>2. \A k \in 0 .. top : Slot(Seq(k)) = Slot(k)
  BY <1>1, SlotOfSeq
<1>3. \A k \in 0 .. top : k > top - Window => (k \in accepted <=> Slot(k) \in cs.bitmap)
  BY <1>2 DEF WindowInv, BitmapIsWindow
<1>4. cs # NoState
      /\ \E m \in accepted : /\ m >= top - MaxLag
                             /\ cs.maxSeq = Seq(m)
                             /\ \A k \in accepted : k <= m /\ k > top - Window
  BY DEF WindowInv, Newest
<1>5. PICK m \in accepted : /\ m >= top - MaxLag
                            /\ cs.maxSeq = Seq(m)
                            /\ \A k \in accepted : k <= m /\ k > top - Window
  BY <1>4
<1>6. m <= top /\ accepted \in SUBSET Nat /\ cs \in State
  BY <1>1, <1>4
<1>. QED
  BY <1>1, <1>3, <1>5, <1>6

\* The verdict of IsDuplicate on the packet that the reader holds.
LEMMA Verdict == WindowInv => JudgesExactly
<1> SUFFICES ASSUME WindowInv, reader.pc = "judge"
             PROVE  Duplicate(cs, Seq(reader.n)) <=> reader.n \in accepted
  BY DEF JudgesExactly
<1>1. reader.n \in Nat /\ top - MaxLag <= reader.n /\ reader.n <= top + MaxJump
  BY DEF WindowInv, TypeOK, ReaderNear, Idle
<1>2. CASE cs = NoState
  BY <1>2 DEF WindowInv, NothingKept, Duplicate
<1>3. CASE cs # NoState /\ accepted = {}
  <2>1. cs \in State /\ cs.maxSeq >= Window + MaxJump - 1 /\ reader.n <= MaxJump - 1
    BY <1>1, <1>3, Sizes DEF WindowInv, TypeOK, OldLife
  <2>. QED
    BY <1>1, <1>3, <2>1, FirstOfNewLife
<1>4. CASE accepted # {}
  BY <1>1, <1>4, InLife, NextOfLife
<1>. QED
  BY <1>2, <1>3, <1>4

\* A verdict puts the packet into the set and its slot into the bitmap.
LEMMA StepJudge == WindowInv /\ Judge => OldLife' /\ Newest' /\ BitmapIsWindow' /\ NothingKept'
<1> SUFFICES ASSUME WindowInv, Judge PROVE OldLife' /\ Newest' /\ BitmapIsWindow' /\ NothingKept'
  OBVIOUS
<1>1. PICK n \in Nat : n = reader.n /\ top - MaxLag <= n /\ n <= top + MaxJump /\ n <= MaxSent - 1
  BY DEF WindowInv, TypeOK, ReaderNear, Idle, Judge
<1>2. top \in Int /\ top >= -1 /\ accepted \subseteq 0 .. top
  BY DEF WindowInv, TypeOK
<1>3. Duplicate(cs, Seq(n)) <=> n \in accepted
  BY <1>1, Verdict DEF Judge, JudgesExactly
<1>4. PICK t \in Nat : t = IF n > top THEN n ELSE top
  BY <1>2
<1>5. top' = t /\ n > t - Window /\ n >= t - MaxLag /\ n <= t /\ top <= t
  BY <1>1, <1>2, <1>4, Sizes DEF Judge
<1>6. accepted' = InWindow(accepted \cup {n}, t)
  BY <1>1, <1>3, <1>4 DEF Judge
<1>7. n \in accepted' /\ accepted' \subseteq Nat
  <2>1. accepted \cup {n} \subseteq Nat
    BY <1>2
  <2>. QED
    BY <1>5, <1>6, <2>1 DEF InWindow
<1>8. \A k \in 0 .. t : Slot(Seq(k)) = Slot(k)
  BY SlotOfSeq
<1>9. \A k \in accepted' : k > t - Window
  BY <1>6 DEF InWindow
<1>10. Seq(n) \in 0 .. (Modulus - 1) /\ NoState.maxSeq = -1
  BY SeqRange DEF NoState
<1>11. ASSUME n \notin accepted,
              NEW m \in accepted', m >= t - MaxLag, cs'.maxSeq = Seq(m),
              \A k \in accepted' : k <= m,
              \A k \in 0 .. t : k > t - Window => (k \in accepted \/ k = n <=> Slot(k) \in cs'.bitmap)
       PROVE  OldLife' /\ Newest' /\ BitmapIsWindow' /\ NothingKept'
  <2>1. Seq(m) \in 0 .. (Modulus - 1)
    BY <1>7, <1>11, SeqRange
  <2>2. cs' # NoState
    BY <1>10, <1>11, <2>1
  <2>3. Newest'
    BY <1>5, <1>9, <1>11, <2>2 DEF Newest
  <2>4. \A k \in 0 .. t : k > t - Window => (k \in accepted' <=> k \in accepted \/ k = n)
    BY <1>6 DEF InWindow
  <2>5. BitmapIsWindow'
    BY <1>5, <1>8, <1>11, <2>4 DEF BitmapIsWindow
  <2>. QED
    BY <1>7, <2>2, <2>3, <2>5 DEF OldLife, NothingKept
<1>12. CASE accepted = {}
  <2>1. accepted' = {n} /\ n \notin accepted
    BY <1>5, <1>6, <1>12 DEF InWindow
  <2>2. cs' = Recorded(cs, Seq(n))
    BY <1>1, <1>3, <2>1 DEF Judge
  <2>3. CASE cs = NoState
    <3>1. cs' = [maxSeq |-> Seq(n), bitmap |-> {Slot(n)}]
      BY <2>2, <2>3, SlotOfSeq DEF Recorded
    <3>2. \A k \in 0 .. t : k > t - Window /\ Slot(k) = Slot(n) => k = n
      <4>1. \A k \in 0 .. t : k > t - Window => -Window < k - n /\ k - n < Window
        BY <1>5, Sizes
      <4>. QED
        BY <4>1, SlotsDiffer
    <3>. QED
      BY <1>5, <1>11, <1>12, <2>1, <3>1, <3>2
  <2>4. CASE cs # NoState
    <3>1. cs \in State /\ cs.maxSeq >= Window + MaxJump - 1 /\ top = -1
      BY <1>12, <2>4 DEF WindowInv, TypeOK, OldLife
    <3>2. n <= MaxJump - 1 /\ t = n
      BY <1>1, <1>4, <3>1, Sizes
    <3>3. /\ cs'.maxSeq = Seq(n) /\ Slot(n) \in cs'.bitmap
          /\ \A k \in 0 .. n : k > n - Window /\ k # n => Slot(k) \notin cs'.bitmap
      BY <2>2, <3>1, <3>2, FirstOfNewLife
    <3>. QED
      BY <1>5, <1>11, <1>12, <2>1, <3>2, <3>3
  <2>. QED
    BY <2>3, <2>4
<1>13. CASE accepted # {}
  <2>1. /\ cs \in State /\ accepted \in SUBSET Nat /\ top \in Nat
        /\ \A k \in 0 .. top : k > top - Window => (k \in accepted <=> Slot(k) \in cs.bitmap)
    BY <1>13, InLife
  <2>2. PICK m \in accepted : /\ cs.maxSeq = Seq(m) /\ m >= top - MaxLag /\ m <= top
                              /\ \A k \in accepted : k <= m /\ k > top - Window
    BY <1>13, InLife
  <2>3. CASE n \in accepted
    <3>1. t = top /\ accepted' = accepted
      <4>1. t = top
        BY <1>2, <1>4, <2>3
      <4>2. accepted \cup {n} = accepted /\ \A k \in accepted : k > t - Window
        BY <2>2, <2>3, <4>1
      <4>. QED
        BY <1>6, <4>1, <4>2 DEF InWindow
    <3>2. cs' = cs
      BY <1>1, <1>3, <2>3 DEF Judge
    <3>. QED
      BY <1>5, <3>1, <3>2 DEF WindowInv, OldLife, Newest, BitmapIsWindow, NothingKept
  <2>4. CASE n \notin accepted
    <3>1. cs' = Recorded(cs, Seq(n))
      BY <1>1, <1>3, <2>4 DEF Judge
    <3>2. /\ cs'.maxSeq = IF n > m THEN Seq(n) ELSE Seq(m)
          /\ \A k \in 0 .. t : k > t - Window => ((k \in accepted \/ k = n) <=> Slot(k) \in cs'.bitmap)
      BY <1>1, <1>4, <2>1, <2>2, <2>4, <3>1, NextOfLife
    <3>3. CASE n > m
      <4>1. \A k \in accepted' : k <= n
        BY <1>6, <2>1, <2>2, <3>3 DEF InWindow
      <4>. QED
        BY <1>5, <1>7, <1>11, <2>4, <3>2, <3>3, <4>1
    <3>4. CASE ~(n > m)
      <4>1. t = top /\ m \in accepted' /\ m >= t - MaxLag
        BY <1>4, <1>6, <2>1, <2>2, <3>4 DEF InWindow
      <4>2. \A k \in accepted' : k <= m
        BY <1>6, <2>1, <2>2, <3>4 DEF InWindow
      <4>. QED
        BY <1>11, <2>4, <3>2, <3>4, <4>1, <4>2
    <3>. QED
      BY <3>3, <3>4
  <2>. QED
    BY <2>3, <2>4
<1>. QED
  BY <1>12, <1>13

\* No sender has started again before Window numbers were used.
SlowRestarts == QuickRestart => restarts = 0

\* Every step keeps the invariant: lookups, verdicts, resets in between, slow restarts.
LEMMA StepWindow ==
  WindowInv /\ TypeOK' /\ SlowRestarts' /\ [Next]_vars => WindowInv'
<1> SUFFICES ASSUME WindowInv, TypeOK', SlowRestarts', [Next]_vars PROVE WindowInv'
  OBVIOUS
<1> USE DEF ReaderNear, OrphanAlone, NothingKept
<1>1. ASSUME NEW n \in 0 .. (MaxSent - 1), Lookup(n) PROVE WindowInv'
  BY <1>1 DEF Lookup, WindowInv, OldLife, Newest, BitmapIsWindow
<1>2. CASE Judge
  <2>1. ReaderNear' /\ OrphanAlone'
    BY <1>2 DEF Judge, Idle
  <2>. QED
    BY <1>2, <2>1, StepJudge DEF WindowInv
<1>3. CASE JudgeOrphan
  <2>1. cs = NoState /\ accepted = {}
    BY <1>3 DEF JudgeOrphan, WindowInv
  <2>2. accepted' = {} /\ cs' = NoState /\ reader' = Idle
    BY <1>3, <2>1 DEF JudgeOrphan, InWindow
  <2>. QED
    BY <2>2 DEF WindowInv, OldLife, Newest, BitmapIsWindow, Idle
<1>4. CASE Reset
  BY <1>4 DEF Reset, WindowInv, TypeOK, OldLife, Newest, BitmapIsWindow
<1>5. CASE SenderRestart
  <2>1. ~QuickRestart
    BY <1>5 DEF SenderRestart, SlowRestarts, WindowInv, TypeOK
  <2>. QED
    BY <1>5, <2>1 DEF SenderRestart, WindowInv, OldLife, Newest, BitmapIsWindow
<1>6. CASE UNCHANGED vars
  BY <1>6 DEF vars, WindowInv, OldLife, Newest, BitmapIsWindow
<1>. QED
  BY <1>1, <1>2, <1>3, <1>4, <1>5, <1>6 DEF Next

\* Once a sender has started again too quickly, it stays so.
LEMMA StepRestarts == TypeOK /\ SlowRestarts' /\ [Next]_vars => SlowRestarts
<1> SUFFICES ASSUME TypeOK, SlowRestarts', [Next]_vars PROVE SlowRestarts
  OBVIOUS
<1>1. restarts' \in {restarts, restarts + 1} /\ restarts \in Nat
  BY DEF TypeOK, Next, Lookup, Judge, JudgeOrphan, Reset, SenderRestart, vars
<1>. QED
  BY <1>1 DEF SlowRestarts

\* Until then WindowInv is an invariant.
LEMMA WindowInvCorrect == Spec => [](SlowRestarts => WindowInv)
<1>1. Init => WindowInv
  <2>1. Init => TypeOK
    BY BoundsAreNatural DEF Init, TypeOK
  <2>. QED
    BY <2>1
      DEF Init, WindowInv, ReaderNear, OrphanAlone, NothingKept, OldLife, Newest, BitmapIsWindow, Idle
<1>2. TypeOK /\ TypeOK' /\ (SlowRestarts => WindowInv) /\ [Next]_vars => (SlowRestarts => WindowInv)'
  BY StepWindow, StepRestarts
<1>. QED
  BY <1>1, <1>2, TypeCorrect, PTL DEF Spec

\* IsDuplicate drops a packet exactly when it accepted the same one since the last
\* Reset, whatever the size of the window and of the numbers: if the numbers wrap
\* after whole windows, copies are late by less than a window, the newest packet is
\* at most Modulus - Window - MaxLag ahead, and no sender has started again before it
\* used more numbers than a window and a jump.
THEOREM JudgedExactly == Spec => [](SlowRestarts => JudgesExactly)
BY WindowInvCorrect, Verdict, PTL

\* Under the same conditions the bitmap is the window behind the newest number.
THEOREM BitmapCorrect == Spec => [](SlowRestarts => BitmapIsWindow)
<1>1. WindowInv => BitmapIsWindow
  BY DEF WindowInv
<1>. QED
  BY <1>1, WindowInvCorrect, PTL
=============================================================================
