-------------------------------- MODULE Dedup --------------------------------
(***************************************************************************)
(* The deduplicator (protocol/dedup.go) for the packets of one sender: a   *)
(* bitmap of Window slots behind the highest sequence number, in numbers   *)
(* that wrap around at Modulus (2^32 in the code).                         *)
(*                                                                         *)
(* IsDuplicate looks the sender's state up, then judges under the state's  *)
(* own lock; Reset, called by another goroutine, can fall in between.  A   *)
(* packet is the n-th of its sender; on the wire it is n % Modulus.        *)
(***************************************************************************)
EXTENDS Integers

CONSTANTS
  Window,        \* windowSize
  Modulus,       \* how many sequence numbers there are
  MaxSent,       \* bound: packets a sender numbers before the model stops
  MaxLag,        \* a copy arrives at most this far behind the newest one
  MaxJump,       \* the newest one is at most this far ahead of the one before
  MaxRestarts,   \* bound: how often the sender starts again at number 0
  QuickRestart   \* whether it may do so before Window numbers were used

ASSUME WindowDividesModulus == Window \in Nat \ {0} /\ Modulus \in Nat \ {0} /\ Modulus % Window = 0
ASSUME CopiesAreNear == MaxLag \in 0 .. (Window - 1) /\ MaxJump \in 1 .. (Modulus - Window - MaxLag)
ASSUME BoundsAreNatural == MaxSent \in Nat /\ MaxRestarts \in Nat /\ QuickRestart \in BOOLEAN

VARIABLES
  cs,         \* the state in the map, or NoState (none, or not inited)
  reader,     \* the goroutine in IsDuplicate, and the packet it judges
  top,        \* the newest packet that arrived from the running sender, or -1
  accepted,   \* those of the last Window packets that were accepted
  restarts    \* how often the sender has started again

vars == <<cs, reader, top, accepted, restarts>>

NoState == [maxSeq |-> -1, bitmap |-> {}]
State   == [maxSeq : 0 .. (Modulus - 1), bitmap : SUBSET (0 .. (Window - 1))]
Idle    == [pc |-> "idle", n |-> 0]

\* The reader holds a pointer to the map's state while pc is "judge", and to one
\* that Reset took out of the map while pc is "orphan".
TypeOK ==
  /\ cs \in State \cup {NoState}
  /\ reader \in {Idle} \cup [pc : {"judge", "orphan"}, n : 0 .. (MaxSent - 1)]
  /\ top \in -1 .. (MaxSent - 1)
  /\ accepted \subseteq 0 .. top
  /\ restarts \in 0 .. MaxRestarts

Init ==
  /\ cs = NoState
  /\ reader = Idle
  /\ top = -1
  /\ accepted = {}
  /\ restarts = 0

-----------------------------------------------------------------------------
(* IsDuplicate *)

\* Mutant: numbers are compared as they are.
DiffWithoutWrap(seq, max) == seq - max

\* The signed distance of two numbers around the circle.
Diff(seq, max) ==
  LET d == seq - max
      half == Modulus \div 2
  IN  IF d > half THEN d - Modulus ELSE IF d < -half THEN d + Modulus ELSE d

\* Mutant: the bit's index is not reduced.
SlotUnreduced(seq) == seq

Slot(seq) == seq % Window

\* Mutant: a jump past the window clears nothing.
SlotsPassedNearby(max, shift) ==
  IF shift >= Window THEN {} ELSE {Slot((max + i) % Modulus) : i \in 1 .. shift}

\* The slots that a new maximum, shift ahead of max, takes over.
SlotsPassed(max, shift) ==
  IF shift >= Window THEN 0 .. (Window - 1)
  ELSE {Slot((max + i) % Modulus) : i \in 1 .. shift}

Duplicate(s, seq) ==
  LET d == Diff(seq, s.maxSeq)
  IN  /\ s # NoState
      /\ d = 0 \/ (d < 0 /\ -d < Window /\ Slot(seq) \in s.bitmap)

\* The state after seq was judged: the first packet, a new maximum, a number at
\* least a window behind ("sender restart: reset and accept"), one in the window.
Recorded(s, seq) ==
  LET d == Diff(seq, s.maxSeq)
      fresh == [maxSeq |-> seq, bitmap |-> {Slot(seq)}]
  IN  IF s = NoState \/ -d >= Window THEN fresh
      ELSE IF d > 0
           THEN [maxSeq |-> seq, bitmap |-> (s.bitmap \ SlotsPassed(s.maxSeq, d)) \cup {Slot(seq)}]
           ELSE [s EXCEPT !.bitmap = @ \cup {Slot(seq)}]

Seq(n) == n % Modulus

InWindow(S, t) == {n \in S : n > t - Window}

\* A copy arrives, late by at most MaxLag; IsDuplicate finds the sender's state.
Lookup(n) ==
  /\ reader.pc = "idle"
  /\ n >= top - MaxLag
  /\ n <= top + MaxJump
  /\ reader' = [pc |-> "judge", n |-> n]
  /\ UNCHANGED <<cs, top, accepted, restarts>>

\* The verdict, under the lock of the state found.
Judge ==
  /\ reader.pc = "judge"
  /\ LET n == reader.n
         newest == IF n > top THEN n ELSE top
     IN  /\ cs' = IF Duplicate(cs, Seq(n)) THEN cs ELSE Recorded(cs, Seq(n))
         /\ top' = newest
         /\ accepted' = InWindow(IF Duplicate(cs, Seq(n)) THEN accepted ELSE accepted \cup {n}, newest)
  /\ reader' = Idle
  /\ UNCHANGED restarts

\* The same with a state that Reset has taken away: whatever it records is lost,
\* and the verdict is one from before the Reset.
JudgeOrphan ==
  /\ reader.pc = "orphan"
  /\ top' = IF reader.n > top THEN reader.n ELSE top
  /\ accepted' = InWindow(accepted, top')
  /\ reader' = Idle
  /\ UNCHANGED <<cs, restarts>>

-----------------------------------------------------------------------------
(* Reset and the sender *)

\* The map forgets the sender (session removed): everything counts as new.
Reset ==
  /\ cs # NoState \/ reader.pc = "judge"
  /\ cs' = NoState
  /\ accepted' = {}
  /\ reader' = IF reader.pc = "judge" THEN [reader EXCEPT !.pc = "orphan"] ELSE reader
  /\ UNCHANGED <<top, restarts>>

\* The sender starts again at 0, its old copies have drained.  Unless QuickRestart
\* it has used so many numbers that whatever comes first is a window behind.
SenderRestart ==
  /\ reader.pc = "idle"
  /\ restarts < MaxRestarts
  /\ QuickRestart \/ cs = NoState \/ cs.maxSeq >= Window + MaxJump - 1
  /\ restarts' = restarts + 1
  /\ top' = -1
  /\ accepted' = {}
  /\ UNCHANGED <<cs, reader>>

Next ==
  \/ \E n \in 0 .. (MaxSent - 1) : Lookup(n)
  \/ Judge
  \/ JudgeOrphan
  \/ Reset
  \/ SenderRestart

Spec == Init /\ [][Next]_vars

-----------------------------------------------------------------------------
(* Properties *)

\* A packet is dropped exactly when it was accepted since the last Reset: no copy
\* is delivered twice and no first copy is lost, across the wrap of the numbers,
\* jumps longer than the window and resets between the lookup and the verdict.
JudgesExactly ==
  reader.pc = "judge" => (Duplicate(cs, Seq(reader.n)) <=> reader.n \in accepted)

\* Once the running sender has been heard, the bitmap is the window behind the
\* newest number, slot by slot: nothing of an earlier lap or life is left in it.
BitmapIsWindow ==
  accepted # {} =>
    \A n \in 0 .. top : n > top - Window => (n \in accepted <=> Slot(Seq(n)) \in cs.bitmap)

\* "Sender restart: reset and accept" (dedup.go:86): a packet of a sender that
\* started again, received for the first time, is not taken for a duplicate.
RestartAccepted ==
  reader.pc = "judge" /\ restarts > 0 /\ reader.n \notin accepted
    => ~Duplicate(cs, Seq(reader.n))
=============================================================================
