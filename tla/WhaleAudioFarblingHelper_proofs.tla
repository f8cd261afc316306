--------------------------- MODULE WhaleAudioFarblingHelper_proofs ---------------------------
(***************************************************************************)
(* For words of every width from three bits up, the 64 of the code among   *)
(* them: the register of the sampling calls stays a word and is never      *)
(* nought, and what is indexed with it stays inside the canvas.  For every *)
(* ring, window, signal and way of the audio thread, round the ring and    *)
(* through the window too: a call reads the slots of its window and keeps  *)
(* the order of their samples and, at the maximum level, reads nothing.    *)
(***************************************************************************)
EXTENDS WhaleAudioFarblingHelper, TLAPS, SequenceTheorems, WellFoundedInduction

\* What the operators on words make of each bit.
LEMMA OperatorBits ==
  ASSUME NEW i \in Bit
  PROVE  /\ ~zero[i]
         /\ \A u : Not(u)[i] <=> ~u[i]
         /\ \A u, n : Shl(u, n)[i] <=> (i >= n /\ u[i - n])
         /\ \A u, n : Shr(u, n)[i] <=> (i + n < Width /\ u[i + n])
         /\ \A u, w : And(u, w)[i] <=> (u[i] /\ w[i])
         /\ \A u, w : Or(u, w)[i] <=> (u[i] \/ w[i])
  <1>1. ~zero[i] /\ \A u : Not(u)[i] <=> ~u[i]
    BY DEF zero, Not
  <1>2. \A u, n : Shl(u, n)[i] <=> (i >= n /\ u[i - n])
    BY Zenon DEF Shl
  <1>3. \A u, n : Shr(u, n)[i] <=> (i + n < Width /\ u[i + n])
    BY Zenon DEF Shr
  <1>4. /\ \A u, w : And(u, w)[i] <=> (u[i] /\ w[i])
        /\ \A u, w : Or(u, w)[i] <=> (u[i] \/ w[i])
    BY Zenon DEF And, Or
  <1> QED BY <1>1, <1>2, <1>3, <1>4

\* The mask leaves the two highest bits.
LEMMA MaskBit ==
  ASSUME NEW i \in Bit
  PROVE  mask[i] <=> i >= Width - 2
  <1>1. ASSUME NEW j \in Bit
        PROVE  Not(Shl(Not(zero), Width - 1))[j] <=> j < Width - 1
    <2>1. Not(Shl(Not(zero), Width - 1))[j] <=>
            ~(j >= Width - 1 /\ Not(zero)[j - (Width - 1)])
      BY OperatorBits
    <2>2. CASE j >= Width - 1
      <3>1. j - (Width - 1) \in Bit
        BY <2>2, WidthAssumption DEF Bit
      <3>2. Not(zero)[j - (Width - 1)]
        BY <3>1, OperatorBits
      <3> QED BY <2>1, <2>2, <3>2, WidthAssumption DEF Bit
    <2>3. CASE ~(j >= Width - 1)
      BY <2>1, <2>3, WidthAssumption DEF Bit
    <2> QED BY <2>2, <2>3
  <1>2. mask[i] <=>
          i >= Width - 2 /\ Not(Shl(Not(zero), Width - 1))[i - (Width - 2)]
    BY OperatorBits DEF mask
  <1>3. CASE i >= Width - 2
    <2>1. i - (Width - 2) \in Bit /\ i - (Width - 2) < Width - 1
      BY <1>3, WidthAssumption DEF Bit
    <2> QED BY <1>1, <1>2, <1>3, <2>1
  <1> QED BY <1>2, <1>3

\* A bit of the next word: the one above it or, of the two highest, the
\* difference of two of the lowest.
LEMMA NextBit ==
  ASSUME NEW u \in Word, NEW i \in Bit
  PROVE  /\ i + 1 < Width /\ u[i + 1] => lfsr_next(u)[i]
         /\ i = Width - 2 /\ u[0] /\ ~u[1] => lfsr_next(u)[i]
  <1> DEFINE x == Xor(Shl(u, Width - 2), Shl(u, Width - 3))
  <1>1. lfsr_next(u)[i] <=> (i + 1 < Width /\ u[i + 1]) \/ (x[i] /\ mask[i])
    BY OperatorBits DEF lfsr_next
  <1>2. ASSUME i = Width - 2, u[0], ~u[1] PROVE x[i] /\ mask[i]
    <2>1. i >= Width - 2 /\ i - (Width - 2) = 0 /\ i - (Width - 3) = 1
      BY <1>2, WidthAssumption
    <2>2. Shl(u, Width - 2)[i] /\ ~Shl(u, Width - 3)[i]
      BY <1>2, <2>1, OperatorBits
    <2>3. x[i] = (Shl(u, Width - 2)[i] # Shl(u, Width - 3)[i])
      BY Zenon DEF x, Xor
    <2> QED BY <2>1, <2>2, <2>3, MaskBit
  <1> QED BY <1>1, <1>2

\* A word is followed by a word.
LEMMA NextWord == \A u \in Word : lfsr_next(u) \in Word
  BY DEF lfsr_next, Or, Word

\* A true bit moves down or, from the lowest place, comes in at the top.
LEMMA NextIsNotZero ==
  ASSUME NEW u \in Word, u # zero
  PROVE  lfsr_next(u) # zero
  <1>1. PICK i \in Bit : u[i]
    BY DEF Word, zero
  <1>2. \A j \in Bit : ~zero[j]
    BY DEF zero
  <1>3. CASE i > 0
    <2>1. i - 1 \in Bit /\ (i - 1) + 1 = i /\ i < Width
      BY <1>3, WidthAssumption DEF Bit
    <2>2. lfsr_next(u)[i - 1]
      BY <1>1, <2>1, NextBit
    <2> QED BY <1>2, <2>1, <2>2
  <1>4. CASE i = 0 /\ ~u[1]
    <2>1. Width - 2 \in Bit
      BY WidthAssumption DEF Bit
    <2>2. lfsr_next(u)[Width - 2]
      BY <1>1, <1>4, <2>1, NextBit
    <2> QED BY <1>2, <2>1, <2>2
  <1>5. CASE i = 0 /\ u[1]
    <2>1. 0 \in Bit /\ 0 + 1 < Width
      BY WidthAssumption DEF Bit
    <2>2. lfsr_next(u)[0]
      BY <1>5, <2>1, NextBit
    <2> QED BY <1>2, <2>1, <2>2
  <1> QED BY <1>3, <1>4, <1>5 DEF Bit

IInv ==
    /\ seed_ \in Word /\ seed_ # zero
    /\ v \in Word /\ NeverZero

\* The seed, and the register with it, starts as a word that is not nought.
LEMMA InitInv == Init => IInv
  <1>1. Not(zero) \in Word /\ zero \in Word
    BY DEF Not, zero, Word
  <1>2. Not(zero) # zero
    <2>1. 0 \in Bit
      BY WidthAssumption DEF Bit
    <2> QED BY <2>1, OperatorBits
  <1> QED BY <1>1, <1>2 DEF Init, IInv, NeverZero

\* A call starts from the seed, and every value it copies moves the register
\* on or leaves it.
LEMMA NextInv == IInv /\ [Next]_vars => IInv'
  <1> SUFFICES ASSUME IInv, [Next]_vars PROVE IInv'
    OBVIOUS
  <1>1. CASE WriteInput
    BY <1>1 DEF WriteInput, WritesSample, MovesIndex, helper_vars, call_vars, IInv, NeverZero
  <1>2. ASSUME NEW kind \in Kind, NEW fft_size \in FFTSize, NEW len \in 1 .. fft_size,
               Calls(kind, len, fft_size)
        PROVE  IInv'
    BY <1>2 DEF Calls, FirstRegister, helper_vars, IInv, NeverZero
  <1>3. CASE Copies
    <2>1. seed_' = seed_ /\ v' \in {v, lfsr_next(v)}
      BY <1>3 DEF Copies, helper_vars
    <2>2. lfsr_next(v) \in Word /\ lfsr_next(v) # zero
      BY NextWord, NextIsNotZero DEF IInv, NeverZero
    <2> QED BY <2>1, <2>2 DEF IInv, NeverZero
  <1>4. CASE Returns
    BY <1>4 DEF Returns, helper_vars, IInv, NeverZero
  <1>5. CASE UNCHANGED vars
    BY <1>5 DEF vars, helper_vars, call_vars, IInv, NeverZero
  <1> QED BY <1>1, <1>2, <1>3, <1>4, <1>5 DEF Next

\* Whatever the seed and the kinds and lengths of the calls, no sample is drawn
\* from a register that has run dry, at 64 bits as at three, and neither is
\* anything else that moves it by lfsr_next (whale_session_cache.cc:45-47,
\* whale_audio_farbling_helper.cc:18-20).
THEOREM NeverZeroCorrect == Spec => []NeverZero
  <1>1. IInv => NeverZero
    BY DEF IInv
  <1> QED BY <1>1, InitInv, NextInv, PTL DEF Spec

-----------------------------------------------------------------------------
\* Arithmetic.

\* A number is its quotient times the divisor, and its remainder.
LEMMA DivMod ==
  ASSUME NEW d \in Nat \ {0}, NEW x \in Int
  PROVE  /\ x \div d \in Int /\ x % d \in 0 .. d - 1
         /\ x = d * (x \div d) + (x % d)
  <1>1. x \div d \in Int /\ x % d \in Int
    OBVIOUS
  <1>2. x % d >= 0 /\ x % d < d
    BY d > 0
  <1>3. x = d * (x \div d) + (x % d)
    BY d > 0
  <1> QED BY <1>1, <1>2, <1>3

\* Whatever divides a number so is its quotient and remainder.
LEMMA ModUnique ==
  ASSUME NEW d \in Nat \ {0}, NEW x \in Int, NEW q \in Int, NEW r \in 0 .. d - 1,
         x = d * q + r
  PROVE  x % d = r /\ x \div d = q
  <1> DEFINE p == x \div d
             s == x % d
  <1>1. p \in Int /\ s \in 0 .. d - 1 /\ x = d * p + s
    BY DivMod
  <1> HIDE DEF p, s
  <1>2. r \in Int /\ s \in Int /\ 0 <= r /\ r < d /\ 0 <= s /\ s < d
    BY <1>1
  <1>3. d * p - d * q = r - s /\ d * (p - q) = d * p - d * q
    BY <1>1, <1>2
  <1>4. ASSUME NEW n \in Int, n >= 1 PROVE d * n >= d
    BY <1>4
  <1>5. ~(p - q >= 1)
    <2> SUFFICES ASSUME p - q >= 1 PROVE FALSE
      OBVIOUS
    <2>1. d * (p - q) >= d
      BY <1>1, <1>4
    <2> QED BY <1>2, <1>3, <2>1
  <1>6. ~(q - p >= 1)
    <2> SUFFICES ASSUME q - p >= 1 PROVE FALSE
      OBVIOUS
    <2>1. d * (q - p) >= d
      BY <1>1, <1>4
    <2>2. d * (q - p) = d * q - d * p
      BY <1>1
    <2> QED BY <1>1, <1>2, <1>3, <2>1, <2>2
  <1>7. p = q
    BY <1>1, <1>5, <1>6
  <1>8. s = r
    BY <1>1, <1>2, <1>7
  <1> QED BY <1>7, <1>8 DEF p, s

\* A multiple more or less leaves the remainder.
LEMMA ModShift ==
  ASSUME NEW d \in Nat \ {0}, NEW x \in Int, NEW k \in Int
  PROVE  (x + d * k) % d = x % d
  <1>1. /\ x \div d \in Int /\ x % d \in 0 .. d - 1
        /\ x = d * (x \div d) + (x % d)
    BY DivMod
  <1> DEFINE q == x \div d
             r == x % d
             y == x + d * k
  <1> HIDE DEF q, r
  <1>2. q \in Int /\ r \in 0 .. d - 1 /\ x = d * q + r
    BY <1>1 DEF q, r
  <1>3. y \in Int /\ q + k \in Int /\ y = d * (q + k) + r
    <2>1. d * (q + k) = d * q + d * k /\ d * k \in Int /\ d * q \in Int
      BY <1>2
    <2> HIDE DEF y
    <2> QED BY <1>2, <2>1 DEF y
  <1> HIDE DEF y
  <1>4. y % d = r
    BY <1>2, <1>3, ModUnique
  <1> QED BY <1>4 DEF y, r

\* A turn of the ring more leaves the slot.
LEMMA ModTurn ==
  ASSUME NEW d \in Nat \ {0}, NEW x \in Int
  PROVE  (x + d) % d = x % d
  <1>1. (x + d * 1) % d = x % d
    BY 1 \in Int, ModShift
  <1>2. d * 1 = d
    OBVIOUS
  <1> QED BY <1>1, <1>2

\* A number that is small enough is its own remainder.
LEMMA ModSmall ==
  ASSUME NEW d \in Nat \ {0}, NEW x \in 0 .. d - 1
  PROVE  x % d = x
  <1>1. x \in Int /\ 0 \in Int /\ x = d * 0 + x
    OBVIOUS
  <1> QED BY <1>1, ModUnique

\* Sum and difference of remainders.
LEMMA ModDiff ==
  ASSUME NEW d \in Nat \ {0}, NEW x \in Int, NEW y \in Int
  PROVE  /\ ((x % d) - y) % d = (x - y) % d
         /\ ((x % d) + y) % d = (x + y) % d
  <1>1. x \div d \in Int /\ x % d \in Int /\ x = d * (x \div d) + (x % d)
    BY DivMod
  <1> DEFINE q == x \div d
             r == x % d
  <1> HIDE DEF q, r
  <1>2. q \in Int /\ r \in Int /\ x = d * q + r
    BY <1>1 DEF q, r
  <1>3. r - y \in Int /\ r + y \in Int
    BY <1>2
  <1>4. ((r - y) + d * q) % d = (r - y) % d
    BY <1>2, <1>3, ModShift
  <1>5. ((r + y) + d * q) % d = (r + y) % d
    BY <1>2, <1>3, ModShift
  <1>6. (r - y) + d * q = x - y /\ (r + y) + d * q = x + y
    BY <1>2
  <1> QED BY <1>4, <1>5, <1>6 DEF r

\* A larger number has no smaller quotient.
LEMMA DivMonotone ==
  ASSUME NEW d \in Nat \ {0}, NEW x \in Int, NEW y \in Int, x <= y
  PROVE  x \div d <= y \div d
  <1> DEFINE p == x \div d
             q == y \div d
  <1>1. /\ p \in Int /\ x % d \in 0 .. d - 1 /\ x = d * p + (x % d)
        /\ q \in Int /\ y % d \in 0 .. d - 1 /\ y = d * q + (y % d)
    BY DivMod
  <1> HIDE DEF p, q
  <1>2. d * p <= x /\ y < d * q + d /\ d * p \in Int /\ d * q \in Int
    BY <1>1
  <1>3. ~(p - q >= 1)
    <2> SUFFICES ASSUME p - q >= 1 PROVE FALSE
      OBVIOUS
    <2> DEFINE n == p - q
    <2>1. n \in Int /\ n >= 1 /\ d * n = d * p - d * q
      BY <1>1
    <2> HIDE DEF n
    <2>2. d * n >= d
      BY <2>1
    <2> QED BY <1>2, <2>1, <2>2
  <1>4. p <= q
    BY <1>1, <1>3
  <1> QED BY <1>4 DEF p, q

\* A factor that is not negative keeps the order.
LEMMA TimesMonotone ==
  ASSUME NEW n \in Nat, NEW x \in Int, NEW y \in Int, x <= y
  PROVE  n * x <= n * y /\ n * x \in Int /\ n * y \in Int
  <1> DEFINE k == y - x
  <1>1. k \in Nat /\ y = x + k
    OBVIOUS
  <1> HIDE DEF k
  <1>2. n * k \in Nat
    BY <1>1
  <1>3. n * (x + k) = n * x + n * k /\ n * x \in Int
    BY <1>1
  <1>4. n * x <= n * (x + k) /\ n * (x + k) \in Int
    BY <1>2, <1>3
  <1> QED BY <1>1, <1>3, <1>4

-----------------------------------------------------------------------------
\* Induction, on sets of numbers.

\* A set of numbers has a least one.
LEMMA LeastNumber ==
  ASSUME NEW S \in SUBSET Nat, S # {}
  PROVE  \E m \in S : \A k \in S : m <= k
  <1> DEFINE less == {pair \in Nat \X Nat : pair[1] < pair[2]}
  <1>1. IsWellFoundedOn(less, Nat)
    BY NatLessThanWellFounded DEF OpToRel
  <1>2. ASSUME NEW y \in Nat, NEW x \in Nat, y < x PROVE <<y, x>> \in less
    BY <1>2
  <1> HIDE DEF less
  <1>3. PICK x \in S : \A y \in S : ~ (<<y, x>> \in less)
    BY <1>1, WFMin
  <1>4. ASSUME NEW y \in S PROVE x <= y
    <2>1. x \in Nat /\ y \in Nat
      OBVIOUS
    <2>2. ~(y < x)
      BY <1>2, <1>3, <2>1
    <2> QED BY <2>1, <2>2
  <1> QED BY <1>4

\* A set that has nought, and the successor of each number it has, has them all.
LEMMA SetInduction ==
  ASSUME NEW S, 0 \in S, \A n \in Nat : n \in S => n + 1 \in S
  PROVE  Nat \subseteq S
  <1> DEFINE rest == Nat \ S
  <1> SUFFICES ASSUME rest # {} PROVE FALSE
    OBVIOUS
  <1>1. PICK m \in rest : \A k \in rest : m <= k
    BY LeastNumber
  <1>2. m \in Nat /\ m # 0
    BY <1>1
  <1>3. m - 1 \in Nat /\ ~(m <= m - 1) /\ (m - 1) + 1 = m
    BY <1>2
  <1>4. m - 1 \in S
    BY <1>1, <1>3
  <1>5. m \in S
    BY <1>3, <1>4
  <1> QED BY <1>1, <1>5

-----------------------------------------------------------------------------
\* The ring.

\* The ring holds the last samples, each in the slot of its time, and those of
\* the next quantum that have landed in the place of the oldest.
Ring ==
    /\ input_buffer = [n \in 0 .. InputBufferSize - 1 |-> input_buffer[n]]
    /\ written \in 0 .. MaxSamples
    /\ landed \subseteq 0 .. Quantum - 1
    /\ landed # {} => written + Quantum <= MaxSamples
    /\ \A t \in written - InputBufferSize .. written - 1 :
         input_buffer[t % InputBufferSize] =
           SampleAt(IF t + InputBufferSize - written \in landed
                    THEN t + InputBufferSize ELSE t)

Reading ==
    call # NoCall =>
      /\ call.kind \in Kind /\ call.fft_size \in FFTSize
      /\ call.len \in 1 .. call.fft_size
      /\ called_at \in 0 .. written
      /\ call.write_index = called_at % InputBufferSize

Copied ==
    /\ destination \in Seq({destination[i] : i \in 1 .. Len(destination)})
    /\ Len(destination) <= call.len
    /\ call = NoCall => destination = <<>>

Window == Ring /\ Reading /\ Copied /\ ReadsTheWindow

\* A quantum fits into the ring.
LEMMA QuantumFits ==
  /\ InputBufferSize \in Nat \ {0} /\ Quantum \in Nat \ {0}
  /\ Quantum <= InputBufferSize
  <1>1. /\ InputBufferSize \in Nat \ {0} /\ Quantum \in Nat \ {0}
        /\ InputBufferSize % Quantum = 0
    BY AnalyserAssumption
  <1>2. ASSUME InputBufferSize < Quantum PROVE FALSE
    <2>1. InputBufferSize \in 0 .. Quantum - 1
      BY <1>1, <1>2
    <2>2. InputBufferSize % Quantum = InputBufferSize
      BY <1>1, <2>1, ModSmall
    <2> QED BY <1>1, <2>2
  <1> QED BY <1>1, <1>2

\* Whatever the audio thread has put there since, the slot of a time of the
\* window has a sample of that time or of whole rings later.
LEMMA SlotHolds ==
  ASSUME Ring, NEW p \in Int, p < written
  PROVE  \E t \in p .. written + Quantum - 1 :
           /\ Taken(t) /\ (t - p) % InputBufferSize = 0
           /\ input_buffer[p % InputBufferSize] = SampleAt(t)
  <1> DEFINE N == InputBufferSize
             w == written
             d == w - 1 - p
             q == d \div N
             m == N * q
             t == p + m
  <1>1. /\ N \in Nat \ {0} /\ Quantum \in Nat \ {0} /\ Quantum <= N
        /\ w \in Nat /\ landed \subseteq 0 .. Quantum - 1
    BY QuantumFits DEF Ring
  <1>2. \A s \in w - N .. w - 1 :
          input_buffer[s % N] = SampleAt(IF s + N - w \in landed THEN s + N ELSE s)
    BY DEF Ring
  <1>3. ASSUME NEW s, s < w \/ s - w \in landed PROVE Taken(s)
    BY <1>3 DEF Taken
  <1> SUFFICES \E s \in p .. w + Quantum - 1 :
                 /\ s < w \/ s - w \in landed
                 /\ (s - p) % N = 0 /\ input_buffer[p % N] = SampleAt(s)
    BY <1>3
  <1>4. d \in Nat
    BY <1>1
  <1> HIDE DEF N, w
  <1>5. /\ q \in Int /\ d % N \in 0 .. N - 1 /\ d = N * q + (d % N)
    <2> HIDE DEF d
    <2> QED BY <1>1, <1>4, DivMod
  <1>6. q \in Nat
    <2> SUFFICES ASSUME q <= -1 PROVE FALSE
      BY <1>5
    <2> HIDE DEF q, d
    <2>1. N * q \in Int /\ N * q <= N * (-1)
      BY <1>1, <1>5, TimesMonotone
    <2>2. N * (-1) = -N
      BY <1>1
    <2> QED BY <1>1, <1>4, <1>5, <2>1, <2>2
  <1>7. m \in Nat /\ d = m + (d % N)
    <2> HIDE DEF q, d
    <2> QED BY <1>1, <1>5, <1>6 DEF m
  <1>8. t % N = p % N
    <2>1. q \in Int
      BY <1>5
    <2> HIDE DEF q
    <2> QED BY <1>1, <2>1, ModShift DEF m
  <1>9. m % N = 0 /\ (m + N) % N = 0
    <2>1. (0 + N * q) % N = 0 % N /\ 0 % N = 0
      <3>1. 0 \in Int /\ 0 \in 0 .. N - 1 /\ q \in Int
        BY <1>1, <1>5
      <3> HIDE DEF q
      <3> QED BY <1>1, <3>1, ModShift, ModSmall
    <2>2. 0 + m = m /\ m \in Int
      BY <1>7
    <2>3. m % N = 0
      BY <2>1, <2>2 DEF m
    <2> HIDE DEF m
    <2>4. (m + N) % N = m % N
      BY <1>1, <2>2, ModTurn
    <2> QED BY <2>3, <2>4
  <1> HIDE DEF m
  <1>13. t \in w - N .. w - 1 /\ p <= t /\ t - p = m /\ (t + N) - p = m + N
    <2> DEFINE r == d % N
    <2>1. r \in 0 .. N - 1 /\ w - 1 - p = m + r
      BY <1>5, <1>7 DEF d
    <2> HIDE DEF r, d
    <2> QED BY <1>1, <1>7, <2>1
  <1> HIDE DEF t, q, d
  <1>10. input_buffer[p % N] = SampleAt(IF t + N - w \in landed THEN t + N ELSE t)
    <2>1. input_buffer[t % N] = SampleAt(IF t + N - w \in landed THEN t + N ELSE t)
      BY <1>2, <1>13
    <2> QED BY <1>8, <2>1
  <1>11. CASE t + N - w \in landed
    <2>1. t + N \in p .. w + Quantum - 1
      BY <1>1, <1>13, <1>11
    <2>2. (t + N) - w \in landed /\ ((t + N) - p) % N = 0
      <3>1. (t + N) - w = t + N - w
        BY <1>1, <1>13
      <3> QED BY <1>9, <1>11, <1>13, <3>1, Zenon
    <2>3. input_buffer[p % N] = SampleAt(t + N)
      BY <1>10, <1>11
    <2> QED BY <2>1, <2>2, <2>3
  <1>12. CASE t + N - w \notin landed
    <2>1. t \in p .. w + Quantum - 1 /\ t < w
      BY <1>1, <1>13
    <2>2. (t - p) % N = 0
      BY <1>9, <1>13
    <2>3. input_buffer[p % N] = SampleAt(t)
      BY <1>10, <1>12
    <2> QED BY <2>1, <2>2, <2>3
  <1> QED BY <1>11, <1>12

\* The slot a value of the window is read from is that of its time, whatever
\* the length of the call (cc:62-70, 102-107, 155-156).
LEMMA SlotOfSample ==
  ASSUME Ring, Reading, call # NoCall, NEW i \in 0 .. call.len - 1
  PROVE  input(i) \in Samples(i)
  <1> DEFINE N == InputBufferSize
             f == call.fft_size
             p == called_at - f + i
  <1>1. /\ N \in Nat \ {0} /\ f \in Nat /\ 2 * f <= N
        /\ call.len \in 1 .. f
        /\ called_at \in 0 .. written /\ written \in Nat
        /\ call.write_index = called_at % N
    BY AnalyserAssumption DEF Ring, Reading
  <1> HIDE DEF N, f
  <1>2. p \in Int /\ p < written /\ i \in Int /\ called_at \in Int
    BY <1>1
  <1>3. slot(i) = p % N
    <2> DEFINE w == called_at % N
               y == i - f + N
    <2>1. w \in Int /\ y \in Int /\ i + w - f + N = w + y
      BY <1>1, <1>2, DivMod
    <2>2. slot(i) = (w + y) % N
      BY <1>1, <2>1 DEF slot, N, f
    <2>3. (w + y) % N = (called_at + y) % N
      BY <1>1, <1>2, <2>1, ModDiff
    <2>4. called_at + y = p + N
      BY <1>1, <1>2
    <2> HIDE DEF p
    <2>5. (p + N) % N = p % N
      BY <1>1, <1>2, ModTurn
    <2> QED BY <2>2, <2>3, <2>4, <2>5
  <1>4. Times(i) = {t \in p .. written + Quantum - 1 : Taken(t) /\ (t - p) % N = 0}
    BY DEF Times, N, f
  <1> HIDE DEF p
  <1>5. PICK t \in p .. written + Quantum - 1 :
          /\ Taken(t) /\ (t - p) % N = 0
          /\ input_buffer[p % N] = SampleAt(t)
    BY <1>2, SlotHolds DEF N
  <1>6. t \in Times(i) /\ input_buffer[slot(i)] = SampleAt(t)
    BY <1>3, <1>4, <1>5
  <1> QED BY <1>6 DEF input, Samples

\* What has been in a slot stays one of its samples.
LEMMA TimesGrow ==
  ASSUME Window, WriteInput
  PROVE  ReadsTheWindow'
  <1>1. /\ call' = call /\ called_at' = called_at /\ destination' = destination
        /\ max_' = max_
    BY DEF WriteInput, WritesSample, MovesIndex, call_vars, helper_vars
  <1>2. written \in Int /\ written >= 0 /\ Quantum \in Int /\ Quantum >= 1
    BY QuantumFits DEF Window, Ring
  <1>3. written' \in Int /\ written' >= written
    BY <1>2 DEF WriteInput, WritesSample, MovesIndex
  <1>4. \A t \in Int : Taken(t) => Taken(t)'
    <2>1. CASE \E k \in 0 .. Quantum - 1 : WritesSample(k)
      BY <1>2, <2>1 DEF WritesSample, Taken
    <2>2. CASE MovesIndex
      <3>1. landed = 0 .. Quantum - 1 /\ written' = written + Quantum
        BY <2>2 DEF MovesIndex
      <3>2. ASSUME NEW t \in Int, Taken(t) PROVE t < written + Quantum
        BY <1>2, <3>1, <3>2 DEF Taken
      <3> QED BY <1>2, <3>1, <3>2 DEF Taken
    <2> QED BY <2>1, <2>2 DEF WriteInput
  <1>5. ASSUME call # NoCall PROVE call.fft_size \in Nat /\ called_at \in Nat
    <2>1. call.fft_size \in FFTSize /\ called_at \in 0 .. written
      BY <1>5 DEF Window, Reading
    <2>2. FFTSize \subseteq Nat
      BY AnalyserAssumption
    <2>3. called_at \in Nat
      BY <1>2, <2>1
    <2> QED BY <2>1, <2>2, <2>3
  <1>6. \A p \in Int : \A t \in p .. written + Quantum - 1 :
          t \in p .. written' + Quantum - 1 /\ t \in Int
    <2>1. ASSUME NEW w \in Int, NEW x \in Int, NEW q \in Int, w <= x
          PROVE  \A p \in Int : \A t \in p .. w + q - 1 : t \in p .. x + q - 1 /\ t \in Int
      BY <2>1
    <2> QED BY <1>2, <1>3, <2>1
  <1>7. ASSUME call # NoCall, NEW i \in 0 .. Len(destination) - 1
        PROVE  Times(i) \subseteq Times(i)'
    <2> DEFINE p == called_at - call.fft_size + i
    <2>1. p \in Int
      <3>1. Len(destination) \in Nat
        BY LenProperties DEF Window, Copied
      <3> QED BY <1>7, <1>5, <3>1
    <2>2. /\ Times(i) = {t \in p .. written + Quantum - 1 :
                           Taken(t) /\ (t - p) % InputBufferSize = 0}
          /\ Times(i)' = {t \in p .. written' + Quantum - 1 :
                            Taken(t)' /\ (t - p) % InputBufferSize = 0}
      BY <1>1 DEF Times
    <2> HIDE DEF p
    <2>3. \A t \in p .. written + Quantum - 1 : t \in p .. written' + Quantum - 1 /\ t \in Int
      BY <1>6, <2>1, Zenon
    <2> QED BY <1>4, <2>2, <2>3
  <1>8. ASSUME call # NoCall, NEW i \in 0 .. Len(destination) - 1, NEW x \in Samples(i)
        PROVE  x \in Samples(i)'
    <2>1. Times(i) \subseteq Times(i)'
      BY <1>7, <1>8
    <2> QED BY <1>1, <1>8, <2>1 DEF Samples, SampleAt
  <1>9. CASE call = NoCall
    <2>1. destination' = <<>> /\ Len(destination') = 0
      <3>1. destination = <<>>
        BY <1>9 DEF Window, Copied
      <3>2. destination' = <<>>
        BY <1>1, <3>1
      <3> QED BY <3>2
    <2> QED BY <2>1 DEF ReadsTheWindow
  <1>10. CASE call # NoCall
    <2> SUFFICES ASSUME ~max_, NEW i \in 0 .. Len(destination) - 1
                 PROVE  \E x \in Samples(i)' :
                          destination[i + 1] = Output(call.kind, farbled(x))'
      BY <1>1 DEF ReadsTheWindow
    <2>1. PICK x \in Samples(i) : destination[i + 1] = Output(call.kind, farbled(x))
      BY DEF Window, ReadsTheWindow
    <2>2. x \in Samples(i)'
      BY <1>8, <1>10, <2>1
    <2>3. Output(call.kind, farbled(x))' = Output(call.kind, farbled(x))
      BY <1>1 DEF Output, farbled, Clip, Scaled, ScaledDecibels
    <2> QED BY <2>1, <2>2, <2>3
  <1> QED BY <1>9, <1>10

\* A sample that lands takes the place of the one a ring before it.
LEMMA WriteRing ==
  ASSUME Ring, NEW k \in 0 .. Quantum - 1, WritesSample(k)
  PROVE  Ring'
  <1> DEFINE N == InputBufferSize
             w == written
  <1>1. /\ N \in Nat \ {0} /\ Quantum \in Nat \ {0} /\ Quantum <= N
        /\ w \in Nat /\ landed \subseteq 0 .. Quantum - 1
        /\ written' = w /\ landed' = landed \cup {k} /\ w + Quantum <= MaxSamples
    BY QuantumFits DEF Ring, WritesSample
  <1>2. \A t \in w - N .. w - 1 :
          input_buffer[t % N] = SampleAt(IF t + N - w \in landed THEN t + N ELSE t)
    BY DEF Ring
  <1>3. input_buffer' = [n \in 0 .. N - 1 |->
          IF n = (w + k) % N THEN Signal[w + k] ELSE input_buffer[n]]
    BY DEF Ring, WritesSample
  <1> HIDE DEF N, w
  <1>4. ASSUME NEW t \in w - N .. w - 1
        PROVE  input_buffer'[t % N] = SampleAt(IF t + N - w \in landed' THEN t + N ELSE t)
    <2>1. t \in Int /\ t % N \in 0 .. N - 1
      BY <1>1, DivMod
    <2>2. CASE t + N = w + k
      <3>1. (t + N) % N = t % N
        BY <1>1, <2>1, ModTurn
      <3>2. input_buffer'[t % N] = Signal[w + k]
        BY <1>3, <2>1, <2>2, <3>1
      <3>3. SampleAt(t + N) = Signal[w + k] /\ t + N - w \in landed'
        BY <1>1, <2>1, <2>2 DEF SampleAt
      <3> QED BY <3>2, <3>3
    <2>3. CASE t + N # w + k
      <3>1. t % N # (w + k) % N
        <4> DEFINE x == w + k
                   y == x - t
        <4> SUFFICES ASSUME t % N = x % N PROVE FALSE
          OBVIOUS
        <4>1. x \in Int /\ y \in Int /\ x - t = y
          BY <1>1, <2>1
        <4>2. ((x % N) - t) % N = y % N /\ ((t % N) - t) % N = (t - t) % N
          <5> HIDE DEF x
          <5> QED BY <1>1, <2>1, <4>1, ModDiff
        <4>3. y % N = 0
          <5>1. t - t = 0 /\ 0 \in 0 .. N - 1
            BY <1>1, <2>1
          <5>2. 0 % N = 0
            BY <1>1, <5>1, ModSmall
          <5> QED BY <4>2, <5>1, <5>2
        <4>4. y \in 1 .. N + N - 1 /\ y # N
          BY <1>1, <2>1, <2>3
        <4> HIDE DEF y
        <4>5. CASE y \in 1 .. N - 1
          <5>1. y \in 0 .. N - 1
            BY <4>5
          <5>2. y % N = y
            BY <1>1, <5>1, ModSmall
          <5> QED BY <4>3, <4>5, <5>2
        <4>6. CASE y \notin 1 .. N - 1
          <5> DEFINE z == y - N
          <5>1. z \in 1 .. N - 1 /\ z \in 0 .. N - 1 /\ z \in Int /\ z + N = y
            BY <1>1, <4>4, <4>6
          <5> HIDE DEF z
          <5>2. (z + N) % N = z % N /\ z % N = z
            BY <1>1, <5>1, ModTurn, ModSmall
          <5> QED BY <4>3, <5>1, <5>2
        <4> QED BY <4>5, <4>6
      <3>2. input_buffer'[t % N] = input_buffer[t % N]
        BY <1>3, <2>1, <3>1
      <3>3. t + N - w \in landed' <=> t + N - w \in landed
        BY <1>1, <2>1, <2>3
      <3> QED BY <1>2, <3>2, <3>3
    <2> QED BY <2>2, <2>3
  <1>5. input_buffer' = [n \in 0 .. N - 1 |-> input_buffer'[n]]
    BY <1>3
  <1>6. landed' \subseteq 0 .. Quantum - 1 /\ written' \in 0 .. MaxSamples
    BY <1>1, SampleAssumption
  <1>7. \A t \in written' - N .. written' - 1 :
          input_buffer'[t % N] = SampleAt(IF t + N - written' \in landed' THEN t + N ELSE t)
    BY <1>1, <1>4
  <1> QED BY <1>1, <1>5, <1>6, <1>7 DEF Ring, N, SampleAt

\* The index moves over samples that are all there.
LEMMA MoveRing ==
  ASSUME Ring, MovesIndex
  PROVE  Ring'
  <1> DEFINE N == InputBufferSize
             w == written
             Q == Quantum
  <1>1. /\ N \in Nat \ {0} /\ Q \in Nat \ {0} /\ Q <= N /\ w \in Nat
        /\ landed = 0 .. Q - 1 /\ landed' = {} /\ written' = w + Q
        /\ input_buffer' = input_buffer /\ MaxSamples \in Nat
    BY QuantumFits, SampleAssumption DEF Ring, MovesIndex
  <1>2. \A t \in w - N .. w - 1 :
          input_buffer[t % N] = SampleAt(IF t + N - w \in landed THEN t + N ELSE t)
    BY DEF Ring
  <1>3. w + Q <= MaxSamples
    <2>1. landed # {} => w + Q <= MaxSamples
      BY DEF Ring
    <2> HIDE DEF Q, w
    <2>2. 0 \in landed
      BY <1>1
    <2> QED BY <2>1, <2>2
  <1> HIDE DEF N, w, Q
  <1>4. ASSUME NEW t \in (w + Q) - N .. (w + Q) - 1
        PROVE  input_buffer[t % N] = SampleAt(t)
    <2>1. CASE t < w
      <3>1. t \in w - N .. w - 1 /\ t + N - w \notin landed
        BY <1>1, <2>1
      <3> QED BY <1>2, <3>1
    <2>2. CASE ~(t < w)
      <3> DEFINE s == t - N
      <3>1. s \in w - N .. w - 1 /\ s + N - w \in landed /\ s + N = t /\ s \in Int
        BY <1>1, <2>2
      <3> HIDE DEF s
      <3>2. (s + N) % N = s % N
        BY <1>1, <3>1, ModTurn
      <3>3. input_buffer[s % N] = SampleAt(s + N)
        BY <1>2, <3>1
      <3> QED BY <3>1, <3>2, <3>3
    <2> QED BY <2>1, <2>2
  <1>5. written' \in 0 .. MaxSamples
    BY <1>1, <1>3
  <1>6. input_buffer' = [n \in 0 .. N - 1 |-> input_buffer'[n]]
    BY <1>1 DEF Ring, N
  <1> QED BY <1>1, <1>4, <1>5, <1>6 DEF Ring, N, Q, SampleAt

-----------------------------------------------------------------------------
\* What is appended to a sequence.
LEMMA Appended ==
  ASSUME NEW s, s \in Seq({s[i] : i \in 1 .. Len(s)}), NEW x
  PROVE  LET t == Append(s, x) IN
         /\ t \in Seq({t[i] : i \in 1 .. Len(t)})
         /\ Len(s) \in Nat /\ Len(t) = Len(s) + 1
         /\ \A i \in 1 .. Len(s) : t[i] = s[i]
         /\ t[Len(s) + 1] = x
  <1> DEFINE S == {s[i] : i \in 1 .. Len(s)}
             T == S \cup {x}
             t == Append(s, x)
  <1>1. s \in Seq(T) /\ x \in T
    <2>1. \A R : s \in Seq(S) /\ S \subseteq R => s \in Seq(R)
      BY SeqDef
    <2> HIDE DEF S
    <2> QED BY <2>1 DEF S
  <1> HIDE DEF T, S
  <1>2. /\ t \in Seq(T) /\ Len(s) \in Nat /\ Len(t) = Len(s) + 1
        /\ \A i \in 1 .. Len(s) : t[i] = s[i]
        /\ t[Len(s) + 1] = x
    BY <1>1, AppendProperties, LenProperties
  <1>3. ASSUME NEW u \in Seq(T) PROVE u \in Seq({u[i] : i \in 1 .. Len(u)})
    <2> DEFINE U == {u[i] : i \in 1 .. Len(u)}
    <2>1. Len(u) \in Nat /\ u \in [1 .. Len(u) -> T]
      BY LenProperties
    <2>2. u \in [1 .. Len(u) -> U]
      BY <2>1
    <2> HIDE DEF U
    <2>3. u \in Seq(U)
      BY <2>1, <2>2, SeqDef
    <2> QED BY <2>3 DEF U
  <1> QED BY <1>2, <1>3

-----------------------------------------------------------------------------
\* Every step keeps Window.

\* Before the first write the ring holds the silence before the first sample.
LEMMA InitWindow == Init => Window
  <1> SUFFICES ASSUME Init PROVE Window
    OBVIOUS
  <1> DEFINE N == InputBufferSize
  <1>1. N \in Nat \ {0} /\ MaxSamples \in Nat
    BY AnalyserAssumption, SampleAssumption
  <1>2. input_buffer = [n \in 0 .. N - 1 |-> 0] /\ written = 0 /\ landed = {}
    BY DEF Init
  <1> HIDE DEF N
  <1>3. ASSUME NEW t \in 0 - N .. 0 - 1
        PROVE  input_buffer[t % N] = SampleAt(t)
    <2>1. t \in Int /\ t < 0
      BY <1>1
    <2>2. t % N \in 0 .. N - 1
      BY <1>1, <2>1, DivMod
    <2> QED BY <1>2, <2>1, <2>2 DEF SampleAt
  <1>4. Ring
    BY <1>1, <1>2, <1>3 DEF Ring, N
  <1>5. call = NoCall /\ destination = <<>> /\ Len(destination) = 0 /\ call.len = 0
    <2>1. call = NoCall /\ destination = <<>>
      BY DEF Init
    <2>2. Len(destination) = 0
      BY <2>1
    <2> QED BY <2>1, <2>2 DEF NoCall
  <1>6. destination \in Seq({destination[i] : i \in 1 .. Len(destination)})
    <2>1. \A S : <<>> \in Seq(S)
      BY EmptySeq
    <2> QED BY <1>5, <2>1, Zenon
  <1>7. Copied
    BY <1>5, <1>6 DEF Copied
  <1>8. ReadsTheWindow
    BY <1>5 DEF ReadsTheWindow
  <1> QED BY <1>4, <1>5, <1>7, <1>8 DEF Window, Reading

\* A call begins with its window in the ring and nothing copied.
LEMMA CallsWindow ==
  ASSUME Window, NEW kind \in Kind, NEW fft_size \in FFTSize, NEW len \in 1 .. fft_size,
         Calls(kind, len, fft_size)
  PROVE  Window'
  <1>1. /\ call = NoCall /\ destination' = destination /\ destination = <<>>
        /\ input_buffer' = input_buffer /\ written' = written /\ landed' = landed
        /\ called_at' = written
        /\ call' = [ kind |-> kind, len |-> len, fft_size |-> fft_size,
                     write_index |-> written % InputBufferSize ]
    BY DEF Calls, analyser_vars, Window, Copied
  <1>2. Ring'
    BY <1>1 DEF Window, Ring, SampleAt
  <1>3. fft_size \in Nat /\ written \in Nat
    BY AnalyserAssumption DEF Window, Ring
  <1>4. Reading'
    BY <1>1, <1>3 DEF Reading
  <1>5. Len(destination) = 0 /\ call'.len = len /\ call' # NoCall
    <2>1. call'.kind # "none"
      BY <1>1 DEF Kind, TimeDomain
    <2>2. call' # NoCall
      BY <2>1 DEF NoCall
    <2> QED BY <1>1, <2>2
  <1>6. Copied'
    BY <1>1, <1>3, <1>5 DEF Window, Copied
  <1>7. ReadsTheWindow'
    BY <1>1, <1>5 DEF ReadsTheWindow
  <1> QED BY <1>2, <1>4, <1>6, <1>7 DEF Window

\* The value a call copies is that of its slot, wherever the audio thread is.
LEMMA CopiesWindow ==
  ASSUME Window, Copies
  PROVE  Window'
  <1> DEFINE n == Len(destination)
             x == Output(call.kind, IF max_ THEN generated(v') ELSE farbled(input(n)))
  <1>1. /\ n < call.len /\ destination' = Append(destination, x)
        /\ input_buffer' = input_buffer /\ written' = written /\ landed' = landed
        /\ called_at' = called_at
        /\ call' = call /\ max_' = max_
    BY DEF Copies, analyser_vars, helper_vars
  <1>2. Ring'
    BY <1>1 DEF Window, Ring, SampleAt
  <1>3. Reading'
    BY <1>1 DEF Window, Reading
  <1> HIDE DEF x
  <1>4. /\ destination' \in Seq({destination'[i] : i \in 1 .. Len(destination')})
        /\ n \in Nat /\ Len(destination') = n + 1
        /\ \A i \in 1 .. n : destination'[i] = destination[i]
        /\ destination'[n + 1] = x
    <2>1. destination \in Seq({destination[i] : i \in 1 .. Len(destination)})
      BY DEF Window, Copied
    <2> QED BY <1>1, <2>1, Appended
  <1> HIDE DEF n
  <1>5. call # NoCall
    <2> SUFFICES ASSUME call = NoCall PROVE FALSE
      OBVIOUS
    <2>1. call.len = 0
      BY DEF NoCall
    <2> QED BY <1>1, <1>4, <2>1
  <1>6. call.len \in Nat
    BY <1>5, AnalyserAssumption DEF Window, Reading
  <1>7. Copied'
    BY <1>1, <1>4, <1>5, <1>6 DEF Copied
  <1>8. ~max_ => \E y \in Samples(n) : x = Output(call.kind, farbled(y))
    <2>1. n \in 0 .. call.len - 1
      BY <1>1, <1>4, <1>6
    <2>2. input(n) \in Samples(n)
      BY <1>5, <2>1, SlotOfSample DEF Window
    <2> QED BY <2>2 DEF x
  <1>9. /\ \A i : Samples(i)' = Samples(i)
        /\ \A y : Output(call.kind, farbled(y))' = Output(call.kind, farbled(y))
    BY <1>1 DEF Samples, Times, Taken, SampleAt, Output, farbled, Clip, Scaled,
                ScaledDecibels
  <1>10. ASSUME ~max_, NEW i \in 0 .. n
         PROVE  \E y \in Samples(i) :
                  destination'[i + 1] = Output(call.kind, farbled(y))
    <2>1. CASE i = n
      BY <1>4, <1>8, <1>10, <2>1
    <2>2. CASE i # n
      <3>1. i \in 0 .. n - 1 /\ i + 1 \in 1 .. n
        BY <1>4, <2>2
      <3> QED BY <1>4, <1>10, <3>1 DEF Window, ReadsTheWindow, n
    <2> QED BY <2>1, <2>2
  <1>11. ReadsTheWindow'
    <2>1. Len(destination') - 1 = n
      BY <1>4
    <2> QED BY <1>1, <1>9, <1>10, <2>1 DEF ReadsTheWindow
  <1> QED BY <1>2, <1>3, <1>7, <1>11 DEF Window

\* A write adds to what has been in a slot; the rest goes by the lemmas.
LEMMA NextWindow ==
  ASSUME Window, [Next]_vars
  PROVE  Window'
  <1>1. CASE WriteInput
    <2>1. /\ call' = call /\ called_at' = called_at /\ destination' = destination
          /\ written' \in {written, written + Quantum}
      BY <1>1 DEF WriteInput, WritesSample, MovesIndex, call_vars
    <2>2. Ring'
      BY <1>1, WriteRing, MoveRing DEF Window, WriteInput
    <2>3. Reading'
      <3>1. written \in Nat /\ Quantum \in Nat
        BY QuantumFits DEF Window, Ring
      <3> QED BY <2>1, <3>1 DEF Window, Reading
    <2>4. Copied'
      BY <2>1 DEF Window, Copied
    <2> QED BY <1>1, <2>2, <2>3, <2>4, TimesGrow DEF Window
  <1>2. ASSUME NEW kind \in Kind, NEW fft_size \in FFTSize, NEW len \in 1 .. fft_size,
               Calls(kind, len, fft_size)
        PROVE  Window'
    BY <1>2, CallsWindow
  <1>3. CASE Copies
    BY <1>3, CopiesWindow
  <1>4. CASE Returns
    <2>1. /\ call' = NoCall /\ destination' = <<>> /\ Len(destination') = 0 /\ call'.len = 0
          /\ input_buffer' = input_buffer /\ written' = written /\ landed' = landed
      <3>1. call' = NoCall /\ destination' = <<>>
        BY <1>4 DEF Returns
      <3>2. Len(destination') = 0 /\ call'.len = 0
        BY <3>1 DEF NoCall
      <3> QED BY <1>4, <3>1, <3>2 DEF Returns, analyser_vars
    <2>2. Ring'
      BY <2>1 DEF Window, Ring, SampleAt
    <2>3. destination' \in Seq({destination'[i] : i \in 1 .. Len(destination')})
      <3>1. \A S : <<>> \in Seq(S)
        BY EmptySeq
      <3> QED BY <2>1, <3>1, Zenon
    <2>4. Copied'
      BY <2>1, <2>3 DEF Copied
    <2>5. ReadsTheWindow'
      BY <2>1 DEF ReadsTheWindow
    <2> QED BY <2>1, <2>2, <2>4, <2>5 DEF Window, Reading
  <1>5. CASE UNCHANGED vars
    <2>1. /\ call' = call /\ called_at' = called_at /\ destination' = destination
          /\ max_' = max_ /\ written' = written /\ landed' = landed
          /\ input_buffer' = input_buffer
      BY <1>5 DEF vars, helper_vars, analyser_vars, call_vars
    <2>2. Ring' /\ Reading'
      BY <2>1 DEF Window, Ring, Reading, SampleAt
    <2>3. Copied' /\ ReadsTheWindow'
      BY <2>1 DEF Window, Copied, ReadsTheWindow, Samples, Times, Taken, SampleAt, Output,
                  farbled, Clip, Scaled, ScaledDecibels
    <2> QED BY <2>2, <2>3 DEF Window
  <1> QED BY <1>1, <1>2, <1>3, <1>4, <1>5 DEF Next

\* The ring and what was read of it, in every state.
LEMMA AlwaysWindow == Spec => []Window
  <1>1. Window /\ [Next]_vars => Window'
    BY NextWindow
  <1> QED BY <1>1, InitWindow, PTL DEF Spec

\* Every value a script reads is that of its place in the window, oldest first,
\* or one put in that place since: ReadsTheWindow, for every ring, window,
\* quantum and signal, and with the audio thread as fast as it may be
\* (whale_audio_farbling_helper.cc:62-70, 102-107, 155-156).
THEOREM WindowCorrect == Spec => []ReadsTheWindow
  <1>1. Window => ReadsTheWindow
    BY DEF Window
  <1> QED BY <1>1, AlwaysWindow, PTL

\* As long as no sample has come round to the window, the call has copied the
\* window as it was when it was made, in the order of time.
THEOREM UndisturbedCorrect ==
  Spec => [](/\ ~max_ /\ call.kind \in TimeDomain
             /\ \A t \in called_at - call.fft_size + InputBufferSize
                         .. written + Quantum - 1 : ~Taken(t)
             => \A i \in 0 .. Len(destination) - 1 :
                  destination[i + 1] =
                    Output(call.kind, farbled(SampleAt(called_at - call.fft_size + i))))
  <1>1. ASSUME Window, ~max_, call.kind \in TimeDomain,
               \A t \in called_at - call.fft_size + InputBufferSize
                        .. written + Quantum - 1 : ~Taken(t),
               NEW i \in 0 .. Len(destination) - 1
        PROVE  destination[i + 1] =
                 Output(call.kind, farbled(SampleAt(called_at - call.fft_size + i)))
    <2> DEFINE N == InputBufferSize
               p == called_at - call.fft_size + i
    <2>1. call # NoCall
      BY <1>1 DEF NoCall, TimeDomain
    <2>2. /\ N \in Nat \ {0} /\ p \in Int /\ called_at - call.fft_size \in Int /\ i \in Nat
          /\ written + Quantum \in Int
      <3>1. Len(destination) \in Nat
        BY <1>1, LenProperties DEF Window, Copied
      <3>2. /\ call.fft_size \in Nat /\ called_at \in Nat /\ written \in Nat
            /\ Quantum \in Nat /\ N \in Nat \ {0}
        BY <1>1, <2>1, AnalyserAssumption DEF Window, Reading, Ring
      <3> QED BY <3>1, <3>2
    <2>3. PICK x \in Samples(i) : destination[i + 1] = Output(call.kind, farbled(x))
      BY <1>1 DEF Window, ReadsTheWindow
    <2>4. PICK t \in Times(i) : x = SampleAt(t)
      BY <1>1, <2>3 DEF Samples
    <2>5. t \in p .. written + Quantum - 1 /\ Taken(t) /\ (t - p) % N = 0
      BY <2>4 DEF Times
    <2>6. ~(t - p >= N)
      <3> SUFFICES ASSUME t - p >= N PROVE FALSE
        OBVIOUS
      <3>1. t \in called_at - call.fft_size + N .. written + Quantum - 1
        BY <2>2, <2>5
      <3> QED BY <1>1, <2>5, <3>1
    <2>7. t = p
      <3> DEFINE d == t - p
      <3>1. d \in 0 .. N - 1 /\ d % N = 0
        BY <2>2, <2>5, <2>6
      <3> HIDE DEF d, N
      <3>2. d % N = d
        BY <2>2, <3>1, ModSmall
      <3>3. t \in Int /\ d = 0
        BY <2>2, <2>5, <3>1, <3>2
      <3> HIDE DEF p
      <3> QED BY <2>2, <3>3 DEF d
    <2> QED BY <2>3, <2>4, <2>7
  <1> DEFINE Undisturbed ==
        /\ ~max_ /\ call.kind \in TimeDomain
        /\ \A t \in called_at - call.fft_size + InputBufferSize
                    .. written + Quantum - 1 : ~Taken(t)
        => \A i \in 0 .. Len(destination) - 1 :
             destination[i + 1] =
               Output(call.kind, farbled(SampleAt(called_at - call.fft_size + i)))
  <1>2. Window => Undisturbed
    BY <1>1
  <1> QED BY <1>2, AlwaysWindow, PTL

-----------------------------------------------------------------------------
\* The order of what is read.

\* Clipping to a byte, and the cast, keep the order (cc:112-120, 164-172).
LEMMA ByteKeepsOrder ==
  ASSUME NEW x \in Int, NEW y \in Int, x <= y
  PROVE  /\ Clip(x) % 256 \in Int /\ Clip(y) % 256 \in Int
         /\ Clip(x) % 256 <= Clip(y) % 256
  <1>1. ASSUME NEW z \in Int PROVE Clip(z) \in 0 .. 255 /\ Clip(z) % 256 = Clip(z)
    <2>1. Clip(z) \in 0 .. 255
      BY DEF Clip, UCHAR_MAX
    <2> HIDE DEF Clip
    <2>2. Clip(z) % 256 = Clip(z)
      BY <2>1
    <2> QED BY <2>1, <2>2
  <1>2. Clip(x) <= Clip(y)
    BY DEF Clip, UCHAR_MAX
  <1>3. Clip(x) \in 0 .. 255 /\ Clip(y) \in 0 .. 255
    BY <1>1
  <1>4. Clip(x) % 256 = Clip(x) /\ Clip(y) % 256 = Clip(y)
    BY <1>1
  <1> HIDE DEF Clip
  <1> QED BY <1>2, <1>3, <1>4

\* The fudge factor is not negative, and keeps the order (cc:41, 64-67).
LEMMA FarbledKeepsOrder ==
  ASSUME NEW x \in Int, NEW y \in Int, x <= y
  PROVE  farbled(x) \in Int /\ farbled(y) \in Int /\ farbled(x) <= farbled(y)
  BY TimesMonotone, ScaleAssumption DEF farbled

\* So does the scaling of samples to bytes (cc:109-110).
LEMMA ScaledKeepsOrder ==
  ASSUME NEW x \in Int, NEW y \in Int, x <= y
  PROVE  Scaled(x) \in Int /\ Scaled(y) \in Int /\ Scaled(x) <= Scaled(y)
  <1> DEFINE d == 100 * Unit
             p == 128 * (x + d)
             q == 128 * (y + d)
  <1>1. d \in Nat \ {0}
    BY ScaleAssumption
  <1> HIDE DEF d
  <1>2. p \in Int /\ q \in Int /\ p <= q
    BY <1>1
  <1> HIDE DEF p, q
  <1>3. p \div d <= q \div d /\ p \div d \in Int /\ q \div d \in Int
    BY <1>1, <1>2, DivMonotone, DivMod
  <1> QED BY <1>3 DEF Scaled, p, q, d

\* And that of decibels (cc:159-162).
LEMMA DecibelsKeepOrder ==
  ASSUME NEW x, NEW y, LinearToDecibels(x) \in Int, LinearToDecibels(y) \in Int,
         LinearToDecibels(x) <= LinearToDecibels(y)
  PROVE  /\ ScaledDecibels(x) \in Int /\ ScaledDecibels(y) \in Int
         /\ ScaledDecibels(x) <= ScaledDecibels(y)
  <1> DEFINE m == LinearToDecibels(x)
             n == LinearToDecibels(y)
             p == 255 * (m - MinDecibels)
             q == 255 * (n - MinDecibels)
  <1>1. /\ m \in Int /\ n \in Int /\ m <= n
        /\ DecibelRange \in Nat \ {0} /\ MinDecibels \in Int
    BY ScaleAssumption
  <1> HIDE DEF m, n
  <1>2. p \in Int /\ q \in Int /\ p <= q
    BY <1>1
  <1> HIDE DEF p, q
  <1>3. /\ p \div DecibelRange <= q \div DecibelRange
        /\ p \div DecibelRange \in Int /\ q \div DecibelRange \in Int
    BY <1>1, <1>2, DivMonotone, DivMod
  <1> QED BY <1>3 DEF ScaledDecibels, UCHAR_MAX, p, q, m, n

\* What is louder never comes out as a smaller byte: OrderIsKept, for every
\* signal, any scale of decibels that rises with its argument, and an audio
\* thread as fast as it may be (whale_audio_farbling_helper.cc:109-120, 161-172).
THEOREM OrderCorrect == Spec => []OrderIsKept
  <1>1. ASSUME Window, ~max_, NEW i \in 0 .. Len(destination) - 1,
               NEW j \in 0 .. Len(destination) - 1,
               \A a \in Samples(i), b \in Samples(j) : a <= b
        PROVE  destination[i + 1] <= destination[j + 1]
    <2> DEFINE f == call.fft_size
    <2>1. PICK x \in Samples(i) : destination[i + 1] = Output(call.kind, farbled(x))
      BY <1>1 DEF Window, ReadsTheWindow
    <2>11. PICK y \in Samples(j) : destination[j + 1] = Output(call.kind, farbled(y))
      BY <1>1 DEF Window, ReadsTheWindow
    <2>2. /\ call.kind \in Kind /\ f \in FFTSize /\ f \in Nat
          /\ i \in 0 .. f - 1 /\ j \in 0 .. f - 1
          /\ called_at \in Nat
      <3>1. Len(destination) \in Nat
        BY <1>1, Appended DEF Window, Copied
      <3>2. call # NoCall
        BY <1>1, <3>1, EmptySeq DEF Window, Copied
      <3>3. /\ f \in FFTSize /\ f \in Nat /\ call.len \in 1 .. f /\ call.kind \in Kind
            /\ called_at \in 0 .. written /\ written \in Nat
        BY <1>1, <3>2, AnalyserAssumption DEF Window, Reading, Ring
      <3>4. Len(destination) <= call.len
        BY <1>1 DEF Window, Copied
      <3> HIDE DEF f
      <3> QED BY <1>1, <3>1, <3>3, <3>4 DEF f
    <2>3. ASSUME NEW k \in 0 .. f - 1, NEW a \in Samples(k) PROVE a \in Int
      <3>1. CASE call.kind \in TimeDomain
        <4>1. PICK t \in Times(k) : a = SampleAt(t)
          BY <2>3, <3>1 DEF Samples
        <4>2. /\ t \in called_at - f + k .. written + Quantum - 1 /\ Taken(t)
              /\ called_at - f + k \in Int
          BY <2>2, <4>1 DEF Times
        <4>3. /\ written \in 0 .. MaxSamples /\ landed \subseteq 0 .. Quantum - 1
              /\ landed # {} => written + Quantum <= MaxSamples
              /\ Quantum \in Nat /\ MaxSamples \in Nat
          BY <1>1, QuantumFits, SampleAssumption DEF Window, Ring
        <4> HIDE DEF f
        <4>4. t \in Int /\ t < MaxSamples
          <5>1. CASE t < written
            BY <4>2, <4>3, <5>1
          <5>2. CASE t - written \in landed
            BY <4>2, <4>3, <5>2
          <5> QED BY <4>2, <5>1, <5>2 DEF Taken
        <4> QED BY <4>1, <4>3, <4>4, SampleAssumption DEF SampleAt
      <3>2. CASE call.kind \notin TimeDomain
        BY <2>2, <2>3, <3>2, SampleAssumption DEF Samples
      <3> QED BY <3>1, <3>2
    <2>4. x \in Int /\ y \in Int /\ x <= y
      BY <1>1, <2>1, <2>11, <2>2, <2>3
    <2>5. ASSUME call.kind \notin TimeDomain
          PROVE  /\ LinearToDecibels(farbled(x)) \in Int
                 /\ LinearToDecibels(farbled(y)) \in Int
                 /\ LinearToDecibels(farbled(x)) <= LinearToDecibels(farbled(y))
      <3> DEFINE values == UNION { {FudgeFactor * Source[n] : n \in 0 .. fft_size - 1} :
                                   fft_size \in FFTSize }
      <3>1. x = Source[i] /\ y = Source[j]
        BY <2>1, <2>11, <2>5 DEF Samples
      <3>2. farbled(x) \in values /\ farbled(y) \in values
        BY <2>2, <3>1 DEF farbled
      <3>3. \A a, b \in values : /\ LinearToDecibels(a) \in Int
                                 /\ a <= b => LinearToDecibels(a) <= LinearToDecibels(b)
        BY ScaleAssumption
      <3> HIDE DEF values
      <3>4. farbled(x) <= farbled(y)
        BY <2>4, FarbledKeepsOrder
      <3> QED BY <3>2, <3>3, <3>4
    <2> HIDE DEF f
    <2>6. farbled(x) \in Int /\ farbled(y) \in Int /\ farbled(x) <= farbled(y)
      BY <2>4, FarbledKeepsOrder
    <2>7. CASE call.kind = "ByteTimeDomainData"
      <3>1. /\ Scaled(farbled(x)) \in Int /\ Scaled(farbled(y)) \in Int
            /\ Scaled(farbled(x)) <= Scaled(farbled(y))
        BY <2>6, ScaledKeepsOrder
      <3>2. Clip(Scaled(farbled(x))) % 256 <= Clip(Scaled(farbled(y))) % 256
        BY <3>1, ByteKeepsOrder
      <3> QED BY <2>1, <2>11, <2>7, <3>2 DEF Output
    <2>8. CASE call.kind = "ConvertToByteData"
      <3>1. /\ ScaledDecibels(farbled(x)) \in Int /\ ScaledDecibels(farbled(y)) \in Int
            /\ ScaledDecibels(farbled(x)) <= ScaledDecibels(farbled(y))
        BY <2>5, <2>8, DecibelsKeepOrder DEF TimeDomain
      <3>2. Clip(ScaledDecibels(farbled(x))) % 256 <= Clip(ScaledDecibels(farbled(y))) % 256
        BY <3>1, ByteKeepsOrder
      <3> QED BY <2>1, <2>11, <2>8, <3>2 DEF Output
    <2>9. CASE call.kind = "ConvertFloatToDb"
      BY <2>1, <2>11, <2>5, <2>9 DEF Output, TimeDomain
    <2>10. CASE call.kind \in {"FloatTimeDomainData", "AudioChannel"}
      BY <2>1, <2>11, <2>6, <2>10 DEF Output
    <2> QED BY <2>2, <2>7, <2>8, <2>9, <2>10 DEF Kind, TimeDomain
  <1>2. Window => OrderIsKept
    BY <1>1 DEF OrderIsKept
  <1> QED BY <1>2, AlwaysWindow, PTL

-----------------------------------------------------------------------------
\* The maximum level.

\* What the register holds after 0, 1, .. n steps from the seed.
Path(n, path) ==
    /\ path \in [0 .. n -> Word]
    /\ path[0] = seed_
    /\ \A i \in 0 .. n - 1 : path[i + 1] = lfsr_next(path[i])

\* The values of a call of this kind, each drawn from the register of its step.
Drawn(path, kind, values) ==
    \A i \in 1 .. Len(values) : values[i] = Output(kind, generated(path[i]))

\* One path serves the call that is under way and the one before it.
Draws(n, path) ==
    /\ Path(n, path)
    /\ Len(destination) <= n /\ Drawn(path, call.kind, destination)
    /\ Len(told.values) <= n /\ Drawn(path, told.kind, told.values)
    /\ call # NoCall => v = path[Len(destination)]

Told == told.values \in Seq({told.values[i] : i \in 1 .. Len(told.values)})

OnePath == max_ => \E n \in Nat : \E path \in [0 .. n -> Word] : Draws(n, path)

Deaf == IInv /\ Window /\ Told /\ OnePath

\* The path that is only the seed serves the first call.
LEMMA InitDeaf == Init => Deaf
  <1> SUFFICES ASSUME Init PROVE Deaf
    OBVIOUS
  <1>1. IInv /\ Window
    BY InitInv, InitWindow
  <1>2. destination = <<>> /\ told.values = <<>> /\ call = NoCall
    BY DEF Init
  <1>3. Len(destination) = 0 /\ Len(told.values) = 0
    BY <1>2
  <1>4. Told
    <2>1. \A S : <<>> \in Seq(S)
      BY EmptySeq
    <2> QED BY <1>2, <2>1, Zenon DEF Told
  <1>5. OnePath
    <2> DEFINE path == [i \in 0 .. 0 |-> seed_]
    <2>1. path \in [0 .. 0 -> Word] /\ Path(0, path)
      BY <1>1 DEF IInv, Path
    <2> HIDE DEF path
    <2>2. Draws(0, path)
      BY <1>2, <1>3, <2>1 DEF Draws, Drawn
    <2> QED BY <2>1, <2>2 DEF OnePath
  <1> QED BY <1>1, <1>4, <1>5 DEF Deaf

\* A value moves the register on: along the path or, at its end, one further.
LEMMA CopiesOnePath ==
  ASSUME Deaf, Copies
  PROVE  Told' /\ OnePath'
  <1> DEFINE k == Len(destination)
             x == Output(call.kind, generated(v'))
  <1>1. /\ k < call.len /\ call' = call /\ told' = told /\ max_' = max_ /\ seed_' = seed_
        /\ max_ => v' = lfsr_next(v) /\ destination' = Append(destination, x)
    BY DEF Copies, helper_vars
  <1>2. Told'
    BY <1>1 DEF Deaf, Told
  <1>3. ASSUME max_ PROVE OnePath'
    <2>1. PICK n \in Nat : \E path \in [0 .. n -> Word] : Draws(n, path)
      BY <1>3 DEF Deaf, OnePath
    <2>2. PICK path \in [0 .. n -> Word] : Draws(n, path)
      BY <2>1
    <2> HIDE DEF x
    <2>3. /\ k \in Nat /\ Len(destination') = k + 1
          /\ \A i \in 1 .. k : destination'[i] = destination[i]
          /\ destination'[k + 1] = x
      <3>1. destination \in Seq({destination[i] : i \in 1 .. Len(destination)})
        BY DEF Deaf, Window, Copied
      <3> QED BY <1>1, <1>3, <3>1, Appended
    <2>4. call # NoCall
      BY <1>1, <2>3 DEF NoCall
    <2>5. v = path[k] /\ k <= n /\ v \in Word
      BY <2>2, <2>3, <2>4 DEF Draws, k
    <2> HIDE DEF k
    <2>6. \E m \in Nat : \E p \in [0 .. m -> Word] :
            /\ Path(m, p) /\ k + 1 <= m /\ n <= m
            /\ p[k + 1] = v' /\ \A i \in 0 .. n : p[i] = path[i]
      <3>1. CASE k < n
        <4>1. path[k + 1] = v'
          BY <1>1, <1>3, <2>2, <2>3, <2>5, <3>1 DEF Draws, Path
        <4> QED BY <2>2, <2>3, <3>1, <4>1 DEF Draws
      <3>2. CASE ~(k < n)
        <4> DEFINE p == [i \in 0 .. n + 1 |-> IF i = n + 1 THEN v' ELSE path[i]]
        <4>1. k = n
          BY <2>3, <2>5, <3>2
        <4>2. v' = lfsr_next(v) /\ v' \in Word
          BY <1>1, <1>3, <2>5, NextWord
        <4>3. p \in [0 .. n + 1 -> Word]
          BY <4>2
        <4>4. p[n + 1] = v' /\ \A i \in 0 .. n : p[i] = path[i]
          OBVIOUS
        <4> HIDE DEF p
        <4>5. ASSUME NEW i \in 0 .. (n + 1) - 1 PROVE p[i + 1] = lfsr_next(p[i])
          <5>1. CASE i = n
            BY <2>5, <4>1, <4>2, <4>4, <5>1
          <5>2. CASE i # n
            <6>1. i \in 0 .. n - 1 /\ i + 1 \in 0 .. n /\ i \in 0 .. n
              BY <5>2
            <6>2. path[i + 1] = lfsr_next(path[i])
              BY <2>2, <6>1 DEF Draws, Path
            <6> QED BY <4>4, <6>1, <6>2
          <5> QED BY <5>1, <5>2
        <4>6. p[0] = seed_
          BY <2>2, <4>4 DEF Draws, Path
        <4>7. Path(n + 1, p)
          BY <4>3, <4>5, <4>6 DEF Path
        <4> QED BY <4>1, <4>3, <4>4, <4>7
      <3> QED BY <3>1, <3>2
    <2>7. PICK m \in Nat : \E p \in [0 .. m -> Word] :
            /\ Path(m, p) /\ k + 1 <= m /\ n <= m
            /\ p[k + 1] = v' /\ \A i \in 0 .. n : p[i] = path[i]
      BY <2>6
    <2>8. PICK p \in [0 .. m -> Word] :
            /\ Path(m, p) /\ k + 1 <= m /\ n <= m
            /\ p[k + 1] = v' /\ \A i \in 0 .. n : p[i] = path[i]
      BY <2>7
    <2>9. Drawn(p, call.kind, destination')
      <3> SUFFICES ASSUME NEW i \in 1 .. k + 1
                   PROVE  destination'[i] = Output(call.kind, generated(p[i]))
        BY <2>3 DEF Drawn
      <3>1. CASE i = k + 1
        BY <2>3, <2>8, <3>1 DEF x
      <3>2. CASE i # k + 1
        <4>1. i \in 1 .. k /\ i \in 0 .. n
          BY <2>3, <2>5, <3>2
        <4>2. destination[i] = Output(call.kind, generated(path[i]))
          BY <2>2, <4>1 DEF Draws, Drawn, k
        <4> QED BY <2>3, <2>8, <4>1, <4>2
      <3> QED BY <3>1, <3>2
    <2>10. Drawn(p, told.kind, told.values) /\ Len(told.values) <= m
      <3>1. Len(told.values) \in Nat
        BY LenProperties DEF Deaf, Told
      <3>2. Len(told.values) <= n
        BY <2>2 DEF Draws
      <3>3. \A i \in 1 .. Len(told.values) : i \in 0 .. n
        BY <3>1, <3>2
      <3>4. \A i \in 1 .. Len(told.values) : p[i] = path[i]
        BY <2>8, <3>3
      <3>5. \A i \in 1 .. Len(told.values) :
              told.values[i] = Output(told.kind, generated(path[i]))
        BY <2>2 DEF Draws, Drawn
      <3>6. Len(told.values) <= m
        BY <2>8, <3>1, <3>2
      <3> QED BY <3>4, <3>5, <3>6 DEF Drawn
    <2>11. Path(m, p)'
      BY <1>1, <2>8 DEF Path
    <2>12. Draws(m, p)'
      <3>1. Drawn(p, call.kind, destination)' /\ Drawn(p, told.kind, told.values)'
        BY <1>1, <2>9, <2>10 DEF Drawn, Output, generated, Clip, Scaled, ScaledDecibels
      <3>2. /\ (Len(destination) <= m)' /\ (Len(told.values) <= m)'
            /\ v' = p[Len(destination')]
        BY <1>1, <2>3, <2>8, <2>10
      <3> QED BY <2>11, <3>1, <3>2 DEF Draws
    <2> QED BY <2>12 DEF OnePath
  <1>4. ~max_ => OnePath'
    BY <1>1 DEF OnePath
  <1> QED BY <1>2, <1>3, <1>4

\* A call begins at the path's start, one that returns is the one before from then on.
LEMMA NextDeaf == Deaf /\ [Next]_vars => Deaf'
  <1> SUFFICES ASSUME Deaf, [Next]_vars PROVE Told' /\ OnePath'
    BY NextInv, NextWindow DEF Deaf
  <1>1. ASSUME call' = call, destination' = destination, told' = told, v' = v,
               max_' = max_, seed_' = seed_
        PROVE  Told' /\ OnePath'
    <2>1. Told'
      BY <1>1 DEF Deaf, Told
    <2>2. \A n, path : Draws(n, path) => Draws(n, path)'
      BY <1>1 DEF Draws, Path, Drawn, Output, generated, Clip, Scaled, ScaledDecibels
    <2>3. OnePath'
      BY <1>1, <2>2 DEF Deaf, OnePath
    <2> QED BY <2>1, <2>3
  <1>2. CASE WriteInput
    BY <1>1, <1>2 DEF WriteInput, WritesSample, MovesIndex, helper_vars, call_vars
  <1>3. ASSUME NEW kind \in Kind, NEW fft_size \in FFTSize, NEW len \in 1 .. fft_size,
               Calls(kind, len, fft_size)
        PROVE  Told' /\ OnePath'
    <2>1. /\ call = NoCall /\ destination' = destination /\ told' = told /\ v' = seed_
          /\ max_' = max_ /\ seed_' = seed_
      BY <1>3 DEF Calls, FirstRegister, helper_vars
    <2>2. destination = <<>> /\ Len(destination) = 0
      BY <2>1 DEF Deaf, Window, Copied
    <2>3. Told'
      BY <2>1 DEF Deaf, Told
    <2>4. \A n, path : Draws(n, path) => Draws(n, path)'
      <3> SUFFICES ASSUME NEW n, NEW path, Draws(n, path) PROVE Draws(n, path)'
        OBVIOUS
      <3>1. Path(n, path)' /\ path[0] = seed_
        BY <2>1 DEF Draws, Path
      <3>2. Drawn(path, told.kind, told.values)' /\ (Len(told.values) <= n)'
        BY <2>1 DEF Draws, Drawn, Output, generated, Clip, Scaled, ScaledDecibels
      <3>3. Drawn(path, call.kind, destination)' /\ (Len(destination) <= n)'
        BY <2>1, <2>2 DEF Draws, Drawn
      <3> QED BY <2>1, <2>2, <3>1, <3>2, <3>3 DEF Draws
    <2>5. OnePath'
      BY <2>1, <2>4 DEF Deaf, OnePath
    <2> QED BY <2>3, <2>5
  <1>4. CASE Copies
    BY <1>4, CopiesOnePath
  <1>5. CASE Returns
    <2>1. /\ call' = NoCall /\ destination' = <<>> /\ Len(destination') = 0
          /\ max_' = max_ /\ seed_' = seed_
          /\ told' = IF max_ THEN [kind |-> call.kind, values |-> destination] ELSE told
      <3>1. call' = NoCall /\ destination' = <<>>
        BY <1>5 DEF Returns
      <3>2. Len(destination') = 0
        BY <3>1
      <3> QED BY <1>5, <3>1, <3>2 DEF Returns, helper_vars
    <2>2. Told'
      BY <2>1 DEF Deaf, Told, Window, Copied
    <2>3. ASSUME max_ PROVE OnePath'
      <3>1. told'.kind = call.kind /\ told'.values = destination
        BY <2>1, <2>3
      <3>2. ASSUME NEW n \in Nat, NEW path, Draws(n, path) PROVE Draws(n, path)'
        <4>1. Path(n, path)'
          BY <2>1, <3>2 DEF Draws, Path
        <4>2. Drawn(path, told.kind, told.values)' /\ (Len(told.values) <= n)'
          BY <3>1, <3>2 DEF Draws, Drawn, Output, generated, Clip, Scaled, ScaledDecibels
        <4>3. Drawn(path, call.kind, destination)' /\ (Len(destination) <= n)'
          BY <2>1 DEF Drawn
        <4> QED BY <2>1, <4>1, <4>2, <4>3 DEF Draws
      <3> QED BY <2>3, <3>2 DEF Deaf, OnePath
    <2>4. ~max_ => OnePath'
      BY <2>1 DEF OnePath
    <2> QED BY <2>2, <2>3, <2>4
  <1>6. CASE UNCHANGED vars
    BY <1>1, <1>6 DEF vars, helper_vars, call_vars
  <1> QED BY <1>2, <1>3, <1>4, <1>5, <1>6 DEF Next

\* Two calls of a kind tell the same values as far as the shorter goes:
\* MaximumIsDeaf, for every seed and whatever the audio thread writes between
\* and during them (whale_audio_farbling_helper.cc:33-38, 54-60, 82-100,
\* 132-153, 181-188).
THEOREM DeafCorrect == Spec => []MaximumIsDeaf
  <1>1. Deaf => MaximumIsDeaf
    <2> SUFFICES ASSUME Deaf, max_, call.kind = told.kind,
                        NEW i \in DOMAIN destination \cap DOMAIN told.values
                 PROVE  destination[i] = told.values[i]
      BY DEF MaximumIsDeaf
    <2>1. i \in 1 .. Len(destination) /\ i \in 1 .. Len(told.values)
      BY LenProperties DEF Deaf, Window, Copied, Told
    <2>2. PICK n \in Nat : \E path \in [0 .. n -> Word] : Draws(n, path)
      BY DEF Deaf, OnePath
    <2>3. PICK path : Draws(n, path)
      BY <2>2
    <2>4. destination[i] = Output(call.kind, generated(path[i]))
      BY <2>1, <2>3 DEF Draws, Drawn
    <2>5. told.values[i] = Output(told.kind, generated(path[i]))
      BY <2>1, <2>3 DEF Draws, Drawn
    <2> QED BY <2>4, <2>5
  <1> QED BY <1>1, InitDeaf, NextDeaf, PTL DEF Spec

-----------------------------------------------------------------------------
\* The pixels.

\* What Number's equation asks of the numbers of the highest bits up to n.
Adds(u, n, f) ==
    f = [k \in 0 .. n |-> IF k = 0 THEN 0
                          ELSE 2 * f[k - 1] + (IF u[Width - k] THEN 1 ELSE 0)]

\* There are such numbers, for bits up to any place, and they are natural.
LEMMA NumberExists ==
  ASSUME NEW u
  PROVE  \A n \in Nat : \E f \in [0 .. n -> Nat] : Adds(u, n, f)
  <1> DEFINE S == {n \in Nat : \E f \in [0 .. n -> Nat] : Adds(u, n, f)}
             bit(k) == IF u[Width - k] THEN 1 ELSE 0
  <1>1. 0 \in S
    <2> DEFINE f == [k \in 0 .. 0 |-> 0]
    <2>1. f \in [0 .. 0 -> Nat]
      OBVIOUS
    <2>2. Adds(u, 0, f)
      BY DEF Adds
    <2> QED BY <2>1, <2>2
  <1>2. ASSUME NEW n \in Nat, n \in S PROVE n + 1 \in S
    <2>1. PICK f \in [0 .. n -> Nat] : Adds(u, n, f)
      BY <1>2
    <2> DEFINE g == [k \in 0 .. n + 1 |-> IF k = n + 1 THEN 2 * f[n] + bit(n + 1) ELSE f[k]]
    <2>2. 2 * f[n] + bit(n + 1) \in Nat
      <3>1. bit(n + 1) \in Nat /\ f[n] \in Nat
        OBVIOUS
      <3> HIDE DEF bit
      <3> QED BY <3>1
    <2>3. g \in [0 .. n + 1 -> Nat]
      BY <2>2
    <2>4. g[n + 1] = 2 * f[n] + bit(n + 1) /\ \A k \in 0 .. n : g[k] = f[k]
      <3>1. n + 1 \in 0 .. n + 1 /\ \A k \in 0 .. n : k \in 0 .. n + 1 /\ k # n + 1
        OBVIOUS
      <3> HIDE DEF bit
      <3> QED BY <3>1
    <2>5. g = [k \in 0 .. n + 1 |-> g[k]]
      OBVIOUS
    <2> HIDE DEF g
    <2>6. ASSUME NEW k \in 0 .. n + 1
          PROVE  g[k] = IF k = 0 THEN 0 ELSE 2 * g[k - 1] + bit(k)
      <3>1. CASE k = n + 1
        <4>1. k - 1 = n /\ n \in 0 .. n /\ k # 0
          BY <3>1
        <4> QED BY <2>4, <3>1, <4>1
      <3>2. CASE k # n + 1
        <4>1. k \in 0 .. n /\ (k # 0 => k - 1 \in 0 .. n)
          BY <3>2
        <4>2. f[k] = IF k = 0 THEN 0 ELSE 2 * f[k - 1] + bit(k)
          BY <2>1, <4>1 DEF Adds
        <4> QED BY <2>4, <4>1, <4>2
      <3> QED BY <3>1, <3>2
    <2>7. Adds(u, n + 1, g)
      BY <2>5, <2>6 DEF Adds
    <2>8. n + 1 \in Nat
      OBVIOUS
    <2> QED BY <2>3, <2>7, <2>8
  <1> HIDE DEF S
  <1>3. Nat \subseteq S
    BY <1>1, <1>2, SetInduction
  <1> QED BY <1>3 DEF S

\* Number satisfies its equation, and is a natural number.
LEMMA NumberIsNatural == \A u : Number(u) \in Nat
  <1> SUFFICES ASSUME NEW u PROVE Number(u) \in Nat
    OBVIOUS
  <1> DEFINE f == CHOOSE f : Adds(u, Width, f)
             bit(k) == IF u[Width - k] THEN 1 ELSE 0
  <1>1. Number(u) = f[Width]
    BY DEF Number, Adds
  <1>2. Adds(u, Width, f)
    <2>1. \E g : Adds(u, Width, g)
      BY NumberExists, WidthAssumption
    <2> QED BY <2>1
  <1> HIDE DEF f
  <1> DEFINE S == {n \in Nat : n <= Width => f[n] \in Nat}
  <1>3. 0 \in S
    BY <1>2, WidthAssumption DEF Adds
  <1>4. ASSUME NEW n \in Nat, n \in S PROVE n + 1 \in S
    <2> SUFFICES ASSUME n + 1 <= Width PROVE f[n + 1] \in Nat
      OBVIOUS
    <2>1. n + 1 \in 0 .. Width /\ n + 1 # 0 /\ (n + 1) - 1 = n /\ f[n] \in Nat
      BY <1>4, WidthAssumption
    <2>2. f[n + 1] = 2 * f[n] + bit(n + 1)
      BY <1>2, <2>1 DEF Adds
    <2>3. bit(n + 1) \in Nat
      OBVIOUS
    <2> HIDE DEF bit
    <2> QED BY <2>1, <2>2, <2>3
  <1> HIDE DEF S
  <1>5. Nat \subseteq S
    BY <1>3, <1>4, SetInduction
  <1> QED BY <1>1, <1>5, WidthAssumption DEF S

\* The byte PerturbPixels changes is a colour of a pixel of the canvas:
\* PixelsInside, for canvases of any size and words of any width
\* (whale_session_cache.cc:301-326).
THEOREM PixelsCorrect == Spec => []PixelsInside
  <1>1. ASSUME NEW size \in 4 .. MaxSize
        PROVE  pixel_index(v, size) < size /\ pixel_index(v, size) % 4 # 3
    <2> DEFINE k == size \div 4
               n == Number(v)
               p == n % k
               b == n % 3
    <2>1. n \in Nat
      BY NumberIsNatural
    <2> HIDE DEF n
    <2>2. k \in Nat \ {0} /\ 4 * k <= size /\ size \in Nat
      BY SizeAssumption
    <2> HIDE DEF k
    <2>3. p \in 0 .. k - 1 /\ b \in 0 .. 2
      BY <2>1, <2>2, DivMod
    <2> HIDE DEF p, b
    <2>4. pixel_index(v, size) = 4 * p + b
      BY DEF pixel_index, pixel_count, p, b, n, k
    <2>5. 4 * p + b < size
      BY <2>2, <2>3
    <2>6. (4 * p + b) % 4 = b
      BY <2>3
    <2> QED BY <2>3, <2>4, <2>5, <2>6
  <1>2. PixelsInside
    BY <1>1 DEF PixelsInside
  <1> QED BY <1>2, PTL
=============================================================================
