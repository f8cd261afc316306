----------------------------- MODULE FarblingLFSR -----------------------------
(***************************************************************************)
(* The shift register behind the pseudo-random pixels, letters and samples *)
(* (lfsr_next in whale_session_cache.cc and, the same, in                  *)
(* whale_audio_farbling_helper.cc), translated operation by operation for  *)
(* words of any width, and what is indexed with its values.  The module    *)
(* that moves the register is WhaleAudioFarblingHelper.                    *)
(***************************************************************************)
EXTENDS Naturals

CONSTANTS
    Width,   \* bits of a word; 64 in the code
    MaxSize  \* bound on the bytes of a canvas

ASSUME WidthAssumption == Width \in Nat /\ Width >= 3
ASSUME SizeAssumption == MaxSize \in Nat

VARIABLE v  \* the register

Bit == 0 .. Width - 1
Word == [Bit -> BOOLEAN]
zero == [i \in Bit |-> FALSE]

Shl(u, n) == [i \in Bit |-> i >= n /\ u[i - n]]
Shr(u, n) == [i \in Bit |-> i + n < Width /\ u[i + n]]
Not(u) == [i \in Bit |-> ~u[i]]
And(u, w) == [i \in Bit |-> u[i] /\ w[i]]
Or(u, w) == [i \in Bit |-> u[i] \/ w[i]]
Xor(u, w) == [i \in Bit |-> u[i] # w[i]]

\* F_Word just before F is a faulty variant of F, as in WhaleQueryFilter.
mask_TopBit == Shl(Not(zero), Width - 1)
mask == Shl(Not(Shl(Not(zero), Width - 1)), Width - 2)

lfsr_next(u) ==
    Or(Shr(u, 1), And(Xor(Shl(u, Width - 2), Shl(u, Width - 3)), mask))

\* The number a word stands for: that of its highest bits, bit by bit.
Number(u) ==
    LET of_highest[n \in 0 .. Width] ==
          IF n = 0 THEN 0
          ELSE 2 * of_highest[n - 1] + (IF u[Width - n] THEN 1 ELSE 0)
    IN of_highest[Width]

\* The byte of a canvas that PerturbPixels changes, and the letter that
\* GenerateRandomString takes, when the register holds u.
pixel_count_Bytes(size) == size \div 3
pixel_count(size) == size \div 4
pixel_index(u, size) == 4 * (Number(u) % pixel_count(size)) + (Number(u) % 3)

-----------------------------------------------------------------------------
\* The register never runs dry: nought, which it could not leave again, is
\* not reached from anything else (whale_session_cache.cc:45-47,
\* whale_audio_farbling_helper.cc:18-20).
NeverZero == v # zero

\* Of a canvas of at least one pixel, whole pixels or not, the byte that is
\* changed when the register holds v is inside and is never a pixel's alpha
\* (whale_session_cache.cc:301-326).
PixelsInside ==
    \A size \in 4 .. MaxSize :
      pixel_index(v, size) < size /\ pixel_index(v, size) % 4 # 3
=============================================================================
