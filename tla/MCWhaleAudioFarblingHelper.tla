---------------------- MODULE MCWhaleAudioFarblingHelper ----------------------
(***************************************************************************)
(* A ring of six samples, written two at a time, windows of two and three, *)
(* a signal that leaves the nominal range on both sides and is long enough *)
(* for the audio thread to come round to the windows of most calls.        *)
(***************************************************************************)
EXTENDS WhaleAudioFarblingHelper

MCFFTSize == {2, 3}
MCSignal == [t \in 0 .. 15 |-> ((8 * t) % 13) - 6]
MCSource == [i \in 0 .. 2 |-> (5 * i) % 7]
MCLinearToDecibels(value) == (value \div 8) - 60
=============================================================================
