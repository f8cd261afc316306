----------------------- MODULE WhaleAudioFarblingHelper -----------------------
(***************************************************************************)
(* whale_audio_farbling_helper.cc between the two parties that meet in it: *)
(* an analyser whose audio thread writes samples into a ring, and a script *)
(* that reads the last of them, farbled.  The helper is given the ring     *)
(* itself and the write index as it was when the script called, and copies *)
(* sample by sample while the audio thread goes on.  Nothing locks the     *)
(* ring: the two may touch it in any order, one sample at a time.          *)
(*                                                                         *)
(* Samples are integers, in units of 1 / Unit of the nominal range -1..1.  *)
(* fudge_factor_ is in hundredths, and farbled values in units of          *)
(* 1 / (100 * Unit), so that scaling and clipping are exact.               *)
(***************************************************************************)
EXTENDS FarblingLFSR, Integers, Sequences

CONSTANTS
    InputBufferSize,      \* the slots of the ring
    Quantum,              \* the samples the audio thread writes at a time
    FFTSize,              \* the window sizes a script may choose
    Signal,               \* time |-> the sample taken then
    Source,               \* index |-> a value of the analyser's spectrum, or of
                          \* a channel
    LinearToDecibels(_),  \* audio_utilities
    MinDecibels,          \* the range that is scaled to bytes
    DecibelRange,
    Unit,
    FudgeFactor,          \* hundredths
    MaxSamples            \* bound on the samples written

ASSUME AnalyserAssumption ==
    /\ InputBufferSize \in Nat \ {0} /\ Quantum \in Nat \ {0}
    /\ InputBufferSize % Quantum = 0
    /\ FFTSize \subseteq Nat
    /\ \A fft_size \in FFTSize : 2 * fft_size <= InputBufferSize

ASSUME SampleAssumption ==
    /\ MaxSamples \in Nat
    /\ \A t \in 0 .. MaxSamples - 1 : Signal[t] \in Int
    /\ \A fft_size \in FFTSize : \A i \in 0 .. fft_size - 1 : Source[i] \in Int

\* A louder value has more decibels.
ASSUME ScaleAssumption ==
    /\ FudgeFactor \in Nat /\ Unit \in Nat \ {0}
    /\ MinDecibels \in Int /\ DecibelRange \in Nat \ {0}
    /\ LET values == UNION { {FudgeFactor * Source[i] : i \in 0 .. fft_size - 1} :
                             fft_size \in FFTSize }
       IN \A x, y \in values :
            /\ LinearToDecibels(x) \in Int
            /\ x <= y => LinearToDecibels(x) <= LinearToDecibels(y)

VARIABLES
    max_, seed_,   \* the helper's
    input_buffer,  \* the ring
    written,       \* how many samples its write index counts
    landed,        \* those of the quantum after these that are in the ring
    call,          \* the script's call: its arguments, or NoCall
    destination,   \* what the call has copied, v its register
    called_at,     \* history: written at the time of the call
    told           \* history: the kind and the values of the last finished call

helper_vars == <<max_, seed_>>
analyser_vars == <<input_buffer, written, landed>>
call_vars == <<call, destination, v, called_at, told>>
vars == <<helper_vars, analyser_vars, call_vars>>

TimeDomain == {"FloatTimeDomainData", "ByteTimeDomainData"}
Kind == TimeDomain \cup {"AudioChannel", "ConvertToByteData", "ConvertFloatToDb"}

NoCall == [kind |-> "none", len |-> 0, write_index |-> 0, fft_size |-> 0]
UCHAR_MAX == 255

\* A seed is eight bytes of a keyed hash, which is not nought for any domain
\* that is known; below the maximum level it is not looked at.
Init ==
    /\ max_ \in BOOLEAN
    /\ seed_ \in IF max_ THEN Word \ {zero} ELSE {Not(zero)}
    /\ input_buffer = [n \in 0 .. InputBufferSize - 1 |-> 0]
    /\ written = 0
    /\ landed = {}
    /\ call = NoCall
    /\ destination = <<>>
    /\ v = seed_
    /\ called_at = 0
    /\ told = [kind |-> "none", values |-> <<>>]

-----------------------------------------------------------------------------
\* The analyser's audio thread, which waits for no script.  The samples of a
\* quantum get to the ring in any order, then the write index moves.
WritesSample(k) ==
    /\ written + Quantum <= MaxSamples
    /\ k \notin landed
    /\ input_buffer' = [input_buffer EXCEPT ![(written + k) % InputBufferSize] =
                          Signal[written + k]]
    /\ landed' = landed \cup {k}
    /\ UNCHANGED <<written, helper_vars, call_vars>>

MovesIndex ==
    /\ landed = 0 .. Quantum - 1
    /\ written' = written + Quantum
    /\ landed' = {}
    /\ UNCHANGED <<input_buffer, helper_vars, call_vars>>

WriteInput == (\E k \in 0 .. Quantum - 1 : WritesSample(k)) \/ MovesIndex

\* A script asks for len values.  Every call starts from the seed.
FirstRegister_Kept == v
FirstRegister == seed_

Calls(kind, len, fft_size) ==
    /\ call = NoCall
    /\ len <= fft_size
    /\ call' = [ kind |-> kind, len |-> len, fft_size |-> fft_size,
                 write_index |-> written % InputBufferSize ]
    /\ v' = FirstRegister
    /\ called_at' = written
    /\ UNCHANGED <<helper_vars, analyser_vars, destination, told>>

-----------------------------------------------------------------------------
\* The helper.
slot_OfLen(i) ==
    (i + call.write_index - call.len + InputBufferSize) % InputBufferSize
slot(i) ==
    (i + call.write_index - call.fft_size + InputBufferSize) % InputBufferSize

input(i) == IF call.kind \in TimeDomain THEN input_buffer[slot(i)] ELSE Source[i]

farbled(sample) == FudgeFactor * sample

\* At the maximum level, a tenth of the register over the most it can hold.
generated(u) == (10 * Unit * Number(u)) \div (2 ^ Width - 1)

Clip_Below(scaled) == IF scaled < 0 THEN 0 ELSE scaled
Clip(scaled) ==
    CASE scaled < 0         -> 0
      [] scaled > UCHAR_MAX -> UCHAR_MAX
      [] OTHER              -> scaled

Scaled(value) == (128 * (value + 100 * Unit)) \div (100 * Unit)
ScaledDecibels(value) ==
    (UCHAR_MAX * (LinearToDecibels(value) - MinDecibels)) \div DecibelRange

\* A cast to a byte keeps the low eight bits.
Output(kind, value) ==
    CASE kind = "ByteTimeDomainData" -> Clip(Scaled(value)) % 256
      [] kind = "ConvertToByteData"  -> Clip(ScaledDecibels(value)) % 256
      [] kind = "ConvertFloatToDb"   -> LinearToDecibels(value)
      [] OTHER                       -> value

Copies ==
    /\ Len(destination) < call.len
    /\ v' = IF max_ THEN lfsr_next(v) ELSE v
    /\ destination' = Append(destination,
          Output(call.kind,
                 IF max_ THEN generated(v') ELSE farbled(input(Len(destination)))))
    /\ UNCHANGED <<helper_vars, analyser_vars, call, called_at, told>>

Returns ==
    /\ call # NoCall
    /\ Len(destination) = call.len
    /\ call' = NoCall
    /\ destination' = <<>>
    /\ told' = IF max_ THEN [kind |-> call.kind, values |-> destination] ELSE told
    /\ UNCHANGED <<helper_vars, analyser_vars, v, called_at>>

Next ==
    \/ WriteInput
    \/ \E kind \in Kind, fft_size \in FFTSize :
         \E len \in 1 .. fft_size : Calls(kind, len, fft_size)
    \/ Copies
    \/ Returns

Spec == Init /\ [][Next]_vars

-----------------------------------------------------------------------------
\* The samples that have been in the slot the i-th value is read from, from the
\* call on.  The first is that of the window of the last fft_size samples, with
\* silence before the first; the others replaced it, whole rings later.
SampleAt(t) == IF t < 0 THEN 0 ELSE Signal[t]
Taken(t) == t < written \/ t - written \in landed
Times(i) ==
    LET first == called_at - call.fft_size + i
    IN {t \in first .. written + Quantum - 1 :
          Taken(t) /\ (t - first) % InputBufferSize = 0}
Samples(i) ==
    IF call.kind \in TimeDomain THEN {SampleAt(t) : t \in Times(i)} ELSE {Source[i]}

\* Every value is the farbled sample of its place in the window as it was at the
\* call, or one that the audio thread has put in that place since: as long as
\* it has not come round, the window itself in order of time, and a sample of
\* another place never (whale_audio_farbling_helper.cc:62-70, 102-107, 155-156).
ReadsTheWindow ==
    ~max_ => \A i \in 0 .. Len(destination) - 1 :
               \E sample \in Samples(i) :
                 destination[i + 1] = Output(call.kind, farbled(sample))

\* Farbling keeps the order of the samples, also where they leave the nominal
\* range and wherever the audio thread is: a place that only had louder samples
\* than another never comes out as a smaller byte (:109-120, 161-172).
OrderIsKept ==
    ~max_ => \A i, j \in 0 .. Len(destination) - 1 :
               (\A x \in Samples(i), y \in Samples(j) : x <= y) =>
                 destination[i + 1] <= destination[j + 1]

\* At the maximum level a call tells what the call of its kind before it told,
\* whatever was played meanwhile (:33-38, 54-60, 82-100, 132-153, 181-188).
MaximumIsDeaf ==
    max_ /\ call.kind = told.kind =>
      \A i \in DOMAIN destination \cap DOMAIN told.values :
        destination[i] = told.values[i]
=============================================================================
