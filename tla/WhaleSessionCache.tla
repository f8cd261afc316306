--------------------------- MODULE WhaleSessionCache ---------------------------
(***************************************************************************)
(* whale_session_cache.cc and what asks it in mouse_event.h, touch.h,      *)
(* pointer_event.h and webgl2_rendering_context_base.h: the cache that     *)
(* every execution context of a page makes when a script first asks for    *)
(* something that identifies the device, and what scripts are told.        *)
(*                                                                         *)
(* Contexts are the windows, workers and worklets of several tabs, whose   *)
(* settings and frames change while they ask.  A behaviour watches one of  *)
(* the two coordinates or everything else that a script may ask; the       *)
(* others are asked as well, for what they do to the cache.                *)
(*                                                                         *)
(* A hash is named by what it is the hash of; device memory is in quarters *)
(* of a gibibyte.  F_Word just before F is a faulty variant of F.          *)
(***************************************************************************)
EXTENDS Integers, Sequences

CONSTANTS
    Context,
    ContextKind,       \* what a context may be, see Kind below
    Domain,            \* registrable domains, those of the tabs among them
    Garbage,           \* what the memory of a new cache may hold
    Random(_, _, _),   \* the numbers of a generator, by domain key, FarbleKey
                       \* and position
    Letters(_),        \* GenerateRandomString of one seed, by domain key
    Memory,            \* what the device may have
    Processors,
    GLValue,           \* the graphics driver's values, by parameter
    WindowKey,         \* the keys and the range of offsets that windows ask
    WindowRange,       \* for their sizes and places with
    ScreenOffset       \* where the client area really is on the screen

NoDomain == ""  \* of a host that is empty, an address or a public suffix

\* What a context is: a window, a worklet or else a worker, its own origin, that
\* of the top frame of its tab, and the site whose settings its client has.
Origin == [protocol : {"https", "about", "chrome-extension"},
           opaque : BOOLEAN, domain : Domain \cup {NoDomain}]
Kind == [window : BOOLEAN, worklet : BOOLEAN,
         own : Origin, top : Origin, site : Domain]

ASSUME KindAssumption == ContextKind \subseteq Kind

Site == {k.site : k \in ContextKind}

ASSUME GarbageAssumption == Garbage \cap (Domain \cup {NoDomain}) = {}

VARIABLES
    kind,      \* what every context is
    frame,     \* "attached", "disconnected" or "none", of windows
    level,     \* the farbling level that is set for each site
    device,    \* true memory and processors
    cache,     \* the supplement of every context
    alive,     \* whether the renderer still runs
    watch,     \* what is watched
    answer     \* history: the last answer to that in each context

vars == <<kind, frame, level, device, cache, alive, watch, answer>>
fixed == <<kind, device, watch>>

WhaleFarblingLevel == {"BALANCED", "OFF", "MAXIMUM"}

FarbleKey ==
    { "kNone", "kWindowInnerWidth", "kWindowInnerHeight", "kWindowScreenX",
      "kWindowScreenY", "kPointerScreenX", "kPointerScreenY" }

PointerKeys == {"kPointerScreenX", "kPointerScreenY"}

\* Windows have keys of their own for their sizes and places.
ASSUME WindowKeyAssumption ==
    WindowKey \subseteq FarbleKey \ (PointerKeys \cup {"kNone"})

\* A generator gives unsigned numbers.
ASSUME RandomAssumption ==
    \A key \in Domain \cup Garbage, farble_key \in FarbleKey, i \in 1 .. 13 :
      Random(key, farble_key, i) \in Nat

NoCache == [farbling_level_ |-> "none"]
Nothing == <<>>

Exists(c) == cache[c] # NoCache

-----------------------------------------------------------------------------
\* Making a cache.
PrivilegedProtocol == {"about", "chrome-extension"}

HasFrame(c) == kind[c].window => frame[c] # "none"

\* Whether the client is the top frame's or, when that is in another process,
\* the context's own, it has the settings of the tab's site.  A worklet has none.
HasContentSettingsClient(c) ==
    /\ kind[c].own.protocol \notin PrivilegedProtocol
    /\ HasFrame(c)
    /\ ~kind[c].worklet

\* The domain that the key is made from, if the constructor gets that far.
KeyOrigin_Own(c) == kind[c].own
KeyOrigin(c) == IF kind[c].window THEN kind[c].top ELSE kind[c].own

HasDomain(c) ==
    /\ HasFrame(c)
    /\ ~KeyOrigin(c).opaque
    /\ KeyOrigin(c).domain # NoDomain

\* The constructor reads the level last, after its early returns.
ReadLevel_First(c) ==
    IF HasContentSettingsClient(c) THEN level[kind[c].site] ELSE "OFF"
ReadLevel(c) ==
    IF HasDomain(c) /\ HasContentSettingsClient(c) THEN level[kind[c].site] ELSE "OFF"

NewCaches(c) ==
    { [ farbling_enabled_ |-> FALSE,
        farbling_level_ |-> ReadLevel(c),
        domain_key_ |-> key,
        farbled_integers_ |-> <<>>,
        audio_farbling_helper_ |->
            IF ReadLevel(c) = "OFF" THEN Nothing
            ELSE <<key, ReadLevel(c) = "MAXIMUM">> ] :
      key \in IF HasDomain(c) THEN {KeyOrigin(c).domain} ELSE Garbage }

From_Forgets(c) == NewCaches(c)
From(c) == IF Exists(c) THEN {cache[c]} ELSE NewCaches(c)

-----------------------------------------------------------------------------
\* What a cache s answers.
GetWhaleFarblingLevelFor(s) == s.farbling_level_
AllowFingerprinting(s) == GetWhaleFarblingLevelFor(s) # "MAXIMUM"
BlockScreenFingerprinting(s) == GetWhaleFarblingLevelFor(s) # "OFF"

MakePseudoRandomGenerator(s, key) == [i \in 1 .. 13 |-> Random(s.domain_key_, key, i)]

\* The fake processors are between two and eight, whatever the device has.
kFakeMinProcessors == 2
kFakeMaxProcessors == 8
ApplyWhaleHardwareConcurrencyOverride(s) ==
    IF AllowFingerprinting(s) \/ device.processors <= 2 THEN device.processors
    ELSE kFakeMinProcessors +
           (MakePseudoRandomGenerator(s, "kNone")[1]
              % (kFakeMaxProcessors + 1 - kFakeMinProcessors))

\* A value that is not in the table counts as the last one.
valid_values == <<1, 2, 4, 8, 16, 32>>
true_index ==
    IF \E i \in DOMAIN valid_values : valid_values[i] = device.memory
    THEN CHOOSE i \in DOMAIN valid_values : valid_values[i] = device.memory
    ELSE Len(valid_values)
FarbleDeviceMemory(s) ==
    IF GetWhaleFarblingLevelFor(s) = "OFF" THEN device.memory
    ELSE IF true_index <= 2 THEN valid_values[2]
    ELSE valid_values[2 + (MakePseudoRandomGenerator(s, "kNone")[1] % (true_index - 1))]

\* A value of the driver, or one less, and never below nought.  Each parameter
\* discards as many numbers as its place in the table.
GLParameter ==
    << "GL_MAX_VERTEX_UNIFORM_COMPONENTS", "GL_MAX_VERTEX_UNIFORM_BLOCKS",
       "GL_MAX_VERTEX_OUTPUT_COMPONENTS", "GL_MAX_VARYING_COMPONENTS",
       "GL_MAX_TRANSFORM_FEEDBACK_INTERLEAVED_COMPONENTS",
       "GL_MAX_FRAGMENT_UNIFORM_COMPONENTS", "GL_MAX_FRAGMENT_UNIFORM_BLOCKS",
       "GL_MAX_FRAGMENT_INPUT_COMPONENTS", "GL_MAX_UNIFORM_BUFFER_BINDINGS",
       "GL_MAX_COMBINED_UNIFORM_BLOCKS",
       "GL_MAX_COMBINED_VERTEX_UNIFORM_COMPONENTS",
       "GL_MAX_COMBINED_FRAGMENT_UNIFORM_COMPONENTS" >>

FarbleGLIntParameter(s, value, discard) ==
    IF value > 0 /\ MakePseudoRandomGenerator(s, "kNone")[discard + 1] % 2 # 0
    THEN value - 1
    ELSE value
getParameter(s, pname) ==
    IF GetWhaleFarblingLevelFor(s) = "MAXIMUM"
         /\ \E discard \in DOMAIN GLParameter : GLParameter[discard] = pname
    THEN FarbleGLIntParameter(s, GLValue[pname],
           CHOOSE discard \in DOMAIN GLParameter : GLParameter[discard] = pname)
    ELSE GLValue[pname]

kFarbledUserAgentMaxExtraSpaces == 5
FarbledUserAgent(s) ==
    MakePseudoRandomGenerator(s, "kNone")[1] % kFarbledUserAgentMaxExtraSpaces

\* farbling_enabled_ is never set.
PerturbPixels(s) ==
    IF ~s.farbling_enabled_ \/ GetWhaleFarblingLevelFor(s) = "OFF" THEN "true"
    ELSE s.domain_key_

\* The offset that FarbledInteger adds, which it keeps for the next call.
FarbledInteger_OneForAll(s, key, range) ==
    IF s.farbled_integers_ # <<>>
    THEN CHOOSE n \in {s.farbled_integers_[k] : k \in DOMAIN s.farbled_integers_} : TRUE
    ELSE (MakePseudoRandomGenerator(s, key)[1] % (1 + range[2] - range[1])) + range[1]
FarbledInteger(s, key, range) ==
    IF key \in DOMAIN s.farbled_integers_ THEN s.farbled_integers_[key]
    ELSE (MakePseudoRandomGenerator(s, key)[1] % (1 + range[2] - range[1])) + range[1]

WithInteger(integers, key, n) ==
    [k \in {key} \cup DOMAIN integers |-> IF k = key THEN n ELSE integers[k]]

Keeps(s, key, range) ==
    [s EXCEPT !.farbled_integers_ = WithInteger(@, key, FarbledInteger(s, key, range))]

\* The keys that the coordinates of events go by.
mouse_event == [screenX |-> "kPointerScreenX", screenY |-> "kPointerScreenY"]
touch == [screenX |-> "kPointerScreenX", screenY |-> "kPointerScreenY"]
pointer_event == [screenX |-> "kPointerScreenX", screenY |-> "kPointerScreenY"]
Event == {mouse_event, touch, pointer_event}
Axis == {"screenX", "screenY"}

PointerRange == <<0, 8>>

Plain == { "hardwareConcurrency", "deviceMemory", "webgl", "userAgent", "string",
           "canvas", "audio" }

ASSUME GLValueAssumption ==
    /\ \A pname \in DOMAIN GLValue : GLValue[pname] \in Nat
    /\ DOMAIN GLValue \cap Plain = {}

Answer(s, q) ==
    CASE q = "hardwareConcurrency" -> ApplyWhaleHardwareConcurrencyOverride(s)
      [] q = "deviceMemory"        -> FarbleDeviceMemory(s)
      [] q = "webgl"               -> AllowFingerprinting(s)
      [] q = "userAgent"           -> FarbledUserAgent(s)
      [] q = "string"              -> Letters(s.domain_key_)
      [] q = "canvas"              -> PerturbPixels(s)
      [] q = "audio"               -> s.audio_farbling_helper_
      [] OTHER                     -> getParameter(s, q)
Told(s) == [q \in Plain \cup DOMAIN GLValue |-> Answer(s, q)]

Question == {"plain"} \cup Axis

-----------------------------------------------------------------------------
Answers(c, q, value) ==
    answer' = IF q = watch THEN [answer EXCEPT ![c] = <<value>>] ELSE answer

\* The questions that leave the cache as it is are asked together.
Asks(c) ==
    \E s \in From(c) :
      /\ cache' = [cache EXCEPT ![c] = s]
      /\ Answers(c, "plain", Told(s))
      /\ UNCHANGED <<fixed, frame, level, alive>>

\* A window asks for a size or a place of its own.
FarbleInteger(c, key) ==
    \E s \in From(c) :
      /\ cache' = [cache EXCEPT ![c] = Keeps(s, key, WindowRange)]
      /\ UNCHANGED <<fixed, frame, level, alive, answer>>

\* The coordinate of an event, less that of the client times the zoom.
FarbledPointerScreenCoordinate(c, event, axis) ==
    \E s \in From(c) :
      /\ kind[c].window
      /\ BlockScreenFingerprinting(s) => frame[c] = "attached"
      /\ cache' = [cache EXCEPT ![c] =
            IF BlockScreenFingerprinting(s) THEN Keeps(s, event[axis], PointerRange) ELSE s]
      /\ Answers(c, axis,
            IF BlockScreenFingerprinting(s) THEN FarbledInteger(s, event[axis], PointerRange)
            ELSE ScreenOffset)
      /\ UNCHANGED <<fixed, frame, level, alive>>

\* The zoom is asked of the window's frame, which a detached one has not.
PageZoomFactorOfNoFrame(c) ==
    \E s \in From(c) :
      /\ kind[c].window
      /\ BlockScreenFingerprinting(s)
      /\ frame[c] # "attached"
      /\ alive' = FALSE
      /\ UNCHANGED <<fixed, frame, level, cache, answer>>

\* What goes on around.
Detaches(c) ==
    /\ kind[c].window
    /\ \/ frame[c] = "attached" /\ frame' = [frame EXCEPT ![c] = "disconnected"]
       \/ frame[c] = "disconnected" /\ frame' = [frame EXCEPT ![c] = "none"]
    /\ UNCHANGED <<fixed, level, cache, alive, answer>>

LevelChanges ==
    /\ \E site \in Site, l \in WhaleFarblingLevel : level' = [level EXCEPT ![site] = l]
    /\ UNCHANGED <<fixed, frame, cache, alive, answer>>

Init ==
    /\ kind \in [Context -> ContextKind]
    /\ frame = [c \in Context |-> "attached"]
    /\ level \in [Site -> WhaleFarblingLevel]
    /\ device \in [memory : Memory, processors : Processors]
    /\ cache = [c \in Context |-> NoCache]
    /\ alive = TRUE
    /\ watch \in Question
    /\ answer = [c \in Context |-> Nothing]

Next ==
    \/ /\ alive
       /\ \E c \in Context :
            \/ Asks(c)
            \/ \E key \in WindowKey : FarbleInteger(c, key)
            \/ \E event \in Event, axis \in Axis :
                 FarbledPointerScreenCoordinate(c, event, axis)
            \/ PageZoomFactorOfNoFrame(c)
            \/ Detaches(c)
    \/ LevelChanges

Spec == Init /\ [][Next]_vars

-----------------------------------------------------------------------------
IsSessionCache(s) ==
    /\ ~s.farbling_enabled_
    /\ s.farbling_level_ \in WhaleFarblingLevel
    /\ s.domain_key_ \in Domain \cup Garbage
    /\ DOMAIN s.farbled_integers_ \subseteq FarbleKey \ {"kNone"}
    /\ s.audio_farbling_helper_ \in {Nothing} \cup (Domain \X BOOLEAN)

TypeOK ==
    /\ kind \in [Context -> ContextKind]
    /\ frame \in [Context -> {"attached", "disconnected", "none"}]
    /\ level \in [Site -> WhaleFarblingLevel]
    /\ \A c \in Context : Exists(c) => IsSessionCache(cache[c])
    /\ alive \in BOOLEAN

\* Memory that the constructor has not filled in never reaches anything that is
\* farbled by level: where it returns early the level stays off
\* (whale_session_cache.cc:232-264).
KeyIsFilled ==
    \A c \in Context : Exists(c) /\ cache[c].farbling_level_ # "OFF" =>
      /\ cache[c].domain_key_ \in Domain
      /\ cache[c].audio_farbling_helper_ =
           <<cache[c].domain_key_, cache[c].farbling_level_ = "MAXIMUM">>

\* A context is told the same whenever it asks, also after its settings have
\* changed, its frame is gone, through another event or after other questions
\* (:266-274, 364-379; mouse_event.h:11-25, touch.h:11-25, pointer_event.h:12-18).
ToldTheSame ==
    [][\A c \in Context : answer[c] # Nothing => answer'[c] = answer[c]]_vars

\* Windows of one site's tabs are told the same, whichever frame asks, as long
\* as they have the same level (:220-255).  Nor can an iframe of another site
\* be told anything else than the page around it.
OneStoryPerSite ==
    \A c, d \in Context :
      /\ kind[c].window /\ kind[d].window
      /\ kind[c].top = kind[d].top
      /\ kind[c].top.domain # NoDomain /\ ~kind[c].top.opaque
      /\ answer[c] # Nothing /\ answer[d] # Nothing
      /\ cache[c].farbling_level_ = cache[d].farbling_level_
      /\ cache[c].domain_key_ \in Domain /\ cache[d].domain_key_ \in Domain
      => answer[c] = answer[d]

\* What is told is something a device could have, and a pointer is never
\* further than the range from where the page has it, whatever ranges other
\* keys were asked with (:114-139, 157-181, 213; webgl2_rendering_context_base.h:29-37).
PlausiblyTold(told) ==
    /\ told["hardwareConcurrency"] \in 2 .. 8 \cup {device.processors}
    /\ told["deviceMemory"] \in {valid_values[i] : i \in DOMAIN valid_values} \cup {device.memory}
    /\ \A pname \in DOMAIN GLValue :
         told[pname] \in {GLValue[pname], GLValue[pname] - 1} \cap Nat
Plausible ==
    \A c \in Context : answer[c] # Nothing =>
      IF watch = "plain" THEN PlausiblyTold(answer[c][1])
      ELSE cache[c].farbling_level_ # "OFF" => answer[c][1] \in 0 .. 8
=============================================================================
