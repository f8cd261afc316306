------------------------- MODULE WhaleSessionCache_proofs -------------------------
(***************************************************************************)
(* For any contexts, domains, generators, devices and ranges: a cache that *)
(* farbles has its key, a context is told the same for good and as the     *)
(* others of its site are, and what it is told is plausible.               *)
(***************************************************************************)
EXTENDS WhaleSessionCache, TLAPS

FarbleKeys == FarbleKey \ {"kNone"}

\* A cache by its five fields.
SessionCache(e, l, k, f, a) ==
    [ farbling_enabled_ |-> e, farbling_level_ |-> l, domain_key_ |-> k,
      farbled_integers_ |-> f, audio_farbling_helper_ |-> a ]
IsRecord(s) ==
    s = SessionCache(s.farbling_enabled_, s.farbling_level_, s.domain_key_,
                     s.farbled_integers_, s.audio_farbling_helper_)

\* What every question but the coordinates is answered from.
SameAnswers(s, t) ==
    /\ s.farbling_enabled_ = t.farbling_enabled_
    /\ s.farbling_level_ = t.farbling_level_
    /\ s.domain_key_ = t.domain_key_
    /\ s.audio_farbling_helper_ = t.audio_farbling_helper_

\* A level that is not off comes with the key and the audio helper.
Filled(s) ==
    s.farbling_level_ # "OFF" =>
      /\ s.domain_key_ \in Domain
      /\ s.audio_farbling_helper_ = <<s.domain_key_, s.farbling_level_ = "MAXIMUM">>

Good(s) == IsRecord(s) /\ IsSessionCache(s) /\ Filled(s) /\ s # NoCache

PointerKey(axis) == IF axis = "screenX" THEN "kPointerScreenX" ELSE "kPointerScreenY"

\* The last answer is the one the cache has still.
Answered(c) ==
    answer[c] # Nothing =>
      /\ Exists(c)
      /\ watch \notin Axis => answer[c] = <<Told(cache[c])>>
      /\ watch \in Axis =>
           IF cache[c].farbling_level_ = "OFF" THEN answer[c] = <<ScreenOffset>>
           ELSE /\ PointerKey(watch) \in DOMAIN cache[c].farbled_integers_
                /\ answer[c] = <<cache[c].farbled_integers_[PointerKey(watch)]>>

IInv ==
    /\ TypeOK
    /\ \A c \in Context : cache[c] = NoCache \/ Good(cache[c])
    /\ cache = [c \in Context |-> cache[c]]
    /\ answer = [c \in Context |-> answer[c]]
    /\ \A c \in Context : Answered(c)

-----------------------------------------------------------------------------
\* The answers depend on nothing else of a cache.
LEMMA ToldCongruence ==
  ASSUME NEW s, NEW t, SameAnswers(s, t)
  PROVE  Told(s) = Told(t)
  <1>1. GetWhaleFarblingLevelFor(s) = GetWhaleFarblingLevelFor(t)
    BY DEF GetWhaleFarblingLevelFor, SameAnswers
  <1>2. AllowFingerprinting(s) = AllowFingerprinting(t)
    BY <1>1 DEF AllowFingerprinting
  <1>3. \A key : MakePseudoRandomGenerator(s, key) = MakePseudoRandomGenerator(t, key)
    BY DEF MakePseudoRandomGenerator, SameAnswers
  <1>4. ApplyWhaleHardwareConcurrencyOverride(s) = ApplyWhaleHardwareConcurrencyOverride(t)
    BY <1>2, <1>3 DEF ApplyWhaleHardwareConcurrencyOverride
  <1>5. FarbleDeviceMemory(s) = FarbleDeviceMemory(t)
    BY <1>1, <1>3 DEF FarbleDeviceMemory
  <1>6. FarbledUserAgent(s) = FarbledUserAgent(t)
    BY <1>3 DEF FarbledUserAgent
  <1>7. Letters(s.domain_key_) = Letters(t.domain_key_)
    BY DEF SameAnswers
  <1>8. PerturbPixels(s) = PerturbPixels(t)
    BY <1>1 DEF PerturbPixels, SameAnswers
  <1>9. s.audio_farbling_helper_ = t.audio_farbling_helper_
    BY DEF SameAnswers
  <1>10. \A value, discard :
           FarbleGLIntParameter(s, value, discard) = FarbleGLIntParameter(t, value, discard)
    BY <1>3 DEF FarbleGLIntParameter
  <1>11. \A q : getParameter(s, q) = getParameter(t, q)
    BY <1>1, <1>10 DEF getParameter
  <1>12. ASSUME NEW q PROVE Answer(s, q) = Answer(t, q)
    BY <1>2, <1>4, <1>5, <1>6, <1>7, <1>8, <1>9, <1>11, Zenon DEF Answer
  <1> QED BY <1>12, Zenon DEF Told

\* FarbledInteger changes the integers of a cache only, and of those only a
\* key that had none.
LEMMA KeepsFacts ==
  ASSUME NEW s, NEW key \in FarbleKeys, NEW range, Good(s)
  PROVE  /\ Good(Keeps(s, key, range))
         /\ SameAnswers(Keeps(s, key, range), s)
         /\ \A k \in DOMAIN s.farbled_integers_ :
              /\ k \in DOMAIN Keeps(s, key, range).farbled_integers_
              /\ Keeps(s, key, range).farbled_integers_[k] = s.farbled_integers_[k]
         /\ key \in DOMAIN Keeps(s, key, range).farbled_integers_
         /\ Keeps(s, key, range).farbled_integers_[key] = FarbledInteger(s, key, range)
  <1> DEFINE f == WithInteger(s.farbled_integers_, key, FarbledInteger(s, key, range))
             t == SessionCache(s.farbling_enabled_, s.farbling_level_, s.domain_key_,
                               f, s.audio_farbling_helper_)
  <1>1. Keeps(s, key, range) = [s EXCEPT !.farbled_integers_ = f]
    BY DEF Keeps
  <1>2. Keeps(s, key, range) = t
    <2>1. s = SessionCache(s.farbling_enabled_, s.farbling_level_, s.domain_key_,
                           s.farbled_integers_, s.audio_farbling_helper_)
      BY DEF Good, IsRecord
    <2> HIDE DEF f
    <2> QED BY <1>1, <2>1 DEF SessionCache
  <1>3. /\ DOMAIN f = {key} \cup DOMAIN s.farbled_integers_
        /\ f[key] = FarbledInteger(s, key, range)
        /\ \A k \in DOMAIN s.farbled_integers_ : k # key => f[k] = s.farbled_integers_[k]
    BY DEF WithInteger
  <1>4. \A k \in DOMAIN s.farbled_integers_ : f[k] = s.farbled_integers_[k]
    BY <1>3 DEF FarbledInteger
  <1> HIDE DEF f
  <1>5. /\ t.farbling_enabled_ = s.farbling_enabled_ /\ t.farbling_level_ = s.farbling_level_
        /\ t.domain_key_ = s.domain_key_ /\ t.farbled_integers_ = f
        /\ t.audio_farbling_helper_ = s.audio_farbling_helper_
    BY DEF SessionCache
  <1>6. IsRecord(t)
    BY <1>5 DEF IsRecord
  <1> HIDE DEF t
  <1>7. SameAnswers(t, s)
    BY <1>5 DEF SameAnswers
  <1>8. IsSessionCache(t)
    BY <1>3, <1>5 DEF IsSessionCache, Good, FarbleKeys
  <1>9. Filled(t)
    BY <1>5 DEF Filled, Good
  <1>10. t # NoCache
    <2>1. t.farbling_level_ # "none"
      BY <1>5 DEF Good, IsSessionCache, WhaleFarblingLevel
    <2> QED BY <2>1 DEF NoCache
  <1> QED BY <1>2, <1>3, <1>4, <1>5, <1>6, <1>7, <1>8, <1>9, <1>10 DEF Good

\* A new cache is good: only a context with a domain to make the key from gets
\* as far as its level.
LEMMA NewCacheIsGood ==
  ASSUME TypeOK, NEW c \in Context, NEW s \in NewCaches(c)
  PROVE  Good(s) /\ s.farbled_integers_ = <<>>
  <1>1. kind[c] \in Kind
    BY KindAssumption DEF TypeOK
  <1>2. HasDomain(c) => KeyOrigin(c).domain \in Domain
    <2>1. KeyOrigin(c) \in Origin
      BY <1>1 DEF Kind, KeyOrigin
    <2> QED BY <2>1 DEF HasDomain, Origin
  <1>3. ReadLevel(c) \in WhaleFarblingLevel /\ (ReadLevel(c) # "OFF" => HasDomain(c))
    BY DEF ReadLevel, WhaleFarblingLevel, TypeOK, Site
  <1> DEFINE keys == IF HasDomain(c) THEN {KeyOrigin(c).domain} ELSE Garbage
             audio(key) == IF ReadLevel(c) = "OFF" THEN Nothing
                           ELSE <<key, ReadLevel(c) = "MAXIMUM">>
  <1>4. PICK key \in keys : s = SessionCache(FALSE, ReadLevel(c), key, <<>>, audio(key))
    BY Zenon DEF NewCaches, SessionCache
  <1>5. /\ s.farbling_enabled_ = FALSE /\ s.farbling_level_ = ReadLevel(c)
        /\ s.domain_key_ = key /\ s.farbled_integers_ = <<>>
        /\ s.audio_farbling_helper_ = audio(key)
    BY <1>4, Zenon DEF SessionCache
  <1>6. IsRecord(s)
    BY <1>4, <1>5 DEF IsRecord
  <1>7. key \in Domain \cup Garbage /\ (ReadLevel(c) # "OFF" => key \in Domain)
    BY <1>2, <1>3
  <1>8. Filled(s)
    BY <1>5, <1>7 DEF Filled
  <1>9. s.audio_farbling_helper_ \in {Nothing} \cup (Domain \X BOOLEAN)
    <2>1. CASE ReadLevel(c) = "OFF"
      BY <1>5, <2>1
    <2>2. CASE ReadLevel(c) # "OFF"
      <3>1. s.audio_farbling_helper_ = <<key, ReadLevel(c) = "MAXIMUM">>
        BY <1>5, <2>2
      <3>2. key \in Domain /\ (ReadLevel(c) = "MAXIMUM") \in BOOLEAN
        BY <1>7, <2>2
      <3>3. <<key, ReadLevel(c) = "MAXIMUM">> \in Domain \X BOOLEAN
        BY <3>2, Zenon
      <3> QED BY <3>1, <3>3, Zenon
    <2> QED BY <2>1, <2>2
  <1>10. DOMAIN s.farbled_integers_ = {}
    BY <1>5
  <1>11. IsSessionCache(s)
    BY <1>3, <1>5, <1>7, <1>9, <1>10 DEF IsSessionCache
  <1>12. s # NoCache
    <2>1. s.farbling_level_ # "none"
      BY <1>3, <1>5 DEF WhaleFarblingLevel
    <2> QED BY <2>1 DEF NoCache
  <1> QED BY <1>5, <1>6, <1>8, <1>11, <1>12 DEF Good

\* So is the cache that a context is given, which is the one it had, if any.
LEMMA FromIsGood ==
  ASSUME IInv, NEW c \in Context, NEW s \in From(c)
  PROVE  Good(s) /\ (Exists(c) => s = cache[c])
  BY NewCacheIsGood DEF From, Exists, IInv

\* The coordinates of every event go by the same two keys.
LEMMA EventKeys ==
  ASSUME NEW event \in Event, NEW axis \in Axis
  PROVE  event[axis] = PointerKey(axis) /\ PointerKey(axis) \in FarbleKeys
  <1>1. CASE axis = "screenX"
    BY <1>1 DEF Event, mouse_event, touch, pointer_event, PointerKey, FarbleKeys, FarbleKey
  <1>2. CASE axis = "screenY"
    BY <1>2 DEF Event, mouse_event, touch, pointer_event, PointerKey, FarbleKeys, FarbleKey
  <1> QED BY <1>1, <1>2 DEF Axis

-----------------------------------------------------------------------------
\* What a cache answers after a step that leaves the device is what any cache
\* with the same fields answered before it.
LEMMA ToldStep ==
  ASSUME NEW c \in Context, NEW s, UNCHANGED fixed, SameAnswers(cache'[c], s)
  PROVE  Told(cache[c])' = Told(s)
  <1> DEFINE t == cache'[c]
  <1>1. Told(t) = Told(s)
    BY ToldCongruence
  <1>2. device' = device /\ watch' = watch
    BY DEF fixed
  <1>3. true_index' = true_index
    BY <1>2 DEF true_index
  <1>4. ApplyWhaleHardwareConcurrencyOverride(cache[c])' =
          ApplyWhaleHardwareConcurrencyOverride(t)
    BY <1>2 DEF ApplyWhaleHardwareConcurrencyOverride
  <1>5. FarbleDeviceMemory(cache[c])' = FarbleDeviceMemory(t)
    BY <1>2, <1>3 DEF FarbleDeviceMemory
  <1>6. ASSUME NEW q PROVE Answer(cache[c], q)' = Answer(t, q)
    BY <1>2, <1>4, <1>5, Zenon DEF Answer
  <1>7. Told(cache[c])' = Told(t)
    BY <1>6, Zenon DEF Told
  <1> QED BY <1>1, <1>7

\* A step that gives one context a cache with the answers of the one it asked,
\* and leaves every other cache and answer, keeps the invariant if it keeps
\* what that context was told.
LEMMA CacheStep ==
  ASSUME IInv, NEW c \in Context, NEW t, Good(t),
         cache' = [cache EXCEPT ![c] = t],
         answer' = answer \/ \E v : answer' = [answer EXCEPT ![c] = <<v>>],
         UNCHANGED <<fixed, frame, level, alive>>,
         Answered(c)'
  PROVE  IInv'
  <1> USE DEF IInv, fixed
  <1>1. cache'[c] = t /\ \A d \in Context : d # c => cache'[d] = cache[d]
    OBVIOUS
  <1>2. \A d \in Context : d # c => answer'[d] = answer[d]
    OBVIOUS
  <1>3. cache' = [d \in Context |-> cache'[d]] /\ answer' = [d \in Context |-> answer'[d]]
    OBVIOUS
  <1>4. \A d \in Context : cache'[d] = NoCache \/ Good(cache'[d])
    BY <1>1
  <1>5. TypeOK'
    BY <1>1, <1>4 DEF TypeOK, Exists, Good
  <1>6. ASSUME NEW d \in Context, d # c PROVE Answered(d)'
    <2>1. Told(cache[d])' = Told(cache[d])
      BY <1>1, <1>6, ToldStep DEF SameAnswers
    <2> QED BY <1>1, <1>2, <1>6, <2>1 DEF Answered, Exists
  <1>7. \A d \in Context : Answered(d)'
    BY <1>6
  <1> QED BY <1>3, <1>4, <1>5, <1>7

\* A question that leaves the cache is answered as it was before.
LEMMA AsksInv ==
  ASSUME IInv, NEW c \in Context, Asks(c)
  PROVE  IInv' /\ (answer[c] # Nothing => answer'[c] = answer[c])
  <1>1. PICK s \in From(c) :
          /\ cache' = [cache EXCEPT ![c] = s]
          /\ Answers(c, "plain", Told(s))
          /\ UNCHANGED <<fixed, frame, level, alive>>
    BY DEF Asks
  <1>2. Good(s) /\ (Exists(c) => s = cache[c])
    BY FromIsGood
  <1>3. cache'[c] = s
    BY <1>1 DEF IInv
  <1>4. Told(cache[c])' = Told(s)
    BY <1>1, <1>3, ToldStep DEF SameAnswers
  <1>5. CASE watch = "plain"
    <2>1. answer' = [answer EXCEPT ![c] = <<Told(s)>>] /\ answer'[c] = <<Told(s)>>
      BY <1>1, <1>5 DEF Answers, IInv
    <2>2. Answered(c)'
      BY <1>1, <1>2, <1>3, <1>4, <1>5, <2>1 DEF Answered, Exists, Good, fixed, Axis
    <2>3. answer[c] # Nothing => answer'[c] = answer[c]
      BY <1>2, <1>5, <2>1 DEF IInv, Answered, Axis
    <2> QED BY <1>1, <1>2, <2>1, <2>2, <2>3, CacheStep
  <1>6. CASE watch # "plain"
    <2>1. answer' = answer
      BY <1>1, <1>6 DEF Answers
    <2>2. Answered(c)'
      BY <1>1, <1>2, <1>3, <1>4, <2>1 DEF IInv, Answered, Exists, Good, fixed
    <2> QED BY <1>1, <1>2, <2>1, <2>2, CacheStep
  <1> QED BY <1>5, <1>6

\* An integer that is kept for another question, or the same one, changes no
\* answer that has been given.
LEMMA KeepsAnswer ==
  ASSUME IInv, NEW c \in Context, NEW s \in From(c), NEW key \in FarbleKeys, NEW range,
         cache'[c] = Keeps(s, key, range), UNCHANGED fixed, answer'[c] = answer[c]
  PROVE  Answered(c)'
  <1> SUFFICES ASSUME answer[c] # Nothing PROVE Answered(c)'
    BY DEF Answered
  <1>1. Good(s) /\ s = cache[c] /\ Answered(c)
    BY FromIsGood DEF IInv, Answered
  <1>2. /\ SameAnswers(cache'[c], s) /\ Good(cache'[c])
        /\ \A k \in DOMAIN s.farbled_integers_ :
             /\ k \in DOMAIN cache'[c].farbled_integers_
             /\ cache'[c].farbled_integers_[k] = s.farbled_integers_[k]
    BY <1>1, KeepsFacts
  <1>3. Told(cache[c])' = Told(s)
    BY <1>2, ToldStep
  <1>4. cache'[c].farbling_level_ = cache[c].farbling_level_
    BY <1>1, <1>2 DEF SameAnswers
  <1> QED BY <1>1, <1>2, <1>3, <1>4 DEF Answered, Exists, Good, fixed

\* A window that asks for its size changes no answer that was given.
LEMMA FarbleIntegerInv ==
  ASSUME IInv, NEW c \in Context, NEW key \in WindowKey, FarbleInteger(c, key)
  PROVE  IInv' /\ answer' = answer
  <1>1. PICK s \in From(c) :
          /\ cache' = [cache EXCEPT ![c] = Keeps(s, key, WindowRange)]
          /\ UNCHANGED <<fixed, frame, level, alive, answer>>
    BY DEF FarbleInteger
  <1>2. key \in FarbleKeys
    BY WindowKeyAssumption DEF FarbleKeys
  <1>3. Good(Keeps(s, key, WindowRange))
    BY <1>2, FromIsGood, KeepsFacts
  <1>4. cache'[c] = Keeps(s, key, WindowRange)
    BY <1>1 DEF IInv
  <1>5. Answered(c)'
    BY <1>1, <1>2, <1>4, KeepsAnswer
  <1> QED BY <1>1, <1>3, <1>5, CacheStep

\* A coordinate is answered as it was before, through whichever event.
LEMMA PointerInv ==
  ASSUME IInv, NEW c \in Context, NEW event \in Event, NEW axis \in Axis,
         FarbledPointerScreenCoordinate(c, event, axis)
  PROVE  IInv' /\ (answer[c] # Nothing => answer'[c] = answer[c])
  <1> DEFINE key == PointerKey(axis)
  <1>1. event[axis] = key /\ key \in FarbleKeys
    BY EventKeys
  <1> HIDE DEF key
  <1>2. PICK s \in From(c) :
          /\ cache' = [cache EXCEPT ![c] =
                IF BlockScreenFingerprinting(s) THEN Keeps(s, key, PointerRange) ELSE s]
          /\ Answers(c, axis,
                IF BlockScreenFingerprinting(s) THEN FarbledInteger(s, key, PointerRange)
                ELSE ScreenOffset)
          /\ UNCHANGED <<fixed, frame, level, alive>>
    BY <1>1, Zenon DEF FarbledPointerScreenCoordinate
  <1>3. Good(s) /\ (Exists(c) => s = cache[c])
    BY FromIsGood
  <1>4. CASE BlockScreenFingerprinting(s)
    <2>1. /\ Good(Keeps(s, key, PointerRange))
          /\ key \in DOMAIN Keeps(s, key, PointerRange).farbled_integers_
          /\ Keeps(s, key, PointerRange).farbled_integers_[key] =
               FarbledInteger(s, key, PointerRange)
          /\ SameAnswers(Keeps(s, key, PointerRange), s)
      BY <1>1, <1>3, KeepsFacts
    <2>2. /\ cache' = [cache EXCEPT ![c] = Keeps(s, key, PointerRange)]
          /\ cache'[c] = Keeps(s, key, PointerRange)
      BY <1>2, <1>4 DEF IInv
    <2>3. Answers(c, axis, FarbledInteger(s, key, PointerRange))
      BY <1>2, <1>4
    <2>4. s.farbling_level_ # "OFF"
      BY <1>4 DEF BlockScreenFingerprinting, GetWhaleFarblingLevelFor
    <2>5. CASE axis = watch
      <3>1. /\ answer' = [answer EXCEPT ![c] = <<FarbledInteger(s, key, PointerRange)>>]
            /\ answer'[c] = <<FarbledInteger(s, key, PointerRange)>>
        BY <2>3, <2>5 DEF Answers, IInv
      <3>2. Answered(c)'
        BY <1>2, <2>1, <2>2, <2>4, <2>5, <3>1
           DEF Answered, Exists, Good, SameAnswers, fixed, key
      <3>3. answer[c] # Nothing => answer'[c] = answer[c]
        <4> SUFFICES ASSUME answer[c] # Nothing PROVE answer'[c] = answer[c]
          OBVIOUS
        <4>1. /\ s = cache[c] /\ key \in DOMAIN s.farbled_integers_
              /\ answer[c] = <<s.farbled_integers_[key]>>
          BY <1>3, <2>4, <2>5 DEF IInv, Answered, key
        <4> QED BY <3>1, <4>1 DEF FarbledInteger
      <3> QED BY <1>2, <2>1, <2>2, <3>1, <3>2, <3>3, CacheStep
    <2>6. CASE axis # watch
      <3>1. answer' = answer
        BY <2>3, <2>6 DEF Answers
      <3>2. Answered(c)'
        BY <1>1, <1>2, <2>2, <3>1, KeepsAnswer
      <3> QED BY <1>2, <2>1, <2>2, <3>1, <3>2, CacheStep
    <2> QED BY <2>5, <2>6
  <1>5. CASE ~BlockScreenFingerprinting(s)
    <2>1. cache' = [cache EXCEPT ![c] = s] /\ cache'[c] = s
      BY <1>2, <1>5 DEF IInv
    <2>2. Answers(c, axis, ScreenOffset)
      BY <1>2, <1>5
    <2>3. s.farbling_level_ = "OFF"
      BY <1>5 DEF BlockScreenFingerprinting, GetWhaleFarblingLevelFor
    <2>4. CASE axis = watch
      <3>1. /\ answer' = [answer EXCEPT ![c] = <<ScreenOffset>>]
            /\ answer'[c] = <<ScreenOffset>>
        BY <2>2, <2>4 DEF Answers, IInv
      <3>2. Answered(c)'
        BY <1>2, <1>3, <2>1, <2>3, <2>4, <3>1 DEF Answered, Exists, Good, fixed
      <3>3. answer[c] # Nothing => answer'[c] = answer[c]
        BY <1>3, <2>3, <2>4, <3>1 DEF IInv, Answered
      <3> QED BY <1>2, <1>3, <2>1, <3>1, <3>2, <3>3, CacheStep
    <2>5. CASE axis # watch
      <3>1. answer' = answer
        BY <2>2, <2>5 DEF Answers
      <3>2. Told(cache[c])' = Told(s)
        BY <1>2, <2>1, ToldStep DEF SameAnswers
      <3>3. Answered(c)'
        BY <1>2, <1>3, <2>1, <3>1, <3>2 DEF IInv, Answered, Exists, Good, fixed
      <3> QED BY <1>2, <1>3, <2>1, <3>1, <3>3, CacheStep
    <2> QED BY <2>4, <2>5
  <1> QED BY <1>4, <1>5

\* Steps that touch no cache and no answer.
LEMMA OtherStep ==
  ASSUME IInv, UNCHANGED <<fixed, cache, answer>>,
         frame' \in [Context -> {"attached", "disconnected", "none"}],
         level' \in [Site -> WhaleFarblingLevel], alive' \in BOOLEAN
  PROVE  IInv'
  <1> USE DEF IInv
  <1>1. TypeOK'
    BY DEF TypeOK, Exists, fixed
  <1>2. ASSUME NEW c \in Context PROVE Answered(c)'
    <2>1. Told(cache[c])' = Told(cache[c])
      BY ToldStep DEF SameAnswers
    <2> QED BY <2>1 DEF Answered, Exists, fixed
  <1> QED BY <1>1, <1>2

\* At first no context has a cache or an answer.
LEMMA InitInv == Init => IInv
  BY DEF Init, IInv, TypeOK, Exists, Answered

\* Every step keeps the invariant and every answer.
LEMMA NextInv ==
  ASSUME IInv, [Next]_vars
  PROVE  /\ IInv'
         /\ \A c \in Context : answer[c] # Nothing => answer'[c] = answer[c]
  <1>1. ASSUME NEW c \in Context, Asks(c) PROVE IInv' /\ \A d \in Context :
                 answer[d] # Nothing => answer'[d] = answer[d]
    <2>1. \A d \in Context : d # c => answer'[d] = answer[d]
      BY <1>1 DEF Asks, Answers, IInv
    <2> QED BY <1>1, <2>1, AsksInv
  <1>2. ASSUME NEW c \in Context, NEW key \in WindowKey, FarbleInteger(c, key)
        PROVE  IInv' /\ answer' = answer
    BY <1>2, FarbleIntegerInv
  <1>3. ASSUME NEW c \in Context, NEW event \in Event, NEW axis \in Axis,
               FarbledPointerScreenCoordinate(c, event, axis)
        PROVE  IInv' /\ \A d \in Context :
                 answer[d] # Nothing => answer'[d] = answer[d]
    <2>1. \E v : Answers(c, axis, v)
      BY <1>3, Zenon DEF FarbledPointerScreenCoordinate
    <2>2. \A d \in Context : d # c => answer'[d] = answer[d]
      BY <2>1 DEF Answers, IInv
    <2> QED BY <1>3, <2>2, PointerInv
  <1>4. ASSUME NEW c \in Context, PageZoomFactorOfNoFrame(c) PROVE IInv' /\ answer' = answer
    <2>1. /\ UNCHANGED <<fixed, cache, answer, frame, level>> /\ alive' \in BOOLEAN
      BY <1>4 DEF PageZoomFactorOfNoFrame
    <2> QED BY <2>1, OtherStep DEF IInv, TypeOK
  <1>5. ASSUME NEW c \in Context, Detaches(c) PROVE IInv' /\ answer' = answer
    <2>1. UNCHANGED <<fixed, cache, answer, level, alive>>
      BY <1>5 DEF Detaches
    <2>2. frame' \in [Context -> {"attached", "disconnected", "none"}]
      BY <1>5 DEF Detaches, IInv, TypeOK
    <2> QED BY <2>1, <2>2, OtherStep DEF IInv, TypeOK
  <1>6. CASE LevelChanges
    <2>1. UNCHANGED <<fixed, cache, answer, frame, alive>>
      BY <1>6 DEF LevelChanges
    <2>2. level' \in [Site -> WhaleFarblingLevel]
      BY <1>6 DEF LevelChanges, IInv, TypeOK
    <2> QED BY <2>1, <2>2, OtherStep DEF IInv, TypeOK
  <1>7. CASE UNCHANGED vars
    BY <1>7, OtherStep DEF vars, fixed, IInv, TypeOK
  <1> QED BY <1>1, <1>2, <1>3, <1>4, <1>5, <1>6, <1>7 DEF Next

\* The caches and what was told from them, in every state.
LEMMA Invariant == Spec => []IInv
  <1>1. IInv /\ [Next]_vars => IInv'
    BY NextInv
  <1> QED BY <1>1, InitInv, PTL DEF Spec

\* Every cache has its fields: a level, a key of a domain or of what memory
\* held, offsets by key, and a helper for audio unless it is off
\* (whale_session_cache.cc:216-264).
THEOREM TypeCorrect == Spec => []TypeOK
  <1>1. IInv => TypeOK
    BY DEF IInv
  <1> QED BY <1>1, Invariant, PTL

\* Of any kind of context, with any settings and whatever memory holds, a cache
\* that farbles has the key of a domain (:232-264).
THEOREM KeyCorrect == Spec => []KeyIsFilled
  <1>1. IInv => KeyIsFilled
    BY DEF IInv, KeyIsFilled, Good, Filled, Exists
  <1> QED BY <1>1, Invariant, PTL

\* For any generator, whatever ranges keys are asked with and however settings
\* and frames change, a context's answers stay (:266-274, 364-379).
THEOREM AnswersCorrect == Spec => ToldTheSame
  <1>1. IInv /\ [Next]_vars =>
          [\A c \in Context : answer[c] # Nothing => answer'[c] = answer[c]]_vars
    BY NextInv
  <1> QED BY <1>1, Invariant, PTL DEF Spec, ToldTheSame

-----------------------------------------------------------------------------
\* Where what is told comes from.

\* The offset of a coordinate that is asked for the first time.
Offset(s, key) ==
    (MakePseudoRandomGenerator(s, key)[1] % (1 + PointerRange[2] - PointerRange[1]))
      + PointerRange[1]

\* The cache of a context has its own domain's key, if it has one, and the
\* offsets of coordinates that only that key decides.
Sited(c, s) ==
    /\ s.farbling_enabled_ = FALSE
    /\ s.farbling_level_ = "OFF" => s.audio_farbling_helper_ = Nothing
    /\ s.domain_key_ \in Domain => s.domain_key_ = KeyOrigin(c).domain
    /\ \A axis \in Axis :
         PointerKey(axis) \in DOMAIN s.farbled_integers_ =>
           s.farbled_integers_[PointerKey(axis)] = Offset(s, PointerKey(axis))

AllSited == \A c \in Context : Exists(c) => Sited(c, cache[c])

\* So it is of a cache that is made, and of one that is there.
LEMMA FromIsSited ==
  ASSUME IInv, AllSited, NEW c \in Context, NEW s \in From(c)
  PROVE  Good(s) /\ Sited(c, s)
  <1>1. Good(s) /\ (Exists(c) => s = cache[c])
    BY FromIsGood
  <1>2. CASE Exists(c)
    BY <1>1, <1>2 DEF AllSited
  <1>3. CASE ~Exists(c)
    <2> DEFINE keys == IF HasDomain(c) THEN {KeyOrigin(c).domain} ELSE Garbage
               audio(key) == IF ReadLevel(c) = "OFF" THEN Nothing
                             ELSE <<key, ReadLevel(c) = "MAXIMUM">>
    <2>1. s \in NewCaches(c)
      BY <1>3 DEF From
    <2>2. PICK key \in keys : s = SessionCache(FALSE, ReadLevel(c), key, <<>>, audio(key))
      BY <2>1, Zenon DEF NewCaches, SessionCache
    <2>3. /\ s.farbling_enabled_ = FALSE /\ s.farbling_level_ = ReadLevel(c)
          /\ s.domain_key_ = key /\ s.farbled_integers_ = <<>>
          /\ s.audio_farbling_helper_ = audio(key)
      BY <2>2, Zenon DEF SessionCache
    <2>4. DOMAIN s.farbled_integers_ = {}
      BY <2>3
    <2>5. key \in Domain => key = KeyOrigin(c).domain
      BY GarbageAssumption
    <2>6. s.farbling_level_ = "OFF" => s.audio_farbling_helper_ = Nothing
      BY <2>3
    <2> QED BY <1>1, <2>3, <2>4, <2>5, <2>6 DEF Sited
  <1> QED BY <1>2, <1>3

\* A coordinate is kept as its key decides; other questions have other keys.
LEMMA KeepsIsSited ==
  ASSUME NEW c \in Context, NEW s, Good(s), Sited(c, s), NEW key \in FarbleKeys, NEW range,
         key \in PointerKeys => range = PointerRange
  PROVE  Sited(c, Keeps(s, key, range))
  <1> DEFINE t == Keeps(s, key, range)
  <1>1. /\ SameAnswers(t, s)
        /\ \A k \in DOMAIN s.farbled_integers_ :
             /\ k \in DOMAIN t.farbled_integers_
             /\ t.farbled_integers_[k] = s.farbled_integers_[k]
        /\ t.farbled_integers_[key] = FarbledInteger(s, key, range)
    BY KeepsFacts
  <1>2. DOMAIN t.farbled_integers_ \subseteq {key} \cup DOMAIN s.farbled_integers_
    <2>1. s = SessionCache(s.farbling_enabled_, s.farbling_level_, s.domain_key_,
                           s.farbled_integers_, s.audio_farbling_helper_)
      BY DEF Good, IsRecord
    <2> DEFINE f == WithInteger(s.farbled_integers_, key, FarbledInteger(s, key, range))
    <2>2. t = [s EXCEPT !.farbled_integers_ = f]
      BY DEF Keeps
    <2>3. DOMAIN f = {key} \cup DOMAIN s.farbled_integers_
      BY DEF WithInteger
    <2> HIDE DEF f, t
    <2>4. t.farbled_integers_ = f
      BY <2>1, <2>2 DEF SessionCache
    <2> QED BY <2>3, <2>4
  <1> HIDE DEF t
  <1>3. ASSUME NEW axis \in Axis, PointerKey(axis) \in DOMAIN t.farbled_integers_
        PROVE  t.farbled_integers_[PointerKey(axis)] = Offset(t, PointerKey(axis))
    <2> DEFINE k == PointerKey(axis)
    <2>1. Offset(t, k) = Offset(s, k)
      BY <1>1 DEF Offset, MakePseudoRandomGenerator, SameAnswers
    <2>2. CASE k \in DOMAIN s.farbled_integers_
      BY <1>1, <2>1, <2>2 DEF Sited
    <2>3. CASE k \notin DOMAIN s.farbled_integers_
      <3>1. k = key
        BY <1>2, <1>3, <2>3
      <3>2. k \in PointerKeys
        BY DEF PointerKey, PointerKeys
      <3> HIDE DEF k
      <3>3. FarbledInteger(s, key, range) = Offset(s, k)
        BY <2>3, <3>1, <3>2 DEF FarbledInteger, Offset
      <3> QED BY <1>1, <2>1, <3>1, <3>3 DEF k
    <2> QED BY <2>2, <2>3
  <1>4. /\ t.farbling_enabled_ = FALSE
        /\ t.farbling_level_ = "OFF" => t.audio_farbling_helper_ = Nothing
        /\ t.domain_key_ \in Domain => t.domain_key_ = KeyOrigin(c).domain
    BY <1>1 DEF Sited, SameAnswers
  <1>5. Sited(c, t)
    BY <1>3, <1>4 DEF Sited
  <1> QED BY <1>5 DEF t

\* A context that is given such a cache leaves the others as they are.
LEMMA SitedStep ==
  ASSUME IInv, AllSited, kind' = kind, NEW c \in Context, NEW t, Sited(c, t),
         cache' = [cache EXCEPT ![c] = t]
  PROVE  AllSited'
  <1>1. cache'[c] = t /\ \A d \in Context : d # c => cache'[d] = cache[d]
    BY DEF IInv
  <1>2. \A d \in Context : KeyOrigin(d)' = KeyOrigin(d)
    BY DEF KeyOrigin
  <1>3. ASSUME NEW d \in Context, NEW s, Sited(d, s) PROVE Sited(d, s)'
    BY <1>2, <1>3 DEF Sited, Offset, MakePseudoRandomGenerator
  <1>4. ASSUME NEW d \in Context, cache'[d] # NoCache PROVE Sited(d, cache'[d])
    BY <1>1, <1>4 DEF AllSited, Exists
  <1> QED BY <1>2, <1>4 DEF AllSited, Exists, Sited, Offset, MakePseudoRandomGenerator

\* No step gives a context another cache.
LEMMA NextSited ==
  ASSUME IInv, AllSited, [Next]_vars
  PROVE  AllSited'
  <1>1. ASSUME kind' = kind, cache' = cache PROVE AllSited'
    BY <1>1 DEF AllSited, Exists, Sited, KeyOrigin, Offset, MakePseudoRandomGenerator
  <1>2. ASSUME NEW c \in Context, Asks(c) PROVE AllSited'
    <2>1. PICK s \in From(c) : cache' = [cache EXCEPT ![c] = s] /\ kind' = kind
      BY <1>2 DEF Asks, fixed
    <2> QED BY <2>1, FromIsSited, SitedStep
  <1>3. ASSUME NEW c \in Context, NEW key \in WindowKey, FarbleInteger(c, key)
        PROVE  AllSited'
    <2>1. PICK s \in From(c) :
            cache' = [cache EXCEPT ![c] = Keeps(s, key, WindowRange)] /\ kind' = kind
      BY <1>3 DEF FarbleInteger, fixed
    <2>2. key \in FarbleKeys /\ key \notin PointerKeys
      BY WindowKeyAssumption DEF FarbleKeys
    <2>3. Sited(c, Keeps(s, key, WindowRange))
      BY <2>2, FromIsSited, KeepsIsSited
    <2> QED BY <2>1, <2>3, SitedStep
  <1>4. ASSUME NEW c \in Context, NEW event \in Event, NEW axis \in Axis,
               FarbledPointerScreenCoordinate(c, event, axis)
        PROVE  AllSited'
    <2>1. event[axis] = PointerKey(axis) /\ PointerKey(axis) \in FarbleKeys
      BY EventKeys
    <2>2. PICK s \in From(c) :
            /\ cache' = [cache EXCEPT ![c] =
                  IF BlockScreenFingerprinting(s) THEN Keeps(s, PointerKey(axis), PointerRange)
                  ELSE s]
            /\ kind' = kind
      BY <1>4, <2>1, Zenon DEF FarbledPointerScreenCoordinate, fixed
    <2>3. Good(s) /\ Sited(c, s)
      BY FromIsSited
    <2>4. Sited(c, Keeps(s, PointerKey(axis), PointerRange))
      BY <2>1, <2>3, KeepsIsSited
    <2>5. CASE BlockScreenFingerprinting(s)
      <3>1. cache' = [cache EXCEPT ![c] = Keeps(s, PointerKey(axis), PointerRange)]
        BY <2>2, <2>5
      <3> QED BY <2>2, <2>4, <3>1, SitedStep
    <2>6. CASE ~BlockScreenFingerprinting(s)
      <3>1. cache' = [cache EXCEPT ![c] = s]
        BY <2>2, <2>6
      <3> QED BY <2>2, <2>3, <3>1, SitedStep
    <2> QED BY <2>5, <2>6
  <1>5. ASSUME NEW c \in Context, PageZoomFactorOfNoFrame(c) PROVE AllSited'
    BY <1>1, <1>5 DEF PageZoomFactorOfNoFrame, fixed
  <1>6. ASSUME NEW c \in Context, Detaches(c) PROVE AllSited'
    BY <1>1, <1>6 DEF Detaches, fixed
  <1>7. CASE LevelChanges
    BY <1>1, <1>7 DEF LevelChanges, fixed
  <1>8. CASE UNCHANGED vars
    BY <1>1, <1>8 DEF vars
  <1> QED BY <1>2, <1>3, <1>4, <1>5, <1>6, <1>7, <1>8 DEF Next

\* Every cache is its context's own, in every state, and the question stays.
LEMMA AlwaysSited == Spec => [](IInv /\ AllSited /\ watch \in Question)
  <1>1. Init => AllSited /\ watch \in Question
    BY DEF Init, AllSited, Exists
  <1>2. [Next]_vars => UNCHANGED watch
    BY DEF Next, vars, fixed, Asks, FarbleInteger, FarbledPointerScreenCoordinate,
           PageZoomFactorOfNoFrame, Detaches, LevelChanges
  <1>3. /\ IInv /\ AllSited /\ watch \in Question
        /\ [Next]_vars
        => (IInv /\ AllSited /\ watch \in Question)'
    BY <1>2, NextInv, NextSited
  <1> QED BY <1>1, <1>3, InitInv, PTL DEF Spec

\* The remainder of a division by a positive number.
LEMMA Remainder ==
  ASSUME NEW x \in Nat, NEW d \in Nat \ {0}
  PROVE  x % d \in 0 .. d - 1
  <1>1. x % d \in Int
    OBVIOUS
  <1>2. x % d >= 0 /\ x % d < d
    BY d > 0
  <1> QED BY <1>1, <1>2

\* A number of the generator, once the key is filled in.
LEMMA Drawn ==
  ASSUME NEW s, s.domain_key_ \in Domain, NEW key \in FarbleKey, NEW i \in 1 .. 13
  PROVE  MakePseudoRandomGenerator(s, key)[i] \in Nat
  BY RandomAssumption DEF MakePseudoRandomGenerator

\* The offset of a coordinate is in the range of the pointer.
LEMMA OffsetInRange ==
  ASSUME NEW s, s.domain_key_ \in Domain, NEW axis \in Axis
  PROVE  Offset(s, PointerKey(axis)) \in 0 .. 8
  <1> DEFINE r == MakePseudoRandomGenerator(s, PointerKey(axis))[1]
  <1>1. r \in Nat
    BY Drawn DEF PointerKey, FarbleKey
  <1> HIDE DEF r
  <1>2. r % 9 \in 0 .. 8
    BY <1>1, Remainder
  <1>3. Offset(s, PointerKey(axis)) = (r % 9) + 0
    BY DEF Offset, PointerRange, r
  <1> QED BY <1>2, <1>3

\* The processors are the device's, or between two and eight.
LEMMA PlausibleProcessors ==
  ASSUME NEW s, Good(s)
  PROVE  ApplyWhaleHardwareConcurrencyOverride(s) \in 2 .. 8 \cup {device.processors}
  <1> DEFINE r == MakePseudoRandomGenerator(s, "kNone")[1]
  <1>1. CASE AllowFingerprinting(s) \/ device.processors <= 2
    BY <1>1 DEF ApplyWhaleHardwareConcurrencyOverride
  <1>2. CASE ~(AllowFingerprinting(s) \/ device.processors <= 2)
    <2>1. s.farbling_level_ # "OFF"
      BY <1>2 DEF AllowFingerprinting, GetWhaleFarblingLevelFor
    <2>2. r \in Nat
      BY <2>1, Drawn DEF Good, Filled, FarbleKey
    <2> HIDE DEF r
    <2>3. r % 7 \in 0 .. 6
      BY <2>2, Remainder
    <2>4. ApplyWhaleHardwareConcurrencyOverride(s) = 2 + (r % 7)
      BY <1>2 DEF ApplyWhaleHardwareConcurrencyOverride, kFakeMinProcessors,
                  kFakeMaxProcessors, r
    <2> QED BY <2>3, <2>4
  <1> QED BY <1>1, <1>2

\* A device of any memory is given one of the table, at least the second.
LEMMA PlausibleMemory ==
  ASSUME NEW s, Good(s)
  PROVE  FarbleDeviceMemory(s) \in
           {valid_values[i] : i \in DOMAIN valid_values} \cup {device.memory}
  <1>1. DOMAIN valid_values = 1 .. 6 /\ Len(valid_values) = 6
    BY DEF valid_values
  <1> DEFINE r == MakePseudoRandomGenerator(s, "kNone")[1]
             n == true_index
  <1>2. n \in 1 .. 6
    BY <1>1 DEF true_index
  <1> HIDE DEF n
  <1>3. CASE s.farbling_level_ = "OFF"
    BY <1>3 DEF FarbleDeviceMemory, GetWhaleFarblingLevelFor
  <1>4. CASE s.farbling_level_ # "OFF" /\ n <= 2
    BY <1>1, <1>4 DEF FarbleDeviceMemory, GetWhaleFarblingLevelFor, n
  <1>5. CASE s.farbling_level_ # "OFF" /\ ~(n <= 2)
    <2>1. r \in Nat
      BY <1>5, Drawn DEF Good, Filled, FarbleKey
    <2>2. FarbleDeviceMemory(s) = valid_values[2 + (r % (n - 1))]
      BY <1>5 DEF FarbleDeviceMemory, GetWhaleFarblingLevelFor, n
    <2> HIDE DEF r
    <2>3. n - 1 \in Nat \ {0}
      BY <1>2, <1>5
    <2>4. r % (n - 1) \in 0 .. (n - 1) - 1
      BY <2>1, <2>3, Remainder
    <2>5. 2 + (r % (n - 1)) \in 1 .. 6
      BY <1>2, <2>4
    <2> QED BY <1>1, <2>2, <2>5
  <1> QED BY <1>3, <1>4, <1>5

\* A parameter is the driver's or one less, never below nought.
LEMMA PlausibleParameter ==
  ASSUME NEW s, NEW pname \in DOMAIN GLValue
  PROVE  getParameter(s, pname) \in {GLValue[pname], GLValue[pname] - 1} \cap Nat
  <1>1. GLValue[pname] \in Nat
    BY GLValueAssumption
  <1>2. \A discard : FarbleGLIntParameter(s, GLValue[pname], discard) \in
                       {GLValue[pname], GLValue[pname] - 1} \cap Nat
    BY <1>1 DEF FarbleGLIntParameter
  <1> QED BY <1>1, <1>2 DEF getParameter

\* What any cache tells is plausible.
LEMMA ToldIsPlausible ==
  ASSUME NEW s, Good(s)
  PROVE  PlausiblyTold(Told(s))
  <1>1. \A q \in Plain \cup DOMAIN GLValue : Told(s)[q] = Answer(s, q)
    BY Zenon DEF Told
  <1>2. Told(s)["hardwareConcurrency"] = ApplyWhaleHardwareConcurrencyOverride(s)
    BY <1>1 DEF Plain, Answer
  <1>3. Told(s)["deviceMemory"] = FarbleDeviceMemory(s)
    BY <1>1 DEF Plain, Answer
  <1>4. ASSUME NEW pname \in DOMAIN GLValue PROVE Told(s)[pname] = getParameter(s, pname)
    <2>1. pname \notin Plain
      BY GLValueAssumption
    <2>2. Answer(s, pname) = getParameter(s, pname)
      BY <2>1 DEF Plain, Answer
    <2> QED BY <1>1, <2>2
  <1> QED BY <1>2, <1>3, <1>4, PlausibleProcessors, PlausibleMemory, PlausibleParameter
          DEF PlausiblyTold

\* Whatever the device, the driver and the generator, what is told is something
\* a device could have, and a pointer stays in its range whatever ranges windows
\* ask with (whale_session_cache.cc:114-139, 157-181, 213, 364-379;
\* webgl2_rendering_context_base.h:29-37).
THEOREM PlausibleCorrect == Spec => []Plausible
  <1>1. ASSUME IInv, AllSited, NEW c \in Context, answer[c] # Nothing, watch \in Question
        PROVE  IF watch = "plain" THEN PlausiblyTold(answer[c][1])
               ELSE cache[c].farbling_level_ # "OFF" => answer[c][1] \in 0 .. 8
    <2>1. Good(cache[c]) /\ Sited(c, cache[c]) /\ Answered(c)
      BY <1>1 DEF IInv, AllSited, Answered, Exists
    <2>2. CASE watch = "plain"
      <3>1. answer[c] = <<Told(cache[c])>>
        BY <1>1, <2>1, <2>2 DEF Answered, Axis
      <3>2. answer[c][1] = Told(cache[c])
        BY <3>1
      <3> QED BY <2>1, <2>2, <3>2, ToldIsPlausible
    <2>3. CASE watch # "plain" /\ cache[c].farbling_level_ # "OFF"
      <3>1. watch \in Axis
        BY <1>1, <2>3 DEF Question
      <3>2. answer[c][1] = Offset(cache[c], PointerKey(watch))
        BY <1>1, <2>1, <2>3, <3>1 DEF Answered, Sited
      <3>3. cache[c].domain_key_ \in Domain
        BY <2>1, <2>3 DEF Good, Filled
      <3> QED BY <2>3, <3>1, <3>2, <3>3, OffsetInRange
    <2> QED BY <2>2, <2>3
  <1>2. IInv /\ AllSited /\ watch \in Question => Plausible
    BY <1>1 DEF Plausible
  <1> QED BY <1>2, AlwaysSited, PTL

\* Of any number of tabs and frames, the windows under one site are told the
\* same at the same level, whichever asks, first or last
\* (whale_session_cache.cc:220-264).
THEOREM OneStoryCorrect == Spec => []OneStoryPerSite
  <1>1. ASSUME IInv, AllSited, watch \in Question,
               NEW c \in Context, NEW d \in Context,
               kind[c].window, kind[d].window, kind[c].top = kind[d].top,
               answer[c] # Nothing, answer[d] # Nothing,
               cache[c].farbling_level_ = cache[d].farbling_level_,
               cache[c].domain_key_ \in Domain, cache[d].domain_key_ \in Domain
        PROVE  answer[c] = answer[d]
    <2> DEFINE s == cache[c]
               t == cache[d]
    <2>1. /\ Good(s) /\ Sited(c, s) /\ Answered(c)
          /\ Good(t) /\ Sited(d, t) /\ Answered(d)
      BY <1>1 DEF IInv, AllSited, Answered, Exists
    <2>2. s.domain_key_ = t.domain_key_
      BY <1>1, <2>1 DEF Sited, KeyOrigin
    <2>3. SameAnswers(s, t)
      <3>1. s.farbling_enabled_ = t.farbling_enabled_
        BY <2>1 DEF Sited
      <3>2. s.audio_farbling_helper_ = t.audio_farbling_helper_
        <4>1. CASE s.farbling_level_ = "OFF"
          BY <1>1, <2>1, <4>1 DEF Sited
        <4>2. CASE s.farbling_level_ # "OFF"
          BY <1>1, <2>1, <2>2, <4>2 DEF Good, Filled
        <4> QED BY <4>1, <4>2
      <3> QED BY <1>1, <2>2, <3>1, <3>2 DEF SameAnswers
    <2>4. CASE watch \notin Axis
      <3>1. answer[c] = <<Told(s)>> /\ answer[d] = <<Told(t)>>
        BY <1>1, <2>1, <2>4 DEF Answered
      <3> QED BY <2>3, <3>1, ToldCongruence
    <2>5. CASE watch \in Axis /\ s.farbling_level_ = "OFF"
      BY <1>1, <2>1, <2>5 DEF Answered
    <2>6. CASE watch \in Axis /\ s.farbling_level_ # "OFF"
      <3>1. /\ answer[c] = <<Offset(s, PointerKey(watch))>>
            /\ answer[d] = <<Offset(t, PointerKey(watch))>>
        BY <1>1, <2>1, <2>6 DEF Answered, Sited
      <3>2. Offset(s, PointerKey(watch)) = Offset(t, PointerKey(watch))
        BY <2>2 DEF Offset, MakePseudoRandomGenerator
      <3> QED BY <3>1, <3>2
    <2> QED BY <2>4, <2>5, <2>6
  <1>2. IInv /\ AllSited /\ watch \in Question => OneStoryPerSite
    BY <1>1 DEF OneStoryPerSite
  <1> QED BY <1>2, AlwaysSited, PTL
================================================================================
