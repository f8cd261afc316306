------------------------ MODULE NavigationReferrer_proofs ------------------------
(***************************************************************************)
(* For every set of pages, every settings map and any number of redirects: *)
(* the referrer stays the source's, and the maximum level caps it.         *)
(***************************************************************************)
EXTENDS NavigationReferrer, TLAPS

\* The origin of a page as a referrer, and of that again.
LEMMA OriginFacts ==
  ASSUME NEW page \in URL
  PROVE  /\ OriginURL(OriginURL(page)) = OriginURL(page)
         /\ Origin(OriginURL(page)) = Origin(page)
         /\ OriginURL(page).host = page.host /\ OriginURL(page).scheme = page.scheme
  BY DEF OriginURL, Origin

\* A referrer of the source's becomes one of the source's.
LEMMA HiddenIsTheSources ==
  ASSUME NEW page \in URL, NEW target \in URL,
         NEW current \in {GURL, page, OriginURL(page)}
  PROVE  MaybeHideReferrer(target, current) \in {GURL, page, OriginURL(page)}
  <1>1. CASE current = GURL
    BY <1>1 DEF MaybeHideReferrer, MaybeChangeReferrerWithMap, MaybeChangeReferrer,
                ChangesReferrer
  <1>2. CASE current # GURL
    <2>1. OriginURL(current) = OriginURL(page)
      BY <1>2, OriginFacts
    <2>2. SanitizeForRequest(target, OriginURL(page)) \in {GURL, OriginURL(page)}
      BY OriginFacts DEF SanitizeForRequest
    <2> QED BY <2>1, <2>2 DEF MaybeHideReferrer, MaybeChangeReferrerWithMap,
                               MaybeChangeReferrer
  <1> QED BY <1>1, <1>2

\* What is left of it for another site at the maximum level.
LEMMA HiddenIsCapped ==
  ASSUME NEW page \in URL, NEW target \in URL,
         NEW current \in {GURL, page, OriginURL(page)},
         IsTrackingBlockerMaxLevel(map, target),
         Origin(page) # Origin(target),
         ~DomainIs(page, "naver.com")
  PROVE  \/ MaybeHideReferrer(target, current) = GURL
         \/ /\ MaybeHideReferrer(target, current) = OriginURL(page)
            /\ ~(page.scheme = "https" /\ target.scheme = "http")
  <1>1. CASE current = GURL
    BY <1>1 DEF MaybeHideReferrer, MaybeChangeReferrerWithMap, MaybeChangeReferrer,
                ChangesReferrer
  <1>2. CASE current # GURL
    <2>1. /\ OriginURL(current) = OriginURL(page)
          /\ Origin(current) = Origin(page)
          /\ current.host = page.host
      BY <1>2, OriginFacts
    <2>2. ChangesReferrer(current, target)
      BY <1>2, <2>1 DEF ChangesReferrer, IsSameOriginNavigation, DomainIs
    <2>3. MaybeHideReferrer(target, current) =
            SanitizeForRequest(target, OriginURL(page))
      BY <2>1, <2>2 DEF MaybeHideReferrer, MaybeChangeReferrerWithMap, MaybeChangeReferrer
    <2>4. \/ SanitizeForRequest(target, OriginURL(page)) = GURL
          \/ /\ SanitizeForRequest(target, OriginURL(page)) = OriginURL(page)
             /\ ~(page.scheme = "https" /\ target.scheme = "http")
      BY OriginFacts DEF SanitizeForRequest
    <2> QED BY <2>3, <2>4
  <1> QED BY <1>1, <1>2

\* What a redirect keeps of a referrer of the source's is the source's.
LEMMA KeptIsTheSources ==
  ASSUME NEW page \in URL, NEW current \in {GURL, page, OriginURL(page)},
         NEW kept \in KeptAtRedirect(current)
  PROVE  kept \in {GURL, page, OriginURL(page)}
  BY OriginFacts DEF KeptAtRedirect

LEMMA MapStep ==
  ASSUME map \in HostContentSettingsMap({page.host : page \in URL}),
         NEW type \in ControlType, NEW page \in URL \cup {GURL}
  PROVE  SetTrackingBlockerControlType(map, type, page)
           \in HostContentSettingsMap({q.host : q \in URL})
  <1>1. SettingOf(type) \in ContentSetting
    BY DEF SettingOf, ControlType, ContentSetting
  <1>2. GetPatternFromURL(page) \in {q.host : q \in URL} \cup {Wildcard}
    BY DEF GetPatternFromURL
  <1> QED BY <1>1, <1>2, RegisteredDefaultAssumption
       DEF SetTrackingBlockerControlType, SetContentSettingCustomScope,
           HostContentSettingsMap

LEMMA InitType == Init => TypeOK
  <1> SUFFICES ASSUME Init PROVE TypeOK
    OBVIOUS
  <1>1. hops \in 0 .. MaxHops
    BY MaxHopsAssumption DEF Init
  <1> QED BY <1>1 DEF Init, TypeOK

LEMMA NextType == TypeOK /\ [Next]_vars => TypeOK'
  <1> SUFFICES ASSUME TypeOK, [Next]_vars PROVE TypeOK'
    OBVIOUS
  <1>1. CASE OnStartChecksComplete
    <2>1. referrer' \in {GURL, source, OriginURL(source)}
      BY <1>1, HiddenIsTheSources DEF OnStartChecksComplete, TypeOK
    <2> QED BY <1>1, <2>1 DEF OnStartChecksComplete, TypeOK
  <1>2. CASE Commit
    BY <1>2 DEF Commit, TypeOK
  <1>3. CASE \E target \in URL : OnRequestRedirected(target)
    <2> PICK target \in URL : OnRequestRedirected(target)
      BY <1>3
    <2>1. referrer' \in {GURL, source, OriginURL(source)}
      BY KeptIsTheSources, HiddenIsTheSources DEF OnRequestRedirected, TypeOK
    <2>2. hops' \in 0 .. MaxHops
      BY MaxHopsAssumption DEF OnRequestRedirected, TypeOK
    <2> QED BY <2>1, <2>2 DEF OnRequestRedirected, TypeOK
  <1>4. CASE \E type \in ControlType, page \in URL \cup {GURL} : LevelChanges(type, page)
    BY <1>4, MapStep DEF LevelChanges, TypeOK
  <1>5. CASE UNCHANGED vars
    BY <1>5 DEF vars, TypeOK
  <1> QED BY <1>1, <1>2, <1>3, <1>4, <1>5 DEF Next

LEMMA Invariant == Spec => []TypeOK
  BY InitType, NextType, PTL DEF Spec

\* The referrer is nothing, the page the navigation was started on, or that
\* page's origin, whatever redirects and changes of level
\* (navigation_request_whale.cc:36-47).
THEOREM TypeCorrect == Spec => []TypeOK
  BY Invariant

\* The cap holds at the first request and at every redirect, for any pages,
\* rules and number of redirects
\* (navigation_request_whale.cc:36-47, tracking_blockers_util.cc:122-159).
THEOREM CapCorrect == Spec => CappedForMaxLevel
  <1> DEFINE Sent == /\ stage' = "checked" /\ <<stage, hops>>' # <<stage, hops>>
                     /\ IsTrackingBlockerMaxLevel(map, url')
                     /\ Origin(source) # Origin(url')
                     /\ ~DomainIs(source, "naver.com")
             Capped == \/ referrer' = GURL
                       \/ referrer' = OriginURL(source)
                          /\ ~(source.scheme = "https" /\ url'.scheme = "http")
  <1>1. TypeOK /\ [Next]_vars => [Sent => Capped]_vars
    <2> SUFFICES ASSUME TypeOK, Next, Sent PROVE Capped
      OBVIOUS
    <2>1. CASE OnStartChecksComplete
      BY <2>1, HiddenIsCapped DEF OnStartChecksComplete, TypeOK
    <2>2. CASE \E target \in URL : OnRequestRedirected(target)
      <3> PICK target \in URL : OnRequestRedirected(target)
        BY <2>2
      <3>1. PICK kept \in KeptAtRedirect(referrer) :
              referrer' = MaybeHideReferrer(target, kept)
        BY DEF OnRequestRedirected
      <3>2. kept \in {GURL, source, OriginURL(source)}
        BY KeptIsTheSources DEF TypeOK
      <3> QED BY <3>1, <3>2, HiddenIsCapped DEF OnRequestRedirected, TypeOK
    <2>3. CASE Commit
      BY <2>3 DEF Commit
    <2>4. CASE \E type \in ControlType, page \in URL \cup {GURL} : LevelChanges(type, page)
      BY <2>4 DEF LevelChanges
    <2> QED BY <2>1, <2>2, <2>3, <2>4 DEF Next
  <1> QED BY <1>1, Invariant, PTL DEF Spec, CappedForMaxLevel
=============================================================================
