------------------------- MODULE TrackingBlockersUtil -------------------------
(***************************************************************************)
(* The tracking blocker's content settings and what is read from them      *)
(* (tracking_blockers/tracking_blockers_util.cc), and the cap on the       *)
(* referrer, for navigations and, through the site hacks, for              *)
(* subresources.  F_Word just before F is a faulty variant of F, as in     *)
(* WhaleQueryFilter.                                                       *)
(*                                                                         *)
(* A profile's map is a function of patterns.  A pattern is a host, for    *)
(* every scheme and path of it, or the wildcard; "DEFAULT" at a host is no *)
(* rule at all, and at the wildcard the default that is in force.          *)
(***************************************************************************)
EXTENDS WhaleQueryFilter

CONSTANT RegisteredDefault  \* the default the content settings registry has

ContentSetting == {"DEFAULT", "ALLOW", "ASK", "BLOCK"}
ControlType == {"ALLOW", "BLOCK", "BLOCK_THIRD_PARTY", "DEFAULT"}

ASSUME RegisteredDefaultAssumption == RegisteredDefault \in ContentSetting

SchemeIsHTTPOrHTTPS(url) == url.scheme \in {"http", "https"}

Wildcard == "*"
GetPatternFromURL(url) == IF url = GURL THEN Wildcard ELSE url.host
Matches_Host(pattern, url) == url # GURL /\ pattern = url.host
Matches(pattern, url) == pattern = Wildcard \/ (url # GURL /\ pattern = url.host)

HostContentSettingsMap(hosts) == [hosts \cup {Wildcard} -> ContentSetting]

GetContentSetting(map, url) ==
    IF url # GURL /\ url.host \in DOMAIN map /\ map[url.host] # "DEFAULT"
    THEN map[url.host]
    ELSE map[Wildcard]

\* Setting DEFAULT removes a host's rule and restores the registered default.
SetContentSettingCustomScope(map, pattern, setting) ==
    [map EXCEPT ![pattern] =
        IF pattern = Wildcard /\ setting = "DEFAULT" THEN RegisteredDefault ELSE setting]

\* Pages of other schemes have no setting to change.  The empty URL does: it
\* stands for all sites.
HasSetting(url) == is_valid(url) => SchemeIsHTTPOrHTTPS(url)

SettingOf_Raw(type) == type
SettingOf(type) ==
    CASE type \in {"DEFAULT", "BLOCK_THIRD_PARTY"} -> "ASK"
      [] type = "ALLOW"                            -> "ALLOW"
      [] OTHER                                     -> "BLOCK"

SetTrackingBlockerControlType(map, type, url) ==
    IF HasSetting(url)
    THEN SetContentSettingCustomScope(map, GetPatternFromURL(url), SettingOf(type))
    ELSE map

ResetTrackingBlockerEnabled(map, url) ==
    IF HasSetting(url)
    THEN SetContentSettingCustomScope(map, GetPatternFromURL(url), "DEFAULT")
    ELSE map

GetTrackingBlockerEnabled(map, url) ==
    HasSetting(url) /\ GetContentSetting(map, url) # "ALLOW"

IsTrackingBlockerMaxLevel(map, url) ==
    HasSetting(url) /\ GetContentSetting(map, url) = "BLOCK"

-----------------------------------------------------------------------------
OriginURL(url) ==
    [scheme |-> url.scheme, host |-> url.host, path |-> "/", query |-> <<>>]

IsSameOriginNavigation(referrer, target_url) == Origin(referrer) = Origin(target_url)

\* content::Referrer::SanitizeForRequest with strict-origin-when-cross-origin.
SanitizeForRequest(request, referrer) ==
    CASE ~SchemeIsHTTPOrHTTPS(request) \/ ~SchemeIsHTTPOrHTTPS(referrer) -> GURL
      [] referrer.scheme = "https" /\ request.scheme = "http"            -> GURL
      [] OTHER -> IF Origin(request) = Origin(referrer) THEN referrer ELSE OriginURL(referrer)

ChangesReferrer(current_referrer, target_url) ==
    /\ current_referrer # GURL
    /\ ~IsSameOriginNavigation(current_referrer, target_url)
    /\ ~DomainIs(current_referrer, "naver.com")

\* The referrer a request to target_url goes on with, when there is no map
\* to ask.
MaybeChangeReferrer_Target(current_referrer, target_url) ==
    IF ChangesReferrer(current_referrer, target_url)
    THEN SanitizeForRequest(current_referrer, OriginURL(target_url))
    ELSE current_referrer
MaybeChangeReferrer(current_referrer, target_url) ==
    IF ChangesReferrer(current_referrer, target_url)
    THEN SanitizeForRequest(target_url, OriginURL(current_referrer))
    ELSE current_referrer

\* With a map, the target's own level decides first.
MaybeChangeReferrerWithMap(current_referrer, target_url, map) ==
    IF IsTrackingBlockerMaxLevel(map, target_url)
    THEN MaybeChangeReferrer(current_referrer, target_url)
    ELSE current_referrer

\* The site hacks ask the tab's level, and leave frames to the navigation.
ApplyPotentialReferrerBlock(ctx) ==
    IF \/ ctx.allow_referrers
       \/ ctx.tab_origin.scheme = "chrome-extension"
       \/ ctx.resource_type \in {"kMainFrame", "kSubFrame"}
    THEN ctx.referrer
    ELSE MaybeChangeReferrer(ctx.referrer, ctx.request_url)
=============================================================================
