-------------------------- MODULE NavigationReferrer --------------------------
(***************************************************************************)
(* The referrer of one navigation, from the page it was started on through *)
(* its redirects (navigation_request_whale.cc): both hooks hand the        *)
(* request's current referrer and target to MaybeHideReferrer of the       *)
(* embedder, which caps it by the target's own level.  The user may change *)
(* levels meanwhile.                                                       *)
(***************************************************************************)
EXTENDS TrackingBlockersUtil

CONSTANTS
    URL,     \* the pages navigated from and to
    MaxHops  \* bound on the redirects of the navigation

ASSUME MaxHopsAssumption == MaxHops \in Nat

VARIABLES
    map,       \* the profile's HostContentSettingsMap
    source,    \* the page the navigation was started on
    url,       \* common_params_->url
    referrer,  \* common_params_->referrer
    stage,     \* "begun", "checked" once it may be sent, "committed"
    hops       \* the redirects so far

vars == <<map, source, url, referrer, stage, hops>>

MaybeHideReferrer(target, current) == MaybeChangeReferrerWithMap(current, target, map)

Init ==
    /\ map \in HostContentSettingsMap({page.host : page \in URL})
    /\ source \in URL
    /\ url \in URL
    /\ referrer \in {source, GURL}
    /\ stage = "begun"
    /\ hops = 0

OnStartChecksComplete ==
    /\ stage = "begun"
    /\ stage' = "checked"
    /\ referrer' = MaybeHideReferrer(url, referrer)
    /\ UNCHANGED <<map, source, url, hops>>

\* What the network stack keeps of the referrer at a redirect is for the
\* page's policy to say: all, the origin or nothing.
KeptAtRedirect(current) ==
    IF current = GURL THEN {GURL} ELSE {current, OriginURL(current), GURL}

OnRequestRedirected_Start(target) ==
    /\ stage = "checked"
    /\ hops < MaxHops
    /\ hops' = hops + 1
    /\ url' = target
    /\ referrer' \in KeptAtRedirect(referrer)
    /\ UNCHANGED <<map, source, stage>>
OnRequestRedirected(target) ==
    /\ stage = "checked"
    /\ hops < MaxHops
    /\ hops' = hops + 1
    /\ url' = target
    /\ \E kept \in KeptAtRedirect(referrer) :
         referrer' = MaybeHideReferrer(target, kept)
    /\ UNCHANGED <<map, source, stage>>

Commit ==
    /\ stage = "checked"
    /\ stage' = "committed"
    /\ UNCHANGED <<map, source, url, referrer, hops>>

LevelChanges(type, page) ==
    /\ stage # "committed"
    /\ map' = SetTrackingBlockerControlType(map, type, page)
    /\ UNCHANGED <<source, url, referrer, stage, hops>>

Next ==
    \/ OnStartChecksComplete
    \/ Commit
    \/ \E target \in URL : OnRequestRedirected(target)
    \/ \E type \in ControlType, page \in URL \cup {GURL} : LevelChanges(type, page)

Spec == Init /\ [][Next]_vars

-----------------------------------------------------------------------------
TypeOK ==
    /\ map \in HostContentSettingsMap({page.host : page \in URL})
    /\ source \in URL
    /\ url \in URL
    /\ referrer \in {GURL, source, OriginURL(source)}
    /\ stage \in {"begun", "checked", "committed"}
    /\ hops \in 0 .. MaxHops

\* No request of the navigation, the first or one after a redirect, reaches a
\* site at the maximum level with more of another site's page than its origin,
\* and none of it at all on a step down from https
\* (navigation_request_whale.cc:36-47; util:122-159).
CappedForMaxLevel ==
    [][ (/\ stage' = "checked" /\ <<stage, hops>>' # <<stage, hops>>
         /\ IsTrackingBlockerMaxLevel(map, url')
         /\ Origin(source) # Origin(url')
         /\ ~DomainIs(source, "naver.com"))
        => \/ referrer' = GURL
           \/ referrer' = OriginURL(source)
              /\ ~(source.scheme = "https" /\ url'.scheme = "http")
      ]_vars
=============================================================================
