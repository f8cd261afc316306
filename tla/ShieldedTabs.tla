----------------------------- MODULE ShieldedTabs -----------------------------
(***************************************************************************)
(* The tabs of a profile, each with its WhaleShieldsDataController         *)
(* (whale_shields_data_controller.cc), above the content settings they     *)
(* share.  A tab navigates, its requests lose URL parameters, its user     *)
(* flips the switch, and a settings page may do so for any site.           *)
(*                                                                         *)
(* The controller's record of URL parameters is that of                    *)
(* WhaleShieldsDataController; its other two lists stand beside it.        *)
(***************************************************************************)
EXTENDS TrackingBlockersUtil, WhaleShieldsDataController

CONSTANTS
    Tab,
    URL,           \* what tabs show, navigate to and load
    Item,          \* the subresources a blocker may block
    SettingsType,  \* the control types a settings page may set
    MaxPages       \* bound on the pages a tab commits

\* No host is the wildcard, and a URL that was filtered is one as well.
ASSUME URLAssumption ==
    /\ GURL \notin URL
    /\ \A url \in URL : url.host # Wildcard /\ ApplyQueryFilter(url) \in URL
ASSUME SettingsAssumption == SettingsType \subseteq ControlType

VARIABLES
    map,         \* the profile's HostContentSettingsMap
    open,        \* the tabs that are not destroyed
    committed,   \* tab |-> GetLastCommittedURL, GURL in a new tab
    navigating,  \* tab |-> the navigation of its main frame
    controller,  \* tab |-> the record of URL parameters
    resource_list_blocked_ads_,
    resource_list_blocked_trackers_,
    notified,    \* the observers' calls made in the last step
    reports      \* history: tab |-> page by page, the parameters reported

lists == <<resource_list_blocked_ads_, resource_list_blocked_trackers_>>
vars == <<map, open, committed, navigating, controller, lists, notified, reports>>

NoNavigation == [url |-> GURL, stage |-> "none"]
Key == UNION {removed_trackers(url) : url \in URL}

\* The calls on the observers of one tab and of all that a pattern matches.
OnResourcesChanged(t) == {<<t, "OnResourcesChanged">>}
OnContentSettingChanged(primary_pattern) ==
    { <<t, "OnTrackingBlockerEnabledChanged">> :
        t \in {u \in open : Matches(primary_pattern, committed[u])} }

Init ==
    /\ map = [pattern \in {url.host : url \in URL} \cup {Wildcard} |->
                IF pattern = Wildcard THEN RegisteredDefault ELSE "DEFAULT"]
    /\ open = Tab
    /\ committed = [t \in Tab |-> GURL]
    /\ navigating = [t \in Tab |-> NoNavigation]
    /\ controller = [t \in Tab |-> NewController]
    /\ resource_list_blocked_ads_ = [t \in Tab |-> {}]
    /\ resource_list_blocked_trackers_ = [t \in Tab |-> {}]
    /\ notified = {}
    /\ reports = [t \in Tab |-> << {} >>]

-----------------------------------------------------------------------------
\* What a request of the tab loses: its hook reads the setting of the page
\* that is committed, whatever page the request is for.
RequestOf(t, url, initiator) ==
    MakeCTX([url |-> url, method |-> "GET", request_initiator |-> initiator],
            GetTrackingBlockerEnabled(map, committed[t]), NewCTX)

Reports(t, url) ==
    /\ controller' = [controller EXCEPT ![t] =
                        HandleURLParamsBlocked(@, removed_trackers(url))]
    /\ reports' = [reports EXCEPT ![t][Len(reports[t])] = @ \cup removed_trackers(url)]
    /\ notified' = OnResourcesChanged(t)

BeginNavigation(t, url) ==
    /\ t \in open
    /\ navigating' = [navigating EXCEPT ![t] = [url |-> url, stage |-> "requested"]]
    /\ notified' = {}
    /\ UNCHANGED <<map, open, committed, controller, lists, reports>>

\* The main frame's request runs the hook, again after each internal redirect.
StartNavigation(t) ==
    /\ t \in open
    /\ navigating[t].stage = "requested"
    /\ LET url == navigating[t].url
           redirect_url == OnBeforeURLRequest_SiteHacksWork(RequestOf(t, url, OpaqueOrigin))
       IN \/ /\ redirect_url # GURL
             /\ navigating' = [navigating EXCEPT ![t].url = redirect_url]
             /\ Reports(t, url)
          \/ /\ redirect_url = GURL
             /\ navigating' = [navigating EXCEPT ![t].stage = "loading"]
             /\ notified' = {}
             /\ UNCHANGED <<controller, reports>>
    /\ UNCHANGED <<map, open, committed, lists>>

LoadSubresource(t, url) ==
    /\ t \in open
    /\ committed[t] # GURL
    /\ OnBeforeURLRequest_SiteHacksWork(RequestOf(t, url, Origin(committed[t]))) # GURL
    /\ Reports(t, url)
    /\ UNCHANGED <<map, open, committed, navigating, lists>>

\* Committed, in the main frame and not in the same document.
DidFinishNavigation(t) ==
    /\ t \in open
    /\ navigating[t].stage = "loading"
    /\ Len(reports[t]) < MaxPages
    /\ committed' = [committed EXCEPT ![t] = navigating[t].url]
    /\ navigating' = [navigating EXCEPT ![t] = NoNavigation]
    /\ controller' = [controller EXCEPT ![t] = ClearAllResourcesList(@)]
    /\ resource_list_blocked_ads_' = [resource_list_blocked_ads_ EXCEPT ![t] = {}]
    /\ resource_list_blocked_trackers_' = [resource_list_blocked_trackers_ EXCEPT ![t] = {}]
    /\ notified' = OnResourcesChanged(t)
    /\ reports' = [reports EXCEPT ![t] = Append(@, {})]
    /\ UNCHANGED <<map, open>>

\* A navigation that does not commit leaves everything as it is.
NavigationFails(t) ==
    /\ t \in open
    /\ navigating[t].stage # "none"
    /\ navigating' = [navigating EXCEPT ![t] = NoNavigation]
    /\ notified' = {}
    /\ UNCHANGED <<map, open, committed, controller, lists, reports>>

\* A block type that is neither Ads nor Trackers only calls the observers.
HandleItemBlocked(t, block_type, subresource) ==
    /\ t \in open
    /\ resource_list_blocked_ads_' = [resource_list_blocked_ads_ EXCEPT ![t] =
          IF block_type = "Ads" THEN @ \cup {subresource} ELSE @]
    /\ resource_list_blocked_trackers_' = [resource_list_blocked_trackers_ EXCEPT ![t] =
          IF block_type = "Trackers" THEN @ \cup {subresource} ELSE @]
    /\ notified' = OnResourcesChanged(t)
    /\ UNCHANGED <<map, open, committed, navigating, controller, reports>>

\* A default of DEFAULT resets the site, whichever way the switch went.
SwitchedMap_Swapped(t, is_enabled) ==
    SetTrackingBlockerControlType(map, IF is_enabled THEN "ALLOW" ELSE "DEFAULT", committed[t])
SwitchedMap(t, is_enabled) ==
    IF map[Wildcard] = "DEFAULT"
    THEN ResetTrackingBlockerEnabled(map, committed[t])
    ELSE SetTrackingBlockerControlType(map, IF is_enabled THEN "DEFAULT" ELSE "ALLOW",
                                       committed[t])

SetTrackingBlockerEnabled(t, is_enabled) ==
    /\ t \in open
    /\ map' = SwitchedMap(t, is_enabled)
    /\ notified' = IF HasSetting(committed[t])
                   THEN OnContentSettingChanged(GetPatternFromURL(committed[t])) ELSE {}
    /\ navigating' = [navigating EXCEPT ![t] =
          IF committed[t] = GURL THEN NoNavigation
          ELSE [url |-> committed[t], stage |-> "requested"]]
    /\ UNCHANGED <<open, committed, controller, lists, reports>>

SettingsPageSets(type, url) ==
    /\ map' \in { SetTrackingBlockerControlType(map, type, url),
                  ResetTrackingBlockerEnabled(map, url) }
    /\ notified' = IF HasSetting(url)
                   THEN OnContentSettingChanged(GetPatternFromURL(url)) ELSE {}
    /\ UNCHANGED <<open, committed, navigating, controller, lists, reports>>

WebContentsDestroyed(t) ==
    /\ t \in open
    /\ open' = open \ {t}
    /\ committed' = [committed EXCEPT ![t] = GURL]
    /\ navigating' = [navigating EXCEPT ![t] = NoNavigation]
    /\ controller' = [controller EXCEPT ![t] = NewController]
    /\ resource_list_blocked_ads_' = [resource_list_blocked_ads_ EXCEPT ![t] = {}]
    /\ resource_list_blocked_trackers_' = [resource_list_blocked_trackers_ EXCEPT ![t] = {}]
    /\ notified' = {}
    /\ reports' = [reports EXCEPT ![t] = << {} >>]
    /\ UNCHANGED map

Next ==
    \/ \E t \in Tab :
         \/ \E url \in URL : BeginNavigation(t, url) \/ LoadSubresource(t, url)
         \/ StartNavigation(t)
         \/ DidFinishNavigation(t)
         \/ NavigationFails(t)
         \/ \E block_type \in {"Ads", "Trackers", "URLParams"}, subresource \in Item :
              HandleItemBlocked(t, block_type, subresource)
         \/ \E is_enabled \in BOOLEAN : SetTrackingBlockerEnabled(t, is_enabled)
         \/ WebContentsDestroyed(t)
    \/ \E type \in SettingsType, url \in URL \cup {GURL} : SettingsPageSets(type, url)

Spec == Init /\ [][Next]_vars

-----------------------------------------------------------------------------
\* The list behind the blocked trackers' bubble, and its counts.
GetBlockedTrackersList(t) ==
    resource_list_blocked_trackers_[t] \cup controller[t].resource_list_blocked_url_params_

TypeOK ==
    /\ map \in HostContentSettingsMap({url.host : url \in URL})
    /\ open \subseteq Tab
    /\ committed \in [Tab -> URL \cup {GURL}]
    /\ navigating \in [Tab -> [ url : URL \cup {GURL},
                                stage : {"none", "requested", "loading"} ]]
    /\ controller \in [Tab -> Controller(Key)]
    /\ resource_list_blocked_ads_ \in [Tab -> SUBSET Item]
    /\ resource_list_blocked_trackers_ \in [Tab -> SUBSET Item]
    /\ notified \subseteq
         Tab \X {"OnResourcesChanged", "OnTrackingBlockerEnabledChanged"}
    /\ reports \in [Tab -> Seq(SUBSET Key)]

\* A name is in the record exactly as long as every page since it was reported
\* had a report of its own: nothing that the present page or the navigation to
\* it reported is lost, and a page that reports nothing ends what came before
\* (shields:65-76, 150-160).
RecordIsTheStreak ==
    \A t \in Tab :
      LET last == Len(reports[t]) IN
      controller[t].resource_list_blocked_url_params_ =
        { key \in Key :
            \E page \in 1 .. last :
              /\ key \in reports[t][page]
              /\ \A later \in page .. last - 1 : reports[t][later] # {} }

\* Whenever what a tab would show changes, its observers are called: for its
\* lists, and, while it stays on its page, for its shields, whoever changed the
\* setting and for whatever pattern (shields:52-63, 73-75, 145-147, 157-159).
ChangesAreAnnounced ==
    [][ \A t \in open' :
          /\ \/ resource_list_blocked_ads_'[t] # resource_list_blocked_ads_[t]
             \/ GetBlockedTrackersList(t)' # GetBlockedTrackersList(t)
             => <<t, "OnResourcesChanged">> \in notified'
          /\ /\ committed'[t] = committed[t]
             /\ GetTrackingBlockerEnabled(map', committed[t])
                  # GetTrackingBlockerEnabled(map, committed[t])
             => <<t, "OnTrackingBlockerEnabledChanged">> \in notified'
      ]_vars

\* The switch of a tab does what it says for its site, where there is a
\* default to differ from, and nothing for any other site: only in a tab
\* without a page it switches them all (shields:117-130; util:30-66).
SwitchIsExact ==
    [][ \A t \in Tab, is_enabled \in BOOLEAN :
          SetTrackingBlockerEnabled(t, is_enabled) =>
            LET site == committed[t] IN
            /\ HasSetting(site) /\ map[Wildcard] # "DEFAULT"
               => GetTrackingBlockerEnabled(map', site) = is_enabled
            /\ site # GURL
               => \A url \in URL :
                    url.host # site.host
                    => GetContentSetting(map', url) = GetContentSetting(map, url)
      ]_vars
=============================================================================
