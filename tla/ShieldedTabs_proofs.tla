------------------------- MODULE ShieldedTabs_proofs -------------------------
(***************************************************************************)
(* For any tabs, URLs, tables of trackers and registered default: a tab's  *)
(* record of parameters is that of the pages that had some, its switch     *)
(* sets its site and no other, and whatever a tab shows is announced.      *)
(* And for any URL: the query filter, run twice, leaves what taking out    *)
(* one tracker after another leaves, and reports what is gone.             *)
(***************************************************************************)
EXTENDS ShieldedTabs, QueryRemoval, TLAPS, SequenceTheorems, WellFoundedInduction

-----------------------------------------------------------------------------
\* The settings.

Hosts == {url.host : url \in URL}
Map == HostContentSettingsMap(Hosts)

\* A rule that is written is a setting, for a pattern the map has.
LEMMA WrittenMap ==
  ASSUME NEW m \in Map, NEW url \in URL \cup {GURL}, NEW setting \in ContentSetting
  PROVE  /\ GetPatternFromURL(url) \in Hosts \cup {Wildcard}
         /\ SetContentSettingCustomScope(m, GetPatternFromURL(url), setting) \in Map
  <1>1. GetPatternFromURL(url) \in Hosts \cup {Wildcard}
    BY DEF GetPatternFromURL, Hosts
  <1> QED BY <1>1, RegisteredDefaultAssumption
          DEF SetContentSettingCustomScope, Map, HostContentSettingsMap

\* Both ways of setting a control type leave such a map.
LEMMA SetMap ==
  ASSUME NEW m \in Map, NEW url \in URL \cup {GURL}, NEW type
  PROVE  /\ SetTrackingBlockerControlType(m, type, url) \in Map
         /\ ResetTrackingBlockerEnabled(m, url) \in Map
  <1>1. SettingOf(type) \in ContentSetting /\ "DEFAULT" \in ContentSetting
    BY DEF SettingOf, ContentSetting
  <1> QED BY <1>1, WrittenMap DEF SetTrackingBlockerControlType, ResetTrackingBlockerEnabled

\* A rule changes the setting of no page that its pattern does not match.
LEMMA OnlyMatching ==
  ASSUME NEW m \in Map, NEW pattern, NEW setting, NEW url, ~Matches(pattern, url)
  PROVE  LET n == SetContentSettingCustomScope(m, pattern, setting) IN
         /\ GetContentSetting(n, url) = GetContentSetting(m, url)
         /\ GetTrackingBlockerEnabled(n, url) = GetTrackingBlockerEnabled(m, url)
  <1> DEFINE n == SetContentSettingCustomScope(m, pattern, setting)
  <1>1. pattern # Wildcard /\ (url = GURL \/ pattern # url.host)
    BY DEF Matches
  <1>2. n = [m EXCEPT ![pattern] = setting]
    BY <1>1 DEF SetContentSettingCustomScope
  <1>3. DOMAIN n = DOMAIN m /\ \A p \in DOMAIN m : p # pattern => n[p] = m[p]
    BY <1>2
  <1>4. Wildcard \in DOMAIN m
    BY DEF Map, HostContentSettingsMap
  <1> HIDE DEF n
  <1>5. GetContentSetting(n, url) = GetContentSetting(m, url)
    BY <1>1, <1>3, <1>4 DEF GetContentSetting
  <1>6. GetTrackingBlockerEnabled(n, url) = GetTrackingBlockerEnabled(m, url)
    BY <1>5 DEF GetTrackingBlockerEnabled
  <1> QED BY <1>5, <1>6 DEF n

-----------------------------------------------------------------------------
\* The reports.

\* A request that the hook redirects had a tracker, and its URL has not left
\* the set of URLs.
LEMMA RedirectReports ==
  ASSUME NEW t, NEW url \in URL \cup {GURL}, NEW initiator,
         OnBeforeURLRequest_SiteHacksWork(RequestOf(t, url, initiator)) # GURL
  PROVE  /\ url \in URL /\ removed_trackers(url) # {} /\ removed_trackers(url) \subseteq Key
         /\ OnBeforeURLRequest_SiteHacksWork(RequestOf(t, url, initiator)) \in URL
  <1> DEFINE ctx == RequestOf(t, url, initiator)
             filtered == ApplyPotentialQueryStringFilter(ctx)
  <1>1. ctx.request_url = url
    BY DEF RequestOf, MakeCTX
  <1> HIDE DEF ctx
  <1>2. /\ has_query(url) /\ filtered # url
        /\ OnBeforeURLRequest_SiteHacksWork(ctx) = filtered
    BY <1>1, Zenon DEF OnBeforeURLRequest_SiteHacksWork, ctx
  <1>3. filtered = ApplyQueryFilter(url)
    BY <1>1, <1>2 DEF ApplyPotentialQueryStringFilter
  <1>4. url # GURL
    <2>1. GURL.query = <<>>
      BY DEF GURL
    <2> QED BY <1>2, <2>1, Zenon DEF has_query
  <1>5. HasTracker(url)
    BY <1>2, <1>3 DEF ApplyQueryFilter
  <1>6. removed_trackers(url) # {}
    BY <1>5 DEF HasTracker, removed_trackers
  <1> QED BY <1>2, <1>3, <1>4, <1>6, URLAssumption DEF Key, ctx

\* The names reported since the last page that reported none.
Streak(pages) ==
    { key \in Key :
        \E page \in 1 .. Len(pages) :
          /\ key \in pages[page]
          /\ \A later \in page .. Len(pages) - 1 : pages[later] # {} }

\* Another report adds to the last page's, and to the streak.
LEMMA ReportStreak ==
  ASSUME NEW pages \in Seq(SUBSET Key), Len(pages) >= 1, NEW names \in SUBSET Key
  PROVE  LET n == Len(pages)
             more == [pages EXCEPT ![n] = @ \cup names]
         IN /\ more \in Seq(SUBSET Key) /\ Len(more) = n
            /\ more[n] = pages[n] \cup names
            /\ Streak(more) = Streak(pages) \cup names
  <1> DEFINE n == Len(pages)
             more == [pages EXCEPT ![n] = @ \cup names]
  <1>1. n \in Nat /\ n >= 1 /\ pages \in [1 .. n -> SUBSET Key]
    BY LenProperties
  <1> HIDE DEF n
  <1>2. more \in [1 .. n -> SUBSET Key]
    BY <1>1
  <1>3. more \in Seq(SUBSET Key) /\ Len(more) = n
    <2>1. more \in Seq(SUBSET Key)
      BY <1>1, <1>2, SeqDef
    <2>2. DOMAIN more = 1 .. n /\ DOMAIN more = 1 .. Len(more) /\ Len(more) \in Nat
      BY <1>2, <2>1, LenProperties
    <2> HIDE DEF more
    <2> QED BY <1>1, <2>1, <2>2
  <1>4. more[n] = pages[n] \cup names /\ \A page \in 1 .. n - 1 : more[page] = pages[page]
    BY <1>1
  <1> HIDE DEF more
  <1>5. ASSUME NEW key \in Key
        PROVE  (\E page \in 1 .. n : /\ key \in more[page]
                                     /\ \A later \in page .. n - 1 : more[later] # {})
               <=> \/ key \in names
                   \/ \E page \in 1 .. n : /\ key \in pages[page]
                                           /\ \A later \in page .. n - 1 : pages[later] # {}
    <2>1. ASSUME key \in names
          PROVE  \E page \in 1 .. n : /\ key \in more[page]
                                      /\ \A later \in page .. n - 1 : more[later] # {}
      <3>1. n \in 1 .. n /\ key \in more[n] /\ \A later \in n .. n - 1 : FALSE
        BY <1>1, <1>4, <2>1
      <3> QED BY <3>1
    <2>2. ASSUME NEW page \in 1 .. n, key \in pages[page],
                 \A later \in page .. n - 1 : pages[later] # {}
          PROVE  key \in more[page] /\ \A later \in page .. n - 1 : more[later] # {}
      BY <1>1, <1>4, <2>2
    <2>3. ASSUME NEW page \in 1 .. n, key \in more[page],
                 \A later \in page .. n - 1 : more[later] # {}, key \notin names
          PROVE  key \in pages[page] /\ \A later \in page .. n - 1 : pages[later] # {}
      BY <1>1, <1>4, <2>3
    <2> QED BY <2>1, <2>2, <2>3
  <1>6. Streak(more) = Streak(pages) \cup names
    BY <1>3, <1>5 DEF Streak, n
  <1> QED BY <1>3, <1>4, <1>6 DEF n, more

\* A page that is committed ends the streak if the one before reported nothing.
LEMMA CommitStreak ==
  ASSUME NEW pages \in Seq(SUBSET Key), Len(pages) >= 1
  PROVE  LET n == Len(pages)
             more == Append(pages, {})
         IN /\ more \in Seq(SUBSET Key) /\ Len(more) = n + 1 /\ more[n + 1] = {}
            /\ Streak(more) = IF pages[n] # {} THEN Streak(pages) ELSE {}
  <1> DEFINE n == Len(pages)
             more == Append(pages, {})
  <1>1. /\ n \in Nat /\ n >= 1 /\ more \in Seq(SUBSET Key) /\ Len(more) = n + 1
        /\ more[n + 1] = {} /\ \A page \in 1 .. n : more[page] = pages[page]
    BY AppendProperties, LenProperties
  <1> HIDE DEF n, more
  <1>2. ASSUME NEW key \in Key
        PROVE  (\E page \in 1 .. n + 1 : /\ key \in more[page]
                                         /\ \A later \in page .. n : more[later] # {})
               <=> /\ pages[n] # {}
                   /\ \E page \in 1 .. n : /\ key \in pages[page]
                                           /\ \A later \in page .. n - 1 : pages[later] # {}
    <2>1. ASSUME NEW page \in 1 .. n + 1, key \in more[page],
                 \A later \in page .. n : more[later] # {}
          PROVE  /\ pages[n] # {} /\ page \in 1 .. n /\ key \in pages[page]
                 /\ \A later \in page .. n - 1 : pages[later] # {}
      <3>1. page \in 1 .. n
        BY <1>1, <2>1
      <3>2. n \in page .. n /\ n \in 1 .. n
        BY <1>1, <3>1
      <3>3. \A later \in page .. n - 1 : later \in page .. n /\ later \in 1 .. n
        BY <1>1, <3>1
      <3> QED BY <1>1, <2>1, <3>1, <3>2, <3>3
    <2>2. ASSUME pages[n] # {}, NEW page \in 1 .. n, key \in pages[page],
                 \A later \in page .. n - 1 : pages[later] # {}
          PROVE  /\ page \in 1 .. n + 1 /\ key \in more[page]
                 /\ \A later \in page .. n : more[later] # {}
      <3>1. page \in 1 .. n + 1 /\ key \in more[page]
        BY <1>1, <2>2
      <3>2. \A later \in page .. n : later \in 1 .. n /\ (later = n \/ later \in page .. n - 1)
        BY <1>1, <2>2
      <3> QED BY <1>1, <2>2, <3>1, <3>2
    <2> QED BY <2>1, <2>2
  <1>3. Len(more) - 1 = n
    BY <1>1
  <1>4. Streak(more) = IF pages[n] # {} THEN Streak(pages) ELSE {}
    BY <1>1, <1>2, <1>3 DEF Streak, n
  <1> QED BY <1>1, <1>4 DEF n, more

-----------------------------------------------------------------------------
\* The invariant.

\* What a tab reported is there, and whether the present page had any; a
\* navigation has a URL.
Kept(t) ==
    /\ Len(reports[t]) >= 1
    /\ controller[t].keep_blocked_url_params_record_ = (reports[t][Len(reports[t])] # {})
    /\ controller[t].resource_list_blocked_url_params_ = Streak(reports[t])
    /\ navigating[t].stage # "none" => navigating[t].url \in URL

IInv == TypeOK /\ \A t \in Tab : Kept(t)

\* A report is kept, and is the only thing that happens to a record.
LEMMA ReportsKeeps ==
  ASSUME IInv, NEW t \in Tab, NEW url \in URL, Reports(t, url),
         removed_trackers(url) \in SUBSET Key, removed_trackers(url) # {}
  PROVE  /\ controller' \in [Tab -> Controller(Key)]
         /\ reports' \in [Tab -> Seq(SUBSET Key)]
         /\ notified' = {<<t, "OnResourcesChanged">>}
         /\ \A u \in Tab : u # t => controller'[u] = controller[u] /\ reports'[u] = reports[u]
         /\ Len(reports'[t]) >= 1
         /\ controller'[t].keep_blocked_url_params_record_ =
              (reports'[t][Len(reports'[t])] # {})
         /\ controller'[t].resource_list_blocked_url_params_ = Streak(reports'[t])
  <1> DEFINE names == removed_trackers(url)
             pages == reports[t]
             n == Len(pages)
             more == [pages EXCEPT ![n] = @ \cup names]
             c == HandleURLParamsBlocked(controller[t], names)
  <1>1. pages \in Seq(SUBSET Key) /\ n >= 1 /\ names \in SUBSET Key /\ names # {}
    BY DEF IInv, TypeOK, Kept
  <1>2. controller[t] \in Controller(Key)
    BY DEF IInv, TypeOK
  <1>3. controller' = [controller EXCEPT ![t] = c] /\ reports' = [reports EXCEPT ![t] = more]
    BY DEF Reports
  <1>4. notified' = {<<t, "OnResourcesChanged">>}
    BY DEF Reports, OnResourcesChanged
  <1>5. /\ c \in Controller(Key) /\ c.keep_blocked_url_params_record_ = TRUE
        /\ c.resource_list_blocked_url_params_ =
             controller[t].resource_list_blocked_url_params_ \cup names
    BY <1>1, <1>2 DEF HandleURLParamsBlocked, Controller
  <1>6. /\ more \in Seq(SUBSET Key) /\ Len(more) = n /\ more[n] = pages[n] \cup names
        /\ Streak(more) = Streak(pages) \cup names
    BY <1>1, ReportStreak
  <1> HIDE DEF names, n, more, c
  <1>7. /\ controller'[t] = c /\ reports'[t] = more
        /\ \A u \in Tab : u # t => controller'[u] = controller[u] /\ reports'[u] = reports[u]
    BY <1>3 DEF IInv, TypeOK
  <1>8. /\ controller' \in [Tab -> Controller(Key)]
        /\ reports' \in [Tab -> Seq(SUBSET Key)]
    BY <1>3, <1>5, <1>6 DEF IInv, TypeOK
  <1>9. more[n] # {}
    BY <1>1, <1>6
  <1>10. controller[t].resource_list_blocked_url_params_ = Streak(pages)
    BY DEF IInv, Kept
  <1> QED BY <1>1, <1>4, <1>5, <1>6, <1>7, <1>8, <1>9, <1>10

\* A tab whose record and reports stay is as it was.
LEMMA KeptStays ==
  ASSUME NEW t \in Tab, Kept(t), controller'[t] = controller[t], reports'[t] = reports[t],
         navigating'[t].stage # "none" => navigating'[t].url \in URL
  PROVE  Kept(t)'
  BY DEF Kept, Streak

\* A tab that is given a record and pages that agree is as it has to be.
LEMMA KeptSet ==
  ASSUME NEW t \in Tab, NEW pages, NEW c, NEW navigation,
         reports'[t] = pages, controller'[t] = c, navigating'[t] = navigation,
         Len(pages) >= 1, c.keep_blocked_url_params_record_ = (pages[Len(pages)] # {}),
         c.resource_list_blocked_url_params_ = Streak(pages),
         navigation.stage # "none" => navigation.url \in URL
  PROVE  Kept(t)'
  BY DEF Kept, Streak

\* Steps that leave every record, with a navigation of one tab at most.
LEMMA NavigationStep ==
  ASSUME IInv, NEW t \in Tab, NEW navigation,
         navigation \in [ url : URL \cup {GURL}, stage : {"none", "requested", "loading"} ],
         navigation.stage # "none" => navigation.url \in URL,
         navigating' = [navigating EXCEPT ![t] = navigation] \/ navigating' = navigating,
         UNCHANGED <<open, committed, controller, reports>>,
         map' \in Map,
         resource_list_blocked_ads_' \in [Tab -> SUBSET Item],
         resource_list_blocked_trackers_' \in [Tab -> SUBSET Item],
         notified' \subseteq Tab \X {"OnResourcesChanged", "OnTrackingBlockerEnabledChanged"}
  PROVE  IInv'
  <1>1. navigating' \in [Tab -> [ url : URL \cup {GURL},
                                  stage : {"none", "requested", "loading"} ]]
    BY DEF IInv, TypeOK
  <1>2. TypeOK'
    BY <1>1 DEF IInv, TypeOK, Map, Hosts
  <1>3. ASSUME NEW u \in Tab PROVE Kept(u)'
    <2>1. navigating'[u].stage # "none" => navigating'[u].url \in URL
      <3>1. navigating[u].stage # "none" => navigating[u].url \in URL
        BY DEF IInv, Kept
      <3>2. navigating'[u] = navigation \/ navigating'[u] = navigating[u]
        BY DEF IInv, TypeOK
      <3> QED BY <3>1, <3>2
    <2> QED BY <2>1, KeptStays DEF IInv
  <1> QED BY <1>2, <1>3 DEF IInv

\* New tabs have one page and nothing reported.
LEMMA InitInv == Init => IInv
  <1> SUFFICES ASSUME Init PROVE IInv
    OBVIOUS
  <1>1. map \in HostContentSettingsMap(Hosts)
    BY RegisteredDefaultAssumption DEF Init, HostContentSettingsMap, ContentSetting, Hosts
  <1>2. navigating \in [Tab -> [ url : URL \cup {GURL},
                                 stage : {"none", "requested", "loading"} ]]
    BY DEF Init, NoNavigation
  <1>3. controller \in [Tab -> Controller(Key)]
    BY DEF Init, NewController, Controller
  <1>4. << {} >> \in Seq(SUBSET Key) /\ Len(<< {} >>) = 1 /\ << {} >>[1] = {}
    OBVIOUS
  <1>5. reports = [t \in Tab |-> << {} >>]
    BY DEF Init
  <1>6. reports \in [Tab -> Seq(SUBSET Key)]
    BY <1>4, <1>5
  <1>7. TypeOK
    BY <1>1, <1>2, <1>3, <1>6 DEF Init, TypeOK, Hosts
  <1>8. Streak(<< {} >>) = {}
    BY <1>4 DEF Streak
  <1>9. ASSUME NEW t \in Tab PROVE Kept(t)
    <2>1. reports[t] = << {} >>
      BY <1>5
    <2>2. /\ ~controller[t].keep_blocked_url_params_record_
          /\ controller[t].keep_blocked_url_params_record_ = FALSE
          /\ controller[t].resource_list_blocked_url_params_ = {}
          /\ navigating[t].stage = "none"
      BY DEF Init, NewController, NoNavigation
    <2>3. reports[t][Len(reports[t])] = {} /\ Len(reports[t]) >= 1
      BY <1>4, <2>1
    <2>4. controller[t].keep_blocked_url_params_record_ = (reports[t][Len(reports[t])] # {})
      BY <2>2, <2>3
    <2>5. controller[t].resource_list_blocked_url_params_ = Streak(reports[t])
      BY <1>8, <2>1, <2>2
    <2> QED BY <2>2, <2>3, <2>4, <2>5 DEF Kept
  <1> QED BY <1>7, <1>9 DEF IInv

\* Every step keeps the records, tab by tab.
LEMMA NextInv ==
  ASSUME IInv, [Next]_vars
  PROVE  IInv'
  <1> DEFINE Stages == {"none", "requested", "loading"}
             Calls == Tab \X {"OnResourcesChanged", "OnTrackingBlockerEnabledChanged"}
             Navigation == [url : URL \cup {GURL}, stage : Stages]
  <1>1. /\ map \in Map
        /\ resource_list_blocked_ads_ \in [Tab -> SUBSET Item]
        /\ resource_list_blocked_trackers_ \in [Tab -> SUBSET Item]
        /\ navigating \in [Tab -> Navigation]
        /\ committed \in [Tab -> URL \cup {GURL}]
        /\ controller \in [Tab -> Controller(Key)]
        /\ reports \in [Tab -> Seq(SUBSET Key)]
        /\ open \subseteq Tab
    BY DEF IInv, TypeOK, Map, Hosts
  <1>2. NoNavigation \in Navigation /\ NoNavigation.stage = "none"
    BY DEF NoNavigation
  <1>3. {} \subseteq Calls /\ \A t \in Tab : OnResourcesChanged(t) \subseteq Calls
    BY DEF OnResourcesChanged
  <1>4. \A pattern : OnContentSettingChanged(pattern) \subseteq Calls
    BY <1>1 DEF OnContentSettingChanged
  <1>5. ASSUME NEW t \in Tab, NEW url \in URL, BeginNavigation(t, url) PROVE IInv'
    <2> DEFINE navigation == [url |-> url, stage |-> "requested"]
    <2>1. navigation \in Navigation /\ navigation.url \in URL
      OBVIOUS
    <2>2. /\ navigating' = [navigating EXCEPT ![t] = navigation] /\ notified' = {}
          /\ UNCHANGED <<map, open, committed, controller, lists, reports>>
      BY <1>5 DEF BeginNavigation
    <2> HIDE DEF navigation
    <2> QED BY <1>1, <1>3, <2>1, <2>2, NavigationStep DEF lists
  <1>6. ASSUME NEW t \in Tab, NEW url \in URL, LoadSubresource(t, url) PROVE IInv'
    <2>1. /\ OnBeforeURLRequest_SiteHacksWork(RequestOf(t, url, Origin(committed[t]))) # GURL
          /\ Reports(t, url) /\ UNCHANGED <<map, open, committed, navigating, lists>>
      BY <1>6 DEF LoadSubresource
    <2>2. removed_trackers(url) \in SUBSET Key /\ removed_trackers(url) # {}
      BY <2>1, RedirectReports
    <2>3. /\ controller' \in [Tab -> Controller(Key)]
          /\ reports' \in [Tab -> Seq(SUBSET Key)]
          /\ notified' = {<<t, "OnResourcesChanged">>}
          /\ \A u \in Tab : u # t => controller'[u] = controller[u] /\ reports'[u] = reports[u]
          /\ Len(reports'[t]) >= 1
          /\ controller'[t].keep_blocked_url_params_record_ =
               (reports'[t][Len(reports'[t])] # {})
          /\ controller'[t].resource_list_blocked_url_params_ = Streak(reports'[t])
      BY <2>1, <2>2, ReportsKeeps
    <2>4. TypeOK'
      BY <1>1, <2>1, <2>3 DEF TypeOK, lists, Map, Hosts
    <2>5. ASSUME NEW u \in Tab PROVE Kept(u)'
      <3>1. CASE u = t
        <4>1. navigating'[t].stage # "none" => navigating'[t].url \in URL
          BY <2>1 DEF IInv, Kept
        <4>2. Kept(t)'
          BY <2>3, <4>1, KeptSet
        <4> QED BY <3>1, <4>2
      <3>2. CASE u # t
        BY <2>1, <2>3, <3>2, KeptStays DEF IInv, Kept
      <3> QED BY <3>1, <3>2
    <2> QED BY <2>4, <2>5 DEF IInv
  <1>7. ASSUME NEW t \in Tab, StartNavigation(t) PROVE IInv'
    <2> DEFINE url == navigating[t].url
               redirect_url == OnBeforeURLRequest_SiteHacksWork(RequestOf(t, url, OpaqueOrigin))
    <2>1. /\ navigating[t].stage = "requested" /\ navigating[t] \in Navigation /\ url \in URL
          /\ UNCHANGED <<map, open, committed, lists>>
      BY <1>1, <1>7 DEF StartNavigation, IInv, Kept
    <2>2. CASE redirect_url # GURL
      <3>1. Reports(t, url) /\ navigating' = [navigating EXCEPT ![t].url = redirect_url]
        BY <1>7, <2>2 DEF StartNavigation
      <3>2. /\ removed_trackers(url) \in SUBSET Key /\ removed_trackers(url) # {}
            /\ redirect_url \in URL
        BY <2>1, <2>2, RedirectReports
      <3> HIDE DEF redirect_url
      <3>3. /\ navigating' \in [Tab -> Navigation] /\ navigating'[t].url \in URL
            /\ \A u \in Tab : u # t => navigating'[u] = navigating[u]
        BY <1>1, <2>1, <3>1, <3>2
      <3> HIDE DEF url
      <3>4. /\ controller' \in [Tab -> Controller(Key)]
            /\ reports' \in [Tab -> Seq(SUBSET Key)]
            /\ notified' = {<<t, "OnResourcesChanged">>}
            /\ \A u \in Tab : u # t => /\ controller'[u] = controller[u]
                                       /\ reports'[u] = reports[u]
            /\ Len(reports'[t]) >= 1
            /\ controller'[t].keep_blocked_url_params_record_ =
                 (reports'[t][Len(reports'[t])] # {})
            /\ controller'[t].resource_list_blocked_url_params_ = Streak(reports'[t])
        BY <2>1, <3>1, <3>2, ReportsKeeps
      <3>5. TypeOK'
        BY <1>1, <2>1, <3>3, <3>4 DEF TypeOK, lists, Map, Hosts
      <3>6. ASSUME NEW u \in Tab PROVE Kept(u)'
        <4>1. CASE u = t
          <5>1. Kept(t)'
            BY <3>3, <3>4, KeptSet
          <5> QED BY <4>1, <5>1
        <4>2. CASE u # t
          BY <3>3, <3>4, <4>2, KeptStays DEF IInv, Kept
        <4> QED BY <4>1, <4>2
      <3> QED BY <3>5, <3>6 DEF IInv
    <2>3. CASE redirect_url = GURL
      <3> DEFINE navigation == [navigating[t] EXCEPT !.stage = "loading"]
      <3>1. /\ navigating' = [navigating EXCEPT ![t] = navigation] /\ notified' = {}
            /\ UNCHANGED <<controller, reports>>
        BY <1>7, <2>3 DEF StartNavigation
      <3>2. navigation \in Navigation /\ navigation.url \in URL
        BY <2>1
      <3> HIDE DEF navigation
      <3> QED BY <1>1, <1>3, <2>1, <3>1, <3>2, NavigationStep DEF lists
    <2> QED BY <2>2, <2>3
  <1>8. ASSUME NEW t \in Tab, DidFinishNavigation(t) PROVE IInv'
    <2> DEFINE pages == reports[t]
               n == Len(pages)
               more == Append(pages, {})
               c == ClearAllResourcesList(controller[t])
    <2>1. /\ committed' = [committed EXCEPT ![t] = navigating[t].url]
          /\ navigating' = [navigating EXCEPT ![t] = NoNavigation]
          /\ controller' = [controller EXCEPT ![t] = c]
          /\ reports' = [reports EXCEPT ![t] = more]
          /\ notified' = OnResourcesChanged(t)
          /\ UNCHANGED <<map, open>>
          /\ navigating[t].url \in URL
      BY <1>8 DEF DidFinishNavigation, IInv, Kept
    <2>2. /\ resource_list_blocked_ads_' \in [Tab -> SUBSET Item]
          /\ resource_list_blocked_trackers_' \in [Tab -> SUBSET Item]
      BY <1>1, <1>8 DEF DidFinishNavigation
    <2>3. /\ n >= 1 /\ controller[t] \in Controller(Key)
          /\ controller[t].keep_blocked_url_params_record_ = (pages[n] # {})
          /\ controller[t].resource_list_blocked_url_params_ = Streak(pages)
      BY <1>1 DEF IInv, Kept
    <2>4. /\ more \in Seq(SUBSET Key) /\ Len(more) = n + 1 /\ more[n + 1] = {}
          /\ Streak(more) = IF pages[n] # {} THEN Streak(pages) ELSE {}
          /\ n + 1 >= 1
      <3>1. pages \in Seq(SUBSET Key)
        BY <1>1
      <3>2. n \in Nat /\ n + 1 >= 1
        <4> HIDE DEF pages
        <4> QED BY <3>1, LenProperties
      <3>3. n >= 1
        BY <2>3
      <3> HIDE DEF pages
      <3> QED BY <3>1, <3>2, <3>3, CommitStreak
    <2>5. /\ c \in Controller(Key) /\ c.keep_blocked_url_params_record_ = FALSE
          /\ c.resource_list_blocked_url_params_ = Streak(more)
      BY <2>3, <2>4 DEF ClearAllResourcesList, Controller
    <2> HIDE DEF n, more, c
    <2>6. TypeOK'
      <3>1. /\ controller' \in [Tab -> Controller(Key)] /\ reports' \in [Tab -> Seq(SUBSET Key)]
            /\ navigating' \in [Tab -> Navigation]
            /\ committed' \in [Tab -> URL \cup {GURL}]
        BY <1>1, <1>2, <2>1, <2>4, <2>5
      <3> QED BY <1>1, <1>3, <2>1, <2>2, <3>1 DEF TypeOK, Map, Hosts
    <2>7. ASSUME NEW u \in Tab PROVE Kept(u)'
      <3>1. CASE u = t
        <4>1. controller'[t] = c /\ reports'[t] = more /\ navigating'[t] = NoNavigation
          BY <1>1, <2>1
        <4>2. Len(more) >= 1 /\ c.keep_blocked_url_params_record_ = (more[Len(more)] # {})
          BY <2>4, <2>5
        <4>3. Kept(t)'
          BY <1>2, <2>5, <4>1, <4>2, KeptSet
        <4> QED BY <3>1, <4>3
      <3>2. CASE u # t
        <4>1. /\ controller'[u] = controller[u] /\ reports'[u] = reports[u]
              /\ navigating'[u] = navigating[u]
          BY <1>1, <2>1, <3>2
        <4> QED BY <4>1, KeptStays DEF IInv, Kept
      <3> QED BY <3>1, <3>2
    <2> QED BY <2>6, <2>7 DEF IInv
  <1>9. ASSUME NEW t \in Tab, NavigationFails(t) PROVE IInv'
    <2>1. /\ navigating' = [navigating EXCEPT ![t] = NoNavigation] /\ notified' = {}
          /\ UNCHANGED <<map, open, committed, controller, lists, reports>>
      BY <1>9 DEF NavigationFails
    <2> QED BY <1>1, <1>2, <1>3, <2>1, NavigationStep DEF lists
  <1>10. ASSUME NEW t \in Tab, NEW block_type, NEW subresource \in Item,
                HandleItemBlocked(t, block_type, subresource)
         PROVE  IInv'
    <2>1. /\ notified' = OnResourcesChanged(t)
          /\ UNCHANGED <<map, open, committed, navigating, controller, reports>>
          /\ resource_list_blocked_ads_' \in [Tab -> SUBSET Item]
          /\ resource_list_blocked_trackers_' \in [Tab -> SUBSET Item]
      BY <1>1, <1>10 DEF HandleItemBlocked
    <2> QED BY <1>1, <1>2, <1>3, <2>1, NavigationStep
  <1>11. ASSUME NEW t \in Tab, NEW is_enabled \in BOOLEAN,
                SetTrackingBlockerEnabled(t, is_enabled)
         PROVE  IInv'
    <2> DEFINE navigation == IF committed[t] = GURL THEN NoNavigation
                             ELSE [url |-> committed[t], stage |-> "requested"]
    <2>1. /\ map' = SwitchedMap(t, is_enabled)
          /\ navigating' = [navigating EXCEPT ![t] = navigation]
          /\ notified' = {} \/ \E pattern : notified' = OnContentSettingChanged(pattern)
          /\ UNCHANGED <<open, committed, controller, lists, reports>>
      BY <1>11 DEF SetTrackingBlockerEnabled
    <2>2. map' \in Map
      BY <1>1, <2>1, SetMap DEF SwitchedMap
    <2>3. navigation \in Navigation /\ (navigation.stage # "none" => navigation.url \in URL)
      BY <1>1, <1>2
    <2>4. notified' \subseteq Calls
      BY <1>3, <1>4, <2>1
    <2> HIDE DEF navigation
    <2> QED BY <1>1, <2>1, <2>2, <2>3, <2>4, NavigationStep DEF lists
  <1>12. ASSUME NEW t \in Tab, WebContentsDestroyed(t) PROVE IInv'
    <2>1. /\ open' = open \ {t}
          /\ committed' = [committed EXCEPT ![t] = GURL]
          /\ navigating' = [navigating EXCEPT ![t] = NoNavigation]
          /\ controller' = [controller EXCEPT ![t] = NewController]
          /\ reports' = [reports EXCEPT ![t] = << {} >>]
          /\ notified' = {} /\ UNCHANGED map
      BY <1>12 DEF WebContentsDestroyed
    <2>2. /\ resource_list_blocked_ads_' \in [Tab -> SUBSET Item]
          /\ resource_list_blocked_trackers_' \in [Tab -> SUBSET Item]
      BY <1>1, <1>12 DEF WebContentsDestroyed
    <2>3. << {} >> \in Seq(SUBSET Key) /\ Len(<< {} >>) = 1 /\ << {} >>[1] = {}
      OBVIOUS
    <2>4. NewController \in Controller(Key)
      BY DEF NewController, Controller
    <2>5. TypeOK'
      <3>1. /\ controller' \in [Tab -> Controller(Key)]
            /\ navigating' \in [Tab -> Navigation]
            /\ committed' \in [Tab -> URL \cup {GURL}]
        BY <1>1, <1>2, <2>1, <2>4
      <3>2. reports' \in [Tab -> Seq(SUBSET Key)]
        BY <1>1, <2>1, <2>3
      <3> QED BY <1>1, <1>3, <2>1, <2>2, <3>1, <3>2 DEF TypeOK, Map, Hosts
    <2>6. ASSUME NEW u \in Tab PROVE Kept(u)'
      <3>1. CASE u = t
        <4>1. /\ controller'[t] = NewController /\ reports'[t] = << {} >>
              /\ navigating'[t] = NoNavigation
          BY <1>1, <2>1
        <4>2. Streak(<< {} >>) = {}
          BY <2>3 DEF Streak
        <4>3. /\ NewController.keep_blocked_url_params_record_ = FALSE
              /\ NewController.resource_list_blocked_url_params_ = {}
          BY DEF NewController
        <4>4. /\ Len(<< {} >>) >= 1
              /\ NewController.keep_blocked_url_params_record_
                   = (<< {} >>[Len(<< {} >>)] # {})
          <5>1. (<< {} >>[Len(<< {} >>)] # {}) = FALSE /\ Len(<< {} >>) >= 1
            BY <2>3
          <5> QED BY <4>3, <5>1
        <4>5. Kept(t)'
          BY <1>2, <4>1, <4>2, <4>3, <4>4, KeptSet
        <4> QED BY <3>1, <4>5
      <3>2. CASE u # t
        <4>1. /\ controller'[u] = controller[u] /\ reports'[u] = reports[u]
              /\ navigating'[u] = navigating[u]
          BY <1>1, <2>1, <3>2
        <4> QED BY <4>1, KeptStays DEF IInv, Kept
      <3> QED BY <3>1, <3>2
    <2> QED BY <2>5, <2>6 DEF IInv
  <1>13. ASSUME NEW type \in SettingsType, NEW url \in URL \cup {GURL},
                SettingsPageSets(type, url)
         PROVE  IInv'
    <2>1. /\ map' \in { SetTrackingBlockerControlType(map, type, url),
                         ResetTrackingBlockerEnabled(map, url) }
          /\ notified' = {} \/ \E pattern : notified' = OnContentSettingChanged(pattern)
          /\ UNCHANGED <<open, committed, navigating, controller, lists, reports>>
      BY <1>13 DEF SettingsPageSets
    <2>2. map' \in Map /\ notified' \subseteq Calls
      <3>1. /\ SetTrackingBlockerControlType(map, type, url) \in Map
            /\ ResetTrackingBlockerEnabled(map, url) \in Map
        BY <1>1, SetMap
      <3>2. map' \in Map
        BY <2>1, <3>1, Zenon
      <3>3. notified' \subseteq Calls
        BY <1>3, <1>4, <2>1
      <3> QED BY <3>2, <3>3
    <2>3. TypeOK'
      BY <1>1, <2>1, <2>2 DEF TypeOK, lists, Map, Hosts
    <2>4. ASSUME NEW u \in Tab PROVE Kept(u)'
      BY <2>1, KeptStays DEF IInv, Kept
    <2> QED BY <2>3, <2>4 DEF IInv
  <1>14. CASE UNCHANGED vars
    <2>1. TypeOK'
      BY <1>14 DEF vars, lists, IInv, TypeOK
    <2>2. ASSUME NEW u \in Tab PROVE Kept(u)'
      BY <1>14, KeptStays DEF IInv, Kept, vars
    <2> QED BY <2>1, <2>2 DEF IInv
  <1> HIDE DEF IInv
  <1> QED BY <1>5, <1>6, <1>7, <1>8, <1>9, <1>10, <1>11, <1>12, <1>13, <1>14 DEF Next

\* The records of all tabs, in every state.
LEMMA Invariant == Spec => []IInv
  <1>1. IInv /\ [Next]_vars => IInv'
    BY NextInv
  <1> QED BY <1>1, InitInv, PTL DEF Spec

\* Tabs, settings, records and reports have their types, also after any
\* redirects, destroyed tabs and settings of other pages.
THEOREM TypeCorrect == Spec => []TypeOK
  <1>1. IInv => TypeOK
    BY DEF IInv
  <1> QED BY <1>1, Invariant, PTL

\* A tab's record is that of the unbroken run of pages with reports up to the
\* present one, however many pages, redirects and reloads there were
\* (whale_shields_data_controller.cc:65-76, 150-160).
THEOREM RecordCorrect == Spec => []RecordIsTheStreak
  <1>1. IInv => RecordIsTheStreak
    BY DEF IInv, Kept, RecordIsTheStreak, Streak
  <1> QED BY <1>1, Invariant, PTL

-----------------------------------------------------------------------------
\* The switch.

\* One flip of a switch, with a default, without one, or in a tab with no page.
LEMMA SwitchStep ==
  ASSUME IInv, NEW t \in Tab, NEW is_enabled \in BOOLEAN,
         SetTrackingBlockerEnabled(t, is_enabled)
  PROVE  LET site == committed[t] IN
         /\ HasSetting(site) /\ map[Wildcard] # "DEFAULT"
            => GetTrackingBlockerEnabled(map', site) = is_enabled
         /\ site # GURL
            => \A url \in URL :
                 url.host # site.host
                 => GetContentSetting(map', url) = GetContentSetting(map, url)
  <1> DEFINE site == committed[t]
             pattern == GetPatternFromURL(site)
             written(setting) == SetContentSettingCustomScope(map, pattern, setting)
  <1>1. map \in Map /\ site \in URL \cup {GURL} /\ map' = SwitchedMap(t, is_enabled)
    BY DEF IInv, TypeOK, Map, Hosts, SetTrackingBlockerEnabled
  <1> HIDE DEF site
  <1>2. pattern \in DOMAIN map /\ Wildcard \in DOMAIN map
    <2>1. pattern \in Hosts \cup {Wildcard}
      BY <1>1 DEF GetPatternFromURL, Hosts
    <2> QED BY <1>1, <2>1 DEF Map, HostContentSettingsMap
  <1>3. \/ map' = map /\ ~HasSetting(site)
        \/ /\ HasSetting(site)
           /\ \E setting : map' = written(setting)
           /\ map[Wildcard] # "DEFAULT" =>
                map' = written(IF is_enabled THEN "ASK" ELSE "ALLOW")
    BY <1>1 DEF SwitchedMap, ResetTrackingBlockerEnabled, SetTrackingBlockerControlType,
                SettingOf, site
  <1> HIDE DEF pattern
  <1>4. ASSUME HasSetting(site), map[Wildcard] # "DEFAULT"
        PROVE  GetTrackingBlockerEnabled(map', site) = is_enabled
    <2> DEFINE setting == IF is_enabled THEN "ASK" ELSE "ALLOW"
    <2>1. map' = [map EXCEPT ![pattern] = setting]
      BY <1>3, <1>4 DEF SetContentSettingCustomScope
    <2>2. map'[pattern] = setting /\ pattern \in DOMAIN map' /\ setting # "DEFAULT"
      BY <1>2, <2>1
    <2>3. GetContentSetting(map', site) = setting
      <3>1. CASE site = GURL
        BY <2>2, <3>1 DEF GetContentSetting, GetPatternFromURL, pattern
      <3>2. CASE site # GURL
        <4>1. pattern = site.host
          BY <3>2 DEF GetPatternFromURL, pattern
        <4> QED BY <2>2, <3>2, <4>1 DEF GetContentSetting
      <3> QED BY <3>1, <3>2
    <2> QED BY <1>4, <2>3 DEF GetTrackingBlockerEnabled
  <1>5. ASSUME site # GURL, NEW url \in URL, url.host # site.host
        PROVE  GetContentSetting(map', url) = GetContentSetting(map, url)
    <2>1. site \in URL /\ pattern = site.host /\ pattern # Wildcard
      BY <1>1, <1>5, URLAssumption DEF GetPatternFromURL, pattern
    <2>2. ~Matches(pattern, url)
      BY <1>5, <2>1 DEF Matches
    <2>3. \A setting : GetContentSetting(written(setting), url) = GetContentSetting(map, url)
      BY <1>1, <2>2, OnlyMatching
    <2> QED BY <1>3, <2>3
  <1> QED BY <1>4, <1>5 DEF site

\* A tab's switch sets what it says, for its site and no other, whatever rules
\* there were (whale_shields_data_controller.cc:117-130,
\* tracking_blockers_util.cc:30-66).
THEOREM SwitchCorrect == Spec => SwitchIsExact
  <1>1. IInv /\ [Next]_vars =>
          [ \A t \in Tab, is_enabled \in BOOLEAN :
              SetTrackingBlockerEnabled(t, is_enabled) =>
                LET site == committed[t] IN
                /\ HasSetting(site) /\ map[Wildcard] # "DEFAULT"
                   => GetTrackingBlockerEnabled(map', site) = is_enabled
                /\ site # GURL
                   => \A url \in URL :
                        url.host # site.host
                        => GetContentSetting(map', url) = GetContentSetting(map, url)
          ]_vars
    BY SwitchStep, Zenon
  <1> QED BY <1>1, Invariant, PTL DEF Spec, SwitchIsExact

-----------------------------------------------------------------------------
\* The announcements.

\* A tab's lists stay; its shields do while it stays on its page.
ListsStay(t) ==
    /\ resource_list_blocked_ads_'[t] = resource_list_blocked_ads_[t]
    /\ resource_list_blocked_trackers_'[t] = resource_list_blocked_trackers_[t]
    /\ controller'[t] = controller[t]

ShieldsStay(t) ==
    committed'[t] = committed[t] =>
      GetTrackingBlockerEnabled(map', committed[t]) = GetTrackingBlockerEnabled(map, committed[t])

\* What is written for a pattern is announced to every open tab that the
\* pattern matches, and changes no other.
LEMMA WriteIsAnnounced ==
  ASSUME IInv, NEW url \in URL \cup {GURL},
         \/ ~HasSetting(url) /\ map' = map
         \/ HasSetting(url) /\ \E setting : map' =
              SetContentSettingCustomScope(map, GetPatternFromURL(url), setting),
         notified' = IF HasSetting(url)
                     THEN OnContentSettingChanged(GetPatternFromURL(url)) ELSE {},
         NEW t \in open
  PROVE  ShieldsStay(t) \/ <<t, "OnTrackingBlockerEnabledChanged">> \in notified'
  <1> DEFINE pattern == GetPatternFromURL(url)
  <1>1. map \in Map
    BY DEF IInv, TypeOK, Map, Hosts
  <1>2. CASE ~HasSetting(url)
    BY <1>2 DEF ShieldsStay
  <1>3. CASE HasSetting(url) /\ Matches(pattern, committed[t])
    BY <1>3 DEF OnContentSettingChanged
  <1>4. CASE HasSetting(url) /\ ~Matches(pattern, committed[t])
    <2>1. PICK setting : map' = SetContentSettingCustomScope(map, pattern, setting)
      BY <1>4
    <2> HIDE DEF pattern
    <2>2. GetTrackingBlockerEnabled(map', committed[t])
            = GetTrackingBlockerEnabled(map, committed[t])
      BY <1>1, <1>4, <2>1, OnlyMatching
    <2> QED BY <2>2 DEF ShieldsStay
  <1> QED BY <1>2, <1>3, <1>4

Announced(t) ==
    /\ ListsStay(t) \/ <<t, "OnResourcesChanged">> \in notified'
    /\ ShieldsStay(t) \/ <<t, "OnTrackingBlockerEnabledChanged">> \in notified'

\* Every step announces what it changes, to each tab that is open after it.
LEMMA NextAnnounced ==
  ASSUME IInv, [Next]_vars, NEW t \in open'
  PROVE  Announced(t)
  <1>1. /\ resource_list_blocked_ads_ \in [Tab -> SUBSET Item]
        /\ resource_list_blocked_trackers_ \in [Tab -> SUBSET Item]
        /\ committed \in [Tab -> URL \cup {GURL}]
        /\ controller \in [Tab -> Controller(Key)]
        /\ open \subseteq Tab /\ map \in Map
    BY DEF IInv, TypeOK, Map, Hosts
  <1>2. open' \subseteq open /\ t \in open /\ t \in Tab
    <2>1. open' = open \/ \E u \in Tab : open' = open \ {u}
      BY DEF Next, vars, BeginNavigation, LoadSubresource, StartNavigation,
             DidFinishNavigation, NavigationFails, HandleItemBlocked,
             SetTrackingBlockerEnabled, WebContentsDestroyed, SettingsPageSets
    <2> QED BY <1>1, <2>1
  <1>3. ASSUME UNCHANGED <<map, controller, lists>> PROVE Announced(t)
    BY <1>3 DEF Announced, ListsStay, ShieldsStay, lists
  <1>4. ASSUME NEW u \in Tab, NEW url, Reports(u, url), UNCHANGED <<map, lists>>
        PROVE  Announced(t)
    <2>1. ShieldsStay(t)
      BY <1>4 DEF ShieldsStay
    <2>2. CASE t = u
      BY <1>4, <2>1, <2>2 DEF Announced, Reports, OnResourcesChanged
    <2>3. CASE t # u
      <3>1. controller'[t] = controller[t]
        BY <1>1, <1>2, <1>4, <2>3 DEF Reports
      <3> QED BY <1>4, <2>1, <3>1 DEF Announced, ListsStay, lists
    <2> QED BY <2>2, <2>3
  <1>5. ASSUME NEW u \in Tab, NEW url \in URL, BeginNavigation(u, url) PROVE Announced(t)
    BY <1>3, <1>5 DEF BeginNavigation
  <1>6. ASSUME NEW u \in Tab, NEW url \in URL, LoadSubresource(u, url) PROVE Announced(t)
    BY <1>4, <1>6 DEF LoadSubresource
  <1>7. ASSUME NEW u \in Tab, StartNavigation(u) PROVE Announced(t)
    BY <1>3, <1>4, <1>7 DEF StartNavigation
  <1>8. ASSUME NEW u \in Tab, DidFinishNavigation(u) PROVE Announced(t)
    <2>1. ShieldsStay(t)
      BY <1>8 DEF DidFinishNavigation, ShieldsStay
    <2>2. CASE t = u
      BY <1>8, <2>1, <2>2 DEF DidFinishNavigation, Announced, OnResourcesChanged
    <2>3. CASE t # u
      BY <1>1, <1>2, <1>8, <2>1, <2>3 DEF DidFinishNavigation, Announced, ListsStay
    <2> QED BY <2>2, <2>3
  <1>9. ASSUME NEW u \in Tab, NavigationFails(u) PROVE Announced(t)
    BY <1>3, <1>9 DEF NavigationFails
  <1>10. ASSUME NEW u \in Tab, NEW block_type, NEW subresource \in Item,
                HandleItemBlocked(u, block_type, subresource)
         PROVE  Announced(t)
    <2>1. ShieldsStay(t)
      BY <1>10 DEF HandleItemBlocked, ShieldsStay
    <2>2. CASE t = u
      BY <1>10, <2>1, <2>2 DEF HandleItemBlocked, Announced, OnResourcesChanged
    <2>3. CASE t # u
      BY <1>1, <1>2, <1>10, <2>1, <2>3 DEF HandleItemBlocked, Announced, ListsStay
    <2> QED BY <2>2, <2>3
  <1>11. ASSUME NEW u \in Tab, NEW is_enabled \in BOOLEAN,
                SetTrackingBlockerEnabled(u, is_enabled)
         PROVE  Announced(t)
    <2> DEFINE url == committed[u]
    <2>1. /\ map' = SwitchedMap(u, is_enabled) /\ UNCHANGED <<controller, lists>>
          /\ notified' = IF HasSetting(url)
                         THEN OnContentSettingChanged(GetPatternFromURL(url)) ELSE {}
      BY <1>11 DEF SetTrackingBlockerEnabled
    <2>2. url \in URL \cup {GURL}
      BY <1>1
    <2>3. \/ ~HasSetting(url) /\ map' = map
          \/ HasSetting(url) /\ \E setting : map' =
               SetContentSettingCustomScope(map, GetPatternFromURL(url), setting)
      BY <2>1 DEF SwitchedMap, ResetTrackingBlockerEnabled, SetTrackingBlockerControlType
    <2> HIDE DEF url
    <2>4. ShieldsStay(t) \/ <<t, "OnTrackingBlockerEnabledChanged">> \in notified'
      BY <1>2, <2>1, <2>2, <2>3, WriteIsAnnounced
    <2> QED BY <2>1, <2>4 DEF Announced, ListsStay, lists
  <1>12. ASSUME NEW u \in Tab, WebContentsDestroyed(u) PROVE Announced(t)
    <2>1. t # u /\ map' = map
      BY <1>12 DEF WebContentsDestroyed
    <2> QED BY <1>1, <1>2, <1>12, <2>1 DEF WebContentsDestroyed, Announced, ListsStay, ShieldsStay
  <1>13. ASSUME NEW type \in SettingsType, NEW url \in URL \cup {GURL},
                SettingsPageSets(type, url)
         PROVE  Announced(t)
    <2>1. /\ map' \in { SetTrackingBlockerControlType(map, type, url),
                         ResetTrackingBlockerEnabled(map, url) }
          /\ UNCHANGED <<controller, lists>>
          /\ notified' = IF HasSetting(url)
                         THEN OnContentSettingChanged(GetPatternFromURL(url)) ELSE {}
      BY <1>13 DEF SettingsPageSets
    <2>2. \/ ~HasSetting(url) /\ map' = map
          \/ HasSetting(url) /\ \E setting : map' =
               SetContentSettingCustomScope(map, GetPatternFromURL(url), setting)
      BY <2>1 DEF ResetTrackingBlockerEnabled, SetTrackingBlockerControlType
    <2>3. ShieldsStay(t) \/ <<t, "OnTrackingBlockerEnabledChanged">> \in notified'
      BY <1>2, <2>1, <2>2, WriteIsAnnounced
    <2> QED BY <2>1, <2>3 DEF Announced, ListsStay, lists
  <1>14. CASE UNCHANGED vars
    BY <1>3, <1>14 DEF vars
  <1> HIDE DEF IInv
  <1> QED BY <1>5, <1>6, <1>7, <1>8, <1>9, <1>10, <1>11, <1>12, <1>13, <1>14 DEF Next

\* Whoever changes a setting, and for whatever pattern, and whatever is blocked
\* or cleared, in any of the tabs: each that shows something else is told
\* (whale_shields_data_controller.cc:52-63, 73-75, 145-147, 157-159).
THEOREM AnnouncedCorrect == Spec => ChangesAreAnnounced
  <1>1. ASSUME IInv, [Next]_vars, NEW t \in open'
        PROVE  /\ \/ resource_list_blocked_ads_'[t] # resource_list_blocked_ads_[t]
                  \/ GetBlockedTrackersList(t)' # GetBlockedTrackersList(t)
                  => <<t, "OnResourcesChanged">> \in notified'
               /\ /\ committed'[t] = committed[t]
                  /\ GetTrackingBlockerEnabled(map', committed[t])
                       # GetTrackingBlockerEnabled(map, committed[t])
                  => <<t, "OnTrackingBlockerEnabledChanged">> \in notified'
    <2>1. Announced(t)
      BY <1>1, NextAnnounced
    <2> QED BY <2>1 DEF Announced, ListsStay, ShieldsStay, GetBlockedTrackersList
  <1>2. IInv /\ [Next]_vars =>
          [ \A t \in open' :
              /\ \/ resource_list_blocked_ads_'[t] # resource_list_blocked_ads_[t]
                 \/ GetBlockedTrackersList(t)' # GetBlockedTrackersList(t)
                 => <<t, "OnResourcesChanged">> \in notified'
              /\ /\ committed'[t] = committed[t]
                 /\ GetTrackingBlockerEnabled(map', committed[t])
                      # GetTrackingBlockerEnabled(map, committed[t])
                 => <<t, "OnTrackingBlockerEnabledChanged">> \in notified'
          ]_vars
    BY <1>1, Zenon
  <1> QED BY <1>2, Invariant, PTL DEF Spec, ChangesAreAnnounced
-----------------------------------------------------------------------------
\* The filter.  Induction, on sets of numbers and of sequences.

\* A set that has nought, and the successor of each number it has, has them all.
LEMMA NumberInduction ==
  ASSUME NEW S, 0 \in S, \A n \in Nat : n \in S => n + 1 \in S
  PROVE  Nat \subseteq S
  <1> DEFINE rest == Nat \ S
             less == {pair \in Nat \X Nat : pair[1] < pair[2]}
  <1> SUFFICES ASSUME rest # {} PROVE FALSE
    OBVIOUS
  <1>1. IsWellFoundedOn(less, Nat)
    BY NatLessThanWellFounded DEF OpToRel
  <1>2. ASSUME NEW y \in Nat, NEW x \in Nat, y < x PROVE <<y, x>> \in less
    BY <1>2
  <1> HIDE DEF less
  <1>3. PICK m \in rest : \A k \in rest : ~ (<<k, m>> \in less)
    BY <1>1, WFMin
  <1>4. m \in Nat /\ m - 1 \in Nat /\ m - 1 < m /\ (m - 1) + 1 = m
    BY <1>3
  <1>5. m - 1 \in S
    BY <1>2, <1>3, <1>4
  <1> QED BY <1>3, <1>4, <1>5

\* A set that has the empty sequence, and with each sequence all that are longer
\* by a member, has them all.
LEMMA AppendInduction ==
  ASSUME NEW T, NEW S, <<>> \in S,
         \A s \in Seq(T), e \in T : s \in S => Append(s, e) \in S
  PROVE  Seq(T) \subseteq S
  <1> DEFINE N == {n \in Nat : \A s \in Seq(T) : Len(s) = n => s \in S}
  <1>1. 0 \in N
    BY EmptySeq
  <1>2. ASSUME NEW n \in Nat, n \in N PROVE n + 1 \in N
    <2> SUFFICES ASSUME NEW s \in Seq(T), Len(s) = n + 1 PROVE s \in S
      OBVIOUS
    <2>1. s # <<>>
      BY EmptySeq
    <2>2. PICK t \in Seq(T), e \in T : s = Append(t, e)
      BY <2>1, SequenceEmptyOrAppend
    <2>3. Len(t) = n
      BY <2>2, AppendProperties, LenProperties
    <2> QED BY <1>2, <2>2, <2>3
  <1> HIDE DEF N
  <1>3. Nat \subseteq N
    BY <1>1, <1>2, NumberInduction
  <1> QED BY <1>3, LenProperties DEF N

-----------------------------------------------------------------------------
\* What is left of a sequence.

\* What Without's equation asks of the first n members of s.
Keeps(s, S, n, f) ==
    f = [k \in 0 .. n |-> IF k = 0 THEN <<>>
                          ELSE IF s[k] \in S THEN f[k - 1] ELSE Append(f[k - 1], s[k])]

LEMMA KeepsExists ==
  ASSUME NEW s, NEW S
  PROVE  \A n \in Nat : \E f : Keeps(s, S, n, f)
  <1> DEFINE N == {n \in Nat : \E f : Keeps(s, S, n, f)}
  <1>1. 0 \in N
    <2>1. Keeps(s, S, 0, [k \in 0 .. 0 |-> <<>>])
      BY DEF Keeps
    <2> QED BY <2>1
  <1>2. ASSUME NEW n \in Nat, n \in N PROVE n + 1 \in N
    <2>1. PICK f : Keeps(s, S, n, f)
      BY <1>2
    <2> DEFINE last == IF s[n + 1] \in S THEN f[n] ELSE Append(f[n], s[n + 1])
               g == [k \in 0 .. n + 1 |-> IF k = n + 1 THEN last ELSE f[k]]
    <2>2. g[n + 1] = last /\ \A k \in 0 .. n : g[k] = f[k]
      <3>1. n + 1 \in 0 .. n + 1 /\ \A k \in 0 .. n : k \in 0 .. n + 1 /\ k # n + 1
        OBVIOUS
      <3> HIDE DEF last
      <3> QED BY <3>1
    <2>3. g = [k \in 0 .. n + 1 |-> g[k]]
      OBVIOUS
    <2> HIDE DEF g
    <2>4. ASSUME NEW k \in 0 .. n + 1
          PROVE  g[k] = IF k = 0 THEN <<>>
                        ELSE IF s[k] \in S THEN g[k - 1] ELSE Append(g[k - 1], s[k])
      <3>1. CASE k = n + 1
        <4>1. k - 1 = n /\ n \in 0 .. n /\ k # 0
          BY <3>1
        <4> QED BY <2>2, <3>1, <4>1
      <3>2. CASE k # n + 1
        <4>1. k \in 0 .. n /\ (k # 0 => k - 1 \in 0 .. n)
          BY <3>2
        <4>2. f[k] = IF k = 0 THEN <<>>
                     ELSE IF s[k] \in S THEN f[k - 1] ELSE Append(f[k - 1], s[k])
          BY <2>1, <4>1 DEF Keeps
        <4> QED BY <2>2, <4>1, <4>2
      <3> QED BY <3>1, <3>2
    <2>5. Keeps(s, S, n + 1, g)
      BY <2>3, <2>4 DEF Keeps
    <2> QED BY <2>5
  <1> HIDE DEF N
  <1>3. Nat \subseteq N
    BY <1>1, <1>2, NumberInduction
  <1> QED BY <1>3 DEF N

\* Members that two sequences share are kept or left out alike.
LEMMA KeepsAlike ==
  ASSUME NEW s, NEW t, NEW S, NEW m \in Nat, NEW n \in Nat, m <= n,
         \A k \in 1 .. m : s[k] = t[k],
         NEW f, Keeps(s, S, m, f), NEW g, Keeps(t, S, n, g)
  PROVE  f[m] = g[m]
  <1> DEFINE N == {k \in Nat : k <= m => f[k] = g[k]}
  <1>1. 0 \in N
    BY DEF Keeps
  <1>2. ASSUME NEW k \in Nat, k \in N PROVE k + 1 \in N
    <2> SUFFICES ASSUME k + 1 <= m PROVE f[k + 1] = g[k + 1]
      OBVIOUS
    <2>1. /\ k + 1 \in 0 .. m /\ k + 1 \in 0 .. n /\ k + 1 \in 1 .. m
          /\ k + 1 # 0 /\ (k + 1) - 1 = k /\ k <= m
      OBVIOUS
    <2>2. f[k] = g[k] /\ s[k + 1] = t[k + 1]
      BY <1>2, <2>1
    <2>3. f[k + 1] = IF s[k + 1] \in S THEN f[k] ELSE Append(f[k], s[k + 1])
      BY <2>1 DEF Keeps
    <2>4. g[k + 1] = IF t[k + 1] \in S THEN g[k] ELSE Append(g[k], t[k + 1])
      BY <2>1 DEF Keeps
    <2> QED BY <2>2, <2>3, <2>4
  <1> HIDE DEF N
  <1>3. Nat \subseteq N
    BY <1>1, <1>2, NumberInduction
  <1> QED BY <1>3 DEF N

LEMMA WithoutKeeps ==
  ASSUME NEW s, NEW S, Len(s) \in Nat
  PROVE  \E f : Keeps(s, S, Len(s), f) /\ Without(s, S) = f[Len(s)]
  <1> DEFINE f == CHOOSE f : Keeps(s, S, Len(s), f)
  <1>1. Keeps(s, S, Len(s), f)
    BY KeepsExists
  <1>2. Without(s, S) = f[Len(s)]
    BY DEF Without, Keeps
  <1> HIDE DEF f
  <1> QED BY <1>1, <1>2

LEMMA WithoutEmpty == \A S : Without(<<>>, S) = <<>>
  <1> SUFFICES ASSUME NEW S PROVE Without(<<>>, S) = <<>>
    OBVIOUS
  <1>1. Len(<<>>) = 0
    OBVIOUS
  <1>2. PICK f : Keeps(<<>>, S, 0, f) /\ Without(<<>>, S) = f[0]
    BY <1>1, WithoutKeeps
  <1>3. f[0] = <<>>
    BY <1>2 DEF Keeps
  <1> QED BY <1>2, <1>3

LEMMA WithoutAppend ==
  ASSUME NEW T, NEW s \in Seq(T), NEW e \in T, NEW S
  PROVE  Without(Append(s, e), S) = IF e \in S THEN Without(s, S)
                                    ELSE Append(Without(s, S), e)
  <1> DEFINE t == Append(s, e)
             n == Len(s)
  <1>1. n \in Nat /\ Len(t) = n + 1 /\ t[n + 1] = e /\ \A k \in 1 .. n : s[k] = t[k]
    BY AppendProperties, LenProperties
  <1>2. PICK f : Keeps(s, S, n, f) /\ Without(s, S) = f[n]
    BY <1>1, WithoutKeeps
  <1> HIDE DEF t
  <1>3. PICK g : Keeps(t, S, n + 1, g) /\ Without(t, S) = g[n + 1]
    <2>1. Len(t) \in Nat
      BY <1>1
    <2> QED BY <1>1, <2>1, WithoutKeeps
  <1>4. n + 1 \in Nat /\ n <= n + 1
    BY <1>1
  <1> HIDE DEF n
  <1>5. f[n] = g[n]
    BY <1>1, <1>2, <1>3, <1>4, KeepsAlike
  <1>6. g[n + 1] = IF t[n + 1] \in S THEN g[n] ELSE Append(g[n], t[n + 1])
    <2>1. n + 1 \in 0 .. n + 1 /\ n + 1 # 0 /\ (n + 1) - 1 = n
      BY <1>1
    <2> QED BY <1>3, <2>1 DEF Keeps
  <1> QED BY <1>1, <1>2, <1>3, <1>5, <1>6 DEF t

\* The rest is a sequence of the same members.
LEMMA WithoutSeq ==
  ASSUME NEW T, NEW s \in Seq(T), NEW S
  PROVE  Without(s, S) \in Seq(T)
  <1> DEFINE All == {t \in Seq(T) : Without(t, S) \in Seq(T)}
  <1>1. <<>> \in All
    BY WithoutEmpty, EmptySeq
  <1>2. ASSUME NEW t \in Seq(T), NEW e \in T, t \in All PROVE Append(t, e) \in All
    <2>1. Without(t, S) \in Seq(T)
      BY <1>2
    <2>2. Append(t, e) \in Seq(T) /\ Append(Without(t, S), e) \in Seq(T)
      BY <2>1, AppendProperties
    <2>3. Without(Append(t, e), S) = IF e \in S THEN Without(t, S)
                                     ELSE Append(Without(t, S), e)
      BY WithoutAppend
    <2>4. Without(Append(t, e), S) \in Seq(T)
      BY <2>1, <2>2, <2>3
    <2> QED BY <2>2, <2>4
  <1> HIDE DEF All
  <1>3. Seq(T) \subseteq All
    BY <1>1, <1>2, AppendInduction
  <1> QED BY <1>3 DEF All

LEMMA RangeAppend ==
  ASSUME NEW T, NEW s \in Seq(T), NEW e \in T
  PROVE  Range(Append(s, e)) = Range(s) \cup {e}
  <1>1. <<e>> \in Seq(T) /\ Append(s, e) = s \o <<e>>
    BY AppendIsConcat
  <1>2. Range(<<e>>) = {e}
    BY DEF Range
  <1>3. Range(s \o <<e>>) = Range(s) \cup Range(<<e>>)
    BY <1>1, RangeConcatenation, Zenon
  <1> QED BY <1>1, <1>2, <1>3

\* It has the members that are not left out.
LEMMA WithoutRange ==
  ASSUME NEW T, NEW s \in Seq(T), NEW S
  PROVE  Range(Without(s, S)) = Range(s) \ S
  <1> DEFINE All == {t \in Seq(T) : Range(Without(t, S)) = Range(t) \ S}
  <1>1. <<>> \in All
    <2>1. Range(<<>>) = {}
      BY DEF Range
    <2> QED BY <2>1, WithoutEmpty, EmptySeq
  <1>2. ASSUME NEW t \in Seq(T), NEW e \in T, t \in All PROVE Append(t, e) \in All
    <2>1. Without(t, S) \in Seq(T) /\ Append(t, e) \in Seq(T)
      BY WithoutSeq, AppendProperties
    <2>2. Range(Without(t, S)) = Range(t) \ S
      BY <1>2
    <2>3. Range(Append(t, e)) = Range(t) \cup {e}
      BY RangeAppend
    <2>4. Range(Append(Without(t, S), e)) = Range(Without(t, S)) \cup {e}
      BY <2>1, RangeAppend
    <2>5. Without(Append(t, e), S) = IF e \in S THEN Without(t, S)
                                     ELSE Append(Without(t, S), e)
      BY WithoutAppend
    <2>6. Range(Without(Append(t, e), S)) = Range(Append(t, e)) \ S
      BY <2>2, <2>3, <2>4, <2>5
    <2> QED BY <2>1, <2>6
  <1> HIDE DEF All
  <1>3. Seq(T) \subseteq All
    BY <1>1, <1>2, AppendInduction
  <1> QED BY <1>3 DEF All

\* A sequence without members to leave out stays.
LEMMA WithoutNothing ==
  ASSUME NEW T, NEW s \in Seq(T), NEW S, Range(s) \cap S = {}
  PROVE  Without(s, S) = s
  <1> DEFINE All == {t \in Seq(T) : Range(t) \cap S = {} => Without(t, S) = t}
  <1>1. <<>> \in All
    BY WithoutEmpty, EmptySeq
  <1>2. ASSUME NEW t \in Seq(T), NEW e \in T, t \in All PROVE Append(t, e) \in All
    <2>1. Append(t, e) \in Seq(T)
      BY AppendProperties
    <2>2. ASSUME Range(Append(t, e)) \cap S = {} PROVE Without(Append(t, e), S) = Append(t, e)
      <3>1. Range(t) \cap S = {} /\ e \notin S
        BY <2>2, RangeAppend
      <3>2. Without(t, S) = t
        BY <1>2, <3>1
      <3> QED BY <3>1, <3>2, WithoutAppend
    <2> QED BY <2>1, <2>2
  <1> HIDE DEF All
  <1>3. Seq(T) \subseteq All
    BY <1>1, <1>2, AppendInduction
  <1> QED BY <1>3 DEF All

\* Leaving out twice leaves out both.
LEMMA WithoutTwice ==
  ASSUME NEW T, NEW s \in Seq(T), NEW A, NEW B
  PROVE  Without(Without(s, A), B) = Without(s, A \cup B)
  <1> DEFINE All == {t \in Seq(T) : Without(Without(t, A), B) = Without(t, A \cup B)}
  <1>1. <<>> \in All
    BY WithoutEmpty, EmptySeq
  <1>2. ASSUME NEW t \in Seq(T), NEW e \in T, t \in All PROVE Append(t, e) \in All
    <2>1. Append(t, e) \in Seq(T) /\ Without(t, A) \in Seq(T)
      BY AppendProperties, WithoutSeq
    <2>2. Without(Without(t, A), B) = Without(t, A \cup B)
      BY <1>2
    <2>3. Without(Append(t, e), A) = IF e \in A THEN Without(t, A)
                                     ELSE Append(Without(t, A), e)
      BY WithoutAppend
    <2>4. Without(Append(t, e), A \cup B) = IF e \in A \cup B THEN Without(t, A \cup B)
                                            ELSE Append(Without(t, A \cup B), e)
      BY WithoutAppend
    <2>5. Without(Append(Without(t, A), e), B)
            = IF e \in B THEN Without(Without(t, A), B)
              ELSE Append(Without(Without(t, A), B), e)
      BY <2>1, WithoutAppend
    <2>6. Without(Without(Append(t, e), A), B) = Without(Append(t, e), A \cup B)
      BY <2>2, <2>3, <2>4, <2>5
    <2> QED BY <2>1, <2>6
  <1> HIDE DEF All
  <1>3. Seq(T) \subseteq All
    BY <1>1, <1>2, AppendInduction
  <1> QED BY <1>3 DEF All

\* Two sets with the same members of a sequence leave the same.
LEMMA WithoutAlike ==
  ASSUME NEW T, NEW s \in Seq(T), NEW A, NEW B, A \cap Range(s) = B \cap Range(s)
  PROVE  Without(s, A) = Without(s, B)
  <1>1. Without(s, A) \in Seq(T) /\ Without(s, B) \in Seq(T)
    BY WithoutSeq
  <1>2. Range(Without(s, A)) \cap B = {} /\ Range(Without(s, B)) \cap A = {}
    BY WithoutRange
  <1>3. Without(Without(s, A), B) = Without(s, A) /\ Without(Without(s, B), A) = Without(s, B)
    BY <1>1, <1>2, WithoutNothing
  <1>4. A \cup B = B \cup A
    OBVIOUS
  <1>5. /\ Without(Without(s, A), B) = Without(s, A \cup B)
        /\ Without(Without(s, B), A) = Without(s, B \cup A)
    BY WithoutTwice
  <1> QED BY <1>3, <1>4, <1>5

\* Of two sequences in a row, each is left what it is left by itself.
LEMMA WithoutConcat ==
  ASSUME NEW T, NEW s \in Seq(T), NEW t \in Seq(T), NEW S
  PROVE  Without(s \o t, S) = Without(s, S) \o Without(t, S)
  <1> DEFINE All == {u \in Seq(T) : Without(s \o u, S) = Without(s, S) \o Without(u, S)}
  <1>1. <<>> \in All
    <2>1. s \o <<>> = s /\ Without(s, S) \o <<>> = Without(s, S)
      BY WithoutSeq, ConcatEmptySeq
    <2> QED BY <2>1, WithoutEmpty, EmptySeq
  <1>2. ASSUME NEW u \in Seq(T), NEW e \in T, u \in All PROVE Append(u, e) \in All
    <2>1. /\ Append(u, e) \in Seq(T) /\ s \o u \in Seq(T) /\ <<e>> \in Seq(T)
          /\ Without(s, S) \in Seq(T) /\ Without(u, S) \in Seq(T)
          /\ Without(s, S) \o Without(u, S) \in Seq(T)
      BY AppendProperties, ConcatProperties, WithoutSeq
    <2>2. s \o Append(u, e) = Append(s \o u, e)
      BY <2>1, AppendIsConcat, ConcatAssociative
    <2>3. Without(s, S) \o Append(Without(u, S), e) = Append(Without(s, S) \o Without(u, S), e)
      BY <2>1, AppendIsConcat, ConcatAssociative
    <2>4. Without(s \o u, S) = Without(s, S) \o Without(u, S)
      BY <1>2
    <2>5. Without(Append(s \o u, e), S) = IF e \in S THEN Without(s \o u, S)
                                          ELSE Append(Without(s \o u, S), e)
      <3>1. PICK su \in Seq(T) : su = s \o u
        BY <2>1
      <3>2. Without(Append(su, e), S) = IF e \in S THEN Without(su, S)
                                        ELSE Append(Without(su, S), e)
        BY WithoutAppend
      <3> QED BY <3>1, <3>2, Zenon
    <2>6. Without(Append(u, e), S) = IF e \in S THEN Without(u, S) ELSE Append(Without(u, S), e)
      BY WithoutAppend
    <2>7. Without(s \o Append(u, e), S) = Without(s, S) \o Without(Append(u, e), S)
      BY <2>2, <2>3, <2>4, <2>5, <2>6
    <2> QED BY <2>1, <2>7
  <1> HIDE DEF All
  <1>3. Seq(T) \subseteq All
    BY <1>1, <1>2, AppendInduction
  <1> QED BY <1>3 DEF All

\* A member by itself is left or not.
LEMMA WithoutOne ==
  ASSUME NEW e, NEW S
  PROVE  Without(<<e>>, S) = IF e \in S THEN <<>> ELSE <<e>>
  <1>1. PICK none : none = <<>>
    OBVIOUS
  <1>2. none \in Seq({e}) /\ e \in {e} /\ Append(none, e) = <<e>>
    BY <1>1, EmptySeq
  <1>3. Without(Append(none, e), S) = IF e \in S THEN Without(none, S)
                                      ELSE Append(Without(none, S), e)
    BY <1>2, WithoutAppend, Zenon
  <1> QED BY <1>1, <1>2, <1>3, WithoutEmpty

\* The hand takes one member out, which is lost to no one who leaves it out.
LEMMA TakeOutFacts ==
  ASSUME NEW T, NEW s \in Seq(T), NEW i \in 1 .. Len(s)
  PROVE  /\ TakeOut(s, i) \in Seq(T)
         /\ Range(s) = Range(TakeOut(s, i)) \cup {s[i]}
         /\ \A S : s[i] \in S => Without(TakeOut(s, i), S) = Without(s, S)
  <1> DEFINE before == SubSeq(s, 1, i - 1)
             one    == <<s[i]>>
             after  == SubSeq(s, i + 1, Len(s))
             rest   == SubSeq(s, i, Len(s))
  <1>1. Len(s) \in Nat /\ \A j \in 1 .. Len(s) : s[j] \in T
    BY LenProperties, ElementOfSeq
  <1>2. before \in Seq(T) /\ after \in Seq(T) /\ one \in Seq(T) /\ rest \in Seq(T)
    BY <1>1, SubSeqProperties
  <1>3. rest = one \o after
    BY <1>1, SubSeqRecursiveFirst
  <1>4. s = before \o rest
    <2>1. 1 \in 1 .. Len(s) + 1 /\ i - 1 \in 1 - 1 .. Len(s) /\ Len(s) \in i - 1 .. Len(s)
      BY <1>1
    <2>2. SubSeq(s, 1, i - 1) \o SubSeq(s, (i - 1) + 1, Len(s)) = SubSeq(s, 1, Len(s))
      BY <2>1, ConcatAdjacentSubSeq, Zenon
    <2>3. (i - 1) + 1 = i
      OBVIOUS
    <2> QED BY <2>2, <2>3, SubSeqFull
  <1>5. TakeOut(s, i) = before \o after
    BY DEF TakeOut
  <1>6. Range(one) = {s[i]}
    BY DEF Range
  <1>7. ASSUME NEW S, s[i] \in S PROVE Without(one, S) = <<>>
    BY <1>7, WithoutOne
  <1> HIDE DEF before, one, after, rest
  <1>8. before \o after \in Seq(T)
    BY <1>2, ConcatProperties
  <1>9. Range(s) = Range(TakeOut(s, i)) \cup {s[i]}
    <2>1. Range(before \o after) = Range(before) \cup Range(after)
      BY <1>2, RangeConcatenation
    <2>2. Range(one \o after) = Range(one) \cup Range(after)
      BY <1>2, RangeConcatenation
    <2>3. Range(before \o rest) = Range(before) \cup Range(rest)
      BY <1>2, RangeConcatenation
    <2> QED BY <1>3, <1>4, <1>5, <1>6, <2>1, <2>2, <2>3
  <1>10. ASSUME NEW S, s[i] \in S PROVE Without(before \o after, S) = Without(s, S)
    <2>0. \A t, u \in Seq(T) : Without(t \o u, S) = Without(t, S) \o Without(u, S)
      BY WithoutConcat
    <2>1. Without(before \o after, S) = Without(before, S) \o Without(after, S)
      BY <1>2, <2>0
    <2>2. Without(one \o after, S) = Without(one, S) \o Without(after, S)
      BY <1>2, <2>0
    <2>3. Without(before \o rest, S) = Without(before, S) \o Without(rest, S)
      BY <1>2, <2>0
    <2>4. <<>> \o Without(after, S) = Without(after, S)
      BY <1>2, WithoutSeq, ConcatEmptySeq
    <2>5. Without(one, S) = <<>>
      BY <1>7, <1>10
    <2>6. Without(rest, S) = Without(after, S)
      BY <1>3, <2>2, <2>4, <2>5
    <2> QED BY <1>4, <2>1, <2>3, <2>6
  <1> QED BY <1>5, <1>8, <1>9, <1>10

-----------------------------------------------------------------------------
\* One pass of the filter.

Kv == Seq(STRING)
URLs == [scheme : STRING, host : STRING, path : STRING, query : Seq(Kv)]
With(u, q) == [u EXCEPT !.query = q]

\* The parameters that have a key and a value; those that go from every URL of
\* u's host, and those that go unless a text keeps them.
Keyed == {kv \in Kv : Len(Pieces(kv)) >= 2}
Hard(u) ==
    { kv \in Keyed :
        \/ Pieces(kv)[1] \in kSimpleQueryStringTrackers
        \/ /\ Pieces(kv)[1] \in DOMAIN kScopedQueryStringTrackers
           /\ DomainIs(u, kScopedQueryStringTrackers[Pieces(kv)[1]]) }
Soft == {kv \in Keyed : Pieces(kv)[1] \in DOMAIN kConditionalQueryStringTrackers}

Texts == UNION { kConditionalQueryStringTrackers[k] :
                   k \in DOMAIN kConditionalQueryStringTrackers }
HasText(u) == PartialMatch(u, Texts)

\* What the filter leaves out of u.
Unwanted(u) == Hard(u) \cup (IF HasText(u) THEN {} ELSE Soft)

Blank == << <<"">> >>
Cleared(q) == IF q = Blank THEN <<>> ELSE q

LEMMA TrackersAre ==
  ASSUME NEW u \in URLs
  PROVE  Trackers(u) = Range(u.query) \cap Unwanted(u)
  <1>1. Range(u.query) \subseteq Kv
    BY RangeOfSeq DEF URLs
  <1>2. \A k \in DOMAIN kConditionalQueryStringTrackers :
          kConditionalQueryStringTrackers[k] = Texts
    BY ConditionalAssumption DEF Texts
  <1>3. \A kv \in Kv : IsTracker(u, kv) <=> kv \in Unwanted(u)
    <2> SUFFICES ASSUME NEW kv \in Kv PROVE IsTracker(u, kv) <=> kv \in Unwanted(u)
      OBVIOUS
    <2>1. kv \in Keyed <=> Len(Pieces(kv)) >= 2
      BY DEF Keyed
    <2>2. kv \in Soft /\ ~HasText(u) <=>
            /\ kv \in Keyed
            /\ Pieces(kv)[1] \in DOMAIN kConditionalQueryStringTrackers
            /\ ~PartialMatch(u, kConditionalQueryStringTrackers[Pieces(kv)[1]])
      BY <1>2 DEF Soft, HasText
    <2> QED BY <2>1, <2>2 DEF IsTracker, Unwanted, Hard
  <1>4. Trackers(u) = {kv \in Range(u.query) : IsTracker(u, kv)}
    BY DEF Trackers, Range
  <1> QED BY <1>1, <1>3, <1>4

\* The blank parameter is nobody's.
LEMMA BlankIsNotKeyed ==
  /\ <<"">> \notin Keyed
  /\ Range(Blank) = {<<"">>}
  <1>1. \A empty : Range(<<empty>>) = {empty} /\ Without(<<empty>>, {empty}) = <<>>
    BY WithoutOne DEF Range
  <1>2. Pieces(<<"">>) = <<>>
    BY <1>1, Zenon DEF Pieces
  <1>3. Len(<<>>) = 0 /\ ~(0 >= 2)
    OBVIOUS
  <1>4. ASSUME NEW kv, Pieces(kv) = <<>> PROVE kv \notin Keyed
    BY <1>3, <1>4 DEF Keyed
  <1>5. <<"">> \notin Keyed
    BY <1>2, <1>4, Zenon
  <1>6. Range(Blank) = {<<"">>}
    BY <1>1, Zenon DEF Blank
  <1> QED BY <1>5, <1>6

\* Clearing a query loses no parameter that has a key and a value.
LEMMA ClearedFacts ==
  ASSUME NEW q \in Seq(Kv)
  PROVE  /\ Cleared(q) \in Seq(Kv)
         /\ Range(Cleared(q)) \subseteq Range(q)
         /\ Range(Cleared(q)) \cap Keyed = Range(q) \cap Keyed
         /\ Cleared(Cleared(q)) = Cleared(q)
  <1>1. <<>> \in Seq(Kv) /\ Range(<<>>) = {} /\ <<>> # Blank
    <2>1. \A S : <<>> \in Seq(S)
      BY EmptySeq
    <2>2. Range(<<>>) = {}
      BY DEF Range
    <2>3. <<>> # Blank
      BY DEF Blank
    <2> QED BY <2>1, <2>2, <2>3, Zenon
  <1>2. CASE q = Blank
    BY <1>1, <1>2, BlankIsNotKeyed DEF Cleared
  <1>3. CASE q # Blank
    BY <1>3 DEF Cleared
  <1> QED BY <1>2, <1>3

\* A URL of fewer parameters has no more of the texts, and one that is cleared
\* has as many.
LEMMA TextFacts ==
  ASSUME NEW u \in URLs, NEW p \in Seq(Kv), NEW q \in Seq(Kv)
  PROVE  /\ Range(p) \subseteq Range(q) /\ HasText(With(u, p)) => HasText(With(u, q))
         /\ HasText(With(u, Cleared(q))) <=> HasText(With(u, q))
  <1>1. \A s : HasText(With(u, s)) <=> \/ u.host \in Texts
                                       \/ u.path \in Texts
                                       \/ \E kv \in Range(s) : \E j \in DOMAIN kv : kv[j] \in Texts
    BY DEF HasText, PartialMatch, With, URLs, Range
  <1>2. Range(p) \subseteq Range(q) /\ HasText(With(u, p)) => HasText(With(u, q))
    BY <1>1
  <1>3. ~ \E kv \in Range(Blank) : \E j \in DOMAIN kv : kv[j] \in Texts
    <2>1. "" \notin Texts
      BY ConditionalAssumption DEF Texts
    <2>2. PICK e : e = "" /\ Range(Blank) = {<<e>>}
      <3>1. "" = "" /\ Range(Blank) = {<<"">>}
        BY BlankIsNotKeyed, Zenon
      <3> QED BY <3>1, Zenon
    <2>3. DOMAIN <<e>> = {1} /\ <<e>>[1] = e
      OBVIOUS
    <2>4. \A kv \in Range(Blank) : kv = <<e>>
      BY <2>2, Zenon
    <2> QED BY <2>1, <2>2, <2>3, <2>4, Zenon
  <1>4. CASE q = Blank
    <2>1. Range(<<>>) = {} /\ Cleared(q) = <<>>
      BY <1>4 DEF Range, Cleared
    <2>2. HasText(With(u, <<>>)) <=> u.host \in Texts \/ u.path \in Texts
      BY <1>1, <2>1, Zenon
    <2>3. HasText(With(u, Blank)) <=> u.host \in Texts \/ u.path \in Texts
      BY <1>1, <1>3, Zenon
    <2>4. HasText(With(u, Cleared(q))) <=> HasText(With(u, q))
      BY <1>4, <2>1, <2>2, <2>3
    <2> QED BY <1>2, <2>4
  <1>5. CASE q # Blank
    BY <1>2, <1>5 DEF Cleared
  <1> QED BY <1>4, <1>5

LEMMA URLFacts ==
  ASSUME NEW u \in URLs
  PROVE  /\ u.query \in Seq(Kv) /\ With(u, u.query) = u
         /\ Hard(u) \subseteq Keyed /\ Soft \subseteq Keyed
  BY DEF URLs, With, Hard, Soft

LEMMA WithFacts ==
  ASSUME NEW u \in URLs, NEW p \in Seq(Kv)
  PROVE  /\ With(u, p) \in URLs /\ With(u, p).query = p
         /\ \A q : With(With(u, p), q) = With(u, q)
         /\ Hard(With(u, p)) = Hard(u)
  BY DEF URLs, With, Hard, DomainIs

\* A pass leaves out what is unwanted, if there is any.
LEMMA OnePass ==
  ASSUME NEW u \in URLs
  PROVE  /\ HasTracker(u) <=> Range(u.query) \cap Unwanted(u) # {}
         /\ ~HasTracker(u) => ApplyQueryFilter(u) = u
         /\ HasTracker(u) =>
              ApplyQueryFilter(u) = With(u, Cleared(Without(u.query, Unwanted(u))))
  <1>1. u.query \in Seq(Kv)
    BY DEF URLs
  <1>2. Trackers(u) = Range(u.query) \cap Unwanted(u)
    BY TrackersAre
  <1>3. StripQueryParameter(u) = Without(u.query, Unwanted(u))
    <2>1. Trackers(u) \cap Range(u.query) = Unwanted(u) \cap Range(u.query)
      BY <1>2
    <2> QED BY <1>1, <2>1, WithoutAlike DEF StripQueryParameter
  <1> QED BY <1>2, <1>3 DEF HasTracker, ApplyQueryFilter, With, Cleared, Blank

-----------------------------------------------------------------------------
\* Two passes.

\* Where they lead: without the hard trackers, and without the soft ones if what
\* is left then has no text that keeps them.
Final(u, q) ==
    LET rest == Without(q, Hard(u)) IN
    IF HasText(With(u, rest)) THEN rest ELSE Without(rest, Soft)

LEMMA FinalFacts ==
  ASSUME NEW u \in URLs, NEW q \in Seq(Kv)
  PROVE  /\ Final(u, q) \in Seq(Kv)
         /\ Range(Final(u, q)) = Range(q) \ (Hard(u) \cup
              (IF HasText(With(u, Without(q, Hard(u)))) THEN {} ELSE Soft))
         /\ ~HasText(With(u, q)) => Final(u, q) = Without(q, Hard(u) \cup Soft)
  <1> DEFINE rest == Without(q, Hard(u))
  <1>1. rest \in Seq(Kv) /\ Range(rest) = Range(q) \ Hard(u)
    BY WithoutSeq, WithoutRange
  <1>2. Without(rest, Soft) \in Seq(Kv) /\ Range(Without(rest, Soft)) = Range(rest) \ Soft
    <2> HIDE DEF rest
    <2> QED BY <1>1, WithoutSeq, WithoutRange
  <1>3. Without(rest, Soft) = Without(q, Hard(u) \cup Soft)
    BY WithoutTwice
  <1>4. ~HasText(With(u, q)) => ~HasText(With(u, rest))
    BY <1>1, TextFacts
  <1> QED BY <1>1, <1>2, <1>3, <1>4 DEF Final

\* Two passes lead there, also from a URL without trackers that is not blank.
LEMMA TwoPasses ==
  ASSUME NEW u \in URLs, HasTracker(u) \/ Cleared(u.query) = u.query
  PROVE  Passes(u) = With(u, Cleared(Final(u, u.query)))
  <1> DEFINE q    == u.query
             rest == Without(q, Hard(u))
  <1>1. /\ q \in Seq(Kv) /\ With(u, q) = u
        /\ Hard(u) \subseteq Keyed /\ Soft \subseteq Keyed
    BY URLFacts
  <1>2. rest \in Seq(Kv) /\ Range(rest) = Range(q) \ Hard(u)
    BY <1>1, WithoutSeq, WithoutRange
  <1> HIDE DEF rest
  <1>3. CASE ~HasTracker(u)
    <2>1. Passes(u) = u
      BY <1>3, OnePass DEF Passes
    <2>2. Range(q) \cap Unwanted(u) = {}
      BY <1>3, OnePass
    <2>3. rest = q
      BY <1>1, <2>2, WithoutNothing DEF rest, Unwanted
    <2>4. Final(u, q) = q
      <3>1. ~HasText(u) => Without(q, Soft) = q
        BY <1>1, <2>2, WithoutNothing DEF Unwanted
      <3> QED BY <1>1, <2>3, <3>1 DEF Final, rest
    <2> QED BY <1>1, <1>3, <2>1, <2>4
  <1>4. CASE HasTracker(u) /\ ~HasText(u)
    <2> DEFINE o == Without(q, Hard(u) \cup Soft)
               v == With(u, Cleared(o))
    <2>1. o \in Seq(Kv) /\ Range(o) = Range(q) \ (Hard(u) \cup Soft)
      BY <1>1, WithoutSeq, WithoutRange
    <2>2. ApplyQueryFilter(u) = v
      BY <1>4, OnePass DEF Unwanted
    <2> HIDE DEF o
    <2>3. Cleared(o) \in Seq(Kv) /\ Range(Cleared(o)) \subseteq Range(o)
      BY <2>1, ClearedFacts
    <2>4. v \in URLs /\ v.query = Cleared(o) /\ Hard(v) = Hard(u)
      BY <2>3, WithFacts
    <2>5. Range(v.query) \cap Unwanted(v) = {}
      BY <2>1, <2>3, <2>4 DEF Unwanted
    <2> HIDE DEF v
    <2>6. ApplyQueryFilter(v) = v
      BY <2>4, <2>5, OnePass
    <2>7. Final(u, q) = o
      BY <1>1, <1>4, FinalFacts DEF o
    <2> QED BY <2>2, <2>6, <2>7 DEF Passes, v
  <1>5. CASE HasTracker(u) /\ HasText(u)
    <2> DEFINE v == With(u, Cleared(rest))
    <2>1. ApplyQueryFilter(u) = v
      BY <1>5, OnePass DEF Unwanted, rest
    <2>2. /\ Cleared(rest) \in Seq(Kv) /\ Range(Cleared(rest)) \subseteq Range(rest)
          /\ Range(Cleared(rest)) \cap Keyed = Range(rest) \cap Keyed
          /\ Cleared(Cleared(rest)) = Cleared(rest)
      BY <1>2, ClearedFacts
    <2>3. /\ v \in URLs /\ v.query = Cleared(rest) /\ Hard(v) = Hard(u)
          /\ \A p : With(v, p) = With(u, p)
      BY <2>2, WithFacts
    <2>4. HasText(v) <=> HasText(With(u, rest))
      BY <1>2, TextFacts
    <2> HIDE DEF v
    <2>5. CASE HasText(With(u, rest))
      <3>1. Range(v.query) \cap Unwanted(v) = {}
        BY <1>2, <2>2, <2>3, <2>4, <2>5 DEF Unwanted
      <3>2. ApplyQueryFilter(v) = v
        BY <2>3, <3>1, OnePass
      <3>3. Final(u, q) = rest
        BY <2>5 DEF Final, rest
      <3> QED BY <2>1, <3>2, <3>3 DEF Passes, v
    <2>6. CASE ~HasText(With(u, rest)) /\ Range(rest) \cap Soft = {}
      <3>1. Range(v.query) \cap Unwanted(v) = {}
        BY <1>1, <1>2, <2>2, <2>3, <2>6 DEF Unwanted
      <3>2. ApplyQueryFilter(v) = v
        BY <2>3, <3>1, OnePass
      <3>3. Without(rest, Soft) = rest
        BY <1>2, <2>6, WithoutNothing
      <3>4. Final(u, q) = rest
        BY <2>6, <3>3 DEF Final, rest
      <3> QED BY <2>1, <3>2, <3>4 DEF Passes, v
    <2>7. CASE ~HasText(With(u, rest)) /\ Range(rest) \cap Soft # {}
      <3>1. Range(Cleared(rest)) \cap Soft # {}
        BY <1>1, <2>2, <2>7
      <3>2. Cleared(rest) = rest
        <4>1. Range(<<>>) = {}
          BY DEF Range
        <4> QED BY <3>1, <4>1 DEF Cleared
      <3>3. Unwanted(v) = Hard(u) \cup Soft
        BY <2>3, <2>4, <2>7 DEF Unwanted
      <3>4. HasTracker(v)
        BY <2>3, <3>1, <3>3, OnePass
      <3>5. ApplyQueryFilter(v) = With(v, Cleared(Without(v.query, Unwanted(v))))
        BY <2>3, <3>4, OnePass
      <3>6. Without(rest, Hard(u) \cup Soft) = Without(rest, Soft)
        <4>1. (Hard(u) \cup Soft) \cap Range(rest) = Soft \cap Range(rest)
          BY <1>2
        <4> QED BY <1>2, <4>1, WithoutAlike
      <3>7. Final(u, q) = Without(rest, Soft)
        BY <2>7 DEF Final, rest
      <3> QED BY <2>1, <2>3, <3>2, <3>3, <3>5, <3>6, <3>7 DEF Passes
    <2> QED BY <2>5, <2>6, <2>7
  <1> QED BY <1>3, <1>4, <1>5

\* After two passes there is nothing left for a third: however a URL was, no more
\* than two internal redirects follow each other for its sake
\* (whale_query_filter.cc:118-157, 200-221).
THEOREM PassesSettle ==
  ASSUME NEW u \in URLs
  PROVE  Passes(u) \in URLs /\ ~HasTracker(Passes(u))
  <1>1. CASE ~HasTracker(u)
    BY <1>1, OnePass DEF Passes
  <1>2. CASE HasTracker(u)
    <2> DEFINE q == u.query
               final == Final(u, q)
               v == With(u, Cleared(final))
    <2>1. q \in Seq(Kv)
      BY URLFacts
    <2>2. /\ final \in Seq(Kv)
          /\ Range(final) = Range(q) \ (Hard(u) \cup
               (IF HasText(With(u, Without(q, Hard(u)))) THEN {} ELSE Soft))
      BY <2>1, FinalFacts
    <2>3. Passes(u) = v
      BY <1>2, TwoPasses
    <2>4. HasText(With(u, final)) => HasText(With(u, Without(q, Hard(u))))
      <3>1. Without(q, Hard(u)) \in Seq(Kv)
            /\ Range(Without(q, Hard(u))) = Range(q) \ Hard(u)
        BY <2>1, WithoutSeq, WithoutRange
      <3>2. Range(final) \subseteq Range(Without(q, Hard(u)))
        BY <2>2, <3>1
      <3> HIDE DEF final, q
      <3> QED BY <2>2, <3>1, <3>2, TextFacts
    <2>5. ~HasText(With(u, Without(q, Hard(u)))) => Range(final) \cap Soft = {}
      BY <2>2
    <2>6. HasText(With(u, Without(q, Hard(u)))) => HasText(With(u, final))
      <3>1. ASSUME HasText(With(u, Without(q, Hard(u)))) PROVE final = Without(q, Hard(u))
        BY <3>1 DEF Final
      <3> QED BY <3>1
    <2> HIDE DEF final
    <2>7. /\ Cleared(final) \in Seq(Kv) /\ Range(Cleared(final)) \subseteq Range(final)
          /\ (HasText(v) <=> HasText(With(u, final)))
      BY <2>2, ClearedFacts, TextFacts
    <2>8. v \in URLs /\ v.query = Cleared(final) /\ Hard(v) = Hard(u)
      BY <2>7, WithFacts
    <2>9. Range(v.query) \cap Unwanted(v) = {}
      BY <2>2, <2>5, <2>6, <2>7, <2>8 DEF Unwanted
    <2> HIDE DEF v
    <2> QED BY <2>3, <2>8, <2>9, OnePass
  <1> QED BY <1>1, <1>2

-----------------------------------------------------------------------------
\* The hand.

\* What it takes out decides nothing about where the passes lead.
LEMMA TakeOutIsFinal ==
  ASSUME NEW u \in URLs, NEW i \in 1 .. Len(u.query), u.query[i] \in Unwanted(u)
  PROVE  /\ TakeOut(u.query, i) \in Seq(Kv)
         /\ Final(u, TakeOut(u.query, i)) = Final(u, u.query)
  <1> DEFINE q == u.query
             t == TakeOut(q, i)
  <1>1. q \in Seq(Kv) /\ With(u, q) = u
    BY URLFacts
  <1>2. /\ t \in Seq(Kv) /\ Range(t) \subseteq Range(q)
        /\ \A S : q[i] \in S => Without(t, S) = Without(q, S)
    <2>1. i \in 1 .. Len(q)
      OBVIOUS
    <2> HIDE DEF q
    <2>2. /\ TakeOut(q, i) \in Seq(Kv)
          /\ Range(q) = Range(TakeOut(q, i)) \cup {q[i]}
          /\ \A S : q[i] \in S => Without(TakeOut(q, i), S) = Without(q, S)
      BY <1>1, <2>1, TakeOutFacts, Zenon
    <2> QED BY <2>2
  <1> HIDE DEF t
  <1>3. CASE q[i] \in Hard(u)
    BY <1>2, <1>3 DEF Final, t
  <1>4. CASE q[i] \notin Hard(u)
    <2>1. q[i] \in Soft /\ ~HasText(u)
      BY <1>4 DEF Unwanted
    <2>2. ~HasText(With(u, q)) /\ ~HasText(With(u, t))
      BY <1>1, <1>2, <2>1, TextFacts
    <2>3. /\ Final(u, q) = Without(q, Hard(u) \cup Soft)
          /\ Final(u, t) = Without(t, Hard(u) \cup Soft)
      BY <1>1, <1>2, <2>2, FinalFacts
    <2>4. Without(t, Hard(u) \cup Soft) = Without(q, Hard(u) \cup Soft)
      BY <1>2, <2>1
    <2> QED BY <1>2, <2>3, <2>4 DEF t
  <1> QED BY <1>2, <1>3, <1>4 DEF t

\* Nor does clearing.
LEMMA ClearedIsFinal ==
  ASSUME NEW u \in URLs, NEW q \in Seq(Kv)
  PROVE  Cleared(Final(u, Cleared(q))) = Cleared(Final(u, q))
  <1>1. CASE q # Blank
    BY <1>1 DEF Cleared
  <1>2. CASE q = Blank
    <2>1. \A S : Without(<<>>, S) = <<>>
      BY WithoutEmpty
    <2>2. Cleared(q) = <<>> /\ Final(u, <<>>) = <<>>
      BY <1>2, <2>1, Zenon DEF Cleared, Final
    <2>3. Range(q) \cap Keyed = {} /\ Hard(u) \subseteq Keyed /\ Soft \subseteq Keyed
      BY <1>2, BlankIsNotKeyed, URLFacts
    <2>4. Without(q, Hard(u)) = q /\ Without(q, Soft) = q
      BY <2>3, WithoutNothing
    <2>5. Final(u, q) = q
      BY <2>4 DEF Final
    <2>6. Cleared(<<>>) = <<>>
      BY DEF Cleared
    <2> QED BY <2>2, <2>5, <2>6
  <1> QED BY <1>1, <1>2

\* A step of the hand leads to where the passes lead.
LEMMA RemovalStep ==
  ASSUME remaining \in URLs, RemovalNext
  PROVE  remaining' \in URLs /\ Passes(remaining') = Passes(remaining)
  <1> DEFINE u == remaining
  <1>1. PICK i \in DOMAIN u.query : RemoveOne(i)
    BY DEF RemovalNext
  <1> DEFINE t == TakeOut(u.query, i)
  <1>2. u.query \in Seq(Kv) /\ i \in 1 .. Len(u.query)
    BY URLFacts, LenProperties
  <1>3. u.query[i] \in Range(u.query) \cap Unwanted(u)
    <2>1. u.query[i] \in Trackers(u)
      BY <1>1 DEF RemoveOne, Trackers
    <2> QED BY <2>1, TrackersAre
  <1>4. HasTracker(u)
    BY <1>3, OnePass
  <1>5. t \in Seq(Kv) /\ Final(u, t) = Final(u, u.query)
    BY <1>2, <1>3, TakeOutIsFinal
  <1>6. remaining' = With(u, Cleared(t))
    BY <1>1 DEF RemoveOne, With, Cleared, Blank
  <1> HIDE DEF t
  <1>7. Cleared(t) \in Seq(Kv) /\ Cleared(Cleared(t)) = Cleared(t)
    BY <1>5, ClearedFacts
  <1> DEFINE w == With(u, Cleared(t))
  <1>8. /\ w \in URLs /\ w.query = Cleared(t) /\ Hard(w) = Hard(u)
        /\ \A p : With(w, p) = With(u, p)
    BY <1>7, WithFacts
  <1> HIDE DEF w
  <1>9. Passes(w) = With(w, Cleared(Final(w, w.query)))
    BY <1>7, <1>8, TwoPasses
  <1>10. Final(w, w.query) = Final(u, Cleared(t))
    BY <1>8 DEF Final
  <1>11. Cleared(Final(u, Cleared(t))) = Cleared(Final(u, t))
    BY <1>5, ClearedIsFinal
  <1>12. Passes(u) = With(u, Cleared(Final(u, u.query)))
    BY <1>4, TwoPasses
  <1> QED BY <1>5, <1>6, <1>8, <1>9, <1>10, <1>11, <1>12 DEF w

RemovalInv == /\ remaining \in URLs
              /\ Passes(remaining) = Passes(original)

LEMMA AlwaysRemovalInv == RemovalSpec => []RemovalInv
  <1>1. RemovalInit => RemovalInv
    BY StartAssumption DEF RemovalInit, RemovalInv, URLs, Kv
  <1>2. RemovalInv /\ [RemovalNext]_removal_vars => RemovalInv'
    <2> SUFFICES ASSUME RemovalInv, [RemovalNext]_removal_vars PROVE RemovalInv'
      OBVIOUS
    <2>1. CASE RemovalNext
      <3>1. original' = original
        BY <2>1 DEF RemovalNext, RemoveOne
      <3>2. remaining' \in URLs /\ Passes(remaining') = Passes(remaining)
        BY <2>1, RemovalStep DEF RemovalInv
      <3> QED BY <3>1, <3>2 DEF RemovalInv, Passes
    <2>2. CASE UNCHANGED removal_vars
      BY <2>2 DEF removal_vars, RemovalInv
    <2> QED BY <2>1, <2>2
  <1> QED BY <1>1, <1>2, PTL DEF RemovalSpec

\* In whatever order the hand takes trackers out, it ends where two passes of the
\* filter end: for queries of every length and every table with one conditional
\* expression (whale_query_filter.cc:118-157, 200-221).
THEOREM RemovalCorrect == RemovalSpec => FilterCommutesWithRemoval
  <1> DEFINE A == /\ Passes(remaining') = Passes(remaining)
                  /\ ~HasTracker(remaining') => remaining' = Passes(original)
  <1>1. RemovalInv /\ RemovalInv' /\ [RemovalNext]_removal_vars => [A]_removal_vars
    <2> SUFFICES ASSUME RemovalInv, RemovalNext PROVE A
      OBVIOUS
    <2>1. remaining' \in URLs /\ Passes(remaining') = Passes(remaining)
      BY RemovalStep DEF RemovalInv
    <2>2. ASSUME ~HasTracker(remaining') PROVE remaining' = Passes(original)
      <3>1. Passes(remaining') = remaining'
        BY <2>1, <2>2, OnePass DEF Passes
      <3> QED BY <2>1, <3>1 DEF RemovalInv
    <2> QED BY <2>1, <2>2
  <1> HIDE DEF A
  <1>2. RemovalSpec => [][A]_removal_vars
    BY <1>1, AlwaysRemovalInv, PTL DEF RemovalSpec
  <1> QED BY <1>2 DEF A, FilterCommutesWithRemoval

\* What is reported of any URL is what one pass takes out of it.
LEMMA ReportOf ==
  ASSUME NEW u \in URLs
  PROVE  LET filtered == ApplyQueryFilter(u)
             removed  == removed_trackers(u)
         IN /\ removed = Names(u) \ Names(filtered)
            /\ (removed = {}) = (filtered = u)
  <1> DEFINE q == u.query
             f == ApplyQueryFilter(u)
             key(kv) == Pieces(kv)[1]
  <1>1. q \in Seq(Kv) /\ Range(q) \subseteq Kv
    BY URLFacts, RangeOfSeq
  <1>2. Trackers(u) = Range(q) \cap Unwanted(u)
    BY TrackersAre
  <1>3. Unwanted(u) \subseteq Keyed
    BY DEF Unwanted, Hard, Soft
  <1>4. f \in URLs /\ Range(f.query) \cap Keyed = (Range(q) \ Unwanted(u)) \cap Keyed
    <2>1. CASE ~HasTracker(u)
      <3>1. f = u /\ Range(q) \cap Unwanted(u) = {}
        BY <2>1, OnePass
      <3> QED BY <3>1
    <2>2. CASE HasTracker(u)
      <3> DEFINE o == Without(q, Unwanted(u))
      <3>1. o \in Seq(Kv) /\ Range(o) = Range(q) \ Unwanted(u)
        BY <1>1, WithoutSeq, WithoutRange
      <3>2. f = With(u, Cleared(o))
        BY <2>2, OnePass
      <3> HIDE DEF o, f
      <3>3. Cleared(o) \in Seq(Kv) /\ Range(Cleared(o)) \cap Keyed = Range(o) \cap Keyed
        BY <3>1, ClearedFacts
      <3>4. f \in URLs /\ f.query = Cleared(o)
        BY <3>2, <3>3, WithFacts
      <3> QED BY <3>1, <3>3, <3>4
    <2> QED BY <2>1, <2>2
  <1>5. \A w \in URLs : Names(w) = {key(kv) : kv \in Range(w.query) \cap Keyed}
    <2> SUFFICES ASSUME NEW w \in URLs
                 PROVE  Names(w) = {key(kv) : kv \in Range(w.query) \cap Keyed}
      OBVIOUS
    <2>1. Range(w.query) \subseteq Kv
      BY URLFacts, RangeOfSeq
    <2>2. Range(w.query) \cap Keyed = {kv \in Range(w.query) : Len(Pieces(kv)) >= 2}
      BY <2>1 DEF Keyed
    <2> QED BY <2>2 DEF Names, Range
  <1>6. removed_trackers(u) = {key(kv) : kv \in Range(q) \cap Unwanted(u)}
    BY <1>2 DEF removed_trackers
  <1>7. /\ Names(u) = {key(kv) : kv \in Range(q) \cap Keyed}
        /\ Names(f) = {key(kv) : kv \in (Range(q) \ Unwanted(u)) \cap Keyed}
    BY <1>4, <1>5
  \* A name decides: of two parameters that have it, both are unwanted or none.
  <1>8. \A j, k \in Keyed : key(j) = key(k) /\ j \in Unwanted(u) => k \in Unwanted(u)
    BY DEF Unwanted, Hard, Soft
  <1>9. removed_trackers(u) = {} <=> Range(q) \cap Unwanted(u) = {}
    BY <1>6
  <1>10. f = u <=> Range(q) \cap Unwanted(u) = {}
    <2>1. ASSUME Range(q) \cap Unwanted(u) = {} PROVE f = u
      BY <2>1, OnePass
    <2>2. ASSUME f = u PROVE Range(q) \cap Unwanted(u) = {}
      <3> HIDE DEF f
      <3> QED BY <1>3, <1>4, <2>2
    <2> QED BY <2>1, <2>2
  <1> HIDE DEF f, key
  <1>11. Names(u) \subseteq removed_trackers(u) \cup Names(f)
    BY <1>6, <1>7
  <1>12. removed_trackers(u) \cap Names(f) = {}
    <2> SUFFICES ASSUME NEW j \in Range(q) \cap Unwanted(u),
                        NEW k \in (Range(q) \ Unwanted(u)) \cap Keyed, key(j) = key(k)
                 PROVE  FALSE
      BY <1>6, <1>7
    <2> QED BY <1>3, <1>8
  <1>13. (removed_trackers(u) = {}) = (f = u)
    BY <1>9, <1>10
  <1>14. removed_trackers(u) \subseteq Names(u)
    BY <1>3, <1>6, <1>7
  <1>15. removed_trackers(u) = Names(u) \ Names(f)
    BY <1>11, <1>12, <1>14
  <1> QED BY <1>13, <1>15 DEF f

\* The names reported are those of the parameters gone, no fewer and no others,
\* whatever the hand took out before: for queries of every length
\* (whale_query_filter.cc:118-157).
THEOREM DifferenceCorrect == RemovalSpec => []ReportIsTheDifference
  <1>1. RemovalInv => ReportIsTheDifference
    BY ReportOf DEF RemovalInv, ReportIsTheDifference
  <1> QED BY <1>1, AlwaysRemovalInv, PTL
=============================================================================
