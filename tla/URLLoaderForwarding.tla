------------------------- MODULE URLLoaderForwarding -------------------------
(***************************************************************************)
(* What WhaleProxyingURLLoaderFactory hands from a request's client to its *)
(* network loader beside the URL: headers, the referrer and the site       *)
(* hacks' cap on it, priority, and whether the body is being read.         *)
(*                                                                         *)
(* The proxy keeps headers and referrer in request_, of which every new    *)
(* loader gets a copy; a bound loader gets messages.  Every step here is a *)
(* step of WhaleProxyingURLLoaderFactory together with what it does to     *)
(* these fields, or a call that module leaves out.                         *)
(***************************************************************************)
EXTENDS WhaleProxyingURLLoaderFactory, TrackingBlockersUtil

CONSTANTS
    Header,        \* the names of headers a client may set
    Referrer,      \* the pages requests are made from
    ResourceType

VARIABLES
    fields,     \* request |-> headers and referrer of request_
    at_loader,  \* request |-> what its loader goes by
    wanted,     \* request |-> what its client has asked for
    carried,    \* request |-> the headers its FollowRedirect on the way carries
    resource_type,
    max_level,  \* IsTrackingBlockerMaxLevel for the tab's origin
    replaced    \* history: request |-> whether a loader was ever made or closed
                \* for it after its client's first SetPriority

forward_vars == <<fields, at_loader, wanted, carried>>
tab_vars == <<resource_type, max_level>>
all_vars == <<vars, forward_vars, tab_vars, replaced>>

NoFields == [headers |-> {}, referrer |-> GURL]
Fresh == [headers |-> {}, exempt |-> {}, referrer |-> GURL, priority |-> "LOW",
          paused |-> FALSE]
NoHeaders == [removed |-> {}, modified |-> {}, exempt |-> {}]

ForwardInit ==
    /\ Init
    /\ fields = [r \in Request |-> NoFields]
    /\ at_loader = [r \in Request |-> Fresh]
    /\ wanted = [r \in Request |-> Fresh]
    /\ carried = [r \in Request |-> NoHeaders]
    /\ resource_type \in ResourceType
    /\ max_level \in BOOLEAN
    /\ replaced = [r \in Request |-> FALSE]

-----------------------------------------------------------------------------
\* The referrer of a redirect is what its policy makes of the one before.
RedirectReferrers(referrer) ==
    {GURL, referrer} \cup (IF referrer = GURL THEN {} ELSE {OriginURL(referrer)})

ReferrerCTX(referrer, url) ==
    [ referrer |-> referrer, request_url |-> url, resource_type |-> resource_type,
      allow_referrers |-> ~max_level,
      tab_origin |-> [scheme |-> "https", host |-> ""] ]

\* request_ when Restart is done with it and goes on to the network.
SendsHeaders_Uncapped(request, url) == request
SendsHeaders(request, url) ==
    [request EXCEPT !.referrer = ApplyPotentialReferrerBlock(ReferrerCTX(@, url))]

Merged(headers, params) == (headers \ params.removed) \cup params.modified

\* CreateLoaderAndStart of the target copies request_, whose priority is the
\* one the client first asked for.
NewLoader(r, request) ==
    [Fresh EXCEPT !.headers = request.headers, !.referrer = request.referrer]

\* A FollowRedirect of the bound loader carries the headers and nothing else.
LoaderFollows(r, params) ==
    [at_loader[r] EXCEPT !.headers = Merged(@, params),
                         !.exempt = @ \cup params.exempt]

\* The other half of Restart, given request_ at its start and the headers of
\* the FollowRedirect it is about.
RestartForwards(r, request, params) ==
    LET goes_on == ~in_progress'[r].request_completed_
        starts == ~in_progress[r].target_loader_ /\ in_progress'[r].target_loader_
        request_at_start == SendsHeaders(request, in_progress'[r].request_.url)
    IN \/ /\ ~goes_on
          /\ \E referrer \in RedirectReferrers(request.referrer) :
               fields' = [fields EXCEPT ![r] = [request EXCEPT !.referrer = referrer]]
          /\ at_loader' = [at_loader EXCEPT ![r] = Fresh]
          /\ replaced' = [replaced EXCEPT ![r] = @ \/ wanted[r].priority # "LOW"]
       \/ /\ goes_on
          /\ fields' = [fields EXCEPT ![r] = request_at_start]
          /\ at_loader' = [at_loader EXCEPT ![r] =
               CASE starts -> NewLoader(r, request_at_start)
                 [] in_progress[r].target_loader_ -> LoaderFollows(r, params)
                 [] OTHER -> @]
          /\ replaced' = [replaced EXCEPT ![r] = @ \/ (starts /\ wanted[r].priority # "LOW")]

\* The headers of a FollowRedirect go into request_ whether or not there is a
\* loader to send them to.
TakesHeaders_WhenBound(r, request, params) ==
    IF in_progress[r].target_loader_
    THEN [request EXCEPT !.headers = Merged(@, params)] ELSE request
TakesHeaders(r, request, params) == [request EXCEPT !.headers = Merged(@, params)]

Creates(r) ==
    /\ CreateLoaderAndStart(r)
    /\ \E referrer \in Referrer :
         RestartForwards(r, [headers |-> {}, referrer |-> referrer], NoHeaders)
    /\ UNCHANGED <<wanted, carried, tab_vars>>

Follows(r) ==
    /\ FollowRedirect(r)
    /\ RestartForwards(r, TakesHeaders(r, fields[r], carried[r]), carried[r])
    /\ carried' = [carried EXCEPT ![r] = NoHeaders]
    /\ UNCHANGED <<wanted, tab_vars>>

\* A client that follows removes or sets a header, or one exempt from CORS.
Asks(r) ==
    /\ ClientFollows(r)
    /\ \E params \in {NoHeaders}
           \cup {[NoHeaders EXCEPT !.modified = {h}] : h \in Header}
           \cup {[NoHeaders EXCEPT !.removed = {h}] : h \in Header}
           \cup {[NoHeaders EXCEPT !.exempt = {h}] : h \in Header} :
         /\ carried' = [carried EXCEPT ![r] = params]
         /\ wanted' = [wanted EXCEPT ![r].headers = Merged(@, params)]
    /\ UNCHANGED <<fields, at_loader, tab_vars, replaced>>

\* A server's redirect: the loader changes its referrer, and so does request_
\* when the proxy hears of it.
LoaderIsRedirected(r) ==
    /\ LoaderRedirects(r)
    /\ \E referrer \in RedirectReferrers(at_loader[r].referrer) :
         at_loader' = [at_loader EXCEPT ![r].referrer = referrer]
    /\ UNCHANGED <<fields, wanted, carried, tab_vars, replaced>>

TakesReferrer(r) ==
    /\ OnReceiveRedirect(r)
    /\ fields' = [fields EXCEPT ![r].referrer = at_loader[r].referrer]
    /\ UNCHANGED <<at_loader, wanted, carried, tab_vars, replaced>>

Ends(r) ==
    /\ OnClientDisconnect(r) \/ OnComplete(r)
    /\ fields' = [fields EXCEPT ![r] = NoFields]
    /\ at_loader' = [at_loader EXCEPT ![r] = Fresh]
    /\ carried' = [carried EXCEPT ![r] = NoHeaders]
    /\ UNCHANGED <<wanted, tab_vars, replaced>>

-----------------------------------------------------------------------------
\* Calls that are handed on to the loader if there is one.  They come on the
\* pipe of FollowRedirect, so none overtakes it.
Calls(r) ==
    /\ r \in requests_
    /\ follow[r] = <<>>
    /\ client[r].phase \in {"waiting", "redirected", "streaming"}

HandsOn_BeforeResponse(r) ==
    in_progress[r].target_loader_ /\ client[r].phase # "streaming"
HandsOn(r) == in_progress[r].target_loader_

SetPriority(r) ==
    /\ Calls(r)
    /\ \E priority \in {"LOW", "HIGH"} :
         /\ wanted' = [wanted EXCEPT ![r].priority = priority]
         /\ at_loader' = [at_loader EXCEPT ![r].priority =
              IF HandsOn(r) THEN priority ELSE @]
    /\ replaced' = [replaced EXCEPT ![r] = @ \/ ~in_progress[r].target_loader_]
    /\ UNCHANGED <<vars, fields, carried, tab_vars>>

PauseReadingBodyFromNet(r) ==
    /\ Calls(r)
    /\ wanted' = [wanted EXCEPT ![r].paused = TRUE]
    /\ at_loader' = [at_loader EXCEPT ![r].paused = @ \/ HandsOn(r)]
    /\ UNCHANGED <<vars, fields, carried, tab_vars, replaced>>

ResumeReadingBodyFromNet(r) ==
    /\ Calls(r)
    /\ wanted' = [wanted EXCEPT ![r].paused = FALSE]
    /\ at_loader' = [at_loader EXCEPT ![r].paused = @ /\ ~HandsOn(r)]
    /\ UNCHANGED <<vars, fields, carried, tab_vars, replaced>>

MaxLevelChanges ==
    /\ max_level' = ~max_level
    /\ UNCHANGED <<vars, forward_vars, resource_type, replaced>>

Others ==
    /\ \/ FactoryHandler
       \/ NetworkServiceDies \/ TrackingBlockerChanges \/ DidFinishNavigation
       \/ \E r \in Request :
            \/ OnReceiveResponse(r)
            \/ ClientCloses(r)
            \/ LoaderResponds(r) \/ LoaderCompletes(r) \/ LoaderFails(r)
    /\ UNCHANGED <<forward_vars, tab_vars, replaced>>

ForwardNext ==
    \/ \E r \in Request :
         \/ Creates(r) \/ Follows(r) \/ Asks(r)
         \/ LoaderIsRedirected(r) \/ TakesReferrer(r) \/ Ends(r)
         \/ SetPriority(r) \/ PauseReadingBodyFromNet(r) \/ ResumeReadingBodyFromNet(r)
    \/ MaxLevelChanges
    \/ Others

ForwardSpec == ForwardInit /\ [][ForwardNext]_all_vars

-----------------------------------------------------------------------------
\* A loader that is loading or has answered goes by all the headers of all the
\* client's FollowRedirects, whichever of its predecessors or internal
\* redirects they answered, up to the one on its way (cc:118-130, 333-357).
LoaderHasClientHeaders ==
    \A r \in requests_ :
      (in_progress[r].target_loader_ /\ follow[r] = <<>>
         /\ client[r].phase \in {"waiting", "streaming"})
      => at_loader[r].headers = wanted[r].headers

\* A client that wants the body read is never left with a loader that pauses:
\* a ResumeReadingBodyFromNet may be dropped, but then so was the pause
\* (cc:143-155, 309-318).
ResumeIsNeverLost ==
    \A r \in requests_ : at_loader[r].paused => wanted[r].paused

\* The priority a client asks for is lost with the loader it was asked of, or
\* for the lack of one, and in no other way (cc:135-141).
PriorityIsLostWithTheLoader ==
    \A r \in requests_ :
      in_progress[r].target_loader_ /\ ~replaced[r]
        => at_loader[r].priority = wanted[r].priority

\* While the tab is at the maximum level, no loader for a subresource is made
\* with more of a referrer than the origin of another site's page; naver.com's
\* are let through (cc:271-280, 309-318; site_hacks:34-55).
IsCapped(referrer, url) ==
    \/ referrer = GURL
    \/ IsSameOriginNavigation(referrer, url)
    \/ DomainIs(referrer, "naver.com")
    \/ referrer = OriginURL(referrer)

NewLoaderIsCapped ==
    [][ \A r \in Request :
          (/\ loader[r].phase = "none" /\ loader'[r].phase = "loading"
           /\ max_level
           /\ resource_type \notin {"kMainFrame", "kSubFrame"})
          => IsCapped(at_loader'[r].referrer, loader'[r].url)
      ]_all_vars
=============================================================================
