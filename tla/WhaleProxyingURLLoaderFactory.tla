-------------------- MODULE WhaleProxyingURLLoaderFactory --------------------
(***************************************************************************)
(* One WhaleProxyingURLLoaderFactory and its InProgressRequests            *)
(* (net/whale_proxying_url_loader_factory.cc), between the clients that    *)
(* ask for loads and the network service that performs them.               *)
(*                                                                         *)
(* Every handler runs to its end on the UI sequence and is one action.     *)
(* What interleaves is the arrival of messages: each request has a pipe    *)
(* from its client (follow), one from its network loader (from_net) and    *)
(* two whose closing is a message too (the client's, the factory's).       *)
(* Order is kept inside a pipe and never between pipes.                    *)
(***************************************************************************)
EXTENDS WhaleQueryFilter, WhaleShieldsDataController, FiniteSets

CONSTANTS
    Request,        \* the loads that may be asked for
    URL,            \* the URLs clients ask for and servers redirect to
    Method,         \* the methods clients ask with
    Initiator,      \* the origins requests are made from
    Key,            \* the parameter names a report may hold
    NetworkMayDie,  \* whether the network service may crash
    HasController,  \* whether the frame's tab has a WhaleShieldsDataController
    MaxReceivers,   \* bound on the pipes Clone makes
    MaxFollows      \* bound on the redirects a client follows

ASSUME ConstantsAssumption ==
    /\ Initiator \subseteq [scheme : STRING, host : STRING]
    /\ Method \subseteq STRING
    /\ NetworkMayDie \in BOOLEAN
    /\ HasController \in BOOLEAN
    /\ MaxReceivers \in Nat \ {0}
    /\ MaxFollows \in Nat

\* The URLs have hosts and valid specs, and filtering one gives another.
ASSUME URLAssumption ==
    /\ GURL \notin URL
    /\ \A url \in URL :
         /\ url.scheme # ""
         /\ url \in [scheme : STRING, host : DOMAIN DomainOf, path : STRING,
                     query : Seq(Seq(STRING))]
         /\ ApplyQueryFilter(url) \in URL
         /\ removed_trackers(url) \subseteq Key

VARIABLES
    target_factory_,          \* target_factory_.is_bound()
    proxy_receivers_,         \* how many pipes clients hold to the factory
    requests_,                \* the requests that are in progress
    removed,                  \* disconnect_callback_ has run: the factory is gone
    in_progress,              \* request |-> the fields of its InProgressRequest
    client,                   \* request |-> what its client has been told
    follow,                   \* request |-> its FollowRedirect that is on the way
    follows,                  \* request |-> how many its client has sent
    loader,                   \* request |-> its loader in the network service
    from_net,                 \* request |-> the loader's messages on the way
    network_alive,            \* FALSE once the network service has crashed
    tracking_blocker_enabled, \* GetTrackingBlockerEnabled for the tab's origin
    shields_data_controller   \* the tab's WhaleShieldsDataController

factory_vars == <<target_factory_, proxy_receivers_>>
network_vars == <<loader, from_net>>
context_vars == <<network_alive, tracking_blocker_enabled>>
vars == <<factory_vars, requests_, removed, in_progress, client, follow,
          follows, network_vars, context_vars, shields_data_controller>>

-----------------------------------------------------------------------------
\* A null pending_follow_redirect_params_ and an empty pipe are <<>>; a
\* FollowRedirect without a new_url holds GURL.
FollowRedirectParams == {<<>>} \cup {<<new_url>> : new_url \in URL \cup {GURL}}

ResourceRequest ==
    [ url : URL, method : Method \cup {"GET"},
      request_initiator : Initiator \cup {OpaqueOrigin} ]

InProgressRequest ==
    [ request_                        : ResourceRequest,
      ctx_                            : [ internal_redirect : BOOLEAN,
                                          redirect_source   : URL \cup {GURL} ],
      target_loader_                  : BOOLEAN,
      proxied_client_receiver_        : BOOLEAN,
      pending_follow_redirect_params_ : FollowRedirectParams,
      request_completed_              : BOOLEAN ]

\* What stands in in_progress for a request that is not in requests_.
Deleted ==
    [ request_                        |-> [ url |-> GURL, method |-> "GET",
                                            request_initiator |-> OpaqueOrigin ],
      ctx_                            |-> NewCTX,
      target_loader_                  |-> FALSE,
      proxied_client_receiver_        |-> FALSE,
      pending_follow_redirect_params_ |-> <<>>,
      request_completed_              |-> FALSE ]

NewInProgressRequest(request) == [Deleted EXCEPT !.request_ = request]

-----------------------------------------------------------------------------
\* The client's end of URLLoaderClient: what it makes of each message, at the
\* time the proxy sends it.  "broken" is a message it has no use for.
ClientPhase == {"idle", "waiting", "redirected", "streaming",
                "completed", "disconnected", "gone", "broken"}

ClientState == [phase : ClientPhase, url : URL \cup {GURL}]

Ended(phase) == [phase |-> phase, url |-> GURL]

ClientOnReceiveRedirect(c, new_url) ==
    CASE c.phase = "gone"    -> c
      [] c.phase = "waiting" -> [phase |-> "redirected", url |-> new_url]
      [] OTHER               -> [c EXCEPT !.phase = "broken"]

ClientOnReceiveResponse(c) ==
    CASE c.phase = "gone"    -> c
      [] c.phase = "waiting" -> [c EXCEPT !.phase = "streaming"]
      [] OTHER               -> [c EXCEPT !.phase = "broken"]

\* An error may come at any time, success only after the response.
ClientOnComplete(c, ok) ==
    CASE c.phase = "gone"                           -> c
      [] c.phase = "streaming"                      -> Ended("completed")
      [] c.phase \in {"waiting", "redirected"} /\ ~ok -> Ended("completed")
      [] OTHER                                      -> [c EXCEPT !.phase = "broken"]

\* The proxy's end of the pipe closes when its InProgressRequest is deleted.
ClientOnDisconnect(c) ==
    IF c.phase \in {"waiting", "redirected", "streaming"}
    THEN Ended("disconnected")
    ELSE c

-----------------------------------------------------------------------------
\* The loader in the network service, and what it makes of FollowRedirect.
LoaderPhase == {"none", "loading", "redirected", "streaming",
                "finished", "dead", "broken"}

LoaderState == [phase : LoaderPhase, url : URL \cup {GURL}, location : URL \cup {GURL}]

NoLoader == [phase |-> "none", url |-> GURL, location |-> GURL]

StartLoader(url) ==
    [ phase |-> IF network_alive THEN "loading" ELSE "dead",
      url |-> url, location |-> GURL ]

LoaderOnFollowRedirect(l, new_url) ==
    CASE l.phase = "redirected" ->
           [ phase |-> "loading", location |-> GURL,
             url |-> IF new_url = GURL THEN l.location ELSE new_url ]
      [] l.phase \in {"finished", "dead"} -> l
      [] OTHER -> [l EXCEPT !.phase = "broken"]

Redirect(new_url, new_method) ==
    [type |-> "redirect", new_url |-> new_url, new_method |-> new_method, ok |-> TRUE]
Response == [type |-> "response", new_url |-> GURL, new_method |-> "GET", ok |-> TRUE]
Complete(ok) == [type |-> "complete", new_url |-> GURL, new_method |-> "GET", ok |-> ok]

Message ==
    { m \in [ type : {"redirect", "response", "complete"}, new_url : URL \cup {GURL},
              new_method : Method \cup {"GET"}, ok : BOOLEAN ] :
        m.type = "redirect" => m.new_url # GURL }

-----------------------------------------------------------------------------
Init ==
    /\ target_factory_ = TRUE
    /\ proxy_receivers_ = 1
    /\ requests_ = {}
    /\ removed = FALSE
    /\ in_progress = [r \in Request |-> Deleted]
    /\ client = [r \in Request |-> Ended("idle")]
    /\ follow = [r \in Request |-> <<>>]
    /\ follows = [r \in Request |-> 0]
    /\ loader = [r \in Request |-> NoLoader]
    /\ from_net = [r \in Request |-> <<>>]
    /\ network_alive = TRUE
    /\ tracking_blocker_enabled \in BOOLEAN
    /\ shields_data_controller = NewController

-----------------------------------------------------------------------------
\* InProgressRequest, from the inside out.  p is the request's fields so far
\* in the handler, c its client before the handler.  F_Word just
\* before F, as RedirectSource_Late here, is a faulty variant of F: no
\* definition uses it, and some property is violated with it in F's place.

\* An internal redirect forgets where it came from.
RedirectSource_Late(p, new_url) == IF p.ctx_.internal_redirect THEN GURL ELSE new_url
RedirectSource(p, new_url) == IF p.ctx_.internal_redirect THEN GURL ELSE p.request_.url

\* Both kinds of redirect end here.
ContinueToBeforeRedirect(p, new_url, new_method) ==
    [ p EXCEPT !.ctx_.redirect_source = RedirectSource(p, new_url),
               !.request_.url = new_url,
               !.request_.method = new_method,
               !.request_completed_ = TRUE ]

Tainted(request, new_url) ==
    /\ Origin(new_url) # Origin(request.url)
    /\ request.request_initiator # Origin(request.url)

\* Resets proxied_client_receiver_ and target_loader_.
CloseLoader_Half(p) == [p EXCEPT !.target_loader_ = FALSE]
CloseLoader(p) ==
    [p EXCEPT !.proxied_client_receiver_ = FALSE, !.target_loader_ = FALSE]

\* The 307 that the proxy makes up, once the loader it had is closed.
HandleBeforeRequestRedirect(r, p, c, redirect_url) ==
    LET q == [ CloseLoader(p) EXCEPT
                 !.ctx_.internal_redirect = TRUE,
                 !.request_.request_initiator =
                     IF Tainted(p.request_, redirect_url) THEN OpaqueOrigin ELSE @ ]
    IN /\ in_progress' = [in_progress EXCEPT ![r] =
             ContinueToBeforeRedirect(q, redirect_url, p.request_.method)]
       /\ client' = [client EXCEPT ![r] = ClientOnReceiveRedirect(c, redirect_url)]
       /\ loader' = [loader EXCEPT ![r] = NoLoader]
       /\ from_net' = [from_net EXCEPT ![r] = <<>>]

StartsLoader(p) == ~p.target_loader_ /\ target_factory_

\* The held FollowRedirect goes to the loader if there is one and is dropped
\* if there is none; only then is a loader made, if there is none and still a
\* factory to make it.
ToLoader_StartsFirst(p, l) ==
    LET params  == p.pending_follow_redirect_params_
        started == IF StartsLoader(p) THEN StartLoader(p.request_.url) ELSE l
    IN IF params # <<>> THEN LoaderOnFollowRedirect(started, Head(params)) ELSE started

ToLoader_Forgets(p, l) == IF StartsLoader(p) THEN StartLoader(p.request_.url) ELSE l

ToLoader(p, l) ==
    CASE StartsLoader(p) -> StartLoader(p.request_.url)
      [] p.target_loader_ /\ p.pending_follow_redirect_params_ # <<>> ->
           LoaderOnFollowRedirect(l, Head(p.pending_follow_redirect_params_))
      [] OTHER -> l

ContinueToSendHeaders(r, p, c) ==
    /\ in_progress' = [in_progress EXCEPT ![r] =
          [ p EXCEPT !.pending_follow_redirect_params_ = <<>>,
                     !.target_loader_ = @ \/ StartsLoader(p),
                     !.proxied_client_receiver_ = @ \/ StartsLoader(p) ]]
    /\ loader' = [loader EXCEPT ![r] = ToLoader(p, @)]
    /\ client' = [client EXCEPT ![r] = c]
    /\ UNCHANGED from_net

\* What the tab's controller is told of a URL that lost its trackers.
Report_Late(url, redirect_url) ==
    HandleURLParamsBlocked(shields_data_controller, removed_trackers(redirect_url))
Report(url, redirect_url) ==
    IF HasController
    THEN HandleURLParamsBlocked(shields_data_controller, removed_trackers(url))
    ELSE shields_data_controller

Reopen_Not(p) == p
Reopen(p) == [p EXCEPT !.request_completed_ = FALSE]

Restart(r, p, c) ==
    LET ctx == MakeCTX(p.request_, tracking_blocker_enabled, p.ctx_)
    IN \E redirect_url \in {OnBeforeURLRequest_SiteHacksWork(ctx)} :
       \/ /\ redirect_url # GURL
          /\ HandleBeforeRequestRedirect(r, Reopen(p), c, redirect_url)
          /\ shields_data_controller' = Report(p.request_.url, redirect_url)
       \/ /\ redirect_url = GURL
          /\ ContinueToSendHeaders(r, Reopen(p), c)
          /\ UNCHANGED shields_data_controller

-----------------------------------------------------------------------------
\* The end of a request, and of the factory with its last one.

MaybeRemoveProxy_Eager(bound, requests) == removed' = ~bound
MaybeRemoveProxy_Never(bound, requests) == removed' = FALSE
MaybeRemoveProxy(bound, requests) == removed' = (~bound /\ requests = {})

RemoveRequest(r) ==
    /\ requests_' = requests_ \ {r}
    /\ in_progress' = [in_progress EXCEPT ![r] = Deleted]
    /\ follow' = [follow EXCEPT ![r] = <<>>]
    /\ loader' = [loader EXCEPT ![r] = NoLoader]
    /\ from_net' = [from_net EXCEPT ![r] = <<>>]
    /\ MaybeRemoveProxy(target_factory_, requests_ \ {r})
    /\ UNCHANGED <<factory_vars, follows, context_vars, shields_data_controller>>

OnRequestError(r) ==
    /\ client' = [client EXCEPT ![r] =
          IF in_progress[r].request_completed_
          THEN ClientOnDisconnect(@)
          ELSE ClientOnComplete(@, FALSE)]
    /\ RemoveRequest(r)

-----------------------------------------------------------------------------
\* network::mojom::URLLoaderFactory, called by clients.

Starts(r, url, method, initiator) ==
    Restart(r,
            NewInProgressRequest([ url |-> url, method |-> method,
                                   request_initiator |-> initiator ]),
            [phase |-> "waiting", url |-> url])

CreateLoaderAndStart(r) ==
    /\ proxy_receivers_ > 0
    /\ client[r].phase = "idle"
    /\ requests_' = requests_ \cup {r}
    /\ \E url \in URL, method \in Method, initiator \in Initiator \cup {OpaqueOrigin} :
         Starts(r, url, method, initiator)
    /\ UNCHANGED <<factory_vars, removed, follow, follows, context_vars>>

Clone ==
    /\ proxy_receivers_ \in 1 .. MaxReceivers - 1
    /\ proxy_receivers_' = proxy_receivers_ + 1
    /\ UNCHANGED <<target_factory_, requests_, removed, in_progress, client, follow,
                   follows, network_vars, context_vars, shields_data_controller>>

\* A client closes its pipe to the factory.
OnProxyBindingError ==
    /\ proxy_receivers_ > 0
    /\ proxy_receivers_' = proxy_receivers_ - 1
    /\ target_factory_' = (target_factory_ /\ proxy_receivers_' > 0)
    /\ MaybeRemoveProxy(target_factory_', requests_)
    /\ UNCHANGED <<requests_, in_progress, client, follow, follows,
                   network_vars, context_vars, shields_data_controller>>

\* The network service's end of the factory is gone.
OnTargetFactoryError ==
    /\ target_factory_
    /\ ~network_alive
    /\ target_factory_' = FALSE
    /\ proxy_receivers_' = 0
    /\ MaybeRemoveProxy(FALSE, requests_)
    /\ UNCHANGED <<requests_, in_progress, client, follow, follows,
                   network_vars, context_vars, shields_data_controller>>

-----------------------------------------------------------------------------
\* network::mojom::URLLoader, called by the request's client.

TakeFollowRedirect_Queues(p, new_url) ==
    [ p EXCEPT !.request_.url = IF new_url = GURL THEN @ ELSE new_url,
               !.pending_follow_redirect_params_ = Append(@, new_url) ]
TakeFollowRedirect_KeepsURL(p, new_url) ==
    [ p EXCEPT !.pending_follow_redirect_params_ =
                   IF p.target_loader_ THEN <<new_url>> ELSE @ ]
TakeFollowRedirect(p, new_url) ==
    [ p EXCEPT !.request_.url = IF new_url = GURL THEN @ ELSE new_url,
               !.pending_follow_redirect_params_ =
                   IF p.target_loader_ THEN <<new_url>> ELSE @ ]

FollowRedirect(r) ==
    /\ r \in requests_
    /\ follow[r] # <<>>
    /\ Restart(r, TakeFollowRedirect(in_progress[r], Head(follow[r])), client[r])
    /\ follow' = [follow EXCEPT ![r] = Tail(@)]
    /\ UNCHANGED <<factory_vars, requests_, removed, follows, context_vars>>

\* The disconnect handler of target_client_: OnRequestError(ERR_ABORTED).
OnClientDisconnect(r) ==
    /\ r \in requests_
    /\ client[r].phase = "gone"
    /\ OnRequestError(r)

-----------------------------------------------------------------------------
\* network::mojom::URLLoaderClient, called by the network loader.

Receives(r, type) ==
    /\ r \in requests_
    /\ in_progress[r].proxied_client_receiver_
    /\ from_net[r] # <<>>
    /\ Head(from_net[r]).type = type

OnReceiveResponse(r) ==
    /\ Receives(r, "response")
    /\ in_progress' = [in_progress EXCEPT ![r].ctx_.internal_redirect = FALSE]
    /\ client' = [client EXCEPT ![r] = ClientOnReceiveResponse(@)]
    /\ from_net' = [from_net EXCEPT ![r] = Tail(@)]
    /\ UNCHANGED <<factory_vars, requests_, removed, follow, follows, loader,
                   context_vars, shields_data_controller>>

OnReceiveRedirect(r) ==
    /\ Receives(r, "redirect")
    /\ LET message == Head(from_net[r])
           p == [in_progress[r] EXCEPT !.ctx_.internal_redirect = FALSE]
       IN /\ in_progress' = [in_progress EXCEPT ![r] =
                ContinueToBeforeRedirect(p, message.new_url, message.new_method)]
          /\ client' = [client EXCEPT ![r] =
                ClientOnReceiveRedirect(@, message.new_url)]
    /\ from_net' = [from_net EXCEPT ![r] = Tail(@)]
    /\ UNCHANGED <<factory_vars, requests_, removed, follow, follows, loader,
                   context_vars, shields_data_controller>>

OnComplete_IgnoresStatus(r) ==
    /\ Receives(r, "complete")
    /\ client' = [client EXCEPT ![r] = ClientOnComplete(@, TRUE)]
    /\ RemoveRequest(r)

OnComplete(r) ==
    /\ Receives(r, "complete")
    /\ \/ /\ Head(from_net[r]).ok
          /\ client' = [client EXCEPT ![r] = ClientOnComplete(@, TRUE)]
          /\ RemoveRequest(r)
       \/ /\ ~Head(from_net[r]).ok
          /\ OnRequestError(r)

-----------------------------------------------------------------------------
\* The parties outside: clients, the network service, the user.

\* A client answers the redirect it was told of, with a URL of its own
\* choice on the same origin or with none.
ClientFollows(r) ==
    /\ client[r].phase = "redirected"
    /\ follows[r] < MaxFollows
    /\ \E new_url \in {GURL} \cup {u \in URL : Origin(u) = Origin(client[r].url)} :
         /\ follow' = [follow EXCEPT ![r] = Append(@, new_url)]
         /\ client' = [client EXCEPT ![r] =
              [phase |-> "waiting", url |-> IF new_url = GURL THEN @.url ELSE new_url]]
    /\ follows' = [follows EXCEPT ![r] = @ + 1]
    /\ UNCHANGED <<factory_vars, requests_, removed, in_progress, network_vars,
                   context_vars, shields_data_controller>>

ClientCloses(r) ==
    /\ client[r].phase \in {"waiting", "redirected", "streaming"}
    /\ client' = [client EXCEPT ![r] = Ended("gone")]
    /\ UNCHANGED <<factory_vars, requests_, removed, in_progress, follow, follows,
                   network_vars, context_vars, shields_data_controller>>

LoaderSends(r, phase, location, message) ==
    /\ loader' = [loader EXCEPT ![r].phase = phase, ![r].location = location]
    /\ from_net' = [from_net EXCEPT ![r] = Append(@, message)]
    /\ UNCHANGED <<factory_vars, requests_, removed, in_progress, client, follow,
                   follows, context_vars, shields_data_controller>>

LoaderRedirects(r) ==
    /\ loader[r].phase = "loading"
    /\ \E new_url \in URL, new_method \in {in_progress[r].request_.method, "GET"} :
         LoaderSends(r, "redirected", new_url, Redirect(new_url, new_method))

LoaderResponds(r) ==
    /\ loader[r].phase = "loading"
    /\ LoaderSends(r, "streaming", GURL, Response)

LoaderCompletes(r) ==
    /\ loader[r].phase = "streaming"
    /\ LoaderSends(r, "finished", GURL, Complete(TRUE))

LoaderFails(r) ==
    /\ loader[r].phase \in {"loading", "redirected", "streaming"}
    /\ LoaderSends(r, "finished", GURL, Complete(FALSE))

\* What was written to a pipe before the crash is still delivered.
NetworkServiceDies ==
    /\ NetworkMayDie
    /\ network_alive
    /\ network_alive' = FALSE
    /\ loader' = [r \in Request |->
         IF loader[r].phase \in {"loading", "redirected", "streaming"}
         THEN [loader[r] EXCEPT !.phase = "dead", !.location = GURL]
         ELSE loader[r]]
    /\ UNCHANGED <<factory_vars, requests_, removed, in_progress, client, follow,
                   follows, from_net, tracking_blocker_enabled, shields_data_controller>>

\* The user flips the shields, or the tab commits a page that has another setting.
TrackingBlockerChanges ==
    /\ tracking_blocker_enabled' = ~tracking_blocker_enabled
    /\ UNCHANGED <<factory_vars, requests_, removed, in_progress, client, follow,
                   follows, network_vars, network_alive, shields_data_controller>>

\* A navigation of the tab's main frame commits.
DidFinishNavigation ==
    /\ HasController
    /\ shields_data_controller' = ClearAllResourcesList(shields_data_controller)
    /\ UNCHANGED <<factory_vars, requests_, removed, in_progress, client, follow,
                   follows, network_vars, context_vars>>

-----------------------------------------------------------------------------
RequestHandler(r) ==
    \/ FollowRedirect(r)
    \/ OnClientDisconnect(r)
    \/ OnReceiveResponse(r)
    \/ OnReceiveRedirect(r)
    \/ OnComplete(r)

FactoryHandler ==
    \/ Clone
    \/ OnProxyBindingError
    \/ OnTargetFactoryError

Environment ==
    \/ \E r \in Request :
         \/ ClientFollows(r)
         \/ ClientCloses(r)
         \/ LoaderRedirects(r)
         \/ LoaderResponds(r)
         \/ LoaderCompletes(r)
         \/ LoaderFails(r)
    \/ NetworkServiceDies
    \/ TrackingBlockerChanges
    \/ DidFinishNavigation

Next ==
    \/ \E r \in Request : CreateLoaderAndStart(r) \/ RequestHandler(r)
    \/ FactoryHandler
    \/ Environment

Spec == Init /\ [][Next]_vars

\* A posted task runs, a loader that loads gets somewhere, and a client that
\* was told of a redirect follows it or gives up.  Nobody has to ask for a
\* load, to close a pipe or to change a setting.
Fairness ==
    /\ WF_vars(OnTargetFactoryError)
    /\ \A r \in Request :
         /\ WF_vars(RequestHandler(r))
         /\ WF_vars(LoaderRedirects(r) \/ LoaderResponds(r) \/ LoaderCompletes(r))
         /\ WF_vars(ClientFollows(r)
                      \/ (client[r].phase = "redirected" /\ ClientCloses(r)))

FairSpec == Spec /\ Fairness

-----------------------------------------------------------------------------
TypeOK ==
    /\ target_factory_ \in BOOLEAN
    /\ proxy_receivers_ \in 0 .. MaxReceivers
    /\ requests_ \subseteq Request
    /\ removed \in BOOLEAN
    /\ in_progress \in [Request -> InProgressRequest \cup {Deleted}]
    /\ \A r \in requests_ : in_progress[r] \in InProgressRequest
    /\ client \in [Request -> ClientState]
    /\ follow \in [Request -> Seq(URL \cup {GURL})]
    /\ follows \in [Request -> 0 .. MaxFollows]
    /\ loader \in [Request -> LoaderState]
    /\ from_net \in [Request -> Seq(Message)]
    /\ network_alive \in BOOLEAN
    /\ tracking_blocker_enabled \in BOOLEAN
    /\ shields_data_controller \in Controller(Key)

-----------------------------------------------------------------------------
\* A client is never told what its load cannot be: no second redirect before
\* it answered the first, no response while one is unanswered, no success
\* without a response.  So it never has two answers on their way
\* (cc:160-211, 213-262, 366-417).
ClientContract ==
    \A r \in Request : client[r].phase # "broken" /\ Len(follow[r]) <= 1

\* FollowRedirect is only ever sent to a loader that waits for it; the network
\* service treats any other as a bad message (cc:333-357).
LoaderContract == \A r \in Request : loader[r].phase # "broken"

\* The client, the proxy and the network service agree on the URL of the load:
\* the client's is request_.url, up to the FollowRedirect on its way, and so is
\* the one the loader fetches, up to the redirect on its way or unanswered
\* (cc:109-133, 313-316, 348-354, 398).
URLAgreement ==
    \A r \in requests_ :
      LET url == in_progress[r].request_.url
          override == IF follow[r] = <<>> THEN GURL ELSE Head(follow[r])
          unanswered == loader[r].phase = "redirected" /\ from_net[r] = <<>>
      IN /\ client[r].phase \in {"waiting", "redirected", "streaming"}
              => client[r].url = IF override = GURL THEN url ELSE override
         /\ loader[r].phase \in {"loading", "redirected", "streaming"}
              => url = IF unanswered THEN loader[r].location ELSE loader[r].url

\* The factory is deleted exactly when the network's end is unbound and no
\* request is left, and it keeps the network's end exactly as long as some
\* client holds a pipe to it (cc:525-557).
FactoryLifetime ==
    /\ removed <=> (~target_factory_ /\ requests_ = {})
    /\ target_factory_ <=> (proxy_receivers_ > 0)

\* A request without a loader is parked at an internal redirect or was
\* stranded there: nothing is left of the loader it had, and when it is
\* stranded the factory that could make another is gone (cc:213-262, 309-318).
NoLoaderMeansParked ==
    \A r \in requests_ :
      LET p == in_progress[r] IN
      /\ p.target_loader_ = p.proxied_client_receiver_
      /\ ~p.target_loader_ =>
           /\ loader[r] = NoLoader /\ from_net[r] = <<>>
           /\ p.request_completed_ \/ ~target_factory_
      /\ p.target_loader_ => loader[r].phase # "none"

\* With the blocker on, no GET reaches the network with a tracker in its URL
\* unless the page, or the server that redirected to it, is of the URL's own
\* site.  The server's own URL is the loader's, not the proxy's note of it
\* (cc:91-107, 379-417; whale_query_filter.cc:159-198).
Filtered(url) ==
    \/ ApplyQueryFilter(url) = url
    \/ url.scheme \in {"chrome-extension", "chrome"}
    \/ DomainIs(url, "naver.com")

NoTrackerOnTheWire ==
    [][ \A r \in Request :
          LET request == in_progress'[r].request_
              source  == IF loader[r].phase = "redirected"
                         THEN Origin(loader[r].url)
                         ELSE request.request_initiator
          IN (/\ loader[r].phase # "loading"
              /\ loader'[r].phase = "loading"
              /\ tracking_blocker_enabled
              /\ request.method = "GET")
             => \/ Filtered(loader'[r].url)
                \/ source # OpaqueOrigin /\ SameDomainOrHost(source, loader'[r].url)
      ]_vars

\* A client loses its pipe without a word (OnComplete) only while it has a
\* redirect to answer or its answer is on the way (cc:435-447).
SilentEndOnlyAtRedirect ==
    [][ \A r \in Request :
          (client'[r].phase = "disconnected" /\ client[r].phase # "disconnected")
          => client[r].phase = "redirected" \/ follow[r] # <<>>
      ]_vars

\* The steps that look for trackers in a URL: that of a new request, and that
\* which takes a client's answer to a redirect, to the proxy's URL or its own.
AsksFor(r, url) ==
    \/ /\ client[r].phase = "idle"
       /\ \E method \in Method, initiator \in Initiator \cup {OpaqueOrigin} :
            Starts(r, url, method, initiator)
    \/ /\ follow[r] # <<>> /\ follow'[r] = <<>> /\ r \in requests_'
       /\ url = IF Head(follow[r]) = GURL
                THEN in_progress[r].request_.url ELSE Head(follow[r])

\* When the proxy takes parameters out of a URL, be it of a new request or of
\* one that goes on, their names are in the tab's record by the time the client
\* hears of it (cc:91-107, 217-262; site_hacks:73-94).
RemovalIsReported ==
    [][ HasController =>
          \A r \in Request, url \in URL :
            in_progress'[r].request_completed_ /\ AsksFor(r, url) =>
              removed_trackers(url)
                \subseteq shields_data_controller'.resource_list_blocked_url_params_
      ]_vars

\* The factory's lifetime is the one ProxyFactoryLifetime promises.
Lifetime == INSTANCE ProxyFactoryLifetime
    WITH open   <- target_factory_,
         active <- requests_,
         ended  <- {r \in Request : client[r].phase # "idle"} \ requests_

LifetimeSpec == Lifetime!Spec

\* A request comes to its end, unless the network service died under it or
\* the factory lost its target while the request was parked at an internal
\* redirect (cc:309: nothing is done, and nobody is told).
Stranded(r) ==
    \/ loader[r].phase = "dead"
    \/ /\ ~target_factory_
       /\ ~in_progress[r].target_loader_
       /\ ~in_progress[r].request_completed_

RequestsEnd ==
    \A r \in Request : (r \in requests_) ~> (r \notin requests_ \/ Stranded(r))

-----------------------------------------------------------------------------
\* What a comment of the source says, which the code does not do.

\* cc:217-218: "To load |redirect_url_|, a new URLLoader will be recreated
\* after receiving FollowRedirect()."
LoaderIsRecreated ==
    \A r \in requests_ :
      ~in_progress[r].request_completed_ => in_progress[r].target_loader_
=============================================================================
