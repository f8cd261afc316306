---------------- MODULE WhaleProxyingURLLoaderFactory_proofs ----------------
(***************************************************************************)
(* Theorems about WhaleProxyingURLLoaderFactory, for every set of requests *)
(* and of URLs, every table of trackers and every bound; and, from the     *)
(* line "Forwarding" on, about URLLoaderForwarding, for every set of       *)
(* headers, pages and resource types: it implements the module it extends, *)
(* so that what is proved of the factory holds there, and ForwardInv says  *)
(* what a loader goes by.                                                  *)
(***************************************************************************)
EXTENDS URLLoaderForwarding, TLAPS, SequenceTheorems

-----------------------------------------------------------------------------
\* Lemmas about the operators the handlers are built from.

\* The hook returns the empty URL or a URL of the set it was given one of
\* (whale_site_hacks_network_delegate_helper.cc:57-97).
LEMMA HookReturnsURL ==
    ASSUME NEW ctx, ctx.request_url \in URL
    PROVE  OnBeforeURLRequest_SiteHacksWork(ctx) \in URL \cup {GURL}
BY URLAssumption
   DEF OnBeforeURLRequest_SiteHacksWork, ApplyPotentialQueryStringFilter

\* Every message a loader sends is one of Message, and a redirect names a URL
\* and a method of the constants.
LEMMA MessageFacts ==
    /\ Response \in Message
    /\ \A ok \in BOOLEAN : Complete(ok) \in Message
    /\ \A new_url \in URL, new_method \in Method \cup {"GET"} :
         Redirect(new_url, new_method) \in Message
    /\ \A m \in Message : m.type = "redirect" =>
         m.new_url \in URL /\ m.new_method \in Method \cup {"GET"}
BY URLAssumption DEF Message, Response, Complete, Redirect

\* A redirect leaves the fields of a request well typed (cc:379-417).
LEMMA ContinueToBeforeRedirectType ==
    ASSUME NEW p \in InProgressRequest, NEW new_url \in URL,
           NEW new_method \in Method \cup {"GET"}
    PROVE  ContinueToBeforeRedirect(p, new_url, new_method) \in InProgressRequest
BY DEF ContinueToBeforeRedirect, RedirectSource, InProgressRequest, ResourceRequest

\* What the client makes of a message is again a state of a client.
LEMMA ClientTypes ==
    ASSUME NEW c \in ClientState
    PROVE  /\ \A new_url \in URL : ClientOnReceiveRedirect(c, new_url) \in ClientState
           /\ ClientOnReceiveResponse(c) \in ClientState
           /\ \A ok \in BOOLEAN : ClientOnComplete(c, ok) \in ClientState
           /\ ClientOnDisconnect(c) \in ClientState
BY DEF ClientState, ClientPhase, ClientOnReceiveRedirect, ClientOnReceiveResponse,
       ClientOnComplete, ClientOnDisconnect, Ended

\* What the proxy does to a loader leaves it a state of a loader
\* (cc:309-318, 348-354).
LEMMA LoaderTypes ==
    ASSUME NEW p \in InProgressRequest, NEW l \in LoaderState
    PROVE  ToLoader(p, l) \in LoaderState
<1>1. p.request_.url \in URL
  BY DEF InProgressRequest, ResourceRequest
<1>2. StartLoader(p.request_.url) \in LoaderState
  BY <1>1 DEF StartLoader, LoaderState, LoaderPhase
<1>3. ASSUME p.pending_follow_redirect_params_ # <<>>
      PROVE  LoaderOnFollowRedirect(l, Head(p.pending_follow_redirect_params_))
               \in LoaderState
  <2>1. Head(p.pending_follow_redirect_params_) \in URL \cup {GURL}
    BY <1>3 DEF InProgressRequest, FollowRedirectParams
  <2> QED
    BY <2>1 DEF LoaderOnFollowRedirect, LoaderState, LoaderPhase
<1> QED
  BY <1>2, <1>3 DEF ToLoader

\* The record of a tab stays one (whale_shields_data_controller.cc:65-76, 150-160).
LEMMA ControllerTypes ==
    ASSUME NEW controller \in Controller(Key)
    PROVE  /\ \A params \in SUBSET Key :
                HandleURLParamsBlocked(controller, params) \in Controller(Key)
           /\ ClearAllResourcesList(controller) \in Controller(Key)
BY DEF Controller, HandleURLParamsBlocked, ClearAllResourcesList

\* Closing the loader and the taint of the initiator keep a request well
\* typed (cc:213-262).
LEMMA InternalRedirectType ==
    ASSUME NEW p \in InProgressRequest, NEW redirect_url \in URL,
           NEW b \in BOOLEAN
    PROVE  LET q == [ CloseLoader(p) EXCEPT
                        !.ctx_.internal_redirect = TRUE,
                        !.request_.request_initiator = IF b THEN OpaqueOrigin ELSE @ ]
           IN ContinueToBeforeRedirect(q, redirect_url, p.request_.method)
                \in InProgressRequest
<1> DEFINE q == [ CloseLoader(p) EXCEPT
                    !.ctx_.internal_redirect = TRUE,
                    !.request_.request_initiator = IF b THEN OpaqueOrigin ELSE @ ]
<1>1. CloseLoader(p) \in InProgressRequest
  BY DEF CloseLoader, InProgressRequest
<1>2. q \in InProgressRequest
  BY <1>1 DEF InProgressRequest, ResourceRequest
<1>3. p.request_.method \in Method \cup {"GET"}
  BY DEF InProgressRequest, ResourceRequest
<1> HIDE DEF q
<1>4. ContinueToBeforeRedirect(q, redirect_url, p.request_.method) \in InProgressRequest
  BY <1>2, <1>3, ContinueToBeforeRedirectType
<1> QED
  BY <1>4 DEF q

\* Whatever Restart does, the request it is called on is well typed after it
\* and so is everything it writes; no other request is touched (cc:91-107,
\* 213-364).
LEMMA RestartType ==
    ASSUME TypeOK, NEW r \in Request, NEW p \in InProgressRequest, NEW c \in ClientState,
           Restart(r, p, c)
    PROVE  /\ in_progress' \in [Request -> InProgressRequest \cup {Deleted}]
           /\ in_progress'[r] \in InProgressRequest
           /\ \A s \in Request \ {r} : in_progress'[s] = in_progress[s]
           /\ client' \in [Request -> ClientState]
           /\ loader' \in [Request -> LoaderState]
           /\ from_net' \in [Request -> Seq(Message)]
           /\ shields_data_controller' \in Controller(Key)
<1> DEFINE ctx == MakeCTX(p.request_, tracking_blocker_enabled, p.ctx_)
           redirect_url == OnBeforeURLRequest_SiteHacksWork(ctx)
           q == Reopen(p)
<1>1. p.request_.url \in URL
  BY DEF InProgressRequest, ResourceRequest
<1>2. redirect_url \in URL \cup {GURL}
  <2>1. ctx.request_url \in URL
    BY <1>1 DEF MakeCTX
  <2> QED
    BY <2>1, HookReturnsURL
<1>3. q \in InProgressRequest
  BY DEF Reopen, InProgressRequest
<1> HIDE DEF redirect_url, q
<1>4. CASE /\ redirect_url # GURL
           /\ HandleBeforeRequestRedirect(r, q, c, redirect_url)
           /\ shields_data_controller' = Report(p.request_.url, redirect_url)
  <2> DEFINE b == Tainted(q.request_, redirect_url)
             s == [ CloseLoader(q) EXCEPT
                      !.ctx_.internal_redirect = TRUE,
                      !.request_.request_initiator = IF b THEN OpaqueOrigin ELSE @ ]
             next == ContinueToBeforeRedirect(s, redirect_url, q.request_.method)
  <2>1. redirect_url \in URL
    BY <1>2, <1>4
  <2>2. next \in InProgressRequest
    BY <2>1, <1>3, InternalRedirectType, b \in BOOLEAN DEF Tainted
  <2>3. /\ in_progress' = [in_progress EXCEPT ![r] = next]
        /\ client' = [client EXCEPT ![r] = ClientOnReceiveRedirect(c, redirect_url)]
        /\ loader' = [loader EXCEPT ![r] = NoLoader]
        /\ from_net' = [from_net EXCEPT ![r] = <<>>]
    BY <1>4 DEF HandleBeforeRequestRedirect
  <2> HIDE DEF next
  <2>4. client' \in [Request -> ClientState]
    BY <2>1, <2>3, ClientTypes DEF TypeOK
  <2>5. /\ loader' \in [Request -> LoaderState]
        /\ from_net' \in [Request -> Seq(Message)]
    BY <2>3 DEF TypeOK, LoaderState, LoaderPhase, NoLoader
  <2>6. shields_data_controller' \in Controller(Key)
    BY <1>1, <1>4, URLAssumption, ControllerTypes DEF TypeOK, Report
  <2> QED
    BY <2>2, <2>3, <2>4, <2>5, <2>6 DEF TypeOK
<1>5. CASE /\ redirect_url = GURL
           /\ ContinueToSendHeaders(r, q, c)
           /\ UNCHANGED shields_data_controller
  <2> DEFINE next == [ q EXCEPT !.pending_follow_redirect_params_ = <<>>,
                                !.target_loader_ = @ \/ StartsLoader(q),
                                !.proxied_client_receiver_ = @ \/ StartsLoader(q) ]
  <2>1. next \in InProgressRequest
    BY <1>3 DEF InProgressRequest, FollowRedirectParams, StartsLoader
  <2>2. /\ in_progress' = [in_progress EXCEPT ![r] = next]
        /\ loader' = [loader EXCEPT ![r] = ToLoader(q, @)]
        /\ client' = [client EXCEPT ![r] = c]
        /\ from_net' = from_net
    BY <1>5 DEF ContinueToSendHeaders
  <2> HIDE DEF next
  <2>3. loader' \in [Request -> LoaderState]
    BY <1>3, <2>2, LoaderTypes DEF TypeOK
  <2> QED
    BY <1>5, <2>1, <2>2, <2>3 DEF TypeOK
<1> QED
  BY <1>4, <1>5 DEF Restart, redirect_url, q

\* A request that has ended leaves its fields empty; the rest of the state is
\* as it was, up to what its client was told (cc:551-557).
LEMMA RemoveRequestType ==
    ASSUME TypeOK, NEW r \in requests_, RemoveRequest(r),
           client' \in [Request -> ClientState]
    PROVE  TypeOK'
<1>1. requests_' \subseteq Request /\ removed' \in BOOLEAN
  BY DEF RemoveRequest, MaybeRemoveProxy, TypeOK
<1>2. /\ in_progress' \in [Request -> InProgressRequest \cup {Deleted}]
      /\ \A s \in requests_' : in_progress'[s] \in InProgressRequest
  BY DEF RemoveRequest, TypeOK
<1>3. follow' \in [Request -> Seq(URL \cup {GURL})] /\ from_net' \in [Request -> Seq(Message)]
  BY DEF RemoveRequest, TypeOK
<1>4. loader' \in [Request -> LoaderState]
  BY DEF RemoveRequest, TypeOK, NoLoader, LoaderState, LoaderPhase
<1> QED
  BY <1>1, <1>2, <1>3, <1>4
  DEF RemoveRequest, TypeOK, factory_vars, context_vars

\* The disconnect handler and a failed OnComplete end here (cc:435-447).
LEMMA OnRequestErrorType ==
    ASSUME TypeOK, NEW r \in requests_, OnRequestError(r)
    PROVE  TypeOK'
<1>1. client' \in [Request -> ClientState]
  BY ClientTypes DEF OnRequestError, TypeOK
<1> QED
  BY <1>1, RemoveRequestType DEF OnRequestError

-----------------------------------------------------------------------------
\* Type correctness, one step per action.

\* The factory starts well typed, without requests (cc:449-476).
LEMMA InitType == Init => TypeOK
<1>1. Ended("idle") \in ClientState
  BY DEF Ended, ClientState, ClientPhase
<1>2. NoLoader \in LoaderState
  BY DEF NoLoader, LoaderState, LoaderPhase
<1>3. NewController \in Controller(Key)
  BY DEF NewController, Controller
<1>4. 1 \in 0 .. MaxReceivers /\ 0 \in 0 .. MaxFollows
  BY ConstantsAssumption
<1> SUFFICES ASSUME Init
             PROVE  TypeOK
  OBVIOUS
<1>5. /\ in_progress \in [Request -> InProgressRequest \cup {Deleted}]
      /\ client \in [Request -> ClientState]
      /\ loader \in [Request -> LoaderState]
  BY <1>1, <1>2 DEF Init
<1>6. follow \in [Request -> Seq(URL \cup {GURL})] /\ from_net \in [Request -> Seq(Message)]
  BY DEF Init
<1>7. follows \in [Request -> 0 .. MaxFollows] /\ proxy_receivers_ \in 0 .. MaxReceivers
  BY <1>4 DEF Init
<1> QED
  BY <1>3, <1>5, <1>6, <1>7 DEF Init, TypeOK

\* A new request is in requests_ with fields of its own (cc:498-518).
LEMMA CreateLoaderAndStartType ==
    ASSUME TypeOK, NEW r \in Request, CreateLoaderAndStart(r)
    PROVE  TypeOK'
<1>1. PICK url \in URL, method \in Method, initiator \in Initiator \cup {OpaqueOrigin} :
        Restart(r,
                NewInProgressRequest([ url |-> url, method |-> method,
                                       request_initiator |-> initiator ]),
                [phase |-> "waiting", url |-> url])
  BY DEF CreateLoaderAndStart, Starts
<1> DEFINE p == NewInProgressRequest([ url |-> url, method |-> method,
                                       request_initiator |-> initiator ])
           c == [phase |-> "waiting", url |-> url]
<1>2. p \in InProgressRequest
  BY DEF NewInProgressRequest, Deleted, InProgressRequest, ResourceRequest, NewCTX,
         FollowRedirectParams
<1>3. c \in ClientState
  BY DEF ClientState, ClientPhase
<1> HIDE DEF p, c
<1>4. Restart(r, p, c)
  BY <1>1 DEF p, c
<1>5. /\ in_progress' \in [Request -> InProgressRequest \cup {Deleted}]
      /\ in_progress'[r] \in InProgressRequest
      /\ \A s \in Request \ {r} : in_progress'[s] = in_progress[s]
      /\ client' \in [Request -> ClientState]
      /\ loader' \in [Request -> LoaderState]
      /\ from_net' \in [Request -> Seq(Message)]
      /\ shields_data_controller' \in Controller(Key)
  BY <1>2, <1>3, <1>4, RestartType
<1> QED
  BY <1>5 DEF CreateLoaderAndStart, TypeOK, factory_vars, context_vars

\* A FollowRedirect, with or without a new_url, keeps the fields typed (cc:109-133).
LEMMA FollowRedirectType ==
    ASSUME TypeOK, NEW r \in Request, FollowRedirect(r)
    PROVE  TypeOK'
<1> DEFINE p == TakeFollowRedirect(in_progress[r], Head(follow[r]))
<1>1. in_progress[r] \in InProgressRequest /\ client[r] \in ClientState
  BY DEF FollowRedirect, TypeOK
<1>2. /\ Head(follow[r]) \in URL \cup {GURL}
      /\ Tail(follow[r]) \in Seq(URL \cup {GURL})
  BY DEF FollowRedirect, TypeOK
<1>3. p \in InProgressRequest
  BY <1>1, <1>2
  DEF TakeFollowRedirect, InProgressRequest, ResourceRequest, FollowRedirectParams
<1> HIDE DEF p
<1>4. Restart(r, p, client[r])
  BY DEF FollowRedirect, p
<1>5. /\ in_progress' \in [Request -> InProgressRequest \cup {Deleted}]
      /\ in_progress'[r] \in InProgressRequest
      /\ \A s \in Request \ {r} : in_progress'[s] = in_progress[s]
      /\ client' \in [Request -> ClientState]
      /\ loader' \in [Request -> LoaderState]
      /\ from_net' \in [Request -> Seq(Message)]
      /\ shields_data_controller' \in Controller(Key)
  BY <1>1, <1>3, <1>4, RestartType
<1>6. follow' \in [Request -> Seq(URL \cup {GURL})]
  BY <1>2 DEF FollowRedirect, TypeOK
<1> QED
  BY <1>5, <1>6 DEF FollowRedirect, TypeOK, factory_vars, context_vars

\* So do the messages of the network loader and the end of a client
\* (cc:81-86, 160-211).
LEMMA NetworkMessageType ==
    ASSUME TypeOK, NEW r \in Request,
           OnReceiveResponse(r) \/ OnReceiveRedirect(r) \/ OnComplete(r)
    PROVE  TypeOK'
<1>0. r \in requests_ /\ from_net[r] # <<>>
  BY DEF OnReceiveResponse, OnReceiveRedirect, OnComplete, Receives
<1>1. /\ r \in requests_
      /\ in_progress[r] \in InProgressRequest /\ client[r] \in ClientState
      /\ Head(from_net[r]) \in Message /\ Tail(from_net[r]) \in Seq(Message)
  BY <1>0 DEF TypeOK
<1>2. CASE OnReceiveResponse(r)
  <2>1. [in_progress[r] EXCEPT !.ctx_.internal_redirect = FALSE] \in InProgressRequest
    BY <1>1 DEF InProgressRequest
  <2>2. /\ in_progress' \in [Request -> InProgressRequest \cup {Deleted}]
        /\ \A s \in requests_ : in_progress'[s] \in InProgressRequest
    BY <1>2, <2>1 DEF OnReceiveResponse, TypeOK
  <2>3. client' \in [Request -> ClientState]
    BY <1>2, ClientTypes DEF OnReceiveResponse, TypeOK
  <2>4. from_net' \in [Request -> Seq(Message)]
    BY <1>1, <1>2 DEF OnReceiveResponse, TypeOK
  <2> QED
    BY <1>2, <2>2, <2>3, <2>4 DEF OnReceiveResponse, TypeOK, factory_vars, context_vars
<1>3. CASE OnReceiveRedirect(r)
  <2> DEFINE message == Head(from_net[r])
             p == [in_progress[r] EXCEPT !.ctx_.internal_redirect = FALSE]
             next == ContinueToBeforeRedirect(p, message.new_url, message.new_method)
  <2>1. p \in InProgressRequest
    BY <1>1 DEF InProgressRequest
  <2>2. message.new_url \in URL /\ message.new_method \in Method \cup {"GET"}
    BY <1>1, <1>3, MessageFacts DEF OnReceiveRedirect, Receives
  <2>3. next \in InProgressRequest
    BY <2>1, <2>2, ContinueToBeforeRedirectType
  <2>4. /\ in_progress' = [in_progress EXCEPT ![r] = next]
        /\ client' = [client EXCEPT ![r] = ClientOnReceiveRedirect(@, message.new_url)]
        /\ from_net' = [from_net EXCEPT ![r] = Tail(@)]
    BY <1>3 DEF OnReceiveRedirect
  <2> HIDE DEF message, p, next
  <2>5. /\ in_progress' \in [Request -> InProgressRequest \cup {Deleted}]
        /\ \A s \in requests_ : in_progress'[s] \in InProgressRequest
    BY <2>3, <2>4 DEF TypeOK
  <2>6. client' \in [Request -> ClientState]
    BY <2>2, <2>4, ClientTypes DEF TypeOK
  <2>7. from_net' \in [Request -> Seq(Message)]
    BY <1>1, <2>4 DEF TypeOK
  <2> QED
    BY <1>3, <2>5, <2>6, <2>7 DEF OnReceiveRedirect, TypeOK, factory_vars, context_vars
<1>4. CASE OnComplete(r)
  <2>1. CASE OnRequestError(r)
    BY <1>1, <2>1, OnRequestErrorType
  <2>2. CASE /\ client' = [client EXCEPT ![r] = ClientOnComplete(@, TRUE)]
             /\ RemoveRequest(r)
    <3>1. client' \in [Request -> ClientState]
      BY <2>2, ClientTypes DEF TypeOK
    <3> QED
      BY <1>1, <2>2, <3>1, RemoveRequestType
  <2> QED
    BY <1>4, <2>1, <2>2 DEF OnComplete
<1> QED
  BY <1>2, <1>3, <1>4

\* A client queues GURL or a URL of the constants, and counts what it follows.
LEMMA ClientStepType ==
    ASSUME TypeOK, NEW r \in Request, ClientFollows(r) \/ ClientCloses(r)
    PROVE  TypeOK'
<1>1. CASE ClientFollows(r)
  <2>1. PICK new_url \in URL \cup {GURL} :
          /\ follow' = [follow EXCEPT ![r] = Append(@, new_url)]
          /\ client' = [client EXCEPT ![r] =
               [phase |-> "waiting", url |-> IF new_url = GURL THEN @.url ELSE new_url]]
    BY <1>1 DEF ClientFollows
  <2>2. client' \in [Request -> ClientState]
    BY <2>1 DEF TypeOK, ClientState, ClientPhase
  <2>3. follow' \in [Request -> Seq(URL \cup {GURL})]
    BY <2>1 DEF TypeOK
  <2>4. follows' \in [Request -> 0 .. MaxFollows]
    <3>1. follows[r] + 1 \in 0 .. MaxFollows
      BY <1>1, ConstantsAssumption DEF ClientFollows, TypeOK
    <3> QED
      BY <1>1, <3>1 DEF ClientFollows, TypeOK
  <2> QED
    BY <1>1, <2>2, <2>3, <2>4
    DEF ClientFollows, TypeOK, factory_vars, network_vars, context_vars
<1>2. CASE ClientCloses(r)
  <2>1. client' \in [Request -> ClientState]
    BY <1>2 DEF ClientCloses, TypeOK, Ended, ClientState, ClientPhase
  <2> QED
    BY <1>2, <2>1
    DEF ClientCloses, TypeOK, factory_vars, network_vars, context_vars
<1> QED
  BY <1>1, <1>2

\* A loader queues messages of Message only: a redirect has a URL.
LEMMA LoaderStepType ==
    ASSUME TypeOK, NEW r \in Request,
           LoaderRedirects(r) \/ LoaderResponds(r) \/ LoaderCompletes(r) \/ LoaderFails(r)
    PROVE  TypeOK'
<1>1. ASSUME NEW phase \in LoaderPhase, NEW location \in URL \cup {GURL},
             NEW message \in Message, LoaderSends(r, phase, location, message)
      PROVE  TypeOK'
  <2>1. loader' \in [Request -> LoaderState]
    BY <1>1 DEF LoaderSends, TypeOK, LoaderState
  <2>2. from_net' \in [Request -> Seq(Message)]
    BY <1>1 DEF LoaderSends, TypeOK
  <2> QED
    BY <1>1, <2>1, <2>2 DEF LoaderSends, TypeOK, factory_vars, context_vars
<1>2. in_progress[r].request_.method \in Method \cup {"GET"}
  BY DEF TypeOK, InProgressRequest, ResourceRequest, Deleted
<1>3. {"redirected", "streaming", "finished"} \subseteq LoaderPhase
  BY DEF LoaderPhase
<1>4. CASE LoaderRedirects(r)
  <2>1. PICK new_url \in URL, new_method \in {in_progress[r].request_.method, "GET"} :
          LoaderSends(r, "redirected", new_url, Redirect(new_url, new_method))
    BY <1>4 DEF LoaderRedirects
  <2>2. Redirect(new_url, new_method) \in Message
    BY <1>2, MessageFacts
  <2> QED
    BY <1>1, <1>3, <2>1, <2>2
<1>5. CASE LoaderResponds(r)
  BY <1>1, <1>3, <1>5, MessageFacts DEF LoaderResponds
<1>6. CASE LoaderCompletes(r)
  BY <1>1, <1>3, <1>6, MessageFacts DEF LoaderCompletes
<1>7. CASE LoaderFails(r)
  BY <1>1, <1>3, <1>7, MessageFacts DEF LoaderFails
<1> QED
  BY <1>4, <1>5, <1>6, <1>7

\* Pipes to the factory come and go within their bound (cc:520-538).
LEMMA FactoryStepType ==
    ASSUME TypeOK, FactoryHandler
    PROVE  TypeOK'
<1>1. /\ target_factory_' \in BOOLEAN /\ removed' \in BOOLEAN
      /\ proxy_receivers_' \in 0 .. MaxReceivers
  <2>1. CASE Clone
    BY <2>1, ConstantsAssumption DEF Clone, TypeOK
  <2>2. CASE OnProxyBindingError
    <3>1. proxy_receivers_' \in 0 .. MaxReceivers
      BY <2>2, ConstantsAssumption DEF OnProxyBindingError, TypeOK
    <3>2. target_factory_' \in BOOLEAN /\ removed' \in BOOLEAN
      BY <2>2 DEF OnProxyBindingError, MaybeRemoveProxy
    <3> QED
      BY <3>1, <3>2
  <2>3. CASE OnTargetFactoryError
    <3>1. proxy_receivers_' \in 0 .. MaxReceivers
      BY <2>3, ConstantsAssumption DEF OnTargetFactoryError
    <3>2. target_factory_' \in BOOLEAN /\ removed' \in BOOLEAN
      BY <2>3 DEF OnTargetFactoryError, MaybeRemoveProxy
    <3> QED
      BY <3>1, <3>2
  <2> QED
    BY <2>1, <2>2, <2>3 DEF FactoryHandler
<1>2. UNCHANGED <<requests_, in_progress, client, follow, follows, network_vars,
                  context_vars, shields_data_controller>>
  BY DEF FactoryHandler, Clone, OnProxyBindingError, OnTargetFactoryError
<1> QED
  BY <1>1, <1>2 DEF TypeOK, network_vars, context_vars

\* The crash of the network service, the setting and the tab change no field
\* of a request.
LEMMA OutsideStepType ==
    ASSUME TypeOK, NetworkServiceDies \/ TrackingBlockerChanges \/ DidFinishNavigation
    PROVE  TypeOK'
<1>1. CASE NetworkServiceDies
  <2>1. loader' \in [Request -> LoaderState]
    BY <1>1 DEF NetworkServiceDies, TypeOK, LoaderState, LoaderPhase
  <2> QED
    BY <1>1, <2>1 DEF NetworkServiceDies, TypeOK, factory_vars
<1>2. CASE TrackingBlockerChanges
  BY <1>2 DEF TrackingBlockerChanges, TypeOK, factory_vars, network_vars
<1>3. CASE DidFinishNavigation
  <2>1. shields_data_controller' \in Controller(Key)
    BY <1>3, ControllerTypes DEF DidFinishNavigation, TypeOK
  <2> QED
    BY <1>3, <2>1
    DEF DidFinishNavigation, TypeOK, factory_vars, network_vars, context_vars
<1> QED
  BY <1>1, <1>2, <1>3

\* TypeOK is inductive.
LEMMA NextType == TypeOK /\ [Next]_vars => TypeOK'
<1> SUFFICES ASSUME TypeOK, [Next]_vars
             PROVE  TypeOK'
  OBVIOUS
<1>1. ASSUME NEW r \in Request, CreateLoaderAndStart(r)
      PROVE  TypeOK'
  BY <1>1, CreateLoaderAndStartType
<1>2. ASSUME NEW r \in Request, RequestHandler(r)
      PROVE  TypeOK'
  <2>1. CASE FollowRedirect(r)
    BY <2>1, FollowRedirectType
  <2>2. CASE OnClientDisconnect(r)
    BY <2>2, OnRequestErrorType DEF OnClientDisconnect
  <2>3. CASE OnReceiveResponse(r) \/ OnReceiveRedirect(r) \/ OnComplete(r)
    BY <2>3, NetworkMessageType
  <2> QED
    BY <1>2, <2>1, <2>2, <2>3 DEF RequestHandler
<1>3. CASE FactoryHandler
  BY <1>3, FactoryStepType
<1>4. CASE Environment
  BY <1>4, ClientStepType, LoaderStepType, OutsideStepType DEF Environment
<1>5. CASE UNCHANGED vars
  BY <1>5 DEF vars, factory_vars, network_vars, context_vars, TypeOK
<1> QED
  BY <1>1, <1>2, <1>3, <1>4, <1>5 DEF Next

\* The state stays in its type: in particular every request in progress has a
\* URL of its own and a loader never redirects to the empty one.
THEOREM TypeCorrect == Spec => []TypeOK
BY InitType, NextType, PTL DEF Spec

-----------------------------------------------------------------------------
\* The lifetime of the factory.  FactoryLifetime is inductive on top of the
\* types: every action that unbinds the target or ends a request evaluates
\* MaybeRemoveProxy, and the others touch neither.

\* At first the factory is bound, has one pipe and is there (cc:449-476).
LEMMA InitLifetime == Init => FactoryLifetime
BY DEF Init, FactoryLifetime

\* No step parts removed from what it is meant to say: only the handlers of
\* the factory and the ends of requests touch its parts, and each of them
\* calls MaybeRemoveProxy after its last change (cc:525-557).
LEMMA NextLifetime ==
    TypeOK /\ FactoryLifetime /\ [Next]_vars => FactoryLifetime'
<1> SUFFICES ASSUME TypeOK, FactoryLifetime, [Next]_vars
             PROVE  FactoryLifetime'
  OBVIOUS
<1>1. proxy_receivers_ \in Nat
  BY ConstantsAssumption DEF TypeOK
<1>2. ASSUME UNCHANGED <<target_factory_, proxy_receivers_, requests_, removed>>
      PROVE  FactoryLifetime'
  BY <1>2 DEF FactoryLifetime
<1>3. ASSUME NEW r \in Request, RemoveRequest(r)
      PROVE  FactoryLifetime'
  BY <1>3 DEF RemoveRequest, MaybeRemoveProxy, FactoryLifetime, factory_vars
<1>4. ASSUME NEW r \in Request, CreateLoaderAndStart(r)
      PROVE  FactoryLifetime'
  BY <1>4 DEF CreateLoaderAndStart, FactoryLifetime, factory_vars
<1>5. ASSUME NEW r \in Request, RequestHandler(r)
      PROVE  FactoryLifetime'
  <2>1. CASE FollowRedirect(r)
    BY <1>2, <2>1 DEF FollowRedirect, factory_vars
  <2>2. CASE OnReceiveResponse(r) \/ OnReceiveRedirect(r)
    BY <1>2, <2>2 DEF OnReceiveResponse, OnReceiveRedirect, factory_vars
  <2>3. CASE OnClientDisconnect(r) \/ OnComplete(r)
    BY <1>3, <2>3 DEF OnClientDisconnect, OnComplete, OnRequestError
  <2> QED
    BY <1>5, <2>1, <2>2, <2>3 DEF RequestHandler
<1>6. CASE Clone
  BY <1>1, <1>6, ConstantsAssumption DEF Clone, FactoryLifetime
<1>7. CASE OnProxyBindingError
  <2>1. target_factory_
    BY <1>7 DEF OnProxyBindingError, FactoryLifetime
  <2>2. target_factory_' <=> proxy_receivers_' > 0
    BY <1>7, <2>1 DEF OnProxyBindingError
  <2>3. removed' <=> (~target_factory_' /\ requests_' = {})
    BY <1>7 DEF OnProxyBindingError, MaybeRemoveProxy
  <2> QED
    BY <2>2, <2>3 DEF FactoryLifetime
<1>8. CASE OnTargetFactoryError
  <2>1. target_factory_' = FALSE /\ proxy_receivers_' = 0
    BY <1>8 DEF OnTargetFactoryError
  <2>2. removed' <=> requests_' = {}
    BY <1>8 DEF OnTargetFactoryError, MaybeRemoveProxy
  <2>3. ~(proxy_receivers_' > 0)
    BY <2>1
  <2> QED
    BY <2>1, <2>2, <2>3 DEF FactoryLifetime
<1>9. CASE Environment
  BY <1>2, <1>9
  DEF Environment, ClientFollows, ClientCloses, LoaderRedirects, LoaderResponds,
      LoaderCompletes, LoaderFails, LoaderSends, NetworkServiceDies,
      TrackingBlockerChanges, DidFinishNavigation, factory_vars
<1>10. CASE UNCHANGED vars
  BY <1>2, <1>10 DEF vars, factory_vars
<1> QED
  BY <1>4, <1>5, <1>6, <1>7, <1>8, <1>9, <1>10 DEF Next, FactoryHandler

\* The factory is deleted exactly when its target is unbound and no request
\* is left, whatever the order in which pipes close, the network dies and
\* requests end.
THEOREM LifetimeCorrect == Spec => []FactoryLifetime
<1>1. TypeOK /\ FactoryLifetime /\ [Next]_vars => (TypeOK /\ FactoryLifetime)'
  BY NextType, NextLifetime
<1> QED
  BY <1>1, InitType, InitLifetime, PTL DEF Spec

-----------------------------------------------------------------------------
\* The factory implements ProxyFactoryLifetime.  What is missing for it is
\* that a request in progress has been asked for, and that no client forgets
\* it has asked.

Asked == {r \in Request : client[r].phase # "idle"}
RequestsAreAsked == requests_ \subseteq Asked

\* A client that asked never becomes one that did not.
LEMMA ClientRemembers ==
    ASSUME NEW c \in ClientState, c.phase # "idle"
    PROVE  /\ \A new_url : ClientOnReceiveRedirect(c, new_url).phase # "idle"
           /\ ClientOnReceiveResponse(c).phase # "idle"
           /\ \A ok \in BOOLEAN : ClientOnComplete(c, ok).phase # "idle"
           /\ ClientOnDisconnect(c).phase # "idle"
BY DEF ClientState, ClientOnReceiveRedirect, ClientOnReceiveResponse,
       ClientOnComplete, ClientOnDisconnect, Ended

\* Nor does Restart make it one (cc:91-107).
LEMMA RestartRemembers ==
    ASSUME TypeOK, NEW r \in Request, NEW p, NEW c \in ClientState, c.phase # "idle",
           Restart(r, p, c)
    PROVE  Asked' = Asked \cup {r}
<1>1. ASSUME NEW d, d.phase # "idle", client' = [client EXCEPT ![r] = d]
      PROVE  Asked' = Asked \cup {r}
  BY <1>1 DEF Asked, TypeOK
<1>2. CASE client' = [client EXCEPT ![r] = c]
  BY <1>1, <1>2
<1>3. ASSUME NEW new_url, client' = [client EXCEPT ![r] = ClientOnReceiveRedirect(c, new_url)]
      PROVE  Asked' = Asked \cup {r}
  BY <1>1, <1>3, ClientRemembers
<1> QED
  BY <1>2, <1>3 DEF Restart, HandleBeforeRequestRedirect, ContinueToSendHeaders

\* A handler that ends a request ends it in the abstract specification.
LEMMA RemoveRequestEnds ==
    ASSUME TypeOK, RequestsAreAsked, NEW r \in requests_, RemoveRequest(r),
           NEW d, d.phase # "idle", client' = [client EXCEPT ![r] = d]
    PROVE  Lifetime!End(r) /\ RequestsAreAsked'
<1>1. r \in Asked /\ Asked' = Asked
  BY DEF Asked, RequestsAreAsked, TypeOK
<1>2. requests_' = requests_ \ {r} /\ target_factory_' = target_factory_
  BY DEF RemoveRequest, factory_vars
<1>3. Asked' \ requests_' = (Asked \ requests_) \cup {r}
  BY <1>1, <1>2
<1>4. removed' = (~target_factory_ /\ requests_' = {})
  BY <1>2 DEF RemoveRequest, MaybeRemoveProxy
<1> QED
  BY <1>1, <1>2, <1>3, <1>4 DEF Lifetime!End, RequestsAreAsked, Asked

\* A request that fails ends in the abstract specification (cc:435-447).
LEMMA OnRequestErrorEnds ==
    ASSUME TypeOK, RequestsAreAsked, NEW r \in requests_, OnRequestError(r)
    PROVE  Lifetime!End(r) /\ RequestsAreAsked'
<1> DEFINE d == IF in_progress[r].request_completed_
                THEN ClientOnDisconnect(client[r])
                ELSE ClientOnComplete(client[r], FALSE)
<1>1. client[r] \in ClientState /\ client[r].phase # "idle"
  BY DEF TypeOK, RequestsAreAsked, Asked
<1>2. d.phase # "idle"
  BY <1>1, ClientRemembers
<1>3. client' = [client EXCEPT ![r] = d]
  BY DEF OnRequestError
<1>4. RemoveRequest(r)
  BY DEF OnRequestError
<1> HIDE DEF d
<1> QED
  BY <1>2, <1>3, <1>4, RemoveRequestEnds

\* Every step of the factory is one of ProxyFactoryLifetime or a stutter.
LEMMA NextImplements ==
    TypeOK /\ FactoryLifetime /\ RequestsAreAsked /\ [Next]_vars
      => [Lifetime!Next]_(Lifetime!vars) /\ RequestsAreAsked'
<1> SUFFICES ASSUME TypeOK, FactoryLifetime, RequestsAreAsked, [Next]_vars
             PROVE  [Lifetime!Next]_(Lifetime!vars) /\ RequestsAreAsked'
  OBVIOUS
<1> USE DEF Lifetime!vars
<1>1. ASSUME UNCHANGED <<target_factory_, requests_, removed>>, Asked' = Asked
      PROVE  [Lifetime!Next]_(Lifetime!vars) /\ RequestsAreAsked'
  BY <1>1 DEF Asked, RequestsAreAsked
<1>2. ASSUME NEW r \in requests_, Lifetime!End(r)
      PROVE  Lifetime!Next
  BY <1>2 DEF Lifetime!Next, TypeOK
<1>3. ASSUME NEW r \in Request, CreateLoaderAndStart(r)
      PROVE  [Lifetime!Next]_(Lifetime!vars) /\ RequestsAreAsked'
  <2>1. target_factory_ /\ r \notin Asked /\ r \notin requests_
    BY <1>3 DEF CreateLoaderAndStart, FactoryLifetime, RequestsAreAsked, Asked
  <2>2. Asked' = Asked \cup {r}
    <3>1. PICK url \in URL, method \in Method, initiator \in Initiator \cup {OpaqueOrigin} :
            Restart(r,
                    NewInProgressRequest([ url |-> url, method |-> method,
                                           request_initiator |-> initiator ]),
                    [phase |-> "waiting", url |-> url])
      BY <1>3 DEF CreateLoaderAndStart, Starts
    <3>2. [phase |-> "waiting", url |-> url] \in ClientState
      BY DEF ClientState, ClientPhase
    <3> QED
      BY <3>1, <3>2, RestartRemembers
  <2>3. requests_' = requests_ \cup {r} /\ UNCHANGED <<target_factory_, removed>>
    BY <1>3 DEF CreateLoaderAndStart, factory_vars
  <2>4. Asked' \ requests_' = Asked \ requests_
    BY <2>1, <2>2, <2>3
  <2>5. Lifetime!Start(r)
    BY <2>1, <2>3, <2>4 DEF Lifetime!Start, Asked
  <2> QED
    BY <2>2, <2>3, <2>5 DEF Lifetime!Next, RequestsAreAsked
<1>4. ASSUME NEW r \in Request, FollowRedirect(r)
      PROVE  [Lifetime!Next]_(Lifetime!vars) /\ RequestsAreAsked'
  <2>1. r \in Asked /\ client[r] \in ClientState /\ client[r].phase # "idle"
    BY <1>4 DEF FollowRedirect, RequestsAreAsked, Asked, TypeOK
  <2>2. PICK p : Restart(r, p, client[r])
    BY <1>4 DEF FollowRedirect
  <2>3. Asked' = Asked
    BY <2>1, <2>2, RestartRemembers
  <2> QED
    BY <1>1, <1>4, <2>3 DEF FollowRedirect, factory_vars
<1>5. ASSUME NEW r \in Request, OnReceiveResponse(r) \/ OnReceiveRedirect(r)
      PROVE  [Lifetime!Next]_(Lifetime!vars) /\ RequestsAreAsked'
  <2>1. r \in Asked /\ client[r] \in ClientState /\ client[r].phase # "idle"
    BY <1>5 DEF OnReceiveResponse, OnReceiveRedirect, Receives, RequestsAreAsked,
                Asked, TypeOK
  <2>2. PICK d : d.phase # "idle" /\ client' = [client EXCEPT ![r] = d]
    BY <1>5, <2>1, ClientRemembers DEF OnReceiveResponse, OnReceiveRedirect
  <2>3. Asked' = Asked
    BY <2>1, <2>2 DEF Asked, TypeOK
  <2> QED
    BY <1>1, <1>5, <2>3 DEF OnReceiveResponse, OnReceiveRedirect, factory_vars
<1>6. ASSUME NEW r \in Request, OnClientDisconnect(r)
      PROVE  [Lifetime!Next]_(Lifetime!vars) /\ RequestsAreAsked'
  BY <1>2, <1>6, OnRequestErrorEnds DEF OnClientDisconnect
<1>7. ASSUME NEW r \in Request, OnComplete(r)
      PROVE  [Lifetime!Next]_(Lifetime!vars) /\ RequestsAreAsked'
  <2>1. r \in requests_ /\ client[r] \in ClientState /\ client[r].phase # "idle"
    BY <1>7 DEF OnComplete, Receives, RequestsAreAsked, Asked, TypeOK
  <2>2. CASE OnRequestError(r)
    BY <1>2, <2>1, <2>2, OnRequestErrorEnds
  <2>3. CASE /\ client' = [client EXCEPT ![r] = ClientOnComplete(@, TRUE)]
             /\ RemoveRequest(r)
    <3>1. ClientOnComplete(client[r], TRUE).phase # "idle"
      BY <2>1, ClientRemembers
    <3>2. Lifetime!End(r) /\ RequestsAreAsked'
      BY <2>1, <2>3, <3>1, RemoveRequestEnds
    <3> QED
      BY <1>2, <2>1, <3>2
  <2> QED
    BY <1>7, <2>2, <2>3 DEF OnComplete
<1>8. CASE FactoryHandler
  <2>1. Asked' = Asked /\ requests_' = requests_
    BY <1>8 DEF FactoryHandler, Clone, OnProxyBindingError, OnTargetFactoryError, Asked
  <2>2. CASE Clone
    BY <1>1, <2>1, <2>2 DEF Clone
  <2>3. CASE (OnProxyBindingError \/ OnTargetFactoryError) /\ ~target_factory_'
    <3>1. target_factory_ /\ target_factory_' = FALSE
      BY <2>3 DEF OnProxyBindingError, OnTargetFactoryError, FactoryLifetime, TypeOK
    <3>2. removed' = (requests_ = {})
      BY <2>3, <3>1 DEF OnProxyBindingError, OnTargetFactoryError, MaybeRemoveProxy
    <3>3. Lifetime!Close
      BY <2>1, <3>1, <3>2 DEF Lifetime!Close, Asked
    <3> QED
      BY <2>1, <3>3 DEF Lifetime!Next, RequestsAreAsked
  <2>4. CASE OnProxyBindingError /\ target_factory_'
    <3>1. target_factory_ /\ ~removed
      BY <2>4 DEF OnProxyBindingError, FactoryLifetime
    <3>2. ~removed'
      BY <2>4 DEF OnProxyBindingError, MaybeRemoveProxy
    <3>3. removed' = removed /\ target_factory_' = target_factory_
      BY <2>4, <3>1, <3>2 DEF OnProxyBindingError, MaybeRemoveProxy, TypeOK
    <3> QED
      BY <1>1, <2>1, <3>3
  <2>5. OnTargetFactoryError => ~target_factory_'
    BY DEF OnTargetFactoryError
  <2> QED
    BY <1>8, <2>2, <2>3, <2>4, <2>5 DEF FactoryHandler
<1>9. CASE Environment
  <2>1. UNCHANGED <<target_factory_, requests_, removed>>
    BY <1>9
    DEF Environment, ClientFollows, ClientCloses, LoaderRedirects, LoaderResponds,
        LoaderCompletes, LoaderFails, LoaderSends, NetworkServiceDies,
        TrackingBlockerChanges, DidFinishNavigation, factory_vars
  <2>2. ASSUME NEW r \in Request, ClientFollows(r) \/ ClientCloses(r)
        PROVE  Asked' = Asked
    <3>1. client[r].phase # "idle"
      BY <2>2 DEF ClientFollows, ClientCloses
    <3>2. PICK d : d.phase # "idle" /\ client' = [client EXCEPT ![r] = d]
      <4>1. CASE ClientFollows(r)
        <5>1. PICK new_url : client' = [client EXCEPT ![r] =
                [phase |-> "waiting", url |-> IF new_url = GURL THEN @.url ELSE new_url]]
          BY <4>1 DEF ClientFollows
        <5> DEFINE d == [ phase |-> "waiting",
                          url |-> IF new_url = GURL THEN client[r].url ELSE new_url ]
        <5>2. d.phase # "idle"
          OBVIOUS
        <5>3. client' = [client EXCEPT ![r] = d]
          BY <5>1
        <5> HIDE DEF d
        <5> QED
          BY <5>2, <5>3
      <4>2. CASE ClientCloses(r)
        <5>1. client' = [client EXCEPT ![r] = Ended("gone")] /\ Ended("gone").phase # "idle"
          BY <4>2 DEF ClientCloses, Ended
        <5> QED
          BY <5>1
      <4> QED
        BY <2>2, <4>1, <4>2
    <3> QED
      BY <3>1, <3>2 DEF Asked, TypeOK
  <2>3. ASSUME UNCHANGED client
        PROVE  Asked' = Asked
    BY <2>3 DEF Asked
  <2>4. Asked' = Asked
    BY <1>9, <2>2, <2>3
    DEF Environment, LoaderRedirects, LoaderResponds, LoaderCompletes, LoaderFails,
        LoaderSends, NetworkServiceDies, TrackingBlockerChanges, DidFinishNavigation
  <2> QED
    BY <1>1, <2>1, <2>4
<1>10. CASE UNCHANGED vars
  BY <1>1, <1>10 DEF vars, factory_vars, Asked
<1> QED
  BY <1>3, <1>4, <1>5, <1>6, <1>7, <1>8, <1>9, <1>10 DEF Next, RequestHandler

\* Every behaviour of the factory is one that ProxyFactoryLifetime allows: a
\* request starts only while the target is bound, is in progress until its one
\* end, and the factory is deleted by the step that leaves it closed and idle.
THEOREM ImplementsLifetime == Spec => LifetimeSpec
<1>1. Init => Lifetime!Init /\ RequestsAreAsked
  BY DEF Init, Lifetime!Init, RequestsAreAsked, Ended
<1>2. TypeOK /\ FactoryLifetime /\ RequestsAreAsked /\ [Next]_vars
        => /\ [Lifetime!Next]_(Lifetime!vars)
           /\ (TypeOK /\ FactoryLifetime /\ RequestsAreAsked)'
  BY NextType, NextLifetime, NextImplements
<1> QED
  BY <1>1, <1>2, InitType, InitLifetime, PTL DEF Spec, LifetimeSpec, Lifetime!Spec

-----------------------------------------------------------------------------
\* How a request's client, its InProgressRequest and its network loader keep in
\* step: the contracts of both ends and the agreement on the URL follow from
\* where a request can be, Stage below.

One(n, type) == Len(n) = 1 /\ n[1].type = type
Two(n, type) == Len(n) = 2 /\ n[1].type = type /\ n[2].type = "complete"

\* A loader whose redirect its client was told of: it waits, has failed
\* meanwhile, or has died.
Waits(l, n) ==
    \/ l.phase \in {"redirected", "dead"} /\ n = <<>>
    \/ l.phase = "finished" /\ One(n, "complete") /\ ~n[1].ok

\* A loader of which its client was told nothing yet.
Untold(l, n) ==
    \/ l.phase \in {"loading", "dead"} /\ n = <<>>
    \/ l.phase \in {"redirected", "dead"} /\ One(n, "redirect")
    \/ l.phase \in {"streaming", "dead"} /\ One(n, "response")
    \/ l.phase = "finished" /\ One(n, "complete") /\ ~n[1].ok
    \/ l.phase = "finished" /\ Two(n, "redirect") /\ ~n[2].ok
    \/ l.phase = "finished" /\ Two(n, "response")

\* A loader of which its client was told the response.
Told(l, n) ==
    \/ l.phase \in {"streaming", "dead"} /\ n = <<>>
    \/ l.phase = "finished" /\ One(n, "complete")

\* Where a request in progress can be: p are its fields, c its client, f the
\* client's answer on the way, l its loader and n what is on the way from it.
ClientSide(p, c, f) ==
    IF p.request_completed_
    THEN \/ c.phase = "redirected" /\ f = <<>>
         \/ c.phase = "waiting" /\ Len(f) = 1
         \/ c.phase = "gone" /\ Len(f) <= 1
    ELSE c.phase \in {"waiting", "streaming", "gone"} /\ f = <<>>

NetworkSide(p, c, l, n, bound) ==
    /\ p.target_loader_ = p.proxied_client_receiver_
    /\ ~p.target_loader_ =>
         /\ l = NoLoader /\ n = <<>>
         /\ p.request_completed_ \/ (~bound /\ c.phase # "streaming")
    /\ p.target_loader_ /\ p.request_completed_ => Waits(l, n)
    /\ p.target_loader_ /\ ~p.request_completed_ =>
         \/ c.phase # "streaming" /\ Untold(l, n)
         \/ c.phase # "waiting" /\ Told(l, n)

Override(f) == IF f = <<>> THEN GURL ELSE Head(f)

URLs(p, c, f, l, n) ==
    /\ c.phase \in {"waiting", "redirected", "streaming"} =>
         c.url = IF Override(f) = GURL THEN p.request_.url ELSE Override(f)
    /\ l.phase \in {"loading", "redirected", "streaming"} =>
         p.request_.url = IF l.phase = "redirected" /\ n = <<>> THEN l.location ELSE l.url
    /\ l.phase = "redirected" /\ n # <<>> => n[1].new_url = l.location

Stage(p, c, f, l, n, bound) ==
    /\ ClientSide(p, c, f)
    /\ NetworkSide(p, c, l, n, bound)
    /\ URLs(p, c, f, l, n)

\* A request that was not asked for yet, or has ended.
Over(c, f, l, n) ==
    /\ c.phase \in {"idle", "completed", "disconnected", "gone"}
    /\ f = <<>> /\ l = NoLoader /\ n = <<>>

InStep(r) ==
    IF r \in requests_
    THEN Stage(in_progress[r], client[r], follow[r], loader[r], from_net[r], target_factory_)
    ELSE Over(client[r], follow[r], loader[r], from_net[r])

InStepInv == \A r \in Request : InStep(r)

-----------------------------------------------------------------------------
\* What Restart is called on: the client has answered, or has just asked, and a
\* loader that is there waits for the answer, which is held for it.
Restartable(p, c, l, n) ==
    /\ c.phase \in {"waiting", "gone"}
    /\ c.phase = "waiting" => c.url = p.request_.url
    /\ p.target_loader_ = p.proxied_client_receiver_
    /\ ~p.target_loader_ => l = NoLoader /\ n = <<>>
    /\ p.target_loader_ =>
         /\ Waits(l, n)
         /\ p.pending_follow_redirect_params_ # <<>>
         /\ l.phase = "redirected" =>
              p.request_.url = IF Head(p.pending_follow_redirect_params_) = GURL
                               THEN l.location
                               ELSE Head(p.pending_follow_redirect_params_)

\* An internal redirect parks the request (cc:213-262).
LEMMA ParkedStage ==
    ASSUME NEW r \in Request, TypeOK,
           NEW p \in InProgressRequest, NEW c \in ClientState,
           c.phase \in {"waiting", "gone"},
           NEW redirect_url \in URL, HandleBeforeRequestRedirect(r, p, c, redirect_url)
    PROVE  Stage(in_progress'[r], client'[r], <<>>, loader'[r], from_net'[r], target_factory_)
<1> DEFINE b == Tainted(p.request_, redirect_url)
           q == [ CloseLoader(p) EXCEPT
                    !.ctx_.internal_redirect = TRUE,
                    !.request_.request_initiator = IF b THEN OpaqueOrigin ELSE @ ]
           s == ContinueToBeforeRedirect(q, redirect_url, p.request_.method)
           d == ClientOnReceiveRedirect(c, redirect_url)
<1>1. /\ s.request_completed_
      /\ s.target_loader_ = FALSE /\ s.proxied_client_receiver_ = FALSE
      /\ s.request_.url = redirect_url
  BY DEF ContinueToBeforeRedirect, CloseLoader, InProgressRequest, ResourceRequest
<1>2. /\ in_progress'[r] = s /\ client'[r] = d
      /\ loader'[r] = NoLoader /\ from_net'[r] = <<>>
  BY DEF HandleBeforeRequestRedirect, TypeOK
<1>3. \/ d.phase = "redirected" /\ d.url = redirect_url
      \/ d.phase = "gone"
  BY DEF ClientOnReceiveRedirect, ClientState
<1> HIDE DEF s, d
<1>4. ClientSide(s, d, <<>>)
  BY <1>1, <1>3 DEF ClientSide
<1>5. NetworkSide(s, d, NoLoader, <<>>, target_factory_)
  BY <1>1 DEF NetworkSide
<1>6. URLs(s, d, <<>>, NoLoader, <<>>)
  BY <1>1, <1>3 DEF URLs, Override, NoLoader
<1> QED
  BY <1>2, <1>4, <1>5, <1>6 DEF Stage

\* A request that is sent has a loader that works on it, or none if the factory
\* has no target for it (cc:264-364).
LEMMA SentStage ==
    ASSUME NEW r \in Request, TypeOK,
           NEW p \in InProgressRequest, ~p.request_completed_, NEW c \in ClientState,
           Restartable(p, c, loader[r], from_net[r]),
           ContinueToSendHeaders(r, p, c)
    PROVE  Stage(in_progress'[r], client'[r], <<>>, loader'[r], from_net'[r], target_factory_)
<1> DEFINE b == StartsLoader(p)
           s == [ p EXCEPT !.pending_follow_redirect_params_ = <<>>,
                           !.target_loader_ = @ \/ b,
                           !.proxied_client_receiver_ = @ \/ b ]
           l == ToLoader(p, loader[r])
           n == from_net[r]
<1>1. /\ in_progress'[r] = s /\ client'[r] = c /\ loader'[r] = l /\ from_net'[r] = n
  BY DEF ContinueToSendHeaders, TypeOK
<1>2. /\ ~s.request_completed_ /\ s.request_.url = p.request_.url
      /\ s.target_loader_ <=> (p.target_loader_ \/ b)
      /\ s.proxied_client_receiver_ <=> (p.target_loader_ \/ b)
      /\ s.target_loader_ = s.proxied_client_receiver_
  BY DEF InProgressRequest, Restartable
<1>3. b <=> (~p.target_loader_ /\ target_factory_)
  BY DEF StartsLoader
<1> HIDE DEF b, s
<1>4. CASE b
  <2>1. l = StartLoader(p.request_.url) /\ n = <<>>
    BY <1>3, <1>4 DEF ToLoader, Restartable, b
  <2>2. l.phase \in {"loading", "dead"} /\ l.url = p.request_.url
    BY <2>1 DEF StartLoader
  <2> HIDE DEF l, n
  <2>3. NetworkSide(s, c, l, n, target_factory_)
    BY <1>2, <1>4, <2>1, <2>2 DEF NetworkSide, Untold, Restartable
  <2>4. URLs(s, c, <<>>, l, n) /\ ClientSide(s, c, <<>>)
    BY <1>2, <2>1, <2>2 DEF URLs, ClientSide, Override, Restartable
  <2> QED
    BY <1>1, <2>3, <2>4 DEF Stage
<1>5. CASE p.target_loader_
  <2> DEFINE u == Head(p.pending_follow_redirect_params_)
  <2>1. l = LoaderOnFollowRedirect(loader[r], u)
    BY <1>3, <1>5 DEF ToLoader, Restartable, b
  <2>2. /\ Waits(loader[r], n)
        /\ loader[r].phase = "redirected" =>
             p.request_.url = IF u = GURL THEN loader[r].location ELSE u
    BY <1>5 DEF Restartable
  <2> HIDE DEF u, n
  <2>3. \/ l.phase = "loading" /\ n = <<>> /\ l.url = p.request_.url
        \/ l.phase = "dead" /\ n = <<>>
        \/ l.phase = "finished" /\ One(n, "complete") /\ ~n[1].ok
    BY <2>1, <2>2 DEF LoaderOnFollowRedirect, Waits
  <2> HIDE DEF l
  <2>4. NetworkSide(s, c, l, n, target_factory_)
    BY <1>2, <1>5, <2>3 DEF NetworkSide, Untold, Restartable
  <2>5. URLs(s, c, <<>>, l, n) /\ ClientSide(s, c, <<>>)
    BY <1>2, <2>3 DEF URLs, ClientSide, Override, Restartable
  <2> QED
    BY <1>1, <2>4, <2>5 DEF Stage
<1>6. CASE ~b /\ ~p.target_loader_
  <2>1. l = loader[r] /\ l = NoLoader /\ n = <<>> /\ ~target_factory_
    BY <1>3, <1>6 DEF ToLoader, Restartable, b
  <2> HIDE DEF l, n
  <2>2. NetworkSide(s, c, l, n, target_factory_)
    BY <1>2, <1>6, <2>1 DEF NetworkSide, Restartable
  <2>3. URLs(s, c, <<>>, l, n) /\ ClientSide(s, c, <<>>)
    BY <1>2, <2>1 DEF URLs, ClientSide, Override, Restartable, NoLoader
  <2> QED
    BY <1>1, <2>2, <2>3 DEF Stage
<1> QED
  BY <1>4, <1>5, <1>6

\* Restart leaves the request at one of the places (cc:91-107).
LEMMA RestartStage ==
    ASSUME NEW r \in Request, TypeOK,
           NEW p \in InProgressRequest, NEW c \in ClientState,
           Restartable(p, c, loader[r], from_net[r]),
           Restart(r, p, c)
    PROVE  Stage(in_progress'[r], client'[r], <<>>, loader'[r], from_net'[r], target_factory_)
<1> DEFINE ctx == MakeCTX(p.request_, tracking_blocker_enabled, p.ctx_)
           redirect_url == OnBeforeURLRequest_SiteHacksWork(ctx)
           q == Reopen(p)
<1>1. redirect_url \in URL \cup {GURL}
  <2>1. ctx.request_url \in URL
    BY DEF MakeCTX, InProgressRequest, ResourceRequest
  <2> QED
    BY <2>1, HookReturnsURL
<1>2. q \in InProgressRequest /\ ~q.request_completed_
  BY DEF Reopen, InProgressRequest
<1>3. Restartable(q, c, loader[r], from_net[r])
  BY DEF Reopen, InProgressRequest, Restartable
<1> HIDE DEF redirect_url, q
<1>4. CASE redirect_url # GURL /\ HandleBeforeRequestRedirect(r, q, c, redirect_url)
  BY <1>1, <1>2, <1>4, ParkedStage DEF Restartable
<1>5. CASE ContinueToSendHeaders(r, q, c)
  BY <1>2, <1>3, <1>5, SentStage
<1> QED
  BY <1>4, <1>5 DEF Restart, redirect_url, q

-----------------------------------------------------------------------------
\* One step per handler.

\* A request keeps its place when nothing of it changes, even if the factory
\* loses its target.
LEMMA OtherRequests ==
    ASSUME InStepInv, NEW R \in SUBSET Request, target_factory_' => target_factory_,
           \A s \in Request \ R :
             /\ in_progress'[s] = in_progress[s] /\ client'[s] = client[s]
             /\ follow'[s] = follow[s] /\ loader'[s] = loader[s]
             /\ from_net'[s] = from_net[s]
             /\ s \in requests_' <=> s \in requests_,
           \A r \in R : InStep(r)'
    PROVE  InStepInv'
<1> SUFFICES ASSUME NEW s \in Request \ R
             PROVE  InStep(s)'
  BY DEF InStepInv
<1>1. InStep(s)
  BY DEF InStepInv
<1>2. CASE s \in requests_
  <2>1. NetworkSide(in_progress[s], client[s], loader[s], from_net[s], target_factory_')
    BY <1>1, <1>2 DEF InStep, Stage, NetworkSide
  <2>2. Stage(in_progress[s], client[s], follow[s], loader[s], from_net[s], target_factory_')
    BY <1>1, <1>2, <2>1 DEF InStep, Stage
  <2> QED
    BY <1>2, <2>2 DEF InStep
<1>3. CASE s \notin requests_
  BY <1>1, <1>3 DEF InStep
<1> QED
  BY <1>2, <1>3

\* What is left of a queue once its first message is taken.
LEMMA TailFacts ==
    ASSUME NEW n \in Seq(Message)
    PROVE  /\ \A type : One(n, type) => Head(n) = n[1] /\ Tail(n) = <<>>
           /\ \A type : Two(n, type) => /\ Head(n) = n[1]
                                        /\ One(Tail(n), "complete") /\ Tail(n)[1] = n[2]
BY DEF One, Two

\* What a message that arrives says of the request.
LEMMA ReceivesFacts ==
    ASSUME TypeOK, InStepInv, NEW r \in Request, NEW type, Receives(r, type)
    PROVE  /\ in_progress[r] \in InProgressRequest /\ client[r] \in ClientState
           /\ from_net[r] \in Seq(Message)
           /\ Stage(in_progress[r], client[r], follow[r], loader[r], from_net[r],
                    target_factory_)
           /\ in_progress[r].target_loader_
           /\ from_net[r] # <<>> /\ Head(from_net[r]).type = type
<1>1. r \in requests_ /\ in_progress[r].proxied_client_receiver_
      /\ from_net[r] # <<>> /\ Head(from_net[r]).type = type
  BY DEF Receives
<1>2. Stage(in_progress[r], client[r], follow[r], loader[r], from_net[r], target_factory_)
  BY <1>1 DEF InStepInv, InStep
<1>3. in_progress[r].target_loader_
  BY <1>1, <1>2 DEF Stage, NetworkSide
<1> QED
  BY <1>1, <1>2, <1>3 DEF TypeOK

\* A response is the first thing a client is told (cc:160-171).
LEMMA ResponseStep ==
    ASSUME TypeOK, InStepInv, NEW r \in Request, OnReceiveResponse(r)
    PROVE  InStepInv'
<1> DEFINE p == in_progress[r]
           c == client[r]
           l == loader[r]
           n == from_net[r]
           q == [p EXCEPT !.ctx_.internal_redirect = FALSE]
           d == ClientOnReceiveResponse(c)
<1>0. Receives(r, "response")
  BY DEF OnReceiveResponse
<1>1. /\ p \in InProgressRequest /\ c \in ClientState /\ n \in Seq(Message)
      /\ Stage(p, c, follow[r], l, n, target_factory_)
      /\ p.target_loader_
      /\ n # <<>> /\ Head(n).type = "response"
  BY <1>0, ReceivesFacts
<1>2. /\ q.request_completed_ = p.request_completed_
      /\ q.target_loader_ = p.target_loader_
      /\ q.proxied_client_receiver_ = p.proxied_client_receiver_
      /\ q.request_ = p.request_
  BY <1>1 DEF InProgressRequest
<1>3. /\ in_progress'[r] = q /\ client'[r] = d /\ follow'[r] = follow[r]
      /\ loader'[r] = l /\ from_net'[r] = Tail(n)
      /\ requests_' = requests_ /\ target_factory_' = target_factory_
  BY DEF OnReceiveResponse, TypeOK, factory_vars
<1> HIDE DEF p, c, l, n, q
<1>4. /\ ~p.request_completed_ /\ c.phase \in {"waiting", "gone"} /\ follow[r] = <<>>
      /\ \/ l.phase \in {"streaming", "dead"} /\ One(n, "response")
         \/ l.phase = "finished" /\ Two(n, "response")
  BY <1>1, TailFacts DEF Stage, ClientSide, NetworkSide, Waits, Untold, Told, One, Two
<1>5. Told(l, Tail(n))
  BY <1>1, <1>4, TailFacts DEF Told
<1>6. /\ d.phase \in {"streaming", "gone"}
      /\ d.phase = "streaming" => c.phase = "waiting" /\ d.url = c.url
  BY <1>1, <1>4 DEF ClientOnReceiveResponse, ClientState
<1> HIDE DEF d
<1>7. NetworkSide(q, d, l, Tail(n), target_factory_)
  BY <1>1, <1>2, <1>4, <1>5, <1>6 DEF Stage, NetworkSide
<1>8. ClientSide(q, d, follow[r]) /\ URLs(q, d, follow[r], l, Tail(n))
  BY <1>1, <1>2, <1>4, <1>6 DEF Stage, ClientSide, URLs
<1>9. InStep(r)'
  BY <1>0, <1>3, <1>7, <1>8 DEF InStep, Stage, Receives
<1> QED
  BY <1>3, <1>9, OtherRequests, {r} \in SUBSET Request DEF OnReceiveResponse, TypeOK

\* A redirect is, too, and leaves the loader waiting (cc:173-182, 379-417).
LEMMA RedirectStep ==
    ASSUME TypeOK, InStepInv, NEW r \in Request, OnReceiveRedirect(r)
    PROVE  InStepInv'
<1> DEFINE p == in_progress[r]
           c == client[r]
           l == loader[r]
           n == from_net[r]
           new_url == Head(n).new_url
           q == ContinueToBeforeRedirect([p EXCEPT !.ctx_.internal_redirect = FALSE],
                                         new_url, Head(n).new_method)
           d == ClientOnReceiveRedirect(c, new_url)
<1>0. Receives(r, "redirect")
  BY DEF OnReceiveRedirect
<1>1. /\ p \in InProgressRequest /\ c \in ClientState /\ n \in Seq(Message)
      /\ Stage(p, c, follow[r], l, n, target_factory_)
      /\ p.target_loader_
      /\ n # <<>> /\ Head(n).type = "redirect"
  BY <1>0, ReceivesFacts
<1>2. /\ q.request_completed_
      /\ q.target_loader_ = p.target_loader_
      /\ q.proxied_client_receiver_ = p.proxied_client_receiver_
      /\ q.request_.url = new_url
  BY <1>1 DEF ContinueToBeforeRedirect, InProgressRequest, ResourceRequest
<1>3. /\ in_progress'[r] = q /\ client'[r] = d /\ follow'[r] = follow[r]
      /\ loader'[r] = l /\ from_net'[r] = Tail(n)
      /\ requests_' = requests_ /\ target_factory_' = target_factory_
  BY DEF OnReceiveRedirect, TypeOK, factory_vars
<1> HIDE DEF p, c, l, n, q
<1>4. /\ ~p.request_completed_ /\ c.phase \in {"waiting", "gone"} /\ follow[r] = <<>>
      /\ \/ l.phase \in {"redirected", "dead"} /\ One(n, "redirect")
         \/ l.phase = "finished" /\ Two(n, "redirect") /\ ~n[2].ok
  BY <1>1, TailFacts DEF Stage, ClientSide, NetworkSide, Waits, Untold, Told, One, Two
<1>5. Waits(l, Tail(n))
  BY <1>1, <1>4, TailFacts DEF Waits
<1>6. /\ d.phase \in {"redirected", "gone"}
      /\ d.phase = "redirected" => d.url = new_url
  BY <1>1, <1>4 DEF ClientOnReceiveRedirect, ClientState
<1>7. l.phase = "redirected" => Tail(n) = <<>> /\ new_url = l.location
  BY <1>1, <1>4, TailFacts DEF Stage, URLs, One
<1>8. l.phase \notin {"loading", "streaming"}
  BY <1>4
<1> HIDE DEF d, new_url
<1>9. NetworkSide(q, d, l, Tail(n), target_factory_)
  BY <1>1, <1>2, <1>5 DEF Stage, NetworkSide
<1>10. ClientSide(q, d, follow[r]) /\ URLs(q, d, follow[r], l, Tail(n))
  BY <1>2, <1>4, <1>6, <1>7, <1>8 DEF ClientSide, URLs, Override
<1>11. InStep(r)'
  BY <1>0, <1>3, <1>9, <1>10 DEF InStep, Stage, Receives
<1> QED
  BY <1>3, <1>11, OtherRequests, {r} \in SUBSET Request DEF OnReceiveRedirect, TypeOK

\* The end of a request leaves nothing of it, if its client is at an end.
LEMMA RemoveStep ==
    ASSUME TypeOK, InStepInv, NEW r \in requests_, RemoveRequest(r),
           client'[r].phase \in {"completed", "disconnected", "gone"},
           \A s \in Request \ {r} : client'[s] = client[s]
    PROVE  InStepInv'
<1>1. r \in Request
  BY DEF TypeOK
<1>2. /\ requests_' = requests_ \ {r} /\ target_factory_' = target_factory_
      /\ follow'[r] = <<>> /\ loader'[r] = NoLoader /\ from_net'[r] = <<>>
  BY <1>1 DEF RemoveRequest, TypeOK, factory_vars
<1>3. InStep(r)'
  BY <1>2 DEF InStep, Over
<1> QED
  BY <1>1, <1>2, <1>3, OtherRequests, {r} \in SUBSET Request DEF RemoveRequest, TypeOK

\* An error ends it with an OnComplete or, while a redirect is unanswered, with
\* nothing but the end of the pipe (cc:435-447).
LEMMA ErrorStep ==
    ASSUME TypeOK, InStepInv, NEW r \in requests_, OnRequestError(r)
    PROVE  /\ InStepInv'
           /\ client'[r].phase = "disconnected" =>
                client[r].phase = "redirected" \/ follow[r] # <<>>
<1> DEFINE p == in_progress[r]
           d == IF p.request_completed_ THEN ClientOnDisconnect(client[r])
                ELSE ClientOnComplete(client[r], FALSE)
<1>1. r \in Request /\ client[r] \in ClientState
  BY DEF TypeOK
<1>2. ClientSide(p, client[r], follow[r]) /\ (p.request_completed_ \/ follow[r] = <<>>)
  BY <1>1 DEF InStepInv, InStep, Stage, ClientSide
<1>3. client' = [client EXCEPT ![r] = d] /\ RemoveRequest(r)
  BY DEF OnRequestError
<1>4. /\ d.phase \in {"completed", "disconnected", "gone"}
      /\ d.phase = "disconnected" => client[r].phase = "redirected" \/ follow[r] # <<>>
  <2>1. CASE p.request_completed_
    <3>1. \/ client[r].phase \in {"redirected", "gone"}
          \/ client[r].phase = "waiting" /\ follow[r] # <<>>
      BY <1>2, <2>1 DEF ClientSide
    <3> QED
      BY <1>1, <2>1, <3>1 DEF ClientOnDisconnect, Ended
  <2>2. CASE ~p.request_completed_
    <3>1. client[r].phase \in {"waiting", "streaming", "gone"}
      BY <1>2, <2>2 DEF ClientSide
    <3> QED
      BY <1>1, <2>2, <3>1 DEF ClientOnComplete, Ended
  <2> QED
    BY <2>1, <2>2
<1> HIDE DEF d
<1>5. client'[r] = d /\ \A s \in Request \ {r} : client'[s] = client[s]
  BY <1>1, <1>3 DEF TypeOK
<1>6. client'[r].phase \in {"completed", "disconnected", "gone"}
  BY <1>4, <1>5
<1>7. InStepInv'
  BY <1>3, <1>5, <1>6, RemoveStep
<1> QED
  BY <1>4, <1>5, <1>7

\* Success ends it only after the response (cc:197-211).
LEMMA CompleteStep ==
    ASSUME TypeOK, InStepInv, NEW r \in Request, OnComplete(r)
    PROVE  /\ InStepInv'
           /\ client'[r].phase = "disconnected" =>
                client[r].phase = "redirected" \/ follow[r] # <<>>
<1> DEFINE p == in_progress[r]
           c == client[r]
           n == from_net[r]
           d == ClientOnComplete(c, TRUE)
<1>0. Receives(r, "complete") /\ r \in requests_
  BY DEF OnComplete, Receives
<1>1. /\ c \in ClientState /\ n \in Seq(Message)
      /\ Stage(p, c, follow[r], loader[r], n, target_factory_)
      /\ p.target_loader_
      /\ n # <<>> /\ Head(n).type = "complete"
  BY <1>0, ReceivesFacts
<1>2. CASE OnRequestError(r)
  BY <1>0, <1>2, ErrorStep
<1>3. CASE Head(n).ok /\ client' = [client EXCEPT ![r] = d] /\ RemoveRequest(r)
  <2>1. c.phase \in {"streaming", "gone"}
    BY <1>1, <1>3, TailFacts
       DEF Stage, ClientSide, NetworkSide, Waits, Untold, Told, One, Two
  <2>2. d.phase \in {"completed", "gone"}
    BY <2>1 DEF ClientOnComplete, Ended
  <2> HIDE DEF d
  <2>3. client'[r] = d /\ \A s \in Request \ {r} : client'[s] = client[s]
    BY <1>3 DEF TypeOK
  <2>4. client'[r].phase \in {"completed", "gone"}
    BY <2>2, <2>3
  <2>5. InStepInv'
    BY <1>0, <1>3, <2>3, <2>4, RemoveStep
  <2> QED
    BY <2>4, <2>5
<1> QED
  BY <1>2, <1>3 DEF OnComplete

\* Restart touches its own request only, and no set of them.
LEMMA RestartOthers ==
    ASSUME NEW r \in Request, NEW p, NEW c, Restart(r, p, c), NEW s \in Request \ {r}, TypeOK
    PROVE  /\ in_progress'[s] = in_progress[s] /\ client'[s] = client[s]
           /\ loader'[s] = loader[s] /\ from_net'[s] = from_net[s]
<1> DEFINE q == Reopen(p)
<1>1. \/ \E url : HandleBeforeRequestRedirect(r, q, c, url)
      \/ ContinueToSendHeaders(r, q, c)
  BY DEF Restart
<1> HIDE DEF q
<1>2. ASSUME NEW url, HandleBeforeRequestRedirect(r, q, c, url)
      PROVE  /\ in_progress'[s] = in_progress[s] /\ client'[s] = client[s]
             /\ loader'[s] = loader[s] /\ from_net'[s] = from_net[s]
  BY <1>2 DEF HandleBeforeRequestRedirect, TypeOK
<1>3. ASSUME ContinueToSendHeaders(r, q, c)
      PROVE  /\ in_progress'[s] = in_progress[s] /\ client'[s] = client[s]
             /\ loader'[s] = loader[s] /\ from_net'[s] = from_net[s]
  BY <1>3 DEF ContinueToSendHeaders, TypeOK
<1> QED
  BY <1>1, <1>2, <1>3

\* A new request has no loader yet (cc:478-497).
LEMMA CreateStep ==
    ASSUME TypeOK, InStepInv, NEW r \in Request, CreateLoaderAndStart(r)
    PROVE  InStepInv'
<1>1. PICK url \in URL, method \in Method, initiator \in Initiator \cup {OpaqueOrigin} :
        Restart(r,
                NewInProgressRequest([ url |-> url, method |-> method,
                                       request_initiator |-> initiator ]),
                [phase |-> "waiting", url |-> url])
  BY DEF CreateLoaderAndStart, Starts
<1> DEFINE p == NewInProgressRequest([ url |-> url, method |-> method,
                                       request_initiator |-> initiator ])
           c == [phase |-> "waiting", url |-> url]
<1>2. /\ p.request_.url = url /\ p.target_loader_ = FALSE
      /\ p.proxied_client_receiver_ = FALSE
      /\ c.phase = "waiting" /\ c.url = url
  BY DEF NewInProgressRequest, Deleted
<1>3. p \in InProgressRequest /\ c \in ClientState
  BY DEF NewInProgressRequest, Deleted, InProgressRequest, ResourceRequest, NewCTX,
         FollowRedirectParams, ClientState, ClientPhase
<1>4. /\ requests_' = requests_ \cup {r} /\ follow' = follow
      /\ target_factory_' = target_factory_ /\ client[r].phase = "idle"
  BY DEF CreateLoaderAndStart, factory_vars
<1>5. Over(client[r], follow[r], loader[r], from_net[r])
  BY <1>4 DEF InStepInv, InStep, Stage, ClientSide
<1> HIDE DEF p, c
<1>6. Restartable(p, c, loader[r], from_net[r])
  BY <1>2, <1>5 DEF Restartable, Over
<1>7. Stage(in_progress'[r], client'[r], <<>>, loader'[r], from_net'[r], target_factory_)
  BY <1>1, <1>3, <1>6, RestartStage DEF p, c
<1>8. InStep(r)'
  BY <1>4, <1>5, <1>7 DEF InStep, Over
<1>9. \A s \in Request \ {r} :
        /\ in_progress'[s] = in_progress[s] /\ client'[s] = client[s]
        /\ loader'[s] = loader[s] /\ from_net'[s] = from_net[s]
  BY <1>1, RestartOthers
<1> QED
  BY <1>4, <1>8, <1>9, OtherRequests, {r} \in SUBSET Request

\* An answer reaches a request that waits for it, and its URL is the one the
\* client and the loader come to agree on (cc:109-133).
LEMMA FollowStep ==
    ASSUME TypeOK, InStepInv, NEW r \in Request, FollowRedirect(r)
    PROVE  InStepInv'
<1> DEFINE q == in_progress[r]
           c == client[r]
           f == follow[r]
           l == loader[r]
           n == from_net[r]
           u == Head(f)
           p == TakeFollowRedirect(q, u)
<1>1. /\ r \in requests_ /\ f # <<>> /\ f \in Seq(URL \cup {GURL})
      /\ q \in InProgressRequest /\ c \in ClientState
      /\ Stage(q, c, f, l, n, target_factory_)
      /\ Restart(r, p, c)
      /\ follow'[r] = Tail(f) /\ \A s \in Request \ {r} : follow'[s] = follow[s]
      /\ requests_' = requests_ /\ target_factory_' = target_factory_
  BY DEF FollowRedirect, TypeOK, InStepInv, InStep, factory_vars
<1>2. u \in URL \cup {GURL}
  BY <1>1
<1>3. /\ p \in InProgressRequest
      /\ p.target_loader_ = q.target_loader_
      /\ p.proxied_client_receiver_ = q.proxied_client_receiver_
      /\ p.request_.url = IF u = GURL THEN q.request_.url ELSE u
      /\ q.target_loader_ => p.pending_follow_redirect_params_ = <<u>>
  BY <1>1, <1>2 DEF TakeFollowRedirect, InProgressRequest, ResourceRequest,
                    FollowRedirectParams
<1> HIDE DEF q, c, f, l, n, p
<1>4. /\ q.request_completed_
      /\ c.phase \in {"waiting", "gone"}
      /\ Tail(f) = <<>>
      /\ Override(f) = u
  <2>1. ClientSide(q, c, f)
    BY <1>1 DEF Stage
  <2>2. q.request_completed_ /\ c.phase \in {"waiting", "gone"} /\ Len(f) <= 1
    BY <1>1, <2>1 DEF ClientSide
  <2>3. Tail(f) = <<>>
    BY <1>1, <2>2
  <2> QED
    BY <1>1, <2>2, <2>3 DEF Override
<1>5. /\ c.phase = "waiting" => c.url = p.request_.url
      /\ p.target_loader_ = p.proxied_client_receiver_
      /\ ~p.target_loader_ => l = NoLoader /\ n = <<>>
  BY <1>1, <1>3, <1>4 DEF Stage, NetworkSide, URLs
<1>6. p.target_loader_ => Waits(l, n) /\ p.pending_follow_redirect_params_ = <<u>>
  BY <1>1, <1>3, <1>4 DEF Stage, NetworkSide
<1>7. p.target_loader_ /\ l.phase = "redirected" =>
        p.request_.url = IF u = GURL THEN l.location ELSE u
  BY <1>1, <1>3, <1>6 DEF Stage, URLs, Waits
<1>8. Head(<<u>>) = u /\ <<u>> # <<>>
  OBVIOUS
<1> HIDE DEF u
<1>9. Restartable(p, c, l, n)
  BY <1>4, <1>5, <1>6, <1>7, <1>8 DEF Restartable
<1>10. Stage(in_progress'[r], client'[r], <<>>, loader'[r], from_net'[r], target_factory_)
  BY <1>1, <1>3, <1>9, RestartStage DEF c, l, n
<1>11. InStep(r)'
  BY <1>1, <1>4, <1>10 DEF InStep
<1>12. \A s \in Request \ {r} :
        /\ in_progress'[s] = in_progress[s] /\ client'[s] = client[s]
        /\ loader'[s] = loader[s] /\ from_net'[s] = from_net[s]
  BY <1>1, RestartOthers
<1> QED
  BY <1>1, <1>11, <1>12, OtherRequests, {r} \in SUBSET Request

\* The client answers, or leaves.
LEMMA ClientStep ==
    ASSUME TypeOK, InStepInv, NEW r \in Request, ClientFollows(r) \/ ClientCloses(r)
    PROVE  InStepInv'
<1> DEFINE p == in_progress[r]
           c == client[r]
           f == follow[r]
           l == loader[r]
           n == from_net[r]
<1>1. /\ c.phase \in {"waiting", "redirected", "streaming"} /\ c \in ClientState
      /\ r \in requests_ /\ Stage(p, c, f, l, n, target_factory_)
  BY DEF ClientFollows, ClientCloses, InStepInv, InStep, Over, TypeOK
<1>2. /\ requests_' = requests_ /\ target_factory_' = target_factory_
      /\ in_progress' = in_progress /\ loader' = loader /\ from_net' = from_net
      /\ \A s \in Request \ {r} : client'[s] = client[s] /\ follow'[s] = follow[s]
  BY DEF ClientFollows, ClientCloses, TypeOK, factory_vars, network_vars
<1> SUFFICES Stage(p, client'[r], follow'[r], l, n, target_factory_)
  <2>1. SUFFICES InStep(r)'
    BY <1>2, OtherRequests, {r} \in SUBSET Request
  <2> QED
    BY <1>1, <1>2 DEF InStep
<1>3. CASE ClientFollows(r)
  <2>1. PICK new_url \in {GURL} \cup {u \in URL : Origin(u) = Origin(client[r].url)} :
          /\ follow' = [follow EXCEPT ![r] = Append(@, new_url)]
          /\ client' = [client EXCEPT ![r] =
               [phase |-> "waiting", url |-> IF new_url = GURL THEN @.url ELSE new_url]]
    BY <1>3 DEF ClientFollows
  <2>2. /\ c.phase = "redirected" /\ p.request_completed_ /\ f = <<>>
        /\ c.url = p.request_.url
    BY <1>1, <1>3 DEF ClientFollows, Stage, ClientSide, URLs, Override
  <2>3. /\ follow'[r] = <<new_url>>
        /\ client'[r] = [phase |-> "waiting", url |-> IF new_url = GURL THEN c.url ELSE new_url]
    BY <2>1, <2>2 DEF TypeOK
  <2>4. Len(<<new_url>>) = 1 /\ Override(<<new_url>>) = new_url
    BY DEF Override
  <2> HIDE DEF p, c, f, l, n
  <2>5. NetworkSide(p, client'[r], l, n, target_factory_)
    BY <1>1, <2>2 DEF Stage, NetworkSide
  <2>6. ClientSide(p, client'[r], follow'[r])
    BY <2>2, <2>3, <2>4 DEF ClientSide
  <2>7. URLs(p, client'[r], follow'[r], l, n)
    BY <1>1, <2>2, <2>3, <2>4 DEF Stage, URLs
  <2> QED
    BY <2>5, <2>6, <2>7 DEF Stage
<1>4. CASE ClientCloses(r)
  <2>1. client'[r].phase = "gone" /\ follow' = follow
    BY <1>4 DEF ClientCloses, Ended, TypeOK
  <2> HIDE DEF p, c, l, n
  <2>2. ClientSide(p, c, f) /\ f \in Seq(URL \cup {GURL})
    BY <1>1 DEF Stage, TypeOK
  <2>3. Len(f) <= 1 /\ (p.request_completed_ \/ f = <<>>)
    <3>1. f = <<>> \/ (p.request_completed_ /\ (Len(f) = 1 \/ Len(f) <= 1))
      BY <2>2, Zenon DEF ClientSide
    <3>2. f = <<>> => Len(f) = 0
      OBVIOUS
    <3>3. f = <<>> \/ Len(f) = 1 \/ Len(f) <= 1
      BY <3>1, Zenon
    <3> HIDE DEF f
    <3>4. Len(f) <= 1
      <4>1. CASE Len(f) = 1
        BY <4>1
      <4>2. CASE f = <<>>
        BY <3>2, <4>2
      <4> QED
        BY <3>3, <4>1, <4>2
    <3>5. p.request_completed_ \/ f = <<>>
      BY <3>1, Zenon
    <3> QED
      BY <3>4, <3>5
  <2> HIDE DEF f
  <2>4. ClientSide(p, client'[r], f)
    BY <2>1, <2>3 DEF ClientSide
  <2>5. NetworkSide(p, client'[r], l, n, target_factory_)
    BY <1>1, <2>1 DEF Stage, NetworkSide
  <2>6. URLs(p, client'[r], f, l, n)
    BY <1>1, <2>1 DEF Stage, URLs
  <2> QED
    BY <2>1, <2>4, <2>5, <2>6 DEF Stage, f
<1> QED
  BY <1>3, <1>4

\* What is on the way once a message more is.
LEMMA AppendFacts ==
    ASSUME NEW n \in Seq(Message), NEW m \in Message
    PROVE  /\ n = <<>> => Len(Append(n, m)) = 1 /\ Append(n, m)[1] = m
           /\ Len(n) = 1 => /\ Len(Append(n, m)) = 2
                            /\ Append(n, m)[1] = n[1] /\ Append(n, m)[2] = m
<1>1. Len(Append(n, m)) = Len(n) + 1 /\ Append(n, m)[Len(n) + 1] = m
  OBVIOUS
<1>2. Len(n) = 1 => Append(n, m)[1] = n[1]
  <2>1. \A i \in 1 .. Len(n) : Append(n, m)[i] = n[i]
    OBVIOUS
  <2> QED
    BY <2>1
<1>3. n = <<>> => Len(n) = 0
  OBVIOUS
<1>4. Len(n) = 1 => Append(n, m)[2] = m
  <2>1. CASE Len(n) = 1
    <3>1. Len(n) + 1 = 2
      BY <2>1
    <3> QED
      BY <1>1, <3>1
  <2> QED
    BY <2>1
<1>5. n = <<>> => Append(n, m)[1] = m
  <2>1. CASE n = <<>>
    <3>1. Len(n) + 1 = 1
      BY <1>3, <2>1
    <3> QED
      BY <1>1, <3>1
  <2> QED
    BY <2>1
<1> QED
  BY <1>1, <1>2, <1>3, <1>4, <1>5

\* A loader that sends something keeps its place in the protocol.
LEMMA LoaderStep ==
    ASSUME TypeOK, InStepInv, NEW r \in Request,
           LoaderRedirects(r) \/ LoaderResponds(r) \/ LoaderCompletes(r) \/ LoaderFails(r)
    PROVE  InStepInv'
<1> DEFINE p == in_progress[r]
           c == client[r]
           l == loader[r]
           n == from_net[r]
<1>1. PICK phase \in LoaderPhase, location \in URL \cup {GURL}, m \in Message :
        /\ LoaderSends(r, phase, location, m)
        /\ \/ l.phase = "loading" /\ phase = "redirected" /\ m.type = "redirect"
                /\ m.new_url = location
           \/ l.phase = "loading" /\ phase = "streaming" /\ m.type = "response"
           \/ l.phase = "streaming" /\ phase = "finished" /\ m.type = "complete"
           \/ l.phase \in {"loading", "redirected", "streaming"} /\ phase = "finished"
                /\ m.type = "complete" /\ ~m.ok
  <2>1. CASE LoaderRedirects(r)
    <3>1. PICK new_url \in URL, new_method \in {p.request_.method, "GET"} :
            LoaderSends(r, "redirected", new_url, Redirect(new_url, new_method))
      BY <2>1 DEF LoaderRedirects
    <3>2. p.request_.method \in Method \cup {"GET"}
      BY DEF TypeOK, InProgressRequest, ResourceRequest, Deleted
    <3>3. Redirect(new_url, new_method) \in Message
      BY <3>1, <3>2, MessageFacts
    <3> QED
      BY <2>1, <3>1, <3>3 DEF LoaderRedirects, LoaderPhase, Redirect
  <2>2. CASE LoaderResponds(r)
    BY <2>2, MessageFacts DEF LoaderResponds, LoaderPhase, Response
  <2>3. CASE LoaderCompletes(r)
    BY <2>3, MessageFacts DEF LoaderCompletes, LoaderPhase, Complete
  <2>4. CASE LoaderFails(r)
    BY <2>4, MessageFacts DEF LoaderFails, LoaderPhase, Complete
  <2> QED
    BY <2>1, <2>2, <2>3, <2>4
<1>2. /\ r \in requests_ /\ n \in Seq(Message) /\ l \in LoaderState
      /\ Stage(p, c, follow[r], l, n, target_factory_)
  BY <1>1 DEF InStepInv, InStep, Over, NoLoader, TypeOK
<1>3. /\ requests_' = requests_ /\ target_factory_' = target_factory_
      /\ in_progress' = in_progress /\ client' = client /\ follow' = follow
      /\ loader'[r] = [l EXCEPT !.phase = phase, !.location = location]
      /\ from_net'[r] = Append(n, m)
      /\ \A s \in Request \ {r} : loader'[s] = loader[s] /\ from_net'[s] = from_net[s]
  BY <1>1 DEF LoaderSends, TypeOK, factory_vars
<1>4. SUFFICES Stage(p, c, follow[r], loader'[r], from_net'[r], target_factory_)
  <2>1. SUFFICES InStep(r)'
    BY <1>3, OtherRequests, {r} \in SUBSET Request
  <2> QED
    BY <1>2, <1>3 DEF InStep
<1>5. /\ loader'[r].phase = phase /\ loader'[r].location = location /\ loader'[r].url = l.url
  BY <1>2, <1>3 DEF LoaderState
<1>6. p.target_loader_
  BY <1>1, <1>2 DEF Stage, NetworkSide, NoLoader
<1> HIDE DEF p, c, l, n
<1>7. CASE p.request_completed_
  <2>1. /\ l.phase = "redirected" /\ n = <<>>
        /\ phase = "finished" /\ m.type = "complete" /\ ~m.ok
    BY <1>1, <1>2, <1>6, <1>7 DEF Stage, NetworkSide, Waits
  <2>2. One(from_net'[r], "complete") /\ ~from_net'[r][1].ok
    BY <1>1, <1>2, <1>3, <2>1, AppendFacts DEF One
  <2>3. NetworkSide(p, c, loader'[r], from_net'[r], target_factory_)
    BY <1>2, <1>5, <1>6, <1>7, <2>1, <2>2 DEF Stage, NetworkSide, Waits
  <2>4. URLs(p, c, follow[r], loader'[r], from_net'[r])
    BY <1>2, <1>5, <2>1 DEF Stage, URLs
  <2> QED
    BY <1>2, <2>3, <2>4 DEF Stage
<1>8. CASE ~p.request_completed_
  <2>1. ASSUME Untold(l, n)
        PROVE  Untold(loader'[r], from_net'[r])
    <3>1. CASE l.phase = "loading"
      <4>1. n = <<>>
        BY <2>1, <3>1 DEF Untold
      <4>2. One(from_net'[r], m.type) /\ from_net'[r][1] = m
        BY <1>1, <1>2, <1>3, <4>1, AppendFacts DEF One
      <4> QED
        BY <1>1, <1>5, <3>1, <4>2 DEF Untold
    <3>2. CASE l.phase # "loading"
      <4>1. /\ phase = "finished" /\ m.type = "complete"
            /\ \/ l.phase = "redirected" /\ One(n, "redirect") /\ ~m.ok
               \/ l.phase = "streaming" /\ One(n, "response")
        BY <1>1, <2>1, <3>2 DEF Untold
      <4>2. \A type : One(n, type) =>
              Two(from_net'[r], type) /\ from_net'[r][2] = m
        BY <1>2, <1>3, <4>1, AppendFacts DEF One, Two
      <4> QED
        BY <1>5, <4>1, <4>2 DEF Untold
    <3> QED
      BY <3>1, <3>2
  <2>2. ASSUME Told(l, n)
        PROVE  Told(loader'[r], from_net'[r])
    <3>1. n = <<>> /\ phase = "finished" /\ m.type = "complete"
      BY <1>1, <2>2 DEF Told
    <3>2. One(from_net'[r], "complete")
      BY <1>2, <1>3, <3>1, AppendFacts DEF One
    <3> QED
      BY <1>5, <3>1, <3>2 DEF Told
  <2>3. NetworkSide(p, c, loader'[r], from_net'[r], target_factory_)
    BY <1>2, <1>6, <1>8, <2>1, <2>2 DEF Stage, NetworkSide
  <2>4. /\ phase \in {"redirected", "streaming"} => p.request_.url = l.url
        /\ phase = "redirected" => from_net'[r] # <<>> /\ from_net'[r][1].new_url = location
    <3>1. CASE phase \in {"redirected", "streaming"}
      <4>1. l.phase = "loading"
        BY <1>1, <3>1
      <4>2. n = <<>>
        BY <1>2, <1>6, <1>8, <4>1 DEF Stage, NetworkSide, Untold, Told
      <4>3. One(from_net'[r], m.type) /\ from_net'[r][1] = m
        BY <1>1, <1>2, <1>3, <4>2, AppendFacts DEF One
      <4>4. from_net'[r] # <<>>
        BY <4>3 DEF One
      <4> QED
        BY <1>1, <1>2, <3>1, <4>1, <4>3, <4>4 DEF Stage, URLs
    <3> QED
      BY <3>1
  <2>5. URLs(p, c, follow[r], loader'[r], from_net'[r])
    BY <1>1, <1>2, <1>5, <2>4 DEF Stage, URLs
  <2> QED
    BY <1>2, <2>3, <2>5 DEF Stage
<1> QED
  BY <1>7, <1>8

\* A crash leaves what was sent on the way.
LEMMA DeathStep ==
    ASSUME TypeOK, InStepInv, NetworkServiceDies
    PROVE  InStepInv'
<1> SUFFICES ASSUME NEW r \in Request
             PROVE  InStep(r)'
  BY DEF InStepInv
<1> DEFINE p == in_progress[r]
           c == client[r]
           l == loader[r]
           n == from_net[r]
           k == loader'[r]
<1>1. /\ requests_' = requests_ /\ target_factory_' = target_factory_
      /\ in_progress' = in_progress /\ client' = client /\ follow' = follow
      /\ from_net' = from_net
      /\ k = IF l.phase \in {"loading", "redirected", "streaming"}
             THEN [l EXCEPT !.phase = "dead", !.location = GURL]
             ELSE l
  BY DEF NetworkServiceDies, factory_vars
<1>2. l \in LoaderState /\ InStep(r)
  BY DEF TypeOK, InStepInv
<1>3. CASE r \notin requests_
  BY <1>1, <1>2, <1>3 DEF InStep, Over, NoLoader
<1>4. CASE r \in requests_
  <2> HIDE DEF p, c, n, k, l
  <2>1. Stage(p, c, follow[r], l, n, target_factory_)
    BY <1>2, <1>4 DEF InStep, p, c, n, l
  <2>2. k = l \/ (k.phase = "dead" /\ l.phase \in {"loading", "redirected", "streaming"})
    BY <1>1, <1>2 DEF LoaderState
  <2>3. CASE k = l
    BY <1>1, <1>4, <2>1, <2>3 DEF InStep, p, c, n, k, l
  <2>4. CASE k.phase = "dead" /\ l.phase \in {"loading", "redirected", "streaming"}
    <3>1. p.target_loader_
      BY <2>1, <2>4 DEF Stage, NetworkSide, NoLoader
    <3>2. /\ Waits(l, n) => Waits(k, n)
          /\ Untold(l, n) => Untold(k, n)
          /\ Told(l, n) => Told(k, n)
      BY <2>4 DEF Waits, Untold, Told
    <3>3. NetworkSide(p, c, k, n, target_factory_)
      BY <2>1, <3>1, <3>2 DEF Stage, NetworkSide
    <3>4. URLs(p, c, follow[r], k, n)
      BY <2>1, <2>4 DEF Stage, URLs
    <3>5. Stage(p, c, follow[r], k, n, target_factory_)
      BY <2>1, <3>3, <3>4 DEF Stage
    <3> QED
      BY <1>1, <1>4, <3>5 DEF InStep, p, c, n, k
  <2> QED
    BY <2>2, <2>3, <2>4
<1> QED
  BY <1>3, <1>4

-----------------------------------------------------------------------------
\* The handlers of the factory and the steps of the rest of the world.

\* The factory may lose its target while a request waits; nothing else of a
\* request changes (cc:499-537).
LEMMA FactoryStep ==
    ASSUME TypeOK, InStepInv,
           FactoryHandler \/ TrackingBlockerChanges \/ DidFinishNavigation
    PROVE  InStepInv' /\ client' = client
<1>1. /\ in_progress' = in_progress /\ client' = client /\ follow' = follow
      /\ loader' = loader /\ from_net' = from_net /\ requests_' = requests_
      /\ target_factory_' => target_factory_
  <2>1. CASE Clone
    BY <2>1 DEF Clone, network_vars
  <2>2. CASE OnProxyBindingError
    BY <2>2, Zenon DEF OnProxyBindingError, network_vars
  <2>3. CASE OnTargetFactoryError
    BY <2>3 DEF OnTargetFactoryError, network_vars
  <2>4. CASE TrackingBlockerChanges
    BY <2>4 DEF TrackingBlockerChanges, factory_vars, network_vars
  <2>5. CASE DidFinishNavigation
    BY <2>5 DEF DidFinishNavigation, factory_vars, network_vars
  <2> QED
    BY <2>1, <2>2, <2>3, <2>4, <2>5 DEF FactoryHandler
<1> QED
  BY <1>1, OtherRequests, {} \in SUBSET Request

\* The invariant holds at first.
LEMMA InitInStep == Init => InStepInv
BY DEF Init, InStepInv, InStep, Over, Ended

\* Every step keeps it.
LEMMA NextInStep == TypeOK /\ InStepInv /\ [Next]_vars => InStepInv'
<1> SUFFICES ASSUME TypeOK, InStepInv, [Next]_vars
             PROVE  InStepInv'
  OBVIOUS
<1>1. ASSUME NEW r \in Request, CreateLoaderAndStart(r)
      PROVE  InStepInv'
  BY <1>1, CreateStep
<1>2. ASSUME NEW r \in Request, RequestHandler(r)
      PROVE  InStepInv'
  <2>1. CASE FollowRedirect(r)
    BY <2>1, FollowStep
  <2>2. CASE OnClientDisconnect(r)
    BY <2>2, ErrorStep DEF OnClientDisconnect
  <2>3. CASE OnReceiveResponse(r)
    BY <2>3, ResponseStep
  <2>4. CASE OnReceiveRedirect(r)
    BY <2>4, RedirectStep
  <2>5. CASE OnComplete(r)
    BY <2>5, CompleteStep
  <2> QED
    BY <1>2, <2>1, <2>2, <2>3, <2>4, <2>5 DEF RequestHandler
<1>3. CASE FactoryHandler
  BY <1>3, FactoryStep
<1>4. CASE Environment
  <2>1. ASSUME NEW r \in Request,
               \/ ClientFollows(r) \/ ClientCloses(r) \/ LoaderRedirects(r)
               \/ LoaderResponds(r) \/ LoaderCompletes(r) \/ LoaderFails(r)
        PROVE  InStepInv'
    BY <2>1, ClientStep, LoaderStep
  <2>2. CASE NetworkServiceDies
    BY <2>2, DeathStep
  <2>3. CASE TrackingBlockerChanges \/ DidFinishNavigation
    BY <2>3, FactoryStep
  <2> QED
    BY <1>4, <2>1, <2>2, <2>3 DEF Environment
<1>5. CASE UNCHANGED vars
  BY <1>5, OtherRequests, {} \in SUBSET Request DEF vars, factory_vars, network_vars
<1> QED
  BY <1>1, <1>2, <1>3, <1>4, <1>5 DEF Next

\* Where the requests are, for every set of them.
LEMMA AlwaysInStep == Spec => [](TypeOK /\ InStepInv)
<1>1. TypeOK /\ InStepInv /\ [Next]_vars => (TypeOK /\ InStepInv)'
  BY NextType, NextInStep
<1> QED
  BY <1>1, InitType, InitInStep, PTL DEF Spec

-----------------------------------------------------------------------------
\* What follows from it.

\* No client is told what its load cannot be, nor has two answers on the way
\* (cc:160-211, 213-262, 366-417).
THEOREM ClientCorrect == Spec => []ClientContract
<1>1. TypeOK /\ InStepInv => ClientContract
  <2> SUFFICES ASSUME TypeOK, InStepInv, NEW r \in Request
               PROVE  client[r].phase # "broken" /\ Len(follow[r]) <= 1
    BY DEF ClientContract
  <2>1. Len(<<>>) <= 1 /\ (follow[r] = <<>> \/ Len(follow[r]) = 1 \/ Len(follow[r]) <= 1)
    BY DEF InStepInv, InStep, Stage, ClientSide, Over
  <2>2. client[r].phase # "broken"
    BY DEF InStepInv, InStep, Stage, ClientSide, Over
  <2>3. Len(follow[r]) <= 1
    <3>1. CASE Len(follow[r]) = 1
      BY <3>1
    <3>2. CASE follow[r] = <<>>
      BY <2>1, <3>2
    <3> QED
      BY <2>1, <3>1, <3>2
  <2> QED
    BY <2>2, <2>3
<1> QED
  BY <1>1, AlwaysInStep, PTL

\* FollowRedirect is only ever sent to a loader that waits for it (cc:333-357).
THEOREM LoaderCorrect == Spec => []LoaderContract
<1>1. TypeOK /\ InStepInv => LoaderContract
  BY DEF LoaderContract, InStepInv, InStep, Stage, NetworkSide, Over, Waits, Untold, Told,
         NoLoader
<1> QED
  BY <1>1, AlwaysInStep, PTL

\* The client, the proxy and the network service agree on the URL
\* (cc:109-133, 313-316, 348-354, 398).
THEOREM URLCorrect == Spec => []URLAgreement
<1>1. TypeOK /\ InStepInv => URLAgreement
  BY DEF URLAgreement, InStepInv, InStep, Stage, URLs, Override, TypeOK
<1> QED
  BY <1>1, AlwaysInStep, PTL

\* A request has no loader only while it is parked or stranded, and nothing is
\* left of the one it had (cc:213-262, 309-318).
THEOREM ParkedCorrect == Spec => []NoLoaderMeansParked
<1>1. TypeOK /\ InStepInv => NoLoaderMeansParked
  BY DEF NoLoaderMeansParked, InStepInv, InStep, Stage, NetworkSide, TypeOK, Waits, Untold,
         Told
<1> QED
  BY <1>1, AlwaysInStep, PTL

\* A step that is not the end of a request tells no client of a silent end.
LEMMA RestartIsNoEnd ==
    ASSUME TypeOK, NEW r \in Request, NEW p, NEW c \in ClientState,
           c.phase # "disconnected", Restart(r, p, c)
    PROVE  client'[r].phase # "disconnected"
<1>1. ASSUME NEW url PROVE ClientOnReceiveRedirect(c, url).phase # "disconnected"
  BY DEF ClientOnReceiveRedirect, ClientState
<1>2. ASSUME NEW q, NEW url, HandleBeforeRequestRedirect(r, q, c, url)
      PROVE  client'[r].phase # "disconnected"
  BY <1>1, <1>2 DEF HandleBeforeRequestRedirect, TypeOK
<1>3. ASSUME NEW q, ContinueToSendHeaders(r, q, c)
      PROVE  client'[r].phase # "disconnected"
  BY <1>3 DEF ContinueToSendHeaders, TypeOK
<1> QED
  BY <1>2, <1>3 DEF Restart

EndsSilently(r) == client'[r].phase = "disconnected" /\ client[r].phase # "disconnected"

Answering(r) == client[r].phase = "redirected" \/ follow[r] # <<>>

LEMMA NextSilentEnd ==
    TypeOK /\ InStepInv /\ [Next]_vars => \A r \in Request : EndsSilently(r) => Answering(r)
<1> SUFFICES ASSUME TypeOK, InStepInv, [Next]_vars, NEW r \in Request, EndsSilently(r)
             PROVE  Answering(r)
  OBVIOUS
<1>0. client[r] \in ClientState /\ client[r].phase # "disconnected"
  BY DEF TypeOK, EndsSilently
<1>1. ASSUME client'[r] = client[r]
      PROVE  FALSE
  BY <1>1 DEF EndsSilently
<1>2. ASSUME NEW s \in Request, CreateLoaderAndStart(s)
      PROVE  Answering(r)
  <2>1. PICK url \in URL, method \in Method, initiator \in Initiator \cup {OpaqueOrigin} :
          Restart(s,
                  NewInProgressRequest([ url |-> url, method |-> method,
                                         request_initiator |-> initiator ]),
                  [phase |-> "waiting", url |-> url])
    BY <1>2 DEF CreateLoaderAndStart, Starts
  <2>2. CASE s # r
    BY <1>1, <2>1, <2>2, RestartOthers
  <2>3. CASE s = r
    <3>1. [phase |-> "waiting", url |-> url] \in ClientState
      BY DEF ClientState, ClientPhase
    <3> QED
      BY <2>1, <2>3, <3>1, RestartIsNoEnd DEF EndsSilently
  <2> QED
    BY <2>2, <2>3
<1>3. ASSUME NEW s \in Request, RequestHandler(s)
      PROVE  Answering(r)
  <2>1. CASE FollowRedirect(s)
    <3>1. Restart(s, TakeFollowRedirect(in_progress[s], Head(follow[s])), client[s])
      BY <2>1 DEF FollowRedirect
    <3>2. CASE s # r
      BY <1>1, <3>1, <3>2, RestartOthers
    <3>3. CASE s = r
      BY <1>0, <3>1, <3>3, RestartIsNoEnd DEF EndsSilently
    <3> QED
      BY <3>2, <3>3
  <2>2. CASE OnClientDisconnect(s)
    <3>1. s \in requests_ /\ OnRequestError(s)
      BY <2>2 DEF OnClientDisconnect
    <3>2. s = r \/ client'[r] = client[r]
      BY <3>1 DEF OnRequestError, TypeOK
    <3> QED
      BY <1>1, <3>1, <3>2, ErrorStep DEF EndsSilently, Answering
  <2>3. CASE OnReceiveResponse(s)
    <3>1. client'[r] = IF s = r THEN ClientOnReceiveResponse(client[r]) ELSE client[r]
      BY <2>3 DEF OnReceiveResponse, TypeOK
    <3>2. ClientOnReceiveResponse(client[r]).phase # "disconnected"
      BY <1>0 DEF ClientOnReceiveResponse, ClientState
    <3> QED
      BY <1>1, <3>1, <3>2 DEF EndsSilently
  <2>4. CASE OnReceiveRedirect(s)
    <3>1. client'[r] = IF s = r
                       THEN ClientOnReceiveRedirect(client[r], Head(from_net[r]).new_url)
                       ELSE client[r]
      BY <2>4 DEF OnReceiveRedirect, TypeOK
    <3>2. ClientOnReceiveRedirect(client[r], Head(from_net[r]).new_url).phase
            # "disconnected"
      BY <1>0 DEF ClientOnReceiveRedirect, ClientState
    <3> QED
      BY <1>1, <3>1, <3>2 DEF EndsSilently
  <2>5. CASE OnComplete(s)
    <3>1. s = r \/ client'[r] = client[r]
      BY <2>5 DEF OnComplete, OnRequestError, TypeOK
    <3> QED
      BY <1>1, <2>5, <3>1, CompleteStep DEF EndsSilently, Answering
  <2> QED
    BY <1>3, <2>1, <2>2, <2>3, <2>4, <2>5 DEF RequestHandler
<1>4. CASE FactoryHandler
  BY <1>1, <1>4, FactoryStep
<1>5. CASE Environment
  <2>1. ASSUME NEW s \in Request, ClientFollows(s) \/ ClientCloses(s)
        PROVE  Answering(r)
    <3>1. client'[r] = client[r] \/ client'[r].phase \in {"waiting", "gone"}
      BY <2>1 DEF ClientFollows, ClientCloses, Ended, TypeOK
    <3> QED
      BY <1>1, <3>1 DEF EndsSilently
  <2>2. ASSUME NEW s \in Request,
               \/ LoaderRedirects(s) \/ LoaderResponds(s)
               \/ LoaderCompletes(s) \/ LoaderFails(s)
        PROVE  Answering(r)
    <3>1. client' = client
      BY <2>2 DEF LoaderRedirects, LoaderResponds, LoaderCompletes, LoaderFails, LoaderSends
    <3> QED
      BY <1>1, <3>1
  <2>3. CASE NetworkServiceDies
    BY <1>1, <2>3 DEF NetworkServiceDies
  <2>4. CASE TrackingBlockerChanges \/ DidFinishNavigation
    BY <1>1, <2>4, FactoryStep
  <2> QED
    BY <1>5, <2>1, <2>2, <2>3, <2>4 DEF Environment
<1>6. CASE UNCHANGED vars
  BY <1>1, <1>6 DEF vars
<1> QED
  BY <1>2, <1>3, <1>4, <1>5, <1>6 DEF Next

\* A client loses its pipe without a word only while it has a redirect to
\* answer, or its answer is on the way (cc:435-447).
THEOREM SilentEndCorrect == Spec => SilentEndOnlyAtRedirect
<1>1. TypeOK /\ InStepInv /\ [Next]_vars =>
        [ \A r \in Request :
            (client'[r].phase = "disconnected" /\ client[r].phase # "disconnected")
            => client[r].phase = "redirected" \/ follow[r] # <<>> ]_vars
  BY NextSilentEnd DEF EndsSilently, Answering
<1> QED
  BY <1>1, AlwaysInStep, PTL DEF Spec, SilentEndOnlyAtRedirect

-----------------------------------------------------------------------------
\* What goes on the wire, and what the tab's record says of it.

\* The two ends of Restart, in what they leave of the request (cc:91-107,
\* 213-262, 309-357).
LEMMA RestartCases ==
    ASSUME TypeOK, NEW r \in Request, NEW p \in InProgressRequest, NEW c,
           Restart(r, p, c)
    PROVE  LET url == OnBeforeURLRequest_SiteHacksWork(
                        MakeCTX(p.request_, tracking_blocker_enabled, p.ctx_))
               next == in_progress'[r]
           IN \/ /\ next.request_completed_ /\ next.target_loader_ = FALSE
                 /\ next.ctx_.redirect_source = GURL
                 /\ loader'[r] = NoLoader
                 /\ shields_data_controller' = Report(p.request_.url, url)
              \/ /\ url = GURL
                 /\ next.request_completed_ = FALSE
                 /\ next.ctx_ = p.ctx_ /\ next.request_ = p.request_
                 /\ next.target_loader_ <=> (p.target_loader_ \/ StartsLoader(p))
                 /\ loader'[r] = ToLoader(p, loader[r])
<1> DEFINE url == OnBeforeURLRequest_SiteHacksWork(
                    MakeCTX(p.request_, tracking_blocker_enabled, p.ctx_))
           q == Reopen(p)
           next == in_progress'[r]
<1>1. /\ q \in InProgressRequest /\ ~q.request_completed_
      /\ q.request_ = p.request_ /\ q.ctx_ = p.ctx_ /\ q.target_loader_ = p.target_loader_
      /\ q.pending_follow_redirect_params_ = p.pending_follow_redirect_params_
  BY DEF Reopen, InProgressRequest
<1> HIDE DEF url, q
<1>2. CASE /\ HandleBeforeRequestRedirect(r, q, c, url)
           /\ shields_data_controller' = Report(p.request_.url, url)
  <2> DEFINE b == Tainted(q.request_, url)
             s == [ CloseLoader(q) EXCEPT
                      !.ctx_.internal_redirect = TRUE,
                      !.request_.request_initiator = IF b THEN OpaqueOrigin ELSE @ ]
  <2>1. next = ContinueToBeforeRedirect(s, url, q.request_.method) /\ loader'[r] = NoLoader
    BY <1>2 DEF HandleBeforeRequestRedirect, TypeOK
  <2>2. /\ s.ctx_.internal_redirect /\ s.target_loader_ = FALSE
        /\ DOMAIN s = DOMAIN q /\ DOMAIN s.ctx_ = DOMAIN q.ctx_
    BY <1>1 DEF CloseLoader, InProgressRequest
  <2> HIDE DEF s
  <2>3. /\ next.request_completed_ /\ next.target_loader_ = FALSE
        /\ next.ctx_.redirect_source = GURL
    BY <1>1, <2>1, <2>2 DEF ContinueToBeforeRedirect, RedirectSource, InProgressRequest
  <2> QED
    BY <1>2, <2>1, <2>3 DEF url
<1>3. CASE url = GURL /\ ContinueToSendHeaders(r, q, c)
  <2>1. /\ next = [ q EXCEPT !.pending_follow_redirect_params_ = <<>>,
                             !.target_loader_ = @ \/ StartsLoader(q),
                             !.proxied_client_receiver_ = @ \/ StartsLoader(q) ]
        /\ loader'[r] = ToLoader(q, loader[r])
    BY <1>3 DEF ContinueToSendHeaders, TypeOK
  <2>2. StartsLoader(q) = StartsLoader(p) /\ ToLoader(q, loader[r]) = ToLoader(p, loader[r])
    BY <1>1 DEF StartsLoader, ToLoader
  <2>3. /\ next.request_completed_ = FALSE
        /\ next.ctx_ = p.ctx_ /\ next.request_ = p.request_
        /\ next.target_loader_ <=> (p.target_loader_ \/ StartsLoader(p))
    BY <1>1, <2>1, <2>2 DEF InProgressRequest
  <2> QED
    BY <1>3, <2>1, <2>2, <2>3 DEF url
<1> QED
  BY <1>2, <1>3 DEF Restart, url, q

\* The URL a request came from, as its context has it: none after an internal
\* redirect, and the loader's while that waits for an answer.
SourceOf(p, l) ==
    /\ p.ctx_.internal_redirect => p.ctx_.redirect_source = GURL
    /\ ~p.target_loader_ => p.ctx_.redirect_source = GURL
    /\ p.target_loader_ /\ p.request_completed_ /\ l.phase = "redirected"
         => p.ctx_.redirect_source = l.url /\ l.url # GURL

SourceInv == \A r \in requests_ : SourceOf(in_progress[r], loader[r])

\* Nothing of it is lost when a request and its loader stay as they are, or the
\* loader leaves "redirected".
LEMMA SourceKept ==
    ASSUME SourceInv, NEW R \in SUBSET Request, requests_' \subseteq requests_ \cup R,
           \A s \in requests_ \ R :
             /\ in_progress'[s] = in_progress[s]
             /\ \/ loader'[s] = loader[s]
                \/ loader'[s].phase # "redirected",
           \A s \in R \cap requests_' : SourceOf(in_progress'[s], loader'[s])
    PROVE  SourceInv'
<1> SUFFICES ASSUME NEW s \in requests_'
             PROVE  SourceOf(in_progress'[s], loader'[s])
  BY DEF SourceInv
<1>1. CASE s \in R
  BY <1>1
<1>2. CASE s \notin R
  BY <1>2 DEF SourceInv, SourceOf
<1> QED
  BY <1>1, <1>2

\* A new request comes from nowhere, and Restart leaves what it finds or
\* starts anew (cc:91-107, 213-262).
LEMMA RestartSource ==
    ASSUME TypeOK, NEW r \in Request, NEW p \in InProgressRequest, NEW c,
           Restart(r, p, c), p.ctx_.internal_redirect => p.ctx_.redirect_source = GURL,
           ~p.target_loader_ => p.ctx_.redirect_source = GURL
    PROVE  SourceOf(in_progress'[r], loader'[r])
BY RestartCases DEF SourceOf

\* A redirect of the server is noted with the URL of the loader that met it
\* (cc:398).
LEMMA RedirectSourceNoted ==
    ASSUME TypeOK, InStepInv, SourceInv, NEW r \in Request, OnReceiveRedirect(r)
    PROVE  SourceOf(in_progress'[r], loader'[r])
<1> DEFINE p == in_progress[r]
           l == loader[r]
           n == from_net[r]
           o == [p EXCEPT !.ctx_.internal_redirect = FALSE]
           q == ContinueToBeforeRedirect(o, Head(n).new_url, Head(n).new_method)
<1>1. Receives(r, "redirect")
  BY DEF OnReceiveRedirect
<1>2. /\ p \in InProgressRequest /\ n \in Seq(Message)
      /\ Stage(p, client[r], follow[r], l, n, target_factory_)
      /\ p.target_loader_ /\ n # <<>>
  BY <1>1, ReceivesFacts
<1>3. in_progress'[r] = q /\ loader'[r] = l
  BY DEF OnReceiveRedirect, TypeOK
<1>4. /\ q.ctx_.redirect_source = p.request_.url
      /\ q.ctx_.internal_redirect = FALSE
      /\ q.target_loader_
  BY <1>2 DEF ContinueToBeforeRedirect, RedirectSource, InProgressRequest, ResourceRequest
<1>5. l.phase = "redirected" => p.request_.url = l.url
  BY <1>2 DEF Stage, URLs
<1>6. p.request_.url # GURL
  BY <1>2, URLAssumption DEF InProgressRequest, ResourceRequest
<1> QED
  BY <1>3, <1>4, <1>5, <1>6 DEF SourceOf

\* A loader that sends something is where it says, and the rest stays.
LEMMA SendsPhase ==
    ASSUME TypeOK, NEW r \in Request, NEW phase, NEW location, NEW message,
           LoaderSends(r, phase, location, message)
    PROVE  /\ loader'[r].phase = phase /\ loader'[r].url = loader[r].url
           /\ \A s \in Request \ {r} : loader'[s] = loader[s]
           /\ in_progress' = in_progress /\ requests_' = requests_
BY DEF LoaderSends, TypeOK, LoaderState

\* SourceInv holds at first and every step keeps it.
LEMMA InitSource == Init => SourceInv
BY DEF Init, SourceInv

LEMMA NextSource == TypeOK /\ InStepInv /\ SourceInv /\ [Next]_vars => SourceInv'
<1> SUFFICES ASSUME TypeOK, InStepInv, SourceInv, [Next]_vars
             PROVE  SourceInv'
  OBVIOUS
<1>1. ASSUME NEW r \in Request, CreateLoaderAndStart(r)
      PROVE  SourceInv'
  <2>1. PICK url \in URL, method \in Method, initiator \in Initiator \cup {OpaqueOrigin} :
          Restart(r,
                  NewInProgressRequest([ url |-> url, method |-> method,
                                         request_initiator |-> initiator ]),
                  [phase |-> "waiting", url |-> url])
    BY <1>1 DEF CreateLoaderAndStart, Starts
  <2> DEFINE p == NewInProgressRequest([ url |-> url, method |-> method,
                                         request_initiator |-> initiator ])
  <2>2. p \in InProgressRequest /\ p.ctx_.redirect_source = GURL
    BY DEF NewInProgressRequest, Deleted, InProgressRequest, ResourceRequest, NewCTX,
           FollowRedirectParams
  <2> HIDE DEF p
  <2>3. SourceOf(in_progress'[r], loader'[r])
    BY <2>1, <2>2, RestartSource DEF p
  <2>4. \A s \in Request \ {r} : in_progress'[s] = in_progress[s] /\ loader'[s] = loader[s]
    BY <2>1, RestartOthers
  <2>5. requests_' = requests_ \cup {r} /\ requests_ \subseteq Request
    BY <1>1 DEF CreateLoaderAndStart, TypeOK
  <2> QED
    BY <2>3, <2>4, <2>5, SourceKept, {r} \in SUBSET Request
<1>2. ASSUME NEW r \in Request, FollowRedirect(r)
      PROVE  SourceInv'
  <2> DEFINE u == Head(follow[r])
             p == TakeFollowRedirect(in_progress[r], u)
  <2>1. /\ r \in requests_ /\ Restart(r, p, client[r]) /\ requests_' = requests_
        /\ in_progress[r] \in InProgressRequest /\ u \in URL \cup {GURL}
        /\ SourceOf(in_progress[r], loader[r])
    BY <1>2 DEF FollowRedirect, TypeOK, SourceInv
  <2>2. /\ p \in InProgressRequest /\ p.ctx_ = in_progress[r].ctx_
        /\ p.target_loader_ = in_progress[r].target_loader_
    BY <2>1 DEF TakeFollowRedirect, InProgressRequest, ResourceRequest, FollowRedirectParams
  <2> HIDE DEF p
  <2>3. SourceOf(in_progress'[r], loader'[r])
    BY <2>1, <2>2, RestartSource DEF SourceOf
  <2>4. \A s \in Request \ {r} : in_progress'[s] = in_progress[s] /\ loader'[s] = loader[s]
    BY <2>1, RestartOthers
  <2> QED
    BY <2>1, <2>3, <2>4, SourceKept, {r} \in SUBSET Request DEF TypeOK
<1>3. ASSUME NEW r \in Request, OnClientDisconnect(r) \/ OnComplete(r)
      PROVE  SourceInv'
  <2>1. RemoveRequest(r)
    BY <1>3 DEF OnClientDisconnect, OnComplete, OnRequestError
  <2>2. /\ requests_' = requests_ \ {r}
        /\ \A s \in Request \ {r} : in_progress'[s] = in_progress[s] /\ loader'[s] = loader[s]
    BY <2>1 DEF RemoveRequest, TypeOK
  <2> QED
    BY <2>2, SourceKept, {r} \in SUBSET Request DEF TypeOK
<1>4. ASSUME NEW r \in Request, OnReceiveResponse(r)
      PROVE  SourceInv'
  <2>1. /\ r \in requests_ /\ in_progress[r] \in InProgressRequest
        /\ SourceOf(in_progress[r], loader[r])
    BY <1>4 DEF OnReceiveResponse, Receives, TypeOK, SourceInv
  <2>2. /\ in_progress'[r] = [in_progress[r] EXCEPT !.ctx_.internal_redirect = FALSE]
        /\ requests_' = requests_ /\ loader' = loader
        /\ \A s \in Request \ {r} : in_progress'[s] = in_progress[s]
    BY <1>4 DEF OnReceiveResponse, TypeOK
  <2>3. SourceOf(in_progress'[r], loader'[r])
    BY <2>1, <2>2 DEF SourceOf, InProgressRequest
  <2> QED
    BY <2>2, <2>3, SourceKept, {r} \in SUBSET Request DEF TypeOK
<1>5. ASSUME NEW r \in Request, OnReceiveRedirect(r)
      PROVE  SourceInv'
  <2>1. /\ requests_' = requests_ /\ loader' = loader
        /\ \A s \in Request \ {r} : in_progress'[s] = in_progress[s]
    BY <1>5 DEF OnReceiveRedirect, TypeOK
  <2> QED
    BY <1>5, <2>1, RedirectSourceNoted, SourceKept, {r} \in SUBSET Request DEF TypeOK
<1>6. ASSUME NEW r \in Request,
             \/ LoaderRedirects(r) \/ LoaderResponds(r)
             \/ LoaderCompletes(r) \/ LoaderFails(r)
      PROVE  SourceInv'
  <2>1. CASE LoaderRedirects(r)
    <3>1. r \in requests_ /\ ~in_progress[r].request_completed_
      BY <2>1 DEF InStepInv, InStep, Over, NoLoader, Stage, NetworkSide, Waits, LoaderRedirects
    <3>2. /\ in_progress' = in_progress /\ requests_' = requests_
          /\ \A s \in Request \ {r} : loader'[s] = loader[s]
      BY <2>1 DEF LoaderRedirects, LoaderSends, TypeOK
    <3>3. SourceOf(in_progress'[r], loader'[r])
      BY <3>1, <3>2 DEF SourceInv, SourceOf
    <3> QED
      BY <3>2, <3>3, SourceKept, {r} \in SUBSET Request DEF TypeOK
  <2>2. CASE LoaderResponds(r) \/ LoaderCompletes(r) \/ LoaderFails(r)
    <3>1. /\ in_progress' = in_progress /\ requests_' = requests_
          /\ \A s \in Request : loader'[s] = loader[s] \/ loader'[s].phase # "redirected"
      BY <2>2, SendsPhase DEF LoaderResponds, LoaderCompletes, LoaderFails
    <3> QED
      BY <3>1, SourceKept, {} \in SUBSET Request DEF TypeOK
  <2> QED
    BY <1>6, <2>1, <2>2
<1>7. CASE NetworkServiceDies
  <2>1. /\ in_progress' = in_progress /\ requests_' = requests_
        /\ \A s \in Request : loader'[s] = loader[s] \/ loader'[s].phase # "redirected"
    BY <1>7 DEF NetworkServiceDies, TypeOK, LoaderState
  <2> QED
    BY <2>1, SourceKept, {} \in SUBSET Request DEF TypeOK
<1>8. ASSUME UNCHANGED <<in_progress, requests_, loader>>
      PROVE  SourceInv'
  BY <1>8 DEF SourceInv
<1>9. CASE FactoryHandler \/ TrackingBlockerChanges \/ DidFinishNavigation
  BY <1>8, <1>9, Zenon
     DEF FactoryHandler, Clone, OnProxyBindingError, OnTargetFactoryError,
         TrackingBlockerChanges, DidFinishNavigation, network_vars
<1>10. ASSUME NEW r \in Request, ClientFollows(r) \/ ClientCloses(r)
       PROVE  SourceInv'
  BY <1>8, <1>10, Zenon DEF ClientFollows, ClientCloses, network_vars
<1>11. CASE UNCHANGED vars
  BY <1>8, <1>11, Zenon DEF vars, network_vars
<1> QED
  BY <1>1, <1>2, <1>3, <1>4, <1>5, <1>6, <1>7, <1>9, <1>10, <1>11
     DEF Next, RequestHandler, Environment

-----------------------------------------------------------------------------
\* What each kind of step may do to a loader and to the tab's record.

\* A loader comes to load in Restart only, which the hook has let pass
\* (cc:91-107, 309-357).
LEMMA NothingElseStarts ==
    ASSUME TypeOK, NEW r \in Request,
           loader[r].phase # "loading", loader'[r].phase = "loading",
           \/ UNCHANGED vars
           \/ FactoryHandler
           \/ NetworkServiceDies \/ TrackingBlockerChanges \/ DidFinishNavigation
           \/ \E s \in Request :
                \/ OnClientDisconnect(s) \/ OnComplete(s)
                \/ OnReceiveResponse(s) \/ OnReceiveRedirect(s)
                \/ ClientFollows(s) \/ ClientCloses(s)
                \/ LoaderRedirects(s) \/ LoaderResponds(s)
                \/ LoaderCompletes(s) \/ LoaderFails(s)
                \/ s # r /\ (CreateLoaderAndStart(s) \/ FollowRedirect(s))
    PROVE  FALSE
<1>0. loader'[r] # loader[r] /\ loader[r] \in LoaderState
  BY DEF TypeOK
<1>1. ASSUME NEW s \in Request, s # r, CreateLoaderAndStart(s) \/ FollowRedirect(s)
      PROVE  FALSE
  <2>1. \E p, c : Restart(s, p, c)
    BY <1>1 DEF CreateLoaderAndStart, Starts, FollowRedirect
  <2>2. loader'[r] = loader[r]
    BY <1>1, <2>1, RestartOthers
  <2> QED
    BY <1>0, <2>2
<1>2. ASSUME NEW s \in Request, OnClientDisconnect(s) \/ OnComplete(s)
      PROVE  FALSE
  <2>1. RemoveRequest(s)
    BY <1>2 DEF OnClientDisconnect, OnComplete, OnRequestError
  <2>2. loader'[r] = loader[r] \/ loader'[r] = NoLoader
    BY <2>1 DEF RemoveRequest, TypeOK
  <2> QED
    BY <1>0, <2>2 DEF NoLoader
<1>3. ASSUME NEW s \in Request,
             \/ LoaderRedirects(s) \/ LoaderResponds(s)
             \/ LoaderCompletes(s) \/ LoaderFails(s)
      PROVE  FALSE
  <2>1. loader'[r] = loader[r]
        \/ loader'[r].phase \in {"redirected", "streaming", "finished"}
    BY <1>3, SendsPhase DEF LoaderRedirects, LoaderResponds, LoaderCompletes, LoaderFails
  <2> QED
    BY <1>0, <2>1
<1>4. CASE NetworkServiceDies
  <2>1. loader'[r] = loader[r] \/ loader'[r].phase = "dead"
    BY <1>0, <1>4 DEF NetworkServiceDies, TypeOK, LoaderState
  <2> QED
    BY <1>0, <2>1
<1>5. loader' # loader
  BY <1>0
<1>6. CASE FactoryHandler \/ TrackingBlockerChanges \/ DidFinishNavigation
  BY <1>5, <1>6, Zenon
     DEF FactoryHandler, Clone, OnProxyBindingError, OnTargetFactoryError,
         TrackingBlockerChanges, DidFinishNavigation, network_vars
<1>7. ASSUME NEW s \in Request,
             \/ ClientFollows(s) \/ ClientCloses(s)
             \/ OnReceiveResponse(s) \/ OnReceiveRedirect(s)
      PROVE  FALSE
  BY <1>5, <1>7, Zenon
     DEF ClientFollows, ClientCloses, OnReceiveResponse, OnReceiveRedirect, network_vars
<1>8. CASE UNCHANGED vars
  BY <1>5, <1>8, Zenon DEF vars, network_vars
<1> QED
  BY <1>1, <1>2, <1>3, <1>4, <1>6, <1>7, <1>8

\* So it is a Restart of its request.
LEMMA StartsInRestart ==
    ASSUME TypeOK, [Next]_vars, NEW r \in Request,
           loader[r].phase # "loading", loader'[r].phase = "loading"
    PROVE  CreateLoaderAndStart(r) \/ FollowRedirect(r)
BY NothingElseStarts, Zenon DEF Next, RequestHandler, Environment

\* What the hook lets pass with the blocker on has nothing to lose, or belongs to
\* the site it comes from (site_hacks:57-97; whale_query_filter.cc:159-198).
LEMMA HookLetsPass ==
    ASSUME NEW request \in ResourceRequest, NEW ctx,
           ctx.redirect_source \in URL \cup {GURL},
           ctx.internal_redirect => ctx.redirect_source = GURL,
           OnBeforeURLRequest_SiteHacksWork(MakeCTX(request, TRUE, ctx)) = GURL,
           request.method = "GET"
    PROVE  \/ Filtered(request.url)
           \/ /\ ctx.redirect_source # GURL
              /\ SameDomainOrHost(ctx.redirect_source, request.url)
           \/ /\ ctx.redirect_source = GURL
              /\ request.request_initiator # OpaqueOrigin
              /\ SameDomainOrHost(request.request_initiator, request.url)
<1> DEFINE url == request.url
           full == MakeCTX(request, TRUE, ctx)
<1>1. url \in URL /\ url # GURL /\ ApplyQueryFilter(url) # GURL
  BY URLAssumption DEF ResourceRequest
<1>2. url.query = <<>> => ApplyQueryFilter(url) = url
  <2>1. DOMAIN <<>> = {}
    OBVIOUS
  <2>2. url.query = <<>> => Trackers(url) = {}
    BY <2>1 DEF Trackers
  <2> QED
    BY <2>2 DEF ApplyQueryFilter, HasTracker
<1>3. CASE Exempted(full)
  BY <1>3 DEF Exempted, MakeCTX, is_valid
<1>4. CASE ~Exempted(full)
  BY <1>1, <1>2, <1>4
     DEF OnBeforeURLRequest_SiteHacksWork, ApplyPotentialQueryStringFilter, Filtered,
         IsInternalScheme, MakeCTX, has_query
<1> QED
  BY <1>3, <1>4

\* Where a loader comes to load, what it loads has been let pass (cc:91-107).
WireOf(r) ==
    LET request == in_progress'[r].request_
        source  == IF loader[r].phase = "redirected"
                   THEN Origin(loader[r].url)
                   ELSE request.request_initiator
    IN tracking_blocker_enabled /\ request.method = "GET"
       => \/ Filtered(loader'[r].url)
          \/ source # OpaqueOrigin /\ SameDomainOrHost(source, loader'[r].url)

LEMMA RestartWire ==
    ASSUME TypeOK, NEW r \in Request, NEW p \in InProgressRequest, NEW c,
           Restart(r, p, c),
           loader[r].phase # "loading", loader'[r].phase = "loading",
           loader'[r].url = in_progress'[r].request_.url,
           p.ctx_.internal_redirect => p.ctx_.redirect_source = GURL,
           IF loader[r].phase = "redirected"
           THEN p.ctx_.redirect_source = loader[r].url /\ loader[r].url # GURL
           ELSE p.ctx_.redirect_source = GURL
    PROVE  WireOf(r)
<1> DEFINE request == p.request_
<1>0. loader'[r] # NoLoader
  BY DEF NoLoader
<1>1. /\ in_progress'[r].request_ = request
      /\ OnBeforeURLRequest_SiteHacksWork(
           MakeCTX(request, tracking_blocker_enabled, p.ctx_)) = GURL
  BY <1>0, RestartCases
<1>2. /\ request \in ResourceRequest /\ p.ctx_.redirect_source \in URL \cup {GURL}
      /\ tracking_blocker_enabled \in BOOLEAN
  BY DEF InProgressRequest, TypeOK
<1>3. ASSUME tracking_blocker_enabled, request.method = "GET"
      PROVE  \/ Filtered(request.url)
             \/ /\ p.ctx_.redirect_source # GURL
                /\ SameDomainOrHost(p.ctx_.redirect_source, request.url)
             \/ /\ p.ctx_.redirect_source = GURL
                /\ request.request_initiator # OpaqueOrigin
                /\ SameDomainOrHost(request.request_initiator, request.url)
  <2>1. tracking_blocker_enabled = TRUE
    BY <1>2, <1>3
  <2> QED
    BY <1>1, <1>2, <1>3, <2>1, HookLetsPass
<1>4. ASSUME NEW url \in URL
      PROVE  /\ url # GURL /\ Origin(url) # OpaqueOrigin
             /\ \A v : SameDomainOrHost(url, v) <=> SameDomainOrHost(Origin(url), v)
  BY URLAssumption DEF Origin, OpaqueOrigin, SameDomainOrHost
<1> HIDE DEF request
<1>5. CASE loader[r].phase = "redirected"
  BY <1>1, <1>2, <1>3, <1>4, <1>5 DEF WireOf
<1>6. CASE loader[r].phase # "redirected"
  BY <1>1, <1>3, <1>4, <1>6 DEF WireOf
<1> QED
  BY <1>5, <1>6

LEMMA NextWire ==
    ASSUME TypeOK, InStepInv, SourceInv, [Next]_vars, NEW r \in Request,
           loader[r].phase # "loading", loader'[r].phase = "loading"
    PROVE  WireOf(r)
<1>1. TypeOK' /\ InStepInv'
  BY NextType, NextInStep
<1>2. loader'[r].url = in_progress'[r].request_.url
  <2>1. r \in requests_'
    BY <1>1 DEF InStepInv, InStep, Over, NoLoader
  <2>2. URLs(in_progress'[r], client'[r], follow'[r], loader'[r], from_net'[r])
    BY <1>1, <2>1 DEF InStepInv, InStep, Stage
  <2> QED
    BY <2>2 DEF URLs
<1>3. CASE CreateLoaderAndStart(r)
  <2>1. PICK url \in URL, method \in Method, initiator \in Initiator \cup {OpaqueOrigin} :
          Restart(r,
                  NewInProgressRequest([ url |-> url, method |-> method,
                                         request_initiator |-> initiator ]),
                  [phase |-> "waiting", url |-> url])
    BY <1>3 DEF CreateLoaderAndStart, Starts
  <2> DEFINE p == NewInProgressRequest([ url |-> url, method |-> method,
                                         request_initiator |-> initiator ])
  <2>2. p \in InProgressRequest /\ p.ctx_.redirect_source = GURL
    BY DEF NewInProgressRequest, Deleted, InProgressRequest, ResourceRequest, NewCTX,
           FollowRedirectParams
  <2>3. loader[r].phase # "redirected"
    BY <1>3 DEF CreateLoaderAndStart, InStepInv, InStep, Stage, ClientSide, Over, NoLoader
  <2> HIDE DEF p
  <2> QED
    BY <1>2, <2>1, <2>2, <2>3, RestartWire DEF p
<1>4. CASE FollowRedirect(r)
  <2> DEFINE q == in_progress[r]
             u == Head(follow[r])
             p == TakeFollowRedirect(q, u)
  <2>1. /\ r \in requests_ /\ follow[r] # <<>> /\ Restart(r, p, client[r])
        /\ q \in InProgressRequest /\ u \in URL \cup {GURL}
        /\ SourceOf(q, loader[r])
        /\ Stage(q, client[r], follow[r], loader[r], from_net[r], target_factory_)
    BY <1>4 DEF FollowRedirect, TypeOK, SourceInv, InStepInv, InStep
  <2>2. p \in InProgressRequest /\ p.ctx_ = q.ctx_ /\ p.target_loader_ = q.target_loader_
    BY <2>1 DEF TakeFollowRedirect, InProgressRequest, ResourceRequest, FollowRedirectParams
  <2>3. q.request_completed_
    BY <2>1 DEF Stage, ClientSide
  <2> HIDE DEF p, q
  <2>4. IF loader[r].phase = "redirected"
        THEN p.ctx_.redirect_source = loader[r].url /\ loader[r].url # GURL
        ELSE p.ctx_.redirect_source = GURL
    <3>1. CASE q.target_loader_
      <4>1. Waits(loader[r], from_net[r])
        BY <2>1, <2>3, <3>1 DEF Stage, NetworkSide
      <4>0. loader'[r] # NoLoader
        BY DEF NoLoader
      <4>2. loader'[r] = ToLoader(p, loader[r])
        BY <2>1, <2>2, <4>0, RestartCases
      <4>3. loader[r].phase = "redirected"
        BY <2>2, <3>1, <4>1, <4>2 DEF ToLoader, StartsLoader, LoaderOnFollowRedirect, Waits
      <4> QED
        BY <2>1, <2>2, <2>3, <3>1, <4>3 DEF SourceOf
    <3>2. CASE ~q.target_loader_
      BY <2>1, <2>2, <3>2 DEF Stage, NetworkSide, NoLoader, SourceOf
    <3> QED
      BY <3>1, <3>2
  <2> QED
    BY <1>2, <2>1, <2>2, <2>4, RestartWire DEF SourceOf
<1> QED
  BY <1>3, <1>4, StartsInRestart

LEMMA AlwaysSourced == Spec => [](TypeOK /\ InStepInv /\ SourceInv)
<1>1. TypeOK /\ InStepInv /\ SourceInv /\ [Next]_vars => (TypeOK /\ InStepInv /\ SourceInv)'
  BY NextType, NextInStep, NextSource
<1> QED
  BY <1>1, InitType, InitInStep, InitSource, PTL DEF Spec

\* With the blocker on, no GET goes to the network with a tracker in its URL,
\* but within a site (cc:91-107, 379-417; whale_query_filter.cc:159-198).
THEOREM WireCorrect == Spec => NoTrackerOnTheWire
<1>1. TypeOK /\ InStepInv /\ SourceInv /\ [Next]_vars =>
        [ \A r \in Request :
            LET request == in_progress'[r].request_
                source  == IF loader[r].phase = "redirected"
                           THEN Origin(loader[r].url)
                           ELSE request.request_initiator
            IN (/\ loader[r].phase # "loading"
                /\ loader'[r].phase = "loading"
                /\ tracking_blocker_enabled
                /\ request.method = "GET")
               => \/ Filtered(loader'[r].url)
                  \/ source # OpaqueOrigin /\ SameDomainOrHost(source, loader'[r].url)
        ]_vars
  BY NextWire DEF WireOf
<1> QED
  BY <1>1, AlwaysSourced, PTL DEF Spec, NoTrackerOnTheWire

-----------------------------------------------------------------------------
\* What is taken out of a URL is in the tab's record when the client hears of it.

\* Only FollowRedirect takes the answer of a client whose request goes on.
LEMMA AnswerIsTaken ==
    ASSUME TypeOK, InStepInv, [Next]_vars, NEW r \in Request,
           follow[r] # <<>>, follow'[r] = <<>>, r \in requests_'
    PROVE  FollowRedirect(r)
<1>1. ASSUME NEW s \in Request, follow' = [follow EXCEPT ![s] = Tail(@)], s # r
      PROVE  FALSE
  BY <1>1 DEF TypeOK
<1>2. ASSUME NEW s \in Request, RemoveRequest(s)
      PROVE  FALSE
  BY <1>2 DEF RemoveRequest, TypeOK
<1>3. ASSUME NEW s \in Request, ClientFollows(s)
      PROVE  FALSE
  <2>1. PICK new_url \in URL \cup {GURL} : follow' = [follow EXCEPT ![s] = Append(@, new_url)]
    BY <1>3 DEF ClientFollows
  <2>2. Append(follow[s], new_url) # <<>>
    <3>1. follow[s] \in Seq(URL \cup {GURL})
      BY DEF TypeOK
    <3>2. Len(Append(follow[s], new_url)) # 0
      BY <3>1
    <3>3. Len(<<>>) = 0
      OBVIOUS
    <3> QED
      BY <3>2, <3>3, Zenon
  <2> QED
    BY <2>1, <2>2 DEF TypeOK
<1>4. follow' # follow
  OBVIOUS
<1>5. CASE FactoryHandler \/ TrackingBlockerChanges \/ DidFinishNavigation
           \/ NetworkServiceDies
  BY <1>4, <1>5, Zenon
     DEF FactoryHandler, Clone, OnProxyBindingError, OnTargetFactoryError,
         TrackingBlockerChanges, DidFinishNavigation, NetworkServiceDies
<1>6. ASSUME NEW s \in Request,
             \/ ClientCloses(s) \/ OnReceiveResponse(s) \/ OnReceiveRedirect(s)
             \/ LoaderRedirects(s) \/ LoaderResponds(s) \/ LoaderCompletes(s) \/ LoaderFails(s)
             \/ CreateLoaderAndStart(s)
      PROVE  FALSE
  BY <1>4, <1>6, Zenon
     DEF ClientCloses, OnReceiveResponse, OnReceiveRedirect, LoaderRedirects, LoaderResponds,
         LoaderCompletes, LoaderFails, LoaderSends, CreateLoaderAndStart
<1>7. CASE UNCHANGED vars
  BY <1>4, <1>7, Zenon DEF vars
<1>8. ASSUME NEW s \in Request, FollowRedirect(s)
      PROVE  FollowRedirect(r)
  BY <1>1, <1>8, Zenon DEF FollowRedirect
<1> QED
  BY <1>2, <1>3, <1>5, <1>6, <1>7, <1>8
     DEF Next, RequestHandler, Environment, OnClientDisconnect, OnComplete, OnRequestError

LEMMA NextReports ==
    ASSUME TypeOK, InStepInv, [Next]_vars, HasController,
           NEW r \in Request, NEW url \in URL,
           in_progress'[r].request_completed_, AsksFor(r, url)
    PROVE  removed_trackers(url)
             \subseteq shields_data_controller'.resource_list_blocked_url_params_
<1>1. ASSUME NEW p \in InProgressRequest, NEW c, Restart(r, p, c), p.request_.url = url
      PROVE  removed_trackers(url)
               \subseteq shields_data_controller'.resource_list_blocked_url_params_
  <2>1. PICK redirect_url : shields_data_controller' = Report(p.request_.url, redirect_url)
    BY <1>1, RestartCases
  <2> QED
    BY <1>1, <2>1 DEF Report, HandleURLParamsBlocked
<1>2. ASSUME NEW method \in Method, NEW initiator \in Initiator \cup {OpaqueOrigin},
             Starts(r, url, method, initiator)
      PROVE  removed_trackers(url)
               \subseteq shields_data_controller'.resource_list_blocked_url_params_
  <2> DEFINE p == NewInProgressRequest([ url |-> url, method |-> method,
                                         request_initiator |-> initiator ])
             c == [phase |-> "waiting", url |-> url]
  <2>1. p \in InProgressRequest /\ p.request_.url = url
    BY DEF NewInProgressRequest, Deleted, InProgressRequest, ResourceRequest, NewCTX,
           FollowRedirectParams
  <2>2. Restart(r, p, c)
    BY <1>2 DEF Starts
  <2> HIDE DEF p, c
  <2> QED
    BY <1>1, <2>1, <2>2
<1>3. ASSUME follow[r] # <<>>, follow'[r] = <<>>, r \in requests_',
             url = IF Head(follow[r]) = GURL
                   THEN in_progress[r].request_.url ELSE Head(follow[r])
      PROVE  removed_trackers(url)
               \subseteq shields_data_controller'.resource_list_blocked_url_params_
  <2> DEFINE q == in_progress[r]
             u == Head(follow[r])
             p == TakeFollowRedirect(q, u)
  <2>1. FollowRedirect(r)
    BY <1>3, AnswerIsTaken
  <2>2. /\ Restart(r, p, client[r]) /\ q \in InProgressRequest /\ u \in URL \cup {GURL}
    BY <2>1 DEF FollowRedirect, TypeOK
  <2>3. p \in InProgressRequest /\ p.request_.url = IF u = GURL THEN q.request_.url ELSE u
    BY <2>2 DEF TakeFollowRedirect, InProgressRequest, ResourceRequest, FollowRedirectParams
  <2>4. p.request_.url = url
    BY <1>3, <2>3
  <2> HIDE DEF p
  <2> QED
    BY <1>1, <2>2, <2>3, <2>4
<1> QED
  BY <1>2, <1>3 DEF AsksFor

\* The names of the parameters the proxy takes out of a URL, of a new request or
\* of one that follows a redirect, are in the tab's record by the time the client
\* is told of the URL without them (cc:91-107, 217-262; site_hacks:73-94).
THEOREM ReportCorrect == Spec => RemovalIsReported
<1>1. TypeOK /\ InStepInv /\ [Next]_vars =>
        [ HasController =>
            \A r \in Request, url \in URL :
              in_progress'[r].request_completed_ /\ AsksFor(r, url) =>
                removed_trackers(url)
                  \subseteq shields_data_controller'.resource_list_blocked_url_params_
        ]_vars
  BY NextReports
<1> QED
  BY <1>1, AlwaysInStep, PTL DEF Spec, RemovalIsReported

-----------------------------------------------------------------------------
\* Forwarding.

\* Every step is one of the factory.

\* URLLoaderForwarding only adds to WhaleProxyingURLLoaderFactory.
LEMMA ForwardStep == [ForwardNext]_all_vars => [Next]_vars
BY DEF ForwardNext, all_vars, Creates, Follows, Asks, LoaderIsRedirected, TakesReferrer, Ends,
       SetPriority, PauseReadingBodyFromNet, ResumeReadingBodyFromNet, MaxLevelChanges,
       Others, Next, RequestHandler, Environment

\* The factory inside: what is known of it in every state.
Base == TypeOK /\ InStepInv /\ FactoryLifetime /\ RequestsAreAsked

LEMMA InitBase == Init => Base
BY InitType, InitInStep, InitLifetime DEF Base, Init, RequestsAreAsked

LEMMA NextBase == Base /\ [Next]_vars => Base'
BY NextType, NextInStep, NextLifetime, NextImplements DEF Base

\* A client that asked never becomes one that did not.
LEMMA AskedStays == Base /\ [Next]_vars => Asked \subseteq Asked'
<1> SUFFICES ASSUME Base, [Next]_vars
             PROVE  Asked \subseteq Asked'
  OBVIOUS
<1>1. [Lifetime!Next]_(Lifetime!vars) /\ RequestsAreAsked /\ RequestsAreAsked'
  BY NextImplements DEF Base
<1>2. /\ Asked = requests_ \cup (Asked \ requests_)
      /\ Asked' = requests_' \cup (Asked' \ requests_')
  BY <1>1 DEF RequestsAreAsked
<1> QED
  BY <1>1, <1>2 DEF Lifetime!Next, Lifetime!Start, Lifetime!End, Lifetime!Close, Lifetime!vars,
     Asked

\* The specification implements the one it extends: what is proved of the
\* factory holds here.
THEOREM ForwardImplements == ForwardSpec => Spec
BY ForwardStep, PTL DEF ForwardSpec, ForwardInit, Spec

-----------------------------------------------------------------------------
\* What is left of a page's URL in a referrer.
Referrers == {GURL} \cup Referrer \cup {OriginURL(page) : page \in Referrer}

Fields == [headers : SUBSET Header, referrer : Referrers]
LoaderFields ==
    [ headers : SUBSET Header, exempt : SUBSET Header, referrer : Referrers,
      priority : {"LOW", "HIGH"}, paused : BOOLEAN ]
Headers == [removed : SUBSET Header, modified : SUBSET Header, exempt : SUBSET Header]

ForwardType ==
    /\ fields \in [Request -> Fields]
    /\ at_loader \in [Request -> LoaderFields]
    /\ wanted \in [Request -> LoaderFields]
    /\ carried \in [Request -> Headers]
    /\ max_level \in BOOLEAN
    /\ replaced \in [Request -> BOOLEAN]

\* What a loader goes by follows from what request_ holds, and that from what
\* the client asked for.  Only a loader pauses.
Forwards(r) ==
    IF r \in requests_
    THEN /\ wanted[r].headers = IF follow[r] = <<>> THEN fields[r].headers
                                ELSE Merged(fields[r].headers, carried[r])
         /\ in_progress[r].target_loader_ =>
              /\ at_loader[r].headers = fields[r].headers
              /\ replaced[r] \/ at_loader[r].priority = wanted[r].priority
         /\ at_loader[r].paused => in_progress[r].target_loader_ /\ wanted[r].paused
    ELSE /\ in_progress[r].target_loader_ = FALSE
         /\ at_loader[r] = Fresh
         /\ client[r].phase = "idle" => wanted[r].headers = {}

ForwardInv == \A r \in Request : Forwards(r)

-----------------------------------------------------------------------------
\* Lemmas about the operators.

LEMMA ReferrerFacts ==
    /\ GURL \in Referrers /\ Referrer \subseteq Referrers
    /\ \A url : OriginURL(OriginURL(url)) = OriginURL(url)
    /\ \A referrer \in Referrers : referrer = GURL \/ OriginURL(referrer) \in Referrers
    /\ Fresh \in LoaderFields /\ NoFields \in Fields /\ NoHeaders \in Headers
<1>1. \A url : OriginURL(OriginURL(url)) = OriginURL(url)
  BY DEF OriginURL
<1>2. \A referrer \in Referrers : referrer = GURL \/ OriginURL(referrer) \in Referrers
  BY <1>1 DEF Referrers
<1>3. GURL \in Referrers /\ Referrer \subseteq Referrers
  BY DEF Referrers
<1> QED
  BY <1>1, <1>2, <1>3 DEF Fresh, NoFields, NoHeaders, LoaderFields, Fields, Headers

\* The site hacks leave a referrer that is one, and capped where they cap
\* (site_hacks:34-55).
LEMMA BlockFacts ==
    ASSUME NEW referrer \in Referrers, NEW url
    PROVE  LET result == ApplyPotentialReferrerBlock(ReferrerCTX(referrer, url))
           IN /\ result \in Referrers
              /\ max_level /\ resource_type \notin {"kMainFrame", "kSubFrame"}
                   => IsCapped(result, url)
<1> DEFINE result == ApplyPotentialReferrerBlock(ReferrerCTX(referrer, url))
           origin == OriginURL(referrer)
           changed == MaybeChangeReferrer(referrer, url)
<1>1. ASSUME ChangesReferrer(referrer, url)
      PROVE  changed \in {GURL, origin} /\ origin \in Referrers /\ OriginURL(origin) = origin
  <2>1. referrer # GURL
    BY <1>1 DEF ChangesReferrer
  <2>2. origin \in Referrers /\ OriginURL(origin) = origin
    BY <2>1, ReferrerFacts
  <2>3. SanitizeForRequest(url, origin) \in {GURL, origin}
    BY <2>2, Zenon DEF SanitizeForRequest
  <2> QED
    BY <1>1, <2>2, <2>3 DEF MaybeChangeReferrer
<1>2. ASSUME ~ChangesReferrer(referrer, url)
      PROVE  changed = referrer /\ IsCapped(referrer, url)
  BY <1>2 DEF MaybeChangeReferrer, ChangesReferrer, IsCapped
<1>3. result = referrer \/ result = changed
  BY DEF ApplyPotentialReferrerBlock, ReferrerCTX
<1>4. max_level /\ resource_type \notin {"kMainFrame", "kSubFrame"} => result = changed
  BY DEF ApplyPotentialReferrerBlock, ReferrerCTX
<1>5. ASSUME changed \in {GURL, origin}, OriginURL(origin) = origin
      PROVE  IsCapped(changed, url)
  BY <1>5, Zenon DEF IsCapped
<1> HIDE DEF result, changed, origin
<1> QED
  BY <1>1, <1>2, <1>3, <1>4, <1>5, ReferrerFacts DEF result, changed

\* The two flags of a request that decide how it goes on.
LEMMA FlagTypes ==
    ASSUME NEW p \in InProgressRequest \cup {Deleted}
    PROVE  p.target_loader_ \in BOOLEAN /\ p.request_completed_ \in BOOLEAN
<1>1. CASE p \in InProgressRequest
  BY <1>1 DEF InProgressRequest
<1>2. CASE p = Deleted
  <2>1. Deleted.target_loader_ = FALSE /\ Deleted.request_completed_ = FALSE
    BY DEF Deleted
  <2> QED
    BY <1>2, <2>1
<1> QED
  BY <1>1, <1>2

\* A client never has two answers on the way.
LEMMA OneAnswer ==
    ASSUME TypeOK, InStepInv, NEW r \in Request, follow[r] # <<>>
    PROVE  Tail(follow[r]) = <<>>
<1>1. follow[r] \in Seq(URL \cup {GURL})
  BY DEF TypeOK
<1>2. Len(follow[r]) = 1 \/ Len(follow[r]) <= 1
  BY DEF InStepInv, InStep, Stage, ClientSide, Over
<1>3. ASSUME NEW S, NEW f \in Seq(S), f # <<>>, Len(f) = 1 \/ Len(f) <= 1
      PROVE  Tail(f) = <<>>
  <2> DEFINE n == Len(f)
             t == Tail(f)
  <2>1. n \in Nat \ {0} /\ (n = 1 \/ n <= 1)
    BY <1>3, EmptySeq
  <2>2. t \in Seq(S) /\ Len(t) = n - 1
    BY <1>3, HeadTailProperties
  <2> HIDE DEF n, t
  <2>3. Len(t) = 0
    BY <2>1, <2>2
  <2>4. t = <<>>
    BY <2>2, <2>3, EmptySeq
  <2> QED
    BY <2>4 DEF t
<1> QED
  BY <1>1, <1>2, <1>3, Zenon

\* What the other half of Restart does to the fields, by how the request goes
\* on: closed, with a new loader, with the one it has, or with none.
Restarted(r, request, params) ==
    LET had == in_progress[r].target_loader_
        has == in_progress'[r].target_loader_
        old == at_loader[r]
        new == at_loader'[r]
    IN /\ fields' \in [Request -> Fields] /\ fields'[r].headers = request.headers
       /\ at_loader' \in [Request -> LoaderFields]
       /\ replaced' \in [Request -> BOOLEAN] /\ (replaced[r] => replaced'[r])
       /\ \A s \in Request \ {r} :
            /\ fields'[s] = fields[s] /\ at_loader'[s] = at_loader[s]
            /\ replaced'[s] = replaced[s]
       /\ \/ in_progress'[r].request_completed_ /\ new = Fresh
          \/ /\ ~in_progress'[r].request_completed_ /\ ~had /\ has
             /\ new.headers = request.headers /\ ~new.paused
             /\ new.priority = "LOW" /\ (wanted[r].priority # "LOW" => replaced'[r])
             /\ new.referrer = ApplyPotentialReferrerBlock(
                  ReferrerCTX(request.referrer, in_progress'[r].request_.url))
          \/ /\ ~in_progress'[r].request_completed_ /\ had /\ has
             /\ new.headers = Merged(old.headers, params)
             /\ new.priority = old.priority /\ new.paused = old.paused
          \/ ~in_progress'[r].request_completed_ /\ ~had /\ ~has /\ new = old

LEMMA RestartForwardsFacts ==
    ASSUME TypeOK, ForwardType, NEW r \in Request, NEW request \in Fields,
           NEW params \in Headers, RestartForwards(r, request, params),
           in_progress'[r].request_completed_ \in BOOLEAN,
           in_progress'[r].target_loader_ \in BOOLEAN,
           in_progress[r].target_loader_ => in_progress'[r].request_completed_
                                            \/ in_progress'[r].target_loader_
    PROVE  Restarted(r, request, params)
<1> DEFINE p == in_progress[r]
           q == in_progress'[r]
           starts == ~p.target_loader_ /\ q.target_loader_
           sent == SendsHeaders(request, q.request_.url)
           old == at_loader[r]
<1>1. /\ old \in LoaderFields /\ wanted[r] \in LoaderFields
      /\ p.target_loader_ \in BOOLEAN /\ replaced[r] \in BOOLEAN
      /\ request.headers \in SUBSET Header /\ request.referrer \in Referrers
  <2>1. p.target_loader_ \in BOOLEAN
    BY FlagTypes DEF TypeOK
  <2> QED
    BY <2>1 DEF ForwardType, Fields
<1>2. /\ sent \in Fields /\ sent.headers = request.headers
      /\ sent.referrer = ApplyPotentialReferrerBlock(
                           ReferrerCTX(request.referrer, q.request_.url))
  <2>1. ApplyPotentialReferrerBlock(ReferrerCTX(request.referrer, q.request_.url)) \in Referrers
    BY <1>1, BlockFacts
  <2>2. sent = [request EXCEPT !.referrer = ApplyPotentialReferrerBlock(
                                              ReferrerCTX(request.referrer, q.request_.url))]
    BY DEF SendsHeaders
  <2> QED
    BY <2>1, <2>2 DEF Fields
<1>3. /\ NewLoader(r, sent) \in LoaderFields /\ NewLoader(r, sent).headers = request.headers
      /\ NewLoader(r, sent).priority = "LOW" /\ ~NewLoader(r, sent).paused
      /\ NewLoader(r, sent).referrer = sent.referrer
  <2>1. sent.headers \in SUBSET Header /\ sent.referrer \in Referrers
    BY <1>2 DEF Fields
  <2> HIDE DEF sent
  <2> QED
    BY <1>2, <2>1, ReferrerFacts DEF NewLoader, Fresh, LoaderFields
<1>4. /\ LoaderFollows(r, params) \in LoaderFields
      /\ LoaderFollows(r, params).headers = Merged(old.headers, params)
      /\ LoaderFollows(r, params).priority = old.priority
      /\ LoaderFollows(r, params).paused = old.paused
  BY <1>1 DEF LoaderFollows, LoaderFields, Merged, Headers
<1> HIDE DEF p, q, sent
<1>5. CASE /\ q.request_completed_
           /\ \E referrer \in RedirectReferrers(request.referrer) :
                fields' = [fields EXCEPT ![r] = [request EXCEPT !.referrer = referrer]]
           /\ at_loader' = [at_loader EXCEPT ![r] = Fresh]
           /\ replaced' = [replaced EXCEPT ![r] = @ \/ wanted[r].priority # "LOW"]
  <2>1. PICK referrer \in Referrers :
          fields' = [fields EXCEPT ![r] = [request EXCEPT !.referrer = referrer]]
    BY <1>1, <1>5, ReferrerFacts DEF RedirectReferrers
  <2>2. /\ [request EXCEPT !.referrer = referrer] \in Fields
        /\ [request EXCEPT !.referrer = referrer].headers = request.headers
    BY DEF Fields
  <2> QED
    BY <1>1, <1>5, <2>1, <2>2, ReferrerFacts DEF ForwardType, q, Restarted
<1>6. CASE /\ ~q.request_completed_
           /\ fields' = [fields EXCEPT ![r] = sent]
           /\ at_loader' = [at_loader EXCEPT ![r] =
                CASE starts -> NewLoader(r, sent)
                  [] p.target_loader_ -> LoaderFollows(r, params)
                  [] OTHER -> @]
           /\ replaced' = [replaced EXCEPT ![r] = @ \/ (starts /\ wanted[r].priority # "LOW")]
  <2> DEFINE new == CASE starts -> NewLoader(r, sent)
                      [] p.target_loader_ -> LoaderFollows(r, params)
                      [] OTHER -> old
             more == replaced[r] \/ (starts /\ wanted[r].priority # "LOW")
  <2>1. /\ starts => new = NewLoader(r, sent)
        /\ p.target_loader_ => new = LoaderFollows(r, params)
        /\ ~starts /\ ~p.target_loader_ => new = old
    BY Zenon
  <2>2. at_loader' = [at_loader EXCEPT ![r] = new] /\ replaced' = [replaced EXCEPT ![r] = more]
    BY <1>6
  <2>3. p.target_loader_ => q.target_loader_
    BY <1>6 DEF p, q
  <2>4. new \in LoaderFields
    BY <1>1, <1>3, <1>4, <2>1
  <2>5. more \in BOOLEAN
    BY <1>1
  <2> HIDE DEF new, more
  <2>6. /\ fields' \in [Request -> Fields] /\ fields'[r] = sent
        /\ at_loader' \in [Request -> LoaderFields] /\ at_loader'[r] = new
        /\ replaced' \in [Request -> BOOLEAN] /\ replaced'[r] = more
        /\ \A s \in Request \ {r} :
             /\ fields'[s] = fields[s] /\ at_loader'[s] = at_loader[s]
             /\ replaced'[s] = replaced[s]
    BY <1>2, <1>6, <2>2, <2>4, <2>5 DEF ForwardType
  <2>7. replaced[r] => replaced'[r]
    BY <2>6 DEF more
  <2>8. \/ /\ ~p.target_loader_ /\ q.target_loader_
           /\ new.headers = request.headers /\ ~new.paused
           /\ new.priority = "LOW" /\ (wanted[r].priority # "LOW" => replaced'[r])
           /\ new.referrer = sent.referrer
        \/ /\ p.target_loader_ /\ q.target_loader_
           /\ new.headers = Merged(old.headers, params)
           /\ new.priority = old.priority /\ new.paused = old.paused
        \/ ~p.target_loader_ /\ ~q.target_loader_ /\ new = old
    <3>1. CASE starts
      BY <1>3, <2>1, <2>6, <3>1 DEF more
    <3>2. CASE p.target_loader_
      BY <1>4, <2>1, <2>3, <3>2
    <3>3. CASE ~starts /\ ~p.target_loader_
      BY <2>1, <3>3
    <3> QED
      BY <3>1, <3>2, <3>3
  <2> QED
    BY <1>2, <1>6, <2>6, <2>7, <2>8 DEF p, q, Restarted
<1> QED
  BY <1>5, <1>6, Zenon DEF RestartForwards, p, q, sent

\* Where nothing of a request changes that Forwards speaks of, Forwards stays.
LEMMA ForwardsKept ==
    ASSUME ForwardInv, NEW R \in SUBSET Request, Asked \subseteq Asked',
           \A s \in Request \ R :
             /\ s \in requests_' <=> s \in requests_
             /\ follow'[s] = follow[s]
             /\ in_progress'[s].target_loader_ = in_progress[s].target_loader_
             /\ fields'[s].headers = fields[s].headers
             /\ at_loader'[s] = at_loader[s]
                \/ /\ s \in requests_
                   /\ at_loader'[s].headers = at_loader[s].headers
                   /\ at_loader'[s].priority = at_loader[s].priority
                   /\ at_loader'[s].paused = at_loader[s].paused
             /\ wanted'[s] = wanted[s] /\ carried'[s] = carried[s]
             /\ replaced'[s] = replaced[s],
           \A s \in R : Forwards(s)'
    PROVE  ForwardInv'
<1> SUFFICES ASSUME NEW s \in Request \ R
             PROVE  Forwards(s)'
  BY DEF ForwardInv
<1>1. client'[s].phase = "idle" => client[s].phase = "idle"
  BY DEF Asked
<1>2. Forwards(s)
  BY DEF ForwardInv
<1> QED
  BY <1>1, <1>2 DEF Forwards

-----------------------------------------------------------------------------
\* One step per action.

\* How Restart leaves the flags of a request.
LEMMA CreatedIsParked ==
    ASSUME TypeOK, NEW r \in Request, CreateLoaderAndStart(r)
    PROVE  in_progress'[r].request_completed_ => ~in_progress'[r].target_loader_
<1>1. PICK url \in URL, method \in Method, initiator \in Initiator \cup {OpaqueOrigin} :
        Restart(r,
                NewInProgressRequest([ url |-> url, method |-> method,
                                       request_initiator |-> initiator ]),
                [phase |-> "waiting", url |-> url])
  BY DEF CreateLoaderAndStart, Starts
<1> DEFINE p == NewInProgressRequest([ url |-> url, method |-> method,
                                       request_initiator |-> initiator ])
<1>2. p \in InProgressRequest
  BY DEF NewInProgressRequest, Deleted, InProgressRequest, ResourceRequest, NewCTX,
         FollowRedirectParams
<1> HIDE DEF p
<1> QED
  BY <1>1, <1>2, RestartCases DEF p

LEMMA FollowedGoesOn ==
    ASSUME TypeOK, NEW r \in Request, FollowRedirect(r)
    PROVE  /\ in_progress'[r].request_completed_ => ~in_progress'[r].target_loader_
           /\ ~in_progress'[r].request_completed_ =>
                (in_progress[r].target_loader_ => in_progress'[r].target_loader_)
<1> DEFINE q == in_progress[r]
           u == Head(follow[r])
           p == TakeFollowRedirect(q, u)
<1>1. Restart(r, p, client[r]) /\ q \in InProgressRequest /\ u \in URL \cup {GURL}
  BY DEF FollowRedirect, TypeOK
<1>2. p \in InProgressRequest /\ p.target_loader_ = q.target_loader_
  BY <1>1 DEF TakeFollowRedirect, InProgressRequest, ResourceRequest, FollowRedirectParams
<1> HIDE DEF p
<1> QED
  BY <1>1, <1>2, RestartCases

\* The other half of Restart, in each of the two calls it is part of.
LEMMA CreatesRestarts ==
    ASSUME Base, Base', ForwardType, ForwardInv, NEW r \in Request, Creates(r)
    PROVE  /\ r \notin requests_ /\ in_progress[r].target_loader_ = FALSE
           /\ at_loader[r] = Fresh /\ wanted[r].headers = {} /\ follow[r] = <<>>
           /\ \E referrer \in Referrer :
                Restarted(r, [headers |-> {}, referrer |-> referrer], NoHeaders)
<1> DEFINE p == in_progress[r]
           q == in_progress'[r]
<1>1. client[r].phase = "idle"
  BY DEF Creates, CreateLoaderAndStart
<1>2. PICK referrer \in Referrer :
        RestartForwards(r, [headers |-> {}, referrer |-> referrer], NoHeaders)
  BY DEF Creates
<1> DEFINE request == [headers |-> {}, referrer |-> referrer]
<1>3. request \in Fields /\ NoHeaders \in Headers
  BY ReferrerFacts DEF Fields
<1>4. /\ r \notin requests_ /\ p.target_loader_ = FALSE
      /\ at_loader[r] = Fresh /\ wanted[r].headers = {} /\ follow[r] = <<>>
  <2>1. r \notin requests_ /\ follow[r] = <<>>
    BY <1>1 DEF Base, InStepInv, InStep, Stage, ClientSide, Over
  <2> QED
    BY <1>1, <2>1 DEF ForwardInv, Forwards
<1>5. q.target_loader_ \in BOOLEAN /\ q.request_completed_ \in BOOLEAN
  BY FlagTypes DEF Base, TypeOK
<1> HIDE DEF request
<1>6. /\ RestartForwards(r, request, NoHeaders) /\ TypeOK
      /\ p.target_loader_ => q.request_completed_ \/ q.target_loader_
  BY <1>2, <1>4 DEF request, Base
<1>7. Restarted(r, request, NoHeaders)
  BY <1>3, <1>5, <1>6, RestartForwardsFacts, Zenon
<1> QED
  BY <1>4, <1>7, Zenon DEF request

LEMMA FollowsRestarts ==
    ASSUME Base, Base', ForwardType, NEW r \in Request, Follows(r)
    PROVE  Restarted(r, TakesHeaders(r, fields[r], carried[r]), carried[r])
<1> DEFINE p == in_progress[r]
           q == in_progress'[r]
           request == TakesHeaders(r, fields[r], carried[r])
<1>1. FollowRedirect(r) /\ RestartForwards(r, request, carried[r])
  BY DEF Follows
<1>2. request \in Fields /\ carried[r] \in Headers
  BY DEF TakesHeaders, ForwardType, Fields, Merged, Headers
<1>3. q.target_loader_ \in BOOLEAN /\ q.request_completed_ \in BOOLEAN
  BY FlagTypes DEF Base, TypeOK
<1>4. ~q.request_completed_ => (p.target_loader_ => q.target_loader_)
  BY <1>1, FollowedGoesOn DEF Base
<1> HIDE DEF request
<1>5. TypeOK /\ (p.target_loader_ => q.request_completed_ \/ q.target_loader_)
  BY <1>3, <1>4 DEF Base
<1>6. Restarted(r, request, carried[r])
  BY <1>1, <1>2, <1>3, <1>5, RestartForwardsFacts, Zenon
<1> QED
  BY <1>6 DEF request

\* A new request starts without headers (cc:478-497).
LEMMA CreatesStep ==
    ASSUME Base, Base', ForwardType, ForwardInv, [Next]_vars, NEW r \in Request, Creates(r)
    PROVE  ForwardType' /\ ForwardInv'
<1> DEFINE p == in_progress[r]
           q == in_progress'[r]
<1>1. /\ CreateLoaderAndStart(r) /\ client[r].phase = "idle"
      /\ requests_' = requests_ \cup {r} /\ follow' = follow
      /\ wanted' = wanted /\ carried' = carried /\ max_level' = max_level
  BY DEF Creates, CreateLoaderAndStart, tab_vars
<1>2. PICK referrer \in Referrer :
        Restarted(r, [headers |-> {}, referrer |-> referrer], NoHeaders)
  BY CreatesRestarts, Zenon
<1> DEFINE request == [headers |-> {}, referrer |-> referrer]
<1>3. Restarted(r, request, NoHeaders) /\ request.headers = {}
  BY <1>2
<1>4. /\ r \notin requests_ /\ p.target_loader_ = FALSE
      /\ at_loader[r] = Fresh /\ wanted[r].headers = {} /\ follow[r] = <<>>
  BY CreatesRestarts, Zenon
<1>5. q.target_loader_ \in BOOLEAN /\ q.request_completed_ \in BOOLEAN
  BY FlagTypes DEF Base, TypeOK
<1> HIDE DEF request
<1>6. /\ fields' \in [Request -> Fields] /\ fields'[r].headers = {}
      /\ at_loader' \in [Request -> LoaderFields] /\ replaced' \in [Request -> BOOLEAN]
      /\ \A s \in Request \ {r} :
           /\ fields'[s] = fields[s] /\ at_loader'[s] = at_loader[s]
           /\ replaced'[s] = replaced[s]
      /\ \/ at_loader'[r] = Fresh /\ ~q.target_loader_
         \/ /\ at_loader'[r].headers = {} /\ ~at_loader'[r].paused
            /\ at_loader'[r].priority = "LOW" /\ (wanted[r].priority # "LOW" => replaced'[r])
  <2>1. q.request_completed_ => ~q.target_loader_
    BY <1>1, CreatedIsParked DEF Base
  <2>2. /\ fields' \in [Request -> Fields] /\ fields'[r].headers = {}
        /\ at_loader' \in [Request -> LoaderFields] /\ replaced' \in [Request -> BOOLEAN]
        /\ \A s \in Request \ {r} :
             /\ fields'[s] = fields[s] /\ at_loader'[s] = at_loader[s]
             /\ replaced'[s] = replaced[s]
    BY <1>3, Zenon DEF Restarted
  <2>3. \/ at_loader'[r] = Fresh /\ ~q.target_loader_
        \/ /\ at_loader'[r].headers = {} /\ ~at_loader'[r].paused
           /\ at_loader'[r].priority = "LOW" /\ (wanted[r].priority # "LOW" => replaced'[r])
    BY <1>3, <1>4, <2>1, Zenon DEF Restarted
  <2> QED
    BY <2>2, <2>3, Zenon
<1>7. ForwardType'
  BY <1>1, <1>6 DEF ForwardType
<1>8. Forwards(r)'
  BY <1>1, <1>4, <1>6 DEF Forwards, Fresh
<1>9. \A s \in Request \ {r} : in_progress'[s] = in_progress[s]
  BY <1>1, RestartOthers DEF CreateLoaderAndStart, Starts, Base
<1>10. ForwardInv'
  BY <1>1, <1>6, <1>8, <1>9, AskedStays, ForwardsKept, {r} \in SUBSET Request
<1> QED
  BY <1>7, <1>10

\* An answer's headers go where request_ and the loader both find them
\* (cc:109-133, 333-357).
LEMMA FollowsStep ==
    ASSUME Base, Base', ForwardType, ForwardInv, [Next]_vars, NEW r \in Request, Follows(r)
    PROVE  ForwardType' /\ ForwardInv'
<1> DEFINE p == in_progress[r]
           q == in_progress'[r]
           request == TakesHeaders(r, fields[r], carried[r])
<1>1. /\ FollowRedirect(r) /\ RestartForwards(r, request, carried[r])
      /\ carried' = [carried EXCEPT ![r] = NoHeaders]
      /\ requests_' = requests_ /\ r \in requests_ /\ follow[r] # <<>>
      /\ follow' = [follow EXCEPT ![r] = Tail(@)]
      /\ wanted' = wanted /\ max_level' = max_level
  BY DEF Follows, FollowRedirect, tab_vars
<1>2. /\ request \in Fields
      /\ request.headers = Merged(fields[r].headers, carried[r])
      /\ carried[r] \in Headers /\ wanted[r] \in LoaderFields
  BY DEF TakesHeaders, ForwardType, Fields, Merged, Headers
<1>3. q.target_loader_ \in BOOLEAN /\ q.request_completed_ \in BOOLEAN
      /\ p.target_loader_ \in BOOLEAN
  BY FlagTypes DEF Base, TypeOK
<1>4. /\ q.request_completed_ => ~q.target_loader_
      /\ ~q.request_completed_ => (p.target_loader_ => q.target_loader_)
  BY <1>1, FollowedGoesOn DEF Base
<1>5. follow'[r] = <<>> /\ \A s \in Request \ {r} : follow'[s] = follow[s]
  <2>1. Tail(follow[r]) = <<>>
    BY <1>1, OneAnswer DEF Base
  <2> QED
    BY <1>1, <2>1 DEF Base, TypeOK
<1>6. Forwards(r)
  BY DEF ForwardInv
<1> HIDE DEF request
<1>7. /\ fields' \in [Request -> Fields] /\ fields'[r].headers = request.headers
      /\ at_loader' \in [Request -> LoaderFields] /\ replaced' \in [Request -> BOOLEAN]
      /\ \A s \in Request \ {r} :
           /\ fields'[s] = fields[s] /\ at_loader'[s] = at_loader[s]
           /\ replaced'[s] = replaced[s]
      /\ replaced[r] => replaced'[r]
      /\ \/ at_loader'[r] = Fresh /\ ~q.target_loader_
         \/ /\ at_loader'[r].headers = request.headers /\ ~at_loader'[r].paused
            /\ at_loader'[r].priority = "LOW" /\ (wanted[r].priority # "LOW" => replaced'[r])
         \/ /\ p.target_loader_ /\ q.target_loader_
            /\ at_loader'[r].headers = Merged(at_loader[r].headers, carried[r])
            /\ at_loader'[r].priority = at_loader[r].priority
            /\ at_loader'[r].paused = at_loader[r].paused
         \/ ~p.target_loader_ /\ ~q.target_loader_ /\ at_loader'[r] = at_loader[r]
  <2>1. Restarted(r, request, carried[r])
    BY FollowsRestarts DEF request
  <2>2. /\ fields' \in [Request -> Fields] /\ fields'[r].headers = request.headers
        /\ at_loader' \in [Request -> LoaderFields] /\ replaced' \in [Request -> BOOLEAN]
        /\ \A s \in Request \ {r} :
             /\ fields'[s] = fields[s] /\ at_loader'[s] = at_loader[s]
             /\ replaced'[s] = replaced[s]
        /\ replaced[r] => replaced'[r]
    BY <2>1, Zenon DEF Restarted
  <2>3. \/ at_loader'[r] = Fresh /\ ~q.target_loader_
        \/ /\ at_loader'[r].headers = request.headers /\ ~at_loader'[r].paused
           /\ at_loader'[r].priority = "LOW" /\ (wanted[r].priority # "LOW" => replaced'[r])
        \/ /\ p.target_loader_ /\ q.target_loader_
           /\ at_loader'[r].headers = Merged(at_loader[r].headers, carried[r])
           /\ at_loader'[r].priority = at_loader[r].priority
           /\ at_loader'[r].paused = at_loader[r].paused
        \/ ~p.target_loader_ /\ ~q.target_loader_ /\ at_loader'[r] = at_loader[r]
    BY <1>4, <2>1, Zenon DEF Restarted
  <2> QED
    BY <2>2, <2>3, Zenon
<1>8. ForwardType'
  BY <1>1, <1>7, ReferrerFacts DEF ForwardType
<1>9. Forwards(r)'
  <2>1. wanted'[r].headers = fields'[r].headers
    BY <1>1, <1>2, <1>6, <1>7 DEF Forwards
  <2>2. q.target_loader_ =>
          /\ at_loader'[r].headers = fields'[r].headers
          /\ replaced'[r] \/ at_loader'[r].priority = wanted'[r].priority
    BY <1>1, <1>2, <1>3, <1>6, <1>7 DEF Forwards
  <2>3. at_loader'[r].paused => q.target_loader_ /\ wanted'[r].paused
    <3>1. CASE ~at_loader'[r].paused
      BY <3>1
    <3>2. CASE at_loader'[r].paused = at_loader[r].paused
      BY <1>1, <1>3, <1>6, <1>7, <3>2 DEF Forwards, Fresh
    <3>3. CASE at_loader'[r] = Fresh
      BY <3>3 DEF Fresh
    <3> QED
      BY <1>7, <3>1, <3>2, <3>3, Zenon
  <2> QED
    BY <1>1, <1>5, <2>1, <2>2, <2>3 DEF Forwards
<1>10. \A s \in Request \ {r} : in_progress'[s] = in_progress[s]
  BY <1>1, RestartOthers DEF FollowRedirect, Base
<1>11. ForwardInv'
  BY <1>1, <1>5, <1>7, <1>9, <1>10, AskedStays, ForwardsKept, {r} \in SUBSET Request
     DEF ForwardType
<1> QED
  BY <1>8, <1>11

\* The headers of an answer on the way are wanted, and carried (cc:333-357).
LEMMA AsksStep ==
    ASSUME Base, Base', ForwardType, ForwardInv, [Next]_vars, NEW r \in Request, Asks(r)
    PROVE  ForwardType' /\ ForwardInv'
<1>1. /\ client[r].phase = "redirected" /\ requests_' = requests_
      /\ in_progress' = in_progress
      /\ fields' = fields /\ at_loader' = at_loader /\ replaced' = replaced
      /\ max_level' = max_level
  BY DEF Asks, ClientFollows, tab_vars
<1>2. PICK new_url \in URL \cup {GURL} : follow' = [follow EXCEPT ![r] = Append(@, new_url)]
  BY DEF Asks, ClientFollows
<1>3. PICK params \in Headers :
        /\ carried' = [carried EXCEPT ![r] = params]
        /\ wanted' = [wanted EXCEPT ![r].headers = Merged(@, params)]
  <2>1. \A h \in Header : /\ [NoHeaders EXCEPT !.modified = {h}] \in Headers
                          /\ [NoHeaders EXCEPT !.removed = {h}] \in Headers
                          /\ [NoHeaders EXCEPT !.exempt = {h}] \in Headers
    BY DEF NoHeaders, Headers
  <2> QED
    BY <2>1, ReferrerFacts DEF Asks
<1>4. /\ r \in requests_ /\ follow[r] = <<>>
  BY <1>1 DEF Base, InStepInv, InStep, Stage, ClientSide, Over
<1>5. wanted[r] \in LoaderFields
  BY DEF ForwardType
<1>6. /\ wanted' \in [Request -> LoaderFields]
      /\ wanted'[r].headers = Merged(wanted[r].headers, params)
      /\ wanted'[r].priority = wanted[r].priority /\ wanted'[r].paused = wanted[r].paused
      /\ \A s \in Request \ {r} : wanted'[s] = wanted[s]
  <2> DEFINE w == [wanted[r] EXCEPT !.headers = Merged(@, params)]
  <2>1. /\ w \in LoaderFields /\ w.headers = Merged(wanted[r].headers, params)
        /\ w.priority = wanted[r].priority /\ w.paused = wanted[r].paused
    BY <1>5 DEF LoaderFields, Merged, Headers
  <2>2. wanted' = [wanted EXCEPT ![r] = w]
    BY <1>3 DEF ForwardType
  <2> HIDE DEF w
  <2> QED
    BY <2>1, <2>2 DEF ForwardType
<1>7. carried' \in [Request -> Headers] /\ carried'[r] = params
      /\ \A s \in Request \ {r} : carried'[s] = carried[s]
  BY <1>3 DEF ForwardType
<1>8. follow'[r] # <<>> /\ \A s \in Request \ {r} : follow'[s] = follow[s]
  <2>1. follow \in [Request -> Seq(URL \cup {GURL})]
    BY DEF Base, TypeOK
  <2>2. follow'[r] = Append(follow[r], new_url)
    BY <1>2, <2>1
  <2> DEFINE f == Append(follow[r], new_url)
  <2>3. f # <<>>
    <3>1. follow[r] \in Seq(URL \cup {GURL})
      BY <2>1
    <3>2. Len(f) = Len(follow[r]) + 1 /\ Len(follow[r]) \in Nat
      BY <3>1, AppendProperties, LenProperties
    <3> HIDE DEF f
    <3> QED
      BY <3>2, EmptySeq
  <2> QED
    BY <1>2, <2>1, <2>2, <2>3
<1>9. ForwardType'
  BY <1>1, <1>6, <1>7 DEF ForwardType
<1>10. Forwards(r)
  BY DEF ForwardInv
<1>11. Forwards(r)'
  BY <1>1, <1>4, <1>6, <1>7, <1>8, <1>10 DEF Forwards
<1>12. ForwardInv'
  BY <1>1, <1>6, <1>7, <1>8, <1>11, AskedStays, ForwardsKept, {r} \in SUBSET Request
<1> QED
  BY <1>9, <1>12

\* A redirect changes the loader's referrer, and request_'s once it is told of
\* (cc:168-211).
LEMMA RedirectsStep ==
    ASSUME Base, Base', ForwardType, ForwardInv, [Next]_vars, NEW r \in Request,
           LoaderIsRedirected(r) \/ TakesReferrer(r)
    PROVE  ForwardType' /\ ForwardInv'
<1>1. /\ requests_' = requests_ /\ follow' = follow
      /\ wanted' = wanted /\ carried' = carried /\ replaced' = replaced
      /\ max_level' = max_level
  BY DEF LoaderIsRedirected, TakesReferrer, LoaderRedirects, LoaderSends, OnReceiveRedirect,
         tab_vars
<1>2. r \in requests_
  <2>1. CASE LoaderIsRedirected(r)
    BY <2>1 DEF LoaderIsRedirected, LoaderRedirects, Base, InStepInv, InStep, Over, NoLoader
  <2>2. CASE TakesReferrer(r)
    BY <2>2 DEF TakesReferrer, OnReceiveRedirect, Receives
  <2> QED
    BY <2>1, <2>2
<1>3. \A s \in Request : in_progress'[s].target_loader_ = in_progress[s].target_loader_
  <2>1. CASE LoaderIsRedirected(r)
    BY <2>1 DEF LoaderIsRedirected, LoaderRedirects, LoaderSends
  <2>2. CASE TakesReferrer(r)
    <3> DEFINE p == [in_progress[r] EXCEPT !.ctx_.internal_redirect = FALSE]
               m == Head(from_net[r])
               q == ContinueToBeforeRedirect(p, m.new_url, m.new_method)
    <3>1. in_progress' = [in_progress EXCEPT ![r] = q]
      BY <2>2 DEF TakesReferrer, OnReceiveRedirect
    <3>2. in_progress[r] \in InProgressRequest
      BY <1>2 DEF Base, TypeOK
    <3>3. q.target_loader_ = in_progress[r].target_loader_
      BY <3>2 DEF ContinueToBeforeRedirect, InProgressRequest
    <3> HIDE DEF q
    <3> QED
      BY <3>1, <3>3 DEF Base, TypeOK
  <2> QED
    BY <2>1, <2>2
<1>4. at_loader[r] \in LoaderFields /\ fields[r] \in Fields
  BY DEF ForwardType
<1>5. /\ fields' \in [Request -> Fields] /\ at_loader' \in [Request -> LoaderFields]
      /\ fields'[r].headers = fields[r].headers
      /\ at_loader'[r].headers = at_loader[r].headers
      /\ at_loader'[r].priority = at_loader[r].priority
      /\ at_loader'[r].paused = at_loader[r].paused
      /\ \A s \in Request \ {r} : fields'[s] = fields[s] /\ at_loader'[s] = at_loader[s]
  <2>1. CASE LoaderIsRedirected(r)
    <3>1. PICK referrer \in Referrers :
            at_loader' = [at_loader EXCEPT ![r].referrer = referrer]
      BY <1>4, <2>1, ReferrerFacts DEF LoaderIsRedirected, RedirectReferrers, LoaderFields
    <3> DEFINE l == [at_loader[r] EXCEPT !.referrer = referrer]
    <3>2. /\ l \in LoaderFields /\ l.headers = at_loader[r].headers
          /\ l.priority = at_loader[r].priority /\ l.paused = at_loader[r].paused
      BY <1>4 DEF LoaderFields
    <3>3. at_loader' = [at_loader EXCEPT ![r] = l] /\ fields' = fields
      BY <2>1, <3>1 DEF ForwardType, LoaderIsRedirected
    <3> HIDE DEF l
    <3> QED
      BY <3>2, <3>3 DEF ForwardType
  <2>2. CASE TakesReferrer(r)
    <3> DEFINE f == [fields[r] EXCEPT !.referrer = at_loader[r].referrer]
    <3>1. f \in Fields /\ f.headers = fields[r].headers
      BY <1>4 DEF Fields, LoaderFields
    <3>2. fields' = [fields EXCEPT ![r] = f] /\ at_loader' = at_loader
      BY <2>2 DEF TakesReferrer, ForwardType
    <3> HIDE DEF f
    <3> QED
      BY <3>1, <3>2 DEF ForwardType
  <2> QED
    BY <2>1, <2>2
<1>6. ForwardType'
  BY <1>1, <1>5 DEF ForwardType
<1>7. Forwards(r)
  BY DEF ForwardInv
<1>8. Forwards(r)'
  BY <1>1, <1>2, <1>3, <1>5, <1>7 DEF Forwards
<1>9. ForwardInv'
  BY <1>1, <1>3, <1>5, <1>8, AskedStays, ForwardsKept, {r} \in SUBSET Request
<1> QED
  BY <1>6, <1>9

\* Nothing is left of a request that ends (cc:435-447, 525-557).
LEMMA EndsStep ==
    ASSUME Base, Base', ForwardType, ForwardInv, [Next]_vars, NEW r \in Request, Ends(r)
    PROVE  ForwardType' /\ ForwardInv'
<1>1. /\ RemoveRequest(r) /\ r \in requests_
      /\ fields' = [fields EXCEPT ![r] = NoFields]
      /\ at_loader' = [at_loader EXCEPT ![r] = Fresh]
      /\ carried' = [carried EXCEPT ![r] = NoHeaders]
      /\ wanted' = wanted /\ replaced' = replaced /\ max_level' = max_level
  BY DEF Ends, OnClientDisconnect, OnComplete, OnRequestError, Receives, tab_vars
<1>2. /\ requests_' = requests_ \ {r}
      /\ in_progress'[r].target_loader_ = FALSE
      /\ \A s \in Request \ {r} :
           in_progress'[s] = in_progress[s] /\ follow'[s] = follow[s]
  BY <1>1 DEF RemoveRequest, Base, TypeOK, Deleted
<1>3. /\ fields' \in [Request -> Fields] /\ at_loader' \in [Request -> LoaderFields]
      /\ carried' \in [Request -> Headers] /\ at_loader'[r] = Fresh
      /\ \A s \in Request \ {r} :
           /\ fields'[s] = fields[s] /\ at_loader'[s] = at_loader[s]
           /\ carried'[s] = carried[s]
  BY <1>1, ReferrerFacts DEF ForwardType
<1>4. client'[r].phase # "idle"
  <2>1. client[r].phase # "idle"
    BY <1>1 DEF Base, InStepInv, InStep, Stage, ClientSide
  <2> QED
    BY <2>1, AskedStays DEF Asked
<1>5. ForwardType'
  BY <1>1, <1>3 DEF ForwardType
<1>6. Forwards(r)'
  BY <1>2, <1>3, <1>4 DEF Forwards
<1>7. ForwardInv'
  BY <1>1, <1>2, <1>3, <1>6, AskedStays, ForwardsKept, {r} \in SUBSET Request
<1> QED
  BY <1>5, <1>7

\* Priority, pause and resume reach the loader there is, and no other
\* (cc:135-155).
LEMMA CallsStep ==
    ASSUME Base, Base', ForwardType, ForwardInv, [Next]_vars, NEW r \in Request,
           SetPriority(r) \/ PauseReadingBodyFromNet(r) \/ ResumeReadingBodyFromNet(r)
    PROVE  ForwardType' /\ ForwardInv'
<1> DEFINE p == in_progress[r]
           w == wanted[r]
           l == at_loader[r]
<1>1. /\ vars' = vars /\ fields' = fields /\ carried' = carried /\ max_level' = max_level
      /\ r \in requests_ /\ follow[r] = <<>>
  BY DEF SetPriority, PauseReadingBodyFromNet, ResumeReadingBodyFromNet, Calls, tab_vars
<1>2. requests_' = requests_ /\ follow' = follow /\ in_progress' = in_progress
  BY <1>1 DEF vars
<1>3. /\ w \in LoaderFields /\ l \in LoaderFields /\ replaced[r] \in BOOLEAN
      /\ p.target_loader_ \in BOOLEAN
  <2>1. p.target_loader_ \in BOOLEAN
    BY FlagTypes DEF Base, TypeOK
  <2> QED
    BY <2>1 DEF ForwardType
<1>4. Forwards(r)
  BY DEF ForwardInv
<1>5. ASSUME NEW new_w \in LoaderFields, NEW new_l \in LoaderFields, NEW new_x \in BOOLEAN,
             wanted' = [wanted EXCEPT ![r] = new_w],
             at_loader' = [at_loader EXCEPT ![r] = new_l],
             replaced' = [replaced EXCEPT ![r] = new_x],
             new_w.headers = w.headers, new_l.headers = l.headers,
             p.target_loader_ => new_x \/ new_l.priority = new_w.priority,
             new_l.paused => p.target_loader_ /\ new_w.paused
      PROVE  ForwardType' /\ ForwardInv'
  <2>1. /\ wanted'[r] = new_w /\ at_loader'[r] = new_l /\ replaced'[r] = new_x
        /\ \A s \in Request \ {r} :
             /\ wanted'[s] = wanted[s] /\ at_loader'[s] = at_loader[s]
             /\ replaced'[s] = replaced[s]
    BY <1>5 DEF ForwardType
  <2>2. ForwardType'
    BY <1>1, <1>5 DEF ForwardType
  <2>3. Forwards(r)'
    BY <1>1, <1>2, <1>4, <1>5, <2>1 DEF Forwards
  <2>4. ForwardInv'
    BY <1>1, <1>2, <2>1, <2>3, AskedStays, ForwardsKept, {r} \in SUBSET Request
  <2> QED
    BY <2>2, <2>4
<1>6. CASE SetPriority(r)
  <2>1. PICK priority \in {"LOW", "HIGH"} :
          /\ wanted' = [wanted EXCEPT ![r].priority = priority]
          /\ at_loader' = [at_loader EXCEPT ![r].priority =
               IF p.target_loader_ THEN priority ELSE @]
    BY <1>6 DEF SetPriority, HandsOn
  <2> DEFINE new_w == [w EXCEPT !.priority = priority]
             new_l == [l EXCEPT !.priority = IF p.target_loader_ THEN priority ELSE @]
             new_x == replaced[r] \/ ~p.target_loader_
  <2>2. /\ wanted' = [wanted EXCEPT ![r] = new_w]
        /\ at_loader' = [at_loader EXCEPT ![r] = new_l]
        /\ replaced' = [replaced EXCEPT ![r] = new_x]
    BY <1>6, <2>1 DEF ForwardType, SetPriority
  <2>3. /\ new_w \in LoaderFields /\ new_l \in LoaderFields /\ new_x \in BOOLEAN
        /\ new_w.headers = w.headers /\ new_l.headers = l.headers
        /\ new_w.paused = w.paused /\ new_l.paused = l.paused
        /\ p.target_loader_ => new_l.priority = new_w.priority
    BY <1>3 DEF LoaderFields
  <2> HIDE DEF new_w, new_l, new_x, w, l
  <2>4. new_l.paused => p.target_loader_ /\ new_w.paused
    BY <1>1, <1>4, <2>3 DEF Forwards, w, l
  <2> QED
    BY <1>5, <2>2, <2>3, <2>4
<1>7. CASE PauseReadingBodyFromNet(r) \/ ResumeReadingBodyFromNet(r)
  <2>1. PICK paused \in BOOLEAN :
          /\ wanted' = [wanted EXCEPT ![r].paused = paused]
          /\ at_loader' = [at_loader EXCEPT ![r].paused =
               IF p.target_loader_ THEN paused ELSE @]
          /\ replaced' = replaced
    <3>1. CASE PauseReadingBodyFromNet(r)
      <4>1. (l.paused \/ p.target_loader_) = IF p.target_loader_ THEN TRUE ELSE l.paused
        BY <1>3 DEF LoaderFields
      <4>2. at_loader' = [at_loader EXCEPT ![r].paused = l.paused \/ p.target_loader_]
        BY <3>1 DEF PauseReadingBodyFromNet, HandsOn, ForwardType
      <4> QED
        BY <3>1, <4>1, <4>2 DEF PauseReadingBodyFromNet, ForwardType
    <3>2. CASE ResumeReadingBodyFromNet(r)
      <4>1. (l.paused /\ ~p.target_loader_) = IF p.target_loader_ THEN FALSE ELSE l.paused
        BY <1>3 DEF LoaderFields
      <4>2. at_loader' = [at_loader EXCEPT ![r].paused = l.paused /\ ~p.target_loader_]
        BY <3>2 DEF ResumeReadingBodyFromNet, HandsOn, ForwardType
      <4> QED
        BY <3>2, <4>1, <4>2 DEF ResumeReadingBodyFromNet, ForwardType
    <3> QED
      BY <1>7, <3>1, <3>2
  <2> DEFINE new_w == [w EXCEPT !.paused = paused]
             new_l == [l EXCEPT !.paused = IF p.target_loader_ THEN paused ELSE @]
  <2>2. /\ wanted' = [wanted EXCEPT ![r] = new_w]
        /\ at_loader' = [at_loader EXCEPT ![r] = new_l]
        /\ replaced' = [replaced EXCEPT ![r] = replaced[r]]
    BY <2>1 DEF ForwardType
  <2>3. /\ new_w \in LoaderFields /\ new_l \in LoaderFields
        /\ new_w.headers = w.headers /\ new_l.headers = l.headers
        /\ new_w.priority = w.priority /\ new_l.priority = l.priority
        /\ new_w.paused = paused
        /\ new_l.paused = IF p.target_loader_ THEN paused ELSE l.paused
    BY <1>3 DEF LoaderFields
  <2> HIDE DEF new_w, new_l, w, l
  <2>4. /\ new_l.paused => p.target_loader_ /\ new_w.paused
        /\ p.target_loader_ => replaced[r] \/ new_l.priority = new_w.priority
    BY <1>1, <1>4, <2>3 DEF Forwards, w, l
  <2> QED
    BY <1>3, <1>5, <2>2, <2>3, <2>4
<1> QED
  BY <1>6, <1>7

\* The rest leaves the fields alone, and the loader where it is.
LEMMA OthersStep ==
    ASSUME Base, Base', ForwardType, ForwardInv, [Next]_vars,
           Others \/ MaxLevelChanges \/ UNCHANGED all_vars
    PROVE  ForwardType' /\ ForwardInv'
<1>1. forward_vars' = forward_vars /\ replaced' = replaced /\ max_level' \in BOOLEAN
  BY DEF Others, MaxLevelChanges, all_vars, tab_vars, ForwardType
<1>2. /\ fields' = fields /\ at_loader' = at_loader /\ wanted' = wanted
      /\ carried' = carried
  BY <1>1 DEF forward_vars
<1>3. requests_' = requests_ /\ follow' = follow
      /\ \A s \in Request : in_progress'[s].target_loader_ = in_progress[s].target_loader_
  <2>1. CASE vars' = vars
    BY <2>1 DEF vars
  <2>2. CASE FactoryHandler \/ NetworkServiceDies \/ TrackingBlockerChanges
             \/ DidFinishNavigation
    BY <2>2, Zenon
       DEF FactoryHandler, Clone, OnProxyBindingError, OnTargetFactoryError,
           NetworkServiceDies, TrackingBlockerChanges, DidFinishNavigation
  <2>3. ASSUME NEW r \in Request,
               ClientCloses(r) \/ LoaderResponds(r) \/ LoaderCompletes(r) \/ LoaderFails(r)
        PROVE  requests_' = requests_ /\ follow' = follow /\ in_progress' = in_progress
    BY <2>3, Zenon DEF ClientCloses, LoaderResponds, LoaderCompletes, LoaderFails, LoaderSends
  <2>4. ASSUME NEW r \in Request, OnReceiveResponse(r)
        PROVE  requests_' = requests_ /\ follow' = follow
               /\ \A s \in Request :
                    in_progress'[s].target_loader_ = in_progress[s].target_loader_
    <3> DEFINE q == [in_progress[r] EXCEPT !.ctx_.internal_redirect = FALSE]
    <3>1. /\ in_progress[r] \in InProgressRequest
          /\ in_progress' = [in_progress EXCEPT ![r] = q]
          /\ requests_' = requests_ /\ follow' = follow
      BY <2>4 DEF OnReceiveResponse, Receives, Base, TypeOK
    <3>2. q.target_loader_ = in_progress[r].target_loader_
      BY <3>1 DEF InProgressRequest
    <3> HIDE DEF q
    <3> QED
      BY <3>1, <3>2 DEF Base, TypeOK
  <2> QED
    BY <2>1, <2>2, <2>3, <2>4 DEF Others, MaxLevelChanges, all_vars
<1>4. ForwardType'
  BY <1>1, <1>2 DEF ForwardType
<1>5. ForwardInv'
  BY <1>1, <1>2, <1>3, AskedStays, ForwardsKept, {} \in SUBSET Request
<1> QED
  BY <1>4, <1>5

-----------------------------------------------------------------------------
\* The invariant holds at first.
LEMMA InitForward == ForwardInit => Base /\ ForwardType /\ ForwardInv
<1> SUFFICES ASSUME ForwardInit
             PROVE  Base /\ ForwardType /\ ForwardInv
  OBVIOUS
<1>1. Base
  BY InitBase DEF ForwardInit
<1>2. ForwardType
  BY ReferrerFacts DEF ForwardInit, ForwardType
<1>3. \A r \in Request : in_progress[r].target_loader_ = FALSE /\ requests_ = {}
  BY DEF ForwardInit, Init, Deleted
<1>4. ForwardInv
  BY <1>3 DEF ForwardInit, ForwardInv, Forwards, Fresh
<1> QED
  BY <1>1, <1>2, <1>4

\* Every step keeps it.
LEMMA NextForward ==
    ASSUME Base, ForwardType, ForwardInv, [ForwardNext]_all_vars
    PROVE  Base' /\ ForwardType' /\ ForwardInv'
<1>1. [Next]_vars
  BY ForwardStep
<1>2. Base'
  BY <1>1, NextBase
<1> QED
  BY <1>1, <1>2, CreatesStep, FollowsStep, AsksStep, RedirectsStep, EndsStep, CallsStep,
     OthersStep, Zenon DEF ForwardNext

\* So it holds always.
LEMMA AlwaysForward == ForwardSpec => [](Base /\ ForwardType /\ ForwardInv)
<1>1. Base /\ ForwardType /\ ForwardInv /\ [ForwardNext]_all_vars
        => (Base /\ ForwardType /\ ForwardInv)'
  BY NextForward
<1> QED
  BY <1>1, InitForward, PTL DEF ForwardSpec

\* LoaderHasClientHeaders, for every set of headers and requests.
THEOREM HeadersCorrect == ForwardSpec => []LoaderHasClientHeaders
<1>1. Base /\ ForwardInv => LoaderHasClientHeaders
  BY DEF ForwardInv, Forwards, LoaderHasClientHeaders, Base, TypeOK
<1> QED
  BY <1>1, AlwaysForward, PTL

\* ResumeIsNeverLost, for every set of requests.
THEOREM ResumeCorrect == ForwardSpec => []ResumeIsNeverLost
<1>1. Base /\ ForwardInv => ResumeIsNeverLost
  BY DEF ForwardInv, Forwards, ResumeIsNeverLost, Base, TypeOK
<1> QED
  BY <1>1, AlwaysForward, PTL

\* PriorityIsLostWithTheLoader, for every set of requests.
THEOREM PriorityCorrect == ForwardSpec => []PriorityIsLostWithTheLoader
<1>1. Base /\ ForwardInv => PriorityIsLostWithTheLoader
  BY DEF ForwardInv, Forwards, PriorityIsLostWithTheLoader, Base, TypeOK
<1> QED
  BY <1>1, AlwaysForward, PTL

-----------------------------------------------------------------------------
\* The referrer of a new loader.
LEMMA NextCapped ==
    ASSUME Base, ForwardType, ForwardInv, [ForwardNext]_all_vars, NEW r \in Request,
           loader[r].phase = "none", loader'[r].phase = "loading",
           max_level, resource_type \notin {"kMainFrame", "kSubFrame"}
    PROVE  IsCapped(at_loader'[r].referrer, loader'[r].url)
<1> DEFINE p == in_progress[r]
           q == in_progress'[r]
<1>1. Base' /\ TypeOK /\ InStepInv /\ InStepInv'
  <2>1. Base'
    BY ForwardStep, NextBase
  <2> QED
    BY <2>1 DEF Base
<1>2. /\ loader'[r].url = q.request_.url
      /\ ~q.request_completed_ /\ q.target_loader_
  <2>1. r \in requests_'
    BY <1>1 DEF InStepInv, InStep, Over, NoLoader
  <2>2. /\ URLs(q, client'[r], follow'[r], loader'[r], from_net'[r])
        /\ NetworkSide(q, client'[r], loader'[r], from_net'[r], target_factory_')
    BY <1>1, <2>1 DEF InStepInv, InStep, Stage
  <2> QED
    BY <2>2 DEF URLs, NetworkSide, Waits, NoLoader
<1>3. ~p.target_loader_
  <2>1. CASE r \in requests_
    <3>1. NetworkSide(p, client[r], loader[r], from_net[r], target_factory_)
      BY <1>1, <2>1 DEF InStepInv, InStep, Stage
    <3> QED
      BY <3>1 DEF NetworkSide, Waits, Untold, Told
  <2>2. CASE r \notin requests_
    BY <2>2 DEF ForwardInv, Forwards
  <2> QED
    BY <2>1, <2>2
<1>4. ASSUME NEW request \in Fields, NEW params, Restarted(r, request, params)
      PROVE  IsCapped(at_loader'[r].referrer, loader'[r].url)
  <2>1. at_loader'[r].referrer
          = ApplyPotentialReferrerBlock(ReferrerCTX(request.referrer, q.request_.url))
    BY <1>2, <1>3, <1>4, Zenon DEF Restarted
  <2>2. request.referrer \in Referrers
    BY DEF Fields
  <2> QED
    BY <1>2, <2>1, <2>2, BlockFacts
<1>5. CASE Creates(r)
  <2>1. PICK referrer \in Referrer :
          Restarted(r, [headers |-> {}, referrer |-> referrer], NoHeaders)
    BY <1>1, <1>5, CreatesRestarts, Zenon
  <2>2. [headers |-> {}, referrer |-> referrer] \in Fields
    BY ReferrerFacts DEF Fields
  <2> QED
    BY <1>4, <2>1, <2>2, Zenon
<1>6. CASE Follows(r)
  <2>1. Restarted(r, TakesHeaders(r, fields[r], carried[r]), carried[r])
    BY <1>1, <1>6, FollowsRestarts, Zenon
  <2>2. TakesHeaders(r, fields[r], carried[r]) \in Fields
    BY DEF TakesHeaders, ForwardType, Fields, Merged, Headers
  <2> QED
    BY <1>4, <2>1, <2>2, Zenon
<1>7. Creates(r) \/ Follows(r)
  <2>1. ASSUME NEW s \in Request, s # r
        PROVE  ~Creates(s) /\ ~Follows(s)
    BY <1>1, <2>1, NothingElseStarts, Zenon DEF Creates, Follows
  <2>2. ASSUME NEW s \in Request
        PROVE  /\ ~Asks(s) /\ ~LoaderIsRedirected(s) /\ ~TakesReferrer(s) /\ ~Ends(s)
               /\ ~SetPriority(s) /\ ~PauseReadingBodyFromNet(s)
               /\ ~ResumeReadingBodyFromNet(s)
    BY <1>1, <2>2, NothingElseStarts, Zenon
       DEF Asks, LoaderIsRedirected, TakesReferrer, Ends, SetPriority,
           PauseReadingBodyFromNet, ResumeReadingBodyFromNet
  <2>3. ~Others /\ ~MaxLevelChanges /\ ~UNCHANGED all_vars
    BY <1>1, NothingElseStarts, Zenon DEF Others, MaxLevelChanges, all_vars
  <2> QED
    BY <2>1, <2>2, <2>3, Zenon DEF ForwardNext
<1> QED
  BY <1>5, <1>6, <1>7

\* NewLoaderIsCapped, for every set of pages, requests and resource types.
THEOREM CapOnTheWireCorrect == ForwardSpec => NewLoaderIsCapped
<1>1. Base /\ ForwardType /\ ForwardInv /\ [ForwardNext]_all_vars
        => [ \A r \in Request :
               (/\ loader[r].phase = "none" /\ loader'[r].phase = "loading"
                /\ max_level
                /\ resource_type \notin {"kMainFrame", "kSubFrame"})
               => IsCapped(at_loader'[r].referrer, loader'[r].url)
           ]_all_vars
  BY NextCapped
<1> QED
  BY <1>1, AlwaysForward, PTL DEF ForwardSpec, NewLoaderIsCapped
=============================================================================
