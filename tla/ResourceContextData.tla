-------------------------- MODULE ResourceContextData --------------------------
(***************************************************************************)
(* The factories of one profile (net/resource_context_data.{h,cc}): who    *)
(* owns them, when they are erased, and the request ids they hand out.  Of *)
(* each WhaleProxyingURLLoaderFactory only what its owner can see of it is *)
(* left: whether its target is bound, which requests are in progress and   *)
(* the next id.                                                            *)
(***************************************************************************)
EXTENDS Naturals, FiniteSets

CONSTANTS
    Proxy,       \* the factories that may be asked for
    Request,     \* the requests each of them may take
    MaxId        \* bound on the ids counted

ASSUME MaxIdAssumption == MaxId \in Nat

VARIABLES
    created,          \* the BrowserContext holds a ResourceContextData
    shut_down,        \* the BrowserContext was destroyed
    request_id_,      \* its counter
    proxies_,         \* the factories it owns
    asked,            \* the factories asked for so far
    target_factory_,  \* proxy |-> target_factory_.is_bound()
    next_id,          \* proxy |-> its own request_id_
    requests_,        \* proxy |-> the requests in progress
    whale_request_id, \* proxy |-> request |-> the id it was given, 0 for none
    erasures          \* proxy |-> how often disconnect_callback_ erased it

proxy_vars == <<target_factory_, next_id, requests_, whale_request_id>>
vars == <<created, shut_down, request_id_, proxies_, asked, proxy_vars, erasures>>

Init ==
    /\ created = FALSE
    /\ shut_down = FALSE
    /\ request_id_ = 0
    /\ proxies_ = {}
    /\ asked = {}
    /\ target_factory_ = [p \in Proxy |-> FALSE]
    /\ next_id = [p \in Proxy |-> 0]
    /\ requests_ = [p \in Proxy |-> {}]
    /\ whale_request_id = [p \in Proxy |-> [r \in Request |-> 0]]
    /\ erasures = [p \in Proxy |-> 0]

-----------------------------------------------------------------------------
next_request_id == request_id_ + 1

\* MaybeProxyRequest always asks for a factory; the first of a profile also
\* makes the ResourceContextData.
StartProxying(p) ==
    /\ ~shut_down
    /\ p \notin asked
    /\ next_request_id <= MaxId
    /\ created' = TRUE
    /\ request_id_' = request_id_ + 1
    /\ proxies_' = proxies_ \cup {p}
    /\ asked' = asked \cup {p}
    /\ target_factory_' = [target_factory_ EXCEPT ![p] = TRUE]
    /\ next_id' = [next_id EXCEPT ![p] = next_request_id]
    /\ UNCHANGED <<shut_down, requests_, whale_request_id, erasures>>

\* F_Word just before F, as NextId_Stays here, is a faulty variant of F: no
\* definition uses it, and some property is violated with it in F's place.
NextId_Stays(p) == next_id[p]
NextId(p) == next_id[p] + 1

CreateLoaderAndStart(p, r) ==
    /\ p \in proxies_
    /\ target_factory_[p]
    /\ whale_request_id[p][r] = 0
    /\ NextId(p) <= MaxId
    /\ whale_request_id' = [whale_request_id EXCEPT ![p][r] = next_id[p]]
    /\ next_id' = [next_id EXCEPT ![p] = NextId(p)]
    /\ requests_' = [requests_ EXCEPT ![p] = @ \cup {r}]
    /\ UNCHANGED <<created, shut_down, request_id_, proxies_, asked,
                   target_factory_, erasures>>

\* proxies_.find must succeed; the erased factory is deleted.
RemoveProxy(p) ==
    /\ proxies_' = proxies_ \ {p}
    /\ erasures' = [erasures EXCEPT ![p] = @ + 1]

MaybeRemoveProxy_Eager(p, bound, requests) ==
    IF bound THEN UNCHANGED <<proxies_, erasures>> ELSE RemoveProxy(p)
MaybeRemoveProxy(p, bound, requests) ==
    IF bound \/ requests # {}
    THEN UNCHANGED <<proxies_, erasures>>
    ELSE RemoveProxy(p)

\* The last client closes its pipe, or the network service drops its end.
LoseTarget(p) ==
    /\ p \in proxies_
    /\ target_factory_[p]
    /\ target_factory_' = [target_factory_ EXCEPT ![p] = FALSE]
    /\ MaybeRemoveProxy(p, FALSE, requests_[p])
    /\ UNCHANGED <<created, shut_down, request_id_, asked, next_id, requests_,
                   whale_request_id>>

\* A request ends in one of the ways of WhaleProxyingURLLoaderFactory.
RemoveRequest(p, r) ==
    /\ r \in requests_[p]
    /\ requests_' = [requests_ EXCEPT ![p] = @ \ {r}]
    /\ MaybeRemoveProxy(p, target_factory_[p], requests_[p] \ {r})
    /\ UNCHANGED <<created, shut_down, request_id_, asked, target_factory_,
                   next_id, whale_request_id>>

\* The BrowserContext and with it its user data go: every factory is deleted
\* with its requests, and none of them calls back.
BrowserContextDestroyed ==
    /\ ~shut_down
    /\ shut_down' = TRUE
    /\ created' = FALSE
    /\ proxies_' = {}
    /\ target_factory_' = [p \in Proxy |-> FALSE]
    /\ requests_' = [p \in Proxy |-> {}]
    /\ UNCHANGED <<request_id_, asked, next_id, whale_request_id, erasures>>

Next ==
    \/ \E p \in Proxy :
         \/ StartProxying(p)
         \/ LoseTarget(p)
         \/ \E r \in Request : CreateLoaderAndStart(p, r) \/ RemoveRequest(p, r)
    \/ BrowserContextDestroyed

Spec == Init /\ [][Next]_vars

-----------------------------------------------------------------------------
TypeOK ==
    /\ created \in BOOLEAN
    /\ shut_down \in BOOLEAN
    /\ request_id_ \in 0 .. MaxId
    /\ proxies_ \subseteq asked /\ asked \subseteq Proxy
    /\ target_factory_ \in [Proxy -> BOOLEAN]
    /\ next_id \in [Proxy -> 0 .. MaxId]
    /\ requests_ \in [Proxy -> SUBSET Request]
    /\ whale_request_id \in [Proxy -> [Request -> 0 .. MaxId]]
    /\ erasures \in [Proxy -> {0, 1}]

\* A factory is owned exactly while it has a target or a request, and once it
\* is erased nothing of it is left to call RemoveProxy a second time
\* (resource_context_data.cc:51-55; factory.cc:540-557).
OwnedWhileNeeded ==
    /\ \A p \in Proxy : p \in proxies_ <=> (target_factory_[p] \/ requests_[p] # {})
    /\ \A p \in Proxy : p \in proxies_ => created /\ erasures[p] = 0

\* Within one factory no two requests have the same id
\* (factory.cc:507-511).
IdsUniqueInFactory ==
    \A p \in Proxy : \A r, s \in Request :
      (whale_request_id[p][r] = whale_request_id[p][s] /\ whale_request_id[p][r] # 0)
        => r = s

\* factory.cc:507-509: "The request ID doesn't really matter in the Network
\* Service path. It just needs to be unique per-BrowserContext so request
\* handlers can make sense of it."
IdsUniquePerBrowserContext ==
    \A p, q \in Proxy : \A r \in requests_[p], s \in requests_[q] :
      whale_request_id[p][r] = whale_request_id[q][s] => p = q /\ r = s
=============================================================================
