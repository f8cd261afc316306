----------------------- MODULE ResourceContextData_proofs -----------------------
(***************************************************************************)
(* For every set of factories and of requests and every bound on the ids:  *)
(* who owns a factory, that it is erased once, and that its ids differ.    *)
(***************************************************************************)
EXTENDS ResourceContextData, TLAPS

\* A factory that was not asked for has nothing.
Fresh(p) ==
    p \notin asked =>
      /\ ~target_factory_[p]
      /\ requests_[p] = {}
      /\ erasures[p] = 0
      /\ \A r \in Request : whale_request_id[p][r] = 0

\* The counter of a factory in use is ahead of every id it has given.
CounterAhead(p) ==
    /\ p \in asked => next_id[p] > 0
    /\ \A r \in Request :
         whale_request_id[p][r] # 0 => whale_request_id[p][r] < next_id[p]

Owned(p) ==
    /\ p \in proxies_ <=> (target_factory_[p] \/ requests_[p] # {})
    /\ p \in proxies_ => created /\ erasures[p] = 0

UniqueIds(p) ==
    \A r, s \in Request :
      (whale_request_id[p][r] = whale_request_id[p][s] /\ whale_request_id[p][r] # 0)
        => r = s

IInv ==
    /\ TypeOK
    /\ \A p \in Proxy : Fresh(p) /\ CounterAhead(p) /\ Owned(p) /\ UniqueIds(p)

LEMMA InitInv == Init => IInv
  <1> SUFFICES ASSUME Init PROVE IInv
    OBVIOUS
  <1>1. TypeOK
    <2>1. /\ created \in BOOLEAN /\ shut_down \in BOOLEAN
          /\ target_factory_ \in [Proxy -> BOOLEAN]
      BY DEF Init
    <2>2. /\ request_id_ \in 0 .. MaxId /\ next_id \in [Proxy -> 0 .. MaxId]
          /\ whale_request_id \in [Proxy -> [Request -> 0 .. MaxId]]
          /\ erasures \in [Proxy -> {0, 1}]
      BY MaxIdAssumption DEF Init
    <2> QED BY <2>1, <2>2 DEF Init, TypeOK
  <1>2. ASSUME NEW p \in Proxy
        PROVE  Fresh(p) /\ CounterAhead(p) /\ Owned(p) /\ UniqueIds(p)
    BY DEF Init, Fresh, CounterAhead, Owned, UniqueIds
  <1> QED BY <1>1, <1>2 DEF IInv

LEMMA StartProxyingInv ==
  ASSUME IInv, NEW p \in Proxy, StartProxying(p)
  PROVE  IInv'
  <1> USE DEF IInv, StartProxying, next_request_id
  <1>1. TypeOK'
    BY MaxIdAssumption DEF TypeOK
  <1>2. ASSUME NEW q \in Proxy
        PROVE  Fresh(q)' /\ CounterAhead(q)' /\ Owned(q)' /\ UniqueIds(q)'
    <2>1. UniqueIds(q)'
      BY DEF UniqueIds
    <2>2. CASE q = p
      <3>1. requests_[p] = {} /\ erasures[p] = 0
            /\ \A r \in Request : whale_request_id[p][r] = 0
        BY DEF Fresh
      <3>2. target_factory_'[p] /\ next_id'[p] > 0 /\ p \in asked' /\ p \in proxies_'
        BY DEF TypeOK
      <3> QED BY <2>1, <2>2, <3>1, <3>2 DEF Fresh, CounterAhead, Owned
    <2>3. CASE q # p
      <3>1. target_factory_'[q] = target_factory_[q] /\ next_id'[q] = next_id[q]
            /\ (q \in asked' <=> q \in asked) /\ (q \in proxies_' <=> q \in proxies_)
        BY <2>3 DEF TypeOK
      <3>2. Fresh(q)' /\ CounterAhead(q)'
        BY <3>1 DEF Fresh, CounterAhead
      <3>3. Owned(q)'
        BY <3>1 DEF Owned
      <3> QED BY <2>1, <3>2, <3>3
    <2> QED BY <2>2, <2>3
  <1> QED BY <1>1, <1>2

\* What the end of a target or of a request does to the ownership of a factory.
LEMMA OwnershipStep ==
  ASSUME IInv, NEW p \in proxies_, NEW bound \in BOOLEAN, NEW requests \in SUBSET Request,
         MaybeRemoveProxy(p, bound, requests),
         target_factory_' = [target_factory_ EXCEPT ![p] = bound],
         requests_' = [requests_ EXCEPT ![p] = requests],
         UNCHANGED <<created, shut_down, request_id_, asked, next_id, whale_request_id>>
  PROVE  IInv'
  <1> USE DEF IInv
  <1>0. p \in Proxy /\ p \in asked /\ erasures[p] = 0
    BY DEF TypeOK, Owned
  <1>1. /\ proxies_' = IF bound \/ requests # {} THEN proxies_ ELSE proxies_ \ {p}
        /\ erasures' = IF bound \/ requests # {} THEN erasures
                       ELSE [erasures EXCEPT ![p] = 1]
    BY <1>0 DEF MaybeRemoveProxy, RemoveProxy, TypeOK
  <1>2. TypeOK'
    <2>1. /\ created' \in BOOLEAN /\ shut_down' \in BOOLEAN
          /\ request_id_' \in 0 .. MaxId /\ next_id' \in [Proxy -> 0 .. MaxId]
          /\ whale_request_id' \in [Proxy -> [Request -> 0 .. MaxId]]
      BY DEF TypeOK
    <2>2. proxies_' \subseteq asked' /\ asked' \subseteq Proxy
      BY <1>1 DEF TypeOK
    <2>3. target_factory_' \in [Proxy -> BOOLEAN] /\ requests_' \in [Proxy -> SUBSET Request]
      BY DEF TypeOK
    <2>4. erasures' \in [Proxy -> {0, 1}]
      BY <1>1 DEF TypeOK
    <2> QED BY <2>1, <2>2, <2>3, <2>4 DEF TypeOK
  <1>3. ASSUME NEW q \in Proxy
        PROVE  Fresh(q)' /\ CounterAhead(q)' /\ Owned(q)' /\ UniqueIds(q)'
    <2>1. UniqueIds(q)' /\ CounterAhead(q)'
      BY DEF UniqueIds, CounterAhead
    <2>2. CASE q = p
      <3>1. target_factory_'[p] = bound /\ requests_'[p] = requests
        BY <1>0 DEF TypeOK
      <3>2. Owned(p)'
        BY <1>0, <1>1, <3>1 DEF Owned
      <3> QED BY <1>0, <2>1, <2>2, <3>2 DEF Fresh
    <2>3. CASE q # p
      <3>1. target_factory_'[q] = target_factory_[q] /\ requests_'[q] = requests_[q]
            /\ (q \in proxies_' <=> q \in proxies_) /\ erasures'[q] = erasures[q]
        BY <1>1, <2>3 DEF TypeOK
      <3> QED BY <2>1, <3>1 DEF Fresh, Owned
    <2> QED BY <2>2, <2>3
  <1> QED BY <1>2, <1>3

LEMMA LoseTargetInv ==
  ASSUME IInv, NEW p \in Proxy, LoseTarget(p)
  PROVE  IInv'
  <1>1. requests_' = [requests_ EXCEPT ![p] = requests_[p]]
    BY DEF LoseTarget, IInv, TypeOK
  <1>2. requests_[p] \in SUBSET Request
    BY DEF IInv, TypeOK
  <1> QED BY <1>1, <1>2, OwnershipStep DEF LoseTarget

LEMMA RemoveRequestInv ==
  ASSUME IInv, NEW p \in Proxy, NEW r \in Request, RemoveRequest(p, r)
  PROVE  IInv'
  <1>1. p \in proxies_
    BY DEF RemoveRequest, IInv, Owned
  <1>2. /\ requests_' = [requests_ EXCEPT ![p] = requests_[p] \ {r}]
        /\ target_factory_' = [target_factory_ EXCEPT ![p] = target_factory_[p]]
    BY DEF RemoveRequest, IInv, TypeOK
  <1>3. requests_[p] \ {r} \in SUBSET Request /\ target_factory_[p] \in BOOLEAN
    BY DEF IInv, TypeOK
  <1> QED BY <1>1, <1>2, <1>3, OwnershipStep DEF RemoveRequest

LEMMA CreateLoaderAndStartInv ==
  ASSUME IInv, NEW p \in Proxy, NEW r \in Request, CreateLoaderAndStart(p, r)
  PROVE  IInv'
  <1> USE DEF IInv, CreateLoaderAndStart, NextId
  <1>0. p \in asked /\ p \in proxies_ /\ next_id[p] > 0
    BY DEF TypeOK, CounterAhead
  <1>1. TypeOK'
    BY MaxIdAssumption DEF TypeOK
  <1>2. ASSUME NEW q \in Proxy
        PROVE  Fresh(q)' /\ CounterAhead(q)' /\ Owned(q)' /\ UniqueIds(q)'
    <2>1. CASE q = p
      <3>1. /\ next_id'[p] = next_id[p] + 1
            /\ requests_'[p] = requests_[p] \cup {r}
            /\ \A s \in Request : whale_request_id'[p][s] =
                 IF s = r THEN next_id[p] ELSE whale_request_id[p][s]
            /\ next_id[p] \in 0 .. MaxId
            /\ \A s \in Request : whale_request_id[p][s] \in 0 .. MaxId
        BY DEF TypeOK
      <3>2. CounterAhead(p)'
        BY <1>0, <3>1 DEF CounterAhead
      <3>3. UniqueIds(p)'
        BY <3>1 DEF CounterAhead, UniqueIds
      <3>4. Owned(p)' /\ Fresh(p)'
        BY <1>0, <3>1 DEF Owned, Fresh
      <3> QED BY <2>1, <3>2, <3>3, <3>4
    <2>2. CASE q # p
      <3>1. next_id'[q] = next_id[q] /\ requests_'[q] = requests_[q]
            /\ whale_request_id'[q] = whale_request_id[q]
        BY <2>2 DEF TypeOK
      <3> QED BY <3>1 DEF Fresh, CounterAhead, Owned, UniqueIds
    <2> QED BY <2>1, <2>2
  <1> QED BY <1>1, <1>2

LEMMA BrowserContextDestroyedInv == IInv /\ BrowserContextDestroyed => IInv'
  <1> SUFFICES ASSUME IInv, BrowserContextDestroyed PROVE IInv'
    OBVIOUS
  <1> USE DEF IInv, BrowserContextDestroyed
  <1>1. TypeOK'
    BY DEF TypeOK
  <1>2. ASSUME NEW q \in Proxy
        PROVE  Fresh(q)' /\ CounterAhead(q)' /\ Owned(q)' /\ UniqueIds(q)'
    BY DEF Fresh, CounterAhead, Owned, UniqueIds
  <1> QED BY <1>1, <1>2

LEMMA Invariant == Spec => []IInv
  <1>1. IInv /\ [Next]_vars => IInv'
    <2> SUFFICES ASSUME IInv, [Next]_vars PROVE IInv'
      OBVIOUS
    <2>1. CASE UNCHANGED vars
      BY <2>1 DEF vars, proxy_vars, IInv, TypeOK, Fresh, CounterAhead, Owned, UniqueIds
    <2> QED BY <2>1, StartProxyingInv, LoseTargetInv, CreateLoaderAndStartInv,
               RemoveRequestInv, BrowserContextDestroyedInv DEF Next
  <1> QED BY <1>1, InitInv, PTL DEF Spec

\* Types, that only factories asked for are owned, and that each is erased at
\* most once (resource_context_data.cc:26-55).
THEOREM TypeCorrect == Spec => []TypeOK
  <1>1. IInv => TypeOK
    BY DEF IInv
  <1> QED BY <1>1, Invariant, PTL

\* A profile owns a factory exactly while that has a target or a request, for
\* any number of factories and requests
\* (resource_context_data.cc:51-55, whale_proxying_url_loader_factory.cc:540-557).
THEOREM OwnershipCorrect == Spec => []OwnedWhileNeeded
  <1>1. IInv => OwnedWhileNeeded
    BY DEF IInv, Owned, OwnedWhileNeeded
  <1> QED BY <1>1, Invariant, PTL

\* The ids of one factory differ, whichever other factories took their first
\* id from the same counter (whale_proxying_url_loader_factory.cc:507-511).
THEOREM IdsCorrect == Spec => []IdsUniqueInFactory
  <1>1. IInv => IdsUniqueInFactory
    BY DEF IInv, UniqueIds, IdsUniqueInFactory
  <1> QED BY <1>1, Invariant, PTL
=============================================================================
