--------------------------- MODULE WhaleQueryFilter ---------------------------
(***************************************************************************)
(* The query filter of net/whale_query_filter.cc and its caller in         *)
(* net/whale_site_hacks_network_delegate_helper.cc: which parameters a URL *)
(* loses, and for which requests.                                          *)
(*                                                                         *)
(* A URL is [scheme, host, path, query].  The query is the sequence that   *)
(* splitting at "&" gives and each of its members the sequence that        *)
(* splitting at "=" gives, so that "fbclid=1&x&" is                        *)
(* << <<"fbclid", "1">>, <<"x">>, <<"">> >>.  <<>> is a URL without query. *)
(***************************************************************************)
EXTENDS Naturals, Sequences, FiniteSets

CONSTANTS
    kSimpleQueryStringTrackers,       \* keys removed everywhere
    kScopedQueryStringTrackers,       \* key |-> the one domain it is removed on
    kConditionalQueryStringTrackers,  \* key |-> texts that keep it in the URL
    DomainOf                          \* host |-> its registrable domain

\* There is one conditional expression, and no empty text matches it.
ASSUME ConditionalAssumption ==
    /\ \A j, k \in DOMAIN kConditionalQueryStringTrackers :
         kConditionalQueryStringTrackers[j] = kConditionalQueryStringTrackers[k]
    /\ \A k \in DOMAIN kConditionalQueryStringTrackers :
         "" \notin kConditionalQueryStringTrackers[k]

GURL == [scheme |-> "", host |-> "", path |-> "", query |-> <<>>]
OpaqueOrigin == [scheme |-> "", host |-> ""]

is_valid(url) == url # GURL
has_query(url) == url.query # <<>>
Origin(url) == [scheme |-> url.scheme, host |-> url.host]
DomainIs(url, domain) == DomainOf[url.host] = domain
SameDomainOrHost(u, v) == DomainOf[u.host] = DomainOf[v.host]

\* RE2::PartialMatch over the whole spec, for an expression that is a choice
\* of texts: one of them is the host, the path or a piece of the query.
PartialMatch(url, texts) ==
    \/ url.host \in texts
    \/ url.path \in texts
    \/ \E i \in DOMAIN url.query :
         \E j \in DOMAIN url.query[i] : url.query[i][j] \in texts

\* The members of s that are not in S, in their order.
Without(s, S) ==
    LET kept[n \in 0 .. Len(s)] ==
          IF n = 0 THEN <<>>
          ELSE IF s[n] \in S THEN kept[n - 1] ELSE Append(kept[n - 1], s[n])
    IN kept[Len(s)]

\* SPLIT_WANT_NONEMPTY at "=": "=fbclid=1" has the key "fbclid".
Pieces(kv) == Without(kv, {""})

IsTracker(url, kv) ==
    LET pieces == Pieces(kv)
        key    == pieces[1]
    IN /\ Len(pieces) >= 2
       /\ \/ key \in kSimpleQueryStringTrackers
          \/ /\ key \in DOMAIN kScopedQueryStringTrackers
             /\ DomainIs(url, kScopedQueryStringTrackers[key])
          \/ /\ key \in DOMAIN kConditionalQueryStringTrackers
             /\ ~PartialMatch(url, kConditionalQueryStringTrackers[key])

Trackers(url) ==
    { url.query[i] : i \in {j \in DOMAIN url.query : IsTracker(url, url.query[j])} }

\* F_Word just before F, as StripQueryParameter_Once here, is a faulty variant
\* of F: no definition uses it, and some property is violated with it in F's place.
StripQueryParameter_Once(url) ==
    LET removed == {i \in DOMAIN url.query : IsTracker(url, url.query[i])}
        again(i) == \E j \in removed : j < i /\ Pieces(url.query[j])[1] = Pieces(url.query[i])[1]
        kept == {i \in DOMAIN url.query : i \notin removed \/ again(i)}
        nth(n) == CHOOSE i \in kept : Cardinality({j \in kept : j <= i}) = n
    IN [n \in 1 .. Cardinality(kept) |-> url.query[nth(n)]]
StripQueryParameter(url) == Without(url.query, Trackers(url))

removed_trackers_RawKey(url) == {kv[1] : kv \in Trackers(url)}
removed_trackers(url) == {Pieces(kv)[1] : kv \in Trackers(url)}

HasTracker(url) == Trackers(url) # {}

\* A joined query of no text ("" alone, or nothing at all) clears the query.
\* The code's nullopt is here the unchanged URL.
ApplyQueryFilter(url) ==
    LET output == StripQueryParameter(url) IN
    IF ~HasTracker(url) THEN url
    ELSE [url EXCEPT !.query = IF output = << <<"">> >> THEN <<>> ELSE output]

(***************************************************************************)
(* The fields of WhaleRequestInfo that decide.  enabled is what            *)
(* whale_blocker::GetTrackingBlockerEnabled says of the tab's origin now;  *)
(* internal_redirect and redirect_source are carried over from the         *)
(* request's earlier context.                                              *)
(***************************************************************************)
NewCTX == [internal_redirect |-> FALSE, redirect_source |-> GURL]

MakeCTX(request, enabled, old_ctx) ==
    [ request_url             |-> request.url,
      method                  |-> request.method,
      initiator_url           |-> request.request_initiator,
      enable_tracking_blocker |-> enabled,
      internal_redirect       |-> old_ctx.internal_redirect,
      redirect_source         |-> old_ctx.redirect_source ]

\* The early returns of ApplyPotentialQueryStringFilter.
Exempted(ctx) ==
    \/ ~ctx.enable_tracking_blocker
    \/ ctx.method # "GET"
    \/ /\ is_valid(ctx.redirect_source)
       /\ \/ ctx.internal_redirect
          \/ SameDomainOrHost(ctx.redirect_source, ctx.request_url)
    \/ /\ ~is_valid(ctx.redirect_source)
       /\ ctx.initiator_url # OpaqueOrigin
       /\ SameDomainOrHost(ctx.initiator_url, ctx.request_url)

ApplyPotentialQueryStringFilter(ctx) ==
    IF Exempted(ctx) THEN ctx.request_url ELSE ApplyQueryFilter(ctx.request_url)

IsInternalScheme(ctx) == ctx.request_url.scheme \in {"chrome-extension", "chrome"}

\* The new_url the hook leaves behind: GURL when the request goes on as it is.
OnBeforeURLRequest_SiteHacksWork(ctx) ==
    LET filtered == ApplyPotentialQueryStringFilter(ctx) IN
    IF \/ IsInternalScheme(ctx)
       \/ DomainIs(ctx.request_url, "naver.com")
       \/ ~has_query(ctx.request_url)
       \/ filtered = ctx.request_url
    THEN GURL
    ELSE filtered
=============================================================================
