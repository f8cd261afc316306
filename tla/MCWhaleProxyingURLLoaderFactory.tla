------------------- MODULE MCWhaleProxyingURLLoaderFactory -------------------
(***************************************************************************)
(* Small instances of WhaleProxyingURLLoaderFactory: two sites, with and   *)
(* without the parameters that are taken out.                              *)
(***************************************************************************)
EXTENDS WhaleProxyingURLLoaderFactory, TLC

\* A row of each table of net/whale_query_filter.cc.
MCSimple == {"fbclid"}
MCScoped == [igshid |-> "instagram.com"]
MCConditional == [mkt_tok |-> {"Unsubscribe"}]
MCDomainOf == [host \in {"a.com", "www.a.com", "b.com"} |->
                 IF host = "b.com" THEN "b.com" ELSE "a.com"]

Url(host, query) == [scheme |-> "https", host |-> host, path |-> "/", query |-> query]
Tracked(host) == Url(host, << <<"fbclid", "1">> >>)
Plain(host) == Url(host, <<>>)

\* The first pass takes fbclid and with it the text that kept mkt_tok.
TwoPasses(host) ==
    Url(host, << <<"fbclid", "Unsubscribe">>, <<"mkt_tok", "1">> >>)
OnePass(host) == Url(host, << <<"mkt_tok", "1">> >>)

OneRequest == {"r1"}

MCFewUrls == {Plain("b.com"), Tracked("b.com")}
MCMixedUrls == { TwoPasses("b.com"), OnePass("b.com"), Plain("b.com"),
                 Tracked("a.com"), Plain("a.com") }

MCGet == {"GET"}
MCMethods == {"GET", "POST"}
MCInitiators == {[scheme |-> "https", host |-> "www.a.com"]}
MCNoInitiator == {}
MCKeys == {"fbclid", "mkt_tok"}
=============================================================================
