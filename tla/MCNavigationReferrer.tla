------------------------- MODULE MCNavigationReferrer -------------------------
(***************************************************************************)
(* A navigation among a site over https and http, another one and          *)
(* naver.com, whose referrers are never capped.                            *)
(***************************************************************************)
EXTENDS NavigationReferrer, TLC

MCSimple == {"fbclid"}
MCScoped == [igshid |-> "instagram.com"]
MCConditional == [mkt_tok |-> {"Unsubscribe"}]
MCDomainOf == [host \in {"a.com", "b.com", "naver.com"} |-> host]

Page(scheme, host) ==
    [scheme |-> scheme, host |-> host, path |-> "/page", query |-> <<>>]
MCPages == { Page("https", "a.com"), Page("https", "b.com"), Page("http", "b.com"),
             Page("https", "naver.com") }
=============================================================================
