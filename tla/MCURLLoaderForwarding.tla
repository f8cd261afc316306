------------------------ MODULE MCURLLoaderForwarding ------------------------
(***************************************************************************)
(* One request from a page of one site to the other, whose URLs the filter *)
(* may change.                                                             *)
(***************************************************************************)
EXTENDS URLLoaderForwarding, TLC

MCSimple == {"fbclid"}
MCScoped == [igshid |-> "instagram.com"]
MCConditional == [mkt_tok |-> {"Unsubscribe"}]
MCDomainOf == [host \in {"a.com", "b.com"} |-> host]

Url(host, query) == [scheme |-> "https", host |-> host, path |-> "/", query |-> query]
MCUrls == {Url("b.com", <<>>), Url("b.com", << <<"fbclid", "1">> >>)}
MCReferrer ==
    {[scheme |-> "https", host |-> "a.com", path |-> "/page", query |-> <<>>]}

OneRequest == {"r1"}
MCGet == {"GET"}
MCNoInitiator == {}
MCKeys == {"fbclid"}
MCResourceType == {"kImage", "kSubFrame"}
=============================================================================
