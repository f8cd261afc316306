---------------------------- MODULE MCShieldedTabs ----------------------------
(***************************************************************************)
(* One tab over two sites and an extension, whose pages and requests lose  *)
(* parameters; a settings page stands for every other tab of the profile.  *)
(***************************************************************************)
EXTENDS ShieldedTabs, TLC

MCSimple == {"fbclid"}
MCScoped == [igshid |-> "instagram.com"]
MCConditional == [mkt_tok |-> {"Unsubscribe"}]
MCDomainOf == [host \in {"a.com", "b.com", "id"} |-> host]

Page(scheme, host, query) ==
    [scheme |-> scheme, host |-> host, path |-> "/", query |-> query]
Tracked(host, key) == Page("https", host, << <<key, "1">> >>)

MCTab == {"t"}
MCURL == { Page("https", "a.com", <<>>), Tracked("b.com", "fbclid"),
           Page("https", "b.com", <<>>), Page("chrome-extension", "id", <<>>) }
MCItem == {"i"}
MCSettingsType == ControlType
=============================================================================
