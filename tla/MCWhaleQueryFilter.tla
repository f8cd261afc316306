-------------------------- MODULE MCWhaleQueryFilter --------------------------
(***************************************************************************)
(* The hand and the filter on queries of few parameters, and the rows of   *)
(* the unit tests.                                                         *)
(***************************************************************************)
EXTENDS TrackingBlockersUtil, QueryRemoval, TLC

MCSimple == {"fbclid", "gclid", "msclkid", "mc_eid", "__s"}
MCScoped == [igshid |-> "instagram.com"]
MCConditional ==
    [mkt_tok |-> {"Unsubscribe", "unsubscribe", "mkt_unsubscribe", "emailWebview"}]
MCDomainOf ==
    "sub.example.com" :> "example.com" @@ "www.instagram.com" :> "instagram.com"
      @@ "n.news.naver.com" :> "naver.com"
      @@ [host \in {"hello.brianbondy.com", "www.brianbondy.com", "brianbondy.com"} |->
            "brianbondy.com"]
      @@ [host \in {"test.com", "example.com", "example.net", "example.org",
                    "digg.com", "extension"} |-> host]

CONSTANT MaxQueryLength   \* bound on the parameters of a URL

Parameter ==
    { <<"">>,                        \* as between && or after a last &
      <<"foo", "1">>,
      <<"fbclid", "1">>, <<"fbclid", "Unsubscribe">>,
      <<"fbclid", "">>,              \* a key without a value stays
      <<"", "fbclid", "1">>,         \* "=fbclid=1"
      <<"igshid", "1">>,
      <<"mkt_tok", "1">> }

MCStart ==
    [ scheme : {"https"}, host : {"test.com", "www.instagram.com"},
      path : {"/", "emailWebview"},
      query : UNION {[1 .. n -> Parameter] : n \in 0 .. MaxQueryLength} ]

-----------------------------------------------------------------------------
\* The rows of net/whale_query_filter_unittest.cc and
\* net/whale_tracking_blocker_unittest.cc.
Https(host, path, query) ==
    [scheme |-> "https", host |-> host, path |-> path, query |-> query]
Home(host) == Https(host, "/", <<>>)
Kv(key, value) == <<key, value>>
Blank == <<"">>

FilterQueryTrackers ==
    LET Filters(query) == ApplyQueryFilter(Https("test.com", "/", query)).query IN
    /\ \A key \in {"gclid", "fbclid", "mkt_tok"} : Filters(<<Kv(key, "123")>>) = <<>>
    /\ \A key \in {"unsubscribe", "Unsubscribe"} :
         Filters(<<Kv("gclid", "123"), Kv(key, "123")>>) = <<Kv(key, "123")>>
    /\ \A u \in { Https("n.news.naver.com", "article", <<Kv("cds", "news_media_pc")>>),
                    Home("test.com"), GURL } : ~HasTracker(u)

WhaleRequestInfo(u) ==
    [ request_url |-> u, method |-> "GET", initiator_url |-> Origin(Home("example.net")),
      enable_tracking_blocker |-> TRUE, internal_redirect |-> FALSE,
      redirect_source |-> GURL, referrer |-> Https("hello.brianbondy.com", "about", <<>>),
      allow_referrers |-> FALSE, tab_origin |-> OpaqueOrigin, resource_type |-> "invalid" ]
Untouched(ctx) == ApplyPotentialQueryStringFilter(ctx) = ctx.request_url

ReferrerPreserved ==
    \A host \in {"brianbondy.com", "www.brianbondy.com"} :
      LET ctx == WhaleRequestInfo(Https(host, "7", <<>>)) IN
      /\ OnBeforeURLRequest_SiteHacksWork(ctx) = GURL
      /\ ctx.referrer = Https("hello.brianbondy.com", "about", <<>>)

ReferrerTruncated ==
    LET ctx == WhaleRequestInfo(Https("digg.com", "7", <<>>)) IN
    /\ OnBeforeURLRequest_SiteHacksWork(ctx) = GURL
    /\ ApplyPotentialReferrerBlock(ctx) = OriginURL(ctx.referrer)

ReferrerWouldBeClearedButExtensionSite ==
    LET ctx == [ WhaleRequestInfo(Https("digg.com", "7", <<>>)) EXCEPT
                   !.tab_origin = [scheme |-> "chrome-extension", host |-> "extension"] ]
    IN /\ OnBeforeURLRequest_SiteHacksWork(ctx) = GURL
       /\ ApplyPotentialReferrerBlock(ctx) = ctx.referrer

QueryStringUntouched ==
    \A u \in
        { Https("example.com", path, query) : path \in {"/", "file.html"}, query \in
          { <<>>, <<Blank>>, << <<"+%20">> >>, <<Kv("foo", "1"), Kv("bar", "2")>>,
            <<Kv("file", "https%3A%2F%2Fexample.com%2Ftest.pdf")>>,
            <<Kv("title", "1+2"), Kv("caption", "1%202")>>,
            <<Kv("foo", "1"), Blank, Kv("bar", "2")>>, << <<"foo">>, Kv("bar", ""), Blank>>,
            <<Kv("foo", "1"), Kv("fbcid", "no"), Kv("gcid", "no"), Kv("mc_cid", "no"),
              Kv("bar", ""), Blank>>,
            <<Kv("fbclid", ""), <<"gclid">>, Kv("", "mc_eid"), Kv("msclkid", "")>>,
            << <<"value", "fbclid", "1">>, Kv("not-gclid", "2"), Kv("foo+mc_eid", "3")>>,
            <<Kv("+fbclid", "1")>>, <<Kv("%20fbclid", "1")>>,
            <<Kv("e", "f"), Kv("g", "1")>>, <<Kv("__ss", "1234-abcd")>>,
            <<Kv("mkt_tok", "123"), Kv("mkt_unsubscribe", "1")>>,
            <<Kv("mkt_unsubscribe", "1"), Kv("fake_param", "abc"), Kv("mkt_tok", "123")>> } }
        \cup { Https("example.com", "Unsubscribe",
                    <<Kv("fake_param", "abc"), Kv("mkt_tok", "123")>>) } :
      Untouched(WhaleRequestInfo(u))

QueryStringExempted ==
    LET ctx == WhaleRequestInfo(Https("example.com", "/", <<Kv("fbclid", "1")>>)) IN
    /\ \A host \in {"example.com", "sub.example.com"} :
         Untouched([ctx EXCEPT !.initiator_url = Origin(Home(host))])
    /\ Untouched([ctx EXCEPT !.internal_redirect = TRUE,
                             !.redirect_source = Home("example.org")])
    /\ Untouched([ctx EXCEPT !.method = "POST", !.redirect_source = Home("example.org")])
    /\ Untouched([ctx EXCEPT !.redirect_source = Home("sub.example.com")])

\* { original url, expected url after filtering }
QueryStringFiltered ==
    LET Filters(host, path, original_query, query) ==
          ApplyPotentialQueryStringFilter(WhaleRequestInfo(Https(host, path, original_query)))
            = Https(host, path, query)
        ctx == WhaleRequestInfo(Https("example.com", "/", <<Kv("fbclid", "1")>>))
        Keeps(host, path, query) == Filters(host, path, query, query)
        Becomes(original_query, query) == Filters("example.com", "/", original_query, query)
    IN
    /\ Becomes(<<Kv("fbclid", "1234")>>, <<>>)
    /\ Becomes(<<Kv("fbclid", "1234"), Blank>>, <<>>)
    /\ Becomes(<<Blank, Kv("fbclid", "1234")>>, <<>>)
    /\ Becomes(<<Kv("gclid", "1234")>>, <<>>)
    /\ Becomes(<<Kv("fbclid", "0"), Kv("gclid", "1"), Kv("msclkid", "a"), Kv("mc_eid", "a1")>>,
               <<>>)
    /\ Becomes(<<Kv("fbclid", ""), Kv("foo", "1"), Kv("bar", "2"), Kv("gclid", "abc")>>,
               <<Kv("fbclid", ""), Kv("foo", "1"), Kv("bar", "2")>>)
    /\ Becomes(<<Kv("fbclid", ""), Kv("foo", "1"), Kv("gclid", "1234"), Kv("bar", "2")>>,
               <<Kv("fbclid", ""), Kv("foo", "1"), Kv("bar", "2")>>)
    /\ Filters("example.com", "file.html", <<Kv("foo", "1"), Kv("fbclid", "abcd")>>,
               <<Kv("foo", "1")>>)
    /\ Becomes(<<Kv("__s", "1234-abcd")>>, <<>>)
    /\ Becomes(<< <<"fbclid">>, <<"foo">>, Blank, Kv("gclid", "2"), Kv("bar", ""), <<"%20">> >>,
               << <<"fbclid">>, <<"foo">>, Blank, Kv("bar", ""), <<"%20">> >>)
    /\ Becomes(<<Kv("fbclid", "1"), <<"1", "", "2">>, Kv("", "msclkid"), Kv("foo", "bar"),
                 Blank, <<"a", "b", "c">>, Blank>>,
               << <<"1", "", "2">>, Kv("", "msclkid"), Kv("foo", "bar"),
                 Blank, <<"a", "b", "c">>, Blank>>)
    /\ Becomes(<<Kv("fbclid", "1"), Kv("", "2"), Kv("?foo", "yes"), Kv("bar", "2+")>>,
               <<Kv("", "2"), Kv("?foo", "yes"), Kv("bar", "2+")>>)
    /\ Keeps("example.com", "/", <<Kv("igshid", "1234")>>)
    /\ Filters("www.instagram.com", "/", <<Kv("igshid", "1234")>>, <<>>)
    /\ Keeps("example.com", "/",
             <<Kv("mkt_tok", "123"), Kv("foo", "bar"), Kv("mkt_unsubscribe", "1")>>)
    /\ Keeps("example.com", "emailWebview", <<Kv("mkt_tok", "1234"), Kv("foo", "bar")>>)
    /\ Becomes(<<Kv("mkt_tok", "123"), Kv("foo", "bar")>>, <<Kv("foo", "bar")>>)
    /\ ~Untouched([ctx EXCEPT !.initiator_url = Origin(Home("example.com")),
                              !.redirect_source = Home("example.net")])
    /\ ~Untouched([ctx EXCEPT !.initiator_url = OpaqueOrigin])

ASSUME UnitTests ==
    /\ FilterQueryTrackers
    /\ ReferrerPreserved /\ ReferrerTruncated /\ ReferrerWouldBeClearedButExtensionSite
    /\ QueryStringUntouched /\ QueryStringExempted /\ QueryStringFiltered
=============================================================================
