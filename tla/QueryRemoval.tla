----------------------------- MODULE QueryRemoval -----------------------------
(***************************************************************************)
(* The query filter against a definition that does not look like it: a     *)
(* hand that takes one tracking parameter after another out of a URL, in   *)
(* any order, reading the URL afresh each time, until none is left.  The   *)
(* proxy gets to the same end by internal redirects, one ApplyQueryFilter  *)
(* each.                                                                   *)
(***************************************************************************)
EXTENDS WhaleQueryFilter

CONSTANT Start   \* the URLs the hand begins with

ASSUME StartAssumption ==
    Start \subseteq [scheme : STRING, host : STRING, path : STRING,
                     query : Seq(Seq(STRING))]

VARIABLES original, remaining
removal_vars == <<original, remaining>>

RemovalInit == original \in Start /\ remaining = original

TakeOut(query, i) ==
    SubSeq(query, 1, i - 1) \o SubSeq(query, i + 1, Len(query))

RemoveOne(i) ==
    /\ IsTracker(remaining, remaining.query[i])
    /\ remaining' = [remaining EXCEPT !.query =
                       IF TakeOut(@, i) = << <<"">> >> THEN <<>> ELSE TakeOut(@, i)]
    /\ UNCHANGED original

RemovalNext == \E i \in DOMAIN remaining.query : RemoveOne(i)

RemovalSpec == RemovalInit /\ [][RemovalNext]_removal_vars

-----------------------------------------------------------------------------
\* Every step of the hand leads to where two passes of the filter lead, so
\* that in whatever order it works it ends there; one pass is not enough, for
\* it can remove the text that kept mkt_tok (whale_query_filter.cc:118-157,
\* 200-221).
Passes(u) == ApplyQueryFilter(ApplyQueryFilter(u))

FilterCommutesWithRemoval ==
    [][ /\ Passes(remaining') = Passes(remaining)
        /\ ~HasTracker(remaining') => remaining' = Passes(original) ]_removal_vars

\* The names reported are exactly those that a pass takes out of the URL:
\* nothing is reported that was not in it or is still in it, nothing leaves it
\* without a report, and what is reported of is changed
\* (whale_query_filter.cc:118-157).
Names(u) == { Pieces(u.query[i])[1] :
                i \in {j \in DOMAIN u.query : Len(Pieces(u.query[j])) >= 2} }

ReportIsTheDifference ==
    LET filtered == ApplyQueryFilter(remaining)
        removed  == removed_trackers(remaining)
    IN /\ removed = Names(remaining) \ Names(filtered)
       /\ (removed = {}) = (filtered = remaining)
=============================================================================
