----------------------- MODULE PACScriptDownloadMonitor -----------------------
(***************************************************************************)
(* The count of PAC script download timeouts that                          *)
(* net/proxy_config_monitor_whale.cc keeps in the local state, over the    *)
(* launches of the browser on Windows 10 and above.                        *)
(*                                                                         *)
(* The local state is written to disk some time after a change and when    *)
(* the browser quits; a crash loses what was not written.                  *)
(* F_Word just before F is a faulty variant of F, as in WhaleQueryFilter.  *)
(***************************************************************************)
EXTENDS Naturals

CONSTANT kThresholdCount

ASSUME ThresholdAssumption == kThresholdCount \in Nat \ {0}

VARIABLES
    running,          \* a launch of the browser is under way
    already_counted,  \* the static of OnPACScriptDownloadTimeout
    pref,             \* whale.pac_script_download_timeout_count
    disk,             \* the count as it is on disk
    web_contents,     \* whether the last active browser has an active tab
    last,             \* history: what the last step did to the count
    timeouts,         \* history: timeouts counted since a success or an info
                      \* bar, without what a crash lost
    before,           \* history: how many there were when this launch began
    shown_after,      \* history: how many there were at the last info bar
    updates           \* history: changes of the count in this launch

process_vars == <<running, already_counted, web_contents>>
history_vars == <<timeouts, before, shown_after, updates>>
vars == <<process_vars, pref, disk, last, history_vars>>

Init ==
    /\ running = FALSE
    /\ already_counted = FALSE
    /\ pref = 0
    /\ disk = 0
    /\ web_contents = FALSE
    /\ last = "none"
    /\ timeouts = 0
    /\ before = 0
    /\ shown_after = 0
    /\ updates = 0

-----------------------------------------------------------------------------
Launch ==
    /\ ~running
    /\ running' = TRUE
    /\ already_counted' = FALSE
    /\ pref' = disk
    /\ before' = timeouts
    /\ updates' = 0
    /\ last' = "none"
    /\ UNCHANGED <<disk, web_contents, timeouts, shown_after>>

WritesToDisk ==
    /\ running
    /\ disk' = pref
    /\ last' = "none"
    /\ UNCHANGED <<process_vars, pref, history_vars>>

Exits ==
    /\ running' = FALSE
    /\ web_contents' = FALSE
    /\ UNCHANGED <<already_counted, pref, before, shown_after, updates>>

Quit ==
    /\ running
    /\ Exits
    /\ disk' = pref
    /\ last' = "none"
    /\ UNCHANGED timeouts

\* What the launch counted and did not write never was.
Crash ==
    /\ running
    /\ Exits
    /\ last' = IF disk # pref THEN "lost" ELSE "none"
    /\ timeouts' = IF disk # pref THEN before ELSE timeouts
    /\ UNCHANGED disk

ActiveTabChanges ==
    /\ running
    /\ web_contents' = ~web_contents
    /\ last' = "none"
    /\ UNCHANGED <<running, already_counted, pref, disk, history_vars>>

-----------------------------------------------------------------------------
\* The count after one more timeout, and what becomes of it.
IncrementTimeoutCountFromPref == pref + 1

Counted(count) ==
    /\ web_contents
    /\ count < kThresholdCount
    /\ pref' = count
    /\ last' = "timeout"
    /\ timeouts' = timeouts + 1
    /\ UNCHANGED shown_after

InfobarShown_Keeps(count) ==
    /\ web_contents
    /\ count >= kThresholdCount
    /\ pref' = count
    /\ last' = "infobar"
    /\ timeouts' = 0
    /\ shown_after' = timeouts + 1
InfobarShown(count) ==
    /\ web_contents
    /\ count >= kThresholdCount
    /\ pref' = 0
    /\ last' = "infobar"
    /\ timeouts' = 0
    /\ shown_after' = timeouts + 1

\* Without a tab to show it in, the timeout is not even counted.
MaybeShowInfobar_Unstored ==
    /\ web_contents
    /\ last' = "timeout"
    /\ timeouts' = IF timeouts < kThresholdCount THEN timeouts + 1 ELSE 0
    /\ UNCHANGED <<pref, shown_after>>
MaybeShowInfobar ==
    \/ Counted(IncrementTimeoutCountFromPref)
    \/ InfobarShown(IncrementTimeoutCountFromPref)
    \/ /\ ~web_contents
       /\ last' = "none"
       /\ UNCHANGED <<pref, timeouts, shown_after>>

ResetTimeoutCountFromPref_Not ==
    /\ last' = "success"
    /\ timeouts' = 0
    /\ UNCHANGED <<pref, shown_after>>
ResetTimeoutCountFromPref ==
    /\ pref' = 0
    /\ last' = "success"
    /\ timeouts' = 0
    /\ UNCHANGED shown_after

\* Calls for a profile's own monitor and all but the first other one of a
\* launch return at once.
CallCounts_Always(profile) == running /\ ~profile
CallCounts(profile) == running /\ ~profile /\ ~already_counted

OnPACScriptDownloadTimeout(success, profile) ==
    /\ CallCounts(profile)
    /\ already_counted' = TRUE
    /\ IF success THEN ResetTimeoutCountFromPref ELSE MaybeShowInfobar
    /\ updates' = IF last' = "none" THEN updates ELSE updates + 1
    /\ UNCHANGED <<running, web_contents, disk, before>>

Next ==
    \/ Launch
    \/ WritesToDisk
    \/ Quit
    \/ Crash
    \/ ActiveTabChanges
    \/ \E success, profile \in BOOLEAN : OnPACScriptDownloadTimeout(success, profile)

Spec == Init /\ [][Next]_vars

-----------------------------------------------------------------------------
TypeOK ==
    /\ running \in BOOLEAN
    /\ already_counted \in BOOLEAN
    /\ pref \in 0 .. kThresholdCount - 1
    /\ disk \in 0 .. kThresholdCount - 1
    /\ web_contents \in BOOLEAN
    /\ last \in {"none", "timeout", "infobar", "success", "lost"}
    /\ timeouts \in Nat
    /\ shown_after \in Nat
    /\ before \in Nat
    /\ updates \in Nat

\* The stored count is the number of timeouts counted since a success or an
\* info bar, over however many launches, whether they quit or crash: a crash
\* takes back what its own launch counted, as a whole or not at all, and
\* nothing of the launches before.  An info bar comes with the timeout that
\* makes the count the threshold; one whose reset a crash takes back comes
\* again with the next timeout (proxy_config_monitor_whale.cc:39-71, 85-98).
StreakDecides ==
    /\ IF running
       THEN pref = timeouts /\ disk \in {before, timeouts}
       ELSE disk = timeouts
    /\ shown_after \in {0, kThresholdCount}

\* The count changes at most once in a launch, however many monitors report
\* (:85-92).
OncePerLaunch == updates <= 1

\* If timeouts are counted again and again and nothing resets the count, the
\* info bar is shown again and again (:64-69).
InfobarReturns ==
    (<>[](last \notin {"success", "lost"}) /\ []<><<last' = "timeout">>_timeouts)
      => []<>(last = "infobar")
=============================================================================
