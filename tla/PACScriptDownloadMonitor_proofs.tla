-------------------- MODULE PACScriptDownloadMonitor_proofs --------------------
(***************************************************************************)
(* For every threshold: the types, that the stored count decides the info  *)
(* bar over any number of launches and crashes, and that it changes once   *)
(* in a launch.                                                            *)
(***************************************************************************)
EXTENDS PACScriptDownloadMonitor, TLAPS

\* The count of a launch has changed only if a call of that launch counted, so
\* that the disk has the count of the launch's beginning until one does.
LaunchUpdates ==
    /\ updates \in {0, 1}
    /\ ~already_counted => updates = 0
    /\ running /\ ~already_counted => timeouts = before

IInv == TypeOK /\ StreakDecides /\ LaunchUpdates

LEMMA InitInv == Init => IInv
  <1> SUFFICES ASSUME Init PROVE IInv
    OBVIOUS
  <1>1. TypeOK
    <2>1. /\ running \in BOOLEAN /\ already_counted \in BOOLEAN
          /\ web_contents \in BOOLEAN
      BY DEF Init
    <2>2. /\ pref \in 0 .. kThresholdCount - 1 /\ disk \in 0 .. kThresholdCount - 1
          /\ timeouts \in Nat /\ before \in Nat /\ shown_after \in Nat /\ updates \in Nat
      BY ThresholdAssumption DEF Init
    <2> QED BY <2>1, <2>2 DEF Init, TypeOK
  <1>2. StreakDecides
    BY DEF Init, StreakDecides
  <1> QED BY <1>1, <1>2 DEF Init, IInv, LaunchUpdates

\* What a call that counts leaves of the stored count: a success and an info
\* bar set it to nought, and the timeout in between is one more.
LEMMA CountStep ==
  ASSUME IInv, running,
         ResetTimeoutCountFromPref \/ MaybeShowInfobar
  PROVE  /\ pref' \in 0 .. kThresholdCount - 1
         /\ last' \in {"none", "timeout", "infobar", "success"}
         /\ timeouts' \in Nat
         /\ shown_after' \in Nat
         /\ pref' = timeouts' /\ shown_after' \in {0, kThresholdCount}
  <1> USE ThresholdAssumption DEF IInv, TypeOK, StreakDecides
  <1>1. CASE ResetTimeoutCountFromPref
    BY <1>1 DEF ResetTimeoutCountFromPref
  <1>2. CASE MaybeShowInfobar
    <2>1. CASE Counted(IncrementTimeoutCountFromPref)
      BY <2>1 DEF Counted, IncrementTimeoutCountFromPref
    <2>2. CASE InfobarShown(IncrementTimeoutCountFromPref)
      BY <2>2 DEF InfobarShown, IncrementTimeoutCountFromPref
    <2>3. CASE last' = "none" /\ UNCHANGED <<pref, timeouts, shown_after>>
      BY <2>3
    <2> QED BY <1>2, <2>1, <2>2, <2>3 DEF MaybeShowInfobar
  <1> QED BY <1>1, <1>2

LEMMA NextInv == IInv /\ [Next]_vars => IInv'
  <1> SUFFICES ASSUME IInv, [Next]_vars PROVE IInv'
    OBVIOUS
  <1> USE ThresholdAssumption
  <1>1. CASE Launch
    BY <1>1 DEF Launch, IInv, TypeOK, StreakDecides, LaunchUpdates
  <1>2. CASE WritesToDisk
    BY <1>2 DEF WritesToDisk, process_vars, history_vars,
                IInv, TypeOK, StreakDecides, LaunchUpdates
  <1>3. CASE Quit
    BY <1>3 DEF Quit, Exits, IInv, TypeOK, StreakDecides, LaunchUpdates
  <1>4. CASE Crash
    <2>1. CASE disk = pref
      BY <1>4, <2>1 DEF Crash, Exits, IInv, TypeOK, StreakDecides, LaunchUpdates
    <2>2. CASE disk # pref
      BY <1>4, <2>2 DEF Crash, Exits, IInv, TypeOK, StreakDecides, LaunchUpdates
    <2> QED BY <2>1, <2>2
  <1>5. CASE ActiveTabChanges
    BY <1>5 DEF ActiveTabChanges, history_vars,
                IInv, TypeOK, StreakDecides, LaunchUpdates
  <1>6. CASE \E success, profile \in BOOLEAN :
               OnPACScriptDownloadTimeout(success, profile)
    <2> PICK success \in BOOLEAN, profile \in BOOLEAN :
          OnPACScriptDownloadTimeout(success, profile)
      BY <1>6
    <2> USE DEF OnPACScriptDownloadTimeout
    <2>1. ResetTimeoutCountFromPref \/ MaybeShowInfobar
      OBVIOUS
    <2>2. running /\ ~already_counted /\ already_counted' = TRUE
      BY DEF CallCounts
    <2>3. UNCHANGED <<running, web_contents, disk, before>>
      OBVIOUS
    <2>4. updates' \in {0, 1}
      BY <2>2 DEF IInv, LaunchUpdates
    <2>5. TypeOK'
      BY <2>1, <2>2, <2>3, <2>4, CountStep DEF IInv, TypeOK
    <2>6. StreakDecides'
      <3>1. disk = before
        BY <2>2 DEF IInv, LaunchUpdates, StreakDecides
      <3> QED BY <2>1, <2>2, <2>3, <3>1, CountStep DEF StreakDecides
    <2> QED BY <2>2, <2>4, <2>5, <2>6 DEF IInv, LaunchUpdates
  <1>7. CASE UNCHANGED vars
    BY <1>7 DEF vars, process_vars, history_vars,
                IInv, TypeOK, StreakDecides, LaunchUpdates
  <1> QED BY <1>1, <1>2, <1>3, <1>4, <1>5, <1>6, <1>7 DEF Next

LEMMA Invariant == Spec => []IInv
  BY InitInv, NextInv, PTL DEF Spec

\* The count in memory and on disk stays below the threshold, whatever calls,
\* launches, crashes and tabs (proxy_config_monitor_whale.cc:39-105).
THEOREM TypeCorrect == Spec => []TypeOK
  <1>1. IInv => TypeOK
    BY DEF IInv
  <1> QED BY <1>1, Invariant, PTL

\* The stored count is the length of the streak of counted timeouts, and an
\* info bar ends the streak that reaches the threshold, for every threshold
\* and any number of launches, those included that crash before, between and
\* after writes: a crash costs the streak at most the result of its own launch
\* (:39-71, 85-98).
THEOREM StreakCorrect == Spec => []StreakDecides
  <1>1. IInv => StreakDecides
    BY DEF IInv
  <1> QED BY <1>1, Invariant, PTL

\* However many monitors report, one report of a launch counts (:85-92).
THEOREM LaunchCorrect == Spec => []OncePerLaunch
  <1>1. IInv => OncePerLaunch
    BY DEF IInv, LaunchUpdates, OncePerLaunch
  <1> QED BY <1>1, Invariant, PTL
=============================================================================
