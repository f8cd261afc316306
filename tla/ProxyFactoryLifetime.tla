------------------------- MODULE ProxyFactoryLifetime -------------------------
(***************************************************************************)
(* What a proxying factory promises of its lifetime: it takes requests     *)
(* while it is open, each of them is in progress from its start to its one *)
(* end, closing the factory ends none of them, and the factory is deleted  *)
(* at the very step after which it is closed and idle, never sooner and    *)
(* never later.                                                            *)
(***************************************************************************)
CONSTANT Request

VARIABLES open, active, ended, removed

vars == <<open, active, ended, removed>>

Init ==
    /\ open = TRUE
    /\ active = {}
    /\ ended = {}
    /\ removed = FALSE

Start(r) ==
    /\ open
    /\ r \notin active \cup ended
    /\ active' = active \cup {r}
    /\ UNCHANGED <<open, ended, removed>>

End(r) ==
    /\ r \in active
    /\ active' = active \ {r}
    /\ ended' = ended \cup {r}
    /\ removed' = (~open /\ active' = {})
    /\ UNCHANGED open

Close ==
    /\ open
    /\ open' = FALSE
    /\ removed' = (active = {})
    /\ UNCHANGED <<active, ended>>

Next == (\E r \in Request : Start(r) \/ End(r)) \/ Close

Spec == Init /\ [][Next]_vars
=============================================================================
