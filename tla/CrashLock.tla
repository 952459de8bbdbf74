----------------------------- MODULE CrashLock -----------------------------
(***************************************************************************)
(* What a lock promises to clients that may die: one client at a time is   *)
(* inside; one that dies inside gives the lock up and leaves damage, which *)
(* a later client repairs before it goes in, or finds to be beyond repair, *)
(* and then nobody goes in again.                                          *)
(***************************************************************************)
CONSTANTS Clients, Nobody

VARIABLES inside,   \* the client that may use what the lock protects
          health    \* of what it protects: "sound", "damaged", "broken"

vars == <<inside, health>>

Init == inside = Nobody /\ health = "sound"

Enter(c) == /\ inside = Nobody
            /\ health = "sound"
            /\ inside' = c
            /\ UNCHANGED health

RepairAndEnter(c) == /\ inside = Nobody
                     /\ health = "damaged"
                     /\ inside' = c
                     /\ health' = "sound"

Leave(c) == /\ inside = c
            /\ inside' = Nobody
            /\ UNCHANGED health

DieInside(c) == /\ inside = c
                /\ inside' = Nobody
                /\ health' = "damaged"

GiveUp == /\ inside = Nobody
          /\ health = "damaged"
          /\ health' = "broken"
          /\ UNCHANGED inside

Next == GiveUp \/ \E c \in Clients : Enter(c) \/ RepairAndEnter(c) \/ Leave(c) \/ DieInside(c)

Spec == Init /\ [][Next]_vars
=============================================================================
