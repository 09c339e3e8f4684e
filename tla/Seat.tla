-------------------------------- MODULE Seat --------------------------------
(***************************************************************************)
(* What the supervisor promises about the seat, whoever drives it: the     *)
(* seat has at most one tenure at a time, tenures carry strictly           *)
(* increasing numbers, and a tenure is never handed to another one without *)
(* the seat having been free in between.                                   *)
(***************************************************************************)
EXTENDS Naturals

VARIABLES state,   \* what the seat is doing
          owner,   \* the number of the current tenure, 0 when free
          last     \* the last number given out

seatVars == <<state, owner, last>>

States == {"free", "launching", "running", "recovering", "quarantined"}

Init ==
    \/ state = "free" /\ owner = 0 /\ last = 0
    \/ state = "quarantined" /\ owner = 1 /\ last = 1

\* A free seat is claimed for a login, or withheld for administrative recovery.
Claim ==
    /\ state = "free"
    /\ state' \in {"launching", "quarantined"}
    /\ last' = last + 1
    /\ owner' = last + 1

\* The tenure moves on, never back, and keeps its number.
Progress ==
    /\ \/ state = "launching" /\ state' \in {"running", "recovering", "quarantined"}
       \/ state = "running" /\ state' \in {"recovering", "quarantined"}
       \/ state = "recovering" /\ state' = "quarantined"
    /\ UNCHANGED <<owner, last>>

Release ==
    /\ state # "free"
    /\ state' = "free"
    /\ owner' = 0
    /\ UNCHANGED last

Next == Claim \/ Progress \/ Release

Spec == Init /\ [][Next]_seatVars
=============================================================================
