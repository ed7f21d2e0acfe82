---------------------------- MODULE SessionLease ----------------------------
(***************************************************************************)
(* What SiteSpy promises about the live sessions of one camera             *)
(* (docs/live_view_handover.md): "Only one session per camera at a time".  *)
(* A session that runs is not replaced; it ends when its time is over or   *)
(* when it is taken away.                                                  *)
(***************************************************************************)
EXTENDS Naturals

CONSTANTS Users,           \* those who ask for a session
          SessionLength    \* how long one may last

VARIABLES now,             \* the time
          holder,          \* whose session it is, "none" when there is none
          until            \* when it expires

Init == now \in Nat /\ holder = "none" /\ until = 0

Grant(u) ==
    /\ holder = "none" \/ until <= now
    /\ holder' = u
    /\ until' \in 0..(now + SessionLength)
    /\ UNCHANGED now

(* Stopped by somebody, or cleaned away after its end.                     *)
Release == holder' = "none" /\ until' = 0 /\ UNCHANGED now

Elapse == now' = now + 1 /\ UNCHANGED <<holder, until>>

Next == (\E u \in Users : Grant(u)) \/ Release \/ Elapse

Spec == Init /\ [][Next]_<<now, holder, until>>
=============================================================================
