---------------------------- MODULE OohRetention ----------------------------
(***************************************************************************)
(* What SiteSpy promises about one out-of-hours snapshot, with no word of  *)
(* how the record and the object are kept (docs/api_handover.md, "Out of   *)
(* hours"): it is captured once, expires after its retention period unless *)
(* somebody promotes it, and once promoted is kept for good.               *)
(***************************************************************************)
EXTENDS Naturals

CONSTANT Ttl          \* the retention period of an unpromoted snapshot

VARIABLES now,        \* time since the capture
          status      \* "absent", "expiring" or "preserved"

Init == now = 0 /\ status = "absent"

(* The snapshot is stored at capture time, under its expiry.               *)
Capture ==
    /\ status = "absent" /\ now = 0
    /\ status' = "expiring"
    /\ UNCHANGED now

(* A reviewer promotes it: from then on nothing takes it away.             *)
Promote ==
    /\ status = "expiring"
    /\ status' = "preserved"
    /\ UNCHANGED now

(* It was not promoted and its retention period is over.                   *)
Expire ==
    /\ status = "expiring" /\ now >= Ttl
    /\ status' = "absent"
    /\ UNCHANGED now

Elapse == now' = now + 1 /\ UNCHANGED status

Next == Capture \/ Promote \/ Expire \/ Elapse

Spec == Init /\ [][Next]_<<now, status>>
=============================================================================
