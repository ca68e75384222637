--------------------------- MODULE ReleaseOutcome ---------------------------
(***************************************************************************)
(* What a run of the release machine promises about master: accepted means *)
(* the release is there, rejected that it is not, unless production had    *)
(* already been touched; any other end is reported as abnormal.            *)
(***************************************************************************)
VARIABLES inMaster,    \* the release is in master and not reverted
          published,   \* a production step was started
          verdict

Init == ~inMaster /\ ~published /\ verdict = "running"

Merge == ~inMaster /\ inMaster' /\ UNCHANGED <<published, verdict>>
Revert == inMaster /\ ~inMaster' /\ UNCHANGED <<published, verdict>>
Publish == inMaster /\ published' /\ UNCHANGED <<inMaster, verdict>>

Accept == inMaster /\ verdict' = "accepted"
Reject == (published \/ ~inMaster) /\ verdict' = "rejected"
GiveUp == verdict' = "abnormal"
End == (Accept \/ Reject \/ GiveUp) /\ UNCHANGED <<inMaster, published>>

Next == verdict = "running" /\ (Merge \/ Revert \/ Publish \/ End)

Spec == Init /\ [][Next]_<<inMaster, published, verdict>>
=============================================================================
