--------------------------- MODULE MCSftpTransfer ---------------------------
(* Three instances of SftpTransfer in one run: a copy and an upload that   *)
(* share a slot and a destination, with one request at a time and either   *)
(* a restart or a fault; one copy whose requests overlap; and one upload   *)
(* whose requests overlap. All at once are out of reach.                   *)
EXTENDS SftpTransfer

CONSTANTS c, u, x, y, none

VARIABLE scene

Unused(jobs) == \A j \in jobs : status(j) = "none"
RestartOrFault == faults = 0 \/ \A j \in Copy : job[j].ck.name = 1
OneRequest == \A r \in Caller : caller[r].step # "idle" => r = x

MCInit == Init /\ scene \in {"sharing", "overlapping", "feeding"}
MCNext ==
    /\ Next
    /\ scene = "sharing" => (OneRequest /\ RestartOrFault)'
    /\ scene = "overlapping" => Unused(Upload)'
    /\ scene = "feeding" => Unused(Copy)'
    /\ UNCHANGED scene
MCSpec == MCInit /\ [][MCNext]_<<vars, scene>>
=============================================================================
