--------------------------- MODULE CallOutcomes ---------------------------
(***************************************************************************)
(* What a caller of the desktop runtime may rely on, whatever processes,   *)
(* threads, queues and timers lie between it and the database: a call is   *)
(* performed at most once; "value" means that it was performed; a refusal  *)
(* means that it was not and never will be; "changed" does not say which   *)
(* of the two, but nothing happens any more; every other error leaves the  *)
(* question open.                                                          *)
(***************************************************************************)
CONSTANT Call    \* the calls, each issued at most once

VARIABLES
    outcome,     \* by call, "unsent", "open", "value", "changed", "refused" or "failed"
    performed    \* the calls that took effect

Issue(c) ==
    /\ outcome[c] = "unsent"
    /\ outcome' = [outcome EXCEPT ![c] = "open"]
    /\ UNCHANGED performed

Perform(c) ==
    /\ outcome[c] \in {"open", "failed"}
    /\ c \notin performed
    /\ performed' = performed \cup {c}
    /\ UNCHANGED outcome

Answer(c) ==
    /\ outcome[c] = "open"
    /\ c \in performed
    /\ outcome' = [outcome EXCEPT ![c] = "value"]
    /\ UNCHANGED performed

Refuse(c) ==
    /\ outcome[c] \in {"unsent", "open"}
    /\ c \notin performed
    /\ outcome' = [outcome EXCEPT ![c] = "refused"]
    /\ UNCHANGED performed

(* The window shows another workspace by now: it is not told. *)
Withhold(c) ==
    /\ outcome[c] \in {"unsent", "open"}
    /\ outcome' = [outcome EXCEPT ![c] = "changed"]
    /\ UNCHANGED performed

(* Calls may fail together: when the process between them exits. *)
GiveUp ==
    /\ \E C \in SUBSET {c \in Call : outcome[c] = "open"} :
          outcome' = [c \in Call |-> IF c \in C THEN "failed" ELSE outcome[c]]
    /\ UNCHANGED performed

Init ==
    /\ outcome = [c \in Call |-> "unsent"]
    /\ performed = {}

Next ==
    \/ \E c \in Call : Issue(c) \/ Perform(c) \/ Answer(c) \/ Refuse(c) \/ Withhold(c)
    \/ GiveUp

Spec == Init /\ [][Next]_<<outcome, performed>>
=============================================================================
