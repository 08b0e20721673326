---------------------------- MODULE MCSyncEngine ----------------------------
(***************************************************************************)
(* Small instances of the sync engine for TLC: either interchangeable      *)
(* items without references, or a group and a profile filed under it.      *)
(***************************************************************************)
EXTENDS SyncHistory, TLC

CONSTANTS
    G, P,          \* a group and a profile
    a, b,          \* items without references
    x, y,          \* contents of an item without references
    g,             \* a group's content
    plain, inG     \* a profile outside any group, and one in G

Symmetry == Permutations(Value)

MCFits == [i \in Item |-> Value]
(* A group, and a profile that may be filed under it. *)
MCFitsRefs == (G :> {g}) @@ (P :> {plain, inG})
MCRefs == [v \in Value |-> IF v = inG THEN {G} ELSE {}]

MCCode == {""} \cup EngineCodes \cup RetryCodes \cup FatalCodes

MCNoRefs == [v \in Value |-> {}]
=============================================================================
