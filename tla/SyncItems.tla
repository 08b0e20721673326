----------------------------- MODULE SyncItems -----------------------------
(***************************************************************************)
(* The data the account sync moves around: items (a group, a profile, a    *)
(* credential, a snippet, named by type and id), the values they take and  *)
(* the references between them (packages/core/src/sync/model.ts and        *)
(* local/model.ts).                                                        *)
(*                                                                         *)
(* A value stands for a class of entities the code's `equal` cannot tell   *)
(* apart.  All that the engine asks of a value is equality and the items   *)
(* it refers to.                                                           *)
(***************************************************************************)
EXTENDS Integers, FiniteSets

CONSTANTS
    Item,      \* identities "<type>:<id>"
    Value,     \* contents, up to `equal`
    Nil,       \* no row, or (as a content) a tombstone
    Fits,      \* Fits[i]: the contents item i may take
    Refs       \* Refs[v]: the items content v refers to

ASSUME ItemsAssumption ==
    /\ IsFiniteSet(Item)
    /\ Nil \notin Value /\ Nil \notin Item
    /\ Fits \in [Item -> SUBSET Value]
    /\ Refs \in [Value -> SUBSET Item]

Content == Value \cup {Nil}

(* Entities tables: one content per item, Nil where the item does not exist. *)
Table == [Item -> Content]

EmptyTable == [i \in Item |-> Nil]

Present(e) == {i \in Item : e[i] # Nil}

Uses(e, i) == IF e[i] = Nil THEN {} ELSE Refs[e[i]]

(***************************************************************************)
(* validateGraph: every reference exists, and neither groups nor jump      *)
(* servers form a cycle.  References never lead from a group to a profile, *)
(* so one acyclicity condition covers both.  The five-level limit on jump  *)
(* servers is not modelled: the instances have fewer items.                *)
(***************************************************************************)
GraphValid(e) ==
    /\ \A i \in Item : Uses(e, i) \subseteq Present(e)
    /\ \A S \in SUBSET Present(e) :
           S # {} => \E i \in S : Uses(e, i) \cap S = {}

(* put(payload, id, value) for every id of a set at once. *)
Put(e, S, new) == [i \in Item |-> IF i \in S THEN new[i] ELSE e[i]]

(***************************************************************************)
(* The items a content reaches through the references of the current       *)
(* entities: the least set that holds its references and is closed under   *)
(* the references of the entities in it (the stack walk in draft).         *)
(***************************************************************************)
Reaches(e, v) ==
    {j \in Item :
        \A S \in SUBSET Item :
            (/\ v # Nil => Refs[v] \subseteq S
             /\ \A k \in S : Uses(e, k) \subseteq S) => j \in S}
=============================================================================
