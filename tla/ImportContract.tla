--------------------------- MODULE ImportContract ---------------------------
(***************************************************************************)
(* What importing snapshots promises to whoever reads the notices: a bundle *)
(* arrives whole or not at all, at most once, and nothing that has arrived  *)
(* goes away.                                                               *)
(***************************************************************************)
EXTENDS Sequences, Functions

CONSTANT Bundles    \* the bundles there are, each with its sequence of items

VARIABLES imported, \* id and manifest of the bundles whose import has succeeded
          library   \* the notice contents that can be found

Init == imported = {} /\ library = {}

Key(b) == [id |-> b.id, manifest |-> b.manifest]

Import(b) ==
    /\ Key(b) \notin imported
    /\ imported' = imported \cup {Key(b)}
    /\ library' = library \cup Range(b.items)

Next == \E b \in Bundles : Import(b)

Spec == Init /\ [][Next]_<<imported, library>>
=============================================================================
