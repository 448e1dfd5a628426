-------------------------- MODULE CatalogueHistory --------------------------
(***************************************************************************)
(* What the catalogue promises to whoever reads it and its audit log: one  *)
(* row changes at a time (or a match, its competition and its venue), in   *)
(* the same step as the entry that tells who did it; no row ever goes      *)
(* away; and a deleted row stays deleted unless an import brings it back.  *)
(* No locks, no half-done transactions.                                    *)
(***************************************************************************)
CONSTANTS Entities, Competitions, Venues, Matches, Reloaded, NoRow

VARIABLES rows, log

Init == log = {}

Untouched(e) == \A other \in Entities \ {e} : rows'[other] = rows[other]

Create(entry) ==
    /\ entry.op = "create"
    /\ rows[entry.entity] = NoRow
    /\ rows'[entry.entity] = entry.after
    /\ entry.after # NoRow
    /\ Untouched(entry.entity)

(* The entry of a row that is read again tells what was committed.         *)
Update(entry) ==
    /\ entry.op = "update"
    /\ rows[entry.entity] # NoRow
    /\ rows'[entry.entity] # NoRow
    /\ rows'[entry.entity].deleted = rows[entry.entity].deleted
    /\ entry.entity \in Reloaded => rows'[entry.entity] \in {rows[entry.entity], entry.after}
    /\ Untouched(entry.entity)

Delete(entry) ==
    /\ entry.op = "delete"
    /\ rows[entry.entity] # NoRow
    /\ rows'[entry.entity] # NoRow
    /\ rows'[entry.entity].deleted
    /\ Untouched(entry.entity)

(* An import deletes nothing, and brings back no venue. *)
Relist(e) ==
    /\ e \in Competitions \cup Venues
    /\ rows[e] # NoRow
    /\ rows'[e] # NoRow
    /\ rows'[e].deleted # rows[e].deleted => e \in Competitions /\ rows[e].deleted

Import(entry) ==
    /\ entry.op = "import"
    /\ \E m \in Matches :
         /\ rows'[m] # NoRow
         /\ \A other \in Entities \ {m} : rows'[other] = rows[other] \/ Relist(other)

Next ==
    \E entry \in log' \ log :
        /\ log' = log \cup {entry}
        /\ \A other \in log : other.by # entry.by
        /\ Create(entry) \/ Update(entry) \/ Delete(entry) \/ Import(entry)

Spec == Init /\ [][Next]_<<rows, log>>
=============================================================================
