--------------------------- MODULE MCImportJobs ---------------------------
(* Three imports: r1 and r2 name the same target, r3 another one; all      *)
(* bundles share a venue, so imports of different targets meet on it.      *)
EXTENDS ImportJobs

CONSTANTS r1, r2, r3, mens, womens, comp, venue, table, v1, v2

MCTarget == [r \in Requests |-> IF r = r3 THEN womens ELSE mens]

MCPlan == [r \in Requests |->
              CASE r = r1 -> <<venue, table>>
                [] r = r2 -> <<comp, venue>>
                [] OTHER -> <<venue>>]

MCBundle == [r \in Requests |-> [i \in Items |-> IF r = r2 /\ i # venue THEN v2 ELSE v1]]

(* AdminDelete deletes what is there, and the imports write the rest.      *)
MCCatalogues ==
    LET Built(c) == [content |-> c, deleted |-> FALSE, by |-> NoRequest]
    IN  {[i \in Items |-> CASE i = comp -> Built(v1) [] i = venue -> row [] OTHER -> Built(v2)] :
            row \in {NoRow, Built(v2)}}
=============================================================================
