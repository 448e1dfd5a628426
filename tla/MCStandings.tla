---------------------------- MODULE MCStandings ----------------------------
(* A publication, two imports and two deletions of one pair's tables: one  *)
(* of the table there was before, one of a table an import may bring.      *)
EXTENDS Standings

CONSTANTS old, pub1, imp1, imp2, del1, del2, men, t1, t2

MCPairOf == [s \in Snapshots |-> men]

(* The imports bring the same table; the administrator publishes another.  *)
MCContentOf == [s \in Snapshots |-> IF s \in Imports THEN t1 ELSE t2]

MCVictim == [r \in Deleters |-> IF r = del1 THEN old ELSE imp1]
=============================================================================
