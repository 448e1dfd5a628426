--------------------------- MODULE MCPublicReads ---------------------------
(* Three matches, the third in a competition of its own.  Matches start    *)
(* now or later; each may be in any place of the list or the feed.         *)
EXTENDS PublicReads

CONSTANTS league, cup

MCRow(starts, status, competition, deleted) ==
    [starts |-> starts, status |-> status, competition |-> competition, deleted |-> deleted]

MCRows ==
    [m \in Matches |->
        LET competition == IF m = 3 THEN cup ELSE league
        IN  {MCRow(1, "finished", competition, FALSE), MCRow(2, "finished", competition, FALSE),
             MCRow(1, "live", competition, FALSE), MCRow(2, "scheduled", competition, FALSE),
             MCRow(1, "finished", competition, TRUE)}]

(* An edit changes one match, an import may change two at once. *)
MCTogether == {{1}, {2}, {3}, {1, 2}}
=============================================================================
