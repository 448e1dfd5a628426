---------------------------- MODULE MCCatalogue ----------------------------
(* Edits of one match, of its competition and of a venue, by requests that *)
(* may each ask for any of them; or edits of a player and an achievement.  *)
EXTENDS Catalogue, TLC

CONSTANTS r1, r2, r3, men, women, nobody, shot, ghost, cup, hall, arena, final, extra, game,
          ann, bob, gold, silver, g1, a1

(* A match that is scheduled and known to ASB, in a cup, without a venue;  *)
(* a venue, visible or deleted, that may get the identity of another.      *)
MCMatch == [identity |-> g1, status |-> "scheduled", home |-> FALSE, away |-> FALSE,
            team |-> men, competition |-> cup, venue |-> NoReference,
            featured |-> TRUE, deleted |-> FALSE]

MCCup == [identity |-> NoIdentity, active |-> TRUE, deleted |-> FALSE]

MCHall(deleted) == [identity |-> a1, latitude |-> TRUE, longitude |-> TRUE,
                    active |-> ~deleted, deleted |-> deleted]

MCArena == [identity |-> a1, latitude |-> FALSE, longitude |-> FALSE,
            active |-> TRUE, deleted |-> FALSE]

MCPlayer == [team |-> men, photo |-> NoReference, active |-> TRUE, deleted |-> FALSE]

MCAchievement == [team |-> men, media |-> shot, active |-> TRUE, deleted |-> FALSE]

(* The team nobody seeded and the image nobody uploaded have no row. *)
MCCatalogues ==
    {[e \in Entities |-> CASE e = final -> MCMatch
                           [] e = cup -> MCCup
                           [] e = hall -> MCHall(deleted)
                           [] e = ann -> MCPlayer
                           [] e = gold -> MCAchievement
                           [] e \in {men, women, shot} -> [deleted |-> FALSE]
                           [] OTHER -> NoRow] : deleted \in BOOLEAN}

Asks(op, e, payload) == [op |-> op, subject |-> e, payload |-> payload]

MCGame(finished) == [identity |-> g1, finished |-> finished, ahead |-> FALSE,
                     team |-> men, competition |-> cup,
                     venue |-> IF finished THEN hall ELSE NoReference]

MCNewGame == [MCGame(FALSE) EXCEPT !.identity = a1, !.ahead = TRUE]

MCMatchMenu ==
    {Asks("update", final, [status |-> "finished", home |-> TRUE, away |-> TRUE]),
     Asks("update", final, [status |-> "cancelled"]),
     Asks("update", final, [home |-> FALSE]),
     Asks("update", final, [venue |-> hall, team |-> women]),
     Asks("delete", final, NoRow),
     Asks("create", extra, [MCMatch EXCEPT !.identity = NoIdentity, !.venue = hall]),
     Asks("import", game, MCGame(TRUE)),
     Asks("import", game, MCGame(FALSE)),
     Asks("import", game, MCNewGame),
     Asks("import", game, [MCGame(TRUE) EXCEPT !.team = nobody]),
     Asks("import", extra, MCNewGame),
     Asks("update", cup, [active |-> FALSE]),
     Asks("delete", cup, NoRow),
     Asks("delete", hall, NoRow)}

(* A venue gives up its identity, and another one is to have it. *)
MCVenueMenu ==
    {Asks("update", final, [venue |-> hall, team |-> women]),
     Asks("update", hall, [active |-> FALSE]),
     Asks("update", hall, [identity |-> NoIdentity]),
     Asks("update", hall, [latitude |-> FALSE]),
     Asks("delete", hall, NoRow),
     Asks("create", arena, MCArena)}

MCRosterMenu ==
    {Asks("update", ann, [team |-> women]),
     Asks("update", ann, [team |-> nobody, active |-> FALSE]),
     Asks("update", ann, [photo |-> shot, active |-> FALSE]),
     Asks("update", ann, [photo |-> ghost]),
     Asks("delete", ann, NoRow),
     Asks("create", bob, [MCPlayer EXCEPT !.photo = shot]),
     Asks("update", gold, [media |-> ghost]),
     Asks("update", gold, [team |-> women, active |-> FALSE]),
     Asks("delete", gold, NoRow),
     Asks("create", silver, MCAchievement)}

MCMenus == {MCMatchMenu, MCVenueMenu, MCRosterMenu}

(* Only the administrators' edits of the match. *)
MCEdits == {{c \in MCMatchMenu : c.op = "update" /\ c.subject = final}}

MCSymmetry == Permutations(Requests)
=============================================================================
