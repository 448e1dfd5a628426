-------------------------- MODULE MCAuthSessions --------------------------
(* Requests of one editor: three logins with a logout or a rotation, two   *)
(* logins with both, and one login with two rotations and a request of     *)
(* every other kind.                                                       *)
EXTENDS AuthSessions, TLC

CONSTANTS l1, l2, l3, out, rot1, rot2, cmd, get, coach

MCOwner == [r \in Logins |-> coach]

MCCasts ==
    {Logins \cup {rq} : rq \in {out} \cup Rotations} \cup
    {(Logins \ {l}) \cup {out, rot} : l \in Logins, rot \in Rotations} \cup
    {{l, out, cmd, get} \cup Rotations : l \in Logins}

(* The logins of one user are interchangeable, and so are the rotations. *)
MCSymmetry == Permutations(Logins) \cup Permutations(Rotations)
=============================================================================
