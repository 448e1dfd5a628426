--------------------------- MODULE MCLoginGuard ---------------------------
(* Five attempts on two logins from two addresses, one of them unknown.    *)
EXTENDS LoginGuard

CONSTANTS q1, q2, q3, q4, q5, coach, admin, home, office

MCLogin == [r \in Requests |-> IF r \in {q4, q5} THEN admin ELSE coach]

MCClient == [r \in Requests |-> CASE r = q3 -> NoClient
                                  [] r = q5 -> office
                                  [] OTHER -> home]
=============================================================================
