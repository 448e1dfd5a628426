-------------------------- MODULE SessionRegistry --------------------------
(***************************************************************************)
(* What AuthService promises to whoever holds a session cookie: a session  *)
(* is opened once, in the same step as the sessions it displaces, all of   *)
(* one owner, are closed; a closed session stays closed; a CSRF token is   *)
(* replaced by a new one, never by an earlier one.                         *)
(***************************************************************************)
CONSTANTS Sessions, Owner, Tokens, NoToken

VARIABLES
    state,      \* per session, absent, open or closed
    csrf,       \* the CSRF token each session accepts
    spent       \* the tokens that were replaced

Init ==
    /\ state = [s \in Sessions |-> "absent"]
    /\ csrf = [s \in Sessions |-> NoToken]
    /\ spent = {}

Open(s, displaced) ==
    /\ state[s] = "absent"
    /\ \A d \in displaced : Owner[d] = Owner[s] /\ state[d] # "absent"
    /\ state' = [t \in Sessions |-> IF t = s THEN "open"
                                    ELSE IF t \in displaced THEN "closed" ELSE state[t]]
    /\ \E t \in Tokens \ spent : csrf' = [csrf EXCEPT ![s] = t]
    /\ UNCHANGED spent

Close(s) ==
    /\ state[s] = "open"
    /\ state' = [state EXCEPT ![s] = "closed"]
    /\ UNCHANGED <<csrf, spent>>

Rotate(s) ==
    /\ state[s] # "absent"
    /\ \E t \in Tokens \ (spent \cup {csrf[s]}) : csrf' = [csrf EXCEPT ![s] = t]
    /\ spent' = spent \cup {csrf[s]}
    /\ UNCHANGED state

Next ==
    \E s \in Sessions :
        \/ \E displaced \in SUBSET (Sessions \ {s}) : Open(s, displaced)
        \/ Close(s)
        \/ Rotate(s)

Spec == Init /\ [][Next]_<<state, csrf, spent>>
=============================================================================
