------------------------- MODULE StandingsHistory -------------------------
(***************************************************************************)
(* What StandingsService promises to whoever reads the tables: a snapshot  *)
(* is published once, in the same step as the current snapshot of its pair *)
(* is archived; nothing archived or deleted becomes current again; every   *)
(* deletion, and every publication by an administrator, adds one entry to  *)
(* the audit log in the step that makes it visible.                        *)
(***************************************************************************)
CONSTANTS Snapshots, PairOf, Old, Manual, Entries

VARIABLES
    state,      \* per snapshot: absent, current, archived or deleted
    log         \* the audit entries

OneCurrent(states) ==
    \A s, t \in Snapshots :
        s # t /\ PairOf[s] = PairOf[t] => ~(states[s] = "current" /\ states[t] = "current")

Init ==
    /\ state \in [Snapshots -> {"absent", "current", "archived"}]
    /\ \A s \in Snapshots : state[s] # "absent" <=> s \in Old
    /\ OneCurrent(state)
    /\ log = {}

Publish(s) ==
    /\ state[s] = "absent"
    /\ state' = [t \in Snapshots |->
                    IF t = s THEN "current"
                    ELSE IF PairOf[t] = PairOf[s] /\ state[t] = "current" THEN "archived"
                    ELSE state[t]]
    /\ IF s \in Manual
       THEN \E e \in Entries \ log : /\ e.action = "publish" /\ e.snapshot = s
                                     /\ log' = log \cup {e}
       ELSE UNCHANGED log

(* Deleting a snapshot that is already deleted changes only the log. *)
Delete(s) ==
    /\ state[s] # "absent"
    /\ state' = [state EXCEPT ![s] = "deleted"]
    /\ \E e \in Entries \ log : /\ e.action = "delete" /\ e.snapshot = s
                                /\ log' = log \cup {e}

Next == \E s \in Snapshots : Publish(s) \/ Delete(s)

Spec == Init /\ [][Next]_<<state, log>>
=============================================================================
