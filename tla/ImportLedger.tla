--------------------------- MODULE ImportLedger ---------------------------
(***************************************************************************)
(* What ImportService promises to whoever reads the database: a history of *)
(* import jobs in which a target has one job in flight at a time, and in   *)
(* which the rows of an import, its audit entry and its completed job      *)
(* appear in one step.  No locks, sessions or half-done transactions.      *)
(***************************************************************************)
CONSTANTS Requests, Target, Items, Row, NoRow

VARIABLES jobs, rows, audit

Active == {"pending", "running"}

Init ==
    /\ jobs = [r \in Requests |-> "none"]
    /\ rows \in [Items -> Row \cup {NoRow}]
    /\ audit = {}

Accept(r) ==
    /\ jobs[r] = "none"
    /\ \A q \in Requests \ {r} : Target[q] = Target[r] => jobs[q] \notin Active
    /\ jobs' = [jobs EXCEPT ![r] = "pending"]
    /\ UNCHANGED <<rows, audit>>

Start(r) ==
    /\ jobs[r] = "pending"
    /\ jobs' = [jobs EXCEPT ![r] = "running"]
    /\ UNCHANGED <<rows, audit>>

Complete(r) ==
    /\ jobs[r] = "running"
    /\ jobs' = [jobs EXCEPT ![r] = "completed"]
    /\ audit' = audit \cup {r}
    /\ rows' \in [Items -> Row \cup {NoRow}]
    /\ \A i \in Items : rows'[i] # rows[i] => rows'[i] # NoRow /\ rows'[i].by = r

Fail(r) ==
    /\ jobs[r] = "running"
    /\ jobs' = [jobs EXCEPT ![r] = "failed"]
    /\ UNCHANGED <<rows, audit>>

(* An administrator deletes a row: the only change no import makes.        *)
Delete(i) ==
    /\ rows[i] # NoRow
    /\ \E row \in Row \cup {NoRow} :
          /\ row # NoRow => row = [rows[i] EXCEPT !.deleted = TRUE, !.by = row.by]
                            /\ row.by \notin Requests
          /\ rows' = [rows EXCEPT ![i] = row]
    /\ UNCHANGED <<jobs, audit>>

Next ==
    \/ \E r \in Requests : Accept(r) \/ Start(r) \/ Complete(r) \/ Fail(r)
    \/ \E i \in Items : Delete(i)

Spec == Init /\ [][Next]_<<jobs, rows, audit>>
=============================================================================
