--------------------------- MODULE MediaLibrary ---------------------------
(***************************************************************************)
(* What MediaService promises to whoever reads the media: assets are only  *)
(* ever added, each in the same step as its audit entry, and no two of     *)
(* them are the same image.                                                *)
(***************************************************************************)
CONSTANTS Uploads, ImageOf, Old

VARIABLES
    assets,     \* the uploads that became assets
    audit       \* the uploads the audit log tells of

Init ==
    /\ assets = Old
    /\ audit = {}

Add(u) ==
    /\ u \notin assets
    /\ \A a \in assets : ImageOf[a] # ImageOf[u]
    /\ assets' = assets \cup {u}
    /\ audit' = audit \cup {u}

Next == \E u \in Uploads : Add(u)

Spec == Init /\ [][Next]_<<assets, audit>>
=============================================================================
