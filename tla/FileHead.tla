------------------------------ MODULE FileHead ------------------------------
(***************************************************************************)
(* What the catalog promises about one file, without workers, leases,      *)
(* turns, segments or requests: a head that captures advance, and a        *)
(* published version that follows it in single steps and stays searchable  *)
(* in full until the file is deleted.                                      *)
(***************************************************************************)
EXTENDS Integers

VARIABLES
    head,        \* the newest captured version, 0 before the first
    deletions,   \* the versions that record a deletion of the file
    published,   \* the version search and read expose, 0 before the first
    closed,      \* the root is being deleted
    whole        \* everything in the published version can be found

vars == <<head, deletions, published, closed, whole>>

Init ==
    /\ head = 0 /\ deletions = {} /\ published = 0
    /\ closed = FALSE /\ whole = TRUE

Capture ==
    /\ ~closed
    /\ head' = head + 1
    /\ deletions' \in {deletions, deletions \cup {head + 1}}
    /\ UNCHANGED <<published, closed, whole>>

Publish ==
    /\ ~closed
    /\ published < head
    /\ published' = head
    /\ whole' = TRUE
    /\ UNCHANGED <<head, deletions, closed>>

\* Once the file was deleted after its publication, its rows may go.
Erode ==
    /\ \E d \in deletions : d > published
    /\ whole' = ~whole
    /\ UNCHANGED <<head, deletions, published, closed>>

Close ==
    /\ ~closed
    /\ closed' = TRUE
    /\ UNCHANGED <<head, deletions, published, whole>>

Next == Capture \/ Publish \/ Erode \/ Close

Spec == Init /\ [][Next]_vars
=============================================================================
