---------------------------- MODULE IdOwnership ----------------------------
(***************************************************************************)
(* What the task index promises about @id, the identity of a task: an id   *)
(* belongs to at most one file, a file takes only ids that nobody has, and *)
(* only the file that has an id can give it up.                            *)
(***************************************************************************)
CONSTANTS Ids,     \* task identities
          Paths,   \* files
          None     \* no owner

VARIABLE owner

Init == owner = [id \in Ids |-> None]

\* File p is read again and now holds the ids S, of those it could have.
Rehome(p, S) ==
  /\ \A id \in S : owner[id] \in {None, p}
  /\ owner' = [id \in Ids |-> IF id \in S THEN p
                              ELSE IF owner[id] = p THEN None
                              ELSE owner[id]]

Next == \E p \in Paths, S \in SUBSET Ids : Rehome(p, S)

Spec == Init /\ [][Next]_owner

=============================================================================
