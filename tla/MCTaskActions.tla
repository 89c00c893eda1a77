--------------------------- MODULE MCTaskActions ---------------------------
(***************************************************************************)
(* TaskActions on a file that may hold a note, a @once and a @schedule     *)
(* task, in an order that an edit changes, or a line whose @id is wrong.   *)
(* A raw text brings a line break, a second @id, or an unknown @state.     *)
(***************************************************************************)
EXTENDS TaskActions, TLC

Line(id, kind, state) ==
  [id |-> id, kind |-> kind, state |-> state, skip |-> 0,
   box |-> TRUE, done |-> FALSE, reason |-> "none", error |-> FALSE, odd |-> FALSE]

Note == Line(None, "neither", "absent")

SmallFiles ==
  {<<Line(1, "once", "active")>>,
   <<Note, Line(1, "both", "triggered")>>,
   <<[Line(1, "once", "active") EXCEPT !.odd = TRUE]>>,
   <<Line(BadId, "once", "active"), Line(1, "schedule", "completed")>>}

SomeGarbled ==
  [l \in Lines |-> {<<Note, l>>, <<[l EXCEPT !.id = 1, !.odd = TRUE]>>,
                    <<[l EXCEPT !.state = "absent", !.error = TRUE]>>}]

NoGarbled == [l \in Lines |-> {}]

OneTask == {<<Line(1, "once", "active")>>}

Symmetry == Permutations(Handlers)
=============================================================================
