---------------------------- MODULE MCTaskIndex ----------------------------
(***************************************************************************)
(* TaskIndex on two ids and files of at most two lines: an id alone, both  *)
(* in either order, the same id twice, an id that is no id, a schedule     *)
(* that does not parse and one with nothing in it.                         *)
(***************************************************************************)
EXTENDS TaskIndex

CONSTANTS x, y, daily, weekly

L(id, sched) == [id |-> id, sched |-> sched]

\* "a.md" and "a/b.md": WalkDir enters the directory first.
TwoPaths == 1 .. 2
DirectoryFirst == <<2, 1>>

ManyFiles ==
  {<<>>, <<L(x, daily)>>, <<L(y, daily)>>, <<L(x, weekly)>>,
   <<L(y, daily), L(x, daily)>>, <<L(x, daily), L(y, weekly)>>,
   <<L(x, weekly), L(x, daily)>>, <<L(BadId, daily), L(x, daily)>>,
   <<L(x, Unparsable)>>, <<L(x, Empty), L(y, daily)>>}
=============================================================================
