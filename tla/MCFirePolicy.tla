---------------------------- MODULE MCFirePolicy ----------------------------
(***************************************************************************)
(* FirePolicy with lines that combine a few directives at a few moments.   *)
(***************************************************************************)
EXTENDS FirePolicy

Lookbacks == <<1, 2, 4>>

Line(state, cron, once, until, completed, skips, triggered) ==
  [state |-> state, cron |-> cron, wrong |-> FALSE, once |-> once, skipUntil |-> until,
   completed |-> completed, skips |-> skips, triggered |-> triggered]

SomeLines ==
  {Line(s, TRUE, None, u, c, k, None) :
     s \in {"triggered", "paused"}, u \in {None, 4}, c \in Times \union {None}, k \in {0, 1}}
  \union {Line("active", TRUE, None, None, None, 0, t) : t \in Times \union {None}}
  \union {Line("active", cron, 3, None, c, 0, t) :
            cron \in BOOLEAN, c \in {2, None}, t \in {3, None}}
  \union {[Line("active", TRUE, None, u, c, 1, None) EXCEPT !.wrong = TRUE] :
            u \in {None, 4}, c \in {2, None}}
=============================================================================
