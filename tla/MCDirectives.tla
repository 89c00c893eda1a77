---------------------------- MODULE MCDirectives ----------------------------
(***************************************************************************)
(* Directives on lines put together from pieces: whole directives, opened  *)
(* ones, a '@' that begins nothing, text, and line endings.                *)
(***************************************************************************)
EXTENDS Directives, SequencesExt

Pieces ==
  {<<"@", "a", "(", ")">>, <<"@", "a", "(">>, <<"@", "b", "1", "(">>, <<"@", "1", "(">>,
   <<"@", "a">>, <<")">>, <<" ">>, <<"box">>}

Endings == {<<>>, <<"\n">>, <<" ", "\r", "\n">>}

PieceLines ==
  {FlattenSeq(ps) \o e : ps \in UNION {[1 .. n -> Pieces] : n \in 0 .. 3}, e \in Endings}

AllBytes == {"@", "a", "b", "1", "(", ")", " ", "\t", "\r", "\n", "box", "done"}

Stamps(name, value) == [name |-> name, value |-> value]

SomeRequests ==
  {Stamps(<<"a">>, <<"b">>), Stamps(<<"a">>, <<")">>), Stamps(<<"b", "1">>, <<"a">>), Check}
=============================================================================
