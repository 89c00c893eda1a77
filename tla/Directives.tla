----------------------------- MODULE Directives -----------------------------
(***************************************************************************)
(* One task line and the grammar that reads and patches it                 *)
(* (internal/engine/directive: Lex, PatchDirective, PatchCheckbox), as the *)
(* write-back stamps it and the index reads it back.                       *)
(*                                                                         *)
(* A line is a sequence of bytes.  Lex goes through it with one index; its *)
(* inner loops look for the end of a name and of a value.  "- [ ]" and     *)
(* "- [x]" count as one byte each, since no byte of them means anything to *)
(* the lexer.                                                              *)
(***************************************************************************)
EXTENDS Integers, Sequences

CONSTANTS Bytes,      \* what a line is made of
          Lower,      \* isLowerAlpha
          NameCont,   \* isNameCont
          Lines,      \* the lines a user may have written
          Requests,   \* the stamps handlers ask for
          MaxStamps,  \* bound: stamps of the line
          None        \* nothing read, no stamp

\* What Lex is called for besides a stamp of a name and a value.
Check == [op |-> "check"]
Read == [op |-> "read"]

Space == " "
Blanks == {Space, "\t"}

\* The names of directives; a handler stamps no others.
Names == {n \in Seq(NameCont) : n # <<>> /\ Head(n) \in Lower}

\* A line ends with its newline, if it has one.
IsLine(l) == \A k \in DOMAIN l : l[k] = "\n" => k = Len(l)

ASSUME GrammarAssumption ==
  /\ Lower \subseteq NameCont /\ NameCont \subseteq Bytes
  /\ Blanks \union {"@", "(", ")", "\r", "\n", "box", "done"} \subseteq Bytes \ NameCont
  /\ Lines \subseteq Seq(Bytes) /\ \A l \in Lines : IsLine(l)
  /\ Requests \subseteq [name : Names, value : Seq(Bytes)] \union {Check}
  /\ MaxStamps \in Nat
  /\ None \notin Requests \union {Read}

VARIABLES line,     \* the bytes of the line in the vault, its line ending included
          job,      \* what Lex is called for: a read of the index, or a stamp
          input,    \* the line Lex was given
          i,        \* Lex: the next byte
          spans,    \* Lex: the spans found
          stamps,
          stamped,  \* history: the latest stamp, and what it saw
          seen      \* history: what the index has read since

vars == <<line, job, input, i, spans, stamps, stamped, seen>>

\* A span runs from the '@' to the ')', with the '(' between name and value.
Spans == [start : Nat, open : Nat, close : Nat]

TypeOK ==
  /\ line \in Seq(Bytes)
  /\ job \in Requests \union {Read, None}
  /\ input \in Seq(Bytes) /\ i \in Nat \ {0} /\ spans \in Seq(Spans)
  /\ stamps \in 0 .. MaxStamps
  /\ stamped \in [request : Requests, input : Seq(Bytes), spans : Seq(Spans)] \union {None}
  /\ seen \in [input : Seq(Bytes), spans : Seq(Spans)] \union {None}

Init ==
  /\ line \in Lines
  /\ job = None
  /\ input = <<>> /\ i = 1 /\ spans = <<>>
  /\ stamps = 0
  /\ stamped = None /\ seen = None

-----------------------------------------------------------------------------
(* Lex *)

\* The first position from `from` on that has one of these bytes, or the end.
Until(l, from, S) ==
  CHOOSE j \in from .. Len(l) + 1 :
    /\ j <= Len(l) => l[j] \in S
    /\ \A k \in from .. j - 1 : l[k] \notin S

StartsName(l, p) == l[p] = "@" /\ p < Len(l) /\ l[p + 1] \in Lower

NameEnd(l, p) == Until(l, p + 2, Bytes \ NameCont)

ValueEnd(l, p) == Until(l, NameEnd(l, p) + 1, {")"})

\* What begins at p is a whole directive.
Terminated(l, p) ==
  /\ StartsName(l, p)
  /\ NameEnd(l, p) <= Len(l) /\ l[NameEnd(l, p)] = "("
  /\ ValueEnd(l, p) <= Len(l)

SpanAt(l, p) == [start |-> p, open |-> NameEnd(l, p), close |-> ValueEnd(l, p)]

\* Mutant: the search goes on behind the name that was not one.
SkipName ==
  /\ job # None /\ i <= Len(input) /\ ~Terminated(input, i)
  /\ i' = IF StartsName(input, i) THEN NameEnd(input, i) + 1 ELSE i + 1
  /\ UNCHANGED <<line, job, input, spans, stamps, stamped, seen>>

\* Not a directive: look on right behind this byte.
Skip ==
  /\ job # None /\ i <= Len(input) /\ ~Terminated(input, i)
  /\ i' = i + 1
  /\ UNCHANGED <<line, job, input, spans, stamps, stamped, seen>>

Take ==
  /\ job # None /\ i <= Len(input) /\ Terminated(input, i)
  /\ spans' = Append(spans, SpanAt(input, i))
  /\ i' = ValueEnd(input, i) + 1
  /\ UNCHANGED <<line, job, input, stamps, stamped, seen>>

NameOf(l, s) == SubSeq(l, s.start + 1, s.open - 1)
ValueOf(l, s) == SubSeq(l, s.open + 1, s.close - 1)

-----------------------------------------------------------------------------
(* PatchDirective and PatchCheckbox *)

\* Patch.Apply: the bytes from `from` up to, and without, `to` are replaced.
Spliced(l, from, to, bytes) == SubSeq(l, 1, from - 1) \o bytes \o SubSeq(l, to, Len(l))

\* Mutant: a line ending is content like the rest.
InsertionPointAtEnd(l) == Len(l) + 1

EndsWith(l, ending) ==
  /\ Len(ending) <= Len(l)
  /\ SubSeq(l, Len(l) - Len(ending) + 1, Len(l)) = ending

\* The content ends before the line ending and the blanks in front of it.
InsertionPoint(l) ==
  LET end == IF EndsWith(l, <<"\r", "\n">>) THEN Len(l) - 2
             ELSE IF EndsWith(l, <<"\n">>) THEN Len(l) - 1 ELSE Len(l)
  IN CHOOSE p \in 1 .. end + 1 :
       /\ \A k \in p .. end : l[k] \in Blanks
       /\ p > 1 => l[p - 1] \notin Blanks

PatchDirective(l, found, name, value) ==
  LET named == {k \in DOMAIN found : NameOf(l, found[k]) = name}
      first == found[CHOOSE k \in named : \A n \in named : k <= n]
      p == InsertionPoint(l)
  IN IF named # {}
     THEN Spliced(l, first.open + 1, first.close, value)
     ELSE Spliced(l, p, p,
            (IF p > 1 THEN <<Space>> ELSE <<>>) \o <<"@">> \o name \o <<"(">> \o value \o <<")">>)

\* Nothing to check is no failure: the caller writes nothing.
PatchCheckbox(l) ==
  LET p == Until(l, 1, {"box"}) IN
  IF p > Len(l) THEN l ELSE [l EXCEPT ![p] = "done"]

-----------------------------------------------------------------------------
(* Write-back and index *)

\* strings.Split takes the newline away.
Text(l) == SubSeq(l, 1, Until(l, 1, {"\n"}) - 1)

\* lineByteRange: a line ends with its newline; what follows is another line.
FirstLine(l) == IF \E k \in DOMAIN l : l[k] = "\n" THEN Append(Text(l), "\n") ELSE l

\* StampDirective or stampCheckbox has read the file.
StartStamp(r) ==
  /\ job = None /\ stamps < MaxStamps
  /\ stamps' = stamps + 1
  /\ job' = r /\ input' = line /\ i' = 1 /\ spans' = <<>>
  /\ UNCHANGED <<line, stamped, seen>>

Stamp ==
  /\ job \in Requests /\ i > Len(input)
  /\ line' = FirstLine(IF job = Check THEN PatchCheckbox(input)
                       ELSE PatchDirective(input, spans, job.name, job.value))
  /\ stamped' = [request |-> job, input |-> input, spans |-> spans]
  /\ seen' = None
  /\ job' = None
  /\ UNCHANGED <<input, i, spans, stamps>>

\* indexFileLocked comes to the line.
StartRead ==
  /\ job = None /\ seen = None
  /\ job' = Read /\ input' = Text(line) /\ i' = 1 /\ spans' = <<>>
  /\ UNCHANGED <<line, stamps, stamped, seen>>

EndRead ==
  /\ job = Read /\ i > Len(input)
  /\ seen' = [input |-> input, spans |-> spans]
  /\ job' = None
  /\ UNCHANGED <<line, input, i, spans, stamps, stamped>>

Next ==
  \/ Skip \/ Take
  \/ (\E r \in Requests : StartStamp(r)) \/ Stamp
  \/ StartRead \/ EndRead

Spec == Init /\ [][Next]_vars

-----------------------------------------------------------------------------
(* Properties *)

\* A directive in the sense of the grammar, from s to e, its '(' at o.
Directive(l, s, o, e) ==
  /\ 1 <= s /\ s + 1 < o /\ o < e /\ e <= Len(l)
  /\ l[s] = "@" /\ l[s + 1] \in Lower /\ l[o] = "(" /\ l[e] = ")"
  /\ \A k \in s + 1 .. o - 1 : l[k] \in NameCont
  /\ \A k \in o + 1 .. e - 1 : l[k] # ")"

\* Whatever Lex has passed, it has found the leftmost directives that do not overlap,
\* in order: each span is one, and one that is not a span begins inside a span.
SpansAreLeftmost ==
  /\ \A k \in DOMAIN spans : Directive(input, spans[k].start, spans[k].open, spans[k].close)
  /\ \A k, n \in DOMAIN spans : k < n => spans[k].close < spans[n].start
  /\ \A s \in {p \in DOMAIN input : p < i /\ input[p] = "@"} :
       \A o, e \in s .. Len(input) : Directive(input, s, o, e) =>
         \E k \in DOMAIN spans :
           \/ spans[k] = [start |-> s, open |-> o, close |-> e]
           \/ spans[k].start < s /\ s <= spans[k].close

\* What the index has of a line: the last of several directives of one name counts.
Indexed(l, found) ==
  LET Named(n) == {k \in DOMAIN found : NameOf(l, found[k]) = n} IN
  [n \in {NameOf(l, found[k]) : k \in DOMAIN found} |->
     ValueOf(l, found[CHOOSE k \in Named(n) : \A m \in Named(n) : m <= k])]

\* A directive that is never closed.
Dangles(l, p) ==
  StartsName(l, p) /\ NameEnd(l, p) <= Len(l) /\ l[NameEnd(l, p)] = "(" /\ ~Terminated(l, p)

\* Where a stamp cannot be read back: its value ends too early, a directive that was
\* never closed swallows the new one, or the index reads the last directive of a name
\* and the stamp is in the first.
Unreadable(l, found, name, value) ==
  LET named == {k \in DOMAIN found : NameOf(l, found[k]) = name} IN
  \/ \E k \in DOMAIN value : value[k] \in {")", "\n"}
  \/ named = {} /\ \E p \in DOMAIN l : Dangles(l, p)
  \/ \E k, n \in named : k # n

\* A stamp is what the index reads next, and nothing else on the line changes for it;
\* a checked box changes nothing unless it stands in a directive's value.
StampIsRead ==
  seen # None /\ stamped # None =>
    LET r == stamped.request
        before == Indexed(stamped.input, stamped.spans)
        after == Indexed(seen.input, seen.spans)
    IN IF r = Check
       THEN \/ after = before
            \/ \E k \in DOMAIN stamped.spans :
                 "box" \in {ValueOf(stamped.input, stamped.spans[k])[b] :
                              b \in DOMAIN ValueOf(stamped.input, stamped.spans[k])}
       ELSE \/ after = [n \in DOMAIN before \union {r.name} |->
                          IF n = r.name THEN r.value ELSE before[n]]
            \/ Unreadable(stamped.input, stamped.spans, r.name, r.value)

=============================================================================
