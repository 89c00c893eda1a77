------------------------- MODULE Directives_proofs -------------------------
(***************************************************************************)
(* What holds of Directives for every alphabet, every line and every       *)
(* stamp: the lexer finds exactly the leftmost directives, and a stamp is  *)
(* what the index reads next.                                              *)
(*                                                                         *)
(* A line has one set of leftmost directives, and Lex returns it.  So it   *)
(* is enough to say which set it is after a patch: the directives outside  *)
(* the edited stretch, moved by the difference in length, and the new one. *)
(* That set is leftmost in the patched line if no directive begins or ends *)
(* elsewhere for the edit (Fits): which is what replacing the value of a   *)
(* name that is there once, and inserting behind the content, have to show.*)
(***************************************************************************)
EXTENDS Directives, TLAPS, SequenceTheorems, WellFoundedInduction

-----------------------------------------------------------------------------
(* Searching a line *)

\* No byte that means something to the lexer is one of a name.
LEMMA SpecialBytes ==
  /\ Lower \subseteq NameCont /\ NameCont \subseteq Bytes
  /\ {Space, "@", "(", ")", "\n", "done"} \subseteq Bytes \ NameCont
BY GrammarAssumption DEF Blanks

\* A set of positions that is not empty has a first one.
LEMMA FirstOf ==
  ASSUME NEW T \in SUBSET Nat, T # {}
  PROVE  \E j \in T : \A k \in T : j <= k
<1>1. PICK j \in T : \A k \in T : ~ (<<k, j>> \in OpToRel(<, Nat))
  BY NatLessThanWellFounded, WFMin, Zenon
<1>2. \A k \in T : j <= k
  <2>1. TAKE k \in T
  <2>2. j \in Nat /\ k \in Nat
    BY <1>1
  <2>3. ~ (k < j)
    BY <1>1, <2>2 DEF OpToRel
  <2>4. QED
    BY <2>2, <2>3
<1>3. QED
  BY <1>1, <1>2

\* Until answers the first position that has one of the bytes, or the end.
LEMMA UntilIsFirst ==
  ASSUME NEW l \in Seq(Bytes), NEW from \in 1 .. Len(l) + 1, NEW S
  PROVE  /\ Until(l, from, S) \in from .. Len(l) + 1
         /\ Until(l, from, S) <= Len(l) => l[Until(l, from, S)] \in S
         /\ \A k \in from .. Until(l, from, S) - 1 : l[k] \notin S
<1> DEFINE T == {j \in from .. Len(l) + 1 : j <= Len(l) => l[j] \in S}
<1>1. Len(l) \in Nat /\ from \in Nat
  OBVIOUS
<1>2. T \in SUBSET Nat /\ Len(l) + 1 \in T
  BY <1>1
<1>3. PICK j \in T : \A k \in T : j <= k
  BY <1>2, FirstOf
<1>4. /\ j \in from .. Len(l) + 1
      /\ j <= Len(l) => l[j] \in S
      /\ \A k \in from .. j - 1 : l[k] \notin S
  BY <1>1, <1>3
<1>5. QED
  BY <1>4 DEF Until

\* ... and no other position is.
LEMMA UntilIsUnique ==
  ASSUME NEW l \in Seq(Bytes), NEW from \in 1 .. Len(l) + 1, NEW S,
         NEW j \in from .. Len(l), l[j] \in S,
         \A k \in from .. j - 1 : l[k] \notin S
  PROVE  Until(l, from, S) = j
<1> DEFINE u == Until(l, from, S)
<1>1. /\ u \in from .. Len(l) + 1 /\ Len(l) \in Nat
      /\ u <= Len(l) => l[u] \in S
      /\ \A k \in from .. u - 1 : l[k] \notin S
  BY UntilIsFirst
<1> HIDE DEF u
<1>2. ~ (u < j)
  BY <1>1
<1>3. ~ (j < u)
  BY <1>1
<1>4. u = j
  BY <1>1, <1>2, <1>3
<1>5. QED
  BY <1>4 DEF u

\* What begins at p is a directive in the sense of the grammar exactly if the lexer's
\* loops end within the line, and then it ends where they do.
LEMMA LexIsGrammar ==
  ASSUME NEW l \in Seq(Bytes), NEW p \in 1 .. Len(l)
  PROVE  /\ Terminated(l, p) => Directive(l, p, NameEnd(l, p), ValueEnd(l, p))
         /\ \A o, e \in p .. Len(l) : Directive(l, p, o, e) =>
              Terminated(l, p) /\ o = NameEnd(l, p) /\ e = ValueEnd(l, p)
<1>1. /\ Len(l) \in Nat /\ \A k \in 1 .. Len(l) : l[k] \in Bytes
      /\ Lower \subseteq NameCont /\ NameCont \subseteq Bytes
      /\ "(" \in Bytes \ NameCont /\ ")" \in Bytes \ NameCont
  <2>1. Len(l) \in Nat /\ \A k \in 1 .. Len(l) : l[k] \in Bytes
    OBVIOUS
  <2>2. "(" \in Bytes \ NameCont /\ ")" \in Bytes \ NameCont
    BY SpecialBytes
  <2>3. QED
    BY <2>1, <2>2, SpecialBytes
<1>2. ASSUME Terminated(l, p)
      PROVE  Directive(l, p, NameEnd(l, p), ValueEnd(l, p))
  <2> DEFINE o == NameEnd(l, p)
             e == ValueEnd(l, p)
  <2>1. l[p] = "@" /\ p < Len(l) /\ l[p + 1] \in Lower
        /\ o <= Len(l) /\ l[o] = "(" /\ e <= Len(l)
    BY <1>2 DEF Terminated, StartsName
  <2>2. /\ o \in p + 2 .. Len(l) + 1
        /\ \A k \in p + 2 .. o - 1 : l[k] \notin Bytes \ NameCont
    <3>1. p + 2 \in 1 .. Len(l) + 1
      BY <2>1, <1>1
    <3>2. QED
      BY <3>1, UntilIsFirst DEF NameEnd
  <2>3. /\ e \in o + 1 .. Len(l) + 1
        /\ l[e] \in {")"}
        /\ \A k \in o + 1 .. e - 1 : l[k] \notin {")"}
    <3>1. o + 1 \in 1 .. Len(l) + 1
      BY <2>1, <2>2, <1>1
    <3>2. QED
      BY <3>1, <2>1, UntilIsFirst DEF ValueEnd
  <2> HIDE DEF o, e
  <2>4. \A k \in p + 1 .. o - 1 : l[k] \in NameCont
    BY <2>1, <2>2, <1>1
  <2>5. Directive(l, p, o, e)
    BY <2>1, <2>2, <2>3, <2>4, <1>1 DEF Directive
  <2>6. QED
    BY <2>5 DEF o, e
<1>3. ASSUME NEW o \in p .. Len(l), NEW e \in p .. Len(l), Directive(l, p, o, e)
      PROVE  Terminated(l, p) /\ o = NameEnd(l, p) /\ e = ValueEnd(l, p)
  <2>1. /\ l[p] = "@" /\ l[p + 1] \in Lower /\ l[o] = "(" /\ l[e] = ")"
        /\ p + 1 < o /\ o < e /\ e <= Len(l)
        /\ \A k \in p + 1 .. o - 1 : l[k] \in NameCont
        /\ \A k \in o + 1 .. e - 1 : l[k] # ")"
    BY <1>3 DEF Directive
  <2>2. NameEnd(l, p) = o
    <3>1. p + 2 \in 1 .. Len(l) + 1 /\ o \in p + 2 .. Len(l)
      BY <2>1, <1>1
    <3>2. l[o] \in Bytes \ NameCont
      BY <2>1, <1>1
    <3>3. \A k \in p + 2 .. o - 1 : l[k] \notin Bytes \ NameCont
      BY <2>1, <1>1
    <3>4. QED
      BY <3>1, <3>2, <3>3, UntilIsUnique DEF NameEnd
  <2>3. ValueEnd(l, p) = e
    <3>1. o + 1 \in 1 .. Len(l) + 1 /\ e \in o + 1 .. Len(l)
      BY <2>1, <1>1
    <3>2. l[e] \in {")"} /\ \A k \in o + 1 .. e - 1 : l[k] \notin {")"}
      BY <2>1
    <3>3. QED
      BY <3>1, <3>2, <2>2, UntilIsUnique DEF ValueEnd
  <2>4. QED
    BY <2>1, <2>2, <2>3, <1>1 DEF Terminated, StartsName
<1>4. QED
  BY <1>2, <1>3

-----------------------------------------------------------------------------
(* Patching a line *)

\* A stretch of a line is made of bytes.
LEMMA BytesOf ==
  ASSUME NEW l \in Seq(Bytes), NEW m \in 1 .. Len(l) + 1, NEW n \in 0 .. Len(l)
  PROVE  SubSeq(l, m, n) \in Seq(Bytes)
<1>1. \A k \in m .. n : l[k] \in Bytes
  OBVIOUS
<1>2. m \in Int /\ n \in Int
  OBVIOUS
<1>3. QED
  BY <1>1, <1>2, SubSeqProperties

\* A patch within the line leaves a line.
LEMMA SplicedType ==
  ASSUME NEW l \in Seq(Bytes), NEW bytes \in Seq(Bytes),
         NEW from \in 1 .. Len(l) + 1, NEW to \in 1 .. Len(l) + 1
  PROVE  Spliced(l, from, to, bytes) \in Seq(Bytes)
<1>1. Len(l) \in Nat /\ from - 1 \in 0 .. Len(l) /\ 1 \in 1 .. Len(l) + 1
      /\ Len(l) \in 0 .. Len(l)
  OBVIOUS
<1>2. SubSeq(l, 1, from - 1) \in Seq(Bytes) /\ SubSeq(l, to, Len(l)) \in Seq(Bytes)
  BY <1>1, BytesOf
<1>3. QED
  BY <1>2, ConcatProperties DEF Spliced

\* The last bytes of a line.
LEMMA TailOf ==
  ASSUME NEW l \in Seq(Bytes), NEW n \in Nat, n <= Len(l)
  PROVE  /\ SubSeq(l, Len(l) - n + 1, Len(l)) \in Seq(Bytes)
         /\ Len(SubSeq(l, Len(l) - n + 1, Len(l))) = n
         /\ \A k \in 1 .. n : SubSeq(l, Len(l) - n + 1, Len(l))[k] = l[(Len(l) - n) + k]
<1> DEFINE c == Len(l) - n + 1
           d == Len(l)
<1>1. /\ c \in Int /\ d \in Int /\ 1 <= c /\ d - c + 1 = n
      /\ (IF c <= d THEN d - c + 1 ELSE 0) = n
  OBVIOUS
<1>2. \A k \in 1 .. n : c + k - 1 = (Len(l) - n) + k
  OBVIOUS
<1>3. \A k \in c .. d : l[k] \in Bytes
  BY <1>1
<1> HIDE DEF c, d
<1>4. /\ SubSeq(l, c, d) \in Seq(Bytes)
      /\ Len(SubSeq(l, c, d)) = IF c <= d THEN d - c + 1 ELSE 0
      /\ \A k \in 1 .. d - c + 1 : SubSeq(l, c, d)[k] = l[c + k - 1]
  BY <1>1, <1>3, SubSeqProperties
<1>5. /\ SubSeq(l, c, d) \in Seq(Bytes) /\ Len(SubSeq(l, c, d)) = n
      /\ \A k \in 1 .. n : SubSeq(l, c, d)[k] = l[(Len(l) - n) + k]
  BY <1>1, <1>2, <1>4
<1>6. QED
  BY <1>5 DEF c, d

\* What the two line endings look like, byte by byte.
LEMMA EndingIs ==
  ASSUME NEW l \in Seq(Bytes)
  PROVE  /\ EndsWith(l, <<"\n">>) <=> 1 <= Len(l) /\ l[Len(l)] = "\n"
         /\ EndsWith(l, <<"\r", "\n">>) =>
              2 <= Len(l) /\ l[Len(l) - 1] = "\r" /\ l[Len(l)] = "\n"
<1>1. Len(l) \in Nat /\ Len(<<"\n">>) = 1 /\ Len(<<"\r", "\n">>) = 2
  OBVIOUS
<1>2. ASSUME EndsWith(l, <<"\n">>) PROVE 1 <= Len(l) /\ l[Len(l)] = "\n"
  <2> DEFINE t == SubSeq(l, Len(l) - 1 + 1, Len(l))
  <2>1. 1 <= Len(l) /\ t = <<"\n">>
    BY <1>1, <1>2 DEF EndsWith
  <2>2. \A k \in 1 .. 1 : t[k] = l[(Len(l) - 1) + k]
    BY <2>1, TailOf
  <2> HIDE DEF t
  <2>3. t[1] = l[(Len(l) - 1) + 1] /\ (Len(l) - 1) + 1 = Len(l)
    BY <1>1, <2>2
  <2>4. t[1] = "\n"
    BY <2>1
  <2>5. QED
    BY <2>1, <2>3, <2>4
<1>3. ASSUME 1 <= Len(l), l[Len(l)] = "\n" PROVE EndsWith(l, <<"\n">>)
  <2> DEFINE t == SubSeq(l, Len(l) - 1 + 1, Len(l))
  <2>1. t \in Seq(Bytes) /\ Len(t) = 1 /\ \A k \in 1 .. 1 : t[k] = l[(Len(l) - 1) + k]
    BY <1>3, TailOf
  <2> HIDE DEF t
  <2>2. t[1] = l[(Len(l) - 1) + 1] /\ (Len(l) - 1) + 1 = Len(l)
    BY <1>1, <2>1
  <2>3. "\n" \in Bytes
    BY SpecialBytes
  <2>4. t = <<"\n">>
    <3>1. <<"\n">> \in Seq(Bytes) /\ Len(t) = Len(<<"\n">>)
      BY <1>1, <2>1, <2>3
    <3>2. \A k \in 1 .. Len(t) : t[k] = <<"\n">>[k]
      BY <1>3, <2>1, <2>2
    <3>3. QED
      BY <2>1, <3>1, <3>2, SeqEqual
  <2>5. QED
    BY <1>1, <1>3, <2>4 DEF EndsWith, t
<1>4. ASSUME EndsWith(l, <<"\r", "\n">>)
      PROVE  2 <= Len(l) /\ l[Len(l) - 1] = "\r" /\ l[Len(l)] = "\n"
  <2> DEFINE t == SubSeq(l, Len(l) - 2 + 1, Len(l))
  <2>1. 2 <= Len(l) /\ t = <<"\r", "\n">>
    BY <1>1, <1>4 DEF EndsWith
  <2>2. \A k \in 1 .. 2 : t[k] = l[(Len(l) - 2) + k]
    BY <2>1, TailOf
  <2> HIDE DEF t
  <2>3. /\ t[1] = l[(Len(l) - 2) + 1] /\ (Len(l) - 2) + 1 = Len(l) - 1
        /\ t[2] = l[(Len(l) - 2) + 2] /\ (Len(l) - 2) + 2 = Len(l)
    BY <1>1, <2>2
  <2>4. t[1] = "\r" /\ t[2] = "\n"
    BY <2>1
  <2>5. QED
    BY <2>1, <2>3, <2>4
<1>5. QED
  BY <1>2, <1>3, <1>4

\* Behind the content there is no more than blanks and the line ending.
LEMMA BehindContent ==
  ASSUME NEW l \in Seq(Bytes)
  PROVE  /\ InsertionPoint(l) \in 1 .. Len(l) + 1
         /\ \A k \in InsertionPoint(l) .. Len(l) : l[k] \in Blanks \union {"\r", "\n"}
         /\ 1 <= Len(l) /\ l[Len(l)] = "\n" => InsertionPoint(l) <= Len(l)
<1> DEFINE end == IF EndsWith(l, <<"\r", "\n">>) THEN Len(l) - 2
                  ELSE IF EndsWith(l, <<"\n">>) THEN Len(l) - 1 ELSE Len(l)
           p == InsertionPoint(l)
<1>1. /\ end \in 0 .. Len(l) /\ Len(l) \in Nat
      /\ \A k \in end + 1 .. Len(l) : l[k] \in {"\r", "\n"}
      /\ 1 <= Len(l) /\ l[Len(l)] = "\n" => end < Len(l)
  <2>1. CASE EndsWith(l, <<"\r", "\n">>)
    <3>1. /\ end = Len(l) - 2 /\ 2 <= Len(l) /\ Len(l) \in Nat
          /\ l[Len(l) - 1] = "\r" /\ l[Len(l)] = "\n"
      BY <2>1, EndingIs
    <3> HIDE DEF end
    <3>2. \A k \in end + 1 .. Len(l) : k = Len(l) - 1 \/ k = Len(l)
      BY <3>1
    <3>3. QED
      BY <3>1, <3>2
  <2>2. CASE ~EndsWith(l, <<"\r", "\n">>) /\ EndsWith(l, <<"\n">>)
    <3>1. end = Len(l) - 1 /\ 1 <= Len(l) /\ Len(l) \in Nat /\ l[Len(l)] = "\n"
      BY <2>2, EndingIs
    <3> HIDE DEF end
    <3>2. \A k \in end + 1 .. Len(l) : k = Len(l)
      BY <3>1
    <3>3. QED
      BY <3>1, <3>2
  <2>3. CASE ~EndsWith(l, <<"\r", "\n">>) /\ ~EndsWith(l, <<"\n">>)
    <3>1. end = Len(l) /\ Len(l) \in Nat /\ ~ (1 <= Len(l) /\ l[Len(l)] = "\n")
      BY <2>3, EndingIs
    <3> HIDE DEF end
    <3>2. QED
      BY <3>1
  <2>4. QED
    BY <2>1, <2>2, <2>3
<1>2. p \in 1 .. end + 1 /\ \A k \in p .. end : l[k] \in Blanks
  <2> DEFINE T == {q \in 1 .. end + 1 : \A k \in q .. end : l[k] \in Blanks}
  <2> HIDE DEF end
  <2>1. T \in SUBSET Nat /\ end + 1 \in T
    BY <1>1
  <2>2. PICK q \in T : \A r \in T : q <= r
    BY <2>1, FirstOf
  <2>3. q > 1 => l[q - 1] \notin Blanks
    <3>1. SUFFICES ASSUME q > 1, l[q - 1] \in Blanks PROVE FALSE
      OBVIOUS
    <3>2. q \in 1 .. end + 1 /\ (\A k \in q .. end : l[k] \in Blanks) /\ q \in Nat /\ end \in Nat
      BY <1>1, <2>2
    <3>3. ASSUME NEW k \in q - 1 .. end PROVE l[k] \in Blanks
      <4>1. k = q - 1 \/ k \in q .. end
        BY <3>2
      <4>2. QED
        BY <3>1, <3>2, <4>1
    <3>4. q - 1 \in 1 .. end + 1
      BY <3>1, <3>2
    <3>5. q - 1 \in T
      BY <3>3, <3>4
    <3>6. q <= q - 1
      BY <2>2, <3>5
    <3>7. QED
      BY <3>2, <3>6
  <2>4. \E r \in 1 .. end + 1 : /\ \A k \in r .. end : l[k] \in Blanks
                                /\ r > 1 => l[r - 1] \notin Blanks
    BY <2>2, <2>3
  <2>5. QED
    BY <2>4 DEF InsertionPoint, end
<1> HIDE DEF end, p
<1>3. p \in 1 .. Len(l) + 1 /\ (1 <= Len(l) /\ l[Len(l)] = "\n" => p <= Len(l))
  BY <1>1, <1>2
<1>4. ASSUME NEW k \in p .. Len(l) PROVE l[k] \in Blanks \union {"\r", "\n"}
  <2>1. k \in p .. end \/ k \in end + 1 .. Len(l)
    BY <1>1, <1>2, <1>3
  <2>2. QED
    BY <1>1, <1>2, <2>1
<1>5. QED
  BY <1>3, <1>4 DEF p

\* Spans of the line that was read.
Within(l, found) ==
  /\ found \in Seq(Spans)
  /\ \A k \in DOMAIN found : Directive(l, found[k].start, found[k].open, found[k].close)

\* A patched line is made of bytes.
LEMMA PatchedType ==
  ASSUME NEW l \in Seq(Bytes), NEW found, Within(l, found),
         NEW name \in Seq(Bytes), NEW value \in Seq(Bytes)
  PROVE  PatchDirective(l, found, name, value) \in Seq(Bytes)
<1> DEFINE named == {k \in DOMAIN found : NameOf(l, found[k]) = name}
           first == found[CHOOSE k \in named : \A n \in named : k <= n]
           p == InsertionPoint(l)
           fresh == (IF p > 1 THEN <<Space>> ELSE <<>>) \o <<"@">> \o name \o <<"(">>
                      \o value \o <<")">>
<1>1. CASE named # {}
  <2>1. named \in SUBSET Nat
    BY DEF Within
  <2>2. (CHOOSE k \in named : \A n \in named : k <= n) \in named
    BY <1>1, <2>1, FirstOf
  <2> DEFINE k == CHOOSE m \in named : \A n \in named : m <= n
  <2> HIDE DEF k
  <2>3. k \in DOMAIN found
    BY <2>2 DEF k
  <2>4. /\ found[k] \in Spans
        /\ Directive(l, found[k].start, found[k].open, found[k].close)
    BY <2>3 DEF Within
  <2>5. found[k].open + 1 \in 1 .. Len(l) + 1 /\ found[k].close \in 1 .. Len(l) + 1
    BY <2>4 DEF Spans, Directive
  <2>6. Spliced(l, found[k].open + 1, found[k].close, value) \in Seq(Bytes)
    BY <2>5, SplicedType
  <2>7. PatchDirective(l, found, name, value) = Spliced(l, first.open + 1, first.close, value)
    BY <1>1 DEF PatchDirective
  <2>8. QED
    BY <2>6, <2>7 DEF k
<1>2. CASE named = {}
  <2>1. p \in 1 .. Len(l) + 1
    BY BehindContent
  <2>2. /\ <<Space>> \in Seq(Bytes) /\ <<"@">> \in Seq(Bytes)
        /\ <<"(">> \in Seq(Bytes) /\ <<")">> \in Seq(Bytes) /\ <<>> \in Seq(Bytes)
    <3>1. Space \in Bytes /\ "@" \in Bytes /\ "(" \in Bytes /\ ")" \in Bytes
      BY SpecialBytes
    <3>2. QED
      BY <3>1
  <2>3. fresh \in Seq(Bytes)
    <3>1. (IF p > 1 THEN <<Space>> ELSE <<>>) \in Seq(Bytes)
      BY <2>2
    <3>2. QED
      BY <3>1, <2>2, ConcatProperties
  <2>4. PatchDirective(l, found, name, value) = Spliced(l, p, p, fresh)
    BY <1>2 DEF PatchDirective
  <2> HIDE DEF fresh, p
  <2>5. QED
    BY <2>1, <2>3, <2>4, SplicedType
<1>3. QED
  BY <1>1, <1>2

\* ... and so are a checked one, a text and a first line.
LEMMA LineTypes ==
  ASSUME NEW l \in Seq(Bytes)
  PROVE  /\ PatchCheckbox(l) \in Seq(Bytes)
         /\ Text(l) \in Seq(Bytes) /\ FirstLine(l) \in Seq(Bytes)
<1>1. Len(l) \in Nat /\ 1 \in 1 .. Len(l) + 1
  OBVIOUS
<1>2. PatchCheckbox(l) \in Seq(Bytes)
  <2> DEFINE p == Until(l, 1, {"box"})
  <2>1. p \in 1 .. Len(l) + 1
    BY <1>1, UntilIsFirst
  <2> HIDE DEF p
  <2>2. p <= Len(l) => [l EXCEPT ![p] = "done"] \in Seq(Bytes)
    <3>1. SUFFICES ASSUME p <= Len(l) PROVE [l EXCEPT ![p] = "done"] \in Seq(Bytes)
      OBVIOUS
    <3>2. p \in 1 .. Len(l) /\ "done" \in Bytes
      BY <1>1, <2>1, <3>1, SpecialBytes
    <3>3. QED
      BY <3>2, ExceptSeq
  <2>3. PatchCheckbox(l) = IF p > Len(l) THEN l ELSE [l EXCEPT ![p] = "done"]
    BY DEF PatchCheckbox, p
  <2>4. QED
    BY <1>1, <2>1, <2>2, <2>3
<1>3. Text(l) \in Seq(Bytes)
  <2>1. Until(l, 1, {"\n"}) \in 1 .. Len(l) + 1
    BY <1>1, UntilIsFirst
  <2>2. Until(l, 1, {"\n"}) - 1 \in 0 .. Len(l)
    BY <1>1, <2>1
  <2>3. QED
    BY <1>1, <2>2, BytesOf DEF Text
<1>4. FirstLine(l) \in Seq(Bytes)
  <2>1. "\n" \in Bytes
    BY SpecialBytes
  <2>2. QED
    BY <1>3, <2>1 DEF FirstLine
<1>5. QED
  BY <1>2, <1>3, <1>4

-----------------------------------------------------------------------------
(* The lexer's loop *)

\* Types, and what the loop has passed: the spans found lie behind it.
LexInv ==
  /\ TypeOK
  /\ SpansAreLeftmost
  /\ \A k \in DOMAIN spans : spans[k].close < i

\* Every span found is one.
LEMMA SpanTypes ==
  ASSUME NEW found \in Seq(Spans), NEW k \in DOMAIN found
  PROVE  found[k] \in Spans /\ found[k].close \in Nat
<1>1. found[k] \in Spans
  BY ElementOfSeq
<1>2. QED
  BY <1>1 DEF Spans

\* Before its first byte the loop has passed nothing.
LEMMA FreshLex ==
  ASSUME input' \in Seq(Bytes), i' = 1, spans' = <<>>
  PROVE  /\ SpansAreLeftmost'
         /\ \A k \in DOMAIN spans' : spans'[k].close < i'
<1>1. DOMAIN spans' = {}
  OBVIOUS
<1>2. \A p \in DOMAIN input' : ~ (p < i')
  <2>1. DOMAIN input' = 1 .. Len(input') /\ Len(input') \in Nat
    OBVIOUS
  <2>2. QED
    BY <2>1
<1>3. QED
  BY <1>1, <1>2 DEF SpansAreLeftmost

\* The loop goes on behind a byte that begins no directive.
LEMMA SkipInv ==
  ASSUME LexInv, Skip PROVE SpansAreLeftmost' /\ \A k \in DOMAIN spans' : spans'[k].close < i'
<1>1. /\ input \in Seq(Bytes) /\ i \in 1 .. Len(input) /\ spans \in Seq(Spans)
      /\ i' = i + 1 /\ spans' = spans /\ input' = input /\ ~Terminated(input, i)
  BY DEF LexInv, TypeOK, Skip
<1>2. \A k \in DOMAIN spans : spans[k].close \in Nat /\ spans[k].close < i
  BY <1>1, SpanTypes DEF LexInv
<1>3. ASSUME NEW s \in {p \in DOMAIN input : p < i' /\ input[p] = "@"},
             NEW o \in s .. Len(input), NEW e \in s .. Len(input), Directive(input, s, o, e)
      PROVE  \E k \in DOMAIN spans :
               \/ spans[k] = [start |-> s, open |-> o, close |-> e]
               \/ spans[k].start < s /\ s <= spans[k].close
  <2>1. s # i
    BY <1>1, <1>3, LexIsGrammar
  <2>2. s < i
    BY <1>1, <1>3, <2>1
  <2>3. QED
    BY <1>3, <2>2 DEF LexInv, SpansAreLeftmost
<1>4. QED
  BY <1>1, <1>2, <1>3 DEF LexInv, SpansAreLeftmost

\* ... and behind a directive it has found.
LEMMA TakeInv ==
  ASSUME LexInv, Take
  PROVE  /\ spans' \in Seq(Spans) /\ i' \in Nat \ {0}
         /\ SpansAreLeftmost' /\ \A k \in DOMAIN spans' : spans'[k].close < i'
<1> DEFINE o == NameEnd(input, i)
           e == ValueEnd(input, i)
           new == [start |-> i, open |-> o, close |-> e]
<1>1. /\ input \in Seq(Bytes) /\ i \in 1 .. Len(input) /\ spans \in Seq(Spans)
      /\ Len(input) \in Nat
      /\ input' = input /\ Terminated(input, i)
      /\ spans' = Append(spans, new) /\ i' = e + 1
  BY DEF LexInv, TypeOK, Take, SpanAt
<1>2. Directive(input, i, o, e)
  BY <1>1, LexIsGrammar
<1>3. \A n, m \in i .. Len(input) : Directive(input, i, n, m) => n = o /\ m = e
  BY <1>1, LexIsGrammar
<1>4. o \in Nat /\ e \in Nat
  <2>1. i < Len(input) /\ i + 2 \in 1 .. Len(input) + 1
    BY <1>1 DEF Terminated, StartsName
  <2>2. o \in i + 2 .. Len(input) + 1
    BY <1>1, <2>1, UntilIsFirst DEF NameEnd
  <2>3. o + 1 \in 1 .. Len(input) + 1
    BY <1>1, <2>2 DEF Terminated
  <2>4. e \in o + 1 .. Len(input) + 1
    BY <1>1, <2>3, UntilIsFirst DEF ValueEnd
  <2>5. QED
    BY <1>1, <2>2, <2>4
<1> HIDE DEF o, e
<1>5. i < e /\ e <= Len(input)
  BY <1>1, <1>2, <1>4 DEF Directive
<1>6. new \in Spans
  BY <1>1, <1>4 DEF Spans
<1>7. /\ spans' \in Seq(Spans) /\ Len(spans) \in Nat
      /\ DOMAIN spans' = DOMAIN spans \union {Len(spans) + 1}
      /\ DOMAIN spans = 1 .. Len(spans)
      /\ spans'[Len(spans) + 1] = new
      /\ \A k \in DOMAIN spans : spans'[k] = spans[k]
  BY <1>1, <1>6
<1>8. \A k \in DOMAIN spans : /\ spans[k] \in Spans
                              /\ spans[k].close \in Nat /\ spans[k].close < i
  BY <1>1, SpanTypes DEF LexInv
<1>9. \A k \in DOMAIN spans' :
        Directive(input, spans'[k].start, spans'[k].open, spans'[k].close)
  BY <1>2, <1>7 DEF LexInv, SpansAreLeftmost
<1>10. \A k, n \in DOMAIN spans' : k < n => spans'[k].close < spans'[n].start
  <2>1. TAKE k, n \in DOMAIN spans'
  <2>2. HAVE k < n
  <2>3. k \in DOMAIN spans
    BY <1>7, <2>2
  <2>4. CASE n \in DOMAIN spans
    BY <1>7, <2>2, <2>3, <2>4 DEF LexInv, SpansAreLeftmost
  <2>5. CASE n = Len(spans) + 1
    BY <1>7, <1>8, <2>3, <2>5
  <2>6. QED
    BY <1>7, <2>4, <2>5
<1>11. ASSUME NEW s \in {p \in DOMAIN input : p < i' /\ input[p] = "@"},
              NEW n \in s .. Len(input), NEW m \in s .. Len(input), Directive(input, s, n, m)
       PROVE  \E k \in DOMAIN spans' :
                \/ spans'[k] = [start |-> s, open |-> n, close |-> m]
                \/ spans'[k].start < s /\ s <= spans'[k].close
  <2>1. s \in Nat /\ s <= e
    BY <1>1, <1>4, <1>11
  <2>2. CASE s < i
    <3>1. PICK k \in DOMAIN spans :
            \/ spans[k] = [start |-> s, open |-> n, close |-> m]
            \/ spans[k].start < s /\ s <= spans[k].close
      BY <1>11, <2>2 DEF LexInv, SpansAreLeftmost
    <3>2. QED
      BY <1>7, <3>1
  <2>3. CASE s = i
    <3>1. n = o /\ m = e
      BY <1>3, <1>11, <2>3
    <3>2. spans'[Len(spans) + 1] = [start |-> s, open |-> n, close |-> m]
      BY <1>7, <2>3, <3>1
    <3>3. QED
      BY <1>7, <3>2
  <2>4. CASE i < s
    <3>1. spans'[Len(spans) + 1].start < s /\ s <= spans'[Len(spans) + 1].close
      BY <1>7, <2>1, <2>4
    <3>2. QED
      BY <1>7, <3>1
  <2>5. QED
    BY <1>1, <2>1, <2>2, <2>3, <2>4
<1>12. \A k \in DOMAIN spans' : spans'[k].close < i'
  <2>1. TAKE k \in DOMAIN spans'
  <2>2. CASE k \in DOMAIN spans
    BY <1>1, <1>4, <1>5, <1>7, <1>8, <2>2
  <2>3. CASE k = Len(spans) + 1
    BY <1>1, <1>4, <1>7, <2>3
  <2>4. QED
    BY <1>7, <2>2, <2>3
<1>13. SpansAreLeftmost'
  BY <1>1, <1>9, <1>10, <1>11 DEF SpansAreLeftmost
<1>14. i' \in Nat \ {0}
  BY <1>1, <1>4
<1>15. QED
  BY <1>7, <1>12, <1>13, <1>14

\* A name is made of name bytes and begins with a lowercase one.
LEMMA NameIs ==
  ASSUME NEW name \in Names
  PROVE  /\ name \in Seq(Bytes) /\ 1 <= Len(name) /\ name[1] \in Lower
         /\ \A k \in 1 .. Len(name) : name[k] \in NameCont
<1>1. name \in Seq(NameCont) /\ name # <<>> /\ Head(name) \in Lower
  BY DEF Names
<1>2. /\ Len(name) \in Nat /\ DOMAIN name = 1 .. Len(name)
      /\ name \in [1 .. Len(name) -> NameCont]
  BY <1>1
<1>3. Len(name) # 0
  BY <1>1
<1>4. name[1] \in Lower
  BY <1>1
<1>5. \A k \in 1 .. Len(name) : name[k] \in Bytes
  BY <1>2, SpecialBytes
<1>6. name \in Seq(Bytes)
  BY <1>1, SpecialBytes
<1>7. QED
  BY <1>2, <1>3, <1>4, <1>6

\* A stamp writes a line again.
LEMMA StampType ==
  ASSUME LexInv, Stamp PROVE line' \in Seq(Bytes)
<1> DEFINE new == IF job = Check THEN PatchCheckbox(input)
                  ELSE PatchDirective(input, spans, job.name, job.value)
<1>1. /\ input \in Seq(Bytes) /\ job \in Requests /\ line' = FirstLine(new)
      /\ Within(input, spans)
  BY DEF LexInv, TypeOK, SpansAreLeftmost, Within, Stamp
<1>2. job # Check => job.name \in Seq(Bytes) /\ job.value \in Seq(Bytes)
  BY <1>1, GrammarAssumption, NameIs
<1>3. new \in Seq(Bytes)
  <2>1. CASE job = Check
    BY <1>1, <2>1, LineTypes
  <2>2. CASE job # Check
    BY <1>1, <1>2, <2>2, PatchedType
  <2>3. QED
    BY <2>1, <2>2
<1> HIDE DEF new
<1>4. QED
  BY <1>1, <1>3, LineTypes

\* Nothing has been lexed yet.
LEMMA LexInvInit ==
  ASSUME Init PROVE LexInv
<1>1. TypeOK
  <2>1. line \in Seq(Bytes) /\ stamps \in 0 .. MaxStamps
    BY GrammarAssumption DEF Init
  <2>2. input \in Seq(Bytes) /\ spans \in Seq(Spans)
    BY DEF Init
  <2>3. QED
    BY <2>1, <2>2 DEF Init, TypeOK
<1>2. spans = <<>> /\ input = <<>>
  BY DEF Init
<1>3. SpansAreLeftmost
  BY <1>2 DEF SpansAreLeftmost
<1>4. QED
  BY <1>1, <1>2, <1>3 DEF LexInv, Init

\* Each step keeps the types and what the loop has found.
LEMMA LexInvStep ==
  ASSUME LexInv, [Next]_vars PROVE LexInv'
<1>1. CASE Skip
  <2>1. TypeOK'
    BY <1>1 DEF Skip, LexInv, TypeOK
  <2>2. QED
    BY <1>1, <2>1, SkipInv DEF LexInv, Skip
<1>2. CASE Take
  <2>1. TypeOK'
    BY <1>2, TakeInv DEF Take, LexInv, TypeOK
  <2>2. QED
    BY <1>2, <2>1, TakeInv DEF LexInv, Take
<1>3. ASSUME NEW r \in Requests, StartStamp(r) PROVE LexInv'
  <2>1. input' \in Seq(Bytes) /\ i' = 1 /\ spans' = <<>>
    BY <1>3 DEF StartStamp, LexInv, TypeOK
  <2>2. stamps' \in 0 .. MaxStamps
    BY <1>3, GrammarAssumption DEF StartStamp, LexInv, TypeOK
  <2>3. spans' \in Seq(Spans)
    BY <2>1
  <2>4. TypeOK'
    BY <1>3, <2>1, <2>2, <2>3 DEF StartStamp, LexInv, TypeOK
  <2>5. QED
    BY <2>1, <2>4, FreshLex DEF LexInv
<1>4. CASE Stamp
  <2>1. line' \in Seq(Bytes)
    BY <1>4, StampType
  <2>2. stamped' \in [request : Requests, input : Seq(Bytes), spans : Seq(Spans)]
    BY <1>4 DEF Stamp, LexInv, TypeOK
  <2>3. TypeOK'
    BY <1>4, <2>1, <2>2 DEF Stamp, LexInv, TypeOK
  <2>4. QED
    BY <1>4, <2>3 DEF Stamp, LexInv, SpansAreLeftmost
<1>5. CASE StartRead
  <2>1. input' \in Seq(Bytes) /\ i' = 1 /\ spans' = <<>>
    BY <1>5, LineTypes DEF StartRead, LexInv, TypeOK
  <2>2. spans' \in Seq(Spans)
    BY <2>1
  <2>3. TypeOK'
    BY <1>5, <2>1, <2>2 DEF StartRead, LexInv, TypeOK
  <2>4. QED
    BY <2>1, <2>3, FreshLex DEF LexInv
<1>6. CASE EndRead
  <2>1. seen' \in [input : Seq(Bytes), spans : Seq(Spans)]
    BY <1>6 DEF EndRead, LexInv, TypeOK
  <2>2. TypeOK'
    BY <1>6, <2>1 DEF EndRead, LexInv, TypeOK
  <2>3. QED
    BY <1>6, <2>2 DEF EndRead, LexInv, SpansAreLeftmost
<1>7. CASE UNCHANGED vars
  BY <1>7 DEF vars, LexInv, TypeOK, SpansAreLeftmost
<1>8. QED
  BY <1>1, <1>2, <1>3, <1>4, <1>5, <1>6, <1>7 DEF Next

\* Types and what has been lexed hold in every behaviour.
LEMMA LexInvInductive == Spec => []LexInv
<1>1. Init => LexInv
  BY LexInvInit
<1>2. LexInv /\ [Next]_vars => LexInv'
  BY LexInvStep
<1>3. QED
  BY <1>1, <1>2, PTL DEF Spec

\* Every line is made of bytes, every span within the line it was found in.
THEOREM LineAndSpanTypes == Spec => []TypeOK
<1>1. LexInv => TypeOK
  BY DEF LexInv
<1>2. QED
  BY <1>1, LexInvInductive, PTL

\* However a line was written and stamped, Lex finds exactly the leftmost directives
\* that do not overlap, at every byte it has passed.
THEOREM LexFindsLeftmost == Spec => []SpansAreLeftmost
<1>1. LexInv => SpansAreLeftmost
  BY DEF LexInv
<1>2. QED
  BY <1>1, LexInvInductive, PTL

-----------------------------------------------------------------------------
(* The directives of a line, as a set of spans *)

\* The spans Lex returns, whatever their order.
SpanSet(found) == {found[k] : k \in DOMAIN found}

\* S are the leftmost directives of l that do not overlap.
Leftmost(l, S) ==
  /\ S \subseteq Spans
  /\ \A x \in S : Directive(l, x.start, x.open, x.close)
  /\ \A x, y \in S : x = y \/ x.close < y.start \/ y.close < x.start
  /\ \A s, o, e \in 1 .. Len(l) : Directive(l, s, o, e) =>
       \E x \in S : \/ x = [start |-> s, open |-> o, close |-> e]
                    \/ x.start < s /\ s <= x.close

\* A span is the record of its three positions.
LEMMA SpanParts ==
  ASSUME NEW x \in Spans
  PROVE  /\ x.start \in Nat /\ x.open \in Nat /\ x.close \in Nat
         /\ x = [start |-> x.start, open |-> x.open, close |-> x.close]
BY DEF Spans

\* The parts of a directive lie on its line, in order.
LEMMA DirectiveRange ==
  ASSUME NEW l \in Seq(Bytes), NEW s \in Nat, NEW o \in Nat, NEW e \in Nat, Directive(l, s, o, e)
  PROVE  /\ s \in 1 .. Len(l) /\ o \in s .. Len(l) /\ e \in s .. Len(l)
         /\ s < o /\ o < e
BY DEF Directive

\* Where a directive begins says where it ends.
LEMMA DirectiveIsUnique ==
  ASSUME NEW l \in Seq(Bytes), NEW s \in Nat, NEW o \in Nat, NEW e \in Nat,
         NEW n \in Nat, NEW f \in Nat, Directive(l, s, o, e), Directive(l, s, n, f)
  PROVE  n = o /\ f = e
<1>1. s \in 1 .. Len(l) /\ {o, e, n, f} \subseteq s .. Len(l)
  BY DirectiveRange
<1>2. QED
  BY <1>1, LexIsGrammar

\* A line has one such set: the leftmost span that is in one of two sets only would
\* overlap, in the other, a span that both have.
LEMMA OneLeftmost ==
  ASSUME NEW l \in Seq(Bytes), NEW S, NEW T, Leftmost(l, S), Leftmost(l, T)
  PROVE  S \subseteq T
<1> DEFINE D == {x \in S : x \notin T} \union {x \in T : x \notin S}
           P == {x.start : x \in D}
<1>1. SUFFICES ASSUME D # {} PROVE FALSE
  OBVIOUS
<1>2. D \subseteq Spans
  BY DEF Leftmost
<1>3. P \in SUBSET Nat /\ P # {}
  BY <1>1, <1>2, SpanParts
<1>4. PICK p \in P : \A q \in P : p <= q
  BY <1>3, FirstOf
<1>5. PICK x \in D : x.start = p
  BY <1>4
<1>6. ASSUME NEW A, NEW B, Leftmost(l, A), Leftmost(l, B), x \in A, x \notin B,
             \A y \in B : y \notin A => y \in D
      PROVE  FALSE
  <2>1. /\ x \in Spans /\ Directive(l, x.start, x.open, x.close)
        /\ x.start \in Nat /\ x.open \in Nat /\ x.close \in Nat
        /\ x = [start |-> x.start, open |-> x.open, close |-> x.close]
    BY <1>6, <1>2, SpanParts DEF Leftmost
  <2>2. x.start \in 1 .. Len(l) /\ x.open \in 1 .. Len(l) /\ x.close \in 1 .. Len(l)
        /\ x.start < x.close
    BY <2>1, DirectiveRange
  <2>3. PICK y \in B : y = x \/ (y.start < x.start /\ x.start <= y.close)
    BY <1>6, <2>1, <2>2 DEF Leftmost
  <2>4. y.start < x.start /\ x.start <= y.close /\ y \in Spans
    BY <1>6, <2>3 DEF Leftmost
  <2>5. y \in A
    <3>1. SUFFICES ASSUME y \notin A PROVE FALSE
      OBVIOUS
    <3>2. y \in D
      BY <1>6, <3>1
    <3>3. p <= y.start
      BY <1>4, <3>2
    <3>4. QED
      BY <1>5, <2>1, <2>4, <3>3, SpanParts
  <2>6. x = y \/ x.close < y.start \/ y.close < x.start
    BY <1>6, <2>5 DEF Leftmost
  <2>7. y.start \in Nat /\ y.close \in Nat
    BY <2>4, SpanParts
  <2>8. QED
    BY <2>1, <2>2, <2>4, <2>6, <2>7
<1>7. CASE x \in S /\ x \notin T
  BY <1>6, <1>7
<1>8. CASE x \in T /\ x \notin S
  BY <1>6, <1>8
<1>9. QED
  BY <1>5, <1>7, <1>8

\* What Lex returns for l: these spans, in order.
Lexed(l, found) ==
  /\ found \in Seq(Spans)
  /\ Leftmost(l, SpanSet(found))
  /\ \A k, n \in DOMAIN found : k < n => found[k].close < found[n].start

\* When the loop is through the line, it has found what the grammar says.
LEMMA LexEnds ==
  ASSUME LexInv, i > Len(input)
  PROVE  Lexed(input, spans)
<1>1. input \in Seq(Bytes) /\ spans \in Seq(Spans) /\ i \in Nat /\ Len(input) \in Nat
      /\ DOMAIN input = 1 .. Len(input) /\ DOMAIN spans = 1 .. Len(spans) /\ Len(spans) \in Nat
  BY DEF LexInv, TypeOK
<1>2. \A k \in DOMAIN spans : spans[k] \in Spans
  BY <1>1, SpanTypes
<1>3. SpanSet(spans) \subseteq Spans
  BY <1>2 DEF SpanSet
<1>4. \A x \in SpanSet(spans) : Directive(input, x.start, x.open, x.close)
  BY DEF LexInv, SpansAreLeftmost, SpanSet
<1>5. \A k, n \in DOMAIN spans : k < n => spans[k].close < spans[n].start
  BY DEF LexInv, SpansAreLeftmost
<1>6. ASSUME NEW x \in SpanSet(spans), NEW y \in SpanSet(spans)
      PROVE  x = y \/ x.close < y.start \/ y.close < x.start
  <2>1. PICK k \in DOMAIN spans, n \in DOMAIN spans : x = spans[k] /\ y = spans[n]
    BY DEF SpanSet
  <2>2. k = n \/ k < n \/ n < k
    BY <1>1
  <2>3. QED
    BY <1>5, <2>1, <2>2
<1>7. ASSUME NEW s \in 1 .. Len(input), NEW o \in 1 .. Len(input), NEW e \in 1 .. Len(input),
             Directive(input, s, o, e)
      PROVE  \E x \in SpanSet(spans) : \/ x = [start |-> s, open |-> o, close |-> e]
                                       \/ x.start < s /\ s <= x.close
  <2>1. o \in s .. Len(input) /\ e \in s .. Len(input) /\ input[s] = "@" /\ s < i
        /\ s \in DOMAIN input
    BY <1>1, <1>7 DEF Directive
  <2>2. PICK k \in DOMAIN spans :
          \/ spans[k] = [start |-> s, open |-> o, close |-> e]
          \/ spans[k].start < s /\ s <= spans[k].close
    BY <1>7, <2>1 DEF LexInv, SpansAreLeftmost
  <2>3. QED
    BY <2>2 DEF SpanSet
<1>8. QED
  BY <1>1, <1>3, <1>4, <1>5, <1>6, <1>7 DEF Lexed, Leftmost

\* x is the last of S with its name.
LastNamed(l, S, x) ==
  x \in S /\ \A y \in S : NameOf(l, y) = NameOf(l, x) => y.start <= x.start

\* The index has the value of the last directive of each name.
LEMMA IndexedIsLast ==
  ASSUME NEW l \in Seq(Bytes), NEW found, Lexed(l, found)
  PROVE  /\ DOMAIN Indexed(l, found) = {NameOf(l, x) : x \in SpanSet(found)}
         /\ Indexed(l, found) = [n \in DOMAIN Indexed(l, found) |-> Indexed(l, found)[n]]
         /\ \A n \in DOMAIN Indexed(l, found) :
              \E x \in SpanSet(found) : LastNamed(l, SpanSet(found), x) /\ NameOf(l, x) = n
         /\ \A x : LastNamed(l, SpanSet(found), x)
              => Indexed(l, found)[NameOf(l, x)] = ValueOf(l, x)
<1> DEFINE Named(n) == {k \in DOMAIN found : NameOf(l, found[k]) = n}
           last(n) == CHOOSE k \in Named(n) : \A m \in Named(n) : m <= k
           names == {NameOf(l, found[k]) : k \in DOMAIN found}
<1>1. Indexed(l, found) = [n \in names |-> ValueOf(l, found[last(n)])]
  BY DEF Indexed
<1>2. /\ DOMAIN found = 1 .. Len(found) /\ Len(found) \in Nat
      /\ \A k \in DOMAIN found : found[k] \in Spans /\ found[k].start \in Nat
                                 /\ found[k].close \in Nat /\ found[k].start < found[k].close
  <2>1. found \in Seq(Spans)
    BY DEF Lexed
  <2>2. ASSUME NEW k \in DOMAIN found
        PROVE  found[k] \in Spans /\ found[k].start \in Nat
               /\ found[k].close \in Nat /\ found[k].start < found[k].close
    <3>1. found[k] \in Spans /\ found[k] \in SpanSet(found)
      BY <2>1, SpanTypes DEF SpanSet
    <3>2. Directive(l, found[k].start, found[k].open, found[k].close)
      BY <3>1 DEF Lexed, Leftmost
    <3>3. QED
      BY <3>1, <3>2, SpanParts, DirectiveRange
  <2>3. QED
    BY <2>1, <2>2
<1>3. ASSUME NEW n \in names
      PROVE  last(n) \in Named(n) /\ \A m \in Named(n) : m <= last(n)
  <2> DEFINE R == {Len(found) - k : k \in Named(n)}
  <2>1. R \in SUBSET Nat /\ R # {}
    BY <1>2, <1>3
  <2>2. PICK j \in R : \A r \in R : j <= r
    BY <2>1, FirstOf
  <2>3. PICK k \in Named(n) : j = Len(found) - k
    BY <2>2
  <2>4. \A m \in Named(n) : m <= k
    <3>1. TAKE m \in Named(n)
    <3>2. Len(found) - k <= Len(found) - m
      BY <2>2, <2>3
    <3>3. QED
      BY <1>2, <2>3, <3>2
  <2>5. QED
    BY <2>3, <2>4
<1> HIDE DEF last
<1>4. ASSUME NEW n \in names
      PROVE  LastNamed(l, SpanSet(found), found[last(n)]) /\ NameOf(l, found[last(n)]) = n
  <2>1. last(n) \in DOMAIN found /\ NameOf(l, found[last(n)]) = n
    BY <1>3, <1>4
  <2>2. ASSUME NEW y \in SpanSet(found), NameOf(l, y) = n PROVE y.start <= found[last(n)].start
    <3>1. PICK k \in DOMAIN found : y = found[k]
      BY <2>2 DEF SpanSet
    <3>2. k <= last(n)
      BY <1>3, <1>4, <2>2, <3>1
    <3>3. CASE k = last(n)
      BY <1>2, <2>1, <3>1, <3>3
    <3>4. CASE k < last(n)
      <4>1. found[k].close < found[last(n)].start
        BY <2>1, <3>4 DEF Lexed
      <4>2. QED
        BY <1>2, <2>1, <3>1, <4>1
    <3>5. QED
      BY <1>2, <2>1, <3>2, <3>3, <3>4
  <2>3. QED
    BY <2>1, <2>2 DEF LastNamed, SpanSet
<1>5. ASSUME NEW x, LastNamed(l, SpanSet(found), x)
      PROVE  Indexed(l, found)[NameOf(l, x)] = ValueOf(l, x)
  <2>1. PICK j \in DOMAIN found : x = found[j]
    BY <1>5 DEF LastNamed, SpanSet
  <2>2. NameOf(l, x) \in names
    BY <2>1
  <2> DEFINE k == last(NameOf(l, x))
  <2>3. k \in DOMAIN found /\ NameOf(l, found[k]) = NameOf(l, x) /\ j <= k
    BY <1>3, <2>1, <2>2
  <2>4. found[k].start <= x.start
    BY <1>5, <2>3 DEF LastNamed, SpanSet
  <2>5. ~ (j < k)
    <3>1. SUFFICES ASSUME j < k PROVE FALSE
      OBVIOUS
    <3>2. found[j].close < found[k].start
      BY <2>1, <2>3, <3>1 DEF Lexed
    <3>3. QED
      BY <1>2, <2>1, <2>3, <2>4, <3>2
  <2>6. k = j
    BY <1>2, <2>1, <2>3, <2>5
  <2>7. QED
    BY <1>1, <2>1, <2>2, <2>6
<1>6. names = {NameOf(l, x) : x \in SpanSet(found)}
  BY DEF SpanSet
<1>7. DOMAIN Indexed(l, found) = names
  BY <1>1
<1>8. \A n \in names :
        \E x \in SpanSet(found) : LastNamed(l, SpanSet(found), x) /\ NameOf(l, x) = n
  BY <1>4 DEF LastNamed
<1>9. QED
  BY <1>1, <1>5, <1>6, <1>7, <1>8

-----------------------------------------------------------------------------
(* Parts of lines *)

\* What is between two positions.
Between(l, s, o) == SubSeq(l, s + 1, o - 1)

\* What is between s and o in l stands between a and b in m, `by` further on.
Agree(l, m, by, s, o, a, b) ==
  /\ l \in Seq(Bytes) /\ m \in Seq(Bytes) /\ by \in Int
  /\ s \in Nat /\ o \in Nat /\ a \in Nat /\ b \in Nat
  /\ a = s + by /\ b = o + by
  /\ 1 <= s /\ s < o /\ o <= Len(l) /\ 1 <= a /\ b <= Len(m)
  /\ \A k \in s + 1 .. o - 1 : m[k + by] = l[k]

\* ... so the two are the same.
LEMMA SamePart ==
  ASSUME NEW l, NEW m, NEW by, NEW s, NEW o, NEW a, NEW b, Agree(l, m, by, s, o, a, b)
  PROVE  Between(m, a, b) = Between(l, s, o)
<1> DEFINE p == s + 1
           q == o - 1
           c == a + 1
           d == b - 1
<1>0. l \in Seq(Bytes) /\ m \in Seq(Bytes) /\ by \in Int
  BY DEF Agree
<1>1. /\ p \in Int /\ q \in Int /\ c \in Int /\ d \in Int
      /\ c = p + by /\ d = q + by /\ d - c + 1 = q - p + 1 /\ q - p + 1 \in Nat
      /\ 1 <= p /\ q <= Len(l) /\ 1 <= c /\ d <= Len(m)
      /\ \A k \in p .. q : m[k + by] = l[k]
  BY DEF Agree
<1>2. Between(m, a, b) = SubSeq(m, c, d) /\ Between(l, s, o) = SubSeq(l, p, q)
  BY DEF Between
<1> HIDE DEF p, q, c, d
<1>3. /\ \A k \in p .. q : l[k] \in Bytes
      /\ \A k \in c .. d : m[k] \in Bytes
  BY <1>0, <1>1
<1>4. /\ SubSeq(l, p, q) \in Seq(Bytes) /\ Len(SubSeq(l, p, q)) = q - p + 1
      /\ \A k \in 1 .. q - p + 1 : SubSeq(l, p, q)[k] = l[p + k - 1]
  BY <1>1, <1>3, <1>0, SubSeqProperties
<1>5. /\ SubSeq(m, c, d) \in Seq(Bytes) /\ Len(SubSeq(m, c, d)) = q - p + 1
      /\ \A k \in 1 .. q - p + 1 : SubSeq(m, c, d)[k] = m[c + k - 1]
  <2>1. /\ SubSeq(m, c, d) \in Seq(Bytes) /\ Len(SubSeq(m, c, d)) = d - c + 1
        /\ \A k \in 1 .. d - c + 1 : SubSeq(m, c, d)[k] = m[c + k - 1]
    BY <1>1, <1>3, <1>0, SubSeqProperties
  <2>2. QED
    BY <1>1, <2>1
<1>6. ASSUME NEW k \in 1 .. q - p + 1 PROVE SubSeq(m, c, d)[k] = SubSeq(l, p, q)[k]
  <2>1. p + k - 1 \in p .. q /\ (p + k - 1) + by = c + k - 1
    BY <1>0, <1>1
  <2>2. m[c + k - 1] = l[p + k - 1]
    BY <1>1, <2>1
  <2>3. QED
    BY <1>4, <1>5, <2>2
<1>7. SubSeq(m, c, d) = SubSeq(l, p, q)
  BY <1>4, <1>5, <1>6, SeqEqual
<1>8. QED
  BY <1>2, <1>7

\* Two lines with the same bytes between two positions.
LEMMA SameBetween ==
  ASSUME NEW l \in Seq(Bytes), NEW m \in Seq(Bytes),
         NEW s \in Nat, NEW o \in Nat, 1 <= s, s < o, o <= Len(l), o <= Len(m),
         \A k \in s + 1 .. o - 1 : m[k] = l[k]
  PROVE  Between(m, s, o) = Between(l, s, o)
<1>1. s = s + 0 /\ o = o + 0 /\ 0 \in Int /\ \A k \in s + 1 .. o - 1 : m[k + 0] = l[k]
  OBVIOUS
<1>2. Agree(l, m, 0, s, o, s, o)
  BY <1>1 DEF Agree
<1>3. QED
  BY <1>2, SamePart

\* Lines with the same directives have the same leftmost ones.
LEMMA SameLeftmost ==
  ASSUME NEW l \in Seq(Bytes), NEW m \in Seq(Bytes), NEW S, Leftmost(l, S),
         \A s, o, e \in Nat : Directive(m, s, o, e) <=> Directive(l, s, o, e)
  PROVE  Leftmost(m, S)
<1>1. \A x \in S : Directive(m, x.start, x.open, x.close)
  BY SpanParts DEF Leftmost
<1>2. ASSUME NEW s \in 1 .. Len(m), NEW o \in 1 .. Len(m), NEW e \in 1 .. Len(m),
             Directive(m, s, o, e)
      PROVE  \E x \in S : \/ x = [start |-> s, open |-> o, close |-> e]
                          \/ x.start < s /\ s <= x.close
  <2>1. Directive(l, s, o, e) /\ s \in Nat /\ o \in Nat /\ e \in Nat
    BY <1>2
  <2>2. s \in 1 .. Len(l) /\ o \in 1 .. Len(l) /\ e \in 1 .. Len(l)
    BY <2>1, DirectiveRange
  <2>3. QED
    BY <2>1, <2>2 DEF Leftmost
<1>3. QED
  BY <1>1, <1>2 DEF Leftmost

\* The special bytes differ from each other and are in no name.
LEMMA SpecialAreApart ==
  /\ Lower \subseteq NameCont
  /\ {Space, "\t", "@", "(", ")", "\r", "\n", "box", "done"} \cap NameCont = {}
BY GrammarAssumption DEF Blanks

\* The text of a line is what is in front of its newline.
LEMMA TextIs ==
  ASSUME NEW l \in Seq(Bytes)
  PROVE  /\ Text(l) \in Seq(Bytes) /\ Len(Text(l)) <= Len(l)
         /\ \A k \in 1 .. Len(Text(l)) : Text(l)[k] = l[k] /\ l[k] # "\n"
         /\ Len(Text(l)) < Len(l) => l[Len(Text(l)) + 1] = "\n"
<1> DEFINE u == Until(l, 1, {"\n"})
<1>1. Len(l) \in Nat /\ 1 \in 1 .. Len(l) + 1
  OBVIOUS
<1>2. /\ u \in 1 .. Len(l) + 1
      /\ u <= Len(l) => l[u] = "\n"
      /\ \A k \in 1 .. u - 1 : l[k] # "\n"
  BY <1>1, UntilIsFirst
<1> HIDE DEF u
<1>3. u - 1 \in Nat /\ u - 1 \in Int /\ 1 \in Int /\ u - 1 <= Len(l)
  BY <1>1, <1>2
<1>4. \A k \in 1 .. u - 1 : l[k] \in Bytes
  BY <1>1, <1>3
<1>5. /\ SubSeq(l, 1, u - 1) \in Seq(Bytes)
      /\ Len(SubSeq(l, 1, u - 1)) = u - 1
      /\ \A k \in 1 .. u - 1 : SubSeq(l, 1, u - 1)[k] = l[1 + k - 1]
  <2>1. /\ SubSeq(l, 1, u - 1) \in Seq(Bytes)
        /\ Len(SubSeq(l, 1, u - 1)) = IF 1 <= u - 1 THEN (u - 1) - 1 + 1 ELSE 0
        /\ \A k \in 1 .. (u - 1) - 1 + 1 : SubSeq(l, 1, u - 1)[k] = l[1 + k - 1]
    BY <1>3, <1>4, SubSeqProperties
  <2>2. (u - 1) - 1 + 1 = u - 1 /\ (IF 1 <= u - 1 THEN (u - 1) - 1 + 1 ELSE 0) = u - 1
    BY <1>3
  <2>3. QED
    BY <2>1, <2>2
<1>6. \A k \in 1 .. u - 1 : 1 + k - 1 = k
  BY <1>3
<1>7. Text(l) = SubSeq(l, 1, u - 1)
  BY DEF Text, u
<1>8. QED
  BY <1>1, <1>2, <1>3, <1>5, <1>6, <1>7

\* Taking the newline away changes no directive.
LEMMA TextDirectives ==
  ASSUME NEW l \in Seq(Bytes), IsLine(l), NEW s \in Nat, NEW o \in Nat, NEW e \in Nat
  PROVE  Directive(Text(l), s, o, e) <=> Directive(l, s, o, e)
<1> DEFINE t == Text(l)
<1>1. /\ t \in Seq(Bytes) /\ Len(t) <= Len(l) /\ Len(t) \in Nat /\ Len(l) \in Nat
      /\ \A k \in 1 .. Len(t) : t[k] = l[k]
      /\ Len(t) < Len(l) => l[Len(t) + 1] = "\n"
  BY TextIs
<1> HIDE DEF t
<1>2. Len(t) < Len(l) => Len(t) + 1 = Len(l)
  <2>1. Len(t) < Len(l) => Len(t) + 1 \in DOMAIN l
    BY <1>1
  <2>2. QED
    BY <1>1, <2>1 DEF IsLine
<1>3. ASSUME Directive(t, s, o, e) PROVE Directive(l, s, o, e)
  <2>1. /\ 1 <= s /\ s + 1 < o /\ o < e /\ e <= Len(t)
        /\ t[s] = "@" /\ t[s + 1] \in Lower /\ t[o] = "(" /\ t[e] = ")"
        /\ \A k \in s + 1 .. o - 1 : t[k] \in NameCont
        /\ \A k \in o + 1 .. e - 1 : t[k] # ")"
    BY <1>3 DEF Directive
  <2>2. \A k \in s .. e : t[k] = l[k]
    BY <1>1, <2>1
  <2>3. /\ l[s] = "@" /\ l[s + 1] \in Lower /\ l[o] = "(" /\ l[e] = ")"
    BY <2>1, <2>2
  <2>4. \A k \in s + 1 .. o - 1 : l[k] \in NameCont
    BY <2>1, <2>2
  <2>5. \A k \in o + 1 .. e - 1 : l[k] # ")"
    BY <2>1, <2>2
  <2>6. QED
    BY <1>1, <2>1, <2>3, <2>4, <2>5 DEF Directive
<1>4. ASSUME Directive(l, s, o, e) PROVE Directive(t, s, o, e)
  <2>1. /\ 1 <= s /\ s + 1 < o /\ o < e /\ e <= Len(l)
        /\ l[s] = "@" /\ l[s + 1] \in Lower /\ l[o] = "(" /\ l[e] = ")"
        /\ \A k \in s + 1 .. o - 1 : l[k] \in NameCont
        /\ \A k \in o + 1 .. e - 1 : l[k] # ")"
    BY <1>4 DEF Directive
  <2>2. e <= Len(t)
    BY <1>1, <1>2, <2>1
  <2>3. \A k \in s .. e : t[k] = l[k]
    BY <1>1, <2>1, <2>2
  <2>4. /\ t[s] = "@" /\ t[s + 1] \in Lower /\ t[o] = "(" /\ t[e] = ")"
    BY <2>1, <2>3
  <2>5. \A k \in s + 1 .. o - 1 : t[k] \in NameCont
    BY <2>1, <2>3
  <2>6. \A k \in o + 1 .. e - 1 : t[k] # ")"
    BY <2>1, <2>3
  <2>7. QED
    BY <1>1, <2>1, <2>2, <2>4, <2>5, <2>6 DEF Directive
<1>5. QED
  BY <1>3, <1>4 DEF t

\* ... nor what is in it.
LEMMA TextSpans ==
  ASSUME NEW l \in Seq(Bytes), IsLine(l), NEW S, Leftmost(l, S)
  PROVE  /\ Leftmost(Text(l), S)
         /\ \A x \in S : NameOf(Text(l), x) = NameOf(l, x) /\ ValueOf(Text(l), x) = ValueOf(l, x)
<1>1. Text(l) \in Seq(Bytes) /\ Len(Text(l)) \in Nat
      /\ \A k \in 1 .. Len(Text(l)) : Text(l)[k] = l[k]
  BY TextIs
<1>2. Leftmost(Text(l), S)
  BY <1>1, SameLeftmost, TextDirectives
<1>3. ASSUME NEW x \in S
      PROVE  NameOf(Text(l), x) = NameOf(l, x) /\ ValueOf(Text(l), x) = ValueOf(l, x)
  <2>1. /\ x \in Spans /\ Directive(l, x.start, x.open, x.close)
        /\ Directive(Text(l), x.start, x.open, x.close)
    BY <1>2 DEF Leftmost
  <2> DEFINE t == Text(l)
             a == x.start
             o == x.open
             e == x.close
  <2>3. /\ NameOf(t, x) = Between(t, a, o) /\ ValueOf(t, x) = Between(t, o, e)
        /\ NameOf(l, x) = Between(l, a, o) /\ ValueOf(l, x) = Between(l, o, e)
    BY DEF NameOf, ValueOf, Between
  <2>4. /\ a \in Nat /\ o \in Nat /\ e \in Nat /\ 1 <= a /\ a < o /\ 1 <= o /\ o < e
        /\ o <= Len(l) /\ o <= Len(t) /\ e <= Len(l) /\ e <= Len(t)
    BY <2>1, SpanParts DEF Directive
  <2> HIDE DEF t, a, o, e
  <2>5. t \in Seq(Bytes) /\ \A k \in 1 .. Len(t) : t[k] = l[k]
    BY <1>1 DEF t
  <2>6. /\ \A k \in a + 1 .. o - 1 : t[k] = l[k]
        /\ \A k \in o + 1 .. e - 1 : t[k] = l[k]
    BY <2>4, <2>5
  <2>7. Between(t, a, o) = Between(l, a, o)
    BY <2>4, <2>5, <2>6, SameBetween
  <2>8. Between(t, o, e) = Between(l, o, e)
    BY <2>4, <2>5, <2>6, SameBetween
  <2>9. QED
    BY <2>3, <2>7, <2>8 DEF t
<1>4. QED
  BY <1>2, <1>3

\* What is written back is one line, and its text is that of the patched line.
LEMMA FirstLineIs ==
  ASSUME NEW l \in Seq(Bytes)
  PROVE  IsLine(FirstLine(l)) /\ Text(FirstLine(l)) = Text(l)
<1> DEFINE t == Text(l)
<1>1. /\ t \in Seq(Bytes) /\ Len(t) <= Len(l) /\ Len(t) \in Nat /\ Len(l) \in Nat
      /\ DOMAIN l = 1 .. Len(l)
      /\ \A k \in 1 .. Len(t) : t[k] = l[k] /\ l[k] # "\n"
      /\ Len(t) < Len(l) => l[Len(t) + 1] = "\n"
  BY TextIs
<1> HIDE DEF t
<1>2. CASE ~ \E k \in DOMAIN l : l[k] = "\n"
  <2>1. FirstLine(l) = l
    BY <1>2 DEF FirstLine
  <2>2. QED
    BY <1>2, <2>1 DEF IsLine
<1>3. CASE \E k \in DOMAIN l : l[k] = "\n"
  <2> DEFINE f == Append(t, "\n")
  <2>1. "\n" \in Bytes
    BY SpecialBytes
  <2>2. /\ f \in Seq(Bytes) /\ Len(f) = Len(t) + 1 /\ DOMAIN f = 1 .. Len(t) + 1
        /\ \A k \in 1 .. Len(t) : f[k] = t[k]
        /\ f[Len(t) + 1] = "\n"
    BY <1>1, <2>1, AppendProperties
  <2>3. FirstLine(l) = f
    BY <1>3 DEF FirstLine, t
  <2> HIDE DEF f
  <2>4. IsLine(f)
    BY <1>1, <2>2 DEF IsLine
  <2>5. Text(f) = t
    <3>1. /\ Text(f) \in Seq(Bytes) /\ Len(Text(f)) = Len(t)
          /\ \A k \in 1 .. Len(t) : Text(f)[k] = f[k]
      <4>1. /\ Text(f) \in Seq(Bytes) /\ Len(Text(f)) <= Len(f) /\ Len(Text(f)) \in Nat
            /\ \A k \in 1 .. Len(Text(f)) : Text(f)[k] = f[k] /\ f[k] # "\n"
            /\ Len(Text(f)) < Len(f) => f[Len(Text(f)) + 1] = "\n"
        BY <2>2, TextIs
      <4>2. \A k \in 1 .. Len(t) : f[k] # "\n"
        BY <1>1, <2>2
      <4>3. Len(Text(f)) = Len(t)
        <5>1. ~ (Len(Text(f)) > Len(t))
          <6>1. Len(Text(f)) > Len(t) => Len(t) + 1 \in 1 .. Len(Text(f))
            BY <1>1, <4>1
          <6>2. QED
            BY <2>2, <4>1, <6>1
        <5>2. ~ (Len(Text(f)) < Len(t))
          <6>1. Len(Text(f)) < Len(t) => Len(Text(f)) + 1 \in 1 .. Len(t) /\ Len(Text(f)) < Len(f)
            BY <1>1, <2>2, <4>1
          <6>2. QED
            BY <4>1, <4>2, <6>1
        <5>3. QED
          BY <1>1, <4>1, <5>1, <5>2
      <4>4. QED
        BY <4>1, <4>3
    <3>2. QED
      BY <1>1, <2>2, <3>1, SeqEqual
  <2>6. QED
    BY <2>3, <2>4, <2>5 DEF t
<1>4. QED
  BY <1>2, <1>3

-----------------------------------------------------------------------------
(* Checking a box *)

\* At most one byte differs, a box that is done now.
LEMMA CheckedIs ==
  ASSUME NEW l \in Seq(Bytes)
  PROVE  /\ PatchCheckbox(l) \in Seq(Bytes) /\ Len(PatchCheckbox(l)) = Len(l)
         /\ \A k \in 1 .. Len(l) : \/ PatchCheckbox(l)[k] = l[k]
                                   \/ l[k] = "box" /\ PatchCheckbox(l)[k] = "done"
<1> DEFINE p == Until(l, 1, {"box"})
<1>1. Len(l) \in Nat /\ 1 \in 1 .. Len(l) + 1
  OBVIOUS
<1>2. p \in 1 .. Len(l) + 1 /\ (p <= Len(l) => l[p] = "box")
  BY <1>1, UntilIsFirst
<1>3. PatchCheckbox(l) = IF p > Len(l) THEN l ELSE [l EXCEPT ![p] = "done"]
  BY DEF PatchCheckbox
<1> HIDE DEF p
<1>4. CASE p > Len(l)
  BY <1>3, <1>4
<1>5. CASE ~ (p > Len(l))
  <2>1. p \in 1 .. Len(l) /\ "done" \in Bytes /\ l[p] = "box"
    BY <1>1, <1>2, <1>5, SpecialBytes
  <2>2. PatchCheckbox(l) = [l EXCEPT ![p] = "done"]
    BY <1>3, <1>5
  <2>3. /\ PatchCheckbox(l) \in Seq(Bytes) /\ Len(PatchCheckbox(l)) = Len(l)
        /\ \A k \in 1 .. Len(l) : PatchCheckbox(l)[k] = IF k = p THEN "done" ELSE l[k]
    BY <2>1, <2>2, ExceptSeq
  <2>4. QED
    BY <2>1, <2>3
<1>6. QED
  BY <1>4, <1>5

\* No byte of a directive's frame is a box.
LEMMA CheckDirectives ==
  ASSUME NEW l \in Seq(Bytes), NEW s \in Nat, NEW o \in Nat, NEW e \in Nat
  PROVE  Directive(PatchCheckbox(l), s, o, e) <=> Directive(l, s, o, e)
<1> DEFINE m == PatchCheckbox(l)
<1>1. /\ m \in Seq(Bytes) /\ Len(m) = Len(l) /\ Len(l) \in Nat
      /\ \A k \in 1 .. Len(l) : m[k] = l[k] \/ (l[k] = "box" /\ m[k] = "done")
  BY CheckedIs
<1> HIDE DEF m
<1>2. /\ \A k \in 1 .. Len(l) : m[k] \in NameCont <=> l[k] \in NameCont
      /\ \A k \in 1 .. Len(l) : m[k] \in Lower <=> l[k] \in Lower
      /\ \A k \in 1 .. Len(l) : m[k] = "@" <=> l[k] = "@"
      /\ \A k \in 1 .. Len(l) : m[k] = "(" <=> l[k] = "("
      /\ \A k \in 1 .. Len(l) : m[k] = ")" <=> l[k] = ")"
  BY <1>1, SpecialAreApart
<1>3. ASSUME 1 <= s, s + 1 < o, o < e, e <= Len(l)
      PROVE  /\ {s, s + 1, o, e} \subseteq 1 .. Len(l)
             /\ s + 1 .. o - 1 \subseteq 1 .. Len(l) /\ o + 1 .. e - 1 \subseteq 1 .. Len(l)
  BY <1>1, <1>3
<1>4. Directive(m, s, o, e) => Directive(l, s, o, e)
  BY <1>1, <1>2, <1>3 DEF Directive
<1>5. Directive(l, s, o, e) => Directive(m, s, o, e)
  BY <1>1, <1>2, <1>3 DEF Directive
<1>6. QED
  BY <1>4, <1>5 DEF m

\* ... so the names stay, and the values that hold no box.
LEMMA CheckSpans ==
  ASSUME NEW l \in Seq(Bytes), NEW S, Leftmost(l, S)
  PROVE  /\ Leftmost(PatchCheckbox(l), S)
         /\ \A x \in S : /\ NameOf(PatchCheckbox(l), x) = NameOf(l, x)
                         /\ \/ ValueOf(PatchCheckbox(l), x) = ValueOf(l, x)
                            \/ \E k \in x.open + 1 .. x.close - 1 : l[k] = "box"
<1> DEFINE m == PatchCheckbox(l)
<1>1. /\ m \in Seq(Bytes) /\ Len(m) = Len(l) /\ Len(l) \in Nat
      /\ \A k \in 1 .. Len(l) : m[k] = l[k] \/ (l[k] = "box" /\ m[k] = "done")
  BY CheckedIs
<1>2. Leftmost(m, S)
  BY <1>1, SameLeftmost, CheckDirectives
<1> HIDE DEF m
<1>3. ASSUME NEW x \in S
      PROVE  /\ NameOf(m, x) = NameOf(l, x)
             /\ \/ ValueOf(m, x) = ValueOf(l, x)
                \/ \E k \in x.open + 1 .. x.close - 1 : l[k] = "box"
  <2>1. /\ x \in Spans /\ Directive(l, x.start, x.open, x.close)
        /\ Directive(m, x.start, x.open, x.close)
    BY <1>2 DEF Leftmost
  <2> DEFINE a == x.start
             o == x.open
             e == x.close
  <2>2. /\ NameOf(m, x) = Between(m, a, o) /\ ValueOf(m, x) = Between(m, o, e)
        /\ NameOf(l, x) = Between(l, a, o) /\ ValueOf(l, x) = Between(l, o, e)
    BY DEF NameOf, ValueOf, Between
  <2>3. /\ a \in Nat /\ o \in Nat /\ e \in Nat /\ 1 <= a /\ a < o /\ 1 <= o /\ o < e
        /\ o <= Len(l) /\ o <= Len(m) /\ e <= Len(l) /\ e <= Len(m)
        /\ \A k \in a + 1 .. o - 1 : l[k] \in NameCont
    BY <1>1, <2>1, SpanParts DEF Directive
  <2> HIDE DEF a, o, e
  <2>4. \A k \in a + 1 .. o - 1 : m[k] = l[k]
    <3>1. TAKE k \in a + 1 .. o - 1
    <3>2. k \in 1 .. Len(l)
      BY <1>1, <2>3
    <3>3. l[k] # "box"
      BY <2>3, SpecialAreApart
    <3>4. QED
      BY <1>1, <3>2, <3>3
  <2>5. Between(m, a, o) = Between(l, a, o)
    BY <1>1, <2>3, <2>4, SameBetween
  <2>6. CASE \A k \in o + 1 .. e - 1 : l[k] # "box"
    <3>1. \A k \in o + 1 .. e - 1 : m[k] = l[k]
      <4>1. TAKE k \in o + 1 .. e - 1
      <4>2. k \in 1 .. Len(l)
        BY <1>1, <2>3
      <4>3. QED
        BY <1>1, <2>6, <4>2
    <3>2. Between(m, o, e) = Between(l, o, e)
      BY <1>1, <2>3, <3>1, SameBetween
    <3>3. QED
      BY <2>2, <2>5, <3>2
  <2>7. CASE \E k \in o + 1 .. e - 1 : l[k] = "box"
    BY <2>2, <2>5, <2>7 DEF o, e
  <2>8. QED
    BY <2>6, <2>7
<1>4. QED
  BY <1>2, <1>3 DEF m

-----------------------------------------------------------------------------
(* Splicing *)

\* Where the bytes of two joined lines stand.
LEMMA TwoParts ==
  ASSUME NEW g \in Seq(Bytes), NEW t \in Seq(Bytes)
  PROVE  /\ g \o t \in Seq(Bytes) /\ Len(g \o t) = Len(g) + Len(t)
         /\ \A k \in 1 .. Len(g) + Len(t) :
              (g \o t)[k] = IF k <= Len(g) THEN g[k] ELSE t[k - Len(g)]
BY ConcatProperties

\* In m, the line l after a patch, the bytes in front of what is replaced stay, and those
\* behind it move by the difference in length.
Replaced(l, m, from, to, b, by) ==
  /\ m \in Seq(Bytes) /\ Len(m) = Len(l) + by /\ by = Len(b) - (to - from)
  /\ \A k \in 1 .. from - 1 : m[k] = l[k]
  /\ \A k \in 1 .. Len(b) : m[(from - 1) + k] = b[k]
  /\ \A k \in to .. Len(l) : m[k + by] = l[k]

\* Patch.Apply leaves such a line.
LEMMA SplicedIs ==
  ASSUME NEW l \in Seq(Bytes), NEW b \in Seq(Bytes),
         NEW from \in 1 .. Len(l) + 1, NEW to \in from .. Len(l) + 1
  PROVE  Replaced(l, Spliced(l, from, to, b), from, to, b, Len(b) - (to - from))
<1> DEFINE h == SubSeq(l, 1, from - 1)
           t == SubSeq(l, to, Len(l))
           m == (h \o b) \o t
<1>1. /\ Len(l) \in Nat /\ Len(b) \in Nat /\ from \in Nat /\ to \in Nat
      /\ 1 <= from /\ from <= to /\ to <= Len(l) + 1
  OBVIOUS
<1>2. /\ h \in Seq(Bytes) /\ Len(h) = from - 1 /\ \A k \in 1 .. from - 1 : h[k] = l[k]
  <2>1. /\ 1 \in Int /\ from - 1 \in Int
        /\ \A k \in 1 .. from - 1 : l[k] \in Bytes
    BY <1>1
  <2>2. /\ h \in Seq(Bytes)
        /\ Len(h) = IF 1 <= from - 1 THEN (from - 1) - 1 + 1 ELSE 0
        /\ \A k \in 1 .. (from - 1) - 1 + 1 : h[k] = l[1 + k - 1]
    BY <2>1, SubSeqProperties
  <2> HIDE DEF h
  <2>3. Len(h) = from - 1
    BY <1>1, <2>2
  <2>4. ASSUME NEW k \in 1 .. from - 1 PROVE h[k] = l[k]
    <3>1. k \in 1 .. (from - 1) - 1 + 1 /\ 1 + k - 1 = k
      BY <1>1, <2>4
    <3>2. QED
      BY <2>2, <3>1
  <2>5. QED
    BY <2>2, <2>3, <2>4
<1>3. /\ t \in Seq(Bytes) /\ Len(t) = Len(l) - to + 1
      /\ \A k \in to .. Len(l) : t[k - to + 1] = l[k]
  <2>1. /\ to \in Int /\ Len(l) \in Int
        /\ \A k \in to .. Len(l) : l[k] \in Bytes
    BY <1>1
  <2>2. /\ t \in Seq(Bytes)
        /\ Len(t) = IF to <= Len(l) THEN Len(l) - to + 1 ELSE 0
        /\ \A k \in 1 .. Len(l) - to + 1 : t[k] = l[to + k - 1]
    BY <2>1, SubSeqProperties
  <2> HIDE DEF t
  <2>3. Len(t) = Len(l) - to + 1
    BY <1>1, <2>2
  <2>4. ASSUME NEW k \in to .. Len(l) PROVE t[k - to + 1] = l[k]
    <3>1. k - to + 1 \in 1 .. Len(l) - to + 1 /\ to + (k - to + 1) - 1 = k
      BY <1>1, <2>4
    <3>2. QED
      BY <2>2, <3>1
  <2>5. QED
    BY <2>2, <2>3, <2>4
<1> HIDE DEF h, t
<1>4. /\ h \o b \in Seq(Bytes) /\ Len(h \o b) = (from - 1) + Len(b)
      /\ \A k \in 1 .. (from - 1) + Len(b) :
           (h \o b)[k] = IF k <= from - 1 THEN h[k] ELSE b[k - (from - 1)]
  <2>1. /\ h \o b \in Seq(Bytes) /\ Len(h \o b) = Len(h) + Len(b)
        /\ \A k \in 1 .. Len(h) + Len(b) :
             (h \o b)[k] = IF k <= Len(h) THEN h[k] ELSE b[k - Len(h)]
    BY <1>2, TwoParts
  <2>2. QED
    BY <1>2, <2>1
<1> DEFINE g == h \o b
<1> HIDE DEF g
<1>5. /\ g \o t \in Seq(Bytes)
      /\ Len(g \o t) = ((from - 1) + Len(b)) + (Len(l) - to + 1)
      /\ \A k \in 1 .. ((from - 1) + Len(b)) + (Len(l) - to + 1) :
           (g \o t)[k] = IF k <= (from - 1) + Len(b) THEN g[k] ELSE t[k - ((from - 1) + Len(b))]
  <2>1. g \in Seq(Bytes) /\ Len(g) = (from - 1) + Len(b)
    BY <1>4 DEF g
  <2>2. t \in Seq(Bytes) /\ Len(t) = Len(l) - to + 1
    BY <1>3
  <2>3. /\ g \o t \in Seq(Bytes) /\ Len(g \o t) = Len(g) + Len(t)
        /\ \A k \in 1 .. Len(g) + Len(t) :
             (g \o t)[k] = IF k <= Len(g) THEN g[k] ELSE t[k - Len(g)]
    BY <2>1, <2>2, TwoParts
  <2>4. QED
    BY <2>1, <2>2, <2>3
<1>6. Spliced(l, from, to, b) = g \o t
  BY DEF Spliced, g, h, t
<1>7. Len(g \o t) = Len(l) + (Len(b) - (to - from))
  BY <1>1, <1>5
<1>8. ASSUME NEW k \in 1 .. from - 1 PROVE (g \o t)[k] = l[k]
  <2>1. /\ k \in 1 .. ((from - 1) + Len(b)) + (Len(l) - to + 1)
        /\ k <= (from - 1) + Len(b) /\ k <= from - 1
        /\ k \in 1 .. (from - 1) + Len(b)
    BY <1>1, <1>8
  <2>2. (g \o t)[k] = g[k] /\ g[k] = h[k]
    BY <1>4, <1>5, <2>1 DEF g
  <2>3. QED
    BY <1>2, <1>8, <2>2
<1>9. ASSUME NEW k \in 1 .. Len(b) PROVE (g \o t)[(from - 1) + k] = b[k]
  <2>1. /\ (from - 1) + k \in 1 .. ((from - 1) + Len(b)) + (Len(l) - to + 1)
        /\ (from - 1) + k <= (from - 1) + Len(b) /\ ~ ((from - 1) + k <= from - 1)
        /\ (from - 1) + k \in 1 .. (from - 1) + Len(b)
        /\ ((from - 1) + k) - (from - 1) = k
    BY <1>1, <1>9
  <2>2. (g \o t)[(from - 1) + k] = g[(from - 1) + k]
    BY <1>5, <2>1
  <2>3. g[(from - 1) + k] = b[((from - 1) + k) - (from - 1)]
    BY <1>4, <2>1 DEF g
  <2>4. QED
    BY <2>1, <2>2, <2>3
<1>10. ASSUME NEW k \in to .. Len(l)
       PROVE  (g \o t)[k + (Len(b) - (to - from))] = l[k]
  <2> DEFINE q == k + (Len(b) - (to - from))
  <2>1. /\ q \in 1 .. ((from - 1) + Len(b)) + (Len(l) - to + 1)
        /\ ~ (q <= (from - 1) + Len(b))
        /\ q - ((from - 1) + Len(b)) = k - to + 1
    BY <1>1, <1>10
  <2> HIDE DEF q
  <2>2. (g \o t)[q] = t[q - ((from - 1) + Len(b))]
    BY <1>5, <2>1
  <2>3. (g \o t)[q] = l[k]
    BY <1>3, <1>10, <2>1, <2>2
  <2>4. QED
    BY <2>3 DEF q
<1> DEFINE by == Len(b) - (to - from)
<1>11. /\ g \o t \in Seq(Bytes) /\ Len(g \o t) = Len(l) + by /\ by = Len(b) - (to - from)
       /\ \A k \in 1 .. from - 1 : (g \o t)[k] = l[k]
       /\ \A k \in 1 .. Len(b) : (g \o t)[(from - 1) + k] = b[k]
       /\ \A k \in to .. Len(l) : (g \o t)[k + by] = l[k]
  BY <1>5, <1>7, <1>8, <1>9, <1>10
<1> HIDE DEF by
<1>12. Replaced(l, g \o t, from, to, b, by)
  BY <1>11 DEF Replaced
<1>13. QED
  BY <1>6, <1>12 DEF by

\* The bytes from s to e, with o among them, stand in m from a to c, with b among them.
Moved(l, m, by, s, o, e, a, b, c) ==
  /\ l \in Seq(Bytes) /\ m \in Seq(Bytes) /\ by \in Int
  /\ s \in Nat /\ o \in Nat /\ e \in Nat /\ a \in Nat /\ b \in Nat /\ c \in Nat
  /\ a = s + by /\ b = o + by /\ c = e + by /\ 1 <= a /\ c <= Len(m)
  /\ \A k \in s .. e : m[k + by] = l[k]

\* A directive is one wherever its bytes stand.
LEMMA MovedDirective ==
  ASSUME NEW l, NEW m, NEW by, NEW s, NEW o, NEW e, NEW a, NEW b, NEW c,
         Directive(l, s, o, e), Moved(l, m, by, s, o, e, a, b, c)
  PROVE  Directive(m, a, b, c)
<1>0. /\ l \in Seq(Bytes) /\ m \in Seq(Bytes) /\ by \in Int
      /\ s \in Nat /\ o \in Nat /\ e \in Nat /\ a \in Nat /\ b \in Nat /\ c \in Nat
      /\ a = s + by /\ b = o + by /\ c = e + by /\ 1 <= a /\ c <= Len(m)
      /\ \A k \in s .. e : m[k + by] = l[k]
  BY DEF Moved
<1>1. /\ 1 <= s /\ s + 1 < o /\ o < e /\ e <= Len(l)
      /\ l[s] = "@" /\ l[s + 1] \in Lower /\ l[o] = "(" /\ l[e] = ")"
      /\ \A k \in s + 1 .. o - 1 : l[k] \in NameCont
      /\ \A k \in o + 1 .. e - 1 : l[k] # ")"
  BY <1>0 DEF Directive
<1>2. s \in s .. e /\ s + 1 \in s .. e /\ o \in s .. e /\ e \in s .. e
  BY <1>0, <1>1
<1>3. m[s + by] = "@" /\ m[(s + 1) + by] \in Lower /\ m[o + by] = "(" /\ m[e + by] = ")"
  BY <1>0, <1>1, <1>2
<1>4. m[a] = "@" /\ m[a + 1] \in Lower /\ m[b] = "(" /\ m[c] = ")"
  <2>1. (s + 1) + by = a + 1
    BY <1>0
  <2>2. QED
    BY <1>0, <1>3, <2>1
<1>5. ASSUME NEW k \in a + 1 .. b - 1 PROVE m[k] \in NameCont
  <2>1. k - by \in s + 1 .. o - 1 /\ k - by \in s .. e /\ (k - by) + by = k
    BY <1>0, <1>1, <1>5
  <2>2. m[(k - by) + by] = l[k - by]
    BY <1>0, <2>1
  <2>3. QED
    BY <1>0, <1>1, <2>1, <2>2
<1>6. ASSUME NEW k \in b + 1 .. c - 1 PROVE m[k] # ")"
  <2>1. k - by \in o + 1 .. e - 1 /\ k - by \in s .. e /\ (k - by) + by = k
    BY <1>0, <1>1, <1>6
  <2>2. m[(k - by) + by] = l[k - by]
    BY <1>0, <2>1
  <2>3. QED
    BY <1>0, <1>1, <2>1, <2>2
<1>7. a + 1 < b /\ b < c
  BY <1>0, <1>1
<1>8. QED
  BY <1>0, <1>4, <1>5, <1>6, <1>7 DEF Directive

-----------------------------------------------------------------------------
(* Editing a stretch of a line *)

\* m is l, but for the bytes from `from` up to `to`: what is behind them is `by` further on.
Edited(l, m, from, to, by) ==
  /\ m \in Seq(Bytes) /\ Len(m) = Len(l) + by
  /\ from \in 1 .. Len(l) + 1 /\ to \in from .. Len(l) + 1 /\ from <= to + by
  /\ \A k \in 1 .. from - 1 : m[k] = l[k]
  /\ \A k \in to .. Len(l) : m[k + by] = l[k]

\* Where a span that is not touched is then.
Shifted(x, from, by) ==
  IF x.close < from THEN x
  ELSE [start |-> x.start + by, open |-> x.open + by, close |-> x.close + by]

\* A moved directive has the name and the value it had.
LEMMA MovedParts ==
  ASSUME NEW l, NEW m, NEW by, NEW s, NEW o, NEW e, NEW a, NEW b, NEW c,
         Directive(l, s, o, e), Moved(l, m, by, s, o, e, a, b, c)
  PROVE  /\ Directive(m, a, b, c)
         /\ Between(m, a, b) = Between(l, s, o)
         /\ Between(m, b, c) = Between(l, o, e)
<1>0. /\ l \in Seq(Bytes) /\ m \in Seq(Bytes) /\ by \in Int
      /\ s \in Nat /\ o \in Nat /\ e \in Nat /\ a \in Nat /\ b \in Nat /\ c \in Nat
  BY DEF Moved
<1>1. /\ 1 <= s /\ s < o /\ o < e /\ e <= Len(l) /\ Len(l) \in Nat /\ Len(m) \in Nat
      /\ a = s + by /\ b = o + by /\ c = e + by /\ 1 <= a /\ c <= Len(m)
      /\ \A k \in s .. e : m[k + by] = l[k]
  BY <1>0 DEF Directive, Moved
<1>2. Directive(m, a, b, c)
  BY MovedDirective
<1>3. Agree(l, m, by, s, o, a, b)
  <2>1. 1 <= s /\ s < o /\ o <= Len(l) /\ 1 <= a /\ b <= Len(m)
    BY <1>0, <1>1
  <2>2. \A k \in s + 1 .. o - 1 : k \in s .. e
    BY <1>0, <1>1
  <2>3. QED
    BY <1>0, <1>1, <2>1, <2>2 DEF Agree
<1>4. Agree(l, m, by, o, e, b, c)
  <2>1. 1 <= o /\ o < e /\ e <= Len(l) /\ 1 <= b /\ c <= Len(m)
    BY <1>0, <1>1
  <2>2. \A k \in o + 1 .. e - 1 : k \in s .. e
    BY <1>0, <1>1
  <2>3. QED
    BY <1>0, <1>1, <2>1, <2>2 DEF Agree
<1>5. Between(m, a, b) = Between(l, s, o)
  BY <1>3, SamePart
<1>6. Between(m, b, c) = Between(l, o, e)
  BY <1>4, SamePart
<1>7. QED
  BY <1>2, <1>5, <1>6

\* A directive outside the edited stretch is one of the new line, with its name and value.
LEMMA ShiftedSpan ==
  ASSUME NEW l \in Seq(Bytes), NEW m, NEW from, NEW to, NEW by \in Int, Edited(l, m, from, to, by),
         NEW x \in Spans, Directive(l, x.start, x.open, x.close),
         x.close < from \/ to <= x.start
  PROVE  /\ Shifted(x, from, by) \in Spans
         /\ Directive(m, Shifted(x, from, by).start, Shifted(x, from, by).open,
                         Shifted(x, from, by).close)
         /\ NameOf(m, Shifted(x, from, by)) = NameOf(l, x)
         /\ ValueOf(m, Shifted(x, from, by)) = ValueOf(l, x)
<1> DEFINE s == x.start
           o == x.open
           e == x.close
<1>1. /\ s \in Nat /\ o \in Nat /\ e \in Nat
      /\ x = [start |-> s, open |-> o, close |-> e]
  BY SpanParts
<1>2. Directive(l, s, o, e) /\ (e < from \/ to <= s)
  OBVIOUS
<1>3. /\ NameOf(l, x) = Between(l, s, o) /\ ValueOf(l, x) = Between(l, o, e)
  BY DEF NameOf, ValueOf, Between
<1>4. Shifted(x, from, by)
        = IF e < from THEN x ELSE [start |-> s + by, open |-> o + by, close |-> e + by]
  BY DEF Shifted
<1> HIDE DEF s, o, e
<1>5. /\ 1 <= s /\ s < o /\ o < e /\ e <= Len(l)
  BY <1>1, <1>2 DEF Directive
<1>6. /\ m \in Seq(Bytes) /\ Len(m) = Len(l) + by /\ Len(l) \in Nat /\ Len(m) \in Nat
      /\ from \in Nat /\ to \in Nat /\ 1 <= from /\ from <= to /\ to <= Len(l) + 1
      /\ from <= to + by
  BY DEF Edited
<1>7. ASSUME NEW d \in Int, NEW a \in Nat, NEW b \in Nat, NEW c \in Nat,
             Moved(l, m, d, s, o, e, a, b, c),
             Shifted(x, from, by) = [start |-> a, open |-> b, close |-> c]
      PROVE  /\ Shifted(x, from, by) \in Spans
             /\ Directive(m, Shifted(x, from, by).start, Shifted(x, from, by).open,
                             Shifted(x, from, by).close)
             /\ NameOf(m, Shifted(x, from, by)) = NameOf(l, x)
             /\ ValueOf(m, Shifted(x, from, by)) = ValueOf(l, x)
  <2> DEFINE y == Shifted(x, from, by)
  <2>1. y \in Spans /\ y.start = a /\ y.open = b /\ y.close = c
    BY <1>7 DEF Spans
  <2>2. /\ Directive(m, a, b, c)
        /\ Between(m, a, b) = Between(l, s, o)
        /\ Between(m, b, c) = Between(l, o, e)
    <3>1. m \in Seq(Bytes) /\ Directive(l, s, o, e) /\ s \in Nat /\ o \in Nat /\ e \in Nat
      BY <1>1, <1>2, <1>6
    <3>2. QED
      BY <1>7, <3>1, MovedParts
  <2> HIDE DEF y
  <2>3. NameOf(m, y) = Between(m, a, b) /\ ValueOf(m, y) = Between(m, b, c)
    BY <2>1 DEF NameOf, ValueOf, Between
  <2>4. y \in Spans /\ Directive(m, y.start, y.open, y.close)
        /\ NameOf(m, y) = NameOf(l, x) /\ ValueOf(m, y) = ValueOf(l, x)
    BY <1>3, <2>1, <2>2, <2>3
  <2>5. QED
    BY <2>4 DEF y
<1>8. CASE e < from
  <2>1. /\ s = s + 0 /\ o = o + 0 /\ e = e + 0 /\ 1 <= s /\ e <= Len(m) /\ 0 \in Int
    BY <1>1, <1>5, <1>6, <1>8
  <2>2. \A k \in s .. e : m[k + 0] = l[k]
    <3>1. TAKE k \in s .. e
    <3>2. k \in 1 .. from - 1 /\ k + 0 = k
      BY <1>1, <1>5, <1>6, <1>8
    <3>3. QED
      BY <3>2 DEF Edited
  <2>3. Shifted(x, from, by) = [start |-> s, open |-> o, close |-> e]
    BY <1>1, <1>4, <1>8
  <2>4. Moved(l, m, 0, s, o, e, s, o, e)
    BY <1>1, <1>6, <2>1, <2>2 DEF Moved
  <2>5. QED
    BY <1>1, <1>7, <2>1, <2>3, <2>4
<1>9. CASE ~ (e < from)
  <2>1. /\ s + by \in Nat /\ o + by \in Nat /\ e + by \in Nat
        /\ 1 <= s + by /\ e + by <= Len(m)
    BY <1>1, <1>2, <1>5, <1>6, <1>9
  <2>2. \A k \in s .. e : m[k + by] = l[k]
    <3>1. TAKE k \in s .. e
    <3>2. k \in to .. Len(l)
      BY <1>1, <1>2, <1>5, <1>6, <1>9
    <3>3. QED
      BY <3>2 DEF Edited
  <2>3. Shifted(x, from, by) = [start |-> s + by, open |-> o + by, close |-> e + by]
    BY <1>4, <1>9
  <2>4. Moved(l, m, by, s, o, e, s + by, o + by, e + by)
    BY <1>1, <1>6, <2>1, <2>2 DEF Moved
  <2>5. QED
    BY <1>7, <2>1, <2>3, <2>4
<1>10. QED
  BY <1>8, <1>9

\* Spans that are not touched keep their order.
LEMMA ShiftedInOrder ==
  ASSUME NEW from \in Nat, NEW to \in Nat, NEW by \in Int, from <= to, from <= to + by,
         NEW x \in Spans, NEW y \in Spans, x.start < x.close, y.start < y.close,
         x.close < from \/ to <= x.start, y.close < from \/ to <= y.start,
         x.close < y.start
  PROVE  /\ Shifted(x, from, by).close < Shifted(y, from, by).start
         /\ Shifted(x, from, by).start < Shifted(y, from, by).start
<1>1. /\ x.start \in Nat /\ x.close \in Nat /\ y.start \in Nat /\ y.close \in Nat
  BY SpanParts
<1>2. CASE x.close < from /\ y.close < from
  BY <1>1, <1>2 DEF Shifted
<1>3. CASE x.close < from /\ to <= y.start
  <2>1. ~ (y.close < from)
    BY <1>1, <1>3
  <2>2. Shifted(x, from, by) = x /\ Shifted(y, from, by).start = y.start + by
    BY <1>3, <2>1 DEF Shifted
  <2>3. x.close < y.start + by /\ x.start < y.start + by
    BY <1>1, <1>3
  <2>4. QED
    BY <2>2, <2>3
<1>4. CASE to <= x.start
  <2>1. ~ (x.close < from) /\ ~ (y.close < from)
    BY <1>1, <1>4
  <2>2. /\ Shifted(x, from, by).close = x.close + by
        /\ Shifted(x, from, by).start = x.start + by
        /\ Shifted(y, from, by).start = y.start + by
    BY <2>1 DEF Shifted
  <2>3. x.close + by < y.start + by /\ x.start + by < y.start + by
    BY <1>1
  <2>4. QED
    BY <2>2, <2>3
<1>5. QED
  BY <1>2, <1>3, <1>4

\* The directives of S with this name.
NamedIn(l, S, name) == {x \in S : NameOf(l, x) = name}

\* The directives of the line once y stands in the stretch where those of R stood.
EditedSpans(S, R, y, from, by) == {Shifted(x, from, by) : x \in S \ R} \union {y}

\* What lets y take the place of R: every other directive is on one side of the stretch,
\* y lies within it and every '@' of the stretch within y, and what begins in front of the
\* stretch and ends anywhere was a directive before.
Fits(l, m, from, to, by, S, R, y) ==
  /\ R \subseteq S /\ y \in Spans
  /\ \A x \in S \ R : x.close < from \/ to <= x.start
  /\ \A x \in R : from <= x.start /\ x.close < to
  /\ Directive(m, y.start, y.open, y.close)
  /\ from <= y.start /\ y.close < to + by
  /\ \A s \in from .. to + by - 1 : m[s] = "@" => y.start <= s /\ s <= y.close
  /\ \A s, n, f \in 1 .. Len(m) : Directive(m, s, n, f) /\ s < from =>
       \E g \in 1 .. Len(l) : Directive(l, s, n, g)

\* A directive outside the edited stretch keeps clear of it.
LEMMA EditedApart ==
  ASSUME NEW l \in Seq(Bytes), NEW m, NEW from, NEW to, NEW by \in Int, Edited(l, m, from, to, by),
         NEW S, Leftmost(l, S), NEW R, NEW y, Fits(l, m, from, to, by, S, R, y),
         NEW x \in S \ R
  PROVE  /\ x \in Spans /\ Directive(l, x.start, x.open, x.close)
         /\ x.start \in Nat /\ x.close \in Nat /\ x.start < x.close /\ x.close <= Len(l)
         /\ x.close < from \/ to <= x.start
         /\ Shifted(x, from, by) \in Spans
         /\ x.close < from => Shifted(x, from, by) = x
         /\ to <= x.start => /\ Shifted(x, from, by).start = x.start + by
                             /\ Shifted(x, from, by).open = x.open + by
                             /\ Shifted(x, from, by).close = x.close + by
         /\ \/ Shifted(x, from, by).close < y.start
            \/ y.close < Shifted(x, from, by).start
<1>1. x \in Spans /\ Directive(l, x.start, x.open, x.close)
  BY DEF Leftmost
<1>2. x.start \in Nat /\ x.open \in Nat /\ x.close \in Nat
  BY <1>1, SpanParts
<1>3. x.start < x.close /\ x.close <= Len(l)
  BY <1>1, <1>2, DirectiveRange
<1>4. x.close < from \/ to <= x.start
  BY DEF Fits
<1>5. Shifted(x, from, by) \in Spans
  BY <1>1, <1>4, ShiftedSpan
<1>6. /\ from \in Nat /\ to \in Nat /\ from <= to
      /\ y.start \in Nat /\ y.close \in Nat /\ from <= y.start /\ y.close < to + by
  BY SpanParts DEF Edited, Fits
<1>7. x.close < from => Shifted(x, from, by) = x
  BY DEF Shifted
<1>8. to <= x.start => ~ (x.close < from)
  BY <1>2, <1>3, <1>6
<1>9. to <= x.start => /\ Shifted(x, from, by).start = x.start + by
                       /\ Shifted(x, from, by).open = x.open + by
                       /\ Shifted(x, from, by).close = x.close + by
  BY <1>8 DEF Shifted
<1>10. CASE x.close < from
  BY <1>1, <1>2, <1>3, <1>4, <1>5, <1>6, <1>7, <1>8, <1>10
<1>11. CASE to <= x.start
  <2>1. y.close < x.start + by
    BY <1>2, <1>6, <1>11
  <2>2. y.close < Shifted(x, from, by).start
    BY <1>9, <1>11, <2>1
  <2>3. QED
    BY <1>1, <1>2, <1>3, <1>5, <1>8, <1>9, <1>11, <2>2
<1>12. QED
  BY <1>4, <1>10, <1>11

\* After an edit that fits, the leftmost directives are those outside the edited
\* stretch, where they now stand, and the new one.
LEMMA EditedLeftmost ==
  ASSUME NEW l \in Seq(Bytes), NEW m, NEW from, NEW to, NEW by \in Int, Edited(l, m, from, to, by),
         NEW S, Leftmost(l, S), NEW R, NEW y, Fits(l, m, from, to, by, S, R, y)
  PROVE  Leftmost(m, EditedSpans(S, R, y, from, by))
<1> DEFINE Sh(x) == Shifted(x, from, by)
           T == EditedSpans(S, R, y, from, by)
<1>1. /\ m \in Seq(Bytes) /\ Len(m) = Len(l) + by /\ Len(l) \in Nat /\ Len(m) \in Nat
      /\ from \in Nat /\ to \in Nat /\ 1 <= from /\ from <= to /\ to <= Len(l) + 1
      /\ from <= to + by
  BY DEF Edited
<1>2. /\ y \in Spans /\ Directive(m, y.start, y.open, y.close)
      /\ from <= y.start /\ y.close < to + by
      /\ y \in T
  BY DEF Fits, EditedSpans
<1>3. \A t \in T : t = y \/ \E x \in S \ R : t = Sh(x)
  BY DEF EditedSpans
<1>4. \A x \in S \ R : Sh(x) \in T
  BY DEF EditedSpans
<1> HIDE DEF T, Sh
<1>5. T \subseteq Spans /\ \A t \in T : Directive(m, t.start, t.open, t.close)
  <2>1. ASSUME NEW t \in T PROVE t \in Spans /\ Directive(m, t.start, t.open, t.close)
    <3>1. CASE t = y
      BY <1>2, <3>1
    <3>2. CASE \E x \in S \ R : t = Sh(x)
      <4>1. PICK x \in S \ R : t = Sh(x)
        BY <3>2
      <4>2. /\ x \in Spans /\ Directive(l, x.start, x.open, x.close)
            /\ x.close < from \/ to <= x.start
        BY EditedApart
      <4>3. QED
        BY <4>1, <4>2, ShiftedSpan DEF Sh
    <3>3. QED
      BY <1>3, <3>1, <3>2
  <2>2. QED
    BY <2>1
<1>6. ASSUME NEW x \in S \ R, NEW z \in S \ R, x.close < z.start
      PROVE  Sh(x).close < Sh(z).start
  <2>1. x \in Spans /\ x.start < x.close /\ (x.close < from \/ to <= x.start)
    BY EditedApart
  <2>2. z \in Spans /\ z.start < z.close /\ (z.close < from \/ to <= z.start)
    BY EditedApart
  <2>3. QED
    BY <1>1, <1>6, <2>1, <2>2, ShiftedInOrder DEF Sh
<1>7. \A t, u \in T : t = u \/ t.close < u.start \/ u.close < t.start
  <2>1. TAKE t, u \in T
  <2>2. ASSUME NEW x \in S \ R PROVE Sh(x).close < y.start \/ y.close < Sh(x).start
    BY EditedApart DEF Sh
  <2>3. ASSUME NEW x \in S \ R, NEW z \in S \ R
        PROVE  Sh(x) = Sh(z) \/ Sh(x).close < Sh(z).start \/ Sh(z).close < Sh(x).start
    <3>1. x = z \/ x.close < z.start \/ z.close < x.start
      BY DEF Leftmost
    <3>2. QED
      BY <1>6, <3>1
  <2>4. QED
    BY <1>3, <2>2, <2>3
<1>8. ASSUME NEW s \in 1 .. Len(m), NEW n \in 1 .. Len(m), NEW f \in 1 .. Len(m),
             Directive(m, s, n, f)
      PROVE  \E t \in T : \/ t = [start |-> s, open |-> n, close |-> f]
                          \/ t.start < s /\ s <= t.close
  <2>1. s \in Nat /\ n \in Nat /\ f \in Nat /\ s < f /\ m[s] = "@" /\ f <= Len(m)
    BY <1>1, <1>8 DEF Directive
  <2>2. CASE s < from
    <3>1. PICK g \in 1 .. Len(l) : Directive(l, s, n, g)
      BY <1>8, <2>2 DEF Fits
    <3>2. s \in 1 .. Len(l) /\ n \in 1 .. Len(l) /\ g \in Nat
      BY <1>1, <2>1, <3>1, DirectiveRange
    <3>3. PICK x \in S : \/ x = [start |-> s, open |-> n, close |-> g]
                         \/ x.start < s /\ s <= x.close
      BY <3>1, <3>2 DEF Leftmost
    <3>4. x.start <= s
      <4>1. x.start \in Nat
        BY SpanParts DEF Leftmost
      <4>2. x.start < s => x.start <= s
        BY <2>1, <4>1
      <4>3. QED
        BY <2>1, <3>3, <4>2
    <3>5. x \in S \ R
      <4>1. x \in R => from <= x.start
        BY DEF Fits
      <4>2. x.start \in Nat
        BY SpanParts DEF Leftmost
      <4>3. QED
        BY <1>1, <2>1, <2>2, <3>4, <4>1, <4>2
    <3>6. Sh(x) = x /\ x.close < from
      <4>1. /\ x.start \in Nat
            /\ x.close < from \/ to <= x.start
            /\ x.close < from => Sh(x) = x
        BY <3>5, EditedApart DEF Sh
      <4>2. ~ (to <= x.start)
        BY <1>1, <2>1, <2>2, <3>4, <4>1
      <4>3. QED
        BY <4>1, <4>2
    <3>7. CASE x.start < s /\ s <= x.close
      BY <1>4, <3>5, <3>6, <3>7
    <3>8. CASE x = [start |-> s, open |-> n, close |-> g]
      <4>1. x.start = s /\ x.open = n /\ x.close = g
        BY <3>8
      <4>2. Directive(m, s, n, g)
        BY <1>4, <1>5, <3>5, <3>6, <4>1
      <4>3. g = f
        BY <1>1, <1>8, <2>1, <3>2, <4>2, DirectiveIsUnique
      <4>4. QED
        BY <1>4, <3>5, <3>6, <3>8, <4>3
    <3>9. QED
      BY <3>3, <3>7, <3>8
  <2>3. CASE from <= s /\ s < to + by
    <3>1. y.start <= s /\ s <= y.close
      <4>1. s \in from .. to + by - 1
        BY <1>1, <2>1, <2>3
      <4>2. QED
        BY <2>1, <4>1 DEF Fits
    <3>2. y.start \in Nat /\ y.open \in Nat /\ y.close \in Nat
          /\ y = [start |-> y.start, open |-> y.open, close |-> y.close]
      BY <1>2, SpanParts
    <3>3. CASE y.start < s
      BY <1>2, <3>1, <3>3
    <3>4. CASE y.start = s
      <4>1. Directive(m, s, y.open, y.close)
        BY <1>2, <3>4
      <4>2. y.open = n /\ y.close = f
        BY <1>1, <1>8, <2>1, <3>2, <4>1, DirectiveIsUnique
      <4>3. QED
        BY <1>2, <3>2, <3>4, <4>2
    <3>5. QED
      BY <2>1, <3>1, <3>2, <3>3, <3>4
  <2>4. CASE to + by <= s
    <3> DEFINE d == 0 - by
               a == s + d
               b == n + d
               c == f + d
    <3>1. s < n /\ n < f
      BY <1>1, <1>8, <2>1, DirectiveRange
    <3>2. /\ d \in Int /\ a \in Nat /\ b \in Nat /\ c \in Nat
          /\ to <= a /\ 1 <= a /\ a < b /\ b < c /\ c <= Len(l)
          /\ a + by = s /\ b + by = n /\ c + by = f
      BY <1>1, <2>1, <2>4, <3>1
    <3>3. \A k \in s .. f : l[k + d] = m[k]
      <4>1. TAKE k \in s .. f
      <4>2. k + d \in to .. Len(l) /\ (k + d) + by = k
        BY <1>1, <2>1, <2>4
      <4>3. m[(k + d) + by] = l[k + d]
        BY <4>2 DEF Edited
      <4>4. QED
        BY <4>2, <4>3
    <3>4. a = s + d /\ b = n + d /\ c = f + d
      OBVIOUS
    <3> HIDE DEF a, b, c, d
    <3>5. Directive(l, a, b, c)
      <4>1. /\ m \in Seq(Bytes) /\ d \in Int /\ s \in Nat /\ n \in Nat /\ f \in Nat
            /\ a \in Nat /\ b \in Nat /\ c \in Nat /\ 1 <= a /\ c <= Len(l)
        BY <1>1, <2>1, <3>2
      <4>2. Directive(m, s, n, f)
        BY <1>8
      <4>3. Moved(m, l, d, s, n, f, a, b, c)
        BY <3>3, <3>4, <4>1 DEF Moved
      <4>4. QED
        BY <4>2, <4>3, MovedDirective
    <3>6. a \in 1 .. Len(l) /\ b \in 1 .. Len(l) /\ c \in 1 .. Len(l)
      BY <1>1, <3>2
    <3>7. PICK x \in S : \/ x = [start |-> a, open |-> b, close |-> c]
                         \/ x.start < a /\ a <= x.close
      BY <3>5, <3>6 DEF Leftmost
    <3>8. x.close \in Nat /\ x.start \in Nat /\ x.open \in Nat
      BY SpanParts DEF Leftmost
    <3>9. to <= x.close
      <4>1. x.close = c \/ a <= x.close
        BY <3>7
      <4>2. a <= x.close
        BY <3>2, <3>8, <4>1
      <4>3. to \in Nat
        BY <1>1
      <4>4. QED
        BY <3>2, <3>8, <4>2, <4>3
    <3>10. x \in S \ R
      <4>1. x \in R => x.close < to
        BY DEF Fits
      <4>2. QED
        BY <1>1, <3>8, <3>9, <4>1
    <3>11. /\ Sh(x) \in Spans /\ Sh(x).start = x.start + by /\ Sh(x).open = x.open + by
           /\ Sh(x).close = x.close + by
      <4>1. /\ x.close < from \/ to <= x.start
            /\ Sh(x) \in Spans
            /\ to <= x.start => /\ Sh(x).start = x.start + by /\ Sh(x).open = x.open + by
                                /\ Sh(x).close = x.close + by
        BY <3>10, EditedApart DEF Sh
      <4>2. ~ (x.close < from)
        BY <1>1, <3>8, <3>9
      <4>3. QED
        BY <4>1, <4>2
    <3>12. CASE x.start < a /\ a <= x.close
      <4>1. x.start + by < s /\ s <= x.close + by
        BY <2>1, <3>2, <3>8, <3>12
      <4>2. QED
        BY <1>4, <3>10, <3>11, <4>1
    <3>13. CASE x = [start |-> a, open |-> b, close |-> c]
      <4>1. x.start = a /\ x.open = b /\ x.close = c
        BY <3>13
      <4>2. Sh(x).start = s /\ Sh(x).open = n /\ Sh(x).close = f
        BY <3>2, <3>11, <4>1
      <4>3. Sh(x) = [start |-> s, open |-> n, close |-> f]
        BY <3>11, <4>2, SpanParts
      <4>4. QED
        BY <1>4, <3>10, <4>3
    <3>14. QED
      BY <3>7, <3>12, <3>13
  <2>5. QED
    BY <1>1, <2>1, <2>2, <2>3, <2>4
<1>9. QED
  BY <1>5, <1>7, <1>8 DEF Leftmost, T

-----------------------------------------------------------------------------
(* What the index has of a set of directives *)

\* I has, of every name of S, the value of the last directive with that name.
Reads(l, S, I) ==
  /\ DOMAIN I = {NameOf(l, x) : x \in S}
  /\ I = [n \in DOMAIN I |-> I[n]]
  /\ \A n \in DOMAIN I : \E x \in S : LastNamed(l, S, x) /\ NameOf(l, x) = n
  /\ \A x : LastNamed(l, S, x) => I[NameOf(l, x)] = ValueOf(l, x)

\* The index of what Lex returns is such a function.
LEMMA IndexedReads ==
  ASSUME NEW l \in Seq(Bytes), NEW found, Lexed(l, found)
  PROVE  Reads(l, SpanSet(found), Indexed(l, found))
BY IndexedIsLast DEF Reads

\* Two lines with directives of the same names and values in the same places.
LEMMA SameReads ==
  ASSUME NEW l, NEW m, NEW S, NEW I, NEW J, Reads(l, S, I), Reads(m, S, J),
         \A x \in S : NameOf(m, x) = NameOf(l, x) /\ ValueOf(m, x) = ValueOf(l, x)
  PROVE  J = I
<1>1. DOMAIN I = DOMAIN J
  BY DEF Reads
<1>2. ASSUME NEW n \in DOMAIN J PROVE J[n] = I[n]
  <2>1. PICK x \in S : LastNamed(m, S, x) /\ NameOf(m, x) = n
    BY DEF Reads
  <2>2. LastNamed(l, S, x)
    BY <2>1 DEF LastNamed
  <2>3. J[n] = ValueOf(m, x)
    BY <2>1 DEF Reads
  <2>4. I[NameOf(l, x)] = ValueOf(l, x)
    BY <2>2 DEF Reads
  <2>5. QED
    BY <2>1, <2>3, <2>4
<1>3. I = [n \in DOMAIN I |-> I[n]] /\ J = [n \in DOMAIN J |-> J[n]]
  BY DEF Reads
<1>4. QED
  BY <1>1, <1>2, <1>3

\* What the index has of name is replaced.
WithValue(I, name, v) == [n \in DOMAIN I \union {name} |-> IF n = name THEN v ELSE I[n]]

\* An edit that puts y in the place of the directives with its name is what is read,
\* and nothing else is read differently.
LEMMA EditedReads ==
  ASSUME NEW l \in Seq(Bytes), NEW m, NEW from, NEW to, NEW by \in Int, Edited(l, m, from, to, by),
         NEW S, Leftmost(l, S), NEW name, NEW y,
         Fits(l, m, from, to, by, S, NamedIn(l, S, name), y),
         NameOf(m, y) = name,
         NEW I, Reads(l, S, I),
         NEW J, Reads(m, EditedSpans(S, NamedIn(l, S, name), y, from, by), J)
  PROVE  J = WithValue(I, name, ValueOf(m, y))
<1> DEFINE R == NamedIn(l, S, name)
           Sh(x) == Shifted(x, from, by)
           T == EditedSpans(S, R, y, from, by)
<1>1. /\ y \in T
      /\ \A t \in T : t = y \/ \E x \in S \ R : t = Sh(x)
      /\ \A x \in S \ R : Sh(x) \in T
  BY DEF EditedSpans
<1>2. \A x \in S : x \notin R <=> NameOf(l, x) # name
  BY DEF NamedIn
<1>3. Fits(l, m, from, to, by, S, R, y) /\ Reads(m, T, J)
  OBVIOUS
<1> HIDE DEF T, R
<1>4. ASSUME NEW x \in S \ R
      PROVE  NameOf(m, Sh(x)) = NameOf(l, x) /\ ValueOf(m, Sh(x)) = ValueOf(l, x)
  <2>1. /\ x \in Spans /\ Directive(l, x.start, x.open, x.close)
        /\ x.close < from \/ to <= x.start
    BY <1>3, EditedApart
  <2>2. QED
    BY <2>1, ShiftedSpan DEF Sh
<1>5. ASSUME NEW x \in S \ R, NEW z \in S \ R, Sh(z).start <= Sh(x).start
      PROVE  z.start <= x.start
  <2>1. /\ x \in Spans /\ x.start \in Nat /\ x.start < x.close /\ Sh(x) \in Spans
        /\ x.close < from \/ to <= x.start
    BY <1>3, EditedApart DEF Sh
  <2>2. /\ z \in Spans /\ z.start \in Nat /\ z.start < z.close /\ Sh(z) \in Spans
        /\ z.close < from \/ to <= z.start
    BY <1>3, EditedApart DEF Sh
  <2>3. from \in Nat /\ to \in Nat /\ from <= to /\ from <= to + by
    BY DEF Edited
  <2>4. ~ (x.close < z.start)
    <3>1. x.close < z.start => Sh(x).start < Sh(z).start
      BY <2>1, <2>2, <2>3, ShiftedInOrder DEF Sh
    <3>2. Sh(x).start \in Nat /\ Sh(z).start \in Nat
      BY <2>1, <2>2, SpanParts
    <3>3. QED
      BY <1>5, <3>1, <3>2
  <2>5. x = z \/ z.close < x.start
    BY <2>4 DEF Leftmost
  <2>6. z.close \in Nat
    BY <2>2, SpanParts
  <2>7. QED
    BY <2>1, <2>2, <2>5, <2>6
<1> HIDE DEF Sh
<1>6. DOMAIN J = DOMAIN I \union {name}
  <2>1. DOMAIN J = {NameOf(m, t) : t \in T} /\ DOMAIN I = {NameOf(l, x) : x \in S}
    BY <1>3 DEF Reads
  <2>2. ASSUME NEW t \in T PROVE NameOf(m, t) \in DOMAIN I \union {name}
    <3>1. CASE t = y
      BY <3>1
    <3>2. CASE \E x \in S \ R : t = Sh(x)
      BY <1>4, <2>1, <3>2
    <3>3. QED
      BY <1>1, <3>1, <3>2
  <2>3. ASSUME NEW x \in S, NameOf(l, x) # name PROVE NameOf(l, x) \in DOMAIN J
    <3>1. x \in S \ R
      BY <1>2, <2>3
    <3>2. QED
      BY <1>1, <1>4, <2>1, <3>1
  <2>4. name \in DOMAIN J
    BY <1>1, <2>1
  <2>5. QED
    BY <2>1, <2>2, <2>3, <2>4
<1>7. J[name] = ValueOf(m, y)
  <2>1. ASSUME NEW t \in T, NameOf(m, t) = name PROVE t = y
    BY <1>1, <1>2, <1>4, <2>1
  <2>2. y.start <= y.start
    BY <1>3, SpanParts DEF Fits
  <2>3. LastNamed(m, T, y)
    BY <1>1, <2>1, <2>2 DEF LastNamed
  <2>4. QED
    BY <1>3, <2>3 DEF Reads
<1>8. ASSUME NEW n \in DOMAIN J, n # name PROVE J[n] = I[n]
  <2>1. PICK t \in T : LastNamed(m, T, t) /\ NameOf(m, t) = n
    BY <1>3 DEF Reads
  <2>2. PICK x \in S \ R : t = Sh(x)
    BY <1>1, <1>8, <2>1
  <2>3. NameOf(l, x) = n /\ ValueOf(l, x) = ValueOf(m, t)
    BY <1>4, <2>1, <2>2
  <2>4. ASSUME NEW z \in S, NameOf(l, z) = n PROVE z.start <= x.start
    <3>1. z \in S \ R
      BY <1>2, <1>8, <2>4
    <3>2. Sh(z) \in T /\ NameOf(m, Sh(z)) = n
      BY <1>1, <1>4, <2>4, <3>1
    <3>3. Sh(z).start <= Sh(x).start
      BY <2>1, <2>2, <3>2 DEF LastNamed
    <3>4. QED
      BY <1>5, <3>1, <3>3
  <2>5. LastNamed(l, S, x)
    BY <2>3, <2>4 DEF LastNamed
  <2>6. I[n] = ValueOf(l, x) /\ J[n] = ValueOf(m, t)
    BY <1>3, <2>1, <2>3, <2>5 DEF Reads
  <2>7. QED
    BY <2>3, <2>6
<1>9. J = [n \in DOMAIN J |-> J[n]]
  BY <1>3 DEF Reads
<1>10. QED
  BY <1>6, <1>7, <1>8, <1>9 DEF WithValue

\* The line stays one line if nothing new is a newline and the old one stays behind.
LEMMA EditedLine ==
  ASSUME NEW l \in Seq(Bytes), IsLine(l), NEW m, NEW from \in Nat, NEW to \in Nat, NEW by \in Int,
         Edited(l, m, from, to, by),
         1 <= Len(l) /\ l[Len(l)] = "\n" => from <= Len(l),
         \A k \in from .. to + by - 1 : m[k] # "\n"
  PROVE  IsLine(m)
<1>1. /\ m \in Seq(Bytes) /\ Len(m) = Len(l) + by /\ Len(l) \in Nat /\ Len(m) \in Nat
      /\ 1 <= from /\ from <= to /\ to <= Len(l) + 1 /\ from <= to + by
      /\ \A k \in 1 .. from - 1 : m[k] = l[k]
      /\ \A k \in to .. Len(l) : m[k + by] = l[k]
  BY DEF Edited
<1>2. \A k \in 1 .. Len(l) : l[k] = "\n" => k = Len(l)
  BY DEF IsLine
<1>3. ASSUME NEW k \in 1 .. Len(m), m[k] = "\n" PROVE k = Len(m)
  <2>1. ~ (k < from)
    <3>1. SUFFICES ASSUME k < from PROVE FALSE
      OBVIOUS
    <3>2. k \in 1 .. from - 1 /\ k \in 1 .. Len(l)
      BY <1>1, <3>1
    <3>3. l[k] = "\n"
      BY <1>1, <1>3, <3>2
    <3>4. k = Len(l)
      BY <1>2, <3>2, <3>3
    <3>5. QED
      BY <1>1, <3>1, <3>3, <3>4
  <2>2. ~ (from <= k /\ k < to + by)
    <3>1. from <= k /\ k < to + by => k \in from .. to + by - 1
      BY <1>1
    <3>2. QED
      BY <1>3, <3>1
  <2>3. k - by \in to .. Len(l) /\ (k - by) + by = k /\ k - by \in 1 .. Len(l)
    BY <1>1, <2>1, <2>2
  <2>4. l[k - by] = "\n"
    BY <1>1, <1>3, <2>3
  <2>5. k - by = Len(l)
    BY <1>2, <2>3, <2>4
  <2>6. QED
    BY <1>1, <2>5
<1>4. DOMAIN m = 1 .. Len(m)
  BY <1>1
<1>5. QED
  BY <1>3, <1>4 DEF IsLine

\* In m, and nowhere else on the line, a directive y takes the place of those with its name.
Puts(l, m, S, name, value) ==
  /\ IsLine(m)
  /\ \E from \in Nat, to \in Nat, by \in Int, y \in Spans :
       /\ Edited(l, m, from, to, by)
       /\ Fits(l, m, from, to, by, S, NamedIn(l, S, name), y)
       /\ NameOf(m, y) = name /\ ValueOf(m, y) = value

-----------------------------------------------------------------------------
(* Replacing a value *)

\* A stretch of a line with the bytes of v is v.
LEMMA PartIs ==
  ASSUME NEW m \in Seq(Bytes), NEW v \in Seq(Bytes), NEW o \in Nat, o + Len(v) <= Len(m),
         \A k \in 1 .. Len(v) : m[o + k] = v[k]
  PROVE  SubSeq(m, o + 1, o + Len(v)) = v
<1> DEFINE c == o + 1
           d == o + Len(v)
<1>1. /\ Len(v) \in Nat /\ Len(m) \in Nat /\ c \in Int /\ d \in Int /\ 1 <= c /\ d <= Len(m)
      /\ (IF c <= d THEN d - c + 1 ELSE 0) = Len(v) /\ d - c + 1 = Len(v)
  OBVIOUS
<1>2. \A k \in 1 .. Len(v) : c + k - 1 = o + k
  BY <1>1
<1> HIDE DEF c, d
<1>3. \A k \in c .. d : m[k] \in Bytes
  BY <1>1
<1>4. /\ SubSeq(m, c, d) \in Seq(Bytes)
      /\ Len(SubSeq(m, c, d)) = IF c <= d THEN d - c + 1 ELSE 0
      /\ \A k \in 1 .. d - c + 1 : SubSeq(m, c, d)[k] = m[c + k - 1]
  BY <1>1, <1>3, SubSeqProperties
<1>5. /\ Len(SubSeq(m, c, d)) = Len(v)
      /\ \A k \in 1 .. Len(v) : SubSeq(m, c, d)[k] = m[c + k - 1]
  BY <1>1, <1>4
<1>6. ASSUME NEW k \in 1 .. Len(v) PROVE SubSeq(m, c, d)[k] = v[k]
  BY <1>2, <1>5
<1>7. SubSeq(m, c, d) = v
  BY <1>4, <1>5, <1>6, SeqEqual
<1>8. QED
  BY <1>7 DEF c, d

\* A name and its '(' in front of position p, if there is a byte at p that is neither.
LEMMA NameIsInFront ==
  ASSUME NEW l \in Seq(Bytes), NEW s \in Nat, NEW n \in Nat, NEW f \in Nat, Directive(l, s, n, f),
         NEW p \in Nat, s < p, l[p] \notin NameCont, l[p] # "("
  PROVE  n < p
<1>1. l[n] = "(" /\ \A k \in s + 1 .. n - 1 : l[k] \in NameCont
  BY DEF Directive
<1>2. p # n
  BY <1>1
<1>3. ~ (p < n)
  <2>1. p < n => p \in s + 1 .. n - 1
    OBVIOUS
  <2>2. QED
    BY <1>1, <2>1
<1>4. QED
  BY <1>2, <1>3

\* A name from s to its '(' at n.
Begins(l, s, n) ==
  /\ 1 <= s /\ s + 1 < n
  /\ l[s] = "@" /\ l[s + 1] \in Lower /\ l[n] = "("
  /\ \A k \in s + 1 .. n - 1 : l[k] \in NameCont

\* A directive in front of p has the same name in a line with the same bytes up to p.
LEMMA SameFront ==
  ASSUME NEW l \in Seq(Bytes), NEW m \in Seq(Bytes), NEW s \in Nat, NEW n \in Nat, NEW f \in Nat,
         Directive(m, s, n, f), NEW p \in Nat, n < p,
         \A k \in 1 .. p - 1 : m[k] = l[k]
  PROVE  Begins(l, s, n)
<1>1. /\ 1 <= s /\ s + 1 < n /\ n < f
      /\ m[s] = "@" /\ m[s + 1] \in Lower /\ m[n] = "("
      /\ \A k \in s + 1 .. n - 1 : m[k] \in NameCont
  BY DEF Directive
<1>2. s \in 1 .. p - 1 /\ s + 1 \in 1 .. p - 1 /\ n \in 1 .. p - 1
  BY <1>1
<1>3. ASSUME NEW k \in s + 1 .. n - 1 PROVE l[k] \in NameCont
  <2>1. k \in 1 .. p - 1
    BY <1>1
  <2>2. QED
    BY <1>1, <2>1
<1>4. QED
  BY <1>1, <1>2, <1>3 DEF Begins

\* Replacing the value of the only directive of a name puts the value there: no other
\* directive begins or ends elsewhere for it.
LEMMA ReplacedPuts ==
  ASSUME NEW l \in Seq(Bytes), IsLine(l), NEW S, Leftmost(l, S), NEW z \in S,
         \A x \in S : NameOf(l, x) = NameOf(l, z) => x = z,
         NEW v \in Seq(Bytes), \A k \in 1 .. Len(v) : v[k] # ")" /\ v[k] # "\n"
  PROVE  Puts(l, Spliced(l, z.open + 1, z.close, v), S, NameOf(l, z), v)
<1> DEFINE R == NamedIn(l, S, NameOf(l, z))
           a == z.start
           o == z.open
           e == z.close
           by == Len(v) - (e - (o + 1))
           m == Spliced(l, o + 1, e, v)
           y == [start |-> a, open |-> o, close |-> e + by]
<1>1. R = {z}
  BY DEF NamedIn
<1>2. /\ a \in Nat /\ o \in Nat /\ e \in Nat
      /\ z.start = a /\ z.open = o /\ z.close = e
  BY SpanParts DEF Leftmost
<1>3. Directive(l, a, o, e)
  BY DEF Leftmost
<1> HIDE DEF a, o, e
<1>4. by \in Int /\ by = Len(v) - (e - (o + 1)) /\ y.start = a /\ y.open = o /\ y.close = e + by
  BY <1>2
<1>0. y = [start |-> a, open |-> o, close |-> e + by]
  OBVIOUS
<1>5. NameOf(l, z) = Between(l, a, o)
  BY <1>2 DEF NameOf, Between
<1>6. NameOf(m, y) = Between(m, a, o) /\ ValueOf(m, y) = Between(m, o, e + by)
  BY <1>4 DEF NameOf, ValueOf, Between
<1> HIDE DEF R, by, m, y
<1> USE <1>2, <1>4
<1>7. /\ Len(l) \in Nat /\ Len(v) \in Nat /\ 1 <= a /\ a + 1 < o /\ o < e /\ e <= Len(l)
  BY <1>3 DEF Directive
<1>8. /\ l[a] = "@" /\ l[a + 1] \in Lower /\ l[o] = "(" /\ l[e] = ")"
      /\ \A k \in a + 1 .. o - 1 : l[k] \in NameCont
      /\ \A k \in o + 1 .. e - 1 : l[k] # ")"
  BY <1>3 DEF Directive
<1>9. /\ m \in Seq(Bytes) /\ Len(m) = Len(l) + by /\ Len(m) \in Nat
      /\ \A k \in 1 .. o : m[k] = l[k]
      /\ \A k \in 1 .. Len(v) : m[o + k] = v[k]
      /\ \A k \in e .. Len(l) : m[k + by] = l[k]
  <2>1. o + 1 \in 1 .. Len(l) + 1 /\ e \in o + 1 .. Len(l) + 1 /\ (o + 1) - 1 = o
    BY <1>7
  <2>2. Replaced(l, m, o + 1, e, v, by)
    BY <2>1, SplicedIs DEF m, by
  <2>3. /\ m \in Seq(Bytes) /\ Len(m) = Len(l) + by
        /\ \A k \in 1 .. (o + 1) - 1 : m[k] = l[k]
        /\ \A k \in 1 .. Len(v) : m[((o + 1) - 1) + k] = v[k]
        /\ \A k \in e .. Len(l) : m[k + by] = l[k]
    BY <2>2 DEF Replaced
  <2>4. QED
    BY <2>1, <2>3
<1>10. /\ e + by = o + Len(v) + 1 /\ e + by \in Nat /\ e + by <= Len(m) /\ o < e + by
       /\ (e + by) - 1 = o + Len(v) /\ (e + 1) + by = (e + by) + 1
  BY <1>7, <1>9
<1>11. Edited(l, m, a, e + 1, by)
  <2>1. a \in 1 .. Len(l) + 1 /\ e + 1 \in a .. Len(l) + 1 /\ a <= (e + 1) + by
    BY <1>7, <1>10
  <2>2. \A k \in 1 .. a - 1 : m[k] = l[k]
    <3>1. \A k \in 1 .. a - 1 : k \in 1 .. o
      BY <1>7
    <3>2. QED
      BY <1>9, <3>1
  <2>3. \A k \in e + 1 .. Len(l) : m[k + by] = l[k]
    <3>1. \A k \in e + 1 .. Len(l) : k \in e .. Len(l)
      BY <1>7
    <3>2. QED
      BY <1>9, <3>1
  <2>4. QED
    BY <1>9, <2>1, <2>2, <2>3 DEF Edited
<1>12. Directive(m, a, o, e + by)
  <2>1. m[a] = "@" /\ m[a + 1] \in Lower /\ m[o] = "("
    <3>1. a \in 1 .. o /\ a + 1 \in 1 .. o /\ o \in 1 .. o
      BY <1>7
    <3>2. QED
      BY <1>8, <1>9, <3>1
  <2>2. m[e + by] = ")"
    BY <1>7, <1>8, <1>9
  <2>3. \A k \in a + 1 .. o - 1 : m[k] \in NameCont
    <3>1. \A k \in a + 1 .. o - 1 : k \in 1 .. o
      BY <1>7
    <3>2. QED
      BY <1>8, <1>9, <3>1
  <2>4. \A k \in o + 1 .. (e + by) - 1 : m[k] # ")"
    <3>1. TAKE k \in o + 1 .. (e + by) - 1
    <3>2. k - o \in 1 .. Len(v) /\ o + (k - o) = k
      BY <1>7, <1>10
    <3>3. m[o + (k - o)] = v[k - o]
      BY <1>9, <3>2
    <3>4. QED
      BY <3>2, <3>3
  <2>5. QED
    BY <1>7, <1>10, <2>1, <2>2, <2>3, <2>4 DEF Directive
\* What begins in front of z and ends in the new value ended at the end of z before.
<1>13. ASSUME NEW s \in 1 .. Len(m), NEW n \in 1 .. Len(m), NEW f \in 1 .. Len(m),
              Directive(m, s, n, f), s < a
       PROVE  \E g \in 1 .. Len(l) : Directive(l, s, n, g)
  <2>1. s \in Nat /\ n \in Nat /\ f \in Nat /\ n < f
        /\ f <= Len(m) /\ m[f] = ")" /\ \A k \in n + 1 .. f - 1 : m[k] # ")"
    BY <1>9, <1>13 DEF Directive
  <2>2. n < a
    <3>1. m[a] \notin NameCont /\ m[a] # "("
      BY <1>12, SpecialAreApart DEF Directive
    <3>2. QED
      BY <1>9, <1>13, <2>1, <3>1, NameIsInFront
  <2>3. /\ 1 <= s /\ s + 1 < n /\ n < f
        /\ l[s] = "@" /\ l[s + 1] \in Lower /\ l[n] = "("
        /\ \A k \in s + 1 .. n - 1 : l[k] \in NameCont
    <3>1. \A k \in 1 .. a - 1 : m[k] = l[k]
      BY <1>11 DEF Edited
    <3>2. /\ m \in Seq(Bytes) /\ s \in Nat /\ n \in Nat /\ f \in Nat
          /\ Directive(m, s, n, f)
      BY <1>9, <1>13, <2>1
    <3>3. Begins(l, s, n)
      BY <2>2, <3>1, <3>2, SameFront
    <3>4. QED
      BY <2>1, <3>3 DEF Begins
  <2>4. CASE f <= o
    <3>1. f \in 1 .. o /\ \A k \in n + 1 .. f - 1 : k \in 1 .. o
      BY <2>1, <2>4
    <3>2. l[f] = ")" /\ \A k \in n + 1 .. f - 1 : l[k] # ")"
      BY <1>9, <2>1, <3>1
    <3>3. f \in 1 .. Len(l) /\ f <= Len(l)
      BY <1>7, <2>1, <2>4
    <3>4. QED
      BY <2>1, <2>3, <3>2, <3>3 DEF Directive
  <2>5. CASE o < f
    <3>1. \A k \in n + 1 .. e - 1 : l[k] # ")"
      <4>1. TAKE k \in n + 1 .. e - 1
      <4>2. CASE k <= o
        <5>1. k \in 1 .. o /\ k \in n + 1 .. f - 1
          BY <2>1, <2>5, <4>2
        <5>2. QED
          BY <1>9, <2>1, <5>1
      <4>3. CASE o < k
        <5>1. k \in o + 1 .. e - 1
          BY <1>7, <4>3
        <5>2. QED
          BY <1>8, <5>1
      <4>4. QED
        BY <4>2, <4>3
    <3>2. e \in 1 .. Len(l) /\ n < e /\ e <= Len(l)
      BY <1>7, <2>1, <2>2
    <3>3. QED
      BY <1>8, <2>3, <3>1, <3>2 DEF Directive
  <2>6. QED
    BY <2>1, <2>4, <2>5
<1>14. Fits(l, m, a, e + 1, by, S, R, y)
  <2>1. R \subseteq S /\ y \in Spans
    BY <1>0, <1>1, <1>10 DEF Spans
  <2>2. ASSUME NEW x \in S \ R PROVE x.close < a \/ e + 1 <= x.start
    <3>1. x # z
      BY <1>1
    <3>2. x.close < a \/ e < x.start
      BY <1>2, <3>1 DEF Leftmost
    <3>3. x.start \in Nat
      BY SpanParts DEF Leftmost
    <3>4. e < x.start => e + 1 <= x.start
      BY <3>3
    <3>5. QED
      BY <3>2, <3>4
  <2>3. \A x \in R : a <= x.start /\ x.close < e + 1
    BY <1>1, <1>2
  <2>4. Directive(m, y.start, y.open, y.close) /\ a <= y.start /\ y.close < (e + 1) + by
    <3>1. a <= a /\ e + by < (e + 1) + by
      OBVIOUS
    <3>2. QED
      BY <1>4, <1>12, <3>1
  <2>5. \A s \in a .. (e + 1) + by - 1 : m[s] = "@" => y.start <= s /\ s <= y.close
    <3>1. \A s \in a .. (e + 1) + by - 1 : a <= s /\ s <= e + by
      OBVIOUS
    <3>2. QED
      BY <1>4, <3>1
  <2>6. QED
    BY <1>13, <2>1, <2>2, <2>3, <2>4, <2>5 DEF Fits
<1>15. NameOf(m, y) = NameOf(l, z)
  <2>1. \A k \in a + 1 .. o - 1 : m[k] = l[k]
    <3>1. \A k \in a + 1 .. o - 1 : k \in 1 .. o
      BY <1>7
    <3>2. QED
      BY <1>9, <3>1
  <2>2. 1 <= a /\ a < o /\ o <= Len(l) /\ o <= Len(m)
    BY <1>7, <1>10
  <2>3. Between(m, a, o) = Between(l, a, o)
    BY <1>9, <2>1, <2>2, SameBetween
  <2>4. QED
    BY <1>5, <1>6, <2>3
<1>16. ValueOf(m, y) = v
  <2>1. o + Len(v) <= Len(m)
    BY <1>7, <1>10
  <2>2. SubSeq(m, o + 1, o + Len(v)) = v
    BY <1>9, <2>1, PartIs
  <2>3. QED
    BY <1>6, <1>10, <2>2 DEF Between
<1>17. IsLine(m)
  <2>1. ASSUME NEW k \in a .. (e + 1) + by - 1 PROVE m[k] # "\n"
    <3>1. CASE k <= o
      <4>1. k \in 1 .. o /\ k \in 1 .. Len(l) /\ k # Len(l)
        BY <1>7, <2>1, <3>1
      <4>2. l[k] # "\n"
        BY <4>1 DEF IsLine
      <4>3. QED
        BY <1>9, <4>1, <4>2
    <3>2. CASE o < k /\ k < e + by
      <4>1. k - o \in 1 .. Len(v) /\ o + (k - o) = k
        BY <1>10, <2>1, <3>2
      <4>2. m[o + (k - o)] = v[k - o] /\ v[k - o] # "\n"
        BY <1>9, <4>1
      <4>3. QED
        BY <4>1, <4>2
    <3>3. CASE k = e + by
      BY <1>12, <3>3 DEF Directive
    <3>4. k <= e + by
      BY <2>1
    <3>5. QED
      BY <2>1, <3>1, <3>2, <3>3, <3>4
  <2>2. a <= Len(l) /\ e + 1 \in Nat
    BY <1>7
  <2>3. QED
    BY <1>11, <2>1, <2>2, EditedLine
<1>18. e + 1 \in Nat /\ y \in Spans
  BY <1>14 DEF Fits
<1>19. Puts(l, m, S, NameOf(l, z), v)
  BY <1>11, <1>14, <1>15, <1>16, <1>17, <1>18 DEF Puts, R
<1>20. QED
  BY <1>19 DEF m, o, e

-----------------------------------------------------------------------------
(* Inserting a directive *)

\* A name that is not followed by a directive never closed is one of a directive.
LEMMA BeginsEnds ==
  ASSUME NEW l \in Seq(Bytes), NEW s \in Nat, NEW n \in Nat, n <= Len(l), Begins(l, s, n),
         ~Dangles(l, s)
  PROVE  \E g \in 1 .. Len(l) : Directive(l, s, n, g)
<1>1. /\ Len(l) \in Nat /\ 1 <= s /\ s + 1 < n
      /\ l[s] = "@" /\ l[s + 1] \in Lower /\ l[n] = "("
      /\ \A k \in s + 1 .. n - 1 : l[k] \in NameCont
  BY DEF Begins
<1>2. StartsName(l, s)
  BY <1>1 DEF StartsName
<1>3. NameEnd(l, s) = n
  <2>1. s + 2 \in 1 .. Len(l) + 1 /\ n \in s + 2 .. Len(l)
    BY <1>1
  <2>2. l[n] \in Bytes \ NameCont
    BY <1>1, SpecialBytes
  <2>3. \A k \in s + 2 .. n - 1 : l[k] \notin Bytes \ NameCont
    BY <1>1
  <2>4. QED
    BY <2>1, <2>2, <2>3, UntilIsUnique DEF NameEnd
<1>4. Terminated(l, s)
  BY <1>1, <1>2, <1>3 DEF Dangles
<1>5. s \in 1 .. Len(l)
  BY <1>1
<1>6. Directive(l, s, n, ValueEnd(l, s)) /\ ValueEnd(l, s) <= Len(l)
  BY <1>3, <1>4, <1>5, LexIsGrammar DEF Terminated
<1>7. ValueEnd(l, s) \in 1 .. Len(l)
  <2>1. n + 1 \in 1 .. Len(l) + 1
    BY <1>1
  <2>2. ValueEnd(l, s) \in n + 1 .. Len(l) + 1
    BY <1>3, <2>1, UntilIsFirst DEF ValueEnd
  <2>3. QED
    BY <1>1, <1>6, <2>2
<1>8. QED
  BY <1>6, <1>7

\* Each part of two joined lines, at its place.
LEMMA PartsAt ==
  ASSUME NEW g \in Seq(Bytes), NEW t \in Seq(Bytes)
  PROVE  /\ g \o t \in Seq(Bytes) /\ Len(g \o t) = Len(g) + Len(t)
         /\ \A k \in 1 .. Len(g) : (g \o t)[k] = g[k]
         /\ \A k \in 1 .. Len(t) : (g \o t)[Len(g) + k] = t[k]
<1>1. /\ g \o t \in Seq(Bytes) /\ Len(g \o t) = Len(g) + Len(t)
      /\ \A k \in 1 .. Len(g) + Len(t) :
           (g \o t)[k] = IF k <= Len(g) THEN g[k] ELSE t[k - Len(g)]
  BY TwoParts
<1>2. Len(g) \in Nat /\ Len(t) \in Nat
  OBVIOUS
<1>3. ASSUME NEW k \in 1 .. Len(g) PROVE (g \o t)[k] = g[k]
  <2>1. k \in 1 .. Len(g) + Len(t) /\ k <= Len(g)
    BY <1>2
  <2>2. QED
    BY <1>1, <2>1
<1>4. ASSUME NEW k \in 1 .. Len(t) PROVE (g \o t)[Len(g) + k] = t[k]
  <2>1. Len(g) + k \in 1 .. Len(g) + Len(t) /\ ~ (Len(g) + k <= Len(g)) /\ (Len(g) + k) - Len(g) = k
    BY <1>2
  <2>2. (g \o t)[Len(g) + k] = t[(Len(g) + k) - Len(g)]
    BY <1>1, <2>1
  <2>3. QED
    BY <2>1, <2>2
<1>5. QED
  BY <1>1, <1>3, <1>4

\* ... and a part of one byte.
LEMMA OneByte ==
  ASSUME NEW g \in Seq(Bytes), NEW b \in Bytes
  PROVE  /\ g \o <<b>> \in Seq(Bytes) /\ Len(g \o <<b>>) = Len(g) + 1
         /\ \A k \in 1 .. Len(g) : (g \o <<b>>)[k] = g[k]
         /\ (g \o <<b>>)[Len(g) + 1] = b
<1>1. <<b>> \in Seq(Bytes) /\ Len(<<b>>) = 1 /\ <<b>>[1] = b /\ 1 \in 1 .. 1
  OBVIOUS
<1>2. /\ g \o <<b>> \in Seq(Bytes) /\ Len(g \o <<b>>) = Len(g) + Len(<<b>>)
      /\ \A k \in 1 .. Len(g) : (g \o <<b>>)[k] = g[k]
      /\ \A k \in 1 .. Len(<<b>>) : (g \o <<b>>)[Len(g) + k] = <<b>>[k]
  BY <1>1, PartsAt
<1>3. (g \o <<b>>)[Len(g) + 1] = <<b>>[1]
  BY <1>1, <1>2
<1>4. QED
  BY <1>1, <1>2, <1>3

\* w is a directive behind the bytes pre: j, n and v are the lengths of the parts.
Written(w, pre, name, value, j, n, v) ==
  /\ j = Len(pre) /\ n = Len(name) /\ v = Len(value)
  /\ w \in Seq(Bytes) /\ Len(w) = j + n + v + 3
  /\ \A k \in 1 .. j : w[k] = pre[k]
  /\ w[j + 1] = "@"
  /\ \A k \in 1 .. n : w[j + 1 + k] = name[k]
  /\ w[j + n + 2] = "("
  /\ \A k \in 1 .. v : w[j + n + 2 + k] = value[k]
  /\ w[j + n + v + 3] = ")"

\* What PatchDirective inserts is written like that.
LEMMA WrittenIs ==
  ASSUME NEW pre \in Seq(Bytes), NEW name \in Seq(Bytes), NEW value \in Seq(Bytes)
  PROVE  Written(pre \o <<"@">> \o name \o <<"(">> \o value \o <<")">>, pre, name, value,
                 Len(pre), Len(name), Len(value))
<1> DEFINE j == Len(pre)
           n == Len(name)
           v == Len(value)
<1> DEFINE w1 == pre \o <<"@">>
           w2 == w1 \o name
           w3 == w2 \o <<"(">>
           w4 == w3 \o value
           w5 == w4 \o <<")">>
<1>1. "@" \in Bytes /\ "(" \in Bytes /\ ")" \in Bytes
  BY SpecialBytes
<1>2. j \in Nat /\ n \in Nat /\ v \in Nat
  OBVIOUS
<1>4. /\ w1 \in Seq(Bytes) /\ Len(w1) = j + 1
      /\ \A k \in 1 .. j : w1[k] = pre[k]
      /\ w1[j + 1] = "@"
  BY <1>1, OneByte
<1> HIDE DEF w1
<1>5. /\ w2 \in Seq(Bytes) /\ Len(w2) = j + 1 + n
      /\ \A k \in 1 .. j + 1 : w2[k] = w1[k]
      /\ \A k \in 1 .. n : w2[j + 1 + k] = name[k]
  <2>1. /\ w1 \o name \in Seq(Bytes) /\ Len(w1 \o name) = Len(w1) + Len(name)
        /\ \A k \in 1 .. Len(w1) : (w1 \o name)[k] = w1[k]
        /\ \A k \in 1 .. Len(name) : (w1 \o name)[Len(w1) + k] = name[k]
    BY <1>4, PartsAt
  <2>2. QED
    BY <1>4, <2>1
<1> HIDE DEF w2
<1>6. /\ w3 \in Seq(Bytes) /\ Len(w3) = j + 1 + n + 1
      /\ \A k \in 1 .. j + 1 + n : w3[k] = w2[k]
      /\ w3[j + 1 + n + 1] = "("
  <2>1. /\ w2 \o <<"(">> \in Seq(Bytes) /\ Len(w2 \o <<"(">>) = Len(w2) + 1
        /\ \A k \in 1 .. Len(w2) : (w2 \o <<"(">>)[k] = w2[k]
        /\ (w2 \o <<"(">>)[Len(w2) + 1] = "("
    BY <1>1, <1>5, OneByte
  <2>2. QED
    BY <1>5, <2>1
<1> HIDE DEF w3
<1>7. /\ w4 \in Seq(Bytes) /\ Len(w4) = j + 1 + n + 1 + v
      /\ \A k \in 1 .. j + 1 + n + 1 : w4[k] = w3[k]
      /\ \A k \in 1 .. v : w4[j + 1 + n + 1 + k] = value[k]
  <2>1. /\ w3 \o value \in Seq(Bytes) /\ Len(w3 \o value) = Len(w3) + Len(value)
        /\ \A k \in 1 .. Len(w3) : (w3 \o value)[k] = w3[k]
        /\ \A k \in 1 .. Len(value) : (w3 \o value)[Len(w3) + k] = value[k]
    BY <1>6, PartsAt
  <2>2. QED
    BY <1>6, <2>1
<1> HIDE DEF w4
<1>8. /\ w5 \in Seq(Bytes) /\ Len(w5) = j + 1 + n + 1 + v + 1
      /\ \A k \in 1 .. j + 1 + n + 1 + v : w5[k] = w4[k]
      /\ w5[j + 1 + n + 1 + v + 1] = ")"
  <2>1. /\ w4 \o <<")">> \in Seq(Bytes) /\ Len(w4 \o <<")">>) = Len(w4) + 1
        /\ \A k \in 1 .. Len(w4) : (w4 \o <<")">>)[k] = w4[k]
        /\ (w4 \o <<")">>)[Len(w4) + 1] = ")"
    BY <1>1, <1>7, OneByte
  <2>2. QED
    BY <1>7, <2>1
<1> HIDE DEF w5
<1>9. /\ j + 1 + n + 1 + v + 1 = j + n + v + 3 /\ j + 1 + n + 1 = j + n + 2
  BY <1>2
<1>10. ASSUME NEW k \in 1 .. j PROVE w5[k] = pre[k]
  <2>1. k \in 1 .. j + 1 /\ k \in 1 .. j + 1 + n /\ k \in 1 .. j + 1 + n + 1
        /\ k \in 1 .. j + 1 + n + 1 + v
    BY <1>2
  <2>2. QED
    BY <1>4, <1>5, <1>6, <1>7, <1>8, <2>1
<1>11. w5[j + 1] = "@"
  <2>1. j + 1 \in 1 .. j + 1 /\ j + 1 \in 1 .. j + 1 + n /\ j + 1 \in 1 .. j + 1 + n + 1
        /\ j + 1 \in 1 .. j + 1 + n + 1 + v
    BY <1>2
  <2>2. QED
    BY <1>4, <1>5, <1>6, <1>7, <1>8, <2>1
<1>12. ASSUME NEW k \in 1 .. n PROVE w5[j + 1 + k] = name[k]
  <2>1. j + 1 + k \in 1 .. j + 1 + n /\ j + 1 + k \in 1 .. j + 1 + n + 1
        /\ j + 1 + k \in 1 .. j + 1 + n + 1 + v
    BY <1>2
  <2>2. QED
    BY <1>5, <1>6, <1>7, <1>8, <2>1
<1>13. w5[j + n + 2] = "("
  <2>1. j + 1 + n + 1 \in 1 .. j + 1 + n + 1 /\ j + 1 + n + 1 \in 1 .. j + 1 + n + 1 + v
    BY <1>2
  <2>2. QED
    BY <1>6, <1>7, <1>8, <1>9, <2>1
<1>14. ASSUME NEW k \in 1 .. v PROVE w5[j + n + 2 + k] = value[k]
  <2>1. j + 1 + n + 1 + k \in 1 .. j + 1 + n + 1 + v /\ j + 1 + n + 1 + k = j + n + 2 + k
    BY <1>2
  <2>2. QED
    BY <1>7, <1>8, <2>1
<1>15. QED
  BY <1>8, <1>9, <1>10, <1>11, <1>12, <1>13, <1>14 DEF Written, w1, w2, w3, w4, w5

\* m is l with the bytes w in front of p.
Inserted(l, m, p, w) ==
  /\ m \in Seq(Bytes) /\ Len(m) = Len(l) + Len(w)
  /\ \A k \in 1 .. p - 1 : m[k] = l[k]
  /\ \A k \in 1 .. Len(w) : m[(p - 1) + k] = w[k]
  /\ \A k \in p .. Len(l) : m[k + Len(w)] = l[k]

\* PatchDirective inserts when it replaces nothing.
LEMMA SplicedIsInserted ==
  ASSUME NEW l \in Seq(Bytes), NEW w \in Seq(Bytes), NEW p \in 1 .. Len(l) + 1
  PROVE  Inserted(l, Spliced(l, p, p, w), p, w)
<1>1. p \in p .. Len(l) + 1 /\ Len(w) - (p - p) = Len(w)
  OBVIOUS
<1>2. Replaced(l, Spliced(l, p, p, w), p, p, w, Len(w) - (p - p))
  BY <1>1, SplicedIs
<1>3. Replaced(l, Spliced(l, p, p, w), p, p, w, Len(w))
  BY <1>1, <1>2
<1>4. QED
  BY <1>3 DEF Replaced, Inserted

\* m has a directive from a to e, behind the bytes pre.
Laid(m, pre, name, value, p, a, o, e) ==
  /\ \A k \in 1 .. Len(pre) : m[(p - 1) + k] = pre[k]
  /\ m[a] = "@" /\ m[o] = "(" /\ m[e] = ")"
  /\ \A k \in 1 .. Len(name) : m[a + k] = name[k]
  /\ \A k \in 1 .. Len(value) : m[o + k] = value[k]

\* An inserted directive is one of the new line, byte by byte.
LEMMA InsertedIs ==
  ASSUME NEW l \in Seq(Bytes), NEW p \in Nat, 1 <= p, p <= Len(l) + 1,
         NEW m, NEW w, Inserted(l, m, p, w),
         NEW pre, NEW name, NEW value, NEW j \in Nat, NEW n \in Nat, NEW v \in Nat,
         Written(w, pre, name, value, j, n, v)
  PROVE  /\ Edited(l, m, p, p, j + n + v + 3)
         /\ Laid(m, pre, name, value, p, p + j, p + j + n + 1, p + j + n + v + 2)
<1> DEFINE a == p + j
           o == p + j + n + 1
           e == p + j + n + v + 2
           by == j + n + v + 3
<1>1. j = Len(pre) /\ n = Len(name) /\ v = Len(value)
  BY DEF Written
<1>2. Len(l) \in Nat /\ p \in Nat /\ 1 <= p /\ p <= Len(l) + 1
  OBVIOUS
<1>3. /\ a = p + j /\ o = p + j + n + 1 /\ e = p + j + n + v + 2 /\ by = j + n + v + 3
      /\ a \in Nat /\ o \in Nat /\ e \in Nat /\ by \in Nat
  OBVIOUS
<1> HIDE DEF a, o, e, by
<1>4. /\ Len(w) = by
      /\ \A k \in 1 .. j : w[k] = pre[k]
      /\ w[j + 1] = "@"
      /\ \A k \in 1 .. n : w[j + 1 + k] = name[k]
      /\ w[j + n + 2] = "("
      /\ \A k \in 1 .. v : w[j + n + 2 + k] = value[k]
      /\ w[j + n + v + 3] = ")"
  BY <1>3 DEF Written
<1>5. /\ m \in Seq(Bytes) /\ Len(m) = Len(l) + by
      /\ \A k \in 1 .. p - 1 : m[k] = l[k]
      /\ \A k \in 1 .. by : m[(p - 1) + k] = w[k]
      /\ \A k \in p .. Len(l) : m[k + by] = l[k]
  BY <1>4 DEF Inserted
<1>6. p <= p + by
  BY <1>2, <1>3
<1>7. Edited(l, m, p, p, by)
  <2>1. p \in p .. Len(l) + 1
    BY <1>2
  <2>2. QED
    BY <1>5, <1>6, <2>1 DEF Edited
<1>8. ASSUME NEW k \in 1 .. j PROVE m[(p - 1) + k] = pre[k]
  <2>1. k \in 1 .. by
    BY <1>2, <1>3
  <2>2. QED
    BY <1>4, <1>5, <2>1
<1>9. m[a] = "@"
  <2>1. j + 1 \in 1 .. by /\ (p - 1) + (j + 1) = a
    BY <1>2, <1>3
  <2>2. m[(p - 1) + (j + 1)] = w[j + 1]
    BY <1>5, <2>1
  <2>3. QED
    BY <1>4, <2>1, <2>2
<1>10. m[o] = "("
  <2>1. j + n + 2 \in 1 .. by /\ (p - 1) + (j + n + 2) = o
    BY <1>2, <1>3
  <2>2. m[(p - 1) + (j + n + 2)] = w[j + n + 2]
    BY <1>5, <2>1
  <2>3. QED
    BY <1>4, <2>1, <2>2
<1>11. m[e] = ")"
  <2>1. j + n + v + 3 \in 1 .. by /\ (p - 1) + (j + n + v + 3) = e
    BY <1>2, <1>3
  <2>2. m[(p - 1) + (j + n + v + 3)] = w[j + n + v + 3]
    BY <1>5, <2>1
  <2>3. QED
    BY <1>4, <2>1, <2>2
<1>12. ASSUME NEW k \in 1 .. n PROVE m[a + k] = name[k]
  <2>1. j + 1 + k \in 1 .. by /\ (p - 1) + (j + 1 + k) = a + k
    BY <1>2, <1>3
  <2>2. m[(p - 1) + (j + 1 + k)] = w[j + 1 + k]
    BY <1>5, <2>1
  <2>3. QED
    BY <1>4, <2>1, <2>2
<1>13. ASSUME NEW k \in 1 .. v PROVE m[o + k] = value[k]
  <2>1. j + n + 2 + k \in 1 .. by /\ (p - 1) + (j + n + 2 + k) = o + k
    BY <1>2, <1>3
  <2>2. m[(p - 1) + (j + n + 2 + k)] = w[j + n + 2 + k]
    BY <1>5, <2>1
  <2>3. QED
    BY <1>4, <2>1, <2>2
<1>14. Laid(m, pre, name, value, p, a, o, e)
  BY <1>1, <1>8, <1>9, <1>10, <1>11, <1>12, <1>13 DEF Laid
<1>15. QED
  BY <1>7, <1>14 DEF a, o, e, by

\* Inserting a directive behind the content puts it there, unless a directive that was
\* never closed would run into it: no name in front reaches over the blank.
LEMMA InsertedPuts ==
  ASSUME NEW l \in Seq(Bytes), IsLine(l), NEW S, Leftmost(l, S), NEW name \in Names,
         \A x \in S : NameOf(l, x) # name, \A s \in DOMAIN l : ~Dangles(l, s),
         NEW value \in Seq(Bytes), \A k \in 1 .. Len(value) : value[k] # ")" /\ value[k] # "\n",
         NEW p \in Nat, 1 <= p, p <= Len(l) + 1, \A k \in p .. Len(l) : l[k] # ")",
         1 <= Len(l) /\ l[Len(l)] = "\n" => p <= Len(l),
         NEW pre \in Seq(Bytes),
         p > 1 => Len(pre) = 1 /\ pre[1] = Space, ~ (p > 1) => Len(pre) = 0
  PROVE  Puts(l, Spliced(l, p, p, pre \o <<"@">> \o name \o <<"(">> \o value \o <<")">>),
              S, name, value)
<1> DEFINE w == pre \o <<"@">> \o name \o <<"(">> \o value \o <<")">>
           m == Spliced(l, p, p, w)
           j == Len(pre)
           n == Len(name)
           v == Len(value)
           a == p + j
           o == p + j + n + 1
           e == p + j + n + v + 2
           by == j + n + v + 3
           y == [start |-> a, open |-> o, close |-> e]
<1>1. /\ name \in Seq(Bytes) /\ 1 <= n /\ name[1] \in Lower
      /\ \A k \in 1 .. n : name[k] \in NameCont
  BY NameIs
<1>2. Written(w, pre, name, value, j, n, v)
  BY <1>1, WrittenIs
<1>3. j \in Nat /\ n \in Nat /\ v \in Nat /\ Len(l) \in Nat
  BY <1>1
<1>4. Inserted(l, m, p, w)
  <2>1. w \in Seq(Bytes) /\ p \in 1 .. Len(l) + 1
    BY <1>2, <1>3 DEF Written
  <2> HIDE DEF w
  <2>2. QED
    BY <2>1, SplicedIsInserted
<1>5. (p > 1 => j = 1 /\ pre[1] = Space) /\ (~ (p > 1) => j = 0)
  OBVIOUS
<1>6. n = Len(name) /\ v = Len(value) /\ j = Len(pre)
  OBVIOUS
<1> HIDE DEF w, m, j, n, v
<1>7. /\ a \in Nat /\ o \in Nat /\ e \in Nat /\ by \in Nat
      /\ a = p + j /\ o = a + n + 1 /\ e = o + v + 1 /\ by = j + n + v + 3 /\ e + 1 = p + by
      /\ y.start = a /\ y.open = o /\ y.close = e
  BY <1>3
<1>8. y \in Spans
  BY <1>7 DEF Spans
<1>9. NameOf(m, y) = Between(m, a, o) /\ ValueOf(m, y) = Between(m, o, e)
  BY <1>7 DEF NameOf, ValueOf, Between
<1>10. Edited(l, m, p, p, by) /\ Laid(m, pre, name, value, p, a, o, e)
  BY <1>2, <1>3, <1>4, InsertedIs
<1> HIDE DEF a, o, e, by, y
<1> USE <1>3, <1>7
<1>11. /\ m[a] = "@" /\ m[o] = "(" /\ m[e] = ")"
       /\ \A k \in 1 .. j : m[(p - 1) + k] = pre[k]
       /\ \A k \in 1 .. n : m[a + k] = name[k]
       /\ \A k \in 1 .. v : m[o + k] = value[k]
  BY <1>6, <1>10 DEF Laid
<1>12. /\ m \in Seq(Bytes) /\ Len(m) = Len(l) + by /\ Len(m) \in Nat
       /\ \A k \in 1 .. p - 1 : m[k] = l[k]
  BY <1>10 DEF Edited
<1>13. e <= Len(m) /\ o < e /\ a + 1 < o /\ 1 <= a /\ p <= a /\ p <= e
  BY <1>1, <1>12
<1>14. Directive(m, a, o, e)
  <2>1. m[a + 1] \in Lower
    <3>1. 1 \in 1 .. n
      BY <1>1
    <3>2. m[a + 1] = name[1]
      BY <1>11, <3>1
    <3>3. QED
      BY <1>1, <3>2
  <2>2. \A k \in a + 1 .. o - 1 : m[k] \in NameCont
    <3>1. TAKE k \in a + 1 .. o - 1
    <3>2. k - a \in 1 .. n /\ a + (k - a) = k
      OBVIOUS
    <3>3. m[a + (k - a)] = name[k - a]
      BY <1>11, <3>2
    <3>4. QED
      BY <1>1, <3>2, <3>3
  <2>3. \A k \in o + 1 .. e - 1 : m[k] # ")"
    <3>1. TAKE k \in o + 1 .. e - 1
    <3>2. k - o \in 1 .. v /\ o + (k - o) = k
      OBVIOUS
    <3>3. m[o + (k - o)] = value[k - o] /\ value[k - o] # ")"
      BY <1>6, <1>11, <3>2
    <3>4. QED
      BY <3>2, <3>3
  <2>4. QED
    BY <1>11, <1>13, <2>1, <2>2, <2>3 DEF Directive
<1>15. NameOf(m, y) = name
  <2>1. a + n <= Len(m) /\ a + n = o - 1
    BY <1>13
  <2>2. SubSeq(m, a + 1, a + n) = name
    BY <1>1, <1>6, <1>11, <1>12, <2>1, PartIs
  <2>3. QED
    BY <1>9, <2>1, <2>2 DEF Between
<1>16. ValueOf(m, y) = value
  <2>1. o + v <= Len(m) /\ o + v = e - 1
    BY <1>13
  <2>2. SubSeq(m, o + 1, o + v) = value
    BY <1>6, <1>11, <1>12, <2>1, PartIs
  <2>3. QED
    BY <1>9, <2>1, <2>2 DEF Between
\* In front of the new directive stands a blank, or nothing.
<1>17. p > 1 => m[p] = Space /\ a = p + 1
  <2>1. p > 1 => 1 \in 1 .. j /\ (p - 1) + 1 = p /\ a = p + 1
    BY <1>5
  <2>2. QED
    BY <1>5, <1>11, <2>1
<1>18. ~ (p > 1) => a = p
  BY <1>5
<1>19. "\n" \notin NameCont /\ Space \notin NameCont /\ Space # "(" /\ "\n" # Space /\ "@" # Space
  BY SpecialAreApart DEF Space
<1>20. ASSUME NEW s \in 1 .. Len(m), NEW b \in 1 .. Len(m), NEW f \in 1 .. Len(m),
              Directive(m, s, b, f), s < p
       PROVE  \E g \in 1 .. Len(l) : Directive(l, s, b, g)
  <2>1. s \in Nat /\ b \in Nat /\ f \in Nat /\ p > 1
    BY <1>12, <1>20
  <2>2. m[p] \notin NameCont /\ m[p] # "("
    BY <1>17, <1>19, <2>1
  <2>3. b < p
    BY <1>12, <1>20, <2>1, <2>2, NameIsInFront
  <2>4. Begins(l, s, b)
    BY <1>12, <1>20, <2>1, <2>3, SameFront
  <2>5. s \in DOMAIN l /\ b <= Len(l)
    BY <1>20, <2>1, <2>3
  <2>6. QED
    BY <2>1, <2>4, <2>5, BeginsEnds
<1>21. ASSUME NEW x \in S PROVE x.close < p
  <2>1. Directive(l, x.start, x.open, x.close) /\ x.close \in Nat
    BY SpanParts DEF Leftmost
  <2>2. l[x.close] = ")" /\ x.close <= Len(l)
    BY <2>1 DEF Directive
  <2>3. ~ (x.close \in p .. Len(l))
    BY <2>2
  <2>4. QED
    BY <2>1, <2>2, <2>3
<1>22. Fits(l, m, p, p, by, S, NamedIn(l, S, name), y)
  <2> DEFINE R == NamedIn(l, S, name)
  <2>1. R = {}
    BY DEF NamedIn
  <2>2. Directive(m, y.start, y.open, y.close) /\ p <= y.start /\ y.close < p + by
    <3>1. e < p + by
      OBVIOUS
    <3>2. QED
      BY <1>13, <1>14, <3>1
  <2>3. \A s \in p .. p + by - 1 : m[s] = "@" => y.start <= s /\ s <= y.close
    <3>1. SUFFICES ASSUME NEW s \in p .. p + by - 1, m[s] = "@" PROVE a <= s /\ s <= e
      OBVIOUS
    <3>2. p > 1 => s # p
      BY <1>17, <1>19, <3>1
    <3>3. s <= e
      OBVIOUS
    <3>4. QED
      BY <1>17, <1>18, <3>2, <3>3
  <2> HIDE DEF R
  <2>4. Fits(l, m, p, p, by, S, R, y)
    BY <1>8, <1>20, <1>21, <2>1, <2>2, <2>3 DEF Fits
  <2>5. QED
    BY <2>4 DEF R
<1>23. IsLine(m)
  <2>1. \A k \in p .. p + by - 1 : m[k] # "\n"
    <3>1. TAKE k \in p .. p + by - 1
    <3>2. k <= e /\ p <= k
      OBVIOUS
    <3>3. CASE k < a
      <4>1. p > 1
        BY <1>18, <3>2, <3>3
      <4>2. a = p + 1
        BY <1>17, <4>1
      <4>3. k = p
        BY <3>2, <3>3, <4>2
      <4>4. QED
        BY <1>17, <1>19, <4>1, <4>3
    <3>4. CASE a < k /\ k < o
      <4>1. k - a \in 1 .. n /\ a + (k - a) = k
        BY <3>4
      <4>2. m[a + (k - a)] = name[k - a] /\ name[k - a] \in NameCont
        BY <1>1, <1>11, <4>1
      <4>3. QED
        BY <1>19, <4>1, <4>2
    <3>5. CASE o < k /\ k < e
      <4>1. k - o \in 1 .. v /\ o + (k - o) = k
        BY <3>5
      <4>2. m[o + (k - o)] = value[k - o] /\ value[k - o] # "\n"
        BY <1>6, <1>11, <4>1
      <4>3. QED
        BY <4>1, <4>2
    <3>6. CASE k = a \/ k = o \/ k = e
      BY <1>11, <3>6
    <3>7. QED
      BY <3>2, <3>3, <3>4, <3>5, <3>6
  <2>2. QED
    BY <1>10, <2>1, EditedLine
<1>24. Puts(l, m, S, name, value)
  BY <1>8, <1>10, <1>15, <1>16, <1>22, <1>23 DEF Puts
<1>25. QED
  BY <1>24 DEF m, w

-----------------------------------------------------------------------------
(* What the index reads after a stamp *)

\* What the index has of the text of a line, it has of the line.
LEMMA TextReads ==
  ASSUME NEW m \in Seq(Bytes), IsLine(m), NEW T, Leftmost(m, T),
         NEW after, Lexed(Text(m), after)
  PROVE  Reads(m, T, Indexed(Text(m), after))
<1> DEFINE t == Text(m)
           J == Indexed(t, after)
<1>1. t \in Seq(Bytes)
  BY TextIs
<1>2. Leftmost(t, T)
  BY TextSpans
<1>3. \A x \in T : NameOf(t, x) = NameOf(m, x) /\ ValueOf(t, x) = ValueOf(m, x)
  BY TextSpans
<1>4. Lexed(t, after) /\ Leftmost(t, SpanSet(after))
  BY DEF Lexed
<1> HIDE DEF t
<1>5. SpanSet(after) = T
  <2>1. SpanSet(after) \subseteq T
    BY <1>1, <1>2, <1>4, OneLeftmost
  <2>2. T \subseteq SpanSet(after)
    BY <1>1, <1>2, <1>4, OneLeftmost
  <2>3. QED
    BY <2>1, <2>2
<1>6. Reads(t, T, J)
  BY <1>1, <1>4, <1>5, IndexedReads
<1> HIDE DEF J
<1>7. \A x : LastNamed(m, T, x) => LastNamed(t, T, x)
  BY <1>3 DEF LastNamed
<1>8. \A x : LastNamed(t, T, x) => LastNamed(m, T, x)
  BY <1>3 DEF LastNamed
<1>9. DOMAIN J = {NameOf(m, x) : x \in T}
  BY <1>3, <1>6 DEF Reads
<1>10. J = [n \in DOMAIN J |-> J[n]]
  BY <1>6 DEF Reads
<1>11. ASSUME NEW n \in DOMAIN J
       PROVE  \E x \in T : LastNamed(m, T, x) /\ NameOf(m, x) = n
  <2>1. PICK x \in T : LastNamed(t, T, x) /\ NameOf(t, x) = n
    BY <1>6, <1>11 DEF Reads
  <2>2. QED
    BY <1>3, <1>8, <2>1
<1>12. ASSUME NEW x, LastNamed(m, T, x) PROVE J[NameOf(m, x)] = ValueOf(m, x)
  <2>1. x \in T
    BY <1>12 DEF LastNamed
  <2>2. J[NameOf(t, x)] = ValueOf(t, x)
    BY <1>6, <1>7, <1>12 DEF Reads
  <2>3. QED
    BY <1>3, <2>1, <2>2
<1>13. Reads(m, T, J)
  BY <1>9, <1>10, <1>11, <1>12 DEF Reads
<1>14. QED
  BY <1>13 DEF J, t

\* What a stamp put on the line is what the index has of the line's text.
LEMMA EditIsRead ==
  ASSUME NEW l \in Seq(Bytes), NEW found, Lexed(l, found), NEW m, NEW name, NEW value,
         Puts(l, m, SpanSet(found), name, value),
         NEW after, Lexed(Text(m), after)
  PROVE  Indexed(Text(m), after) = WithValue(Indexed(l, found), name, value)
<1> DEFINE S == SpanSet(found)
           I == Indexed(l, found)
           J == Indexed(Text(m), after)
<1>1. PICK from \in Nat, to \in Nat, by \in Int, y \in Spans :
        /\ Edited(l, m, from, to, by)
        /\ Fits(l, m, from, to, by, S, NamedIn(l, S, name), y)
        /\ NameOf(m, y) = name /\ ValueOf(m, y) = value
  BY DEF Puts
<1> DEFINE T == EditedSpans(S, NamedIn(l, S, name), y, from, by)
<1>2. m \in Seq(Bytes) /\ IsLine(m) /\ Leftmost(l, S)
  BY <1>1 DEF Edited, Lexed, Puts
<1>3. Leftmost(m, T)
  BY <1>1, <1>2, EditedLeftmost
<1>4. Reads(m, T, J)
  BY <1>2, <1>3, TextReads
<1>5. Reads(l, S, I)
  BY IndexedReads
<1> HIDE DEF I, J, S
<1>6. J = WithValue(I, name, ValueOf(m, y))
  BY <1>1, <1>2, <1>4, <1>5, EditedReads
<1>7. QED
  BY <1>1, <1>6 DEF I, J

\* A stamp that can be read puts its directive on the line, and changes nothing else.
LEMMA PatchedPuts ==
  ASSUME NEW l \in Seq(Bytes), IsLine(l), NEW found, Lexed(l, found),
         NEW name \in Names, NEW value \in Seq(Bytes), ~Unreadable(l, found, name, value)
  PROVE  Puts(l, PatchDirective(l, found, name, value), SpanSet(found), name, value)
<1> DEFINE named == {k \in DOMAIN found : NameOf(l, found[k]) = name}
           chosen == CHOOSE k \in named : \A n \in named : k <= n
           p == InsertionPoint(l)
           pre == IF p > 1 THEN <<Space>> ELSE <<>>
           S == SpanSet(found)
<1>1. Leftmost(l, S) /\ found \in Seq(Spans)
  BY DEF Lexed
<1>2. \A k \in 1 .. Len(value) : value[k] # ")" /\ value[k] # "\n"
  BY DEF Unreadable
<1>3. \A k, n \in named : k = n
  BY DEF Unreadable
<1>4. CASE named # {}
  <2>1. PICK k \in named : TRUE
    BY <1>4
  <2>2. k <= k
    <3>1. DOMAIN found = 1 .. Len(found)
      BY <1>1
    <3>2. QED
      BY <2>1, <3>1
  <2>3. chosen = k
    BY <1>3, <2>1, <2>2
  <2> DEFINE z == found[k]
  <2>4. PatchDirective(l, found, name, value) = Spliced(l, z.open + 1, z.close, value)
    BY <1>4, <2>3 DEF PatchDirective
  <2>5. z \in S /\ NameOf(l, z) = name
    BY <2>1 DEF SpanSet
  <2>6. \A x \in S : NameOf(l, x) = NameOf(l, z) => x = z
    <3>1. SUFFICES ASSUME NEW x \in S, NameOf(l, x) = NameOf(l, z) PROVE x = z
      OBVIOUS
    <3>2. PICK n \in DOMAIN found : x = found[n]
      BY DEF SpanSet
    <3>3. n \in named
      BY <2>5, <3>1, <3>2
    <3>4. QED
      BY <1>3, <2>1, <3>2, <3>3
  <2> HIDE DEF z, S
  <2>7. Puts(l, Spliced(l, z.open + 1, z.close, value), S, NameOf(l, z), value)
    BY <1>1, <1>2, <2>5, <2>6, ReplacedPuts
  <2>8. QED
    BY <2>4, <2>5, <2>7 DEF S
<1>5. CASE named = {}
  <2>1. PatchDirective(l, found, name, value)
          = Spliced(l, p, p, pre \o <<"@">> \o name \o <<"(">> \o value \o <<")">>)
    BY <1>5 DEF PatchDirective
  <2>2. \A s \in DOMAIN l : ~Dangles(l, s)
    BY <1>5 DEF Unreadable
  <2>3. \A x \in S : NameOf(l, x) # name
    BY <1>5 DEF SpanSet
  <2>4. /\ pre \in Seq(Bytes)
        /\ p > 1 => Len(pre) = 1 /\ pre[1] = Space
        /\ ~ (p > 1) => Len(pre) = 0
    <3>1. Space \in Bytes
      BY SpecialBytes
    <3> HIDE DEF p
    <3>2. QED
      BY <3>1
  <2>5. /\ p \in Nat /\ 1 <= p /\ p <= Len(l) + 1
        /\ \A k \in p .. Len(l) : l[k] # ")"
        /\ 1 <= Len(l) /\ l[Len(l)] = "\n" => p <= Len(l)
    <3>1. /\ p \in 1 .. Len(l) + 1
          /\ \A k \in p .. Len(l) : l[k] \in Blanks \union {"\r", "\n"}
          /\ 1 <= Len(l) /\ l[Len(l)] = "\n" => p <= Len(l)
      BY BehindContent
    <3>2. ")" \notin Blanks \union {"\r", "\n"}
      BY DEF Blanks, Space
    <3> HIDE DEF p
    <3>3. QED
      BY <3>1, <3>2
  <2> HIDE DEF p, pre, S
  <2>6. Puts(l, Spliced(l, p, p, pre \o <<"@">> \o name \o <<"(">> \o value \o <<")">>),
             S, name, value)
    BY <1>1, <1>2, <2>2, <2>3, <2>4, <2>5, InsertedPuts
  <2>7. QED
    BY <2>1, <2>6 DEF S
<1>6. QED
  BY <1>4, <1>5

\* A checked box is no byte of a name, and of no value without a box.
LEMMA CheckIsRead ==
  ASSUME NEW l \in Seq(Bytes), IsLine(l), NEW found, Lexed(l, found),
         \A k \in DOMAIN found : \A b \in DOMAIN ValueOf(l, found[k]) :
           ValueOf(l, found[k])[b] # "box",
         NEW after, Lexed(Text(PatchCheckbox(l)), after)
  PROVE  Indexed(Text(PatchCheckbox(l)), after) = Indexed(l, found)
<1> DEFINE m == PatchCheckbox(l)
           S == SpanSet(found)
           I == Indexed(l, found)
           J == Indexed(Text(m), after)
<1>1. /\ m \in Seq(Bytes) /\ Len(m) = Len(l)
      /\ \A k \in 1 .. Len(l) : m[k] = l[k] \/ (l[k] = "box" /\ m[k] = "done")
  BY CheckedIs
<1>2. Leftmost(l, S)
  BY DEF Lexed
<1>3. /\ Leftmost(m, S)
      /\ \A x \in S : /\ NameOf(m, x) = NameOf(l, x)
                      /\ \/ ValueOf(m, x) = ValueOf(l, x)
                         \/ \E k \in x.open + 1 .. x.close - 1 : l[k] = "box"
  BY <1>2, CheckSpans
<1> HIDE DEF m
<1>4. IsLine(m)
  <2>1. DOMAIN m = 1 .. Len(l) /\ DOMAIN l = 1 .. Len(l)
    BY <1>1
  <2>2. \A k \in DOMAIN m : m[k] = "\n" => l[k] = "\n"
    BY <1>1, <2>1
  <2>3. QED
    BY <1>1, <2>1, <2>2 DEF IsLine
<1>5. ASSUME NEW x \in S PROVE ValueOf(m, x) = ValueOf(l, x)
  <2>1. PICK n \in DOMAIN found : x = found[n]
    BY DEF SpanSet
  <2> DEFINE c == x.open + 1
             d == x.close - 1
             v == ValueOf(l, x)
  <2>2. x \in Spans /\ Directive(l, x.start, x.open, x.close)
    BY <1>2 DEF Leftmost
  <2>3. /\ c \in Int /\ d \in Int /\ 1 <= c /\ d <= Len(l) /\ Len(l) \in Nat
        /\ v = SubSeq(l, c, d)
    BY <2>2, SpanParts DEF Directive, ValueOf
  <2> HIDE DEF c, d, v
  <2>4. \A k \in c .. d : l[k] \in Bytes
    BY <2>3
  <2>5. /\ v \in Seq(Bytes) /\ Len(v) = IF c <= d THEN d - c + 1 ELSE 0
        /\ \A k \in 1 .. d - c + 1 : v[k] = l[c + k - 1]
    BY <2>3, <2>4, SubSeqProperties
  <2>6. \A b \in DOMAIN v : v[b] # "box"
    BY <2>1 DEF v
  <2>7. ASSUME NEW k \in c .. d PROVE l[k] # "box"
    <3>1. k - c + 1 \in 1 .. d - c + 1 /\ c + (k - c + 1) - 1 = k /\ c <= d
      BY <2>3
    <3>2. v[k - c + 1] = l[c + (k - c + 1) - 1]
      BY <2>5, <3>1
    <3>3. k - c + 1 \in DOMAIN v
      BY <2>5, <3>1
    <3>4. QED
      BY <2>6, <3>1, <3>2, <3>3
  <2>8. QED
    BY <1>3, <2>7 DEF c, d
<1>6. Reads(m, S, J)
  BY <1>1, <1>3, <1>4, TextReads DEF m
<1>7. Reads(l, S, I)
  BY IndexedReads
<1> HIDE DEF I, J, S
<1>8. J = I
  BY <1>3, <1>5, <1>6, <1>7, SameReads
<1>9. QED
  BY <1>8 DEF I, J, m

-----------------------------------------------------------------------------
(* Stamps and reads of the line *)

\* What a stamp made of the line it saw.
Patched(s) ==
  IF s.request = Check THEN PatchCheckbox(s.input)
  ELSE PatchDirective(s.input, s.spans, s.request.name, s.request.value)

\* Whoever lexes, lexes the line that is in the vault, and the line is the one the latest
\* stamp has left there.
ReadInv ==
  /\ LexInv
  /\ IsLine(line)
  /\ job \in Requests => input = line
  /\ job = Read => input = Text(line)
  /\ stamped # None => /\ IsLine(stamped.input) /\ Lexed(stamped.input, stamped.spans)
                       /\ line = FirstLine(Patched(stamped))
  /\ seen # None => seen.input = Text(line) /\ Lexed(seen.input, seen.spans)

\* A read is no stamp, and nothing is neither.
LEMMA JobsAreApart ==
  /\ None \notin Requests /\ None # Read /\ Read \notin Requests
<1>1. None \notin Requests /\ None # Read
  BY GrammarAssumption
<1>2. Read \notin Requests
  <2>1. Read # Check
    BY DEF Read, Check
  <2>2. Read \notin [name : Names, value : Seq(Bytes)]
    BY DEF Read
  <2>3. QED
    BY <2>1, <2>2, GrammarAssumption
<1>3. QED
  BY <1>1, <1>2

\* A stamp makes a line of bytes.
LEMMA PatchedIsBytes ==
  ASSUME LexInv, job \in Requests
  PROVE  Patched([request |-> job, input |-> input, spans |-> spans]) \in Seq(Bytes)
<1>1. input \in Seq(Bytes) /\ Within(input, spans)
  BY DEF LexInv, TypeOK, SpansAreLeftmost, Within
<1>2. job # Check => job.name \in Seq(Bytes) /\ job.value \in Seq(Bytes)
  BY GrammarAssumption, NameIs
<1>3. CASE job = Check
  BY <1>1, <1>3, LineTypes DEF Patched
<1>4. CASE job # Check
  <2>1. PatchDirective(input, spans, job.name, job.value) \in Seq(Bytes)
    BY <1>1, <1>2, <1>4, PatchedType
  <2>2. QED
    BY <1>4, <2>1 DEF Patched
<1>5. QED
  BY <1>3, <1>4

\* Every stamp starts on one line and leaves one; every read sees the line as it is.
LEMMA ReadInvInductive == Spec => []ReadInv
<1>1. Init => ReadInv
  <2> SUFFICES ASSUME Init PROVE ReadInv
    OBVIOUS
  <2>1. line \in Lines /\ job = None /\ stamped = None /\ seen = None
    BY DEF Init
  <2>2. IsLine(line)
    BY <2>1, GrammarAssumption
  <2>3. LexInv
    BY LexInvInit
  <2>4. QED
    BY <2>1, <2>2, <2>3, JobsAreApart DEF ReadInv
<1>2. ReadInv /\ [Next]_vars => ReadInv'
  <2> SUFFICES ASSUME ReadInv, [Next]_vars PROVE ReadInv'
    OBVIOUS
  <2>0. LexInv /\ LexInv'
    BY LexInvStep DEF ReadInv
  <2>1. CASE Skip
    BY <2>0, <2>1 DEF Skip, ReadInv
  <2>2. CASE Take
    BY <2>0, <2>2 DEF Take, ReadInv
  <2>3. ASSUME NEW r \in Requests, StartStamp(r) PROVE ReadInv'
    <3>1. r # Read
      BY JobsAreApart
    <3>2. QED
      BY <2>0, <2>3, <3>1 DEF StartStamp, ReadInv
  <2>4. CASE Stamp
    <3> DEFINE s == [request |-> job, input |-> input, spans |-> spans]
    <3>1. /\ job \in Requests /\ i > Len(input)
          /\ line' = FirstLine(Patched(s)) /\ stamped' = s /\ seen' = None /\ job' = None
      BY <2>4 DEF Stamp, Patched
    <3>2. IsLine(line')
      <4>1. Patched(s) \in Seq(Bytes)
        BY <2>0, <3>1, PatchedIsBytes
      <4> HIDE DEF s
      <4>2. QED
        BY <3>1, <4>1, FirstLineIs
    <3>3. Lexed(input, spans)
      BY <2>0, <3>1, LexEnds
    <3>4. input = line /\ IsLine(line)
      BY <3>1 DEF ReadInv
    <3>5. s.input = input /\ s.spans = spans
      OBVIOUS
    <3> HIDE DEF s
    <3>6. QED
      BY <2>0, <3>1, <3>2, <3>3, <3>4, <3>5, JobsAreApart DEF ReadInv
  <2>5. CASE StartRead
    BY <2>0, <2>5, JobsAreApart DEF StartRead, ReadInv
  <2>6. CASE EndRead
    <3>1. /\ job = Read /\ i > Len(input)
          /\ seen'.input = input /\ seen'.spans = spans /\ job' = None
          /\ UNCHANGED <<line, stamped, input>>
      BY <2>6 DEF EndRead
    <3>2. Lexed(input, spans)
      BY <2>0, <3>1, LexEnds
    <3>3. input = Text(line)
      BY <3>1 DEF ReadInv
    <3>4. QED
      BY <2>0, <3>1, <3>2, <3>3, JobsAreApart DEF ReadInv
  <2>7. CASE UNCHANGED vars
    BY <2>0, <2>7 DEF vars, ReadInv
  <2>8. QED
    BY <2>1, <2>2, <2>3, <2>4, <2>5, <2>6, <2>7 DEF Next
<1>3. QED
  BY <1>1, <1>2, PTL DEF Spec

\* The index reads what the latest stamp wrote.
LEMMA ReadInvImplies == ReadInv => StampIsRead
<1> SUFFICES ASSUME ReadInv, seen # None, stamped # None
    PROVE  LET r == stamped.request
               before == Indexed(stamped.input, stamped.spans)
               after == Indexed(seen.input, seen.spans)
           IN IF r = Check
              THEN \/ after = before
                   \/ \E k \in DOMAIN stamped.spans :
                        "box" \in {ValueOf(stamped.input, stamped.spans[k])[b] :
                                     b \in DOMAIN ValueOf(stamped.input, stamped.spans[k])}
              ELSE \/ after = [n \in DOMAIN before \union {r.name} |->
                                 IF n = r.name THEN r.value ELSE before[n]]
                   \/ Unreadable(stamped.input, stamped.spans, r.name, r.value)
  BY DEF StampIsRead
<1> DEFINE l == stamped.input
           found == stamped.spans
           r == stamped.request
           m == Patched(stamped)
           after == seen.spans
<1>1. l \in Seq(Bytes) /\ r \in Requests
  BY DEF ReadInv, LexInv, TypeOK
<1>2. IsLine(l) /\ Lexed(l, found) /\ line = FirstLine(m)
  BY DEF ReadInv
<1>3. seen.input = Text(line) /\ Lexed(seen.input, after)
  BY DEF ReadInv
<1>4. m = IF r = Check THEN PatchCheckbox(l) ELSE PatchDirective(l, found, r.name, r.value)
  BY DEF Patched
<1>5. r # Check => r.name \in Names /\ r.value \in Seq(Bytes)
  BY <1>1, GrammarAssumption
<1> HIDE DEF l, found, r, m, after
<1>6. CASE r = Check
  <2>1. m = PatchCheckbox(l)
    BY <1>4, <1>6
  <2>2. seen.input = Text(m)
    <3>1. m \in Seq(Bytes)
      BY <1>1, <2>1, LineTypes
    <3>2. QED
      BY <1>2, <1>3, <3>1, FirstLineIs
  <2>3. CASE \A k \in DOMAIN found : \A b \in DOMAIN ValueOf(l, found[k]) :
               ValueOf(l, found[k])[b] # "box"
    <3>1. Indexed(Text(m), after) = Indexed(l, found)
      BY <1>1, <1>2, <1>3, <2>1, <2>2, <2>3, CheckIsRead
    <3>2. QED
      BY <1>6, <2>2, <3>1 DEF l, found, r, after
  <2>4. CASE \E k \in DOMAIN found : \E b \in DOMAIN ValueOf(l, found[k]) :
               ValueOf(l, found[k])[b] = "box"
    BY <1>6, <2>4 DEF l, found, r
  <2>5. QED
    BY <2>3, <2>4
<1>7. CASE r # Check
  <2>1. CASE Unreadable(l, found, r.name, r.value)
    BY <1>7, <2>1 DEF l, found, r
  <2>2. CASE ~Unreadable(l, found, r.name, r.value)
    <3>1. m = PatchDirective(l, found, r.name, r.value)
      BY <1>4, <1>7
    <3>2. Puts(l, m, SpanSet(found), r.name, r.value)
      BY <1>1, <1>2, <1>5, <1>7, <2>2, <3>1, PatchedPuts
    <3>3. seen.input = Text(m)
      <4>1. m \in Seq(Bytes)
        BY <3>2 DEF Puts, Edited
      <4>2. QED
        BY <1>2, <1>3, <4>1, FirstLineIs
    <3>4. Indexed(Text(m), after) = WithValue(Indexed(l, found), r.name, r.value)
      BY <1>1, <1>2, <1>3, <3>2, <3>3, EditIsRead
    <3>5. QED
      BY <1>7, <3>3, <3>4 DEF WithValue, l, found, r, after
  <2>3. QED
    BY <2>1, <2>2
<1>8. QED
  BY <1>6, <1>7

\* Whatever is on a line, the index reads of it what the latest stamp wrote and changes
\* nothing else it had of the line, unless the stamp is one of the unreadable kinds.
THEOREM StampIsAlwaysRead == Spec => []StampIsRead
BY ReadInvInductive, ReadInvImplies, PTL

=============================================================================
