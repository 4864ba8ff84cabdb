------------------------------ MODULE DkimText ------------------------------
(***************************************************************************)
(* The text algorithms of libopendkim, on texts over small alphabets:      *)
(* the canonicalization of a body that arrives in pieces cut anywhere,     *)
(* the choice of the header fields a signature covers, the removal of the  *)
(* signature's own value from its field, and the parsing of tag lists.     *)
(*                                                                         *)
(* "r" is CR, "n" is LF, "s" is a space or a tab.                          *)
(***************************************************************************)
EXTENDS Integers, Sequences, SequencesExt, FiniteSets

CONSTANTS
    Inputs,     \* texts, each with what is done to it
    BufSize,    \* size of the buffer in front of a hash
    TmpSize     \* size of the buffer a header field is relaxed in

VARIABLES
    in,      \* the input: what is asked, and of which text
    canon,   \* the body canonicalization
    fed,     \* how much of the body it has been given
    split    \* history: a piece ended in two spaces and a CR

vars == <<in, canon, fed, split>>

CRLF == <<"r", "n">>

-----------------------------------------------------------------------------
\* dkim_add_canon() for a body, with its length limit or -1.
NewCanon(mode, limit, fix) ==
    [mode |-> mode, fix |-> fix, remain |-> limit, out |-> <<>>, buf |-> <<>>, last |-> "0",
     blankline |-> FALSE, blanks |-> 0, done |-> FALSE]

\* dkim_canon_write(): what goes into the hash, up to the limit.
Write(c, s) ==
    LET n == IF c.remain # -1 /\ c.remain < Len(s) THEN c.remain ELSE Len(s)
    IN  [c EXCEPT !.out = @ \o SubSeq(s, 1, n), !.remain = IF @ = -1 THEN -1 ELSE @ - n]

\* dkim_canon_buffer(): nothing to be written means flush.
Flush(c) == [Write(c, c.buf) EXCEPT !.buf = <<>>]
Buffer(c, s) ==
    LET room == IF Len(c.buf) + Len(s) > BufSize THEN Flush(c) ELSE c
    IN  IF s = <<>> THEN Flush(c)
        ELSE IF Len(s) >= BufSize THEN Write(room, s)
        ELSE [room EXCEPT !.buf = @ \o s]

\* dkim_canon_flushblanks().
FlushBlanks(c) == [FoldLeft(LAMBDA acc, i : Buffer(acc, CRLF), c, [i \in 1..c.blanks |-> i]) EXCEPT !.blanks = 0]

\* dkim_canon_fixcrlf(): CR and LF that stand alone become CRLF; a CR that
\* ends the piece is left.
FixCRLF(c, s) ==
    LET prev(i) == IF i = 1 THEN c.last ELSE s[i - 1]
        fixed(i) == IF \/ s[i] = "n" /\ prev(i) # "r"
                       \/ s[i] = "r" /\ i < Len(s) /\ s[i + 1] # "n"
                    THEN CRLF ELSE <<s[i]>>
    IN  FlattenSeq([i \in 1..Len(s) |-> fixed(i)])

\* dkim_canon_bodychunk(), one character: a.c is the canonicalization, the
\* text at a.wrote of length a.wlen is still to be written.
LineEnd(a, s, i) ==
    [c |-> [(IF a.c.blankline THEN [a.c EXCEPT !.blanks = @ + 1]
             ELSE Buffer(a.c, IF a.wlen = 1 \/ i = 1 THEN CRLF ELSE SubSeq(s, a.wrote, a.wrote + a.wlen)))
            EXCEPT !.blankline = TRUE],
     wrote |-> i + 1, wlen |-> 0]

\* A CR that ended the last piece and was not followed by LF.
HeldCR(c) ==
    IF c.fix THEN [Buffer(c, CRLF) EXCEPT !.last = "n", !.blankline = TRUE] ELSE Buffer(c, <<"r">>)

Simple(a, ch) ==
    [a EXCEPT !.c = IF ch = "r" THEN @ ELSE [FlushBlanks(@) EXCEPT !.blankline = FALSE], !.wlen = @ + 1]

Relaxed(a, s, i) ==
    LET ch == s[i]
        c == a.c
    IN  CASE c.last = "s" /\ ch \notin {"s", "r"} ->
               [c |-> [Buffer(FlushBlanks(c), <<"s">>) EXCEPT !.blankline = FALSE], wrote |-> i, wlen |-> 1]
          [] c.last # "s" /\ ch = "s" ->
               [c |-> Buffer(FlushBlanks(c), SubSeq(s, a.wrote, a.wrote + a.wlen - 1)), wrote |-> i + 1, wlen |-> 0]
          [] c.last = "s" /\ ch = "s" -> a
          [] OTHER ->
               [a EXCEPT !.wlen = @ + 1,
                         !.c = IF @.blankline /\ (a.wlen + 1 > 1 \/ ch # "r")
                               THEN [FlushBlanks(@) EXCEPT !.blankline = FALSE] ELSE @]

Char(a, s, i) ==
    LET held == i = 1 /\ a.c.last = "r"
        b == IF held THEN [a EXCEPT !.c = HeldCR(@)] ELSE a
        next == IF s[i] = "n" THEN (IF a.c.last = "r" THEN LineEnd(a, s, i) ELSE a)
                ELSE IF a.c.mode = "simple" THEN Simple(b, s[i]) ELSE Relaxed(b, s, i)
    IN  [next EXCEPT !.c.last = s[i]]

\* Mutant: the CR that ends a piece is written with it.
BodyChunkKeepsCR(c, piece) ==
    LET s == IF c.fix THEN FixCRLF(c, piece) ELSE piece
        a == FoldLeft(LAMBDA acc, i : Char(acc, s, i), [c |-> c, wrote |-> 1, wlen |-> 0], [i \in 1..Len(s) |-> i])
    IN  IF c.remain = 0 THEN c ELSE Buffer(a.c, SubSeq(s, a.wrote, a.wrote + a.wlen - 1))

\* A whole piece; a CR at its end is held back.  A canonicalization that has
\* all it wants takes no more.
BodyChunk(c, piece) ==
    LET s == IF c.fix THEN FixCRLF(c, piece) ELSE piece
        a == FoldLeft(LAMBDA acc, i : Char(acc, s, i), [c |-> c, wrote |-> 1, wlen |-> 0], [i \in 1..Len(s) |-> i])
        n == IF a.wlen > 0 /\ s[a.wrote + a.wlen - 1] = "r" THEN a.wlen - 1 ELSE a.wlen
    IN  IF c.remain = 0 THEN c ELSE Buffer(a.c, SubSeq(s, a.wrote, a.wrote + n - 1))

\* dkim_canon_closebody().
CloseBody(c) ==
    [Flush(IF c.mode = "simple" /\ c.out = <<>> THEN Buffer(c, CRLF) ELSE c) EXCEPT !.done = TRUE]

-----------------------------------------------------------------------------
\* dkim_canon_header(), relaxed: a field in lower case up to its colon, its
\* words set one space apart, put together in a small buffer.  "A" is an upper
\* case letter.  h.at is "name", "skip" (in front of the first word) or "value".
IsSpace(ch) == ch \in {"s", "r", "n"}
LowerChar(ch) == IF ch = "A" THEN "a" ELSE ch

Put(h, ch) ==
    IF Len(h.tmp) + 1 = TmpSize - 1 THEN [h EXCEPT !.out = @ \o Append(h.tmp, ch), !.tmp = <<>>]
    ELSE [h EXCEPT !.tmp = Append(@, ch)]

HeaderChar(h, ch) ==
    CASE h.at = "name" -> IF IsSpace(ch) THEN h
                          ELSE [Put(h, LowerChar(ch)) EXCEPT !.at = IF ch = ":" THEN "skip" ELSE "name"]
      [] h.at = "skip" -> IF IsSpace(ch) THEN h ELSE [Put(h, ch) EXCEPT !.at = "value"]
      [] h.at = "value" -> IF IsSpace(ch) THEN [h EXCEPT !.space = TRUE]
                           ELSE [Put(IF h.space THEN Put(h, "s") ELSE h, ch) EXCEPT !.space = FALSE]

\* Mutant: what is left in the buffer is written only if it is full.
CanonHeaderNoFlush(mode, text, crlf) ==
    LET h == FoldLeft(HeaderChar, [at |-> "name", space |-> FALSE, tmp |-> <<>>, out |-> <<>>], text)
    IN  (IF mode = "simple" THEN text ELSE h.out) \o (IF crlf THEN CRLF ELSE <<>>)

CanonHeader(mode, text, crlf) ==
    LET h == FoldLeft(HeaderChar, [at |-> "name", space |-> FALSE, tmp |-> <<>>, out |-> <<>>], text)
    IN  (IF mode = "simple" THEN text ELSE h.out \o h.tmp) \o (IF crlf THEN CRLF ELSE <<>>)

\* dkim_canon_selecthdrs(): for each name of h=, the last field of that name
\* that was not used before; names without a field are passed over.  (A name
\* that is left when every field is used also clears the pointer behind the
\* last of lhdrs, line 559: memory that is not part of this model.)
\* Mutant: the first one.
SelectFirst(fields, names) ==
    LET step(acc, name) ==
            LET free == {i \in 1..Len(fields) : fields[i] = name /\ i \notin Range(acc)}
            IN  IF free = {} THEN acc ELSE Append(acc, CHOOSE i \in free : \A j \in free : i <= j)
    IN  FoldLeft(step, <<>>, names)

SelectHdrs(fields, names) ==
    LET step(acc, name) ==
            LET free == {i \in 1..Len(fields) : fields[i] = name /\ i \notin Range(acc)}
            IN  IF free = {} THEN acc ELSE Append(acc, CHOOSE i \in free : \A j \in free : j <= i)
    IN  FoldLeft(step, <<>>, names)

\* dkim_canon_runheaders(): the signature's field without the value of b=.
\* A tag is told by the character before its "=".
StripB(text) ==
    LET step(a, ch) ==
            LET tag == IF ch = ";" THEN "" ELSE a.tag
                now == IF tag = "" /\ ch = "=" THEN a.last ELSE tag
            IN  [tag |-> now, last |-> ch, out |-> IF tag = "b" THEN a.out ELSE Append(a.out, ch)]
    IN  FoldLeft(step, [tag |-> "", last |-> "0", out |-> <<>>], text).out

-----------------------------------------------------------------------------
\* dkim_process_set(): a tag list, character by character.  "V" is the tag
\* "v" in upper case; "=" and ";" cannot begin a tag.
IsName(ch) == ch \in {"b", "h", "v", "V"}
Lower(s) == [i \in 1..Len(s) |-> IF s[i] = "V" THEN "v" ELSE s[i]]
Collapse(s) == SelectSeq(s, LAMBDA ch : ch # "s")

\* dkim_add_plist(): tags are told apart without regard to case, a later
\* value replaces an earlier one, and the name stays as it was.
AddPlist(plist, p, v) ==
    LET same == {i \in 1..Len(plist) : Lower(plist[i].param) = Lower(p)}
    IN  IF same = {} THEN Append(plist, [param |-> p, value |-> v])
        ELSE [plist EXCEPT ![CHOOSE i \in same : TRUE].value = v]

Parsing == [state |-> 0, param |-> <<>>, value |-> <<>>, spaced |-> FALSE, plist |-> <<>>]
Added(a) == [Parsing EXCEPT !.plist = AddPlist(a.plist, Collapse(a.param), Collapse(a.value))]
Bad(a) == [a EXCEPT !.state = -1]

ParseChar(a, ch) ==
    CASE a.state = -1 -> a
      [] a.state = 0 -> IF ch = "s" THEN a ELSE IF IsName(ch) THEN [a EXCEPT !.state = 1, !.param = <<ch>>] ELSE Bad(a)
      [] a.state = 1 -> IF ch = "s" THEN [a EXCEPT !.spaced = TRUE, !.param = Append(@, ch)]
                        ELSE IF ch = "=" THEN [a EXCEPT !.state = 2, !.spaced = FALSE]
                        ELSE IF ch = ";" \/ a.spaced THEN Bad(a)
                        ELSE [a EXCEPT !.param = Append(@, ch)]
      [] a.state = 2 -> IF ch = "s" THEN a ELSE IF ch = ";" THEN Added(a)
                        ELSE [a EXCEPT !.state = 3, !.value = <<ch>>]
      [] a.state = 3 -> IF ch = ";" THEN Added(a) ELSE [a EXCEPT !.value = Append(@, ch)]

\* Mutant: what is left at the end of the text is not added.
ParseSetNoEnd(text) ==
    LET a == FoldLeft(ParseChar, Parsing, text)
    IN  IF a.state \in {-1, 1} THEN [ok |-> FALSE, plist |-> <<>>] ELSE [ok |-> TRUE, plist |-> a.plist]

\* A name without a value at the end of the text keeps its spaces (line 632).
ParseSet(text) ==
    LET a == FoldLeft(ParseChar, Parsing, text)
    IN  IF a.state \in {-1, 1} THEN [ok |-> FALSE, plist |-> <<>>]
        ELSE [ok |-> TRUE,
              plist |-> CASE a.state = 0 -> a.plist
                          [] a.state = 2 -> AddPlist(a.plist, a.param, <<>>)
                          [] a.state = 3 -> Added(a).plist]

\* dkim_param_get(), which does regard case.
ParamGet(plist, p) ==
    LET same == {i \in 1..Len(plist) : plist[i].param = p}
    IN  IF same = {} THEN <<"none">> ELSE plist[CHOOSE i \in same : TRUE].value

-----------------------------------------------------------------------------
\* A body is given in pieces of any size and closed at the end.
Init ==
    /\ in \in Inputs
    /\ canon = IF in.ask = "body" THEN NewCanon(in.mode, in.limit, in.fix) ELSE NewCanon("simple", -1, FALSE)
    /\ fed = 0
    /\ split = FALSE

\* Spaces that end a line are left in front of a CR that ends the piece.
SplitsLine(piece, last) ==
    LET k == Len(piece)
    IN  k > 1 /\ piece[k] = "r" /\ piece[k - 1] = "s" /\ (IF k > 2 THEN piece[k - 2] ELSE last) = "s"

Feed(n) ==
    /\ in.ask = "body" /\ fed + n <= Len(in.text)
    /\ LET piece == SubSeq(in.text, fed + 1, fed + n)
       IN  /\ canon' = BodyChunk(canon, piece)
           /\ split' = (split \/ SplitsLine(piece, canon.last))
    /\ fed' = fed + n
    /\ UNCHANGED in

Close ==
    /\ in.ask = "body" /\ fed = Len(in.text) /\ ~canon.done
    /\ canon' = CloseBody(canon)
    /\ UNCHANGED <<in, fed, split>>

Next == (\E n \in 1..Len(in.text) : Feed(n)) \/ Close

Spec == Init /\ [][Next]_vars

-----------------------------------------------------------------------------
\* Text whose every CR is followed by LF and every LF preceded by CR, and
\* which is empty or ends so.
WellFormed(b) ==
    /\ \A i \in 1..Len(b) : /\ b[i] = "r" => i < Len(b) /\ b[i + 1] = "n"
                            /\ b[i] = "n" => i > 1 /\ b[i - 1] = "r"
    /\ b = <<>> \/ b[Len(b)] = "n"

\* RFC 4871, 3.4.3 and 3.4.4, on well-formed text.
StripEmptyLines(b) ==
    LET crlfs(m) == \A i \in m + 1..Len(b) : b[i] = IF (i - m) % 2 = 1 THEN "r" ELSE "n"
        m == CHOOSE m \in 0..Len(b) : crlfs(m) /\ (Len(b) - m) % 2 = 0 /\ \A k \in 0..m - 1 : ~(crlfs(k) /\ (Len(b) - k) % 2 = 0)
    IN  SubSeq(b, 1, m)

Squeeze(b) ==
    LET kept == SelectSeq([i \in 1..Len(b) |-> i], LAMBDA i : ~(b[i] = "s" /\ i < Len(b) /\ b[i + 1] \in {"s", "r"}))
    IN  [i \in 1..Len(kept) |-> b[kept[i]]]

Canonical(mode, b) ==
    LET relaxed == StripEmptyLines(Squeeze(b))
    IN  IF mode = "simple" THEN StripEmptyLines(b) \o CRLF
        ELSE IF relaxed = <<>> THEN <<>> ELSE relaxed \o CRLF

Limit(s, n) == IF n = -1 \/ Len(s) <= n THEN s ELSE SubSeq(s, 1, n)

\* The bodies for which the relaxed algorithm differs from the RFC: a line
\* of spaces behind an empty line at the end, and no line but empty ones.
Untidy(b) ==
    \/ b # <<>> /\ StripEmptyLines(Squeeze(b)) = <<>>
    \/ \E i \in 2..Len(b) - 1 :
         /\ b[i] = "n" /\ b[i + 1] = "s" /\ StripEmptyLines(Squeeze(SubSeq(b, i + 1, Len(b)))) = <<>>
         /\ Len(StripEmptyLines(Squeeze(SubSeq(b, 1, i)))) + 2 < Len(Squeeze(SubSeq(b, 1, i)))

\* The body as it is meant: DKIM_LIBFLAGS_FIXCRLF makes CRLF of a lone LF.
Repaired(b) ==
    FlattenSeq([i \in 1..Len(b) |-> IF b[i] = "n" /\ (i = 1 \/ b[i - 1] # "r") THEN CRLF ELSE <<b[i]>>])
Meant == IF in.fix THEN Repaired(in.text) ELSE in.text

\* However a body is cut into calls of dkim_body(), the hash sees the canonical
\* form of the whole: no CR, LF, blank line or space at a cut is lost or
\* doubled, within any length limit and with the buffer filling up anywhere.
\* The one cut that does matter to the relaxed algorithm is in SplitsLine.
CanonicalBody ==
    in.ask = "body" /\ canon.done /\ WellFormed(Meant) /\ ~(in.mode = "relaxed" /\ (split \/ Untidy(Meant))) =>
        canon.out = Limit(Canonical(in.mode, Meant), in.limit)

\* A relay that refolds a header field, changes the white space in it or the
\* case of its name does not change what a relaxed signature covers, and
\* nothing else is lost, wherever the small buffer fills up: the letters are
\* all there, with a space exactly where two words of the value meet.
RefoldingIsHarmless ==
    in.ask = "field" =>
        LET t == in.text
            colon == CHOOSE i \in 1..Len(t) : t[i] = ":" /\ \A j \in 1..i - 1 : t[j] # ":"
            gap(i) == i > colon + 1 /\ ~IsSpace(t[i - 1]) /\ \E j \in i + 1..Len(t) : ~IsSpace(t[j])
            kept == SelectSeq([i \in 1..Len(t) |-> i], LAMBDA i : ~IsSpace(t[i]) \/ gap(i))
            written(i) == IF IsSpace(t[i]) THEN "s" ELSE IF i < colon THEN LowerChar(t[i]) ELSE t[i]
        IN  CanonHeader("relaxed", t, TRUE) = [k \in 1..Len(kept) |-> written(kept[k])] \o CRLF

\* The fields a signature covers: the k-th mention of a name in h= is the
\* k-th field of that name from the bottom, in the order of h=.
FromBottom ==
    in.ask = "select" =>
        LET below(i) == Cardinality({j \in i..Len(in.text) : in.text[j] = in.text[i]})
            nth(k) == Cardinality({j \in 1..k : in.names[j] = in.names[k]})
            field(k) == {i \in 1..Len(in.text) : in.text[i] = in.names[k] /\ below(i) = nth(k)}
            found == SelectSeq([k \in 1..Len(in.names) |-> k], LAMBDA k : field(k) # {})
        IN  SelectHdrs(in.text, in.names) = [n \in 1..Len(found) |-> CHOOSE i \in field(found[n]) : TRUE]

\* A tag list with "gap" around its tags and "inner" in front of every "=".
Written(tags, gap, inner) ==
    FlattenSeq([i \in 1..Len(tags) |->
        gap \o tags[i].param \o inner \o <<"=">> \o tags[i].value \o gap \o <<";">>])

\* The same without what follows the "=" of b=.
WithoutB(tags, gap, inner) ==
    FlattenSeq([i \in 1..Len(tags) |->
        gap \o tags[i].param \o inner \o <<"=">>
            \o (IF tags[i].param = <<"b">> THEN <<>> ELSE tags[i].value \o gap) \o <<";">>])

\* The tags of a list written with spaces or without, the last ";" there or not:
\* what is parsed is what was written, and what is left of the field for the hash
\* is all but the value of b=.  Two texts with a space in front of "=" are
\* excepted: an empty tag that ends the text, and b= for the hash.
TagsReadBack ==
    in.ask = "tags" =>
        LET text == Written(in.text, in.gap, in.inner)
            set == ParseSet(IF in.open THEN Front(text) ELSE text)
            alone(i) == \A j \in 1..Len(in.text) \ {i} : Lower(in.text[j].param) # Lower(in.text[i].param)
            spaced(i) == in.inner # <<>> /\ in.open /\ i = Len(in.text) /\ in.text[i].value = <<>>
        IN  /\ set.ok
            /\ \A i \in 1..Len(in.text) :
                 alone(i) /\ ~spaced(i) => ParamGet(set.plist, in.text[i].param) = Collapse(in.text[i].value)
            /\ in.inner = <<>> \/ (\A i \in 1..Len(in.text) : in.text[i].param # <<"b">>)
               => StripB(text) = WithoutB(in.text, in.gap, in.inner)

\* The comment at dkim-canon.c:1130: the field is hashed minus the contents of
\* the "b=" part, which dkim_process_set() also accepts with a space before "=".
SignatureBlanked ==
    in.ask = "tags" =>
        LET text == Written(in.text, in.gap, in.inner)
        IN  StripB(text) = WithoutB(in.text, in.gap, in.inner)
=============================================================================
