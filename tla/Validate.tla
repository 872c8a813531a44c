------------------------------ MODULE Validate ------------------------------
(***************************************************************************)
(* The deterministic layer between the vision model's answer and the       *)
(* archive (spike/validate.py, server/pipeline_runner.py:97-135): printed  *)
(* dates, keywords and places.  Texts are sequences of pieces, told apart  *)
(* by the pattern that finds them.                                         *)
(***************************************************************************)
EXTENDS Orders, SequencesExt

\* A word as it is spelt: upper or lower case, spaced or not.
Spelt(word, form) == [word |-> word, form |-> form]
Lower(s) == s.word

-----------------------------------------------------------------------------
(* Dates *)

LeapYear(y) == y % 4 = 0 /\ (y % 100 # 0 \/ y % 400 = 0)
MonthLength(y, m) ==
    CASE m = 2 -> IF LeapYear(y) THEN 29 ELSE 28
      [] m \in {4, 6, 9, 11} -> 30
      [] OTHER -> 31
IsDate(y, m, d) == y \in 1 .. 9999 /\ m \in 1 .. 12 /\ d \in 1 .. MonthLength(y, m)

NoDate == [year |-> 0, month |-> 0, day |-> 0]
\* dt.date(...), or None where it raises ValueError.
DateOf(y, m, d) ==
    IF IsDate(y, m, d) THEN [year |-> y, month |-> m, day |-> d] ELSE NoDate

\* dd-mm-yyyy; d name yyyy; yyyy-mm-dd; and text that no pattern finds.
Numeric(d, m, y) == [kind |-> "numeric", day |-> d, month |-> m, name |-> Spelt("", ""), year |-> y]
Written(d, s, y) == [kind |-> "written", day |-> d, month |-> 0, name |-> s, year |-> y]
Iso(y, m, d) == [kind |-> "iso", day |-> d, month |-> m, name |-> Spelt("", ""), year |-> y]
Words(s) == [kind |-> "words", day |-> 0, month |-> 0, name |-> s, year |-> 0]

\* _MONTHS, by number.
MonthNames ==
    << {"januari", "januar", "january"}, {"februari", "februar", "february"},
       {"maart", "maerz", "march"}, {"april"}, {"mei", "mai", "may"}, {"juni", "june"},
       {"juli", "july"}, {"augustus", "august"}, {"september"}, {"oktober", "october"},
       {"november"}, {"december", "dezember"} >>
MonthNumber(word) ==
    IF \E m \in 1 .. 12 : word \in MonthNames[m]
    THEN CHOOSE m \in 1 .. 12 : word \in MonthNames[m] ELSE 0

\* search() finds the leftmost match.
First(text, kind) == SelectInSeq(text, LAMBDA p : p.kind = kind)

\* (broken) the written form is tried with the name as printed.
NormalizeDateCased(text) ==
    LET w == First(text, "written") IN
    IF w # 0 /\ text[w].name.form = "lower"
    THEN DateOf(text[w].year, MonthNumber(text[w].name.word), text[w].day) ELSE NoDate

\* A numeric date decides alone, even if it is impossible; a written one only
\* if its month is known; ISO must be the whole text.
NormalizeDate(text) ==
    LET n == First(text, "numeric")
        w == First(text, "written")
    IN
    CASE n # 0 -> DateOf(text[n].year, text[n].month, text[n].day)
      [] n = 0 /\ w # 0 /\ MonthNumber(Lower(text[w].name)) # 0 ->
            DateOf(text[w].year, MonthNumber(Lower(text[w].name)), text[w].day)
      [] OTHER ->
            IF Len(text) = 1 /\ text[1].kind = "iso"
            THEN DateOf(text[1].year, text[1].month, text[1].day) ELSE NoDate

-----------------------------------------------------------------------------
(* Keywords.  A keyword is its spelling and the runs of characters of one   *)
(* kind it is made of ("letters" are those that are not ASCII capitals; a    *)
(* mark is one of - / .); of a run of digits, how many years (_KW_YEAR) are  *)
(* cut out of it.                                                           *)

Kinds == {"capitals", "letters", "digits", "space", "mark", "currency", "other"}
KeywordText ==
    [text : [word : STRING, form : STRING],
     runs : Seq([kind : Kinds, len : Nat, years : Nat])]

Chars(kind, n) == [kind |-> kind, len |-> n, years |-> 0]
YearRun == [kind |-> "digits", len |-> 4, years |-> 1]

\* (broken) the years stay in.
InYearsNone(run) == 0
InYears(run) == 4 * run.years

LengthOf(runs) == FoldSeq(LAMBDA r, n : n + r.len, 0, runs)
\* base, and the digits in it.
BaseOf(runs) == FoldSeq(LAMBDA r, n : n + r.len - InYears(r), 0, runs)
DigitsOf(runs) == BaseOf(SelectSeq(runs, LAMBDA r : r.kind = "digits"))

\* \b: no letter or digit stands there.
NoWord(runs, i) ==
    i \in DOMAIN runs => runs[i].kind \notin {"capitals", "letters", "digits"}

\* Two capitals and two digits, and eight more of capitals, digits or spaces.
Ibanish(runs) ==
    \E i, j \in DOMAIN runs :
        /\ i < j /\ NoWord(runs, i - 1)
        /\ runs[i].kind = "capitals" /\ runs[i].len = 2
        /\ runs[i + 1].kind = "digits" /\ runs[i + 1].len >= 2
        /\ \A k \in i .. j : runs[k].kind \in {"capitals", "digits", "space"}
        /\ LengthOf(SubSeq(runs, i, j)) >= 12

\* The runs from i on have these kinds and lengths.
Shaped(runs, i, kinds, lengths) ==
    /\ i + Len(kinds) - 1 <= Len(runs)
    /\ \A k \in DOMAIN kinds :
          runs[i + k - 1].kind = kinds[k] /\ runs[i + k - 1].len \in lengths[k]
AnyLength(runs) == 1 .. LengthOf(runs)

Dateish(runs) ==
    \E i \in DOMAIN runs :
        Shaped(runs, i, <<"digits", "mark", "digits", "mark", "digits">>,
               <<AnyLength(runs), {1}, {1, 2}, {1}, AnyLength(runs) \ {1}>>)

\* 1234 AB and 1234AB; BS14QD, BS1 4QD, W1A1HQ and W1A 1HQ.
PostcodeShapes ==
    {<< <<"digits", "capitals">>, <<{4}, {2}>> >>,
     << <<"digits", "space", "capitals">>, <<{4}, {1}, {2}>> >>,
     << <<"capitals", "digits", "capitals">>, <<{1, 2}, {2, 3}, {2}>> >>,
     << <<"capitals", "digits", "space", "digits", "capitals">>,
        <<{1, 2}, {1, 2}, {1}, {1}, {2}>> >>,
     << <<"capitals", "digits", "capitals", "digits", "capitals">>,
        <<{1, 2}, {1, 2}, {1}, {1}, {2}>> >>,
     << <<"capitals", "digits", "capitals", "space", "digits", "capitals">>,
        <<{1, 2}, {1, 2}, {1}, {1}, {1}, {2}>> >>}
Postcodeish(runs) ==
    \E i \in DOMAIN runs, shape \in PostcodeShapes :
        /\ Shaped(runs, i, shape[1], shape[2])
        /\ NoWord(runs, i - 1) /\ NoWord(runs, i + Len(shape[1]))

\* A year by itself is kept; of others no more than 40 % of the base are
\* digits (none of an empty one).
Kept(k) ==
    /\ LengthOf(k.runs) >= 3
    /\ \/ k.runs = <<YearRun>>
       \/ /\ 5 * DigitsOf(k.runs) <= 2 * BaseOf(k.runs)
          /\ \A i \in DOMAIN k.runs : k.runs[i].kind # "currency"
          /\ ~Ibanish(k.runs) /\ ~Dateish(k.runs) /\ ~Postcodeish(k.runs)

\* (broken) duplicates are told by their spelling.
SameSpelling(k, l) == k.text = l.text
SameKeyword(k, l) == Lower(k.text) = Lower(l.text)

\* The filter, then the cut: a keyword is seen if an earlier one was kept.
Unseen(raw) ==
    LET kept == {i \in 1 .. Len(raw) : Kept(raw[i])} IN
    {i \in kept : \A j \in kept : j < i => ~SameKeyword(raw[j], raw[i])}
CurateKeywords(raw, limit) == Cut(Pick(raw, Unseen(raw)), limit)

-----------------------------------------------------------------------------
(* Places: segments between commas, of words that have digits, or are       *)
(* capitals of at most three letters, or neither.                           *)

PlaceWord(w) == [text |-> w, digits |-> FALSE, caps |-> FALSE]
Number(w) == [text |-> w, digits |-> TRUE, caps |-> FALSE]
Capitals(w) == [text |-> w, digits |-> FALSE, caps |-> TRUE]

\* The last segment that has digits, or the first; without its postcode.
NormalizePlace(raw) ==
    LET segments == {i \in 1 .. Len(raw) : raw[i] # <<>>}
        numbered == {i \in segments : \E k \in 1 .. Len(raw[i]) : raw[i][k].digits}
        segment == raw[IF numbered # {} THEN Max(numbered) ELSE Min(segments)]
    IN IF segments = {} THEN <<>>
       ELSE Pick(segment, {k \in 1 .. Len(segment) : ~segment[k].digits /\ ~segment[k].caps})

-----------------------------------------------------------------------------
\* What process_document files of an answer; <<>> is null.
Filed(answer) ==
    [document_date |-> NormalizeDate(answer.document_date),
     valid |-> answer.document_date # <<>> /\ NormalizeDate(answer.document_date) # NoDate,
     correspondent_place |-> NormalizePlace(answer.sender_place),
     keywords |-> CurateKeywords(answer.keywords, 8)]
=============================================================================
