------------------------------ MODULE MCTools -------------------------------
(* Instances of the development tools.  They share nothing: a behaviour is  *)
(* one of the benchmark or one of the merge gate.                           *)
EXTENDS Benchmark, MergeGate

Init ==
    \/ BenchInit /\ GateRest("off") /\ checks = None
    \/ GateInit /\ BenchRest("off") /\ open = {}
Next ==
    \/ BenchNext /\ UNCHANGED gateVars
    \/ GateNext /\ UNCHANGED benchVars
Spec == Init /\ [][Next]_<<benchVars, gateVars>> /\ GateFairness

\* A letter of each language and type, in each tier; and two letters.  The
\* last date is one no letter may carry.
SomeDirectories ==
    {{9 * type + 3 * (type % 3) + lang} : type \in 0 .. 5, lang \in 0 .. 2} \cup {{4, 53}}
SomeDates == {[year |-> 2026, month |-> 1, day |-> 5], [year |-> 2026, month |-> 3, day |-> 31],
              [year |-> 2026, month |-> 7, day |-> 1]}

\* No truth file, or a whole one.
NoneOrAll == {{}, Keys}

Kw(word, form, runs) == [text |-> Spelt(word, form), runs |-> runs]
Plain(word, form) == Kw(word, form, <<Chars("letters", 9)>>)
C(n) == Chars("capitals", n)
D(n) == Chars("digits", n)
L(n) == Chars("letters", n)
Space == Chars("space", 1)
Mark == Chars("mark", 1)
Year == Kw("2023", "digits", <<YearRun>>)
WithYear(form) == Kw("aangifte 2023", form, <<L(8), Space, YearRun>>)
Amount == Kw("1,294.29", "digits", <<D(1), Chars("other", 1), D(3), Mark, D(2)>>)
Price == Kw("eur 50 korting", "sign", <<Chars("currency", 1), Space, D(2), Space, L(7)>>)
Phone == Kw("857640111", "digits", <<D(9)>>)
Postcode == Kw("bristol bs1 4qd", "Capital", <<C(1), L(6), Space, C(2), D(1), Space, D(1), C(2)>>)
DutchPostcode == Kw("utrecht 3511 ab", "Capital", <<C(1), L(6), Space, D(4), Space, C(2)>>)
Iban == Kw("de12 abcd efgh", "UPPER", <<C(2), D(2), Space, C(4), Space, C(4)>>)
Date == Kw("vervalt op 12-03-26", "lower", <<L(7), Space, L(2), Space, D(2), Mark, D(2), Mark, D(2)>>)
Short == Kw("ab", "lower", <<L(2)>>)
\* Nine that pass, a repetition, and terms with figures at the edges of the
\* filters; and one of each kind that the filters drop, with two that pass.
SomeKeywords ==
    {<<Plain("belasting", "Capital"), Plain("belasting", "lower"), WithYear("lower"), Year,
       Kw("euro", "Capital", <<C(1), L(3)>>), Kw("ek 1988", "UPPER", <<C(2), Space, YearRun>>),
       Kw("abc12", "lower", <<L(3), D(2)>>), Kw("ab12", "lower", <<L(2), D(2)>>),
       Kw("ab12 cde", "UPPER", <<C(2), D(2), Space, C(3)>>),
       Kw("2023 12-03", "digits", <<YearRun, Space, D(2), Mark, D(2)>>),
       Kw("20232024", "digits", <<[kind |-> "digits", len |-> 8, years |-> 2]>>),
       Plain("water", "lower")>>,
     <<Amount, Price, Phone, Postcode, DutchPostcode, Iban, Date, Short, WithYear("lower"),
       Plain("utrecht", "Capital"), WithYear("UPPER")>>}
=============================================================================
