------------------------------ MODULE TestSet -------------------------------
(***************************************************************************)
(* The synthetic letters (testset/): which language, type and degradation  *)
(* letter i has, how its dates and addresses are printed, the check digits *)
(* of its IBAN, and the truth it is scored against.                        *)
(***************************************************************************)
EXTENDS Validate

CONSTANT References  \* references that may be drawn, of the three styles

LANGUAGES == <<"nl", "de", "en">>
TIERS == <<"clean", "good", "poor">>
DOC_TYPES == <<"invoice", "government_tax", "insurance", "medical", "bank", "subscription">>

LanguageOf(i) == LANGUAGES[(i % 3) + 1]
TierOf(i) == TIERS[((i \div 3) % 3) + 1]
DocTypeOf(i) == DOC_TYPES[((i \div 9) % 6) + 1]

-----------------------------------------------------------------------------
(* Entities *)

\* A sender: its name, its town, and the domain of its business.
Party(name, town, domain) == [name |-> name, town |-> town, domain |-> domain]

Senders ==
    [nl |->
        [invoice |-> {Party("Van Dijk", <<"Utrecht">>, "commercial"),
                      Party("Kuipers", <<"Deventer">>, "commercial")},
         government_tax |-> {Party("Belastingdienst", <<"Heerlen">>, "government"),
                             Party("Gemeente", <<"Amersfoort">>, "government")},
         insurance |-> {Party("Unive", <<"Assen">>, "insurance"),
                        Party("Centraal Beheer", <<"Apeldoorn">>, "insurance")},
         medical |-> {Party("Meander", <<"Amersfoort">>, "medical"),
                      Party("De Molen", <<"Arnhem">>, "medical")},
         bank |-> {Party("Triodos", <<"Zeist">>, "bank")},
         subscription |-> {Party("KPN", <<"Den", "Haag">>, "telecom")}],
     de |->
        [invoice |-> {Party("Mueller", <<"Koeln">>, "commercial")},
         government_tax |-> {Party("Finanzamt", <<"Aachen">>, "government")},
         insurance |-> {Party("Allianz", <<"Muenchen">>, "insurance")},
         medical |-> {Party("Universitaetsklinikum", <<"Muenster">>, "medical")},
         bank |-> {Party("GLS", <<"Bochum">>, "bank")},
         subscription |-> {Party("Telekom", <<"Bonn">>, "telecom")}],
     en |->
        [invoice |-> {Party("Brightside", <<"Bristol">>, "commercial")},
         government_tax |-> {Party("HMRC", <<"Cardiff">>, "government")},
         insurance |-> {Party("Aviva", <<"York">>, "insurance")},
         medical |-> {Party("St Mary's", <<"London">>, "medical")},
         bank |-> {Party("Monzo", <<"London">>, "bank")},
         subscription |-> {Party("British Gas", <<"Rotherham">>, "utility")}]]

\* The line with the postcode: "3542 AD Utrecht", "50667 Koeln", "Bristol BS1 4QD".
Town(sender) == [i \in DOMAIN sender.town |-> PlaceWord(sender.town[i])]
CityLine(sender, lang) ==
    CASE lang = "nl" -> <<Number("3542"), Capitals("AD")>> \o Town(sender)
      [] lang = "de" -> <<Number("50667")>> \o Town(sender)
      [] lang = "en" -> Town(sender) \o <<Number("BS1"), Number("4QD")>>
Street == <<PlaceWord("Postbus"), Number("55")>>

MonthWords ==
    [nl |-> <<"januari", "februari", "maart", "april", "mei", "juni", "juli", "augustus",
              "september", "oktober", "november", "december">>,
     de |-> <<"januar", "februar", "maerz", "april", "mai", "juni", "juli", "august",
              "september", "oktober", "november", "dezember">>,
     en |-> <<"january", "february", "march", "april", "may", "june", "july", "august",
              "september", "october", "november", "december">>]
MonthName(lang, m) ==
    Spelt(MonthWords[lang][m], IF lang = "nl" THEN "lower" ELSE "Capital")

\* format_date: in numbers or written.
FormatDate(d, lang, numeric) ==
    IF numeric THEN Numeric(d.day, d.month, d.year)
    ELSE Written(d.day, MonthName(lang, d.month), d.year)

Before(d, e) ==
    \/ d.year < e.year
    \/ d.year = e.year /\ d.month < e.month
    \/ d.year = e.year /\ d.month = e.month /\ d.day < e.day
RandomDates(Dates, first, last) == {d \in Dates : ~Before(d, first) /\ ~Before(last, d)}

\* n is the number that BBAN and country spell in base 36 digits; moving
\* country and check digits to the end appends two decimal digits to it.
CheckDigits(n) == 98 - ((100 * n) % 97)
Rearranged(n, check) == 100 * n + check
IbanIsValid(number) == number % 97 = 1

-----------------------------------------------------------------------------
(* Letters *)

\* Where the date is printed: after the town in nl and de, "den" before it in de.
Dateline(sender, lang, date) ==
    LET town == Words(Spelt(sender.town, "Capital")) IN
    CASE lang = "nl" -> <<town, date>>
      [] lang = "de" -> <<town, Words(Spelt("den", "lower")), date>>
      [] lang = "en" -> <<date>>

FirstDate == [year |-> 2026, month |-> 1, day |-> 5]
LastDate == [year |-> 2026, month |-> 6, day |-> 25]

\* compose: the page and its truth, from one draw of the entities.
Letter(i, sender, date, numeric, ref) ==
    LET lang == LanguageOf(i)
        printed == FormatDate(date, lang, numeric)
    IN [id |-> i, tier |-> TierOf(i), domain |-> sender.domain, town |-> sender.town,
        page |-> [sender |-> Spelt(sender.name, "Capital"),
                  street |-> Street,
                  city |-> CityLine(sender, lang),
                  date |-> printed,
                  dateline |-> Dateline(sender, lang, printed),
                  reference |-> Spelt(ref, "Capital")],
        truth |-> [language |-> lang, doc_type |-> DocTypeOf(i), sender_name |-> sender.name,
                   document_date |-> date, reference |-> ref, full_text |-> i]]

Compose(i, Dates) ==
    {Letter(i, s, d, numeric, ref) :
        s \in Senders[LanguageOf(i)][DocTypeOf(i)],
        d \in RandomDates(Dates, FirstDate, LastDate),
        numeric \in BOOLEAN, ref \in References}
=============================================================================
