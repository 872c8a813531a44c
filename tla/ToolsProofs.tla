----------------------------- MODULE ToolsProofs -----------------------------
(* The development tools: the merge gate merges over nothing but green      *)
(* checks; what the generator prints, the normalisers read back and the     *)
(* benchmark scores; curation of keywords; the benchmark's report accounts  *)
(* for every letter and connection.                                         *)
EXTENDS Benchmark, MergeGate, OrdersProofs

-----------------------------------------------------------------------------
(* The merge gate *)

Buckets == [Checks -> Bucket \cup {"unregistered"}]

\* What the script knows are the numbers of gh's last answer, and it goes on
\* to merge only with the right ones.
GateInv ==
    /\ checks \in Buckets
    /\ answered \in Buckets
    /\ counts = Count(answered)
    /\ gate \in {"merge", "merged"} => counts.bad = 0 /\ Green

\* An answer whose numbers are right is green.
LEMMA NumbersTell ==
    ASSUME NEW a \in Buckets,
           Count(a).bad = 0, Count(a).total > 0, Count(a).pending = 0
    PROVE  /\ Registered(a) # {}
           /\ \A c \in Registered(a) : a[c] \in {"pass", "skipping"}
<1>1. /\ IsFiniteSet(Registered(a)) /\ IsFiniteSet(Bad(a)) /\ IsFiniteSet(Pending(a))
  <2>1. /\ Registered(a) \subseteq Checks /\ Bad(a) \subseteq Checks /\ Pending(a) \subseteq Checks
    BY DEF Registered, Bad, Pending
  <2>. QED  BY <2>1, MergeGateAssumption, FS_Subset
<1>2. Registered(a) # {}
  BY <1>1, FS_EmptySet DEF Count
<1>3. Bad(a) = {} /\ Pending(a) = {}
  BY <1>1, FS_EmptySet DEF Count
<1>4. ASSUME NEW c \in Registered(a) PROVE a[c] \in {"pass", "skipping"}
  <2>1. c \in Checks /\ a[c] \in Bucket
    BY DEF Registered, Buckets
  <2>2. a[c] \notin {"fail", "cancel", "pending"}
    BY <2>1, <1>3 DEF Bad, Pending
  <2>. QED  BY <2>1, <2>2 DEF Bucket
<1>. QED  BY <1>2, <1>4

LEMMA NobodyRegistered == None \in Buckets
BY DEF None, Buckets

LEMMA GateInvStarts == GateInit => GateInv
BY NobodyRegistered DEF GateInit, GateRest, GateInv, Buckets, Bucket

LEMMA GateInvSteps == GateInv /\ [GateNext]_gateVars => GateInv'
<1>. SUFFICES ASSUME GateInv, [GateNext]_gateVars PROVE GateInv'
  OBVIOUS
<1>1. CASE GateAsk
  BY <1>1, NobodyRegistered DEF GateAsk, GateInv
<1>2. CASE GateRefuse \/ GateGreen \/ GateGiveUp \/ GateSleep \/ GateMerge
  BY <1>2 DEF GateRefuse, GateGreen, GateGiveUp, GateSleep, GateMerge, GateInv, Green
<1>3. ASSUME NEW c \in Checks, Register(c) \/ Finish(c) \/ Rerun(c) PROVE GateInv'
  <2>1. checks' \in Buckets
    BY <1>3 DEF Register, Finish, Rerun, GateInv, Buckets, Bucket
  <2>. QED  BY <1>3, <2>1 DEF Register, Finish, Rerun, GateInv, Green
<1>4. CASE Push \/ DeadlinePasses
  BY <1>4, NobodyRegistered DEF Push, DeadlinePasses, GateInv, Green
<1>5. CASE UNCHANGED gateVars
  BY <1>5 DEF gateVars, GateInv, Green
<1>. QED  BY <1>1, <1>2, <1>3, <1>4, <1>5 DEF GateNext, GateStep

\* merge-when-green.sh merges only when gh's last answer named checks, and
\* every check it named had passed or was skipped.
THEOREM MergesGreen == GateSpec => []MergesOnlyGreen
<1>1. GateInv => MergesOnlyGreen
  BY NumbersTell DEF GateInv, MergesOnlyGreen, Green
<1>. QED  BY <1>1, GateInvStarts, GateInvSteps, PTL DEF GateSpec
-----------------------------------------------------------------------------
(* The generator *)

\* "real mod-97 checksums" (entities.py:1): whatever BBAN and country spell,
\* the check digits that _iban_checksum puts in pass iban_is_valid, and two
\* digits hold them.
THEOREM IbanChecks ==
    ASSUME NEW n \in Nat
    PROVE  IbanIsValid(Rearranged(n, CheckDigits(n))) /\ CheckDigits(n) \in 2 .. 98
BY DEF IbanIsValid, Rearranged, CheckDigits

\* "every (lang, tier) pair occurs equally often per 9 letters"
\* (generate.py:29-30): among nine letters in a row no pair occurs twice.
THEOREM AxesIndependent ==
    ASSUME NEW i \in Nat, NEW j \in Nat, i < j, j < i + 9
    PROVE  LanguageOf(i) # LanguageOf(j) \/ TierOf(i) # TierOf(j)
<1>1. \A a, b \in Nat : LANGUAGES[(a % 3) + 1] = LANGUAGES[(b % 3) + 1] => a % 3 = b % 3
  <2>1. \A x, y \in 0 .. 2 : LANGUAGES[x + 1] = LANGUAGES[y + 1] => x = y
    BY DEF LANGUAGES
  <2>. QED  BY <2>1
<1>2. \A x, y \in 0 .. 2 : TIERS[x + 1] = TIERS[y + 1] => x = y
  BY DEF TIERS
<1>3. i \div 3 \in Nat /\ j \div 3 \in Nat
  OBVIOUS
<1>4. (i % 3 = j % 3 /\ (i \div 3) % 3 = (j \div 3) % 3) => FALSE
  OBVIOUS
<1>. QED  BY <1>1, <1>2, <1>3, <1>4 DEF LanguageOf, TierOf
-----------------------------------------------------------------------------
(* Dates *)

Date == {d \in [year : Nat, month : Nat, day : Nat] : IsDate(d.year, d.month, d.day)}

LEMMA MonthsAreTold ==
    ASSUME NEW lang \in {"nl", "de", "en"}, NEW m \in 1 .. 12
    PROVE  MonthWords[lang][m] \in MonthNames[m]
<1>1. m = 1 \/ m = 2 \/ m = 3 \/ m = 4 \/ m = 5 \/ m = 6 \/ m = 7 \/ m = 8 \/ m = 9 \/ m = 10
      \/ m = 11 \/ m = 12
  OBVIOUS
<1>. QED  BY <1>1 DEF MonthWords, MonthNames

LEMMA MonthsAreApart ==
    ASSUME NEW k \in 1 .. 12, NEW m \in 1 .. 12, NEW word,
           word \in MonthNames[k], word \in MonthNames[m]
    PROVE  k = m
<1>1. \A x \in 1 .. 12 : x = 1 \/ x = 2 \/ x = 3 \/ x = 4 \/ x = 5 \/ x = 6 \/ x = 7 \/ x = 8
      \/ x = 9 \/ x = 10 \/ x = 11 \/ x = 12
  OBVIOUS
<1>. QED  BY <1>1 DEF MonthNames

LEMMA MonthIsRead ==
    ASSUME NEW lang \in {"nl", "de", "en"}, NEW m \in 1 .. 12
    PROVE  MonthNumber(MonthWords[lang][m]) = m
<1>1. MonthWords[lang][m] \in MonthNames[m]
  BY MonthsAreTold
<1>2. \A k \in 1 .. 12 : MonthWords[lang][m] \in MonthNames[k] => k = m
  BY <1>1, MonthsAreApart
<1>. QED  BY <1>1, <1>2 DEF MonthNumber

\* The first place in a text where a pattern is found.
LEMMA FirstFound ==
    ASSUME NEW text, NEW kind, Len(text) \in Nat,
           NEW i \in 1 .. Len(text), text[i].kind = kind,
           \A j \in 1 .. Len(text) : text[j].kind = kind => j = i
    PROVE  First(text, kind) = i
<1>. DEFINE I == {j \in 1 .. Len(text) : text[j].kind = kind}
<1>1. I = {i}
  OBVIOUS
<1>2. Min({i}) = i
  BY DEF Min
<1>. QED  BY <1>1, <1>2 DEF First, SelectInSeq

LEMMA NothingFound ==
    ASSUME NEW text, NEW kind, Len(text) \in Nat,
           \A j \in 1 .. Len(text) : text[j].kind # kind
    PROVE  First(text, kind) = 0
<1>1. {j \in 1 .. Len(text) : text[j].kind = kind} = {}
  OBVIOUS
<1>. QED  BY <1>1 DEF First, SelectInSeq

\* A text with one date in it, in either printed form, is read as that date.
LEMMA OneDateIsRead ==
    ASSUME NEW text, Len(text) \in Nat, NEW i \in 1 .. Len(text),
           NEW lang \in {"nl", "de", "en"}, NEW d \in Date, NEW numeric \in BOOLEAN,
           text[i] = FormatDate(d, lang, numeric),
           \A j \in (1 .. Len(text)) \ {i} : text[j].kind = "words"
    PROVE  NormalizeDate(text) = d
<1>1. d.month \in 1 .. 12 /\ IsDate(d.year, d.month, d.day)
      /\ d = [year |-> d.year, month |-> d.month, day |-> d.day]
  BY DEF Date, IsDate
<1>2. DateOf(d.year, d.month, d.day) = d
  BY <1>1 DEF DateOf
<1>3. CASE numeric
  <2>1. text[i] = Numeric(d.day, d.month, d.year)
    BY <1>3 DEF FormatDate
  <2>2. text[i].kind = "numeric" /\ text[i].year = d.year /\ text[i].month = d.month
        /\ text[i].day = d.day
    <3>. DEFINE p == Numeric(d.day, d.month, d.year)
    <3>1. p.kind = "numeric" /\ p.year = d.year /\ p.month = d.month /\ p.day = d.day
      BY DEF Numeric
    <3>. HIDE DEF p
    <3>. QED  BY <2>1, <3>1 DEF p
  <2>3. First(text, "numeric") = i
    BY <2>2, FirstFound
  <2>. QED  BY <2>2, <2>3, <1>2 DEF NormalizeDate
<1>4. CASE ~numeric
  <2>1. text[i] = Written(d.day, MonthName(lang, d.month), d.year)
    BY <1>4 DEF FormatDate
  <2>2. text[i].kind = "written" /\ text[i].year = d.year
        /\ Lower(text[i].name) = MonthWords[lang][d.month] /\ text[i].day = d.day
    BY <2>1 DEF Written, MonthName, Spelt, Lower
  <2>3. First(text, "written") = i
    BY <2>2, FirstFound
  <2>4. First(text, "numeric") = 0
    BY <2>2, NothingFound
  <2>5. MonthNumber(Lower(text[i].name)) = d.month
    BY <2>2, <1>1, MonthIsRead
  <2>6. d.month # 0
    BY <1>1
  <2>. QED  BY <2>2, <2>3, <2>4, <2>5, <2>6, <1>2 DEF NormalizeDate
<1>. QED  BY <1>3, <1>4

\* templates.py:220-234, validate.py:97-122: for every valid date, language and
\* printed form, the whole dateline of a letter is normalised to the date of
\* its truth; so are the words of the date alone.
THEOREM DateReadBack ==
    ASSUME NEW sender, NEW lang \in {"nl", "de", "en"}, NEW d \in Date, NEW numeric \in BOOLEAN
    PROVE  /\ NormalizeDate(<<FormatDate(d, lang, numeric)>>) = d
           /\ NormalizeDate(Dateline(sender, lang, FormatDate(d, lang, numeric))) = d
<1>. DEFINE date == FormatDate(d, lang, numeric)
            place == Words(Spelt(sender.town, "Capital"))
            den == Words(Spelt("den", "lower"))
<1>1. place.kind = "words" /\ den.kind = "words"
  BY DEF Words
<1>. HIDE DEF date, place, den
<1>2. date = FormatDate(d, lang, numeric)
  BY DEF date
<1>3. NormalizeDate(<<date>>) = d
  <2>. DEFINE text == <<date>>
  <2>1. Len(text) = 1 /\ text[1] = date
    OBVIOUS
  <2>. HIDE DEF text
  <2>2. NormalizeDate(text) = d
    BY <2>1, <1>2, OneDateIsRead
  <2>. QED  BY <2>2 DEF text
<1>4. NormalizeDate(<<place, date>>) = d
  <2>. DEFINE text == <<place, date>>
  <2>1. Len(text) = 2 /\ text[1] = place /\ text[2] = date
    OBVIOUS
  <2>. HIDE DEF text
  <2>2. 2 \in 1 .. Len(text) /\ \A j \in (1 .. Len(text)) \ {2} : text[j].kind = "words"
    BY <2>1, <1>1
  <2>3. NormalizeDate(text) = d
    BY <2>1, <2>2, <1>2, OneDateIsRead
  <2>. QED  BY <2>3 DEF text
<1>5. NormalizeDate(<<place, den, date>>) = d
  <2>. DEFINE text == <<place, den, date>>
  <2>1. Len(text) = 3 /\ text[1] = place /\ text[2] = den /\ text[3] = date
    OBVIOUS
  <2>. HIDE DEF text
  <2>2. 3 \in 1 .. Len(text) /\ \A j \in (1 .. Len(text)) \ {3} : text[j].kind = "words"
    <3>1. \A j \in (1 .. Len(text)) \ {3} : j = 1 \/ j = 2
      BY <2>1
    <3>. QED  BY <2>1, <3>1, <1>1
  <2>3. Len(text) \in Nat /\ text[3] = FormatDate(d, lang, numeric)
    BY <2>1, <1>2
  <2>4. NormalizeDate(text) = d
    BY <2>2, <2>3, OneDateIsRead
  <2>. QED  BY <2>4 DEF text
<1>6. Dateline(sender, lang, date) \in {<<date>>, <<place, date>>, <<place, den, date>>}
  BY DEF Dateline, place, den
<1>. QED  BY <1>2, <1>3, <1>4, <1>5, <1>6
-----------------------------------------------------------------------------
(* Keywords *)

\* Each word that passes the filters has one position at which it is new.
LEMMA EachWordIsNewOnce ==
    ASSUME NEW raw \in Seq(KeywordText)
    PROVE  /\ Unseen(raw) \subseteq 1 .. Len(raw)
           /\ \A i \in Unseen(raw) : Kept(raw[i]) /\ Lower(raw[i].text) \in Passing(raw)
           /\ \A i, j \in Unseen(raw) : Lower(raw[i].text) = Lower(raw[j].text) => i = j
           /\ \A word \in Passing(raw) : \E i \in Unseen(raw) : Lower(raw[i].text) = word
<1>1. Len(raw) \in Nat
  OBVIOUS
<1>2. /\ Unseen(raw) \subseteq 1 .. Len(raw)
      /\ \A i \in Unseen(raw) : Kept(raw[i])
      /\ \A i \in Unseen(raw), j \in 1 .. Len(raw) :
            j < i /\ Kept(raw[j]) => Lower(raw[j].text) # Lower(raw[i].text)
  <2>1. \A i \in 1 .. Len(raw), j \in 1 .. Len(raw) : j < i => j \in 1 .. i - 1
    BY <1>1
  <2> QED
    BY <2>1 DEF Unseen, SameKeyword
<1>3. \A i \in Unseen(raw) : Lower(raw[i].text) \in Passing(raw)
  BY <1>2 DEF Passing
<1>4. ASSUME NEW i \in Unseen(raw), NEW j \in Unseen(raw), Lower(raw[i].text) = Lower(raw[j].text)
      PROVE  i = j
  <2>1. i \in 1 .. Len(raw) /\ j \in 1 .. Len(raw) /\ ~(i < j) /\ ~(j < i)
    BY <1>2, <1>4
  <2> QED
    BY <1>1, <2>1
<1>5. ASSUME NEW word \in Passing(raw) PROVE \E i \in Unseen(raw) : Lower(raw[i].text) = word
  <2> DEFINE I == {i \in 1 .. Len(raw) : Kept(raw[i]) /\ Lower(raw[i].text) = word}
  <2>1. I \subseteq 1 .. Len(raw) /\ I # {}
    BY DEF Passing
  <2>2. PICK i \in I : \A j \in I : i <= j
    BY <1>1, <2>1, LeastIsFirst
  <2>3. i \in 1 .. Len(raw) /\ Kept(raw[i]) /\ Lower(raw[i].text) = word
    OBVIOUS
  <2>4. ASSUME NEW j \in 1 .. i - 1, Kept(raw[j]), Lower(raw[j].text) = word PROVE FALSE
    <3>1. j \in I /\ j < i /\ ~(i <= j)
      BY <1>1, <2>3, <2>4
    <3> QED
      BY <2>2, <3>1
  <2> HIDE DEF I
  <2>5. i \in Unseen(raw)
    BY <2>3, <2>4 DEF Unseen, SameKeyword
  <2> QED
    BY <2>3, <2>5
<1> QED
  BY <1>2, <1>3, <1>4, <1>5

\* So there are as many of them as different words.
LEMMA WordsAreCounted ==
    ASSUME NEW raw \in Seq(KeywordText)
    PROVE  /\ IsFiniteSet(Unseen(raw))
           /\ Cardinality(Passing(raw)) = Cardinality(Unseen(raw))
<1> DEFINE f == [i \in Unseen(raw) |-> Lower(raw[i].text)]
<1>1. /\ Unseen(raw) \subseteq 1 .. Len(raw)
      /\ \A i \in Unseen(raw) : Lower(raw[i].text) \in Passing(raw)
      /\ \A i, j \in Unseen(raw) : Lower(raw[i].text) = Lower(raw[j].text) => i = j
      /\ \A word \in Passing(raw) : \E i \in Unseen(raw) : Lower(raw[i].text) = word
  BY EachWordIsNewOnce
<1>2. IsFiniteSet(Unseen(raw))
  BY <1>1, FS_Interval, FS_Subset
<1>3. f \in Injection(Unseen(raw), Passing(raw)) /\ f \in Surjection(Unseen(raw), Passing(raw))
  BY <1>1 DEF Injection, Surjection, IsInjective
<1> QED
  BY <1>2, <1>3, FS_Surjection

\* No keyword twice, each passes, and none is missing unless the list is full.
WithoutRepeats(kept) ==
    \A k, l \in 1 .. Len(kept) : Lower(kept[k].text) = Lower(kept[l].text) => k = l
AllPass(kept) == \A k \in 1 .. Len(kept) : Kept(kept[k])
FullOrComplete(kept, raw, limit) ==
    \A i \in Unseen(raw) : Len(kept) = limit \/ \E k \in 1 .. Len(kept) : kept[k] = raw[i]

\* What curation returns: the new keywords, in their order, up to the limit.
LEMMA CurationKeeps ==
    ASSUME NEW raw \in Seq(KeywordText), NEW limit \in Nat,
           NEW kept, kept = CurateKeywords(raw, limit)
    PROVE  /\ kept \in Seq(KeywordText)
           /\ Cardinality(Unseen(raw)) \in Nat
           /\ Len(kept) = IF limit < Cardinality(Unseen(raw)) THEN limit ELSE Cardinality(Unseen(raw))
           /\ WithoutRepeats(kept) /\ AllPass(kept) /\ FullOrComplete(kept, raw, limit)
<1> DEFINE I == Unseen(raw)
           n == Cardinality(I)
           at == Increasing(I)
           p == Pick(raw, I)
<1>1. /\ I \subseteq 1 .. Len(raw) /\ Len(raw) \in Nat
      /\ \A i \in I : Kept(raw[i])
      /\ \A i, j \in I : Lower(raw[i].text) = Lower(raw[j].text) => i = j
  BY EachWordIsNewOnce
<1>2. n \in Nat /\ p \in Seq(KeywordText) /\ Len(p) = n /\ \A k \in 1 .. n : p[k] = raw[at[k]]
  BY <1>1, PickStands
<1>3. /\ at \in [1 .. n -> I]
      /\ \A k, l \in 1 .. n : k < l => at[k] < at[l]
      /\ \A i \in I : \E k \in 1 .. n : at[k] = i
  BY <1>1, IncreasingSorts
<1>4. kept = Cut(p, limit)
  BY DEF CurateKeywords
<1> HIDE DEF I, n, at, p
<1>5. /\ kept \in Seq(KeywordText)
      /\ Len(kept) = IF limit < n THEN limit ELSE n
      /\ \A k \in 1 .. Len(kept) : k \in 1 .. n /\ kept[k] = p[k]
  BY <1>2, <1>4 DEF Cut
<1>6. ASSUME NEW k \in 1 .. Len(kept) PROVE at[k] \in I /\ kept[k] = raw[at[k]] /\ Kept(kept[k])
  <2>1. k \in 1 .. n /\ kept[k] = raw[at[k]] /\ at[k] \in I
    BY <1>2, <1>3, <1>5
  <2> QED
    BY <1>1, <2>1
<1>7. ASSUME NEW k \in 1 .. Len(kept), NEW l \in 1 .. Len(kept),
             Lower(kept[k].text) = Lower(kept[l].text)
      PROVE  k = l
  <2>1. at[k] = at[l] /\ k \in 1 .. n /\ l \in 1 .. n
    <3>1. at[k] \in I /\ at[l] \in I /\ kept[k] = raw[at[k]] /\ kept[l] = raw[at[l]]
      BY <1>6
    <3>2. at[k] = at[l]
      BY <1>1, <1>7, <3>1
    <3> QED
      BY <1>5, <3>2
  <2>2. at[k] \in Nat
    <3>1. at[k] \in 1 .. Len(raw)
      BY <1>1, <1>6
    <3> QED
      BY <1>1, <3>1
  <2>3. ~(k < l) /\ ~(l < k)
    BY <1>3, <2>1, <2>2
  <2> QED
    BY <1>2, <2>1, <2>3
<1>8. ASSUME NEW i \in I, Len(kept) # limit
      PROVE  \E k \in 1 .. Len(kept) : kept[k] = raw[i]
  <2>1. PICK k \in 1 .. n : at[k] = i
    BY <1>3
  <2>2. k \in 1 .. Len(kept)
    BY <1>2, <1>5, <1>8
  <2> QED
    BY <1>6, <2>1, <2>2
<1>9. WithoutRepeats(kept) /\ AllPass(kept) /\ FullOrComplete(kept, raw, limit)
  BY <1>6, <1>7, <1>8 DEF WithoutRepeats, AllPass, FullOrComplete, I
<1> QED
  BY <1>2, <1>5, <1>9 DEF I, n

\* What is curated already is all new, and stays.
LEMMA CurationIsStable ==
    ASSUME NEW raw \in Seq(KeywordText), NEW limit \in Nat,
           NEW kept, kept = CurateKeywords(raw, limit)
    PROVE  CurateKeywords(kept, limit) = kept
<1> DEFINE n == Len(kept)
<1>1. /\ kept \in Seq(KeywordText) /\ n \in Nat /\ n <= limit
      /\ \A k \in 1 .. n : Kept(kept[k])
      /\ \A k, l \in 1 .. n : Lower(kept[k].text) = Lower(kept[l].text) => k = l
  <2>1. /\ kept \in Seq(KeywordText) /\ Cardinality(Unseen(raw)) \in Nat
        /\ Len(kept) = IF limit < Cardinality(Unseen(raw)) THEN limit ELSE Cardinality(Unseen(raw))
        /\ WithoutRepeats(kept) /\ AllPass(kept)
    BY CurationKeeps
  <2> QED
    BY <2>1 DEF WithoutRepeats, AllPass
<1>2. Unseen(kept) = 0 + 1 .. 0 + n
  <2>1. ASSUME NEW k \in 1 .. n PROVE k \in Unseen(kept)
    <3>1. \A j \in 1 .. k - 1 : j \in 1 .. n /\ j # k
      BY <1>1
    <3> QED
      BY <1>1, <3>1 DEF Unseen, SameKeyword
  <2>2. Unseen(kept) \subseteq 1 .. n
    BY DEF Unseen
  <2>3. 0 + 1 .. 0 + n = 1 .. n
    BY <1>1
  <2> QED
    BY <2>1, <2>2, <2>3
<1>3. Pick(kept, 0 + 1 .. 0 + n) = [k \in 1 .. n |-> kept[0 + k]]
  BY <1>1, PickInterval
<1>4. Pick(kept, Unseen(kept)) = kept
  BY <1>1, <1>2, <1>3
<1>5. Cut(kept, limit) = kept
  BY <1>1 DEF Cut
<1> QED
  BY <1>4, <1>5 DEF CurateKeywords

\* The most a keyword list is filed with (validate.py:73).
LEMMA CurationHolds ==
    ASSUME NEW raw \in Seq(KeywordText), NEW kept, kept = CurateKeywords(raw, 8)
    PROVE  /\ \A i, j \in DOMAIN kept : Lower(kept[i].text) = Lower(kept[j].text) => i = j
           /\ \A word \in Passing(raw) :
                 (\E j \in DOMAIN kept : Lower(kept[j].text) = word) \/ Len(kept) = 8
           /\ CurateKeywords(kept, 8) = kept
<1>1. /\ kept \in Seq(KeywordText)
      /\ \A k, l \in 1 .. Len(kept) : Lower(kept[k].text) = Lower(kept[l].text) => k = l
      /\ \A i \in Unseen(raw) : Len(kept) = 8 \/ \E k \in 1 .. Len(kept) : kept[k] = raw[i]
  <2>1. kept \in Seq(KeywordText) /\ WithoutRepeats(kept) /\ FullOrComplete(kept, raw, 8)
    BY CurationKeeps
  <2> QED
    BY <2>1 DEF WithoutRepeats, FullOrComplete
<1>2. DOMAIN kept = 1 .. Len(kept)
  BY <1>1
<1>3. \A word \in Passing(raw) : \E i \in Unseen(raw) : Lower(raw[i].text) = word
  BY EachWordIsNewOnce
<1>4. CurateKeywords(kept, 8) = kept
  BY CurationIsStable
<1> QED
  BY <1>1, <1>2, <1>3, <1>4
-----------------------------------------------------------------------------
(* Places *)

Postal(w) == w.digits \/ w.caps

\* A town stands in a line from a + 1 on, and what else is there is postal.
TownAt(city, town, a) ==
    /\ \E S : city \in Seq(S)
    /\ \E S : town \in Seq(S)
    /\ a \in Nat
    /\ a + Len(town) <= Len(city)
    /\ \A k \in 1 .. Len(town) : city[a + k] = PlaceWord(town[k])
    /\ \A k \in (1 .. Len(city)) \ (a + 1 .. a + Len(town)) : Postal(city[k])
    /\ \E k \in 1 .. Len(city) : city[k].digits

LEMMA TownIsLeft ==
    ASSUME NEW city, NEW town, NEW a, TownAt(city, town, a)
    PROVE  LET place == Pick(city, {k \in 1 .. Len(city) : ~city[k].digits /\ ~city[k].caps})
           IN  [k \in DOMAIN place |-> place[k].text] = town
<1> DEFINE n == Len(town)
           I == {k \in 1 .. Len(city) : ~city[k].digits /\ ~city[k].caps}
           place == Pick(city, I)
<1>0. PICK S, T : city \in Seq(S) /\ town \in Seq(T)
  BY DEF TownAt
<1>1. /\ a \in Nat /\ n \in Nat /\ Len(city) \in Nat /\ a + n <= Len(city)
      /\ DOMAIN town = 1 .. n
  BY <1>0 DEF TownAt
<1>2. \A k \in 1 .. Len(city) : k \in a + 1 .. a + n <=> ~city[k].digits /\ ~city[k].caps
  <2>1. ASSUME NEW k \in a + 1 .. a + n PROVE ~city[k].digits /\ ~city[k].caps
    <3>1. k - a \in 1 .. n /\ a + (k - a) = k
      BY <1>1
    <3>2. city[k] = PlaceWord(town[k - a])
      BY <3>1 DEF TownAt
    <3> QED
      BY <3>2 DEF PlaceWord
  <2>2. \A k \in (1 .. Len(city)) \ (a + 1 .. a + n) : city[k].digits \/ city[k].caps
    BY DEF TownAt, Postal
  <2> QED
    BY <2>1, <2>2
<1>3. I = a + 1 .. a + n
  <2>1. a + 1 .. a + n \subseteq 1 .. Len(city)
    BY <1>1
  <2> QED
    BY <1>2, <2>1
<1>4. place = [k \in 1 .. n |-> city[a + k]]
  <2>1. Pick(city, a + 1 .. a + n) = [k \in 1 .. n |-> city[a + k]]
    BY <1>0, <1>1, PickInterval
  <2> QED
    BY <1>3, <2>1
<1>5. DOMAIN place = 1 .. n
  BY <1>4
<1>6. ASSUME NEW k \in 1 .. n PROVE place[k].text = town[k]
  <2>1. place[k] = PlaceWord(town[k])
    BY <1>4 DEF TownAt
  <2> QED
    BY <2>1 DEF PlaceWord
<1> HIDE DEF n, place
<1>7. [k \in DOMAIN place |-> place[k].text] = [k \in 1 .. n |-> town[k]]
  BY <1>5, <1>6
<1>8. town = [k \in 1 .. n |-> town[k]]
  BY <1>0 DEF n
<1> QED
  BY <1>7, <1>8 DEF place

\* The last segment with digits is the line of the town.
LEMMA LineIsChosen ==
    ASSUME NEW city, NEW town, NEW a, TownAt(city, town, a), NEW raw,
           raw = <<city>> \/ raw = <<Street, city>>
    PROVE  NormalizePlace(raw)
             = Pick(city, {k \in 1 .. Len(city) : ~city[k].digits /\ ~city[k].caps})
<1> DEFINE n == Len(raw)
           segments == {i \in 1 .. n : raw[i] # <<>>}
           numbered == {i \in segments : \E k \in 1 .. Len(raw[i]) : raw[i][k].digits}
<1>1. n \in {1, 2} /\ raw[n] = city
  OBVIOUS
<1>2. city # <<>> /\ \E k \in 1 .. Len(city) : city[k].digits
  BY DEF TownAt
<1>3. n \in segments /\ n \in numbered
  <2>1. n \in segments
    BY <1>1, <1>2
  <2>2. \E k \in 1 .. Len(raw[n]) : raw[n][k].digits
    BY <1>1, <1>2
  <2> HIDE DEF n, segments
  <2> QED
    BY <2>1, <2>2
<1>4. \A i \in numbered : i <= n /\ i \in Int
  BY <1>1
<1>5. NormalizePlace(raw)
        = LET segment == raw[IF numbered # {} THEN Max(numbered) ELSE Min(segments)]
          IN IF segments = {} THEN <<>>
             ELSE Pick(segment, {k \in 1 .. Len(segment) : ~segment[k].digits /\ ~segment[k].caps})
  BY DEF NormalizePlace
<1> HIDE DEF n, segments, numbered
<1>6. Max(numbered) = n
  <2>1. n \in Int /\ \A i \in numbered : n >= i
    BY <1>1, <1>4
  <2>2. \A m \in numbered : (\A i \in numbered : m >= i) => m = n
    BY <1>3, <1>4, <2>1
  <2> QED
    BY <1>3, <2>1, <2>2 DEF Max
<1> QED
  BY <1>1, <1>3, <1>5, <1>6

\* The words of a postcode.
LEMMA PostcodeWords ==
    ASSUME NEW w PROVE Number(w).digits /\ Postal(Number(w)) /\ Postal(Capitals(w))
<1>1. Number(w).digits
  BY DEF Number
<1>2. Capitals(w).caps
  BY DEF Capitals
<1> QED
  BY <1>1, <1>2 DEF Postal

LEMMA PostcodeBehind ==
    ASSUME NEW S, NEW s \in Seq(S), NEW x \in S, NEW y \in S, NEW t, t = s \o <<x, y>>
    PROVE  /\ t \in Seq(S) /\ Len(t) = Len(s) + 2
           /\ \A k \in 1 .. Len(s) : t[k] = s[k]
           /\ t[Len(s) + 1] = x /\ t[Len(s) + 2] = y
  OBVIOUS

\* Each language prints the town in one piece, beside its postcode.
LEMMA TownsStand ==
    ASSUME NEW sender, NEW T, sender.town \in Seq(T), NEW lang \in {"nl", "de", "en"}
    PROVE  \E a \in Nat : TownAt(CityLine(sender, lang), sender.town, a)
<1> DEFINE town == sender.town
           n == Len(town)
           words == Town(sender)
           city == CityLine(sender, lang)
           n1 == Number("3542")
           n2 == Capitals("AD")
           n3 == Number("50667")
           n4 == Number("BS1")
           n5 == Number("4QD")
           S == {PlaceWord(town[k]) : k \in 1 .. n} \cup {n1, n2, n3, n4, n5}
<1>1. /\ words \in Seq(S) /\ Len(words) = n /\ n \in Nat
      /\ \A k \in 1 .. n : words[k] = PlaceWord(town[k])
  <2>1. DOMAIN town = 1 .. n /\ n \in Nat
    OBVIOUS
  <2>2. words = [k \in 1 .. n |-> PlaceWord(town[k])]
    BY <2>1 DEF Town
  <2>3. \A k \in 1 .. n : PlaceWord(town[k]) \in S
    OBVIOUS
  <2> HIDE DEF words, town, n, S
  <2> QED
    BY <2>1, <2>2, <2>3
<1>3. /\ {n1, n2, n3, n4, n5} \subseteq S
      /\ n1.digits /\ n3.digits /\ n4.digits
      /\ Postal(n1) /\ Postal(n2) /\ Postal(n3) /\ Postal(n4) /\ Postal(n5)
  BY PostcodeWords
<1>4. /\ lang = "nl" => city = <<n1, n2>> \o words
      /\ lang = "de" => city = <<n3>> \o words
      /\ lang = "en" => city = words \o <<n4, n5>>
  BY DEF CityLine
<1>5. town \in Seq(T)
  OBVIOUS
<1> HIDE DEF words, town, n, city, n1, n2, n3, n4, n5, S
<1>6. CASE lang = "nl"
  <2>1. /\ city \in Seq(S) /\ Len(city) = n + 2
        /\ city[1] = n1 /\ city[2] = n2 /\ \A k \in 1 .. n : city[2 + k] = words[k]
    BY <1>1, <1>3, <1>4, <1>6
  <2>2. \A k \in (1 .. Len(city)) \ (2 + 1 .. 2 + n) : k = 1 \/ k = 2
    BY <1>1, <2>1
  <2>3. 1 \in 1 .. Len(city) /\ 2 + n <= Len(city)
    BY <1>1, <2>1
  <2>4. TownAt(city, town, 2)
    BY <1>1, <1>3, <1>5, <2>1, <2>2, <2>3 DEF TownAt, n
  <2> QED
    BY <2>4 DEF city, town
<1>7. CASE lang = "de"
  <2>1. /\ city \in Seq(S) /\ Len(city) = n + 1
        /\ city[1] = n3 /\ \A k \in 1 .. n : city[1 + k] = words[k]
    BY <1>1, <1>3, <1>4, <1>7
  <2>2. \A k \in (1 .. Len(city)) \ (1 + 1 .. 1 + n) : k = 1
    BY <1>1, <2>1
  <2>3. 1 \in 1 .. Len(city) /\ 1 + n <= Len(city)
    BY <1>1, <2>1
  <2>4. TownAt(city, town, 1)
    BY <1>1, <1>3, <1>5, <2>1, <2>2, <2>3 DEF TownAt, n
  <2> QED
    BY <2>4 DEF city, town
<1>8. CASE lang = "en"
  <2>1. /\ city \in Seq(S) /\ Len(city) = n + 2
        /\ city[n + 1] = n4 /\ city[n + 2] = n5 /\ \A k \in 1 .. n : city[0 + k] = words[k]
    <3>1. city = words \o <<n4, n5>> /\ n4 \in S /\ n5 \in S
      BY <1>3, <1>4, <1>8
    <3>2. city \in Seq(S) /\ Len(city) = Len(words) + 2
      BY <1>1, <3>1, PostcodeBehind
    <3>3. \A k \in 1 .. Len(words) : city[k] = words[k]
      BY <1>1, <3>1, PostcodeBehind
    <3>4. city[Len(words) + 1] = n4 /\ city[Len(words) + 2] = n5
      BY <1>1, <3>1, PostcodeBehind
    <3> QED
      BY <1>1, <3>2, <3>3, <3>4
  <2>2. \A k \in (1 .. Len(city)) \ (0 + 1 .. 0 + n) : k = n + 1 \/ k = n + 2
    BY <1>1, <2>1
  <2>3. n + 1 \in 1 .. Len(city) /\ 0 + n <= Len(city)
    BY <1>1, <2>1
  <2>4. TownAt(city, town, 0)
    BY <1>1, <1>3, <1>5, <2>1, <2>2, <2>3 DEF TownAt, n
  <2> QED
    BY <2>4 DEF city, town
<1> QED
  BY <1>6, <1>7, <1>8

\* templates.py:222-223, validate.py:76-94: for every town and language, the
\* printed address is normalised to the town, with or without its street.
THEOREM PlaceReadBack ==
    ASSUME NEW sender, NEW T, sender.town \in Seq(T), NEW lang \in {"nl", "de", "en"},
           NEW raw, raw \in {<<CityLine(sender, lang)>>, <<Street, CityLine(sender, lang)>>}
    PROVE  [k \in DOMAIN NormalizePlace(raw) |-> NormalizePlace(raw)[k].text] = sender.town
<1>1. PICK a \in Nat : TownAt(CityLine(sender, lang), sender.town, a)
  BY TownsStand
<1> DEFINE city == CityLine(sender, lang)
           place == Pick(city, {k \in 1 .. Len(city) : ~city[k].digits /\ ~city[k].caps})
<1>2. NormalizePlace(raw) = place
  BY <1>1, LineIsChosen
<1>3. [k \in DOMAIN place |-> place[k].text] = sender.town
  BY <1>1, TownIsLeft
<1> HIDE DEF place
<1> QED
  BY <1>2, <1>3
-----------------------------------------------------------------------------
(* The benchmark *)

\* A monitor that samples has seen what is open since it was started once it
\* waits, and nothing but a last check of the stop event ends it.
Seen ==
    /\ lasting \subseteq open
    /\ bench = "start" => monitor = "off"
    /\ joined => monitor = "ended"
    /\ monitor \in {"off", "sample", "wait", "check", "ended", "dead"}
    /\ monitor \in {"wait", "check", "ended"} => lasting \subseteq egress
    /\ report # NoReport => bench = "reported"
    /\ report # NoReport /\ joined => lasting \subseteq report.egress
    /\ joined => bench \in {"summarize", "aborted", "reported"}

\* What BenchStart chooses stays.
Tier == {"clean", "good", "poor"}
Scores == [category : BOOLEAN, language : BOOLEAN, sender_name : BOOLEAN,
           document_date : BOOLEAN, reference : BOOLEAN, keywords_curated : BOOLEAN]
Result == [id : Nat, tier : Tier, ocr : SUBSET Engines, failed : BOOLEAN,
           scores : {<<>>} \cup Scores]

\* The letters whose rows are in the results, and when.
Read == {results[n].id : n \in DOMAIN results}
UpTo(id) == {i \in images : i <= id}
Below(id) == {i \in images : i < id}

Setup ==
    /\ engines \subseteq Engines
    /\ bench = "start" => row.letter.id = -1 /\ results = <<>>
    /\ bench # "start" => images \in Directories
    /\ images \subseteq Nat /\ IsFiniteSet(images)
    /\ row = [letter |-> row.letter, truth |-> row.truth, answer |-> row.answer,
              scores |-> row.scores]
    /\ row.letter.id \in Int
    /\ bench \in {"extract", "score"} => row.letter.id \in images /\ row.letter.tier \in Tier

\* The rows are those of the letters read so far, in their order.
Rows ==
    /\ results \in Seq(Result)
    /\ \A n \in DOMAIN results : results[n].ocr \subseteq engines
    /\ \A n \in DOMAIN results :
         results[n].scores # <<>> => ~results[n].failed /\ results[n].ocr = engines
    /\ \A m, n \in DOMAIN results : m # n => results[m].id # results[n].id
    /\ Len(results) = Cardinality(Read)
    /\ bench = "letter" => Read = UpTo(row.letter.id)
    /\ bench \in {"extract", "score"} => Read = Below(row.letter.id)
    /\ bench \in {"join", "summarize"} => Read = images

LEMMA SeenStarts == BenchInit => Seen
BY DEF BenchInit, BenchRest, Seen

LEMMA SeenSteps == Seen /\ [BenchNext]_benchVars => Seen'
<1>. SUFFICES ASSUME Seen, [BenchNext]_benchVars PROVE Seen'
  OBVIOUS
<1>. USE DEF Seen
<1>1. CASE BenchStart
  BY <1>1 DEF BenchStart, FirstOfMonitor
<1>2. CASE BenchOcr
  BY <1>2 DEF BenchOcr, BenchLeave
<1>3. CASE BenchExtractFails \/ BenchExtract
  <2>1. bench = "extract" /\ bench' \in {"letter", "score"} /\ UNCHANGED <<report, joined, monitorVars>>
    BY <1>3 DEF BenchExtractFails, BenchExtract
  <2>. QED  BY <2>1 DEF monitorVars
<1>4. CASE BenchScore
  BY <1>4 DEF BenchScore, BenchLeave
<1>5. CASE BenchDone
  BY <1>5 DEF BenchDone, BenchLeave
<1>6. CASE BenchJoin
  BY <1>6 DEF BenchJoin, Joined, monitorVars
<1>7. CASE BenchSummarize
  <2>1. report'.egress = egress
    BY <1>7 DEF BenchSummarize, Summary
  <2>. QED  BY <1>7, <2>1 DEF BenchSummarize, monitorVars
<1>8. CASE MonitorCheck \/ MonitorSample \/ MonitorWait
  BY <1>8 DEF MonitorCheck, MonitorSample, MonitorWait, mainVars
<1>9. ASSUME NEW c \in Conns, Connect(c) \/ Disconnect(c) PROVE Seen'
  BY <1>9 DEF Connect, Disconnect, mainVars
<1>10. CASE UNCHANGED benchVars
  BY <1>10 DEF benchVars, mainVars, monitorVars
<1>. QED  BY <1>1, <1>2, <1>3, <1>4, <1>5, <1>6, <1>7, <1>8, <1>9, <1>10 DEF BenchNext, BenchStep

\* benchmark.py:31-76: a connection that was open ever since the monitor was
\* started is in the report, if the monitor ended before the report was made.
THEOREM EgressHolds == BenchSpec => []EgressSeen
<1>1. Seen => EgressSeen
  BY DEF Seen, EgressSeen
<1>. QED  BY <1>1, SeenStarts, SeenSteps, PTL DEF BenchSpec

LEMMA LettersHaveTiers ==
    ASSUME NEW i \in Nat, NEW letter \in Compose(i, Dates)
    PROVE  letter.id = i /\ letter.tier \in Tier
<1>1. letter.id = i /\ letter.tier = TierOf(i)
  BY DEF Compose, Letter
<1>2. i \div 3 \in Nat
  OBVIOUS
<1>3. \A x \in 0 .. 2 : TIERS[x + 1] \in Tier
  BY DEF TIERS, Tier
<1>. QED  BY <1>1, <1>2, <1>3 DEF TierOf

LEMMA SetupStarts == BenchInit => Setup
BY FS_EmptySet DEF BenchInit, BenchRest, Setup, NoRow

LEMMA SetupSteps == Setup /\ [BenchNext]_benchVars => Setup'
<1>. SUFFICES ASSUME Setup, [BenchNext]_benchVars PROVE Setup'
  OBVIOUS
<1>. USE DEF Setup
<1>1. CASE BenchStart
  BY <1>1, BenchmarkAssumption DEF BenchStart
<1>2. CASE BenchOcr
  <2>1. PICK i \in Left : \E keys \in TruthFiles : \E letter \in Compose(i, Dates) :
          row' = [letter |-> letter, truth |-> keys, answer |-> NoAnswer, scores |-> <<>>]
    BY <1>2 DEF BenchOcr
  <2>2. i \in images /\ i \in Nat
    BY DEF Left
  <2>3. row'.letter.id = i /\ row'.letter.tier \in Tier
    BY <2>1, <2>2, LettersHaveTiers
  <2>. QED  BY <1>2, <2>2, <2>3 DEF BenchOcr, BenchLeave
<1>3. CASE BenchExtractFails
  BY <1>3 DEF BenchExtractFails, monitorVars
<1>4. CASE BenchExtract
  <2>1. row'.letter = row.letter
    BY <1>4 DEF BenchExtract
  <2>. QED  BY <1>4, <2>1 DEF BenchExtract, monitorVars
<1>5. CASE BenchScore
  <2>1. row'.letter = row.letter
    BY <1>5 DEF BenchScore
  <2>. QED  BY <1>5, <2>1 DEF BenchScore, BenchLeave
<1>6. CASE BenchDone \/ BenchJoin \/ BenchSummarize
  BY <1>6 DEF BenchDone, BenchJoin, BenchSummarize, BenchLeave, monitorVars
<1>7. CASE UNCHANGED mainVars
  BY <1>7 DEF mainVars
<1>8. (\E c \in Conns : Connect(c) \/ Disconnect(c)) \/ MonitorCheck \/ MonitorSample \/ MonitorWait
      \/ UNCHANGED benchVars => UNCHANGED mainVars
  BY DEF Connect, Disconnect, MonitorCheck, MonitorSample, MonitorWait, benchVars
<1>. QED  BY <1>1, <1>2, <1>3, <1>4, <1>5, <1>6, <1>7, <1>8 DEF BenchNext, BenchStep

LEMMA RowsStart == BenchInit => Rows
<1>. SUFFICES ASSUME BenchInit PROVE Rows
  OBVIOUS
<1>1. results = <<>> /\ results \in Seq(Result) /\ DOMAIN results = {} /\ Len(results) = 0
  BY DEF BenchInit, BenchRest
<1>2. Read = {}
  BY <1>1 DEF Read
<1>3. Cardinality(Read) = 0
  BY <1>2, FS_EmptySet
<1>. QED  BY <1>1, <1>3 DEF BenchInit, BenchRest, Rows

\* A step of the main thread that appends no row.
LEMMA RowsStay ==
    ASSUME Rows, UNCHANGED <<results, images, engines>>,
           bench' = "letter" => Read = UpTo(row'.letter.id),
           bench' \in {"extract", "score"} => Read = Below(row'.letter.id),
           bench' \in {"join", "summarize"} => Read = images
    PROVE  Rows'
<1>1. Read' = Read
  BY DEF Read
<1>2. UpTo(row.letter.id)' = UpTo(row'.letter.id) /\ Below(row.letter.id)' = Below(row'.letter.id)
  BY DEF UpTo, Below
<1>. QED  BY <1>1, <1>2 DEF Rows

\* A row is appended: the letter was the next one, and is read now.
LEMMA OneMoreRow ==
    ASSUME Setup, Rows, NEW r \in Result,
           r.id = row.letter.id, r.ocr \subseteq engines,
           r.scores # <<>> => ~r.failed /\ r.ocr = engines,
           bench \in {"extract", "score"},
           results' = Append(results, r), row'.letter = row.letter,
           UNCHANGED <<images, engines>>, bench' = "letter"
    PROVE  Rows'
<1>. DEFINE id == row.letter.id
<1>1. PICK k \in Nat : k = Len(results) /\ DOMAIN results = 1 .. k
  BY DEF Rows
<1>2. /\ results' \in Seq(Result) /\ Len(results') = k + 1
      /\ DOMAIN results' = DOMAIN results \cup {k + 1} /\ k + 1 \notin DOMAIN results
      /\ results'[k + 1] = r
      /\ \A n \in DOMAIN results : results'[n] = results[n]
  BY <1>1 DEF Rows
<1>3. id \in Int /\ id \in images /\ Read = Below(id) /\ images \subseteq Nat
  BY DEF Setup, Rows
<1>4. Read' = Read \cup {id}
  BY <1>2 DEF Read
<1>5. id \notin Read
  BY <1>3 DEF Below
<1>6. Read' = {i \in images : i <= id}
  <2>1. \A i \in images : i <= id <=> i < id \/ i = id
    BY <1>3
  <2>. HIDE DEF id
  <2>. QED  BY <2>1, <1>3, <1>4 DEF Below
<1>7. Cardinality(Read') = k + 1
  <2>1. IsFiniteSet(Read)
    <3>1. Read \subseteq images /\ IsFiniteSet(images)
      BY <1>3 DEF Below, Setup
    <3>. QED  BY <3>1, FS_Subset
  <2>2. Cardinality(Read \cup {id}) = Cardinality(Read) + 1
    BY <2>1, <1>5, FS_AddElement
  <2>. QED  BY <2>2, <1>1, <1>4 DEF Rows
<1>8. \A m, n \in DOMAIN results' : m # n => results'[m].id # results'[n].id
  <2>1. \A n \in DOMAIN results : results'[n].id # r.id
    BY <1>2, <1>5 DEF Read
  <2>. QED  BY <2>1, <1>2 DEF Rows
<1>9. \A n \in DOMAIN results' :
        /\ results'[n].ocr \subseteq engines'
        /\ results'[n].scores # <<>> => ~results'[n].failed /\ results'[n].ocr = engines'
  BY <1>2 DEF Rows
<1>10. UpTo(row.letter.id)' = {i \in images : i <= id}
  BY DEF UpTo
<1>11. Len(results') = Cardinality(Read)'
  BY <1>2, <1>7
<1>. QED  BY <1>2, <1>6, <1>8, <1>9, <1>10, <1>11 DEF Rows

LEMMA ScoresAreBooleans ==
    ASSUME NEW answer, NEW truth PROVE ScoreFields(answer, truth) \in Scores
BY DEF ScoreFields, Scores

LEMMA RowsStep == Setup /\ Rows /\ [BenchNext]_benchVars => Rows'
<1>. SUFFICES ASSUME Setup, Rows, [BenchNext]_benchVars PROVE Rows'
  OBVIOUS
<1>1. CASE BenchStart
  <2>1. results = <<>> /\ UNCHANGED <<results, row>> /\ images' \subseteq Nat
        /\ bench' = "letter" /\ row.letter.id = -1
    BY <1>1, BenchmarkAssumption DEF BenchStart, Setup
  <2>2. DOMAIN results' = {} /\ results' \in Seq(Result) /\ Len(results') = 0
    BY <2>1
  <2>3. Read' = {}
    BY <2>2 DEF Read
  <2>4. UpTo(row.letter.id)' = {}
    <3>1. row'.letter.id = -1 /\ \A i \in images' : ~(i <= -1)
      BY <2>1
    <3>. QED  BY <3>1 DEF UpTo
  <2>5. Cardinality(Read)' = 0
    BY <2>3, FS_EmptySet
  <2>. QED  BY <2>1, <2>2, <2>3, <2>4, <2>5 DEF Rows
<1>2. CASE BenchOcr
  <2>1. PICK i \in Left :
          /\ \A j \in Left : i <= j
          /\ \E keys \in TruthFiles : \E letter \in Compose(i, Dates) :
               row' = [letter |-> letter, truth |-> keys, answer |-> NoAnswer, scores |-> <<>>]
    BY <1>2 DEF BenchOcr
  <2>2. i \in images /\ i > row.letter.id /\ images \subseteq Nat /\ row.letter.id \in Int
    BY <2>1 DEF Left, Setup
  <2>3. row'.letter.id = i
    BY <2>1, <2>2, LettersHaveTiers
  <2>4. UpTo(row.letter.id) = Below(i)
    BY <2>1, <2>2 DEF Left, UpTo, Below
  <2>5. Read = Below(row'.letter.id)
    BY <1>2, <2>3, <2>4 DEF BenchOcr, Rows
  <2>6. bench' \in {"extract", "raising"}
    BY <1>2 DEF BenchOcr, BenchLeave
  <2>7. UNCHANGED <<results, images, engines>>
    BY <1>2 DEF BenchOcr
  <2>. QED  BY <2>5, <2>6, <2>7, RowsStay
<1>3. ASSUME NEW replied \in BOOLEAN, NEW scores \in {<<>>} \cup Scores,
             bench \in {"extract", "score"}, bench' = "letter", Append1(replied, scores),
             row'.letter = row.letter, UNCHANGED <<images, engines>>,
             scores # <<>> => replied /\ row.truth # {}
      PROVE  Rows'
  <2>. DEFINE r == [id |-> row.letter.id, tier |-> row.letter.tier,
                    ocr |-> IF row.truth = {} THEN {} ELSE engines,
                    failed |-> ~replied, scores |-> scores]
  <2>1. r \in Result /\ r.ocr \subseteq engines
    BY <1>3 DEF Result, Setup
  <2>2. results' = Append(results, r)
    BY <1>3 DEF Append1
  <2>3. r.id = row.letter.id /\ (r.scores # <<>> => ~r.failed /\ r.ocr = engines)
    BY <1>3
  <2>. HIDE DEF r
  <2>. QED  BY <1>3, <2>1, <2>2, <2>3, OneMoreRow
<1>4. CASE BenchExtractFails
  BY <1>4, <1>3 DEF BenchExtractFails
<1>5. CASE BenchExtract
  <2>1. row'.letter = row.letter /\ UNCHANGED <<results, images, engines>>
        /\ bench = "extract" /\ bench' = "score"
    BY <1>5 DEF BenchExtract, Setup
  <2>. QED  BY <2>1, RowsStay DEF Rows
<1>6. CASE BenchScore
  <2>1. row'.letter = row.letter /\ UNCHANGED <<images, engines>> /\ bench = "score"
    BY <1>6 DEF BenchScore, Setup
  <2>2. CASE row.truth = {} /\ Append1(TRUE, <<>>) /\ bench' = "letter"
    BY <2>1, <2>2, <1>3
  <2>3. CASE /\ row.truth # {} /\ row' = [row EXCEPT !.scores = ScoreFields(row.answer, row.letter.truth)]
             /\ Append1(TRUE, row'.scores) /\ bench' = "letter"
    <3>1. row'.scores \in Scores
      BY <2>3, ScoresAreBooleans DEF Setup
    <3>2. PICK scores : scores = row'.scores
      OBVIOUS
    <3>. QED  BY <2>1, <2>3, <3>1, <3>2, <1>3
  <2>4. CASE bench' = "raising" /\ UNCHANGED results
    BY <2>1, <2>4, RowsStay
  <2>. QED  BY <1>6, <2>2, <2>3, <2>4 DEF BenchScore, BenchLeave
<1>7. CASE BenchDone
  <2>1. bench = "letter" /\ Left = {} /\ bench' = "join" /\ UNCHANGED <<results, images, engines>>
    BY <1>7 DEF BenchDone, BenchLeave
  <2>2. UpTo(row.letter.id) = images
    BY <2>1 DEF Left, UpTo, Setup
  <2>. QED  BY <2>1, <2>2, RowsStay DEF Rows
<1>8. CASE BenchJoin \/ BenchSummarize
  <2>1. /\ bench \in {"join", "raising", "summarize"}
        /\ bench' = "summarize" => bench = "join"
        /\ bench' \in {"summarize", "aborted", "reported"}
        /\ UNCHANGED <<results, images, engines>>
    BY <1>8 DEF BenchJoin, BenchSummarize
  <2>. QED  BY <2>1, RowsStay DEF Rows
<1>9. CASE UNCHANGED mainVars
  BY <1>9, RowsStay DEF mainVars, Rows
<1>10. (\E c \in Conns : Connect(c) \/ Disconnect(c)) \/ MonitorCheck \/ MonitorSample \/ MonitorWait
       \/ UNCHANGED benchVars => UNCHANGED mainVars
  BY DEF Connect, Disconnect, MonitorCheck, MonitorSample, MonitorWait, benchVars
<1>. QED  BY <1>1, <1>2, <1>4, <1>5, <1>6, <1>7, <1>8, <1>9, <1>10 DEF BenchNext, BenchStep

\* What the report says of the rows.
LEMMA SummaryOf ==
    /\ Summary.timed = {r.id : r \in {q \in Range(results) : ~q.failed}}
    /\ Summary.failures = {r.id : r \in {q \in Range(results) : q.failed}}
    /\ Summary.letters = Len(results)
    /\ Summary.engine_errors = Engines \ engines
    /\ \A f \in Fields :
         /\ Summary.scored[f] = {r.id : r \in {q \in Range(results) : q.scores # <<>>}}
         /\ Summary.right[f] \subseteq Summary.scored[f]
    /\ \A e \in Engines, t \in Tier :
         Summary.ocr[e][t] = {r.id : r \in {q \in Range(results) : q.tier = t /\ e \in q.ocr}}
BY DEF Summary, Ids, Timed, Tier

LEMMA SummaryAccounts ==
    ASSUME Setup, Rows, bench = "summarize", report' = Summary, UNCHANGED <<engines, images>>
    PROVE  ReportAccounts'
<1>. DEFINE rows == Range(results)
            S == Summary
<1>1. /\ \A r \in rows : r \in Result /\ r.ocr \subseteq engines
      /\ \A r \in rows : r.scores # <<>> => ~r.failed /\ r.ocr = engines
      /\ \A q, r \in rows : q.id = r.id => q = r
  BY DEF Range, Rows
<1>2. {r.id : r \in rows} = images /\ Len(results) = Cardinality(images)
  BY DEF Range, Rows, Read
<1>. HIDE DEF rows
<1>3. S.timed \cup S.failures = images /\ S.letters = Cardinality(images)
  BY <1>2, SummaryOf DEF rows
<1>4. S.timed \cap S.failures = {}
  BY <1>1, SummaryOf DEF rows
<1>5. ASSUME NEW e \in Engines, e \in S.engine_errors, NEW t \in Tier PROVE S.ocr[e][t] = {}
  BY <1>1, <1>5, SummaryOf DEF rows
<1>6. ASSUME NEW f \in Fields PROVE S.right[f] \subseteq S.scored[f] /\ S.scored[f] \subseteq S.timed
  BY <1>1, SummaryOf DEF rows
<1>7. ASSUME NEW e \in Engines \ S.engine_errors, NEW f \in Fields
      PROVE  S.scored[f] \subseteq UNION {S.ocr[e][t] : t \in Tier}
  <2>1. SUFFICES ASSUME NEW r \in rows, r.scores # <<>>
                 PROVE  \E t \in Tier : r.id \in S.ocr[e][t]
    BY SummaryOf DEF rows
  <2>2. r.tier \in Tier /\ e \in r.ocr
    BY <1>1, <2>1, <1>7, SummaryOf DEF Result
  <2>3. r.id \in S.ocr[e][r.tier]
    BY <2>2, SummaryOf DEF rows
  <2>. QED  BY <2>2, <2>3
<1>. HIDE DEF S
<1>8. report' = S /\ images' = images
  BY DEF S
<1>. QED  BY <1>3, <1>4, <1>5, <1>6, <1>7, <1>8 DEF ReportAccounts, Tier

LEMMA AccountsStep ==
    Seen /\ Setup /\ Rows /\ ReportAccounts /\ [BenchNext]_benchVars => ReportAccounts'
<1>. SUFFICES ASSUME Seen, Setup, Rows, ReportAccounts, [BenchNext]_benchVars PROVE ReportAccounts'
  OBVIOUS
<1>1. CASE BenchSummarize
  BY <1>1, SummaryAccounts DEF BenchSummarize
<1>2. CASE UNCHANGED <<report, images>>
  BY <1>2 DEF ReportAccounts
<1>3. CASE BenchStart
  <2>1. report' = NoReport
    BY <1>3 DEF BenchStart, Seen
  <2>. QED  BY <2>1 DEF ReportAccounts
<1>4. BenchNext \/ UNCHANGED benchVars => BenchSummarize \/ BenchStart \/ UNCHANGED <<report, images>>
  BY DEF BenchNext, BenchStep, BenchOcr, BenchExtractFails, BenchExtract, BenchScore, BenchDone,
     BenchJoin, MonitorCheck, MonitorSample, MonitorWait, Connect, Disconnect, benchVars, mainVars
<1>. QED  BY <1>1, <1>2, <1>3, <1>4

\* benchmark.py:154-255: the report accounts for every image, engine and field,
\* whatever engines are missing, extractions fail and truths are absent.
THEOREM AccountsHold == BenchSpec => []ReportAccounts
<1>1. BenchInit => ReportAccounts
  BY DEF BenchInit, BenchRest, ReportAccounts
<1>. QED  BY <1>1, SeenStarts, SeenSteps, SetupStarts, SetupSteps, RowsStart, RowsStep, AccountsStep,
             PTL DEF BenchSpec

-----------------------------------------------------------------------------
(* What is scored *)

Towns ==
    {"Utrecht", "Deventer", "Heerlen", "Amersfoort", "Assen", "Apeldoorn", "Arnhem", "Zeist", "Den",
     "Haag", "Koeln", "Aachen", "Muenchen", "Muenster", "Bochum", "Bonn", "Bristol", "Cardiff",
     "York", "London", "Rotherham"}
Types == {"invoice", "government_tax", "insurance", "medical", "bank", "subscription"}

\* A sender of some name in one of the towns.
IsFrom(s, domain) ==
    \E name : \E town \in Towns :
        s = Party(name, <<town>>, domain) \/ s = Party(name, <<"Den", "Haag">>, domain)

LEMMA SenderIsFrom ==
    ASSUME NEW s, NEW domain, IsFrom(s, domain)
    PROVE  s.domain = domain /\ s.town \in Seq(Towns)
<1>1. PICK name : \E town \in Towns :
        s = Party(name, <<town>>, domain) \/ s = Party(name, <<"Den", "Haag">>, domain)
  BY Zenon DEF IsFrom
<1>2. \A town \in Towns : <<town>> \in Seq(Towns)
  OBVIOUS
<1>3. <<"Den", "Haag">> \in Seq(Towns)
  BY DEF Towns
<1>4. ASSUME NEW words, s = Party(name, words, domain) PROVE s.domain = domain /\ s.town = words
  BY <1>4 DEF Party
<1> QED
  BY <1>1, <1>2, <1>3, <1>4

\* Towns are lists of words; only British Gas is of another domain than its type.
LEMMA SendersAreTold ==
    ASSUME NEW lang \in {"nl", "de", "en"}, NEW type \in Types, NEW s \in Senders[lang][type]
    PROVE  /\ s.town \in Seq(Towns)
           /\ s.domain = TruthCategory(type) <=> s.domain # "utility"
<1>1. ASSUME NEW domain, domain # "utility", TruthCategory(type) = domain,
             IsFrom(s, domain) \/ IsFrom(s, "utility")
      PROVE  /\ s.town \in Seq(Towns)
             /\ s.domain = TruthCategory(type) <=> s.domain # "utility"
  BY <1>1, SenderIsFrom
<1>2. ASSUME type = "invoice" PROVE IsFrom(s, "commercial")
  <2>1. CASE lang = "nl"
    BY <1>2, <2>1 DEF Senders, IsFrom, Towns
  <2>2. CASE lang = "de"
    BY <1>2, <2>2 DEF Senders, IsFrom, Towns
  <2>3. CASE lang = "en"
    BY <1>2, <2>3 DEF Senders, IsFrom, Towns
  <2> QED
    BY <2>1, <2>2, <2>3
<1>3. ASSUME type = "government_tax" PROVE IsFrom(s, "government")
  <2>1. CASE lang = "nl"
    BY <1>3, <2>1 DEF Senders, IsFrom, Towns
  <2>2. CASE lang = "de"
    BY <1>3, <2>2 DEF Senders, IsFrom, Towns
  <2>3. CASE lang = "en"
    BY <1>3, <2>3 DEF Senders, IsFrom, Towns
  <2> QED
    BY <2>1, <2>2, <2>3
<1>4. ASSUME type = "insurance" PROVE IsFrom(s, "insurance")
  <2>1. CASE lang = "nl"
    BY <1>4, <2>1 DEF Senders, IsFrom, Towns
  <2>2. CASE lang = "de"
    BY <1>4, <2>2 DEF Senders, IsFrom, Towns
  <2>3. CASE lang = "en"
    BY <1>4, <2>3 DEF Senders, IsFrom, Towns
  <2> QED
    BY <2>1, <2>2, <2>3
<1>5. ASSUME type = "medical" PROVE IsFrom(s, "medical")
  <2>1. CASE lang = "nl"
    BY <1>5, <2>1 DEF Senders, IsFrom, Towns
  <2>2. CASE lang = "de"
    BY <1>5, <2>2 DEF Senders, IsFrom, Towns
  <2>3. CASE lang = "en"
    BY <1>5, <2>3 DEF Senders, IsFrom, Towns
  <2> QED
    BY <2>1, <2>2, <2>3
<1>6. ASSUME type = "bank" PROVE IsFrom(s, "bank")
  <2>1. CASE lang = "nl"
    BY <1>6, <2>1 DEF Senders, IsFrom, Towns
  <2>2. CASE lang = "de"
    BY <1>6, <2>2 DEF Senders, IsFrom, Towns
  <2>3. CASE lang = "en"
    BY <1>6, <2>3 DEF Senders, IsFrom, Towns
  <2> QED
    BY <2>1, <2>2, <2>3
<1>7. ASSUME type = "subscription" PROVE IsFrom(s, "telecom") \/ IsFrom(s, "utility")
  <2>1. CASE lang = "nl"
    BY <1>7, <2>1 DEF Senders, IsFrom, Towns
  <2>2. CASE lang = "de"
    BY <1>7, <2>2 DEF Senders, IsFrom, Towns
  <2>3. CASE lang = "en"
    BY <1>7, <2>3 DEF Senders, IsFrom, Towns
  <2> QED
    BY <2>1, <2>2, <2>3
<1>8. CASE type \in {"invoice", "government_tax", "insurance"}
  <2>1. TruthCategory("invoice") = "commercial" /\ TruthCategory("government_tax") = "government"
        /\ TruthCategory("insurance") = "insurance"
    BY DEF TruthCategory
  <2> QED
    BY <1>1, <1>2, <1>3, <1>4, <1>8, <2>1
<1>9. CASE type \in {"medical", "bank", "subscription"}
  <2>1. TruthCategory("medical") = "medical" /\ TruthCategory("bank") = "bank"
        /\ TruthCategory("subscription") = "telecom"
    BY DEF TruthCategory
  <2> QED
    BY <1>1, <1>5, <1>6, <1>7, <1>9, <2>1
<1> QED
  BY <1>8, <1>9 DEF Types

LEMMA AxesAreTold ==
    ASSUME NEW i \in Nat PROVE LanguageOf(i) \in {"nl", "de", "en"} /\ DocTypeOf(i) \in Types
<1>1. \A x \in 0 .. 2 : LANGUAGES[x + 1] \in {"nl", "de", "en"}
  BY DEF LANGUAGES
<1>2. \A x \in 0 .. 5 : DOC_TYPES[x + 1] \in Types
  BY DEF DOC_TYPES, Types
<1>3. i % 3 \in 0 .. 2 /\ (i \div 9) % 6 \in 0 .. 5
  OBVIOUS
<1> QED
  BY <1>1, <1>2, <1>3 DEF LanguageOf, DocTypeOf

\* An answer that was copied from the page.
LEMMA CopiedIsScored ==
    ASSUME NEW i \in Nat, NEW letter \in Compose(i, Dates), NEW answer \in Faithful(letter)
    PROVE  LET scores == ScoreFields(answer, letter.truth)
               place == Filed(answer).correspondent_place
           IN  /\ \A f \in Fields \ {"category", "keywords_curated"} : scores[f]
               /\ scores["keywords_curated"] <=> Cardinality(Passing(answer.keywords)) >= 3
               /\ scores["category"] <=> letter.domain # "utility"
               /\ Filed(answer).valid
               /\ Filed(answer).document_date = letter.truth.document_date
               /\ [k \in DOMAIN place |-> place[k].text] = letter.town
<1> DEFINE lang == LanguageOf(i)
           type == DocTypeOf(i)
<1>1. PICK s \in Senders[lang][type], d \in RandomDates(Dates, FirstDate, LastDate),
           numeric \in BOOLEAN, ref \in References :
        letter = Letter(i, s, d, numeric, ref)
  BY DEF Compose
<1>2. lang \in {"nl", "de", "en"} /\ type \in Types
  BY AxesAreTold
<1>3. d \in Date
  BY BenchmarkAssumption DEF RandomDates, Date
<1>4. s.town \in Seq(Towns) /\ (s.domain = TruthCategory(type) <=> s.domain # "utility")
  BY <1>2, SendersAreTold
<1> DEFINE printed == FormatDate(d, lang, numeric)
           line == Dateline(s, lang, printed)
           city == CityLine(s, lang)
<1>5. /\ letter.domain = s.domain /\ letter.town = s.town
      /\ letter.truth = [language |-> lang, doc_type |-> type, sender_name |-> s.name,
                         document_date |-> d, reference |-> ref, full_text |-> i]
      /\ letter.page = [sender |-> Spelt(s.name, "Capital"), street |-> Street, city |-> city,
                        date |-> printed, dateline |-> line, reference |-> Spelt(ref, "Capital")]
  BY <1>1 DEF Letter
<1> HIDE DEF lang, type, printed, line, city
<1>6. PICK form \in {"Capital", "UPPER"}, whole \in BOOLEAN, k \in Keywords :
        answer = [category |-> s.domain, language |-> lang, sender_name |-> Spelt(s.name, form),
                  document_date |-> IF whole THEN line ELSE <<printed>>,
                  reference |-> Spelt(ref, form),
                  sender_place |-> IF whole THEN <<Street, city>> ELSE <<city>>,
                  keywords |-> k]
  BY <1>5 DEF Faithful, Spelt
<1>7. NormalizeDate(answer.document_date) = d /\ answer.document_date # <<>> /\ d # NoDate
  <2>1. NormalizeDate(line) = d /\ NormalizeDate(<<printed>>) = d
    BY <1>2, <1>3, DateReadBack DEF line, printed
  <2>2. line # <<>>
    BY <1>2 DEF line, Dateline
  <2>3. d # NoDate
    BY <1>3 DEF Date, IsDate, NoDate
  <2> QED
    BY <1>6, <2>1, <2>2, <2>3
<1>8. LET place == NormalizePlace(answer.sender_place)
      IN  [n \in DOMAIN place |-> place[n].text] = s.town
  <2>1. answer.sender_place \in {<<city>>, <<Street, city>>}
    BY <1>6
  <2> QED
    BY <1>2, <1>4, <2>1, PlaceReadBack DEF city
<1>9. Len(CurateKeywords(k, 8)) \in 3 .. 8 <=> Cardinality(Passing(k)) >= 3
  <2>1. k \in Seq(KeywordText)
    BY BenchmarkAssumption
  <2>2. Cardinality(Passing(k)) = Cardinality(Unseen(k)) /\ Cardinality(Unseen(k)) \in Nat
    BY <2>1, WordsAreCounted, FS_CardinalityType
  <2>3. Len(CurateKeywords(k, 8))
          = IF 8 < Cardinality(Unseen(k)) THEN 8 ELSE Cardinality(Unseen(k))
    BY <2>1, CurationKeeps
  <2>4. CASE 8 < Cardinality(Unseen(k))
    <3>1. Len(CurateKeywords(k, 8)) = 8
      BY <2>3, <2>4
    <3> QED
      BY <2>2, <2>4, <3>1
  <2>5. CASE ~(8 < Cardinality(Unseen(k)))
    <3>1. Len(CurateKeywords(k, 8)) = Cardinality(Unseen(k))
      BY <2>3, <2>5
    <3>2. \A c \in Nat : ~(8 < c) => (c \in 3 .. 8 <=> c >= 3)
      OBVIOUS
    <3>3. Cardinality(Unseen(k)) \in 3 .. 8 <=> Cardinality(Unseen(k)) >= 3
      BY <2>2, <2>5, <3>2
    <3> QED
      BY <2>2, <3>1, <3>3
  <2> QED
    BY <2>4, <2>5
<1> DEFINE scores == ScoreFields(answer, letter.truth)
<1>10. /\ answer.language = lang /\ answer.category = s.domain /\ answer.keywords = k
       /\ answer.sender_name = Spelt(s.name, form) /\ answer.reference = Spelt(ref, form)
  BY <1>6
<1>11. /\ letter.truth.language = lang /\ letter.truth.doc_type = type
       /\ letter.truth.sender_name = s.name /\ letter.truth.document_date = d
       /\ letter.truth.reference = ref
  BY <1>5
<1>12. Lower(Spelt(s.name, form)) = s.name /\ Lower(Spelt(ref, form)) = ref
  BY DEF Lower, Spelt
<1>15. /\ scores["language"] <=> answer.language = letter.truth.language
       /\ scores["sender_name"] <=> Lower(answer.sender_name) = letter.truth.sender_name
  BY DEF ScoreFields
<1>16. /\ scores["document_date"]
             <=> NormalizeDate(answer.document_date) = letter.truth.document_date
       /\ scores["reference"] <=> Lower(answer.reference) = letter.truth.reference
  BY DEF ScoreFields
<1>17. scores["keywords_curated"] <=> Cardinality(Passing(answer.keywords)) >= 3
  <2>1. scores["keywords_curated"] <=> Len(CurateKeywords(answer.keywords, 8)) \in 3 .. 8
    BY DEF ScoreFields
  <2> QED
    BY <1>9, <1>10, <2>1
<1>18. scores["category"] <=> letter.domain # "utility"
  <2>1. scores["category"] <=> answer.category = TruthCategory(letter.truth.doc_type)
    BY DEF ScoreFields
  <2> QED
    BY <1>4, <1>5, <1>10, <1>11, <2>1
<1>19. /\ scores["language"] /\ scores["sender_name"] /\ scores["document_date"]
       /\ scores["reference"]
  BY <1>7, <1>10, <1>11, <1>12, <1>15, <1>16
<1>13. /\ Filed(answer).valid /\ Filed(answer).document_date = d
       /\ Filed(answer).correspondent_place = NormalizePlace(answer.sender_place)
  BY <1>7 DEF Filed
<1>14. Fields \ {"category", "keywords_curated"}
         = {"language", "sender_name", "document_date", "reference"}
  BY DEF Fields
<1> HIDE DEF scores
<1> QED
  BY <1>5, <1>8, <1>13, <1>14, <1>17, <1>18, <1>19 DEF scores

\* The row that is read: its letter is one of the test set, what was answered
\* was copied from it, and the scores are those of that answer.
Composed == row.letter.id \in Nat /\ row.letter \in Compose(row.letter.id, Dates)
Answered == row.answer \in {Blank} \cup Faithful(row.letter)
Scored == row.scores = ScoreFields(row.answer, row.letter.truth)

Copied ==
    /\ bench \in {"extract", "score"} => Composed
    /\ bench = "extract" => row.scores = <<>>
    /\ bench = "score" => Answered
    /\ row.answer # NoAnswer => Composed /\ Answered
    /\ row.scores # <<>> => Composed /\ Answered /\ Scored

LEMMA CopiedStarts == BenchInit => Copied
BY DEF BenchInit, BenchRest, NoRow, Copied

LEMMA CopiedSteps == Setup /\ Copied /\ [BenchNext]_benchVars => Copied'
<1> SUFFICES ASSUME Setup, Copied, [BenchNext]_benchVars PROVE Copied'
  OBVIOUS
<1>1. CASE BenchStart
  BY <1>1 DEF BenchStart, Copied, Composed, Answered, Scored
<1>2. CASE BenchOcr
  <2>1. PICK i \in Left : \E keys \in TruthFiles : \E letter \in Compose(i, Dates) :
          row' = [letter |-> letter, truth |-> keys, answer |-> NoAnswer, scores |-> <<>>]
    BY <1>2 DEF BenchOcr
  <2>2. i \in Nat
    BY DEF Left, Setup
  <2>3. row'.letter.id = i /\ row'.letter \in Compose(i, Dates)
    BY <2>1, <2>2, LettersHaveTiers
  <2>4. row'.answer = NoAnswer /\ row'.scores = <<>>
    BY <2>1
  <2>5. bench' # "score"
    BY <1>2 DEF BenchOcr, BenchLeave
  <2> QED
    BY <2>2, <2>3, <2>4, <2>5 DEF Copied, Composed
<1>3. CASE BenchExtract
  <2>1. PICK answer \in Answers(row.letter) : row' = [row EXCEPT !.answer = answer]
    BY <1>3 DEF BenchExtract
  <2>2. row'.letter = row.letter /\ row'.answer = answer /\ row'.scores = row.scores
    BY <2>1 DEF Setup
  <2>3. Composed' /\ Answered'
    BY <1>3, <2>1, <2>2 DEF BenchExtract, Copied, Composed, Answered, Answers
  <2>4. bench = "extract" /\ bench' = "score" /\ row'.scores = <<>>
    BY <1>3, <2>2 DEF BenchExtract, Copied
  <2> QED
    BY <2>3, <2>4 DEF Copied
<1>4. CASE BenchScore
  <2>1. Composed /\ Answered /\ bench' \notin {"extract", "score"}
    BY <1>4 DEF BenchScore, BenchLeave, Copied
  <2>2. CASE UNCHANGED row
    BY <2>1, <2>2 DEF Copied, Composed, Answered, Scored
  <2>3. CASE row' = [row EXCEPT !.scores = ScoreFields(row.answer, row.letter.truth)]
    <3>1. /\ row'.letter = row.letter /\ row'.answer = row.answer
          /\ row'.scores = ScoreFields(row.answer, row.letter.truth)
      BY <2>3 DEF Setup
    <3> QED
      BY <2>1, <3>1 DEF Copied, Composed, Answered, Scored
  <2> QED
    BY <1>4, <2>2, <2>3 DEF BenchScore
<1>5. CASE UNCHANGED row /\ bench' \notin {"extract", "score"}
  BY <1>5 DEF Copied, Composed, Answered, Scored
<1>6. CASE UNCHANGED <<row, bench>>
  BY <1>6 DEF Copied, Composed, Answered, Scored
<1>7. BenchExtractFails \/ BenchDone \/ BenchJoin \/ BenchSummarize
        => UNCHANGED row /\ bench' \notin {"extract", "score"}
  BY DEF BenchExtractFails, BenchDone, BenchJoin, BenchSummarize, BenchLeave
<1>8. (\E c \in Conns : Connect(c) \/ Disconnect(c)) \/ MonitorCheck \/ MonitorSample \/ MonitorWait
      \/ UNCHANGED benchVars => UNCHANGED <<row, bench>>
  BY DEF Connect, Disconnect, MonitorCheck, MonitorSample, MonitorWait, benchVars, mainVars
<1> QED
  BY <1>1, <1>2, <1>3, <1>4, <1>5, <1>6, <1>7, <1>8 DEF BenchNext, BenchStep

\* benchmark.py:100-134, pipeline_runner.py:97-135: whatever letter is read, an
\* answer copied from its page scores on every field but British Gas's category,
\* and validation files the letter's date and town.
THEOREM ReadBackHolds == BenchSpec => []ReadBack
<1>1. Copied => ReadBack
  <2>1. SUFFICES ASSUME Copied, row.scores # <<>>, row.answer # Blank PROVE ReadBack
    BY DEF ReadBack
  <2>2. Composed /\ row.answer \in Faithful(row.letter) /\ Scored
    BY <2>1 DEF Copied, Answered
  <2> QED
    BY <2>2, CopiedIsScored DEF ReadBack, Composed, Scored
<1> QED
  BY <1>1, CopiedStarts, CopiedSteps, SetupStarts, SetupSteps, PTL DEF BenchSpec

LEMMA BlankSaysNothing == Blank.keywords = <<>>
BY Zenon DEF Blank

\* validate.py:42-73: however many keywords an answer has and however often they
\* are repeated, curation repeats none, loses one that passes only to eight
\* others, and is stable.
THEOREM CuratedHolds == BenchSpec => []Curated
<1>1. Copied => Curated
  <2>1. SUFFICES ASSUME Copied, bench = "score" PROVE Curated
    BY DEF Curated
  <2>2. row.answer.keywords \in Seq(KeywordText)
    <3>1. CASE row.answer = Blank
      <4>1. row.answer.keywords = <<>>
        BY <3>1, BlankSaysNothing
      <4>2. <<>> \in Seq(KeywordText)
        OBVIOUS
      <4> QED
        BY <4>1, <4>2
    <3>2. CASE row.answer \in Faithful(row.letter)
      <4>1. row.answer.keywords \in Keywords
        BY <3>2 DEF Faithful
      <4> QED
        BY <4>1, BenchmarkAssumption
    <3> QED
      BY <2>1, <3>1, <3>2 DEF Copied, Answered
  <2> QED
    BY <2>2, CurationHolds DEF Curated
<1> QED
  BY <1>1, CopiedStarts, CopiedSteps, SetupStarts, SetupSteps, PTL DEF BenchSpec
=============================================================================
