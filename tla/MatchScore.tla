------------------------------ MODULE MatchScore ------------------------------
(***************************************************************************)
(* calculate_match_score of includes/matching.php: the similarity of a     *)
(* lost and a found report, 0 to 100.                                      *)
(*                                                                         *)
(* A text is a sequence of tokens: words (maximal runs of ASCII letters    *)
(* and digits, in the case they were typed) and marks (single other        *)
(* characters).  Two words in a row have one blank between them.  A short  *)
(* field (category, color, brand) is a single value that Lower folds like  *)
(* strcasecmp does; Blank is the value PHP's empty() accepts.  Dates are   *)
(* day numbers: the columns are of type DATE, so strtotime yields whole    *)
(* days.                                                                   *)
(***************************************************************************)
EXTENDS Naturals, Sequences, FiniteSets

CONSTANTS
    Words,      \* words as typed, and the values of the short fields
    Marks,      \* characters that are neither letters nor digits nor blank
    Lower,      \* strtolower on words
    Stopwords,  \* the list in extract_keywords
    Blank       \* an absent or empty field

Tokens == Words \cup Marks

ReportType ==
    [category : Words, item_name : Seq(Tokens), description : Seq(Tokens),
     color : Words \cup {Blank}, brand : Words \cup {Blank},
     location : Seq(Tokens), date : Nat]

ASSUME WordsAssumption ==
    /\ Stopwords \subseteq Words
    /\ Blank \notin Words
    /\ Words \cap Marks = {}
    /\ Lower \in [Words -> Words]
    /\ \A w \in Words : Lower[Lower[w]] = Lower[w]

(* Fault: the stopwords are dropped before the text is lower-cased. *)
extract_keywords_late(text) ==
    [k \in {k \in DOMAIN text : text[k] \in Words \ Stopwords} |-> Lower[text[k]]]

(* A word as typed that counts: its lower-case form is no stopword. *)
Keywords == {w \in Words : Lower[w] \notin Stopwords}

(* Lower-case, blank the marks, split, drop the stopwords; the result      *)
(* keeps duplicates.  Its keys are the positions of the words that are     *)
(* left (array_values renumbers them, which nothing depends on).           *)
extract_keywords(text) ==
    [k \in {k \in DOMAIN text : text[k] \in Keywords} |-> Lower[text[k]]]

(* The keys of a whose value occurs in b. *)
array_intersect(a, b) == {k \in DOMAIN a : \E m \in DOMAIN b : a[k] = b[m]}

(* PHP round(n / d): half goes up.  The quotient is exact here and a       *)
(* floating-point number in PHP.                                           *)
RoundedQuotient(n, d) == (2 * n + d) \div (2 * d)

SameText(a, b) == Lower[a] = Lower[b]

(* Fault: the result of strcasecmp is used as if it meant equality. *)
CategoryPointsInverted(lost, found) ==
    IF SameText(lost.category, found.category) THEN 0 ELSE 30

CategoryPoints(lost, found) ==
    IF SameText(lost.category, found.category) THEN 30 ELSE 0

LostWords(lost) == extract_keywords(lost.item_name \o lost.description)

CommonWords(lost, found) ==
    array_intersect(LostWords(lost),
                    extract_keywords(found.item_name \o found.description))

KeywordCount(lost) == Cardinality(DOMAIN LostWords(lost))

CommonCount(lost, found) == Cardinality(CommonWords(lost, found))

(* Fault: only the divisor ignores repeated keywords. *)
KeywordPointsUnique(lost, found) ==
    LET unique == {LostWords(lost)[k] : k \in DOMAIN LostWords(lost)}
    IN  IF unique /= {}
        THEN RoundedQuotient(30 * CommonCount(lost, found), Cardinality(unique))
        ELSE 0

(* Fault: the overlap is a share of the longer of the two texts. *)
KeywordPointsLonger(lost, found) ==
    LET longer == IF KeywordCount(found) > KeywordCount(lost)
                  THEN KeywordCount(found) ELSE KeywordCount(lost)
    IN  IF longer > 0
        THEN RoundedQuotient(30 * CommonCount(lost, found), longer)
        ELSE 0

KeywordPoints(lost, found) ==
    IF KeywordCount(lost) > 0
    THEN RoundedQuotient(30 * CommonCount(lost, found), KeywordCount(lost))
    ELSE 0

(* color and brand: both given, equal but for the case *)
FieldPoints(a, b) ==
    IF a /= Blank /\ b /= Blank THEN IF SameText(a, b) THEN 10 ELSE 0 ELSE 0

LocationPoints(lost, found) ==
    IF array_intersect(extract_keywords(lost.location),
                       extract_keywords(found.location)) /= {}
    THEN 10 ELSE 0

DatePoints(lost, found) ==
    IF found.date >= lost.date /\ found.date <= lost.date + 30 THEN 10
    ELSE IF found.date >= lost.date /\ found.date <= lost.date + 60 THEN 5
    ELSE 0

RawScore(lost, found) ==
    CategoryPoints(lost, found) + KeywordPoints(lost, found)
    + FieldPoints(lost.color, found.color) + FieldPoints(lost.brand, found.brand)
    + LocationPoints(lost, found) + DatePoints(lost, found)

(* Fault: the keyword points are added twice and the total is not capped. *)
DoubledScore(lost, found) == RawScore(lost, found) + KeywordPoints(lost, found)

calculate_match_score(lost, found) ==
    IF RawScore(lost, found) > 100 THEN 100 ELSE RawScore(lost, found)
=============================================================================
