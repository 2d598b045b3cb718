-------------------------- MODULE MatchScoreProofs --------------------------
(***************************************************************************)
(* The score of calculate_match_score for reports of any length.           *)
(***************************************************************************)
EXTENDS ReportText, FiniteSetTheorems, SequenceTheorems, WellFoundedInduction, TLAPS

(* Integer division by a positive number, as the prover needs it. *)
LEMMA QuotientBounds ==
    ASSUME NEW a \in Nat, NEW b \in Nat, b > 0
    PROVE  a \div b \in Nat /\ b * (a \div b) <= a /\ a < b * (a \div b) + b
  OBVIOUS

(* The rounded share of 30 points never exceeds 30, and 15 points of it    *)
(* take 29/60 of the keywords.                                             *)
LEMMA ShareBounds ==
    ASSUME NEW c \in Nat, NEW t \in Nat, t > 0, c <= t
    PROVE  /\ RoundedQuotient(30 * c, t) \in 0..30
           /\ RoundedQuotient(30 * c, t) >= 15 => 60 * c >= 29 * t
  <1> DEFINE q == (2 * (30 * c) + t) \div (2 * t)
  <1>1. q \in Nat /\ (2 * t) * q <= 60 * c + t
    <2>1. 2 * (30 * c) + t \in Nat /\ 2 * t \in Nat /\ 2 * t > 0
      OBVIOUS
    <2>2. q \in Nat /\ (2 * t) * q <= 2 * (30 * c) + t
      BY <2>1, QuotientBounds
    <2> QED
      BY <2>2
  <1> HIDE DEF q
  <1>2. q <= 30
    <2>1. SUFFICES ASSUME q >= 31 PROVE FALSE
      BY <1>1
    <2>2. (2 * t) * q >= (2 * t) * 31
      BY <1>1, <2>1
    <2> QED
      BY <1>1, <2>2
  <1>3. ASSUME q >= 15 PROVE 60 * c >= 29 * t
    <2>1. (2 * t) * q >= (2 * t) * 15
      BY <1>1, <1>3
    <2> QED
      BY <1>1, <2>1
  <1> QED
    BY <1>1, <1>2, <1>3 DEF q, RoundedQuotient

(* From 29/60 of the keywords on there are 15 points, for all of them 30. *)
LEMMA ShareReached ==
    ASSUME NEW c \in Nat, NEW t \in Nat, t > 0, c <= t
    PROVE  /\ 60 * c >= 29 * t => RoundedQuotient(30 * c, t) >= 15
           /\ c = t => RoundedQuotient(30 * c, t) >= 30
  <1> DEFINE q == (2 * (30 * c) + t) \div (2 * t)
  <1>1. q \in Nat /\ 60 * c + t < (2 * t) * q + 2 * t
    <2>1. 2 * (30 * c) + t \in Nat /\ 2 * t \in Nat /\ 2 * t > 0
      OBVIOUS
    <2>2. q \in Nat /\ 2 * (30 * c) + t < (2 * t) * q + 2 * t
      BY <2>1, QuotientBounds
    <2> QED
      BY <2>2
  <1> HIDE DEF q
  <1>2. ASSUME 60 * c >= 29 * t PROVE q >= 15
    <2>1. SUFFICES ASSUME q <= 14 PROVE FALSE
      BY <1>1
    <2>2. (2 * t) * q <= (2 * t) * 14
      BY <1>1, <2>1
    <2> QED
      BY <1>1, <1>2, <2>2
  <1>3. ASSUME c = t PROVE q >= 30
    <2>1. SUFFICES ASSUME q <= 29 PROVE FALSE
      BY <1>1
    <2>2. (2 * t) * q <= (2 * t) * 29
      BY <1>1, <2>1
    <2> QED
      BY <1>1, <1>3, <2>2
  <1> QED
    BY <1>1, <1>2, <1>3 DEF q, RoundedQuotient

(* Words that are all shared, at most half as many as the text had, raise  *)
(* its share by at most a third: 10 points, rounding included.             *)
LEMMA ShareGain ==
    ASSUME NEW c \in Nat, NEW t \in Nat, NEW e \in Nat, NEW n \in Nat,
           t > 0, c <= t, 2 * e <= t, n >= t + e
    PROVE  RoundedQuotient(30 * (c + e), n) <= RoundedQuotient(30 * c, t) + 10
  <1> DEFINE x == (2 * (30 * (c + e)) + n) \div (2 * n)
             y == (2 * (30 * c) + t) \div (2 * t)
  <1>1. /\ 2 * (30 * (c + e)) + n \in Nat /\ 2 * n \in Nat /\ 2 * n > 0
        /\ 2 * (30 * c) + t \in Nat /\ 2 * t \in Nat /\ 2 * t > 0
    OBVIOUS
  <1>2. x \in Nat /\ (2 * n) * x <= 2 * (30 * (c + e)) + n
    BY <1>1, QuotientBounds
  <1>3. y \in Nat /\ 2 * (30 * c) + t < (2 * t) * y + 2 * t
    BY <1>1, QuotientBounds
  <1> HIDE DEF x, y
  <1>4. x <= y + 10
    <2>1. SUFFICES ASSUME x >= y + 11 PROVE FALSE
      BY <1>2, <1>3
    <2>2. n * x >= n * (y + 11)
      BY <1>2, <1>3, <2>1
    <2>3. n * (y + 11) = n * y + 11 * n
      BY <1>3
    <2>4. n * y >= t * y
      BY <1>3
    <2>5. (2 * n) * x = 2 * (n * x) /\ (2 * t) * y = 2 * (t * y)
      BY <1>2, <1>3
    <2>6. n * x \in Nat /\ n * y \in Nat /\ t * y \in Nat
      BY <1>2, <1>3
    <2>7. 2 * (n * x) <= 60 * c + 60 * e + n /\ 60 * c < 2 * (t * y) + t
      BY <1>2, <1>3, <2>5, <2>6
    <2> QED
      BY <2>2, <2>3, <2>4, <2>6, <2>7
  <1> QED
    BY <1>2, <1>3, <1>4 DEF x, y, RoundedQuotient

LEMMA KeywordsFinite ==
    ASSUME NEW l \in ReportType
    PROVE  IsFiniteSet(DOMAIN LostWords(l))
  <1> DEFINE text == l.item_name \o l.description
  <1>1. text \in Seq(Tokens)
    BY DEF ReportType
  <1>2. IsFiniteSet(DOMAIN text)
    <2> HIDE DEF text
    <2>1. Len(text) \in Int /\ DOMAIN text = 1 .. Len(text)
      BY <1>1
    <2>2. IsFiniteSet(1 .. Len(text))
      BY <2>1, FS_Interval
    <2> QED
      BY <2>1, <2>2
  <1>3. DOMAIN LostWords(l) \subseteq DOMAIN text
    BY DEF LostWords, extract_keywords
  <1> QED
    BY <1>2, <1>3, FS_Subset

LEMMA CommonFinite ==
    ASSUME NEW l \in ReportType, NEW f
    PROVE  CommonWords(l, f) \subseteq DOMAIN LostWords(l) /\ IsFiniteSet(CommonWords(l, f))
  <1>1. CommonWords(l, f) \subseteq DOMAIN LostWords(l)
    BY DEF CommonWords, array_intersect
  <1> QED
    BY <1>1, KeywordsFinite, FS_Subset

LEMMA CountBounds ==
    ASSUME NEW l \in ReportType, NEW f \in ReportType
    PROVE  /\ KeywordCount(l) \in Nat /\ CommonCount(l, f) \in Nat
           /\ CommonCount(l, f) <= KeywordCount(l)
  BY KeywordsFinite, CommonFinite, FS_Subset, FS_CardinalityType DEF KeywordCount, CommonCount

LEMMA KeywordBounds ==
    ASSUME NEW l \in ReportType, NEW f \in ReportType
    PROVE  /\ KeywordPoints(l, f) \in 0..30
           /\ KeywordPoints(l, f) >= 15 => 60 * CommonCount(l, f) >= 29 * KeywordCount(l)
  BY CountBounds, ShareBounds DEF KeywordPoints

(* The five other criteria. *)
LEMMA PointBounds ==
    ASSUME NEW l \in ReportType, NEW f \in ReportType
    PROVE  /\ CategoryPoints(l, f) \in {0, 30}
           /\ FieldPoints(l.color, f.color) \in {0, 10}
           /\ FieldPoints(l.brand, f.brand) \in {0, 10}
           /\ LocationPoints(l, f) \in {0, 10}
           /\ DatePoints(l, f) \in {0, 5, 10}
  BY DEF CategoryPoints, FieldPoints, LocationPoints, DatePoints

LEMMA RawScoreBounds ==
    ASSUME NEW l \in ReportType, NEW f \in ReportType
    PROVE  RawScore(l, f) \in 0..100
  BY KeywordBounds, PointBounds DEF RawScore

(* calculate_match_score returns 0 to 100 for all reports: what LostFound  *)
(* assumes of Score.                                                       *)
THEOREM ScoreInRange ==
    ASSUME NEW l \in ReportType, NEW f \in ReportType
    PROVE  calculate_match_score(l, f) \in 0..100
  BY RawScoreBounds DEF calculate_match_score

LEMMA InductiveTypeOK ==
    /\ Init => TypeOK
    /\ TypeOK /\ [Next]_vars => TypeOK'
  <1>1. Init => TypeOK
    BY DEF Init, TypeOK
  <1>2. ASSUME TypeOK, [Next]_vars
        PROVE  TypeOK'
    <2>1. lost \in ReportType /\ found \in ReportType
      BY <1>2, ReportsAssumption DEF TypeOK
    <2> QED
      BY <1>2, <2>1, ScoreInRange DEF TypeOK, Next, Call, vars
  <1> QED
    BY <1>1, <1>2

(* A call of calculate_match_score returns a score for the pair it got. *)
THEOREM TypeCorrect == Spec => []TypeOK
  BY InductiveTypeOK, PTL DEF Spec

(* The min() at the end of calculate_match_score never takes points away,  *)
(* however long the descriptions are and however often they repeat a word. *)
THEOREM NeverCut == Spec => []NoPointsCut
  <1>1. TypeOK => NoPointsCut
    BY ReportsAssumption, RawScoreBounds DEF TypeOK, NoPointsCut
  <1> QED
    BY <1>1, InductiveTypeOK, PTL DEF Spec

LEMMA CategoryNeedsWords ==
    ASSUME lost \in ReportType, found \in ReportType,
           score \in {Unscored, calculate_match_score(lost, found)}
    PROVE  CategoryOrWords
  <1> SUFFICES ASSUME score /= Unscored, score >= MATCH_THRESHOLD,
                      ~SameText(lost.category, found.category)
               PROVE  60 * CommonCount(lost, found) >= 29 * KeywordCount(lost)
    BY DEF CategoryOrWords
  <1>1. RawScore(lost, found) >= 55
    BY RawScoreBounds, ThresholdAssumption DEF calculate_match_score
  <1>2. CategoryPoints(lost, found) = 0
    BY DEF CategoryPoints
  <1>3. KeywordPoints(lost, found) >= 15
    BY <1>1, <1>2, PointBounds, KeywordBounds DEF RawScore
  <1> QED
    BY <1>3, KeywordBounds

(* Two reports of different categories are matched only if the found one   *)
(* repeats at least 29/60 of the keywords of the lost one.                 *)
THEOREM CategoryRequiredIsh == Spec => []CategoryOrWords
  <1> DEFINE Inv == TypeOK /\ score \in {Unscored, calculate_match_score(lost, found)}
  <1>1. Init => Inv
    BY InductiveTypeOK DEF Init
  <1>2. Inv /\ [Next]_vars => Inv'
    BY InductiveTypeOK DEF Next, Call, vars
  <1>3. Inv => CategoryOrWords
    <2> SUFFICES ASSUME Inv
                 PROVE  CategoryOrWords
      OBVIOUS
    <2>1. lost \in ReportType /\ found \in ReportType
      BY ReportsAssumption DEF TypeOK
    <2> QED
      BY <2>1, CategoryNeedsWords
  <1> QED
    BY <1>1, <1>2, <1>3, PTL DEF Spec

-----------------------------------------------------------------------------
(* More words, other case *)

(* Of two shares of the same total the larger earns no fewer points. *)
LEMMA ShareMonotone ==
    ASSUME NEW c \in Nat, NEW d \in Nat, NEW t \in Nat, t > 0, c <= d
    PROVE  RoundedQuotient(30 * c, t) <= RoundedQuotient(30 * d, t)
  <1> DEFINE q == (2 * (30 * c) + t) \div (2 * t)
             r == (2 * (30 * d) + t) \div (2 * t)
  <1>1. /\ 2 * (30 * c) + t \in Nat /\ 2 * (30 * d) + t \in Nat
        /\ 2 * t \in Nat /\ 2 * t > 0
    OBVIOUS
  <1>2. q \in Nat /\ (2 * t) * q <= 60 * c + t
    BY <1>1, QuotientBounds
  <1>3. r \in Nat /\ 60 * d + t < (2 * t) * r + 2 * t
    BY <1>1, QuotientBounds
  <1> HIDE DEF q, r
  <1>4. (2 * t) * q < (2 * t) * (r + 1)
    BY <1>2, <1>3
  <1>5. q < r + 1
    <2>1. SUFFICES ASSUME q >= r + 1 PROVE FALSE
      BY <1>2, <1>3
    <2>2. (2 * t) * q >= (2 * t) * (r + 1)
      BY <1>2, <1>3, <2>1
    <2> QED
      BY <1>2, <1>3, <1>4, <2>2
  <1> QED
    BY <1>2, <1>3, <1>5 DEF q, r, RoundedQuotient

(* The found report matters to the keyword points only by the words that   *)
(* occur in it.                                                            *)
LEMMA KeywordPointsMonotone ==
    ASSUME NEW l \in ReportType, NEW f \in ReportType, NEW g \in ReportType,
           CommonWords(l, f) \subseteq CommonWords(l, g)
    PROVE  KeywordPoints(l, f) <= KeywordPoints(l, g)
  <1>1. IsFiniteSet(CommonWords(l, g))
    BY CommonFinite
  <1>2. CommonCount(l, f) <= CommonCount(l, g)
    BY <1>1, FS_Subset DEF CommonCount
  <1> QED
    BY <1>2, CountBounds, ShareMonotone DEF KeywordPoints

LEMMA ConcatAppend ==
    ASSUME NEW T, NEW s \in Seq(T), NEW t \in Seq(T), NEW c \in T
    PROVE  s \o Append(t, c) = Append(s \o t, c) /\ s \o t \in Seq(T)
  <1>1. <<c>> \in Seq(T) /\ s \o t \in Seq(T)
    BY ConcatProperties
  <1>2. s \o (t \o <<c>>) = (s \o t) \o <<c>>
    BY <1>1, ConcatAssociative
  <1>3. t \o <<c>> = Append(t, c)
    BY AppendIsConcat
  <1>4. (s \o t) \o <<c>> = Append(s \o t, c)
    BY <1>1, AppendIsConcat
  <1> QED
    BY <1>1, <1>2, <1>3, <1>4

LEMMA MoreWords ==
    ASSUME NEW l \in ReportType, NEW f \in ReportType, NEW w \in Words
    PROVE  calculate_match_score(l, f) <=
           calculate_match_score(l, [f EXCEPT !.description = Append(@, w)])
  <1> DEFINE g == [f EXCEPT !.description = Append(@, w)]
             short == f.item_name \o f.description
             long == g.item_name \o g.description
  <1>1. /\ f.item_name \in Seq(Tokens) /\ f.description \in Seq(Tokens) /\ w \in Tokens
    BY DEF ReportType, Tokens
  <1>2. Append(f.description, w) \in Seq(Tokens)
    BY <1>1, AppendProperties
  <1>3. /\ g \in ReportType /\ g.item_name = f.item_name
        /\ g.description = Append(f.description, w)
        /\ g.category = f.category /\ g.color = f.color /\ g.brand = f.brand
        /\ g.location = f.location /\ g.date = f.date
    BY <1>2 DEF ReportType
  <1> HIDE DEF g
  <1>4. \A k \in DOMAIN short : k \in DOMAIN long /\ long[k] = short[k]
    <2>1. short \in Seq(Tokens) /\ long = Append(short, w)
      <3>1. /\ f.item_name \o Append(f.description, w) = Append(f.item_name \o f.description, w)
            /\ f.item_name \o f.description \in Seq(Tokens)
        BY <1>1, ConcatAppend, Zenon
      <3> QED
        BY <1>3, <3>1
    <2> HIDE DEF short, long
    <2>2. Append(short, w) \in Seq(Tokens)
      BY <1>1, <2>1, AppendProperties
    <2>3. /\ Len(Append(short, w)) = Len(short) + 1 /\ Len(short) \in Nat
          /\ \A k \in 1 .. Len(short) : Append(short, w)[k] = short[k]
      BY <1>1, <2>1, AppendProperties, LenProperties
    <2>4. DOMAIN short = 1 .. Len(short) /\ DOMAIN long = 1 .. Len(short) + 1
      BY <2>1, <2>2, <2>3, LenProperties
    <2> QED
      BY <2>1, <2>3, <2>4
  <1> HIDE DEF short, long
  <1>5. \A k \in DOMAIN extract_keywords(short) :
            /\ k \in DOMAIN extract_keywords(long)
            /\ extract_keywords(long)[k] = extract_keywords(short)[k]
    BY <1>4 DEF extract_keywords
  <1>6. CommonWords(l, f) \subseteq CommonWords(l, g)
    BY <1>5 DEF CommonWords, array_intersect, short, long
  <1>7. KeywordPoints(l, f) <= KeywordPoints(l, g)
    BY <1>3, <1>6, KeywordPointsMonotone
  <1>8. /\ CategoryPoints(l, g) = CategoryPoints(l, f)
        /\ LocationPoints(l, g) = LocationPoints(l, f)
        /\ DatePoints(l, g) = DatePoints(l, f)
    BY <1>3 DEF CategoryPoints, LocationPoints, DatePoints
  <1>9. RawScore(l, f) <= RawScore(l, g)
    <2>1. /\ FieldPoints(l.color, g.color) = FieldPoints(l.color, f.color)
          /\ FieldPoints(l.brand, g.brand) = FieldPoints(l.brand, f.brand)
      BY <1>3
    <2>2. KeywordPoints(l, f) \in Int /\ KeywordPoints(l, g) \in Int
      <3>1. KeywordPoints(l, f) \in 0..30 /\ KeywordPoints(l, g) \in 0..30
        BY <1>3, KeywordBounds, Zenon
      <3> QED
        BY <3>1
    <2>3. /\ CategoryPoints(l, f) \in Int /\ LocationPoints(l, f) \in Int
          /\ FieldPoints(l.color, f.color) \in Int /\ FieldPoints(l.brand, f.brand) \in Int
          /\ DatePoints(l, f) \in Int
      BY DEF CategoryPoints, LocationPoints, FieldPoints, DatePoints
    <2> QED
      BY <1>7, <1>8, <2>1, <2>2, <2>3 DEF RawScore
  <1>10. calculate_match_score(l, f) <= calculate_match_score(l, g)
    <2>1. RawScore(l, f) \in 0..100 /\ RawScore(l, g) \in 0..100
      BY <1>3, RawScoreBounds
    <2> QED
      BY <1>9, <2>1 DEF calculate_match_score
  <1> QED
    BY <1>10 DEF g

(* Finders lose nothing by describing more: for reports of any length a    *)
(* further word never lowers the rounded share, nor any other points.      *)
THEOREM MoreWordsNeverHurt == Spec => []FoundWordsMonotone
  <1>1. TypeOK => FoundWordsMonotone
    BY ReportsAssumption, MoreWords DEF TypeOK, FoundWordsMonotone
  <1> QED
    BY <1>1, InductiveTypeOK, PTL DEF Spec

LEMMA LowerKeepsKeywords ==
    ASSUME NEW text \in Seq(Tokens)
    PROVE  /\ LowerText(text) \in Seq(Tokens)
           /\ extract_keywords(LowerText(text)) = extract_keywords(text)
  <1>1. \A k \in DOMAIN text : text[k] \in Tokens
    OBVIOUS
  <1>2. ASSUME NEW k \in DOMAIN text
        PROVE  /\ LowerText(text)[k] \in Tokens
               /\ LowerText(text)[k] \in Keywords <=> text[k] \in Keywords
               /\ text[k] \in Keywords => Lower[LowerText(text)[k]] = Lower[text[k]]
    BY <1>1, WordsAssumption DEF LowerText, Keywords, Tokens
  <1>3. DOMAIN LowerText(text) = DOMAIN text
    BY DEF LowerText
  <1>4. LowerText(text) \in Seq(Tokens)
    BY <1>2, <1>3, SeqDef, LenProperties DEF LowerText
  <1> QED
    BY <1>2, <1>3, <1>4 DEF extract_keywords

LEMMA LowerConcat ==
    ASSUME NEW s \in Seq(Tokens), NEW t \in Seq(Tokens)
    PROVE  LowerText(s) \o LowerText(t) = LowerText(s \o t)
  <1>1. LowerText(s) \in Seq(Tokens) /\ LowerText(t) \in Seq(Tokens) /\ s \o t \in Seq(Tokens)
    BY LowerKeepsKeywords, ConcatProperties
  <1>2. LowerText(s \o t) \in Seq(Tokens)
    BY <1>1, LowerKeepsKeywords
  <1>3. /\ Len(LowerText(s)) = Len(s) /\ Len(LowerText(t)) = Len(t)
        /\ Len(LowerText(s \o t)) = Len(s) + Len(t)
    BY <1>1, <1>2, LenProperties, ConcatProperties DEF LowerText
  <1>4. \A k \in 1 .. Len(s) + Len(t) :
            (s \o t)[k] = IF k <= Len(s) THEN s[k] ELSE t[k - Len(s)]
    BY ConcatProperties
  <1>5. /\ LowerText(s) \o LowerText(t) \in Seq(Tokens)
        /\ Len(LowerText(s) \o LowerText(t)) = Len(s) + Len(t)
        /\ \A k \in 1 .. Len(s) + Len(t) :
              (LowerText(s) \o LowerText(t))[k] =
                  IF k <= Len(s) THEN LowerText(s)[k] ELSE LowerText(t)[k - Len(s)]
    <2> DEFINE a == LowerText(s)
               b == LowerText(t)
    <2>1. a \in Seq(Tokens) /\ b \in Seq(Tokens) /\ Len(a) = Len(s) /\ Len(b) = Len(t)
      BY <1>1, <1>3
    <2> HIDE DEF a, b
    <2>2. /\ a \o b \in Seq(Tokens) /\ Len(a \o b) = Len(a) + Len(b)
          /\ \A k \in 1 .. Len(a) + Len(b) :
                (a \o b)[k] = IF k <= Len(a) THEN a[k] ELSE b[k - Len(a)]
      BY <2>1, ConcatProperties
    <2> QED
      BY <2>1, <2>2 DEF a, b
  <1>6. /\ Len(s) \in Nat /\ Len(t) \in Nat
        /\ DOMAIN s = 1 .. Len(s) /\ DOMAIN t = 1 .. Len(t)
        /\ DOMAIN (s \o t) = 1 .. Len(s) + Len(t)
    BY <1>1, LenProperties, ConcatProperties
  <1>7. ASSUME NEW k \in 1 .. Len(s) + Len(t)
        PROVE  (LowerText(s) \o LowerText(t))[k] = LowerText(s \o t)[k]
    <2>1. LowerText(s \o t)[k] = IF (s \o t)[k] \in Words THEN Lower[(s \o t)[k]] ELSE (s \o t)[k]
      BY <1>6 DEF LowerText
    <2>2. CASE k <= Len(s)
      <3>1. k \in DOMAIN s
        BY <1>6, <2>2
      <3> QED
        BY <1>4, <1>5, <2>1, <2>2, <3>1 DEF LowerText
    <2>3. CASE ~(k <= Len(s))
      <3>1. k - Len(s) \in DOMAIN t
        BY <1>6, <2>3
      <3> QED
        BY <1>4, <1>5, <2>1, <2>3, <3>1 DEF LowerText
    <2> QED
      BY <2>2, <2>3
  <1> QED
    BY <1>2, <1>3, <1>5, <1>7, SeqEqual

LEMMA CaseIgnored ==
    ASSUME NEW l \in ReportType, NEW f \in ReportType
    PROVE  calculate_match_score(l, f) =
           calculate_match_score(LowerReport(l), f)
  <1> DEFINE m == LowerReport(l)
  <1>1. /\ m.item_name = LowerText(l.item_name)
        /\ m.description = LowerText(l.description)
        /\ m.location = LowerText(l.location) /\ m.category = Lower[l.category]
        /\ m.color = LowerField(l.color) /\ m.brand = LowerField(l.brand)
        /\ m.date = l.date
    BY DEF ReportType, LowerReport
  <1>2. /\ l.item_name \in Seq(Tokens) /\ l.description \in Seq(Tokens)
        /\ l.location \in Seq(Tokens) /\ l.category \in Words
        /\ l.color \in Words \cup {Blank} /\ l.brand \in Words \cup {Blank}
    BY DEF ReportType
  <1> HIDE DEF m
  <1>3. LostWords(m) = LostWords(l)
    <2>1. l.item_name \o l.description \in Seq(Tokens)
      BY <1>2, ConcatProperties
    <2>2. m.item_name \o m.description = LowerText(l.item_name \o l.description)
      BY <1>1, <1>2, LowerConcat
    <2> QED
      BY <2>1, <2>2, LowerKeepsKeywords DEF LostWords
  <1>4. KeywordPoints(m, f) = KeywordPoints(l, f)
    BY <1>3 DEF KeywordPoints, KeywordCount, CommonCount, CommonWords
  <1>5. CategoryPoints(m, f) = CategoryPoints(l, f)
    BY <1>1, <1>2, WordsAssumption DEF CategoryPoints, SameText
  <1>6. LocationPoints(m, f) = LocationPoints(l, f)
    BY <1>1, <1>2, LowerKeepsKeywords DEF LocationPoints
  <1>7. DatePoints(m, f) = DatePoints(l, f)
    BY <1>1 DEF DatePoints
  <1>8. RawScore(m, f) = RawScore(l, f)
    <2>1. ASSUME NEW a \in Words \cup {Blank}, NEW b
          PROVE  FieldPoints(LowerField(a), b) = FieldPoints(a, b)
      <3>1. CASE a = Blank
        BY <3>1 DEF FieldPoints, LowerField
      <3>2. CASE a \in Words
        <4>1. LowerField(a) = Lower[a] /\ Lower[a] /= Blank /\ a /= Blank
          BY <3>2, WordsAssumption DEF LowerField
        <4>2. SameText(Lower[a], b) <=> SameText(a, b)
          BY <3>2, WordsAssumption DEF SameText
        <4> QED
          BY <4>1, <4>2 DEF FieldPoints
      <3> QED
        BY <3>1, <3>2
    <2>2. /\ FieldPoints(m.color, f.color) = FieldPoints(l.color, f.color)
          /\ FieldPoints(m.brand, f.brand) = FieldPoints(l.brand, f.brand)
      BY <1>1, <1>2, <2>1
    <2> QED
      BY <1>4, <1>5, <1>6, <1>7, <2>2 DEF RawScore
  <1>9. calculate_match_score(l, f) = calculate_match_score(m, f)
    BY <1>8 DEF calculate_match_score
  <1> QED
    BY <1>9 DEF m

(* The score of any two reports is the same if the lost one was typed in   *)
(* lower case: extract_keywords folds the case before it looks at the      *)
(* stopwords, and strcasecmp ignores it.                                   *)
THEOREM CaseNeverMatters == Spec => []CaseBlind
  <1>1. TypeOK => CaseBlind
    BY ReportsAssumption, CaseIgnored DEF TypeOK, CaseBlind
  <1> QED
    BY <1>1, InductiveTypeOK, PTL DEF Spec

-----------------------------------------------------------------------------
(* Induction without an operator parameter, over sets of numbers and of    *)
(* sequences, and what FlattenSeq computes.                                *)

LEMMA NatInSet ==
    ASSUME NEW S, 0 \in S, \A n \in Nat : n \in S => n + 1 \in S
    PROVE  Nat \subseteq S
  <1> DEFINE Left == {0 .. n : n \in Nat \ S}
             R == StrictSubsetOrdering(Nat)
             U == FiniteSubsetsOf(Nat)
  <1>1. SUFFICES ASSUME Left /= {} PROVE FALSE
    OBVIOUS
  <1>2. IsWellFoundedOn(R, U)
    BY FS_StrictSubsetOrderingWellFounded
  <1>3. ASSUME NEW n \in Nat
        PROVE  0 .. n \in U
    <2>1. IsFiniteSet(0 .. n)
      BY FS_Interval
    <2> QED
      BY <2>1 DEF FiniteSubsetsOf
  <1>4. Left \subseteq U
    BY <1>3
  <1>5. PICK X \in Left : \A Y \in Left : ~(<<Y, X>> \in R)
    <2> HIDE DEF Left, R, U
    <2> QED
      BY <1>1, <1>2, <1>4, WFMin
  <1>6. PICK x \in Nat \ S : X = 0 .. x
    OBVIOUS
  <1>7. x - 1 \in Nat \ S
    BY <1>6
  <1>8. 0 .. (x - 1) \in Left
    BY <1>7
  <1>9. <<0 .. (x - 1), X>> \in R
    <2>1. /\ 0 .. (x - 1) \subseteq X /\ X \subseteq Nat
          /\ x \in X /\ x \notin 0 .. (x - 1)
      BY <1>6
    <2>2. 0 .. (x - 1) /= X
      BY <2>1
    <2> QED
      BY <2>1, <2>2 DEF StrictSubsetOrdering
  <1> QED
    BY <1>5, <1>8, <1>9

LEMMA SeqInSet ==
    ASSUME NEW T, NEW S, <<>> \in S,
           \A t \in Seq(T), c \in T : t \in S => Append(t, c) \in S
    PROVE  Seq(T) \subseteq S
  <1> DEFINE N == {n \in Nat : \A t \in Seq(T) : Len(t) = n => t \in S}
  <1>1. 0 \in N
    BY EmptySeq
  <1>2. ASSUME NEW n \in Nat, n \in N
        PROVE  n + 1 \in N
    <2> SUFFICES ASSUME NEW t \in Seq(T), Len(t) = n + 1
                 PROVE  t \in S
      BY <1>2
    <2>1. t /= <<>>
      BY <1>2, EmptySeq
    <2>2. PICK s \in Seq(T), c \in T : t = Append(s, c)
      BY <2>1, SequenceEmptyOrAppend
    <2>3. Len(s) = n
      BY <2>2, AppendProperties, LenProperties
    <2> QED
      BY <1>2, <2>2, <2>3
  <1>3. Nat \subseteq N
    <2> HIDE DEF N
    <2> QED
      BY <1>1, <1>2, NatInSet
  <1> QED
    BY <1>3, LenProperties

(* f[k] is the concatenation of the first k members of s. *)
Concats(f, s, n) == f[0] = <<>> /\ \A k \in 1 .. n : f[k] = f[k - 1] \o s[k]

LEMMA ConcatsExist ==
    ASSUME NEW T, NEW s \in Seq(Seq(T)), NEW n \in 0 .. Len(s)
    PROVE  \E f \in [0 .. n -> Seq(T)] : Concats(f, s, n)
  <1> DEFINE N == {m \in Nat : m <= Len(s) => \E f \in [0 .. m -> Seq(T)] : Concats(f, s, m)}
  <1>1. 0 \in N
    <2> DEFINE f == [k \in 0 .. 0 |-> <<>>]
    <2>1. f \in [0 .. 0 -> Seq(T)] /\ Concats(f, s, 0)
      BY EmptySeq DEF Concats
    <2> QED
      BY <2>1
  <1>2. ASSUME NEW m \in Nat, m \in N
        PROVE  m + 1 \in N
    <2> SUFFICES ASSUME m + 1 <= Len(s)
                 PROVE  \E f \in [0 .. m + 1 -> Seq(T)] : Concats(f, s, m + 1)
      OBVIOUS
    <2>1. PICK f \in [0 .. m -> Seq(T)] : Concats(f, s, m)
      BY <1>2, LenProperties
    <2> DEFINE g == [k \in 0 .. m + 1 |-> IF k <= m THEN f[k] ELSE f[m] \o s[m + 1]]
    <2>2. s[m + 1] \in Seq(T) /\ f[m] \in Seq(T)
      BY <2>1, ElementOfSeq, LenProperties
    <2>3. f[m] \o s[m + 1] \in Seq(T)
      BY <2>2, ConcatProperties
    <2>4. g \in [0 .. m + 1 -> Seq(T)]
      BY <2>1, <2>3
    <2>a. (\A k \in 0 .. m : g[k] = f[k]) /\ g[m + 1] = f[m] \o s[m + 1]
      BY SMTT(30)
    <2> HIDE DEF g
    <2>5. g[0] = <<>>
      <3>1. g[0] = f[0]
        BY <2>a, 0 \in 0 .. m
      <3> QED
        BY <2>1, <3>1 DEF Concats
    <2>6. ASSUME NEW k \in 1 .. m + 1
          PROVE  g[k] = g[k - 1] \o s[k]
      <3>1. CASE k \in 1 .. m
        <4>1. g[k] = f[k] /\ g[k - 1] = f[k - 1]
          BY <2>a, <3>1, SMTT(30)
        <4>2. f[k] = f[k - 1] \o s[k]
          BY <2>1, <3>1 DEF Concats
        <4> QED
          BY <4>1, <4>2
      <3>2. CASE k = m + 1
        <4>1. k - 1 = m /\ g[m] = f[m]
          BY <2>a, <3>2
        <4> QED
          BY <2>a, <3>2, <4>1
      <3>3. k \in 1 .. m \/ k = m + 1
        OBVIOUS
      <3> QED
        BY <3>1, <3>2, <3>3
    <2>7. Concats(g, s, m + 1)
      BY <2>5, <2>6 DEF Concats
    <2> QED
      BY <2>4, <2>7
  <1>3. Nat \subseteq N
    <2> HIDE DEF N
    <2> QED
      BY <1>1, <1>2, NatInSet
  <1> QED
    BY <1>3, LenProperties

LEMMA ConcatsAgree ==
    ASSUME NEW s, NEW n \in Nat, NEW f, NEW g, Concats(f, s, n), Concats(g, s, n)
    PROVE  f[n] = g[n]
  <1> DEFINE N == {k \in Nat : k <= n => f[k] = g[k]}
  <1>1. 0 \in N
    BY DEF Concats
  <1>2. ASSUME NEW k \in Nat, k \in N
        PROVE  k + 1 \in N
    <2> SUFFICES ASSUME k + 1 <= n
                 PROVE  f[k + 1] = g[k + 1]
      OBVIOUS
    <2>1. k + 1 \in 1 .. n /\ (k + 1) - 1 = k /\ f[k] = g[k]
      BY <1>2
    <2>2. f[k + 1] = f[k] \o s[k + 1] /\ g[k + 1] = g[k] \o s[k + 1]
      BY <2>1 DEF Concats
    <2> QED
      BY <2>1, <2>2
  <1>3. Nat \subseteq N
    <2> HIDE DEF N
    <2> QED
      BY <1>1, <1>2, NatInSet
  <1> QED
    BY <1>3

LEMMA FlattenIsConcat ==
    ASSUME NEW T, NEW s \in Seq(Seq(T))
    PROVE  \E f \in [0 .. Len(s) -> Seq(T)] :
               Concats(f, s, Len(s)) /\ FlattenSeq(s) = f[Len(s)]
  <1>1. Len(s) \in Nat
    BY LenProperties
  <1>2. PICK g \in [0 .. Len(s) -> Seq(T)] : Concats(g, s, Len(s))
    BY <1>1, ConcatsExist
  <1>3. CASE Len(s) = 0
    <2>1. s = <<>>
      BY <1>3, EmptySeq
    <2>2. FlattenSeq(s) = s
      BY <1>3 DEF FlattenSeq
    <2> QED
      BY <1>2, <1>3, <2>1, <2>2 DEF Concats
  <1>4. CASE Len(s) /= 0
    <2> DEFINE flatten == CHOOSE h : h = [i \in 1 .. Len(s) |->
                                            IF i = 1 THEN s[i] ELSE h[i-1] \o s[i]]
               first == [i \in 1 .. Len(s) |-> g[i]]
               full == [k \in 0 .. Len(s) |-> IF k = 0 THEN <<>> ELSE flatten[k]]
    <2>1. ASSUME NEW i \in 1 .. Len(s)
          PROVE  first[i] = IF i = 1 THEN s[i] ELSE first[i-1] \o s[i]
      <3>1. g[i] = g[i - 1] \o s[i] /\ first[i] = g[i]
        BY <1>2 DEF Concats
      <3>2. CASE i = 1
        <4>1. s[1] \in Seq(T) /\ g[0] = <<>>
          BY <1>1, <1>2, <1>4, ElementOfSeq DEF Concats
        <4>2. <<>> \o s[1] = s[1]
          BY <4>1, ConcatEmptySeq
        <4>3. i - 1 = 0
          BY <3>2
        <4>4. g[i] = s[1]
          BY <3>1, <3>2, <4>1, <4>2, <4>3
        <4> QED
          BY <3>1, <3>2, <4>4
      <3>3. CASE i /= 1
        <4>1. first[i - 1] = g[i - 1]
          BY <1>1, <3>3
        <4> QED
          BY <3>1, <3>3, <4>1
      <3> QED
        BY <3>2, <3>3
    <2>2. first = [i \in 1 .. Len(s) |-> IF i = 1 THEN s[i] ELSE first[i-1] \o s[i]]
      BY <2>1, SMTT(30)
    <2> HIDE DEF first
    <2>3. flatten = [i \in 1 .. Len(s) |-> IF i = 1 THEN s[i] ELSE flatten[i-1] \o s[i]]
      BY <2>2, Zenon
    <2>4. FlattenSeq(s) = flatten[Len(s)]
      BY <1>4 DEF FlattenSeq
    <2> HIDE DEF flatten
    <2>5. Concats(full, s, Len(s))
      <3>1. full[0] = <<>>
        BY <1>1
      <3>2. ASSUME NEW k \in 1 .. Len(s)
            PROVE  full[k] = full[k - 1] \o s[k]
        <4>1. full[k] = flatten[k] /\ (k /= 1 => full[k - 1] = flatten[k - 1])
          BY <1>1
        <4>2. CASE k = 1
          <5>1. s[1] \in Seq(T)
            BY <1>1, <1>4, ElementOfSeq
          <5>2. <<>> \o s[1] = s[1]
            BY <5>1, ConcatEmptySeq
          <5>3. flatten[1] = s[1]
            BY <1>1, <1>4, <2>3
          <5>4. full[1] = s[1] /\ k - 1 = 0
            BY <4>1, <4>2, <5>3, SMTT(30)
          <5> QED
            BY <3>1, <4>2, <5>2, <5>4
        <4>3. CASE k /= 1
          BY <2>3, <4>1, <4>3
        <4> QED
          BY <4>2, <4>3
      <3> QED
        BY <3>1, <3>2 DEF Concats
    <2>6. full[Len(s)] = flatten[Len(s)]
      BY <1>1, <1>4
    <2> HIDE DEF full
    <2>7. full[Len(s)] = g[Len(s)]
      BY <1>1, <1>2, <2>5, ConcatsAgree
    <2> QED
      BY <1>2, <2>4, <2>6, <2>7
  <1> QED
    BY <1>3, <1>4

LEMMA FlattenType ==
    ASSUME NEW T, NEW s \in Seq(Seq(T))
    PROVE  /\ FlattenSeq(s) \in Seq(T)
           /\ s = <<>> => FlattenSeq(s) = <<>>
  <1>1. PICK f \in [0 .. Len(s) -> Seq(T)] :
            Concats(f, s, Len(s)) /\ FlattenSeq(s) = f[Len(s)]
    BY FlattenIsConcat
  <1>2. Len(s) \in 0 .. Len(s)
    BY LenProperties
  <1>3. FlattenSeq(s) \in Seq(T)
    BY <1>1, <1>2
  <1>4. s = <<>> => FlattenSeq(s) = <<>>
    BY <1>1, EmptySeq DEF Concats
  <1> QED
    BY <1>3, <1>4

(* FlattenSeq as a recursion on the last member. *)
LEMMA FlattenAppend ==
    ASSUME NEW T, NEW s \in Seq(Seq(T)), NEW c \in Seq(T)
    PROVE  FlattenSeq(Append(s, c)) = FlattenSeq(s) \o c
  <1> DEFINE t == Append(s, c)
  <1>1. /\ t \in Seq(Seq(T)) /\ Len(t) = Len(s) + 1 /\ Len(s) \in Nat
        /\ t[Len(s) + 1] = c /\ \A k \in 1 .. Len(s) : t[k] = s[k]
    BY AppendProperties, LenProperties
  <1> HIDE DEF t
  <1>2. PICK f \in [0 .. Len(s) -> Seq(T)] :
            Concats(f, s, Len(s)) /\ FlattenSeq(s) = f[Len(s)]
    BY FlattenIsConcat
  <1>3. PICK g \in [0 .. Len(t) -> Seq(T)] :
            Concats(g, t, Len(t)) /\ FlattenSeq(t) = g[Len(t)]
    BY <1>1, FlattenIsConcat
  <1>4. Concats(g, s, Len(s))
    <2>1. g[0] = <<>> /\ \A k \in 1 .. Len(t) : g[k] = g[k - 1] \o t[k]
      BY <1>3 DEF Concats
    <2>2. ASSUME NEW k \in 1 .. Len(s)
          PROVE  g[k] = g[k - 1] \o s[k]
      <3>1. k \in 1 .. Len(t) /\ t[k] = s[k]
        BY <1>1
      <3> QED
        BY <2>1, <3>1
    <2> QED
      BY <2>1, <2>2 DEF Concats
  <1>5. f[Len(s)] = g[Len(s)]
    BY <1>1, <1>2, <1>4, ConcatsAgree, ZenonT(40)
  <1>6. g[Len(t)] = g[Len(s)] \o c
    <2>1. Len(t) \in 1 .. Len(t) /\ Len(t) - 1 = Len(s)
      BY <1>1
    <2> QED
      BY <1>1, <1>3, <2>1 DEF Concats
  <1> QED
    BY <1>2, <1>3, <1>5, <1>6 DEF t

-----------------------------------------------------------------------------
(* Escaping *)

LEMMA EntityType ==
    ASSUME NEW c \in Specials
    PROVE  Entity[c] \in Seq(Tokens)
  <1>1. Entity[c] \in Seq(Tokens \ LikeMarks)
    BY EntityAssumption
  <1> QED
    BY <1>1, SeqMonotonic

LEMMA EscapeType ==
    ASSUME NEW c \in Tokens
    PROVE  Escape(c) \in Seq(Tokens)
  <1>1. <<c>> \in Seq(Tokens)
    OBVIOUS
  <1>2. c \in Specials => Entity[c] \in Seq(Tokens)
    BY EntityType
  <1> QED
    BY <1>1, <1>2 DEF Escape

(* What htmlspecialchars puts together. *)
Pieces(t) == [k \in DOMAIN t |-> Escape(t[k])]

LEMMA PiecesType ==
    ASSUME NEW t \in Seq(Tokens)
    PROVE  /\ Pieces(t) \in Seq(Seq(Tokens)) /\ Len(Pieces(t)) = Len(t)
           /\ \A k \in 1 .. Len(t) : Pieces(t)[k] = Escape(t[k])
  <1>1. Len(t) \in Nat /\ DOMAIN t = 1 .. Len(t) /\ \A k \in 1 .. Len(t) : t[k] \in Tokens
    BY LenProperties, ElementOfSeq
  <1>2. Pieces(t) \in [1 .. Len(t) -> Seq(Tokens)]
    BY <1>1, EscapeType DEF Pieces
  <1>3. \A k \in 1 .. Len(t) : Pieces(t)[k] = Escape(t[k])
    BY <1>1 DEF Pieces
  <1> QED
    BY <1>1, <1>2, <1>3, SeqDef, LenProperties

LEMMA CleanType ==
    ASSUME NEW text \in Seq(Tokens)
    PROVE  clean(text) \in Seq(Tokens)
  BY PiecesType, FlattenType DEF clean, htmlspecialchars, Pieces

LEMMA CleanEmpty == clean(<<>>) = <<>>
  <1>1. Pieces(<<>>) \in Seq(Seq(Tokens)) /\ Len(Pieces(<<>>)) = 0
    BY PiecesType, EmptySeq
  <1>2. Pieces(<<>>) = <<>>
    BY <1>1, EmptySeq
  <1>3. FlattenSeq(<<>>) = <<>>
    BY <1>1, <1>2, FlattenType
  <1> QED
    BY <1>2, <1>3 DEF clean, htmlspecialchars, Pieces

(* clean as a recursion on the last token. *)
LEMMA CleanAppend ==
    ASSUME NEW text \in Seq(Tokens), NEW c \in Tokens
    PROVE  clean(Append(text, c)) = clean(text) \o Escape(c)
  <1> DEFINE more == Append(text, c)
  <1>2. /\ more \in Seq(Tokens) /\ Len(more) = Len(text) + 1 /\ Len(text) \in Nat
        /\ more[Len(text) + 1] = c /\ \A k \in 1 .. Len(text) : more[k] = text[k]
    BY AppendProperties, LenProperties
  <1> HIDE DEF more
  <1>3. Escape(c) \in Seq(Tokens)
    BY EscapeType
  <1>4. Pieces(more) = Append(Pieces(text), Escape(c))
    <2> DEFINE a == Pieces(text)
               b == Pieces(more)
               d == Escape(c)
    <2>1. /\ a \in Seq(Seq(Tokens)) /\ Len(a) = Len(text)
          /\ \A k \in 1 .. Len(text) : a[k] = Escape(text[k])
      BY PiecesType
    <2>2. /\ b \in Seq(Seq(Tokens)) /\ Len(b) = Len(text) + 1
          /\ \A k \in 1 .. Len(text) + 1 : b[k] = Escape(more[k])
      BY <1>2, PiecesType
    <2>3. d \in Seq(Tokens)
      BY <1>3
    <2>4. d = Escape(c)
      OBVIOUS
    <2> HIDE DEF a, b, d
    <2>5. /\ Append(a, d) \in Seq(Seq(Tokens)) /\ Len(Append(a, d)) = Len(a) + 1
          /\ \A k \in 1 .. Len(a) : Append(a, d)[k] = a[k]
          /\ Append(a, d)[Len(a) + 1] = d
      BY <2>1, <2>3, AppendProperties
    <2>6. ASSUME NEW k \in 1 .. Len(b)
          PROVE  b[k] = Append(a, d)[k]
      <3>1. CASE k \in 1 .. Len(text)
        <4>1. b[k] = Escape(text[k])
          BY <1>2, <2>2, <3>1
        <4> QED
          BY <2>1, <2>5, <3>1, <4>1
      <3>2. CASE k = Len(text) + 1
        <4>1. b[k] = Escape(c)
          BY <1>2, <2>2, <3>2
        <4> QED
          BY <2>1, <2>4, <2>5, <3>2, <4>1
      <3>3. k \in 1 .. Len(text) \/ k = Len(text) + 1
        BY <1>2, <2>2
      <3> QED
        BY <3>1, <3>2, <3>3
    <2>7. b = Append(a, d)
      BY <2>1, <2>2, <2>5, <2>6, SeqEqual
    <2> QED
      BY <2>7 DEF a, b, d
  <1>5. FlattenSeq(Append(Pieces(text), Escape(c))) = FlattenSeq(Pieces(text)) \o Escape(c)
    BY <1>3, PiecesType, FlattenAppend
  <1>6. clean(text) = FlattenSeq(Pieces(text)) /\ clean(more) = FlattenSeq(Pieces(more))
    BY DEF clean, htmlspecialchars, Pieces
  <1>7. clean(more) = clean(text) \o Escape(c)
    BY <1>4, <1>5, <1>6, Zenon
  <1> QED
    BY <1>7 DEF more

LEMMA TextsAssociate ==
    ASSUME NEW x \in Seq(Tokens), NEW y \in Seq(Tokens), NEW z \in Seq(Tokens)
    PROVE  (x \o y) \o z = x \o (y \o z)
  BY ConcatAssociative, SMT

(* Escaping goes token by token, so it commutes with concatenation. *)
LEMMA CleanConcat ==
    ASSUME NEW s \in Seq(Tokens), NEW t \in Seq(Tokens)
    PROVE  clean(s \o t) = clean(s) \o clean(t)
  <1> DEFINE S == {u \in Seq(Tokens) : clean(s \o u) = clean(s) \o clean(u)}
  <1>1. <<>> \in S
    <2>1. s \o <<>> = s /\ clean(s) \o <<>> = clean(s)
      BY CleanType, ConcatEmptySeq
    <2> QED
      BY <2>1, CleanEmpty, EmptySeq
  <1>2. ASSUME NEW u \in Seq(Tokens), NEW c \in Tokens, u \in S
        PROVE  Append(u, c) \in S
    <2>1. s \o Append(u, c) = Append(s \o u, c) /\ s \o u \in Seq(Tokens)
      BY ConcatAppend
    <2>2. clean(Append(s \o u, c)) = clean(s \o u) \o Escape(c)
      BY <2>1, CleanAppend
    <2>3. clean(Append(u, c)) = clean(u) \o Escape(c)
      BY CleanAppend
    <2>4. (clean(s) \o clean(u)) \o Escape(c) = clean(s) \o (clean(u) \o Escape(c))
      <3>1. clean(s) \in Seq(Tokens) /\ clean(u) \in Seq(Tokens) /\ Escape(c) \in Seq(Tokens)
        BY CleanType, EscapeType
      <3> QED
        BY <3>1, TextsAssociate, SMTT(30)
    <2>5. Append(u, c) \in Seq(Tokens)
      BY AppendProperties
    <2> QED
      BY <1>2, <2>1, <2>2, <2>3, <2>4, <2>5
  <1>3. Seq(Tokens) \subseteq S
    <2> HIDE DEF S
    <2> QED
      BY <1>1, <1>2, SeqInSet
  <1> QED
    BY <1>3

(* A text without special characters is stored as it was typed. *)
LEMMA CleanPlain ==
    ASSUME NEW t \in Seq(Tokens), \A k \in DOMAIN t : t[k] \notin Specials
    PROVE  clean(t) = t
  <1> DEFINE S == {u \in Seq(Tokens) :
                     (\A k \in 1 .. Len(u) : u[k] \notin Specials) => clean(u) = u}
  <1>1. <<>> \in S
    BY CleanEmpty, EmptySeq
  <1>2. ASSUME NEW u \in Seq(Tokens), NEW c \in Tokens, u \in S
        PROVE  Append(u, c) \in S
    <2>1. /\ Append(u, c) \in Seq(Tokens) /\ Len(Append(u, c)) = Len(u) + 1
          /\ \A k \in 1 .. Len(u) : Append(u, c)[k] = u[k]
          /\ Append(u, c)[Len(u) + 1] = c /\ Len(u) \in Nat
      BY AppendProperties, LenProperties
    <2>2. ASSUME \A k \in 1 .. Len(Append(u, c)) : Append(u, c)[k] \notin Specials
          PROVE  clean(Append(u, c)) = Append(u, c)
      <3>1. Len(u) + 1 \in 1 .. Len(Append(u, c)) /\ 1 .. Len(u) \subseteq 1 .. Len(Append(u, c))
        BY <2>1
      <3>2. c \notin Specials
        BY <2>1, <2>2, <3>1
      <3>3. clean(u) = u
        BY <1>2, <2>1, <2>2, <3>1
      <3>4. Escape(c) = <<c>>
        BY <3>2 DEF Escape
      <3>5. clean(Append(u, c)) = clean(u) \o Escape(c)
        BY CleanAppend
      <3>6. Append(u, c) = u \o <<c>>
        BY AppendIsConcat
      <3> QED
        BY <3>3, <3>4, <3>5, <3>6, Zenon
    <2> QED
      BY <2>1, <2>2
  <1>3. Seq(Tokens) \subseteq S
    <2> HIDE DEF S
    <2> QED
      BY <1>1, <1>2, SeqInSet
  <1> QED
    BY <1>3, LenProperties

-----------------------------------------------------------------------------
(* Counting tokens *)

Occurrences(t, W) == {k \in DOMAIN t : t[k] \in W}

Count(t, W) == Cardinality(Occurrences(t, W))

LEMMA CountType ==
    ASSUME NEW T, NEW t \in Seq(T), NEW W
    PROVE  IsFiniteSet(Occurrences(t, W)) /\ Count(t, W) \in Nat
  <1>1. Len(t) \in Int /\ DOMAIN t = 1 .. Len(t)
    BY LenProperties
  <1>2. IsFiniteSet(1 .. Len(t))
    BY <1>1, FS_Interval
  <1>3. Occurrences(t, W) \subseteq 1 .. Len(t)
    BY <1>1 DEF Occurrences
  <1>4. IsFiniteSet(Occurrences(t, W))
    BY <1>2, <1>3, FS_Subset
  <1> QED
    BY <1>4, FS_CardinalityType DEF Count

LEMMA CountEmpty ==
    ASSUME NEW W
    PROVE  Count(<<>>, W) = 0
  <1>1. Occurrences(<<>>, W) = {}
    BY DEF Occurrences
  <1> QED
    BY <1>1, FS_EmptySet DEF Count

LEMMA CountAppend ==
    ASSUME NEW T, NEW t \in Seq(T), NEW c \in T, NEW W
    PROVE  Count(Append(t, c), W) = IF c \in W THEN Count(t, W) + 1 ELSE Count(t, W)
  <1>1. /\ Append(t, c) \in Seq(T) /\ Len(Append(t, c)) = Len(t) + 1
        /\ \A k \in 1 .. Len(t) : Append(t, c)[k] = t[k]
        /\ Append(t, c)[Len(t) + 1] = c
    BY AppendProperties
  <1>2. Len(t) \in Nat /\ DOMAIN t = 1 .. Len(t) /\ DOMAIN Append(t, c) = 1 .. Len(t) + 1
    BY <1>1, LenProperties
  <1>3. Occurrences(Append(t, c), W) =
            IF c \in W THEN Occurrences(t, W) \cup {Len(t) + 1} ELSE Occurrences(t, W)
    BY <1>1, <1>2 DEF Occurrences
  <1>4. Len(t) + 1 \notin Occurrences(t, W)
    BY <1>2 DEF Occurrences
  <1>5. Cardinality(Occurrences(t, W) \cup {Len(t) + 1}) = Cardinality(Occurrences(t, W)) + 1
    BY <1>4, CountType, FS_AddElement
  <1> QED
    BY <1>3, <1>5 DEF Count

LEMMA CountConcat ==
    ASSUME NEW T, NEW s \in Seq(T), NEW t \in Seq(T), NEW W
    PROVE  Count(s \o t, W) = Count(s, W) + Count(t, W)
  <1> DEFINE S == {u \in Seq(T) : Count(s \o u, W) = Count(s, W) + Count(u, W)}
  <1>1. <<>> \in S
    <2>1. s \o <<>> = s /\ <<>> \in Seq(T)
      BY ConcatEmptySeq, EmptySeq
    <2>2. Count(s, W) \in Nat
      BY CountType
    <2>3. Count(<<>>, W) = 0
      BY CountEmpty
    <2> QED
      BY <2>1, <2>2, <2>3
  <1>2. ASSUME NEW u \in Seq(T), NEW c \in T, u \in S
        PROVE  Append(u, c) \in S
    <2>1. s \o Append(u, c) = Append(s \o u, c) /\ s \o u \in Seq(T)
      BY ConcatAppend
    <2>2. Count(s, W) \in Nat /\ Count(u, W) \in Nat
      BY CountType
    <2>3. Count(Append(s \o u, c), W) =
              IF c \in W THEN Count(s \o u, W) + 1 ELSE Count(s \o u, W)
      BY <2>1, CountAppend
    <2>4. Count(Append(u, c), W) = IF c \in W THEN Count(u, W) + 1 ELSE Count(u, W)
      BY CountAppend
    <2>5. Append(u, c) \in Seq(T)
      BY AppendProperties
    <2>6. Count(s \o u, W) = Count(s, W) + Count(u, W)
      BY <1>2
    <2>7. Count(Append(s \o u, c), W) = Count(s, W) + Count(Append(u, c), W)
      BY <2>2, <2>3, <2>4, <2>6
    <2> QED
      BY <2>1, <2>5, <2>7
  <1>3. Seq(T) \subseteq S
    <2> HIDE DEF S
    <2> QED
      BY <1>1, <1>2, SeqInSet
  <1> QED
    BY <1>3

-----------------------------------------------------------------------------
(* Reports between the form and the score *)

LEMMA StoredTextType ==
    ASSUME NEW channel, NEW text \in Seq(Tokens)
    PROVE  StoredText(channel, text) \in Seq(Tokens)
  BY CleanType DEF StoredText

LEMMA StoredReportType ==
    ASSUME NEW kind, NEW form \in FormType
    PROVE  /\ StoredReport(kind, form) \in ReportType
           /\ StoredReport(kind, form).item_name =
                  StoredText(form.channel, form.report.item_name)
           /\ StoredReport(kind, form).description =
                  StoredText(form.channel, form.report.description)
  <1> DEFINE r == form.report
             n == StoredText(form.channel, r.item_name)
             d == StoredText(form.channel, r.description)
             p == StoredText(form.channel, r.location)
  <1>1. r \in ReportType
    BY DEF FormType
  <1>2. StoredReport(kind, form) = [r EXCEPT !.item_name = n, !.description = d, !.location = p]
    BY <1>1 DEF StoredReport, ReportType
  <1>3. n \in Seq(Tokens) /\ d \in Seq(Tokens) /\ p \in Seq(Tokens)
    BY <1>1, StoredTextType DEF ReportType
  <1>4. StoredReport(kind, form).item_name = n /\ StoredReport(kind, form).description = d
    <2> HIDE DEF n, d, p, r
    <2> QED
      BY <1>1, <1>2 DEF ReportType
  <1>5. StoredReport(kind, form) \in ReportType
    <2> HIDE DEF n, d, p, r
    <2> QED
      BY <1>1, <1>2, <1>3 DEF ReportType
  <1> QED
    BY <1>4, <1>5

LEMMA SameShortFields ==
    ASSUME NEW kind, NEW form \in FormType
    PROVE  /\ StoredReport(kind, form).category = form.report.category
           /\ StoredReport(kind, form).color = form.report.color
           /\ StoredReport(kind, form).brand = form.report.brand
           /\ StoredReport(kind, form).date = form.report.date
  <1>1. form.report \in ReportType
    BY DEF FormType
  <1> QED
    BY <1>1 DEF StoredReport, ReportType

(* The rows are what the forms made them, and the score is theirs. *)
FormInv ==
    /\ lost_form \in FormType
    /\ found_form \in FormType
    /\ lost = StoredReport("lost", lost_form)
    /\ found = StoredReport("found", found_form)
    /\ score \in {Unscored, calculate_match_score(lost, found)}

LEMMA FormInvHolds == FormSpec => []FormInv
  <1>1. FormInit => FormInv
    BY FormPairsAssumption DEF FormInit, FormInv
  <1>2. FormInv /\ [FormNext]_<<vars, forms>> => FormInv'
    <2> SUFFICES ASSUME FormInv, [FormNext]_<<vars, forms>>
                 PROVE  FormInv'
      OBVIOUS
    <2>1. /\ lost' = lost /\ found' = found
          /\ lost_form' = lost_form /\ found_form' = found_form
      BY DEF FormNext, Call, vars, forms
    <2>2. score' \in {score, calculate_match_score(lost, found)}
      BY DEF FormNext, Call, vars
    <2> QED
      BY <2>1, <2>2 DEF FormInv
  <1> QED
    BY <1>1, <1>2, PTL DEF FormSpec

LEMMA FormReports ==
    ASSUME FormInv
    PROVE  lost \in ReportType /\ found \in ReportType
  BY StoredReportType DEF FormInv

(* The rubric's promises hold for the rows that the forms store, whatever  *)
(* was typed: escaping turns any typed report into one that Spec covers.   *)
THEOREM RubricForForms ==
    FormSpec => [](NoPointsCut /\ CategoryOrWords /\ FoundWordsMonotone /\ CaseBlind)
  <1>1. ASSUME FormInv
        PROVE  NoPointsCut /\ CategoryOrWords /\ FoundWordsMonotone /\ CaseBlind
    <2>1. lost \in ReportType /\ found \in ReportType
      BY <1>1, FormReports
    <2>2. NoPointsCut
      BY <2>1, RawScoreBounds DEF NoPointsCut
    <2>3. CategoryOrWords
      BY <1>1, <2>1, CategoryNeedsWords DEF FormInv
    <2>4. FoundWordsMonotone
      BY <2>1, MoreWords DEF FoundWordsMonotone
    <2>5. CaseBlind
      BY <2>1, CaseIgnored DEF CaseBlind
    <2> QED
      BY <2>2, <2>3, <2>4, <2>5
  <1> QED
    BY <1>1, FormInvHolds, PTL

-----------------------------------------------------------------------------
(* Searching *)

Scans(f, text, p, n) ==
    f = [k \in 0 .. n |-> IF k = 0 THEN LikeStart ELSE LikeStep(text, p[k], f[k - 1])]

LEMMA ScanExists ==
    ASSUME NEW text, NEW p, NEW n \in Nat
    PROVE  \E f : Scans(f, text, p, n)
  <1> DEFINE N == {m \in Nat : \E f : Scans(f, text, p, m)}
  <1>1. 0 \in N
    <2> DEFINE f == [k \in 0 .. 0 |-> LikeStart]
    <2>1. Scans(f, text, p, 0)
      BY DEF Scans
    <2> HIDE DEF f
    <2> QED
      BY <2>1
  <1>2. ASSUME NEW m \in Nat, m \in N
        PROVE  m + 1 \in N
    <2>1. PICK f : Scans(f, text, p, m)
      BY <1>2
    <2> DEFINE last == LikeStep(text, p[m + 1], f[m])
               g == [k \in 0 .. m + 1 |-> IF k <= m THEN f[k] ELSE last]
    <2>2. \A k \in 0 .. m : f[k] = IF k = 0 THEN LikeStart ELSE LikeStep(text, p[k], f[k - 1])
      BY <2>1 DEF Scans
    <2>3. (\A k \in 0 .. m : g[k] = f[k]) /\ g[m + 1] = last
      <3> HIDE DEF last
      <3> QED
        BY SMTT(30)
    <2>4. g = [k \in 0 .. m + 1 |-> g[k]]
      OBVIOUS
    <2> HIDE DEF g
    <2>5. ASSUME NEW k \in 0 .. m + 1
          PROVE  g[k] = IF k = 0 THEN LikeStart ELSE LikeStep(text, p[k], g[k - 1])
      <3>1. CASE k \in 0 .. m
        <4>1. g[k] = f[k] /\ (k /= 0 => g[k - 1] = f[k - 1])
          BY <2>3, <3>1
        <4> QED
          BY <2>2, <3>1, <4>1
      <3>2. CASE k = m + 1
        <4>1. k /= 0 /\ k - 1 = m /\ g[m] = f[m]
          BY <2>3, <3>2
        <4> QED
          BY <2>3, <3>2, <4>1
      <3>3. k \in 0 .. m \/ k = m + 1
        OBVIOUS
      <3> QED
        BY <3>1, <3>2, <3>3
    <2>6. Scans(g, text, p, m + 1)
      BY <2>4, <2>5 DEF Scans
    <2> QED
      BY <2>6
  <1>3. Nat \subseteq N
    <2> HIDE DEF N
    <2> QED
      BY <1>1, <1>2, NatInSet
  <1> QED
    BY <1>3

(* Like as a recursion on the pattern. *)
LEMMA LikeScan ==
    ASSUME NEW text, NEW p, Len(p) \in Nat
    PROVE  \E f : /\ f[0] = LikeStart
                  /\ \A k \in 1 .. Len(p) : f[k] = LikeStep(text, p[k], f[k - 1])
                  /\ Like(text, p) <=> Len(text) \in f[Len(p)].at
  <1> DEFINE scan == CHOOSE f : f = [k \in 0 .. Len(p) |->
                       IF k = 0 THEN LikeStart ELSE LikeStep(text, p[k], f[k - 1])]
  <1>1. \E f : f = [k \in 0 .. Len(p) |->
                       IF k = 0 THEN LikeStart ELSE LikeStep(text, p[k], f[k - 1])]
    <2>1. PICK f : Scans(f, text, p, Len(p))
      BY ScanExists
    <2> QED
      BY <2>1 DEF Scans
  <1>2. scan = [k \in 0 .. Len(p) |->
                       IF k = 0 THEN LikeStart ELSE LikeStep(text, p[k], scan[k - 1])]
    BY <1>1, Zenon
  <1>3. Like(text, p) <=> Len(text) \in scan[Len(p)].at
    BY DEF Like
  <1> HIDE DEF scan
  <1>4. scan[0] = LikeStart
    BY <1>2
  <1>5. ASSUME NEW k \in 1 .. Len(p)
        PROVE  scan[k] = LikeStep(text, p[k], scan[k - 1])
    BY <1>2
  <1> QED
    BY <1>3, <1>4, <1>5

(* A token of the pattern other than a backslash passes over itself. *)
LEMMA LikeSame ==
    ASSUME NEW text \in Seq(Tokens), NEW scan, NEW i \in Nat, NEW c,
           scan.escape = FALSE, i \in scan.at,
           i + 1 \in DOMAIN text, text[i + 1] = c, c /= "\\"
    PROVE  /\ i + 1 \in LikeStep(text, c, scan).at
           /\ LikeStep(text, c, scan).escape = FALSE
  <1>1. Len(text) \in Nat /\ i + 1 \in 0 .. Len(text) /\ (i + 1) - 1 = i
    BY LenProperties
  <1>2. SameToken(text[i + 1], c)
    BY DEF SameToken
  <1>3. c = "_" => text[i + 1] \in Marks
    BY EntityAssumption DEF LikeMarks
  <1>4. i <= i + 1
    OBVIOUS
  <1>5. LikeStep(text, c, scan).escape = FALSE
    BY DEF LikeStep
  <1>6. CASE c = "%"
    BY <1>1, <1>4, <1>5, <1>6 DEF LikeStep
  <1>7. CASE c = "_"
    BY <1>1, <1>3, <1>5, <1>7 DEF LikeStep
  <1>8. CASE c /= "%" /\ c /= "_"
    BY <1>1, <1>2, <1>5, <1>8 DEF LikeStep
  <1> QED
    BY <1>6, <1>7, <1>8

LEMMA LikeAny ==
    ASSUME NEW text \in Seq(Tokens), NEW scan, NEW i \in Nat, NEW k \in 0 .. Len(text),
           scan.escape = FALSE, i \in scan.at, i <= k
    PROVE  /\ k \in LikeStep(text, "%", scan).at
           /\ LikeStep(text, "%", scan).escape = FALSE
  BY DEF LikeStep

(* The pattern %b% finds the piece b of a text. *)
LEMMA PieceIsFound ==
    ASSUME NEW a \in Seq(Tokens), NEW b \in Seq(Tokens), NEW c \in Seq(Tokens),
           \A k \in DOMAIN b : b[k] /= "\\"
    PROVE  Like((a \o b) \o c, <<"%">> \o b \o <<"%">>)
  <1> DEFINE u == a \o b
             w == u \o c
             o == <<"%">>
             v == o \o b
             p == v \o o
  <1>1. /\ Len(a) \in Nat /\ Len(b) \in Nat /\ Len(c) \in Nat /\ DOMAIN b = 1 .. Len(b)
        /\ o \in Seq(Tokens) /\ Len(o) = 1 /\ o[1] = "%"
    <2>1. "%" \in Tokens
      BY EntityAssumption DEF LikeMarks, Tokens
    <2>2. o \in Seq(Tokens) /\ Len(o) = 1 /\ o[1] = "%"
      BY <2>1
    <2> QED
      BY <2>2, LenProperties
  <1>2. /\ u \in Seq(Tokens) /\ Len(u) = Len(a) + Len(b)
        /\ \A k \in 1 .. Len(a) + Len(b) : u[k] = IF k <= Len(a) THEN a[k] ELSE b[k - Len(a)]
    BY ConcatProperties
  <1> HIDE DEF u
  <1>3. /\ w \in Seq(Tokens) /\ Len(w) = Len(u) + Len(c)
        /\ \A k \in 1 .. Len(u) + Len(c) : w[k] = IF k <= Len(u) THEN u[k] ELSE c[k - Len(u)]
    <2>1. u \in Seq(Tokens)
      BY <1>2
    <2> QED
      BY <2>1, ConcatProperties
  <1> HIDE DEF w, o
  <1>4. /\ v \in Seq(Tokens) /\ Len(v) = Len(o) + Len(b)
        /\ \A k \in 1 .. Len(o) + Len(b) : v[k] = IF k <= Len(o) THEN o[k] ELSE b[k - Len(o)]
    BY <1>1, ConcatProperties
  <1> HIDE DEF v
  <1>5. /\ p \in Seq(Tokens) /\ Len(p) = Len(v) + Len(o)
        /\ \A k \in 1 .. Len(v) + Len(o) : p[k] = IF k <= Len(v) THEN v[k] ELSE o[k - Len(v)]
    <2>1. v \in Seq(Tokens) /\ o \in Seq(Tokens)
      BY <1>1, <1>4
    <2> QED
      BY <2>1, ConcatProperties
  <1> HIDE DEF p
  <1>6. Len(p) = Len(b) + 2 /\ p[1] = "%" /\ p[Len(b) + 2] = "%"
    <2>1. Len(v) = Len(b) + 1 /\ Len(p) = Len(b) + 2
      BY <1>1, <1>4, <1>5
    <2>2. p[1] = v[1]
      BY <1>1, <1>5, <2>1
    <2>3. v[1] = o[1]
      BY <1>1, <1>4
    <2>4. p[Len(b) + 2] = o[(Len(b) + 2) - Len(v)] /\ (Len(b) + 2) - Len(v) = 1
      BY <1>1, <1>5, <2>1, SMTT(30)
    <2> QED
      BY <1>1, <2>1, <2>2, <2>3, <2>4
  <1>7. ASSUME NEW k \in 1 .. Len(b)
        PROVE  p[1 + k] = b[k] /\ Len(a) + k \in DOMAIN w /\ w[Len(a) + k] = b[k]
    <2>1. p[1 + k] = b[k]
      <3>1. 1 + k \in 1 .. Len(v) + Len(o) /\ 1 + k <= Len(v) /\ 1 + k \in 1 .. Len(o) + Len(b)
        BY <1>1, <1>4
      <3>2. p[1 + k] = v[1 + k]
        BY <1>5, <3>1
      <3>3. v[1 + k] = b[(1 + k) - Len(o)] /\ (1 + k) - Len(o) = k
        BY <1>1, <1>4, <3>1
      <3> QED
        BY <3>2, <3>3
    <2>2. w[Len(a) + k] = u[Len(a) + k]
      BY <1>1, <1>2, <1>3
    <2>3. u[Len(a) + k] = b[k]
      <3>1. Len(a) + k \in 1 .. Len(a) + Len(b) /\ ~(Len(a) + k <= Len(a))
        BY <1>1
      <3>2. u[Len(a) + k] = b[(Len(a) + k) - Len(a)]
        BY <1>2, <3>1
      <3>3. (Len(a) + k) - Len(a) = k
        BY <1>1
      <3> QED
        BY <3>2, <3>3
    <2>4. DOMAIN w = 1 .. Len(w) /\ Len(a) + k \in 1 .. Len(w)
      BY <1>1, <1>2, <1>3, LenProperties
    <2> QED
      BY <2>1, <2>2, <2>3, <2>4
  <1>8. PICK f : /\ f[0] = LikeStart
                 /\ \A k \in 1 .. Len(p) : f[k] = LikeStep(w, p[k], f[k - 1])
                 /\ Like(w, p) <=> Len(w) \in f[Len(p)].at
    BY <1>1, <1>6, LikeScan, SMTT(30)
  <1> DEFINE Reached(k) == Len(a) + k \in f[1 + k].at /\ f[1 + k].escape = FALSE
             N == {k \in Nat : k <= Len(b) => Reached(k)}
  <1>9. 0 \in N
    <2>1. f[1] = LikeStep(w, "%", LikeStart)
      BY <1>1, <1>6, <1>8
    <2>2. LikeStart.escape = FALSE /\ 0 \in LikeStart.at
      BY DEF LikeStart
    <2>3. Len(a) \in 0 .. Len(w) /\ 0 <= Len(a)
      BY <1>1, <1>2, <1>3
    <2>4. Len(a) \in f[1].at /\ f[1].escape = FALSE
      <3>1. 0 \in Nat
        OBVIOUS
      <3> QED
        BY <1>3, <2>1, <2>2, <2>3, <3>1, LikeAny, ZenonT(40)
    <2> QED
      BY <1>1, <2>4
  <1>10. ASSUME NEW k \in Nat, k \in N
         PROVE  k + 1 \in N
    <2> SUFFICES ASSUME k + 1 <= Len(b)
                 PROVE  Reached(k + 1)
      <3> HIDE DEF Reached
      <3> QED
        OBVIOUS
    <2> DEFINE i == Len(a) + k
               s == f[1 + k]
               d == b[k + 1]
    <2>1. i \in s.at /\ s.escape = FALSE /\ i \in Nat
      <3>1. Reached(k)
        <4> HIDE DEF Reached
        <4> QED
          BY <1>1, <1>10
      <3> QED
        BY <1>1, <3>1
    <2>2. k + 1 \in 1 .. Len(b) /\ Len(a) + (k + 1) = i + 1
      BY <1>1
    <2>3. p[1 + (k + 1)] = d /\ i + 1 \in DOMAIN w /\ w[i + 1] = d /\ d /= "\\"
      BY <1>1, <1>7, <2>2
    <2>4. f[1 + (k + 1)] = LikeStep(w, d, s)
      <3>1. 1 + (k + 1) \in 1 .. Len(p) /\ (1 + (k + 1)) - 1 = 1 + k
        BY <1>1, <1>6, <2>2
      <3> QED
        BY <1>8, <2>3, <3>1
    <2> HIDE DEF i, s, d
    <2>5. i + 1 \in LikeStep(w, d, s).at /\ LikeStep(w, d, s).escape = FALSE
      BY <1>3, <2>1, <2>3, LikeSame
    <2> QED
      BY <2>2, <2>4, <2>5
  <1>11. Nat \subseteq N
    <2> HIDE DEF N
    <2> QED
      BY <1>9, <1>10, NatInSet
  <1>12. Len(a) + Len(b) \in f[1 + Len(b)].at /\ f[1 + Len(b)].escape = FALSE
    <2>1. Reached(Len(b))
      <3> HIDE DEF Reached
      <3> QED
        BY <1>1, <1>11
    <2> QED
      BY <2>1
  <1>13. f[Len(p)] = LikeStep(w, "%", f[1 + Len(b)])
    <2>1. Len(p) \in 1 .. Len(p) /\ Len(p) - 1 = 1 + Len(b)
      BY <1>1, <1>6
    <2> QED
      BY <1>6, <1>8, <2>1
  <1>14. Len(w) \in f[Len(p)].at
    <2>1. /\ Len(a) + Len(b) \in Nat /\ Len(w) \in 0 .. Len(w) /\ Len(a) + Len(b) <= Len(w)
      BY <1>1, <1>2, <1>3
    <2> QED
      BY <1>3, <1>12, <1>13, <2>1, LikeAny
  <1> QED
    BY <1>8, <1>14 DEF u, w, o, v, p

LEMMA PieceSplits ==
    ASSUME NEW t \in Seq(Tokens), NEW q \in SubSeqs(t)
    PROVE  q \in Seq(Tokens) /\ \E a, b \in Seq(Tokens) : t = (a \o q) \o b
  <1>1. PICK i \in 0 .. Len(t), j \in 0 .. Len(t) : q = SubSeq(t, i + 1, j)
    BY DEF SubSeqs
  <1>2. Len(t) \in Nat
    BY LenProperties
  <1>3. CASE j < i + 1
    <2>1. q = <<>>
      BY <1>1, <1>3, SubSeqEmpty
    <2>2. <<>> \in Seq(Tokens) /\ <<>> \o <<>> = <<>> /\ <<>> \o t = t
      BY EmptySeq, ConcatEmptySeq
    <2> QED
      BY <2>1, <2>2, Zenon
  <1>4. CASE i + 1 <= j
    <2> DEFINE a == SubSeq(t, 1, i)
               b == SubSeq(t, j + 1, Len(t))
    <2>1. \A k \in 1 .. Len(t) : t[k] \in Tokens
      BY ElementOfSeq
    <2>2. a \in Seq(Tokens)
      BY <1>2, <2>1, SubSeqProperties
    <2>3. b \in Seq(Tokens)
      BY <1>2, <2>1, SubSeqProperties
    <2>4. q \in Seq(Tokens)
      BY <1>1, <1>2, <2>1, SubSeqProperties
    <2>5. a \o q = SubSeq(t, 1, j)
      BY <1>1, <1>2, <1>4, ConcatAdjacentSubSeq
    <2>6. SubSeq(t, 1, j) \o b = SubSeq(t, 1, Len(t))
      <3>1. 1 \in 1 .. Len(t) + 1 /\ j \in 1 - 1 .. Len(t) /\ Len(t) \in j .. Len(t)
        BY <1>1, <1>2
      <3> QED
        BY <3>1, ConcatAdjacentSubSeq
    <2>7. SubSeq(t, 1, Len(t)) = t
      BY SubSeqFull
    <2> QED
      BY <2>2, <2>3, <2>4, <2>5, <2>6, <2>7, Zenon
  <1>5. j < i + 1 \/ i + 1 <= j
    BY <1>1, <1>2
  <1> QED
    BY <1>3, <1>4, <1>5

(* Escaping adds no backslash. *)
LEMMA CleanNoBackslash ==
    ASSUME NEW t \in Seq(Tokens), \A k \in DOMAIN t : t[k] /= "\\"
    PROVE  \A k \in DOMAIN clean(t) : clean(t)[k] /= "\\"
  <1> DEFINE B == {"\\"}
             S == {u \in Seq(Tokens) : Count(u, B) = 0 => Count(clean(u), B) = 0}
  <1>1. <<>> \in S
    BY CleanEmpty, CountEmpty, EmptySeq
  <1>2. ASSUME NEW u \in Seq(Tokens), NEW c \in Tokens, u \in S
        PROVE  Append(u, c) \in S
    <2>1. Append(u, c) \in Seq(Tokens)
      BY AppendProperties
    <2>2. ASSUME Count(Append(u, c), B) = 0
          PROVE  Count(clean(Append(u, c)), B) = 0
      <3>1. Count(Append(u, c), B) = IF c \in B THEN Count(u, B) + 1 ELSE Count(u, B)
        BY CountAppend
      <3>2. Count(u, B) \in Nat
        BY CountType
      <3>3. c \notin B /\ Count(u, B) = 0
        BY <2>2, <3>1, <3>2
      <3>4. Count(Escape(c), B) = 0
        <4>1. ASSUME NEW k \in DOMAIN Escape(c)
              PROVE  Escape(c)[k] \notin B
          <5>1. CASE c \in Specials
            <6>1. Escape(c) = Entity[c] /\ Entity[c] \in Seq(Tokens \ LikeMarks)
              BY <5>1, EntityAssumption DEF Escape
            <6> QED
              <7>1. k \in 1 .. Len(Entity[c])
                BY <4>1, <6>1, LenProperties
              <7>2. Entity[c][k] \in Tokens \ LikeMarks
                BY <6>1, <7>1, ElementOfSeq
              <7> QED
                BY <6>1, <7>2 DEF LikeMarks
          <5>2. CASE c \notin Specials
            BY <3>3, <4>1, <5>2 DEF Escape
          <5> QED
            BY <5>1, <5>2
        <4>2. Occurrences(Escape(c), B) = {}
          BY <4>1 DEF Occurrences
        <4> QED
          BY <4>2, FS_EmptySet DEF Count
      <3>5. clean(Append(u, c)) = clean(u) \o Escape(c)
        BY CleanAppend
      <3>6. clean(u) \in Seq(Tokens) /\ Escape(c) \in Seq(Tokens)
        BY CleanType, EscapeType
      <3>7. Count(clean(u) \o Escape(c), B) = Count(clean(u), B) + Count(Escape(c), B)
        BY <3>6, CountConcat
      <3>8. Count(clean(u), B) = 0
        BY <1>2, <3>3
      <3> QED
        BY <3>4, <3>5, <3>7, <3>8
    <2> QED
      BY <2>1, <2>2
  <1>3. Seq(Tokens) \subseteq S
    <2> HIDE DEF S
    <2> QED
      BY <1>1, <1>2, SeqInSet
  <1>4. Count(t, B) = 0
    <2>1. Occurrences(t, B) = {}
      BY DEF Occurrences
    <2> QED
      BY <2>1, FS_EmptySet DEF Count
  <1>5. Count(clean(t), B) = 0
    BY <1>3, <1>4
  <1>6. Occurrences(clean(t), B) = {}
    BY <1>5, CleanType, CountType, FS_EmptySet DEF Count
  <1> QED
    BY <1>6 DEF Occurrences

(* A visitor finds every report of a member by any piece of its texts, and *)
(* every report of the administrator by any piece without special          *)
(* characters, if the piece has no backslash.  Escaping a piece gives a    *)
(* piece of the escaped text, and a % or _ in it also stands for itself.   *)
THEOREM PiecesAreFound == FormSpec => []PieceFound
  <1>1. FormInv => PieceFound
    <2> SUFFICES ASSUME FormInv, NEW field \in SearchedFields,
                        NEW q \in SubSeqs(lost_form.report[field]),
                        \A k \in DOMAIN q : q[k] /= "\\",
                        lost_form.channel = "member" \/ (\A k \in DOMAIN q : q[k] \notin Specials)
                 PROVE  Finds(q, lost_form)
      BY DEF PieceFound
    <2> DEFINE t == lost_form.report[field]
    <2>1. t \in Seq(Tokens)
      BY DEF FormInv, FormType, ReportType, SearchedFields
    <2>2. SUFFICES Like(StoredText(lost_form.channel, t), <<"%">> \o clean(q) \o <<"%">>)
      BY DEF Finds, SearchPattern
    <2> HIDE DEF t
    <2>3. q \in SubSeqs(t)
      BY DEF t
    <2>4. q \in Seq(Tokens)
      BY <2>1, <2>3, PieceSplits
    <2>5. PICK a \in Seq(Tokens), b \in Seq(Tokens) : t = (a \o q) \o b
      BY <2>1, <2>3, PieceSplits
    <2>6. clean(q) \in Seq(Tokens) /\ \A k \in DOMAIN clean(q) : clean(q)[k] /= "\\"
      BY <2>4, CleanType, CleanNoBackslash
    <2>7. CASE lost_form.channel = "member"
      <3>1. a \o q \in Seq(Tokens)
        BY <2>4, ConcatProperties
      <3>2. clean(t) = (clean(a) \o clean(q)) \o clean(b)
        BY <2>4, <2>5, <3>1, CleanConcat
      <3>3. clean(a) \in Seq(Tokens) /\ clean(b) \in Seq(Tokens)
        BY CleanType
      <3>4. Like((clean(a) \o clean(q)) \o clean(b), <<"%">> \o clean(q) \o <<"%">>)
        BY <2>6, <3>3, PieceIsFound
      <3> QED
        BY <2>7, <3>2, <3>4 DEF StoredText
    <2>8. CASE lost_form.channel /= "member"
      <3>1. clean(q) = q
        BY <2>4, <2>8, CleanPlain
      <3>2. Like((a \o q) \o b, <<"%">> \o q \o <<"%">>)
        BY <2>4, PieceIsFound
      <3> QED
        BY <2>5, <2>8, <3>1, <3>2 DEF StoredText
    <2> QED
      BY <2>7, <2>8
  <1> QED
    BY <1>1, FormInvHolds, PTL


-----------------------------------------------------------------------------
(* The words that escaping adds *)

LEMMA CountMonotone ==
    ASSUME NEW T, NEW t \in Seq(T), NEW V, NEW W, V \subseteq W
    PROVE  Count(t, V) <= Count(t, W)
  <1>1. Occurrences(t, V) \subseteq Occurrences(t, W)
    BY DEF Occurrences
  <1> QED
    BY <1>1, CountType, FS_Subset DEF Count

LEMMA CountOne ==
    ASSUME NEW c, NEW W
    PROVE  Count(<<c>>, W) = IF c \in W THEN 1 ELSE 0
  <1>1. Occurrences(<<c>>, W) = IF c \in W THEN {1} ELSE {}
    BY DEF Occurrences
  <1> QED
    BY <1>1, FS_Singleton, FS_EmptySet DEF Count

(* The words of a found report that a word of the lost one may repeat. *)
SharedWith(keys) == {w \in Keywords : \E m \in DOMAIN keys : Lower[w] = keys[m]}

LEMMA KeywordsAreOccurrences ==
    ASSUME NEW text, NEW keys
    PROVE  /\ DOMAIN extract_keywords(text) = Occurrences(text, Keywords)
           /\ array_intersect(extract_keywords(text), keys) =
                  Occurrences(text, SharedWith(keys))
  BY DEF extract_keywords, array_intersect, Occurrences, SharedWith

(* One token: escaping keeps a word of W, and adds at most one, to a       *)
(* special character.                                                      *)
LEMMA EscapeCount ==
    ASSUME NEW W, W \subseteq Keywords, NEW c \in Tokens
    PROVE  /\ Count(Escape(c), W) >= Count(<<c>>, W)
           /\ Count(Escape(c), W) <= Count(<<c>>, W) + Count(<<c>>, Specials)
           /\ Count(Escape(c), Keywords) + Count(<<c>>, W)
                  >= Count(<<c>>, Keywords) + Count(Escape(c), W)
  <1>1. CASE c \in Specials
    <2>1. Escape(c) = Entity[c] /\ Entity[c] \in Seq(Tokens)
      BY <1>1, EntityType DEF Escape
    <2>2. c \notin Keywords
      BY <1>1, EntityAssumption, WordsAssumption DEF Keywords
    <2>3. Count(<<c>>, Specials) = 1 /\ Count(<<c>>, Keywords) = 0 /\ Count(<<c>>, W) = 0
      BY <1>1, <2>2, CountOne
    <2>4. Count(Entity[c], W) <= 1
      <3>1. PICK k \in DOMAIN Entity[c] :
                \A m \in DOMAIN Entity[c] : Entity[c][m] \in Words <=> m = k
        BY <1>1, EntityAssumption
      <3>2. Occurrences(Entity[c], W) \subseteq {k}
        BY <3>1 DEF Occurrences, Keywords
      <3>3. IsFiniteSet({k}) /\ Cardinality({k}) = 1
        BY FS_Singleton
      <3> QED
        BY <3>2, <3>3, FS_Subset DEF Count
    <2>5. Count(Entity[c], W) <= Count(Entity[c], Keywords)
      BY <2>1, CountMonotone
    <2>6. Count(Entity[c], W) \in Nat /\ Count(Entity[c], Keywords) \in Nat
      BY <2>1, CountType
    <2> QED
      BY <2>1, <2>3, <2>4, <2>5, <2>6
  <1>2. CASE c \notin Specials
    <2>1. Escape(c) = <<c>>
      BY <1>2 DEF Escape
    <2>2. Count(<<c>>, Specials) = 0
      BY <1>2, CountOne
    <2>3. Count(<<c>>, Keywords) \in {0, 1} /\ Count(<<c>>, W) \in {0, 1}
      BY CountOne
    <2> QED
      BY <2>1, <2>2, <2>3
  <1> QED
    BY <1>1, <1>2

(* A whole text. *)
LEMMA CleanCount ==
    ASSUME NEW W, W \subseteq Keywords, NEW t \in Seq(Tokens)
    PROVE  /\ Count(clean(t), W) >= Count(t, W)
           /\ Count(clean(t), W) <= Count(t, W) + Count(t, Specials)
           /\ Count(clean(t), Keywords) + Count(t, W)
                  >= Count(t, Keywords) + Count(clean(t), W)
  <1> DEFINE Bounds(x, u) ==
                 /\ Count(x, W) >= Count(u, W)
                 /\ Count(x, W) <= Count(u, W) + Count(u, Specials)
                 /\ Count(x, Keywords) + Count(u, W) >= Count(u, Keywords) + Count(x, W)
             S == {u \in Seq(Tokens) : Bounds(clean(u), u)}
  <1>1. <<>> \in S
    BY CleanEmpty, CountEmpty, EmptySeq
  <1>2. ASSUME NEW u \in Seq(Tokens), NEW c \in Tokens, u \in S
        PROVE  Append(u, c) \in S
    <2> DEFINE x == clean(u)
               z == Escape(c)
               o == <<c>>
    <2>1. x \in Seq(Tokens) /\ z \in Seq(Tokens) /\ o \in Seq(Tokens)
      BY CleanType, EscapeType
    <2>2. clean(Append(u, c)) = x \o z /\ Append(u, c) = u \o o /\ Append(u, c) \in Seq(Tokens)
      BY CleanAppend, AppendIsConcat, AppendProperties
    <2>3. Bounds(z, o)
      BY EscapeCount
    <2>4. Bounds(x, u)
      BY <1>2
    <2> HIDE DEF x, z, o
    <2>5. /\ Count(x \o z, W) = Count(x, W) + Count(z, W)
          /\ Count(x \o z, Keywords) = Count(x, Keywords) + Count(z, Keywords)
      BY <2>1, CountConcat
    <2>6. /\ Count(u \o o, W) = Count(u, W) + Count(o, W)
          /\ Count(u \o o, Keywords) = Count(u, Keywords) + Count(o, Keywords)
          /\ Count(u \o o, Specials) = Count(u, Specials) + Count(o, Specials)
      BY <2>1, CountConcat
    <2>7. /\ Count(x, W) \in Nat /\ Count(x, Keywords) \in Nat
          /\ Count(z, W) \in Nat /\ Count(z, Keywords) \in Nat
          /\ Count(u, W) \in Nat /\ Count(u, Keywords) \in Nat /\ Count(u, Specials) \in Nat
          /\ Count(o, W) \in Nat /\ Count(o, Keywords) \in Nat /\ Count(o, Specials) \in Nat
      BY <2>1, CountType
    <2>8. Bounds(x \o z, u \o o)
      <3> DEFINE xw == Count(x, W)
                 xk == Count(x, Keywords)
                 zw == Count(z, W)
                 zk == Count(z, Keywords)
                 uw == Count(u, W)
                 uk == Count(u, Keywords)
                 us == Count(u, Specials)
                 ow == Count(o, W)
                 ok == Count(o, Keywords)
                 os == Count(o, Specials)
      <3>1. /\ xw \in Nat /\ xk \in Nat /\ zw \in Nat /\ zk \in Nat
            /\ uw \in Nat /\ uk \in Nat /\ us \in Nat
            /\ ow \in Nat /\ ok \in Nat /\ os \in Nat
        BY <2>7
      <3>2. xw >= uw /\ xw <= uw + us /\ xk + uw >= uk + xw
        BY <2>4, Zenon
      <3>3. zw >= ow /\ zw <= ow + os /\ zk + ow >= ok + zw
        BY <2>3, Zenon
      <3> HIDE DEF xw, xk, zw, zk, uw, uk, us, ow, ok, os
      <3>4. /\ xw + zw >= uw + ow
            /\ xw + zw <= (uw + ow) + (us + os)
            /\ (xk + zk) + (uw + ow) >= (uk + ok) + (xw + zw)
        BY <3>1, <3>2, <3>3
      <3>5. /\ Count(x \o z, W) = xw + zw /\ Count(x \o z, Keywords) = xk + zk
            /\ Count(u \o o, W) = uw + ow /\ Count(u \o o, Keywords) = uk + ok
            /\ Count(u \o o, Specials) = us + os
        BY <2>5, <2>6, Zenon DEF xw, xk, zw, zk, uw, uk, us, ow, ok, os
      <3> QED
        BY <3>4, <3>5, Zenon
    <2> QED
      BY <2>2, <2>8, Zenon
  <1>3. Seq(Tokens) \subseteq S
    <2> HIDE DEF S
    <2> QED
      BY <1>1, <1>2, SeqInSet
  <1> QED
    BY <1>3

(* What the score reads of the name and the description of a row. *)
LEMMA TypedTextStored ==
    ASSUME NEW kind, NEW form \in FormType
    PROVE  /\ TypedText(form) \in Seq(Tokens)
           /\ StoredReport(kind, form).item_name \o StoredReport(kind, form).description =
                  StoredText(form.channel, TypedText(form))
  <1> DEFINE n == form.report.item_name
             d == form.report.description
  <1>1. n \in Seq(Tokens) /\ d \in Seq(Tokens)
    BY DEF FormType, ReportType
  <1>2. n \o d \in Seq(Tokens) /\ clean(n \o d) = clean(n) \o clean(d)
    BY <1>1, ConcatProperties, CleanConcat
  <1>3. /\ StoredReport(kind, form).item_name = StoredText(form.channel, n)
        /\ StoredReport(kind, form).description = StoredText(form.channel, d)
    BY StoredReportType
  <1> QED
    BY <1>2, <1>3 DEF TypedText, StoredText

LEMMA TypedCounts ==
    ASSUME NEW form
    PROVE  /\ TypedKeywords(form) = Count(TypedText(form), Keywords)
           /\ TypedSpecials(form) = Count(TypedText(form), Specials)
  BY KeywordsAreOccurrences DEF TypedKeywords, TypedSpecials, Count, Occurrences

(* Reports typed alike share at least half of the keywords of the lost     *)
(* one: all of them, unless a member's report was escaped and the          *)
(* administrator's was not.                                                *)
LEMMA TwinsShare ==
    ASSUME NEW t \in Seq(Tokens), NEW x \in {t, clean(t)}, NEW y \in {t, clean(t)}
    PROVE  LET W == SharedWith(extract_keywords(y))
           IN  /\ Count(x, W) >= Count(t, Keywords)
               /\ x = t \/ y = clean(t) => Count(x, W) = Count(x, Keywords)
  <1> DEFINE keys == extract_keywords(y)
             W == SharedWith(keys)
  <1>1. W \subseteq Keywords
    BY DEF SharedWith
  <1>2. ASSUME NEW k \in DOMAIN y, y[k] \in Keywords
        PROVE  y[k] \in W
    <2>1. k \in DOMAIN keys /\ keys[k] = Lower[y[k]]
      BY <1>2 DEF extract_keywords
    <2> QED
      BY <1>2, <2>1 DEF SharedWith
  <1>3. ASSUME NEW k \in DOMAIN t, t[k] \in Keywords
        PROVE  t[k] \in W
    <2>1. CASE y = t
      BY <1>2, <1>3, <2>1
    <2>2. CASE y = clean(t)
      <3> DEFINE V == {t[k]}
      <3>1. V \subseteq Keywords /\ k \in Occurrences(t, V)
        BY <1>3 DEF Occurrences
      <3>2. Count(clean(t), V) >= Count(t, V)
        BY <3>1, CleanCount
      <3>3. /\ IsFiniteSet(Occurrences(t, V)) /\ Count(t, V) \in Nat
            /\ IsFiniteSet(Occurrences(clean(t), V)) /\ Count(clean(t), V) \in Nat
        BY CleanType, CountType
      <3>4. Count(t, V) /= 0
        BY <3>1, <3>3, FS_EmptySet DEF Count
      <3>5. Occurrences(clean(t), V) /= {}
        <4>1. Count(clean(t), V) /= 0
          BY <3>2, <3>3, <3>4
        <4> QED
          BY <4>1, FS_EmptySet DEF Count
      <3>6. PICK m \in DOMAIN y : y[m] = t[k]
        BY <2>2, <3>5 DEF Occurrences
      <3> QED
        BY <1>2, <1>3, <3>6
    <2> QED
      BY <2>1, <2>2
  <1> HIDE DEF W, keys
  <1>4. Count(t, W) = Count(t, Keywords)
    <2>1. Occurrences(t, W) = Occurrences(t, Keywords)
      BY <1>1, <1>3 DEF Occurrences
    <2> QED
      BY <2>1 DEF Count
  <1>5. Count(clean(t), W) >= Count(t, W)
    BY <1>1, CleanCount
  <1>6. Count(t, W) \in Nat /\ Count(t, Keywords) \in Nat
    BY CountType
  <1>7. Count(x, W) >= Count(t, Keywords)
    BY <1>4, <1>5, <1>6
  <1>8. ASSUME x = t \/ y = clean(t)
        PROVE  Count(x, W) = Count(x, Keywords)
    <2>1. CASE x = t
      BY <1>4, <2>1
    <2>2. CASE x = y
      <3>1. Occurrences(x, W) = Occurrences(x, Keywords)
        BY <1>1, <1>2, <2>2 DEF Occurrences
      <3> QED
        BY <3>1 DEF Count
    <2> QED
      BY <1>8, <2>1, <2>2
  <1> QED
    BY <1>7, <1>8 DEF W, keys

(* Two reports that were typed alike are recorded as a match, through      *)
(* whichever forms they came.  All keywords of the lost one are shared and *)
(* earn 60 points with the category; or the owner is a member, the finder  *)
(* the administrator, and 29/60 of the keywords, the category and the date *)
(* earn 55.                                                                *)
THEOREM TwinsAreRecorded == FormSpec => []TwinsRecorded
  <1>1. FormInv => TwinsRecorded
    <2> SUFFICES ASSUME FormInv, score /= Unscored,
                        lost_form.report = found_form.report, KeywordCount(lost) > 0,
                        lost_form.channel = "member" /\ found_form.channel = "admin"
                        => 31 * TypedKeywords(lost_form) >= 29 * TypedSpecials(lost_form)
                 PROVE  score >= MATCH_THRESHOLD
      BY DEF TwinsRecorded
    <2> DEFINE t == TypedText(lost_form)
               x == lost.item_name \o lost.description
               y == found.item_name \o found.description
               W == SharedWith(extract_keywords(y))
               n == KeywordCount(lost)
               c == CommonCount(lost, found)
    <2>1. lost \in ReportType /\ found \in ReportType
      BY FormReports
    <2>2. t \in Seq(Tokens) /\ t = TypedText(found_form)
      BY TypedTextStored DEF FormInv, TypedText
    <2>3. x = StoredText(lost_form.channel, t) /\ y = StoredText(found_form.channel, t)
      BY <2>2, TypedTextStored DEF FormInv
    <2>4. n = Count(x, Keywords) /\ c = Count(x, W)
      BY KeywordsAreOccurrences DEF KeywordCount, CommonCount, LostWords, CommonWords, Count
    <2>5. /\ CategoryPoints(lost, found) = 30
          /\ DatePoints(lost, found) = 10
      <3>1. lost.category = found.category /\ lost.date = found.date /\ lost.date \in Nat
        BY SameShortFields DEF FormInv, FormType, ReportType
      <3> QED
        BY <3>1 DEF CategoryPoints, SameText, DatePoints
    <2>6. n \in Nat /\ n > 0 /\ c \in Nat /\ c <= n
      BY <2>1, CountBounds
    <2>7. KeywordPoints(lost, found) = RoundedQuotient(30 * c, n)
      BY DEF KeywordPoints
    <2>8. /\ c >= Count(t, Keywords)
          /\ x = t \/ y = clean(t) => c = n
      BY <2>2, <2>3, <2>4, TwinsShare DEF StoredText
    <2>9. KeywordPoints(lost, found) >= 15
      <3>1. CASE c = n
        BY <2>6, <2>7, <3>1, ShareReached, ShareBounds
      <3>2. CASE c /= n
        <4>1. x /= t /\ y /= clean(t)
          BY <2>8, <3>2
        <4>2. /\ lost_form.channel = "member" /\ found_form.channel = "admin"
              /\ x = clean(t)
          BY <2>3, <4>1 DEF StoredText, FormInv, FormType, Channels
        <4>3. 31 * Count(t, Keywords) >= 29 * Count(t, Specials)
          BY <4>2, TypedCounts
        <4>4. n <= Count(t, Keywords) + Count(t, Specials)
          BY <2>2, <2>4, <4>2, CleanCount
        <4>5. Count(t, Keywords) \in Nat /\ Count(t, Specials) \in Nat
          BY <2>2, CountType
        <4> HIDE DEF c, n
        <4>6. 60 * c >= 29 * n
          BY <2>6, <2>8, <4>3, <4>4, <4>5
        <4> QED
          BY <2>6, <2>7, <4>6, ShareReached
      <3> QED
        BY <3>1, <3>2
    <2>10. RawScore(lost, found) >= 55
      BY <2>1, <2>5, <2>9, PointBounds, KeywordBounds DEF RawScore
    <2> QED
      BY <2>1, <2>10, RawScoreBounds, ThresholdAssumption DEF FormInv, calculate_match_score
  <1> QED
    BY <1>1, FormInvHolds, PTL

(* Escaping what the owner typed raises a score by at most 20 points, if   *)
(* two keywords were typed for each special character: the words it adds,  *)
(* shared or not, are at most half of the typed ones, which is worth 10 of *)
(* the 30 points, and a location counts 10.                                *)
THEOREM EscapesAreMinor == FormSpec => []EscapesStayMinor
  <1>1. FormInv => EscapesStayMinor
    <2> SUFFICES ASSUME FormInv, score /= Unscored,
                        TypedKeywords(lost_form) >= 2 * TypedSpecials(lost_form)
                 PROVE  score <= calculate_match_score(lost_form.report, found) + 20
      BY DEF EscapesStayMinor
    <2> DEFINE typed == lost_form.report
               t == TypedText(lost_form)
               x == lost.item_name \o lost.description
               W == SharedWith(extract_keywords(found.item_name \o found.description))
    <2>1. lost \in ReportType /\ found \in ReportType /\ typed \in ReportType
      BY FormReports DEF FormInv, FormType
    <2>2. t \in Seq(Tokens) /\ x = StoredText(lost_form.channel, t)
      BY TypedTextStored DEF FormInv
    <2>3. /\ KeywordCount(lost) = Count(x, Keywords) /\ CommonCount(lost, found) = Count(x, W)
          /\ KeywordCount(typed) = Count(t, Keywords) /\ CommonCount(typed, found) = Count(t, W)
      BY KeywordsAreOccurrences
      DEF KeywordCount, CommonCount, LostWords, CommonWords, Count, TypedText
    <2>4. W \subseteq Keywords
      BY DEF SharedWith
    <2>5. Count(t, Keywords) >= 2 * Count(t, Specials)
      BY TypedCounts
    <2>6. KeywordPoints(lost, found) <= KeywordPoints(typed, found) + 10
      <3>1. CASE x = t
        <4>1. KeywordPoints(lost, found) = KeywordPoints(typed, found)
          BY <2>3, <3>1 DEF KeywordPoints
        <4> QED
          BY <2>1, <4>1, KeywordBounds
      <3>2. CASE x = clean(t)
        <4> DEFINE k == Count(t, Keywords)
                   c == Count(t, W)
                   n == Count(clean(t), Keywords)
                   d == Count(clean(t), W)
                   e == d - c
        <4>1. /\ k \in Nat /\ c \in Nat /\ n \in Nat /\ d \in Nat /\ Count(t, Specials) \in Nat
              /\ c <= k
          BY <2>2, <2>4, CleanType, CountType, CountMonotone
        <4>2. /\ d >= c /\ d <= c + Count(t, Specials) /\ n + c >= k + d
              /\ n <= k + Count(t, Specials)
          BY <2>2, <2>4, CleanCount
        <4>3. k >= 2 * Count(t, Specials)
          BY <2>5
        <4>4. /\ KeywordPoints(lost, found) = IF n > 0 THEN RoundedQuotient(30 * d, n) ELSE 0
              /\ KeywordPoints(typed, found) = IF k > 0 THEN RoundedQuotient(30 * c, k) ELSE 0
          BY <2>3, <3>2 DEF KeywordPoints
        <4> HIDE DEF k, c, n, d
        <4>5. e \in Nat /\ 2 * e <= k /\ n >= k + e /\ d = c + e
          BY <4>1, <4>2, <4>3
        <4>6. CASE k > 0
          <5>1. RoundedQuotient(30 * (c + e), n) <= RoundedQuotient(30 * c, k) + 10
            BY <4>1, <4>5, <4>6, ShareGain
          <5>2. n > 0
            BY <4>1, <4>5, <4>6
          <5> QED
            BY <4>4, <4>5, <4>6, <5>1, <5>2
        <4>7. CASE k = 0
          <5>1. n = 0
            BY <4>1, <4>2, <4>3, <4>7
          <5> QED
            BY <4>4, <4>7, <5>1
        <4> QED
          BY <4>1, <4>6, <4>7
      <3> QED
        BY <2>2, <3>1, <3>2 DEF StoredText
    <2>7. /\ CategoryPoints(lost, found) = CategoryPoints(typed, found)
          /\ FieldPoints(lost.color, found.color) = FieldPoints(typed.color, found.color)
          /\ FieldPoints(lost.brand, found.brand) = FieldPoints(typed.brand, found.brand)
          /\ DatePoints(lost, found) = DatePoints(typed, found)
      <3>1. /\ lost.category = typed.category /\ lost.color = typed.color
            /\ lost.brand = typed.brand /\ lost.date = typed.date
        BY SameShortFields DEF FormInv
      <3> QED
        BY <3>1 DEF CategoryPoints, DatePoints
    <2> HIDE DEF typed
    <2>8. LocationPoints(lost, found) <= LocationPoints(typed, found) + 10
      BY <2>1, PointBounds
    <2>9. RawScore(lost, found) <= RawScore(typed, found) + 20
      <3>1. KeywordPoints(lost, found) \in 0..30 /\ KeywordPoints(typed, found) \in 0..30
        BY <2>1, KeywordBounds
      <3>2. /\ CategoryPoints(typed, found) \in {0, 30}
            /\ FieldPoints(typed.color, found.color) \in {0, 10}
            /\ FieldPoints(typed.brand, found.brand) \in {0, 10}
            /\ LocationPoints(typed, found) \in {0, 10}
            /\ DatePoints(typed, found) \in {0, 5, 10}
        BY <2>1, PointBounds
      <3>3. LocationPoints(lost, found) \in {0, 10}
        BY <2>1, PointBounds
      <3> DEFINE other == CategoryPoints(typed, found)
                 color == FieldPoints(typed.color, found.color)
                 brand == FieldPoints(typed.brand, found.brand)
                 day == DatePoints(typed, found)
      <3>4. RawScore(typed, found) = other + KeywordPoints(typed, found) + color + brand
                                     + LocationPoints(typed, found) + day
        BY DEF RawScore
      <3>5. RawScore(lost, found) = other + KeywordPoints(lost, found) + color + brand
                                    + LocationPoints(lost, found) + day
        BY <2>7 DEF RawScore
      <3>6. other \in Int /\ color \in Int /\ brand \in Int /\ day \in Int
        BY <3>2
      <3> HIDE DEF other, color, brand, day
      <3> QED
        BY <2>6, <2>8, <3>1, <3>2, <3>3, <3>4, <3>5, <3>6
    <2>10. RawScore(lost, found) \in 0..100 /\ RawScore(typed, found) \in 0..100
      BY <2>1, RawScoreBounds
    <2>11. score <= calculate_match_score(typed, found) + 20
      BY <2>9, <2>10 DEF FormInv, calculate_match_score
    <2> QED
      BY <2>11 DEF typed
  <1> QED
    BY <1>1, FormInvHolds, PTL
=============================================================================
