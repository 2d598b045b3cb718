----------------------------- MODULE MatchScoring -----------------------------
(***************************************************************************)
(* Calls of calculate_match_score, and what the code's rubric promises of  *)
(* the result.                                                             *)
(***************************************************************************)
EXTENDS MatchScore

CONSTANTS
    LostReports,     \* the lost reports of the instance
    FoundReports,    \* the found reports of the instance
    MATCH_THRESHOLD

ASSUME ReportsAssumption ==
    LostReports \subseteq ReportType /\ FoundReports \subseteq ReportType
ASSUME ThresholdAssumption == MATCH_THRESHOLD = 55

-----------------------------------------------------------------------------
(* One call by evaluate_and_store_match, for any pair of reports. *)
VARIABLES lost, found, score

vars == <<lost, found, score>>

Unscored == 101

Init ==
    /\ lost \in LostReports
    /\ found \in FoundReports
    /\ score = Unscored

Call ==
    /\ score = Unscored
    /\ score' = calculate_match_score(lost, found)
    /\ UNCHANGED <<lost, found>>

Next == Call

Spec == Init /\ [][Next]_vars

-----------------------------------------------------------------------------
(* Properties *)

TypeOK ==
    /\ lost \in LostReports
    /\ found \in FoundReports
    /\ score \in 0..100 \cup {Unscored}

(* The weights of the rubric add up to at most 100 for every pair, the     *)
(* rounded keyword share included: the final min() never cuts points off,  *)
(* so no two different totals are reported as the same percentage.         *)
NoPointsCut == RawScore(lost, found) <= 100

(* Category is "required-ish": a pair of different categories reaches the  *)
(* threshold only if the found report repeats about half of the keywords   *)
(* of the lost one (29/60 of them, because the share is rounded).          *)
CategoryOrWords ==
    /\ score /= Unscored /\ score >= MATCH_THRESHOLD
    /\ ~SameText(lost.category, found.category)
    => 60 * CommonCount(lost, found) >= 29 * KeywordCount(lost)

(* One more word in the found report's description never lowers a score.   *)
FoundWordsMonotone ==
    \A w \in Words :
        calculate_match_score(lost, found) <=
        calculate_match_score(lost, [found EXCEPT !.description = Append(@, w)])

LowerText(text) ==
    [k \in DOMAIN text |-> IF text[k] \in Words THEN Lower[text[k]] ELSE text[k]]

LowerField(a) == IF a = Blank THEN a ELSE Lower[a]

LowerReport(r) ==
    [r EXCEPT !.item_name = LowerText(@), !.description = LowerText(@),
              !.location = LowerText(@), !.category = Lower[@],
              !.color = LowerField(@), !.brand = LowerField(@)]

(* The case in which the lost report was typed never matters, for          *)
(* keywords, stopwords and the short fields alike.                         *)
CaseBlind ==
    calculate_match_score(lost, found) = calculate_match_score(LowerReport(lost), found)
=============================================================================
