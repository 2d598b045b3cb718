----------------------------- MODULE MCLostFound -----------------------------
(***************************************************************************)
(* Instances of LostFound for TLC.  The scores are those MatchScore gives  *)
(* to four sample reports: all pairs pass the threshold, two of them with  *)
(* exactly 55 points, except (l2, f2), which gets 50.                      *)
(***************************************************************************)
EXTENDS Pages

CONSTANTS u1, u2, l1, l2, f1, f2, r1

(* l1 and f1 belong to the same account. *)
MCUserId == [i \in Items |-> IF i \in {l1, f1} THEN u1 ELSE u2]

(* u1 reports what was lost, u2 what was found. *)
TwoSidedUserId == [i \in Items |-> IF i \in LostItems THEN u1 ELSE u2]

(* Names that just fit into the titles of both notifications ... *)
FittingLengths == [i \in Items |-> IF i \in LostItems THEN 124 ELSE 112]

(* ... and that of l2 is one character too long. *)
EdgeLengths == [i \in Items |-> IF i = l2 THEN 125 ELSE FittingLengths[i]]

MCWords == {"bag", "red", "key"}

MS == INSTANCE MatchScore WITH
        Words <- MCWords, Marks <- {}, Lower <- [w \in MCWords |-> w], Stopwords <- {},
        Blank <- NoPair

Description(i) ==
    CASE i = l1 -> <<"bag", "red">>
      [] i = l2 -> <<"red", "key", "key">>
      [] i = f1 -> <<"bag", "key">>
      [] i = f2 -> <<"red">>

Report(i) ==
    [category |-> "bag", item_name |-> <<>>, description |-> Description(i),
     color |-> NoPair, brand |-> IF i \in {l1, l2} THEN "bag" ELSE NoPair,
     location |-> IF i \in {l1, l2} THEN <<"bag">> ELSE <<"key">>,
     date |-> IF i \in {l1, l2} THEN 1 ELSE 31]

(* Evaluated once by TLC. *)
ScoreTable ==
    [p \in {l1, l2} \X {f1, f2} |-> MS!calculate_match_score(Report(p[1]), Report(p[2]))]

MCScore(l, f) == ScoreTable[<<l, f>>]

ASSUME SampleScores ==
    /\ ScoreTable[<<l1, f1>>] = 55 /\ ScoreTable[<<l1, f2>>] = 55
    /\ ScoreTable[<<l2, f1>>] = 60 /\ ScoreTable[<<l2, f2>>] = 50

=============================================================================
