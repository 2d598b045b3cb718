----------------------------- MODULE MCMatchScoring -----------------------------
(***************************************************************************)
(* Reports for TLC.  The plain ones have keywords typed in two cases, a    *)
(* stopword, repeated and missing words, and dates on each side of the 30  *)
(* and 60 day limits.  The marked ones hold characters that clean()        *)
(* escapes or LIKE interprets, typed by members and by the administrator.  *)
(***************************************************************************)
EXTENDS ReportText

MCWords == {"bag", "Bag", "red", "The", "the", "key", "amp", "039"}

MCMarks == {"&", "'", "#", ";", "%", "_", "\\"}

MCLower == [w \in MCWords |-> IF w = "Bag" THEN "bag" ELSE IF w = "The" THEN "the" ELSE w]

MCEntity ==
    [c \in {"&", "'"} |-> IF c = "&" THEN <<"&", "amp", ";">> ELSE <<"&", "#", "039", ";">>]

(* Three-word texts that differ in how many keywords they have and repeat. *)
MCDescriptions ==
    {<<>>, <<"bag">>, <<"The", "bag">>, <<"red", "red">>, <<"Bag", "red", "red">>}

PlainLost ==
    [category : {"bag"}, item_name : {<<"bag">>, <<"The">>},
     description : MCDescriptions, color : {Blank, "red"}, brand : {"Bag"},
     location : {<<"the">>, <<"Bag", "red">>}, date : {10}]

PlainFound ==
    [category : {"Bag", "red"}, item_name : {<<"The">>},
     description : MCDescriptions, color : {Blank, "red"}, brand : {Blank, "bag"},
     location : {<<"the">>, <<"bag">>}, date : {9, 10, 40, 41, 70, 71}]

MarkedDescriptions ==
    {<<"red", "&">>, <<"&", "'", "&">>, <<"red", "&", "bag", "key">>,
     <<"key", "%", "'", "_", "red">>, <<"red", "\\", "Bag", "&">>}

MarkedLost ==
    [category : {"bag"}, item_name : {<<"bag">>},
     description : MarkedDescriptions,
     color : {Blank, "red"}, brand : {Blank, "bag"},
     location : {<<"the">>, <<"Bag", "&", "red">>}, date : {10}]

MarkedFound ==
    MarkedLost \cup
    [category : {"red"}, item_name : {<<"The">>}, description : {<<"&">>, <<"'", "key">>},
     color : {"red"}, brand : {Blank, "bag"}, location : {<<"&">>, <<"bag">>}, date : {10}]

Typed(channels, reports) == [channel : channels, report : reports]

PlainLostForms   == Typed({"member"}, PlainLost)
PlainFoundForms  == Typed({"member"}, PlainFound)
MarkedLostForms  == Typed(Channels, MarkedLost)
MarkedFoundForms == Typed(Channels, MarkedFound)

MCFormPairs ==
    (PlainLostForms \X PlainFoundForms) \cup (MarkedLostForms \X MarkedFoundForms)

(* The texts as they may be stored. *)
Kept(texts) == texts \cup {clean(t) : t \in texts}

MCLostReports ==
    [category : {"bag"}, item_name : {<<"bag">>, <<"The">>},
     description : MCDescriptions \cup Kept(MarkedDescriptions),
     color : {Blank, "red"}, brand : {Blank, "bag", "Bag"},
     location : Kept({<<"the">>, <<"Bag", "red">>, <<"Bag", "&", "red">>}), date : {10}]

MCFoundReports ==
    [category : {"Bag", "bag", "red"}, item_name : {<<"The">>, <<"bag">>},
     description : MCDescriptions \cup Kept(MarkedDescriptions \cup {<<"&">>, <<"'", "key">>}),
     color : {Blank, "red"}, brand : {Blank, "bag"},
     location : Kept({<<"&">>, <<"the">>, <<"bag">>, <<"Bag", "red">>, <<"Bag", "&", "red">>}),
     date : {9, 10, 40, 41, 70, 71}]

=============================================================================
