------------------------------ MODULE ReportText ------------------------------
(***************************************************************************)
(* The texts of a report between the keyboard and the database.  The forms *)
(* for members pass every field through clean() and store the escaped      *)
(* text; the administrator's form stores what was typed.  Scores and       *)
(* searches work on the stored texts.  The texts are sequences of tokens   *)
(* as in MatchScore, so there is nothing for trim to cut.                  *)
(***************************************************************************)
EXTENDS MatchScoring, SequencesExt

CONSTANTS
    Entity,     \* the tokens htmlspecialchars writes for a character
    FormPairs   \* what was typed into the form of a lost and of a found one

(* & " ' < and > *)
Specials == DOMAIN Entity

(* In the forms for members, or in admin/add-item.php *)
Channels == {"member", "admin"}

FormType == [channel : Channels, report : ReportType]

(* The characters of a LIKE pattern that do not stand for themselves. *)
LikeMarks == {"%", "_", "\\"}

(* &amp; &quot; &#039; &lt; and &gt; each hold one run of letters or       *)
(* digits, and no character that LIKE reads in its own way.                *)
ASSUME EntityAssumption ==
    /\ Specials \cup LikeMarks \subseteq Marks
    /\ Specials \cap LikeMarks = {}
    /\ \A c \in Specials :
          /\ Entity[c] \in Seq(Tokens \ LikeMarks)
          /\ \E k \in DOMAIN Entity[c] :
                \A m \in DOMAIN Entity[c] : Entity[c][m] \in Words <=> m = k
ASSUME FormPairsAssumption == FormPairs \subseteq FormType \X FormType

VARIABLES lost_form, found_form

forms == <<lost_form, found_form>>

-----------------------------------------------------------------------------
Escape(c) == IF c \in Specials THEN Entity[c] ELSE <<c>>

htmlspecialchars(text) == FlattenSeq([k \in DOMAIN text |-> Escape(text[k])])

(* Fault: the text is escaped when it is read and again when it is stored. *)
clean_twice(text) == htmlspecialchars(htmlspecialchars(text))

clean(text) == htmlspecialchars(text)

StoredText(channel, text) == IF channel = "member" THEN clean(text) ELSE text

(* Fault: report-found.php stores its texts as they were typed. *)
StoredReportLostOnly(kind, form) ==
    LET channel == IF kind = "lost" THEN form.channel ELSE "admin"
        field(text) == StoredText(channel, text)
    IN  [form.report EXCEPT !.item_name = field(@), !.description = field(@),
                            !.location = field(@)]

(* The row that report-lost.php, report-found.php or add-item.php inserts. *)
(* Category, color and brand are single words here, which clean() leaves   *)
(* alone.                                                                  *)
StoredReport(kind, form) ==
    LET field(text) == StoredText(form.channel, text)
    IN  [form.report EXCEPT !.item_name = field(@), !.description = field(@),
                            !.location = field(@)]

(* Fault: the search text goes into the query as it was typed. *)
SearchPatternRaw(q) == <<"%">> \o q \o <<"%">>

(* browse-lost.php, browse-found.php: "%$search%", whose own % _ and \ are *)
(* not escaped for LIKE.                                                   *)
SearchPattern(q) == <<"%">> \o clean(q) \o <<"%">>

(* The columns' collation ignores the case. *)
SameToken(a, b) == a = b \/ (a \in Words /\ b \in Words /\ SameText(a, b))

(* MySQL's LIKE reads the pattern from left to right: "at" are the places  *)
(* of the text that the pattern read so far may end at, "escape" is set    *)
(* after a backslash.  A % stands for any tokens, a _ for a single mark.   *)
LikeStart == [at |-> {0}, escape |-> FALSE]

LikeStep(text, c, scan) ==
    LET literal == {k \in DOMAIN text : k - 1 \in scan.at /\ SameToken(text[k], c)}
        mark == {k \in DOMAIN text : k - 1 \in scan.at /\ text[k] \in Marks}
        anywhere == {k \in 0 .. Len(text) : \E m \in scan.at : m <= k}
    IN  [at |-> IF scan.escape THEN literal
                ELSE CASE c = "\\" -> scan.at
                       [] c = "%" -> anywhere
                       [] c = "_" -> mark
                       [] OTHER -> literal,
         escape |-> ~scan.escape /\ c = "\\"]

(* text LIKE pattern, for a pattern that does not end with a backslash.    *)
(* Whole tokens only: LIKE also finds parts of words.                      *)
Like(text, pattern) ==
    LET scan[k \in 0 .. Len(pattern)] ==
            IF k = 0 THEN LikeStart ELSE LikeStep(text, pattern[k], scan[k - 1])
    IN  Len(text) \in scan[Len(pattern)].at

SearchedFields == {"item_name", "description", "location"}

(* item_name LIKE ? OR description LIKE ? OR location LIKE ?  (An empty    *)
(* search, and the search "0", leave the condition out and list all rows.) *)
Finds(q, form) ==
    \E field \in SearchedFields :
        Like(StoredText(form.channel, form.report[field]), SearchPattern(q))

-----------------------------------------------------------------------------
(* Two reports are stored, and then scored by evaluate_and_store_match. *)
FormInit ==
    /\ \E p \in FormPairs : lost_form = p[1] /\ found_form = p[2]
    /\ lost = StoredReport("lost", lost_form)
    /\ found = StoredReport("found", found_form)
    /\ score = Unscored

FormNext == Call /\ UNCHANGED forms

FormSpec == FormInit /\ [][FormNext]_<<vars, forms>>

-----------------------------------------------------------------------------
(* Properties *)

TypedText(form) == form.report.item_name \o form.report.description

TypedKeywords(form) == Cardinality(DOMAIN extract_keywords(TypedText(form)))

TypedSpecials(form) ==
    Cardinality({k \in DOMAIN TypedText(form) : TypedText(form)[k] \in Specials})

(* A found report that was typed word by word like the lost one reaches    *)
(* the threshold, whatever characters they hold and whichever forms they   *)
(* were typed into.  Only when a member lost it and the administrator      *)
(* enters the found one does escaping cost points, as its words are then   *)
(* in the lost report alone: there must be about as many typed keywords as *)
(* special characters (31 to 29, because the share is rounded).            *)
TwinsRecorded ==
    /\ score /= Unscored
    /\ lost_form.report = found_form.report
    /\ KeywordCount(lost) > 0
    /\ lost_form.channel = "member" /\ found_form.channel = "admin"
       => 31 * TypedKeywords(lost_form) >= 29 * TypedSpecials(lost_form)
    => score >= MATCH_THRESHOLD

(* A visitor who searches for any piece of a report's text finds it, as    *)
(* browse-*.php escape the search like report-*.php the text.  A report of *)
(* the administrator is found by the pieces that need no escaping.  Pieces *)
(* with a backslash are left out: LIKE takes it for its escape character.  *)
PieceFound ==
    \A field \in SearchedFields : \A q \in SubSeqs(lost_form.report[field]) :
        /\ \A k \in DOMAIN q : q[k] /= "\\"
        /\ lost_form.channel = "member" \/ (\A k \in DOMAIN q : q[k] \notin Specials)
        => Finds(q, lost_form)

(* Escaping makes texts that share an "&" share the word "amp", and a      *)
(* location with an "&" meet every other one.  What that adds to a score   *)
(* is bounded: if the owner typed two keywords for each special character  *)
(* of the name and the description, the stored report scores at most 20    *)
(* points more (10 for the words, 10 for the location) than the same       *)
(* report would score as it was typed.                                     *)
EscapesStayMinor ==
    /\ score /= Unscored
    /\ TypedKeywords(lost_form) >= 2 * TypedSpecials(lost_form)
    => score <= calculate_match_score(lost_form.report, found) + 20
=============================================================================
