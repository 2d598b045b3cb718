-------------------------------- MODULE Pages --------------------------------
(***************************************************************************)
(* The pages that show matches, as the queries they run on the tables of   *)
(* LostFound: item-details.php, dashboard.php and admin/dashboard.php.     *)
(* They join the tables in three different ways.                           *)
(***************************************************************************)
EXTENDS LostFound

OtherReport(p, i) == IF i = p[1] THEN p[2] ELSE p[1]

(* item-details.php of report i: JOIN the other report, JOIN its reporter. *)
ItemPageMatches(i) ==
    {p \in matches :
        /\ i \in {p[1], p[2]}
        /\ OtherReport(p, i) \in items
        /\ UserId[OtherReport(p, i)] \in users}

(* Fault: the count looks at lost reports only. *)
DashboardMatchesLost(u) == {p \in matches : p[1] \in items /\ UserId[p[1]] = u}

(* dashboard.php of user u: LEFT JOIN both reports, counts a pair once. *)
DashboardMatches(u) ==
    {p \in matches : \E i \in {p[1], p[2]} : i \in items /\ UserId[i] = u}

(* dashboard.php: $myLost and $myFound *)
MyReports(u) == {i \in items : UserId[i] = u}

(* admin/dashboard.php: JOIN both reports; the total counts all matches. *)
AdminMatches == {p \in matches : p[1] \in items /\ p[2] \in items}

(* The three joins never disagree, whatever has been deleted: the pairs a  *)
(* user's dashboard counts are those on the pages of the user's reports,   *)
(* and the administrator's list is as long as the total above it.          *)
PagesAgree ==
    /\ \A u \in users :
          DashboardMatches(u) = UNION {ItemPageMatches(i) : i \in MyReports(u)}
    /\ AdminMatches = matches
=============================================================================
