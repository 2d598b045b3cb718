------------------------------ MODULE MatchBoard ------------------------------
(***************************************************************************)
(* What the matching core promises its members, without requests: a public *)
(* board of pairs of reports that look alike.  Reports appear and are      *)
(* withdrawn, a pair is put on the board at most once at a time, reports   *)
(* advance because of a pair on the board, and people hear of the pairs    *)
(* they are a party to and of no others.  LostFound implements it by PHP   *)
(* requests whose SQL statements interleave.                               *)
(***************************************************************************)
EXTENDS Naturals

CONSTANTS
    Users,          \* members
    LostItems,      \* ids of lost reports
    FoundItems,     \* ids of found reports
    UserId,         \* who a report is by
    Alike(_)        \* the pairs that belong on the board

Reports == LostItems \cup FoundItems
Couples == LostItems \X FoundItems

VARIABLES
    members,    \* accounts that exist
    reports,    \* reports that exist
    phase,      \* how far a report has come
    board,      \* the pairs on the board
    formerly,   \* pairs that were taken off it
    told        \* who has been told of which pair

vars == <<members, reports, phase, board, formerly, told>>

Init ==
    /\ members = Users
    /\ reports = {}
    /\ phase = [i \in Reports |-> "open"]
    /\ board = {}
    /\ formerly = {}
    /\ told = {}

(* A member files a report. *)
Post(i) ==
    /\ i \notin reports
    /\ UserId[i] \in members
    /\ reports' = reports \cup {i}
    /\ phase' = [phase EXCEPT ![i] = "open"]
    /\ UNCHANGED <<members, board, formerly, told>>

(* Two reports that exist and look alike go on the board together. *)
Record(p) ==
    /\ p \notin board
    /\ Alike(p)
    /\ p[1] \in reports /\ p[2] \in reports
    /\ board' = board \cup {p}
    /\ UNCHANGED <<members, reports, phase, formerly, told>>

(* Only an open report advances, and only because of a pair it is in. *)
Advance(i) ==
    /\ i \in reports
    /\ phase[i] = "open"
    /\ \E p \in board \cup formerly : i \in {p[1], p[2]}
    /\ phase' = [phase EXCEPT ![i] = "matched"]
    /\ UNCHANGED <<members, reports, board, formerly, told>>

(* The owner of a report closes it. *)
Close(i) ==
    /\ i \in reports
    /\ phase' = [phase EXCEPT ![i] = "resolved"]
    /\ UNCHANGED <<members, reports, board, formerly, told>>

(* A party of a pair that is or was on the board hears of it. *)
Tell(p, i) ==
    /\ p \in board \cup formerly
    /\ i \in {p[1], p[2]}
    /\ UserId[i] \in members
    /\ told' = told \cup {[member |-> UserId[i], pair |-> p]}
    /\ UNCHANGED <<members, reports, phase, board, formerly>>

(* Members leave, reports and pairs are withdrawn.  What depends on them   *)
(* goes at the same moment, and nothing else does.                         *)
Withdraw(leaving, dropped, erased) ==
    LET lapsed == dropped \cup {i \in reports : UserId[i] \in leaving}
        off == erased \cup {p \in board : p[1] \in lapsed \/ p[2] \in lapsed}
    IN  /\ members' = members \ leaving
        /\ reports' = reports \ lapsed
        /\ board' = board \ off
        /\ formerly' = formerly \cup off
        /\ told' = {t \in told : t.member \notin leaving}
        /\ UNCHANGED phase

(* Work that no member sees. *)
Unseen == UNCHANGED vars

Next ==
    \/ Unseen
    \/ \E i \in Reports : Post(i) \/ Advance(i) \/ Close(i)
    \/ \E p \in Couples : Record(p) \/ \E i \in Reports : Tell(p, i)
    \/ \E u \in members : Withdraw({u}, {}, {})
    \/ \E i \in reports : Withdraw({}, {i}, {})
    \/ \E p \in board : Withdraw({}, {}, {p})

Spec == Init /\ [][Next]_vars
=============================================================================
