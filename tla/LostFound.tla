------------------------------ MODULE LostFound ------------------------------
(***************************************************************************)
(* The matching core of the AIUB Lost & Found site: reports are inserted,  *)
(* scored against the reports of the other kind, recorded as matches and   *)
(* announced to both parties.                                              *)
(*                                                                         *)
(* The site is a set of PHP requests over one MariaDB database.  PDO runs  *)
(* in autocommit mode and the code opens no transaction, so one SQL        *)
(* statement is one atomic step and the statements of different requests   *)
(* interleave freely.  Every request is a process with a program counter;  *)
(* one action is one SQL statement (or one SMTP exchange) together with    *)
(* the PHP code that runs up to the next one.                              *)
(*                                                                         *)
(* The request that submits a report is named by the id the report gets:   *)
(* AUTO_INCREMENT never hands out an id twice.                             *)
(***************************************************************************)
EXTENDS Naturals, FiniteSets

CONSTANTS
    Users,            \* ids of the registered accounts
    LostItems,        \* ids of lost_items rows that may be inserted
    FoundItems,       \* ids of found_items rows that may be inserted
    Resends,          \* requests item-details.php?notify_match=...
    UserId,           \* the user_id column of a report, fixed at INSERT
    NameLength,       \* characters of a report's item_name column
    Score(_, _),      \* calculate_match_score, see module MatchScore
    MATCH_THRESHOLD,
    NoPair,
    MayDie,           \* requests may be killed between two statements
    AdminActive       \* the administrator deletes rows

Items    == LostItems \cup FoundItems
Requests == Items \cup Resends
Pairs    == LostItems \X FoundItems
Roles    == {"owner", "finder"}

ASSUME ItemsAssumption == LostItems \cap FoundItems = {}
ASSUME RequestsAssumption == Items \cap Resends = {}
ASSUME UserIdAssumption == UserId \in [Items -> Users]
ASSUME NameLengthAssumption == NameLength \in [Items -> 1..150]
ASSUME NoPairAssumption == NoPair \notin Pairs
ASSUME ScoreAssumption ==
    /\ MATCH_THRESHOLD \in 0..100
    /\ \A l \in LostItems, f \in FoundItems : Score(l, f) \in 0..100
ASSUME SwitchAssumption == MayDie \in BOOLEAN /\ AdminActive \in BOOLEAN

VARIABLES
    users,          \* ids of the rows of table users
    items,          \* ids of the rows of lost_items and found_items
    status,         \* their status column
    matches,        \* (lost_item_id, found_item_id) of the rows of matches
    notifications,  \* rows of notifications that announce a match
    mails,          \* mails the SMTP server has accepted
    pc,             \* the statement each request is about to execute
    todo,           \* a report's fetched candidates not yet evaluated
    pair,           \* the pair a request is recording or announcing
    recipients,     \* parties notify_match_found has still to address
    allSent,        \* $allSent of notify_match_found
    removed,        \* history: match rows that have been deleted
    recorder        \* history: the request that inserted the match row of a pair

tables  == <<users, items, status, matches>>
locals  == <<todo, pair, recipients, allSent>>
vars    == <<users, items, status, matches, notifications, mails,
             pc, todo, pair, recipients, allSent, removed, recorder>>

-----------------------------------------------------------------------------
(* Rows, queries and their types. *)

Statuses == {"open", "matched", "resolved"}

Announcements == [user_id : Users, pair : Pairs, role : Roles, by : Requests]

Scanning   == {"reload", "candidates", "evaluate"}
Recording  == {"insert_match", "mark_lost", "mark_found"}
Announcing == {"find_owner", "find_finder", "notify", "mail"}
Running    == Scanning \cup Recording \cup Announcing
Ended      == {"done", "died"}

TypeOK ==
    /\ users \subseteq Users
    /\ items \subseteq Items
    /\ status \in [Items -> Statuses]
    /\ matches \subseteq Pairs
    /\ notifications \subseteq Announcements
    /\ mails \subseteq Announcements
    /\ pc \in [Requests -> {"idle"} \cup Running \cup Ended]
    /\ todo \in [Items -> SUBSET Items]
    /\ pair \in [Requests -> Pairs \cup {NoPair}]
    /\ recipients \in [Requests -> SUBSET Roles]
    /\ allSent \in [Requests -> BOOLEAN]
    /\ removed \subseteq Pairs
    /\ recorder \in [Pairs -> Items \cup {NoPair}]

Others(i) == IF i \in LostItems THEN FoundItems ELSE LostItems

PairOf(i, j) == IF i \in LostItems THEN <<i, j>> ELSE <<j, i>>

(* Fault: the candidate query asks for status = 'open'. *)
OpenCandidates(i) == {j \in Others(i) \cap items : status[j] = "open"}

(* SELECT * FROM the other table WHERE status != 'resolved' *)
Candidates(i) == {j \in Others(i) \cap items : status[j] /= "resolved"}

Similar(p) == Score(p[1], p[2]) >= MATCH_THRESHOLD

(* The user a role of a pair stands for. *)
Party(p, role) == UserId[IF role = "owner" THEN p[1] ELSE p[2]]

(* Fault: the UNIQUE key is missing from the schema. *)
MatchRefusedNoUnique(p) == p[1] \notin items \/ p[2] \notin items

(* UNIQUE (lost_item_id, found_item_id) and the two foreign keys. *)
MatchRefused(p) == p \in matches \/ p[1] \notin items \/ p[2] \notin items

(* Fault: the UPDATE lacks AND status = 'open'. *)
MarkedAnyway(i) == IF i \in items THEN [status EXCEPT ![i] = "matched"] ELSE status

(* Fault: the UPDATE writes the initial status of a match row. *)
MarkedPending(i) ==
    IF i \in items /\ status[i] = "open"
    THEN [status EXCEPT ![i] = "pending"]
    ELSE status

(* UPDATE ... SET status = 'matched' WHERE id = ? AND status = 'open' *)
MarkedMatched(i) ==
    IF i \in items /\ status[i] = "open"
    THEN [status EXCEPT ![i] = "matched"]
    ELSE status

(* The owner is addressed first; the finder's block comes second. *)
CurrentRole(r) == IF "owner" \in recipients[r] THEN "owner" ELSE "finder"

(* What notify_match_found returns to: the loop of the report's request,   *)
(* or the redirect that ends item-details.php.                             *)
Caller(r) == IF r \in Items THEN "evaluate" ELSE "done"

Announcement(r) ==
    [user_id |-> Party(pair[r], CurrentRole(r)), pair |-> pair[r],
     role |-> CurrentRole(r), by |-> r]

(* Characters of the title, a fixed text followed by the item's name: the  *)
(* owner's (functions.php:193) and the finder's (functions.php:315).       *)
TitleLength(p, role) ==
    IF role = "owner" THEN 26 + NameLength[p[1]] ELSE 38 + NameLength[p[2]]

(* The row fits: its reader exists, and title is VARCHAR(150), which the   *)
(* server (MySQL 5.7 and later, MariaDB) enforces in its default mode.     *)
NotificationAccepted(r) ==
    /\ Party(pair[r], CurrentRole(r)) \in users
    /\ TitleLength(pair[r], CurrentRole(r)) <= 150

-----------------------------------------------------------------------------
Init ==
    /\ users = Users
    /\ items = {}
    /\ status = [i \in Items |-> "open"]
    /\ matches = {}
    /\ notifications = {}
    /\ mails = {}
    /\ pc = [r \in Requests |-> "idle"]
    /\ todo = [i \in Items |-> {}]
    /\ pair = [r \in Requests |-> NoPair]
    /\ recipients = [r \in Requests |-> {}]
    /\ allSent = [r \in Requests |-> TRUE]
    /\ removed = {}
    /\ recorder = [p \in Pairs |-> NoPair]

-----------------------------------------------------------------------------
(* A report: report-lost.php, report-found.php, admin/add-item.php *)

(* INSERT INTO lost_items / found_items: the row starts with status open. *)
InsertItem(i) ==
    /\ pc[i] = "idle"
    /\ UserId[i] \in users
    /\ items' = items \cup {i}
    /\ pc' = [pc EXCEPT ![i] = "reload"]
    /\ UNCHANGED <<users, status, matches, notifications, mails, locals, removed, recorder>>

(* Fault: report-found.php does not call the matching engine. *)
ReloadLostOnly(i) ==
    /\ pc[i] = "reload"
    /\ pc' = [pc EXCEPT ![i] = IF i \in items \cap LostItems THEN "candidates" ELSE "done"]
    /\ UNCHANGED <<tables, notifications, mails, locals, removed, recorder>>

(* match_new_*_item reads its own row back and returns if it is gone. *)
Reload(i) ==
    /\ pc[i] = "reload"
    /\ pc' = [pc EXCEPT ![i] = IF i \in items THEN "candidates" ELSE "done"]
    /\ UNCHANGED <<tables, notifications, mails, locals, removed, recorder>>

SelectCandidates(i) ==
    /\ pc[i] = "candidates"
    /\ todo' = [todo EXCEPT ![i] = Candidates(i)]
    /\ pc' = [pc EXCEPT ![i] = "evaluate"]
    /\ UNCHANGED <<tables, notifications, mails, pair, recipients, allSent, removed, recorder>>

(* One turn of the foreach: score the fetched row, and if it is similar    *)
(* enough look for an existing match row.                                  *)
Evaluate(i, j) ==
    /\ pc[i] = "evaluate"
    /\ j \in todo[i]
    /\ todo' = [todo EXCEPT ![i] = @ \ {j}]
    /\ IF Similar(PairOf(i, j)) /\ PairOf(i, j) \notin matches
       THEN /\ pair' = [pair EXCEPT ![i] = PairOf(i, j)]
            /\ pc' = [pc EXCEPT ![i] = "insert_match"]
       ELSE UNCHANGED <<pair, pc>>
    /\ UNCHANGED <<tables, notifications, mails, recipients, allSent, removed, recorder>>

(* The loop is over: success flash and redirect. *)
FinishReport(i) ==
    /\ pc[i] = "evaluate"
    /\ todo[i] = {}
    /\ pc' = [pc EXCEPT ![i] = "done"]
    /\ UNCHANGED <<tables, notifications, mails, locals, removed, recorder>>

(* Fault: INSERT IGNORE, so that a refused row goes unnoticed. *)
InsertMatchIgnore(i) ==
    /\ pc[i] = "insert_match"
    /\ IF MatchRefused(pair[i])
       THEN UNCHANGED <<matches, recorder>>
       ELSE /\ matches' = matches \cup {pair[i]}
            /\ recorder' = [recorder EXCEPT ![pair[i]] = i]
    /\ pc' = [pc EXCEPT ![i] = "mark_lost"]
    /\ UNCHANGED <<users, items, status, notifications, mails, locals, removed>>

InsertMatch(i) ==
    /\ pc[i] = "insert_match"
    /\ ~MatchRefused(pair[i])
    /\ matches' = matches \cup {pair[i]}
    /\ recorder' = [recorder EXCEPT ![pair[i]] = i]
    /\ pc' = [pc EXCEPT ![i] = "mark_lost"]
    /\ UNCHANGED <<users, items, status, notifications, mails, locals, removed>>

MarkLost(i) ==
    /\ pc[i] = "mark_lost"
    /\ status' = MarkedMatched(pair[i][1])
    /\ pc' = [pc EXCEPT ![i] = "mark_found"]
    /\ UNCHANGED <<users, items, matches, notifications, mails, locals, removed, recorder>>

(* Fault: the second UPDATE repeats the first one. *)
MarkLostTwice(i) ==
    /\ pc[i] = "mark_found"
    /\ status' = MarkedMatched(pair[i][1])
    /\ pc' = [pc EXCEPT ![i] = "find_owner"]
    /\ UNCHANGED <<users, items, matches, notifications, mails, locals, removed, recorder>>

(* Fault: the call of notify_match_found is missing. *)
MarkFoundSilently(i) ==
    /\ pc[i] = "mark_found"
    /\ status' = MarkedMatched(pair[i][2])
    /\ pc' = [pc EXCEPT ![i] = "evaluate"]
    /\ UNCHANGED <<users, items, matches, notifications, mails, locals, removed, recorder>>

MarkFound(i) ==
    /\ pc[i] = "mark_found"
    /\ status' = MarkedMatched(pair[i][2])
    /\ pc' = [pc EXCEPT ![i] = "find_owner"]
    /\ UNCHANGED <<users, items, matches, notifications, mails, locals, removed, recorder>>

-----------------------------------------------------------------------------
(* notify_match_found, called by a report or by a resend *)

(* item-details.php?notify_match: any logged-in visitor, any match row. *)
BeginResend(r, p) ==
    /\ pc[r] = "idle"
    /\ p \in matches
    /\ pair' = [pair EXCEPT ![r] = p]
    /\ pc' = [pc EXCEPT ![r] = "find_owner"]
    /\ UNCHANGED <<tables, notifications, mails, todo, recipients, allSent, removed, recorder>>

FindOwner(r) ==
    /\ pc[r] = "find_owner"
    /\ recipients' = [recipients EXCEPT ![r] =
                        {role \in {"owner"} : Party(pair[r], role) \in users}]
    /\ pc' = [pc EXCEPT ![r] = "find_finder"]
    /\ UNCHANGED <<tables, notifications, mails, todo, pair, allSent, removed, recorder>>

(* Fault: the finder's block is the else branch of the owner's. *)
FinderElseOwner(r) ==
    Party(pair[r], "finder") \in users /\ "owner" \notin recipients[r]

(* The finder is left out when the owner is the same account. *)
FinderAddressed(r) ==
    /\ Party(pair[r], "finder") \in users
    /\ "owner" \in recipients[r] =>
          Party(pair[r], "finder") /= Party(pair[r], "owner")

FindFinder(r) ==
    /\ pc[r] = "find_finder"
    /\ recipients' = [recipients EXCEPT ![r] =
                        @ \cup {role \in {"finder"} : FinderAddressed(r)}]
    /\ allSent' = [allSent EXCEPT ![r] = TRUE]
    /\ pc' = [pc EXCEPT ![r] =
                IF recipients'[r] = {} THEN Caller(r) ELSE "notify"]
    /\ UNCHANGED <<tables, notifications, mails, todo, pair, removed, recorder>>

(* Fault: both blocks pass the owner's id to create_notification. *)
NotifyOwnerTwice(r) ==
    /\ pc[r] = "notify"
    /\ NotificationAccepted(r)
    /\ notifications' = notifications \cup
          {[Announcement(r) EXCEPT !.user_id = Party(pair[r], "owner")]}
    /\ pc' = [pc EXCEPT ![r] = "mail"]
    /\ UNCHANGED <<tables, mails, locals, removed, recorder>>

(* create_notification *)
Notify(r) ==
    /\ pc[r] = "notify"
    /\ NotificationAccepted(r)
    /\ notifications' = notifications \cup {Announcement(r)}
    /\ pc' = [pc EXCEPT ![r] = "mail"]
    /\ UNCHANGED <<tables, mails, locals, removed, recorder>>

(* Fault: $allSent is overwritten by the result of the last mail. *)
MailLastResult(r, ok) ==
    /\ pc[r] = "mail"
    /\ mails' = IF ok THEN mails \cup {Announcement(r)} ELSE mails
    /\ allSent' = [allSent EXCEPT ![r] = ok]
    /\ recipients' = [recipients EXCEPT ![r] = @ \ {CurrentRole(r)}]
    /\ pc' = [pc EXCEPT ![r] =
                IF recipients'[r] = {} THEN Caller(r) ELSE "notify"]
    /\ UNCHANGED <<tables, notifications, todo, pair, removed, recorder>>

(* Fault: a mail that fails is tried again without a limit. *)
MailRetried(r, ok) ==
    /\ pc[r] = "mail"
    /\ mails' = IF ok THEN mails \cup {Announcement(r)} ELSE mails
    /\ allSent' = [allSent EXCEPT ![r] = @ /\ ok]
    /\ recipients' = [recipients EXCEPT ![r] = IF ok THEN @ \ {CurrentRole(r)} ELSE @]
    /\ pc' = [pc EXCEPT ![r] =
                IF recipients'[r] = {} THEN Caller(r) ELSE "notify"]
    /\ UNCHANGED <<tables, notifications, todo, pair, removed, recorder>>

(* send_email_notification catches what PHPMailer throws: it answers ok. *)
Mail(r, ok) ==
    /\ pc[r] = "mail"
    /\ mails' = IF ok THEN mails \cup {Announcement(r)} ELSE mails
    /\ allSent' = [allSent EXCEPT ![r] = @ /\ ok]
    /\ recipients' = [recipients EXCEPT ![r] = @ \ {CurrentRole(r)}]
    /\ pc' = [pc EXCEPT ![r] =
                IF recipients'[r] = {} THEN Caller(r) ELSE "notify"]
    /\ UNCHANGED <<tables, notifications, todo, pair, removed, recorder>>

-----------------------------------------------------------------------------
(* How a request fails *)

(* The database refuses the statement a request is about to execute. *)
Refused(r) ==
    \/ r \in Items /\ pc[r] = "idle" /\ UserId[r] \notin users
    \/ pc[r] = "insert_match" /\ MatchRefused(pair[r])
    \/ pc[r] = "notify" /\ ~NotificationAccepted(r)

(* ERRMODE_EXCEPTION: nobody catches the PDOException, the request ends. *)
ConstraintError(r) ==
    /\ Refused(r)
    /\ pc' = [pc EXCEPT ![r] = "died"]
    /\ UNCHANGED <<tables, notifications, mails, locals, removed, recorder>>

(* max_execution_time, a lost connection or a stopped server. *)
Die(r) ==
    /\ MayDie
    /\ pc[r] \in Running
    /\ pc' = [pc EXCEPT ![r] = "died"]
    /\ UNCHANGED <<tables, notifications, mails, locals, removed, recorder>>

-----------------------------------------------------------------------------
(* Single-statement requests *)

(* item-details.php?resolve, by the owner, whatever the status was. *)
Resolve(i) ==
    /\ i \in items
    /\ status' = [status EXCEPT ![i] = "resolved"]
    /\ UNCHANGED <<users, items, matches, notifications, mails, pc, locals, removed, recorder>>

(* Fault: the reports have no foreign key to users, so a deleted account   *)
(* leaves its reports behind.                                              *)
DeleteKeepsReports(gone_users, gone_items, gone_matches) ==
    LET cascade_matches == gone_matches \cup
            {p \in matches : p[1] \in gone_items \/ p[2] \in gone_items}
    IN  /\ AdminActive
        /\ users' = users \ gone_users
        /\ items' = items \ gone_items
        /\ matches' = matches \ cascade_matches
        /\ removed' = removed \cup cascade_matches
        /\ notifications' = {n \in notifications : n.user_id \notin gone_users}
        /\ recorder' = [p \in Pairs |-> IF p \in matches' THEN recorder[p] ELSE NoPair]
        /\ UNCHANGED <<status, mails, pc, locals>>

(* Fault: deleting a match also deletes the notifications about it. *)
DeleteTakesNotifications(gone_users, gone_items, gone_matches) ==
    LET cascade_items == gone_items \cup {i \in items : UserId[i] \in gone_users}
        cascade_matches == gone_matches \cup
            {p \in matches : p[1] \in cascade_items \/ p[2] \in cascade_items}
    IN  /\ AdminActive
        /\ users' = users \ gone_users
        /\ items' = items \ cascade_items
        /\ matches' = matches \ cascade_matches
        /\ removed' = removed \cup cascade_matches
        /\ notifications' = {n \in notifications : n.pair \notin cascade_matches}
        /\ recorder' = [p \in Pairs |-> IF p \in matches' THEN recorder[p] ELSE NoPair]
        /\ UNCHANGED <<status, mails, pc, locals>>

(* admin/dashboard.php: rows go, and ON DELETE CASCADE takes what refers   *)
(* to them.                                                                *)
Delete(gone_users, gone_items, gone_matches) ==
    LET cascade_items == gone_items \cup {i \in items : UserId[i] \in gone_users}
        cascade_matches == gone_matches \cup
            {p \in matches : p[1] \in cascade_items \/ p[2] \in cascade_items}
    IN  /\ AdminActive
        /\ users' = users \ gone_users
        /\ items' = items \ cascade_items
        /\ matches' = matches \ cascade_matches
        /\ removed' = removed \cup cascade_matches
        /\ notifications' = {n \in notifications : n.user_id \notin gone_users}
        /\ recorder' = [p \in Pairs |-> IF p \in matches' THEN recorder[p] ELSE NoPair]
        /\ UNCHANGED <<status, mails, pc, locals>>

DeleteUser(u)  == u \in users /\ Delete({u}, {}, {})
DeleteItem(i)  == i \in items /\ Delete({}, {i}, {})
DeleteMatch(p) == p \in matches /\ Delete({}, {}, {p})

-----------------------------------------------------------------------------
(* What a request does by itself once it has begun. *)
ReportStep(i) ==
    \/ Reload(i) \/ SelectCandidates(i) \/ FinishReport(i)
    \/ \E j \in Items : Evaluate(i, j)
    \/ InsertMatch(i) \/ MarkLost(i) \/ MarkFound(i)

NotifyStep(r) ==
    \/ FindOwner(r) \/ FindFinder(r) \/ Notify(r)
    \/ \E ok \in BOOLEAN : Mail(r, ok)

Next ==
    \/ \E i \in Items : InsertItem(i) \/ ReportStep(i) \/ Resolve(i) \/ DeleteItem(i)
    \/ \E r \in Resends, p \in Pairs : BeginResend(r, p)
    \/ \E r \in Requests : NotifyStep(r) \/ ConstraintError(r) \/ Die(r)
    \/ \E u \in Users : DeleteUser(u)
    \/ \E p \in Pairs : DeleteMatch(p)

(* PHP runs a request it has accepted to its end: no statement blocks      *)
(* forever (row locks last one statement, SMTP has a timeout).             *)
Fairness ==
    /\ \A i \in Items : WF_vars(ReportStep(i))
    /\ \A r \in Requests :
          WF_vars(NotifyStep(r) \/ (pc[r] /= "idle" /\ ConstraintError(r)))

Spec == Init /\ [][Next]_vars /\ Fairness

-----------------------------------------------------------------------------
(* Properties *)

(* Foreign keys: a report's reporter, a match's two reports and a          *)
(* notification's reader exist, whatever admin/dashboard.php deletes.      *)
RefIntegrity ==
    /\ \A i \in items : UserId[i] \in users
    /\ \A p \in matches : p[1] \in items /\ p[2] \in items
    /\ \A n \in notifications : n.user_id \in users

(* No request moves a report backwards: matched is never reopened, and a   *)
(* report its owner resolved stays resolved although matching requests     *)
(* that fetched it earlier go on marking it.                               *)
StatusMonotone ==
    [][\A i \in Items :
          /\ status[i] = "resolved" => status'[i] = "resolved"
          /\ status[i] = "matched" => status'[i] /= "open"]_vars

(* Request r works on pair p at one of these statements. *)
At(r, p, statements) == pair[r] = p /\ pc[r] \in statements

(* Neither report of a recorded match still looks open, unless the one     *)
(* request that inserted the row is at the UPDATEs of                      *)
(* evaluate_and_store_match or died before it had done both.  That the     *)
(* other request lost the race for the row and died excuses nothing.       *)
MatchedItemsMarked ==
    \A p \in matches : \A i \in {p[1], p[2]} :
        status[i] = "open" => At(recorder[p], p, {"mark_lost", "mark_found", "died"})

Informed(p, r) ==
    \A role \in Roles : \E n \in notifications :
        n.pair = p /\ n.by = r /\ n.user_id = Party(p, role)

(* A match row means that both parties were told of it in-app by the one   *)
(* request that inserted the row, that this request still works on it, or  *)
(* that it died while it did.  The death of the request that lost the race *)
(* for the row loses no notification, and neither does any other           *)
(* interleaving.                                                           *)
MatchAnnounced ==
    \A p \in matches :
        \/ Informed(p, recorder[p])
        \/ At(recorder[p], p, {"mark_lost", "mark_found", "died"} \cup Announcing)

(* As long as nobody deletes the match row, matching tells one account of  *)
(* one pair at most once: two reports that race on the same pair do not    *)
(* both announce it, and an account that is owner and finder is told once. *)
AlertedOnce ==
    \A m, n \in notifications :
        /\ m.by \in Items /\ n.by \in Items
        /\ m.pair = n.pair /\ m.user_id = n.user_id
        /\ m.pair \notin removed
        => m = n

(* Two similar reports that both exist and are unresolved have a match     *)
(* row once the requests of both are over, however the two overlapped,     *)
(* unless a request died or the administrator deleted the row.             *)
NoMissedPair ==
    \A p \in Pairs :
        /\ Similar(p) /\ p \notin removed
        /\ \A i \in {p[1], p[2]} :
              i \in items /\ status[i] /= "resolved" /\ pc[i] = "done"
        => p \in matches

(* A mail about a match never goes out to an account that cannot see it on *)
(* its notifications page: the row is written before the mail is sent.     *)
MailedIsNotified ==
    \A m \in mails : m.user_id \in users => m \in notifications

(* item-details.php reports success only if no mail of that resend failed: *)
(* every party the resend notified in-app also has the mail.               *)
SuccessMeansAllMailed ==
    \A r \in Resends :
        pc[r] = "done" /\ allSent[r] =>
            \A n \in notifications : n.by = r => n \in mails

(* The abstract board the tables are a view of: what the requests keep to  *)
(* themselves is forgotten, and of a notification only who was told of     *)
(* which pair remains.                                                     *)
Board == INSTANCE MatchBoard WITH
    Alike <- Similar,
    members <- users,
    reports <- items,
    phase <- status,
    board <- matches,
    formerly <- removed,
    told <- {[member |-> n.user_id, pair |-> n.pair] : n \in notifications}

(* To its members the site behaves like the board, although every report,  *)
(* match and message is the work of many statements of requests that       *)
(* overlap, are refused or die: only similar reports that exist are put    *)
(* together, a report advances and a person is told only because of a pair *)
(* that was recorded, and a deletion takes all that depends on it in the   *)
(* same step.                                                              *)
ImplementsBoard == Board!Spec

(* Every request that has begun ends. *)
RequestsTerminate ==
    \A r \in Requests : pc[r] \in Running ~> pc[r] \in Ended

(* Every recorded match is announced to both parties by the request that   *)
(* inserted its row, unless the row is deleted or this request dies while  *)
(* it works on the pair.                                                   *)
MatchEventuallyAnnounced ==
    \A p \in Pairs :
        p \in matches ~>
            \/ p \notin matches
            \/ Informed(p, recorder[p])
            \/ At(recorder[p], p, {"died"})

-----------------------------------------------------------------------------
(* What the documentation says of the program and the code does not keep.  *)

(* README: a new report is scored "against all existing open reports".     *)
(* When no request is running, every two similar unresolved reports have   *)
(* a match row.  A request that loses the race for one match row dies on   *)
(* the duplicate key and leaves its other candidates unscored.             *)
EveryPairScored ==
    (\A r \in Requests : pc[r] \notin Running) =>
        \A p \in Pairs :
            /\ Similar(p) /\ p \notin removed
            /\ \A i \in {p[1], p[2]} : i \in items /\ status[i] /= "resolved"
            => p \in matches

(* README: when a match crosses the threshold "both parties are instantly  *)
(* notified".  When no request is running, both parties of a recorded      *)
(* match have their in-app row.  A title that does not fit its column      *)
(* kills the request after the match row and the marks are written.        *)
BothPartiesNotified ==
    (\A r \in Requests : pc[r] \notin Running) =>
        \A p \in matches : \E r \in {p[1], p[2]} : Informed(p, r)

(* match_new_lost_item: "check it against all open found items".  The      *)
(* candidate that a new report is matched with is not resolved at that     *)
(* moment.  The candidates are fetched once, before the first of them is   *)
(* handled, and an owner may resolve one until its turn comes.             *)
CandidatesUnresolved ==
    [][\A i \in Items, j \in Items :
          /\ j \in Others(i)
          /\ PairOf(i, j) \in matches' \ matches
          /\ recorder'[PairOf(i, j)] = i
          => status[j] /= "resolved"]_vars

(* item-details.php: "Match notification email sent to Gmail successfully" *)
(* is flashed only after at least one mail went out.                       *)
SuccessMeansMailed ==
    \A r \in Resends :
        pc[r] = "done" /\ allSent[r] => \E m \in mails : m.by = r

=============================================================================
