-------------------------------- MODULE Inbox --------------------------------
(***************************************************************************)
(* The notifications page, notifications.php, and the badge that           *)
(* includes/header.php puts on it.  The page marks every notification of   *)
(* the user as read before it fetches them, and counts the unread ones     *)
(* after that: three statements between which notifications arrive, the    *)
(* same user opens the page in a second browser, the administrator deletes *)
(* the account, or the request dies.                                       *)
(***************************************************************************)
EXTENDS Naturals

CONSTANTS
    Users,
    Browsers,
    UserOf,             \* who is logged in in a browser
    MaxNotifications,   \* bound: notifications ever created
    None                \* no row

ASSUME MaxNotificationsAssumption == MaxNotifications \in Nat
ASSUME UserOfAssumption == UserOf \in [Browsers -> Users]
ASSUME NoneAssumption == None \notin Users

VARIABLES
    users,      \* accounts that exist
    user_id,    \* notifications.user_id, None where there is no row
    is_read,    \* notifications.is_read
    next_id,    \* AUTO_INCREMENT counter of notifications
    pc,         \* the next statement of the page in each browser
    listed,     \* $notifications while the request runs
    counted,    \* what $unreadCount counted on the page shown last
    marked,     \* history: rows the UPDATE of the page found
    shown,      \* history: notifications that reached a finished page
    aborted     \* history: browsers in which the page died

page == <<pc, listed, counted, marked>>
vars == <<users, user_id, is_read, next_id, page, shown, aborted>>

Ids == 1..MaxNotifications
Steps == {"update", "select", "badge"}

TypeOK ==
    /\ users \subseteq Users
    /\ user_id \in [Ids -> Users \cup {None}]
    /\ is_read \in [Ids -> BOOLEAN]
    /\ next_id \in 1..MaxNotifications + 1
    /\ pc \in [Browsers -> Steps]
    /\ listed \in [Browsers -> SUBSET Ids]
    /\ counted \in [Browsers -> SUBSET Ids]
    /\ marked \in [Browsers -> SUBSET Ids]
    /\ shown \subseteq Ids
    /\ aborted \subseteq Browsers

Init ==
    /\ users = Users
    /\ user_id = [n \in Ids |-> None]
    /\ is_read = [n \in Ids |-> FALSE]
    /\ next_id = 1
    /\ pc = [b \in Browsers |-> "update"]
    /\ listed = [b \in Browsers |-> {}]
    /\ counted = [b \in Browsers |-> {}]
    /\ marked = [b \in Browsers |-> {}]
    /\ shown = {}
    /\ aborted = {}

(* WHERE user_id = ? *)
Mine(u) == {n \in Ids : user_id[n] = u}

(* create_notification: the foreign key needs the account. *)
Create(u) ==
    /\ u \in users
    /\ next_id <= MaxNotifications
    /\ user_id' = [user_id EXCEPT ![next_id] = u]
    /\ next_id' = next_id + 1
    /\ UNCHANGED <<users, is_read, page, shown, aborted>>

(* Fault: the UPDATE has no WHERE. *)
ReadEverything(u) == [n \in Ids |-> user_id[n] /= None]

(* Fault: the UPDATE flips is_read. *)
ReadToggled(u) == [n \in Ids |-> IF n \in Mine(u) THEN ~is_read[n] ELSE is_read[n]]

(* Fault: is_read takes the user's id. *)
ReadIsUser(u) == [n \in Ids |-> IF n \in Mine(u) THEN u ELSE is_read[n]]

(* UPDATE notifications SET is_read = 1 WHERE user_id = ? *)
ReadByNow(u) == [n \in Ids |-> is_read[n] \/ n \in Mine(u)]

MarkRead(b) ==
    /\ pc[b] = "update"
    /\ is_read' = ReadByNow(UserOf[b])
    /\ marked' = [marked EXCEPT ![b] = Mine(UserOf[b])]
    /\ counted' = [counted EXCEPT ![b] = {}]
    /\ pc' = [pc EXCEPT ![b] = "select"]
    /\ UNCHANGED <<users, user_id, next_id, listed, shown, aborted>>

(* SELECT * FROM notifications WHERE user_id = ? *)
FetchAll(b) ==
    /\ pc[b] = "select"
    /\ listed' = [listed EXCEPT ![b] = Mine(UserOf[b])]
    /\ pc' = [pc EXCEPT ![b] = "badge"]
    /\ UNCHANGED <<users, user_id, is_read, next_id, counted, marked, shown, aborted>>

(* includes/header.php: the COUNT of WHERE user_id = ? AND is_read = 0 *)
Unread(u) == {n \in Mine(u) : ~is_read[n]}

(* Fault: the list is fetched again as long as something is unread. *)
CountAndRefetch(b) ==
    /\ pc[b] = "badge"
    /\ counted' = [counted EXCEPT ![b] = Unread(UserOf[b])]
    /\ IF Unread(UserOf[b]) = {}
       THEN shown' = shown \cup listed[b] /\ pc' = [pc EXCEPT ![b] = "update"]
       ELSE UNCHANGED shown /\ pc' = [pc EXCEPT ![b] = "select"]
    /\ listed' = [listed EXCEPT ![b] = {}]
    /\ UNCHANGED <<users, user_id, is_read, next_id, marked, aborted>>

(* The header counts the unread ones; then the list is printed. *)
CountUnread(b) ==
    /\ pc[b] = "badge"
    /\ counted' = [counted EXCEPT ![b] = Unread(UserOf[b])]
    /\ shown' = shown \cup listed[b]
    /\ listed' = [listed EXCEPT ![b] = {}]
    /\ pc' = [pc EXCEPT ![b] = "update"]
    /\ UNCHANGED <<users, user_id, is_read, next_id, marked, aborted>>

(* The request ends between two statements. *)
Die(b) ==
    /\ pc[b] \in {"select", "badge"}
    /\ pc' = [pc EXCEPT ![b] = "update"]
    /\ listed' = [listed EXCEPT ![b] = {}]
    /\ aborted' = aborted \cup {b}
    /\ UNCHANGED <<users, user_id, is_read, next_id, counted, marked, shown>>

(* admin/dashboard.php; the rows of the user go with the account. *)
DeleteUser(u) ==
    /\ u \in users
    /\ users' = users \ {u}
    /\ user_id' = [n \in Ids |-> IF n \in Mine(u) THEN None ELSE user_id[n]]
    /\ is_read' = [n \in Ids |-> is_read[n] /\ n \notin Mine(u)]
    /\ UNCHANGED <<next_id, page, shown, aborted>>

Next ==
    \/ \E u \in Users : Create(u) \/ DeleteUser(u)
    \/ \E b \in Browsers : MarkRead(b) \/ FetchAll(b) \/ CountUnread(b) \/ Die(b)

(* PHP runs a page it has begun to its end. *)
Fairness == \A b \in Browsers : WF_vars(FetchAll(b) \/ CountUnread(b))

Spec == Init /\ [][Next]_vars /\ Fairness

-----------------------------------------------------------------------------
(* Properties *)

(* Nobody loses a notification to the UPDATE that precedes the SELECT: one *)
(* that is marked read has been on a finished page, or is on its way to    *)
(* one in a browser of its user, unless a page of that user died halfway.  *)
ReadWasShown ==
    \A n \in Ids :
        is_read[n] /\ n \notin shown =>
            \E b \in Browsers :
                /\ UserOf[b] = user_id[n]
                /\ \/ pc[b] = "select"
                   \/ pc[b] = "badge" /\ n \in listed[b]
                   \/ b \in aborted

(* The badge on the notifications page announces only what arrived during  *)
(* the visit: no notification that the UPDATE had found is counted as      *)
(* unread, whatever a second browser of the same user does in between.     *)
BadgeOnlyNew ==
    \A b \in Browsers : counted[b] \cap marked[b] = {}

(* A notification that has been marked read comes to a finished page of    *)
(* its user, unless the account is deleted or a page of the user died.     *)
ReadGetsShown ==
    \A n \in Ids :
        is_read[n] ~>
            \/ n \in shown
            \/ ~is_read[n]
            \/ \E b \in aborted : UserOf[b] = user_id[n]
=============================================================================
