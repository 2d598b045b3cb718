------------------------------- MODULE Accounts -------------------------------
(***************************************************************************)
(* Accounts, PHP sessions and flash messages: auth/*.php, admin/auth.php,  *)
(* admin/login.php, admin/add-user.php, and the session helpers of         *)
(* includes/functions.php.                                                 *)
(*                                                                         *)
(* PHP holds a lock on the session file while a request runs, so requests  *)
(* of one browser session follow one another; requests of different        *)
(* sessions interleave at their SQL statements.  Only a registration has   *)
(* two of them: SELECT the e-mail, INSERT the row.                         *)
(***************************************************************************)
EXTENDS Naturals

CONSTANTS
    Sessions,   \* browser sessions
    Emails,
    MaxUsers,   \* bound: accounts ever created
    None        \* an absent value

ASSUME MaxUsersAssumption == MaxUsers \in Nat
ASSUME NoneAssumption == None \notin Emails /\ None \notin Nat

VARIABLES
    users,      \* rows of table users: id and email
    next_id,    \* AUTO_INCREMENT counter of the table
    user_id,    \* $_SESSION['user_id']
    admin,      \* $_SESSION['admin_logged_in']
    success,    \* $_SESSION['flash']['success']
    error,      \* $_SESSION['flash']['error']
    form,       \* e-mail of a registration between its two statements
    page,       \* the messages on the page a session saw last
    login_as    \* history: the e-mail a session logged in with

session == <<user_id, admin, success, error, login_as>>
vars    == <<users, next_id, user_id, admin, success, error, form, page, login_as>>

Ids      == 1..MaxUsers
Rows     == [id : Ids, email : Emails]
Messages == {"created", "reported", "exists", "invalid", "not_found", "mail_failed",
             "added", "crashed"}

ASSUME MessagesAssumption == None \notin Messages

TypeOK ==
    /\ users \subseteq Rows
    /\ next_id \in 1..MaxUsers + 1
    /\ user_id \in [Sessions -> Ids \cup {None}]
    /\ admin \in [Sessions -> BOOLEAN]
    /\ success \in [Sessions -> {"created", "reported", None}]
    /\ error \in [Sessions -> {"not_found", "mail_failed", None}]
    /\ form \in [Sessions -> Emails \cup {None}]
    /\ page \in [Sessions -> SUBSET Messages]
    /\ login_as \in [Sessions -> Emails \cup {None}]

Init ==
    /\ users = {}
    /\ next_id = 1
    /\ user_id = [s \in Sessions |-> None]
    /\ admin = [s \in Sessions |-> FALSE]
    /\ success = [s \in Sessions |-> None]
    /\ error = [s \in Sessions |-> None]
    /\ form = [s \in Sessions |-> None]
    /\ page = [s \in Sessions |-> {}]
    /\ login_as = [s \in Sessions |-> None]

is_logged_in(s) == user_id[s] /= None

Taken(e) == \E u \in users : u.email = e

(* Fault: the UNIQUE key on users.email is missing. *)
InsertAlways(e) == TRUE

(* UNIQUE (email): the INSERT is accepted. *)
InsertAccepted(e) == ~Taken(e)

(* Fault: an id freed by DELETE is handed out again. *)
FreedId == CHOOSE n \in 1..MaxUsers + 1 : \A u \in users : u.id /= n

(* AUTO_INCREMENT *)
NewId == next_id

InsertRow(e) ==
    /\ next_id <= MaxUsers
    /\ users' = users \cup {[id |-> NewId, email |-> e]}
    /\ next_id' = next_id + 1

(* The session lock is free and the page is shown to s. *)
Answer(s, messages) ==
    /\ form[s] = None
    /\ page' = [page EXCEPT ![s] = messages]

-----------------------------------------------------------------------------
(* auth/register.php *)

(* A form that fails validation.  The error flash is set and then shown by *)
(* the same request, which also consumes any older error flash.            *)
RegisterInvalid(s) ==
    /\ ~is_logged_in(s)
    /\ Answer(s, {"invalid"})
    /\ error' = [error EXCEPT ![s] = None]
    /\ UNCHANGED <<users, next_id, user_id, admin, success, form, login_as>>

(* SELECT id FROM users WHERE email = ? finds a row. *)
RegisterTaken(s, e) ==
    /\ ~is_logged_in(s)
    /\ Taken(e)
    /\ Answer(s, {"exists"})
    /\ error' = [error EXCEPT ![s] = None]
    /\ UNCHANGED <<users, next_id, user_id, admin, success, form, login_as>>

(* It finds none: the INSERT is the next statement. *)
RegisterFree(s, e) ==
    /\ ~is_logged_in(s)
    /\ form[s] = None
    /\ ~Taken(e)
    /\ form' = [form EXCEPT ![s] = e]
    /\ UNCHANGED <<users, next_id, session, page>>

(* INSERT, success flash, redirect to auth/login.php. *)
RegisterInsert(s) ==
    /\ form[s] /= None
    /\ InsertAccepted(form[s])
    /\ InsertRow(form[s])
    /\ success' = [success EXCEPT ![s] = "created"]
    /\ page' = [page EXCEPT ![s] = {}]
    /\ form' = [form EXCEPT ![s] = None]
    /\ UNCHANGED <<user_id, admin, error, login_as>>

(* The e-mail was registered in between: the PDOException is not caught.   *)
RegisterCrash(s) ==
    /\ form[s] /= None
    /\ ~InsertAccepted(form[s])
    /\ page' = [page EXCEPT ![s] = {"crashed"}]
    /\ form' = [form EXCEPT ![s] = None]
    /\ UNCHANGED <<users, next_id, session>>

-----------------------------------------------------------------------------
(* auth/login.php, auth/logout.php *)

(* Fault: the session keeps the e-mail where the id belongs. *)
LoginByEmail(s, u) ==
    /\ ~is_logged_in(s)
    /\ u \in users
    /\ Answer(s, {})
    /\ user_id' = [user_id EXCEPT ![s] = u.email]
    /\ login_as' = [login_as EXCEPT ![s] = u.email]
    /\ UNCHANGED <<users, next_id, admin, success, error, form>>

(* The visitor has the right password. *)
Login(s, u) ==
    /\ ~is_logged_in(s)
    /\ u \in users
    /\ Answer(s, {})
    /\ user_id' = [user_id EXCEPT ![s] = u.id]
    /\ login_as' = [login_as EXCEPT ![s] = u.email]
    /\ UNCHANGED <<users, next_id, admin, success, error, form>>

LoginFails(s) ==
    /\ ~is_logged_in(s)
    /\ Answer(s, {"invalid"})
    /\ error' = [error EXCEPT ![s] = None]
    /\ UNCHANGED <<users, next_id, user_id, admin, success, form, login_as>>

(* Fault: logout removes the login and leaves the rest of the session. *)
EmptyUserOnly(s) ==
    /\ Answer(s, {})
    /\ user_id' = [user_id EXCEPT ![s] = None]
    /\ login_as' = [login_as EXCEPT ![s] = None]
    /\ UNCHANGED <<users, next_id, admin, success, error, form>>

(* session_destroy: the whole session, for the visitor's logout and for    *)
(* the administrator's alike.                                              *)
Logout(s) ==
    /\ Answer(s, {})
    /\ user_id' = [user_id EXCEPT ![s] = None]
    /\ admin' = [admin EXCEPT ![s] = FALSE]
    /\ success' = [success EXCEPT ![s] = None]
    /\ error' = [error EXCEPT ![s] = None]
    /\ login_as' = [login_as EXCEPT ![s] = None]
    /\ UNCHANGED <<users, next_id, form>>

-----------------------------------------------------------------------------
(* Pages *)

(* Any page with includes/header.php shows both flashes and removes them. *)
Visit(s) ==
    /\ Answer(s, {success[s], error[s]} \ {None})
    /\ success' = [success EXCEPT ![s] = None]
    /\ error' = [error EXCEPT ![s] = None]
    /\ UNCHANGED <<users, next_id, user_id, admin, form, login_as>>

(* GET of auth/login.php or auth/register.php: only the error flash is shown. *)
VisitAuth(s) ==
    /\ ~is_logged_in(s)
    /\ Answer(s, {error[s]} \ {None})
    /\ error' = [error EXCEPT ![s] = None]
    /\ UNCHANGED <<users, next_id, user_id, admin, success, form, login_as>>

(* A report stored, or a report of one's own resolved.  Either needs the   *)
(* row of the reporter.                                                    *)
Report(s) ==
    /\ is_logged_in(s)
    /\ \E u \in users : u.id = user_id[s]
    /\ Answer(s, {})
    /\ success' = [success EXCEPT ![s] = "reported"]
    /\ UNCHANGED <<users, next_id, user_id, admin, error, form, login_as>>

(* The account was deleted while the session lives: the foreign key        *)
(* refuses the INSERT and nobody catches the PDOException.                 *)
ReportCrash(s) ==
    /\ is_logged_in(s)
    /\ \A u \in users : u.id /= user_id[s]
    /\ Answer(s, {"crashed"})
    /\ UNCHANGED <<users, next_id, session, form>>

(* A report form with a field or a valid image missing: the error is shown *)
(* by the same request, next to an older success flash.                    *)
ReportInvalid(s) ==
    /\ is_logged_in(s)
    /\ Answer(s, {"invalid"} \cup ({success[s]} \ {None}))
    /\ success' = [success EXCEPT ![s] = None]
    /\ error' = [error EXCEPT ![s] = None]
    /\ UNCHANGED <<users, next_id, user_id, admin, form, login_as>>

(* item-details.php?notify_match=...: any logged-in session may ask. *)
Resend(s) ==
    /\ is_logged_in(s)
    /\ Answer(s, {})
    /\ \/ success' = [success EXCEPT ![s] = "reported"] /\ UNCHANGED error
       \/ error' = [error EXCEPT ![s] = "mail_failed"] /\ UNCHANGED success
    /\ UNCHANGED <<users, next_id, user_id, admin, form, login_as>>

(* item-details.php of an id that does not exist *)
ItemNotFound(s) ==
    /\ Answer(s, {})
    /\ error' = [error EXCEPT ![s] = "not_found"]
    /\ UNCHANGED <<users, next_id, user_id, admin, success, form, login_as>>

-----------------------------------------------------------------------------
(* Administration *)

(* admin/login.php: the same PHP session as the visitor's. *)
AdminLogin(s) ==
    /\ ~admin[s]
    /\ Answer(s, {})
    /\ admin' = [admin EXCEPT ![s] = TRUE]
    /\ UNCHANGED <<users, next_id, user_id, success, error, form, login_as>>

AdminLoginFails(s) ==
    /\ ~admin[s]
    /\ Answer(s, {"invalid"})
    /\ UNCHANGED <<users, next_id, session, form>>

(* admin/add-user.php with a field missing redirects like an INSERT does. *)
AddNobody(s) ==
    /\ admin[s]
    /\ Answer(s, {"added"})
    /\ UNCHANGED <<users, next_id, session, form>>

(* admin/add-user.php catches a refused INSERT and redirects to added=1    *)
(* in any case.                                                            *)
AddUser(s, e) ==
    /\ admin[s]
    /\ Answer(s, {"added"})
    /\ \/ InsertAccepted(e) /\ InsertRow(e)
       \/ ~InsertAccepted(e) /\ UNCHANGED <<users, next_id>>
    /\ UNCHANGED <<session, form>>

DeleteUser(s, u) ==
    /\ admin[s]
    /\ u \in users
    /\ Answer(s, {})
    /\ users' = users \ {u}
    /\ UNCHANGED <<next_id, session, form>>

-----------------------------------------------------------------------------
Register(s) ==
    \/ RegisterInvalid(s) \/ RegisterInsert(s) \/ RegisterCrash(s)
    \/ \E e \in Emails : RegisterTaken(s, e) \/ RegisterFree(s, e)

Next ==
    \E s \in Sessions :
        \/ Register(s)
        \/ LoginFails(s) \/ Logout(s) \/ (\E u \in users : Login(s, u))
        \/ Visit(s) \/ VisitAuth(s) \/ ItemNotFound(s)
        \/ Report(s) \/ ReportCrash(s) \/ ReportInvalid(s) \/ Resend(s)
        \/ AdminLogin(s) \/ AdminLoginFails(s) \/ AddNobody(s)
        \/ (\E e \in Emails : AddUser(s, e))
        \/ (\E u \in users : DeleteUser(s, u))

Spec == Init /\ [][Next]_vars

-----------------------------------------------------------------------------
(* Properties *)

(* Two registrations that both found an e-mail free, or a registration and *)
(* admin/add-user.php, never leave two accounts with it, which login.php's *)
(* fetch of the first row could not tell apart.                            *)
OneAccountPerEmail ==
    \A u, v \in users : u.email = v.email => u = v

(* A session never turns into another person's: if the account a session   *)
(* logged in to still exists it has the e-mail it logged in with, even if  *)
(* accounts were deleted and registered since and the session is stale.    *)
SessionKeepsPerson ==
    \A s \in Sessions, u \in users : u.id = user_id[s] => u.email = login_as[s]

(* Whoever uses the browser after a logout sees no message meant for the   *)
(* person before: messages of logged-in requests end with the session.     *)
NoMessageAfterLogout ==
    \A s \in Sessions :
        {"reported", "mail_failed"} \cap ({success[s], error[s]} \cup page[s]) /= {}
            => is_logged_in(s)

=============================================================================
