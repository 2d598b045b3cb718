---------------------------- MODULE AccountsProofs ----------------------------
(***************************************************************************)
(* Accounts and sessions for any number of browsers and addresses.         *)
(***************************************************************************)
EXTENDS Accounts, TLAPS

(* Every id in use, by a row or by an open session, was handed out before; *)
(* a session that logged in knows the address it logged in with.           *)
IdsUsed ==
    /\ users \subseteq Rows
    /\ next_id \in Nat \ {0}
    /\ user_id \in [Sessions -> Ids \cup {None}]
    /\ form \in [Sessions -> Emails \cup {None}]
    /\ login_as \in [Sessions -> Emails \cup {None}]
    /\ \A u \in users : u.id < next_id
    /\ \A s \in Sessions : is_logged_in(s) => user_id[s] < next_id

UniqueIds == \A u, v \in users : u.id = v.id => u = v

AccountInv == IdsUsed /\ UniqueIds /\ OneAccountPerEmail /\ SessionKeepsPerson

LEMMA InitAccountInv == Init => AccountInv
  BY DEF Init, AccountInv, IdsUsed, UniqueIds, OneAccountPerEmail, SessionKeepsPerson,
         is_logged_in

(* A new row has a new id and a new address. *)
LEMMA InsertKeeps ==
    ASSUME AccountInv, NEW e \in Emails, InsertAccepted(e), InsertRow(e),
           user_id' = user_id, login_as' = login_as,
           form' \in [Sessions -> Emails \cup {None}]
    PROVE  AccountInv'
  <1> DEFINE row == [id |-> next_id, email |-> e]
  <1>1. /\ users' = users \cup {row} /\ next_id' = next_id + 1
        /\ next_id \in Nat \ {0} /\ next_id <= MaxUsers
    BY DEF InsertRow, NewId, AccountInv, IdsUsed
  <1>2. row \in Rows
    BY <1>1, MaxUsersAssumption DEF Rows, Ids
  <1>3. \A u \in users : u.id /= next_id /\ u.email /= e
    BY <1>1 DEF AccountInv, IdsUsed, InsertAccepted, Taken, Rows, Ids
  <1>4. \A s \in Sessions : user_id[s] /= next_id
    BY <1>1, NoneAssumption DEF AccountInv, IdsUsed, is_logged_in, Ids
  <1>5. IdsUsed'
    BY <1>1, <1>2, MaxUsersAssumption, NoneAssumption
       DEF AccountInv, IdsUsed, is_logged_in, Rows, Ids
  <1>6. UniqueIds' /\ OneAccountPerEmail'
    BY <1>1, <1>3 DEF AccountInv, UniqueIds, OneAccountPerEmail
  <1>7. SessionKeepsPerson'
    BY <1>1, <1>4 DEF AccountInv, SessionKeepsPerson
  <1> QED
    BY <1>5, <1>6, <1>7 DEF AccountInv

LEMMA NextAccountInv == AccountInv /\ [Next]_vars => AccountInv'
  <1> SUFFICES ASSUME AccountInv, [Next]_vars
               PROVE  AccountInv'
    OBVIOUS
  <1>1. ASSUME UNCHANGED <<next_id, user_id, login_as>>, users' \subseteq users,
               form' \in [Sessions -> Emails \cup {None}]
        PROVE  AccountInv'
    BY <1>1 DEF AccountInv, IdsUsed, UniqueIds, OneAccountPerEmail, SessionKeepsPerson,
                is_logged_in
  <1>2. ASSUME NEW s \in Sessions, RegisterInsert(s)
        PROVE  AccountInv'
    <2>1. form[s] \in Emails
      BY <1>2 DEF RegisterInsert, AccountInv, IdsUsed
    <2> QED
      BY <1>2, <2>1, InsertKeeps DEF RegisterInsert, AccountInv, IdsUsed
  <1>3. ASSUME NEW s \in Sessions, NEW e \in Emails, AddUser(s, e)
        PROVE  AccountInv'
    <2>1. /\ user_id' = user_id /\ login_as' = login_as
          /\ form' \in [Sessions -> Emails \cup {None}]
      BY <1>3 DEF AddUser, session, AccountInv, IdsUsed
    <2>2. CASE InsertAccepted(e) /\ InsertRow(e)
      BY <2>1, <2>2, InsertKeeps
    <2>3. CASE UNCHANGED <<users, next_id>>
      BY <1>1, <2>1, <2>3
    <2> QED
      BY <1>3, <2>2, <2>3 DEF AddUser
  <1>4. ASSUME NEW s \in Sessions, NEW u \in users, Login(s, u)
        PROVE  AccountInv'
    <2>1. u \in Rows /\ u.id < next_id
      BY DEF AccountInv, IdsUsed
    <2>2. UNCHANGED <<users, next_id, form>>
      BY <1>4 DEF Login
    <2>3. /\ user_id' = [user_id EXCEPT ![s] = u.id]
          /\ login_as' = [login_as EXCEPT ![s] = u.email]
      BY <1>4 DEF Login
    <2>4. IdsUsed'
      BY <2>1, <2>2, <2>3 DEF AccountInv, IdsUsed, is_logged_in, Rows
    <2>5. SessionKeepsPerson'
      BY <2>2, <2>3 DEF AccountInv, IdsUsed, UniqueIds, SessionKeepsPerson
    <2> QED
      BY <2>2, <2>4, <2>5 DEF AccountInv, UniqueIds, OneAccountPerEmail
  <1>5. ASSUME NEW s \in Sessions, Logout(s)
        PROVE  AccountInv'
    <2>1. UNCHANGED <<users, next_id, form>>
      BY <1>5 DEF Logout
    <2>2. /\ user_id' = [user_id EXCEPT ![s] = None]
          /\ login_as' = [login_as EXCEPT ![s] = None]
      BY <1>5 DEF Logout
    <2>3. IdsUsed'
      BY <2>1, <2>2 DEF AccountInv, IdsUsed, is_logged_in
    <2>4. SessionKeepsPerson'
      <3>1. \A u \in users : u.id /= None
        BY NoneAssumption DEF AccountInv, IdsUsed, Rows, Ids
      <3> QED
        BY <2>1, <2>2, <3>1 DEF AccountInv, IdsUsed, SessionKeepsPerson
    <2> QED
      BY <2>1, <2>3, <2>4 DEF AccountInv, UniqueIds, OneAccountPerEmail
  <1>6. ASSUME NEW s \in Sessions, NEW u \in users, DeleteUser(s, u)
        PROVE  AccountInv'
    BY <1>1, <1>6 DEF DeleteUser, session, AccountInv, IdsUsed
  <1>7. ASSUME NEW s \in Sessions, Register(s)
        PROVE  AccountInv'
    <2>1. ASSUME RegisterInvalid(s) \/ (\E e \in Emails : RegisterTaken(s, e))
          PROVE  AccountInv'
      BY <1>1, <2>1 DEF RegisterInvalid, RegisterTaken, AccountInv, IdsUsed
    <2>2. ASSUME NEW e \in Emails, RegisterFree(s, e)
          PROVE  AccountInv'
      BY <1>1, <2>2 DEF RegisterFree, session, AccountInv, IdsUsed
    <2>3. ASSUME RegisterCrash(s)
          PROVE  AccountInv'
      BY <1>1, <2>3 DEF RegisterCrash, session, AccountInv, IdsUsed
    <2> QED
      BY <1>2, <1>7, <2>1, <2>2, <2>3 DEF Register
  <1>8. ASSUME NEW s \in Sessions,
               \/ LoginFails(s) \/ Visit(s) \/ VisitAuth(s) \/ ItemNotFound(s)
               \/ Report(s) \/ ReportCrash(s) \/ ReportInvalid(s) \/ Resend(s)
               \/ AdminLogin(s) \/ AdminLoginFails(s) \/ AddNobody(s)
        PROVE  AccountInv'
    BY <1>1, <1>8 DEF LoginFails, Visit, VisitAuth, ItemNotFound, Report, ReportCrash,
                      ReportInvalid, Resend, AdminLogin, AdminLoginFails, AddNobody, session,
                      AccountInv, IdsUsed
  <1>9. CASE UNCHANGED vars
    BY <1>1, <1>9 DEF vars, AccountInv, IdsUsed
  <1> QED
    BY <1>3, <1>4, <1>5, <1>6, <1>7, <1>8, <1>9 DEF Next

(* No race of registrations gives one address two accounts. *)
THEOREM EmailsUnique == Spec => []OneAccountPerEmail
  <1>1. AccountInv => OneAccountPerEmail
    BY DEF AccountInv
  <1> QED
    BY <1>1, InitAccountInv, NextAccountInv, PTL DEF Spec

(* No order of deletions and registrations lets an open session act for    *)
(* an account it did not log in to: ids are never handed out twice.        *)
THEOREM SessionsKeepPersons == Spec => []SessionKeepsPerson
  <1>1. AccountInv => SessionKeepsPerson
    BY DEF AccountInv
  <1> QED
    BY <1>1, InitAccountInv, NextAccountInv, PTL DEF Spec

-----------------------------------------------------------------------------
(* Messages *)

(* What only a logged-in request can leave behind. *)
Private == {"reported", "mail_failed"}

(* NoMessageAfterLogout, place by place. *)
Quiet(s) ==
    ~is_logged_in(s) =>
        /\ success[s] \notin Private
        /\ error[s] \notin Private
        /\ page[s] \cap Private = {}

SessionInv == TypeOK /\ \A s \in Sessions : Quiet(s)

LEMMA InitSessionInv == Init => SessionInv
  BY MaxUsersAssumption, MessagesAssumption
     DEF Init, SessionInv, TypeOK, Quiet, Private, Messages

(* A request answers one session and leaves the others as they are. *)
LEMMA OthersQuiet ==
    ASSUME SessionInv, TypeOK', NEW s \in Sessions, Quiet(s)',
           \A q \in Sessions \ {s} :
               /\ user_id'[q] = user_id[q] /\ success'[q] = success[q]
               /\ error'[q] = error[q] /\ page'[q] = page[q]
    PROVE  SessionInv'
  BY DEF SessionInv, Quiet, is_logged_in

(* The rows an INSERT may add. *)
LEMMA InsertType ==
    ASSUME TypeOK, NEW e \in Emails, InsertRow(e)
    PROVE  users' \subseteq Rows /\ next_id' \in 1..MaxUsers + 1
  <1>1. next_id \in Ids /\ next_id' = next_id + 1
    BY MaxUsersAssumption DEF TypeOK, InsertRow, Ids
  <1>2. [id |-> next_id, email |-> e] \in Rows
    BY <1>1 DEF Rows
  <1> QED
    BY <1>1, <1>2, MaxUsersAssumption DEF TypeOK, InsertRow, NewId, Ids

LEMMA NextSessionInv == SessionInv /\ [Next]_vars => SessionInv'
  <1> SUFFICES ASSUME SessionInv, [Next]_vars
               PROVE  SessionInv'
    OBVIOUS
  <1>1. TypeOK
    BY DEF SessionInv
  <1>2. ASSUME NEW s \in Sessions,
               \/ RegisterInvalid(s) \/ (\E e \in Emails : RegisterTaken(s, e))
               \/ LoginFails(s)
        PROVE  SessionInv'
    <2>1. TypeOK'
      BY <1>1, <1>2 DEF RegisterInvalid, RegisterTaken, LoginFails, Answer, TypeOK, Messages
    <2> QED
      BY <1>1, <1>2, <2>1, OthersQuiet, MessagesAssumption
      DEF RegisterInvalid, RegisterTaken, LoginFails, Answer, TypeOK, SessionInv, Quiet,
          Private, is_logged_in, Messages
  <1>3. ASSUME NEW s \in Sessions,
               RegisterCrash(s) \/ (\E e \in Emails : RegisterFree(s, e))
        PROVE  SessionInv'
    <2>1. TypeOK'
      BY <1>1, <1>3 DEF RegisterCrash, RegisterFree, session, TypeOK, Messages
    <2> QED
      BY <1>1, <1>3, <2>1, OthersQuiet
      DEF RegisterCrash, RegisterFree, session, TypeOK, SessionInv, Quiet, Private,
          is_logged_in
  <1>4. ASSUME NEW s \in Sessions, RegisterInsert(s)
        PROVE  SessionInv'
    <2>1. form[s] \in Emails /\ InsertRow(form[s])
      BY <1>1, <1>4 DEF RegisterInsert, TypeOK
    <2>2. TypeOK'
      BY <1>1, <1>4, <2>1, InsertType DEF RegisterInsert, TypeOK, Messages
    <2> QED
      BY <1>1, <1>4, <2>2, OthersQuiet
      DEF RegisterInsert, TypeOK, SessionInv, Quiet, Private, is_logged_in
  <1>5. ASSUME NEW s \in Sessions, Logout(s) \/ (\E u \in users : Login(s, u))
        PROVE  SessionInv'
    <2>1. TypeOK'
      BY <1>1, <1>5 DEF Logout, Login, Answer, TypeOK, Rows
    <2> QED
      BY <1>1, <1>5, <2>1, OthersQuiet, MessagesAssumption
      DEF Logout, Login, Answer, TypeOK, SessionInv, Quiet, Private, is_logged_in, Messages
  <1>6. ASSUME NEW s \in Sessions, Visit(s) \/ VisitAuth(s)
        PROVE  SessionInv'
    <2>1. TypeOK'
      BY <1>1, <1>6 DEF Visit, VisitAuth, Answer, TypeOK, Messages
    <2> QED
      BY <1>1, <1>6, <2>1, OthersQuiet, MessagesAssumption
      DEF Visit, VisitAuth, Answer, TypeOK, SessionInv, Quiet, Private, is_logged_in, Messages
  <1>7. ASSUME NEW s \in Sessions, Report(s) \/ ReportInvalid(s) \/ Resend(s)
        PROVE  SessionInv'
    <2>1. TypeOK'
      BY <1>1, <1>7 DEF Report, ReportInvalid, Resend, Answer, TypeOK, Messages
    <2> QED
      BY <1>1, <1>7, <2>1, OthersQuiet
      DEF Report, ReportInvalid, Resend, Answer, TypeOK, SessionInv, Quiet, is_logged_in
  <1>8. ASSUME NEW s \in Sessions,
               ItemNotFound(s) \/ AdminLogin(s) \/ AdminLoginFails(s) \/ AddNobody(s)
        PROVE  SessionInv'
    <2>1. TypeOK'
      <3>1. CASE ItemNotFound(s)
        BY <1>1, <3>1 DEF ItemNotFound, Answer, TypeOK, Messages
      <3>2. CASE AdminLogin(s)
        BY <1>1, <3>2 DEF AdminLogin, Answer, TypeOK, Messages
      <3>3. CASE AdminLoginFails(s) \/ AddNobody(s)
        BY <1>1, <3>3 DEF AdminLoginFails, AddNobody, session, Answer, TypeOK, Messages
      <3> QED
        BY <1>8, <3>1, <3>2, <3>3
    <2> QED
      BY <1>1, <1>8, <2>1, OthersQuiet
      DEF ItemNotFound, AdminLogin, AdminLoginFails, AddNobody, session, Answer,
          TypeOK, SessionInv, Quiet, Private, is_logged_in
  <1>9. ASSUME NEW s \in Sessions,
               (\E e \in Emails : AddUser(s, e)) \/ (\E u \in users : DeleteUser(s, u))
        PROVE  SessionInv'
    <2>1. users' \subseteq Rows /\ next_id' \in 1..MaxUsers + 1
      BY <1>1, <1>9, InsertType DEF AddUser, DeleteUser, TypeOK
    <2>2. TypeOK'
      BY <1>1, <1>9, <2>1 DEF AddUser, DeleteUser, session, Answer, TypeOK, Messages
    <2> QED
      BY <1>1, <1>9, <2>2, OthersQuiet
      DEF AddUser, DeleteUser, session, Answer, TypeOK, SessionInv, Quiet, Private, is_logged_in
  <1>10. ASSUME NEW s \in Sessions, ReportCrash(s)
         PROVE  SessionInv'
    <2>1. TypeOK'
      BY <1>1, <1>10 DEF ReportCrash, session, Answer, TypeOK, Messages
    <2> QED
      BY <1>1, <1>10, <2>1, OthersQuiet
      DEF ReportCrash, session, Answer, TypeOK, SessionInv, Quiet, Private, is_logged_in
  <1>11. CASE UNCHANGED vars
    BY <1>11 DEF vars, SessionInv, TypeOK, Quiet, is_logged_in
  <1> QED
    BY <1>2, <1>3, <1>4, <1>5, <1>6, <1>7, <1>8, <1>9, <1>10, <1>11 DEF Next, Register

(* Table, sessions and pages keep their types, for any number of browsers. *)
THEOREM TypeCorrect == Spec => []TypeOK
  <1>1. SessionInv => TypeOK
    BY DEF SessionInv
  <1> QED
    BY <1>1, InitSessionInv, NextSessionInv, PTL DEF Spec

(* Flash messages of a logged-in person never reach whoever uses the       *)
(* browser next, whatever pages were or were not visited in between:       *)
(* auth/logout.php destroys the session as a whole.                        *)
THEOREM MessagesEndWithSession == Spec => []NoMessageAfterLogout
  <1>1. SessionInv => NoMessageAfterLogout
    BY DEF SessionInv, Quiet, Private, NoMessageAfterLogout
  <1> QED
    BY <1>1, InitSessionInv, NextSessionInv, PTL DEF Spec
=============================================================================
