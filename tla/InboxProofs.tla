----------------------------- MODULE InboxProofs -----------------------------
(***************************************************************************)
(* The notifications page for any number of users, browsers and            *)
(* notifications.                                                          *)
(***************************************************************************)
EXTENDS Inbox, TLAPS

(* Type correctness: is_read and the page keep their types. *)
THEOREM TypeCorrect == Spec => []TypeOK
  <1>1. Init => TypeOK
    BY MaxNotificationsAssumption DEF Init, TypeOK, Ids, Steps
  <1>2. TypeOK /\ [Next]_vars => TypeOK'
    <2> SUFFICES ASSUME TypeOK, [Next]_vars
                 PROVE  TypeOK'
      OBVIOUS
    <2> USE MaxNotificationsAssumption, UserOfAssumption DEF TypeOK
    <2>1. ASSUME NEW u \in Users, Create(u)
          PROVE  TypeOK'
      BY <2>1 DEF Create, page, Ids
    <2>2. ASSUME NEW u \in Users, DeleteUser(u)
          PROVE  TypeOK'
      BY <2>2 DEF DeleteUser, page, Mine
    <2>3. ASSUME NEW b \in Browsers, MarkRead(b)
          PROVE  TypeOK'
      <3>1. is_read' \in [Ids -> BOOLEAN]
        BY <2>3, Zenon DEF MarkRead, ReadByNow
      <3> QED
        BY <2>3, <3>1 DEF MarkRead, Mine, Steps
    <2>4. ASSUME NEW b \in Browsers, FetchAll(b)
          PROVE  TypeOK'
      BY <2>4 DEF FetchAll, Mine, Steps
    <2>5. ASSUME NEW b \in Browsers, CountUnread(b)
          PROVE  TypeOK'
      <3>1. shown' \subseteq Ids
        BY <2>5 DEF CountUnread
      <3>2. counted' \in [Browsers -> SUBSET Ids]
        BY <2>5 DEF CountUnread, Unread, Mine
      <3> QED
        BY <2>5, <3>1, <3>2 DEF CountUnread, Steps
    <2>6. ASSUME NEW b \in Browsers, Die(b)
          PROVE  TypeOK'
      BY <2>6 DEF Die, Steps
    <2>7. CASE UNCHANGED vars
      BY <2>7 DEF vars, page
    <2> QED
      BY <2>1, <2>2, <2>3, <2>4, <2>5, <2>6, <2>7 DEF Next
  <1> QED
    BY <1>1, <1>2, PTL DEF Spec

-----------------------------------------------------------------------------
(* Only a row can be read, and ids are handed out in order. *)
RowsInOrder ==
    /\ \A n \in Ids : is_read[n] => user_id[n] /= None
    /\ \A n \in Ids : user_id[n] /= None => n < next_id
    /\ \A b \in Browsers : \A n \in marked[b] : n < next_id

(* What the UPDATE of an unfinished page found stays read. *)
MarkedStaysRead ==
    \A b \in Browsers : \A n \in marked[b] :
        pc[b] /= "update" /\ user_id[n] = UserOf[b] => is_read[n]

PageInv == TypeOK /\ RowsInOrder /\ MarkedStaysRead /\ ReadWasShown /\ BadgeOnlyNew

LEMMA InitPageInv == Init => PageInv
  <1>1. Init => TypeOK
    BY MaxNotificationsAssumption DEF Init, TypeOK, Ids, Steps
  <1> QED
    BY <1>1 DEF Init, PageInv, RowsInOrder, MarkedStaysRead, ReadWasShown, BadgeOnlyNew

(* A new row is neither read nor on any page. *)
LEMMA CreateKeeps ==
    ASSUME PageInv, TypeOK', NEW u \in Users, Create(u)
    PROVE  PageInv'
  <1>1. /\ UNCHANGED <<is_read, pc, listed, counted, marked, shown, aborted>>
        /\ next_id' = next_id + 1
        /\ user_id' = [user_id EXCEPT ![next_id] = u]
        /\ next_id \in Ids
    BY MaxNotificationsAssumption DEF Create, page, PageInv, TypeOK, Ids
  <1>2. user_id[next_id] = None /\ ~is_read[next_id]
    BY <1>1 DEF PageInv, RowsInOrder, TypeOK, Ids
  <1>3. RowsInOrder'
    BY <1>1, <1>2 DEF PageInv, RowsInOrder, TypeOK, Ids
  <1>4. MarkedStaysRead'
    <2>1. \A b \in Browsers : next_id \notin marked[b]
      BY <1>1 DEF PageInv, RowsInOrder, TypeOK, Ids
    <2> QED
      BY <1>1, <2>1 DEF PageInv, MarkedStaysRead, TypeOK
  <1>5. ReadWasShown'
    BY <1>1, <1>2 DEF PageInv, ReadWasShown, TypeOK
  <1> QED
    BY <1>1, <1>3, <1>4, <1>5 DEF PageInv, BadgeOnlyNew

LEMMA DeleteUserKeeps ==
    ASSUME PageInv, TypeOK', NEW u \in Users, DeleteUser(u)
    PROVE  PageInv'
  <1>1. UNCHANGED <<next_id, pc, listed, counted, marked, shown, aborted>>
    BY DEF DeleteUser, page
  <1>2. \A n \in Ids : IF user_id[n] = u THEN user_id'[n] = None /\ ~is_read'[n]
                       ELSE user_id'[n] = user_id[n] /\ is_read'[n] = is_read[n]
    <2>1. ASSUME NEW n \in Ids
          PROVE  user_id'[n] = IF user_id[n] = u THEN None ELSE user_id[n]
      BY <2>1 DEF DeleteUser, Mine
    <2>2. ASSUME NEW n \in Ids, user_id[n] = u
          PROVE  ~is_read'[n]
      BY <2>2 DEF DeleteUser, Mine
    <2>3. ASSUME NEW n \in Ids, user_id[n] /= u
          PROVE  is_read'[n] = is_read[n]
      <3>1. is_read'[n] = (is_read[n] /\ n \notin Mine(u))
        BY <2>3, Zenon DEF DeleteUser
      <3>2. n \notin Mine(u)
        BY <2>3 DEF Mine
      <3>3. is_read[n] = TRUE \/ is_read[n] = FALSE
        BY <2>3 DEF PageInv, TypeOK
      <3>4. CASE is_read[n] = TRUE
        BY <3>1, <3>2, <3>4
      <3>5. CASE is_read[n] = FALSE
        BY <3>1, <3>5
      <3> QED
        BY <3>3, <3>4, <3>5
    <2> QED
      BY <2>1, <2>2, <2>3
  <1>3. RowsInOrder'
    BY <1>1, <1>2 DEF PageInv, RowsInOrder
  <1>4. MarkedStaysRead'
    BY <1>1, <1>2, UserOfAssumption, NoneAssumption DEF PageInv, MarkedStaysRead, TypeOK
  <1>5. ReadWasShown'
    BY <1>1, <1>2 DEF PageInv, ReadWasShown
  <1> QED
    BY <1>1, <1>3, <1>4, <1>5 DEF PageInv, BadgeOnlyNew

(* The UPDATE: what it marks is on its way to the list. *)
LEMMA MarkReadKeeps ==
    ASSUME PageInv, TypeOK', NEW b \in Browsers, MarkRead(b)
    PROVE  PageInv'
  <1>1. /\ UNCHANGED <<user_id, next_id, listed, shown, aborted>>
        /\ pc[b] = "update" /\ pc' = [pc EXCEPT ![b] = "select"]
        /\ marked' = [marked EXCEPT ![b] = Mine(UserOf[b])]
        /\ counted' = [counted EXCEPT ![b] = {}]
    BY DEF MarkRead
  <1>2. \A n \in Ids : is_read'[n] = (is_read[n] \/ n \in Mine(UserOf[b]))
    BY Zenon DEF MarkRead, ReadByNow
  <1>3. \A n \in Ids : is_read'[n] <=> (is_read[n] \/ user_id[n] = UserOf[b])
    BY <1>2 DEF Mine
  <1>4. RowsInOrder'
    <2>1. \A n \in Ids : user_id[n] = UserOf[b] => user_id[n] /= None /\ n < next_id
      BY UserOfAssumption, NoneAssumption DEF PageInv, RowsInOrder
    <2> QED
      BY <1>1, <1>3, <2>1 DEF PageInv, RowsInOrder, TypeOK, Mine
  <1>5. MarkedStaysRead'
    BY <1>1, <1>3 DEF PageInv, MarkedStaysRead, TypeOK, Mine
  <1>6. ReadWasShown'
    BY <1>1, <1>3 DEF PageInv, ReadWasShown, TypeOK
  <1>7. BadgeOnlyNew'
    BY <1>1 DEF PageInv, BadgeOnlyNew, TypeOK
  <1> QED
    BY <1>4, <1>5, <1>6, <1>7 DEF PageInv

(* The SELECT and the rest of the page. *)
LEMMA PageKeeps ==
    ASSUME PageInv, TypeOK', NEW b \in Browsers,
           FetchAll(b) \/ CountUnread(b) \/ Die(b)
    PROVE  PageInv'
  <1>1. /\ UNCHANGED <<user_id, is_read, next_id, marked>>
        /\ \A c \in Browsers \ {b} : /\ pc'[c] = pc[c] /\ listed'[c] = listed[c]
                                     /\ counted'[c] = counted[c]
        /\ pc[b] \in {"select", "badge"}
    BY DEF FetchAll, CountUnread, Die, PageInv, TypeOK
  <1>2. RowsInOrder'
    BY <1>1 DEF PageInv, RowsInOrder
  <1>3. MarkedStaysRead'
    BY <1>1 DEF PageInv, MarkedStaysRead
  <1>4. CASE FetchAll(b)
    <2>1. /\ UNCHANGED <<counted, shown, aborted>>
          /\ pc'[b] = "badge" /\ listed'[b] = Mine(UserOf[b])
      BY <1>4 DEF FetchAll, PageInv, TypeOK
    <2>2. ReadWasShown'
      BY <1>1, <2>1 DEF PageInv, ReadWasShown, Mine
    <2> QED
      BY <1>1, <1>2, <1>3, <2>1, <2>2 DEF PageInv, BadgeOnlyNew
  <1>5. CASE CountUnread(b)
    <2>1. /\ UNCHANGED aborted
          /\ pc[b] = "badge" /\ shown' = shown \cup listed[b]
          /\ counted'[b] = {n \in Mine(UserOf[b]) : ~is_read[n]}
      BY <1>5 DEF CountUnread, Unread, PageInv, TypeOK
    <2>2. ReadWasShown'
      BY <1>1, <2>1 DEF PageInv, ReadWasShown
    <2>3. counted'[b] \cap marked'[b] = {}
      BY <1>1, <2>1 DEF PageInv, MarkedStaysRead, Mine
    <2>4. BadgeOnlyNew'
      BY <1>1, <2>3 DEF PageInv, BadgeOnlyNew
    <2> QED
      BY <1>2, <1>3, <2>2, <2>4 DEF PageInv
  <1>6. CASE Die(b)
    <2>1. UNCHANGED <<counted, shown>> /\ aborted' = aborted \cup {b}
      BY <1>6 DEF Die
    <2>2. ReadWasShown'
      BY <1>1, <2>1 DEF PageInv, ReadWasShown
    <2> QED
      BY <1>1, <1>2, <1>3, <2>1, <2>2 DEF PageInv, BadgeOnlyNew
  <1> QED
    BY <1>4, <1>5, <1>6

LEMMA NextPageInv == PageInv /\ TypeOK' /\ [Next]_vars => PageInv'
  <1> SUFFICES ASSUME PageInv, TypeOK', [Next]_vars
               PROVE  PageInv'
    OBVIOUS
  <1>1. CASE UNCHANGED vars
    BY <1>1 DEF vars, page, PageInv, RowsInOrder, MarkedStaysRead, ReadWasShown,
                BadgeOnlyNew
  <1> QED
    BY <1>1, CreateKeeps, DeleteUserKeeps, MarkReadKeeps, PageKeeps DEF Next

(* A notification is never marked read without reaching a page of its      *)
(* user, except by a request that died.                                    *)
THEOREM NothingReadUnseen == Spec => []ReadWasShown
  <1>1. PageInv => ReadWasShown
    BY DEF PageInv
  <1> QED
    BY <1>1, InitPageInv, NextPageInv, TypeCorrect, PTL DEF Spec

(* The badge never counts what the page itself has marked. *)
THEOREM BadgeIsNew == Spec => []BadgeOnlyNew
  <1>1. PageInv => BadgeOnlyNew
    BY DEF PageInv
  <1> QED
    BY <1>1, InitPageInv, NextPageInv, TypeCorrect, PTL DEF Spec
=============================================================================
