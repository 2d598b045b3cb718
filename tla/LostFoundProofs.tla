--------------------------- MODULE LostFoundProofs ---------------------------
(***************************************************************************)
(* Safety of LostFound for every number of users, reports and resends.     *)
(***************************************************************************)
EXTENDS LostFound, TLAPS

LEMMA PairComponents ==
    ASSUME NEW p \in Pairs
    PROVE  /\ p[1] \in LostItems /\ p[2] \in FoundItems
           /\ p[1] \in Items /\ p[2] \in Items
           /\ p = <<p[1], p[2]>>
  BY DEF Pairs, Items

LEMMA PairOfType ==
    ASSUME NEW i \in Items, NEW j \in Others(i)
    PROVE  PairOf(i, j) \in Pairs /\ j \in Items
  BY DEF Pairs, Items, Others, PairOf

(* The user behind a role of a pair is an account. *)
LEMMA PartyType ==
    ASSUME NEW p \in Pairs, NEW role \in Roles
    PROVE  Party(p, role) \in Users
  BY PairComponents, UserIdAssumption DEF Party

(* A request that is past the check for an existing row works on a pair,   *)
(* and the candidates of a report are reports of the other kind.           *)
PairKnown ==
    /\ \A r \in Requests : pc[r] \in Recording \cup Announcing => pair[r] \in Pairs
    /\ \A i \in Items : todo[i] \subseteq Others(i)

TypeInv == TypeOK /\ PairKnown

LEMMA InitTypeInv == Init => TypeInv
  BY DEF Init, TypeInv, TypeOK, PairKnown, Requests, Recording, Announcing, Statuses

LEMMA AnnouncementType ==
    ASSUME TypeInv, NEW r \in Requests, pc[r] \in {"notify", "mail"}
    PROVE  Announcement(r) \in Announcements
  <1>1. pair[r] \in Pairs
    BY DEF TypeInv, PairKnown, Announcing
  <1>2. CurrentRole(r) \in Roles
    BY DEF CurrentRole, Roles
  <1> QED
    BY <1>1, <1>2, PartyType DEF Announcement, Announcements

LEMMA NextTypeInv == TypeInv /\ [Next]_vars => TypeInv'
  <1> SUFFICES ASSUME TypeInv, [Next]_vars
               PROVE  TypeInv'
    OBVIOUS
  <1> USE DEF TypeInv, TypeOK, PairKnown, Running, Scanning, Recording, Announcing, Ended
  <1>1. ASSUME NEW i \in Items, InsertItem(i)
        PROVE  TypeInv'
    BY <1>1 DEF InsertItem, locals, Requests
  <1>2. ASSUME NEW i \in Items, Reload(i)
        PROVE  TypeInv'
    BY <1>2 DEF Reload, tables, locals, Requests
  <1>3. ASSUME NEW i \in Items, SelectCandidates(i)
        PROVE  TypeInv'
    <2>1. Candidates(i) \subseteq Others(i) \cap Items
      BY DEF Candidates
    <2> QED
      BY <1>3, <2>1 DEF SelectCandidates, tables, Requests
  <1>4. ASSUME NEW i \in Items, NEW j \in Items, Evaluate(i, j)
        PROVE  TypeInv'
    <2>1. PairOf(i, j) \in Pairs
      BY <1>4, PairOfType DEF Evaluate
    <2> QED
      BY <1>4, <2>1 DEF Evaluate, tables, Requests
  <1>5. ASSUME NEW i \in Items, FinishReport(i)
        PROVE  TypeInv'
    BY <1>5 DEF FinishReport, tables, locals, Requests
  <1>6. ASSUME NEW i \in Items, InsertMatch(i)
        PROVE  TypeInv'
    BY <1>6 DEF InsertMatch, locals, Requests
  <1>7. ASSUME NEW i \in Items, MarkLost(i)
        PROVE  TypeInv'
    BY <1>7, PairComponents DEF MarkLost, MarkedMatched, Statuses, locals, Requests
  <1>8. ASSUME NEW i \in Items, MarkFound(i)
        PROVE  TypeInv'
    BY <1>8, PairComponents DEF MarkFound, MarkedMatched, Statuses, locals, Requests
  <1>9. ASSUME NEW r \in Resends, NEW p \in Pairs, BeginResend(r, p)
        PROVE  TypeInv'
    BY <1>9 DEF BeginResend, tables, Requests
  <1>10. ASSUME NEW r \in Requests, FindOwner(r)
         PROVE  TypeInv'
    BY <1>10 DEF FindOwner, Roles, tables
  <1>11. ASSUME NEW r \in Requests, FindFinder(r)
         PROVE  TypeInv'
    BY <1>11 DEF FindFinder, Caller, Roles, tables
  <1>12. ASSUME NEW r \in Requests, Notify(r)
         PROVE  TypeInv'
    <2>1. Announcement(r) \in Announcements
      BY <1>12, AnnouncementType DEF Notify
    <2> QED
      BY <1>12, <2>1 DEF Notify, tables, locals
  <1>13. ASSUME NEW r \in Requests, NEW ok \in BOOLEAN, Mail(r, ok)
         PROVE  TypeInv'
    <2>1. Announcement(r) \in Announcements
      BY <1>13, AnnouncementType DEF Mail
    <2> QED
      BY <1>13, <2>1 DEF Mail, Caller, tables
  <1>14. ASSUME NEW r \in Requests, ConstraintError(r) \/ Die(r)
         PROVE  TypeInv'
    BY <1>14 DEF ConstraintError, Die, tables, locals
  <1>15. ASSUME NEW i \in Items, Resolve(i)
         PROVE  TypeInv'
    BY <1>15 DEF Resolve, Statuses, locals
  <1>16. ASSUME NEW u \in Users, DeleteUser(u)
         PROVE  TypeInv'
    BY <1>16 DEF DeleteUser, Delete, locals
  <1>17. ASSUME NEW i \in Items, DeleteItem(i)
         PROVE  TypeInv'
    BY <1>17 DEF DeleteItem, Delete, locals
  <1>18. ASSUME NEW p \in Pairs, DeleteMatch(p)
         PROVE  TypeInv'
    BY <1>18 DEF DeleteMatch, Delete, locals
  <1>19. CASE UNCHANGED vars
    BY <1>19 DEF vars
  <1> HIDE DEF TypeInv
  <1> QED
    BY <1>1, <1>2, <1>3, <1>4, <1>5, <1>6, <1>7, <1>8, <1>9, <1>10, <1>11, <1>12,
       <1>13, <1>14, <1>15, <1>16, <1>17, <1>18, <1>19
    DEF Next, ReportStep, NotifyStep

(* Every table and every request variable keeps its type, whatever the     *)
(* interleaving of requests, deletions and deaths.                         *)
THEOREM TypeCorrect == Spec => []TypeOK
  <1>1. TypeInv => TypeOK
    BY DEF TypeInv
  <1> QED
    BY InitTypeInv, NextTypeInv, <1>1, PTL DEF Spec

-----------------------------------------------------------------------------
(* Foreign keys *)

LEMMA NextRefIntegrity == TypeInv /\ RefIntegrity /\ [Next]_vars => RefIntegrity'
  <1> SUFFICES ASSUME TypeInv, RefIntegrity, [Next]_vars
               PROVE  RefIntegrity'
    OBVIOUS
  <1> USE DEF RefIntegrity
  <1>1. ASSUME NEW i \in Items, InsertItem(i)
        PROVE  RefIntegrity'
    BY <1>1 DEF InsertItem
  <1>2. ASSUME NEW i \in Items, InsertMatch(i)
        PROVE  RefIntegrity'
    BY <1>2 DEF InsertMatch, MatchRefused
  <1>3. ASSUME NEW r \in Requests, Notify(r)
        PROVE  RefIntegrity'
    BY <1>3 DEF Notify, NotificationAccepted, Announcement, tables
  <1>4. ASSUME NEW gu, NEW gi, NEW gm, Delete(gu, gi, gm)
        PROVE  RefIntegrity'
    BY <1>4 DEF Delete
  <1>5. ASSUME UNCHANGED <<users, items, matches, notifications>>
        PROVE  RefIntegrity'
    BY <1>5
  <1>6. ASSUME NEW i \in Items, ReportStep(i)
        PROVE  RefIntegrity'
    <2>1. InsertMatch(i) \/ UNCHANGED <<users, items, matches, notifications>>
      BY <1>6 DEF ReportStep, Reload, SelectCandidates, FinishReport, Evaluate,
                  MarkLost, MarkFound, tables
    <2> QED
      BY <1>2, <1>5, <2>1
  <1>7. ASSUME NEW r \in Requests, NotifyStep(r)
        PROVE  RefIntegrity'
    <2>1. Notify(r) \/ UNCHANGED <<users, items, matches, notifications>>
      BY <1>7 DEF NotifyStep, FindOwner, FindFinder, Mail, tables
    <2> QED
      BY <1>3, <1>5, <2>1
  <1>8. ASSUME \/ \E i \in Items : Resolve(i)
               \/ \E r \in Resends, p \in Pairs : BeginResend(r, p)
               \/ \E r \in Requests : ConstraintError(r) \/ Die(r)
               \/ UNCHANGED vars
        PROVE  RefIntegrity'
    <2>1. UNCHANGED <<users, items, matches, notifications>>
      BY <1>8 DEF Resolve, BeginResend, ConstraintError, Die, tables, vars
    <2> QED
      BY <1>5, <2>1
  <1>9. ASSUME \/ \E i \in Items : DeleteItem(i)
               \/ \E u \in Users : DeleteUser(u)
               \/ \E p \in Pairs : DeleteMatch(p)
        PROVE  RefIntegrity'
    BY <1>4, <1>9 DEF DeleteItem, DeleteUser, DeleteMatch
  <1> HIDE DEF RefIntegrity
  <1> QED
    BY <1>1, <1>6, <1>7, <1>8, <1>9 DEF Next

(* No order of reports, announcements and cascading deletes leaves a row   *)
(* that refers to a missing one: the keys of database.sql suffice although *)
(* the code checks nothing.                                                *)
THEOREM ReferencesHold == Spec => []RefIntegrity
  <1>1. Init => RefIntegrity
    BY DEF Init, RefIntegrity
  <1> QED
    BY <1>1, InitTypeInv, NextTypeInv, NextRefIntegrity, PTL DEF Spec

-----------------------------------------------------------------------------
(* Status *)

(* A status never goes back, whichever requests still hold a stale copy of *)
(* the report: the UPDATEs of evaluate_and_store_match repeat the check    *)
(* status = 'open' and so never overwrite a resolve.                       *)
THEOREM StatusForward == Spec => StatusMonotone
  <1> DEFINE Forward == \A i \in Items :
                 /\ status[i] = "resolved" => status'[i] = "resolved"
                 /\ status[i] = "matched" => status'[i] /= "open"
  <1>1. ASSUME TypeInv, [Next]_vars
        PROVE  Forward
    <2>1. ASSUME NEW i \in Items, MarkLost(i) \/ MarkFound(i)
          PROVE  Forward
      <3>1. pair[i] \in Pairs
        BY <1>1, <2>1 DEF MarkLost, MarkFound, TypeInv, PairKnown, Recording, Requests
      <3>2. \E j \in Items : status' = MarkedMatched(j)
        BY <2>1, <3>1, PairComponents DEF MarkLost, MarkFound
      <3> QED
        BY <1>1, <3>2 DEF MarkedMatched, TypeInv, TypeOK
    <2>2. ASSUME NEW i \in Items, Resolve(i)
          PROVE  Forward
      BY <1>1, <2>2 DEF Resolve, TypeInv, TypeOK
    <2>3. \/ \E i \in Items : MarkLost(i) \/ MarkFound(i) \/ Resolve(i)
          \/ status' = status
      BY <1>1 DEF Next, ReportStep, NotifyStep, InsertItem, Reload, SelectCandidates,
                  Evaluate, FinishReport, InsertMatch, BeginResend, FindOwner,
                  FindFinder, Notify, Mail, ConstraintError, Die, DeleteItem,
                  DeleteUser, DeleteMatch, Delete, tables, vars
    <2> QED
      BY <2>1, <2>2, <2>3
  <1>2. ASSUME TypeInv, [Next]_vars
        PROVE  [Forward]_vars
    BY <1>1, <1>2
  <1> QED
    BY <1>2, InitTypeInv, NextTypeInv, PTL DEF Spec, StatusMonotone

-----------------------------------------------------------------------------
(* No pair is missed *)

(* The request of report i will still look at report j: it has not read    *)
(* its candidates yet, j is among the ones it has fetched and not handled, *)
(* or it has just found that the pair has no match row.  A dead request is *)
(* excused.                                                                *)
WillSee(i, j, p) ==
    \/ pc[i] \in {"reload", "candidates", "died"}
    \/ j \in todo[i] /\ pc[i] /= "done"
    \/ pc[i] = "insert_match" /\ pair[i] = p

(* Both reports are there, unresolved and similar, and the administrator   *)
(* has not deleted their match row.                                        *)
Wanted(p) ==
    /\ Similar(p) /\ p \notin removed
    /\ \A i \in {p[1], p[2]} : i \in items /\ status[i] /= "resolved"

(* The inductive form of NoMissedPair: a wanted pair has its row or one of *)
(* the two requests will still see the other report.  A report's request   *)
(* reads its candidates after its own INSERT, so of two overlapping        *)
(* requests the later INSERT is followed by a SELECT that sees the other.  *)
PairSeen ==
    \A p \in Pairs :
        Wanted(p) => \/ p \in matches
                     \/ WillSee(p[1], p[2], p)
                     \/ WillSee(p[2], p[1], p)

LEMMA PairOfBack ==
    ASSUME NEW p \in Pairs
    PROVE  /\ PairOf(p[1], p[2]) = p /\ p[2] \in Others(p[1])
           /\ PairOf(p[2], p[1]) = p /\ p[1] \in Others(p[2])
           /\ p[1] /= p[2]
  BY PairComponents, ItemsAssumption DEF PairOf, Others

(* A step that leaves a report's request where it was, or moves it inside  *)
(* the announcement of a match, still lets it see what it would have seen. *)
LEMMA WillSeeKept ==
    ASSUME TypeInv, NEW i \in Items, NEW j \in Items, NEW p \in Pairs,
           WillSee(i, j, p), todo'[i] = todo[i], pair'[i] = pair[i],
           \/ pc'[i] = pc[i]
           \/ pc'[i] = "died"
           \/ pc[i] \notin {"reload", "candidates", "died", "insert_match"} /\ pc'[i] /= "done"
    PROVE  WillSee(i, j, p)'
  BY DEF WillSee

LEMMA NextPairSeen == TypeInv /\ PairSeen /\ [Next]_vars => PairSeen'
  <1> SUFFICES ASSUME TypeInv, PairSeen, [Next]_vars,
                      NEW p \in Pairs, Wanted(p)'
               PROVE  \/ p \in matches'
                      \/ WillSee(p[1], p[2], p)'
                      \/ WillSee(p[2], p[1], p)'
    BY DEF PairSeen
  <1> DEFINE Goal == \/ p \in matches'
                     \/ WillSee(p[1], p[2], p)'
                     \/ WillSee(p[2], p[1], p)'
             Same(i) == todo'[i] = todo[i] /\ pair'[i] = pair[i] /\ pc'[i] = pc[i]
  <1>a. p[1] \in Items /\ p[2] \in Items /\ p[1] /= p[2]
    BY PairComponents, PairOfBack
  <1>b. ASSUME Wanted(p), p \notin matches
        PROVE  WillSee(p[1], p[2], p) \/ WillSee(p[2], p[1], p)
    BY <1>b DEF PairSeen
  (* Steps that move only one request, outside the scan of its candidates. *)
  <1>c. ASSUME Wanted(p), matches \subseteq matches',
               todo' = todo, \A i \in Items : pair'[i] = pair[i],
               \A i \in Items :
                   \/ pc'[i] = pc[i]
                   \/ pc'[i] = "died"
                   \/ pc[i] \notin {"reload", "candidates", "died", "insert_match"}
                      /\ pc'[i] /= "done"
        PROVE  Goal
    BY <1>a, <1>b, <1>c, WillSeeKept
  <1>1. ASSUME NEW i \in Items, InsertItem(i)
        PROVE  Goal
    <2>1. CASE i \in {p[1], p[2]}
      <3>1. pc'[i] = "reload"
        BY <1>1 DEF InsertItem, TypeInv, TypeOK, Requests
      <3> QED
        BY <2>1, <3>1 DEF WillSee
    <2>2. CASE i \notin {p[1], p[2]}
      <3>1. Wanted(p)
        BY <1>1, <2>2 DEF Wanted, InsertItem
      <3>2. Same(p[1]) /\ Same(p[2]) /\ matches' = matches
        BY <1>1, <2>2, <1>a DEF InsertItem, locals, TypeInv, TypeOK, Requests
      <3> QED
        BY <1>a, <1>b, <3>1, <3>2, WillSeeKept
    <2> QED
      BY <2>1, <2>2
  <1>2. ASSUME NEW i \in Items, Reload(i)
        PROVE  Goal
    <2>1. Wanted(p)
      BY <1>2 DEF Wanted, Reload, tables
    <2>2. CASE i \in {p[1], p[2]}
      <3>1. pc'[i] = "candidates"
        BY <1>2, <2>1, <2>2 DEF Reload, Wanted, TypeInv, TypeOK, Requests
      <3> QED
        BY <2>2, <3>1 DEF WillSee
    <2>3. CASE i \notin {p[1], p[2]}
      <3>1. Same(p[1]) /\ Same(p[2]) /\ matches' = matches
        BY <1>2, <2>3, <1>a DEF Reload, locals, tables, TypeInv, TypeOK, Requests
      <3> QED
        BY <1>a, <1>b, <2>1, <3>1, WillSeeKept
    <2> QED
      BY <2>2, <2>3
  <1>3. ASSUME NEW i \in Items, SelectCandidates(i)
        PROVE  Goal
    <2>1. Wanted(p)
      BY <1>3 DEF Wanted, SelectCandidates, tables
    <2>2. ASSUME NEW j \in Items, {i, j} = {p[1], p[2]}, i /= j
          PROVE  WillSee(i, j, p)'
      <3>1. j \in Candidates(i)
        BY <2>1, <2>2, PairOfBack DEF Wanted, Candidates
      <3>2. j \in todo'[i] /\ pc'[i] = "evaluate"
        BY <1>3, <3>1 DEF SelectCandidates, TypeInv, TypeOK, Requests
      <3> QED
        BY <3>2 DEF WillSee
    <2>3. CASE i = p[1]
      BY <1>a, <2>2, <2>3
    <2>4. CASE i = p[2]
      BY <1>a, <2>2, <2>4
    <2>5. CASE i \notin {p[1], p[2]}
      <3>1. Same(p[1]) /\ Same(p[2]) /\ matches' = matches
        BY <1>3, <2>5, <1>a DEF SelectCandidates, tables, TypeInv, TypeOK, Requests
      <3> QED
        BY <1>a, <1>b, <2>1, <3>1, WillSeeKept
    <2> QED
      BY <2>3, <2>4, <2>5
  <1>4. ASSUME NEW i \in Items, NEW j \in Items, Evaluate(i, j)
        PROVE  Goal
    <2>1. Wanted(p) /\ matches' = matches
      BY <1>4 DEF Wanted, Evaluate, tables
    <2>2. ASSUME NEW k \in Items, NEW x \in Items, i /= k, WillSee(k, x, p)
          PROVE  WillSee(k, x, p)'
      BY <1>4, <2>2, WillSeeKept DEF Evaluate, TypeInv, TypeOK, Requests
    <2>3. ASSUME NEW x \in Items, WillSee(i, x, p), x /= j
          PROVE  WillSee(i, x, p)'
      BY <1>4, <2>3 DEF Evaluate, WillSee, TypeInv, TypeOK, Requests
    <2>4. CASE PairOf(i, j) = p
      <3>1. CASE p \in matches
        BY <2>1, <3>1
      <3>2. CASE p \notin matches
        <4>1. pc'[i] = "insert_match" /\ pair'[i] = p
          BY <1>4, <2>1, <2>4, <3>2 DEF Evaluate, Wanted, TypeInv, TypeOK, Requests
        <4>2. i \in {p[1], p[2]}
          BY <2>4 DEF PairOf
        <4> QED
          BY <4>1, <4>2 DEF WillSee
      <3> QED
        BY <3>1, <3>2
    <2>5. CASE PairOf(i, j) /= p
      <3>1. ~(i = p[1] /\ j = p[2]) /\ ~(i = p[2] /\ j = p[1])
        BY <2>5, PairOfBack
      <3> QED
        BY <1>a, <1>b, <2>1, <2>2, <2>3, <3>1
    <2> QED
      BY <2>4, <2>5
  <1>5. ASSUME NEW i \in Items, FinishReport(i)
        PROVE  Goal
    <2>1. Wanted(p) /\ matches' = matches
      BY <1>5 DEF Wanted, FinishReport, tables
    <2>2. ASSUME NEW k \in Items, NEW x \in Items, WillSee(k, x, p)
          PROVE  k /= i
      BY <1>5, <2>2 DEF FinishReport, WillSee
    <2>3. ASSUME NEW k \in Items, k /= i
          PROVE  Same(k)
      BY <1>5, <2>3 DEF FinishReport, locals, TypeInv, TypeOK, Requests
    <2> QED
      BY <1>a, <1>b, <2>1, <2>2, <2>3, WillSeeKept
  <1>6. ASSUME NEW i \in Items, InsertMatch(i)
        PROVE  Goal
    <2>1. Wanted(p) /\ matches' = matches \cup {pair[i]}
      BY <1>6 DEF Wanted, InsertMatch
    <2>2. ASSUME NEW k \in Items, NEW x \in Items, WillSee(k, x, p), p \notin matches'
          PROVE  WillSee(k, x, p)'
      BY <1>6, <2>1, <2>2 DEF InsertMatch, WillSee, locals, TypeInv, TypeOK, Requests
    <2> QED
      BY <1>a, <1>b, <2>1, <2>2
  <1>7. ASSUME NEW i \in Items, MarkLost(i) \/ MarkFound(i)
        PROVE  Goal
    <2>1. pair[i] \in Pairs
      BY <1>7 DEF MarkLost, MarkFound, TypeInv, PairKnown, Recording, Requests
    <2>2. \E j \in Items : status' = MarkedMatched(j)
      BY <1>7, <2>1, PairComponents DEF MarkLost, MarkFound
    <2>3. \A k \in Items : status'[k] /= "resolved" => status[k] /= "resolved"
      BY <2>2 DEF MarkedMatched, TypeInv, TypeOK
    <2>4. Wanted(p)
      BY <1>a, <1>7, <2>3 DEF Wanted, MarkLost, MarkFound
    <2> QED
      BY <1>7, <1>c, <2>4 DEF MarkLost, MarkFound, locals, TypeInv, TypeOK, Requests
  <1>8. ASSUME NEW r \in Resends, NEW q \in Pairs, BeginResend(r, q)
        PROVE  Goal
    <2>1. r \notin Items
      BY RequestsAssumption
    <2> QED
      BY <1>8, <1>c, <2>1 DEF BeginResend, Wanted, tables, TypeInv, TypeOK, Requests
  <1>9. ASSUME NEW r \in Requests, NotifyStep(r)
        PROVE  Goal
    <2>1. Wanted(p) /\ matches' = matches /\ todo' = todo /\ pair' = pair
      BY <1>9 DEF NotifyStep, FindOwner, FindFinder, Notify, Mail, Wanted, tables, locals
    <2>2. ASSUME NEW i \in Items
          PROVE  \/ pc'[i] = pc[i]
                 \/ pc[i] \in Announcing /\ pc'[i] /= "done"
      BY <1>9 DEF NotifyStep, FindOwner, FindFinder, Notify, Mail, Caller, Announcing,
                  TypeInv, TypeOK, Requests
    <2> QED
      BY <1>c, <2>1, <2>2 DEF Announcing
  <1>10. ASSUME NEW r \in Requests, ConstraintError(r) \/ Die(r)
         PROVE  Goal
    BY <1>10, <1>c DEF ConstraintError, Die, Wanted, tables, locals, TypeInv, TypeOK, Requests
  <1>11. ASSUME NEW i \in Items, Resolve(i)
         PROVE  Goal
    <2>1. \A k \in Items : status'[k] /= "resolved" => status[k] /= "resolved"
      BY <1>11 DEF Resolve, TypeInv, TypeOK
    <2>2. Wanted(p)
      BY <1>a, <1>11, <2>1 DEF Wanted, Resolve
    <2> QED
      BY <1>11, <1>c, <2>2 DEF Resolve, locals
  <1>12. ASSUME NEW gu, NEW gi, NEW gm, Delete(gu, gi, gm)
         PROVE  Goal
    <2>1. Wanted(p)
      BY <1>12 DEF Wanted, Delete
    <2>2. p \in matches => p \in matches'
      BY <1>12 DEF Wanted, Delete
    <2>3. \A i \in Items : Same(i)
      BY <1>12 DEF Delete, locals
    <2> QED
      BY <1>a, <1>b, <2>1, <2>2, <2>3, WillSeeKept
  <1>13. CASE UNCHANGED vars
    BY <1>13, <1>c DEF vars, Wanted
  <1>14. ASSUME NEW i \in Items, ReportStep(i)
         PROVE  Goal
    BY <1>14, <1>2, <1>3, <1>4, <1>5, <1>6, <1>7 DEF ReportStep
  <1>15. ASSUME \/ \E i \in Items : DeleteItem(i)
                \/ \E u \in Users : DeleteUser(u)
                \/ \E q \in Pairs : DeleteMatch(q)
         PROVE  Goal
    BY <1>15, <1>12 DEF DeleteItem, DeleteUser, DeleteMatch
  <1> QED
    BY <1>1, <1>8, <1>9, <1>10, <1>11, <1>13, <1>14, <1>15 DEF Next

(* However many reports are submitted at once and however their requests   *)
(* overlap with each other, with resolves and with deletions, two similar  *)
(* reports are never both finished without a match row.                    *)
THEOREM NothingMissed == Spec => []NoMissedPair
  <1>1. Init => PairSeen
    BY PairComponents DEF Init, PairSeen, Wanted
  <1>2. PairSeen => NoMissedPair
    BY DEF PairSeen, NoMissedPair, Wanted, WillSee
  <1> QED
    BY <1>1, <1>2, InitTypeInv, NextTypeInv, NextPairSeen, PTL DEF Spec

-----------------------------------------------------------------------------
(* No account is told twice *)

Holding == {"mark_lost", "mark_found", "find_owner", "find_finder", "notify", "mail"}

(* Report i's request has recorded pair p and is at work on it. *)
Holds(i, p) == pc[i] \in Holding /\ pair[i] = p

Told(i, p) == {n \in notifications : n.by = i /\ n.pair = p}

(* A pair that a request holds or has announced has, or once had, a row:   *)
(* a second INSERT of it is refused by the UNIQUE key.                     *)
RowExists ==
    \A i \in Items, p \in Pairs :
        Holds(i, p) \/ Told(i, p) /= {} => p \in matches \cup removed

(* So only one of the two requests announces a pair. *)
OneAnnouncer ==
    \A i, k \in Items, p \in Pairs :
        /\ p \notin removed /\ i /= k
        /\ Holds(i, p) \/ Told(i, p) /= {}
        => ~Holds(k, p) /\ Told(k, p) = {}

(* Within one call of notify_match_found the parties still to be addressed *)
(* are different accounts and have not been told yet.                      *)
Untold(i, p) ==
    \/ pc[i] \in {"mark_lost", "mark_found", "find_owner"} /\ Told(i, p) = {}
    \/ pc[i] = "find_finder" /\ Told(i, p) = {} /\ recipients[i] \subseteq {"owner"}
    \/ /\ pc[i] \in {"notify", "mail"}
       /\ recipients[i] /= {}
       /\ recipients[i] = Roles => Party(p, "owner") /= Party(p, "finder")
       /\ \A role \in recipients[i] :
             pc[i] = "notify" \/ role /= CurrentRole(i) =>
                 \A n \in Told(i, p) : n.user_id /= Party(p, role)

NotYetTold ==
    \A i \in Items, p \in Pairs : Holds(i, p) /\ p \notin removed => Untold(i, p)

AlertInv == RowExists /\ OneAnnouncer /\ NotYetTold /\ AlertedOnce

(* Steps after which no request holds or announces more than before. *)
LEMMA AlertKept ==
    ASSUME TypeInv, AlertInv,
           matches \cup removed \subseteq matches' \cup removed',
           removed \subseteq removed',
           notifications' \subseteq notifications,
           \A i \in Items :
               \/ pc'[i] \notin Holding
               \/ pc'[i] = pc[i] /\ pair'[i] = pair[i] /\ recipients'[i] = recipients[i]
               \/ /\ pc[i] \in {"mark_lost", "mark_found"}
                  /\ pc'[i] \in {"mark_found", "find_owner"}
                  /\ pair'[i] = pair[i]
    PROVE  AlertInv'
  <1>1. ASSUME NEW i \in Items, NEW p \in Pairs
        PROVE  /\ Holds(i, p)' => Holds(i, p)
               /\ Told(i, p)' \subseteq Told(i, p)
    BY DEF Holds, Told, Holding
  <1>2. RowExists'
    BY <1>1 DEF AlertInv, RowExists
  <1>3. OneAnnouncer'
    BY <1>1 DEF AlertInv, OneAnnouncer
  <1>4. NotYetTold'
    <2> SUFFICES ASSUME NEW i \in Items, NEW p \in Pairs, Holds(i, p)', p \notin removed'
                 PROVE  Untold(i, p)'
      BY DEF NotYetTold
    <2> QED
      BY <1>1 DEF AlertInv, NotYetTold, Untold, Holds, Holding, CurrentRole
  <1>5. AlertedOnce'
    BY DEF AlertInv, AlertedOnce
  <1> QED
    BY <1>2, <1>3, <1>4, <1>5 DEF AlertInv

LEMMA NextAlertInv == TypeInv /\ AlertInv /\ [Next]_vars => AlertInv'
  <1> SUFFICES ASSUME TypeInv, AlertInv, [Next]_vars
               PROVE  AlertInv'
    OBVIOUS
  <1>1. ASSUME NEW i \in Items,
               \/ InsertItem(i) \/ Reload(i) \/ SelectCandidates(i) \/ FinishReport(i)
               \/ (\E j \in Items : Evaluate(i, j))
        PROVE  AlertInv'
    <2>1. UNCHANGED <<matches, removed, notifications>>
      BY <1>1 DEF InsertItem, Reload, SelectCandidates, FinishReport, Evaluate, tables
    <2>2. \A k \in Items :
              \/ pc'[k] \notin Holding
              \/ pc'[k] = pc[k] /\ pair'[k] = pair[k] /\ recipients'[k] = recipients[k]
      BY <1>1 DEF InsertItem, Reload, SelectCandidates, FinishReport, Evaluate, locals,
                  Holding, TypeInv, TypeOK, Requests
    <2> QED
      BY <2>1, <2>2, AlertKept
  <1>2. ASSUME NEW i \in Items, InsertMatch(i)
        PROVE  AlertInv'
    <2> DEFINE q == pair[i]
    <2>1. q \in Pairs /\ pc[i] = "insert_match" /\ q \notin matches
      BY <1>2 DEF InsertMatch, MatchRefused, TypeInv, PairKnown, Recording, Requests
    <2>2. /\ matches' = matches \cup {q} /\ pair' = pair /\ recipients' = recipients
          /\ removed' = removed /\ notifications' = notifications
          /\ pc'[i] = "mark_lost"
          /\ \A k \in Items \ {i} : pc'[k] = pc[k]
      BY <1>2 DEF InsertMatch, locals, TypeInv, TypeOK, Requests
    <2>3. ASSUME NEW k \in Items, NEW p \in Pairs
          PROVE  /\ Holds(k, p)' => Holds(k, p) \/ (k = i /\ p = q)
                 /\ Told(k, p)' = Told(k, p)
      BY <2>2 DEF Holds, Told, Holding
    <2>4. ASSUME q \notin removed, NEW k \in Items
          PROVE  ~Holds(k, q) /\ Told(k, q) = {}
      BY <2>1, <2>4 DEF AlertInv, RowExists
    <2>5. RowExists'
      BY <2>2, <2>3 DEF AlertInv, RowExists
    <2>6. OneAnnouncer'
      BY <2>2, <2>3, <2>4 DEF AlertInv, OneAnnouncer
    <2>7. NotYetTold'
      <3> SUFFICES ASSUME NEW k \in Items, NEW p \in Pairs, Holds(k, p)', p \notin removed'
                   PROVE  Untold(k, p)'
        BY DEF NotYetTold
      <3>1. CASE k = i
        BY <2>2, <2>3, <2>4, <3>1 DEF Untold, Holds
      <3>2. CASE k /= i
        BY <2>2, <2>3, <3>2 DEF AlertInv, NotYetTold, Untold, CurrentRole
      <3> QED
        BY <3>1, <3>2
    <2>8. AlertedOnce'
      BY <2>2 DEF AlertInv, AlertedOnce
    <2> QED
      BY <2>5, <2>6, <2>7, <2>8 DEF AlertInv
  <1>3. ASSUME NEW i \in Items, MarkLost(i) \/ MarkFound(i)
        PROVE  AlertInv'
    BY <1>3, AlertKept DEF MarkLost, MarkFound, locals, Holding, TypeInv, TypeOK, Requests
  <1>4. ASSUME NEW r \in Resends, NEW p \in Pairs, BeginResend(r, p)
        PROVE  AlertInv'
    <2>1. r \notin Items
      BY RequestsAssumption
    <2> QED
      BY <1>4, <2>1, AlertKept DEF BeginResend, tables, TypeInv, TypeOK, Requests
  <1>5. ASSUME NEW r \in Requests,
               FindOwner(r) \/ FindFinder(r) \/ (\E ok \in BOOLEAN : Mail(r, ok))
        PROVE  AlertInv'
    <2>1. /\ UNCHANGED <<matches, removed, notifications, pair>>
          /\ \A k \in Items : Holds(k, pair[k])' => Holds(k, pair[k])
          /\ \A k \in Items \ {r} : pc'[k] = pc[k] /\ recipients'[k] = recipients[k]
      BY <1>5 DEF FindOwner, FindFinder, Mail, tables, Holds, Holding, TypeInv, TypeOK, Requests
    <2>2. ASSUME NEW k \in Items, NEW p \in Pairs
          PROVE  (Holds(k, p)' => Holds(k, p)) /\ Told(k, p)' = Told(k, p)
      BY <2>1 DEF Holds, Told
    <2>3. RowExists'
      BY <2>1, <2>2 DEF AlertInv, RowExists
    <2>4. OneAnnouncer'
      BY <2>1, <2>2 DEF AlertInv, OneAnnouncer
    <2>5. NotYetTold'
      <3> SUFFICES ASSUME NEW k \in Items, NEW p \in Pairs, Holds(k, p)', p \notin removed'
                   PROVE  Untold(k, p)'
        BY DEF NotYetTold
      <3>1. Untold(k, p) /\ pair[k] = p /\ Told(k, p)' = Told(k, p)
        BY <2>1, <2>2 DEF AlertInv, NotYetTold, Holds
      <3>2. CASE k /= r
        BY <2>1, <3>1, <3>2 DEF Untold, CurrentRole
      <3>3. CASE k = r /\ FindOwner(r)
        BY <3>1, <3>3 DEF FindOwner, Untold, TypeInv, TypeOK, Requests
      <3>4. CASE k = r /\ FindFinder(r)
        <4>1. pc[k] = "find_finder" /\ Told(k, p) = {} /\ recipients[k] \subseteq {"owner"}
          BY <3>1, <3>4 DEF FindFinder, Untold
        <4>2. recipients'[k] = recipients[k] \cup {role \in {"finder"} : FinderAddressed(k)}
          BY <3>4 DEF FindFinder, TypeInv, TypeOK
        <4>3. pc'[k] = IF recipients'[k] = {} THEN "evaluate" ELSE "notify"
          BY <3>4 DEF FindFinder, Caller, TypeInv, TypeOK
        <4>4. recipients'[k] = Roles => Party(p, "owner") /= Party(p, "finder")
          BY <3>1, <4>1, <4>2 DEF Roles, FinderAddressed
        <4>5. pc'[k] = "notify"
          BY <4>3 DEF Holds, Holding
        <4> QED
          BY <3>1, <4>1, <4>3, <4>4, <4>5 DEF Untold
      <3>5. ASSUME NEW ok \in BOOLEAN, k = r, Mail(r, ok)
            PROVE  Untold(k, p)'
        <4>1. pc[k] = "mail" /\ recipients'[k] = recipients[k] \ {CurrentRole(k)}
          BY <3>5 DEF Mail, TypeInv, TypeOK
        <4>2. pc'[k] = IF recipients'[k] = {} THEN "evaluate" ELSE "notify"
          BY <3>5 DEF Mail, Caller, TypeInv, TypeOK
        <4>3. pc'[k] = "notify" /\ recipients'[k] /= {}
          BY <4>2 DEF Holds, Holding
        <4>4. recipients'[k] /= Roles
          BY <4>1 DEF CurrentRole, Roles
        <4>5. \A role \in recipients'[k] : \A n \in Told(k, p) : n.user_id /= Party(p, role)
          BY <3>1, <4>1 DEF Untold
        <4> QED
          BY <3>1, <4>3, <4>4, <4>5 DEF Untold
      <3> QED
        BY <1>5, <3>2, <3>3, <3>4, <3>5
    <2>6. AlertedOnce'
      BY <2>1 DEF AlertInv, AlertedOnce
    <2> QED
      BY <2>3, <2>4, <2>5, <2>6 DEF AlertInv
  <1>6. ASSUME NEW r \in Requests, Notify(r)
        PROVE  AlertInv'
    <2> DEFINE q == pair[r]
               new == Announcement(r)
    <2>1. /\ UNCHANGED <<matches, removed, pair, recipients>>
          /\ notifications' = notifications \cup {new}
          /\ pc[r] = "notify" /\ pc'[r] = "mail"
          /\ \A k \in Items \ {r} : pc'[k] = pc[k]
      BY <1>6 DEF Notify, tables, locals, TypeInv, TypeOK, Requests
    <2>2. /\ q \in Pairs /\ new \in Announcements
          /\ new.by = r /\ new.pair = q /\ new.user_id = Party(q, CurrentRole(r))
      BY <2>1, AnnouncementType DEF Announcement, TypeInv, PairKnown, Announcing
    <2>3. ASSUME NEW k \in Items, NEW p \in Pairs
          PROVE  /\ Holds(k, p)' <=> Holds(k, p)
                 /\ Told(k, p)' = IF k = r /\ p = q THEN Told(k, p) \cup {new} ELSE Told(k, p)
      BY <2>1, <2>2 DEF Holds, Told, Holding
    <2>4. r \in Items => Holds(r, q)
      BY <2>1 DEF Holds, Holding
    <2>5. RowExists'
      BY <2>1, <2>2, <2>3, <2>4 DEF AlertInv, RowExists
    <2>6. OneAnnouncer'
      BY <2>1, <2>2, <2>3, <2>4 DEF AlertInv, OneAnnouncer
    <2>7. ASSUME r \in Items, q \notin removed
          PROVE  /\ Untold(r, q)
                 /\ CurrentRole(r) \in recipients[r]
                 /\ \A n \in Told(r, q) : n.user_id /= new.user_id
      <3>1. Untold(r, q)
        BY <2>2, <2>4, <2>7 DEF AlertInv, NotYetTold
      <3>2. CurrentRole(r) \in recipients[r]
        BY <2>1, <3>1 DEF Untold, CurrentRole, TypeInv, TypeOK, Roles
      <3> QED
        BY <2>1, <2>2, <3>1, <3>2 DEF Untold
    <2>8. NotYetTold'
      <3> SUFFICES ASSUME NEW k \in Items, NEW p \in Pairs, Holds(k, p)', p \notin removed'
                   PROVE  Untold(k, p)'
        BY DEF NotYetTold
      <3>1. Holds(k, p) /\ Untold(k, p)
        BY <2>1, <2>3 DEF AlertInv, NotYetTold
      <3>2. CASE k /= r
        BY <2>1, <2>3, <3>1, <3>2 DEF Untold, CurrentRole
      <3>3. CASE k = r
        <4>1. p = q
          BY <3>1, <3>3 DEF Holds
        <4>2. CurrentRole(k)' = CurrentRole(k)
          BY <2>1 DEF CurrentRole
        <4>3. ASSUME NEW role \in recipients[k], role /= CurrentRole(k)
              PROVE  Party(p, role) /= new.user_id
          <5>1. recipients[k] = Roles
            BY <4>3 DEF CurrentRole, TypeInv, TypeOK, Roles, Requests
          <5>2. Party(p, "owner") /= Party(p, "finder")
            BY <2>1, <3>1, <3>3, <5>1 DEF Untold
          <5> QED
            BY <2>2, <3>3, <4>1, <4>3, <5>1, <5>2 DEF Roles, CurrentRole
        <4>4. \A role \in recipients[k] : role /= CurrentRole(k) =>
                  \A n \in Told(k, p)' : n.user_id /= Party(p, role)
          BY <2>1, <2>3, <3>1, <3>3, <4>1, <4>3 DEF Untold
        <4>5. /\ pc'[k] = "mail" /\ recipients'[k] = recipients[k]
              /\ recipients[k] /= {}
              /\ recipients[k] = Roles => Party(p, "owner") /= Party(p, "finder")
          BY <2>1, <3>1, <3>3 DEF Untold
        <4> QED
          BY <4>2, <4>4, <4>5 DEF Untold
      <3> QED
        BY <3>2, <3>3
    <2>9. AlertedOnce'
      <3>1. ASSUME NEW n \in notifications, n.by \in Items, r \in Items,
                   n.pair = q, q \notin removed
            PROVE  n.user_id /= new.user_id
        <4>1. n \in Told(n.by, q)
          BY <3>1 DEF Told
        <4>2. n.by = r
          BY <2>2, <2>4, <3>1, <4>1 DEF AlertInv, OneAnnouncer
        <4> QED
          BY <2>7, <3>1, <4>1, <4>2
      <3> QED
        BY <2>1, <2>2, <3>1 DEF AlertInv, AlertedOnce
    <2> QED
      BY <2>5, <2>6, <2>8, <2>9 DEF AlertInv
  <1>7. ASSUME NEW r \in Requests, ConstraintError(r) \/ Die(r)
        PROVE  AlertInv'
    BY <1>7, AlertKept DEF ConstraintError, Die, tables, locals, Holding, TypeInv, TypeOK, Requests
  <1>8. ASSUME NEW gu, NEW gi, NEW gm, Delete(gu, gi, gm)
        PROVE  AlertInv'
    BY <1>8, AlertKept DEF Delete, locals
  <1>9. ASSUME (\E i \in Items : Resolve(i)) \/ UNCHANGED vars
        PROVE  AlertInv'
    BY <1>9, AlertKept DEF Resolve, locals, vars
  <1>10. ASSUME \/ \E i \in Items : DeleteItem(i)
                \/ \E u \in Users : DeleteUser(u)
                \/ \E p \in Pairs : DeleteMatch(p)
         PROVE  AlertInv'
    BY <1>8, <1>10 DEF DeleteItem, DeleteUser, DeleteMatch
  <1> QED
    BY <1>1, <1>2, <1>3, <1>4, <1>5, <1>6, <1>7, <1>9, <1>10 DEF Next, ReportStep, NotifyStep

(* Matching tells one account of one pair at most once while the match row *)
(* stands, for any number of reports racing on it: the UNIQUE key lets one *)
(* request through, and notify_match_found skips a finder who is also the  *)
(* owner.                                                                  *)
THEOREM NobodyToldTwice == Spec => []AlertedOnce
  <1>1. Init => AlertInv
    BY DEF Init, AlertInv, RowExists, OneAnnouncer, NotYetTold, AlertedOnce, Holds, Holding,
           Told, Requests
  <1>2. AlertInv => AlertedOnce
    BY DEF AlertInv
  <1> QED
    BY <1>1, <1>2, InitTypeInv, NextTypeInv, NextAlertInv, PTL DEF Spec

-----------------------------------------------------------------------------
(* Notifications come before mails *)

(* A request that is about to send a mail has written the row, and the row *)
(* can only go with the account it is for.                                 *)
MailBacked ==
    \A r \in Requests :
        pc[r] = "mail" /\ Party(pair[r], CurrentRole(r)) \in users =>
            Announcement(r) \in notifications

MailInv == MailedIsNotified /\ MailBacked

(* Steps that neither mail nor move a request to its mail. *)
LEMMA MailKept ==
    ASSUME TypeInv, MailInv, mails' = mails, users' \subseteq users,
           \A n \in notifications : n.user_id \in users' => n \in notifications',
           \A r \in Requests :
               pc'[r] /= "mail" \/ (pc'[r] = pc[r] /\ pair'[r] = pair[r]
                                  /\ recipients'[r] = recipients[r])
    PROVE  MailInv'
  <1>1. MailedIsNotified'
    BY DEF MailInv, MailedIsNotified
  <1>2. MailBacked'
    <2> SUFFICES ASSUME NEW r \in Requests, pc'[r] = "mail",
                        (Party(pair[r], CurrentRole(r)) \in users)'
                 PROVE  (Announcement(r) \in notifications)'
      BY DEF MailBacked
    <2>1. /\ pc[r] = "mail" /\ pair'[r] = pair[r]
          /\ CurrentRole(r)' = CurrentRole(r) /\ Announcement(r)' = Announcement(r)
      BY DEF CurrentRole, Announcement, Party
    <2>2. Party(pair[r], CurrentRole(r)) \in users'
      BY <2>1
    <2>3. Announcement(r) \in notifications
      BY <2>1, <2>2 DEF MailInv, MailBacked
    <2>4. Announcement(r).user_id = Party(pair[r], CurrentRole(r))
      BY DEF Announcement
    <2> QED
      BY <2>1, <2>2, <2>3, <2>4
  <1> QED
    BY <1>1, <1>2 DEF MailInv

LEMMA NextMailInv == TypeInv /\ MailInv /\ [Next]_vars => MailInv'
  <1> SUFFICES ASSUME TypeInv, MailInv, [Next]_vars
               PROVE  MailInv'
    OBVIOUS
  <1>1. ASSUME NEW i \in Items, InsertItem(i) \/ ReportStep(i) \/ Resolve(i)
        PROVE  MailInv'
    <2>1. UNCHANGED <<users, notifications, mails, recipients>>
      BY <1>1 DEF InsertItem, ReportStep, Reload, SelectCandidates, FinishReport, Evaluate,
                  InsertMatch, MarkLost, MarkFound, Resolve, tables, locals
    <2>2. \A r \in Requests : pc'[r] /= "mail" \/ (pc'[r] = pc[r] /\ pair'[r] = pair[r])
      BY <1>1 DEF InsertItem, ReportStep, Reload, SelectCandidates, FinishReport, Evaluate,
                  InsertMatch, MarkLost, MarkFound, Resolve, locals, TypeInv, TypeOK, Requests
    <2> QED
      BY <2>1, <2>2, MailKept
  <1>2. ASSUME NEW r \in Resends, NEW p \in Pairs, BeginResend(r, p)
        PROVE  MailInv'
    BY <1>2, MailKept DEF BeginResend, tables, TypeInv, TypeOK, Requests
  <1>3. ASSUME NEW r \in Requests,
               FindOwner(r) \/ FindFinder(r) \/ ConstraintError(r) \/ Die(r)
        PROVE  MailInv'
    <2>1. UNCHANGED <<users, notifications, mails, pair>>
      BY <1>3 DEF FindOwner, FindFinder, ConstraintError, Die, tables, locals
    <2>2. pc'[r] /= "mail"
      BY <1>3 DEF FindOwner, FindFinder, Caller, ConstraintError, Die, TypeInv, TypeOK
    <2>3. \A k \in Requests \ {r} : pc'[k] = pc[k] /\ recipients'[k] = recipients[k]
      BY <1>3 DEF FindOwner, FindFinder, ConstraintError, Die, locals, TypeInv, TypeOK
    <2> QED
      BY <2>1, <2>2, <2>3, MailKept
  <1>4. ASSUME NEW r \in Requests, Notify(r)
        PROVE  MailInv'
    <2>1. /\ UNCHANGED <<users, mails, pair, recipients>>
          /\ notifications' = notifications \cup {Announcement(r)}
          /\ \A k \in Requests \ {r} : pc'[k] = pc[k]
      BY <1>4 DEF Notify, tables, locals, TypeInv, TypeOK
    <2>2. MailedIsNotified'
      BY <2>1 DEF MailInv, MailedIsNotified
    <2>3. \A k \in Requests : CurrentRole(k)' = CurrentRole(k) /\ Announcement(k)' = Announcement(k)
      BY <2>1 DEF CurrentRole, Announcement, Party
    <2>4. MailBacked'
      BY <2>1, <2>3 DEF MailInv, MailBacked
    <2> QED
      BY <2>2, <2>4 DEF MailInv
  <1>5. ASSUME NEW r \in Requests, NEW ok \in BOOLEAN, Mail(r, ok)
        PROVE  MailInv'
    <2>1. /\ UNCHANGED <<users, notifications, pair>>
          /\ mails' \subseteq mails \cup {Announcement(r)}
          /\ pc[r] = "mail" /\ pc'[r] /= "mail"
          /\ \A k \in Requests \ {r} : pc'[k] = pc[k] /\ recipients'[k] = recipients[k]
      BY <1>5 DEF Mail, Caller, tables, TypeInv, TypeOK
    <2>2. Announcement(r).user_id = Party(pair[r], CurrentRole(r))
      BY DEF Announcement
    <2>3. MailedIsNotified'
      BY <2>1, <2>2 DEF MailInv, MailedIsNotified, MailBacked
    <2>4. \A k \in Requests \ {r} :
              CurrentRole(k)' = CurrentRole(k) /\ Announcement(k)' = Announcement(k)
      BY <2>1 DEF CurrentRole, Announcement, Party
    <2>5. MailBacked'
      BY <2>1, <2>4 DEF MailInv, MailBacked
    <2> QED
      BY <2>3, <2>5 DEF MailInv
  <1>6. ASSUME NEW gu, NEW gi, NEW gm, Delete(gu, gi, gm)
        PROVE  MailInv'
    BY <1>6, MailKept DEF Delete, locals
  <1>7. ASSUME \/ \E i \in Items : DeleteItem(i)
               \/ \E u \in Users : DeleteUser(u)
               \/ \E p \in Pairs : DeleteMatch(p)
        PROVE  MailInv'
    BY <1>6, <1>7 DEF DeleteItem, DeleteUser, DeleteMatch
  <1>8. CASE UNCHANGED vars
    BY <1>8, MailKept DEF vars
  <1> QED
    BY <1>1, <1>2, <1>3, <1>4, <1>5, <1>7, <1>8 DEF Next, NotifyStep

(* Whatever requests overlap, fail or die and whichever rows are deleted   *)
(* between the INSERT and the mail, nobody with an account is mailed about *)
(* a match that the notifications page does not show.                      *)
THEOREM MailsBacked == Spec => []MailedIsNotified
  <1>1. Init => MailInv
    BY DEF Init, MailInv, MailedIsNotified, MailBacked
  <1>2. MailInv => MailedIsNotified
    BY DEF MailInv
  <1> QED
    BY <1>1, <1>2, InitTypeInv, NextTypeInv, NextMailInv, PTL DEF Spec

-----------------------------------------------------------------------------
(* A resend that reports success *)

(* What resend r has written was mailed, or a mail has failed and $allSent *)
(* remembers it, or it is the row whose mail is due.                       *)
SentOrFailed(r) ==
    /\ pc[r] \in {"idle", "done", "died"} \cup Announcing
    /\ pc[r] \in {"idle", "find_owner", "find_finder"} =>
          \A n \in notifications : n.by /= r
    /\ pc[r] \in {"notify", "mail", "done"} /\ allSent[r] =>
          \A n \in notifications :
              n.by = r => n \in mails \/ (pc[r] = "mail" /\ n = Announcement(r))

ResendInv == \A r \in Resends : SentOrFailed(r)

(* Steps of others. *)
LEMMA SentKept ==
    ASSUME NEW r \in Resends, SentOrFailed(r),
           mails \subseteq mails',
           \A n \in notifications' : n.by = r => n \in notifications,
           pc'[r] = pc[r], allSent'[r] = allSent[r], pair'[r] = pair[r],
           recipients'[r] = recipients[r]
    PROVE  SentOrFailed(r)'
  <1>1. Announcement(r)' = Announcement(r)
    BY DEF Announcement, CurrentRole, Party
  <1> QED
    BY <1>1 DEF SentOrFailed

LEMMA NextResendInv == TypeInv /\ ResendInv /\ [Next]_vars => ResendInv'
  <1> SUFFICES ASSUME TypeInv, [Next]_vars, NEW r \in Resends, SentOrFailed(r)
               PROVE  SentOrFailed(r)'
    BY DEF ResendInv
  <1>a. r \in Requests /\ r \notin Items
    BY RequestsAssumption DEF Requests
  <1>1. ASSUME NEW i \in Items, InsertItem(i) \/ ReportStep(i) \/ Resolve(i)
        PROVE  SentOrFailed(r)'
    <2>1. UNCHANGED <<notifications, mails, recipients, allSent>>
      BY <1>1 DEF InsertItem, ReportStep, Reload, SelectCandidates, FinishReport, Evaluate,
                  InsertMatch, MarkLost, MarkFound, Resolve, tables, locals
    <2>2. pc'[r] = pc[r] /\ pair'[r] = pair[r]
      BY <1>1, <1>a DEF InsertItem, ReportStep, Reload, SelectCandidates, FinishReport, Evaluate,
                  InsertMatch, MarkLost, MarkFound, Resolve, locals, TypeInv, TypeOK
    <2> QED
      BY <2>1, <2>2, SentKept
  <1>2. ASSUME NEW k \in Resends, NEW p \in Pairs, BeginResend(k, p)
        PROVE  SentOrFailed(r)'
    <2>1. CASE k = r
      BY <1>2, <1>a, <2>1 DEF BeginResend, SentOrFailed, Announcing, TypeInv, TypeOK
    <2>2. CASE k /= r
      BY <1>2, <1>a, <2>2, SentKept DEF BeginResend, TypeInv, TypeOK
    <2> QED
      BY <2>1, <2>2
  <1>3. ASSUME NEW k \in Requests, k /= r, NotifyStep(k) \/ ConstraintError(k) \/ Die(k)
        PROVE  SentOrFailed(r)'
    <2>1. pc'[r] = pc[r] /\ pair'[r] = pair[r]
      BY <1>3, <1>a DEF NotifyStep, FindOwner, FindFinder, Notify, Mail, ConstraintError, Die,
                        locals, TypeInv, TypeOK
    <2>2. recipients'[r] = recipients[r] /\ allSent'[r] = allSent[r]
      BY <1>3, <1>a DEF NotifyStep, FindOwner, FindFinder, Notify, Mail, ConstraintError, Die,
                        locals, TypeInv, TypeOK
    <2>3. mails \subseteq mails' /\ notifications' \subseteq notifications \cup {Announcement(k)}
      BY <1>3 DEF NotifyStep, FindOwner, FindFinder, Notify, Mail, ConstraintError, Die
    <2>4. Announcement(k).by = k
      BY DEF Announcement
    <2> QED
      BY <1>3, <2>1, <2>2, <2>3, <2>4, SentKept
  <1>4. CASE FindOwner(r)
    BY <1>4, <1>a DEF FindOwner, SentOrFailed, Announcing, TypeInv, TypeOK
  <1>5. CASE FindFinder(r)
    <2>1. pc'[r] \in {"notify", "done"}
      BY <1>5, <1>a DEF FindFinder, Caller, TypeInv, TypeOK
    <2> QED
      BY <1>5, <2>1 DEF FindFinder, SentOrFailed, Announcing
  <1>6. CASE Notify(r)
    <2>1. pc'[r] = "mail" /\ pc[r] = "notify" /\ allSent' = allSent /\ mails' = mails
      BY <1>6, <1>a DEF Notify, locals, TypeInv, TypeOK
    <2>2. Announcement(r)' = Announcement(r)
      BY <1>6 DEF Notify, locals, Announcement, CurrentRole, Party
    <2>3. notifications' = notifications \cup {Announcement(r)}
      BY <1>6 DEF Notify
    <2> QED
      BY <2>1, <2>2, <2>3 DEF SentOrFailed, Announcing
  <1>7. ASSUME NEW ok \in BOOLEAN, Mail(r, ok)
        PROVE  SentOrFailed(r)'
    <2>1. pc[r] = "mail" /\ pc'[r] \in {"notify", "done"} /\ notifications' = notifications
      BY <1>7, <1>a DEF Mail, Caller, TypeInv, TypeOK
    <2>2. allSent'[r] => allSent[r] /\ mails' = mails \cup {Announcement(r)}
      BY <1>7, <1>a DEF Mail, TypeInv, TypeOK
    <2> QED
      BY <2>1, <2>2 DEF SentOrFailed, Announcing
  <1>8. CASE ConstraintError(r) \/ Die(r)
    BY <1>8, <1>a DEF ConstraintError, Die, SentOrFailed, TypeInv, TypeOK
  <1>9. ASSUME NEW gu, NEW gi, NEW gm, Delete(gu, gi, gm)
        PROVE  SentOrFailed(r)'
    BY <1>9, SentKept DEF Delete, locals
  <1>10. ASSUME \/ \E i \in Items : DeleteItem(i)
                \/ \E u \in Users : DeleteUser(u)
                \/ \E p \in Pairs : DeleteMatch(p)
         PROVE  SentOrFailed(r)'
    BY <1>9, <1>10 DEF DeleteItem, DeleteUser, DeleteMatch
  <1>11. CASE UNCHANGED vars
    BY <1>11, SentKept DEF vars
  <1>12. ASSUME NEW k \in Requests, NotifyStep(k) \/ ConstraintError(k) \/ Die(k)
         PROVE  SentOrFailed(r)'
    BY <1>3, <1>4, <1>5, <1>6, <1>7, <1>8, <1>12 DEF NotifyStep
  <1> QED
    BY <1>1, <1>2, <1>10, <1>11, <1>12 DEF Next

(* A resend that ends with $allSent has mailed every row it wrote: a later *)
(* success of the second mail never covers up that the first one failed,   *)
(* and no row written or deleted by somebody else gets in between.         *)
THEOREM SuccessIsHonest == Spec => []SuccessMeansAllMailed
  <1>1. Init => ResendInv
    BY DEF Init, ResendInv, SentOrFailed, Requests
  <1>2. ResendInv => SuccessMeansAllMailed
    BY DEF ResendInv, SentOrFailed, SuccessMeansAllMailed
  <1> QED
    BY <1>1, <1>2, InitTypeInv, NextTypeInv, NextResendInv, PTL DEF Spec

-----------------------------------------------------------------------------
(* The reports of a match are marked *)

(* Every match row was inserted by the request of a report. *)
RecorderKnown == \A p \in matches : recorder[p] \in Items

(* Only an INSERT of the row changes who recorded it. *)
LEMMA RecorderKept ==
    ASSUME TypeInv, [Next]_vars, NEW p \in matches',
           \A i \in Items : InsertMatch(i) => pair[i] /= p
    PROVE  p \in matches /\ recorder'[p] = recorder[p]
  <1>1. ASSUME NEW i \in Items, InsertMatch(i)
        PROVE  p \in matches /\ recorder'[p] = recorder[p]
    BY <1>1 DEF InsertMatch, TypeInv, TypeOK
  <1>2. ASSUME NEW gu, NEW gi, NEW gm, Delete(gu, gi, gm)
        PROVE  p \in matches /\ recorder'[p] = recorder[p]
    BY <1>2 DEF Delete, TypeInv, TypeOK
  <1>3. \/ \E i \in Items : InsertMatch(i)
        \/ \E gu, gi, gm : Delete(gu, gi, gm)
        \/ UNCHANGED <<matches, recorder>>
    BY DEF Next, ReportStep, NotifyStep, InsertItem, Reload, SelectCandidates, FinishReport,
           Evaluate, MarkLost, MarkFound, BeginResend, FindOwner, FindFinder, Notify, Mail,
           ConstraintError, Die, Resolve, DeleteItem, DeleteUser, DeleteMatch, tables, vars
  <1> QED
    BY <1>1, <1>2, <1>3

(* The row of a pair that a request inserts is its own. *)
LEMMA RecorderSet ==
    ASSUME TypeInv, NEW i \in Items, InsertMatch(i)
    PROVE  pair[i] \in Pairs /\ recorder'[pair[i]] = i
  BY DEF InsertMatch, TypeInv, TypeOK, PairKnown, Recording, Requests

LEMMA NextRecorderKnown == TypeInv /\ RecorderKnown /\ [Next]_vars => RecorderKnown'
  <1> SUFFICES ASSUME TypeInv, RecorderKnown, [Next]_vars, NEW p \in matches'
               PROVE  recorder'[p] \in Items
    BY DEF RecorderKnown
  <1> QED
    BY RecorderKept, RecorderSet DEF RecorderKnown

(* Report k of pair p is still to be marked by request r: the UPDATE of    *)
(* the found report comes second.                                          *)
WillMark(r, p, k) ==
    /\ pair[r] = p
    /\ pc[r] \in {"mark_lost", "died"} \/ (pc[r] = "mark_found" /\ k = p[2])

Marking(p) ==
    \A k \in {p[1], p[2]} : status[k] = "open" => WillMark(recorder[p], p, k)

MarkInv == \A p \in matches : Marking(p)

(* Steps that mark nothing. *)
LEMMA MarkKept ==
    ASSUME NEW p \in Pairs, Marking(p), recorder[p] \in Items, recorder'[p] = recorder[p],
           \A i \in Items : status'[i] = "open" => status[i] = "open",
           \A i \in Items :
               \/ pc[i] \notin {"mark_lost", "mark_found", "died"}
               \/ pair'[i] = pair[i] /\ pc'[i] \in {pc[i], "died"}
    PROVE  Marking(p)'
  <1>1. p[1] \in Items /\ p[2] \in Items
    BY PairComponents
  <1>2. ASSUME NEW k, WillMark(recorder[p], p, k)
        PROVE  WillMark(recorder[p], p, k)'
    BY <1>2 DEF WillMark
  <1> QED
    BY <1>1, <1>2 DEF Marking

LEMMA NextMarkInv ==
    TypeInv /\ RefIntegrity /\ RecorderKnown /\ MarkInv /\ [Next]_vars => MarkInv'
  <1> SUFFICES ASSUME TypeInv, RefIntegrity, RecorderKnown, MarkInv, [Next]_vars,
                      NEW p \in matches'
               PROVE  Marking(p)'
    BY DEF MarkInv
  (* The row is new: its request goes on with the two UPDATEs. *)
  <1>a. ASSUME NEW i \in Items, InsertMatch(i), pair[i] = p
        PROVE  Marking(p)'
    <2>1. recorder'[p] = i /\ pair'[i] = p /\ pc'[i] = "mark_lost"
      BY <1>a, RecorderSet DEF InsertMatch, locals, TypeInv, TypeOK, Requests
    <2> QED
      BY <2>1 DEF Marking, WillMark
  <1> SUFFICES ASSUME \A i \in Items : InsertMatch(i) => pair[i] /= p
               PROVE  Marking(p)'
    BY <1>a
  <1>b. p \in matches /\ recorder'[p] = recorder[p]
    BY RecorderKept
  <1>c. /\ p \in Pairs /\ Marking(p) /\ p[1] \in items /\ p[2] \in items
        /\ p[1] \in Items /\ p[2] \in Items /\ recorder[p] \in Items
    BY <1>b DEF TypeInv, TypeOK, MarkInv, RefIntegrity, RecorderKnown
  <1>1. ASSUME NEW i \in Items,
               \/ InsertItem(i) \/ Reload(i) \/ SelectCandidates(i) \/ FinishReport(i)
               \/ (\E j \in Items : Evaluate(i, j))
        PROVE  Marking(p)'
    <2>1. UNCHANGED <<status, matches>>
      BY <1>1 DEF InsertItem, Reload, SelectCandidates, FinishReport, Evaluate, tables
    <2>2. pc[i] \notin {"mark_lost", "mark_found", "died"}
      BY <1>1 DEF InsertItem, Reload, SelectCandidates, FinishReport, Evaluate
    <2>3. \A k \in Items \ {i} : pc'[k] = pc[k] /\ pair'[k] = pair[k]
      BY <1>1 DEF InsertItem, Reload, SelectCandidates, FinishReport, Evaluate, locals,
                  TypeInv, TypeOK, Requests
    <2> QED
      BY <1>b, <1>c, <2>1, <2>2, <2>3, MarkKept
  <1>2. ASSUME NEW i \in Items, InsertMatch(i)
        PROVE  Marking(p)'
    <2>1. /\ UNCHANGED <<status, pair>>
          /\ pc[i] = "insert_match" /\ pc'[i] = "mark_lost"
          /\ \A k \in Items \ {i} : pc'[k] = pc[k]
      BY <1>2 DEF InsertMatch, locals, TypeInv, TypeOK, Requests
    <2> QED
      BY <1>b, <1>c, <2>1, MarkKept
  <1>3. ASSUME NEW i \in Items, MarkLost(i)
        PROVE  Marking(p)'
    <2>1. /\ UNCHANGED <<pair, matches>> /\ pc[i] = "mark_lost" /\ pc'[i] = "mark_found"
          /\ \A k \in Items \ {i} : pc'[k] = pc[k]
      BY <1>3 DEF MarkLost, locals, TypeInv, TypeOK, Requests
    <2>2. status' = MarkedMatched(pair[i][1]) /\ pair[i] \in Pairs
      BY <1>3 DEF MarkLost, TypeInv, PairKnown, Recording, Requests
    <2>4. \A k \in Items : status'[k] = "open" => status[k] = "open"
      BY <2>2, PairComponents DEF MarkedMatched, TypeInv, TypeOK
    <2>5. pair[i] = p => status'[p[1]] /= "open"
      BY <1>c, <2>2 DEF MarkedMatched, TypeInv, TypeOK
    <2>6. ASSUME NEW k \in {p[1], p[2]}, status'[k] = "open"
          PROVE  WillMark(recorder[p], p, k)'
      <3>1. WillMark(recorder[p], p, k)
        BY <1>c, <2>4, <2>6 DEF Marking
      <3> QED
        BY <1>b, <1>c, <2>1, <2>5, <2>6, <3>1 DEF WillMark
    <2> QED
      BY <2>6 DEF Marking
  <1>4. ASSUME NEW i \in Items, MarkFound(i)
        PROVE  Marking(p)'
    <2>1. /\ UNCHANGED <<pair, matches>> /\ pc[i] = "mark_found" /\ pc'[i] = "find_owner"
          /\ \A k \in Items \ {i} : pc'[k] = pc[k]
      BY <1>4 DEF MarkFound, locals, TypeInv, TypeOK, Requests
    <2>2. status' = MarkedMatched(pair[i][2]) /\ pair[i] \in Pairs
      BY <1>4 DEF MarkFound, TypeInv, PairKnown, Recording, Requests
    <2>4. \A k \in Items : status'[k] = "open" => status[k] = "open"
      BY <2>2, PairComponents DEF MarkedMatched, TypeInv, TypeOK
    <2>5. pair[i] = p => status'[p[2]] /= "open"
      BY <1>c, <2>2 DEF MarkedMatched, TypeInv, TypeOK
    <2>6. ASSUME NEW k \in {p[1], p[2]}, status'[k] = "open"
          PROVE  WillMark(recorder[p], p, k)'
      <3>1. WillMark(recorder[p], p, k)
        BY <1>c, <2>4, <2>6 DEF Marking
      <3>2. recorder[p] /= i
        BY <2>1, <2>5, <2>6, <3>1 DEF WillMark
      <3> QED
        BY <1>b, <1>c, <2>1, <3>1, <3>2 DEF WillMark
    <2> QED
      BY <2>6 DEF Marking
  <1>5. ASSUME NEW r \in Resends, NEW q \in Pairs, BeginResend(r, q)
        PROVE  Marking(p)'
    <2>1. \A i \in Items : pc'[i] = pc[i] /\ pair'[i] = pair[i]
      BY <1>5, RequestsAssumption DEF BeginResend, TypeInv, TypeOK, Requests
    <2> QED
      BY <1>5, <1>b, <1>c, <2>1, MarkKept DEF BeginResend, tables
  <1>6. ASSUME NEW r \in Requests, NotifyStep(r) \/ ConstraintError(r) \/ Die(r)
        PROVE  Marking(p)'
    <2>1. UNCHANGED <<status, matches, pair>>
      BY <1>6 DEF NotifyStep, FindOwner, FindFinder, Notify, Mail, ConstraintError, Die,
                  tables, locals
    <2>2. pc[r] \notin {"mark_lost", "mark_found", "died"} \/ pc'[r] = "died"
      BY <1>6 DEF NotifyStep, FindOwner, FindFinder, Notify, Mail, ConstraintError, Die,
                  TypeInv, TypeOK
    <2>3. \A k \in Requests \ {r} : pc'[k] = pc[k]
      BY <1>6 DEF NotifyStep, FindOwner, FindFinder, Notify, Mail, ConstraintError, Die,
                  TypeInv, TypeOK
    <2> QED
      BY <1>b, <1>c, <2>1, <2>2, <2>3, MarkKept DEF Requests
  <1>7. ASSUME NEW i \in Items, Resolve(i)
        PROVE  Marking(p)'
    <2>1. \A k \in Items : status'[k] = "open" => status[k] = "open"
      BY <1>7 DEF Resolve, TypeInv, TypeOK
    <2> QED
      BY <1>7, <1>b, <1>c, <2>1, MarkKept DEF Resolve, locals
  <1>8. ASSUME NEW gu, NEW gi, NEW gm, Delete(gu, gi, gm)
        PROVE  Marking(p)'
    BY <1>8, <1>b, <1>c, MarkKept DEF Delete, locals
  <1>9. ASSUME \/ \E i \in Items : DeleteItem(i)
               \/ \E u \in Users : DeleteUser(u)
               \/ \E q \in Pairs : DeleteMatch(q)
        PROVE  Marking(p)'
    BY <1>8, <1>9 DEF DeleteItem, DeleteUser, DeleteMatch
  <1>10. CASE UNCHANGED vars
    BY <1>10, <1>b, <1>c, MarkKept DEF vars
  <1> QED
    BY <1>1, <1>2, <1>3, <1>4, <1>5, <1>6, <1>7, <1>9, <1>10 DEF Next, ReportStep

(* For any number of overlapping requests, resolves and deletions: if a    *)
(* report of a match still looks open, the one request that inserted the   *)
(* row is at its two UPDATEs or died before it had done both.  Neither a   *)
(* request that lost the race for the row nor any step of others leaves a  *)
(* report unmarked.                                                        *)
THEOREM MatchedAreMarked == Spec => []MatchedItemsMarked
  <1>1. Init => RefIntegrity /\ RecorderKnown /\ MarkInv
    BY DEF Init, RefIntegrity, RecorderKnown, MarkInv, Requests
  <1>2. MarkInv => MatchedItemsMarked
    BY DEF MarkInv, Marking, WillMark, MatchedItemsMarked, At
  <1> QED
    BY <1>1, <1>2, InitTypeInv, NextTypeInv, NextRefIntegrity, NextRecorderKnown, NextMarkInv, PTL
    DEF Spec

-----------------------------------------------------------------------------
(* Every match is announced *)

(* Request r has written a notification of pair p for a user. *)
Reached(r, p, u) == \E n \in notifications : n.pair = p /\ n.by = r /\ n.user_id = u

(* The user behind a role has been told, or is the user behind a role that *)
(* the loop of notify_match_found has still to serve.                      *)
Served(r, p, role) ==
    \/ Reached(r, p, Party(p, role))
    \/ \E o \in recipients[r] :
          Party(p, o) = Party(p, role) /\ (pc[r] = "notify" \/ o /= CurrentRole(r))

(* Request r has told both parties of p, or will unless it dies. *)
WillInform(r, p) ==
    \/ Informed(p, r)
    \/ /\ pair[r] = p
       /\ \/ pc[r] \in {"mark_lost", "mark_found", "find_owner", "died"}
          \/ pc[r] = "find_finder" /\ "owner" \in recipients[r]
          \/ pc[r] \in {"notify", "mail"} /\ \A role \in Roles : Served(r, p, role)

AnnounceInv == \A p \in matches : WillInform(recorder[p], p)

(* Both accounts of a pair with a match row exist, by the foreign keys. *)
LEMMA PartiesExist ==
    ASSUME RefIntegrity, NEW p \in matches, NEW role \in Roles
    PROVE  Party(p, role) \in users
  BY DEF RefIntegrity, Party, Roles

(* Steps of others. *)
LEMMA InformKept ==
    ASSUME NEW r, NEW p, WillInform(r, p),
           \A role \in Roles : Reached(r, p, Party(p, role)) => Reached(r, p, Party(p, role))',
           \/ pc'[r] = pc[r] /\ pair'[r] = pair[r] /\ recipients'[r] = recipients[r]
           \/ pc[r] \notin {"mark_lost", "mark_found", "find_owner", "died",
                            "find_finder", "notify", "mail"}
           \/ /\ pc'[r] \in {"mark_found", "find_owner", "died"}
              /\ pair'[r] = pair[r]
    PROVE  WillInform(r, p)'
  <1>1. Informed(p, r) => Informed(p, r)'
    BY DEF Informed, Reached, Party
  <1>2. ASSUME pc'[r] = pc[r], recipients'[r] = recipients[r],
               NEW role \in Roles, Served(r, p, role)
        PROVE  Served(r, p, role)'
    BY <1>2 DEF Served, CurrentRole, Reached, Party
  <1> QED
    BY <1>1, <1>2 DEF WillInform

LEMMA NextAnnounceInv ==
    TypeInv /\ RefIntegrity /\ RecorderKnown /\ AnnounceInv /\ [Next]_vars => AnnounceInv'
  <1> SUFFICES ASSUME TypeInv, RefIntegrity, RecorderKnown, AnnounceInv, [Next]_vars,
                      NEW p \in matches'
               PROVE  WillInform(recorder[p], p)'
    BY DEF AnnounceInv
  <1> DEFINE Goal == WillInform(recorder[p], p)'
             Same(i) == pc'[i] = pc[i] /\ pair'[i] = pair[i] /\ recipients'[i] = recipients[i]
  (* The row is new: its request will mark the reports and announce them. *)
  <1>a. ASSUME NEW i \in Items, InsertMatch(i), pair[i] = p
        PROVE  Goal
    <2>1. recorder'[p] = i /\ pair'[i] = p /\ pc'[i] = "mark_lost"
      BY <1>a, RecorderSet DEF InsertMatch, locals, TypeInv, TypeOK, Requests
    <2> QED
      BY <2>1 DEF WillInform
  <1> SUFFICES ASSUME \A i \in Items : InsertMatch(i) => pair[i] /= p
               PROVE  Goal
    BY <1>a
  <1>b. p \in matches /\ recorder'[p] = recorder[p]
    BY RecorderKept
  <1>c. /\ p \in Pairs /\ recorder[p] \in Items /\ recorder[p] \in Requests
        /\ \A role \in Roles : Party(p, role) \in users
        /\ WillInform(recorder[p], p)
    BY <1>b, PartiesExist DEF TypeInv, TypeOK, AnnounceInv, RecorderKnown, Requests
  <1>d. ASSUME notifications \subseteq notifications'
        PROVE  \A r, u : Reached(r, p, u) => Reached(r, p, u)'
    BY <1>d DEF Reached
  <1>e. ASSUME \A role \in Roles :
                   Reached(recorder[p], p, Party(p, role)) =>
                       Reached(recorder[p], p, Party(p, role))',
               \/ Same(recorder[p])
               \/ pc[recorder[p]] \notin {"mark_lost", "mark_found", "find_owner", "died",
                                          "find_finder", "notify", "mail"}
               \/ /\ pc'[recorder[p]] \in {"mark_found", "find_owner", "died"}
                  /\ pair'[recorder[p]] = pair[recorder[p]]
        PROVE  Goal
    <2>1. ASSUME NEW r, r = recorder[p]
          PROVE  WillInform(r, p)'
      BY <1>b, <1>c, <1>e, <2>1, InformKept
    <2> QED
      BY <1>b, <2>1 DEF WillInform
  <1>1. ASSUME NEW i \in Items,
               \/ InsertItem(i) \/ Reload(i) \/ SelectCandidates(i) \/ FinishReport(i)
               \/ (\E j \in Items : Evaluate(i, j))
        PROVE  Goal
    <2>1. UNCHANGED <<notifications, matches, recipients>>
      BY <1>1 DEF InsertItem, Reload, SelectCandidates, FinishReport, Evaluate, tables, locals
    <2>2. pc[i] \in {"idle", "reload", "candidates", "evaluate"}
      BY <1>1 DEF InsertItem, Reload, SelectCandidates, FinishReport, Evaluate
    <2>3. \A k \in Items \ {i} : Same(k)
      BY <1>1, <2>1 DEF InsertItem, Reload, SelectCandidates, FinishReport, Evaluate, locals,
                  TypeInv, TypeOK, Requests
    <2> QED
      BY <1>b, <1>c, <1>d, <1>e, <2>1, <2>2, <2>3
  <1>2. ASSUME NEW i \in Items, InsertMatch(i)
        PROVE  Goal
    <2>1. /\ UNCHANGED <<pair, recipients, notifications>>
          /\ pc[i] = "insert_match" /\ pc'[i] = "mark_lost"
          /\ \A k \in Items \ {i} : pc'[k] = pc[k]
      BY <1>2 DEF InsertMatch, locals, TypeInv, TypeOK, Requests
    <2> QED
      BY <1>b, <1>c, <1>d, <1>e, <2>1
  <1>3. ASSUME NEW i \in Items, MarkLost(i) \/ MarkFound(i)
        PROVE  Goal
    <2>1. /\ UNCHANGED <<pair, recipients, notifications, matches>>
          /\ pc'[i] \in {"mark_found", "find_owner"}
          /\ \A k \in Items \ {i} : pc'[k] = pc[k]
      BY <1>3 DEF MarkLost, MarkFound, locals, TypeInv, TypeOK, Requests
    <2> QED
      BY <1>b, <1>c, <1>d, <1>e, <2>1
  <1>4. ASSUME NEW r \in Resends, NEW q \in Pairs, BeginResend(r, q)
        PROVE  Goal
    <2>1. \A i \in Items : Same(i)
      BY <1>4, RequestsAssumption DEF BeginResend, TypeInv, TypeOK, Requests
    <2>2. UNCHANGED <<notifications, matches>>
      BY <1>4 DEF BeginResend, tables
    <2> QED
      BY <1>b, <1>c, <1>d, <1>e, <2>1, <2>2
  (* What a step of the request itself must show. *)
  <1>f. ASSUME NEW r \in Requests, notifications \subseteq notifications',
               \A k \in Requests \ {r} : Same(k),
               WillInform(r, p) => WillInform(r, p)'
        PROVE  Goal
    <2>1. CASE r = recorder[p]
      BY <1>b, <1>c, <1>f, <2>1 DEF WillInform
    <2>2. CASE r /= recorder[p]
      BY <1>b, <1>c, <1>d, <1>e, <1>f, <2>2
    <2> QED
      BY <2>1, <2>2
  <1>5. ASSUME NEW r \in Requests, FindOwner(r)
        PROVE  Goal
    <2>1. /\ UNCHANGED <<notifications, matches, pair>>
          /\ pc[r] = "find_owner" /\ pc'[r] = "find_finder"
          /\ recipients'[r] = {role \in {"owner"} : Party(pair[r], role) \in users}
          /\ \A k \in Requests \ {r} : Same(k)
      BY <1>5 DEF FindOwner, tables, TypeInv, TypeOK
    <2>2. ASSUME pair[r] = p
          PROVE  "owner" \in recipients'[r]
      BY <1>c, <2>1, <2>2 DEF Roles
    <2>3. Informed(p, r) => Informed(p, r)'
      BY <2>1 DEF Informed, Party
    <2>4. WillInform(r, p) => WillInform(r, p)'
      BY <2>1, <2>2, <2>3 DEF WillInform
    <2> QED
      BY <1>f, <2>1, <2>4
  <1>6. ASSUME NEW r \in Requests, FindFinder(r)
        PROVE  Goal
    <2>1. /\ UNCHANGED <<users, notifications, matches, pair>>
          /\ pc[r] = "find_finder"
          /\ recipients'[r] = recipients[r] \cup {role \in {"finder"} : FinderAddressed(r)}
          /\ recipients'[r] /= {} => pc'[r] = "notify"
      BY <1>6 DEF FindFinder, tables, TypeInv, TypeOK
    <2>2. \A k \in Requests \ {r} : Same(k)
      BY <1>6 DEF FindFinder, tables, TypeInv, TypeOK
    <2>3. ASSUME pair[r] = p, "owner" \in recipients[r], NEW role \in Roles
          PROVE  \E o \in recipients'[r] : Party(p, o) = Party(p, role)
      <3>1. Party(p, "finder") \in users
        BY <1>c, <2>1 DEF Roles
      <3>2. "owner" \in recipients'[r]
        BY <2>1, <2>3
      <3>3. "finder" \in recipients'[r] \/ Party(p, "finder") = Party(p, "owner")
        BY <2>1, <2>3, <3>1 DEF FinderAddressed
      <3> QED
        BY <3>2, <3>3 DEF Roles
    <2>4. ASSUME pair[r] = p, "owner" \in recipients[r]
          PROVE  pc'[r] = "notify" /\ \A role \in Roles : Served(r, p, role)'
      <3>1. pc'[r] = "notify"
        BY <2>1, <2>4
      <3> QED
        BY <2>3, <2>4, <3>1 DEF Served, Party
    <2>5. Informed(p, r) => Informed(p, r)'
      BY <2>1 DEF Informed, Party
    <2>6. WillInform(r, p) => WillInform(r, p)'
      BY <2>1, <2>4, <2>5 DEF WillInform
    <2> QED
      BY <1>f, <2>1, <2>2, <2>6
  <1>7. ASSUME NEW r \in Requests, Notify(r)
        PROVE  Goal
    <2>1. /\ UNCHANGED <<matches, pair, recipients>>
          /\ notifications' = notifications \cup {Announcement(r)}
          /\ pc[r] = "notify" /\ pc'[r] = "mail"
          /\ \A k \in Requests \ {r} : Same(k)
      BY <1>7 DEF Notify, tables, locals, TypeInv, TypeOK
    <2>2. Informed(p, r) => Informed(p, r)'
      BY <2>1 DEF Informed, Party
    <2>3. CurrentRole(r)' = CurrentRole(r)
      BY <2>1 DEF CurrentRole
    <2>4. pair[r] = p => Reached(r, p, Party(p, CurrentRole(r)))'
      <3>1. /\ Announcement(r).pair = pair[r] /\ Announcement(r).by = r
            /\ Announcement(r).user_id = Party(pair[r], CurrentRole(r))
        BY DEF Announcement
      <3> QED
        BY <2>1, <2>3, <3>1 DEF Reached, Party
    <2>5. ASSUME pair[r] = p, NEW role \in Roles, Served(r, p, role)
          PROVE  Served(r, p, role)'
      <3>1. CASE Reached(r, p, Party(p, role))
        BY <1>d, <2>1, <3>1 DEF Served, Party
      <3>2. CASE \E o \in recipients[r] : Party(p, o) = Party(p, role)
        BY <2>1, <2>3, <2>4, <2>5, <3>2 DEF Served, Party
      <3> QED
        BY <2>5, <3>1, <3>2 DEF Served
    <2>6. WillInform(r, p) => WillInform(r, p)'
      BY <2>1, <2>2, <2>5 DEF WillInform
    <2> QED
      BY <1>f, <2>1, <2>6
  <1>8. ASSUME NEW r \in Requests, NEW ok \in BOOLEAN, Mail(r, ok)
        PROVE  Goal
    <2>1. /\ UNCHANGED <<notifications, matches, pair>>
          /\ pc[r] = "mail" /\ recipients'[r] = recipients[r] \ {CurrentRole(r)}
          /\ recipients'[r] /= {} => pc'[r] = "notify"
      BY <1>8 DEF Mail, tables, TypeInv, TypeOK
    <2>2. \A k \in Requests \ {r} : Same(k)
      BY <1>8 DEF Mail, tables, TypeInv, TypeOK
    <2>3. Informed(p, r) => Informed(p, r)'
      BY <2>1 DEF Informed, Party
    <2>4. ASSUME pair[r] = p, \A role \in Roles : Served(r, p, role)
          PROVE  WillInform(r, p)'
      <3>1. CASE recipients'[r] = {}
        <4>1. Informed(p, r)
          BY <2>1, <2>4, <3>1 DEF Served, Reached, Informed
        <4> QED
          BY <2>3, <4>1 DEF WillInform
      <3>2. CASE recipients'[r] /= {}
        <4>1. \A role \in Roles : Served(r, p, role)'
          BY <2>1, <2>4, <3>2 DEF Served, Reached, Party
        <4> QED
          BY <2>1, <2>4, <3>2, <4>1 DEF WillInform
      <3> QED
        BY <3>1, <3>2
    <2>5. WillInform(r, p) => WillInform(r, p)'
      BY <2>1, <2>3, <2>4 DEF WillInform
    <2> QED
      BY <1>f, <2>1, <2>2, <2>5
  <1>9. ASSUME NEW r \in Requests, ConstraintError(r) \/ Die(r)
        PROVE  Goal
    <2>1. /\ UNCHANGED <<notifications, matches, pair, recipients>>
          /\ pc'[r] = "died"
          /\ \A k \in Requests \ {r} : Same(k)
      BY <1>9 DEF ConstraintError, Die, tables, locals, TypeInv, TypeOK
    <2> QED
      BY <1>b, <1>c, <1>d, <1>e, <2>1
  <1>10. ASSUME NEW gu, NEW gi, NEW gm, Delete(gu, gi, gm)
         PROVE  Goal
    <2>1. UNCHANGED <<pc, pair, recipients>>
      BY <1>10 DEF Delete, locals
    <2>2. ASSUME NEW role \in Roles
          PROVE  Party(p, role) \notin gu
      BY <1>10, <1>c, <2>1 DEF Delete, RefIntegrity, Party, Roles
    <2>3. ASSUME NEW r, NEW role \in Roles, Reached(r, p, Party(p, role))
          PROVE  Reached(r, p, Party(p, role))'
      BY <1>10, <2>2, <2>3 DEF Delete, Reached, Party
    <2> QED
      BY <1>b, <1>c, <1>e, <2>1, <2>3
  <1>11. ASSUME \/ \E i \in Items : DeleteItem(i)
                \/ \E u \in Users : DeleteUser(u)
                \/ \E q \in Pairs : DeleteMatch(q)
         PROVE  Goal
    BY <1>10, <1>11 DEF DeleteItem, DeleteUser, DeleteMatch
  <1>12. CASE (\E i \in Items : Resolve(i)) \/ UNCHANGED vars
    <2>1. UNCHANGED <<notifications, matches, pc, pair, recipients>>
      BY <1>12 DEF Resolve, locals, vars
    <2> QED
      BY <1>b, <1>c, <1>d, <1>e, <2>1
  <1> QED
    BY <1>1, <1>2, <1>3, <1>4, <1>5, <1>6, <1>7, <1>8, <1>9, <1>11, <1>12
    DEF Next, ReportStep, NotifyStep

(* No interleaving loses a notification: a match row implies that the one  *)
(* request that inserted it told both accounts, still works on it or died  *)
(* on it, for any number of reports, resends and administrators'           *)
(* deletions.                                                              *)
THEOREM MatchesAreAnnounced == Spec => []MatchAnnounced
  <1>1. Init => RefIntegrity /\ RecorderKnown /\ AnnounceInv
    BY DEF Init, RefIntegrity, RecorderKnown, AnnounceInv, Requests
  <1>2. AnnounceInv => MatchAnnounced
    BY DEF AnnounceInv, WillInform, MatchAnnounced, At, Announcing
  <1> QED
    BY <1>1, <1>2, InitTypeInv, NextTypeInv, NextRefIntegrity, NextRecorderKnown, NextAnnounceInv, PTL
    DEF Spec
=============================================================================
