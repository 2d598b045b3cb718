---------------------------- MODULE BoardProofs ----------------------------
(***************************************************************************)
(* LostFound implements MatchBoard: every statement of every request is a  *)
(* step of the board or changes nothing its members see.  And the pages    *)
(* that show the board show the same board.                                *)
(***************************************************************************)
EXTENDS LostFoundProofs, Pages

(* An id that no INSERT has used yet is that of an open report. *)
FreshOpen ==
    \A i \in Items : pc[i] = "idle" => i \notin items /\ status[i] = "open"

(* A request inserts only a pair that it has scored. *)
ScoredFirst ==
    \A i \in Items : pc[i] = "insert_match" => Similar(pair[i])

(* Whoever marks reports or tells people of a pair, report or resend, does *)
(* it after the row was written.                                           *)
RowFirst ==
    \A r \in Requests : pc[r] \in Holding => pair[r] \in matches \cup removed

(* What the step simulation needs to know of the requests. *)
BoardInv == FreshOpen /\ ScoredFirst /\ RowFirst

LEMMA InitBoardInv == Init => BoardInv
  BY DEF Init, BoardInv, FreshOpen, ScoredFirst, RowFirst, Holding, Requests

LEMMA NextFreshOpen == TypeInv /\ FreshOpen /\ [Next]_vars => FreshOpen'
  <1> SUFFICES ASSUME TypeInv, FreshOpen, [Next]_vars
               PROVE  FreshOpen'
    OBVIOUS
  <1> USE DEF FreshOpen, TypeInv, TypeOK, Requests
  <1>1. ASSUME NEW i \in Items, InsertItem(i)
        PROVE  FreshOpen'
    BY <1>1 DEF InsertItem
  <1>2. ASSUME NEW i \in Items, Reload(i) \/ SelectCandidates(i) \/ FinishReport(i)
                                \/ InsertMatch(i) \/ (\E j \in Items : Evaluate(i, j))
        PROVE  FreshOpen'
    BY <1>2 DEF Reload, SelectCandidates, FinishReport, InsertMatch, Evaluate, tables
  <1>3. ASSUME NEW i \in Items, MarkLost(i) \/ MarkFound(i)
        PROVE  FreshOpen'
    <2>1. pair[i] \in Pairs
      BY <1>3 DEF MarkLost, MarkFound, PairKnown, Recording
    <2>2. PICK k \in Items : status' = MarkedMatched(k)
      BY <1>3, <2>1, PairComponents DEF MarkLost, MarkFound
    <2>3. items' = items /\ \A j \in Items : pc'[j] = "idle" => pc[j] = "idle"
      BY <1>3 DEF MarkLost, MarkFound
    <2> QED
      BY <2>2, <2>3 DEF MarkedMatched
  <1>4. ASSUME NEW r \in Resends, NEW p \in Pairs, BeginResend(r, p)
        PROVE  FreshOpen'
    BY <1>4 DEF BeginResend, tables
  <1>5. ASSUME NEW r \in Requests, NotifyStep(r) \/ ConstraintError(r) \/ Die(r)
        PROVE  FreshOpen'
    BY <1>5 DEF NotifyStep, FindOwner, FindFinder, Notify, Mail, ConstraintError, Die,
                Caller, tables
  <1>6. ASSUME NEW i \in Items, Resolve(i)
        PROVE  FreshOpen'
    BY <1>6 DEF Resolve
  <1>7. ASSUME NEW gu, NEW gi, NEW gm, Delete(gu, gi, gm)
        PROVE  FreshOpen'
    BY <1>7 DEF Delete
  <1>8. CASE UNCHANGED vars
    BY <1>8 DEF vars
  <1> HIDE DEF FreshOpen
  <1> QED
    BY <1>1, <1>2, <1>3, <1>4, <1>5, <1>6, <1>7, <1>8
    DEF Next, ReportStep, DeleteItem, DeleteUser, DeleteMatch

LEMMA NextScoredFirst == TypeInv /\ ScoredFirst /\ [Next]_vars => ScoredFirst'
  <1> SUFFICES ASSUME TypeInv, ScoredFirst, [Next]_vars
               PROVE  ScoredFirst'
    OBVIOUS
  <1> USE DEF ScoredFirst, TypeInv, TypeOK, Requests
  <1>1. ASSUME NEW i \in Items, NEW j \in Items, Evaluate(i, j)
        PROVE  ScoredFirst'
    BY <1>1 DEF Evaluate, Similar
  <1>2. ASSUME NEW r \in Requests, pc' = [pc EXCEPT ![r] = pc'[r]],
               pc'[r] /= "insert_match",
               \A k \in Requests : k /= r => pair'[k] = pair[k]
        PROVE  ScoredFirst'
    BY <1>2 DEF Similar
  <1>3. ASSUME NEW i \in Items, InsertItem(i) \/ Reload(i) \/ SelectCandidates(i)
                 \/ FinishReport(i) \/ InsertMatch(i) \/ MarkLost(i) \/ MarkFound(i)
        PROVE  ScoredFirst'
    BY <1>2, <1>3 DEF InsertItem, Reload, SelectCandidates, FinishReport, InsertMatch,
                      MarkLost, MarkFound, tables, locals
  <1>4. ASSUME NEW r \in Resends, NEW p \in Pairs, BeginResend(r, p)
        PROVE  ScoredFirst'
    BY <1>2, <1>4 DEF BeginResend
  <1>5. ASSUME NEW r \in Requests, NotifyStep(r) \/ ConstraintError(r) \/ Die(r)
        PROVE  ScoredFirst'
    BY <1>2, <1>5 DEF NotifyStep, FindOwner, FindFinder, Notify, Mail, ConstraintError, Die,
                Caller, locals
  <1>6. ASSUME pc' = pc, pair' = pair
        PROVE  ScoredFirst'
    BY <1>6 DEF Similar
  <1>7. ASSUME \/ \E i \in Items : Resolve(i)
               \/ \E gu, gi, gm : Delete(gu, gi, gm)
               \/ UNCHANGED vars
        PROVE  ScoredFirst'
    BY <1>6, <1>7 DEF Resolve, Delete, locals, vars
  <1> HIDE DEF ScoredFirst
  <1> QED
    BY <1>1, <1>3, <1>4, <1>5, <1>7
    DEF Next, ReportStep, DeleteItem, DeleteUser, DeleteMatch

LEMMA NextRowFirst == TypeInv /\ RowFirst /\ [Next]_vars => RowFirst'
  <1> SUFFICES ASSUME TypeInv, RowFirst, [Next]_vars
               PROVE  RowFirst'
    OBVIOUS
  <1> USE DEF RowFirst, TypeInv, TypeOK, Requests, Holding
  <1>1. ASSUME NEW i \in Items, InsertMatch(i)
        PROVE  RowFirst'
    BY <1>1 DEF InsertMatch, locals
  <1>2. ASSUME NEW r \in Resends, NEW p \in Pairs, BeginResend(r, p)
        PROVE  RowFirst'
    BY <1>2 DEF BeginResend, tables
  <1>3. ASSUME NEW i \in Items, InsertItem(i) \/ Reload(i) \/ SelectCandidates(i)
                 \/ FinishReport(i) \/ (\E j \in Items : Evaluate(i, j))
        PROVE  RowFirst'
    BY <1>3 DEF InsertItem, Reload, SelectCandidates, FinishReport, Evaluate, tables, locals
  <1>4. ASSUME NEW i \in Items, MarkLost(i) \/ MarkFound(i)
        PROVE  RowFirst'
    BY <1>4 DEF MarkLost, MarkFound, locals
  <1>5. ASSUME NEW r \in Requests, NotifyStep(r) \/ ConstraintError(r) \/ Die(r)
        PROVE  RowFirst'
    BY <1>5 DEF NotifyStep, FindOwner, FindFinder, Notify, Mail, ConstraintError, Die,
                Caller, tables, locals
  <1>6. ASSUME NEW gu, NEW gi, NEW gm, Delete(gu, gi, gm)
        PROVE  RowFirst'
    BY <1>6 DEF Delete, locals
  <1>7. ASSUME (\E i \in Items : Resolve(i)) \/ UNCHANGED vars
        PROVE  RowFirst'
    BY <1>7 DEF Resolve, locals, vars
  <1> HIDE DEF RowFirst
  <1> QED
    BY <1>1, <1>2, <1>3, <1>4, <1>5, <1>6, <1>7
    DEF Next, ReportStep, DeleteItem, DeleteUser, DeleteMatch

LEMMA NextBoardInv == TypeInv /\ BoardInv /\ [Next]_vars => BoardInv'
  BY NextFreshOpen, NextScoredFirst, NextRowFirst DEF BoardInv

-----------------------------------------------------------------------------
(* Step simulation *)

(* The told variable of the board. *)
ToldOf == {[member |-> n.user_id, pair |-> n.pair] : n \in notifications}

LEMMA BoardUnseen ==
    ASSUME UNCHANGED <<users, items, status, matches, notifications, removed>>
    PROVE  Board!Next
  BY DEF Board!Next, Board!Unseen, Board!vars

LEMMA StepSimulation == TypeInv /\ BoardInv /\ [Next]_vars => [Board!Next]_Board!vars
  <1> SUFFICES ASSUME TypeInv, BoardInv, [Next]_vars
               PROVE  Board!Next
    OBVIOUS
  <1>1. ASSUME NEW i \in Items, InsertItem(i)
        PROVE  Board!Next
    <2>1. i \notin items /\ status[i] = "open"
      BY <1>1 DEF InsertItem, BoardInv, FreshOpen
    <2>2. status' = [status EXCEPT ![i] = "open"]
      BY <1>1, <2>1 DEF InsertItem, TypeInv, TypeOK
    <2>3. Board!Post(i)
      BY <1>1, <2>1, <2>2 DEF InsertItem, Board!Post
    <2> QED
      BY <2>3 DEF Board!Next, Board!Reports, Items
  <1>2. ASSUME NEW i \in Items, InsertMatch(i)
        PROVE  Board!Next
    <2>1. pair[i] \in Pairs /\ Similar(pair[i])
      BY <1>2 DEF InsertMatch, BoardInv, ScoredFirst, TypeInv, PairKnown, Recording, Requests
    <2>2. Board!Record(pair[i])
      BY <1>2, <2>1 DEF InsertMatch, MatchRefused, Board!Record
    <2> QED
      BY <2>1, <2>2 DEF Board!Next, Board!Couples, Pairs
  <1>3. ASSUME NEW r \in Items, MarkLost(r) \/ MarkFound(r)
        PROVE  Board!Next
    <2>1. pair[r] \in Pairs /\ pair[r] \in matches \cup removed
      BY <1>3 DEF MarkLost, MarkFound, BoardInv, RowFirst, Holding, TypeInv, PairKnown,
                  Recording, Requests
    <2>2. PICK i \in {pair[r][1], pair[r][2]} : status' = MarkedMatched(i)
      BY <1>3 DEF MarkLost, MarkFound
    <2>3. i \in Items
      BY <2>1, <2>2, PairComponents
    <2>4. UNCHANGED <<users, items, matches, notifications, removed>>
      BY <1>3 DEF MarkLost, MarkFound
    <2>5. CASE i \in items /\ status[i] = "open"
      <3>1. Board!Advance(i)
        BY <2>1, <2>2, <2>4, <2>5 DEF MarkedMatched, Board!Advance
      <3> QED
        BY <2>3, <3>1 DEF Board!Next, Board!Reports, Items
    <2>6. CASE ~(i \in items /\ status[i] = "open")
      BY <2>2, <2>4, <2>6, BoardUnseen DEF MarkedMatched
    <2> QED
      BY <2>5, <2>6
  <1>4. ASSUME NEW r \in Requests, Notify(r)
        PROVE  Board!Next
    <2>1. pair[r] \in Pairs /\ pair[r] \in matches \cup removed
      BY <1>4 DEF Notify, BoardInv, RowFirst, Holding, TypeInv, PairKnown, Announcing
    <2>2. PICK p \in Pairs : p = pair[r]
      BY <2>1
    <2>3. PICK i \in {p[1], p[2]} : i = IF CurrentRole(r) = "owner" THEN p[1] ELSE p[2]
      OBVIOUS
    <2>4. i \in Items
      BY <2>3, PairComponents
    <2>5. Announcement(r).user_id = UserId[i] /\ Announcement(r).pair = p
      BY <2>2, <2>3 DEF Announcement, Party
    <2>6. UserId[i] \in users
      BY <1>4, <2>2, <2>3 DEF Notify, NotificationAccepted, Party
    <2>7. ToldOf' = ToldOf \cup {[member |-> UserId[i], pair |-> p]}
      BY <1>4, <2>5 DEF Notify, ToldOf
    <2>8. UNCHANGED <<users, items, status, matches, removed>>
      BY <1>4 DEF Notify, tables
    <2>9. Board!Tell(p, i)
      BY <2>1, <2>2, <2>6, <2>7, <2>8 DEF Board!Tell, ToldOf
    <2> QED
      BY <2>4, <2>9 DEF Board!Next, Board!Couples, Board!Reports, Pairs, Items
  <1>5. ASSUME NEW i \in Items, Resolve(i)
        PROVE  Board!Next
    <2>1. Board!Close(i)
      BY <1>5 DEF Resolve, Board!Close
    <2> QED
      BY <2>1 DEF Board!Next, Board!Reports, Items
  <1>6. ASSUME NEW gu, NEW gi, NEW gm, Delete(gu, gi, gm)
        PROVE  Board!Withdraw(gu, gi, gm)
    <2>1. ToldOf' = {t \in ToldOf : t.member \notin gu}
      BY <1>6 DEF Delete, ToldOf
    <2> QED
      BY <1>6, <2>1 DEF Delete, ToldOf, Board!Withdraw
  <1>7. ASSUME \/ \E u \in Users : DeleteUser(u)
               \/ \E i \in Items : DeleteItem(i)
               \/ \E p \in Pairs : DeleteMatch(p)
        PROVE  Board!Next
    BY <1>6, <1>7 DEF DeleteUser, DeleteItem, DeleteMatch, Board!Next
  <1>8. ASSUME NEW i \in Items,
               \/ Reload(i) \/ SelectCandidates(i) \/ FinishReport(i)
               \/ (\E j \in Items : Evaluate(i, j))
        PROVE  Board!Next
    BY <1>8, BoardUnseen DEF Reload, SelectCandidates, FinishReport, Evaluate, tables
  <1>9. ASSUME NEW r \in Requests,
               \/ FindOwner(r) \/ FindFinder(r) \/ (\E ok \in BOOLEAN : Mail(r, ok))
               \/ ConstraintError(r) \/ Die(r)
               \/ (\E p \in Pairs : BeginResend(r, p))
        PROVE  Board!Next
    BY <1>9, BoardUnseen
    DEF FindOwner, FindFinder, Mail, ConstraintError, Die, BeginResend, tables
  <1>10. CASE UNCHANGED vars
    BY <1>10, BoardUnseen DEF vars
  <1> QED
    BY <1>1, <1>2, <1>3, <1>4, <1>5, <1>7, <1>8, <1>9, <1>10
    DEF Next, ReportStep, NotifyStep, Requests

(* The requests implement the board, for any number of members, reports    *)
(* and resends, with deaths and deletions at any point: the statements of  *)
(* report-*.php, matching.php, notify_match_found, item-details.php and    *)
(* admin/dashboard.php never show a state the board could not be in.       *)
THEOREM BoardImplemented == Spec => ImplementsBoard
  <1>1. Init => Board!Init
    BY DEF Init, Board!Init, Board!Reports, Items
  <1> QED
    BY <1>1, InitTypeInv, NextTypeInv, InitBoardInv, NextBoardInv, StepSimulation, PTL
    DEF Spec, ImplementsBoard, Board!Spec

-----------------------------------------------------------------------------
(* The pages *)

(* With the foreign keys in place an inner join loses no row. *)
LEMMA JoinsLoseNothing ==
    ASSUME RefIntegrity
    PROVE  PagesAgree
  <1>1. AdminMatches = matches
    BY DEF AdminMatches, RefIntegrity
  <1>2. ASSUME NEW p \in matches, NEW i \in {p[1], p[2]}
        PROVE  p \in ItemPageMatches(i)
    BY <1>2 DEF ItemPageMatches, OtherReport, RefIntegrity
  <1>3. ASSUME NEW u, NEW p \in DashboardMatches(u)
        PROVE  \E i \in MyReports(u) : p \in ItemPageMatches(i)
    <2>1. PICK i \in {p[1], p[2]} : i \in items /\ UserId[i] = u
      BY <1>3 DEF DashboardMatches
    <2>2. p \in matches
      BY <1>3 DEF DashboardMatches
    <2> QED
      BY <1>2, <2>1, <2>2 DEF MyReports
  <1>4. ASSUME NEW u, NEW i \in MyReports(u), NEW p \in ItemPageMatches(i)
        PROVE  p \in DashboardMatches(u)
    BY <1>4 DEF MyReports, ItemPageMatches, DashboardMatches
  <1>5. ASSUME NEW u
        PROVE  DashboardMatches(u) = UNION {ItemPageMatches(i) : i \in MyReports(u)}
    BY <1>3, <1>4
  <1> QED
    BY <1>1, <1>5 DEF PagesAgree

(* dashboard.php, item-details.php and admin/dashboard.php never disagree  *)
(* about the matches, however many accounts and reports are deleted under  *)
(* running requests: their joins differ only where a key would dangle.     *)
THEOREM PagesAlwaysAgree == Spec => []PagesAgree
  BY ReferencesHold, JoinsLoseNothing, PTL
=============================================================================
