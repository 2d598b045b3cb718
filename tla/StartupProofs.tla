---------------------------- MODULE StartupProofs ----------------------------
(***************************************************************************)
(* Proofs about Startup, for any number of windows.                        *)
(***************************************************************************)
EXTENDS Startup, TLAPS

LEMMA ScriptFacts ==
    /\ Len(Script) = 5
    /\ Script[1] = "users" /\ Script[2] = "lost_items" /\ Script[3] = "found_items"
    /\ Script[4] = "matches" /\ Script[5] = "notifications"
    /\ Tables = {"users", "lost_items", "found_items", "matches", "notifications"}
    /\ \A k \in 1..5 : Script[k] \in Tables
  BY DEF Script, Tables

-----------------------------------------------------------------------------
(* Types *)

LEMMA InitTypeOK == Init => TypeOK
  <1> SUFFICES ASSUME Init
               PROVE  TypeOK
    OBVIOUS
  <1>1. /\ line \in [Windows -> 1..Len(Script)]
        /\ pc \in [Windows -> Steps \cup {"pause", "closed", "serving"}]
    BY ScriptFacts DEF Init
  <1> QED
    BY <1>1 DEF Init, TypeOK

LEMMA ImportTypeOK ==
    ASSUME TypeOK, NEW w \in Windows, ImportStatement(w)
    PROVE  TypeOK'
  <1>1. Script[line[w]] \in Tables
    BY ScriptFacts DEF TypeOK
  <1>2. tables' \subseteq Tables
    BY <1>1 DEF ImportStatement, TypeOK
  <1>3. line' \in [Windows -> 1..Len(Script)]
    BY ScriptFacts DEF ImportStatement, TypeOK
  <1>4. pc' \in [Windows -> Steps \cup {"pause", "closed", "serving"}]
    BY DEF ImportStatement, TypeOK, Goto, Steps
  <1> QED
    BY <1>2, <1>3, <1>4 DEF ImportStatement, TypeOK

LEMMA NextTypeOK == TypeOK /\ [Next]_vars => TypeOK'
  <1> SUFFICES ASSUME TypeOK, [Next]_vars
               PROVE  TypeOK'
    OBVIOUS
  <1>1. ASSUME NEW w \in Windows, Open(w)
        PROVE  TypeOK'
    BY <1>1, ScriptFacts DEF Open, Goto, TypeOK, Steps, disk
  <1>2. ASSUME NEW w \in Windows, CheckPhp(w) \/ PressKey(w) \/ CheckDataDir(w) \/ Install(w)
        PROVE  TypeOK'
    BY <1>2 DEF CheckPhp, PressKey, CheckDataDir, Install, Goto, TypeOK, Steps, disk
  <1>3. ASSUME NEW w \in Windows, StartServer(w) \/ Wait(w) \/ CreateDatabase(w)
        PROVE  TypeOK'
    BY <1>3 DEF StartServer, Wait, CreateDatabase, Goto, TypeOK, Steps, disk
  <1>4. ASSUME NEW w \in Windows, Connect(w) \/ Serve(w) \/ Close(w)
        PROVE  TypeOK'
    BY <1>4 DEF Connect, Serve, Close, Goto, TypeOK, Steps, disk
  <1>5. CASE ServerReady \/ ServerStops
    BY <1>5 DEF ServerReady, ServerStops, TypeOK, Steps, disk
  <1>6. CASE UNCHANGED vars
    BY <1>6 DEF vars, disk, TypeOK
  <1> QED
    BY <1>1, <1>2, <1>3, <1>4, <1>5, <1>6, ImportTypeOK DEF Next, ScriptStep

(* Whatever windows are opened and closed and however often the database   *)
(* server stops, every variable keeps its type and no client reads past    *)
(* the end of database.sql.                                                *)
THEOREM TypeCorrect == Spec => []TypeOK
  BY InitTypeOK, NextTypeOK, PTL DEF Spec

-----------------------------------------------------------------------------
(* Missing tables *)

(* The tables exist in the order of database.sql. *)
InOrder ==
    \A k \in 1..5 : Script[k] \in tables => \A j \in 1..k : Script[j] \in tables

(* A window that is not past the import finds the tables before the        *)
(* statement it sends next.                                                *)
ImportedSoFar ==
    \A w \in Windows : pc[w] \in Steps \ {"web_server"} =>
        \A j \in 1..5 : j < line[w] => Script[j] \in tables

(* Some window whose next table is missing: it will not be refused. *)
Pioneer ==
    \E v \in Windows : pc[v] = "import" /\ Script[line[v]] \notin tables

(* A half-made schema is one that somebody is making, or a broken one. *)
HalfMade == tables = {} \/ tables = Tables \/ broken \/ Pioneer

ImportInv == InOrder /\ ImportedSoFar /\ HalfMade /\ IncompleteExplained

(* References lead to tables that come before. *)
LEMMA ReferencesFirst ==
    ASSUME TypeOK, ImportInv, NEW w \in Windows, pc[w] = "import"
    PROVE  References(Script[line[w]]) \subseteq tables
  <1>1. line[w] \in 1..5
    BY ScriptFacts DEF TypeOK
  <1> QED
    BY <1>1, ScriptFacts DEF ImportInv, ImportedSoFar, References, Steps

(* A statement that is accepted creates the first table that is missing. *)
LEMMA AcceptedStatement ==
    ASSUME TypeOK, ImportInv, NEW w \in Windows, ImportStatement(w),
           ~Refused(Script[line[w]])
    PROVE  ImportInv'
  <1>1. line[w] \in 1..5 /\ pc[w] = "import" /\ Script[line[w]] \notin tables
    BY ScriptFacts DEF TypeOK, Refused, ImportStatement
  <1>2. tables' = tables \cup {Script[line[w]]} /\ UNCHANGED <<offline, broken>>
    BY DEF ImportStatement
  <1>3. \A j \in 1..5 : j < line[w] => Script[j] \in tables
    BY <1>1 DEF ImportInv, ImportedSoFar, Steps
  <1>4. \A j \in 1..5 : j > line[w] => Script[j] \notin tables
    BY <1>1 DEF ImportInv, InOrder
  <1>5. CASE line[w] = 5
    <2>1. tables' = Tables
      <3>1. Script[1] \in tables /\ Script[2] \in tables /\ Script[3] \in tables
            /\ Script[4] \in tables
        BY <1>3, <1>5
      <3>2. tables \subseteq Tables
        BY DEF TypeOK
      <3> QED
        BY <1>2, <1>5, <3>1, <3>2, ScriptFacts
    <2>2. \A v \in Windows : line'[v] = line[v]
      BY <1>5, ScriptFacts DEF ImportStatement, Goto, TypeOK
    <2> QED
      BY <2>1, <2>2, <1>2, ScriptFacts
      DEF ImportInv, InOrder, ImportedSoFar, HalfMade, IncompleteExplained, TypeOK
  <1>6. CASE line[w] /= 5
    <2>1. pc' = pc /\ line' = [line EXCEPT ![w] = @ + 1]
      BY <1>6, ScriptFacts DEF ImportStatement, Refused
    <2>2. Script[line[w] + 1] \notin tables' /\ line'[w] = line[w] + 1
      BY <1>1, <1>2, <1>4, <1>6, <2>1, ScriptFacts DEF TypeOK
    <2>3. Pioneer'
      BY <1>1, <2>1, <2>2 DEF Pioneer
    <2>4. InOrder'
      <3> SUFFICES ASSUME NEW k \in 1..5, Script[k] \in tables', NEW j \in 1..k
                   PROVE  Script[j] \in tables'
        BY DEF InOrder
      <3>1. CASE Script[k] \in tables
        BY <1>2, <3>1 DEF ImportInv, InOrder
      <3>2. CASE Script[k] = Script[line[w]]
        BY <1>1, <1>2, <1>3, <3>2, ScriptFacts
      <3> QED
        BY <1>2, <3>1, <3>2
    <2>5. ImportedSoFar'
      BY <1>1, <1>2, <1>3, <2>1 DEF ImportInv, ImportedSoFar, TypeOK
    <2>6. IncompleteExplained'
      BY <1>1, <2>1 DEF IncompleteExplained
    <2> QED
      BY <2>3, <2>4, <2>5, <2>6 DEF ImportInv, HalfMade
  <1> QED
    BY <1>5, <1>6

(* A client that is refused leaves the rest to the pioneer. *)
LEMMA RefusedStatement ==
    ASSUME TypeOK, ImportInv, NEW w \in Windows, ImportStatement(w),
           Refused(Script[line[w]])
    PROVE  ImportInv'
  <1>1. pc[w] = "import" /\ Script[line[w]] \in tables
    BY ReferencesFirst DEF Refused, ImportStatement
  <1>2. UNCHANGED <<tables, line, offline, broken>>
        /\ pc' = [pc EXCEPT ![w] = "web_server"]
    BY DEF ImportStatement, Goto
  <1>3. InOrder' /\ ImportedSoFar'
    BY <1>2 DEF ImportInv, InOrder, ImportedSoFar, TypeOK, Steps
  <1>4. Pioneer => Pioneer'
    BY <1>1, <1>2 DEF Pioneer, TypeOK
  <1>5. tables = Tables \/ broken \/ Pioneer'
    BY <1>1, <1>4 DEF ImportInv, HalfMade
  <1> QED
    BY <1>2, <1>3, <1>5 DEF ImportInv, HalfMade, IncompleteExplained, Pioneer

LEMMA InitImportInv == Init => ImportInv
  BY DEF Steps, Init, ImportInv, InOrder, ImportedSoFar, HalfMade, IncompleteExplained

LEMMA NextImportInv == TypeOK /\ ImportInv /\ [Next]_vars => ImportInv'
  <1> SUFFICES ASSUME TypeOK, ImportInv, [Next]_vars
               PROVE  ImportInv'
    OBVIOUS
  <1> USE DEF ImportInv, InOrder, ImportedSoFar, HalfMade, Pioneer, IncompleteExplained,
             Steps
  <1>1. ASSUME NEW w \in Windows, Open(w)
        PROVE  ImportInv'
    BY <1>1 DEF Open, Goto, TypeOK, disk
  <1>2. ASSUME NEW w \in Windows,
               \/ CheckPhp(w) \/ PressKey(w) \/ CheckDataDir(w) \/ Install(w)
               \/ StartServer(w) \/ Wait(w) \/ CreateDatabase(w)
        PROVE  ImportInv'
    <2>1. PICK step \in {"data_dir", "pause", "closed", "install", "mariadbd", "timeout",
                         "create_database", "connect"} : Goto(w, step)
      BY <1>2 DEF CheckPhp, PressKey, CheckDataDir, Install, StartServer, Wait, CreateDatabase
    <2>2. /\ UNCHANGED <<tables, line, offline, broken>>
          /\ pc[w] \in Steps \ {"import", "web_server"} \/ pc'[w] = "closed"
          /\ pc[w] \notin {"import", "web_server"}
      BY <1>2 DEF CheckPhp, PressKey, CheckDataDir, Install, StartServer, Wait,
                  CreateDatabase, Goto, TypeOK, disk
    <2> QED
      BY <2>1, <2>2 DEF Goto, TypeOK
  <1>3. ASSUME NEW w \in Windows, Connect(w)
        PROVE  ImportInv'
    BY <1>3 DEF Connect, Goto, TypeOK, disk
  <1>4. ASSUME NEW w \in Windows, Serve(w)
        PROVE  ImportInv'
    BY <1>4 DEF Serve, Goto, TypeOK, disk
  <1>5. ASSUME NEW w \in Windows, Close(w)
        PROVE  ImportInv'
    BY <1>5 DEF Close, Goto, TypeOK, disk
  <1>6. CASE ServerReady
    BY <1>6 DEF ServerReady, disk
  <1>7. CASE ServerStops
    BY <1>7 DEF ServerStops, TypeOK, disk
  <1>8. CASE UNCHANGED vars
    BY <1>8 DEF vars, disk
  <1>9. ASSUME NEW w \in Windows, ImportStatement(w)
        PROVE  ImportInv'
    BY <1>9, AcceptedStatement, RefusedStatement
  <1> QED
    BY <1>1, <1>2, <1>3, <1>4, <1>5, <1>6, <1>7, <1>8, <1>9 DEF Next, ScriptStep

(* The site goes up without a table only for one of three reasons, for any *)
(* number of windows: start-server.bat importing database.sql in several   *)
(* windows at once is not one of them.                                     *)
THEOREM MissingTablesExplained == Spec => []IncompleteExplained
  <1>1. ImportInv => IncompleteExplained
    BY DEF ImportInv
  <1> QED
    BY <1>1, InitTypeOK, NextTypeOK, InitImportInv, NextImportInv, PTL DEF Spec
=============================================================================
