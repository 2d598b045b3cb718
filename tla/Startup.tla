------------------------------- MODULE Startup -------------------------------
(***************************************************************************)
(* start-server.bat: it checks for PHP, creates the data directory when    *)
(* there is none, starts MariaDB in the background, waits four seconds,    *)
(* feeds database.sql to the command-line client with the errors thrown    *)
(* away, and starts PHP's web server.  It does all of that at every start. *)
(*                                                                         *)
(* Several windows may run it.  A window may be closed and the database    *)
(* server may stop at any point.  CREATE TABLE is atomic and durable.      *)
(***************************************************************************)
EXTENDS Naturals, Sequences

CONSTANT Windows    \* console windows that run the script

(* Fault: the statements are sorted by the names of the tables. *)
ScriptSorted == <<"found_items", "lost_items", "matches", "notifications", "users">>

(* The CREATE TABLE statements of database.sql, in the order of the file.  *)
Script == <<"users", "lost_items", "found_items", "matches", "notifications">>

Tables == {Script[k] : k \in 1..Len(Script)}

(* The tables a table's foreign keys refer to. *)
References(t) ==
    CASE t = "users" -> {}
      [] t \in {"lost_items", "found_items", "notifications"} -> {"users"}
      [] t = "matches" -> {"lost_items", "found_items"}

VARIABLES
    data_dir,   \* the data directory: absent, partial or installed
    server,     \* mariadbd: off, starting or up
    database,   \* aiub_lost_found exists
    tables,     \* its tables
    pc,         \* what each window does next
    line,       \* the statement its client sends next
    offline,    \* history: windows whose client reached no database
    broken      \* history: an import was broken off

disk == <<data_dir, database, tables>>
vars == <<disk, server, pc, line, offline, broken>>

Steps == {"php", "data_dir", "install", "mariadbd", "timeout", "create_database",
          "connect", "import", "web_server"}

TypeOK ==
    /\ data_dir \in {"absent", "partial", "installed"}
    /\ server \in {"off", "starting", "up"}
    /\ database \in BOOLEAN
    /\ tables \subseteq Tables
    /\ pc \in [Windows -> Steps \cup {"pause", "closed", "serving"}]
    /\ line \in [Windows -> 1..Len(Script)]
    /\ offline \subseteq Windows
    /\ broken \in BOOLEAN

Init ==
    /\ data_dir = "absent"
    /\ server = "off"
    /\ database = FALSE
    /\ tables = {}
    /\ pc = [w \in Windows |-> "closed"]
    /\ line = [w \in Windows |-> 1]
    /\ offline = {}
    /\ broken = FALSE

Goto(w, step) == pc' = [pc EXCEPT ![w] = step]

-----------------------------------------------------------------------------
Open(w) ==
    /\ pc[w] = "closed"
    /\ Goto(w, "php")
    /\ line' = [line EXCEPT ![w] = 1]
    /\ offline' = offline \ {w}
    /\ UNCHANGED <<disk, server, broken>>

(* php --version; without PHP the script waits for a key. *)
CheckPhp(w) ==
    /\ pc[w] = "php"
    /\ \E found \in BOOLEAN : Goto(w, IF found THEN "data_dir" ELSE "pause")
    /\ UNCHANGED <<disk, server, line, offline, broken>>

(* Somebody presses a key: exit /b 1. *)
PressKey(w) ==
    /\ pc[w] = "pause"
    /\ Goto(w, "closed")
    /\ UNCHANGED <<disk, server, line, offline, broken>>

(* if not exist: mariadb-install-db begins by creating the directory. *)
CheckDataDir(w) ==
    /\ pc[w] = "data_dir"
    /\ data_dir' = IF data_dir = "absent" THEN "partial" ELSE data_dir
    /\ Goto(w, IF data_dir = "absent" THEN "install" ELSE "mariadbd")
    /\ UNCHANGED <<database, tables, server, line, offline, broken>>

Install(w) ==
    /\ pc[w] = "install"
    /\ data_dir' = "installed"
    /\ Goto(w, "mariadbd")
    /\ UNCHANGED <<database, tables, server, line, offline, broken>>

(* A second server finds the data directory and the port taken and exits;  *)
(* so does one whose data directory is not complete.                       *)
StartServer(w) ==
    /\ pc[w] = "mariadbd"
    /\ server' = IF server = "off" /\ data_dir = "installed" THEN "starting" ELSE server
    /\ Goto(w, "timeout")
    /\ UNCHANGED <<disk, line, offline, broken>>

(* Fault: the script waits until the server answers. *)
WaitUntilUp(w) ==
    /\ pc[w] = "timeout"
    /\ server = "up"
    /\ Goto(w, "create_database")
    /\ UNCHANGED <<disk, server, line, offline, broken>>

(* timeout /t 4: the server may or may not be up by then. *)
Wait(w) ==
    /\ pc[w] = "timeout"
    /\ Goto(w, "create_database")
    /\ UNCHANGED <<disk, server, line, offline, broken>>

(* mariadb -e "CREATE DATABASE IF NOT EXISTS ..." 2>nul *)
CreateDatabase(w) ==
    /\ pc[w] = "create_database"
    /\ database' = (database \/ server = "up")
    /\ Goto(w, "connect")
    /\ UNCHANGED <<data_dir, tables, server, line, offline, broken>>

(* Fault: database.sql says CREATE DATABASE without IF NOT EXISTS. *)
ConnectOnce(w) ==
    /\ pc[w] = "connect"
    /\ Goto(w, IF server = "up" /\ ~database THEN "import" ELSE "web_server")
    /\ offline' = IF server = "up" /\ database THEN offline ELSE offline \cup {w}
    /\ UNCHANGED <<disk, server, line, broken>>

(* The client of the import opens the database or gives up; the first two  *)
(* statements of database.sql, CREATE DATABASE IF NOT EXISTS and USE, then *)
(* change nothing.                                                         *)
Connect(w) ==
    /\ pc[w] = "connect"
    /\ Goto(w, IF server = "up" /\ database THEN "import" ELSE "web_server")
    /\ offline' = IF server = "up" /\ database THEN offline ELSE offline \cup {w}
    /\ UNCHANGED <<disk, server, line, broken>>

Refused(t) == t \in tables \/ ~(References(t) \subseteq tables)

(* Fault: the client does not notice the end of the file. *)
ImportPastEnd(w) ==
    LET t == Script[line[w]]
    IN  /\ pc[w] = "import"
        /\ tables' = IF Refused(t) THEN tables ELSE tables \cup {t}
        /\ IF Refused(t)
           THEN Goto(w, "web_server") /\ UNCHANGED line
           ELSE line' = [line EXCEPT ![w] = @ + 1] /\ UNCHANGED pc
        /\ UNCHANGED <<data_dir, database, server, offline, broken>>

(* One CREATE TABLE.  The client stops at the first statement that fails,  *)
(* and nobody sees the message.                                            *)
ImportStatement(w) ==
    LET t == Script[line[w]]
    IN  /\ pc[w] = "import"
        /\ tables' = IF Refused(t) THEN tables ELSE tables \cup {t}
        /\ IF Refused(t) \/ line[w] = Len(Script)
           THEN Goto(w, "web_server") /\ UNCHANGED line
           ELSE line' = [line EXCEPT ![w] = @ + 1] /\ UNCHANGED pc
        /\ UNCHANGED <<data_dir, database, server, offline, broken>>

(* "Database ready!", the browser, and php -S on a port only one can have. *)
Serve(w) ==
    /\ pc[w] = "web_server"
    /\ Goto(w, IF \E v \in Windows : pc[v] = "serving" THEN "closed" ELSE "serving")
    /\ UNCHANGED <<disk, server, line, offline, broken>>

-----------------------------------------------------------------------------
(* Around the script *)

ServerReady ==
    /\ server = "starting"
    /\ server' = "up"
    /\ UNCHANGED <<disk, pc, line, offline, broken>>

(* A crash, or the end of the console it runs in.  A client that is        *)
(* importing loses its connection and gives up.                            *)
ServerStops ==
    /\ server /= "off"
    /\ server' = "off"
    /\ pc' = [w \in Windows |-> IF pc[w] = "import" THEN "web_server" ELSE pc[w]]
    /\ broken' = (broken \/ \E w \in Windows : pc[w] = "import")
    /\ UNCHANGED <<disk, line, offline>>

(* Ctrl+C, or somebody closes the window. *)
Close(w) ==
    /\ pc[w] /= "closed"
    /\ Goto(w, "closed")
    /\ broken' = (broken \/ pc[w] = "import")
    /\ UNCHANGED <<disk, server, line, offline>>

ScriptStep(w) ==
    \/ CheckPhp(w) \/ CheckDataDir(w) \/ Install(w) \/ StartServer(w) \/ Wait(w)
    \/ CreateDatabase(w) \/ Connect(w) \/ ImportStatement(w) \/ Serve(w)

Next ==
    \/ \E w \in Windows : Open(w) \/ ScriptStep(w) \/ PressKey(w) \/ Close(w)
    \/ ServerReady \/ ServerStops

(* cmd.exe goes on to the next line of the script by itself.  At the pause *)
(* it waits for somebody, and nothing says that anybody comes.             *)
Fairness == \A w \in Windows : WF_vars(ScriptStep(w))

Spec == Init /\ [][Next]_vars /\ Fairness

-----------------------------------------------------------------------------
(* Properties *)

(* The site goes up with tables missing only if the window's own client    *)
(* found no database, another window is importing them right now, or some  *)
(* import was broken off before: two windows that import at the same time  *)
(* do not spoil it for each other.                                         *)
IncompleteExplained ==
    \A w \in Windows :
        pc[w] \in {"web_server", "serving"} =>
            \/ tables = Tables
            \/ w \in offline
            \/ \E v \in Windows : pc[v] = "import"
            \/ broken

(* An import that has begun leads to the whole schema, unless one is       *)
(* broken off: no table is created before those its keys refer to, and of  *)
(* two windows whose clients get in each other's way one gets to the end.  *)
ImportCompletes ==
    \A w \in Windows : pc[w] = "import" ~> tables = Tables \/ broken

(* Every start comes to the web server, ends, or waits at the pause for a  *)
(* key because there is no PHP, whatever became of the data directory and  *)
(* the database.                                                           *)
StartsFinish ==
    \A w \in Windows : pc[w] \in Steps ~> pc[w] \in {"serving", "closed", "pause"}
=============================================================================
