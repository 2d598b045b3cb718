------------------------------- MODULE Uploads -------------------------------
(***************************************************************************)
(* The photo of a report: report-lost.php and report-found.php up to the   *)
(* INSERT, and handle_image_upload of includes/functions.php.  The file is *)
(* moved into the upload directory before the row that names it exists, by *)
(* requests that share the directory and may end in between.               *)
(***************************************************************************)
CONSTANTS
    Requests,     \* submitted report forms
    Kind,         \* "lost" or "found": UPLOAD_DIR_LOST, UPLOAD_DIR_FOUND
    ClientName,   \* $_FILES['image']['name'] of a request
    None          \* NULL, or a file that does not exist

Names == Requests \cup {ClientName[r] : r \in Requests}
Paths == {"lost", "found"} \X Names

ASSUME KindAssumption == Kind \in [Requests -> {"lost", "found"}]
ASSUME NoneAssumption == None \notin Requests /\ None \notin Paths

VARIABLES
    pc,       \* the next step of a request, or how it ended
    image,    \* $image
    files,    \* the upload directories: the request whose photo a path holds
    rows,     \* reports stored by requests
    column    \* the image column of those reports

vars == <<pc, image, files, rows, column>>

Ends == {"stored", "rejected", "died"}

TypeOK ==
    /\ pc \in [Requests -> {"validate", "insert"} \cup Ends]
    /\ image \in [Requests -> Paths \cup {None}]
    /\ files \in [Paths -> Requests \cup {None}]
    /\ rows \subseteq Requests
    /\ column \in [Requests -> Paths \cup {None}]

Init ==
    /\ pc = [r \in Requests |-> "validate"]
    /\ image = [r \in Requests |-> None]
    /\ files = [p \in Paths |-> None]
    /\ rows = {}
    /\ column = [r \in Requests |-> None]

Goto(r, step) == pc' = [pc EXCEPT ![r] = step]

(* Fault: the photo keeps the name it has on the visitor's device. *)
ClientDestination(r) == <<Kind[r], ClientName[r]>>

(* $targetDir . uniqid('img_', true) . '.' . $ext: a name of its own for   *)
(* every request.                                                          *)
Destination(r) == <<Kind[r], r>>

(* Fault: the form is validated after the photo was moved. *)
RejectLate(r) ==
    /\ pc[r] = "validate"
    /\ files' = [files EXCEPT ![Destination(r)] = r]
    /\ Goto(r, "rejected")
    /\ UNCHANGED <<image, rows, column>>

(* A required field is missing, or handle_image_upload returns false: an   *)
(* upload error, more than 5 MB, another extension, a failed move.         *)
Reject(r) ==
    /\ pc[r] = "validate"
    /\ Goto(r, "rejected")
    /\ UNCHANGED <<image, files, rows, column>>

(* handle_image_upload returns null: a report without a photo. *)
NoFile(r) ==
    /\ pc[r] = "validate"
    /\ Goto(r, "insert")
    /\ UNCHANGED <<image, files, rows, column>>

(* move_uploaded_file, which overwrites *)
MoveUpload(r) ==
    /\ pc[r] = "validate"
    /\ files' = [files EXCEPT ![Destination(r)] = r]
    /\ image' = [image EXCEPT ![r] = Destination(r)]
    /\ Goto(r, "insert")
    /\ UNCHANGED <<rows, column>>

(* Fault: the column takes the request's number where the name belongs. *)
InsertNumber(r) ==
    /\ pc[r] = "insert"
    /\ rows' = rows \cup {r}
    /\ column' = [column EXCEPT ![r] = r]
    /\ Goto(r, "stored")
    /\ UNCHANGED <<image, files>>

(* INSERT INTO lost_items / found_items (..., image) *)
Insert(r) ==
    /\ pc[r] = "insert"
    /\ rows' = rows \cup {r}
    /\ column' = [column EXCEPT ![r] = image[r]]
    /\ Goto(r, "stored")
    /\ UNCHANGED <<image, files>>

(* The INSERT is refused, because the reporter's account was deleted, or   *)
(* the request is killed: nobody removes the photo.                        *)
Die(r) ==
    /\ pc[r] = "insert"
    /\ Goto(r, "died")
    /\ UNCHANGED <<image, files, rows, column>>

(* admin/dashboard.php, or the cascade of an account: the row only. *)
DeleteItem(r) ==
    /\ r \in rows
    /\ rows' = rows \ {r}
    /\ column' = [column EXCEPT ![r] = None]
    /\ UNCHANGED <<pc, image, files>>

Next ==
    \E r \in Requests :
        \/ Reject(r) \/ NoFile(r) \/ MoveUpload(r)
        \/ Insert(r) \/ Die(r) \/ DeleteItem(r)

Spec == Init /\ [][Next]_vars

-----------------------------------------------------------------------------
(* Properties *)

(* A stored report shows the photo it was submitted with: the file its     *)
(* image column names exists and holds the photo of that very form, even   *)
(* if others upload a photo of the same name at the same time.             *)
PhotoIsOwn ==
    \A r \in rows : column[r] /= None => files[column[r]] = r

(* A photo in the upload directory belongs to a stored report, is about to *)
(* be stored, or was left behind by a request that died before its INSERT  *)
(* or by a deletion: a rejected form leaves no file.                       *)
OrphanExplained ==
    \A p \in Paths : files[p] /= None =>
        \/ pc[files[p]] \in {"insert", "died"}
        \/ pc[files[p]] = "stored" /\ (files[p] \in rows => column[files[p]] = p)
=============================================================================
