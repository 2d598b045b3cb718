------------------------------ MODULE PhotoForm ------------------------------
(***************************************************************************)
(* The photo of a report from the file dialog to the image column: the     *)
(* upload zone of assets/js/script.js in front of the server's part, which *)
(* is module Uploads.  The preview is drawn by a FileReader whose onload   *)
(* arrives some time after the choice, when another file may have been     *)
(* chosen or the photo removed.                                            *)
(***************************************************************************)
EXTENDS Uploads

CONSTANTS
    Photos,       \* JPG, PNG and WEBP files of at most 5 MB
    OtherFiles    \* files that are no images

ASSUME FilesAssumption ==
    /\ Photos \cap OtherFiles = {}
    /\ None \notin Photos \cup OtherFiles

VARIABLES
    input,      \* input.files[0] of a form
    preview,    \* the picture the form displays
    reading,    \* the files its FileReaders are loading
    sent,       \* the form has been submitted
    hurried     \* history: the visitor went on while a reader was loading

browser == <<input, preview, reading, sent, hurried>>

BrowserTypeOK ==
    /\ input \in [Requests -> Photos \cup OtherFiles \cup {None}]
    /\ preview \in [Requests -> Photos \cup {None}]
    /\ reading \in [Requests -> SUBSET Photos]
    /\ sent \in [Requests -> BOOLEAN]
    /\ hurried \in [Requests -> BOOLEAN]

FormInit ==
    /\ Init
    /\ input = [r \in Requests |-> None]
    /\ preview = [r \in Requests |-> None]
    /\ reading = [r \in Requests |-> {}]
    /\ sent = [r \in Requests |-> FALSE]
    /\ hurried = [r \in Requests |-> FALSE]

-----------------------------------------------------------------------------
(* What the visitor does counts as hurried while a reader is loading. *)
Hurry(r) == hurried' = [hurried EXCEPT ![r] = @ \/ reading[r] /= {}]

(* Fault: showPreview does not look at the type of the file. *)
ChooseAny(r, f) ==
    /\ ~sent[r]
    /\ input' = [input EXCEPT ![r] = f]
    /\ reading' = [reading EXCEPT ![r] = @ \cup {f}]
    /\ Hurry(r)
    /\ UNCHANGED <<vars, preview, sent>>

(* A file is dropped on the zone or chosen in the dialog: showPreview      *)
(* starts a reader, but returns at once for a file that is no image.       *)
Choose(r, f) ==
    /\ ~sent[r]
    /\ input' = [input EXCEPT ![r] = f]
    /\ reading' = [reading EXCEPT ![r] = @ \cup ({f} \cap Photos)]
    /\ Hurry(r)
    /\ UNCHANGED <<vars, preview, sent>>

(* The dialog is dismissed: the browser may empty the input, and the       *)
(* change handler does nothing for an empty one.                           *)
Dismiss(r) ==
    /\ ~sent[r]
    /\ input' = [input EXCEPT ![r] = None]
    /\ UNCHANGED <<vars, preview, reading, sent, hurried>>

(* reader.onload *)
Loaded(r, f) ==
    /\ ~sent[r]
    /\ f \in reading[r]
    /\ preview' = [preview EXCEPT ![r] = f]
    /\ reading' = [reading EXCEPT ![r] = @ \ {f}]
    /\ UNCHANGED <<vars, input, sent, hurried>>

(* Fault: the button hides the preview and leaves the input as it is. *)
HidePreview(r) ==
    /\ ~sent[r]
    /\ preview[r] /= None
    /\ preview' = [preview EXCEPT ![r] = None]
    /\ Hurry(r)
    /\ UNCHANGED <<vars, input, reading, sent>>

(* The remove button, which is part of the preview. *)
RemovePhoto(r) ==
    /\ ~sent[r]
    /\ preview[r] /= None
    /\ input' = [input EXCEPT ![r] = None]
    /\ preview' = [preview EXCEPT ![r] = None]
    /\ Hurry(r)
    /\ UNCHANGED <<vars, reading, sent>>

(* The browser sends the file in the input; its page is gone. *)
Submit(r) ==
    /\ ~sent[r]
    /\ sent' = [sent EXCEPT ![r] = TRUE]
    /\ reading' = [reading EXCEPT ![r] = {}]
    /\ Hurry(r)
    /\ UNCHANGED <<vars, input, preview>>

(* The request: module Uploads, for the file that was sent. *)
Receive(r) ==
    /\ sent[r]
    /\ \/ Reject(r)
       \/ input[r] = None /\ NoFile(r)
       \/ input[r] \in Photos /\ MoveUpload(r)
    /\ UNCHANGED browser

Store(r) == (Insert(r) \/ Die(r) \/ DeleteItem(r)) /\ UNCHANGED browser

FormNext ==
    \E r \in Requests :
        \/ \E f \in Photos \cup OtherFiles : Choose(r, f) \/ Loaded(r, f)
        \/ Dismiss(r) \/ RemovePhoto(r) \/ Submit(r) \/ Receive(r) \/ Store(r)

FormSpec == FormInit /\ [][FormNext]_<<vars, browser>>

-----------------------------------------------------------------------------
(* Properties *)

(* What a visitor sees is what is stored: a report that gets a photo gets  *)
(* the one its form displayed, provided no reader was loading when the     *)
(* visitor chose, removed or submitted.                                    *)
PhotoWasShown ==
    \A r \in rows :
        column[r] /= None /\ ~hurried[r] => preview[r] = input[r]
=============================================================================
