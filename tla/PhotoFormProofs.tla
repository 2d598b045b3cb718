--------------------------- MODULE PhotoFormProofs ---------------------------
(***************************************************************************)
(* Proofs about PhotoForm, for any number of forms and files.              *)
(***************************************************************************)
EXTENDS PhotoForm, UploadsProofs

(* The picture a form displays is the one in its input, or will be as soon *)
(* as the only reader has loaded it.                                       *)
InSync ==
    \A r \in Requests : ~hurried[r] /\ input[r] \in Photos =>
        reading[r] = {input[r]} \/ (reading[r] = {} /\ preview[r] = input[r])

(* The server has a photo of a form only after the page sent it. *)
PhotoWasSent ==
    \A r \in Requests :
        /\ image[r] /= None => sent[r] /\ input[r] \in Photos
        /\ sent[r] => reading[r] = {}

FormInv == BrowserTypeOK /\ InSync /\ PhotoWasSent

LEMMA InitFormInv == FormInit => FormInv
  BY FilesAssumption DEF FormInit, Init, FormInv, BrowserTypeOK, InSync, PhotoWasSent

(* Whatever the browser does, the server runs module Uploads. *)
LEMMA FormStep == [FormNext]_<<vars, browser>> => [Next]_vars
  BY DEF FormNext, Choose, Loaded, Dismiss, RemovePhoto, Submit, Receive, Store, Next, vars

LEMMA NextFormInv == PhotoInv /\ FormInv /\ [FormNext]_<<vars, browser>> => FormInv'
  <1> SUFFICES ASSUME PhotoInv, FormInv, [FormNext]_<<vars, browser>>
               PROVE  FormInv'
    OBVIOUS
  <1> USE DEF FormInv, BrowserTypeOK, InSync, PhotoWasSent
  <1>1. ASSUME NEW r \in Requests, NEW f \in Photos \cup OtherFiles, Choose(r, f)
        PROVE  FormInv'
    BY <1>1, FilesAssumption DEF Choose, Hurry, vars
  <1>2. ASSUME NEW r \in Requests, NEW f \in Photos \cup OtherFiles, Loaded(r, f)
        PROVE  FormInv'
    BY <1>2 DEF Loaded, vars
  <1>3. ASSUME NEW r \in Requests, Dismiss(r)
        PROVE  FormInv'
    BY <1>3, FilesAssumption DEF Dismiss, vars
  <1>4. ASSUME NEW r \in Requests, RemovePhoto(r)
        PROVE  FormInv'
    BY <1>4, FilesAssumption DEF RemovePhoto, Hurry, vars
  <1>5. ASSUME NEW r \in Requests, Submit(r)
        PROVE  FormInv'
    BY <1>5 DEF Submit, Hurry, vars
  <1>6. ASSUME NEW r \in Requests, Receive(r)
        PROVE  FormInv'
    BY <1>6 DEF Receive, Reject, NoFile, MoveUpload, browser, PhotoInv, TypeOK
  <1>7. ASSUME NEW r \in Requests, Store(r)
        PROVE  FormInv'
    BY <1>7 DEF Store, Insert, Die, DeleteItem, browser
  <1>8. CASE UNCHANGED <<vars, browser>>
    BY <1>8 DEF vars, browser
  <1> QED
    BY <1>1, <1>2, <1>3, <1>4, <1>5, <1>6, <1>7, <1>8 DEF FormNext

(* The forms in front of it change nothing about the server's part: what   *)
(* is proved of handle_image_upload and the INSERT holds behind them.      *)
THEOREM ServerPart == FormSpec => Spec
  <1>1. FormInit => Init
    BY DEF FormInit
  <1> QED
    BY <1>1, FormStep, PTL DEF FormSpec, Spec

(* The upload zone of script.js keeps its types: it never displays a file  *)
(* that is no image.                                                       *)
THEOREM BrowserTypeCorrect == FormSpec => []BrowserTypeOK
  <1>1. FormInv => BrowserTypeOK
    BY DEF FormInv
  <1>2. FormInit => PhotoInv
    BY InitPhotoInv DEF FormInit
  <1> QED
    BY <1>1, <1>2, FormStep, NextPhotoInv, InitFormInv, NextFormInv, PTL DEF FormSpec

(* A stored photo is the one the form displayed, however often the visitor *)
(* chose, dismissed and removed before, unless a reader was loading.       *)
THEOREM ShownIsStored == FormSpec => []PhotoWasShown
  <1>1. PhotoInv /\ FormInv => PhotoWasShown
    BY DEF PhotoInv, TypeOK, FormInv, InSync, PhotoWasSent, PhotoWasShown
  <1>2. FormInit => PhotoInv
    BY InitPhotoInv DEF FormInit
  <1> QED
    BY <1>1, <1>2, FormStep, NextPhotoInv, InitFormInv, NextFormInv, PTL DEF FormSpec
=============================================================================
