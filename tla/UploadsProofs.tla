---------------------------- MODULE UploadsProofs ----------------------------
(***************************************************************************)
(* Photos of any number of report forms, whatever their files are called.  *)
(***************************************************************************)
EXTENDS Uploads, TLAPS

(* Directory and request agree: a path that is taken is the destination of *)
(* the request whose photo it holds, and only that request refers to it.   *)
PhotoInv ==
    /\ TypeOK
    /\ \A r \in Requests : image[r] /= None =>
           image[r] = Destination(r) /\ files[Destination(r)] = r
    /\ \A p \in Paths : files[p] /= None =>
           image[files[p]] = p /\ pc[files[p]] \in {"insert", "stored", "died"}
    /\ \A r \in Requests : pc[r] = "validate" => image[r] = None
    /\ \A r \in rows : column[r] = image[r] /\ pc[r] = "stored"

LEMMA PathOfRequest ==
    \A r \in Requests : Destination(r) \in Paths /\ Destination(r) /= None
  <1>1. \A r \in Requests : Destination(r) \in Paths
    BY KindAssumption DEF Destination, Paths, Names
  <1> QED
    BY <1>1, NoneAssumption

LEMMA DestinationsDiffer ==
    \A r, q \in Requests : Destination(r) = Destination(q) => r = q
  BY DEF Destination

LEMMA InitPhotoInv == Init => PhotoInv
  BY DEF Init, PhotoInv, TypeOK

LEMMA NextPhotoInv == PhotoInv /\ [Next]_vars => PhotoInv'
  <1> SUFFICES ASSUME PhotoInv, [Next]_vars
               PROVE  PhotoInv'
    OBVIOUS
  <1>1. ASSUME NEW r \in Requests, Reject(r)
        PROVE  PhotoInv'
    <2>1. pc[r] = "validate" /\ image[r] = None /\ r \notin rows
      BY <1>1 DEF Reject, PhotoInv
    <2> QED
      BY <1>1, <2>1 DEF Reject, Goto, PhotoInv, TypeOK, Ends
  <1>2. ASSUME NEW r \in Requests, NoFile(r)
        PROVE  PhotoInv'
    <2>1. pc[r] = "validate" /\ r \notin rows
      BY <1>2 DEF NoFile, PhotoInv
    <2> QED
      BY <1>2, <2>1 DEF NoFile, Goto, PhotoInv, TypeOK, Ends
  <1>3. ASSUME NEW r \in Requests, MoveUpload(r)
        PROVE  PhotoInv'
    <2> DEFINE p == Destination(r)
    <2>1. p \in Paths /\ p /= None
      BY PathOfRequest
    <2>2. /\ pc[r] = "validate" /\ pc' = [pc EXCEPT ![r] = "insert"]
          /\ files' = [files EXCEPT ![p] = r]
          /\ image' = [image EXCEPT ![r] = p]
          /\ UNCHANGED <<rows, column>>
      BY <1>3 DEF MoveUpload, Goto
    <2>3. \A q \in Requests \ {r} : image[q] /= p
      BY <2>1, DestinationsDiffer DEF PhotoInv
    <2>4. r \notin rows
      BY <2>2 DEF PhotoInv
    <2> HIDE DEF p
    <2>5. TypeOK'
      BY <2>1, <2>2 DEF PhotoInv, TypeOK
    <2>6. \A q \in Requests : image'[q] /= None =>
              image'[q] = Destination(q) /\ files'[Destination(q)] = q
      <3>1. ASSUME NEW q \in Requests, q /= r, image[q] /= None
            PROVE  files'[Destination(q)] = q
        BY <2>2, <2>3, <3>1, PathOfRequest DEF PhotoInv, TypeOK
      <3>2. files'[p] = r /\ image'[r] = p
        BY <2>1, <2>2 DEF PhotoInv, TypeOK
      <3> QED
        BY <2>2, <3>1, <3>2 DEF PhotoInv, TypeOK, p
    <2>7. \A x \in Paths : files'[x] /= None =>
              image'[files'[x]] = x /\ pc'[files'[x]] \in {"insert", "stored", "died"}
      <3>1. ASSUME NEW x \in Paths, x /= p, files[x] /= None
            PROVE  files[x] /= r /\ files[x] \in Requests
        BY <2>2, <3>1 DEF PhotoInv, TypeOK
      <3> QED
        BY <2>1, <2>2, <3>1, NoneAssumption DEF PhotoInv, TypeOK
    <2>8. /\ \A q \in Requests : pc'[q] = "validate" => image'[q] = None
          /\ \A q \in rows' : column'[q] = image'[q] /\ pc'[q] = "stored"
      BY <2>2, <2>4 DEF PhotoInv, TypeOK
    <2> QED
      BY <2>5, <2>6, <2>7, <2>8 DEF PhotoInv
  <1>4. ASSUME NEW r \in Requests, Insert(r)
        PROVE  PhotoInv'
    BY <1>4 DEF Insert, Goto, PhotoInv, TypeOK, Ends
  <1>5. ASSUME NEW r \in Requests, Die(r)
        PROVE  PhotoInv'
    <2>1. r \notin rows /\ pc[r] = "insert"
      BY <1>5 DEF Die, PhotoInv
    <2> QED
      BY <1>5, <2>1 DEF Die, Goto, PhotoInv, TypeOK, Ends
  <1>6. ASSUME NEW r \in Requests, DeleteItem(r)
        PROVE  PhotoInv'
    BY <1>6 DEF DeleteItem, PhotoInv, TypeOK
  <1>7. CASE UNCHANGED vars
    BY <1>7 DEF vars, PhotoInv, TypeOK
  <1> QED
    BY <1>1, <1>2, <1>3, <1>4, <1>5, <1>6, <1>7 DEF Next

(* The server's part keeps its types; the image column names a path or is  *)
(* NULL.                                                                   *)
THEOREM TypeCorrect == Spec => []TypeOK
  <1>1. PhotoInv => TypeOK
    BY DEF PhotoInv
  <1> QED
    BY <1>1, InitPhotoInv, NextPhotoInv, PTL DEF Spec

(* No two reports ever share, overwrite or lose a photo. *)
THEOREM PhotosKept == Spec => []PhotoIsOwn
  <1>1. PhotoInv => PhotoIsOwn
    BY DEF PhotoInv, PhotoIsOwn, TypeOK
  <1> QED
    BY <1>1, InitPhotoInv, NextPhotoInv, PTL DEF Spec

(* Only a death before the INSERT or a deletion leaves a file behind. *)
THEOREM OrphansExplained == Spec => []OrphanExplained
  <1>1. PhotoInv => OrphanExplained
    BY DEF PhotoInv, OrphanExplained, TypeOK
  <1> QED
    BY <1>1, InitPhotoInv, NextPhotoInv, PTL DEF Spec
=============================================================================
