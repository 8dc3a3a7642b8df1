------------------------------- MODULE Photos -------------------------------
(***************************************************************************)
(* The photos of one user: PhotosService, its Photo rows and the objects   *)
(* in the S3 bucket, used from the user's pages (ProfileSetupPage).        *)
(*                                                                         *)
(* An action is one database statement or one call of S3.  The user may    *)
(* have several pages open; the requests in flight are held in Req.        *)
(***************************************************************************)
EXTENDS Integers, FiniteSets

CONSTANTS
  Key,        \* storage keys, a fresh one for each upload URL
  Photo,      \* ids of Photo rows
  Req,        \* slots for requests in flight
  MaxPhotos   \* MAX_PHOTOS_PER_USER

ASSUME PhotosAssumption ==
  IsFiniteSet(Key) /\ IsFiniteSet(Photo) /\ IsFiniteSet(Req) /\ MaxPhotos \in Nat \ {0}

VARIABLES
  issued,   \* the keys for which an upload URL was given out
  object,   \* what lies in the bucket under each key
  photo,    \* the Photo rows
  deleted,  \* the ids of rows that were deleted
  gone,     \* the user is deleted
  req       \* the requests in flight

vars == <<issued, object, photo, deleted, gone, req>>

NoRow == [key |-> "none"]
Idle == [pc |-> "idle"]
ConfirmRequest ==
  [pc : {"reads", "create", "discard"}, key : Key,
   left : SUBSET {"count", "duplicate"},  \* reads not answered yet
   ok : BOOLEAN,                          \* no answer refuses the photo
   position : Nat]
DeleteRequest == [pc : {"object", "row"}, photo : Photo, key : Key]

TypeOK ==
  /\ issued \subseteq Key
  /\ object \in [Key -> {"none", "image", "other", "removed"}]
  /\ photo \in [Photo -> {NoRow} \cup [key : Key, position : Nat]]
  /\ deleted \subseteq Photo
  /\ gone \in BOOLEAN
  /\ req \in [Req -> {Idle} \cup ConfirmRequest \cup DeleteRequest]

Rows == {i \in Photo : photo[i] # NoRow}

Init ==
  /\ issued = {}
  /\ object = [k \in Key |-> "none"]
  /\ photo = [i \in Photo |-> NoRow]
  /\ deleted = {}
  /\ gone = FALSE
  /\ req = [r \in Req |-> Idle]

-----------------------------------------------------------------------------
Put(r, request) == req' = [req EXCEPT ![r] = request]
Finish(r) == Put(r, Idle)
Goto(r, pc) == Put(r, [req[r] EXCEPT !.pc = pc])

(* createUploadUrl: one count; the URL is signed locally.                  *)
CreateUploadUrl(k) ==
  /\ ~gone /\ k \notin issued
  /\ Cardinality(Rows) < MaxPhotos
  /\ issued' = issued \cup {k}
  /\ UNCHANGED <<object, photo, deleted, gone, req>>

(* The page PUTs the file, once.  It has looked at the type and the size,  *)
(* but an empty file passes there and not in confirmUpload.                *)
Upload(k) ==
  /\ k \in issued /\ object[k] = "none"
  /\ \E content \in {"image", "other"} : object' = [object EXCEPT ![k] = content]
  /\ UNCHANGED <<issued, photo, deleted, gone, req>>

-----------------------------------------------------------------------------
(* confirmUpload                                                           *)

Confirming(r, k) == req[r].pc \in {"reads", "create", "discard"} /\ req[r].key = k

\* mutant of ConfirmUpload: the page does not wait for the answer
ConfirmTwice(r, k) ==
  /\ req[r].pc = "idle" /\ ~gone
  /\ object[k] # "none"
  /\ Put(r, [pc |-> "reads", key |-> k, left |-> {"count", "duplicate"},
             ok |-> TRUE, position |-> 0])
  /\ UNCHANGED <<issued, object, photo, deleted, gone>>

\* The page confirms what it has uploaded, and not again while it waits.
ConfirmUpload(r, k) ==
  /\ req[r].pc = "idle" /\ ~gone
  /\ object[k] # "none"
  /\ \A s \in Req : ~Confirming(s, k)
  /\ Put(r, [pc |-> "reads", key |-> k, left |-> {"count", "duplicate"},
             ok |-> TRUE, position |-> 0])
  /\ UNCHANGED <<issued, object, photo, deleted, gone>>

\* mutant of CountPhotos: the comparison lets one more in
CountOneMore(r) ==
  /\ req[r].pc = "reads" /\ "count" \in req[r].left
  /\ Put(r, [req[r] EXCEPT !.left = @ \ {"count"}, !.position = Cardinality(Rows),
                           !.ok = @ /\ Cardinality(Rows) <= MaxPhotos])
  /\ UNCHANGED <<issued, object, photo, deleted, gone>>

\* mutant of CountPhotos: the new photo takes the place of the last one
CountFromLast(r) ==
  /\ req[r].pc = "reads" /\ "count" \in req[r].left
  /\ Put(r, [req[r] EXCEPT !.left = @ \ {"count"}, !.position = Cardinality(Rows) - 1,
                           !.ok = @ /\ Cardinality(Rows) < MaxPhotos])
  /\ UNCHANGED <<issued, object, photo, deleted, gone>>

CountPhotos(r) ==
  /\ req[r].pc = "reads" /\ "count" \in req[r].left
  /\ Put(r, [req[r] EXCEPT !.left = @ \ {"count"}, !.position = Cardinality(Rows),
                           !.ok = @ /\ Cardinality(Rows) < MaxPhotos])
  /\ UNCHANGED <<issued, object, photo, deleted, gone>>

FindDuplicate(r) ==
  /\ req[r].pc = "reads" /\ "duplicate" \in req[r].left
  /\ Put(r, [req[r] EXCEPT !.left = @ \ {"duplicate"},
                           !.ok = @ /\ \A i \in Rows : photo[i].key # req[r].key])
  /\ UNCHANGED <<issued, object, photo, deleted, gone>>

Refuse(r) ==
  /\ req[r].pc = "reads" /\ req[r].left = {} /\ ~req[r].ok
  /\ Finish(r)
  /\ UNCHANGED <<issued, object, photo, deleted, gone>>

\* mutant of HeadObject: the answer is not looked at
HeadIgnored(r) ==
  /\ req[r].pc = "reads" /\ req[r].left = {} /\ req[r].ok
  /\ Goto(r, "create")
  /\ UNCHANGED <<issued, object, photo, deleted, gone>>

\* What S3 says of the object decides.
HeadObject(r) ==
  /\ req[r].pc = "reads" /\ req[r].left = {} /\ req[r].ok
  /\ CASE object[req[r].key] = "image" -> Goto(r, "create")
       [] object[req[r].key] = "other" -> Goto(r, "discard")
       [] OTHER -> Finish(r)
  /\ UNCHANGED <<issued, object, photo, deleted, gone>>

\* The invalid file is removed; a failure to do so is ignored.
Discard(r) ==
  /\ req[r].pc = "discard"
  /\ object' \in {object, [object EXCEPT ![req[r].key] = "removed"]}
  /\ Finish(r)
  /\ UNCHANGED <<issued, photo, deleted, gone>>

\* photo.create, which fails if the user is gone.
CreatePhoto(r) ==
  /\ req[r].pc = "create"
  /\ IF gone
     THEN UNCHANGED photo
     ELSE \E i \in Photo \ (Rows \cup deleted) :
            photo' = [photo EXCEPT ![i] = [key |-> req[r].key, position |-> req[r].position]]
  /\ Finish(r)
  /\ UNCHANGED <<issued, object, deleted, gone>>

-----------------------------------------------------------------------------
(* deletePhoto                                                             *)

FindPhoto(r, i) ==
  /\ req[r].pc = "idle"
  /\ i \in Rows
  /\ Put(r, [pc |-> "object", photo |-> i, key |-> photo[i].key])
  /\ UNCHANGED <<issued, object, photo, deleted, gone>>

\* mutant of DeleteObject: an object that is not there is an error
DeleteObjectOnce(r) ==
  /\ req[r].pc = "object" /\ object[req[r].key] # "removed"
  /\ object' = [object EXCEPT ![req[r].key] = "removed"]
  /\ Goto(r, "row")
  /\ UNCHANGED <<issued, photo, deleted, gone>>

\* S3 removes the object, if it is still there, and says so.
DeleteObject(r) ==
  /\ req[r].pc = "object"
  /\ object' = [object EXCEPT ![req[r].key] = "removed"]
  /\ Goto(r, "row")
  /\ UNCHANGED <<issued, photo, deleted, gone>>

\* The call throws and the request ends before the row: S3 may have removed
\* the object all the same, if it was the answer that was lost.
DeleteFails(r) ==
  /\ req[r].pc = "object"
  /\ object' \in {object, [object EXCEPT ![req[r].key] = "removed"]}
  /\ Finish(r)
  /\ UNCHANGED <<issued, photo, deleted, gone>>

\* photo.delete, which fails if the row is gone.
DeleteRow(r) ==
  /\ req[r].pc = "row"
  /\ photo' = [photo EXCEPT ![req[r].photo] = NoRow]
  /\ deleted' = deleted \cup {req[r].photo}
  /\ Finish(r)
  /\ UNCHANGED <<issued, object, gone>>

\* AdminService.deleteUser: the rows go, the objects stay.
DeleteUser ==
  /\ ~gone
  /\ gone' = TRUE
  /\ photo' = [i \in Photo |-> NoRow]
  /\ deleted' = deleted \cup Rows
  /\ UNCHANGED <<issued, object, req>>

-----------------------------------------------------------------------------
Step(r) ==
  \/ CountPhotos(r) \/ FindDuplicate(r) \/ Refuse(r) \/ HeadObject(r)
  \/ Discard(r) \/ CreatePhoto(r) \/ DeleteObject(r) \/ DeleteFails(r) \/ DeleteRow(r)

(* The server dies: the requests are lost, what they have done stays.      *)
Crash ==
  /\ \E r \in Req : req[r] # Idle
  /\ req' = [r \in Req |-> Idle]
  /\ UNCHANGED <<issued, object, photo, deleted, gone>>

Next ==
  \/ \E k \in Key : CreateUploadUrl(k) \/ Upload(k)
  \/ \E r \in Req : Step(r) \/ (\E k \in Key : ConfirmUpload(r, k))
                            \/ (\E i \in Photo : FindPhoto(r, i))
  \/ DeleteUser
  \/ Crash

Spec == Init /\ [][Next]_vars

\* The photos that are shown without a picture.
Broken == {i \in Rows : object[photo[i].key] # "image"}

\* Every statement of a request in flight is answered in the end.  Besides, the
\* user asks for the deletion of a photo that is broken again and again, and
\* neither S3 nor the server fails each time.
PatientSpec ==
  /\ Spec
  /\ \A r \in Req : WF_vars(Step(r))
  /\ \A i \in Photo :
       /\ SF_vars(i \in Broken /\ \E r \in Req : FindPhoto(r, i))
       /\ SF_vars(\E r \in Req : DeleteObject(r) /\ req[r].photo = i)
       /\ SF_vars(\E r \in Req : DeleteRow(r) /\ req[r].photo = i)

-----------------------------------------------------------------------------
(* Properties.                                                             *)

\* Confirmations that may still create a row: their count was below the limit.
Admitted ==
  {r \in Req : \/ req[r].pc = "create"
               \/ req[r].pc = "reads" /\ "count" \notin req[r].left /\ req[r].ok}

(* How far confirmUpload lets a user pass the limit of photos: the count   *)
(* and the insert are two statements, so by one photo less than the        *)
(* requests in flight, however many URLs were given out before.            *)
PhotoBudget == Cardinality(Rows) + Cardinality(Admitted) <= MaxPhotos + Cardinality(Req) - 1

(* A key is confirmed into one row, however often its client reports it.   *)
(* No unique index says so; it rests on the duplicate check and on clients *)
(* that wait for an answer.                                                *)
OneRowPerKey ==
  \A i, j \in Rows : photo[i].key = photo[j].key => i = j

(* A photo comes to be shown without a picture only by a deletion of that  *)
(* photo, whose call of S3 succeeds or fails: no confirmation makes a row  *)
(* for an object that is not there or is no image, and none discards the   *)
(* object of a row, nor does the deletion of another photo.                *)
OnlyDeletionBreaks ==
  [][\A i \in Broken' \ Broken : \E r \in Req : req[r].pc = "object" /\ req[r].photo = i]_vars

(* What a deletion has left without a picture, because the server died     *)
(* before the row or the answer of S3 was lost, can still be deleted:      *)
(* asking again is enough, however many deletions fail that way.           *)
BrokenPhotoGoes ==
  \A i \in Photo : i \in Broken ~> i \notin Rows
=============================================================================
