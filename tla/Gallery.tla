------------------------------- MODULE Gallery ------------------------------
(***************************************************************************)
(* The pictures: the profile photo of an account, the portfolio of a       *)
(* worker, the photos of a request, and the images at Cloudinary they show *)
(* (mobile-users.service.ts, mobile-worker-portfolio.service.ts,           *)
(* mobile-requests.service.ts, mobile.service.ts). No transaction spans    *)
(* the rows and Cloudinary: an image is uploaded before its row, and       *)
(* deleted after it.                                                       *)
(*                                                                         *)
(* Accounts gives the users, their deletion and the edits of the           *)
(* administration, which save the profile photo of an old copy with the    *)
(* rest of the row. The requests are those of one client. A photo that is  *)
(* only an address, of an old app or set by an edit, is nobody's and left  *)
(* out: public_id does not follow it.                                      *)
(***************************************************************************)
EXTENDS Accounts

CONSTANTS
  MaxPhotos,  \* MAX_PHOTOS
  MaxImages,  \* bound: images ever uploaded
  Posts       \* requests of the client

ASSUME GalleryAssumption == MaxPhotos \in Nat /\ MaxImages \in Nat

VARIABLES
  face,        \* users.profile_photo_public_id, 0 for NULL
  album,       \* worker_portfolio_photos
  posted,      \* job_request_photos
  tickets,     \* uploads a comprobante is valid for
  images,      \* what is at Cloudinary
  made,        \* images uploaded so far
  hand, photo, \* the calls in flight
  faceCopy,    \* the photo of the copy in Redis, 0 also without a copy
  kept,        \* the photo of the copy an edit holds, and if it is written
  lost,        \* history: deleted, though the answer of a COMMIT was lost
  twice,       \* history: the comprobante was used for two requests
  revived,     \* history: an edit saved it over another profile photo
  strays       \* history: images nobody will delete

shown    == <<face, album, posted, tickets>>
histVars == <<lost, twice, strays>>
copyVars == <<faceCopy, kept, revived>>
galleryVars == <<shown, images, made, hand, photo, histVars, copyVars>>

Images  == 1..MaxImages
NoPhoto == [usr |-> None, img |-> 0, old |-> 0]
NoFace  == [img |-> 0, differs |-> FALSE]
Hands   == {"idle", "add.upload", "add.save", "face.upload", "face.write",
            "ticket.upload", "unpost.delete", "cleanup"}

GalleryTypeOK ==
  /\ face \in [Users -> 0..MaxImages] /\ album \in [Users -> SUBSET Images]
  /\ posted \in [Posts -> SUBSET Images]
  /\ tickets \subseteq Images /\ images \subseteq Images
  /\ made \in 0..MaxImages
  /\ hand \in [Calls -> Hands]
  /\ photo \in [Calls -> [usr : Users \cup Posts \cup {None},
                          img : 0..MaxImages, old : 0..MaxImages]]
  /\ faceCopy \in [Users -> 0..MaxImages]
  /\ kept \in [Calls -> [img : 0..MaxImages, differs : BOOLEAN]]
  /\ lost \subseteq Images /\ twice \subseteq Images
  /\ revived \subseteq Images /\ strays \subseteq Images

GalleryInit ==
  /\ Init
  /\ face = [u \in Users |-> 0] /\ album = [u \in Users |-> {}]
  /\ posted = [q \in Posts |-> {}]
  /\ tickets = {} /\ images = {} /\ made = 0
  /\ hand = [c \in Calls |-> "idle"] /\ photo = [c \in Calls |-> NoPhoto]
  /\ faceCopy = [u \in Users |-> 0] /\ kept = [c \in Calls |-> NoFace]
  /\ lost = {} /\ twice = {} /\ revived = {} /\ strays = {}

Start(c, h, who, img, old) ==
  /\ hand[c] = "idle"
  /\ hand'  = [hand EXCEPT ![c] = h]
  /\ photo' = [photo EXCEPT ![c] = [usr |-> who, img |-> img, old |-> old]]

\* The call goes on with the image img.
Proceed(c, h, img) ==
  /\ hand'  = [hand EXCEPT ![c] = h]
  /\ photo' = [photo EXCEPT ![c].img = img]

Answer(c) ==
  /\ hand'  = [hand EXCEPT ![c] = "idle"]
  /\ photo' = [photo EXCEPT ![c] = NoPhoto]

-----------------------------------------------------------------------------
(* Cloudinary                                                              *)

AfterUpload(h) ==
  CASE h = "add.upload"  -> "add.save"
    [] h = "face.upload" -> "face.write"
    [] OTHER             -> "idle"

\* uploadBase64Image. The client gets the comprobante with the answer.
Upload(c) ==
  LET next == AfterUpload(hand[c]) IN
  /\ hand[c] \in {"add.upload", "face.upload", "ticket.upload"}
  /\ made < MaxImages
  /\ made'   = made + 1
  /\ images' = images \cup {made'}
  /\ IF next = "idle" THEN Answer(c) /\ tickets' = tickets \cup {made'}
     ELSE Proceed(c, next, made') /\ UNCHANGED tickets
  /\ UNCHANGED <<face, album, posted, histVars>>

\* It fails, or times out with the image stored; nothing was changed yet.
UploadFails(c) ==
  /\ hand[c] \in {"add.upload", "face.upload", "ticket.upload"}
  /\ Answer(c)
  /\ \/ UNCHANGED <<made, images, strays>>
     \/ /\ made < MaxImages
        /\ made'   = made + 1
        /\ images' = images \cup {made'} /\ strays' = strays \cup {made'}
  /\ UNCHANGED <<shown, lost, twice>>

\* deleteImage: also of an image that is gone.
Cleanup(c) ==
  /\ hand[c] = "cleanup"
  /\ Answer(c)
  /\ images' = images \ {photo[c].img}
  /\ UNCHANGED <<shown, made, histVars>>

\* Its failure is logged, or answered; nobody tries again.
CleanupFails(c) ==
  /\ hand[c] = "cleanup"
  /\ Answer(c)
  /\ strays' = strays \cup {photo[c].img}
  /\ UNCHANGED <<shown, images, made, lost, twice>>

-----------------------------------------------------------------------------
(* The portfolio                                                           *)

HasRoom(u) == Cardinality(album[u]) < MaxPhotos

\* add: a first look, before the upload.
AddPhoto(c, u) ==
  /\ SignedIn(u) /\ HasRoom(u)
  /\ Start(c, "add.upload", u, 0, 0)
  /\ UNCHANGED <<shown, images, made, histVars>>

\* The look under the lock of the worker's row.
MayAdd(u) == HasRoom(u)

\* The transaction inserts the row, or throws and has the image deleted.
SaveAdded(c) ==
  LET u == photo[c].usr IN
  /\ hand[c] = "add.save"
  /\ \/ /\ MayAdd(u)
        /\ album' = [album EXCEPT ![u] = @ \cup {photo[c].img}]
        /\ Answer(c)
     \/ Proceed(c, "cleanup", photo[c].img) /\ UNCHANGED album
  /\ UNCHANGED <<face, posted, tickets, images, made, histVars>>

\* It is committed, but the connection breaks before the answer.
SaveUnanswered(c) ==
  LET u == photo[c].usr IN
  /\ hand[c] = "add.save" /\ MayAdd(u)
  /\ album' = [album EXCEPT ![u] = @ \cup {photo[c].img}]
  /\ lost'  = lost \cup {photo[c].img}
  /\ Proceed(c, "cleanup", photo[c].img)
  /\ UNCHANGED <<face, posted, tickets, images, made, twice, strays>>

\* Mutation: the image is left where it is.
AfterRemoval == "idle"

AfterDelete == "cleanup"

\* remove: DELETE ... RETURNING public_id.
RemovePhoto(c, u, i) ==
  /\ SignedIn(u) /\ i \in album[u]
  /\ album' = [album EXCEPT ![u] = @ \ {i}]
  /\ Start(c, AfterDelete, u, i, 0)
  /\ UNCHANGED <<face, posted, tickets, images, made, histVars>>

-----------------------------------------------------------------------------
(* The profile photo                                                       *)

\* uploadProfilePhoto with an image, or with an address; removeProfilePhoto.
\* The row is read first, with the photo to be deleted in the end.
ChangeFace(c, u, h) ==
  /\ SignedIn(u)
  /\ Start(c, h, u, 0, face[u])
  /\ UNCHANGED <<shown, images, made, histVars>>

\* Mutation: with an address, or none, the public_id is not reset.
NewFaceKept(c, u) == IF photo[c].img = 0 THEN face[u] ELSE photo[c].img

NewFace(c, u) == photo[c].img

\* The UPDATE, by id: a photo another call put there meanwhile is a stray.
WriteFace(c) ==
  LET u == photo[c].usr IN
  /\ hand[c] = "face.write"
  /\ face'   = [face EXCEPT ![u] = NewFace(c, u)]
  /\ strays' = strays \cup ({face[u]} \ {0, photo[c].old, NewFace(c, u)})
  /\ IF photo[c].old = 0 THEN Answer(c)
     ELSE Proceed(c, "cleanup", photo[c].old)
  /\ UNCHANGED <<album, posted, tickets, images, made, lost, twice>>

\* The UPDATE fails after the upload.
WriteFaceFails(c) ==
  /\ hand[c] = "face.write"
  /\ Answer(c)
  /\ strays' = strays \cup ({photo[c].img} \ {0})
  /\ UNCHANGED <<shown, images, made, lost, twice>>

-----------------------------------------------------------------------------
(* The photos of a request                                                 *)

\* uploadRequestPhoto, before there is a request.
UploadForRequest(c) ==
  /\ Start(c, "ticket.upload", None, 0, 0)
  /\ UNCHANGED <<shown, images, made, histVars>>

\* createRequest: verifyUploadTicket looks at the signature and the date,
\* not at whether the upload was used, or deleted, before.
CreateRequest(q, S) ==
  /\ posted[q] = {} /\ S # {} /\ S \subseteq tickets
  /\ posted' = [posted EXCEPT ![q] = S]
  /\ twice'  = twice \cup {i \in S : i \notin images \/
                            \E p \in Posts : i \in posted[p]} \cup
               {photo[c].img : c \in {d \in Calls :
                  hand[d] \in {"unpost.delete", "cleanup"}
                    /\ photo[d].img \in S}}
  /\ UNCHANGED <<face, album, tickets, images, made, hand, photo, lost, strays>>

\* deleteRequestPhoto reads the row of the photo.
DeleteRequestPhoto(c, q, i) ==
  /\ i \in posted[q]
  /\ Start(c, "unpost.delete", q, i, 0)
  /\ UNCHANGED <<shown, images, made, histVars>>

\* DELETE by id, and the image, whether or not the row was still there.
UnpostPhoto(c) ==
  LET q == photo[c].usr IN
  /\ hand[c] = "unpost.delete"
  /\ posted' = [posted EXCEPT ![q] = @ \ {photo[c].img}]
  /\ Proceed(c, AfterDelete, photo[c].img)
  /\ UNCHANGED <<face, album, tickets, images, made, histVars>>

\* A day passes: what was not used for a request stays at Cloudinary.
TicketExpires(i) ==
  /\ i \in tickets
  /\ tickets' = tickets \ {i}
  /\ strays'  = strays \cup ({i} \ (UNION {posted[q] : q \in Posts}))
  /\ UNCHANGED <<face, album, posted, images, made, hand, photo, lost, twice>>

-----------------------------------------------------------------------------
(* What becomes of the profile photo in the steps of Accounts              *)

\* anonymize forgets the public_id of the profile photo, and deletes neither
\* its image nor the portfolio.
ForgetFace(u) ==
  /\ face'   = [face EXCEPT ![u] = IF MayErase(u) THEN 0 ELSE @]
  /\ strays' = IF MayErase(u) THEN strays \cup ({face[u]} \ {0}) ELSE strays
  /\ UNCHANGED <<album, posted, tickets, images, made, hand, photo, lost, twice,
                 copyVars>>

\* findOne
ReadFace(c, u) ==
  /\ kept' = [kept EXCEPT ![c].img =
               IF cache[u] = None THEN face[u] ELSE faceCopy[u]]
  /\ UNCHANGED <<shown, images, made, hand, photo, histVars, faceCopy, revived>>

\* Nothing is held on to by an edit that is refused.
FillFace(c) ==
  /\ faceCopy' = [faceCopy EXCEPT ![Usr(c)] = kept[c].img]
  /\ kept' = IF IsEditable(args[c].base, args[c].edit) THEN kept
             ELSE [kept EXCEPT ![c] = NoFace]
  /\ UNCHANGED <<shown, images, made, hand, photo, histVars, revived>>

\* save() loads the row, with the photo of today.
LoadFace(c) ==
  /\ kept' = [kept EXCEPT ![c].differs = kept[c].img # face[Usr(c)]]
  /\ UNCHANGED <<shown, images, made, hand, photo, histVars, faceCopy, revived>>

\* It writes the photo of the copy where that one was another. Nobody deletes
\* the image of the photo that was there.
SaveFace(c) ==
  LET u == Usr(c)
      i == IF kept[c].differs THEN kept[c].img ELSE face[u] IN
  /\ face'    = [face EXCEPT ![u] = i]
  /\ revived' = revived \cup ({i} \ {0, face[u]})
  /\ strays'  = strays \cup ({face[u]} \ {0, i})
  /\ kept'    = [kept EXCEPT ![c] = NoFace]
  /\ UNCHANGED <<album, posted, tickets, images, made, hand, photo, lost, twice,
                 faceCopy>>

\* The copy goes, with what an edit that saved nothing held.
ClearFace(c) ==
  /\ faceCopy' = [faceCopy EXCEPT ![Usr(c)] = 0]
  /\ kept' = [kept EXCEPT ![c] = NoFace]
  /\ UNCHANGED <<shown, images, made, hand, photo, histVars, revived>>

FaceExpires(u) ==
  /\ faceCopy' = [faceCopy EXCEPT ![u] = 0]
  /\ UNCHANGED <<shown, images, made, hand, photo, histVars, kept, revived>>

FacesMove ==
  \/ \E c \in Calls :
       \/ \E u \in Users, e \in Edits : ReadUser(c, u, e) /\ ReadFace(c, u)
       \/ FillCache(c) /\ FillFace(c)
       \/ LoadForSave(c) /\ LoadFace(c)
       \/ WriteSave(c) /\ SaveFace(c)
       \/ ClearCache(c) /\ ClearFace(c)
  \/ \E u \in Users :
       \/ Erase(u) /\ ForgetFace(u)
       \/ CacheExpires(u) /\ FaceExpires(u)

PhotoStep ==
  \/ \E c \in Calls :
       \/ Upload(c) \/ UploadFails(c) \/ Cleanup(c) \/ CleanupFails(c)
       \/ SaveAdded(c) \/ SaveUnanswered(c) \/ WriteFace(c) \/ WriteFaceFails(c)
       \/ UploadForRequest(c) \/ UnpostPhoto(c)
       \/ \E u \in Users :
            \/ AddPhoto(c, u) \/ \E i \in album[u] : RemovePhoto(c, u, i)
            \/ \E h \in {"face.upload", "face.write"} : ChangeFace(c, u, h)
       \/ \E q \in Posts : \E i \in posted[q] : DeleteRequestPhoto(c, q, i)
  \/ \E q \in Posts, S \in SUBSET tickets : CreateRequest(q, S)
  \/ \E i \in tickets : TicketExpires(i)

GalleryNext ==
  \/ AccountMoves /\ UNCHANGED galleryVars
  \/ FacesMove
  \/ PhotoStep /\ UNCHANGED <<vars, copyVars>>

GallerySpec == GalleryInit /\ [][GalleryNext]_<<vars, galleryVars>>

-----------------------------------------------------------------------------
(* Properties                                                              *)

Published ==
  ((UNION {{face[u]} \cup album[u] : u \in Users}) \ {0}) \cup
  UNION {posted[q] : q \in Posts}

\* "Serialize additions per worker so concurrent uploads respect the limit."
\* (MobileWorkerPortfolioService.add)
AlbumWithinLimit == \A u \in Users : Cardinality(album[u]) <= MaxPhotos

\* What is shown is there: calls that replace, remove and add pictures side
\* by side delete no image that a row still names. Three exceptions are the
\* code's: a COMMIT without an answer, a comprobante used again, and a profile
\* photo that an edit brought back with an old copy of the row
\* (uploadProfilePhoto, cleanup, deleteRequestPhoto, verifyUploadTicket, and
\* update in UsersService).
ShownIsThere == Published \ (lost \cup twice \cup revived) \subseteq images

\* No image stays behind at Cloudinary unless its deletion, its upload or
\* its row failed, two calls changed one profile photo, an edit saved an old
\* one over it, the account was erased or the upload was never used (the
\* same, and anonymize).
NoImageStaysBehind ==
  images \subseteq Published \cup tickets \cup strays \cup
                   {photo[c].img : c \in Calls}

\* What is shown of a person is within the limit and at Cloudinary.
PicturesAreKept == AlbumWithinLimit /\ ShownIsThere

\* Only what its user wished to be erased is; no image outlives its row and, of
\* an erased account, nothing but the images does (cleanup, anonymize).
NothingStaysBehind ==
  ErasedAsWished /\ NoImageStaysBehind /\ ErasedLeavesNothing
=============================================================================
