-------------------------------- MODULE Media --------------------------------
(***************************************************************************)
(* The media service (media.service.ts): a row per medium in the database,  *)
(* its file in S3, a flag that makes it private, and rows by which an owner *)
(* gives other users access to his private media. No operation uses a       *)
(* transaction: other requests run between any two of its statements.       *)
(*                                                                          *)
(* The images of messages are stored by the chat gateway with uploadMedia,  *)
(* which sets no media_type; here they exist from the start, with the       *)
(* members of their chats. No code sets a media_type: a medium that has one *)
(* of the message types got it by other means, and getMedia looks at it.    *)
(***************************************************************************)
EXTENDS Rpc

CONSTANTS Users,       \* user ids, of users that exist
          MediaIds,    \* ids of media, each the target of at most one upload
          OldMedia,    \* those that exist at the start
          Owner,       \* the owner of each medium
          ChatMedia,   \* those whose media_type is one of the message types
          Messages,    \* those that a message refers to
          Members      \* the users in the chat of that message

ASSUME MediaAssumption ==
  /\ OldMedia \subseteq MediaIds
  /\ Owner \in [MediaIds -> Users]
  /\ Messages \subseteq MediaIds /\ ChatMedia \subseteq MediaIds
  /\ Members \in [Messages -> SUBSET Users]

VARIABLES rows,    \* the media with a row
          hidden,  \* those of them that are private
          objects, \* the media with a file in S3
          access,  \* <<owner, accessor>> for the rows of media-access
          seen,    \* history: media of a request that have been public while it ran
          trusted  \* history: requests whose user has had access while they ran

mediaVars == <<rows, hidden, objects, access>>
mediaHistory == <<seen, trusted>>

MediaOps == {"uploadMedia", "getMedia", "deleteMedia", "setMediaPrivacy", "editMediaAccess"}

MediaInit ==
  /\ rows = OldMedia
  /\ hidden = {}
  /\ objects = OldMedia
  /\ access = {}
  /\ seen = [r \in Requests |-> {}]
  /\ trusted = {}

MediaTypeOK ==
  /\ rows \subseteq MediaIds /\ hidden \subseteq rows /\ objects \subseteq MediaIds
  /\ access \subseteq Users \X Users
  /\ seen \in [Requests -> SUBSET MediaIds]
  /\ trusted \subseteq Requests

(* The media a request is about.                                            *)
MediaOf(r) ==
  CASE req[r].op = "getMedia" -> {req[r].media}
    [] req[r].op = "createAdv" -> req[r].photos
    [] OTHER -> {}

HasAccess(r) == req[r].op = "getMedia" /\ <<Owner[req[r].media], req[r].user>> \in access

(* The history of a step, from the state it leads to.                       *)
ObserveMedia ==
  /\ seen' = [r \in Requests |->
       IF Running(r)' THEN seen[r] \union (MediaOf(r) \cap (rows \ hidden))' ELSE seen[r]]
  /\ trusted' = trusted \union {r \in Requests : Running(r)' /\ HasAccess(r)'}

(* The handlers of the api controller and of the service's: what the client *)
(* is told of a success.                                                    *)
api_uploadMedia(r, outcome, result) == Finish(r, outcome, 201, result)
api_media(op) == CASE op = "getMedia"        -> 200
                   [] op = "deleteMedia"     -> 204
                   [] op = "setMediaPrivacy" -> 202
                   [] op = "editMediaAccess" -> 202

(* MediaController: the service returns, or what it throws is caught.       *)
MediaController(r, outcome) == Finish(r, outcome, api_media(req[r].op), Nothing)

-----------------------------------------------------------------------------
(* Mutants of the operators below.                                          *)

\* The two users of the access row are taken for each other.
CheckAccessMutant(r) ==
  /\ pc[r] = "access"
  /\ IF <<req[r].user, Owner[req[r].media]>> \in access
     THEN GoOn(r, "member", Nothing)
     ELSE MediaController(r, 406)
  /\ UNCHANGED mediaVars

\* The row goes first, and the file only if nothing fails.
destroyMutant(r) ==
  /\ pc[r] = "destroying"
  /\ MediaController(r, Success)
  /\ UNCHANGED mediaVars

\* The privacy is written with the whole row that was read.
SetPrivacyMutant(r) ==
  /\ pc[r] = "toggling"
  /\ rows' = rows \union {req[r].media}
  /\ hidden' = IF mem[r] THEN hidden \ {req[r].media} ELSE hidden \union {req[r].media}
  /\ MediaController(r, Success)
  /\ UNCHANGED <<objects, access>>

-----------------------------------------------------------------------------
(* uploadMedia: the user exists.                                            *)
uploadMedia(r) ==
  /\ Taken(r, "uploadMedia")
  /\ GoOn(r, "uploading", Nothing)
  /\ UNCHANGED mediaVars

(* The file goes to S3; when the call fails it may still be there.          *)
s3_upload(r) ==
  /\ pc[r] = "uploading"
  /\ \/ objects' = objects \union {req[r].media} /\ GoOn(r, "storing", Nothing)
     \/ /\ objects' \in {objects, objects \union {req[r].media}}
        /\ api_uploadMedia(r, 400, Nothing)
  /\ UNCHANGED <<rows, hidden, access>>

(* The row is created, public; a failure is a 400 as well.                  *)
StoreMedia(r) ==
  /\ pc[r] = "storing"
  /\ \/ rows' = rows \union {req[r].media} /\ api_uploadMedia(r, Success, req[r].media)
     \/ UNCHANGED rows /\ api_uploadMedia(r, 400, Nothing)
  /\ UNCHANGED <<hidden, objects, access>>

(* getMedia reads the row once; what it decides from it is stale when the   *)
(* url is made. The url needs no look at S3.                                *)
getMedia(r) == LET m == req[r].media IN
  /\ Taken(r, "getMedia")
  /\ \/ m \notin rows /\ MediaController(r, 404)
     \/ m \in hidden /\ GoOn(r, "access", Nothing)
     \/ m \in rows \ hidden /\ GoOn(r, "member", Nothing)
  /\ UNCHANGED mediaVars

(* A private medium: its owner is read again, then the row for its user and *)
(* the caller, be he the owner himself. Without the owner the query fails.  *)
CheckAccess(r) ==
  /\ pc[r] = "access"
  /\ \/ req[r].media \notin rows /\ MediaController(r, 500)
     \/ IF <<Owner[req[r].media], req[r].user>> \in access
        THEN GoOn(r, "member", Nothing)
        ELSE MediaController(r, 406)
  /\ UNCHANGED mediaVars

(* If the media_type is a message type, a message must refer to the medium  *)
(* and the caller be in its chat. (The image of a message without that type *)
(* is not looked at.)                                                       *)
CheckMember(r) == LET m == req[r].media IN
  /\ pc[r] = "member"
  /\ \/ m \in ChatMedia \ Messages /\ MediaController(r, 404)
     \/ m \in ChatMedia \cap Messages /\ req[r].user \notin Members[m] /\ MediaController(r, 406)
     \/ (m \in ChatMedia => m \in Messages /\ req[r].user \in Members[m])
        /\ MediaController(r, Success)
  /\ UNCHANGED mediaVars

(* deleteMedia finds the row of the user.                                   *)
deleteMedia(r) ==
  /\ Taken(r, "deleteMedia")
  /\ IF req[r].media \in rows /\ Owner[req[r].media] = req[r].user
     THEN GoOn(r, "deleting", Nothing)
     ELSE MediaController(r, 404)
  /\ UNCHANGED mediaVars

(* The call of S3 fails, whether the file is gone or not; or it succeeds,   *)
(* with a DeleteMarker where the bucket keeps versions. Without one the     *)
(* service stops.                                                           *)
s3_delete(r) ==
  /\ pc[r] = "deleting"
  /\ \/ objects' \in {objects, objects \ {req[r].media}} /\ MediaController(r, 400)
     \/ objects' = objects \ {req[r].media}
        /\ (GoOn(r, "destroying", Nothing) \/ MediaController(r, 500))
  /\ UNCHANGED <<rows, hidden, access>>

(* The row is deleted, or was already. (What refers to it is the subject of *)
(* the modules that extend this one, whose actions include this one.)       *)
destroy(r) ==
  /\ pc[r] = "destroying"
  /\ rows' = rows \ {req[r].media}
  /\ hidden' = hidden \ {req[r].media}
  /\ MediaController(r, Success)
  /\ UNCHANGED <<objects, access>>

(* setMediaPrivacy reads the flag and writes its negation.                  *)
setMediaPrivacy(r) == LET m == req[r].media IN
  /\ Taken(r, "setMediaPrivacy")
  /\ IF m \in rows /\ Owner[m] = req[r].user
     THEN GoOn(r, "toggling", m \in hidden)
     ELSE MediaController(r, 404)
  /\ UNCHANGED mediaVars

SetPrivacy(r) == LET m == req[r].media IN
  /\ pc[r] = "toggling"
  /\ \/ m \notin rows /\ MediaController(r, 500) /\ UNCHANGED hidden
     \/ m \in rows /\ MediaController(r, Success)
        /\ hidden' = IF mem[r] THEN hidden \ {m} ELSE hidden \union {m}
  /\ UNCHANGED <<rows, objects, access>>

(* editMediaAccess. Two calls that find no row may create two; both go when *)
(* access is taken back.                                                    *)
editMediaAccess(r) == LET pair == <<req[r].user, req[r].accessor>> IN
  /\ Taken(r, "editMediaAccess")
  /\ IF req[r].giver
     THEN access' = access \union {pair} /\ MediaController(r, Success)
     ELSE access' = access \ {pair} /\ MediaController(r, IF pair \in access THEN Success ELSE 500)
  /\ UNCHANGED <<rows, hidden, objects>>

(* A statement of the database fails before it has an effect.               *)
MediaFails(r) ==
  /\ Running(r) /\ req[r].op \in MediaOps
  /\ req[r].op # "uploadMedia" \/ pc[r] = "queued"
  /\ Finish(r, 500, 500, Nothing)
  /\ UNCHANGED mediaVars

(* All actions but destroy.                                                 *)
MediaNext(r) ==
  \/ uploadMedia(r) \/ s3_upload(r) \/ StoreMedia(r)
  \/ getMedia(r) \/ CheckAccess(r) \/ CheckMember(r)
  \/ deleteMedia(r) \/ s3_delete(r)
  \/ setMediaPrivacy(r) \/ SetPrivacy(r)
  \/ editMediaAccess(r)
  \/ MediaFails(r)

-----------------------------------------------------------------------------
(* A url is given to a user only if, at some time while the request ran,    *)
(* the medium was public or its owner's media were open to the user, and,   *)
(* if its media_type is a message type, the user is a member of the chat    *)
(* (getMedia, which decides from reads made at different times). That an    *)
(* image has been sent to a chat is not enough for the second part.         *)
UrlOnlyByRight == \A r \in Requests :
  (req[r].op = "getMedia" /\ told[r] = 200) =>
    LET m == req[r].media IN
    /\ m \in seen[r] \/ r \in trusted
    /\ m \in ChatMedia => m \in Messages /\ req[r].user \in Members[m]

(* A row without file, or a file without row, is the work of an upload or a *)
(* delete that is under way, has died, or has told its client of a failure; *)
(* once a delete has been confirmed neither is there again (uploadMedia,    *)
(* deleteMedia, and whatever writes to the row meanwhile).                  *)
StorageAgrees ==
  /\ \A m \in MediaIds : (m \in rows) # (m \in objects) =>
       \E r \in Requests :
         /\ req[r].op \in {"uploadMedia", "deleteMedia"} /\ req[r].media = m
         /\ Running(r) \/ pc[r] = "lost" \/ told[r] \in {400, 500}
  /\ \A r \in Requests : (req[r].op = "deleteMedia" /\ told[r] = 204) =>
       req[r].media \notin rows \union objects
=============================================================================
