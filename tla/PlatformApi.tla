------------------------------ MODULE PlatformApi ------------------------------
(***************************************************************************)
(* src/api/platform-api.mjs: createPlatformApi(...).handle and the client  *)
(* of src/demo/tokenhost-wrapper.mjs.  A request is answered in the steps  *)
(* its awaits cut it into; requests of one or several clients, to one or   *)
(* several instances of the API, interleave between them.                  *)
(*                                                                         *)
(* The registry adapter is external: one upload per account and key, a     *)
(* duplicate refused with the id of that upload, bytes refused by a closed *)
(* upload; uploads are closed by others, and any answer may be lost.       *)
(*                                                                         *)
(* A body is a content (its hash), a name (its metadata hash) and a size.  *)
(***************************************************************************)
EXTENDS Integers, Sequences, FiniteSets

CONSTANTS
  User, AccountOf,   (* the account the mapper derives from each user      *)
  RawKey, KeyOf,     (* keys as sent, and as normalized; NoKey is absent   *)
  NoKey,
  Routes,            (* the routes that are asked for                      *)
  Body,              (* what a byte upload may carry                       *)
  UploadRequests,    (* what POST /storage/upload-requests may carry       *)
  Instance,          (* isolates or processes that run the API             *)
  Call,              (* requests being answered at a time                  *)
  MaxUploads,        (* bound on the uploads                               *)
  MaxSequence,       (* bound on the keys an instance makes up             *)
  MaxClock           (* bound on the milliseconds                          *)

ASSUME MappingAssumption ==
  KeyOf \in [RawKey -> RawKey] /\ AccountOf \in [User -> User]

ASSUME RoutesAssumption ==
  Routes \subseteq {"tokenHostUpload", "createUpload", "uploadBytes",
                    "uploadStatus", "object", "usage"}

VARIABLES
  uploads,      (* the registry's uploads, by object id                    *)
  calls,        (* the requests                                            *)
  sequence,     (* tokenHostUploadSequence of each instance                *)
  clock,        (* Date.now()                                              *)
  submission    (* the bytes a byte upload handed over in the last step    *)

PAvars == <<uploads, calls, sequence, clock, submission>>

UPLOAD_STATUS_LABELS ==
  <<"None", "Requested", "Uploading", "Committed", "Partial", "Failed",
    "Cancelled", "Expired", "Deleted">>
TERMINAL_UPLOAD_STATUSES ==
  {"Committed", "Partial", "Failed", "Cancelled", "Expired", "Deleted"}

Uploads == DOMAIN uploads
Terminal(o) == uploads[o].status \in TERMINAL_UPLOAD_STATUSES
SettledUploads == {o \in Uploads : Terminal(o)}

Idle == [pc |-> "idle"]

AllPhases == {"create", "read", "submit", "fetch"}

NoSubmission == [object |-> 0]

PAInit ==
  /\ uploads = <<>>
  /\ calls = [c \in Call |-> Idle]
  /\ sequence = [i \in Instance |-> 0]
  /\ clock = 1
  /\ submission = NoSubmission

-----------------------------------------------------------------------------
(* Normalization of requests: the request, or the code of the error *)

NoError == "none"

(* normalizeUploadRequest, in the order of its checks. *)
UploadRequestError(r) ==
  IF r.size < 1                                THEN "invalid_size"
  ELSE IF r.requestedCopies \notin 1..255      THEN "invalid_requestedCopies"
  ELSE IF r.algorithm # "none" THEN "unsupported_content_hash_algorithm"
  ELSE IF r.key = NoKey                        THEN "missing_idempotency_key"
                                               ELSE NoError

(* normalizeTokenHostUploadRequest; a form that is not bytes is an array   *)
(* with other items, or an object with a size.                             *)
BodyError(b) ==
  IF b.form = "badArray"                 THEN "invalid_tokenhost_upload_body"
  ELSE IF b.declared = 0                 THEN "invalid_tokenhost_upload_size"
  ELSE IF b.size = 0                     THEN "empty_tokenhost_upload"
  ELSE IF b.declared \notin {-1, b.size} THEN "invalid_tokenhost_upload_size"
  ELSE IF b.form # "bytes"               THEN "invalid_tokenhost_upload_body"
                                         ELSE NoError

NormalizeUploadRequest(r, account) ==
  [accountId |-> account, key |-> <<"sent", KeyOf[r.key]>>,
   content |-> r.content, metadata |-> r.metadata, size |-> r.size,
   requestedCopies |-> r.requestedCopies, withCDN |-> r.withCDN,
   maxCost |-> r.maxCost]

(* nextTokenHostUploadIdempotencyKey *)
NextKey(i, b) == <<"made", clock, sequence[i] + 1, b.metadata, b.size>>

NormalizeTokenHostUpload(b, key, account) ==
  [accountId |-> account, key |-> key, content |-> b.content,
   metadata |-> b.metadata, size |-> b.size, requestedCopies |-> 2,
   withCDN |-> TRUE, maxCost |-> 0]

ComparedFields ==
  {"size", "content", "metadata", "requestedCopies", "withCDN", "maxCost"}

(* A plausible bug: only what the request costs is compared. *)
DuplicateMatches_shape_only(existing, request) ==
  \A f \in {"size", "requestedCopies", "withCDN", "maxCost"} :
    existing[f] = request[f]

(* assertDuplicateTokenHostRequestMatches *)
DuplicateMatches(existing, request) ==
  \A f \in ComparedFields : existing[f] = request[f]

(* A plausible bug: the labels are numbered from one. *)
NormalizeUploadStatus_from_one(s) ==
  IF s[1] = "index" THEN UPLOAD_STATUS_LABELS[s[2]] ELSE s[2]

(* An adapter reports a status by its label or by the contract's enum. *)
NormalizeUploadStatus(s) ==
  IF s[1] = "index" THEN UPLOAD_STATUS_LABELS[s[2] + 1] ELSE s[2]

ReportedStatuses(status) ==
  {<<"label", status>>,
   <<"index", CHOOSE i \in 0..8 : UPLOAD_STATUS_LABELS[i + 1] = status>>}

-----------------------------------------------------------------------------
(* The adapter, and what a call waits for *)

UploadFor(request) ==
  {o \in Uploads : uploads[o].accountId = request.accountId
                   /\ uploads[o].key = request.key}

RequestedUpload(request) ==
  [f \in DOMAIN request \cup {"status"} |->
     IF f = "status" THEN "Requested" ELSE request[f]]

Owned(c) == /\ calls[c].object \in Uploads
            /\ uploads[calls[c].object].accountId = AccountOf[calls[c].user]

Answer(c, status, code, object) ==
  calls' = [calls EXCEPT ![c] = [@ EXCEPT !.pc = "answered", !.status = status,
                                          !.code = code, !.object = object]]
Goto(c, pc, object) ==
  calls' = [calls EXCEPT ![c] = [@ EXCEPT !.pc = pc, !.object = object]]

(* A call at its first await; settled is what a later step compares with. *)
Begin(c, at, request, pc, object) ==
  calls' = [calls EXCEPT ![c] =
    [user |-> at.user, instance |-> at.instance, route |-> at.route,
     pc |-> pc, request |-> request, object |-> object,
     settled |-> IF at.route = "tokenHostUpload" THEN SettledUploads ELSE {},
     status |-> 0, code |-> NoError]]

(* A request that is refused before the adapter is called. *)
Refused(c, at, status, code) ==
  calls' = [calls EXCEPT ![c] =
    [user |-> at.user, instance |-> at.instance, route |-> at.route,
     pc |-> "answered", request |-> <<>>, object |-> 0,
     settled |-> {}, status |-> status, code |-> code]]

CreateUpload(c, at, r) ==
  IF UploadRequestError(r) # NoError THEN Refused(c, at, 400, UploadRequestError(r))
  ELSE Begin(c, at, NormalizeUploadRequest(r, AccountOf[at.user]), "create", 0)

TokenHostUpload(c, at, b, key) ==
  IF BodyError(b) # NoError
  THEN Refused(c, at, 400, BodyError(b)) /\ UNCHANGED sequence
  ELSE /\ Begin(c, at, NormalizeTokenHostUpload(b,
                 IF key = NoKey THEN NextKey(at.instance, b)
                                ELSE <<"sent", KeyOf[key]>>,
                 AccountOf[at.user]), "create", 0)
       /\ sequence' = [sequence EXCEPT
                         ![at.instance] = IF key = NoKey THEN @ + 1 ELSE @]

(* The other routes; the usage of another account is refused. *)
OtherRoute(c, at) ==
  CASE at.route = "createUpload" -> \E r \in UploadRequests : CreateUpload(c, at, r)
    [] at.route = "uploadBytes" ->
         \E o \in 1..MaxUploads : Begin(c, at, <<>>, "submit", o)
    [] at.route \in {"uploadStatus", "object"} ->
         \E o \in 1..MaxUploads : Begin(c, at, <<>>, "fetch", o)
    [] at.route = "usage" ->
         \E account \in User :
           IF account = AccountOf[at.user] THEN Begin(c, at, <<>>, "fetch", 0)
           ELSE Refused(c, at, 403, "account_mismatch")

Request(c) ==
  /\ calls[c] = Idle
  /\ \E user \in User, i \in Instance, route \in Routes :
       LET at == [user |-> user, instance |-> i, route |-> route]
       IN  IF route = "tokenHostUpload"
           THEN \E b \in Body, key \in RawKey :
                  /\ key = NoKey => sequence[i] < MaxSequence
                  /\ TokenHostUpload(c, at, b, key)
           ELSE OtherRoute(c, at) /\ UNCHANGED sequence
  /\ UNCHANGED <<uploads, clock>>
  /\ submission' = NoSubmission

Created(c) ==
  /\ calls[c].pc = "create" /\ UploadFor(calls[c].request) = {}
  /\ Len(uploads) < MaxUploads
  /\ uploads' = Append(uploads, RequestedUpload(calls[c].request))
  /\ LET o == Len(uploads) + 1
     IN  \/ Answer(c, 500, "internal_error", 0)
         \/ calls[c].route = "createUpload" /\ Answer(c, 201, NoError, o)
         \/ calls[c].route = "tokenHostUpload" /\ Goto(c, "submit", o)
  /\ UNCHANGED <<sequence, clock>>
  /\ submission' = NoSubmission

(* A plausible bug: a byte upload does not resume a duplicate. *)
ResumesDuplicates_never(route) == FALSE

(* createOrResumeTokenHostUpload *)
ResumesDuplicates(route) == route = "tokenHostUpload"

Duplicate(c) ==
  /\ calls[c].pc = "create"
  /\ \E o \in UploadFor(calls[c].request) :
       IF ResumesDuplicates(calls[c].route) THEN Goto(c, "read", o)
       ELSE Answer(c, 409, "duplicate_idempotency_key", o)
  /\ UNCHANGED <<uploads, sequence, clock>>
  /\ submission' = NoSubmission

ReadExisting(c) ==
  /\ calls[c].pc = "read"
  /\ LET o == calls[c].object
     IN  IF ~DuplicateMatches(uploads[o], calls[c].request)
         THEN Answer(c, 409, "duplicate_idempotency_mismatch", o)
         ELSE \E s \in ReportedStatuses(uploads[o].status) :
                IF NormalizeUploadStatus(s) \in TERMINAL_UPLOAD_STATUSES
                THEN Answer(c, 200, NoError, o) ELSE Goto(c, "submit", o)
  /\ UNCHANGED <<uploads, sequence, clock>>
  /\ submission' = NoSubmission

SubmitBytes(c) ==
  /\ calls[c].pc = "submit"
  /\ LET o == calls[c].object
     IN  \/ ~Owned(c) /\ Answer(c, 403, "object_not_owned", o) /\ UNCHANGED uploads
         \/ Owned(c) /\ Terminal(o)
              /\ Answer(c, 409, "terminal_upload", o) /\ UNCHANGED uploads
         \/ /\ Owned(c) /\ ~Terminal(o)
            /\ \E s \in {"Committed", "Partial", "Failed"} :
                 /\ uploads' = [uploads EXCEPT ![o].status = s]
                 /\ \/ Answer(c, 500, "internal_error", o)
                    \/ s \in {"Committed", "Partial"} /\ Answer(c, 200, NoError, o)
  /\ submission' = IF calls[c].route = "tokenHostUpload"
                   THEN [object  |-> calls[c].object,
                         content |-> calls[c].request.content,
                         settled |-> calls[c].settled]
                   ELSE NoSubmission
  /\ UNCHANGED <<sequence, clock>>

(* readUploadStatus, readObject and readUsage of the account. *)
Fetch(c) ==
  /\ calls[c].pc = "fetch"
  /\ IF calls[c].route = "usage" \/ Owned(c)
     THEN Answer(c, 200, NoError, calls[c].object)
     ELSE Answer(c, 403, "object_not_owned", calls[c].object)
  /\ UNCHANGED <<uploads, sequence, clock>>
  /\ submission' = NoSubmission

AdapterFails(c) ==
  /\ calls[c].pc \in AllPhases
  /\ Answer(c, 500, "internal_error", calls[c].object)
  /\ UNCHANGED <<uploads, sequence, clock>>
  /\ submission' = NoSubmission

Answered(c) ==
  /\ calls[c].pc = "answered"
  /\ calls' = [calls EXCEPT ![c] = Idle]
  /\ UNCHANGED <<uploads, sequence, clock>>
  /\ submission' = NoSubmission

(* Others start uploads and close them. *)
UploadMoves ==
  /\ \E o \in Uploads \ SettledUploads, s \in {"Uploading", "Cancelled"} :
       uploads' = [uploads EXCEPT ![o].status = s]
  /\ UNCHANGED <<calls, sequence, clock>>
  /\ submission' = NoSubmission

Millisecond ==
  /\ clock < MaxClock
  /\ clock' = clock + 1
  /\ UNCHANGED <<uploads, calls, sequence>>
  /\ submission' = NoSubmission

(* An instance is started again: its calls are lost with it. *)
Restart(i) ==
  /\ sequence' = [sequence EXCEPT ![i] = 0]
  /\ calls' = [c \in Call |-> IF calls[c] # Idle /\ calls[c].instance = i
                              THEN Idle ELSE calls[c]]
  /\ UNCHANGED <<uploads, clock>>
  /\ submission' = NoSubmission

Handle(c) ==
  Created(c) \/ Duplicate(c) \/ ReadExisting(c) \/ SubmitBytes(c) \/ Fetch(c)
    \/ AdapterFails(c)

PANext ==
  \/ \E c \in Call : Request(c) \/ Handle(c) \/ Answered(c)
  \/ UploadMoves \/ Millisecond
  \/ \E i \in Instance : Restart(i)

PASpec == PAInit /\ [][PANext]_PAvars

-----------------------------------------------------------------------------
(* Correctness *)

\* Whatever keys clients choose, and whatever keys two instances make up in
\* the same millisecond, the bytes a byte upload submits are the bytes the
\* upload was requested for.
SubmittedBodyIsRequested ==
  submission # NoSubmission =>
    uploads[submission.object].content = submission.content

\* A byte upload that is sent again once its upload was settled is answered
\* from the registry: it does not hand the bytes to the coordinator again.
SettledNotSubmittedTo ==
  submission # NoSubmission => submission.object \notin submission.settled

\* Bytes go only where they belong: to the upload that was requested with
\* them, and never to one that was settled before the call came in.
SubmissionsJustified == SubmittedBodyIsRequested /\ SettledNotSubmittedTo

\* A byte upload that is answered with success names an upload of the caller
\* with the content, name, size and shape that was sent, and that is settled,
\* however its requests and those of others interleave.
TokenHostAnswerTrue ==
  \A c \in Call :
    /\ calls[c].pc = "answered" /\ calls[c].route = "tokenHostUpload"
    /\ calls[c].status = 200
    => /\ DOMAIN calls[c].request \subseteq DOMAIN uploads[calls[c].object]
       /\ \A f \in DOMAIN calls[c].request :
            uploads[calls[c].object][f] = calls[c].request[f]
       /\ Terminal(calls[c].object)

\* A byte upload is refused only for a reason the client can act on: its key
\* names an upload that differs from what it sent, or its upload was closed
\* while the call was being answered.  In particular the repetition of one
\* whose answer was lost is never refused as a duplicate.
RefusalsJustified ==
  \A c \in Call :
    /\ calls[c].pc = "answered" /\ calls[c].route = "tokenHostUpload"
    /\ calls[c].request # <<>> /\ calls[c].status \in {403, 409}
    => \/ /\ calls[c].code = "duplicate_idempotency_mismatch"
          /\ \E f \in ComparedFields :
               uploads[calls[c].object][f] # calls[c].request[f]
       \/ /\ calls[c].code = "terminal_upload"
          /\ calls[c].object \in SettledUploads \ calls[c].settled

\* What a byte upload is answered, success or refusal, is so.
TokenHostAnswersTrue == TokenHostAnswerTrue /\ RefusalsJustified
=============================================================================
