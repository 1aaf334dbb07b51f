-------------------------- MODULE PlatformApiProofs --------------------------
(***************************************************************************)
(* Theorems about PlatformApi, for every number of users, keys, instances  *)
(* and concurrent calls, and whatever the bodies carry.                    *)
(*                                                                         *)
(* What a call may rely on is stated of the call's record and of a value   *)
(* of uploads, so that one lemma says that it stays true while others      *)
(* request, start and close uploads.                                       *)
(***************************************************************************)
EXTENDS PlatformApi, SequenceTheorems, TLAPS

CallFields == {"user", "instance", "route", "pc", "request", "object",
               "settled", "status", "code"}
RequestFields == ComparedFields \cup {"accountId", "key"}
UploadFields  == RequestFields \cup {"status"}

IsCall(w) == w = [f \in CallFields |-> w[f]]

IsSequence(s) == \E S : s \in Seq(S)

SettledIn(ups) == {o \in DOMAIN ups : ups[o].status \in TERMINAL_UPLOAD_STATUSES}

\* A request of the account of a user, complete.
Asks(r, user) ==
  /\ r = [f \in RequestFields |-> r[f]]
  /\ r.accountId = AccountOf[user]

Names(ups, o, r) ==
  /\ o \in DOMAIN ups
  /\ ups[o].accountId = r.accountId /\ ups[o].key = r.key

SameAs(ups, o, r) == \A f \in RequestFields : ups[o][f] = r[f]

Differs(ups, o, r) == \E f \in ComparedFields : ups[o][f] # r[f]

UploadsOK(ups) ==
  /\ IsSequence(ups)
  /\ \A o \in DOMAIN ups :
       /\ ups[o] = [f \in UploadFields |-> ups[o][f]]
       /\ ups[o].status \in {UPLOAD_STATUS_LABELS[i] : i \in 1..9}

\* What a call waits for, or was answered, is so of the uploads.
WaitsFor(w, ups) ==
  /\ w.pc = "create" => /\ w.route \in {"tokenHostUpload", "createUpload"}
                        /\ Asks(w.request, w.user)
  /\ w.pc = "read" => /\ w.route = "tokenHostUpload"
                      /\ Asks(w.request, w.user) /\ Names(ups, w.object, w.request)
  /\ w.pc = "submit" /\ w.route = "tokenHostUpload" =>
       /\ Asks(w.request, w.user) /\ Names(ups, w.object, w.request)
       /\ SameAs(ups, w.object, w.request)
       /\ w.object \notin w.settled
  /\ w.pc = "fetch" => w.route # "tokenHostUpload"

AnsweredTruly(w, ups) ==
  w.pc = "answered" /\ w.route = "tokenHostUpload" =>
    /\ w.status = 200 =>
         /\ Asks(w.request, w.user) /\ SameAs(ups, w.object, w.request)
         /\ w.object \in SettledIn(ups)
    /\ w.status \in {403, 409} =>
         \/ /\ w.code = "duplicate_idempotency_mismatch"
            /\ w.object \in DOMAIN ups /\ Differs(ups, w.object, w.request)
         \/ w.code = "terminal_upload" /\ w.object \in SettledIn(ups) \ w.settled

CallOK(w, ups) ==
  \/ w = Idle
  \/ /\ IsCall(w)
     /\ w.pc \in AllPhases \cup {"answered"}
     /\ w.settled \subseteq SettledIn(ups)
     /\ WaitsFor(w, ups)
     /\ AnsweredTruly(w, ups)

CallsOK ==
  /\ calls = [c \in Call |-> calls[c]]
  /\ \A c \in Call : CallOK(calls[c], uploads)

SubmissionOK ==
  submission # NoSubmission =>
    /\ submission.object \in DOMAIN uploads
    /\ uploads[submission.object].content = submission.content
    /\ submission.object \notin submission.settled

ApiInv == UploadsOK(uploads) /\ CallsOK /\ SubmissionOK

-----------------------------------------------------------------------------
(* Sequences *)

LEMMA SequenceAppended ==
  ASSUME NEW s, IsSequence(s), NEW x
  PROVE  /\ IsSequence(Append(s, x))
         /\ DOMAIN s = 1..Len(s) /\ Len(s) \in Nat
         /\ DOMAIN Append(s, x) = DOMAIN s \cup {Len(s) + 1}
         /\ Append(s, x)[Len(s) + 1] = x
         /\ \A i \in DOMAIN s : Append(s, x)[i] = s[i]
<1>1. PICK S : s \in Seq(S)
  BY DEF IsSequence
<1>2. s \in Seq(S \cup {x}) /\ x \in S \cup {x}
  BY <1>1, SeqMonotonic
<1>3. Append(s, x) \in Seq(S \cup {x})
  BY <1>2
<1>4. /\ DOMAIN s = 1..Len(s) /\ Len(s) \in Nat
      /\ DOMAIN Append(s, x) = 1..(Len(s) + 1)
      /\ Append(s, x)[Len(s) + 1] = x
      /\ \A i \in 1..Len(s) : Append(s, x)[i] = s[i]
  BY <1>2
<1>5. 1..(Len(s) + 1) = 1..Len(s) \cup {Len(s) + 1}
  BY <1>4
<1> QED
  BY <1>3, <1>4, <1>5 DEF IsSequence

LEMMA SequenceUpdated ==
  ASSUME NEW s, IsSequence(s), NEW o \in DOMAIN s, NEW x
  PROVE  /\ IsSequence([s EXCEPT ![o] = x])
         /\ DOMAIN [s EXCEPT ![o] = x] = DOMAIN s
         /\ [s EXCEPT ![o] = x][o] = x
         /\ \A i \in DOMAIN s : i # o => [s EXCEPT ![o] = x][i] = s[i]
<1>1. PICK S : s \in Seq(S)
  BY DEF IsSequence
<1>2. s \in Seq(S \cup {x}) /\ x \in S \cup {x}
  BY <1>1, SeqMonotonic
<1>3. DOMAIN s = 1..Len(s)
  BY <1>1
<1>4. [s EXCEPT ![o] = x] \in Seq(S \cup {x})
  BY <1>2, <1>3, ExceptSeq
<1> QED
  BY <1>4 DEF IsSequence

-----------------------------------------------------------------------------
(* Uploads only move forward *)

\* Uploads are added, and change nothing but the status, until it is final.
Grows(ups, after) ==
  /\ DOMAIN ups \subseteq DOMAIN after
  /\ \A o \in DOMAIN ups :
       /\ \A f \in RequestFields : after[o][f] = ups[o][f]
       /\ o \in SettledIn(ups) => after[o].status = ups[o].status

\* A new upload, not final.
LEMMA RequestGrows ==
  ASSUME NEW ups, UploadsOK(ups), NEW r, NEW user, Asks(r, user),
         NEW after, after = Append(ups, RequestedUpload(r))
  PROVE  /\ UploadsOK(after) /\ Grows(ups, after)
         /\ Len(ups) + 1 \notin DOMAIN ups
         /\ Names(after, Len(ups) + 1, r) /\ SameAs(after, Len(ups) + 1, r)
<1> DEFINE u == RequestedUpload(r)
           n == Len(ups) + 1
<1>1. DOMAIN r = RequestFields
  BY DEF Asks
<1>2. u = [f \in UploadFields |-> IF f = "status" THEN "Requested" ELSE r[f]]
  BY <1>1 DEF RequestedUpload, UploadFields
<1>3. u.status = "Requested" /\ \A f \in RequestFields : u[f] = r[f]
  BY <1>2 DEF UploadFields, RequestFields, ComparedFields
<1>4. u = [f \in UploadFields |-> u[f]]
  BY <1>2
<1> HIDE DEF u
<1>5. /\ IsSequence(after) /\ DOMAIN ups = 1..Len(ups) /\ Len(ups) \in Nat
      /\ DOMAIN after = DOMAIN ups \cup {n} /\ after[n] = u
      /\ \A i \in DOMAIN ups : after[i] = ups[i]
  BY SequenceAppended DEF UploadsOK, u
<1>6. "Requested" \in {UPLOAD_STATUS_LABELS[i] : i \in 1..9}
  <2>1. UPLOAD_STATUS_LABELS[2] = "Requested" /\ 2 \in 1..9
    BY DEF UPLOAD_STATUS_LABELS
  <2> QED
    BY <2>1
<1>7. UploadsOK(after)
  BY <1>3, <1>4, <1>5, <1>6 DEF UploadsOK
<1>8. Grows(ups, after)
  BY <1>5 DEF Grows
<1>9. n \notin DOMAIN ups
  BY <1>5
<1>10. Names(after, n, r) /\ SameAs(after, n, r)
  BY <1>3, <1>5 DEF Names, SameAs, RequestFields
<1> QED
  BY <1>7, <1>8, <1>9, <1>10

\* An upload that is not settled changes its status.
Moved(ups, o, s) == [ups EXCEPT ![o].status = s]

LEMMA StatusGrows ==
  ASSUME NEW ups, UploadsOK(ups), NEW o \in DOMAIN ups \ SettledIn(ups),
         NEW s \in {"Uploading", "Cancelled", "Committed", "Partial", "Failed"},
         NEW after, after = Moved(ups, o, s)
  PROVE  UploadsOK(after) /\ Grows(ups, after) /\ after[o].status = s
<1> DEFINE u == [ups[o] EXCEPT !.status = s]
<1>1. after = [ups EXCEPT ![o] = u]
  BY DEF Moved
<1>2. ups[o] = [f \in UploadFields |-> ups[o][f]]
  BY DEF UploadsOK
<1>3. /\ u = [f \in UploadFields |-> u[f]] /\ u.status = s
      /\ \A f \in RequestFields : u[f] = ups[o][f]
  BY <1>2 DEF UploadFields, RequestFields, ComparedFields
<1> HIDE DEF u
<1>4. /\ IsSequence(after) /\ DOMAIN after = DOMAIN ups /\ after[o] = u
      /\ \A i \in DOMAIN ups : i # o => after[i] = ups[i]
  <2>1. IsSequence(ups) /\ o \in DOMAIN ups
    BY DEF UploadsOK
  <2>2. /\ IsSequence([ups EXCEPT ![o] = u])
        /\ DOMAIN [ups EXCEPT ![o] = u] = DOMAIN ups
        /\ [ups EXCEPT ![o] = u][o] = u
        /\ \A i \in DOMAIN ups : i # o => [ups EXCEPT ![o] = u][i] = ups[i]
    BY <2>1, SequenceUpdated
  <2> QED
    BY <1>1, <2>2
<1>5. s \in {UPLOAD_STATUS_LABELS[i] : i \in 1..9}
  <2>1. /\ UPLOAD_STATUS_LABELS[3] = "Uploading" /\ UPLOAD_STATUS_LABELS[4] = "Committed"
        /\ UPLOAD_STATUS_LABELS[5] = "Partial" /\ UPLOAD_STATUS_LABELS[6] = "Failed"
        /\ UPLOAD_STATUS_LABELS[7] = "Cancelled"
    BY DEF UPLOAD_STATUS_LABELS
  <2>2. 3 \in 1..9 /\ 4 \in 1..9 /\ 5 \in 1..9 /\ 6 \in 1..9 /\ 7 \in 1..9
    OBVIOUS
  <2> QED
    BY <2>1, <2>2
<1>6. UploadsOK(after)
  BY <1>3, <1>4, <1>5 DEF UploadsOK
<1>7. Grows(ups, after)
  BY <1>3, <1>4 DEF Grows
<1> QED
  BY <1>3, <1>4, <1>6, <1>7

\* What a call relies on stays so.
LEMMA CallStays ==
  ASSUME NEW ups, NEW after, Grows(ups, after), NEW w, CallOK(w, ups)
  PROVE  CallOK(w, after)
<1>1. CASE w = Idle
  BY <1>1 DEF CallOK
<1>2. CASE w # Idle
  <2>1. /\ IsCall(w) /\ w.pc \in AllPhases \cup {"answered"}
        /\ w.settled \subseteq SettledIn(ups)
        /\ WaitsFor(w, ups) /\ AnsweredTruly(w, ups)
    BY <1>2 DEF CallOK
  <2>2. SettledIn(ups) \subseteq SettledIn(after)
    BY DEF Grows, SettledIn
  <2>3. \A r : \A o \in DOMAIN ups :
          /\ Names(ups, o, r) => Names(after, o, r)
          /\ SameAs(ups, o, r) => SameAs(after, o, r)
          /\ Differs(ups, o, r) => Differs(after, o, r)
    BY DEF Grows, Names, SameAs, Differs, RequestFields
  <2>4. DOMAIN ups \subseteq DOMAIN after /\ SettledIn(ups) \subseteq DOMAIN ups
    BY DEF Grows, SettledIn
  <2>5. WaitsFor(w, after)
    <3>1. \A r : Names(ups, w.object, r) => w.object \in DOMAIN ups
      BY DEF Names
    <3> QED
      BY <2>1, <2>3, <3>1 DEF WaitsFor
  <2>6. AnsweredTruly(w, after)
    BY <2>1, <2>2, <2>3, <2>4 DEF AnsweredTruly
  <2> QED
    BY <2>1, <2>2, <2>5, <2>6 DEF CallOK
<1> QED
  BY <1>1, <1>2

-----------------------------------------------------------------------------
(* Calls *)

\* One call changes; whatever happens to the uploads, the others stay good.
LEMMA OneCallChanges ==
  ASSUME CallsOK, Grows(uploads, uploads'), NEW c \in Call, NEW w,
         calls' = [calls EXCEPT ![c] = w], CallOK(w, uploads')
  PROVE  CallsOK'
<1>1. \A d \in Call : CallOK(calls[d], uploads')
  <2> SUFFICES ASSUME NEW d \in Call PROVE CallOK(calls[d], uploads')
    OBVIOUS
  <2>1. CallOK(calls[d], uploads)
    BY DEF CallsOK
  <2> QED
    BY <2>1, CallStays
<1>2. /\ calls' = [d \in Call |-> calls'[d]] /\ calls'[c] = w
      /\ \A d \in Call \ {c} : calls'[d] = calls[d]
  BY DEF CallsOK
<1> QED
  BY <1>1, <1>2 DEF CallsOK

LEMMA CallsUnchanged ==
  ASSUME CallsOK, Grows(uploads, uploads'), calls' = calls
  PROVE  CallsOK'
<1>1. \A d \in Call : CallOK(calls[d], uploads')
  <2> SUFFICES ASSUME NEW d \in Call PROVE CallOK(calls[d], uploads')
    OBVIOUS
  <2>1. CallOK(calls[d], uploads)
    BY DEF CallsOK
  <2> QED
    BY <2>1, CallStays
<1> QED
  BY <1>1 DEF CallsOK

LEMMA SameUploadsGrow ==
  ASSUME NEW ups PROVE Grows(ups, ups)
BY DEF Grows

\* The record of a call that goes on, and of one that is answered.
GoesOn(w, pc, object) == [w EXCEPT !.pc = pc, !.object = object]
AnsweredWith(w, status, code, object) ==
  [w EXCEPT !.pc = "answered", !.status = status, !.code = code,
            !.object = object]

LEMMA CallGoesOn ==
  ASSUME NEW w, IsCall(w), NEW pc, NEW object, NEW g, g = GoesOn(w, pc, object)
  PROVE  /\ IsCall(g) /\ g.pc = pc /\ g.object = object
         /\ g.route = w.route /\ g.request = w.request /\ g.user = w.user
         /\ g.settled = w.settled
BY DEF IsCall, CallFields, GoesOn

LEMMA CallAnswered ==
  ASSUME NEW w, IsCall(w), NEW status, NEW code, NEW object,
         NEW a, a = AnsweredWith(w, status, code, object)
  PROVE  /\ IsCall(a) /\ a.pc = "answered" /\ a.object = object
         /\ a.status = status /\ a.code = code
         /\ a.route = w.route /\ a.request = w.request /\ a.user = w.user
         /\ a.settled = w.settled
BY DEF IsCall, CallFields, AnsweredWith

\* A call that is under way.
LEMMA CallUnderWay ==
  ASSUME CallsOK, NEW c \in Call, calls[c].pc \in AllPhases \cup {"answered"}
  PROVE  /\ IsCall(calls[c])
         /\ calls[c].settled \subseteq SettledIn(uploads)
         /\ WaitsFor(calls[c], uploads)
         /\ AnsweredTruly(calls[c], uploads)
<1>1. calls[c] # Idle
  BY DEF Idle, AllPhases
<1> QED
  BY <1>1 DEF CallsOK, CallOK

\* An answer that claims nothing about the uploads is always in order.
LEMMA PlainAnswer ==
  ASSUME CallsOK, Grows(uploads, uploads'), NEW c \in Call,
         calls[c].pc \in AllPhases, NEW status, NEW code, NEW object,
         Answer(c, status, code, object),
         calls[c].route = "tokenHostUpload" => status \notin {200, 403, 409}
  PROVE  CallsOK'
<1> DEFINE w == calls[c]
           a == AnsweredWith(w, status, code, object)
<1>1. IsCall(w) /\ w.settled \subseteq SettledIn(uploads)
  BY CallUnderWay
<1>2. calls' = [calls EXCEPT ![c] = a]
  BY DEF Answer, AnsweredWith
<1>3. /\ IsCall(a) /\ a.pc = "answered" /\ a.status = status
      /\ a.route = w.route /\ a.settled = w.settled
  BY <1>1, CallAnswered
<1> HIDE DEF a
<1>4. SettledIn(uploads) \subseteq SettledIn(uploads')
  BY DEF Grows, SettledIn
<1>5. WaitsFor(a, uploads') /\ AnsweredTruly(a, uploads')
  BY <1>3 DEF WaitsFor, AnsweredTruly
<1>6. CallOK(a, uploads')
  BY <1>1, <1>3, <1>4, <1>5 DEF CallOK
<1> QED
  BY <1>2, <1>6, OneCallChanges

\* A call is begun: its first await is to create, or it is another route's.
LEMMA BegunCall ==
  ASSUME ApiInv, uploads' = uploads, NEW c \in Call, NEW at,
         NEW request, NEW pc, NEW object, Begin(c, at, request, pc, object),
         \/ /\ pc = "create" /\ at.route \in {"tokenHostUpload", "createUpload"}
            /\ Asks(request, at.user)
         \/ pc \in {"submit", "fetch"} /\ at.route # "tokenHostUpload"
  PROVE  CallsOK'
<1> DEFINE w == [user |-> at.user, instance |-> at.instance, route |-> at.route,
                 pc |-> pc, request |-> request, object |-> object,
                 settled |-> IF at.route = "tokenHostUpload" THEN SettledUploads
                                                             ELSE {},
                 status |-> 0, code |-> NoError]
<1>1. calls' = [calls EXCEPT ![c] = w]
  BY DEF Begin
<1>2. IsCall(w) /\ w.pc = pc /\ w.route = at.route /\ w.user = at.user
      /\ w.request = request
      /\ w.settled = IF at.route = "tokenHostUpload" THEN SettledUploads ELSE {}
  BY DEF IsCall, CallFields
<1>3. SettledUploads = SettledIn(uploads)
  BY DEF SettledUploads, SettledIn, Terminal, Uploads
<1> HIDE DEF w
<1>4. WaitsFor(w, uploads) /\ AnsweredTruly(w, uploads)
  BY <1>2 DEF WaitsFor, AnsweredTruly
<1>5. CallOK(w, uploads')
  BY <1>2, <1>3, <1>4 DEF CallOK, AllPhases
<1> QED
  BY <1>1, <1>5, SameUploadsGrow, OneCallChanges DEF ApiInv

LEMMA RefusedCall ==
  ASSUME ApiInv, uploads' = uploads, NEW c \in Call, NEW at, NEW status, NEW code,
         Refused(c, at, status, code),
         at.route = "tokenHostUpload" => status = 400
  PROVE  CallsOK'
<1> DEFINE w == [user |-> at.user, instance |-> at.instance, route |-> at.route,
                 pc |-> "answered", request |-> <<>>, object |-> 0,
                 settled |-> {}, status |-> status, code |-> code]
<1>1. calls' = [calls EXCEPT ![c] = w]
  BY DEF Refused
<1>2. IsCall(w) /\ w.pc = "answered" /\ w.route = at.route /\ w.settled = {}
      /\ w.status = status
  BY DEF IsCall, CallFields
<1> HIDE DEF w
<1>3. WaitsFor(w, uploads) /\ AnsweredTruly(w, uploads)
  BY <1>2 DEF WaitsFor, AnsweredTruly
<1>4. CallOK(w, uploads')
  BY <1>2, <1>3 DEF CallOK
<1> QED
  BY <1>1, <1>4, SameUploadsGrow, OneCallChanges DEF ApiInv

\* Both normalizations make complete requests of the caller's account.
LEMMA NormalizedRequests ==
  ASSUME NEW user
  PROVE  /\ \A r : Asks(NormalizeUploadRequest(r, AccountOf[user]), user)
         /\ \A b, key : Asks(NormalizeTokenHostUpload(b, key, AccountOf[user]), user)
BY DEF Asks, NormalizeUploadRequest, NormalizeTokenHostUpload, RequestFields,
       ComparedFields

-----------------------------------------------------------------------------
(* The actions *)

LEMMA ApiInit == PAInit => ApiInv
<1> SUFFICES ASSUME PAInit PROVE ApiInv
  OBVIOUS
<1>1. UploadsOK(uploads)
  <2>1. uploads \in Seq({}) /\ DOMAIN uploads = {}
    BY DEF PAInit
  <2> QED
    BY <2>1 DEF UploadsOK, IsSequence
<1>2. CallsOK
  BY DEF PAInit, CallsOK, CallOK
<1> QED
  BY <1>1, <1>2 DEF PAInit, ApiInv, SubmissionOK

\* A step that submits nothing.
LEMMA NothingSubmitted ==
  ASSUME UploadsOK(uploads'), CallsOK', submission' = NoSubmission
  PROVE  ApiInv'
BY DEF ApiInv, SubmissionOK

LEMMA RequestStep ==
  ASSUME ApiInv, NEW c \in Call, Request(c)
  PROVE  ApiInv'
<1> PICK user \in User, i \in Instance, route \in Routes :
      LET at == [user |-> user, instance |-> i, route |-> route]
      IN  IF route = "tokenHostUpload"
          THEN \E b \in Body, key \in RawKey :
                 /\ key = NoKey => sequence[i] < MaxSequence
                 /\ TokenHostUpload(c, at, b, key)
          ELSE OtherRoute(c, at) /\ UNCHANGED sequence
  BY DEF Request
<1> DEFINE at == [user |-> user, instance |-> i, route |-> route]
<1>1. uploads' = uploads /\ submission' = NoSubmission /\ UploadsOK(uploads)
  BY DEF Request, ApiInv
<1>2. at.user = user /\ at.route = route
  OBVIOUS
<1>3. CallsOK'
  <2>1. CASE route = "tokenHostUpload"
    <3> PICK b \in Body, key \in RawKey : TokenHostUpload(c, at, b, key)
      BY <2>1
    <3> HIDE DEF at
    <3>1. CASE BodyError(b) # NoError
      BY <1>1, <3>1, RefusedCall DEF TokenHostUpload
    <3>2. CASE BodyError(b) = NoError
      <4> DEFINE request == NormalizeTokenHostUpload(b,
                              IF key = NoKey THEN NextKey(at.instance, b)
                                             ELSE <<"sent", KeyOf[key]>>,
                              AccountOf[at.user])
      <4>1. Begin(c, at, request, "create", 0)
        BY <3>2 DEF TokenHostUpload
      <4>2. Asks(request, at.user)
        BY NormalizedRequests
      <4> HIDE DEF request
      <4> QED
        BY <1>1, <1>2, <2>1, <4>1, <4>2, BegunCall
    <3> QED
      BY <3>1, <3>2
  <2>2. CASE route # "tokenHostUpload"
    <3>1. OtherRoute(c, at)
      BY <2>2
    <3> HIDE DEF at
    <3>2. CASE route = "createUpload"
      <4> PICK r \in UploadRequests : CreateUpload(c, at, r)
        BY <1>2, <3>1, <3>2 DEF OtherRoute
      <4>1. CASE UploadRequestError(r) # NoError
        BY <1>1, <1>2, <2>2, <4>1, RefusedCall DEF CreateUpload
      <4>2. CASE UploadRequestError(r) = NoError
        <5> DEFINE request == NormalizeUploadRequest(r, AccountOf[at.user])
        <5>1. Begin(c, at, request, "create", 0)
          BY <4>2 DEF CreateUpload
        <5>2. Asks(request, at.user)
          BY NormalizedRequests
        <5> HIDE DEF request
        <5> QED
          BY <1>1, <1>2, <3>2, <5>1, <5>2, BegunCall
      <4> QED
        BY <4>1, <4>2
    <3>3. CASE route = "uploadBytes"
      <4> PICK o \in 1..MaxUploads : Begin(c, at, <<>>, "submit", o)
        BY <1>2, <3>1, <3>3 DEF OtherRoute
      <4> QED
        BY <1>1, <1>2, <2>2, BegunCall
    <3>4. CASE route \in {"uploadStatus", "object"}
      <4> PICK o \in 1..MaxUploads : Begin(c, at, <<>>, "fetch", o)
        BY <1>2, <3>1, <3>4 DEF OtherRoute
      <4> QED
        BY <1>1, <1>2, <2>2, BegunCall
    <3>5. CASE route = "usage"
      <4> PICK account \in User :
            IF account = AccountOf[at.user] THEN Begin(c, at, <<>>, "fetch", 0)
            ELSE Refused(c, at, 403, "account_mismatch")
        BY <1>2, <3>1, <3>5 DEF OtherRoute
      <4>1. CASE account = AccountOf[at.user]
        BY <1>1, <1>2, <2>2, <4>1, BegunCall
      <4>2. CASE account # AccountOf[at.user]
        BY <1>1, <1>2, <2>2, <4>2, RefusedCall
      <4> QED
        BY <4>1, <4>2
    <3> QED
      BY <2>2, <3>2, <3>3, <3>4, <3>5, RoutesAssumption
  <2> QED
    BY <2>1, <2>2
<1> QED
  BY <1>1, <1>3, NothingSubmitted

LEMMA CreatedStep ==
  ASSUME ApiInv, NEW c \in Call, Created(c)
  PROVE  ApiInv'
<1> DEFINE w == calls[c]
           n == Len(uploads) + 1
<1>1. UploadsOK(uploads) /\ CallsOK /\ w.pc = "create" /\ w.pc \in AllPhases
  BY DEF Created, ApiInv, AllPhases
<1>0. /\ uploads' = Append(uploads, RequestedUpload(w.request))
      /\ submission' = NoSubmission
  BY DEF Created
<1>2. /\ IsCall(w) /\ w.settled \subseteq SettledIn(uploads)
      /\ w.route \in {"tokenHostUpload", "createUpload"} /\ Asks(w.request, w.user)
  BY <1>1, CallUnderWay DEF WaitsFor
<1>3. /\ UploadsOK(uploads') /\ Grows(uploads, uploads')
      /\ n \notin DOMAIN uploads
      /\ Names(uploads', n, w.request) /\ SameAs(uploads', n, w.request)
  BY <1>0, <1>1, <1>2, RequestGrows
<1> HIDE DEF n
<1>4. ASSUME Answer(c, 500, "internal_error", 0) PROVE CallsOK'
  BY <1>1, <1>3, <1>4, PlainAnswer
<1>5. ASSUME w.route = "createUpload", Answer(c, 201, NoError, n) PROVE CallsOK'
  BY <1>1, <1>3, <1>5, PlainAnswer
<1>6. ASSUME w.route = "tokenHostUpload", Goto(c, "submit", n) PROVE CallsOK'
  <2> DEFINE g == GoesOn(w, "submit", n)
  <2>1. calls' = [calls EXCEPT ![c] = g]
    BY <1>6 DEF Goto, GoesOn
  <2>2. /\ IsCall(g) /\ g.pc = "submit" /\ g.object = n
        /\ g.request = w.request /\ g.user = w.user /\ g.settled = w.settled
    BY <1>2, CallGoesOn
  <2> HIDE DEF g
  <2>3. SettledIn(uploads) \subseteq SettledIn(uploads')
        /\ SettledIn(uploads) \subseteq DOMAIN uploads
    BY <1>3 DEF Grows, SettledIn
  <2>4. WaitsFor(g, uploads') /\ AnsweredTruly(g, uploads')
    BY <1>2, <1>3, <2>2, <2>3 DEF WaitsFor, AnsweredTruly
  <2>5. CallOK(g, uploads')
    BY <1>2, <2>2, <2>3, <2>4 DEF CallOK, AllPhases
  <2> QED
    BY <1>1, <1>3, <2>1, <2>5, OneCallChanges
<1>7. CallsOK'
  <2>1. \/ Answer(c, 500, "internal_error", 0)
        \/ w.route = "createUpload" /\ Answer(c, 201, NoError, n)
        \/ w.route = "tokenHostUpload" /\ Goto(c, "submit", n)
    BY DEF Created, n
  <2> QED
    BY <1>4, <1>5, <1>6, <2>1
<1> QED
  BY <1>0, <1>3, <1>7, NothingSubmitted

\* What an adapter reports of an upload's status says whether it is settled.
LEMMA StatusNormalized ==
  ASSUME NEW status \in {UPLOAD_STATUS_LABELS[i] : i \in 1..9},
         NEW s \in ReportedStatuses(status)
  PROVE  NormalizeUploadStatus(s) = status
<1>1. CASE s = <<"label", status>>
  <2>1. s[1] = "label" /\ s[2] = status
    BY <1>1
  <2> QED
    BY <2>1 DEF NormalizeUploadStatus
<1>2. CASE s # <<"label", status>>
  <2> DEFINE i == CHOOSE i \in 0..8 : UPLOAD_STATUS_LABELS[i + 1] = status
  <2>1. s = <<"index", i>>
    BY <1>2 DEF ReportedStatuses
  <2>2. \E j \in 0..8 : UPLOAD_STATUS_LABELS[j + 1] = status
    <3>1. PICK k \in 1..9 : status = UPLOAD_STATUS_LABELS[k]
      OBVIOUS
    <3>2. k - 1 \in 0..8 /\ (k - 1) + 1 = k
      OBVIOUS
    <3> QED
      BY <3>1, <3>2
  <2>3. UPLOAD_STATUS_LABELS[i + 1] = status
    BY <2>2
  <2> HIDE DEF i
  <2>4. s[1] = "index" /\ s[2] = i
    BY <2>1
  <2> QED
    BY <2>3, <2>4 DEF NormalizeUploadStatus
<1> QED
  BY <1>1, <1>2

\* A call goes on, or is answered, while the uploads do not change.
LEMMA DuplicateStep ==
  ASSUME ApiInv, NEW c \in Call, Duplicate(c)
  PROVE  ApiInv'
<1> DEFINE w == calls[c]
<1>1. UploadsOK(uploads) /\ CallsOK /\ w.pc = "create" /\ w.pc \in AllPhases
  BY DEF Duplicate, ApiInv, AllPhases
<1>2. /\ uploads' = uploads /\ submission' = NoSubmission
      /\ Grows(uploads, uploads') /\ UploadsOK(uploads')
  BY <1>1, SameUploadsGrow DEF Duplicate
<1>3. /\ IsCall(w) /\ w.settled \subseteq SettledIn(uploads)
      /\ w.route \in {"tokenHostUpload", "createUpload"} /\ Asks(w.request, w.user)
  BY <1>1, CallUnderWay DEF WaitsFor
<1> PICK o \in UploadFor(w.request) :
      IF ResumesDuplicates(w.route) THEN Goto(c, "read", o)
      ELSE Answer(c, 409, "duplicate_idempotency_key", o)
  BY DEF Duplicate
<1>4. Names(uploads, o, w.request)
  BY DEF UploadFor, Names, Uploads
<1>5. ASSUME w.route # "tokenHostUpload" PROVE CallsOK'
  <2>1. Answer(c, 409, "duplicate_idempotency_key", o)
    BY <1>5 DEF ResumesDuplicates
  <2> QED
    BY <1>1, <1>2, <1>5, <2>1, PlainAnswer
<1>6. ASSUME w.route = "tokenHostUpload" PROVE CallsOK'
  <2> DEFINE g == GoesOn(w, "read", o)
  <2>1. calls' = [calls EXCEPT ![c] = g]
    BY <1>6 DEF ResumesDuplicates, Goto, GoesOn
  <2>2. /\ IsCall(g) /\ g.pc = "read" /\ g.object = o /\ g.route = w.route
        /\ g.request = w.request /\ g.user = w.user /\ g.settled = w.settled
    BY <1>3, CallGoesOn
  <2> HIDE DEF g
  <2>3. WaitsFor(g, uploads) /\ AnsweredTruly(g, uploads)
    BY <1>3, <1>4, <1>6, <2>2 DEF WaitsFor, AnsweredTruly
  <2>4. CallOK(g, uploads')
    BY <1>2, <1>3, <2>2, <2>3 DEF CallOK, AllPhases
  <2> QED
    BY <1>1, <1>2, <2>1, <2>4, OneCallChanges
<1> QED
  BY <1>2, <1>5, <1>6, NothingSubmitted

LEMMA ReadExistingStep ==
  ASSUME ApiInv, NEW c \in Call, ReadExisting(c)
  PROVE  ApiInv'
<1> DEFINE w == calls[c]
           o == w.object
<1>1. UploadsOK(uploads) /\ CallsOK /\ w.pc = "read" /\ w.pc \in AllPhases
  BY DEF ReadExisting, ApiInv, AllPhases
<1>2. /\ uploads' = uploads /\ submission' = NoSubmission
      /\ Grows(uploads, uploads') /\ UploadsOK(uploads')
  BY <1>1, SameUploadsGrow DEF ReadExisting
<1>3. /\ IsCall(w) /\ w.settled \subseteq SettledIn(uploads)
      /\ w.route = "tokenHostUpload" /\ Asks(w.request, w.user)
      /\ Names(uploads, o, w.request)
  BY <1>1, CallUnderWay DEF WaitsFor
<1>4. ASSUME NEW status, NEW code, Answer(c, status, code, o),
             AnsweredTruly(AnsweredWith(w, status, code, o), uploads)
      PROVE  CallsOK'
  <2> DEFINE a == AnsweredWith(w, status, code, o)
  <2>1. calls' = [calls EXCEPT ![c] = a]
    BY <1>4 DEF Answer, AnsweredWith
  <2>2. IsCall(a) /\ a.pc = "answered" /\ a.settled = w.settled
    BY <1>3, CallAnswered
  <2>3. AnsweredTruly(a, uploads)
    BY <1>4
  <2> HIDE DEF a
  <2>4. WaitsFor(a, uploads)
    BY <2>2 DEF WaitsFor
  <2>5. CallOK(a, uploads')
    BY <1>2, <1>3, <2>2, <2>3, <2>4 DEF CallOK
  <2> QED
    BY <1>1, <1>2, <2>1, <2>5, OneCallChanges
<1>5. CASE ~DuplicateMatches(uploads[o], w.request)
  <2> DEFINE a == AnsweredWith(w, 409, "duplicate_idempotency_mismatch", o)
  <2>1. /\ a.object = o /\ a.request = w.request
        /\ a.status = 409 /\ a.code = "duplicate_idempotency_mismatch"
    BY <1>3, CallAnswered
  <2> HIDE DEF a
  <2>2. Differs(uploads, o, w.request)
    BY <1>5 DEF DuplicateMatches, Differs
  <2>3. AnsweredTruly(a, uploads)
    BY <1>3, <2>1, <2>2 DEF AnsweredTruly, Names
  <2>4. Answer(c, 409, "duplicate_idempotency_mismatch", o)
    BY <1>5 DEF ReadExisting
  <2>5. CallsOK'
    BY <1>4, <2>3, <2>4 DEF a
  <2> QED
    BY <1>2, <2>5, NothingSubmitted
<1>6. CASE DuplicateMatches(uploads[o], w.request)
  <2>1. SameAs(uploads, o, w.request)
    BY <1>3, <1>6 DEF DuplicateMatches, SameAs, Names, RequestFields
  <2> PICK s \in ReportedStatuses(uploads[o].status) :
        IF NormalizeUploadStatus(s) \in TERMINAL_UPLOAD_STATUSES
        THEN Answer(c, 200, NoError, o) ELSE Goto(c, "submit", o)
    BY <1>6 DEF ReadExisting
  <2>2. NormalizeUploadStatus(s) = uploads[o].status
    BY <1>1, <1>3, StatusNormalized DEF UploadsOK, Names
  <2>3. CASE o \in SettledIn(uploads)
    <3> DEFINE a == AnsweredWith(w, 200, NoError, o)
    <3>1. /\ a.object = o /\ a.request = w.request /\ a.user = w.user /\ a.status = 200
      BY <1>3, CallAnswered
    <3> HIDE DEF a
    <3>2. AnsweredTruly(a, uploads)
      BY <1>3, <2>1, <2>3, <3>1 DEF AnsweredTruly
    <3>3. Answer(c, 200, NoError, o)
      BY <2>2, <2>3 DEF SettledIn
    <3>4. CallsOK'
      BY <1>4, <3>2, <3>3 DEF a
    <3> QED
      BY <1>2, <3>4, NothingSubmitted
  <2>4. CASE o \notin SettledIn(uploads)
    <3> DEFINE g == GoesOn(w, "submit", o)
    <3>1. Goto(c, "submit", o)
      BY <1>3, <2>2, <2>4 DEF SettledIn, Names
    <3>2. calls' = [calls EXCEPT ![c] = g]
      BY <3>1 DEF Goto, GoesOn
    <3>3. /\ IsCall(g) /\ g.pc = "submit" /\ g.object = o
          /\ g.request = w.request /\ g.user = w.user /\ g.settled = w.settled
      BY <1>3, CallGoesOn
    <3> HIDE DEF g
    <3>4. WaitsFor(g, uploads) /\ AnsweredTruly(g, uploads)
      BY <1>3, <2>1, <2>4, <3>3 DEF WaitsFor, AnsweredTruly
    <3>5. CallOK(g, uploads')
      BY <1>2, <1>3, <3>3, <3>4 DEF CallOK, AllPhases
    <3>6. CallsOK'
      BY <1>1, <1>2, <3>2, <3>5, OneCallChanges
    <3> QED
      BY <1>2, <3>6, NothingSubmitted
  <2> QED
    BY <2>3, <2>4
<1> QED
  BY <1>5, <1>6

LEMMA OwnedUpload ==
  ASSUME NEW c \in Call, calls[c].pc = "submit",
         calls[c].route = "tokenHostUpload", WaitsFor(calls[c], uploads)
  PROVE  Owned(c)
BY DEF WaitsFor, Names, Asks, Owned, Uploads

LEMMA SubmitBytesStep ==
  ASSUME ApiInv, NEW c \in Call, SubmitBytes(c)
  PROVE  ApiInv'
<1> DEFINE w == calls[c]
           o == w.object
<1>1. UploadsOK(uploads) /\ CallsOK /\ w.pc = "submit" /\ w.pc \in AllPhases
  BY DEF SubmitBytes, ApiInv, AllPhases
<1>2. /\ IsCall(w) /\ w.settled \subseteq SettledIn(uploads)
      /\ WaitsFor(w, uploads)
      /\ w.route = "tokenHostUpload" =>
           /\ Asks(w.request, w.user) /\ Names(uploads, o, w.request)
           /\ SameAs(uploads, o, w.request) /\ o \notin w.settled /\ Owned(c)
  BY <1>1, CallUnderWay, OwnedUpload DEF WaitsFor
<1>3. \/ ~Owned(c) /\ Answer(c, 403, "object_not_owned", o) /\ UNCHANGED uploads
      \/ Owned(c) /\ Terminal(o) /\ Answer(c, 409, "terminal_upload", o)
           /\ UNCHANGED uploads
      \/ /\ Owned(c) /\ ~Terminal(o)
         /\ \E s \in {"Committed", "Partial", "Failed"} :
              /\ uploads' = [uploads EXCEPT ![o].status = s]
              /\ \/ Answer(c, 500, "internal_error", o)
                 \/ s \in {"Committed", "Partial"} /\ Answer(c, 200, NoError, o)
  BY DEF SubmitBytes
<1>4. Owned(c) => (o \in DOMAIN uploads /\ (Terminal(o) <=> o \in SettledIn(uploads)))
  BY DEF Owned, Uploads, Terminal, SettledIn
<1>5. ASSUME NEW status, NEW code, Answer(c, status, code, o),
             Grows(uploads, uploads'),
             AnsweredTruly(AnsweredWith(w, status, code, o), uploads')
      PROVE  CallsOK'
  <2> DEFINE a == AnsweredWith(w, status, code, o)
  <2>1. calls' = [calls EXCEPT ![c] = a]
    BY <1>5 DEF Answer, AnsweredWith
  <2>2. IsCall(a) /\ a.pc = "answered" /\ a.settled = w.settled
    BY <1>2, CallAnswered
  <2>3. AnsweredTruly(a, uploads')
    BY <1>5
  <2> HIDE DEF a
  <2>4. WaitsFor(a, uploads')
    BY <2>2 DEF WaitsFor
  <2>5. SettledIn(uploads) \subseteq SettledIn(uploads')
    BY <1>5 DEF Grows, SettledIn
  <2>6. CallOK(a, uploads')
    BY <1>2, <2>2, <2>3, <2>4, <2>5 DEF CallOK
  <2> QED
    BY <1>1, <1>5, <2>1, <2>6, OneCallChanges
<1>6. ASSUME ~Owned(c), Answer(c, 403, "object_not_owned", o), UNCHANGED uploads
      PROVE  UploadsOK(uploads') /\ Grows(uploads, uploads') /\ CallsOK'
  <2>1. w.route # "tokenHostUpload"
    BY <1>2, <1>6
  <2>2. UploadsOK(uploads') /\ Grows(uploads, uploads')
    BY <1>1, <1>6, SameUploadsGrow
  <2> QED
    BY <1>1, <1>6, <2>1, <2>2, PlainAnswer
<1>7. ASSUME Owned(c), Terminal(o), Answer(c, 409, "terminal_upload", o),
             UNCHANGED uploads
      PROVE  UploadsOK(uploads') /\ Grows(uploads, uploads') /\ CallsOK'
  <2> DEFINE a == AnsweredWith(w, 409, "terminal_upload", o)
  <2>1. UploadsOK(uploads') /\ Grows(uploads, uploads')
    BY <1>1, <1>7, SameUploadsGrow
  <2>2. /\ a.object = o /\ a.settled = w.settled /\ a.route = w.route
        /\ a.status = 409 /\ a.code = "terminal_upload"
    BY <1>2, CallAnswered
  <2> HIDE DEF a
  <2>3. o \in SettledIn(uploads')
    BY <1>4, <1>7
  <2>4. AnsweredTruly(a, uploads')
    BY <1>2, <2>2, <2>3 DEF AnsweredTruly
  <2> QED
    BY <1>5, <1>7, <2>1, <2>4 DEF a
<1>8. ASSUME Owned(c), ~Terminal(o), NEW s \in {"Committed", "Partial", "Failed"},
             uploads' = [uploads EXCEPT ![o].status = s],
             \/ Answer(c, 500, "internal_error", o)
             \/ s \in {"Committed", "Partial"} /\ Answer(c, 200, NoError, o)
      PROVE  UploadsOK(uploads') /\ Grows(uploads, uploads') /\ CallsOK'
  <2>1. o \in DOMAIN uploads \ SettledIn(uploads)
    BY <1>4, <1>8
  <2>2. UploadsOK(uploads') /\ Grows(uploads, uploads') /\ uploads'[o].status = s
    <3>1. s \in {"Uploading", "Cancelled", "Committed", "Partial", "Failed"}
      OBVIOUS
    <3>2. uploads' = Moved(uploads, o, s)
      BY <1>8 DEF Moved
    <3> QED
      BY <1>1, <2>1, <3>1, <3>2, StatusGrows
  <2>3. ASSUME Answer(c, 500, "internal_error", o) PROVE CallsOK'
    BY <1>1, <2>2, <2>3, PlainAnswer
  <2>4. ASSUME s \in {"Committed", "Partial"}, Answer(c, 200, NoError, o)
        PROVE  CallsOK'
    <3> DEFINE a == AnsweredWith(w, 200, NoError, o)
    <3>1. /\ a.object = o /\ a.request = w.request /\ a.user = w.user
          /\ a.status = 200 /\ a.route = w.route
      BY <1>2, CallAnswered
    <3> HIDE DEF a
    <3>2. o \in SettledIn(uploads')
      BY <2>1, <2>2, <2>4 DEF SettledIn, Grows, TERMINAL_UPLOAD_STATUSES
    <3>3. SameAs(uploads, o, w.request) => SameAs(uploads', o, w.request)
      BY <2>1, <2>2 DEF SameAs, Grows
    <3>4. AnsweredTruly(a, uploads')
      BY <1>2, <3>1, <3>2, <3>3 DEF AnsweredTruly
    <3> QED
      BY <1>5, <2>2, <2>4, <3>4 DEF a
  <2> QED
    BY <1>8, <2>2, <2>3, <2>4
<1>9. UploadsOK(uploads') /\ Grows(uploads, uploads') /\ CallsOK'
  BY <1>3, <1>6, <1>7, <1>8
<1>10. SubmissionOK'
  <2>1. CASE w.route # "tokenHostUpload"
    BY <2>1 DEF SubmitBytes, SubmissionOK
  <2>2. CASE w.route = "tokenHostUpload"
    <3>1. /\ submission'.object = o /\ submission'.content = w.request.content
          /\ submission'.settled = w.settled
      BY <2>2 DEF SubmitBytes
    <3>2. /\ o \in DOMAIN uploads /\ o \notin w.settled
          /\ uploads[o].content = w.request.content
      BY <1>2, <2>2 DEF Names, SameAs, RequestFields, ComparedFields
    <3>3. o \in DOMAIN uploads' /\ uploads'[o].content = uploads[o].content
      BY <1>9, <3>2 DEF Grows, RequestFields, ComparedFields
    <3> QED
      BY <3>1, <3>2, <3>3 DEF SubmissionOK
  <2> QED
    BY <2>1, <2>2
<1> QED
  BY <1>9, <1>10 DEF ApiInv

\* The reads, and calls the adapter fails or forgets.
LEMMA FetchStep ==
  ASSUME ApiInv, NEW c \in Call, Fetch(c)
  PROVE  ApiInv'
<1>1. /\ UploadsOK(uploads) /\ CallsOK
      /\ calls[c].pc = "fetch" /\ calls[c].pc \in AllPhases
  BY DEF Fetch, ApiInv, AllPhases
<1>2. /\ uploads' = uploads /\ submission' = NoSubmission
      /\ Grows(uploads, uploads') /\ UploadsOK(uploads')
  BY <1>1, SameUploadsGrow DEF Fetch
<1>3. calls[c].route # "tokenHostUpload"
  BY <1>1, CallUnderWay DEF WaitsFor
<1>4. \/ Answer(c, 200, NoError, calls[c].object)
      \/ Answer(c, 403, "object_not_owned", calls[c].object)
  BY DEF Fetch
<1>5. CallsOK'
  BY <1>1, <1>2, <1>3, <1>4, PlainAnswer
<1> QED
  BY <1>2, <1>5, NothingSubmitted

LEMMA AdapterFailsStep ==
  ASSUME ApiInv, NEW c \in Call, AdapterFails(c)
  PROVE  ApiInv'
<1>1. /\ UploadsOK(uploads) /\ CallsOK /\ calls[c].pc \in AllPhases
      /\ Answer(c, 500, "internal_error", calls[c].object)
  BY DEF AdapterFails, ApiInv
<1>2. /\ uploads' = uploads /\ submission' = NoSubmission
      /\ Grows(uploads, uploads') /\ UploadsOK(uploads')
  BY <1>1, SameUploadsGrow DEF AdapterFails
<1>3. CallsOK'
  BY <1>1, <1>2, PlainAnswer
<1> QED
  BY <1>2, <1>3, NothingSubmitted

LEMMA AnsweredStep ==
  ASSUME ApiInv, NEW c \in Call, Answered(c)
  PROVE  ApiInv'
<1>1. UploadsOK(uploads) /\ CallsOK /\ calls' = [calls EXCEPT ![c] = Idle]
  BY DEF Answered, ApiInv
<1>2. /\ uploads' = uploads /\ submission' = NoSubmission
      /\ Grows(uploads, uploads') /\ UploadsOK(uploads')
  BY <1>1, SameUploadsGrow DEF Answered
<1>3. CallOK(Idle, uploads')
  BY DEF CallOK
<1>4. CallsOK'
  BY <1>1, <1>2, <1>3, OneCallChanges
<1> QED
  BY <1>2, <1>4, NothingSubmitted

LEMMA RestartStep ==
  ASSUME ApiInv, NEW i \in Instance, Restart(i)
  PROVE  ApiInv'
<1>1. UploadsOK(uploads) /\ CallsOK
  BY DEF ApiInv
<1>2. /\ uploads' = uploads /\ submission' = NoSubmission /\ UploadsOK(uploads')
      /\ calls' = [c \in Call |-> IF calls[c] # Idle /\ calls[c].instance = i
                                  THEN Idle ELSE calls[c]]
  BY <1>1 DEF Restart
<1>3. \A c \in Call : calls'[c] = Idle \/ calls'[c] = calls[c]
  BY <1>2
<1>4. \A c \in Call : CallOK(calls'[c], uploads')
  BY <1>1, <1>2, <1>3 DEF CallsOK, CallOK
<1>5. calls' = [c \in Call |-> calls'[c]]
  BY <1>2
<1>6. CallsOK'
  BY <1>4, <1>5 DEF CallsOK
<1> QED
  BY <1>2, <1>6, NothingSubmitted

LEMMA ApiStep == ApiInv /\ [PANext]_PAvars => ApiInv'
<1> SUFFICES ASSUME ApiInv, [PANext]_PAvars PROVE ApiInv'
  OBVIOUS
<1>1. ASSUME NEW c \in Call, Handle(c) PROVE ApiInv'
  BY <1>1, CreatedStep, DuplicateStep, ReadExistingStep, SubmitBytesStep,
     FetchStep, AdapterFailsStep
  DEF Handle
<1>2. ASSUME UploadMoves PROVE ApiInv'
  <2>1. UploadsOK(uploads) /\ CallsOK
    BY DEF ApiInv
  <2> PICK o \in Uploads \ SettledUploads, s \in {"Uploading", "Cancelled"} :
        uploads' = [uploads EXCEPT ![o].status = s]
    BY <1>2 DEF UploadMoves
  <2>2. o \in DOMAIN uploads \ SettledIn(uploads)
    BY DEF Uploads, SettledUploads, SettledIn, Terminal
  <2>3. UploadsOK(uploads') /\ Grows(uploads, uploads')
    BY <2>1, <2>2, StatusGrows DEF Moved
  <2>4. CallsOK'
    BY <1>2, <2>1, <2>3, CallsUnchanged DEF UploadMoves
  <2> QED
    BY <1>2, <2>3, <2>4, NothingSubmitted DEF UploadMoves
<1>3. ASSUME UNCHANGED <<uploads, calls>>,
             submission' = NoSubmission \/ submission' = submission
      PROVE  ApiInv'
  BY <1>3 DEF ApiInv, CallsOK, SubmissionOK
<1>4. CASE Millisecond
  BY <1>3, <1>4 DEF Millisecond
<1>5. CASE UNCHANGED PAvars
  BY <1>3, <1>5 DEF PAvars
<1> QED
  BY <1>1, <1>2, <1>4, <1>5, RequestStep, AnsweredStep, RestartStep DEF PANext

-----------------------------------------------------------------------------
(* The properties *)

\* Bytes reach the upload they were requested for, and none that was settled
\* before the call came in, however calls, instances and others interleave.
THEOREM SubmissionsCorrect == PASpec => []SubmissionsJustified
<1>1. ApiInv => SubmissionsJustified
  BY DEF ApiInv, SubmissionOK, SubmissionsJustified, SubmittedBodyIsRequested,
         SettledNotSubmittedTo
<1> QED
  BY <1>1, ApiInit, ApiStep, PTL DEF PASpec

\* What a byte upload is answered is so when it is answered, and stays so.
THEOREM AnswersCorrect == PASpec => []TokenHostAnswersTrue
<1>1. ASSUME ApiInv, NEW c \in Call, calls[c].pc = "answered",
             calls[c].route = "tokenHostUpload", calls[c].status = 200
      PROVE  /\ DOMAIN calls[c].request \subseteq DOMAIN uploads[calls[c].object]
             /\ \A f \in DOMAIN calls[c].request :
                  uploads[calls[c].object][f] = calls[c].request[f]
             /\ Terminal(calls[c].object)
  <2>1. UploadsOK(uploads) /\ AnsweredTruly(calls[c], uploads)
    BY <1>1, CallUnderWay DEF ApiInv
  <2>2. /\ Asks(calls[c].request, calls[c].user)
        /\ SameAs(uploads, calls[c].object, calls[c].request)
        /\ calls[c].object \in SettledIn(uploads)
    BY <1>1, <2>1 DEF AnsweredTruly
  <2>3. DOMAIN calls[c].request = RequestFields
    BY <2>2 DEF Asks
  <2>4. DOMAIN uploads[calls[c].object] = UploadFields
    BY <2>1, <2>2 DEF UploadsOK, SettledIn
  <2> QED
    BY <2>2, <2>3, <2>4 DEF UploadFields, SameAs, SettledIn, Terminal
<1>2. ASSUME ApiInv, NEW c \in Call, calls[c].pc = "answered",
             calls[c].route = "tokenHostUpload", calls[c].status \in {403, 409}
      PROVE  \/ /\ calls[c].code = "duplicate_idempotency_mismatch"
                /\ \E f \in ComparedFields :
                     uploads[calls[c].object][f] # calls[c].request[f]
             \/ /\ calls[c].code = "terminal_upload"
                /\ calls[c].object \in SettledUploads \ calls[c].settled
  <2>1. AnsweredTruly(calls[c], uploads)
    BY <1>2, CallUnderWay DEF ApiInv
  <2>2. SettledUploads = SettledIn(uploads)
    BY DEF SettledUploads, SettledIn, Terminal, Uploads
  <2> QED
    BY <1>2, <2>1, <2>2 DEF AnsweredTruly, Differs
<1>3. ApiInv => TokenHostAnswersTrue
  BY <1>1, <1>2 DEF TokenHostAnswersTrue, TokenHostAnswerTrue, RefusalsJustified
<1> QED
  BY <1>3, ApiInit, ApiStep, PTL DEF PASpec
=============================================================================
