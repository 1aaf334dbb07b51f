------------------------ MODULE OperatorScriptsProofs ------------------------
(***************************************************************************)
(* The operator's scripts use the registry like anybody else, so that what *)
(* is proved of the registry holds when they run; and what they promise    *)
(* about uploads and rows holds for any environments, rows, targets and    *)
(* batches, any number of runs, stops and transactions.                    *)
(***************************************************************************)
EXTENDS OperatorScripts, FocPlatformRegistryProofs

-----------------------------------------------------------------------------
(* What the scripts send *)

SetCoordinatorCall == [fn |-> "setCoordinator"]
SetRelayerCall(relayer) == [fn |-> "setRelayer", relayer |-> relayer]

DemoRequest(env) ==
  [fn |-> "requestUpload", params |-> RequestParams(env),
   hashes |-> RequestHashes(env)]
DemoStart(env, o) ==
  [fn |-> "startUpload", id |-> o, hashes |-> RequestHashes(env)]
DemoRecord(env) == [fn |-> "recordDataset", dataset |-> DatasetOf(env)]
DemoFinalize(env, o) ==
  [fn |-> "finalizeUpload", id |-> o, receipt |-> Receipt(env),
   hashes |-> ReceiptHashes(env)]

Row == Seeder!Row

RowRequest(w) ==
  [fn |-> "requestUpload", params |-> Seeder!RowParams(w), row |-> w]
RowStart(w, o) == [fn |-> "startUpload", id |-> o, row |-> w]
RowRecord(w) ==
  [fn |-> "recordDataset", dataset |-> Seeder!RowDataset(w), row |-> w]
RowFinalize(w, o) ==
  [fn |-> "finalizeUpload", id |-> o, receipt |-> Seeder!RowReceipt, row |-> w]

SetupCalls == {SetCoordinatorCall} \cup {SetRelayerCall(r) : r \in RelayerInputs}
DemoCalls ==
  {DemoRequest(env) : env \in Env} \cup {DemoRecord(env) : env \in Env}
    \cup {DemoStart(env, o) : env \in Env, o \in ObjectId}
    \cup {DemoFinalize(env, o) : env \in Env, o \in ObjectId}
RowCalls ==
  {RowRequest(w) : w \in Row} \cup {RowRecord(w) : w \in Row}
    \cup {RowStart(w, o) : w \in Row, o \in ObjectId}
    \cup {RowFinalize(w, o) : w \in Row, o \in ObjectId}
Calls == SetupCalls \cup DemoCalls \cup RowCalls


\* A call is one of these.
LEMMA CallKinds ==
  ASSUME NEW t \in Calls
  PROVE  \/ t = SetCoordinatorCall
         \/ \E r \in RelayerInputs : t = SetRelayerCall(r)
         \/ \E env \in Env : t = DemoRequest(env) \/ t = DemoRecord(env)
         \/ \E env \in Env, o \in ObjectId :
              t = DemoStart(env, o) \/ t = DemoFinalize(env, o)
         \/ \E w \in Row : t = RowRequest(w) \/ t = RowRecord(w)
         \/ \E w \in Row, o \in ObjectId :
              t = RowStart(w, o) \/ t = RowFinalize(w, o)
BY DEF Calls, SetupCalls, DemoCalls, RowCalls

\* Its arguments are inputs of the registry.
LEMMA CallFields ==
  ASSUME NEW t \in Calls
  PROVE  /\ t.fn \in Sendable
         /\ t.fn = "setRelayer" => t.relayer \in RelayerInputs
         /\ t.fn = "requestUpload" => t.params \in Requests
         /\ t.fn \in {"startUpload", "finalizeUpload"} => t.id \in ObjectId
         /\ t.fn = "finalizeUpload" =>
              t.receipt \in Receipts /\ t.receipt.finalizationStatus = "Committed"
         /\ t.fn = "recordDataset" =>
              t.dataset \in DatasetInputs /\ t.dataset.payer = Operator
<1> USE DemoAssumption, RowsAssumption DEF Sendable
<1>1. CASE t = SetCoordinatorCall
  BY <1>1 DEF SetCoordinatorCall
<1>2. ASSUME NEW r \in RelayerInputs, t = SetRelayerCall(r) PROVE t.fn = "setRelayer" /\ t.relayer \in RelayerInputs
  BY <1>2 DEF SetRelayerCall
<1>3. ASSUME NEW env \in Env, t = DemoRequest(env)
      PROVE  t.fn = "requestUpload" /\ t.params \in Requests
  BY <1>3 DEF DemoRequest
<1>4. ASSUME NEW env \in Env, t = DemoRecord(env)
      PROVE  t.fn = "recordDataset" /\ t.dataset \in DatasetInputs /\ t.dataset.payer = Operator
  <2>1. t.fn = "recordDataset" /\ t.dataset = DatasetOf(env)
    BY <1>4 DEF DemoRecord
  <2>2. DatasetOf(env).payer = Operator
    BY DEF DatasetOf
  <2> QED
    BY <2>1, <2>2
<1>5. ASSUME NEW env \in Env, NEW o \in ObjectId, t = DemoStart(env, o)
      PROVE  t.fn = "startUpload" /\ t.id \in ObjectId
  BY <1>5 DEF DemoStart
<1>6. ASSUME NEW env \in Env, NEW o \in ObjectId, t = DemoFinalize(env, o)
      PROVE  /\ t.fn = "finalizeUpload" /\ t.id \in ObjectId /\ t.receipt \in Receipts
             /\ t.receipt.finalizationStatus = "Committed"
  <2>1. t.fn = "finalizeUpload" /\ t.id \in ObjectId /\ t.receipt = Receipt(env)
    BY <1>6 DEF DemoFinalize
  <2>2. Receipt(env).finalizationStatus = "Committed"
    BY DEF Receipt
  <2> QED
    BY <2>1, <2>2
<1>7. ASSUME NEW w \in Row, t = RowRequest(w)
      PROVE  t.fn = "requestUpload" /\ t.params \in Requests
  BY <1>7 DEF RowRequest, Row
<1>8. ASSUME NEW w \in Row, t = RowRecord(w)
      PROVE  t.fn = "recordDataset" /\ t.dataset \in DatasetInputs /\ t.dataset.payer = Operator
  <2>1. t.fn = "recordDataset" /\ t.dataset = Seeder!RowDataset(w)
    BY <1>8 DEF RowRecord
  <2>2. Seeder!RowDataset(w).payer = Operator
    BY DEF Seeder!RowDataset
  <2> QED
    BY <2>1, <2>2 DEF Row
<1>9. ASSUME NEW w \in Row, NEW o \in ObjectId, t = RowStart(w, o)
      PROVE  t.fn = "startUpload" /\ t.id \in ObjectId
  BY <1>9 DEF RowStart
<1>10. ASSUME NEW w \in Row, NEW o \in ObjectId, t = RowFinalize(w, o)
      PROVE  /\ t.fn = "finalizeUpload" /\ t.id \in ObjectId /\ t.receipt \in Receipts
             /\ t.receipt.finalizationStatus = "Committed"
  <2>1. t.fn = "finalizeUpload" /\ t.id \in ObjectId /\ t.receipt = Seeder!RowReceipt
    BY <1>10 DEF RowFinalize
  <2>2. Seeder!RowReceipt.finalizationStatus = "Committed"
    BY DEF Seeder!RowReceipt
  <2> QED
    BY <2>1, <2>2
<1> QED
  BY CallKinds, <1>1, <1>2, <1>3, <1>4, <1>5, <1>6, <1>7, <1>8, <1>9, <1>10

\* What a sent call does is a step of the registry.
LEMMA CallIsRegistryStep ==
  ASSUME NEW t \in Calls, Call(t)
  PROVE  Next
<1>1. /\ Operator \in Address /\ Zero \in Address \cup {Zero}
      /\ Operator \in CoordinatorInputs /\ StandingPolicy \in CoordinatorPolicies
      /\ TRUE \in BOOLEAN
  BY OperatorAssumption, DemoAssumption
<1>2. CASE SetCoordinator(Operator, Operator, StandingPolicy)
  BY <1>1, <1>2, Zenon DEF Next, Administration
<1>3. CASE t.fn = "setRelayer" /\ SetRelayer(Operator, t.relayer, TRUE)
  BY <1>1, <1>3, CallFields, Zenon DEF Next, Administration
<1>4. CASE t.fn = "requestUpload" /\ RequestUpload(Operator, t.params, Zero)
  BY <1>1, <1>4, CallFields, Zenon DEF Next
<1>5. CASE t.fn = "startUpload" /\ StartUpload(Operator, t.id)
  <2>1. t.id \in ObjectId
    BY <1>5, CallFields
  <2> QED
    BY <1>1, <1>5, <2>1, Zenon DEF Next
<1>6. CASE t.fn = "recordDataset" /\ RecordDataset(Operator, t.dataset)
  BY <1>1, <1>6, CallFields, Zenon DEF Next, Administration
<1>7. CASE t.fn = "finalizeUpload" /\ FinalizeUpload(Operator, t.id, t.receipt)
  <2>1. t.id \in ObjectId /\ t.receipt \in Receipts
    BY <1>7, CallFields
  <2> QED
    BY <1>1, <1>7, <2>1, Zenon DEF Next
<1> QED
  BY <1>2, <1>3, <1>4, <1>5, <1>6, <1>7, Zenon DEF Call

-----------------------------------------------------------------------------
(* What a step of the registry cannot undo *)

Rank(status) == Seeder!Rank(status)

LEMMA RankValues ==
  ASSUME NEW status \in UploadStatus
  PROVE  /\ Rank(status) \in 0..3
         /\ Rank(status) = 0 <=> status = "None"
         /\ Rank(status) = 1 <=> status = "Requested"
         /\ Rank(status) = 2 <=> status = "Uploading"
         /\ Rank(status) = 3 <=> Terminal(status)
BY DEF Rank, Seeder!Rank, UploadStatus, FinalizationStatus, Terminal

\* From obj to its successor: the terms stay, the status only moves on, and
\* not at all once the upload is over.
Advances(obj, next) ==
  /\ next.accountId = obj.accountId /\ next.user = obj.user
  /\ next.idempotencyKey = obj.idempotencyKey
  /\ next.size = obj.size /\ next.requestedCopies = obj.requestedCopies
  /\ next.maxCost = obj.maxCost /\ next.reservedCost = obj.reservedCost
  /\ next.requestExpiresAt = obj.requestExpiresAt
  /\ Rank(obj.status) <= Rank(next.status)
  /\ Terminal(obj.status) => next.status = obj.status

UploadsGrow ==
  /\ nextObjectId <= nextObjectId'
  /\ \A o \in ObjectId :
       /\ o < nextObjectId => Advances(objects[o], objects'[o])
       /\ Rank(objects[o].status) <= Rank(objects'[o].status)
  /\ \A a \in Account, k \in IdempotencyKey :
       objectByIdempotencyKey[a][k] # 0 =>
         objectByIdempotencyKey'[a][k] = objectByIdempotencyKey[a][k]

LEMMA SameAdvances ==
  ASSUME NEW obj \in StorageObject
  PROVE  Advances(obj, obj)
<1>1. obj.status \in UploadStatus
  BY DEF StorageObject
<1> QED
  BY <1>1, RankValues DEF Advances

\* An upload that is not over moves on.
LEMMA LiveAdvances ==
  ASSUME NEW obj \in StorageObject, NEW next \in StorageObject, Live(obj.status),
         next.accountId = obj.accountId, next.user = obj.user,
         next.idempotencyKey = obj.idempotencyKey,
         next.size = obj.size, next.requestedCopies = obj.requestedCopies,
         next.maxCost = obj.maxCost, next.reservedCost = obj.reservedCost,
         next.requestExpiresAt = obj.requestExpiresAt,
         \/ obj.status = "Requested" /\ next.status = "Uploading"
         \/ Terminal(next.status)
  PROVE  Advances(obj, next)
<1>1. obj.status \in UploadStatus /\ next.status \in UploadStatus
  BY DEF StorageObject
<1>2. ~Terminal(obj.status)
  BY DEF Live, Terminal, FinalizationStatus
<1>3. Rank(obj.status) <= Rank(next.status)
  BY <1>1, <1>2, RankValues
<1> QED
  BY <1>2, <1>3 DEF Advances

LEMMA UploadsOnlyGrow ==
  ASSUME TypeOK, TypeOK', IndexMatchesStatus, [Next]_vars
  PROVE  UploadsGrow
<1> DEFINE OneMoves(x) ==
             /\ UNCHANGED <<nextObjectId, objectByIdempotencyKey>>
             /\ Advances(objects[x], objects'[x])
             /\ \A o \in ObjectId : o # x => objects'[o] = objects[o]
<1>t. /\ \A o \in ObjectId : objects[o] \in StorageObject /\ objects'[o] \in StorageObject
      /\ \A o \in ObjectId : objects[o].status \in UploadStatus /\ objects'[o].status \in UploadStatus
      /\ nextObjectId \in Nat
      /\ objects \in [ObjectId -> StorageObject]
  <2>1. /\ objects \in [ObjectId -> StorageObject]
        /\ objects' \in [ObjectId -> StorageObject]
        /\ nextObjectId \in Nat
    BY MaxObjectsAssumption DEF TypeOK
  <2>2. \A obj \in StorageObject : obj.status \in UploadStatus
    BY DEF StorageObject
  <2> QED
    BY <2>1, <2>2
<1>m. \A o \in ObjectId : MutableObject(o) => Live(objects[o].status)
  BY LiveIsMutable DEF LiveIds
<1>1. ASSUME NEW x \in ObjectId, OneMoves(x) PROVE UploadsGrow
  <2>1. \A o \in ObjectId : Advances(objects[o], objects'[o])
    BY <1>1, <1>t, SameAdvances
  <2> QED
    BY <1>1, <1>t, <2>1 DEF UploadsGrow, Advances
<1>2. ASSUME UNCHANGED uploadVars PROVE UploadsGrow
  <2>1. UNCHANGED <<nextObjectId, objectByIdempotencyKey, objects>>
    BY <1>2 DEF uploadVars, requestVars
  <2>2. \A o \in ObjectId : Advances(objects[o], objects'[o])
    BY <2>1, <1>t, SameAdvances
  <2> QED
    BY <2>1, <1>t, <2>2 DEF UploadsGrow, Advances
<1>3. ASSUME NEW caller \in Address, NEW p \in Requests, NEW signer \in Address \cup {Zero},
             RequestUpload(caller, p, signer)
      PROVE  UploadsGrow
  <2>1. /\ nextObjectId' = nextObjectId + 1
        /\ objects' = [objects EXCEPT ![nextObjectId] = RequestedObject(p)]
        /\ objectByIdempotencyKey' =
             [objectByIdempotencyKey EXCEPT ![p.accountId][p.idempotencyKey] = nextObjectId]
        /\ objectByIdempotencyKey[p.accountId][p.idempotencyKey] = 0
    BY <1>3 DEF RequestUpload, RequestAccepted, Unclaimed
  <2>2. \A o \in ObjectId : o < nextObjectId => objects'[o] = objects[o]
    BY <2>1, <1>t
  <2>3. \A o \in ObjectId : o < nextObjectId => Advances(objects[o], objects'[o])
    BY <2>2, <1>t, SameAdvances
  <2>4. \A o \in ObjectId : ~(o < nextObjectId) => Rank(objects[o].status) = 0
    BY <1>t, RankValues DEF IndexMatchesStatus, IssuedInOrder, NoObject
  <2>5. \A o \in ObjectId : Rank(objects[o].status) <= Rank(objects'[o].status)
    BY <1>t, <2>3, <2>4, RankValues DEF Advances
  <2>6. \A a \in Account, k \in IdempotencyKey :
          objectByIdempotencyKey[a][k] # 0 =>
            objectByIdempotencyKey'[a][k] = objectByIdempotencyKey[a][k]
    BY <2>1 DEF TypeOK
  <2> QED
    BY <1>t, <2>1, <2>3, <2>5, <2>6 DEF UploadsGrow
<1>4. ASSUME NEW c \in Address, NEW o \in ObjectId, StartUpload(c, o)
      PROVE  UploadsGrow
  <2>1. /\ objects[o].status = "Requested"
        /\ objects' = [objects EXCEPT ![o].status = "Uploading", ![o].coordinator = c]
        /\ UNCHANGED <<nextObjectId, objectByIdempotencyKey>>
    BY <1>4 DEF StartUpload, StartAccepted, requestVars
  <2>2. /\ Live(objects[o].status)
        /\ objects'[o] = [objects[o] EXCEPT !.status = "Uploading", !.coordinator = c]
    BY <1>t, <2>1 DEF Live
  <2>3. Advances(objects[o], objects'[o])
    BY <1>t, <2>1, <2>2, LiveAdvances DEF StorageObject
  <2> QED
    BY <1>1, <1>t, <2>1, <2>3
<1>5. ASSUME NEW c \in Address, NEW o \in ObjectId, NEW r \in Receipts,
             FinalizeUpload(c, o, r)
      PROVE  UploadsGrow
  <2>1. /\ Live(objects[o].status)
        /\ objects' = [objects EXCEPT ![o] = FinalizedObject(objects[o], c, r)]
        /\ UNCHANGED <<nextObjectId, objectByIdempotencyKey>>
    BY <1>5, <1>m DEF FinalizeUpload, ReceiptAccepted, requestVars
  <2>2. Terminal(r.finalizationStatus)
    BY ConstantsAssumption DEF UploadReceipt, Terminal
  <2>3. Advances(objects[o], objects'[o])
    BY <1>t, <2>1, <2>2, LiveAdvances DEF FinalizedObject, StorageObject
  <2> QED
    BY <1>1, <1>t, <2>1, <2>3
<1>6. ASSUME NEW c \in Address, NEW o \in ObjectId, NEW charge \in FailureCharges,
             FailUpload(c, o, charge)
      PROVE  UploadsGrow
  <2>1. /\ Live(objects[o].status)
        /\ objects' = [objects EXCEPT ![o] = [objects[o] EXCEPT !.status = "Failed", !.coordinator = c,
                          !.actualCost = charge]]
        /\ UNCHANGED <<nextObjectId, objectByIdempotencyKey>>
    BY <1>6, <1>m DEF FailUpload, requestVars
  <2>2. Terminal("Failed")
    BY DEF Terminal, FinalizationStatus
  <2>3. Advances(objects[o], objects'[o])
    BY <1>t, <2>1, <2>2, LiveAdvances DEF StorageObject
  <2> QED
    BY <1>1, <1>t, <2>1, <2>3
<1>7. ASSUME NEW o \in ObjectId, NEW status \in {"Cancelled", "Expired"},
             MutableObject(o), CloseUnsettled(o, status)
      PROVE  UploadsGrow
  <2>1. /\ Live(objects[o].status)
        /\ objects' = [objects EXCEPT ![o].status = status]
        /\ UNCHANGED <<nextObjectId, objectByIdempotencyKey>>
    BY <1>7, <1>m DEF CloseUnsettled, requestVars
  <2>2. Terminal(status)
    BY DEF Terminal
  <2>3. Advances(objects[o], objects'[o])
    BY <1>t, <2>1, <2>2, LiveAdvances DEF StorageObject
  <2> QED
    BY <1>1, <1>t, <2>1, <2>3
<1>8. CASE UNCHANGED vars
  BY <1>2, <1>8 DEF vars
<1> QED
  BY <1>2, <1>3, <1>4, <1>5, <1>6, <1>7, <1>8
  DEF Next, Administration, CancelUpload, ExpireUpload, Tick, TransferOwnership, SetPolicy,
      SetCoordinator, SetRelayer, RecordDataset

RolesGrow ==
  /\ owner' = owner /\ policy' = policy /\ now <= now'
  /\ coordinatorPolicies[Operator] = StandingPolicy =>
       coordinatorPolicies'[Operator] = StandingPolicy
  /\ relayers \subseteq relayers'
  /\ \A a \in Account, d \in Dataset :
       /\ datasets[a][d].payer = Operator => datasets'[a][d].payer = Operator
       /\ datasets[a][d].updatedAt # 0 => datasets'[a][d].updatedAt # 0

\* The steps of the registry that happen while the scripts run.
ChainStep ==
  \/ UNCHANGED vars
  \/ Tick
  \/ \E o \in ObjectId : ExpireUpload(o) \/ CancelUpload(owner, o)
  \/ \E t \in Calls : Call(t)

LEMMA ChainIsRegistry ==
  ASSUME TypeOK, ChainStep
  PROVE  [Next]_vars
<1>1. owner \in Address
  BY DEF TypeOK
<1>2. CASE Tick
  BY <1>2, Zenon DEF Next
<1>3. CASE \E o \in ObjectId : ExpireUpload(o) \/ CancelUpload(owner, o)
  BY <1>1, <1>3, Zenon DEF Next
<1>4. CASE \E t \in Calls : Call(t)
  BY <1>4, CallIsRegistryStep
<1> QED
  BY <1>2, <1>3, <1>4, Zenon DEF ChainStep

LEMMA RolesOnlyGrow ==
  ASSUME TypeOK, now > 0, ChainStep
  PROVE  RolesGrow
<1> DEFINE RolesKept == UNCHANGED <<owner, policy, coordinatorPolicies, relayers, datasets>>
<1>t. now \in Nat
  BY DEF TypeOK
<1>1. ASSUME RolesKept, now' = now \/ now' = now + 1 PROVE RolesGrow
  BY <1>1, <1>t DEF RolesGrow
<1>2. CASE UNCHANGED vars
  BY <1>1, <1>2, <1>t DEF vars, adminVars, datasetVars
<1>3. CASE Tick
  BY <1>1, <1>3, <1>t DEF Tick, adminVars, datasetVars
<1>4. ASSUME NEW o \in ObjectId, ExpireUpload(o) \/ CancelUpload(owner, o)
      PROVE  RolesGrow
  BY <1>1, <1>4, <1>t DEF ExpireUpload, CancelUpload, CloseUnsettled, adminVars, datasetVars
<1>5. ASSUME NEW t \in Calls, Call(t) PROVE RolesGrow
  <2>1. CASE SetCoordinator(Operator, Operator, StandingPolicy)
    BY <2>1, <1>t, OperatorAssumption DEF SetCoordinator, RolesGrow, datasetVars, TypeOK
  <2>2. CASE SetRelayer(Operator, t.relayer, TRUE)
    BY <2>2, <1>t DEF SetRelayer, RolesGrow, datasetVars
  <2>3. CASE RequestUpload(Operator, t.params, Zero)
    BY <1>1, <2>3, <1>t DEF RequestUpload, adminVars, datasetVars
  <2>4. CASE StartUpload(Operator, t.id)
    BY <1>1, <2>4, <1>t DEF StartUpload, adminVars, datasetVars
  <2>5. CASE FinalizeUpload(Operator, t.id, t.receipt)
    BY <1>1, <2>5, <1>t DEF FinalizeUpload, adminVars, datasetVars
  <2>6. CASE t.fn = "recordDataset" /\ RecordDataset(Operator, t.dataset)
    <3>1. t.dataset.payer = Operator
      BY <2>6, CallFields
    <3>2. \A a \in Account, d \in Dataset :
             \/ datasets'[a][d] = datasets[a][d]
             \/ datasets'[a][d].payer = Operator /\ datasets'[a][d].updatedAt = now
      BY <2>6, <3>1 DEF RecordDataset, TypeOK
    <3>3. UNCHANGED <<owner, policy, coordinatorPolicies, relayers, now>>
      BY <2>6 DEF RecordDataset, adminVars
    <3> QED
      BY <3>2, <3>3, <1>t DEF RolesGrow
  <2> QED
    BY <1>5, <2>1, <2>2, <2>3, <2>4, <2>5, <2>6, Zenon DEF Call
<1> QED
  BY <1>2, <1>3, <1>4, <1>5, Zenon DEF ChainStep

-----------------------------------------------------------------------------
(* The state of the scripts *)

Prints == {<<>>} \cup {RequestHashes(env) : env \in Env}
                 \cup {ReceiptHashes(env) : env \in Env}
Details == [request : Prints, receipt : Prints]

\* Where a run of the demo has an upload.
AtUpload ==
  {"start", "started", "settle", "recorded", "finalize", "merge", "write", "writing"}

\* Where it has merged what it knows with the file.
Writes == {"write", "writing"}

RunState ==
  [pc : AtUpload \cup {"idle", "coordinator", "relayer", "request", "object"},
   env : Env \cup {<<>>}, id : NodeId, seen : UploadStatus, waiting : Nat,
   hashes : [Sendable -> Nat]]

EvidenceFile ==
  [id : NodeId, env : Env \cup {<<>>}, hashes : [Sendable -> Nat]]

Reading == [id : NodeId, status : UploadStatus]

SeederState ==
  [pc : {"idle", "coordinator", "relayer", "read", "created", "starting",
         "started", "finalizing"},
   targets : [Row -> UploadStatus], row : Nat, seen : [Row -> Reading],
   plans : Seq(Calls), awaiting : SUBSET Nat,
   sentAny : BOOLEAN, settled : BOOLEAN]

PoolTypes ==
  /\ sent \in Seq(Calls) /\ outcome \in Seq(BOOLEAN)
  /\ Len(outcome) <= Len(sent)

ScriptTypes ==
  /\ PoolTypes
  /\ details \in [ObjectId -> Details]
  /\ run \in [Run -> RunState]
  /\ evidence \in EvidenceFile
  /\ giveUps \in Nat
  /\ seeder \in SeederState
  /\ summary \in [Row -> UploadStatus]
  /\ asked \in [Row -> UploadStatus]

Registry == /\ TypeOK /\ IndexMatchesStatus /\ IdempotencyKeyNamesOneUpload
            /\ ListsExact

\* The upload was requested by this environment.
Own(env, o) == o \in ObjectId /\ RequestMatches(env, o)

\* The upload is the row's.
OwnRow(w, o) == o \in ObjectId /\ Seeder!ObjectOf(w) = o

\* What entitles a script to a call.
Warranted(t) ==
  \/ t \in SetupCalls
  \/ \E env \in Env : t = DemoRequest(env) \/ t = DemoRecord(env)
  \/ \E env \in Env, o \in ObjectId :
       (t = DemoStart(env, o) \/ t = DemoFinalize(env, o)) /\ Own(env, o)
  \/ \E w \in Row : t = RowRequest(w) \/ t = RowRecord(w)
  \/ \E w \in Row, o \in ObjectId :
       /\ OwnRow(w, o)
       /\ \/ t = RowStart(w, o) /\ Rank(asked[w]) >= 2
          \/ t = RowFinalize(w, o) /\ Rank(asked[w]) >= 3

RunOK(s) ==
  /\ s.pc = "idle" => s = Idle
  /\ s.pc # "idle" => s.env \in Env
  /\ s.id # 0 => s.env \in Env /\ Own(s.env, s.id)
  /\ s.pc \in AtUpload => s.id # 0

SeederFit(s) ==
  /\ s.pc = "idle" => s = Seeder!Idle
  /\ s.pc \in {"read", "created", "started"} => s.row >= 1
  /\ \A i \in DOMAIN s.plans : Warranted(s.plans[i])
  /\ \A w \in Row :
       /\ s.seen[w].id = 0 => s.seen[w].status = "None"
       /\ s.seen[w].id # 0 => OwnRow(w, s.seen[w].id)
       /\ s.pc # "idle" => Rank(s.targets[w]) <= Rank(asked[w])

SeederOK == SeederFit(seeder)

Base ==
  /\ Registry /\ ScriptTypes
  /\ \A h \in DOMAIN sent : Warranted(sent[h])
  /\ \A r \in Run : RunOK(run[r])
  /\ SeederOK

LEMMA BaseInit == ScriptsInit => Base
<1> SUFFICES ASSUME ScriptsInit PROVE Base
  OBVIOUS
<1>1. Init
  BY DEF ScriptsInit, DemoInit, PoolInit
<1>2. Registry
  BY <1>1, TypeInit, IndexInit, IdempotencyInit, ListsInit DEF Registry
<1>3. /\ sent = <<>> /\ outcome = <<>>
      /\ details = [o \in ObjectId |-> NoDetails]
      /\ run = [r \in Run |-> Idle]
      /\ evidence = NoEvidence /\ giveUps = 0
      /\ seeder = Seeder!Idle /\ summary = Seeder!NoSummary /\ asked = Seeder!NoSummary
  BY DEF ScriptsInit, DemoInit, PoolInit, Seeder!SeedInit
<1>4. "None" \in UploadStatus /\ 0 \in NodeId
  BY MaxObjectsAssumption DEF UploadStatus, NodeId
<1>5. NoDetails \in Details
  BY DEF NoDetails, Details, Prints
<1>6. NoHashes \in [Sendable -> Nat]
  BY DEF NoHashes
<1>7. Idle \in RunState /\ Idle.pc = "idle" /\ Idle.id = 0
  BY <1>4, <1>6 DEF Idle, RunState
<1>8. NoEvidence \in EvidenceFile
  BY <1>4, <1>6 DEF NoEvidence, EvidenceFile
<1>9. Seeder!NoSummary \in [Row -> UploadStatus]
  BY <1>4 DEF Seeder!NoSummary, Row
<1>10. /\ Seeder!NothingSeen \in [Row -> Reading]
       /\ \A w \in Row : Seeder!NothingSeen[w] = [id |-> 0, status |-> "None"]
  BY <1>4 DEF Seeder!NothingSeen, Row, Reading
<1>11. /\ Seeder!Idle \in SeederState /\ Seeder!Idle.pc = "idle"
       /\ Seeder!Idle.plans = <<>> /\ Seeder!Idle.seen = Seeder!NothingSeen
  BY <1>9, <1>10 DEF Seeder!Idle, SeederState
<1>12. ScriptTypes
  <2>1. PoolTypes
    BY <1>3 DEF PoolTypes
  <2> QED
    BY <1>3, <1>5, <1>7, <1>8, <1>9, <1>11, <2>1 DEF ScriptTypes
<1>13. \A r \in Run : RunOK(run[r])
  BY <1>3, <1>7 DEF RunOK, AtUpload
<1>14. SeederOK
  BY <1>3, <1>10, <1>11 DEF SeederOK, SeederFit
<1> QED
  BY <1>2, <1>3, <1>12, <1>13, <1>14 DEF Base

-----------------------------------------------------------------------------
(* What a step of the scripts cannot undo *)

DetailsGrow ==
  \A o \in ObjectId : o < nextObjectId => details'[o].request = details[o].request

AskedGrow == \A w \in Row : Rank(asked[w]) <= Rank(asked'[w])

PoolGrows ==
  /\ \A h \in DOMAIN sent : h \in DOMAIN sent' /\ sent'[h] = sent[h]
  /\ \A h \in DOMAIN outcome : h \in DOMAIN outcome' /\ outcome'[h] = outcome[h]

Grows == UploadsGrow /\ RolesGrow /\ DetailsGrow /\ AskedGrow /\ PoolGrows

LEMMA IssuedIfUsed ==
  ASSUME Registry, NEW o \in ObjectId, objects[o].accountId # Zero
  PROVE  o < nextObjectId
BY DEF Registry, IndexMatchesStatus, IssuedInOrder, NoObject

LEMMA OwnKept ==
  ASSUME Registry, UploadsGrow, DetailsGrow, NEW env, NEW o, Own(env, o)
  PROVE  Own(env, o)'
<1>1. /\ o \in ObjectId /\ o # 0
      /\ objects[o].accountId = DemoAccount /\ objects[o].user = Operator
      /\ objects[o].idempotencyKey = env.piece
      /\ details[o].request = RequestHashes(env)
  BY DEF Own, RequestMatches
<1>2. o < nextObjectId
  BY <1>1, IssuedIfUsed, DemoAssumption, ConstantsAssumption
<1>3. Advances(objects[o], objects'[o]) /\ details'[o].request = details[o].request
  BY <1>1, <1>2 DEF UploadsGrow, DetailsGrow
<1> QED
  BY <1>1, <1>3 DEF Own, RequestMatches, Advances

LEMMA OwnRowKept ==
  ASSUME UploadsGrow, NEW w \in Row, NEW o, OwnRow(w, o)
  PROVE  OwnRow(w, o)'
<1>1. o # 0 /\ RowAccount[w] \in Account /\ RowKey[w] \in IdempotencyKey
  BY RowsAssumption DEF OwnRow, Row, ObjectId
<1> QED
  BY <1>1 DEF OwnRow, UploadsGrow, Seeder!ObjectOf

LEMMA WarrantKept ==
  ASSUME Registry, ScriptTypes, ScriptTypes', UploadsGrow, DetailsGrow, AskedGrow,
         NEW t, Warranted(t)
  PROVE  Warranted(t)'
<1>1. \A w \in Row : Rank(asked[w]) \in Nat /\ Rank(asked'[w]) \in Nat
  <2>1. \A w \in Row : asked[w] \in UploadStatus /\ asked'[w] \in UploadStatus
    BY DEF ScriptTypes
  <2> QED
    BY <2>1, RankValues
<1>2. ASSUME NEW env \in Env, NEW o \in ObjectId,
             t = DemoStart(env, o) \/ t = DemoFinalize(env, o), Own(env, o)
      PROVE  Warranted(t)'
  BY <1>2, OwnKept DEF Warranted
<1>3. ASSUME NEW w \in Row, NEW o \in ObjectId, OwnRow(w, o),
             \/ t = RowStart(w, o) /\ Rank(asked[w]) >= 2
             \/ t = RowFinalize(w, o) /\ Rank(asked[w]) >= 3
      PROVE  Warranted(t)'
  <2>1. OwnRow(w, o)'
    BY <1>3, OwnRowKept
  <2>2. Rank(asked[w]) <= Rank(asked'[w])
    BY DEF AskedGrow
  <2>3. \/ t = RowStart(w, o) /\ Rank(asked'[w]) >= 2
        \/ t = RowFinalize(w, o) /\ Rank(asked'[w]) >= 3
    BY <1>1, <1>3, <2>2
  <2> QED
    BY <2>1, <2>3 DEF Warranted
<1> QED
  BY <1>2, <1>3 DEF Warranted

LEMMA RunKept ==
  ASSUME Registry, UploadsGrow, DetailsGrow, NEW s, RunOK(s)
  PROVE  RunOK(s)'
BY OwnKept DEF RunOK

-----------------------------------------------------------------------------
(* Plans *)

\* What RowsIn steps through.
Lists(f, S, n) ==
  /\ f \in [0..n -> Seq(S)]
  /\ f[0] = <<>>
  /\ \A w \in 1..n : f[w] = IF w \in S THEN Append(f[w - 1], w) ELSE f[w - 1]

LEMMA SomeLists ==
  ASSUME NEW S, NEW n \in Nat
  PROVE  \E f : Lists(f, S, n)
<1> DEFINE T == {m \in Nat : \E f : Lists(f, S, m)}
<1>1. 0 \in T
  <2> DEFINE f == [w \in 0..0 |-> <<>>]
  <2>1. Lists(f, S, 0)
    BY DEF Lists
  <2> QED
    BY <2>1
<1>2. ASSUME NEW m \in Nat, m \in T PROVE m + 1 \in T
  <2>1. PICK f : Lists(f, S, m)
    BY <1>2
  <2> DEFINE last == IF m + 1 \in S THEN Append(f[m], m + 1) ELSE f[m]
             g == [w \in 0..(m + 1) |-> IF w = m + 1 THEN last ELSE f[w]]
  <2>2. f[m] \in Seq(S) /\ last \in Seq(S)
    BY <2>1 DEF Lists
  <2>3. g \in [0..(m + 1) -> Seq(S)] /\ g[0] = <<>>
    BY <2>1, <2>2 DEF Lists
  <2>4. ASSUME NEW w \in 1..(m + 1)
        PROVE  g[w] = IF w \in S THEN Append(g[w - 1], w) ELSE g[w - 1]
    <3>1. CASE w = m + 1
      BY <3>1
    <3>2. CASE w \in 1..m
      BY <2>1, <3>2 DEF Lists
    <3> QED
      BY <3>1, <3>2
  <2> HIDE DEF g
  <2>5. Lists(g, S, m + 1)
    BY <2>3, <2>4 DEF Lists
  <2> QED
    BY <2>5
<1> HIDE DEF T
<1>3. \A m \in Nat : m \in T
  BY <1>1, <1>2, NumbersInduction
<1> QED
  BY <1>3 DEF T

\* RowsIn lists the elements of a set of rows, and only them.
LEMMA RowsInCorrect ==
  ASSUME NEW S, S \subseteq Row
  PROVE  /\ Seeder!RowsIn(S) \in Seq(S)
         /\ \A w \in S : \E i \in DOMAIN Seeder!RowsIn(S) : Seeder!RowsIn(S)[i] = w
<1> DEFINE F(f) == [w \in 0..Rows |->
                      IF w = 0 THEN <<>>
                      ELSE IF w \in S THEN Append(f[w - 1], w) ELSE f[w - 1]]
           upTo == CHOOSE f : f = F(f)
<1>1. Rows \in Nat /\ Row = 1..Rows
  BY RowsAssumption DEF Row, Seeder!Row
<1>2. PICK g : Lists(g, S, Rows)
  BY <1>1, SomeLists
<1>3. g = F(g)
  <2>1. ASSUME NEW w \in 0..Rows PROVE g[w] = F(g)[w]
    <3>1. CASE w = 0
      BY <1>2, <3>1 DEF Lists
    <3>2. CASE w # 0
      <4>1. w \in 1..Rows
        BY <1>1, <3>2
      <4> QED
        BY <1>2, <3>2, <4>1 DEF Lists
    <3> QED
      BY <3>1, <3>2
  <2>2. g = [w \in 0..Rows |-> g[w]]
    BY <1>2 DEF Lists
  <2> QED
    BY <2>1, <2>2
<1>4. upTo = F(upTo)
  BY <1>3
<1>5. Seeder!RowsIn(S) = upTo[Rows]
  BY DEF Seeder!RowsIn
<1> HIDE DEF upTo
<1>6. upTo[0] = <<>>
  BY <1>1, <1>4
<1>7. \A w \in 1..Rows :
        upTo[w] = IF w \in S THEN Append(upTo[w - 1], w) ELSE upTo[w - 1]
  <2> SUFFICES ASSUME NEW w \in 1..Rows
               PROVE  upTo[w] = IF w \in S THEN Append(upTo[w - 1], w) ELSE upTo[w - 1]
    OBVIOUS
  <2>1. w \in 0..Rows /\ w # 0
    BY <1>1
  <2>2. upTo[w] = F(upTo)[w]
    BY <1>4
  <2> QED
    BY <2>1, <2>2
<1> DEFINE Listed(n) == /\ upTo[n] \in Seq(S)
                        /\ \A w \in S : w <= n => \E i \in DOMAIN upTo[n] : upTo[n][i] = w
           T == {n \in Nat : n <= Rows => Listed(n)}
<1>8. 0 \in T
  <2>1. upTo[0] \in Seq(S)
    BY <1>6
  <2>2. \A w \in S : ~(w <= 0)
    BY <1>1
  <2> QED
    BY <2>1, <2>2
<1>9. ASSUME NEW n \in Nat, n \in T PROVE n + 1 \in T
  <2> SUFFICES ASSUME n + 1 <= Rows PROVE Listed(n + 1)
    OBVIOUS
  <2>1. Listed(n)
    BY <1>1, <1>9
  <2>2. CASE n + 1 \in S
    <3>1. upTo[n + 1] = Append(upTo[n], n + 1)
      <4>1. n + 1 \in 1..Rows /\ (n + 1) - 1 = n
        BY <1>1
      <4> QED
        BY <1>7, <2>2, <4>1
    <3>2. upTo[n + 1] \in Seq(S)
      BY <2>1, <2>2, <3>1
    <3>3. /\ Len(upTo[n]) \in Nat /\ Len(upTo[n + 1]) = Len(upTo[n]) + 1
          /\ \A i \in 1..Len(upTo[n]) : upTo[n + 1][i] = upTo[n][i]
          /\ upTo[n + 1][Len(upTo[n]) + 1] = n + 1
      BY <2>1, <2>2, <3>1
    <3>4. ASSUME NEW w \in S, w <= n + 1
          PROVE  \E i \in DOMAIN upTo[n + 1] : upTo[n + 1][i] = w
      <4>1. CASE w = n + 1
        BY <3>2, <3>3, <4>1
      <4>2. CASE w <= n
        <5>1. PICK i \in DOMAIN upTo[n] : upTo[n][i] = w
          BY <2>1, <4>2
        <5>2. i \in 1..Len(upTo[n])
          BY <2>1, <5>1
        <5> QED
          BY <3>2, <3>3, <5>1, <5>2
      <4> QED
        BY <1>1, <3>4, <4>1, <4>2
    <3> QED
      BY <3>2, <3>4
  <2>3. CASE n + 1 \notin S
    <3>1. upTo[n + 1] = upTo[n]
      BY <1>1, <1>7, <2>3
    <3>2. \A w \in S : w <= n + 1 => w <= n
      BY <1>1, <2>3
    <3> QED
      BY <2>1, <3>1, <3>2
  <2> QED
    BY <2>2, <2>3
<1>10. \A n \in Nat : n \in T
  <2> HIDE DEF T
  <2> QED
    BY <1>8, <1>9, NumbersInduction
<1>11. Listed(Rows)
  BY <1>1, <1>10
<1>12. \A w \in S : w <= Rows
  BY <1>1
<1> QED
  BY <1>5, <1>11, <1>12

\* A request is planned for every row that has no upload.
LEMMA RequestPlansCorrect ==
  ASSUME NEW seen
  PROVE  /\ Seeder!RequestPlans(seen) \in Seq(Calls)
         /\ \A i \in DOMAIN Seeder!RequestPlans(seen) :
              \E w \in Row : /\ seen[w].id = 0
                             /\ Seeder!RequestPlans(seen)[i] = RowRequest(w)
<1> DEFINE S == {w \in Row : seen[w].id = 0}
           todo == Seeder!RowsIn(S)
           plans == Seeder!RequestPlans(seen)
<1>1. todo \in Seq(S)
  BY RowsInCorrect
<1>2. plans = [i \in DOMAIN todo |-> RowRequest(todo[i])]
  BY DEF Seeder!RequestPlans, RowRequest, Row
<1>3. \A w \in Row : RowRequest(w) \in Calls
  BY DEF Calls, RowCalls
<1> HIDE DEF todo, plans
<1>4. DOMAIN todo = 1..Len(todo) /\ Len(todo) \in Nat /\ \A i \in DOMAIN todo : todo[i] \in S
  BY <1>1
<1>5. DOMAIN plans = 1..Len(todo) /\ \A i \in DOMAIN plans : plans[i] = RowRequest(todo[i])
  BY <1>2, <1>4
<1>6. plans \in [1..Len(todo) -> Calls]
  BY <1>2, <1>3, <1>4
<1>7. plans \in Seq(Calls)
  BY <1>4, <1>6
<1> QED
  BY <1>4, <1>5, <1>7 DEF plans

StartDue(seen, targets) ==
  {w \in Row : Rank(targets[w]) >= 2 /\ seen[w].status = "Requested"}

FinalizeDue(seen, targets) ==
  {w \in Row : Rank(targets[w]) >= 3 /\ seen[w].status = "Uploading"}

\* A start is planned for exactly the rows that are due.
LEMMA StartPlansCorrect ==
  ASSUME NEW seen, NEW targets,
         \A w \in StartDue(seen, targets) : seen[w].id \in ObjectId
  PROVE  /\ Seeder!StartPlans(seen, targets) \in Seq(Calls)
         /\ \A i \in DOMAIN Seeder!StartPlans(seen, targets) :
              \E w \in StartDue(seen, targets) :
                Seeder!StartPlans(seen, targets)[i] = RowStart(w, seen[w].id)
         /\ \A w \in StartDue(seen, targets) :
              \E i \in DOMAIN Seeder!StartPlans(seen, targets) :
                Seeder!StartPlans(seen, targets)[i] = RowStart(w, seen[w].id)
<1> DEFINE S == StartDue(seen, targets)
           todo == Seeder!RowsIn(S)
           plans == Seeder!StartPlans(seen, targets)
<1>1. /\ todo \in Seq(S)
      /\ \A w \in S : \E i \in DOMAIN todo : todo[i] = w
  BY RowsInCorrect DEF StartDue
<1>2. plans = [i \in DOMAIN todo |-> RowStart(todo[i], seen[todo[i]].id)]
  BY DEF Seeder!StartPlans, RowStart, Row, StartDue, Rank
<1>3. \A w \in S : RowStart(w, seen[w].id) \in Calls
  BY DEF Calls, RowCalls, StartDue
<1> HIDE DEF S, todo, plans
<1>4. DOMAIN todo = 1..Len(todo) /\ Len(todo) \in Nat /\ \A i \in DOMAIN todo : todo[i] \in S
  BY <1>1
<1>5. /\ DOMAIN plans = 1..Len(todo)
      /\ \A i \in DOMAIN plans : plans[i] = RowStart(todo[i], seen[todo[i]].id)
  BY <1>2, <1>4
<1>6. plans \in [1..Len(todo) -> Calls]
  BY <1>2, <1>3, <1>4
<1>7. plans \in Seq(Calls)
  BY <1>4, <1>6
<1>8. \A w \in S : \E i \in DOMAIN plans : plans[i] = RowStart(w, seen[w].id)
  BY <1>1, <1>4, <1>5
<1> QED
  BY <1>4, <1>5, <1>7, <1>8 DEF plans, S

\* A receipt is planned for exactly the rows that are due, right after their
\* dataset.
LEMMA FinalizationPlansCorrect ==
  ASSUME NEW seen, NEW targets,
         \A w \in FinalizeDue(seen, targets) : seen[w].id \in ObjectId
  PROVE  LET plans == Seeder!FinalizationPlans(seen, targets)
         IN  /\ plans \in Seq(Calls)
             /\ \A j \in DOMAIN plans :
                  \E w \in FinalizeDue(seen, targets) :
                    \/ plans[j] = RowRecord(w)
                    \/ /\ plans[j] = RowFinalize(w, seen[w].id)
                       /\ j - 1 \in DOMAIN plans /\ plans[j - 1] = RowRecord(w)
             /\ \A w \in FinalizeDue(seen, targets) :
                  \E j \in DOMAIN plans : plans[j] = RowFinalize(w, seen[w].id)
<1> DEFINE S == FinalizeDue(seen, targets)
           todo == Seeder!RowsIn(S)
           plans == Seeder!FinalizationPlans(seen, targets)
           rowAt(j) == todo[(j + 1) \div 2]
           Call1(j) == IF j % 2 = 1 THEN RowRecord(rowAt(j))
                       ELSE RowFinalize(rowAt(j), seen[rowAt(j)].id)
<1>1. /\ todo \in Seq(S)
      /\ \A w \in S : \E i \in DOMAIN todo : todo[i] = w
  BY RowsInCorrect DEF FinalizeDue
<1>2. plans = [j \in 1..(2 * Len(todo)) |->
                 Seeder!FinalizationPair(rowAt(j), seen[rowAt(j)].id)[IF j % 2 = 1 THEN 1 ELSE 2]]
  BY DEF Seeder!FinalizationPlans, FinalizeDue, Row, Rank, Seeder!ToFinalize
<1>3. \A w, o : /\ Seeder!FinalizationPair(w, o)[1] = RowRecord(w)
                /\ Seeder!FinalizationPair(w, o)[2] = RowFinalize(w, o)
  BY DEF Seeder!FinalizationPair, RowRecord, RowFinalize
<1>4. \A w \in S : RowRecord(w) \in Calls /\ RowFinalize(w, seen[w].id) \in Calls
  BY DEF Calls, RowCalls, FinalizeDue
<1> HIDE DEF S, todo, plans
<1>5. DOMAIN todo = 1..Len(todo) /\ Len(todo) \in Nat /\ \A i \in DOMAIN todo : todo[i] \in S
  BY <1>1
<1>6. /\ DOMAIN plans = 1..(2 * Len(todo))
      /\ \A j \in DOMAIN plans : plans[j] = Call1(j)
  BY <1>2, <1>3
<1>7. \A j \in 1..(2 * Len(todo)) : rowAt(j) \in S
  <2>1. \A j \in 1..(2 * Len(todo)) : (j + 1) \div 2 \in 1..Len(todo)
    BY <1>5
  <2> QED
    BY <1>5, <2>1
<1>8. plans \in Seq(Calls)
  <2>1. \A j \in 1..(2 * Len(todo)) : plans[j] \in Calls
    BY <1>4, <1>6, <1>7
  <2>2. plans = [j \in 1..(2 * Len(todo)) |-> plans[j]]
    BY <1>2, <1>6
  <2>3. plans \in [1..(2 * Len(todo)) -> Calls]
    BY <2>1, <2>2
  <2> QED
    BY <1>5, <2>3
<1>9. ASSUME NEW j \in DOMAIN plans, j % 2 # 1
      PROVE  j - 1 \in DOMAIN plans /\ plans[j - 1] = RowRecord(rowAt(j))
  <2>0. j \in 1..(2 * Len(todo)) /\ j \in Nat
    BY <1>5, <1>6
  <2>2. j = 2 * (j \div 2) /\ j \div 2 \in Nat
    BY <1>9, <2>0
  <2>3. PICK k \in Nat : j = 2 * k
    BY <2>2
  <2>1. /\ j - 1 \in 1..(2 * Len(todo))
        /\ (j - 1) % 2 = 1 /\ ((j - 1) + 1) \div 2 = (j + 1) \div 2
    BY <1>5, <2>0, <2>3
  <2> QED
    BY <1>6, <2>1
<1>10. ASSUME NEW w \in S
       PROVE  \E j \in DOMAIN plans : plans[j] = RowFinalize(w, seen[w].id)
  <2>1. PICK i \in 1..Len(todo) : todo[i] = w
    BY <1>1, <1>5
  <2>2. /\ 2 * i \in 1..(2 * Len(todo)) /\ (2 * i) % 2 = 0
        /\ ((2 * i) + 1) \div 2 = i
    BY <1>5
  <2> QED
    BY <1>6, <2>1, <2>2
<1>11. \A j \in DOMAIN plans :
         \/ plans[j] = RowRecord(rowAt(j))
         \/ plans[j] = RowFinalize(rowAt(j), seen[rowAt(j)].id) /\ j % 2 # 1
  BY <1>6
<1> QED
  BY <1>6, <1>7, <1>8, <1>9, <1>10, <1>11 DEF plans, S

-----------------------------------------------------------------------------
(* A step of the demo: one run moves, and sends at most one call, to which  *)
(* it is entitled.                                                          *)

SendsAtMost ==
  \/ sent' = sent
  \/ \E t \in Calls : Warranted(t) /\ sent' = Append(sent, t)

DemoSends ==
  \/ sent' = sent
  \/ \E t \in SetupCalls \cup DemoCalls : Warranted(t) /\ sent' = Append(sent, t)

DemoMoves(r) ==
  /\ UNCHANGED <<vars, details, outcome>>
  /\ evidence' \in EvidenceFile /\ giveUps' \in Nat
  /\ \E s \in RunState : RunOK(s) /\ run' = [run EXCEPT ![r] = s]
  /\ DemoSends

LEMMA IdleOK == Idle \in RunState /\ RunOK(Idle)
<1>1. "None" \in UploadStatus /\ 0 \in NodeId /\ NoHashes \in [Sendable -> Nat]
  BY MaxObjectsAssumption DEF UploadStatus, NodeId, NoHashes
<1> QED
  BY <1>1 DEF Idle, RunState, RunOK, AtUpload

LEMMA ReturnMoves ==
  ASSUME Base, NEW r \in Run, Become(r, Idle),
         UNCHANGED <<vars, details, poolVars>>,
         evidence' \in EvidenceFile, giveUps' \in Nat
  PROVE  DemoMoves(r)
BY IdleOK DEF DemoMoves, DemoSends, Become, poolVars

LEMMA GoMoves ==
  ASSUME Base, NEW r \in Run, NEW pc, Go(r, pc), run[r].pc # "idle",
         pc \in AtUpload \cup {"relayer", "request"},
         pc \in AtUpload => run[r].id # 0
  PROVE  DemoMoves(r)
<1> DEFINE s == [run[r] EXCEPT !.pc = pc]
<1>1. run[r] \in RunState /\ RunOK(run[r]) /\ evidence \in EvidenceFile /\ giveUps \in Nat
  BY DEF Base, ScriptTypes
<1>2. pc # "idle" /\ s \in RunState
  BY <1>1 DEF RunState, AtUpload
<1>3. RunOK(s)
  BY <1>1, <1>2 DEF RunOK, RunState
<1> QED
  BY <1>1, <1>2, <1>3 DEF Go, Become, DemoMoves, DemoSends, restUnchanged, poolVars

LEMMA SendMoves ==
  ASSUME Base, NEW r \in Run, NEW t \in SetupCalls \cup DemoCalls, NEW pc,
         Send(r, t, pc),
         Warranted(t), run[r].pc # "idle",
         pc \in AtUpload \cup {"relayer", "request", "object"},
         pc \in AtUpload => run[r].id # 0
  PROVE  DemoMoves(r)
<1> DEFINE s == [run[r] EXCEPT !.pc = pc, !.waiting = NewHash]
<1>1. run[r] \in RunState /\ RunOK(run[r]) /\ evidence \in EvidenceFile /\ giveUps \in Nat
  BY DEF Base, ScriptTypes
<1>2. NewHash \in Nat
  BY DEF Base, ScriptTypes, PoolTypes, NewHash
<1>3. pc # "idle" /\ s \in RunState
  BY <1>1, <1>2 DEF RunState, AtUpload
<1>4. RunOK(s)
  BY <1>1, <1>3 DEF RunOK, RunState
<1>5. run' = [run EXCEPT ![r] = s] /\ sent' = Append(sent, t) /\ outcome' = outcome
  BY DEF Send, Submit, Become
<1> HIDE DEF s
<1> QED
  BY <1>1, <1>3, <1>4, <1>5 DEF Send, DemoMoves, DemoSends, restUnchanged

LEMMA RereadMoves ==
  ASSUME Base, NEW r \in Run, NEW o \in NodeId, NEW pc, Reread(r, o, pc),
         run[r].pc # "idle", pc \in {"start", "settle", "finalize"}
  PROVE  DemoMoves(r)
<1> DEFINE s == [run[r] EXCEPT !.id = o, !.seen = objects[o].status, !.pc = pc]
<1>1. run[r] \in RunState /\ RunOK(run[r]) /\ evidence \in EvidenceFile /\ giveUps \in Nat
  BY DEF Base, ScriptTypes
<1>2. o \in ObjectId /\ Own(run[r].env, o)
  BY MaxObjectsAssumption DEF Reread, RequestMatches, NodeId, ObjectId, Own
<1>3. objects[o].status \in UploadStatus
  BY <1>2 DEF Base, Registry, TypeOK, StorageObject
<1>4. s \in RunState
  BY <1>1, <1>3 DEF RunState, AtUpload
<1>5. s.env = run[r].env /\ s.id = o /\ s.pc = pc
  BY <1>1 DEF RunState
<1>6. RunOK(s)
  <2>1. Own(s.env, s.id)
    BY <1>2, <1>5, Zenon
  <2>2. s.env \in Env /\ s.pc # "idle" /\ s.id # 0
    BY <1>1, <1>2, <1>5 DEF RunOK, ObjectId
  <2> QED
    BY <2>1, <2>2 DEF RunOK
<1>7. run' = [run EXCEPT ![r] = s]
  BY DEF Reread, Become
<1> HIDE DEF s
<1> QED
  BY <1>1, <1>4, <1>6, <1>7 DEF Reread, DemoMoves, DemoSends, restUnchanged, poolVars

\* The upload of a run, and what it may send about it.
LEMMA RunUpload ==
  ASSUME Base, NEW r \in Run, run[r].pc # "idle"
  PROVE  /\ run[r] \in RunState /\ run[r].env \in Env
         /\ run[r].pc \in AtUpload => run[r].id # 0
         /\ run[r].id # 0 => run[r].id \in ObjectId /\ Own(run[r].env, run[r].id)
BY DEF Base, ScriptTypes, RunOK, Own

LEMMA DemoWarrants ==
  ASSUME NEW env \in Env
  PROVE  /\ DemoRequest(env) \in DemoCalls /\ Warranted(DemoRequest(env))
         /\ DemoRecord(env) \in DemoCalls /\ Warranted(DemoRecord(env))
         /\ \A o \in ObjectId :
              /\ DemoStart(env, o) \in DemoCalls /\ DemoFinalize(env, o) \in DemoCalls
              /\ Own(env, o) => /\ Warranted(DemoStart(env, o))
                                /\ Warranted(DemoFinalize(env, o))
BY DEF DemoCalls, Warranted

LEMMA SetupWarrants ==
  ASSUME NEW t \in SetupCalls
  PROVE  t \in Calls /\ Warranted(t)
BY DEF Calls, Warranted

\* A run only merges with a file it could read.
LEMMA MergeReads ==
  ASSUME NEW r \in Run, Merge(r)
  PROVE  FileText = evidence /\ onDisk = "whole"
BY DEF Merge, Readable, FileText

LEMMA DemoStepMoves ==
  ASSUME Base, NEW r \in Run, Step(r)
  PROVE  DemoMoves(r)
<1>1. evidence \in EvidenceFile /\ giveUps \in Nat /\ run[r] \in RunState /\ RunOK(run[r])
  BY DEF Base, ScriptTypes
<1>2. \A pc : At(r, pc) => run[r].pc = pc
  BY DEF At
<1>3. CASE EnsureCoordinator(r)
  <2>1. run[r].pc = "coordinator"
    BY <1>3 DEF EnsureCoordinator, At
  <2>2. CASE Go(r, "relayer")
    BY <2>1, <2>2, GoMoves DEF AtUpload
  <2>3. CASE Send(r, [fn |-> "setCoordinator"], "relayer")
    <3>1. [fn |-> "setCoordinator"] \in SetupCalls
      BY DEF SetupCalls, SetCoordinatorCall
    <3> QED
      BY <2>1, <2>3, <3>1, SetupWarrants, SendMoves DEF AtUpload
  <2> QED
    BY <1>3, <2>2, <2>3 DEF EnsureCoordinator
<1>4. CASE EnsureRelayer(r)
  <2> DEFINE next == IF run[r].id = 0 THEN "request" ELSE "start"
             relayer == run[r].env.relayer
  <2>1. run[r].pc = "relayer"
    BY <1>4 DEF EnsureRelayer, At
  <2>2. run[r].env \in Env
    BY <2>1, RunUpload
  <2>3. /\ next \in AtUpload \cup {"relayer", "request"}
        /\ next \in AtUpload => run[r].id # 0
    BY DEF AtUpload
  <2>4. CASE Go(r, next)
    BY <2>1, <2>3, <2>4, GoMoves
  <2>5. CASE Send(r, [fn |-> "setRelayer", relayer |-> relayer], next)
    <3>1. [fn |-> "setRelayer", relayer |-> relayer] \in SetupCalls
      BY <2>2, DemoAssumption DEF SetupCalls, SetRelayerCall
    <3> HIDE DEF next
    <3> QED
      BY <2>1, <2>3, <2>5, <3>1, SetupWarrants, SendMoves
  <2> QED
    BY <1>4, <2>4, <2>5 DEF EnsureRelayer
<1>5. CASE Request(r)
  <2>1. run[r].pc = "request" /\ Send(r, DemoRequest(run[r].env), "object")
    BY <1>5 DEF Request, At, DemoRequest
  <2>2. run[r].env \in Env
    BY <2>1, RunUpload
  <2> QED
    BY <2>1, <2>2, DemoWarrants, SendMoves DEF AtUpload
<1>6. CASE ReadRequested(r)
  <2>1. /\ run[r].pc = "object"
        /\ Reread(r, objectByIdempotencyKey[DemoAccount][run[r].env.piece], "start")
    BY <1>6 DEF ReadRequested, At
  <2>2. run[r].env \in Env
    BY <2>1, RunUpload
  <2>3. objectByIdempotencyKey[DemoAccount][run[r].env.piece] \in NodeId
    BY <2>2, DemoAssumption DEF Base, Registry, TypeOK
  <2> QED
    BY <2>1, <2>3, RereadMoves
<1>7. CASE Start(r)
  <2>1. run[r].pc = "start"
    BY <1>7 DEF Start, At
  <2>2. /\ run[r].env \in Env /\ run[r].id \in ObjectId /\ run[r].id # 0
        /\ Own(run[r].env, run[r].id)
    BY <2>1, RunUpload DEF AtUpload
  <2>3. CASE Go(r, "settle")
    BY <2>1, <2>2, <2>3, GoMoves DEF AtUpload
  <2>4. CASE Send(r, DemoStart(run[r].env, run[r].id), "started")
    BY <2>1, <2>2, <2>4, DemoWarrants, SendMoves DEF AtUpload
  <2> QED
    BY <1>7, <2>3, <2>4 DEF Start, DemoStart
<1>8. CASE ReadStarted(r) \/ ReadRecorded(r)
  <2>1. run[r].pc \in {"started", "recorded"}
    BY <1>8 DEF ReadStarted, ReadRecorded, At
  <2>2. run[r].id \in NodeId
    BY <1>1 DEF RunState
  <2> QED
    BY <1>8, <2>1, <2>2, RereadMoves DEF ReadStarted, ReadRecorded
<1>9. CASE Settle(r)
  <2>1. run[r].pc = "settle"
    BY <1>9 DEF Settle, At
  <2>2. run[r].env \in Env /\ run[r].id # 0
    BY <2>1, RunUpload DEF AtUpload
  <2>3. CASE Go(r, "merge")
    BY <2>1, <2>2, <2>3, GoMoves DEF AtUpload
  <2>4. CASE Send(r, DemoRecord(run[r].env), "recorded")
    BY <2>1, <2>2, <2>4, DemoWarrants, SendMoves DEF AtUpload
  <2> QED
    BY <1>9, <2>3, <2>4 DEF Settle, DemoRecord
<1>10. CASE Finalize(r)
  <2>1. run[r].pc = "finalize"
    BY <1>10 DEF Finalize, At
  <2>2. /\ run[r].env \in Env /\ run[r].id \in ObjectId /\ run[r].id # 0
        /\ Own(run[r].env, run[r].id)
    BY <2>1, RunUpload DEF AtUpload
  <2>3. CASE Go(r, "merge")
    BY <2>1, <2>2, <2>3, GoMoves DEF AtUpload
  <2>4. CASE Send(r, DemoFinalize(run[r].env, run[r].id), "merge")
    BY <2>1, <2>2, <2>4, DemoWarrants, SendMoves DEF AtUpload
  <2> QED
    BY <1>10, <2>3, <2>4 DEF Finalize, DemoFinalize
<1>11. CASE Merge(r)
  <2> DEFINE hashes == MergeHashes(ReusableHashes(evidence, run[r].env, run[r].id),
                                   run[r].hashes)
             s == [run[r] EXCEPT !.pc = "write", !.hashes = hashes]
  <2>1. run[r].pc = "merge" /\ run' = [run EXCEPT ![r] = s]
    BY <1>11, MergeReads DEF Merge, At, Become
  <2>2. hashes \in [Sendable -> Nat]
    BY <1>1 DEF MergeHashes, ReusableHashes, NoHashes, RunState, EvidenceFile
  <2> HIDE DEF hashes
  <2>3. s \in RunState
    BY <1>1, <2>2 DEF RunState, AtUpload
  <2>4. RunOK(s)
    BY <1>1, <2>1 DEF RunOK, RunState, AtUpload
  <2> HIDE DEF s
  <2> QED
    BY <1>1, <1>11, <2>1, <2>3, <2>4
    DEF Merge, DemoMoves, DemoSends, restUnchanged, poolVars
<1>12. CASE Truncate(r)
  <2> DEFINE s == [run[r] EXCEPT !.pc = "writing"]
  <2>1. run[r].pc = "write" /\ run' = [run EXCEPT ![r] = s]
    BY <1>12 DEF Truncate, At, Become
  <2>2. s \in RunState
    BY <1>1 DEF RunState, AtUpload
  <2>3. RunOK(s)
    BY <1>1, <2>1 DEF RunOK, RunState, AtUpload
  <2> HIDE DEF s
  <2> QED
    BY <1>1, <1>12, <2>1, <2>2, <2>3 DEF Truncate, DemoMoves, DemoSends, poolVars
<1>15. CASE Write(r)
  <2>1. run[r].id \in NodeId /\ run[r].env \in Env \cup {<<>>} /\ run[r].hashes \in [Sendable -> Nat]
    BY <1>1 DEF RunState
  <2>2. evidence' \in EvidenceFile
    BY <1>1, <1>15, <2>1 DEF Write, EvidenceFile
  <2> QED
    BY <1>1, <1>15, <2>2, ReturnMoves DEF Write
<1>13. CASE Return(r) \/ Throw(r)
  BY <1>1, <1>13, ReturnMoves DEF Return, Throw, restUnchanged
<1>14. CASE Receive(r)
  <2> DEFINE h == run[r].waiting
             s == [run[r] EXCEPT !.waiting = 0, !.hashes[sent[h].fn] = h]
  <2>1. h # 0 /\ h \in Nat /\ h <= Len(outcome) /\ run' = [run EXCEPT ![r] = s]
    BY <1>1, <1>14 DEF Receive, Succeeded, Mined, Become, RunState
  <2>2. run[r].hashes \in [Sendable -> Nat]
    BY <1>1 DEF RunState
  <2> HIDE DEF h
  <2>3. s \in RunState
    BY <1>1, <2>1, <2>2 DEF RunState
  <2>4. RunOK(s)
    <3>1. s.pc = run[r].pc /\ s.env = run[r].env /\ s.id = run[r].id
      BY <1>1 DEF RunState
    <3>2. run[r].pc # "idle"
      BY <1>1, <2>1 DEF RunOK, Idle, h
    <3> QED
      BY <1>1, <3>1, <3>2 DEF RunOK
  <2> HIDE DEF s
  <2> QED
    BY <1>1, <1>14, <2>1, <2>3, <2>4
    DEF Receive, DemoMoves, DemoSends, restUnchanged, poolVars
<1> QED
  BY <1>3, <1>4, <1>5, <1>6, <1>7, <1>8, <1>9, <1>10, <1>11, <1>12, <1>13, <1>14, <1>15
  DEF Step

LEMMA BeginMoves ==
  ASSUME Base, NEW r \in Run, NEW env \in Env, Begin(r, env)
  PROVE  DemoMoves(r)
<1> DEFINE o == objectByIdempotencyKey[DemoAccount][env.piece]
           started == [Idle EXCEPT !.env = env, !.id = o]
<1>1. evidence \in EvidenceFile /\ giveUps \in Nat /\ Idle \in RunState
  BY IdleOK DEF Base, ScriptTypes
<1>2. o \in NodeId
  BY DemoAssumption DEF Base, Registry, TypeOK
<1>3. CASE o = 0
  <2> DEFINE s == [started EXCEPT !.pc = "coordinator"]
  <2>1. run' = [run EXCEPT ![r] = s]
    BY <1>3, Zenon DEF Begin, Become
  <2>2. s \in RunState /\ s.pc = "coordinator" /\ s.id = 0 /\ s.env = env
    BY <1>1, <1>2, <1>3 DEF RunState
  <2>3. RunOK(s)
    BY <2>2 DEF RunOK, AtUpload
  <2> HIDE DEF s
  <2> QED
    BY <1>1, <2>1, <2>2, <2>3 DEF Begin, DemoMoves, DemoSends, poolVars
<1>4. CASE o # 0
  <2> DEFINE pc == IF Committed(objects[o].status) THEN "relayer" ELSE "coordinator"
             s == [started EXCEPT !.seen = objects[o].status, !.pc = pc]
  <2>1. run' = [run EXCEPT ![r] = s] /\ RequestMatches(env, o)
    BY <1>4, Zenon DEF Begin, Become
  <2>2. o \in ObjectId /\ Own(env, o)
    BY <1>2, <1>4, <2>1, MaxObjectsAssumption DEF NodeId, ObjectId, Own
  <2>3. objects[o].status \in UploadStatus
    BY <2>2 DEF Base, Registry, TypeOK, StorageObject
  <2> HIDE DEF o
  <2>4. s \in RunState /\ s.pc = pc /\ s.id = o /\ s.env = env
    BY <1>1, <1>2, <2>3 DEF RunState
  <2>5. RunOK(s)
    <3>1. Own(s.env, s.id)
      BY <2>2, <2>4, Zenon
    <3> QED
      BY <2>4, <3>1 DEF RunOK, AtUpload
  <2> HIDE DEF s
  <2> QED
    BY <1>1, <2>1, <2>4, <2>5 DEF Begin, DemoMoves, DemoSends, poolVars
<1> QED
  BY <1>3, <1>4

LEMMA GiveUpMoves ==
  ASSUME Base, NEW r \in Run, GiveUp(r)
  PROVE  DemoMoves(r)
<1>1. evidence' \in EvidenceFile /\ giveUps' \in Nat
  BY DEF Base, ScriptTypes, GiveUp
<1> QED
  BY <1>1, ReturnMoves DEF GiveUp

LEMMA DemoRunsMove ==
  ASSUME Base, DemoRuns
  PROVE  \E r \in Run : DemoMoves(r)
BY DemoStepMoves, BeginMoves, GiveUpMoves DEF DemoRuns

-----------------------------------------------------------------------------
(* A step of the seeder *)

SeederMoves ==
  /\ UNCHANGED <<vars, details, outcome, run, evidence>>
  /\ giveUps' \in Nat
  /\ summary' \in [Row -> UploadStatus] /\ asked' \in [Row -> UploadStatus]
  /\ AskedGrow
  /\ seeder' \in SeederState /\ SeederOK'
  /\ SendsAtMost

LEMMA SeederKept ==
  ASSUME Registry, ScriptTypes, ScriptTypes', UploadsGrow, DetailsGrow, AskedGrow,
         NEW s \in SeederState, SeederFit(s)
  PROVE  SeederFit(s)'
<1>1. \A w \in Row : /\ Rank(asked[w]) \in Nat /\ Rank(asked'[w]) \in Nat
                     /\ Rank(s.targets[w]) \in Nat
  <2>1. \A w \in Row : /\ asked[w] \in UploadStatus /\ asked'[w] \in UploadStatus
                       /\ s.targets[w] \in UploadStatus
    BY DEF ScriptTypes, SeederState
  <2> QED
    BY <2>1, RankValues
<1>2. \A i \in DOMAIN s.plans : Warranted(s.plans[i])'
  BY WarrantKept DEF SeederFit
<1>3. \A w \in Row : s.seen[w].id # 0 => OwnRow(w, s.seen[w].id)'
  BY OwnRowKept DEF SeederFit
<1>4. \A w \in Row : s.pc # "idle" => Rank(s.targets[w]) <= Rank(asked'[w])
  BY <1>1 DEF SeederFit, AskedGrow
<1> QED
  BY <1>2, <1>3, <1>4 DEF SeederFit

\* A step that only the script notices.
LEMMA SeederBecomes ==
  ASSUME Base, UNCHANGED <<vars, details, outcome, run, evidence, asked>>,
         giveUps' \in Nat, summary' \in [Row -> UploadStatus], SendsAtMost,
         NEW s \in SeederState, seeder' = s, SeederFit(s)
  PROVE  SeederMoves
<1>1. /\ asked \in [Row -> UploadStatus] /\ asked' \in [Row -> UploadStatus]
  BY DEF Base, ScriptTypes
<1>2. AskedGrow
  <2>1. \A w \in Row : Rank(asked[w]) \in Nat
    BY <1>1, RankValues
  <2> QED
    BY <2>1 DEF AskedGrow
<1>3. SeederFit(s)'
  <2>1. \A t : Warranted(t) => Warranted(t)'
    BY DEF Warranted, Own, RequestMatches, OwnRow, Seeder!ObjectOf, vars, uploadVars, requestVars
  <2>2. \A w, o : OwnRow(w, o) => OwnRow(w, o)'
    BY DEF OwnRow, Seeder!ObjectOf, vars, uploadVars, requestVars
  <2> QED
    BY <2>1, <2>2 DEF SeederFit
<1>4. SeederOK'
  BY <1>3 DEF SeederOK, SeederFit
<1> QED
  BY <1>1, <1>2, <1>4 DEF SeederMoves

LEMMA SeederIdleFits == Seeder!Idle \in SeederState /\ SeederFit(Seeder!Idle)
<1>1. "None" \in UploadStatus /\ 0 \in NodeId
  BY MaxObjectsAssumption DEF UploadStatus, NodeId
<1>2. Seeder!NoSummary \in [Row -> UploadStatus]
  BY <1>1 DEF Seeder!NoSummary, Row
<1>3. /\ Seeder!NothingSeen \in [Row -> Reading]
      /\ \A w \in Row : Seeder!NothingSeen[w] = [id |-> 0, status |-> "None"]
  BY <1>1 DEF Seeder!NothingSeen, Row, Reading
<1>4. /\ Seeder!Idle \in SeederState /\ Seeder!Idle.pc = "idle"
      /\ Seeder!Idle.plans = <<>> /\ Seeder!Idle.seen = Seeder!NothingSeen
  BY <1>2, <1>3 DEF Seeder!Idle, SeederState
<1> QED
  BY <1>3, <1>4 DEF SeederFit

\* The registry and the pool of the seeder are those of the demo.
LEMMA SameChain ==
  /\ Seeder!vars = vars /\ Seeder!poolVars = poolVars
  /\ Seeder!NewHash = NewHash /\ \A t : Seeder!Submit(t) <=> Submit(t)
BY DEF Seeder!vars, Seeder!uploadVars, Seeder!indexVars, Seeder!requestVars,
   Seeder!adminVars, Seeder!datasetVars, vars, uploadVars, indexVars, requestVars,
   adminVars, datasetVars, Seeder!poolVars, poolVars, Seeder!NewHash, NewHash,
   Seeder!Submit, Submit

LEMMA SameUnchanged ==
  /\ UNCHANGED Seeder!vars => UNCHANGED vars
  /\ UNCHANGED Seeder!poolVars => UNCHANGED poolVars
BY DEF Seeder!vars, Seeder!uploadVars, Seeder!indexVars, Seeder!requestVars,
   Seeder!adminVars, Seeder!datasetVars, vars, uploadVars, indexVars, requestVars,
   adminVars, datasetVars, Seeder!poolVars, poolVars

LEMMA SeederQuiet ==
  ASSUME Seeder!restUnchanged
  PROVE  UNCHANGED <<vars, asked, giveUps>>
BY SameUnchanged DEF Seeder!restUnchanged

\* Without a change of plans.
LEMMA SeederTurns ==
  ASSUME Base, NEW s \in SeederState, Seeder!Become(s),
         s = Seeder!Idle \/ SeederFit(s), UNCHANGED <<details, run, evidence>>
  PROVE  SeederMoves
<1>1. giveUps \in Nat /\ summary \in [Row -> UploadStatus]
  BY DEF Base, ScriptTypes
<1>2. SeederFit(s)
  BY SeederIdleFits
<1> QED
  BY <1>1, <1>2, SeederQuiet, SeederBecomes
  DEF Seeder!Become, Seeder!poolVars, SendsAtMost

DemoRests == UNCHANGED <<details, run, evidence>>

\* New plans, all entitled.
LEMMA SeederPlans ==
  ASSUME Base, DemoRests, NEW s \in SeederState, Seeder!Become(s),
         NEW plans \in Seq(Calls), NEW pc, seeder.pc # "idle",
         pc \in {"relayer", "read", "created", "starting", "finalizing"},
         NEW row \in Nat, pc \in {"read", "created"} => row >= 1,
         s = [seeder EXCEPT !.plans = plans, !.pc = pc, !.row = row],
         \A i \in DOMAIN plans : Warranted(plans[i])
  PROVE  SeederMoves
<1>1. seeder \in SeederState /\ SeederFit(seeder)
  BY DEF Base, ScriptTypes, SeederOK
<1>2. /\ s.pc = pc /\ s.row = row /\ s.plans = plans /\ s.seen = seeder.seen
      /\ s.targets = seeder.targets
  BY <1>1 DEF SeederState
<1>3. SeederFit(s)
  BY <1>1, <1>2 DEF SeederFit
<1> QED
  BY <1>3, SeederTurns DEF DemoRests

LEMMA SendOneMoves ==
  ASSUME Base, DemoRests, Seeder!SendOne
  PROVE  SeederMoves
<1> DEFINE s == [seeder EXCEPT !.plans = Tail(seeder.plans), !.sentAny = TRUE,
                               !.awaiting = seeder.awaiting \cup {NewHash}]
           t == Head(seeder.plans)
<1>1. /\ seeder \in SeederState /\ SeederFit(seeder)
      /\ giveUps \in Nat /\ summary \in [Row -> UploadStatus]
      /\ sent \in Seq(Calls)
  BY DEF Base, ScriptTypes, SeederOK, PoolTypes
<1>2. /\ seeder.plans # <<>> /\ seeder' = s /\ Submit(t) /\ summary' = summary
      /\ UNCHANGED <<vars, asked, giveUps>>
  BY SameChain, SeederQuiet DEF Seeder!SendOne
<1>3. seeder.plans \in Seq(Calls)
  BY <1>1 DEF SeederState
<1>4. /\ t = seeder.plans[1] /\ t \in Calls /\ 1 \in DOMAIN seeder.plans
      /\ Tail(seeder.plans) \in Seq(Calls)
      /\ \A i \in DOMAIN Tail(seeder.plans) :
           i + 1 \in DOMAIN seeder.plans /\ Tail(seeder.plans)[i] = seeder.plans[i + 1]
  BY <1>2, <1>3
<1>5. Warranted(t)
  <2>1. Warranted(seeder.plans[1])
    BY <1>1, <1>4 DEF SeederFit
  <2> QED
    BY <1>4, <2>1, Zenon
<1>6. SendsAtMost /\ outcome' = outcome
  BY <1>2, <1>4, <1>5 DEF SendsAtMost, Submit
<1>7. NewHash \in Nat
  BY <1>1 DEF NewHash
<1>8. s \in SeederState
  BY <1>1, <1>4, <1>7 DEF SeederState
<1>9. /\ s.pc = seeder.pc /\ s.row = seeder.row /\ s.plans = Tail(seeder.plans)
      /\ s.seen = seeder.seen /\ s.targets = seeder.targets
  BY <1>1 DEF SeederState
<1>10. seeder.pc # "idle"
  BY <1>1, <1>2 DEF SeederFit, Seeder!Idle
<1>11. \A i \in DOMAIN s.plans : Warranted(s.plans[i])
  <2> SUFFICES ASSUME NEW i \in DOMAIN s.plans PROVE Warranted(s.plans[i])
    OBVIOUS
  <2>1. i + 1 \in DOMAIN seeder.plans /\ s.plans[i] = seeder.plans[i + 1]
    BY <1>4, <1>9
  <2>2. Warranted(seeder.plans[i + 1])
    BY <1>1, <2>1 DEF SeederFit
  <2> QED
    BY <2>1, <2>2, Zenon
<1> HIDE DEF s
<1>12. SeederFit(s)
  BY <1>1, <1>9, <1>10, <1>11 DEF SeederFit
<1> QED
  BY <1>1, <1>2, <1>6, <1>8, <1>12, SeederBecomes DEF DemoRests

LEMMA AwaitBatchMoves ==
  ASSUME Base, DemoRests, Seeder!AwaitBatch
  PROVE  SeederMoves
<1> DEFINE s == [seeder EXCEPT !.awaiting = {}]
<1>1. seeder \in SeederState /\ SeederFit(seeder)
  BY DEF Base, ScriptTypes, SeederOK
<1>2. CASE Seeder!Become(s)
  <2>1. s \in SeederState
    BY <1>1 DEF SeederState
  <2>2. /\ s.pc = seeder.pc /\ s.row = seeder.row /\ s.plans = seeder.plans
        /\ s.seen = seeder.seen /\ s.targets = seeder.targets
    BY <1>1 DEF SeederState
  <2>3. seeder.pc # "idle"
    BY <1>1 DEF Seeder!AwaitBatch, Seeder!BatchSent, SeederFit, Seeder!Idle
  <2>4. SeederFit(s)
    BY <1>1, <2>2, <2>3 DEF SeederFit
  <2> QED
    BY <1>2, <2>1, <2>4, SeederTurns DEF DemoRests
<1>3. CASE Seeder!Become(Seeder!Idle)
  BY <1>3, SeederIdleFits, SeederTurns DEF DemoRests
<1> QED
  BY <1>2, <1>3 DEF Seeder!AwaitBatch

LEMMA SetupMoves ==
  ASSUME Base, DemoRests, Seeder!EnsureCoordinator \/ Seeder!EnsureRelayer
  PROVE  SeederMoves
<1>1. seeder \in SeederState /\ SeederFit(seeder)
  BY DEF Base, ScriptTypes, SeederOK
<1>2. /\ <<>> \in Seq(Calls) /\ \A i \in DOMAIN <<>> : Warranted(<<>>[i])
      /\ \A t \in SetupCalls : <<t>> \in Seq(Calls)
                               /\ \A i \in DOMAIN <<t>> : Warranted(<<t>>[i])
  <2>1. \A t \in SetupCalls : t \in Calls /\ Warranted(t)
    BY SetupWarrants
  <2>2. ASSUME NEW t \in SetupCalls
        PROVE  \A i \in DOMAIN <<t>> : Warranted(<<t>>[i])
    <3>1. DOMAIN <<t>> = {1} /\ <<t>>[1] = t
      OBVIOUS
    <3> QED
      BY <2>1, <3>1
  <2> QED
    BY <2>1, <2>2
<1>3. CASE Seeder!EnsureCoordinator
  <2> DEFINE plans == IF coordinatorPolicies[Operator] = Seeder!StandingPolicy THEN <<>>
                      ELSE <<[fn |-> "setCoordinator"]>>
             s == [seeder EXCEPT !.plans = plans, !.pc = "relayer"]
  <2>1. [fn |-> "setCoordinator"] \in SetupCalls
    BY DEF SetupCalls, SetCoordinatorCall
  <2>2. plans \in Seq(Calls) /\ \A i \in DOMAIN plans : Warranted(plans[i])
    BY <1>2, <2>1
  <2>3. seeder.pc = "coordinator" /\ Seeder!Become(s)
    BY <1>3 DEF Seeder!EnsureCoordinator, Seeder!Plan, Seeder!Ready, Seeder!At
  <2> HIDE DEF plans
  <2>4. s \in SeederState /\ s = [seeder EXCEPT !.plans = plans, !.pc = "relayer", !.row = seeder.row]
    BY <1>1, <2>2 DEF SeederState
  <2>5. seeder.row \in Nat
    BY <1>1 DEF SeederState
  <2> HIDE DEF s
  <2> QED
    <3>1. /\ seeder.pc # "idle" /\ "relayer" \notin {"read", "created"}
          /\ "relayer" \in {"relayer", "read", "created", "starting", "finalizing"}
      BY <2>3
    <3> QED
      BY <2>2, <2>3, <2>4, <2>5, <3>1, SeederPlans, Zenon
<1>4. CASE Seeder!EnsureRelayer
  <2> DEFINE plans == IF Operator \in relayers THEN <<>>
                      ELSE <<[fn |-> "setRelayer", relayer |-> Operator]>>
             s == [seeder EXCEPT !.plans = plans, !.pc = "read", !.row = 1]
  <2>1. [fn |-> "setRelayer", relayer |-> Operator] \in SetupCalls
    BY RowsAssumption DEF SetupCalls, SetRelayerCall
  <2>2. plans \in Seq(Calls) /\ \A i \in DOMAIN plans : Warranted(plans[i])
    BY <1>2, <2>1
  <2>3. seeder.pc = "relayer" /\ Seeder!Become(s)
    BY <1>4 DEF Seeder!EnsureRelayer, Seeder!Become, Seeder!Ready, Seeder!At
  <2> HIDE DEF plans
  <2>4. s \in SeederState
    BY <1>1, <2>2 DEF SeederState
  <2> QED
    <3>1. /\ seeder.pc # "idle" /\ 1 \in Nat /\ 1 >= 1
          /\ "read" \in {"relayer", "read", "created", "starting", "finalizing"}
      BY <2>3
    <3> HIDE DEF s
    <3>2. s = [seeder EXCEPT !.plans = plans, !.pc = "read", !.row = 1]
      BY DEF s
    <3> QED
      BY <2>2, <2>3, <2>4, <3>1, <3>2, SeederPlans, Zenon
<1> QED
  BY <1>3, <1>4

LEMMA ObjectOfType ==
  ASSUME TypeOK, NEW w \in Row
  PROVE  Seeder!ObjectOf(w) \in NodeId
BY RowsAssumption DEF Row, Seeder!ObjectOf, TypeOK

LEMMA StatusOfType ==
  ASSUME TypeOK, NEW o \in NodeId
  PROVE  Seeder!StatusOf(o) \in UploadStatus /\ (o # 0 => o \in ObjectId)
<1>1. CASE o = 0
  BY <1>1 DEF Seeder!StatusOf, UploadStatus
<1>2. CASE o # 0
  <2>1. o \in ObjectId
    BY <1>2, MaxObjectsAssumption DEF NodeId, ObjectId
  <2>2. objects[o].status \in UploadStatus
    BY <2>1 DEF TypeOK, StorageObject
  <2> QED
    BY <1>2, <2>1, <2>2 DEF Seeder!StatusOf
<1> QED
  BY <1>1, <1>2

\* What reading row w yields, when the script knows the id in known, or 0.
Read(w, known) ==
  LET o == IF known = 0 THEN Seeder!ObjectOf(w) ELSE known
  IN  [id |-> o, status |-> Seeder!StatusOf(o)]

\* A row is read: its upload, if it has one by now, and the status of that.
LEMMA ReadRowMoves ==
  ASSUME Base, DemoRests, NEW pc \in {"read", "created", "started"}, NEW wanted,
         Seeder!ReadRow(pc, wanted)
  PROVE  /\ SeederMoves
         /\ seeder.row \in Row
         /\ LET w == seeder.row
                s == [seeder EXCEPT
                        !.row = w + 1,
                        !.seen[w] = IF w \in wanted THEN Read(w, seeder.seen[w].id) ELSE @]
            IN  seeder' = s
<1> DEFINE w == seeder.row
           o == IF seeder.seen[w].id = 0 THEN Seeder!ObjectOf(w) ELSE seeder.seen[w].id
           e == IF w \in wanted THEN [id |-> o, status |-> Seeder!StatusOf(o)]
                ELSE seeder.seen[w]
           s == [seeder EXCEPT !.row = w + 1, !.seen[w] = e]
<1>1. seeder \in SeederState /\ SeederFit(seeder) /\ TypeOK
  BY DEF Base, ScriptTypes, SeederOK, Registry
<1>2. seeder.pc = pc /\ Seeder!Become(s) /\ w <= Rows
  BY DEF Seeder!ReadRow, Seeder!Ready, Seeder!At
<1>3. w \in Nat /\ w \in Row
  BY <1>1, <1>2, RowsAssumption DEF SeederFit, SeederState, Row, Seeder!Row
<1>4. seeder.seen \in [Row -> Reading] /\ seeder.seen[w].id \in NodeId
  BY <1>1, <1>3 DEF SeederState, Reading
<1>5. o \in NodeId /\ (o # 0 => OwnRow(w, o))
  <2>1. CASE seeder.seen[w].id = 0
    BY <1>1, <1>3, <2>1, ObjectOfType, StatusOfType DEF OwnRow
  <2>2. CASE seeder.seen[w].id # 0
    BY <1>1, <1>3, <1>4, <2>2 DEF SeederFit
  <2> QED
    BY <2>1, <2>2
<1>6. Seeder!StatusOf(o) \in UploadStatus /\ (o = 0 => Seeder!StatusOf(o) = "None")
  BY <1>1, <1>5, StatusOfType DEF Seeder!StatusOf
<1> HIDE DEF o
<1>7. e \in Reading
  BY <1>3, <1>4, <1>5, <1>6 DEF Reading
<1>8. /\ e.id = 0 => e.status = "None"
      /\ e.id # 0 => OwnRow(w, e.id)
  <2>1. CASE w \in wanted
    <3>1. e.id = o /\ e.status = Seeder!StatusOf(o)
      BY <2>1
    <3>2. e.id # 0 => OwnRow(w, e.id)
      BY <1>5, <3>1, Zenon
    <3> QED
      BY <1>6, <3>1, <3>2
  <2>2. CASE w \notin wanted
    <3>1. e = seeder.seen[w]
      BY <2>2
    <3>2. /\ seeder.seen[w].id = 0 => seeder.seen[w].status = "None"
          /\ seeder.seen[w].id # 0 => OwnRow(w, seeder.seen[w].id)
      BY <1>1, <1>3 DEF SeederFit
    <3> QED
      BY <3>1, <3>2, Zenon
  <2> QED
    BY <2>1, <2>2
<1> HIDE DEF e
<1>9. s \in SeederState
  <2> DEFINE seen == [seeder.seen EXCEPT ![w] = e]
  <2>1. seen \in [Row -> Reading] /\ w + 1 \in Nat
    BY <1>3, <1>4, <1>7
  <2>2. s = [seeder EXCEPT !.row = w + 1, !.seen = seen]
    BY <1>1 DEF SeederState
  <2> HIDE DEF seen, s
  <2> QED
    BY <1>1, <2>1, <2>2 DEF SeederState
<1>10. /\ s.pc = seeder.pc /\ s.row = w + 1 /\ s.plans = seeder.plans
       /\ s.targets = seeder.targets
       /\ s.seen[w] = e /\ \A v \in Row : v # w => s.seen[v] = seeder.seen[v]
  BY <1>1, <1>3, <1>4 DEF SeederState
<1>11. seeder.row >= 1
  BY <1>1, <1>2 DEF SeederFit
<1>12. SeederFit(s)
  <2> HIDE DEF s
  <2>1. \A v \in Row : /\ s.seen[v].id = 0 => s.seen[v].status = "None"
                       /\ s.seen[v].id # 0 => OwnRow(v, s.seen[v].id)
    <3> SUFFICES ASSUME NEW v \in Row
                 PROVE  /\ s.seen[v].id = 0 => s.seen[v].status = "None"
                        /\ s.seen[v].id # 0 => OwnRow(v, s.seen[v].id)
      OBVIOUS
    <3>1. CASE v = w
      BY <1>8, <1>10, <3>1, Zenon
    <3>2. CASE v # w
      <4>1. s.seen[v] = seeder.seen[v]
        BY <1>10, <3>2
      <4>2. /\ seeder.seen[v].id = 0 => seeder.seen[v].status = "None"
            /\ seeder.seen[v].id # 0 => OwnRow(v, seeder.seen[v].id)
        BY <1>1 DEF SeederFit
      <4> QED
        BY <4>1, <4>2, Zenon
    <3> QED
      BY <3>1, <3>2
  <2>2. s.pc # "idle" /\ s.row >= 1
    BY <1>2, <1>3, <1>10
  <2>3. \A v \in Row : Rank(s.targets[v]) <= Rank(asked[v])
    BY <1>1, <1>2, <1>10 DEF SeederFit
  <2>4. \A i \in DOMAIN s.plans : Warranted(s.plans[i])
    BY <1>1, <1>10 DEF SeederFit
  <2> QED
    BY <2>1, <2>2, <2>3, <2>4 DEF SeederFit
<1>13. SeederMoves
  <2> HIDE DEF s
  <2> QED
    BY <1>2, <1>9, <1>12, SeederTurns DEF DemoRests
<1>14. seeder' = s
  BY <1>2 DEF Seeder!Become
<1> QED
  BY <1>3, <1>13, <1>14 DEF e, o, Read

LEMMA PlanMoves ==
  ASSUME Base, DemoRests,
         Seeder!RequestMissing \/ Seeder!StartRequested \/ Seeder!FinalizeUploading
  PROVE  SeederMoves
<1>1. seeder \in SeederState /\ SeederFit(seeder)
  BY DEF Base, ScriptTypes, SeederOK
<1>2. \A w \in Row : seeder.seen[w].status # "None" =>
        seeder.seen[w].id \in ObjectId /\ OwnRow(w, seeder.seen[w].id)
  BY <1>1 DEF SeederFit, OwnRow
<1>3. seeder.row \in Nat /\ 1 \in Nat /\ 1 >= 1
  BY <1>1 DEF SeederState
<1>4. CASE Seeder!RequestMissing
  <2> DEFINE plans == Seeder!RequestPlans(seeder.seen)
             s == [seeder EXCEPT !.plans = plans, !.pc = "created", !.row = 1]
  <2>1. seeder.pc = "read" /\ Seeder!Become(s)
    BY <1>4 DEF Seeder!RequestMissing, Seeder!AllRead, Seeder!Ready, Seeder!At
  <2>2. plans \in Seq(Calls) /\ \A i \in DOMAIN plans : Warranted(plans[i])
    BY RequestPlansCorrect DEF Warranted
  <2> HIDE DEF plans
  <2>3. s \in SeederState
    BY <1>1, <2>2 DEF SeederState
  <2>4. "created" \in {"relayer", "read", "created", "starting", "finalizing"} /\ seeder.pc # "idle"
    BY <2>1
  <2> HIDE DEF s
  <2>5. s = [seeder EXCEPT !.plans = plans, !.pc = "created", !.row = 1]
    BY DEF s
  <2> QED
    BY <1>3, <2>1, <2>2, <2>3, <2>4, <2>5, SeederPlans, Zenon
<1>5. CASE Seeder!StartRequested
  <2> DEFINE plans == Seeder!StartPlans(seeder.seen, seeder.targets)
             s == [seeder EXCEPT !.plans = plans, !.pc = "starting"]
  <2>1. seeder.pc = "created" /\ Seeder!Become(s)
    BY <1>5 DEF Seeder!StartRequested, Seeder!Plan, Seeder!AllRead, Seeder!Ready, Seeder!At
  <2>2. \A w \in StartDue(seeder.seen, seeder.targets) :
           /\ seeder.seen[w].id \in ObjectId /\ OwnRow(w, seeder.seen[w].id)
           /\ Rank(asked[w]) >= 2
    <3>1. \A w \in Row : Rank(seeder.targets[w]) \in Nat /\ Rank(asked[w]) \in Nat
      <4>1. \A w \in Row : seeder.targets[w] \in UploadStatus /\ asked[w] \in UploadStatus
        BY <1>1 DEF SeederState, Base, ScriptTypes
      <4> QED
        BY <4>1, RankValues
    <3> QED
      BY <1>1, <1>2, <2>1, <3>1 DEF StartDue, SeederFit
  <2>3. plans \in Seq(Calls) /\ \A i \in DOMAIN plans : Warranted(plans[i])
    BY <2>2, StartPlansCorrect DEF Warranted, StartDue
  <2> HIDE DEF plans
  <2>4. s \in SeederState
    BY <1>1, <2>3 DEF SeederState
  <2>5. /\ "starting" \in {"relayer", "read", "created", "starting", "finalizing"}
        /\ "starting" \notin {"read", "created"} /\ seeder.pc # "idle"
    BY <2>1
  <2>6. s = [seeder EXCEPT !.plans = plans, !.pc = "starting", !.row = seeder.row]
    BY <1>1 DEF SeederState
  <2> HIDE DEF s
  <2> QED
    BY <1>3, <2>1, <2>3, <2>4, <2>5, <2>6, SeederPlans, Zenon
<1>6. CASE Seeder!FinalizeUploading
  <2> DEFINE plans == Seeder!FinalizationPlans(seeder.seen, seeder.targets)
             s == [seeder EXCEPT !.plans = plans, !.pc = "finalizing"]
  <2>1. seeder.pc = "started" /\ Seeder!Become(s)
    BY <1>6 DEF Seeder!FinalizeUploading, Seeder!Plan, Seeder!AllRead, Seeder!Ready, Seeder!At
  <2>2. \A w \in FinalizeDue(seeder.seen, seeder.targets) :
           /\ seeder.seen[w].id \in ObjectId /\ OwnRow(w, seeder.seen[w].id)
           /\ Rank(asked[w]) >= 3
    <3>1. \A w \in Row : Rank(seeder.targets[w]) \in Nat /\ Rank(asked[w]) \in Nat
      <4>1. \A w \in Row : seeder.targets[w] \in UploadStatus /\ asked[w] \in UploadStatus
        BY <1>1 DEF SeederState, Base, ScriptTypes
      <4> QED
        BY <4>1, RankValues
    <3> QED
      BY <1>1, <1>2, <2>1, <3>1 DEF FinalizeDue, SeederFit
  <2>3. plans \in Seq(Calls) /\ \A i \in DOMAIN plans : Warranted(plans[i])
    BY <2>2, FinalizationPlansCorrect DEF Warranted, FinalizeDue
  <2> HIDE DEF plans
  <2>4. s \in SeederState
    BY <1>1, <2>3 DEF SeederState
  <2>5. /\ "finalizing" \in {"relayer", "read", "created", "starting", "finalizing"}
        /\ "finalizing" \notin {"read", "created"} /\ seeder.pc # "idle"
    BY <2>1
  <2>6. s = [seeder EXCEPT !.plans = plans, !.pc = "finalizing", !.row = seeder.row]
    BY <1>1 DEF SeederState
  <2> HIDE DEF s
  <2> QED
    BY <1>3, <2>1, <2>3, <2>4, <2>5, <2>6, SeederPlans, Zenon
<1> QED
  BY <1>4, <1>5, <1>6

\* What MarkStarted makes of the readings.
Started(seen, targets) ==
  [w \in Row |-> IF w \in StartDue(seen, targets)
                 THEN [seen[w] EXCEPT !.status = "Uploading"] ELSE seen[w]]

LEMMA MarkStartedMoves ==
  ASSUME Base, DemoRests, Seeder!MarkStarted
  PROVE  /\ SeederMoves
         /\ seeder' = [seeder EXCEPT !.pc = "started", !.row = 1,
                                     !.seen = Started(seeder.seen, seeder.targets)]
<1> DEFINE seen == Started(seeder.seen, seeder.targets)
           s == [seeder EXCEPT !.pc = "started", !.row = 1, !.seen = seen]
<1>1. seeder \in SeederState /\ SeederFit(seeder)
  BY DEF Base, ScriptTypes, SeederOK
<1>2. seeder.pc = "starting" /\ Seeder!Become(s)
  BY DEF Seeder!MarkStarted, Seeder!Ready, Seeder!At, Started, StartDue, Row, Rank
<1>3. seeder.seen \in [Row -> Reading]
  BY <1>1 DEF SeederState
<1>4. \A e \in Reading : /\ [e EXCEPT !.status = "Uploading"] \in Reading
                         /\ [e EXCEPT !.status = "Uploading"].id = e.id
  BY DEF Reading, UploadStatus
<1>5. seen \in [Row -> Reading] /\ \A w \in Row : seen[w].id = seeder.seen[w].id
  BY <1>3, <1>4 DEF Started
<1>6. \A w \in Row : seen[w].id = 0 => seen[w].status = "None"
  BY <1>1, <1>3 DEF SeederFit, Started, StartDue
<1> HIDE DEF seen
<1>7. s \in SeederState
  BY <1>1, <1>5 DEF SeederState
<1>8. /\ s.pc = "started" /\ s.row = 1 /\ s.plans = seeder.plans /\ s.seen = seen
      /\ s.targets = seeder.targets
  BY <1>1 DEF SeederState
<1>9. seeder' = s
  BY <1>2 DEF Seeder!Become
<1> HIDE DEF s
<1>10. \A w \in Row : s.seen[w].id # 0 => OwnRow(w, s.seen[w].id)
  <2> SUFFICES ASSUME NEW w \in Row, s.seen[w].id # 0 PROVE OwnRow(w, s.seen[w].id)
    OBVIOUS
  <2>1. s.seen[w].id = seeder.seen[w].id
    BY <1>5, <1>8
  <2>2. seeder.seen[w].id # 0 => OwnRow(w, seeder.seen[w].id)
    BY <1>1 DEF SeederFit
  <2> QED
    BY <2>1, <2>2, Zenon
<1>11. SeederFit(s)
  <2>1. \A w \in Row : Rank(s.targets[w]) <= Rank(asked[w])
    BY <1>1, <1>2, <1>8 DEF SeederFit
  <2>2. \A i \in DOMAIN s.plans : Warranted(s.plans[i])
    BY <1>1, <1>8 DEF SeederFit
  <2> QED
    BY <1>6, <1>8, <1>10, <2>1, <2>2 DEF SeederFit
<1>12. SeederMoves
  BY <1>2, <1>7, <1>11, SeederTurns DEF DemoRests
<1> QED
  BY <1>9, <1>12 DEF s, seen

LEMMA WriteSummaryMoves ==
  ASSUME Base, DemoRests, Seeder!WriteSummary
  PROVE  SeederMoves
<1>1. seeder \in SeederState /\ giveUps \in Nat
  BY DEF Base, ScriptTypes
<1>2. summary' \in [Row -> UploadStatus]
  BY <1>1 DEF Seeder!WriteSummary, SeederState, Reading, Row, UploadStatus, FinalizationStatus
<1>3. UNCHANGED <<vars, asked, giveUps, poolVars>> /\ seeder' = Seeder!Idle
  BY SameChain, SeederQuiet DEF Seeder!WriteSummary, Seeder!poolVars, poolVars
<1>4. SendsAtMost /\ outcome' = outcome
  BY <1>3 DEF SendsAtMost, poolVars
<1> QED
  BY <1>1, <1>2, <1>3, <1>4, SeederIdleFits, SeederBecomes DEF DemoRests

LEMMA SeederGiveUpMoves ==
  ASSUME Base, DemoRests, Seeder!GiveUp
  PROVE  SeederMoves
<1>1. giveUps \in Nat /\ summary \in [Row -> UploadStatus]
  BY DEF Base, ScriptTypes
<1>2. /\ UNCHANGED <<vars, poolVars, asked, summary>> /\ seeder' = Seeder!Idle
      /\ giveUps' = giveUps + 1
  BY SameUnchanged DEF Seeder!GiveUp
<1>3. SendsAtMost /\ outcome' = outcome
  BY <1>2 DEF SendsAtMost, poolVars
<1> QED
  BY <1>1, <1>2, <1>3, SeederIdleFits, SeederBecomes DEF DemoRests

LEMMA SeederBeginMoves ==
  ASSUME Base, DemoRests, NEW targets \in Targets, Seeder!Begin(targets)
  PROVE  SeederMoves
<1> DEFINE s == [Seeder!Idle EXCEPT !.pc = "coordinator", !.targets = targets,
                                    !.settled = Seeder!AtTargets(targets)]
<1>1. /\ giveUps \in Nat /\ summary \in [Row -> UploadStatus]
      /\ asked \in [Row -> UploadStatus] /\ TypeOK
  BY DEF Base, ScriptTypes, Registry
<1>2. /\ UNCHANGED <<vars, poolVars, giveUps, summary>> /\ seeder' = s
      /\ asked' = [w \in Row |-> IF Rank(targets[w]) > Rank(asked[w])
                                 THEN targets[w] ELSE asked[w]]
  <2>1. UNCHANGED giveUps /\ UNCHANGED summary
    BY DEF Seeder!Begin
  <2>2. UNCHANGED vars /\ UNCHANGED poolVars
    BY SameUnchanged DEF Seeder!Begin
  <2>3. seeder' = s
    BY DEF Seeder!Begin
  <2>4. asked' = [w \in Row |-> IF Rank(targets[w]) > Rank(asked[w])
                                THEN targets[w] ELSE asked[w]]
    BY DEF Seeder!Begin, Row, Rank
  <2> QED
    BY <2>1, <2>2, <2>3, <2>4
<1>3. targets \in [Row -> UploadStatus]
  BY RowsAssumption DEF Row, UploadStatus, FinalizationStatus
<1>4. \A w \in Row : Rank(targets[w]) \in Nat /\ Rank(asked[w]) \in Nat
  <2>1. \A w \in Row : targets[w] \in UploadStatus /\ asked[w] \in UploadStatus
    BY <1>1, <1>3
  <2> QED
    BY <2>1, RankValues
<1>5. asked' \in [Row -> UploadStatus]
  BY <1>1, <1>2, <1>3
<1>6. /\ \A w \in Row : Rank(asked[w]) <= Rank(asked'[w])
      /\ \A w \in Row : Rank(targets[w]) <= Rank(asked'[w])
  BY <1>2, <1>4
<1>7. Seeder!AtTargets(targets) \in BOOLEAN
  BY DEF Seeder!AtTargets
<1>8. /\ s \in SeederState /\ s.pc = "coordinator" /\ s.plans = <<>>
      /\ s.targets = targets /\ s.seen = Seeder!NothingSeen
  <2>1. Seeder!Idle \in SeederState /\ Seeder!Idle.plans = <<>> /\ Seeder!Idle.seen = Seeder!NothingSeen
    BY SeederIdleFits DEF Seeder!Idle
  <2> QED
    BY <1>3, <1>7, <2>1 DEF SeederState
<1>9. \A w \in Row : Seeder!NothingSeen[w] = [id |-> 0, status |-> "None"]
  BY DEF Seeder!NothingSeen, Row
<1> HIDE DEF s
<1>10. SeederOK'
  BY <1>2, <1>6, <1>8, <1>9 DEF SeederOK, SeederFit
<1>11. SendsAtMost /\ outcome' = outcome
  BY <1>2 DEF SendsAtMost, poolVars
<1> QED
  BY <1>1, <1>2, <1>5, <1>6, <1>8, <1>10, <1>11 DEF SeederMoves, DemoRests, AskedGrow

LEMMA SeederRunsMove ==
  ASSUME Base, DemoRests, Seeder!SeederRuns
  PROVE  SeederMoves
<1>1. CASE Seeder!Step
  <2>1. ASSUME NEW pc \in {"read", "created", "started"}, NEW wanted, Seeder!ReadRow(pc, wanted)
        PROVE  SeederMoves
    BY <2>1, ReadRowMoves
  <2> QED
    BY <1>1, <2>1, SetupMoves, PlanMoves, MarkStartedMoves, WriteSummaryMoves,
       SendOneMoves, AwaitBatchMoves
    DEF Seeder!Step, Seeder!ReadExisting, Seeder!ReadCreated, Seeder!ReadStarted
<1> QED
  BY <1>1, SeederGiveUpMoves, SeederBeginMoves DEF Seeder!SeederRuns

-----------------------------------------------------------------------------
(* A step of the chain *)

\* The owner's cancellation is a call of the registry.
LEMMA CancelRowCancels ==
  ASSUME NEW c, NEW o, Seeder!CancelUpload(c, o)
  PROVE  CancelUpload(c, o)
BY DEF Seeder!CancelUpload, CancelUpload, Seeder!MutableObject, MutableObject,
   Seeder!Terminal, Terminal, Seeder!FinalizationStatus, FinalizationStatus,
   Seeder!CloseUnsettled, CloseUnsettled, Seeder!Releasable, Releasable,
   Seeder!RequestedBytes, RequestedBytes, Seeder!RemoveActiveObject,
   RemoveActiveObject, Seeder!Unlink, Unlink, Seeder!GlobalList, GlobalList,
   Seeder!ReleaseUsage, ReleaseUsage, Seeder!indexVars, indexVars,
   Seeder!requestVars, requestVars, Seeder!adminVars, adminVars,
   Seeder!datasetVars, datasetVars

\* What a call stores of the hashes it was sent with.
LEMMA StoredDetailsType ==
  ASSUME TypeOK, NEW t \in Calls, details \in [ObjectId -> Details],
         Call(t)
  PROVE  /\ StoredDetails(t) \in [ObjectId -> Details]
         /\ \A o \in ObjectId : o < nextObjectId =>
              StoredDetails(t)[o].request = details[o].request
<1>1. ASSUME "hashes" \in DOMAIN t PROVE t.hashes \in Prints
  BY <1>1, CallKinds DEF SetCoordinatorCall, SetRelayerCall, DemoRequest, DemoStart,
     DemoRecord, DemoFinalize, RowRequest, RowStart, RowRecord, RowFinalize, Prints
<1>2. nextObjectId \in Nat
  BY MaxObjectsAssumption DEF TypeOK
<1>3. \A d \in Details, h \in Prints :
        /\ [d EXCEPT !.request = h] \in Details
        /\ [d EXCEPT !.receipt = h] \in Details
        /\ [d EXCEPT !.receipt = h].request = d.request
  BY DEF Details
<1>4. CASE "hashes" \in DOMAIN t /\ t.fn = "requestUpload"
  <2>1. StoredDetails(t) = [details EXCEPT ![nextObjectId] = [details[nextObjectId] EXCEPT !.request = t.hashes]]
    BY <1>4 DEF StoredDetails
  <2> DEFINE n == nextObjectId
             d == [details[n] EXCEPT !.request = t.hashes]
  <2>2. n \in ObjectId => d \in Details
    BY <1>1, <1>3, <1>4
  <2>3. StoredDetails(t) = [details EXCEPT ![n] = d]
    BY <2>1
  <2> HIDE DEF d, n
  <2>4. StoredDetails(t) \in [ObjectId -> Details]
    BY <2>2, <2>3
  <2>5. \A o \in ObjectId : StoredDetails(t)[o] = IF o = n THEN d ELSE details[o]
    BY <2>3
  <2> QED
    BY <1>2, <2>2, <2>4, <2>5 DEF n
<1>5. CASE "hashes" \in DOMAIN t /\ t.fn = "finalizeUpload"
  <2>1. StoredDetails(t) = [details EXCEPT ![t.id] = [details[t.id] EXCEPT !.receipt = t.hashes]]
    BY <1>5 DEF StoredDetails
  <2> DEFINE n == t.id
             d == [details[n] EXCEPT !.receipt = t.hashes]
  <2>2. n \in ObjectId => d \in Details /\ d.request = details[n].request
    BY <1>1, <1>3, <1>5
  <2>3. StoredDetails(t) = [details EXCEPT ![n] = d]
    BY <2>1
  <2> HIDE DEF d, n
  <2>4. StoredDetails(t) \in [ObjectId -> Details]
    BY <2>2, <2>3
  <2>5. \A o \in ObjectId : StoredDetails(t)[o] = IF o = n THEN d ELSE details[o]
    BY <2>3
  <2> QED
    BY <1>2, <2>2, <2>4, <2>5 DEF n
<1>6. CASE StoredDetails(t) = details
  BY <1>6
<1> QED
  BY <1>4, <1>5, <1>6 DEF StoredDetails

LEMMA MineNextMoves ==
  ASSUME Base, MineNext
  PROVE  /\ ChainStep /\ DetailsGrow
         /\ details' \in [ObjectId -> Details]
         /\ UNCHANGED <<run, evidence, giveUps, lapses, sent>>
         /\ Len(outcome) < Len(sent)
         /\ \E ok \in BOOLEAN :
              /\ outcome' = Append(outcome, ok)
              /\ ok => Call(sent[Len(outcome) + 1])
              /\ ~ok => /\ ~CallAccepted(sent[Len(outcome) + 1])
                        /\ UNCHANGED <<vars, details>>
<1> DEFINE t == sent[Len(outcome) + 1]
<1>1. PICK ok \in BOOLEAN :
        /\ Mine(ok)
        /\ details' = IF ok THEN StoredDetails(t) ELSE details
  BY DEF MineNext
<1>2. /\ Len(outcome) < Len(sent) /\ outcome' = Append(outcome, ok) /\ sent' = sent
      /\ ok => Call(t)
      /\ ~ok => ~CallAccepted(t) /\ UNCHANGED vars
  BY <1>1 DEF Mine, Unmined
<1>3. /\ sent \in Seq(Calls) /\ outcome \in Seq(BOOLEAN)
      /\ details \in [ObjectId -> Details] /\ TypeOK
  BY DEF Base, ScriptTypes, PoolTypes, Registry
<1>4. t \in Calls
  <2>1. Len(outcome) \in Nat /\ Len(sent) \in Nat
    BY <1>3
  <2>2. Len(outcome) + 1 \in 1..Len(sent)
    BY <1>2, <2>1
  <2> QED
    BY <1>3, <2>2
<1> HIDE DEF t
<1>5. ASSUME ok
      PROVE  ChainStep /\ DetailsGrow /\ details' \in [ObjectId -> Details]
  <2>1. ChainStep
    BY <1>2, <1>4, <1>5, Zenon DEF ChainStep
  <2>2. details' = StoredDetails(t)
    BY <1>1, <1>5 DEF t
  <2>3. /\ StoredDetails(t) \in [ObjectId -> Details]
        /\ \A o \in ObjectId : o < nextObjectId =>
             StoredDetails(t)[o].request = details[o].request
    BY <1>2, <1>3, <1>4, <1>5, StoredDetailsType
  <2> QED
    BY <2>1, <2>2, <2>3 DEF DetailsGrow
<1>6. ASSUME ~ok
      PROVE  /\ ChainStep /\ DetailsGrow /\ details' \in [ObjectId -> Details]
             /\ UNCHANGED <<vars, details>>
  <2>1. UNCHANGED vars /\ details' = details
    BY <1>1, <1>2, <1>6
  <2>2. ChainStep
    BY <2>1, Zenon DEF ChainStep
  <2> QED
    BY <1>3, <2>1, <2>2 DEF DetailsGrow
<1>7. UNCHANGED <<run, evidence, giveUps, lapses>>
  BY DEF MineNext
<1> QED
  BY <1>1, <1>2, <1>5, <1>6, <1>7 DEF t

-----------------------------------------------------------------------------
(* A step of anybody *)

LEMMA ScriptsMove ==
  ASSUME Base, [ScriptsNext]_scriptsVars
  PROVE  \/ (\E r \in Run : DemoMoves(r)) /\ UNCHANGED seederVars
         \/ MineNext /\ UNCHANGED seederVars
         \/ Passing /\ UNCHANGED seederVars
         \/ SeederMoves
         \/ Seeder!CancelRow /\ UNCHANGED <<details, run, evidence, lapses>>
         \/ UNCHANGED scriptsVars
<1>1. CASE DemoRuns /\ UNCHANGED seederVars
  BY <1>1, DemoRunsMove
<1>2. CASE Seeder!SeederRuns /\ UNCHANGED <<details, run, evidence, lapses>>
  BY <1>2, SeederRunsMove DEF DemoRests
<1> QED
  BY <1>1, <1>2 DEF ScriptsNext

\* What the pool of transactions is like after a script's step.
LEMMA PoolAfterSend ==
  ASSUME Base, SendsAtMost, outcome' = outcome
  PROVE  /\ PoolTypes' /\ PoolGrows
         /\ \A h \in DOMAIN sent' : h \in DOMAIN sent \/ Warranted(sent'[h])
<1>1. /\ sent \in Seq(Calls) /\ outcome \in Seq(BOOLEAN) /\ Len(outcome) <= Len(sent)
  BY DEF Base, ScriptTypes, PoolTypes
<1>2. CASE sent' = sent
  BY <1>1, <1>2 DEF PoolTypes, PoolGrows
<1>3. ASSUME NEW t \in Calls, Warranted(t), sent' = Append(sent, t)
      PROVE  /\ PoolTypes' /\ PoolGrows
             /\ \A h \in DOMAIN sent' : h \in DOMAIN sent \/ Warranted(sent'[h])
  <2>1. /\ sent' \in Seq(Calls) /\ Len(sent') = Len(sent) + 1
        /\ DOMAIN sent' = 1..(Len(sent) + 1) /\ DOMAIN sent = 1..Len(sent)
        /\ \A h \in 1..Len(sent) : sent'[h] = sent[h]
        /\ sent'[Len(sent) + 1] = t
        /\ Len(sent) \in Nat /\ Len(outcome) \in Nat
    BY <1>1, <1>3
  <2>2. PoolTypes' /\ PoolGrows
    BY <1>1, <2>1 DEF PoolTypes, PoolGrows
  <2>3. ASSUME NEW h \in DOMAIN sent', h \notin DOMAIN sent
        PROVE  Warranted(sent'[h])
    <3>1. sent'[h] = t
      BY <2>1, <2>3
    <3> QED
      BY <1>3, <3>1, Zenon
  <2> QED
    BY <2>2, <2>3
<1> QED
  BY <1>2, <1>3 DEF SendsAtMost

Framed == /\ ChainStep /\ DetailsGrow /\ AskedGrow /\ PoolGrows /\ ScriptTypes'
          /\ \A h \in DOMAIN sent' : h \in DOMAIN sent \/ Warranted(sent'[h])

LEMMA ScriptsFrame ==
  ASSUME Base, [ScriptsNext]_scriptsVars
  PROVE  Framed
<1>1. /\ ScriptTypes /\ PoolTypes
      /\ sent \in Seq(Calls) /\ outcome \in Seq(BOOLEAN)
      /\ Len(outcome) \in Nat /\ Len(sent) \in Nat
  BY DEF Base, ScriptTypes, PoolTypes
<1>2. UNCHANGED asked => AskedGrow
  <2>1. \A w \in Row : asked[w] \in UploadStatus
    BY <1>1 DEF ScriptTypes
  <2>2. \A w \in Row : Rank(asked[w]) \in Nat
    BY <2>1, RankValues
  <2> QED
    BY <2>2 DEF AskedGrow
<1>3. UNCHANGED details => DetailsGrow
  BY DEF DetailsGrow
<1>4. UNCHANGED poolVars => PoolGrows /\ PoolTypes' /\ \A h \in DOMAIN sent' : h \in DOMAIN sent
  BY <1>1 DEF PoolGrows, PoolTypes, poolVars
<1>5. ASSUME NEW r \in Run, DemoMoves(r), UNCHANGED seederVars PROVE Framed
  <2>1. ChainStep
    BY <1>5, Zenon DEF DemoMoves, ChainStep
  <2>2. /\ UNCHANGED <<details, outcome>> /\ SendsAtMost
        /\ evidence' \in EvidenceFile /\ giveUps' \in Nat
        /\ run' \in [Run -> RunState]
    BY <1>1, <1>5 DEF DemoMoves, DemoSends, SendsAtMost, Calls, ScriptTypes
  <2>3. /\ PoolTypes' /\ PoolGrows
        /\ \A h \in DOMAIN sent' : h \in DOMAIN sent \/ Warranted(sent'[h])
    BY <2>2, PoolAfterSend
  <2>4. ScriptTypes'
    BY <1>1, <1>5, <2>2, <2>3 DEF ScriptTypes, seederVars
  <2> QED
    BY <1>2, <1>3, <1>5, <2>1, <2>2, <2>3, <2>4 DEF Framed, seederVars
<1>6. CASE MineNext /\ UNCHANGED seederVars
  <2>1. /\ ChainStep /\ DetailsGrow /\ details' \in [ObjectId -> Details]
        /\ UNCHANGED <<run, evidence, giveUps, sent>>
        /\ Len(outcome) < Len(sent)
    BY <1>6, MineNextMoves
  <2>2. PICK ok \in BOOLEAN : outcome' = Append(outcome, ok)
    BY <1>6, MineNextMoves
  <2>3. /\ outcome' \in Seq(BOOLEAN) /\ Len(outcome') = Len(outcome) + 1
        /\ \A h \in DOMAIN outcome : h \in DOMAIN outcome' /\ outcome'[h] = outcome[h]
    BY <1>1, <2>2
  <2>4. PoolTypes' /\ PoolGrows
    BY <1>1, <2>1, <2>3 DEF PoolTypes, PoolGrows
  <2>5. ScriptTypes'
    BY <1>1, <1>6, <2>1, <2>4 DEF ScriptTypes, seederVars
  <2> QED
    BY <1>2, <1>6, <2>1, <2>4, <2>5 DEF Framed, seederVars
<1>7. CASE Passing /\ UNCHANGED seederVars
  <2>1. ChainStep
    BY <1>7, Zenon DEF Passing, ChainStep
  <2>2. UNCHANGED <<poolVars, details, run, evidence, giveUps, seeder, summary, asked>>
    BY <1>7 DEF Passing, seederVars
  <2> QED
    BY <1>1, <1>2, <1>3, <1>4, <2>1, <2>2 DEF Framed, ScriptTypes
<1>8. CASE SeederMoves
  <2>1. ChainStep
    BY <1>8, Zenon DEF SeederMoves, ChainStep
  <2>2. /\ PoolTypes' /\ PoolGrows
        /\ \A h \in DOMAIN sent' : h \in DOMAIN sent \/ Warranted(sent'[h])
    BY <1>8, PoolAfterSend DEF SeederMoves
  <2> QED
    BY <1>1, <1>3, <1>8, <2>1, <2>2 DEF SeederMoves, Framed, ScriptTypes
<1>9. CASE Seeder!CancelRow /\ UNCHANGED <<details, run, evidence, lapses>>
  <2>1. UNCHANGED <<poolVars, seeder, summary, asked, giveUps>>
    BY <1>9, SameUnchanged DEF Seeder!CancelRow
  <2>2. ChainStep
    <3>1. PICK o \in Seeder!ObjectId : Seeder!CancelUpload(owner, o)
      BY <1>9, Zenon DEF Seeder!CancelRow
    <3>2. o \in ObjectId /\ CancelUpload(owner, o)
      BY <3>1, CancelRowCancels DEF Seeder!ObjectId, ObjectId
    <3> QED
      BY <3>2, Zenon DEF ChainStep
  <2> QED
    BY <1>1, <1>2, <1>3, <1>4, <1>9, <2>1, <2>2 DEF Framed, ScriptTypes
<1>10. CASE UNCHANGED scriptsVars
  <2>1. UNCHANGED <<vars, poolVars, details, run, evidence, giveUps, seeder, summary, asked>>
    BY <1>10 DEF scriptsVars, demoVars, seederVars
  <2>2. ChainStep
    BY <2>1, Zenon DEF ChainStep
  <2> QED
    BY <1>1, <1>2, <1>3, <1>4, <2>1, <2>2 DEF Framed, ScriptTypes
<1> QED
  BY <1>5, <1>6, <1>7, <1>8, <1>9, <1>10, ScriptsMove

LEMMA RegistryKept ==
  ASSUME Registry, [Next]_vars
  PROVE  Registry'
<1>1. TypeOK'
  BY TypeStep DEF Registry
<1>2. IndexMatchesStatus'
  BY <1>1, IndexStep DEF Registry
<1>3. IdempotencyKeyNamesOneUpload'
  BY IdempotencyStep DEF Registry, IndexMatchesStatus
<1>4. ListsExact'
  BY ListsStep DEF Registry
<1> QED
  BY <1>1, <1>2, <1>3, <1>4 DEF Registry

LEMMA BaseStep ==
  ASSUME Base, [ScriptsNext]_scriptsVars
  PROVE  Base' /\ Grows
<1>1. Framed
  BY ScriptsFrame
<1>2. Registry /\ TypeOK /\ IndexMatchesStatus /\ now > 0 /\ ScriptTypes
  BY DEF Base, Registry, ListsExact, RolesExact, DatasetsExact
<1>3. [Next]_vars
  BY <1>1, <1>2, ChainIsRegistry DEF Framed
<1>4. Registry' /\ TypeOK'
  BY <1>2, <1>3, RegistryKept DEF Registry
<1>5. UploadsGrow
  BY <1>2, <1>3, <1>4, UploadsOnlyGrow
<1>6. RolesGrow
  BY <1>1, <1>2, RolesOnlyGrow DEF Framed
<1>7. Grows /\ ScriptTypes'
  BY <1>1, <1>5, <1>6 DEF Grows, Framed
<1>8. \A t : Warranted(t) => Warranted(t)'
  BY <1>2, <1>7, WarrantKept DEF Grows
<1>9. ASSUME NEW h \in DOMAIN sent' PROVE Warranted(sent[h])'
  <2> SUFFICES ASSUME NEW t, t = sent'[h] PROVE Warranted(t)'
    BY DEF Warranted
  <2>1. CASE h \in DOMAIN sent
    <3>1. Warranted(sent[h]) /\ sent[h] = t
      BY <1>7, <2>1 DEF Base, Grows, PoolGrows
    <3>2. Warranted(t)
      BY <3>1, Zenon
    <3> QED
      BY <1>8, <3>2
  <2>2. CASE h \notin DOMAIN sent
    <3>1. Warranted(sent'[h])
      BY <1>1, <2>2 DEF Framed
    <3>2. Warranted(t)
      BY <3>1, Zenon
    <3> QED
      BY <1>8, <3>2
  <2> QED
    BY <2>1, <2>2
<1>10. ASSUME NEW q \in Run PROVE RunOK(run[q])'
  <2> SUFFICES ASSUME NEW s, s = run'[q] PROVE RunOK(s)'
    BY DEF RunOK
  <2>1. RunOK(s)
    <3>1. CASE run'[q] = run[q]
      <4>1. RunOK(run[q])
        BY DEF Base
      <4> QED
        BY <3>1, <4>1, Zenon
    <3>2. ASSUME NEW r \in Run, DemoMoves(r) PROVE RunOK(s)
      <4>1. PICK next \in RunState : RunOK(next) /\ run' = [run EXCEPT ![r] = next]
        BY <3>2 DEF DemoMoves
      <4>2. run \in [Run -> RunState]
        BY <1>2 DEF ScriptTypes
      <4>3. CASE q = r
        <5>1. s = next
          BY <4>1, <4>2, <4>3
        <5> QED
          BY <4>1, <5>1, Zenon
      <4>4. CASE q # r
        BY <3>1, <4>1, <4>2, <4>4
      <4> QED
        BY <4>3, <4>4
    <3>3. CASE UNCHANGED run
      BY <3>1, <3>3
    <3>4. \/ \E r \in Run : DemoMoves(r)
          \/ UNCHANGED run
      BY ScriptsMove, MineNextMoves
      DEF Passing, SeederMoves, scriptsVars, demoVars
    <3> QED
      BY <3>2, <3>3, <3>4
  <2> QED
    BY <1>2, <1>7, <2>1, RunKept DEF Grows
<1>11. SeederOK'
  <2>1. CASE SeederMoves
    BY <2>1 DEF SeederMoves
  <2>2. CASE UNCHANGED seeder
    <3> SUFFICES ASSUME NEW s \in SeederState, s = seeder PROVE SeederFit(s)'
      BY <1>2, <2>2 DEF SeederOK, SeederFit, ScriptTypes
    <3>1. SeederFit(seeder)
      BY DEF Base, SeederOK
    <3>2. SeederFit(s)
      BY <3>1, Zenon
    <3> QED
      BY <1>2, <1>7, <3>2, SeederKept DEF Grows
  <2>3. SeederMoves \/ UNCHANGED seeder
    BY ScriptsMove DEF seederVars, scriptsVars, Seeder!CancelRow
  <2> QED
    BY <2>1, <2>2, <2>3
<1> QED
  BY <1>4, <1>7, <1>9, <1>10, <1>11 DEF Base

LEMMA BaseAlways == ScriptsSpec => []Base
<1>1. Base /\ [ScriptsNext]_scriptsVars => Base'
  BY BaseStep
<1> QED
  BY <1>1, BaseInit, PTL DEF ScriptsSpec

\* The registry stays the registry: while the scripts run, by whichever of
\* the two and in whatever order calls arrive, the contract only takes its
\* own steps, so that every theorem about it holds here.
THEOREM ScriptsKeepRegistry == ScriptsSpec => Spec
<1>1. ScriptsInit => Init
  BY DEF ScriptsInit, DemoInit, PoolInit
<1>2. Base /\ [ScriptsNext]_scriptsVars => [Next]_vars
  <2> SUFFICES ASSUME Base, [ScriptsNext]_scriptsVars PROVE [Next]_vars
    OBVIOUS
  <2>1. ChainStep
    BY ScriptsFrame DEF Framed
  <2> QED
    BY <2>1, ChainIsRegistry DEF Base, Registry
<1> QED
  BY <1>1, <1>2, BaseAlways, PTL DEF ScriptsSpec, Spec

\* A run never carries on somebody else's upload: each call of the demo that
\* starts or finalizes an upload was made for the piece and the dataset the
\* upload was requested with (assertStorageObjectMatchesRequest before each).
THEOREM OwnUploadAdvanced == ScriptsSpec => []OnlyOwnUploadAdvanced
<1>1. Base => OnlyOwnUploadAdvanced
  <2> SUFFICES ASSUME Base, NEW h \in DOMAIN sent, NEW t, t = sent[h],
                      t.fn \in {"startUpload", "finalizeUpload"},
                      "hashes" \in DOMAIN t
               PROVE  details[t.id].request = <<t.hashes[1], t.hashes[2]>>
    BY DEF OnlyOwnUploadAdvanced
  <2>1. Warranted(t)
    <3>1. Warranted(sent[h])
      BY DEF Base
    <3> QED
      BY <3>1, Zenon
  <2>2. PICK env \in Env, o \in ObjectId :
          (t = DemoStart(env, o) \/ t = DemoFinalize(env, o)) /\ Own(env, o)
    BY <2>1 DEF Warranted, SetupCalls, SetCoordinatorCall, SetRelayerCall,
       DemoRequest, DemoRecord, RowRequest, RowRecord, RowStart, RowFinalize
  <2>3. t.id = o /\ t.hashes[1] = env.piece /\ t.hashes[2] = env.dataset
    BY <2>2 DEF DemoStart, DemoFinalize, RequestHashes, ReceiptHashes
  <2>4. details[o].request = <<env.piece, env.dataset>>
    BY <2>2 DEF Own, RequestMatches, RequestHashes
  <2> QED
    BY <2>3, <2>4
<1> QED
  BY <1>1, BaseAlways, PTL

-----------------------------------------------------------------------------
(* A settled run *)

\* Row w has come as far as this target, and has an upload.
Reached(w, target) ==
  Seeder!ObjectOf(w) # 0 /\ Rank(target) <= Rank(Seeder!StatusOf(Seeder!ObjectOf(w)))

\* The script knows that of row w.
Known(s, w) == s.seen[w].id # 0 /\ Rank(s.targets[w]) <= Rank(s.seen[w].status)

\* A run that began with everything in place finds nothing to plan.
SettledFit(s) ==
  s.settled =>
    /\ ~s.sentAny /\ s.plans = <<>> /\ s.awaiting = {}
    /\ coordinatorPolicies[Operator] = StandingPolicy /\ Operator \in relayers
    /\ \A w \in Row : Reached(w, s.targets[w])
    /\ s.pc = "read" => \A w \in Row : w < s.row => Known(s, w)
    /\ s.pc \in {"created", "starting", "started", "finalizing"} =>
         \A w \in Row : Known(s, w)

LEMMA ReachedKept ==
  ASSUME TypeOK, TypeOK', UploadsGrow, NEW w \in Row, NEW target \in UploadStatus,
         Reached(w, target)
  PROVE  Reached(w, target)'
<1> DEFINE o == Seeder!ObjectOf(w)
<1>1. o \in ObjectId /\ o # 0
  BY ObjectOfType, StatusOfType DEF Reached
<1>2. Seeder!ObjectOf(w)' = o
  <2>1. RowAccount[w] \in Account /\ RowKey[w] \in IdempotencyKey
    BY RowsAssumption DEF Row
  <2> QED
    BY <1>1, <2>1 DEF UploadsGrow, Seeder!ObjectOf
<1>3. Rank(objects[o].status) <= Rank(objects'[o].status)
  BY <1>1 DEF UploadsGrow
<1>4. objects[o].status \in UploadStatus /\ objects'[o].status \in UploadStatus
  BY <1>1 DEF TypeOK, StorageObject
<1>5. Rank(objects[o].status) \in Nat /\ Rank(objects'[o].status) \in Nat /\ Rank(target) \in Nat
  BY <1>4, RankValues
<1>6. Rank(target) <= Rank(objects[o].status)
  BY <1>1 DEF Reached, Seeder!StatusOf
<1> HIDE DEF o
<1>7. Rank(target) <= Rank(objects'[o].status)
  BY <1>3, <1>5, <1>6
<1> QED
  BY <1>1, <1>2, <1>7 DEF Reached, Seeder!StatusOf, Rank

LEMMA SettledKept ==
  ASSUME Base, Base', Grows, NEW s \in SeederState, SettledFit(s)
  PROVE  SettledFit(s)'
<1>1. \A w \in Row : s.targets[w] \in UploadStatus
  BY DEF SeederState
<1>2. TypeOK /\ TypeOK'
  BY DEF Base, Registry
<1>3. \A w \in Row : Reached(w, s.targets[w]) => Reached(w, s.targets[w])'
  BY <1>1, <1>2, ReachedKept DEF Grows
<1>4. /\ coordinatorPolicies[Operator] = StandingPolicy =>
           coordinatorPolicies'[Operator] = StandingPolicy
      /\ Operator \in relayers => Operator \in relayers'
  BY DEF Grows, RolesGrow
<1> QED
  BY <1>3, <1>4 DEF SettledFit, Known

\* No plans follow from rows that are all where they should be.
LEMMA NothingDue ==
  ASSUME NEW s \in SeederState, \A w \in Row : Known(s, w)
  PROVE  /\ Seeder!RequestPlans(s.seen) = <<>>
         /\ StartDue(s.seen, s.targets) = {} /\ FinalizeDue(s.seen, s.targets) = {}
         /\ Seeder!StartPlans(s.seen, s.targets) = <<>>
         /\ Seeder!FinalizationPlans(s.seen, s.targets) = <<>>
<1>1. \A w \in Row : /\ s.targets[w] \in UploadStatus /\ s.seen[w].status \in UploadStatus
  BY DEF SeederState, Reading
<1>2. \A w \in Row : /\ Rank(s.targets[w]) \in Nat
                     /\ s.seen[w].status = "Requested" => Rank(s.targets[w]) <= 1
                     /\ s.seen[w].status = "Uploading" => Rank(s.targets[w]) <= 2
  BY <1>1, RankValues DEF Known
<1>3. StartDue(s.seen, s.targets) = {} /\ FinalizeDue(s.seen, s.targets) = {}
  BY <1>2 DEF StartDue, FinalizeDue
<1>4. \A plans \in Seq(Calls) : DOMAIN plans = {} => plans = <<>>
  OBVIOUS
<1>5. /\ Seeder!RequestPlans(s.seen) \in Seq(Calls)
      /\ DOMAIN Seeder!RequestPlans(s.seen) = {}
  BY RequestPlansCorrect DEF Known
<1>6. /\ Seeder!StartPlans(s.seen, s.targets) \in Seq(Calls)
      /\ DOMAIN Seeder!StartPlans(s.seen, s.targets) = {}
  BY <1>3, StartPlansCorrect
<1>7. /\ Seeder!FinalizationPlans(s.seen, s.targets) \in Seq(Calls)
      /\ DOMAIN Seeder!FinalizationPlans(s.seen, s.targets) = {}
  BY <1>3, FinalizationPlansCorrect
<1> QED
  BY <1>3, <1>4, <1>5, <1>6, <1>7

LEMMA SettledSetup ==
  ASSUME Base, SettledFit(seeder),
         \/ Seeder!EnsureCoordinator \/ Seeder!EnsureRelayer
         \/ Seeder!SendOne \/ Seeder!AwaitBatch
  PROVE  SettledFit(seeder')
<1>1. seeder \in SeederState
  BY DEF Base, ScriptTypes
<1>2. Seeder!StandingPolicy = StandingPolicy
  BY DEF Seeder!StandingPolicy, StandingPolicy
<1>3. CASE Seeder!EnsureCoordinator
  <2>1. /\ seeder.pc = "coordinator" /\ seeder.plans = <<>> /\ seeder.awaiting = {}
        /\ seeder' = [seeder EXCEPT
             !.plans = IF coordinatorPolicies[Operator] = StandingPolicy THEN <<>>
                       ELSE <<[fn |-> "setCoordinator"]>>,
             !.pc = "relayer"]
    BY <1>2, <1>3 DEF Seeder!EnsureCoordinator, Seeder!Plan, Seeder!Become, Seeder!Ready, Seeder!At
  <2>2. /\ seeder'.settled = seeder.settled /\ seeder'.sentAny = seeder.sentAny
        /\ seeder'.awaiting = {} /\ seeder'.targets = seeder.targets
        /\ seeder'.pc = "relayer"
        /\ coordinatorPolicies[Operator] = StandingPolicy => seeder'.plans = <<>>
    BY <1>1, <2>1 DEF SeederState
  <2> QED
    BY <2>2 DEF SettledFit
<1>4. CASE Seeder!EnsureRelayer
  <2>1. /\ seeder.pc = "relayer" /\ seeder.plans = <<>> /\ seeder.awaiting = {}
        /\ seeder' = [seeder EXCEPT
             !.plans = IF Operator \in relayers THEN <<>>
                       ELSE <<[fn |-> "setRelayer", relayer |-> Operator]>>,
             !.pc = "read", !.row = 1]
    BY <1>4 DEF Seeder!EnsureRelayer, Seeder!Ready, Seeder!At
  <2>2. /\ seeder'.settled = seeder.settled /\ seeder'.sentAny = seeder.sentAny
        /\ seeder'.awaiting = {} /\ seeder'.targets = seeder.targets
        /\ seeder'.pc = "read" /\ seeder'.row = 1
        /\ Operator \in relayers => seeder'.plans = <<>>
    BY <1>1, <2>1 DEF SeederState
  <2>3. \A w \in Row : ~(w < 1)
    BY RowsAssumption DEF Row, Seeder!Row
  <2> QED
    BY <2>2, <2>3 DEF SettledFit
<1>5. CASE Seeder!SendOne \/ Seeder!AwaitBatch
  <2>1. ~seeder.settled
    BY <1>5 DEF SettledFit, Seeder!SendOne, Seeder!AwaitBatch, Seeder!BatchSent
  <2>2. CASE Seeder!SendOne
    <3>1. seeder' = [seeder EXCEPT !.plans = Tail(@), !.sentAny = TRUE,
                                   !.awaiting = @ \cup {NewHash}]
      BY <2>2, SameChain DEF Seeder!SendOne
    <3> QED
      BY <1>1, <2>1, <3>1 DEF SeederState, SettledFit
  <2>3. CASE Seeder!AwaitBatch
    <3>1. \/ seeder' = [seeder EXCEPT !.awaiting = {}]
          \/ seeder' = Seeder!Idle
      BY <2>3 DEF Seeder!AwaitBatch, Seeder!Become
    <3> QED
      BY <1>1, <2>1, <3>1 DEF SeederState, SettledFit, Seeder!Idle
  <2> QED
    BY <1>5, <2>2, <2>3
<1> QED
  BY <1>3, <1>4, <1>5

LEMMA SettledReads ==
  ASSUME Base, DemoRests, SettledFit(seeder), NEW pc \in {"read", "created", "started"}, NEW wanted,
         pc = "read" => wanted = Row, Seeder!ReadRow(pc, wanted)
  PROVE  SettledFit(seeder')
<1> SUFFICES ASSUME seeder.settled PROVE SettledFit(seeder')
  <2>1. seeder \in SeederState
    BY DEF Base, ScriptTypes
  <2>2. seeder'.settled = seeder.settled
    BY <2>1 DEF Seeder!ReadRow, Seeder!Become, SeederState
  <2> QED
    BY <2>2 DEF SettledFit
<1> DEFINE w == seeder.row
           e == IF w \in wanted THEN Read(w, seeder.seen[w].id) ELSE seeder.seen[w]
<1>1. seeder \in SeederState /\ SeederFit(seeder) /\ TypeOK
  BY DEF Base, ScriptTypes, SeederOK, Registry
<1>2. w \in Row /\ seeder' = [seeder EXCEPT !.row = w + 1, !.seen[w] = e]
  BY ReadRowMoves
<1>3. seeder.pc = pc /\ seeder.plans = <<>> /\ seeder.awaiting = {}
  BY DEF Seeder!ReadRow, Seeder!Ready, Seeder!At
<1>4. seeder.seen \in [Row -> Reading] /\ w \in Nat
  BY <1>1 DEF SeederState
<1>5. w \in wanted => e.id # 0 /\ Rank(seeder.targets[w]) <= Rank(e.status)
  <2> SUFFICES ASSUME w \in wanted
               PROVE  e.id # 0 /\ Rank(seeder.targets[w]) <= Rank(e.status)
    OBVIOUS
  <2> DEFINE o == Seeder!ObjectOf(w)
  <2>1. o # 0 /\ Rank(seeder.targets[w]) <= Rank(Seeder!StatusOf(o))
    BY <1>2 DEF SettledFit, Reached
  <2>2. seeder.seen[w].id # 0 => seeder.seen[w].id = o
    BY <1>1, <1>2 DEF SeederFit, OwnRow
  <2> HIDE DEF o
  <2>3. e = [id |-> o, status |-> Seeder!StatusOf(o)]
    BY <2>2 DEF Read, o
  <2> QED
    BY <2>1, <2>3
<1> HIDE DEF e
<1>6. /\ seeder'.settled /\ seeder'.sentAny = seeder.sentAny /\ seeder'.plans = seeder.plans
      /\ seeder'.awaiting = {} /\ seeder'.targets = seeder.targets
      /\ seeder'.pc = pc /\ seeder'.row = w + 1
      /\ seeder'.seen[w] = e
      /\ \A v \in Row : v # w => seeder'.seen[v] = seeder.seen[v]
  BY <1>1, <1>2, <1>3, <1>4 DEF SeederState
<1>7. \A v \in Row : v # w => (Known(seeder, v) => Known(seeder', v))
  BY <1>6 DEF Known
<1>8. w \in wanted \/ Known(seeder, w) => Known(seeder', w)
  <2>1. CASE w \in wanted
    BY <1>5, <1>6, <2>1, Zenon DEF Known
  <2>2. CASE w \notin wanted
    <3>1. e = seeder.seen[w]
      BY <2>2 DEF e
    <3> QED
      BY <1>6, <2>2, <3>1, Zenon DEF Known
  <2> QED
    BY <2>1, <2>2
<1>9. CASE pc = "read"
  <2>1. \A v \in Row : v < w => Known(seeder, v)
    BY <1>3, <1>9 DEF SettledFit
  <2>2. \A v \in Row : v < w + 1 => v = w \/ v < w
    BY <1>4, RowsAssumption DEF Row, Seeder!Row
  <2>3. w \in wanted
    BY <1>2, <1>9
  <2>4. \A v \in Row : v < w + 1 => Known(seeder', v)
    BY <1>7, <1>8, <2>1, <2>2, <2>3, <1>4, RowsAssumption DEF Row, Seeder!Row
  <2> QED
    BY <1>3, <1>6, <1>9, <2>4 DEF SettledFit
<1>10. CASE pc # "read"
  <2>1. \A v \in Row : Known(seeder, v)
    BY <1>3, <1>10 DEF SettledFit
  <2>2. \A v \in Row : Known(seeder', v)
    BY <1>7, <1>8, <2>1
  <2> QED
    BY <1>3, <1>6, <1>10, <2>2 DEF SettledFit
<1> QED
  BY <1>9, <1>10

LEMMA SettledPlans ==
  ASSUME Base, DemoRests, SettledFit(seeder),
         \/ Seeder!RequestMissing \/ Seeder!StartRequested \/ Seeder!MarkStarted
         \/ Seeder!FinalizeUploading
  PROVE  SettledFit(seeder')
<1> SUFFICES ASSUME seeder.settled PROVE SettledFit(seeder')
  <2>1. seeder \in SeederState
    BY DEF Base, ScriptTypes
  <2>2. seeder'.settled = seeder.settled
    BY <2>1 DEF Seeder!RequestMissing, Seeder!StartRequested, Seeder!MarkStarted,
       Seeder!FinalizeUploading, Seeder!Plan, Seeder!Become, SeederState
  <2> QED
    BY <2>2 DEF SettledFit
<1>1. seeder \in SeederState
  BY DEF Base, ScriptTypes
<1>2. \A w \in Row : Known(seeder, w)
  <2>1. CASE Seeder!RequestMissing
    <3>1. seeder.pc = "read" /\ seeder.row > Rows
      BY <2>1 DEF Seeder!RequestMissing, Seeder!AllRead, Seeder!Ready, Seeder!At
    <3>2. \A w \in Row : w < seeder.row
      BY <1>1, <3>1, RowsAssumption DEF Row, Seeder!Row, SeederState
    <3> QED
      BY <3>1, <3>2 DEF SettledFit
  <2>2. CASE seeder.pc \in {"created", "starting", "started"}
    BY <2>2 DEF SettledFit
  <2> QED
    BY <2>1, <2>2 DEF Seeder!StartRequested, Seeder!MarkStarted, Seeder!FinalizeUploading,
       Seeder!AllRead, Seeder!Ready, Seeder!At
<1>3. /\ seeder.plans = <<>> /\ seeder.awaiting = {}
  BY DEF SettledFit
<1>4. /\ Seeder!RequestPlans(seeder.seen) = <<>>
      /\ StartDue(seeder.seen, seeder.targets) = {}
      /\ Seeder!StartPlans(seeder.seen, seeder.targets) = <<>>
      /\ Seeder!FinalizationPlans(seeder.seen, seeder.targets) = <<>>
  BY <1>1, <1>2, NothingDue
<1>5. seeder.seen \in [Row -> Reading]
  BY <1>1 DEF SeederState
<1>6. Started(seeder.seen, seeder.targets) = seeder.seen
  BY <1>4, <1>5 DEF Started
<1>7. /\ seeder'.settled /\ seeder'.sentAny = seeder.sentAny /\ seeder'.plans = <<>>
      /\ seeder'.awaiting = {} /\ seeder'.targets = seeder.targets
      /\ seeder'.pc \in {"created", "starting", "started", "finalizing"}
      /\ seeder'.seen = seeder.seen
  <2>1. CASE Seeder!MarkStarted
    <3>1. seeder' = [seeder EXCEPT !.pc = "started", !.row = 1, !.seen = seeder.seen]
      BY <1>6, <2>1, MarkStartedMoves
    <3> QED
      BY <1>1, <1>3, <3>1 DEF SeederState
  <2>2. CASE Seeder!RequestMissing \/ Seeder!StartRequested \/ Seeder!FinalizeUploading
    BY <1>1, <1>3, <1>4, <2>2
    DEF Seeder!RequestMissing, Seeder!StartRequested, Seeder!FinalizeUploading, Seeder!Plan,
        Seeder!Become, SeederState
  <2> QED
    BY <2>1, <2>2
<1>8. \A w \in Row : Known(seeder', w)
  BY <1>2, <1>7 DEF Known
<1> QED
  BY <1>7, <1>8 DEF SettledFit

LEMMA SettledBegins ==
  ASSUME Base, NEW targets \in Targets, Seeder!Begin(targets)
  PROVE  SettledFit(seeder')
<1>1. seeder' = [Seeder!Idle EXCEPT !.pc = "coordinator", !.targets = targets,
                                    !.settled = Seeder!AtTargets(targets)]
  BY DEF Seeder!Begin
<1>2. /\ ~seeder'.sentAny /\ seeder'.plans = <<>> /\ seeder'.awaiting = {}
      /\ seeder'.pc = "coordinator" /\ seeder'.targets = targets
      /\ seeder'.settled = Seeder!AtTargets(targets)
  BY <1>1 DEF Seeder!Idle
<1>3. Seeder!StandingPolicy = StandingPolicy
  BY DEF Seeder!StandingPolicy, StandingPolicy
<1>4. ASSUME Seeder!AtTargets(targets), NEW w \in Row PROVE Reached(w, targets[w])
  <2>1. targets[w] \in {"Requested", "Uploading", "Committed"}
    BY RowsAssumption DEF Row
  <2>2. targets[w] \in UploadStatus /\ targets[w] # "None"
    BY <2>1 DEF UploadStatus, FinalizationStatus
  <2>3. Rank(targets[w]) \in Nat /\ Rank(targets[w]) >= 1
    BY <2>2, RankValues
  <2>4. Rank("None") = 0
    BY DEF Rank, Seeder!Rank
  <2>5. Rank(Seeder!StatusOf(Seeder!ObjectOf(w))) >= Rank(targets[w])
    BY <1>4 DEF Seeder!AtTargets, Row, Rank
  <2>6. Seeder!ObjectOf(w) # 0
    BY <2>3, <2>4, <2>5 DEF Seeder!StatusOf
  <2>7. Rank(Seeder!StatusOf(Seeder!ObjectOf(w))) \in Nat
    BY ObjectOfType, StatusOfType, RankValues DEF Base, Registry
  <2> QED
    BY <2>3, <2>5, <2>6, <2>7 DEF Reached
<1>5. Seeder!AtTargets(targets) =>
        coordinatorPolicies[Operator] = StandingPolicy /\ Operator \in relayers
  BY <1>3 DEF Seeder!AtTargets
<1> QED
  BY <1>2, <1>4, <1>5 DEF SettledFit

LEMMA SettledStep ==
  ASSUME Base, Base', SettledFit(seeder), [ScriptsNext]_scriptsVars
  PROVE  SettledFit(seeder)'
<1>1. Grows
  BY BaseStep
<1>2. seeder \in SeederState /\ seeder' \in SeederState
  BY DEF Base, ScriptTypes
<1>3. SettledFit(seeder')
  <2>1. CASE UNCHANGED seeder
    BY <2>1, Zenon
  <2>2. CASE DemoRests /\ Seeder!Step
    <3>1. CASE Seeder!ReadExisting \/ Seeder!ReadCreated \/ Seeder!ReadStarted
      BY <2>2, <3>1, SettledReads DEF Seeder!ReadExisting, Seeder!ReadCreated, Seeder!ReadStarted, Row
    <3>2. CASE Seeder!WriteSummary
      BY <3>2 DEF Seeder!WriteSummary, SettledFit, Seeder!Idle
    <3> QED
      BY <2>2, <3>1, <3>2, SettledSetup, SettledPlans DEF Seeder!Step
  <2>3. CASE Seeder!GiveUp
    BY <2>3 DEF Seeder!GiveUp, SettledFit, Seeder!Idle
  <2>4. CASE \E targets \in Targets : Seeder!Begin(targets)
    BY <2>4, SettledBegins
  <2> QED
    BY <2>1, <2>2, <2>3, <2>4
    DEF ScriptsNext, scriptsVars, seederVars, Seeder!SeederRuns, Seeder!CancelRow, DemoRests
<1>4. PICK s \in SeederState : s = seeder' /\ SettledFit(s)
  BY <1>2, <1>3
<1>5. SettledFit(s)'
  BY <1>1, <1>4, SettledKept
<1> QED
  BY <1>4, <1>5, Zenon

\* Seeding is idempotent for a seed: a run that starts when the roles are set
\* up, nothing is pending and every row has reached its target sends nothing
\* (planRequests, planStarts, planFinalizations), even if time passes, the
\* owner cancels an upload, or the demo runs meanwhile.
THEOREM SettledIsIdle == ScriptsSpec => []SettledRunSendsNothing
<1>1. ScriptsInit => SettledFit(seeder)
  BY DEF ScriptsInit, Seeder!SeedInit, SettledFit, Seeder!Idle
<1>2. SettledFit(seeder) => SettledRunSendsNothing
  BY DEF SettledFit, SettledRunSendsNothing, Seeder!SettledRunSendsNothing
<1>3. Base /\ Base' /\ SettledFit(seeder) /\ [ScriptsNext]_scriptsVars => SettledFit(seeder)'
  BY SettledStep
<1> QED
  BY <1>1, <1>2, <1>3, BaseAlways, PTL DEF ScriptsSpec

-----------------------------------------------------------------------------
(* What the seeder relies on *)

Standing == coordinatorPolicies[Operator] = StandingPolicy

HasDataset(w) ==
  datasets[RowAccount[w]][Seeder!RowDataset(w).dataset].updatedAt # 0

\* What a call aims at has come about.
Effected(t) ==
  /\ t.fn = "setCoordinator" => Standing
  /\ t.fn = "startUpload" => Rank(objects[t.id].status) >= 2
  /\ t.fn = "finalizeUpload" => objects[t.id].status = "Committed"

\* What a phase of the script is there to get done.
OnAgenda(s, t) ==
  \/ s.pc = "relayer" /\ t = SetCoordinatorCall
  \/ /\ s.pc = "starting"
     /\ \E w \in StartDue(s.seen, s.targets) : t = RowStart(w, s.seen[w].id)
  \/ /\ s.pc = "finalizing"
     /\ \E w \in FinalizeDue(s.seen, s.targets) : t = RowFinalize(w, s.seen[w].id)

\* It is planned, sent and awaited, or done.
UnderWay(s, t) ==
  \/ \E i \in DOMAIN s.plans : s.plans[i] = t
  \/ \E h \in s.awaiting : sent[h] = t
  \/ Effected(t)

\* The chain is at least as far as this status says.
NotAhead(status, chain) ==
  /\ Rank(status) <= Rank(chain)
  /\ status = "Committed" => chain = "Committed"

SeenFit(s) ==
  \A w \in Row : s.seen[w].id # 0 =>
    NotAhead(s.seen[w].status, objects[s.seen[w].id].status)

\* A row's receipt is sent after its dataset, and both once the signer may.
PlanFit(s) ==
  /\ s.pc \notin {"idle", "coordinator", "relayer"} => Standing
  /\ \A i \in DOMAIN s.plans : s.plans[i] \in RowCalls => Standing
  /\ \A i \in DOMAIN s.plans, w \in Row, o \in ObjectId :
       s.plans[i] = RowFinalize(w, o) =>
         \/ \E j \in DOMAIN s.plans : j < i /\ s.plans[j] = RowRecord(w)
         \/ \E g \in DOMAIN sent : sent[g] = RowRecord(w)

AgendaFit(s) ==
  /\ s.awaiting \subseteq DOMAIN sent
  /\ \A t \in Calls : OnAgenda(s, t) => UnderWay(s, t)

ProgressFit(s) == SeenFit(s) /\ PlanFit(s) /\ AgendaFit(s)

SentFit ==
  /\ \A h \in DOMAIN sent : sent[h] \in RowCalls => Standing
  /\ \A h \in DOMAIN sent, w \in Row, o \in ObjectId :
       sent[h] = RowFinalize(w, o) =>
         \E g \in DOMAIN sent : g < h /\ sent[g] = RowRecord(w)

Effects ==
  /\ \A h \in DOMAIN outcome : outcome[h] => Effected(sent[h])
  /\ \A h \in DOMAIN outcome, w \in Row : sent[h] = RowRecord(w) => HasDataset(w)

Progress == SentFit /\ Effects /\ ProgressFit(seeder) /\ SummaryNeverAhead /\ RowsInOrder

-----------------------------------------------------------------------------
(* What calls have brought about *)

LEMMA StatusTypes ==
  ASSUME TypeOK, NEW o \in ObjectId
  PROVE  objects[o].status \in UploadStatus
BY DEF TypeOK, StorageObject

LEMMA CommittedStays ==
  ASSUME Base, Grows, NEW o \in ObjectId, objects[o].status = "Committed"
  PROVE  objects'[o].status = "Committed"
<1>1. o < nextObjectId
  BY DEF Base, Registry, IndexMatchesStatus, IssuedInOrder, NoObject
<1>2. Terminal(objects[o].status)
  BY DEF Terminal, FinalizationStatus
<1> QED
  BY <1>1, <1>2 DEF Grows, UploadsGrow, Advances

LEMMA EffectKept ==
  ASSUME Base, Base', Grows, NEW t \in Calls, Effected(t)
  PROVE  Effected(t)'
<1>1. TypeOK /\ TypeOK'
  BY DEF Base, Registry
<1>2. Standing => Standing'
  BY DEF Grows, RolesGrow, Standing
<1>3. ASSUME t.fn = "startUpload" PROVE Rank(objects'[t.id].status) >= 2
  <2>1. t.id \in ObjectId
    BY <1>3, CallFields
  <2>2. Rank(objects[t.id].status) <= Rank(objects'[t.id].status)
    BY <2>1 DEF Grows, UploadsGrow
  <2>3. objects[t.id].status \in UploadStatus /\ objects'[t.id].status \in UploadStatus
    BY <1>1, <2>1 DEF TypeOK, StorageObject
  <2>4. Rank(objects[t.id].status) \in Nat /\ Rank(objects'[t.id].status) \in Nat
    BY <2>3, RankValues
  <2>5. Rank(objects[t.id].status) >= 2
    BY <1>3 DEF Effected
  <2> QED
    BY <2>2, <2>4, <2>5
<1>4. ASSUME t.fn = "finalizeUpload" PROVE objects'[t.id].status = "Committed"
  BY <1>4, CallFields, CommittedStays DEF Effected
<1> QED
  BY <1>2, <1>3, <1>4 DEF Effected, Rank

LEMMA CallEffects ==
  ASSUME TypeOK, NEW t \in Calls, Call(t)
  PROVE  Effected(t)'
<1>1. CASE SetCoordinator(Operator, Operator, StandingPolicy) /\ t.fn = "setCoordinator"
  BY <1>1, OperatorAssumption DEF SetCoordinator, Effected, Standing, TypeOK
<1>2. CASE t.fn = "startUpload" /\ StartUpload(Operator, t.id)
  <2>1. t.id \in ObjectId
    BY <1>2, CallFields
  <2>2. objects'[t.id].status = "Uploading"
    BY <1>2, <2>1 DEF StartUpload, TypeOK, StorageObject
  <2>3. Rank("Uploading") = 2
    BY DEF Rank, Seeder!Rank
  <2> QED
    BY <1>2, <2>2, <2>3 DEF Effected, Rank
<1>3. CASE t.fn = "finalizeUpload" /\ FinalizeUpload(Operator, t.id, t.receipt)
  <2>1. t.id \in ObjectId /\ t.receipt.finalizationStatus = "Committed"
    BY <1>3, CallFields
  <2>2. objects'[t.id].status = "Committed"
    BY <1>3, <2>1 DEF FinalizeUpload, FinalizedObject, TypeOK, StorageObject
  <2> QED
    BY <1>3, <2>2 DEF Effected
<1>4. CASE t.fn \notin {"setCoordinator", "startUpload", "finalizeUpload"}
  BY <1>4 DEF Effected
<1> QED
  BY <1>1, <1>2, <1>3, <1>4, Zenon DEF Call

LEMMA RowDatasetFields ==
  ASSUME NEW w \in Row
  PROVE  /\ Seeder!RowDataset(w).accountId = RowAccount[w] /\ RowAccount[w] \in Account
         /\ Seeder!RowDataset(w).dataset \in Dataset /\ RowAccount[w] # Zero
<1>1. Seeder!RowDataset(w) \in DatasetRecord
  BY RowsAssumption, ConstantsAssumption DEF Row
<1> QED
  BY <1>1, RowsAssumption, ConstantsAssumption DEF Row, Seeder!RowDataset, DatasetRecord

LEMMA DatasetKept ==
  ASSUME Grows, NEW w \in Row, HasDataset(w)
  PROVE  HasDataset(w)'
<1> DEFINE d == Seeder!RowDataset(w).dataset
<1>1. RowAccount[w] \in Account /\ d \in Dataset
  BY RowDatasetFields
<1>2. datasets'[RowAccount[w]][d].updatedAt # 0
  BY <1>1 DEF HasDataset, Grows, RolesGrow
<1> QED
  BY <1>2 DEF HasDataset, Seeder!RowDataset

\* A row's dataset is never refused once the signer is a coordinator.
LEMMA RecordSucceeds ==
  ASSUME Standing, NEW w \in Row
  PROVE  CallAccepted(RowRecord(w))
<1>1. ActiveCoordinator(Operator)
  BY DEF Standing, StandingPolicy, ActiveCoordinator
<1> QED
  BY <1>1, RowDatasetFields DEF CallAccepted, RowRecord, DatasetAccepted

LEMMA RecordEffects ==
  ASSUME TypeOK, now > 0, NEW w \in Row, Call(RowRecord(w))
  PROVE  HasDataset(w)'
<1>1. RecordDataset(Operator, Seeder!RowDataset(w))
  BY DEF Call, RowRecord
<1> DEFINE a == RowAccount[w]
           d == Seeder!RowDataset(w).dataset
<1>2. a \in Account /\ d \in Dataset /\ Seeder!RowDataset(w).accountId = a
  BY RowDatasetFields
<1> HIDE DEF a, d
<1>3. datasets'[a][d].updatedAt = now
  BY <1>1, <1>2 DEF RecordDataset, TypeOK, d
<1> QED
  BY <1>3 DEF HasDataset, Seeder!RowDataset, a, d

\* The pool after any step: what was sent stays, and at most one call more
\* is mined.
LEMMA PoolStep ==
  ASSUME Base, [ScriptsNext]_scriptsVars
  PROVE  \/ outcome' = outcome
         \/ /\ MineNext
            /\ sent' = sent /\ Len(outcome) + 1 \in DOMAIN sent
            /\ UNCHANGED <<seeder, summary, asked, run, evidence, giveUps, lapses>>
            /\ \E ok \in BOOLEAN :
                 /\ outcome' = Append(outcome, ok)
                 /\ ok => Call(sent[Len(outcome) + 1])
                 /\ ~ok => ~CallAccepted(sent[Len(outcome) + 1])
<1>1. CASE MineNext /\ UNCHANGED seederVars
  <2>1. sent \in Seq(Calls) /\ outcome \in Seq(BOOLEAN)
    BY DEF Base, ScriptTypes, PoolTypes
  <2>2. Len(outcome) < Len(sent) /\ UNCHANGED <<sent, run, evidence, giveUps, lapses>>
    BY <1>1, MineNextMoves
  <2>3. Len(outcome) + 1 \in DOMAIN sent
    BY <2>1, <2>2
  <2> QED
    BY <1>1, <2>2, <2>3, MineNextMoves DEF seederVars
<1>2. CASE Passing \/ Seeder!CancelRow
  BY <1>2, SameUnchanged DEF Passing, Seeder!CancelRow, poolVars
<1> QED
  BY <1>1, <1>2, ScriptsMove DEF DemoMoves, SeederMoves, scriptsVars, demoVars, poolVars

LEMMA PoolFacts ==
  ASSUME Base
  PROVE  /\ DOMAIN sent = 1..Len(sent) /\ DOMAIN outcome = 1..Len(outcome)
         /\ Len(sent) \in Nat /\ Len(outcome) \in Nat /\ Len(outcome) <= Len(sent)
         /\ DOMAIN outcome \subseteq DOMAIN sent
         /\ \A h \in DOMAIN sent : sent[h] \in Calls
         /\ \A h \in DOMAIN outcome : outcome[h] \in BOOLEAN
<1>1. sent \in Seq(Calls) /\ outcome \in Seq(BOOLEAN) /\ Len(outcome) <= Len(sent)
  BY DEF Base, ScriptTypes, PoolTypes
<1> QED
  BY <1>1

LEMMA EffectsStep ==
  ASSUME Base, Base', SentFit, Effects, [ScriptsNext]_scriptsVars
  PROVE  Effects'
<1>1. Grows
  BY BaseStep
<1>2. /\ DOMAIN outcome \subseteq DOMAIN sent /\ DOMAIN outcome = 1..Len(outcome)
      /\ Len(outcome) \in Nat
      /\ \A h \in DOMAIN sent : h \in DOMAIN sent' /\ sent'[h] = sent[h] /\ sent[h] \in Calls
      /\ \A h \in DOMAIN outcome : outcome'[h] = outcome[h]
  BY <1>1, PoolFacts DEF Grows, PoolGrows
<1>3. ASSUME NEW h \in DOMAIN outcome', NEW t, t = sent'[h]
      PROVE  /\ outcome'[h] => Effected(t)'
             /\ \A w \in Row : t = RowRecord(w) => HasDataset(w)'
  <2>1. CASE h \in DOMAIN outcome
    <3>1. t = sent[h] /\ t \in Calls /\ outcome'[h] = outcome[h]
      BY <1>2, <1>3, <2>1
    <3>2. outcome[h] => Effected(sent[h])
      BY <2>1 DEF Effects
    <3>3. outcome[h] => Effected(t)
      BY <3>1, <3>2, Zenon
    <3>4. \A w \in Row : t = RowRecord(w) => HasDataset(w)
      BY <2>1, <3>1 DEF Effects
    <3> QED
      BY <1>1, <3>1, <3>3, <3>4, EffectKept, DatasetKept
  <2>2. CASE h \notin DOMAIN outcome
    <3>1. PICK ok \in BOOLEAN :
            /\ outcome' = Append(outcome, ok)
            /\ ok => Call(sent[Len(outcome) + 1])
            /\ ~ok => ~CallAccepted(sent[Len(outcome) + 1])
      BY <1>3, <2>2, PoolStep
    <3>2. sent' = sent /\ Len(outcome) + 1 \in DOMAIN sent
      BY <1>3, <2>2, PoolStep
    <3>3. h = Len(outcome) + 1 /\ outcome'[h] = ok
      <4>1. outcome \in Seq(BOOLEAN)
        BY DEF Base, ScriptTypes, PoolTypes
      <4> QED
        BY <1>3, <2>2, <3>1, <4>1
    <3>4. t \in Calls /\ t = sent[Len(outcome) + 1]
      BY <1>2, <1>3, <3>2, <3>3
    <3>5. ok => Call(t)
      BY <3>1, <3>4, Zenon
    <3>6. ~ok => ~CallAccepted(t)
      BY <3>1, <3>4, Zenon
    <3>7. TypeOK /\ now > 0
      BY DEF Base, Registry, ListsExact, RolesExact, DatasetsExact
    <3>8. ok => Effected(t)'
      BY <3>4, <3>5, <3>7, CallEffects
    <3>9. ASSUME NEW w \in Row, t = RowRecord(w) PROVE HasDataset(w)'
      <4>1. t \in RowCalls
        BY <3>9 DEF RowCalls
      <4>2. Standing
        BY <3>2, <3>4, <4>1 DEF SentFit
      <4>3. CallAccepted(RowRecord(w))
        BY <4>2, RecordSucceeds
      <4>4. CallAccepted(t)
        BY <3>9, <4>3, Zenon
      <4>5. Call(t)
        BY <3>5, <3>6, <4>4
      <4>6. Call(RowRecord(w))
        BY <3>9, <4>5, Zenon
      <4> QED
        BY <3>7, <4>6, RecordEffects
    <3> QED
      BY <3>3, <3>8, <3>9
  <2> QED
    BY <2>1, <2>2
<1> HIDE DEF Effects
<1>4. ASSUME NEW h \in DOMAIN outcome', outcome'[h] PROVE Effected(sent[h])'
  <2>1. PICK t : t = sent'[h]
    OBVIOUS
  <2>2. Effected(t)'
    BY <1>3, <1>4, <2>1
  <2> QED
    BY <2>1, <2>2 DEF Effected
<1> QED
  BY <1>3, <1>4 DEF Effects

LEMMA RowCallsApart ==
  /\ \A t \in RowCalls : t \in Calls /\ t \notin SetupCalls \cup DemoCalls
  /\ \A w \in Row, o \in ObjectId :
       RowRecord(w) \in RowCalls /\ RowStart(w, o) \in RowCalls /\ RowFinalize(w, o) \in RowCalls
<1>1. \A t \in RowCalls : t \in Calls /\ "row" \in DOMAIN t
  BY DEF RowCalls, Calls, RowRequest, RowStart, RowRecord, RowFinalize
<1>2. \A t \in SetupCalls \cup DemoCalls : "row" \notin DOMAIN t
  BY DEF SetupCalls, DemoCalls, SetCoordinatorCall, SetRelayerCall, DemoRequest, DemoStart,
     DemoRecord, DemoFinalize
<1> QED
  BY <1>1, <1>2 DEF RowCalls

\* The head of the plans is sent.
LEMMA SendOneFacts ==
  ASSUME Base, DemoRests, Seeder!SendOne
  PROVE  /\ seeder.plans \in Seq(Calls) /\ seeder.plans # <<>> /\ 1 \in DOMAIN seeder.plans
         /\ sent \in Seq(Calls) /\ sent' = Append(sent, seeder.plans[1])
         /\ UNCHANGED <<vars, outcome, summary, asked>>
         /\ seeder' = [seeder EXCEPT !.plans = Tail(seeder.plans), !.sentAny = TRUE,
                                     !.awaiting = seeder.awaiting \cup {Len(sent) + 1}]
<1>1. /\ seeder \in SeederState /\ sent \in Seq(Calls)
  BY DEF Base, ScriptTypes, PoolTypes
<1>2. /\ seeder.plans # <<>> /\ Submit(Head(seeder.plans)) /\ summary' = summary
      /\ seeder' = [seeder EXCEPT !.plans = Tail(seeder.plans), !.sentAny = TRUE,
                                  !.awaiting = seeder.awaiting \cup {NewHash}]
      /\ UNCHANGED <<vars, asked, giveUps>>
  BY SameChain, SeederQuiet DEF Seeder!SendOne
<1>3. seeder.plans \in Seq(Calls)
  BY <1>1 DEF SeederState
<1> QED
  BY <1>1, <1>2, <1>3 DEF Submit, NewHash

\* Nothing else that the seeder does sends anything.
LEMMA SeederSends ==
  ASSUME Seeder!SeederRuns
  PROVE  Seeder!SendOne \/ UNCHANGED <<vars, poolVars>>
<1>1. UNCHANGED Seeder!poolVars => UNCHANGED poolVars
  BY SameUnchanged
<1>2. Seeder!restUnchanged => UNCHANGED vars
  BY SeederQuiet
<1>3. ASSUME NEW s, Seeder!Become(s) PROVE UNCHANGED <<vars, poolVars>>
  BY <1>1, <1>2, <1>3 DEF Seeder!Become
<1>4. CASE \/ Seeder!EnsureCoordinator \/ Seeder!ReadExisting \/ Seeder!RequestMissing
           \/ Seeder!ReadCreated \/ Seeder!StartRequested \/ Seeder!MarkStarted
           \/ Seeder!ReadStarted \/ Seeder!FinalizeUploading \/ Seeder!AwaitBatch
  BY <1>3, <1>4 DEF Seeder!EnsureCoordinator, Seeder!ReadExisting, Seeder!RequestMissing,
     Seeder!ReadCreated, Seeder!StartRequested, Seeder!MarkStarted, Seeder!ReadStarted,
     Seeder!FinalizeUploading, Seeder!AwaitBatch, Seeder!ReadRow, Seeder!Plan
<1>5. CASE Seeder!EnsureRelayer \/ Seeder!WriteSummary
  BY <1>1, <1>2, <1>5 DEF Seeder!EnsureRelayer, Seeder!WriteSummary
<1>6. CASE Seeder!GiveUp \/ \E targets \in Targets : Seeder!Begin(targets)
  BY <1>6, SameUnchanged DEF Seeder!GiveUp, Seeder!Begin
<1> QED
  BY <1>4, <1>5, <1>6 DEF Seeder!SeederRuns, Seeder!Step

\* What is sent in a step: nothing, a call of the demo, or the head of the
\* seeder's plans.
LEMMA SentStep ==
  ASSUME Base, [ScriptsNext]_scriptsVars
  PROVE  \/ sent' = sent
         \/ \E t \in SetupCalls \cup DemoCalls : sent' = Append(sent, t)
         \/ DemoRests /\ Seeder!SendOne
<1>1. CASE DemoRuns
  BY <1>1, DemoRunsMove DEF DemoMoves, DemoSends
<1>2. CASE MineNext
  BY <1>2, MineNextMoves
<1>3. CASE Passing \/ UNCHANGED scriptsVars
  BY <1>3 DEF Passing, scriptsVars, demoVars, poolVars
<1>4. CASE Seeder!CancelRow
  BY <1>4, SameUnchanged DEF Seeder!CancelRow, poolVars
<1>5. CASE Seeder!SeederRuns /\ UNCHANGED <<details, run, evidence, lapses>>
  BY <1>5, SeederSends DEF DemoRests, poolVars
<1> QED
  BY <1>1, <1>2, <1>3, <1>4, <1>5 DEF ScriptsNext

LEMMA SentFitStep ==
  ASSUME Base, SentFit, PlanFit(seeder), [ScriptsNext]_scriptsVars
  PROVE  SentFit'
<1>1. Standing => Standing'
  BY BaseStep DEF Grows, RolesGrow, Standing
<1>2. sent \in Seq(Calls)
  BY DEF Base, ScriptTypes, PoolTypes
<1>3. CASE sent' = sent
  BY <1>1, <1>3 DEF SentFit
<1>4. ASSUME NEW t, sent' = Append(sent, t),
             t \in RowCalls => Standing,
             \A w \in Row, o \in ObjectId :
               t = RowFinalize(w, o) => \E g \in DOMAIN sent : sent[g] = RowRecord(w)
      PROVE  SentFit'
  <2>1. /\ DOMAIN sent = 1..Len(sent) /\ DOMAIN sent' = 1..(Len(sent) + 1) /\ Len(sent) \in Nat
        /\ \A h \in DOMAIN sent : sent'[h] = sent[h]
        /\ sent'[Len(sent) + 1] = t
    BY <1>2, <1>4
  <2>2. ASSUME NEW h \in DOMAIN sent', sent'[h] \in RowCalls PROVE Standing'
    BY <1>1, <1>4, <2>1, <2>2 DEF SentFit
  <2>3. ASSUME NEW h \in DOMAIN sent', NEW w \in Row, NEW o \in ObjectId,
               sent'[h] = RowFinalize(w, o)
        PROVE  \E g \in DOMAIN sent' : g < h /\ sent'[g] = RowRecord(w)
    <3>1. CASE h \in DOMAIN sent
      <4>1. PICK g \in DOMAIN sent : g < h /\ sent[g] = RowRecord(w)
        BY <2>1, <2>3, <3>1 DEF SentFit
      <4> QED
        BY <2>1, <4>1
    <3>2. CASE h = Len(sent) + 1
      <4>1. PICK g \in DOMAIN sent : sent[g] = RowRecord(w)
        BY <1>4, <2>1, <2>3, <3>2
      <4> QED
        BY <2>1, <3>2, <4>1
    <3> QED
      BY <2>1, <3>1, <3>2
  <2> HIDE DEF SentFit
  <2>4. \A h \in DOMAIN sent' : sent'[h] \in RowCalls => Standing'
    BY <2>2
  <2>5. \A h \in DOMAIN sent', w \in Row, o \in ObjectId :
          sent'[h] = RowFinalize(w, o) =>
            \E g \in DOMAIN sent' : g < h /\ sent'[g] = RowRecord(w)
    BY <2>3
  <2> QED
    BY <2>4, <2>5 DEF SentFit, RowRecord, RowFinalize, Row, RowCalls
<1>5. ASSUME NEW t \in SetupCalls \cup DemoCalls, sent' = Append(sent, t) PROVE SentFit'
  BY <1>4, <1>5, RowCallsApart
<1>6. CASE DemoRests /\ Seeder!SendOne
  <2>1. /\ seeder.plans \in Seq(Calls) /\ 1 \in DOMAIN seeder.plans
        /\ sent' = Append(sent, seeder.plans[1])
    BY <1>6, SendOneFacts
  <2>2. seeder.plans[1] \in RowCalls => Standing
    BY <2>1 DEF PlanFit
  <2>3. ASSUME NEW w \in Row, NEW o \in ObjectId, seeder.plans[1] = RowFinalize(w, o)
        PROVE  \E g \in DOMAIN sent : sent[g] = RowRecord(w)
    <3>1. ~\E j \in DOMAIN seeder.plans : j < 1
      BY <2>1
    <3> QED
      BY <2>1, <2>3, <3>1 DEF PlanFit
  <2> QED
    BY <1>4, <2>1, <2>2, <2>3
<1> QED
  BY <1>3, <1>5, <1>6, SentStep

LEMMA NotAheadKept ==
  ASSUME Base, Base', Grows, NEW o \in ObjectId, NEW status \in UploadStatus,
         NotAhead(status, objects[o].status)
  PROVE  NotAhead(status, objects'[o].status)
<1>1. objects[o].status \in UploadStatus /\ objects'[o].status \in UploadStatus
  BY DEF Base, Registry, TypeOK, StorageObject
<1>2. /\ Rank(status) \in Nat /\ Rank(objects[o].status) \in Nat
      /\ Rank(objects'[o].status) \in Nat
  BY <1>1, RankValues
<1>3. Rank(objects[o].status) <= Rank(objects'[o].status)
  BY DEF Grows, UploadsGrow
<1>4. Rank(status) <= Rank(objects[o].status)
  BY DEF NotAhead
<1>5. Rank(status) <= Rank(objects'[o].status)
  BY <1>2, <1>3, <1>4
<1> QED
  BY <1>5, CommittedStays DEF NotAhead

LEMMA ProgressKept ==
  ASSUME Base, Base', Grows, NEW s \in SeederState, ProgressFit(s),
         \A w \in Row : s.seen[w].id # 0 => s.seen[w].id \in ObjectId
  PROVE  ProgressFit(s)'
<1>1. Standing => Standing'
  BY DEF Grows, RolesGrow, Standing
<1>2. \A h \in DOMAIN sent : h \in DOMAIN sent' /\ sent'[h] = sent[h]
  BY DEF Grows, PoolGrows
<1>3. SeenFit(s)'
  <2> SUFFICES ASSUME NEW w \in Row, s.seen[w].id # 0
               PROVE  NotAhead(s.seen[w].status, objects'[s.seen[w].id].status)
    BY DEF SeenFit, NotAhead, Rank
  <2>1. s.seen[w].id \in ObjectId /\ s.seen[w].status \in UploadStatus
    BY DEF SeederState, Reading
  <2>2. NotAhead(s.seen[w].status, objects[s.seen[w].id].status)
    BY DEF ProgressFit, SeenFit
  <2> QED
    BY <2>1, <2>2, NotAheadKept
<1>4. PlanFit(s)'
  <2>1. /\ s.pc \notin {"idle", "coordinator", "relayer"} => Standing'
        /\ \A i \in DOMAIN s.plans : s.plans[i] \in RowCalls => Standing'
    BY <1>1 DEF ProgressFit, PlanFit
  <2>2. \A i \in DOMAIN s.plans, w \in Row, o \in ObjectId :
          s.plans[i] = RowFinalize(w, o) =>
            \/ \E j \in DOMAIN s.plans : j < i /\ s.plans[j] = RowRecord(w)
            \/ \E g \in DOMAIN sent' : sent'[g] = RowRecord(w)
    BY <1>2 DEF ProgressFit, PlanFit
  <2> QED
    BY <2>1, <2>2 DEF PlanFit, RowCalls, Row, RowRecord, RowFinalize
<1>5. s.awaiting \subseteq DOMAIN sent'
  BY <1>2 DEF ProgressFit, AgendaFit
<1>6. ASSUME NEW t \in Calls, OnAgenda(s, t) PROVE UnderWay(s, t)'
  <2>1. UnderWay(s, t)
    BY <1>6 DEF ProgressFit, AgendaFit
  <2>2. Effected(t) => Effected(t)'
    BY EffectKept
  <2> QED
    BY <1>2, <2>1, <2>2 DEF UnderWay, ProgressFit, AgendaFit
<1>7. AgendaFit(s)'
  BY <1>5, <1>6 DEF AgendaFit, OnAgenda, StartDue, FinalizeDue, Rank
<1> QED
  BY <1>3, <1>4, <1>7 DEF ProgressFit

\* Whoever has nothing to do is fit to do it.
LEMMA IdleProgress == ProgressFit(Seeder!Idle)
<1>1. /\ Seeder!Idle.pc = "idle" /\ Seeder!Idle.plans = <<>> /\ Seeder!Idle.awaiting = {}
      /\ \A w \in Row : Seeder!Idle.seen[w].id = 0
  BY DEF Seeder!Idle, Seeder!NothingSeen, Row
<1> QED
  BY <1>1 DEF ProgressFit, SeenFit, PlanFit, AgendaFit, OnAgenda

LEMMA ProgressInit == ScriptsInit => Progress
<1> SUFFICES ASSUME ScriptsInit PROVE Progress
  OBVIOUS
<1>1. /\ sent = <<>> /\ outcome = <<>> /\ seeder = Seeder!Idle
      /\ summary = Seeder!NoSummary /\ Init
  BY DEF ScriptsInit, DemoInit, PoolInit, Seeder!SeedInit
<1>2. SentFit /\ Effects
  BY <1>1 DEF SentFit, Effects
<1>3. ProgressFit(seeder)
  BY <1>1, IdleProgress, Zenon
<1>4. \A w \in Row : Seeder!ObjectOf(w) = 0 /\ Seeder!StatusOf(Seeder!ObjectOf(w)) = "None"
                     /\ summary[w] = "None"
  BY <1>1, RowsAssumption DEF Init, Row, Seeder!ObjectOf, Seeder!StatusOf, Seeder!NoSummary
<1>5. Rank("None") = 0
  BY DEF Rank, Seeder!Rank
<1>6. SummaryNeverAhead
  BY <1>4, <1>5 DEF SummaryNeverAhead, Seeder!SummaryNeverAhead, Rank, Row
<1>7. RowsInOrder
  BY <1>4 DEF RowsInOrder, Seeder!RowsInOrder, Seeder!NeverPastTarget,
     Seeder!CommittedHasDataset, Row
<1> QED
  BY <1>2, <1>3, <1>6, <1>7 DEF Progress

LEMMA SendOneProgress ==
  ASSUME Base, Base', ProgressFit(seeder), DemoRests, Seeder!SendOne
  PROVE  ProgressFit(seeder)'
<1>1. /\ seeder.plans \in Seq(Calls) /\ seeder.plans # <<>> /\ 1 \in DOMAIN seeder.plans
      /\ sent \in Seq(Calls) /\ sent' = Append(sent, seeder.plans[1])
      /\ UNCHANGED <<vars, outcome, summary, asked>>
      /\ seeder' = [seeder EXCEPT !.plans = Tail(seeder.plans), !.sentAny = TRUE,
                                  !.awaiting = seeder.awaiting \cup {Len(sent) + 1}]
      /\ seeder \in SeederState
  BY SendOneFacts DEF Base, ScriptTypes
<1>2. UNCHANGED <<objects, coordinatorPolicies>>
  BY <1>1 DEF vars, uploadVars, requestVars, adminVars
<1> DEFINE next == Len(sent) + 1
           old == seeder
<1>s. PICK s \in SeederState : s = seeder'
  BY DEF Base, ScriptTypes
<1>3. /\ s.plans = Tail(old.plans) /\ s.awaiting = old.awaiting \cup {next}
      /\ s.pc = old.pc /\ s.targets = old.targets /\ s.seen = old.seen
  BY <1>1, <1>s DEF SeederState
<1>4. /\ DOMAIN sent = 1..Len(sent) /\ DOMAIN sent' = 1..next /\ Len(sent) \in Nat
      /\ \A h \in DOMAIN sent : h \in DOMAIN sent' /\ sent'[h] = sent[h]
      /\ next \in DOMAIN sent' /\ sent'[next] = old.plans[1]
  BY <1>1
<1>5. /\ s.plans \in Seq(Calls)
      /\ \A i \in DOMAIN s.plans : i + 1 \in DOMAIN old.plans /\ s.plans[i] = old.plans[i + 1]
      /\ \A i \in DOMAIN old.plans :
           i # 1 => (i - 1 \in DOMAIN s.plans /\ s.plans[i - 1] = old.plans[i])
      /\ \A i \in DOMAIN old.plans : i \in Nat /\ i >= 1
      /\ \A i \in DOMAIN s.plans : i \in Nat /\ i >= 1
  <2> DEFINE plans == old.plans
             rest == s.plans
  <2>1. plans \in Seq(Calls) /\ plans # <<>> /\ rest = Tail(plans)
    BY <1>1, <1>3
  <2> HIDE DEF plans, rest
  <2>3. /\ rest \in Seq(Calls) /\ Len(plans) \in Nat /\ Len(plans) >= 1
        /\ DOMAIN plans = 1..Len(plans) /\ DOMAIN rest = 1..(Len(plans) - 1)
        /\ \A i \in 1..(Len(plans) - 1) : rest[i] = plans[i + 1]
    BY <2>1
  <2>4. ASSUME NEW i \in DOMAIN plans, i # 1
        PROVE  i - 1 \in DOMAIN rest /\ rest[i - 1] = plans[i]
    <3>1. i - 1 \in 1..(Len(plans) - 1) /\ (i - 1) + 1 = i
      BY <2>3, <2>4
    <3>2. rest[i - 1] = plans[(i - 1) + 1]
      BY <2>3, <3>1
    <3> QED
      BY <2>3, <3>1, <3>2
  <2>5. \A i \in DOMAIN rest : i + 1 \in DOMAIN plans /\ rest[i] = plans[i + 1]
    BY <2>3
  <2>6. /\ \A i \in DOMAIN plans : i \in Nat /\ i >= 1
        /\ \A i \in DOMAIN rest : i \in Nat /\ i >= 1
    BY <2>3
  <2>7. \A i \in DOMAIN plans : i # 1 => (i - 1 \in DOMAIN rest /\ rest[i - 1] = plans[i])
    BY <2>4
  <2> QED
    BY <2>3, <2>5, <2>6, <2>7 DEF plans, rest
<1> HIDE DEF next
<1>6. SeenFit(s)'
  BY <1>2, <1>3 DEF ProgressFit, SeenFit, NotAhead, Rank
<1>7. PlanFit(s)'
  <2>1. /\ s.pc \notin {"idle", "coordinator", "relayer"} => Standing'
        /\ \A i \in DOMAIN s.plans : s.plans[i] \in RowCalls => Standing'
    BY <1>2, <1>3, <1>5 DEF ProgressFit, PlanFit, Standing
  <2>2. ASSUME NEW i \in DOMAIN s.plans, NEW w \in Row, NEW o \in ObjectId,
               s.plans[i] = RowFinalize(w, o)
        PROVE  \/ \E j \in DOMAIN s.plans : j < i /\ s.plans[j] = RowRecord(w)
               \/ \E g \in DOMAIN sent' : sent'[g] = RowRecord(w)
    <3>1. i + 1 \in DOMAIN old.plans /\ old.plans[i + 1] = RowFinalize(w, o)
      BY <1>5, <2>2
    <3>2. CASE \E g \in DOMAIN sent : sent[g] = RowRecord(w)
      BY <1>4, <3>2
    <3>3. CASE \E j \in DOMAIN old.plans : j < i + 1 /\ old.plans[j] = RowRecord(w)
      <4>1. PICK j \in DOMAIN old.plans : j < i + 1 /\ old.plans[j] = RowRecord(w)
        BY <3>3
      <4>2. CASE j = 1
        BY <1>4, <4>1, <4>2
      <4>3. CASE j # 1
        <5>1. j - 1 \in DOMAIN s.plans /\ s.plans[j - 1] = RowRecord(w)
          BY <1>5, <4>1, <4>3
        <5>2. j - 1 < i
          BY <1>5, <4>1
        <5> QED
          BY <5>1, <5>2
      <4> QED
        BY <4>2, <4>3
    <3> QED
      BY <3>1, <3>2, <3>3 DEF ProgressFit, PlanFit
  <2> QED
    BY <2>1, <2>2 DEF PlanFit, RowCalls, Row, RowRecord, RowFinalize
<1>8. AgendaFit(s)'
  <2>1. s.awaiting \subseteq DOMAIN sent'
    BY <1>3, <1>4 DEF ProgressFit, AgendaFit
  <2>2. ASSUME NEW t \in Calls, OnAgenda(s, t) PROVE UnderWay(s, t)'
    <3>1. OnAgenda(old, t)
      BY <1>3, <2>2 DEF OnAgenda
    <3>2. UnderWay(old, t)
      BY <3>1 DEF ProgressFit, AgendaFit
    <3>3. CASE \E i \in DOMAIN old.plans : old.plans[i] = t
      <4>1. PICK i \in DOMAIN old.plans : old.plans[i] = t
        BY <3>3
      <4>2. CASE i = 1
        BY <1>3, <1>4, <4>1, <4>2 DEF UnderWay
      <4>3. CASE i # 1
        BY <1>5, <4>1, <4>3 DEF UnderWay
      <4> QED
        BY <4>2, <4>3
    <3>4. CASE \E h \in old.awaiting : sent[h] = t
      BY <1>3, <1>4, <3>4 DEF UnderWay, ProgressFit, AgendaFit
    <3>5. CASE Effected(t)
      BY <1>2, <3>5 DEF UnderWay, Effected, Standing, Rank
    <3> QED
      BY <3>2, <3>3, <3>4, <3>5 DEF UnderWay
  <2> QED
    BY <2>1, <2>2 DEF AgendaFit, OnAgenda, StartDue, FinalizeDue, Rank
<1>9. ProgressFit(s)'
  BY <1>6, <1>7, <1>8 DEF ProgressFit
<1> QED
  BY <1>s, <1>9, Zenon

\* A phase that waits for nothing any more is done.
LEMMA AgendaDone ==
  ASSUME AgendaFit(seeder), seeder.plans = <<>>, seeder.awaiting = {},
         NEW t \in Calls, OnAgenda(seeder, t)
  PROVE  Effected(t)
BY DEF AgendaFit, UnderWay

LEMMA StandingDone ==
  ASSUME AgendaFit(seeder), seeder.plans = <<>>, seeder.awaiting = {}, seeder.pc = "relayer"
  PROVE  Standing
<1>1. SetCoordinatorCall \in Calls /\ OnAgenda(seeder, SetCoordinatorCall)
  BY DEF Calls, SetupCalls, OnAgenda
<1>2. Effected(SetCoordinatorCall)
  BY <1>1, AgendaDone
<1> QED
  BY <1>2 DEF Effected, SetCoordinatorCall

LEMMA AwaitBatchProgress ==
  ASSUME Base, Effects, ProgressFit(seeder), Seeder!AwaitBatch
  PROVE  ProgressFit(seeder')
<1>1. seeder \in SeederState
  BY DEF Base, ScriptTypes
<1>2. CASE Seeder!Become(Seeder!Idle)
  <2>1. seeder' = Seeder!Idle
    BY <1>2 DEF Seeder!Become
  <2> QED
    BY <2>1, IdleProgress, Zenon
<1>3. CASE /\ Seeder!BatchAccepted(seeder.awaiting)
           /\ Seeder!Become([seeder EXCEPT !.awaiting = {}])
  <2>1. PICK s : s = seeder' /\ s = [seeder EXCEPT !.awaiting = {}]
    BY <1>3 DEF Seeder!Become
  <2>2. /\ s.awaiting = {} /\ s.plans = seeder.plans /\ s.pc = seeder.pc
        /\ s.seen = seeder.seen /\ s.targets = seeder.targets
    BY <1>1, <2>1 DEF SeederState
  <2>3. \A h \in seeder.awaiting : Effected(sent[h])
    <3> SUFFICES ASSUME NEW h \in seeder.awaiting PROVE Effected(sent[h])
      OBVIOUS
    <3>1. h \in DOMAIN sent /\ h <= Len(outcome) /\ outcome[h]
      BY <1>3 DEF Seeder!AwaitBatch, Seeder!Mined, Seeder!BatchAccepted, ProgressFit, AgendaFit
    <3>2. h \in DOMAIN outcome
      BY <3>1, PoolFacts
    <3> QED
      BY <3>1, <3>2 DEF Effects
  <2>4. ASSUME NEW t \in Calls, OnAgenda(s, t) PROVE UnderWay(s, t)
    <3>1. UnderWay(seeder, t)
      BY <2>2, <2>4 DEF OnAgenda, ProgressFit, AgendaFit
    <3>2. ASSUME NEW h \in seeder.awaiting, sent[h] = t PROVE Effected(t)
      BY <2>3, <3>2, Zenon
    <3> QED
      BY <2>2, <3>1, <3>2 DEF UnderWay
  <2>5. AgendaFit(s)
    BY <2>2, <2>4 DEF AgendaFit
  <2>6. SeenFit(s) /\ PlanFit(s)
    BY <2>2 DEF ProgressFit, SeenFit, PlanFit
  <2>7. ProgressFit(s)
    BY <2>5, <2>6 DEF ProgressFit
  <2> QED
    BY <2>1, <2>7, Zenon
<1> QED
  BY <1>2, <1>3 DEF Seeder!AwaitBatch

LEMMA SetupProgress ==
  ASSUME Base, ProgressFit(seeder), Seeder!EnsureCoordinator \/ Seeder!EnsureRelayer
  PROVE  ProgressFit(seeder')
<1>1. seeder \in SeederState
  BY DEF Base, ScriptTypes
<1>2. Seeder!StandingPolicy = StandingPolicy
  BY DEF Seeder!StandingPolicy, StandingPolicy
<1>3. \A t \in SetupCalls : t \notin RowCalls
  BY RowCallsApart
<1>4. CASE Seeder!EnsureCoordinator
  <2> DEFINE plans == IF Standing THEN <<>> ELSE <<SetCoordinatorCall>>
  <2>1. /\ seeder' = [seeder EXCEPT !.plans = plans, !.pc = "relayer"]
        /\ seeder.awaiting = {}
    BY <1>2, <1>4 DEF Seeder!EnsureCoordinator, Seeder!Plan, Seeder!Become, Seeder!Ready,
       SetCoordinatorCall, Standing
  <2>2. PICK s : s = seeder' /\ s = [seeder EXCEPT !.plans = plans, !.pc = "relayer"]
    BY <2>1
  <2>3. /\ s.plans = plans /\ s.pc = "relayer" /\ s.awaiting = {} /\ s.seen = seeder.seen
    BY <1>1, <2>1, <2>2 DEF SeederState
  <2>4. \A i \in DOMAIN plans : plans[i] = SetCoordinatorCall
    OBVIOUS
  <2>5. ~Standing => 1 \in DOMAIN plans /\ plans[1] = SetCoordinatorCall
    OBVIOUS
  <2>6. Standing => Effected(SetCoordinatorCall)
    BY DEF Effected, SetCoordinatorCall
  <2> HIDE DEF plans
  <2>7. AgendaFit(s)
    BY <2>3, <2>5, <2>6 DEF AgendaFit, OnAgenda, UnderWay
  <2>8. SetCoordinatorCall \notin RowCalls
    BY <1>3 DEF SetupCalls
  <2>9. PlanFit(s)
    BY <2>3, <2>4, <2>8, RowCallsApart DEF PlanFit
  <2>10. SeenFit(s)
    BY <2>3 DEF SeenFit, ProgressFit
  <2>11. ProgressFit(s)
    BY <2>7, <2>9, <2>10 DEF ProgressFit
  <2> QED
    BY <2>2, <2>11, Zenon
<1>5. CASE Seeder!EnsureRelayer
  <2> DEFINE plans == IF Operator \in relayers THEN <<>> ELSE <<SetRelayerCall(Operator)>>
  <2>1. /\ seeder' = [seeder EXCEPT !.plans = plans, !.pc = "read", !.row = 1]
        /\ seeder.awaiting = {} /\ seeder.plans = <<>> /\ seeder.pc = "relayer"
    BY <1>5 DEF Seeder!EnsureRelayer, Seeder!Ready, Seeder!At, SetRelayerCall
  <2>2. PICK s : s = seeder' /\ s = [seeder EXCEPT !.plans = plans, !.pc = "read", !.row = 1]
    BY <2>1
  <2>3. /\ s.plans = plans /\ s.pc = "read" /\ s.awaiting = {} /\ s.seen = seeder.seen
    BY <1>1, <2>1, <2>2 DEF SeederState
  <2>4. \A i \in DOMAIN plans : plans[i] = SetRelayerCall(Operator)
    OBVIOUS
  <2> HIDE DEF plans
  <2>5. Standing
    BY <2>1, StandingDone DEF ProgressFit
  <2>6. SetRelayerCall(Operator) \notin RowCalls
    BY <1>3, RowsAssumption DEF SetupCalls
  <2>7. PlanFit(s)
    BY <2>3, <2>4, <2>5, <2>6, RowCallsApart DEF PlanFit
  <2>8. SeenFit(s) /\ AgendaFit(s)
    BY <2>3 DEF SeenFit, AgendaFit, OnAgenda, ProgressFit
  <2>9. ProgressFit(s)
    BY <2>7, <2>8 DEF ProgressFit
  <2> QED
    BY <2>2, <2>9, Zenon
<1> QED
  BY <1>4, <1>5

LEMMA ReadProgress ==
  ASSUME Base, DemoRests, ProgressFit(seeder), NEW pc \in {"read", "created", "started"},
         NEW wanted, Seeder!ReadRow(pc, wanted)
  PROVE  ProgressFit(seeder')
<1> DEFINE w == seeder.row
           e == IF w \in wanted THEN Read(w, seeder.seen[w].id) ELSE seeder.seen[w]
<1>1. seeder \in SeederState /\ TypeOK
  BY DEF Base, ScriptTypes, Registry
<1>2. w \in Row /\ seeder' = [seeder EXCEPT !.row = w + 1, !.seen[w] = e]
  BY ReadRowMoves
<1>3. seeder.pc = pc /\ seeder.plans = <<>> /\ seeder.awaiting = {}
  BY DEF Seeder!ReadRow, Seeder!Ready, Seeder!At
<1>4. seeder.seen \in [Row -> Reading] /\ seeder.seen[w].id \in NodeId
  BY <1>1, <1>2 DEF SeederState, Reading
<1>5. ASSUME e.id # 0 PROVE NotAhead(e.status, objects[e.id].status)
  <2>1. CASE w \in wanted
    <3>1. e.status = Seeder!StatusOf(e.id) /\ e.id \in NodeId
      BY <1>1, <1>2, <1>4, <2>1, ObjectOfType DEF Read
    <3>2. e.id \in ObjectId /\ e.status = objects[e.id].status
      BY <1>1, <1>5, <3>1, StatusOfType DEF Seeder!StatusOf
    <3>3. objects[e.id].status \in UploadStatus
      BY <1>1, <3>2, StatusTypes
    <3>4. Rank(objects[e.id].status) \in Nat
      BY <3>3, RankValues
    <3>5. NotAhead(objects[e.id].status, objects[e.id].status)
      BY <3>4 DEF NotAhead
    <3> HIDE DEF e
    <3> QED
      BY <3>2, <3>5, Zenon
  <2>2. CASE w \notin wanted
    <3>1. e = seeder.seen[w]
      BY <2>2
    <3> HIDE DEF e
    <3>2. seeder.seen[w].id # 0 =>
            NotAhead(seeder.seen[w].status, objects[seeder.seen[w].id].status)
      BY <1>2 DEF ProgressFit, SeenFit
    <3> QED
      BY <1>5, <3>1, <3>2, Zenon
  <2> QED
    BY <2>1, <2>2
<1> HIDE DEF e
<1>6. PICK s : s = seeder' /\ s = [seeder EXCEPT !.row = w + 1, !.seen[w] = e]
  BY <1>2
<1>7. /\ s.plans = <<>> /\ s.awaiting = {} /\ s.pc = pc
      /\ s.seen[w] = e /\ \A v \in Row : v # w => s.seen[v] = seeder.seen[v]
  BY <1>1, <1>2, <1>3, <1>4, <1>6 DEF SeederState
<1>8. SeenFit(s)
  <2> SUFFICES ASSUME NEW v \in Row, s.seen[v].id # 0
               PROVE  NotAhead(s.seen[v].status, objects[s.seen[v].id].status)
    BY DEF SeenFit
  <2>1. CASE v = w
    <3>1. s.seen[v] = e /\ e.id # 0
      BY <1>7, <2>1
    <3> QED
      BY <1>5, <3>1, Zenon
  <2>2. CASE v # w
    <3>1. s.seen[v] = seeder.seen[v]
      BY <1>7, <2>2
    <3>2. seeder.seen[v].id # 0 =>
            NotAhead(seeder.seen[v].status, objects[seeder.seen[v].id].status)
      BY DEF ProgressFit, SeenFit
    <3>3. seeder.seen[v].id # 0
      BY <3>1
    <3> QED
      BY <3>1, <3>2, <3>3, Zenon
  <2> QED
    BY <2>1, <2>2
<1>9. AgendaFit(s)
  BY <1>7 DEF AgendaFit, OnAgenda
<1>10. PlanFit(s)
  BY <1>3, <1>7 DEF ProgressFit, PlanFit
<1>11. ProgressFit(s)
  BY <1>8, <1>9, <1>10 DEF ProgressFit
<1> QED
  BY <1>6, <1>11, Zenon

LEMMA NewPlansProgress ==
  ASSUME ProgressFit(seeder), Standing, NEW s, s = seeder',
         s.awaiting = {}, s.seen = seeder.seen,
         \A i \in DOMAIN s.plans, w \in Row, o \in ObjectId :
           s.plans[i] = RowFinalize(w, o) =>
             \E j \in DOMAIN s.plans : j < i /\ s.plans[j] = RowRecord(w),
         \A t \in Calls : OnAgenda(s, t) => \E i \in DOMAIN s.plans : s.plans[i] = t
  PROVE  ProgressFit(seeder')
<1>1. SeenFit(s)
  BY DEF ProgressFit, SeenFit
<1>2. PlanFit(s)
  BY DEF PlanFit
<1>3. AgendaFit(s)
  BY DEF AgendaFit, UnderWay
<1>4. ProgressFit(s)
  BY <1>1, <1>2, <1>3 DEF ProgressFit
<1> QED
  BY <1>4, Zenon

LEMMA PlanProgress ==
  ASSUME Base, ProgressFit(seeder),
         Seeder!RequestMissing \/ Seeder!StartRequested \/ Seeder!FinalizeUploading
  PROVE  ProgressFit(seeder')
<1>1. seeder \in SeederState /\ SeederFit(seeder)
  BY DEF Base, ScriptTypes, SeederOK
<1>2. \A w \in Row : seeder.seen[w].status # "None" => seeder.seen[w].id \in ObjectId
  BY <1>1 DEF SeederFit, OwnRow
<1>3. seeder.plans = <<>> /\ seeder.awaiting = {} /\ seeder.pc \in {"read", "created", "started"}
  BY DEF Seeder!RequestMissing, Seeder!StartRequested, Seeder!FinalizeUploading,
     Seeder!AllRead, Seeder!Ready, Seeder!At
<1>4. Standing
  BY <1>3 DEF ProgressFit, PlanFit
<1>6. CASE Seeder!RequestMissing
  <2> DEFINE plans == Seeder!RequestPlans(seeder.seen)
  <2>1. PICK s : s = seeder' /\ s = [seeder EXCEPT !.plans = plans, !.pc = "created", !.row = 1]
    BY <1>6 DEF Seeder!RequestMissing, Seeder!Become
  <2>2. \A i \in DOMAIN plans : plans[i].fn = "requestUpload"
    <3>1. \A i \in DOMAIN plans : \E w \in Row : plans[i] = RowRequest(w)
      BY RequestPlansCorrect
    <3>2. \A w : RowRequest(w).fn = "requestUpload"
      BY DEF RowRequest
    <3> HIDE DEF plans
    <3> QED
      BY <3>1, <3>2
  <2> HIDE DEF plans
  <2>3. s.plans = plans /\ s.awaiting = {} /\ s.seen = seeder.seen /\ s.pc = "created"
    BY <1>1, <1>3, <2>1 DEF SeederState
  <2>4. \A i \in DOMAIN plans, w \in Row, o \in ObjectId : plans[i] # RowFinalize(w, o)
    BY <2>2 DEF RowFinalize
  <2>5. \A t \in Calls : OnAgenda(s, t) => \E i \in DOMAIN plans : plans[i] = t
    BY <2>3 DEF OnAgenda
  <2>6. \A i \in DOMAIN s.plans, w \in Row, o \in ObjectId :
          s.plans[i] = RowFinalize(w, o) =>
            \E j \in DOMAIN s.plans : j < i /\ s.plans[j] = RowRecord(w)
    BY <2>3, <2>4
  <2>7. \A t \in Calls : OnAgenda(s, t) => \E i \in DOMAIN s.plans : s.plans[i] = t
    BY <2>3, <2>5
  <2> QED
    BY <1>4, <2>1, <2>3, <2>6, <2>7, NewPlansProgress
<1>7. CASE Seeder!StartRequested
  <2> DEFINE plans == Seeder!StartPlans(seeder.seen, seeder.targets)
             due == StartDue(seeder.seen, seeder.targets)
  <2>1. PICK s : s = seeder' /\ s = [seeder EXCEPT !.plans = plans, !.pc = "starting"]
    BY <1>7 DEF Seeder!StartRequested, Seeder!Plan, Seeder!Become
  <2>2. \A w \in StartDue(seeder.seen, seeder.targets) : seeder.seen[w].id \in ObjectId
    BY <1>2 DEF StartDue
  <2>3. /\ \A i \in DOMAIN plans :
             \E w \in due : plans[i] = RowStart(w, seeder.seen[w].id)
        /\ \A w \in due : \E i \in DOMAIN plans : plans[i] = RowStart(w, seeder.seen[w].id)
    <3> DEFINE seen == seeder.seen
               targets == seeder.targets
    <3>1. \A w \in StartDue(seen, targets) : seen[w].id \in ObjectId
      BY <2>2
    <3> HIDE DEF seen, targets
    <3>2. /\ \A i \in DOMAIN Seeder!StartPlans(seen, targets) :
               \E w \in StartDue(seen, targets) :
                 Seeder!StartPlans(seen, targets)[i] = RowStart(w, seen[w].id)
          /\ \A w \in StartDue(seen, targets) :
               \E i \in DOMAIN Seeder!StartPlans(seen, targets) :
                 Seeder!StartPlans(seen, targets)[i] = RowStart(w, seen[w].id)
      BY <3>1, StartPlansCorrect
    <3> QED
      BY <3>2 DEF seen, targets
  <2> HIDE DEF plans
  <2>4. /\ s.plans = plans /\ s.awaiting = {} /\ s.seen = seeder.seen /\ s.pc = "starting"
        /\ s.targets = seeder.targets
    BY <1>1, <1>3, <2>1 DEF SeederState
  <2>5. \A i \in DOMAIN plans : plans[i].fn = "startUpload"
    <3>1. \A w, o : RowStart(w, o).fn = "startUpload"
      BY DEF RowStart
    <3> QED
      BY <2>3, <3>1
  <2>6. \A i \in DOMAIN plans, w \in Row, o \in ObjectId :
          plans[i] = RowFinalize(w, o) =>
            \E j \in DOMAIN plans : j < i /\ plans[j] = RowRecord(w)
    BY <2>5 DEF RowFinalize
  <2>7. \A t \in Calls : OnAgenda(s, t) => \E i \in DOMAIN plans : plans[i] = t
    BY <2>3, <2>4 DEF OnAgenda
  <2>8. /\ \A i \in DOMAIN s.plans, w \in Row, o \in ObjectId :
             s.plans[i] = RowFinalize(w, o) =>
               \E j \in DOMAIN s.plans : j < i /\ s.plans[j] = RowRecord(w)
        /\ \A t \in Calls : OnAgenda(s, t) => \E i \in DOMAIN s.plans : s.plans[i] = t
    BY <2>4, <2>6, <2>7
  <2> QED
    BY <1>4, <2>1, <2>4, <2>8, NewPlansProgress
<1>8. CASE Seeder!FinalizeUploading
  <2> DEFINE plans == Seeder!FinalizationPlans(seeder.seen, seeder.targets)
             due == FinalizeDue(seeder.seen, seeder.targets)
  <2>1. PICK s : s = seeder' /\ s = [seeder EXCEPT !.plans = plans, !.pc = "finalizing"]
    BY <1>8 DEF Seeder!FinalizeUploading, Seeder!Plan, Seeder!Become
  <2>2. \A w \in due : seeder.seen[w].id \in ObjectId
    BY <1>2 DEF FinalizeDue
  <2>3. /\ plans \in Seq(Calls)
        /\ \A j \in DOMAIN plans :
             \E w \in due :
               \/ plans[j] = RowRecord(w)
               \/ /\ plans[j] = RowFinalize(w, seeder.seen[w].id)
                  /\ j - 1 \in DOMAIN plans /\ plans[j - 1] = RowRecord(w)
        /\ \A w \in due : \E j \in DOMAIN plans : plans[j] = RowFinalize(w, seeder.seen[w].id)
    <3> DEFINE seen == seeder.seen
               targets == seeder.targets
    <3>1. \A w \in FinalizeDue(seen, targets) : seen[w].id \in ObjectId
      BY <2>2
    <3> HIDE DEF seen, targets
    <3>2. LET all == Seeder!FinalizationPlans(seen, targets)
          IN  /\ all \in Seq(Calls)
              /\ \A j \in DOMAIN all :
                   \E w \in FinalizeDue(seen, targets) :
                     \/ all[j] = RowRecord(w)
                     \/ /\ all[j] = RowFinalize(w, seen[w].id)
                        /\ j - 1 \in DOMAIN all /\ all[j - 1] = RowRecord(w)
              /\ \A w \in FinalizeDue(seen, targets) :
                   \E j \in DOMAIN all : all[j] = RowFinalize(w, seen[w].id)
      BY <3>1, FinalizationPlansCorrect
    <3> QED
      BY <3>2 DEF seen, targets
  <2> HIDE DEF plans
  <2>4. /\ s.plans = plans /\ s.awaiting = {} /\ s.seen = seeder.seen /\ s.pc = "finalizing"
        /\ s.targets = seeder.targets
    BY <1>1, <1>3, <2>1 DEF SeederState
  <2>5. \A w, v, o, x : /\ RowRecord(w) # RowFinalize(v, o)
                        /\ RowFinalize(w, x) = RowFinalize(v, o) => w = v
    <3>1. \A w, v, o, x : /\ RowRecord(w).fn = "recordDataset"
                          /\ RowFinalize(v, o).fn = "finalizeUpload"
                          /\ RowFinalize(v, o).row = v
      BY DEF RowRecord, RowFinalize
    <3> QED
      BY <3>1
  <2>6. ASSUME NEW i \in DOMAIN plans, NEW w \in Row, NEW o \in ObjectId,
               plans[i] = RowFinalize(w, o)
        PROVE  \E j \in DOMAIN plans : j < i /\ plans[j] = RowRecord(w)
    <3> HIDE DEF due
    <3>1. i - 1 \in DOMAIN plans /\ plans[i - 1] = RowRecord(w)
      BY <2>3, <2>5, <2>6
    <3>2. i \in Nat
      BY <2>3
    <3>3. i - 1 < i
      BY <3>2
    <3> QED
      BY <3>1, <3>3
  <2>7. \A t \in Calls : OnAgenda(s, t) => \E i \in DOMAIN plans : plans[i] = t
    BY <2>3, <2>4 DEF OnAgenda
  <2>8. /\ \A i \in DOMAIN s.plans, w \in Row, o \in ObjectId :
             s.plans[i] = RowFinalize(w, o) =>
               \E j \in DOMAIN s.plans : j < i /\ s.plans[j] = RowRecord(w)
        /\ \A t \in Calls : OnAgenda(s, t) => \E i \in DOMAIN s.plans : s.plans[i] = t
    BY <2>4, <2>6, <2>7
  <2> QED
    BY <1>4, <2>1, <2>4, <2>8, NewPlansProgress
<1> QED
  BY <1>6, <1>7, <1>8

LEMMA MarkStartedProgress ==
  ASSUME Base, DemoRests, ProgressFit(seeder), Seeder!MarkStarted
  PROVE  ProgressFit(seeder')
<1> DEFINE due == StartDue(seeder.seen, seeder.targets)
           seen == Started(seeder.seen, seeder.targets)
<1>1. /\ seeder \in SeederState /\ SeederFit(seeder)
      /\ seeder.seen \in [Row -> Reading]
  BY DEF Base, ScriptTypes, SeederOK, SeederState
<1>2. seeder' = [seeder EXCEPT !.pc = "started", !.row = 1, !.seen = seen]
  BY MarkStartedMoves
<1>3. seeder.pc = "starting" /\ seeder.plans = <<>> /\ seeder.awaiting = {}
  BY DEF Seeder!MarkStarted, Seeder!Ready, Seeder!At
<1>4. \A w \in due : w \in Row /\ seeder.seen[w].id \in ObjectId
  BY <1>1 DEF SeederFit, OwnRow, StartDue
<1>5. ASSUME NEW w \in due PROVE NotAhead("Uploading", objects[seeder.seen[w].id].status)
  <2>1. RowStart(w, seeder.seen[w].id) \in Calls /\ OnAgenda(seeder, RowStart(w, seeder.seen[w].id))
    BY <1>3, <1>4 DEF OnAgenda, Calls, RowCalls
  <2>2. Effected(RowStart(w, seeder.seen[w].id))
    BY <1>3, <2>1, AgendaDone DEF ProgressFit
  <2>3. Rank(objects[seeder.seen[w].id].status) >= 2
    BY <2>2 DEF Effected, RowStart
  <2>4. Rank("Uploading") = 2
    BY DEF Rank, Seeder!Rank
  <2>5. Rank(objects[seeder.seen[w].id].status) \in Nat
    BY <1>4, StatusTypes, RankValues DEF Base, Registry
  <2> QED
    BY <2>3, <2>4, <2>5 DEF NotAhead
<1>6. \A w \in Row : /\ seen[w].id = seeder.seen[w].id
                     /\ w \in due => seen[w].status = "Uploading"
                     /\ w \notin due => seen[w].status = seeder.seen[w].status
  BY <1>1 DEF Started, Reading
<1> HIDE DEF seen, due
<1>7. PICK s : s = seeder' /\ s = [seeder EXCEPT !.pc = "started", !.row = 1, !.seen = seen]
  BY <1>2
<1>8. s.pc = "started" /\ s.plans = <<>> /\ s.awaiting = {} /\ s.seen = seen
  BY <1>1, <1>3, <1>7 DEF SeederState
<1>9. SeenFit(s)
  <2> SUFFICES ASSUME NEW w \in Row, seen[w].id # 0
               PROVE  NotAhead(seen[w].status, objects[seen[w].id].status)
    BY <1>8 DEF SeenFit
  <2>1. CASE w \in due
    <3>1. NotAhead("Uploading", objects[seeder.seen[w].id].status)
      BY <1>5, <2>1
    <3> QED
      BY <1>6, <2>1, <3>1, Zenon
  <2>2. CASE w \notin due
    <3>1. seeder.seen[w].id # 0 =>
            NotAhead(seeder.seen[w].status, objects[seeder.seen[w].id].status)
      BY DEF ProgressFit, SeenFit
    <3> QED
      BY <1>6, <2>2, <3>1, Zenon
  <2> QED
    BY <2>1, <2>2
<1>10. AgendaFit(s) /\ PlanFit(s)
  BY <1>3, <1>8 DEF AgendaFit, OnAgenda, ProgressFit, PlanFit
<1>11. ProgressFit(s)
  BY <1>9, <1>10 DEF ProgressFit
<1> QED
  BY <1>7, <1>11, Zenon

LEMMA ProgressStep ==
  ASSUME Base, Base', Effects, ProgressFit(seeder), [ScriptsNext]_scriptsVars
  PROVE  ProgressFit(seeder)'
<1>1. Grows
  BY BaseStep
<1>2. ASSUME ProgressFit(seeder') PROVE ProgressFit(seeder)'
  <2>1. PICK s \in SeederState : s = seeder'
    BY DEF Base, ScriptTypes
  <2>2. ProgressFit(s)
    BY <1>2, <2>1, Zenon
  <2>3. \A w \in Row : s.seen[w].id # 0 => s.seen[w].id \in ObjectId
    BY <2>1 DEF Base, SeederOK, SeederFit, OwnRow, ObjectId, Row
  <2>4. ProgressFit(s)'
    BY <1>1, <2>2, <2>3, ProgressKept
  <2> QED
    BY <2>1, <2>4, Zenon
<1>3. CASE UNCHANGED seeder
  <2>1. ProgressFit(seeder')
    BY <1>3, Zenon
  <2> QED
    BY <1>2, <2>1
<1>4. CASE DemoRests /\ Seeder!Step
  <2>1. CASE Seeder!SendOne
    BY <1>4, <2>1, SendOneProgress
  <2>2. CASE Seeder!ReadExisting \/ Seeder!ReadCreated \/ Seeder!ReadStarted
    BY <1>2, <1>4, <2>2, ReadProgress DEF Seeder!ReadExisting, Seeder!ReadCreated, Seeder!ReadStarted
  <2>3. CASE Seeder!WriteSummary
    <3>1. seeder' = Seeder!Idle
      BY <2>3 DEF Seeder!WriteSummary
    <3>2. ProgressFit(seeder')
      BY <3>1, IdleProgress, Zenon
    <3> QED
      BY <1>2, <3>2
  <2> QED
    BY <1>2, <1>4, <2>1, <2>2, <2>3, AwaitBatchProgress, SetupProgress, PlanProgress,
       MarkStartedProgress DEF Seeder!Step
<1>5. CASE Seeder!GiveUp
  <2>1. seeder' = Seeder!Idle
    BY <1>5 DEF Seeder!GiveUp
  <2>2. ProgressFit(seeder')
    BY <2>1, IdleProgress, Zenon
  <2> QED
    BY <1>2, <2>2
<1>6. CASE \E targets \in Targets : Seeder!Begin(targets)
  <2>1. PICK s : s = seeder' /\ s.pc = "coordinator" /\ s.plans = <<>> /\ s.awaiting = {}
                 /\ s.seen = Seeder!NothingSeen
    BY <1>6 DEF Seeder!Begin, Seeder!Idle
  <2>2. \A w \in Row : s.seen[w].id = 0
    BY <2>1 DEF Seeder!NothingSeen, Row
  <2>3. ProgressFit(s)
    BY <2>1, <2>2 DEF ProgressFit, SeenFit, PlanFit, AgendaFit, OnAgenda
  <2>4. ProgressFit(seeder')
    BY <2>1, <2>3, Zenon
  <2> QED
    BY <1>2, <2>4
<1> QED
  BY <1>3, <1>4, <1>5, <1>6
  DEF ScriptsNext, scriptsVars, seederVars, Seeder!SeederRuns, Seeder!CancelRow, DemoRests

-----------------------------------------------------------------------------
(* The rows and the summary *)

LEMMA OwnRowStatus ==
  ASSUME NEW w \in Row, NEW o, OwnRow(w, o)
  PROVE  o \in ObjectId /\ Seeder!ObjectOf(w) = o /\ Seeder!StatusOf(o) = objects[o].status
<1>1. o \in ObjectId /\ o # 0
  BY DEF OwnRow, ObjectId
<1> QED
  BY <1>1 DEF OwnRow, Seeder!StatusOf

\* The upload of a row, once there, stays.
LEMMA RowGrows ==
  ASSUME Base, Base', Grows, NEW w \in Row, NEW o, o = Seeder!ObjectOf(w),
         NEW next, next = Seeder!ObjectOf(w)', NEW status \in UploadStatus,
         NotAhead(status, Seeder!StatusOf(o))
  PROVE  NotAhead(status, Seeder!StatusOf(next)')
<1>1. CASE o = 0
  <2>1. Seeder!StatusOf(o) = "None"
    BY <1>1 DEF Seeder!StatusOf
  <2>2. Rank("None") = 0 /\ Rank(status) \in Nat
    BY RankValues DEF Rank, Seeder!Rank
  <2>3. Rank(status) <= Rank("None") /\ status # "Committed"
    BY <2>1 DEF NotAhead
  <2>4. Rank(status) = 0
    BY <2>2, <2>3
  <2>5. TypeOK'
    BY DEF Base, Registry
  <2>6. next \in NodeId
    BY <2>5, RowsAssumption DEF TypeOK, Seeder!ObjectOf, Row
  <2>7. Seeder!StatusOf(next)' \in UploadStatus
    <3>1. CASE next = 0
      BY <3>1 DEF Seeder!StatusOf, UploadStatus
    <3>2. CASE next # 0
      <4>1. next \in ObjectId
        BY <2>6, <3>2, MaxObjectsAssumption DEF NodeId, ObjectId
      <4>2. objects'[next].status \in UploadStatus
        BY <2>5, <4>1 DEF TypeOK, StorageObject
      <4> QED
        BY <3>2, <4>2 DEF Seeder!StatusOf
    <3> QED
      BY <3>1, <3>2
  <2>8. Rank(Seeder!StatusOf(next)') \in Nat
    BY <2>7, RankValues
  <2> QED
    BY <2>3, <2>4, <2>8 DEF NotAhead
<1>2. CASE o # 0
  <2>1. o \in ObjectId
    BY <1>2, ObjectOfType, StatusOfType DEF Base, Registry
  <2>2. OwnRow(w, o)
    BY <2>1 DEF OwnRow
  <2>3. OwnRow(w, o)'
    BY <2>2, OwnRowKept DEF Grows
  <2>4. next = o
    BY <2>3 DEF OwnRow
  <2>5. Seeder!StatusOf(o) = objects[o].status /\ Seeder!StatusOf(o)' = objects'[o].status
    BY <1>2 DEF Seeder!StatusOf
  <2>6. NotAhead(status, objects[o].status)
    BY <2>5, Zenon
  <2>7. NotAhead(status, objects'[o].status)
    BY <2>1, <2>6, NotAheadKept
  <2>8. Seeder!StatusOf(next)' = objects'[o].status
    BY <2>4, <2>5
  <2> QED
    BY <2>7, <2>8, Zenon
<1> QED
  BY <1>1, <1>2

\* Only a run of the seeder that gets to its end writes the summary.
LEMMA SummaryWriter ==
  ASSUME [ScriptsNext]_scriptsVars
  PROVE  summary' = summary \/ (DemoRests /\ Seeder!WriteSummary)
BY DEF ScriptsNext, scriptsVars, seederVars, Seeder!SeederRuns, Seeder!CancelRow, DemoRests,
   Seeder!Step, Seeder!EnsureCoordinator, Seeder!EnsureRelayer, Seeder!ReadExisting,
   Seeder!ReadCreated, Seeder!ReadStarted, Seeder!ReadRow, Seeder!RequestMissing,
   Seeder!StartRequested, Seeder!MarkStarted, Seeder!FinalizeUploading, Seeder!SendOne,
   Seeder!AwaitBatch, Seeder!Plan, Seeder!Become, Seeder!GiveUp, Seeder!Begin

LEMMA SummaryStep ==
  ASSUME Base, Base', Grows, SummaryNeverAhead, ProgressFit(seeder),
         [ScriptsNext]_scriptsVars
  PROVE  SummaryNeverAhead'
<1>0. /\ TypeOK /\ TypeOK' /\ Seeder!Row = Row
      /\ summary \in [Row -> UploadStatus] /\ seeder \in SeederState
  BY DEF Base, Registry, ScriptTypes, Row
<1>1. SUFFICES ASSUME NEW w \in Row, NEW next, next = Seeder!ObjectOf(w)'
               PROVE  NotAhead(summary'[w], Seeder!StatusOf(next)')
  <2>1. ASSUME NEW w \in Row
        PROVE  LET status == Seeder!StatusOf(Seeder!ObjectOf(w))'
               IN  /\ Seeder!Rank(summary'[w]) <= Seeder!Rank(status)
                   /\ summary'[w] = "Committed" => status = "Committed"
    <3>1. PICK next : next = Seeder!ObjectOf(w)'
      OBVIOUS
    <3>2. NotAhead(summary'[w], Seeder!StatusOf(next)')
      BY <1>1, <3>1
    <3>3. Seeder!StatusOf(next)' = Seeder!StatusOf(Seeder!ObjectOf(w))'
      BY <3>1 DEF Seeder!StatusOf
    <3> QED
      BY <3>2, <3>3 DEF NotAhead, Rank
  <2> QED
    BY <2>1, <1>0 DEF SummaryNeverAhead, Seeder!SummaryNeverAhead
<1>2. CASE summary' = summary
  <2>1. PICK o : o = Seeder!ObjectOf(w)
    OBVIOUS
  <2>2. NotAhead(summary[w], Seeder!StatusOf(o))
    <3>1. /\ Seeder!Rank(summary[w]) <= Seeder!Rank(Seeder!StatusOf(Seeder!ObjectOf(w)))
          /\ summary[w] = "Committed" => Seeder!StatusOf(Seeder!ObjectOf(w)) = "Committed"
      BY <1>0 DEF SummaryNeverAhead, Seeder!SummaryNeverAhead
    <3> QED
      BY <2>1, <3>1 DEF NotAhead, Rank
  <2>3. summary[w] \in UploadStatus
    BY <1>0
  <2>4. NotAhead(summary[w], Seeder!StatusOf(next)')
    BY <1>1, <2>1, <2>2, <2>3, RowGrows
  <2> QED
    BY <1>2, <2>4
<1>3. CASE DemoRests /\ Seeder!WriteSummary
  <2>1. /\ seeder.plans = <<>> /\ seeder.awaiting = {} /\ seeder.pc = "finalizing"
        /\ summary' = [v \in Row |->
             IF /\ Rank(seeder.targets[v]) >= 3
                /\ seeder.seen[v].status = "Uploading"
             THEN "Committed" ELSE seeder.seen[v].status]
    BY <1>3 DEF Seeder!WriteSummary, Seeder!Ready, Seeder!At, Seeder!ToFinalize, Rank, Row
  <2>2. UNCHANGED vars
    BY <1>3, SeederQuiet DEF Seeder!WriteSummary
  <2>3. next = Seeder!ObjectOf(w) /\ \A o : Seeder!StatusOf(o)' = Seeder!StatusOf(o)
    BY <1>1, <2>2 DEF vars, uploadVars, requestVars, Seeder!ObjectOf, Seeder!StatusOf
  <2> DEFINE known == seeder.seen[w]
  <2>4. /\ known \in Reading
        /\ known.id = 0 => known.status = "None"
        /\ known.id # 0 => OwnRow(w, known.id)
    BY <1>0 DEF Base, SeederOK, SeederFit, SeederState
  <2>5. \/ /\ w \in FinalizeDue(seeder.seen, seeder.targets)
           /\ summary'[w] = "Committed" /\ known.status = "Uploading"
        \/ summary'[w] = known.status
    BY <2>1 DEF FinalizeDue
  <2> HIDE DEF known
  <2>6. CASE known.id = 0
    <3>1. summary'[w] = "None"
      BY <2>4, <2>5, <2>6
    <3>2. next \in NodeId
      BY <1>0, <2>3, ObjectOfType
    <3>3. Rank(Seeder!StatusOf(next)) \in Nat
      BY <1>0, <3>2, StatusOfType, RankValues
    <3>4. Rank("None") = 0
      BY DEF Rank, Seeder!Rank
    <3> QED
      BY <2>3, <3>1, <3>3, <3>4 DEF NotAhead
  <2>7. CASE known.id # 0
    <3>1. /\ known.id \in ObjectId /\ next = known.id
          /\ Seeder!StatusOf(known.id) = objects[known.id].status
      BY <2>3, <2>4, <2>7, OwnRowStatus
    <3>2. CASE w \in FinalizeDue(seeder.seen, seeder.targets) /\ summary'[w] = "Committed"
      <4>1. OnAgenda(seeder, RowFinalize(w, known.id))
        BY <2>1, <3>2 DEF OnAgenda, known
      <4>2. RowFinalize(w, known.id) \in Calls
        BY <3>1 DEF Calls, RowCalls
      <4>3. Effected(RowFinalize(w, known.id))
        BY <2>1, <4>1, <4>2, AgendaDone DEF ProgressFit
      <4>4. objects[known.id].status = "Committed"
        BY <4>3 DEF Effected, RowFinalize
      <4>5. Rank("Committed") = 3
        BY DEF Rank, Seeder!Rank
      <4> QED
        BY <2>3, <3>1, <3>2, <4>4, <4>5 DEF NotAhead
    <3>3. CASE summary'[w] = known.status
      <4>1. NotAhead(known.status, objects[known.id].status)
        BY <2>7 DEF ProgressFit, SeenFit, known
      <4> QED
        BY <2>3, <3>1, <3>3, <4>1
    <3> QED
      BY <2>5, <3>2, <3>3
  <2> QED
    BY <2>6, <2>7
<1> QED
  BY <1>2, <1>3, SummaryWriter

\* What happens on the chain in a step of anybody.
LEMMA ChainMoves ==
  ASSUME Base, [ScriptsNext]_scriptsVars
  PROVE  \/ UNCHANGED vars
         \/ Tick
         \/ \E o \in ObjectId : ExpireUpload(o) \/ CancelUpload(owner, o)
         \/ \E t \in Calls :
              /\ Len(outcome) + 1 \in DOMAIN sent /\ t = sent[Len(outcome) + 1]
              /\ outcome' = Append(outcome, TRUE) /\ Call(t)
<1>1. CASE MineNext
  <2>1. PICK ok \in BOOLEAN :
          /\ outcome' = Append(outcome, ok)
          /\ ok => Call(sent[Len(outcome) + 1])
          /\ ~ok => UNCHANGED vars
    BY <1>1, MineNextMoves
  <2>2. Len(outcome) + 1 \in DOMAIN sent /\ sent[Len(outcome) + 1] \in Calls
    <3>1. Len(outcome) < Len(sent)
      BY <1>1, MineNextMoves
    <3> QED
      BY <3>1, PoolFacts
  <2>3. CASE ok
    <3>1. ok = TRUE
      BY <2>3
    <3> QED
      BY <2>1, <2>2, <2>3, <3>1, Zenon
  <2> QED
    BY <2>1, <2>3
<1>2. CASE Seeder!CancelRow
  <2>1. PICK o \in ObjectId : Seeder!CancelUpload(owner, o)
    BY <1>2 DEF Seeder!CancelRow, Seeder!ObjectId, ObjectId
  <2>2. CancelUpload(owner, o)
    BY <2>1, CancelRowCancels
  <2> QED
    BY <2>2
<1>3. CASE UNCHANGED scriptsVars
  BY <1>3 DEF scriptsVars, demoVars
<1> QED
  BY <1>1, <1>2, <1>3, ScriptsMove DEF DemoMoves, SeederMoves, Passing

\* An upload of a row that ends a step started or committed was so before,
\* or has been moved there by a call that names it.
LEMMA RowMovedByCall ==
  ASSUME TypeOK, NEW w \in Row, NEW next \in ObjectId, Seeder!ObjectOf(w)' = next,
         objects'[next].status \in {"Uploading", "Committed"},
         \/ UNCHANGED vars
         \/ Tick
         \/ \E o \in ObjectId : ExpireUpload(o) \/ CancelUpload(owner, o)
  PROVE  /\ Seeder!ObjectOf(w) = next
         /\ objects[next].status = objects'[next].status
<1>1. /\ objects \in [ObjectId -> StorageObject]
      /\ \A o \in ObjectId : objects[o] \in StorageObject
  BY DEF TypeOK
<1>2. CASE UNCHANGED vars \/ Tick
  BY <1>2 DEF vars, Tick, uploadVars, requestVars, Seeder!ObjectOf
<1>3. ASSUME NEW o \in ObjectId, NEW status \in {"Cancelled", "Expired"}, CloseUnsettled(o, status)
      PROVE  /\ Seeder!ObjectOf(w) = next
             /\ objects[next].status = objects'[next].status
  <2>1. /\ objects' = [objects EXCEPT ![o].status = status]
        /\ objectByIdempotencyKey' = objectByIdempotencyKey
    BY <1>3 DEF CloseUnsettled, requestVars
  <2>2. objects'[o].status = status
    BY <1>1, <2>1 DEF StorageObject
  <2>3. next # o
    BY <2>2
  <2> QED
    BY <2>1, <2>3 DEF Seeder!ObjectOf
<1> QED
  BY <1>2, <1>3 DEF ExpireUpload, CancelUpload

LEMMA RowMovedByOwnCall ==
  ASSUME TypeOK, NEW w \in Row, NEW next \in ObjectId, Seeder!ObjectOf(w)' = next,
         objects'[next].status \in {"Uploading", "Committed"},
         NEW t \in Calls, Call(t)
  PROVE  /\ Seeder!ObjectOf(w) = next
         /\ \/ objects[next].status = objects'[next].status
            \/ t.fn = "startUpload" /\ t.id = next /\ objects'[next].status = "Uploading"
            \/ t.fn = "finalizeUpload" /\ t.id = next /\ objects'[next].status = "Committed"
<1>1. /\ objects \in [ObjectId -> StorageObject]
      /\ \A o \in ObjectId : objects[o] \in StorageObject
      /\ nextObjectId \in Nat
      /\ objectByIdempotencyKey \in [Account -> [IdempotencyKey -> NodeId]]
      /\ RowAccount[w] \in Account /\ RowKey[w] \in IdempotencyKey
  BY MaxObjectsAssumption, RowsAssumption DEF TypeOK, Row
<1>2. CASE t.fn = "requestUpload" /\ RequestUpload(Operator, t.params, Zero)
  <2> DEFINE n == nextObjectId
             a == t.params.accountId
             k == t.params.idempotencyKey
             new == RequestedObject(t.params)
  <2>1. /\ n \in ObjectId
        /\ objects' = [objects EXCEPT ![n] = new]
        /\ objectByIdempotencyKey' = [objectByIdempotencyKey EXCEPT ![a][k] = n]
        /\ a \in Account /\ k \in IdempotencyKey
    <3>1. /\ nextObjectId <= MaxObjects /\ ValidRequest(t.params)
          /\ objects' = [objects EXCEPT ![nextObjectId] = RequestedObject(t.params)]
          /\ objectByIdempotencyKey' = [objectByIdempotencyKey EXCEPT
               ![t.params.accountId][t.params.idempotencyKey] = nextObjectId]
      BY <1>2 DEF RequestUpload, RequestAccepted
    <3>2. t.params \in RequestUploadParams
      BY <1>2, CallFields, ConstantsAssumption
    <3>3. nextObjectId >= 1
      BY MaxObjectsAssumption DEF TypeOK
    <3> QED
      BY <1>1, <3>1, <3>2, <3>3, MaxObjectsAssumption DEF ObjectId, ValidRequest, RequestUploadParams
  <2>2. new.status = "Requested"
    BY DEF RequestedObject
  <2> HIDE DEF n, a, k, new
  <2>3. next # n
    BY <1>1, <2>1, <2>2
  <2>4. objectByIdempotencyKey'[RowAccount[w]][RowKey[w]] = next
    BY DEF Seeder!ObjectOf
  <2>5. objectByIdempotencyKey'[a][k] = n
    BY <1>1, <2>1
  <2>6. ~(RowAccount[w] = a /\ RowKey[w] = k)
    BY <2>3, <2>4, <2>5
  <2>7. objectByIdempotencyKey[RowAccount[w]][RowKey[w]] = next
    BY <1>1, <2>1, <2>4, <2>6
  <2> QED
    BY <1>1, <2>1, <2>3, <2>7 DEF Seeder!ObjectOf
<1>3. CASE t.fn = "startUpload" /\ StartUpload(Operator, t.id)
  <2>1. t.id \in ObjectId
    BY <1>3, CallFields
  <2>2. /\ objects' = [objects EXCEPT ![t.id].status = "Uploading", ![t.id].coordinator = Operator]
        /\ objectByIdempotencyKey' = objectByIdempotencyKey
    BY <1>3 DEF StartUpload, requestVars
  <2>3. /\ objects'[t.id].status = "Uploading"
        /\ \A o \in ObjectId : o # t.id => objects'[o] = objects[o]
    BY <1>1, <2>1, <2>2 DEF StorageObject
  <2> QED
    BY <1>3, <2>2, <2>3 DEF Seeder!ObjectOf
<1>4. CASE t.fn = "finalizeUpload" /\ FinalizeUpload(Operator, t.id, t.receipt)
  <2>1. t.id \in ObjectId /\ t.receipt.finalizationStatus = "Committed"
    BY <1>4, CallFields
  <2>2. /\ objects' = [objects EXCEPT ![t.id] = FinalizedObject(objects[t.id], Operator, t.receipt)]
        /\ objectByIdempotencyKey' = objectByIdempotencyKey
    BY <1>4 DEF FinalizeUpload, requestVars
  <2>3. FinalizedObject(objects[t.id], Operator, t.receipt).status = "Committed"
    BY <1>1, <2>1 DEF FinalizedObject, StorageObject
  <2>4. /\ objects'[t.id].status = "Committed"
        /\ \A o \in ObjectId : o # t.id => objects'[o] = objects[o]
    BY <1>1, <2>1, <2>2, <2>3
  <2> QED
    BY <1>4, <2>2, <2>4 DEF Seeder!ObjectOf
<1>5. CASE t.fn \notin {"requestUpload", "startUpload", "finalizeUpload"}
  <2>1. UNCHANGED uploadVars
    BY <1>5 DEF Call, SetCoordinator, SetRelayer, RecordDataset
  <2> QED
    BY <2>1 DEF uploadVars, requestVars, Seeder!ObjectOf
<1> QED
  BY <1>2, <1>3, <1>4, <1>5, Zenon DEF Call

\* A row's upload is nobody else's.
LEMMA RowsApart ==
  ASSUME Registry, NEW w \in Row, NEW o, OwnRow(w, o)
  PROVE  /\ \A v \in Row : OwnRow(v, o) => v = w
         /\ \A env \in Env : ~Own(env, o)
<1>1. \A v \in Row : OwnRow(v, o) =>
        /\ o \in ObjectId
        /\ objects[o].accountId = RowAccount[v] /\ objects[o].idempotencyKey = RowKey[v]
  <2> SUFFICES ASSUME NEW v \in Row, OwnRow(v, o)
               PROVE  /\ o \in ObjectId
                      /\ objects[o].accountId = RowAccount[v]
                      /\ objects[o].idempotencyKey = RowKey[v]
    OBVIOUS
  <2>1. /\ o \in ObjectId /\ o # 0 /\ o = objectByIdempotencyKey[RowAccount[v]][RowKey[v]]
        /\ RowAccount[v] \in Account /\ RowKey[v] \in IdempotencyKey
    BY RowsAssumption DEF OwnRow, ObjectId, Seeder!ObjectOf, Row
  <2> QED
    BY <2>1 DEF Registry, IdempotencyKeyNamesOneUpload
<1>2. \A v \in Row : OwnRow(v, o) => v = w
  BY <1>1, RowsAssumption DEF Row
<1>3. \A env \in Env : ~Own(env, o)
  BY <1>1, RowsAssumption DEF Row, Own, RequestMatches
<1> QED
  BY <1>2, <1>3

\* A call that names a row's upload is one the seeder was asked to make.
LEMMA RowCallWarranted ==
  ASSUME Registry, NEW w \in Row, NEW o, OwnRow(w, o), NEW t, Warranted(t),
         t.fn \in {"startUpload", "finalizeUpload"}, t.id = o
  PROVE  \/ t.fn = "startUpload" /\ Rank(asked[w]) >= 2
         \/ t = RowFinalize(w, o) /\ Rank(asked[w]) >= 3
<1>1. t \notin SetupCalls
  BY DEF SetupCalls, SetCoordinatorCall, SetRelayerCall
<1>2. \A env \in Env : t # DemoRequest(env) /\ t # DemoRecord(env)
  BY DEF DemoRequest, DemoRecord
<1>3. \A v \in Row : t # RowRequest(v) /\ t # RowRecord(v)
  BY DEF RowRequest, RowRecord
<1>4. \A env \in Env, p \in ObjectId :
        t = DemoStart(env, p) \/ t = DemoFinalize(env, p) => p = o
  BY DEF DemoStart, DemoFinalize
<1>5. \A env \in Env, p \in ObjectId :
        t = DemoStart(env, p) \/ t = DemoFinalize(env, p) => ~Own(env, p)
  BY <1>4, RowsApart
<1>6. PICK v \in Row, p \in ObjectId :
        /\ OwnRow(v, p)
        /\ \/ t = RowStart(v, p) /\ Rank(asked[v]) >= 2
           \/ t = RowFinalize(v, p) /\ Rank(asked[v]) >= 3
  BY <1>1, <1>2, <1>3, <1>5, Zenon DEF Warranted
<1>7. p = o
  BY <1>6 DEF RowStart, RowFinalize
<1>8. v = w
  BY <1>6, <1>7, RowsApart
<1> QED
  BY <1>6, <1>7, <1>8 DEF RowStart

LEMMA RowsInOrderStep ==
  ASSUME Base, Base', Grows, SentFit, Effects, RowsInOrder, [ScriptsNext]_scriptsVars
  PROVE  RowsInOrder'
<1>0. /\ TypeOK /\ TypeOK' /\ Registry /\ Seeder!Row = Row
      /\ asked \in [Row -> UploadStatus] /\ asked' \in [Row -> UploadStatus]
  BY DEF Base, Registry, ScriptTypes, Row
<1>1. SUFFICES ASSUME NEW w \in Row, NEW next, next = Seeder!ObjectOf(w)',
                      NEW status, status = Seeder!StatusOf(next)',
                      status \in {"Uploading", "Committed"}
               PROVE  /\ Rank(status) <= Rank(asked'[w])
                      /\ status = "Committed" => HasDataset(w)'
  <2>1. ASSUME NEW w \in Row
        PROVE  LET status == Seeder!StatusOf(Seeder!ObjectOf(w))'
               IN  /\ status \in {"Uploading", "Committed"} =>
                        Seeder!Rank(status) <= Seeder!Rank(asked'[w])
                   /\ status = "Committed" => HasDataset(w)'
    <3>1. PICK next : next = Seeder!ObjectOf(w)'
      OBVIOUS
    <3>2. PICK status : status = Seeder!StatusOf(next)'
      OBVIOUS
    <3>3. status \in {"Uploading", "Committed"} =>
            Rank(status) <= Rank(asked'[w]) /\ (status = "Committed" => HasDataset(w)')
      BY <1>1, <3>1, <3>2
    <3>4. status = Seeder!StatusOf(Seeder!ObjectOf(w))'
      BY <3>1, <3>2 DEF Seeder!StatusOf
    <3> QED
      BY <3>3, <3>4 DEF Rank
  <2> QED
    BY <2>1, <1>0
    DEF RowsInOrder, Seeder!RowsInOrder, Seeder!NeverPastTarget, Seeder!CommittedHasDataset,
        HasDataset, Seeder!RowDataset
<1>2. next \in ObjectId /\ next # 0 /\ objects'[next].status = status
  <2>1. next \in NodeId
    BY <1>0, <1>1, RowsAssumption DEF TypeOK, Seeder!ObjectOf, Row
  <2>2. next # 0
    BY <1>1 DEF Seeder!StatusOf
  <2> QED
    BY <1>1, <2>1, <2>2, MaxObjectsAssumption DEF NodeId, ObjectId, Seeder!StatusOf
<1>3. /\ Rank(asked[w]) <= Rank(asked'[w])
      /\ Rank(asked[w]) \in Nat /\ Rank(asked'[w]) \in Nat
      /\ Rank("Uploading") = 2 /\ Rank("Committed") = 3
  <2>1. asked[w] \in UploadStatus /\ asked'[w] \in UploadStatus
    BY <1>0
  <2>2. Rank(asked[w]) \in Nat /\ Rank(asked'[w]) \in Nat
    BY <2>1, RankValues
  <2>3. Rank("Uploading") = 2 /\ Rank("Committed") = 3
    BY DEF Rank, Seeder!Rank
  <2> QED
    BY <2>2, <2>3 DEF Grows, AskedGrow
<1>4. ASSUME Seeder!ObjectOf(w) = next, objects[next].status = status
      PROVE  /\ Rank(status) <= Rank(asked'[w])
             /\ status = "Committed" => HasDataset(w)'
  <2>1. Seeder!StatusOf(Seeder!ObjectOf(w)) = status
    BY <1>2, <1>4 DEF Seeder!StatusOf
  <2>2. Rank(status) <= Rank(asked[w])
    BY <1>0, <1>1, <2>1 DEF RowsInOrder, Seeder!RowsInOrder, Seeder!NeverPastTarget, Rank
  <2>3. status = "Committed" => HasDataset(w)
    BY <1>0, <2>1
    DEF RowsInOrder, Seeder!RowsInOrder, Seeder!CommittedHasDataset, HasDataset
  <2> QED
    BY <1>1, <1>3, <2>2, <2>3, DatasetKept
<1>5. CASE \/ UNCHANGED vars
           \/ Tick
           \/ \E o \in ObjectId : ExpireUpload(o) \/ CancelUpload(owner, o)
  <2>1. Seeder!ObjectOf(w)' = next /\ objects'[next].status \in {"Uploading", "Committed"}
    BY <1>1, <1>2
  <2>2. Seeder!ObjectOf(w) = next /\ objects[next].status = objects'[next].status
    BY <1>0, <1>2, <1>5, <2>1, RowMovedByCall
  <2> QED
    BY <1>2, <1>4, <2>2
<1>6. ASSUME NEW t \in Calls,
             Len(outcome) + 1 \in DOMAIN sent, t = sent[Len(outcome) + 1], Call(t)
      PROVE  /\ Rank(status) <= Rank(asked'[w])
             /\ status = "Committed" => HasDataset(w)'
  <2>1. Seeder!ObjectOf(w)' = next /\ objects'[next].status \in {"Uploading", "Committed"}
    BY <1>1, <1>2
  <2>2. /\ Seeder!ObjectOf(w) = next
        /\ \/ objects[next].status = objects'[next].status
           \/ t.fn = "startUpload" /\ t.id = next /\ objects'[next].status = "Uploading"
           \/ t.fn = "finalizeUpload" /\ t.id = next /\ objects'[next].status = "Committed"
    BY <1>0, <1>2, <1>6, <2>1, RowMovedByOwnCall
  <2>3. OwnRow(w, next)
    BY <1>2, <2>2 DEF OwnRow
  <2>4. Warranted(t)
    <3>1. Warranted(sent[Len(outcome) + 1])
      BY <1>6 DEF Base
    <3> QED
      BY <1>6, <3>1, Zenon
  <2>5. t.fn \in {"startUpload", "finalizeUpload"} /\ t.id = next =>
          \/ t.fn = "startUpload" /\ Rank(asked[w]) >= 2
          \/ t = RowFinalize(w, next) /\ Rank(asked[w]) >= 3
    BY <1>0, <2>3, <2>4, RowCallWarranted
  <2>6. CASE t = RowFinalize(w, next) /\ Rank(asked[w]) >= 3 /\ status = "Committed"
    <3>1. PICK g \in DOMAIN sent : g < Len(outcome) + 1 /\ sent[g] = RowRecord(w)
      <4>1. sent[Len(outcome) + 1] = RowFinalize(w, next)
        BY <1>6, <2>6
      <4> QED
        BY <1>2, <1>6, <4>1 DEF SentFit
    <3>2. g \in DOMAIN outcome
      BY <3>1, PoolFacts
    <3>3. HasDataset(w)
      BY <3>1, <3>2 DEF Effects
    <3> QED
      BY <1>3, <2>6, <3>3, DatasetKept
  <2>7. CASE t.fn = "startUpload" /\ Rank(asked[w]) >= 2 /\ status = "Uploading"
    BY <1>3, <2>7
  <2> QED
    <3>1. CASE objects[next].status = objects'[next].status
      BY <1>2, <1>4, <2>2, <3>1
    <3>2. CASE t.fn = "startUpload" /\ t.id = next /\ objects'[next].status = "Uploading"
      BY <1>2, <2>5, <2>7, <3>2 DEF RowFinalize
    <3>3. CASE t.fn = "finalizeUpload" /\ t.id = next /\ objects'[next].status = "Committed"
      BY <1>2, <2>5, <2>6, <3>3
    <3> QED
      BY <2>2, <3>1, <3>2, <3>3
<1> QED
  BY <1>5, <1>6, ChainMoves, Zenon

LEMMA ProgressAlways == ScriptsSpec => []Progress
<1>1. ScriptsInit => Progress
  BY ProgressInit
<1>2. ASSUME Base, Base', Progress, [ScriptsNext]_scriptsVars PROVE Progress'
  <2>1. Grows
    BY <1>2, BaseStep
  <2>2. SentFit /\ Effects /\ ProgressFit(seeder) /\ SummaryNeverAhead /\ RowsInOrder
    BY <1>2 DEF Progress
  <2>3. SentFit'
    BY <1>2, <2>2, SentFitStep DEF ProgressFit
  <2>4. Effects' /\ ProgressFit(seeder)'
    BY <1>2, <2>2, EffectsStep, ProgressStep
  <2>5. SummaryNeverAhead' /\ RowsInOrder'
    BY <1>2, <2>1, <2>2, SummaryStep, RowsInOrderStep
  <2> QED
    BY <2>3, <2>4, <2>5 DEF Progress
<1>3. Base /\ Base' /\ Progress /\ [ScriptsNext]_scriptsVars => Progress'
  BY <1>2
<1> QED
  BY <1>1, <1>3, BaseAlways, PTL DEF ScriptsSpec

\* The summary a run of seed-calibration-registry-fixtures.mjs writes never
\* claims more of a row than the chain holds, then and ever after, although
\* the script infers from receipts what it does not read back.
THEOREM SummaryIsTrue == ScriptsSpec => []SummaryNeverAhead
<1>1. Progress => SummaryNeverAhead
  BY DEF Progress
<1> QED
  BY <1>1, ProgressAlways, PTL

\* Whatever batch a run of seed-calibration-registry-fixtures.mjs is stopped
\* in and whatever it left in the pool, no row is moved past what some run
\* asked for, and no row is committed before its dataset is on record.
THEOREM RowsStayInOrder == ScriptsSpec => []RowsInOrder
<1>1. Progress => RowsInOrder
  BY DEF Progress
<1> QED
  BY <1>1, ProgressAlways, PTL

-----------------------------------------------------------------------------
(* The evidence file *)

\* The upload is committed with what this environment requests and settles.
Evident(env, o) ==
  /\ Own(env, o)
  /\ objects[o].status = "Committed"
  /\ details[o].receipt = ReceiptHashes(env)
  /\ datasets[DemoAccount][env.dataset].payer = Operator

\* The hashes of a request are kept of an upload of the demo's shape, those
\* of a receipt of a committed one.
RequestsFit ==
  \A o \in ObjectId : details[o].request # <<>> =>
    o < nextObjectId /\ objects[o].size = 1 /\ objects[o].requestedCopies = 1
ReceiptsFit ==
  \A o \in ObjectId : details[o].receipt # <<>> => objects[o].status = "Committed"

\* These hashes are of mined calls that make an upload with this environment.
Tells(hashes, env, o) ==
  \A f \in Sendable : hashes[f] # 0 =>
    LET t == sent[hashes[f]]
    IN  /\ hashes[f] \in DOMAIN outcome /\ outcome[hashes[f]] /\ t.fn = f
        /\ f = "requestUpload" => t.params.idempotencyKey = env.piece
        /\ f \in {"startUpload", "finalizeUpload"} => o # 0 /\ t.id = o
        /\ f = "recordDataset" => t.dataset = DatasetOf(env)

\* What a run waits for, by where it will go on.
Awaits(s, t) ==
  \/ s.pc = "relayer" /\ t = SetCoordinatorCall
  \/ s.pc \in {"request", "start"} /\ t \in {SetRelayerCall(r) : r \in RelayerInputs}
  \/ s.pc = "object" /\ t = DemoRequest(s.env)
  \/ s.pc = "started" /\ t = DemoStart(s.env, s.id)
  \/ s.pc = "recorded" /\ t = DemoRecord(s.env)
  \/ s.pc = "merge" /\ t = DemoFinalize(s.env, s.id)

Waits(s) == s.waiting # 0 => s.waiting \in DOMAIN sent /\ Awaits(s, sent[s.waiting])

Knows(s) ==
  /\ s.pc \in {"request", "object"} => s.id = 0
  /\ Tells(s.hashes, s.env, s.id)
  /\ s.pc \in Writes => Evident(s.env, s.id)

EvidenceFit ==
  /\ evidence.id = 0 => evidence = NoEvidence
  /\ evidence.id # 0 => evidence.env \in Env /\ Evident(evidence.env, evidence.id)
  /\ Tells(evidence.hashes, evidence.env, evidence.id)

Evidence ==
  /\ RequestsFit /\ ReceiptsFit /\ EvidenceFit
  /\ \A r \in Run : Waits(run[r]) /\ Knows(run[r])

\* A call of the signer is mined with success.
Mines(t) ==
  /\ Len(outcome) + 1 \in DOMAIN sent /\ t = sent[Len(outcome) + 1]
  /\ outcome' = Append(outcome, TRUE) /\ Call(t)

\* What a mined call stores of the hashes it was sent with.
LEMMA StoredPrints ==
  ASSUME details \in [ObjectId -> Details], NEW t \in Calls, NEW o \in ObjectId
  PROVE  \/ StoredDetails(t)[o] = details[o]
         \/ \E env \in Env : /\ t = DemoFinalize(env, o)
                             /\ StoredDetails(t)[o] =
                                  [details[o] EXCEPT !.receipt = ReceiptHashes(env)]
         \/ \E env \in Env : /\ t = DemoRequest(env) /\ o = nextObjectId
                             /\ StoredDetails(t)[o] =
                                  [details[o] EXCEPT !.request = RequestHashes(env)]
<1>1. ASSUME NEW env \in Env, t = DemoRequest(env)
      PROVE  StoredDetails(t) = [details EXCEPT ![nextObjectId] =
                                   [details[nextObjectId] EXCEPT !.request = RequestHashes(env)]]
  BY <1>1 DEF StoredDetails, DemoRequest
<1>2. ASSUME NEW env \in Env, NEW x \in ObjectId, t = DemoFinalize(env, x)
      PROVE  StoredDetails(t) = [details EXCEPT ![x] =
                                   [details[x] EXCEPT !.receipt = ReceiptHashes(env)]]
  BY <1>2 DEF StoredDetails, DemoFinalize
<1>3. ASSUME NEW env \in Env, t = DemoRequest(env) PROVE
         \/ StoredDetails(t)[o] = details[o]
         \/ /\ o = nextObjectId
            /\ StoredDetails(t)[o] = [details[o] EXCEPT !.request = RequestHashes(env)]
  BY <1>1, <1>3
<1>4. ASSUME NEW env \in Env, NEW x \in ObjectId, t = DemoFinalize(env, x) PROVE
         \/ StoredDetails(t)[o] = details[o]
         \/ /\ o = x
            /\ StoredDetails(t)[o] = [details[o] EXCEPT !.receipt = ReceiptHashes(env)]
  BY <1>2, <1>4
<1>5. \/ \E env \in Env : t = DemoRequest(env)
      \/ \E env \in Env, x \in ObjectId : t = DemoFinalize(env, x)
      \/ StoredDetails(t) = details
  BY CallKinds DEF StoredDetails, SetCoordinatorCall, SetRelayerCall, DemoStart, DemoRecord,
     RowRequest, RowRecord, RowStart, RowFinalize
<1> QED
  BY <1>3, <1>4, <1>5

LEMMA PrintsMove ==
  ASSUME Base, [ScriptsNext]_scriptsVars, NEW o \in ObjectId
  PROVE  \/ details'[o] = details[o]
         \/ \E env \in Env : /\ Mines(DemoFinalize(env, o))
                             /\ details'[o] =
                                  [details[o] EXCEPT !.receipt = ReceiptHashes(env)]
         \/ \E env \in Env : /\ Mines(DemoRequest(env)) /\ o = nextObjectId
                             /\ details'[o] =
                                  [details[o] EXCEPT !.request = RequestHashes(env)]
<1> DEFINE t == sent[Len(outcome) + 1]
<1>1. CASE MineNext
  <2>1. PICK ok \in BOOLEAN :
          /\ Mine(ok)
          /\ details' = IF ok THEN StoredDetails(t) ELSE details
    BY <1>1 DEF MineNext
  <2>2. CASE ok
    <3>1. /\ t \in Calls /\ Len(outcome) + 1 \in DOMAIN sent
      <4>1. Len(outcome) < Len(sent)
        BY <1>1, MineNextMoves
      <4> QED
        BY <4>1, PoolFacts
    <3>2. ok = TRUE
      BY <2>2
    <3>3. Mines(t) /\ details' = StoredDetails(t)
      BY <2>1, <2>2, <3>1, <3>2 DEF Mine, Mines
    <3>4. details \in [ObjectId -> Details]
      BY DEF Base, ScriptTypes
    <3> HIDE DEF t
    <3>5. \/ StoredDetails(t)[o] = details[o]
          \/ \E env \in Env : /\ t = DemoFinalize(env, o)
                              /\ StoredDetails(t)[o] =
                                   [details[o] EXCEPT !.receipt = ReceiptHashes(env)]
          \/ \E env \in Env : /\ t = DemoRequest(env) /\ o = nextObjectId
                              /\ StoredDetails(t)[o] =
                                   [details[o] EXCEPT !.request = RequestHashes(env)]
      BY <3>1, <3>4, StoredPrints
    <3> QED
      BY <3>3, <3>5, Zenon
  <2> QED
    BY <2>1, <2>2
<1>2. CASE ~MineNext
  BY <1>2, ScriptsMove DEF DemoMoves, SeederMoves, Passing, scriptsVars, demoVars
<1> QED
  BY <1>1, <1>2

\* The demo's receipt commits its upload, and is its last word.
LEMMA DemoFinalizes ==
  ASSUME Base, NEW env \in Env, NEW o \in ObjectId, Call(DemoFinalize(env, o))
  PROVE  /\ FinalizeUpload(Operator, o, Receipt(env))
         /\ objects[o].status # "Committed" /\ objects'[o].status = "Committed"
<1>1. FinalizeUpload(Operator, o, Receipt(env))
  BY DEF Call, DemoFinalize
<1>2. MutableObject(o) /\ objects' = [objects EXCEPT ![o] = FinalizedObject(objects[o], Operator, Receipt(env))]
  BY <1>1 DEF FinalizeUpload, ReceiptAccepted
<1>3. objects \in [ObjectId -> StorageObject]
  BY DEF Base, Registry, TypeOK
<1>4. objects'[o].status = "Committed"
  BY <1>2, <1>3 DEF FinalizedObject, Receipt, StorageObject
<1> QED
  BY <1>1, <1>2, <1>4 DEF MutableObject, Terminal, FinalizationStatus, Live

LEMMA DemoRequests ==
  ASSUME Base, NEW env \in Env, Call(DemoRequest(env))
  PROVE  /\ nextObjectId \in ObjectId /\ nextObjectId < nextObjectId'
         /\ objects'[nextObjectId] = RequestedObject(RequestParams(env))
         /\ objectByIdempotencyKey[DemoAccount][env.piece] = 0
<1>1. RequestUpload(Operator, RequestParams(env), Zero)
  BY DEF Call, DemoRequest
<1>2. /\ nextObjectId <= MaxObjects /\ nextObjectId' = nextObjectId + 1
      /\ objects' = [objects EXCEPT ![nextObjectId] = RequestedObject(RequestParams(env))]
      /\ objectByIdempotencyKey[DemoAccount][env.piece] = 0
  BY <1>1 DEF RequestUpload, RequestAccepted, Unclaimed, RequestParams
<1>3. nextObjectId \in Nat \ {0} /\ objects \in [ObjectId -> StorageObject]
  BY MaxObjectsAssumption DEF Base, Registry, TypeOK
<1>4. nextObjectId \in ObjectId
  BY <1>2, <1>3, MaxObjectsAssumption DEF ObjectId
<1> QED
  BY <1>2, <1>3, <1>4

-----------------------------------------------------------------------------
(* What is stored of the hashes *)

LEMMA PrintsStep ==
  ASSUME Base, Base', Grows, RequestsFit, ReceiptsFit, [ScriptsNext]_scriptsVars
  PROVE  RequestsFit' /\ ReceiptsFit'
<1> SUFFICES ASSUME NEW o \in ObjectId
             PROVE  /\ details'[o].request # <<>> =>
                         /\ o < nextObjectId' /\ objects'[o].size = 1
                         /\ objects'[o].requestedCopies = 1
                    /\ details'[o].receipt # <<>> => objects'[o].status = "Committed"
  BY DEF RequestsFit, ReceiptsFit
<1>t. /\ details[o] \in Details /\ details'[o] \in Details
      /\ nextObjectId \in Nat /\ nextObjectId' \in Nat /\ nextObjectId <= nextObjectId'
  BY MaxObjectsAssumption DEF Base, ScriptTypes, Registry, TypeOK, Grows, UploadsGrow
<1>1. ASSUME details[o].request # <<>>
      PROVE  /\ o < nextObjectId' /\ objects'[o].size = 1 /\ objects'[o].requestedCopies = 1
  <2>1. o < nextObjectId /\ objects[o].size = 1 /\ objects[o].requestedCopies = 1
    BY <1>1 DEF RequestsFit
  <2>2. Advances(objects[o], objects'[o])
    BY <2>1 DEF Grows, UploadsGrow
  <2> QED
    BY <1>t, <2>1, <2>2 DEF Advances, ObjectId
<1>2. details[o].receipt # <<>> => objects'[o].status = "Committed"
  BY CommittedStays DEF ReceiptsFit
<1>3. CASE details'[o] = details[o]
  BY <1>1, <1>2, <1>3
<1>4. ASSUME NEW env \in Env, Mines(DemoFinalize(env, o)),
             details'[o] = [details[o] EXCEPT !.receipt = ReceiptHashes(env)]
      PROVE  /\ details'[o].request = details[o].request /\ objects'[o].status = "Committed"
  <2>1. objects'[o].status = "Committed"
    BY <1>4, DemoFinalizes DEF Mines
  <2> QED
    BY <1>t, <1>4, <2>1 DEF Details
<1>5. ASSUME NEW env \in Env, Mines(DemoRequest(env)), o = nextObjectId,
             details'[o] = [details[o] EXCEPT !.request = RequestHashes(env)]
      PROVE  /\ details'[o].receipt = details[o].receipt
             /\ o < nextObjectId' /\ objects'[o].size = 1 /\ objects'[o].requestedCopies = 1
  <2>1. o < nextObjectId' /\ objects'[o] = RequestedObject(RequestParams(env))
    BY <1>5, DemoRequests DEF Mines
  <2>2. objects'[o].size = 1 /\ objects'[o].requestedCopies = 1
    BY <2>1 DEF RequestedObject, RequestParams
  <2> QED
    BY <1>t, <1>5, <2>1, <2>2 DEF Details
<1> QED
  BY <1>1, <1>2, <1>3, <1>4, <1>5, PrintsMove

\* What a committed upload is like stays so.
LEMMA EvidentKept ==
  ASSUME Base, Base', Grows, [ScriptsNext]_scriptsVars,
         NEW env \in Env, NEW o, Evident(env, o)
  PROVE  Evident(env, o)'
<1>1. Own(env, o)' /\ o \in ObjectId
  BY OwnKept DEF Base, Grows, Evident, Own
<1>2. objects'[o].status = "Committed"
  BY <1>1, CommittedStays DEF Evident
<1>3. datasets'[DemoAccount][env.dataset].payer = Operator
  BY DemoAssumption DEF Evident, Grows, RolesGrow
<1>4. details'[o].receipt = details[o].receipt
  <2>1. details[o] \in Details
    BY <1>1 DEF Base, ScriptTypes
  <2>2. ASSUME NEW e \in Env PROVE ~Mines(DemoFinalize(e, o))
    BY <1>1, DemoFinalizes DEF Mines, Evident
  <2> QED
    BY <1>1, <2>1, <2>2, PrintsMove DEF Details
<1> QED
  BY <1>1, <1>2, <1>3, <1>4 DEF Evident

LEMMA TellsKept ==
  ASSUME Base, Grows, NEW hashes, NEW env, NEW o, Tells(hashes, env, o)
  PROVE  Tells(hashes, env, o)'
<1>1. DOMAIN outcome \subseteq DOMAIN sent
  BY PoolFacts
<1> QED
  BY <1>1 DEF Tells, Grows, PoolGrows

LEMMA KnowsKept ==
  ASSUME Base, Base', Grows, [ScriptsNext]_scriptsVars,
         NEW s, RunOK(s), Knows(s)
  PROVE  Knows(s)'
<1>1. Tells(s.hashes, s.env, s.id)'
  BY TellsKept DEF Knows
<1>2. ASSUME s.pc \in Writes PROVE Evident(s.env, s.id)'
  BY <1>2, EvidentKept DEF Knows, RunOK, AtUpload, Writes
<1> QED
  BY <1>1, <1>2 DEF Knows

LEMMA WaitsKept ==
  ASSUME Grows, NEW s, Waits(s)
  PROVE  Waits(s)'
BY DEF Waits, Grows, PoolGrows, Awaits

-----------------------------------------------------------------------------
(* What a run of the demo knows of its upload *)

LEMMA IdleKnows == Knows(Idle) /\ Waits(Idle)
<1>1. \A f \in Sendable : Idle.hashes[f] = 0
  BY DEF Idle, NoHashes
<1>2. Tells(Idle.hashes, Idle.env, Idle.id)
  BY <1>1 DEF Tells
<1> QED
  BY <1>2 DEF Knows, Waits, Idle, Writes

\* A run that empties the file keeps what it is about to write.
LEMMA TruncateShape ==
  ASSUME Base, NEW r \in Run, Truncate(r), NEW s, s = run'[r]
  PROVE  /\ run[r].pc = "write" /\ run[r].waiting = 0 /\ s.pc = "writing" /\ s.waiting = 0
         /\ s.env = run[r].env /\ s.id = run[r].id /\ s.hashes = run[r].hashes
         /\ onDisk' = "empty"
         /\ UNCHANGED <<vars, details, sent, outcome, evidence, giveUps, lapses>>
<1>1. run \in [Run -> RunState] /\ run[r] \in RunState
  BY DEF Base, ScriptTypes
<1>2. run[r].pc = "write" /\ run[r].waiting = 0
  BY DEF Truncate, At
<1>3. s = [run[r] EXCEPT !.pc = "writing"]
  BY <1>1 DEF Truncate, Become
<1> QED
  BY <1>1, <1>2, <1>3 DEF Truncate, poolVars, RunState

\* A run that only goes on knows what it knew.
LEMMA SameKnows ==
  ASSUME NEW old, Knows(old), NEW s, s.hashes = old.hashes, s.env = old.env, s.id = old.id,
         s.pc \notin Writes, s.pc \in {"request", "object"} => s.id = 0
  PROVE  Knows(s)
<1>1. Tells(old.hashes, old.env, old.id)
  BY DEF Knows
<1>2. Tells(s.hashes, s.env, s.id)
  BY <1>1, Zenon
<1> QED
  BY <1>2 DEF Knows

LEMMA GoKnows ==
  ASSUME Base, NEW r \in Run, Knows(run[r]), NEW pc, Go(r, pc), NEW s, s = run'[r],
         pc \notin Writes, pc \in {"request", "object"} => run[r].id = 0
  PROVE  Knows(s) /\ (run[r].waiting = 0 => Waits(s)')
<1>1. run[r] \in RunState /\ run \in [Run -> RunState]
  BY DEF Base, ScriptTypes
<1>2. s = [run[r] EXCEPT !.pc = pc]
  BY <1>1 DEF Go, Become
<1>3. /\ s.hashes = run[r].hashes /\ s.env = run[r].env /\ s.id = run[r].id /\ s.pc = pc
      /\ s.waiting = run[r].waiting
  BY <1>1, <1>2 DEF RunState
<1>4. Knows(s)
  BY <1>3, SameKnows
<1> QED
  BY <1>3, <1>4 DEF Waits

LEMMA SendKnows ==
  ASSUME Base, NEW r \in Run, Knows(run[r]), NEW t, NEW pc, Send(r, t, pc), NEW s, s = run'[r],
         pc \notin Writes, pc \in {"request", "object"} => run[r].id = 0,
         Awaits([run[r] EXCEPT !.pc = pc], t)
  PROVE  Knows(s) /\ Waits(s)'
<1>1. run[r] \in RunState /\ run \in [Run -> RunState] /\ sent \in Seq(Calls)
  BY DEF Base, ScriptTypes, PoolTypes
<1>2. s = [run[r] EXCEPT !.pc = pc, !.waiting = NewHash] /\ sent' = Append(sent, t)
  BY <1>1 DEF Send, Become, Submit
<1>3. /\ s.hashes = run[r].hashes /\ s.env = run[r].env /\ s.id = run[r].id /\ s.pc = pc
      /\ s.waiting = Len(sent) + 1
  BY <1>1, <1>2 DEF RunState, NewHash
<1>4. Knows(s)
  BY <1>3, SameKnows
<1>5. s.waiting \in DOMAIN sent' /\ sent'[s.waiting] = t
  BY <1>1, <1>2, <1>3
<1>6. Awaits(s, t)
  <2> DEFINE now0 == [run[r] EXCEPT !.pc = pc]
  <2>1. now0.pc = pc /\ now0.env = run[r].env /\ now0.id = run[r].id
    BY <1>1 DEF RunState
  <2> QED
    BY <1>3, <2>1 DEF Awaits
<1>7. Awaits(s, sent'[s.waiting])
  BY <1>5, <1>6, Zenon
<1> QED
  BY <1>4, <1>5, <1>7 DEF Waits, Awaits

LEMMA RereadKnows ==
  ASSUME Base, NEW r \in Run, Knows(run[r]), NEW o \in ObjectId, NEW pc, Reread(r, o, pc),
         run[r].waiting = 0, run[r].id \in {0, o},
         NEW s, s = run'[r], pc \notin Writes \cup {"request", "object"}
  PROVE  Knows(s) /\ Waits(s)'
<1>1. run[r] \in RunState /\ run \in [Run -> RunState]
  BY DEF Base, ScriptTypes
<1>2. s = [run[r] EXCEPT !.id = o, !.seen = objects[o].status, !.pc = pc]
  BY <1>1 DEF Reread, Become
<1>3. /\ s.hashes = run[r].hashes /\ s.env = run[r].env /\ s.id = o /\ s.pc = pc
      /\ s.waiting = 0
  BY <1>1, <1>2 DEF RunState
<1>4. Tells(run[r].hashes, run[r].env, run[r].id)
  BY DEF Knows
<1>5. Tells(run[r].hashes, run[r].env, o)
  BY <1>4 DEF Tells
<1>6. Tells(s.hashes, s.env, s.id)
  BY <1>3, <1>5, Zenon
<1> QED
  BY <1>3, <1>6 DEF Knows, Waits, Writes

\* What the final check of a run establishes.
LEMMA MatchIsEvident ==
  ASSUME ReceiptsFit, NEW env \in Env, NEW o \in ObjectId, EvidenceMatches(env, o)
  PROVE  Evident(env, o)
<1>1. ReceiptHashes(env) # <<>>
  BY DEF ReceiptHashes
<1>2. details[o].receipt = ReceiptHashes(env) /\ RequestMatches(env, o)
      /\ datasets[DemoAccount][env.dataset].payer = Operator
  BY DEF EvidenceMatches
<1>3. objects[o].status = "Committed"
  BY <1>1, <1>2 DEF ReceiptsFit
<1> QED
  BY <1>2, <1>3 DEF Evident, Own

\* Two environments of one upload agree on what its hashes cover.
LEMMA OwnersAgree ==
  ASSUME NEW o, NEW env, NEW other, Own(env, o), Own(other, o)
  PROVE  env.piece = other.piece /\ env.dataset = other.dataset
<1>1. <<env.piece, env.dataset>> = <<other.piece, other.dataset>>
  BY DEF Own, RequestMatches, RequestHashes
<1> QED
  BY <1>1

\* The hashes a run takes over from the file are of its own upload.
LEMMA MergeKnows ==
  ASSUME Base, Evidence, NEW r \in Run, Merge(r), NEW s, s = run'[r]
  PROVE  Knows(s) /\ Waits(s)'
<1> DEFINE env == run[r].env
           o == run[r].id
           file == ReusableHashes(evidence, env, o)
<1>1. run[r] \in RunState /\ run \in [Run -> RunState] /\ Knows(run[r]) /\ evidence \in EvidenceFile
      /\ FileText = evidence
  BY MergeReads DEF Base, ScriptTypes, Evidence
<1>2. run[r].pc = "merge" /\ run[r].waiting = 0 /\ EvidenceMatches(env, o)
  BY DEF Merge, At
<1>3. env \in Env /\ o \in ObjectId /\ Own(env, o)
  BY <1>2, RunUpload DEF AtUpload
<1>4. s = [run[r] EXCEPT !.pc = "write", !.hashes = MergeHashes(file, run[r].hashes)]
  BY <1>1 DEF Merge, Become
<1>5. /\ s.hashes = MergeHashes(file, run[r].hashes) /\ s.env = env /\ s.id = o
      /\ s.pc = "write" /\ s.waiting = 0
  BY <1>1, <1>2, <1>4 DEF RunState
<1>6. Tells(run[r].hashes, env, o)
  BY <1>1 DEF Knows
<1>7. Tells(file, env, o)
  <2>1. CASE file = NoHashes
    BY <2>1 DEF Tells, NoHashes
  <2>2. CASE evidence.id # 0 /\ SameIdentity(evidence, env, o) /\ file = evidence.hashes
    <3>1. evidence.env \in Env /\ Own(evidence.env, o) /\ Tells(evidence.hashes, evidence.env, o)
      <4>1. /\ evidence.id = o /\ Evident(evidence.env, evidence.id) /\ evidence.env \in Env
            /\ Tells(evidence.hashes, evidence.env, evidence.id)
        BY <2>2 DEF Evidence, EvidenceFit, SameIdentity
      <4>2. Own(evidence.env, evidence.id)
        BY <4>1 DEF Evident
      <4> QED
        BY <4>1, <4>2, Zenon
    <3>2. env.piece = evidence.env.piece /\ env.dataset = evidence.env.dataset
      BY <1>3, <3>1, OwnersAgree
    <3>3. DatasetOf(evidence.env) = DatasetOf(env)
      BY <3>2 DEF DatasetOf
    <3> HIDE DEF env, o, file
    <3>4. Tells(evidence.hashes, env, o)
      BY <3>1, <3>2, <3>3 DEF Tells
    <3> QED
      BY <2>2, <3>4, Zenon
  <2> QED
    BY <2>1, <2>2 DEF ReusableHashes
<1> HIDE DEF file
<1>8. \A f \in Sendable : \/ s.hashes[f] = file[f]
                          \/ s.hashes[f] = run[r].hashes[f]
  BY <1>5 DEF MergeHashes
<1>9. Tells(s.hashes, env, o)
  <2> SUFFICES ASSUME NEW f \in Sendable, NEW h, h = s.hashes[f], h # 0
               PROVE  LET t == sent[h]
                      IN  /\ h \in DOMAIN outcome /\ outcome[h] /\ t.fn = f
                          /\ f = "requestUpload" => t.params.idempotencyKey = env.piece
                          /\ f \in {"startUpload", "finalizeUpload"} => o # 0 /\ t.id = o
                          /\ f = "recordDataset" => t.dataset = DatasetOf(env)
    BY DEF Tells
  <2>1. CASE h = file[f]
    BY <1>7, <2>1 DEF Tells
  <2>2. CASE h = run[r].hashes[f]
    BY <1>6, <2>2 DEF Tells
  <2> QED
    BY <1>8, <2>1, <2>2
<1>10. Evident(env, o)
  BY <1>2, <1>3, MatchIsEvident DEF Evidence
<1>11. Tells(s.hashes, s.env, s.id) /\ Evident(s.env, s.id)
  BY <1>5, <1>9, <1>10, Zenon
<1> QED
  BY <1>5, <1>11 DEF Knows, Waits, Writes

LEMMA ReceiveKnows ==
  ASSUME Base, Evidence, NEW r \in Run, Receive(r), NEW s, s = run'[r]
  PROVE  Knows(s) /\ Waits(s)'
<1> DEFINE old == run[r]
           h == old.waiting
           t == sent[h]
<1>1. old \in RunState /\ run \in [Run -> RunState] /\ Knows(old) /\ Waits(old)
  BY DEF Base, ScriptTypes, Evidence
<1>2. h # 0 /\ h <= Len(outcome) /\ outcome[h] /\ h \in Nat
  BY <1>1 DEF Receive, Succeeded, Mined, RunState
<1>3. h \in DOMAIN outcome /\ Awaits(old, t) /\ t \in Calls
  BY <1>1, <1>2, PoolFacts DEF Waits
<1>4. old.pc \in AtUpload => old.id # 0
  <2>1. old.pc # "idle"
    BY <1>3 DEF Awaits
  <2> QED
    BY <2>1, RunUpload
<1>5. s = [old EXCEPT !.waiting = 0, !.hashes = [@ EXCEPT ![t.fn] = h]]
  BY <1>1 DEF Receive, Become
<1> HIDE DEF old, h, t
<1>6. /\ s.hashes = [old.hashes EXCEPT ![t.fn] = h] /\ s.env = old.env /\ s.id = old.id
      /\ s.pc = old.pc /\ s.waiting = 0 /\ old.hashes \in [Sendable -> Nat]
  BY <1>1, <1>5 DEF RunState
<1>7. /\ t.fn \in Sendable
      /\ t.fn = "requestUpload" => t.params.idempotencyKey = old.env.piece
      /\ t.fn \in {"startUpload", "finalizeUpload"} => old.id # 0 /\ t.id = old.id
      /\ t.fn = "recordDataset" => t.dataset = DatasetOf(old.env)
  <2>1. t.fn \in Sendable
    BY <1>3, CallFields
  <2> QED
    BY <1>3, <1>4, <2>1 DEF Awaits, SetCoordinatorCall, SetRelayerCall, DemoRequest, DemoStart,
       DemoRecord, DemoFinalize, RequestParams, AtUpload
<1>8. Tells(old.hashes, old.env, old.id)
  BY <1>1 DEF Knows
<1>9. \A f \in Sendable : s.hashes[f] = IF f = t.fn THEN h ELSE old.hashes[f]
  BY <1>6, <1>7
<1>10. Tells(s.hashes, old.env, old.id)
  <2> SUFFICES ASSUME NEW f \in Sendable, NEW g, g = s.hashes[f], g # 0
               PROVE  LET u == sent[g]
                      IN  /\ g \in DOMAIN outcome /\ outcome[g] /\ u.fn = f
                          /\ f = "requestUpload" => u.params.idempotencyKey = old.env.piece
                          /\ f \in {"startUpload", "finalizeUpload"} =>
                               old.id # 0 /\ u.id = old.id
                          /\ f = "recordDataset" => u.dataset = DatasetOf(old.env)
    BY DEF Tells
  <2>1. CASE f = t.fn
    <3>1. g = h /\ sent[g] = t /\ outcome[g]
      BY <1>2, <1>9, <2>1 DEF t, h, old
    <3> QED
      BY <1>3, <1>7, <2>1, <3>1
  <2>2. CASE f # t.fn
    BY <1>8, <1>9, <2>2 DEF Tells
  <2> QED
    BY <2>1, <2>2
<1>11. Tells(s.hashes, s.env, s.id)
  BY <1>6, <1>10, Zenon
<1>12. old.pc \notin Writes
  BY <1>3 DEF Awaits, Writes
<1> QED
  BY <1>1, <1>6, <1>11, <1>12 DEF Knows, Waits

\* After its own step a run knows enough again.
LEMMA StepKnows ==
  ASSUME Base, Evidence, NEW r \in Run, Step(r), NEW s, s = run'[r]
  PROVE  (Knows(s) \/ s = Idle) /\ Waits(s)'
<1>1. run[r] \in RunState /\ run \in [Run -> RunState] /\ Knows(run[r]) /\ Waits(run[r])
  BY DEF Base, ScriptTypes, Evidence
<1>2. ASSUME Become(r, Idle) PROVE s = Idle /\ Waits(s)'
  BY <1>1, <1>2 DEF Become, Waits, Idle
<1>3. \A pc : At(r, pc) => run[r].pc = pc /\ run[r].waiting = 0
  BY DEF At
<1>4. \A pc : LET n == [run[r] EXCEPT !.pc = pc]
              IN  n.pc = pc /\ n.env = run[r].env /\ n.id = run[r].id
  BY <1>1 DEF RunState
<1>5. CASE EnsureCoordinator(r)
  <2>1. CASE Go(r, "relayer")
    BY <1>1, <1>3, <1>5, <2>1, GoKnows DEF EnsureCoordinator, Writes
  <2>2. CASE Send(r, SetCoordinatorCall, "relayer")
    <3>1. Awaits([run[r] EXCEPT !.pc = "relayer"], SetCoordinatorCall)
      BY <1>4 DEF Awaits
    <3> QED
      BY <1>1, <2>2, <3>1, SendKnows DEF Writes
  <2> QED
    BY <1>5, <2>1, <2>2 DEF EnsureCoordinator, SetCoordinatorCall
<1>6. CASE EnsureRelayer(r)
  <2> DEFINE next == IF run[r].id = 0 THEN "request" ELSE "start"
             relayer == run[r].env.relayer
  <2>1. run[r].env \in Env
    BY <1>3, <1>6, RunUpload DEF EnsureRelayer
  <2>2. next \notin Writes /\ (next \in {"request", "object"} => run[r].id = 0)
    BY DEF Writes
  <2>3. CASE Go(r, next)
    BY <1>1, <1>3, <1>6, <2>2, <2>3, GoKnows DEF EnsureRelayer
  <2>4. CASE Send(r, SetRelayerCall(relayer), next)
    <3>1. Awaits([run[r] EXCEPT !.pc = next], SetRelayerCall(relayer))
      <4>1. relayer \in RelayerInputs
        BY <2>1, DemoAssumption
      <4> QED
        BY <1>4, <4>1 DEF Awaits
    <3> QED
      BY <1>1, <2>2, <2>4, <3>1, SendKnows
  <2> QED
    BY <1>6, <2>3, <2>4 DEF EnsureRelayer, SetRelayerCall
<1>7. CASE Request(r)
  <2>1. Send(r, DemoRequest(run[r].env), "object") /\ run[r].id = 0
    BY <1>1, <1>3, <1>7 DEF Request, DemoRequest, Knows
  <2>2. Awaits([run[r] EXCEPT !.pc = "object"], DemoRequest(run[r].env))
    BY <1>4 DEF Awaits
  <2> QED
    BY <1>1, <2>1, <2>2, SendKnows DEF Writes
<1>8. CASE ReadRequested(r)
  <2> DEFINE o == objectByIdempotencyKey[DemoAccount][run[r].env.piece]
  <2>1. Reread(r, o, "start") /\ run[r].id = 0 /\ run[r].waiting = 0 /\ run[r].env \in Env
    BY <1>1, <1>3, <1>8, RunUpload DEF ReadRequested, Knows
  <2>2. o \in NodeId /\ o # 0
    BY <2>1, DemoAssumption DEF Base, Registry, TypeOK, Reread, RequestMatches
  <2>3. o \in ObjectId
    BY <2>2, MaxObjectsAssumption DEF NodeId, ObjectId
  <2> QED
    BY <1>1, <2>1, <2>3, RereadKnows DEF Writes
<1>9. ASSUME NEW pc, NEW next \in {"settle", "finalize"}, pc \in {"started", "recorded"},
             At(r, pc), Reread(r, run[r].id, next)
      PROVE  Knows(s) /\ Waits(s)'
  <2>1. run[r].id \in ObjectId /\ run[r].waiting = 0
    BY <1>3, <1>9, RunUpload DEF AtUpload
  <2> QED
    BY <1>1, <1>9, <2>1, RereadKnows DEF Writes
<1>10. CASE Start(r)
  <2>1. CASE Go(r, "settle")
    BY <1>1, <1>3, <1>10, <2>1, GoKnows DEF Start, Writes
  <2>2. CASE Send(r, DemoStart(run[r].env, run[r].id), "started")
    <3>1. Awaits([run[r] EXCEPT !.pc = "started"], DemoStart(run[r].env, run[r].id))
      BY <1>4 DEF Awaits
    <3> QED
      BY <1>1, <2>2, <3>1, SendKnows DEF Writes
  <2> QED
    BY <1>10, <2>1, <2>2 DEF Start, DemoStart
<1>11. CASE Settle(r)
  <2>1. CASE Go(r, "merge")
    BY <1>1, <1>3, <1>11, <2>1, GoKnows DEF Settle, Writes
  <2>2. CASE Send(r, DemoRecord(run[r].env), "recorded")
    <3>1. Awaits([run[r] EXCEPT !.pc = "recorded"], DemoRecord(run[r].env))
      BY <1>4 DEF Awaits
    <3> QED
      BY <1>1, <2>2, <3>1, SendKnows DEF Writes
  <2> QED
    BY <1>11, <2>1, <2>2 DEF Settle, DemoRecord
<1>12. CASE Finalize(r)
  <2>1. CASE Go(r, "merge")
    BY <1>1, <1>3, <1>12, <2>1, GoKnows DEF Finalize, Writes
  <2>2. CASE Send(r, DemoFinalize(run[r].env, run[r].id), "merge")
    <3>1. Awaits([run[r] EXCEPT !.pc = "merge"], DemoFinalize(run[r].env, run[r].id))
      BY <1>4 DEF Awaits
    <3> QED
      BY <1>1, <2>2, <3>1, SendKnows DEF Writes
  <2> QED
    BY <1>12, <2>1, <2>2 DEF Finalize, DemoFinalize
<1>13. CASE Truncate(r)
  <2>1. /\ run[r].pc = "write" /\ s.pc = "writing" /\ s.env = run[r].env /\ s.id = run[r].id
        /\ s.hashes = run[r].hashes /\ s.waiting = 0
    BY <1>13, TruncateShape
  <2>2. Tells(run[r].hashes, run[r].env, run[r].id) /\ Evident(run[r].env, run[r].id)
    BY <1>1, <2>1 DEF Knows, Writes
  <2>3. Tells(s.hashes, s.env, s.id) /\ Evident(s.env, s.id)
    BY <2>1, <2>2, Zenon
  <2> QED
    BY <2>1, <2>3 DEF Knows, Waits
<1> QED
  BY <1>2, <1>5, <1>6, <1>7, <1>8, <1>9, <1>10, <1>11, <1>12, <1>13, MergeKnows, ReceiveKnows
  DEF Step, ReadStarted, ReadRecorded, Write, Return, Throw

LEMMA BeginKnows ==
  ASSUME Base, NEW r \in Run, NEW env \in Env, Begin(r, env), NEW s, s = run'[r]
  PROVE  Knows(s) /\ Waits(s)'
<1> DEFINE o == objectByIdempotencyKey[DemoAccount][env.piece]
<1>1. run \in [Run -> RunState] /\ Idle \in RunState
  BY IdleOK DEF Base, ScriptTypes
<1>2. /\ s.hashes = NoHashes /\ s.waiting = 0 /\ s.pc \in {"coordinator", "relayer"}
  BY <1>1 DEF Begin, Become, Idle
<1>3. \A f \in Sendable : s.hashes[f] = 0
  BY <1>2 DEF NoHashes
<1>4. Tells(s.hashes, s.env, s.id)
  BY <1>3 DEF Tells
<1> QED
  BY <1>2, <1>4 DEF Knows, Waits, Writes

\* Only a run of the demo that gets to its end writes the file.
LEMMA EvidenceWriter ==
  ASSUME [ScriptsNext]_scriptsVars
  PROVE  evidence' = evidence \/ \E r \in Run : Write(r)
BY DEF ScriptsNext, scriptsVars, demoVars, DemoRuns, MineNext, Passing, Begin, GiveUp, Step,
   EnsureCoordinator, EnsureRelayer, Request, ReadRequested, Start, ReadStarted, Settle,
   ReadRecorded, Finalize, Merge, Truncate, Return, Receive, Throw, Go, Send, Reread,
   restUnchanged

\* Only the demo moves its runs.
LEMMA RunMover ==
  ASSUME [ScriptsNext]_scriptsVars
  PROVE  \/ run' = run
         \/ \E r \in Run : \/ Step(r) \/ GiveUp(r)
                           \/ \E env \in Env : Begin(r, env)
BY DEF ScriptsNext, scriptsVars, demoVars, DemoRuns, MineNext, Passing

\* Only one run moves at a time.
LEMMA OthersWait ==
  ASSUME Base, NEW r \in Run,
         Step(r) \/ GiveUp(r) \/ \E env \in Env : Begin(r, env)
  PROVE  \A q \in Run : q # r => run'[q] = run[q]
<1>1. \E s : run' = [run EXCEPT ![r] = s]
  BY DemoStepMoves, GiveUpMoves, BeginMoves DEF DemoMoves
<1> QED
  BY <1>1 DEF Base, ScriptTypes

LEMMA EvidenceFitStep ==
  ASSUME Base, Base', Grows, Evidence, [ScriptsNext]_scriptsVars
  PROVE  EvidenceFit'
<1>1. ASSUME NEW file, file = evidence',
             file.id = 0 => file = NoEvidence,
             file.id # 0 => file.env \in Env /\ Evident(file.env, file.id),
             Tells(file.hashes, file.env, file.id)
      PROVE  EvidenceFit'
  <2>1. file.id # 0 => Evident(file.env, file.id)'
    BY <1>1, EvidentKept
  <2>2. Tells(file.hashes, file.env, file.id)'
    BY <1>1, TellsKept
  <2> QED
    BY <1>1, <2>1, <2>2 DEF EvidenceFit, Evident, Own, RequestMatches, Tells
<1>2. CASE evidence' = evidence
  <2> SUFFICES ASSUME NEW file, file = evidence PROVE EvidenceFit'
    OBVIOUS
  <2>1. /\ evidence.id = 0 => evidence = NoEvidence
        /\ evidence.id # 0 => evidence.env \in Env /\ Evident(evidence.env, evidence.id)
        /\ Tells(evidence.hashes, evidence.env, evidence.id)
    BY DEF Evidence, EvidenceFit
  <2>2. /\ file.id = 0 => file = NoEvidence
        /\ file.id # 0 => file.env \in Env /\ Evident(file.env, file.id)
        /\ Tells(file.hashes, file.env, file.id)
    BY <2>1, Zenon
  <2> QED
    BY <1>1, <1>2, <2>2
<1>3. ASSUME NEW r \in Run, Write(r), evidence' # evidence PROVE EvidenceFit'
  <2>1. run[r].pc = "writing" /\ Knows(run[r])
    BY <1>3 DEF Write, At, Evidence
  <2>2. PICK s : s = run[r]
    OBVIOUS
  <2>3. PICK file : file = evidence'
    OBVIOUS
  <2>4. file = [id |-> s.id, env |-> s.env, hashes |-> s.hashes]
    BY <1>3, <2>2, <2>3 DEF Write
  <2>5. file.id = s.id /\ file.env = s.env /\ file.hashes = s.hashes
    BY <2>4
  <2>6. s.id # 0 /\ s.env \in Env
    BY <2>1, <2>2, RunUpload DEF AtUpload
  <2>7. Knows(s) /\ s.pc = "writing"
    BY <2>1, <2>2, Zenon
  <2>8. Evident(s.env, s.id) /\ Tells(s.hashes, s.env, s.id)
    BY <2>7 DEF Knows, Writes
  <2>9. Evident(file.env, file.id) /\ Tells(file.hashes, file.env, file.id)
    BY <2>5, <2>8, Zenon
  <2> QED
    BY <1>1, <2>3, <2>5, <2>6, <2>9
<1> QED
  BY <1>2, <1>3, EvidenceWriter

LEMMA EvidenceStep ==
  ASSUME Base, Base', Grows, Evidence, [ScriptsNext]_scriptsVars
  PROVE  Evidence'
<1>1. RequestsFit' /\ ReceiptsFit'
  BY PrintsStep DEF Evidence
<1>2. EvidenceFit'
  BY EvidenceFitStep
<1>3. ASSUME NEW q \in Run, NEW s, s = run'[q] PROVE Waits(s)' /\ Knows(s)'
  <2>1. RunOK(s)
    <3>1. RunOK(run'[q])
      <4>1. CASE run'[q] = run[q]
        BY <4>1 DEF Base, RunOK
      <4>2. ASSUME NEW r \in Run, DemoMoves(r), run'[q] # run[q] PROVE RunOK(run'[q])
        <5>1. PICK n \in RunState : RunOK(n) /\ run' = [run EXCEPT ![r] = n]
          BY <4>2 DEF DemoMoves
        <5>2. run'[q] = n
          BY <4>2, <5>1 DEF Base, ScriptTypes
        <5> QED
          BY <5>1, <5>2, Zenon
      <4> QED
        BY <4>1, <4>2, RunMover, DemoStepMoves, GiveUpMoves, BeginMoves
    <3> QED
      BY <1>3, <3>1, Zenon
  <2>2. CASE s = run[q]
    <3>1. Waits(run[q]) /\ Knows(run[q])
      BY DEF Evidence
    <3>2. Waits(s) /\ Knows(s)
      BY <2>2, <3>1, Zenon
    <3> QED
      BY <2>1, <3>2, WaitsKept, KnowsKept
  <2>3. CASE (Knows(s) \/ s = Idle) /\ Waits(s)'
    <3>1. Knows(s)
      BY <2>3, IdleKnows, Zenon
    <3> QED
      BY <2>1, <2>3, <3>1, KnowsKept
  <2>4. CASE s = Idle
    <3>1. Knows(s) /\ Waits(s)
      BY <2>4, IdleKnows, Zenon
    <3> QED
      BY <2>1, <3>1, KnowsKept, WaitsKept
  <2>5. ASSUME NEW r \in Run, GiveUp(r), r = q PROVE s = Idle
    BY <1>3, <2>5 DEF GiveUp, Become, Base, ScriptTypes
  <2>6. ASSUME NEW r \in Run, Step(r) \/ GiveUp(r) \/ \E env \in Env : Begin(r, env), r # q
        PROVE  s = run[q]
    BY <1>3, <2>6, OthersWait
  <2> QED
    BY <1>3, <2>2, <2>3, <2>4, <2>5, <2>6, RunMover, StepKnows, BeginKnows
<1>4. \A q \in Run : Waits(run[q])' /\ Knows(run[q])'
  BY <1>3 DEF Waits, Awaits, Knows, Tells, Evident, Own, RequestMatches
<1> QED
  BY <1>1, <1>2, <1>4 DEF Evidence

LEMMA EvidenceInit == ScriptsInit => Evidence
<1> SUFFICES ASSUME ScriptsInit PROVE Evidence
  OBVIOUS
<1>1. /\ details = [o \in ObjectId |-> NoDetails]
      /\ run = [r \in Run |-> Idle] /\ evidence = NoEvidence
  BY DEF ScriptsInit, DemoInit
<1>2. RequestsFit /\ ReceiptsFit
  BY <1>1 DEF RequestsFit, ReceiptsFit, NoDetails
<1>3. \A r \in Run : Waits(run[r]) /\ Knows(run[r])
  <2> SUFFICES ASSUME NEW r \in Run PROVE Waits(run[r]) /\ Knows(run[r])
    OBVIOUS
  <2>1. run[r] = Idle
    BY <1>1
  <2> QED
    BY <2>1, IdleKnows, Zenon
<1>4. EvidenceFit
  <2>1. \A f \in Sendable : evidence.hashes[f] = 0
    BY <1>1 DEF NoEvidence, NoHashes
  <2> QED
    BY <1>1, <2>1 DEF EvidenceFit, NoEvidence, Tells
<1> QED
  BY <1>2, <1>3, <1>4 DEF Evidence

LEMMA EvidenceAlways == ScriptsSpec => []Evidence
<1>1. Base /\ Base' /\ Evidence /\ [ScriptsNext]_scriptsVars => Evidence'
  BY BaseStep, EvidenceStep
<1> QED
  BY <1>1, EvidenceInit, BaseAlways, PTL DEF ScriptsSpec

\* What the file says of the chain.
LEMMA EvidenceSaysSo ==
  ASSUME Base, Evidence
  PROVE  EvidenceOnChain /\ EvidenceHashesBelong
<1> DEFINE o == evidence.id
           env == evidence.env
<1>1. /\ o # 0 => env \in Env /\ Evident(env, o)
      /\ Tells(evidence.hashes, env, o)
      /\ o = 0 => evidence = NoEvidence
  BY DEF Evidence, EvidenceFit
<1>2. EvidenceOnChain
  <2> SUFFICES ASSUME o # 0
               PROVE  /\ objects[o].status = "Committed"
                      /\ details[o] = [request |-> RequestHashes(env),
                                       receipt |-> ReceiptHashes(env)]
                      /\ datasets[DemoAccount][env.dataset].payer = Operator
    BY DEF EvidenceOnChain
  <2>1. /\ o \in ObjectId /\ objects[o].status = "Committed"
        /\ details[o].receipt = ReceiptHashes(env) /\ details[o].request = RequestHashes(env)
        /\ datasets[DemoAccount][env.dataset].payer = Operator
    BY <1>1 DEF Evident, Own, RequestMatches
  <2>2. details[o] \in Details
    BY <2>1 DEF Base, ScriptTypes
  <2> QED
    BY <2>1, <2>2 DEF Details
<1>3. \A f \in Sendable : evidence.hashes[f] # 0 =>
        /\ Succeeded(evidence.hashes[f]) /\ sent[evidence.hashes[f]].fn = f
  BY <1>1, PoolFacts DEF Tells, Succeeded, Mined
<1>4. ASSUME evidence.hashes["requestUpload"] # 0
      PROVE  /\ sent[evidence.hashes["requestUpload"]].params.idempotencyKey
                  = objects[o].idempotencyKey
  <2>1. o # 0
    BY <1>1, <1>4 DEF NoEvidence, NoHashes, Sendable
  <2>2. objects[o].idempotencyKey = env.piece
    BY <1>1, <2>1 DEF Evident, Own, RequestMatches
  <2> QED
    BY <1>1, <1>4, <2>2 DEF Tells, Sendable
<1>5. \A f \in {"startUpload", "finalizeUpload"} : evidence.hashes[f] # 0 =>
        sent[evidence.hashes[f]].id = o
  BY <1>1 DEF Tells, Sendable
<1>6. evidence.hashes["recordDataset"] # 0 =>
        sent[evidence.hashes["recordDataset"]].dataset = DatasetOf(env)
  BY <1>1 DEF Tells, Sendable
<1> QED
  BY <1>2, <1>3, <1>4, <1>5, <1>6 DEF EvidenceHashesBelong

-----------------------------------------------------------------------------
(* What a rerun keeps of the file *)

\* A run begins with nothing but what it read.
LEMMA BeginStarts ==
  ASSUME Base, NEW r \in Run, NEW env \in Env, Begin(r, env), NEW s, s = run'[r]
  PROVE  /\ s.pc \in {"coordinator", "relayer"} /\ s.env = env
         /\ s.id = objectByIdempotencyKey[DemoAccount][env.piece]
         /\ s.waiting = 0 /\ s.hashes = NoHashes
         /\ s.pc = "relayer" => s.id # 0
         /\ s.id # 0 => /\ RequestMatches(env, s.id)
                        /\ s.pc = "relayer" <=> Committed(objects[s.id].status)
                        /\ s.pc = "relayer" => EvidenceMatches(env, s.id)
<1> DEFINE o == objectByIdempotencyKey[DemoAccount][env.piece]
<1>1. run \in [Run -> RunState] /\ Idle \in RunState
  BY IdleOK DEF Base, ScriptTypes
<1>2. CASE o = 0
  BY <1>1, <1>2 DEF Begin, Become, Idle
<1>3. CASE o # 0
  <2>1. /\ RequestMatches(env, o)
        /\ Committed(objects[o].status) => EvidenceMatches(env, o)
        /\ s = [Idle EXCEPT !.env = env, !.id = o, !.seen = objects[o].status,
                  !.pc = IF Committed(objects[o].status) THEN "relayer" ELSE "coordinator"]
    BY <1>1, <1>3 DEF Begin, Become
  <2> HIDE DEF o
  <2>2. /\ s.pc = IF Committed(objects[o].status) THEN "relayer" ELSE "coordinator"
        /\ s.env = env /\ s.id = o /\ s.waiting = 0 /\ s.hashes = NoHashes
    BY <2>1 DEF Idle
  <2> QED
    BY <1>3, <2>1, <2>2 DEF o
<1> QED
  BY <1>2, <1>3

\* At most one run is under way.
Alone == \A q, r \in Run : run[q] # Idle /\ run[r] # Idle => q = r

\* The file is whole, but for the run that is writing it, or one that was
\* stopped at that.
DiskFit ==
  /\ \A r \in Run : run[r].pc = "writing" => onDisk = "empty"
  /\ onDisk = "whole" \/ "cut" \in lapses \/ \E r \in Run : run[r].pc = "writing"

\* As long as no two runs overlap, a run about to write the file of its own
\* upload again holds all the hashes that are in it.
Merged ==
  "overlap" \notin lapses =>
    /\ Alone /\ DiskFit
    /\ \A r \in Run : run[r].pc \in Writes /\ run[r].id = evidence.id =>
         \A f \in Sendable : evidence.hashes[f] # 0 => run[r].hashes[f] # 0

\* What is noted of the past stays noted.
LEMMA LapsesNoted ==
  ASSUME [ScriptsNext]_scriptsVars
  PROVE  lapses \subseteq lapses'
<1>1. ASSUME NEW r \in Run, Step(r) PROVE lapses' = lapses
  BY <1>1 DEF Step, EnsureCoordinator, EnsureRelayer, Request, ReadRequested, Start,
     ReadStarted, Settle, ReadRecorded, Finalize, Merge, Truncate, Write, Return, Receive,
     Throw, Go, Send, Reread, restUnchanged
<1>2. ASSUME NEW r \in Run, GiveUp(r) PROVE lapses \subseteq lapses'
  BY <1>2 DEF GiveUp
<1>3. ASSUME NEW r \in Run, NEW env \in Env, Begin(r, env) PROVE lapses \subseteq lapses'
  BY <1>3 DEF Begin
<1> QED
  BY <1>1, <1>2, <1>3 DEF ScriptsNext, scriptsVars, demoVars, DemoRuns, MineNext, Passing

\* A step is one of a run under way.
LEMMA StepNotIdle ==
  ASSUME NEW r \in Run, Step(r) \/ GiveUp(r)
  PROVE  run[r] # Idle
BY DEF Step, GiveUp, EnsureCoordinator, EnsureRelayer, Request, ReadRequested, Start,
   ReadStarted, Settle, ReadRecorded, Finalize, Merge, Truncate, Write, Return, Receive,
   Throw, Throws, At, Idle

\* A run about to write has just merged what it knows with the file, or
\* emptied it.
LEMMA WriteAfterMerge ==
  ASSUME Base, NEW r \in Run, Waits(run[r]), Step(r), run'[r].pc \in Writes
  PROVE  Merge(r) \/ Truncate(r)
<1>1. run[r] \in RunState /\ run \in [Run -> RunState]
  BY DEF Base, ScriptTypes
<1>2. \A n : Become(r, n) => run'[r] = n
  BY <1>1 DEF Become
<1>3. ASSUME NEW pc, Go(r, pc) PROVE pc \in Writes
  BY <1>1, <1>2, <1>3 DEF Go, RunState
<1>4. ASSUME NEW t, NEW pc, Send(r, t, pc) PROVE pc \in Writes
  BY <1>1, <1>2, <1>4 DEF Send, RunState
<1>5. ASSUME NEW o, NEW pc, Reread(r, o, pc) PROVE pc \in Writes
  BY <1>1, <1>2, <1>5 DEF Reread, RunState
<1>6. ~Become(r, Idle)
  BY <1>2 DEF Idle, Writes
<1>7. ASSUME Receive(r) PROVE FALSE
  <2>1. run[r].waiting # 0 /\ run'[r].pc = run[r].pc
    BY <1>1, <1>2, <1>7 DEF Receive, RunState
  <2> QED
    BY <2>1 DEF Waits, Awaits, Writes
<1>8. CASE EnsureCoordinator(r) \/ EnsureRelayer(r) \/ Request(r) \/ ReadRequested(r)
  BY <1>3, <1>4, <1>5, <1>8 DEF EnsureCoordinator, EnsureRelayer, Request, ReadRequested,
     Writes
<1>9. CASE Start(r) \/ ReadStarted(r) \/ Settle(r) \/ ReadRecorded(r) \/ Finalize(r)
  BY <1>3, <1>4, <1>5, <1>9 DEF Start, ReadStarted, Settle, ReadRecorded, Finalize, Writes
<1>10. CASE Write(r) \/ Return(r) \/ Throw(r)
  BY <1>6, <1>10 DEF Write, Return, Throw
<1> QED
  BY <1>7, <1>8, <1>9, <1>10 DEF Step

LEMMA AloneStep ==
  ASSUME Base, Alone, "overlap" \notin lapses', [ScriptsNext]_scriptsVars
  PROVE  Alone'
<1>1. ASSUME NEW x \in Run, NEW env \in Env, Begin(x, env) PROVE Alone'
  <2>1. \A q \in Run : run[q] = Idle
    BY <1>1 DEF Begin
  <2>2. \A q \in Run : q # x => run'[q] = run[q]
    BY <1>1, OthersWait
  <2> QED
    BY <2>1, <2>2 DEF Alone
<1>2. ASSUME NEW x \in Run, Step(x) \/ GiveUp(x) PROVE Alone'
  <2>1. run[x] # Idle
    BY <1>2, StepNotIdle
  <2>2. \A q \in Run : q # x => run'[q] = run[q]
    BY <1>2, OthersWait
  <2> QED
    BY <2>1, <2>2 DEF Alone
<1>3. CASE run' = run
  BY <1>3 DEF Alone
<1> QED
  BY <1>1, <1>2, <1>3, RunMover

LEMMA MergeKeepsFile ==
  ASSUME Base, Evidence, NEW r \in Run, Merge(r), run[r].id = evidence.id,
         NEW f \in Sendable, evidence.hashes[f] # 0
  PROVE  run'[r].hashes[f] # 0
<1> DEFINE file == ReusableHashes(evidence, run[r].env, run[r].id)
<1>1. run[r] \in RunState /\ run \in [Run -> RunState] /\ run[r].pc = "merge"
  BY DEF Base, ScriptTypes, Merge, At
<1>2. run[r].id # 0 /\ Own(run[r].env, run[r].id)
  BY <1>1, RunUpload DEF AtUpload
<1>3. Own(evidence.env, evidence.id)
  BY <1>2 DEF Evidence, EvidenceFit, Evident
<1>4. Own(run[r].env, evidence.id)
  BY <1>2, Zenon
<1>5. evidence.env.piece = run[r].env.piece
  BY <1>3, <1>4, OwnersAgree
<1>6. file = evidence.hashes
  BY <1>2, <1>5 DEF ReusableHashes, SameIdentity
<1> HIDE DEF file
<1>7. run'[r] = [run[r] EXCEPT !.pc = "write", !.hashes = MergeHashes(file, run[r].hashes)]
  BY <1>1, MergeReads DEF Merge, Become, file
<1>8. run'[r].hashes = MergeHashes(file, run[r].hashes)
  BY <1>1, <1>7 DEF RunState
<1> QED
  BY <1>6, <1>8 DEF MergeHashes

LEMMA WriterLeavesNone ==
  ASSUME Base, Alone, NEW x \in Run, Write(x)
  PROVE  \A q \in Run : run'[q] = Idle
<1>1. run \in [Run -> RunState] /\ Step(x)
  BY DEF Base, ScriptTypes, Step
<1>2. run'[x] = Idle
  BY <1>1 DEF Write, Become
<1>3. \A q \in Run : q # x => run[q] = Idle /\ run'[q] = run[q]
  BY <1>1, StepNotIdle, OthersWait DEF Alone
<1> QED
  BY <1>2, <1>3

\* Only a run that writes touches the file.
LEMMA DiskMover ==
  ASSUME [ScriptsNext]_scriptsVars
  PROVE  \/ onDisk' = onDisk
         \/ \E r \in Run : Truncate(r) \/ Write(r) \/ (GiveUp(r) /\ run[r].pc = "writing")
<1>1. ASSUME NEW r \in Run, Step(r), ~Truncate(r), ~Write(r) PROVE onDisk' = onDisk
  BY <1>1 DEF Step, EnsureCoordinator, EnsureRelayer, Request, ReadRequested, Start,
     ReadStarted, Settle, ReadRecorded, Finalize, Merge, Return, Receive, Throw, Go, Send,
     Reread, restUnchanged
<1>2. ASSUME NEW r \in Run, GiveUp(r), run[r].pc # "writing" PROVE onDisk' = onDisk
  BY <1>2 DEF GiveUp
<1>3. ASSUME NEW r \in Run, NEW env \in Env, Begin(r, env) PROVE onDisk' = onDisk
  BY <1>3 DEF Begin
<1> QED
  BY <1>1, <1>2, <1>3 DEF ScriptsNext, scriptsVars, demoVars, DemoRuns, MineNext, Passing

\* A run that has emptied the file writes it, unless it is stopped.
LEMMA WritingWrites ==
  ASSUME NEW r \in Run, Waits(run[r]), Step(r), run[r].pc = "writing"
  PROVE  Write(r)
<1>1. run[r].waiting = 0
  BY DEF Waits, Awaits
<1> QED
  BY <1>1 DEF Step, EnsureCoordinator, EnsureRelayer, Request, ReadRequested, Start,
     ReadStarted, Settle, ReadRecorded, Finalize, Merge, Truncate, Return, Receive, Throw,
     Throws, At

LEMMA DiskFitStep ==
  ASSUME Base, Evidence, Alone, DiskFit, [ScriptsNext]_scriptsVars
  PROVE  DiskFit'
<1>0. run \in [Run -> RunState] /\ \A r \in Run : Waits(run[r])
  BY DEF Base, ScriptTypes, Evidence
<1>1. ASSUME NEW x \in Run, Truncate(x) PROVE DiskFit'
  <2>1. run'[x].pc = "writing" /\ onDisk' = "empty"
    BY <1>1, TruncateShape
  <2> QED
    BY <2>1 DEF DiskFit
<1>2. ASSUME NEW x \in Run, Write(x) PROVE DiskFit'
  <2>1. \A q \in Run : run'[q].pc # "writing"
    BY <1>2, WriterLeavesNone DEF Idle
  <2>2. onDisk' = "whole"
    BY <1>2 DEF Write, At, DiskFit
  <2> QED
    BY <2>1, <2>2 DEF DiskFit
<1>3. ASSUME NEW x \in Run, GiveUp(x), run[x].pc = "writing" PROVE DiskFit'
  <2>1. \A q \in Run : q # x => run[q] = Idle /\ run'[q] = run[q]
    BY <1>3, StepNotIdle, OthersWait DEF Alone
  <2>2. run'[x] = Idle
    BY <1>0, <1>3 DEF GiveUp, Become
  <2>3. "cut" \in lapses'
    BY <1>3 DEF GiveUp
  <2> QED
    BY <2>1, <2>2, <2>3 DEF DiskFit, Idle
<1>4. CASE /\ onDisk' = onDisk
           /\ \A x \in Run : /\ ~Truncate(x) /\ ~Write(x)
                             /\ ~(GiveUp(x) /\ run[x].pc = "writing")
  <2>1. ASSUME NEW q \in Run, run[q].pc = "writing" PROVE run'[q] = run[q]
    <3>1. ~Step(q)
      BY <1>0, <1>4, <2>1, WritingWrites
    <3>2. \A env \in Env : ~Begin(q, env)
      BY <2>1 DEF Begin, Idle
    <3> QED
      BY <1>4, <2>1, <3>1, <3>2, RunMover, OthersWait
  <2>2. ASSUME NEW q \in Run, run'[q].pc = "writing" PROVE run[q].pc = "writing"
    <3>1. CASE Step(q)
      <4>1. Merge(q)
        BY <1>0, <1>4, <2>2, <3>1, WriteAfterMerge DEF Writes
      <4> QED
        BY <1>0, <2>2, <4>1 DEF Merge, Become, RunState
    <3>2. ~GiveUp(q)
      BY <1>0, <2>2 DEF GiveUp, Become, Idle
    <3>3. ASSUME NEW env \in Env, Begin(q, env) PROVE FALSE
      <4>1. PICK s : s = run'[q]
        OBVIOUS
      <4>2. s.pc \in {"coordinator", "relayer"}
        BY <3>3, <4>1, BeginStarts
      <4> QED
        BY <2>2, <4>1, <4>2
    <3> QED
      BY <2>2, <3>1, <3>2, <3>3, RunMover, OthersWait
  <2>3. "cut" \in lapses => "cut" \in lapses'
    BY LapsesNoted
  <2> QED
    BY <1>4, <2>1, <2>2, <2>3 DEF DiskFit
<1> QED
  BY <1>1, <1>2, <1>3, <1>4, DiskMover

LEMMA MergedStep ==
  ASSUME Base, Evidence, Merged, [ScriptsNext]_scriptsVars
  PROVE  Merged'
<1> SUFFICES ASSUME "overlap" \notin lapses'
             PROVE  /\ Alone' /\ DiskFit'
                    /\ \A r \in Run : run'[r].pc \in Writes /\ run'[r].id = evidence'.id =>
                         \A f \in Sendable : evidence'.hashes[f] # 0 => run'[r].hashes[f] # 0
  BY DEF Merged
<1>1. "overlap" \notin lapses
  BY LapsesNoted
<1>2. Alone /\ DiskFit
  BY <1>1 DEF Merged
<1>3. Alone' /\ DiskFit'
  BY <1>2, AloneStep, DiskFitStep
<1>4. ASSUME NEW q \in Run, run'[q].pc \in Writes, run'[q].id = evidence'.id,
             NEW f \in Sendable, evidence'.hashes[f] # 0
      PROVE  run'[q].hashes[f] # 0
  <2>0. run \in [Run -> RunState]
    BY DEF Base, ScriptTypes
  <2>1. CASE evidence' = evidence /\ run'[q] = run[q]
    BY <1>1, <1>4, <2>1 DEF Merged
  <2>2. CASE evidence' = evidence /\ Step(q)
    <3>1. Waits(run[q])
      BY DEF Evidence
    <3>2. Merge(q) \/ Truncate(q)
      BY <1>4, <2>2, <3>1, WriteAfterMerge
    <3>3. CASE Merge(q)
      <4>1. run'[q].id = run[q].id
        BY <2>0, <3>3 DEF Merge, Become, RunState
      <4> QED
        BY <1>4, <2>2, <3>3, <4>1, MergeKeepsFile
    <3>4. CASE Truncate(q)
      <4>1. /\ run[q].pc \in Writes /\ run'[q].id = run[q].id
            /\ run'[q].hashes = run[q].hashes
        BY <3>4, TruncateShape DEF Writes
      <4> QED
        BY <1>1, <1>4, <2>2, <4>1 DEF Merged
    <3> QED
      BY <3>2, <3>3, <3>4
  <2>3. ASSUME NEW x \in Run, Write(x) PROVE FALSE
    BY <1>2, <1>4, <2>3, WriterLeavesNone DEF Idle, Writes
  <2>4. ASSUME NEW env \in Env, Begin(q, env) PROVE FALSE
    <3>1. PICK s : s = run'[q]
      OBVIOUS
    <3>2. s.pc \in {"coordinator", "relayer"}
      BY <2>4, <3>1, BeginStarts
    <3> QED
      BY <1>4, <3>1, <3>2 DEF Writes
  <2>5. ~GiveUp(q)
    BY <1>4, <2>0 DEF GiveUp, Become, Idle, Writes
  <2> QED
    BY <2>1, <2>2, <2>3, <2>4, <2>5, EvidenceWriter, RunMover, OthersWait
<1> QED
  BY <1>3, <1>4

LEMMA MergedAlways == ScriptsSpec => []Merged
<1>1. ScriptsInit => Merged
  <2> SUFFICES ASSUME ScriptsInit PROVE Merged
    OBVIOUS
  <2>1. run = [r \in Run |-> Idle] /\ onDisk = "whole"
    BY DEF ScriptsInit, DemoInit
  <2> QED
    BY <2>1 DEF Merged, Alone, DiskFit, Idle, Writes
<1>2. Base /\ Evidence /\ Merged /\ [ScriptsNext]_scriptsVars => Merged'
  BY MergedStep
<1> QED
  BY <1>1, <1>2, BaseAlways, EvidenceAlways, PTL DEF ScriptsSpec

\* As long as no two runs of run-calibration-registry-demo.mjs overlap, no
\* text of the evidence file loses a hash that its last whole text told of the
\* same upload (mergeTransactionHashes takes them over); and but for a run that
\* is between the two steps of its writeFile, or was stopped there, that last
\* text is still in the file.
THEOREM RerunsKeepHashes == ScriptsSpec => RerunKeepsHashes
<1> DEFINE Kept ==
      "overlap" \notin lapses =>
        /\ evidence.id # 0 /\ evidence'.id = evidence.id =>
             \A f \in Sendable : evidence.hashes[f] # 0 => evidence'.hashes[f] # 0
        /\ \/ onDisk' = "whole" \/ "cut" \in lapses'
           \/ \E r \in Run : run'[r].pc = "writing"
<1>1. Base /\ Evidence /\ Merged /\ [ScriptsNext]_scriptsVars => [Kept]_demoVars
  <2> SUFFICES ASSUME Base, Evidence, Merged, [ScriptsNext]_scriptsVars,
                      "overlap" \notin lapses
               PROVE  /\ evidence.id # 0 /\ evidence'.id = evidence.id =>
                           \A f \in Sendable : evidence.hashes[f] # 0 => evidence'.hashes[f] # 0
                      /\ \/ onDisk' = "whole" \/ "cut" \in lapses'
                         \/ \E r \in Run : run'[r].pc = "writing"
    OBVIOUS
  <2>1. ASSUME NEW r \in Run, Write(r), evidence' # evidence, evidence'.id = evidence.id
        PROVE  \A f \in Sendable : evidence.hashes[f] # 0 => evidence'.hashes[f] # 0
    <3>1. /\ run[r].pc \in Writes /\ evidence'.id = run[r].id
          /\ evidence'.hashes = run[r].hashes
      BY <2>1 DEF Write, At, Writes
    <3> QED
      BY <2>1, <3>1 DEF Merged
  <2>2. DiskFit'
    BY DiskFitStep DEF Merged
  <2> QED
    BY <2>1, <2>2, EvidenceWriter DEF DiskFit
<1> QED
  BY <1>1, BaseAlways, EvidenceAlways, MergedAlways, PTL DEF ScriptsSpec, RerunKeepsHashes

-----------------------------------------------------------------------------
(* Why a call of the demo succeeds *)

\* The scripts charge nothing, and leave room for what is pending.
Room ==
  \A a \in Account :
    /\ usage[a].activeBytes + usage[a].pendingBytes <= policy.maxActiveBytesPerAccount
    /\ usage[a].totalActualCost = 0

LEMMA FreeOfCharge ==
  ASSUME NEW t \in Calls, t.fn = "finalizeUpload"
  PROVE  t.receipt.actualCost = 0
<1>1. ASSUME NEW env \in Env, NEW o \in ObjectId, t = DemoFinalize(env, o)
      PROVE  t.receipt.actualCost = 0
  BY <1>1 DEF DemoFinalize, Receipt
<1>2. ASSUME NEW w \in Row, NEW o \in ObjectId, t = RowFinalize(w, o)
      PROVE  t.receipt.actualCost = 0
  BY <1>2 DEF RowFinalize, Seeder!RowReceipt
<1> QED
  BY CallKinds, <1>1, <1>2
  DEF SetCoordinatorCall, SetRelayerCall, DemoRequest, DemoStart, DemoRecord,
      RowRequest, RowStart, RowRecord

LEMMA CostStays ==
  ASSUME TypeOK, NEW a \in Account, usage[a].totalActualCost = 0, ChainStep
  PROVE  usage'[a].totalActualCost = 0
<1>0. \A b \in Account : usage[b] \in AccountUsage
  BY DEF TypeOK
<1>1. usage \in [Account -> AccountUsage]
  BY DEF TypeOK
<1>2. ASSUME NEW b, NEW u, u.totalActualCost = usage[b].totalActualCost,
             usage' = [usage EXCEPT ![b] = u]
      PROVE  usage'[a].totalActualCost = 0
  BY <1>1, <1>2
<1>3. ASSUME NEW o \in ObjectId, NEW status, CloseUnsettled(o, status)
      PROVE  usage'[a].totalActualCost = 0
  <2> DEFINE b == objects[o].accountId
             u == ReleaseUsage(usage[b], objects[o])
  <2>1. usage' = [usage EXCEPT ![b] = u]
    BY <1>3 DEF CloseUnsettled
  <2>2. b = a => u.totalActualCost = usage[b].totalActualCost
    BY <1>0 DEF ReleaseUsage, AccountUsage
  <2> HIDE DEF b, u
  <2> QED
    BY <1>1, <2>1, <2>2
<1>4. ASSUME NEW t \in Calls, Call(t) PROVE usage'[a].totalActualCost = 0
  <2>1. CASE t.fn = "requestUpload" /\ RequestUpload(Operator, t.params, Zero)
    <3> DEFINE b == t.params.accountId
               u == ReserveUsage(usage[b], t.params)
    <3>1. usage' = [usage EXCEPT ![b] = u]
      BY <2>1 DEF RequestUpload
    <3>2. b = a => u.totalActualCost = usage[b].totalActualCost
      BY <1>0 DEF ReserveUsage, AccountUsage
    <3> HIDE DEF b, u
    <3> QED
      BY <1>1, <3>1, <3>2
  <2>2. CASE t.fn = "finalizeUpload" /\ FinalizeUpload(Operator, t.id, t.receipt)
    <3> DEFINE b == objects[t.id].accountId
               v == ChargeUsage(ReleaseUsage(usage[b], objects[t.id]), t.receipt.actualCost)
               u == OutcomeUsage(v, FinalizedObject(objects[t.id], Operator, t.receipt))
    <3>1. usage' = [usage EXCEPT ![b] = u]
      BY <2>2 DEF FinalizeUpload
    <3>2. t.receipt.actualCost = 0
      BY <2>2, FreeOfCharge
    <3>3. b = a => v.totalActualCost = usage[b].totalActualCost
      BY <1>0, <3>2 DEF ReleaseUsage, ChargeUsage, AccountUsage
    <3>4. b = a => u.totalActualCost = v.totalActualCost
      BY <1>0, <3>2 DEF OutcomeUsage, ReleaseUsage, ChargeUsage, AccountUsage
    <3> HIDE DEF b, u, v
    <3> QED
      BY <1>1, <3>1, <3>3, <3>4
  <2>3. CASE t.fn \notin {"requestUpload", "finalizeUpload"}
    BY <1>4, <2>3
    DEF Call, SetCoordinator, SetRelayer, RecordDataset, StartUpload, uploadVars
  <2> QED
    BY <1>4, <2>1, <2>2, <2>3, Zenon DEF Call
<1>5. CASE UNCHANGED vars \/ Tick
  BY <1>5 DEF vars, Tick, uploadVars
<1> QED
  BY <1>3, <1>4, <1>5, Zenon DEF ChainStep, ExpireUpload, CancelUpload

LEMMA RoomStep ==
  ASSUME Base, Grows, Room, [ScriptsNext]_scriptsVars
  PROVE  Room'
<1> SUFFICES ASSUME NEW a \in Account
             PROVE  /\ usage'[a].activeBytes + usage'[a].pendingBytes
                         <= policy'.maxActiveBytesPerAccount
                    /\ usage'[a].totalActualCost = 0
  BY DEF Room
<1>1. TypeOK /\ IssuedInOrder /\ ChainStep /\ policy' = policy
  BY ScriptsFrame DEF Framed, Base, Registry, IndexMatchesStatus, Grows, RolesGrow
<1>2. [Next]_vars
  BY <1>1, ChainIsRegistry
<1>3. NoMoreThanCap(usage[a], usage'[a])
  BY <1>1, <1>2, StepWithinCap
<1>4. TypeOK'
  BY BaseStep DEF Base, Registry
<1>5. /\ HeldBytes(usage[a]) \in Nat /\ HeldBytes(usage'[a]) \in Nat
      /\ policy.maxActiveBytesPerAccount \in Nat
  <2>1. usage[a] \in AccountUsage /\ usage'[a] \in AccountUsage /\ policy \in PolicyConfig
    BY <1>1, <1>4 DEF TypeOK
  <2> QED
    BY <2>1, UsageFields DEF HeldBytes, PolicyConfig
<1>6. HeldBytes(usage[a]) <= policy.maxActiveBytesPerAccount
  BY DEF Room, HeldBytes
<1>7. HeldBytes(usage'[a]) <= policy.maxActiveBytesPerAccount
  BY <1>3, <1>5, <1>6 DEF NoMoreThanCap
<1>8. usage'[a].totalActualCost = 0
  BY <1>1, CostStays DEF Room
<1> QED
  BY <1>1, <1>7, <1>8 DEF HeldBytes

LEMMA RoomInit == ScriptsInit => Room
<1> SUFFICES ASSUME ScriptsInit PROVE Room
  OBVIOUS
<1>1. usage = [a \in Account |-> NoUsage] /\ policy = InitialPolicy
  BY DEF ScriptsInit, DemoInit, PoolInit, Init
<1>2. policy.maxActiveBytesPerAccount \in Nat
  BY <1>1, ConstantsAssumption DEF PolicyConfig
<1> QED
  BY <1>1, <1>2 DEF Room, NoUsage

\* What the registry, and the scripts that are alone in using it, guarantee.
Sound == Room /\ LiveUploadsReleasable /\ OutcomeConsistent

LEMMA SoundAlways == ScriptsSpec => []Sound
<1>1. Base /\ Room /\ [ScriptsNext]_scriptsVars => Room'
  BY BaseStep, RoomStep
<1>2. ScriptsSpec => []Room
  BY <1>1, RoomInit, BaseAlways, PTL DEF ScriptsSpec
<1>3. Room /\ LiveUploadsReleasable /\ OutcomeConsistent => Sound
  BY DEF Sound
<1> QED
  BY <1>2, <1>3, ScriptsKeepRegistry, ReleaseNeverUnderflows, OutcomeCorrect, PTL

\* The dataset of this environment is on record as the operator's.
Recorded(env) == datasets[DemoAccount][env.dataset].payer = Operator

LEMMA StandingCoordinates ==
  ASSUME Standing
  PROVE  ActiveCoordinator(Operator)
BY DEF Standing, StandingPolicy, ActiveCoordinator

LEMMA StartTaken ==
  ASSUME Standing, NEW env, NEW o, objects[o].status = "Requested", ~Expired(o)
  PROVE  CallAccepted(DemoStart(env, o))
BY StandingCoordinates DEF CallAccepted, DemoStart, StartAccepted

LEMMA RecordTaken ==
  ASSUME Standing, NEW env
  PROVE  CallAccepted(DemoRecord(env))
<1>1. DatasetOf(env).accountId # Zero
  BY DemoAssumption, ConstantsAssumption DEF DatasetOf
<1> QED
  BY <1>1, StandingCoordinates DEF CallAccepted, DemoRecord, DatasetAccepted

LEMMA FinalizeTaken ==
  ASSUME Base, RequestsFit, Sound, Standing, NEW env \in Env, NEW o, Own(env, o),
         Live(objects[o].status), ~Expired(o)
  PROVE  CallAccepted(DemoFinalize(env, o))
<1> DEFINE obj == objects[o]
           r == Receipt(env)
           a == obj.accountId
           done == FinalizedObject(obj, Operator, r)
<1>1. /\ o \in ObjectId /\ a = DemoAccount /\ DemoAccount \in Account
      /\ details[o].request # <<>>
  BY DemoAssumption DEF Own, RequestMatches, RequestHashes
<1>2. obj \in StorageObject /\ usage[a] \in AccountUsage /\ policy \in PolicyConfig
  BY <1>1 DEF Base, Registry, TypeOK
<1>3. obj.size = 1 /\ obj.requestedCopies = 1
  BY <1>1 DEF RequestsFit
<1>4. /\ r.payer = Operator /\ r.hasReceiptHash /\ r.size = 1 /\ r.requestedCopies = 1
      /\ r.completedCopies = 1 /\ r.copies = 1 /\ r.actualCost = 0
      /\ r.finalizationStatus = "Committed"
  BY DEF Receipt
<1>5. /\ Releasable(usage[a], obj)
      /\ usage[a].activeBytes + usage[a].pendingBytes <= policy.maxActiveBytesPerAccount
      /\ usage[a].totalActualCost = 0
  BY <1>1 DEF Sound, Room, LiveUploadsReleasable
<1>6. StoredBytes(done) = 1 /\ RequestedBytes(obj) = 1
  <2>1. done.size = 1 /\ done.completedCopies = 1
    BY <1>2, <1>3, <1>4 DEF FinalizedObject, StorageObject
  <2> QED
    BY <1>3, <2>1 DEF StoredBytes, RequestedBytes
<1>7. usage[a].activeBytes + StoredBytes(done) <= policy.maxActiveBytesPerAccount
  <2>1. /\ usage[a].activeBytes \in Nat /\ usage[a].pendingBytes \in Nat
        /\ policy.maxActiveBytesPerAccount \in Nat
    BY <1>2 DEF AccountUsage, PolicyConfig
  <2> QED
    BY <1>5, <1>6, <2>1 DEF Releasable
<1>8. o \in activeIndexed => activeCount > 0
  <2>1. activeIndexed = LiveIds /\ activeCount = Cardinality(LiveIds)
    BY DEF Base, Registry, IndexMatchesStatus
  <2>2. o \in LiveIds => Cardinality(LiveIds) > 0
    BY LiveIdsFinite, FS_EmptySet
  <2> QED
    BY <2>1, <2>2
<1>9. ValidReceipt(obj, r) /\ CopiesMatchStatus(obj, r) /\ r.actualCost <= obj.reservedCost
  <2>1. obj.maxCost \in Nat /\ obj.reservedCost \in Nat
    BY <1>2 DEF StorageObject
  <2>2. Operator # Zero
    BY OperatorAssumption, ConstantsAssumption
  <2> QED
    BY <1>3, <1>4, <2>1, <2>2 DEF ValidReceipt, CopiesMatchStatus
<1>10. Fits(usage[a].totalActualCost + r.actualCost)
  BY <1>4, <1>5, ConstantsAssumption DEF Fits
<1>11. MutableObject(o)
  BY DEF MutableObject, Live, Terminal, FinalizationStatus
<1> HIDE DEF obj, r, a, done
<1>12. ReceiptAccepted(Operator, o, Receipt(env))
  BY <1>5, <1>7, <1>8, <1>9, <1>10, <1>11, StandingCoordinates
  DEF ReceiptAccepted, obj, r, a, done
<1> QED
  BY <1>12 DEF CallAccepted, DemoFinalize

-----------------------------------------------------------------------------
(* What becomes of an upload *)

LEMMA UploadMoves ==
  ASSUME Base, [ScriptsNext]_scriptsVars, NEW o \in ObjectId, o < nextObjectId
  PROVE  \/ objects'[o] = objects[o] /\ receipts'[o] = receipts[o]
         \/ objects'[o].status \in {"Cancelled", "Expired"}
         \/ \E t \in Calls : /\ Mines(t) /\ t.fn = "startUpload" /\ t.id = o
                             /\ StartUpload(Operator, o)
                             /\ objects'[o].status = "Uploading"
         \/ \E t \in Calls : /\ Mines(t) /\ t.fn = "finalizeUpload" /\ t.id = o
                             /\ FinalizeUpload(Operator, o, t.receipt)
                             /\ objects'[o].status = "Committed"
<1>1. /\ objects \in [ObjectId -> StorageObject] /\ nextObjectId \in Nat
      /\ DOMAIN receipts = ObjectId
  BY MaxObjectsAssumption DEF Base, Registry, TypeOK
<1>2. CASE UNCHANGED vars \/ Tick
  BY <1>2 DEF vars, Tick, uploadVars
<1>3. ASSUME NEW p \in ObjectId, NEW status \in {"Cancelled", "Expired"}, CloseUnsettled(p, status)
      PROVE  \/ objects'[o] = objects[o] /\ receipts'[o] = receipts[o]
             \/ objects'[o].status \in {"Cancelled", "Expired"}
  <2>1. objects' = [objects EXCEPT ![p].status = status] /\ receipts' = receipts
    BY <1>3 DEF CloseUnsettled
  <2>2. objects'[p].status = status
    BY <1>1, <2>1 DEF StorageObject
  <2> QED
    BY <1>1, <2>1, <2>2
<1>4. ASSUME NEW t \in Calls, Mines(t)
      PROVE  \/ objects'[o] = objects[o] /\ receipts'[o] = receipts[o]
             \/ /\ t.fn = "startUpload" /\ t.id = o /\ StartUpload(Operator, o)
                /\ objects'[o].status = "Uploading"
             \/ /\ t.fn = "finalizeUpload" /\ t.id = o /\ FinalizeUpload(Operator, o, t.receipt)
                /\ objects'[o].status = "Committed"
  <2>1. CASE t.fn = "requestUpload" /\ RequestUpload(Operator, t.params, Zero)
    <3>1. /\ objects' = [objects EXCEPT ![nextObjectId] = RequestedObject(t.params)]
          /\ receipts' = receipts
      BY <2>1 DEF RequestUpload
    <3> QED
      BY <1>1, <3>1
  <2>2. CASE t.fn = "startUpload" /\ StartUpload(Operator, t.id)
    <3>1. t.id \in ObjectId
      BY <2>2, CallFields
    <3>2. /\ receipts' = receipts
          /\ objects' = [objects EXCEPT ![t.id].status = "Uploading",
                                        ![t.id].coordinator = Operator]
      BY <2>2 DEF StartUpload
    <3>3. objects'[t.id].status = "Uploading"
      BY <1>1, <3>1, <3>2 DEF StorageObject
    <3> QED
      BY <1>1, <2>2, <3>2, <3>3
  <2>3. CASE t.fn = "finalizeUpload" /\ FinalizeUpload(Operator, t.id, t.receipt)
    <3>1. t.id \in ObjectId /\ t.receipt.finalizationStatus = "Committed"
      BY <2>3, CallFields
    <3>2. /\ objects' = [objects EXCEPT ![t.id] =
                            FinalizedObject(objects[t.id], Operator, t.receipt)]
          /\ \E x : receipts' = [receipts EXCEPT ![t.id] = x]
      BY <2>3 DEF FinalizeUpload
    <3>3. FinalizedObject(objects[t.id], Operator, t.receipt).status = "Committed"
      BY <1>1, <3>1 DEF FinalizedObject, StorageObject
    <3>4. objects'[t.id].status = "Committed"
      BY <1>1, <3>1, <3>2, <3>3
    <3> QED
      BY <1>1, <2>3, <3>2, <3>4
  <2>4. CASE t.fn \notin {"requestUpload", "startUpload", "finalizeUpload"}
    <3>1. UNCHANGED uploadVars
      BY <1>4, <2>4 DEF Mines, Call, SetCoordinator, SetRelayer, RecordDataset
    <3> QED
      BY <3>1 DEF uploadVars
  <2>5. Call(t)
    BY <1>4 DEF Mines
  <2> QED
    BY <2>1, <2>2, <2>3, <2>4, <2>5, Zenon DEF Call
<1>5. \/ UNCHANGED vars
      \/ Tick
      \/ \E p \in ObjectId : ExpireUpload(p) \/ CancelUpload(owner, p)
      \/ \E t \in Calls : Mines(t)
  BY ChainMoves, Zenon DEF Mines
<1> QED
  BY <1>2, <1>3, <1>4, <1>5, Zenon DEF ExpireUpload, CancelUpload

\* An upload that will never be committed.
Hopeless(o) ==
  objects[o].status # "Committed" /\ (Terminal(objects[o].status) \/ Expired(o))

LEMMA HopelessKept ==
  ASSUME Base, Grows, [ScriptsNext]_scriptsVars, NEW o \in ObjectId, o < nextObjectId,
         Hopeless(o)
  PROVE  Hopeless(o)'
<1>1. Advances(objects[o], objects'[o]) /\ now <= now'
  BY DEF Grows, UploadsGrow, RolesGrow
<1>2. TypeOK /\ TypeOK'
  BY BaseStep DEF Base, Registry
<1>3. Expired(o) => Expired(o)'
  <2>1. now \in Nat /\ now' \in Nat /\ objects[o].requestExpiresAt \in Nat
    BY <1>2 DEF TypeOK, StorageObject
  <2>2. objects'[o].requestExpiresAt = objects[o].requestExpiresAt
    BY <1>1 DEF Advances
  <2> QED
    BY <1>1, <2>1, <2>2 DEF Expired
<1>4. CASE objects'[o] = objects[o]
  BY <1>3, <1>4 DEF Hopeless
<1>5. CASE objects'[o].status \in {"Cancelled", "Expired"}
  BY <1>5 DEF Hopeless, Terminal
<1>6. CASE StartUpload(Operator, o)
  BY <1>6 DEF StartUpload, StartAccepted, Hopeless, Terminal, FinalizationStatus
<1>7. ASSUME NEW t, FinalizeUpload(Operator, o, t.receipt) PROVE FALSE
  BY <1>7 DEF FinalizeUpload, ReceiptAccepted, Hopeless, MutableObject
<1> QED
  BY <1>4, <1>5, <1>6, <1>7, UploadMoves

\* A mined call leaves the hashes it was sent with.
LEMMA MinedPrints ==
  ASSUME Base, [ScriptsNext]_scriptsVars, NEW t, Mines(t)
  PROVE  details' = StoredDetails(t)
<1>1. outcome \in Seq(BOOLEAN) /\ outcome' = Append(outcome, TRUE)
      /\ t = sent[Len(outcome) + 1]
  BY DEF Base, ScriptTypes, PoolTypes, Mines
<1> DEFINE n == Len(outcome) + 1
<1>a. \A ok \in BOOLEAN : Len(Append(outcome, ok)) = n /\ Append(outcome, ok)[n] = ok
  BY <1>1
<1>2. outcome' # outcome
  <2>1. Len(outcome') = n /\ Len(outcome) # n
    BY <1>1, <1>a
  <2> QED
    BY <2>1
<1>3. MineNext
  BY <1>2, PoolStep
<1>4. PICK ok \in BOOLEAN :
        Mine(ok) /\ details' = IF ok THEN StoredDetails(t) ELSE details
  BY <1>1, <1>3 DEF MineNext
<1>5. outcome' = Append(outcome, ok)
  BY <1>4 DEF Mine
<1>6. ok
  <2>1. outcome'[n] = TRUE /\ outcome'[n] = ok
    BY <1>1, <1>5, <1>a
  <2> QED
    BY <2>1
<1> QED
  BY <1>4, <1>6

\* The receipt of a run settles its upload as its final check wants it.
LEMMA FinalizeMatches ==
  ASSUME Base, Base', Grows, Sound, [ScriptsNext]_scriptsVars,
         NEW env \in Env, NEW o, Own(env, o), Recorded(env), Mines(DemoFinalize(env, o))
  PROVE  EvidenceMatches(env, o)' /\ objects'[o].status = "Committed"
<1>1. FinalizeUpload(Operator, o, Receipt(env)) /\ o \in ObjectId
  BY DEF Mines, Call, DemoFinalize, Own
<1>2. /\ objects' = [objects EXCEPT ![o] = FinalizedObject(objects[o], Operator, Receipt(env))]
      /\ receipts' = [receipts EXCEPT ![o] =
           [payer |-> Operator, copies |-> receipts[o].copies + 1]]
      /\ MutableObject(o)
  BY <1>1 DEF FinalizeUpload, ReceiptAccepted, Receipt
<1>3. /\ objects \in [ObjectId -> StorageObject] /\ DOMAIN receipts = ObjectId
      /\ details \in [ObjectId -> Details]
  BY DEF Base, Registry, TypeOK, ScriptTypes
<1>4. receipts[o].copies = 0
  <2>1. objects[o].status \notin {"Committed", "Partial"}
    BY <1>2 DEF MutableObject, Terminal, FinalizationStatus
  <2> QED
    BY <1>1, <2>1 DEF Sound, OutcomeConsistent
<1>5. receipts'[o] = [payer |-> Operator, copies |-> 1]
  BY <1>1, <1>2, <1>3, <1>4
<1>6. /\ objects'[o].completedCopies = 1 /\ objects'[o].actualCost = 0
      /\ objects'[o].status = "Committed"
  BY <1>1, <1>2, <1>3 DEF FinalizedObject, Receipt, StorageObject
<1>7. details'[o].receipt = ReceiptHashes(env)
  <2>1. details' = StoredDetails(DemoFinalize(env, o))
    BY MinedPrints
  <2>2. StoredDetails(DemoFinalize(env, o)) =
          [details EXCEPT ![o] = [details[o] EXCEPT !.receipt = ReceiptHashes(env)]]
    BY DEF StoredDetails, DemoFinalize
  <2> QED
    BY <1>1, <1>3, <2>1, <2>2 DEF Details
<1>8. Own(env, o)'
  BY OwnKept DEF Base, Grows
<1>9. datasets'[DemoAccount][env.dataset].payer = Operator
  BY DemoAssumption DEF Recorded, Grows, RolesGrow
<1> QED
  BY <1>5, <1>6, <1>7, <1>8, <1>9 DEF EvidenceMatches, Own

-----------------------------------------------------------------------------
(* Who waits for the calls of the demo *)

OwnPlans == \A i \in DOMAIN seeder.plans : seeder.plans[i] \notin DemoCalls

LEMMA DemoCallsApart ==
  \A t \in SetupCalls \cup RowCalls : t \notin DemoCalls
<1>1. \A t \in SetupCalls : t.fn \in {"setCoordinator", "setRelayer"}
  BY DEF SetupCalls, SetCoordinatorCall, SetRelayerCall
<1>2. \A t \in DemoCalls : t.fn \notin {"setCoordinator", "setRelayer"}
  BY DEF DemoCalls, DemoRequest, DemoStart, DemoRecord, DemoFinalize
<1> QED
  BY <1>1, <1>2, RowCallsApart

LEMMA OwnPlansStep ==
  ASSUME Base, OwnPlans, [ScriptsNext]_scriptsVars
  PROVE  OwnPlans'
<1>0. seeder \in SeederState /\ SeederFit(seeder)
  BY DEF Base, ScriptTypes, SeederOK
<1>1. ASSUME NEW plans, seeder'.plans = plans,
             \A i \in DOMAIN plans : plans[i] \in SetupCalls \cup RowCalls
      PROVE  OwnPlans'
  BY <1>1, DemoCallsApart DEF OwnPlans
<1>2. CASE seeder'.plans = seeder.plans
  BY <1>2 DEF OwnPlans
<1>3. CASE seeder'.plans = <<>>
  BY <1>3 DEF OwnPlans
<1>4. CASE seeder' = seeder
  BY <1>4, <1>2
<1>5. CASE seeder' = Seeder!Idle
  BY <1>3, <1>5 DEF Seeder!Idle
<1>6. CASE Seeder!EnsureCoordinator
  <2>1. PICK plans \in {<<>>, <<SetCoordinatorCall>>} :
          seeder' = [seeder EXCEPT !.plans = plans, !.pc = "relayer"]
    BY <1>6 DEF Seeder!EnsureCoordinator, Seeder!Plan, Seeder!Become, SetCoordinatorCall
  <2>2. seeder'.plans = plans
    BY <1>0, <2>1 DEF SeederState
  <2>3. SetCoordinatorCall \in SetupCalls
    BY DEF SetupCalls
  <2> QED
    BY <1>1, <2>1, <2>2, <2>3
<1>7. CASE Seeder!EnsureRelayer
  <2>1. PICK plans \in {<<>>, <<SetRelayerCall(Operator)>>} :
          seeder' = [seeder EXCEPT !.plans = plans, !.pc = "read", !.row = 1]
    BY <1>7 DEF Seeder!EnsureRelayer, SetRelayerCall
  <2>2. seeder'.plans = plans
    BY <1>0, <2>1 DEF SeederState
  <2>3. SetRelayerCall(Operator) \in SetupCalls
    BY RowsAssumption DEF SetupCalls
  <2> QED
    BY <1>1, <2>1, <2>2, <2>3
<1>8. \A w \in Row : seeder.seen[w].status # "None" => seeder.seen[w].id \in ObjectId
  BY <1>0 DEF SeederFit, OwnRow
<1>9. CASE Seeder!RequestMissing
  <2> DEFINE plans == Seeder!RequestPlans(seeder.seen)
  <2>1. seeder' = [seeder EXCEPT !.plans = plans, !.pc = "created", !.row = 1]
    BY <1>9 DEF Seeder!RequestMissing, Seeder!Become
  <2>2. \A i \in DOMAIN plans : plans[i] \in RowCalls
    BY RequestPlansCorrect DEF RowCalls
  <2> HIDE DEF plans
  <2>3. seeder'.plans = plans
    BY <1>0, <2>1 DEF SeederState
  <2> QED
    BY <1>1, <2>2, <2>3
<1>10. CASE Seeder!StartRequested
  <2> DEFINE plans == Seeder!StartPlans(seeder.seen, seeder.targets)
  <2>1. seeder' = [seeder EXCEPT !.plans = plans, !.pc = "starting"]
    BY <1>10 DEF Seeder!StartRequested, Seeder!Plan, Seeder!Become
  <2>2. \A w \in StartDue(seeder.seen, seeder.targets) : w \in Row /\ seeder.seen[w].id \in ObjectId
    BY <1>8 DEF StartDue
  <2>3. \A i \in DOMAIN plans : plans[i] \in RowCalls
    BY <2>2, StartPlansCorrect DEF RowCalls
  <2> HIDE DEF plans
  <2>4. seeder'.plans = plans
    BY <1>0, <2>1 DEF SeederState
  <2> QED
    BY <1>1, <2>3, <2>4
<1>11. CASE Seeder!FinalizeUploading
  <2> DEFINE plans == Seeder!FinalizationPlans(seeder.seen, seeder.targets)
  <2>1. seeder' = [seeder EXCEPT !.plans = plans, !.pc = "finalizing"]
    BY <1>11 DEF Seeder!FinalizeUploading, Seeder!Plan, Seeder!Become
  <2>2. \A w \in FinalizeDue(seeder.seen, seeder.targets) : w \in Row /\ seeder.seen[w].id \in ObjectId
    BY <1>8 DEF FinalizeDue
  <2>3. \A i \in DOMAIN plans : plans[i] \in RowCalls
    BY <2>2, FinalizationPlansCorrect DEF RowCalls
  <2> HIDE DEF plans
  <2>4. seeder'.plans = plans
    BY <1>0, <2>1 DEF SeederState
  <2> QED
    BY <1>1, <2>3, <2>4
<1>12. CASE Seeder!SendOne
  <2>1. seeder.plans # <<>> /\ seeder.plans \in Seq(Calls)
    BY <1>0, <1>12 DEF Seeder!SendOne, SeederState
  <2>2. seeder'.plans = Tail(seeder.plans)
    BY <1>0, <1>12 DEF Seeder!SendOne, SeederState
  <2>3. \A i \in DOMAIN Tail(seeder.plans) :
          i + 1 \in DOMAIN seeder.plans /\ Tail(seeder.plans)[i] = seeder.plans[i + 1]
    BY <2>1
  <2> QED
    BY <2>2, <2>3 DEF OwnPlans
<1>13. CASE Seeder!AwaitBatch
  <2>1. seeder' = [seeder EXCEPT !.awaiting = {}] \/ seeder' = Seeder!Idle
    BY <1>13 DEF Seeder!AwaitBatch, Seeder!Become
  <2>2. seeder' = [seeder EXCEPT !.awaiting = {}] => seeder'.plans = seeder.plans
    BY <1>0 DEF SeederState
  <2> QED
    BY <1>2, <1>5, <2>1, <2>2
<1>14. CASE Seeder!ReadExisting \/ Seeder!ReadCreated \/ Seeder!ReadStarted \/ Seeder!MarkStarted
  <2>1. \/ \E row, seen : seeder' = [seeder EXCEPT !.row = row, !.seen = seen]
        \/ \E row, w, e : seeder' = [seeder EXCEPT !.row = row, !.seen[w] = e]
        \/ \E row, seen, pc : seeder' = [seeder EXCEPT !.pc = pc, !.row = row, !.seen = seen]
    BY <1>14 DEF Seeder!ReadExisting, Seeder!ReadCreated, Seeder!ReadStarted, Seeder!ReadRow,
       Seeder!MarkStarted, Seeder!Become
  <2>2. seeder'.plans = seeder.plans
    BY <1>0, <2>1 DEF SeederState
  <2> QED
    BY <1>2, <2>2
<1>15. CASE Seeder!WriteSummary \/ Seeder!GiveUp
  BY <1>5, <1>15 DEF Seeder!WriteSummary, Seeder!GiveUp
<1>16. ASSUME NEW targets \in Targets, Seeder!Begin(targets) PROVE OwnPlans'
  <2>1. \E settled : seeder' = [Seeder!Idle EXCEPT !.pc = "coordinator", !.targets = targets,
                                                   !.settled = settled]
    BY <1>16 DEF Seeder!Begin
  <2>2. seeder'.plans = <<>>
    BY <2>1 DEF Seeder!Idle
  <2> QED
    BY <1>3, <2>2
<1>17. seeder' = seeder \/ Seeder!SeederRuns
  BY DEF ScriptsNext, scriptsVars, seederVars, Seeder!CancelRow
<1> QED
  BY <1>4, <1>6, <1>7, <1>9, <1>10, <1>11, <1>12, <1>13, <1>14, <1>15, <1>16, <1>17
  DEF Seeder!SeederRuns, Seeder!Step

LEMMA OwnPlansAlways == ScriptsSpec => []OwnPlans
<1>1. ScriptsInit => OwnPlans
  BY DEF ScriptsInit, Seeder!SeedInit, Seeder!Idle, OwnPlans
<1>2. Base /\ OwnPlans /\ [ScriptsNext]_scriptsVars => OwnPlans'
  BY OwnPlansStep
<1> QED
  BY <1>1, <1>2, BaseAlways, PTL DEF ScriptsSpec

\* Every call of the demo that is still to be mined is waited for.
NoneAdrift ==
  \A h \in DOMAIN sent : sent[h] \in DemoCalls /\ h \notin DOMAIN outcome =>
    \E r \in Run : run[r].waiting = h

\* A run that waits goes on when its call is mined.
LEMMA WaitsUntilMined ==
  ASSUME Base, NEW r \in Run, Step(r), run[r].waiting # 0
  PROVE  run[r].waiting \in DOMAIN outcome /\ (Receive(r) \/ Throw(r))
<1>1. run[r] \in RunState
  BY DEF Base, ScriptTypes
<1>2. Receive(r) \/ Throw(r)
  BY DEF Step, EnsureCoordinator, EnsureRelayer, Request, ReadRequested, Start, ReadStarted,
     Settle, ReadRecorded, Finalize, Merge, Truncate, Write, Return, At
<1>3. Mined(run[r].waiting)
  BY <1>2 DEF Receive, Succeeded, Throw, Throws, At
<1>4. run[r].waiting \in Nat
  BY <1>1 DEF RunState
<1> QED
  BY <1>2, <1>3, <1>4, PoolFacts DEF Mined

\* What a run of the demo sends in a step, it waits for.
LEMMA SenderWaits ==
  ASSUME Base, NEW r \in Run, Step(r) \/ GiveUp(r) \/ \E env \in Env : Begin(r, env)
  PROVE  /\ UNCHANGED outcome
         /\ \/ sent' = sent
            \/ /\ run[r].waiting = 0
               /\ run'[r].waiting = Len(sent) + 1
               /\ \E t : sent' = Append(sent, t)
<1>1. run \in [Run -> RunState] /\ run[r] \in RunState
  BY DEF Base, ScriptTypes
<1>2. ASSUME NEW t, NEW pc, Send(r, t, pc), run[r].waiting = 0
      PROVE  /\ UNCHANGED outcome /\ run[r].waiting = 0
             /\ run'[r].waiting = Len(sent) + 1 /\ sent' = Append(sent, t)
  <2>1. /\ run' = [run EXCEPT ![r] = [run[r] EXCEPT !.pc = pc, !.waiting = Len(sent) + 1]]
        /\ sent' = Append(sent, t) /\ outcome' = outcome
    BY <1>2 DEF Send, Submit, Become, NewHash
  <2> DEFINE n == Len(sent) + 1
  <2>2. run' = [run EXCEPT ![r] = [run[r] EXCEPT !.pc = pc, !.waiting = n]]
    BY <2>1
  <2> HIDE DEF n
  <2>3. run'[r].waiting = n
    BY <1>1, <2>2 DEF RunState
  <2> QED
    BY <1>2, <2>1, <2>3 DEF n
<1>3. CASE EnsureCoordinator(r) \/ EnsureRelayer(r) \/ Request(r)
  BY <1>2, <1>3, Zenon DEF EnsureCoordinator, EnsureRelayer, Request, At, Go, poolVars
<1>4. CASE Start(r) \/ Settle(r) \/ Finalize(r)
  BY <1>2, <1>4, Zenon DEF Start, Settle, Finalize, At, Go, poolVars
<1>5. CASE \/ ReadRequested(r) \/ ReadStarted(r) \/ ReadRecorded(r) \/ Merge(r)
           \/ Truncate(r) \/ Write(r) \/ Return(r) \/ Receive(r) \/ Throw(r) \/ GiveUp(r) \/ \E env \in Env : Begin(r, env)
  BY <1>5 DEF ReadRequested, ReadStarted, ReadRecorded, Merge, Truncate, Write, Return,
     Receive, Throw, GiveUp, Begin, Reread, poolVars
<1> QED
  BY <1>3, <1>4, <1>5 DEF Step

LEMMA NoneAdriftStep ==
  ASSUME Base, Base', Grows, OwnPlans, NoneAdrift, [ScriptsNext]_scriptsVars, giveUps' = giveUps
  PROVE  NoneAdrift'
<1> SUFFICES ASSUME NEW h \in DOMAIN sent', sent'[h] \in DemoCalls, h \notin DOMAIN outcome'
             PROVE  \E r \in Run : run'[r].waiting = h
  BY DEF NoneAdrift
<1>1. CASE h \in DOMAIN sent
  <2>1. sent'[h] = sent[h] /\ h \notin DOMAIN outcome
    BY <1>1 DEF Grows, PoolGrows
  <2>2. PICK r \in Run : run[r].waiting = h
    BY <1>1, <2>1 DEF NoneAdrift
  <2>3. ~Step(r)
    BY <2>1, <2>2, <1>1, WaitsUntilMined, PoolFacts
  <2>4. ~GiveUp(r)
    BY DEF GiveUp, Base, ScriptTypes
  <2>5. ~\E env \in Env : Begin(r, env)
    <3>1. h # 0
      BY <1>1, PoolFacts
    <3>2. run[r] # Idle
      BY <2>2, <3>1 DEF Idle
    <3> QED
      BY <3>2 DEF Begin
  <2>6. run'[r] = run[r]
    BY <2>3, <2>4, <2>5, RunMover, OthersWait
  <2> QED
    BY <2>2, <2>6
<1>2. CASE h \notin DOMAIN sent
  <2>1. sent \in Seq(Calls) /\ sent' # sent
    BY <1>2 DEF Base, ScriptTypes, PoolTypes
  <2>2. ASSUME NEW t, sent' = Append(sent, t) PROVE h = Len(sent) + 1 /\ sent'[h] = t
    BY <1>2, <2>1, <2>2
  <2>3. CASE DemoRuns
    <3>1. PICK r \in Run : Step(r) \/ GiveUp(r) \/ \E env \in Env : Begin(r, env)
      BY <2>3 DEF DemoRuns
    <3>2. run'[r].waiting = Len(sent) + 1 /\ \E t : sent' = Append(sent, t)
      BY <2>1, <3>1, SenderWaits
    <3> QED
      BY <2>2, <3>2
  <2>4. CASE DemoRests /\ Seeder!SendOne
    <3>1. 1 \in DOMAIN seeder.plans /\ sent' = Append(sent, seeder.plans[1])
      BY <2>4, SendOneFacts
    <3>2. sent'[h] = seeder.plans[1]
      BY <2>2, <3>1
    <3> QED
      BY <3>1, <3>2 DEF OwnPlans
  <2>5. DemoRuns \/ (DemoRests /\ Seeder!SendOne)
    <3>1. CASE MineNext
      BY <2>1, <3>1, MineNextMoves
    <3>2. CASE Passing \/ UNCHANGED scriptsVars
      BY <2>1, <3>2 DEF Passing, scriptsVars, demoVars, poolVars
    <3>3. CASE Seeder!CancelRow
      BY <2>1, <3>3, SameUnchanged DEF Seeder!CancelRow, poolVars
    <3>4. CASE Seeder!SeederRuns /\ UNCHANGED <<details, run, evidence, onDisk, lapses>>
      BY <2>1, <3>4, SeederSends DEF DemoRests, poolVars
    <3> QED
      BY <3>1, <3>2, <3>3, <3>4 DEF ScriptsNext
  <2> QED
    BY <2>3, <2>4, <2>5
<1> QED
  BY <1>1, <1>2

-----------------------------------------------------------------------------
(* The history the file tells, if no run was given up, none overlapped     *)
(* another and all of them wrote to a file about their own upload.         *)

Calm == giveUps = 0 /\ lapses = {}

Making == {"requestUpload", "startUpload", "recordDataset", "finalizeUpload"}

Holds(s, calls) == \A f \in calls : s.hashes[f] # 0

\* The call a run waits for is still to be mined; or it has been mined, with
\* success, and the run knows it or is yet to be told.
StillAwaited(s) == s.waiting # 0 /\ s.waiting \notin DOMAIN outcome
Through(s, f) ==
  IF s.waiting = 0 THEN s.hashes[f] # 0
  ELSE s.waiting \in DOMAIN outcome /\ outcome[s.waiting]

\* How far a run has got with the upload it makes: it knows all that was sent.
Stage(s, o) ==
  LET status == objects[o].status
  IN  \/ s.pc = "object" /\ Through(s, "requestUpload") /\ status = "Requested"
      \/ /\ s.pc = "start" /\ s.waiting = 0 /\ Holds(s, {"requestUpload"})
         /\ s.seen = "Requested" /\ status = "Requested"
      \/ /\ s.pc = "started" /\ Holds(s, {"requestUpload"})
         /\ \/ StillAwaited(s) /\ status = "Requested"
            \/ Through(s, "startUpload") /\ status = "Uploading"
      \/ /\ s.pc = "settle" /\ s.waiting = 0
         /\ Holds(s, {"requestUpload", "startUpload"})
         /\ s.seen = "Uploading" /\ status = "Uploading"
      \/ /\ s.pc = "recorded" /\ status = "Uploading"
         /\ Holds(s, {"requestUpload", "startUpload"})
         /\ StillAwaited(s) \/ (Through(s, "recordDataset") /\ Recorded(s.env))
      \/ /\ s.pc = "finalize" /\ s.waiting = 0 /\ Recorded(s.env)
         /\ Holds(s, {"requestUpload", "startUpload", "recordDataset"})
         /\ s.seen = "Uploading" /\ status = "Uploading"
      \/ /\ s.pc = "merge" /\ Recorded(s.env)
         /\ Holds(s, {"requestUpload", "startUpload", "recordDataset"})
         /\ \/ StillAwaited(s) /\ status = "Uploading"
            \/ Through(s, "finalizeUpload") /\ EvidenceMatches(s.env, o)
      \/ s.pc \in Writes /\ Holds(s, Making)

InHand(s, o) ==
  /\ s.env \in Env /\ Own(s.env, o) /\ Standing
  /\ s.pc # "object" => s.id = o
  /\ Stage(s, o)

InSomeHand(o) == \E r \in Run : InHand(run[r], o)

SameFile ==
  \A r \in Run : run[r] # Idle =>
    /\ run[r].env.write
    /\ evidence.id # 0 => evidence.env.piece = run[r].env.piece

WritersKnow == \A r \in Run : run[r].pc \in Writes => Holds(run[r], Making)

CoordinatorFirst ==
  \A r \in Run :
    /\ run[r].id = 0
    /\ \/ run[r].pc \in {"request", "object"}
       \/ run[r].pc = "relayer" /\ run[r].waiting = 0
    => Standing

FileHolds == evidence.id # 0 => Holds(evidence, Making)

\* Every upload of the demo is lost, in the file, or in a run's hands.
Followed ==
  \A o \in ObjectId, env \in Env :
    Own(env, o) => Hopeless(o) \/ evidence.id = o \/ InSomeHand(o)

History ==
  /\ Alone /\ SameFile /\ WritersKnow /\ CoordinatorFirst /\ NoneAdrift
  /\ FileHolds /\ Followed

\* What is calm was calm before.
LEMMA GiveUpsCounted ==
  ASSUME [ScriptsNext]_scriptsVars
  PROVE  giveUps' = giveUps \/ giveUps' = giveUps + 1
<1>1. CASE DemoRuns \/ MineNext \/ Passing
  BY <1>1 DEF DemoRuns, MineNext, Passing, GiveUp, Begin, Step, EnsureCoordinator,
     EnsureRelayer, Request, ReadRequested, Start, ReadStarted, Settle, ReadRecorded, Finalize,
     Merge, Truncate, Write, Return, Receive, Throw, Go, Send, Reread, restUnchanged
<1>2. CASE Seeder!SeederRuns \/ Seeder!CancelRow
  BY <1>2 DEF Seeder!SeederRuns, Seeder!CancelRow, Seeder!Step, Seeder!GiveUp, Seeder!Begin,
     Seeder!EnsureCoordinator, Seeder!EnsureRelayer, Seeder!ReadExisting,
     Seeder!ReadCreated, Seeder!ReadStarted, Seeder!ReadRow, Seeder!RequestMissing,
     Seeder!StartRequested, Seeder!MarkStarted, Seeder!FinalizeUploading, Seeder!SendOne,
     Seeder!AwaitBatch, Seeder!Plan, Seeder!Become, Seeder!WriteSummary, Seeder!restUnchanged
<1> QED
  BY <1>1, <1>2 DEF ScriptsNext, scriptsVars, demoVars

LEMMA CalmBefore ==
  ASSUME Base, Calm', [ScriptsNext]_scriptsVars
  PROVE  /\ Calm /\ UNCHANGED <<giveUps, lapses>>
         /\ \A r \in Run : ~GiveUp(r)
<1>1. giveUps \in Nat
  BY DEF Base, ScriptTypes
<1>2. giveUps = 0 /\ giveUps' = 0
  BY <1>1, GiveUpsCounted DEF Calm
<1>3. lapses = {} /\ lapses' = {}
  BY LapsesNoted DEF Calm
<1> QED
  BY <1>2, <1>3 DEF Calm, GiveUp

LEMMA CalmBegin ==
  ASSUME NEW r \in Run, NEW env \in Env, Begin(r, env), lapses' = {}
  PROVE  /\ \A q \in Run : run[q] = Idle
         /\ env.write /\ (evidence.id # 0 => evidence.env.piece = env.piece)
BY DEF Begin

-----------------------------------------------------------------------------
(* What a run is like after each kind of step *)

LEMMA GoShape ==
  ASSUME Base, NEW r \in Run, NEW pc, Go(r, pc), NEW s, s = run'[r]
  PROVE  /\ s.pc = pc /\ s.env = run[r].env /\ s.id = run[r].id /\ s.seen = run[r].seen
         /\ s.waiting = run[r].waiting /\ s.hashes = run[r].hashes
         /\ UNCHANGED <<vars, details, outcome, evidence>>
<1>1. run \in [Run -> RunState] /\ run[r] \in RunState
  BY DEF Base, ScriptTypes
<1>2. s = [run[r] EXCEPT !.pc = pc]
  BY <1>1 DEF Go, Become
<1> QED
  BY <1>1, <1>2 DEF RunState, Go, restUnchanged, poolVars

LEMMA SendShape ==
  ASSUME Base, NEW r \in Run, NEW t, NEW pc, Send(r, t, pc), NEW s, s = run'[r]
  PROVE  /\ s.pc = pc /\ s.env = run[r].env /\ s.id = run[r].id /\ s.seen = run[r].seen
         /\ s.waiting = Len(sent) + 1 /\ s.hashes = run[r].hashes
         /\ UNCHANGED <<vars, details, outcome, evidence>>
         /\ s.waiting # 0 /\ StillAwaited(s)'
<1>1. run \in [Run -> RunState] /\ run[r] \in RunState
  BY DEF Base, ScriptTypes
<1> DEFINE n == NewHash
<1>2. s = [run[r] EXCEPT !.pc = pc, !.waiting = n]
  BY <1>1 DEF Send, Become
<1>3. n = Len(sent) + 1 /\ n # 0 /\ n \notin DOMAIN outcome
  BY PoolFacts DEF NewHash
<1>4. UNCHANGED <<vars, details, outcome, evidence>>
  BY DEF Send, Submit, restUnchanged
<1> HIDE DEF n
<1>5. /\ s.pc = pc /\ s.env = run[r].env /\ s.id = run[r].id /\ s.seen = run[r].seen
      /\ s.waiting = n /\ s.hashes = run[r].hashes
  BY <1>1, <1>2 DEF RunState
<1> QED
  BY <1>3, <1>4, <1>5 DEF StillAwaited

LEMMA RereadShape ==
  ASSUME Base, NEW r \in Run, NEW o, NEW pc, Reread(r, o, pc), NEW s, s = run'[r]
  PROVE  /\ s.pc = pc /\ s.env = run[r].env /\ s.id = o /\ s.seen = objects[o].status
         /\ s.waiting = run[r].waiting /\ s.hashes = run[r].hashes
         /\ UNCHANGED <<vars, details, outcome, evidence>>
<1>1. run \in [Run -> RunState] /\ run[r] \in RunState
  BY DEF Base, ScriptTypes
<1>2. s = [run[r] EXCEPT !.id = o, !.seen = objects[o].status, !.pc = pc]
  BY <1>1 DEF Reread, Become
<1> QED
  BY <1>1, <1>2 DEF RunState, Reread, restUnchanged, poolVars

\* A run is told of a call that was mined with success.
LEMMA ReceiveShape ==
  ASSUME Base, NEW r \in Run, Waits(run[r]), Receive(r), NEW s, s = run'[r]
  PROVE  /\ s.pc = run[r].pc /\ s.env = run[r].env /\ s.id = run[r].id
         /\ s.seen = run[r].seen /\ s.waiting = 0
         /\ UNCHANGED <<vars, details, outcome, evidence>>
         /\ run[r].waiting # 0 /\ run[r].waiting \in DOMAIN outcome
         /\ outcome[run[r].waiting]
         /\ \E t \in Calls :
              /\ t = sent[run[r].waiting] /\ Awaits(run[r], t)
              /\ s.hashes[t.fn] # 0
         /\ \A f \in Sendable : run[r].hashes[f] # 0 => s.hashes[f] # 0
<1> DEFINE old == run[r]
           h == old.waiting
           t == sent[h]
<1>1. old \in RunState /\ run \in [Run -> RunState]
  BY DEF Base, ScriptTypes
<1>2. h # 0 /\ h <= Len(outcome) /\ outcome[h] /\ h \in Nat
  BY <1>1 DEF Receive, Succeeded, Mined, RunState
<1>3. h \in DOMAIN outcome /\ Awaits(old, t) /\ t \in Calls
  BY <1>1, <1>2, PoolFacts DEF Waits
<1>4. s = [old EXCEPT !.waiting = 0, !.hashes = [@ EXCEPT ![t.fn] = h]]
  BY <1>1 DEF Receive, Become
<1>5. t.fn \in Sendable
  BY <1>3, CallFields
<1>6. UNCHANGED <<vars, details, outcome, evidence>>
  BY DEF Receive, restUnchanged, poolVars
<1> HIDE DEF old, h, t
<1>7. /\ s.hashes = [old.hashes EXCEPT ![t.fn] = h] /\ s.env = old.env /\ s.id = old.id
      /\ s.pc = old.pc /\ s.seen = old.seen /\ s.waiting = 0
      /\ old.hashes \in [Sendable -> Nat]
  BY <1>1, <1>4 DEF RunState
<1>8. /\ s.hashes[t.fn] = h
      /\ \A f \in Sendable : f # t.fn => s.hashes[f] = old.hashes[f]
  BY <1>5, <1>7
<1>9. \A f \in Sendable : old.hashes[f] # 0 => s.hashes[f] # 0
  BY <1>2, <1>8
<1> QED
  BY <1>2, <1>3, <1>6, <1>7, <1>8, <1>9 DEF old, h, t

\* A run keeps its environment as long as it goes on.
LEMMA StepKeepsEnv ==
  ASSUME Base, Evidence, NEW r \in Run, Step(r)
  PROVE  run'[r] = Idle \/ run'[r].env = run[r].env
<1>1. run \in [Run -> RunState] /\ run[r] \in RunState /\ Waits(run[r])
  BY DEF Base, ScriptTypes, Evidence
<1>2. Become(r, Idle) => run'[r] = Idle
  BY <1>1 DEF Become
<1>3. \A pc : Go(r, pc) => run'[r].env = run[r].env
  BY GoShape
<1>4. \A t, pc : Send(r, t, pc) => run'[r].env = run[r].env
  BY SendShape
<1>5. \A o, pc : Reread(r, o, pc) => run'[r].env = run[r].env
  BY RereadShape
<1>6. Receive(r) => run'[r].env = run[r].env
  BY <1>1, ReceiveShape
<1>7. Merge(r) => run'[r].env = run[r].env
  BY <1>1 DEF Merge, Become, RunState
<1>8. CASE EnsureCoordinator(r) \/ EnsureRelayer(r) \/ Request(r) \/ ReadRequested(r)
  BY <1>3, <1>4, <1>5, <1>8 DEF EnsureCoordinator, EnsureRelayer, Request, ReadRequested
<1>9. CASE Start(r) \/ ReadStarted(r) \/ Settle(r) \/ ReadRecorded(r) \/ Finalize(r)
  BY <1>3, <1>4, <1>5, <1>9 DEF Start, ReadStarted, Settle, ReadRecorded, Finalize
<1>10. CASE Write(r) \/ Return(r) \/ Throw(r)
  BY <1>2, <1>10 DEF Write, Return, Throw
<1>11. Truncate(r) => run'[r].env = run[r].env
  BY TruncateShape
<1> QED
  BY <1>6, <1>7, <1>8, <1>9, <1>10, <1>11 DEF Step

\* What moves a run that goes on.
LEMMA CalmMover ==
  ASSUME Base, Calm', [ScriptsNext]_scriptsVars, NEW q \in Run
  PROVE  \/ run'[q] = run[q]
         \/ Step(q)
         \/ \E env \in Env : Begin(q, env)
BY CalmBefore, RunMover, OthersWait

LEMMA SameFileStep ==
  ASSUME Base, Evidence, Alone, SameFile, Calm', [ScriptsNext]_scriptsVars
  PROVE  SameFile'
<1>1. ASSUME NEW x \in Run, Write(x) PROVE SameFile'
  BY <1>1, WriterLeavesNone DEF SameFile
<1>2. ASSUME evidence' = evidence, NEW q \in Run, NEW s, s = run'[q], s # Idle
      PROVE  s.env.write /\ (evidence.id # 0 => evidence.env.piece = s.env.piece)
  <2>1. CASE s = run[q]
    <3>1. run[q] # Idle
      BY <1>2, <2>1
    <3>2. run[q].env.write /\ (evidence.id # 0 => evidence.env.piece = run[q].env.piece)
      BY <3>1 DEF SameFile
    <3> QED
      BY <2>1, <3>2
  <2>2. CASE Step(q)
    <3>1. s.env = run[q].env
      BY <1>2, <2>2, StepKeepsEnv
    <3>2. run[q] # Idle
      BY <2>2, StepNotIdle
    <3> QED
      BY <3>1, <3>2 DEF SameFile
  <2>3. ASSUME NEW env \in Env, Begin(q, env)
        PROVE  s.env.write /\ (evidence.id # 0 => evidence.env.piece = s.env.piece)
    <3>1. s.env = env
      BY <1>2, <2>3, BeginStarts
    <3> QED
      BY <2>3, <3>1, CalmBegin DEF Calm
  <2> QED
    BY <1>2, <2>1, <2>2, <2>3, CalmMover
<1> QED
  BY <1>1, <1>2, EvidenceWriter DEF SameFile

LEMMA CoordinatorFirstStep ==
  ASSUME Base, Grows, Evidence, Effects, CoordinatorFirst, Calm', [ScriptsNext]_scriptsVars
  PROVE  CoordinatorFirst'
<1>0. Standing => Standing'
  BY DEF Grows, RolesGrow, Standing
<1> SUFFICES ASSUME NEW q \in Run, NEW s, s = run'[q], s.id = 0,
                    \/ s.pc \in {"request", "object"}
                    \/ s.pc = "relayer" /\ s.waiting = 0
             PROVE  Standing
  BY <1>0 DEF CoordinatorFirst
<1>1. run \in [Run -> RunState] /\ run[q] \in RunState /\ Waits(run[q])
  BY DEF Base, ScriptTypes, Evidence
<1>2. ASSUME run[q].id = 0,
             \/ run[q].pc \in {"request", "object"}
             \/ run[q].pc = "relayer" /\ run[q].waiting = 0
      PROVE  Standing
  BY <1>2 DEF CoordinatorFirst
<1>3. CASE s = run[q]
  BY <1>2, <1>3
<1>4. ASSUME NEW env \in Env, Begin(q, env) PROVE Standing
  BY <1>4, BeginStarts
<1>5. s # Idle
  BY DEF Idle
<1>6. CASE EnsureCoordinator(q)
  <2>1. ASSUME Send(q, SetCoordinatorCall, "relayer") PROVE FALSE
    BY <2>1, SendShape
  <2> QED
    BY <1>6, <2>1 DEF EnsureCoordinator, Standing, SetCoordinatorCall
<1>7. CASE EnsureRelayer(q) \/ Request(q)
  <2>1. run[q].id = s.id
    BY <1>7, GoShape, SendShape DEF EnsureRelayer, Request
  <2>2. run[q].pc \in {"relayer", "request"} /\ run[q].waiting = 0
    BY <1>7 DEF EnsureRelayer, Request, At
  <2> QED
    BY <1>2, <2>1, <2>2
<1>8. CASE Receive(q)
  <2>1. /\ s.pc = run[q].pc /\ s.id = run[q].id /\ run[q].waiting \in DOMAIN outcome
        /\ outcome[run[q].waiting] /\ Awaits(run[q], sent[run[q].waiting])
    BY <1>1, <1>8, ReceiveShape
  <2>2. CASE s.pc = "relayer"
    <3>1. sent[run[q].waiting] = SetCoordinatorCall
      BY <2>1, <2>2 DEF Awaits
    <3>2. Effected(sent[run[q].waiting])
      BY <2>1 DEF Effects
    <3> QED
      BY <3>1, <3>2 DEF Effected, SetCoordinatorCall
  <2> QED
    BY <1>2, <2>1, <2>2
<1>9. \A pc : Go(q, pc) => s.pc = pc
  BY GoShape
<1>10. \A t, pc : Send(q, t, pc) => s.pc = pc
  BY SendShape
<1>11. \A o, pc : Reread(q, o, pc) => s.pc = pc
  BY RereadShape
<1>12. CASE ReadRequested(q) \/ Start(q) \/ ReadStarted(q) \/ Settle(q) \/ ReadRecorded(q)
            \/ Finalize(q)
  BY <1>9, <1>10, <1>11, <1>12
  DEF ReadRequested, Start, ReadStarted, Settle, ReadRecorded, Finalize
<1>13. CASE Merge(q)
  <2>1. s.pc = "write"
    BY <1>1, <1>13 DEF Merge, Become, RunState
  <2> QED
    BY <2>1
<1>14. ASSUME Write(q) \/ Return(q) \/ Throw(q) PROVE FALSE
  BY <1>1, <1>5, <1>14 DEF Write, Return, Throw, Become
<1>15. ASSUME Truncate(q) PROVE FALSE
  BY <1>15, TruncateShape
<1> QED
  BY <1>3, <1>4, <1>6, <1>7, <1>8, <1>12, <1>13, <1>14, <1>15, CalmMover DEF Step

-----------------------------------------------------------------------------
(* A run with an upload in hand takes a step *)

\* A successful check of the chain holds on in a step that leaves it alone.
LEMMA SameChecks ==
  ASSUME UNCHANGED <<vars, details>>, NEW env, NEW o
  PROVE  /\ Own(env, o) => Own(env, o)'
         /\ EvidenceMatches(env, o) => EvidenceMatches(env, o)'
         /\ Recorded(env) => Recorded(env)'
         /\ Standing => Standing'
         /\ objects' = objects
<1>1. UNCHANGED <<objects, receipts, datasets, coordinatorPolicies>>
  BY DEF vars, uploadVars, requestVars, adminVars, datasetVars
<1> QED
  BY <1>1 DEF Own, RequestMatches, EvidenceMatches, Recorded, Standing

\* A run that waits is told, and goes on.
LEMMA HandTold ==
  ASSUME Base, Evidence, NEW r \in Run, NEW o, InHand(run[r], o), Receive(r),
         NEW s, s = run'[r]
  PROVE  Stage(s, o)'
<1> DEFINE h == run[r].waiting
           status == objects[o].status
<1>1. Waits(run[r])
  BY DEF Evidence
<1>2. /\ s.pc = run[r].pc /\ s.env = run[r].env /\ s.seen = run[r].seen /\ s.waiting = 0
      /\ UNCHANGED <<vars, details, outcome, evidence>>
      /\ h # 0 /\ h \in DOMAIN outcome
      /\ \A f \in Sendable : run[r].hashes[f] # 0 => s.hashes[f] # 0
  BY <1>1, ReceiveShape
<1>3. PICK t \in Calls : Awaits(run[r], t) /\ s.hashes[t.fn] # 0
  BY <1>1, ReceiveShape
<1>4. /\ Stage(run[r], o) /\ objects' = objects
      /\ Recorded(run[r].env) => Recorded(s.env)'
      /\ EvidenceMatches(run[r].env, o) => EvidenceMatches(s.env, o)'
  <2>1. PICK env : env = run[r].env
    OBVIOUS
  <2>2. Recorded(env) => Recorded(env)'
    BY <1>2, SameChecks
  <2>3. EvidenceMatches(env, o) => EvidenceMatches(env, o)'
    BY <1>2, SameChecks
  <2> QED
    BY <1>2, <2>1, <2>2, <2>3, SameChecks
    DEF InHand, Recorded, EvidenceMatches, RequestMatches, RequestHashes, ReceiptHashes
<1>5. ~StillAwaited(run[r])
  BY <1>2 DEF StillAwaited
<1>6. \A calls \in SUBSET Sendable : Holds(run[r], calls) => Holds(s, calls)
  BY <1>2 DEF Holds
<1>7. /\ {"requestUpload"} \in SUBSET Sendable
      /\ {"requestUpload", "startUpload"} \in SUBSET Sendable
      /\ {"requestUpload", "startUpload", "recordDataset"} \in SUBSET Sendable
  BY DEF Sendable
<1>8. s.hashes[t.fn] # 0 => Through(s, t.fn)'
  BY <1>2 DEF Through
<1>9. CASE s.pc = "object"
  <2>1. t.fn = "requestUpload"
    BY <1>2, <1>3, <1>9 DEF Awaits, DemoRequest
  <2>2. Through(s, "requestUpload")'
    BY <1>3, <1>8, <2>1
  <2>3. status = "Requested"
    BY <1>2, <1>4, <1>9 DEF Stage, Writes
  <2> QED
    BY <1>4, <1>9, <2>2, <2>3 DEF Stage
<1>10. CASE s.pc = "started"
  <2>1. t.fn = "startUpload"
    BY <1>2, <1>3, <1>10 DEF Awaits, DemoStart
  <2>2. Through(s, "startUpload")'
    BY <1>3, <1>8, <2>1
  <2>3. status = "Uploading" /\ Holds(run[r], {"requestUpload"})
    BY <1>2, <1>4, <1>5, <1>10 DEF Stage, Writes
  <2>4. Holds(s, {"requestUpload"})
    BY <1>6, <1>7, <2>3
  <2>5. objects'[o].status = "Uploading"
    BY <1>4, <2>3
  <2> QED
    BY <1>10, <2>2, <2>4, <2>5 DEF Stage, Holds
<1>11. CASE s.pc = "recorded"
  <2>1. t.fn = "recordDataset"
    BY <1>2, <1>3, <1>11 DEF Awaits, DemoRecord
  <2>2. Through(s, "recordDataset")'
    BY <1>3, <1>8, <2>1
  <2>3. /\ status = "Uploading" /\ Holds(run[r], {"requestUpload", "startUpload"})
        /\ Recorded(run[r].env)
    BY <1>2, <1>4, <1>5, <1>11 DEF Stage, Writes
  <2>4. Holds(s, {"requestUpload", "startUpload"})
    BY <1>6, <1>7, <2>3
  <2>5. objects'[o].status = "Uploading" /\ Recorded(s.env)'
    BY <1>4, <2>3
  <2> QED
    BY <1>11, <2>2, <2>4, <2>5 DEF Stage, Holds
<1>12. CASE s.pc = "merge"
  <2>1. t.fn = "finalizeUpload"
    BY <1>2, <1>3, <1>12 DEF Awaits, DemoFinalize
  <2>2. Through(s, "finalizeUpload")'
    BY <1>3, <1>8, <2>1
  <2>3. /\ Holds(run[r], {"requestUpload", "startUpload", "recordDataset"})
        /\ Recorded(run[r].env) /\ EvidenceMatches(run[r].env, o)
    BY <1>2, <1>4, <1>5, <1>12 DEF Stage, Writes
  <2>4. Holds(s, {"requestUpload", "startUpload", "recordDataset"})
    BY <1>6, <1>7, <2>3
  <2>5. Recorded(s.env)' /\ EvidenceMatches(s.env, o)'
    BY <1>4, <2>3
  <2> QED
    BY <1>12, <2>2, <2>4, <2>5 DEF Stage, Holds
<1>13. s.pc \notin {"start", "settle", "finalize"} \cup Writes
  <2>1. s.pc \notin {"settle", "finalize"} \cup Writes /\ (s.pc = "start" => h = 0)
    BY <1>2, <1>3, <1>4 DEF Awaits, Stage, Writes
  <2> QED
    BY <1>2, <2>1
<1>14. s.pc \in {"object", "start", "started", "settle", "recorded", "finalize", "merge"} \cup Writes
  BY <1>2, <1>4 DEF Stage, Writes
<1> QED
  BY <1>9, <1>10, <1>11, <1>12, <1>13, <1>14

\* The upload of an environment is the one its idempotency key names.
LEMMA OwnIsKeyed ==
  ASSUME Base, NEW env \in Env, NEW o, Own(env, o)
  PROVE  objectByIdempotencyKey[DemoAccount][env.piece] = o
<1>1. /\ o \in ObjectId /\ objects[o].accountId = DemoAccount
      /\ objects[o].idempotencyKey = env.piece
  BY DEF Own, RequestMatches
<1>2. o < nextObjectId
  BY <1>1, IssuedIfUsed, DemoAssumption, ConstantsAssumption DEF Base
<1> QED
  BY <1>1, <1>2 DEF Base, Registry, IdempotencyKeyNamesOneUpload

\* The file a run reads is whole, and the one it writes is as it emptied it.
Unspoiled(r) ==
  /\ run[r].pc = "merge" => Readable
  /\ run[r].pc = "writing" => onDisk = "empty"

LEMMA CalmDisk ==
  ASSUME Merged, Calm, NEW r \in Run
  PROVE  Unspoiled(r)
<1>1. Alone /\ DiskFit /\ "cut" \notin lapses
  BY DEF Merged, Calm
<1>2. ASSUME NEW q \in Run, run[q].pc = "writing", run[r].pc = "merge" PROVE FALSE
  BY <1>1, <1>2 DEF Alone, Idle
<1> QED
  BY <1>1, <1>2 DEF DiskFit, Unspoiled, Readable

\* No run with an upload in hand fails.
LEMMA HandNoThrow ==
  ASSUME Base, Evidence, NEW r \in Run, NEW o, InHand(run[r], o), Unspoiled(r)
  PROVE  ~Throw(r)
<1> SUFFICES ASSUME Throws(r) PROVE FALSE
  BY DEF Throw
<1> DEFINE s == run[r]
<1>1. s \in RunState /\ s.waiting \in Nat /\ Waits(s)
  BY DEF Base, ScriptTypes, RunState, Evidence
<1>2. /\ s.env \in Env /\ Own(s.env, o) /\ Stage(s, o) /\ (s.pc # "object" => s.id = o)
  BY DEF InHand
<1>3. RequestMatches(s.env, o) /\ objectByIdempotencyKey[DemoAccount][s.env.piece] = o
  BY <1>2, OwnIsKeyed DEF Own
<1>4. ASSUME s.waiting # 0, Mined(s.waiting), ~Succeeded(s.waiting) PROVE FALSE
  <2>1. s.waiting \in DOMAIN outcome /\ ~outcome[s.waiting]
    BY <1>1, <1>4, PoolFacts DEF Mined, Succeeded
  <2>2. ~StillAwaited(s) /\ \A f : ~Through(s, f)
    BY <1>4, <2>1 DEF StillAwaited, Through
  <2>3. s.pc \in Writes
    BY <1>2, <1>4, <2>2 DEF Stage
  <2> QED
    BY <1>1, <1>4, <2>3 DEF Waits, Awaits, Writes
<1>5. ~(At(r, "object") /\ ~RequestMatches(s.env,
                              objectByIdempotencyKey[DemoAccount][s.env.piece]))
  BY <1>3, Zenon
<1>6. s.pc \in {"started", "recorded"} => RequestMatches(s.env, s.id)
  <2>1. s.pc \in {"started", "recorded"} => s.id = o
    BY <1>2
  <2> QED
    BY <1>3, <2>1, Zenon
<1>7. s.pc = "settle" => ~Committed(s.seen)
  BY <1>2 DEF Stage, Committed, Stored, Writes
<1>8. s.pc = "merge" /\ s.waiting = 0 => EvidenceMatches(s.env, s.id)
  <2> SUFFICES ASSUME s.pc = "merge", s.waiting = 0 PROVE EvidenceMatches(s.env, s.id)
    OBVIOUS
  <2>1. EvidenceMatches(s.env, o) /\ s.id = o
    BY <1>2 DEF Stage, StillAwaited, Writes
  <2> QED
    BY <2>1, Zenon
<1>9. s.pc = "merge" => Readable
  BY DEF Unspoiled
<1> QED
  BY <1>4, <1>5, <1>6, <1>7, <1>8, <1>9 DEF Throws, At

\* A run that does not wait goes on with what it is about.
LEMMA HandGoesOn ==
  ASSUME Base, Evidence, NEW r \in Run, NEW o, InHand(run[r], o), Step(r),
         Unspoiled(r), run[r].waiting = 0, run[r].env.write, NEW s, s = run'[r]
  PROVE  \/ run[r].pc = "object" /\ Reread(r, o, "start")
         \/ run[r].pc = "start" /\ Send(r, DemoStart(run[r].env, o), "started")
         \/ run[r].pc = "started" /\ Reread(r, o, "settle")
         \/ run[r].pc = "settle" /\ Send(r, DemoRecord(run[r].env), "recorded")
         \/ run[r].pc = "recorded" /\ Reread(r, o, "finalize")
         \/ run[r].pc = "finalize" /\ Send(r, DemoFinalize(run[r].env, o), "merge")
         \/ run[r].pc = "merge" /\ Merge(r)
         \/ run[r].pc = "write" /\ Truncate(r)
         \/ run[r].pc = "writing" /\ Write(r)
<1> DEFINE old == run[r]
<1>1. /\ old.env \in Env /\ Own(old.env, o) /\ Stage(old, o) /\ (old.pc # "object" => old.id = o)
  BY DEF InHand
<1>2. objectByIdempotencyKey[DemoAccount][old.env.piece] = o
  BY <1>1, OwnIsKeyed
<1>3. ~Throw(r) /\ ~Receive(r)
  BY HandNoThrow DEF Receive
<1>4. ~EnsureCoordinator(r) /\ ~EnsureRelayer(r) /\ ~Request(r)
  BY <1>1 DEF EnsureCoordinator, EnsureRelayer, Request, At, Stage, Writes
<1>5. ASSUME ReadRequested(r) PROVE old.pc = "object" /\ Reread(r, o, "start")
  BY <1>2, <1>5 DEF ReadRequested, At
<1>6. ASSUME Start(r) PROVE old.pc = "start" /\ Send(r, DemoStart(old.env, o), "started")
  <2>1. old.pc = "start"
    BY <1>6 DEF Start, At
  <2>2. NeedsStart(old.seen) /\ old.id = o
    BY <1>1, <2>1 DEF Stage, NeedsStart, Writes
  <2> QED
    BY <1>6, <2>1, <2>2 DEF Start, DemoStart
<1>7. ASSUME ReadStarted(r) PROVE old.pc = "started" /\ Reread(r, o, "settle")
  BY <1>1, <1>7 DEF ReadStarted, At
<1>8. ASSUME Settle(r) PROVE old.pc = "settle" /\ Send(r, DemoRecord(old.env), "recorded")
  <2>1. old.pc = "settle"
    BY <1>8 DEF Settle, At
  <2>2. ~Committed(old.seen)
    BY <1>1, <2>1 DEF Stage, Committed, Stored, Writes
  <2> QED
    BY <1>8, <2>1, <2>2 DEF Settle, DemoRecord
<1>9. ASSUME ReadRecorded(r) PROVE old.pc = "recorded" /\ Reread(r, o, "finalize")
  BY <1>1, <1>9 DEF ReadRecorded, At
<1>10. ASSUME Finalize(r) PROVE old.pc = "finalize" /\ Send(r, DemoFinalize(old.env, o), "merge")
  <2>1. old.pc = "finalize"
    BY <1>10 DEF Finalize, At
  <2>2. ~Committed(old.seen) /\ old.id = o
    BY <1>1, <2>1 DEF Stage, Committed, Stored, Writes
  <2> QED
    BY <1>10, <2>1, <2>2 DEF Finalize, DemoFinalize
<1>11. ASSUME Merge(r) PROVE old.pc = "merge"
  BY <1>11 DEF Merge, At
<1>12. /\ Truncate(r) => old.pc = "write"
       /\ Write(r) => old.pc = "writing"
  BY DEF Truncate, Write, At
<1>13. ~Return(r)
  BY DEF Return
<1> QED
  BY <1>3, <1>4, <1>5, <1>6, <1>7, <1>8, <1>9, <1>10, <1>11, <1>12, <1>13 DEF Step

\* What is in a run's hands stays there until it is in the file.
LEMMA HandStep ==
  ASSUME Base, Evidence, NEW r \in Run, NEW o, InHand(run[r], o), Step(r),
         Unspoiled(r), run[r].env.write, NEW s, s = run'[r]
  PROVE  evidence'.id = o \/ InHand(s, o)'
<1> DEFINE old == run[r]
<1>0. run \in [Run -> RunState] /\ old \in RunState
  BY DEF Base, ScriptTypes
<1>1. /\ old.env \in Env /\ Own(old.env, o) /\ Stage(old, o) /\ (old.pc # "object" => old.id = o)
      /\ Standing
  BY DEF InHand
<1>2. ASSUME s.env = old.env, s.pc # "object" => s.id = o, UNCHANGED <<vars, details>>,
             Stage(s, o)'
      PROVE  InHand(s, o)'
  <2>1. PICK env : env = s.env
    OBVIOUS
  <2>2. Own(env, o)
    BY <1>1, <1>2, <2>1, Zenon
  <2>3. Own(env, o)' /\ Standing'
    BY <1>1, <1>2, <2>2, SameChecks
  <2>4. Own(s.env, o)'
    BY <2>1, <2>3 DEF Own, RequestMatches, RequestHashes
  <2> QED
    BY <1>1, <1>2, <2>3, <2>4 DEF InHand
<1>3. CASE old.waiting # 0
  <2>1. Receive(r)
    BY <1>3, WaitsUntilMined, HandNoThrow
  <2>2. /\ s.pc = old.pc /\ s.env = old.env /\ s.id = old.id
        /\ UNCHANGED <<vars, details, outcome, evidence>>
    <3>1. Waits(old)
      BY DEF Evidence
    <3> QED
      BY <2>1, <3>1, ReceiveShape
  <2>3. Stage(s, o)'
    BY <2>1, HandTold
  <2> QED
    BY <1>1, <1>2, <2>2, <2>3
<1>4. ASSUME NEW pc, NEW t, Send(r, t, pc), old.waiting = 0, old.pc # "object"
      PROVE  /\ s.pc = pc /\ s.env = old.env /\ s.id = o /\ s.hashes = old.hashes
             /\ UNCHANGED <<vars, details>> /\ objects' = objects /\ StillAwaited(s)'
             /\ Recorded(old.env) => Recorded(s.env)'
  <2>1. /\ s.pc = pc /\ s.env = old.env /\ s.id = old.id /\ s.hashes = old.hashes
        /\ UNCHANGED <<vars, details>> /\ StillAwaited(s)'
    BY <1>4, SendShape
  <2> QED
    BY <1>1, <1>4, <2>1, SameChecks DEF Recorded
<1>5. ASSUME NEW pc, Reread(r, o, pc), old.waiting = 0
      PROVE  /\ s.pc = pc /\ s.env = old.env /\ s.id = o /\ s.seen = objects[o].status
             /\ s.hashes = old.hashes /\ s.waiting = 0
             /\ UNCHANGED <<vars, details>> /\ objects' = objects
             /\ Recorded(old.env) => Recorded(s.env)'
  <2>1. /\ s.pc = pc /\ s.env = old.env /\ s.id = o /\ s.seen = objects[o].status
        /\ s.hashes = old.hashes /\ s.waiting = 0 /\ UNCHANGED <<vars, details>>
    BY <1>5, RereadShape
  <2> QED
    BY <2>1, SameChecks DEF Recorded
<1>6. ASSUME old.pc = "object", old.waiting = 0, Reread(r, o, "start") PROVE InHand(s, o)'
  <2>1. old.hashes["requestUpload"] # 0 /\ objects[o].status = "Requested"
    BY <1>1, <1>6 DEF Stage, Through, Writes
  <2> QED
    BY <1>2, <1>5, <1>6, <2>1 DEF Stage, Holds
<1>7. ASSUME old.pc = "start", old.waiting = 0, NEW t, Send(r, t, "started") PROVE InHand(s, o)'
  <2>1. Holds(old, {"requestUpload"}) /\ objects[o].status = "Requested"
    BY <1>1, <1>7 DEF Stage, Writes
  <2> QED
    BY <1>2, <1>4, <1>7, <2>1 DEF Stage, Holds
<1>8. ASSUME old.pc = "started", old.waiting = 0, Reread(r, o, "settle") PROVE InHand(s, o)'
  <2>1. /\ Holds(old, {"requestUpload"}) /\ old.hashes["startUpload"] # 0
        /\ objects[o].status = "Uploading"
    BY <1>1, <1>8 DEF Stage, StillAwaited, Through, Writes
  <2> QED
    BY <1>2, <1>5, <1>8, <2>1 DEF Stage, Holds
<1>9. ASSUME old.pc = "settle", old.waiting = 0, NEW t, Send(r, t, "recorded")
      PROVE  InHand(s, o)'
  <2>1. Holds(old, {"requestUpload", "startUpload"}) /\ objects[o].status = "Uploading"
    BY <1>1, <1>9 DEF Stage, Writes
  <2> QED
    BY <1>2, <1>4, <1>9, <2>1 DEF Stage, Holds
<1>10. ASSUME old.pc = "recorded", old.waiting = 0, Reread(r, o, "finalize")
       PROVE  InHand(s, o)'
  <2>1. /\ Holds(old, {"requestUpload", "startUpload"}) /\ old.hashes["recordDataset"] # 0
        /\ objects[o].status = "Uploading" /\ Recorded(old.env)
    BY <1>1, <1>10 DEF Stage, StillAwaited, Through, Writes
  <2> QED
    BY <1>2, <1>5, <1>10, <2>1 DEF Stage, Holds
<1>11. ASSUME old.pc = "finalize", old.waiting = 0, NEW t, Send(r, t, "merge")
       PROVE  InHand(s, o)'
  <2>1. /\ Holds(old, {"requestUpload", "startUpload", "recordDataset"})
        /\ objects[o].status = "Uploading" /\ Recorded(old.env)
    BY <1>1, <1>11 DEF Stage, Writes
  <2> QED
    BY <1>2, <1>4, <1>11, <2>1 DEF Stage, Holds
<1>12. ASSUME old.pc = "merge", old.waiting = 0, Merge(r) PROVE InHand(s, o)'
  <2>1. Holds(old, Making) /\ old.id = o
    BY <1>1, <1>12 DEF Stage, StillAwaited, Through, Holds, Making, Writes
  <2> DEFINE file == ReusableHashes(evidence, old.env, old.id)
  <2>2. s = [old EXCEPT !.pc = "write", !.hashes = MergeHashes(file, old.hashes)]
        /\ UNCHANGED <<vars, details>>
    BY <1>0, <1>12, MergeReads DEF Merge, Become, restUnchanged
  <2> HIDE DEF file
  <2>3. /\ s.pc = "write" /\ s.env = old.env /\ s.id = o
        /\ s.hashes = MergeHashes(file, old.hashes)
    BY <1>0, <2>1, <2>2 DEF RunState
  <2>4. Holds(s, Making)
    BY <2>1, <2>3 DEF Holds, Making, MergeHashes, Sendable
  <2> QED
    BY <1>2, <2>2, <2>3, <2>4 DEF Stage, Holds, Making, Writes
<1>13. ASSUME old.pc = "write", Truncate(r) PROVE InHand(s, o)'
  <2>1. Holds(old, Making) /\ old.id = o
    BY <1>1, <1>13 DEF Stage, Writes
  <2>2. /\ s.pc \in Writes /\ s.env = old.env /\ s.id = o /\ s.hashes = old.hashes
        /\ UNCHANGED <<vars, details>>
    BY <1>13, <2>1, TruncateShape DEF Writes
  <2> QED
    BY <1>2, <2>1, <2>2 DEF Stage, Holds, Making
<1>14. ASSUME old.pc = "writing", Write(r) PROVE evidence'.id = o
  BY <1>1, <1>14 DEF Write, Unspoiled
<1> QED
  BY <1>3, <1>6, <1>7, <1>8, <1>9, <1>10, <1>11, <1>12, <1>13, <1>14, HandGoesOn

-----------------------------------------------------------------------------
(* The chain moves, and a run with an upload in hand waits *)

\* A call that moves an upload of the demo is waited for by the one run that
\* is under way.
LEMMA OwnCallAwaited ==
  ASSUME Base, NoneAdrift, Alone, NEW r \in Run, run[r] # Idle,
         NEW env \in Env, NEW o, Own(env, o),
         NEW t \in Calls, Mines(t), t.fn \in {"startUpload", "finalizeUpload"}, t.id = o
  PROVE  run[r].waiting = Len(outcome) + 1
<1> DEFINE n == Len(outcome) + 1
<1>1. n \in DOMAIN sent /\ t = sent[n] /\ n \notin DOMAIN outcome /\ n # 0
  BY PoolFacts DEF Mines
<1>2. Warranted(t)
  <2>1. Warranted(sent[n])
    BY <1>1 DEF Base
  <2> QED
    BY <1>1, <2>1, Zenon
<1>3. t \notin SetupCalls /\ \A w \in Row : t # RowRequest(w) /\ t # RowRecord(w)
  BY DEF SetupCalls, SetCoordinatorCall, SetRelayerCall, RowRequest, RowRecord
<1>4. \A w \in Row, p \in ObjectId :
        OwnRow(w, p) => ~(t = RowStart(w, p) \/ t = RowFinalize(w, p))
  <2> SUFFICES ASSUME NEW w \in Row, NEW p \in ObjectId, OwnRow(w, p),
                      t = RowStart(w, p) \/ t = RowFinalize(w, p)
               PROVE  FALSE
    OBVIOUS
  <2>1. p = o
    BY DEF RowStart, RowFinalize
  <2>2. ~Own(env, p)
    BY RowsApart DEF Base
  <2> QED
    BY <2>1, <2>2
<1>5. t \in DemoCalls
  BY <1>2, <1>3, <1>4, DemoWarrants, Zenon DEF Warranted
<1>6. PICK q \in Run : run[q].waiting = n
  BY <1>1, <1>5 DEF NoneAdrift
<1>7. q = r
  BY <1>1, <1>6 DEF Alone, Idle
<1> QED
  BY <1>6, <1>7

\* A call that the run waits for is mined, and nothing else moves its upload.
LEMMA ElseUnmoved ==
  ASSUME Base, NoneAdrift, Alone, [ScriptsNext]_scriptsVars, NEW r \in Run, run[r] # Idle,
         NEW env \in Env, NEW o, Own(env, o)
  PROVE  \/ objects'[o] = objects[o] /\ receipts'[o] = receipts[o]
         \/ objects'[o].status \in {"Cancelled", "Expired"}
         \/ /\ run[r].waiting = Len(outcome) + 1 /\ outcome' = Append(outcome, TRUE)
            /\ \E t \in Calls :
                 /\ Mines(t) /\ t.fn \in {"startUpload", "finalizeUpload"} /\ t.id = o
<1>1. o \in ObjectId /\ o < nextObjectId
  <2>1. o \in ObjectId /\ objects[o].accountId = DemoAccount
    BY DEF Own, RequestMatches
  <2> QED
    BY <2>1, IssuedIfUsed, DemoAssumption, ConstantsAssumption DEF Base
<1>2. ASSUME NEW t \in Calls, Mines(t), t.fn \in {"startUpload", "finalizeUpload"}, t.id = o
      PROVE  run[r].waiting = Len(outcome) + 1 /\ outcome' = Append(outcome, TRUE)
  BY <1>2, OwnCallAwaited DEF Mines
<1> QED
  BY <1>1, <1>2, UploadMoves

\* Whether the call a run waits for has been mined changes in its own step only.
LEMMA SameWait ==
  ASSUME Base, Grows, [ScriptsNext]_scriptsVars, NEW s,
         ~(s.waiting = Len(outcome) + 1 /\ outcome' # outcome)
  PROVE  /\ StillAwaited(s) => StillAwaited(s)'
         /\ \A f : Through(s, f) => Through(s, f)'
<1>1. outcome \in Seq(BOOLEAN)
  BY DEF Base, ScriptTypes, PoolTypes
<1>2. \A ok \in BOOLEAN : DOMAIN Append(outcome, ok) = DOMAIN outcome \cup {Len(outcome) + 1}
  BY <1>1
<1>3. StillAwaited(s) => StillAwaited(s)'
  BY <1>2, PoolStep DEF StillAwaited
<1>4. \A h \in DOMAIN outcome : h \in DOMAIN outcome' /\ outcome'[h] = outcome[h]
  BY DEF Grows, PoolGrows
<1> QED
  BY <1>3, <1>4 DEF Through

\* A checked upload stays as it was checked.
LEMMA MatchesKept ==
  ASSUME Base, Base', Grows, ReceiptsFit, [ScriptsNext]_scriptsVars,
         NEW env \in Env, NEW o \in ObjectId, EvidenceMatches(env, o),
         objects'[o] = objects[o], receipts'[o] = receipts[o]
  PROVE  EvidenceMatches(env, o)'
<1>1. Evident(env, o)
  BY MatchIsEvident
<1>2. Evident(env, o)'
  BY <1>1, EvidentKept
<1> QED
  BY <1>2 DEF EvidenceMatches, Evident, Own

LEMMA RecordedKept ==
  ASSUME Grows, NEW env \in Env, Recorded(env)
  PROVE  Recorded(env)'
BY DemoAssumption DEF Recorded, Grows, RolesGrow

\* What the mined call a run waited for does to its upload.
LEMMA HandMined ==
  ASSUME Base, Base', Grows, Sound, RequestsFit, [ScriptsNext]_scriptsVars,
         NoneAdrift, Alone, NEW r \in Run, NEW o, NEW s, s = run[r], InHand(s, o), Waits(s),
         s.waiting = Len(outcome) + 1, outcome' # outcome
  PROVE  Hopeless(o)' \/ Stage(s, o)'
<1> DEFINE n == Len(outcome) + 1
           t == sent[n]
<1>1. /\ s.env \in Env /\ Own(s.env, o) /\ Standing /\ (s.pc # "object" => s.id = o)
      /\ Stage(s, o) /\ o \in ObjectId
  BY DEF InHand, Own
<1>2. PICK ok \in BOOLEAN :
        /\ outcome' = Append(outcome, ok)
        /\ ok => Call(t)
        /\ ~ok => ~CallAccepted(t)
  BY PoolStep
<1>3. n # 0 /\ n \notin DOMAIN outcome /\ n \in DOMAIN sent /\ Awaits(s, t)
  BY PoolFacts DEF Waits
<1>4. n \in DOMAIN outcome' /\ outcome'[n] = ok /\ outcome \in Seq(BOOLEAN)
  <2>1. outcome \in Seq(BOOLEAN)
    BY DEF Base, ScriptTypes, PoolTypes
  <2>2. \A b \in BOOLEAN : n \in DOMAIN Append(outcome, b) /\ Append(outcome, b)[n] = b
    BY <2>1
  <2> QED
    BY <1>2, <2>1, <2>2
<1>5. s.waiting = n
  OBVIOUS
<1>6. ok => Mines(t)
  <2>1. ok => ok = TRUE
    OBVIOUS
  <2> QED
    BY <1>2, <1>3, <2>1 DEF Mines
<1> HIDE DEF n, t
<1>7. ok => \A f : Through(s, f)'
  BY <1>3, <1>4, <1>5 DEF Through
<1>8. /\ \A f : ~Through(s, f)
      /\ s.pc \in {"started", "recorded", "merge"}
  <2>1. \A f : ~Through(s, f)
    BY <1>3, <1>5 DEF Through
  <2> QED
    BY <1>1, <1>3, <1>5, <2>1 DEF Stage, Awaits, Writes
<1>9. Hopeless(o) => Hopeless(o)'
  <2>1. o < nextObjectId
    BY <1>1, IssuedIfUsed, DemoAssumption, ConstantsAssumption DEF Base, Own, RequestMatches
  <2> QED
    BY <1>1, <2>1, HopelessKept
<1>10. ASSUME Live(objects[o].status), Expired(o) PROVE Hopeless(o)'
  <2>1. objects[o].status # "Committed"
    BY <1>10 DEF Live
  <2> QED
    BY <1>9, <1>10, <2>1 DEF Hopeless
<1>11. CASE s.pc = "started"
  <2>1. /\ t = DemoStart(s.env, o) /\ objects[o].status = "Requested"
        /\ Holds(s, {"requestUpload"})
    <3>1. s.id = o
      BY <1>1, <1>11
    <3>2. t = DemoStart(s.env, s.id) /\ objects[o].status = "Requested"
          /\ Holds(s, {"requestUpload"})
      BY <1>1, <1>3, <1>8, <1>11 DEF Awaits, Stage, Writes
    <3> QED
      BY <3>1, <3>2
  <2>2. CASE ok
    <3>1. StartUpload(Operator, o)
      BY <1>2, <2>1, <2>2 DEF Call, DemoStart
    <3>2. objects'[o].status = "Uploading"
      BY <1>1, <3>1 DEF StartUpload, Base, Registry, TypeOK, StorageObject
    <3> QED
      BY <1>7, <1>11, <2>1, <2>2, <3>2 DEF Stage, Holds
  <2>3. CASE ~ok
    <3>1. Expired(o)
      BY <1>1, <1>2, <2>1, <2>3, StartTaken
    <3> QED
      BY <1>10, <2>1, <3>1 DEF Live
  <2> QED
    BY <2>2, <2>3
<1>12. CASE s.pc = "recorded"
  <2>1. /\ t = DemoRecord(s.env) /\ objects[o].status = "Uploading"
        /\ Holds(s, {"requestUpload", "startUpload"})
    BY <1>1, <1>3, <1>12 DEF Awaits, Stage, Writes
  <2>2. ok
    BY <1>1, <1>2, <2>1, RecordTaken
  <2>3. RecordDataset(Operator, DatasetOf(s.env))
    BY <1>2, <2>1, <2>2 DEF Call, DemoRecord
  <2>4. Recorded(s.env)'
    <3>1. /\ DatasetOf(s.env).accountId = DemoAccount /\ DatasetOf(s.env).dataset = s.env.dataset
          /\ DatasetOf(s.env).payer = Operator
      BY DEF DatasetOf
    <3>2. DemoAccount \in Account /\ s.env.dataset \in Dataset
      BY <1>1, DemoAssumption
    <3> QED
      BY <2>3, <3>1, <3>2 DEF RecordDataset, Recorded, Base, Registry, TypeOK
  <2>5. objects' = objects
    BY <2>3 DEF RecordDataset, uploadVars
  <2> QED
    BY <1>7, <1>12, <2>1, <2>2, <2>4, <2>5 DEF Stage, Holds
<1>13. CASE s.pc = "merge"
  <2>1. /\ t = DemoFinalize(s.env, o) /\ objects[o].status = "Uploading"
        /\ Holds(s, {"requestUpload", "startUpload", "recordDataset"}) /\ Recorded(s.env)
    <3>1. s.id = o
      BY <1>1, <1>13
    <3>2. /\ t = DemoFinalize(s.env, s.id) /\ objects[o].status = "Uploading"
          /\ Holds(s, {"requestUpload", "startUpload", "recordDataset"}) /\ Recorded(s.env)
      BY <1>1, <1>3, <1>8, <1>13 DEF Awaits, Stage, Writes
    <3> QED
      BY <3>1, <3>2
  <2>2. CASE ok
    <3>1. EvidenceMatches(s.env, o)'
      BY <1>1, <1>6, <2>1, <2>2, FinalizeMatches
    <3>2. Recorded(s.env)'
      BY <1>1, <2>1, RecordedKept
    <3> QED
      BY <1>7, <1>13, <2>1, <2>2, <3>1, <3>2 DEF Stage, Holds
  <2>3. CASE ~ok
    <3>1. Live(objects[o].status)
      BY <2>1 DEF Live
    <3>2. Expired(o)
      BY <1>1, <1>2, <2>1, <2>3, <3>1, FinalizeTaken
    <3> QED
      BY <1>10, <3>1, <3>2
  <2> QED
    BY <2>2, <2>3
<1> QED
  BY <1>8, <1>11, <1>12, <1>13

\* What is in the hands of a run stays there while the run waits.
LEMMA HandKept ==
  ASSUME Base, Base', Grows, Sound, RequestsFit, ReceiptsFit, [ScriptsNext]_scriptsVars,
         NoneAdrift, Alone, NEW r \in Run, NEW o, NEW s, s = run[r], InHand(s, o), Waits(s)
  PROVE  Hopeless(o)' \/ InHand(s, o)'
<1>1. /\ s.env \in Env /\ Own(s.env, o) /\ Standing /\ (s.pc # "object" => s.id = o)
      /\ Stage(s, o) /\ o \in ObjectId
  BY DEF InHand, Own
<1>2. Own(s.env, o)' /\ Standing'
  BY <1>1, OwnKept DEF Base, Grows, RolesGrow, Standing
<1>3. s # Idle
  BY <1>1 DEF Idle, Stage, Writes
<1>4. ASSUME Stage(s, o)' PROVE InHand(s, o)'
  BY <1>1, <1>2, <1>4 DEF InHand
<1>5. CASE s.waiting = Len(outcome) + 1 /\ outcome' # outcome
  BY <1>4, <1>5, HandMined
<1>6. CASE /\ ~(s.waiting = Len(outcome) + 1 /\ outcome' # outcome)
           /\ objects'[o] = objects[o] /\ receipts'[o] = receipts[o]
  <2>1. /\ StillAwaited(s) => StillAwaited(s)'
        /\ \A f : Through(s, f) => Through(s, f)'
    BY <1>6, SameWait
  <2>2. PICK env \in Env : env = s.env
    BY <1>1
  <2>3. /\ Recorded(env) => Recorded(env)'
        /\ EvidenceMatches(env, o) => EvidenceMatches(env, o)'
    BY <1>1, <1>6, RecordedKept, MatchesKept
  <2>4. /\ Recorded(s.env) => Recorded(s.env)'
        /\ EvidenceMatches(s.env, o) => EvidenceMatches(s.env, o)'
    BY <2>2, <2>3
    DEF Recorded, EvidenceMatches, RequestMatches, RequestHashes, ReceiptHashes
  <2>5. Stage(s, o)'
    BY <1>1, <1>6, <2>1, <2>4 DEF Stage, Holds
  <2> QED
    BY <1>4, <2>5
<1>7. CASE objects'[o].status \in {"Cancelled", "Expired"}
  BY <1>7 DEF Hopeless, Terminal
<1>8. outcome \in Seq(BOOLEAN) /\ outcome # Append(outcome, TRUE)
  <2>1. outcome \in Seq(BOOLEAN)
    BY DEF Base, ScriptTypes, PoolTypes
  <2>2. Len(Append(outcome, TRUE)) = Len(outcome) + 1 /\ Len(outcome) \in Nat
    BY <2>1
  <2>3. Len(Append(outcome, TRUE)) # Len(outcome)
    BY <2>2
  <2> QED
    BY <2>1, <2>3, Zenon
<1> QED
  BY <1>1, <1>3, <1>5, <1>6, <1>7, <1>8, ElseUnmoved

-----------------------------------------------------------------------------
(* Every upload of the demo is followed *)

LEMMA IdleNotInHand ==
  ASSUME NEW s, NEW o, InHand(s, o)
  PROVE  s # Idle
BY DEF InHand, Stage, Idle, Writes

\* A committed upload is not hopeless.
LEMMA HandOrFile ==
  ASSUME Followed, NEW env \in Env, NEW o, Evident(env, o)
  PROVE  evidence.id = o \/ InSomeHand(o)
<1>1. Own(env, o) /\ o \in ObjectId /\ objects[o].status = "Committed"
  BY DEF Evident, Own
<1>2. Hopeless(o) \/ evidence.id = o \/ InSomeHand(o)
  BY <1>1 DEF Followed
<1> QED
  BY <1>1, <1>2 DEF Hopeless

LEMMA WritersKnowStep ==
  ASSUME Base, Evidence, History, Calm', [ScriptsNext]_scriptsVars
  PROVE  WritersKnow'
<1> SUFFICES ASSUME NEW q \in Run, NEW s, s = run'[q], s.pc \in Writes
             PROVE  Holds(s, Making)
  BY DEF WritersKnow, Holds
<1>0. run \in [Run -> RunState] /\ run[q] \in RunState /\ Waits(run[q])
      /\ Alone /\ Followed /\ ReceiptsFit
  BY DEF Base, ScriptTypes, Evidence, History
<1>1. CASE s = run[q]
  <2>1. Holds(run[q], Making)
    BY <1>1 DEF History, WritersKnow
  <2> QED
    BY <1>1, <2>1 DEF Holds
<1>2. ASSUME NEW env \in Env, Begin(q, env) PROVE FALSE
  BY <1>2, BeginStarts DEF Writes
<1>3. CASE Merge(q)
  <2> DEFINE env == run[q].env
             o == run[q].id
             file == ReusableHashes(evidence, env, o)
  <2>1. Merge(q) /\ Step(q)
    BY <1>3 DEF Step
  <2>2. run[q].pc = "merge" /\ run[q].waiting = 0 /\ EvidenceMatches(env, o)
    BY <2>1 DEF Merge, At
  <2>3. env \in Env /\ o \in ObjectId
    BY <2>2, RunUpload DEF AtUpload
  <2>4. Evident(env, o)
    BY <1>0, <2>2, <2>3, MatchIsEvident
  <2>5. evidence.id = o \/ InSomeHand(o)
    BY <1>0, <2>3, <2>4, HandOrFile
  <2>6. CASE evidence.id = o
    <3>1. Holds(evidence, Making)
      BY <2>3, <2>6 DEF History, FileHolds, ObjectId
    <3>2. \A f \in Sendable : evidence.hashes[f] # 0 => s.hashes[f] # 0
      BY <2>1, <2>6, MergeKeepsFile
    <3> QED
      BY <3>1, <3>2 DEF Holds, Making, Sendable
  <2>7. CASE InSomeHand(o)
    <3>1. PICK p \in Run : InHand(run[p], o)
      BY <2>7 DEF InSomeHand
    <3>2. run[p] # Idle /\ run[q] # Idle
      BY <2>1, <3>1, IdleNotInHand, StepNotIdle
    <3>3. p = q
      BY <1>0, <3>2 DEF Alone
    <3>4. Stage(run[q], o)
      <4>1. Stage(run[p], o)
        BY <3>1 DEF InHand
      <4> QED
        BY <3>3, <4>1
    <3>5. Holds(run[q], Making)
      BY <2>2, <3>4 DEF Stage, StillAwaited, Through, Holds, Making, Writes
    <3> HIDE DEF file
    <3>6. s = [run[q] EXCEPT !.pc = "write", !.hashes = MergeHashes(file, run[q].hashes)]
      BY <1>0, <2>1, MergeReads DEF Merge, Become, file
    <3>7. s.hashes = MergeHashes(file, run[q].hashes)
      BY <1>0, <3>6 DEF RunState
    <3> QED
      BY <3>5, <3>7 DEF Holds, Making, MergeHashes, Sendable
  <2> QED
    BY <2>5, <2>6, <2>7
<1>4. CASE Truncate(q)
  <2>1. run[q].pc \in Writes /\ s.hashes = run[q].hashes
    BY <1>4, TruncateShape DEF Writes
  <2>2. Holds(run[q], Making)
    BY <2>1 DEF History, WritersKnow
  <2> QED
    BY <2>1, <2>2 DEF Holds
<1> QED
  BY <1>0, <1>1, <1>2, <1>3, <1>4, CalmMover, WriteAfterMerge

LEMMA FileHoldsStep ==
  ASSUME History, [ScriptsNext]_scriptsVars
  PROVE  FileHolds'
<1>1. CASE evidence' = evidence
  BY <1>1 DEF History, FileHolds, Holds
<1>2. ASSUME NEW x \in Run, Write(x), evidence' # evidence PROVE FileHolds'
  <2>1. Holds(run[x], Making)
    BY <1>2 DEF History, WritersKnow, Write, At, Writes
  <2>2. evidence'.hashes = run[x].hashes
    BY <1>2 DEF Write
  <2> QED
    BY <2>1, <2>2 DEF FileHolds, Holds
<1> QED
  BY <1>1, <1>2, EvidenceWriter

\* Whose upload one is does not change, and a new one is made by a request.
LEMMA OwnBefore ==
  ASSUME Base, Base', Grows, RequestsFit, [ScriptsNext]_scriptsVars,
         NEW env \in Env, NEW o \in ObjectId, Own(env, o)'
  PROVE  \/ Own(env, o) /\ o < nextObjectId
         \/ \E e \in Env : Mines(DemoRequest(e)) /\ o = nextObjectId
<1>1. /\ details'[o].request = RequestHashes(env) /\ RequestHashes(env) # <<>>
      /\ objects'[o].accountId = DemoAccount /\ objects'[o].user = Operator
      /\ objects'[o].idempotencyKey = env.piece /\ o # 0
  BY DEF Own, RequestMatches, RequestHashes
<1>2. details[o] \in Details
  BY DEF Base, ScriptTypes
<1>3. ASSUME details'[o].request = details[o].request PROVE Own(env, o) /\ o < nextObjectId
  <2>1. o < nextObjectId
    BY <1>1, <1>3 DEF RequestsFit
  <2>2. Advances(objects[o], objects'[o])
    BY <2>1 DEF Grows, UploadsGrow
  <2> QED
    BY <1>1, <1>3, <2>1, <2>2 DEF Advances, Own, RequestMatches
<1>4. \A e \in Env : details'[o] = [details[o] EXCEPT !.receipt = ReceiptHashes(e)] =>
        details'[o].request = details[o].request
  BY <1>2 DEF Details
<1> QED
  BY <1>3, <1>4, PrintsMove

\* A new upload is in the hands of the run that waits for its request.
LEMMA NewInHand ==
  ASSUME Base, Base', Grows, Evidence, CoordinatorFirst, NoneAdrift, [ScriptsNext]_scriptsVars,
         NEW e \in Env, NEW o, Mines(DemoRequest(e)), o = nextObjectId
  PROVE  InSomeHand(o)'
<1> DEFINE n == Len(outcome) + 1
<1>1. /\ n \in DOMAIN sent /\ DemoRequest(e) = sent[n] /\ n \notin DOMAIN outcome /\ n # 0
      /\ outcome' = Append(outcome, TRUE)
  BY PoolFacts DEF Mines
<1>2. DemoRequest(e) \in DemoCalls
  BY DemoWarrants
<1>3. PICK r \in Run : run[r].waiting = n
  BY <1>1, <1>2 DEF NoneAdrift
<1>4. PICK s : s = run[r]
  OBVIOUS
<1>5. Waits(run[r]) /\ Knows(run[r])
  BY DEF Evidence
<1>6. Awaits(run[r], DemoRequest(e))
  BY <1>1, <1>3, <1>5 DEF Waits
<1>7. run[r].pc = "object" /\ DemoRequest(e) = DemoRequest(run[r].env)
  BY <1>6 DEF Awaits, DemoRequest, SetCoordinatorCall, SetRelayerCall, DemoStart, DemoRecord,
     DemoFinalize
<1>8. run[r].id = 0 /\ Standing
  BY <1>5, <1>7 DEF Knows, CoordinatorFirst
<1>9. s.env \in Env /\ s.pc = "object" /\ s.waiting = n
  BY <1>3, <1>4, <1>7, RunUpload
<1>10. Mines(DemoRequest(s.env))
  <2>1. DemoRequest(e) = DemoRequest(s.env)
    BY <1>4, <1>7
  <2> QED
    BY <2>1, Zenon
<1>11. /\ o \in ObjectId /\ objects'[o] = RequestedObject(RequestParams(s.env))
  BY <1>9, <1>10, DemoRequests DEF Mines
<1>12. details'[o].request = RequestHashes(s.env)
  <2>1. details' = StoredDetails(DemoRequest(s.env))
    BY <1>10, MinedPrints
  <2>2. StoredDetails(DemoRequest(s.env)) =
          [details EXCEPT ![o] = [details[o] EXCEPT !.request = RequestHashes(s.env)]]
    BY DEF StoredDetails, DemoRequest
  <2>3. details \in [ObjectId -> Details] /\ details[o] \in Details
    BY <1>11 DEF Base, ScriptTypes
  <2> QED
    BY <1>11, <2>1, <2>2, <2>3 DEF Details
<1>13. Own(s.env, o)'
  BY <1>11, <1>12, MaxObjectsAssumption
  DEF Own, RequestMatches, RequestedObject, RequestParams, ObjectId
<1>14. Standing'
  BY <1>8 DEF Grows, RolesGrow, Standing
<1>15. Through(s, "requestUpload")'
  <2>1. outcome \in Seq(BOOLEAN)
    BY DEF Base, ScriptTypes, PoolTypes
  <2>2. n \in DOMAIN Append(outcome, TRUE) /\ Append(outcome, TRUE)[n] = TRUE
    BY <2>1
  <2>3. n \in DOMAIN outcome' /\ outcome'[n]
    BY <1>1, <2>2
  <2> QED
    BY <1>1, <1>9, <2>3 DEF Through
<1>16. objects'[o].status = "Requested"
  BY <1>11 DEF RequestedObject
<1>17. Stage(s, o)'
  BY <1>9, <1>15, <1>16 DEF Stage
<1>18. run' = run
  <2>1. outcome \in Seq(BOOLEAN)
    BY DEF Base, ScriptTypes, PoolTypes
  <2>2. Len(Append(outcome, TRUE)) # Len(outcome)
    BY <2>1
  <2>3. outcome' # outcome
    BY <1>1, <2>2, Zenon
  <2> QED
    BY <2>3, PoolStep
<1>19. InHand(s, o)'
  BY <1>9, <1>13, <1>14, <1>17 DEF InHand
<1>20. s = run'[r]
  BY <1>4, <1>18
<1>21. InHand(run[r], o)'
  BY <1>19, <1>20 DEF InHand, Own, RequestMatches, Stage, Through, StillAwaited, Holds, Recorded,
     EvidenceMatches
<1> QED
  BY <1>21 DEF InSomeHand

LEMMA HandIsHeld ==
  ASSUME NEW r \in Run, NEW s, s = run'[r], NEW o, InHand(s, o)'
  PROVE  InSomeHand(o)'
<1>1. InHand(run[r], o)'
  BY DEF InHand, Own, RequestMatches, Stage, Through, StillAwaited, Holds, Recorded,
     EvidenceMatches
<1> QED
  BY <1>1 DEF InSomeHand

LEMMA FollowedStep ==
  ASSUME Base, Base', Grows, Evidence, Sound, Merged, History, Calm', [ScriptsNext]_scriptsVars
  PROVE  Followed'
<1>0. /\ Alone /\ SameFile /\ CoordinatorFirst /\ NoneAdrift /\ Followed
      /\ RequestsFit /\ ReceiptsFit /\ EvidenceFit
  BY DEF History, Evidence
<1> SUFFICES ASSUME NEW o \in ObjectId, NEW env \in Env, Own(env, o)'
             PROVE  Hopeless(o)' \/ evidence'.id = o \/ InSomeHand(o)'
  BY DEF Followed
<1>1. ASSUME NEW e \in Env, Mines(DemoRequest(e)), o = nextObjectId PROVE InSomeHand(o)'
  BY <1>0, <1>1, NewInHand
<1>2. ASSUME Own(env, o), o < nextObjectId
      PROVE  Hopeless(o)' \/ evidence'.id = o \/ InSomeHand(o)'
  <2>1. CASE Hopeless(o)
    BY <1>2, <2>1, HopelessKept
  <2>2. CASE evidence.id = o
    <3>1. ASSUME NEW x \in Run, Write(x), evidence' # evidence PROVE evidence'.id = o
      <4>1. /\ run[x].pc = "writing" /\ evidence'.id = run[x].id /\ run[x] # Idle
        BY <3>1 DEF Write, At, Idle
      <4>2. run[x].env \in Env /\ Own(run[x].env, run[x].id)
        BY <4>1, RunUpload DEF AtUpload
      <4>3. evidence.env.piece = run[x].env.piece
        BY <2>2, <4>1, <1>0 DEF SameFile, ObjectId
      <4>4. evidence.env \in Env /\ Own(evidence.env, o)
        <5>1. evidence.env \in Env /\ Own(evidence.env, evidence.id)
          BY <1>0, <2>2 DEF EvidenceFit, Evident, ObjectId
        <5> QED
          BY <2>2, <5>1, Zenon
      <4>5. /\ objectByIdempotencyKey[DemoAccount][run[x].env.piece] = run[x].id
            /\ objectByIdempotencyKey[DemoAccount][evidence.env.piece] = o
        BY <4>2, <4>4, OwnIsKeyed
      <4> QED
        BY <4>1, <4>3, <4>5
    <3> QED
      BY <2>2, <3>1, EvidenceWriter
  <2>3. ASSUME NEW r \in Run, InHand(run[r], o)
        PROVE  Hopeless(o)' \/ evidence'.id = o \/ InSomeHand(o)'
    <3>1. run[r] # Idle /\ Waits(run[r])
      BY <2>3, IdleNotInHand DEF Evidence
    <3>2. CASE run'[r] = run[r]
      <4>1. PICK s : s = run[r]
        OBVIOUS
      <4>2. InHand(s, o) /\ Waits(s)
        BY <2>3, <3>1, <4>1, Zenon
      <4>3. Hopeless(o)' \/ InHand(s, o)'
        BY <1>0, <4>1, <4>2, HandKept
      <4> QED
        BY <3>2, <4>1, <4>3, HandIsHeld
    <3>3. CASE Step(r)
      <4>1. PICK s : s = run'[r]
        OBVIOUS
      <4>2. run[r].env.write /\ Unspoiled(r)
        BY <1>0, <3>1, CalmBefore, CalmDisk DEF SameFile
      <4>3. evidence'.id = o \/ InHand(s, o)'
        BY <2>3, <3>3, <4>1, <4>2, HandStep
      <4> QED
        BY <4>1, <4>3, HandIsHeld
    <3>4. ~\E e \in Env : Begin(r, e)
      BY <3>1 DEF Begin
    <3> QED
      BY <3>2, <3>3, <3>4, CalmMover
  <2> QED
    BY <1>0, <1>2, <2>1, <2>2, <2>3 DEF Followed, InSomeHand
<1> QED
  BY <1>0, <1>1, <1>2, OwnBefore

LEMMA HistoryStep ==
  ASSUME Base, Evidence, Sound, Progress, OwnPlans, Merged, Calm => History,
         [ScriptsNext]_scriptsVars
  PROVE  (Calm => History)'
<1> SUFFICES ASSUME Calm' PROVE History'
  OBVIOUS
<1>1. Base' /\ Grows
  BY BaseStep
<1>2. Calm /\ UNCHANGED <<giveUps, lapses>>
  BY CalmBefore
<1>3. History /\ Alone /\ SameFile /\ CoordinatorFirst /\ NoneAdrift
  BY <1>2 DEF History
<1>4. Alone'
  BY <1>3, AloneStep DEF Calm
<1>5. SameFile'
  BY <1>3, SameFileStep
<1>6. WritersKnow'
  BY <1>3, WritersKnowStep
<1>7. CoordinatorFirst'
  BY <1>1, <1>3, CoordinatorFirstStep DEF Progress
<1>8. NoneAdrift'
  BY <1>1, <1>2, <1>3, NoneAdriftStep
<1>9. FileHolds'
  BY <1>3, FileHoldsStep
<1>10. Followed'
  BY <1>1, <1>3, FollowedStep
<1> QED
  BY <1>4, <1>5, <1>6, <1>7, <1>8, <1>9, <1>10 DEF History

LEMMA HistoryInit == ScriptsInit => History
<1> SUFFICES ASSUME ScriptsInit PROVE History
  OBVIOUS
<1>1. /\ run = [r \in Run |-> Idle] /\ sent = <<>> /\ evidence = NoEvidence
      /\ details = [o \in ObjectId |-> NoDetails]
  BY DEF ScriptsInit, DemoInit, PoolInit
<1>2. \A r \in Run : run[r] = Idle /\ run[r].pc = "idle"
  BY <1>1 DEF Idle
<1>3. Alone /\ SameFile /\ WritersKnow /\ CoordinatorFirst
  BY <1>2 DEF Alone, SameFile, WritersKnow, CoordinatorFirst, Writes
<1>4. NoneAdrift
  BY <1>1 DEF NoneAdrift
<1>5. FileHolds
  BY <1>1 DEF FileHolds, NoEvidence
<1>6. Followed
  <2>1. ASSUME NEW o \in ObjectId, NEW env \in Env PROVE ~Own(env, o)
    <3>1. details[o].request = <<>>
      BY <1>1 DEF NoDetails
    <3> QED
      BY <3>1 DEF Own, RequestMatches, RequestHashes
  <2> QED
    BY <2>1 DEF Followed
<1> QED
  BY <1>3, <1>4, <1>5, <1>6 DEF History

LEMMA HistoryAlways == ScriptsSpec => [](Calm => History)
<1> DEFINE H == Calm => History
<1>1. ScriptsInit => H
  BY HistoryInit
<1>2. Base /\ Evidence /\ Sound /\ Progress /\ OwnPlans /\ Merged /\ H
        /\ [ScriptsNext]_scriptsVars => H'
  BY HistoryStep
<1> HIDE DEF H
<1>3. ScriptsSpec => []H
  BY <1>1, <1>2, BaseAlways, EvidenceAlways, SoundAlways, ProgressAlways, OwnPlansAlways,
     MergedAlways, PTL
  DEF ScriptsSpec
<1> QED
  BY <1>3 DEF H

\* What run-calibration-registry-demo.mjs writes to the evidence file that the
\* public dashboard quotes is true: the upload is committed on chain with the
\* request and the receipt of the environment it was written from, the hashes
\* are of mined calls about that upload, and as long as no run was given up,
\* overlapped another or wrote elsewhere, all four that made it are there.
THEOREM EvidenceIsTrue == ScriptsSpec => []EvidenceTrue
<1>1. (Calm => History) => HistoryComplete
  <2>1. Sendable \ {"setCoordinator", "setRelayer"} \subseteq Making
    BY DEF Sendable, Making
  <2> QED
    BY <2>1 DEF Calm, History, FileHolds, Holds, HistoryComplete
<1>2. Base /\ Evidence => EvidenceOnChain /\ EvidenceHashesBelong
  BY EvidenceSaysSo
<1>3. Base /\ Evidence /\ (Calm => History) => EvidenceTrue
  BY <1>1, <1>2 DEF EvidenceTrue
<1> QED
  BY <1>3, BaseAlways, EvidenceAlways, HistoryAlways, PTL
=============================================================================
