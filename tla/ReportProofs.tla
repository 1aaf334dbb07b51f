----------------------------- MODULE ReportProofs -----------------------------
(***************************************************************************)
(* Proofs about the operator's report on direct reads (DirectReads) and on *)
(* one page of them (DashboardReport).                                     *)
(*                                                                         *)
(* The argument.  A step of the registry that changes an upload's share of *)
(* its account's counters changes the account (RowsMove), so a row is      *)
(* either of an upload or account that moved, or what the registry still   *)
(* holds (ModelTrue); ReadsInv says so of every row read, while detail by  *)
(* detail is still put in.  A finished model is thus the registry's, except*)
(* for what moved (ReportInv).  Of an unmoved upload the contract's own    *)
(* invariants rule every error out but those about its coordinator; of an  *)
(* unmoved account the rows are all there and add up to its counters.      *)
(***************************************************************************)
EXTENDS DashboardReport, DirectReadsProofs

-----------------------------------------------------------------------------
(* What a step of the registry does to the rows a reader may hold *)

\* What an upload adds to the counters of its account: bytes stored, bytes
\* in flight and cost reserved.
Portion(obj) ==
  <<IF Stored(obj.status) THEN obj.size * obj.completedCopies ELSE 0,
    IF Live(obj.status) THEN obj.size * obj.requestedCopies ELSE 0,
    IF Live(obj.status) THEN obj.reservedCost ELSE 0>>

\* An upload that changes keeps its account, and what it adds to the account
\* unless the account changes too; its receipt changes only with it; and an
\* upload or an account that is new changes its account.
RowsMove ==
  /\ \A o \in IssuedIds :
       /\ objects'[o].accountId = objects[o].accountId
       /\ usage'[objects[o].accountId] = usage[objects[o].accountId] =>
            Portion(objects'[o]) = Portion(objects[o])
  /\ \A o \in ObjectId : objects'[o] = objects[o] => receipts'[o] = receipts[o]
  /\ \A o \in IssuedIds' \ IssuedIds :
       usage'[objects'[o].accountId] # usage[objects'[o].accountId]
  /\ \A i \in 1..Len(accountIds') :
       i > Len(accountIds) => usage'[accountIds'[i]] # usage[accountIds'[i]]

LEMMA UnmovedRows ==
  ASSUME UNCHANGED <<objects, receipts, usage, nextObjectId, accountIds>>
  PROVE  RowsMove
BY DEF RowsMove, IssuedIds

\* One upload changes, and its account with it unless it adds the same.
LEMMA OneRowMoves ==
  ASSUME TypeOK, NEW o \in ObjectId, NEW done,
         objects' = [objects EXCEPT ![o] = done], done # objects[o],
         done.accountId = objects[o].accountId,
         \A q \in ObjectId \ {o} : receipts'[q] = receipts[q],
         UNCHANGED <<nextObjectId, accountIds>>,
         o \in IssuedIds /\ usage'[done.accountId] = usage[done.accountId] =>
           Portion(done) = Portion(objects[o])
  PROVE  RowsMove
<1>1. /\ objects'[o] = done /\ \A q \in ObjectId \ {o} : objects'[q] = objects[q]
      /\ IssuedIds' = IssuedIds /\ IssuedIds \subseteq ObjectId
  BY DEF TypeOK, IssuedIds
<1>2. \A q \in IssuedIds :
       /\ objects'[q].accountId = objects[q].accountId
       /\ usage'[objects[q].accountId] = usage[objects[q].accountId] =>
            Portion(objects'[q]) = Portion(objects[q])
  BY <1>1
<1> QED
  BY <1>1, <1>2 DEF RowsMove

LEMMA RequestMovesRows ==
  ASSUME TypeOK, IssuedInOrder, NEW caller \in Address, NEW p \in Requests,
         NEW signer \in Address \cup {Zero}, RequestUpload(caller, p, signer)
  PROVE  RowsMove
<1> DEFINE n == nextObjectId
           a == p.accountId
<1>1. /\ n \in ObjectId /\ a \in Account
      /\ objects'[n].accountId = a
      /\ \A q \in ObjectId \ {n} : objects'[q] = objects[q]
  <2>1. RequestedObject(p).accountId = a
    BY DEF RequestedObject
  <2> QED
    BY <2>1, RequestedTerms
<1>2. /\ receipts' = receipts /\ nextObjectId' = n + 1
      /\ accountIds' = AddKnown(accountIds, a)
      /\ usage'[a] = ReserveUsage(usage[a], p)
  BY <1>1 DEF RequestUpload, RequestAccepted, IndexRequestedObject, TypeOK
<1>3. usage'[a] # usage[a]
  <2>1. usage[a] \in AccountUsage
    BY <1>1 DEF TypeOK
  <2>2. usage'[a].totalRequestedUploads = usage[a].totalRequestedUploads + 1
    BY <1>2, <2>1, ReservedCounters
  <2> QED
    BY <2>1, <2>2, UsageFields
<1>4. IssuedIds' \ IssuedIds = {n} /\ n \notin IssuedIds /\ IssuedIds \subseteq ObjectId
  BY <1>1, <1>2, MaxObjectsAssumption DEF IssuedIds, ObjectId
<1>5. \A i \in 1..Len(accountIds') : i > Len(accountIds) => accountIds'[i] = a
  <2>1. accountIds \in Seq(Account)
    BY DEF TypeOK
  <2> QED
    BY <1>2, <2>1 DEF AddKnown
<1> HIDE DEF n, a
<1>6. \A q \in IssuedIds : objects'[q] = objects[q]
  BY <1>1, <1>4
<1> QED
  BY <1>1, <1>2, <1>3, <1>4, <1>5, <1>6 DEF RowsMove

LEMMA StartMovesRows ==
  ASSUME TypeOK, NEW o \in ObjectId, NEW c \in Address, StartUpload(c, o)
  PROVE  RowsMove
<1> DEFINE done == [objects[o] EXCEPT !.status = "Uploading", !.coordinator = c]
<1>1. objects[o] \in StorageObject /\ objects[o].status = "Requested"
  BY DEF TypeOK, StartUpload, StartAccepted
<1>2. /\ done.status = "Uploading" /\ done.accountId = objects[o].accountId
      /\ done.size = objects[o].size
      /\ done.requestedCopies = objects[o].requestedCopies
      /\ done.reservedCost = objects[o].reservedCost
  BY <1>1 DEF StorageObject
<1>3. /\ objects' = [objects EXCEPT ![o] = done]
      /\ UNCHANGED <<receipts, usage, nextObjectId, accountIds>>
  BY DEF StartUpload, StartAccepted, requestVars, TypeOK
<1> HIDE DEF done
<1>4. Portion(done) = Portion(objects[o])
  BY <1>1, <1>2 DEF Portion, Stored, Live
<1> QED
  BY <1>1, <1>2, <1>3, <1>4, OneRowMoves

LEMMA FinalizeMovesRows ==
  ASSUME TypeOK, IssuedInOrder, NEW o \in ObjectId, NEW c \in Address,
         NEW r \in Receipts, FinalizeUpload(c, o, r)
  PROVE  RowsMove
<1> DEFINE obj  == objects[o]
           a    == obj.accountId
           done == FinalizedObject(obj, c, r)
<1>1. /\ obj \in StorageObject /\ r \in UploadReceipt /\ o \in IssuedIds
      /\ Live(obj.status) /\ a \in Account /\ usage[a] \in AccountUsage
  <2>1. obj \in StorageObject /\ r \in UploadReceipt
    BY ConstantsAssumption DEF TypeOK
  <2>2. o \in LiveIds
    BY LiveIsMutable DEF FinalizeUpload, ReceiptAccepted
  <2>3. o \in IssuedIds
    BY <2>2, LiveIsIssued
  <2> QED
    BY <2>1, <2>2, <2>3 DEF LiveIds, IssuedInOrder, IssuedIds, TypeOK
<1>2. /\ done \in StorageObject /\ done.accountId = a
      /\ done.status = r.finalizationStatus /\ ~Live(done.status)
  <2>1. done \in StorageObject
    BY <1>1, ObjectUpdateType DEF FinalizedObject, UploadReceipt, UploadStatus
  <2>2. done.accountId = a /\ done.status = r.finalizationStatus
    BY <1>1 DEF FinalizedObject, StorageObject
  <2> QED
    BY <1>1, <2>1, <2>2 DEF UploadReceipt, FinalizationStatus, Live
<1>3. /\ objects' = [objects EXCEPT ![o] = done]
      /\ \A q \in ObjectId \ {o} : receipts'[q] = receipts[q]
      /\ UNCHANGED <<nextObjectId, accountIds>>
      /\ Releasable(usage[a], obj)
      /\ usage'[a] = OutcomeUsage(ChargeUsage(ReleaseUsage(usage[a], obj),
                                              r.actualCost), done)
  BY <1>1 DEF FinalizeUpload, ReceiptAccepted, requestVars, TypeOK
<1> HIDE DEF done
<1>4. usage'[a] # usage[a]
  <2>1. r.actualCost \in Nat
    BY <1>1 DEF UploadReceipt
  <2>2. \/ usage'[a].totalFinalizedUploads = usage[a].totalFinalizedUploads + 1
        \/ usage'[a].totalFailedUploads = usage[a].totalFailedUploads + 1
    BY <1>1, <1>2, <1>3, <2>1, SettledCounters
  <2> QED
    BY <1>1, <2>2, UsageFields
<1>5. done # objects[o]
  BY <1>1, <1>2
<1> QED
  BY <1>1, <1>2, <1>3, <1>4, <1>5, OneRowMoves

LEMMA FailMovesRows ==
  ASSUME TypeOK, IssuedInOrder, NEW o \in ObjectId, NEW c \in Address,
         NEW charge \in FailureCharges, FailUpload(c, o, charge)
  PROVE  RowsMove
<1> DEFINE obj  == objects[o]
           a    == obj.accountId
           done == [obj EXCEPT !.status = "Failed", !.coordinator = c,
                               !.actualCost = charge]
<1>1. /\ obj \in StorageObject /\ charge \in Nat /\ o \in IssuedIds
      /\ Live(obj.status) /\ a \in Account /\ usage[a] \in AccountUsage
  <2>1. obj \in StorageObject /\ charge \in Nat
    BY ConstantsAssumption DEF TypeOK
  <2>2. o \in LiveIds
    BY LiveIsMutable DEF FailUpload
  <2>3. o \in IssuedIds
    BY <2>2, LiveIsIssued
  <2> QED
    BY <2>1, <2>2, <2>3 DEF LiveIds, IssuedInOrder, IssuedIds, TypeOK
<1>2. /\ done \in StorageObject /\ done.accountId = a /\ done.status = "Failed"
  <2>1. done \in StorageObject
    BY <1>1, ObjectUpdateType DEF UploadStatus, FinalizationStatus
  <2> QED
    BY <1>1, <2>1 DEF StorageObject
<1>3. /\ objects' = [objects EXCEPT ![o] = done]
      /\ receipts' = receipts
      /\ UNCHANGED <<nextObjectId, accountIds>>
      /\ Releasable(usage[a], obj)
      /\ usage'[a] = OutcomeUsage(ChargeUsage(ReleaseUsage(usage[a], obj), charge), done)
  BY <1>1 DEF FailUpload, requestVars, TypeOK
<1> HIDE DEF done
<1>4. usage'[a] # usage[a]
  <2>1. usage'[a].totalFailedUploads = usage[a].totalFailedUploads + 1
    BY <1>1, <1>2, <1>3, SettledCounters DEF Stored
  <2> QED
    BY <1>1, <2>1, UsageFields
<1>5. done # objects[o]
  BY <1>1, <1>2 DEF Live
<1> QED
  BY <1>1, <1>2, <1>3, <1>4, <1>5, OneRowMoves

LEMMA CloseMovesRows ==
  ASSUME TypeOK, IssuedInOrder, TermsInv, NEW o \in ObjectId, MutableObject(o),
         NEW status \in {"Cancelled", "Expired"}, CloseUnsettled(o, status)
  PROVE  RowsMove
<1> DEFINE obj  == objects[o]
           a    == obj.accountId
           done == [obj EXCEPT !.status = status]
<1>1. /\ obj \in StorageObject /\ o \in IssuedIds /\ Terms(obj)
      /\ Live(obj.status) /\ a \in Account /\ usage[a] \in AccountUsage
  <2>1. obj \in StorageObject /\ Terms(obj)
    BY DEF TypeOK, TermsInv
  <2>2. o \in LiveIds
    BY LiveIsMutable
  <2>3. o \in IssuedIds
    BY <2>2, LiveIsIssued
  <2> QED
    BY <2>1, <2>2, <2>3 DEF LiveIds, IssuedInOrder, IssuedIds, TypeOK
<1>2. done.accountId = a /\ done.status = status
  BY <1>1 DEF StorageObject
<1>3. /\ objects' = [objects EXCEPT ![o] = done]
      /\ receipts' = receipts
      /\ UNCHANGED <<nextObjectId, accountIds>>
      /\ usage'[a] = ReleaseUsage(usage[a], obj)
  BY <1>1 DEF CloseUnsettled, requestVars, TypeOK
<1> HIDE DEF done
<1>4. usage'[a] # usage[a]
  <2>1. RequestedBytes(obj) \in Nat /\ RequestedBytes(obj) # 0
    <3>1. obj.size \in Nat \ {0} /\ obj.requestedCopies \in Nat \ {0}
      BY <1>1 DEF StorageObject, Terms
    <3> SUFFICES ASSUME NEW x \in Nat \ {0}, NEW y \in Nat \ {0}
                 PROVE  x * y \in Nat /\ x * y # 0
      BY <3>1 DEF RequestedBytes
    <3> QED
      OBVIOUS
  <2>2. usage'[a].pendingBytes = usage[a].pendingBytes - RequestedBytes(obj)
    BY <1>1, <1>3, ReleasedCounters
  <2> QED
    BY <1>1, <2>1, <2>2, UsageFields
<1>5. done # objects[o]
  BY <1>1, <1>2 DEF Live
<1> QED
  BY <1>1, <1>2, <1>3, <1>4, <1>5, OneRowMoves

LEMMA RegistryMovesRows ==
  ASSUME TypeOK, IssuedInOrder, TermsInv, [Next]_vars
  PROVE  RowsMove
<1>1. ASSUME UNCHANGED uploadVars PROVE RowsMove
  BY <1>1, UnmovedRows DEF uploadVars, requestVars
<1>2. CASE UNCHANGED vars
  BY <1>1, <1>2 DEF vars
<1> QED
  BY <1>1, <1>2, RequestMovesRows, StartMovesRows, FinalizeMovesRows, FailMovesRows,
     CloseMovesRows
  DEF Next, Administration, CancelUpload, ExpireUpload, Tick, TransferOwnership,
      SetPolicy, SetCoordinator, SetRelayer, RecordDataset, DatasetAccepted

-----------------------------------------------------------------------------
(* What a model shows of the registry                                      *)
(*                                                                         *)
(* w, the world, is what the rows that were read are compared with: the    *)
(* registry now, and the histories of what moved since the request began.  *)

World ==
  [objects |-> objects, receipts |-> receipts, usage |-> usage,
   policies |-> coordinatorPolicies, issued |-> IssuedIds,
   accounts |-> accountIds, coordinators |-> coordinatorAddresses,
   due |-> dueIds, lengths |-> dueLengths, moved |-> moved]

ObjectRow(obj, rec) ==
  Projection!Patched(obj, [receiptHash |-> rec.payer # Zero])

\* Some upload with its hash flag.
IsRow(row) ==
  \E obj \in StorageObject, hashed \in BOOLEAN :
    row = Projection!Patched(obj, [receiptHash |-> hashed])

\* A row that was read some time ago belongs to the account it names, and
\* adds to that account what the upload adds now, unless the account moved;
\* it is the upload's row still, unless the upload moved.
RowTrue(row, o, w) ==
  /\ o \in ObjectId /\ IsRow(row)
  /\ row.status # "None" =>
       /\ o \in w.issued /\ row.accountId = w.objects[o].accountId
       /\ row.accountId \notin w.moved.accounts =>
            Portion(row) = Portion(w.objects[o])
  /\ o \notin w.moved.objects => row = ObjectRow(w.objects[o], w.receipts[o])

CopiesTrue(copies, o, w) ==
  o \notin w.moved.objects => copies = [i \in 1..w.receipts[o].copies |-> CopyDataset[i]]

UsageTrue(u, a, w) ==
  a \in Account /\ (a \notin w.moved.accounts => u = w.usage[a])

ModelTrue(m, w) ==
  /\ \A o \in DOMAIN m.objects : RowTrue(m.objects[o], o, w)
  /\ \A o \in DOMAIN m.copyReceipts :
       o \in ObjectId /\ CopiesTrue(m.copyReceipts[o], o, w)
  /\ \A o \in DOMAIN m.receiptPayers :
       o \in ObjectId /\ (o \notin w.moved.objects =>
                            m.receiptPayers[o] = w.receipts[o].payer)
  /\ \A a \in DOMAIN m.usage : UsageTrue(m.usage[a], a, w)
  /\ \A c \in DOMAIN m.coordinators :
       c \in Address /\ (~w.moved.any => m.coordinators[c] = w.policies[c])

OfObject == {"object", "copies", "payer"}

\* What is still to be read, of which surface, and that a row comes with its
\* receipts; of an upload that does not exist there is a row only until the
\* object asked for turns out to be missing.
Pending(r, m, w) ==
  /\ r.phase = "list" \/ r.surface = "done" => r.todo = {}
  /\ \A t \in r.todo :
       /\ t[1] \in OfObject =>
            \/ r.surface = "objects" /\ t[2] \in w.issued
            \/ r.surface = "objectId" /\ t[2] = r.objectId
       /\ t[1] = "accounts" => t[2] \in Account
       /\ t[1] = "coordinators" => t[2] \in Address
  /\ \A o \in ObjectId : o \in DOMAIN m.objects \/ <<"object", o>> \in r.todo =>
       /\ o \in DOMAIN m.copyReceipts \/ <<"copies", o>> \in r.todo
       /\ o \in DOMAIN m.receiptPayers \/ <<"payer", o>> \in r.todo
  /\ \A o \in DOMAIN m.objects :
       /\ r.route = "object" => o = r.objectId
       /\ m.objects[o].status = "None" => r.surface = "objectId" /\ o = r.objectId

\* What was not owed to the request from its start moved with its account.
History(terminal, w) ==
  /\ terminal => \A o \in w.issued \ w.due :
                   w.objects[o].accountId \in w.moved.accounts
  /\ \A i \in 1..Len(w.accounts) :
       i > w.lengths["accounts"] => w.accounts[i] \in w.moved.accounts
  /\ ~w.moved.any => /\ w.lengths["coordinators"] = Len(w.coordinators)
                     /\ w.moved.objects = {} /\ w.moved.accounts = {}

ReadsOK(r, m, w) ==
  /\ IsModel(m)
  /\ r.surface = "idle" => m = Projection!CreateRegistryReadModel /\ w.moved = Still
  /\ IsReading(r) \/ r.surface = "done" =>
       ModelTrue(m, w) /\ Pending(r, m, w) /\ History(r.includeTerminal, w)

ReadsInv == ReadsOK(reader, readModel, World)

-----------------------------------------------------------------------------
(* Rows *)

RowFields == {"accountId", "status", "size", "requestedCopies", "completedCopies",
              "reservedCost", "coordinator"}

\* A row has the fields of its upload.
LEMMA RowHasFields ==
  ASSUME NEW obj \in StorageObject, NEW hashed,
         NEW row, row = Projection!Patched(obj, [receiptHash |-> hashed])
  PROVE  /\ RowFields \cup {"receiptHash"} \subseteq DOMAIN row
         /\ \A f \in RowFields : row[f] = obj[f]
         /\ row.receiptHash = hashed
<1>1. DOMAIN obj = {"accountId", "user", "idempotencyKey", "size", "requestedCopies",
                    "completedCopies", "maxCost", "reservedCost", "actualCost",
                    "status", "coordinator", "requestExpiresAt"}
  BY DEF StorageObject
<1> QED
  BY <1>1 DEF Projection!Patched, RowFields

LEMMA RowPortion ==
  ASSUME NEW obj \in StorageObject, NEW hashed,
         NEW row, row = Projection!Patched(obj, [receiptHash |-> hashed])
  PROVE  Portion(row) = Portion(obj)
<1>1. /\ row.status = obj.status /\ row.size = obj.size
      /\ row.requestedCopies = obj.requestedCopies
      /\ row.completedCopies = obj.completedCopies
      /\ row.reservedCost = obj.reservedCost
  BY RowHasFields DEF RowFields
<1> QED
  BY <1>1 DEF Portion

\* A row that is read now is true.
LEMMA RowReadTrue ==
  ASSUME TypeOK, IssuedInOrder, NEW o \in ObjectId, NEW w, w = World
  PROVE  /\ RowTrue(GetStorageObject(o), o, w)
         /\ o \in IssuedIds => GetStorageObject(o).status # "None"
<1> DEFINE row == GetStorageObject(o)
<1>1. objects[o] \in StorageObject /\ (receipts[o].payer # Zero) \in BOOLEAN
  BY DEF TypeOK
<1>2. row = Projection!Patched(objects[o], [receiptHash |-> receipts[o].payer # Zero])
  BY DEF GetStorageObject
<1>3. row.status = objects[o].status /\ row.accountId = objects[o].accountId
  BY <1>1, <1>2, RowHasFields DEF RowFields
<1>4. Portion(row) = Portion(objects[o])
  BY <1>1, <1>2, RowPortion
<1>5. IsRow(row) /\ row = ObjectRow(objects[o], receipts[o])
  BY <1>1, <1>2 DEF IsRow, ObjectRow
<1> HIDE DEF row
<1>6. objects[o].status # "None" <=> o \in IssuedIds
  BY DEF IssuedInOrder, IssuedIds, NoObject
<1>7. w.objects = objects /\ w.receipts = receipts /\ w.issued = IssuedIds
  BY DEF World
<1> QED
  BY <1>3, <1>4, <1>5, <1>6, <1>7 DEF RowTrue, row

-----------------------------------------------------------------------------
(* The registry moves *)

WorldMoves(w, h) ==
  /\ h.moved.any = TRUE
  /\ \A o \in ObjectId : o \notin h.moved.objects =>
       /\ o \notin w.moved.objects
       /\ h.objects[o] = w.objects[o] /\ h.receipts[o] = w.receipts[o]
  /\ w.moved.accounts \subseteq h.moved.accounts
  /\ \A a \in Account : a \notin h.moved.accounts => h.usage[a] = w.usage[a]
  /\ w.issued \subseteq h.issued /\ h.issued \subseteq ObjectId
  /\ \A o \in w.issued :
       /\ h.objects[o].accountId = w.objects[o].accountId
       /\ w.objects[o].accountId \notin h.moved.accounts =>
            Portion(h.objects[o]) = Portion(w.objects[o])
  /\ \A o \in h.issued \ w.issued : h.objects[o].accountId \in h.moved.accounts
  /\ h.lengths = w.lengths
  /\ \A i \in 1..Len(h.accounts) :
       \/ h.accounts[i] \in h.moved.accounts
       \/ i \in 1..Len(w.accounts) /\ h.accounts[i] = w.accounts[i]

LEMMA WorldFields ==
  /\ World.objects = objects /\ World.receipts = receipts /\ World.usage = usage
  /\ World.policies = coordinatorPolicies /\ World.issued = IssuedIds
  /\ World.accounts = accountIds /\ World.coordinators = coordinatorAddresses
  /\ World.due = dueIds /\ World.lengths = dueLengths /\ World.moved = moved
BY DEF World

\* What the registry does between two reads.
LEMMA RegistryMovesWorld ==
  ASSUME TypeOK, TypeOK', IssuedInOrder, IssuedInOrder', TermsInv, RegistryMoves, Reading
  PROVE  WorldMoves(World, World')
<1>1. /\ [Next]_vars /\ dueLengths' = dueLengths
      /\ moved' = [any |-> TRUE,
           objects |-> moved.objects \cup {o \in ObjectId : objects'[o] # objects[o]},
           accounts |-> moved.accounts \cup {a \in Account : usage'[a] # usage[a]}]
  BY DEF RegistryMoves
<1>2. RowsMove
  BY <1>1, RegistryMovesRows
<1>3. /\ World'.objects = objects' /\ World'.receipts = receipts' /\ World'.usage = usage'
      /\ World'.policies = coordinatorPolicies' /\ World'.issued = IssuedIds'
      /\ World'.accounts = accountIds' /\ World'.coordinators = coordinatorAddresses'
      /\ World'.due = dueIds' /\ World'.lengths = dueLengths' /\ World'.moved = moved'
  BY DEF World
<1>4. /\ moved'.any = TRUE /\ moved.accounts \subseteq moved'.accounts
      /\ \A o \in ObjectId : o \notin moved'.objects =>
           o \notin moved.objects /\ objects'[o] = objects[o]
      /\ \A a \in Account : a \in moved'.accounts \/ usage'[a] = usage[a]
  BY <1>1
<1>5. IssuedIds \subseteq IssuedIds' /\ IssuedIds' \subseteq ObjectId
  BY <1>1, IdsStayIssued DEF IssuedIds
<1>6. \A o \in IssuedIds : objects[o].accountId \in Account
  BY DEF IssuedInOrder, IssuedIds
<1>7. \A o \in IssuedIds' : objects'[o].accountId \in Account
  BY DEF IssuedInOrder, IssuedIds
<1>8. accountIds \in Seq(Account) /\ accountIds' \in Seq(Account)
  BY DEF TypeOK
<1>9. \A i \in 1..Len(accountIds') :
        \/ accountIds'[i] \in moved'.accounts
        \/ i \in 1..Len(accountIds) /\ accountIds'[i] = accountIds[i]
  <2> SUFFICES ASSUME NEW i \in 1..Len(accountIds')
               PROVE  \/ accountIds'[i] \in moved'.accounts
                      \/ i \in 1..Len(accountIds) /\ accountIds'[i] = accountIds[i]
    OBVIOUS
  <2>1. CASE i > Len(accountIds)
    <3>1. accountIds'[i] \in Account
      BY <1>8
    <3>2. usage'[accountIds'[i]] # usage[accountIds'[i]]
      BY <1>2, <2>1 DEF RowsMove
    <3> QED
      BY <1>4, <3>1, <3>2
  <2>2. CASE ~(i > Len(accountIds))
    <3>1. Extends(accountIds', accountIds)
      BY <1>1, ListsExtend
    <3>2. i \in 1..Len(accountIds)
      BY <1>8, <2>2
    <3> QED
      BY <3>1, <3>2 DEF Extends
  <2> QED
    BY <2>1, <2>2
<1>10. \A o \in ObjectId : o \notin moved'.objects => receipts'[o] = receipts[o]
  BY <1>2, <1>4 DEF RowsMove
<1>11. \A o \in IssuedIds :
         /\ objects'[o].accountId = objects[o].accountId
         /\ objects[o].accountId \notin moved'.accounts =>
              Portion(objects'[o]) = Portion(objects[o])
  BY <1>2, <1>4, <1>6 DEF RowsMove
<1>12. \A o \in IssuedIds' \ IssuedIds : objects'[o].accountId \in moved'.accounts
  BY <1>2, <1>4, <1>7 DEF RowsMove
<1> QED
  BY <1>1, <1>3, <1>4, <1>5, <1>9, <1>10, <1>11, <1>12, WorldFields DEF WorldMoves

\* What was read stays true.
LEMMA ModelBearsMoves ==
  ASSUME NEW m, NEW w, NEW h, ModelTrue(m, w), WorldMoves(w, h)
  PROVE  ModelTrue(m, h)
<1>1. ASSUME NEW o \in DOMAIN m.objects PROVE RowTrue(m.objects[o], o, h)
  <2> SUFFICES ASSUME NEW row, RowTrue(row, o, w) PROVE RowTrue(row, o, h)
    BY DEF ModelTrue
  <2>1. o \in ObjectId /\ IsRow(row)
    BY DEF RowTrue
  <2>2. ASSUME row.status # "None"
        PROVE  /\ o \in h.issued /\ row.accountId = h.objects[o].accountId
               /\ row.accountId \notin h.moved.accounts =>
                    Portion(row) = Portion(h.objects[o])
    <3>1. /\ o \in w.issued /\ row.accountId = w.objects[o].accountId
          /\ row.accountId \notin w.moved.accounts =>
               Portion(row) = Portion(w.objects[o])
      BY <2>2 DEF RowTrue
    <3> QED
      BY <3>1 DEF WorldMoves
  <2>3. o \notin h.moved.objects => row = ObjectRow(h.objects[o], h.receipts[o])
    BY <2>1 DEF RowTrue, WorldMoves
  <2> QED
    BY <2>1, <2>2, <2>3 DEF RowTrue
<1>2. ASSUME NEW o \in DOMAIN m.copyReceipts
      PROVE  o \in ObjectId /\ CopiesTrue(m.copyReceipts[o], o, h)
  <2>1. o \in ObjectId /\ CopiesTrue(m.copyReceipts[o], o, w)
    BY DEF ModelTrue
  <2>2. o \notin h.moved.objects => o \notin w.moved.objects /\ h.receipts[o] = w.receipts[o]
    BY <2>1 DEF WorldMoves
  <2> QED
    BY <2>1, <2>2 DEF CopiesTrue
<1>3. \A o \in DOMAIN m.receiptPayers :
        o \in ObjectId /\ (o \notin h.moved.objects =>
                             m.receiptPayers[o] = h.receipts[o].payer)
  BY DEF ModelTrue, WorldMoves
<1>4. \A a \in DOMAIN m.usage : UsageTrue(m.usage[a], a, h)
  BY DEF ModelTrue, UsageTrue, WorldMoves
<1>5. \A c \in DOMAIN m.coordinators : c \in Address
  BY DEF ModelTrue
<1> QED
  BY <1>1, <1>2, <1>3, <1>4, <1>5 DEF ModelTrue, WorldMoves

LEMMA HistoryBearsMoves ==
  ASSUME NEW w, NEW h, NEW terminal, History(terminal, w), WorldMoves(w, h),
         terminal => h.due = w.due
  PROVE  History(terminal, h)
<1>1. ASSUME terminal, NEW o \in h.issued \ h.due
      PROVE  h.objects[o].accountId \in h.moved.accounts
  <2>1. CASE o \in w.issued
    BY <1>1, <2>1 DEF History, WorldMoves
  <2>2. CASE o \notin w.issued
    BY <1>1, <2>2 DEF WorldMoves
  <2> QED
    BY <2>1, <2>2
<1>2. ASSUME NEW i \in 1..Len(h.accounts), i > h.lengths["accounts"]
      PROVE  h.accounts[i] \in h.moved.accounts
  BY <1>2 DEF History, WorldMoves
<1> QED
  BY <1>1, <1>2 DEF History, WorldMoves

-----------------------------------------------------------------------------
(* One page *)

\* What the end of a page leaves alone.
LEMMA EndOfPageFrame ==
  ASSUME NEW r \in Readers, r.surface # "idle", NEW q, q = EndOfPage(r)
  PROVE  /\ q.todo = r.todo /\ q.route = r.route /\ q.objectId = r.objectId
         /\ q.includeTerminal = r.includeTerminal /\ q.surface # "idle"
<1>1. CASE q = NextSurface(r) /\ r.rest = <<>>
  <2>1. q = [r EXCEPT !.surface = "done"]
    BY <1>1 DEF NextSurface
  <2> QED
    BY <2>1 DEF Readers
<1>2. CASE q = NextSurface(r) /\ r.rest # <<>>
  <2>1. q = [r EXCEPT !.surface = Head(r.rest), !.rest = Tail(r.rest),
                      !.phase = "list", !.cursor = 0, !.pages = 0, !.ids = <<>>]
    BY <1>2 DEF NextSurface
  <2>2. r.rest \in Seq(Surfaces)
    BY DEF Readers
  <2>3. Head(r.rest) \in Surfaces
    BY <1>2, <2>2, HeadAndTail
  <2>4. PICK s, t : s = Head(r.rest) /\ t = Tail(r.rest)
    OBVIOUS
  <2>5. q = [r EXCEPT !.surface = s, !.rest = t,
                      !.phase = "list", !.cursor = 0, !.pages = 0, !.ids = <<>>]
    BY <2>1, <2>4
  <2>6. /\ q.todo = r.todo /\ q.route = r.route /\ q.objectId = r.objectId
        /\ q.includeTerminal = r.includeTerminal /\ q.surface = s
    BY <2>5 DEF Readers
  <2> QED
    BY <2>3, <2>4, <2>6 DEF Surfaces, OffsetSurfaces
<1>3. CASE \E why : q = Fail(r, why)
  BY <1>3 DEF Fail, Readers
<1>4. CASE \E c, n : q = [r EXCEPT !.phase = "list", !.cursor = c, !.pages = n, !.ids = <<>>]
  BY <1>4 DEF Readers
<1>5. \/ q = NextSurface(r) \/ \E why : q = Fail(r, why)
      \/ \E c, n : q = [r EXCEPT !.phase = "list", !.cursor = c, !.pages = n, !.ids = <<>>]
  BY DEF EndOfPage
<1> QED
  BY <1>1, <1>2, <1>3, <1>4, <1>5

\* Between two pages nothing is pending, and the object asked for exists.
LEMMA PendingBetweenPages ==
  ASSUME NEW r, NEW m, NEW w, Pending(r, m, w), r.todo = {},
         \A o \in DOMAIN m.objects : m.objects[o].status # "None",
         NEW q, q.todo = {}, q.route = r.route, q.objectId = r.objectId
  PROVE  Pending(q, m, w)
BY DEF Pending

\* What a page asks for.
ReadsOf(surface, ids) == UNION {DetailReads(surface, ids[i]) : i \in DOMAIN ids}

LEMMA PageAsksFor ==
  ASSUME NEW surface \in Surfaces, NEW ids \in Seq(Id),
         NEW reads, reads = ReadsOf(surface, ids)
  PROVE  /\ \A t \in reads :
              /\ \E i \in DOMAIN ids : t[2] = ids[i]
              /\ t[1] \in OfObject => surface \notin OffsetSurfaces
              /\ t[1] \notin OfObject => t[1] = surface
         /\ \A o : <<"object", o>> \in reads =>
              <<"copies", o>> \in reads /\ <<"payer", o>> \in reads
<1>1. ASSUME NEW t \in reads
      PROVE  \E i \in DOMAIN ids : t \in DetailReads(surface, ids[i])
  BY <1>1 DEF ReadsOf
<1>2. ASSUME NEW t, NEW x, t \in DetailReads(surface, x)
      PROVE  /\ t[2] = x
             /\ t[1] \in OfObject => surface \notin OffsetSurfaces
             /\ t[1] \notin OfObject => t[1] = surface
  BY <1>2 DEF DetailReads, OfObject, OffsetSurfaces
<1>3. \A x, o : <<"object", o>> \in DetailReads(surface, x) =>
        /\ <<"copies", o>> \in DetailReads(surface, x)
        /\ <<"payer", o>> \in DetailReads(surface, x)
  BY DEF DetailReads, OffsetSurfaces
<1>4. ASSUME NEW o, <<"object", o>> \in reads
      PROVE  <<"copies", o>> \in reads /\ <<"payer", o>> \in reads
  <2>1. PICK i \in DOMAIN ids : <<"object", o>> \in DetailReads(surface, ids[i])
    BY <1>1, <1>4
  <2> QED
    BY <1>3, <2>1 DEF ReadsOf
<1>5. ASSUME NEW t \in reads
      PROVE  /\ \E i \in DOMAIN ids : t[2] = ids[i]
             /\ t[1] \in OfObject => surface \notin OffsetSurfaces
             /\ t[1] \notin OfObject => t[1] = surface
  <2>1. PICK i \in DOMAIN ids : t \in DetailReads(surface, ids[i])
    BY <1>1
  <2> QED
    BY <1>2, <2>1
<1> QED
  BY <1>4, <1>5

\* A page of uploads, or of entries of an enumeration list.
PageOK(surface, objectId, ids) ==
  CASE surface = "objectId"     -> ids = <<objectId>>
    [] surface = "objects"      -> \A i \in DOMAIN ids : ids[i] \in IssuedIds
    [] surface = "accounts"     -> \A i \in DOMAIN ids : ids[i] \in Account
    [] surface = "coordinators" -> \A i \in DOMAIN ids : ids[i] \in Address
    [] OTHER                    -> TRUE

LEMMA WithPagePending ==
  ASSUME NEW r \in Readers, IsReading(r), r.phase = "list",
         NEW m, NEW w, w = World, Pending(r, m, w),
         NEW ids \in Seq(Id), PageOK(r.surface, r.objectId, ids),
         NEW q, q = WithPage(r, ids)
  PROVE  /\ Pending(q, m, w) /\ q.includeTerminal = r.includeTerminal
         /\ q.surface # "idle"
<1>0. PICK reads : reads = ReadsOf(r.surface, ids)
  OBVIOUS
<1> DEFINE listed == [r EXCEPT !.ids = ids, !.phase = "details", !.todo = reads]
<1>1. r.surface \in Surfaces
  BY DEF IsReading
<1>2. /\ \A t \in reads :
           /\ \E i \in DOMAIN ids : t[2] = ids[i]
           /\ t[1] \in OfObject => r.surface \notin OffsetSurfaces
           /\ t[1] \notin OfObject => t[1] = r.surface
      /\ \A o : <<"object", o>> \in reads =>
           <<"copies", o>> \in reads /\ <<"payer", o>> \in reads
  BY <1>0, <1>1, PageAsksFor
<1>3. q = IF ids = <<>> THEN EndOfPage(listed) ELSE listed
  BY <1>0 DEF WithPage, ReadsOf
<1>4. ids = <<>> => reads = {}
  BY <1>0 DEF ReadsOf
<1>5. reads \subseteq DetailKinds \X Id
  <2>1. ASSUME NEW i \in DOMAIN ids, NEW t \in DetailReads(r.surface, ids[i])
        PROVE  t \in DetailKinds \X Id
    <3>1. ids[i] \in Id
      OBVIOUS
    <3> QED
      BY <1>1, <2>1, <3>1 DEF DetailReads, DetailKinds
  <2> QED
    BY <1>0, <2>1 DEF ReadsOf
<1>6. /\ listed \in Readers /\ listed.todo = reads /\ listed.phase = "details"
      /\ listed.surface = r.surface /\ listed.rest = r.rest
      /\ listed.route = r.route /\ listed.objectId = r.objectId
      /\ listed.includeTerminal = r.includeTerminal
  BY <1>5 DEF Readers
<1> HIDE DEF listed
<1>7. r.todo = {} /\ r.surface # "done" /\ r.surface # "idle"
  BY <1>1 DEF Pending, Surfaces, OffsetSurfaces
<1>8. Pending(listed, m, w)
  <2>1. ASSUME NEW t \in reads
        PROVE  /\ t[1] \in OfObject =>
                    \/ r.surface = "objects" /\ t[2] \in w.issued
                    \/ r.surface = "objectId" /\ t[2] = r.objectId
               /\ t[1] = "accounts" => t[2] \in Account
               /\ t[1] = "coordinators" => t[2] \in Address
    <3>1. PICK i \in DOMAIN ids : t[2] = ids[i]
      BY <1>2
    <3>2. t[1] \in OfObject => r.surface \in {"objects", "objectId"}
      BY <1>1, <1>2 DEF Surfaces
    <3>3. t[1] \in {"accounts", "coordinators"} => t[1] = r.surface
      BY <1>2 DEF OfObject
    <3>4. r.surface = "objectId" => ids[i] = r.objectId
      BY DEF PageOK
    <3> QED
      BY <3>1, <3>2, <3>3, <3>4, WorldFields DEF PageOK
  <2>2. \A o \in ObjectId : o \in DOMAIN m.objects =>
          o \in DOMAIN m.copyReceipts /\ o \in DOMAIN m.receiptPayers
    BY <1>7 DEF Pending
  <2>3. \A o \in DOMAIN m.objects :
          /\ r.route = "object" => o = r.objectId
          /\ m.objects[o].status = "None" => r.surface = "objectId" /\ o = r.objectId
    BY DEF Pending
  <2> QED
    BY <1>2, <1>6, <1>7, <2>1, <2>2, <2>3 DEF Pending
<1>9. CASE ids = <<>>
  <2>1. r.surface # "objectId"
    <3> SUFFICES ASSUME r.surface = "objectId" PROVE FALSE
      OBVIOUS
    <3>1. ids = <<r.objectId>>
      BY DEF PageOK
    <3> QED
      BY <1>9, <3>1
  <2>2. \A o \in DOMAIN m.objects : m.objects[o].status # "None"
    BY <2>1 DEF Pending
  <2>3. /\ q.todo = listed.todo /\ q.route = listed.route
        /\ q.objectId = listed.objectId /\ q.includeTerminal = listed.includeTerminal
        /\ q.surface # "idle"
    BY <1>3, <1>6, <1>7, <1>9, EndOfPageFrame
  <2>4. Pending(q, m, w)
    BY <1>4, <1>6, <1>8, <1>9, <2>2, <2>3, PendingBetweenPages
  <2> QED
    BY <1>6, <1>7, <2>3, <2>4
<1>10. CASE ids # <<>>
  BY <1>3, <1>6, <1>7, <1>8, <1>10
<1> QED
  BY <1>9, <1>10

LEMMA ReadPageTrue ==
  ASSUME TypeOK, IndexMatchesStatus, PagesExact, OnlyStaleCursorsRevert,
         TraversalInv, ReadsInv, ReadPage, World' = World
  PROVE  ReadsInv'
<1> SUFFICES ASSUME NEW r, r = reader, NEW m, m = readModel, NEW w, w = World
             PROVE  ReadsOK(reader', m, w)
  BY DEF ReadsInv, ReadPage
<1>1. /\ TraversalOK(r, m, Ground) /\ r \in Readers /\ GroundOK(r, Ground)
      /\ SurfacesOK(r) /\ r.phase = "list" /\ ReadsOK(r, m, w)
  BY DEF TraversalInv, TraversalOK, ReadPage, ReadsInv
<1>2. IsReading(r)
  BY <1>1 DEF ReadPage, Reading, Over, IsReading, Readers
<1>3. IsModel(m) /\ ModelTrue(m, w) /\ Pending(r, m, w) /\ History(r.includeTerminal, w)
  BY <1>1, <1>2 DEF ReadsOK
<1>4. ASSUME NEW q, Pending(q, m, w), q.includeTerminal = r.includeTerminal,
             q.surface # "idle"
      PROVE  ReadsOK(q, m, w)
  BY <1>3, <1>4 DEF ReadsOK
<1>5. ASSUME NEW ids \in Seq(Id), PageOK(r.surface, r.objectId, ids),
             reader' = WithPage(r, ids)
      PROVE  ReadsOK(reader', m, w)
  BY <1>1, <1>2, <1>3, <1>4, <1>5, WithPagePending
<1>6. CASE r.surface = "objectId"
  <2>1. reader' = WithPage(r, <<r.objectId>>)
    BY <1>6 DEF ReadPage
  <2>2. <<r.objectId>> \in Seq(Id)
    BY <1>1, <1>2 DEF SurfacesOK, Id
  <2>3. PageOK(r.surface, r.objectId, <<r.objectId>>)
    BY <1>6 DEF PageOK
  <2> QED
    BY <1>5, <2>1, <2>2, <2>3
<1>7. CASE r.surface = "objects"
  <2>1. reader' = ObjectPage(r)
    BY <1>7 DEF ReadPage
  <2> DEFINE page == ListStorageObjectIds(r.cursor, r.limit, r.includeTerminal)
             members == IF r.includeTerminal THEN IssuedIds ELSE LiveIds
  <2>2. /\ r.cursor \in IssuedIds \cup {0} /\ r.limit \in 1..MaxLimit
        /\ r.includeTerminal \in BOOLEAN
    <3>1. CursorCounts(r, Ground)
      BY <1>1, <1>2 DEF TraversalOK, PositionOK
    <3> QED
      BY <1>1, <1>2, <1>7, <3>1, GroundFields, ReaderFields, MaxLimitAssumption
      DEF CursorCounts, SurfacesOK
  <2>3. CASE ~page.reverted
    <3>1. /\ page.ids \in Seq(ObjectId)
          /\ \A i \in 1..Len(page.ids) : page.ids[i] \in members
      <4> SUFFICES ASSUME NEW p, p = page, NEW B, B = members
                   PROVE  p.ids \in Seq(ObjectId) /\ \A i \in 1..Len(p.ids) : p.ids[i] \in B
        OBVIOUS
      <4> QED
        BY <2>2, <2>3, ListedPage
    <3> HIDE DEF page
    <3>2. members \subseteq IssuedIds
      BY LiveIsIssued, <1>1, GroundFields DEF GroundOK
    <3>3. page.ids \in Seq(Id) /\ \A i \in DOMAIN page.ids : page.ids[i] \in IssuedIds
      BY <3>1, <3>2 DEF Id
    <3>4. reader' = WithPage(r, page.ids)
      BY <2>1, <2>3 DEF ObjectPage, page
    <3>5. PageOK(r.surface, r.objectId, page.ids)
      BY <1>7, <3>3 DEF PageOK
    <3> QED
      BY <1>5, <3>3, <3>4, <3>5
  <2>4. CASE page.reverted /\ (r.includeTerminal \/ r.cursor = 0)
    <3>1. reader' = [r EXCEPT !.surface = "failed", !.phase = "reverted"]
      BY <2>1, <2>4 DEF ObjectPage, Fail
    <3>2. reader'.surface = "failed"
      BY <1>1, <3>1 DEF Readers
    <3> QED
      BY <1>3, <3>2 DEF ReadsOK, IsReading, Surfaces, OffsetSurfaces
  <2>5. CASE page.reverted /\ ~(r.includeTerminal \/ r.cursor = 0)
    <3>1. reader' = [r EXCEPT !.cursor = 0]
      BY <2>1, <2>5 DEF ObjectPage
    <3>2. /\ reader'.surface = "objects" /\ reader'.todo = r.todo
          /\ reader'.phase = r.phase /\ reader'.route = r.route
          /\ reader'.objectId = r.objectId
          /\ reader'.includeTerminal = r.includeTerminal
      BY <1>1, <1>7, <3>1 DEF Readers
    <3>3. Pending(reader', m, w)
      BY <1>3, <1>7, <3>2 DEF Pending
    <3> QED
      BY <1>4, <3>2, <3>3
  <2> QED
    BY <2>3, <2>4, <2>5
<1>8. CASE r.surface \in OffsetSurfaces
  <2> DEFINE list == OffsetList(r.surface)
             ids == OffsetPage(list, r.cursor, r.limit)
             end == IF r.cursor + r.limit < Len(list) THEN r.cursor + r.limit ELSE Len(list)
  <2>1. reader' = WithPage(r, ids)
    BY <1>8 DEF ReadPage, OffsetSurfaces
  <2>2. /\ list \in Seq(Id) /\ r.cursor \in Nat /\ r.limit \in Nat
        /\ r.surface = "accounts" => list \in Seq(Account)
        /\ r.surface = "coordinators" => list \in Seq(Address)
    BY <1>1, <1>8, OffsetListType, ReaderFields DEF OffsetList, TypeOK
  <2> HIDE DEF list
  <2>3. ASSUME NEW S, list \in Seq(S)
        PROVE  ids \in Seq(S)
    <3>1. r.cursor + 1 \in Int /\ end \in Int
      BY <2>2, <2>3
    <3>2. \A i \in (r.cursor + 1)..end : list[i] \in S
      <4>1. \A i \in (r.cursor + 1)..end : i \in 1..Len(list)
        BY <2>2, <2>3
      <4> QED
        BY <2>3, <4>1
    <3> HIDE DEF end
    <3>3. SubSeq(list, r.cursor + 1, end) \in Seq(S)
      BY <3>1, <3>2, SubSeqProperties
    <3> QED
      BY <3>3 DEF OffsetPage, end
  <2>4. /\ ids \in Seq(Id)
        /\ r.surface = "accounts" => ids \in Seq(Account)
        /\ r.surface = "coordinators" => ids \in Seq(Address)
    BY <2>2, <2>3
  <2> HIDE DEF ids
  <2>5. /\ r.surface = "accounts" => \A i \in DOMAIN ids : ids[i] \in Account
        /\ r.surface = "coordinators" => \A i \in DOMAIN ids : ids[i] \in Address
    BY <2>4
  <2>6. PageOK(r.surface, r.objectId, ids)
    BY <1>8, <2>5 DEF PageOK, OffsetSurfaces
  <2> QED
    BY <1>5, <2>1, <2>4, <2>6
<1> QED
  BY <1>2, <1>6, <1>7, <1>8 DEF IsReading, Surfaces

-----------------------------------------------------------------------------
(* One detail read                                                         *)

\* A read that is put into a true model leaves it true.
LEMMA MergeTrue ==
  ASSUME TypeOK, IssuedInOrder, NEW w, w = World,
         NEW m, IsModel(m), ModelTrue(m, w), NEW read \in DetailKinds \X Id,
         read[1] \in OfObject => read[2] \in ObjectId,
         read[1] = "accounts" => read[2] \in Account,
         read[1] = "coordinators" => read[2] \in Address,
         NEW m2, m2 = Merge(m, read)
  PROVE  ModelTrue(m2, w)
<1> PICK kind, x : kind = read[1] /\ x = read[2]
  OBVIOUS
<1> DEFINE v == ValueRead(kind, x)
<1>1. kind \in DetailKinds
  OBVIOUS
<1>2. /\ m2[FieldOfKind[kind]] = Projection!Put(m[FieldOfKind[kind]], x, v)
      /\ \A f \in ModelFields \ {FieldOfKind[kind]} : m2[f] = m[f]
  BY MergeFields
<1>3. \A t, k : k \in DOMAIN Projection!Put(t, x, v) =>
        \/ k = x /\ Projection!Put(t, x, v)[k] = v
        \/ k \in DOMAIN t /\ Projection!Put(t, x, v)[k] = t[k]
  BY DEF Projection!Put
<1> HIDE DEF v
<1>4. \A f \in ModelFields : \A k \in DOMAIN m2[f] :
        \/ f = FieldOfKind[kind] /\ k = x /\ m2[f][k] = v
        \/ k \in DOMAIN m[f] /\ m2[f][k] = m[f][k]
  BY <1>2, <1>3
<1>5. \A k \in DOMAIN m2.objects :
        \/ kind = "object" /\ k = x /\ m2.objects[k] = v
        \/ k \in DOMAIN m.objects /\ m2.objects[k] = m.objects[k]
  BY <1>1, <1>4 DEF ModelFields, FieldOfKind, DetailKinds, OffsetSurfaces
<1>6. \A k \in DOMAIN m2.copyReceipts :
        \/ kind = "copies" /\ k = x /\ m2.copyReceipts[k] = v
        \/ k \in DOMAIN m.copyReceipts /\ m2.copyReceipts[k] = m.copyReceipts[k]
  BY <1>1, <1>4 DEF ModelFields, FieldOfKind, DetailKinds, OffsetSurfaces
<1>7. \A k \in DOMAIN m2.receiptPayers :
        \/ kind = "payer" /\ k = x /\ m2.receiptPayers[k] = v
        \/ k \in DOMAIN m.receiptPayers /\ m2.receiptPayers[k] = m.receiptPayers[k]
  BY <1>1, <1>4 DEF ModelFields, FieldOfKind, DetailKinds, OffsetSurfaces
<1>8. \A k \in DOMAIN m2.usage :
        \/ kind = "accounts" /\ k = x /\ m2.usage[k] = v
        \/ k \in DOMAIN m.usage /\ m2.usage[k] = m.usage[k]
  BY <1>1, <1>4 DEF ModelFields, FieldOfKind, DetailKinds, OffsetSurfaces
<1>9. \A k \in DOMAIN m2.coordinators :
        \/ kind = "coordinators" /\ k = x /\ m2.coordinators[k] = v
        \/ k \in DOMAIN m.coordinators /\ m2.coordinators[k] = m.coordinators[k]
  BY <1>1, <1>4 DEF ModelFields, FieldOfKind, DetailKinds, OffsetSurfaces
<1>10. kind = "object" => RowTrue(v, x, w)
  BY RowReadTrue DEF v, ValueRead, OfObject
<1>11. kind = "copies" => x \in ObjectId /\ CopiesTrue(v, x, w)
  BY WorldFields DEF v, ValueRead, OfObject, CopiesTrue, GetCopyReceipts
<1>12. kind = "payer" => x \in ObjectId /\ v = w.receipts[x].payer
  BY WorldFields DEF v, ValueRead, OfObject
<1>13. kind = "accounts" => UsageTrue(v, x, w)
  BY WorldFields DEF v, ValueRead, UsageTrue
<1>14. kind = "coordinators" => x \in Address /\ v = w.policies[x]
  BY WorldFields DEF v, ValueRead
<1>15. \A o \in DOMAIN m2.objects : RowTrue(m2.objects[o], o, w)
  BY <1>5, <1>10 DEF ModelTrue
<1>16. \A o \in DOMAIN m2.copyReceipts :
         o \in ObjectId /\ CopiesTrue(m2.copyReceipts[o], o, w)
  BY <1>6, <1>11 DEF ModelTrue
<1>17. \A o \in DOMAIN m2.receiptPayers :
         o \in ObjectId /\ (o \notin w.moved.objects =>
                              m2.receiptPayers[o] = w.receipts[o].payer)
  BY <1>7, <1>12 DEF ModelTrue
<1>18. \A a \in DOMAIN m2.usage : UsageTrue(m2.usage[a], a, w)
  BY <1>8, <1>13 DEF ModelTrue
<1>19. \A c \in DOMAIN m2.coordinators :
         c \in Address /\ (~w.moved.any => m2.coordinators[c] = w.policies[c])
  BY <1>9, <1>14 DEF ModelTrue
<1> QED
  BY <1>15, <1>16, <1>17, <1>18, <1>19 DEF ModelTrue

\* What a read leaves to be read.
LEMMA MergePending ==
  ASSUME TypeOK, IssuedInOrder, NEW w, w = World,
         NEW r \in Readers, SurfacesOK(r), IsReading(r), r.phase = "details",
         NEW m, IsModel(m), Pending(r, m, w), NEW read \in r.todo,
         read \in DetailKinds \X Id, read[1] \in OfObject => read[2] \in ObjectId,
         NEW m2, m2 = Merge(m, read),
         NEW q, q = [r EXCEPT !.todo = @ \ {read}]
  PROVE  Pending(q, m2, w)
<1>0. /\ FieldOfKind[read[1]] \in ModelFields
      /\ m2[FieldOfKind[read[1]]]
           = Projection!Put(m[FieldOfKind[read[1]]], read[2], ValueRead(read[1], read[2]))
      /\ \A f \in ModelFields \ {FieldOfKind[read[1]]} : m2[f] = m[f]
  <2> SUFFICES ASSUME NEW t \in DetailKinds \X Id, t = read
               PROVE  /\ FieldOfKind[t[1]] \in ModelFields
                      /\ m2[FieldOfKind[t[1]]]
                           = Projection!Put(m[FieldOfKind[t[1]]], t[2], ValueRead(t[1], t[2]))
                      /\ \A f \in ModelFields \ {FieldOfKind[t[1]]} : m2[f] = m[f]
    OBVIOUS
  <2> QED
    BY MergeFields
<1> PICK kind, x : kind = read[1] /\ x = read[2] /\ read = <<kind, x>>
  OBVIOUS
<1>1. kind \in DetailKinds
  OBVIOUS
<1>2. /\ q.todo = r.todo \ {read} /\ q.phase = "details" /\ q.surface = r.surface
      /\ q.route = r.route /\ q.objectId = r.objectId
  BY DEF Readers
<1>3. /\ m2[FieldOfKind[kind]]
           = Projection!Put(m[FieldOfKind[kind]], x, ValueRead(kind, x))
      /\ \A f \in ModelFields \ {FieldOfKind[kind]} : m2[f] = m[f]
  BY <1>0
<1>4. /\ \A f \in ModelFields : DOMAIN m[f] \subseteq DOMAIN m2[f]
      /\ x \in DOMAIN m2[FieldOfKind[kind]]
  <2> PICK t, v : t = m[FieldOfKind[kind]] /\ v = ValueRead(kind, x)
    OBVIOUS
  <2>1. DOMAIN Projection!Put(t, x, v) = DOMAIN t \cup {x}
    BY PutDomain
  <2>2. m2[FieldOfKind[kind]] = Projection!Put(t, x, v)
    BY <1>3
  <2> QED
    BY <1>3, <2>1, <2>2
<1>5. \A k \in DOMAIN m2.objects :
        \/ kind = "object" /\ k = x /\ m2.objects[k] = GetStorageObject(x)
        \/ k \in DOMAIN m.objects /\ m2.objects[k] = m.objects[k]
  <2>1. CASE kind = "object"
    <3> PICK t, v : t = m.objects /\ v = GetStorageObject(x)
      OBVIOUS
    <3>1. m2.objects = Projection!Put(t, x, v)
      BY <1>3, <2>1 DEF FieldOfKind, ValueRead
    <3>2. \A k \in DOMAIN Projection!Put(t, x, v) :
            \/ k = x /\ Projection!Put(t, x, v)[k] = v
            \/ k \in DOMAIN t /\ Projection!Put(t, x, v)[k] = t[k]
      BY DEF Projection!Put
    <3> QED
      BY <2>1, <3>1, <3>2
  <2>2. CASE kind # "object"
    <3>1. m2.objects = m.objects
      BY <1>1, <1>3, <2>2 DEF FieldOfKind, ModelFields, DetailKinds, OffsetSurfaces
    <3> QED
      BY <3>1
  <2> QED
    BY <2>1, <2>2
<1>6. \A o \in ObjectId : <<"copies", o>> \in r.todo =>
        <<"copies", o>> \in q.todo \/ o \in DOMAIN m2.copyReceipts
  BY <1>2, <1>4 DEF FieldOfKind
<1>7. \A o \in ObjectId : <<"payer", o>> \in r.todo =>
        <<"payer", o>> \in q.todo \/ o \in DOMAIN m2.receiptPayers
  BY <1>2, <1>4 DEF FieldOfKind
<1>8. \A o \in ObjectId : o \in DOMAIN m2.objects \/ <<"object", o>> \in q.todo =>
        /\ o \in DOMAIN m2.copyReceipts \/ <<"copies", o>> \in q.todo
        /\ o \in DOMAIN m2.receiptPayers \/ <<"payer", o>> \in q.todo
  <2> SUFFICES ASSUME NEW o \in ObjectId,
                      o \in DOMAIN m2.objects \/ <<"object", o>> \in q.todo
               PROVE  /\ o \in DOMAIN m2.copyReceipts \/ <<"copies", o>> \in q.todo
                      /\ o \in DOMAIN m2.receiptPayers \/ <<"payer", o>> \in q.todo
    OBVIOUS
  <2>1. o \in DOMAIN m.objects \/ <<"object", o>> \in r.todo
    BY <1>2, <1>5
  <2>2. /\ o \in DOMAIN m.copyReceipts \/ <<"copies", o>> \in r.todo
        /\ o \in DOMAIN m.receiptPayers \/ <<"payer", o>> \in r.todo
    BY <2>1 DEF Pending
  <2> QED
    BY <1>4, <1>6, <1>7, <2>2 DEF ModelFields
<1>9. kind = "object" =>
        \/ r.surface = "objects" /\ x \in w.issued
        \/ r.surface = "objectId" /\ x = r.objectId
  BY DEF Pending, OfObject
<1>10. r.surface = "objects" => r.route # "object"
  BY RouteSurfaces DEF SurfacesOK
<1>11. kind = "object" /\ x \in w.issued => GetStorageObject(x).status # "None"
  BY RowReadTrue, WorldFields DEF OfObject
<1>12. ASSUME NEW o \in DOMAIN m2.objects
       PROVE  /\ r.route = "object" => o = r.objectId
              /\ m2.objects[o].status = "None" => r.surface = "objectId" /\ o = r.objectId
  <2>1. CASE kind = "object" /\ o = x /\ m2.objects[o] = GetStorageObject(x)
    BY <1>9, <1>10, <1>11, <2>1
  <2>2. CASE o \in DOMAIN m.objects /\ m2.objects[o] = m.objects[o]
    BY <2>2 DEF Pending
  <2> QED
    BY <1>5, <2>1, <2>2
<1>13. q.surface # "done" /\ q.phase # "list"
  BY <1>2 DEF IsReading, Surfaces, OffsetSurfaces
<1>14. \A t \in q.todo :
         /\ t[1] \in OfObject =>
              \/ q.surface = "objects" /\ t[2] \in w.issued
              \/ q.surface = "objectId" /\ t[2] = q.objectId
         /\ t[1] = "accounts" => t[2] \in Account
         /\ t[1] = "coordinators" => t[2] \in Address
  BY <1>2 DEF Pending
<1> QED
  BY <1>2, <1>8, <1>12, <1>13, <1>14 DEF Pending

LEMMA ReadDetailTrue ==
  ASSUME TypeOK, IssuedInOrder, TraversalInv, ReadsInv, ReadDetail, World' = World
  PROVE  ReadsInv'
<1> SUFFICES ASSUME NEW r, r = reader, NEW m, m = readModel, NEW w, w = World
             PROVE  ReadsOK(reader', readModel', w)
  BY DEF ReadsInv
<1>1. /\ r \in Readers /\ SurfacesOK(r) /\ r.phase = "details" /\ ReadsOK(r, m, w)
  BY DEF TraversalInv, TraversalOK, ReadDetail, ReadsInv
<1>2. IsReading(r)
  BY <1>1 DEF ReadDetail, Reading, Over, IsReading, Readers
<1>3. IsModel(m) /\ ModelTrue(m, w) /\ Pending(r, m, w) /\ History(r.includeTerminal, w)
  BY <1>1, <1>2 DEF ReadsOK
<1>4. PICK read \in r.todo :
        LET m1 == Merge(m, read)
            r1 == [r EXCEPT !.todo = @ \ {read}]
        IN  IF r1.todo # {} THEN readModel' = m1 /\ reader' = r1
            ELSE IF Missing(m1, r1)
            THEN /\ readModel' = Projection!CreateRegistryReadModel
                 /\ reader' = [r1 EXCEPT !.surface = "done"]
            ELSE readModel' = m1 /\ reader' = EndOfPage(r1)
  BY DEF ReadDetail
<1>5. PICK m2, q : m2 = Merge(m, read) /\ q = [r EXCEPT !.todo = @ \ {read}]
  OBVIOUS
<1>6. read \in DetailKinds \X Id
  BY <1>1 DEF Readers
<1>7. /\ read[1] \in OfObject => read[2] \in ObjectId
      /\ read[1] = "accounts" => read[2] \in Account
      /\ read[1] = "coordinators" => read[2] \in Address
  BY <1>1, <1>2, <1>3, WorldFields DEF Pending, SurfacesOK, IssuedIds
<1>8. ModelTrue(m2, w)
  BY <1>3, <1>5, <1>6, <1>7, MergeTrue
<1>9. Pending(q, m2, w)
  BY <1>1, <1>2, <1>3, <1>5, <1>6, <1>7, MergePending
<1>10. IsModel(m2)
  BY <1>3, <1>5, <1>6, MergeFields
<1>11. /\ q \in Readers /\ q.surface = r.surface /\ q.includeTerminal = r.includeTerminal
       /\ q.route = r.route /\ q.objectId = r.objectId /\ q.phase = "details"
       /\ q.todo = r.todo \ {read} /\ q.surface # "idle"
  <2>1. r.todo \ {read} \in SUBSET (DetailKinds \X Id)
    BY <1>1 DEF Readers
  <2>2. PICK todo : todo = r.todo \ {read}
    OBVIOUS
  <2>3. q = [r EXCEPT !.todo = todo]
    BY <1>5, <2>2
  <2> QED
    BY <1>1, <1>2, <2>1, <2>2, <2>3 DEF Readers, IsReading, Surfaces, OffsetSurfaces
<1>12. CASE q.todo # {} /\ readModel' = m2 /\ reader' = q
  BY <1>3, <1>8, <1>9, <1>10, <1>11, <1>12 DEF ReadsOK
<1>13. CASE /\ q.todo = {} /\ ~Missing(m2, q)
            /\ readModel' = m2 /\ reader' = EndOfPage(q)
  <2>1. \A o \in DOMAIN m2.objects : m2.objects[o].status # "None"
    BY <1>9, <1>13 DEF Pending, Missing
  <2>2. /\ reader'.todo = {} /\ reader'.route = q.route
        /\ reader'.objectId = q.objectId
        /\ reader'.includeTerminal = q.includeTerminal /\ reader'.surface # "idle"
    BY <1>11, <1>13, EndOfPageFrame
  <2>3. Pending(reader', m2, w)
    BY <1>9, <1>13, <2>1, <2>2, PendingBetweenPages
  <2> QED
    BY <1>3, <1>8, <1>10, <1>11, <1>13, <2>2, <2>3 DEF ReadsOK
<1>14. CASE /\ q.todo = {}
            /\ readModel' = Projection!CreateRegistryReadModel
            /\ reader' = [q EXCEPT !.surface = "done"]
  <2>1. /\ reader'.surface = "done" /\ reader'.todo = {}
        /\ reader'.includeTerminal = r.includeTerminal
    BY <1>11, <1>14 DEF Readers
  <2>2. IsModel(readModel')
    BY <1>14 DEF IsModel, Projection!CreateRegistryReadModel, ModelFields
  <2>3. \A f \in ModelFields : DOMAIN readModel'[f] = {}
    BY <1>14 DEF Projection!CreateRegistryReadModel, Projection!EmptyMap, ModelFields
  <2>4. ModelTrue(readModel', w) /\ Pending(reader', readModel', w)
    BY <2>1, <2>3 DEF ModelTrue, Pending, ModelFields
  <2> QED
    BY <1>3, <2>1, <2>2, <2>4 DEF ReadsOK
<1> QED
  BY <1>4, <1>5, <1>12, <1>13, <1>14

-----------------------------------------------------------------------------
(* Every step                                                              *)

LEMMA EmptyModel ==
  /\ IsModel(Projection!CreateRegistryReadModel)
  /\ \A f \in ModelFields : DOMAIN Projection!CreateRegistryReadModel[f] = {}
BY DEF IsModel, Projection!CreateRegistryReadModel, Projection!EmptyMap, ModelFields

LEMMA AdminRequestTrue ==
  ASSUME TypeOK, ReadsInv, AdminRequest
  PROVE  ReadsInv'
<1>1. PICK route \in Routes, o \in ObjectId, limit \in PageLimits,
           terminal \in IncludeTerminal :
        /\ reader' = NextSurface([Request(route, o, limit, terminal) EXCEPT
                                    !.rest = SurfacesForRoute(route)])
        /\ dueIds' = IF terminal THEN IssuedIds ELSE LiveIds
  BY DEF AdminRequest
<1>2. /\ dueLengths' = [s \in OffsetSurfaces |-> Len(OffsetList(s))]
      /\ readModel' = readModel /\ moved' = moved /\ UNCHANGED vars
      /\ reader = NoRequest /\ reader.surface = "idle"
  BY DEF AdminRequest, NoRequest, Request
<1>3. IsModel(readModel) /\ readModel = Projection!CreateRegistryReadModel /\ moved = Still
  BY <1>2, WorldFields DEF ReadsInv, ReadsOK
<1>4. \A f \in ModelFields : DOMAIN readModel[f] = {}
  BY <1>3, EmptyModel
<1>5. /\ reader'.todo = {} /\ reader'.includeTerminal = terminal
      /\ reader'.surface # "idle"
  <2>1. SurfacesForRoute(route) # <<>> /\ SurfacesForRoute(route) \in Seq(Surfaces)
    BY RouteSurfaces
  <2>2. PICK s : s = SurfacesForRoute(route)
    OBVIOUS
  <2>3. Head(s) \in Surfaces
    BY <2>1, <2>2, HeadAndTail
  <2>4. reader' = NextSurface([Request(route, o, limit, terminal) EXCEPT !.rest = s])
    BY <1>1, <2>2
  <2>5. PICK h, t : h = Head(s) /\ t = Tail(s)
    OBVIOUS
  <2>6. reader' = [Request(route, o, limit, terminal) EXCEPT
                     !.rest = t, !.surface = h, !.phase = "list", !.cursor = 0,
                     !.pages = 0, !.ids = <<>>]
    BY <2>1, <2>2, <2>4, <2>5 DEF NextSurface, Request
  <2>7. reader'.todo = {} /\ reader'.includeTerminal = terminal /\ reader'.surface = h
    BY <2>6 DEF Request
  <2> QED
    BY <2>3, <2>5, <2>7 DEF Surfaces, OffsetSurfaces
<1>6. /\ World'.issued = IssuedIds /\ World'.due = dueIds'
      /\ World'.accounts = accountIds /\ World'.coordinators = coordinatorAddresses
      /\ World'.lengths = dueLengths' /\ World'.moved = Still
  BY <1>2, <1>3 DEF World, IssuedIds, vars, uploadVars, requestVars, adminVars
<1>7. /\ World'.lengths["accounts"] = Len(accountIds)
      /\ World'.lengths["coordinators"] = Len(coordinatorAddresses)
  BY <1>2, <1>6 DEF OffsetSurfaces, OffsetList
<1>8. History(terminal, World')
  <2>1. accountIds \in Seq(Account)
    BY DEF TypeOK
  <2>2. \A i \in 1..Len(accountIds) : ~(i > Len(accountIds))
    BY <2>1
  <2>3. terminal => IssuedIds \ dueIds' = {}
    BY <1>1
  <2> QED
    BY <1>6, <1>7, <2>2, <2>3 DEF History, Still
<1>9. Pending(reader', readModel, World') /\ ModelTrue(readModel, World')
  BY <1>4, <1>5 DEF Pending, ModelTrue, ModelFields
<1> QED
  BY <1>2, <1>3, <1>5, <1>8, <1>9 DEF ReadsInv, ReadsOK

LEMMA IdleReads ==
  ASSUME reader'.surface = "idle", moved' = Still,
         readModel' = Projection!CreateRegistryReadModel
  PROVE  ReadsInv'
<1>1. World'.moved = Still
  BY DEF World
<1> QED
  BY <1>1, EmptyModel DEF ReadsInv, ReadsOK, IsReading, Surfaces, OffsetSurfaces

LEMMA RegistryMovesTrue ==
  ASSUME TypeOK, TypeOK', IssuedInOrder, IssuedInOrder', TermsInv,
         TraversalInv, ReadsInv, RegistryMoves
  PROVE  ReadsInv'
<1>1. reader' = reader /\ readModel' = readModel /\ reader.surface \notin Over
  BY DEF RegistryMoves
<1>2. reader \in Readers
  BY DEF TraversalInv, TraversalOK
<1>3. CASE Reading
  <2> SUFFICES ASSUME NEW r, r = reader, NEW m, m = readModel, NEW w, w = World,
                      NEW h, h = World'
               PROVE  ReadsOK(r, m, h)
    BY <1>1 DEF ReadsInv
  <2>1. IsReading(r) /\ r.surface # "idle"
    BY <1>2, <1>3 DEF Reading, Over, IsReading, Readers
  <2>2. IsModel(m) /\ ModelTrue(m, w) /\ Pending(r, m, w) /\ History(r.includeTerminal, w)
    BY <2>1 DEF ReadsInv, ReadsOK
  <2>3. WorldMoves(w, h)
    BY <1>3, RegistryMovesWorld
  <2>4. ModelTrue(m, h)
    BY <2>2, <2>3, ModelBearsMoves
  <2>5. w.issued \subseteq h.issued
    BY <2>3 DEF WorldMoves
  <2>6. Pending(r, m, h)
    BY <2>2, <2>5 DEF Pending
  <2>7. r.includeTerminal => h.due = w.due
    <3>1. dueIds' = {o \in dueIds : reader.includeTerminal \/ Live(objects'[o].status)}
      BY DEF RegistryMoves
    <3>2. reader.includeTerminal => dueIds' = dueIds
      BY <3>1
    <3> QED
      BY <3>2 DEF World
  <2>8. History(r.includeTerminal, h)
    BY <2>2, <2>3, <2>7, HistoryBearsMoves
  <2> QED
    BY <2>1, <2>2, <2>4, <2>6, <2>8 DEF ReadsOK
<1>4. CASE ~Reading
  <2>1. reader.surface = "idle"
    BY <1>1, <1>4 DEF Reading
  <2>2. moved' = Still
    BY <1>4 DEF RegistryMoves
  <2> QED
    BY <1>1, <2>1, <2>2, IdleReads DEF ReadsInv, ReadsOK
<1> QED
  BY <1>3, <1>4

LEMMA ReadsStep ==
  ASSUME TypeOK, TypeOK', IndexMatchesStatus, IndexMatchesStatus',
         PagesExact, OnlyStaleCursorsRevert, TermsInv, TraversalInv, ReadsInv,
         [DRNext]_DRvars
  PROVE  ReadsInv'
<1>1. IssuedInOrder /\ IssuedInOrder'
  BY DEF IndexMatchesStatus
<1>2. ASSUME UNCHANGED <<vars, dueIds, dueLengths, moved>> PROVE World' = World
  BY <1>2 DEF World, IssuedIds, vars, uploadVars, requestVars, adminVars
<1>3. CASE AdminRequest
  BY <1>3, AdminRequestTrue
<1>4. CASE Continue
  BY <1>1, <1>2, <1>4, ReadPageTrue, ReadDetailTrue DEF Continue
<1>5. CASE Answered
  BY <1>5, IdleReads DEF Answered, NoRequest, Request
<1>6. CASE RegistryMoves
  BY <1>1, <1>6, RegistryMovesTrue
<1>7. CASE UNCHANGED DRvars
  BY <1>2, <1>7 DEF DRvars, readerVars, ReadsInv
<1> QED
  BY <1>3, <1>4, <1>5, <1>6, <1>7 DEF DRNext

LEMMA TermsAlways == Spec => []TermsInv
<1>1. Init => TermsInv
  BY TermsInit
<1>2. TypeOK /\ IndexMatchesStatus /\ TermsInv /\ [Next]_vars => TermsInv'
  BY TermsStep DEF IndexMatchesStatus
<1> QED
  BY <1>1, <1>2, TypeCorrect, IndexCorrect, PTL DEF Spec

LEMMA ReadsInvariant == DRSpec => []ReadsInv
<1>1. DRSpec => [](TypeOK /\ IndexMatchesStatus /\ PagesExact /\ OnlyStaleCursorsRevert
                   /\ TermsInv /\ TraversalInv)
  BY ReadersLeaveTheRegistry, TypeCorrect, IndexCorrect, PagesCorrect, TermsAlways,
     LiveCursorsNeverRevert, TraversalInvariant, PTL
<1>2. DRInit => ReadsInv
  <2> SUFFICES ASSUME DRInit PROVE ReadsInv
    OBVIOUS
  <2>1. /\ reader.surface = "idle" /\ World.moved = Still
        /\ readModel = Projection!CreateRegistryReadModel
    BY WorldFields DEF DRInit, NoRequest, Request
  <2> QED
    BY <2>1, EmptyModel DEF ReadsInv, ReadsOK, IsReading, Surfaces, OffsetSurfaces
<1>3. /\ TypeOK /\ IndexMatchesStatus /\ PagesExact /\ OnlyStaleCursorsRevert
      /\ TermsInv /\ TraversalInv /\ ReadsInv
      /\ TypeOK' /\ IndexMatchesStatus' /\ [DRNext]_DRvars
      => ReadsInv'
  BY ReadsStep
<1> QED
  BY <1>1, <1>2, <1>3, PTL DEF DRSpec

-----------------------------------------------------------------------------
(* The checks of a report *)

DetailOf(m, o)    == Reconcile!BuildObjectDetail(m, <<>>, o)
DetailsOf(m)      == Reconcile!BuildObjectDetails(m, <<>>)
UsagesOf(m)       == Reconcile!BuildUsageRows(m, DetailsOf(m))
CoordinatorsOf(m) == Reconcile!BuildCoordinatorRows(m, DetailsOf(m), now)

OfUpload(m, o, c) ==
  o \in DOMAIN m.objects /\ c \in Reconcile!ObjectChecks(DetailOf(m, o), o)
OfAccount(m, a, c) ==
  a \in DOMAIN UsagesOf(m) /\ c \in Reconcile!UsageChecks(UsagesOf(m)[a], <<>>, a)
OfCoordinator(m, o, c) ==
  /\ o \in DOMAIN m.objects
  /\ c \in Reconcile!CoordinatorChecks(DetailOf(m, o), CoordinatorsOf(m), o)

LEMMA DetailsShown ==
  ASSUME NEW m
  PROVE  /\ DOMAIN DetailsOf(m) = DOMAIN m.objects
         /\ \A o \in DOMAIN m.objects : DetailsOf(m)[o] = DetailOf(m, o)
BY DEF DetailsOf, DetailOf, Reconcile!BuildObjectDetails

\* A check is an upload's, an account's, or about the coordinator of an upload.
LEMMA ReportChecks ==
  ASSUME NEW m, NEW c
  PROVE  c \in ChecksOf(m) <=>
           \E x : OfUpload(m, x, c) \/ OfAccount(m, x, c) \/ OfCoordinator(m, x, c)
<1> DEFINE D == DetailsOf(m)
           U == UsagesOf(m)
           C == CoordinatorsOf(m)
           uploads      == UNION {Reconcile!ObjectChecks(D[o], o) : o \in DOMAIN D}
           accounts     == UNION {Reconcile!UsageChecks(U[a], <<>>, a) : a \in DOMAIN U}
           coordinators == UNION {Reconcile!CoordinatorChecks(D[o], C, o) : o \in DOMAIN D}
<1>1. D = DetailsOf(m) /\ U = UsagesOf(m) /\ C = CoordinatorsOf(m)
  OBVIOUS
<1>2. DOMAIN D = DOMAIN m.objects /\ \A o \in DOMAIN m.objects : D[o] = DetailOf(m, o)
  BY <1>1, DetailsShown
<1>3. ChecksOf(m) = uploads \cup accounts \cup coordinators
  BY DEF ChecksOf, Reconcile!BuildAdminSurfaces, DetailsOf, UsagesOf, CoordinatorsOf
<1> HIDE DEF D, U, C
<1>4. c \in ChecksOf(m) <=>
        \/ \E o \in DOMAIN D : c \in Reconcile!ObjectChecks(D[o], o)
        \/ \E a \in DOMAIN U : c \in Reconcile!UsageChecks(U[a], <<>>, a)
        \/ \E o \in DOMAIN D : c \in Reconcile!CoordinatorChecks(D[o], C, o)
  BY <1>3
<1>5. \A o \in DOMAIN D : c \in Reconcile!ObjectChecks(D[o], o) <=> OfUpload(m, o, c)
  BY <1>2 DEF OfUpload
<1>6. \A o \in DOMAIN D :
        c \in Reconcile!CoordinatorChecks(D[o], C, o) <=> OfCoordinator(m, o, c)
  BY <1>1, <1>2 DEF OfCoordinator
<1>7. \A a \in DOMAIN U :
        c \in Reconcile!UsageChecks(U[a], <<>>, a) <=> OfAccount(m, a, c)
  BY <1>1 DEF OfAccount
<1>8. \A x : /\ OfUpload(m, x, c) => x \in DOMAIN D
             /\ OfCoordinator(m, x, c) => x \in DOMAIN D
             /\ OfAccount(m, x, c) => x \in DOMAIN U
  BY <1>1, <1>2 DEF OfUpload, OfCoordinator, OfAccount
<1> QED
  BY <1>4, <1>5, <1>6, <1>7, <1>8

\* What each check says it is about.
LEMMA UploadCheckNames ==
  ASSUME NEW d, NEW o, NEW c \in Reconcile!ObjectChecks(d, o)
  PROVE  c.about = o
<1>1. ASSUME NEW i, NEW x, x = [Reconcile!Check("warning", "missing_dataset_record", o)
                                  EXCEPT !.copy = i]
      PROVE  x.about = o
  BY <1>1 DEF Reconcile!Check
<1>2. ASSUME NEW p, NEW s, NEW code, NEW x \in Reconcile!CheckIf(p, s, code, o)
      PROVE  x.about = o
  BY DEF Reconcile!CheckIf, Reconcile!Check
<1>3. ASSUME NEW x \in Reconcile!FocEvidenceChecks(d, o)
      PROVE  x.about = o
  BY <1>2 DEF Reconcile!FocEvidenceChecks, Reconcile!Check
<1>4. ASSUME NEW x \in Reconcile!StoredChecks(d, o)
      PROVE  x.about = o
  BY <1>2, <1>3 DEF Reconcile!StoredChecks
<1> QED
  BY <1>1, <1>2, <1>4 DEF Reconcile!ObjectChecks

UsageCodes == {"usage_active_bytes_mismatch", "usage_pending_bytes_mismatch",
               "usage_reserved_cost_mismatch"}

LEMMA AccountCheckNames ==
  ASSUME NEW row, NEW a, NEW c \in Reconcile!UsageChecks(row, <<>>, a)
  PROVE  c.about = a /\ c.code \in UsageCodes
<1>1. ASSUME NEW p, NEW s, NEW code, NEW x \in Reconcile!CheckIf(p, s, code, a)
      PROVE  x.about = a /\ x.code = code
  BY DEF Reconcile!CheckIf, Reconcile!Check
<1>2. a \notin DOMAIN <<>>
  OBVIOUS
<1>3. Reconcile!CheckIf(a \in DOMAIN <<>> /\ row.activeBytes > <<>>[a],
                        "warning", "account_over_quota", a) = {}
  BY <1>2 DEF Reconcile!CheckIf
<1> QED
  BY <1>1, <1>2, <1>3 DEF Reconcile!UsageChecks, UsageCodes

LEMMA CoordinatorCheckNames ==
  ASSUME NEW d, NEW rows, NEW o, NEW c \in Reconcile!CoordinatorChecks(d, rows, o)
  PROVE  /\ c.about = o /\ c.severity = "error" /\ d.object.status = "Uploading"
         /\ c.code \in CoordinatorCodes \cup {"uploading_object_missing_coordinator"}
         /\ d.object.coordinator # Zero => c.code \in CoordinatorCodes
<1>1. d.object.status = "Uploading"
  BY DEF Reconcile!CoordinatorChecks
<1>2. \/ /\ c = Reconcile!Check("error", "uploading_object_missing_coordinator", o)
         /\ d.object.coordinator = Zero
      \/ c = Reconcile!Check("error", "uploading_object_disallowed_coordinator", o)
      \/ c = Reconcile!Check("error", "uploading_object_expired_coordinator", o)
  BY DEF Reconcile!CoordinatorChecks, Reconcile!CheckIf
<1> QED
  BY <1>1, <1>2 DEF Reconcile!Check, CoordinatorCodes

-----------------------------------------------------------------------------
(* What a detail shows *)

\* A normalized row has the fields of the row.
LEMMA RowNormalized ==
  ASSUME NEW row, IsRow(row), NEW n, n = Reconcile!NormalizeObject(row)
  PROVE  /\ n.accountId = row.accountId /\ n.status = row.status
         /\ n.size = row.size /\ n.requestedCopies = row.requestedCopies
         /\ n.completedCopies = row.completedCopies
         /\ n.reservedCost = row.reservedCost
         /\ n.coordinator = row.coordinator /\ n.receiptHash = row.receiptHash
<1>1. PICK obj \in StorageObject, hashed \in BOOLEAN :
        row = Projection!Patched(obj, [receiptHash |-> hashed])
  BY DEF IsRow
<1>2. RowFields \cup {"receiptHash"} \subseteq DOMAIN row
  BY <1>1, RowHasFields
<1> QED
  BY <1>2 DEF RowFields, Reconcile!NormalizeObject, Reconcile!FieldOf

\* What a detail tells of an upload and its receipt.
Shows(d, obj, rec) ==
  /\ d.object.accountId = obj.accountId /\ d.object.status = obj.status
  /\ d.object.requestedCopies = obj.requestedCopies
  /\ d.object.completedCopies = obj.completedCopies
  /\ d.object.coordinator = obj.coordinator
  /\ d.object.receiptHash = (rec.payer # Zero)
  /\ Len(d.copyReceipts) = rec.copies
  /\ d.receiptPayer = rec.payer
  /\ d.focEvidence = Zero

\* The detail of an upload that did not move, all of it read.
LEMMA UnmovedDetail ==
  ASSUME TypeOK, NEW m, NEW w, w = World, ModelTrue(m, w),
         NEW o \in DOMAIN m.objects, o \in DOMAIN m.copyReceipts,
         o \in DOMAIN m.receiptPayers, o \notin w.moved.objects
  PROVE  Shows(DetailOf(m, o), objects[o], receipts[o])
<1>1. PICK row, obj, rec, n, d :
        /\ row = m.objects[o] /\ obj = objects[o] /\ rec = receipts[o]
        /\ n = Reconcile!NormalizeObject(row) /\ d = DetailOf(m, o)
  OBVIOUS
<1>2. o \in ObjectId /\ IsRow(row) /\ row = ObjectRow(obj, rec)
  BY <1>1, WorldFields DEF ModelTrue, RowTrue
<1>3. obj \in StorageObject /\ rec.copies \in Nat
  <2>1. receipts[o] \in [payer : Address \cup {Zero}, copies : Nat]
    BY <1>2 DEF TypeOK
  <2> QED
    BY <1>1, <1>2, <2>1 DEF TypeOK
<1>4. /\ row.accountId = obj.accountId /\ row.status = obj.status
      /\ row.requestedCopies = obj.requestedCopies
      /\ row.completedCopies = obj.completedCopies
      /\ row.coordinator = obj.coordinator
      /\ row.receiptHash = (rec.payer # Zero)
  BY <1>2, <1>3, RowHasFields DEF ObjectRow, RowFields
<1>5. /\ n.accountId = row.accountId /\ n.status = row.status
      /\ n.requestedCopies = row.requestedCopies
      /\ n.completedCopies = row.completedCopies
      /\ n.coordinator = row.coordinator /\ n.receiptHash = row.receiptHash
  BY <1>1, <1>2, RowNormalized
<1>6. PICK copies : copies = m.copyReceipts[o]
  OBVIOUS
<1>7. copies = [i \in 1..rec.copies |-> CopyDataset[i]] /\ m.receiptPayers[o] = rec.payer
  BY <1>1, <1>2, <1>6, WorldFields DEF ModelTrue, CopiesTrue
<1>8. Len(copies) = rec.copies
  BY <1>3, <1>7
<1>9. /\ d.object = n /\ d.copyReceipts = copies /\ d.receiptPayer = rec.payer
      /\ d.focEvidence = Zero
  BY <1>1, <1>6, <1>7 DEF DetailOf, Reconcile!BuildObjectDetail, Reconcile!FieldOf
<1>10. Shows(d, obj, rec)
  BY <1>4, <1>5, <1>8, <1>9 DEF Shows
<1> QED
  BY <1>1, <1>10

\* What the contract keeps of an upload raises no error about it.
LEMMA NoUploadErrors ==
  ASSUME NEW d, NEW obj, NEW rec, Shows(d, obj, rec), Outcome(obj, rec), NEW o,
         NEW c \in Reconcile!ObjectChecks(d, o)
  PROVE  c.severity # "error"
<1>1. ASSUME NEW i, NEW x, x = [Reconcile!Check("warning", "missing_dataset_record", o)
                                  EXCEPT !.copy = i]
      PROVE  x.severity = "warning"
  BY <1>1 DEF Reconcile!Check
<1>2. Reconcile!CheckIf(/\ d.object.status = "Committed"
                        /\ d.object.completedCopies # d.object.requestedCopies,
                        "error", "committed_copy_count_mismatch", o) = {}
  BY DEF Shows, Outcome, Reconcile!CheckIf
<1>3. ASSUME d.object.status \in Reconcile!StoredStatuses,
             NEW x \in Reconcile!StoredChecks(d, o)
      PROVE  x.severity = "info"
  <2>1. Stored(obj.status)
    BY <1>3 DEF Shows, Stored, Reconcile!StoredStatuses
  <2>2. /\ Len(d.copyReceipts) = d.object.completedCopies
        /\ d.object.receiptHash /\ d.receiptPayer # Zero
    BY <2>1 DEF Shows, Outcome
  <2>3. x = Reconcile!Check("info", "foc_evidence_not_checked", o)
    BY <1>3, <2>2 DEF Reconcile!StoredChecks, Reconcile!FocEvidenceChecks,
                      Reconcile!CheckIf, Shows
  <2> QED
    BY <2>3 DEF Reconcile!Check
<1>4. ASSUME NEW x \in Reconcile!CheckIf(
                 /\ d.object.status \in {"Failed", "Cancelled", "Expired"}
                 /\ Len(d.copyReceipts) > 0,
                 "warning", "terminal_object_has_copy_receipts", o)
      PROVE  x.severity = "warning"
  BY <1>4 DEF Reconcile!CheckIf, Reconcile!Check
<1> QED
  BY <1>1, <1>2, <1>3, <1>4 DEF Reconcile!ObjectChecks

-----------------------------------------------------------------------------
(* What a finished request holds *)

\* What the report rests on.
ReportInv ==
  /\ TypeOK /\ IndexMatchesStatus /\ LedgerMatchesUploads /\ Outcomes
  /\ AccountsExact /\ CoordinatorsExact /\ TraversalInv /\ ReadsInv

\* Rows are of uploads that exist, each with its receipts.
LEMMA FinishedReads ==
  ASSUME ReportInv, Done
  PROVE  /\ ModelTrue(readModel, World) /\ Pending(reader, readModel, World)
         /\ History(reader.includeTerminal, World) /\ IsModel(readModel)
         /\ reader \in Readers
         /\ \A o \in DOMAIN readModel.objects :
              /\ o \in IssuedIds /\ o \in ObjectId
              /\ o \in DOMAIN readModel.copyReceipts
              /\ o \in DOMAIN readModel.receiptPayers
              /\ IsRow(readModel.objects[o])
              /\ readModel.objects[o].accountId = objects[o].accountId
              /\ objects[o].accountId \in Account
              /\ objects[o].accountId \notin moved.accounts =>
                   Portion(readModel.objects[o]) = Portion(objects[o])
<1>1. /\ ModelTrue(readModel, World) /\ Pending(reader, readModel, World)
      /\ History(reader.includeTerminal, World) /\ IsModel(readModel)
      /\ reader \in Readers /\ reader.surface = "done"
  BY DEF ReportInv, ReadsInv, ReadsOK, TraversalInv, TraversalOK, Done
<1>2. ASSUME NEW o \in DOMAIN readModel.objects
      PROVE  /\ o \in IssuedIds /\ o \in ObjectId
             /\ o \in DOMAIN readModel.copyReceipts
             /\ o \in DOMAIN readModel.receiptPayers
             /\ IsRow(readModel.objects[o])
             /\ readModel.objects[o].accountId = objects[o].accountId
             /\ objects[o].accountId \in Account
             /\ objects[o].accountId \notin moved.accounts =>
                  Portion(readModel.objects[o]) = Portion(objects[o])
  <2>1. RowTrue(readModel.objects[o], o, World)
    BY <1>1 DEF ModelTrue
  <2>2. readModel.objects[o].status # "None" /\ reader.todo = {}
    BY <1>1 DEF Pending
  <2>3. /\ o \in ObjectId /\ o \in IssuedIds /\ IsRow(readModel.objects[o])
        /\ readModel.objects[o].accountId = objects[o].accountId
        /\ objects[o].accountId \notin moved.accounts =>
             Portion(readModel.objects[o]) = Portion(objects[o])
    BY <2>1, <2>2, WorldFields DEF RowTrue
  <2>4. objects[o].accountId \in Account
    BY <2>3 DEF ReportInv, IndexMatchesStatus, IssuedInOrder, IssuedIds
  <2>5. o \in DOMAIN readModel.copyReceipts /\ o \in DOMAIN readModel.receiptPayers
    BY <1>1, <2>2, <2>3 DEF Pending
  <2> QED
    BY <2>3, <2>4, <2>5
<1> QED
  BY <1>1, <1>2

LEMMA DetailNormalizes ==
  ASSUME NEW m, NEW o, NEW d, d = DetailOf(m, o)
  PROVE  d.object = Reconcile!NormalizeObject(m.objects[o])
BY DEF DetailOf, Reconcile!BuildObjectDetail

\* What is left to say of an unmoved upload.
LEMMA FinishedDetail ==
  ASSUME ReportInv, Done, NEW o \in DOMAIN readModel.objects, o \notin moved.objects
  PROVE  /\ Shows(DetailOf(readModel, o), objects[o], receipts[o])
         /\ Outcome(objects[o], receipts[o])
<1>1. Shows(DetailOf(readModel, o), objects[o], receipts[o])
  BY FinishedReads, UnmovedDetail, WorldFields DEF ReportInv
<1>2. Outcome(objects[o], receipts[o])
  BY FinishedReads DEF ReportInv, Outcomes
<1> QED
  BY <1>1, <1>2

\* The account a detail names.
LEMMA FinishedAccounts ==
  ASSUME ReportInv, Done
  PROVE  /\ DOMAIN UsagesOf(readModel) \subseteq Account
         /\ \A a \in DOMAIN UsagesOf(readModel) :
              \/ a \in DOMAIN readModel.usage
              \/ \E o \in IssuedIds : objects[o].accountId = a
<1>1. PICK D : D = DetailsOf(readModel)
  OBVIOUS
<1>2. DOMAIN D = DOMAIN readModel.objects
      /\ \A o \in DOMAIN D : D[o] = DetailOf(readModel, o)
  BY <1>1, DetailsShown
<1>3. ASSUME NEW o \in DOMAIN D
      PROVE  o \in IssuedIds /\ D[o].object.accountId = objects[o].accountId
  <2>1. IsRow(readModel.objects[o]) /\ o \in IssuedIds
        /\ readModel.objects[o].accountId = objects[o].accountId
    BY <1>2, FinishedReads
  <2>2. D[o].object = Reconcile!NormalizeObject(readModel.objects[o])
    BY <1>2, DetailNormalizes
  <2> QED
    BY <2>1, <2>2, RowNormalized
<1>4. DOMAIN UsagesOf(readModel)
        = DOMAIN readModel.usage \cup ({D[o].object.accountId : o \in DOMAIN D} \ {Zero})
  BY <1>1 DEF UsagesOf, Reconcile!BuildUsageRows
<1>5. DOMAIN readModel.usage \subseteq Account
  BY FinishedReads DEF ModelTrue, UsageTrue
<1>6. \A o \in DOMAIN D : objects[o].accountId \in Account
  BY <1>2, FinishedReads
<1> QED
  BY <1>3, <1>4, <1>5, <1>6

\* What a request for everything has of an account that did not move.
LEMMA FinishedAccount ==
  ASSUME ReportInv, Done, reader.includeTerminal,
         reader.route \notin {"object", "datasets", "coordinators"},
         NEW a \in Account, a \notin moved.accounts
  PROVE  /\ \A o \in IssuedTo(a) : o \in DOMAIN readModel.objects
         /\ IssuedTo(a) # {} => a \in DOMAIN readModel.usage
         /\ a \in DOMAIN readModel.usage => readModel.usage[a] = usage[a]
<1>1. /\ ModelTrue(readModel, World) /\ History(TRUE, World)
  BY FinishedReads
<1>2. /\ LeftBehindOK(reader, readModel, Ground) /\ reader.rest = <<>>
      /\ GroundOK(reader, Ground)
  BY DEF ReportInv, TraversalInv, TraversalOK, Done, LeftBehindOK, Missed
<1>3. "objects" \in Range(SurfacesForRoute(reader.route))
      /\ "accounts" \in Range(SurfacesForRoute(reader.route))
  <2>1. SurfacesForRoute(reader.route) = FullRegistrySurfaces
    BY DEF SurfacesForRoute
  <2>2. FullRegistrySurfaces[1] = "objects" /\ FullRegistrySurfaces[2] = "accounts"
        /\ DOMAIN FullRegistrySurfaces = 1..5
    BY DEF FullRegistrySurfaces
  <2> QED
    BY <2>1, <2>2 DEF Range
<1>4. Range(reader.rest) = {}
  BY <1>2 DEF Range
<1>5. Complete("objects", readModel, Ground) /\ Complete("accounts", readModel, Ground)
  BY <1>2, <1>3, <1>4 DEF LeftBehindOK, Missed, Done
<1>6. ASSUME NEW o \in IssuedTo(a) PROVE o \in DOMAIN readModel.objects
  <2>1. o \in IssuedIds /\ objects[o].accountId = a
    BY DEF IssuedTo
  <2>2. o \in dueIds
    BY <1>1, <2>1, WorldFields DEF History
  <2> QED
    BY <1>5, <2>2, GroundFields DEF Complete
<1>7. ASSUME IssuedTo(a) # {} PROVE a \in DOMAIN readModel.usage
  <2>1. a \in Range(accountIds) /\ accountIds \in Seq(Account)
    BY <1>7 DEF ReportInv, AccountsExact, Enumerates, RequestedAccounts, TypeOK
  <2>2. PICK i \in 1..Len(accountIds) : a = accountIds[i]
    BY <2>1 DEF Range
  <2>3. ~(i > dueLengths["accounts"])
    BY <1>1, <2>2, WorldFields DEF History
  <2>4. dueLengths["accounts"] \in Nat
    BY <1>2, GroundFields DEF GroundOK, OffsetSurfaces
  <2>5. i \in 1..dueLengths["accounts"]
    BY <2>3, <2>4
  <2>6. Ground.lists["accounts"] = accountIds
    BY GroundFields DEF OffsetSurfaces, OffsetList
  <2> QED
    BY <1>5, <2>2, <2>5, <2>6, GroundFields DEF Complete, KeysOf, OffsetSurfaces
<1>8. a \in DOMAIN readModel.usage => readModel.usage[a] = usage[a]
  BY <1>1, WorldFields DEF ModelTrue, UsageTrue
<1> QED
  BY <1>6, <1>7, <1>8

-----------------------------------------------------------------------------
(* The counters of an account                                              *)

\* The shares of uploads in three totals, summed over a part of them that has
\* all of it.
LEMMA SharesOf ==
  ASSUME NEW w \in [ObjectId -> Nat], NEW T \in SUBSET ObjectId,
         \A o \in ObjectId \ T : w[o] = 0, NEW v, v = [o \in T |-> w[o]]
  PROVE  Reconcile!Total(v) = Ledger!Total(w)
<1>1. Reconcile!Total(v) = Total(v)
  BY DEF Reconcile!Total, Reconcile!Units, Total, Units, Reconcile!Cardinality, Cardinality
<1>2. Total(v) = Total(w)
  BY TotalWithin
<1> QED
  BY <1>1, <1>2, LedgerTotal

\* What the ledger says of an account, upload by upload.
PortionTo(a, n) ==
  [o \in ObjectId |-> IF o \in IssuedTo(a) THEN Portion(objects[o])[n] ELSE 0]

LEMMA PortionType ==
  ASSUME NEW obj, obj.size \in Nat, obj.requestedCopies \in Nat,
         obj.completedCopies \in Nat, obj.reservedCost \in Nat
  PROVE  /\ Portion(obj)[1] = (IF Stored(obj.status) THEN StoredBytes(obj) ELSE 0)
         /\ Portion(obj)[2] = (IF Live(obj.status) THEN RequestedBytes(obj) ELSE 0)
         /\ Portion(obj)[3] = (IF Live(obj.status) THEN obj.reservedCost ELSE 0)
         /\ \A n \in 1..3 : Portion(obj)[n] \in Nat
<1>1. \A x, y \in Nat : x * y \in Nat
  OBVIOUS
<1>2. StoredBytes(obj) \in Nat /\ RequestedBytes(obj) \in Nat
  BY <1>1 DEF StoredBytes, RequestedBytes
<1>3. /\ Portion(obj)[1] = (IF Stored(obj.status) THEN StoredBytes(obj) ELSE 0)
      /\ Portion(obj)[2] = (IF Live(obj.status) THEN RequestedBytes(obj) ELSE 0)
      /\ Portion(obj)[3] = (IF Live(obj.status) THEN obj.reservedCost ELSE 0)
  BY DEF Portion, StoredBytes, RequestedBytes
<1>4. \A n \in 1..3 : n = 1 \/ n = 2 \/ n = 3
  OBVIOUS
<1> QED
  BY <1>2, <1>3, <1>4

LEMMA LedgerPortions ==
  ASSUME TypeOK, IssuedInOrder, LedgerMatchesUploads, NEW a \in Account
  PROVE  /\ \A n \in 1..3 : PortionTo(a, n) \in [ObjectId -> Nat]
         /\ usage[a].activeBytes = Ledger!Total(PortionTo(a, 1))
         /\ usage[a].pendingBytes = Ledger!Total(PortionTo(a, 2))
         /\ usage[a].reservedCost = Ledger!Total(PortionTo(a, 3))
<1>1. PICK wa, wp, wc :
         /\ wa = [o \in ObjectId |-> Ledger!Part(Book[o], a, Book[o].phase = "stored",
                                                 Book[o].stored)]
         /\ wp = [o \in ObjectId |-> Ledger!Part(Book[o], a, Book[o].phase = "open",
                                                 Book[o].bytes)]
         /\ wc = [o \in ObjectId |-> Ledger!Part(Book[o], a, Book[o].phase = "open",
                                                 Book[o].cost)]
  OBVIOUS
<1>2. /\ usage[a].activeBytes = Ledger!Total(wa)
      /\ usage[a].pendingBytes = Ledger!Total(wp)
      /\ usage[a].reservedCost = Ledger!Total(wc)
  <2>1. PublishedTotals[a] = Ledger!TotalsOf(Book)[a]
    BY DEF LedgerMatchesUploads
  <2>2. /\ PublishedTotals[a].activeBytes = usage[a].activeBytes
        /\ PublishedTotals[a].pendingBytes = usage[a].pendingBytes
        /\ PublishedTotals[a].reservedCost = usage[a].reservedCost
    BY DEF PublishedTotals
  <2>3. /\ Ledger!TotalsOf(Book)[a].activeBytes = Ledger!Total(wa)
        /\ Ledger!TotalsOf(Book)[a].pendingBytes = Ledger!Total(wp)
        /\ Ledger!TotalsOf(Book)[a].reservedCost = Ledger!Total(wc)
    BY <1>1 DEF Ledger!TotalsOf
  <2> QED
    BY <2>1, <2>2, <2>3
<1>3. ASSUME NEW o \in ObjectId
      PROVE  /\ wa[o] = PortionTo(a, 1)[o] /\ wp[o] = PortionTo(a, 2)[o]
             /\ wc[o] = PortionTo(a, 3)[o]
             /\ \A n \in 1..3 : PortionTo(a, n)[o] \in Nat
  <2>1. Book[o] = BookEntry(objects[o]) /\ objects[o] \in StorageObject
    BY DEF Book, TypeOK
  <2>2. PICK obj : obj = objects[o]
    OBVIOUS
  <2>3. /\ Phase(obj.status) = "stored" <=> Stored(obj.status)
        /\ Phase(obj.status) = "open" <=> Live(obj.status)
    BY DEF Phase, Stored, Live
  <2>4. /\ wa[o] = (IF obj.accountId = a /\ Stored(obj.status) THEN StoredBytes(obj) ELSE 0)
        /\ wp[o] = (IF obj.accountId = a /\ Live(obj.status) THEN RequestedBytes(obj) ELSE 0)
        /\ wc[o] = (IF obj.accountId = a /\ Live(obj.status) THEN obj.reservedCost ELSE 0)
    BY <1>1, <2>1, <2>2, <2>3 DEF BookEntry, Ledger!Part
  <2>5. /\ Portion(obj)[1] = (IF Stored(obj.status) THEN StoredBytes(obj) ELSE 0)
        /\ Portion(obj)[2] = (IF Live(obj.status) THEN RequestedBytes(obj) ELSE 0)
        /\ Portion(obj)[3] = (IF Live(obj.status) THEN obj.reservedCost ELSE 0)
        /\ \A n \in 1..3 : Portion(obj)[n] \in Nat
    <3>1. /\ obj.size \in Nat /\ obj.requestedCopies \in Nat
          /\ obj.completedCopies \in Nat /\ obj.reservedCost \in Nat
      BY <2>1, <2>2 DEF StorageObject
    <3> QED
      BY <3>1, PortionType
  <2>6. \A n \in 1..3 : PortionTo(a, n)[o]
          = IF o \in IssuedTo(a) THEN Portion(obj)[n] ELSE 0
    BY <2>2 DEF PortionTo
  <2>7. CASE o \in IssuedTo(a)
    BY <2>2, <2>4, <2>5, <2>6, <2>7 DEF IssuedTo
  <2>8. CASE o \notin IssuedTo(a)
    <3>1. obj.accountId = a => obj = NoObject
      BY <2>2, <2>8 DEF IssuedTo, IssuedIds, IssuedInOrder
    <3>2. ~Stored(NoObject.status) /\ ~Live(NoObject.status)
      BY DEF NoObject, Stored, Live
    <3> QED
      BY <2>4, <2>6, <2>8, <3>1, <3>2
  <2> QED
    BY <2>7, <2>8
<1>4. \A n \in 1..3 : PortionTo(a, n) \in [ObjectId -> Nat]
  BY <1>3 DEF PortionTo
<1>5. wa = PortionTo(a, 1) /\ wp = PortionTo(a, 2) /\ wc = PortionTo(a, 3)
  <2>1. \A n \in 1..3 : PortionTo(a, n) = [o \in ObjectId |-> PortionTo(a, n)[o]]
    BY <1>4
  <2> QED
    BY <1>1, <1>3, <2>1
<1> QED
  BY <1>2, <1>4, <1>5

\* The row of an account that did not move adds up.
LEMMA AccountAddsUp ==
  ASSUME ReportInv, Done, reader.includeTerminal,
         reader.route \notin {"object", "datasets", "coordinators"},
         NEW a \in DOMAIN UsagesOf(readModel), a \notin moved.accounts,
         NEW row, row = UsagesOf(readModel)[a]
  PROVE  /\ row.activeBytes = row.projectedActiveBytes
         /\ row.pendingBytes = row.projectedPendingBytes
         /\ row.reservedCost = row.projectedReservedCost
<1>1. /\ TypeOK /\ IssuedInOrder /\ LedgerMatchesUploads /\ a \in Account
  BY FinishedAccounts DEF ReportInv, IndexMatchesStatus
<1>2. PICK m, D : m = readModel /\ D = DetailsOf(m)
  OBVIOUS
<1>3. DOMAIN D = DOMAIN m.objects /\ \A o \in DOMAIN D : D[o] = DetailOf(m, o)
  BY <1>2, DetailsShown
<1>4. /\ a \in DOMAIN m.usage /\ m.usage[a] = usage[a]
      /\ \A o \in IssuedTo(a) : o \in DOMAIN m.objects
  <2>1. a \in DOMAIN m.usage \/ IssuedTo(a) # {}
    BY <1>2, FinishedAccounts DEF IssuedTo
  <2> QED
    BY <1>1, <1>2, <2>1, FinishedAccount
<1>5. ASSUME NEW o \in DOMAIN D
      PROVE  /\ o \in IssuedIds /\ o \in ObjectId
             /\ D[o].object.accountId = objects[o].accountId
             /\ objects[o].accountId = a => Portion(D[o].object) = Portion(objects[o])
             /\ D[o].object.size \in Nat /\ D[o].object.requestedCopies \in Nat
             /\ D[o].object.completedCopies \in Nat /\ D[o].object.reservedCost \in Nat
  <2>1. /\ o \in IssuedIds /\ o \in ObjectId /\ IsRow(m.objects[o])
        /\ m.objects[o].accountId = objects[o].accountId
        /\ objects[o].accountId \notin moved.accounts =>
             Portion(m.objects[o]) = Portion(objects[o])
    BY <1>2, <1>3, FinishedReads
  <2>2. PICK r, n : r = m.objects[o] /\ n = Reconcile!NormalizeObject(r)
    OBVIOUS
  <2>3. D[o].object = n
    BY <1>3, <2>2, DetailNormalizes
  <2>4. /\ n.accountId = r.accountId /\ n.status = r.status
        /\ n.size = r.size /\ n.requestedCopies = r.requestedCopies
        /\ n.completedCopies = r.completedCopies /\ n.reservedCost = r.reservedCost
    BY <2>1, <2>2, RowNormalized
  <2>5. Portion(n) = Portion(r)
    BY <2>4 DEF Portion
  <2>6. /\ r.size \in Nat /\ r.requestedCopies \in Nat
        /\ r.completedCopies \in Nat /\ r.reservedCost \in Nat
    <3>1. PICK obj \in StorageObject, hashed \in BOOLEAN :
            r = Projection!Patched(obj, [receiptHash |-> hashed])
      BY <2>1, <2>2 DEF IsRow
    <3>2. /\ r.size = obj.size /\ r.requestedCopies = obj.requestedCopies
          /\ r.completedCopies = obj.completedCopies /\ r.reservedCost = obj.reservedCost
      BY <3>1, RowHasFields DEF RowFields
    <3> QED
      BY <3>2 DEF StorageObject
  <2> QED
    BY <2>1, <2>2, <2>3, <2>4, <2>5, <2>6
<1>6. PICK mine, open :
        /\ mine = {o \in DOMAIN D : D[o].object.accountId = a}
        /\ open = {o \in mine : Reconcile!Pending(D[o].object)}
  OBVIOUS
<1>7. /\ mine = IssuedTo(a) /\ open \subseteq mine /\ mine \subseteq ObjectId
      /\ \A o \in mine : o \in open <=> Live(D[o].object.status)
  <2>1. \A o \in mine : o \in IssuedTo(a)
    BY <1>5, <1>6 DEF IssuedTo
  <2>2. \A o \in IssuedTo(a) : o \in mine
    BY <1>3, <1>4, <1>5, <1>6 DEF IssuedTo
  <2> QED
    BY <1>5, <1>6, <2>1, <2>2 DEF Live, Reconcile!Pending, Reconcile!PendingStatuses
<1>8. ASSUME NEW o \in mine, NEW n, n = D[o].object
      PROVE  /\ Portion(objects[o])[1] = Reconcile!ActiveBytes(n)
             /\ Live(n.status) =>
                  /\ Portion(objects[o])[2] = Reconcile!RequestedBytes(n)
                  /\ Portion(objects[o])[3] = n.reservedCost
             /\ ~Live(n.status) => Portion(objects[o])[2] = 0 /\ Portion(objects[o])[3] = 0
  <2>1. Portion(n) = Portion(objects[o])
    BY <1>5, <1>6, <1>8
  <2>2. /\ Portion(n)[1] = (IF Stored(n.status) THEN StoredBytes(n) ELSE 0)
        /\ Portion(n)[2] = (IF Live(n.status) THEN RequestedBytes(n) ELSE 0)
        /\ Portion(n)[3] = (IF Live(n.status) THEN n.reservedCost ELSE 0)
    BY <1>5, <1>6, <1>8, PortionType
  <2> QED
    BY <2>1, <2>2 DEF Stored, StoredBytes, RequestedBytes, Reconcile!ActiveBytes,
                      Reconcile!RequestedBytes, Reconcile!StoredStatuses
<1>9. PICK wa, wp, wc :
        wa = PortionTo(a, 1) /\ wp = PortionTo(a, 2) /\ wc = PortionTo(a, 3)
  OBVIOUS
<1>10. /\ wa \in [ObjectId -> Nat] /\ wp \in [ObjectId -> Nat] /\ wc \in [ObjectId -> Nat]
       /\ usage[a].activeBytes = Ledger!Total(wa)
       /\ usage[a].pendingBytes = Ledger!Total(wp)
       /\ usage[a].reservedCost = Ledger!Total(wc)
  <2>1. 1 \in 1..3 /\ 2 \in 1..3 /\ 3 \in 1..3
    OBVIOUS
  <2> QED
    BY <1>1, <1>9, <2>1, LedgerPortions
<1>11. /\ \A o \in ObjectId \ mine : wa[o] = 0
       /\ \A o \in ObjectId \ open : wp[o] = 0 /\ wc[o] = 0
       /\ \A o \in mine : wa[o] = Reconcile!ActiveBytes(D[o].object)
       /\ \A o \in open : /\ wp[o] = Reconcile!RequestedBytes(D[o].object)
                          /\ wc[o] = D[o].object.reservedCost
  BY <1>7, <1>8, <1>9 DEF PortionTo
<1>12. PICK va, vp, vc : /\ va = [o \in mine |-> wa[o]]
                         /\ vp = [o \in open |-> wp[o]] /\ vc = [o \in open |-> wc[o]]
  OBVIOUS
<1>13. /\ Reconcile!Total(va) = Ledger!Total(wa)
       /\ Reconcile!Total(vp) = Ledger!Total(wp)
       /\ Reconcile!Total(vc) = Ledger!Total(wc)
  BY <1>7, <1>10, <1>11, <1>12, SharesOf
<1>14. /\ va = [o \in mine |-> Reconcile!ActiveBytes(D[o].object)]
       /\ vp = [o \in open |-> Reconcile!RequestedBytes(D[o].object)]
       /\ vc = [o \in open |-> D[o].object.reservedCost]
  BY <1>11, <1>12
<1>15. PICK u : u = Reconcile!FieldOf(m.usage, a, <<>>)
  OBVIOUS
<1>16. /\ row.activeBytes = Reconcile!FieldOf(u, "activeBytes", 0)
       /\ row.pendingBytes = Reconcile!FieldOf(u, "pendingBytes", 0)
       /\ row.reservedCost = Reconcile!FieldOf(u, "reservedCost", 0)
       /\ row.projectedActiveBytes
            = Reconcile!Total([o \in mine |-> Reconcile!ActiveBytes(D[o].object)])
       /\ row.projectedPendingBytes
            = Reconcile!Total([o \in open |-> Reconcile!RequestedBytes(D[o].object)])
       /\ row.projectedReservedCost
            = Reconcile!Total([o \in open |-> D[o].object.reservedCost])
  <2>1. row = Reconcile!UsageRow(m, D, a)
    BY <1>2 DEF UsagesOf, Reconcile!BuildUsageRows
  <2> QED
    BY <1>6, <1>15, <2>1 DEF Reconcile!UsageRow
<1>17. /\ row.activeBytes = usage[a].activeBytes
       /\ row.pendingBytes = usage[a].pendingBytes
       /\ row.reservedCost = usage[a].reservedCost
  <2>1. u = usage[a] /\ u \in AccountUsage
    BY <1>1, <1>4, <1>15 DEF TypeOK, Reconcile!FieldOf
  <2>2. {"activeBytes", "pendingBytes", "reservedCost"} \subseteq DOMAIN u
    BY <2>1 DEF AccountUsage
  <2> QED
    BY <1>16, <2>1, <2>2 DEF Reconcile!FieldOf
<1> QED
  BY <1>10, <1>13, <1>14, <1>16, <1>17

-----------------------------------------------------------------------------
(* The errors an answer shows *)

LEMMA AccountRaisesNothing ==
  ASSUME ReportInv, Done, reader.includeTerminal,
         reader.route \notin {"object", "datasets", "coordinators"},
         NEW a, a \notin moved.accounts, NEW c
  PROVE  ~OfAccount(readModel, a, c)
<1> SUFFICES ASSUME OfAccount(readModel, a, c) PROVE FALSE
  OBVIOUS
<1>1. a \in DOMAIN UsagesOf(readModel)
  BY DEF OfAccount
<1>2. PICK row : row = UsagesOf(readModel)[a]
  OBVIOUS
<1>3. /\ row.activeBytes = row.projectedActiveBytes
      /\ row.pendingBytes = row.projectedPendingBytes
      /\ row.reservedCost = row.projectedReservedCost
  BY <1>1, <1>2, AccountAddsUp
<1>4. a \notin DOMAIN <<>>
  OBVIOUS
<1>5. Reconcile!UsageChecks(row, <<>>, a) = {}
  BY <1>3, <1>4 DEF Reconcile!UsageChecks, Reconcile!CheckIf
<1> QED
  BY <1>2, <1>5 DEF OfAccount

\* About an upload that did not move only its coordinator can be in error.
LEMMA UploadRaisesNothing ==
  ASSUME ReportInv, Done, NEW o, o \notin moved.objects, NEW c, c.severity = "error"
  PROVE  /\ ~OfUpload(readModel, o, c)
         /\ OfCoordinator(readModel, o, c) => c.code \in CoordinatorCodes
<1> SUFFICES ASSUME o \in DOMAIN readModel.objects
             PROVE  /\ ~OfUpload(readModel, o, c)
                    /\ OfCoordinator(readModel, o, c) => c.code \in CoordinatorCodes
  BY DEF OfUpload, OfCoordinator
<1>1. PICK d : d = DetailOf(readModel, o)
  OBVIOUS
<1>2. Shows(d, objects[o], receipts[o]) /\ Outcome(objects[o], receipts[o])
  BY <1>1, FinishedDetail
<1>3. ~OfUpload(readModel, o, c)
  BY <1>1, <1>2, NoUploadErrors DEF OfUpload
<1>4. d.object.status = "Uploading" => d.object.coordinator # Zero
  BY <1>2 DEF Shows, Outcome
<1>5. OfCoordinator(readModel, o, c) => c.code \in CoordinatorCodes
  BY <1>1, <1>4, CoordinatorCheckNames DEF OfCoordinator
<1> QED
  BY <1>3, <1>5

LEMMA ReportNames ==
  ASSUME NEW m, NEW x, NEW c
  PROVE  OfUpload(m, x, c) \/ OfAccount(m, x, c) \/ OfCoordinator(m, x, c) => c.about = x
BY UploadCheckNames, AccountCheckNames, CoordinatorCheckNames
DEF OfUpload, OfAccount, OfCoordinator

\* The routes that show no check, all, and those about the object asked for.
LEMMA WhatIsShown ==
  ASSUME NEW c
  PROVE  c \in ShownChecks <=>
           /\ c \in ChecksOf(readModel)
           /\ reader.route \notin {"datasets", "coordinators"}
           /\ reader.route = "object" =>
                reader.objectId \in DOMAIN readModel.objects /\ c.about = reader.objectId
<1>1. Report.checks = ChecksOf(readModel)
  BY DEF Report, ChecksOf
<1> QED
  BY <1>1 DEF ShownChecks, Reconcile!ChecksAbout

LEMMA MovedRowsOnly ==
  ASSUME ReportInv
  PROVE  OnlyMovedRowsMismatch
<1> SUFFICES ASSUME Done, reader.includeTerminal, NEW c \in ShownErrors,
                    c.about \notin moved.objects, c.about \notin moved.accounts
             PROVE  c.code \in CoordinatorCodes
  BY DEF OnlyMovedRowsMismatch
<1>1. c \in ShownChecks /\ c.severity = "error"
  BY DEF ShownErrors
<1>2. PICK x : \/ OfUpload(readModel, x, c) \/ OfAccount(readModel, x, c)
               \/ OfCoordinator(readModel, x, c)
  BY <1>1, WhatIsShown, ReportChecks
<1>3. c.about = x /\ x \notin moved.objects /\ x \notin moved.accounts
  BY <1>2, ReportNames
<1>4. ASSUME OfAccount(readModel, x, c) PROVE FALSE
  <2>1. CASE reader.route = "object"
    <3>1. x \in DOMAIN readModel.objects
      BY <1>1, <1>3, <2>1, WhatIsShown
    <3>2. x \in ObjectId /\ x \in Account
      BY <1>4, <3>1, FinishedReads, FinishedAccounts DEF OfAccount
    <3> QED
      BY <3>2, NamesAssumption
  <2>2. CASE reader.route # "object"
    <3>1. reader.route \notin {"object", "datasets", "coordinators"}
      BY <1>1, <2>2, WhatIsShown
    <3> QED
      BY <1>3, <1>4, <3>1, AccountRaisesNothing
  <2> QED
    BY <2>1, <2>2
<1>5. ~OfUpload(readModel, x, c)
      /\ (OfCoordinator(readModel, x, c) => c.code \in CoordinatorCodes)
  BY <1>1, <1>3, UploadRaisesNothing
<1> QED
  BY <1>2, <1>4, <1>5

LEMMA ReportInvAlways == DRSpec => []ReportInv
<1>1. Spec => []ListsExact
  BY TypeCorrect, ListsInit, ListsStep, PTL DEF Spec
<1>2. /\ TypeOK /\ IndexMatchesStatus /\ LedgerMatchesUploads /\ Outcomes /\ ListsExact
      /\ TraversalInv /\ ReadsInv
      => ReportInv
  BY DEF ReportInv, ListsExact, RolesExact
<1> QED
  BY <1>1, <1>2, ReadersLeaveTheRegistry, TypeCorrect, IndexCorrect, LedgerCorrect,
     OutcomesAlways, TraversalInvariant, ReadsInvariant, PTL

\* However the registry moves between the reads of a request, the answer shows
\* an error only about an upload or an account that moved, or about the
\* coordinator of an upload in progress (buildReconciliation over the model of
\* readRegistryModelForSurface).
THEOREM MismatchesExplained == DRSpec => []OnlyMovedRowsMismatch
<1>1. ReportInv => OnlyMovedRowsMismatch
  BY MovedRowsOnly
<1> QED
  BY <1>1, ReportInvAlways, PTL

-----------------------------------------------------------------------------
(* A registry that did not move *)

\* The report sees the coordinator of an upload in progress as the contract
\* does, on every route that shows a check.
LEMMA CoordinatorReported ==
  ASSUME ReportInv, Done, ~moved.any, NEW o \in DOMAIN readModel.objects,
         reader.route \notin {"datasets", "coordinators"},
         objects[o].status = "Uploading"
  PROVE  (\E c : OfCoordinator(readModel, o, c))
           <=> ~ActiveCoordinator(objects[o].coordinator)
<1>1. PICK m, D, d, c, rows :
        /\ m = readModel /\ D = DetailsOf(m) /\ d = DetailOf(m, o)
        /\ c = objects[o].coordinator /\ rows = CoordinatorsOf(m)
  OBVIOUS
<1>2. /\ ModelTrue(m, World) /\ History(reader.includeTerminal, World)
      /\ o \in ObjectId
  BY <1>1, FinishedReads
<1>3. /\ moved.objects = {} /\ Len(coordinatorAddresses) = dueLengths["coordinators"]
      /\ \A k \in DOMAIN m.coordinators : m.coordinators[k] = coordinatorPolicies[k]
  BY <1>2, WorldFields DEF History, ModelTrue
<1>4. Shows(d, objects[o], receipts[o]) /\ Outcome(objects[o], receipts[o])
  BY <1>1, <1>3, FinishedDetail
<1>5. /\ o \in DOMAIN D /\ D[o] = d
  BY <1>1, DetailsShown
<1>6. c \in Address /\ c # Zero
  <2>1. c # Zero
    BY <1>1, <1>4 DEF Outcome
  <2>2. objects[o] \in StorageObject
    BY <1>2 DEF ReportInv, TypeOK
  <2> QED
    BY <1>1, <2>1, <2>2 DEF StorageObject
<1>7. d.object.status = "Uploading" /\ d.object.coordinator = c
  BY <1>1, <1>4 DEF Shows
<1>8. PICK pol : pol = Reconcile!FieldOf(m.coordinators, c,
                          [allowed |-> FALSE, sessionKeyExpiresAt |-> 0])
  OBVIOUS
<1>9. /\ rows[c].allowed = pol.allowed
      /\ rows[c].sessionStatus = Reconcile!CoordinatorSessionStatus(pol, now)
  <2>1. c \in DOMAIN m.coordinators
               \cup ({D[q].object.coordinator : q \in DOMAIN D} \ {Zero})
    BY <1>5, <1>6, <1>7
  <2> QED
    BY <1>1, <1>8, <2>1 DEF CoordinatorsOf, Reconcile!BuildCoordinatorRows
<1>10. c \in Range(coordinatorAddresses) => c \in DOMAIN m.coordinators
  <2>1. "coordinators" \in Range(SurfacesForRoute(reader.route))
    <3>1. \/ SurfacesForRoute(reader.route) = FullRegistrySurfaces
          \/ SurfacesForRoute(reader.route) = <<"objectId", "datasets", "coordinators">>
      BY DEF SurfacesForRoute
    <3>2. /\ FullRegistrySurfaces[4] = "coordinators" /\ 4 \in DOMAIN FullRegistrySurfaces
          /\ <<"objectId", "datasets", "coordinators">>[3] = "coordinators"
          /\ 3 \in DOMAIN <<"objectId", "datasets", "coordinators">>
      BY DEF FullRegistrySurfaces
    <3> QED
      BY <3>1, <3>2 DEF Range
  <2>2. /\ LeftBehindOK(reader, m, Ground) /\ ~Missed(reader, m)
        /\ reader.surface = "done"
    BY <1>1 DEF ReportInv, TraversalInv, TraversalOK, Done, Missed
  <2>3. reader.rest = <<>> /\ Range(reader.rest) = {}
    BY <2>2 DEF LeftBehindOK, Range
  <2>4. Complete("coordinators", m, Ground)
    BY <2>1, <2>2, <2>3 DEF LeftBehindOK
  <2>5. \A i \in 1..Len(coordinatorAddresses) :
          coordinatorAddresses[i] \in DOMAIN m.coordinators
    BY <1>3, <2>4, GroundFields
    DEF Complete, KeysOf, OffsetSurfaces, OffsetList
  <2>6. coordinatorAddresses \in Seq(Address)
    BY DEF ReportInv, TypeOK
  <2> QED
    BY <2>5, <2>6 DEF Range
<1>11. /\ pol.allowed <=> coordinatorPolicies[c].allowed
       /\ pol.allowed => pol = coordinatorPolicies[c]
  <2>1. CASE c \in DOMAIN m.coordinators
    BY <1>3, <1>8, <2>1 DEF Reconcile!FieldOf
  <2>2. CASE c \notin DOMAIN m.coordinators
    <3>1. ~pol.allowed
      BY <1>8, <2>2 DEF Reconcile!FieldOf
    <3>2. ~coordinatorPolicies[c].allowed
      BY <1>6, <1>10, <2>2 DEF ReportInv, CoordinatorsExact
    <3> QED
      BY <3>1, <3>2
  <2> QED
    BY <2>1, <2>2
<1>12. coordinatorPolicies[c] \in CoordinatorPolicy /\ now \in Nat
  BY <1>6 DEF ReportInv, TypeOK
<1>13. ActiveCoordinator(c)
         <=> /\ pol.allowed
             /\ Reconcile!CoordinatorSessionStatus(pol, now) # "expired"
  BY <1>11, <1>12 DEF ActiveCoordinator, CoordinatorPolicy,
                      Reconcile!CoordinatorSessionStatus
<1>14. Reconcile!CoordinatorChecks(d, rows, o) = {}
         <=> rows[c].allowed /\ rows[c].sessionStatus # "expired"
  BY <1>6, <1>7 DEF Reconcile!CoordinatorChecks, Reconcile!CheckIf
<1>15. (\E e : OfCoordinator(m, o, e)) <=> Reconcile!CoordinatorChecks(d, rows, o) # {}
  BY <1>1 DEF OfCoordinator
<1> QED
  BY <1>1, <1>9, <1>13, <1>14, <1>15

LEMMA QuietReports ==
  ASSUME ReportInv
  PROVE  QuietAnswersTrue
<1> SUFFICES ASSUME Done, ~moved.any, reader.includeTerminal,
                    NEW o \in DOMAIN readModel.objects
             PROVE  /\ \A c \in ShownErrors : c.code \in CoordinatorCodes
                    /\ ShownChecks # {} =>
                         (Reconcile!ChecksAbout(ShownErrors, o) # {}
                            <=> /\ objects[o].status = "Uploading"
                                /\ ~ActiveCoordinator(objects[o].coordinator))
  BY DEF QuietAnswersTrue
<1>1. moved.objects = {} /\ moved.accounts = {}
  BY FinishedReads, WorldFields DEF History
<1>2. \A c \in ShownErrors : c.code \in CoordinatorCodes
  BY <1>1, MovedRowsOnly DEF OnlyMovedRowsMismatch
<1>3. ASSUME NEW c, OfCoordinator(readModel, o, c)
      PROVE  c.about = o /\ c.severity = "error" /\ objects[o].status = "Uploading"
  <2>1. PICK d : d = DetailOf(readModel, o)
    OBVIOUS
  <2>2. Shows(d, objects[o], receipts[o])
    BY <1>1, <2>1, FinishedDetail
  <2> QED
    BY <1>3, <2>1, <2>2, CoordinatorCheckNames DEF OfCoordinator, Shows
<1>4. ASSUME ShownChecks # {}
      PROVE  Reconcile!ChecksAbout(ShownErrors, o) # {}
               <=> /\ objects[o].status = "Uploading"
                   /\ ~ActiveCoordinator(objects[o].coordinator)
  <2>1. reader.route \notin {"datasets", "coordinators"}
    BY <1>4, WhatIsShown
  <2>2. reader.route = "object" => o = reader.objectId
    BY FinishedReads DEF Pending
  <2>3. ASSUME NEW c, OfCoordinator(readModel, o, c)
        PROVE  c \in Reconcile!ChecksAbout(ShownErrors, o)
    <3>1. c \in ChecksOf(readModel)
      BY <2>3, ReportChecks
    <3>2. c \in ShownChecks
      BY <1>3, <2>1, <2>2, <2>3, <3>1, WhatIsShown
    <3> QED
      BY <1>3, <2>3, <3>2 DEF ShownErrors, Reconcile!ChecksAbout
  <2>4. ASSUME NEW c \in Reconcile!ChecksAbout(ShownErrors, o)
        PROVE  OfCoordinator(readModel, o, c)
    <3>1. c \in ShownChecks /\ c.severity = "error" /\ c.about = o
      BY DEF ShownErrors, Reconcile!ChecksAbout
    <3>2. PICK x : \/ OfUpload(readModel, x, c) \/ OfAccount(readModel, x, c)
                   \/ OfCoordinator(readModel, x, c)
      BY <3>1, WhatIsShown, ReportChecks
    <3>3. x = o
      BY <3>1, <3>2, ReportNames
    <3>4. ~OfUpload(readModel, o, c)
      BY <1>1, <3>1, UploadRaisesNothing
    <3>5. ~OfAccount(readModel, o, c)
      BY FinishedReads, FinishedAccounts, NamesAssumption DEF OfAccount
    <3> QED
      BY <3>2, <3>3, <3>4, <3>5
  <2>5. Reconcile!ChecksAbout(ShownErrors, o) # {} <=> \E c : OfCoordinator(readModel, o, c)
    BY <2>3, <2>4
  <2>6. CASE objects[o].status = "Uploading"
    BY <2>1, <2>5, <2>6, CoordinatorReported
  <2>7. CASE objects[o].status # "Uploading"
    BY <1>3, <2>5, <2>7
  <2> QED
    BY <2>6, <2>7
<1> QED
  BY <1>2, <1>4

\* On a registry that did not move meanwhile, the answer of every route shows
\* exactly the errors there are.
THEOREM QuietReportsTrue == DRSpec => []QuietAnswersTrue
<1>1. ReportInv => QuietAnswersTrue
  BY QuietReports
<1> QED
  BY <1>1, ReportInvAlways, PTL

-----------------------------------------------------------------------------
(* The report of one page *)

KeysRead(reads, kind) == {read[2] : read \in {r \in reads : r[1] = kind}}

\* An upload that is read, and its row and receipts, at one block.
LEMMA ReadAtOnce ==
  ASSUME NEW reads, NEW S, KeysRead(reads, "object") = S,
         KeysRead(reads, "copies") = S, KeysRead(reads, "payer") = S
  PROVE  /\ DOMAIN ModelOf(reads).objects = S
         /\ \A o \in S :
              /\ ModelOf(reads).objects[o] = GetStorageObject(o)
              /\ o \in DOMAIN ModelOf(reads).copyReceipts
              /\ ModelOf(reads).copyReceipts[o] = GetCopyReceipts(o)
              /\ o \in DOMAIN ModelOf(reads).receiptPayers
              /\ ModelOf(reads).receiptPayers[o] = receipts[o].payer
<1>1. PICK K1, K2, K3 : /\ K1 = KeysRead(reads, "object")
                        /\ K2 = KeysRead(reads, "copies")
                        /\ K3 = KeysRead(reads, "payer")
  OBVIOUS
<1>2. /\ ModelOf(reads).objects = [o \in K1 |-> GetStorageObject(o)]
      /\ ModelOf(reads).copyReceipts = [o \in K2 |-> GetCopyReceipts(o)]
      /\ ModelOf(reads).receiptPayers = [o \in K3 |-> receipts[o].payer]
  BY <1>1 DEF ModelOf, KeysRead
<1> QED
  BY <1>1, <1>2

\* What a page reads of its uploads, and the reads of everything.
LEMMA PageKeys ==
  ASSUME NEW S, NEW kind \in OfObject
  PROVE  KeysRead(PageReads(S), kind) = S
<1> DEFINE reads == PageReads(S)
<1>1. \A t : t \in reads <=>
        \E o \in S : t \in {<<"object", o>>, <<"copies", o>>, <<"payer", o>>}
  BY DEF PageReads, DetailReads, OffsetSurfaces
<1> HIDE DEF reads
<1>2. ASSUME NEW x \in KeysRead(reads, kind) PROVE x \in S
  <2>1. PICK t \in reads : t[1] = kind /\ x = t[2]
    BY DEF KeysRead
  <2> QED
    BY <1>1, <2>1
<1>3. ASSUME NEW o \in S PROVE o \in KeysRead(reads, kind)
  <2>1. <<kind, o>> \in reads
    BY <1>1 DEF OfObject
  <2> QED
    BY <2>1 DEF KeysRead
<1>4. KeysRead(reads, kind) = S
  BY <1>2, <1>3
<1> QED
  BY <1>4 DEF reads

LEMMA AllKeys ==
  ASSUME NEW kind \in OfObject
  PROVE  KeysRead(AllReads, kind) = IssuedIds
<1>1. \A t \in ListReads : t[1] \in OffsetSurfaces
  BY DEF ListReads
<1>2. AllReads = PageReads(IssuedIds) \cup ListReads
  BY DEF AllReads
<1>3. KeysRead(PageReads(IssuedIds), kind) = IssuedIds
  BY PageKeys
<1>4. kind \notin OffsetSurfaces
  BY DEF OfObject, OffsetSurfaces
<1>5. KeysRead(AllReads, kind) = KeysRead(PageReads(IssuedIds), kind)
  BY <1>1, <1>2, <1>4 DEF KeysRead
<1> QED
  BY <1>3, <1>5

\* The checks of an upload that need nothing but its own reads.
LEMMA SameChecks ==
  ASSUME NEW m, NEW h, NEW o \in DOMAIN m.objects, o \in DOMAIN h.objects,
         o \in DOMAIN m.copyReceipts, o \in DOMAIN h.copyReceipts,
         o \in DOMAIN m.receiptPayers, o \in DOMAIN h.receiptPayers,
         m.objects[o] = h.objects[o], m.copyReceipts[o] = h.copyReceipts[o],
         m.receiptPayers[o] = h.receiptPayers[o],
         NEW c, c.code # "missing_dataset_record", OfUpload(m, o, c)
  PROVE  OfUpload(h, o, c)
<1>1. PICK d, e : d = DetailOf(m, o) /\ e = DetailOf(h, o)
  OBVIOUS
<1>2. /\ d.object = e.object /\ d.copyReceipts = e.copyReceipts
      /\ d.receiptPayer = e.receiptPayer /\ d.focEvidence = e.focEvidence
  <2> PICK row, copies, payer :
        row = m.objects[o] /\ copies = m.copyReceipts[o] /\ payer = m.receiptPayers[o]
    OBVIOUS
  <2>1. /\ d.object = Reconcile!NormalizeObject(row)
        /\ e.object = Reconcile!NormalizeObject(row)
    BY <1>1, DetailNormalizes
  <2>2. /\ d.copyReceipts = copies /\ d.receiptPayer = payer /\ d.focEvidence = Zero
        /\ e.copyReceipts = copies /\ e.receiptPayer = payer /\ e.focEvidence = Zero
    BY <1>1 DEF DetailOf, Reconcile!BuildObjectDetail, Reconcile!FieldOf
  <2> QED
    BY <2>1, <2>2
<1>3. c \in Reconcile!ObjectChecks(d, o)
  BY <1>1 DEF OfUpload
<1>4. ASSUME NEW i, NEW x, x = [Reconcile!Check("warning", "missing_dataset_record", o)
                                  EXCEPT !.copy = i]
      PROVE  x.code = "missing_dataset_record"
  BY <1>4 DEF Reconcile!Check
<1> DEFINE rest(f) ==
      Reconcile!CheckIf(/\ f.object.status = "Committed"
                        /\ f.object.completedCopies # f.object.requestedCopies,
                        "error", "committed_copy_count_mismatch", o)
        \cup IF f.object.status \in Reconcile!StoredStatuses THEN Reconcile!StoredChecks(f, o)
             ELSE Reconcile!CheckIf(/\ f.object.status \in {"Failed", "Cancelled", "Expired"}
                                    /\ Len(f.copyReceipts) > 0,
                                    "warning", "terminal_object_has_copy_receipts", o)
<1>5. c \in rest(d)
  BY <1>3, <1>4 DEF Reconcile!ObjectChecks
<1>6. Reconcile!StoredChecks(d, o) = Reconcile!StoredChecks(e, o)
  BY <1>2 DEF Reconcile!StoredChecks, Reconcile!FocEvidenceChecks
<1>7. c \in rest(e)
  BY <1>2, <1>5, <1>6
<1>8. c \in Reconcile!ObjectChecks(e, o)
  BY <1>7 DEF Reconcile!ObjectChecks
<1> QED
  BY <1>1, <1>8 DEF OfUpload

\* A page that does not omit a check makes it of an upload it holds.
LEMMA NotOmitted ==
  ASSUME NEW m, NEW x, NEW c, c.code \notin OmittedCodes,
         OfUpload(m, x, c) \/ OfAccount(m, x, c) \/ OfCoordinator(m, x, c)
  PROVE  OfUpload(m, x, c)
<1>1. ~OfAccount(m, x, c)
  BY AccountCheckNames DEF OfAccount, UsageCodes, OmittedCodes
<1>2. ~OfCoordinator(m, x, c)
  BY CoordinatorCheckNames DEF OfCoordinator, CoordinatorCodes, OmittedCodes
<1> QED
  BY <1>1, <1>2

LEMMA PageExact ==
  ASSUME NEW ids \in SUBSET IssuedIds
  PROVE  PageChecks(ids) = {c \in ChecksOf(ModelOf(AllReads)) :
                              c.about \in ids /\ c.code \notin OmittedCodes}
<1>1. PICK m, h : /\ m = ModelOf(PageReads(ids))
                  /\ h = ModelOf(AllReads)
  OBVIOUS
<1>2. /\ DOMAIN m.objects = ids
      /\ \A o \in ids : /\ m.objects[o] = GetStorageObject(o)
                        /\ o \in DOMAIN m.copyReceipts
                        /\ m.copyReceipts[o] = GetCopyReceipts(o)
                        /\ o \in DOMAIN m.receiptPayers
                        /\ m.receiptPayers[o] = receipts[o].payer
  <2>1. /\ KeysRead(PageReads(ids), "object") = ids
        /\ KeysRead(PageReads(ids), "copies") = ids
        /\ KeysRead(PageReads(ids), "payer") = ids
    BY PageKeys DEF OfObject
  <2> QED
    BY <1>1, <2>1, ReadAtOnce
<1>3. /\ DOMAIN h.objects = IssuedIds
      /\ \A o \in IssuedIds : /\ h.objects[o] = GetStorageObject(o)
                              /\ o \in DOMAIN h.copyReceipts
                              /\ h.copyReceipts[o] = GetCopyReceipts(o)
                              /\ o \in DOMAIN h.receiptPayers
                              /\ h.receiptPayers[o] = receipts[o].payer
  <2>1. /\ KeysRead(AllReads, "object") = IssuedIds
        /\ KeysRead(AllReads, "copies") = IssuedIds
        /\ KeysRead(AllReads, "payer") = IssuedIds
    BY AllKeys DEF OfObject
  <2> QED
    BY <1>1, <2>1, ReadAtOnce
<1>4. ASSUME NEW o \in ids, NEW c, c.code \notin OmittedCodes
      PROVE  OfUpload(m, o, c) <=> OfUpload(h, o, c)
  <2>1. c.code # "missing_dataset_record"
    BY <1>4 DEF OmittedCodes
  <2>2. OfUpload(m, o, c) => OfUpload(h, o, c)
    BY <1>2, <1>3, <2>1, SameChecks
  <2>3. OfUpload(h, o, c) => OfUpload(m, o, c)
    BY <1>2, <1>3, <2>1, SameChecks
  <2> QED
    BY <2>2, <2>3
<1>5. ASSUME NEW c, c.code \notin OmittedCodes
      PROVE  c \in ChecksOf(m) <=> c \in ChecksOf(h) /\ c.about \in ids
  <2>1. ASSUME c \in ChecksOf(m) PROVE c \in ChecksOf(h) /\ c.about \in ids
    <3>1. PICK x : OfUpload(m, x, c) \/ OfAccount(m, x, c) \/ OfCoordinator(m, x, c)
      BY <2>1, ReportChecks
    <3>2. OfUpload(m, x, c) /\ c.about = x /\ x \in ids
      BY <1>2, <1>5, <3>1, NotOmitted, ReportNames DEF OfUpload
    <3> QED
      BY <1>4, <1>5, <3>2, ReportChecks
  <2>2. ASSUME c \in ChecksOf(h), c.about \in ids PROVE c \in ChecksOf(m)
    <3>1. PICK x : OfUpload(h, x, c) \/ OfAccount(h, x, c) \/ OfCoordinator(h, x, c)
      BY <2>2, ReportChecks
    <3>2. OfUpload(h, x, c) /\ x \in ids
      BY <1>5, <2>2, <3>1, NotOmitted, ReportNames
    <3> QED
      BY <1>4, <1>5, <3>2, ReportChecks
  <2> QED
    BY <2>1, <2>2
<1>6. PageChecks(ids) = {c \in ChecksOf(m) : c.code \notin OmittedCodes}
  BY <1>1 DEF PageChecks
<1>7. \A c : c \in PageChecks(ids)
               <=> c \in ChecksOf(h) /\ c.about \in ids /\ c.code \notin OmittedCodes
  BY <1>5, <1>6
<1> QED
  BY <1>1, <1>7

\* A page of the history is of uploads that were issued.
LEMMA PageIssued ==
  ASSUME TypeOK, NEW cursor \in 0..nextObjectId - 1, NEW limit \in PageLimits
  PROVE  Range(ListAllStorageObjectIds(cursor, limit).ids) \subseteq IssuedIds
<1>1. /\ nextObjectId \in 1..(MaxObjects + 1) /\ limit \in Nat
      /\ MaxObjects \in Nat
  BY MaxObjectsAssumption, RequestsAssumption, MaxLimitAssumption DEF TypeOK
<1>2. PICK start, count : /\ start = StartObjectIdBelow(cursor)
                          /\ count = IF start < limit THEN start ELSE limit
  OBVIOUS
<1>3. start \in Nat /\ start <= nextObjectId - 1 /\ count \in Nat /\ count <= start
  BY <1>1, <1>2 DEF StartObjectIdBelow
<1>4. ListAllStorageObjectIds(cursor, limit).ids = [i \in 1..count |-> start - i + 1]
  BY <1>2 DEF ListAllStorageObjectIds, PageWith
<1>5. \A i \in 1..count : start - i + 1 \in IssuedIds
  BY <1>1, <1>3 DEF IssuedIds, ObjectId
<1> QED
  BY <1>4, <1>5 DEF Range

LEMMA DashboardShows ==
  ASSUME TypeOK
  PROVE  DashboardTrue
<1>1. PageReportExact
  BY PageIssued, PageExact DEF PageReportExact
<1>2. SessionStatusTrue
  <2> SUFFICES ASSUME NEW c \in Range(coordinatorAddresses)
               PROVE  SessionStatus(coordinatorPolicies[c]) = "active"
                        <=> ActiveCoordinator(c)
    BY DEF SessionStatusTrue
  <2>1. coordinatorAddresses \in Seq(Address)
    BY DEF TypeOK
  <2>2. c \in Address
    BY <2>1 DEF Range
  <2>3. coordinatorPolicies[c] \in CoordinatorPolicy /\ now \in Nat
    BY <2>2 DEF TypeOK
  <2> QED
    BY <2>3 DEF SessionStatus, ActiveCoordinator, CoordinatorPolicy
<1> QED
  BY <1>1, <1>2 DEF DashboardTrue

\* The dashboard's report of a page is the full report cut down to the page
\* (pageScopedReconciliation), and the session status it shows is the one the
\* contract goes by (coordinatorSessionStatus).
THEOREM DashboardReportTrue == DRSpec => []DashboardTrue
<1>1. TypeOK => DashboardTrue
  BY DashboardShows
<1> QED
  BY <1>1, ReadersLeaveTheRegistry, TypeCorrect, PTL
=============================================================================
