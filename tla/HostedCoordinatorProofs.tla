----------------------- MODULE HostedCoordinatorProofs -----------------------
(***************************************************************************)
(* The coordinator is a user of the registry like any other, so that what  *)
(* is proved of the registry holds of the composition; and what the        *)
(* coordinator answers, and how often it sends bytes, is as promised for   *)
(* any number of operations, objects, receipts and restarts.  Last, the    *)
(* receipts it makes are those the contract settles with.                  *)
(***************************************************************************)
EXTENDS HostedCoordinator, CoordinatorReceipts, FocPlatformRegistryProofs

-----------------------------------------------------------------------------
(* The registry in the composition *)

\* The coordinator's transactions are registry steps.
LEMMA MinedIsRegistryStep ==
  ASSUME HCTypeOK, NEW t \in sent, Mined(t)
  PROVE  Next
<1> DEFINE o == ObjectOf[t.key]
<1>1. t \in SentTransaction
  BY DEF HCTypeOK
<1>2. o \in ObjectId /\ Self \in Address /\ 0 \in FailureCharges
  BY <1>1, CoordinatorAssumption DEF SentTransaction
<1>3. CASE StartUpload(Self, o)
  BY <1>2, <1>3, Zenon DEF Next
<1>4. CASE FailUpload(Self, o, 0)
  BY <1>2, <1>4, Zenon DEF Next
<1>5. CASE t.op = "finalize" /\ FinalizeUpload(Self, o, t.receipt.terms)
  <2>1. t.receipt \in FocReceipts
    BY <1>1, <1>5 DEF SentTransaction
  <2>2. t.receipt.terms \in Receipts
    BY <2>1, CoordinatorAssumption DEF HashedReceipt
  <2> HIDE DEF o
  <2> QED
    BY <1>2, <1>5, <2>2, Zenon DEF Next
<1> QED
  BY <1>3, <1>4, <1>5 DEF Mined

\* So are the steps of everybody else.
LEMMA OthersAreRegistrySteps ==
  ASSUME OthersTransact
  PROVE  Next
<1>1. ASSUME UserOrOwner PROVE Next
  BY <1>1, Zenon DEF UserOrOwner, Next
<1>2. ASSUME NEW c \in Address, OtherCoordinator(c) PROVE Next
  <2>1. ASSUME NEW o \in ObjectId, NEW r \in OtherReceipts,
               FinalizeUpload(c, o, r.terms)
        PROVE  Next
    <3>1. r.terms \in Receipts
      BY CoordinatorAssumption DEF HashedReceipt
    <3> QED
      BY <2>1, <3>1, Zenon DEF Next
  <2>2. ASSUME NEW o \in ObjectId, StartUpload(c, o) PROVE Next
    BY <2>2, Zenon DEF Next
  <2>3. ASSUME NEW o \in ObjectId, NEW charge \in FailureCharges,
               FailUpload(c, o, charge)
        PROVE  Next
    BY <2>3, Zenon DEF Next
  <2> QED
    BY <1>2, <2>1, <2>2, <2>3, Zenon DEF OtherCoordinator
<1> QED
  BY <1>1, <1>2, Zenon DEF OthersTransact

LEMMA RegistryStep == HCTypeOK /\ [HCNext]_allVars => [Next]_vars
<1> SUFFICES ASSUME HCTypeOK, [HCNext]_allVars PROVE [Next]_vars
  OBVIOUS
<1>1. ASSUME NEW k \in OpKey, Execute(k) \/ Continue(k) PROVE UNCHANGED vars
  BY <1>1, Zenon DEF Execute, Continue
<1>2. CASE BlockTime
  BY <1>2, Zenon DEF BlockTime, Next
<1>3. CASE Crash
  BY <1>3, Zenon DEF Crash
<1>4. CASE UNCHANGED allVars
  BY <1>4, Zenon DEF allVars
<1> QED
  BY <1>1, <1>2, <1>3, <1>4, MinedIsRegistryStep, OthersAreRegistrySteps, Zenon
  DEF HCNext

-----------------------------------------------------------------------------
(* The process: three ways a stretch of executeUpload ends *)

\* Every stretch of a call returns, awaits again, or sends the bytes, and
\* touches its own operation only.  e, c and n are what the operation's
\* entry, call and count of FOC calls become.
Becomes(k, e, c, n) ==
  /\ store' = [store EXCEPT ![k] = e]
  /\ call' = [call EXCEPT ![k] = c]
  /\ focCalls' = [focCalls EXCEPT ![k] = n]

Awaiting(at, r) == [at |-> at, receipt |-> r, mined |-> FALSE]

LEMMA ReturnBecomes ==
  ASSUME HCTypeOK, NEW k \in OpKey, NEW e, Return(k, e)
  PROVE  Becomes(k, e, Idle, focCalls[k]) /\ sent' = sent
BY DEF Return, Becomes, HCTypeOK

LEMMA AwaitReadBecomes ==
  ASSUME HCTypeOK, NEW k \in OpKey, NEW at, NEW r, AwaitRead(k, at, r)
  PROVE  Becomes(k, store[k], Awaiting(at, r), focCalls[k]) /\ sent' = sent
BY DEF AwaitRead, Await, Awaiting, Becomes, HCTypeOK

LEMMA SendBecomes ==
  ASSUME HCTypeOK, NEW k \in OpKey, NEW op, NEW r, Send(op, k, r)
  PROVE  /\ Becomes(k, store[k], Awaiting(op, r), focCalls[k])
         /\ sent' = sent \cup {Transaction(op, k, r)}
BY DEF Send, Await, Awaiting, Becomes, HCTypeOK

LEMMA SendBytesBecomes ==
  ASSUME HCTypeOK, NEW k \in OpKey, SendBytes(k)
  PROVE  /\ sent' = sent
         /\ \/ Becomes(k, Failed, Idle, focCalls[k])
            \/ Becomes(k, store[k], Awaiting("upload", Zero), focCalls[k] + 1)
<1>1. CASE RequestExpired(k)
  BY <1>1, ReturnBecomes DEF SendBytes
<1>2. CASE ~RequestExpired(k)
  BY <1>2 DEF SendBytes, Await, Awaiting, Becomes, HCTypeOK
<1> QED
  BY <1>1, <1>2

\* The awaits before and after the bytes were handed to FOC.
BeforeFoc == {"read", "start", "recheck"}
AfterFoc  == {"readPending", "upload", "finalize", "recover", "fail"}

\* What one stretch may make of an operation.
CallOutcome(k, e, c, n) ==
  \/ \* it returns
     /\ c = Idle /\ n = focCalls[k]
     /\ \/ e = Failed
        \/ e = Absent /\ (call[k].at \in BeforeFoc \/ ~SessionActive)
        \/ \E r \in FocReceipts :
             \/ e = PendingFinalize(r)
             \/ /\ e = Completed(r)
                /\ \/ call[k].at = "finalize" /\ call[k].mined /\ r = call[k].receipt
                   \/ MatchesReceipt(k, r)
  \/ \* it goes on before FOC
     /\ e = Running /\ n = focCalls[k]
     /\ call[k].at \in BeforeFoc
     /\ c \in {Awaiting("start", Zero), Awaiting("recheck", Zero)}
  \/ \* it hands the bytes to FOC
     /\ e = Running /\ n = focCalls[k] + 1
     /\ call[k].at \in BeforeFoc
     /\ c = Awaiting("upload", Zero)
  \/ \* it goes on after FOC
     /\ e = Running /\ n = focCalls[k]
     /\ call[k].at \in AfterFoc
     /\ \/ c = Awaiting("fail", Zero)
        \/ \E r \in FocReceipts, at \in {"finalize", "recover"} : c = Awaiting(at, r)

\* Facts about a call that the cases below use.
LEMMA RunningCall ==
  ASSUME HCTypeOK, NEW k \in OpKey, call[k].at # "idle"
  PROVE  /\ store[k] = Running
         /\ call[k].at \in {"readPending", "finalize", "recover"}
              => call[k].receipt \in FocReceipts
<1>1. call[k] \in Call /\ store[k] \in StoreEntry
  BY DEF HCTypeOK
<1>2. call[k] # Idle
  BY DEF Idle
<1>3. store[k].state = "running"
  BY <1>2 DEF HCTypeOK
<1>4. store[k] = Running
  BY <1>1, <1>3 DEF StoreEntry, Absent, Running, Failed, Entry
<1> QED
  BY <1>1, <1>4 DEF Call, Idle

LEMMA ContinueOutcome ==
  ASSUME HCTypeOK, NEW k \in OpKey, Continue(k)
  PROVE  \E e, c, n : /\ Becomes(k, e, c, n) /\ CallOutcome(k, e, c, n)
                      /\ \/ sent' = sent
                         \/ \E r \in FocReceipts :
                              sent' = sent \cup {Transaction("finalize", k, r)}
                         \/ \E op \in {"start", "fail"} :
                              sent' = sent \cup {Transaction(op, k, Zero)}
<1> DEFINE Goal == \E e, c, n :
                     /\ Becomes(k, e, c, n) /\ CallOutcome(k, e, c, n)
                     /\ \/ sent' = sent
                        \/ \E r \in FocReceipts :
                             sent' = sent \cup {Transaction("finalize", k, r)}
                        \/ \E op \in {"start", "fail"} :
                             sent' = sent \cup {Transaction(op, k, Zero)}
<1> USE DEF BeforeFoc, AfterFoc
<1>f. ASSUME Return(k, Failed) PROVE Goal
  <2>1. CallOutcome(k, Failed, Idle, focCalls[k])
    BY DEF CallOutcome
  <2> QED
    BY <1>f, <2>1, ReturnBecomes
<1>a. ASSUME Return(k, Absent), call[k].at \in BeforeFoc \/ ~SessionActive
      PROVE  Goal
  <2>1. CallOutcome(k, Absent, Idle, focCalls[k])
    BY <1>a DEF CallOutcome
  <2> QED
    BY <1>a, <2>1, ReturnBecomes
<1>p. ASSUME NEW r \in FocReceipts, Return(k, PendingFinalize(r)) PROVE Goal
  <2>1. CallOutcome(k, PendingFinalize(r), Idle, focCalls[k])
    BY DEF CallOutcome
  <2> QED
    BY <1>p, <2>1, ReturnBecomes
<1>c. ASSUME NEW r \in FocReceipts, Return(k, Completed(r)),
             \/ call[k].at = "finalize" /\ call[k].mined /\ r = call[k].receipt
             \/ MatchesReceipt(k, r)
      PROVE  Goal
  <2>1. CallOutcome(k, Completed(r), Idle, focCalls[k])
    BY <1>c DEF CallOutcome
  <2> QED
    BY <1>c, <2>1, ReturnBecomes
<1>b. ASSUME SendBytes(k), call[k].at \in BeforeFoc PROVE Goal
  <2>1. store[k] = Running
    BY <1>b, RunningCall
  <2>2. CASE Becomes(k, Failed, Idle, focCalls[k])
    <3>1. CallOutcome(k, Failed, Idle, focCalls[k])
      BY DEF CallOutcome
    <3> QED
      BY <1>b, <2>2, <3>1, SendBytesBecomes
  <2>3. CASE Becomes(k, store[k], Awaiting("upload", Zero), focCalls[k] + 1)
    <3>1. CallOutcome(k, store[k], Awaiting("upload", Zero), focCalls[k] + 1)
      BY <1>b, <2>1 DEF CallOutcome
    <3> QED
      BY <1>b, <2>3, <3>1, SendBytesBecomes
  <2> QED
    BY <1>b, <2>2, <2>3, SendBytesBecomes
<1>s. ASSUME NEW r \in FocReceipts, Send("finalize", k, r), call[k].at \in AfterFoc
      PROVE  Goal
  <2>1. CallOutcome(k, store[k], Awaiting("finalize", r), focCalls[k])
    BY <1>s, RunningCall DEF CallOutcome
  <2> QED
    BY <1>s, <2>1, SendBecomes
<1>1. CASE UploadAnswered(k)
  <2>1. call[k].at = "upload"
    BY <1>1 DEF UploadAnswered
  <2>2. CASE Return(k, Failed)
    BY <1>f, <2>2
  <2>3. CASE BytesNotStored(k)
    <3>1. CASE SessionActive
      <4>1. Send("fail", k, Zero)
        BY <2>3, <3>1 DEF BytesNotStored
      <4>2. CallOutcome(k, store[k], Awaiting("fail", Zero), focCalls[k])
        BY <2>1, RunningCall DEF CallOutcome
      <4> QED
        BY <4>1, <4>2, SendBecomes
    <3>2. CASE ~SessionActive
      BY <1>a, <2>3, <3>2 DEF BytesNotStored
    <3> QED
      BY <3>1, <3>2
  <2>4. ASSUME NEW r \in FocReceipts, BytesStored(k, r) PROVE Goal
    BY <1>p, <1>s, <2>1, <2>4 DEF BytesStored
  <2> QED
    BY <1>1, <2>2, <2>3, <2>4 DEF UploadAnswered
<1>2. CASE ObjectRead(k)
  <2>1. CASE Send("start", k, Zero)
    <3>1. CallOutcome(k, store[k], Awaiting("start", Zero), focCalls[k])
      BY <1>2, RunningCall DEF CallOutcome, ObjectRead
    <3> QED
      BY <2>1, <3>1, SendBecomes
  <2> QED
    BY <1>2, <1>f, <1>a, <1>b, <2>1 DEF ObjectRead
<1>3. CASE StartAnswered(k)
  <2>1. CASE AwaitRead(k, "recheck", Zero)
    <3>1. CallOutcome(k, store[k], Awaiting("recheck", Zero), focCalls[k])
      BY <1>3, RunningCall DEF CallOutcome, StartAnswered
    <3> QED
      BY <2>1, <3>1, AwaitReadBecomes
  <2> QED
    BY <1>3, <1>b, <2>1 DEF StartAnswered
<1>4. CASE ObjectReadAgain(k)
  BY <1>4, <1>f, <1>a, <1>b DEF ObjectReadAgain
<1>5. CASE FinalizeAnswered(k)
  <2> DEFINE r == call[k].receipt
  <2>1. r \in FocReceipts /\ call[k].at = "finalize" /\ store[k] = Running
    BY <1>5, RunningCall DEF FinalizeAnswered
  <2>2. CASE AwaitRead(k, "recover", r)
    <3>1. CallOutcome(k, store[k], Awaiting("recover", r), focCalls[k])
      BY <2>1 DEF CallOutcome
    <3> QED
      BY <2>2, <3>1, AwaitReadBecomes
  <2> QED
    BY <1>5, <1>c, <2>1, <2>2 DEF FinalizeAnswered
<1>6. CASE RecoveryRead(k)
  <2>1. call[k].receipt \in FocReceipts
    BY <1>6, RunningCall DEF RecoveryRead
  <2> QED
    BY <1>6, <1>p, <1>c, <2>1 DEF RecoveryRead
<1>7. CASE PendingReadFailed(k)
  <2>1. call[k].receipt \in FocReceipts
    BY <1>7, RunningCall DEF PendingReadFailed
  <2> QED
    BY <1>7, <1>p, <2>1 DEF PendingReadFailed
<1>8. CASE PendingRead(k)
  <2>1. call[k].receipt \in FocReceipts /\ call[k].at \in AfterFoc
    BY <1>8, RunningCall DEF PendingRead
  <2> QED
    BY <1>8, <1>f, <1>p, <1>c, <1>s, <2>1 DEF PendingRead, SessionEnded
<1>9. CASE FailAnswered(k)
  BY <1>9, <1>f DEF FailAnswered
<1> QED
  BY <1>1, <1>2, <1>3, <1>4, <1>5, <1>6, <1>7, <1>8, <1>9 DEF Continue

-----------------------------------------------------------------------------
(* Types *)

LEMMA HCTypeInit == HCInit => HCTypeOK
BY CoordinatorAssumption
DEF HCInit, HCTypeOK, StoreEntry, Call, Absent, Idle, Entry

LEMMA AwaitingType ==
  /\ \A at \in {"start", "recheck", "upload", "fail"} :
       Awaiting(at, Zero) \in Call /\ Awaiting(at, Zero) # Idle
  /\ \A at \in {"finalize", "recover"}, r \in FocReceipts :
       Awaiting(at, r) \in Call /\ Awaiting(at, r) # Idle
BY DEF Awaiting, Call, Idle

LEMMA EntryType ==
  /\ Failed \in StoreEntry /\ Failed.state # "running"
  /\ Absent \in StoreEntry /\ Absent.state # "running"
  /\ Running \in StoreEntry /\ Running.state = "running"
  /\ \A r \in FocReceipts :
       /\ PendingFinalize(r) \in StoreEntry
       /\ PendingFinalize(r).state = "pending_finalize"
       /\ PendingFinalize(r).receipt = r
       /\ Completed(r) \in StoreEntry
       /\ Completed(r).state = "completed" /\ Completed(r).receipt = r
BY DEF StoreEntry, Failed, Absent, Running, PendingFinalize, Completed, Entry

LEMMA OutcomeType ==
  ASSUME HCTypeOK, NEW k \in OpKey, NEW e, NEW c, NEW n, CallOutcome(k, e, c, n)
  PROVE  /\ e \in StoreEntry /\ c \in Call /\ n \in Nat
         /\ e.state = "running" <=> c # Idle
<1>1. focCalls[k] \in Nat
  BY DEF HCTypeOK
<1>2. Idle \in Call
  BY DEF Call
<1> QED
  BY <1>1, <1>2, AwaitingType, EntryType DEF CallOutcome

LEMMA HCTypeStep == HCTypeOK /\ [HCNext]_allVars => HCTypeOK'
<1> SUFFICES ASSUME HCTypeOK, [HCNext]_allVars PROVE HCTypeOK'
  OBVIOUS
<1>1. ASSUME NEW k \in OpKey, Continue(k) PROVE HCTypeOK'
  <2>1. PICK e, c, n : /\ Becomes(k, e, c, n) /\ CallOutcome(k, e, c, n)
                       /\ \/ sent' = sent
                          \/ \E r \in FocReceipts :
                               sent' = sent \cup {Transaction("finalize", k, r)}
                          \/ \E op \in {"start", "fail"} :
                               sent' = sent \cup {Transaction(op, k, Zero)}
    BY <1>1, ContinueOutcome
  <2>2. /\ e \in StoreEntry /\ c \in Call /\ n \in Nat
        /\ e.state = "running" <=> c # Idle
    BY <2>1, OutcomeType
  <2>3. /\ store' \in [OpKey -> StoreEntry] /\ call' \in [OpKey -> Call]
        /\ focCalls' \in [OpKey -> Nat]
        /\ \A j \in OpKey : store'[j].state = "running" <=> call'[j] # Idle
    BY <2>1, <2>2 DEF Becomes, HCTypeOK
  <2>4. sent' \subseteq SentTransaction
    BY <2>1 DEF HCTypeOK, SentTransaction, Transaction
  <2>5. accepted' \in [ObjectId -> Nat]
    <3>1. ASSUME NEW taken \in {0, 1},
                 accepted' = [accepted EXCEPT ![ObjectOf[k]] = @ + taken]
          PROVE  accepted' \in [ObjectId -> Nat]
      <4>1. accepted \in [ObjectId -> Nat] /\ taken \in Nat
        BY DEF HCTypeOK
      <4>2. \A x \in Nat : x + taken \in Nat
        BY <4>1
      <4> QED
        BY <3>1, <4>1, <4>2
    <3>2. CASE accepted' = accepted
      BY <3>2 DEF HCTypeOK
    <3> QED
      BY <1>1, <3>1, <3>2 DEF Continue, UploadAnswered
  <2>6. receiptHash' = receiptHash /\ crashes' = crashes
    BY <1>1 DEF Continue
  <2> QED
    BY <2>3, <2>4, <2>5, <2>6 DEF HCTypeOK
<1>2. ASSUME NEW k \in OpKey, Execute(k) PROVE HCTypeOK'
  <2>1. /\ store' = [store EXCEPT ![k] = Running]
        /\ UNCHANGED <<focCalls, sent, receiptHash, accepted, crashes>>
    BY <1>2 DEF Execute, ExecuteUpload
  <2>2. PICK c \in Call : c # Idle /\ call' = [call EXCEPT ![k] = c]
    <3>1. CASE Await(k, "read", Zero)
      BY <3>1 DEF Await, Call, Idle
    <3>2. CASE store[k].state = "pending_finalize" /\ Await(k, "readPending", store[k].receipt)
      <4>1. store[k].receipt \in FocReceipts
        BY <3>2, EntryType DEF HCTypeOK, StoreEntry, Absent, Failed, Running, Entry
      <4> QED
        BY <3>2, <4>1 DEF Await, Call, Idle
    <3> QED
      BY <1>2, <3>1, <3>2 DEF Execute, ExecuteUpload
  <2> QED
    BY <2>1, <2>2, EntryType DEF HCTypeOK
<1>3. ASSUME NEW t \in sent, Mined(t) PROVE HCTypeOK'
  <2> DEFINE k == t.key
  <2>1. t \in SentTransaction
    BY DEF HCTypeOK
  <2>2. k \in OpKey /\ t.op \in {"start", "fail", "finalize"}
    BY <2>1 DEF SentTransaction
  <2>3. /\ sent' \subseteq SentTransaction
        /\ UNCHANGED <<store, focCalls, accepted, crashes>>
    BY <1>3 DEF Mined, HCTypeOK
  <2>4. receiptHash' \in [ObjectId -> ReceiptHash \cup {Zero}]
    <3>1. CASE t.op = "finalize"
               /\ receiptHash' = [receiptHash EXCEPT ![ObjectOf[k]] = t.receipt.hash]
      <4>1. t.receipt \in FocReceipts
        BY <2>1, <3>1 DEF SentTransaction
      <4>2. t.receipt.hash \in ReceiptHash
        BY <4>1, CoordinatorAssumption DEF HashedReceipt
      <4> QED
        BY <3>1, <4>2 DEF HCTypeOK
    <3>2. CASE UNCHANGED receiptHash
      BY <3>2 DEF HCTypeOK
    <3> QED
      BY <1>3, <3>1, <3>2 DEF Mined
  <2>5. CASE call[k].at = t.op /\ call' = [call EXCEPT ![k].mined = TRUE]
    <3>1. call[k] \in Call /\ call[k].at \in {"start", "fail", "finalize"}
      BY <2>2, <2>5 DEF HCTypeOK
    <3>2. [call[k] EXCEPT !.mined = TRUE] \in Call
      <4>1. CASE call[k] \in [at : {"read", "start", "recheck", "upload", "fail"},
                              receipt : {Zero}, mined : BOOLEAN]
        BY <4>1 DEF Call
      <4>2. CASE call[k] \in [at : {"readPending", "finalize", "recover"},
                              receipt : FocReceipts, mined : BOOLEAN]
        BY <4>2 DEF Call
      <4> QED
        BY <3>1, <4>1, <4>2 DEF Call, Idle
    <3>3. [call[k] EXCEPT !.mined = TRUE].at = call[k].at
      BY <3>1 DEF Call, Idle
    <3>4. [call[k] EXCEPT !.mined = TRUE] # Idle /\ call[k] # Idle
      BY <3>1, <3>3 DEF Idle
    <3>5. call' = [call EXCEPT ![k] = [call[k] EXCEPT !.mined = TRUE]]
      BY <2>5
    <3> QED
      BY <2>2, <2>3, <2>4, <3>2, <3>4, <3>5 DEF HCTypeOK
  <2>6. CASE call' = call
    BY <2>3, <2>4, <2>6 DEF HCTypeOK
  <2> QED
    BY <1>3, <2>5, <2>6 DEF Mined
<1>4. CASE OthersTransact
  <2>1. receiptHash' \in [ObjectId -> ReceiptHash \cup {Zero}]
    <3>1. ASSUME NEW o \in ObjectId, NEW r \in OtherReceipts,
                 receiptHash' = [receiptHash EXCEPT ![o] = r.hash]
          PROVE  receiptHash' \in [ObjectId -> ReceiptHash \cup {Zero}]
      BY <3>1, CoordinatorAssumption DEF HCTypeOK, HashedReceipt
    <3>2. CASE UNCHANGED receiptHash
      BY <3>2 DEF HCTypeOK
    <3> QED
      BY <1>4, <3>1, <3>2 DEF OthersTransact, OtherCoordinator, UserOrOwner
  <2> QED
    BY <1>4, <2>1 DEF OthersTransact, processVars, HCTypeOK
<1>5. CASE Crash
  <2>1. ASSUME NEW taken \in SUBSET OpKey, NEW o \in ObjectId
        PROVE  Cardinality({k \in taken : ObjectOf[k] = o}) \in Nat
    <3>1. IsFiniteSet({k \in taken : ObjectOf[k] = o})
      <4>1. {k \in taken : ObjectOf[k] = o} \subseteq OpKey
        OBVIOUS
      <4> QED
        BY <4>1, CoordinatorAssumption, FS_Subset
    <3> QED
      BY <3>1, FS_CardinalityType
  <2>2. accepted' \in [ObjectId -> Nat]
    <3>1. PICK taken \in SUBSET {k \in OpKey : call[k].at = "upload"} :
            accepted' = [o \in ObjectId |->
              accepted[o] + Cardinality({k \in taken : ObjectOf[k] = o})]
      BY <1>5 DEF Crash
    <3>2. ASSUME NEW o \in ObjectId
          PROVE  accepted[o] + Cardinality({k \in taken : ObjectOf[k] = o}) \in Nat
      <4> DEFINE n == Cardinality({k \in taken : ObjectOf[k] = o})
      <4>1. n \in Nat /\ accepted[o] \in Nat
        BY <2>1 DEF HCTypeOK
      <4> HIDE DEF n
      <4>2. accepted[o] + n \in Nat
        BY <4>1
      <4> QED
        BY <4>2 DEF n
    <3> QED
      BY <3>1, <3>2
  <2>3. crashes' \in 0..MaxCrashes
    BY <1>5, CoordinatorAssumption DEF Crash, HCTypeOK
  <2>4. Absent.state # "running" /\ Absent \in StoreEntry /\ Idle \in Call
    BY EntryType DEF Call
  <2> QED
    BY <1>5, <2>2, <2>3, <2>4 DEF Crash, HCTypeOK
<1>6. CASE UNCHANGED <<processVars, worldVars>>
  BY <1>6 DEF processVars, worldVars, HCTypeOK
<1> QED
  BY <1>1, <1>2, <1>3, <1>4, <1>5, <1>6 DEF HCNext, BlockTime, allVars

\* The store, the calls and the transactions under way keep their types, and
\* a call is running exactly while its entry says so.
THEOREM ProcessTypeCorrect == HCSpec => []HCTypeOK
BY HCTypeInit, HCTypeStep, PTL DEF HCSpec

\* The coordinator and its rivals take only steps of the registry, so every
\* theorem about the registry holds of the composition.
THEOREM RegistryRefined == HCSpec => Spec
<1>1. HCInit => Init
  BY DEF HCInit
<1> QED
  BY <1>1, ProcessTypeCorrect, RegistryStep, PTL DEF HCSpec, Spec

\* In particular the counters stay right under the coordinator's late and
\* repeated transactions.
THEOREM LedgerCorrectWithCoordinator == HCSpec => []LedgerMatchesUploads
BY RegistryRefined, LedgerCorrect, PTL

-----------------------------------------------------------------------------
(* Results *)

\* An upload that was finalized or failed is never written again.
LEMMA FinishedFixed ==
  ASSUME TypeOK, IssuedInOrder, [Next]_vars,
         NEW o \in ObjectId, objects[o].status \in FinalizationStatus
  PROVE  objects'[o] = objects[o]
<1> DEFINE Fixed == objects'[o] = objects[o]
<1>0. /\ objects[o].status \notin {"None", "Requested"} /\ ~MutableObject(o)
      /\ objects \in [ObjectId -> StorageObject]
  BY DEF FinalizationStatus, MutableObject, Terminal, TypeOK
<1>1. ASSUME NEW caller, NEW p, NEW signer, RequestUpload(caller, p, signer)
      PROVE  Fixed
  <2>1. objects' = [objects EXCEPT ![nextObjectId] = RequestedObject(p)]
    BY <1>1 DEF RequestUpload, RequestAccepted
  <2>2. o # nextObjectId
    <3>1. CASE o < nextObjectId
      BY <3>1 DEF TypeOK, ObjectId
    <3>2. CASE ~(o < nextObjectId)
      <4>1. objects[o] = NoObject
        BY <3>2 DEF IssuedInOrder
      <4> QED
        BY <1>0, <4>1 DEF NoObject
    <3> QED
      BY <3>1, <3>2
  <2> QED
    BY <1>0, <2>1, <2>2, Zenon
<1>2. ASSUME NEW p \in ObjectId, NEW c, StartUpload(c, p) PROVE Fixed
  BY <1>0, <1>2 DEF StartUpload, StartAccepted
<1>3. ASSUME NEW p \in ObjectId, NEW c, NEW r, FinalizeUpload(c, p, r) PROVE Fixed
  BY <1>0, <1>3 DEF FinalizeUpload, ReceiptAccepted
<1>4. ASSUME NEW p \in ObjectId, NEW c, NEW charge, FailUpload(c, p, charge)
      PROVE  Fixed
  BY <1>0, <1>4 DEF FailUpload
<1>5. ASSUME NEW p \in ObjectId, NEW status, MutableObject(p), CloseUnsettled(p, status)
      PROVE  Fixed
  BY <1>0, <1>5 DEF CloseUnsettled
<1>6. ASSUME UNCHANGED uploadVars PROVE Fixed
  BY <1>6 DEF uploadVars
<1>7. CASE UNCHANGED vars
  BY <1>6, <1>7 DEF vars
<1> QED
  BY <1>1, <1>2, <1>3, <1>4, <1>5, <1>6, <1>7
  DEF Next, Administration, CancelUpload, ExpireUpload, Tick, TransferOwnership,
      SetPolicy, SetCoordinator, SetRelayer, RecordDataset, DatasetAccepted

LEMMA ReceiptTerms ==
  ASSUME NEW r \in FocReceipts
  PROVE  r.terms \in Receipts /\ r.terms.finalizationStatus \in FinalizationStatus
<1>1. r.terms \in Receipts
  BY CoordinatorAssumption DEF HashedReceipt
<1> QED
  BY <1>1, ConstantsAssumption DEF UploadReceipt

\* Once on the chain, a receipt stays there.
LEMMA SettledStays ==
  ASSUME TypeOK, IssuedInOrder, HCTypeOK, [HCNext]_allVars,
         NEW k \in OpKey, NEW r \in FocReceipts, SettledBy(k, r)
  PROVE  SettledBy(k, r)'
<1> DEFINE o == ObjectOf[k]
<1>1. o \in ObjectId /\ objects[o].status \in FinalizationStatus
  BY CoordinatorAssumption, ReceiptTerms DEF SettledBy
<1>2. objects'[o] = objects[o]
  BY <1>1, FinishedFixed, RegistryStep
<1>3. receiptHash'[o] = receiptHash[o]
  <2>1. ~MutableObject(o) /\ receiptHash \in [ObjectId -> ReceiptHash \cup {Zero}]
    BY <1>1 DEF MutableObject, Terminal, HCTypeOK
  <2>2. ASSUME NEW p, NEW c, NEW rr, NEW hash, FinalizeUpload(c, p, rr),
               receiptHash' = [receiptHash EXCEPT ![p] = hash]
        PROVE  receiptHash'[o] = receiptHash[o]
    <3>1. MutableObject(p)
      BY <2>2 DEF FinalizeUpload, ReceiptAccepted
    <3> QED
      BY <1>1, <2>1, <2>2, <3>1
  <2>3. CASE UNCHANGED receiptHash
    BY <2>3
  <2>4. ASSUME NEW t \in sent, Mined(t) PROVE receiptHash'[o] = receiptHash[o]
    BY <2>2, <2>3, <2>4 DEF Mined
  <2>5. CASE OthersTransact
    BY <2>2, <2>3, <2>5 DEF OthersTransact, OtherCoordinator, UserOrOwner
  <2>6. ASSUME NEW j \in OpKey, Execute(j) \/ Continue(j)
        PROVE  UNCHANGED receiptHash
    BY <2>6, Zenon DEF Execute, Continue
  <2>7. CASE BlockTime \/ Crash \/ UNCHANGED allVars
    BY <2>3, <2>7 DEF BlockTime, Crash, worldVars, allVars
  <2> QED
    BY <2>3, <2>4, <2>5, <2>6, <2>7 DEF HCNext
<1> QED
  BY <1>2, <1>3 DEF SettledBy

\* A result, and a finalizeUpload mined for a running call, are on the chain.
ResultAt(k) ==
  /\ store[k].state = "completed" => SettledBy(k, store[k].receipt)
  /\ call[k].at = "finalize" /\ call[k].mined => SettledBy(k, call[k].receipt)

ResultInv == \A k \in OpKey : ResultAt(k)

LEMMA SettledByHeld ==
  ASSUME NEW k \in OpKey, NEW r, SettledBy(k, r)'
  PROVE  /\ store'[k].receipt = r => SettledBy(k, store[k].receipt)'
         /\ call'[k].receipt = r => SettledBy(k, call[k].receipt)'
BY DEF SettledBy

\* Mining the transaction puts its receipt on the chain.
LEMMA MinedSettles ==
  ASSUME TypeOK, HCTypeOK, NEW t \in sent, Mined(t), t.op = "finalize"
  PROVE  SettledBy(t.key, t.receipt)'
<1> DEFINE o == ObjectOf[t.key]
           r == t.receipt.terms
<1>1. t \in SentTransaction
  BY DEF HCTypeOK
<1>2. o \in ObjectId
  BY <1>1, CoordinatorAssumption DEF SentTransaction
<1>3. /\ objects' = [objects EXCEPT ![o] = FinalizedObject(objects[o], Self, r)]
      /\ receiptHash' = [receiptHash EXCEPT ![o] = t.receipt.hash]
  BY DEF Mined, FinalizeUpload, ReceiptAccepted
<1>4. /\ objects'[o] = FinalizedObject(objects[o], Self, r)
      /\ receiptHash'[o] = t.receipt.hash
      /\ objects[o] \in StorageObject
  BY <1>2, <1>3 DEF TypeOK, HCTypeOK
<1>5. /\ objects'[o].status = r.finalizationStatus
      /\ objects'[o].completedCopies = r.completedCopies
      /\ objects'[o].actualCost = r.actualCost
  BY <1>4 DEF FinalizedObject, StorageObject
<1> QED
  BY <1>4, <1>5 DEF SettledBy

LEMMA ResultInit == HCInit => ResultInv
BY DEF HCInit, ResultInv, ResultAt, Absent, Idle, Entry

LEMMA HeldTypes ==
  ASSUME HCTypeOK, NEW k \in OpKey
  PROVE  /\ call[k].at = "finalize" => call[k].receipt \in FocReceipts
         /\ store[k].state = "completed" => store[k].receipt \in FocReceipts
<1>1. call[k] \in Call /\ store[k] \in StoreEntry
  BY DEF HCTypeOK
<1> QED
  BY <1>1 DEF Call, Idle, StoreEntry, Absent, Running, Failed, Entry

\* An entry and a call that stay keep what was on the chain.
LEMMA EntryKept ==
  ASSUME TypeOK, IssuedInOrder, HCTypeOK, ResultInv, [HCNext]_allVars,
         NEW k \in OpKey, store'[k] = store[k], store[k].state = "completed"
  PROVE  SettledBy(k, store[k].receipt)'
<1>1. PICK r \in FocReceipts : r = store[k].receipt
  BY HeldTypes
<1>2. SettledBy(k, r)
  BY <1>1 DEF ResultInv, ResultAt
<1> QED
  BY <1>1, <1>2, SettledStays, SettledByHeld

LEMMA CallKept ==
  ASSUME TypeOK, IssuedInOrder, HCTypeOK, ResultInv, [HCNext]_allVars,
         NEW k \in OpKey, call'[k] = call[k],
         call[k].at = "finalize", call[k].mined
  PROVE  SettledBy(k, call[k].receipt)'
<1>1. PICK r \in FocReceipts : r = call[k].receipt
  BY HeldTypes
<1>2. SettledBy(k, r)
  BY <1>1 DEF ResultInv, ResultAt
<1> QED
  BY <1>1, <1>2, SettledStays, SettledByHeld

LEMMA ResultStep ==
  TypeOK /\ IssuedInOrder /\ HCTypeOK /\ ResultInv /\ [HCNext]_allVars => ResultInv'
<1> SUFFICES ASSUME TypeOK, IssuedInOrder, HCTypeOK, ResultInv, [HCNext]_allVars
             PROVE  ResultInv'
  OBVIOUS
<1>1. ASSUME NEW k \in OpKey, store'[k] = store[k], call'[k] = call[k]
      PROVE  ResultAt(k)'
  BY <1>1, EntryKept, CallKept DEF ResultAt
<1>2. ASSUME NEW j \in OpKey, Continue(j), NEW k \in OpKey PROVE ResultAt(k)'
  <2>1. PICK e, c, n : Becomes(j, e, c, n) /\ CallOutcome(j, e, c, n)
    BY <1>2, ContinueOutcome
  <2>2. CASE k # j
    BY <1>1, <2>1, <2>2 DEF Becomes, HCTypeOK
  <2>3. CASE k = j
    <3>1. store'[k] = e /\ call'[k] = c
      BY <2>1, <2>3 DEF Becomes, HCTypeOK
    <3>2. ~(c.at = "finalize" /\ c.mined)
      BY <2>1 DEF CallOutcome, Idle, Awaiting
    <3>3. ASSUME NEW r \in FocReceipts, e = Completed(r) PROVE SettledBy(k, r)
      <4>1. e.state = "completed" /\ e.receipt = r
        BY <3>3, EntryType
      <4>2. e # Failed /\ e # Absent /\ e # Running
        BY <4>1, EntryType DEF Failed, Absent, Running, Entry
      <4>3. \A q \in FocReceipts : e # PendingFinalize(q)
        BY <4>1, EntryType
      <4>4. \A q \in FocReceipts : e = Completed(q) => q = r
        BY <4>1, EntryType
      <4>5. \/ call[j].at = "finalize" /\ call[j].mined /\ r = call[j].receipt
            \/ MatchesReceipt(j, r)
        BY <2>1, <4>2, <4>3, <4>4 DEF CallOutcome
      <4> QED
        BY <2>3, <4>5 DEF ResultInv, ResultAt, MatchesReceipt, SettledBy
    <3>4. ASSUME e.state = "completed"
          PROVE  \E r \in FocReceipts : e = Completed(r)
      <4>1. e # Failed /\ e # Absent /\ e # Running
        BY <3>4 DEF Failed, Absent, Running, Entry
      <4>2. \A q \in FocReceipts : e # PendingFinalize(q)
        BY <3>4, EntryType
      <4> QED
        BY <2>1, <4>1, <4>2 DEF CallOutcome
    <3>5. ASSUME e.state = "completed" PROVE SettledBy(k, store[k].receipt)'
      <4>1. PICK r \in FocReceipts : e = Completed(r)
        BY <3>4, <3>5
      <4>2. store'[k].receipt = r
        BY <3>1, <4>1, EntryType
      <4>3. SettledBy(k, r)'
        BY <3>3, <4>1, SettledStays
      <4> QED
        BY <4>2, <4>3, SettledByHeld
    <3> QED
      BY <3>1, <3>2, <3>5 DEF ResultAt
  <2> QED
    BY <2>2, <2>3
<1>3. ASSUME NEW j \in OpKey, Execute(j), NEW k \in OpKey PROVE ResultAt(k)'
  <2>1. CASE k # j
    <3>1. store'[k] = store[k] /\ call'[k] = call[k]
      BY <1>3, <2>1 DEF Execute, ExecuteUpload, Await, HCTypeOK
    <3> QED
      BY <1>1, <3>1
  <2>2. CASE k = j
    <3>1. store'[k] = Running /\ call'[k].at \in {"read", "readPending"}
      BY <1>3, <2>2 DEF Execute, ExecuteUpload, Await, HCTypeOK
    <3> QED
      BY <3>1 DEF Running, Entry, ResultAt
  <2> QED
    BY <2>1, <2>2
<1>4. ASSUME NEW t \in sent, Mined(t), NEW k \in OpKey PROVE ResultAt(k)'
  <2>1. store' = store
    BY <1>4 DEF Mined
  <2>2. CASE call'[k] = call[k]
    BY <1>1, <2>1, <2>2
  <2>3. CASE call'[k] # call[k]
    <3>1. /\ k = t.key /\ call[k].at = t.op /\ call[k].receipt = t.receipt
          /\ call' = [call EXCEPT ![k].mined = TRUE]
      BY <1>4, <2>3 DEF Mined, HCTypeOK
    <3>2. call'[k].at = call[k].at /\ call'[k].receipt = call[k].receipt
      <4>1. call[k] \in Call /\ call \in [OpKey -> Call]
        BY DEF HCTypeOK
      <4>2. call'[k] = [call[k] EXCEPT !.mined = TRUE]
        BY <3>1, <4>1, Zenon
      <4> QED
        BY <4>1, <4>2 DEF Call, Idle
    <3>3. store'[k].state = "completed" => SettledBy(k, store[k].receipt)'
      BY <2>1, EntryKept
    <3>4. ASSUME call'[k].at = "finalize" PROVE SettledBy(k, call[k].receipt)'
      <4>1. SettledBy(k, t.receipt)'
        BY <1>4, <3>1, <3>2, <3>4, MinedSettles
      <4>2. call'[k].receipt = t.receipt
        BY <3>1, <3>2
      <4> QED
        BY <4>1, <4>2, SettledByHeld
    <3> QED
      BY <3>3, <3>4 DEF ResultAt
  <2> QED
    BY <2>2, <2>3
<1>5. ASSUME Crash, NEW k \in OpKey PROVE ResultAt(k)'
  BY <1>5 DEF Crash, Absent, Idle, Entry, ResultAt
<1>6. ASSUME UNCHANGED <<store, call>>, NEW k \in OpKey PROVE ResultAt(k)'
  BY <1>1, <1>6
<1>7. ASSUME NEW k \in OpKey PROVE ResultAt(k)'
  BY <1>2, <1>3, <1>4, <1>5, <1>6, <1>7
  DEF HCNext, BlockTime, OthersTransact, processVars, allVars
<1> QED
  BY <1>7 DEF ResultInv

\* What an operation answered with is on the chain, for ever.
THEOREM ResultsCorrect == HCSpec => []ResultIsOnChain
<1>1. IndexMatchesStatus => IssuedInOrder
  BY DEF IndexMatchesStatus
<1>2. ResultInv => ResultIsOnChain
  BY DEF ResultInv, ResultAt, ResultIsOnChain
<1> QED
  BY <1>1, <1>2, RegistryRefined, TypeCorrect, IndexCorrect, ProcessTypeCorrect,
     ResultInit, ResultStep, PTL
  DEF HCSpec

-----------------------------------------------------------------------------
(* Bytes are sent once per operation *)

\* Where an operation stands once its bytes were handed to FOC: none of
\* these leads back to an await before FOC.
BytesSpent(k) ==
  \/ call[k].at \in AfterFoc
  \/ store[k].state \in {"failed", "completed", "pending_finalize"}
  \/ store[k] = Absent /\ ~SessionActive

BytesInv ==
  \A k \in OpKey : focCalls[k] = 0 \/ (focCalls[k] = 1 /\ BytesSpent(k))

LEMMA BytesInit == HCInit => BytesInv
BY DEF HCInit, BytesInv

\* A session that ended does not start again.
LEMMA SessionStaysEnded ==
  ASSUME HCTypeOK, TypeOK, [HCNext]_allVars, ~SessionActive
  PROVE  ~SessionActive'
<1>1. now \in Nat
  BY DEF TypeOK
<1>2. now' = now \/ now' = now + 1
  <2>1. [Next]_vars
    BY RegistryStep
  <2> QED
    BY <2>1
    DEF Next, Administration, RequestUpload, RequestAccepted, StartUpload, StartAccepted, FinalizeUpload, ReceiptAccepted,
        FailUpload, CancelUpload, ExpireUpload, CloseUnsettled,
        TransferOwnership, SetPolicy, SetCoordinator, SetRelayer,
        RecordDataset, DatasetAccepted, Tick, vars
<1> QED
  BY <1>1, <1>2, CoordinatorAssumption DEF SessionActive

\* A call that is still before FOC has not sent the bytes.
LEMMA BeforeFocUnsent ==
  ASSUME HCTypeOK, BytesInv, NEW k \in OpKey, call[k].at \in BeforeFoc
  PROVE  focCalls[k] = 0
<1>1. store[k] = Running
  BY RunningCall DEF BeforeFoc
<1>2. ~BytesSpent(k)
  BY <1>1 DEF BytesSpent, BeforeFoc, AfterFoc, Running, Absent, Entry
<1> QED
  BY <1>2 DEF BytesInv

LEMMA BytesStep ==
  TypeOK /\ HCTypeOK /\ BytesInv /\ [HCNext]_allVars => BytesInv'
<1> SUFFICES ASSUME TypeOK, HCTypeOK, BytesInv, [HCNext]_allVars
             PROVE  BytesInv'
  OBVIOUS
<1> DEFINE Once(k) == focCalls[k] = 0 \/ (focCalls[k] = 1 /\ BytesSpent(k))
<1>1. ASSUME NEW k \in OpKey, focCalls'[k] = focCalls[k], store'[k] = store[k],
             call'[k].at = call[k].at
      PROVE  Once(k)'
  BY <1>1, SessionStaysEnded DEF BytesInv, BytesSpent
<1>2. ASSUME NEW j \in OpKey, Continue(j), NEW k \in OpKey PROVE Once(k)'
  <2>1. PICK e, c, n : Becomes(j, e, c, n) /\ CallOutcome(j, e, c, n)
    BY <1>2, ContinueOutcome
  <2>2. CASE k # j
    BY <1>1, <2>1, <2>2 DEF Becomes, HCTypeOK
  <2>3. CASE k = j
    <3>1. store'[k] = e /\ call'[k] = c /\ focCalls'[k] = n
      BY <2>1, <2>3 DEF Becomes, HCTypeOK
    <3>2. SessionActive' <=> SessionActive
      BY <1>2 DEF Continue, vars, SessionActive
    <3>3. focCalls[k] = 0 \/ focCalls[k] = 1
      BY DEF BytesInv
    <3>4. CASE n = focCalls[k] /\ call[j].at \in BeforeFoc
      BY <2>3, <3>1, <3>4, BeforeFocUnsent
    <3>5. CASE n = focCalls[k] + 1 /\ c = Awaiting("upload", Zero)
               /\ call[j].at \in BeforeFoc
      BY <2>3, <3>1, <3>5, BeforeFocUnsent DEF Awaiting, BytesSpent, AfterFoc
    <3>6. CASE n = focCalls[k] /\ e = Absent /\ ~SessionActive
      BY <3>1, <3>2, <3>3, <3>6 DEF BytesSpent
    <3>7. CASE n = focCalls[k]
               /\ e.state \in {"failed", "completed", "pending_finalize"}
      BY <3>1, <3>3, <3>7 DEF BytesSpent
    <3>8. CASE n = focCalls[k] /\ c.at \in AfterFoc
      BY <3>1, <3>3, <3>8 DEF BytesSpent
    <3>9. \A r \in FocReceipts :
            /\ PendingFinalize(r).state = "pending_finalize"
            /\ Completed(r).state = "completed"
      BY EntryType
    <3>10. Failed.state = "failed"
      BY DEF Failed, Entry
    <3>11. /\ Awaiting("fail", Zero).at \in AfterFoc
           /\ \A r, at : at \in {"finalize", "recover"} => Awaiting(at, r).at \in AfterFoc
      BY DEF Awaiting, AfterFoc
    <3> QED
      BY <2>1, <2>3, <3>4, <3>5, <3>6, <3>7, <3>8, <3>9, <3>10, <3>11 DEF CallOutcome
  <2> QED
    BY <2>2, <2>3
<1>3. ASSUME NEW j \in OpKey, Execute(j), NEW k \in OpKey PROVE Once(k)'
  <2>1. focCalls' = focCalls
    BY <1>3 DEF Execute, ExecuteUpload
  <2>2. CASE k # j
    BY <1>1, <1>3, <2>1, <2>2 DEF Execute, ExecuteUpload, Await, HCTypeOK
  <2>3. CASE k = j /\ store[k].state = "pending_finalize"
    <3>1. call'[k].at = "readPending"
      BY <1>3, <2>3 DEF Execute, ExecuteUpload, Await, HCTypeOK, Absent, Entry
    <3> QED
      BY <2>1, <3>1 DEF BytesInv, BytesSpent, AfterFoc
  <2>4. CASE k = j /\ store[k] = Absent /\ SessionActive
    <3>1. call[k] = Idle
      BY <2>4, EntryType DEF HCTypeOK
    <3>2. ~BytesSpent(k)
      BY <2>4, <3>1 DEF BytesSpent, AfterFoc, Idle, Absent, Entry
    <3> QED
      BY <2>1, <3>2 DEF BytesInv
  <2> QED
    BY <1>3, <2>2, <2>3, <2>4 DEF Execute, ExecuteUpload
<1>4. ASSUME NEW t \in sent, Mined(t), NEW k \in OpKey PROVE Once(k)'
  <2>1. store' = store /\ focCalls' = focCalls
    BY <1>4 DEF Mined
  <2>2. CASE call'[k] = call[k]
    BY <1>1, <2>1, <2>2
  <2>3. CASE call'[k] # call[k]
    <3>1. k = t.key /\ call' = [call EXCEPT ![k].mined = TRUE]
      BY <1>4, <2>3 DEF Mined, HCTypeOK
    <3>2. call[k] \in Call /\ call \in [OpKey -> Call]
      BY DEF HCTypeOK
    <3>3. call'[k] = [call[k] EXCEPT !.mined = TRUE]
      BY <3>1, <3>2, Zenon
    <3>4. call'[k].at = call[k].at
      BY <3>2, <3>3 DEF Call, Idle
    <3> QED
      BY <1>1, <2>1, <3>4
  <2> QED
    BY <2>2, <2>3
<1>5. ASSUME Crash, NEW k \in OpKey PROVE Once(k)'
  BY <1>5 DEF Crash
<1>6. ASSUME UNCHANGED processVars, NEW k \in OpKey PROVE Once(k)'
  BY <1>1, <1>6 DEF processVars
<1>7. ASSUME NEW k \in OpKey PROVE Once(k)'
  BY <1>2, <1>3, <1>4, <1>5, <1>6, <1>7
  DEF HCNext, BlockTime, OthersTransact, allVars
<1> QED
  BY <1>7 DEF BytesInv

\* However often and in whatever order clients call, a process hands the
\* bytes of an operation to FOC at most once.
THEOREM BytesSentOnce == HCSpec => []BytesSentOncePerOperation
<1>1. HCTypeOK /\ BytesInv => BytesSentOncePerOperation
  BY DEF BytesInv, BytesSentOncePerOperation
<1> QED
  BY <1>1, RegistryRefined, TypeCorrect, ProcessTypeCorrect, BytesInit,
     BytesStep, PTL
  DEF HCSpec

-----------------------------------------------------------------------------
(* The handover of the bytes: they leave only for an upload that was       *)
(* started on the chain, and the receipt that comes back is kept until it  *)
(* is settled or can no longer be.                                         *)

(* The upload was started, by whomever, perhaps also ended.                *)
Taken(o) == objects[o].status \notin {"None", "Requested"}

\* A call is at FOC, or its startUpload was mined.
StartedAt(k) ==
  call[k].at = "upload" \/ (call[k].at = "start" /\ call[k].mined)
    => Taken(ObjectOf[k])

StartedInv == \A k \in OpKey : StartedAt(k)

LEMMA StartedInit == HCInit => StartedInv
BY DEF HCInit, StartedInv, StartedAt, Idle

\* An upload that was started is never requested again.
LEMMA TakenStays ==
  ASSUME TypeOK, IssuedInOrder, [Next]_vars, NEW o \in ObjectId, Taken(o)
  PROVE  Taken(o)'
<1> DEFINE Stays == Taken(o)'
<1>1. objects \in [ObjectId -> StorageObject]
  BY DEF TypeOK
<1>2. ASSUME NEW q \in ObjectId, NEW done, done.status \notin {"None", "Requested"},
             objects' = [objects EXCEPT ![q] = done]
      PROVE  Stays
  BY <1>1, <1>2 DEF Taken
<1>3. ASSUME NEW caller, NEW p, NEW signer, RequestUpload(caller, p, signer)
      PROVE  Stays
  <2>1. objects' = [objects EXCEPT ![nextObjectId] = RequestedObject(p)]
    BY <1>3 DEF RequestUpload, RequestAccepted
  <2>2. o # nextObjectId
    <3>1. CASE o < nextObjectId
      BY <3>1 DEF TypeOK, ObjectId
    <3>2. CASE ~(o < nextObjectId)
      <4>1. objects[o] = NoObject
        BY <3>2 DEF IssuedInOrder
      <4> QED
        BY <4>1 DEF NoObject, Taken
    <3> QED
      BY <3>1, <3>2
  <2>3. objects'[o] = objects[o]
    BY <1>1, <2>1, <2>2, Zenon
  <2> QED
    BY <2>3 DEF Taken
<1>4. ASSUME NEW q \in ObjectId, NEW c, StartUpload(c, q) PROVE Stays
  <2> DEFINE done == [objects[q] EXCEPT !.status = "Uploading", !.coordinator = c]
  <2>1. done.status = "Uploading"
    BY <1>1 DEF StorageObject
  <2>2. objects' = [objects EXCEPT ![q] = done]
    BY <1>1, <1>4 DEF StartUpload, StartAccepted
  <2> HIDE DEF done
  <2> QED
    BY <1>2, <2>1, <2>2
<1>5. ASSUME NEW q \in ObjectId, NEW c, NEW r \in Receipts, FinalizeUpload(c, q, r)
      PROVE  Stays
  <2>1. r.finalizationStatus \in FinalizationStatus
    BY ConstantsAssumption DEF UploadReceipt
  <2>2. FinalizedObject(objects[q], c, r).status = r.finalizationStatus
    BY <1>1 DEF FinalizedObject, StorageObject
  <2>3. objects' = [objects EXCEPT ![q] = FinalizedObject(objects[q], c, r)]
    BY <1>5 DEF FinalizeUpload, ReceiptAccepted
  <2> QED
    BY <1>2, <2>1, <2>2, <2>3 DEF FinalizationStatus
<1>6. ASSUME NEW q \in ObjectId, NEW c, NEW charge, FailUpload(c, q, charge)
      PROVE  Stays
  <2> DEFINE done == [objects[q] EXCEPT !.status = "Failed", !.coordinator = c,
                                        !.actualCost = charge]
  <2>1. done.status = "Failed"
    BY <1>1 DEF StorageObject
  <2>2. objects' = [objects EXCEPT ![q] = done]
    BY <1>6 DEF FailUpload
  <2> HIDE DEF done
  <2> QED
    BY <1>2, <2>1, <2>2
<1>7. ASSUME NEW q \in ObjectId, NEW status \in {"Cancelled", "Expired"},
             CloseUnsettled(q, status)
      PROVE  Stays
  <2> DEFINE done == [objects[q] EXCEPT !.status = status]
  <2>1. done.status = status
    BY <1>1 DEF StorageObject
  <2>2. objects' = [objects EXCEPT ![q] = done]
    BY <1>1, <1>7 DEF CloseUnsettled
  <2> HIDE DEF done
  <2> QED
    BY <1>2, <2>1, <2>2
<1>8. ASSUME UNCHANGED uploadVars PROVE Stays
  BY <1>8 DEF uploadVars, Taken
<1>9. CASE UNCHANGED vars
  BY <1>8, <1>9 DEF vars
<1> QED
  BY <1>3, <1>4, <1>5, <1>6, <1>7, <1>8, <1>9
  DEF Next, Administration, CancelUpload, ExpireUpload, Tick, TransferOwnership,
      SetPolicy, SetCoordinator, SetRelayer, RecordDataset, DatasetAccepted

\* A call that goes on somewhere else, or nowhere, is not at FOC.
LEMMA NotHandedOver ==
  ASSUME HCTypeOK, NEW k \in OpKey, NEW c, call' = [call EXCEPT ![k] = c],
         c.at # "upload", c.mined = FALSE
  PROVE  StartedAt(k)'
BY DEF StartedAt, HCTypeOK

\* The bytes leave at three places, each after a sign that the upload was
\* started.
LEMMA ContinueStarted ==
  ASSUME HCTypeOK, StartedInv, NEW k \in OpKey, Continue(k)
  PROVE  StartedAt(k)'
<1> DEFINE Goal == StartedAt(k)'
<1>1. objects' = objects
  BY DEF Continue, vars, uploadVars
<1>2. ASSUME NEW e, Return(k, e) PROVE Goal
  <2>1. call' = [call EXCEPT ![k] = Idle]
    BY <1>2 DEF Return
  <2>2. Idle.at # "upload" /\ Idle.mined = FALSE
    BY DEF Idle
  <2> QED
    BY <2>1, <2>2, NotHandedOver
<1>3. ASSUME NEW at, NEW r, at # "upload", Await(k, at, r) PROVE Goal
  <2> DEFINE c == [at |-> at, receipt |-> r, mined |-> FALSE]
  <2>1. call' = [call EXCEPT ![k] = c]
    BY <1>3 DEF Await
  <2>2. c.at # "upload" /\ c.mined = FALSE
    BY <1>3
  <2> HIDE DEF c
  <2> QED
    BY <2>1, <2>2, NotHandedOver
<1>4. ASSUME Taken(ObjectOf[k]) PROVE Goal
  <2>1. Taken(ObjectOf[k])'
    BY <1>1, <1>4 DEF Taken
  <2> QED
    BY <2>1, Zenon DEF StartedAt
<1>5. CASE UploadAnswered(k)
  BY <1>2, <1>3, <1>5 DEF UploadAnswered, BytesNotStored, BytesStored, Send
<1>6. CASE ObjectRead(k)
  <2>1. CASE ObjectStatus(k) = "Uploading"
    BY <1>4, <2>1 DEF ObjectStatus, Taken
  <2>2. CASE ObjectStatus(k) # "Uploading"
    BY <1>2, <1>3, <1>6, <2>2 DEF ObjectRead, Send
  <2> QED
    BY <2>1, <2>2
<1>7. CASE StartAnswered(k)
  <2>1. CASE call[k].mined
    BY <1>4, <1>7, <2>1 DEF StartedInv, StartedAt, StartAnswered
  <2>2. CASE ~call[k].mined
    BY <1>3, <1>7, <2>2 DEF StartAnswered, AwaitRead
  <2> QED
    BY <2>1, <2>2
<1>8. CASE ObjectReadAgain(k)
  <2>1. CASE Rechecked(k)
    BY <1>4, <2>1 DEF Rechecked, ObjectStatus, Taken
  <2>2. CASE ~Rechecked(k)
    BY <1>2, <1>8, <2>2 DEF ObjectReadAgain
  <2> QED
    BY <2>1, <2>2
<1>9. CASE FinalizeAnswered(k)
  BY <1>2, <1>3, <1>9 DEF FinalizeAnswered, AwaitRead
<1>10. CASE RecoveryRead(k) \/ PendingReadFailed(k) \/ PendingRead(k) \/ FailAnswered(k)
  BY <1>2, <1>3, <1>10
  DEF RecoveryRead, PendingReadFailed, PendingRead, FailAnswered, Send
<1> QED
  BY <1>5, <1>6, <1>7, <1>8, <1>9, <1>10 DEF Continue

\* Mining a transaction that a running call waits for.
LEMMA MinedMarks ==
  ASSUME HCTypeOK, NEW t \in sent, Mined(t), NEW k \in OpKey, call'[k] # call[k]
  PROVE  /\ k = t.key /\ call[k].at = t.op /\ call[k].receipt = t.receipt
         /\ call'[k].at = call[k].at /\ call'[k].receipt = call[k].receipt
<1>1. /\ k = t.key /\ call[k].at = t.op /\ call[k].receipt = t.receipt
      /\ call' = [call EXCEPT ![k].mined = TRUE]
  BY DEF Mined, HCTypeOK
<1>2. call[k] \in Call /\ call \in [OpKey -> Call]
  BY DEF HCTypeOK
<1>3. call'[k] = [call[k] EXCEPT !.mined = TRUE]
  BY <1>1, <1>2, Zenon
<1>4. call'[k].at = call[k].at /\ call'[k].receipt = call[k].receipt
  BY <1>2, <1>3 DEF Call, Idle
<1> QED
  BY <1>1, <1>4

LEMMA StartedStep ==
  TypeOK /\ IssuedInOrder /\ HCTypeOK /\ StartedInv /\ [HCNext]_allVars
    => StartedInv'
<1> SUFFICES ASSUME TypeOK, IssuedInOrder, HCTypeOK, StartedInv,
                    [HCNext]_allVars, NEW k \in OpKey
             PROVE  StartedAt(k)'
  BY DEF StartedInv
<1>1. Taken(ObjectOf[k]) => Taken(ObjectOf[k])'
  BY RegistryStep, TakenStays, CoordinatorAssumption
<1>2. ASSUME call'[k] = call[k] PROVE StartedAt(k)'
  BY <1>1, <1>2 DEF StartedInv, StartedAt, Taken
<1>3. ASSUME NEW j \in OpKey, Continue(j) PROVE StartedAt(k)'
  <2>1. CASE k = j
    BY <1>3, <2>1, ContinueStarted
  <2>2. CASE k # j
    <3>1. PICK e, c, n : Becomes(j, e, c, n)
      BY <1>3, ContinueOutcome
    <3>2. call'[k] = call[k]
      BY <2>2, <3>1 DEF Becomes, HCTypeOK
    <3> QED
      BY <1>2, <3>2
  <2> QED
    BY <2>1, <2>2
<1>4. ASSUME NEW j \in OpKey, Execute(j) PROVE StartedAt(k)'
  <2>1. PICK at, r : at \in {"read", "readPending"} /\ Await(j, at, r)
    BY <1>4 DEF Execute, ExecuteUpload
  <2>2. CASE k = j
    <3> DEFINE c == [at |-> at, receipt |-> r, mined |-> FALSE]
    <3>1. call' = [call EXCEPT ![k] = c] /\ c.at # "upload" /\ c.mined = FALSE
      BY <2>1, <2>2 DEF Await
    <3> HIDE DEF c
    <3> QED
      BY <3>1, NotHandedOver
  <2>3. CASE k # j
    BY <1>2, <2>1, <2>3 DEF Await, HCTypeOK
  <2> QED
    BY <2>2, <2>3
<1>5. ASSUME NEW t \in sent, Mined(t) PROVE StartedAt(k)'
  <2>1. CASE call'[k] = call[k]
    BY <1>2, <2>1
  <2>2. CASE call'[k] # call[k]
    <3>1. k = t.key /\ call[k].at = t.op /\ call'[k].at = t.op
      BY <1>5, <2>2, MinedMarks
    <3>2. CASE t.op = "start"
      <4>1. ObjectOf[k] \in ObjectId /\ StartUpload(Self, ObjectOf[k])
        BY <1>5, <3>1, <3>2, CoordinatorAssumption DEF Mined
      <4>2. objects'[ObjectOf[k]].status = "Uploading"
        BY <4>1 DEF StartUpload, StartAccepted, TypeOK, StorageObject
      <4> QED
        BY <4>2 DEF StartedAt, Taken
    <3>3. CASE t.op # "start"
      <4>1. t.op # "upload"
        BY DEF HCTypeOK, SentTransaction
      <4> QED
        BY <3>1, <3>3, <4>1 DEF StartedAt
    <3> QED
      BY <3>2, <3>3
  <2> QED
    BY <2>1, <2>2
<1>6. CASE Crash
  BY <1>6 DEF Crash, StartedAt, Idle
<1>7. CASE UNCHANGED processVars
  BY <1>2, <1>7 DEF processVars
<1> QED
  BY <1>3, <1>4, <1>5, <1>6, <1>7 DEF HCNext, BlockTime, OthersTransact, allVars

\* Whatever the answer to startUpload was, and however late it was mined,
\* bytes leave only for an upload that was started on the chain
\* (startOrResumeUploading, executePreparedUpload).
THEOREM BytesLeaveStarted == HCSpec => []BytesLeaveAfterStart
<1>1. IndexMatchesStatus => IssuedInOrder
  BY DEF IndexMatchesStatus
<1>2. StartedInv => BytesLeaveAfterStart
  BY DEF StartedInv, StartedAt, Taken, BytesLeaveAfterStart, ObjectStatus
<1> QED
  BY <1>1, <1>2, RegistryRefined, TypeCorrect, IndexCorrect, ProcessTypeCorrect,
     StartedInit, StartedStep, PTL
  DEF HCSpec
-----------------------------------------------------------------------------
(* Receipts of stored bytes *)

ReceiptKept(k) ==
  \/ Held(k)' = Held(k)
  \/ SettledBy(k, Held(k))
  \/ RequestExpired(k)

LEMMA SameCallKept ==
  ASSUME NEW k \in OpKey, call'[k].receipt = call[k].receipt, store'[k] = store[k]
  PROVE  ReceiptKept(k)
BY DEF ReceiptKept, Held

\* A call that runs holds the receipt it goes on with.
LEMMA RunningHeld ==
  ASSUME HCTypeOK, NEW k \in OpKey, call[k] # Idle, Held(k) # Zero
  PROVE  /\ Held(k) = call[k].receipt
         /\ call[k].at \in {"readPending", "finalize", "recover"}
         /\ call[k].receipt \in FocReceipts
<1>1. call[k] \in Call /\ store[k].state = "running"
  BY DEF HCTypeOK
<1>2. Held(k) = call[k].receipt /\ call[k].receipt # Zero
  BY <1>1 DEF Held
<1> QED
  BY <1>1, <1>2 DEF Call

LEMMA HeldPending ==
  ASSUME HCTypeOK, NEW k \in OpKey, NEW r \in FocReceipts, r = Held(k),
         Return(k, PendingFinalize(r))
  PROVE  ReceiptKept(k)
<1>1. store'[k] = PendingFinalize(r) /\ call'[k] = Idle
  BY DEF Return, HCTypeOK
<1>2. Held(k)' = r
  BY <1>1, EntryType DEF Held, Idle
<1> QED
  BY <1>2 DEF ReceiptKept

LEMMA HeldAwaiting ==
  ASSUME HCTypeOK, NEW k \in OpKey, NEW r, r # Zero, r = Held(k), NEW at,
         Await(k, at, r)
  PROVE  ReceiptKept(k)
<1>1. call'[k].receipt = r
  BY DEF Await, HCTypeOK
<1> QED
  BY <1>1 DEF ReceiptKept, Held

LEMMA ContinueKeepsReceipt ==
  ASSUME HCTypeOK, ResultInv, NEW k \in OpKey, Continue(k), Held(k) # Zero
  PROVE  ReceiptKept(k)
<1> DEFINE r == call[k].receipt
<1>1. call[k] # Idle
  BY DEF Continue, UploadAnswered, ObjectRead, StartAnswered, ObjectReadAgain,
         FinalizeAnswered, RecoveryRead, PendingReadFailed, PendingRead,
         FailAnswered, Idle
<1>2. /\ Held(k) = r /\ r \in FocReceipts /\ r # Zero
      /\ call[k].at \in {"readPending", "finalize", "recover"}
  BY <1>1, RunningHeld
<1> HIDE DEF r
<1>3. ASSUME SettledBy(k, r) PROVE ReceiptKept(k)
  BY <1>2, <1>3 DEF ReceiptKept
<1>4. CASE FinalizeAnswered(k)
  <2>1. CASE call[k].mined
    BY <1>3, <1>4, <2>1 DEF ResultInv, ResultAt, FinalizeAnswered, r
  <2>2. CASE ~call[k].mined
    <3>1. Await(k, "recover", r)
      BY <1>4, <2>2 DEF FinalizeAnswered, AwaitRead, r
    <3> QED
      BY <1>2, <3>1, HeldAwaiting
  <2> QED
    BY <2>1, <2>2
<1>5. MatchesReceipt(k, r) => SettledBy(k, r)
  BY DEF MatchesReceipt, SettledBy
<1>6. CASE RecoveryRead(k)
  <2>1. Return(k, PendingFinalize(r)) \/ MatchesReceipt(k, r)
    BY <1>6 DEF RecoveryRead, r
  <2> QED
    BY <1>2, <1>3, <1>5, <2>1, HeldPending
<1>7. CASE PendingReadFailed(k)
  BY <1>2, <1>7, HeldPending DEF PendingReadFailed, r
<1>8. CASE PendingRead(k)
  <2>1. \/ MatchesReceipt(k, r)
        \/ RequestExpired(k)
        \/ Await(k, "finalize", r)
        \/ Return(k, PendingFinalize(r))
    BY <1>8 DEF PendingRead, SessionEnded, Send, r
  <2> QED
    BY <1>2, <1>3, <1>5, <2>1, HeldPending, HeldAwaiting DEF ReceiptKept
<1> QED
  BY <1>2, <1>4, <1>6, <1>7, <1>8
  DEF Continue, UploadAnswered, ObjectRead, StartAnswered, ObjectReadAgain,
      FailAnswered

LEMMA ExecuteKeepsReceipt ==
  ASSUME HCTypeOK, NEW k \in OpKey, Execute(k), Held(k) # Zero
  PROVE  ReceiptKept(k)
<1>1. store[k] = Absent \/ store[k].state = "pending_finalize"
  BY DEF Execute, ExecuteUpload
<1>2. call[k] = Idle
  BY <1>1, EntryType DEF HCTypeOK
<1>3. Held(k) = store[k].receipt /\ store[k].state = "pending_finalize"
  BY <1>1, <1>2, EntryType DEF Held, Idle, Absent, Entry
<1>4. Await(k, "readPending", store[k].receipt)
  BY <1>3 DEF Execute, ExecuteUpload, Absent, Entry
<1> QED
  BY <1>3, <1>4, HeldAwaiting

LEMMA ReceiptStep ==
  ASSUME HCTypeOK, ResultInv, [HCNext]_allVars, NEW k \in OpKey,
         Held(k) # Zero, crashes' = crashes
  PROVE  ReceiptKept(k)
<1>1. ASSUME NEW j \in OpKey, Continue(j) PROVE ReceiptKept(k)
  <2>1. CASE k = j
    BY <1>1, <2>1, ContinueKeepsReceipt
  <2>2. CASE k # j
    <3>1. PICK e, c, n : Becomes(j, e, c, n)
      BY <1>1, ContinueOutcome
    <3>2. call'[k] = call[k] /\ store'[k] = store[k]
      BY <2>2, <3>1 DEF Becomes, HCTypeOK
    <3> QED
      BY <3>2, SameCallKept
  <2> QED
    BY <2>1, <2>2
<1>2. ASSUME NEW j \in OpKey, Execute(j) PROVE ReceiptKept(k)
  <2>1. CASE k = j
    BY <1>2, <2>1, ExecuteKeepsReceipt
  <2>2. CASE k # j
    <3>1. call'[k] = call[k] /\ store'[k] = store[k]
      BY <1>2, <2>2 DEF Execute, ExecuteUpload, Await, HCTypeOK
    <3> QED
      BY <3>1, SameCallKept
  <2> QED
    BY <2>1, <2>2
<1>3. ASSUME NEW t \in sent, Mined(t) PROVE ReceiptKept(k)
  <2>1. store' = store
    BY <1>3 DEF Mined
  <2>2. call'[k].receipt = call[k].receipt
    BY <1>3, MinedMarks
  <2> QED
    BY <2>1, <2>2, SameCallKept
<1>4. ~Crash
  BY DEF Crash, HCTypeOK
<1>5. CASE UNCHANGED processVars
  BY <1>5, SameCallKept DEF processVars
<1> QED
  BY <1>1, <1>2, <1>3, <1>4, <1>5 DEF HCNext, BlockTime, OthersTransact, allVars

\* A receipt of stored bytes outlives failed calls, late transactions and the
\* end of the session: it goes when it is on the chain, when its request has
\* expired, or with the process (finalizePreparedReceipt,
\* recoverFinalizedUpload, finalizePendingReceipt).
THEOREM ReceiptsKept == HCSpec => ReceiptKeptUntilSettled
<1>1. HCTypeOK /\ ResultInv /\ [HCNext]_allVars =>
        [\A k \in OpKey :
           Held(k) # Zero /\ crashes' = crashes
             => \/ Held(k)' = Held(k)
                \/ SettledBy(k, Held(k))
                \/ RequestExpired(k)]_allVars
  BY ReceiptStep DEF ReceiptKept
<1>2. IndexMatchesStatus => IssuedInOrder
  BY DEF IndexMatchesStatus
<1> QED
  BY <1>1, <1>2, RegistryRefined, TypeCorrect, IndexCorrect, ProcessTypeCorrect,
     ResultInit, ResultStep, PTL
  DEF HCSpec, ReceiptKeptUntilSettled

-----------------------------------------------------------------------------
(* The receipts the coordinator makes. *)

LEMMA FitsIsCopiesMatch ==
  ASSUME NEW obj, NEW r
  PROVE  StatusFitsCopies(r.finalizationStatus, r.completedCopies,
                          obj.requestedCopies)
           <=> CopiesMatchStatus(obj, r)
BY Zenon DEF StatusFitsCopies, CopiesMatchStatus

LEMMA FitsOfStatus ==
  ASSUME NEW status \in FinalizationStatus, NEW n, NEW requested
  PROVE  StatusFitsCopies(status, n, requested) <=>
           /\ status = "Committed" => n = requested
           /\ status = "Partial" => n # 0 /\ n < requested
           /\ status = "Failed" => n = 0
<1>1. CASE status = "Committed"
  BY <1>1, Zenon DEF StatusFitsCopies
<1>2. CASE status = "Partial"
  BY <1>2, Zenon DEF StatusFitsCopies
<1>3. CASE status = "Failed"
  BY <1>3, Zenon DEF StatusFitsCopies
<1> QED
  BY <1>1, <1>2, <1>3 DEF FinalizationStatus

\* The receipt that says so much of an upload.
Receipt(obj, result, status) ==
  [finalizationStatus |-> status, payer |-> result.payer,
   hasReceiptHash |-> TRUE, size |-> obj.size,
   requestedCopies |-> obj.requestedCopies,
   completedCopies |-> result.copies, actualCost |-> result.actualCost,
   copies |-> result.copies]

Accepted(obj, result, status) ==
  /\ result.payer # Other
  /\ CompletedCopies(result) = result.copies
  /\ result.actualCost <= obj.maxCost
  /\ CompletedCopies(result) <= obj.requestedCopies
  /\ status \in FinalizationStatus
  /\ StatusFitsCopies(status, CompletedCopies(result), obj.requestedCopies)
  /\ result.hasPieceCid \/ status = "Failed"

Resolved(obj, result) ==
  ResolveFinalizationStatus(result, CompletedCopies(result), obj.requestedCopies)

LEMMA MapsToReceipt ==
  ASSUME NEW obj, NEW result
  PROVE  /\ Accepted(obj, result, Resolved(obj, result)) =>
              MapSynapseResult(result, obj)
                = Receipt(obj, result, Resolved(obj, result))
         /\ ~Accepted(obj, result, Resolved(obj, result)) =>
              MapSynapseResult(result, obj) = NoReceipt
BY DEF MapSynapseResult, Accepted, Resolved, Receipt

LEMMA ReceiptIsSome ==
  ASSUME NEW obj, NEW result, NEW status
  PROVE  Receipt(obj, result, status) # NoReceipt
<1>1. "error" \notin DOMAIN Receipt(obj, result, status)
  BY DEF Receipt
<1>2. "error" \in DOMAIN NoReceipt
  BY DEF NoReceipt
<1> QED
  BY <1>1, <1>2

\* What the registry requires of a receipt beyond what the coordinator has
\* checked is a payer and the rule for charges of failures.
LEMMA ReceiptSettles ==
  ASSUME NEW obj, NEW result, NEW status, obj.maxCost = obj.reservedCost,
         obj.maxCost \in Nat, result.actualCost \in Nat
  PROVE  Settleable(obj, Receipt(obj, result, status)) <=>
           /\ result.payer # Zero
           /\ result.actualCost <= obj.maxCost
           /\ StatusFitsCopies(status, result.copies, obj.requestedCopies)
           /\ status = "Failed" =>
                policy.allowFailureCharges \/ result.actualCost = 0
<1> DEFINE r == Receipt(obj, result, status)
<1>1. /\ r.finalizationStatus = status /\ r.payer = result.payer
      /\ r.hasReceiptHash = TRUE /\ r.size = obj.size
      /\ r.requestedCopies = obj.requestedCopies
      /\ r.completedCopies = result.copies /\ r.copies = result.copies
      /\ r.actualCost = result.actualCost
  BY DEF Receipt
<1> HIDE DEF r
<1>2. CopiesMatchStatus(obj, r)
        <=> StatusFitsCopies(status, result.copies, obj.requestedCopies)
  BY <1>1, FitsIsCopiesMatch
<1>3. ValidReceipt(obj, r) <=>
        /\ result.payer # Zero
        /\ result.actualCost <= obj.maxCost
        /\ status = "Failed" =>
             policy.allowFailureCharges \/ result.actualCost = 0
  BY <1>1 DEF ValidReceipt, FailureChargeAllowed
<1> QED
  BY <1>2, <1>3 DEF Settleable, r

\* The terms and the answers the two compare.
LEMMA UploadingTerms ==
  ASSUME TypeOK, Outcomes, NEW obj \in Uploading,
         NEW result \in SynapseResults(obj)
  PROVE  /\ obj.maxCost = obj.reservedCost /\ obj.maxCost \in Nat
         /\ obj.requestedCopies \in Nat
         /\ result.actualCost \in Nat /\ result.copies \in Nat
<1>1. PICK o \in ObjectId : obj = objects[o]
  BY DEF Uploading
<1>2. obj \in StorageObject /\ obj.maxCost = obj.reservedCost
  BY <1>1 DEF TypeOK, Outcomes, Outcome
<1>3. obj.maxCost \in Nat /\ obj.requestedCopies \in Nat
  BY <1>2 DEF StorageObject
<1>4. /\ result.actualCost \in 0..obj.maxCost + 1
      /\ result.copies \in 0..obj.requestedCopies + 1
  BY DEF SynapseResults
<1> QED
  BY <1>2, <1>3, <1>4

LEMMA OutcomesSettle == TypeOK /\ Outcomes => ReceiptsSettle
<1> SUFFICES ASSUME TypeOK, Outcomes, NEW obj \in Uploading,
                    NEW result \in SynapseResults(obj),
                    MapSynapseResult(result, obj) # NoReceipt
             PROVE  LET receipt == MapSynapseResult(result, obj)
                        chargedFailure ==
                          /\ receipt.finalizationStatus = "Failed"
                          /\ receipt.actualCost > 0
                          /\ ~policy.allowFailureCharges
                    IN  Settleable(obj, receipt) <=>
                          receipt.payer # Zero /\ ~chargedFailure
  BY DEF ReceiptsSettle
<1> DEFINE status == Resolved(obj, result)
           r == Receipt(obj, result, status)
<1>1. Accepted(obj, result, status) /\ MapSynapseResult(result, obj) = r
  BY MapsToReceipt
<1>2. /\ result.actualCost <= obj.maxCost
      /\ StatusFitsCopies(status, result.copies, obj.requestedCopies)
  BY <1>1 DEF Accepted
<1>3. /\ r.finalizationStatus = status /\ r.actualCost = result.actualCost
      /\ r.payer = result.payer
  BY DEF Receipt
<1>4. result.actualCost \in Nat
  BY UploadingTerms
<1>5. Settleable(obj, r) <=>
        result.payer # Zero
        /\ (status = "Failed" => policy.allowFailureCharges \/ result.actualCost = 0)
  BY <1>2, UploadingTerms, ReceiptSettles
<1> HIDE DEF r, status
<1> QED
  BY <1>1, <1>3, <1>4, <1>5

LEMMA OutcomesRefuse == TypeOK /\ Outcomes => RefusalsHopeless
<1> SUFFICES ASSUME TypeOK, Outcomes, NEW obj \in Uploading,
                    NEW result \in SynapseResults(obj),
                    result.hasPieceCid, result.payer # Other,
                    CompletedCopies(result) = result.copies,
                    NEW status \in FinalizationStatus,
                    result.finalizationStatus \in {status, Unsaid},
                    Settleable(obj, Receipt(obj, result, status))
             PROVE  MapSynapseResult(result, obj) # NoReceipt
  BY DEF RefusalsHopeless, Receipt
<1>1. /\ result.actualCost <= obj.maxCost
      /\ StatusFitsCopies(status, result.copies, obj.requestedCopies)
  BY UploadingTerms, ReceiptSettles
<1>2. result.copies <= obj.requestedCopies
  BY <1>1, UploadingTerms, FitsOfStatus DEF FinalizationStatus
<1>3. /\ Resolved(obj, result) \in FinalizationStatus
      /\ StatusFitsCopies(Resolved(obj, result), result.copies,
                          obj.requestedCopies)
  <2>1. CASE result.finalizationStatus = Unsaid
    <3>1. Resolved(obj, result) =
            IF result.copies = 0 THEN "Failed"
            ELSE IF result.copies = obj.requestedCopies THEN "Committed"
            ELSE "Partial"
      BY <2>1 DEF Resolved, ResolveFinalizationStatus
    <3>2. Resolved(obj, result) \in FinalizationStatus
      BY <3>1 DEF FinalizationStatus
    <3> QED
      BY <1>2, <3>1, <3>2, UploadingTerms, FitsOfStatus
  <2>2. CASE result.finalizationStatus # Unsaid
    BY <1>1, <2>2 DEF Resolved, ResolveFinalizationStatus
  <2> QED
    BY <2>1, <2>2
<1>4. Accepted(obj, result, Resolved(obj, result))
  BY <1>1, <1>2, <1>3 DEF Accepted
<1> QED
  BY <1>4, MapsToReceipt, ReceiptIsSome

\* In every state of the registry, the receipts the coordinator makes of
\* FOC's answers are the ones finalizeUpload settles with, except exactly
\* those that name no payer or charge for a failure against the policy, and
\* the answers it gives up are the ones no receipt could settle
\* (mapSynapseResultToUploadReceipt, _validateReceipt).
THEOREM ReceiptsCorrect == Spec => []ReceiptsAgree
<1>1. TypeOK /\ Outcomes => ReceiptsAgree
  BY OutcomesSettle, OutcomesRefuse DEF ReceiptsAgree
<1> QED
  BY <1>1, TypeCorrect, OutcomesAlways, PTL
=============================================================================
