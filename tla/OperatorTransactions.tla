------------------------ MODULE OperatorTransactions -------------------------
(***************************************************************************)
(* How the operator's scripts reach the registry: writeContract hands a    *)
(* transaction of the signer to the node, the chain mines the signer's     *)
(* transactions in nonce order, and waitForTransactionReceipt tells the    *)
(* script what became of it.  A transaction that a script no longer waits  *)
(* for, because it was stopped or the wait timed out, is mined all the     *)
(* same.  The scripts give a gas limit, so nothing is simulated before it  *)
(* is sent: a call whose guard does not hold is mined as a revert.         *)
(*                                                                         *)
(* A transaction is a record with the called function in fn and the        *)
(* arguments the function needs in the other fields; its hash is its       *)
(* position among the transactions sent.                                   *)
(***************************************************************************)
EXTENDS FocPlatformRegistry

CONSTANTS
  Operator,     (* the account of PRIVATE_KEY                              *)
  MaxSent       (* bound on the transactions sent in a behaviour           *)

ASSUME OperatorAssumption == Operator \in Address /\ MaxSent \in Nat

VARIABLES
  sent,         (* the signer's transactions, by nonce                     *)
  outcome       (* of the mined ones: TRUE if the receipt says "success"   *)

poolVars == <<sent, outcome>>

PoolInit == Init /\ sent = <<>> /\ outcome = <<>>

(* The policy the scripts give their signer. *)
StandingPolicy == [allowed |-> TRUE, sessionKeyExpiresAt |-> 0]

Call(t) ==
  \/ t.fn = "setCoordinator" /\ SetCoordinator(Operator, Operator, StandingPolicy)
  \/ t.fn = "setRelayer"     /\ SetRelayer(Operator, t.relayer, TRUE)
  \/ t.fn = "requestUpload"  /\ RequestUpload(Operator, t.params, Zero)
  \/ t.fn = "startUpload"    /\ StartUpload(Operator, t.id)
  \/ t.fn = "recordDataset"  /\ RecordDataset(Operator, t.dataset)
  \/ t.fn = "finalizeUpload" /\ FinalizeUpload(Operator, t.id, t.receipt)

(* The guard of the called function: a call that does not revert. *)
CallAccepted(t) ==
  \/ t.fn = "setCoordinator" /\ owner = Operator
  \/ t.fn = "setRelayer"     /\ owner = Operator /\ t.relayer # Zero
  \/ t.fn = "requestUpload"  /\ RequestAccepted(Operator, t.params, Zero)
  \/ t.fn = "startUpload"    /\ StartAccepted(Operator, t.id)
  \/ t.fn = "recordDataset"  /\ DatasetAccepted(Operator, t.dataset)
  \/ t.fn = "finalizeUpload" /\ ReceiptAccepted(Operator, t.id, t.receipt)

(* The node takes a transaction, to be mined after those before it. *)
Submit(t) ==
  /\ Len(sent) < MaxSent
  /\ sent' = Append(sent, t)
  /\ UNCHANGED outcome

NewHash == Len(sent) + 1

Unmined == Len(outcome) < Len(sent)

(* The next transaction of the signer is mined; ok is its receipt's status. *)
Mine(ok) ==
  /\ Unmined
  /\ LET t == sent[Len(outcome) + 1]
     IN  IF ok THEN Call(t) ELSE ~CallAccepted(t) /\ UNCHANGED vars
  /\ outcome' = Append(outcome, ok)
  /\ UNCHANGED sent

Mined(h)     == h <= Len(outcome)
Succeeded(h) == Mined(h) /\ outcome[h]
=============================================================================
