-------------------------- MODULE MCOperatorScripts --------------------------
(* A small instance of OperatorScripts. *)
EXTENDS OperatorScripts

CONSTANTS a1, a2, op, p1, p2, ds1, ds2, r1, r2

Accounts  == {a1, a2, op}
Addresses == {op, a1, a2}
Keys      == {p1, p2} \cup 1..Rows
DatasetPairs == {ds1, ds2}
None      == {}
Runs      == {r1, r2}

PlatformPolicy ==
  [paused |-> FALSE, maxObjectSize |-> 1, maxCopies |-> 1,
   maxCostPerUpload |-> 0, maxActiveBytesPerAccount |-> Rows,
   defaultRequestTtl |-> 1, allowFailureCharges |-> FALSE]

(* The environments of the demo. *)
EnvOf(piece, dataset, url, write) ==
  [piece |-> piece, dataset |-> dataset, url |-> url, relayer |-> op,
   write |-> write]
First    == EnvOf(p1, ds1, "u1", TRUE)
SomeEnvs == {First, EnvOf(p1, ds2, "u1", TRUE)}
AllEnvs  == SomeEnvs \cup {EnvOf(p1, ds1, "u2", TRUE), EnvOf(p2, ds1, "u1", TRUE),
                         EnvOf(p1, ds1, "u1", FALSE)}

(* The rows of the seeder: they rotate across the accounts, and with       *)
(* --committed n and --uploading m the first rows are taken furthest.      *)
RotatedAccounts == [w \in 1..Rows |-> IF w % 2 = 1 THEN a1 ELSE a2]
OwnKeys == [w \in 1..Rows |-> w]
TargetsOf(n, m) ==
  [w \in 1..Rows |-> IF w <= n THEN "Committed"
                     ELSE IF w <= n + m THEN "Uploading" ELSE "Requested"]
TwoTargets == {TargetsOf(1, 0), TargetsOf(2, 0)}

(* What the scripts may send: requests, receipts and datasets that differ   *)
(* in nothing but what the demo's environments and the rows say.            *)
RequestOf(account, key, expiry) ==
  [accountId |-> account, user |-> account, idempotencyKey |-> key, size |-> 1,
   requestedCopies |-> 1, maxCost |-> 0, requestExpiresAt |-> expiry]
RecordOf(account, dataset) ==
  [accountId |-> account, dataset |-> dataset, payer |-> op, createdAt |-> 0]
ScriptRequests ==
  {RequestOf(op, key, 0) : key \in {p1, p2}}
    \cup {RequestOf(RotatedAccounts[w], OwnKeys[w], 9) : w \in 1..Rows}
ScriptReceipts ==
  {[finalizationStatus |-> "Committed", payer |-> op, hasReceiptHash |-> TRUE,
    size |-> 1, requestedCopies |-> 1, completedCopies |-> 1, actualCost |-> 0,
    copies |-> 1]}
ScriptDatasets == {RecordOf(account, dataset) : account \in Accounts,
                                                dataset \in DatasetPairs}
ScriptPolicies == {StandingPolicy}
OperatorOnly   == {op}

(* The behaviours explored are those of some scenarios.                    *)

Cancelled == \E o \in ObjectId : objects[o].status = "Cancelled"
RowsNotCancelled ==
  \A o \in ObjectId : objects[o].status = "Cancelled" => objects[o].accountId = op
SeederUnused == seeder = Seeder!Idle /\ asked = Seeder!NoSummary
OneRun == run[r2] = Idle
EnvsAre(envs) ==
  /\ \A r \in Run : run[r] = Idle \/ run[r].env \in envs
  /\ \A h \in DOMAIN sent : "hashes" \in DOMAIN sent[h] =>
       \E env \in envs : sent[h].hashes \in {RequestHashes(env), ReceiptHashes(env)}

\* Runs of the demo, stopped and started with other environments.
DemoScenario ==
  /\ SeederUnused /\ OneRun /\ now = 1 /\ Len(sent) <= 11
  /\ (Cancelled => giveUps = 0 /\ Len(sent) <= 7)
  /\ "overlap" \notin lapses

\* Two runs of the demo overlap.
OverlapScenario ==
  /\ SeederUnused /\ ~Cancelled /\ now = 1 /\ Len(sent) <= 7 /\ giveUps = 0
  /\ lapses \subseteq {"overlap"}
  /\ EnvsAre(SomeEnvs)

\* Runs of the seeder, stopped and started with other counts; an upload is
\* cancelled by hand.
SeederScenario ==
  /\ \A r \in Run : run[r] = Idle
  /\ \A o \in ObjectId : objects[o].accountId # op
  /\ \A h \in DOMAIN sent : "hashes" \notin DOMAIN sent[h]
  /\ evidence = NoEvidence /\ lapses = {} /\ now = 1 /\ (Cancelled => giveUps = 0)

\* Both scripts, one after the other, while time passes; the transactions of
\* one that was stopped are still mined while the other runs.
BothScenario ==
  /\ OneRun /\ EnvsAre({First}) /\ lapses \subseteq {"cut"}
  /\ giveUps <= 1 /\ (now > 1 => giveUps = 0)
  /\ RowsNotCancelled
  /\ OutOfReach => Len(sent) <= 18
  /\ seeder = Seeder!Idle \/ run[r1] = Idle
  /\ seeder # Seeder!Idle => seeder.targets = TargetsOf(1, 0)
  /\ asked \in {Seeder!NoSummary, TargetsOf(1, 0)}

Scenarios == DemoScenario \/ OverlapScenario \/ SeederScenario \/ BothScenario
=============================================================================
