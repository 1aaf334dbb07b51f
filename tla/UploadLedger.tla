---------------------------- MODULE UploadLedger ----------------------------
(***************************************************************************)
(* What the registry promises, without its data structures: every upload   *)
(* is opened once under a fresh (account, key) claim, reserves bytes and   *)
(* cost, and is closed once, either settled before its deadline within     *)
(* what it reserved or released; the totals the registry shows for an      *)
(* account are at all times the sums over that account's uploads.          *)
(***************************************************************************)
EXTENDS Totals

CONSTANTS Account, UploadId

VARIABLES
  now,      (* the time                                                    *)
  book,     (* per upload: phase, claim, what it reserved, how it ended    *)
  totals    (* per account: the published totals                           *)

ledgerVars == <<book, totals>>

Opened(e)  == e.phase # "absent"
Settled(e) == e.phase \in {"stored", "failed"}

\* The weight each upload of account a has in a total: v if it counts.
Part(e, a, counts, v) == IF e.account = a /\ counts THEN v ELSE 0

TotalsOf(b) ==
  [a \in Account |->
    [pendingBytes |-> Total([o \in UploadId |->
                        Part(b[o], a, b[o].phase = "open", b[o].bytes)]),
     reservedCost |-> Total([o \in UploadId |->
                        Part(b[o], a, b[o].phase = "open", b[o].cost)]),
     activeBytes  |-> Total([o \in UploadId |->
                        Part(b[o], a, b[o].phase = "stored", b[o].stored)]),
     actualCost   |-> Total([o \in UploadId |->
                        Part(b[o], a, Settled(b[o]), b[o].charge)]),
     requested    |-> Total([o \in UploadId |-> Part(b[o], a, Opened(b[o]), 1)]),
     finalized    |-> Total([o \in UploadId |->
                        Part(b[o], a, b[o].phase = "stored", 1)]),
     failed       |-> Total([o \in UploadId |->
                        Part(b[o], a, b[o].phase = "failed", 1)])]]

Init ==
  /\ \A o \in UploadId : ~Opened(book[o])
  /\ totals = TotalsOf(book)

OnlyChanges(o) == \A p \in UploadId \ {o} : book'[p] = book[p]

\* Claims are unique: no upload of the account holds the key already.
Open(o) ==
  /\ ~Opened(book[o])
  /\ OnlyChanges(o)
  /\ book'[o].phase = "open"
  /\ book'[o].account \in Account
  /\ book'[o].deadline > now
  /\ \A p \in UploadId :
       Opened(book[p]) => <<book[p].account, book[p].key>>
                            # <<book'[o].account, book'[o].key>>

\* The terms of an upload do not change once it is open.
SameTerms(o) ==
  /\ book'[o].account = book[o].account /\ book'[o].key = book[o].key
  /\ book'[o].bytes = book[o].bytes /\ book'[o].cost = book[o].cost
  /\ book'[o].deadline = book[o].deadline

Settle(o) ==
  /\ book[o].phase = "open"
  /\ now <= book[o].deadline
  /\ OnlyChanges(o)
  /\ SameTerms(o)
  /\ Settled(book'[o])
  /\ book'[o].charge <= book[o].cost
  /\ book'[o].stored <= book[o].bytes
  /\ (book'[o].stored > 0) <=> (book'[o].phase = "stored")

Release(o) ==
  /\ book[o].phase = "open"
  /\ OnlyChanges(o)
  /\ book'[o] = [book[o] EXCEPT !.phase = "released"]

Next ==
  /\ \E o \in UploadId : Open(o) \/ Settle(o) \/ Release(o)
  /\ totals' = TotalsOf(book')

Spec == Init /\ [][Next]_ledgerVars
=============================================================================
