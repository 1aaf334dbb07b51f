----------------------------- MODULE DirectReads -----------------------------
(***************************************************************************)
(* src/demo/tokenhost-wrapper.mjs, createTokenHostRegistryDirectReadAdapter*)
(* behind src/api/platform-admin-api.mjs: an admin request reads the       *)
(* registry surface by surface and page by page, and reports on the model  *)
(* it has put together.                                                    *)
(*                                                                         *)
(* Every contract read is a step of its own and sees the registry as it is *)
(* at that block; in between, the registry moves.  The details of a page   *)
(* are read by DetailConcurrency workers, which take its ids in order.     *)
(*                                                                         *)
(* Abstracted: the page of an account's object ids that readAccountPage    *)
(* also reads, which no surface uses; the local clock is the chain's.      *)
(***************************************************************************)
EXTENDS RegistryViews

CONSTANTS
  CopyDataset,        (* the dataset of a receipt's i-th copy              *)
  ProviderOf,         (* the provider of a dataset                         *)
  Routes,             (* route names the admin API is asked for            *)
  PageLimits,         (* page sizes, at least 1                            *)
  IncludeTerminal,    (* values of includeTerminal                         *)
  MaxPagesPerSurface,
  DetailConcurrency

(* The callers ask for at least one entry and at most MAX_LIST_LIMIT; a page *)
(* of no entries, which the adapter would take, reads nothing.              *)
ASSUME RequestsAssumption ==
  PageLimits \subseteq 1..MaxLimit /\ IncludeTerminal \subseteq BOOLEAN

(* A check of the report is about an upload or about an account; its field *)
(* about stands for the code's objectId and accountId.                     *)
ASSUME NamesAssumption == Account \cap ObjectId = {}

Reconcile == INSTANCE Reconciliation
Projection == INSTANCE ReadModel

VARIABLES
  reader,             (* the request that is being answered                *)
  readModel,          (* the model it puts together                        *)
  dueIds, dueLengths, (* what it must find: see the properties             *)
  moved               (* what changed in the registry since the request    *)

readerVars == <<reader, readModel, dueIds, dueLengths, moved>>
DRvars     == <<vars, readerVars>>

OffsetSurfaces == {"accounts", "datasets", "coordinators", "relayers"}

FullRegistrySurfaces ==
  <<"objects", "accounts", "datasets", "coordinators", "relayers">>

(* A plausible bug: an object is read without the coordinators. *)
SurfacesForRoute_object_alone(route) ==
  IF route = "object" THEN <<"objectId", "datasets">> ELSE FullRegistrySurfaces

(* registrySurfacesForRoute; the other routes read everything. *)
SurfacesForRoute(route) ==
  CASE route = "object"       -> <<"objectId", "datasets", "coordinators">>
    [] route = "datasets"     -> <<"objects", "datasets">>
    [] route = "coordinators" -> <<"objects", "coordinators", "relayers">>
    [] OTHER                  -> FullRegistrySurfaces

Request(route, objectId, limit, terminal) ==
  [route |-> route, objectId |-> objectId, limit |-> limit,
   includeTerminal |-> terminal, surface |-> "idle", rest |-> <<>>,
   phase |-> "list", cursor |-> 0, pages |-> 0, ids |-> <<>>, todo |-> {}]

NoRequest == Request("none", 0, 1, TRUE)

Still == [any |-> FALSE, objects |-> {}, accounts |-> {}]

DRInit ==
  /\ Init
  /\ reader = NoRequest
  /\ readModel = Projection!CreateRegistryReadModel
  /\ dueIds = {}
  /\ dueLengths = [s \in OffsetSurfaces |-> 0]
  /\ moved = Still

Over == {"done", "failed"}
Reading == reader.surface \notin Over \cup {"idle"}

-----------------------------------------------------------------------------
(* The views the adapter reads *)

ListStorageObjectIds(cursor, limit, terminal) ==
  IF terminal THEN ListAllStorageObjectIds(cursor, limit)
              ELSE ListActiveStorageObjectIds(cursor, limit)

(* listAccountIds, listDatasetKeys, listCoordinatorAddresses, ... *)
OffsetList(surface) ==
  CASE surface = "accounts"     -> accountIds
    [] surface = "datasets"     -> datasetKeys
    [] surface = "coordinators" -> coordinatorAddresses
    [] surface = "relayers"     -> relayerAddresses

OffsetPage(list, offset, limit) ==
  SubSeq(list, offset + 1,
         IF offset + limit < Len(list) THEN offset + limit ELSE Len(list))

GetStorageObject(o) ==
  Projection!Patched(objects[o], [receiptHash |-> receipts[o].payer # Zero])
GetCopyReceipts(o)  == [i \in 1..receipts[o].copies |-> CopyDataset[i]]

(* What one detail read puts into the model. *)
Merge(m, read) ==
  LET x == read[2]
  IN  CASE read[1] = "object"       -> [m EXCEPT !.objects =
                                          Projection!Put(@, x, GetStorageObject(x))]
        [] read[1] = "copies"       -> [m EXCEPT !.copyReceipts =
                                          Projection!Put(@, x, GetCopyReceipts(x))]
        [] read[1] = "payer"        -> [m EXCEPT !.receiptPayers =
                                          Projection!Put(@, x, receipts[x].payer)]
        [] read[1] = "accounts"     -> [m EXCEPT !.usage =
                                          Projection!Put(@, x, usage[x])]
        [] read[1] = "datasets"     -> [m EXCEPT !.datasets =
                                          Projection!Put(@, x, [payer |->
                                            datasets[x[1]][x[2]].payer])]
        [] read[1] = "coordinators" -> [m EXCEPT !.coordinators =
                                          Projection!Put(@, x, coordinatorPolicies[x])]
        [] read[1] = "relayers"     -> [m EXCEPT !.relayers =
                                          Projection!Put(@, x, x \in relayers)]

(* A plausible bug: the payer is not read. *)
DetailReads_no_payer(surface, x) ==
  IF surface \in OffsetSurfaces THEN {<<surface, x>>}
  ELSE {<<"object", x>>, <<"copies", x>>}

(* registryObjectDetailReads, and one read for a row of the other surfaces. *)
DetailReads(surface, x) ==
  IF surface \in OffsetSurfaces THEN {<<surface, x>>}
  ELSE {<<"object", x>>, <<"copies", x>>, <<"payer", x>>}

-----------------------------------------------------------------------------
(* The traversal *)

NextSurface(r) ==
  IF r.rest = <<>> THEN [r EXCEPT !.surface = "done"]
  ELSE [r EXCEPT !.surface = Head(r.rest), !.rest = Tail(r.rest),
                 !.phase = "list", !.cursor = 0, !.pages = 0, !.ids = <<>>]

NextCursor(r) ==
  IF r.surface = "objects" THEN r.ids[Len(r.ids)] ELSE r.cursor + Len(r.ids)

(* isLastCursorPage, and the same test of forEachOffsetPage. *)
IsLastPage(r) == Len(r.ids) < r.limit

Fail(r, why) == [r EXCEPT !.surface = "failed", !.phase = why]

(* What the loops of mergeObjectPages and forEachOffsetPage do once a page *)
(* is read.                                                                *)
EndOfPage(r) ==
  IF IsLastPage(r) \/ r.surface = "objectId" THEN NextSurface(r)
  ELSE IF r.surface = "objects" /\ NextCursor(r) = r.cursor
       THEN Fail(r, "cursor did not advance")
  ELSE IF r.pages + 1 = MaxPagesPerSurface
       THEN Fail(r, "exceeded maxPagesPerSurface")
  ELSE [r EXCEPT !.phase = "list", !.cursor = NextCursor(r), !.pages = @ + 1,
                 !.ids = <<>>]

WithPage(r, ids) ==
  LET listed == [r EXCEPT !.ids = ids, !.phase = "details",
                          !.todo = UNION {DetailReads(r.surface, ids[i]) :
                                            i \in DOMAIN ids}]
  IN  IF ids = <<>> THEN EndOfPage(listed) ELSE listed

(* A plausible bug: a reverted page is taken for the end of the list. *)
ObjectPage_revert_is_end(r) ==
  LET page == ListStorageObjectIds(r.cursor, r.limit, r.includeTerminal)
  IN  WithPage(r, IF page.reverted THEN <<>> ELSE page.ids)

(* A plausible bug: a reverted page fails the request. *)
ObjectPage_no_restart(r) ==
  LET page == ListStorageObjectIds(r.cursor, r.limit, r.includeTerminal)
  IN  IF page.reverted THEN Fail(r, "reverted") ELSE WithPage(r, page.ids)

(* readCursorIdsPage: an active listing that met the traversal limit is    *)
(* read again from the head, in another call.                              *)
ObjectPage(r) ==
  LET page == ListStorageObjectIds(r.cursor, r.limit, r.includeTerminal)
  IN  IF ~page.reverted THEN WithPage(r, page.ids)
      ELSE IF r.includeTerminal \/ r.cursor = 0 THEN Fail(r, "reverted")
      ELSE [r EXCEPT !.cursor = 0]

ReadPage ==
  /\ Reading /\ reader.phase = "list"
  /\ reader' =
       CASE reader.surface = "objectId" -> WithPage(reader, <<reader.objectId>>)
         [] reader.surface = "objects"  -> ObjectPage(reader)
         [] OTHER -> WithPage(reader, OffsetPage(OffsetList(reader.surface),
                                                 reader.cursor, reader.limit))
  /\ UNCHANGED readModel

(* The ids of the page whose details are not all read, in page order. *)
Unfinished ==
  {i \in DOMAIN reader.ids : \E read \in reader.todo : read[2] = reader.ids[i]}

(* mapWithConcurrency *)
InFlight ==
  {i \in Unfinished :
     Cardinality({j \in Unfinished : j < i}) < DetailConcurrency}

Missing(m, r) ==
  r.surface = "objectId" /\ m.objects[r.objectId].status = "None"

ReadDetail ==
  /\ Reading /\ reader.phase = "details"
  /\ \E read \in reader.todo :
       /\ \E i \in InFlight : reader.ids[i] = read[2]
       /\ LET m == Merge(readModel, read)
              r == [reader EXCEPT !.todo = @ \ {read}]
          IN  IF r.todo # {} THEN readModel' = m /\ reader' = r
              ELSE IF Missing(m, r)
              THEN /\ readModel' = Projection!CreateRegistryReadModel
                   /\ reader' = [r EXCEPT !.surface = "done"]
              ELSE readModel' = m /\ reader' = EndOfPage(r)

-----------------------------------------------------------------------------
(* A request passes authorizeAdmin before anything is read; one that does  *)
(* not changes nothing.                                                    *)
AdminRequest ==
  /\ reader = NoRequest
  /\ \E route \in Routes, o \in ObjectId, limit \in PageLimits,
        terminal \in IncludeTerminal :
       /\ route # "object" => o = 1
       /\ reader' = NextSurface([Request(route, o, limit, terminal) EXCEPT
                                   !.rest = SurfacesForRoute(route)])
       /\ dueIds' = IF terminal THEN IssuedIds ELSE LiveIds
  /\ dueLengths' = [s \in OffsetSurfaces |-> Len(OffsetList(s))]
  /\ UNCHANGED <<vars, readModel, moved>>

Answered ==
  /\ reader.surface \in Over
  /\ reader' = NoRequest
  /\ readModel' = Projection!CreateRegistryReadModel
  /\ dueIds' = {} /\ dueLengths' = [s \in OffsetSurfaces |-> 0]
  /\ moved' = Still
  /\ UNCHANGED vars

(* What happens after the answer does not matter to it. *)
RegistryMoves ==
  /\ reader.surface \notin Over
  /\ Next
  /\ moved' = IF ~Reading THEN Still ELSE
       [any |-> TRUE,
        objects |-> moved.objects \cup {o \in ObjectId : objects'[o] # objects[o]},
        accounts |-> moved.accounts \cup {a \in Account : usage'[a] # usage[a]}]
  /\ dueIds' = {o \in dueIds : reader.includeTerminal \/ Live(objects'[o].status)}
  /\ UNCHANGED <<reader, readModel, dueLengths>>

Continue ==
  (ReadPage \/ ReadDetail) /\ UNCHANGED <<vars, dueIds, dueLengths, moved>>

DRNext == AdminRequest \/ Continue \/ Answered \/ RegistryMoves

DRSpec == DRInit /\ [][DRNext]_DRvars

-----------------------------------------------------------------------------
(* Correctness *)

Done == reader.surface = "done"
DoneWith(surface) ==
  Done /\ surface \in Range(SurfacesForRoute(reader.route))

Report == Reconcile!BuildAdminSurfaces(readModel, <<>>, <<>>, now)

ModelKeys(surface) ==
  CASE surface = "accounts"     -> DOMAIN readModel.usage
    [] surface = "datasets"     -> DOMAIN readModel.datasets
    [] surface = "coordinators" -> DOMAIN readModel.coordinators
    [] surface = "relayers"     -> DOMAIN readModel.relayers

\* A traversal misses nothing that was there all along, however the registry
\* moves between its pages: every upload issued before it started, or, of an
\* active listing, every one that was live from its start to its end, and
\* every account, dataset, coordinator and relayer listed at its start.
TraversalComplete ==
  /\ DoneWith("objects") => dueIds \subseteq DOMAIN readModel.objects
  /\ reader.route # "object" => \A s \in OffsetSurfaces :
       DoneWith(s) =>
         {OffsetList(s)[i] : i \in 1..dueLengths[s]} \subseteq ModelKeys(s)

\* A request fails only for the size of the registry: never because a cursor
\* stood still or a page reverted, and for the page bound only if a surface
\* has as many entries as that many full pages hold, or uploads were closed
\* under an active listing, which starts over.
FailsOnlyForSize ==
  reader.surface = "failed" =>
    /\ reader.phase = "exceeded maxPagesPerSurface"
    /\ \/ moved.any /\ ~reader.includeTerminal
       \/ \E n \in {nextObjectId - 1} \cup {Len(OffsetList(s)) : s \in OffsetSurfaces} :
            n >= MaxPagesPerSurface * reader.limit

\* What the answer of a route shows of the checks: one object's, or all, or
\* none.
ShownChecks ==
  CASE reader.route = "object" ->
         IF reader.objectId \in DOMAIN readModel.objects
         THEN Reconcile!ChecksAbout(Report.checks, reader.objectId) ELSE {}
    [] reader.route \in {"datasets", "coordinators"} -> {}
    [] OTHER -> Report.checks

ShownErrors == {c \in ShownChecks : c.severity = "error"}

CoordinatorCodes ==
  {"uploading_object_disallowed_coordinator", "uploading_object_expired_coordinator"}

\* If the registry did not move meanwhile, the answer of every route shows
\* exactly the errors there are: an uploading object whose coordinator the
\* contract would refuse, and nothing else; no surface a route left unread
\* and no boundary of a page makes it report an error.
QuietAnswersTrue ==
  Done /\ ~moved.any /\ reader.includeTerminal =>
    \A o \in DOMAIN readModel.objects :
      /\ \A c \in ShownErrors : c.code \in CoordinatorCodes
      /\ ShownChecks # {} =>
           (Reconcile!ChecksAbout(ShownErrors, o) # {}
              <=> /\ objects[o].status = "Uploading"
                  /\ ~ActiveCoordinator(objects[o].coordinator))

\* While the registry moves, an error may be an effect of the reads being
\* apart, but only about an upload or an account that changed meanwhile: what
\* happens to one never raises an error about another.
OnlyMovedRowsMismatch ==
  Done /\ reader.includeTerminal => \A c \in ShownErrors :
    c.code \in CoordinatorCodes \/ c.about \in moved.objects \cup moved.accounts
=============================================================================
