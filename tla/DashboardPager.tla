---------------------------- MODULE DashboardPager ----------------------------
(***************************************************************************)
(* The admin dashboard page of src/worker/calibration-demo.mjs: the script *)
(* renderAdminDashboardHtml puts into the page, and the table endpoints of *)
(* readDashboardApi it asks for pages of the registry's lists.             *)
(*                                                                         *)
(* The page keeps one position per view.  A click starts a load, and loads *)
(* overlap: answers arrive in any order, may fail, and the lists grow      *)
(* meanwhile: uploads are listed from the newest id down, below a cursor   *)
(* (all of them: includeTerminal), the other lists from an offset up.      *)
(* Status, provider and search text only drop rows of a page that was      *)
(* read, so a filter is a value that an answer was made with.              *)
(*                                                                         *)
(* Left out: a page served with live reads off, whose answers hold no rows *)
(* and no pagination; markup; the columns of a row.                        *)
(***************************************************************************)
EXTENDS Naturals, Sequences, FiniteSets, SequencesExt, FiniteSetsExt

CONSTANTS
  OpenViews,       (* the views a user opens                               *)
  Limits,          (* values of the page size control                      *)
  Filters,         (* values of the status and provider controls           *)
  Texts,           (* values of the search box                             *)
  MaxLength,       (* bound: rows of a list                                *)
  MaxLoads         (* bound: loads of the page                             *)

VARIABLES
  length,      (* of each list of the registry                             *)
  view, requestSeq, pages, pagination,     (* the script's state           *)
  controls,    (* what the controls say                                    *)
  searchTimer, (* the delayed load after typing is due                     *)
  booting,     (* the overview that precedes the first load is not there   *)
  table,       (* what is on the screen                                    *)
  footer,      (* the pager under it                                       *)
  flights,     (* requests that are not answered                           *)
  rendered,    (* history: the pages of each view shown since the last     *)
               (* reset of all positions, but not of a strayed view         *)
  strayed      (* history: views whose position came from the pager of     *)
               (* another view or of another traversal                     *)

pageVars == <<view, requestSeq, pages, pagination, controls, searchTimer,
              booting, table, footer, flights, rendered, strayed>>
DPvars   == <<length, pageVars>>

CursorViews == {"files", "reconciliation"}

ListsOf == [files          |-> <<"objects">>,
            accounts       |-> <<"accounts">>,
            datasets       |-> <<"datasets">>,
            coordinators   |-> <<"coordinators", "relayers">>,
            reconciliation |-> <<"objects">>]
Views     == DOMAIN ListsOf
ListNames == UNION {Range(ListsOf[v]) : v \in OpenViews}

ASSUME OpenViewsAssumption == OpenViews \subseteq Views
(* The options of the page size control: 10, 20, 50. *)
ASSUME LimitsAssumption == Limits \subseteq Nat \ {0}
ASSUME BoundsAssumption == MaxLength \in Nat /\ MaxLoads \in Nat

Mode(v) == IF v \in CursorViews THEN "objectIdCursor" ELSE "offset"

NoPagination == [mode |-> "none", next |-> 0, hasNextPage |-> FALSE]
NoPager      == [buttons |-> FALSE, first |-> FALSE, view |-> "files",
                 reset |-> FALSE]
Loading(v)   == [kind |-> "loading", view |-> v]

-----------------------------------------------------------------------------
(* The worker: readDashboardApi *)

(* A plausible bug: a full page is taken for the last one. *)
HasNextPage_full_is_last(rowCount, limit) == rowCount > limit

(* dashboardPagination: a full page may have a successor. *)
HasNextPage(rowCount, limit) == limit > 0 /\ rowCount >= limit

(* Ids below a cursor, 0 standing for the head of the list. *)
CursorRows(list, cursor, limit) ==
  LET top == IF cursor = 0 \/ cursor > length[list] THEN length[list] ELSE cursor - 1
  IN  Max({1, top - limit + 1})..top

OffsetRows(list, offset, limit) ==
  (offset + 1)..Min({offset + limit, length[list]})

(* nextCursorIdExclusive of cursorPagination, nextOffset of offsetPagination *)
NextOf(ask, rows) ==
  IF ask.view \notin CursorViews THEN ask.from + Cardinality(rows)
  ELSE IF rows = {} THEN ask.from ELSE Min(rows)

ReadDashboardApi(ask) ==
  [i \in DOMAIN ListsOf[ask.view] |->
     LET list == ListsOf[ask.view][i]
         rows == IF ask.view \in CursorViews
                 THEN CursorRows(list, ask.from, ask.limit)
                 ELSE OffsetRows(list, ask.from, ask.limit)
     IN  [list |-> list, rows |-> rows, total |-> length[list],
          next |-> NextOf(ask, rows),
          hasNextPage |-> HasNextPage(Cardinality(rows), ask.limit)]]

-----------------------------------------------------------------------------
(* The script: what an answer puts on the screen *)

(* combinedOffsetPagination; of a single list it is that list's own. *)
PrimaryPagination(v, body) ==
  LET withNext == {i \in DOMAIN body : body[i].hasNextPage}
      primary  == IF withNext = {} THEN 1 ELSE Min(withNext)
  IN  [mode |-> Mode(v), next |-> body[primary].next,
       hasNextPage |-> withNext # {}]

(* A plausible bug: any answer for the open view is shown. *)
Accepts_any_for_view(f) == f.view = view

(* The guard in loadView: a later load has not replaced this one. *)
Accepts(f) == f.id = requestSeq /\ f.view = view

(* loadView, with the positions and controls as they are after the event. *)
LoadView(v, positions, values) ==
  /\ requestSeq < MaxLoads
  /\ requestSeq' = requestSeq + 1
  /\ table' = Loading(v)
  /\ flights' = flights \cup
       {[id |-> requestSeq + 1, view |-> v, from |-> positions[v],
         limit |-> values.limit, filter |-> values.filter, q |-> values.q]}
  /\ UNCHANGED pagination

ResetAllPages ==
  /\ pages' = [v \in Views |-> 0]
  /\ footer' = [footer EXCEPT !.reset = TRUE]
  /\ rendered' = [v \in Views |-> {}]
  /\ strayed' = {}

-----------------------------------------------------------------------------
(* The user *)

Navigate(v) ==
  /\ view' = v
  /\ LoadView(v, pages, controls)
  /\ UNCHANGED <<length, pages, controls, searchTimer, booting, footer, rendered,
                 strayed>>

ChangeControl(limit, filter) ==
  /\ <<limit, filter>> # <<controls.limit, controls.filter>>
  /\ controls' = [controls EXCEPT !.limit = limit, !.filter = filter]
  /\ ResetAllPages
  /\ LoadView(view, [v \in Views |-> 0], controls')
  /\ UNCHANGED <<length, view, searchTimer, booting>>

TypeText(q) ==
  /\ q # controls.q
  /\ controls' = [controls EXCEPT !.q = q]
  /\ searchTimer' = TRUE
  /\ UNCHANGED <<length, view, requestSeq, pages, pagination, booting, table,
                 footer, flights, rendered, strayed>>

SearchTimerFires ==
  /\ searchTimer
  /\ searchTimer' = FALSE
  /\ ResetAllPages
  /\ LoadView(view, [v \in Views |-> 0], controls)
  /\ UNCHANGED <<length, view, controls, booting>>

(* The pager under the table belongs to the open view and its traversal. *)
OwnPager == footer.view = view /\ ~footer.reset

(* A plausible bug: Next adds a page instead of taking the returned position. *)
NextPosition_adds_page == pages[view] + controls.limit

(* A pagination of the other mode sets a field this view does not read. *)
NextPosition ==
  IF pagination.mode = Mode(view) THEN pagination.next ELSE pages[view]

ClickTo(position) ==
  /\ pages' = [pages EXCEPT ![view] = position]
  /\ LoadView(view, pages', controls)
  /\ UNCHANGED <<length, view, controls, searchTimer, booting, footer>>

(* The pager of the last answer can be clicked while the next one is on    *)
(* its way, also if that is for another view.                              *)
ClickNext ==
  /\ footer.buttons /\ pagination.hasNextPage
  /\ ClickTo(NextPosition)
  /\ IF OwnPager THEN UNCHANGED <<rendered, strayed>>
     ELSE /\ strayed' = strayed \cup {view}
          /\ rendered' = [rendered EXCEPT ![view] = {}]

ClickFirst ==
  /\ footer.buttons /\ ~footer.first
  /\ ClickTo(0)
  /\ UNCHANGED <<rendered, strayed>>

-----------------------------------------------------------------------------
(* The rest *)

(* loadOverview settles, whatever its answer, and the first load starts. *)
OverviewSettles ==
  /\ booting
  /\ booting' = FALSE
  /\ LoadView(view, pages, controls)
  /\ UNCHANGED <<length, view, pages, controls, searchTimer, footer, rendered,
                 strayed>>

(* renderView and renderFooter; an answer that came too late is dropped.   *)
(* Rows that are added while an answer travels change nothing it holds and *)
(* nothing else the script does, so the read and the arrival are one step. *)
Arrive(f) ==
  /\ flights' = flights \ {f}
  /\ IF Accepts(f)
     THEN LET body == ReadDashboardApi(f) IN
          /\ table' = [kind |-> "rows", view |-> f.view, from |-> f.from,
                       limit |-> f.limit, filter |-> f.filter, q |-> f.q]
          /\ pagination' = PrimaryPagination(f.view, body)
          /\ footer' = [buttons |-> TRUE, first |-> pages[f.view] = 0,
                        view |-> f.view, reset |-> FALSE]
          /\ rendered' = [rendered EXCEPT ![f.view] =
                           IF f.view \in strayed THEN {} ELSE @ \cup {body}]
     ELSE UNCHANGED <<table, pagination, footer, rendered>>
  /\ UNCHANGED <<length, view, requestSeq, pages, controls, searchTimer, booting,
                 strayed>>

(* The pager goes; the pagination of the last answer stays. *)
Fail(f) ==
  /\ flights' = flights \ {f}
  /\ IF Accepts(f)
     THEN /\ table' = [kind |-> "error", view |-> f.view]
          /\ footer' = NoPager
     ELSE UNCHANGED <<table, footer>>
  /\ UNCHANGED <<length, view, requestSeq, pages, pagination, controls,
                 searchTimer, booting, rendered, strayed>>

(* The registry appends a row to a list. *)
Grow(list) ==
  /\ length[list] < MaxLength
  /\ length' = [length EXCEPT ![list] = @ + 1]
  /\ UNCHANGED pageVars

-----------------------------------------------------------------------------
DPInit ==
  /\ length \in [ListNames -> 0..MaxLength]
  /\ view \in OpenViews
  /\ requestSeq = 0
  /\ pages = [v \in Views |-> 0]
  /\ pagination = NoPagination
  /\ controls \in [limit : Limits, filter : Filters, q : Texts]
  /\ searchTimer = FALSE
  /\ booting = TRUE
  /\ table = Loading(view)
  /\ footer = NoPager
  /\ flights = {}
  /\ rendered = [v \in Views |-> {}]
  /\ strayed = {}

DPNext ==
  \/ \E v \in OpenViews : Navigate(v)
  \/ \E limit \in Limits, filter \in Filters : ChangeControl(limit, filter)
  \/ \E q \in Texts : TypeText(q)
  \/ SearchTimerFires
  \/ ClickNext
  \/ ClickFirst
  \/ OverviewSettles
  \/ \E f \in flights : Arrive(f) \/ Fail(f)
  \/ \E list \in ListNames : Grow(list)

DPSpec == DPInit /\ [][DPNext]_DPvars

-----------------------------------------------------------------------------
(* Properties *)

Entries(v, list) ==
  {e \in UNION {Range(body) : body \in rendered[v]} : e.list = list}
Seen(v, list) == UNION {e.rows : e \in Entries(v, list)}
(* The rows that were there when each page shown so far was read. *)
Known(v, list) == 1..Min({e.total : e \in Entries(v, list)})
(* The rows that come before a position. *)
Before(v, position) ==
  IF v \notin CursorViews THEN 1..position
  ELSE IF position = 0 THEN {} ELSE position..MaxLength

\* Once no load is under way and no search is due, the rows on the screen
\* are those of the open view, at the position it has, with the page size
\* and filters the controls show, in whatever order the answers came
\* (loadView's guard on requestSeq).
ShownIsCurrent ==
  /\ table.kind = "rows"
  /\ ~searchTimer
  /\ \A f \in flights : f.id # requestSeq
  => /\ table.view = view
     /\ table.from = pages[view]
     /\ [limit |-> table.limit, filter |-> table.filter, q |-> table.q] = controls

(* Rows are shown, and the positions of the view came from its own pages.  *)
OwnRows == table.kind = "rows" /\ ~searchTimer /\ table.view \notin strayed

\* Whoever sees a page has been shown every row before it that was there all
\* along, also after clicking Next twice, a failed load, or a detour through
\* another view (applyPageAction, renderFooter); only a position taken from a
\* pager that belongs to another view or to the pages before a change of the
\* controls may skip rows, until the controls change again.
NoRowSkipped ==
  OwnRows =>
    \A list \in Range(ListsOf[table.view]) :
      Before(table.view, table.from) \cap Known(table.view, list)
        \subseteq Seen(table.view, list)

\* A Next button that is grey means that nothing is left: every row that was
\* there all along has been shown, in both tables of the coordinator view
\* (dashboardPagination, combinedOffsetPagination).
EndMeansAll ==
  OwnRows /\ ~pagination.hasNextPage =>
    \A list \in Range(ListsOf[table.view]) :
      Known(table.view, list) \subseteq Seen(table.view, list)

\* Paging shows everything: nothing is skipped on the way or left at the end.
PagingComplete == NoRowSkipped /\ EndMeansAll
=============================================================================
