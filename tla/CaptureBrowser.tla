--------------------------- MODULE CaptureBrowser ---------------------------
(***************************************************************************)
(* The capture browser (CaptureBrowserModal.jsx) on top of the capture      *)
(* list: search, sort and choose while captures come and go underneath.     *)
(*                                                                         *)
(* A telemetry message is its number; Temp and Lat give its maxTemp and     *)
(* latitude (0 without a fix), Stamp the wall clock at each capture, which  *)
(* may have been set back.  A search text is what it finds.                 *)
(***************************************************************************)
EXTENDS CaptureDeck, FiniteSets

CONSTANTS
    Temp, Lat,  \* of each telemetry message
    Stamp,      \* of each capture, by serial number
    Queries,    \* search texts: [blank, ids, places], what they are found in
    NoQuery     \* the empty one

ASSUME BrowserAssumption ==
    /\ Temp \in [0 .. MaxTelemetry -> Int] /\ Lat \in [0 .. MaxTelemetry -> Int]
    /\ Stamp \in [1 .. MaxCaptures -> Int]
    /\ NoQuery \in Queries /\ NoQuery.blank

VARIABLES
    browser,    \* [open, filter, field, dir, view]
    rows        \* processedCaptures, memoised

browserVars == <<vars, browser, rows>>

Fields == {"time", "temp", "location"}

(* a newly mounted browser; unmounting forgets its state *)
Mounted(open) ==
    [open |-> open, filter |-> NoQuery, field |-> "time", dir |-> "desc", view |-> "list"]

----------------------------------------------------------------------------
(* processedCaptures *)

(* Text that is blank after trim() filters nothing.  Otherwise the text     *)
(* itself, not trimmed, must be part of the id or of "lat,lon" (notes are   *)
(* always empty).                                                           *)
Matches(q, c) == q.blank \/ c.id \in q.ids \/ c.telemetry \in q.places

(* aVal, bVal *)
SortKey(c, field) ==
    CASE field = "time" -> Stamp[c.serial]
      [] field = "temp" -> Temp[c.telemetry]
      [] field = "location" -> Lat[c.telemetry]

(* the comparison function *)
Compare(a, b, field, dir) ==
    LET x == SortKey(a, field)
        y == SortKey(b, field)
    IN  IF x = y THEN 0 ELSE IF (x < y) = (dir = "asc") THEN -1 ELSE 1

(* result.filter: the places of the captures that are kept *)
Kept(list, q) == {i \in DOMAIN list : Matches(q, list[i])}

(* result.sort is stable: of two captures that compare equal the one that   *)
(* was in front stays in front.                                             *)
GoesBefore(list, i, j, field, dir) ==
    LET c == Compare(list[i], list[j], field, dir)
    IN  c < 0 \/ (c = 0 /\ i < j)

InFront(list, i, q, field, dir) ==
    {j \in Kept(list, q) : GoesBefore(list, j, i, field, dir)}

(* The row of a capture is behind all that go before it. *)
RowOf(list, i, q, field, dir) == Cardinality(InFront(list, i, q, field, dir)) + 1

Sorted(list, q, field, dir) ==
    [r \in 1 .. Cardinality(Kept(list, q)) |->
        list[CHOOSE i \in Kept(list, q) : RowOf(list, i, q, field, dir) = r]]

Processed(list, b) == Sorted(list, b.filter, b.field, b.dir)

(* mutant: sortDir is missing from the memo's dependencies *)
DependenciesNoDir(list, b) == <<list, b.filter, b.field>>

(* useMemo's dependencies *)
Dependencies(list, b) == <<list, b.filter, b.field, b.dir>>

(* the render after a change of the store or of the browser's own state *)
RenderRows ==
    rows' = IF ~ browser'.open THEN <<>>
            ELSE IF browser.open
                    /\ Dependencies(captures, browser) = Dependencies(captures', browser')
            THEN rows
            ELSE Processed(captures', browser')

BrowserInit == Init /\ browser = Mounted(FALSE) /\ rows = <<>>

----------------------------------------------------------------------------
(* The sidebar's button, which is there while there are captures; opening   *)
(* an open browser changes nothing.                                         *)
ShowBrowser ==
    /\ ~ browser.open
    /\ captures # <<>>
    /\ browser' = Mounted(TRUE)
    /\ UNCHANGED vars
    /\ RenderRows

CloseBrowser ==
    /\ browser.open
    /\ browser' = Mounted(FALSE)
    /\ UNCHANGED vars
    /\ RenderRows

(* The toolbar and the rows are there in the list view only. *)
Listing == browser.open /\ browser.view = "list"

SetFilter(q) ==
    /\ Listing
    /\ browser' = [browser EXCEPT !.filter = q]
    /\ UNCHANGED vars
    /\ RenderRows

(* the field in use turns its direction, another one starts downwards *)
ToggleSort(field) ==
    /\ Listing
    /\ browser' = IF field = browser.field
                  THEN [browser EXCEPT !.dir = IF browser.dir = "desc" THEN "asc" ELSE "desc"]
                  ELSE [browser EXCEPT !.field = field, !.dir = "desc"]
    /\ UNCHANGED vars
    /\ RenderRows

SetViewMode(mode) ==
    /\ browser.open
    /\ browser' = [browser EXCEPT !.view = mode]
    /\ UNCHANGED vars
    /\ RenderRows

(* mutant: the row's position is looked up in the store's list *)
RowIdByPosition(r) == captures[r].id

RowId(r) == rows[r].id

(* handleSelect: close the browser, select the row's capture *)
HandleSelect(r) ==
    /\ Listing
    /\ browser' = Mounted(FALSE)
    /\ selected' = RowId(r)
    /\ chosen' = rows[r].serial
    /\ UNCHANGED <<activeTab, telemetry, closure, captures, serial, fileVars,
                   toastVars>>
    /\ RenderRows

(* Everything else goes on behind the browser: messages and timers, and the *)
(* page's buttons, which it covers but leaves within the keyboard's reach;  *)
(* the sidebar's rows are no buttons.                                       *)
Behind ==
    /\ Next
    /\ browser.open => chosen' \in {0, chosen}
    /\ UNCHANGED browser
    /\ RenderRows

BrowserNext ==
    \/ Behind
    \/ ShowBrowser
    \/ CloseBrowser
    \/ \E q \in Queries : SetFilter(q)
    \/ \E field \in Fields : ToggleSort(field)
    \/ \E mode \in {"list", "map"} : SetViewMode(mode)
    \/ \E r \in DOMAIN rows : HandleSelect(r)

BrowserSpec == BrowserInit /\ [][BrowserNext]_browserVars

----------------------------------------------------------------------------
(* An open browser always lists the captures there are now that the search  *)
(* finds, each once, in the order chosen: by the key, in the direction      *)
(* shown, and captures with equal keys as they were taken, although the     *)
(* list is memoised, captures are taken and cleared behind it, the clock    *)
(* may be set back and messages without a fix have no latitude.             *)
RowsAreTrue ==
    LET Key(i) == SortKey(rows[i], browser.field)
    IN  browser.open =>
          /\ Range(rows) = {c \in Range(captures) : Matches(browser.filter, c)}
          /\ \A i, j \in DOMAIN rows : i < j =>
                /\ IF browser.dir = "asc" THEN Key(i) <= Key(j) ELSE Key(i) >= Key(j)
                /\ Key(i) = Key(j) => rows[i].serial < rows[j].serial

=============================================================================
