----------------------------- MODULE PageStack -----------------------------
(***************************************************************************)
(* The window's pages (qml/main.qml) around the history                    *)
(* (qml/views/HistoryPage.qml, SettingsPage.qml): every page but the       *)
(* Scanner is loaded in the background once it is first visited, and the   *)
(* two that list or count the history ask for it when they become visible. *)
(*                                                                         *)
(* This is ScanHistory with its callers: a user who goes from page to page *)
(* faster than they load, and deletes what a page shows.                   *)
(***************************************************************************)
EXTENDS ScanHistory

CONSTANTS
    Tabs,               \* pages of the bottom bar
    SubPages            \* pages with a Back button

ASSUME TabsAssumption == "scan" \in Tabs
ASSUME PagesAssumption == Tabs \cap SubPages = {}

VARIABLES
    currentPage,
    previousTab,        \* where Back leads
    visited,            \* generatorVisited, historyVisited, ...: active loaders
    ready,              \* those whose page is there
    confirm             \* the confirmation of Clear is open, on the current page

pageVars == <<currentPage, previousTab, visited, ready, confirm>>
allVars == <<vars, pageVars>>

Pages == Tabs \cup SubPages
ListPages == {"history", "settings"}

-----------------------------------------------------------------------------
\* if (visible) scanHistory.ensureLoaded(), and a variant of Component.onCompleted
\* without it. EnsureLoaded is the call that finds nothing loaded yet.
CompletedSilently(p) == UNCHANGED vars

EnsureLoadedIf(shown) ==
    IF shown /\ ~loaded /\ ~loadInFlight THEN EnsureLoaded ELSE UNCHANGED vars

Completed(p) == EnsureLoadedIf(p = currentPage /\ p \in ListPages)

StackInit ==
    /\ currentPage = "scan"
    /\ previousTab = "scan"
    /\ visited = {}
    /\ ready = {}
    /\ confirm = FALSE

PInit == Init /\ StackInit

\* navigateTo(), from a bar or by Back; the page becomes visible if it is there.
\* A confirmation is modal.
NavigateTo(p) ==
    /\ ~adding /\ ~confirm
    /\ currentPage' = p
    /\ previousTab' = IF p \in Tabs THEN p ELSE previousTab
    /\ visited' = visited \cup ({p} \ {"scan"})
    /\ EnsureLoadedIf(p # currentPage /\ p \in ready \cap ListPages)
    /\ UNCHANGED <<ready, confirm>>

Back == currentPage \in SubPages /\ NavigateTo(previousTab)

\* A loader has its page: Component.onCompleted.
PageReady(p) ==
    /\ ~adding
    /\ p \in visited \ ready
    /\ ready' = ready \cup {p}
    /\ Completed(p)
    /\ UNCHANGED <<currentPage, previousTab, visited, confirm>>

\* The Clear buttons, enabled while something is listed, and their confirmation.
OpenConfirm ==
    /\ ~adding /\ ~confirm
    /\ currentPage \in ready \cap ListPages
    /\ entries # <<>>
    /\ confirm' = TRUE
    /\ UNCHANGED <<vars, currentPage, previousTab, visited, ready>>

Confirmed ==
    /\ confirm
    /\ Clear
    /\ confirm' = FALSE
    /\ UNCHANGED <<currentPage, previousTab, visited, ready>>

CancelConfirm ==
    /\ ~adding /\ confirm
    /\ confirm' = FALSE
    /\ UNCHANGED <<vars, currentPage, previousTab, visited, ready>>

\* The Delete button of a row.
DeleteRow(row) ==
    /\ ~confirm
    /\ currentPage = "history" /\ "history" \in ready
    /\ RemoveEntry(row)
    /\ UNCHANGED pageVars

\* What goes on behind the pages: records come from the decoder and from saves,
\* whatever page is shown. (Open, which no page calls, is for tests.)
Behind ==
    /\ WorkerRead \/ FinishLoad \/ BeginAdd \/ FinishAdd \/ Open
    /\ UNCHANGED pageVars

\* The next process starts on the Scanner page, with no other one loaded.
StartAgain ==
    /\ Restart \/ Crash
    /\ currentPage' = "scan" /\ previousTab' = "scan"
    /\ visited' = {} /\ ready' = {}
    /\ confirm' = FALSE

PNext ==
    \/ \E p \in Pages : NavigateTo(p) \/ PageReady(p)
    \/ Back
    \/ OpenConfirm
    \/ Confirmed
    \/ CancelConfirm
    \/ \E row \in 1 .. MaxId : DeleteRow(row)
    \/ Behind
    \/ StartAgain

\* As in ScanHistory; and a page that is being loaded is there in the end.
PSpec ==
    /\ PInit /\ [][PNext]_allVars
    /\ Fairness
    /\ \A p \in Pages : WF_allVars(PageReady(p))

-----------------------------------------------------------------------------
\* Pages and loaders hang together: what is shown has been asked for, and a
\* confirmation is on a page that can have opened it.
PagesAgree ==
    /\ currentPage \in Pages /\ previousTab \in Tabs
    /\ ready \subseteq visited /\ visited \subseteq Pages
    /\ currentPage # "scan" => currentPage \in visited
    /\ currentPage \in Tabs => previousTab = currentPage
    /\ confirm => currentPage \in ready \cap ListPages

\* Whoever stays on a page that lists or counts the history gets it, however the
\* page, its first load, other visits and earlier writes came in each other's way:
\* a load is asked for by whichever of page and visit comes last, and it ends.
PageFills ==
    /\ LoadEnds
    /\ <>[][~Write]_vars =>
          (currentPage \in ListPages ~> (loaded \/ currentPage \notin ListPages))
=============================================================================
