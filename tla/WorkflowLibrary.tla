--------------------------- MODULE WorkflowLibrary ---------------------------
(***************************************************************************)
(* The workflow library: a list that a loader fetched, the search          *)
(* parameters in the URL that filter it, and the cards' menus.  Every      *)
(* change of a parameter is a navigation: the router runs the loader       *)
(* again, shows the old page meanwhile, and drops a navigation that a      *)
(* later one overtakes.  Archiving is a request of its own that nobody     *)
(* awaits.  What a request of the backend does to the row is external.     *)
(*                                                                         *)
(* The Restore and the Favorite handlers are empty, and the pagination is  *)
(* given a list of one page at most, so that its links never show: they    *)
(* are no actions.                                                         *)
(***************************************************************************)
EXTENDS Naturals, Sequences, SequencesExt, FiniteSetsExt, Arrays

CONSTANTS
  Workflows,
  Tags, TagsOf,           \* the tags of a workflow (optional in the API)
  Queries, NoQuery,
  Matching,               \* query -> the workflows whose texts contain it
  Links,                  \* the parameters that a visitor may arrive with
  ITEMS_PER_PAGE,
  None, Away              \* Away: the target of a navigation to another page

Statuses == {"draft", "active", "archived"}

VARIABLES
  status,                 \* the stored status of each workflow
  archiveRequests,        \* PATCH requests in flight
  route,                  \* "library", "error" or "away"
  searchParams,           \* the parameters of the URL, as they are
  loaderData,             \* the rows on display
  navigation,             \* the pending navigation, with its loader's rows
  showLoading,            \* the debounced navigation state
  archivingWorkflow       \* the workflow of the archive dialog
vars == <<status, archiveRequests, route, searchParams, loaderData, navigation, showLoading,
          archivingWorkflow>>
pageVars == <<route, searchParams, loaderData, navigation, showLoading, archivingWorkflow>>

Row == [id : Workflows, status : Statuses]

TypeOK ==
  /\ status \in [Workflows -> Statuses]
  /\ archiveRequests \subseteq Workflows
  /\ route \in {"library", "error", "away"}
  /\ searchParams.q \in Queries /\ searchParams.tab \in Statuses \cup {None}
  /\ searchParams.tags \subseteq Tags /\ searchParams.page \in Nat
  /\ Range(loaderData) \subseteq Row /\ Len(loaderData) = Cardinality(Workflows)
  /\ showLoading \in BOOLEAN
  /\ archivingWorkflow \in Workflows \cup {None}

-----------------------------------------------------------------------------
(* The parameters and the list they select.                                *)

\* A missing or unknown tab is "active"; the page is clamped to a number of
\* pages that every caller leaves at its default.
useValidatedSearchParams(params) ==
  LET totalPages == 1
  IN [params EXCEPT !.tab = IF @ = None THEN "active" ELSE @,
                    !.page = Max({1, Min({@, totalPages})})]

\* A deleted parameter and tags leave the page; any other starts at page 1.
updateParams(key, value) ==
  [searchParams EXCEPT ![key] = value,
                       !.page = IF key = "tags" \/ value = NoQuery THEN @ ELSE 1]

\* The filters but for the tab: one of the tags, and the query.
Passes(row, params) ==
  /\ params.tags = {} \/ params.tags \cap TagsOf[row.id] # {}
  /\ row.id \in Matching[params.q]

getWorkflowData(rows, params) ==
  LET workflows == filter(rows, {r \in Row : Passes(r, params) /\ r.status = params.tab})
  IN [workflows |-> workflows,
      tags |-> UNION {TagsOf[r.id] : r \in Range(workflows)},
      statusCounts |-> [s \in Statuses |->
                          Len(filter(rows, {r \in Row : Passes(r, params) /\ r.status = s}))]]

useFilteredWorkflows(rows) ==
  LET params == useValidatedSearchParams(searchParams)
      data == getWorkflowData(rows, params)
      n == Len(data.workflows)
      last == params.page * ITEMS_PER_PAGE
  IN [workflows |-> SubSeq(data.workflows, last - ITEMS_PER_PAGE + 1, Min({last, n})),
      tags |-> data.tags, statusCounts |-> data.statusCounts,
      totalPages |-> Max({1, (n + ITEMS_PER_PAGE - 1) \div ITEMS_PER_PAGE})]

\* What the route passes on; tabs, tag filter and pagination filter it again.
FilteredWorkflows == useFilteredWorkflows(loaderData).workflows
WorkflowTabs == useFilteredWorkflows(FilteredWorkflows).statusCounts
TagFilter == useFilteredWorkflows(FilteredWorkflows).tags
PageNumbers == IF useFilteredWorkflows(FilteredWorkflows).totalPages <= 1 THEN {}
               ELSE 1 .. useFilteredWorkflows(FilteredWorkflows).totalPages

\* Without workflows, and unless skeletons show, the list is the empty state,
\* and the dialog is not rendered either.
EmptyShown == FilteredWorkflows = <<>> /\ ~showLoading
DialogShown == archivingWorkflow # None /\ ~EmptyShown
Cards == IF showLoading THEN {} ELSE Range(FilteredWorkflows)

\* The message of the empty state.
getContent ==
  LET params == useValidatedSearchParams(searchParams)
  IN IF params.q # NoQuery THEN "no results" ELSE params.tab

-----------------------------------------------------------------------------
(* The router.                                                             *)

\* The rows of a navigation whose loader has not answered.
NotRead == None

Load == [i \in 1 .. Cardinality(Workflows) |->
           [id |-> SetToSeq(Workflows)[i], status |-> status[SetToSeq(Workflows)[i]]]]

\* A click that navigates: it replaces a pending navigation.
Navigate(to) ==
  /\ route = "library" /\ ~DialogShown
  /\ navigation' = [to |-> to, rows |-> NotRead]
  /\ UNCHANGED <<status, archiveRequests, route, searchParams, loaderData, showLoading,
                 archivingWorkflow>>

LoaderReads ==
  /\ navigation # None /\ navigation.to # Away /\ navigation.rows = NotRead
  /\ navigation' = [navigation EXCEPT !.rows = Load]
  /\ UNCHANGED <<status, archiveRequests, route, searchParams, loaderData, showLoading,
                 archivingWorkflow>>

\* Another page, of the site or the error boundary: the list is unmounted.
LeaveFor(r) ==
  /\ route' = r
  /\ navigation' = None /\ showLoading' = FALSE /\ archivingWorkflow' = None
  /\ UNCHANGED <<status, archiveRequests, searchParams, loaderData>>

NavigationCompletes ==
  /\ navigation # None
  /\ \/ navigation.to = Away /\ LeaveFor("away")
     \/ /\ navigation.rows # NotRead
        /\ searchParams' = navigation.to /\ loaderData' = navigation.rows
        /\ navigation' = None
        /\ UNCHANGED <<status, archiveRequests, route, showLoading, archivingWorkflow>>

LoaderFails ==
  /\ navigation # None /\ navigation.to # Away /\ navigation.rows = NotRead
  /\ LeaveFor("error")

\* A visit from elsewhere, or loading the page again.
Visit(params) ==
  /\ route = "library" => params = searchParams
  /\ route' = "library"
  /\ searchParams' = params /\ loaderData' = Load
  /\ navigation' = None /\ showLoading' = FALSE /\ archivingWorkflow' = None
  /\ UNCHANGED <<status, archiveRequests>>

\* The debounced value follows after 150 ms without a change.
DebounceFires ==
  /\ route = "library" /\ showLoading # (navigation # None)
  /\ showLoading' = ~showLoading
  /\ UNCHANGED <<status, archiveRequests, route, searchParams, loaderData, navigation,
                 archivingWorkflow>>

-----------------------------------------------------------------------------
(* The controls of the page.                                               *)

SearchInput(q) == q # searchParams.q /\ Navigate(updateParams("q", q))

handleTabChange(tab) ==
  /\ tab # useValidatedSearchParams(searchParams).tab
  /\ Navigate(updateParams("tab", tab))

\* The form of the popover holds the tags of the cards on display only.
handleSubmit(tags) == tags \subseteq TagFilter /\ Navigate(updateParams("tags", tags))

removeTag(tag) ==
  /\ tag \in searchParams.tags
  /\ Navigate(updateParams("tags", searchParams.tags \ {tag}))

clearAllTags == searchParams.tags # {} /\ Navigate(updateParams("tags", {}))

\* Edit and Run lead away; neither the run nor its identifier is waited for.
handleEditOrRun == Navigate(Away)

\* Every card offers them on hover, whatever its status.
WorkflowActionsHover == Cards # {} /\ handleEditOrRun

CreateWorkflowButton == Navigate(Away)

\* The menu of a card offers Archive unless the row says archived.
AskArchive(w) ==
  /\ route = "library" /\ ~DialogShown
  /\ \E row \in Cards : row.id = w /\ row.status # "archived"
  /\ archivingWorkflow' = w
  /\ UNCHANGED <<status, archiveRequests, route, searchParams, loaderData, navigation, showLoading>>

\* Mutant: the list is changed before the answer is there.
Optimistic ==
  /\ route = "library" /\ DialogShown
  /\ archiveRequests' = archiveRequests \cup {archivingWorkflow}
  /\ archivingWorkflow' = None
  /\ loaderData' = [i \in DOMAIN loaderData |->
       IF loaderData[i].id = archivingWorkflow THEN [loaderData[i] EXCEPT !.status = "archived"]
       ELSE loaderData[i]]
  /\ UNCHANGED <<status, route, searchParams, navigation, showLoading>>

handleConfirm ==
  /\ route = "library" /\ DialogShown
  /\ archiveRequests' = archiveRequests \cup {archivingWorkflow}
  /\ archivingWorkflow' = None
  /\ UNCHANGED <<status, route, searchParams, loaderData, navigation, showLoading>>

handleCancel ==
  /\ route = "library" /\ DialogShown
  /\ archivingWorkflow' = None
  /\ UNCHANGED <<status, archiveRequests, route, searchParams, loaderData, navigation, showLoading>>

\* The backend archives the row, or the request is refused or lost: the page
\* hears of neither.
ArchiveAnswered(w) ==
  /\ w \in archiveRequests
  /\ archiveRequests' = archiveRequests \ {w}
  /\ status' \in {status, [status EXCEPT ![w] = "archived"]}
  /\ UNCHANGED pageVars

-----------------------------------------------------------------------------
Init ==
  /\ status \in [Workflows -> Statuses]
  /\ archiveRequests = {}
  /\ route = "library"
  /\ searchParams \in Links
  /\ loaderData = Load
  /\ navigation = None /\ showLoading = FALSE /\ archivingWorkflow = None

UserNavigates ==
  \/ \E q \in Queries : SearchInput(q)
  \/ \E tab \in Statuses : handleTabChange(tab)
  \/ \E tags \in SUBSET Tags : handleSubmit(tags)
  \/ \E tag \in Tags : removeTag(tag)
  \/ clearAllTags \/ WorkflowActionsHover \/ CreateWorkflowButton

Next ==
  \/ UserNavigates
  \/ \E w \in Workflows : AskArchive(w) \/ ArchiveAnswered(w)
  \/ handleConfirm \/ handleCancel
  \/ LoaderReads \/ NavigationCompletes \/ LoaderFails \/ DebounceFires
  \/ \E params \in Links \cup {searchParams} : Visit(params)

\* The loader answers, the router commits, the debounce timer fires.
Spec == Init /\ [][Next]_vars
        /\ WF_vars(LoaderReads \/ LoaderFails) /\ WF_vars(NavigationCompletes) /\ WF_vars(DebounceFires)

-----------------------------------------------------------------------------
(* Properties.                                                             *)

\* A page number that no longer exists, from a link or because tags leave it
\* as it was, never blanks the page: if a workflow matches, a card shows one.
NeverBlank ==
  getWorkflowData(loaderData, useValidatedSearchParams(searchParams)).workflows # <<>>
    => FilteredWorkflows # <<>>

\* The list may be old, in one way only: a row it shows as archived is, and
\* a row that differs from the stored one was archived meanwhile.
OnlyArchivingIsMissed ==
  \A row \in Range(loaderData) : row.status # status[row.id] => status[row.id] = "archived"

\* "No archived workflows", and likewise for the other tabs: without tags, and
\* whatever page the URL asks for, the message only shows when there are none.
EmptyMessageIsTrue ==
  route = "library" /\ EmptyShown /\ searchParams.tags = {} /\ getContent # "no results"
    => \A row \in Range(loaderData) : row.status # getContent

\* Once the user stops clicking, the skeletons go away.
SkeletonsGoAway == <>[][~UserNavigates]_vars => []<>(~showLoading)

=============================================================================
