------------------------------ MODULE BrowsePane ------------------------------
(***************************************************************************)
(* The rest of the dashboard page: the catalogue with its category, search *)
(* and sort, kept in step with the page's address both ways, the selected  *)
(* card, the definition preview, and the comparison of two report files.   *)
(* Renders and effects are those of RunPane: a handler assigns, a render   *)
(* commits and runs the effects, a click is committed at once.             *)
(***************************************************************************)
EXTENDS ReportComparison

CONSTANTS
    Scenarios,      \* the catalogue the backend answers, by rank of their ids
    NameRank,       \* the rank of each scenario's name
    Matching,       \* for a category or a query, the scenarios it lets through
    Queries,        \* what the user types; some differ by outer blanks only
    Trim,           \* ... and what is left of each without them
    Links,          \* the addresses the page may be opened at
    Reports,        \* readable report files; any other is refused
    MaxClicks       \* bound on what the user does

VARIABLES
    ui,         \* the state the handlers assign
    seen,       \* the parts of it, and the address, of the last render
    prev,       \* prevStateRef: the choice last written to the address
    page,       \* the address, the navigation asked for, the address behind
    requests,   \* the requests waited for: catalogue, preview, restored run
    compare,    \* the comparison view: two reports, two errors, files being read
    clicks,
    crossed,    \* history: the page took an address and a choice over at once
    overtaken   \* history: the restored scenario for which the effect was not rerun

vars == <<ui, seen, prev, page, requests, compare, clicks, crossed, overtaken>>

None == "none"
Unread == [filter |-> None, search |-> None, sort |-> None]
NoId == 0
Categories == {"all", "xlm"}                    \* FILTER_OPTIONS, an instance
Orders == {"name-asc", "name-desc", "id-asc"}   \* SORT_OPTIONS
(* An address may name any category and any order, besides a query.        *)
Words == Categories \union Orders \union UNION {{a.filter, a.sort} : a \in Links}
Addresses == [filter : Words, search : Queries, sort : Words]

ASSUME BrowseAssumption ==
    /\ IsFiniteSet(Scenarios) /\ Scenarios \subseteq Nat \ {NoId}
    /\ NameRank \in [Scenarios -> Nat]
    /\ Trim \in [Queries -> Queries] /\ "" \in Queries
    /\ \A q \in Queries : Trim[Trim[q]] = Trim[q]
    /\ Links \subseteq Addresses \ {Unread}
    /\ \A r \in Reports : /\ r.steps \in Seq([id : STRING, status : STRING])
                         /\ r.assertions \in Seq([type : STRING, status : STRING])

parseCategory(c) == IF c \in Categories THEN c ELSE "all"

Choice(state) ==
    [filter |-> state.filter, search |-> state.search, sort |-> state.sort]
Visible(state) ==
    {s \in state.scenarios : /\ state.filter = "all" \/ s \in Matching[state.filter]
                             /\ Trim[state.search] = "" \/ s \in Matching[Trim[state.search]]}
Before(s, t, order) ==
    LET byName == IF order = "name-desc" THEN NameRank[s] > NameRank[t]
                  ELSE NameRank[s] < NameRank[t]
    IN  IF order \in {"name-asc", "name-desc"} /\ NameRank[s] # NameRank[t]
          THEN byName ELSE s < t
First(state) ==
    CHOOSE s \in Visible(state) :
        \A t \in Visible(state) \ {s} : Before(s, t, state.sort)

(* The address holds the category, the trimmed query and the order.        *)
Written(choice) == [choice EXCEPT !.search = Trim[@]]
Read(address) == [address EXCEPT !.filter = parseCategory(@)]

Init ==
    /\ \E link \in Links :
         /\ page = [url |-> link, nav |-> {}, behind |-> link]
         /\ ui = [filter |-> parseCategory(link.filter), search |-> "",
                  sort |-> "name-asc", selected |-> NoId, preview |-> NoId,
                  shown |-> NoId, previewLoading |-> FALSE, previewError |-> FALSE,
                  scenarios |-> {}, loading |-> TRUE, catalogueError |-> FALSE]
         /\ prev = Choice(ui)
    /\ seen = [ui |-> ui, url |-> Unread]       \* the first render follows
    /\ \E s \in Scenarios :
         requests = {[by |-> "catalogue", id |-> NoId], [by |-> "restore", id |-> s]}
    /\ compare \in [open : BOOLEAN, loaded : {[side \in 1 .. 2 |-> {}]},
                    refused : {[side \in 1 .. 2 |-> FALSE]}, reading : {{}}]
    /\ clicks = 0 /\ crossed = FALSE /\ overtaken = {}

Dirty == ui # seen.ui \/ page.url # seen.url

(* The effects, in the order they are declared: write the address, read    *)
(* it, load the preview, keep the selection among the visible cards.       *)

(* Mutant: a pending navigation is not replaced.                           *)
WritesAddressOnce(state) ==
    IF page.nav = {} /\ Choice(state) # prev THEN {Written(Choice(state))}
    ELSE page.nav
WritesAddress(state) ==
    IF Choice(state) # prev THEN {Written(Choice(state))} ELSE page.nav

ReadsAddress(state) ==
    IF page.url = seen.url THEN state
    ELSE [state EXCEPT !.filter = Read(page.url).filter,
                       !.search = Read(page.url).search,
                       !.sort = Read(page.url).sort]

LoadsPreviewBeside(state, now, others) ==
    IF state.preview = seen.ui.preview THEN ui' = now /\ requests' = requests
    ELSE IF state.preview = NoId THEN
        /\ ui' = [now EXCEPT !.shown = NoId, !.previewError = FALSE]
        /\ requests' = others
    ELSE
        /\ ui' = [now EXCEPT !.previewLoading = TRUE, !.previewError = FALSE]
        /\ requests' = others \union {[by |-> "preview", id |-> state.preview]}
(* Mutant: no cleanup of the request for the previous preview.             *)
LoadsPreviewKeeping(state, now) == LoadsPreviewBeside(state, now, requests)
LoadsPreview(state, now) ==
    LoadsPreviewBeside(state, now, {r \in requests : r.by # "preview"})

(* The last one runs where its dependencies changed since the last render. *)
SelectionDue(state) ==
    \/ Choice(state) # Choice(seen.ui) \/ state.scenarios # seen.ui.scenarios
    \/ state.selected # seen.ui.selected
(* Mutant: with nothing visible the selection stays.                       *)
KeepsSelectionShown(state, now) ==
    IF SelectionDue(state) /\ Visible(state) # {} /\ state.selected \notin Visible(state)
      THEN [now EXCEPT !.selected = First(state)] ELSE now
KeepsSelection(state, now) ==
    IF ~SelectionDue(state) \/ state.selected \in Visible(state) THEN now
    ELSE IF Visible(state) = {} THEN [now EXCEPT !.selected = NoId]
    ELSE [now EXCEPT !.selected = First(state)]

Commit(state) ==
    /\ page' = [page EXCEPT !.nav = WritesAddress(state)]
    /\ prev' = Choice(state)
    /\ seen' = [ui |-> state, url |-> page.url]
    /\ LoadsPreview(state, KeepsSelection(state, ReadsAddress(state)))
    /\ overtaken' = IF SelectionDue(state) THEN {} ELSE overtaken

Render == Dirty /\ Commit(ui) /\ UNCHANGED <<compare, clicks, crossed>>

(* viewMode.  The comparison shares no state with the rest of the page, so *)
(* a session uses the one or the other.                                    *)
Uses(comparison) ==
    /\ compare.open = comparison
    /\ clicks < MaxClicks /\ clicks' = clicks + 1

TakingOver == page.url # seen.url \/ Choice(ui) # Choice(seen.ui)

(* The router: the last navigation asked for wins; going back discards it. *)
NavigationCommits ==
    /\ \E address \in page.nav :
         page' = [page EXCEPT !.url = address, !.nav = {}]
    /\ UNCHANGED <<ui, seen, prev, requests, compare, clicks, crossed, overtaken>>

GoBack ==
    /\ Uses(FALSE) /\ page.url # page.behind
    /\ page' = [page EXCEPT !.url = page.behind, !.nav = {}]
    /\ crossed' = (crossed \/ TakingOver)
    /\ UNCHANGED <<ui, seen, prev, requests, compare, overtaken>>

Click(state) ==
    /\ Uses(FALSE)
    /\ Commit(state) /\ UNCHANGED compare
Choose(state) == Click(state) /\ crossed' = (crossed \/ TakingOver)

ChooseFilter == \E f \in Categories : Choose([ui EXCEPT !.filter = f])
TypeSearch ==
    \E q \in Queries \ {seen.ui.search} : Choose([ui EXCEPT !.search = q])
ChooseSort ==
    \E o \in Orders \ {seen.ui.sort} :
      Choose([ui EXCEPT !.sort = o])

(* The cards are those of the last render.                                 *)
Cards == IF seen.ui.loading \/ seen.ui.catalogueError THEN {} ELSE Visible(seen.ui)
SelectCard ==
    \E s \in Cards : Click([ui EXCEPT !.selected = s]) /\ UNCHANGED crossed
TogglePreview ==
    \E s \in Cards :
      /\ Click([ui EXCEPT !.preview = IF seen.ui.preview = s THEN NoId ELSE s])
      /\ UNCHANGED crossed
ClosePreview ==
    /\ seen.ui.preview # NoId /\ Click([ui EXCEPT !.preview = NoId])
    /\ UNCHANGED crossed

(* The run the page's link names, once restored, selects its scenario.  If *)
(* that is the selection last rendered, it undoes one still to be rendered *)
(* and the effect that made that one is not run again.                     *)
RunRestored ==
    \E r \in requests :
      /\ r.by = "restore"
      /\ requests' = requests \ {r}
      /\ ui' = [ui EXCEPT !.selected = r.id]
      /\ overtaken' = IF r.id = seen.ui.selected /\ r.id # ui.selected THEN {r.id}
                      ELSE overtaken
      /\ UNCHANGED <<seen, prev, page, compare, clicks, crossed>>

(* loadScenarios, on the first render and by the Retry button.             *)
CatalogueAnswers ==
    /\ [by |-> "catalogue", id |-> NoId] \in requests
    /\ requests' = requests \ {[by |-> "catalogue", id |-> NoId]}
    /\ ui' \in {[ui EXCEPT !.loading = FALSE, !.scenarios = Scenarios],
                [ui EXCEPT !.loading = FALSE, !.catalogueError = TRUE]}
    /\ UNCHANGED <<seen, prev, page, compare, clicks, crossed, overtaken>>

Retry ==
    /\ seen.ui.catalogueError /\ ~seen.ui.loading /\ ~Dirty /\ Uses(FALSE)
    /\ ui' = [ui EXCEPT !.loading = TRUE, !.catalogueError = FALSE]
    /\ seen' = [seen EXCEPT !.ui = ui']
    /\ requests' = requests \union {[by |-> "catalogue", id |-> NoId]}
    /\ UNCHANGED <<prev, page, compare, crossed, overtaken>>

(* Mutant: a failed preview stays loading.                                 *)
PreviewFailsLoading ==
    \E r \in requests :
      /\ r.by = "preview"
      /\ requests' = requests \ {r}
      /\ ui' \in {[ui EXCEPT !.previewLoading = FALSE, !.shown = r.id],
                  [ui EXCEPT !.previewError = TRUE]}
      /\ UNCHANGED <<seen, prev, page, compare, clicks, crossed, overtaken>>
PreviewAnswers ==
    \E r \in requests :
      /\ r.by = "preview"
      /\ requests' = requests \ {r}
      /\ ui' \in {[ui EXCEPT !.previewLoading = FALSE, !.shown = r.id],
                  [ui EXCEPT !.previewLoading = FALSE, !.previewError = TRUE]}
      /\ UNCHANGED <<seen, prev, page, compare, clicks, crossed, overtaken>>

(* ReportComparisonView: a file is read in the background; files of one    *)
(* side that are still being read finish in any order.                     *)
ChooseFile ==
    \E side \in 1 .. 2, file \in {{}} \union {{r} : r \in Reports} :
      /\ Uses(TRUE)
      /\ compare' \in
           {[compare EXCEPT !.reading = @ \union {<<side, file>>}],
            [compare EXCEPT !.refused[side] = TRUE]}        \* too large
      /\ UNCHANGED <<ui, seen, prev, page, requests, crossed, overtaken>>

FileRead ==
    \E item \in compare.reading :
      LET side == item[1]  now == [compare EXCEPT !.reading = @ \ {item}]
      IN  /\ compare' = IF item[2] = {} THEN [now EXCEPT !.refused[side] = TRUE]
               ELSE [now EXCEPT !.loaded[side] = item[2], !.refused[side] = FALSE]
          /\ UNCHANGED <<ui, seen, prev, page, requests, clicks, crossed, overtaken>>

UseCurrentRun ==
    \E side \in 1 .. 2, run \in Reports :
      /\ Uses(TRUE)
      /\ compare' = [compare EXCEPT !.loaded[side] = {run}, !.refused[side] = FALSE]
      /\ UNCHANGED <<ui, seen, prev, page, requests, crossed, overtaken>>

Answers == CatalogueAnswers \/ PreviewAnswers
Browsing ==
    \/ ChooseFilter \/ TypeSearch \/ ChooseSort \/ SelectCard
    \/ TogglePreview \/ ClosePreview \/ Retry \/ GoBack \/ RunRestored
Comparing == ChooseFile \/ FileRead \/ UseCurrentRun
Next == Render \/ NavigationCommits \/ Answers \/ Browsing \/ Comparing

Spec == Init /\ [][Next]_vars
FairSpec ==
    Spec /\ WF_vars(Render) /\ WF_vars(NavigationCommits) /\ WF_vars(Answers)

-----------------------------------------------------------------------------
(* What is visible as the definition of a scenario is that of the scenario *)
(* the preview panel is open for, however quickly panels are opened and    *)
(* closed and whichever answer comes late (dashboard.tsx:266-291).         *)
PreviewMatchesChoice ==
    ui.preview # NoId /\ ui.shown # NoId
    /\ ~ui.previewLoading /\ ~ui.previewError /\ ~Dirty
    => ui.shown = ui.preview

(* Once the page is quiet, the address and the choice shown say the same,  *)
(* so a shared link reopens what its sender saw; the one exception is a    *)
(* click in the instant in which the page takes an address over (crossed). *)
AddressAndChoiceAgree ==
    ~Dirty /\ page.nav = {} /\ ~crossed =>
        Written(Read(page.url)) = Written(Choice(ui))

(* Once the page is quiet, the card that Run launches is one of those that *)
(* category, query and catalogue let through, or none when they let none.  *)
(* One race escapes the effect that sees to it: a restored run selects the *)
(* scenario last rendered while the effect's own selection waits to be     *)
(* rendered; that scenario stays selected, hidden, until a card or another *)
(* choice is clicked (overtaken), and nothing else may.                    *)
SelectionVisible ==
    ~Dirty => \/ ui.selected \in Visible(ui) \union overtaken
              \/ Visible(ui) = {} /\ ui.selected = NoId

(* The two effects that write and read the address never chase each other: *)
(* when the user stops, the page comes to rest, with nothing loading       *)
(* (unless crossed: then TLC finds the two effects alternating).           *)
ComesToRest ==
    <>[](\/ crossed
         \/ /\ ~Dirty /\ page.nav = {} /\ ~ui.loading
            /\ ui.preview # NoId => ~ui.previewLoading)

(* Of two loaded reports every assertion is accounted for exactly once,    *)
(* and so is every step when no report repeats one; assertions of one type *)
(* are compared in their order, whatever stands between them.              *)
ComparisonAddsUp ==
    \A a \in compare.loaded[1], b \in compare.loaded[2] :
      LET c == compareReports(a, b)
          Kept(d) == Count(d, "unchanged") + Count(d, "changed")
          Unique(steps) ==
              \A i, j \in DOMAIN steps : steps[i].id = steps[j].id => i = j
      IN  /\ Len(a.assertions) = Kept(c.assertions) + Count(c.assertions, "removed")
          /\ Len(b.assertions) = Kept(c.assertions) + Count(c.assertions, "added")
          /\ Unique(a.steps) /\ Unique(b.steps) =>
               /\ Len(a.steps) = Kept(c.steps) + Count(c.steps, "removed")
               /\ Len(b.steps) = Kept(c.steps) + Count(c.steps, "added")
          /\ (\A key \in DOMAIN c.assertions : c.assertions[key] = "unchanged") <=>
             (\A t \in {x[1] : x \in DOMAIN c.assertions} :
                Outcomes(OfType(a.assertions, t)) = Outcomes(OfType(b.assertions, t)))
=============================================================================
