------------------------------- MODULE RunPane -------------------------------
(***************************************************************************)
(* The run pane of the web dashboard (Dashboard in dashboard.tsx): one     *)
(* browser page that launches a run, restores the run its link names, and  *)
(* polls the run it shows until that run ends, through the page's proxy.   *)
(*                                                                         *)
(* A React handler only assigns state.  A later render commits the state   *)
(* and runs the effects whose dependencies changed, each after the cleanup *)
(* of its previous run; timers, answers and browser events happen in       *)
(* between.  A click is committed before anything else happens.            *)
(***************************************************************************)
EXTENDS Naturals, FiniteSets

CONSTANTS
    Linked,     \* the run a shared link may name; it exists from the start
    Launched,   \* the runs the backend may create for this page, a bound
    Exhausted,  \* failed polls in a row that stop the polling (5 in the code)
    MaxFlips    \* bound on hiding the page and on losing the network

ASSUME PaneAssumption ==
    /\ Launched \subseteq Nat \ {0} /\ Linked \in (Nat \ {0}) \ Launched
    /\ Exhausted \in Nat \ {0} /\ MaxFlips \in Nat

VARIABLES
    server,     \* what the backend stores of each run
    ui,         \* the state the handlers assign
    seen,       \* the state and link of the last committed render
    page,       \* the browser: visible, connected, the link, the navigation
    polled,     \* the running poll effect: its run, and whether a timer is set
    requests    \* the requests this page waits for

vars == <<server, ui, seen, page, polled, requests>>

RunIds == Launched \union {Linked}
None == 0                                       \* no run id
NoRun == [id |-> None, status |-> "none"]       \* null

terminalStatuses == {"passed", "failed"}
Active == {"requested", "running"}
Rank(status) == CASE status = "requested" -> 0 [] status = "running" -> 1
                  [] OTHER -> 2

Init ==
    /\ server \in {[i \in RunIds |-> IF i = Linked THEN s ELSE "absent"] :
                     s \in {"running", "absent"}}
    /\ ui = [run |-> NoRun, fresh |-> FALSE, starting |-> FALSE,
             restoring |-> FALSE, restoreFailed |-> FALSE, limited |-> FALSE,
             failures |-> 0, offline |-> FALSE]
    /\ page \in [visible : BOOLEAN, online : {TRUE}, reconnected : {FALSE},
                 url : {None, Linked}, nav : {{}}, flips : {0}]
    /\ seen = [ui |-> ui, url |-> None]         \* the first render follows
    /\ polled = [run |-> None, timer |-> FALSE]
    /\ requests = {}

(* Requests.  A request is numbered; an abort forgets it, as the callers   *)
(* drop what a stopped request still answers.                              *)
Waiting == "waiting"
By(kind, reqs) == {r \in reqs : r.by = kind}
Number(reqs) == CHOOSE n \in 0 .. Cardinality(reqs) : \A r \in reqs : r.n # n
With(reqs, kind, id) ==
    reqs \union {[by |-> kind, id |-> id, answer |-> Waiting, n |-> Number(reqs)]}
Abort(reqs, kind) == reqs \ By(kind, reqs)

(* The effects of a render that finds `state` and the link of the page.    *)
RunChanged(state) == state.fresh \/ state.run # seen.ui.run
RestoreDue(state) == RunChanged(state) \/ page.url # seen.url
(* Mutant: the failures are missing among the dependencies.                *)
PollDuePolled(state) == RunChanged(state) \/ state.offline # seen.ui.offline
PollDue(state) ==
    RunChanged(state) \/ state.offline # seen.ui.offline
                      \/ state.failures # seen.ui.failures
Restores(state) == page.url # None /\ state.run = NoRun
Polls(state) ==
    /\ state.run.status \in Active /\ ~state.offline /\ page.online
    /\ state.failures < Exhausted \/ page.reconnected

(* Mutant: no cleanup of the restoration.                                  *)
RestoreEffectLeaving(state, reqs) ==
    IF RestoreDue(state) /\ Restores(state) THEN With(reqs, "restore", page.url)
    ELSE reqs
RestoreEffect(state, reqs) ==
    LET cleaned == IF RestoreDue(state) THEN Abort(reqs, "restore") ELSE reqs
    IN  IF RestoreDue(state) /\ Restores(state)
          THEN With(cleaned, "restore", page.url) ELSE cleaned

PollEffect(state, reqs) ==
    LET cleaned == Abort(reqs, "poll")
        reads == Polls(state) /\ page.reconnected
    IN  IF ~PollDue(state) THEN
            requests' = reqs /\ UNCHANGED <<polled, page>>
        ELSE
            /\ requests' = IF reads /\ page.visible
                             THEN With(cleaned, "poll", state.run.id) ELSE cleaned
            /\ polled' = [run |-> IF Polls(state) THEN state.run.id ELSE None,
                          timer |-> Polls(state) /\ ~reads /\ page.visible]
            /\ page' = [page EXCEPT !.reconnected = @ /\ ~Polls(state)]

Commit(state, reqs) ==
    /\ ui' = [state EXCEPT !.fresh = FALSE,
                !.restoring = @ \/ (RestoreDue(state) /\ Restores(state)),
                !.restoreFailed = @ /\ ~(RestoreDue(state) /\ Restores(state))]
    /\ seen' = [ui |-> ui', url |-> page.url]
    /\ PollEffect(state, RestoreEffect(state, reqs))

Dirty == ui # seen.ui \/ page.url # seen.url
Render == Dirty /\ Commit(ui, requests) /\ UNCHANGED server

Shows(run) == [ui EXCEPT !.run = run, !.fresh = (run # NoRun)]

(* handleRun.  The button shows the committed state; the request is sent   *)
(* before the click's own render.                                          *)
Launch ==
    /\ ~seen.ui.starting /\ ~seen.ui.limited
    /\ seen.ui.run.status \notin Active
    /\ \E i \in Launched : server[i] = "absent"
    /\ Commit([Shows(NoRun) EXCEPT !.starting = TRUE],
              With(requests, "start", None))
    /\ UNCHANGED server

StartAnswered(r) ==
    /\ r.by = "start" /\ r.answer # Waiting
    /\ requests' = requests \ {r}
    /\ IF r.answer \in Active
         THEN /\ ui' = [Shows([id |-> r.id, status |-> r.answer])
                          EXCEPT !.starting = FALSE]
              /\ page' = [page EXCEPT !.nav = {r.id}]
         ELSE /\ ui' = [ui EXCEPT !.starting = FALSE,
                                  !.limited = @ \/ r.answer = "limited"]
              /\ UNCHANGED page
    /\ UNCHANGED <<server, seen, polled>>

CountdownEnds ==
    /\ ui.limited
    /\ ui' = [ui EXCEPT !.limited = FALSE]
    /\ UNCHANGED <<server, seen, page, polled, requests>>

RestoreAnswered(r) ==
    /\ r.by = "restore" /\ r.answer # Waiting
    /\ requests' = requests \ {r}
    /\ ui' = IF r.answer \in Active \union terminalStatuses
               THEN [Shows([id |-> r.id, status |-> r.answer])
                       EXCEPT !.restoring = FALSE]
               ELSE [ui EXCEPT !.restoring = FALSE, !.restoreFailed = TRUE]
    /\ UNCHANGED <<server, seen, page, polled>>

(* clearRestoration, by the Dismiss button of a failed restoration.        *)
Dismiss ==
    /\ seen.ui.restoreFailed /\ seen.ui.run = NoRun /\ ~seen.ui.restoring
    /\ ui' = [ui EXCEPT !.restoreFailed = FALSE]
    /\ page' = [page EXCEPT !.nav = {None}]
    /\ UNCHANGED <<server, seen, polled, requests>>

(* router.replace is a transition; the last one asked for wins.            *)
NavigationCommits ==
    /\ \E i \in page.nav : page' = [page EXCEPT !.url = i, !.nav = {}]
    /\ UNCHANGED <<server, ui, seen, polled, requests>>

(* poll, by its timer and when its request has answered.                   *)
TimerFires ==
    /\ polled.timer
    /\ polled' = [polled EXCEPT !.timer = FALSE]
    /\ requests' = IF By("poll", requests) = {}
                     THEN With(requests, "poll", polled.run) ELSE requests
    /\ UNCHANGED <<server, ui, seen, page>>

PollAnswered(r) ==
    /\ r.by = "poll" /\ r.answer # Waiting
    /\ requests' = requests \ {r}
    /\ CASE r.answer \in Active \union terminalStatuses ->
              /\ ui' = [Shows([id |-> r.id, status |-> r.answer])
                          EXCEPT !.failures = 0]
              /\ UNCHANGED page
         [] r.answer = "missing" ->
              /\ ui' = [Shows(NoRun) EXCEPT !.restoreFailed = FALSE]
              /\ page' = [page EXCEPT !.nav = {None}]
         [] OTHER ->
              /\ ui' = [ui EXCEPT !.failures = @ + 1]
              /\ UNCHANGED page
    /\ UNCHANGED <<server, seen, polled>>

Resume ==
    /\ seen.ui.failures >= Exhausted
    /\ Commit([ui EXCEPT !.failures = 0], requests)
    /\ UNCHANGED server

(* The browser: visibilitychange, offline and online.                      *)

(* Mutant: hiding leaves the poll under way.                               *)
HideQuietly ==
    /\ page.visible /\ page.flips < MaxFlips
    /\ page' = [page EXCEPT !.visible = FALSE, !.flips = @ + 1]
    /\ polled' = [polled EXCEPT !.timer = FALSE]
    /\ UNCHANGED <<server, ui, seen, requests>>
Hide ==
    /\ page.visible /\ page.flips < MaxFlips
    /\ page' = [page EXCEPT !.visible = FALSE, !.flips = @ + 1]
    /\ polled' = [polled EXCEPT !.timer = FALSE]
    /\ requests' = Abort(requests, "poll")
    /\ UNCHANGED <<server, ui, seen>>

(* Mutant: coming back does not poll.                                      *)
ShowQuietly ==
    /\ ~page.visible
    /\ page' = [page EXCEPT !.visible = TRUE]
    /\ UNCHANGED <<server, ui, seen, polled, requests>>
Show ==
    /\ ~page.visible
    /\ page' = [page EXCEPT !.visible = TRUE]
    /\ requests' = IF polled.run # None THEN With(requests, "poll", polled.run)
                   ELSE requests
    /\ UNCHANGED <<server, ui, seen, polled>>

GoOffline ==
    /\ page.online /\ page.flips < MaxFlips
    /\ page' = [page EXCEPT !.online = FALSE, !.flips = @ + 1]
    /\ ui' = [ui EXCEPT !.offline = TRUE]
    /\ UNCHANGED <<server, seen, polled, requests>>

GoOnline ==
    /\ ~page.online
    /\ page' = [page EXCEPT !.online = TRUE, !.reconnected = TRUE]
    /\ ui' = [ui EXCEPT !.offline = FALSE]
    /\ UNCHANGED <<server, seen, polled, requests>>

(* The backend behind the proxy.  A request the proxy gives up on, one the *)
(* network loses and an unreadable body are the same failure.              *)
Answer(r, answer, id) ==
    requests' = (requests \ {r}) \union {[r EXCEPT !.answer = answer, !.id = id]}

ReadAnswers(r) ==
    /\ r.by # "start" /\ r.answer = Waiting
    /\ \E answer \in {"error", IF server[r.id] \in Active \union terminalStatuses
                                THEN server[r.id] ELSE "missing"} :
         Answer(r, answer, r.id)
    /\ UNCHANGED <<server, ui, seen, page, polled>>

StartAnswers(r) ==
    /\ r.by = "start" /\ r.answer = Waiting
    /\ \/ \E answer \in {"error", "limited"} :
            Answer(r, answer, None) /\ UNCHANGED server
       \/ \E i \in Launched, answer \in {"requested", "error"} :
            /\ server[i] = "absent"
            /\ \A j \in Launched : server[j] = "absent" => i <= j
            /\ server' = [server EXCEPT ![i] = "requested"]
            /\ Answer(r, answer, IF answer = "error" THEN None ELSE i)
    /\ UNCHANGED <<ui, seen, page, polled>>

RunAdvances(i) ==
    /\ server[i] \in Active
    /\ \E s \in IF server[i] = "requested" THEN {"running", "failed"}
                ELSE terminalStatuses : server' = [server EXCEPT ![i] = s]
    /\ UNCHANGED <<ui, seen, page, polled, requests>>

RunExpires(i) ==
    /\ server[i] \in terminalStatuses
    /\ server' = [server EXCEPT ![i] = "expired"]
    /\ UNCHANGED <<ui, seen, page, polled, requests>>

Answers == \E r \in requests : ReadAnswers(r) \/ StartAnswers(r)
Continues ==
    \E r \in requests : StartAnswered(r) \/ RestoreAnswered(r) \/ PollAnswered(r)
Clicks == Launch \/ Dismiss \/ Resume
Browser == Hide \/ Show \/ GoOffline \/ GoOnline
Next ==
    \/ Render \/ Answers \/ Continues \/ TimerFires \/ NavigationCommits
    \/ CountdownEnds \/ Clicks \/ Browser
    \/ \E i \in RunIds : RunAdvances(i) \/ RunExpires(i)

Spec == Init /\ [][Next]_vars
Fairness ==
    /\ WF_vars(Render) /\ WF_vars(Answers) /\ WF_vars(Continues)
    /\ WF_vars(TimerFires) /\ \A i \in RunIds : WF_vars(RunAdvances(i))
FairSpec == Spec /\ Fairness

-----------------------------------------------------------------------------
(* A shown run that still runs keeps being read: once the render is        *)
(* committed, with a connection and before too many failures, the poll     *)
(* effect of dashboard.tsx:375-465 is on for that very run and, while the  *)
(* page is visible, has a timer set or a request in flight.                *)
PollingArmed ==
    (/\ ~Dirty /\ page.online
     /\ ui.run.status \in Active /\ ui.failures < Exhausted)
    => /\ polled.run = ui.run.id
       /\ page.visible => polled.timer \/ By("poll", requests) # {}

(* However hiding, reconnecting, launching and restoring interleave, the   *)
(* page waits for at most one poll, one restoration and one launch.        *)
OneRequestOfAKind ==
    \A r, s \in requests : r.by = s.by => r = s

(* Answers are never applied out of order: the status shown of one run     *)
(* does not go back, whatever was hidden, aborted or restored meanwhile.   *)
ShownNeverGoesBack ==
    [][ui.run.id # None /\ ui'.run.id = ui.run.id
       => Rank(ui.run.status) <= Rank(ui'.run.status)]_vars

(* A page that shows a run that still runs comes to show an end (of that   *)
(* run or of the one that replaced it), or no run, or it has visibly given *)
(* up after too many failures, provided it stays visible and connected     *)
(* from some time on.                                                      *)
ReachesTerminal ==
    <>[](page.visible /\ page.online)
    => (ui.run.status \in Active ~>
          (ui.run.status \notin Active \/ ui.failures >= Exhausted))
=============================================================================
