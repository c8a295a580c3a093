---------------------------- MODULE RunPaneProofs ----------------------------
(***************************************************************************)
(* Proofs, for every set of runs, every number of failures that stops the  *)
(* polling and however often the page is hidden or disconnected, that the  *)
(* run pane keeps reading the run it shows and never shows it going back.  *)
(***************************************************************************)
EXTENDS RunPane, TLAPS

-----------------------------------------------------------------------------
(* The inductive invariant.                                                *)

Ids == RunIds \union {None}
Statuses == Active \union terminalStatuses
Runs == [id : RunIds, status : Statuses] \union {NoRun}
States == [run : Runs, fresh : BOOLEAN, starting : BOOLEAN, restoring : BOOLEAN,
           restoreFailed : BOOLEAN, limited : BOOLEAN, failures : Nat, offline : BOOLEAN]

TypeOK ==
    /\ server \in [RunIds -> Statuses \union {"absent", "expired"}]
    /\ ui \in States
    /\ seen \in [ui : States, url : Ids]
    /\ page \in [visible : BOOLEAN, online : BOOLEAN, reconnected : BOOLEAN,
                 url : Ids, nav : SUBSET Ids, flips : Nat]
    /\ polled \in [run : Ids, timer : BOOLEAN]

\* A request is a record, whatever its number.
IsRequest(r) ==
    /\ r = [by |-> r.by, id |-> r.id, answer |-> r.answer, n |-> r.n]
    /\ r.by \in {"start", "restore", "poll"}
    /\ r.by = "start" => r.id \in Launched \union {None}
    /\ r.by # "start" => r.id \in RunIds
    /\ r.by = "start" /\ r.answer \in Statuses => r.id \in Launched

RequestsTyped(reqs) == \A r \in reqs : IsRequest(r)
OneOfAKind(reqs) == \A r, s \in reqs : r.by = s.by => r = s

\* A launch is under way only while the page says so, in state and on screen; a
\* restoration only while no run is on screen, and for another run than the state's.
LaunchesOK(reqs) == \A r \in reqs : r.by = "start" => ui.starting /\ seen.ui.starting
RestorationsOK(reqs) ==
    \A r \in reqs : r.by = "restore" => seen.ui.run = NoRun /\ ui.run.id # r.id

\* A poll is under way only on a visible page and for the run of the poll effect.
PollsOK(reqs) == \A r \in reqs : r.by = "poll" => page.visible /\ r.id = polled.run

\* The state shows another run than before, or none, or the same one anew.
Renewed == ui.fresh \/ ui.run = NoRun

\* What the poll effect holds belongs to what is on screen.
EffectOK ==
    /\ ui.offline = ~page.online
    /\ ~seen.ui.fresh
    /\ Renewed \/ ui.failures >= seen.ui.failures
    /\ polled.timer => page.visible /\ polled.run # None
    /\ polled.run # None => seen.ui.run.status \in Active /\ seen.ui.run.id = polled.run
    /\ seen.ui.run.status \in Active /\ ~seen.ui.offline /\ seen.ui.failures < Exhausted
         => polled.run = seen.ui.run.id

\* The next render has something for the poll effect.
Stale == Renewed \/ ui.failures > seen.ui.failures

\* The poll effect is never left with nothing to wait for, unless a render will run it again.
Armed ==
    polled.run # None /\ page.visible
    => polled.timer \/ Stale \/ \E r \in requests : r.by = "poll"

EffectInv ==
    /\ TypeOK /\ RequestsTyped(requests) /\ OneOfAKind(requests)
    /\ LaunchesOK(requests) /\ RestorationsOK(requests) /\ PollsOK(requests)
    /\ EffectOK /\ Armed

\* Whatever the page mentions exists, but for the link it was opened with.
Mentioned ==
    {ui.run.id, seen.ui.run.id, page.url, seen.url, polled.run} \union page.nav
    \union {r.id : r \in {s \in requests : s.by # "start"}}
MentionedExist == \A i \in Mentioned \ {None, Linked} : server[i] # "absent"

\* A run the backend has just created is not mentioned before the answer is read.
CreatedIsNew ==
    \A r \in requests : r.by = "start" /\ r.id # None =>
        server[r.id] # "absent" /\ r.id \notin Mentioned

\* Neither what is shown nor an answer on its way is ahead of the backend.
NotAhead(i, status) == server[i] # "absent" /\ Rank(status) <= Rank(server[i])
ShownNotAhead == ui.run # NoRun => NotAhead(ui.run.id, ui.run.status)
AnswersNotAhead ==
    \A r \in requests : r.answer \in Statuses => NotAhead(r.id, r.answer)

\* An answer on its way is not behind what is shown.
AnswersNotBehind ==
    \A r \in requests : r.by = "poll" /\ r.answer \in Statuses /\ r.id = ui.run.id
        => Rank(ui.run.status) <= Rank(r.answer)

OrderInv ==
    /\ MentionedExist /\ CreatedIsNew
    /\ ShownNotAhead /\ AnswersNotAhead /\ AnswersNotBehind

PaneInv == EffectInv /\ OrderInv

-----------------------------------------------------------------------------
(* Runs, requests and the effects of a render.                             *)

\* No run has the number that stands for no run.
LEMMA RunNumbers ==
  /\ RunIds \subseteq Nat \ {0} /\ None \notin RunIds /\ None = 0
  /\ Launched \subseteq RunIds /\ Linked \in RunIds /\ Linked \notin Launched
  /\ Exhausted \in Nat \ {0}
BY PaneAssumption DEF RunIds, None

\* A run shown has a number and a status, no run has neither.
LEMMA RunsAreRecords ==
  /\ NoRun \in Runs /\ NoRun.id = None /\ NoRun.status = "none"
  /\ \A i \in RunIds, s \in Statuses :
        LET run == [id |-> i, status |-> s]
        IN  run \in Runs /\ run # NoRun /\ run.id = i /\ run.status = s
  /\ \A run \in Runs : \/ run = NoRun
                       \/ run.id \in RunIds /\ run.status \in Statuses /\ run # NoRun
  /\ \A run \in Runs : run.id \in Ids
<1>1. NoRun.id = None /\ NoRun.status = "none" /\ NoRun \in Runs
  BY DEF NoRun, Runs
<1>2. ASSUME NEW i \in RunIds, NEW s \in Statuses
      PROVE  /\ [id |-> i, status |-> s].id = i /\ [id |-> i, status |-> s].status = s
             /\ [id |-> i, status |-> s] \in Runs /\ [id |-> i, status |-> s] # NoRun
  <2>1. [id |-> i, status |-> s].id = i /\ [id |-> i, status |-> s].status = s
    OBVIOUS
  <2>2. [id |-> i, status |-> s] # NoRun
    BY <1>1, <2>1, RunNumbers
  <2>3. QED
    BY <2>1, <2>2 DEF Runs
<1>3. ASSUME NEW run \in Runs, run # NoRun
      PROVE  run.id \in RunIds /\ run.status \in Statuses
  BY <1>3 DEF Runs
<1>4. QED
  BY <1>1, <1>2, <1>3 DEF Ids

\* Statuses are ranked: what has ended is last.
LEMMA Ranks ==
  /\ \A s : Rank(s) \in 0..2
  /\ \A s : s \notin Active => Rank(s) = 2
  /\ Rank("requested") = 0 /\ Rank("running") = 1
  /\ \A s \in terminalStatuses \union {"none", "absent", "expired"} : s \notin Active
  /\ Waiting \notin Statuses /\ "error" \notin Statuses /\ "missing" \notin Statuses
  /\ "limited" \notin Statuses /\ "none" \notin Statuses
  /\ Waiting \notin Active /\ Active \subseteq Statuses
  /\ "absent" \notin Statuses /\ "expired" \notin Statuses
BY DEF Rank, Active, terminalStatuses, Statuses, Waiting

\* A request that is sent waits for its answer.
LEMMA Sent ==
  ASSUME NEW reqs, NEW kind, NEW id
  PROVE  \E r : /\ With(reqs, kind, id) = reqs \union {r}
                /\ r = [by |-> r.by, id |-> r.id, answer |-> r.answer, n |-> r.n]
                /\ r.by = kind /\ r.id = id /\ r.answer = Waiting
<1> DEFINE r == [by |-> kind, id |-> id, answer |-> Waiting, n |-> Number(reqs)]
<1>1. With(reqs, kind, id) = reqs \union {r}
  BY DEF With
<1>2. r.by = kind /\ r.id = id /\ r.answer = Waiting /\ r.n = Number(reqs)
  OBVIOUS
<1>3. QED
  BY <1>1, <1>2

\* A kind of request that was aborted is not among the requests, the others are.
LEMMA Aborted ==
  ASSUME NEW reqs, NEW kind
  PROVE  /\ \A r : r \in Abort(reqs, kind) <=> r \in reqs /\ r.by # kind
         /\ RequestsTyped(reqs) => RequestsTyped(Abort(reqs, kind))
         /\ OneOfAKind(reqs) => OneOfAKind(Abort(reqs, kind))
BY DEF Abort, By, RequestsTyped, OneOfAKind

\* Sending the only request of its kind leaves one of each.
LEMMA SentAlone ==
  ASSUME NEW reqs, NEW kind \in {"start", "restore", "poll"}, NEW id,
         id \in (IF kind = "start" THEN {None} ELSE RunIds),
         RequestsTyped(reqs), OneOfAKind(reqs), \A r \in reqs : r.by # kind
  PROVE  RequestsTyped(With(reqs, kind, id)) /\ OneOfAKind(With(reqs, kind, id))
<1>1. PICK q : /\ With(reqs, kind, id) = reqs \union {q}
               /\ q = [by |-> q.by, id |-> q.id, answer |-> q.answer, n |-> q.n]
               /\ q.by = kind /\ q.id = id /\ q.answer = Waiting
  BY Sent
<1>2. IsRequest(q)
  BY <1>1, Ranks DEF IsRequest
<1>3. QED
  BY <1>1, <1>2 DEF RequestsTyped, OneOfAKind

\* The effect that restores the run of the link.
LEMMA RestoreEffectFacts ==
  ASSUME NEW state, NEW reqs, NEW out, out = RestoreEffect(state, reqs),
         RequestsTyped(reqs), OneOfAKind(reqs), page.url \in Ids
  PROVE  /\ RequestsTyped(out) /\ OneOfAKind(out)
         /\ \A r \in out : r.by # "restore" => r \in reqs
         /\ \A r \in reqs : r.by # "restore" => r \in out
         /\ RestoreDue(state) => \A r \in out : r.by = "restore" =>
               /\ state.run = NoRun /\ r.answer = Waiting
               /\ r.id = page.url /\ page.url # None
         /\ ~RestoreDue(state) => out = reqs
<1>1. CASE ~RestoreDue(state)
  BY <1>1 DEF RestoreEffect
<1>2. CASE RestoreDue(state) /\ ~Restores(state)
  <2>1. out = Abort(reqs, "restore")
    BY <1>2 DEF RestoreEffect
  <2>2. QED
    BY <1>2, <2>1, Aborted
<1>3. CASE RestoreDue(state) /\ Restores(state)
  <2> DEFINE cleaned == Abort(reqs, "restore")
  <2>1. out = With(cleaned, "restore", page.url)
    BY <1>3 DEF RestoreEffect
  <2>2. /\ \A r : r \in cleaned <=> r \in reqs /\ r.by # "restore"
        /\ RequestsTyped(cleaned) /\ OneOfAKind(cleaned)
    BY Aborted
  <2>3. state.run = NoRun /\ page.url # None /\ page.url \in RunIds
    BY <1>3, RunNumbers DEF Restores, Ids
  <2> HIDE DEF cleaned
  <2>4. PICK q : /\ out = cleaned \union {q}
                 /\ q.by = "restore" /\ q.id = page.url /\ q.answer = Waiting
    BY <2>1, Sent
  <2>5. RequestsTyped(out) /\ OneOfAKind(out)
    BY <2>1, <2>2, <2>3, SentAlone
  <2>6. QED
    BY <1>3, <2>2, <2>3, <2>4, <2>5
<1>4. QED
  BY <1>1, <1>2, <1>3

\* The effect that polls the run shown.
LEMMA PollEffectFacts ==
  ASSUME TypeOK, NEW state \in States, NEW reqs, PollEffect(state, reqs),
         RequestsTyped(reqs), OneOfAKind(reqs)
  PROVE  /\ RequestsTyped(requests') /\ OneOfAKind(requests')
         /\ \A r \in requests' : r.by # "poll" => r \in reqs
         /\ ~PollDue(state) => requests' = reqs /\ polled' = polled
         /\ PollDue(state) => \A r \in requests' : r.by = "poll" =>
               Polls(state) /\ page.visible /\ r.id = state.run.id /\ r.answer = Waiting
         /\ PollDue(state) =>
               /\ polled'.run = IF Polls(state) THEN state.run.id ELSE None
               /\ polled'.timer => Polls(state) /\ page.visible
               /\ Polls(state) /\ page.visible
                    => polled'.timer \/ \E r \in requests' : r.by = "poll"
         /\ polled' \in [run : Ids, timer : BOOLEAN]
         /\ page' \in [visible : BOOLEAN, online : BOOLEAN, reconnected : BOOLEAN,
                       url : Ids, nav : SUBSET Ids, flips : Nat]
         /\ page'.visible = page.visible /\ page'.online = page.online
         /\ page'.url = page.url /\ page'.nav = page.nav
<1>1. CASE ~PollDue(state)
  <2>1. requests' = reqs /\ polled' = polled /\ page' = page
    BY <1>1 DEF PollEffect
  <2>2. QED
    BY <1>1, <2>1 DEF TypeOK
<1>2. CASE PollDue(state)
  <2> DEFINE cleaned == Abort(reqs, "poll")
             reads == Polls(state) /\ page.reconnected
  <2>1. /\ requests' = IF reads /\ page.visible
                         THEN With(cleaned, "poll", state.run.id) ELSE cleaned
        /\ polled' = [run |-> IF Polls(state) THEN state.run.id ELSE None,
                      timer |-> Polls(state) /\ ~reads /\ page.visible]
        /\ page' = [page EXCEPT !.reconnected = @ /\ ~Polls(state)]
    BY <1>2 DEF PollEffect
  <2>2. /\ \A r : r \in cleaned <=> r \in reqs /\ r.by # "poll"
        /\ RequestsTyped(cleaned) /\ OneOfAKind(cleaned)
    BY Aborted
  <2>3. Polls(state) => state.run.id \in RunIds
    <3>1. state.run \in Runs
      BY DEF States
    <3>2. Polls(state) => state.run # NoRun
      BY RunsAreRecords, Ranks DEF Polls
    <3>3. QED
      BY <3>1, <3>2, RunsAreRecords
  <2>4. /\ page' \in [visible : BOOLEAN, online : BOOLEAN, reconnected : BOOLEAN,
                      url : Ids, nav : SUBSET Ids, flips : Nat]
        /\ page'.visible = page.visible /\ page'.online = page.online
        /\ page'.url = page.url /\ page'.nav = page.nav
    BY <2>1 DEF TypeOK
  <2>5. /\ polled'.run = IF Polls(state) THEN state.run.id ELSE None
        /\ polled'.timer = (Polls(state) /\ ~reads /\ page.visible)
    BY <2>1
  <2>6. polled' \in [run : Ids, timer : BOOLEAN]
    <3>1. (IF Polls(state) THEN state.run.id ELSE None) \in Ids
      BY <2>3 DEF Ids
    <3>2. (Polls(state) /\ ~reads /\ page.visible) \in BOOLEAN
      OBVIOUS
    <3> HIDE DEF reads
    <3>3. QED
      BY <2>1, <3>1, <3>2
  <2> HIDE DEF cleaned
  <2>7. CASE reads /\ page.visible
    <3>1. requests' = With(cleaned, "poll", state.run.id)
      BY <2>1, <2>7
    <3>2. PICK q : /\ requests' = cleaned \union {q}
                   /\ q.by = "poll" /\ q.id = state.run.id /\ q.answer = Waiting
      BY <3>1, Sent
    <3>3. RequestsTyped(requests') /\ OneOfAKind(requests')
      BY <3>1, <2>2, <2>3, <2>7, SentAlone
    <3>4. q \in requests'
      BY <3>2
    <3>5. QED
      BY <1>2, <2>2, <2>4, <2>5, <2>6, <2>7, <3>2, <3>3, <3>4
  <2>8. CASE ~(reads /\ page.visible)
    <3>1. requests' = cleaned
      BY <2>1, <2>8
    <3>2. QED
      BY <1>2, <2>2, <2>4, <2>5, <2>6, <2>8, <3>1
  <2>9. QED
    BY <2>7, <2>8
<1>3. QED
  BY <1>1, <1>2

-----------------------------------------------------------------------------
(* What the poll effect holds, and what is under way.                      *)

\* A committed render shows the state it found and runs both effects.
LEMMA CommitFacts ==
  ASSUME TypeOK, NEW state \in States, NEW reqs, Commit(state, reqs),
         RequestsTyped(reqs), OneOfAKind(reqs)
  PROVE  /\ ui' \in States /\ ui'.run = state.run /\ ui'.fresh = FALSE
         /\ ui'.starting = state.starting /\ ui'.failures = state.failures
         /\ ui'.offline = state.offline
         /\ seen' \in [ui : States, url : Ids] /\ seen'.ui = ui' /\ seen'.url = page.url
         /\ polled' \in [run : Ids, timer : BOOLEAN]
         /\ page' \in [visible : BOOLEAN, online : BOOLEAN, reconnected : BOOLEAN,
                       url : Ids, nav : SUBSET Ids, flips : Nat]
         /\ page'.visible = page.visible /\ page'.online = page.online
         /\ page'.url = page.url /\ page'.nav = page.nav
         /\ RequestsTyped(requests') /\ OneOfAKind(requests')
         /\ \A r \in requests' : r.by = "start" => r \in reqs
         /\ \A r \in requests' : r.by = "restore" =>
               \/ r \in reqs /\ state.run = seen.ui.run
               \/ /\ state.run = NoRun /\ r.answer = Waiting
                  /\ r.id = page.url /\ page.url # None
         /\ ~PollDue(state) =>
               /\ polled' = polled /\ state.run = seen.ui.run
               /\ ~state.fresh /\ state.failures = seen.ui.failures
               /\ state.offline = seen.ui.offline
               /\ \A r \in requests' : r.by = "poll" => r \in reqs
               /\ \A r \in reqs : r.by = "poll" => r \in requests'
         /\ PollDue(state) =>
               /\ \A r \in requests' : r.by = "poll" =>
                     Polls(state) /\ page.visible /\ r.id = state.run.id /\ r.answer = Waiting
               /\ polled'.run = IF Polls(state) THEN state.run.id ELSE None
               /\ polled'.timer => Polls(state) /\ page.visible
               /\ Polls(state) /\ page.visible
                    => polled'.timer \/ \E r \in requests' : r.by = "poll"
<1>1. /\ ui' = [state EXCEPT !.fresh = FALSE,
                  !.restoring = @ \/ (RestoreDue(state) /\ Restores(state)),
                  !.restoreFailed = @ /\ ~(RestoreDue(state) /\ Restores(state))]
      /\ seen' = [ui |-> ui', url |-> page.url]
      /\ PollEffect(state, RestoreEffect(state, reqs))
  BY DEF Commit
<1>2. /\ ui' \in States /\ ui'.run = state.run /\ ui'.fresh = FALSE
      /\ ui'.starting = state.starting /\ ui'.failures = state.failures
      /\ ui'.offline = state.offline
  BY <1>1 DEF States
<1>3. page.url \in Ids
  BY DEF TypeOK
<1>4. seen' \in [ui : States, url : Ids] /\ seen'.ui = ui' /\ seen'.url = page.url
  BY <1>1, <1>2, <1>3
<1>5. PICK out : out = RestoreEffect(state, reqs) /\ PollEffect(state, out)
  BY <1>1
<1>6. /\ RequestsTyped(out) /\ OneOfAKind(out)
      /\ \A r \in out : r.by # "restore" => r \in reqs
      /\ \A r \in reqs : r.by # "restore" => r \in out
      /\ RestoreDue(state) => \A r \in out : r.by = "restore" =>
            /\ state.run = NoRun /\ r.answer = Waiting
            /\ r.id = page.url /\ page.url # None
      /\ ~RestoreDue(state) => out = reqs /\ state.run = seen.ui.run
  BY <1>3, <1>5, RestoreEffectFacts DEF RestoreDue, RunChanged
<1>7. /\ RequestsTyped(requests') /\ OneOfAKind(requests')
      /\ \A r \in requests' : r.by # "poll" => r \in out
      /\ ~PollDue(state) => requests' = out /\ polled' = polled
      /\ PollDue(state) => \A r \in requests' : r.by = "poll" =>
            Polls(state) /\ page.visible /\ r.id = state.run.id /\ r.answer = Waiting
      /\ PollDue(state) =>
            /\ polled'.run = IF Polls(state) THEN state.run.id ELSE None
            /\ polled'.timer => Polls(state) /\ page.visible
            /\ Polls(state) /\ page.visible
                 => polled'.timer \/ \E r \in requests' : r.by = "poll"
      /\ polled' \in [run : Ids, timer : BOOLEAN]
      /\ page' \in [visible : BOOLEAN, online : BOOLEAN, reconnected : BOOLEAN,
                    url : Ids, nav : SUBSET Ids, flips : Nat]
      /\ page'.visible = page.visible /\ page'.online = page.online
      /\ page'.url = page.url /\ page'.nav = page.nav
  BY <1>5, <1>6, PollEffectFacts
<1>8. \A r \in requests' : r.by = "start" => r \in reqs
  BY <1>6, <1>7
<1>9. \A r \in requests' : r.by = "restore" =>
         \/ r \in reqs /\ state.run = seen.ui.run
         \/ /\ state.run = NoRun /\ r.answer = Waiting
            /\ r.id = page.url /\ page.url # None
  <2> SUFFICES ASSUME NEW r \in requests', r.by = "restore"
               PROVE  \/ r \in reqs /\ state.run = seen.ui.run
                      \/ /\ state.run = NoRun /\ r.answer = Waiting
                         /\ r.id = page.url /\ page.url # None
    OBVIOUS
  <2>1. r \in out
    BY <1>7
  <2>2. QED
    BY <1>6, <2>1
<1>10. ~PollDue(state) =>
          /\ polled' = polled /\ state.run = seen.ui.run
          /\ ~state.fresh /\ state.failures = seen.ui.failures
          /\ state.offline = seen.ui.offline
          /\ \A r \in requests' : r.by = "poll" => r \in reqs
          /\ \A r \in reqs : r.by = "poll" => r \in requests'
  BY <1>6, <1>7 DEF PollDue, RunChanged
<1>11. QED
  BY <1>2, <1>4, <1>7, <1>8, <1>9, <1>10

\* A committed render leaves the effects in order, whatever the handler before it did.
LEMMA CommitEffect ==
  ASSUME EffectInv, NEW state \in States, NEW reqs, Commit(state, reqs), server' = server,
         RequestsTyped(reqs), OneOfAKind(reqs), state.offline = ui.offline,
         \A r \in reqs : r \in requests \/ r.by = "start",
         \A r \in requests : r \in reqs,
         \A r \in reqs : r.by = "start" => state.starting,
         polled.run # None /\ ~PollDue(state) => state = ui
  PROVE  EffectInv'
<1> USE DEF EffectInv
<1>1. /\ ui' \in States /\ ui'.run = state.run /\ ui'.fresh = FALSE
      /\ ui'.starting = state.starting /\ ui'.failures = state.failures
      /\ ui'.offline = state.offline
      /\ seen' \in [ui : States, url : Ids] /\ seen'.ui = ui' /\ seen'.url = page.url
      /\ polled' \in [run : Ids, timer : BOOLEAN]
      /\ page' \in [visible : BOOLEAN, online : BOOLEAN, reconnected : BOOLEAN,
                    url : Ids, nav : SUBSET Ids, flips : Nat]
      /\ page'.visible = page.visible /\ page'.online = page.online
      /\ RequestsTyped(requests') /\ OneOfAKind(requests')
      /\ \A r \in requests' : r.by = "start" => r \in reqs
      /\ \A r \in requests' : r.by = "restore" =>
            \/ r \in reqs /\ state.run = seen.ui.run
            \/ state.run = NoRun
  BY CommitFacts
<1>2. ~PollDue(state) =>
         /\ polled' = polled /\ state.run = seen.ui.run
         /\ ~state.fresh /\ state.failures = seen.ui.failures
         /\ state.offline = seen.ui.offline
         /\ \A r \in requests' : r.by = "poll" => r \in reqs
         /\ \A r \in reqs : r.by = "poll" => r \in requests'
  BY CommitFacts
<1>3. PollDue(state) =>
         /\ \A r \in requests' : r.by = "poll" =>
               Polls(state) /\ page.visible /\ r.id = state.run.id
         /\ polled'.run = IF Polls(state) THEN state.run.id ELSE None
         /\ polled'.timer => Polls(state) /\ page.visible
         /\ Polls(state) /\ page.visible
              => polled'.timer \/ \E r \in requests' : r.by = "poll"
  BY CommitFacts
<1>4. Polls(state) => state.run.status \in Active /\ state.run.id \in RunIds
  BY RunsAreRecords, Ranks DEF Polls, States
<1>5. TypeOK'
  BY <1>1 DEF TypeOK
<1>6. LaunchesOK(requests)'
  BY <1>1 DEF LaunchesOK
<1>7. RestorationsOK(requests)'
  <2> SUFFICES ASSUME NEW r \in requests', r.by = "restore"
               PROVE  seen'.ui.run = NoRun /\ ui'.run.id # r.id
    BY DEF RestorationsOK
  <2>1. state.run = NoRun
    BY <1>1 DEF RestorationsOK
  <2>2. r.id \in RunIds
    BY <1>1 DEF RequestsTyped, IsRequest
  <2>3. QED
    BY <1>1, <2>1, <2>2, RunsAreRecords, RunNumbers
<1>8. PollsOK(requests)'
  <2> SUFFICES ASSUME NEW r \in requests', r.by = "poll"
               PROVE  page'.visible /\ r.id = polled'.run
    BY DEF PollsOK
  <2>1. CASE PollDue(state)
    BY <1>1, <1>3, <2>1
  <2>2. CASE ~PollDue(state)
    BY <1>1, <1>2, <2>2 DEF PollsOK
  <2>3. QED
    BY <2>1, <2>2
<1>9. EffectOK'
  <2>1. /\ ui'.offline = ~page'.online /\ ~seen'.ui.fresh
        /\ Renewed' \/ ui'.failures >= seen'.ui.failures
    BY <1>1 DEF EffectOK, States
  <2>2. CASE PollDue(state)
    <3>1. /\ polled'.timer => page'.visible /\ polled'.run # None
          /\ polled'.run # None => seen'.ui.run.status \in Active /\ seen'.ui.run.id = polled'.run
      BY <1>1, <1>3, <1>4, <2>2, RunNumbers
    <3>2. ASSUME seen'.ui.run.status \in Active, ~seen'.ui.offline, seen'.ui.failures < Exhausted
          PROVE  polled'.run = seen'.ui.run.id
      <4>1. Polls(state)
        BY <1>1, <3>2 DEF Polls, EffectOK
      <4>2. QED
        BY <1>1, <1>3, <2>2, <4>1
    <3>3. QED
      BY <2>1, <3>1, <3>2 DEF EffectOK
  <2>3. CASE ~PollDue(state)
    BY <1>1, <1>2, <2>1, <2>3 DEF EffectOK
  <2>4. QED
    BY <2>2, <2>3
<1>10. Armed'
  <2> SUFFICES ASSUME polled'.run # None, page'.visible
               PROVE  polled'.timer \/ \E r \in requests' : r.by = "poll"
    BY DEF Armed
  <2>1. CASE PollDue(state)
    BY <1>1, <1>3, <2>1
  <2>2. CASE ~PollDue(state)
    <3>1. state = ui /\ polled.run # None /\ page.visible /\ polled'.timer = polled.timer
      BY <1>1, <1>2, <2>2
    <3>2. seen.ui.run.status \in Active /\ seen.ui.run # NoRun
      BY <3>1, RunsAreRecords, Ranks DEF EffectOK
    <3>3. ~Stale
      <4>1. ui.failures = seen.ui.failures /\ ui.failures \in Nat
        BY <1>2, <2>2, <3>1 DEF TypeOK, States
      <4>2. QED
        BY <1>2, <2>2, <3>1, <3>2, <4>1 DEF Stale, Renewed
    <3>4. QED
      BY <1>2, <2>2, <3>1, <3>3 DEF Armed
  <2>3. QED
    BY <2>1, <2>2
<1>11. QED
  BY <1>1, <1>5, <1>6, <1>7, <1>8, <1>9, <1>10

-----------------------------------------------------------------------------
(* The handlers, the browser and the backend, for what is under way.       *)

\* A handler that shows a run leaves the rest of the state alone.
LEMMA ShowsFacts ==
  ASSUME ui \in States, NEW run \in Runs
  PROVE  /\ Shows(run) \in States /\ Shows(run).run = run
         /\ Shows(run).fresh = (run # NoRun)
         /\ Shows(run).starting = ui.starting /\ Shows(run).failures = ui.failures
         /\ Shows(run).offline = ui.offline
<1>1. (run # NoRun) \in BOOLEAN
  OBVIOUS
<1>2. QED
  BY <1>1 DEF Shows, States

\* A request that is forgotten was the only one of its kind.
LEMMA Forgotten ==
  ASSUME RequestsTyped(requests), OneOfAKind(requests), NEW r \in requests,
         requests' = requests \ {r}
  PROVE  /\ RequestsTyped(requests') /\ OneOfAKind(requests')
         /\ \A q \in requests' : q \in requests /\ q.by # r.by
         /\ \A q \in requests : q.by # r.by => q \in requests'
BY DEF RequestsTyped, OneOfAKind

\* A handler that applies an answer leaves the effects in order, if it gives the poll
\* effect a reason to run again and shows no run that is being restored.
LEMMA HandlerEffect ==
  ASSUME EffectInv, NEW r \in requests, requests' = requests \ {r},
         ui' \in States, ui'.offline = ui.offline,
         Renewed => Renewed', Renewed' \/ ui'.failures >= ui.failures,
         r.by = "start" \/ ui'.starting = ui.starting, r.by = "poll" => Stale',
         \A q \in requests : q.by = "restore" /\ q.by # r.by => ui'.run.id # q.id,
         page' \in [visible : BOOLEAN, online : BOOLEAN, reconnected : BOOLEAN,
                    url : Ids, nav : SUBSET Ids, flips : Nat],
         page'.visible = page.visible, page'.online = page.online,
         server' = server, seen' = seen, polled' = polled
  PROVE  EffectInv'
<1> USE DEF EffectInv
<1>1. /\ RequestsTyped(requests') /\ OneOfAKind(requests')
      /\ \A q \in requests' : q \in requests /\ q.by # r.by
      /\ \A q \in requests : q.by # r.by => q \in requests'
  BY Forgotten
<1>2. TypeOK'
  BY DEF TypeOK
<1>3. LaunchesOK(requests)'
  BY <1>1 DEF LaunchesOK
<1>4. RestorationsOK(requests)'
  BY <1>1 DEF RestorationsOK
<1>5. PollsOK(requests)'
  BY <1>1 DEF PollsOK
<1>6. EffectOK' /\ (Stale => Stale')
  <2>1. seen.ui.failures \in Nat /\ ui.failures \in Nat /\ ui'.failures \in Nat
    BY DEF TypeOK, States
  <2>2. Renewed' \/ ui'.failures >= seen'.ui.failures
    BY <2>1 DEF EffectOK
  <2>3. QED
    BY <2>1, <2>2 DEF EffectOK, Stale
<1>7. Armed'
  <2> SUFFICES ASSUME polled.run # None, page.visible, ~Stale'
               PROVE  polled.timer \/ \E q \in requests' : q.by = "poll"
    BY DEF Armed
  <2>1. polled.timer \/ \E q \in requests : q.by = "poll"
    BY <1>6 DEF Armed
  <2>2. QED
    BY <1>1, <2>1
<1>8. QED
  BY <1>1, <1>2, <1>3, <1>4, <1>5, <1>6, <1>7

\* The answer of a launch shows the run it created.
LEMMA StartAnsweredEffect ==
  ASSUME PaneInv, NEW r \in requests, StartAnswered(r)
  PROVE  EffectInv'
<1>1. EffectInv /\ ui \in States /\ IsRequest(r)
  BY DEF PaneInv, EffectInv, TypeOK, RequestsTyped
<1>2. requests' = requests \ {r} /\ server' = server /\ seen' = seen /\ polled' = polled
  BY DEF StartAnswered
<1>3. CASE r.answer \in Active
  <2> DEFINE run == [id |-> r.id, status |-> r.answer]
  <2>1. /\ r.by = "start" /\ r.id \in Launched /\ r.id \in RunIds
        /\ run \in Runs /\ run # NoRun /\ run.id = r.id
    BY <1>1, <1>3, RunNumbers, Ranks, RunsAreRecords DEF IsRequest, StartAnswered
  <2>2. PICK shown : /\ shown = Shows(run) /\ shown \in States /\ shown.run = run
                     /\ shown.fresh = TRUE /\ shown.offline = ui.offline
    BY <1>1, <2>1, ShowsFacts
  <2>3. ui' = [shown EXCEPT !.starting = FALSE] /\ page' = [page EXCEPT !.nav = {r.id}]
    BY <1>3, <2>2 DEF StartAnswered
  <2>4. ui' \in States /\ ui'.run = run /\ ui'.fresh = TRUE /\ ui'.offline = ui.offline
    BY <2>2, <2>3 DEF States
  <2>5. /\ page' \in [visible : BOOLEAN, online : BOOLEAN, reconnected : BOOLEAN,
                      url : Ids, nav : SUBSET Ids, flips : Nat]
        /\ page'.visible = page.visible /\ page'.online = page.online
    BY <1>1, <2>1, <2>3 DEF EffectInv, TypeOK, Ids
  <2>6. \A q \in requests : q.by = "restore" => ui'.run.id # q.id
    BY <2>1, <2>4, RunNumbers DEF PaneInv, OrderInv, CreatedIsNew, Mentioned
  <2>7. QED
    BY <1>1, <1>2, <2>1, <2>4, <2>5, <2>6, HandlerEffect DEF Renewed
<1>4. CASE r.answer \notin Active
  <2>1. /\ r.by = "start" /\ page' = page
        /\ ui' = [ui EXCEPT !.starting = FALSE, !.limited = @ \/ r.answer = "limited"]
    BY <1>4 DEF StartAnswered
  <2>2. /\ ui' \in States /\ ui'.run = ui.run /\ ui'.fresh = ui.fresh
        /\ ui'.offline = ui.offline /\ ui'.failures = ui.failures /\ ui.failures \in Nat
    BY <1>1, <2>1 DEF States
  <2>3. \A q \in requests : q.by = "restore" => ui'.run.id # q.id
    BY <1>1, <2>2 DEF EffectInv, RestorationsOK
  <2>4. /\ page' \in [visible : BOOLEAN, online : BOOLEAN, reconnected : BOOLEAN,
                      url : Ids, nav : SUBSET Ids, flips : Nat]
        /\ page'.visible = page.visible /\ page'.online = page.online
    BY <1>1, <2>1 DEF EffectInv, TypeOK
  <2>5. r.by = "start" /\ (Renewed => Renewed') /\ ui'.failures >= ui.failures
    BY <2>1, <2>2 DEF Renewed
  <2>6. QED
    BY <1>1, <1>2, <2>2, <2>3, <2>4, <2>5, HandlerEffect
<1>5. QED
  BY <1>3, <1>4

\* The answer of a restoration shows the linked run.
LEMMA RestoreAnsweredEffect ==
  ASSUME PaneInv, NEW r \in requests, RestoreAnswered(r)
  PROVE  EffectInv'
<1>1. EffectInv /\ ui \in States /\ IsRequest(r)
  BY DEF PaneInv, EffectInv, TypeOK, RequestsTyped
<1>2. r.by = "restore" /\ r.id \in RunIds /\ page' = page
  BY <1>1 DEF RestoreAnswered, IsRequest
<1>3. /\ page' \in [visible : BOOLEAN, online : BOOLEAN, reconnected : BOOLEAN,
                    url : Ids, nav : SUBSET Ids, flips : Nat]
      /\ page'.visible = page.visible /\ page'.online = page.online
  BY <1>1, <1>2 DEF EffectInv, TypeOK
<1>4. requests' = requests \ {r} /\ server' = server /\ seen' = seen /\ polled' = polled
  BY DEF RestoreAnswered
<1>5. CASE r.answer \in Statuses
  <2> DEFINE run == [id |-> r.id, status |-> r.answer]
  <2>1. run \in Runs /\ run # NoRun /\ run.id = r.id
    BY <1>2, <1>5, RunsAreRecords
  <2>2. PICK shown : /\ shown = Shows(run) /\ shown \in States /\ shown.run = run
                     /\ shown.fresh = TRUE /\ shown.offline = ui.offline
                     /\ shown.starting = ui.starting
    BY <1>1, <2>1, ShowsFacts
  <2>3. ui' = [shown EXCEPT !.restoring = FALSE]
    BY <1>5, <2>2 DEF RestoreAnswered, Statuses
  <2>4. /\ ui' \in States /\ ui'.run = run /\ ui'.fresh = TRUE
        /\ ui'.offline = ui.offline /\ ui'.starting = ui.starting
    BY <2>2, <2>3 DEF States
  <2>5. QED
    BY <1>1, <1>2, <1>3, <1>4, <2>4, HandlerEffect DEF Renewed
<1>6. CASE r.answer \notin Statuses
  <2>1. ui' = [ui EXCEPT !.restoring = FALSE, !.restoreFailed = TRUE]
    BY <1>6 DEF RestoreAnswered, Statuses
  <2>2. /\ ui' \in States /\ ui'.run = ui.run /\ ui'.fresh = ui.fresh
        /\ ui'.offline = ui.offline /\ ui'.failures = ui.failures /\ ui.failures \in Nat
        /\ ui'.starting = ui.starting
    BY <1>1, <2>1 DEF States
  <2>3. QED
    BY <1>1, <1>2, <1>3, <1>4, <2>2, HandlerEffect DEF Renewed
<1>7. QED
  BY <1>5, <1>6

\* While a poll is under way nothing is being restored.
LEMMA PollsExcludeRestorations ==
  ASSUME EffectInv, NEW r \in requests, r.by = "poll"
  PROVE  /\ r.id \in RunIds /\ r.id = polled.run /\ r.id = seen.ui.run.id
         /\ \A q \in requests : q.by # "restore"
<1>1. r.id \in RunIds /\ r.id = polled.run
  BY DEF EffectInv, PollsOK, RequestsTyped, IsRequest
<1>2. seen.ui.run.status \in Active /\ seen.ui.run.id = polled.run
  BY <1>1, RunNumbers DEF EffectInv, EffectOK
<1>3. seen.ui.run # NoRun
  BY <1>2, RunsAreRecords, Ranks
<1>4. QED
  BY <1>1, <1>2, <1>3 DEF EffectInv, RestorationsOK

\* The answer of a poll shows the run, forgets it or counts as a failure.
LEMMA PollAnsweredEffect ==
  ASSUME PaneInv, NEW r \in requests, PollAnswered(r)
  PROVE  EffectInv'
<1>1. EffectInv /\ ui \in States /\ IsRequest(r)
  BY DEF PaneInv, EffectInv, TypeOK, RequestsTyped
<1>2. /\ r.by = "poll" /\ r.id \in RunIds
      /\ \A q \in requests : q.by # "restore"
  BY <1>1, PollsExcludeRestorations DEF PollAnswered
<1>3. requests' = requests \ {r} /\ server' = server /\ seen' = seen /\ polled' = polled
  BY DEF PollAnswered
<1>4. CASE r.answer \in Statuses
  <2> DEFINE run == [id |-> r.id, status |-> r.answer]
  <2>1. run \in Runs /\ run # NoRun /\ run.id = r.id
    BY <1>2, <1>4, RunsAreRecords
  <2>2. PICK shown : /\ shown = Shows(run) /\ shown \in States /\ shown.run = run
                     /\ shown.fresh = TRUE /\ shown.offline = ui.offline
                     /\ shown.starting = ui.starting
    BY <1>1, <2>1, ShowsFacts
  <2>3. ui' = [shown EXCEPT !.failures = 0] /\ page' = page
    BY <1>4, <2>2, Ranks DEF PollAnswered, Statuses
  <2>4. /\ ui' \in States /\ ui'.run = run /\ ui'.fresh = TRUE
        /\ ui'.offline = ui.offline /\ ui'.starting = ui.starting
    BY <2>2, <2>3 DEF States
  <2>5. QED
    BY <1>1, <1>2, <1>3, <2>3, <2>4, HandlerEffect DEF Stale, Renewed, EffectInv, TypeOK
<1>5. CASE r.answer = "missing"
  <2>1. PICK shown : /\ shown = Shows(NoRun) /\ shown \in States /\ shown.run = NoRun
                     /\ shown.offline = ui.offline /\ shown.starting = ui.starting
    BY <1>1, RunsAreRecords, ShowsFacts
  <2>2. ui' = [shown EXCEPT !.restoreFailed = FALSE] /\ page' = [page EXCEPT !.nav = {None}]
    BY <1>5, <2>1, Ranks DEF PollAnswered, Statuses
  <2>3. /\ ui' \in States /\ ui'.run = NoRun
        /\ ui'.offline = ui.offline /\ ui'.starting = ui.starting
    BY <2>1, <2>2 DEF States
  <2>4. /\ page' \in [visible : BOOLEAN, online : BOOLEAN, reconnected : BOOLEAN,
                      url : Ids, nav : SUBSET Ids, flips : Nat]
        /\ page'.visible = page.visible /\ page'.online = page.online
    BY <1>1, <2>2 DEF EffectInv, TypeOK, Ids
  <2>5. QED
    BY <1>1, <1>2, <1>3, <2>3, <2>4, HandlerEffect DEF Stale, Renewed
<1>6. CASE r.answer \notin Statuses /\ r.answer # "missing"
  <2>1. ui' = [ui EXCEPT !.failures = @ + 1] /\ page' = page
    BY <1>6, Zenon DEF PollAnswered, Statuses
  <2>2. /\ ui' \in States /\ ui'.failures = ui.failures + 1 /\ ui'.run = ui.run
        /\ ui'.offline = ui.offline /\ ui'.starting = ui.starting
        /\ ui'.fresh = ui.fresh /\ ui.failures \in Nat
    BY <1>1, <2>1 DEF States
  <2>3. seen.ui.failures \in Nat
    BY <1>1 DEF EffectInv, TypeOK, States
  <2>4. (Renewed => Renewed') /\ ui'.failures >= ui.failures
    BY <2>2 DEF Renewed
  <2>5. Stale'
    BY <1>1, <1>3, <2>2, <2>3 DEF Stale, Renewed, EffectInv, EffectOK
  <2>6. QED
    BY <1>1, <1>2, <1>3, <2>1, <2>2, <2>4, <2>5, HandlerEffect DEF EffectInv, TypeOK
<1>7. QED
  BY <1>4, <1>5, <1>6

\* The clicks, each committed at once, and the render.
LEMMA RenderEffect == EffectInv /\ Render => EffectInv'
<1> SUFFICES ASSUME EffectInv, Render PROVE EffectInv'
  OBVIOUS
<1>1. /\ Commit(ui, requests) /\ server' = server /\ ui \in States
      /\ RequestsTyped(requests) /\ OneOfAKind(requests)
      /\ \A r \in requests : r.by = "start" => ui.starting
  BY DEF Render, EffectInv, TypeOK, LaunchesOK
<1>2. QED
  BY <1>1, CommitEffect

LEMMA ResumeEffect == EffectInv /\ Resume => EffectInv'
<1> SUFFICES ASSUME EffectInv, Resume PROVE EffectInv'
  OBVIOUS
<1>1. PICK state : state = [ui EXCEPT !.failures = 0]
  OBVIOUS
<1>2. /\ Commit(state, requests) /\ server' = server /\ ui \in States
      /\ seen.ui.failures >= Exhausted /\ seen.ui.failures \in Nat
      /\ RequestsTyped(requests) /\ OneOfAKind(requests)
      /\ \A r \in requests : r.by = "start" => ui.starting
  BY <1>1 DEF Resume, EffectInv, TypeOK, LaunchesOK, States
<1>3. state \in States /\ state.offline = ui.offline /\ state.starting = ui.starting
      /\ state.failures = 0
  BY <1>1, <1>2 DEF States
<1>4. PollDue(state)
  BY <1>2, <1>3, RunNumbers DEF PollDue
<1>5. QED
  BY <1>2, <1>3, <1>4, CommitEffect

\* A launch is clicked only when none is under way.
LEMMA LaunchFacts ==
  ASSUME EffectInv, Launch
  PROVE  \E state \in States : \E reqs :
            /\ Commit(state, reqs) /\ server' = server
            /\ state.run = NoRun /\ state.starting /\ state.offline = ui.offline
            /\ RequestsTyped(reqs) /\ OneOfAKind(reqs)
            /\ \A r \in requests : r \in reqs /\ r.by # "start"
            /\ \A r \in reqs : r \in requests \/ (r.by = "start" /\ r.id = None /\ r.answer = Waiting)
<1>1. PICK shown : /\ shown = Shows(NoRun) /\ shown \in States /\ shown.run = NoRun
                   /\ shown.offline = ui.offline
  BY RunsAreRecords, ShowsFacts DEF EffectInv, TypeOK
<1>2. PICK state : state = [shown EXCEPT !.starting = TRUE]
  OBVIOUS
<1>3. /\ state \in States /\ state.run = NoRun /\ state.starting
      /\ state.offline = ui.offline
  BY <1>1, <1>2 DEF States
<1>4. PICK reqs : reqs = With(requests, "start", None)
  OBVIOUS
<1>5. Commit(state, reqs) /\ server' = server /\ ~seen.ui.starting
  BY <1>1, <1>2, <1>4 DEF Launch
<1>6. \A r \in requests : r.by # "start"
  BY <1>5 DEF EffectInv, LaunchesOK
<1>7. RequestsTyped(reqs) /\ OneOfAKind(reqs)
  BY <1>4, <1>6, SentAlone DEF EffectInv
<1>8. PICK q : reqs = requests \union {q} /\ q.by = "start" /\ q.id = None /\ q.answer = Waiting
  BY <1>4, Sent
<1>9. /\ \A r \in requests : r \in reqs /\ r.by # "start"
      /\ \A r \in reqs : r \in requests \/ (r.by = "start" /\ r.id = None /\ r.answer = Waiting)
  BY <1>6, <1>8
<1>10. QED
  BY <1>3, <1>5, <1>7, <1>9

LEMMA LaunchEffect == EffectInv /\ Launch => EffectInv'
<1> SUFFICES ASSUME EffectInv, Launch PROVE EffectInv'
  OBVIOUS
<1>1. PICK state \in States : \E reqs :
         /\ Commit(state, reqs) /\ server' = server
         /\ state.run = NoRun /\ state.starting /\ state.offline = ui.offline
         /\ RequestsTyped(reqs) /\ OneOfAKind(reqs)
         /\ \A r \in requests : r \in reqs /\ r.by # "start"
         /\ \A r \in reqs : r \in requests \/ (r.by = "start" /\ r.id = None /\ r.answer = Waiting)
  BY LaunchFacts
<1>2. PICK reqs :
         /\ Commit(state, reqs) /\ server' = server
         /\ state.run = NoRun /\ state.starting /\ state.offline = ui.offline
         /\ RequestsTyped(reqs) /\ OneOfAKind(reqs)
         /\ \A r \in requests : r \in reqs /\ r.by # "start"
         /\ \A r \in reqs : r \in requests \/ (r.by = "start" /\ r.id = None /\ r.answer = Waiting)
  BY <1>1
<1>3. polled.run # None => PollDue(state)
  <2> SUFFICES ASSUME polled.run # None PROVE state.run # seen.ui.run
    BY DEF PollDue, RunChanged
  <2>1. seen.ui.run.status \in Active
    BY DEF EffectInv, EffectOK
  <2>2. QED
    BY <1>2, <2>1, RunsAreRecords, Ranks
<1>4. QED
  BY <1>2, <1>3, CommitEffect

\* Handlers that touch neither the requests nor what is polled.
LEMMA PlainEffect ==
  ASSUME EffectInv, CountdownEnds \/ Dismiss \/ NavigationCommits
  PROVE  EffectInv'
<1> USE DEF EffectInv
<1>1. /\ server' = server /\ seen' = seen /\ polled' = polled /\ requests' = requests
      /\ ui' \in States /\ ui'.run = ui.run /\ ui'.fresh = ui.fresh
      /\ ui'.starting = ui.starting /\ ui'.failures = ui.failures /\ ui'.offline = ui.offline
      /\ page' \in [visible : BOOLEAN, online : BOOLEAN, reconnected : BOOLEAN,
                    url : Ids, nav : SUBSET Ids, flips : Nat]
      /\ page'.visible = page.visible /\ page'.online = page.online
  <2>1. CASE CountdownEnds
    BY <2>1 DEF CountdownEnds, TypeOK, States
  <2>2. CASE Dismiss
    BY <2>2 DEF Dismiss, TypeOK, States, Ids
  <2>3. CASE NavigationCommits
    <3>1. PICK i \in page.nav : page' = [page EXCEPT !.url = i, !.nav = {}]
      BY <2>3 DEF NavigationCommits
    <3>2. i \in Ids
      BY <3>1 DEF TypeOK
    <3>3. /\ page' \in [visible : BOOLEAN, online : BOOLEAN, reconnected : BOOLEAN,
                        url : Ids, nav : SUBSET Ids, flips : Nat]
          /\ page'.visible = page.visible /\ page'.online = page.online
      BY <3>1, <3>2 DEF TypeOK
    <3>4. QED
      BY <2>3, <3>3 DEF NavigationCommits, TypeOK
  <2>4. QED
    BY <2>1, <2>2, <2>3
<1>2. TypeOK' /\ RequestsTyped(requests') /\ OneOfAKind(requests')
  BY <1>1 DEF TypeOK
<1>3. LaunchesOK(requests)' /\ RestorationsOK(requests)' /\ PollsOK(requests)'
  BY <1>1 DEF LaunchesOK, RestorationsOK, PollsOK
<1>4. EffectOK'
  BY <1>1 DEF EffectOK, Renewed
<1>5. Armed'
  BY <1>1 DEF Armed, Stale, Renewed
<1>6. QED
  BY <1>2, <1>3, <1>4, <1>5

\* The timer of the poll effect sends the only poll.
LEMMA TimerEffect == EffectInv /\ TimerFires => EffectInv'
<1> SUFFICES ASSUME EffectInv, TimerFires PROVE EffectInv'
  OBVIOUS
<1> USE DEF EffectInv
<1>1. /\ polled.timer /\ polled' = [polled EXCEPT !.timer = FALSE]
      /\ requests' = IF By("poll", requests) = {}
                       THEN With(requests, "poll", polled.run) ELSE requests
      /\ server' = server /\ ui' = ui /\ seen' = seen /\ page' = page
  BY DEF TimerFires
<1>2. /\ polled' \in [run : Ids, timer : BOOLEAN]
      /\ polled'.run = polled.run /\ polled'.timer = FALSE
  BY <1>1 DEF TypeOK
<1>3. page.visible /\ polled.run # None /\ polled.run \in RunIds
  BY <1>1 DEF EffectOK, TypeOK, Ids
<1>4. /\ RequestsTyped(requests') /\ OneOfAKind(requests')
      /\ \A r \in requests' : r \in requests \/ (r.by = "poll" /\ r.id = polled.run)
      /\ \E r \in requests' : r.by = "poll"
  <2>1. CASE By("poll", requests) = {}
    <3>1. /\ requests' = With(requests, "poll", polled.run)
          /\ \A r \in requests : r.by # "poll"
      BY <1>1, <2>1 DEF By
    <3>2. PICK q : requests' = requests \union {q} /\ q.by = "poll" /\ q.id = polled.run
      BY <3>1, Sent
    <3>3. RequestsTyped(requests') /\ OneOfAKind(requests')
      BY <1>3, <3>1, SentAlone
    <3>4. QED
      BY <3>2, <3>3
  <2>2. CASE By("poll", requests) # {}
    BY <1>1, <2>2 DEF By
  <2>3. QED
    BY <2>1, <2>2
<1>5. TypeOK'
  BY <1>1, <1>2 DEF TypeOK
<1>6. LaunchesOK(requests)' /\ RestorationsOK(requests)' /\ PollsOK(requests)'
  BY <1>1, <1>2, <1>3, <1>4 DEF LaunchesOK, RestorationsOK, PollsOK
<1>7. EffectOK'
  BY <1>1, <1>2 DEF EffectOK, Renewed
<1>8. Armed'
  BY <1>4 DEF Armed
<1>9. QED
  BY <1>4, <1>5, <1>6, <1>7, <1>8

\* Hiding the page aborts the poll and its timer; showing it again sends one.
LEMMA HideEffect == EffectInv /\ Hide => EffectInv'
<1> SUFFICES ASSUME EffectInv, Hide PROVE EffectInv'
  OBVIOUS
<1> USE DEF EffectInv
<1>1. /\ page' = [page EXCEPT !.visible = FALSE, !.flips = @ + 1]
      /\ polled' = [polled EXCEPT !.timer = FALSE] /\ requests' = Abort(requests, "poll")
      /\ server' = server /\ ui' = ui /\ seen' = seen
  BY DEF Hide
<1>2. /\ polled' \in [run : Ids, timer : BOOLEAN]
      /\ polled'.run = polled.run /\ polled'.timer = FALSE
  BY <1>1 DEF TypeOK
<1>3. /\ page' \in [visible : BOOLEAN, online : BOOLEAN, reconnected : BOOLEAN,
                    url : Ids, nav : SUBSET Ids, flips : Nat]
      /\ page'.visible = FALSE /\ page'.online = page.online
  <2>1. page.flips + 1 \in Nat
    BY DEF TypeOK
  <2>2. PICK n \in Nat : page' = [page EXCEPT !.visible = FALSE, !.flips = n]
    BY <1>1, <2>1
  <2>3. QED
    BY <2>2 DEF TypeOK
<1>4. /\ RequestsTyped(requests') /\ OneOfAKind(requests')
      /\ \A r \in requests' : r \in requests /\ r.by # "poll"
  BY <1>1, Aborted
<1>5. TypeOK'
  BY <1>1, <1>2, <1>3 DEF TypeOK
<1>6. LaunchesOK(requests)' /\ RestorationsOK(requests)' /\ PollsOK(requests)'
  BY <1>1, <1>4 DEF LaunchesOK, RestorationsOK, PollsOK
<1>7. EffectOK' /\ Armed'
  BY <1>1, <1>2, <1>3 DEF EffectOK, Renewed, Armed
<1>8. QED
  BY <1>4, <1>5, <1>6, <1>7

LEMMA ShowEffect == EffectInv /\ Show => EffectInv'
<1> SUFFICES ASSUME EffectInv, Show PROVE EffectInv'
  OBVIOUS
<1> USE DEF EffectInv
<1>1. /\ ~page.visible /\ page' = [page EXCEPT !.visible = TRUE]
      /\ requests' = IF polled.run # None THEN With(requests, "poll", polled.run)
                     ELSE requests
      /\ server' = server /\ ui' = ui /\ seen' = seen /\ polled' = polled
  BY DEF Show
<1>2. /\ page' \in [visible : BOOLEAN, online : BOOLEAN, reconnected : BOOLEAN,
                    url : Ids, nav : SUBSET Ids, flips : Nat]
      /\ page'.visible = TRUE /\ page'.online = page.online
  BY <1>1 DEF TypeOK
<1>3. \A r \in requests : r.by # "poll"
  BY <1>1 DEF PollsOK
<1>4. /\ RequestsTyped(requests') /\ OneOfAKind(requests')
      /\ \A r \in requests' : r \in requests \/ (r.by = "poll" /\ r.id = polled.run)
      /\ polled.run # None => \E r \in requests' : r.by = "poll"
  <2>1. CASE polled.run # None
    <3>1. polled.run \in RunIds /\ requests' = With(requests, "poll", polled.run)
      BY <1>1, <2>1 DEF TypeOK, Ids
    <3>2. PICK q : requests' = requests \union {q} /\ q.by = "poll" /\ q.id = polled.run
      BY <3>1, Sent
    <3>3. RequestsTyped(requests') /\ OneOfAKind(requests')
      BY <1>3, <3>1, SentAlone
    <3>4. QED
      BY <3>2, <3>3
  <2>2. CASE polled.run = None
    BY <1>1, <2>2
  <2>3. QED
    BY <2>1, <2>2
<1>5. TypeOK'
  BY <1>1, <1>2 DEF TypeOK
<1>6. LaunchesOK(requests)' /\ RestorationsOK(requests)' /\ PollsOK(requests)'
  BY <1>1, <1>2, <1>3, <1>4 DEF LaunchesOK, RestorationsOK, PollsOK
<1>7. EffectOK'
  BY <1>1, <1>2 DEF EffectOK, Renewed
<1>8. Armed'
  BY <1>1, <1>4 DEF Armed
<1>9. QED
  BY <1>4, <1>5, <1>6, <1>7, <1>8

\* The network comes and goes together with what the page knows of it.
LEMMA NetworkEffect == EffectInv /\ (GoOffline \/ GoOnline) => EffectInv'
<1> SUFFICES ASSUME EffectInv, GoOffline \/ GoOnline PROVE EffectInv'
  OBVIOUS
<1> USE DEF EffectInv
<1>1. /\ server' = server /\ seen' = seen /\ polled' = polled /\ requests' = requests
      /\ ui' \in States /\ ui'.run = ui.run /\ ui'.fresh = ui.fresh
      /\ ui'.starting = ui.starting /\ ui'.failures = ui.failures
      /\ ui'.offline = ~page'.online /\ page'.visible = page.visible
      /\ page' \in [visible : BOOLEAN, online : BOOLEAN, reconnected : BOOLEAN,
                    url : Ids, nav : SUBSET Ids, flips : Nat]
  <2>1. CASE GoOffline
    <3>1. page.flips + 1 \in Nat
      BY DEF TypeOK
    <3>2. PICK n \in Nat : page' = [page EXCEPT !.online = FALSE, !.flips = n]
      BY <2>1, <3>1 DEF GoOffline
    <3>3. /\ page' \in [visible : BOOLEAN, online : BOOLEAN, reconnected : BOOLEAN,
                        url : Ids, nav : SUBSET Ids, flips : Nat]
          /\ page'.online = FALSE /\ page'.visible = page.visible
      BY <3>2 DEF TypeOK
    <3>4. ui' = [ui EXCEPT !.offline = TRUE]
      BY <2>1 DEF GoOffline
    <3>5. QED
      BY <2>1, <3>3, <3>4 DEF GoOffline, TypeOK, States
  <2>2. CASE GoOnline
    BY <2>2 DEF GoOnline, TypeOK, States
  <2>3. QED
    BY <2>1, <2>2
<1>2. TypeOK' /\ RequestsTyped(requests') /\ OneOfAKind(requests')
  BY <1>1 DEF TypeOK
<1>3. LaunchesOK(requests)' /\ RestorationsOK(requests)' /\ PollsOK(requests)'
  BY <1>1 DEF LaunchesOK, RestorationsOK, PollsOK
<1>4. EffectOK'
  BY <1>1 DEF EffectOK, Renewed
<1>5. Armed'
  BY <1>1 DEF Armed, Stale, Renewed
<1>6. QED
  BY <1>2, <1>3, <1>4, <1>5

\* An answer takes the place of its request.
LEMMA AnswerFacts ==
  ASSUME RequestsTyped(requests), OneOfAKind(requests), NEW r \in requests,
         NEW answer, NEW id, Answer(r, answer, id),
         IF r.by = "start" THEN id \in Launched \/ (id = None /\ answer \notin Statuses)
                           ELSE id \in RunIds
  PROVE  /\ RequestsTyped(requests') /\ OneOfAKind(requests')
         /\ \A q \in requests' : (q \in requests /\ q.by # r.by)
                                 \/ (q.by = r.by /\ q.id = id /\ q.answer = answer)
         /\ \A q \in requests : \E p \in requests' : p.by = q.by
<1>1. PICK q : q = [r EXCEPT !.answer = answer, !.id = id]
  OBVIOUS
<1>2. requests' = (requests \ {r}) \union {q}
  BY <1>1 DEF Answer
<1>3. IsRequest(r)
  BY DEF RequestsTyped
<1>4. PICK n, by : r = [by |-> by, id |-> r.id, answer |-> r.answer, n |-> n] /\ by = r.by
  BY <1>3 DEF IsRequest
<1>5. q = [by |-> by, id |-> id, answer |-> answer, n |-> n]
  <2>1. PICK s : s = [r EXCEPT !.answer = answer] /\ q = [s EXCEPT !.id = id]
    BY <1>1
  <2>2. s = [by |-> by, id |-> r.id, answer |-> answer, n |-> n]
    BY <1>4, <2>1
  <2>3. [[by |-> by, id |-> r.id, answer |-> answer, n |-> n] EXCEPT !.id = id]
          = [by |-> by, id |-> id, answer |-> answer, n |-> n]
    OBVIOUS
  <2>4. QED
    BY <2>1, <2>2, <2>3, Zenon
<1>6. q.by = by /\ q.id = id /\ q.answer = answer /\ q.n = n /\ by = r.by
  BY <1>4, <1>5
<1>7. IsRequest(q)
  BY <1>3, <1>4, <1>5, <1>6 DEF IsRequest
<1>8. RequestsTyped(requests') /\ OneOfAKind(requests')
  BY <1>2, <1>4, <1>6, <1>7 DEF RequestsTyped, OneOfAKind
<1>9. \A p \in requests' : (p \in requests /\ p.by # r.by)
                           \/ (p.by = r.by /\ p.id = id /\ p.answer = answer)
  BY <1>2, <1>4, <1>6 DEF OneOfAKind
<1>10. \A p \in requests : \E s \in requests' : s.by = p.by
  BY <1>2, <1>4, <1>6
<1>11. QED
  BY <1>8, <1>9, <1>10

\* The proxy and the backend behind it answer whatever they like.
LEMMA AnswersEffect ==
  ASSUME EffectInv, NEW r \in requests, ReadAnswers(r) \/ StartAnswers(r)
  PROVE  EffectInv'
<1> USE DEF EffectInv
<1>1. IsRequest(r)
  BY DEF RequestsTyped
<1>2. ui' = ui /\ seen' = seen /\ page' = page /\ polled' = polled
  BY DEF ReadAnswers, StartAnswers
<1>3. PICK answer, id :
         /\ Answer(r, answer, id)
         /\ IF r.by = "start" THEN id \in Launched \/ (id = None /\ answer \notin Statuses)
                              ELSE id = r.id
  <2>1. CASE ReadAnswers(r)
    BY <2>1 DEF ReadAnswers
  <2>2. CASE StartAnswers(r)
    <3>1. r.by = "start"
      BY <2>2 DEF StartAnswers
    <3>2. CASE \E answer \in {"error", "limited"} : Answer(r, answer, None)
      BY <3>1, <3>2, Ranks
    <3>3. CASE \E i \in Launched, answer \in {"requested", "error"} :
                  Answer(r, answer, IF answer = "error" THEN None ELSE i)
      BY <3>1, <3>3, Ranks
    <3>4. QED
      BY <2>2, <3>2, <3>3 DEF StartAnswers
  <2>3. QED
    BY <2>1, <2>2
<1>4. server' \in [RunIds -> Statuses \union {"absent", "expired"}]
  <2>1. CASE ReadAnswers(r)
    BY <2>1 DEF ReadAnswers, TypeOK
  <2>2. CASE StartAnswers(r)
    BY <2>2 DEF StartAnswers, TypeOK, Statuses, Active
  <2>3. QED
    BY <2>1, <2>2
<1>5. IF r.by = "start" THEN id \in Launched \/ (id = None /\ answer \notin Statuses)
                        ELSE id \in RunIds
  BY <1>1, <1>3 DEF IsRequest
<1>6. /\ RequestsTyped(requests') /\ OneOfAKind(requests')
      /\ \A q \in requests' : (q \in requests /\ q.by # r.by)
                              \/ (q.by = r.by /\ q.id = id /\ q.answer = answer)
      /\ \A q \in requests : \E p \in requests' : p.by = q.by
  BY <1>3, <1>5, AnswerFacts
<1>7. TypeOK'
  BY <1>2, <1>4 DEF TypeOK
<1>8. LaunchesOK(requests)' /\ RestorationsOK(requests)' /\ PollsOK(requests)'
  BY <1>2, <1>3, <1>6 DEF LaunchesOK, RestorationsOK, PollsOK
<1>9. EffectOK' /\ Armed'
  BY <1>2, <1>6 DEF EffectOK, Renewed, Armed, Stale
<1>10. QED
  BY <1>6, <1>7, <1>8, <1>9

\* What the backend does on its own changes nothing of the page.
LEMMA BackendEffect ==
  ASSUME EffectInv, NEW i \in RunIds, RunAdvances(i) \/ RunExpires(i)
  PROVE  EffectInv'
<1>1. /\ ui' = ui /\ seen' = seen /\ page' = page /\ polled' = polled
      /\ requests' = requests
  BY DEF RunAdvances, RunExpires
<1>2. server' \in [RunIds -> Statuses \union {"absent", "expired"}]
  <2>1. CASE RunAdvances(i)
    <3>1. PICK s \in {"running", "failed"} \union terminalStatuses : server' = [server EXCEPT ![i] = s]
      BY <2>1 DEF RunAdvances
    <3>2. s \in Statuses
      BY <3>1 DEF Statuses, Active, terminalStatuses
    <3>3. QED
      BY <3>1, <3>2 DEF EffectInv, TypeOK
  <2>2. CASE RunExpires(i)
    BY <2>2 DEF RunExpires, EffectInv, TypeOK
  <2>3. QED
    BY <2>1, <2>2
<1>3. QED
  BY <1>1, <1>2 DEF EffectInv, TypeOK, LaunchesOK, RestorationsOK, PollsOK, EffectOK, Renewed,
                    Armed, Stale

-----------------------------------------------------------------------------
(* The order of what is shown.                                             *)

LEMMA MentionedIs ==
  /\ \A i : i \in Mentioned <=>
        \/ i = ui.run.id \/ i = seen.ui.run.id \/ i = page.url \/ i = seen.url
        \/ i = polled.run \/ i \in page.nav
        \/ \E r \in requests : r.by # "start" /\ r.id = i
  /\ \A i : i \in Mentioned' <=>
        \/ i = ui'.run.id \/ i = seen'.ui.run.id \/ i = page'.url \/ i = seen'.url
        \/ i = polled'.run \/ i \in page'.nav
        \/ \E r \in requests' : r.by # "start" /\ r.id = i
BY DEF Mentioned

\* A step of the page mentions nothing new but a run just created, applies answers and
\* receives none.
LEMMA OrderKept ==
  ASSUME PaneInv, RequestsTyped(requests'), server' = server, ui' \in States,
         \A i \in Mentioned' :
            \/ i \in Mentioned \/ i = None
            \/ server[i] # "absent" /\ \A r \in requests' : r.by # "start",
         \A r \in requests' : r.by = "start" => r \in requests \/ r.id = None,
         \A r \in requests' : r.answer \in Statuses => r \in requests,
         ui'.run = NoRun \/ ui'.run = ui.run \/ NotAhead(ui'.run.id, ui'.run.status),
         \A r \in requests' : r.by = "poll" /\ r.answer \in Statuses =>
            ui'.run = NoRun \/ ui'.run = ui.run \/ ui'.run.id # r.id
  PROVE  OrderInv'
<1> USE DEF PaneInv, OrderInv
<1>1. MentionedExist'
  BY DEF MentionedExist
<1>2. CreatedIsNew'
  BY DEF CreatedIsNew
<1>3. ShownNotAhead'
  BY DEF ShownNotAhead, NotAhead
<1>4. AnswersNotAhead'
  BY DEF AnswersNotAhead, NotAhead
<1>5. AnswersNotBehind'
  <2> SUFFICES ASSUME NEW r \in requests', r.by = "poll", r.answer \in Statuses,
                      r.id = ui'.run.id
               PROVE  Rank(ui'.run.status) <= Rank(r.answer)
    BY DEF AnswersNotBehind
  <2>1. r.id # None /\ r \in requests
    BY RunNumbers DEF RequestsTyped, IsRequest
  <2>2. ui'.run = ui.run
    BY <2>1, RunsAreRecords
  <2>3. QED
    BY <2>1, <2>2 DEF AnswersNotBehind
<1>6. QED
  BY <1>1, <1>2, <1>3, <1>4, <1>5

\* A committed render mentions what was mentioned.
LEMMA CommitOrder ==
  ASSUME PaneInv, NEW state \in States, NEW reqs, Commit(state, reqs), server' = server,
         RequestsTyped(reqs), OneOfAKind(reqs), state.run = ui.run \/ state.run = NoRun,
         \A r \in reqs : \/ r \in requests
                         \/ r.by = "start" /\ r.id = None /\ r.answer = Waiting
  PROVE  OrderInv'
<1>1. /\ ui' \in States /\ ui'.run = state.run
      /\ seen'.ui = ui' /\ seen'.url = page.url
      /\ page'.url = page.url /\ page'.nav = page.nav
      /\ RequestsTyped(requests') /\ OneOfAKind(requests')
      /\ \A r \in requests' : r.by = "start" => r \in reqs
      /\ \A r \in requests' : r.by = "restore" =>
            \/ r \in reqs
            \/ r.answer = Waiting /\ r.id = page.url
      /\ ~PollDue(state) =>
            /\ polled' = polled
            /\ \A r \in requests' : r.by = "poll" => r \in reqs
      /\ PollDue(state) =>
            /\ \A r \in requests' : r.by = "poll" => r.id = state.run.id /\ r.answer = Waiting
            /\ polled'.run = IF Polls(state) THEN state.run.id ELSE None
  BY CommitFacts DEF PaneInv, EffectInv
<1>2. \A r \in requests' : r.by \in {"start", "restore", "poll"}
  BY <1>1 DEF RequestsTyped, IsRequest
<1>3. \A r \in requests' : \/ r \in reqs
                           \/ /\ r.by # "start" /\ r.answer = Waiting
                              /\ r.id = page.url \/ r.id = state.run.id
  BY <1>1, <1>2
<1>4. \A r \in requests' : r.answer \in Statuses => r \in requests
  BY <1>3, Ranks
<1>5. \A r \in requests' : r.by = "start" => r \in requests \/ r.id = None
  BY <1>1
<1>6. state.run.id \in Mentioned \union {None}
  BY MentionedIs, RunsAreRecords
<1>7. polled'.run \in Mentioned \union {None}
  <2>1. CASE PollDue(state)
    BY <1>1, <1>6, <2>1
  <2>2. CASE ~PollDue(state)
    BY <1>1, <2>2, MentionedIs
  <2>3. QED
    BY <2>1, <2>2
<1>8. ASSUME NEW r \in requests', r.by # "start" PROVE r.id \in Mentioned \union {None}
  <2>1. \/ r \in requests
        \/ r.id = page.url \/ r.id = state.run.id
    BY <1>3, <1>8
  <2>2. QED
    BY <1>6, <1>8, <2>1, MentionedIs
<1>9. \A i \in Mentioned' : i \in Mentioned \/ i = None
  BY <1>1, <1>6, <1>7, <1>8, MentionedIs
<1>10. QED
  BY <1>1, <1>4, <1>5, <1>9, OrderKept

LEMMA ClicksOrder == PaneInv /\ (Render \/ Launch \/ Resume) => OrderInv'
<1> SUFFICES ASSUME PaneInv, Render \/ Launch \/ Resume PROVE OrderInv'
  OBVIOUS
<1>1. /\ EffectInv /\ ui \in States
      /\ RequestsTyped(requests) /\ OneOfAKind(requests)
  BY DEF PaneInv, EffectInv, TypeOK
<1>2. CASE Render
  BY <1>1, <1>2, CommitOrder DEF Render
<1>3. CASE Launch
  <2>1. PICK state \in States : \E reqs :
           /\ Commit(state, reqs) /\ server' = server
           /\ state.run = NoRun /\ state.starting /\ state.offline = ui.offline
           /\ RequestsTyped(reqs) /\ OneOfAKind(reqs)
           /\ \A r \in requests : r \in reqs /\ r.by # "start"
           /\ \A r \in reqs : r \in requests \/ (r.by = "start" /\ r.id = None /\ r.answer = Waiting)
    BY <1>1, <1>3, LaunchFacts
  <2>2. QED
    BY <2>1, CommitOrder
<1>4. CASE Resume
  <2>1. PICK state : state = [ui EXCEPT !.failures = 0]
    OBVIOUS
  <2>2. state \in States /\ state.run = ui.run
    BY <1>1, <2>1 DEF States
  <2>3. QED
    BY <1>1, <1>4, <2>1, <2>2, CommitOrder DEF Resume
<1>5. QED
  BY <1>2, <1>3, <1>4

\* Handlers that show nothing new.
LEMMA PlainOrder ==
  ASSUME PaneInv, EffectInv',
         CountdownEnds \/ Dismiss \/ NavigationCommits \/ GoOffline \/ GoOnline
  PROVE  OrderInv' /\ ui'.run = ui.run
<1>1. /\ server' = server /\ seen' = seen /\ polled' = polled /\ requests' = requests
      /\ ui' \in States /\ RequestsTyped(requests')
  BY DEF CountdownEnds, Dismiss, NavigationCommits, GoOffline, GoOnline, EffectInv, TypeOK
<1>2. ui'.run = ui.run /\ page'.url \in {page.url} \union page.nav
      /\ page'.nav \subseteq page.nav \union {None}
  <2> USE DEF PaneInv, EffectInv, TypeOK, States
  <2>1. CASE CountdownEnds
    BY <2>1 DEF CountdownEnds
  <2>2. CASE Dismiss
    BY <2>2 DEF Dismiss
  <2>3. CASE NavigationCommits
    BY <2>3 DEF NavigationCommits
  <2>4. CASE GoOffline
    BY <2>4 DEF GoOffline
  <2>5. CASE GoOnline
    BY <2>5 DEF GoOnline
  <2>6. QED
    BY <2>1, <2>2, <2>3, <2>4, <2>5
<1>3. \A i \in Mentioned' : i \in Mentioned \/ i = None
  BY <1>1, <1>2, MentionedIs
<1>4. QED
  BY <1>1, <1>2, <1>3, OrderKept

\* The timer and the visibility of the page send polls or abort them.
LEMMA PollingOrder ==
  ASSUME PaneInv, EffectInv', TimerFires \/ Hide \/ Show
  PROVE  OrderInv' /\ ui'.run = ui.run
<1>1. /\ server' = server /\ seen' = seen /\ ui' = ui
      /\ ui' \in States /\ RequestsTyped(requests')
  BY DEF TimerFires, Hide, Show, EffectInv, TypeOK
<1>2. polled'.run = polled.run /\ page'.url = page.url /\ page'.nav = page.nav
  <2> USE DEF PaneInv, EffectInv, TypeOK
  <2>1. CASE TimerFires
    BY <2>1 DEF TimerFires
  <2>2. CASE Hide
    BY <2>2 DEF Hide
  <2>3. CASE Show
    BY <2>3 DEF Show
  <2>4. QED
    BY <2>1, <2>2, <2>3
<1>3. \A r \in requests' : \/ r \in requests
                           \/ r.by = "poll" /\ r.id = polled.run /\ r.answer = Waiting
  <2>1. PICK q : /\ With(requests, "poll", polled.run) = requests \union {q}
                 /\ q.by = "poll" /\ q.id = polled.run /\ q.answer = Waiting
    BY Sent
  <2>2. \A r \in requests' : r \in With(requests, "poll", polled.run)
    <3>1. CASE TimerFires
      BY <2>1, <3>1 DEF TimerFires
    <3>2. CASE Hide
      BY <2>1, <3>2, Aborted DEF Hide
    <3>3. CASE Show
      BY <2>1, <3>3 DEF Show
    <3>4. QED
      BY <3>1, <3>2, <3>3
  <2>3. QED
    BY <2>1, <2>2
<1>4. \A i \in Mentioned' : i \in Mentioned \/ i = None
  BY <1>1, <1>2, <1>3, MentionedIs
<1>5. /\ \A r \in requests' : r.by = "start" => r \in requests \/ r.id = None
      /\ \A r \in requests' : r.answer \in Statuses => r \in requests
  BY <1>3, Ranks
<1>6. QED
  BY <1>1, <1>4, <1>5, OrderKept

\* The answer of a launch shows a run nobody mentioned before.
LEMMA StartAnsweredOrder ==
  ASSUME PaneInv, EffectInv', NEW r \in requests, StartAnswered(r)
  PROVE  OrderInv' /\ (ui'.run = ui.run \/ ui'.run.id # ui.run.id)
<1>1. /\ ui \in States /\ IsRequest(r) /\ RequestsTyped(requests)
      /\ OneOfAKind(requests) /\ page.nav \subseteq Ids
  BY DEF PaneInv, EffectInv, TypeOK, RequestsTyped
<1>2. /\ r.by = "start" /\ requests' = requests \ {r}
      /\ server' = server /\ seen' = seen /\ polled' = polled
  BY DEF StartAnswered
<1>3. /\ ui' \in States /\ RequestsTyped(requests')
      /\ \A q \in requests' : q \in requests /\ q.by # "start"
  BY <1>1, <1>2, Forgotten DEF EffectInv, TypeOK
<1>4. CASE r.answer \in Active
  <2> DEFINE run == [id |-> r.id, status |-> r.answer]
  <2>1. /\ r.id \in RunIds /\ r.id # None /\ r.answer \in Statuses
        /\ run \in Runs /\ run.id = r.id /\ run.status = r.answer
    BY <1>1, <1>2, <1>4, RunNumbers, Ranks, RunsAreRecords DEF IsRequest
  <2>2. PICK shown : shown = Shows(run) /\ shown \in States /\ shown.run = run
    BY <1>1, <2>1, ShowsFacts
  <2>3. ui' = [shown EXCEPT !.starting = FALSE] /\ page' = [page EXCEPT !.nav = {r.id}]
    BY <1>4, <2>2 DEF StartAnswered
  <2>4. ui'.run = run
    BY <2>2, <2>3 DEF States
  <2>5. page'.url = page.url /\ page'.nav = {r.id}
    BY <2>3 DEF PaneInv, EffectInv, TypeOK
  <2>6. server[r.id] # "absent" /\ r.id \notin Mentioned /\ NotAhead(r.id, r.answer)
    BY <1>2, <2>1 DEF PaneInv, OrderInv, CreatedIsNew, AnswersNotAhead
  <2> HIDE DEF run
  <2>7. \A i \in Mentioned' : i \in Mentioned \/ i = r.id
    BY <1>2, <1>3, <2>1, <2>4, <2>5, MentionedIs
  <2>8. \A q \in requests' : q.by = "poll" => ui'.run.id # q.id
    BY <1>3, <2>1, <2>4, <2>6, MentionedIs
  <2>9. ui'.run.id # ui.run.id
    BY <2>1, <2>4, <2>6, MentionedIs
  <2>10. NotAhead(ui'.run.id, ui'.run.status)
    BY <2>1, <2>4, <2>6
  <2>11. QED
    BY <1>2, <1>3, <2>6, <2>7, <2>8, <2>9, <2>10, OrderKept
<1>5. CASE r.answer \notin Active
  <2>1. /\ page' = page
        /\ ui' = [ui EXCEPT !.starting = FALSE, !.limited = @ \/ r.answer = "limited"]
    BY <1>5 DEF StartAnswered
  <2>2. ui'.run = ui.run
    BY <1>1, <2>1 DEF States
  <2>3. \A i \in Mentioned' : i \in Mentioned
    BY <1>2, <1>3, <2>1, <2>2, MentionedIs
  <2>4. QED
    BY <1>2, <1>3, <2>2, <2>3, OrderKept
<1>6. QED
  BY <1>4, <1>5

\* The answer of a restoration shows a run that is not shown.
LEMMA RestoreAnsweredOrder ==
  ASSUME PaneInv, EffectInv', NEW r \in requests, RestoreAnswered(r)
  PROVE  OrderInv' /\ (ui'.run = ui.run \/ ui'.run.id # ui.run.id)
<1>1. /\ ui \in States /\ IsRequest(r) /\ RequestsTyped(requests)
      /\ OneOfAKind(requests) /\ EffectInv
  BY DEF PaneInv, EffectInv, TypeOK, RequestsTyped
<1>2. /\ r.by = "restore" /\ r.id \in RunIds /\ requests' = requests \ {r} /\ page' = page
      /\ server' = server /\ seen' = seen /\ polled' = polled
  BY <1>1 DEF RestoreAnswered, IsRequest
<1>3. /\ ui' \in States /\ RequestsTyped(requests')
      /\ \A q \in requests' : q \in requests /\ q.by # "poll"
  BY <1>1, <1>2, Forgotten, PollsExcludeRestorations DEF EffectInv, TypeOK
<1>4. CASE r.answer \in Statuses
  <2> DEFINE run == [id |-> r.id, status |-> r.answer]
  <2>1. run \in Runs /\ run.id = r.id /\ run.status = r.answer
    BY <1>2, <1>4, RunsAreRecords
  <2>2. PICK shown : shown = Shows(run) /\ shown \in States /\ shown.run = run
    BY <1>1, <2>1, ShowsFacts
  <2>3. ui' = [shown EXCEPT !.restoring = FALSE]
    BY <1>4, <2>2 DEF RestoreAnswered, Statuses
  <2>4. ui'.run = run
    BY <2>2, <2>3 DEF States
  <2>5. NotAhead(r.id, r.answer) /\ ui.run.id # r.id
    BY <1>1, <1>2, <1>4 DEF PaneInv, OrderInv, AnswersNotAhead, EffectInv, RestorationsOK
  <2> HIDE DEF run
  <2>6. \A i \in Mentioned' : i \in Mentioned
    BY <1>2, <1>3, <2>1, <2>4, MentionedIs
  <2>7. NotAhead(ui'.run.id, ui'.run.status) /\ ui'.run.id # ui.run.id
    BY <2>1, <2>4, <2>5
  <2>8. QED
    BY <1>2, <1>3, <2>6, <2>7, OrderKept
<1>5. CASE r.answer \notin Statuses
  <2>1. ui' = [ui EXCEPT !.restoring = FALSE, !.restoreFailed = TRUE]
    BY <1>5 DEF RestoreAnswered, Statuses
  <2>2. ui'.run = ui.run
    BY <1>1, <2>1 DEF States
  <2>3. \A i \in Mentioned' : i \in Mentioned
    BY <1>2, <1>3, <2>2, MentionedIs
  <2>4. QED
    BY <1>2, <1>3, <2>2, <2>3, OrderKept
<1>6. QED
  BY <1>4, <1>5

\* The answer of a poll shows its run no further back than before.
LEMMA PollAnsweredOrder ==
  ASSUME PaneInv, EffectInv', NEW r \in requests, PollAnswered(r)
  PROVE  /\ OrderInv'
         /\ ui.run.id # None /\ ui'.run.id = ui.run.id
              => ui'.run = ui.run \/ Rank(ui.run.status) <= Rank(ui'.run.status)
<1>1. /\ ui \in States /\ IsRequest(r) /\ RequestsTyped(requests)
      /\ OneOfAKind(requests) /\ EffectInv
  BY DEF PaneInv, EffectInv, TypeOK, RequestsTyped
<1>2. /\ r.by = "poll" /\ r.id \in RunIds /\ requests' = requests \ {r}
      /\ server' = server /\ seen' = seen /\ polled' = polled
  BY <1>1 DEF PollAnswered, IsRequest
<1>3. /\ ui' \in States /\ RequestsTyped(requests')
      /\ \A q \in requests' : q \in requests /\ q.by # "poll"
  BY <1>1, <1>2, Forgotten DEF EffectInv, TypeOK
<1>4. CASE r.answer \in Statuses
  <2> DEFINE run == [id |-> r.id, status |-> r.answer]
  <2>1. run \in Runs /\ run.id = r.id /\ run.status = r.answer
    BY <1>2, <1>4, RunsAreRecords
  <2>2. PICK shown : shown = Shows(run) /\ shown \in States /\ shown.run = run
    BY <1>1, <2>1, ShowsFacts
  <2>3. ui' = [shown EXCEPT !.failures = 0] /\ page' = page
    BY <1>4, <2>2, Ranks DEF PollAnswered, Statuses
  <2>4. ui'.run = run
    BY <2>2, <2>3 DEF States
  <2>5. /\ NotAhead(r.id, r.answer)
        /\ r.id = ui.run.id => Rank(ui.run.status) <= Rank(r.answer)
    BY <1>2, <1>4 DEF PaneInv, OrderInv, AnswersNotAhead, AnswersNotBehind
  <2> HIDE DEF run
  <2>6. \A i \in Mentioned' : i \in Mentioned
    BY <1>2, <1>3, <2>1, <2>3, <2>4, MentionedIs
  <2>7. NotAhead(ui'.run.id, ui'.run.status)
    BY <2>1, <2>4, <2>5
  <2>8. ui'.run.id = ui.run.id => Rank(ui.run.status) <= Rank(ui'.run.status)
    BY <2>1, <2>4, <2>5
  <2>9. OrderInv'
    BY <1>2, <1>3, <2>6, <2>7, OrderKept
  <2>10. QED
    BY <2>8, <2>9
<1>5. CASE r.answer = "missing"
  <2>1. PICK shown : shown = Shows(NoRun) /\ shown \in States /\ shown.run = NoRun
    BY <1>1, RunsAreRecords, ShowsFacts
  <2>2. ui' = [shown EXCEPT !.restoreFailed = FALSE] /\ page' = [page EXCEPT !.nav = {None}]
    BY <1>5, <2>1, Ranks DEF PollAnswered, Statuses
  <2>3. ui'.run = NoRun /\ ui'.run.id = None
    BY <2>1, <2>2, RunsAreRecords DEF States
  <2>4. page'.url = page.url /\ page'.nav = {None}
    BY <1>1, <2>2 DEF EffectInv, TypeOK
  <2>5. \A i \in Mentioned' : i \in Mentioned \/ i = None
    BY <1>2, <1>3, <2>3, <2>4, MentionedIs
  <2>6. QED
    BY <1>2, <1>3, <2>3, <2>5, OrderKept
<1>6. CASE r.answer \notin Statuses /\ r.answer # "missing"
  <2>1. ui' = [ui EXCEPT !.failures = @ + 1] /\ page' = page
    BY <1>6, Zenon DEF PollAnswered, Statuses
  <2>2. ui'.run = ui.run
    BY <1>1, <2>1 DEF States
  <2>3. \A i \in Mentioned' : i \in Mentioned
    BY <1>2, <1>3, <2>1, <2>2, MentionedIs
  <2>4. QED
    BY <1>2, <1>3, <2>2, <2>3, OrderKept
<1>7. QED
  BY <1>4, <1>5, <1>6

\* A read is answered with what the backend stores at that moment.
LEMMA ReadAnswersOrder ==
  ASSUME PaneInv, NEW r \in requests, ReadAnswers(r)
  PROVE  OrderInv'
<1> USE DEF PaneInv, OrderInv
<1>1. /\ IsRequest(r) /\ RequestsTyped(requests) /\ OneOfAKind(requests) /\ EffectInv
  BY DEF EffectInv, RequestsTyped
<1>2. /\ r.by # "start" /\ r.id \in RunIds
      /\ server' = server /\ ui' = ui /\ seen' = seen /\ page' = page /\ polled' = polled
  BY <1>1 DEF ReadAnswers, IsRequest
<1>3. PICK answer : /\ Answer(r, answer, r.id)
                    /\ answer \in Statuses => answer = server[r.id]
  BY Ranks DEF ReadAnswers, Statuses
<1>4. \A q \in requests' : (q \in requests /\ q.by # r.by)
                           \/ (q.by = r.by /\ q.id = r.id /\ q.answer = answer)
  BY <1>1, <1>2, <1>3, AnswerFacts
<1>5. answer \in Statuses => NotAhead(r.id, answer)
  <2> SUFFICES ASSUME answer \in Statuses PROVE NotAhead(r.id, answer)
    OBVIOUS
  <2>1. answer = server[r.id] /\ answer # "absent" /\ Rank(answer) \in 0..2
    BY <1>3, Ranks
  <2>2. QED
    BY <2>1 DEF NotAhead
<1>6. \A i \in Mentioned' : i \in Mentioned
  BY <1>2, <1>4, MentionedIs
<1>7. MentionedExist' /\ ShownNotAhead'
  BY <1>2, <1>6 DEF MentionedExist, ShownNotAhead, NotAhead
<1>8. CreatedIsNew'
  BY <1>2, <1>4, <1>6 DEF CreatedIsNew
<1>9. AnswersNotAhead'
  BY <1>2, <1>4, <1>5 DEF AnswersNotAhead, NotAhead
<1>10. AnswersNotBehind'
  <2> SUFFICES ASSUME NEW q \in requests', q.by = "poll", q.answer \in Statuses,
                      q.id = ui.run.id
               PROVE  Rank(ui.run.status) <= Rank(q.answer)
    BY <1>2 DEF AnswersNotBehind
  <2>1. CASE q \in requests
    BY <2>1 DEF AnswersNotBehind
  <2>2. CASE q.id = r.id /\ q.answer = answer
    <3>1. answer = server[r.id] /\ ui.run.id \in RunIds
      BY <1>2, <1>3, <2>2
    <3>2. ui.run # NoRun
      BY <3>1, RunsAreRecords, RunNumbers
    <3>3. QED
      BY <2>2, <3>1, <3>2 DEF ShownNotAhead, NotAhead
  <2>3. QED
    BY <1>4, <2>1, <2>2
<1>11. QED
  BY <1>7, <1>8, <1>9, <1>10

\* Where the backend only moves on, everything stays in order.
LEMMA BackendMoves ==
  ASSUME PaneInv, ui' = ui, seen' = seen, page' = page, polled' = polled,
         \A j \in RunIds : \A s : NotAhead(j, s) => NotAhead(j, s)',
         \A j \in RunIds : server[j] # "absent" => server'[j] # "absent",
         \A i \in Mentioned' : i \in Mentioned
  PROVE  MentionedExist' /\ ShownNotAhead'
<1>1. \A i \in Mentioned \ {None} : i \in RunIds
  <2> SUFFICES ASSUME NEW i \in Mentioned, i # None PROVE i \in RunIds
    OBVIOUS
  <2>1. /\ ui.run.id \in Ids /\ seen.ui.run.id \in Ids /\ page.url \in Ids
        /\ seen.url \in Ids /\ polled.run \in Ids /\ page.nav \subseteq Ids
    BY RunsAreRecords DEF PaneInv, EffectInv, TypeOK, States
  <2>2. \A r \in requests : r.by # "start" => r.id \in Ids
    BY DEF PaneInv, EffectInv, RequestsTyped, IsRequest, Ids
  <2>3. i \in Ids
    BY <2>1, <2>2, MentionedIs
  <2>4. QED
    BY <2>3 DEF Ids
<1>2. MentionedExist'
  BY <1>1 DEF MentionedExist, PaneInv, OrderInv
<1>3. ShownNotAhead'
  <2> SUFFICES ASSUME ui.run # NoRun PROVE NotAhead(ui.run.id, ui.run.status)'
    BY DEF ShownNotAhead
  <2>1. ui.run.id \in RunIds
    BY RunsAreRecords DEF PaneInv, EffectInv, TypeOK, States
  <2>2. NotAhead(ui.run.id, ui.run.status)
    BY DEF PaneInv, OrderInv, ShownNotAhead
  <2>3. PICK j, s : j \in RunIds /\ j = ui.run.id /\ s = ui.run.status
    BY <2>1
  <2>4. NotAhead(j, s)'
    BY <2>2, <2>3 DEF NotAhead
  <2>5. QED
    BY <2>3, <2>4 DEF NotAhead
<1>4. QED
  BY <1>2, <1>3

\* A run that advances or expires gets ahead of what is shown, never behind.
LEMMA BackendOrder ==
  ASSUME PaneInv, NEW i \in RunIds, RunAdvances(i) \/ RunExpires(i)
  PROVE  OrderInv'
<1>1. /\ ui' = ui /\ seen' = seen /\ page' = page /\ polled' = polled
      /\ requests' = requests
  BY DEF RunAdvances, RunExpires
<1>2. PICK s : /\ server' = [server EXCEPT ![i] = s] /\ s # "absent"
               /\ Rank(server[i]) <= Rank(s)
  <2>1. CASE RunAdvances(i)
    <3>1. CASE server[i] = "requested"
      <4>1. PICK s \in {"running", "failed"} : server' = [server EXCEPT ![i] = s]
        BY <2>1, <3>1 DEF RunAdvances
      <4>2. Rank(server[i]) <= Rank(s) /\ s # "absent"
        <5>1. Rank(s) \in 0..2 /\ Rank(server[i]) = 0
          BY <3>1, Ranks
        <5>2. QED
          BY <4>1, <5>1
      <4>3. QED
        BY <4>1, <4>2
    <3>2. CASE server[i] # "requested"
      <4>1. PICK s \in terminalStatuses : server' = [server EXCEPT ![i] = s]
        BY <2>1, <3>2 DEF RunAdvances
      <4>2. Rank(server[i]) <= Rank(s) /\ s # "absent"
        <5>1. Rank(s) = 2 /\ Rank(server[i]) \in 0..2 /\ s # "absent"
          BY Ranks DEF terminalStatuses
        <5>2. QED
          BY <5>1
      <4>3. QED
        BY <4>1, <4>2
    <3>3. QED
      BY <3>1, <3>2
  <2>2. CASE RunExpires(i)
    <3>1. server' = [server EXCEPT ![i] = "expired"] /\ "expired" # "absent"
      BY <2>2 DEF RunExpires
    <3>2. Rank(server[i]) <= Rank("expired")
      <4>1. Rank("expired") = 2 /\ Rank(server[i]) \in 0..2
        BY Ranks
      <4>2. QED
        BY <4>1
    <3>3. QED
      BY <3>1, <3>2
  <2>3. QED
    BY <2>1, <2>2
<1>3. server \in [RunIds -> Statuses \union {"absent", "expired"}]
  BY DEF PaneInv, EffectInv, TypeOK
<1>4. \A j \in RunIds : server[j] # "absent" => server'[j] # "absent"
  BY <1>2, <1>3
<1>5. ASSUME NEW j \in RunIds, NEW t, NotAhead(j, t) PROVE NotAhead(j, t)'
  <2>1. Rank(t) <= Rank(server[j]) /\ server[j] # "absent"
    BY <1>5 DEF NotAhead
  <2>2. Rank(t) \in 0..2 /\ Rank(server[j]) \in 0..2 /\ Rank(s) \in 0..2
        /\ Rank(server[i]) \in 0..2
    BY Ranks
  <2>3. server'[j] = IF j = i THEN s ELSE server[j]
    BY <1>2, <1>3
  <2>4. Rank(t) <= Rank(server'[j]) /\ server'[j] # "absent"
    BY <1>2, <2>1, <2>2, <2>3
  <2>5. QED
    BY <2>4 DEF NotAhead
<1>6. \A j \in Mentioned' : j \in Mentioned
  BY <1>1, MentionedIs
<1>7. MentionedExist' /\ ShownNotAhead'
  BY <1>1, <1>4, <1>5, <1>6, BackendMoves
<1>8. \A r \in requests : r.by = "start" /\ r.id # None => r.id \in RunIds
  BY RunNumbers DEF PaneInv, EffectInv, RequestsTyped, IsRequest
<1>9. CreatedIsNew'
  BY <1>1, <1>4, <1>6, <1>8 DEF CreatedIsNew, PaneInv, OrderInv
<1>10. AnswersNotAhead'
  <2> SUFFICES ASSUME NEW r \in requests, r.answer \in Statuses PROVE NotAhead(r.id, r.answer)'
    BY <1>1 DEF AnswersNotAhead
  <2>1. r.id \in RunIds /\ NotAhead(r.id, r.answer)
    BY RunNumbers DEF PaneInv, EffectInv, RequestsTyped, IsRequest, OrderInv, AnswersNotAhead
  <2>2. QED
    BY <1>5, <2>1
<1>11. AnswersNotBehind'
  BY <1>1 DEF AnswersNotBehind, PaneInv, OrderInv
<1>12. QED
  BY <1>7, <1>9, <1>10, <1>11 DEF OrderInv

\* A launch creates a run nobody has mentioned yet.
LEMMA StartAnswersOrder ==
  ASSUME PaneInv, NEW r \in requests, StartAnswers(r)
  PROVE  OrderInv'
<1>1. /\ RequestsTyped(requests) /\ OneOfAKind(requests) /\ EffectInv
      /\ server \in [RunIds -> Statuses \union {"absent", "expired"}]
  BY DEF PaneInv, EffectInv, TypeOK
<1>2. /\ r.by = "start" /\ ui' = ui /\ seen' = seen /\ page' = page /\ polled' = polled
  BY DEF StartAnswers
<1>3. PICK answer, id :
         /\ Answer(r, answer, id)
         /\ \/ id = None /\ answer = "error" /\ server' = server
            \/ id = None /\ answer = "limited" /\ server' = server
            \/ \E i \in Launched :
                  /\ server[i] = "absent" /\ server' = [server EXCEPT ![i] = "requested"]
                  /\ \/ id = None /\ answer = "error"
                     \/ id = i /\ answer = "requested"
  <2>1. CASE \E answer \in {"error", "limited"} : Answer(r, answer, None) /\ server' = server
    BY <2>1
  <2>2. CASE \E i \in Launched, answer \in {"requested", "error"} :
                /\ server[i] = "absent" /\ server' = [server EXCEPT ![i] = "requested"]
                /\ Answer(r, answer, IF answer = "error" THEN None ELSE i)
    BY <2>2
  <2>3. QED
    BY <2>1, <2>2 DEF StartAnswers
<1>4. id \in Launched \/ (id = None /\ answer \notin Statuses)
  BY <1>3, Ranks
<1>5. \A q \in requests' : (q \in requests /\ q.by # "start")
                           \/ (q.by = "start" /\ q.id = id /\ q.answer = answer)
  BY <1>1, <1>2, <1>3, <1>4, AnswerFacts
<1>6. \A i \in Mentioned' : i \in Mentioned
  BY <1>2, <1>5, MentionedIs
<1>7. \A j \in RunIds : server[j] # "absent" => server'[j] = server[j]
  BY <1>1, <1>3
<1>8. \A j \in RunIds : \A s : NotAhead(j, s) => NotAhead(j, s)'
  BY <1>7 DEF NotAhead
<1>9. MentionedExist' /\ ShownNotAhead'
  BY <1>2, <1>6, <1>7, <1>8, BackendMoves
<1>10. id # None => server'[id] = "requested" /\ id \notin Mentioned /\ answer = "requested"
  <2> SUFFICES ASSUME id # None
               PROVE  server'[id] = "requested" /\ id \notin Mentioned /\ answer = "requested"
    OBVIOUS
  <2>1. /\ id \in Launched /\ server[id] = "absent" /\ answer = "requested"
        /\ server' = [server EXCEPT ![id] = "requested"]
    BY <1>3
  <2>2. id \in RunIds /\ id # Linked
    BY <2>1, RunNumbers
  <2>3. QED
    BY <1>1, <2>1, <2>2 DEF PaneInv, OrderInv, MentionedExist
<1>11. CreatedIsNew'
  BY <1>5, <1>6, <1>10 DEF CreatedIsNew
<1>12. AnswersNotAhead'
  <2> SUFFICES ASSUME NEW q \in requests', q.answer \in Statuses PROVE NotAhead(q.id, q.answer)'
    BY DEF AnswersNotAhead
  <2>1. CASE q \in requests
    <3>1. q.id \in RunIds /\ NotAhead(q.id, q.answer)
      BY <1>1, <2>1, RunNumbers DEF RequestsTyped, IsRequest, PaneInv, OrderInv, AnswersNotAhead
    <3>2. QED
      BY <1>8, <3>1
  <2>2. CASE q.id = id /\ q.answer = answer
    <3>1. server'[id] = "requested" /\ answer = "requested"
      BY <1>4, <1>10, <2>2, RunNumbers
    <3>2. QED
      BY <2>2, <3>1, Ranks DEF NotAhead
  <2>3. QED
    BY <1>5, <2>1, <2>2
<1>13. AnswersNotBehind'
  BY <1>2, <1>5 DEF AnswersNotBehind, PaneInv, OrderInv
<1>14. QED
  BY <1>9, <1>11, <1>12, <1>13 DEF OrderInv

-----------------------------------------------------------------------------
(* Every step.                                                             *)

LEMMA PaneInitially == Init => PaneInv
<1> SUFFICES ASSUME Init PROVE PaneInv
  OBVIOUS
<1>1. /\ ui \in States /\ ui.run = NoRun /\ ui.failures = 0 /\ ~ui.fresh
      /\ ~ui.offline /\ requests = {}
      /\ page.online = TRUE /\ page.url \in {None, Linked} /\ page.nav = {}
      /\ polled.run = None /\ polled.timer = FALSE
      /\ seen.ui = ui /\ seen.url = None
  BY RunsAreRecords DEF Init, States
<1>2. server \in [RunIds -> Statuses \union {"absent", "expired"}]
  <2>1. PICK s \in {"running", "absent"} : server = [i \in RunIds |-> IF i = Linked THEN s ELSE "absent"]
    BY DEF Init
  <2>2. s \in Statuses \union {"absent", "expired"}
    BY DEF Statuses, Active
  <2>3. QED
    BY <2>1, <2>2
<1>3. TypeOK
  <2>1. page \in [visible : BOOLEAN, online : BOOLEAN, reconnected : BOOLEAN,
                  url : Ids, nav : SUBSET Ids, flips : Nat]
    <3>1. /\ page = [visible |-> page.visible, online |-> page.online,
                     reconnected |-> page.reconnected, url |-> page.url,
                     nav |-> page.nav, flips |-> page.flips]
          /\ page.visible \in BOOLEAN /\ page.reconnected = FALSE /\ page.flips = 0
      BY DEF Init
    <3>2. page.url \in Ids /\ page.nav \in SUBSET Ids /\ page.online \in BOOLEAN
      BY <1>1, RunNumbers DEF Ids
    <3>3. PICK v \in BOOLEAN, o \in BOOLEAN, u \in Ids, m \in SUBSET Ids :
             page = [visible |-> v, online |-> o, reconnected |-> FALSE,
                     url |-> u, nav |-> m, flips |-> 0]
      BY <3>1, <3>2
    <3>4. FALSE \in BOOLEAN /\ 0 \in Nat
      OBVIOUS
    <3>5. QED
      BY <3>3, <3>4
  <2>2. /\ seen \in [ui : States, url : Ids] /\ polled \in [run : Ids, timer : BOOLEAN]
    BY <1>1 DEF Init, Ids
  <2>3. QED
    BY <1>1, <1>2, <2>1, <2>2 DEF TypeOK
<1>4. EffectOK /\ Armed
  <2>1. ui.offline = ~page.online
    BY <1>1 DEF States
  <2>2. seen.ui.run.status \notin Active
    BY <1>1, RunsAreRecords, Ranks
  <2>3. QED
    BY <1>1, <2>1, <2>2 DEF EffectOK, Renewed, Armed
<1>5. EffectInv
  BY <1>1, <1>3, <1>4 DEF EffectInv, RequestsTyped, OneOfAKind, LaunchesOK, RestorationsOK, PollsOK
<1>6. \A i \in Mentioned : i \in {None, Linked}
  BY <1>1, MentionedIs, RunsAreRecords
<1>7. OrderInv
  BY <1>1, <1>6 DEF OrderInv, MentionedExist, CreatedIsNew, ShownNotAhead, AnswersNotAhead,
                    AnswersNotBehind
<1>8. QED
  BY <1>5, <1>7 DEF PaneInv

\* A step keeps the invariant and never takes back what is shown of a run.
Onward == ui.run.id # None /\ ui'.run.id = ui.run.id
            => Rank(ui.run.status) <= Rank(ui'.run.status)

LEMMA SameIsOnward == ui'.run = ui.run \/ ui'.run.id # ui.run.id \/ ui'.run.id = None => Onward
<1>1. Rank(ui.run.status) \in 0..2
  BY Ranks
<1>2. QED
  BY <1>1 DEF Onward

LEMMA PaneStep == PaneInv /\ [Next]_vars => PaneInv' /\ Onward
<1> SUFFICES ASSUME PaneInv, [Next]_vars PROVE PaneInv' /\ Onward
  OBVIOUS
<1>1. EffectInv /\ ui \in States
  BY DEF PaneInv, EffectInv, TypeOK
<1>2. CASE Render \/ Launch \/ Resume
  <2>1. EffectInv'
    BY <1>1, <1>2, RenderEffect, LaunchEffect, ResumeEffect
  <2>2. OrderInv'
    BY <1>2, ClicksOrder
  <2>3. ui'.run = ui.run \/ ui'.run.id = None
    <3>1. CASE Render
      BY <1>1, <3>1 DEF Render, Commit, States
    <3>2. CASE Launch
      <4>1. PICK state \in States : \E reqs :
               /\ Commit(state, reqs) /\ state.run = NoRun
        BY <1>1, <3>2, LaunchFacts
      <4>2. ui'.run = NoRun
        BY <4>1 DEF Commit, States
      <4>3. QED
        BY <4>2, RunsAreRecords
    <3>3. CASE Resume
      <4>1. PICK state : state = [ui EXCEPT !.failures = 0] /\ Commit(state, requests)
        BY <3>3 DEF Resume
      <4>2. state \in States /\ state.run = ui.run
        BY <1>1, <4>1 DEF States
      <4>3. QED
        BY <4>1, <4>2 DEF Commit, States
    <3>4. QED
      BY <1>2, <3>1, <3>2, <3>3
  <2>4. QED
    BY <2>1, <2>2, <2>3, SameIsOnward DEF PaneInv
<1>3. CASE CountdownEnds \/ Dismiss \/ NavigationCommits \/ GoOffline \/ GoOnline
  <2>1. EffectInv'
    BY <1>1, <1>3, PlainEffect, NetworkEffect
  <2>2. QED
    BY <1>3, <2>1, PlainOrder, SameIsOnward DEF PaneInv
<1>4. CASE TimerFires \/ Hide \/ Show
  <2>1. EffectInv'
    BY <1>1, <1>4, TimerEffect, HideEffect, ShowEffect
  <2>2. QED
    BY <1>4, <2>1, PollingOrder, SameIsOnward DEF PaneInv
<1>5. ASSUME NEW r \in requests, StartAnswered(r) PROVE PaneInv' /\ Onward
  BY <1>5, StartAnsweredEffect, StartAnsweredOrder, SameIsOnward DEF PaneInv
<1>6. ASSUME NEW r \in requests, RestoreAnswered(r) PROVE PaneInv' /\ Onward
  BY <1>6, RestoreAnsweredEffect, RestoreAnsweredOrder, SameIsOnward DEF PaneInv
<1>7. ASSUME NEW r \in requests, PollAnswered(r) PROVE PaneInv' /\ Onward
  <2>1. EffectInv'
    BY <1>7, PollAnsweredEffect
  <2>2. /\ OrderInv'
        /\ ui.run.id # None /\ ui'.run.id = ui.run.id
             => ui'.run = ui.run \/ Rank(ui.run.status) <= Rank(ui'.run.status)
    BY <1>7, <2>1, PollAnsweredOrder
  <2>3. Onward
    BY <2>2, SameIsOnward DEF Onward
  <2>4. QED
    BY <2>1, <2>2, <2>3 DEF PaneInv
<1>8. ASSUME NEW r \in requests, ReadAnswers(r) \/ StartAnswers(r) PROVE PaneInv' /\ Onward
  <2>1. EffectInv' /\ OrderInv'
    BY <1>1, <1>8, AnswersEffect, ReadAnswersOrder, StartAnswersOrder
  <2>2. ui' = ui
    BY <1>8 DEF ReadAnswers, StartAnswers
  <2>3. QED
    BY <2>1, <2>2, SameIsOnward DEF PaneInv
<1>9. ASSUME NEW i \in RunIds, RunAdvances(i) \/ RunExpires(i) PROVE PaneInv' /\ Onward
  <2>1. EffectInv' /\ OrderInv'
    BY <1>1, <1>9, BackendEffect, BackendOrder
  <2>2. ui' = ui
    BY <1>9 DEF RunAdvances, RunExpires
  <2>3. QED
    BY <2>1, <2>2, SameIsOnward DEF PaneInv
<1>10. CASE UNCHANGED vars
  <2>1. /\ server' = server /\ ui' = ui /\ seen' = seen /\ page' = page
        /\ polled' = polled /\ requests' = requests
    BY <1>10 DEF vars
  <2>2. EffectInv'
    BY <1>1, <2>1 DEF EffectInv, TypeOK, LaunchesOK, RestorationsOK, PollsOK, EffectOK,
                      Renewed, Armed, Stale
  <2>3. OrderInv'
    BY <2>1 DEF PaneInv, OrderInv, MentionedExist, CreatedIsNew, ShownNotAhead,
                AnswersNotAhead, AnswersNotBehind, Mentioned, NotAhead
  <2>4. QED
    BY <2>1, <2>2, <2>3, SameIsOnward DEF PaneInv
<1>11. QED
  BY <1>2, <1>3, <1>4, <1>5, <1>6, <1>7, <1>8, <1>9, <1>10
     DEF Next, Answers, Continues, Clicks, Browser

\* However renders, timers, answers, clicks and the network interleave, the page keeps
\* its effects, requests and state in order.
THEOREM PaneAlwaysOK == Spec => []PaneInv
<1>1. QED
  BY PaneInitially, PaneStep, PTL DEF Spec

\* A shown run that still runs keeps being read: the poll effect is on for that very run
\* and, on a visible page, has a timer set or a request under way.
THEOREM PollingArmedAlways == Spec => []PollingArmed
<1>1. PaneInv => PollingArmed
  <2> SUFFICES ASSUME PaneInv, ~Dirty, page.online,
                      ui.run.status \in Active, ui.failures < Exhausted
               PROVE  /\ polled.run = ui.run.id
                      /\ page.visible => polled.timer \/ By("poll", requests) # {}
    BY DEF PollingArmed
  <2>1. /\ ui = seen.ui /\ ~ui.fresh /\ ~ui.offline /\ ui \in States
    BY DEF Dirty, PaneInv, EffectInv, EffectOK, TypeOK
  <2>2. polled.run = ui.run.id
    BY <2>1 DEF PaneInv, EffectInv, EffectOK
  <2>3. ui.run # NoRun /\ ui.run.id # None /\ ui.failures \in Nat
    BY <2>1, RunsAreRecords, Ranks, RunNumbers DEF States
  <2>4. ~Stale
    BY <2>1, <2>3 DEF Stale, Renewed
  <2>5. page.visible => polled.timer \/ \E r \in requests : r.by = "poll"
    BY <2>2, <2>3, <2>4 DEF PaneInv, EffectInv, Armed
  <2>6. QED
    BY <2>2, <2>5 DEF By
<1>2. QED
  BY <1>1, PaneAlwaysOK, PTL

\* However hiding, reconnecting, launching and restoring interleave, the page waits for at
\* most one poll, one restoration and one launch.
THEOREM OneRequestOfAKindAlways == Spec => []OneRequestOfAKind
<1>1. PaneInv => OneRequestOfAKind
  BY DEF PaneInv, EffectInv, OneOfAKind, OneRequestOfAKind
<1>2. QED
  BY <1>1, PaneAlwaysOK, PTL

\* The status shown of a run never goes back, whatever was hidden, aborted or restored
\* meanwhile.
THEOREM ShownNeverGoesBackAlways == Spec => ShownNeverGoesBack
<1>1. PaneInv /\ [Next]_vars =>
         [ui.run.id # None /\ ui'.run.id = ui.run.id
            => Rank(ui.run.status) <= Rank(ui'.run.status)]_vars
  BY PaneStep DEF Onward
<1>2. QED
  BY <1>1, PaneAlwaysOK, PTL DEF Spec, ShownNeverGoesBack

=============================================================================
