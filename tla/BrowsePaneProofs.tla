---------------------------- MODULE BrowsePaneProofs ----------------------------
(***************************************************************************)
(* Proofs, for every catalogue, every set of queries, links and report     *)
(* files and any number of clicks: address, choice, selection and preview  *)
(* of the dashboard agree, and a comparison accounts for what it compares. *)
(***************************************************************************)
EXTENDS BrowsePane, FiniteSetTheorems, WellFoundedInduction, TLAPS

-----------------------------------------------------------------------------
(* The inductive invariant.                                                *)

Choices == [filter : Categories, search : Queries, sort : Words]
Ids == Scenarios \union {NoId}
States ==
    [filter : Categories, search : Queries, sort : Words, selected : Ids, preview : Ids,
     shown : Ids, previewLoading : BOOLEAN, previewError : BOOLEAN,
     scenarios : SUBSET Scenarios, loading : BOOLEAN, catalogueError : BOOLEAN]
Requests == [by : {"catalogue", "restore", "preview"}, id : Ids]

TypeOK ==
    /\ ui \in States
    /\ seen \in [ui : States, url : Addresses \union {Unread}]
    /\ prev \in Choices
    /\ page \in [url : Addresses, nav : SUBSET Addresses, behind : Addresses]
    /\ requests \subseteq Requests
    /\ \A r \in requests : r.by = "restore" => r.id \in Scenarios
    /\ compare \in [open : BOOLEAN, loaded : [1 .. 2 -> SUBSET Reports],
                    refused : [1 .. 2 -> BOOLEAN],
                    reading : SUBSET ((1 .. 2) \X (SUBSET Reports))]
    /\ crossed \in BOOLEAN /\ overtaken \subseteq Scenarios

\* The choice last written to the address is the one on screen.
WrittenIsSeen == prev = Choice(seen.ui)

\* An address still to be read meets a settled choice, and neither it nor a choice still
\* to be rendered a navigation; else the address, or what it is about to be, is the choice.
Agreement ==
    ~crossed =>
      /\ page.url # seen.url => Choice(ui) = Choice(seen.ui)
      /\ page.url # seen.url \/ Choice(ui) # Choice(seen.ui) => page.nav = {}
      /\ page.url = seen.url /\ Choice(ui) = Choice(seen.ui) =>
            IF page.nav = {} THEN Written(Read(page.url)) = Written(Choice(ui))
            ELSE page.nav = {Written(Choice(ui))}

\* What the selection effect makes of the state of a render, and what it is run for.
Kept(state) == KeepsSelection(state, state).selected
Settled(state, id) == id \in Visible(state) \/ (Visible(state) = {} /\ id = NoId)

\* The selection suits the last render, or was overtaken, or the effect is due for it.
SelectionKept ==
    \/ Settled(seen.ui, ui.selected) \/ ui.selected \in overtaken
    \/ ui.selected # seen.ui.selected

\* Only the preview on screen is asked for, and until its answer the panel says so.
PreviewKept ==
    /\ ui.preview = seen.ui.preview
    /\ \A r \in requests : r.by = "preview" => r.id = ui.preview /\ r.id # NoId
    /\ ui.preview # NoId => ui.previewLoading \/ ui.previewError \/ ui.shown = ui.preview

BrowseInv ==
    /\ TypeOK /\ WrittenIsSeen /\ Agreement /\ SelectionKept /\ PreviewKept

-----------------------------------------------------------------------------
(* Addresses, visible cards, and the first of them.                        *)

\* What is written is read back, and writing it again changes nothing.
LEMMA AddressFacts ==
  /\ \A c \in Choices : /\ Written(c) \in Addresses /\ Read(Written(c)) = Written(c)
                        /\ Written(Written(c)) = Written(c)
  /\ \A a \in Addresses : Read(a) \in Choices
<1>1. Categories \subseteq Words /\ "all" \in Categories
  BY DEF Categories, Words
<1>2. ASSUME NEW c \in Choices
      PROVE  /\ Written(c) \in Choices /\ Written(c) \in Addresses
             /\ Read(Written(c)) = Written(c) /\ Written(Written(c)) = Written(c)
  <2>1. PICK w : w = Written(c)
    OBVIOUS
  <2>2. w \in Choices /\ w.search = Trim[c.search]
    BY <2>1, BrowseAssumption DEF Written, Choices
  <2>3. [w EXCEPT !.search = Trim[@]] = w
    BY <2>2, BrowseAssumption DEF Choices
  <2>4. [w EXCEPT !.filter = parseCategory(@)] = w
    BY <2>2 DEF Choices, parseCategory
  <2>5. w \in Addresses
    BY <1>1, <2>2 DEF Choices, Addresses
  <2>6. QED
    BY <2>1, <2>2, <2>3, <2>4, <2>5 DEF Written, Read
<1>3. ASSUME NEW a \in Addresses
      PROVE  Read(a) \in Choices
  <2>1. parseCategory(a.filter) \in Categories
    BY <1>1 DEF parseCategory
  <2>2. QED
    BY <2>1 DEF Read, Addresses, Choices
<1>4. QED
  BY <1>2, <1>3

\* States that are equal but for other fields offer the same choice.
LEMMA ChoiceFacts ==
  ASSUME NEW state \in States
  PROVE  /\ Choice(state) \in Choices
         /\ \A c \in Choices : Choice(state) = c <=> /\ state.filter = c.filter
                                                     /\ state.search = c.search
                                                     /\ state.sort = c.sort
<1>1. PICK f \in Categories : f = state.filter
  BY DEF States
<1>2. PICK q \in Queries : q = state.search
  BY DEF States
<1>3. PICK o \in Words : o = state.sort
  BY DEF States
<1>4. Choice(state) = [filter |-> f, search |-> q, sort |-> o]
  BY <1>1, <1>2, <1>3 DEF Choice
<1>5. [filter |-> f, search |-> q, sort |-> o] \in Choices
  BY DEF Choices
<1>6. \A c \in Choices : c = [filter |-> c.filter, search |-> c.search, sort |-> c.sort]
  BY DEF Choices
<1>7. QED
  BY <1>1, <1>2, <1>3, <1>4, <1>5, <1>6

LEMMA VisibleFacts ==
  ASSUME NEW state \in States
  PROVE  /\ Visible(state) \subseteq Scenarios /\ IsFiniteSet(Visible(state))
         /\ \A s \in Visible(state) : s \in Nat /\ s # NoId /\ NameRank[s] \in Nat
<1>1. Visible(state) \subseteq Scenarios
  BY DEF Visible, States
<1>2. QED
  BY <1>1, BrowseAssumption, FS_Subset

\* Whatever the order, the cards that are visible have a first one.
LEMMA FirstVisible ==
  ASSUME NEW state \in States, Visible(state) # {}
  PROVE  First(state) \in Visible(state)
<1> DEFINE V == Visible(state)
           Less(s, t) == Before(s, t, state.sort)
           Ahead(s) == {t \in V : Less(t, s)}
           Segments == {Ahead(s) : s \in V}
           R == StrictSubsetOrdering(V)
<1>1. IsFiniteSet(V) /\ V # {} /\ \A s \in V : s \in Nat /\ NameRank[s] \in Nat
  BY VisibleFacts
<1>2. \A s, t \in V : s = t \/ Less(s, t) \/ Less(t, s)
  BY <1>1 DEF Before
<1>3. \A s \in V : ~Less(s, s)
  BY <1>1 DEF Before
<1>4. \A s, t, v \in V : Less(s, t) /\ Less(t, v) => Less(s, v)
  BY <1>1 DEF Before
<1> HIDE DEF V, Less
<1>5. Segments \subseteq FiniteSubsetsOf(V) /\ Segments # {}
  <2>1. FiniteSubsetsOf(V) = SUBSET V
    BY <1>1, FS_FiniteSubsetsOfFinite
  <2>2. Segments \subseteq SUBSET V /\ Segments # {}
    BY <1>1
  <2>3. QED
    BY <2>1, <2>2
<1>6. IsWellFoundedOn(R, FiniteSubsetsOf(V))
  BY <1>1, FS_StrictSubsetOrderingWellFounded
<1> HIDE DEF R
<1>7. PICK D \in Segments : \A E \in Segments : <<E, D>> \notin R
  <2> HIDE DEF Segments
  <2>1. QED
    BY <1>5, <1>6, WFMin
<1>8. PICK s \in V : D = Ahead(s)
  BY <1>7
<1>9. ASSUME NEW t \in V, Less(t, s)
      PROVE  FALSE
  <2>1. t \in Ahead(s) /\ t \notin Ahead(t)
    BY <1>3, <1>9
  <2>2. Ahead(t) \subseteq Ahead(s)
    BY <1>4, <1>9
  <2>3. <<Ahead(t), Ahead(s)>> \in R
    BY <2>1, <2>2 DEF R, StrictSubsetOrdering
  <2>4. QED
    BY <1>7, <1>8, <2>3
<1>10. \A t \in V \ {s} : Less(s, t)
  BY <1>2, <1>9
<1>11. \E v \in Visible(state) : \A t \in Visible(state) \ {v} : Before(v, t, state.sort)
  BY <1>10 DEF V, Less
<1>12. QED
  BY <1>11 DEF First

\* Where the selection effect runs it leaves a visible selection, if anything is visible.
LEMMA KeptFacts ==
  ASSUME NEW state \in States
  PROVE  /\ Kept(state) \in Ids
         /\ IF SelectionDue(state) THEN Settled(state, Kept(state))
            ELSE Kept(state) = state.selected
<1>1. [state EXCEPT !.selected = NoId].selected = NoId
  BY DEF States
<1>2. [state EXCEPT !.selected = First(state)].selected = First(state)
  BY DEF States
<1>3. Kept(state) = IF ~SelectionDue(state) \/ state.selected \in Visible(state) THEN state.selected
                    ELSE IF Visible(state) = {} THEN NoId ELSE First(state)
  BY <1>1, <1>2 DEF Kept, KeepsSelection
<1>4. Visible(state) # {} => First(state) \in Visible(state)
  BY FirstVisible
<1>5. state.selected \in Ids
  BY DEF States
<1>6. QED
  BY <1>3, <1>4, <1>5, VisibleFacts DEF Ids, Settled

-----------------------------------------------------------------------------
(* A render and its effects.                                               *)

\* What the effects of a render make of the state it commits.
LEMMA EffectFacts ==
  ASSUME TypeOK, NEW state \in States, Commit(state)
  PROVE  LET others == {r \in requests : r.by # "preview"}
         IN  /\ ui' \in States
             /\ Choice(ui') = IF page.url = seen.url THEN Choice(state) ELSE Read(page.url)
             /\ ui'.selected = Kept(state) /\ ui'.preview = state.preview
             /\ state.preview = seen.ui.preview =>
                  /\ requests' = requests /\ ui'.shown = state.shown
                  /\ ui'.previewLoading = state.previewLoading
                  /\ ui'.previewError = state.previewError
             /\ state.preview # seen.ui.preview /\ state.preview = NoId => requests' = others
             /\ state.preview # seen.ui.preview /\ state.preview # NoId =>
                  /\ requests' = others \union {[by |-> "preview", id |-> state.preview]}
                  /\ ui'.previewLoading
<1> DEFINE others == {r \in requests : r.by # "preview"}
<1>1. PICK a : a = Read(page.url)
  OBVIOUS
<1>2. a \in Choices
  BY <1>1, AddressFacts DEF TypeOK
<1>3. PICK read : read = ReadsAddress(state)
  OBVIOUS
<1>4. /\ read \in States
      /\ Choice(read) = IF page.url = seen.url THEN Choice(state) ELSE a
      /\ read.selected = state.selected /\ read.preview = state.preview
      /\ read.shown = state.shown /\ read.previewLoading = state.previewLoading
      /\ read.previewError = state.previewError
  <2>1. CASE page.url = seen.url
    BY <1>3, <2>1 DEF ReadsAddress
  <2>2. CASE page.url # seen.url
    <3>1. PICK s1 \in States : s1 = [state EXCEPT !.filter = a.filter]
      BY <1>2 DEF States, Choices
    <3>2. PICK s2 \in States : s2 = [s1 EXCEPT !.search = a.search]
      BY <1>2 DEF States, Choices
    <3>3. PICK s3 \in States : s3 = [s2 EXCEPT !.sort = a.sort]
      BY <1>2 DEF States, Choices
    <3>4. read = [state EXCEPT !.filter = a.filter, !.search = a.search, !.sort = a.sort]
      BY <1>1, <1>3, <2>2 DEF ReadsAddress
    <3>5. read = s3
      BY <3>1, <3>2, <3>3, <3>4
    <3>6. /\ s3.filter = a.filter /\ s3.search = a.search /\ s3.sort = a.sort
          /\ s3.selected = state.selected /\ s3.preview = state.preview
          /\ s3.shown = state.shown /\ s3.previewLoading = state.previewLoading
          /\ s3.previewError = state.previewError
      BY <3>1, <3>2, <3>3 DEF States
    <3>7. Choice(s3) = a
      BY <1>2, <3>6, ChoiceFacts
    <3>8. QED
      BY <2>2, <3>5, <3>6, <3>7
  <2>3. QED
    BY <2>1, <2>2
<1>5. PICK kept : kept = KeepsSelection(state, read)
  OBVIOUS
<1>6. /\ kept \in States /\ Choice(kept) = Choice(read)
      /\ kept.selected = Kept(state) /\ kept.preview = state.preview
      /\ kept.shown = state.shown /\ kept.previewLoading = state.previewLoading
      /\ kept.previewError = state.previewError
  <2>1. ASSUME NEW i \in Ids
        PROVE  LET s == [read EXCEPT !.selected = i]
               IN  /\ s \in States /\ Choice(s) = Choice(read) /\ s.selected = i
                   /\ s.preview = state.preview /\ s.shown = state.shown
                   /\ s.previewLoading = state.previewLoading
                   /\ s.previewError = state.previewError
                   /\ [state EXCEPT !.selected = i].selected = i
    BY <1>4 DEF States, Choice
  <2>2. CASE ~SelectionDue(state) \/ state.selected \in Visible(state)
    BY <1>4, <1>5, <2>2 DEF KeepsSelection, Kept
  <2>3. CASE SelectionDue(state) /\ state.selected \notin Visible(state) /\ Visible(state) = {}
    BY <1>5, <2>1, <2>3 DEF KeepsSelection, Kept, Ids
  <2>4. CASE SelectionDue(state) /\ state.selected \notin Visible(state) /\ Visible(state) # {}
    <3>1. First(state) \in Ids
      BY <2>4, FirstVisible, VisibleFacts DEF Ids
    <3>2. QED
      BY <1>5, <2>1, <2>4, <3>1 DEF KeepsSelection, Kept
  <2>5. QED
    BY <2>2, <2>3, <2>4
<1>7. LoadsPreviewBeside(state, kept, others)
  BY <1>3, <1>5 DEF Commit, LoadsPreview
<1>8. CASE state.preview = seen.ui.preview
  <2>1. ui' = kept /\ requests' = requests
    BY <1>7, <1>8 DEF LoadsPreviewBeside
  <2>2. QED
    BY <1>1, <1>4, <1>6, <1>8, <2>1
<1>9. CASE state.preview # seen.ui.preview /\ state.preview = NoId
  <2>1. ui' = [kept EXCEPT !.shown = NoId, !.previewError = FALSE] /\ requests' = others
    BY <1>7, <1>9 DEF LoadsPreviewBeside
  <2>2. PICK s1 \in States : s1 = [kept EXCEPT !.shown = NoId]
    BY <1>6 DEF States, Ids
  <2>3. ui' = [s1 EXCEPT !.previewError = FALSE]
    BY <2>1, <2>2
  <2>4. /\ ui' \in States /\ ui'.filter = kept.filter /\ ui'.search = kept.search
        /\ ui'.sort = kept.sort /\ ui'.selected = kept.selected /\ ui'.preview = kept.preview
    BY <1>6, <2>2, <2>3 DEF States
  <2>5. Choice(ui') = Choice(kept)
    BY <2>4 DEF Choice
  <2>6. QED
    BY <1>1, <1>4, <1>6, <1>9, <2>1, <2>4, <2>5
<1>10. CASE state.preview # seen.ui.preview /\ state.preview # NoId
  <2>1. /\ ui' = [kept EXCEPT !.previewLoading = TRUE, !.previewError = FALSE]
        /\ requests' = others \union {[by |-> "preview", id |-> state.preview]}
    BY <1>7, <1>10 DEF LoadsPreviewBeside
  <2>2. PICK s1 \in States : s1 = [kept EXCEPT !.previewLoading = TRUE]
    BY <1>6 DEF States
  <2>3. ui' = [s1 EXCEPT !.previewError = FALSE]
    BY <2>1, <2>2
  <2>4. /\ ui' \in States /\ ui'.filter = kept.filter /\ ui'.search = kept.search
        /\ ui'.sort = kept.sort /\ ui'.selected = kept.selected /\ ui'.preview = kept.preview
        /\ ui'.previewLoading
    BY <1>6, <2>2, <2>3 DEF States
  <2>5. Choice(ui') = Choice(kept)
    BY <2>4 DEF Choice
  <2>6. QED
    BY <1>1, <1>4, <1>6, <1>10, <2>1, <2>4, <2>5
<1>11. QED
  BY <1>8, <1>9, <1>10

\* A render keeps the invariant if it commits the state, or a click on it that chooses
\* something else only where nothing is being taken over, and selects only a card on screen.
LEMMA CommitStep ==
  ASSUME BrowseInv, NEW state \in States, Commit(state), UNCHANGED compare,
         crossed' \in BOOLEAN,
         ~crossed' => ~crossed /\ (Choice(state) = Choice(ui) \/ ~TakingOver),
         state.selected = ui.selected \/ state.selected \in Cards,
         state.shown = ui.shown, state.previewLoading = ui.previewLoading,
         state.previewError = ui.previewError
  PROVE  BrowseInv'
<1> DEFINE others == {r \in requests : r.by # "preview"}
<1>1. TypeOK /\ WrittenIsSeen /\ Agreement /\ SelectionKept /\ PreviewKept
  BY DEF BrowseInv
<1>2. /\ ui' \in States
      /\ Choice(ui') = IF page.url = seen.url THEN Choice(state) ELSE Read(page.url)
      /\ ui'.selected = Kept(state) /\ ui'.preview = state.preview
      /\ state.preview = seen.ui.preview =>
           /\ requests' = requests /\ ui'.shown = state.shown
           /\ ui'.previewLoading = state.previewLoading
           /\ ui'.previewError = state.previewError
      /\ state.preview # seen.ui.preview /\ state.preview = NoId => requests' = others
      /\ state.preview # seen.ui.preview /\ state.preview # NoId =>
           /\ requests' = others \union {[by |-> "preview", id |-> state.preview]}
           /\ ui'.previewLoading
  BY <1>1, EffectFacts
<1>3. /\ page'.url = page.url /\ page'.nav = WritesAddress(state) /\ page'.behind = page.behind
      /\ prev' = Choice(state)
      /\ seen' = [ui |-> state, url |-> page.url]
      /\ seen'.ui = state /\ seen'.url = page.url
  BY <1>1 DEF Commit, TypeOK
<1>4. PICK c \in Choices : c = Choice(state)
  BY ChoiceFacts
<1>5. WritesAddress(state) = IF c # prev THEN {Written(c)} ELSE page.nav
  BY <1>4 DEF WritesAddress
<1>6. TypeOK'
  <2>1. page' \in [url : Addresses, nav : SUBSET Addresses, behind : Addresses]
    <3>1. WritesAddress(state) \in SUBSET Addresses
      BY <1>1, <1>5, AddressFacts DEF TypeOK
    <3>2. page' = [page EXCEPT !.nav = WritesAddress(state)]
      BY DEF Commit
    <3>3. QED
      BY <1>1, <3>1, <3>2 DEF TypeOK
  <2>2. requests' \subseteq Requests /\ \A r \in requests' : r.by = "restore" => r.id \in Scenarios
    <3>1. state.preview \in Ids
      BY DEF States
    <3>2. PICK q : q = [by |-> "preview", id |-> state.preview]
      OBVIOUS
    <3>3. q \in Requests /\ q.by = "preview"
      BY <3>1, <3>2 DEF Requests
    <3>4. requests' \subseteq requests \union {q}
      BY <1>2, <3>2
    <3>5. QED
      BY <1>1, <3>3, <3>4 DEF TypeOK
  <2>3. seen' \in [ui : States, url : Addresses \union {Unread}]
    BY <1>1, <1>3 DEF TypeOK
  <2>4. prev' \in Choices
    BY <1>3, <1>4
  <2>5. overtaken' \subseteq Scenarios
    BY <1>1 DEF Commit, TypeOK
  <2>6. QED
    BY <1>1, <1>2, <2>1, <2>2, <2>3, <2>4, <2>5 DEF TypeOK
<1>7. WrittenIsSeen'
  BY <1>3 DEF WrittenIsSeen
<1>8. Agreement'
  <2>1. SUFFICES ASSUME ~crossed'
                 PROVE  /\ page'.url = seen'.url
                        /\ Choice(ui') # Choice(seen'.ui) => page'.nav = {}
                        /\ Choice(ui') = Choice(seen'.ui) =>
                             IF page'.nav = {} THEN Written(Read(page'.url)) = Written(Choice(ui'))
                             ELSE page'.nav = {Written(Choice(ui'))}
    BY DEF Agreement
  <2>2. PICK d : d = Choice(ui)
    OBVIOUS
  <2>3. ~crossed /\ (c = d \/ (page.url = seen.url /\ d = prev))
    BY <1>1, <1>4, <2>1, <2>2 DEF TakingOver, WrittenIsSeen
  <2>4. /\ page.url # seen.url => d = prev
        /\ page.url # seen.url \/ d # prev => page.nav = {}
        /\ page.url = seen.url /\ d = prev =>
             IF page.nav = {} THEN Written(Read(page.url)) = Written(d)
             ELSE page.nav = {Written(d)}
    BY <1>1, <2>2, <2>3 DEF Agreement, WrittenIsSeen
  <2>5. page'.url = seen'.url /\ Choice(seen'.ui) = c /\ page'.nav = IF c # prev THEN {Written(c)} ELSE page.nav
    BY <1>3, <1>4, <1>5
  <2>6. CASE page.url # seen.url
    <3>1. c = prev /\ page.nav = {} /\ page'.nav = {}
      BY <2>3, <2>4, <2>5, <2>6
    <3>2. Choice(ui') = Read(page.url)
      BY <1>2, <2>6
    <3>3. Choice(ui') = c => Written(Read(page'.url)) = Written(Choice(ui'))
      BY <1>3, <3>2
    <3>4. QED
      BY <2>5, <3>1, <3>3
  <2>7. CASE page.url = seen.url
    <3>1. Choice(ui') = c
      BY <1>2, <1>4, <2>7
    <3>2. c # prev => page'.nav = {Written(c)}
      BY <2>5
    <3>3. c = prev => d = prev /\ page'.nav = page.nav
      BY <2>3, <2>5
    <3>4. QED
      BY <1>3, <2>4, <2>5, <2>7, <3>1, <3>2, <3>3
  <2>8. QED
    BY <2>6, <2>7
<1>9. SelectionKept'
  <2>1. overtaken' = IF SelectionDue(state) THEN {} ELSE overtaken
    BY DEF Commit
  <2>2. PICK i : i = ui'.selected
    OBVIOUS
  <2>3. SUFFICES Settled(state, i) \/ i \in overtaken'
    BY <1>3, <2>2 DEF SelectionKept, Settled, Visible
  <2>4. CASE SelectionDue(state)
    BY <1>2, <2>2, <2>4, KeptFacts
  <2>5. CASE ~SelectionDue(state)
    <3>1. i = state.selected /\ i = seen.ui.selected
      BY <1>2, <2>2, <2>5, KeptFacts DEF SelectionDue
    <3>2. Visible(state) = Visible(seen.ui)
      <4>1. state.filter = seen.ui.filter /\ state.search = seen.ui.search
        BY <2>5 DEF SelectionDue, Choice
      <4>2. QED
        BY <2>5, <4>1 DEF SelectionDue, Visible
    <3>3. CASE state.selected = ui.selected
      BY <1>1, <2>1, <2>5, <3>1, <3>2, <3>3 DEF SelectionKept, Settled
    <3>4. CASE state.selected \in Cards
      BY <3>1, <3>2, <3>4 DEF Cards, Settled
    <3>5. QED
      BY <3>3, <3>4
  <2>6. QED
    BY <2>4, <2>5
<1>10. PreviewKept'
  <2>1. ui'.preview = seen'.ui.preview
    BY <1>2, <1>3
  <2>2. CASE state.preview = seen.ui.preview
    BY <1>1, <1>2, <2>1, <2>2 DEF PreviewKept
  <2>3. CASE state.preview # seen.ui.preview /\ state.preview = NoId
    BY <1>2, <2>1, <2>3 DEF PreviewKept
  <2>4. CASE state.preview # seen.ui.preview /\ state.preview # NoId
    <3>1. \A r \in requests' : r.by = "preview" => r.id = state.preview
      BY <1>2, <2>4
    <3>2. QED
      BY <1>2, <2>1, <2>4, <3>1 DEF PreviewKept
  <2>5. QED
    BY <2>2, <2>3, <2>4
<1>11. QED
  BY <1>6, <1>7, <1>8, <1>9, <1>10 DEF BrowseInv

-----------------------------------------------------------------------------
(* The steps.                                                              *)

LEMMA BrowseInitially == Init => BrowseInv
<1> SUFFICES ASSUME Init PROVE BrowseInv
  OBVIOUS
<1>1. PICK link \in Links :
         /\ page = [url |-> link, nav |-> {}, behind |-> link]
         /\ ui = [filter |-> parseCategory(link.filter), search |-> "",
                  sort |-> "name-asc", selected |-> NoId, preview |-> NoId,
                  shown |-> NoId, previewLoading |-> FALSE, previewError |-> FALSE,
                  scenarios |-> {}, loading |-> TRUE, catalogueError |-> FALSE]
         /\ prev = Choice(ui)
  BY DEF Init
<1>2. link \in Addresses /\ link # Unread
  BY BrowseAssumption
<1>3. ui \in States
  <2>1. parseCategory(link.filter) \in Categories
    BY DEF parseCategory, Categories
  <2>2. "name-asc" \in Words
    BY DEF Words, Orders
  <2>3. QED
    BY <1>1, <2>1, <2>2, BrowseAssumption DEF States, Ids
<1>4. seen = [ui |-> ui, url |-> Unread] /\ crossed = FALSE /\ overtaken = {}
  BY DEF Init
<1>5. requests \subseteq Requests /\ \A r \in requests : r.by # "preview" /\ (r.by = "restore" => r.id \in Scenarios)
  <2>1. PICK s \in Scenarios :
          requests = {[by |-> "catalogue", id |-> NoId], [by |-> "restore", id |-> s]}
    BY DEF Init
  <2>2. QED
    BY <2>1 DEF Requests, Ids
<1>6. TypeOK
  <2>1. page \in [url : Addresses, nav : SUBSET Addresses, behind : Addresses]
    BY <1>1, <1>2
  <2>2. prev \in Choices
    BY <1>1, <1>3, ChoiceFacts
  <2>3. compare \in [open : BOOLEAN, loaded : [1 .. 2 -> SUBSET Reports],
                     refused : [1 .. 2 -> BOOLEAN], reading : SUBSET ((1 .. 2) \X (SUBSET Reports))]
    BY DEF Init
  <2>4. seen \in [ui : States, url : Addresses \union {Unread}]
    BY <1>3, <1>4
  <2>5. QED
    BY <1>3, <1>4, <1>5, <2>1, <2>2, <2>3, <2>4 DEF TypeOK
<1>7. seen.ui = ui /\ seen.url = Unread /\ page.url = link /\ page.nav = {}
  BY <1>1, <1>4
<1>8. WrittenIsSeen
  BY <1>1, <1>7 DEF WrittenIsSeen
<1>9. Agreement
  BY <1>2, <1>7 DEF Agreement
<1>10. SelectionKept
  <2>1. Visible(ui) = {} /\ ui.selected = NoId
    BY <1>1 DEF Visible
  <2>2. QED
    BY <1>7, <2>1 DEF SelectionKept, Settled
<1>11. PreviewKept
  <2>1. ui.preview = NoId
    BY <1>1
  <2>2. QED
    BY <1>5, <1>7, <2>1 DEF PreviewKept
<1>12. QED
  BY <1>6, <1>8, <1>9, <1>10, <1>11 DEF BrowseInv

LEMMA RenderStep == BrowseInv /\ Render => BrowseInv'
<1> SUFFICES ASSUME BrowseInv, Render PROVE BrowseInv'
  OBVIOUS
<1>1. ui \in States /\ crossed \in BOOLEAN
  BY DEF BrowseInv, TypeOK
<1>2. Commit(ui) /\ UNCHANGED <<compare, crossed>>
  BY DEF Render
<1>3. QED
  BY <1>1, <1>2, CommitStep

\* A click commits another choice, unless something is being taken over (crossed), or
\* another selection or preview.
LEMMA ClickStep ==
  ASSUME BrowseInv, ChooseFilter \/ TypeSearch \/ ChooseSort \/ SelectCard \/ TogglePreview \/ ClosePreview
  PROVE  BrowseInv'
<1>1. TypeOK /\ ui \in States /\ seen.ui \in States /\ crossed \in BOOLEAN
  BY DEF BrowseInv, TypeOK
<1>2. ASSUME NEW state \in States, Choose(state), state.selected = ui.selected,
             state.shown = ui.shown, state.previewLoading = ui.previewLoading,
             state.previewError = ui.previewError
      PROVE  BrowseInv'
  <2>1. Commit(state) /\ UNCHANGED compare /\ crossed' = (crossed \/ TakingOver)
    BY <1>2 DEF Choose, Click
  <2>2. TakingOver \in BOOLEAN
    BY DEF TakingOver
  <2>3. crossed' \in BOOLEAN /\ (~crossed' => ~crossed /\ ~TakingOver)
    BY <1>1, <2>1, <2>2
  <2>4. QED
    BY <1>2, <2>1, <2>3, CommitStep
<1>3. ASSUME NEW state \in States, Click(state), UNCHANGED crossed,
             Choice(state) = Choice(ui), state.selected = ui.selected \/ state.selected \in Cards,
             state.shown = ui.shown, state.previewLoading = ui.previewLoading,
             state.previewError = ui.previewError
      PROVE  BrowseInv'
  <2>1. Commit(state) /\ UNCHANGED compare
    BY <1>3 DEF Click
  <2>2. QED
    BY <1>1, <1>3, <2>1, CommitStep
<1>4. CASE ChooseFilter
  <2>1. PICK f \in Categories : Choose([ui EXCEPT !.filter = f])
    BY <1>4 DEF ChooseFilter
  <2>2. PICK state : state = [ui EXCEPT !.filter = f]
    OBVIOUS
  <2>3. /\ state \in States /\ state.shown = ui.shown
        /\ state.previewLoading = ui.previewLoading /\ state.previewError = ui.previewError
        /\ state.selected = ui.selected
    BY <1>1, <2>2 DEF States
  <2>4. QED
    BY <1>2, <2>1, <2>2, <2>3
<1>5. CASE TypeSearch
  <2>1. PICK q \in Queries : Choose([ui EXCEPT !.search = q])
    BY <1>5 DEF TypeSearch
  <2>2. PICK state : state = [ui EXCEPT !.search = q]
    OBVIOUS
  <2>3. /\ state \in States /\ state.shown = ui.shown
        /\ state.previewLoading = ui.previewLoading /\ state.previewError = ui.previewError
        /\ state.selected = ui.selected
    BY <1>1, <2>2 DEF States
  <2>4. QED
    BY <1>2, <2>1, <2>2, <2>3
<1>6. CASE ChooseSort
  <2>1. PICK o \in Orders : Choose([ui EXCEPT !.sort = o])
    BY <1>6 DEF ChooseSort
  <2>2. PICK state : state = [ui EXCEPT !.sort = o]
    OBVIOUS
  <2>3. o \in Words
    BY DEF Words
  <2>4. /\ state \in States /\ state.shown = ui.shown
        /\ state.previewLoading = ui.previewLoading /\ state.previewError = ui.previewError
        /\ state.selected = ui.selected
    BY <1>1, <2>2, <2>3 DEF States
  <2>5. QED
    BY <1>2, <2>1, <2>2, <2>4
<1>7. Cards \subseteq Ids
  BY <1>1, VisibleFacts DEF Cards, Ids
<1>8. CASE SelectCard
  <2>1. PICK s \in Cards : Click([ui EXCEPT !.selected = s]) /\ UNCHANGED crossed
    BY <1>8 DEF SelectCard
  <2>2. PICK state : state = [ui EXCEPT !.selected = s]
    OBVIOUS
  <2>3. /\ state \in States /\ state.shown = ui.shown /\ Choice(state) = Choice(ui)
        /\ state.previewLoading = ui.previewLoading /\ state.previewError = ui.previewError
        /\ state.selected = s
    BY <1>1, <1>7, <2>2 DEF States, Choice
  <2>4. QED
    BY <1>3, <2>1, <2>2, <2>3
<1>9. ASSUME NEW i \in Ids, Click([ui EXCEPT !.preview = i]), UNCHANGED crossed
      PROVE  BrowseInv'
  <2>1. PICK state : state = [ui EXCEPT !.preview = i]
    OBVIOUS
  <2>2. /\ state \in States /\ state.shown = ui.shown /\ Choice(state) = Choice(ui)
        /\ state.previewLoading = ui.previewLoading /\ state.previewError = ui.previewError
        /\ state.selected = ui.selected
    BY <1>1, <2>1 DEF States, Choice
  <2>3. QED
    BY <1>3, <1>9, <2>1, <2>2
<1>10. NoId \in Ids
  BY DEF Ids
<1>11. CASE TogglePreview
  <2>1. PICK s \in Cards : /\ Click([ui EXCEPT !.preview = IF seen.ui.preview = s THEN NoId ELSE s])
                           /\ UNCHANGED crossed
    BY <1>11 DEF TogglePreview
  <2>2. PICK i : i = IF seen.ui.preview = s THEN NoId ELSE s
    OBVIOUS
  <2>3. i \in Ids
    BY <1>7, <1>10, <2>2
  <2>4. QED
    BY <1>9, <2>1, <2>2, <2>3
<1>12. CASE ClosePreview
  BY <1>9, <1>10, <1>12 DEF ClosePreview
<1>13. QED
  BY <1>4, <1>5, <1>6, <1>8, <1>11, <1>12

LEMMA NavigationStep ==
  ASSUME BrowseInv, NavigationCommits \/ GoBack
  PROVE  BrowseInv'
<1>1. TypeOK /\ WrittenIsSeen /\ Agreement /\ SelectionKept /\ PreviewKept
  BY DEF BrowseInv
<1>2. PICK c \in Choices : c = Choice(ui)
  BY <1>1, ChoiceFacts DEF TypeOK
<1>3. UNCHANGED <<ui, seen, prev, requests, compare, overtaken>> /\ (~crossed' => ~crossed) /\ crossed' \in BOOLEAN
  <2>1. TakingOver \in BOOLEAN
    BY DEF TakingOver
  <2>2. CASE NavigationCommits
    BY <1>1, <2>2 DEF NavigationCommits, TypeOK
  <2>3. CASE GoBack
    BY <1>1, <2>1, <2>3 DEF GoBack, TypeOK
  <2>4. QED
    BY <2>2, <2>3
<1>4. PICK a \in Addresses : page' = [page EXCEPT !.url = a, !.nav = {}]
  <2>1. CASE NavigationCommits
    BY <1>1, <2>1 DEF NavigationCommits, TypeOK
  <2>2. CASE GoBack
    BY <1>1, <2>2 DEF GoBack, TypeOK
  <2>3. QED
    BY <2>1, <2>2
<1>5. page'.url = a /\ page'.nav = {} /\ page' \in [url : Addresses, nav : SUBSET Addresses, behind : Addresses]
  BY <1>1, <1>4 DEF TypeOK
<1>6. TypeOK'
  BY <1>1, <1>3, <1>5 DEF TypeOK
<1>7. PICK d : d = Choice(seen.ui)
  OBVIOUS
<1>8. Choice(ui') = c /\ Choice(seen'.ui) = d /\ seen'.url = seen.url
  BY <1>2, <1>3, <1>7
<1>9. ASSUME ~crossed'
      PROVE  c = d /\ (a = seen.url => Written(Read(a)) = Written(c))
  <2>1. /\ page.url # seen.url => c = d
        /\ page.url # seen.url \/ c # d => page.nav = {}
        /\ page.url = seen.url /\ c = d /\ page.nav # {} => page.nav = {Written(c)}
    BY <1>1, <1>2, <1>3, <1>7, <1>9 DEF Agreement
  <2>2. CASE NavigationCommits
    <3>1. PICK b \in page.nav : page' = [page EXCEPT !.url = b, !.nav = {}]
      BY <2>2 DEF NavigationCommits
    <3>2. a = b
      BY <1>1, <1>5, <3>1 DEF TypeOK
    <3>3. c = d /\ a = Written(c)
      BY <2>1, <3>1, <3>2
    <3>4. Written(Read(a)) = Written(c)
      BY <3>3, AddressFacts
    <3>5. QED
      BY <3>3, <3>4
  <2>3. CASE GoBack
    <3>1. ~TakingOver
      BY <1>9, <2>3 DEF GoBack
    <3>2. page.url = seen.url /\ c = d
      BY <1>2, <1>7, <3>1 DEF TakingOver
    <3>3. page.url # page.behind /\ page' = [page EXCEPT !.url = page.behind, !.nav = {}]
      BY <2>3 DEF GoBack
    <3>4. a = page.behind
      BY <1>1, <1>5, <3>3 DEF TypeOK
    <3>5. QED
      BY <3>2, <3>3, <3>4
  <2>4. QED
    BY <2>2, <2>3
<1>10. Agreement'
  BY <1>5, <1>8, <1>9 DEF Agreement
<1>11. WrittenIsSeen' /\ SelectionKept' /\ PreviewKept'
  <2>1. WrittenIsSeen' /\ PreviewKept'
    BY <1>1, <1>3 DEF WrittenIsSeen, PreviewKept
  <2>2. SelectionKept'
    BY <1>1, <1>3 DEF SelectionKept
  <2>3. QED
    BY <2>1, <2>2
<1>12. QED
  BY <1>6, <1>10, <1>11 DEF BrowseInv

\* What concerns neither address nor choice keeps their agreement.
LEMMA SameAgreement ==
  ASSUME Agreement, UNCHANGED <<page, prev>>, ~crossed' => ~crossed,
         Choice(ui') = Choice(ui), Choice(seen'.ui) = Choice(seen.ui), seen'.url = seen.url
  PROVE  Agreement'
BY DEF Agreement

\* The catalogue and the flags beside it do not touch choice, selection and preview.
LEMMA CatalogueFacts ==
  ASSUME NEW state \in States, NEW b \in BOOLEAN, NEW e \in BOOLEAN, NEW S \in SUBSET Scenarios
  PROVE  LET next == [state EXCEPT !.loading = b, !.scenarios = S]
             failed == [state EXCEPT !.loading = b, !.catalogueError = e]
         IN  /\ {next, failed} \subseteq States
             /\ \A s \in {next, failed} :
                  /\ Choice(s) = Choice(state) /\ s.selected = state.selected
                  /\ s.preview = state.preview /\ s.shown = state.shown
                  /\ s.previewLoading = state.previewLoading
                  /\ s.previewError = state.previewError
             /\ failed.filter = state.filter /\ failed.search = state.search
             /\ failed.sort = state.sort /\ failed.scenarios = state.scenarios
<1>1. PICK s1 \in States : s1 = [state EXCEPT !.loading = b]
  BY DEF States
<1>2. PICK s2 \in States : s2 = [s1 EXCEPT !.scenarios = S]
  BY DEF States
<1>3. PICK s3 \in States : s3 = [s1 EXCEPT !.catalogueError = e]
  BY DEF States
<1>4. /\ s2 = [state EXCEPT !.loading = b, !.scenarios = S]
      /\ s3 = [state EXCEPT !.loading = b, !.catalogueError = e]
  BY <1>1, <1>2, <1>3
<1>5. ASSUME NEW s \in {s2, s3}
      PROVE  /\ s.filter = state.filter /\ s.search = state.search /\ s.sort = state.sort
             /\ s.selected = state.selected
             /\ s.preview = state.preview /\ s.shown = state.shown
             /\ s.previewLoading = state.previewLoading
             /\ s.previewError = state.previewError
  <2>1. CASE s = s2
    BY <1>1, <1>2, <2>1 DEF States
  <2>2. CASE s = s3
    BY <1>1, <1>3, <2>2 DEF States
  <2>3. QED
    BY <2>1, <2>2
<1>6. \A s \in {s2, s3} : Choice(s) = Choice(state)
  BY <1>5 DEF Choice
<1>7. s3.scenarios = state.scenarios
  BY <1>1, <1>3 DEF States
<1>8. QED
  BY <1>4, <1>5, <1>6, <1>7

LEMMA CatalogueStep == BrowseInv /\ CatalogueAnswers => BrowseInv'
<1> SUFFICES ASSUME BrowseInv, CatalogueAnswers PROVE BrowseInv'
  OBVIOUS
<1>1. TypeOK /\ WrittenIsSeen /\ Agreement /\ SelectionKept /\ PreviewKept
  BY DEF BrowseInv
<1>2. /\ requests' \subseteq requests
      /\ UNCHANGED <<seen, prev, page, compare, crossed, overtaken>>
      /\ ui' \in {[ui EXCEPT !.loading = FALSE, !.scenarios = Scenarios],
                  [ui EXCEPT !.loading = FALSE, !.catalogueError = TRUE]}
  BY DEF CatalogueAnswers
<1>3. /\ ui' \in States /\ Choice(ui') = Choice(ui) /\ ui'.selected = ui.selected
      /\ ui'.preview = ui.preview /\ ui'.shown = ui.shown
      /\ ui'.previewLoading = ui.previewLoading /\ ui'.previewError = ui.previewError
  <2>1. ui \in States /\ FALSE \in BOOLEAN /\ TRUE \in BOOLEAN /\ Scenarios \in SUBSET Scenarios
    BY <1>1 DEF TypeOK
  <2>2. CASE ui' = [ui EXCEPT !.loading = FALSE, !.scenarios = Scenarios]
    BY <2>1, <2>2, CatalogueFacts
  <2>3. CASE ui' = [ui EXCEPT !.loading = FALSE, !.catalogueError = TRUE]
    BY <2>1, <2>3, CatalogueFacts
  <2>4. QED
    BY <1>2, <2>2, <2>3
<1>4. TypeOK'
  BY <1>1, <1>2, <1>3 DEF TypeOK
<1>5. Agreement'
  BY <1>1, <1>2, <1>3, SameAgreement
<1>6. WrittenIsSeen'
  BY <1>1, <1>2 DEF WrittenIsSeen
<1>7. SelectionKept'
  BY <1>1, <1>2, <1>3 DEF SelectionKept
<1>8. PreviewKept'
  BY <1>1, <1>2, <1>3 DEF PreviewKept
<1>9. QED
  BY <1>4, <1>5, <1>6, <1>7, <1>8 DEF BrowseInv

LEMMA RetryStep == BrowseInv /\ Retry => BrowseInv'
<1> SUFFICES ASSUME BrowseInv, Retry PROVE BrowseInv'
  OBVIOUS
<1>1. TypeOK /\ WrittenIsSeen /\ Agreement /\ SelectionKept /\ PreviewKept
  BY DEF BrowseInv
<1>2. /\ ui' = [ui EXCEPT !.loading = TRUE, !.catalogueError = FALSE]
      /\ seen' = [seen EXCEPT !.ui = ui']
      /\ requests' = requests \union {[by |-> "catalogue", id |-> NoId]}
      /\ ui = seen.ui
      /\ UNCHANGED <<prev, page, compare, crossed, overtaken>>
  BY DEF Retry, Dirty
<1>3. /\ ui' \in States /\ Choice(ui') = Choice(ui) /\ ui'.selected = ui.selected
      /\ ui'.preview = ui.preview /\ ui'.shown = ui.shown
      /\ ui'.previewLoading = ui.previewLoading /\ ui'.previewError = ui.previewError
      /\ ui'.filter = ui.filter /\ ui'.search = ui.search /\ ui'.sort = ui.sort
      /\ ui'.scenarios = ui.scenarios
  <2>1. ui \in States /\ FALSE \in BOOLEAN /\ TRUE \in BOOLEAN /\ Scenarios \in SUBSET Scenarios
    BY <1>1 DEF TypeOK
  <2>2. QED
    BY <1>2, <2>1, CatalogueFacts
<1>4. seen'.ui = ui' /\ seen'.url = seen.url /\ seen' \in [ui : States, url : Addresses \union {Unread}]
  BY <1>1, <1>2, <1>3 DEF TypeOK
<1>5. TypeOK'
  <2>1. requests' \subseteq Requests /\ \A r \in requests' : r.by = "restore" => r.id \in Scenarios
    BY <1>1, <1>2 DEF TypeOK, Requests, Ids
  <2>2. QED
    BY <1>1, <1>2, <1>3, <1>4, <2>1 DEF TypeOK
<1>6. Agreement'
  BY <1>1, <1>2, <1>3, <1>4, SameAgreement
<1>7. WrittenIsSeen'
  BY <1>1, <1>2, <1>3, <1>4 DEF WrittenIsSeen
<1>8. SelectionKept'
  <2>1. Visible(ui') = Visible(ui)
    BY <1>3 DEF Visible
  <2>2. QED
    BY <1>1, <1>2, <1>3, <1>4, <2>1 DEF SelectionKept, Settled
<1>9. PreviewKept'
  <2>1. \A r \in requests' : r.by = "preview" => r \in requests
    BY <1>2
  <2>2. QED
    BY <1>1, <1>3, <1>4, <2>1 DEF PreviewKept
<1>10. QED
  BY <1>5, <1>6, <1>7, <1>8, <1>9 DEF BrowseInv

LEMMA RestoredStep == BrowseInv /\ RunRestored => BrowseInv'
<1> SUFFICES ASSUME BrowseInv, RunRestored PROVE BrowseInv'
  OBVIOUS
<1>1. TypeOK /\ WrittenIsSeen /\ Agreement /\ SelectionKept /\ PreviewKept
  BY DEF BrowseInv
<1>2. PICK r \in requests :
        /\ r.by = "restore"
        /\ requests' = requests \ {r}
        /\ ui' = [ui EXCEPT !.selected = r.id]
        /\ overtaken' = IF r.id = seen.ui.selected /\ r.id # ui.selected THEN {r.id}
                        ELSE overtaken
        /\ UNCHANGED <<seen, prev, page, compare, crossed>>
  BY DEF RunRestored
<1>3. r.id \in Ids
  BY <1>1, <1>2 DEF TypeOK, Ids
<1>4. /\ ui' \in States /\ Choice(ui') = Choice(ui) /\ ui'.selected = r.id
      /\ ui'.preview = ui.preview /\ ui'.shown = ui.shown
      /\ ui'.previewLoading = ui.previewLoading /\ ui'.previewError = ui.previewError
  BY <1>1, <1>2, <1>3 DEF TypeOK, States, Choice
<1>5. overtaken' \subseteq Scenarios
  BY <1>1, <1>2 DEF TypeOK
<1>6. TypeOK'
  BY <1>1, <1>2, <1>4, <1>5 DEF TypeOK
<1>7. Agreement'
  BY <1>1, <1>2, <1>4, <1>5, SameAgreement
<1>8. WrittenIsSeen'
  BY <1>1, <1>2 DEF WrittenIsSeen
<1>9. SelectionKept'
  BY <1>1, <1>2, <1>4, <1>5 DEF SelectionKept
<1>10. PreviewKept'
  BY <1>1, <1>2, <1>4 DEF PreviewKept
<1>11. QED
  BY <1>6, <1>7, <1>8, <1>9, <1>10 DEF BrowseInv

LEMMA PreviewStep == BrowseInv /\ PreviewAnswers => BrowseInv'
<1> SUFFICES ASSUME BrowseInv, PreviewAnswers PROVE BrowseInv'
  OBVIOUS
<1>1. TypeOK /\ WrittenIsSeen /\ Agreement /\ SelectionKept /\ PreviewKept
  BY DEF BrowseInv
<1>2. PICK r \in requests :
        /\ r.by = "preview"
        /\ requests' = requests \ {r}
        /\ ui' \in {[ui EXCEPT !.previewLoading = FALSE, !.shown = r.id],
                    [ui EXCEPT !.previewLoading = FALSE, !.previewError = TRUE]}
        /\ UNCHANGED <<seen, prev, page, compare, crossed, overtaken>>
  BY DEF PreviewAnswers
<1>3. r.id \in Ids /\ r.id = ui.preview
  BY <1>1, <1>2 DEF TypeOK, Requests, PreviewKept
<1>4. PICK s1 \in States : s1 = [ui EXCEPT !.previewLoading = FALSE]
  BY <1>1 DEF TypeOK, States
<1>5. s1.filter = ui.filter /\ s1.search = ui.search /\ s1.sort = ui.sort
      /\ s1.selected = ui.selected /\ s1.preview = ui.preview
  BY <1>1, <1>4 DEF TypeOK, States
<1>6. /\ ui' \in States /\ ui'.filter = ui.filter /\ ui'.search = ui.search /\ ui'.sort = ui.sort
      /\ ui'.selected = ui.selected
      /\ ui'.preview = ui.preview /\ (ui'.previewError \/ ui'.shown = r.id)
  <2>1. CASE ui' = [ui EXCEPT !.previewLoading = FALSE, !.shown = r.id]
    <3>1. ui' = [s1 EXCEPT !.shown = r.id]
      BY <1>4, <2>1
    <3>2. QED
      BY <1>3, <1>5, <3>1 DEF States
  <2>2. CASE ui' = [ui EXCEPT !.previewLoading = FALSE, !.previewError = TRUE]
    <3>1. ui' = [s1 EXCEPT !.previewError = TRUE]
      BY <1>4, <2>2
    <3>2. QED
      BY <1>5, <3>1 DEF States
  <2>3. QED
    BY <1>2, <2>1, <2>2
<1>7. Choice(ui') = Choice(ui)
  BY <1>6 DEF Choice
<1>8. TypeOK'
  BY <1>1, <1>2, <1>6 DEF TypeOK
<1>9. Agreement'
  BY <1>1, <1>2, <1>7, SameAgreement
<1>10. WrittenIsSeen'
  BY <1>1, <1>2 DEF WrittenIsSeen
<1>11. SelectionKept'
  BY <1>1, <1>2, <1>6 DEF SelectionKept
<1>12. PreviewKept'
  BY <1>1, <1>2, <1>3, <1>6 DEF PreviewKept
<1>13. QED
  BY <1>8, <1>9, <1>10, <1>11, <1>12 DEF BrowseInv

\* The comparison holds readable reports only, and shares nothing with the rest.
LEMMA ComparisonStep == BrowseInv /\ Comparing => BrowseInv'
<1> SUFFICES ASSUME BrowseInv, Comparing PROVE BrowseInv'
  OBVIOUS
<1>1. TypeOK /\ WrittenIsSeen /\ Agreement /\ SelectionKept /\ PreviewKept
  BY DEF BrowseInv
<1> DEFINE Files == (1 .. 2) \X (SUBSET Reports)
           Comparisons == [open : BOOLEAN, loaded : [1 .. 2 -> SUBSET Reports],
                           refused : [1 .. 2 -> BOOLEAN], reading : SUBSET Files]
<1>2. UNCHANGED <<ui, seen, prev, page, requests, crossed, overtaken>>
  BY DEF Comparing, ChooseFile, FileRead, UseCurrentRun
<1>3. compare \in Comparisons
  BY <1>1 DEF TypeOK
<1>4. ASSUME NEW now \in Comparisons, NEW side \in 1 .. 2, NEW file \in SUBSET Reports, NEW b \in BOOLEAN
      PROVE  /\ [now EXCEPT !.refused[side] = b] \in Comparisons
             /\ [now EXCEPT !.loaded[side] = file, !.refused[side] = b] \in Comparisons
  <2>1. PICK c : c = [now EXCEPT !.loaded[side] = file]
    OBVIOUS
  <2>2. c \in Comparisons
    BY <2>1
  <2>3. [now EXCEPT !.loaded[side] = file, !.refused[side] = b] = [c EXCEPT !.refused[side] = b]
    BY <2>1
  <2>4. QED
    BY <2>2, <2>3
<1>5. ASSUME NEW S \in SUBSET Files
      PROVE  [compare EXCEPT !.reading = S] \in Comparisons
  BY <1>3
<1>6. compare.reading \in SUBSET Files
  BY <1>3
<1>7. compare' \in Comparisons
  <2>1. CASE ChooseFile
    <3>1. PICK side \in 1 .. 2 : \E file \in {{}} \union {{r} : r \in Reports} :
            compare' \in {[compare EXCEPT !.reading = @ \union {<<side, file>>}],
                          [compare EXCEPT !.refused[side] = TRUE]}
      BY <2>1 DEF ChooseFile
    <3>2. PICK file \in SUBSET Reports :
            compare' \in {[compare EXCEPT !.reading = @ \union {<<side, file>>}],
                          [compare EXCEPT !.refused[side] = TRUE]}
      BY <3>1
    <3>3. compare.reading \union {<<side, file>>} \in SUBSET Files
      BY <1>6
    <3>4. CASE compare' = [compare EXCEPT !.reading = @ \union {<<side, file>>}]
      <4>1. compare' = [compare EXCEPT !.reading = compare.reading \union {<<side, file>>}]
        BY <3>4
      <4>2. QED
        BY <1>5, <3>3, <4>1
    <3>5. CASE compare' = [compare EXCEPT !.refused[side] = TRUE]
      BY <1>3, <1>4, <3>5
    <3>6. QED
      BY <3>2, <3>4, <3>5
  <2>2. CASE FileRead
    <3>1. PICK item \in compare.reading :
            LET now == [compare EXCEPT !.reading = @ \ {item}]
            IN  compare' = IF item[2] = {} THEN [now EXCEPT !.refused[item[1]] = TRUE]
                  ELSE [now EXCEPT !.loaded[item[1]] = item[2], !.refused[item[1]] = FALSE]
      BY <2>2 DEF FileRead
    <3>2. item[1] \in 1 .. 2 /\ item[2] \in SUBSET Reports
      BY <1>6
    <3>3. PICK now : now = [compare EXCEPT !.reading = compare.reading \ {item}]
      OBVIOUS
    <3>4. now \in Comparisons
      BY <1>5, <1>6, <3>3
    <3>5. QED
      BY <1>4, <3>1, <3>2, <3>3, <3>4
  <2>3. CASE UseCurrentRun
    <3>1. PICK side \in 1 .. 2 : \E run \in Reports :
            compare' = [compare EXCEPT !.loaded[side] = {run}, !.refused[side] = FALSE]
      BY <2>3 DEF UseCurrentRun
    <3>2. PICK run \in Reports :
            compare' = [compare EXCEPT !.loaded[side] = {run}, !.refused[side] = FALSE]
      BY <3>1
    <3>3. {run} \in SUBSET Reports
      OBVIOUS
    <3>4. QED
      BY <1>3, <1>4, <3>2, <3>3
  <2>4. QED
    BY <2>1, <2>2, <2>3 DEF Comparing
<1>8. TypeOK'
  BY <1>1, <1>2, <1>7 DEF TypeOK
<1>9. WrittenIsSeen' /\ Agreement' /\ PreviewKept'
  BY <1>1, <1>2 DEF WrittenIsSeen, Agreement, PreviewKept
<1>10. SelectionKept'
  BY <1>1, <1>2 DEF SelectionKept
<1>11. QED
  BY <1>8, <1>9, <1>10 DEF BrowseInv

LEMMA BrowseStep == BrowseInv /\ [Next]_vars => BrowseInv'
<1> SUFFICES ASSUME BrowseInv, [Next]_vars PROVE BrowseInv'
  OBVIOUS
<1>1. CASE UNCHANGED vars
  <2>1. /\ TypeOK' /\ WrittenIsSeen' /\ PreviewKept'
    BY <1>1 DEF vars, BrowseInv, TypeOK, WrittenIsSeen, PreviewKept
  <2>2. Agreement' /\ SelectionKept'
    BY <1>1 DEF vars, BrowseInv, Agreement, SelectionKept
  <2>3. QED
    BY <2>1, <2>2 DEF BrowseInv
<1>2. CASE Next
  BY <1>2, RenderStep, NavigationStep, CatalogueStep, PreviewStep, ClickStep, RetryStep,
     RestoredStep, ComparisonStep DEF Next, Answers, Browsing
<1>3. QED
  BY <1>1, <1>2

\* However clicks, renders, navigations and answers interleave, the page keeps address,
\* choice, selection and preview in step.
THEOREM BrowsingAlwaysOK == Spec => []BrowseInv
<1>1. QED
  BY BrowseInitially, BrowseStep, PTL DEF Spec

-----------------------------------------------------------------------------
(* What the page shows once it is quiet.                                   *)

\* Whichever answer comes late, the panel shows the definition it is open for.
THEOREM PreviewMatchesAlways == Spec => []PreviewMatchesChoice
<1>1. BrowseInv => PreviewMatchesChoice
  BY DEF BrowseInv, PreviewKept, PreviewMatchesChoice
<1>2. QED
  BY <1>1, BrowsingAlwaysOK, PTL

\* A shared link reopens what its sender saw, whatever the user chose, however often and
\* how far back the user went, unless an update was crossed.
THEOREM AddressAgreesAlways == Spec => []AddressAndChoiceAgree
<1>1. BrowseInv => AddressAndChoiceAgree
  BY DEF BrowseInv, Agreement, AddressAndChoiceAgree, Dirty
<1>2. QED
  BY <1>1, BrowsingAlwaysOK, PTL

\* Once the page is quiet, the card that Run launches is a visible one, or none is
\* visible or selected; but for the scenario of a run restored while another selection
\* was still to be rendered, which stays selected until the effect is due again.
THEOREM SelectionVisibleAlways == Spec => []SelectionVisible
<1>1. BrowseInv => SelectionVisible
  <2>1. SUFFICES ASSUME BrowseInv, ~Dirty
                 PROVE  \/ ui.selected \in Visible(ui) \union overtaken
                        \/ Visible(ui) = {} /\ ui.selected = NoId
    BY DEF SelectionVisible
  <2>2. ui = seen.ui /\ SelectionKept
    BY <2>1 DEF BrowseInv, Dirty
  <2>3. Settled(ui, ui.selected) \/ ui.selected \in overtaken
    BY <2>2 DEF SelectionKept
  <2>4. QED
    BY <2>3 DEF Settled
<1>2. QED
  BY <1>1, BrowsingAlwaysOK, PTL

-----------------------------------------------------------------------------
(* The comparison.                                                         *)

Earlier(S, i) == Cardinality({j \in S : j < i})

\* The places of a type are counted from the first one, each number once.
LEMMA EarlierFacts ==
  ASSUME NEW m \in Nat, NEW S \in SUBSET (1 .. m)
  PROVE  /\ IsFiniteSet(S) /\ Cardinality(S) \in Nat
         /\ \A i \in S : Earlier(S, i) + 1 \in 1 .. Cardinality(S)
         /\ \A i, k \in S : Earlier(S, i) = Earlier(S, k) => i = k
         /\ \A n \in 1 .. Cardinality(S) : \E i \in S : Earlier(S, i) = n - 1
<1>1. /\ \A j \in S : j \in Nat
      /\ IsFiniteSet(S) /\ Cardinality(S) \in Nat
  <2>1. IsFiniteSet(1 .. m)
    BY FS_Interval
  <2>2. IsFiniteSet(S)
    BY <2>1, FS_Subset
  <2>3. \A j \in S : j \in Nat
    OBVIOUS
  <2>4. QED
    BY <2>2, <2>3, FS_CardinalityType
<1>2. ASSUME NEW i \in S
      PROVE  /\ IsFiniteSet({j \in S : j < i}) /\ Earlier(S, i) \in Nat
             /\ IsFiniteSet({j \in S : j < i} \union {i})
             /\ Cardinality({j \in S : j < i} \union {i}) = Earlier(S, i) + 1
  <2>1. IsFiniteSet({j \in S : j < i}) /\ i \notin {j \in S : j < i}
    BY <1>1, FS_Subset
  <2>2. QED
    BY <2>1, FS_CardinalityType, FS_AddElement DEF Earlier
<1>3. ASSUME NEW i \in S
      PROVE  Earlier(S, i) + 1 \in 1 .. Cardinality(S)
  <2>1. {j \in S : j < i} \union {i} \in SUBSET S
    OBVIOUS
  <2>2. Cardinality({j \in S : j < i} \union {i}) <= Cardinality(S)
    BY <1>1, <2>1, FS_Subset
  <2>3. PICK e \in Nat : e = Earlier(S, i)
    BY <1>2
  <2>4. e + 1 <= Cardinality(S)
    BY <1>2, <2>2, <2>3
  <2>5. e + 1 \in 1 .. Cardinality(S)
    BY <1>1, <2>4
  <2>6. QED
    BY <2>3, <2>5
<1>4. ASSUME NEW i \in S, NEW k \in S, i < k
      PROVE  Earlier(S, i) < Earlier(S, k)
  <2>1. {j \in S : j < i} \union {i} \subseteq {j \in S : j < k}
    <3>1. \A j \in S : j < i => j < k
      BY <1>1, <1>4
    <3>2. QED
      BY <1>4, <3>1
  <2>2. IsFiniteSet({j \in S : j < k})
    BY <1>2
  <2>3. Cardinality({j \in S : j < i} \union {i}) <= Cardinality({j \in S : j < k})
    BY <2>1, <2>2, FS_Subset
  <2>4. PICK e \in Nat : e = Earlier(S, i)
    BY <1>2
  <2>5. PICK h \in Nat : h = Earlier(S, k)
    BY <1>2
  <2>6. e + 1 <= h
    BY <1>2, <2>3, <2>4, <2>5 DEF Earlier
  <2>7. QED
    BY <2>4, <2>5, <2>6
<1>5. ASSUME NEW i \in S, NEW k \in S, Earlier(S, i) = Earlier(S, k)
      PROVE  i = k
  <2>1. ~(i < k) /\ ~(k < i)
    <3>1. Earlier(S, i) \in Nat /\ Earlier(S, k) \in Nat
      BY <1>2
    <3>2. QED
      BY <1>4, <1>5, <3>1
  <2>2. QED
    BY <1>1, <2>1
<1>6. ASSUME NEW n \in 1 .. Cardinality(S)
      PROVE  \E i \in S : Earlier(S, i) = n - 1
  <2> DEFINE N == 1 .. Cardinality(S)
             f == [i \in S |-> Earlier(S, i) + 1]
  <2>1. f \in [S -> N]
    BY <1>3
  <2>2. \A i, k \in S : f[i] = f[k] => i = k
    <3>1. ASSUME NEW i \in S, NEW k \in S, f[i] = f[k]
          PROVE  Earlier(S, i) = Earlier(S, k)
      <4>1. PICK e \in Nat : e = Earlier(S, i)
        BY <1>2
      <4>2. PICK h \in Nat : h = Earlier(S, k)
        BY <1>2
      <4>3. e + 1 = h + 1
        BY <3>1, <4>1, <4>2
      <4>4. QED
        BY <4>1, <4>2, <4>3
    <3>2. QED
      BY <1>5, <3>1
  <2>3. f \in Injection(S, N)
    BY <2>1, <2>2 DEF Injection, IsInjective
  <2>4. IsFiniteSet(N) /\ Cardinality(N) = Cardinality(S)
    BY <1>1, FS_Interval
  <2>5. f \in Surjection(S, N)
    <3> HIDE DEF f, N
    <3>1. QED
      BY <2>3, <2>4, FS_Injection
  <2>6. PICK i \in S : f[i] = n
    BY <2>5 DEF Surjection
  <2>7. Earlier(S, i) \in Nat /\ Earlier(S, i) + 1 = n
    BY <1>2, <2>6
  <2>8. QED
    BY <2>7
<1>7. QED
  BY <1>1, <1>3, <1>5, <1>6

\* Names that tell apart the entries of a list are as many as its entries.
LEMMA NamesCounted ==
  ASSUME NEW m \in Nat, NEW T, NEW f \in [1 .. m -> T],
         \A i, j \in 1 .. m : f[i] = f[j] => i = j,
         \A x \in T : \E i \in 1 .. m : f[i] = x
  PROVE  IsFiniteSet(T) /\ Cardinality(T) = m
<1>1. f \in Injection(1 .. m, T) /\ f \in Surjection(1 .. m, T)
  BY DEF Injection, IsInjective, Surjection
<1>2. IsFiniteSet(1 .. m) /\ Cardinality(1 .. m) = m
  BY FS_Interval
<1>3. QED
  BY <1>1, <1>2, FS_Surjection

LEMMA DisjointCount ==
  ASSUME NEW S, NEW T, IsFiniteSet(S), IsFiniteSet(T), S \cap T = {}
  PROVE  /\ IsFiniteSet(S \union T)
         /\ Cardinality(S \union T) = Cardinality(S) + Cardinality(T)
<1>1. Cardinality(S) \in Nat /\ Cardinality(T) \in Nat /\ Cardinality({}) = 0
  BY FS_CardinalityType, FS_EmptySet
<1>2. /\ IsFiniteSet(S \union T)
      /\ Cardinality(S \union T) = Cardinality(S) + Cardinality(T) - Cardinality(S \cap T)
  BY FS_Union
<1>3. Cardinality(S \cap T) = 0
  BY <1>1
<1>4. QED
  BY <1>1, <1>2, <1>3

\* Of every entry of either side the comparison says one thing.
LEMMA DifferencesAddUp ==
  ASSUME NEW f, NEW g, IsFiniteSet(DOMAIN f), IsFiniteSet(DOMAIN g)
  PROVE  LET d == Differences(f, g)
             kept == Count(d, "unchanged") + Count(d, "changed")
         IN  /\ Cardinality(DOMAIN f) = kept + Count(d, "removed")
             /\ Cardinality(DOMAIN g) = kept + Count(d, "added")
<1> DEFINE d == Differences(f, g)
           Of(change) == {key \in DOMAIN d : d[key] = change}
<1>1. DOMAIN d = DOMAIN f \union DOMAIN g
  BY DEF Differences
<1>2. \A key \in DOMAIN d :
        d[key] = CASE key \notin DOMAIN g -> "removed"
                   [] key \notin DOMAIN f -> "added"
                   [] OTHER -> IF f[key] = g[key] THEN "unchanged" ELSE "changed"
  BY DEF Differences
<1>3. \A key \in DOMAIN d :
        /\ key \notin DOMAIN g <=> d[key] = "removed"
        /\ key \notin DOMAIN f <=> d[key] = "added"
        /\ d[key] \in {"removed", "added", "unchanged", "changed"}
  <2>1. ASSUME NEW key \in DOMAIN d
        PROVE  /\ key \notin DOMAIN g => d[key] = "removed"
               /\ key \notin DOMAIN f => d[key] = "added"
               /\ key \in DOMAIN f /\ key \in DOMAIN g => d[key] \in {"unchanged", "changed"}
    <3>1. key \in DOMAIN f \/ key \in DOMAIN g
      BY <1>1
    <3>2. d[key] = CASE key \notin DOMAIN g -> "removed"
                     [] key \notin DOMAIN f -> "added"
                     [] OTHER -> IF f[key] = g[key] THEN "unchanged" ELSE "changed"
      BY <1>2
    <3>3. CASE key \notin DOMAIN g
      BY <3>1, <3>2, <3>3, Zenon
    <3>4. CASE key \notin DOMAIN f
      BY <3>1, <3>2, <3>4, Zenon
    <3>5. CASE key \in DOMAIN f /\ key \in DOMAIN g
      BY <3>2, <3>5, Zenon
    <3>6. QED
      BY <3>1, <3>3, <3>4, <3>5
  <2> HIDE DEF d
  <2>2. QED
    BY <1>1, <2>1
<1> HIDE DEF d
<1>4. IsFiniteSet(DOMAIN d)
  BY <1>1, FS_Union
<1>5. \A change : IsFiniteSet(Of(change)) /\ Of(change) \in SUBSET DOMAIN d
  BY <1>4, FS_Subset
<1>6. DOMAIN f = (Of("unchanged") \union Of("changed")) \union Of("removed")
  BY <1>1, <1>3
<1>7. DOMAIN g = (Of("unchanged") \union Of("changed")) \union Of("added")
  BY <1>1, <1>3
<1>8. /\ IsFiniteSet(Of("unchanged") \union Of("changed"))
      /\ Cardinality(Of("unchanged") \union Of("changed"))
           = Cardinality(Of("unchanged")) + Cardinality(Of("changed"))
  <2>1. Of("unchanged") \cap Of("changed") = {}
    OBVIOUS
  <2> HIDE DEF Of
  <2>2. QED
    BY <1>5, <2>1, DisjointCount
<1>9. /\ (Of("unchanged") \union Of("changed")) \cap Of("removed") = {}
      /\ (Of("unchanged") \union Of("changed")) \cap Of("added") = {}
  OBVIOUS
<1>10. \A change : Count(d, change) = Cardinality(Of(change))
  BY DEF Count
<1> HIDE DEF Of
<1>11. Cardinality(DOMAIN f) = Cardinality(Of("unchanged") \union Of("changed")) + Cardinality(Of("removed"))
  BY <1>5, <1>6, <1>8, <1>9, DisjointCount
<1>12. Cardinality(DOMAIN g) = Cardinality(Of("unchanged") \union Of("changed")) + Cardinality(Of("added"))
  BY <1>5, <1>7, <1>8, <1>9, DisjointCount
<1>13. QED
  BY <1>8, <1>10, <1>11, <1>12 DEF d

Places(a, t) == {i \in DOMAIN a : a[i].type = t}

\* The key of an assertion is its type and its number among those, and no other has it.
LEMMA KeyFacts ==
  ASSUME NEW X, NEW a \in Seq(X)
  PROVE  /\ Len(a) \in Nat /\ DOMAIN a = 1 .. Len(a)
         /\ \A t : Places(a, t) \in SUBSET (1 .. Len(a))
         /\ \A i \in DOMAIN a :
              /\ i \in Places(a, a[i].type)
              /\ AssertionKey(a, i) = <<a[i].type, Earlier(Places(a, a[i].type), i)>>
         /\ \A i, j \in DOMAIN a : AssertionKey(a, i) = AssertionKey(a, j) => i = j
<1>1. Len(a) \in Nat /\ DOMAIN a = 1 .. Len(a)
  OBVIOUS
<1>2. \A t : Places(a, t) \in SUBSET (1 .. Len(a))
  BY <1>1 DEF Places
<1>3. ASSUME NEW i \in DOMAIN a
      PROVE  /\ i \in Places(a, a[i].type)
             /\ AssertionKey(a, i) = <<a[i].type, Earlier(Places(a, a[i].type), i)>>
  <2>1. i \in Places(a, a[i].type)
    BY DEF Places
  <2>2. PICK m \in Nat : m = Len(a)
    BY <1>1
  <2>3. i \in 1 .. m /\ DOMAIN a = 1 .. m
    BY <1>1, <2>2
  <2>4. \A j : j \in 1 .. (i - 1) <=> j \in 1 .. m /\ j < i
    BY <2>3
  <2>5. {j \in 1 .. (i - 1) : a[j].type = a[i].type} = {j \in Places(a, a[i].type) : j < i}
    BY <2>3, <2>4 DEF Places
  <2>6. QED
    BY <2>1, <2>5 DEF AssertionKey, Earlier
<1>4. ASSUME NEW i \in DOMAIN a, NEW j \in DOMAIN a, AssertionKey(a, i) = AssertionKey(a, j)
      PROVE  i = j
  <2>1. a[i].type = a[j].type
    BY <1>3, <1>4
  <2>2. PICK S : S = Places(a, a[i].type)
    OBVIOUS
  <2>3. S \in SUBSET (1 .. Len(a)) /\ i \in S /\ j \in S /\ Earlier(S, i) = Earlier(S, j)
    BY <1>2, <1>3, <1>4, <2>1, <2>2
  <2>4. QED
    BY <1>1, <2>3, EarlierFacts
<1>5. QED
  BY <1>1, <1>2, <1>3, <1>4

\* The map of the assertions holds each of them, under its key.
LEMMA AssertionMapFacts ==
  ASSUME NEW X, NEW a \in Seq(X)
  PROVE  /\ DOMAIN AssertionMap(a) = {AssertionKey(a, i) : i \in DOMAIN a}
         /\ \A i \in DOMAIN a : AssertionMap(a)[AssertionKey(a, i)] = a[i].status
         /\ IsFiniteSet(DOMAIN AssertionMap(a))
         /\ Cardinality(DOMAIN AssertionMap(a)) = Len(a)
<1> DEFINE Last(key) == CHOOSE i \in DOMAIN a :
                          /\ AssertionKey(a, i) = key
                          /\ \A j \in DOMAIN a : AssertionKey(a, j) = key => j <= i
<1>1. /\ DOMAIN AssertionMap(a) = {AssertionKey(a, i) : i \in DOMAIN a}
      /\ \A key \in DOMAIN AssertionMap(a) : AssertionMap(a)[key] = a[Last(key)].status
  BY DEF AssertionMap
<1>2. ASSUME NEW i \in DOMAIN a
      PROVE  Last(AssertionKey(a, i)) = i
  <2>1. i <= i
    BY KeyFacts
  <2>2. \A j \in DOMAIN a : AssertionKey(a, j) = AssertionKey(a, i) => j = i
    BY KeyFacts
  <2>3. QED
    BY <2>1, <2>2
<1>3. \A i \in DOMAIN a : AssertionMap(a)[AssertionKey(a, i)] = a[i].status
  <2> HIDE DEF Last
  <2>1. QED
    BY <1>1, <1>2
<1>4. PICK m \in Nat : m = Len(a) /\ DOMAIN a = 1 .. m
  BY KeyFacts
<1>5. PICK T : T = {AssertionKey(a, i) : i \in 1 .. m}
  OBVIOUS
<1>6. PICK f : f = [i \in 1 .. m |-> AssertionKey(a, i)]
  OBVIOUS
<1>7. f \in [1 .. m -> T] /\ \A i \in 1 .. m : f[i] = AssertionKey(a, i)
  BY <1>5, <1>6
<1>8. \A i, j \in 1 .. m : f[i] = f[j] => i = j
  BY <1>4, <1>7, KeyFacts
<1>9. \A x \in T : \E i \in 1 .. m : f[i] = x
  BY <1>5, <1>7
<1>10. IsFiniteSet(T) /\ Cardinality(T) = m
  BY <1>7, <1>8, <1>9, NamesCounted
<1>11. QED
  BY <1>1, <1>3, <1>4, <1>5, <1>10

\* When no report repeats a step, its map holds each of them.
LEMMA StepMapFacts ==
  ASSUME NEW X, NEW s \in Seq(X), \A i, j \in DOMAIN s : s[i].id = s[j].id => i = j
  PROVE  /\ IsFiniteSet(DOMAIN StepMap(s))
         /\ Cardinality(DOMAIN StepMap(s)) = Len(s)
<1>1. PICK m \in Nat : m = Len(s) /\ DOMAIN s = 1 .. m
  OBVIOUS
<1>2. PICK T : T = {s[i].id : i \in 1 .. m}
  OBVIOUS
<1>3. PICK f : f = [i \in 1 .. m |-> s[i].id]
  OBVIOUS
<1>4. f \in [1 .. m -> T] /\ \A i \in 1 .. m : f[i] = s[i].id
  BY <1>2, <1>3
<1>5. \A i, j \in 1 .. m : f[i] = f[j] => i = j
  BY <1>1, <1>4
<1>6. \A x \in T : \E i \in 1 .. m : f[i] = x
  BY <1>2, <1>4
<1>7. IsFiniteSet(T) /\ Cardinality(T) = m
  BY <1>4, <1>5, <1>6, NamesCounted
<1>8. DOMAIN StepMap(s) = T
  BY <1>1, <1>2 DEF StepMap
<1>9. QED
  BY <1>1, <1>7, <1>8

\* The n-th assertion of a type is the one whose key counts n - 1 before it.
LEMMA OfTypeFacts ==
  ASSUME NEW X, NEW a \in Seq(X), NEW t
  PROVE  LET N == 1 .. Cardinality(Places(a, t))
         IN  /\ Cardinality(Places(a, t)) \in Nat
             /\ DOMAIN Outcomes(OfType(a, t)) = N
             /\ Outcomes(OfType(a, t)) = [n \in N |-> AssertionMap(a)[<<t, n - 1>>]]
             /\ \A n \in Int : <<t, n - 1>> \in DOMAIN AssertionMap(a) <=> n \in N
<1> DEFINE S == Places(a, t)
           N == 1 .. Cardinality(S)
           Nth(n) == CHOOSE i \in S : Cardinality({j \in S : j < i}) = n - 1
<1>1. /\ S \in SUBSET (1 .. Len(a)) /\ Len(a) \in Nat /\ DOMAIN a = 1 .. Len(a)
      /\ \A i \in S : i \in DOMAIN a /\ AssertionKey(a, i) = <<t, Earlier(S, i)>>
  BY KeyFacts DEF Places
<1> HIDE DEF S
<1>2. /\ Cardinality(S) \in Nat
      /\ \A i \in S : Earlier(S, i) + 1 \in N
      /\ \A n \in N : \E i \in S : Earlier(S, i) = n - 1
  BY <1>1, EarlierFacts
<1>3. \A n \in N : Nth(n) \in S /\ Earlier(S, Nth(n)) = n - 1
  BY <1>2 DEF Earlier
<1>4. /\ DOMAIN OfType(a, t) = N
      /\ \A n \in N : OfType(a, t)[n] = a[Nth(n)]
  BY DEF OfType, S, Places
<1> HIDE DEF Nth
<1>5. /\ DOMAIN Outcomes(OfType(a, t)) = N
      /\ Outcomes(OfType(a, t)) = [n \in N |-> a[Nth(n)].status]
  BY <1>4 DEF Outcomes
<1>6. ASSUME NEW n \in N
      PROVE  /\ <<t, n - 1>> \in DOMAIN AssertionMap(a)
             /\ a[Nth(n)].status = AssertionMap(a)[<<t, n - 1>>]
  <2>1. Nth(n) \in DOMAIN a /\ AssertionKey(a, Nth(n)) = <<t, n - 1>>
    BY <1>1, <1>3
  <2>2. QED
    BY <2>1, AssertionMapFacts
<1>7. ASSUME NEW n \in Int, <<t, n - 1>> \in DOMAIN AssertionMap(a)
      PROVE  n \in N
  <2>1. PICK i \in DOMAIN a : AssertionKey(a, i) = <<t, n - 1>>
    BY <1>7, AssertionMapFacts
  <2>2. a[i].type = t /\ Earlier(Places(a, a[i].type), i) = n - 1 /\ i \in Places(a, a[i].type)
    BY <2>1, KeyFacts
  <2>3. i \in S /\ Earlier(S, i) = n - 1
    BY <2>2 DEF S
  <2>4. (n - 1) + 1 \in N
    BY <1>2, <2>3
  <2>5. (n - 1) + 1 = n
    OBVIOUS
  <2>6. QED
    BY <2>4, <2>5
<1>8. Outcomes(OfType(a, t)) = [n \in N |-> AssertionMap(a)[<<t, n - 1>>]]
  BY <1>5, <1>6
<1>9. QED
  BY <1>2, <1>5, <1>6, <1>7, <1>8 DEF S

\* Every key is a type and a number.
LEMMA KeysOfTypes ==
  ASSUME NEW X, NEW a \in Seq(X), NEW key \in DOMAIN AssertionMap(a)
  PROVE  \E t : \E n \in Nat : key = <<t, n - 1>> /\ key[1] = t
<1>1. PICK i \in DOMAIN a : key = AssertionKey(a, i)
  BY AssertionMapFacts
<1>2. PICK S : S = Places(a, a[i].type)
  OBVIOUS
<1>3. key = <<a[i].type, Earlier(S, i)>> /\ S \in SUBSET (1 .. Len(a)) /\ i \in S /\ Len(a) \in Nat
  BY <1>1, <1>2, KeyFacts
<1>4. Earlier(S, i) + 1 \in 1 .. Cardinality(S) /\ Cardinality(S) \in Nat
  BY <1>3, EarlierFacts
<1>5. PICK e : e = Earlier(S, i)
  OBVIOUS
<1>6. e \in Nat
  <2>1. {j \in S : j < i} \in SUBSET S /\ IsFiniteSet(S)
    BY <1>3, EarlierFacts
  <2>2. QED
    BY <1>5, <2>1, FS_Subset, FS_CardinalityType DEF Earlier
<1>7. e + 1 \in Nat /\ (e + 1) - 1 = e
  BY <1>6
<1>8. key = <<a[i].type, (e + 1) - 1>> /\ key[1] = a[i].type
  BY <1>3, <1>5, <1>7
<1>9. QED
  BY <1>7, <1>8

\* Nothing but "unchanged" is said of two lists of assertions just when, type by type,
\* their outcomes are the same in the same order.
LEMMA UnchangedMeansSameOutcomes ==
  ASSUME NEW X, NEW a \in Seq(X), NEW b \in Seq(X)
  PROVE  LET d == Differences(AssertionMap(a), AssertionMap(b))
         IN  (\A key \in DOMAIN d : d[key] = "unchanged") <=>
             (\A t \in {x[1] : x \in DOMAIN d} : Outcomes(OfType(a, t)) = Outcomes(OfType(b, t)))
<1> DEFINE f == AssertionMap(a)
           g == AssertionMap(b)
           d == Differences(f, g)
<1>1. DOMAIN d = DOMAIN f \union DOMAIN g
  BY DEF Differences
<1>2. ASSUME NEW key \in DOMAIN d
      PROVE  d[key] = "unchanged" <=> key \in DOMAIN f /\ key \in DOMAIN g /\ f[key] = g[key]
  <2>1. d[key] = CASE key \notin DOMAIN g -> "removed"
                   [] key \notin DOMAIN f -> "added"
                   [] OTHER -> IF f[key] = g[key] THEN "unchanged" ELSE "changed"
    BY DEF Differences
  <2>2. key \in DOMAIN f \/ key \in DOMAIN g
    BY <1>1
  <2> HIDE DEF f, g, d
  <2>3. CASE key \notin DOMAIN g
    <3>1. d[key] = "removed"
      BY <2>1, <2>2, <2>3, Zenon
    <3>2. QED
      BY <2>3, <3>1
  <2>4. CASE key \notin DOMAIN f
    <3>1. d[key] = "added"
      BY <2>1, <2>2, <2>4, Zenon
    <3>2. QED
      BY <2>4, <3>1
  <2>5. CASE key \in DOMAIN f /\ key \in DOMAIN g
    <3>1. d[key] = IF f[key] = g[key] THEN "unchanged" ELSE "changed"
      BY <2>1, <2>5, Zenon
    <3>2. QED
      BY <2>5, <3>1
  <2>6. QED
    BY <2>3, <2>4, <2>5
<1> HIDE DEF d
<1>3. ASSUME \A key \in DOMAIN d : d[key] = "unchanged", NEW t
      PROVE  Outcomes(OfType(a, t)) = Outcomes(OfType(b, t))
  <2>1. DOMAIN f = DOMAIN g /\ \A key \in DOMAIN f : f[key] = g[key]
    BY <1>1, <1>2, <1>3
  <2>2. PICK m \in Nat : m = Cardinality(Places(a, t))
    BY OfTypeFacts
  <2>3. PICK n \in Nat : n = Cardinality(Places(b, t))
    BY OfTypeFacts
  <2>4. /\ Outcomes(OfType(a, t)) = [i \in 1 .. m |-> f[<<t, i - 1>>]]
        /\ \A i \in Int : <<t, i - 1>> \in DOMAIN f <=> i \in 1 .. m
    BY <2>2, OfTypeFacts
  <2>5. /\ Outcomes(OfType(b, t)) = [i \in 1 .. n |-> g[<<t, i - 1>>]]
        /\ \A i \in Int : <<t, i - 1>> \in DOMAIN g <=> i \in 1 .. n
    BY <2>3, OfTypeFacts
  <2> HIDE DEF f, g
  <2>6. 1 .. m = 1 .. n
    <3>1. \A i \in Int : i \in 1 .. m <=> i \in 1 .. n
      BY <2>1, <2>4, <2>5
    <3>2. QED
      BY <3>1
  <2>7. \A i \in 1 .. m : f[<<t, i - 1>>] = g[<<t, i - 1>>]
    BY <2>1, <2>4
  <2>8. QED
    BY <2>4, <2>5, <2>6, <2>7
<1>4. ASSUME \A t \in {x[1] : x \in DOMAIN d} : Outcomes(OfType(a, t)) = Outcomes(OfType(b, t)),
             NEW key \in DOMAIN d
      PROVE  d[key] = "unchanged"
  <2>1. PICK t : \E n \in Nat : key = <<t, n - 1>> /\ key[1] = t
    <3>1. key \in DOMAIN f => \E t : \E n \in Nat : key = <<t, n - 1>> /\ key[1] = t
      BY KeysOfTypes
    <3>2. key \in DOMAIN g => \E t : \E n \in Nat : key = <<t, n - 1>> /\ key[1] = t
      BY KeysOfTypes
    <3>3. QED
      BY <1>1, <3>1, <3>2
  <2>2. PICK n \in Nat : key = <<t, n - 1>>
    BY <2>1
  <2>3. Outcomes(OfType(a, t)) = Outcomes(OfType(b, t))
    BY <1>4, <2>1
  <2>4. PICK M : M = 1 .. Cardinality(Places(a, t))
    OBVIOUS
  <2>5. PICK N : N = 1 .. Cardinality(Places(b, t))
    OBVIOUS
  <2>6. /\ DOMAIN Outcomes(OfType(a, t)) = M
        /\ Outcomes(OfType(a, t)) = [i \in M |-> f[<<t, i - 1>>]]
        /\ n \in Int /\ (key \in DOMAIN f <=> n \in M)
    BY <2>2, <2>4, OfTypeFacts
  <2>7. /\ DOMAIN Outcomes(OfType(b, t)) = N
        /\ Outcomes(OfType(b, t)) = [i \in N |-> g[<<t, i - 1>>]]
        /\ (key \in DOMAIN g <=> n \in N)
    BY <2>2, <2>5, OfTypeFacts
  <2> HIDE DEF f, g
  <2>8. M = N
    BY <2>3, <2>6, <2>7
  <2>9. n \in M /\ n \in N
    BY <1>1, <2>6, <2>7, <2>8
  <2>10. f[key] = g[key]
    <3>1. Outcomes(OfType(a, t))[n] = f[<<t, n - 1>>]
      BY <2>6, <2>9
    <3>2. Outcomes(OfType(b, t))[n] = g[<<t, n - 1>>]
      BY <2>7, <2>9
    <3>3. QED
      BY <2>2, <2>3, <3>1, <3>2
  <2>11. QED
    BY <1>2, <2>6, <2>7, <2>9, <2>10
<1>5. QED
  BY <1>3, <1>4 DEF d

\* The counts of the comparison, for any two reports.
LEMMA ComparisonFacts ==
  ASSUME NEW a \in Reports, NEW b \in Reports
  PROVE  LET c == compareReports(a, b)
             Kept2(d) == Count(d, "unchanged") + Count(d, "changed")
             Unique(steps) ==
                 \A i, j \in DOMAIN steps : steps[i].id = steps[j].id => i = j
         IN  /\ Len(a.assertions) = Kept2(c.assertions) + Count(c.assertions, "removed")
             /\ Len(b.assertions) = Kept2(c.assertions) + Count(c.assertions, "added")
             /\ Unique(a.steps) /\ Unique(b.steps) =>
                  /\ Len(a.steps) = Kept2(c.steps) + Count(c.steps, "removed")
                  /\ Len(b.steps) = Kept2(c.steps) + Count(c.steps, "added")
             /\ (\A key \in DOMAIN c.assertions : c.assertions[key] = "unchanged") <=>
                (\A t \in {x[1] : x \in DOMAIN c.assertions} :
                   Outcomes(OfType(a.assertions, t)) = Outcomes(OfType(b.assertions, t)))
<1> DEFINE Unique(steps) == \A i, j \in DOMAIN steps : steps[i].id = steps[j].id => i = j
<1>1. PICK p \in Seq([type : STRING, status : STRING]) : p = a.assertions
  BY BrowseAssumption
<1>2. PICK q \in Seq([type : STRING, status : STRING]) : q = b.assertions
  BY BrowseAssumption
<1>3. PICK s \in Seq([id : STRING, status : STRING]) : s = a.steps
  BY BrowseAssumption
<1>4. PICK u \in Seq([id : STRING, status : STRING]) : u = b.steps
  BY BrowseAssumption
<1>5. PICK d : d = Differences(AssertionMap(p), AssertionMap(q))
  OBVIOUS
<1>6. PICK e : e = Differences(StepMap(s), StepMap(u))
  OBVIOUS
<1>7. compareReports(a, b).assertions = d /\ compareReports(a, b).steps = e
  BY <1>1, <1>2, <1>3, <1>4, <1>5, <1>6 DEF compareReports
<1>8. /\ Len(p) = Count(d, "unchanged") + Count(d, "changed") + Count(d, "removed")
      /\ Len(q) = Count(d, "unchanged") + Count(d, "changed") + Count(d, "added")
  <2>1. /\ IsFiniteSet(DOMAIN AssertionMap(p)) /\ Cardinality(DOMAIN AssertionMap(p)) = Len(p)
        /\ IsFiniteSet(DOMAIN AssertionMap(q)) /\ Cardinality(DOMAIN AssertionMap(q)) = Len(q)
    BY AssertionMapFacts
  <2>2. QED
    BY <1>5, <2>1, DifferencesAddUp
<1>9. ASSUME Unique(s), Unique(u)
      PROVE  /\ Len(s) = Count(e, "unchanged") + Count(e, "changed") + Count(e, "removed")
             /\ Len(u) = Count(e, "unchanged") + Count(e, "changed") + Count(e, "added")
  <2>1. /\ IsFiniteSet(DOMAIN StepMap(s)) /\ Cardinality(DOMAIN StepMap(s)) = Len(s)
        /\ IsFiniteSet(DOMAIN StepMap(u)) /\ Cardinality(DOMAIN StepMap(u)) = Len(u)
    BY <1>9, StepMapFacts
  <2>2. QED
    BY <1>6, <2>1, DifferencesAddUp
<1>10. (\A key \in DOMAIN d : d[key] = "unchanged") <=>
       (\A t \in {x[1] : x \in DOMAIN d} : Outcomes(OfType(p, t)) = Outcomes(OfType(q, t)))
  BY <1>5, UnchangedMeansSameOutcomes
<1>11. QED
  BY <1>1, <1>2, <1>3, <1>4, <1>7, <1>8, <1>9, <1>10

\* Whichever reports were chosen, and in whatever order their files were read, every
\* assertion is accounted for, and every step when no report repeats one.
THEOREM ComparisonAddsUpAlways == Spec => []ComparisonAddsUp
<1>1. BrowseInv => ComparisonAddsUp
  <2>1. SUFFICES ASSUME BrowseInv
                 PROVE  ComparisonAddsUp
    OBVIOUS
  <2>2. compare.loaded[1] \subseteq Reports /\ compare.loaded[2] \subseteq Reports
    <3>1. compare.loaded \in [1 .. 2 -> SUBSET Reports]
      BY <2>1 DEF BrowseInv, TypeOK
    <3>2. QED
      BY <3>1
  <2>3. QED
    BY <2>2, ComparisonFacts DEF ComparisonAddsUp
<1>2. QED
  BY <1>1, BrowsingAlwaysOK, PTL

=============================================================================
