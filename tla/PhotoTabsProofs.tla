---------------------------- MODULE PhotoTabsProofs ----------------------------
(******************************************************************************)
(* Theorems about PhotoTabs, for every set of workspaces and every number of  *)
(* tabs, drawings and calls in flight.                                        *)
(*                                                                            *)
(* What a tab shows is held in four places: the canvas, the page's snapshot,  *)
(* the latest one and the tab's own in the cache.  They differ in the middle  *)
(* of a click.  Working says which of them agree between two clicks, and that *)
(* the workspace that is mounted has hydrated, so that it will not take its   *)
(* states from an older snapshot (Settled).  Awaiting says that a closure     *)
(* that awaits the server remembers the tabs as they are, unless they         *)
(* changed under it.                                                          *)
(******************************************************************************)
EXTENDS PhotoTabs, TLAPS, WellFoundedInduction

\* The tabs of a pending deletion have been opened.
Types == TypeOK /\ (deleting # None => deleting.tabs \subseteq 1..opened)

\* The mounted workspace has hydrated in the page's workspace.
Settled(p) == p.snapshot # None => p.hydrated = {p.workspaceId}

\* The page shows content k in tab t, and would save and restore it.
Holds(p, t, k) == p.shown = k /\ p.latest = k /\ p.cache[t] = k

\* What a tab is to keep: what its canvas was last given, unless a save was awaited.
kept == [t \in TabIds |-> IF t \in overtaken THEN None ELSE work[t]]

\* While the page opens there is nothing to lose.
Opening ==
  /\ loading => opening /\ param # None
  /\ opening => /\ ~preparing /\ navigating = {} /\ page.awaits = {}
                /\ saving = None /\ deleting = None /\ uploading = None
                /\ \A t \in TabIds : kept[t] = None

\* The work of a tab is in the cache, and in the canvas of the one that is shown.
Working ==
  /\ opening \/ Settled(page)
  /\ ~crossed =>
       /\ \A t \in TabIds \ tabs : kept[t] = None
       /\ \A t \in tabs \ {activeTabId} : kept[t] # None => page.cache[t] = kept[t]
       /\ kept[activeTabId] # None => Holds(page, activeTabId, kept[activeTabId])

\* A closure that awaits the server remembers the tabs as they are.
Awaiting ==
  ~crossed =>
    /\ deleting # None => /\ deleting.tabs = tabs /\ deleting.tabWorkspace = tabWorkspace
                          /\ deleting.active = activeTabId
    /\ uploading # None => /\ uploading.tab = activeTabId
                           /\ uploading.workspaceId = tabWorkspace[activeTabId]
    /\ saving # None => /\ saving.tab = activeTabId
                        /\ kept[activeTabId] # None => saving.content = kept[activeTabId]

\* The tabs of the bar have workspaces of their own, which the server has given.
Distinct ==
  ~crossed =>
    /\ activeTabId \in tabs
    /\ \A t \in tabs : tabWorkspace[t] \notin unborn
    /\ \A t, u \in tabs :
         t # u => tabWorkspace[t] = None \/ tabWorkspace[t] # tabWorkspace[u]

\* The page's project is that of the tab w of a workspace, or one the draft has taken.
Owns(p, w, a) == p.workspaceId = w \/ (a /\ w = None)

\* The page's project is that of the tab that is shown, unless a draft has taken one.
Owned ==
  /\ opening => activeTabId \in tabs /\ param = tabWorkspace[activeTabId]
  /\ ~crossed => Owns(page, tabWorkspace[activeTabId], adopted)

\* Taking the states from the snapshot would show content k, or nothing is taken.
Calm(p, k) == Settled(p) \/ p.snapshot = k

----------------------------------------------------------------------------
(* What the parts of a render do to the page. *)

\* What a page consists of.
LEMMA PageFields ==
  ASSUME NEW p \in Page
  PROVE  /\ p.workspaceId \in WorkspaceId /\ p.snapshot \in Snapshot /\ p.latest \in Snapshot
         /\ p.cache \in [TabIds -> Snapshot] /\ p.shown \in Content
         /\ p.hydrated \in {{}} \cup {{w} : w \in WorkspaceId}
         /\ p.awaits \subseteq {"generation", "export"}
         /\ Blank \in Content /\ Content \subseteq Snapshot /\ None \in Snapshot
BY DEF Page, Snapshot, Content

\* The report of the workspace.
LEMMA EmitFacts ==
  ASSUME NEW p \in Page, NEW t \in TabIds
  PROVE  /\ Emit(p, t) \in Page
         /\ Emit(p, t).latest = p.shown /\ Emit(p, t).cache[t] = p.shown
         /\ \A v \in TabIds \ {t} : Emit(p, t).cache[v] = p.cache[v]
         /\ Emit(p, t).shown = p.shown /\ Emit(p, t).snapshot = p.snapshot
         /\ Emit(p, t).workspaceId = p.workspaceId /\ Emit(p, t).hydrated = p.hydrated
BY PageFields DEF Emit, Page

\* The workspace takes its states from the snapshot.
LEMMA HydrateFacts ==
  ASSUME NEW p \in Page, p.snapshot # None
  PROVE  /\ Hydrate(p) \in Page
         /\ Hydrate(p).shown = p.snapshot /\ Hydrate(p).hydrated = {p.workspaceId}
         /\ Hydrate(p).latest = p.latest /\ Hydrate(p).cache = p.cache
         /\ Hydrate(p).snapshot = p.snapshot /\ Hydrate(p).workspaceId = p.workspaceId
BY PageFields DEF Hydrate, Page, Snapshot

\* A workspace that stays ends hydrated, and keeps the content it holds.
LEMMA ChildFacts ==
  ASSUME NEW p \in Page, NEW t \in TabIds, NEW before
  PROVE  /\ Child(p, t, before) \in Page
         /\ Settled(Child(p, t, before))
         /\ \A v \in TabIds \ {t} : Child(p, t, before).cache[v] = p.cache[v]
         /\ \A k : Holds(p, t, k) /\ Calm(p, k) => Holds(Child(p, t, before), t, k)
<1>1. CASE p.snapshot # None /\ p.hydrated # {p.workspaceId}
  <2>1. Child(p, t, before) = Hydrate(p)
    BY <1>1 DEF Child
  <2> QED
    BY <1>1, <2>1, HydrateFacts DEF Settled, Calm, Holds
<1>2. CASE ~(p.snapshot # None /\ p.hydrated # {p.workspaceId})
  <2>1. Child(p, t, before) \in {Emit(p, t), p}
    BY <1>2 DEF Child
  <2> QED
    BY <1>2, <2>1, EmitFacts DEF Settled, Holds
<1> QED
  BY <1>1, <1>2

\* The load effect takes the snapshot from the cache of the tab.
LEMMA LoadEffectFacts ==
  ASSUME NEW p \in Page, NEW t \in TabIds, NEW own, NEW u \in WorkspaceId
  PROVE  /\ LoadEffect(p, t, own, u) \in Page
         /\ LoadEffect(p, t, own, u).cache = p.cache
         /\ \A k : Holds(p, t, k) /\ Calm(p, k)
              => Holds(LoadEffect(p, t, own, u), t, k) /\ Calm(LoadEffect(p, t, own, u), k)
<1> DEFINE q == [p EXCEPT !.workspaceId = u, !.snapshot = p.cache[t], !.latest = p.cache[t]]
<1>1. /\ q \in Page /\ q.cache = p.cache /\ q.shown = p.shown
      /\ q.snapshot = p.cache[t] /\ q.latest = p.cache[t]
  BY PageFields DEF Page
<1>2. LoadEffect(p, t, own, u) = p \/ LoadEffect(p, t, own, u) = q
  BY DEF LoadEffect
<1> HIDE DEF q
<1> QED
  BY <1>1, <1>2 DEF Holds, Calm

\* A workspace that is mounted shows the snapshot it is given.
LEMMA MountFacts ==
  ASSUME NEW p \in Page, NEW t \in TabIds
  PROVE  /\ Mount(p, t) \in Page
         /\ Settled(Mount(p, t))
         /\ \A v \in TabIds \ {t} : Mount(p, t).cache[v] = p.cache[v]
         /\ \A k : k # None /\ p.snapshot = k /\ p.latest = k /\ p.cache[t] = k
              => Holds(Mount(p, t), t, k)
<1> DEFINE q == [p EXCEPT !.shown = Blank, !.hydrated = {}, !.awaits = {}]
<1>1. /\ q \in Page /\ q.cache = p.cache /\ q.latest = p.latest /\ q.snapshot = p.snapshot
      /\ q.workspaceId = p.workspaceId
  BY PageFields DEF Page
<1>2. Mount(p, t) = IF p.snapshot # None THEN Hydrate(q) ELSE Emit(q, t)
  BY DEF Mount
<1> HIDE DEF q
<1>3. CASE p.snapshot # None
  BY <1>1, <1>2, <1>3, HydrateFacts DEF Settled, Holds
<1>4. CASE p.snapshot = None
  BY <1>1, <1>2, <1>4, EmitFacts DEF Settled, Holds
<1> QED
  BY <1>3, <1>4

\* The effects that follow.
LEMMA EffectsFacts ==
  ASSUME NEW c \in Page, NEW t \in TabIds, NEW own, NEW u \in WorkspaceId, Settled(c),
         NEW q, q = Child(LoadEffect(c, t, own, u), t, c.workspaceId)
  PROVE  /\ q \in Page /\ Settled(q)
         /\ \A v \in TabIds \ {t} : q.cache[v] = c.cache[v]
         /\ \A k : Holds(c, t, k) => Holds(q, t, k)
BY LoadEffectFacts, ChildFacts DEF Calm

\* The timer of the automatic restore touches nothing else.
LEMMA AutoLoadFacts ==
  ASSUME NEW p \in Page, NEW q, q = AutoLoadEffect(p) \/ q = p
  PROVE  /\ q \in Page /\ q.cache = p.cache /\ q.workspaceId = p.workspaceId
         /\ Settled(p) => Settled(q)
         /\ \A t, k : Holds(p, t, k) => Holds(q, t, k)
<1>1. AutoLoadEffect(p) \in Page
  BY PageFields DEF AutoLoadEffect, Page
<1> QED
  BY <1>1 DEF AutoLoadEffect, Settled, Holds, Page

\* A render, with all its effects: the workspace has hydrated by the end of it, and
\* the page holds what it held, or what it was given for another tab.
LEMMA RenderedFacts ==
  ASSUME NEW p \in Page, NEW t \in TabIds, NEW ts, NEW tw, NEW u \in WorkspaceId,
         Rendered(p, t, ts, tw, u)
  PROVE  /\ page' \in Page /\ Settled(page)'
         /\ activeTabId' = t /\ tabs' = ts /\ tabWorkspace' = tw
         /\ \A v \in TabIds \ {t} : page'.cache[v] = p.cache[v]
         /\ \A k : /\ k # None
                   /\ t = activeTabId => Holds(p, t, k) /\ Calm(p, k)
                   /\ t # activeTabId => p.snapshot = k /\ p.latest = k /\ p.cache[t] = k
              => Holds(page', t, k)
<1> DEFINE c == IF t # activeTabId THEN Mount(p, t) ELSE Child(p, t, page.workspaceId)
<1>1. /\ c \in Page /\ Settled(c)
      /\ \A v \in TabIds \ {t} : c.cache[v] = p.cache[v]
      /\ \A k : /\ k # None
                /\ t = activeTabId => Holds(p, t, k) /\ Calm(p, k)
                /\ t # activeTabId => p.snapshot = k /\ p.latest = k /\ p.cache[t] = k
           => Holds(c, t, k)
  BY MountFacts, ChildFacts
<1>2. PICK d : /\ \E own : d = Child(LoadEffect(c, t, own, u), t, c.workspaceId)
               /\ page' = AutoLoadEffect(d) \/ page' = d
               /\ activeTabId' = t /\ tabs' = ts /\ tabWorkspace' = tw
  BY DEF Rendered
<1> HIDE DEF c
<1>4. /\ d \in Page /\ Settled(d)
      /\ \A v \in TabIds \ {t} : d.cache[v] = c.cache[v]
      /\ \A k : Holds(c, t, k) => Holds(d, t, k)
  BY <1>1, <1>2, EffectsFacts
<1>3. /\ page' \in Page /\ Settled(page')
      /\ \A v \in TabIds \ {t} : page'.cache[v] = c.cache[v]
      /\ \A k : Holds(c, t, k) => Holds(page', t, k)
  BY <1>2, <1>4, AutoLoadFacts
<1> QED
  BY <1>1, <1>2, <1>3 DEF Settled

\* The snapshot of the tab that is left is put in the cache.
LEMMA PersistFacts ==
  ASSUME NEW p \in Page, NEW t \in TabIds
  PROVE  /\ Persist(p, t) \in Page
         /\ Persist(p, t).cache[t] = IF p.latest # None THEN p.latest ELSE p.cache[t]
         /\ \A v \in TabIds \ {t} : Persist(p, t).cache[v] = p.cache[v]
         /\ Persist(p, t).shown = p.shown /\ Persist(p, t).latest = p.latest
         /\ Persist(p, t).snapshot = p.snapshot /\ Persist(p, t).workspaceId = p.workspaceId
         /\ Persist(p, t).hydrated = p.hydrated
BY PageFields DEF Persist, Page

\* A tab is selected with what the cache has for it.
LEMMA ApplyFacts ==
  ASSUME NEW p \in Page, NEW t \in TabIds, NEW ts, NEW tw \in [TabIds -> WorkspaceId],
         param \in WorkspaceId, ApplyWorkspaceTab(p, t, ts, tw)
  PROVE  /\ page' \in Page /\ Settled(page)'
         /\ activeTabId' = t /\ tabs' = ts /\ tabWorkspace' = tw
         /\ navigating' = {tw[t]} /\ param' = param /\ tw[t] \in WorkspaceId
         /\ \A v \in TabIds \ {t} : page'.cache[v] = p.cache[v]
         /\ \A k : k # None /\ p.cache[t] = k /\ (t = activeTabId => p.shown = k)
              => Holds(page', t, k)
<1> DEFINE q == [p EXCEPT !.workspaceId = tw[t], !.snapshot = p.cache[t],
                          !.latest = p.cache[t]]
<1>1. /\ q \in Page /\ q.cache = p.cache /\ q.shown = p.shown
      /\ q.snapshot = p.cache[t] /\ q.latest = p.cache[t]
  BY PageFields DEF Page
<1>2. Rendered(q, t, ts, tw, param) /\ navigating' = {tw[t]} /\ param' = param
  BY DEF ApplyWorkspaceTab
<1> HIDE DEF q
<1>3. \A k : k # None /\ p.cache[t] = k /\ (t = activeTabId => p.shown = k)
        => /\ t = activeTabId => Holds(q, t, k) /\ Calm(q, k)
           /\ t # activeTabId => q.snapshot = k /\ q.latest = k /\ q.cache[t] = k
  BY <1>1 DEF Holds, Calm
<1> QED
  BY <1>1, <1>2, <1>3, RenderedFacts

----------------------------------------------------------------------------
(* The first and the last of some tabs. *)

Below == {p \in Nat \X Nat : p[1] < p[2]}

\* A set of numbers that is not empty has a least member.
LEMMA LeastNumber ==
  ASSUME NEW T, T \subseteq Nat, T # {} PROVE \E n \in T : \A m \in T : n <= m
<1>1. IsWellFoundedOn(Below, Nat)
  BY NatLessThanWellFounded DEF OpToRel, Below
<1>2. PICK n \in T : \A m \in T : <<m, n>> \notin Below
  BY <1>1, WFMin
<1>3. \A k, m \in Nat : <<m, k>> \notin Below => k <= m
  BY DEF Below
<1>4. ASSUME NEW m \in T PROVE n <= m
  <2>1. n \in Nat /\ m \in Nat
    OBVIOUS
  <2> QED
    BY <1>2, <1>3, <2>1
<1> QED
  BY <1>4

\* Some tabs, not none, have a last one.
LEMMA LastTab ==
  ASSUME NEW T, T \subseteq TabIds, T # {} PROVE \E t \in T : \A u \in T : u <= t
<1> DEFINE B == {m \in Nat : \A u \in T : u <= m}
<1>1. \A u \in T : u \in Nat /\ 1 <= u /\ u <= MaxTabs
  BY TabsAssumption DEF TabIds
<1>2. B \subseteq Nat /\ B # {}
  BY <1>1, TabsAssumption
<1>3. PICK n \in B : \A m \in B : n <= m
  BY <1>2, LeastNumber
<1>4. n \in T
  <2> SUFFICES ASSUME n \notin T PROVE FALSE
    OBVIOUS
  <2>1. \A u \in T : u <= n - 1 /\ n - 1 \in Nat
    BY <1>1, <1>3
  <2>2. n - 1 \in B
    BY <1>1, <2>1
  <2> QED
    BY <1>3, <2>2
<1> QED
  BY <1>3, <1>4

----------------------------------------------------------------------------
(* Types. *)

\* Closing a tab of some render shows a tab of that render, or the one shown now.
LEMMA CloseTabFacts ==
  ASSUME TypeOK, NEW ts, ts \subseteq 1..opened, NEW t \in ts,
         NEW tw \in [TabIds -> WorkspaceId], NEW a \in TabIds, CloseTab(t, ts, tw, a)
  PROVE  /\ page' \in Page /\ Settled(page)'
         /\ tabs' = (IF ts = {t} THEN ts ELSE ts \ {t})
         /\ \/ activeTabId' = t /\ ts = {t}
            \/ activeTabId' \in ts \ {t} /\ t = a
            \/ activeTabId' = activeTabId /\ ts # {t} /\ t # a
         /\ tabWorkspace' = [tw EXCEPT ![t] = None]
         /\ tabWorkspace' \in [TabIds -> WorkspaceId]
         /\ navigating' \subseteq WorkspaceId /\ param' = param
         /\ work' = [work EXCEPT ![t] = None] /\ overtaken' = overtaken \ {t}
         /\ opened' = opened /\ UNCHANGED <<opening, loading, preparing>>
<1> DEFINE p == [Persist(page, a) EXCEPT !.cache[t] = None]
           freed == [tw EXCEPT ![t] = None]
           last == CHOOSE u \in ts \ {t} : \A v \in ts \ {t} : v <= u
<1>0. ts \subseteq TabIds /\ page \in Page /\ param \in WorkspaceId /\ activeTabId \in TabIds
  BY TabsAssumption DEF TypeOK, TabIds
<1>1. p \in Page
  <2>1. \A q \in Page : [q EXCEPT !.cache[t] = None] \in Page
    BY PageFields DEF Page
  <2> QED
    BY <1>0, <2>1, PersistFacts
<1>2. freed \in [TabIds -> WorkspaceId]
  BY DEF WorkspaceId
<1>3. ts # {t} => last \in ts \ {t}
  <2> SUFFICES ASSUME ts # {t} PROVE last \in ts \ {t}
    OBVIOUS
  <2>1. \E u \in ts \ {t} : \A v \in ts \ {t} : v <= u
    BY <1>0, LastTab
  <2> QED
    BY <2>1
<1>4. /\ IF ts = {t} THEN ApplyWorkspaceTab(p, t, ts, freed)
         ELSE IF t = a THEN ApplyWorkspaceTab(p, last, ts \ {t}, freed)
         ELSE Rendered(p, activeTabId, ts \ {t}, freed, param) /\ UNCHANGED url
      /\ work' = [work EXCEPT ![t] = None] /\ overtaken' = overtaken \ {t}
      /\ UNCHANGED <<opened, mount, preparing>>
  BY DEF CloseTab
<1> HIDE DEF p, freed, last
<1>5. CASE ts = {t}
  <2>1. ApplyWorkspaceTab(p, t, ts, freed) /\ t \in TabIds
    BY <1>0, <1>4, <1>5
  <2>2. /\ page' \in Page /\ Settled(page)'
        /\ activeTabId' = t /\ tabs' = ts /\ tabWorkspace' = freed
        /\ navigating' \subseteq WorkspaceId /\ param' = param
    BY <1>0, <1>1, <1>2, <2>1, ApplyFacts
  <2> QED
    BY <1>2, <1>4, <1>5, <2>2 DEF freed, mount
<1>6. CASE ts # {t} /\ t = a
  <2>1. ApplyWorkspaceTab(p, last, ts \ {t}, freed) /\ last \in TabIds
    BY <1>0, <1>3, <1>4, <1>6
  <2>2. /\ page' \in Page /\ Settled(page)'
        /\ activeTabId' = last /\ tabs' = ts \ {t} /\ tabWorkspace' = freed
        /\ navigating' \subseteq WorkspaceId /\ param' = param
    BY <1>0, <1>1, <1>2, <2>1, ApplyFacts
  <2> QED
    BY <1>2, <1>3, <1>4, <1>6, <2>2 DEF freed, mount
<1>7. CASE ts # {t} /\ t # a
  BY <1>0, <1>1, <1>2, <1>4, <1>7, RenderedFacts DEF freed, mount, url, TypeOK
<1> QED
  BY <1>5, <1>6, <1>7

\* What is saved, deleted and uploaded, and what was drawn.
RestOK ==
  /\ saving \in Save \cup {None}
  /\ deleting \in Delete \cup {None} /\ (deleting # None => deleting.tabs \subseteq 1..opened)
  /\ uploading \in Upload \cup {None}
  /\ unborn \subseteq Workspaces /\ deleted \subseteq Workspaces
  /\ work \in [TabIds -> Snapshot] /\ overtaken \subseteq TabIds
  /\ adopted \in BOOLEAN /\ crossed \in BOOLEAN

\* The tabs, the page and where it is.
FrontOK ==
  /\ tabs \subseteq 1..opened /\ opened \in TabIds /\ activeTabId \in 1..opened
  /\ tabWorkspace \in [TabIds -> WorkspaceId]
  /\ page \in Page
  /\ param \in WorkspaceId /\ navigating \in SUBSET WorkspaceId
  /\ opening \in BOOLEAN /\ loading \in BOOLEAN /\ preparing \in BOOLEAN

\* These are all the types.
LEMMA TypesParts == Types <=> FrontOK /\ RestOK
BY DEF Types, TypeOK, FrontOK, RestOK

\* A tab that is open is a tab.
LEMMA TabFacts ==
  ASSUME FrontOK
  PROVE  /\ activeTabId \in TabIds /\ tabs \subseteq TabIds /\ 1..opened \subseteq TabIds
         /\ opened \in Nat
         /\ opened < MaxTabs => /\ opened + 1 \in TabIds /\ opened + 1 \notin tabs
                                /\ 1..opened \subseteq 1..(opened + 1)
                                /\ opened + 1 \in 1..(opened + 1)
BY TabsAssumption DEF FrontOK, TabIds

\* The steps that give the canvas a content.
Given(rev) == Draw(rev) \/ GenerationAnswered(rev) \/ ExportRestored(rev)

\* They render a page that holds the content and is the same otherwise.
LEMMA GivenFacts ==
  ASSUME FrontOK, NEW rev \in Revisions, Given(rev)
  PROVE  \E p \in Page, c \in Content :
           /\ Rendered(p, activeTabId, tabs, tabWorkspace, param)
           /\ \A v \in TabIds \ {activeTabId} : p.cache[v] = page.cache[v]
           /\ Holds(p, activeTabId, c)
           /\ p.workspaceId = page.workspaceId /\ (Settled(page) => Settled(p))
           /\ work' = [work EXCEPT ![activeTabId] = c]
           /\ overtaken' = IF saving = None THEN overtaken \ {activeTabId}
                           ELSE overtaken \cup {activeTabId}
           /\ UNCHANGED <<opened, url, mount, preparing, awaited, server, crossed>>
<1>1. page \in Page /\ activeTabId \in TabIds
  BY TabFacts DEF FrontOK
<1>2. PICK o \in Page : /\ o.cache = page.cache /\ o.snapshot = page.snapshot
                        /\ o.hydrated = page.hydrated /\ o.workspaceId = page.workspaceId
                        /\ CanvasGets(o, rev)
  <2>1. CASE Draw(rev) \/ ExportRestored(rev)
    BY <1>1, <2>1 DEF Draw, ExportRestored
  <2>2. CASE GenerationAnswered(rev)
    <3> DEFINE o == [page EXCEPT !.awaits = @ \ {"generation"}]
    <3>1. /\ o \in Page /\ o.cache = page.cache /\ o.snapshot = page.snapshot
          /\ o.hydrated = page.hydrated /\ o.workspaceId = page.workspaceId
      BY <1>1, PageFields DEF Page
    <3>2. CanvasGets(o, rev)
      BY <2>2 DEF GenerationAnswered
    <3> HIDE DEF o
    <3> QED
      BY <3>1, <3>2
  <2> QED
    BY <2>1, <2>2 DEF Given
<1> DEFINE c == [kind |-> "drawn", tab |-> activeTabId, rev |-> rev]
           q == [o EXCEPT !.shown = c]
           p == Emit(q, activeTabId)
<1>3. c \in Content
  BY <1>1 DEF Content, Drawn
<1>4. /\ q \in Page /\ q.cache = o.cache /\ q.shown = c /\ q.snapshot = o.snapshot
      /\ q.hydrated = o.hydrated /\ q.workspaceId = o.workspaceId
  BY <1>2, <1>3, PageFields DEF Page
<1>5. /\ Rendered(p, activeTabId, tabs, tabWorkspace, param)
      /\ work' = [work EXCEPT ![activeTabId] = c]
      /\ overtaken' = IF saving = None THEN overtaken \ {activeTabId}
                      ELSE overtaken \cup {activeTabId}
      /\ UNCHANGED <<opened, url, mount, preparing, awaited, server, crossed>>
  BY <1>2 DEF CanvasGets
<1> HIDE DEF c, q
<1>6. /\ p \in Page /\ p.shown = c /\ p.latest = c /\ p.cache[activeTabId] = c
      /\ \A v \in TabIds \ {activeTabId} : p.cache[v] = page.cache[v]
      /\ p.snapshot = page.snapshot /\ p.hydrated = page.hydrated
      /\ p.workspaceId = page.workspaceId
  BY <1>1, <1>2, <1>4, EmitFacts
<1> HIDE DEF p
<1>7. Holds(p, activeTabId, c) /\ (Settled(page) => Settled(p))
  BY <1>6 DEF Holds, Settled
<1> QED
  BY <1>3, <1>5, <1>6, <1>7

\* Drawing, answers, opening and navigating.
LEMMA CanvasFront ==
  ASSUME FrontOK, RestOK, Opening,
         \/ \E rev \in Revisions : Given(rev)
         \/ Generate
         \/ OpeningEnds \/ WorkspaceLoaded \/ LoadFails \/ NavigationCommits
  PROVE  FrontOK'
<1>0. page \in Page /\ activeTabId \in TabIds /\ param \in WorkspaceId
      /\ navigating \subseteq WorkspaceId
  BY TabFacts DEF FrontOK
<1>1. ASSUME NEW rev \in Revisions, Given(rev) PROVE FrontOK'
  <2>1. PICK p \in Page : /\ Rendered(p, activeTabId, tabs, tabWorkspace, param)
                          /\ UNCHANGED <<opened, url, mount, preparing>>
    BY <1>1, GivenFacts
  <2>2. page' \in Page /\ UNCHANGED <<activeTabId, tabs, tabWorkspace>>
    BY <1>0, <2>1, RenderedFacts
  <2> QED
    BY <2>1, <2>2 DEF FrontOK, url, mount
<1>6. ASSUME Generate PROVE FrontOK'
  <2>1. page' \in Page
    BY <1>0, <1>6, PageFields DEF Generate, Page
  <2> QED
    BY <1>6, <2>1 DEF Generate, FrontOK, tabBar, url, mount
<1>2. ASSUME OpeningEnds PROVE FrontOK'
  <2> DEFINE c == Mount(page, activeTabId)
             l == LoadEffect(c, activeTabId, tabWorkspace[activeTabId], param)
             d == Child(l, activeTabId, c.workspaceId)
  <2>1. c \in Page /\ Settled(c) /\ page' = AutoLoadEffect(d)
    BY <1>0, <1>2, MountFacts DEF OpeningEnds
  <2> HIDE DEF c
  <2>2. d \in Page
    BY <1>0, <2>1, EffectsFacts
  <2> HIDE DEF d
  <2>3. page' \in Page
    BY <2>1, <2>2, AutoLoadFacts
  <2> QED
    BY <1>2, <2>3 DEF OpeningEnds, FrontOK, tabBar, url
<1>3. ASSUME WorkspaceLoaded PROVE FrontOK'
  <2>1. page' \in Page
    <3>1. PICK s \in Content :
            page' = [page EXCEPT !.workspaceId = param, !.snapshot = s, !.latest = s,
                                 !.cache[activeTabId] = s]
      <4>1. param \in Workspaces
        BY <1>0, <1>3 DEF WorkspaceLoaded, Opening, WorkspaceId
      <4>2. {Blank, [kind |-> "stored", workspaceId |-> param]} \subseteq Content
        BY <4>1 DEF Content, Stored
      <4>3. \E s \in {Blank, [kind |-> "stored", workspaceId |-> param]} :
              page' = [page EXCEPT !.workspaceId = param, !.snapshot = s, !.latest = s,
                                   !.cache[activeTabId] = s]
        BY <1>3 DEF WorkspaceLoaded
      <4> QED
        BY <4>2, <4>3
    <3> QED
      BY <1>0, <3>1, PageFields DEF Page
  <2> QED
    BY <1>3, <2>1 DEF WorkspaceLoaded, FrontOK, tabBar, url
<1>4. ASSUME LoadFails PROVE FrontOK'
  BY <1>4 DEF LoadFails, FrontOK, tabBar, url
<1>5. ASSUME NavigationCommits PROVE FrontOK'
  <2>1. param' \in WorkspaceId /\ navigating' = {} /\ UNCHANGED <<opened, mount, preparing>>
        /\ Rendered(page, activeTabId, tabs, tabWorkspace, param')
    BY <1>0, <1>5 DEF NavigationCommits
  <2> QED
    BY <1>0, <2>1, RenderedFacts DEF FrontOK, mount
<1> QED
  BY <1>1, <1>2, <1>3, <1>4, <1>5, <1>6

\* A new tab is opened at the end of the bar.
LEMMA OpenTabFacts ==
  ASSUME FrontOK, NEW p \in Page, NEW w \in WorkspaceId, OpenTab(p, w)
  PROVE  /\ opened' = opened + 1 /\ opened' \in TabIds /\ opened' \notin tabs
         /\ page' \in Page /\ Settled(page)'
         /\ activeTabId' = opened' /\ tabs' = tabs \cup {opened'}
         /\ tabWorkspace' = [tabWorkspace EXCEPT ![opened'] = w]
         /\ tabWorkspace' \in [TabIds -> WorkspaceId]
         /\ navigating' \subseteq WorkspaceId /\ param' = param
         /\ \A v \in TabIds \ {opened'} : page'.cache[v] = p.cache[v]
<1>1. /\ opened < MaxTabs /\ opened' = opened + 1
      /\ ApplyWorkspaceTab(p, opened', tabs \cup {opened'}, [tabWorkspace EXCEPT ![opened'] = w])
  BY DEF OpenTab
<1>2. opened' \in TabIds /\ opened' \notin tabs
  BY <1>1, TabFacts
<1>3. [tabWorkspace EXCEPT ![opened'] = w] \in [TabIds -> WorkspaceId] /\ param \in WorkspaceId
  BY <1>2 DEF FrontOK
<1> QED
  BY <1>1, <1>2, <1>3, ApplyFacts

\* The types of the tab bar once a tab has been opened.
LEMMA OpenTabFront ==
  ASSUME FrontOK, NEW p \in Page, NEW w \in WorkspaceId, OpenTab(p, w),
         UNCHANGED mount, preparing' \in BOOLEAN
  PROVE  FrontOK'
<1>1. /\ opened' = opened + 1 /\ opened' \in TabIds /\ tabs' = tabs \cup {opened'}
      /\ activeTabId' = opened' /\ page' \in Page
      /\ tabWorkspace' \in [TabIds -> WorkspaceId]
      /\ navigating' \subseteq WorkspaceId /\ param' = param
  BY OpenTabFacts
<1>2. /\ 1..opened \subseteq 1..opened' /\ opened' \in 1..opened'
  BY <1>1, TabFacts DEF OpenTab
<1> QED
  BY <1>1, <1>2 DEF FrontOK, mount

\* Selecting a tab.
LEMMA SelectFront ==
  ASSUME FrontOK, NEW t \in tabs, SelectWorkspaceTab(t)
  PROVE  FrontOK'
<1>1. t \in TabIds /\ t \in 1..opened /\ page \in Page /\ param \in WorkspaceId
      /\ tabWorkspace \in [TabIds -> WorkspaceId] /\ activeTabId \in TabIds
  BY TabFacts DEF FrontOK
<1> DEFINE p == IF t = activeTabId THEN page ELSE Persist(page, activeTabId)
<1>2. p \in Page
  BY <1>1, PersistFacts
<1>3. ApplyWorkspaceTab(p, t, tabs, tabWorkspace) /\ UNCHANGED <<opened, mount, preparing>>
  BY DEF SelectWorkspaceTab
<1> HIDE DEF p
<1>4. /\ page' \in Page /\ activeTabId' = t /\ UNCHANGED <<tabs, tabWorkspace, param>>
      /\ navigating' \subseteq WorkspaceId
  BY <1>1, <1>2, <1>3, ApplyFacts
<1> QED
  BY <1>1, <1>3, <1>4 DEF FrontOK, mount

\* Opening and closing tabs.
LEMMA TabsFront ==
  ASSUME FrontOK, RestOK,
         \/ \E t \in tabs : SelectWorkspaceTab(t) \/ CloseWorkspaceTab(t)
         \/ AddWorkspaceTab \/ WorkspaceTabPrepared \/ SelectAsset
         \/ \E w \in Workspaces : OpenRecentProject(w)
         \/ RecentProjectDeleted
  PROVE  FrontOK'
<1>0. /\ page \in Page /\ activeTabId \in TabIds /\ preparing \in BOOLEAN /\ TypeOK
      /\ Persist(page, activeTabId) \in Page
  BY TabFacts, PersistFacts, TypesParts DEF FrontOK, Types
<1>1. ASSUME NEW t \in tabs, SelectWorkspaceTab(t) PROVE FrontOK'
  BY <1>1, SelectFront
<1>c. ASSUME NEW ts, ts \subseteq 1..opened, NEW t \in ts,
             NEW tw \in [TabIds -> WorkspaceId], NEW a \in TabIds, CloseTab(t, ts, tw, a)
      PROVE  FrontOK'
  <2>1. /\ page' \in Page /\ tabs' \subseteq ts /\ activeTabId' \in ts \cup {activeTabId}
        /\ tabWorkspace' \in [TabIds -> WorkspaceId]
        /\ navigating' \subseteq WorkspaceId /\ param' = param
        /\ opened' = opened /\ UNCHANGED <<opening, loading, preparing>>
    <3>1. /\ page' \in Page /\ tabs' = (IF ts = {t} THEN ts ELSE ts \ {t})
          /\ \/ activeTabId' = t /\ ts = {t}
             \/ activeTabId' \in ts \ {t} /\ t = a
             \/ activeTabId' = activeTabId /\ ts # {t} /\ t # a
          /\ tabWorkspace' \in [TabIds -> WorkspaceId]
          /\ navigating' \subseteq WorkspaceId /\ param' = param
          /\ opened' = opened /\ UNCHANGED <<opening, loading, preparing>>
      BY <1>0, <1>c, CloseTabFacts
    <3> QED
      BY <3>1
  <2> QED
    BY <1>c, <2>1 DEF FrontOK
<1>2. ASSUME NEW t \in tabs, CloseWorkspaceTab(t) PROVE FrontOK'
  BY <1>0, <1>2, <1>c DEF CloseWorkspaceTab, FrontOK
<1>3. ASSUME AddWorkspaceTab PROVE FrontOK'
  BY <1>0, <1>3 DEF AddWorkspaceTab, FrontOK, tabBar, url, mount
<1>4. ASSUME WorkspaceTabPrepared PROVE FrontOK'
  BY <1>0, <1>4, OpenTabFront DEF WorkspaceTabPrepared, WorkspaceId
<1>5. ASSUME SelectAsset PROVE FrontOK'
  BY <1>0, <1>5, OpenTabFront DEF SelectAsset, WorkspaceId
<1>6. ASSUME NEW w \in Workspaces, OpenRecentProject(w) PROVE FrontOK'
  <2>1. CASE \E t \in tabs : SelectWorkspaceTab(t)
    BY <2>1, SelectFront
  <2>2. CASE OpenTab(Persist(page, activeTabId), w) /\ UNCHANGED <<mount, preparing>>
    BY <1>0, <2>2, OpenTabFront DEF WorkspaceId
  <2> QED
    BY <1>6, <2>1, <2>2 DEF OpenRecentProject
<1>7. ASSUME RecentProjectDeleted PROVE FrontOK'
  <2> DEFINE closing == {t \in deleting.tabs : deleting.tabWorkspace[t] = deleting.workspaceId}
             first == CHOOSE t \in closing : \A u \in closing : t <= u
  <2>1. /\ deleting # None /\ deleting \in Delete /\ deleting.tabs \subseteq 1..opened
    BY <1>7 DEF RecentProjectDeleted, RestOK
  <2>2. /\ deleting.tabWorkspace \in [TabIds -> WorkspaceId] /\ deleting.active \in TabIds
    BY <2>1 DEF Delete
  <2>3. CASE closing = {}
    BY <1>7, <2>3 DEF RecentProjectDeleted, FrontOK, tabBar, url, mount
  <2>4. CASE closing # {}
    <3>1. closing \subseteq Nat
      BY <2>1, TabFacts DEF TabIds
    <3>2. first \in closing
      BY <2>4, <3>1, LeastNumber
    <3>3. first \in deleting.tabs
      BY <3>2
    <3>4. CloseTab(first, deleting.tabs, deleting.tabWorkspace, deleting.active)
      BY <1>7, <2>4 DEF RecentProjectDeleted
    <3> HIDE DEF first
    <3> QED
      BY <1>c, <2>1, <2>2, <3>3, <3>4
  <2> QED
    BY <2>3, <2>4
<1> QED
  BY <1>1, <1>2, <1>3, <1>4, <1>5, <1>6, <1>7

\* A page that has what the server stored.
LEMMA StoresFacts ==
  ASSUME FrontOK, RestOK, saving # None, NEW w \in WorkspaceId
  PROVE  /\ saving \in Save /\ saving.tab \in TabIds /\ saving.content \in Content
         /\ Stores(w) \in Page
         /\ Stores(w).snapshot = saving.content /\ Stores(w).latest = saving.content
         /\ Stores(w).cache[saving.tab] = saving.content
         /\ \A v \in TabIds \ {saving.tab} : Stores(w).cache[v] = page.cache[v]
         /\ Stores(w).shown = page.shown
<1>1. saving \in Save /\ saving.tab \in TabIds /\ saving.content \in Content /\ page \in Page
  BY DEF RestOK, FrontOK, Save
<1> QED
  BY <1>1, PageFields DEF Stores, Page

\* The page an upload is put in.
UploadPage ==
  LET q == Persist(page, uploading.tab)
      s == IF q.latest # None THEN q.latest ELSE q.cache[uploading.tab]
      p == IF s = None THEN q
           ELSE [q EXCEPT !.latest = s, !.snapshot = s, !.cache[uploading.tab] = s]
  IN  Emit(p, activeTabId)

\* It differs in the tab of the upload and the one that is shown; when the canvas
\* and the latest snapshot agree, they stay what they are.
LEMMA UploadFacts ==
  ASSUME FrontOK, RestOK, uploading # None
  PROVE  /\ uploading \in Upload /\ uploading.tab \in TabIds
         /\ uploading.workspaceId \in WorkspaceId
         /\ UploadPage \in Page /\ UploadPage.workspaceId = page.workspaceId
         /\ \A v \in TabIds \ {uploading.tab, activeTabId} :
              UploadPage.cache[v] = page.cache[v]
         /\ \A k : k # None /\ page.shown = k /\ page.latest = k
              => Holds(UploadPage, activeTabId, k) /\ Calm(UploadPage, k)
<1>1. /\ uploading \in Upload /\ uploading.tab \in TabIds /\ uploading.workspaceId \in WorkspaceId
      /\ page \in Page /\ activeTabId \in TabIds
  BY TabFacts DEF RestOK, FrontOK, Upload
<1> DEFINE q == Persist(page, uploading.tab)
           s == IF q.latest # None THEN q.latest ELSE q.cache[uploading.tab]
           p == IF s = None THEN q
                ELSE [q EXCEPT !.latest = s, !.snapshot = s, !.cache[uploading.tab] = s]
<1>2. /\ q \in Page /\ q.shown = page.shown /\ q.latest = page.latest
      /\ q.workspaceId = page.workspaceId
      /\ \A v \in TabIds \ {uploading.tab} : q.cache[v] = page.cache[v]
  BY <1>1, PersistFacts
<1> HIDE DEF q
<1>3. s \in Snapshot /\ (q.latest # None => s = q.latest)
  BY <1>1, <1>2, PageFields
<1>4. /\ p \in Page /\ p.shown = q.shown /\ p.workspaceId = q.workspaceId
      /\ \A v \in TabIds \ {uploading.tab} : p.cache[v] = q.cache[v]
      /\ s # None => p.snapshot = s /\ p.latest = s
  <2> HIDE DEF s
  <2>1. CASE s = None
    BY <1>2, <2>1
  <2>2. CASE s # None
    BY <1>1, <1>2, <1>3, <2>2, PageFields DEF Page
  <2> QED
    BY <2>1, <2>2
<1>5. UploadPage = Emit(p, activeTabId)
  BY DEF UploadPage, q
<1> HIDE DEF p, s
<1>6. /\ UploadPage \in Page /\ UploadPage.shown = p.shown /\ UploadPage.latest = p.shown
      /\ UploadPage.cache[activeTabId] = p.shown /\ UploadPage.snapshot = p.snapshot
      /\ UploadPage.workspaceId = p.workspaceId
      /\ \A v \in TabIds \ {activeTabId} : UploadPage.cache[v] = p.cache[v]
  BY <1>1, <1>4, <1>5, EmitFacts
<1> QED
  BY <1>1, <1>2, <1>3, <1>4, <1>6 DEF Holds, Calm

\* Saves, deletes and uploads.
LEMMA CallsFront ==
  ASSUME FrontOK, RestOK,
         \/ SaveWorkspace \/ WorkspaceUpdated \/ SaveFails
         \/ \E w \in Workspaces : WorkspaceCreated(w) \/ DeleteRecentProject(w)
         \/ DeleteFails \/ UploadImageFile \/ ApplyWorkspaceUpload \/ UploadFails
  PROVE  FrontOK'
<1>0. /\ page \in Page /\ activeTabId \in TabIds /\ param \in WorkspaceId
      /\ tabWorkspace \in [TabIds -> WorkspaceId] /\ page.workspaceId \in WorkspaceId
      /\ tabs \subseteq TabIds
  BY TabFacts, PageFields DEF FrontOK
<1>1. ASSUME WorkspaceUpdated PROVE FrontOK'
  <2>1. /\ saving # None
        /\ Rendered(Stores(page.workspaceId), activeTabId, tabs, tabWorkspace, param)
        /\ UNCHANGED <<opened, url, mount, preparing>>
    BY <1>1 DEF WorkspaceUpdated
  <2>2. page' \in Page /\ UNCHANGED <<activeTabId, tabs, tabWorkspace>>
    BY <1>0, <2>1, StoresFacts, RenderedFacts
  <2> QED
    BY <2>1, <2>2 DEF FrontOK, url, mount
<1>2. ASSUME NEW w \in Workspaces, WorkspaceCreated(w) PROVE FrontOK'
  <2> DEFINE tw == [t \in TabIds |-> IF t = saving.tab /\ t \in tabs THEN w ELSE tabWorkspace[t]]
  <2>1. /\ saving # None /\ Rendered(Stores(w), activeTabId, tabs, tw, param)
        /\ navigating' = {w} /\ UNCHANGED <<opened, param, mount, preparing>>
    BY <1>2 DEF WorkspaceCreated
  <2>2. tw \in [TabIds -> WorkspaceId] /\ w \in WorkspaceId
    BY <1>0 DEF WorkspaceId
  <2> HIDE DEF tw
  <2>3. page' \in Page /\ tabWorkspace' = tw /\ UNCHANGED <<activeTabId, tabs>>
    BY <1>0, <2>1, <2>2, StoresFacts, RenderedFacts
  <2> QED
    BY <2>1, <2>2, <2>3 DEF FrontOK, mount
<1>3. ASSUME ApplyWorkspaceUpload PROVE FrontOK'
  <2> DEFINE tw == [t \in TabIds |-> IF t = uploading.tab /\ t \in tabs
                                     THEN uploading.workspaceId ELSE tabWorkspace[t]]
  <2>1. /\ uploading # None /\ Rendered(UploadPage, activeTabId, tabs, tw, param)
        /\ navigating' = {uploading.workspaceId} /\ UNCHANGED <<opened, param, mount, preparing>>
    BY <1>3 DEF ApplyWorkspaceUpload, UploadPage
  <2>2. tw \in [TabIds -> WorkspaceId] /\ uploading.workspaceId \in WorkspaceId
    BY <1>0, <2>1, UploadFacts
  <2> HIDE DEF tw
  <2>3. page' \in Page /\ tabWorkspace' = tw /\ UNCHANGED <<activeTabId, tabs>>
    BY <1>0, <2>1, <2>2, UploadFacts, RenderedFacts
  <2> QED
    BY <2>1, <2>2, <2>3 DEF FrontOK, mount
<1>4. ASSUME UNCHANGED <<tabBar, page, url, mount, preparing>> PROVE FrontOK'
  BY <1>4 DEF FrontOK, tabBar, url, mount
<1> QED
  BY <1>1, <1>2, <1>3, <1>4
  DEF SaveWorkspace, SaveFails, DeleteRecentProject, DeleteFails, UploadImageFile, UploadFails

\* If the tabs have not crossed a closure, either they are the same or nothing is
\* awaited.
LEMMA NoteFacts ==
  ASSUME crossed \in BOOLEAN, NoteCrossing
  PROVE  /\ crossed' \in BOOLEAN
         /\ ~crossed' => /\ ~crossed
                         /\ \/ UNCHANGED tabBar
                            \/ saving' = None /\ deleting' = None /\ uploading' = None
<1>1. crossed' = (crossed \/ (tabBar' # tabBar /\ {saving', deleting', uploading'} # {None}))
  BY DEF NoteCrossing
<1>2. crossed' \in BOOLEAN
  BY <1>1
<1>3. ASSUME ~crossed'
      PROVE  ~crossed /\ (tabBar' = tabBar \/ {saving', deleting', uploading'} = {None})
  BY <1>1, <1>3
<1> QED
  BY <1>2, <1>3

\* A step crosses nothing, or notes it.
LEMMA CrossingStep ==
  ASSUME crossed \in BOOLEAN, [Next]_vars
  PROVE  /\ crossed' \in BOOLEAN
         /\ ~crossed' => ~crossed
<1>1. CASE NoteCrossing
  BY <1>1, NoteFacts
<1>2. CASE UNCHANGED crossed
  BY <1>2
<1> QED
  BY <1>1, <1>2 DEF Next, UserStep, Answer, vars, Draw, Generate, GenerationAnswered,
     ExportRestored, CanvasGets, SelectWorkspaceTab, CloseWorkspaceTab,
     CloseTab, AddWorkspaceTab, SelectAsset, OpenRecentProject, DeleteRecentProject,
     SaveWorkspace, UploadImageFile, OpeningEnds, NavigationCommits, WorkspaceTabPrepared,
     WorkspaceLoaded, LoadFails, WorkspaceUpdated, SaveFails, WorkspaceCreated,
     RecentProjectDeleted, DeleteFails, ApplyWorkspaceUpload, UploadFails

\* A step renders the page, or leaves open which project a draft has taken.
LEMMA AdoptedStep ==
  ASSUME adopted \in BOOLEAN, [Next]_vars PROVE adopted' \in BOOLEAN
<1>1. CASE \E q, t, ts, tw, u : Rendered(q, t, ts, tw, u)
  <2>1. PICK q, t, ts, tw, u : Rendered(q, t, ts, tw, u)
    BY <1>1
  <2>2. \E a, b, c, d : adopted' = (a \/ (b /\ c /\ d))
    BY <2>1 DEF Rendered
  <2> QED
    BY <2>2
<1>2. CASE UNCHANGED adopted
  BY <1>2
<1>3. CASE \E q, t, ts, tw : ApplyWorkspaceTab(q, t, ts, tw)
  BY <1>1, <1>3 DEF ApplyWorkspaceTab
<1>4. CASE \E q, w : OpenTab(q, w)
  BY <1>3, <1>4 DEF OpenTab
<1>5. CASE \E t \in tabs : SelectWorkspaceTab(t)
  BY <1>3, <1>5 DEF SelectWorkspaceTab
<1>6. CASE \E t, ts, tw, a : CloseTab(t, ts, tw, a)
  BY <1>1, <1>3, <1>6 DEF CloseTab
<1>7. CASE UserStep
  BY <1>1, <1>2, <1>4, <1>5, <1>6, <1>7 DEF UserStep, Draw, Generate, CanvasGets,
     CloseWorkspaceTab, AddWorkspaceTab, SelectAsset, OpenRecentProject, DeleteRecentProject,
     SaveWorkspace, UploadImageFile
<1>8. CASE Answer
  BY <1>1, <1>2, <1>4, <1>6, <1>8 DEF Answer, GenerationAnswered, ExportRestored, CanvasGets,
     OpeningEnds, NavigationCommits, WorkspaceTabPrepared, WorkspaceLoaded, LoadFails,
     WorkspaceUpdated, SaveFails, WorkspaceCreated, RecentProjectDeleted, DeleteFails,
     ApplyWorkspaceUpload, UploadFails
<1> QED
  BY <1>2, <1>7, <1>8 DEF Next, vars

\* What is awaited and drawn keeps its type.
LEMMA StepRest ==
  ASSUME FrontOK, RestOK, [Next]_vars PROVE RestOK'
<1>0. /\ page \in Page /\ activeTabId \in TabIds /\ tabs \subseteq 1..opened
      /\ tabWorkspace \in [TabIds -> WorkspaceId] /\ opened \in Nat
      /\ crossed' \in BOOLEAN /\ adopted' \in BOOLEAN
  BY TabFacts, CrossingStep, AdoptedStep DEF FrontOK, RestOK
<1> DEFINE Closures == /\ saving' \in Save \cup {None}
                       /\ \/ deleting' \in {deleting, None}
                          \/ deleting' \in Delete /\ deleting'.tabs \subseteq 1..opened
                       /\ uploading' \in Upload \cup {None}
           Rest == /\ 1..opened \subseteq 1..opened'
                   /\ unborn' \subseteq unborn /\ deleted' \subseteq Workspaces
                   /\ work' \in [TabIds -> Snapshot] /\ overtaken' \subseteq TabIds
<1>c. ASSUME UNCHANGED awaited PROVE Closures
  BY <1>c DEF awaited, RestOK
<1>d. ASSUME Closures, Rest PROVE RestOK'
  BY <1>0, <1>d DEF RestOK
<1>r. ASSUME 1..opened \subseteq 1..opened', UNCHANGED <<server, history>> PROVE Rest
  BY <1>r DEF server, history, RestOK
<1>w. ASSUME NEW t, UNCHANGED <<opened, server>>, work' = [work EXCEPT ![t] = None],
             overtaken' = overtaken \ {t}
      PROVE  Rest
  BY <1>w, PageFields, <1>0 DEF server, RestOK
<1>o. ASSUME opened' = opened + 1 PROVE 1..opened \subseteq 1..opened'
  BY <1>0, <1>o
<1>1. ASSUME UNCHANGED vars PROVE RestOK'
  BY <1>1, <1>c, <1>d, <1>r DEF vars, awaited, server, history
<1> HIDE DEF Closures, Rest
<1>2. ASSUME NEW rev \in Revisions, Given(rev) PROVE RestOK'
  <2>1. PICK c \in Content :
          /\ work' = [work EXCEPT ![activeTabId] = c]
          /\ overtaken' = IF saving = None THEN overtaken \ {activeTabId}
                          ELSE overtaken \cup {activeTabId}
          /\ UNCHANGED <<opened, awaited, server>>
    BY <1>2, GivenFacts
  <2>2. Rest
    BY <1>0, <2>1, PageFields DEF Rest, RestOK, server
  <2> QED
    BY <1>c, <1>d, <2>1, <2>2
<1>3. ASSUME NEW t, SelectWorkspaceTab(t) PROVE RestOK'
  BY <1>3, <1>c, <1>d, <1>r DEF SelectWorkspaceTab
<1>4. ASSUME NEW t, CloseWorkspaceTab(t) PROVE RestOK'
  BY <1>4, <1>c, <1>d, <1>w DEF CloseWorkspaceTab, CloseTab
<1>5. ASSUME \/ AddWorkspaceTab \/ Generate
             \/ OpeningEnds \/ WorkspaceLoaded \/ LoadFails \/ NavigationCommits
      PROVE  RestOK'
  BY <1>5, <1>c, <1>d, <1>r
  DEF AddWorkspaceTab, Generate, OpeningEnds, WorkspaceLoaded, LoadFails, NavigationCommits, tabBar
<1>6. ASSUME NEW p, NEW w, OpenTab(p, w), UNCHANGED <<awaited, server, history>> PROVE RestOK'
  BY <1>6, <1>c, <1>d, <1>r, <1>o DEF OpenTab
<1>7. ASSUME NEW w, OpenRecentProject(w) PROVE RestOK'
  BY <1>7, <1>3, <1>6 DEF OpenRecentProject
<1>8. ASSUME WorkspaceTabPrepared \/ SelectAsset PROVE RestOK'
  BY <1>8, <1>6 DEF WorkspaceTabPrepared, SelectAsset
<1>9. ASSUME SaveWorkspace PROVE RestOK'
  <2>1. saving' \in Save
    BY <1>0, <1>9, PageFields DEF SaveWorkspace, Save, Snapshot
  <2> QED
    BY <1>9, <1>d, <1>r, <2>1 DEF SaveWorkspace, Closures, RestOK, tabBar
<1>10. ASSUME NEW w \in Workspaces, DeleteRecentProject(w) PROVE RestOK'
  <2>1. deleting' \in Delete /\ deleting'.tabs = tabs
    BY <1>0, <1>10, TabFacts DEF DeleteRecentProject, Delete
  <2> QED
    BY <1>0, <1>10, <1>d, <1>r, <2>1 DEF DeleteRecentProject, Closures, RestOK, tabBar
<1>11. ASSUME UploadImageFile PROVE RestOK'
  <2>1. uploading' \in Upload
    BY <1>0, <1>11 DEF UploadImageFile, Upload
  <2> QED
    BY <1>11, <1>d, <1>r, <2>1 DEF UploadImageFile, Closures, RestOK, tabBar
<1>12. ASSUME WorkspaceUpdated \/ SaveFails \/ DeleteFails \/ ApplyWorkspaceUpload \/ UploadFails
       PROVE  RestOK'
  BY <1>12, <1>d, <1>r DEF WorkspaceUpdated, SaveFails, DeleteFails, ApplyWorkspaceUpload,
     UploadFails, Closures, RestOK, tabBar
<1>13. ASSUME NEW w, WorkspaceCreated(w) PROVE RestOK'
  <2>1. Closures /\ Rest
    BY <1>13 DEF WorkspaceCreated, Closures, Rest, RestOK, history
  <2> QED
    BY <1>d, <2>1
<1>14. ASSUME RecentProjectDeleted PROVE RestOK'
  <2>1. /\ deleting # None /\ deleting' = None /\ UNCHANGED <<saving, uploading, unborn, opened>>
        /\ deleted' = deleted \cup {deleting.workspaceId}
        /\ work' = work \/ \E t : work' = [work EXCEPT ![t] = None]
        /\ overtaken' \subseteq overtaken
    BY <1>14 DEF RecentProjectDeleted, CloseTab, tabBar, history
  <2>2. deleted' \subseteq Workspaces
    BY <2>1 DEF RestOK, Delete
  <2>3. work' \in [TabIds -> Snapshot]
    BY <1>0, <2>1, PageFields DEF RestOK
  <2>4. Closures /\ Rest
    BY <2>1, <2>2, <2>3 DEF Closures, Rest, RestOK
  <2> QED
    BY <1>d, <2>4
<1> QED
  BY <1>1, <1>2, <1>3, <1>4, <1>5, <1>6, <1>7, <1>8, <1>9, <1>10, <1>11, <1>12, <1>13, <1>14
  DEF Next, UserStep, Answer, Given

\* The page opens once, before anything else.
LEMMA StepOpening ==
  ASSUME FrontOK, RestOK, Opening, [Next]_vars PROVE Opening'
<1>0. kept' = kept \/ ~UNCHANGED history
  BY DEF kept, history
<1>1. ASSUME UNCHANGED <<opening, loading, preparing, navigating, param, saving, deleting,
                         uploading, kept, page>>
      PROVE  Opening'
  BY <1>1 DEF Opening
<1>2. ASSUME ~opening', ~loading' PROVE Opening'
  BY <1>2 DEF Opening
<1>3. ASSUME ~opening, UNCHANGED mount PROVE Opening'
  BY <1>2, <1>3 DEF Opening, mount
<1>4. CASE OpeningEnds
  BY <1>2, <1>4 DEF OpeningEnds
<1>5. CASE WorkspaceLoaded \/ LoadFails
  <2>1. page'.awaits = page.awaits
    BY <1>5, PageFields DEF WorkspaceLoaded, LoadFails, FrontOK, Page
  <2> QED
    BY <1>0, <1>5, <2>1 DEF WorkspaceLoaded, LoadFails, Opening, url, awaited, tabBar
<1>6. CASE UNCHANGED vars
  BY <1>0, <1>1, <1>6 DEF vars, url, mount, awaited, history
<1>7. CASE Generate \/ \E rev \in Revisions : Given(rev)
  BY <1>3, <1>7 DEF Generate, Given, Draw, GenerationAnswered, ExportRestored, CanvasGets,
     UserActs, Opening
<1>8. CASE \E t \in tabs : SelectWorkspaceTab(t) \/ CloseWorkspaceTab(t)
  BY <1>3, <1>8 DEF SelectWorkspaceTab, CloseWorkspaceTab, CloseTab, UserActs
<1>9. CASE \/ AddWorkspaceTab \/ SelectAsset \/ SaveWorkspace \/ UploadImageFile
           \/ \E w \in Workspaces : OpenRecentProject(w) \/ DeleteRecentProject(w)
  BY <1>3, <1>9 DEF AddWorkspaceTab, SelectAsset, SaveWorkspace, UploadImageFile,
     OpenRecentProject, SelectWorkspaceTab, DeleteRecentProject, NewRequest, UserActs
<1>10. CASE \/ NavigationCommits \/ WorkspaceTabPrepared \/ WorkspaceUpdated \/ SaveFails
            \/ \E w \in Workspaces : WorkspaceCreated(w)
            \/ DeleteFails \/ ApplyWorkspaceUpload \/ UploadFails
  BY <1>3, <1>10 DEF NavigationCommits, WorkspaceTabPrepared, WorkspaceUpdated, SaveFails,
     WorkspaceCreated, DeleteFails, ApplyWorkspaceUpload, UploadFails, Opening
<1>11. CASE RecentProjectDeleted
  BY <1>3, <1>11 DEF RecentProjectDeleted, CloseTab, Opening
<1> QED
  BY <1>4, <1>5, <1>6, <1>7, <1>8, <1>9, <1>10, <1>11
  DEF Next, UserStep, Answer, Given

\* The types hold from the start.
LEMMA InitTypes == Init => Types /\ Opening
<1> SUFFICES ASSUME Init PROVE Types /\ Opening
  OBVIOUS
<1>0. 1 \in TabIds /\ param \in WorkspaceId /\ None \in WorkspaceId
  BY TabsAssumption DEF Init, TabIds, WorkspaceId
<1>1. page \in Page
  BY <1>0 DEF Init, Page, Snapshot, Content
<1>2. FrontOK
  <2>1. 1..opened = {1}
    BY DEF Init
  <2>2. tabWorkspace \in [TabIds -> WorkspaceId]
    BY <1>0 DEF Init
  <2> QED
    BY <1>0, <1>1, <2>1, <2>2 DEF Init, FrontOK
<1>3. RestOK /\ Opening
  BY <1>0 DEF Init, RestOK, Opening, Snapshot, kept
<1> QED
  BY <1>2, <1>3, TypesParts

\* Every step keeps the types.
LEMMA StepTypes == Types /\ Opening /\ [Next]_vars => Types' /\ Opening'
<1> SUFFICES ASSUME FrontOK, RestOK, Opening, [Next]_vars PROVE FrontOK' /\ RestOK' /\ Opening'
  <2>1. Types' <=> FrontOK' /\ RestOK'
    BY DEF Types, TypeOK, FrontOK, RestOK
  <2> QED
    BY <2>1, TypesParts
<1>1. RestOK' /\ Opening'
  BY StepRest, StepOpening
<1>2. CASE UNCHANGED vars
  BY <1>1, <1>2 DEF vars, FrontOK
<1>3. CASE Next
  BY <1>1, <1>3, CanvasFront, TabsFront, CallsFront DEF Next, UserStep, Answer, Given
<1> QED
  BY <1>1, <1>2, <1>3

\* The types hold throughout.
LEMMA TypesHold == Spec => [](Types /\ Opening)
BY InitTypes, StepTypes, PTL DEF Spec

\* Whatever tabs are opened and closed while the server is awaited, the tab that is
\* shown is one that was opened, and so is every tab a closure goes on with.
THEOREM TypeCorrect == Spec => []TypeOK
BY TypesHold, PTL DEF Types

----------------------------------------------------------------------------
(* The work of the tabs. *)

\* The effects after a render keep to the tab's project, or take the URL's in a draft.
LEMMA ChildProject ==
  ASSUME NEW q \in Page, NEW t \in TabIds, NEW before
  PROVE  Child(q, t, before).workspaceId = q.workspaceId
<1>1. \/ q.snapshot # None /\ Child(q, t, before) = Hydrate(q)
      \/ Child(q, t, before) = Emit(q, t)
      \/ Child(q, t, before) = q
  BY DEF Child
<1> QED
  BY <1>1, EmitFacts, HydrateFacts

\* Mounting, too.
LEMMA MountProject ==
  ASSUME NEW q \in Page, NEW t \in TabIds
  PROVE  Mount(q, t).workspaceId = q.workspaceId
<1> DEFINE m == [q EXCEPT !.shown = Blank, !.hydrated = {}, !.awaits = {}]
<1>1. m \in Page /\ m.snapshot = q.snapshot /\ m.workspaceId = q.workspaceId
  BY PageFields DEF Page
<1>2. Mount(q, t) = IF q.snapshot # None THEN Hydrate(m) ELSE Emit(m, t)
  BY DEF Mount
<1> HIDE DEF m
<1> QED
  BY <1>1, <1>2, EmitFacts, HydrateFacts

\* The load effect gives a tab the URL's project when it is its own, or the tab a draft.
LEMMA LoadProject ==
  ASSUME NEW q \in Page, NEW t \in TabIds, NEW own, NEW u \in WorkspaceId
  PROVE  \/ LoadEffect(q, t, own, u).workspaceId = q.workspaceId
         \/ LoadEffect(q, t, own, u).workspaceId = own
         \/ Adopts(q, t, own, u)
<1>1. CASE u # None /\ own \in {None, u} /\ q.cache[t] # None
  <2>1. LoadEffect(q, t, own, u).workspaceId = u
    BY <1>1, PageFields DEF LoadEffect, Page
  <2> QED
    BY <1>1, <2>1 DEF Adopts
<1>2. CASE ~(u # None /\ own \in {None, u} /\ q.cache[t] # None)
  BY <1>2 DEF LoadEffect
<1> QED
  BY <1>1, <1>2

\* A render leaves the page with the project of the tab, or with one the draft took.
LEMMA RenderedOwns ==
  ASSUME NEW q \in Page, NEW t \in TabIds, NEW ts, t \in ts, NEW tw, NEW u \in WorkspaceId,
         Rendered(q, t, ts, tw, u),
         \/ q.workspaceId = tw[t]
         \/ t = activeTabId /\ q.workspaceId = page.workspaceId /\ adopted /\ tw[t] = None
  PROVE  Owns(page', tw[t], adopted')
<1> DEFINE c == IF t # activeTabId THEN Mount(q, t) ELSE Child(q, t, page.workspaceId)
           l == LoadEffect(c, t, tw[t], u)
           d == Child(l, t, c.workspaceId)
<1>1. c \in Page /\ c.workspaceId = q.workspaceId
  BY MountFacts, MountProject, ChildFacts, ChildProject
<1>2. /\ page' = AutoLoadEffect(d) \/ page' = d
      /\ Adopts(c, t, tw[t], u) => adopted'
      /\ adopted /\ t = activeTabId /\ c.workspaceId = page.workspaceId => adopted'
  BY DEF Rendered
<1> HIDE DEF c
<1>3. l \in Page /\ (l.workspaceId \in {c.workspaceId, tw[t]} \/ Adopts(c, t, tw[t], u))
  BY <1>1, LoadEffectFacts, LoadProject
<1> HIDE DEF l
<1>4. d \in Page /\ d.workspaceId = l.workspaceId
  BY <1>3, ChildFacts, ChildProject
<1> HIDE DEF d
<1>5. page'.workspaceId = l.workspaceId
  BY <1>2, <1>4, AutoLoadFacts
<1>6. Adopts(c, t, tw[t], u) => tw[t] = None
  BY DEF Adopts
<1> QED
  BY <1>1, <1>2, <1>3, <1>5, <1>6 DEF Owns

\* So does selecting a tab.
LEMMA ApplyOwns ==
  ASSUME NEW q \in Page, NEW t \in TabIds, NEW ts, t \in ts,
         NEW tw \in [TabIds -> WorkspaceId], param \in WorkspaceId,
         ApplyWorkspaceTab(q, t, ts, tw)
  PROVE  Owns(page', tabWorkspace'[activeTabId'], adopted')
<1> DEFINE o == [q EXCEPT !.workspaceId = tw[t], !.snapshot = q.cache[t], !.latest = q.cache[t]]
<1>1. o \in Page /\ o.workspaceId = tw[t]
  BY PageFields DEF Page
<1>2. Rendered(o, t, ts, tw, param)
  BY DEF ApplyWorkspaceTab
<1> HIDE DEF o
<1>3. Owns(page', tw[t], adopted')
  BY <1>1, <1>2, RenderedOwns
<1> QED
  BY <1>2, <1>3 DEF Rendered

\* Everything that is known of a state.
Known == FrontOK /\ RestOK /\ Opening /\ Working /\ Awaiting /\ Distinct

\* A step that leaves the history alone leaves what the tabs are to keep; a tab that
\* is closed is to keep nothing.
LEMMA KeptFacts ==
  ASSUME RestOK
  PROVE  /\ UNCHANGED history => kept' = kept
         /\ \A t \in TabIds : work' = [work EXCEPT ![t] = None] /\ overtaken' = overtaken \ {t}
                            => kept' = [kept EXCEPT ![t] = None]
         /\ \A t \in TabIds : \A c : work' = [work EXCEPT ![t] = c]
              => /\ overtaken' = overtaken \ {t} => kept' = [kept EXCEPT ![t] = c]
                 /\ overtaken' = overtaken \cup {t} => kept' = [kept EXCEPT ![t] = None]
         /\ kept \in [TabIds -> Snapshot]
BY PageFields DEF kept, history, RestOK, Snapshot

\* Closing a tab, too.
LEMMA CloseKeeps ==
  ASSUME RestOK, NEW t \in TabIds, NEW ts, NEW tw, NEW a, CloseTab(t, ts, tw, a)
  PROVE  NoteCrossing /\ kept' = [kept EXCEPT ![t] = None]
BY KeptFacts DEF CloseTab

\* A closure goes on remembering the tabs as they are.
LEMMA AwaitingStep ==
  ASSUME Awaiting,
         ~crossed' => /\ ~crossed
                      /\ \/ UNCHANGED tabBar
                         \/ saving' = None /\ deleting' = None /\ uploading' = None,
         saving' \in {saving, None}, deleting' \in {deleting, None},
         uploading' \in {uploading, None},
         activeTabId' = activeTabId /\ saving' # None
           => kept'[activeTabId] \in {kept[activeTabId], None}
  PROVE  Awaiting'
BY DEF Awaiting, tabBar

\* A step that changes no tab leaves them distinct.
LEMMA DistinctStep ==
  ASSUME Distinct, ~crossed' => ~crossed, unborn' \subseteq unborn,
         UNCHANGED <<tabs, activeTabId, tabWorkspace>>
  PROVE  Distinct'
BY DEF Distinct

\* A render of the tab that is shown keeps the work when the page it is made from
\* holds it.
LEMMA StayWorks ==
  ASSUME Known, NEW p \in Page, NEW tw, NEW u \in WorkspaceId,
         Rendered(p, activeTabId, tabs, tw, u),
         ~crossed' =>
           /\ ~crossed
           /\ \A v \in TabIds \ {activeTabId} : p.cache[v] = page.cache[v] /\ kept'[v] = kept[v]
           /\ kept'[activeTabId] # None
                => /\ Holds(p, activeTabId, kept'[activeTabId])
                   /\ Calm(p, kept'[activeTabId])
  PROVE  Working'
<1>1. activeTabId \in TabIds
  BY TabFacts DEF Known
<1>2. /\ Settled(page)' /\ activeTabId' = activeTabId /\ tabs' = tabs
      /\ \A v \in TabIds \ {activeTabId} : page'.cache[v] = p.cache[v]
      /\ \A k : k # None /\ Holds(p, activeTabId, k) /\ Calm(p, k)
                  => Holds(page', activeTabId, k)
  BY <1>1, RenderedFacts
<1>3. ASSUME ~crossed'
      PROVE  /\ \A t \in TabIds \ tabs' : kept'[t] = None
             /\ \A t \in tabs' \ {activeTabId'} : kept'[t] # None => page'.cache[t] = kept'[t]
             /\ kept'[activeTabId'] # None
                  => Holds(page', activeTabId', kept'[activeTabId'])
  <2>1. activeTabId \in tabs /\ tabs \subseteq TabIds
    BY <1>3, TabFacts DEF Known, Distinct
  <2> QED
    BY <1>2, <1>3, <2>1 DEF Known, Working
<1> QED
  BY <1>2, <1>3 DEF Working, Holds

\* Selecting a tab keeps the work that the cache has.
LEMMA MoveWorks ==
  ASSUME Known, NEW p \in Page, NEW t \in TabIds, NEW ts \in SUBSET TabIds,
         NEW tw \in [TabIds -> WorkspaceId], ApplyWorkspaceTab(p, t, ts, tw),
         ~crossed' =>
           /\ \A v \in TabIds \ ts : kept'[v] = None
           /\ \A v \in ts : kept'[v] # None => p.cache[v] = kept'[v]
           /\ kept'[t] # None => p.cache[t] = kept'[t] /\ (t = activeTabId => p.shown = kept'[t])
  PROVE  Working'
<1>1. param \in WorkspaceId
  BY DEF Known, FrontOK
<1>2. /\ Settled(page)' /\ activeTabId' = t /\ tabs' = ts
      /\ \A v \in TabIds \ {t} : page'.cache[v] = p.cache[v]
      /\ \A k : k # None /\ p.cache[t] = k /\ (t = activeTabId => p.shown = k)
                  => Holds(page', t, k)
  BY <1>1, ApplyFacts
<1>3. ASSUME ~crossed'
      PROVE  /\ \A v \in TabIds \ tabs' : kept'[v] = None
             /\ \A v \in tabs' \ {activeTabId'} : kept'[v] # None => page'.cache[v] = kept'[v]
             /\ kept'[activeTabId'] # None
                  => Holds(page', activeTabId', kept'[activeTabId'])
  BY <1>2, <1>3
<1> QED
  BY <1>2, <1>3 DEF Working, Holds

\* The cache has the work of every tab but the one that is shown, and of that one, too.
LEMMA CacheWorks ==
  ASSUME Known, ~crossed, NEW p \in {page, Persist(page, activeTabId)}
  PROVE  /\ p \in Page /\ activeTabId \in tabs
         /\ \A v \in tabs : kept[v] # None => p.cache[v] = kept[v]
         /\ kept[activeTabId] # None => Holds(p, activeTabId, kept[activeTabId])
         /\ Settled(page) => Settled(p)
<1>1. /\ page \in Page /\ activeTabId \in TabIds /\ activeTabId \in tabs /\ tabs \subseteq TabIds
  BY TabFacts DEF Known, FrontOK, Distinct
<1>2. /\ \A v \in tabs \ {activeTabId} : kept[v] # None => page.cache[v] = kept[v]
      /\ kept[activeTabId] # None => Holds(page, activeTabId, kept[activeTabId])
  BY DEF Known, Working
<1>3. CASE p = page
  BY <1>1, <1>2, <1>3 DEF Holds
<1>4. CASE p = Persist(page, activeTabId)
  BY <1>1, <1>2, <1>4, PersistFacts DEF Holds, Settled
<1> QED
  BY <1>3, <1>4

\* A tab that is selected shows the work it had.
LEMMA SelectWorks ==
  ASSUME Known, NEW t \in tabs, SelectWorkspaceTab(t) PROVE Working' /\ Awaiting' /\ Distinct'
<1> DEFINE p == IF t = activeTabId THEN page ELSE Persist(page, activeTabId)
<1>0. /\ p \in Page /\ t \in TabIds /\ tabs \in SUBSET TabIds
      /\ tabWorkspace \in [TabIds -> WorkspaceId] /\ param \in WorkspaceId
  BY TabFacts, PersistFacts DEF Known, FrontOK
<1>1. /\ ApplyWorkspaceTab(p, t, tabs, tabWorkspace)
      /\ UNCHANGED <<opened, awaited, server, kept>> /\ NoteCrossing
  BY KeptFacts DEF SelectWorkspaceTab, Known
<1>2. ~crossed' => /\ ~crossed
                   /\ \/ UNCHANGED tabBar
                      \/ saving' = None /\ deleting' = None /\ uploading' = None
  BY <1>1, NoteFacts DEF Known, RestOK
<1>3. ~crossed => /\ \A v \in tabs : kept[v] # None => p.cache[v] = kept[v]
                  /\ activeTabId \in tabs
                  /\ kept[activeTabId] # None => Holds(p, activeTabId, kept[activeTabId])
  BY CacheWorks
<1>4. activeTabId' = t /\ tabs' = tabs /\ tabWorkspace' = tabWorkspace
  BY <1>0, <1>1, ApplyFacts
<1> HIDE DEF p
<1>5. Working'
  <2>1. \A v \in TabIds \ tabs : ~crossed => kept[v] = None
    BY DEF Known, Working
  <2>2. kept' = kept
    BY <1>1
  <2>3. ~crossed' =>
           /\ \A v \in TabIds \ tabs : kept'[v] = None
           /\ \A v \in tabs : kept'[v] # None => p.cache[v] = kept'[v]
           /\ kept'[t] # None => p.cache[t] = kept'[t] /\ (t = activeTabId => p.shown = kept'[t])
    BY <1>2, <1>3, <2>1, <2>2 DEF Holds
  <2> QED
    BY <1>0, <1>1, <2>3, MoveWorks
<1>6. Awaiting'
  BY <1>1, <1>2, AwaitingStep DEF Known, awaited
<1>7. Distinct'
  BY <1>1, <1>2, <1>4 DEF Known, Distinct, server
<1> QED
  BY <1>5, <1>6, <1>7

\* A new tab takes nothing from the others, and has no workspace they have.
LEMMA OpenWorks ==
  ASSUME Known, NEW p \in {page, Persist(page, activeTabId)}, NEW w \in WorkspaceId,
         w \notin unborn, w = None \/ \A t \in tabs : tabWorkspace[t] # w,
         OpenTab(p, w), UNCHANGED <<awaited, server, history>>, NoteCrossing
  PROVE  Working' /\ Awaiting' /\ Distinct'
<1>0. /\ p \in Page /\ tabs \subseteq TabIds /\ tabWorkspace \in [TabIds -> WorkspaceId]
      /\ activeTabId \in TabIds
  BY TabFacts, PersistFacts DEF Known, FrontOK
<1>k. kept' = kept
  BY KeptFacts DEF Known
<1>1. ~crossed' => /\ ~crossed
                   /\ \/ UNCHANGED tabBar
                      \/ saving' = None /\ deleting' = None /\ uploading' = None
  BY NoteFacts DEF Known, RestOK
<1>2. /\ opened' \in TabIds /\ opened' \notin tabs
      /\ activeTabId' = opened' /\ tabs' = tabs \cup {opened'}
      /\ tabWorkspace' = [tabWorkspace EXCEPT ![opened'] = w]
      /\ tabWorkspace' \in [TabIds -> WorkspaceId]
  BY <1>0, OpenTabFacts DEF Known
<1>3. ApplyWorkspaceTab(p, opened', tabs', tabWorkspace')
  BY <1>2 DEF OpenTab
<1>4. Working'
  <2>1. ~crossed => /\ \A v \in TabIds \ tabs : kept[v] = None
                    /\ \A v \in tabs : kept[v] # None => p.cache[v] = kept[v]
    BY CacheWorks DEF Known, Working
  <2>2. ~crossed' =>
           /\ \A v \in TabIds \ tabs' : kept'[v] = None
           /\ \A v \in tabs' : kept'[v] # None => p.cache[v] = kept'[v]
           /\ kept'[opened'] = None
    BY <1>1, <1>2, <1>k, <2>1
  <2>3. tabs' \in SUBSET TabIds
    BY <1>0, <1>2
  <2> QED
    BY <1>0, <1>2, <1>3, <2>2, <2>3, MoveWorks
<1>5. Awaiting'
  BY <1>1, <1>k, AwaitingStep DEF Known, awaited
<1>6. Distinct'
  <2> SUFFICES ASSUME ~crossed'
               PROVE  /\ activeTabId' \in tabs'
                      /\ \A t \in tabs' : tabWorkspace'[t] \notin unborn'
                      /\ \A t, u \in tabs' :
                           t # u => tabWorkspace'[t] = None \/ tabWorkspace'[t] # tabWorkspace'[u]
    BY DEF Distinct
  <2>1. /\ \A t \in tabs : tabWorkspace'[t] = tabWorkspace[t]
        /\ tabWorkspace'[opened'] = w
    BY <1>0, <1>2
  <2>2. /\ \A t \in tabs : tabWorkspace[t] \notin unborn
        /\ \A t, u \in tabs : t # u => tabWorkspace[t] = None \/ tabWorkspace[t] # tabWorkspace[u]
    BY <1>1 DEF Known, Distinct
  <2> QED
    BY <1>2, <2>1, <2>2 DEF server
<1> QED
  BY <1>4, <1>5, <1>6

\* A tab that is closed takes nothing from the others.
LEMMA CloseWorks ==
  ASSUME Known, ~crossed, ~crossed', NEW t \in tabs, UNCHANGED unborn,
         CloseTab(t, tabs, tabWorkspace, activeTabId)
  PROVE  Working' /\ Distinct'
<1> DEFINE P == Persist(page, activeTabId)
           p == [P EXCEPT !.cache[t] = None]
           freed == [tabWorkspace EXCEPT ![t] = None]
           last == CHOOSE u \in tabs \ {t} : \A v \in tabs \ {t} : v <= u
<1>0. /\ tabs \subseteq 1..opened /\ tabs \subseteq TabIds /\ activeTabId \in TabIds /\ TypeOK
      /\ tabWorkspace \in [TabIds -> WorkspaceId] /\ param \in WorkspaceId /\ page \in Page
  BY TabFacts, TypesParts DEF Known, Types, FrontOK
<1>1. /\ P \in Page /\ activeTabId \in tabs
      /\ \A v \in tabs : kept[v] # None => P.cache[v] = kept[v]
      /\ kept[activeTabId] # None => Holds(P, activeTabId, kept[activeTabId])
      /\ Settled(page) => Settled(P)
  BY CacheWorks
<1>2. /\ p \in Page
      /\ \A v \in TabIds \ {t} : p.cache[v] = P.cache[v]
      /\ p.shown = P.shown /\ p.latest = P.latest
      /\ Settled(P) => Settled(p)
  <2>1. \A q \in Page : LET r == [q EXCEPT !.cache[t] = None]
                        IN  /\ r \in Page /\ r.shown = q.shown /\ r.latest = q.latest
                            /\ \A v \in TabIds \ {t} : r.cache[v] = q.cache[v]
                            /\ r.snapshot = q.snapshot /\ r.hydrated = q.hydrated
                            /\ r.workspaceId = q.workspaceId
    BY <1>0, PageFields DEF Page
  <2> HIDE DEF P
  <2> QED
    BY <1>1, <2>1 DEF Settled
<1>3. freed \in [TabIds -> WorkspaceId]
  BY <1>0 DEF WorkspaceId
<1>4. tabs # {t} => last \in tabs \ {t}
  <2> SUFFICES ASSUME tabs # {t} PROVE last \in tabs \ {t}
    OBVIOUS
  <2>1. \E u \in tabs \ {t} : \A v \in tabs \ {t} : v <= u
    BY <1>0, LastTab
  <2> QED
    BY <2>1
<1>5. /\ IF tabs = {t} THEN ApplyWorkspaceTab(p, t, tabs, freed)
         ELSE IF t = activeTabId THEN ApplyWorkspaceTab(p, last, tabs \ {t}, freed)
         ELSE Rendered(p, activeTabId, tabs \ {t}, freed, param)
      /\ kept' = [kept EXCEPT ![t] = None]
  BY <1>0, CloseKeeps DEF CloseTab, Known
<1>6. /\ \A v \in TabIds \ {t} : kept'[v] = kept[v]
      /\ kept'[t] = None /\ \A v \in TabIds \ tabs : kept'[v] = None
  BY <1>0, <1>5, KeptFacts DEF Known, Working
<1> HIDE DEF P, p, freed, last
<1>7. Working'
  <2>1. CASE tabs = {t}
    BY <1>0, <1>2, <1>3, <1>5, <1>6, <2>1, MoveWorks
  <2>2. CASE tabs # {t} /\ t = activeTabId
    <3>1. /\ \A v \in TabIds \ (tabs \ {t}) : kept'[v] = None
          /\ \A v \in tabs \ {t} : kept'[v] # None => p.cache[v] = kept'[v]
      BY <1>0, <1>1, <1>2, <1>6
    <3>2. last \in TabIds /\ last # activeTabId /\ (tabs \ {t}) \in SUBSET TabIds
      BY <1>0, <1>4, <2>2
    <3>3. ApplyWorkspaceTab(p, last, tabs \ {t}, freed)
      BY <1>5, <2>2
    <3> QED
      BY <1>2, <1>3, <1>4, <2>2, <3>1, <3>2, <3>3, MoveWorks
  <2>3. CASE tabs # {t} /\ t # activeTabId
    <3>1. Rendered(p, activeTabId, tabs \ {t}, freed, param)
      BY <1>5, <2>3
    <3>2. /\ Settled(page)' /\ activeTabId' = activeTabId /\ tabs' = tabs \ {t}
          /\ \A v \in TabIds \ {activeTabId} : page'.cache[v] = p.cache[v]
          /\ \A k : k # None /\ Holds(p, activeTabId, k) /\ Calm(p, k)
                      => Holds(page', activeTabId, k)
      BY <1>0, <1>2, <3>1, RenderedFacts
    <3>3. kept[activeTabId] # None => Holds(p, activeTabId, kept[activeTabId])
      BY <1>0, <1>1, <1>2, <2>3 DEF Holds
    <3>4. opening \/ Settled(p)
      BY <1>1, <1>2 DEF Known, Working
    <3>5. opening => kept[activeTabId] = None
      BY <1>0 DEF Known, Opening
    <3>6. kept'[activeTabId] # None => Holds(page', activeTabId', kept'[activeTabId'])
      BY <1>0, <1>6, <2>3, <3>2, <3>3, <3>4, <3>5 DEF Calm
    <3>7. /\ \A v \in TabIds \ tabs' : kept'[v] = None
          /\ \A v \in tabs' \ {activeTabId'} : kept'[v] # None => page'.cache[v] = kept'[v]
      BY <1>0, <1>1, <1>2, <1>6, <3>2
    <3> QED
      BY <3>2, <3>6, <3>7 DEF Working, Holds
  <2> QED
    BY <2>1, <2>2, <2>3
<1>8. Distinct'
  <2>1. /\ tabs' \subseteq tabs /\ activeTabId' \in tabs' /\ tabWorkspace' = freed
    <3>1. /\ tabs' = (IF tabs = {t} THEN tabs ELSE tabs \ {t})
          /\ \/ activeTabId' = t /\ tabs = {t}
             \/ activeTabId' \in tabs \ {t} /\ t = activeTabId
             \/ activeTabId' = activeTabId /\ tabs # {t} /\ t # activeTabId
          /\ tabWorkspace' = [tabWorkspace EXCEPT ![t] = None]
      BY <1>0, CloseTabFacts
    <3> QED
      BY <1>1, <3>1 DEF freed
  <2>2. /\ \A v \in tabs : freed[v] \in {None, tabWorkspace[v]}
        /\ None \notin unborn
    BY <1>0, TabsAssumption DEF freed, TypeOK
  <2>3. /\ \A v \in tabs : tabWorkspace[v] \notin unborn
        /\ \A v, u \in tabs : v # u => tabWorkspace[v] = None \/ tabWorkspace[v] # tabWorkspace[u]
    BY DEF Known, Distinct
  <2>4. \A v, u \in tabs : v # u => freed[v] = None \/ freed[v] # freed[u]
    BY <2>2, <2>3
  <2> QED
    BY <2>1, <2>2, <2>3, <2>4 DEF Distinct
<1> QED
  BY <1>7, <1>8

\* Closing a tab, now or after its project has been deleted.
LEMMA ClosingWorks ==
  ASSUME Known, (\E t \in tabs : CloseWorkspaceTab(t)) \/ RecentProjectDeleted
  PROVE  Working' /\ Awaiting' /\ Distinct'
<1>0. TypeOK /\ crossed \in BOOLEAN
  BY TypesParts DEF Known, Types, RestOK
<1>1. ASSUME NEW t \in tabs, CloseWorkspaceTab(t) PROVE Working' /\ Awaiting' /\ Distinct'
  <2>1. CloseTab(t, tabs, tabWorkspace, activeTabId) /\ UNCHANGED <<awaited, server>>
    BY <1>1 DEF CloseWorkspaceTab
  <2>2. /\ NoteCrossing /\ kept' = [kept EXCEPT ![t] = None]
    BY <2>1, TabFacts, CloseKeeps DEF Known
  <2>3. ~crossed' => /\ ~crossed
                     /\ \/ UNCHANGED tabBar
                        \/ saving' = None /\ deleting' = None /\ uploading' = None
    BY <1>0, <2>2, NoteFacts
  <2>4. \A v \in TabIds : kept'[v] \in {kept[v], None}
    BY <2>2, KeptFacts DEF Known
  <2>5. Awaiting'
    BY <2>1, <2>3, <2>4, TabFacts, AwaitingStep DEF Known, awaited
  <2>6. CASE ~crossed'
    BY <2>1, <2>3, <2>5, <2>6, CloseWorks DEF server
  <2>7. CASE crossed'
    <3>1. /\ tabs \subseteq 1..opened /\ tabWorkspace \in [TabIds -> WorkspaceId]
          /\ activeTabId \in TabIds
      BY TabFacts DEF Known, FrontOK
    <3>2. Settled(page)'
      BY <1>0, <2>1, <3>1, CloseTabFacts
    <3> QED
      BY <2>5, <2>7, <3>2 DEF Working, Distinct
  <2> QED
    BY <2>6, <2>7
<1>2. ASSUME RecentProjectDeleted PROVE Working' /\ Awaiting' /\ Distinct'
  <2> DEFINE closing == {t \in deleting.tabs : deleting.tabWorkspace[t] = deleting.workspaceId}
             first == CHOOSE t \in closing : \A u \in closing : t <= u
  <2>1. /\ deleting # None /\ deleting' = None /\ UNCHANGED <<saving, uploading, unborn>>
        /\ deleting \in Delete /\ deleting.tabs \subseteq 1..opened
    BY <1>2 DEF RecentProjectDeleted, Known, RestOK
  <2>2. /\ deleting.tabWorkspace \in [TabIds -> WorkspaceId] /\ deleting.active \in TabIds
    BY <2>1 DEF Delete
  <2>3. CASE closing = {}
    <3>1. UNCHANGED <<tabs, tabWorkspace, activeTabId, opened, page, opening, kept, crossed>>
      BY <1>2, <2>3, KeptFacts DEF RecentProjectDeleted, Known, tabBar, mount
    <3>2. Working' /\ Distinct'
      BY <2>1, <3>1 DEF Known, Working, Distinct, Settled, Holds
    <3>3. Awaiting'
      BY <2>1, <3>1, AwaitingStep DEF Known, tabBar
    <3> QED
      BY <3>2, <3>3
  <2>4. CASE closing # {}
    <3>1. closing \subseteq Nat
      BY <2>1, TabFacts DEF Known, TabIds
    <3>2. first \in closing
      BY <2>4, <3>1, LeastNumber
    <3>3. first \in deleting.tabs
      BY <3>2
    <3>4. CloseTab(first, deleting.tabs, deleting.tabWorkspace, deleting.active)
      BY <1>2, <2>4 DEF RecentProjectDeleted
    <3> HIDE DEF first
    <3>5. NoteCrossing /\ kept' = [kept EXCEPT ![first] = None]
      BY <2>1, <3>3, <3>4, TabFacts, CloseKeeps DEF Known
    <3>6. ~crossed' => /\ ~crossed
                       /\ \/ UNCHANGED tabBar
                          \/ saving' = None /\ deleting' = None /\ uploading' = None
      BY <1>0, <3>5, NoteFacts
    <3>7. \A v \in TabIds : kept'[v] \in {kept[v], None}
      BY <3>5, KeptFacts DEF Known
    <3>8. Awaiting'
      BY <2>1, <3>6, <3>7, TabFacts, AwaitingStep DEF Known
    <3>9. CASE ~crossed'
      <4>1. /\ ~crossed /\ deleting.tabs = tabs /\ deleting.tabWorkspace = tabWorkspace
            /\ deleting.active = activeTabId
        BY <2>1, <3>6, <3>9 DEF Known, Awaiting
      <4>2. Working' /\ Distinct'
        BY <2>1, <3>3, <3>4, <3>9, <4>1, CloseWorks
      <4> QED
        BY <3>8, <4>2
    <3>10. CASE crossed'
      <4>1. Settled(page)'
        BY <1>0, <2>1, <2>2, <3>3, <3>4, CloseTabFacts
      <4> QED
        BY <3>8, <3>10, <4>1 DEF Working, Distinct
    <3> QED
      BY <3>9, <3>10
  <2> QED
    BY <2>3, <2>4
<1> QED
  BY <1>1, <1>2

\* Drawing, answers, opening the page and navigating.
LEMMA CanvasWorks ==
  ASSUME Known,
         \/ \E rev \in Revisions : Given(rev)
         \/ Generate
         \/ OpeningEnds \/ WorkspaceLoaded \/ LoadFails \/ NavigationCommits
  PROVE  Working' /\ Awaiting' /\ Distinct'
<1>0. /\ page \in Page /\ activeTabId \in TabIds /\ param \in WorkspaceId
      /\ navigating \subseteq WorkspaceId
  BY TabFacts DEF Known, FrontOK
<1>1. ASSUME NEW rev \in Revisions, Given(rev) PROVE Working' /\ Awaiting' /\ Distinct'
  <2>1. ~opening
    BY <1>1 DEF Given, Draw, GenerationAnswered, ExportRestored, UserActs, Known, Opening
  <2>2. PICK q \in Page, c \in Content :
          /\ Rendered(q, activeTabId, tabs, tabWorkspace, param)
          /\ \A v \in TabIds \ {activeTabId} : q.cache[v] = page.cache[v]
          /\ Holds(q, activeTabId, c)
          /\ q.workspaceId = page.workspaceId /\ (Settled(page) => Settled(q))
          /\ work' = [work EXCEPT ![activeTabId] = c]
          /\ overtaken' = IF saving = None THEN overtaken \ {activeTabId}
                          ELSE overtaken \cup {activeTabId}
          /\ UNCHANGED <<opened, url, mount, preparing, awaited, server, crossed>>
    BY <1>1, GivenFacts DEF Known
  <2>3. kept' = [kept EXCEPT ![activeTabId] = c] \/ kept' = [kept EXCEPT ![activeTabId] = None]
    BY <1>0, <2>2, KeptFacts DEF Known
  <2>4. /\ kept'[activeTabId] = IF saving = None THEN c ELSE None
        /\ \A v \in TabIds \ {activeTabId} : kept'[v] = kept[v]
    <3>1. kept'[activeTabId] = IF saving = None THEN c ELSE None
      BY <1>0, <2>2 DEF kept, Known, RestOK
    <3> QED
      BY <1>0, <2>3, <3>1, KeptFacts DEF Known
  <2>5. Settled(q)
    BY <2>1, <2>2 DEF Known, Working
  <2>6. Working'
    <3>1. ~crossed' =>
            /\ ~crossed
            /\ \A v \in TabIds \ {activeTabId} : q.cache[v] = page.cache[v] /\ kept'[v] = kept[v]
            /\ kept'[activeTabId] # None
                 => /\ Holds(q, activeTabId, kept'[activeTabId])
                    /\ Calm(q, kept'[activeTabId])
      BY <2>2, <2>4, <2>5 DEF Calm
    <3> QED
      BY <1>0, <2>2, <3>1, StayWorks
  <2>7. UNCHANGED <<tabs, activeTabId, tabWorkspace>>
    BY <2>2 DEF Rendered
  <2>8. saving' = saving /\ (saving # None => kept'[activeTabId] = None)
    BY <2>2, <2>4 DEF awaited
  <2>9. Awaiting'
    BY <2>2, <2>7, <2>8, AwaitingStep DEF Known, awaited, tabBar
  <2>10. Distinct'
    BY <2>2, <2>7, DistinctStep DEF Known, server
  <2> QED
    BY <2>6, <2>9, <2>10
<1>6. ASSUME Generate PROVE Working' /\ Awaiting' /\ Distinct'
  <2>1. /\ page' = [page EXCEPT !.awaits = @ \cup {"generation"}]
        /\ UNCHANGED <<tabBar, mount, awaited, server, history, crossed>>
    BY <1>6 DEF Generate
  <2>2. /\ page'.shown = page.shown /\ page'.latest = page.latest /\ page'.cache = page.cache
        /\ page'.snapshot = page.snapshot /\ page'.hydrated = page.hydrated
        /\ page'.workspaceId = page.workspaceId
    BY <1>0, <2>1, PageFields DEF Page
  <2>3. kept' = kept
    BY <2>1, KeptFacts DEF Known
  <2>4. Working'
    BY <2>1, <2>2, <2>3 DEF Known, Working, Settled, Holds, tabBar, mount
  <2> QED
    BY <2>1, <2>3, <2>4, AwaitingStep, DistinctStep DEF Known, awaited, server, tabBar
<1>2. ASSUME opening, UNCHANGED <<tabBar, awaited, server, history, crossed>>,
             opening' \/ Settled(page)'
      PROVE  Working' /\ Awaiting' /\ Distinct'
  <2>1. \A t \in TabIds : kept'[t] = None
    BY <1>2, KeptFacts DEF Known, Opening
  <2>2. activeTabId' \in TabIds /\ tabs' \subseteq TabIds
    BY <1>0, <1>2, TabFacts DEF Known, tabBar
  <2>3. Working'
    BY <1>2, <2>1, <2>2 DEF Working
  <2> QED
    BY <1>2, <2>1, <2>3, KeptFacts, AwaitingStep, DistinctStep
    DEF Known, awaited, server, tabBar
<1>3. ASSUME OpeningEnds PROVE Working' /\ Awaiting' /\ Distinct'
  <2> DEFINE c == Mount(page, activeTabId)
             l == LoadEffect(c, activeTabId, tabWorkspace[activeTabId], param)
             d == Child(l, activeTabId, c.workspaceId)
  <2>1. c \in Page /\ Settled(c) /\ page' = AutoLoadEffect(d)
    BY <1>0, <1>3, MountFacts DEF OpeningEnds
  <2> HIDE DEF c
  <2>2. d \in Page /\ Settled(d)
    BY <1>0, <2>1, EffectsFacts
  <2> HIDE DEF d
  <2>3. Settled(page')
    BY <2>1, <2>2, AutoLoadFacts
  <2> QED
    BY <1>2, <1>3, <2>3 DEF OpeningEnds, Settled
<1>4. ASSUME WorkspaceLoaded \/ LoadFails PROVE Working' /\ Awaiting' /\ Distinct'
  BY <1>2, <1>4 DEF WorkspaceLoaded, LoadFails, Known, Opening
<1>5. ASSUME NavigationCommits PROVE Working' /\ Awaiting' /\ Distinct'
  <2>1. /\ param' \in WorkspaceId /\ ~opening
        /\ Rendered(page, activeTabId, tabs, tabWorkspace, param')
        /\ UNCHANGED <<opened, awaited, server, kept, crossed>>
    BY <1>0, <1>5, KeptFacts DEF NavigationCommits, Known, Opening
  <2>2. Working'
    BY <1>0, <2>1, StayWorks DEF Calm, Known, Working
  <2>3. UNCHANGED <<tabs, activeTabId, tabWorkspace>>
    BY <1>0, <2>1, RenderedFacts
  <2> QED
    BY <2>1, <2>2, <2>3, AwaitingStep, DistinctStep DEF Known, awaited, server, tabBar
<1> QED
  BY <1>1, <1>3, <1>4, <1>5, <1>6

\* Opening and selecting tabs.
LEMMA TabsWorks ==
  ASSUME Known,
         \/ \E t \in tabs : SelectWorkspaceTab(t)
         \/ AddWorkspaceTab \/ WorkspaceTabPrepared \/ SelectAsset
         \/ \E w \in Workspaces : OpenRecentProject(w)
  PROVE  Working' /\ Awaiting' /\ Distinct'
<1>0. None \in WorkspaceId /\ None \notin unborn /\ Workspaces \subseteq WorkspaceId
  BY TabsAssumption DEF Known, RestOK, WorkspaceId
<1>1. ASSUME NEW t \in tabs, SelectWorkspaceTab(t) PROVE Working' /\ Awaiting' /\ Distinct'
  BY <1>1, SelectWorks
<1>2. ASSUME AddWorkspaceTab PROVE Working' /\ Awaiting' /\ Distinct'
  <2>1. /\ ~opening /\ page' = Persist(page, activeTabId)
        /\ UNCHANGED <<tabBar, mount, awaited, server, kept, crossed>>
    BY <1>2, KeptFacts DEF AddWorkspaceTab, UserActs, Known
  <2>2. Settled(page) /\ page \in Page /\ activeTabId \in TabIds
    BY <2>1, TabFacts DEF Known, Working, FrontOK
  <2>3. Settled(page') /\ crossed' = crossed
        /\ tabs' = tabs /\ activeTabId' = activeTabId /\ kept' = kept
    BY <2>1, <2>2, PersistFacts DEF tabBar, Settled
  <2>4. ~crossed =>
          /\ \A v \in tabs : kept[v] # None => page'.cache[v] = kept[v]
          /\ kept[activeTabId] # None => Holds(page', activeTabId, kept[activeTabId])
    BY <2>1, CacheWorks
  <2>5. Working'
    BY <2>3, <2>4 DEF Working, Known, Settled, Holds
  <2> QED
    BY <2>1, <2>5, AwaitingStep, DistinctStep DEF Known, awaited, server, tabBar
<1>3. ASSUME WorkspaceTabPrepared PROVE Working' /\ Awaiting' /\ Distinct'
  BY <1>0, <1>3, OpenWorks DEF WorkspaceTabPrepared
<1>4. ASSUME SelectAsset PROVE Working' /\ Awaiting' /\ Distinct'
  BY <1>0, <1>4, OpenWorks DEF SelectAsset
<1>5. ASSUME NEW w \in Workspaces, OpenRecentProject(w) PROVE Working' /\ Awaiting' /\ Distinct'
  BY <1>0, <1>1, <1>5, OpenWorks DEF OpenRecentProject
<1> QED
  BY <1>1, <1>2, <1>3, <1>4, <1>5

\* A request that starts remembers the tabs; one that fails changes nothing.
LEMMA RequestsWork ==
  ASSUME Known,
         \/ SaveWorkspace \/ SaveFails \/ DeleteFails \/ UploadImageFile \/ UploadFails
         \/ \E w \in Workspaces : DeleteRecentProject(w)
  PROVE  Working' /\ Awaiting' /\ Distinct'
<1>1. UNCHANGED <<tabBar, page, mount, unborn, kept, crossed>>
  BY KeptFacts DEF SaveWorkspace, SaveFails, DeleteFails, UploadImageFile, UploadFails,
     DeleteRecentProject, server, Known
<1>2. Working' /\ Distinct'
  BY <1>1 DEF Known, Working, Distinct, Settled, Holds, tabBar, mount
<1>3. ASSUME SaveFails \/ DeleteFails \/ UploadFails PROVE Awaiting'
  BY <1>1, <1>3, AwaitingStep DEF Known, SaveFails, DeleteFails, UploadFails, tabBar
<1>4. ASSUME SaveWorkspace PROVE Awaiting'
  <2>1. /\ UNCHANGED <<deleting, uploading>> /\ saving'.tab = activeTabId
        /\ saving'.content = IF page.latest # None THEN page.latest ELSE Blank
    BY <1>4 DEF SaveWorkspace
  <2>2. ~crossed /\ kept[activeTabId] # None => page.latest = kept[activeTabId]
    BY DEF Known, Working, Holds
  <2> QED
    BY <1>1, <2>1, <2>2 DEF Known, Awaiting, tabBar
<1>5. ASSUME UploadImageFile PROVE Awaiting'
  <2>1. /\ UNCHANGED <<deleting, saving>> /\ uploading'.tab = activeTabId
        /\ uploading'.workspaceId = tabWorkspace[activeTabId]
    BY <1>5 DEF UploadImageFile
  <2> QED
    BY <1>1, <2>1 DEF Known, Awaiting, tabBar
<1>6. ASSUME NEW w \in Workspaces, DeleteRecentProject(w) PROVE Awaiting'
  <2>1. /\ UNCHANGED <<uploading, saving>> /\ deleting'.tabs = tabs
        /\ deleting'.tabWorkspace = tabWorkspace /\ deleting'.active = activeTabId
    BY <1>6 DEF DeleteRecentProject
  <2> QED
    BY <1>1, <2>1 DEF Known, Awaiting, tabBar
<1> QED
  BY <1>2, <1>3, <1>4, <1>5, <1>6

\* What the server stored is what the tab shows, unless the tabs changed meanwhile.
LEMMA StoredWorks ==
  ASSUME Known, saving # None, saving' = None, NEW w \in WorkspaceId, NEW tw,
         Rendered(Stores(w), activeTabId, tabs, tw, param), UNCHANGED kept,
         ~crossed' => ~crossed
  PROVE  Working'
<1>1. /\ saving.tab \in TabIds /\ Stores(w) \in Page
      /\ Stores(w).snapshot = saving.content /\ Stores(w).latest = saving.content
      /\ Stores(w).cache[saving.tab] = saving.content
      /\ \A v \in TabIds \ {saving.tab} : Stores(w).cache[v] = page.cache[v]
      /\ Stores(w).shown = page.shown
  BY StoresFacts DEF Known
<1>2. param \in WorkspaceId
  BY DEF Known, FrontOK
<1> DEFINE p == Stores(w)
<1> HIDE DEF p
<1>3. ASSUME ~crossed'
      PROVE  /\ ~crossed
             /\ \A v \in TabIds \ {activeTabId} : p.cache[v] = page.cache[v] /\ kept'[v] = kept[v]
             /\ kept'[activeTabId] # None
                  => /\ Holds(p, activeTabId, kept'[activeTabId])
                     /\ Calm(p, kept'[activeTabId])
  <2>1. /\ saving.tab = activeTabId
        /\ kept[activeTabId] # None => /\ saving.content = kept[activeTabId]
                                       /\ page.shown = kept[activeTabId]
    BY <1>3 DEF Known, Awaiting, Working, Holds
  <2> QED
    BY <1>1, <1>3, <2>1 DEF Holds, Calm, p
<1>4. Rendered(p, activeTabId, tabs, tw, param) /\ p \in Page
  BY <1>1 DEF p
<1> QED
  BY <1>2, <1>3, <1>4, StayWorks

\* The answers to a save and an upload.
LEMMA AnswersWork ==
  ASSUME Known, \/ WorkspaceUpdated \/ ApplyWorkspaceUpload
                \/ \E w \in Workspaces : WorkspaceCreated(w)
  PROVE  Working' /\ Awaiting' /\ Distinct'
<1>0. /\ page \in Page /\ page.workspaceId \in WorkspaceId /\ activeTabId \in TabIds
      /\ tabs \subseteq TabIds /\ param \in WorkspaceId /\ crossed \in BOOLEAN
      /\ tabWorkspace \in [TabIds -> WorkspaceId] /\ Workspaces \subseteq WorkspaceId
  BY TabFacts, PageFields DEF Known, FrontOK, RestOK, WorkspaceId
<1>1. ASSUME WorkspaceUpdated PROVE Working' /\ Awaiting' /\ Distinct'
  <2>1. /\ saving # None /\ saving' = None
        /\ Rendered(Stores(page.workspaceId), activeTabId, tabs, tabWorkspace, param)
        /\ UNCHANGED <<opened, deleting, uploading, server, kept, crossed>>
    BY <1>1, KeptFacts DEF WorkspaceUpdated, Known
  <2>2. Working'
    BY <1>0, <2>1, StoredWorks
  <2>3. UNCHANGED <<activeTabId, tabs, tabWorkspace>>
    BY <2>1 DEF Rendered
  <2> QED
    BY <2>1, <2>2, <2>3, AwaitingStep, DistinctStep DEF Known, server, tabBar
<1>2. ASSUME NEW w \in Workspaces, WorkspaceCreated(w) PROVE Working' /\ Awaiting' /\ Distinct'
  <2> DEFINE tw == [t \in TabIds |-> IF t = saving.tab /\ t \in tabs THEN w ELSE tabWorkspace[t]]
  <2>1. /\ saving # None /\ saving' = None /\ w \in unborn /\ unborn' = unborn \ {w}
        /\ Rendered(Stores(w), activeTabId, tabs, tw, param)
        /\ UNCHANGED <<opened, deleting, uploading, kept>> /\ NoteCrossing
    BY <1>2, KeptFacts DEF WorkspaceCreated, Known
  <2>2. /\ \A t \in tabs : tw[t] = IF t = saving.tab THEN w ELSE tabWorkspace[t]
    BY <1>0
  <2> HIDE DEF tw
  <2>3. activeTabId' = activeTabId /\ tabs' = tabs /\ tabWorkspace' = tw
    BY <2>1 DEF Rendered
  <2>4. ~crossed' => /\ ~crossed
                     /\ \/ UNCHANGED tabBar
                        \/ saving' = None /\ deleting' = None /\ uploading' = None
    BY <1>0, <2>1, NoteFacts
  <2>5. Working'
    BY <1>0, <2>1, <2>4, StoredWorks
  <2>6. Awaiting'
    BY <2>1, <2>4, AwaitingStep DEF Known
  <2>7. ASSUME ~crossed'
        PROVE  /\ activeTabId' \in tabs'
               /\ \A t \in tabs' : tabWorkspace'[t] \notin unborn'
               /\ \A t, u \in tabs' :
                    t # u => tabWorkspace'[t] = None \/ tabWorkspace'[t] # tabWorkspace'[u]
    <3>1. /\ activeTabId \in tabs
          /\ \A t \in tabs : tabWorkspace[t] \notin unborn
          /\ \A t, u \in tabs :
               t # u => tabWorkspace[t] = None \/ tabWorkspace[t] # tabWorkspace[u]
      BY <2>4, <2>7 DEF Known, Distinct
    <3> QED
      BY <2>1, <2>2, <2>3, <3>1
  <2> QED
    BY <2>5, <2>6, <2>7 DEF Distinct
<1>3. ASSUME ApplyWorkspaceUpload PROVE Working' /\ Awaiting' /\ Distinct'
  <2> DEFINE tw == [t \in TabIds |-> IF t = uploading.tab /\ t \in tabs
                                     THEN uploading.workspaceId ELSE tabWorkspace[t]]
  <2>1. /\ uploading # None /\ uploading' = None
        /\ Rendered(UploadPage, activeTabId, tabs, tw, param)
        /\ UNCHANGED <<opened, saving, deleting, server, kept>> /\ NoteCrossing
    BY <1>3, KeptFacts DEF ApplyWorkspaceUpload, UploadPage, Known
  <2>2. ~crossed' => /\ ~crossed
                     /\ \/ UNCHANGED tabBar
                        \/ saving' = None /\ deleting' = None /\ uploading' = None
    BY <1>0, <2>1, NoteFacts
  <2>3. ~crossed => uploading.tab = activeTabId /\ \A t \in tabs : tw[t] = tabWorkspace[t]
    BY <1>0, <2>1 DEF Known, Awaiting
  <2> HIDE DEF tw
  <2>4. activeTabId' = activeTabId /\ tabs' = tabs /\ tabWorkspace' = tw
    BY <2>1 DEF Rendered
  <2>5. /\ UploadPage \in Page
        /\ \A v \in TabIds \ {uploading.tab, activeTabId} : UploadPage.cache[v] = page.cache[v]
        /\ \A k : k # None /\ page.shown = k /\ page.latest = k
              => Holds(UploadPage, activeTabId, k) /\ Calm(UploadPage, k)
    BY <2>1, UploadFacts DEF Known
  <2>6. ~crossed /\ kept[activeTabId] # None
          => page.shown = kept[activeTabId] /\ page.latest = kept[activeTabId]
    BY DEF Known, Working, Holds
  <2>7. Working'
    <3>1. ~crossed' =>
            /\ ~crossed
            /\ \A v \in TabIds \ {activeTabId} :
                 UploadPage.cache[v] = page.cache[v] /\ kept'[v] = kept[v]
            /\ kept'[activeTabId] # None
                 => /\ Holds(UploadPage, activeTabId, kept'[activeTabId])
                    /\ Calm(UploadPage, kept'[activeTabId])
      BY <2>1, <2>2, <2>3, <2>5, <2>6
    <3> QED
      BY <1>0, <2>1, <2>5, <3>1, StayWorks
  <2>8. Awaiting'
    BY <2>1, <2>2, AwaitingStep DEF Known
  <2>9. Distinct'
    BY <2>1, <2>2, <2>3, <2>4 DEF Known, Distinct, server
  <2> QED
    BY <2>7, <2>8, <2>9
<1> QED
  BY <1>1, <1>2, <1>3

\* A tab without work loses none.
LEMMA InitKnown == Init => Known
<1> SUFFICES ASSUME Init PROVE Known
  OBVIOUS
<1>1. FrontOK /\ RestOK /\ Opening
  BY InitTypes, TypesParts
<1>2. Working /\ Awaiting
  <2>1. 1 \in TabIds
    BY TabsAssumption DEF TabIds
  <2> QED
    BY <2>1 DEF Init, Working, Awaiting, kept
<1>3. Distinct
  <2>1. 1 \in TabIds
    BY TabsAssumption DEF TabIds
  <2>2. tabWorkspace[1] = param /\ param \notin unborn
    BY <2>1, TabsAssumption DEF Init
  <2> QED
    BY <2>2 DEF Init, Distinct
<1> QED
  BY <1>1, <1>2, <1>3 DEF Known

\* Every step keeps the work of the tabs, what the closures remember and the tabs apart.
LEMMA StepKnown == Known /\ [Next]_vars => Known'
<1> SUFFICES ASSUME Known, [Next]_vars PROVE Known'
  OBVIOUS
<1>1. FrontOK' /\ RestOK' /\ Opening'
  <2>1. Types' <=> FrontOK' /\ RestOK'
    BY DEF Types, TypeOK, FrontOK, RestOK
  <2> QED
    BY <2>1, StepTypes, TypesParts DEF Known
<1>2. Working' /\ Awaiting' /\ Distinct'
  <2>1. CASE UNCHANGED vars
    <3>1. UNCHANGED <<tabBar, page, mount, awaited, server, kept, crossed>>
      BY <2>1, KeptFacts DEF vars, tabBar, mount, awaited, server, history, Known
    <3> QED
      BY <3>1, AwaitingStep, DistinctStep
      DEF Known, Working, Settled, Holds, tabBar, mount, awaited, server
  <2>2. CASE UserStep
    BY <2>2, CanvasWorks, TabsWorks, ClosingWorks, RequestsWork DEF UserStep, Given
  <2>3. CASE Answer
    BY <2>3, CanvasWorks, TabsWorks, ClosingWorks, RequestsWork, AnswersWork DEF Answer, Given
  <2> QED
    BY <2>1, <2>2, <2>3 DEF Next
<1> QED
  BY <1>1, <1>2 DEF Known

\* This is an invariant.
LEMMA KnownHolds == Spec => []Known
BY InitKnown, StepKnown, PTL DEF Spec

\* However the user draws in tabs, leaves them, adds, closes and saves them, with the
\* URL following whenever it likes, what was last drawn in a tab is what it shows or
\* will show again; unless the tabs changed while a call was awaited.
THEOREM NoTabLosesItsWork == Spec => []EveryTabKeepsItsWork
<1>1. ASSUME Known PROVE EveryTabKeepsItsWork
  <2>1. /\ tabs \subseteq TabIds
        /\ ~crossed =>
             /\ \A t \in tabs \ {activeTabId} : kept[t] # None => page.cache[t] = kept[t]
             /\ kept[activeTabId] # None => page.shown = kept[activeTabId]
    BY <1>1, TabFacts DEF Known, Working, Holds
  <2>2. \A t \in tabs \ overtaken : kept[t] = work[t]
    BY <2>1 DEF kept
  <2> QED
    BY <2>1, <2>2 DEF EveryTabKeepsItsWork
<1> QED
  BY <1>1, KnownHolds, PTL

\* The project of a tab that is closed, or of the one that is shown then.
LEMMA CloseOwns ==
  ASSUME Known, Owned, ~crossed, NEW t \in tabs,
         CloseTab(t, tabs, tabWorkspace, activeTabId)
  PROVE  Owns(page', tabWorkspace'[activeTabId'], adopted')
<1> DEFINE P == Persist(page, activeTabId)
           p == [P EXCEPT !.cache[t] = None]
           freed == [tabWorkspace EXCEPT ![t] = None]
           last == CHOOSE u \in tabs \ {t} : \A v \in tabs \ {t} : v <= u
<1>0. /\ tabs \subseteq TabIds /\ activeTabId \in TabIds /\ activeTabId \in tabs
      /\ tabWorkspace \in [TabIds -> WorkspaceId] /\ param \in WorkspaceId /\ page \in Page
  BY TabFacts DEF Known, FrontOK, Distinct
<1>1. P \in Page /\ P.workspaceId = page.workspaceId
  BY <1>0, PersistFacts
<1> HIDE DEF P
<1>2. p \in Page /\ p.workspaceId = page.workspaceId
  BY <1>0, <1>1, PageFields DEF Page
<1>3. freed \in [TabIds -> WorkspaceId] /\ \A v \in TabIds \ {t} : freed[v] = tabWorkspace[v]
  BY <1>0 DEF WorkspaceId
<1>4. tabs # {t} => last \in tabs \ {t}
  <2> SUFFICES ASSUME tabs # {t} PROVE last \in tabs \ {t}
    OBVIOUS
  <2>1. \E u \in tabs \ {t} : \A v \in tabs \ {t} : v <= u
    BY <1>0, LastTab
  <2> QED
    BY <2>1
<1>5. IF tabs = {t} THEN ApplyWorkspaceTab(p, t, tabs, freed)
      ELSE IF t = activeTabId THEN ApplyWorkspaceTab(p, last, tabs \ {t}, freed)
      ELSE Rendered(p, activeTabId, tabs \ {t}, freed, param)
  BY DEF CloseTab, P
<1> HIDE DEF p, freed, last
<1>6. CASE tabs = {t}
  BY <1>0, <1>2, <1>3, <1>5, <1>6, ApplyOwns
<1>7. CASE tabs # {t} /\ t = activeTabId
  BY <1>0, <1>2, <1>3, <1>4, <1>5, <1>7, ApplyOwns
<1>8. CASE tabs # {t} /\ t # activeTabId
  <2>1. /\ Rendered(p, activeTabId, tabs \ {t}, freed, param) /\ activeTabId \in tabs \ {t}
        /\ freed[activeTabId] = tabWorkspace[activeTabId]
    BY <1>0, <1>3, <1>5, <1>8
  <2>2. Owns(page', freed[activeTabId], adopted')
    BY <1>0, <1>2, <2>1, RenderedOwns DEF Owned, Owns
  <2> QED
    BY <2>1, <2>2 DEF Rendered
<1> QED
  BY <1>6, <1>7, <1>8

\* While the page opens its tab is that of the URL.
LEMMA OpeningOwns ==
  ASSUME Known, Owned, OpeningEnds \/ WorkspaceLoaded \/ LoadFails
  PROVE  Owned'
<1>0. /\ page \in Page /\ activeTabId \in TabIds /\ param \in WorkspaceId
  BY TabFacts DEF Known, FrontOK
<1>1. /\ opening /\ activeTabId \in tabs /\ param = tabWorkspace[activeTabId]
      /\ UNCHANGED <<tabs, activeTabId, tabWorkspace, param, adopted, crossed>>
  BY DEF OpeningEnds, WorkspaceLoaded, LoadFails, Known, Opening, Owned, tabBar, url
<1>2. ASSUME page'.workspaceId \in {page.workspaceId, param} PROVE Owned'
  BY <1>1, <1>2 DEF Owned, Owns
<1>3. CASE OpeningEnds
  <2> DEFINE c == Mount(page, activeTabId)
             l == LoadEffect(c, activeTabId, tabWorkspace[activeTabId], param)
             d == Child(l, activeTabId, c.workspaceId)
  <2>1. page' = AutoLoadEffect(d)
    BY <1>3 DEF OpeningEnds
  <2>2. c \in Page /\ c.workspaceId = page.workspaceId
    BY <1>0, MountFacts, MountProject
  <2> HIDE DEF c
  <2>3. l \in Page /\ l.workspaceId \in {c.workspaceId, param}
    <3>1. LoadEffect(c, activeTabId, tabWorkspace[activeTabId], param) \in Page
      BY <1>0, <2>2, LoadEffectFacts
    <3>2. CASE LoadEffect(c, activeTabId, tabWorkspace[activeTabId], param) = c
      BY <3>1, <3>2
    <3>3. CASE LoadEffect(c, activeTabId, tabWorkspace[activeTabId], param) # c
      BY <2>2, <3>1, <3>3, PageFields DEF LoadEffect, Page
    <3> QED
      BY <3>2, <3>3
  <2> HIDE DEF l
  <2>4. d \in Page /\ d.workspaceId = l.workspaceId
    BY <1>0, <2>3, ChildFacts, ChildProject
  <2> HIDE DEF d
  <2> QED
    BY <1>2, <2>1, <2>2, <2>3, <2>4, AutoLoadFacts
<1>4. CASE WorkspaceLoaded
  <2>1. page'.workspaceId = param
    BY <1>0, <1>4, PageFields DEF WorkspaceLoaded, Page
  <2> QED
    BY <1>2, <2>1
<1>5. CASE LoadFails
  BY <1>2, <1>5 DEF LoadFails
<1> QED
  BY <1>3, <1>4, <1>5

\* Every step leaves the page with the project of the tab that is shown.
LEMMA OwnedStep == Known /\ Owned /\ [Next]_vars => Owned'
<1> SUFFICES ASSUME Known, Owned, [Next]_vars PROVE Owned'
  OBVIOUS
<1>0. /\ page \in Page /\ activeTabId \in TabIds /\ param \in WorkspaceId /\ tabs \subseteq TabIds
      /\ tabWorkspace \in [TabIds -> WorkspaceId] /\ page.workspaceId \in WorkspaceId
      /\ ~crossed => activeTabId \in tabs
  BY TabFacts, PageFields, CrossingStep DEF Known, FrontOK, RestOK, Distinct
<1>m. ASSUME ~opening, UNCHANGED mount,
             ~crossed => Owns(page', tabWorkspace'[activeTabId'], adopted')
      PROVE  Owned'
  BY <1>0, <1>m, CrossingStep DEF Owned, mount, Known, RestOK
<1>s. ASSUME ~opening, UNCHANGED <<tabBar, mount, adopted>>, page'.workspaceId = page.workspaceId
      PROVE  Owned'
  BY <1>m, <1>s DEF Owned, Owns, tabBar
<1>r. ASSUME NEW p \in Page, NEW u \in WorkspaceId, ~opening, UNCHANGED mount,
             Rendered(p, activeTabId, tabs, tabWorkspace, u), p.workspaceId = page.workspaceId
      PROVE  Owned'
  <2>1. ~crossed => Owns(page', tabWorkspace[activeTabId], adopted')
    BY <1>0, <1>r, RenderedOwns DEF Owned, Owns
  <2>2. tabWorkspace'[activeTabId'] = tabWorkspace[activeTabId]
    BY <1>r DEF Rendered
  <2> QED
    BY <1>m, <1>r, <2>1, <2>2
<1>o. ASSUME NEW p \in Page, NEW w \in WorkspaceId, OpenTab(p, w), ~opening, UNCHANGED mount
      PROVE  Owned'
  <2>1. /\ opened' \in TabIds /\ [tabWorkspace EXCEPT ![opened'] = w] \in [TabIds -> WorkspaceId]
        /\ ApplyWorkspaceTab(p, opened', tabs \cup {opened'}, [tabWorkspace EXCEPT ![opened'] = w])
    BY <1>0, <1>o, OpenTabFacts DEF OpenTab, Known
  <2> QED
    BY <1>0, <1>m, <1>o, <2>1, ApplyOwns
<1>1. ASSUME NEW rev \in Revisions, Given(rev) PROVE Owned'
  <2>1. ~opening
    BY <1>1 DEF Given, Draw, GenerationAnswered, ExportRestored, UserActs, Known, Opening
  <2> QED
    BY <1>0, <1>1, <1>r, <2>1, GivenFacts DEF Known, mount
<1>2. CASE Generate
  <2>1. page'.workspaceId = page.workspaceId
    BY <1>0, <1>2, PageFields DEF Generate, Page
  <2> QED
    BY <1>2, <1>s, <2>1 DEF Generate, UserActs
<1>3. CASE NavigationCommits
  <2>1. /\ param' \in WorkspaceId /\ ~opening /\ UNCHANGED mount
        /\ Rendered(page, activeTabId, tabs, tabWorkspace, param')
    BY <1>3 DEF NavigationCommits, Known, Opening, FrontOK
  <2> QED
    BY <1>0, <1>r, <2>1
<1>4. ASSUME NEW t \in tabs, SelectWorkspaceTab(t) PROVE Owned'
  <2> DEFINE p == IF t = activeTabId THEN page ELSE Persist(page, activeTabId)
  <2>1. p \in Page /\ t \in TabIds
    BY <1>0, PersistFacts
  <2>2. ApplyWorkspaceTab(p, t, tabs, tabWorkspace) /\ ~opening /\ UNCHANGED mount
    BY <1>4 DEF SelectWorkspaceTab, UserActs
  <2> HIDE DEF p
  <2> QED
    BY <1>0, <1>m, <2>1, <2>2, ApplyOwns
<1>5. CASE AddWorkspaceTab
  BY <1>0, <1>5, <1>s, PersistFacts DEF AddWorkspaceTab, UserActs
<1>6. CASE WorkspaceTabPrepared \/ SelectAsset
  BY <1>0, <1>6, <1>o, PersistFacts
  DEF WorkspaceTabPrepared, SelectAsset, UserActs, Known, Opening, WorkspaceId
<1>7. ASSUME NEW w \in Workspaces, OpenRecentProject(w) PROVE Owned'
  <2>1. CASE \E t \in tabs : SelectWorkspaceTab(t)
    BY <1>4, <2>1
  <2>2. CASE OpenTab(Persist(page, activeTabId), w) /\ UserActs /\ UNCHANGED mount
    BY <1>0, <1>o, <2>2, PersistFacts DEF UserActs, WorkspaceId
  <2> QED
    BY <1>7, <2>1, <2>2 DEF OpenRecentProject
<1>8. ASSUME NEW t \in tabs, CloseWorkspaceTab(t) PROVE Owned'
  <2>1. CloseTab(t, tabs, tabWorkspace, activeTabId) /\ ~opening /\ UNCHANGED mount
    BY <1>8 DEF CloseWorkspaceTab, CloseTab, UserActs
  <2> QED
    BY <1>m, <2>1, CloseOwns
<1>9. CASE RecentProjectDeleted
  <2> DEFINE closing == {t \in deleting.tabs : deleting.tabWorkspace[t] = deleting.workspaceId}
             first == CHOOSE t \in closing : \A u \in closing : t <= u
  <2>1. /\ deleting # None /\ deleting.tabs \subseteq 1..opened /\ ~opening
    BY <1>9 DEF RecentProjectDeleted, Known, RestOK, Opening
  <2>2. CASE closing = {}
    BY <1>9, <1>s, <2>1, <2>2 DEF RecentProjectDeleted
  <2>3. CASE closing # {}
    <3>1. closing \subseteq Nat
      BY <2>1, TabFacts DEF Known, TabIds
    <3>2. first \in closing
      BY <2>3, <3>1, LeastNumber
    <3>3. first \in deleting.tabs
      BY <3>2
    <3>4. CloseTab(first, deleting.tabs, deleting.tabWorkspace, deleting.active)
      BY <1>9, <2>3 DEF RecentProjectDeleted
    <3> HIDE DEF first
    <3>5. UNCHANGED mount
      BY <3>4 DEF CloseTab
    <3>6. ~crossed => CloseTab(first, tabs, tabWorkspace, activeTabId) /\ first \in tabs
      BY <2>1, <3>3, <3>4 DEF Known, Awaiting
    <3> QED
      BY <1>m, <2>1, <3>5, <3>6, CloseOwns
  <2> QED
    BY <2>2, <2>3
<1>10. CASE WorkspaceUpdated
  <2>1. /\ saving # None /\ ~opening /\ UNCHANGED mount
        /\ Rendered(Stores(page.workspaceId), activeTabId, tabs, tabWorkspace, param)
    BY <1>10 DEF WorkspaceUpdated, Known, Opening
  <2>2. Stores(page.workspaceId) \in Page /\ Stores(page.workspaceId).workspaceId = page.workspaceId
    BY <1>0, <2>1, StoresFacts, PageFields DEF Known, Stores, Page
  <2> QED
    BY <1>0, <1>r, <2>1, <2>2
<1>11. ASSUME NEW w \in Workspaces, WorkspaceCreated(w) PROVE Owned'
  <2> DEFINE tw == [t \in TabIds |-> IF t = saving.tab /\ t \in tabs THEN w ELSE tabWorkspace[t]]
  <2>1. /\ saving # None /\ ~opening /\ UNCHANGED mount
        /\ Rendered(Stores(w), activeTabId, tabs, tw, param)
    BY <1>11 DEF WorkspaceCreated, Known, Opening
  <2>2. Stores(w) \in Page /\ Stores(w).workspaceId = w
    BY <1>0, <2>1, StoresFacts, PageFields DEF Known, Stores, Page, WorkspaceId
  <2>3. ~crossed => tw[activeTabId] = w
    BY <1>0, <2>1 DEF Known, Awaiting
  <2> HIDE DEF tw
  <2>4. ~crossed => Owns(page', tw[activeTabId], adopted')
    BY <1>0, <2>1, <2>2, <2>3, RenderedOwns
  <2> QED
    BY <1>m, <2>1, <2>4 DEF Rendered
<1>12. CASE ApplyWorkspaceUpload
  <2> DEFINE tw == [t \in TabIds |-> IF t = uploading.tab /\ t \in tabs
                                     THEN uploading.workspaceId ELSE tabWorkspace[t]]
  <2>1. /\ uploading # None /\ ~opening /\ UNCHANGED mount
        /\ Rendered(UploadPage, activeTabId, tabs, tw, param)
    BY <1>12 DEF ApplyWorkspaceUpload, UploadPage, Known, Opening
  <2>2. UploadPage \in Page /\ UploadPage.workspaceId = page.workspaceId
    BY <2>1, UploadFacts DEF Known
  <2>3. ~crossed => tw[activeTabId] = tabWorkspace[activeTabId]
    BY <1>0, <2>1 DEF Known, Awaiting
  <2> HIDE DEF tw
  <2>4. ~crossed => Owns(page', tw[activeTabId], adopted')
    BY <1>0, <2>1, <2>2, <2>3, RenderedOwns DEF Owned, Owns
  <2> QED
    BY <1>m, <2>1, <2>4 DEF Rendered
<1>13. CASE \/ SaveWorkspace \/ SaveFails \/ DeleteFails \/ UploadImageFile \/ UploadFails
            \/ \E w \in Workspaces : DeleteRecentProject(w)
  BY <1>13, <1>s DEF SaveWorkspace, SaveFails, DeleteFails, UploadImageFile, UploadFails,
     DeleteRecentProject, NewRequest, UserActs, Known, Opening
<1>14. CASE UNCHANGED vars
  BY <1>14 DEF vars, Owned, Owns
<1> QED
  BY <1>1, <1>2, <1>3, <1>4, <1>5, <1>6, <1>7, <1>8, <1>9, <1>10, <1>11, <1>12, <1>13, <1>14,
     OpeningOwns DEF Next, UserStep, Answer, Given

\* The page's project stays that of the tab that is shown, and no project comes to be
\* open in two tabs, so that no two tabs save over each other; unless the tabs changed
\* while a call was awaited, or a draft has taken the project of the URL.
THEOREM TabsStayApart == Spec => []OneTabPerWorkspace
<1>1. Init => Owned
  <2>1. 1 \in TabIds
    BY TabsAssumption DEF TabIds
  <2> QED
    BY <2>1 DEF Init, Owned, Owns
<1>2. Known /\ Owned => OneTabPerWorkspace
  BY DEF Known, Distinct, Owned, Owns, OneTabPerWorkspace
<1> QED
  BY <1>1, <1>2, InitKnown, StepKnown, OwnedStep, PTL DEF Spec
=============================================================================
