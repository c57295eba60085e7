------------------------------- MODULE PhotoTabs -------------------------------
(* The tabs of the photo studio page, PhotoStudioAppPage: which workspace and   *)
(* which canvas each tab has, the URL, saving, and the handlers that go on with *)
(* the tabs of an earlier render after an await.                                *)
(*                                                                              *)
(* A content is what a snapshot holds.  The states of the page and of the one   *)
(* mounted PhotoStudioWorkspace are the record page, because one click runs     *)
(* through the handler, the render and the effects of both before anything else *)
(* happens (Rendered).  The URL follows later: router.replace is a transition.  *)
(* Left out: titles, unsaved marks, the home view and the export of the canvas. *)
EXTENDS Naturals

CONSTANTS
    Workspaces,  \* ids of workspaces, those the server has yet to give included
    None,        \* null
    MaxTabs,     \* bound: tabs ever opened
    MaxAwaited,  \* bound: saves, deletes and uploads in flight together
    Revisions    \* bound: what can be drawn in one tab

ASSUME TabsAssumption ==
    /\ MaxTabs \in Nat \ {0}
    /\ MaxAwaited \in Nat
    /\ None \notin Workspaces

TabIds == 1..MaxTabs

(* An empty canvas, what the server stores for a workspace, what was drawn. *)
Blank   == [kind |-> "blank"]
Stored  == [kind : {"stored"}, workspaceId : Workspaces]
Drawn   == [kind : {"drawn"}, tab : TabIds, rev : Revisions]
Content == {Blank} \cup Stored \cup Drawn

VARIABLES
    tabs,           \* the open tabs; ids grow in the order of the tab bar
    tabWorkspace,   \* a tab's workspaceId
    activeTabId,
    opened,         \* tabs opened so far
    page,           \* states and refs of the page and of the mounted workspace
    param,          \* the workspaceId of the URL
    navigating,     \* the workspaceId of a router.replace under way
    opening,        \* the page shows its shimmer, no workspace is mounted
    loading,        \* getWorkspace is awaited
    preparing,      \* handleAddWorkspaceTab waits before it opens the tab
    saving, deleting, uploading,  \* closures that await the server
    unborn, deleted,              \* workspaces yet to be created, and gone
    work,           \* history: the last content the canvas of a tab was given
    overtaken,      \* history: the tabs given one while a save was awaited
    adopted,        \* history: the draft that is shown has taken the URL's project
    crossed         \* history: the tabs changed under an awaiting closure

vars == <<tabs, tabWorkspace, activeTabId, opened, page, param, navigating, opening,
          loading, preparing, saving, deleting, uploading, unborn, deleted, work, overtaken,
          adopted, crossed>>

tabBar  == <<tabs, tabWorkspace, activeTabId, opened>>
url     == <<param, navigating>>
mount   == <<opening, loading>>
awaited == <<saving, deleting, uploading>>
server  == <<unborn, deleted>>
history == <<work, overtaken>>

WorkspaceId == Workspaces \cup {None}
Snapshot == Content \cup {None}
Page ==
    [workspaceId : WorkspaceId,
     snapshot : Snapshot,             \* workspaceSnapshot
     latest : Snapshot,               \* latestSnapshotRef
     cache : [TabIds -> Snapshot],    \* tabSnapshotsRef
     shown : Content,                 \* the canvas of the mounted workspace
     hydrated : {{}} \cup {{w} : w \in WorkspaceId},  \* hydratedSessionKeyRef
     awaits : SUBSET {"generation", "export"}]  \* what may come for that canvas

(* What the awaiting closures remember of the render they belong to. *)
Save == [tab : TabIds, workspaceId : WorkspaceId, content : Content]
Delete == [workspaceId : Workspaces, tabs : SUBSET TabIds,
           tabWorkspace : [TabIds -> WorkspaceId], active : TabIds]
Upload == [tab : TabIds, workspaceId : WorkspaceId]

TypeOK ==
    /\ tabs \subseteq 1..opened
    /\ opened \in TabIds
    /\ tabWorkspace \in [TabIds -> WorkspaceId]
    /\ activeTabId \in 1..opened
    /\ page \in Page
    /\ param \in WorkspaceId /\ navigating \in SUBSET WorkspaceId
    /\ opening \in BOOLEAN /\ loading \in BOOLEAN /\ preparing \in BOOLEAN
    /\ saving \in Save \cup {None}
    /\ deleting \in Delete \cup {None}
    /\ uploading \in Upload \cup {None}
    /\ unborn \subseteq Workspaces /\ deleted \subseteq Workspaces
    /\ work \in [TabIds -> Snapshot] /\ overtaken \subseteq TabIds
    /\ adopted \in BOOLEAN /\ crossed \in BOOLEAN

----------------------------------------------------------------------------
(* The page opens with the URL of a workspace or without one. *)
Init ==
    /\ tabs = {1} /\ activeTabId = 1 /\ opened = 1
    /\ unborn \in SUBSET Workspaces /\ deleted = {}
    /\ param \in (Workspaces \ unborn) \cup {None} /\ navigating = {}
    /\ tabWorkspace = [t \in TabIds |-> IF t = 1 THEN param ELSE None]
    /\ page = [workspaceId |-> param, snapshot |-> None, latest |-> None,
               cache |-> [t \in TabIds |-> None], shown |-> Blank, hydrated |-> {},
               awaits |-> {}]
    /\ opening = TRUE /\ loading = (param # None)
    /\ preparing = FALSE
    /\ saving = None /\ deleting = None /\ uploading = None
    /\ work = [t \in TabIds |-> None] /\ overtaken = {}
    /\ adopted = FALSE /\ crossed = FALSE

(* The workspace reports its canvas: handleWorkspaceSnapshotChange. *)
Emit(p, t) == [p EXCEPT !.latest = p.shown, !.cache[t] = p.shown]

\* Variant: every session it hydrated in is remembered.
HydrateOnce(p) ==
    [p EXCEPT !.shown = p.snapshot, !.hydrated = @ \cup {p.workspaceId}]

(* The workspace takes its states from the snapshot it is given, and keeps     *)
(* quiet until the next frame.                                                 *)
Hydrate(p) == [p EXCEPT !.shown = p.snapshot, !.hydrated = {p.workspaceId}]

(* The key of the workspace is its tab: another tab mounts a new one, empty    *)
(* until it hydrates.  Without a snapshot it reports that emptiness.  What the *)
(* old one awaited is lost.                                                    *)
Mount(p, t) ==
    LET q == [p EXCEPT !.shown = Blank, !.hydrated = {}, !.awaits = {}]
    IN  IF p.snapshot # None THEN Hydrate(q) ELSE Emit(q, t)

(* The effects of a workspace that stays.  It hydrates once per tab and        *)
(* workspace; a new workspaceId makes it report again.                         *)
Child(p, t, before) ==
    IF p.snapshot # None /\ p.hydrated # {p.workspaceId} THEN Hydrate(p)
    ELSE IF p.workspaceId # before THEN Emit(p, t) ELSE p

(* The page's load effect, which runs after its children's.  A tab without a   *)
(* workspace of its own takes the URL's.                                       *)
LoadEffect(p, t, own, u) ==
    IF u # None /\ own \in {None, u} /\ p.cache[t] # None
    THEN [p EXCEPT !.workspaceId = u, !.snapshot = p.cache[t], !.latest = p.cache[t]]
    ELSE p

(* A draft takes the URL's project.                                            *)
Adopts(p, t, own, u) == own = None /\ u # None /\ p.cache[t] # None

(* A workspace that has mounted starts the timer of the automatic restore, and *)
(* anew after each render, unless its snapshot has layers: then it never does.  *)
AutoLoadEffect(p) ==
    [p EXCEPT !.awaits = IF p.snapshot \in {None, Blank} THEN {"export"} ELSE {}]

(* A render with page state p of tab t, with the tabs ts and their workspaces  *)
(* tw, at the URL u; and what its effects render.                              *)
Rendered(p, t, ts, tw, u) ==
    LET own == IF t \in ts THEN tw[t] ELSE None
        c == IF t # activeTabId THEN Mount(p, t) ELSE Child(p, t, page.workspaceId)
        l == LoadEffect(c, t, own, u)
        d == Child(l, t, c.workspaceId)
    IN  /\ page' = IF t # activeTabId THEN AutoLoadEffect(d) ELSE d
        /\ adopted' = (\/ Adopts(c, t, own, u)
                       \/ adopted /\ t = activeTabId /\ c.workspaceId = page.workspaceId)
        /\ activeTabId' = t /\ tabs' = ts /\ tabWorkspace' = tw

(* A closure in flight outlives a change of the tabs. *)
NoteCrossing ==
    crossed' = (crossed \/ (/\ tabBar' # tabBar
                            /\ {saving', deleting', uploading'} # {None}))

(* The save dialog is modal. *)
UserActs == ~opening /\ saving = None

(* The user may send a request. *)
InFlight(c) == IF c = None THEN 0 ELSE 1
NewRequest ==
    UserActs /\ InFlight(saving) + InFlight(deleting) + InFlight(uploading) < MaxAwaited

----------------------------------------------------------------------------
(* Opening.  While the shimmer shows no workspace is mounted; when it goes one *)
(* mounts, and if the page's workspace is not there by then its report of an   *)
(* empty canvas makes the load effect give the request up.                     *)
OpeningEnds ==
    /\ opening /\ opening' = FALSE
    /\ loading' = FALSE
    /\ LET c == Mount(page, activeTabId)
           l == LoadEffect(c, activeTabId, tabWorkspace[activeTabId], param)
       IN  page' = AutoLoadEffect(Child(l, activeTabId, c.workspaceId))
    /\ UNCHANGED <<tabBar, url, preparing, awaited, server, history, adopted, crossed>>

(* The answer of getWorkspace, whose canvas may be empty; one the effect has    *)
(* given up is dropped.                                                         *)
WorkspaceLoaded ==
    /\ loading /\ loading' = FALSE
    /\ \E s \in {Blank, [kind |-> "stored", workspaceId |-> param]} :
           page' = [page EXCEPT !.workspaceId = param, !.snapshot = s, !.latest = s,
                                !.cache[activeTabId] = s]
    /\ UNCHANGED <<tabBar, url, opening, preparing, awaited, server, history, adopted, crossed>>

LoadFails ==
    /\ loading /\ loading' = FALSE
    /\ UNCHANGED <<tabBar, url, opening, page, preparing, awaited, server, history, adopted,
                   crossed>>

(* The canvas of the workspace is given a content, which the workspace reports. *)
CanvasGets(p, rev) ==
    LET c == [kind |-> "drawn", tab |-> activeTabId, rev |-> rev]
    IN  /\ Rendered(Emit([p EXCEPT !.shown = c], activeTabId), activeTabId, tabs,
                    tabWorkspace, param)
        /\ work' = [work EXCEPT ![activeTabId] = c]
        /\ overtaken' = IF saving = None THEN overtaken \ {activeTabId}
                        ELSE overtaken \cup {activeTabId}
        /\ UNCHANGED <<opened, url, mount, preparing, awaited, server, crossed>>

(* Drawing, importing, choosing a generation: what the user does with it. *)
Draw(rev) ==
    /\ UserActs /\ activeTabId \in tabs
    /\ CanvasGets(page, rev)

(* A generation is asked for; its answer goes to the canvas whatever the user  *)
(* does meanwhile, unless it fails.                                            *)
Generate ==
    /\ UserActs
    /\ page' = [page EXCEPT !.awaits = @ \cup {"generation"}]
    /\ UNCHANGED <<tabBar, url, mount, preparing, awaited, server, history, adopted, crossed>>

GenerationAnswered(rev) ==
    /\ "generation" \in page.awaits
    /\ CanvasGets([page EXCEPT !.awaits = @ \ {"generation"}], rev)

(* The last export of the canvas, if there is one, replaces what the canvas     *)
(* has by then.  Each request the timer has sent may bring one, so there is no *)
(* last one until another workspace mounts.                                    *)
ExportRestored(rev) ==
    /\ "export" \in page.awaits
    /\ CanvasGets(page, rev)

(* The URL catches up with the last router.replace. *)
NavigationCommits ==
    /\ navigating # {} /\ navigating' = {}
    /\ param' \in navigating
    /\ Rendered(page, activeTabId, tabs, tabWorkspace, param')
    /\ UNCHANGED <<opened, mount, preparing, awaited, server, history, crossed>>

----------------------------------------------------------------------------
(* persistActiveTabSnapshot, of the render in which tab t was active. *)
Persist(p, t) ==
    [p EXCEPT !.cache[t] = IF p.latest # None THEN p.latest ELSE p.cache[t]]

\* Variant: the ref keeps the snapshot of the tab that was left.
ApplyKeepsLatest(p, t, ts, tw) ==
    /\ Rendered([p EXCEPT !.workspaceId = tw[t], !.snapshot = p.cache[t]],
                t, ts, tw, param)
    /\ navigating' = {tw[t]} /\ UNCHANGED param

\* Variant: the page keeps the project of the tab that was left.
ApplyKeepsProject(p, t, ts, tw) ==
    /\ Rendered([p EXCEPT !.snapshot = p.cache[t], !.latest = p.cache[t]], t, ts, tw, param)
    /\ navigating' = {tw[t]} /\ UNCHANGED param

ApplyWorkspaceTab(p, t, ts, tw) ==
    /\ Rendered([p EXCEPT !.workspaceId = tw[t], !.snapshot = p.cache[t],
                          !.latest = p.cache[t]],
                t, ts, tw, param)
    /\ navigating' = {tw[t]} /\ UNCHANGED param

SelectWorkspaceTab(t) ==
    /\ UserActs /\ t \in tabs
    /\ ApplyWorkspaceTab(IF t = activeTabId THEN page ELSE Persist(page, activeTabId),
                         t, tabs, tabWorkspace)
    /\ UNCHANGED <<opened, mount, preparing, awaited, server, history>>
    /\ NoteCrossing

(* A new tab at the end of the bar, with workspace w or none. *)
OpenTab(p, w) ==
    /\ opened < MaxTabs /\ opened' = opened + 1
    /\ ApplyWorkspaceTab(p, opened', tabs \cup {opened'}, [tabWorkspace EXCEPT ![opened'] = w])

(* The + of the tab bar saves the snapshot and waits; the tab opens later,     *)
(* whatever has happened by then.                                              *)
AddWorkspaceTab ==
    /\ UserActs /\ ~preparing
    /\ opened < MaxTabs
    /\ preparing' = TRUE
    /\ page' = Persist(page, activeTabId)
    /\ UNCHANGED <<tabBar, url, mount, awaited, server, history, adopted, crossed>>

WorkspaceTabPrepared ==
    /\ preparing /\ preparing' = FALSE
    /\ OpenTab(page, None)
    /\ UNCHANGED <<mount, awaited, server, history>>
    /\ NoteCrossing

(* An image of the library opens in a draft tab of its own. *)
SelectAsset ==
    /\ UserActs
    /\ OpenTab(Persist(page, activeTabId), None)
    /\ UNCHANGED <<mount, preparing, awaited, server, history>>
    /\ NoteCrossing

OpenRecentProject(w) ==
    /\ w \notin unborn \cup deleted
    /\ \/ \E t \in tabs : tabWorkspace[t] = w /\ SelectWorkspaceTab(t)
       \/ /\ UserActs /\ \A t \in tabs : tabWorkspace[t] # w
          /\ OpenTab(Persist(page, activeTabId), w)
          /\ UNCHANGED <<mount, preparing, awaited, server, history>>
          /\ NoteCrossing

(* handleCloseWorkspaceTab of the render with the tabs ts, their workspaces tw *)
(* and the active tab a.  The last tab is not removed but becomes a draft.     *)
CloseTab(t, ts, tw, a) ==
    LET p == [Persist(page, a) EXCEPT !.cache[t] = None]
        freed == [tw EXCEPT ![t] = None]
        last == CHOOSE u \in ts \ {t} : \A v \in ts \ {t} : v <= u
    IN  /\ IF ts = {t} THEN ApplyWorkspaceTab(p, t, ts, freed)
           ELSE IF t = a THEN ApplyWorkspaceTab(p, last, ts \ {t}, freed)
           ELSE Rendered(p, activeTabId, ts \ {t}, freed, param) /\ UNCHANGED url
        /\ work' = [work EXCEPT ![t] = None] /\ overtaken' = overtaken \ {t}
        /\ UNCHANGED <<opened, mount, preparing>>
        /\ NoteCrossing

CloseWorkspaceTab(t) ==
    /\ UserActs /\ t \in tabs
    /\ UNCHANGED <<awaited, server>>
    /\ CloseTab(t, tabs, tabWorkspace, activeTabId)

----------------------------------------------------------------------------
(* Save, confirmed in the dialog: the last snapshot reported, or an empty one. *)
SaveWorkspace ==
    /\ NewRequest /\ activeTabId \in tabs
    /\ saving' = [tab |-> activeTabId, workspaceId |-> page.workspaceId,
                  content |-> IF page.latest # None THEN page.latest ELSE Blank]
    /\ UNCHANGED <<tabBar, page, url, mount, preparing, deleting, uploading, server, history,
                   adopted, crossed>>

(* What the server stored becomes the page's snapshot and that of the tab the  *)
(* save was started in. *)
Stores(w) ==
    [page EXCEPT !.workspaceId = w, !.snapshot = saving.content,
                 !.latest = saving.content, !.cache[saving.tab] = saving.content]

WorkspaceUpdated ==
    /\ saving # None /\ saving' = None
    /\ saving.workspaceId \in Workspaces \ deleted
    /\ Rendered(Stores(page.workspaceId), activeTabId, tabs, tabWorkspace, param)
    /\ UNCHANGED <<opened, url, mount, preparing, deleting, uploading, server, history, crossed>>

WorkspaceCreated(w) ==
    /\ saving # None /\ saving' = None
    /\ saving.workspaceId = None
    /\ w \in unborn /\ unborn' = unborn \ {w}
    /\ Rendered(Stores(w), activeTabId, tabs,
                [t \in TabIds |-> IF t = saving.tab /\ t \in tabs THEN w ELSE tabWorkspace[t]],
                param)
    /\ navigating' = {w}
    /\ UNCHANGED <<opened, param, mount, preparing, deleting, uploading, deleted, history>>
    /\ NoteCrossing

SaveFails ==
    /\ saving # None /\ saving' = None
    /\ UNCHANGED <<tabBar, page, url, mount, preparing, deleting, uploading, server, history,
                   adopted, crossed>>

(* The bin of a recent project on the home view.  Once the server has deleted  *)
(* it, its tab is closed among the tabs of the click.                          *)
DeleteRecentProject(w) ==
    /\ NewRequest /\ deleting = None
    /\ w \notin unborn \cup deleted
    /\ deleting' = [workspaceId |-> w, tabs |-> tabs, tabWorkspace |-> tabWorkspace,
                    active |-> activeTabId]
    /\ UNCHANGED <<tabBar, page, url, mount, preparing, saving, uploading, server, history,
                   adopted, crossed>>

RecentProjectDeleted ==
    LET d == deleting
        closing == {t \in d.tabs : d.tabWorkspace[t] = d.workspaceId}
    IN  /\ d # None /\ deleting' = None
        /\ deleted' = deleted \cup {d.workspaceId}
        /\ UNCHANGED <<saving, uploading, unborn>>
        /\ IF closing = {}
           THEN UNCHANGED <<tabBar, page, url, mount, preparing, history, adopted, crossed>>
           ELSE CloseTab(CHOOSE t \in closing : \A u \in closing : t <= u,
                         d.tabs, d.tabWorkspace, d.active)

DeleteFails ==
    /\ deleting # None /\ deleting' = None
    /\ UNCHANGED <<tabBar, page, url, mount, preparing, saving, uploading, server, history,
                   adopted, crossed>>

(* An image is uploaded; then it becomes the asset of the tab the upload was   *)
(* started in, which the workspace reports.                                    *)
UploadImageFile ==
    /\ NewRequest /\ uploading = None
    /\ activeTabId \in tabs
    /\ uploading' = [tab |-> activeTabId, workspaceId |-> tabWorkspace[activeTabId]]
    /\ UNCHANGED <<tabBar, page, url, mount, preparing, saving, deleting, server, history,
                   adopted, crossed>>

ApplyWorkspaceUpload ==
    LET u == uploading
        q == Persist(page, u.tab)
        s == IF q.latest # None THEN q.latest ELSE q.cache[u.tab]
        p == IF s = None THEN q
             ELSE [q EXCEPT !.latest = s, !.snapshot = s, !.cache[u.tab] = s]
    IN  /\ u # None /\ uploading' = None
        /\ Rendered(Emit(p, activeTabId), activeTabId, tabs,
                    [t \in TabIds |-> IF t = u.tab /\ t \in tabs THEN u.workspaceId
                                      ELSE tabWorkspace[t]], param)
        /\ navigating' = {u.workspaceId}
        /\ UNCHANGED <<opened, param, mount, preparing, saving, deleting, server, history>>
        /\ NoteCrossing

UploadFails ==
    /\ uploading # None /\ uploading' = None
    /\ UNCHANGED <<tabBar, page, url, mount, preparing, saving, deleting, server, history,
                   adopted, crossed>>

----------------------------------------------------------------------------
UserStep ==
    \/ \E rev \in Revisions : Draw(rev)
    \/ Generate
    \/ \E t \in tabs : SelectWorkspaceTab(t) \/ CloseWorkspaceTab(t)
    \/ AddWorkspaceTab
    \/ SelectAsset
    \/ \E w \in Workspaces : OpenRecentProject(w) \/ DeleteRecentProject(w)
    \/ SaveWorkspace
    \/ UploadImageFile

Answer ==
    \/ OpeningEnds \/ NavigationCommits \/ WorkspaceTabPrepared
    \/ WorkspaceLoaded \/ LoadFails
    \/ \E rev \in Revisions : GenerationAnswered(rev) \/ ExportRestored(rev)
    \/ WorkspaceUpdated \/ SaveFails
    \/ \E w \in Workspaces : WorkspaceCreated(w)
    \/ RecentProjectDeleted \/ DeleteFails
    \/ ApplyWorkspaceUpload \/ UploadFails

Next == UserStep \/ Answer

Spec == Init /\ [][Next]_vars

----------------------------------------------------------------------------
(* The content a tab's canvas was last given is what the tab shows, or what it *)
(* will show when it is selected again, until it is given another or closed;   *)
(* unless the tabs changed while a save, a delete or an upload was awaited.    *)
(* Giving it one is drawing, an answer of a generation, and the automatic      *)
(* restore, which replaces what was drawn.  Excepted is a tab whose canvas was *)
(* given one by an answer while a save was awaited: the save brings the older  *)
(* one back (photo-studio-app-page.tsx:746-750).                               *)
EveryTabKeepsItsWork ==
    ~crossed => \A t \in tabs \ overtaken : work[t] # None =>
                    work[t] = IF t = activeTabId THEN page.shown ELSE page.cache[t]

(* What a save writes to, the page's project, is the project of the tab that   *)
(* is shown, and that tab is in the bar and no other has its project; unless   *)
(* the tabs changed while a save, a delete or an upload was awaited, or the    *)
(* tab is a draft that has taken the project of the URL before the URL was     *)
(* replaced: its save overwrites that project (photo-studio-app-page.tsx:412). *)
OneTabPerWorkspace ==
    ~crossed =>
        /\ activeTabId \in tabs
        /\ \A t, u \in tabs :
               t # u => tabWorkspace[t] = None \/ tabWorkspace[t] # tabWorkspace[u]
        /\ page.workspaceId # tabWorkspace[activeTabId] =>
               adopted /\ tabWorkspace[activeTabId] = None
=============================================================================
