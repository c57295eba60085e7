----------------------------- MODULE PhotoCanvas -----------------------------
(* The photo studio's canvas in the browser: PhotoStudioWorkspace of           *)
(* photo-studio-app.tsx.  The canvas holds layers drawn by hand and the layers *)
(* of a generation (their ids start with "gen-" and carry the generation's     *)
(* id).  Handlers that call the server are closures: after their await they    *)
(* go on with the state of the render they were created in.  The records of    *)
(* fetches and deletes hold exactly what those closures remember.              *)
(*                                                                             *)
(* A layer is its id, and canvasLayers is canvasShapes and canvasTexts         *)
(* together: an element of Drawn is a shape or text of the user's, and a       *)
(* generation stands for the layers built from it, on the canvas as long as    *)
(* one of them is.  Order, geometry, styling, tools and selection are left out. *)
EXTENDS Naturals, FiniteSets

CONSTANTS
    Drawn,       \* ids of the layers the user draws, drops, duplicates or uploads
    Gens,        \* ids of generations, those the server has yet to make included
    None,        \* null
    MaxRequests  \* bound: requests of the user's in flight together

ASSUME CanvasAssumption ==
    /\ MaxRequests \in Nat
    /\ IsFiniteSet(Gens)
    /\ None \notin Gens
    /\ Drawn \cap Gens = {}

VARIABLES
    canvasLayers,              \* canvasShapes and canvasTexts
    generatedItems,            \* the generations listed in the side panel
    selectedGenerationId,
    materializedGenerationId,  \* the generation the panel shows as "On canvas"
    generationsLoading,        \* the list of earlier generations is being fetched
    localGenerating,           \* handleGenerate waits for the server
    fetches,                   \* onFetchGeneration calls in flight
    deletes,                   \* onDeleteGeneration calls in flight
    deletingGenerationId,      \* the one item whose delete button is disabled
    autoLoaded, restoring,     \* the automatic restore of the last export
    hydrated,                  \* a save keeps the session the canvas hydrated in
    saving,                    \* the snapshot being saved
    unmade,                    \* generations the server has yet to make
    overlapped                 \* history: two requests were in flight together

vars == <<canvasLayers, generatedItems, selectedGenerationId,
          materializedGenerationId, generationsLoading, localGenerating, fetches,
          deletes, deletingGenerationId, autoLoaded, restoring, hydrated, saving,
          unmade, overlapped>>

chosen  == <<selectedGenerationId, materializedGenerationId>>
pending == <<localGenerating, fetches, deletes, deletingGenerationId>>
restore == <<autoLoaded, restoring>>
page    == <<generationsLoading, hydrated, saving>>

(* What a snapshot of the workspace keeps of the canvas. *)
Snapshot ==
    [layers : SUBSET (Drawn \cup Gens), items : SUBSET Gens,
     selected : Gens \cup {None}, materialized : Gens \cup {None}]

OfGenerations(S) == S \cap Gens      \* isGenerationLayerId
HandMade(S)      == S \ Gens

(* A snapshot of a canvas whose panel and layers agree. *)
Coherent(s) ==
    /\ s.selected \in s.items \cup {None}
    /\ s.materialized \in s.items \cup {None}
    /\ s.materialized # None =>
           OfGenerations(s.layers) \subseteq {s.materialized}

Emitted ==
    [layers |-> canvasLayers, items |-> generatedItems,
     selected |-> selectedGenerationId, materialized |-> materializedGenerationId]

(* The closures; nth tells two equal ones in flight together apart. *)
Nth == 1..MaxRequests
Fetch == [item : Gens, materialized : Gens \cup {None}, nth : Nth]
Delete == [id : Gens, selected : Gens \cup {None}, materialized : Gens \cup {None},
           nth : Nth]

TypeOK ==
    /\ canvasLayers \subseteq Drawn \cup Gens
    /\ generatedItems \subseteq Gens
    /\ selectedGenerationId \in Gens \cup {None}
    /\ materializedGenerationId \in Gens \cup {None}
    /\ generationsLoading \in BOOLEAN
    /\ localGenerating \in BOOLEAN
    /\ fetches \subseteq Fetch /\ deletes \subseteq Delete
    /\ deletingGenerationId \in Gens \cup {None}
    /\ autoLoaded \in BOOLEAN /\ restoring \in BOOLEAN
    /\ hydrated \in BOOLEAN
    /\ saving \in Snapshot \cup {None}
    /\ unmade \subseteq Gens
    /\ overlapped \in BOOLEAN

----------------------------------------------------------------------------
(* The workspace mounts: it hydrates from its tab's snapshot when there is one *)
(* (all its states are empty otherwise).  A canvas restored with layers does   *)
(* not look for an export.                                                     *)
Init ==
    /\ unmade \in SUBSET Gens
    /\ \E s \in Snapshot :
           /\ Coherent(s) /\ s.items \cap unmade = {}
           /\ OfGenerations(s.layers) \cap unmade = {}
           /\ canvasLayers = s.layers
           /\ generatedItems = s.items
           /\ selectedGenerationId = s.selected
           /\ materializedGenerationId = s.materialized
           /\ autoLoaded = (s.layers # {})
    /\ generationsLoading = TRUE
    /\ localGenerating = FALSE
    /\ fetches = {} /\ deletes = {} /\ deletingGenerationId = None
    /\ restoring = FALSE
    /\ hydrated \in BOOLEAN /\ saving = None
    /\ overlapped = FALSE

InFlight ==
    Cardinality(fetches) + Cardinality(deletes)
        + (IF localGenerating THEN 1 ELSE 0) + (IF saving # None THEN 1 ELSE 0)

Busy == fetches # {} \/ deletes # {} \/ localGenerating \/ saving # None

(* Every request of the user's is noted; the bound caps them. *)
NewRequest ==
    /\ InFlight < MaxRequests
    /\ overlapped' = (overlapped \/ Busy)

(* The save dialog is modal: while it is open the user reaches nothing else. *)
UserActs == saving = None

(* The generation grid is replaced by a skeleton while anything is loading. *)
GridShown == UserActs /\ ~generationsLoading /\ ~localGenerating

----------------------------------------------------------------------------
\* Variant: of the selections, the generation's takes the id of the new layer.
AddLayerSelectsIt(l) ==
    /\ UserActs
    /\ l \in Drawn \ canvasLayers
    /\ canvasLayers' = canvasLayers \cup {l}
    /\ selectedGenerationId' = l
    /\ UNCHANGED <<generatedItems, materializedGenerationId, pending, restore, page,
                   unmade, overlapped>>

(* Drawing, dropping, uploading or duplicating a shape; placing a text.  The   *)
(* id is new.  A copy of a generation's layer is a layer of the user's own.    *)
AddLayer(l) ==
    /\ UserActs
    /\ l \in Drawn \ canvasLayers
    /\ canvasLayers' = canvasLayers \cup {l}
    /\ UNCHANGED <<generatedItems, chosen, pending, restore, page, unmade, overlapped>>

(* The eraser, or Delete with a selection: whoever made the layers. *)
RemoveLayers(removed) ==
    /\ UserActs
    /\ removed # {} /\ removed \subseteq canvasLayers
    /\ canvasLayers' = canvasLayers \ removed
    /\ UNCHANGED <<generatedItems, chosen, pending, restore, page, unmade, overlapped>>

(* What replaces the whole canvas also forgets the generation on it. *)
ReplaceCanvas(layers) ==
    /\ canvasLayers' = layers
    /\ selectedGenerationId' = None
    /\ materializedGenerationId' = None

(* A saved design or a template holds hand-drawn layers only. *)
LoadSavedDesign(layers) ==
    /\ UserActs
    /\ ReplaceCanvas(layers)
    /\ UNCHANGED <<generatedItems, pending, restore, page, unmade, overlapped>>

(* A canvas JSON file, or the export fetched by the reload button: layers with *)
(* any ids, applied when the file has been read or the answer has come.        *)
ImportCanvasJson(layers) ==
    /\ layers \cap unmade = {}
    /\ ReplaceCanvas(layers)
    /\ UNCHANGED <<generatedItems, pending, restore, page, unmade, overlapped>>

(* The automatic restore of an empty workspace: a timer of 800 ms, re-armed by *)
(* every render of the page until a restore succeeds, sends the request.       *)
AutoLoadTimer ==
    /\ ~autoLoaded /\ ~restoring
    /\ restoring' = TRUE
    /\ UNCHANGED <<canvasLayers, generatedItems, chosen, pending, autoLoaded, page,
                   unmade, overlapped>>

(* Its answer is applied whatever has been drawn meanwhile. *)
AutoLoadAnswer(layers) ==
    /\ restoring
    /\ restoring' = FALSE
    /\ layers # {} /\ layers \cap unmade = {}
    /\ ReplaceCanvas(layers)
    /\ autoLoaded' = TRUE
    /\ UNCHANGED <<generatedItems, pending, page, unmade, overlapped>>

(* No export, an unreadable one or one without layers. *)
AutoLoadNothing ==
    /\ restoring
    /\ restoring' = FALSE
    /\ UNCHANGED <<canvasLayers, generatedItems, chosen, pending, autoLoaded, page,
                   unmade, overlapped>>

----------------------------------------------------------------------------
(* The list of earlier generations arrives once and is merged into the items. *)
GenerationsArrive(listed) ==
    /\ generationsLoading
    /\ listed \cap unmade = {}
    /\ generationsLoading' = FALSE
    /\ generatedItems' = generatedItems \cup listed
    /\ UNCHANGED <<canvasLayers, chosen, pending, restore, hydrated, saving, unmade,
                   overlapped>>

(* The call of onFetchGeneration, remembering the generation on the canvas. *)
Fetching(g, seen) ==
    LET f(n) == [item |-> g, materialized |-> seen, nth |-> n]
    IN  \E n \in Nth : /\ f(n) \notin fetches /\ \A k \in 1..(n - 1) : f(k) \in fetches
                      /\ fetches' = fetches \cup {f(n)}

(* A click on an item starts applyGenerationToCanvas, up to its await. *)
SelectGeneration(g) ==
    /\ GridShown /\ g \in generatedItems
    /\ Fetching(g, materializedGenerationId)
    /\ NewRequest
    /\ UNCHANGED <<canvasLayers, generatedItems, chosen, localGenerating, deletes,
                   deletingGenerationId, restore, page, unmade>>

\* Variant: the layers of the generation shown before stay.
ApplyOnTop(f) ==
    /\ f \in fetches
    /\ fetches' = fetches \ {f}
    /\ selectedGenerationId' = f.item
    /\ canvasLayers' = canvasLayers \cup {f.item}
    /\ materializedGenerationId' = f.item
    /\ UNCHANGED <<generatedItems, localGenerating, deletes, deletingGenerationId,
                   restore, page, unmade, overlapped>>

(* The rest of applyGenerationToCanvas.  A failed fetch goes on with the item  *)
(* itself, so it ends the same way.  The layers are rebuilt unless the         *)
(* generation was the materialized one when the item was clicked.              *)
ApplyGenerationToCanvas(f) ==
    /\ f \in fetches
    /\ fetches' = fetches \ {f}
    /\ selectedGenerationId' = f.item
    /\ IF f.materialized # f.item
       THEN /\ canvasLayers' = HandMade(canvasLayers) \cup {f.item}
            /\ materializedGenerationId' = f.item
       ELSE UNCHANGED <<canvasLayers, materializedGenerationId>>
    /\ UNCHANGED <<generatedItems, localGenerating, deletes, deletingGenerationId,
                   restore, page, unmade, overlapped>>

(* The delete button of an item, up to the await of handleDeleteGenerationItem. *)
StartDeleteGeneration(g) ==
    /\ GridShown /\ g \in generatedItems /\ deletingGenerationId # g
    /\ deletingGenerationId' = g
    /\ LET d(n) == [id |-> g, selected |-> selectedGenerationId,
                    materialized |-> materializedGenerationId, nth |-> n]
       IN  \E n \in Nth : /\ d(n) \notin deletes /\ \A k \in 1..(n - 1) : d(k) \in deletes
                         /\ deletes' = deletes \cup {d(n)}
    /\ NewRequest
    /\ UNCHANGED <<canvasLayers, generatedItems, chosen, localGenerating, fetches, restore,
                   page, unmade>>

\* Variant: the selection is left alone.
DeletedKeepsSelection(d) ==
    /\ d \in deletes
    /\ deletes' = deletes \ {d}
    /\ deletingGenerationId' = None
    /\ generatedItems' = generatedItems \ {d.id}
    /\ IF d.materialized = d.id
       THEN materializedGenerationId' = None /\ canvasLayers' = HandMade(canvasLayers)
       ELSE UNCHANGED <<canvasLayers, materializedGenerationId>>
    /\ UNCHANGED <<selectedGenerationId, localGenerating, fetches, restore, page,
                   unmade, overlapped>>

\* Variant: the canvas is emptied with the generation.
DeletedClearsCanvas(d) ==
    /\ d \in deletes
    /\ deletes' = deletes \ {d}
    /\ deletingGenerationId' = None
    /\ generatedItems' = generatedItems \ {d.id}
    /\ selectedGenerationId' = IF d.selected = d.id THEN None ELSE selectedGenerationId
    /\ IF d.materialized = d.id
       THEN materializedGenerationId' = None /\ canvasLayers' = {}
       ELSE UNCHANGED <<canvasLayers, materializedGenerationId>>
    /\ UNCHANGED <<localGenerating, fetches, restore, page, unmade, overlapped>>

(* The server has deleted it: the rest of handleDeleteGenerationItem decides   *)
(* by the selection and the canvas of the click.                               *)
GenerationDeleted(d) ==
    /\ d \in deletes
    /\ deletes' = deletes \ {d}
    /\ deletingGenerationId' = None
    /\ generatedItems' = generatedItems \ {d.id}
    /\ selectedGenerationId' = IF d.selected = d.id THEN None ELSE selectedGenerationId
    /\ IF d.materialized = d.id
       THEN /\ materializedGenerationId' = None
            /\ canvasLayers' = HandMade(canvasLayers)
       ELSE UNCHANGED <<canvasLayers, materializedGenerationId>>
    /\ UNCHANGED <<localGenerating, fetches, restore, page, unmade, overlapped>>

\* Variant: an error skips the finally block.
DeleteFailsSilently(d) ==
    /\ d \in deletes
    /\ deletes' = deletes \ {d}
    /\ UNCHANGED <<canvasLayers, generatedItems, chosen, localGenerating, fetches,
                   deletingGenerationId, restore, page, unmade, overlapped>>

DeleteFails(d) ==
    /\ d \in deletes
    /\ deletes' = deletes \ {d}
    /\ deletingGenerationId' = None
    /\ UNCHANGED <<canvasLayers, generatedItems, chosen, localGenerating, fetches, restore,
                   page, unmade, overlapped>>

(* Generate, up to the await of onGenerate. *)
HandleGenerate ==
    /\ UserActs /\ ~localGenerating
    /\ localGenerating' = TRUE
    /\ NewRequest
    /\ UNCHANGED <<canvasLayers, generatedItems, chosen, fetches, deletes,
                   deletingGenerationId, restore, page, unmade>>

(* The batch (the server's, or createGenerationBatch's when it made none) is   *)
(* listed and its first item applied without waiting for it.  Whatever the     *)
(* closure remembers as materialized, it is another generation.                *)
GenerationMade(newItems, first) ==
    /\ localGenerating
    /\ newItems \subseteq unmade /\ first \in newItems
    /\ localGenerating' = FALSE
    /\ generatedItems' = newItems \cup generatedItems
    /\ unmade' = unmade \ newItems
    /\ Fetching(first, None)
    /\ UNCHANGED <<canvasLayers, chosen, deletes, deletingGenerationId, restore, page,
                   overlapped>>

(* onGenerate throws: only the finally block runs. *)
GenerateFails ==
    /\ localGenerating
    /\ localGenerating' = FALSE
    /\ UNCHANGED <<canvasLayers, generatedItems, chosen, fetches, deletes,
                   deletingGenerationId, restore, page, unmade, overlapped>>

----------------------------------------------------------------------------
(* Saving sends the last emitted snapshot. *)
SaveWorkspace ==
    /\ UserActs
    /\ saving' = Emitted
    /\ NewRequest
    /\ UNCHANGED <<canvasLayers, generatedItems, chosen, pending, restore,
                   generationsLoading, hydrated, unmade>>

(* The server's copy comes back as the page's snapshot.  The canvas hydrates   *)
(* from it, dropping its own state, when the save gave the workspace its id    *)
(* or the canvas had not hydrated under that id.                               *)
WorkspaceSaved ==
    /\ saving # None
    /\ saving' = None /\ hydrated' = TRUE
    /\ autoLoaded' = (autoLoaded \/ saving.layers # {})
    /\ IF hydrated
       THEN UNCHANGED <<canvasLayers, generatedItems, chosen>>
       ELSE /\ canvasLayers' = saving.layers
            /\ generatedItems' = saving.items
            /\ selectedGenerationId' = saving.selected
            /\ materializedGenerationId' = saving.materialized
    /\ UNCHANGED <<generationsLoading, pending, restoring, unmade, overlapped>>

SaveFails ==
    /\ saving # None
    /\ saving' = None
    /\ UNCHANGED <<canvasLayers, generatedItems, chosen, pending, restore,
                   generationsLoading, hydrated, unmade, overlapped>>

----------------------------------------------------------------------------
UserStep ==
    \/ \E l \in Drawn : AddLayer(l)
    \/ \E S \in SUBSET canvasLayers : RemoveLayers(S)
    \/ \E S \in SUBSET Drawn : LoadSavedDesign(S)
    \/ \E S \in SUBSET (Drawn \cup Gens) : ImportCanvasJson(S)
    \/ \E g \in Gens : SelectGeneration(g) \/ StartDeleteGeneration(g)
    \/ HandleGenerate
    \/ SaveWorkspace

Answer ==
    \/ \E listed \in SUBSET Gens : GenerationsArrive(listed)
    \/ \E f \in fetches : ApplyGenerationToCanvas(f)
    \/ \E d \in deletes : GenerationDeleted(d) \/ DeleteFails(d)
    \/ \E N \in SUBSET unmade : \E first \in N : GenerationMade(N, first)
    \/ GenerateFails
    \/ WorkspaceSaved
    \/ SaveFails
    \/ \E S \in SUBSET (Drawn \cup Gens) : AutoLoadAnswer(S)
    \/ AutoLoadNothing

Next == UserStep \/ AutoLoadTimer \/ Answer

Spec == Init /\ [][Next]_vars

(* The server answers every delete, and a failed call is an answer too. *)
FairSpec == Spec /\ WF_vars(\E d \in deletes : GenerationDeleted(d) \/ DeleteFails(d))

----------------------------------------------------------------------------
(* The canvas never shows two generations at once as far as the panel knows:   *)
(* when one is marked "On canvas", every generation layer is that one's.       *)
LayersMatchMaterialized ==
    materializedGenerationId # None =>
        OfGenerations(canvasLayers) \subseteq {materializedGenerationId}

(* As long as no two requests were in flight together, the selected and the    *)
(* materialized generation are ones the panel lists.  With two in flight the   *)
(* closures can bring a deleted generation back.                               *)
SequentialUseKeepsPanel ==
    ~overlapped => {selectedGenerationId, materializedGenerationId}
                       \subseteq generatedItems \cup {None}

(* An answer to a click on a generation (apply, delete, generate) never adds   *)
(* or removes a layer drawn by hand, whatever was drawn while it was awaited.  *)
AnswersKeepHandMade ==
    [][fetches' # fetches \/ deletes' # deletes \/ localGenerating' # localGenerating =>
           HandMade(canvasLayers') = HandMade(canvasLayers)]_vars

(* A generation's delete button comes back, however its delete ends and       *)
(* whichever other delete was started while it was awaited.                    *)
DeleteButtonReturns ==
    deletingGenerationId # None ~> deletingGenerationId = None
=============================================================================
