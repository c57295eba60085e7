-------------------------- MODULE PhotoCanvasProofs --------------------------
(***************************************************************************)
(* Theorems about PhotoCanvas, for every set of layers and generations.    *)
(*                                                                         *)
(* A snapshot on its way to the server will be shown again when the save   *)
(* answers, so what the invariants say of the canvas has to hold of it     *)
(* too (SavingMatches, SavedPanel).  With one request at a time, what a    *)
(* closure remembers is still what the panel shows (Remembered).           *)
(***************************************************************************)
EXTENDS PhotoCanvas, TLAPS

\* The snapshot being saved shows the layers of its generation only.
SavingMatches ==
    saving # None /\ saving.materialized # None =>
        OfGenerations(saving.layers) \subseteq {saving.materialized}

Matches == TypeOK /\ LayersMatchMaterialized /\ SavingMatches

\* The requests of different kinds exclude each other, and there is one of each.
OneAtATime ==
    /\ fetches # {} => deletes = {} /\ ~localGenerating /\ saving = None
    /\ deletes # {} => ~localGenerating /\ saving = None
    /\ localGenerating => saving = None
    /\ \A d, e \in deletes : d = e

\* What the closures in flight remember is true of the panel.
Remembered ==
    /\ \A f \in fetches : f.item \in generatedItems
    /\ \A d \in deletes :
           /\ selectedGenerationId = d.id => d.selected = d.id
           /\ materializedGenerationId = d.id => d.materialized = d.id

\* The panel of the snapshot being saved shows generations it lists.
SavedPanel ==
    saving # None => {saving.selected, saving.materialized}
                         \subseteq saving.items \cup {None}

Panel ==
    {selectedGenerationId, materializedGenerationId} \subseteq generatedItems \cup {None}

Sequential == ~overlapped => OneAtATime /\ Remembered /\ SavedPanel /\ Panel

----------------------------------------------------------------------------
(* Types.                                                                    *)

\* A mounted canvas has the types of a snapshot, and no request is in flight.
LEMMA InitTypes == Init => TypeOK
BY DEF Init, TypeOK, Snapshot

\* A user's edit changes the layers, and at most forgets the generation shown.
LEMMA EditTypes ==
    ASSUME TypeOK,
           \/ \E l \in Drawn : AddLayer(l)
           \/ \E S \in SUBSET canvasLayers : RemoveLayers(S)
           \/ \E S \in SUBSET Drawn : LoadSavedDesign(S)
           \/ \E S \in SUBSET (Drawn \cup Gens) : ImportCanvasJson(S)
    PROVE  TypeOK'
<1>1. /\ canvasLayers' \subseteq Drawn \cup Gens
      /\ selectedGenerationId' \in {selectedGenerationId, None}
      /\ materializedGenerationId' \in {materializedGenerationId, None}
      /\ UNCHANGED <<generatedItems, pending, restore, page, unmade, overlapped>>
  BY DEF TypeOK, AddLayer, RemoveLayers, LoadSavedDesign, ImportCanvasJson,
         ReplaceCanvas, chosen
<1> QED
  BY <1>1 DEF TypeOK, pending, restore, page

\* The automatic restore replaces the canvas, or does nothing to it.
LEMMA RestoreTypes ==
    ASSUME TypeOK,
           \/ AutoLoadTimer \/ AutoLoadNothing
           \/ \E S \in SUBSET (Drawn \cup Gens) : AutoLoadAnswer(S)
    PROVE  TypeOK'
BY DEF TypeOK, AutoLoadTimer, AutoLoadNothing, AutoLoadAnswer, ReplaceCanvas,
       chosen, pending, page

\* Asking for a generation records a closure of the right type.
LEMMA FetchTypes ==
    ASSUME TypeOK, NEW g \in Gens, NEW seen \in Gens \cup {None}, Fetching(g, seen)
    PROVE  fetches' \subseteq Fetch
BY DEF TypeOK, Fetching, Fetch

\* Requests record closures of the right types.
LEMMA RequestTypes ==
    ASSUME TypeOK,
           \/ \E g \in Gens : SelectGeneration(g) \/ StartDeleteGeneration(g)
           \/ HandleGenerate
           \/ SaveWorkspace
    PROVE  TypeOK'
<1>1. ASSUME NEW g \in Gens, SelectGeneration(g) PROVE TypeOK'
  <2>1. fetches' \subseteq Fetch
    BY <1>1, FetchTypes DEF SelectGeneration, TypeOK
  <2> QED
    BY <1>1, <2>1 DEF SelectGeneration, NewRequest, TypeOK, chosen, restore, page
<1>2. ASSUME NEW g \in Gens, StartDeleteGeneration(g) PROVE TypeOK'
  <2>1. deletes' \subseteq Delete
    BY <1>2 DEF StartDeleteGeneration, TypeOK, Delete
  <2> QED
    BY <1>2, <2>1 DEF StartDeleteGeneration, NewRequest, TypeOK, chosen, restore, page
<1>3. CASE HandleGenerate
  BY <1>3 DEF HandleGenerate, NewRequest, TypeOK, chosen, restore, page
<1>4. CASE SaveWorkspace
  <2>1. saving' \in Snapshot
    BY <1>4 DEF SaveWorkspace, Emitted, TypeOK, Snapshot
  <2> QED
    BY <1>4, <2>1 DEF SaveWorkspace, NewRequest, TypeOK, chosen, pending, restore
<1> QED
  BY <1>1, <1>2, <1>3, <1>4

\* An answer of the server changes the panel and the canvas within their types.
LEMMA AnswerTypes ==
    ASSUME TypeOK, Answer
    PROVE  TypeOK'
<1>1. CASE \E listed \in SUBSET Gens : GenerationsArrive(listed)
  BY <1>1 DEF GenerationsArrive, TypeOK, chosen, pending, restore
<1>2. ASSUME NEW f \in fetches, ApplyGenerationToCanvas(f) PROVE TypeOK'
  <2>1. f.item \in Gens
    BY DEF TypeOK, Fetch
  <2> QED
    BY <1>2, <2>1 DEF ApplyGenerationToCanvas, HandMade, TypeOK, restore, page
<1>3. ASSUME NEW d \in deletes, GenerationDeleted(d) PROVE TypeOK'
  BY <1>3 DEF GenerationDeleted, HandMade, TypeOK, restore, page
<1>4. ASSUME NEW d \in deletes, DeleteFails(d) PROVE TypeOK'
  BY <1>4 DEF DeleteFails, TypeOK, chosen, restore, page
<1>5. ASSUME NEW N \in SUBSET unmade, NEW first \in N, GenerationMade(N, first)
      PROVE  TypeOK'
  <2>1. first \in Gens
    BY DEF TypeOK
  <2>2. fetches' \subseteq Fetch
    BY <1>5, <2>1, FetchTypes DEF GenerationMade
  <2> QED
    BY <1>5, <2>2 DEF GenerationMade, TypeOK, chosen, restore, page
<1>6. CASE GenerateFails
  BY <1>6 DEF GenerateFails, TypeOK, chosen, restore, page
<1>7. CASE WorkspaceSaved
  <2>1. saving \in Snapshot
    BY <1>7 DEF WorkspaceSaved, TypeOK
  <2>2. /\ saving.layers \subseteq Drawn \cup Gens /\ saving.items \subseteq Gens
        /\ saving.selected \in Gens \cup {None}
        /\ saving.materialized \in Gens \cup {None}
    BY <2>1 DEF Snapshot
  <2> QED
    BY <1>7, <2>2 DEF WorkspaceSaved, TypeOK, chosen, pending
<1>8. CASE SaveFails
  BY <1>8 DEF SaveFails, TypeOK, chosen, pending, restore
<1>9. CASE AutoLoadNothing \/ \E S \in SUBSET (Drawn \cup Gens) : AutoLoadAnswer(S)
  BY <1>9, RestoreTypes
<1> QED
  BY <1>1, <1>2, <1>3, <1>4, <1>5, <1>6, <1>7, <1>8, <1>9 DEF Answer

\* Every step keeps the types.
LEMMA StepTypes == TypeOK /\ [Next]_vars => TypeOK'
<1>1. CASE UNCHANGED vars
  BY <1>1 DEF TypeOK, vars
<1>2. ASSUME TypeOK, UserStep PROVE TypeOK'
  BY <1>2, EditTypes, RequestTypes DEF UserStep
<1>3. ASSUME TypeOK, AutoLoadTimer PROVE TypeOK'
  BY <1>3, RestoreTypes
<1>4. ASSUME TypeOK, Answer PROVE TypeOK'
  BY <1>4, AnswerTypes
<1> QED
  BY <1>1, <1>2, <1>3, <1>4 DEF Next

\* In every state the variables have the types of the React states, refs and
\* closures of PhotoStudioWorkspace they stand for.
THEOREM TypeCorrect == Spec => []TypeOK
BY InitTypes, StepTypes, PTL DEF Spec

----------------------------------------------------------------------------
(* One generation on the canvas.                                             *)

\* Steps that leave the panel's mark and the save alone and add no generation's
\* layer keep the layers matched.
LEMMA KeepsMatch ==
    ASSUME Matches, UNCHANGED <<materializedGenerationId, saving>>,
           OfGenerations(canvasLayers') \subseteq OfGenerations(canvasLayers)
    PROVE  (LayersMatchMaterialized /\ SavingMatches)'
BY DEF Matches, LayersMatchMaterialized, SavingMatches

\* Replacing the whole canvas takes the mark away.
LEMMA ReplaceMatches ==
    ASSUME Matches, NEW S, ReplaceCanvas(S), UNCHANGED saving
    PROVE  (LayersMatchMaterialized /\ SavingMatches)'
BY DEF ReplaceCanvas, Matches, LayersMatchMaterialized, SavingMatches

\* Every step keeps the layers of the canvas, and of the snapshot being saved,
\* those of the marked generation.
LEMMA StepMatches == Matches /\ [Next]_vars => (LayersMatchMaterialized /\ SavingMatches)'
<1> SUFFICES ASSUME Matches, [Next]_vars
             PROVE  (LayersMatchMaterialized /\ SavingMatches)'
  OBVIOUS
<1>t. TypeOK
  BY DEF Matches
<1>1. CASE UNCHANGED <<canvasLayers, materializedGenerationId, saving>>
  BY <1>1, KeepsMatch
<1>2. ASSUME NEW l \in Drawn, AddLayer(l)
      PROVE  (LayersMatchMaterialized /\ SavingMatches)'
  BY <1>2, KeepsMatch, CanvasAssumption DEF AddLayer, OfGenerations, chosen, page
<1>3. ASSUME NEW S \in SUBSET canvasLayers, RemoveLayers(S)
      PROVE  (LayersMatchMaterialized /\ SavingMatches)'
  BY <1>3, KeepsMatch DEF RemoveLayers, OfGenerations, chosen, page
<1>4. ASSUME NEW S, \/ LoadSavedDesign(S) \/ ImportCanvasJson(S) \/ AutoLoadAnswer(S)
      PROVE  (LayersMatchMaterialized /\ SavingMatches)'
  BY <1>4, ReplaceMatches DEF LoadSavedDesign, ImportCanvasJson, AutoLoadAnswer, page
<1>5. CASE SaveWorkspace
  BY <1>5 DEF SaveWorkspace, Emitted, Matches, LayersMatchMaterialized, SavingMatches,
              chosen
<1>6. ASSUME NEW f \in fetches, ApplyGenerationToCanvas(f)
      PROVE  (LayersMatchMaterialized /\ SavingMatches)'
  BY <1>6 DEF ApplyGenerationToCanvas, HandMade, OfGenerations, Matches,
              LayersMatchMaterialized, SavingMatches, page
<1>7. ASSUME NEW d \in deletes, GenerationDeleted(d)
      PROVE  (LayersMatchMaterialized /\ SavingMatches)'
  BY <1>7 DEF GenerationDeleted, HandMade, OfGenerations, Matches,
              LayersMatchMaterialized, SavingMatches, page
<1>8. CASE WorkspaceSaved
  BY <1>8 DEF WorkspaceSaved, Matches, LayersMatchMaterialized, SavingMatches, chosen
<1>9. CASE SaveFails
  BY <1>9 DEF SaveFails, Matches, LayersMatchMaterialized, SavingMatches, chosen
<1>10. CASE AutoLoadTimer \/ AutoLoadNothing \/ HandleGenerate \/ GenerateFails
  BY <1>10, <1>1 DEF AutoLoadTimer, AutoLoadNothing, HandleGenerate, GenerateFails,
                     chosen, page
<1>11. ASSUME NEW g \in Gens, SelectGeneration(g) \/ StartDeleteGeneration(g)
       PROVE  (LayersMatchMaterialized /\ SavingMatches)'
  BY <1>11, <1>1 DEF SelectGeneration, StartDeleteGeneration, chosen, page
<1>12. ASSUME NEW listed \in SUBSET Gens, GenerationsArrive(listed)
       PROVE  (LayersMatchMaterialized /\ SavingMatches)'
  BY <1>12, <1>1 DEF GenerationsArrive, chosen
<1>13. ASSUME NEW d \in deletes, DeleteFails(d)
       PROVE  (LayersMatchMaterialized /\ SavingMatches)'
  BY <1>13, <1>1 DEF DeleteFails, chosen, page
<1>14. ASSUME NEW N \in SUBSET unmade, NEW first \in N, GenerationMade(N, first)
       PROVE  (LayersMatchMaterialized /\ SavingMatches)'
  BY <1>14, <1>1 DEF GenerationMade, chosen, page
<1>15. CASE UNCHANGED vars
  BY <1>15, <1>1 DEF vars
<1> QED
  BY <1>2, <1>3, <1>4, <1>5, <1>6, <1>7, <1>8, <1>9, <1>10, <1>11, <1>12, <1>13,
     <1>14, <1>15 DEF Next, UserStep, Answer

\* However the answers of the server interleave with the user's clicks, saves
\* and restores, when a generation is marked "On canvas" no layer of another
\* generation is on the canvas.
THEOREM OneGenerationOnCanvas == Spec => []LayersMatchMaterialized
<1>1. Init => Matches
  <2>1. Init => LayersMatchMaterialized /\ SavingMatches
    BY DEF Init, Coherent, LayersMatchMaterialized, SavingMatches
  <2> QED
    BY <2>1, InitTypes DEF Matches
<1>2. Matches /\ [Next]_vars => Matches'
  BY StepTypes, StepMatches DEF Matches
<1>3. Matches => LayersMatchMaterialized
  BY DEF Matches
<1> QED
  BY <1>1, <1>2, <1>3, PTL DEF Spec

----------------------------------------------------------------------------
(* Layers drawn by hand.                                                     *)

\* An answer to a click on a generation never adds or removes a layer drawn by
\* hand, whatever was drawn while the answer was awaited.
THEOREM HandMadeSurvivesAnswers == Spec => AnswersKeepHandMade
<1>1. ASSUME TypeOK, [Next]_vars,
             \/ fetches' # fetches \/ deletes' # deletes
             \/ localGenerating' # localGenerating
      PROVE  HandMade(canvasLayers') = HandMade(canvasLayers)
  <2>1. CASE UNCHANGED canvasLayers
    BY <2>1 DEF HandMade
  <2>2. ASSUME NEW f \in fetches, ApplyGenerationToCanvas(f)
        PROVE  HandMade(canvasLayers') = HandMade(canvasLayers)
    <3>1. f.item \in Gens
      BY <1>1 DEF TypeOK, Fetch
    <3> QED
      BY <2>2, <3>1 DEF ApplyGenerationToCanvas, HandMade
  <2>3. ASSUME NEW d \in deletes, GenerationDeleted(d)
        PROVE  HandMade(canvasLayers') = HandMade(canvasLayers)
    BY <2>3 DEF GenerationDeleted, HandMade
  <2>4. \/ UNCHANGED canvasLayers
        \/ \E f \in fetches : ApplyGenerationToCanvas(f)
        \/ \E d \in deletes : GenerationDeleted(d)
    BY <1>1 DEF Next, vars, UserStep, Answer, AddLayer, RemoveLayers, LoadSavedDesign,
        ImportCanvasJson, AutoLoadTimer, AutoLoadAnswer, AutoLoadNothing,
        GenerationsArrive, SelectGeneration, StartDeleteGeneration, DeleteFails,
        HandleGenerate, GenerationMade, GenerateFails, SaveWorkspace, WorkspaceSaved,
        SaveFails, pending
  <2> QED
    BY <2>1, <2>2, <2>3, <2>4
<1>2. TypeOK /\ [Next]_vars =>
          [fetches' # fetches \/ deletes' # deletes \/ localGenerating' # localGenerating =>
               HandMade(canvasLayers') = HandMade(canvasLayers)]_vars
  BY <1>1
<1> QED
  BY <1>2, TypeCorrect, PTL DEF Spec, AnswersKeepHandMade

----------------------------------------------------------------------------
(* One request at a time.                                                    *)

\* Steps that start no request and end at most one, and only add to the items.
LEMMA KeepsSequential ==
    ASSUME Sequential, UNCHANGED overlapped,
           fetches' \subseteq fetches, deletes' \subseteq deletes,
           localGenerating' => localGenerating,
           saving' \in {saving, None},
           generatedItems \subseteq generatedItems',
           selectedGenerationId' \in {selectedGenerationId, None},
           materializedGenerationId' \in {materializedGenerationId, None},
           None \notin Gens, deletes \subseteq Delete
    PROVE  Sequential'
<1>1. \A d \in deletes : d.id # None
  BY DEF Delete
<1> QED
  BY <1>1 DEF Sequential, OneAtATime, Remembered, SavedPanel, Panel

\* The user's edits and the automatic restore start no request of the user's.
LEMMA EditsSequential ==
    ASSUME TypeOK, Sequential,
           \/ \E l \in Drawn : AddLayer(l)
           \/ \E S \in SUBSET canvasLayers : RemoveLayers(S)
           \/ \E S : LoadSavedDesign(S) \/ ImportCanvasJson(S) \/ AutoLoadAnswer(S)
           \/ AutoLoadTimer \/ AutoLoadNothing
    PROVE  Sequential'
<1>1. /\ selectedGenerationId' \in {selectedGenerationId, None}
      /\ materializedGenerationId' \in {materializedGenerationId, None}
      /\ UNCHANGED <<generatedItems, overlapped, saving, pending>>
  BY DEF AddLayer, RemoveLayers, LoadSavedDesign, ImportCanvasJson, ReplaceCanvas,
         AutoLoadTimer, AutoLoadAnswer, AutoLoadNothing, chosen, page
<1> QED
  BY <1>1, KeepsSequential, CanvasAssumption DEF TypeOK, pending

\* A request made while none is in flight remembers what the panel shows.
LEMMA RequestsSequential ==
    ASSUME TypeOK, Sequential,
           \/ \E g \in Gens : SelectGeneration(g) \/ StartDeleteGeneration(g)
           \/ HandleGenerate
           \/ SaveWorkspace
    PROVE  Sequential'
<1> SUFFICES ASSUME ~overlapped'
             PROVE  (OneAtATime /\ Remembered /\ SavedPanel /\ Panel)'
  BY DEF Sequential
<1>1. /\ ~overlapped /\ ~Busy
      /\ UNCHANGED <<generatedItems, chosen>>
  BY DEF SelectGeneration, StartDeleteGeneration, HandleGenerate, SaveWorkspace,
         NewRequest
<1>2. /\ fetches = {} /\ deletes = {} /\ ~localGenerating /\ saving = None /\ Panel
  BY <1>1 DEF Busy, Sequential
<1>3. ASSUME NEW g \in Gens, SelectGeneration(g)
      PROVE  (OneAtATime /\ Remembered /\ SavedPanel /\ Panel)'
  <2>1. \A f \in fetches' : f.item = g
    BY <1>2, <1>3 DEF SelectGeneration, Fetching
  <2> QED
    BY <1>1, <1>2, <1>3, <2>1 DEF SelectGeneration, page, OneAtATime, Remembered,
       SavedPanel, Panel, chosen
<1>4. ASSUME NEW g \in Gens, StartDeleteGeneration(g)
      PROVE  (OneAtATime /\ Remembered /\ SavedPanel /\ Panel)'
  <2>1. /\ \A d, e \in deletes' : d = e
        /\ \A d \in deletes' : /\ d.selected = selectedGenerationId
                               /\ d.materialized = materializedGenerationId
    BY <1>2, <1>4 DEF StartDeleteGeneration
  <2> QED
    BY <1>1, <1>2, <1>4, <2>1 DEF StartDeleteGeneration, page, OneAtATime, Remembered,
       SavedPanel, Panel, chosen
<1>5. CASE HandleGenerate
  BY <1>1, <1>2, <1>5 DEF HandleGenerate, page, OneAtATime, Remembered, SavedPanel,
     Panel, chosen
<1>6. CASE SaveWorkspace
  BY <1>1, <1>2, <1>6 DEF SaveWorkspace, Emitted, pending, OneAtATime, Remembered,
     SavedPanel, Panel, chosen
<1> QED
  BY <1>3, <1>4, <1>5, <1>6

\* An answer finds what its closure remembers on the panel.
LEMMA AnswersSequential ==
    ASSUME TypeOK, Sequential, Answer
    PROVE  Sequential'
<1>1. ASSUME NEW listed \in SUBSET Gens, GenerationsArrive(listed) PROVE Sequential'
  BY <1>1, KeepsSequential, CanvasAssumption DEF GenerationsArrive, chosen, pending, TypeOK
<1>2. ASSUME NEW f \in fetches, ApplyGenerationToCanvas(f) PROVE Sequential'
  <2>1. ~overlapped => f.item \in generatedItems /\ deletes = {} /\ saving = None
    BY <1>2 DEF Sequential, OneAtATime, Remembered
  <2> QED
    BY <1>2, <2>1 DEF ApplyGenerationToCanvas, Sequential, OneAtATime, Remembered,
       SavedPanel, Panel, page
<1>3. ASSUME NEW d \in deletes, GenerationDeleted(d) PROVE Sequential'
  <2>1. ~overlapped => fetches = {} /\ deletes = {d} /\ saving = None
    BY <1>3 DEF Sequential, OneAtATime
  <2>2. ~overlapped => /\ selectedGenerationId = d.id => d.selected = d.id
                       /\ materializedGenerationId = d.id => d.materialized = d.id
    BY <1>3 DEF Sequential, Remembered
  <2> QED
    BY <1>3, <2>1, <2>2 DEF GenerationDeleted, Sequential, OneAtATime, Remembered,
       SavedPanel, Panel, page
<1>4. ASSUME NEW d \in deletes, DeleteFails(d) PROVE Sequential'
  BY <1>4, KeepsSequential, CanvasAssumption DEF DeleteFails, chosen, page, TypeOK
<1>5. ASSUME NEW N \in SUBSET unmade, NEW first \in N, GenerationMade(N, first)
      PROVE  Sequential'
  <2>1. ~overlapped => fetches = {} /\ deletes = {} /\ saving = None
    BY <1>5 DEF GenerationMade, Sequential, OneAtATime
  <2>2. ~overlapped => \A f \in fetches' : f.item = first
    BY <1>5, <2>1 DEF GenerationMade, Fetching
  <2> QED
    BY <1>5, <2>1, <2>2 DEF GenerationMade, Sequential, OneAtATime, Remembered,
       SavedPanel, Panel, page, chosen
<1>6. CASE GenerateFails
  BY <1>6, KeepsSequential, CanvasAssumption DEF GenerateFails, chosen, page, TypeOK
<1>7. CASE WorkspaceSaved
  <2>1. ~overlapped => fetches = {} /\ deletes = {} /\ ~localGenerating /\ SavedPanel
    BY <1>7 DEF WorkspaceSaved, Sequential, OneAtATime
  <2> QED
    BY <1>7, <2>1 DEF WorkspaceSaved, Sequential, OneAtATime, Remembered, SavedPanel,
       Panel, pending, chosen
<1>8. CASE SaveFails
  BY <1>8, KeepsSequential, CanvasAssumption DEF SaveFails, chosen, pending, TypeOK
<1>9. CASE AutoLoadNothing \/ \E S \in SUBSET (Drawn \cup Gens) : AutoLoadAnswer(S)
  BY <1>9, EditsSequential
<1> QED
  BY <1>1, <1>2, <1>3, <1>4, <1>5, <1>6, <1>7, <1>8, <1>9 DEF Answer

\* Every step keeps the closures and the panel in agreement until two requests
\* overlap.
LEMMA StepSequential == TypeOK /\ Sequential /\ [Next]_vars => Sequential'
<1>1. ASSUME Sequential, UNCHANGED vars PROVE Sequential'
  BY <1>1 DEF vars, Sequential, OneAtATime, Remembered, SavedPanel, Panel
<1>2. ASSUME TypeOK, Sequential, UserStep PROVE Sequential'
  BY <1>2, EditsSequential, RequestsSequential DEF UserStep
<1>3. ASSUME TypeOK, Sequential, AutoLoadTimer PROVE Sequential'
  BY <1>3, EditsSequential
<1> QED
  BY <1>1, <1>2, <1>3, AnswersSequential DEF Next

\* Until two requests are in flight together, the generations shown as selected
\* and as "On canvas" are ones the panel still lists.
THEOREM PanelIsConsistent == Spec => []SequentialUseKeepsPanel
<1>1. Init => Sequential
  BY DEF Init, Coherent, Sequential, OneAtATime, Remembered, SavedPanel, Panel
<1>2. Sequential => SequentialUseKeepsPanel
  BY DEF Sequential, Panel, SequentialUseKeepsPanel
<1> QED
  BY <1>1, <1>2, StepSequential, TypeCorrect, PTL DEF Spec
=============================================================================
