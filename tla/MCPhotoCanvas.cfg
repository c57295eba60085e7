SPECIFICATION FairSpec
CONSTANTS
    h1 = h1
    g1 = g1
    g2 = g2
    Drawn <- MCDrawn
    Gens <- MCGens
    None = None
    MaxRequests = 2
INVARIANTS
    TypeOK
    LayersMatchMaterialized
    SequentialUseKeepsPanel
PROPERTIES
    AnswersKeepHandMade
    DeleteButtonReturns
