SPECIFICATION Spec
CONSTANTS
    User <- MCUser
    Item <- MCItem
    Graphs <- MCGraphs
    Queries = {0, 3}
    Numberings <- MCNumberings
    PackWidth = 2
    Alphas = {0, 1}
    Rounds = {1, 2, 4}
    Eps <- MCEps
    AdaptRho <- MCAdaptRho
    DirectOver = 3
INVARIANTS TypeOK ExactScores DrawScores
PROPERTIES SlotGain
