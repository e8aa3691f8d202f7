SPECIFICATION StatusSpec
CONSTANTS
    w1 = w1
    w2 = w2
    Tasks = {1, 2}
    Workers = {w1, w2}
    Nobody = Nobody
    CreatedAt <- AtOnce
    PageSize = 1
SYMMETRY Symmetry
INVARIANTS StatusTypeOK NoMissedCompletion ReportedCompletion EveryTaskOnOnePage
PROPERTIES CompletedIsFinal EvaluatedAtOnce
