\* One process asks again and again; answers come late, do not fit, or never come.
CONSTANTS
    Proc = {p}
    MaxReq = 3
    MaxLines = 2
    AnswerLens = {1, 3}
    OtherOutput = TRUE
SPECIFICATION MCSpec
INVARIANTS OwnResponse  Rasterised AnswerFits
PROPERTIES  DrainEnds
