\* Two processes ask.
CONSTANTS
    Proc = {p, q}
    MaxReq = 3
    MaxLines = 2
    AnswerLens = {1}
    OtherOutput = FALSE
SPECIFICATION Spec
INVARIANT OwnResponse
CHECK_DEADLOCK FALSE
