SPECIFICATION LiveSpec
CONSTANTS
    None = None
    MaxFee = 8
    Envelope = 2
    Window = 1
    Slack = 1
    MaxAge = 1
    MaxSize = 2
    MaxDials = 2
    MaxRound = 3
    MaxTime = 2
    PerByte = {0, 2, 5}
INVARIANTS
    AnchorsAsAsked
    SoundAnswerTaken
    OneInFlight
PROPERTY
    SubmittedIsConfirmed
CHECK_DEADLOCK FALSE
