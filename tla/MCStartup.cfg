SPECIFICATION Spec
CONSTANTS
    Absent = Absent
    Garbled = Garbled
    FrameIds = {"", "frame1", "frame2"}
    Frames <- TwoFrames
    Answers <- SomeAnswers
    UserConfigs <- SomeConfigs
INVARIANTS
    TypeOK
    StartedWithAll
    PanicsOnlyForBuffer
    GeneratedAccepted
    DryRunPredicts
    FaultsFoundAtStart
    MessagesFilled
