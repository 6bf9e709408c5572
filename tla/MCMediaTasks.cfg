\* Tasks and their worker, beside the call of either handler, with every choice of services.
CONSTANTS
    h1 = h1
    h2 = h2
    t1 = t1
    t2 = t2
    video0 = video0
    video1 = video1
    blank = blank
    blank_audio = blank_audio
    Jobs = {h1, h2, t1, t2}
    Tasks = {t1, t2}
    Audio = {h2}
    Kind <- MCKind
    Files = {video0, video1, blank, blank_audio}
    VideoFile <- MCVideoFile
    Output <- MCOutput
    WithAudio <- MCWithAudio
    MaxFrames = 2
    MaxSecond = 1
    QueueSize = 0
    NoJob = none
SPECIFICATION FairSpec
CONSTRAINT OneHandler
INVARIANTS
    TypeOK
    FoundUntilOld
    TempsRemoved
PROPERTIES
    OwnFrames
    DiesInWorkerOnly
    TasksImplementService
    SubmittedIsAnswered
