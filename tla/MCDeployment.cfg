\* Runs of setup with two setbacks among them, edits, and starts of the server.
CONSTANTS
    Programs = {"llama", "ffmpeg", "comfy"}
    Edited <- MCEdited
    MaxSetbacks = 2
    Outputs <- MCOutputs
    Measures <- MCMeasures
    ConfigMemory = 8
    PresetInstances = 2
SPECIFICATION FairSpec
INVARIANTS
    TypeOK
    TruncatedOnlyWhenHurt
    SetupServes
    
    ChoosesBest
PROPERTIES
    GetsInstalled
