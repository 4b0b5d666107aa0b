SPECIFICATION Spec
CONSTANTS
    Snapshots <- MCSnapshots
    Edits <- MCEdits
    Edited <- MCEdited
    Unseen <- MCUnseen
    Noted <- MCNoted
    Stacks <- MCStacks
INVARIANTS
    DriftIsWhatWasEdited
    DriftedIsNotMigrated
    ServingIsSound
    BootstrapHandsOver
CHECK_DEADLOCK FALSE
