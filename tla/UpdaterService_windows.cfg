CONSTANTS
    Slots = {r1, r2}
    NoReply = NoReply
    Platform = "windows"
SPECIFICATION Spec
SYMMETRY SlotSymmetry
INVARIANT StagedAfterBackup
