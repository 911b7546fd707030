CONSTANTS
    Slots = {r1, r2}
    NoReply = NoReply
    Platform = "windows"
SPECIFICATION Spec
INVARIANT CancelHonoured
