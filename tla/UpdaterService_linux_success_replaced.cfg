CONSTANTS
    Slots = {r1, r2}
    NoReply = NoReply
    Platform = "linux"
SPECIFICATION Spec
PROPERTY SuccessMeansReplaced
