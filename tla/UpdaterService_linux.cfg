CONSTANTS
    Slots = {r1, r2, r3}
    NoReply = NoReply
    Platform = "linux"
SPECIFICATION Spec
INVARIANTS TypeOK SingleFlight CancelHonoured
