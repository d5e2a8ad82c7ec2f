\* One procedure with any signature of up to three parameters, any request.
SPECIFICATION Spec
CONSTANTS
    Paths = {"add"}
    NotAPath = "unknown"
    Ids = {"id1"}
    ArgKinds = {"JInt", "JString"}
    MaxItems = 4
    Sigs <- SmallSigs
INVARIANTS TypeOK AlwaysAnswered CallsMatchSignature
