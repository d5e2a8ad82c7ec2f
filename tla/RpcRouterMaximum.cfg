\* Signatures of up to two parameters, and up to three values.
SPECIFICATION Spec
CONSTANTS
    Paths = {"add"}
    NotAPath = "unknown"
    Ids = {"id1"}
    ArgKinds = {"JInt"}
    MaxItems = 3
    Sigs <- OneKindSigs
INVARIANT MaximumIsKept
