\* An image whose chunks fill the buffer exactly, nothing fails.
SPECIFICATION Spec
CONSTANTS
    v1 = v1
    v2 = v2
    Images = {v1, v2}
    NoImage = NoImage
    Factory = v1
    NumChunks = 2
    FlushChunks = 2
    FlashMayFail = FALSE
    RepliesMayBeLost = FALSE
    DataMayBeCorrupt = FALSE
INVARIANT FinishAnswersAfterAllChunks
