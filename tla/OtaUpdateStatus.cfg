\* Nothing fails but the diagnostic of the new image.
SPECIFICATION Spec
CONSTANTS
    v1 = v1
    v2 = v2
    Images = {v1, v2}
    NoImage = NoImage
    Factory = v1
    NumChunks = 3
    FlushChunks = 2
    FlashMayFail = FALSE
    RepliesMayBeLost = FALSE
    DataMayBeCorrupt = FALSE
INVARIANT InvalidVersionIsReported
