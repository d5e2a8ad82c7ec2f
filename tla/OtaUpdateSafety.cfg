\* Two images, an upload whose last chunk stays in the buffer, every fault.
SPECIFICATION Spec
CONSTANTS
    v1 = v1
    v2 = v2
    Images = {v1, v2}
    NoImage = NoImage
    Factory = v1
    NumChunks = 3
    FlushChunks = 2
    FlashMayFail = TRUE
    RepliesMayBeLost = TRUE
    DataMayBeCorrupt = TRUE
INVARIANTS TypeOK UploadIsPrefix RunningImageIntact TrialHasFallback
PROPERTY ImplementsSwap
