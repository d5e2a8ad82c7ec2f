------------------------------ MODULE OtaUpdate ------------------------------
(***************************************************************************)
(* Firmware updates over RPC: the four procedures of servers/rpc/ota_rpc.nim *)
(* on ota_utils.nim, with an uploader that retries and the power that fails. *)
(*                                                                          *)
(* The RPC task runs one procedure at a time, so a procedure is one step    *)
(* unless the power can fail between two of its writes that outlive it.     *)
(* An image is a header chunk 0 and the chunks 1 .. NumChunks.              *)
(***************************************************************************)
EXTENDS Naturals, Sequences

CONSTANTS
    Images,             \* firmware images; an image is its own version
    NoImage,            \* no image, or an erased partition
    Factory,            \* the image the device comes with
    NumChunks,          \* chunks of an image after its header
    FlushChunks,        \* chunks that fill ota_buff to the 4096 bytes of a flash write
    FlashMayFail,       \* can esp_ota_begin, _write, _end, _set_boot_partition fail?
    RepliesMayBeLost,   \* can the uploader miss the reply to a call that was made?
    DataMayBeCorrupt    \* can a chunk arrive that is not what its hash is of?

ASSUME ImagesAssumption == Factory \in Images /\ NoImage \notin Images
ASSUME ChunksAssumption == NumChunks \in Nat \ {0} /\ FlushChunks \in Nat \ {0}
ASSUME FaultsAssumption ==
    FlashMayFail \in BOOLEAN /\ RepliesMayBeLost \in BOOLEAN /\ DataMayBeCorrupt \in BOOLEAN

Slots == {"ota_0", "ota_1"}
Other(s) == IF s = "ota_0" THEN "ota_1" ELSE "ota_0"

Chunk == [img : Images, idx : 0 .. NumChunks]
Whole(img) == [i \in 1 .. NumChunks + 1 |-> [img |-> img, idx |-> i - 1]]

ImgStates == {"new", "pending", "valid", "invalid", "aborted", "undefined"}
Rejected == {"invalid", "aborted"}

Statuses == {"VersionNewer", "VersionSameAsCurrent", "VersionMatchesPreviousInvalid"}

VARIABLES
    flash,      \* flash[s]: what partition s holds
    imgState,   \* imgState[s]: its state in otadata
    boot,       \* the configured boot partition
    running,    \* the running partition
    ota,        \* the global ota: "nil", "idle" (no update handle), "open", "ended"
    otaId,      \* the id the next chunk must have
    otaBuff,    \* chunks not written yet
    serving,    \* FALSE once a Defect has left the RPC task without an answer
    pc,         \* "ready", or the step firmware-finish is at: "end", "boot"
    upImg,      \* the image the uploader sends
    upNext,     \* its next call: 0 begin, 1 .. NumChunks a chunk, NumChunks + 1 finish
    damaged,    \* history: a flash write failed since the last firmware-begin
    verdict     \* history: what the last firmware-begin compared, and its answer

flashVars == <<flash, imgState, boot, running>>
otaVars == <<ota, otaId, otaBuff, serving, pc>>
uploaderVars == <<upImg, upNext>>
vars == <<flash, imgState, boot, running, ota, otaId, otaBuff, serving, pc,
          upImg, upNext, damaged, verdict>>

\* Mutation of Update: counted from the configured partition.
UpdateFromBoot == Other(boot)

Update == Other(running)
ImageOf(s) == IF flash[s] = <<>> THEN NoImage ELSE flash[s][1].img
IsWhole(content) == \E img \in Images : content = Whole(img)

NoVerdict == [new |-> NoImage, current |-> NoImage, invalid |-> NoImage, status |-> "VersionNewer"]

Init ==
    /\ flash = [s \in Slots |-> IF s = "ota_0" THEN Whole(Factory) ELSE <<>>]
    /\ imgState = [s \in Slots |-> "undefined"]
    /\ boot = "ota_0"
    /\ running = "ota_0"
    /\ ota = "nil"
    /\ otaId = 0
    /\ otaBuff = <<>>
    /\ serving = TRUE
    /\ pc = "ready"
    /\ upImg \in Images
    /\ upNext = 0
    /\ damaged = FALSE
    /\ verdict = NoVerdict

-----------------------------------------------------------------------------
(* The uploader.  rpc_ota_uploader.nim makes the calls in this order and stops at the
   first that fails.  This one over-approximates it: it is any client that makes them
   in order, and it may also make a call again when it missed the reply, or go on after
   a refusal, which is what the id that the server checks is for. *)

\* The uploader goes on when it gets a reply that lets it; the reply may be lost, and
\* then it makes the call again.
Advance ==
    \/ upNext' = upNext + 1
    \/ RepliesMayBeLost /\ upNext' = upNext

\* It is started again, perhaps with another file.
Restart(img) ==
    /\ upNext # 0
    /\ upImg' = img
    /\ upNext' = 0
    /\ UNCHANGED <<flashVars, otaVars, damaged, verdict>>

\* What the uploader can call: one procedure at a time, and one that answers.
Called(n) == serving /\ pc = "ready" /\ upNext = n

-----------------------------------------------------------------------------
(* firmware-begin *)

\* checkImageHeader compares three versions before anything is erased.
LastInvalid == IF imgState[Update] \in Rejected THEN ImageOf(Update) ELSE NoImage

CheckImageHeader(new) ==
    IF LastInvalid # NoImage /\ LastInvalid = ImageOf(running) THEN "VersionMatchesPreviousInvalid"
    ELSE IF new = ImageOf(running) THEN "VersionSameAsCurrent"
    ELSE "VersionNewer"

\* An update is under way: ValueError.  A retry of a call whose reply was lost ends
\* here too, and nothing but a reset of the device gets out.
BeginRefused ==
    /\ Called(0)
    /\ ota # "nil"
    /\ UNCHANGED vars

\* checkImageHeader raises (short data): the handle is there, the id is not.
BeginBadHeader ==
    /\ Called(0)
    /\ ota = "nil"
    /\ DataMayBeCorrupt
    /\ ota' = "idle"
    /\ UNCHANGED <<flashVars, otaId, otaBuff, serving, pc, uploaderVars, damaged, verdict>>

Verdict == [new |-> upImg, current |-> ImageOf(running), invalid |-> LastInvalid,
            status |-> CheckImageHeader(upImg)]

\* esp_ota_begin raises: a flash error, or the running image is not confirmed.
BeginFails ==
    /\ Called(0)
    /\ ota = "nil"
    /\ FlashMayFail \/ imgState[running] = "pending"
    /\ ota' = "idle"
    /\ otaId' = 1
    /\ verdict' = Verdict
    /\ UNCHANGED <<flashVars, otaBuff, serving, pc, uploaderVars, damaged>>

\* Mutation of Begin: the error of esp_ota_begin is not looked at, and the partition
\* is written all the same.
BeginUnchecked ==
    /\ Called(0)
    /\ ota = "nil"
    /\ ota' = "open"
    /\ otaId' = 1
    /\ verdict' = Verdict
    /\ flash' = [flash EXCEPT ![Update] = <<[img |-> upImg, idx |-> 0]>>]
    /\ otaBuff' = <<>>
    /\ damaged' = FALSE
    /\ Advance
    /\ UNCHANGED <<imgState, boot, running, serving, pc, upImg>>

\* esp_ota_begin erases the partition that does not run, and the header is written
\* to it, whatever the status of the version.
Begin ==
    /\ Called(0)
    /\ ota = "nil"
    /\ imgState[running] # "pending"
    /\ ota' = "open"
    /\ otaId' = 1
    /\ verdict' = Verdict
    /\ \/ /\ flash' = [flash EXCEPT ![Update] = <<[img |-> upImg, idx |-> 0]>>]
          /\ otaBuff' = <<>>
          /\ damaged' = FALSE
          /\ Advance
       \/ /\ FlashMayFail           \* the write of the header raises
          /\ flash' = [flash EXCEPT ![Update] = <<>>]
          /\ damaged' = TRUE
          /\ UNCHANGED <<otaBuff, upNext>>
    /\ UNCHANGED <<imgState, boot, running, serving, pc, upImg>>

-----------------------------------------------------------------------------
(* firmware-chunk *)

IsChunk(n) == n \in 1 .. NumChunks

\* The id or the hash is wrong: ValueError.  An uploader that missed a reply takes the
\* refusal for the answer and goes on.
ChunkRefused ==
    /\ Called(upNext)
    /\ IsChunk(upNext)
    /\ upNext # otaId \/ DataMayBeCorrupt
    /\ upNext' = IF upNext < otaId THEN upNext + 1 ELSE upNext
    /\ UNCHANGED <<flashVars, otaVars, upImg, damaged, verdict>>

Grown == Append(otaBuff, [img |-> upImg, idx |-> upNext])

ChunkAppended ==
    /\ Called(upNext)
    /\ IsChunk(upNext)
    /\ upNext = otaId
    /\ Len(Grown) < FlushChunks
    /\ otaBuff' = Grown
    /\ otaId' = otaId + 1
    /\ Advance
    /\ UNCHANGED <<flashVars, ota, serving, pc, upImg, damaged, verdict>>

\* Mutation of ChunkFlushed: the id is not checked.
ChunkFlushedAnyId ==
    /\ Called(upNext)
    /\ IsChunk(upNext)
    /\ Len(Grown) >= FlushChunks
    /\ ota = "open"
    /\ flash' = [flash EXCEPT ![Update] = @ \o Grown]
    /\ otaBuff' = <<>>
    /\ otaId' = otaId + 1
    /\ Advance
    /\ UNCHANGED <<imgState, boot, running, ota, serving, pc, upImg, damaged, verdict>>

\* Mutation of ChunkFlushed: the buffer is not reset.
ChunkFlushedKeepsBuffer ==
    /\ Called(upNext)
    /\ IsChunk(upNext)
    /\ upNext = otaId
    /\ Len(Grown) >= FlushChunks
    /\ ota = "open"
    /\ flash' = [flash EXCEPT ![Update] = @ \o Grown]
    /\ otaBuff' = Grown
    /\ otaId' = otaId + 1
    /\ Advance
    /\ UNCHANGED <<imgState, boot, running, ota, serving, pc, upImg, damaged, verdict>>

ChunkFlushed ==
    /\ Called(upNext)
    /\ IsChunk(upNext)
    /\ upNext = otaId
    /\ Len(Grown) >= FlushChunks
    /\ ota = "open"
    /\ flash' = [flash EXCEPT ![Update] = @ \o Grown]
    /\ otaBuff' = <<>>
    /\ otaId' = otaId + 1
    /\ Advance
    /\ UNCHANGED <<imgState, boot, running, ota, serving, pc, upImg, damaged, verdict>>

\* esp_ota_write raises: the id is not counted, but the chunk stays in the buffer.
ChunkWriteFails ==
    /\ Called(upNext)
    /\ IsChunk(upNext)
    /\ upNext = otaId
    /\ Len(Grown) >= FlushChunks
    /\ FlashMayFail \/ ota # "open"
    /\ Len(otaBuff) < 2 * FlushChunks    \* bound: retries that pile up in the buffer
    /\ otaBuff' = Grown
    /\ damaged' = TRUE
    /\ UNCHANGED <<flashVars, ota, otaId, serving, pc, uploaderVars, verdict>>

-----------------------------------------------------------------------------
(* firmware-finish *)

\* addr write_data[0] of an empty buffer is an IndexDefect: route catches only
\* CatchableError, so it does not answer.  (Where the nil ota is dereferenced
\* first the device panics, which is a Reset.)
FinishDefect ==
    /\ Called(NumChunks + 1)
    /\ ota = "nil" \/ otaBuff = <<>>
    /\ serving' = FALSE
    /\ UNCHANGED <<flashVars, ota, otaId, otaBuff, pc, uploaderVars, damaged, verdict>>

FinishWrite ==
    /\ Called(NumChunks + 1)
    /\ ota = "open" /\ otaBuff # <<>>
    /\ flash' = [flash EXCEPT ![Update] = @ \o otaBuff]
    /\ otaBuff' = <<>>
    /\ pc' = "end"
    /\ UNCHANGED <<imgState, boot, running, ota, otaId, serving, uploaderVars, damaged, verdict>>

FinishWriteFails ==
    /\ Called(NumChunks + 1)
    /\ ota # "nil" /\ otaBuff # <<>>
    /\ FlashMayFail \/ ota # "open"
    /\ damaged' = TRUE
    /\ UNCHANGED <<flashVars, otaVars, uploaderVars, verdict>>

\* esp_ota_end validates the image and frees the handle, whatever it returns.
FinishEnd ==
    /\ pc = "end"
    /\ ota' = "ended"
    /\ \/ IsWhole(flash[Update]) /\ pc' = "boot"
       \/ (~ IsWhole(flash[Update]) \/ FlashMayFail) /\ pc' = "ready"
    /\ UNCHANGED <<flashVars, otaId, otaBuff, serving, uploaderVars, damaged, verdict>>

\* An uploader that was started again in the meantime does not get this reply.
FinishReplied == IF upNext = NumChunks + 1 THEN Advance ELSE UNCHANGED upNext

FinishBoot ==
    /\ pc = "boot"
    /\ pc' = "ready"
    /\ \/ /\ boot' = Update
          /\ imgState' = [imgState EXCEPT ![Update] = "new"]
          /\ ota' = "nil"
          /\ otaId' = 0
          /\ FinishReplied
       \/ /\ FlashMayFail           \* esp_ota_set_boot_partition raises
          /\ UNCHANGED <<boot, imgState, ota, otaId, upNext>>
    /\ UNCHANGED <<flash, running, otaBuff, serving, upImg, damaged, verdict>>

-----------------------------------------------------------------------------
(* Resets, the bootloader and firmware-verify *)

ForgetsMemory ==
    /\ ota' = "nil"
    /\ otaId' = 0
    /\ otaBuff' = <<>>
    /\ serving' = TRUE
    /\ pc' = "ready"
    /\ damaged' = FALSE

\* The bootloader: an image on its first boot becomes pending, one that was already
\* pending is aborted, and what cannot be booted is passed over.
Reset ==
    LET tried == imgState[boot] = "pending"
        states == [imgState EXCEPT ![boot] = IF tried THEN "aborted"
                                             ELSE IF @ = "new" THEN "pending" ELSE @]
        choice == IF states[boot] \in Rejected THEN Other(boot) ELSE boot
    IN  /\ imgState' = states
        /\ boot' = choice
        /\ running' = IF IsWhole(flash[choice]) THEN choice ELSE Other(choice)
        /\ ForgetsMemory
        /\ UNCHANGED <<flash, uploaderVars, verdict>>

\* The diagnostic of an image on trial passes, or fails and the device goes back.
VerifyPasses ==
    /\ serving /\ pc = "ready"
    /\ imgState[running] = "pending"
    /\ imgState' = [imgState EXCEPT ![running] = "valid"]
    /\ UNCHANGED <<flash, boot, running, otaVars, uploaderVars, damaged, verdict>>

\* Mutation of VerifyFails: the image is marked, the device does not go back.
VerifyFailsKeepsRunning ==
    /\ serving /\ pc = "ready"
    /\ imgState[running] = "pending"
    /\ imgState' = [imgState EXCEPT ![running] = "invalid"]
    /\ UNCHANGED <<flash, boot, running, otaVars, uploaderVars, damaged, verdict>>

VerifyFails ==
    /\ serving /\ pc = "ready"
    /\ imgState[running] = "pending"
    /\ imgState' = [imgState EXCEPT ![running] = "invalid"]
    /\ boot' = Other(running)
    /\ running' = Other(running)
    /\ ForgetsMemory
    /\ UNCHANGED <<flash, uploaderVars, verdict>>

-----------------------------------------------------------------------------

Uploader == \E img \in Images : Restart(img)
FirmwareBegin == BeginRefused \/ BeginBadHeader \/ BeginFails \/ Begin
FirmwareChunk == ChunkRefused \/ ChunkAppended \/ ChunkFlushed \/ ChunkWriteFails
FirmwareFinish == FinishDefect \/ FinishWrite \/ FinishWriteFails \/ FinishEnd \/ FinishBoot
FirmwareVerify == VerifyPasses \/ VerifyFails

Next == Uploader \/ FirmwareBegin \/ FirmwareChunk \/ FirmwareFinish \/ FirmwareVerify \/ Reset

Spec == Init /\ [][Next]_vars

-----------------------------------------------------------------------------

TypeOK ==
    /\ flash \in [Slots -> Seq(Chunk)]
    /\ imgState \in [Slots -> ImgStates]
    /\ boot \in Slots /\ running \in Slots
    /\ ota \in {"nil", "idle", "open", "ended"}
    /\ otaId \in 0 .. NumChunks + 1
    /\ otaBuff \in Seq(Chunk)
    /\ serving \in BOOLEAN
    /\ pc \in {"ready", "end", "boot"}
    /\ upImg \in Images
    /\ upNext \in 0 .. NumChunks + 2
    /\ damaged \in BOOLEAN
    /\ verdict.status \in Statuses

\* Lost replies, retries and restarted uploaders do not disturb an upload: as long as
\* flash writes succeed, the partition and the buffer hold the chunks
\* 0 .. ota_id - 1 of one image, each once and in order.
UploadIsPrefix ==
    ota = "open" /\ ~ damaged =>
        /\ flash[Update] # <<>>
        /\ flash[Update] \o otaBuff = SubSeq(Whole(ImageOf(Update)), 1, otaId)

\* Whatever fails, and whenever the power goes, the running partition holds a whole
\* image that was not rejected.
RunningImageIntact ==
    /\ IsWhole(flash[running])
    /\ imgState[running] \notin Rejected

\* An image on trial always has the one it replaced to go back to.
TrialHasFallback ==
    imgState[running] = "pending" =>
        /\ IsWhole(flash[Update])
        /\ imgState[Update] \in {"valid", "undefined"}

\* The update is an instance of FirmwareSwap: nothing but a whole new image is ever
\* tried, and only the image it replaced is gone back to.
Swap == INSTANCE FirmwareSwap WITH
    image <- ImageOf(running),
    fallback <- IF imgState[running] = "pending" THEN ImageOf(Update) ELSE NoImage

ImplementsSwap == Swap!Spec

\* firmware-finish, "Call to finalize firmware after writing all the chunks": once the
\* chunks are all there, the call is answered.
FinishAnswersAfterAllChunks == (otaId = NumChunks + 1 /\ ~ damaged) => serving

\* "New version is the same as invalid version": a firmware-begin that offers the
\* version that was rolled back last is answered with that status.
InvalidVersionIsReported ==
    verdict.invalid # NoImage /\ verdict.new = verdict.invalid =>
        verdict.status = "VersionMatchesPreviousInvalid"
=============================================================================
