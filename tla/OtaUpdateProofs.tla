--------------------------- MODULE OtaUpdateProofs ---------------------------
(***************************************************************************)
(* Proofs about OtaUpdate, for any images, any number of chunks to an image   *)
(* and to a flash write, and every fault: the upload, what can run, and the   *)
(* refinement of FirmwareSwap.                                                *)
(***************************************************************************)
EXTENDS OtaUpdate, SequenceTheorems, TLAPS

USE DEF Slots, Other, ImgStates, Rejected, flashVars, otaVars, uploaderVars

\* There are two partitions.
LEMMA TwoSlots ==
    ASSUME NEW s \in Slots
    PROVE  Other(s) \in Slots /\ Other(s) # s /\ Other(Other(s)) = s
OBVIOUS

\* Chunks the uploader can send are chunks of the image, and joining chunks keeps them so.
LEMMA ChunksJoin ==
    ASSUME NEW a \in Seq(Chunk), NEW b \in Seq(Chunk), NEW e \in Chunk
    PROVE  a \o b \in Seq(Chunk) /\ Append(a, e) \in Seq(Chunk)
BY ConcatProperties, AppendProperties

\* A whole image has its header, and so its version.
LEMMA WholeHasImage ==
    ASSUME NEW img \in Images
    PROVE  /\ Whole(img) \in Seq(Chunk) /\ Len(Whole(img)) = NumChunks + 1
           /\ Whole(img) # <<>> /\ Whole(img)[1].img = img
<1>1. 1 \in 1 .. NumChunks + 1 /\ \A i \in 1 .. NumChunks + 1 : i - 1 \in 0 .. NumChunks
  BY ChunksAssumption
<1>2. Whole(img) \in [1 .. NumChunks + 1 -> Chunk]
  BY <1>1 DEF Whole, Chunk
<1>3. NumChunks + 1 \in Nat
  BY ChunksAssumption
<1>4. Whole(img) \in Seq(Chunk)
  BY <1>2, <1>3, SeqDef
<1>5. Len(Whole(img)) = NumChunks + 1
  BY <1>2, <1>3, <1>4, LenProperties DEF Whole
<1>6. Whole(img)[1].img = img
  BY <1>1 DEF Whole
<1>7. Whole(img) # <<>>
  BY <1>4, <1>5, ChunksAssumption, EmptySeq
<1> QED
  BY <1>4, <1>5, <1>6, <1>7

\* A whole partition holds one of the images.
LEMMA ImageOfWhole ==
    ASSUME NEW s \in Slots, IsWhole(flash[s])
    PROVE  ImageOf(s) \in Images /\ ImageOf(s) # NoImage
<1>1. PICK img \in Images : flash[s] = Whole(img)
  BY DEF IsWhole
<1> QED
  BY <1>1, WholeHasImage, ImagesAssumption DEF ImageOf

-----------------------------------------------------------------------------
(* Types *)

\* A device leaves the factory with one whole image.
LEMMA InitType == Init => TypeOK
<1> SUFFICES ASSUME Init PROVE TypeOK
  OBVIOUS
<1>1. flash \in [Slots -> Seq(Chunk)]
  BY WholeHasImage, ImagesAssumption, EmptySeq DEF Init
<1>2. otaBuff \in Seq(Chunk)
  BY EmptySeq DEF Init
<1>3. imgState \in [Slots -> ImgStates] /\ boot \in Slots /\ running \in Slots
  BY DEF Init
<1>4. verdict.status \in Statuses
  BY DEF Init, NoVerdict, Statuses
<1>5. otaId \in 0 .. NumChunks + 1 /\ upNext \in 0 .. NumChunks + 2
  BY ChunksAssumption DEF Init
<1> QED
  BY <1>1, <1>2, <1>3, <1>4, <1>5 DEF Init, TypeOK

\* The uploader stays inside its calls, and the id inside the chunks of an image.
LEMMA TypeStep ==
    ASSUME TypeOK, [Next]_vars
    PROVE  TypeOK'
<1> USE ChunksAssumption, TwoSlots DEF TypeOK
<1>1. CASE UNCHANGED vars
  BY <1>1 DEF vars
<1>2. ASSUME NEW img \in Images, Restart(img) PROVE TypeOK'
  BY <1>2 DEF Restart
<1>a. Verdict.status \in Statuses
  BY DEF Verdict, CheckImageHeader, Statuses
<1>b. ASSUME Advance, upNext \in 0 .. NumChunks + 1 PROVE upNext' \in 0 .. NumChunks + 2
  BY <1>b DEF Advance
<1>c. ASSUME IsChunk(upNext)
      PROVE  Grown \in Seq(Chunk) /\ upNext \in 0 .. NumChunks /\ upNext + 1 \in 0 .. NumChunks + 1
  <2>1. [img |-> upImg, idx |-> upNext] \in Chunk /\ upNext \in 0 .. NumChunks
    BY <1>c DEF IsChunk, Chunk
  <2> QED
    BY <2>1, ChunksJoin DEF Grown
<1>d. Update \in Slots
  BY DEF Update
<1>3. CASE FirmwareBegin
  <2>1. CASE BeginRefused
    BY <1>1, <2>1 DEF BeginRefused
  <2>2. CASE BeginBadHeader
    BY <2>2 DEF BeginBadHeader
  <2>3. CASE BeginFails
    BY <1>a, <2>3 DEF BeginFails
  <2>4. CASE Begin
    <3>1. <<[img |-> upImg, idx |-> 0]>> \in Seq(Chunk) /\ <<>> \in Seq(Chunk)
      BY DEF Chunk
    <3>2. flash' \in [Slots -> Seq(Chunk)]
      BY <2>4, <3>1, <1>d DEF Begin
    <3>3. upNext' \in 0 .. NumChunks + 2
      BY <2>4, <1>b DEF Begin, Called
    <3>4. otaBuff' \in Seq(Chunk) /\ damaged' \in BOOLEAN
      BY <2>4, <3>1 DEF Begin
    <3> QED
      BY <1>a, <2>4, <3>2, <3>3, <3>4 DEF Begin
  <2> QED
    BY <1>3, <2>1, <2>2, <2>3, <2>4 DEF FirmwareBegin
<1>4. CASE FirmwareChunk
  <2>1. CASE ChunkRefused
    BY <1>c, <2>1 DEF ChunkRefused
  <2>2. CASE ChunkAppended
    BY <1>b, <1>c, <2>2 DEF ChunkAppended
  <2>3. CASE ChunkFlushed
    <3>1. flash[Update] \o Grown \in Seq(Chunk) /\ <<>> \in Seq(Chunk)
      BY <1>c, <1>d, <2>3, ConcatProperties DEF ChunkFlushed
    <3>2. flash' \in [Slots -> Seq(Chunk)]
      BY <2>3, <3>1, <1>d DEF ChunkFlushed
    <3> QED
      BY <1>b, <1>c, <2>3, <3>1, <3>2 DEF ChunkFlushed
  <2>4. CASE ChunkWriteFails
    BY <1>c, <2>4 DEF ChunkWriteFails
  <2> QED
    BY <1>4, <2>1, <2>2, <2>3, <2>4 DEF FirmwareChunk
<1>5. CASE FirmwareFinish
  <2>1. CASE FinishDefect
    BY <2>1 DEF FinishDefect
  <2>2. CASE FinishWrite
    <3>1. flash[Update] \o otaBuff \in Seq(Chunk) /\ <<>> \in Seq(Chunk)
      BY <1>d, ConcatProperties
    <3>2. flash' \in [Slots -> Seq(Chunk)]
      BY <2>2, <3>1, <1>d DEF FinishWrite
    <3> QED
      BY <2>2, <3>1, <3>2 DEF FinishWrite
  <2>3. CASE FinishWriteFails
    BY <2>3 DEF FinishWriteFails
  <2>4. CASE FinishEnd
    BY <2>4 DEF FinishEnd
  <2>5. CASE FinishBoot
    <3>1. upNext' \in 0 .. NumChunks + 2
      BY <1>b, <2>5 DEF FinishBoot, FinishReplied
    <3>2. imgState' \in [Slots -> ImgStates]
      BY <2>5, <1>d DEF FinishBoot
    <3>3. ota' \in {"nil", "idle", "open", "ended"} /\ otaId' \in 0 .. NumChunks + 1 /\ boot' \in Slots
      BY <2>5, <1>d DEF FinishBoot
    <3> QED
      BY <2>5, <3>1, <3>2, <3>3 DEF FinishBoot
  <2> QED
    BY <1>5, <2>1, <2>2, <2>3, <2>4, <2>5 DEF FirmwareFinish
<1>e. ASSUME ForgetsMemory
      PROVE  /\ ota' \in {"nil", "idle", "open", "ended"} /\ otaId' \in 0 .. NumChunks + 1
             /\ otaBuff' \in Seq(Chunk) /\ serving' \in BOOLEAN
             /\ pc' \in {"ready", "end", "boot"} /\ damaged' \in BOOLEAN
  <2>1. serving' \in BOOLEAN /\ damaged' \in BOOLEAN
    BY <1>e DEF ForgetsMemory
  <2>2. otaBuff' \in Seq(Chunk)
    BY <1>e DEF ForgetsMemory
  <2>3. /\ ota' \in {"nil", "idle", "open", "ended"} /\ otaId' \in 0 .. NumChunks + 1
        /\ pc' \in {"ready", "end", "boot"}
    BY <1>e DEF ForgetsMemory
  <2> QED
    BY <2>1, <2>2, <2>3
<1>6. CASE FirmwareVerify
  <2>1. CASE VerifyPasses
    BY <2>1 DEF VerifyPasses
  <2>2. CASE VerifyFails
    BY <1>e, <2>2 DEF VerifyFails
  <2> QED
    BY <1>6, <2>1, <2>2 DEF FirmwareVerify
<1>7. CASE Reset
  <2>1. imgState' \in [Slots -> ImgStates]
    BY <1>7 DEF Reset
  <2>2. boot' \in Slots /\ running' \in Slots
    BY <1>7 DEF Reset
  <2> QED
    BY <1>7, <1>e, <2>1, <2>2 DEF Reset
<1> QED
  BY <1>1, <1>2, <1>3, <1>4, <1>5, <1>6, <1>7 DEF Next, Uploader

-----------------------------------------------------------------------------
(* What runs *)

\* The boot partition differs from the running one only between the end of an update and
\* the reset that tries it, or when what is there cannot be booted.  While an image is on
\* trial no update is under way, so nothing writes to the one it would go back to.
BootInv ==
    /\ IsWhole(flash[running])
    /\ imgState[running] \in {"pending", "valid", "undefined"}
    /\ imgState[running] = "pending" =>
        /\ boot = running
        /\ IsWhole(flash[Update])
        /\ imgState[Update] \in {"valid", "undefined"}
        /\ pc = "ready" /\ ota \in {"nil", "idle"}
    /\ boot # running => imgState[boot] \in {"new", "pending"}
    /\ pc = "end" => ota = "open"
    /\ pc = "boot" => ota = "ended"

OtaInv == TypeOK /\ BootInv

\* The factory image is whole, and confirmed.
LEMMA InitBoot == Init => BootInv
<1> SUFFICES ASSUME Init PROVE BootInv
  OBVIOUS
<1>1. flash["ota_0"] = Whole(Factory) /\ running = "ota_0" /\ boot = "ota_0"
  BY DEF Init
<1>2. IsWhole(flash[running])
  BY <1>1, ImagesAssumption DEF IsWhole
<1> QED
  BY <1>1, <1>2 DEF Init, BootInv

\* Begin, chunks and finish write to the partition that does not run, and not while an
\* image is on trial; only a reset and a failed trial change what runs.
LEMMA BootStep ==
    ASSUME TypeOK, BootInv, [Next]_vars
    PROVE  BootInv'
<1> USE TwoSlots DEF TypeOK, BootInv
<1>1. CASE UNCHANGED vars
  BY <1>1 DEF vars, IsWhole, Update
<1>2. ASSUME NEW img \in Images, Restart(img) PROVE BootInv'
  BY <1>2 DEF Restart, IsWhole, Update
<1>a. Update \in Slots /\ Update # running
  BY DEF Update
<1>b. ASSUME UNCHANGED <<imgState, boot, running>>, flash' \in [Slots -> Seq(Chunk)],
             flash'[running] = flash[running],
             imgState[running] = "pending" =>
                flash'[Update] = flash[Update] /\ pc' = "ready" /\ ota' \in {"nil", "idle"},
             pc' = "end" => ota' = "open",
             pc' = "boot" => ota' = "ended"
      PROVE  BootInv'
  BY <1>a, <1>b DEF IsWhole, Update
<1>3. CASE FirmwareBegin
  <2>1. CASE BeginRefused
    BY <1>1, <2>1 DEF BeginRefused
  <2>2. CASE BeginBadHeader
    BY <1>b, <2>2 DEF BeginBadHeader, Called
  <2>3. CASE BeginFails
    BY <1>b, <2>3 DEF BeginFails, Called
  <2>4. CASE Begin
    <3>1. flash' \in [Slots -> Seq(Chunk)]
      BY TypeStep, <2>4 DEF Next, FirmwareBegin
    <3>2. flash'[running] = flash[running]
      BY <1>a, <2>4 DEF Begin
    <3> QED
      BY <1>b, <2>4, <3>1, <3>2 DEF Begin, Called
  <2> QED
    BY <1>3, <2>1, <2>2, <2>3, <2>4 DEF FirmwareBegin
<1>4. CASE FirmwareChunk
  <2>0. flash' \in [Slots -> Seq(Chunk)]
    BY TypeStep, <1>4 DEF Next
  <2>1. CASE ChunkRefused
    BY <1>b, <2>1 DEF ChunkRefused
  <2>2. CASE ChunkAppended
    BY <1>b, <2>2 DEF ChunkAppended
  <2>3. CASE ChunkFlushed
    <3>1. flash'[running] = flash[running]
      BY <1>a, <2>3 DEF ChunkFlushed
    <3> QED
      BY <1>b, <2>0, <2>3, <3>1 DEF ChunkFlushed, Called
  <2>4. CASE ChunkWriteFails
    BY <1>b, <2>4 DEF ChunkWriteFails
  <2> QED
    BY <1>4, <2>1, <2>2, <2>3, <2>4 DEF FirmwareChunk
<1>5. CASE FirmwareFinish
  <2>0. flash' \in [Slots -> Seq(Chunk)]
    BY TypeStep, <1>5 DEF Next
  <2>1. CASE FinishDefect
    BY <1>b, <2>1 DEF FinishDefect
  <2>2. CASE FinishWrite
    <3>1. flash'[running] = flash[running]
      BY <1>a, <2>2 DEF FinishWrite
    <3> QED
      BY <1>b, <2>0, <2>2, <3>1 DEF FinishWrite
  <2>3. CASE FinishWriteFails
    BY <1>b, <2>3 DEF FinishWriteFails
  <2>4. CASE FinishEnd
    BY <1>b, <2>4 DEF FinishEnd
  <2>5. CASE FinishBoot
    <3>1. imgState[running] # "pending" /\ pc' = "ready" /\ UNCHANGED <<flash, running>>
      BY <2>5 DEF FinishBoot
    <3>2. \/ boot' = Update /\ imgState' = [imgState EXCEPT ![Update] = "new"]
          \/ UNCHANGED <<boot, imgState>>
      BY <2>5 DEF FinishBoot
    <3>3. imgState'[running] = imgState[running] /\ (IsWhole(flash[running]))'
      BY <1>a, <3>1, <3>2 DEF IsWhole
    <3>4. boot' # running => imgState'[boot'] \in {"new", "pending"}
      BY <1>a, <3>2
    <3> QED
      BY <3>1, <3>3, <3>4
  <2> QED
    BY <1>5, <2>1, <2>2, <2>3, <2>4, <2>5 DEF FirmwareFinish
<1>6. CASE FirmwareVerify
  <2>1. CASE VerifyPasses
    BY <1>a, <2>1 DEF VerifyPasses, IsWhole, Update
  <2>2. CASE VerifyFails
    BY <1>a, <2>2 DEF VerifyFails, ForgetsMemory, IsWhole, Update
  <2> QED
    BY <1>6, <2>1, <2>2 DEF FirmwareVerify
<1>7. CASE Reset
  <2>0. UNCHANGED flash /\ pc' = "ready" /\ ota' = "nil"
    BY <1>7 DEF Reset, ForgetsMemory
  \* The image in the boot partition was on trial and was not confirmed.
  <2>1. CASE imgState[boot] = "pending"
    <3>1. imgState' = [imgState EXCEPT ![boot] = "aborted"] /\ boot' = Other(boot)
      BY <1>7, <2>1 DEF Reset
    <3>2. IsWhole(flash[Other(boot)]) /\ imgState[Other(boot)] \in {"valid", "undefined"}
      BY <1>a, <2>1 DEF Update
    <3>3. running' = Other(boot)
      BY <1>7, <3>1, <3>2 DEF Reset
    <3> QED
      BY <2>0, <3>1, <3>2, <3>3 DEF IsWhole
  \* An update is tried, if it can be booted.
  <2>2. CASE imgState[boot] = "new"
    <3>1. imgState' = [imgState EXCEPT ![boot] = "pending"] /\ boot' = boot /\ boot # running
      BY <1>7, <2>2 DEF Reset
    <3>2. running' = IF IsWhole(flash[boot]) THEN boot ELSE Other(boot)
      BY <1>7, <2>2, <3>1 DEF Reset
    <3>3. Other(boot) = running /\ imgState[running] \in {"valid", "undefined"}
      BY <3>1
    <3> QED
      BY <2>0, <3>1, <3>2, <3>3 DEF IsWhole, Update
  \* Nothing was updated.
  <2>3. CASE imgState[boot] \notin {"pending", "new"}
    <3>1. boot = running /\ imgState[boot] \in {"valid", "undefined"}
      BY <2>3
    <3>2. imgState' = imgState /\ boot' = boot /\ running' = running
      BY <1>7, <3>1 DEF Reset
    <3> QED
      BY <2>0, <3>1, <3>2 DEF IsWhole, Update
  <2> QED
    BY <2>1, <2>2, <2>3
<1> QED
  BY <1>1, <1>2, <1>3, <1>4, <1>5, <1>6, <1>7 DEF Next, Uploader

\* The invariant holds in every state.
LEMMA OtaInvariance == Spec => []OtaInv
<1>1. Init => OtaInv
  BY InitType, InitBoot DEF OtaInv
<1>2. OtaInv /\ [Next]_vars => OtaInv'
  BY TypeStep, BootStep DEF OtaInv
<1> QED
  BY <1>1, <1>2, PTL DEF Spec

\* Types are kept by every procedure, fault and reset.
THEOREM TypeCorrect == Spec => []TypeOK
<1>1. OtaInv => TypeOK
  BY DEF OtaInv
<1> QED
  BY <1>1, OtaInvariance, PTL

\* Whatever fails and whenever the power goes, a whole image runs that was not rejected.
THEOREM DeviceBoots == Spec => []RunningImageIntact
<1>1. OtaInv => RunningImageIntact
  BY DEF OtaInv, BootInv, RunningImageIntact
<1> QED
  BY <1>1, OtaInvariance, PTL

\* Whenever an image is on trial, the one it replaced is whole and confirmed.
THEOREM WayBackExists == Spec => []TrialHasFallback
<1>1. OtaInv => TrialHasFallback
  BY DEF OtaInv, BootInv, TrialHasFallback
<1> QED
  BY <1>1, OtaInvariance, PTL
-----------------------------------------------------------------------------
(* The refinement of FirmwareSwap *)

Fallback == IF imgState[running] = "pending" THEN ImageOf(Update) ELSE NoImage

\* Trying, confirming and rolling back are seen by the bootloader and firmware-verify
\* only: every other step leaves the running image and its state.
LEMMA SwapStep ==
    ASSUME TypeOK, BootInv, [Next]_vars
    PROVE  [Swap!Next]_(Swap!vars)
<1> USE TwoSlots DEF TypeOK, BootInv
<1> DEFINE image == ImageOf(running)
           Same == UNCHANGED <<image, Fallback>>
<1>a. Update \in Slots /\ Update # running
  BY DEF Update
<1>b. SUFFICES \/ Same
               \/ Fallback = NoImage /\ image' \in Images /\ Fallback' = image
               \/ Fallback # NoImage /\ Fallback' = NoImage /\ image' = image
               \/ Fallback # NoImage /\ Fallback' = NoImage /\ image' = Fallback
  BY <1>b DEF Fallback, Swap!Next, Swap!vars, Swap!Try, Swap!Confirm, Swap!Rollback
<1>c. ASSUME running' = running, flash'[running] = flash[running],
             (imgState[running])' = "pending" <=> imgState[running] = "pending",
             imgState[running] = "pending" => flash'[Update] = flash[Update]
      PROVE  Same
  BY <1>c DEF Fallback, ImageOf, Update
<1>d. CASE UNCHANGED <<flash, imgState, running>>
  BY <1>c, <1>d
<1>1. CASE Uploader \/ UNCHANGED vars
  BY <1>d, <1>1 DEF Uploader, Restart, vars
<1>2. CASE FirmwareBegin
  <2>1. CASE Begin
    BY <1>a, <1>c, <2>1 DEF Begin
  <2> QED
    BY <1>2, <1>d, <2>1 DEF FirmwareBegin, BeginRefused, BeginBadHeader, BeginFails, vars
<1>3. CASE FirmwareChunk
  <2>1. CASE ChunkFlushed
    BY <1>a, <1>c, <2>1 DEF ChunkFlushed
  <2> QED
    BY <1>3, <1>d, <2>1 DEF FirmwareChunk, ChunkRefused, ChunkAppended, ChunkWriteFails
<1>4. CASE FirmwareFinish
  <2>1. CASE FinishWrite
    BY <1>a, <1>c, <2>1 DEF FinishWrite
  <2>2. CASE FinishBoot
    BY <1>a, <1>c, <2>2 DEF FinishBoot
  <2> QED
    BY <1>4, <1>d, <2>1, <2>2 DEF FirmwareFinish, FinishDefect, FinishWriteFails, FinishEnd
<1>5. CASE FirmwareVerify
  <2>1. imgState[running] = "pending" /\ Fallback = ImageOf(Update) /\ Fallback # NoImage
    BY <1>a, <1>5, ImageOfWhole DEF FirmwareVerify, VerifyPasses, VerifyFails, Fallback
  <2>2. CASE VerifyPasses
    <3>1. Fallback' = NoImage /\ image' = image
      BY <2>2 DEF VerifyPasses, Fallback, ImageOf
    <3> QED
      BY <2>1, <3>1
  <2>3. CASE VerifyFails
    <3>1. running' = Update /\ imgState'[Update] \in {"valid", "undefined"} /\ UNCHANGED flash
      BY <1>a, <2>1, <2>3 DEF VerifyFails, Update
    <3>2. Fallback' = NoImage /\ image' = Fallback
      BY <2>1, <3>1 DEF Fallback, ImageOf
    <3> QED
      BY <2>1, <3>2
  <2> QED
    BY <1>5, <2>2, <2>3 DEF FirmwareVerify
<1>6. CASE Reset
  <2>0. UNCHANGED flash
    BY <1>6 DEF Reset
  \* An image on trial is given up.
  <2>1. CASE imgState[running] = "pending"
    <3>1. Fallback = ImageOf(Update) /\ Fallback # NoImage
      BY <1>a, <2>1, ImageOfWhole DEF Fallback
    <3>2. running' = Update /\ imgState'[Update] \in {"valid", "undefined"}
      BY <1>6, <1>a, <2>1 DEF Reset, Update
    <3>3. Fallback' = NoImage /\ image' = Fallback
      BY <2>0, <3>1, <3>2 DEF Fallback, ImageOf
    <3> QED
      BY <3>1, <3>3
  \* An update is tried.
  <2>2. CASE imgState[running] # "pending" /\ running' # running
    <3>1. imgState[boot] = "new" /\ boot = Update /\ IsWhole(flash[boot])
      BY <1>6, <1>a, <2>2 DEF Reset, Update
    <3>2. imgState' = [imgState EXCEPT ![boot] = "pending"] /\ running' = boot
      BY <1>6, <3>1 DEF Reset
    <3>3. Fallback = NoImage /\ ImageOf(Update) \in Images
      BY <2>2, <1>a, <3>1, ImageOfWhole DEF Fallback
    <3>4. image' = ImageOf(Update) /\ Fallback' = image
      BY <1>a, <2>0, <3>1, <3>2 DEF Fallback, ImageOf, Update
    <3> QED
      BY <3>3, <3>4
  <2>3. CASE imgState[running] # "pending" /\ running' = running
    <3>1. imgState'[running] # "pending"
      BY <1>6, <1>a, <2>3 DEF Reset, Update
    <3> QED
      BY <1>c, <2>0, <2>3, <3>1
  <2> QED
    BY <2>1, <2>2, <2>3
<1> QED
  BY <1>1, <1>2, <1>3, <1>4, <1>5, <1>6 DEF Next

\* An update over the air is an instance of FirmwareSwap: nothing but a whole new image is
\* tried, with the one it replaces to go back to, and only that is gone back to.
THEOREM UpdateIsSwap == Spec => ImplementsSwap
<1>1. Init => Swap!Init
  <2> SUFFICES ASSUME Init PROVE Swap!Init
    OBVIOUS
  <2>1. IsWhole(flash[running]) /\ running \in Slots /\ imgState[running] # "pending"
    BY InitBoot, InitType DEF BootInv, TypeOK, Init
  <2> QED
    BY <2>1, ImageOfWhole DEF Swap!Init
<1>2. OtaInv /\ [Next]_vars => [Swap!Next]_(Swap!vars)
  BY SwapStep DEF OtaInv
<1> QED
  BY <1>1, <1>2, OtaInvariance, PTL DEF Spec, ImplementsSwap, Swap!Spec
-----------------------------------------------------------------------------
(* The upload *)

\* Where chunks are cut does not matter.
LEMMA ChunksAssociative ==
    \A a, b, c \in Seq(Chunk) : (a \o b) \o c = a \o (b \o c)
BY ConcatAssociative

\* The next chunk of an image makes a longer prefix of it.
LEMMA NextChunk ==
    ASSUME NEW img \in Images, NEW n \in 1 .. NumChunks
    PROVE  SubSeq(Whole(img), 1, n + 1)
                = SubSeq(Whole(img), 1, n) \o <<[img |-> img, idx |-> n]>>
<1>1. /\ Whole(img) \in Seq(Chunk) /\ Len(Whole(img)) = NumChunks + 1
      /\ 1 \in 1 .. Len(Whole(img)) /\ n + 1 \in 1 .. Len(Whole(img))
  BY WholeHasImage, ChunksAssumption
<1>2. SubSeq(Whole(img), 1, n + 1) = SubSeq(Whole(img), 1, (n + 1) - 1) \o <<Whole(img)[n + 1]>>
  BY <1>1, SubSeqRecursiveSecond
<1>3. Whole(img)[n + 1] = [img |-> img, idx |-> n] /\ (n + 1) - 1 = n
  BY ChunksAssumption DEF Whole
<1> QED
  BY <1>2, <1>3

\* The first write of an upload is the header.
LEMMA FirstChunk ==
    ASSUME NEW img \in Images
    PROVE  SubSeq(Whole(img), 1, 1) = <<[img |-> img, idx |-> 0]>>
<1>1. /\ Whole(img) \in Seq(Chunk) /\ 1 \in 1 .. Len(Whole(img))
      /\ Whole(img)[1] = [img |-> img, idx |-> 0]
  BY WholeHasImage, ChunksAssumption DEF Whole
<1>2. SubSeq(Whole(img), 1, 1) = SubSeq(Whole(img), 1, 0) \o <<Whole(img)[1]>>
  BY <1>1, SubSeqRecursiveSecond
<1>3. SubSeq(Whole(img), 1, 0) = <<>>
  BY SubSeqEmpty
<1>4. <<[img |-> img, idx |-> 0]>> \in Seq(Chunk)
  BY ChunksAssumption DEF Chunk
<1> QED
  BY <1>1, <1>2, <1>3, <1>4, ConcatEmptySeq

\* What is uploaded is of the uploader's image, unless that has been started again; then it
\* is refused until the device resets.
UploadInv ==
    ota = "open" =>
        /\ otaId \in 1 .. NumChunks + 1
        /\ ~ damaged =>
            /\ ImageOf(Update) \in Images
            /\ flash[Update] # <<>>
            /\ flash[Update] \o otaBuff = SubSeq(Whole(ImageOf(Update)), 1, otaId)
            /\ upNext # 0 => upImg = ImageOf(Update)

\* Writing what is in the buffer moves it behind what is in the partition.
LEMMA ImageKept ==
    ASSUME NEW a \in Seq(Chunk), NEW b \in Seq(Chunk), a # <<>>
    PROVE  a \o b # <<>> /\ (a \o b)[1] = a[1] /\ (a \o b) \o <<>> = a \o b
<1>1. 1 <= Len(a) /\ Len(a) \in Nat /\ Len(b) \in Nat
  BY EmptySeq, LenProperties
<1>2. a \o b \in Seq(Chunk) /\ Len(a \o b) = Len(a) + Len(b) /\ (a \o b)[1] = a[1]
  BY <1>1, ConcatProperties
<1>3. a \o b # <<>>
  BY <1>1, ConcatEqualIffEmpty
<1> QED
  BY <1>2, <1>3, ConcatEmptySeq

\* The chunk that is accepted is the next one of the image.
LEMMA ChunkExtends ==
    ASSUME TypeOK, UploadInv, ota = "open", ~ damaged, IsChunk(upNext), upNext = otaId
    PROVE  flash[Update] \o Grown = SubSeq(Whole(ImageOf(Update)), 1, otaId + 1)
<1> DEFINE e == [img |-> upImg, idx |-> upNext]
<1>1. /\ upImg = ImageOf(Update) /\ upImg \in Images /\ otaId \in 1 .. NumChunks
      /\ flash[Update] \o otaBuff = SubSeq(Whole(upImg), 1, otaId)
  BY ChunksAssumption DEF UploadInv, IsChunk
<1>2. e \in Chunk /\ <<e>> \in Seq(Chunk)
  BY <1>1, ChunksAssumption DEF Chunk, IsChunk
<1>3. flash[Update] \in Seq(Chunk) /\ otaBuff \in Seq(Chunk)
  BY TwoSlots DEF TypeOK, Update
<1>4. Grown = otaBuff \o <<e>>
  BY <1>2, <1>3, AppendIsConcat DEF Grown
<1>5. flash[Update] \o Grown = (flash[Update] \o otaBuff) \o <<e>>
  <2>1. (flash[Update] \o otaBuff) \o <<e>> = flash[Update] \o (otaBuff \o <<e>>)
    BY ONLY <1>2, <1>3, ChunksAssociative
  <2> QED
    BY ONLY <1>4, <2>1
<1>6. SubSeq(Whole(upImg), 1, otaId + 1) = SubSeq(Whole(upImg), 1, otaId) \o <<e>>
  BY <1>1, NextChunk
<1> QED
  BY <1>1, <1>5, <1>6

\* Only firmware-chunk and -finish touch an upload, and a chunk only when it is the next.
LEMMA UploadStep ==
    ASSUME TypeOK, BootInv, UploadInv, [Next]_vars
    PROVE  UploadInv'
<1> USE TwoSlots, ChunksAssumption DEF TypeOK
<1>a. Update \in Slots /\ Update # running /\ flash[Update] \in Seq(Chunk)
  BY DEF Update
<1>b. ASSUME UNCHANGED <<flash, running, ota, otaId, otaBuff>>,
             ~ damaged' => ~ damaged,
             upNext' # 0 => upNext # 0 /\ upImg' = upImg
      PROVE  UploadInv'
  BY <1>b DEF UploadInv, ImageOf, Update
<1>c. ota' # "open" => UploadInv'
  BY DEF UploadInv
<1>1. CASE UNCHANGED vars
  BY <1>b, <1>1 DEF vars
<1>2. ASSUME NEW img \in Images, Restart(img) PROVE UploadInv'
  BY <1>b, <1>2 DEF Restart
<1>3. CASE FirmwareBegin
  <2>1. CASE BeginRefused
    BY <1>1, <2>1 DEF BeginRefused
  <2>2. CASE BeginBadHeader \/ BeginFails
    BY <1>c, <2>2 DEF BeginBadHeader, BeginFails
  <2>3. CASE Begin
    <3>1. CASE damaged'
      BY <2>3, <3>1 DEF Begin, UploadInv
    <3>2. CASE ~ damaged'
      <4>1. /\ flash' = [flash EXCEPT ![Update] = <<[img |-> upImg, idx |-> 0]>>]
            /\ otaBuff' = <<>> /\ otaId' = 1 /\ UNCHANGED <<running, upImg>>
        BY <2>3, <3>2 DEF Begin
      <4>2. Update' = Update /\ flash'[Update] = <<[img |-> upImg, idx |-> 0]>>
        BY <1>a, <4>1 DEF Update
      <4>3. flash'[Update] # <<>> /\ (ImageOf(Update))' = upImg
        BY <4>2 DEF ImageOf
      <4>4. flash'[Update] \o otaBuff' = SubSeq(Whole(upImg), 1, 1)
        <5>1. <<[img |-> upImg, idx |-> 0]>> \in Seq(Chunk)
          BY DEF Chunk
        <5> QED
          BY <4>1, <4>2, <5>1, FirstChunk, ConcatEmptySeq
      <4> QED
        BY <4>1, <4>2, <4>3, <4>4 DEF UploadInv
    <3> QED
      BY <3>1, <3>2
  <2> QED
    BY <1>3, <2>1, <2>2, <2>3 DEF FirmwareBegin
<1>4. CASE FirmwareChunk
  <2>1. CASE ChunkRefused
    <3>1. upNext \in 1 .. NumChunks /\ upNext' # 0
      BY <2>1 DEF ChunkRefused, IsChunk
    <3> QED
      BY <1>b, <2>1, <3>1 DEF ChunkRefused
  <2>2. CASE ChunkAppended
    <3>1. /\ UNCHANGED <<flash, running, ota, upImg, damaged>>
          /\ otaBuff' = Grown /\ otaId' = otaId + 1 /\ upNext = otaId /\ upNext \in 1 .. NumChunks
      BY <2>2 DEF ChunkAppended, IsChunk
    <3>2. Update' = Update /\ (ImageOf(Update))' = ImageOf(Update)
      BY <3>1 DEF Update, ImageOf
    <3>3. ota = "open" /\ ~ damaged => flash'[Update] \o otaBuff' = SubSeq(Whole(ImageOf(Update)), 1, otaId')
      BY <3>1, ChunkExtends DEF IsChunk
    <3>4. ota = "open" => otaId' \in 1 .. NumChunks + 1
      BY <3>1
    <3>5. ota = "open" /\ ~ damaged => /\ ImageOf(Update) \in Images /\ flash[Update] # <<>>
                                      /\ upImg = ImageOf(Update)
      BY <3>1 DEF UploadInv
    <3> QED
      BY <3>1, <3>2, <3>3, <3>4, <3>5 DEF UploadInv
  <2>3. CASE ChunkFlushed
    <3>1. /\ flash' = [flash EXCEPT ![Update] = @ \o Grown]
          /\ UNCHANGED <<running, ota, upImg, damaged>> /\ ota = "open"
          /\ otaBuff' = <<>> /\ otaId' = otaId + 1 /\ upNext = otaId /\ upNext \in 1 .. NumChunks
      BY <2>3 DEF ChunkFlushed, IsChunk
    <3>2. Update' = Update /\ flash'[Update] = flash[Update] \o Grown
      BY <1>a, <3>1 DEF Update
    <3>3. Grown \in Seq(Chunk)
      <4>1. [img |-> upImg, idx |-> upNext] \in Chunk
        BY <3>1 DEF Chunk
      <4> QED
        BY <4>1, ChunksJoin DEF Grown
    <3>4. CASE ~ damaged
      <4>1. flash[Update] # <<>>
        BY <3>1, <3>4 DEF UploadInv
      <4>2. /\ flash'[Update] # <<>> /\ flash'[Update][1] = flash[Update][1]
            /\ flash'[Update] \o otaBuff' = flash[Update] \o Grown
        BY <1>a, <3>1, <3>2, <3>3, <4>1, ImageKept
      <4>3. (ImageOf(Update))' = ImageOf(Update)
        BY <3>2, <4>1, <4>2 DEF ImageOf
      <4>4. flash'[Update] \o otaBuff' = SubSeq(Whole(ImageOf(Update)), 1, otaId')
        BY <3>1, <3>4, <4>2, ChunkExtends DEF IsChunk
      <4>5. /\ ota' = "open" /\ ~ damaged' /\ otaId' \in 1 .. NumChunks + 1
            /\ (ImageOf(Update))' \in Images /\ upImg' = (ImageOf(Update))'
        BY <3>1, <3>4, <4>3 DEF UploadInv
      <4> QED
        BY <3>2, <4>2, <4>3, <4>4, <4>5 DEF UploadInv
    <3> QED
      BY <3>1, <3>4 DEF UploadInv
  <2>4. CASE ChunkWriteFails
    BY <2>4 DEF ChunkWriteFails, UploadInv
  <2> QED
    BY <1>4, <2>1, <2>2, <2>3, <2>4 DEF FirmwareChunk
<1>5. CASE FirmwareFinish
  <2>1. CASE FinishDefect
    BY <1>b, <2>1 DEF FinishDefect
  <2>2. CASE FinishWrite
    <3>1. /\ flash' = [flash EXCEPT ![Update] = @ \o otaBuff] /\ otaBuff' = <<>>
          /\ UNCHANGED <<running, ota, otaId, upImg, upNext, damaged>> /\ ota = "open"
      BY <2>2 DEF FinishWrite
    <3>2. Update' = Update /\ flash'[Update] = flash[Update] \o otaBuff
      BY <1>a, <3>1 DEF Update
    <3>3. CASE ~ damaged
      <4>1. flash[Update] # <<>>
        BY <3>1, <3>3 DEF UploadInv
      <4>2. /\ flash'[Update] # <<>> /\ flash'[Update][1] = flash[Update][1]
            /\ flash'[Update] \o otaBuff' = flash[Update] \o otaBuff
        BY <1>a, <3>1, <3>2, <4>1, ImageKept
      <4>3. (ImageOf(Update))' = ImageOf(Update)
        BY <3>2, <4>1, <4>2 DEF ImageOf
      <4> QED
        BY <3>1, <3>2, <3>3, <4>2, <4>3 DEF UploadInv
    <3> QED
      BY <3>1, <3>3 DEF UploadInv
  <2>3. CASE FinishWriteFails
    BY <2>3 DEF FinishWriteFails, UploadInv
  <2>4. CASE FinishEnd
    BY <1>c, <2>4 DEF FinishEnd
  <2>5. CASE FinishBoot
    BY <1>c, <2>5 DEF FinishBoot, BootInv
  <2> QED
    BY <1>5, <2>1, <2>2, <2>3, <2>4, <2>5 DEF FirmwareFinish
<1>6. CASE FirmwareVerify
  BY <1>b, <1>c, <1>6 DEF FirmwareVerify, VerifyPasses, VerifyFails, ForgetsMemory
<1>7. CASE Reset
  BY <1>c, <1>7 DEF Reset, ForgetsMemory
<1> QED
  BY <1>1, <1>2, <1>3, <1>4, <1>5, <1>6, <1>7 DEF Next, Uploader

\* Lost replies, retries, restarted uploaders and resets leave no chunk out, and put none
\* in twice or out of order.
THEOREM UploadIsExact == Spec => []UploadIsPrefix
<1>1. Init => UploadInv
  BY DEF Init, UploadInv
<1>2. UploadInv /\ OtaInv /\ [Next]_vars => UploadInv'
  BY UploadStep DEF OtaInv
<1>3. UploadInv => UploadIsPrefix
  BY DEF UploadInv, UploadIsPrefix
<1> QED
  BY <1>1, <1>2, <1>3, OtaInvariance, PTL DEF Spec
=============================================================================
