------------------------------ MODULE NvsStore ------------------------------
(***************************************************************************)
(* Non-volatile storage as nvs_utils.nim uses it: initNvs and newNvs, setInt *)
(* with its commit, setStr without one, getInt and getStr, and resets at any *)
(* moment.  The driver may write a value to flash before it is asked to, and *)
(* must have done so when nvs_commit returns.                                *)
(***************************************************************************)
EXTENDS Naturals

CONSTANTS
    IntKeys,        \* keys of integers
    StrKeys,        \* keys of strings
    NvsValues,      \* values, of either kind
    NoValue,        \* a key that is not there
    MaxFills,       \* bound: times the partition runs full
    NvsMayFail      \* can a call of the driver return an error?

ASSUME NoValueAssumption == NoValue \notin NvsValues
ASSUME NvsBoundsAssumption == MaxFills \in Nat

NvsKeys == IntKeys \union StrKeys

VARIABLES
    nvsFlash,   \* nvsFlash[k]: what a reset leaves
    nvsView,    \* nvsView[k]: what the driver answers with
    opened,     \* has newNvs returned a handle since the last reset?
    nvsPc,      \* "idle", inside initNvs "erase", or inside setInt "commit"
    full,       \* will nvs_flash_init find no free page?
    fills,      \* how often that has happened
    acked       \* history: acked[k], the value the last setInt to return has left

nvsVars == <<nvsFlash, nvsView, opened, nvsPc, full, fills, acked>>

NvsInit ==
    /\ nvsFlash = [k \in NvsKeys |-> NoValue]
    /\ nvsView = nvsFlash
    /\ opened = FALSE
    /\ nvsPc = "idle"
    /\ full = FALSE
    /\ fills = 0
    /\ acked = [k \in NvsKeys |-> NoValue]

-----------------------------------------------------------------------------
(* initNvs and newNvs *)

NewNvs ==
    /\ nvsPc = "idle"
    /\ ~ full
    /\ opened' = TRUE
    /\ UNCHANGED <<nvsFlash, nvsView, nvsPc, full, fills, acked>>

\* ESP_ERR_NVS_NO_FREE_PAGES: the partition is going to be erased.
InitFindsFull ==
    /\ nvsPc = "idle"
    /\ full
    /\ nvsPc' = "erase"
    /\ UNCHANGED <<nvsFlash, nvsView, opened, full, fills, acked>>

\* nvs_flash_erase_partition, as far as it got: these keys are gone, whatever section they
\* are of, with the promises made of them; handles are no longer good.
Erase(gone) ==
    LET without(f) == [k \in NvsKeys |-> IF k \in gone THEN NoValue ELSE f[k]]
    IN  /\ nvsFlash' = without(nvsFlash)
        /\ nvsView' = nvsFlash'
        /\ acked' = without(acked)

\* Everything is gone, and the handle is opened.
InitErases ==
    /\ nvsPc = "erase"
    /\ Erase(NvsKeys)
    /\ full' = FALSE
    /\ opened' = TRUE
    /\ nvsPc' = "idle"
    /\ UNCHANGED <<fills>>

\* The erase or what follows it fails.
InitFails ==
    /\ NvsMayFail
    /\ nvsPc = "erase"
    /\ \E gone \in SUBSET NvsKeys : Erase(gone)
    /\ opened' = FALSE
    /\ nvsPc' = "idle"
    /\ UNCHANGED <<full, fills>>

-----------------------------------------------------------------------------
(* eraseNvs and deInitNvs, whose result is the caller's to look at. *)

EraseNvs ==
    /\ nvsPc = "idle"
    /\ \E gone \in IF NvsMayFail THEN SUBSET NvsKeys ELSE {NvsKeys} :
            Erase(gone) /\ full' = (full /\ gone # NvsKeys)
    /\ opened' = FALSE
    /\ UNCHANGED <<nvsPc, fills>>

\* Handles are closed, and what was not committed is there only if the driver wrote it.
DeInitNvs ==
    /\ nvsPc = "idle"
    /\ nvsView' = nvsFlash
    /\ opened' = FALSE
    /\ UNCHANGED <<nvsFlash, nvsPc, full, fills, acked>>

-----------------------------------------------------------------------------
(* setInt and setStr *)

\* nvs_set_i32 succeeds; from here until the commit nothing is promised of the key.
SetInt(k, value) ==
    /\ opened /\ nvsPc = "idle"
    /\ nvsView' = [nvsView EXCEPT ![k] = value]
    /\ acked' = [acked EXCEPT ![k] = NoValue]
    /\ nvsPc' = "commit"
    /\ UNCHANGED <<nvsFlash, opened, full, fills>>

\* Mutation of CommitInt: setInt returns without a commit, as setStr does.
CommitIntLater ==
    /\ nvsPc = "commit"
    /\ acked' = nvsView
    /\ nvsPc' = "idle"
    /\ UNCHANGED <<nvsFlash, nvsView, opened, full, fills>>

\* nvs_commit writes what was set before, strings too, and setInt returns.
CommitInt ==
    /\ nvsPc = "commit"
    /\ nvsFlash' = nvsView
    /\ acked' = nvsView
    /\ nvsPc' = "idle"
    /\ UNCHANGED <<nvsView, opened, full, fills>>

\* nvs_commit fails and setInt raises: the value may or may not be there.
CommitFails ==
    /\ NvsMayFail
    /\ nvsPc = "commit"
    /\ nvsPc' = "idle"
    /\ UNCHANGED <<nvsFlash, nvsView, opened, full, fills, acked>>

\* No commit: a promise is made by the setInt that follows, if one does.
SetStr(k, value) ==
    /\ opened /\ nvsPc = "idle"
    /\ nvsView' = [nvsView EXCEPT ![k] = value]
    /\ acked' = [acked EXCEPT ![k] = NoValue]
    /\ UNCHANGED <<nvsFlash, opened, nvsPc, full, fills>>

-----------------------------------------------------------------------------
(* The driver and the power. *)

\* The driver writes a value before it is asked to.
WriteBack(k) ==
    /\ nvsFlash[k] # nvsView[k]
    /\ nvsFlash' = [nvsFlash EXCEPT ![k] = nvsView[k]]
    /\ UNCHANGED <<nvsView, opened, nvsPc, full, fills, acked>>

Fills ==
    /\ ~ full /\ fills < MaxFills
    /\ full' = TRUE
    /\ fills' = fills + 1
    /\ UNCHANGED <<nvsFlash, nvsView, opened, nvsPc, acked>>

NvsReset ==
    /\ nvsView' = nvsFlash
    /\ opened' = FALSE
    /\ nvsPc' = "idle"
    /\ UNCHANGED <<nvsFlash, full, fills, acked>>

-----------------------------------------------------------------------------

NvsNext ==
    \/ NewNvs \/ InitFindsFull \/ InitErases \/ InitFails \/ EraseNvs \/ DeInitNvs
    \/ \E k \in IntKeys, value \in NvsValues : SetInt(k, value)
    \/ CommitInt \/ CommitFails
    \/ \E k \in StrKeys, value \in NvsValues : SetStr(k, value)
    \/ \E k \in NvsKeys : WriteBack(k)
    \/ Fills \/ NvsReset

-----------------------------------------------------------------------------

\* none for ESP_ERR_NVS_NOT_FOUND.
GetInt(k) == nvsView[k]

NvsTypeOK ==
    /\ nvsFlash \in [NvsKeys -> NvsValues \union {NoValue}]
    /\ nvsView \in [NvsKeys -> NvsValues \union {NoValue}]
    /\ opened \in BOOLEAN
    /\ nvsPc \in {"idle", "erase", "commit"}
    /\ full \in BOOLEAN
    /\ fills \in 0 .. MaxFills
    /\ acked \in [NvsKeys -> NvsValues \union {NoValue}]

\* What a setInt has left when it returned, its own value and every string written before
\* it, outlives every reset, in the middle of any other call, and getInt returns it, until
\* it is written over or the partition is erased.
CommittedSurvives ==
    \A k \in NvsKeys : acked[k] # NoValue =>
        /\ nvsFlash[k] = acked[k]
        /\ k \in IntKeys => GetInt(k) = acked[k]
=============================================================================
