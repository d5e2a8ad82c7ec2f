------------------------------ MODULE SpiQueue ------------------------------
(***************************************************************************)
(* Transactions that spis.nim hands to the driver with queue and takes back   *)
(* with retrieve.  While the driver has one, a reference of GC_ref is to keep *)
(* it alive; retrieve finds the SpiTrans again through trn.user, the address  *)
(* of a local variable of the fullTrans that made it, which has returned.     *)
(***************************************************************************)
EXTENDS Naturals, Sequences, FiniteSets

CONSTANTS
    Transactions,   \* SpiTrans objects
    Junk,           \* what other calls leave on the stack
    MaxHeld,        \* bound: variables that refer to a transaction before queue or retrieve
    WaitsAreShort   \* can retrieve run out of ticks?

ASSUME SpiqAssumption == Junk \notin Transactions /\ MaxHeld \in Nat

VARIABLES
    spiqPc,     \* the task that queues: "app", inside queue "pin", or "fault"
    pinning,    \* the transaction it is queueing
    held,       \* held[t]: variables of the application that refer to t
    counted,    \* counted[t]: the references the runtime has counted
    freed,      \* transactions that are given back to the allocator
    user,       \* user[t]: what the stack slot trn.user points to has in it
    queued,     \* what the driver has still to do
    finished,   \* what it has done and retrieve has not fetched
    mixedUp,    \* history: has retrieve found another transaction, or junk?
    raced       \* history: has retrieve fetched a transaction queue had not pinned?

spiqVars == <<spiqPc, pinning, held, counted, freed, user, queued, finished, mixedUp, raced>>

SpiqInit ==
    /\ spiqPc = "app"
    /\ pinning = Junk
    /\ held = [t \in Transactions |-> 0]
    /\ counted = [t \in Transactions |-> 0]
    /\ freed = {}
    /\ user = [t \in Transactions |-> Junk]
    /\ queued = <<>>
    /\ finished = <<>>
    /\ mixedUp = FALSE
    /\ raced = FALSE

HasIt(t) == \E i \in DOMAIN queued : queued[i] = t
Fetchable(t) == \E i \in DOMAIN finished : finished[i] = t
Fresh(t) == held[t] = 0 /\ counted[t] = 0 /\ t \notin freed

-----------------------------------------------------------------------------

\* fullTrans; its result may lie where that of earlier calls lay.
NewTrans(t) ==
    /\ spiqPc = "app" /\ Fresh(t) /\ ~ HasIt(t) /\ ~ Fetchable(t)
    /\ held' = [held EXCEPT ![t] = 1]
    /\ counted' = [counted EXCEPT ![t] = 1]
    /\ \E there \in SUBSET Transactions :
            user' = [u \in Transactions |-> IF u = t \/ u \in there THEN t ELSE user[u]]
    /\ UNCHANGED <<spiqPc, pinning, freed, queued, finished, mixedUp, raced>>

\* Any other call, as deep as fullTrans was.
StackIsUsed(t) ==
    /\ user[t] # Junk
    /\ user' = [user EXCEPT ![t] = Junk]
    /\ UNCHANGED <<spiqPc, pinning, held, counted, freed, queued, finished, mixedUp, raced>>

\* A reference goes: t is freed with the last one that was counted.
Release(t, counts) ==
    /\ counted' = [counts EXCEPT ![t] = IF @ > 0 THEN @ - 1 ELSE 0]
    /\ freed' = IF counts[t] <= 1 THEN freed \union {t} ELSE freed

Drop(t) ==
    /\ spiqPc # "fault"
    /\ held[t] > (IF pinning = t THEN 1 ELSE 0)
    /\ held' = [held EXCEPT ![t] = @ - 1]
    /\ Release(t, counted)
    /\ UNCHANGED <<spiqPc, pinning, user, queued, finished, mixedUp, raced>>

-----------------------------------------------------------------------------
(* queue *)

\* spi_device_queue_trans has room, and the driver may begin; without room in time queue
\* raises before it has done anything.
QueueTrans(t) ==
    /\ spiqPc = "app" /\ held[t] > 0 /\ held[t] + counted[t] <= 2 * MaxHeld /\ ~ HasIt(t) /\ ~ Fetchable(t)
    /\ queued' = Append(queued, t)
    /\ pinning' = t
    /\ spiqPc' = "pin"
    /\ UNCHANGED <<held, counted, freed, user, finished, mixedUp, raced>>

\* Mutation of PinTrans: no GC_ref.
PinNothing ==
    /\ spiqPc = "pin"
    /\ pinning' = Junk
    /\ spiqPc' = "app"
    /\ UNCHANGED <<held, counted, freed, user, queued, finished, mixedUp, raced>>

\* GC_ref, after the log of the address.
PinTrans ==
    /\ spiqPc = "pin"
    /\ counted' = [counted EXCEPT ![pinning] = @ + 1]
    /\ pinning' = Junk
    /\ spiqPc' = "app"
    /\ UNCHANGED <<held, freed, user, queued, finished, mixedUp, raced>>

-----------------------------------------------------------------------------
(* The driver, and retrieve, which another task may call. *)

DriverFinishes ==
    /\ queued # <<>>
    /\ finished' = Append(finished, Head(queued))
    /\ queued' = Tail(queued)
    /\ UNCHANGED <<spiqPc, pinning, held, counted, freed, user, mixedUp, raced>>

\* The result refers to what the slot of the oldest finished one has in it, one reference
\* more, and GC_unref takes one away.
Retrieve ==
    /\ spiqPc # "fault" /\ finished # <<>>
    /\ LET t == Head(finished)
           found == user[t]
       IN  /\ mixedUp' = (mixedUp \/ found # t)
           /\ raced' = (raced \/ pinning = t)
           /\ IF found = Junk
              THEN spiqPc' = "fault" /\ UNCHANGED held
              ELSE /\ held[found] <= MaxHeld
                   /\ held' = [held EXCEPT ![found] = @ + 1]
                   /\ UNCHANGED spiqPc
    /\ finished' = Tail(finished)
    /\ UNCHANGED <<pinning, counted, freed, user, queued>>

\* No result in time: trn is nil when trn.user is read.
RetrieveTimesOut ==
    /\ WaitsAreShort
    /\ spiqPc # "fault" /\ finished = <<>>
    /\ spiqPc' = "fault"
    /\ UNCHANGED <<pinning, held, counted, freed, user, queued, finished, mixedUp, raced>>

-----------------------------------------------------------------------------

SpiqNext ==
    \/ \E t \in Transactions : NewTrans(t) \/ StackIsUsed(t) \/ Drop(t) \/ QueueTrans(t)
    \/ PinTrans \/ DriverFinishes \/ Retrieve \/ RetrieveTimesOut

-----------------------------------------------------------------------------

SpiqTypeOK ==
    /\ spiqPc \in {"app", "pin", "fault"}
    /\ pinning \in Transactions \union {Junk}
    /\ held \in [Transactions -> Nat]
    /\ counted \in [Transactions -> Nat]
    /\ freed \subseteq Transactions
    /\ user \in [Transactions -> Transactions \union {Junk}]
    /\ queued \in Seq(Transactions) /\ finished \in Seq(Transactions)
    /\ mixedUp \in BOOLEAN /\ raced \in BOOLEAN

\* As long as the slots on the stack keep what fullTrans left there, and nobody retrieves
\* a transaction in the middle of its queue: whatever the application drops, what the
\* driver works on or has yet to give back is not freed, nor is anything the application
\* refers to, and what nobody refers to any more is.
QueuedStayAlive ==
    ~ mixedUp /\ ~ raced =>
        /\ \A t \in freed : ~ HasIt(t) /\ ~ Fetchable(t) /\ held[t] = 0
        /\ \A t \in Transactions : (t \notin freed /\ ~ HasIt(t) /\ ~ Fetchable(t))
                                        => counted[t] = held[t]
=============================================================================
