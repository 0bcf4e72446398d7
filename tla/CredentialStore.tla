---------------------------- MODULE CredentialStore ----------------------------
(***************************************************************************)
(* The credential in NVS (CredentialStore.cpp) and the two places of the    *)
(* I/O task that use it: the load at start and the commit of an enrollment  *)
(* (Runtime.cpp: initializeIo, processEnrollAck, eraseEnrollment).          *)
(*                                                                          *)
(* Two slots hold a record each with its generation; a save goes to the     *)
(* slot that its generation's parity names.  External: NVS and the power    *)
(* supply.  A write that fails or is cut leaves the slot as it was, with    *)
(* the new record, or unreadable, which the CRC notices; a clear leaves any *)
(* of the slots.  generation is a uint32_t; 2^32 saves are out of reach.    *)
(***************************************************************************)
EXTENDS Integers

CONSTANTS
    Records,         \* complete and valid StoredCredentials
    NoRecord,
    ReadsFail,       \* nvs_open, nvs_get_blob or an allocation of readSlot may fail
    MaxGeneration    \* bound: generations saved

StoreAssumption ==
    NoRecord \notin Records /\ ReadsFail \in BOOLEAN /\ MaxGeneration \in Nat

Keys == {"slot0", "slot1"}
Blank == [generation |-> 0, record |-> NoRecord]  \* no blob, or one that fails decodeConfig
Stored == [generation : 1 .. MaxGeneration, record : Records]

VARIABLES
    slots,         \* what NVS holds under each key
    pc,            \* where the I/O task stands
    next,          \* the record being saved, with its generation
    credentials,   \* credentials_, in RAM
    committed,     \* history: the record whose enrollment was committed
    offered        \* history: records whose save began since the last clear

vars == <<slots, pc, next, credentials, committed, offered>>

Init ==
    /\ slots = [key \in Keys |-> Blank] /\ pc = "boot" /\ next = Blank
    /\ credentials = NoRecord /\ committed = NoRecord /\ offered = {}
--------------------------------------------------------------------------------
\* Mutants: one slot for everything, the older record.
SlotOf_Single(generation) == "slot0"
Newest_Oldest(first, second) ==
    IF first.record # NoRecord /\ (second.record = NoRecord \/ first.generation <= second.generation)
    THEN first ELSE second

Valid(blob) == blob.record # NoRecord
SlotOf(generation) == IF generation % 2 = 1 THEN "slot1" ELSE "slot0"

Reads == IF ReadsFail THEN SUBSET Keys ELSE {Keys}
readSlot(key, readable) == IF key \in readable THEN slots[key] ELSE Blank

Newest(first, second) ==
    IF Valid(first) /\ (~Valid(second) \/ first.generation >= second.generation)
    THEN first ELSE second

load(readable) == Newest(readSlot("slot0", readable), readSlot("slot1", readable))

NextGeneration(current) == IF Valid(current) THEN current.generation + 1 ELSE 1

\* The start of the device: what it finds decides between setup and operation.
Boot ==
    /\ pc = "boot" /\ pc' = "idle"
    /\ \E readable \in Reads : credentials' = load(readable).record
    /\ UNCHANGED <<slots, next, committed, offered>>

\* save, up to the write.  Only a device without a credential enrolls.
SaveBegin(r) ==
    /\ pc = "idle" /\ credentials = NoRecord
    /\ \E readable \in Reads :
           LET generation == NextGeneration(load(readable))
           IN  /\ generation <= MaxGeneration
               /\ next' = [generation |-> generation, record |-> r]
    /\ pc' = "writing" /\ offered' = offered \cup {r}
    /\ UNCHANGED <<slots, credentials, committed>>

Target == SlotOf(next.generation)

PutBytes ==
    /\ pc = "writing" /\ pc' = "verify"
    /\ slots' = [slots EXCEPT ![Target] = next]
    /\ UNCHANGED <<next, credentials, committed, offered>>

\* A write that fails, at any point of it.
CutWrite == \E left \in {slots[Target], Blank, next} : slots' = [slots EXCEPT ![Target] = left]

PutFails ==
    /\ pc = "writing" /\ pc' = "idle" /\ next' = Blank
    /\ CutWrite
    /\ UNCHANGED <<credentials, committed, offered>>

Verify ==
    /\ pc = "verify"
    /\ \E readable \in Reads :
           IF Valid(readSlot(Target, readable))
              /\ readSlot(Target, readable).generation = next.generation
           THEN pc' = "load" /\ UNCHANGED next
           ELSE pc' = "idle" /\ next' = Blank
    /\ UNCHANGED <<slots, credentials, committed, offered>>

\* processEnrollAck commits when a record can be loaded after the save.
Commit ==
    /\ pc = "load" /\ pc' = "idle" /\ next' = Blank
    /\ \E readable \in Reads :
           IF Valid(load(readable))
           THEN credentials' = load(readable).record /\ committed' = next.record
           ELSE UNCHANGED <<credentials, committed>>
    /\ UNCHANGED <<slots, offered>>

\* eraseEnrollment, with or without a credential.
Reset ==
    /\ pc = "idle" /\ pc' = "clearing"
    /\ credentials' = NoRecord /\ committed' = NoRecord
    /\ UNCHANGED <<slots, next, offered>>

clearProvisioning ==
    /\ pc = "clearing" /\ pc' = "idle"
    /\ slots' = [key \in Keys |-> Blank] /\ offered' = {}
    /\ UNCHANGED <<next, credentials, committed>>

CutClear ==
    \E erased \in SUBSET Keys :
        slots' = [key \in Keys |-> IF key \in erased THEN Blank ELSE slots[key]]

\* A failed clear is fatal: the flow stays in Error until a power cycle.
ClearFails ==
    /\ pc = "clearing" /\ pc' = "dead"
    /\ CutClear
    /\ UNCHANGED <<next, credentials, committed, offered>>

PowerCycle ==
    /\ pc # "boot" /\ pc' = "boot"
    /\ CASE pc = "writing"  -> CutWrite
         [] pc = "clearing" -> CutClear
         [] OTHER           -> UNCHANGED slots
    /\ next' = Blank /\ credentials' = NoRecord
    /\ UNCHANGED <<committed, offered>>

Next ==
    \/ Boot
    \/ \E r \in Records : SaveBegin(r)
    \/ PutBytes \/ PutFails \/ Verify \/ Commit
    \/ Reset \/ clearProvisioning \/ ClearFails
    \/ PowerCycle

Spec == Init /\ [][Next]_vars
--------------------------------------------------------------------------------
\* Types; a slot is blank or holds a record with a generation of at least one.
TypeOK ==
    /\ slots \in [Keys -> Stored \cup {Blank}]
    /\ next \in Stored \cup {Blank}
    /\ pc \in {"boot", "idle", "writing", "verify", "load", "clearing", "dead"}
    /\ {credentials, committed} \subseteq Records \cup {NoRecord}
    /\ offered \subseteq Records

\* "EnrollAck is durably committed before Register" (Runtime.cpp:1466): once an
\* enrollment is committed (1956-1977), its record is the one the device works with
\* and the one a restart finds, until the user resets the device.  The commit only
\* asks that some record can be loaded; failed saves of earlier enrollments and
\* power cuts at any point of a write do not bring back anything older.
CommittedIsStored ==
    committed # NoRecord =>
        load(Keys).record = committed /\ credentials \in {NoRecord, committed}

\* The two slots behave as one record that a save replaces entirely or not at all
\* (writeSlot and save, CredentialStore.cpp:196-229), whatever the power supply does.
Vault == INSTANCE CredentialVault WITH
    vault <- load(Keys).record,
    saving <- IF pc = "writing" THEN next.record ELSE NoRecord,
    clearing <- pc = "clearing"

ImplementsVault == Vault!Spec
================================================================================
