---------------------------- MODULE DurableStore ----------------------------
(***************************************************************************)
(* firmware/src/durable_store_logic.h over the two backends of             *)
(* firmware/src/durable_store.cpp.  A small value lives in NVS, beside an  *)
(* index of the keys NVS holds; a large one lives in a LittleFS file.      *)
(*                                                                         *)
(* An operation is modelled flash write by flash write, because power can  *)
(* fail between any two of them: NVS makes one putBytes, remove or         *)
(* putString atomic, LittleFS makes a remove atomic, and a file write      *)
(* truncates first.  The firmware calls the store from one task, so        *)
(* operations never overlap.                                               *)
(***************************************************************************)
EXTENDS Naturals

CONSTANTS
  Keys,       \* logical keys, such as exec/<runId>
  Small,      \* values of at most kInlineThreshold bytes
  Large,      \* values above it
  Missing,    \* std::nullopt
  Torn,       \* a file whose write did not finish
  InDoubt,    \* the outcome of an operation that did not succeed
  MaxFaults   \* bounds power cuts and failed writes

Values == Small \cup Large

ASSUME StoreAssumption ==
  /\ Small \cap Large = {}
  /\ Missing # Torn
  /\ {Missing, Torn, InDoubt} \cap Values = {}
  /\ InDoubt \notin {Missing, Torn}
  /\ MaxFaults \in Nat

VARIABLES
  nvs,         \* value bytes in NVS, by nvsKeyFor(key)
  savedIndex,  \* the key list under _idx in NVS
  index,       \* index_, its copy in RAM
  file,        \* the file of each key
  op,          \* the operation under way
  latest,      \* what the last operation on a key promised (history variable)
  faults       \* how many more things may go wrong

vars == <<nvs, savedIndex, index, file, op, latest, faults>>

\* An operation: what, on which key, with which value, its next flash write,
\* and what the key read as before it began.
Operation(kind, k, v, step, before) ==
  [kind |-> kind, key |-> k, value |-> v, step |-> step, before |-> before]

Steps == {"eraseFile", "putValue", "addToIndex", "removeValue", "dropFromIndex",
          "truncateFile", "writeFile"}

NoOp == [kind |-> "none"]
Idle == op = NoOp

\* get(): NVS first, then the file.
Get(k) == IF nvs[k] # Missing THEN nvs[k] ELSE file[k]

\* keys(): what either backend lists.
ListedKeys == index \cup {k \in Keys : file[k] # Missing}

Init ==
  /\ nvs = [k \in Keys |-> Missing]
  /\ savedIndex = {}
  /\ index = {}
  /\ file = [k \in Keys |-> Missing]
  /\ op = NoOp
  /\ latest = [k \in Keys |-> Missing]
  /\ faults = MaxFaults

Fault == faults > 0 /\ faults' = faults - 1

At(step)   == op # NoOp /\ op.step = step
GoTo(step) == op' = [op EXCEPT !.step = step]

Finish(outcome) ==
  /\ op' = NoOp
  /\ latest' = [latest EXCEPT ![op.key] = outcome]

-----------------------------------------------------------------------------
(* Operations begin.                                                       *)

\* (Slips: a value that shrank leaves its file, one that grew leaves its NVS
\* copy, or no value goes to a file at all.)
FirstStepLeavingFile(v) == IF v \in Small THEN "putValue" ELSE "removeValue"
FirstStepLeavingNvs(v)  == IF v \in Small THEN "eraseFile" ELSE "truncateFile"
FirstStepNvsOnly(v)     == "eraseFile"

\* put() of a small value drops the file copy first, of a large one the NVS
\* copy first.
FirstStep(v) == IF v \in Small THEN "eraseFile" ELSE "removeValue"

BeginPut(k, v) ==
  /\ Idle
  /\ op' = Operation("put", k, v, FirstStep(v), Get(k))
  /\ UNCHANGED <<nvs, savedIndex, index, file, latest, faults>>

BeginErase(k) ==
  /\ Idle
  /\ op' = Operation("erase", k, Missing, "removeValue", Get(k))
  /\ UNCHANGED <<nvs, savedIndex, index, file, latest, faults>>

-----------------------------------------------------------------------------
(* LittleFsFileStore.                                                      *)

\* (Slip: the file of the key is not found.)
EraseFileMissed ==
  /\ At("eraseFile")
  /\ IF op.kind = "put" THEN GoTo("putValue") /\ UNCHANGED latest
                        ELSE Finish(Missing)
  /\ UNCHANGED <<nvs, savedIndex, index, file, faults>>

\* erase(): the first write of a small put, the last one of erase().
EraseFile ==
  /\ At("eraseFile")
  /\ file' = [file EXCEPT ![op.key] = Missing]
  /\ IF op.kind = "put" THEN GoTo("putValue") /\ UNCHANGED latest
                        ELSE Finish(Missing)
  /\ UNCHANGED <<nvs, savedIndex, index, faults>>

\* put(): opening for write truncates, and the write follows.
TruncateFile ==
  /\ At("truncateFile")
  /\ file' = [file EXCEPT ![op.key] = Torn]
  /\ GoTo("writeFile")
  /\ UNCHANGED <<nvs, savedIndex, index, latest, faults>>

WriteFile ==
  /\ At("writeFile")
  /\ file' = [file EXCEPT ![op.key] = op.value]
  /\ Finish(op.value)
  /\ UNCHANGED <<nvs, savedIndex, index, faults>>

-----------------------------------------------------------------------------
(* NvsKvStore.                                                             *)

\* (Slip: a new key is not indexed.)
PutValueUnindexed ==
  /\ At("putValue")
  /\ nvs' = [nvs EXCEPT ![op.key] = op.value]
  /\ Finish(op.value)
  /\ UNCHANGED <<savedIndex, index, file, faults>>

\* put(): the value first; a key the index has already is not indexed again.
PutValue ==
  /\ At("putValue")
  /\ nvs' = [nvs EXCEPT ![op.key] = op.value]
  /\ IF op.key \in index THEN Finish(op.value) ELSE GoTo("addToIndex") /\ UNCHANGED latest
  /\ UNCHANGED <<savedIndex, index, file, faults>>

\* push_back and saveIndex.
AddToIndex ==
  /\ At("addToIndex")
  /\ index' = index \cup {op.key}
  /\ savedIndex' = index'
  /\ Finish(op.value)
  /\ UNCHANGED <<nvs, file, faults>>

AfterKvErase == IF op.kind = "put" THEN "truncateFile" ELSE "eraseFile"

\* erase(): a key the index does not list is "not held here".
RemoveValue ==
  /\ At("removeValue")
  /\ IF op.key \in index
     THEN nvs' = [nvs EXCEPT ![op.key] = Missing] /\ GoTo("dropFromIndex")
     ELSE UNCHANGED nvs /\ GoTo(AfterKvErase)
  /\ UNCHANGED <<savedIndex, index, file, latest, faults>>

\* (Slip: the key stays listed.)
DropFromIndexSkipped ==
  /\ At("dropFromIndex")
  /\ GoTo(AfterKvErase)
  /\ UNCHANGED <<nvs, savedIndex, index, file, latest, faults>>

DropFromIndex ==
  /\ At("dropFromIndex")
  /\ index' = index \ {op.key}
  /\ savedIndex' = index'
  /\ GoTo(AfterKvErase)
  /\ UNCHANGED <<nvs, file, latest, faults>>

-----------------------------------------------------------------------------
(* What can go wrong.                                                      *)

\* (Slip: the failure is not reported.)
WriteFailsSilently ==
  /\ \E step \in {"putValue", "truncateFile", "writeFile"} : At(step)
  /\ Fault
  /\ Finish(op.value)
  /\ UNCHANGED <<nvs, savedIndex, index, file>>

\* putBytes writes short, the file does not open, or f.write is short: put()
\* returns false and leaves what is there.
WriteFails ==
  /\ \E step \in {"putValue", "truncateFile", "writeFile"} : At(step)
  /\ Fault
  /\ Finish(InDoubt)
  /\ UNCHANGED <<nvs, savedIndex, index, file>>

\* saveIndex does not look at putString's result: RAM goes on without flash.
IndexWriteFails ==
  /\ \/ At("addToIndex") /\ index' = index \cup {op.key} /\ Finish(op.value)
     \/ At("dropFromIndex") /\ index' = index \ {op.key} /\ GoTo(AfterKvErase)
        /\ UNCHANGED latest
  /\ Fault
  /\ UNCHANGED <<nvs, savedIndex, file>>

\* Power fails and comes back: begin() reloads the index from flash.
PowerCycle ==
  /\ Fault
  /\ index' = savedIndex
  /\ IF Idle THEN UNCHANGED <<op, latest>> ELSE Finish(InDoubt)
  /\ UNCHANGED <<nvs, savedIndex, file>>

Next ==
  \/ \E k \in Keys : BeginErase(k) \/ \E v \in Values : BeginPut(k, v)
  \/ EraseFile \/ TruncateFile \/ WriteFile
  \/ PutValue \/ AddToIndex \/ RemoveValue \/ DropFromIndex
  \/ WriteFails \/ IndexWriteFails \/ PowerCycle

Spec == Init /\ [][Next]_vars

-----------------------------------------------------------------------------
(* Properties.                                                             *)

Operations ==
  [kind : {"put", "erase"}, key : Keys, value : Values \cup {Missing}, step : Steps,
   before : Values \cup {Missing, Torn}]

\* Every variable has its type.
TypeOK ==
  /\ nvs \in [Keys -> Small \cup {Missing}]
  /\ savedIndex \subseteq Keys
  /\ index \subseteq Keys
  /\ file \in [Keys -> Large \cup {Missing, Torn}]
  /\ op = NoOp \/ op \in Operations
  /\ latest \in [Keys -> Values \cup {Missing, InDoubt}]
  /\ faults \in 0..MaxFaults

\* A key never has two copies: durable_store_logic.h:11-13 ("a value that
\* grows/shrinks across the threshold MOVES rather than leaving a stale
\* duplicate that get() might return").
SingleSource == \A k \in Keys : nvs[k] = Missing \/ file[k] = Missing

\* What survives power cuts of that promise: a copy the NVS index knows of is
\* the only copy, also in the middle of an operation and right after a reboot.
IndexedCopyIsSingle ==
  \A k \in index \cup savedIndex : nvs[k] = Missing \/ file[k] = Missing

\* A value erase() cannot find: NVS has it and the index does not list it.
Orphaned(k) == nvs[k] # Missing /\ k \notin index

\* Between operations a key reads as what its last successful operation left,
\* whatever failed before it, unless an orphan shadows it (see SingleSource).
ReadsLatest ==
  Idle => \A k \in Keys : latest[k] # InDoubt /\ ~ Orphaned(k) => Get(k) = latest[k]

\* Between operations keys() lists exactly the keys get() finds.
ListsWhatItHolds ==
  Idle => \A k \in Keys : k \in ListedKeys <=> Get(k) # Missing

\* The map the users of the store see: what the key under way read as before
\* its operation began, until that operation ends.
Content == [k \in Keys |-> IF ~ Idle /\ op.key = k THEN op.before ELSE Get(k)]

Abstract == INSTANCE KeyValueStore WITH content <- Content, outcome <- latest

\* The store implements that map: an operation that reports success has taken
\* effect, at once and on its own key only.
ImplementsMap == Abstract!Spec
-----------------------------------------------------------------------------
(* The inductive invariant behind IndexedCopyIsSingle and TypeOK.           *)

\* The route of an operation: which steps belong to which kind and size.
OpRouted ==
  ~ Idle =>
    /\ op.step \in {"putValue", "addToIndex"} => op.kind = "put" /\ op.value \in Small
    /\ op.step \in {"truncateFile", "writeFile"} => op.kind = "put" /\ op.value \in Large
    /\ op.step = "eraseFile" /\ op.kind = "put" => op.value \in Small
    /\ op.step \in {"removeValue", "dropFromIndex"} /\ op.kind = "put" => op.value \in Large

\* What a step may rely on because of the steps before it.
OpPrepared ==
  /\ At("putValue") \/ At("addToIndex") => file[op.key] = Missing
  /\ At("addToIndex") => op.key \notin index /\ nvs[op.key] = op.value
  /\ At("eraseFile") /\ op.kind = "erase" => op.key \notin index
  /\ At("dropFromIndex") => nvs[op.key] = Missing
  /\ At("truncateFile") \/ At("writeFile") => op.key \notin index

\* A key only flash still lists has no value, unless it is being added.
StaleEntriesEmpty ==
  \A k \in savedIndex \ index :
    nvs[k] = Missing \/ (At("addToIndex") /\ op.key = k)

StoreInv == TypeOK /\ OpRouted /\ OpPrepared /\ StaleEntriesEmpty /\ IndexedCopyIsSingle

\* Every value in NVS is indexed, or about to be.  A power cut between the two
\* writes of NvsKvStore::put is what breaks it.
NoOrphan ==
  \A k \in Keys : nvs[k] # Missing => k \in index \/ (At("addToIndex") /\ op.key = k)
=============================================================================
