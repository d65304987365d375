-------------------------- MODULE DurableStoreProofs --------------------------
(***************************************************************************)
(* Theorems about DurableStore, for every set of keys and values and every *)
(* number of faults.                                                       *)
(***************************************************************************)
EXTENDS DurableStore, TLAPS

USE StoreAssumption

\* Init establishes the invariant.
LEMMA StoreInvInit == Init => StoreInv
  BY DEF Init, StoreInv, TypeOK, OpRouted, OpPrepared, StaleEntriesEmpty,
         IndexedCopyIsSingle, Idle, At, NoOp, Values

\* Every step, faulty or not, keeps the invariant.
LEMMA StoreInvNext == StoreInv /\ [Next]_vars => StoreInv'
<1> SUFFICES ASSUME StoreInv, [Next]_vars PROVE StoreInv'
  OBVIOUS
<1> USE DEF StoreInv, TypeOK, OpRouted, OpPrepared, StaleEntriesEmpty,
            IndexedCopyIsSingle, Idle, At, GoTo, Values, Operations, Steps, Fault
<1>1. ASSUME NEW k \in Keys, BeginErase(k) PROVE StoreInv'
  BY <1>1 DEF BeginErase, Operation, Get, NoOp
<1>2. ASSUME NEW k \in Keys, NEW v \in Values, BeginPut(k, v) PROVE StoreInv'
  BY <1>2 DEF BeginPut, FirstStep, Operation, Get, NoOp
<1>3. CASE EraseFile
  BY <1>3 DEF EraseFile, Finish, NoOp
<1>4. CASE TruncateFile
  BY <1>4 DEF TruncateFile, NoOp
<1>5. CASE WriteFile
  BY <1>5 DEF WriteFile, Finish, NoOp
<1>6. CASE PutValue
  BY <1>6 DEF PutValue, Finish, NoOp
<1>7. CASE AddToIndex
  BY <1>7 DEF AddToIndex, Finish, NoOp
<1>8. CASE RemoveValue
  BY <1>8 DEF RemoveValue, AfterKvErase, NoOp
<1>9. CASE DropFromIndex
  BY <1>9 DEF DropFromIndex, AfterKvErase, NoOp
<1>10. CASE WriteFails
  BY <1>10 DEF WriteFails, Finish, NoOp
<1>11. CASE IndexWriteFails
  BY <1>11 DEF IndexWriteFails, Finish, AfterKvErase, NoOp
<1>12. CASE PowerCycle
  BY <1>12 DEF PowerCycle, Finish, NoOp
<1>13. CASE UNCHANGED vars
  BY <1>13 DEF vars
<1> QED
  BY <1>1, <1>2, <1>3, <1>4, <1>5, <1>6, <1>7, <1>8, <1>9, <1>10, <1>11, <1>12,
     <1>13 DEF Next

\* Every variable has its type, whatever fails: a small value never reaches a
\* file and a large one never reaches NVS.
THEOREM TypeCorrect == Spec => []TypeOK
<1>1. StoreInv => TypeOK
  BY DEF StoreInv
<1> QED
  BY <1>1, StoreInvInit, StoreInvNext, PTL DEF Spec

\* A copy the NVS index knows of is the only copy of its key, at every flash
\* write and after every power cut and failed write.
THEOREM IndexedCopyAlwaysSingle == Spec => []IndexedCopyIsSingle
<1>1. StoreInv => IndexedCopyIsSingle
  BY DEF StoreInv
<1> QED
  BY <1>1, StoreInvInit, StoreInvNext, PTL DEF Spec

-----------------------------------------------------------------------------
(* While no value in NVS is orphaned, a key has one source.                 *)

\* The stale copy get() would prefer can only be an orphan.
LEMMA NoOrphanMeansSingleSource == StoreInv /\ NoOrphan => SingleSource
  BY DEF StoreInv, NoOrphan, SingleSource, IndexedCopyIsSingle, OpPrepared, TypeOK

\* Nothing fails, or nothing is small: what keeps orphans away.
Unorphaned == faults = 0 \/ Small = {}

LEMMA UnorphanedNext == StoreInv /\ Unorphaned /\ [Next]_vars => Unorphaned'
  BY DEF StoreInv, TypeOK, Unorphaned, Next, vars, BeginErase, BeginPut, FirstStep, EraseFile,
         TruncateFile, WriteFile, PutValue, AddToIndex, RemoveValue, DropFromIndex,
         WriteFails, IndexWriteFails, PowerCycle, Fault

LEMMA NoOrphanNext ==
  StoreInv /\ NoOrphan /\ Unorphaned /\ [Next]_vars => NoOrphan'
<1> SUFFICES ASSUME StoreInv, NoOrphan, Unorphaned, [Next]_vars PROVE NoOrphan'
  OBVIOUS
<1>1. CASE Small = {}
  <2>1. TypeOK'
    BY StoreInvNext DEF StoreInv
  <2> QED
    BY <1>1, <2>1 DEF TypeOK, NoOrphan
<1>2. CASE faults = 0
  <2> USE DEF StoreInv, TypeOK, NoOrphan, OpRouted, OpPrepared, Idle, At, GoTo, NoOp,
              Operations, Steps, Finish
  <2>1. ASSUME NEW k \in Keys, BeginErase(k) PROVE NoOrphan'
    BY <2>1 DEF BeginErase, Operation
  <2>2. ASSUME NEW k \in Keys, NEW v \in Values, BeginPut(k, v) PROVE NoOrphan'
    BY <2>2 DEF BeginPut, FirstStep, Operation
  <2>3. CASE EraseFile \/ TruncateFile \/ WriteFile
    BY <2>3 DEF EraseFile, TruncateFile, WriteFile
  <2>4. CASE PutValue
    BY <2>4 DEF PutValue
  <2>5. CASE AddToIndex
    BY <2>5 DEF AddToIndex
  <2>6. CASE RemoveValue
    BY <2>6 DEF RemoveValue
  <2>7. CASE DropFromIndex
    BY <2>7 DEF DropFromIndex
  <2>8. CASE WriteFails \/ IndexWriteFails \/ PowerCycle
    BY <1>2, <2>8 DEF WriteFails, IndexWriteFails, PowerCycle, Fault
  <2>9. CASE UNCHANGED vars
    BY <2>9 DEF vars
  <2> QED
    BY <2>1, <2>2, <2>3, <2>4, <2>5, <2>6, <2>7, <2>8, <2>9 DEF Next
<1> QED
  BY <1>1, <1>2 DEF Unorphaned

\* A large value under way leaves the old file or a torn one until the end.
BeforeKept == Small = {} /\ ~ Idle => file[op.key] \in {op.before, Torn}

LEMMA BeforeKeptNext == StoreInv /\ BeforeKept /\ [Next]_vars => BeforeKept'
<1> SUFFICES ASSUME StoreInv, BeforeKept, [Next]_vars, Small = {} PROVE BeforeKept'
  BY DEF BeforeKept
<1> USE DEF StoreInv, TypeOK, BeforeKept, Idle, At, GoTo, NoOp, Operations, Steps, Finish
<1>1. CASE \E k \in Keys : BeginErase(k) \/ \E v \in Values : BeginPut(k, v)
  BY <1>1 DEF BeginErase, BeginPut, FirstStep, Operation, Get
<1>2. CASE EraseFile
  BY <1>2 DEF EraseFile, OpRouted
<1>3. CASE TruncateFile
  BY <1>3 DEF TruncateFile
<1>4. CASE WriteFile
  BY <1>4 DEF WriteFile
<1>5. CASE PutValue \/ AddToIndex
  BY <1>5 DEF PutValue, AddToIndex, OpRouted
<1>6. CASE RemoveValue \/ DropFromIndex
  BY <1>6 DEF RemoveValue, DropFromIndex
<1>7. CASE WriteFails \/ IndexWriteFails \/ PowerCycle
  BY <1>7 DEF WriteFails, IndexWriteFails, PowerCycle
<1>8. CASE UNCHANGED vars
  BY <1>8 DEF vars
<1> QED
  BY <1>1, <1>2, <1>3, <1>4, <1>5, <1>6, <1>7, <1>8 DEF Next

\* What the theorems below induct on.
SoundInv == StoreInv /\ NoOrphan /\ Unorphaned /\ BeforeKept

LEMMA SoundInvInit == Init /\ (MaxFaults = 0 \/ Small = {}) => SoundInv
  BY StoreInvInit DEF SoundInv, Init, NoOrphan, Unorphaned, BeforeKept, Idle

LEMMA SoundInvNext == SoundInv /\ [Next]_vars => SoundInv'
  BY StoreInvNext, NoOrphanNext, UnorphanedNext, BeforeKeptNext DEF SoundInv

\* Without faults, and whatever fails while every value is large, a value that
\* crosses the threshold moves and no key ever has two copies.
THEOREM SingleSourceHolds ==
  ASSUME MaxFaults = 0 \/ Small = {} PROVE Spec => []SingleSource
<1>1. Init => SoundInv
  BY SoundInvInit
<1>2. SoundInv => SingleSource
  BY NoOrphanMeansSingleSource DEF SoundInv
<1> QED
  BY <1>1, <1>2, SoundInvNext, PTL DEF Spec

-----------------------------------------------------------------------------
(* The store implements the map its users see.                             *)

LEMMA ContentInit == Init => Abstract!Init
  BY DEF Init, Abstract!Init, Content, Get, Idle, NoOp

\* A step in the middle of an operation is not seen: what the key read as
\* before is in op.before, and the writes touch that key only.
LEMMA MiddleStepUnseen ==
  ASSUME TypeOK, ~ Idle, ~ Idle', op'.key = op.key, op'.before = op.before,
         latest' = latest,
         \A k \in Keys \ {op.key} : nvs'[k] = nvs[k] /\ file'[k] = file[k]
  PROVE  UNCHANGED <<Content, latest>>
  BY DEF Content, Get

\* The last step of an operation shows its key as Get then reads it.
LEMMA LastStepSeen ==
  ASSUME NEW key \in Keys, op.key = key, ~ Idle, Idle',
         \A k \in Keys \ {key} : nvs'[k] = nvs[k] /\ file'[k] = file[k]
  PROVE  Content' = [Content EXCEPT ![key] = Get(key)']
<1>1. \A k \in Keys \ {key} : Get(k)' = Get(k)
  BY DEF Get
<1>2. Content' = [k \in Keys |-> Get(k)']
  BY DEF Content
<1>3. Content = [k \in Keys |-> IF k = key THEN op.before ELSE Get(k)]
  BY DEF Content
<1> HIDE DEF Get, Content
<1> QED
  BY <1>1, <1>2, <1>3

\* What holds of the operation under way.
LEMMA OperationTyped ==
  ASSUME TypeOK, ~ Idle
  PROVE  /\ op \in Operations /\ op # NoOp
         /\ op.key \in Keys
         /\ op.value \in Values \cup {Missing}
         /\ op.kind \in {"put", "erase"}
  BY DEF TypeOK, Idle, Operations

LEMMA ContentNext == SoundInv /\ [Next]_vars => [Abstract!Next]_<<Content, latest>>
<1> SUFFICES ASSUME SoundInv, [Next]_vars PROVE [Abstract!Next]_<<Content, latest>>
  OBVIOUS
<1> USE DEF SoundInv, StoreInv
<1>1. CASE \E k \in Keys : BeginErase(k) \/ \E v \in Values : BeginPut(k, v)
  <2>1. Content' = Content /\ latest' = latest
    BY <1>1 DEF BeginErase, BeginPut, FirstStep, Content, Get, Operation, Idle, NoOp
  <2> QED
    BY <2>1
<1>2. CASE UNCHANGED vars
  BY <1>2 DEF vars, Content, Get, Idle
<1>3. CASE EraseFile
  <2>1. CASE op.kind = "put"
    BY <1>3, <2>1, MiddleStepUnseen, OperationTyped
    DEF EraseFile, At, Idle, GoTo, NoOp, Operations, TypeOK
  <2>2. CASE op.kind = "erase"
    <3>1. PICK key \in Keys : key = op.key
      BY <1>3, OperationTyped DEF EraseFile, At, Idle
    <3>2. /\ ~ Idle /\ Idle'
          /\ file' = [file EXCEPT ![key] = Missing] /\ nvs' = nvs
      BY <1>3, <2>2, <3>1 DEF EraseFile, At, Idle, Finish
    <3>3. nvs[key] = Missing
      BY <1>3, <2>2, <3>1 DEF EraseFile, At, OpPrepared, NoOrphan
    <3>4. Get(key)' = Missing
      BY <3>2, <3>3 DEF Get, TypeOK
    <3>5. Content' = [Content EXCEPT ![key] = Missing]
      BY <3>1, <3>2, <3>4, LastStepSeen DEF TypeOK
    <3>6. latest' = [latest EXCEPT ![key] = Missing]
      BY <1>3, <2>2, <3>1 DEF EraseFile, Finish
    <3> QED
      BY <3>5, <3>6 DEF Abstract!Next, Abstract!Erase
  <2> QED
    BY <1>3, <2>1, <2>2, OperationTyped DEF EraseFile, At, Idle
<1>4. CASE TruncateFile
  BY <1>4, MiddleStepUnseen DEF TruncateFile, At, Idle, GoTo, NoOp, Operations, TypeOK
<1>5. CASE RemoveValue
  BY <1>5, MiddleStepUnseen DEF RemoveValue, At, Idle, GoTo, NoOp, Operations, TypeOK
<1>6. CASE DropFromIndex
  BY <1>6, MiddleStepUnseen DEF DropFromIndex, At, Idle, GoTo, NoOp, Operations, TypeOK
<1>7. CASE PutValue /\ op.key \notin index
  BY <1>7, MiddleStepUnseen DEF PutValue, At, Idle, GoTo, NoOp, Operations, TypeOK
<1>8. CASE WriteFile \/ AddToIndex \/ (PutValue /\ op.key \in index)
  <2>1. PICK key \in Keys : key = op.key
    BY <1>8, OperationTyped DEF WriteFile, PutValue, AddToIndex, At, Idle
  <2>2. PICK v \in Values : v = op.value
    BY <1>8 DEF WriteFile, PutValue, AddToIndex, At, Idle, OpRouted, Values
  <2>3. ~ Idle /\ Idle'
    BY <1>8 DEF WriteFile, PutValue, AddToIndex, At, Idle, Finish
  <2>4. Get(key)' = v /\ (\A k \in Keys \ {key} : nvs'[k] = nvs[k] /\ file'[k] = file[k])
    <3>1. CASE WriteFile
      BY <3>1, <2>1, <2>2 DEF WriteFile, At, Get, OpPrepared, NoOrphan, TypeOK
    <3>2. CASE PutValue
      BY <3>2, <2>1, <2>2 DEF PutValue, Get, TypeOK, Values
    <3>3. CASE AddToIndex
      BY <3>3, <2>1, <2>2 DEF AddToIndex, At, Get, OpPrepared, TypeOK, Values
    <3> QED
      BY <1>8, <3>1, <3>2, <3>3
  <2>5. Content' = [Content EXCEPT ![key] = v]
    BY <2>1, <2>3, <2>4, LastStepSeen
  <2>6. latest' = [latest EXCEPT ![key] = v]
    BY <1>8, <2>1, <2>2 DEF WriteFile, PutValue, AddToIndex, Finish
  <2> QED
    BY <2>5, <2>6 DEF Abstract!Next, Abstract!Put
<1>9. CASE IndexWriteFails /\ ~ Idle'
  BY <1>9, MiddleStepUnseen
  DEF IndexWriteFails, At, Idle, GoTo, Finish, NoOp, Operations, TypeOK
<1>10. CASE PowerCycle /\ Idle
  BY <1>10 DEF PowerCycle, Content, Get, Idle
<1>11. CASE ~ Idle /\ Idle' /\ (WriteFails \/ PowerCycle)
  <2>1. faults > 0 /\ nvs' = nvs /\ file' = file
    BY <1>11 DEF WriteFails, PowerCycle, Fault
  <2>2. Small = {}
    BY <2>1 DEF Unorphaned
  <2>3. PICK key \in Keys : key = op.key
    BY <1>11, OperationTyped
  <2>4. Get(key)' = file[key]
    BY <2>1, <2>2 DEF Get, TypeOK
  <2>5. Content' = [Content EXCEPT ![key] = file[key]]
    BY <1>11, <2>1, <2>3, <2>4, LastStepSeen
  <2>6. file[key] \in {Content[key], Torn}
    BY <1>11, <2>2, <2>3 DEF BeforeKept, Content
  <2>7. latest' = [latest EXCEPT ![key] = InDoubt]
    BY <1>11, <2>3 DEF WriteFails, PowerCycle, Finish
  <2>8. PICK x \in {Content[key], Missing, Torn} : Content' = [Content EXCEPT ![key] = x]
    BY <2>5, <2>6
  <2> QED
    BY <2>7, <2>8 DEF Abstract!Next, Abstract!Disturb
<1>12. ~ (IndexWriteFails /\ Idle')
  <2> SUFFICES ASSUME IndexWriteFails, Idle' PROVE FALSE
    OBVIOUS
  <2>1. At("addToIndex")
    BY DEF IndexWriteFails, At, GoTo, Idle, NoOp, Operations, TypeOK
  <2> QED
    BY <2>1 DEF IndexWriteFails, Fault, Unorphaned, OpRouted, At, Idle
<1> QED
  <2>1. WriteFails => ~ Idle /\ Idle'
    BY DEF WriteFails, At, Idle, Finish
  <2>2. IndexWriteFails => ~ Idle
    BY DEF IndexWriteFails, At, Idle
  <2>3. PowerCycle /\ ~ Idle => Idle'
    BY DEF PowerCycle, Idle, Finish
  <2> QED
    BY <2>1, <2>2, <2>3, <1>1, <1>2, <1>3, <1>4, <1>5, <1>6, <1>7, <1>8, <1>9, <1>10,
       <1>11, <1>12 DEF Next

\* Without faults, and whatever fails while every value is large, the flash
\* writes of the store implement the map its users see.
THEOREM StoreImplementsMap ==
  ASSUME MaxFaults = 0 \/ Small = {} PROVE Spec => ImplementsMap
<1>1. Init => SoundInv
  BY SoundInvInit
<1> QED
  BY <1>1, SoundInvNext, ContentInit, ContentNext, PTL DEF Spec, ImplementsMap, Abstract!Spec

-----------------------------------------------------------------------------
(* A key reads as its last successful operation left it, whatever failed.   *)

\* What ReadsLatest says, of every key no operation is under way on.
LatestKept ==
  \A k \in Keys :
    (Idle \/ op.key # k) /\ latest[k] # InDoubt /\ ~ Orphaned(k) => Get(k) = latest[k]

LEMMA LatestKeptInit == Init => LatestKept
  BY DEF Init, LatestKept, Get

\* A step that leaves key k alone, and takes no orphan out of hiding.
LEMMA OtherKeysKept ==
  ASSUME LatestKept, NEW k \in Keys, Idle \/ op.key # k,
         nvs'[k] = nvs[k], file'[k] = file[k], latest'[k] = latest[k],
         Orphaned(k) => Orphaned(k)'
  PROVE  latest'[k] # InDoubt /\ ~ Orphaned(k)' => Get(k)' = latest'[k]
  BY DEF LatestKept, Get

LEMMA LatestKeptNext == StoreInv /\ LatestKept /\ [Next]_vars => LatestKept'
<1> SUFFICES ASSUME StoreInv, LatestKept, [Next]_vars,
                    NEW k \in Keys, (Idle \/ op.key # k)'
             PROVE  latest'[k] # InDoubt /\ ~ Orphaned(k)' => Get(k)' = latest'[k]
  BY DEF LatestKept
<1> USE DEF StoreInv, TypeOK
<1>1. CASE ~ Idle /\ op.key = k
  <2>1. Idle'
    BY <1>1 DEF Next, vars, BeginErase, BeginPut, EraseFile, TruncateFile, WriteFile,
       PutValue, AddToIndex, RemoveValue, DropFromIndex, WriteFails, IndexWriteFails,
       PowerCycle, GoTo, Finish, At, Idle, NoOp, Operations
  <2>2. CASE WriteFails \/ PowerCycle
    BY <1>1, <2>2 DEF WriteFails, PowerCycle, Finish, Idle
  <2>3. CASE EraseFile
    BY <1>1, <2>1, <2>3 DEF EraseFile, Finish, GoTo, Idle, NoOp, At, Operations, OpPrepared,
                            Orphaned, Get
  <2>4. CASE WriteFile
    BY <1>1, <2>4 DEF WriteFile, Finish, At, OpPrepared, Orphaned, Get
  <2>5. CASE PutValue
    BY <1>1, <2>1, <2>5 DEF PutValue, Finish, GoTo, Idle, NoOp, At, Operations, OpRouted, Get,
                            Values
  <2>6. CASE AddToIndex \/ (IndexWriteFails /\ At("addToIndex"))
    BY <1>1, <2>6 DEF AddToIndex, IndexWriteFails, Finish, Idle, At, OpRouted, OpPrepared, Get,
                      Values
  <2>7. ~ (TruncateFile \/ RemoveValue \/ DropFromIndex)
    BY <1>1, <2>1 DEF TruncateFile, RemoveValue, DropFromIndex, GoTo, Idle, NoOp, Operations
  <2>8. ~ (IndexWriteFails /\ At("dropFromIndex"))
    BY <1>1, <2>1 DEF IndexWriteFails, GoTo, At, Idle, NoOp, Operations
  <2> QED
    BY <1>1, <2>1, <2>2, <2>3, <2>4, <2>5, <2>6, <2>7, <2>8
    DEF Next, vars, BeginErase, BeginPut, IndexWriteFails, At, Idle
<1>2. CASE Idle \/ op.key # k
  <2>1. nvs'[k] = nvs[k] /\ file'[k] = file[k] /\ latest'[k] = latest[k]
    BY <1>2 DEF Next, vars, BeginErase, BeginPut, EraseFile, TruncateFile, WriteFile,
       PutValue, AddToIndex, RemoveValue, DropFromIndex, WriteFails, IndexWriteFails,
       PowerCycle, Finish, At, Idle, Operations
  <2>2. Orphaned(k) => Orphaned(k)'
    <3>1. CASE PowerCycle
      BY <1>2, <3>1 DEF PowerCycle, Orphaned, StaleEntriesEmpty, At, Idle
    <3>2. CASE ~ PowerCycle
      BY <1>2, <2>1, <3>2 DEF Next, vars, BeginErase, BeginPut, EraseFile, TruncateFile,
         WriteFile, PutValue, AddToIndex, RemoveValue, DropFromIndex, WriteFails,
         IndexWriteFails, At, Idle, Orphaned
    <3> QED
      BY <3>1, <3>2
  <2> QED
    BY <1>2, <2>1, <2>2, OtherKeysKept
<1> QED
  BY <1>1, <1>2

\* A power cut or a failed write never makes a key read as anything but what
\* its last successful operation left, for every key that is not itself in
\* doubt or shadowed by an orphan.
THEOREM AlwaysReadsLatest == Spec => []ReadsLatest
<1>1. StoreInv /\ LatestKept => ReadsLatest
  BY DEF LatestKept, ReadsLatest
<1> QED
  BY <1>1, StoreInvInit, StoreInvNext, LatestKeptInit, LatestKeptNext, PTL DEF Spec

-----------------------------------------------------------------------------
(* keys() and get() agree.                                                  *)

\* An index entry has its value, except between the two writes that remove
\* both; with no small value there are no entries.
EntriesHold ==
  IF Small = {}
  THEN index = {} /\ savedIndex = {} /\ ~ At("dropFromIndex")
  ELSE \A k \in index : nvs[k] # Missing \/ (At("dropFromIndex") /\ op.key = k)

LEMMA EntriesHoldNext ==
  StoreInv /\ Unorphaned /\ EntriesHold /\ [Next]_vars => EntriesHold'
<1> SUFFICES ASSUME StoreInv, Unorphaned, EntriesHold, [Next]_vars PROVE EntriesHold'
  OBVIOUS
<1> USE DEF StoreInv, TypeOK, EntriesHold, OpRouted, OpPrepared, Idle, At, GoTo, NoOp,
            Operations, Steps, Finish
<1>1. CASE \E k \in Keys : BeginErase(k) \/ \E v \in Values : BeginPut(k, v)
  BY <1>1 DEF BeginErase, BeginPut, FirstStep, Operation
<1>2. CASE EraseFile \/ TruncateFile \/ WriteFile
  BY <1>2 DEF EraseFile, TruncateFile, WriteFile
<1>3. CASE PutValue
  BY <1>3 DEF PutValue, Values
<1>4. CASE AddToIndex
  BY <1>4 DEF AddToIndex, Values
<1>5. CASE RemoveValue
  BY <1>5 DEF RemoveValue, AfterKvErase
<1>6. CASE DropFromIndex
  BY <1>6 DEF DropFromIndex, AfterKvErase
<1>7. CASE WriteFails \/ IndexWriteFails \/ PowerCycle
  <2>1. Small = {}
    BY <1>7 DEF WriteFails, IndexWriteFails, PowerCycle, Fault, Unorphaned
  <2> QED
    BY <1>7, <2>1 DEF WriteFails, IndexWriteFails, PowerCycle
<1>8. CASE UNCHANGED vars
  BY <1>8 DEF vars
<1> QED
  BY <1>1, <1>2, <1>3, <1>4, <1>5, <1>6, <1>7, <1>8 DEF Next

\* Without faults, and whatever fails while every value is large, keys() lists
\* a key exactly when get() finds it.
THEOREM ListingAgrees ==
  ASSUME MaxFaults = 0 \/ Small = {} PROVE Spec => []ListsWhatItHolds
<1>1. Init => SoundInv /\ EntriesHold
  BY SoundInvInit DEF Init, EntriesHold, At
<1>2. SoundInv /\ EntriesHold /\ [Next]_vars => EntriesHold'
  BY EntriesHoldNext DEF SoundInv
<1>3. SoundInv /\ EntriesHold => ListsWhatItHolds
  BY DEF SoundInv, StoreInv, TypeOK, NoOrphan, EntriesHold, ListsWhatItHolds, ListedKeys,
         Get, Idle, At, Values
<1> QED
  BY <1>1, <1>2, <1>3, SoundInvNext, PTL DEF Spec
=============================================================================
