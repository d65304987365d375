---------------------------- MODULE KeyValueStore ----------------------------
(***************************************************************************)
(* What the rest of the firmware may expect of IDurableStore               *)
(* (contracts/include/mwf/contracts.h): a map from keys to values, changed *)
(* by one operation at a time.  An operation that reports success has      *)
(* taken effect.  One that does not run to a successful end leaves its own *)
(* key in doubt and every other key alone: the old value, none, or bytes   *)
(* no reader accepts.                                                      *)
(***************************************************************************)
CONSTANTS Keys, Values, Missing, Torn, InDoubt

VARIABLES
  content,   \* what get() returns for each key
  outcome    \* what the last operation on each key reported: the value put,
             \* Missing for an erase, InDoubt when it was not completed

Init ==
  /\ content = [k \in Keys |-> Missing]
  /\ outcome = [k \in Keys |-> Missing]

Put(k, v) ==
  /\ content' = [content EXCEPT ![k] = v]
  /\ outcome' = [outcome EXCEPT ![k] = v]

Erase(k) ==
  /\ content' = [content EXCEPT ![k] = Missing]
  /\ outcome' = [outcome EXCEPT ![k] = Missing]

Disturb(k) ==
  /\ \E x \in {content[k], Missing, Torn} : content' = [content EXCEPT ![k] = x]
  /\ outcome' = [outcome EXCEPT ![k] = InDoubt]

Next == \E k \in Keys : Erase(k) \/ Disturb(k) \/ \E v \in Values : Put(k, v)

Spec == Init /\ [][Next]_<<content, outcome>>
=============================================================================
