--------------------------- MODULE EmulatedEEPROM ---------------------------
(***************************************************************************)
(* What an emulated EEPROM promises to the code that stores its settings   *)
(* in it, whatever happens to the power: a write that has returned is      *)
(* durable; a power loss while a write is being logged leaves every byte   *)
(* with the value it had before the write or with the value written; only  *)
(* a power loss while the store reorganises itself may lose bytes, and     *)
(* those read as zero, never as something else.                            *)
(***************************************************************************)
EXTENDS Integers

CONSTANTS Addr, Byte

VARIABLES
    data,    \* what reads return, and after a power loss will return
    stable,  \* the contents before the write that is in progress
    phase    \* "rest", "logging" a write, or "reorganising" the store

vars == <<data, stable, phase>>

Contents == [Addr -> Byte]
Zeros == [a \in Addr |-> 0]

Init == data = Zeros /\ stable = Zeros /\ phase = "rest"

\* A call begins: the new contents are readable at once.
Begin == /\ phase = "rest" /\ phase' \in {"logging", "reorganising"}
         /\ data' \in Contents /\ stable' = data

\* The store starts or ends the reorganisation of what it keeps.
Reorganise == /\ phase # "rest" /\ phase' \in {"logging", "reorganising"}
              /\ UNCHANGED <<data, stable>>

\* The whole store is erased.
Clear == /\ phase = "reorganising" /\ phase' = "logging"
         /\ data' = Zeros /\ UNCHANGED stable

\* The call returns: its effect is durable.
Commit == /\ phase = "logging" /\ phase' = "rest"
          /\ stable' = data /\ UNCHANGED data

\* Power is lost, and the contents are what the next start will find.
PowerLoss ==
    /\ \A a \in Addr : data'[a] \in {stable[a], data[a]} \cup
                                    (IF phase = "reorganising" THEN {0} ELSE {})
    /\ stable' = data' /\ phase' = "rest"

Next == Begin \/ Reorganise \/ Clear \/ Commit \/ PowerLoss

Spec == Init /\ [][Next]_vars
=============================================================================
