-------------------------- MODULE RulesetRegister --------------------------
(***************************************************************************)
(* What ruleset publishing promises, without transactions: the versions of *)
(* a key are numbered 1, 2, 3, ... with no gap and no repeat, and a key    *)
(* that has a version in force never has none or two of them again.        *)
(* Rulesets implements this module.                                        *)
(***************************************************************************)
EXTENDS Naturals

CONSTANTS Id,               \* ruleset versions
          Key, NoKey

VARIABLES key,              \* key[v]: the key version v was drafted for, or NoKey
          number,           \* number[v]: its version number, 0 before it is drafted
          current           \* current[k]: the versions in force for key k

vars == <<key, number, current>>

Init == /\ key \in [Id -> Key \union {NoKey}]
        /\ number \in [Id -> Nat]
        /\ current \in [Key -> SUBSET Id]

Used(k) == {number[v] : v \in {w \in Id : key[w] = k}}

\* The number after a used one, or the first, unless it is used itself.
Draft(v, k) ==
  /\ key[v] = NoKey
  /\ key' = [key EXCEPT ![v] = k]
  /\ \E n \in ({1} \union {m + 1 : m \in Used(k)}) \ Used(k) :
       number' = [number EXCEPT ![v] = n]
  /\ UNCHANGED current

\* One step takes the old version out of force and puts the new one in.
Publish(v) ==
  /\ key[v] # NoKey
  /\ current' = [current EXCEPT ![key[v]] = {v}]
  /\ UNCHANGED <<key, number>>

Next == \/ \E v \in Id, k \in Key : Draft(v, k)
        \/ \E v \in Id : Publish(v)

Spec == Init /\ [][Next]_vars
=============================================================================
