----------------------------- MODULE Dictionary -----------------------------
(***************************************************************************)
(* What the settings library promises ("Sets a value for a key in a        *)
(* section", and that the previous value is replaced): a dictionary from   *)
(* sections and keys to values.                                            *)
(***************************************************************************)
CONSTANTS Sections, Keys, Values, None

VARIABLE dict

Init == dict = [s \in Sections |-> [k \in Keys |-> None]]

Set(s, k, v) == dict' = [dict EXCEPT ![s][k] = v]

Next == \E s \in Sections, k \in Keys, v \in Values : Set(s, k, v)

Spec == Init /\ [][Next]_dict
=============================================================================
