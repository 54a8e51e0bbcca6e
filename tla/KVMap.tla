------------------------------- MODULE KVMap --------------------------------
(***************************************************************************)
(* What the header utils/st_ht.h promises its users: a finite map.  The    *)
(* symbol tables, export tables, module table and variable tables of the   *)
(* compiler are written against this and nothing else.                     *)
(***************************************************************************)
CONSTANTS Key, Value, NOT_FOUND

VARIABLES
  dict,   \* what each key is bound to, NOT_FOUND when it is not bound
  ret     \* what the last ST_ht_get or ST_ht_delete returned

MapInit == /\ dict = [k \in Key |-> NOT_FOUND]
           /\ ret = NOT_FOUND

MapSet(k, v) == /\ dict' = [dict EXCEPT ![k] = v]
                /\ UNCHANGED ret

MapGet(k) == /\ ret' = dict[k]
             /\ UNCHANGED dict

MapDelete(k) == /\ ret' = dict[k]
                /\ dict' = [dict EXCEPT ![k] = NOT_FOUND]

MapNext == \E k \in Key : \/ \E v \in Value : MapSet(k, v)
                          \/ MapGet(k)
                          \/ MapDelete(k)

MapSpec == MapInit /\ [][MapNext]_<<dict, ret>>
=============================================================================
