-------------------------------- MODULE Maps --------------------------------
(***************************************************************************)
(* `map[key] = value' on a function, which a hash in Redis and the maps of *)
(* the handler have in common: the key is new or its value is replaced.    *)
(***************************************************************************)

Assign(map, key, value) ==
  [k \in {key} \cup DOMAIN map |-> IF k = key THEN value ELSE map[k]]
=============================================================================
