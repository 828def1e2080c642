-------------------------------- MODULE Maps --------------------------------
(***************************************************************************)
(* std::map and std::unordered_map as functions: the keys are the domain.  *)
(***************************************************************************)

Empty == [k \in {} |-> k]

(* m[k] = v                                                                *)
Put(m, k, v) == [x \in DOMAIN m \cup {k} |-> IF x = k THEN v ELSE m[x]]

(* m.erase(k)                                                              *)
Drop(m, k) == [x \in DOMAIN m \ {k} |-> m[x]]

(* What m[k] reads of a map of numbers: an absent key is made, with zero.  *)
CountAt(m, k) == IF k \in DOMAIN m THEN m[k] ELSE 0

(* m maps keys of K to values of V.                                        *)
IsMap(m, K, V) == DOMAIN m \subseteq K /\ m \in [DOMAIN m -> V]

=============================================================================
