----------------------------- MODULE NatBinding -----------------------------
(***************************************************************************)
(* What the session table promises its callers: a flow is bound to one     *)
(* egress the first time it is registered, and the binding is final.       *)
(***************************************************************************)
CONSTANTS Keys,      \* flow keys that may be bound
          Egresses   \* egress a flow may be bound to

VARIABLE bound       \* partial function Keys -> Egresses

Init == bound = [k \in {} |-> CHOOSE e \in Egresses : TRUE]

Bind(k, e) ==
    /\ k \notin DOMAIN bound
    /\ bound' = [x \in DOMAIN bound \cup {k} |-> IF x = k THEN e ELSE bound[x]]

Next == \E k \in Keys, e \in Egresses : Bind(k, e)

Spec == Init /\ [][Next]_bound
=============================================================================
