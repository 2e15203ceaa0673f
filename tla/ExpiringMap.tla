---------------------------- MODULE ExpiringMap ----------------------------
(***************************************************************************)
(* What backend/dict.h promises: a map from keys to values whose entries    *)
(* may have a deadline.  One that is past its deadline is not returned any  *)
(* more, and is dropped at the latest when it is next asked for.            *)
(***************************************************************************)
CONSTANTS Keys, Vals, None

VARIABLES
    map,    \* the entries [key, val, expire], one for each key at most
    ret     \* what the last call returned

vars == <<map, ret>>

Init == map = {} /\ ret = None

Of(k) == {e \in map : e.key = k}
Past == {e \in map : e.expire = "past"}

\* dict_put
Put(k, v, x) ==
    /\ ret' = None
    /\ map' = (map \ Of(k)) \cup {[key |-> k, val |-> v, expire |-> x]}

\* What a read of k finds, which is all that is left of it.
Read(k, field, missing) ==
    /\ map' = map \ (Of(k) \cap Past)
    /\ IF Of(k) \subseteq Past THEN ret' = missing
       ELSE \E e \in Of(k) : ret' = e[field]

\* dict_get
Get(k) == Read(k, "val", None)

\* dict_get_expiry: no entry and no deadline are the same answer.
GetExpiry(k) == Read(k, "expire", "never")

\* dict_set_expiry
SetExpiry(k, x) ==
    /\ ret' = IF Of(k) = {} THEN None ELSE "set"
    /\ map' = (map \ Of(k)) \cup {[e EXCEPT !.expire = x] : e \in Of(k)}

\* dict_delete
Delete(k) == ret' = None /\ map' = map \ Of(k)

\* dict_clear
Clear == ret' = None /\ map' = {}

\* dict_active_expire
ActiveExpire == ret' = None /\ map' \subseteq map /\ map \ map' \subseteq Past

\* A deadline passes.
Lapse(k) ==
    /\ UNCHANGED ret
    /\ \E e \in Of(k) :
        /\ e.expire = "later"
        /\ map' = (map \ {e}) \cup {[e EXCEPT !.expire = "past"]}

Next ==
    \/ Clear \/ ActiveExpire
    \/ \E k \in Keys : Get(k) \/ GetExpiry(k) \/ Delete(k) \/ Lapse(k)
    \/ \E k \in Keys, x \in {"never", "later"} :
        SetExpiry(k, x) \/ \E v \in Vals : Put(k, v, x)

Spec == Init /\ [][Next]_vars
=============================================================================
