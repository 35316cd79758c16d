------------------------- MODULE MCLocalActivities -------------------------
(* LocalActivities for TLC: one activity with every timeout and a retry,   *)
(* whose run may be evicted, or two of other runs that compete for a slot. *)
EXTENDS LocalActivities, TLC

CONSTANTS solo, one, two

AllLAs == {solo, one, two}
SoloOrBoth == {{solo}, {one, two}}
Solo == {solo}
SoloAndOne == {solo, one}
SoloAndTwo == {solo, two}

OneForOne == [la \in LAs |-> IF la = one THEN 1 ELSE 2]
=============================================================================
