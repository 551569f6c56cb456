----------------------------- MODULE MCSession -----------------------------
(***************************************************************************)
(* Instances of Session for TLC: text queries only, so no cache keys and   *)
(* no statement handles.                                                   *)
(***************************************************************************)
EXTENDS Session, TLC

CONSTANTS use1, use2, d1, d2, w1, w2

MCQueryText == [q \in Queries |-> <<83, 101, 116>>]
MCInitialText == [k \in {} |-> use1]
MCUseQuery == (d1 :> use1) @@ (d2 :> use2)
=============================================================================
