----------------------------- MODULE ArmLease ------------------------------
(***************************************************************************)
(* What remote operators are promised about arms, whatever the component   *)
(* that keeps them: at most one arm is live, every arm is identified by     *)
(* the jti of the grant it came from, and a jti that was ever live is      *)
(* never live again. A new arm may replace the live one; an arm may end at *)
(* any time.                                                               *)
(***************************************************************************)
CONSTANT Jti

VARIABLES
    live,     \* the jti of the live arm: a set of at most one element
    ended     \* jtis whose arm is over

Init == live = {} /\ ended = {}

Lease(j) ==
    /\ j \notin live \union ended
    /\ live' = {j}
    /\ ended' = ended \union live

End ==
    /\ live # {}
    /\ live' = {}
    /\ ended' = ended \union live

Next == End \/ \E j \in Jti : Lease(j)

Spec == Init /\ [][Next]_<<live, ended>>
=============================================================================
