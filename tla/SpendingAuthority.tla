-------------------------- MODULE SpendingAuthority --------------------------
(***************************************************************************)
(* What the registry promises a user who signs mandates, with no word on   *)
(* sequence numbers, pools or prices: money leaves only under a grant, in  *)
(* strictly growing totals that never pass its limit, while the grant has  *)
(* neither expired nor been withdrawn.  One step may draw on several       *)
(* grants, which is what a pool's capture does.                            *)
(***************************************************************************)
EXTENDS Integers

CONSTANTS
    Mandates,
    Limits,      \* the amounts a user may sign for
    Instants     \* the expiries a user may sign for

VARIABLES
    clock,
    grant,       \* grant[m]: the limit and the expiry the user signed
    paid,        \* paid[m]: the money moved under m so far
    withdrawn    \* the mandates whose consent is withdrawn

authorityVars == <<clock, grant, paid, withdrawn>>

Init == /\ clock = 0
        /\ grant = [m \in {} |-> 0]
        /\ paid = [m \in {} |-> 0]
        /\ withdrawn = {}

Pass == /\ clock' > clock
        /\ UNCHANGED <<grant, paid, withdrawn>>

Grant == \E m \in Mandates \ DOMAIN grant, l \in Limits, e \in Instants :
            /\ l > 0
            /\ e > clock
            /\ grant' = [x \in DOMAIN grant \cup {m} |->
                            IF x = m THEN [limit |-> l, expiry |-> e] ELSE grant[x]]
            /\ paid' = [x \in DOMAIN paid \cup {m} |-> IF x = m THEN 0 ELSE paid[x]]
            /\ UNCHANGED <<clock, withdrawn>>

Withdraw == \E m \in DOMAIN grant :
            /\ withdrawn' = withdrawn \cup {m}
            /\ UNCHANGED <<clock, grant, paid>>

Draw == /\ paid' = [m \in DOMAIN paid |-> paid'[m]]
        /\ \A m \in DOMAIN paid : paid'[m] # paid[m] =>
              /\ m \notin withdrawn
              /\ clock < grant[m].expiry
              /\ paid[m] < paid'[m]
              /\ paid'[m] <= grant[m].limit
        /\ UNCHANGED <<clock, grant, withdrawn>>

Next == Pass \/ Grant \/ Withdraw \/ Draw

Spec == Init /\ [][Next]_authorityVars
=============================================================================
