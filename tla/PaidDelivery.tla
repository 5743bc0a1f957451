---------------------------- MODULE PaidDelivery ----------------------------
(***************************************************************************)
(* What a merchant's paid route promises, whoever asks and however often:  *)
(* a settlement transaction is bound to one proof for ever, the paid work  *)
(* is begun at most once for it, and whoever presents the proof is shown   *)
(* one and the same answer.                                                *)
(***************************************************************************)
CONSTANTS
    Txs,        \* settlement transactions
    Proofs,     \* payment proofs
    Results,    \* what the paid work may produce
    Terminal,   \* the answer of work that failed or was interrupted
    Nothing     \* no proof, no answer

VARIABLES
    bound,   \* bound[t]: the proof t was redeemed with, or Nothing
    begun,   \* transactions whose work was begun
    answer,  \* answer[t]: the answer given for t, or Nothing
    shown    \* <<proof, answer>> pairs that left the server

vars == <<bound, begun, answer, shown>>

Init == /\ bound = [t \in Txs |-> Nothing]
        /\ begun = {}
        /\ answer = [t \in Txs |-> Nothing]
        /\ shown = {}

Bind(t, p) == /\ bound[t] = Nothing
              /\ bound' = [bound EXCEPT ![t] = p]
              /\ UNCHANGED <<begun, answer, shown>>

Begin(t) == /\ bound[t] # Nothing
            /\ answer[t] = Nothing
            /\ t \notin begun
            /\ begun' = begun \cup {t}
            /\ UNCHANGED <<bound, answer, shown>>

Answer(t, a) == /\ bound[t] # Nothing
                /\ answer[t] = Nothing
                /\ a # Terminal => t \in begun
                /\ answer' = [answer EXCEPT ![t] = a]
                /\ UNCHANGED <<bound, begun, shown>>

Show(t) == /\ answer[t] # Nothing
           /\ shown' = shown \cup {<<bound[t], answer[t]>>}
           /\ UNCHANGED <<bound, begun, answer>>

Next == \E t \in Txs : \/ \E p \in Proofs : Bind(t, p)
                       \/ Begin(t)
                       \/ \E a \in Results \cup {Terminal} : Answer(t, a)
                       \/ Show(t)

Spec == Init /\ [][Next]_vars
=============================================================================
