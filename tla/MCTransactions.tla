--------------------------- MODULE MCTransactions ---------------------------
(***************************************************************************)
(* A small instance of Transactions: a root r, payloads a and b, the       *)
(* digest e of {} as the resolution of a join of a and b only.             *)
(***************************************************************************)
EXTENDS Transactions

CONSTANTS r, a, b, e

MCPayload == {a, b, e}
MCMergedHash(x, P) == IF P = {} THEN x ELSE <<x, P>>
MCParentSets == {{r, a}, {b}}
MCHash == MCPayload \cup {r} \cup {<<x, P>> : x \in {a, e}, P \in MCParentSets}
=============================================================================
