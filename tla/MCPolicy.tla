------------------------------ MODULE MCPolicy ------------------------------
(* Policy for TLC: each phase has a WASM plugin among other filters, one     *)
(* that blocks on errors by default and one that allows them.                *)
EXTENDS Policy, TLC

MCPolicies ==
    [ph \in Phases |->
        IF ph = "input"
        THEN <<[type |-> "wasm", action |-> "block", on |-> {"rude"}, onError |-> ""],
               [type |-> "pii", action |-> "warn", on |-> {"private", "rude"},
                onError |-> ""]>>
        ELSE <<[type |-> "pii", action |-> "block", on |-> {"private"}, onError |-> ""],
               [type |-> "wasm", action |-> "log", on |-> {"rude", "private"},
                onError |-> "allow"],
               [type |-> "regex", action |-> "block", on |-> {"rude"}, onError |-> ""]>>]

RequestSymmetry == Permutations(Requests)
=============================================================================
