------------------------------ MODULE MCRouter ------------------------------
(* Router for TLC: a round-robin route with a rollout of one of its          *)
(* providers, and a route with regions; "gone" and "cohere" do not make it   *)
(* into the registry.                                                        *)
EXTENDS Router

MCProviders ==
    {[name |-> "p1", type |-> "openai", enabled |-> TRUE],
     [name |-> "p2", type |-> "ollama", enabled |-> TRUE],
     [name |-> "gone", type |-> "openai", enabled |-> FALSE],
     [name |-> "cohere", type |-> "cohere", enabled |-> TRUE]}

MCRoutes ==
    <<[models |-> {"m1"}, providers |-> <<"p1", "gone", "p2">>, rr |-> TRUE,
       regions |-> <<>>],
      [models |-> {"m2"}, providers |-> <<>>, rr |-> FALSE,
       regions |-> <<[providers |-> <<"cohere", "p2">>, rr |-> FALSE],
                     [providers |-> <<"p1", "p2">>, rr |-> FALSE]>>]>>

MCRollouts ==
    [m \in Models |->
        IF m = "m1"
        THEN {[canary |-> "p2", baseline |-> <<"p1", "gone", "p2">>, pct |-> 50]}
        ELSE {}]
=============================================================================
