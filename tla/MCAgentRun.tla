----------------------------- MODULE MCAgentRun -----------------------------
(* Small instances of AgentRun. *)
EXTENDS AgentRun

Plan(calls, confirmations, items) ==
    [calls |-> calls, bookkeeping |-> FALSE, terminal |-> FALSE, completion |-> FALSE,
     confirmations |-> confirmations, items |-> items, final |-> FALSE]

MCPlans ==
    {[Plan(0, 0, <<>>) EXCEPT !.final = TRUE],                       \* an answer
     Plan(0, 0, <<>>),                                               \* nothing
     [Plan(1, 0, <<>>) EXCEPT !.completion = TRUE],                  \* one call
     [Plan(1, 0, <<>>) EXCEPT !.terminal = TRUE],                    \* a terminal call
     [Plan(1, 0, <<>>) EXCEPT !.bookkeeping = TRUE, !.final = TRUE], \* bookkeeping and an answer
     Plan(0, 1, <<>>),                                               \* a gated call
     Plan(2, 0, <<"typed", "typed">>),                               \* calls and prompts
     Plan(0, 0, <<"results", "results">>)}                           \* an await-only turn

MCPolicies ==
    {[completion |-> TRUE, limitPlan |-> FALSE, missing |-> "resume"],
     [completion |-> FALSE, limitPlan |-> TRUE, missing |-> "finalize"],
     [completion |-> FALSE, limitPlan |-> FALSE, missing |-> "await"]}
=============================================================================
