------------------------------ MODULE MCPipeline ------------------------------
(* Small instances of Pipeline for TLC: one ordinary tool call, or one special *)
(* one, next to text, reasoning and native items.                              *)
EXTENDS Pipeline

Config(d, s, r, special) == [dialect |-> d, strict |-> s, wantsReasoning |-> r, special |-> special]

\* Every dialect, both modes, a request that asks for reasoning, special calls.
SomeConfigs ==
    {Config("openai", FALSE, TRUE, {}), Config("anthropic", TRUE, FALSE, Tools),
     Config("responses", FALSE, FALSE, {})}
===============================================================================
