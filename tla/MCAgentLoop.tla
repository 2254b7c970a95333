---------------------------- MODULE MCAgentLoop ----------------------------
(* A small instance of AgentLoop for TLC.                                   *)
EXTENDS AgentLoop

CONSTANTS m1, m2, s1, s2, t1, t2

\* Text, a signature fragment, a signed block, a tool block with its call, a
\* malformed call, and the stop reasons.
MCEvent ==
    {[kind |-> "text"], [kind |-> "sign"],
     [kind |-> "block", index |-> 0, content |-> "signed"],
     [kind |-> "block", index |-> 1, content |-> t1],
     [kind |-> "call", id |-> t1, bad |-> FALSE],
     [kind |-> "call", id |-> t2, bad |-> TRUE],
     [kind |-> "end", stop |-> "tool_use"],
     [kind |-> "end", stop |-> "end_turn"],
     [kind |-> "end", stop |-> "other"]}

\* A stored conversation with a signed turn that used a tool.
MCHistory ==
    {<<Plain, [uses |-> <<t1>>, results |-> <<>>, signed |-> TRUE],
       [Plain EXCEPT !.results = <<t1>>]>>}
=============================================================================
