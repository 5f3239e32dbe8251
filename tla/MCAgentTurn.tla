---------------------------- MODULE MCAgentTurn ----------------------------
EXTENDS AgentTurn

\* A browser's request for each way through the orchestrator, one a rename that
\* the router takes for a question about the timers; and a request that only
\* chats, while the first may wipe the memory.
MCMessages ==
    [web |-> {<<"weather">>, <<"yes">>, <<"clear", "memory">>, <<"cancel", "timer", "3">>,
              <<"health", "check">>, <<"who are you">>, <<"help">>,
              <<"rename", "timer", "3", "to", "checklist">>},
     chat |-> {<<"weather">>}]
=============================================================================
