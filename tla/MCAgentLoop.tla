----------------------------- MODULE MCAgentLoop -----------------------------
(* Small instances of AgentLoop for TLC.                                    *)
EXTENDS AgentLoop

(* A call that may ask the user, followed by one that it may skip.          *)
MCSessionBatches == {<<"serial", "bad">>}

(* A run of safe calls longer than a chunk before a serial one; a call that *)
(* did not parse between two others; two serial calls.                      *)
MCToolBatches == {<<"safe", "safe", "safe", "serial">>, <<"serial", "bad", "safe">>,
                  <<"serial", "serial", "safe">>}
=============================================================================
