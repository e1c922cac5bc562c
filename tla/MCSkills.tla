------------------------------ MODULE MCSkills ------------------------------
(* Two calls, of a command with one permit between them, or of a command, a   *)
(* file tool and an MCP tool with a permit each.                              *)
EXTENDS Skills

MCSetups ==
    {[permits |-> 1, offered |-> {"run_command"}],
     [permits |-> 2, offered |-> {"run_command", "read_file", "mcp_tool"}]}
=============================================================================
