---------------------------- MODULE MCModelCalls ----------------------------
(* ModelCalls with callers of every kind, eight answers and short streams. *)
EXTENDS ModelCalls

\* A caller with the Anthropic key, a local server and no second check.
Plain(who) == [who |-> who, tier |-> "fast", keys |-> {"anthropic"}, pref |-> "none",
               trinity |-> "none", local |-> TRUE, l2 |-> "Off", idPrimary |-> FALSE, turns |-> 2]

MCSetups ==
  {[Plain("loop") EXCEPT !.turns = 4],
   [Plain("loop") EXCEPT !.tier = "pro", !.keys = {"anthropic", "gemini"}, !.pref = "gemini",
                         !.turns = 3],
   [Plain("loop") EXCEPT !.keys = {}, !.local = FALSE],
   [Plain("chat") EXCEPT !.tier = "pro", !.keys = {"anthropic", "openai", "xai", "google"},
                         !.pref = "grok"],
   [Plain("chat") EXCEPT !.keys = {"xai"}, !.l2 = "Enforce", !.trinity = "xai"],
   [Plain("birth") EXCEPT !.l2 = "Advisory", !.idPrimary = TRUE, !.keys = {"openai"}],
   [Plain("birth") EXCEPT !.keys = {}],
   Plain("job"),
   [Plain("job") EXCEPT !.local = FALSE],
   Plain("client"),
   [Plain("client") EXCEPT !.keys = {"custom"}, !.l2 = "Enforce"],
   [Plain("client") EXCEPT !.keys = {"perplexity"}, !.idPrimary = TRUE]}

MCMessages == {{"instruction"}, {"jailbreak"}}

Text(w) == [kind |-> "text", value |-> w]
Use(t) == [kind |-> "call", value |-> t]

MCAnswers ==
  {[blocks |-> <<Use("skill_tool")>>, written |-> << >>],
   [blocks |-> <<Text("w")>>, written |-> <<"skill_tool">>],
   [blocks |-> <<Text("a"), Use("manage_proxy"), Use("skill_tool")>>, written |-> << >>],
   [blocks |-> <<Use("task_complete")>>, written |-> << >>],
   [blocks |-> <<Text("a")>>, written |-> << >>],
   [blocks |-> <<Text("b")>>, written |-> << >>],
   [blocks |-> <<Text("d"), Use("ask_mentor")>>, written |-> << >>],
   [blocks |-> <<Text("c")>>, written |-> << >>]}

MCEvents ==
  {[kind |-> "text", index |-> 0, value |-> "t"],
   [kind |-> "call", index |-> 0, value |-> "skill_tool"],
   [kind |-> "call", index |-> 1, value |-> "other_tool"],
   [kind |-> "stop", index |-> 0, value |-> ""]}
=============================================================================
