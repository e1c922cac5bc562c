---------------------------- MODULE MCAgenticTask ----------------------------
(* Instances of AgenticTask small enough for TLC. *)
EXTENDS AgenticTask

CONSTANTS text1, text2, text3, text4

\* Every way a turn can go, and tool phases that meet two gates.
AllPlans == { <<>>, <<"task_complete">>, <<"ask_mentor">>,
              <<"synthetic", "plain">>, <<"gated", "gated">>, <<"inline", "gated">> }

ReportedWords == {"success", "cancelled", "mostly"}
FourTexts  == {text1, text2, text3, text4}
=============================================================================
