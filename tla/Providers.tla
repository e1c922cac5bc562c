----------------------------- MODULE Providers ------------------------------
(***************************************************************************)
(* The language model providers as the router sees them: which one a set   *)
(* of keys selects (crates/orion-api, orion-router) and how a provider     *)
(* turns the messages it is given, and the reply or the stream it gets     *)
(* back, into the program's own types (crates/orion-capabilities).         *)
(*                                                                         *)
(* A reply is a record [text, calls]; a text is a model value or a         *)
(* sequence of them, a tool call a name.  The HTTP services are external.  *)
(***************************************************************************)
EXTENDS Naturals, FiniteSets, SequencesExt

Failure == [failed |-> TRUE]

------------------------------------------------------------------------------
(* Selection by key. *)

NormalName(p) ==
  CASE p = "pplx" -> "perplexity"
    [] p = "grok" -> "xai"
    [] p = "gemini" -> "google"
    [] OTHER -> p

CouncilNames == {"openai", "anthropic", "perplexity", "xai", "google"}
Preferred == <<"anthropic", "openai", "google", "xai", "perplexity">>

\* The Ego: the preferred provider if it has a key, else Anthropic, else
\* OpenAI, else any key there is (the keys come out of a hash map).
ResolveEgo(keys, pref) ==
  IF NormalName(pref) \in keys THEN {NormalName(pref)}
  ELSE IF "anthropic" \in keys THEN {"anthropic"}
  ELSE IF "openai" \in keys THEN {"openai"}
  ELSE IF keys # {} THEN keys ELSE {"none"}

\* The Superego: its own provider if that has a key, else the Ego's.
ResolveSuperego(keys, trinity, ego) ==
  IF NormalName(trinity) \in keys THEN NormalName(trinity) ELSE ego

\* The council: the preferred provider, the others in a fixed order, then
\* keys stored under another name; three at most.
PlaceOf(p, first) == IF p = first THEN 0 ELSE CHOOSE i \in DOMAIN Preferred : Preferred[i] = p
FirstThree(s) == SubSeq(s, 1, IF Len(s) > 3 THEN 3 ELSE Len(s))

CouncilsOf(keys, pref) ==
  LET Before(p, q) == PlaceOf(p, NormalName(pref)) < PlaceOf(q, NormalName(pref))
      base == {s \in SetToSeqs(CouncilNames \cap keys) :
                 \A i \in 1 .. Len(s) - 1 : Before(s[i], s[i + 1])}
      more == SetToSeqs(({NormalName(k) : k \in keys} \cap CouncilNames) \ keys)
  IN  {FirstThree(b \o t) : b \in base, t \in more}

\* The client a name stands for; an unknown name is taken for OpenAI.
ClientOf(name) ==
  CASE name = "none" -> "none"
    [] name = "anthropic" -> "anthropic"
    [] NormalName(name) \in {"perplexity", "xai", "google"} -> "compatible"
    [] OTHER -> "openai"

\* Without an address for the local server the Id is a stub.
IdClient(local) == IF local THEN "local" ELSE "stub"

\* Clients whose requests end after 120 s at the latest.  The OpenAI client
\* sets no limit when it does not stream.
Limited == {"anthropic", "compatible", "local", "stub"}

------------------------------------------------------------------------------
(* Messages on the way out.  Anthropic wants the system text apart from    *)
(* the conversation and, in it, no role twice in a row.                    *)

AnthropicRole(m) == IF m.role = "assistant" THEN "assistant" ELSE "user"

MergeConsecutiveRoles(msgs) ==
  LET merged[n \in 0 .. Len(msgs)] ==
        IF n = 0 THEN << >>
        ELSE LET out == merged[n - 1]
                 m == msgs[n]
             IN  IF n > 1 /\ msgs[n - 1].role = m.role
                 THEN [out EXCEPT ![Len(out)].blocks = @ \o m.blocks]
                 ELSE Append(out, m)
  IN  merged[Len(msgs)]

\* The messages of the conversation, without the system text.
Talk(msgs) ==
  FlattenSeq([i \in DOMAIN msgs |-> IF msgs[i].role = "system" THEN << >> ELSE <<msgs[i]>>])

ConvertMessages(msgs) ==
  LET talk == Talk(msgs)
  IN  MergeConsecutiveRoles(
        [i \in DOMAIN talk |-> [role |-> AnthropicRole(talk[i]), blocks |-> <<talk[i]>>]])

------------------------------------------------------------------------------
(* Replies on the way back. *)

\* Anthropic: every text block and every tool_use block, each in its order.
AnthropicReply(blocks) ==
  LET Of(kind) == SelectSeq(blocks, LAMBDA b: b.kind = kind)
      Values(s) == [i \in DOMAIN s |-> s[i].value]
  IN  [text |-> Values(Of("text")), calls |-> Values(Of("call"))]

\* The others: text and calls of the first choice; without a choice the
\* reply is empty.
ChatReplies(blocks) == {AnthropicReply(blocks), AnthropicReply(<< >>)}

RepliesOf(client, blocks) ==
  IF client = "anthropic" THEN {AnthropicReply(blocks)} ELSE ChatReplies(blocks)

\* A stream so far: text pieces, tool calls begun by index, calls closed.
NoStream == [text |-> << >>, open |-> << >>, calls |-> << >>]

Without(f, i) == [j \in DOMAIN f \ {i} |-> f[j]]

\* An Anthropic call counts once its block is closed.
AnthropicEvent(s, e) ==
  CASE e.kind = "text" -> [s EXCEPT !.text = Append(@, e.value)]
    [] e.kind = "call" -> [s EXCEPT !.open = [j \in DOMAIN @ \cup {e.index} |->
                             IF j = e.index THEN e.value ELSE @[j]]]
    [] e.kind = "stop" /\ e.index \in DOMAIN s.open ->
         [s EXCEPT !.calls = Append(@, s.open[e.index]),
                   !.open = Without(@, e.index)]
    [] OTHER -> s

\* The other clients gather the pieces of a call under its index.
ChatEvent(s, e) ==
  CASE e.kind = "text" -> [s EXCEPT !.text = Append(@, e.value)]
    [] e.kind = "call" -> [s EXCEPT !.open = [j \in DOMAIN @ \cup {e.index} |->
                             IF j = e.index THEN e.value ELSE @[j]]]
    [] OTHER -> s

StreamEvent(client, s, e) ==
  IF client = "anthropic" THEN AnthropicEvent(s, e) ELSE ChatEvent(s, e)

\* The calls of a finished stream.  The gathered ones leave a hash map, in
\* any order.
StreamedCalls(client, s) ==
  IF client = "anthropic" THEN {s.calls}
  ELSE {[i \in DOMAIN p |-> s.open[p[i]]] : p \in SetToSeqs(DOMAIN s.open)}

StreamedReplies(client, s) ==
  {[text |-> s.text, calls |-> c] : c \in StreamedCalls(client, s)}

------------------------------------------------------------------------------
(* Tool calls of a reply: the structured ones, then those written into the *)
(* text that are not among them.                                           *)

ExtractToolCalls(reply, written) ==
  LET New(i) == written[i] \notin Range(reply.calls)
                  /\ \A j \in 1 .. i - 1 : written[j] # written[i]
      kept == SelectSeq([i \in DOMAIN written |-> <<written[i], New(i)>>], LAMBDA t: t[2])
  IN  reply.calls \o [i \in DOMAIN kept |-> kept[i][1]]

\* The tools offered to a chat or to a run beside the skills' own.
CredentialTools == {"store_provider_key", "store_vault_secret", "register_email_account"}
AgenticTools == {"task_complete", "ask_mentor", "register_mcp_skill", "manage_proxy"}

ToolDefinitions(who, ready) ==
  ready \cup CredentialTools
    \cup (IF who = "loop" THEN AgenticTools ELSE {})
    \cup (IF who = "chat" THEN {"launch_agentic_task"} ELSE {})
=============================================================================
