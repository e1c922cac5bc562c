----------------------------- MODULE ModelCalls -----------------------------
(***************************************************************************)
(* From a turn to an answer: the Id/Ego router (crates/orion-router/src/   *)
(* router.rs), the council (council.rs) and the callers in crates/orion-   *)
(* api and orion-birth that pick one of them: an agentic run, an           *)
(* operational chat, a birth chat, a job's Id check, and a client of the   *)
(* router's streaming functions, which the server itself does not call.    *)
(*                                                                         *)
(* One caller makes one call after the other.  Every await on a provider   *)
(* is a value of call.pc; the draft and critique tasks of a council run    *)
(* beside the caller and outlive it when the council's time limit, or a    *)
(* client that goes away, drops the rest.  For an agentic run the module   *)
(* also keeps the conversation that each turn trims and sends and the two  *)
(* breakers that stop a run; cancelling one is AgenticTask's.              *)
(***************************************************************************)
EXTENDS Providers, Superego

CONSTANTS
  Setups,     \* callers with their configuration, see SetupOK
  Messages,   \* what the last user message of a call may contain
  Answers,    \* [blocks, written]: what a provider may answer
  Events,     \* stream events
  Sizes,      \* sizes of the tool results of a turn
  Budget,     \* the conversation a turn may send
  MaxEvents   \* length of a stream

SetupOK(s) ==
  /\ s.who \in {"loop", "chat", "birth", "job", "client"}
  /\ s.tier \in {"fast", "pro"}            \* pro asks the council first
  /\ s.local \in BOOLEAN                   \* a local server is configured
  /\ s.l2 \in {"Off", "Advisory", "Enforce"}
  /\ s.idPrimary \in BOOLEAN               \* routing mode
  /\ s.turns \in Nat                       \* calls it makes at most

ASSUME SetupsAssumption == \A s \in Setups : SetupOK(s)
ASSUME BoundsAssumption == {Budget, MaxEvents} \subseteq Nat /\ Sizes \subseteq Nat

VARIABLES
  setup,    \* the caller: constant along a behaviour
  ego,      \* the provider its keys select, "none" without a key
  members,  \* the council its keys select
  call,     \* the call in progress
  last,     \* what the call before it came to
  council,  \* the council in progress
  strays,   \* tasks of abandoned councils that still call a provider
  dropped,  \* history: councils dropped before they were done
  loop      \* the agentic run around the calls

callsVars == <<setup, ego, members, call, last, council, strays, dropped, loop>>

NoCall == [op |-> "none", pc |-> "idle", msg |-> {}, failed |-> {}, shown |-> << >>,
           stream |-> NoStream, heard |-> 0]
NoResult == [op |-> "none", ok |-> TRUE, by |-> "none", reply |-> << >>,
             failed |-> {}, shown |-> << >>, msg |-> {}]
NoCouncil == [draft |-> << >>, crit |-> << >>, score |-> << >>, ranked |-> << >>, phase |-> "off"]

ASSUME AnswersAssumption == \A a \in Answers : DOMAIN a = {"blocks", "written"}

Client(p) == IF p = "ego" THEN ClientOf(ego) ELSE IdClient(setup.local)
HasEgo == ego # "none"
SuperegoName == ResolveSuperego(setup.keys, setup.trinity, ego)
HasSuperego == SuperegoName # "none"
Streaming(op) == op \in {"stream", "stream_tools"}
\* The operations that ask the Id when the Ego fails.
FallsBack(op) == op \in {"tools", "stream_tools", "heartbeat"} \/ (op = "route" /\ ~setup.idPrimary)

\* A message of the conversation; a new run has the prompt and the goal.
Entry(role, kind, n) == [role |-> role, kind |-> kind, size |-> n]
NewLoop == [turn |-> 0, streak |-> 0, seen |-> {}, heard |-> {}, kinds |-> << >>,
            hist |-> <<Entry("system", "prompt", 1), Entry("user", "goal", 1)>>,
            sent |-> << >>, newest |-> Entry("user", "goal", 1), stop |-> "no"]

CallsInit ==
  /\ setup \in Setups
  /\ ego \in (IF setup.who = "job" THEN {"none"} ELSE ResolveEgo(setup.keys, setup.pref))
  /\ members \in CouncilsOf(setup.keys, setup.pref)
  /\ call = NoCall /\ last = NoResult /\ council = NoCouncil
  /\ strays = 0 /\ dropped = 0 /\ loop = NewLoop

------------------------------------------------------------------------------
(* The router. *)

Finish(ok, by, reply, shown) ==
  /\ last' = [op |-> call.op, ok |-> ok, by |-> by, reply |-> reply,
              failed |-> call.failed, shown |-> shown, msg |-> call.msg]
  /\ call' = NoCall

\* Text and tool calls of a reply, whatever produced it.
Words(words, by) == <<[by |-> by, text |-> words]>>
Done == <<[by |-> "done", text |-> << >>]>>

\* Where a call goes once it may be routed.
Routed(op) ==
  IF op = "id_only" THEN "id"
  ELSE IF op \in {"route", "stream"} /\ setup.idPrimary THEN "classify"
  ELSE IF HasEgo THEN "ego" ELSE "id"

Start(op, msg, pc) == call' = [NoCall EXCEPT !.op = op, !.msg = msg, !.pc = pc]

\* The precheck looks at the last user message; id_only and the heartbeat
\* have none, and an empty message is not checked.
Checked(op, msg) == op \notin {"id_only", "heartbeat"} /\ "empty" \notin msg
Route(op, msg) ==
  Start(op, msg, IF Checked(op, msg) THEN "check"
                 ELSE IF op = "heartbeat" THEN "id" ELSE Routed(op))

Denial(code) == [text |-> <<code>>, written |-> << >>, calls |-> << >>]

Deny(code) ==
  Finish(TRUE, "superego", Denial(code),
         IF Streaming(call.op) THEN Words(<<code>>, "superego") \o Done ELSE << >>)

RunSuperegoPrecheck ==
  /\ call.pc = "check"
  /\ LET code == CheckUserMessage(call.msg)
     IN  IF code # "ALLOW" THEN Deny(code)
         ELSE /\ call' = [call EXCEPT !.pc =
                   IF AsksL2(setup.l2, HasSuperego, call.msg) THEN "safety" ELSE Routed(call.op)]
              /\ UNCHANGED last
  /\ UNCHANGED <<setup, ego, members, council, strays, dropped, loop>>

SuperegoAnswers ==
  /\ call.pc = "safety"
  /\ \E reply \in L2Replies :
       IF L2Verdict(setup.l2, reply) \in Codes THEN Deny(reply)
       ELSE call' = [call EXCEPT !.pc = Routed(call.op)] /\ UNCHANGED last
  /\ UNCHANGED <<setup, ego, members, council, strays, dropped, loop>>

\* Id-primary routing asks the Id which of the two is to answer.
Classify ==
  /\ call.pc = "classify"
  /\ \/ \E complex \in BOOLEAN :
          /\ call' = [call EXCEPT !.pc = IF complex /\ HasEgo THEN "ego" ELSE "id"]
          /\ UNCHANGED last
     \/ /\ setup.local       \* the stub always classifies
        /\ Finish(FALSE, "classify", Failure, << >>)
  /\ UNCHANGED <<setup, ego, members, council, strays, dropped, loop>>

Offered == ToolDefinitions(setup.who, {"skill_tool"})

\* A provider answers a call that is not streamed.  The stub never answers.
Allowed == IF call.op \in {"tools", "stream_tools"} THEN Offered ELSE {}
Replies(client) ==
  UNION {{[text |-> r.text, calls |-> r.calls, written |-> a.written] :
            r \in {r \in RepliesOf(client, a.blocks) : Range(r.calls) \subseteq Allowed}} :
          a \in {a \in Answers : client # "stub"}}

\* The call waits for provider p; the Id may be asked once more at the end.
Asking(p) == call.pc = p \/ (p = "id" /\ call.pc = "id_last")

Answered(p) ==
  /\ Asking(p)
  /\ ~Streaming(call.op) \/ call.pc = "id_last"
  /\ IF call.op = "heartbeat"
     THEN Finish(TRUE, p, Failure, << >>)
     ELSE \E a \in Replies(Client(p)) :
            Finish(TRUE, p, a,
                   IF Streaming(call.op) THEN call.shown \o Words(a.text, p) \o Done ELSE << >>)
  /\ UNCHANGED <<setup, ego, members, council, strays, dropped, loop>>

\* Mutants of Next1: a stream has no fallback; the two ask each other forever.
NextNotStreamed(p) ==
  CASE p = "ego" /\ call.op \in {"route", "tools"} -> "id"
    [] call.op = "heartbeat" /\ p = "id" /\ HasEgo -> "ego"
    [] OTHER -> "error"

NextRetry(p) ==
  CASE p = "id" /\ call.op \in {"tools", "heartbeat"} /\ HasEgo -> "ego"
    [] p = "id" /\ call.op = "stream_tools" /\ "ego" \in call.failed /\ call.pc = "id" -> "id_last"
    [] p = "ego" /\ FallsBack(call.op) -> "id"
    [] OTHER -> "error"

\* Where a call goes after provider p failed: to the Id after the Ego, to
\* the Id without streaming after both have streamed in vain, or nowhere.
\* The heartbeat asks the other way round.
Next1(p) ==
  IF call.op = "heartbeat" THEN (IF p = "id" /\ HasEgo THEN "ego" ELSE "error")
  ELSE IF p = "ego" /\ FallsBack(call.op) THEN "id"
  ELSE IF p = "id" /\ call.op = "stream_tools" /\ "ego" \in call.failed /\ call.pc = "id"
       THEN "id_last"
  ELSE "error"

\* Mutant of HeldBack: the Ego's words are shown as they come.
HeldNever(p) == FALSE

\* The Ego's stream is held back until it is complete; the Id's is shown as
\* it comes.
HeldBack(p) == p = "ego" /\ call.op = "stream_tools"

Failed(p) ==
  /\ Asking(p)
  /\ call.op = "heartbeat" /\ p = "id" => setup.local
  /\ LET now == [call EXCEPT !.failed = @ \cup {p}, !.stream = NoStream, !.heard = 0]
     IN  IF Next1(p) = "error"
         THEN /\ call' = NoCall
              /\ last' = [NoResult EXCEPT !.op = call.op, !.ok = FALSE, !.by = p, !.reply = Failure,
                            !.failed = now.failed, !.shown = call.shown, !.msg = call.msg]
         ELSE call' = [now EXCEPT !.pc = Next1(p)] /\ UNCHANGED last
  /\ UNCHANGED <<setup, ego, members, council, strays, dropped, loop>>

\* One server-sent event arrives.
StreamChunk(p) ==
  /\ call.pc = p /\ Streaming(call.op) /\ Client(p) # "stub"
  /\ call.heard < MaxEvents
  /\ \E e \in Events :
       call' = [call EXCEPT
         !.heard = @ + 1,
         !.stream = StreamEvent(Client(p), @, e),
         !.shown = IF e.kind = "text" /\ ~HeldBack(p) THEN @ \o Words(<<e.value>>, p) ELSE @]
  /\ UNCHANGED <<setup, ego, members, last, council, strays, dropped, loop>>

\* The connection closes.  A stream cut short cannot be told from a whole
\* one: what has arrived is the answer.
StreamEnds(p) ==
  /\ call.pc = p /\ Streaming(call.op) /\ Client(p) # "stub"
  /\ LET s == call.stream
         held == [i \in DOMAIN s.text |-> [by |-> p, text |-> <<s.text[i]>>]]
     IN  \E r \in StreamedReplies(Client(p), s) :
           Finish(TRUE, p, [text |-> r.text, written |-> << >>, calls |-> r.calls],
                  call.shown \o (IF HeldBack(p) THEN held ELSE << >>) \o Done)
  /\ UNCHANGED <<setup, ego, members, council, strays, dropped, loop>>

------------------------------------------------------------------------------
(* The council: every member drafts, the next one reviews, the first one   *)
(* writes the answer.                                                      *)

UsesCouncil == setup.tier = "pro" /\ setup.who \in {"loop", "chat"} /\ Len(members) >= 2

N == Len(members)
Running(tasks) == {i \in DOMAIN tasks : tasks[i] = "running"}
Drafts == {i \in DOMAIN council.draft : council.draft[i] = "ok"}

Convene(msg) ==
  /\ call' = [NoCall EXCEPT !.op = "tools", !.msg = msg, !.pc = "council"]
  /\ council' = [NoCouncil EXCEPT !.phase = "draft", !.draft = [i \in 1 .. N |-> "running"]]

DraftEnds ==
  /\ council.phase = "draft"
  /\ \E i \in Running(council.draft), r \in {"ok", "failed"} :
       council' = [council EXCEPT !.draft[i] = r]
  /\ UNCHANGED <<setup, ego, members, call, last, strays, dropped, loop>>

\* What the caller does when there is no synthesis: the ordinary route.
FallBackToRoute ==
  /\ Route("tools", call.msg)
  /\ council' = NoCouncil

\* Mutant of DraftsJoined: the first failed draft ends the council.
DraftsJoinedEagerly ==
  /\ council.phase = "draft"
  /\ \E i \in DOMAIN council.draft : council.draft[i] = "failed"
  /\ FallBackToRoute
  /\ strays' = strays + Cardinality(Running(council.draft))
  /\ UNCHANGED <<setup, ego, members, last, dropped, loop>>

\* All drafts are awaited, the failed ones skipped.
DraftsJoined ==
  /\ council.phase = "draft" /\ Running(council.draft) = {}
  /\ IF Drafts = {} THEN FallBackToRoute
     ELSE /\ council' = [council EXCEPT !.phase = "critique",
                                        !.crit = [i \in Drafts |-> "running"]]
          /\ UNCHANGED call
  /\ UNCHANGED <<setup, ego, members, last, strays, dropped, loop>>

\* A critique that fails or carries no number counts as 5 of 10.
Scores == {5, 9}
CritiqueEnds ==
  /\ council.phase = "critique"
  /\ \E i \in Running(council.crit), score \in Scores :
       council' = [council EXCEPT !.crit[i] = "ok",
                                  !.score = [j \in DOMAIN @ \cup {i} |-> IF j = i THEN score ELSE @[j]]]
  /\ UNCHANGED <<setup, ego, members, call, last, strays, dropped, loop>>

\* Drafts by score, best first; equal scores keep the members' order.
Better(i, j) == council.score[i] > council.score[j]
                  \/ (council.score[i] = council.score[j] /\ i < j)
Ranking == CHOOSE r \in SetToSeqs(Drafts) : \A k \in 1 .. Len(r) - 1 : Better(r[k], r[k + 1])

CritiquesJoined ==
  /\ council.phase = "critique" /\ Running(council.crit) = {}
  /\ council' = [council EXCEPT !.phase = "synthesis", !.ranked = Ranking]
  /\ UNCHANGED <<setup, ego, members, call, last, strays, dropped, loop>>

\* What a run sends of a conversation.
Sent(h) == IF Client("ego") = "anthropic" THEN ConvertMessages(h) ELSE h
Plan == Entry("user", "plan", 1)

\* A chat takes the synthesis as its answer.  A run sends it after the rest
\* as one more user message, which is not trimmed and not kept; the precheck
\* reads it.
Synthesised ==
  /\ council.phase = "synthesis"
  /\ IF setup.who = "chat"
     THEN \E a \in Replies(ClientOf(members[1])) :
            a.calls = << >> /\ Finish(TRUE, "council", a, << >>) /\ UNCHANGED loop
     ELSE /\ \E plan \in Messages : Route("tools", plan)
          /\ loop' = [loop EXCEPT !.sent = Sent(Append(loop.hist, Plan))]
          /\ UNCHANGED last
  /\ council' = NoCouncil
  /\ UNCHANGED <<setup, ego, members, strays, dropped>>

SynthesisFails ==
  /\ council.phase = "synthesis"
  /\ FallBackToRoute
  /\ UNCHANGED <<setup, ego, members, last, strays, dropped, loop>>

Unfinished == Cardinality(Running(council.draft)) + Cardinality(Running(council.crit))

\* After 90 s the coordinating future is dropped; its tasks go on.
CouncilTimeout ==
  /\ call.pc = "council"
  /\ FallBackToRoute
  /\ strays' = strays + Unfinished
  /\ dropped' = dropped + 1
  /\ UNCHANGED <<setup, ego, members, last, loop>>

\* A chat is awaited in the handler of its request: a client that goes away
\* drops the call it waits for, a council's coordinating future with it.
ClientLeaves ==
  /\ setup.who \in {"chat", "birth"} /\ call.pc # "idle"
  /\ call' = NoCall /\ council' = NoCouncil
  /\ strays' = strays + Unfinished
  /\ dropped' = IF call.pc = "council" THEN dropped + 1 ELSE dropped
  /\ UNCHANGED <<setup, ego, members, last, loop>>

StrayEnds ==
  /\ strays > 0
  /\ strays' = strays - 1
  /\ UNCHANGED <<setup, ego, members, call, last, council, dropped, loop>>

------------------------------------------------------------------------------
(* The callers. *)

\* The operations a caller uses.  Birth asks the router only with an Ego.
Ops ==
  CASE setup.who = "birth" -> IF HasEgo THEN {"route"} ELSE {"id_only"}
    [] setup.who = "job" -> {"id_only"}
    [] setup.who = "client" -> {"route", "stream", "stream_tools"}
    [] OTHER -> {"tools"}

Ready == call.pc = "idle" /\ last.op = "none" /\ loop.stop = "no"

BeginCall ==
  /\ setup.who # "loop" /\ Ready /\ loop.turn < setup.turns
  /\ \E msg \in Messages :
       IF UsesCouncil THEN Convene(msg)
       ELSE (\E op \in Ops : Route(op, msg)) /\ UNCHANGED council
  /\ loop' = [loop EXCEPT !.turn = @ + 1]
  /\ UNCHANGED <<setup, ego, members, last, strays, dropped>>

EndCall ==
  /\ setup.who # "loop" /\ last.op # "none"
  /\ last' = NoResult
  /\ UNCHANGED <<setup, ego, members, call, council, strays, dropped, loop>>

\* A run checks once that a model answers at all.
AskHeartbeat ==
  /\ setup.who = "loop" /\ Ready /\ loop.turn = 0
  /\ Route("heartbeat", {"empty"})
  /\ UNCHANGED <<setup, ego, members, last, council, strays, dropped, loop>>

HeartbeatDone ==
  /\ last.op = "heartbeat"
  /\ loop' = [loop EXCEPT !.turn = 1, !.stop = IF last.ok THEN "no" ELSE "preflight"]
  /\ last' = NoResult
  /\ UNCHANGED <<setup, ego, members, call, council, strays, dropped>>

\* The first two messages stay, then as many of the latest as fit; a note
\* takes the place of the others.
Total(msgs) ==
  LET sum[n \in 0 .. Len(msgs)] == IF n = 0 THEN 0 ELSE sum[n - 1] + msgs[n].size
  IN  sum[Len(msgs)]
Kept(h, from) == SubSeq(h, from, Len(h))

\* Mutant of TrimContext: keeps the oldest messages that fit.
TrimNewest(h) ==
  LET fits == {k \in 2 .. Len(h) : Total(SubSeq(h, 1, k)) <= Budget} \cup {2}
      upTo == CHOOSE k \in fits : \A j \in fits : k >= j
  IN  SubSeq(h, 1, upTo)

TrimContext(h) ==
  LET room == Budget - Total(SubSeq(h, 1, 2))
      fits == {k \in 3 .. Len(h) + 1 : Total(Kept(h, k)) <= room} \cup {Len(h) + 1}
      from == CHOOSE k \in fits : \A j \in fits : k <= j
  IN  IF Len(h) <= 2 \/ from <= 3 THEN h
      ELSE SubSeq(h, 1, 2) \o <<Entry("user", "note", 1)>> \o Kept(h, from)

BeginTurn ==
  /\ setup.who = "loop" /\ Ready /\ loop.turn \in 1 .. setup.turns
  /\ \E h \in {TrimContext(loop.hist)} :
       loop' = [loop EXCEPT !.turn = @ + 1, !.hist = h, !.sent = Sent(h)]
  /\ \E msg \in Messages :
       IF UsesCouncil THEN Convene(msg) ELSE Route("tools", msg) /\ UNCHANGED council
  /\ UNCHANGED <<setup, ego, members, last, strays, dropped>>

\* Mutant of Streak: tools do not start the count again.
StreakKept(calls) == IF calls = << >> THEN loop.streak + 1 ELSE loop.streak

\* A turn that asks the mentor does nothing else.
KindOf(calls) ==
  IF calls = << >> THEN "none" ELSE IF "ask_mentor" \in Range(calls) THEN "asked" ELSE "tools"

\* Turns without a tool call since the last one whose tools were done.
Streak(calls) ==
  CASE KindOf(calls) = "none" -> loop.streak + 1
    [] KindOf(calls) = "asked" -> loop.streak
    [] OTHER -> 0

\* The turn's answer: the duplicate breaker compares its text with every
\* text before; then the mentor is asked, or the tool calls are done, or
\* their absence is counted, and a message of the turn's kind follows.
EndTurn ==
  /\ setup.who = "loop" /\ last.op = "tools"
  /\ LET a == last.reply
         calls == ExtractToolCalls(a, a.written)
         said == Append(loop.hist, Entry("assistant", "answer", 1))
         heard == loop.heard \cup {<<a.text, calls>>}
         kinds == Append(loop.kinds, KindOf(calls))
     IN  IF ~last.ok THEN loop' = [loop EXCEPT !.stop = "llm_error"]
         ELSE IF a.text \in loop.seen
         THEN loop' = [loop EXCEPT !.stop = IF <<a.text, calls>> \in loop.heard
                                            THEN "duplicate" ELSE "duplicate text"]
         ELSE LET now == [loop EXCEPT !.seen = @ \cup {a.text}, !.heard = heard, !.kinds = kinds,
                                             !.streak = Streak(calls)]
              IN  CASE "task_complete" \in Range(calls) ->
                         loop' = [now EXCEPT !.hist = said, !.stop = "complete"]
                    [] calls = << >> /\ Streak(calls) >= 3 ->
                         loop' = [now EXCEPT !.hist = said, !.stop = "no_tools"]
                    [] OTHER ->
                         \E n \in (IF calls = << >> THEN {1} ELSE Sizes) :
                           LET m == Entry("user", KindOf(calls), n)
                           IN  loop' = [now EXCEPT !.hist = Append(said, m), !.newest = m]
  /\ last' = NoResult
  /\ UNCHANGED <<setup, ego, members, call, council, strays, dropped>>

------------------------------------------------------------------------------
ProviderStep == \E p \in {"ego", "id"} :
  Answered(p) \/ Failed(p) \/ StreamChunk(p) \/ StreamEnds(p)
CouncilStep == DraftEnds \/ DraftsJoined \/ CritiqueEnds \/ CritiquesJoined
                 \/ Synthesised \/ SynthesisFails \/ CouncilTimeout
CallerStep == BeginCall \/ EndCall \/ AskHeartbeat \/ HeartbeatDone \/ BeginTurn \/ EndTurn

CallsNext ==
  \/ RunSuperegoPrecheck \/ SuperegoAnswers \/ Classify
  \/ ProviderStep
  \/ CouncilStep
  \/ ClientLeaves
  \/ StrayEnds
  \/ CallerStep

\* The clients set a limit to every request (the streaming ones all do) and
\* the council has its own, so a provider's step and the caller's next one
\* come in the end; only an OpenAI request that does not stream may hang.
InTime(p) == Client(p) \in Limited

Fairness ==
  /\ WF_callsVars(RunSuperegoPrecheck \/ Classify)
  /\ WF_callsVars(ClientOf(SuperegoName) \in Limited /\ SuperegoAnswers)
  /\ \A p \in {"ego", "id"} : WF_callsVars(InTime(p) /\ (Answered(p) \/ Failed(p) \/ StreamEnds(p)))
  /\ WF_callsVars(CouncilTimeout)
  /\ WF_callsVars(CallerStep)

CallsSpec == CallsInit /\ [][CallsNext]_callsVars /\ Fairness

------------------------------------------------------------------------------
(* Properties. *)

\* route with an Ego first, route_with_tools, route_stream_with_tools and
\* the heartbeat fail only after every provider there is has failed: the Id
\* always, and the Ego when one is configured.
EgoFailureIsCovered ==
  last.op # "none" /\ ~last.ok /\ FallsBack(last.op) =>
    "id" \in last.failed /\ (HasEgo => "ego" \in last.failed)

\* What a streaming client has been shown when the answer is complete comes
\* from the provider that answered, is the answer unless the Id's stream
\* broke and was started over, and ends with the only end mark.  A call that
\* failed showed no end mark.
ShownText(shown) == FlattenSeq([i \in DOMAIN shown |-> shown[i].text])
Ends(shown) == Cardinality({i \in DOMAIN shown : shown[i].by = "done"})
ShownIsOneVoice ==
  Streaming(last.op) =>
    IF last.ok
    THEN /\ \A i \in DOMAIN Front(last.shown) : last.shown[i].by = last.by
         /\ Last(last.shown).by = "done"
         /\ "id" \notin last.failed => ShownText(last.shown) = last.reply.text
    ELSE Ends(last.shown) = 0

\* Council tasks work on for nobody only after a council was dropped, by its
\* time limit or by a client that went away, and no more of them than that
\* council had members: one that is done, or given up for its failed drafts,
\* leaves none.
StraysWereDropped == strays <= dropped * N

\* The breaker stops a run only after three turns without a tool call since
\* the last turn whose tools were done, synthetic ones too.  Turns that ask
\* the mentor may lie between them: they leave the count as it is.
IdleTurns ==
  {i \in DOMAIN loop.kinds :
     loop.kinds[i] = "none" /\ \A j \in i .. Len(loop.kinds) : loop.kinds[j] # "tools"}
StoppedForCause == loop.stop = "no_tools" => Cardinality(IdleTurns) >= 3

\* A turn sends the goal first and the newest message last, the council's
\* plan alone after it, however often the conversation was trimmed, unless
\* that message is larger than the room; to Anthropic it sends no role twice
\* in a row.
SentMessages ==
  IF Client("ego") = "anthropic"
  THEN FlattenSeq([i \in DOMAIN loop.sent |-> loop.sent[i].blocks])
  ELSE Talk(loop.sent)
RequestIsAnchored ==
  loop.sent # << >> /\ loop.stop = "no" /\ call.pc # "idle" =>
    /\ SentMessages[1].kind = "goal"
    /\ \/ Last(SentMessages) = loop.newest
       \/ Last(SentMessages) = Plan /\ SentMessages[Len(SentMessages) - 1] = loop.newest
       \/ loop.newest.size > Budget - Total(SubSeq(loop.hist, 1, 2))
    /\ Client("ego") = "anthropic" =>
         \A i \in 1 .. Len(loop.sent) - 1 : loop.sent[i].role # loop.sent[i + 1].role

\* A run is stopped as repeating itself only when it gave an answer it had
\* given before.  agentic.rs:480 "detect duplicate state (LLM producing
\* identical responses)".
DuplicateIsRepeat == loop.stop # "duplicate text"

\* Every call comes to an answer or an error, unless it waits for OpenAI.
EveryCallEnds ==
  call.pc # "idle" /\ {ClientOf(ego), ClientOf(SuperegoName)} \cap {"openai"} = {}
    ~> call.pc = "idle"
=============================================================================
