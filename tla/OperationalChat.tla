--------------------------- MODULE OperationalChat ---------------------------
(***************************************************************************)
(* The chat of one agent: the handler api_operational_chat, the archive    *)
(* handler, and the two writers that leave notices in the chat, a finished *)
(* autonomous run and the mentor alert of a job (crates/orion-api/src/     *)
(* main.rs, crates/orion-api/src/agentic.rs).                              *)
(*                                                                         *)
(* They share operational_chat.json, which each of them reads as a whole   *)
(* and writes as a whole with std::fs::write, that is, truncates and then  *)
(* fills; a file that does not parse is read as an empty conversation.     *)
(* Archives are written in the same way, and so is the empty conversation  *)
(* that an archived one leaves behind.                                     *)
(* Chat requests share one more thing, the proposal that waits for a       *)
(* confirmation.  Between any two of these steps others may run.           *)
(*                                                                         *)
(* A turn is one request with its answer.  The models and tools it calls   *)
(* are phases it passes; what they do elsewhere is left out.  A message is *)
(* what its words make the handler do and what its author meant.  A read   *)
(* or a write of a file takes place and succeeds.                          *)
(***************************************************************************)
EXTENDS Naturals, Sequences, FiniteSets

CONSTANTS
  Turns,        \* chat requests
  Notices,      \* results of autonomous runs, mentor alerts
  Archivings,   \* requests to archive the conversation
  Droppable,    \* requests to the plain endpoint, whose client may go away
  Earlier,      \* the conversation so far
  Messages,     \* kinds of messages a request may carry
  Seconds,      \* times that name archives; two archives may share one
  MinArchived,  \* messages below which nothing is archived by itself: 4 in the code
  MaxRestarts,  \* bound on restarts of the server
  NoTurn

Writers == Turns \cup Notices \cup Archivings

In(seq) == {seq[i] : i \in DOMAIN seq}

Entries == Turns \cup Notices \cup In(Earlier)

\* A proposal goes by the name of the turn that made it.  The last turn before
\* those modelled made one, which is pending at first.
Proposals == Turns \cup In(Earlier)

MessageKinds == [positive : BOOLEAN, negative : BOOLEAN, proposes : BOOLEAN,
                 meant : {"confirm", "cancel", "other"}]

ASSUME MessagesAssumption == Messages \subseteq MessageKinds
ASSUME DroppableAssumption == Droppable \subseteq Turns
ASSUME BoundsAssumption == MaxRestarts \in Nat
ASSUME MinArchivedAssumption == MinArchived \in Nat \ {0}
ASSUME EarlierAssumption ==
  Earlier \in Seq(In(Earlier)) \ {<<>>} /\ In(Earlier) \cap Writers = {}
ASSUME WritersAssumption ==
  /\ Turns \cap Notices = {} /\ Turns \cap Archivings = {} /\ Notices \cap Archivings = {}
  /\ NoTurn \notin Proposals

VARIABLES
  phase,     \* phase[w]: where writer w stands
  copy,      \* copy[w]: the conversation as w read it, later as w will write it
  log,       \* the conversation in the file, empty if it is unreadable
  text,      \* what the file is: "whole", truncated and "empty", or "garbled"
  archives,  \* the archive files: id, conversation, whether it is garbled; an
             \* archive that is garbled, or truncated and not filled, has none
  target,    \* target[w]: the id of the archive w is writing
  pending,   \* the proposal that waits for a confirmation
  taken,     \* taken[r]: the proposal r carries out
  restarts,  \* restarts of the server
  carried,   \* history: carried[p], how often proposal p was carried out
  dropped,   \* history: proposals that were cancelled or replaced
  unmeant,   \* history: proposals released by a message not meant to confirm
  atRisk     \* history: entries whose only copy was exposed

fileVars    == <<log, text>>
archiveVars == <<archives, target>>
confirmVars == <<pending, taken, carried, dropped, unmeant>>
vars == <<phase, copy, fileVars, archiveVars, confirmVars, restarts, atRisk>>

Init ==
  /\ phase = [w \in Writers |-> IF w \in Notices THEN "merge" ELSE "new"]
  /\ copy = [w \in Writers |-> <<>>]
  /\ log = Earlier /\ text = "whole"
  /\ archives = {} /\ target = [w \in Writers |-> <<>>]
  /\ pending = Earlier[Len(Earlier)] /\ taken = [r \in Turns |-> NoTurn]
  /\ restarts = 0
  /\ carried = [p \in Proposals |-> 0] /\ dropped = {} /\ unmeant = {}
  /\ atRisk = {}

\* The file parses.
readable == text = "whole"

Goes(w, from, to) == phase[w] = from /\ phase' = [phase EXCEPT ![w] = to]

\* Messages: a turn is stored as two, a notice as one.
Size(seq) == Len(seq) + Cardinality({i \in DOMAIN seq : seq[i] \notin Notices})

-----------------------------------------------------------------------------
(* Proposals: create an agent, create a job.                               *)

\* parse_confirmation_signal: any positive word anywhere in the message, the
\* letter y among them, then any negative one.
Signal(m) == IF m.positive THEN "yes" ELSE IF m.negative THEN "no" ELSE "none"

\* Mutant: a refused proposal stays pending.
ExamineRefusing(r) ==
  /\ \E m \in Messages :
       \/ /\ Signal(m) = "yes" /\ pending # NoTurn
          /\ taken' = [taken EXCEPT ![r] = pending]
          /\ unmeant' = IF m.meant = "confirm" THEN unmeant ELSE unmeant \cup {pending}
          /\ pending' = NoTurn
          /\ Goes(r, "new", "confirmed")
          /\ UNCHANGED dropped
       \/ /\ Signal(m) = "no" /\ pending # NoTurn
          /\ dropped' = dropped \cup {pending}
          /\ Goes(r, "new", "merge")
          /\ UNCHANGED <<pending, taken, unmeant>>
  /\ UNCHANGED <<copy, fileVars, archiveVars, carried, restarts, atRisk>>

\* A message that signals anything settles the pending proposal, whatever else
\* it says; otherwise it may be a proposal of its own, or chat.
Examine(r) ==
  /\ \E m \in Messages :
       \/ /\ Signal(m) = "yes" /\ pending # NoTurn
          /\ taken' = [taken EXCEPT ![r] = pending]
          /\ unmeant' = IF m.meant = "confirm" THEN unmeant ELSE unmeant \cup {pending}
          /\ pending' = NoTurn
          /\ Goes(r, "new", "confirmed")
          /\ UNCHANGED dropped
       \/ /\ Signal(m) = "no" /\ pending # NoTurn
          /\ dropped' = dropped \cup {pending}
          /\ pending' = NoTurn
          /\ Goes(r, "new", "merge")
          /\ UNCHANGED <<taken, unmeant>>
       \/ /\ Signal(m) = "none" \/ pending = NoTurn
          /\ Goes(r, "new", IF m.proposes THEN "proposing" ELSE "loading")
          /\ UNCHANGED <<pending, taken, dropped, unmeant>>
  /\ UNCHANGED <<copy, fileVars, archiveVars, carried, restarts, atRisk>>

\* The new proposal replaces one that is still pending.
Propose(r) ==
  /\ Goes(r, "proposing", "merge")
  /\ pending' = r
  /\ dropped' = dropped \cup ({pending} \ {NoTurn})
  /\ UNCHANGED <<copy, fileVars, archiveVars, taken, carried, unmeant, restarts, atRisk>>

\* The agent or the job is created, or that fails and so does the request; the
\* proposal is gone either way.
CarryOut(r) ==
  /\ \/ Goes(r, "confirmed", "merge")
        /\ carried' = [carried EXCEPT ![taken[r]] = @ + 1]
     \/ Goes(r, "confirmed", "failed") /\ UNCHANGED carried
  /\ taken' = [taken EXCEPT ![r] = NoTurn]
  /\ UNCHANGED <<copy, fileVars, archiveVars, pending, dropped, unmeant, restarts, atRisk>>

-----------------------------------------------------------------------------
(* A chat turn up to its answer.                                           *)

Unchanged == UNCHANGED <<fileVars, archiveVars, confirmVars, restarts, atRisk>>

\* The conversation is read for the model.
Load(r) ==
  /\ Goes(r, "loading", "loaded")
  /\ copy' = [copy EXCEPT ![r] = log]
  /\ Unchanged

Archive(id, entries, garbled) == [id |-> id, entries |-> entries, garbled |-> garbled]

Named(id) == {a \in archives : a.id = id}

\* The conversation read earlier goes to an archive named after the time and its
\* length; what a file of that name held is truncated away.
CreateArchive(w) ==
  /\ Goes(w, "loaded", "archiving")
  /\ \E time \in Seconds :
       LET id == <<time, Size(copy[w])>> IN
       /\ target' = [target EXCEPT ![w] = id]
       /\ archives' = (archives \ Named(id)) \cup {Archive(id, <<>>, FALSE)}
       /\ atRisk' = atRisk \cup UNION {In(a.entries) : a \in Named(id)}
  /\ UNCHANGED <<copy, fileVars, confirmVars, restarts>>

\* It is written over what the file holds by now.  If that is another conversation
\* and longer, its end remains and the archive does not parse.
FillArchive(w) ==
  /\ Goes(w, "archiving", "clearing")
  /\ LET old == Named(target[w])
         now == UNION {In(a.entries) : a \in old} IN
     \/ /\ archives' = (archives \ old) \cup {Archive(target[w], copy[w], FALSE)}
        /\ atRisk' = atRisk \cup (now \ In(copy[w]))
     \/ /\ \E a \in old : a.garbled \/ a.entries \notin {<<>>, copy[w]}
        /\ archives' = (archives \ old) \cup {Archive(target[w], <<>>, TRUE)}
        /\ atRisk' = atRisk \cup now \cup In(copy[w])
  /\ target' = [target EXCEPT ![w] = <<>>]
  /\ UNCHANGED <<copy, fileVars, confirmVars, restarts>>

\* Nine tenths of the context window are full and there is enough to archive.
AutoArchive(r) ==
  \/ Size(copy[r]) >= MinArchived /\ CreateArchive(r)
  \/ FillArchive(r)

NoArchive(r) ==
  /\ \E path \in {"governed", "council", "route"} : Goes(r, "loaded", path)
  /\ copy' = [copy EXCEPT ![r] = <<>>]
  /\ Unchanged

\* The chat file is emptied ...
Clear(w) ==
  /\ Goes(w, "clearing", "emptying")
  /\ log' = <<>> /\ text' = "empty"
  /\ copy' = [copy EXCEPT ![w] = <<>>]
  /\ UNCHANGED <<archiveVars, confirmVars, restarts, atRisk>>

\* ... and "[]" written over what it holds by now, which it garbles.
Empty(w) ==
  /\ log' = <<>>
  /\ text' = IF text = "empty" \/ (readable /\ log = <<>>) THEN "whole" ELSE "garbled"
  /\ UNCHANGED <<copy, archiveVars, confirmVars, restarts, atRisk>>

ClearChat(r) ==
  \/ Clear(r)
  \/ /\ \E path \in {"governed", "council", "route"} : Goes(r, "emptying", path)
     /\ Empty(r)

\* The calls of a turn: each takes its time and changes nothing modelled here.
Call(r, from, to) == Goes(r, from, to) /\ UNCHANGED copy /\ Unchanged

\* The Execution Governor answers, whatever its result.
Govern(r) == Call(r, "governed", "merge")

\* The council answers, or fails or times out and the router takes over.
Council(r) == Call(r, "council", "skills") \/ Call(r, "council", "route")

\* Ego answers, or Id does, or the safety check, and is asked once more if the
\* answer announced an action and called no tool; or both fail and so does the turn.
Route(r) == Call(r, "route", "skills") \/ Call(r, "route", "failed")

\* The skill tools, then register_email_account and launch_agentic_task, then
\* one more call of the model for an answer that tells their results.
RunTools(r) == Call(r, "skills", "merge")

\* The client goes away: the handler is dropped where it awaits.  The last step,
\* storing the turn, runs on a thread of its own and is not.
Disconnect(r) ==
  /\ r \in Droppable
  /\ phase[r] \in {"loading", "loaded", "governed", "council", "route", "skills"}
  /\ phase' = [phase EXCEPT ![r] = "failed"]
  /\ copy' = [copy EXCEPT ![r] = <<>>]
  /\ Unchanged

-----------------------------------------------------------------------------
(* Adding an entry to the conversation: append_chat_turn and its copies.   *)

\* The writers that have read the file and may still replace what it holds.
Holding == {w \in Writers :
              phase[w] \in {"loaded", "archiving", "clearing", "emptying", "merged", "writing"}}
Writing == {w \in Writers : phase[w] = "writing"}

\* Mutant: a turn is appended to the conversation the model was shown.
ReadLogEarly(w) ==
  /\ Goes(w, "merge", "merged")
  /\ copy' = [copy EXCEPT ![w] = Append(Earlier, w)]
  /\ UNCHANGED <<fileVars, archiveVars, confirmVars, restarts, atRisk>>

\* Mutant: a turn waits until the file parses.
ReadLogWaiting(w) ==
  /\ readable
  /\ Goes(w, "merge", "merged")
  /\ copy' = [copy EXCEPT ![w] = Append(log, w)]
  /\ UNCHANGED <<fileVars, archiveVars, confirmVars, restarts, atRisk>>

\* What another writer holds while it has the file truncated is not seen.
ReadLog(w) ==
  /\ Goes(w, "merge", "merged")
  /\ copy' = [copy EXCEPT ![w] = Append(log, w)]
  /\ atRisk' = IF readable THEN atRisk ELSE atRisk \cup UNION {In(copy[v]) : v \in Writing}
  /\ UNCHANGED <<fileVars, archiveVars, confirmVars, restarts>>

Truncate(w) ==
  /\ Goes(w, "merged", "writing")
  /\ log' = <<>> /\ text' = "empty"
  /\ UNCHANGED <<copy, archiveVars, confirmVars, restarts, atRisk>>

\* The new conversation is written over what the file holds by now.  If that is
\* other writers' and longer, its end remains and the file does not parse.
Fill(w) ==
  /\ Goes(w, "writing", "done")
  /\ \/ /\ log' = copy[w] /\ text' = "whole"
        /\ atRisk' = IF Holding = {w} THEN atRisk ELSE atRisk \cup {w}
     \/ /\ log # <<>> \/ text = "garbled"
        /\ log' = <<>> /\ text' = "garbled"
        /\ atRisk' = atRisk \cup In(log) \cup In(copy[w])
  /\ copy' = [copy EXCEPT ![w] = <<>>]
  /\ UNCHANGED <<archiveVars, confirmVars, restarts>>

-----------------------------------------------------------------------------
(* The archive handler.                                                    *)

ReadForArchive(a) ==
  /\ log # <<>>
  /\ Goes(a, "new", "loaded")
  /\ copy' = [copy EXCEPT ![a] = log]
  /\ Unchanged

ArchiveByHand(a) == CreateArchive(a) \/ FillArchive(a)

ClearByHand(a) ==
  \/ Clear(a)
  \/ Goes(a, "emptying", "done") /\ Empty(a)

-----------------------------------------------------------------------------
UnderWay(w) == phase[w] \notin {"new", "done", "failed"} /\ ~(w \in Notices /\ phase[w] = "merge")

\* Requests and proposals are in memory only.  A writer that had a file truncated
\* never fills it.
Restart ==
  /\ restarts < MaxRestarts
  /\ restarts' = restarts + 1
  /\ phase' = [w \in Writers |-> IF UnderWay(w) THEN "failed" ELSE phase[w]]
  /\ copy' = [w \in Writers |-> <<>>]
  /\ target' = [w \in Writers |-> <<>>]
  /\ pending' = NoTurn
  /\ taken' = [r \in Turns |-> NoTurn]
  /\ atRisk' = IF readable THEN atRisk ELSE atRisk \cup UNION {In(copy[v]) : v \in Writing}
  /\ UNCHANGED <<fileVars, archives, carried, dropped, unmeant>>

Store(w) == ReadLog(w) \/ Truncate(w) \/ Fill(w)

TurnStep(r) == \/ Examine(r) \/ Propose(r) \/ CarryOut(r)
               \/ Load(r) \/ AutoArchive(r) \/ NoArchive(r) \/ ClearChat(r)
               \/ Govern(r) \/ Council(r) \/ Route(r) \/ RunTools(r)
               \/ Store(r)

ArchiveStep(a) == ReadForArchive(a) \/ ArchiveByHand(a) \/ ClearByHand(a)

Next == \/ \E r \in Turns : TurnStep(r) \/ Disconnect(r)
        \/ \E n \in Notices : Store(n)
        \/ \E a \in Archivings : ArchiveStep(a)
        \/ Restart

Spec == Init /\ [][Next]_vars

\* The calls without a limit of their own: the governor, the router, and the model
\* that is told what the tools did may hang with an OpenAI client that sets none.
\* The council gives up after COUNCIL_TIMEOUT.
AwaitsModel(r) == phase[r] \in {"governed", "route", "skills"}

\* A request that has come in is worked on.  Nobody has to send one, and no model
\* has to answer.
OwnStep(r) == phase[r] # "new" /\ ~AwaitsModel(r) /\ TurnStep(r)
FairSpec == Spec /\ \A r \in Turns : WF_vars(OwnStep(r))

-----------------------------------------------------------------------------
(* Properties.                                                             *)

Phases == {"new", "confirmed", "proposing", "loading", "loaded", "archiving", "clearing",
           "emptying", "governed", "council", "route", "skills",
           "merge", "merged", "writing", "done", "failed"}

\* The turn that holds a proposal is carrying it out, and it is not pending any more.
HeldWhileConfirmed ==
  \A r \in Turns : /\ taken[r] # NoTurn <=> phase[r] = "confirmed"
                   /\ taken[r] # NoTurn => taken[r] # pending

\* Each variable stays in its range, and a proposal is held exactly while it is
\* carried out (api_operational_chat).
TypeOK ==
  /\ phase \in [Writers -> Phases]
  /\ copy \in [Writers -> Seq(Entries)]
  /\ log \in Seq(Entries) /\ text \in {"whole", "empty", "garbled"}
  /\ target \in [Writers -> (Seconds \X Nat) \cup {<<>>}]
  /\ \A w \in Writers : phase[w] = "archiving" => target[w] # <<>>
  /\ \A a \in archives : a.id \in Seconds \X Nat /\ a.entries \in Seq(Entries)
  /\ restarts \in 0 .. MaxRestarts
  /\ pending \in Proposals \cup {NoTurn}
  /\ taken \in [Turns -> Proposals \cup {NoTurn}]
  /\ HeldWhileConfirmed
  /\ carried \in [Proposals -> Nat]
  /\ dropped \subseteq Proposals /\ unmeant \subseteq Proposals
  /\ atRisk \subseteq Entries

Archived == UNION {In(a.entries) : a \in archives}

\* What is in the chat or in an archive, or about to be written back.
Kept == In(log) \cup Archived \cup UNION {In(copy[w]) : w \in Writing}

\* An answered turn, a notice and the earlier conversation (operational_chat.json)
\* stay in the chat or in an archive, unless they were stored while somebody else
\* held an older copy, or read or lost with a truncated file, or in an archive under
\* whose name another was begun.  Long model calls and old context lose nothing.
LostOnlyIfAtRisk ==
  \A e \in Entries : (e \in Writers => phase[e] = "done") => e \in Kept \cup atRisk

\* However confirmations, refusals and new proposals race (pending_operational_actions),
\* a proposal is carried out at most once, and never after it was cancelled or replaced.
CarriedOutOnce ==
  \A p \in Proposals : /\ carried[p] <= 1
                       /\ carried[p] = 1 => p \notin dropped

\* Every request is answered or fails, whichever of its calls fail and whatever a
\* crash left in the chat file; none stands anywhere else for good but in a model
\* call that never comes back.
EveryTurnEnds ==
  <>[](\A r \in Turns : phase[r] \in {"new", "done", "failed"} \/ AwaitsModel(r))

-----------------------------------------------------------------------------
(* What the documentation says and the code does not do.                   *)

\* "execute only after explicit confirmation": what is carried out was released by
\* a message that meant to confirm.
ExplicitlyConfirmed ==
  \A p \in Proposals : carried[p] > 0 => p \notin unmeant
=============================================================================
