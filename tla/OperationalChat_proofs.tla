------------------------ MODULE OperationalChat_proofs ------------------------
(***************************************************************************)
(* What the chat of an agent promises for every number of requests,        *)
(* notices, archives and restarts.                                         *)
(*                                                                         *)
(* That nothing is lost unless it was exposed is not inductive: what a     *)
(* file holds is replaced by what a writer holds, so the invariant is      *)
(* about every writer that holds a conversation, and about the file while  *)
(* it is truncated.  That a proposal is carried out once needs that a turn *)
(* which may still propose has not done so.                                *)
(***************************************************************************)
EXTENDS OperationalChat, TLAPS, FiniteSetTheorems

\* In the chat, by what the handlers have answered.
Stored == {e \in Entries : e \in Writers => phase[e] = "done"}

\* Found again, or known to be exposed.
Safe == Archived \cup atRisk

\* A writer about to replace the file holds whatever is not safe, and so does one
\* that may archive, which a turn that has read an empty file may not; once its
\* archive is written everything is safe ...
HoldersCover ==
  \A w \in Writers :
    /\ phase[w] \in {"merged", "writing"} => w \in In(copy[w]) /\ Stored \subseteq In(copy[w]) \cup Safe
    /\ phase[w] = "loaded" /\ (w \in Archivings \/ copy[w] # <<>>) =>
         Stored \subseteq In(copy[w]) \cup Safe
    /\ phase[w] = "archiving" => Stored \subseteq In(copy[w]) \cup Safe
    /\ phase[w] \in {"clearing", "emptying"} => Stored \subseteq Safe

\* ... and so does the file, or it is truncated by such a writer.
FileCovers ==
  /\ readable => Stored \subseteq In(log) \cup Safe
  /\ ~readable => log = <<>> /\ (Writing # {} \/ Stored \subseteq Safe)

Unused(p) == /\ carried[p] = 0 /\ p \notin dropped /\ p # pending
             /\ \A r \in Turns : taken[r] # p

\* A proposal is not made yet, or pending, or being carried out by one turn, or
\* settled.
ProposalsMoveOn ==
  /\ \A r \in Turns : phase[r] \in {"new", "proposing"} => Unused(r)
  /\ pending # NoTurn => carried[pending] = 0 /\ pending \notin dropped
  /\ \A r \in Turns : taken[r] # NoTurn =>
       /\ carried[taken[r]] = 0 /\ taken[r] \notin dropped
       /\ \A q \in Turns \ {r} : taken[q] # taken[r]

IInv == TypeOK /\ HoldersCover /\ FileCovers /\ ProposalsMoveOn /\ CarriedOutOnce
-----------------------------------------------------------------------------
(* Conversations.                                                          *)

\* A conversation with one more entry.
LEMMA AppendIn ==
  ASSUME NEW s \in Seq(Entries), NEW e
  PROVE  In(Append(s, e)) = In(s) \cup {e}
<1>1. DOMAIN Append(s, e) = DOMAIN s \cup {Len(s) + 1}
  OBVIOUS
<1>2. \A i \in DOMAIN s : Append(s, e)[i] = s[i]
  OBVIOUS
<1>3. Append(s, e)[Len(s) + 1] = e
  OBVIOUS
<1> QED
  BY <1>1, <1>2, <1>3 DEF In

\* The number of messages is a number; an empty conversation has none.
LEMMA SizeType ==
  ASSUME NEW s \in Seq(Entries)
  PROVE  Size(s) \in Nat /\ (Size(s) >= MinArchived => s # <<>>)
<1> DEFINE I == {i \in DOMAIN s : s[i] \notin Notices}
<1>1. IsFiniteSet(1 .. Len(s)) /\ DOMAIN s = 1 .. Len(s) /\ Len(s) \in Nat
  BY FS_Interval
<1>2. IsFiniteSet(I)
  BY <1>1, FS_Subset
<1>3. Cardinality(I) \in Nat
  BY <1>2, FS_CardinalityType
<1>4. Size(s) = Len(s) + Cardinality(I)
  BY DEF Size
<1>5. s = <<>> => I = {}
  BY <1>1
<1>6. s = <<>> => Size(s) = 0
  <2> HIDE DEF I
  <2> QED
    BY <1>4, <1>5, FS_EmptySet
<1> QED
  BY <1>1, <1>3, <1>4, <1>6, MinArchivedAssumption

-----------------------------------------------------------------------------
(* Types.                                                                  *)

\* At first nothing has happened but the conversation so far.
LEMMA InitInv == Init => IInv
<1> SUFFICES ASSUME Init PROVE IInv
  OBVIOUS
<1>1. /\ Earlier \in Seq(Entries)
      /\ Earlier[Len(Earlier)] \in In(Earlier)
  BY EarlierAssumption DEF In, Entries
<1>2. In(Earlier) \cap Turns = {}
  BY EarlierAssumption DEF Writers
<1>3. TypeOK
  BY <1>1, WritersAssumption, BoundsAssumption DEF TypeOK, HeldWhileConfirmed, Init, Phases, Proposals, Writers, Entries
<1>4. HoldersCover
  BY DEF HoldersCover, Init
<1>5. FileCovers
  BY WritersAssumption DEF FileCovers, readable, Init, Stored, Entries, Writers, Safe
<1>6. ProposalsMoveOn /\ CarriedOutOnce
  BY <1>1, <1>2, WritersAssumption DEF ProposalsMoveOn, CarriedOutOnce, Init, Unused, Proposals
<1> QED
  BY <1>3, <1>4, <1>5, <1>6 DEF IInv

\* Archiving exposes at most what an archive of that name holds, and the archived.
LEMMA ArchiveRisk ==
  ASSUME NEW w, CreateArchive(w) \/ FillArchive(w)
  PROVE  \E id : atRisk' \subseteq atRisk \cup (UNION {In(a.entries) : a \in Named(id)}) \cup In(copy[w])
<1>1. CASE CreateArchive(w)
  BY <1>1 DEF CreateArchive
<1>2. CASE FillArchive(w)
  BY <1>2 DEF FillArchive
<1> QED
  BY <1>1, <1>2

\* Each step keeps the variables in their ranges.
LEMMA TypeStep == TypeOK /\ ProposalsMoveOn /\ [Next]_vars => TypeOK'
<1> SUFFICES ASSUME TypeOK, ProposalsMoveOn, [Next]_vars PROVE TypeOK'
  OBVIOUS
<1> USE DEF TypeOK, Phases, fileVars, archiveVars, confirmVars, Goes
<1>0. Turns \subseteq Writers /\ Notices \subseteq Writers /\ Archivings \subseteq Writers
  BY DEF Writers
<1>00. Turns \cup Notices \subseteq Entries /\ Turns \subseteq Proposals /\ <<>> \in Seq(Entries)
  BY DEF Entries, Proposals
<1> USE <1>0, <1>00
<1>1. ASSUME NEW r \in Turns, Examine(r) PROVE TypeOK'
  <2>1. HeldWhileConfirmed'
    BY <1>1, WritersAssumption DEF Examine, HeldWhileConfirmed
  <2>2. pending' \in Proposals \cup {NoTurn} /\ taken' \in [Turns -> Proposals \cup {NoTurn}]
    <3>1. pending' \in {pending, NoTurn}
      BY <1>1 DEF Examine
    <3>2. taken' = taken \/ taken' = [taken EXCEPT ![r] = pending]
      BY <1>1 DEF Examine
    <3> QED
      BY <3>1, <3>2
  <2>4. PICK to \in Phases \ {"archiving"} : phase' = [phase EXCEPT ![r] = to]
    BY <1>1 DEF Examine
  <2>5. phase' \in [Writers -> Phases]
        /\ \A w \in Writers : phase'[w] = "archiving" => phase[w] = "archiving"
    BY <2>4
  <2>3. dropped' \subseteq Proposals /\ unmeant' \subseteq Proposals
    BY <1>1 DEF Examine
  <2> QED
    BY <1>1, <2>1, <2>2, <2>3, <2>5 DEF Examine
<1>2. ASSUME NEW r \in Turns, Propose(r) PROVE TypeOK'
  <2>1. HeldWhileConfirmed'
    BY <1>2 DEF Propose, HeldWhileConfirmed, ProposalsMoveOn, Unused
  <2> QED
    BY <1>2, <2>1 DEF Propose
<1>3. ASSUME NEW r \in Turns, CarryOut(r) PROVE TypeOK'
  <2>1. HeldWhileConfirmed'
    BY <1>3 DEF CarryOut, HeldWhileConfirmed
  <2>2. taken[r] \in Proposals
    BY <1>3 DEF CarryOut, HeldWhileConfirmed
  <2>3. carried' \in [Proposals -> Nat]
    <3>1. carried[taken[r]] + 1 \in Nat
      BY <2>2
    <3>2. carried' = carried \/ carried' = [carried EXCEPT ![taken[r]] = carried[taken[r]] + 1]
      BY <1>3 DEF CarryOut
    <3> QED
      BY <3>1, <3>2
  <2> QED
    BY <1>3, <2>1, <2>3 DEF CarryOut
<1>4. ASSUME NEW r \in Turns, Load(r) \/ NoArchive(r) PROVE TypeOK'
  <2>1. CASE Load(r)
    BY <2>1 DEF Load, Unchanged, HeldWhileConfirmed
  <2>2. CASE NoArchive(r)
    BY <2>2 DEF NoArchive, Unchanged, HeldWhileConfirmed
  <2> QED
    BY <1>4, <2>1, <2>2
<1>5. ASSUME NEW w \in Writers, CreateArchive(w) \/ FillArchive(w) PROVE TypeOK'
  <2>1. \A a \in archives : In(a.entries) \subseteq Entries
    BY DEF In
  <2>2. \A id : UNION {In(a.entries) : a \in Named(id)} \subseteq Entries
    BY <2>1 DEF Named
  <2>3. PICK id, seq, garbled :
          /\ archives' = (archives \ Named(id)) \cup {Archive(id, seq, garbled)}
          /\ id \in Seconds \X Nat /\ seq \in Seq(Entries)
          /\ target' \in {[target EXCEPT ![w] = id], [target EXCEPT ![w] = <<>>]}
          /\ phase' = [phase EXCEPT ![w] = "clearing"] \/ target' = [target EXCEPT ![w] = id]
          /\ phase' = [phase EXCEPT ![w] = "archiving"] \/ phase' = [phase EXCEPT ![w] = "clearing"]
    <3>1. CASE CreateArchive(w)
      <4>1. Size(copy[w]) \in Nat
        BY SizeType
      <4>2. PICK time \in Seconds :
              /\ target' = [target EXCEPT ![w] = <<time, Size(copy[w])>>]
              /\ archives' = (archives \ Named(<<time, Size(copy[w])>>))
                              \cup {Archive(<<time, Size(copy[w])>>, <<>>, FALSE)}
        BY <3>1 DEF CreateArchive
      <4> DEFINE id == <<time, Size(copy[w])>>
      <4>3. id \in Seconds \X Nat /\ <<>> \in Seq(Entries)
        BY <4>1, <4>2
      <4>4. phase' = [phase EXCEPT ![w] = "archiving"]
        BY <3>1 DEF CreateArchive
      <4> QED
        BY <4>2, <4>3, <4>4
    <3>2. CASE FillArchive(w)
      <4>1. target[w] \in Seconds \X Nat /\ copy[w] \in Seq(Entries)
        BY <3>2 DEF FillArchive
      <4>2. \E seq \in {copy[w], <<>>}, garbled \in BOOLEAN :
              archives' = (archives \ Named(target[w])) \cup {Archive(target[w], seq, garbled)}
        BY <3>2 DEF FillArchive
      <4>3. target' = [target EXCEPT ![w] = <<>>] /\ phase' = [phase EXCEPT ![w] = "clearing"]
        BY <3>2 DEF FillArchive
      <4> QED
        BY <4>1, <4>2, <4>3
    <3> QED
      BY <1>5, <3>1, <3>2
  <2>4. \A a \in archives' : a.id \in Seconds \X Nat /\ a.entries \in Seq(Entries)
    BY <2>3 DEF Archive
  <2>5. atRisk' \subseteq Entries
    <3>1. In(copy[w]) \subseteq Entries
      BY DEF In
    <3>2. \E name : atRisk' \subseteq atRisk \cup (UNION {In(a.entries) : a \in Named(name)}) \cup In(copy[w])
      BY <1>5, ArchiveRisk
    <3> QED
      BY <2>2, <3>1, <3>2
  <2>6. <<>> \notin Seconds \X Nat
    OBVIOUS
  <2>7. target' \in [Writers -> (Seconds \X Nat) \cup {<<>>}]
        /\ \A v \in Writers : phase'[v] = "archiving" => target'[v] # <<>>
    <3>1. CASE target' = [target EXCEPT ![w] = id]
      BY <2>3, <2>6, <3>1
    <3>2. CASE target' = [target EXCEPT ![w] = <<>>] /\ phase' = [phase EXCEPT ![w] = "clearing"]
      BY <3>2
    <3> QED
      BY <2>3, <3>1, <3>2
  <2>8. HeldWhileConfirmed'
    BY <1>5 DEF CreateArchive, FillArchive, HeldWhileConfirmed
  <2> QED
    BY <1>5, <2>4, <2>5, <2>7, <2>8 DEF CreateArchive, FillArchive
<1>6. ASSUME NEW w \in Writers,
             \/ Clear(w)
             \/ \E path \in Phases \ {"confirmed", "archiving"} :
                  Goes(w, "emptying", path) /\ Empty(w)
      PROVE  TypeOK'
  <2>1. PICK to \in Phases \ {"confirmed", "archiving"} :
          phase' = [phase EXCEPT ![w] = to] /\ phase[w] # "confirmed"
    BY <1>6 DEF Clear
  <2>2. copy' \in [Writers -> Seq(Entries)]
    BY <1>6 DEF Clear, Empty
  <2>3. text' \in {"whole", "empty", "garbled"} /\ log' = <<>>
    BY <1>6 DEF Clear, Empty
  <2>4. UNCHANGED <<archiveVars, confirmVars, restarts, atRisk>>
    BY <1>6 DEF Clear, Empty
  <2>5. HeldWhileConfirmed'
    BY <2>1, <2>4 DEF HeldWhileConfirmed
  <2>6. phase' \in [Writers -> Phases]
        /\ \A v \in Writers : phase'[v] = "archiving" => phase[v] = "archiving"
    BY <2>1
  <2> QED
    BY <2>2, <2>3, <2>4, <2>5, <2>6
<1>7. ASSUME NEW r \in Turns, Govern(r) \/ Council(r) \/ Route(r) \/ RunTools(r) PROVE TypeOK'
  BY <1>7 DEF Govern, Council, Route, RunTools, Call, Unchanged, HeldWhileConfirmed
<1>8. ASSUME NEW r \in Turns, Disconnect(r) PROVE TypeOK'
  BY <1>8 DEF Disconnect, Unchanged, HeldWhileConfirmed
<1>9. ASSUME NEW w \in Writers, Store(w), w \in Entries PROVE TypeOK'
  <2>0. \A v \in Writers : In(copy[v]) \subseteq Entries
    BY DEF In
  <2>1. CASE ReadLog(w)
    <3>1. atRisk' \subseteq Entries
      BY <2>0, <2>1 DEF ReadLog, Writing
    <3> QED
      BY <1>9, <2>1, <3>1 DEF ReadLog, HeldWhileConfirmed
  <2>2. CASE Truncate(w)
    BY <2>2 DEF Truncate, HeldWhileConfirmed
  <2>3. CASE Fill(w)
    <3>1. In(log) \subseteq Entries /\ In(copy[w]) \subseteq Entries
      BY <2>0 DEF In
    <3>2. atRisk' \subseteq Entries /\ text' \in {"whole", "empty", "garbled"}
      BY <1>9, <2>3, <3>1 DEF Fill
    <3>3. log' \in Seq(Entries)
      <4>1. log' = copy[w] \/ log' = <<>>
        BY <2>3 DEF Fill
      <4>2. copy[w] \in Seq(Entries)
        OBVIOUS
      <4> QED
        BY <4>1, <4>2
    <3>4. HeldWhileConfirmed'
      BY <2>3 DEF Fill, HeldWhileConfirmed
    <3> QED
      BY <2>3, <3>2, <3>3, <3>4 DEF Fill
  <2> QED
    BY <1>9, <2>1, <2>2, <2>3 DEF Store
<1>10. ASSUME NEW a \in Archivings, ReadForArchive(a) PROVE TypeOK'
  BY <1>10 DEF ReadForArchive, Unchanged, HeldWhileConfirmed
<1>11. ASSUME Restart PROVE TypeOK'
  <2>1. atRisk' \subseteq Entries
    BY <1>11 DEF Restart, Writing, In
  <2> QED
    BY <1>11, <2>1, BoundsAssumption DEF Restart, UnderWay, HeldWhileConfirmed
<1>12. CASE UNCHANGED vars
  BY <1>12 DEF vars, HeldWhileConfirmed
<1>13. ASSUME NEW r \in Turns, AutoArchive(r) \/ ClearChat(r) PROVE TypeOK'
  BY <1>5, <1>6, <1>13 DEF AutoArchive, ClearChat
<1>14. ASSUME NEW a \in Archivings, ArchiveByHand(a) \/ ClearByHand(a) PROVE TypeOK'
  BY <1>5, <1>6, <1>14 DEF ArchiveByHand, ClearByHand
<1> HIDE DEF TypeOK, Goes
<1> QED
  BY <1>1, <1>2, <1>3, <1>4, <1>7, <1>8, <1>9, <1>10, <1>11, <1>12, <1>13, <1>14
  DEF Next, TurnStep, ArchiveStep

-----------------------------------------------------------------------------
(* Nothing is lost unless it was exposed.                                  *)

\* What is safe stays safe: an archive is replaced only by one that has its
\* entries, or they are counted as exposed.
LEMMA SafeStays ==
  ASSUME TypeOK, [Next]_vars
  PROVE  Safe \subseteq Safe'
<1> USE DEF Safe, fileVars, archiveVars, confirmVars
<1>1. ASSUME NEW w \in Writers, CreateArchive(w) \/ FillArchive(w) PROVE Safe \subseteq Safe'
  <2>1. PICK id, seq, garbled :
          /\ archives' = (archives \ Named(id)) \cup {Archive(id, seq, garbled)}
          /\ UNION {In(a.entries) : a \in Named(id)} \subseteq atRisk' \cup In(seq)
          /\ atRisk \subseteq atRisk'
    BY <1>1 DEF CreateArchive, FillArchive
  <2> DEFINE new == Archive(id, seq, garbled)
  <2>2. new \in archives' /\ new.entries = seq
    BY <2>1 DEF Archive
  <2>3. ASSUME NEW a \in archives, NEW e \in In(a.entries) PROVE e \in Safe'
    <3>1. CASE a \in archives'
      BY <3>1, <2>3 DEF Archived
    <3>2. CASE a \notin archives'
      <4>1. a \in Named(id)
        BY <2>1, <3>2
      <4>2. e \in In(seq) \/ e \in atRisk'
        BY <2>1, <2>3, <4>1
      <4> QED
        BY <4>2, <2>2 DEF Archived
    <3> QED
      BY <3>1, <3>2
  <2> QED
    BY <2>1, <2>3 DEF Archived
<1>2. ASSUME archives' = archives, atRisk \subseteq atRisk' PROVE Safe \subseteq Safe'
  BY <1>2 DEF Archived
<1>3. ASSUME NEW r \in Turns, TurnStep(r) PROVE Safe \subseteq Safe'
  <2>1. CASE AutoArchive(r)
    BY <2>1, <1>1 DEF AutoArchive, Writers
  <2>2. CASE ~AutoArchive(r)
    BY <1>3, <1>2, <2>2
    DEF TurnStep, Examine, Propose, CarryOut, Load, NoArchive, ClearChat, Clear, Empty, Govern, Council,
        Route, RunTools, Call, Unchanged, Store, ReadLog, Truncate, Fill
  <2> QED
    BY <2>1, <2>2
<1>4. ASSUME NEW r \in Turns, Disconnect(r) PROVE Safe \subseteq Safe'
  BY <1>2, <1>4 DEF Disconnect, Unchanged
<1>5. ASSUME NEW n \in Notices, Store(n) PROVE Safe \subseteq Safe'
  BY <1>2, <1>5 DEF Store, ReadLog, Truncate, Fill
<1>6. ASSUME NEW a \in Archivings, ArchiveStep(a) PROVE Safe \subseteq Safe'
  <2>1. CASE ArchiveByHand(a)
    BY <2>1, <1>1 DEF ArchiveByHand, Writers
  <2>2. CASE ~ArchiveByHand(a)
    BY <1>2, <1>6, <2>2 DEF ArchiveStep, ReadForArchive, ClearByHand, Clear, Empty, Unchanged
  <2> QED
    BY <2>1, <2>2
<1>7. CASE Restart
  BY <1>2, <1>7 DEF Restart
<1>8. CASE UNCHANGED vars
  BY <1>2, <1>8 DEF vars
<1> QED
  BY <1>3, <1>4, <1>5, <1>6, <1>7, <1>8 DEF Next

HoldingPhases == {"loaded", "archiving", "clearing", "emptying", "merged", "writing"}

\* A step that stores nothing, touches no file, and makes nobody a holder.
LEMMA QuietStep ==
  ASSUME TypeOK, HoldersCover, FileCovers, [Next]_vars,
         log' = log, text' = text, Stored' \subseteq Stored,
         \A w \in Writers : phase'[w] \in HoldingPhases => phase'[w] = phase[w] /\ copy'[w] = copy[w],
         \A w \in Writers : phase[w] = "writing" => phase'[w] = "writing"
  PROVE  HoldersCover' /\ FileCovers'
<1>1. Safe \subseteq Safe'
  BY SafeStays
<1>2. Writing # {} => Writing' # {}
  BY DEF Writing
<1>3. HoldersCover'
  BY <1>1 DEF HoldersCover, HoldingPhases, In
<1>4. FileCovers'
  BY <1>1, <1>2 DEF FileCovers, readable, In
<1> QED
  BY <1>3, <1>4

\* One writer moves on and does not finish storing.
LEMMA StoredStays ==
  ASSUME TypeOK, NEW w \in Writers, NEW to,
         phase' = [phase EXCEPT ![w] = to], to = "done" => w \notin Entries
  PROVE  Stored' \subseteq Stored
  BY DEF Stored, TypeOK

\* Archive requests are not entries.
LEMMA ArchivingsAreNotEntries == Archivings \cap Entries = {}
  BY WritersAssumption, EarlierAssumption DEF Entries, Writers

\* Reading the conversation to show or to archive it.
LEMMA LoadStep ==
  ASSUME TypeOK, HoldersCover, FileCovers, [Next]_vars, NEW w \in Writers,
         w \in Archivings => log # <<>>, phase[w] \in {"new", "loading"}, phase' = [phase EXCEPT ![w] = "loaded"],
         copy' = [copy EXCEPT ![w] = log], log' = log, text' = text
  PROVE  HoldersCover' /\ FileCovers'
<1>1. Safe \subseteq Safe' /\ Stored' \subseteq Stored
  BY SafeStays, StoredStays
<1>2. log # <<>> => Stored \subseteq In(log) \cup Safe
  BY DEF FileCovers, TypeOK
<1>3. \A v \in Writers \ {w} : phase'[v] = phase[v] /\ copy'[v] = copy[v]
  BY DEF TypeOK
<1>4. phase'[w] = "loaded" /\ copy'[w] = log
  BY DEF TypeOK
<1>5. HoldersCover'
  BY <1>1, <1>2, <1>3, <1>4 DEF HoldersCover, In
<1>6. Writing # {} => Writing' # {}
  BY <1>3 DEF Writing
<1>7. FileCovers'
  BY <1>1, <1>6 DEF FileCovers, readable, In
<1> QED
  BY <1>5, <1>7

\* Making room for the archive, which its writer still holds.
LEMMA CreateArchiveStep ==
  ASSUME TypeOK, HoldersCover, FileCovers, [Next]_vars, NEW w \in Writers,
         w \in Archivings \/ copy[w] # <<>>, CreateArchive(w)
  PROVE  HoldersCover' /\ FileCovers'
<1> USE DEF fileVars
<1>0. phase[w] = "loaded" /\ phase' = [phase EXCEPT ![w] = "archiving"]
  BY DEF CreateArchive, Goes
<1>1. Safe \subseteq Safe' /\ Stored' \subseteq Stored
  BY <1>0, SafeStays, StoredStays
<1>2. copy' = copy /\ log' = log /\ text' = text
  BY DEF CreateArchive
<1>3. \A v \in Writers \ {w} : phase'[v] = phase[v]
  BY <1>0 DEF TypeOK
<1>4. phase'[w] = "archiving"
  BY <1>0 DEF TypeOK
<1>5. Stored \subseteq In(copy[w]) \cup Safe
  BY <1>0 DEF HoldersCover
<1>6. HoldersCover'
  BY <1>1, <1>2, <1>3, <1>4, <1>5 DEF HoldersCover, In
<1>7. Writing # {} => Writing' # {}
  BY <1>0, <1>3 DEF Writing
<1>8. FileCovers'
  BY <1>1, <1>2, <1>7 DEF FileCovers, readable, In
<1> QED
  BY <1>6, <1>8

\* Writing the archive, after which everything is safe.
LEMMA FillArchiveStep ==
  ASSUME TypeOK, HoldersCover, FileCovers, [Next]_vars, NEW w \in Writers, FillArchive(w)
  PROVE  HoldersCover' /\ FileCovers'
<1> USE DEF fileVars
<1>0. phase[w] = "archiving" /\ phase' = [phase EXCEPT ![w] = "clearing"]
  BY DEF FillArchive, Goes
<1>1. Safe \subseteq Safe' /\ Stored' \subseteq Stored
  BY <1>0, SafeStays, StoredStays
<1>2. copy' = copy /\ log' = log /\ text' = text
  BY DEF FillArchive
<1>3. In(copy[w]) \subseteq Safe'
  <2>1. CASE In(copy[w]) \subseteq atRisk'
    BY <2>1 DEF Safe
  <2>2. CASE Archive(target[w], copy[w], FALSE) \in archives'
    BY <2>2 DEF Safe, Archived, Archive
  <2> QED
    BY <2>1, <2>2 DEF FillArchive
<1>4. \A v \in Writers \ {w} : phase'[v] = phase[v]
  BY <1>0 DEF TypeOK
<1>5. phase'[w] = "clearing"
  BY <1>0 DEF TypeOK
<1>6. Stored \subseteq Safe'
  BY <1>0, <1>1, <1>3 DEF HoldersCover
<1>7. HoldersCover'
  BY <1>1, <1>2, <1>4, <1>5, <1>6 DEF HoldersCover, In
<1>8. Writing # {} => Writing' # {}
  BY <1>0, <1>4 DEF Writing
<1>9. FileCovers'
  BY <1>1, <1>2, <1>8 DEF FileCovers, readable, In
<1> QED
  BY <1>7, <1>9

\* Emptying the file, by a writer that has archived.
LEMMA EmptyStep ==
  ASSUME TypeOK, HoldersCover, FileCovers, [Next]_vars, NEW w \in Writers,
         NEW to, to \notin HoldingPhases \ {"emptying"}, to = "done" => w \notin Entries,
         phase[w] \in {"clearing", "emptying"}, phase' = [phase EXCEPT ![w] = to],
         Clear(w) \/ Empty(w)
  PROVE  HoldersCover' /\ FileCovers'
<1>1. Safe \subseteq Safe' /\ Stored' \subseteq Stored
  BY SafeStays, StoredStays
<1>2. Stored \subseteq Safe
  BY DEF HoldersCover
<1>3. \A v \in Writers \ {w} : phase'[v] = phase[v] /\ copy'[v] = copy[v]
  BY DEF Clear, Empty, TypeOK
<1>4. phase'[w] = to
  BY DEF TypeOK
<1>5. HoldersCover'
  BY <1>1, <1>2, <1>3, <1>4 DEF HoldersCover, HoldingPhases, In
<1>6. log' = <<>>
  BY DEF Clear, Empty
<1>7. FileCovers'
  BY <1>1, <1>2, <1>6 DEF FileCovers, readable
<1> QED
  BY <1>5, <1>7

\* Reading the conversation to add to it.  If the file is truncated, what its
\* writers hold counts as exposed.
LEMMA ReadLogStep ==
  ASSUME TypeOK, HoldersCover, FileCovers, [Next]_vars, NEW w \in Writers, ReadLog(w)
  PROVE  HoldersCover' /\ FileCovers'
<1> USE DEF fileVars, archiveVars
<1>1. phase' = [phase EXCEPT ![w] = "merged"] /\ phase[w] = "merge"
  BY DEF ReadLog, Goes
<1>2. Safe \subseteq Safe' /\ Stored' \subseteq Stored
  BY <1>1, SafeStays, StoredStays
<1>3. \A v \in Writers \ {w} : phase'[v] = phase[v] /\ copy'[v] = copy[v]
  BY <1>1 DEF ReadLog, TypeOK
<1>4. phase'[w] = "merged" /\ copy'[w] = Append(log, w)
  BY <1>1 DEF ReadLog, TypeOK
<1>5. In(copy'[w]) = In(log) \cup {w}
  BY <1>4, AppendIn DEF TypeOK
<1>6. ASSUME ~readable, NEW v \in Writing PROVE Stored \subseteq Safe'
  <2>1. Stored \subseteq In(copy[v]) \cup Safe
    BY <1>6 DEF HoldersCover, Writing
  <2>2. In(copy[v]) \subseteq atRisk'
    BY <1>6 DEF ReadLog
  <2> QED
    BY <1>2, <2>1, <2>2 DEF Safe
<1>7. Stored \subseteq In(log) \cup Safe'
  BY <1>2, <1>6 DEF FileCovers
<1>8. HoldersCover'
  <2> SUFFICES ASSUME NEW v \in Writers
               PROVE  /\ phase'[v] \in {"merged", "writing"} =>
                           v \in In(copy'[v]) /\ Stored' \subseteq In(copy'[v]) \cup Safe'
                      /\ phase'[v] = "loaded" /\ (v \in Archivings \/ copy'[v] # <<>>) =>
                           Stored' \subseteq In(copy'[v]) \cup Safe'
                      /\ phase'[v] = "archiving" => Stored' \subseteq In(copy'[v]) \cup Safe'
                      /\ phase'[v] \in {"clearing", "emptying"} => Stored' \subseteq Safe'
    BY DEF HoldersCover, In
  <2>1. CASE v = w
    BY <2>1, <1>2, <1>4, <1>5, <1>7
  <2>2. CASE v # w
    BY <2>2, <1>2, <1>3 DEF HoldersCover
  <2> QED
    BY <2>1, <2>2
<1>9. log' = log /\ text' = text
  BY DEF ReadLog
<1>10. Writing # {} => Writing' # {}
  BY <1>1, <1>3 DEF Writing
<1>11. FileCovers'
  BY <1>2, <1>9, <1>10 DEF FileCovers, readable, In
<1> QED
  BY <1>8, <1>11

\* Truncating the file: its writer holds what is not safe.
LEMMA TruncateStep ==
  ASSUME TypeOK, HoldersCover, FileCovers, [Next]_vars, NEW w \in Writers, Truncate(w)
  PROVE  HoldersCover' /\ FileCovers'
<1>1. phase' = [phase EXCEPT ![w] = "writing"] /\ phase[w] = "merged"
  BY DEF Truncate, Goes
<1>2. Safe \subseteq Safe' /\ Stored' \subseteq Stored
  BY <1>1, SafeStays, StoredStays
<1>3. \A v \in Writers \ {w} : phase'[v] = phase[v]
  BY <1>1 DEF TypeOK
<1>4. phase'[w] = "writing" /\ copy' = copy
  BY <1>1 DEF Truncate, TypeOK
<1>5. HoldersCover'
  BY <1>1, <1>2, <1>3, <1>4 DEF HoldersCover, In
<1>6. w \in Writing'
  BY <1>4 DEF Writing
<1>7. FileCovers'
  BY <1>6 DEF FileCovers, readable, Truncate
<1> QED
  BY <1>5, <1>7

\* Writing the conversation.  Whoever else holds one does not have the new entry,
\* which counts as exposed; and so does everything if the file ends up garbled.
LEMMA FillStep ==
  ASSUME TypeOK, HoldersCover, FileCovers, [Next]_vars, NEW w \in Writers, Fill(w)
  PROVE  HoldersCover' /\ FileCovers'
<1>1. phase' = [phase EXCEPT ![w] = "done"] /\ phase[w] = "writing"
  BY DEF Fill, Goes
<1>2. Safe \subseteq Safe'
  BY SafeStays
<1>3. Stored' \subseteq Stored \cup {w}
  BY <1>1 DEF Stored, TypeOK
<1>4. \A v \in Writers \ {w} : phase'[v] = phase[v] /\ copy'[v] = copy[v]
  BY <1>1 DEF Fill, TypeOK
<1>5. phase'[w] = "done"
  BY <1>1 DEF TypeOK
<1>6. w \in In(copy[w]) /\ Stored \subseteq In(copy[w]) \cup Safe
  BY <1>1 DEF HoldersCover
<1>7. ASSUME NEW v \in Writers \ {w}, phase[v] \in HoldingPhases PROVE w \in Safe'
  <2>1. v \in Holding
    BY <1>7 DEF Holding, HoldingPhases
  <2>2. w \in atRisk'
    BY <1>6, <2>1 DEF Fill
  <2> QED
    BY <2>2 DEF Safe
<1>8. HoldersCover'
  <2> SUFFICES ASSUME NEW v \in Writers
               PROVE  /\ phase'[v] \in {"merged", "writing"} =>
                           v \in In(copy'[v]) /\ Stored' \subseteq In(copy'[v]) \cup Safe'
                      /\ phase'[v] = "loaded" /\ (v \in Archivings \/ copy'[v] # <<>>) =>
                           Stored' \subseteq In(copy'[v]) \cup Safe'
                      /\ phase'[v] = "archiving" => Stored' \subseteq In(copy'[v]) \cup Safe'
                      /\ phase'[v] \in {"clearing", "emptying"} => Stored' \subseteq Safe'
    BY DEF HoldersCover, In
  <2>1. CASE v = w
    BY <2>1, <1>5
  <2>2. CASE v # w
    BY <2>2, <1>2, <1>3, <1>4, <1>7 DEF HoldersCover, HoldingPhases
  <2> QED
    BY <2>1, <2>2
<1>9. CASE log' = copy[w] /\ readable'
  <2>1. In(log') = In(copy[w])
    BY <1>9
  <2>2. Stored' \subseteq In(log') \cup Safe'
    BY <2>1, <1>2, <1>3, <1>6
  <2> QED
    BY <2>2, <1>8, <1>9 DEF FileCovers, In
<1>10. CASE log' = <<>> /\ ~readable' /\ In(copy[w]) \subseteq atRisk'
  <2>1. In(copy[w]) \subseteq Safe'
    BY <1>10 DEF Safe
  <2>2. Stored' \subseteq Safe'
    BY <2>1, <1>2, <1>3, <1>6
  <2> QED
    BY <2>2, <1>8, <1>10 DEF FileCovers
<1> QED
  BY <1>8, <1>9, <1>10 DEF Fill, readable, FileCovers

\* A restart: what the writers of a truncated file held counts as exposed.
LEMMA RestartStep ==
  ASSUME TypeOK, HoldersCover, FileCovers, [Next]_vars, Restart
  PROVE  HoldersCover' /\ FileCovers'
<1> USE DEF fileVars, archiveVars
<1>1. \A w \in Writers : phase'[w] = IF UnderWay(w) THEN "failed" ELSE phase[w]
  BY DEF Restart
<1>2. \A w \in Writers : phase'[w] \notin HoldingPhases
  BY <1>1 DEF UnderWay, HoldingPhases
<1>3. Safe \subseteq Safe' /\ Stored' \subseteq Stored
  BY <1>1, SafeStays DEF Stored
<1>4. HoldersCover'
  BY <1>2 DEF HoldersCover, HoldingPhases
<1>5. log' = log /\ text' = text
  BY DEF Restart
<1>6. ASSUME ~readable, NEW v \in Writing PROVE Stored \subseteq Safe'
  <2>1. Stored \subseteq In(copy[v]) \cup Safe
    BY <1>6 DEF HoldersCover, Writing
  <2>2. In(copy[v]) \subseteq atRisk'
    BY <1>6 DEF Restart
  <2> QED
    BY <1>3, <2>1, <2>2 DEF Safe
<1>7. FileCovers'
  BY <1>3, <1>5, <1>6 DEF FileCovers, readable, In
<1> QED
  BY <1>4, <1>7

\* Storing an entry, in three steps.
LEMMA StoreStep ==
  ASSUME TypeOK, HoldersCover, FileCovers, [Next]_vars, NEW w \in Writers, Store(w)
  PROVE  HoldersCover' /\ FileCovers'
BY ReadLogStep, TruncateStep, FillStep DEF Store

\* Each step leaves nothing uncovered.
LEMMA CoverStep == TypeOK /\ HoldersCover /\ FileCovers /\ [Next]_vars => HoldersCover' /\ FileCovers'
<1> SUFFICES ASSUME TypeOK, HoldersCover, FileCovers, [Next]_vars
             PROVE  HoldersCover' /\ FileCovers'
  OBVIOUS
<1>0. Turns \subseteq Writers /\ Notices \subseteq Writers /\ Archivings \subseteq Writers
  BY DEF Writers
<1> USE <1>0 DEF fileVars, archiveVars, confirmVars, Goes
<1>1. ASSUME NEW r \in Turns, Load(r) PROVE HoldersCover' /\ FileCovers'
  BY <1>1, LoadStep, WritersAssumption DEF Load, Unchanged
<1>2. ASSUME NEW r \in Turns, AutoArchive(r) PROVE HoldersCover' /\ FileCovers'
  <2>1. Size(copy[r]) >= MinArchived => copy[r] # <<>>
    BY <1>2, SizeType DEF TypeOK
  <2> QED
    BY <1>2, <2>1, CreateArchiveStep, FillArchiveStep DEF AutoArchive
<1>3. ASSUME NEW r \in Turns, ClearChat(r) PROVE HoldersCover' /\ FileCovers'
  <2>1. CASE Clear(r)
    BY <2>1, EmptyStep DEF Clear
  <2>2. CASE Empty(r) /\ \E path \in {"governed", "council", "route"} : Goes(r, "emptying", path)
    BY <2>2, EmptyStep DEF HoldingPhases
  <2> QED
    BY <1>3, <2>1, <2>2 DEF ClearChat
<1>4. ASSUME NEW r \in Turns,
             \/ Examine(r) \/ Propose(r) \/ CarryOut(r) \/ NoArchive(r) \/ Disconnect(r)
             \/ Govern(r) \/ Council(r) \/ Route(r) \/ RunTools(r)
      PROVE  HoldersCover' /\ FileCovers'
  <2>1. \E to \in Phases \ (HoldingPhases \cup {"done"}) : phase' = [phase EXCEPT ![r] = to]
    BY <1>4 DEF Examine, Propose, CarryOut, NoArchive, Disconnect, Govern, Council, Route,
                RunTools, Call, HoldingPhases, Phases
  <2>2. phase[r] # "writing"
    BY <1>4 DEF Examine, Propose, CarryOut, NoArchive, Disconnect, Govern, Council, Route,
                RunTools, Call
  <2>3. log' = log /\ text' = text
    BY <1>4 DEF Examine, Propose, CarryOut, NoArchive, Disconnect, Govern, Council, Route,
                RunTools, Call, Unchanged
  <2>4. \A w \in Writers \ {r} : copy'[w] = copy[w]
    BY <1>4 DEF Examine, Propose, CarryOut, NoArchive, Disconnect, Govern, Council, Route,
                RunTools, Call, Unchanged, TypeOK
  <2>5. Stored' \subseteq Stored
    BY <2>1, StoredStays
  <2>6. /\ \A w \in Writers : phase'[w] \in HoldingPhases => phase'[w] = phase[w] /\ copy'[w] = copy[w]
        /\ \A w \in Writers : phase[w] = "writing" => phase'[w] = "writing"
    BY <2>1, <2>2, <2>4 DEF TypeOK
  <2> QED
    BY <2>3, <2>5, <2>6, QuietStep
<1>5. ASSUME NEW w \in Writers, Store(w) PROVE HoldersCover' /\ FileCovers'
  BY <1>5, StoreStep
<1>6. ASSUME NEW a \in Archivings, ReadForArchive(a) PROVE HoldersCover' /\ FileCovers'
  BY <1>6, LoadStep DEF ReadForArchive, Unchanged
<1>7. ASSUME NEW a \in Archivings, ArchiveByHand(a) PROVE HoldersCover' /\ FileCovers'
  BY <1>7, CreateArchiveStep, FillArchiveStep DEF ArchiveByHand
<1>8. ASSUME NEW a \in Archivings, ClearByHand(a) PROVE HoldersCover' /\ FileCovers'
  <2>1. CASE Clear(a)
    BY <2>1, EmptyStep DEF Clear
  <2>2. CASE Empty(a) /\ Goes(a, "emptying", "done")
    BY <2>2, EmptyStep, ArchivingsAreNotEntries DEF HoldingPhases
  <2> QED
    BY <1>8, <2>1, <2>2 DEF ClearByHand
<1>9. CASE Restart
  BY <1>9, RestartStep
<1>10. CASE UNCHANGED vars
  BY <1>10 DEF vars, HoldersCover, FileCovers, readable, Stored, Safe, Archived, Writing, In
<1> QED
  BY <1>1, <1>2, <1>3, <1>4, <1>5, <1>6, <1>7, <1>8, <1>9, <1>10 DEF Next, TurnStep, ArchiveStep

-----------------------------------------------------------------------------
(* Proposals are settled once.                                             *)

\* Each step moves a proposal on or leaves it where it is.
LEMMA ProposalStep ==
  TypeOK /\ ProposalsMoveOn /\ CarriedOutOnce /\ [Next]_vars => ProposalsMoveOn' /\ CarriedOutOnce'
<1> SUFFICES ASSUME TypeOK, ProposalsMoveOn, CarriedOutOnce, [Next]_vars
             PROVE  ProposalsMoveOn' /\ CarriedOutOnce'
  OBVIOUS
<1>0. /\ Turns \subseteq Writers /\ Notices \subseteq Writers /\ Archivings \subseteq Writers
      /\ Turns \subseteq Proposals /\ NoTurn \notin Proposals
      /\ Turns \cap Notices = {} /\ Turns \cap Archivings = {}
  BY WritersAssumption DEF Writers, Proposals
<1> USE <1>0 DEF confirmVars, Goes, ProposalsMoveOn, Unused
<1>1. ASSUME UNCHANGED confirmVars,
             \A r \in Turns : phase'[r] \in {"new", "proposing"} => phase[r] \in {"new", "proposing"}
      PROVE  ProposalsMoveOn' /\ CarriedOutOnce'
  BY <1>1 DEF CarriedOutOnce
<1>2. ASSUME NEW w \in Writers, UNCHANGED confirmVars,
             NEW to, to \notin {"new", "proposing"}, phase' = [phase EXCEPT ![w] = to]
      PROVE  ProposalsMoveOn' /\ CarriedOutOnce'
  BY <1>1, <1>2 DEF TypeOK
<1>3. ASSUME NEW r \in Turns, Examine(r) PROVE ProposalsMoveOn' /\ CarriedOutOnce'
  <2>1. PICK m \in Messages :
          \/ /\ pending # NoTurn
             /\ taken' = [taken EXCEPT ![r] = pending]
             /\ pending' = NoTurn /\ dropped' = dropped
             /\ phase' = [phase EXCEPT ![r] = "confirmed"]
          \/ /\ pending # NoTurn
             /\ dropped' = dropped \cup {pending}
             /\ pending' = NoTurn /\ taken' = taken
             /\ phase' = [phase EXCEPT ![r] = "merge"]
          \/ /\ pending' = pending /\ taken' = taken /\ dropped' = dropped
             /\ phase' = [phase EXCEPT ![r] = IF m.proposes THEN "proposing" ELSE "loading"]
    BY <1>3 DEF Examine
  <2>2. carried' = carried /\ phase[r] = "new"
    BY <1>3 DEF Examine
  <2>3. pending # NoTurn => \A q \in Turns : taken[q] # pending
    BY DEF TypeOK, HeldWhileConfirmed
  <2>4. \A q \in Turns \ {r} : phase'[q] = phase[q]
    BY <2>1 DEF TypeOK
  <2>5. pending' = pending \/ pending' = NoTurn
    BY <2>1
  <2>6. ASSUME NEW q \in Turns, phase'[q] \in {"new", "proposing"} PROVE Unused(q)'
    <3>1. phase[q] \in {"new", "proposing"}
      BY <2>2, <2>4, <2>6
    <3> QED
      BY <2>1, <2>2, <3>1 DEF TypeOK
  <2>7. pending' # NoTurn => carried'[pending'] = 0 /\ pending' \notin dropped'
    BY <2>1, <2>2
  <2>8. ASSUME NEW q \in Turns, taken'[q] # NoTurn
        PROVE  /\ carried'[taken'[q]] = 0 /\ taken'[q] \notin dropped'
               /\ \A u \in Turns \ {q} : taken'[u] # taken'[q]
    BY <2>1, <2>2, <2>3, <2>8 DEF TypeOK
  <2>9. ProposalsMoveOn'
    BY <2>6, <2>7, <2>8
  <2>10. CarriedOutOnce'
    BY <2>1, <2>2 DEF CarriedOutOnce, TypeOK
  <2> QED
    BY <2>9, <2>10
<1>4. ASSUME NEW r \in Turns, Propose(r) PROVE ProposalsMoveOn' /\ CarriedOutOnce'
  <2>1. /\ phase[r] = "proposing" /\ phase' = [phase EXCEPT ![r] = "merge"]
        /\ pending' = r /\ dropped' = dropped \cup ({pending} \ {NoTurn})
        /\ carried' = carried /\ taken' = taken
    BY <1>4 DEF Propose
  <2>2. pending # NoTurn => \A q \in Turns : taken[q] # pending
    BY DEF TypeOK, HeldWhileConfirmed
  <2>3. ProposalsMoveOn'
    BY <2>1, <2>2 DEF TypeOK
  <2>4. CarriedOutOnce'
    BY <2>1 DEF CarriedOutOnce, TypeOK
  <2> QED
    BY <2>3, <2>4
<1>5. ASSUME NEW r \in Turns, CarryOut(r) PROVE ProposalsMoveOn' /\ CarriedOutOnce'
  <2>1. /\ phase[r] = "confirmed"
        /\ \E to \in {"merge", "failed"} : phase' = [phase EXCEPT ![r] = to]
        /\ taken' = [taken EXCEPT ![r] = NoTurn]
        /\ pending' = pending /\ dropped' = dropped
        /\ carried' = carried \/ carried' = [carried EXCEPT ![taken[r]] = carried[taken[r]] + 1]
    BY <1>5 DEF CarryOut
  <2>2. taken[r] \in Proposals /\ taken[r] # pending
    BY <2>1 DEF TypeOK, HeldWhileConfirmed
  <2>3. \A p \in Proposals \ {taken[r]} : carried'[p] = carried[p]
    BY <2>1, <2>2 DEF TypeOK
  <2>4. carried'[taken[r]] \in {0, 1}
    BY <2>1, <2>2 DEF TypeOK
  <2>5. ProposalsMoveOn'
    BY <2>1, <2>2, <2>3 DEF TypeOK
  <2>6. CarriedOutOnce'
    BY <2>1, <2>2, <2>3, <2>4 DEF CarriedOutOnce
  <2> QED
    BY <2>5, <2>6
<1>6. CASE Restart
  <2>1. /\ pending' = NoTurn /\ taken' = [r \in Turns |-> NoTurn]
        /\ carried' = carried /\ dropped' = dropped
        /\ \A r \in Turns : phase'[r] = IF UnderWay(r) THEN "failed" ELSE phase[r]
    BY <1>6 DEF Restart
  <2>2. \A r \in Turns : phase'[r] = "new" => phase[r] = "new"
    BY <2>1
  <2>3. \A r \in Turns : phase'[r] # "proposing"
    BY <2>1 DEF UnderWay
  <2> QED
    BY <2>1, <2>2, <2>3 DEF CarriedOutOnce
<1>7. ASSUME NEW r \in Turns,
             \/ Load(r) \/ AutoArchive(r) \/ NoArchive(r) \/ ClearChat(r) \/ Disconnect(r)
             \/ Govern(r) \/ Council(r) \/ Route(r) \/ RunTools(r)
      PROVE  ProposalsMoveOn' /\ CarriedOutOnce'
  <2>1. UNCHANGED confirmVars
    BY <1>7 DEF Load, AutoArchive, NoArchive, ClearChat, Disconnect, Govern, Council, Route,
                RunTools, Call, Unchanged, CreateArchive, FillArchive, Clear, Empty
  <2>2. \E to \in Phases \ {"new", "proposing"} : phase' = [phase EXCEPT ![r] = to]
    BY <1>7 DEF Load, AutoArchive, NoArchive, ClearChat, Disconnect, Govern, Council, Route,
                RunTools, Call, CreateArchive, FillArchive, Clear, Phases
  <2> QED
    BY <1>2, <2>1, <2>2
<1>8. ASSUME NEW w \in Writers, Store(w) PROVE ProposalsMoveOn' /\ CarriedOutOnce'
  BY <1>2, <1>8 DEF Store, ReadLog, Truncate, Fill
<1>9. ASSUME NEW a \in Archivings, ArchiveStep(a) PROVE ProposalsMoveOn' /\ CarriedOutOnce'
  <2>1. UNCHANGED confirmVars
    BY <1>9 DEF ArchiveStep, ReadForArchive, ArchiveByHand, ClearByHand, Unchanged,
                CreateArchive, FillArchive, Clear, Empty
  <2>2. \E to \in Phases \ {"new", "proposing"} : phase' = [phase EXCEPT ![a] = to]
    BY <1>9 DEF ArchiveStep, ReadForArchive, ArchiveByHand, ClearByHand, CreateArchive,
                FillArchive, Clear, Phases
  <2> QED
    BY <1>2, <2>1, <2>2
<1>10. CASE UNCHANGED vars
  BY <1>1, <1>10 DEF vars
<1> QED
  BY <1>3, <1>4, <1>5, <1>6, <1>7, <1>8, <1>9, <1>10 DEF Next, TurnStep

-----------------------------------------------------------------------------
(* Theorems.                                                               *)

\* The chat keeps its invariant.
THEOREM Invariance == Spec => []IInv
<1>1. IInv /\ [Next]_vars => IInv'
  BY TypeStep, CoverStep, ProposalStep DEF IInv
<1> QED
  BY InitInv, <1>1, PTL DEF Spec

\* The chat file, the copies, the archives and the proposals keep their types, and a
\* proposal is held exactly while it is carried out.
THEOREM TypeCorrect == Spec => []TypeOK
<1>1. IInv => TypeOK
  BY DEF IInv
<1> QED
  BY Invariance, <1>1, PTL

\* Whatever races, restarts and disconnects there are: a stored entry that was not
\* exposed is in the chat, in an archive or with the writer that truncated the file.
THEOREM NothingElseIsLost == Spec => []LostOnlyIfAtRisk
<1>1. IInv => LostOnlyIfAtRisk
  <2> SUFFICES ASSUME IInv, NEW e \in Stored PROVE e \in Kept \cup atRisk
    BY DEF LostOnlyIfAtRisk, Stored
  <2>1. CASE readable
    BY <2>1 DEF IInv, FileCovers, Safe, Kept
  <2>2. CASE ~readable /\ Stored \subseteq Safe
    BY <2>2 DEF Safe, Kept
  <2>3. ASSUME NEW w \in Writing PROVE e \in Kept \cup atRisk
    <3>1. e \in In(copy[w]) \cup Safe
      BY <2>3 DEF IInv, HoldersCover, Writing
    <3> QED
      BY <3>1 DEF Safe, Kept
  <2> QED
    BY <2>1, <2>2, <2>3 DEF IInv, FileCovers
<1> QED
  BY Invariance, <1>1, PTL

\* A proposal is carried out at most once, and not after it was cancelled or replaced.
THEOREM ProposalsSettleOnce == Spec => []CarriedOutOnce
<1>1. IInv => CarriedOutOnce
  BY DEF IInv
<1> QED
  BY Invariance, <1>1, PTL
=============================================================================
