---------------------------- MODULE Skills_proofs ----------------------------
(***************************************************************************)
(* Confirmation nonces and the filesystem skill's stash, for any number of *)
(* calls, permits, nonces and MCP servers.                                 *)
(*                                                                         *)
(* ConfirmedOnce is not inductive.  That a nonce pays once needs that it   *)
(* is out of the map while the call it was redeemed by waits for a permit, *)
(* and that no two waiting calls hold the same one; that a confirmed tool  *)
(* was paid for needs what the gate saw to survive the second lookup, and  *)
(* the semaphore's queue to hold each waiting call once.                   *)
(*                                                                         *)
(* The last part is about the cooperative-install skill (HostInstall).     *)
(***************************************************************************)
EXTENDS Skills, HostInstall, SequenceTheorems, FiniteSetTheorems, TLAPS

\* What the fields of a call range over; what a tool answers is left open.
Names == STRING \union {NoTool}
Outs == Results \union {"confirm", "refused"}
                \union UNION {ToolOutcomes(name, arg) : name \in Names, arg \in Args}
CallRecord == [pc : PCs, kind : {"api", "loop"}, id : Ids \union {NoTool}, name : Names,
               arg : Args, tier : Tiers, nonce : 0 .. MaxNonces, changed : BOOLEAN,
               child : BOOLEAN, out : Outs, failure : Calls \union {NoOne}, mixed : BOOLEAN]
NonceRecord == [id : Ids, name : Names, state : {"fresh", "stale", "gone"}]

Typed ==
    /\ setup \in Setups
    /\ registry \in [Ids -> Tiers]
    /\ nonces \in Seq(NonceRecord) /\ Len(nonces) <= MaxNonces
    /\ call \in [Calls -> CallRecord]
    /\ queue \in Seq(Calls)
    /\ stash \in Calls \union {NoOne}
    /\ uses \in [1 .. MaxNonces -> Nat]
    /\ \A c \in Calls : call[c].pc \notin {"idle", "done"} => call[c].id \in Ids

\* The calls in the semaphore's queue are those that wait, each once.
QueueWaits ==
    /\ \A c \in Calls : call[c].pc = "queued" => \E i \in 1 .. Len(queue) : queue[i] = c
    /\ \A i \in 1 .. Len(queue) : call[queue[i]].pc = "queued"
    /\ \A i, j \in 1 .. Len(queue) : queue[i] = queue[j] => i = j

\* A call that paid nothing was not asked to, and the tool it found asks for nothing.
UnpaidIsFree ==
    \A c \in Calls :
        call[c].kind = "api" /\ call[c].nonce = 0 /\ ~ call[c].changed =>
          /\ call[c].pc = "execute" => ~ RequiresConfirmation(call[c].id, call[c].name)
          /\ call[c].pc \in {"queued", "running", "taking"} =>
                ~ ToolsOf(call[c].id, call[c].tier)[call[c].name].confirm

\* A nonce that a call holds was issued for its tool and is out of the map.
PaidIsGone ==
    \A c \in Calls :
        /\ call[c].pc \in {"idle", "gate", "done"} => call[c].nonce = 0
        /\ call[c].nonce # 0 =>
             /\ call[c].nonce <= Len(nonces)
             /\ nonces[call[c].nonce].state = "gone"
             /\ Matches(nonces[call[c].nonce], c)

\* A call that has paid and not run yet holds a nonce that nobody ran on or holds.
Holds(c) == call[c].pc \in {"execute", "queued"} /\ call[c].nonce # 0
HeldIsUnused ==
    /\ \A c \in Calls : Holds(c) => uses[call[c].nonce] = 0
    /\ \A c, d \in Calls : Holds(c) /\ Holds(d) /\ call[c].nonce = call[d].nonce => c = d

\* A nonce that is still in the map, or not issued, paid for nothing.
UnspentIsUnused ==
    \A n \in 1 .. MaxNonces :
        /\ uses[n] <= 1
        /\ n > Len(nonces) \/ nonces[n].state # "gone" => uses[n] = 0

IInv == /\ Typed
        /\ QueueWaits
        /\ UnpaidIsFree
        /\ PaidIsGone
        /\ HeldIsUnused
        /\ UnspentIsUnused

\* The only file call at work finds its own failure in the stash.
AloneOwnsTheStash ==
    \A c \in Calls :
        /\ call[c].pc = "taking" => call[c].name \in DOMAIN FileTools
        /\ Filing(c) /\ ~ call[c].mixed =>
             /\ \A d \in Calls : Filing(d) => d = c
             /\ call[c].pc = "taking" => stash = c

\* Nothing is known of its skill before a call has found it.
TierIsFound ==
    \A c \in Calls : call[c].pc \in {"gate", "execute"} => call[c].tier = "absent"

FInv == AloneOwnsTheStash /\ TierIsFound /\ OwnFailure

-----------------------------------------------------------------------------
(* The operators on nonces and on the queue.                               *)

\* A function on the first numbers is a sequence of that length.
LEMMA FunctionIsSequence ==
  ASSUME NEW S, NEW n \in Nat, NEW f \in [1 .. n -> S]
  PROVE  f \in Seq(S) /\ Len(f) = n
  OBVIOUS

\* Forgetting the expired nonces changes no nonce but these, and none in number.
LEMMA RetainKeeps ==
  ASSUME NEW ns \in Seq(NonceRecord)
  PROVE  /\ Retain(ns) \in Seq(NonceRecord) /\ Len(Retain(ns)) = Len(ns)
         /\ \A i \in 1 .. Len(ns) :
              /\ Retain(ns)[i].id = ns[i].id /\ Retain(ns)[i].name = ns[i].name
              /\ Retain(ns)[i].state = IF ns[i].state = "stale" THEN "gone" ELSE ns[i].state
<1>1. Len(ns) \in Nat /\ DOMAIN ns = 1 .. Len(ns)
  BY LenProperties
<1>2. \A i \in 1 .. Len(ns) : ns[i] \in NonceRecord
  BY ElementOfSeq
<1>3. Retain(ns) \in [1 .. Len(ns) -> NonceRecord]
  BY <1>1, <1>2 DEF Retain, NonceRecord
<1>4. Retain(ns) \in Seq(NonceRecord) /\ Len(Retain(ns)) = Len(ns)
  BY ONLY <1>1, <1>3, FunctionIsSequence
<1> QED
  BY <1>1, <1>2, <1>4 DEF Retain, NonceRecord

\* Redeeming a nonce takes it out of the map and touches no other.
LEMMA RedeemKeeps ==
  ASSUME NEW ns \in Seq(NonceRecord), NEW n \in Nat
  PROVE  /\ Redeem(ns, n) \in Seq(NonceRecord) /\ Len(Redeem(ns, n)) = Len(ns)
         /\ \A i \in 1 .. Len(ns) :
              /\ Redeem(ns, n)[i].id = ns[i].id /\ Redeem(ns, n)[i].name = ns[i].name
              /\ Redeem(ns, n)[i].state = IF i = n THEN "gone" ELSE ns[i].state
<1>1. Len(ns) \in Nat /\ DOMAIN ns = 1 .. Len(ns)
  BY LenProperties
<1>2. \A i \in 1 .. Len(ns) : ns[i] \in NonceRecord
  BY ElementOfSeq
<1>3. Redeem(ns, n) \in [1 .. Len(ns) -> NonceRecord]
  BY <1>1, <1>2 DEF Redeem, NonceRecord
<1>4. Redeem(ns, n) \in Seq(NonceRecord) /\ Len(Redeem(ns, n)) = Len(ns)
  BY ONLY <1>1, <1>3, FunctionIsSequence
<1> QED
  BY <1>1, <1>2, <1>4 DEF Redeem, NonceRecord

\* A call that leaves the queue leaves nothing of itself there and takes no other along.
LEMMA QueueWithout ==
  ASSUME NEW q \in Seq(Calls), NEW i \in 1 .. Len(q),
         \A j, k \in 1 .. Len(q) : q[j] = q[k] => j = k
  PROVE  LET r == SubSeq(q, 1, i - 1) \o SubSeq(q, i + 1, Len(q))
         IN  /\ r \in Seq(Calls)
             /\ \A j \in 1 .. Len(r) : \E k \in 1 .. Len(q) : r[j] = q[k] /\ r[j] # q[i]
             /\ \A k \in 1 .. Len(q) : q[k] # q[i] => \E j \in 1 .. Len(r) : r[j] = q[k]
             /\ \A j, k \in 1 .. Len(r) : r[j] = r[k] => j = k
<1> DEFINE a == SubSeq(q, 1, i - 1)
           b == SubSeq(q, i + 1, Len(q))
<1>1. Len(q) \in Nat /\ \A j \in 1 .. Len(q) : q[j] \in Calls
  BY LenProperties, ElementOfSeq
<1>2. /\ a \in Seq(Calls) /\ Len(a) = i - 1
      /\ \A j \in 1 .. i - 1 : a[j] = q[j]
  <2>1. \A j \in 1 .. i - 1 : q[j] \in Calls
    BY <1>1
  <2> QED
    BY <1>1, <2>1, SubSeqProperties
<1>3. /\ b \in Seq(Calls) /\ Len(b) = Len(q) - i
      /\ \A j \in 1 .. Len(q) - i : b[j] = q[i + j]
  <2>1. \A j \in i + 1 .. Len(q) : q[j] \in Calls
    BY <1>1
  <2> HIDE DEF b
  <2>2. /\ b \in Seq(Calls)
        /\ Len(b) = IF i + 1 <= Len(q) THEN Len(q) - (i + 1) + 1 ELSE 0
        /\ \A j \in 1 .. Len(q) - (i + 1) + 1 : b[j] = q[(i + 1) + j - 1]
    BY <1>1, <2>1, SubSeqProperties DEF b
  <2> QED
    BY <1>1, <2>2
<1> HIDE DEF a, b
<1>4. /\ a \o b \in Seq(Calls) /\ Len(a \o b) = Len(q) - 1
      /\ \A j \in 1 .. Len(q) - 1 : (a \o b)[j] = IF j < i THEN q[j] ELSE q[j + 1]
  <2>1. /\ a \o b \in Seq(Calls) /\ Len(a \o b) = Len(a) + Len(b)
        /\ \A j \in 1 .. Len(a) + Len(b) :
             (a \o b)[j] = IF j <= Len(a) THEN a[j] ELSE b[j - Len(a)]
    <3>1. a \in Seq(Calls) /\ b \in Seq(Calls)
      BY <1>2, <1>3
    <3> QED
      BY ONLY <3>1, ConcatProperties
  <2>2. i \in Int /\ Len(a) + Len(b) = Len(q) - 1
    BY <1>1, <1>2, <1>3
  <2> DEFINE ab == a \o b
  <2> HIDE DEF ab
  <2>3. \A j \in 1 .. Len(q) - 1 : ab[j] = IF j <= i - 1 THEN a[j] ELSE b[j - (i - 1)]
    BY <1>2, <2>1, <2>2 DEF ab
  <2>4. \A j \in 1 .. Len(q) - 1 : ab[j] = IF j < i THEN q[j] ELSE q[j + 1]
    <3> SUFFICES ASSUME NEW j \in 1 .. Len(q) - 1
                 PROVE  ab[j] = IF j < i THEN q[j] ELSE q[j + 1]
      OBVIOUS
    <3>1. CASE j < i
      <4>1. j \in 1 .. i - 1 /\ j <= i - 1
        BY <1>1, <2>2, <3>1
      <4> QED
        BY <1>2, <2>3, <3>1, <4>1
    <3>2. CASE ~ (j < i)
      <4>1. j - (i - 1) \in 1 .. Len(q) - i /\ i + (j - (i - 1)) = j + 1
        BY <1>1, <2>2, <3>2
      <4> QED
        BY <1>1, <1>3, <2>2, <2>3, <3>2, <4>1
    <3> QED
      BY <3>1, <3>2
  <2> QED
    BY <2>1, <2>2, <2>4 DEF ab
<1> DEFINE r == a \o b
<1>5. r \in Seq(Calls) /\ Len(r) = Len(q) - 1
  BY <1>4
<1>6. \A j \in 1 .. Len(r) : r[j] = IF j < i THEN q[j] ELSE q[j + 1]
  BY <1>4
<1> HIDE DEF r
<1>7. \A j \in 1 .. Len(r) : \E k \in 1 .. Len(q) : r[j] = q[k] /\ r[j] # q[i]
  <2> SUFFICES ASSUME NEW j \in 1 .. Len(r)
               PROVE  \E k \in 1 .. Len(q) : r[j] = q[k] /\ r[j] # q[i]
    OBVIOUS
  <2> DEFINE k == IF j < i THEN j ELSE j + 1
  <2>1. k \in 1 .. Len(q) /\ k # i /\ r[j] = q[k]
    BY <1>1, <1>5, <1>6
  <2> QED
    BY <2>1
<1>8. \A j, k \in 1 .. Len(r) : r[j] = r[k] => j = k
  <2> SUFFICES ASSUME NEW j \in 1 .. Len(r), NEW k \in 1 .. Len(r), r[j] = r[k] PROVE j = k
    OBVIOUS
  <2> DEFINE J == IF j < i THEN j ELSE j + 1
             K == IF k < i THEN k ELSE k + 1
  <2>1. J \in 1 .. Len(q) /\ K \in 1 .. Len(q) /\ q[J] = q[K]
    BY <1>1, <1>5, <1>6
  <2>2. J = K
    BY <2>1
  <2> QED
    BY <1>1, <2>2
<1>9. \A k \in 1 .. Len(q) : q[k] # q[i] => \E j \in 1 .. Len(r) : r[j] = q[k]
  <2> SUFFICES ASSUME NEW k \in 1 .. Len(q), q[k] # q[i]
               PROVE  \E j \in 1 .. Len(r) : r[j] = q[k]
    OBVIOUS
  <2>1. CASE k < i
    <3>1. k \in 1 .. Len(r) /\ r[k] = q[k]
      BY <1>1, <1>5, <1>6, <2>1
    <3> QED
      BY <3>1
  <2>2. CASE ~ (k < i)
    <3>1. k - 1 \in 1 .. Len(r) /\ ~ (k - 1 < i) /\ (k - 1) + 1 = k
      BY <1>1, <1>5, <2>2
    <3>2. r[k - 1] = q[k]
      BY <1>6, <3>1
    <3> QED
      BY <3>1, <3>2
  <2> QED
    BY <2>1, <2>2
<1> QED
  BY <1>5, <1>7, <1>8, <1>9 DEF r, a, b

-----------------------------------------------------------------------------
(* Types.                                                                  *)

LEMMA NamesOffered ==
  ASSUME Typed PROVE setup.offered \subseteq Names /\ setup.permits \in Nat
  BY SkillsAssumption DEF Typed, Names

LEMMA IdleIsACall == IdleCall \in CallRecord /\ IdleCall.pc = "idle" /\ IdleCall.nonce = 0
<1>1. "ok" \in Outs
  BY DEF Outs, Results
<1>2. NoTool \in Names /\ 0 \in 0 .. MaxNonces
  BY SkillsAssumption DEF Names
<1> HIDE DEF Outs, Names, NoTool, NoOne
<1> QED
  BY <1>1, <1>2 DEF IdleCall, CallRecord, PCs, Args, Tiers

\* A call that is answered is over, holds no nonce, and if it was a file call keeps
\* what it was asked.
LEMMA AnsweredIsOver ==
  ASSUME Typed, NEW c \in Calls, NEW out \in Outs
  PROVE  /\ Answer(c, out) \in CallRecord
         /\ Answer(c, out).pc \in {"idle", "done"} /\ Answer(c, out).nonce = 0
         /\ Answer(c, out).pc = "done" =>
              /\ call[c].name \in DOMAIN FileTools
              /\ Answer(c, out).out = out /\ Answer(c, out).name = call[c].name
              /\ Answer(c, out).arg = call[c].arg /\ Answer(c, out).tier = call[c].tier
              /\ Answer(c, out).mixed = call[c].mixed
<1>1. call[c] \in CallRecord
  BY DEF Typed
<1>2. CASE call[c].name \in DOMAIN FileTools
  <2>1. Answer(c, out) =
          [pc |-> "done", kind |-> "api", id |-> NoTool, name |-> call[c].name,
           arg |-> call[c].arg, tier |-> call[c].tier, nonce |-> 0, changed |-> FALSE,
           child |-> FALSE, out |-> out, failure |-> NoOne, mixed |-> call[c].mixed]
    BY <1>2 DEF Answer, IdleCall
  <2> HIDE DEF Answer
  <2> QED
    BY <1>1, <1>2, <2>1, SkillsAssumption DEF CallRecord, PCs
<1>3. CASE ~ (call[c].name \in DOMAIN FileTools)
  BY <1>3, IdleIsACall DEF Answer
<1> QED
  BY <1>2, <1>3

\* What the steps answer with.
LEMMA AnswersAreOuts ==
  /\ {"confirm", "refused", "err", "denied"} \subseteq Outs
  /\ Typed => \A c \in Calls : ToolOutcomes(call[c].name, call[c].arg) \subseteq Outs
<1>1. {"confirm", "refused", "err", "denied"} \subseteq Outs
  BY DEF Outs, Results, Kinds
<1>2. ASSUME Typed, NEW c \in Calls PROVE ToolOutcomes(call[c].name, call[c].arg) \subseteq Outs
  <2>1. call[c].name \in Names /\ call[c].arg \in Args
    BY <1>2 DEF Typed, CallRecord
  <2> HIDE DEF Names
  <2> QED
    BY <2>1 DEF Outs
<1> QED
  BY <1>1, <1>2

\* Call c is over and no other call has changed.
Ends(c) == /\ call' \in [Calls -> CallRecord]
           /\ \A d \in Calls \ {c} : call'[d] = call[d]
           /\ call'[c].pc \in {"idle", "done"} /\ call'[c].nonce = 0

\* The ways in which a call ends.
LEMMA EndingCalls ==
  ASSUME Typed, NEW c \in Calls,
         \/ call' = [call EXCEPT ![c] = IdleCall]
         \/ \E out \in Outs : call' = [call EXCEPT ![c] = Answer(c, out)]
  PROVE  Ends(c)
<1>1. \E r \in CallRecord : /\ call' = [call EXCEPT ![c] = r]
                            /\ r.pc \in {"idle", "done"} /\ r.nonce = 0
  <2>1. CASE call' = [call EXCEPT ![c] = IdleCall]
    BY <2>1, IdleIsACall
  <2>2. CASE \E out \in Outs : call' = [call EXCEPT ![c] = Answer(c, out)]
    BY <2>2, AnsweredIsOver
  <2> QED
    BY <2>1, <2>2
<1> QED
  BY <1>1 DEF Typed, Ends

\* Nonces may be added and forgotten; none comes back and none is rewritten.
NoncesAge ==
    /\ nonces' \in Seq(NonceRecord)
    /\ Len(nonces) <= Len(nonces') /\ Len(nonces') <= MaxNonces
    /\ \A i \in 1 .. Len(nonces) :
         /\ nonces'[i].id = nonces[i].id /\ nonces'[i].name = nonces[i].name
         /\ nonces[i].state = "gone" => nonces'[i].state = "gone"

\* Confirmation, expiry and a restart age the nonces.
LEMMA NoncesOnlyAge ==
  ASSUME Typed,
         \/ UNCHANGED nonces \/ Expire \/ Restart
         \/ \E c \in Calls : IssueNonce(c) \/ \E n \in 0 .. Len(nonces) : ConfirmWith(c, n)
  PROVE  NoncesAge
<1> USE DEF Typed
<1>0. Len(nonces) \in Nat
  BY LenProperties
<1>1. CASE UNCHANGED nonces
  BY <1>0, <1>1 DEF NoncesAge
<1>2. CASE Expire
  <2>1. PICK n \in 1 .. Len(nonces) : /\ nonces[n].state = "fresh"
                                      /\ nonces' = [nonces EXCEPT ![n].state = "stale"]
    BY <1>2, LenProperties DEF Expire
  <2> DEFINE r == [nonces[n] EXCEPT !.state = "stale"]
  <2>2. r \in NonceRecord /\ r.id = nonces[n].id /\ r.name = nonces[n].name
    <3>1. nonces[n] \in NonceRecord
      BY ElementOfSeq
    <3> QED
      BY <3>1 DEF NonceRecord
  <2>3. nonces' = [nonces EXCEPT ![n] = r]
    BY <2>1
  <2> HIDE DEF r
  <2>4. /\ nonces' \in Seq(NonceRecord) /\ Len(nonces') = Len(nonces)
        /\ \A i \in 1 .. Len(nonces) : nonces'[i] = IF i = n THEN r ELSE nonces[i]
    BY <2>2, <2>3, ExceptSeq
  <2> QED
    BY <1>0, <2>1, <2>2, <2>4 DEF NoncesAge
<1>3. ASSUME NEW c \in Calls, IssueNonce(c) PROVE NoncesAge
  <2> DEFINE r == [id |-> call[c].id, name |-> call[c].name, state |-> "fresh"]
             ns == Retain(nonces)
  <2>1. r \in NonceRecord
    BY <1>3 DEF IssueNonce, CallRecord, NonceRecord, PCs
  <2>2. nonces' = Append(ns, r) /\ Len(nonces) < MaxNonces
    BY <1>3 DEF IssueNonce
  <2>3. /\ ns \in Seq(NonceRecord) /\ Len(ns) = Len(nonces)
        /\ \A i \in 1 .. Len(nonces) :
             /\ ns[i].id = nonces[i].id /\ ns[i].name = nonces[i].name
             /\ nonces[i].state = "gone" => ns[i].state = "gone"
    BY RetainKeeps
  <2> HIDE DEF r, ns
  <2>4. /\ nonces' \in Seq(NonceRecord) /\ Len(nonces') = Len(nonces) + 1
        /\ \A i \in 1 .. Len(nonces) : nonces'[i] = ns[i]
    BY <1>0, <2>1, <2>2, <2>3
  <2> QED
    BY <1>0, <2>2, <2>3, <2>4, SkillsAssumption DEF NoncesAge
<1>4. ASSUME NEW c \in Calls, NEW n \in 0 .. Len(nonces), ConfirmWith(c, n) PROVE NoncesAge
  <2> DEFINE ns == Retain(nonces)
  <2>1. /\ ns \in Seq(NonceRecord) /\ Len(ns) = Len(nonces)
        /\ \A i \in 1 .. Len(nonces) :
             /\ ns[i].id = nonces[i].id /\ ns[i].name = nonces[i].name
             /\ nonces[i].state = "gone" => ns[i].state = "gone"
    BY RetainKeeps
  <2>2. nonces' = Redeem(ns, n) /\ n \in Nat
    BY <1>0, <1>4 DEF ConfirmWith
  <2> HIDE DEF ns
  <2>3. /\ nonces' \in Seq(NonceRecord) /\ Len(nonces') = Len(nonces)
        /\ \A i \in 1 .. Len(nonces) :
             /\ nonces'[i].id = ns[i].id /\ nonces'[i].name = ns[i].name
             /\ ns[i].state = "gone" => nonces'[i].state = "gone"
    BY <2>1, <2>2, RedeemKeeps
  <2> QED
    BY <1>0, <2>1, <2>3 DEF NoncesAge
<1>5. CASE Restart
  <2> DEFINE r == [n \in 1 .. Len(nonces) |-> [nonces[n] EXCEPT !.state = "gone"]]
  <2>1. nonces' = r
    BY <1>5, LenProperties DEF Restart
  <2>2. \A n \in 1 .. Len(nonces) :
          /\ r[n] \in NonceRecord /\ r[n].state = "gone"
          /\ r[n].id = nonces[n].id /\ r[n].name = nonces[n].name
    <3> SUFFICES ASSUME NEW n \in 1 .. Len(nonces)
                 PROVE  /\ r[n] \in NonceRecord /\ r[n].state = "gone"
                        /\ r[n].id = nonces[n].id /\ r[n].name = nonces[n].name
      OBVIOUS
    <3>1. nonces[n] \in NonceRecord
      BY ElementOfSeq
    <3> QED
      BY <3>1 DEF NonceRecord
  <2>3. r \in [1 .. Len(nonces) -> NonceRecord]
    BY <2>2
  <2> HIDE DEF r
  <2>4. r \in Seq(NonceRecord) /\ Len(r) = Len(nonces)
    BY ONLY <1>0, <2>3, FunctionIsSequence
  <2>5. nonces' \in Seq(NonceRecord) /\ Len(nonces') = Len(nonces)
    BY <2>1, <2>4
  <2>6. \A i \in 1 .. Len(nonces) :
          /\ nonces'[i].id = nonces[i].id /\ nonces'[i].name = nonces[i].name
          /\ nonces[i].state = "gone" => nonces'[i].state = "gone"
    BY <2>1, <2>2
  <2> QED
    BY <1>0, <2>5, <2>6 DEF NoncesAge
<1> QED
  BY <1>1, <1>2, <1>3, <1>4, <1>5

\* How each step moves the calls: it ends one, or moves one on, or marks those it
\* disturbs; only a restart and a registration touch more than the file calls.
EndStep(c) ==
    \/ TakeFailure(c) \/ Finish(c) \/ Timeout(c) \/ HangUp(c) \/ Return(c)
    \/ Gate(c) /\ IssueNonce(c)
    \/ /\ Gate(c) /\ \E n \in 0 .. Len(nonces) : ConfirmWith(c, n)
       /\ call' = [call EXCEPT ![c] = Answer(c, "refused")]
    \/ Lookup(c) /\ UNCHANGED queue
    \/ FileStep(c) /\ call'[c].pc # "taking"

\* A denied file call ends with what it found in the stash.
LEMMA TakenIsOver ==
  ASSUME Typed, NEW c \in Calls, TakeFailure(c)
  PROVE  /\ Ends(c)
         /\ call'[c].pc = "done" =>
              /\ call'[c].out = IF stash = NoOne THEN "err" ELSE "denied"
              /\ call'[c].failure = stash /\ call'[c].mixed = call[c].mixed
<1> DEFINE out == IF stash = NoOne THEN "err" ELSE "denied"
           a == Answer(c, out)
           r == [a EXCEPT !.failure = stash]
<1>1. out \in Outs
  BY AnswersAreOuts
<1>2. /\ a \in CallRecord /\ a.pc \in {"idle", "done"} /\ a.nonce = 0
      /\ a.pc = "done" => a.out = out /\ a.mixed = call[c].mixed
  BY <1>1, AnsweredIsOver
<1>3. call' = [call EXCEPT ![c] = r]
  BY DEF TakeFailure
<1> HIDE DEF a, out
<1>4. /\ r \in CallRecord /\ r.pc = a.pc /\ r.nonce = a.nonce
      /\ r.out = a.out /\ r.failure = stash /\ r.mixed = a.mixed
  BY <1>2 DEF Typed, CallRecord
<1> HIDE DEF r
<1>5. call'[c] = r /\ call' \in [Calls -> CallRecord] /\ \A d \in Calls \ {c} : call'[d] = call[d]
  BY <1>3, <1>4 DEF Typed
<1>6. Ends(c)
  BY <1>2, <1>4, <1>5 DEF Ends
<1> QED
  BY <1>2, <1>4, <1>5, <1>6 DEF out

LEMMA EndStepEnds ==
  ASSUME Typed, NEW c \in Calls, EndStep(c) PROVE Ends(c)
<1>1. CASE TakeFailure(c)
  BY <1>1, TakenIsOver
<1>2. CASE ~ TakeFailure(c)
  <2>1. \/ call' = [call EXCEPT ![c] = IdleCall]
        \/ \E out \in Outs : call' = [call EXCEPT ![c] = Answer(c, out)]
    <3>1. CASE IssueNonce(c)
      BY <3>1, AnswersAreOuts DEF IssueNonce
    <3>2. CASE Finish(c)
      BY <3>2, AnswersAreOuts DEF Finish
    <3>3. CASE Timeout(c)
      BY <3>3, AnswersAreOuts DEF Timeout
    <3>4. CASE HangUp(c) \/ Return(c)
      BY <3>4 DEF HangUp, Return
    <3>5. CASE call' = [call EXCEPT ![c] = Answer(c, "refused")]
      BY <3>5, AnswersAreOuts
    <3>6. CASE Lookup(c) /\ UNCHANGED queue
      <4>1. queue # Append(queue, c)
        BY LenProperties DEF Typed
      <4>2. call' = [call EXCEPT ![c] = Answer(c, "err")]
        BY <3>6, <4>1 DEF Lookup
      <4> QED
        BY <4>2, AnswersAreOuts
    <3>7. CASE FileStep(c) /\ call'[c].pc # "taking"
      <4>1. PICK out \in ToolOutcomes(call[c].name, call[c].arg) :
              IF out = "denied" THEN Deny(c)
              ELSE call' = [call EXCEPT ![c] = Answer(c, out)] /\ UNCHANGED stash
        BY <3>7 DEF FileStep
      <4>2. ~ Deny(c)
        BY <3>7 DEF Deny, Typed, CallRecord
      <4> QED
        BY <4>1, <4>2, AnswersAreOuts
    <3> QED
      BY <1>2, <3>1, <3>2, <3>3, <3>4, <3>5, <3>6, <3>7 DEF EndStep
  <2> QED
    BY <2>1, EndingCalls
<1> QED
  BY <1>1, <1>2

\* The steps that move a call on without ending it.
Pay(c, n) == /\ ConfirmWith(c, n) /\ n # 0 /\ Retain(nonces)[n].state = "fresh"
             /\ Matches(nonces[n], c)
             /\ call' = [call EXCEPT ![c].pc = "execute", ![c].nonce = n]
Found(c) == Lookup(c) /\ queue' = Append(queue, c)
Denied(c) == FileStep(c) /\ Deny(c)
OnStep(c) ==
    \/ ApiCall(c) \/ LoopCall(c) \/ Found(c) \/ Acquire(c) \/ Denied(c)
    \/ (Gate(c) /\ NotAsked(c))
    \/ \E n \in 0 .. Len(nonces) : Gate(c) /\ Pay(c, n)

\* The steps of everyone else.
OtherStep ==
    \/ \E id \in McpIds : RegisterMcp(id) \/ ReloadMcp(id)
    \/ Expire \/ ChildEnds \/ Restart

LEMMA NextCases ==
  Typed /\ Next => (\E c \in Calls : EndStep(c) \/ OnStep(c)) \/ OtherStep
<1> SUFFICES ASSUME Typed, Next
             PROVE  (\E c \in Calls : EndStep(c) \/ OnStep(c)) \/ OtherStep
  OBVIOUS
<1>1. ASSUME NEW c \in Calls, Gate(c) PROVE EndStep(c) \/ OnStep(c)
  <2>1. ASSUME NEW n \in 0 .. Len(nonces), ConfirmWith(c, n)
        PROVE  Pay(c, n) \/ call' = [call EXCEPT ![c] = Answer(c, "refused")]
    BY <2>1 DEF ConfirmWith, Pay
  <2> QED
    BY <1>1, <2>1 DEF Gate, EndStep, OnStep
<1>2. ASSUME NEW c \in Calls, Lookup(c) PROVE EndStep(c) \/ OnStep(c)
  <2>1. queue' = Append(queue, c) \/ UNCHANGED queue
    BY <1>2 DEF Lookup
  <2> QED
    BY <1>2, <2>1 DEF EndStep, OnStep, Found
<1>3. ASSUME NEW c \in Calls, FileStep(c) PROVE EndStep(c) \/ OnStep(c)
  <2>1. PICK out \in ToolOutcomes(call[c].name, call[c].arg) :
          IF out = "denied" THEN Deny(c)
          ELSE call' = [call EXCEPT ![c] = Answer(c, out)] /\ UNCHANGED stash
    BY <1>3 DEF FileStep
  <2>2. CASE Deny(c)
    BY <1>3, <2>2 DEF OnStep, Denied
  <2>3. CASE ~ Deny(c)
    <3>1. call' = [call EXCEPT ![c] = Answer(c, out)] /\ out \in Outs
      BY <2>1, <2>3, AnswersAreOuts
    <3>2. call'[c].pc \in {"idle", "done"}
      BY <3>1, EndingCalls DEF Ends
    <3> QED
      BY <1>3, <3>2 DEF EndStep
  <2> QED
    BY <2>2, <2>3
<1>4. ASSUME NEW c \in Calls,
             ApiCall(c) \/ LoopCall(c) \/ Handling(c) \/ Finish(c) \/ HangUp(c)
      PROVE  EndStep(c) \/ OnStep(c)
  <2>1. CASE Gate(c) \/ Lookup(c) \/ FileStep(c)
    BY <1>1, <1>2, <1>3, <2>1
  <2>2. CASE Acquire(c) \/ ApiCall(c) \/ LoopCall(c)
    BY <2>2 DEF OnStep
  <2>3. CASE TakeFailure(c) \/ Timeout(c) \/ Return(c) \/ Finish(c) \/ HangUp(c)
    BY <2>3 DEF EndStep
  <2> QED
    BY <1>4, <2>1, <2>2, <2>3 DEF Handling
<1> QED
  BY <1>4 DEF Next, OtherStep

\* A caller that hangs up in the queue leaves it.
LEMMA LeaveRemoves ==
  ASSUME Typed, QueueWaits, NEW c \in Calls, call[c].pc = "queued", HangUp(c)
  PROVE  /\ queue' \in Seq(Calls)
         /\ \A j \in 1 .. Len(queue') :
              \E k \in 1 .. Len(queue) : queue'[j] = queue[k] /\ queue'[j] # c
         /\ \A k \in 1 .. Len(queue) : queue[k] # c =>
              \E j \in 1 .. Len(queue') : queue'[j] = queue[k]
         /\ \A j, k \in 1 .. Len(queue') : queue'[j] = queue'[k] => j = k
<1> DEFINE i == CHOOSE i \in DOMAIN queue : queue[i] = c
<1>1. i \in 1 .. Len(queue) /\ queue[i] = c
  BY LenProperties DEF QueueWaits, Typed
<1>2. queue' = SubSeq(queue, 1, i - 1) \o SubSeq(queue, i + 1, Len(queue))
  BY DEF HangUp, Leave
<1> HIDE DEF i
<1>3. /\ queue \in Seq(Calls)
      /\ \A j, k \in 1 .. Len(queue) : queue[j] = queue[k] => j = k
  BY DEF QueueWaits, Typed
<1> DEFINE r == SubSeq(queue, 1, i - 1) \o SubSeq(queue, i + 1, Len(queue))
<1>4. /\ r \in Seq(Calls)
      /\ \A j \in 1 .. Len(r) : \E k \in 1 .. Len(queue) : r[j] = queue[k] /\ r[j] # queue[i]
      /\ \A k \in 1 .. Len(queue) : queue[k] # queue[i] => \E j \in 1 .. Len(r) : r[j] = queue[k]
      /\ \A j, k \in 1 .. Len(r) : r[j] = r[k] => j = k
  BY ONLY <1>1, <1>3, QueueWithout
<1> HIDE DEF r
<1> QED
  BY <1>1, <1>2, <1>4 DEF r

\* The call that gets the permit is the first in the queue, and leaves it.
LEMMA AcquireServes ==
  ASSUME Typed, QueueWaits, NEW c \in Calls, Acquire(c)
  PROVE  /\ call[c].pc = "queued" /\ queue' \in Seq(Calls)
         /\ 1 \in 1 .. Len(queue) /\ queue[1] = c /\ Len(queue) \in Nat
         /\ Len(queue') = Len(queue) - 1
         /\ \A j \in 1 .. Len(queue') : queue'[j] = queue[j + 1]
<1>1. queue # <<>> /\ c = Head(queue) /\ queue' = Tail(queue)
  BY DEF Acquire
<1>2. queue \in Seq(Calls) /\ Len(queue) \in Nat /\ Len(queue) # 0
  BY <1>1, EmptySeq DEF Typed
<1>3. 1 \in 1 .. Len(queue) /\ queue[1] = c
  BY <1>1, <1>2
<1>4. /\ queue' \in Seq(Calls) /\ Len(queue') = Len(queue) - 1
      /\ \A j \in 1 .. Len(queue') : queue'[j] = queue[j + 1]
  BY <1>1, <1>2, HeadTailProperties
<1> QED
  BY <1>2, <1>3, <1>4 DEF QueueWaits

\* It runs from here on, and other calls are at most marked as mixed: both it and
\* the file calls at work, if it is one.
LEMMA AcquireMoves ==
  ASSUME Typed, NEW c \in Calls, Acquire(c)
  PROVE  LET filing == call[c].name \in DOMAIN FileTools
         IN  /\ call'[c].pc = "running"
             /\ ~ call'[c].mixed /\ filing => \A d \in Calls \ {c} : ~ Filing(d)
             /\ \A d \in Calls :
                  /\ call'[d] \in CallRecord
                  /\ call'[d].kind = call[d].kind /\ call'[d].id = call[d].id
                  /\ call'[d].name = call[d].name /\ call'[d].arg = call[d].arg
                  /\ call'[d].tier = call[d].tier /\ call'[d].nonce = call[d].nonce
                  /\ call'[d].changed = call[d].changed
                  /\ call'[d].out = call[d].out /\ call'[d].failure = call[d].failure
             /\ \A d \in Calls \ {c} :
                  /\ call'[d].pc = call[d].pc
                  /\ ~ call'[d].mixed => ~ call[d].mixed /\ ~ (filing /\ Filing(d))
                  /\ call'[d].mixed => call[d].mixed \/ Filing(d)
<1> DEFINE filing == call[c].name \in DOMAIN FileTools
           others == {d \in Calls \ {c} : Filing(d)}
<1>1. call' = [d \in Calls |->
          IF d = c THEN [call[c] EXCEPT !.pc = "running", !.child = Spawns(c),
                                        !.mixed = filing /\ others # {}]
          ELSE IF filing /\ d \in others THEN [call[d] EXCEPT !.mixed = TRUE] ELSE call[d]]
  BY DEF Acquire
<1> HIDE DEF filing
<1>2. call[c] \in CallRecord /\ (filing \in BOOLEAN) /\ (Spawns(c) \in BOOLEAN)
  BY DEF Typed, filing, Spawns
<1>3. call'[c] = [call[c] EXCEPT !.pc = "running", !.child = Spawns(c),
                                 !.mixed = filing /\ others # {}]
  BY <1>1
<1> HIDE DEF others
<1>4. /\ call'[c] \in CallRecord
      /\ call'[c].pc = "running" /\ call'[c].mixed = (filing /\ others # {})
      /\ call'[c].kind = call[c].kind /\ call'[c].id = call[c].id
      /\ call'[c].name = call[c].name /\ call'[c].arg = call[c].arg
      /\ call'[c].tier = call[c].tier /\ call'[c].nonce = call[c].nonce
      /\ call'[c].changed = call[c].changed
      /\ call'[c].out = call[c].out /\ call'[c].failure = call[c].failure
  BY <1>2, <1>3 DEF CallRecord, PCs
<1>5. ASSUME NEW d \in Calls \ {c}
      PROVE  /\ call'[d] \in CallRecord
             /\ call'[d].pc = call[d].pc
             /\ call'[d].kind = call[d].kind /\ call'[d].id = call[d].id
             /\ call'[d].name = call[d].name /\ call'[d].arg = call[d].arg
             /\ call'[d].tier = call[d].tier /\ call'[d].nonce = call[d].nonce
             /\ call'[d].changed = call[d].changed
             /\ call'[d].out = call[d].out /\ call'[d].failure = call[d].failure
             /\ call'[d].mixed = IF filing /\ d \in others THEN TRUE ELSE call[d].mixed
  <2>1. call[d] \in CallRecord
    BY DEF Typed
  <2>2. call'[d] = IF filing /\ d \in others THEN [call[d] EXCEPT !.mixed = TRUE] ELSE call[d]
    BY <1>1
  <2>3. CASE filing /\ d \in others
    <3>1. call'[d] = [call[d] EXCEPT !.mixed = TRUE]
      BY <2>2, <2>3
    <3> QED
      BY <2>1, <2>3, <3>1 DEF CallRecord
  <2>4. CASE ~ (filing /\ d \in others)
    BY <2>1, <2>2, <2>4
  <2> QED
    BY <2>3, <2>4
<1>6. \A d \in Calls \ {c} : d \in others <=> Filing(d)
  BY DEF others
<1>7. ~ call'[c].mixed /\ filing => \A d \in Calls \ {c} : ~ Filing(d)
  BY <1>4, <1>6
<1>8. \A d \in Calls \ {c} :
        /\ ~ call'[d].mixed => ~ call[d].mixed /\ ~ (filing /\ Filing(d))
        /\ call'[d].mixed => call[d].mixed \/ Filing(d)
  BY <1>5, <1>6
<1> QED
  BY <1>4, <1>5, <1>7, <1>8 DEF filing

\* A call whose tool is found keeps everything but where it stands and the tier.
LEMMA FoundMoves ==
  ASSUME Typed, NEW c \in Calls, Found(c)
  PROVE  /\ call[c].pc = "execute"
         /\ registry[call[c].id] # "absent"
         /\ call[c].name \in DOMAIN ToolsOf(call[c].id, registry[call[c].id])
         /\ call' = [call EXCEPT ![c] = [call[c] EXCEPT !.pc = "queued",
                                                        !.tier = registry[call[c].id]]]
         /\ call'[c].pc = "queued" /\ call'[c].tier = registry[call[c].id]
         /\ call'[c].kind = call[c].kind /\ call'[c].id = call[c].id
         /\ call'[c].name = call[c].name /\ call'[c].nonce = call[c].nonce
         /\ call'[c].changed = call[c].changed
         /\ \A d \in Calls \ {c} : call'[d] = call[d]
<1>1. queue # Append(queue, c)
  BY LenProperties DEF Typed
<1>2. /\ call[c].pc = "execute" /\ registry[call[c].id] # "absent"
      /\ call[c].name \in DOMAIN ToolsOf(call[c].id, registry[call[c].id])
      /\ call' = [call EXCEPT ![c].pc = "queued", ![c].tier = registry[call[c].id]]
  BY <1>1 DEF Found, Lookup
<1>3. call[c] \in CallRecord
  BY DEF Typed
<1> QED
  BY <1>2, <1>3 DEF Typed, CallRecord

\* The other ways to move on touch one call.
LEMMA OnStepMoves ==
  ASSUME Typed, NEW c \in Calls, OnStep(c), ~ Found(c), ~ Acquire(c)
  PROVE  /\ call[c].pc \in {"idle", "gate", "running"}
         /\ call'[c].pc \in {"gate", "execute", "taking"}
         /\ \A d \in Calls \ {c} : call'[d] = call[d]
<1> call[c] \in CallRecord
  BY DEF Typed
<1>1. CASE ApiCall(c)
  BY <1>1 DEF ApiCall, Typed, IdleCall
<1>2. CASE LoopCall(c)
  BY <1>2 DEF LoopCall, Typed, IdleCall
<1>3. CASE Gate(c) /\ NotAsked(c)
  BY <1>3 DEF NotAsked, Typed, CallRecord
<1>4. ASSUME NEW n \in 0 .. Len(nonces), Gate(c), Pay(c, n)
      PROVE  /\ call[c].pc = "gate" /\ call'[c].pc = "execute"
             /\ \A d \in Calls \ {c} : call'[d] = call[d]
  BY <1>4 DEF Pay, ConfirmWith, Typed, CallRecord
<1>5. CASE Denied(c)
  BY <1>5 DEF Denied, Deny, FileStep, Typed, CallRecord
<1> QED
  BY <1>1, <1>2, <1>3, <1>4, <1>5 DEF OnStep

\* Each step keeps the variables in their ranges.
LEMMA TypedStep == Typed /\ QueueWaits /\ [Next]_vars => Typed'
<1> SUFFICES ASSUME Typed, QueueWaits, [Next]_vars PROVE Typed'
  OBVIOUS
<1>1. ASSUME NEW c \in Calls, EndStep(c) PROVE Typed'
  <2>1. Ends(c)
    BY <1>1, EndStepEnds
  <2>2. \A d \in Calls : call'[d].pc \notin {"idle", "done"} => call'[d].id \in Ids
    BY <2>1 DEF Ends, Typed
  <2>3. NoncesAge
    BY <1>1, NoncesOnlyAge DEF EndStep, TakeFailure, Finish, Timeout, HangUp, Return, Lookup, FileStep
  <2>4. UNCHANGED <<setup, registry, uses>>
    BY <1>1 DEF EndStep, TakeFailure, Finish, Timeout, HangUp, Return, Gate, Lookup, FileStep
  <2>5. queue' \in Seq(Calls)
    <3>1. CASE HangUp(c) /\ call[c].pc = "queued"
      BY <3>1, LeaveRemoves
    <3>2. CASE ~ (HangUp(c) /\ call[c].pc = "queued")
      <4>1. UNCHANGED queue
        BY <1>1, <3>2 DEF EndStep, TakeFailure, Finish, Timeout, HangUp, Leave, Return, Gate,
                          Lookup, FileStep
      <4> QED
        BY <4>1 DEF Typed
    <3> QED
      BY <3>1, <3>2
  <2>6. stash' \in Calls \union {NoOne}
    BY <1>1 DEF EndStep, TakeFailure, Finish, Timeout, HangUp, Return, Gate, Lookup, FileStep,
                Deny, Typed
  <2> QED
    BY <2>1, <2>2, <2>3, <2>4, <2>5, <2>6 DEF Typed, Ends, NoncesAge
<1>2. ASSUME NEW c \in Calls, OnStep(c) PROVE Typed'
  <2> call[c] \in CallRecord /\ (call[c].pc \notin {"idle", "done"} => call[c].id \in Ids)
    BY DEF Typed
  <2>1. CASE ApiCall(c) \/ LoopCall(c)
    <3>1. PICK name \in setup.offered, arg \in Args, id \in Ids, r \in CallRecord :
            r.id = id /\ call' = [call EXCEPT ![c] = r]
      <4>1. CASE ApiCall(c)
        <5>1. PICK name \in setup.offered, arg \in Args, id \in Ids :
                call' = [call EXCEPT ![c] =
                  [IdleCall EXCEPT !.pc = "gate", !.id = id, !.name = name, !.arg = arg]]
          BY <4>1 DEF ApiCall
        <5> DEFINE r == [IdleCall EXCEPT !.pc = "gate", !.id = id, !.name = name, !.arg = arg]
        <5>2. r \in CallRecord /\ r.id = id
          BY IdleIsACall, NamesOffered DEF CallRecord, PCs
        <5> HIDE DEF r
        <5> QED
          BY <5>1, <5>2 DEF r
      <4>2. CASE LoopCall(c)
        <5>1. PICK name \in setup.offered, arg \in Args, id \in Ids :
                call' = [call EXCEPT ![c] =
                  [IdleCall EXCEPT !.pc = "execute", !.kind = "loop", !.id = id, !.name = name, !.arg = arg]]
          BY <4>2 DEF LoopCall
        <5> DEFINE r == [IdleCall EXCEPT !.pc = "execute", !.kind = "loop", !.id = id,
                                         !.name = name, !.arg = arg]
        <5>2. r \in CallRecord /\ r.id = id
          BY IdleIsACall, NamesOffered DEF CallRecord, PCs
        <5> HIDE DEF r
        <5> QED
          BY <5>1, <5>2 DEF r
      <4> QED
        BY <2>1, <4>1, <4>2
    <3>2. UNCHANGED <<setup, registry, nonces, queue, stash, uses>>
      BY <2>1 DEF ApiCall, LoopCall
    <3> QED
      BY <3>1, <3>2 DEF Typed
  <2>2. CASE Gate(c) /\ NotAsked(c)
    <3>1. [call[c] EXCEPT !.pc = "execute"] \in CallRecord
      BY DEF CallRecord, PCs
    <3>2. UNCHANGED <<setup, registry, nonces, queue, stash, uses>>
      BY <2>2 DEF Gate, NotAsked
    <3> QED
      BY <2>2, <3>1, <3>2 DEF NotAsked, Typed, CallRecord
  <2>3. ASSUME NEW n \in 0 .. Len(nonces), Gate(c), Pay(c, n) PROVE Typed'
    <3>1. n \in 0 .. MaxNonces
      BY SkillsAssumption, LenProperties DEF Typed
    <3>2. [call[c] EXCEPT !.pc = "execute", !.nonce = n] \in CallRecord
      BY <3>1 DEF CallRecord, PCs
    <3>3. NoncesAge
      BY <2>3, NoncesOnlyAge DEF Pay
    <3>4. UNCHANGED <<setup, registry, queue, stash, uses>>
      BY <2>3 DEF Gate
    <3>5. call' = [call EXCEPT ![c] = [call[c] EXCEPT !.pc = "execute", !.nonce = n]]
      BY <2>3 DEF Pay, Typed, CallRecord
    <3>6. call[c].id \in Ids /\ call' \in [Calls -> CallRecord]
      BY <2>3, <3>2, <3>5 DEF Pay, ConfirmWith, Typed
    <3>7. \A d \in Calls : call'[d].id = call[d].id
      BY <3>5 DEF Typed, CallRecord
    <3>8. \A d \in Calls : call'[d].pc \notin {"idle", "done"} => call'[d].id \in Ids
      BY <3>5, <3>6, <3>7 DEF Typed
    <3> QED
      BY <3>3, <3>4, <3>6, <3>8 DEF NoncesAge, Typed
  <2>4. CASE Found(c)
    <3> DEFINE r == [call[c] EXCEPT !.pc = "queued", !.tier = registry[call[c].id]]
    <3>1. call' = [call EXCEPT ![c] = r] /\ call[c].pc = "execute"
      BY <2>4, FoundMoves
    <3>2. r \in CallRecord /\ r.id \in Ids
      BY <3>1 DEF Typed, CallRecord, PCs
    <3>3. UNCHANGED <<setup, registry, nonces, stash, uses>> /\ queue' \in Seq(Calls)
      BY <2>4 DEF Found, Lookup, Typed
    <3> HIDE DEF r
    <3> QED
      BY <3>1, <3>2, <3>3 DEF Typed
  <2>5. CASE Acquire(c)
    <3>1. \A d \in Calls : call'[d] \in CallRecord /\ call'[d].id = call[d].id
      BY <2>5, AcquireMoves
    <3>2. call' \in [Calls -> CallRecord]
      BY <2>5, <3>1 DEF Acquire
    <3>3. \A d \in Calls \ {c} : call'[d].pc = call[d].pc
      BY <2>5, AcquireMoves
    <3>4. call[c].pc = "queued"
      BY <2>5, AcquireServes
    <3>5. uses' \in [1 .. MaxNonces -> Nat]
      <4>1. call[c].nonce \in 0 .. MaxNonces
        BY DEF CallRecord
      <4>2. CASE call[c].nonce = 0
        BY <2>5, <4>2 DEF Acquire, Typed
      <4>3. CASE call[c].nonce # 0
        <5>1. call[c].nonce \in 1 .. MaxNonces /\ uses[call[c].nonce] + 1 \in Nat
          BY <4>1, <4>3, SkillsAssumption DEF Typed
        <5>2. uses' = [uses EXCEPT ![call[c].nonce] = uses[call[c].nonce] + 1]
          BY <2>5, <4>3 DEF Acquire
        <5> QED
          BY <5>1, <5>2 DEF Typed
      <4> QED
        BY <4>2, <4>3
    <3>6. queue' \in Seq(Calls)
      BY <2>5, HeadTailProperties DEF Acquire, Typed
    <3>7. stash' \in Calls \union {NoOne}
      BY <2>5 DEF Acquire, ClearStash, Typed
    <3>8. UNCHANGED <<setup, registry, nonces>>
      BY <2>5 DEF Acquire
    <3> QED
      BY <3>1, <3>2, <3>3, <3>4, <3>5, <3>6, <3>7, <3>8 DEF Typed
  <2>6. CASE Denied(c)
    <3>1. [call[c] EXCEPT !.pc = "taking"] \in CallRecord
      BY DEF CallRecord, PCs
    <3>2. UNCHANGED <<setup, registry, nonces, queue, uses>>
      BY <2>6 DEF Denied, FileStep
    <3>3. stash' \in Calls \union {NoOne} /\ call' = [call EXCEPT ![c].pc = "taking"]
      BY <2>6 DEF Denied, Deny
    <3>4. call[c].pc = "running"
      BY <2>6 DEF Denied, FileStep
    <3> QED
      BY <3>1, <3>2, <3>3, <3>4 DEF Typed, CallRecord
  <2> QED
    BY <1>2, <2>1, <2>2, <2>3, <2>4, <2>5, <2>6 DEF OnStep
<1>3. CASE OtherStep
  <2>1. ASSUME NEW id \in McpIds, RegisterMcp(id) \/ ReloadMcp(id) PROVE Typed'
    <3>1. UNCHANGED <<setup, nonces, queue, stash, uses>> /\ Register(id)
      BY <2>1 DEF RegisterMcp, ReloadMcp
    <3>2. registry' \in [Ids -> Tiers]
      BY <3>1 DEF Register, Typed, Tiers
    <3>3. \A c \in Calls : /\ call'[c] \in CallRecord
                           /\ call'[c].pc = call[c].pc /\ call'[c].id = call[c].id
      <4> TAKE c \in Calls
      <4>1. call[c] \in CallRecord
        BY DEF Typed
      <4>2. CASE call'[c] = call[c]
        BY <4>1, <4>2
      <4>3. CASE call'[c] = [call[c] EXCEPT !.changed = TRUE]
        BY <4>1, <4>3 DEF CallRecord
      <4> QED
        BY <3>1, <4>2, <4>3 DEF Register
    <3>4. call' \in [Calls -> CallRecord]
      BY <3>1, <3>3 DEF Register
    <3> QED
      BY <3>1, <3>2, <3>3, <3>4 DEF Typed
  <2>2. CASE Expire
    <3>1. UNCHANGED <<setup, registry, call, queue, stash, uses>>
      BY <2>2 DEF Expire
    <3>2. NoncesAge
      BY <2>2, NoncesOnlyAge
    <3> QED
      BY <3>1, <3>2 DEF Typed, NoncesAge
  <2>3. CASE ChildEnds
    BY <2>3 DEF ChildEnds, Typed
  <2>4. CASE Restart
    <3>1. NoncesAge
      BY <2>4, NoncesOnlyAge
    <3>2. registry' \in [Ids -> Tiers]
      BY <2>4 DEF Restart, Registered, Tiers
    <3>3. call' \in [Calls -> CallRecord] /\ \A c \in Calls : call'[c].pc = "idle"
      BY <2>4, IdleIsACall DEF Restart
    <3>4. queue' \in Seq(Calls) /\ stash' = NoOne /\ UNCHANGED <<setup, uses>>
      BY <2>4 DEF Restart
    <3> QED
      BY <3>1, <3>2, <3>3, <3>4 DEF Typed, NoncesAge
  <2> QED
    BY <1>3, <2>1, <2>2, <2>3, <2>4 DEF OtherStep
<1>4. CASE UNCHANGED vars
  BY <1>4 DEF vars, Typed, Matches
<1> QED
  BY <1>1, <1>2, <1>3, <1>4, NextCases
-----------------------------------------------------------------------------
(* The queue.                                                              *)

\* A registration marks calls and changes nothing else of them.
LEMMA RegisterMarks ==
  ASSUME Typed, NEW id \in McpIds, Register(id)
  PROVE  /\ \A i \in Ids : registry'[i] = IF i = id THEN "AgentBuilt" ELSE registry[i]
         /\ \A c \in Calls :
              /\ call'[c].pc = call[c].pc /\ call'[c].kind = call[c].kind
              /\ call'[c].id = call[c].id /\ call'[c].name = call[c].name
              /\ call'[c].arg = call[c].arg /\ call'[c].tier = call[c].tier
              /\ call'[c].nonce = call[c].nonce /\ call'[c].out = call[c].out
              /\ call'[c].failure = call[c].failure /\ call'[c].mixed = call[c].mixed
              /\ call[c].changed => call'[c].changed
              /\ call[c].pc = "execute" /\ call[c].id = id /\ registry[id] # "AgentBuilt"
                   => call'[c].changed
<1>1. \A i \in Ids : registry'[i] = IF i = id THEN "AgentBuilt" ELSE registry[i]
  BY DEF Register, Typed
<1>2. ASSUME NEW c \in Calls
      PROVE  /\ call'[c].pc = call[c].pc /\ call'[c].kind = call[c].kind
             /\ call'[c].id = call[c].id /\ call'[c].name = call[c].name
             /\ call'[c].arg = call[c].arg /\ call'[c].tier = call[c].tier
             /\ call'[c].nonce = call[c].nonce /\ call'[c].out = call[c].out
             /\ call'[c].failure = call[c].failure /\ call'[c].mixed = call[c].mixed
             /\ call[c].changed => call'[c].changed
             /\ call[c].pc = "execute" /\ call[c].id = id /\ registry[id] # "AgentBuilt"
                  => call'[c].changed
  <2>1. call[c] \in CallRecord
    BY DEF Typed
  <2>2. CASE call[c].pc = "execute" /\ call[c].id = id /\ registry[id] # "AgentBuilt"
    <3>1. call'[c] = [call[c] EXCEPT !.changed = TRUE]
      BY <2>2 DEF Register
    <3> QED
      BY <2>1, <3>1 DEF CallRecord
  <2>3. CASE ~ (call[c].pc = "execute" /\ call[c].id = id /\ registry[id] # "AgentBuilt")
    <3>1. call'[c] = call[c]
      BY <2>3 DEF Register
    <3> QED
      BY <2>3, <3>1
  <2> QED
    BY <2>2, <2>3
<1> QED
  BY <1>1, <1>2

\* A step that lets nobody into the queue or out of it keeps it.
LEMMA QueueLeftAlone ==
  ASSUME Typed, QueueWaits, UNCHANGED queue,
         \A c \in Calls : call'[c].pc = "queued" <=> call[c].pc = "queued"
  PROVE  QueueWaits'
<1>1. \A i \in 1 .. Len(queue) : queue[i] \in Calls
  BY ElementOfSeq DEF Typed
<1> QED
  BY <1>1 DEF QueueWaits

LEMMA QueueStep == Typed /\ QueueWaits /\ [Next]_vars => QueueWaits'
<1> SUFFICES ASSUME Typed, QueueWaits, [Next]_vars PROVE QueueWaits'
  OBVIOUS
<1>0. \A i \in 1 .. Len(queue) : queue[i] \in Calls
  BY ElementOfSeq DEF Typed
<1>1. ASSUME NEW c \in Calls, EndStep(c) PROVE QueueWaits'
  <2>1. Ends(c)
    BY <1>1, EndStepEnds
  <2>2. CASE HangUp(c) /\ call[c].pc = "queued"
    <3>1. /\ \A j \in 1 .. Len(queue') :
               \E k \in 1 .. Len(queue) : queue'[j] = queue[k] /\ queue'[j] # c
          /\ \A k \in 1 .. Len(queue) : queue[k] # c =>
               \E j \in 1 .. Len(queue') : queue'[j] = queue[k]
          /\ \A j, k \in 1 .. Len(queue') : queue'[j] = queue'[k] => j = k
      BY <2>2, LeaveRemoves
    <3>2. \A j \in 1 .. Len(queue') : call'[queue'[j]].pc = "queued"
      BY <1>0, <2>1, <3>1 DEF QueueWaits, Ends
    <3>3. \A d \in Calls : call'[d].pc = "queued" => \E j \in 1 .. Len(queue') : queue'[j] = d
      <4> SUFFICES ASSUME NEW d \in Calls, call'[d].pc = "queued"
                   PROVE  \E j \in 1 .. Len(queue') : queue'[j] = d
        OBVIOUS
      <4>1. d # c /\ call[d].pc = "queued"
        BY <2>1 DEF Ends
      <4>2. PICK k \in 1 .. Len(queue) : queue[k] = d
        BY <4>1 DEF QueueWaits
      <4> QED
        BY <3>1, <4>1, <4>2
    <3> QED
      BY <3>1, <3>2, <3>3 DEF QueueWaits
  <2>3. CASE ~ (HangUp(c) /\ call[c].pc = "queued")
    <3>1. UNCHANGED queue /\ call[c].pc # "queued"
      BY <1>1, <2>3 DEF EndStep, TakeFailure, Finish, Timeout, HangUp, Leave, Return, Gate,
                        IssueNonce, ConfirmWith, Lookup, FileStep
    <3> QED
      BY <2>1, <3>1, QueueLeftAlone DEF Ends
  <2> QED
    BY <2>2, <2>3
<1>2. ASSUME NEW c \in Calls, OnStep(c) PROVE QueueWaits'
  <2>1. CASE Found(c)
    <3>1. /\ call[c].pc = "execute" /\ call'[c].pc = "queued"
          /\ \A d \in Calls \ {c} : call'[d] = call[d]
      BY <2>1, FoundMoves
    <3>2. queue' = Append(queue, c) /\ queue \in Seq(Calls) /\ Len(queue) \in Nat
      BY <2>1, LenProperties DEF Found, Typed
    <3>3. /\ Len(queue') = Len(queue) + 1 /\ queue'[Len(queue) + 1] = c
          /\ \A i \in 1 .. Len(queue) : queue'[i] = queue[i] /\ queue[i] # c
      BY <3>1, <3>2 DEF QueueWaits
    <3>4. \A d \in Calls : call'[d].pc = "queued" => \E i \in 1 .. Len(queue') : queue'[i] = d
      BY <3>1, <3>2, <3>3 DEF QueueWaits
    <3>5. \A i \in 1 .. Len(queue') : i \in 1 .. Len(queue) \/ i = Len(queue) + 1
      BY <3>2, <3>3
    <3>6. \A i \in 1 .. Len(queue') : call'[queue'[i]].pc = "queued"
      BY <1>0, <3>1, <3>3, <3>5 DEF QueueWaits
    <3>7. \A i, j \in 1 .. Len(queue') : queue'[i] = queue'[j] => i = j
      BY <3>3, <3>5 DEF QueueWaits
    <3> QED
      BY <3>4, <3>6, <3>7 DEF QueueWaits
  <2>2. CASE Acquire(c)
    <3>1. /\ Len(queue) \in Nat /\ 1 \in 1 .. Len(queue) /\ queue[1] = c
          /\ Len(queue') = Len(queue) - 1
          /\ \A j \in 1 .. Len(queue') : queue'[j] = queue[j + 1]
      BY <2>2, AcquireServes
    <3>2. call'[c].pc = "running" /\ \A d \in Calls \ {c} : call'[d].pc = call[d].pc
      BY <2>2, AcquireMoves
    <3>3. \A j \in 1 .. Len(queue') : j + 1 \in 1 .. Len(queue) /\ j + 1 # 1
      BY <3>1
    <3>4. \A j \in 1 .. Len(queue') : queue'[j] \in Calls \ {c} /\ call'[queue'[j]].pc = "queued"
      BY <1>0, <3>1, <3>2, <3>3 DEF QueueWaits
    <3>5. \A i, j \in 1 .. Len(queue') : queue'[i] = queue'[j] => i = j
      <4> SUFFICES ASSUME NEW i \in 1 .. Len(queue'), NEW j \in 1 .. Len(queue'),
                          queue'[i] = queue'[j]
                   PROVE  i = j
        OBVIOUS
      <4>1. i + 1 = j + 1
        BY <3>1, <3>3 DEF QueueWaits
      <4> QED
        BY <3>1, <4>1
    <3>6. ASSUME NEW d \in Calls, call'[d].pc = "queued"
          PROVE  \E i \in 1 .. Len(queue') : queue'[i] = d
      <4>1. d # c /\ call[d].pc = "queued"
        BY <3>2, <3>6
      <4>2. PICK i \in 1 .. Len(queue) : queue[i] = d
        BY <4>1 DEF QueueWaits
      <4>3. i # 1
        BY <3>1, <4>1, <4>2
      <4>4. i - 1 \in 1 .. Len(queue') /\ (i - 1) + 1 = i
        BY <3>1, <4>3
      <4> QED
        BY <3>1, <4>2, <4>4
    <3> QED
      BY <3>4, <3>5, <3>6 DEF QueueWaits
  <2>3. CASE ~ Found(c) /\ ~ Acquire(c)
    <3>1. UNCHANGED queue
      BY <1>2, <2>3 DEF OnStep, ApiCall, LoopCall, Gate, Denied, FileStep
    <3>2. call[c].pc # "queued" /\ call'[c].pc # "queued" /\ \A d \in Calls \ {c} : call'[d] = call[d]
      BY <1>2, <2>3, OnStepMoves
    <3> QED
      BY <3>1, <3>2, QueueLeftAlone
  <2> QED
    BY <2>1, <2>2, <2>3
<1>3. CASE OtherStep
  <2>1. ASSUME NEW id \in McpIds, RegisterMcp(id) \/ ReloadMcp(id) PROVE QueueWaits'
    <3>1. Register(id) /\ UNCHANGED queue
      BY <2>1 DEF RegisterMcp, ReloadMcp
    <3> QED
      BY <3>1, RegisterMarks, QueueLeftAlone
  <2>2. CASE Expire \/ ChildEnds
    BY <2>2, QueueLeftAlone DEF Expire, ChildEnds
  <2>3. CASE Restart
    <3>1. queue' = <<>> /\ \A c \in Calls : call'[c].pc = "idle"
      BY <2>3, IdleIsACall DEF Restart
    <3> QED
      BY <3>1 DEF QueueWaits
  <2> QED
    BY <1>3, <2>1, <2>2, <2>3 DEF OtherStep
<1>4. CASE UNCHANGED vars
  BY <1>4, QueueLeftAlone DEF vars
<1> QED
  BY <1>1, <1>2, <1>3, <1>4, NextCases

-----------------------------------------------------------------------------
(* Nonces.                                                                 *)

\* What the nonces paid for is not disturbed by a step that runs nothing, redeems
\* nothing and brings no call back in front of its run.
Unpaying(d) ==
    \/ call'[d].nonce = 0
    \/ /\ call'[d].nonce = call[d].nonce
       /\ call'[d].id = call[d].id /\ call'[d].name = call[d].name
       /\ call'[d].pc \in {"execute", "queued"} => call[d].pc \in {"execute", "queued"}
       /\ call'[d].pc \in {"idle", "gate", "done"} => call'[d].pc = call[d].pc

LEMMA PaymentsKept ==
  ASSUME IInv, NoncesAge, UNCHANGED uses, \A d \in Calls : Unpaying(d)
  PROVE  PaidIsGone' /\ HeldIsUnused' /\ UnspentIsUnused'
<1> USE DEF IInv
<1>0. /\ Len(nonces) \in Nat /\ Len(nonces') \in Nat
      /\ \A d \in Calls : call[d].nonce \in 0 .. MaxNonces
  BY LenProperties DEF Typed, NoncesAge, CallRecord
<1>1. PaidIsGone'
  <2> SUFFICES ASSUME NEW d \in Calls
               PROVE  /\ call'[d].pc \in {"idle", "gate", "done"} => call'[d].nonce = 0
                      /\ call'[d].nonce # 0 =>
                           /\ call'[d].nonce <= Len(nonces')
                           /\ nonces'[call'[d].nonce].state = "gone"
                           /\ Matches(nonces[call[d].nonce], d)'
    BY DEF PaidIsGone, Matches
  <2>1. CASE call'[d].nonce = 0
    BY <2>1
  <2>2. CASE call'[d].nonce # 0
    <3>1. call'[d].nonce = call[d].nonce /\ call'[d].id = call[d].id /\ call'[d].name = call[d].name
      BY <2>2 DEF Unpaying
    <3>2. call'[d].pc \notin {"idle", "gate", "done"}
      BY <2>2, <3>1 DEF Unpaying, PaidIsGone
    <3>3. /\ call[d].nonce \in 1 .. Len(nonces)
          /\ nonces[call[d].nonce].state = "gone" /\ Matches(nonces[call[d].nonce], d)
      BY <1>0, <2>2, <3>1 DEF PaidIsGone
    <3> QED
      BY <1>0, <3>1, <3>2, <3>3 DEF NoncesAge, Matches
  <2> QED
    BY <2>1, <2>2
<1>2. HeldIsUnused'
  <2>1. \A d \in Calls : Holds(d)' => Holds(d) /\ call'[d].nonce = call[d].nonce
    BY DEF Holds, Unpaying
  <2> QED
    BY <2>1 DEF HeldIsUnused
<1>3. UnspentIsUnused'
  <2> SUFFICES ASSUME NEW n \in 1 .. MaxNonces
               PROVE  /\ uses[n] <= 1
                      /\ n > Len(nonces') \/ nonces'[n].state # "gone" => uses[n] = 0
    BY DEF UnspentIsUnused
  <2>1. n > Len(nonces') \/ nonces'[n].state # "gone" => n > Len(nonces) \/ nonces[n].state # "gone"
    BY <1>0 DEF NoncesAge
  <2> QED
    BY <2>1 DEF UnspentIsUnused
<1> QED
  BY <1>1, <1>2, <1>3

\* A call in a place where nothing depends on what the gate saw.
Unasked(d) ==
    \/ call'[d].pc \in {"idle", "gate", "done"} \/ call'[d].kind = "loop" \/ call'[d].nonce # 0
    \/ /\ call'[d].kind = call[d].kind /\ call'[d].nonce = call[d].nonce
       /\ call'[d].id = call[d].id /\ call'[d].name = call[d].name
       /\ call'[d].tier = call[d].tier
       /\ call[d].changed => call'[d].changed
       /\ \/ call'[d].pc = call[d].pc
          \/ call'[d].pc = "running" /\ call[d].pc = "queued"
          \/ call'[d].pc = "taking" /\ call[d].pc = "running"

LEMMA GateKept ==
  ASSUME IInv, UNCHANGED registry, \A d \in Calls : Unasked(d)
  PROVE  UnpaidIsFree'
<1> SUFFICES ASSUME NEW d \in Calls,
                    call'[d].kind = "api" /\ call'[d].nonce = 0 /\ ~ call'[d].changed
             PROVE  /\ call'[d].pc = "execute" => ~ RequiresConfirmation(call[d].id, call[d].name)'
                    /\ call'[d].pc \in {"queued", "running", "taking"} =>
                         ~ ToolsOf(call'[d].id, call'[d].tier)[call'[d].name].confirm
  BY DEF UnpaidIsFree
<1>1. CASE call'[d].pc \in {"idle", "gate", "done"}
  BY <1>1
<1>2. CASE call'[d].pc \notin {"idle", "gate", "done"}
  <2>1. /\ call'[d].kind = call[d].kind /\ call'[d].nonce = call[d].nonce
        /\ call'[d].id = call[d].id /\ call'[d].name = call[d].name
        /\ call'[d].tier = call[d].tier /\ ~ call[d].changed
        /\ call'[d].pc = "execute" => call[d].pc = "execute"
        /\ call'[d].pc \in {"queued", "running", "taking"} =>
             call[d].pc \in {"queued", "running", "taking"}
    BY <1>2 DEF Unasked
  <2>2. /\ call[d].pc = "execute" => ~ RequiresConfirmation(call[d].id, call[d].name)
        /\ call[d].pc \in {"queued", "running", "taking"} =>
             ~ ToolsOf(call[d].id, call[d].tier)[call[d].name].confirm
    BY <2>1 DEF IInv, UnpaidIsFree
  <2>3. RequiresConfirmation(call[d].id, call[d].name)' <=> RequiresConfirmation(call[d].id, call[d].name)
    BY <2>1 DEF RequiresConfirmation
  <2>4. ToolsOf(call'[d].id, call'[d].tier)[call'[d].name] = ToolsOf(call[d].id, call[d].tier)[call[d].name]
    BY <2>1
  <2> QED
    BY <2>1, <2>2, <2>3, <2>4
<1> QED
  BY <1>1, <1>2

LEMMA NonceStep ==
  IInv /\ [Next]_vars => UnpaidIsFree' /\ PaidIsGone' /\ HeldIsUnused' /\ UnspentIsUnused'
<1> SUFFICES ASSUME IInv, [Next]_vars
             PROVE  UnpaidIsFree' /\ PaidIsGone' /\ HeldIsUnused' /\ UnspentIsUnused'
  OBVIOUS
<1> DEFINE Goal == UnpaidIsFree' /\ PaidIsGone' /\ HeldIsUnused' /\ UnspentIsUnused'
<1>0. /\ Typed /\ QueueWaits
      /\ Len(nonces) \in Nat /\ \A d \in Calls : call[d] \in CallRecord
  BY LenProperties DEF IInv, Typed
<1>1. ASSUME NEW c \in Calls, EndStep(c) PROVE Goal
  <2>1. Ends(c)
    BY <1>0, <1>1, EndStepEnds
  <2>2. NoncesAge
    BY <1>0, <1>1, NoncesOnlyAge DEF EndStep, TakeFailure, Finish, Timeout, HangUp, Return,
                                     Lookup, FileStep
  <2>3. UNCHANGED <<registry, uses>>
    BY <1>1 DEF EndStep, TakeFailure, Finish, Timeout, HangUp, Return, Gate, Lookup, FileStep
  <2>4. \A d \in Calls : Unpaying(d) /\ Unasked(d)
    BY <2>1 DEF Ends, Unpaying, Unasked
  <2> QED
    BY <2>2, <2>3, <2>4, PaymentsKept, GateKept
<1>2. ASSUME NEW c \in Calls, OnStep(c) PROVE Goal
  <2>1. CASE ApiCall(c) \/ LoopCall(c)
    <3>1. /\ call'[c].nonce = 0
          /\ call'[c].pc = "gate" \/ call'[c].kind = "loop"
          /\ \A d \in Calls \ {c} : call'[d] = call[d]
      <4>1. CASE ApiCall(c)
        BY <1>0, <4>1 DEF ApiCall, Typed, IdleCall
      <4>2. CASE LoopCall(c)
        BY <1>0, <4>2 DEF LoopCall, Typed, IdleCall
      <4> QED
        BY <2>1, <4>1, <4>2
    <3>2. UNCHANGED <<registry, nonces, uses>>
      BY <2>1 DEF ApiCall, LoopCall
    <3>3. NoncesAge
      BY <1>0, <3>2, NoncesOnlyAge
    <3>4. \A d \in Calls : Unpaying(d) /\ Unasked(d)
      BY <3>1 DEF Unpaying, Unasked
    <3> QED
      BY <3>2, <3>3, <3>4, PaymentsKept, GateKept
  <2>2. CASE Gate(c) /\ NotAsked(c)
    <3>1. /\ call[c].pc = "gate" /\ call'[c].pc = "execute"
          /\ call'[c].nonce = call[c].nonce
          /\ call'[c].id = call[c].id /\ call'[c].name = call[c].name
          /\ \A d \in Calls \ {c} : call'[d] = call[d]
      BY <1>0, <2>2 DEF NotAsked, Typed, CallRecord
    <3>2. UNCHANGED <<registry, nonces, uses>>
      BY <2>2 DEF Gate, NotAsked
    <3>3. NoncesAge
      BY <1>0, <3>2, NoncesOnlyAge
    <3>4. call'[c].nonce = 0
      BY <3>1 DEF IInv, PaidIsGone
    <3>5. \A d \in Calls : Unpaying(d)
      BY <3>1, <3>4 DEF Unpaying
    <3>6. UnpaidIsFree'
      <4>1. ~ RequiresConfirmation(call[c].id, call[c].name)'
        BY <2>2, <3>1, <3>2 DEF NotAsked, RequiresConfirmation
      <4>2. ASSUME NEW d \in Calls \ {c}, call'[d].kind = "api" /\ call'[d].nonce = 0 /\ ~ call'[d].changed
            PROVE  /\ call'[d].pc = "execute" => ~ RequiresConfirmation(call[d].id, call[d].name)'
                   /\ call'[d].pc \in {"queued", "running", "taking"} =>
                        ~ ToolsOf(call'[d].id, call'[d].tier)[call'[d].name].confirm
        BY <3>1, <3>2, <4>2 DEF IInv, UnpaidIsFree, RequiresConfirmation
      <4> QED
        BY <3>1, <4>1, <4>2 DEF UnpaidIsFree
    <3> QED
      BY <3>2, <3>3, <3>5, <3>6, PaymentsKept
  <2>3. ASSUME NEW n \in 0 .. Len(nonces), Gate(c), Pay(c, n) PROVE Goal
    <3>1. NoncesAge
      BY <1>0, <2>3, NoncesOnlyAge DEF Pay
    <3>2. UNCHANGED <<registry, uses>>
      BY <2>3 DEF Gate
    <3>3. /\ call'[c].nonce = n /\ call'[c].pc = "execute"
          /\ call'[c].id = call[c].id /\ call'[c].name = call[c].name
          /\ \A d \in Calls \ {c} : call'[d] = call[d]
      BY <1>0, <2>3 DEF Pay, Typed, CallRecord
    <3>4. /\ n \in 1 .. Len(nonces) /\ n \in 1 .. MaxNonces
          /\ nonces[n].state = "fresh" /\ Matches(nonces[n], c)
      <4>1. n \in 1 .. Len(nonces) /\ Matches(nonces[n], c)
        BY <1>0, <2>3 DEF Pay
      <4>2. Retain(nonces)[n].state = IF nonces[n].state = "stale" THEN "gone" ELSE nonces[n].state
        BY <1>0, <4>1, RetainKeeps DEF Typed
      <4> QED
        BY <1>0, <2>3, <4>1, <4>2, SkillsAssumption DEF Pay, Typed
    <3>5. nonces'[n].state = "gone"
      <4>1. Retain(nonces) \in Seq(NonceRecord) /\ Len(Retain(nonces)) = Len(nonces)
        BY <1>0, RetainKeeps DEF Typed
      <4>2. nonces' = Redeem(Retain(nonces), n)
        BY <2>3 DEF Pay, ConfirmWith
      <4> QED
        BY <1>0, <3>4, <4>1, <4>2, RedeemKeeps
    <3>6. \A d \in Calls \ {c} : Unpaying(d) /\ call'[d].nonce # n
      BY <1>0, <3>3, <3>4 DEF Unpaying, IInv, PaidIsGone
    <3>7. \A d \in Calls : Unasked(d)
      BY <1>0, <3>3, <3>4 DEF Unasked
    <3>8. PaidIsGone'
      <4>1. ASSUME NEW d \in Calls \ {c}
            PROVE  /\ call'[d].pc \in {"idle", "gate", "done"} => call'[d].nonce = 0
                   /\ call'[d].nonce # 0 =>
                        /\ call'[d].nonce <= Len(nonces')
                        /\ nonces'[call'[d].nonce].state = "gone"
                        /\ Matches(nonces[call[d].nonce], d)'
        <5>1. call'[d] = call[d] /\ call[d].nonce \in 0 .. MaxNonces
          BY <1>0, <3>3 DEF CallRecord
        <5>2. CASE call[d].nonce = 0
          BY <5>1, <5>2
        <5>3. CASE call[d].nonce # 0
          <6>1. /\ call[d].pc \notin {"idle", "gate", "done"}
                /\ call[d].nonce \in 1 .. Len(nonces)
                /\ nonces[call[d].nonce].state = "gone" /\ Matches(nonces[call[d].nonce], d)
            BY <1>0, <5>1, <5>3 DEF IInv, PaidIsGone
          <6> QED
            BY <1>0, <3>1, <5>1, <6>1 DEF NoncesAge, Matches
        <5> QED
          BY <5>2, <5>3
      <4>2. /\ n <= Len(nonces') /\ Matches(nonces[call[c].nonce], c)'
        BY <1>0, <3>1, <3>3, <3>4 DEF NoncesAge, Matches
      <4> QED
        BY <3>3, <3>5, <4>1, <4>2 DEF PaidIsGone, Matches
    <3>9. HeldIsUnused'
      <4>1. uses[n] = 0
        BY <3>4 DEF IInv, UnspentIsUnused
      <4>2. \A d \in Calls \ {c} : Holds(d)' <=> Holds(d)
        BY <3>3 DEF Holds
      <4> QED
        BY <3>2, <3>3, <3>6, <4>1, <4>2 DEF IInv, HeldIsUnused
    <3>10. UnspentIsUnused'
      <4> SUFFICES ASSUME NEW m \in 1 .. MaxNonces
                   PROVE  /\ uses[m] <= 1
                          /\ m > Len(nonces') \/ nonces'[m].state # "gone" => uses[m] = 0
        BY <3>2 DEF UnspentIsUnused
      <4>1. m > Len(nonces') \/ nonces'[m].state # "gone" => m > Len(nonces) \/ nonces[m].state # "gone"
        BY <1>0, <3>1, LenProperties DEF NoncesAge
      <4> QED
        BY <4>1 DEF IInv, UnspentIsUnused
    <3> QED
      BY <3>2, <3>7, <3>8, <3>9, <3>10, GateKept
  <2>4. CASE Found(c)
    <3>1. UNCHANGED <<registry, nonces, uses>>
      BY <2>4 DEF Found, Lookup
    <3>2. NoncesAge
      BY <1>0, <3>1, NoncesOnlyAge
    <3>3. \A d \in Calls : Unpaying(d)
      BY <1>0, <2>4, FoundMoves DEF Unpaying
    <3>4. UnpaidIsFree'
      <4>1. ASSUME NEW d \in Calls \ {c}
            PROVE Unasked(d)
        BY <1>0, <2>4, <4>1, FoundMoves DEF Unasked
      <4>2. ASSUME call'[c].kind = "api", call'[c].nonce = 0, ~ call'[c].changed
            PROVE  ~ ToolsOf(call'[c].id, call'[c].tier)[call'[c].name].confirm
        <5>1. ~ RequiresConfirmation(call[c].id, call[c].name)
          BY <1>0, <2>4, <4>2, FoundMoves DEF IInv, UnpaidIsFree
        <5>2. ~ ToolsOf(call[c].id, registry[call[c].id])[call[c].name].confirm
          BY <1>0, <2>4, <5>1, FoundMoves DEF RequiresConfirmation
        <5> QED
          BY <1>0, <2>4, <5>2, FoundMoves
      <4>3. call'[c].pc = "queued"
        BY <1>0, <2>4, FoundMoves
      <4>4. ASSUME NEW d \in Calls \ {c}, call'[d].kind = "api" /\ call'[d].nonce = 0 /\ ~ call'[d].changed
            PROVE  /\ call'[d].pc = "execute" => ~ RequiresConfirmation(call[d].id, call[d].name)'
                   /\ call'[d].pc \in {"queued", "running", "taking"} =>
                        ~ ToolsOf(call'[d].id, call'[d].tier)[call'[d].name].confirm
        <5>1. call'[d] = call[d]
          BY <1>0, <2>4, FoundMoves
        <5> QED
          BY <3>1, <4>4, <5>1 DEF IInv, UnpaidIsFree, RequiresConfirmation
      <4> QED
        BY <4>2, <4>3, <4>4 DEF UnpaidIsFree
    <3> QED
      BY <3>1, <3>2, <3>3, <3>4, PaymentsKept
  <2>5. CASE Acquire(c)
    <3>1. UNCHANGED <<registry, nonces>>
      BY <2>5 DEF Acquire
    <3>2. call[c].pc = "queued"
      BY <1>0, <2>5, AcquireServes
    <3>3. /\ call'[c].pc = "running" /\ \A d \in Calls \ {c} : call'[d].pc = call[d].pc
          /\ \A d \in Calls : /\ call'[d].kind = call[d].kind /\ call'[d].id = call[d].id
                              /\ call'[d].name = call[d].name /\ call'[d].tier = call[d].tier
                              /\ call'[d].nonce = call[d].nonce
                              /\ call'[d].changed = call[d].changed
      BY <1>0, <2>5, AcquireMoves
    <3>4. \A d \in Calls : Unasked(d)
      BY <3>2, <3>3 DEF Unasked
    <3>5. PaidIsGone'
      BY <3>1, <3>3 DEF IInv, PaidIsGone, Matches
    <3>6. \A d \in Calls : Holds(d)' => Holds(d) /\ d # c
      BY <3>3 DEF Holds
    <3>7. HeldIsUnused' /\ UnspentIsUnused'
      <4>1. CASE call[c].nonce = 0
        <5>1. uses' = uses
          BY <2>5, <4>1 DEF Acquire
        <5> QED
          BY <3>1, <3>3, <3>6, <5>1 DEF IInv, HeldIsUnused, UnspentIsUnused
      <4>2. CASE call[c].nonce # 0
        <5> DEFINE n == call[c].nonce
        <5>1. n \in 1 .. MaxNonces /\ n \in 1 .. Len(nonces) /\ nonces[n].state = "gone"
          <6>1. n \in 0 .. MaxNonces
            BY <1>0 DEF CallRecord
          <6> QED
            BY <1>0, <4>2, <6>1 DEF IInv, PaidIsGone
        <5>2. Holds(c) /\ uses[n] = 0
          BY <3>2, <4>2 DEF Holds, IInv, HeldIsUnused
        <5>3. uses' = [uses EXCEPT ![n] = uses[n] + 1]
          BY <2>5, <4>2 DEF Acquire
        <5>4. \A d \in Calls : Holds(d) /\ d # c => call[d].nonce # n
          BY <5>2 DEF IInv, HeldIsUnused
        <5> HIDE DEF n
        <5>5. \A m \in 1 .. MaxNonces : uses'[m] = IF m = n THEN 1 ELSE uses[m]
          BY <1>0, <5>1, <5>2, <5>3 DEF Typed
        <5>6. \A d \in Calls : Holds(d) => call[d].nonce \in 1 .. MaxNonces
          BY <1>0, SkillsAssumption DEF Holds, CallRecord
        <5>7. HeldIsUnused'
          BY <3>3, <3>6, <5>4, <5>5, <5>6 DEF IInv, HeldIsUnused
        <5>8. UnspentIsUnused'
          BY <1>0, <3>1, <5>1, <5>5 DEF IInv, UnspentIsUnused
        <5> QED
          BY <5>7, <5>8
      <4> QED
        BY <4>1, <4>2
    <3> QED
      BY <3>1, <3>4, <3>5, <3>7, GateKept
  <2>6. CASE Denied(c)
    <3>1. UNCHANGED <<registry, nonces, uses>>
      BY <2>6 DEF Denied, FileStep
    <3>2. NoncesAge
      BY <1>0, <3>1, NoncesOnlyAge
    <3>3. \A d \in Calls : Unpaying(d) /\ Unasked(d)
      BY <1>0, <2>6 DEF Denied, FileStep, Deny, Unpaying, Unasked, Typed, CallRecord
    <3> QED
      BY <3>1, <3>2, <3>3, PaymentsKept, GateKept
  <2> QED
    BY <1>2, <2>1, <2>2, <2>3, <2>4, <2>5, <2>6 DEF OnStep
<1>3. CASE OtherStep
  <2>1. ASSUME NEW id \in McpIds, RegisterMcp(id) \/ ReloadMcp(id) PROVE Goal
    <3>1. Register(id) /\ UNCHANGED <<nonces, uses>>
      BY <2>1 DEF RegisterMcp, ReloadMcp
    <3>2. NoncesAge
      BY <1>0, <3>1, NoncesOnlyAge
    <3>3. /\ \A i \in Ids : registry'[i] = IF i = id THEN "AgentBuilt" ELSE registry[i]
          /\ \A d \in Calls :
               /\ call'[d].pc = call[d].pc /\ call'[d].kind = call[d].kind
               /\ call'[d].id = call[d].id /\ call'[d].name = call[d].name
               /\ call'[d].tier = call[d].tier /\ call'[d].nonce = call[d].nonce
               /\ call[d].changed => call'[d].changed
               /\ call[d].pc = "execute" /\ call[d].id = id /\ registry[id] # "AgentBuilt"
                    => call'[d].changed
      BY <1>0, <3>1, RegisterMarks
    <3>4. \A d \in Calls : Unpaying(d)
      BY <3>3 DEF Unpaying
    <3>5. UnpaidIsFree'
      <4> SUFFICES ASSUME NEW d \in Calls,
                          call'[d].kind = "api" /\ call'[d].nonce = 0 /\ ~ call'[d].changed
                   PROVE  /\ call'[d].pc = "execute" => ~ RequiresConfirmation(call[d].id, call[d].name)'
                          /\ call'[d].pc \in {"queued", "running", "taking"} =>
                               ~ ToolsOf(call'[d].id, call'[d].tier)[call'[d].name].confirm
        BY DEF UnpaidIsFree
      <4>1. /\ call[d].pc = "execute" => ~ RequiresConfirmation(call[d].id, call[d].name)
            /\ call[d].pc \in {"queued", "running", "taking"} =>
                 ~ ToolsOf(call[d].id, call[d].tier)[call[d].name].confirm
        BY <3>3 DEF IInv, UnpaidIsFree
      <4>2. ASSUME call[d].pc = "execute" PROVE registry'[call[d].id] = registry[call[d].id]
        <5>1. call[d].id \in Ids
          BY <1>0, <4>2 DEF Typed
        <5> QED
          BY <3>3, <4>2, <5>1
      <4>3. call'[d].pc = "execute" => ~ RequiresConfirmation(call[d].id, call[d].name)'
        BY <3>3, <4>1, <4>2 DEF RequiresConfirmation
      <4> QED
        BY <3>3, <4>1, <4>3
    <3> QED
      BY <3>1, <3>2, <3>4, <3>5, PaymentsKept
  <2>2. CASE Expire \/ ChildEnds
    <3>1. UNCHANGED <<registry, call, uses>>
      BY <2>2 DEF Expire, ChildEnds
    <3>2. NoncesAge
      BY <1>0, <2>2, NoncesOnlyAge DEF ChildEnds
    <3>3. \A d \in Calls : Unpaying(d) /\ Unasked(d)
      BY <3>1 DEF Unpaying, Unasked
    <3> QED
      BY <3>1, <3>2, <3>3, PaymentsKept, GateKept
  <2>3. CASE Restart
    <3>1. NoncesAge /\ uses' = uses
      BY <1>0, <2>3, NoncesOnlyAge DEF Restart
    <3>2. \A d \in Calls : call'[d].pc = "idle" /\ call'[d].nonce = 0
      BY <2>3, IdleIsACall DEF Restart
    <3>3. UnpaidIsFree'
      BY <3>2 DEF UnpaidIsFree
    <3>4. \A d \in Calls : Unpaying(d)
      BY <3>2 DEF Unpaying
    <3> QED
      BY <3>1, <3>3, <3>4, PaymentsKept
  <2> QED
    BY <1>3, <2>1, <2>2, <2>3 DEF OtherStep
<1>4. CASE UNCHANGED vars
  <2>1. UNCHANGED <<registry, nonces, call, uses>>
    BY <1>4 DEF vars
  <2>2. NoncesAge
    BY <1>0, <2>1, NoncesOnlyAge
  <2>3. \A d \in Calls : Unpaying(d) /\ Unasked(d)
    BY <2>1 DEF Unpaying, Unasked
  <2> QED
    BY <2>1, <2>2, <2>3, PaymentsKept, GateKept
<1> QED
  BY <1>0, <1>1, <1>2, <1>3, <1>4, NextCases

-----------------------------------------------------------------------------
(* The theorems about nonces.                                              *)

LEMMA InitIInv == Init => IInv
<1> SUFFICES ASSUME Init PROVE IInv
  OBVIOUS
<1>1. /\ \A c \in Calls : call[c].pc = "idle" /\ call[c].nonce = 0
      /\ call \in [Calls -> CallRecord]
  BY IdleIsACall DEF Init
<1>2. Len(nonces) = 0 /\ nonces \in Seq(NonceRecord) /\ Len(queue) = 0 /\ queue \in Seq(Calls)
  BY EmptySeq DEF Init
<1>3. registry \in [Ids -> Tiers]
  BY DEF Init, Registered, Tiers
<1>4. uses \in [1 .. MaxNonces -> Nat] /\ \A n \in 1 .. MaxNonces : uses[n] = 0
  BY DEF Init
<1>5. Typed
  BY <1>1, <1>2, <1>3, <1>4, SkillsAssumption DEF Init, Typed
<1>6. QueueWaits
  BY <1>1, <1>2 DEF QueueWaits
<1>7. UnpaidIsFree /\ PaidIsGone /\ HeldIsUnused
  BY <1>1 DEF UnpaidIsFree, PaidIsGone, HeldIsUnused, Holds
<1>8. UnspentIsUnused
  BY <1>4 DEF UnspentIsUnused
<1> QED
  BY <1>5, <1>6, <1>7, <1>8 DEF IInv

LEMMA IInvHolds == Spec => []IInv
<1>1. IInv /\ [Next]_vars => IInv'
  BY TypedStep, QueueStep, NonceStep DEF IInv
<1> QED
  BY InitIInv, <1>1, PTL DEF Spec

LEMMA IInvConfirms == IInv => ConfirmedOnce
<1> SUFFICES ASSUME IInv PROVE ConfirmedOnce
  OBVIOUS
<1>1. \A n \in DOMAIN uses : uses[n] <= 1
  BY DEF IInv, Typed, UnspentIsUnused
<1>2. ASSUME NEW c \in Calls, NeedsNonce(c), ~ call[c].changed
      PROVE  /\ call[c].nonce \in DOMAIN nonces
             /\ Matches(nonces[call[c].nonce], c)
             /\ nonces[call[c].nonce].state = "gone"
  <2>1. call[c].nonce # 0
    BY <1>2 DEF NeedsNonce, IInv, UnpaidIsFree
  <2>2. /\ call[c].nonce <= Len(nonces) /\ nonces[call[c].nonce].state = "gone"
        /\ Matches(nonces[call[c].nonce], c)
    BY <2>1 DEF IInv, PaidIsGone
  <2>3. call[c].nonce \in 0 .. MaxNonces /\ Len(nonces) \in Nat /\ DOMAIN nonces = 1 .. Len(nonces)
    BY LenProperties DEF IInv, Typed, CallRecord
  <2> QED
    BY <2>1, <2>2, <2>3, SkillsAssumption
<1> QED
  BY <1>1, <1>2 DEF ConfirmedOnce

\* A tool that asks for confirmation runs for an API caller on a nonce issued for it
\* and out of the map, or a registration came between the handler's look and the
\* executor's; no nonce pays for two runs.
THEOREM ConfirmationsPayOnce == Spec => []ConfirmedOnce
  BY IInvHolds, IInvConfirms, PTL

-----------------------------------------------------------------------------
(* The stash.                                                              *)

\* A path outside the roots can only be denied.
LEMMA BadPathsAreDenied ==
  ASSUME NEW name \in DOMAIN FileTools PROVE ToolOutcomes(name, "bad") = {"denied"}
<1>1. name \in {"read_file", "write_file", "list_directory", "search_files"}
  BY DEF FileTools
<1>2. FileOutcomes(name, "bad") = {"denied"}
  BY DEF FileOutcomes, ValidatePath
<1>3. ToolOutcomes(name, "bad") = FileOutcomes(name, "bad")
  BY <1>1 DEF ToolOutcomes, FileTools, HttpTools, EmailTools, Free, Asks
<1> QED
  BY <1>2, <1>3

LEMMA InitFInv == Init => FInv
  BY IdleIsACall DEF Init, FInv, AloneOwnsTheStash, TierIsFound, OwnFailure, Filing

\* A file call that ends denied has its own failure, or ran beside another.
LEMMA OwnEnd ==
  ASSUME Typed, FInv, NEW c \in Calls, EndStep(c),
         call'[c].pc = "done", call'[c].name \in DOMAIN FileTools, call'[c].arg = "bad",
         call'[c].tier # "absent", ~ call'[c].mixed
  PROVE  call'[c].out = "denied" /\ call'[c].failure = c
<1> call[c] \in CallRecord
  BY DEF Typed
<1>1. CASE TakeFailure(c)
  <2>1. /\ call'[c].out = IF stash = NoOne THEN "err" ELSE "denied"
        /\ call'[c].failure = stash /\ call'[c].mixed = call[c].mixed
    BY <1>1, TakenIsOver
  <2>2. Filing(c) /\ call[c].pc = "taking"
    BY <1>1 DEF TakeFailure, Filing, FInv, AloneOwnsTheStash
  <2>3. stash = c
    BY <2>1, <2>2 DEF FInv, AloneOwnsTheStash
  <2> QED
    BY <2>1, <2>3, SkillsAssumption
<1>2. CASE HangUp(c) \/ Return(c)
  BY <1>2, IdleIsACall DEF HangUp, Return, Typed
<1>3. ASSUME NEW out \in Outs, call' = [call EXCEPT ![c] = Answer(c, out)]
      PROVE  /\ call[c].name \in DOMAIN FileTools /\ call[c].arg = "bad"
             /\ call[c].tier # "absent"
  <2>1. call'[c] = Answer(c, out)
    BY <1>3 DEF Typed
  <2> QED
    BY <2>1, AnsweredIsOver
<1>4. CASE Gate(c)
  <2>1. call[c].pc = "gate" /\ \E out \in Outs : call' = [call EXCEPT ![c] = Answer(c, out)]
    <3>1. CASE IssueNonce(c)
      BY <3>1, AnswersAreOuts DEF IssueNonce
    <3>2. ASSUME NEW n \in 0 .. Len(nonces), ConfirmWith(c, n)
          PROVE  call[c].pc = "gate" /\ \E out \in Outs : call' = [call EXCEPT ![c] = Answer(c, out)]
      <4>1. call' # [call EXCEPT ![c].pc = "execute", ![c].nonce = n]
        BY DEF Typed, CallRecord
      <4> QED
        BY <3>2, <4>1, AnswersAreOuts DEF ConfirmWith
    <3>3. ~ NotAsked(c)
      BY DEF NotAsked, Typed, CallRecord
    <3> QED
      BY <1>4, <3>1, <3>2, <3>3 DEF Gate
  <2> QED
    BY <1>3, <2>1 DEF FInv, TierIsFound
<1>5. CASE Lookup(c)
  <2>1. call[c].pc = "execute"
    BY <1>5 DEF Lookup
  <2>2. ~ Found(c)
    BY FoundMoves
  <2>3. call' = [call EXCEPT ![c] = Answer(c, "err")]
    BY <1>5, <2>2 DEF Lookup, Found
  <2> QED
    BY <1>3, <2>1, <2>3, AnswersAreOuts DEF FInv, TierIsFound
<1>6. CASE Finish(c)
  <2>1. /\ ~ (call[c].name \in DOMAIN FileTools)
        /\ \E out \in Outs : call' = [call EXCEPT ![c] = Answer(c, out)]
    BY <1>6, AnswersAreOuts DEF Finish
  <2> QED
    BY <1>3, <2>1
<1>7. CASE Timeout(c)
  <2>1. /\ ~ (call[c].name \in DOMAIN FileTools)
        /\ call' = [call EXCEPT ![c] = Answer(c, "err")]
    BY <1>7 DEF Timeout, Synchronous
  <2> QED
    BY <1>3, <2>1, AnswersAreOuts
<1>8. CASE FileStep(c)
  <2>1. PICK out \in ToolOutcomes(call[c].name, call[c].arg) :
          IF out = "denied" THEN Deny(c)
          ELSE call' = [call EXCEPT ![c] = Answer(c, out)] /\ UNCHANGED stash
    BY <1>8 DEF FileStep
  <2>2. ~ Deny(c)
    BY DEF Deny, Typed, CallRecord
  <2>3. out # "denied" /\ call' = [call EXCEPT ![c] = Answer(c, out)] /\ out \in Outs
    BY <2>1, <2>2, AnswersAreOuts
  <2>4. call[c].arg = "bad" /\ call[c].name \in DOMAIN FileTools
    BY <1>3, <2>3
  <2>5. ToolOutcomes(call[c].name, call[c].arg) = {"denied"}
    BY <2>4, BadPathsAreDenied
  <2> QED
    BY <2>3, <2>5
<1> QED
  BY <1>1, <1>2, <1>4, <1>5, <1>6, <1>7, <1>8 DEF EndStep

LEMMA FInvStep == Typed /\ QueueWaits /\ FInv /\ [Next]_vars => FInv'
<1> SUFFICES ASSUME Typed, QueueWaits, FInv, [Next]_vars PROVE FInv'
  OBVIOUS
<1>0. \A d \in Calls : call[d] \in CallRecord
  BY DEF Typed
<1>1. ASSUME NEW c \in Calls, EndStep(c) PROVE FInv'
  <2>1. Ends(c)
    BY <1>1, EndStepEnds
  <2>2. TakeFailure(c) \/ UNCHANGED stash
    BY <1>1 DEF EndStep, Finish, Timeout, HangUp, Return, Gate, Lookup, FileStep, Deny, Typed,
                CallRecord
  <2>3. AloneOwnsTheStash'
    <3>1. \A d \in Calls : Filing(d)' => Filing(d) /\ d # c /\ call'[d] = call[d]
      BY <2>1 DEF Ends, Filing
    <3>2. TakeFailure(c) => Filing(c)
      BY DEF TakeFailure, Filing, FInv, AloneOwnsTheStash
    <3>3. \A d \in Calls : call'[d].pc = "taking" => d # c /\ call'[d] = call[d]
      BY <2>1 DEF Ends
    <3> QED
      BY <2>2, <3>1, <3>2, <3>3 DEF FInv, AloneOwnsTheStash
  <2>4. TierIsFound'
    BY <2>1 DEF Ends, FInv, TierIsFound
  <2>5. call'[c].pc = "done" /\ call'[c].name \in DOMAIN FileTools /\ call'[c].arg = "bad"
          /\ call'[c].tier # "absent" /\ ~ call'[c].mixed
        => call'[c].out = "denied" /\ call'[c].failure = c
    BY <1>0, <1>1, OwnEnd
  <2> QED
    BY <2>1, <2>3, <2>4, <2>5 DEF Ends, FInv, OwnFailure
<1>2. ASSUME NEW c \in Calls, OnStep(c) PROVE FInv'
  <2>1. CASE Acquire(c)
    <3> DEFINE filing == call[c].name \in DOMAIN FileTools
    <3>1. /\ call'[c].pc = "running"
          /\ ~ call'[c].mixed /\ filing => \A d \in Calls \ {c} : ~ Filing(d)
          /\ \A d \in Calls : /\ call'[d].name = call[d].name /\ call'[d].arg = call[d].arg
                              /\ call'[d].tier = call[d].tier
                              /\ call'[d].out = call[d].out /\ call'[d].failure = call[d].failure
          /\ \A d \in Calls \ {c} :
               /\ call'[d].pc = call[d].pc
               /\ ~ call'[d].mixed => ~ call[d].mixed /\ ~ (filing /\ Filing(d))
      BY <2>1, AcquireMoves
    <3>2. ~ filing => UNCHANGED stash
      BY <2>1 DEF Acquire, ClearStash
    <3>3. \A d \in Calls \ {c} : Filing(d)' <=> Filing(d)
      BY <3>1 DEF Filing
    <3>4. Filing(c)' <=> filing
      BY <3>1 DEF Filing
    <3> HIDE DEF filing
    <3>5. AloneOwnsTheStash'
      <4>1. \A d \in Calls : call'[d].pc = "taking" => call'[d].name \in DOMAIN FileTools
        BY <3>1 DEF FInv, AloneOwnsTheStash
      <4>2. ASSUME Filing(c)', ~ call'[c].mixed
            PROVE  /\ \A d \in Calls : Filing(d)' => d = c
                   /\ call'[c].pc # "taking"
        BY <3>1, <3>3, <3>4, <4>2
      <4>3. ASSUME NEW d \in Calls \ {c}, Filing(d)', ~ call'[d].mixed
            PROVE  /\ \A e \in Calls : Filing(e)' => e = d
                   /\ call'[d].pc = "taking" => stash' = d
        <5>1. Filing(d) /\ ~ call[d].mixed /\ ~ filing
          BY <3>1, <3>3, <4>3
        <5> QED
          BY <3>1, <3>2, <3>3, <3>4, <5>1 DEF FInv, AloneOwnsTheStash
      <4> QED
        BY <4>1, <4>2, <4>3 DEF AloneOwnsTheStash
    <3>6. TierIsFound' /\ OwnFailure'
      BY <3>1 DEF FInv, TierIsFound, OwnFailure
    <3> QED
      BY <3>5, <3>6 DEF FInv
  <2>2. CASE Denied(c)
    <3>1. /\ call[c].pc = "running" /\ call[c].name \in DOMAIN FileTools /\ stash' = c
          /\ call'[c].pc = "taking" /\ call'[c].name = call[c].name
          /\ call'[c].mixed = call[c].mixed
          /\ \A d \in Calls \ {c} : call'[d] = call[d]
      BY <1>0, <2>2 DEF Denied, FileStep, Deny, Typed, CallRecord
    <3>2. \A d \in Calls : Filing(d)' <=> Filing(d)
      BY <3>1 DEF Filing
    <3>3. Filing(c)
      BY <3>1 DEF Filing
    <3>4. AloneOwnsTheStash'
      BY <3>1, <3>2, <3>3 DEF FInv, AloneOwnsTheStash
    <3>5. TierIsFound' /\ OwnFailure'
      BY <3>1 DEF FInv, TierIsFound, OwnFailure
    <3> QED
      BY <3>4, <3>5 DEF FInv
  <2>3. CASE ~ Acquire(c) /\ ~ Denied(c)
    <3>1. /\ call'[c].pc \notin {"running", "taking", "done"}
          /\ call'[c].pc \in {"gate", "execute"} => call'[c].tier = "absent"
          /\ \A d \in Calls \ {c} : call'[d] = call[d]
      <4>1. CASE Found(c)
        BY <4>1, FoundMoves
      <4>2. CASE ApiCall(c)
        BY <4>2 DEF ApiCall, Typed, IdleCall
      <4>3. CASE LoopCall(c)
        BY <4>3 DEF LoopCall, Typed, IdleCall
      <4>4. CASE Gate(c) /\ NotAsked(c)
        BY <1>0, <4>4 DEF NotAsked, Typed, CallRecord, FInv, TierIsFound
      <4>5. ASSUME NEW n \in 0 .. Len(nonces), Gate(c), Pay(c, n)
            PROVE  /\ call'[c].pc = "execute" /\ call'[c].tier = "absent"
                   /\ \A d \in Calls \ {c} : call'[d] = call[d]
        BY <1>0, <4>5 DEF Pay, ConfirmWith, Typed, CallRecord, FInv, TierIsFound
      <4> QED
        BY <1>2, <2>3, <4>1, <4>2, <4>3, <4>4, <4>5 DEF OnStep
    <3>2. UNCHANGED stash
      BY <1>2, <2>3 DEF OnStep, ApiCall, LoopCall, Gate, Found, Lookup
    <3>3. \A d \in Calls : Filing(d)' => d # c /\ Filing(d)
      BY <3>1 DEF Filing
    <3>4. AloneOwnsTheStash'
      BY <3>1, <3>2, <3>3 DEF FInv, AloneOwnsTheStash
    <3>5. TierIsFound' /\ OwnFailure'
      BY <3>1 DEF FInv, TierIsFound, OwnFailure
    <3> QED
      BY <3>4, <3>5 DEF FInv
  <2> QED
    BY <2>1, <2>2, <2>3
<1>3. CASE OtherStep
  <2>1. ASSUME NEW id \in McpIds, RegisterMcp(id) \/ ReloadMcp(id) PROVE FInv'
    <3>1. Register(id) /\ UNCHANGED stash
      BY <2>1 DEF RegisterMcp, ReloadMcp
    <3>2. \A d \in Calls :
            /\ call'[d].pc = call[d].pc /\ call'[d].name = call[d].name
            /\ call'[d].arg = call[d].arg /\ call'[d].tier = call[d].tier
            /\ call'[d].out = call[d].out
            /\ call'[d].failure = call[d].failure /\ call'[d].mixed = call[d].mixed
      BY <3>1, RegisterMarks
    <3> QED
      BY <3>1, <3>2 DEF FInv, AloneOwnsTheStash, TierIsFound, OwnFailure, Filing
  <2>2. CASE Expire \/ ChildEnds
    BY <2>2 DEF Expire, ChildEnds, FInv, AloneOwnsTheStash, TierIsFound, OwnFailure, Filing
  <2>3. CASE Restart
    <3>1. \A d \in Calls : call'[d].pc = "idle"
      BY <2>3, IdleIsACall DEF Restart
    <3> QED
      BY <3>1 DEF FInv, AloneOwnsTheStash, TierIsFound, OwnFailure, Filing
  <2> QED
    BY <1>3, <2>1, <2>2, <2>3 DEF OtherStep
<1>4. CASE UNCHANGED vars
  BY <1>4 DEF vars, FInv, AloneOwnsTheStash, TierIsFound, OwnFailure, Filing
<1> QED
  BY <1>1, <1>2, <1>3, <1>4, NextCases

\* A denied file call takes the failure it left in the stash, if no other file call
\* ran beside it (skill-filesystem permission_denied, execute_tool).
THEOREM DenialsAreOwn == Spec => []OwnFailure
<1>1. (Typed /\ QueueWaits) /\ FInv /\ [Next]_vars => FInv'
  BY FInvStep
<1>2. IInv => Typed /\ QueueWaits
  BY DEF IInv
<1>3. FInv => OwnFailure
  BY DEF FInv
<1> QED
  BY IInvHolds, InitFInv, <1>1, <1>2, <1>3, PTL DEF Spec

-----------------------------------------------------------------------------
(***************************************************************************)
(* The cooperative-install skill, module HostInstall.                      *)
(*                                                                         *)
(* What a report promised can be backed by the host when its script ends   *)
(* only if the lines the mentor has still to run cover what is missing,    *)
(* and that needs the script in the file to be the one the report's call   *)
(* wrote: hence the three parts ReportsHold (the file), RunHolds (the      *)
(* lines that are left) and DeliveredRan (a report is delivered once).     *)
(***************************************************************************)

\* What the lines of a script range over.
Dos == {"admin", "update", "preflight", "ensure", "run", "verify"}
Lines == [do : Dos, check : Checks \union {{}}]

\* Lines that let nobody pass while check k has nothing on the host to rest on.
Covers(lines, k) ==
    \E i \in 1 .. Len(lines) : lines[i].do \in {"ensure", "verify"} /\ lines[i].check = k

\* When the lines are done, a host that has there now backs what is promised.
Secures(lines, promised, there) == \A k \in promised : Backed(k, there) \/ Covers(lines, k)

ReportsTyped ==
    /\ DOMAIN install = Installs
    /\ \A c \in Installs :
         /\ DOMAIN install[c] = {"pc", "wanted", "manager", "platform", "path", "promised", "delivered"}
         /\ install[c].wanted \in Lists(Packages) /\ install[c].promised \in Lists(Checks)
ScriptsTyped ==
    /\ DOMAIN written = DOMAIN files
    /\ \A path \in DOMAIN files : files[path] \in Seq(Lines)
RunTyped ==
    run # NoRun => DOMAIN run = {"of", "platform", "lines"} /\ run.of \in Installs /\ run.lines \in Seq(Lines)

InstallTyped == ReportsTyped /\ ScriptsTyped /\ RunTyped

\* A report's script is there, written by its call, and secures what the report
\* promises as long as nobody else wrote it.
ReportsHold ==
    \A c \in Installs : install[c].pc \in {"script", "ran"} =>
        /\ install[c].path \in DOMAIN files
        /\ c \in written[install[c].path]
        /\ ~ Overwritten(c) => Secures(files[install[c].path], install[c].promised, {})

\* So do the lines that are left of the script the mentor is running.
RunHolds ==
    run # NoRun => /\ install[run.of].pc = "ran"
                   /\ ~ Overwritten(run.of) => Secures(run.lines, install[run.of].promised, host)

DeliveredRan == \A c \in Installs : install[c].delivered => install[c].pc = "ran"

InstallInv == InstallTyped /\ ReportsHold /\ RunHolds /\ DeliveredRan /\ MentorRunDelivers

LEMMA ListInSequence ==
  ASSUME NEW S, IsFiniteSet(S)
  PROVE  /\ SetToSeq(S) \in Seq(S)
         /\ Len(SetToSeq(S)) = Cardinality(S)
         /\ \A x \in S : \E i \in 1 .. Cardinality(S) : SetToSeq(S)[i] = x
<1> DEFINE n == Cardinality(S)
           F == [1 .. n -> S]
<1>1. n \in Nat /\ ExistsBijection(1 .. n, S)
  BY FS_CardinalityType
<1>2. \E f \in F : IsInjective(f)
  BY <1>1 DEF ExistsBijection, Bijection, Injection
<1>3. SetToSeq(S) \in F /\ IsInjective(SetToSeq(S))
  BY <1>2 DEF SetToSeq
<1>4. SetToSeq(S) \in Injection(1 .. n, S)
  BY <1>3 DEF Injection
<1>5. Cardinality(1 .. n) = n
  BY <1>1, FS_Interval
<1>6. SetToSeq(S) \in Surjection(1 .. n, S)
  BY <1>1, <1>4, <1>5, FS_Injection
<1>7. \A x \in S : \E i \in 1 .. n : SetToSeq(S)[i] = x
  BY <1>6 DEF Surjection
<1> QED BY <1>1, <1>3, <1>7

LEMMA ConcatCovers ==
  ASSUME NEW s \in Seq(Lines), NEW t \in Seq(Lines), NEW k
  PROVE  /\ s \o t \in Seq(Lines)
         /\ Covers(s, k) \/ Covers(t, k) => Covers(s \o t, k)
<1>1. s \o t \in Seq(Lines) /\ Len(s \o t) = Len(s) + Len(t) /\ Len(s) \in Nat /\ Len(t) \in Nat
  OBVIOUS
<1>2. \A i \in 1 .. Len(s) : i \in 1 .. Len(s \o t) /\ (s \o t)[i] = s[i]
  BY <1>1
<1>3. \A i \in 1 .. Len(t) : i + Len(s) \in 1 .. Len(s \o t) /\ (s \o t)[i + Len(s)] = t[i]
  BY <1>1
<1>4. Covers(s, k) => Covers(s \o t, k)
  BY <1>2 DEF Covers
<1>5. Covers(t, k) => Covers(s \o t, k)
  BY <1>3 DEF Covers
<1> QED BY <1>1, <1>4, <1>5

\* One line per check, for every check.
LEMMA EachCovers ==
  ASSUME NEW do \in Dos, NEW checks \in Lists(Checks)
  PROVE  /\ Each(do, checks) \in Seq(Lines)
         /\ do \in {"ensure", "verify"} => \A k \in checks : Covers(Each(do, checks), k)
<1> DEFINE n == Cardinality(checks)
           s == SetToSeq(checks)
<1>1. n \in Nat /\ s \in Seq(checks) /\ Len(s) = n /\ \A k \in checks : \E i \in 1 .. n : s[i] = k
  BY ListInSequence, FS_CardinalityType DEF Lists
<1>2. \A i \in 1 .. n : s[i] \in Checks
  BY <1>1 DEF Lists
<1>3. \A i \in 1 .. n : Line(do, s[i]) \in Lines /\ Line(do, s[i]).do = do /\ Line(do, s[i]).check = s[i]
  BY <1>2 DEF Line, Lines
<1>4. Each(do, checks) = [i \in 1 .. n |-> Line(do, s[i])]
  BY DEF Each
<1>5. Each(do, checks) \in Seq(Lines) /\ Len(Each(do, checks)) = n
  BY <1>1, <1>3, <1>4
<1>6. ASSUME do \in {"ensure", "verify"}, NEW k \in checks
      PROVE  Covers(Each(do, checks), k)
  BY <1>1, <1>3, <1>4, <1>5, <1>6 DEF Covers
<1> QED BY <1>5, <1>6

LEMMA OneLine ==
  ASSUME NEW do \in Dos
  PROVE  <<Line(do, {})>> \in Seq(Lines) /\ << >> \in Seq(Lines)
<1> DEFINE x == Line(do, {})
<1>1. x \in Lines
  BY DEF Line, Lines
<1> HIDE DEF x
<1>2. <<x>> = [i \in 1 .. 1 |-> x]
  OBVIOUS
<1>3. [i \in 1 .. 1 |-> x] \in Seq(Lines)
  BY <1>1
<1>4. << >> \in Seq(Lines)
  OBVIOUS
<1> QED BY <1>2, <1>3, <1>4 DEF x

LEMMA ScriptCovers ==
  ASSUME NEW platform, NEW steps \in Seq(Lines), NEW admin, NEW checks \in Lists(Checks)
  PROVE  /\ BuildScript(platform, steps, admin, checks) \in Seq(Lines)
         /\ \A k \in checks : Covers(BuildScript(platform, steps, admin, checks), k)
         /\ \A k : Covers(steps, k) => Covers(BuildScript(platform, steps, admin, checks), k)
<1> DEFINE a == When(admin, <<Line("admin", {})>>)
           f == Each("preflight", checks)
           v == Each("verify", checks)
<1>1. a \in Seq(Lines)
  BY OneLine DEF Dos, When
<1>2. f \in Seq(Lines) /\ v \in Seq(Lines) /\ \A k \in checks : Covers(v, k)
  BY EachCovers DEF Dos
<1>3. a \o f \in Seq(Lines)
  BY <1>1, <1>2, ConcatCovers
<1>4. (a \o f) \o steps \in Seq(Lines) /\ \A k : Covers(steps, k) => Covers((a \o f) \o steps, k)
  <2> HIDE DEF a, f
  <2> QED BY <1>3, ConcatCovers
<1>5. /\ ((a \o f) \o steps) \o v \in Seq(Lines)
      /\ \A k : Covers(steps, k) => Covers(((a \o f) \o steps) \o v, k)
      /\ \A k \in checks : Covers(((a \o f) \o steps) \o v, k)
  <2> HIDE DEF a, f, v
  <2> QED BY <1>2, <1>4, ConcatCovers
<1>6. BuildScript(platform, steps, admin, checks) = ((a \o f) \o steps) \o v
  BY DEF BuildScript, BuildBashScript, BuildPowershellScript
<1> HIDE DEF a, f, v
<1> QED BY <1>5, <1>6

\* The checks of an install script's packages.
LEMMA ChecksListed ==
  ASSUME NEW platform, NEW manager, NEW packages \in Lists(Packages)
  PROVE  InstallChecks(platform, manager, packages) \in Lists(Checks)
<1> DEFINE CheckOf(p) == IF platform = "bash" THEN BashInstallStep(manager, p)
                         ELSE PowershellInstallStep(manager, p)
<1>1. \A p \in Packages : BashInstallStep(manager, p) \in Checks
  BY DEF BashInstallStep, Checks
<1>2. \A p \in Packages : PowershellInstallStep(manager, p) \in Checks
  BY DEF PowershellInstallStep, Checks
<1>3. InstallChecks(platform, manager, packages) = {CheckOf(p) : p \in packages}
  BY DEF InstallChecks
<1>4. IsFiniteSet({CheckOf(p) : p \in packages})
  <2> DEFINE f == [p \in packages |-> CheckOf(p)]
             T == {CheckOf(p) : p \in packages}
  <2> HIDE DEF CheckOf
  <2>1. IsFiniteSet(packages)
    BY DEF Lists
  <2>2. f \in Surjection(packages, T)
    BY DEF Surjection
  <2> HIDE DEF f, T
  <2>3. IsFiniteSet(T)
    BY <2>1, <2>2, FS_Surjection
  <2> QED BY <2>3 DEF T
<1> QED BY <1>1, <1>2, <1>3, <1>4 DEF Lists

\* Every package of an install script is checked before and after it is installed.
LEMMA StepsCover ==
  ASSUME NEW platform, NEW manager, NEW packages \in Lists(Packages)
  PROVE  /\ InstallSteps(platform, manager, packages) \in Seq(Lines)
         /\ \A k \in InstallChecks(platform, manager, packages) :
               Covers(InstallSteps(platform, manager, packages), k)
<1> DEFINE checks == InstallChecks(platform, manager, packages)
           u == When(platform = "bash" /\ manager \in {"apt-get", "apt"}, <<Line("update", {})>>)
<1>1. checks \in Lists(Checks)
  BY ChecksListed
<1>2. u \in Seq(Lines)
  BY OneLine DEF Dos, When
<1>3. InstallSteps(platform, manager, packages) = u \o Each("ensure", checks)
  BY DEF InstallSteps
<1> HIDE DEF u, checks
<1>4. Each("ensure", checks) \in Seq(Lines) /\ \A k \in checks : Covers(Each("ensure", checks), k)
  BY <1>1, EachCovers DEF Dos
<1>5. /\ u \o Each("ensure", checks) \in Seq(Lines)
      /\ \A k \in checks : Covers(u \o Each("ensure", checks), k)
  BY <1>2, <1>4, ConcatCovers
<1> QED BY <1>3, <1>5 DEF checks

\* A call that takes a report of its own leaves the others, the files and the host.
LEMMA EndKeeps ==
  ASSUME InstallInv, NEW c \in Installs, install[c].pc \notin {"script", "ran"},
         NEW r, DOMAIN r = DOMAIN install[c], r.wanted \in Lists(Packages), r.promised \in Lists(Checks),
         r.pc \notin {"script", "ran"}, ~ r.delivered,
         install' = [install EXCEPT ![c] = r],
         UNCHANGED <<env, now, files, written, host, run>>
  PROVE  InstallInv'
<1>1. \A d \in Installs : install'[d] = IF d = c THEN r ELSE install[d]
  BY DEF InstallInv, InstallTyped, ReportsTyped
<1>2. \A d \in Installs \ {c} : install'[d] = install[d] /\ Overwritten(d)' = Overwritten(d)
  BY <1>1 DEF Overwritten
<1>3. ReportsTyped'
  BY <1>1 DEF InstallInv, InstallTyped, ReportsTyped
<1>4. ScriptsTyped' /\ RunTyped'
  BY DEF InstallInv, InstallTyped, ScriptsTyped, RunTyped
<1>5. ReportsHold'
  BY <1>1, <1>2 DEF InstallInv, ReportsHold
<1>6. RunHolds'
  <2>1. run # NoRun => run.of \in Installs \ {c}
    BY DEF InstallInv, InstallTyped, RunTyped, RunHolds
  <2> QED BY <1>2, <2>1 DEF InstallInv, RunHolds
<1>7. DeliveredRan'
  BY <1>1 DEF InstallInv, DeliveredRan
<1>8. MentorRunDelivers'
  BY <1>1, <1>2 DEF InstallInv, MentorRunDelivers
<1> QED BY <1>3, <1>4, <1>5, <1>6, <1>7, <1>8 DEF InstallInv, InstallTyped

\* A script takes its place, under the name of another one perhaps.
LEMMA PersistKeeps ==
  ASSUME InstallInv, NEW c \in Installs, install[c].pc \notin {"script", "ran"},
         NEW path, NEW lines \in Seq(Lines), NEW promised \in Lists(Checks),
         \A k \in promised : Covers(lines, k),
         PersistScript(c, path, lines, promised),
         UNCHANGED <<env, now, host, run>>
  PROVE  InstallInv'
<1> DEFINE r == [Waiting EXCEPT !.pc = "script", !.path = path, !.promised = promised]
<1>1. /\ DOMAIN r = {"pc", "wanted", "manager", "platform", "path", "promised", "delivered"}
      /\ r.wanted = {} /\ r.promised = promised /\ r.path = path /\ r.pc = "script" /\ ~ r.delivered
  BY DEF Waiting
<1>2. {} \in Lists(Packages)
  BY FS_EmptySet DEF Lists
<1> HIDE DEF r
<1>3. \A d \in Installs : install'[d] = IF d = c THEN r ELSE install[d]
  BY DEF InstallInv, InstallTyped, ReportsTyped, PersistScript, r
<1>4. ReportsTyped'
  BY <1>1, <1>2, <1>3 DEF InstallInv, InstallTyped, ReportsTyped, PersistScript, r
<1>5. /\ DOMAIN files' = DOMAIN files \union {path} /\ DOMAIN written' = DOMAIN files'
      /\ \A q \in DOMAIN files \ {path} : files'[q] = files[q] /\ written'[q] = written[q]
      /\ files'[path] = lines
      /\ c \in written'[path]
      /\ path \in DOMAIN files => written'[path] = written[path] \union {c}
  BY DEF PersistScript
<1>6. ScriptsTyped'
  BY <1>5 DEF InstallInv, InstallTyped, ScriptsTyped
<1>7. RunTyped'
  BY DEF InstallInv, InstallTyped, RunTyped
<1>8. ASSUME NEW d \in Installs \ {c}, install[d].pc \in {"script", "ran"}
      PROVE  /\ install'[d] = install[d] /\ install[d].path \in DOMAIN files
             /\ Overwritten(d) => Overwritten(d)'
             /\ ~ Overwritten(d)' => install[d].path # path /\ files'[install[d].path] = files[install[d].path]
  BY <1>3, <1>5, <1>8 DEF InstallInv, ReportsHold, Overwritten
<1>9. ReportsHold'
  <2>1. ASSUME NEW d \in Installs \ {c}, install'[d].pc \in {"script", "ran"}
        PROVE  /\ install'[d].path \in DOMAIN files'
               /\ d \in written'[install'[d].path]
               /\ ~ Overwritten(d)' => Secures(files'[install'[d].path], install'[d].promised, {})
    <3>1. install[d].pc \in {"script", "ran"}
      BY <1>3, <2>1
    <3> QED BY <3>1, <1>5, <1>8 DEF InstallInv, ReportsHold
  <2>2. Secures(lines, promised, {})
    BY DEF Secures
  <2> QED BY <1>1, <1>3, <1>5, <2>1, <2>2 DEF ReportsHold
<1>10. RunHolds'
  <2>1. run # NoRun => run.of \in Installs \ {c} /\ install[run.of].pc = "ran"
    BY DEF InstallInv, InstallTyped, RunTyped, RunHolds
  <2> QED BY <1>8, <2>1 DEF InstallInv, RunHolds
<1>11. DeliveredRan'
  BY <1>1, <1>3 DEF InstallInv, DeliveredRan
<1>12. MentorRunDelivers'
  BY <1>1, <1>3, <1>8 DEF InstallInv, MentorRunDelivers, DeliveredRan
<1> QED BY <1>4, <1>6, <1>7, <1>9, <1>10, <1>11, <1>12 DEF InstallInv, InstallTyped

LEMMA WaitingIsAReport ==
  /\ DOMAIN Waiting = {"pc", "wanted", "manager", "platform", "path", "promised", "delivered"}
  /\ Waiting.wanted \in Lists(Packages) /\ Waiting.promised \in Lists(Checks) /\ Waiting.pc = "new" /\ ~ Waiting.delivered
  /\ \A pc, used :
       LET r == [Waiting EXCEPT !.pc = pc, !.manager = used]
       IN  /\ DOMAIN r = DOMAIN Waiting /\ r.wanted = {} /\ r.promised = {}
           /\ r.pc = pc /\ ~ r.delivered /\ {} \in Lists(Packages) /\ {} \in Lists(Checks)
  BY FS_EmptySet DEF Waiting, Lists

LEMMA ReportEnds ==
  ASSUME InstallInv, NEW c \in Installs, install[c].pc \notin {"script", "ran"},
         NEW pc, pc \notin {"script", "ran"}, NEW used, End(c, pc, used),
         UNCHANGED <<env, now, files, written, host, run>>
  PROVE  InstallInv'
<1> DEFINE r == [Waiting EXCEPT !.pc = pc, !.manager = used]
<1>1. /\ DOMAIN r = DOMAIN install[c] /\ r.wanted \in Lists(Packages) /\ r.promised \in Lists(Checks)
      /\ r.pc = pc /\ ~ r.delivered
  BY WaitingIsAReport DEF InstallInv, InstallTyped, ReportsTyped
<1>2. install' = [install EXCEPT ![c] = r]
  BY DEF End
<1> HIDE DEF r
<1> QED BY <1>1, <1>2, EndKeeps

LEMMA FallbackWay ==
  ASSUME InstallInv, NEW c \in Installs, install[c].pc \notin {"script", "ran"},
         install' = [install EXCEPT ![c].pc = "fallback"],
         UNCHANGED <<env, now, files, written, host, run>>
  PROVE  InstallInv'
<1> DEFINE r == [install[c] EXCEPT !.pc = "fallback"]
<1>1. /\ DOMAIN r = DOMAIN install[c] /\ r.wanted \in Lists(Packages) /\ r.promised \in Lists(Checks)
      /\ r.pc = "fallback" /\ ~ r.delivered
  BY DEF InstallInv, InstallTyped, ReportsTyped, DeliveredRan
<1>2. install' = [install EXCEPT ![c] = r]
  OBVIOUS
<1> HIDE DEF r
<1> QED BY <1>1, <1>2, EndKeeps

LEMMA InstallStep ==
  ASSUME InstallInv, NEW c \in Installs,
         CooperativeInstall(c) \/ DirectInstall(c) \/ ToolboxInstall(c)
  PROVE  InstallInv'
<1>1. CASE CooperativeInstall(c)
  <2>1. install[c].pc = "new" /\ UNCHANGED <<env, now, files, written, host, run>>
    BY <1>1 DEF CooperativeInstall
  <2>2. PICK wanted \in Lists(Packages), requested \in Requests, platform \in Platforms :
          IF wanted = {} \/ ~ NormalizePackageManager(requested) THEN End(c, "refused", "any")
          ELSE install' = [install EXCEPT ![c] =
                 [@ EXCEPT !.pc = Ways(requested), !.wanted = wanted,
                           !.manager = requested, !.platform = platform]]
    BY <1>1 DEF CooperativeInstall
  <2>3. CASE End(c, "refused", "any")
    BY <2>1, <2>3, ReportEnds
  <2>4. CASE ~ End(c, "refused", "any")
    <3> DEFINE r == [install[c] EXCEPT !.pc = Ways(requested), !.wanted = wanted,
                                       !.manager = requested, !.platform = platform]
    <3>1. Ways(requested) \in {"toolbox", "fallback", "direct"}
      BY DEF Ways
    <3>2. /\ DOMAIN r = DOMAIN install[c] /\ r.wanted \in Lists(Packages) /\ r.promised \in Lists(Checks)
          /\ r.pc = Ways(requested) /\ ~ r.delivered
      BY <2>1 DEF InstallInv, InstallTyped, ReportsTyped, DeliveredRan
    <3>3. install' = [install EXCEPT ![c] = r]
      BY <2>2, <2>4
    <3> HIDE DEF r
    <3> QED BY <2>1, <3>1, <3>2, <3>3, EndKeeps
  <2> QED BY <2>3, <2>4
<1>2. CASE DirectInstall(c)
  BY <1>2, ReportEnds, FallbackWay DEF DirectInstall
<1>3. CASE ToolboxInstall(c)
  BY <1>3, ReportEnds, FallbackWay DEF ToolboxInstall
<1> QED BY <1>1, <1>2, <1>3

LEMMA ScriptStep ==
  ASSUME InstallInv, NEW c \in Installs, Fallback(c) \/ GenerateHostScript(c)
  PROVE  InstallInv'
<1>1. CASE Fallback(c)
  <2> DEFINE lines == BuildInstallScript(install[c].platform, ScriptManager(c), install[c].wanted)
             path == Path("install", install[c].wanted, install[c].platform)
             checks == InstallChecks(install[c].platform, ScriptManager(c), install[c].wanted)
  <2>1. install[c].wanted \in Lists(Packages) /\ {} \in Lists(Checks)
    BY FS_EmptySet DEF InstallInv, InstallTyped, ReportsTyped, Lists
  <2>6. checks \in Lists(Checks)
    BY <2>1, ChecksListed
  <2>2. lines \in Seq(Lines) /\ \A k \in checks : Covers(lines, k)
    <3> DEFINE steps == InstallSteps(install[c].platform, ScriptManager(c), install[c].wanted)
               admin == ManagerRequiresAdmin(ScriptManager(c), install[c].platform)
    <3>1. steps \in Seq(Lines) /\ \A k \in checks : Covers(steps, k)
      BY <2>1, StepsCover
    <3>2. lines = BuildScript(install[c].platform, steps, admin, {})
      BY DEF BuildInstallScript
    <3> HIDE DEF steps, admin, lines, checks
    <3> QED BY <2>1, <3>1, <3>2, ScriptCovers
  <2>3. install[c].pc = "fallback" /\ UNCHANGED <<env, now, host, run>>
    BY <1>1 DEF Fallback
  <2>4. CASE PersistScript(c, path, lines, checks)
    <3> HIDE DEF lines, path, checks
    <3> QED BY <2>2, <2>3, <2>4, <2>6, PersistKeeps
  <2>5. CASE End(c, "refused", "any") /\ UNCHANGED <<files, written>>
    BY <2>3, <2>5, ReportEnds
  <2> QED BY <1>1, <2>4, <2>5 DEF Fallback
<1>2. CASE GenerateHostScript(c)
  <2>1. install[c].pc = "new" /\ UNCHANGED <<env, now, host, run>>
    BY <1>2 DEF GenerateHostScript
  <2>2. CASE End(c, "refused", "any") /\ UNCHANGED <<files, written>>
    BY <2>1, <2>2, ReportEnds
  <2>3. ASSUME NEW platform \in Platforms, NEW admin \in BOOLEAN,
               NEW steps \in Lists(OwnChecks("bash")), NEW checks \in Lists(OwnChecks(platform)),
               PersistScript(c, Path("host", {}, platform),
                             BuildScript(platform, Each("run", steps), admin, checks), checks)
        PROVE  InstallInv'
    <3> DEFINE lines == BuildScript(platform, Each("run", steps), admin, checks)
               path == Path("host", {}, platform)
    <3>4. steps \in Lists(Checks) /\ checks \in Lists(Checks)
      BY DEF Lists, OwnChecks
    <3>1. Each("run", steps) \in Seq(Lines)
      BY <3>4, EachCovers DEF Dos
    <3>2. lines \in Seq(Lines) /\ \A k \in checks : Covers(lines, k)
      BY <3>1, <3>4, ScriptCovers
    <3>3. PersistScript(c, path, lines, checks)
      BY <2>3
    <3> HIDE DEF lines, path
    <3> QED BY <2>1, <3>2, <3>3, <3>4, PersistKeeps
  <2> QED BY <1>2, <2>2, <2>3 DEF GenerateHostScript
<1> QED BY <1>1, <1>2

\* What backs a check is not taken away by more packages.
LEMMA BackedStays ==
  ASSUME NEW k, NEW there, NEW more, there \subseteq more, Backed(k, there)
  PROVE  Backed(k, more)
  BY DEF Backed

LEMMA StartKeeps ==
  ASSUME InstallInv, NEW c \in Installs, StartScript(c)
  PROVE  InstallInv'
<1> DEFINE r == [install[c] EXCEPT !.pc = "ran"]
<1>1. \A d \in Installs : install'[d] = IF d = c THEN r ELSE install[d]
  BY DEF StartScript, InstallInv, InstallTyped, ReportsTyped
<1>2. /\ DOMAIN r = DOMAIN install[c] /\ r.wanted = install[c].wanted /\ r.promised = install[c].promised
      /\ r.path = install[c].path /\ r.delivered = install[c].delivered /\ r.pc = "ran"
  BY DEF InstallInv, InstallTyped, ReportsTyped
<1>3. DOMAIN install' = Installs /\ install[c].pc = "script" /\ UNCHANGED <<files, written, host>>
  BY DEF StartScript, InstallInv, InstallTyped, ReportsTyped
<1> HIDE DEF r
<1>4. /\ \A d \in Installs : Overwritten(d)' = Overwritten(d) /\ install'[d].promised = install[d].promised
                              /\ install'[d].path = install[d].path /\ install'[d].delivered = install[d].delivered
      /\ \A d \in Installs : install'[d].pc = IF d = c THEN "ran" ELSE install[d].pc
  BY <1>1, <1>2, <1>3 DEF Overwritten
<1>5. ReportsTyped'
  BY <1>1, <1>2, <1>3 DEF InstallInv, InstallTyped, ReportsTyped
<1>6. ScriptsTyped'
  BY <1>3 DEF InstallInv, InstallTyped, ScriptsTyped
<1>7. run' = [of |-> c, platform |-> install[c].path[4], lines |-> files[install[c].path]]
  BY DEF StartScript
<1>8. RunTyped'
  BY <1>3, <1>7 DEF InstallInv, InstallTyped, RunTyped, ReportsHold, ScriptsTyped
<1>9. ReportsHold'
  BY <1>3, <1>4 DEF InstallInv, ReportsHold
<1>10. RunHolds'
  <2>1. ~ Overwritten(c) => Secures(files[install[c].path], install[c].promised, host)
    BY <1>3, BackedStays DEF InstallInv, ReportsHold, Secures
  <2>2. run'.of = c /\ run'.lines = files[install[c].path]
    BY <1>7
  <2> QED BY <1>3, <1>4, <2>1, <2>2 DEF RunHolds, Secures, Backed, Evidence
<1>11. DeliveredRan' /\ MentorRunDelivers'
  BY <1>3, <1>4 DEF InstallInv, DeliveredRan, MentorRunDelivers
<1> QED BY <1>5, <1>6, <1>8, <1>9, <1>10, <1>11 DEF InstallInv, InstallTyped

\* A line that passes keeps what is on the host, and what it checked is backed.
LEMMA LinePasses ==
  ASSUME NEW line \in Lines, NEW result \in Execute(line)
  PROVE  /\ host \subseteq result.host
         /\ result.ok /\ line.do \in {"ensure", "verify"} => Backed(line.check, result.host)
<1>1. \A package : \A a \in Attempts(package) : host \subseteq a.host
  BY DEF Attempts
<1>5. \A k, there : TRUE \in Answers(k, there) => Backed(k, there)
  BY DEF Answers
<1>2. CASE line.do = "ensure"
  <2>1. result \in Ensure(line.check)
    BY <1>2 DEF Execute
  <2>2. CASE TRUE \in Answers(line.check, host) /\ result = [ok |-> TRUE, host |-> host]
    BY <1>5, <2>2
  <2>3. CASE \E t \in Installed(line.check) :
               result = [ok |-> GoesOn(t.attempt.end) /\ t.yes, host |-> t.attempt.host]
    <3>1. PICK t \in Installed(line.check) :
            result = [ok |-> GoesOn(t.attempt.end) /\ t.yes, host |-> t.attempt.host]
      BY <2>3
    <3>2. /\ t.attempt \in Attempts(line.check.package) /\ t.yes \in BOOLEAN
          /\ t.yes \in Answers(line.check, t.attempt.host)
      BY DEF Installed
    <3>3. result.host = t.attempt.host /\ (result.ok => t.yes)
      BY <3>1
    <3>4. result.ok => Backed(line.check, result.host)
      BY <1>5, <3>2, <3>3
    <3>5. host \subseteq result.host
      BY <1>1, <3>2, <3>3
    <3> QED BY <3>4, <3>5
  <2> QED BY <2>1, <2>2, <2>3 DEF Ensure
<1>3. CASE line.do = "run"
  BY <1>1, <1>3 DEF Execute, Attempts
<1>4. CASE line.do \in {"admin", "update", "preflight", "verify"}
  <2>1. result.host = host
    BY <1>4 DEF Execute
  <2>2. CASE line.do = "verify"
    <3>1. PICK yes \in Answers(line.check, host) : result = [ok |-> yes, host |-> host]
      BY <2>2 DEF Execute
    <3>2. yes \in BOOLEAN
      BY DEF Answers
    <3> QED BY <1>5, <3>1, <3>2
  <2> QED BY <1>4, <2>1, <2>2
<1> QED BY <1>2, <1>3, <1>4 DEF Lines, Dos

LEMMA RunLineKeeps ==
  ASSUME InstallInv, RunLine
  PROVE  InstallInv'
<1>1. run.of \in Installs /\ run.lines \in Seq(Lines) /\ run.lines # << >> /\ run # NoRun
      /\ DOMAIN run = {"of", "platform", "lines"}
  BY DEF RunLine, InstallInv, InstallTyped, RunTyped
<1>2. PICK result \in Execute(Head(run.lines)) :
        /\ host' = result.host
        /\ run' = IF result.ok THEN [run EXCEPT !.lines = Tail(@)] ELSE NoRun
  BY DEF RunLine
<1>3. Head(run.lines) \in Lines /\ Tail(run.lines) \in Seq(Lines)
  BY <1>1
<1>4. host \subseteq host' /\ (result.ok /\ Head(run.lines).do \in {"ensure", "verify"} => Backed(Head(run.lines).check, host'))
  BY <1>2, <1>3, LinePasses
<1>5. UNCHANGED <<install, files, written>> /\ \A d : Overwritten(d)' = Overwritten(d)
  BY DEF RunLine, Overwritten
<1>6. ReportsTyped' /\ ScriptsTyped' /\ ReportsHold' /\ DeliveredRan'
  BY <1>5 DEF InstallInv, InstallTyped, ReportsTyped, ScriptsTyped, ReportsHold, DeliveredRan
<1>7. RunTyped'
  BY <1>1, <1>2, <1>3 DEF RunTyped
<1>8. ASSUME NEW k, Covers(run.lines, k)
      PROVE  \/ Covers(Tail(run.lines), k)
             \/ /\ Head(run.lines).do \in {"ensure", "verify"}
                /\ Head(run.lines).check = k
  <2>1. PICK i \in 1 .. Len(run.lines) : run.lines[i].do \in {"ensure", "verify"} /\ run.lines[i].check = k
    BY <1>8 DEF Covers
  <2>2. CASE i = 1
    BY <1>1, <2>1, <2>2
  <2>3. CASE i # 1
    <3>1. i - 1 \in 1 .. Len(Tail(run.lines)) /\ Tail(run.lines)[i - 1] = run.lines[i]
      BY <1>1, <2>3
    <3> QED BY <2>1, <3>1 DEF Covers
  <2> QED BY <2>2, <2>3
<1>9. RunHolds'
  <2>1. CASE ~ result.ok
    BY <1>2, <2>1 DEF RunHolds
  <2>2. CASE result.ok
    <3>1. run'.of = run.of /\ run'.lines = Tail(run.lines)
      BY <1>1, <1>2, <2>2
    <3>2. install[run.of].pc = "ran"
      BY <1>1 DEF InstallInv, RunHolds
    <3>3. ~ Overwritten(run.of) => Secures(Tail(run.lines), install[run.of].promised, host')
      <4> SUFFICES ASSUME ~ Overwritten(run.of), NEW k \in install[run.of].promised
                   PROVE  Backed(k, host') \/ Covers(Tail(run.lines), k)
        BY DEF Secures
      <4>1. Backed(k, host) \/ Covers(run.lines, k)
        BY <1>1 DEF InstallInv, RunHolds, Secures
      <4> QED BY <1>4, <1>8, <2>2, <4>1, BackedStays
    <3> QED BY <1>5, <3>1, <3>2, <3>3 DEF RunHolds, Secures, Backed, Evidence
  <2> QED BY <2>1, <2>2
<1>10. MentorRunDelivers'
  BY <1>4, <1>5, BackedStays DEF InstallInv, MentorRunDelivers
<1> QED BY <1>6, <1>7, <1>9, <1>10 DEF InstallInv, InstallTyped

LEMMA CompleteKeeps ==
  ASSUME InstallInv, ScriptCompletes
  PROVE  InstallInv'
<1>1. PICK c \in Installs : c = run.of
  BY DEF ScriptCompletes, InstallInv, InstallTyped, RunTyped
<1>0. run # NoRun /\ run.lines = << >> /\ run' = NoRun /\ UNCHANGED <<files, written, host>>
  BY DEF ScriptCompletes
<1> DEFINE r == [install[c] EXCEPT !.delivered = TRUE]
<1>2. \A d \in Installs : install'[d] = IF d = c THEN r ELSE install[d]
  BY <1>0, <1>1 DEF ScriptCompletes, InstallInv, InstallTyped, ReportsTyped
<1>3. /\ DOMAIN r = DOMAIN install[c] /\ r.wanted = install[c].wanted /\ r.promised = install[c].promised
      /\ r.path = install[c].path /\ r.pc = install[c].pc
  BY <1>0, <1>1 DEF InstallInv, InstallTyped, ReportsTyped
<1>4. DOMAIN install' = Installs
  BY <1>0, <1>1 DEF ScriptCompletes, InstallInv, InstallTyped, ReportsTyped
<1> HIDE DEF r
<1>5. \A d \in Installs : /\ Overwritten(d)' = Overwritten(d) /\ install'[d].promised = install[d].promised
                          /\ install'[d].path = install[d].path /\ install'[d].pc = install[d].pc
                          /\ d # c => install'[d].delivered = install[d].delivered
  BY <1>0, <1>1, <1>2, <1>3 DEF Overwritten
<1>6. ReportsTyped'
  BY <1>0, <1>1, <1>2, <1>3, <1>4 DEF InstallInv, InstallTyped, ReportsTyped
<1>7. ScriptsTyped' /\ RunTyped' /\ RunHolds'
  BY <1>0, <1>1 DEF InstallInv, InstallTyped, ScriptsTyped, RunTyped, RunHolds
<1>8. ReportsHold'
  BY <1>0, <1>1, <1>5 DEF InstallInv, ReportsHold
<1>9. DeliveredRan'
  BY <1>0, <1>1, <1>5 DEF InstallInv, DeliveredRan, RunHolds
<1>10. ~ Overwritten(c) => \A k \in install[c].promised : Backed(k, host)
  BY <1>0, <1>1 DEF InstallInv, RunHolds, Secures, Covers
<1>11. MentorRunDelivers'
  <2>1. SUFFICES ASSUME NEW d \in Installs, install'[d].delivered, ~ Overwritten(d)'
                 PROVE  \A k \in install'[d].promised : Backed(k, host)'
    BY DEF MentorRunDelivers
  <2>2. ~ Overwritten(d)
    BY <2>1, <1>5
  <2>3. \A k \in install[d].promised : Backed(k, host)
    BY <1>5, <1>10, <2>1, <2>2 DEF InstallInv, MentorRunDelivers
  <2> QED BY <1>0, <1>5, <2>3 DEF Backed, Evidence
<1> QED BY <1>6, <1>7, <1>8, <1>9, <1>11 DEF InstallInv, InstallTyped

LEMMA InitInstallInv == InstallInit => InstallInv
<1> SUFFICES ASSUME InstallInit PROVE InstallInv
  OBVIOUS
<1>1. ReportsTyped /\ DeliveredRan /\ ReportsHold /\ MentorRunDelivers
  BY WaitingIsAReport DEF InstallInit, ReportsTyped, DeliveredRan, ReportsHold, MentorRunDelivers
<1>2. ScriptsTyped /\ RunTyped /\ RunHolds
  BY DEF InstallInit, ScriptsTyped, RunTyped, RunHolds
<1> QED BY <1>1, <1>2 DEF InstallInv, InstallTyped

LEMMA NextInstallInv == InstallInv /\ [InstallNext]_installVars => InstallInv'
<1> SUFFICES ASSUME InstallInv, [InstallNext]_installVars PROVE InstallInv'
  OBVIOUS
<1>1. CASE \E c \in Installs : \/ CooperativeInstall(c) \/ DirectInstall(c) \/ ToolboxInstall(c)
                              \/ Fallback(c) \/ GenerateHostScript(c) \/ StartScript(c)
  BY <1>1, InstallStep, ScriptStep, StartKeeps
<1>2. CASE RunLine
  BY <1>2, RunLineKeeps
<1>3. CASE ScriptCompletes
  BY <1>3, CompleteKeeps
<1>4. CASE Tick \/ UNCHANGED installVars
  <2>1. UNCHANGED <<install, files, written, host, run>>
    BY <1>4 DEF Tick, installVars
  <2> QED BY <2>1 DEF InstallInv, InstallTyped, ReportsTyped, ScriptsTyped, RunTyped, ReportsHold, RunHolds,
                      DeliveredRan, MentorRunDelivers, Overwritten, Backed, Evidence
<1> QED BY <1>1, <1>2, <1>3, <1>4 DEF InstallNext

\* Whatever the package managers claim and however many calls write scripts in the
\* same second, a completed script that nobody wrote over leaves every check its report
\* promised with something on the host to rest on (build_bash_script, build_powershell_script, persist_script).
THEOREM ScriptsDeliver == InstallSpec => []MentorRunDelivers
<1>1. InstallSpec => []InstallInv
  BY InitInstallInv, NextInstallInv, PTL DEF InstallSpec
<1>2. InstallInv => MentorRunDelivers
  BY DEF InstallInv
<1> QED BY <1>1, <1>2, PTL
=============================================================================
