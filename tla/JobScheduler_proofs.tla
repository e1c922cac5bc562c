------------------------ MODULE JobScheduler_proofs ------------------------
(***************************************************************************)
(* Proofs about JobScheduler: types, and that a slot of a job's schedule is *)
(* served twice only after its record was undone.                          *)
(*                                                                         *)
(* The invariant behind it says where the record of the last scheduled run *)
(* of a job is: in the list the scheduler holds, which is then newer than  *)
(* the file, or in the file.                                               *)
(***************************************************************************)
EXTENDS JobScheduler, TLAPS

\* Nothing was run in the future.
Past ==
  \A j \in Jobs : /\ jobs[j].ref <= now
                  /\ served[j] <= now
                  /\ \A w \in Workers : list[w][j].ref <= now

\* What the scheduler works on is in the list it holds.
Working ==
  /\ \A j \in pending : list[Scheduler][j] # Gone
  /\ step[Scheduler] = "running" => list[Scheduler][target[Scheduler]] # Gone

\* The record of the last scheduled run, unless it was undone.
Recorded ==
  \A j \in Jobs \ rolledBack :
    /\ list[Scheduler][j] = Gone \/ list[Scheduler][j].ref >= served[j]
    /\ \/ jobs[j] = Gone
       \/ jobs[j].ref >= served[j]
       \/ list[Scheduler][j] # Gone /\ list[Scheduler][j].ref > jobs[j].ref

IInv == TypeOK /\ Past /\ Working /\ Recorded /\ RerunOnlyIfUndone

\* Every constant's assumption.
Assumptions ==
  /\ Jobs # {}
  /\ Period \in Nat \ {0}
  /\ {MaxTime, MaxRequests, MaxRestarts} \subseteq Nat
  /\ Scheduler \notin Clients
LEMMA AllAssumed == Assumptions
BY JobsAssumption, PeriodAssumption, BoundsAssumption, WorkersAssumption DEF Assumptions

-----------------------------------------------------------------------------
(* The cron grid (next_run_at, is_job_due).                                *)

LEMMA NextSlotIsLater == ASSUME NEW ref \in Int PROVE NextSlot(ref) \in Int /\ NextSlot(ref) > ref
<1> DEFINE q == ref \div Period
           r == ref % Period
<1>1. Period \in Nat /\ Period > 0 BY PeriodAssumption
<1>2. q \in Int /\ r \in 0 .. Period - 1 /\ ref = Period * q + r BY <1>1
<1>3. (q + 1) * Period = Period * q + Period BY <1>1, <1>2
<1> QED BY <1>1, <1>2, <1>3 DEF NextSlot

-----------------------------------------------------------------------------
(* Initial states, and types.                                              *)

LEMMA InitIInv == Init => IInv
<1> SUFFICES ASSUME Init PROVE IInv
  OBVIOUS
<1>1. AnyJob \in Jobs
  BY AllAssumed DEF Assumptions, AnyJob
<1>2. Nobody \in [Jobs -> JobRecords] /\ \A j \in Jobs : Nobody[j] = Gone
  BY DEF Nobody, JobRecords
<1>3. Scheduler \in Workers
  BY DEF Workers
<1>4. TypeOK
  <2>1. now \in 0 .. MaxTime /\ requests \in 0 .. MaxRequests /\ restarts \in 0 .. MaxRestarts
    BY AllAssumed DEF Assumptions, Init
  <2>2. served \in [Jobs -> -1 .. MaxTime]
    BY AllAssumed DEF Assumptions, Init
  <2>3. busy \in BOOLEAN
    BY DEF Init
  <2> QED
    BY <1>1, <1>2, <2>1, <2>2, <2>3 DEF Init, TypeOK
<1> QED
  BY <1>2, <1>3, <1>4 DEF Init, IInv, Past, Working, Recorded, RerunOnlyIfUndone, Gone

\* What the three ways to change a record make of it.
LEMMA RecordTypes ==
  ASSUME TypeOK, NEW w \in Workers, NEW j \in Jobs
  PROVE  /\ [list[w] EXCEPT ![j] = Gone] \in [Jobs -> JobRecords]
         /\ [list[w] EXCEPT ![j] = [enabled |-> TRUE, ref |-> now]] \in [Jobs -> JobRecords]
         /\ [list[w] EXCEPT ![j].ref = now] \in [Jobs -> JobRecords]
         /\ list[w][j] # Gone =>
              [list[w] EXCEPT ![j].enabled = ~list[w][j].enabled] \in [Jobs -> JobRecords]
<1>1. list[w] \in [Jobs -> JobRecords] /\ now \in 0 .. MaxTime
  BY DEF TypeOK
<1>2. list[w][j] = Gone \/ list[w][j] \in [enabled : BOOLEAN, ref : 0 .. MaxTime]
  BY <1>1 DEF JobRecords
<1>3. Gone \in JobRecords /\ [enabled |-> TRUE, ref |-> now] \in JobRecords
  BY <1>1 DEF JobRecords
<1>4. [list[w][j] EXCEPT !.ref = now] \in JobRecords
  <2>1. list[w][j] \in [enabled : BOOLEAN, ref : Int]
    <3>1. Gone \in [enabled : BOOLEAN, ref : Int]
      BY DEF Gone
    <3>2. [enabled : BOOLEAN, ref : 0 .. MaxTime] \subseteq [enabled : BOOLEAN, ref : Int]
      OBVIOUS
    <3> QED
      BY <1>2, <3>1, <3>2
  <2>2. [list[w][j] EXCEPT !.ref = now] \in [enabled : BOOLEAN, ref : 0 .. MaxTime]
    BY <1>1, <2>1
  <2> QED
    BY <2>2 DEF JobRecords
<1>5. list[w][j] # Gone => [list[w][j] EXCEPT !.enabled = ~list[w][j].enabled] \in JobRecords
  BY <1>1, <1>2 DEF JobRecords, Gone
<1> QED
  BY <1>1, <1>3, <1>4, <1>5

LEMMA TypeStep == TypeOK /\ [Next]_vars => TypeOK'
<1> SUFFICES ASSUME TypeOK, [Next]_vars PROVE TypeOK'
  OBVIOUS
<1>0. /\ AnyJob \in Jobs /\ Scheduler \in Workers /\ Clients \subseteq Workers
      /\ Scheduler \notin Clients
      /\ {MaxTime, MaxRequests, MaxRestarts} \subseteq Nat
      /\ Nobody \in [Jobs -> JobRecords]
  BY AllAssumed DEF Assumptions, AnyJob, Workers, Nobody, JobRecords
<1> USE DEF TypeOK, workVars, historyVars, countVars
<1>1. ASSUME NEW c \in Clients, ReadJobs(c) PROVE TypeOK'
  BY <1>0, <1>1 DEF ReadJobs
<1>2. ASSUME NEW c \in Clients, NEW j \in Jobs, CreateJob(c, j) PROVE TypeOK'
  <2>1. jobs' \in [Jobs -> JobRecords]
    BY <1>0, <1>2, RecordTypes DEF CreateJob
  <2> QED
    BY <1>0, <1>2, <2>1 DEF CreateJob, Finish, UndoneBy
<1>3. ASSUME NEW c \in Clients, NEW j \in Jobs, DeleteJob(c, j) PROVE TypeOK'
  <2>1. jobs' \in [Jobs -> JobRecords]
    BY <1>0, <1>3, RecordTypes DEF DeleteJob, Save
  <2> QED
    BY <1>0, <1>3, <2>1 DEF DeleteJob, Save, Finish, UndoneBy
<1>4. ASSUME NEW c \in Clients, NEW j \in Jobs, SetEnabled(c, j) PROVE TypeOK'
  <2>1. jobs' \in [Jobs -> JobRecords]
    BY <1>0, <1>4, RecordTypes DEF SetEnabled, Save
  <2> QED
    BY <1>0, <1>4, <2>1 DEF SetEnabled, Save, Finish, UndoneBy
<1>5. ASSUME NEW c \in Clients, GiveUp(c) PROVE TypeOK'
  BY <1>0, <1>5 DEF GiveUp, Finish
<1>6. ASSUME NEW c \in Clients, NEW j \in Jobs, RunNow(c, j) PROVE TypeOK'
  BY <1>0, <1>6 DEF RunNow
<1>7. ASSUME NEW c \in Clients, EndRunNow(c) PROVE TypeOK'
  <2>1. jobs' \in [Jobs -> JobRecords]
    BY <1>0, <1>7, RecordTypes DEF EndRunNow, Save, Ran
  <2>2. busy' \in BOOLEAN
    BY <1>7 DEF EndRunNow, Act
  <2> QED
    BY <1>0, <1>7, <2>1, <2>2 DEF EndRunNow, Save, Finish, UndoneBy
<1>8. ASSUME NEW c \in Clients, RunNowUnmarked(c) PROVE TypeOK'
  <2>1. busy' \in BOOLEAN
    BY <1>8 DEF RunNowUnmarked, Act
  <2> QED
    BY <1>0, <1>8, <2>1 DEF RunNowUnmarked, Finish
<1>9. CASE SchedulerWakes
  BY <1>0, <1>9 DEF SchedulerWakes
<1>10. CASE BeginJob
  BY <1>0, <1>10 DEF BeginJob
<1>11. CASE EndJob
  <2>1. busy' \in BOOLEAN
    BY <1>11 DEF EndJob, Act
  <2>2. Ran(Scheduler) \in [Jobs -> JobRecords]
    BY <1>0, RecordTypes DEF Ran
  <2>3. served' \in [Jobs -> -1 .. MaxTime]
    <3>1. now \in -1 .. MaxTime
      BY <1>0
    <3> QED
      BY <1>11, <3>1 DEF EndJob
  <2>4. list' \in [Workers -> [Jobs -> JobRecords]]
    BY <1>11, <2>2 DEF EndJob
  <2>5. step' \in [Workers -> {"idle", "holding", "running"}]
    BY <1>11 DEF EndJob
  <2>6. \A w \in Workers : step'[w] = "idle" => list'[w] = Nobody
    BY <1>0, <1>11, <2>2 DEF EndJob
  <2> QED
    BY <1>11, <2>1, <2>3, <2>4, <2>5, <2>6 DEF EndJob
<1>12. CASE JobUnreadable
  BY <1>0, <1>12 DEF JobUnreadable
<1>13. CASE SavePass
  BY <1>0, <1>13 DEF SavePass, Save, Finish, UndoneBy
<1>14. CASE AgentRunChanges
  BY <1>14 DEF AgentRunChanges
<1>15. CASE TimePasses
  <2>1. now' \in 0 .. MaxTime
    BY <1>0, <1>15 DEF TimePasses
  <2> QED
    BY <1>15, <2>1 DEF TimePasses
<1>16. CASE Restart
  <2>1. restarts' \in 0 .. MaxRestarts
    BY <1>0, <1>16 DEF Restart
  <2>2. busy' \in BOOLEAN
    BY <1>16 DEF Restart
  <2>3. /\ list' \in [Workers -> [Jobs -> JobRecords]]
        /\ target' \in [Workers -> Jobs]
        /\ step' \in [Workers -> {"idle", "holding", "running"}]
        /\ \A w \in Workers : list'[w] = Nobody
    BY <1>0, <1>16 DEF Restart
  <2>4. rolledBack' \subseteq Jobs /\ pending' \subseteq Jobs
    BY <1>16 DEF Restart
  <2> QED
    BY <1>16, <2>1, <2>2, <2>3, <2>4 DEF Restart
<1>17. CASE UNCHANGED vars
  BY <1>17 DEF vars
<1> QED
  BY <1>1, <1>2, <1>3, <1>4, <1>5, <1>6, <1>7, <1>8, <1>9, <1>10, <1>11, <1>12, <1>13,
     <1>14, <1>15, <1>16, <1>17 DEF Next, Edit, RunNowStep, SchedulerStep

-----------------------------------------------------------------------------
(* The record of the last scheduled run.                                   *)

\* The facts about constants and types the steps below rest on.
LEMMA Basics ==
  ASSUME TypeOK
  PROVE  /\ now \in Nat
         /\ Scheduler \in Workers /\ Clients \subseteq Workers /\ Scheduler \notin Clients
         /\ \A j \in Jobs : Nobody[j] = Gone /\ jobs[j].ref \in Int /\ served[j] \in Int
         /\ \A w \in Workers, j \in Jobs : list[w][j].ref \in Int
         /\ Gone.ref = -1
         /\ \A r \in JobRecords : r # Gone => r.ref >= 0
<1>1. \A r \in JobRecords : r.ref \in Int /\ (r # Gone => r.ref >= 0)
  <2> SUFFICES ASSUME NEW r \in JobRecords PROVE r.ref \in Int /\ (r # Gone => r.ref >= 0)
    OBVIOUS
  <2>1. CASE r = Gone
    BY <2>1 DEF Gone
  <2>2. CASE r \in [enabled : BOOLEAN, ref : 0 .. MaxTime]
    BY <2>2, AllAssumed DEF Assumptions
  <2> QED
    BY <2>1, <2>2 DEF JobRecords
<1>2. now \in Nat
  BY AllAssumed DEF Assumptions, TypeOK
<1> QED
  BY <1>1, <1>2, AllAssumed DEF Assumptions, TypeOK, Workers, Nobody, Gone

LEMMA PastStep == TypeOK /\ Past /\ [Next]_vars => Past'
<1> SUFFICES ASSUME TypeOK, Past, [Next]_vars PROVE Past'
  OBVIOUS
<1>0. /\ now \in Nat /\ Gone.ref = -1
      /\ Scheduler \in Workers /\ Clients \subseteq Workers /\ Scheduler \notin Clients
      /\ \A j \in Jobs : Nobody[j] = Gone /\ jobs[j].ref \in Int /\ served[j] \in Int
  BY Basics
<1> DEFINE Bounded(l) == \A j \in Jobs : l[j].ref <= now
<1>l. ASSUME NEW w \in Workers
      PROVE  /\ Bounded(list[w]) /\ Bounded(jobs) /\ Bounded(Nobody)
             /\ \A j \in Jobs : /\ Bounded([list[w] EXCEPT ![j] = Gone])
                                /\ Bounded([list[w] EXCEPT ![j] = [enabled |-> TRUE, ref |-> now]])
                                /\ Bounded([list[w] EXCEPT ![j].ref = now])
                                /\ Bounded([list[w] EXCEPT ![j].enabled = ~list[w][j].enabled])
  <2>1. list[w] \in [Jobs -> JobRecords]
    BY DEF TypeOK
  <2>2. Bounded(list[w]) /\ Bounded(jobs) /\ Bounded(Nobody)
    BY <1>0 DEF Past
  <2>3. \A j \in Jobs : list[w][j] = Gone \/ list[w][j] \in [enabled : BOOLEAN, ref : 0 .. MaxTime]
    BY <2>1 DEF JobRecords
  <2>4. \A j \in Jobs : [list[w][j] EXCEPT !.ref = now].ref = now
    BY <2>3 DEF Gone
  <2>5. \A j \in Jobs : [list[w][j] EXCEPT !.enabled = ~list[w][j].enabled].ref = list[w][j].ref
    BY <2>3 DEF Gone
  <2> QED
    BY <1>0, <2>1, <2>2, <2>4, <2>5
<1> USE DEF workVars, historyVars, countVars
<1>f. ASSUME NEW w \in Workers, Bounded(jobs'), now' = now, served' = served, Finish(w) PROVE Past'
  BY <1>0, <1>f DEF Past, Finish, TypeOK
<1>1. ASSUME NEW c \in Clients, ReadJobs(c) PROVE Past'
  BY <1>0, <1>1 DEF ReadJobs, Past, TypeOK
<1>2. ASSUME NEW c \in Clients, NEW j \in Jobs, CreateJob(c, j) PROVE Past'
  <2>1. Bounded(jobs')
    BY <1>0, <1>2, <1>l DEF CreateJob
  <2> QED
    BY <1>0, <1>2, <2>1 DEF CreateJob, Finish, Past, TypeOK
<1>3. ASSUME NEW c \in Clients, NEW j \in Jobs, DeleteJob(c, j) PROVE Past'
  <2>1. Bounded(jobs')
    BY <1>0, <1>3, <1>l DEF DeleteJob, Save
  <2> QED
    BY <1>0, <1>3, <2>1, <1>f DEF DeleteJob
<1>4. ASSUME NEW c \in Clients, NEW j \in Jobs, SetEnabled(c, j) PROVE Past'
  <2>1. Bounded(jobs')
    BY <1>0, <1>4, <1>l DEF SetEnabled, Save
  <2> QED
    BY <1>0, <1>4, <2>1, <1>f DEF SetEnabled
<1>5. ASSUME NEW c \in Clients, GiveUp(c) PROVE Past'
  <2>1. Bounded(jobs')
    BY <1>0, <1>5, <1>l DEF GiveUp
  <2> QED
    BY <1>0, <1>5, <2>1, <1>f DEF GiveUp
<1>6. ASSUME NEW c \in Clients, NEW j \in Jobs, RunNow(c, j) PROVE Past'
  BY <1>6 DEF RunNow, Past
<1>7. ASSUME NEW c \in Clients, EndRunNow(c) PROVE Past'
  <2>1. Bounded(jobs')
    BY <1>0, <1>7, <1>l DEF EndRunNow, Save, Ran, TypeOK
  <2> QED
    BY <1>0, <1>7, <2>1, <1>f DEF EndRunNow
<1>8. ASSUME NEW c \in Clients, RunNowUnmarked(c) PROVE Past'
  <2>1. Bounded(jobs')
    BY <1>0, <1>8, <1>l DEF RunNowUnmarked
  <2> QED
    BY <1>0, <1>8, <2>1, <1>f DEF RunNowUnmarked
<1>9. CASE SchedulerWakes
  BY <1>0, <1>9 DEF SchedulerWakes, Past, TypeOK
<1>10. CASE BeginJob
  BY <1>10 DEF BeginJob, Past
<1>11. CASE EndJob
  <2>1. Bounded(Ran(Scheduler))
    BY <1>0, <1>l DEF Ran, TypeOK
  <2>2. /\ now' = now /\ jobs' = jobs
        /\ list' = [list EXCEPT ![Scheduler] = Ran(Scheduler)]
        /\ served' = [served EXCEPT ![target[Scheduler]] = now]
    BY <1>11 DEF EndJob
  <2>3. \A j \in Jobs : served'[j] <= now
    BY <1>0, <2>2 DEF Past, TypeOK
  <2>4. \A w \in Workers : Bounded(list'[w])
    BY <1>l, <2>1, <2>2 DEF TypeOK
  <2> QED
    BY <2>2, <2>3, <2>4 DEF Past
<1>12. CASE JobUnreadable
  BY <1>12 DEF JobUnreadable, Past
<1>13. CASE SavePass
  <2>1. Bounded(jobs')
    BY <1>0, <1>13, <1>l DEF SavePass, Save
  <2> QED
    BY <1>0, <1>13, <2>1, <1>f DEF SavePass
<1>14. CASE AgentRunChanges
  BY <1>14 DEF AgentRunChanges, Past
<1>15. CASE TimePasses
  <2>1. now' = now + 1 /\ jobs' = jobs /\ list' = list /\ served' = served
    BY <1>15 DEF TimePasses
  <2> QED
    BY <1>0, <2>1, Basics DEF Past
<1>16. CASE Restart
  BY <1>0, <1>16 DEF Restart, Past
<1>17. CASE UNCHANGED vars
  BY <1>17 DEF vars, Past
<1> QED
  BY <1>1, <1>2, <1>3, <1>4, <1>5, <1>6, <1>7, <1>8, <1>9, <1>10, <1>11, <1>12, <1>13,
     <1>14, <1>15, <1>16, <1>17 DEF Next, Edit, RunNowStep, SchedulerStep

LEMMA WorkingStep == TypeOK /\ Working /\ [Next]_vars => Working'
<1> SUFFICES ASSUME TypeOK, Working, [Next]_vars PROVE Working'
  OBVIOUS
<1>0. /\ Scheduler \in Workers /\ Clients \subseteq Workers /\ Scheduler \notin Clients
      /\ \A j \in Jobs : Nobody[j] = Gone
  BY Basics
<1> USE DEF workVars, historyVars, countVars
\* A client touches neither the scheduler's list nor its place in it.
<1>c. ASSUME NEW c \in Clients, Edit(c) \/ RunNowStep(c)
      PROVE  /\ pending' = pending
             /\ list'[Scheduler] = list[Scheduler]
             /\ step'[Scheduler] = step[Scheduler]
             /\ target'[Scheduler] = target[Scheduler]
  BY <1>0, <1>c DEF TypeOK, Edit, RunNowStep, ReadJobs, GiveUp, CreateJob, DeleteJob, SetEnabled,
     RunNow, EndRunNow, RunNowUnmarked, Finish
<1>1. ASSUME NEW c \in Clients, Edit(c) \/ RunNowStep(c) PROVE Working'
  BY <1>c, <1>1 DEF Working
<1>9. CASE SchedulerWakes
  BY <1>0, <1>9 DEF SchedulerWakes, Working, TypeOK, Due
<1>10. CASE BeginJob
  BY <1>0, <1>10 DEF BeginJob, Working, TypeOK
<1>11. CASE EndJob
  <2>1. PICK t \in Jobs : t = target[Scheduler]
    BY <1>0 DEF TypeOK
  <2>2. list'[Scheduler] = [list[Scheduler] EXCEPT ![t].ref = now]
    BY <1>0, <1>11, <2>1 DEF EndJob, Ran, TypeOK
  <2>3. list'[Scheduler][t].ref = now
    <3>1. list[Scheduler] \in [Jobs -> JobRecords]
      BY <1>0 DEF TypeOK
    <3>2. list[Scheduler][t] = Gone \/ list[Scheduler][t] \in [enabled : BOOLEAN, ref : 0 .. MaxTime]
      BY <3>1, <2>1 DEF JobRecords
    <3>3. [list[Scheduler][t] EXCEPT !.ref = now].ref = now
      BY <3>2 DEF Gone
    <3> QED
      BY <2>2, <3>1, <3>3
  <2>4. list'[Scheduler][t] # Gone
    BY <2>3, Basics
  <2>5. \A j \in pending : list'[Scheduler][j] # Gone
    BY <1>0, <2>2, <2>4 DEF Working, TypeOK
  <2> QED
    BY <1>0, <1>11, <2>5 DEF EndJob, TypeOK, Working
<1>12. CASE JobUnreadable
  BY <1>0, <1>12 DEF JobUnreadable, Working, TypeOK
<1>13. CASE SavePass
  BY <1>0, <1>13 DEF SavePass, Finish, Working, TypeOK
<1>14. CASE AgentRunChanges
  BY <1>14 DEF AgentRunChanges, Working
<1>15. CASE TimePasses
  BY <1>15 DEF TimePasses, Working
<1>16. CASE Restart
  BY <1>0, <1>16 DEF Restart, Working
<1>17. CASE UNCHANGED vars
  BY <1>17 DEF vars, Working
<1> QED
  BY <1>1, <1>9, <1>10, <1>11, <1>12, <1>13, <1>14, <1>15, <1>16, <1>17 DEF Next, SchedulerStep

\* Where a client's save leaves a job's record, if it is not counted as undone:
\* absent, or no older than it was in the file.
LEMMA SaveUndoes ==
  ASSUME NEW new, Save(new), NEW j \in Jobs \ rolledBack',
         jobs[j].ref \in Int, new[j].ref \in Int
  PROVE  /\ j \notin rolledBack
         /\ jobs'[j] = Gone \/ (jobs[j] # Gone /\ jobs'[j].ref >= jobs[j].ref)
  BY DEF Save, UndoneBy

LEMMA RecordedStep == TypeOK /\ Past /\ Working /\ Recorded /\ [Next]_vars => Recorded'
<1> SUFFICES ASSUME TypeOK, Past, Working, Recorded, [Next]_vars PROVE Recorded'
  OBVIOUS
<1>0. /\ Scheduler \in Workers /\ Clients \subseteq Workers /\ Scheduler \notin Clients
      /\ \A j \in Jobs : Nobody[j] = Gone /\ jobs[j].ref \in Int /\ served[j] \in Int
      /\ \A w \in Workers, j \in Jobs : list[w][j].ref \in Int
      /\ now \in Nat /\ Gone.ref = -1
  BY Basics
<1>t. TypeOK'
  BY TypeStep
<1>u. \A j \in Jobs : jobs'[j].ref \in Int
  BY <1>t DEF TypeOK, JobRecords, Gone
<1> USE DEF workVars, historyVars, countVars
\* The file may be replaced by a list in which no record is older.
<1>s. ASSUME NEW c \in Clients, NEW new, Save(new), Finish(c), served' = served
      PROVE  Recorded'
  <2>1. list'[Scheduler] = list[Scheduler]
    BY <1>0, <1>s DEF Finish, TypeOK
  <2>2. jobs' = new
    BY <1>s DEF Save
  <2>3. \A j \in Jobs \ rolledBack' :
          /\ j \notin rolledBack
          /\ jobs'[j] = Gone \/ (jobs[j] # Gone /\ jobs'[j].ref >= jobs[j].ref)
    BY <1>0, <1>u, <1>s, <2>2, SaveUndoes
  <2> QED
    BY <1>0, <1>u, <1>s, <2>1, <2>3 DEF Recorded
<1>1. ASSUME NEW c \in Clients, ReadJobs(c) PROVE Recorded'
  BY <1>0, <1>1 DEF ReadJobs, Recorded, TypeOK
<1>2. ASSUME NEW c \in Clients, NEW j \in Jobs, CreateJob(c, j) PROVE Recorded'
  <2>1. /\ list'[Scheduler] = list[Scheduler] /\ list[Scheduler][j] = Gone
        /\ served' = [served EXCEPT ![j] = -1]
        /\ jobs' = [list[c] EXCEPT ![j] = [enabled |-> TRUE, ref |-> now]]
        /\ rolledBack' = (rolledBack \cup UndoneBy(jobs')) \ {j}
    BY <1>0, <1>2 DEF CreateJob, Finish, TypeOK
  <2>2. served'[j] = -1 /\ jobs'[j].ref >= -1
    BY <1>0, <2>1 DEF TypeOK
  <2>3. ASSUME NEW k \in Jobs \ rolledBack', k # j
        PROVE  /\ k \notin rolledBack /\ served'[k] = served[k]
               /\ jobs'[k] = Gone \/ (jobs[k] # Gone /\ jobs'[k].ref >= jobs[k].ref)
    BY <1>0, <1>u, <2>1, <2>3 DEF UndoneBy, TypeOK
  <2>4. ASSUME NEW k \in Jobs \ rolledBack', k # j
        PROVE  /\ list'[Scheduler][k] = Gone \/ list'[Scheduler][k].ref >= served'[k]
               /\ \/ jobs'[k] = Gone
                  \/ jobs'[k].ref >= served'[k]
                  \/ list'[Scheduler][k] # Gone /\ list'[Scheduler][k].ref > jobs'[k].ref
    <3>1. /\ k \notin rolledBack /\ served'[k] = served[k]
          /\ jobs'[k] = Gone \/ (jobs[k] # Gone /\ jobs'[k].ref >= jobs[k].ref)
      BY <2>3, <2>4
    <3>2. /\ list[Scheduler][k] = Gone \/ list[Scheduler][k].ref >= served[k]
          /\ \/ jobs[k] = Gone
             \/ jobs[k].ref >= served[k]
             \/ list[Scheduler][k] # Gone /\ list[Scheduler][k].ref > jobs[k].ref
      BY <2>4, <3>1 DEF Recorded
    <3>3. /\ jobs'[k].ref \in Int /\ jobs[k].ref \in Int
          /\ list[Scheduler][k].ref \in Int /\ served[k] \in Int
      BY <1>0, <1>u, <2>4
    <3> QED
      BY <2>1, <3>1, <3>2, <3>3
  <2>5. list'[Scheduler][j] = Gone /\ jobs'[j].ref >= served'[j]
    BY <2>1, <2>2
  <2> QED
    BY <2>4, <2>5 DEF Recorded
<1>3. ASSUME NEW c \in Clients, NEW j \in Jobs, DeleteJob(c, j) PROVE Recorded'
  BY <1>3, <1>s DEF DeleteJob
<1>4. ASSUME NEW c \in Clients, NEW j \in Jobs, SetEnabled(c, j) PROVE Recorded'
  BY <1>4, <1>s DEF SetEnabled
<1>5. ASSUME NEW c \in Clients, GiveUp(c) PROVE Recorded'
  BY <1>0, <1>5 DEF GiveUp, Finish, Recorded, TypeOK
<1>6. ASSUME NEW c \in Clients, NEW j \in Jobs, RunNow(c, j) PROVE Recorded'
  BY <1>6 DEF RunNow, Recorded
<1>7. ASSUME NEW c \in Clients, EndRunNow(c) PROVE Recorded'
  BY <1>7, <1>s DEF EndRunNow
<1>8. ASSUME NEW c \in Clients, RunNowUnmarked(c) PROVE Recorded'
  BY <1>0, <1>8 DEF RunNowUnmarked, Finish, Recorded, TypeOK
<1>9. CASE SchedulerWakes
  <2>1. /\ list'[Scheduler] = jobs /\ jobs' = jobs /\ served' = served /\ rolledBack' = rolledBack
        /\ list[Scheduler] = Nobody
    BY <1>0, <1>9 DEF SchedulerWakes, TypeOK
  <2> QED
    BY <1>0, <2>1 DEF Recorded
<1>10. CASE BeginJob
  BY <1>10 DEF BeginJob, Recorded
<1>11. CASE EndJob
  <2>1. PICK t \in Jobs : t = target[Scheduler]
    BY <1>0 DEF TypeOK
  <2>2. /\ list'[Scheduler] = [list[Scheduler] EXCEPT ![t].ref = now]
        /\ served' = [served EXCEPT ![t] = now]
        /\ jobs' = jobs /\ rolledBack' = rolledBack
    BY <1>0, <1>11, <2>1 DEF EndJob, Ran, TypeOK
  <2>3. list'[Scheduler][t].ref = now
    <3>1. list[Scheduler] \in [Jobs -> JobRecords]
      BY <1>0 DEF TypeOK
    <3>2. list[Scheduler][t] = Gone \/ list[Scheduler][t] \in [enabled : BOOLEAN, ref : 0 .. MaxTime]
      BY <3>1, <2>1 DEF JobRecords
    <3>3. [list[Scheduler][t] EXCEPT !.ref = now].ref = now
      BY <3>2 DEF Gone
    <3> QED
      BY <2>2, <3>1, <3>3
  <2>4. \A j \in Jobs \ {t} : list'[Scheduler][j] = list[Scheduler][j] /\ served'[j] = served[j]
    BY <1>0, <2>2 DEF TypeOK
  <2>5. served'[t] = now /\ jobs[t].ref <= now
    BY <2>2 DEF TypeOK, Past
  <2>6. list'[Scheduler][t] # Gone
    BY <1>0, <2>3
  <2> QED
    BY <1>0, <2>2, <2>3, <2>4, <2>5, <2>6 DEF Recorded
<1>12. CASE JobUnreadable
  BY <1>12 DEF JobUnreadable, Recorded
<1>13. CASE SavePass
  <2>1. /\ jobs' = list[Scheduler] /\ served' = served
        /\ rolledBack \subseteq rolledBack' /\ list'[Scheduler] = Nobody
    BY <1>0, <1>13 DEF SavePass, Save, Finish, TypeOK
  <2> QED
    BY <1>0, <2>1 DEF Recorded
<1>14. CASE AgentRunChanges
  BY <1>14 DEF AgentRunChanges, Recorded
<1>15. CASE TimePasses
  BY <1>15 DEF TimePasses, Recorded
<1>16. CASE Restart
  <2>1. /\ jobs' = jobs /\ served' = served /\ list'[Scheduler] = Nobody
        /\ rolledBack' = rolledBack \cup {j \in Jobs : list[Scheduler][j].ref > jobs[j].ref}
    BY <1>0, <1>16 DEF Restart
  <2> QED
    BY <1>0, <2>1 DEF Recorded
<1>17. CASE UNCHANGED vars
  BY <1>17 DEF vars, Recorded
<1> QED
  BY <1>1, <1>2, <1>3, <1>4, <1>5, <1>6, <1>7, <1>8, <1>9, <1>10, <1>11, <1>12, <1>13,
     <1>14, <1>15, <1>16, <1>17 DEF Next, Edit, RunNowStep, SchedulerStep

\* Only the start of a job can be a second run, and a record that knows of the
\* last run is not due again for the slot that run served.
LEMMA RerunStep ==
  TypeOK /\ Working /\ Recorded /\ RerunOnlyIfUndone /\ [Next]_vars => RerunOnlyIfUndone'
<1> SUFFICES ASSUME TypeOK, Working, Recorded, RerunOnlyIfUndone, [Next]_vars
             PROVE  RerunOnlyIfUndone'
  OBVIOUS
<1> USE DEF workVars, historyVars, countVars
<1>1. CASE BeginJob
  <2>1. PICK j \in pending : reran' = IF NextSlot(list[Scheduler][j].ref) <= served[j]
                                      THEN reran \cup {j} ELSE reran
    BY <1>1 DEF BeginJob
  <2>2. j \in Jobs /\ list[Scheduler][j] # Gone
    BY DEF TypeOK, Working
  <2>3. ASSUME j \notin rolledBack PROVE ~(NextSlot(list[Scheduler][j].ref) <= served[j])
    <3>1. list[Scheduler][j].ref >= served[j]
      BY <2>2, <2>3 DEF Recorded
    <3>2. list[Scheduler][j].ref \in Int /\ served[j] \in Int
      BY <2>2, Basics
    <3> QED
      BY <3>1, <3>2, NextSlotIsLater
  <2> QED
    BY <1>1, <2>1, <2>3 DEF BeginJob, RerunOnlyIfUndone
<1>2. ASSUME NEW c \in Clients, NEW j \in Jobs, CreateJob(c, j) PROVE RerunOnlyIfUndone'
  BY <1>2 DEF CreateJob, RerunOnlyIfUndone
<1>3. ASSUME ~BeginJob, \A c \in Clients, j \in Jobs : ~CreateJob(c, j)
      PROVE  reran' = reran /\ rolledBack \subseteq rolledBack'
  BY <1>3 DEF Next, vars, Edit, RunNowStep, SchedulerStep, ReadJobs, DeleteJob, SetEnabled, GiveUp,
     RunNow, EndRunNow, RunNowUnmarked, SchedulerWakes, EndJob, JobUnreadable, SavePass, Save,
     AgentRunChanges, TimePasses, Restart
<1> QED
  BY <1>1, <1>2, <1>3 DEF RerunOnlyIfUndone

-----------------------------------------------------------------------------
\* The parts above hold together in every reachable state.
THEOREM Invariance == Spec => []IInv
<1>1. IInv /\ [Next]_vars => IInv'
  BY TypeStep, PastStep, WorkingStep, RecordedStep, RerunStep DEF IInv
<1> QED
  BY InitIInv, <1>1, PTL DEF Spec

\* The variables keep their types for every number of jobs and clients, every
\* period, and every mode and policy.
THEOREM TypeCorrect == Spec => []TypeOK
<1>1. IInv => TypeOK
  BY DEF IInv
<1> QED
  BY <1>1, Invariance, PTL

\* A slot of a job's schedule is served twice only after somebody's save or a
\* crash undid the record that it was served.
THEOREM SlotsServedOnce == Spec => []RerunOnlyIfUndone
<1>1. IInv => RerunOnlyIfUndone
  BY DEF IInv
<1> QED
  BY <1>1, Invariance, PTL
=============================================================================
