------------------------ MODULE IssueExecutionProofs ------------------------
(***************************************************************************)
(* The issue execution lock is exclusive and never lost, for any number of *)
(* agents, issues, runs, parked wakeups, restarts.  One inductive          *)
(* invariant, LockInv, carries the whole argument; each part of it has a   *)
(* lemma with one step per action.                                         *)
(***************************************************************************)
EXTENDS IssueExecution, TLAPS

USE BoundsAssumption, NullAssumption, ListableAssumption

\* The initial state has no rows, no lock and nothing pending.
LEMMA InitLockInv == Init => LockInv
  BY DEF Init, LockInv, TypeOK, RowsInUse, SettledAreTerminal, TransactionReadsHold,
         IssueRunsHaveIssue, IssueRunHoldsLock, DeferredHasHolder, OneDeferralPerAgent,
         NoStranding, TransactionIsServed, Runs, NoRun, NoTx, NoRunRow, Run, RunStatus,
         RunKind, Tx, TxKind, Active

\* Writing a status leaves a table of run rows.
LEMMA SetRunStatus ==
  ASSUME NEW table \in [Runs -> Run], NEW r \in Runs, NEW status \in RunStatus
  PROVE  [table EXCEPT ![r].status = status] \in [Runs -> Run]
  BY DEF Run

\* Every action keeps the rows and the bookkeeping well-typed.
LEMMA TypeStep == TypeOK /\ TransactionReadsHold /\ [Next]_vars => TypeOK'
<1> SUFFICES ASSUME TypeOK, TransactionReadsHold, [Next]_vars PROVE TypeOK'
  OBVIOUS
<1> USE DEF TypeOK, Runs, NoRun, lockVars, processVars, boundVars, historyVars
<1>1. ASSUME NEW i \in Issues, NEW a \in Agents, NEW comment \in BOOLEAN,
             EnqueueBegin(i, a, comment)
      PROVE  TypeOK'
  <2>1. PICK h \in Runs \cup {NoRun} :
          tx' = [tx EXCEPT ![i] = [kind |-> Outcome(i, h, a, comment),
                                   agent |-> a, holder |-> h]]
    BY <1>1 DEF EnqueueBegin
  <2>2. Outcome(i, h, a, comment) \in TxKind
    BY DEF Outcome, TxKind
  <2>3. tx' \in [Issues -> Tx]
    BY <2>1, <2>2 DEF Tx
  <2> QED
    BY <1>1, <2>3 DEF EnqueueBegin
<1>2. ASSUME NEW i \in Issues, EnqueueCommit(i)
      PROVE  TypeOK'
  <2>1. tx' \in [Issues -> Tx]
    BY <1>2 DEF EnqueueCommit, NoTx, Tx, TxKind
  <2>2. CASE CommitQueued(i)
    <3>1. NewRun(tx[i].agent, i, "issue") \in Run
      BY DEF NewRun, Run, RunStatus, RunKind, Tx
    <3>2. nameKey' \in [Issues -> Agents \cup {NoAgent}]
      BY <2>2 DEF CommitQueued, Tx
    <3> QED
      BY <1>2, <2>1, <2>2, <3>1, <3>2 DEF EnqueueCommit, CommitQueued
  <2>3. CASE CommitCoalesced(i)
    <3>1. /\ executionRunId' \in [Issues -> Runs \cup {NoRun}]
          /\ nameKey' \in [Issues -> Agents \cup {NoAgent}]
          /\ orphaned' \in SUBSET Issues
      BY <2>3 DEF CommitCoalesced, GiveLock, LockPassesTo, Tx, Run,
         TransactionReadsHold
    <3> QED
      BY <1>2, <2>1, <2>3, <3>1 DEF EnqueueCommit, CommitCoalesced
  <2>4. CASE CommitDeferred(i)
    <3>1. /\ executionRunId' \in [Issues -> Runs \cup {NoRun}]
          /\ nameKey' \in [Issues -> Agents \cup {NoAgent}]
          /\ orphaned' \in SUBSET Issues
      BY <2>4 DEF CommitDeferred, GiveLock, LockPassesTo, Tx, Run,
         TransactionReadsHold
    <3>2. deferred' \in SUBSET Deferral /\ nDeferrals' \in 0 .. MaxDeferrals
      <4>1. tx[i].agent \in Agents
        BY <2>4 DEF CommitDeferred, TransactionReadsHold
      <4>2. CASE UNCHANGED <<deferred, nDeferrals>>
        BY <4>2
      <4>3. CASE /\ nDeferrals + 1 =< MaxDeferrals
                 /\ deferred' = deferred \cup {[id |-> nDeferrals + 1,
                                               agent |-> tx[i].agent, issue |-> i]}
                 /\ nDeferrals' = nDeferrals + 1
        BY <4>1, <4>3 DEF Deferral
      <4> QED
        BY <2>4, <4>2, <4>3 DEF CommitDeferred
    <3> QED
      BY <1>2, <2>1, <2>4, <3>1, <3>2 DEF EnqueueCommit, CommitDeferred
  <2> QED
    BY <1>2, <2>2, <2>3, <2>4 DEF EnqueueCommit
<1>3. ASSUME NEW a \in Agents, NEW i \in UnlockedContexts, EnqueueUnlocked(a, i)
      PROVE  TypeOK'
  <2>1. NewRun(a, i, "unlocked") \in Run
    BY DEF NewRun, Run, RunStatus, RunKind
  <2> QED
    BY <1>3, <2>1 DEF EnqueueUnlocked
<1>4. ASSUME NEW r \in Runs, Claim(r)
      PROVE  TypeOK'
  <2>1. runs' \in [Runs -> Run]
    BY <1>4, SetRunStatus DEF Claim, RunStatus
  <2> QED
    BY <1>4, <2>1 DEF Claim
<1>5. ASSUME NEW r \in Runs, Finish(r)
      PROVE  TypeOK'
  <2>1. runs' \in [Runs -> Run]
    BY <1>5, SetRunStatus DEF Finish, RunStatus
  <2>2. settle' \in SUBSET (Runs \X Closer)
    BY <1>5 DEF Finish, OwesRelease, Closer
  <2> QED
    BY <1>5, <2>1, <2>2 DEF Finish
<1>6. ASSUME NEW r \in Runs, Cancel(r)
      PROVE  TypeOK'
  <2>1. runs' \in [Runs -> Run]
    BY <1>6, SetRunStatus DEF Cancel, RunStatus
  <2>2. settle' \in SUBSET (Runs \X Closer)
    BY <1>6 DEF Cancel, OwesRelease, Closer
  <2> QED
    BY <1>6, <2>1, <2>2 DEF Cancel
<1>7. ASSUME NEW r \in Runs, NEW closer \in {"reaper", "retry"}, Reap(r, closer)
      PROVE  TypeOK'
  <2>1. runs' \in [Runs -> Run]
    BY <1>7, SetRunStatus DEF Reap, RunStatus
  <2>2. settle' \in SUBSET (Runs \X Closer)
    BY <1>7 DEF Reap, OwesRelease, Closer
  <2> QED
    BY <1>7, <2>1, <2>2 DEF Reap, Unlist
<1>7a. ASSUME NEW r \in Runs, ListRunning(r)
      PROVE  TypeOK'
  <2>2. listed' = listed \cup {<<r, TRUE>>} \/ listed' = listed \cup {<<r, FALSE>>}
    <3>1. CASE r \in alive
      <4>1. (r \in alive) = TRUE
        BY <3>1
      <4> QED
        BY <1>7a, <4>1 DEF ListRunning
    <3>2. CASE r \notin alive
      <4>1. (r \in alive) = FALSE
        BY <3>2
      <4> QED
        BY <1>7a, <4>1 DEF ListRunning
    <3> QED
      BY <3>1, <3>2
  <2>3. listed' \in SUBSET (Runs \X BOOLEAN)
    <3>1. \A child \in BOOLEAN : <<r, child>> \in Runs \X BOOLEAN
      OBVIOUS
    <3>2. <<r, TRUE>> \in Runs \X BOOLEAN /\ <<r, FALSE>> \in Runs \X BOOLEAN
      BY <3>1
    <3>3. listed \subseteq Runs \X BOOLEAN
      OBVIOUS
    <3> HIDE DEF TypeOK, Runs
    <3> QED
      BY <2>2, <3>2, <3>3
  <2> QED
    BY <1>7a, <2>3 DEF ListRunning
<1>7b. ASSUME NEW r \in Runs, Detach(r)
      PROVE  TypeOK'
  <2>1. runs' \in [Runs -> Run]
    BY <1>7b, SetRunStatus DEF Detach, RunStatus
  <2>2. listed' \in SUBSET (Runs \X BOOLEAN) /\ revived' \in SUBSET Runs
    BY <1>7b DEF Detach, Unlist
  <2> QED
    BY <1>7b, <2>1, <2>2 DEF Detach
<1>8. ASSUME NEW r \in Runs, Exit(r)
      PROVE  TypeOK'
  BY <1>8 DEF Exit
<1>9. ASSUME NEW r \in Runs, NEW closer \in Closer, Release(r, closer)
      PROVE  TypeOK'
  <2>0. orphaned' \in SUBSET Issues
    BY <1>9 DEF Release, HeldBy
  <2>1. CASE HeldBy(r) = {} /\ UNCHANGED <<runs, nRuns, deferred, lockVars>>
    BY <1>9, <2>1 DEF Release
  <2>2. ASSUME NEW i \in HeldBy(r), NEW w \in deferred, Promote(i, w)
        PROVE  TypeOK'
    <3>1. i \in Issues /\ w \in Deferral
      BY DEF HeldBy
    <3>2. NewRun(w.agent, i, "issue") \in Run
      BY <3>1 DEF NewRun, Run, RunStatus, RunKind, Deferral
    <3> QED
      BY <1>9, <2>0, <2>2, <3>1, <3>2 DEF Release, Promote, Deferral
  <2>3. ASSUME NEW i \in HeldBy(r), FreeLock(i)
        PROVE  TypeOK'
    BY <1>9, <2>0, <2>3 DEF Release, FreeLock, HeldBy
  <2> QED
    BY <1>9, <2>1, <2>2, <2>3 DEF Release
<1>10. ASSUME NEW r \in Runs, Retry(r)
       PROVE  TypeOK'
  <2>1. runs[r].agent \in Agents \cup {NoAgent} /\ runs[r].issue \in Issues \cup {NoIssue}
    BY DEF Run
  <2>2. NewRun(runs[r].agent, runs[r].issue, "retry") \in Run
    BY <2>1 DEF NewRun, Run, RunStatus, RunKind
  <2>3. orphaned' \in SUBSET Issues
    BY <1>10 DEF Retry, HeldBy
  <2>4. /\ executionRunId' \in [Issues -> Runs \cup {NoRun}]
        /\ nameKey' \in [Issues -> Agents \cup {NoAgent}]
    <3>1. CASE UNCHANGED lockVars
      BY <3>1
    <3>2. CASE /\ runs[r].issue \in Issues
               /\ executionRunId' = [executionRunId EXCEPT ![runs[r].issue] = nRuns + 1]
               /\ nameKey' = [nameKey EXCEPT ![runs[r].issue] = runs[r].agent]
               /\ nRuns + 1 \in Runs
      BY <2>1, <3>2
    <3> QED
      BY <1>10, <2>1, <3>1, <3>2 DEF Retry
  <2>5. /\ runs' \in [Runs -> Run] /\ nRuns' \in 0 .. MaxRuns
        /\ settle' \in SUBSET (Runs \X Closer)
    BY <1>10, <2>2 DEF Retry
  <2>6. UNCHANGED <<agentStatus, deferred, nDeferrals, checkoutRunId, tx, executing, alive,
                    listed, boundVars, historyVars>>
    BY <1>10 DEF Retry
  <2> QED
    BY <2>3, <2>4, <2>5, <2>6
<1>11. ASSUME NEW r \in Runs, NEW i \in Issues, Checkout(r, i)
       PROVE  TypeOK'
  BY <1>11 DEF Checkout, LockPassesTo
<1>12. ASSUME NEW r \in Runs, NEW i \in Issues, AdoptStaleCheckout(r, i)
       PROVE  TypeOK'
  BY <1>12 DEF AdoptStaleCheckout, LockPassesTo
<1>13. ASSUME NEW i \in Issues, EndCheckout(i)
       PROVE  TypeOK'
  BY <1>13 DEF EndCheckout
<1>14. ASSUME NEW a \in Agents, SetAgentStatus(a)
       PROVE  TypeOK'
  BY <1>14 DEF SetAgentStatus
<1>15. ASSUME NEW a \in Agents, CancelPending(a)
       PROVE  TypeOK'
  BY <1>15 DEF CancelPending
<1>16. ASSUME Crash
       PROVE  TypeOK'
  <2>1. tx' \in [Issues -> Tx]
    BY <1>16 DEF Crash, NoTx, Tx, TxKind
  <2> QED
    BY <1>16, <2>1 DEF Crash
<1>17. CASE UNCHANGED vars
  BY <1>17 DEF vars
<1> HIDE DEF TypeOK
<1> QED
  BY <1>1, <1>2, <1>3, <1>4, <1>5, <1>6, <1>7, <1>7a, <1>7b, <1>8, <1>9, <1>10, <1>11,
     <1>12, <1>13, <1>14, <1>15, <1>16, <1>17 DEF Next

\* A row that exists keeps its agent, context and kind, never becomes active
\* again unless the reaper revives it, and never goes back to waiting; rows are
\* used in order, and a row that is new is queued.
RowStep(r) ==
  /\ r > nRuns' => runs'[r].status = "none"
  /\ runs[r].status # "none" =>
       /\ runs'[r].status # "none"
       /\ Active(r)' => Active(r) \/ r \in revived'
       /\ runs'[r].agent = runs[r].agent
       /\ runs'[r].issue = runs[r].issue
       /\ runs'[r].kind = runs[r].kind
  /\ runs[r].status \in {"running", "terminal"} =>
       runs'[r].status \in {"running", "terminal"}
  /\ runs[r].status = "none" =>
       runs'[r].status \in {"none", "queued"}

LEMMA RowSteps ==
  ASSUME TypeOK, RowsInUse, [Next]_vars, NEW q \in Runs
  PROVE  RowStep(q)
<1> DEFINE G == RowStep(q)
<1> USE DEF TypeOK, RowsInUse, RowStep, Runs, NoRun, Active, Run
<1>1. ASSUME NEW i \in Issues, NEW a \in Agents, NEW comment \in BOOLEAN,
             EnqueueBegin(i, a, comment)
      PROVE  G
  BY <1>1 DEF EnqueueBegin
<1>2. ASSUME NEW i \in Issues, EnqueueCommit(i)
      PROVE  G
  <2>1. CASE CommitQueued(i)
    BY <2>1 DEF CommitQueued, NewRun
  <2>2. CASE UNCHANGED <<runs, nRuns>>
    BY <2>2
  <2> QED
    BY <1>2, <2>1, <2>2 DEF EnqueueCommit, CommitCoalesced, CommitDeferred
<1>3. ASSUME NEW a \in Agents, NEW i \in UnlockedContexts, EnqueueUnlocked(a, i)
      PROVE  G
  BY <1>3 DEF EnqueueUnlocked, NewRun
<1>4. ASSUME NEW r \in Runs, Claim(r)
      PROVE  G
  BY <1>4 DEF Claim
<1>5. ASSUME NEW r \in Runs, Finish(r)
      PROVE  G
  BY <1>5 DEF Finish
<1>6. ASSUME NEW r \in Runs, Cancel(r)
      PROVE  G
  BY <1>6 DEF Cancel
<1>7. ASSUME NEW r \in Runs, NEW closer \in {"reaper", "retry"}, Reap(r, closer)
      PROVE  G
  BY <1>7 DEF Reap
<1>7a. ASSUME NEW r \in Runs, ListRunning(r)
      PROVE  G
  BY <1>7a DEF ListRunning
<1>7b. ASSUME NEW r \in Runs, Detach(r)
      PROVE  G
  <2>1. runs[r].status \in {"running", "terminal"}
    BY <1>7b DEF Detach
  <2>2. /\ runs' = [runs EXCEPT ![r].status = "running"] /\ nRuns' = nRuns
        /\ runs[r].status = "terminal" => r \in revived'
    BY <1>7b DEF Detach, Terminal
  <2> QED
    BY <2>1, <2>2
<1>8. ASSUME NEW r \in Runs, Exit(r)
      PROVE  G
  BY <1>8 DEF Exit
<1>9. ASSUME NEW r \in Runs, NEW closer \in Closer, Release(r, closer)
      PROVE  G
  <2>1. CASE UNCHANGED <<runs, nRuns>>
    BY <2>1
  <2>2. ASSUME NEW i \in HeldBy(r), NEW w \in deferred, Promote(i, w)
        PROVE  G
    BY <2>2 DEF Promote, NewRun
  <2> QED
    BY <1>9, <2>1, <2>2 DEF Release, FreeLock
<1>10. ASSUME NEW r \in Runs, Retry(r)
       PROVE  G
  BY <1>10 DEF Retry, NewRun
<1>11. ASSUME NEW r \in Runs, NEW i \in Issues, Checkout(r, i)
       PROVE  G
  BY <1>11 DEF Checkout
<1>12. ASSUME NEW r \in Runs, NEW i \in Issues, AdoptStaleCheckout(r, i)
       PROVE  G
  BY <1>12 DEF AdoptStaleCheckout
<1>13. ASSUME NEW i \in Issues, EndCheckout(i)
       PROVE  G
  BY <1>13 DEF EndCheckout
<1>14. ASSUME NEW a \in Agents, SetAgentStatus(a)
       PROVE  G
  BY <1>14 DEF SetAgentStatus
<1>15. ASSUME NEW a \in Agents, CancelPending(a)
       PROVE  G
  BY <1>15 DEF CancelPending
<1>16. ASSUME Crash
       PROVE  G
  BY <1>16 DEF Crash
<1>17. CASE UNCHANGED vars
  BY <1>17 DEF vars
<1> HIDE DEF G, TypeOK, RowsInUse, RowStep
<1> QED
  BY <1>1, <1>2, <1>3, <1>4, <1>5, <1>6, <1>7, <1>7a, <1>7b, <1>8, <1>9, <1>10, <1>11,
     <1>12, <1>13, <1>14, <1>15, <1>16, <1>17 DEF Next, G

\* What a step does to the lock of one issue: it stays with an active holder
\* that was not revived unless an adoption takes it, it does not change while a wakeup transaction
\* has the row, and it ends up with a row that exists.
LockStep(i) ==
  /\ HolderActive(i) => executionRunId'[i] = executionRunId[i] \/ i \in stolen'
  /\ tx[i].kind # "none" /\ tx'[i] = tx[i] => executionRunId'[i] = executionRunId[i]
  /\ executionRunId'[i] # NoRun => runs'[executionRunId'[i]].status # "none"

LEMMA LockSteps ==
  ASSUME LockInv, [Next]_vars, NEW j \in Issues
  PROVE  LockStep(j)
<1> DEFINE G == LockStep(j)
<1> USE DEF TypeOK, LockStep, HolderActive, Runs, NoRun, Active, Run, lockVars, NoTx, historyVars
<1>0. /\ TypeOK /\ RowsInUse /\ TransactionReadsHold /\ SettledAreTerminal
      /\ \A r \in Runs : RowStep(r)
  BY RowSteps DEF LockInv
<1>a. /\ \A r \in Runs : runs[r].status # "none" => runs'[r].status # "none"
      /\ executionRunId[j] # NoRun => runs[executionRunId[j]].status # "none"
      /\ \A r \in executing \cup alive : runs[r].status # "none"
      /\ tx[j].holder # NoRun => runs[tx[j].holder].status # "none"
  BY <1>0 DEF RowsInUse, RowStep
<1> HIDE DEF TypeOK
<1>b. /\ executionRunId \in [Issues -> Runs \cup {NoRun}] /\ tx \in [Issues -> Tx]
      /\ runs \in [Runs -> Run] /\ alive \subseteq Runs /\ executing \subseteq Runs
  BY <1>0 DEF TypeOK
<1>1. ASSUME NEW i \in Issues, NEW a \in Agents, NEW comment \in BOOLEAN,
             EnqueueBegin(i, a, comment)
      PROVE  G
  BY <1>1, <1>a, <1>b DEF EnqueueBegin
<1>2. ASSUME NEW i \in Issues, EnqueueCommit(i)
      PROVE  G
  <2>1. CASE j # i
    BY <1>2, <1>a, <1>b, <2>1 DEF EnqueueCommit, CommitQueued, CommitCoalesced,
       CommitDeferred, GiveLock
  <2>2. CASE j = i
    <3>0. tx'[j].kind = "none" /\ tx[j].kind # "none"
      BY <1>2, <1>b, <2>2 DEF EnqueueCommit, CommitQueued, CommitCoalesced, CommitDeferred
    <3>1. CASE CommitQueued(i)
      <4>1. ~HolderActive(i) /\ executionRunId'[i] = nRuns + 1
        BY <1>0, <1>b, <3>1 DEF CommitQueued, TransactionReadsHold
      <4>2. runs'[nRuns + 1].status = "queued" /\ nRuns + 1 # NoRun
        BY <1>b, <3>1 DEF CommitQueued, NewRun
      <4> QED
        BY <2>2, <3>0, <4>1, <4>2
    <3>2. CASE GiveLock(i, tx[i].holder) /\ UNCHANGED <<runs, nRuns>>
               /\ tx[i].kind \in {"coalesced", "deferred"}
      <4>1. executionRunId'[i] = tx[i].holder
        BY <1>b, <3>2 DEF GiveLock
      <4> QED
        BY <1>0, <1>a, <2>2, <3>0, <3>2, <4>1 DEF TransactionReadsHold
    <3> QED
      BY <1>2, <3>1, <3>2 DEF EnqueueCommit, CommitCoalesced, CommitDeferred
  <2> QED
    BY <2>1, <2>2
<1>3. ASSUME NEW a \in Agents, NEW i \in UnlockedContexts, EnqueueUnlocked(a, i)
      PROVE  G
  BY <1>3, <1>a, <1>b DEF EnqueueUnlocked, NewRun
<1>4. ASSUME NEW r \in Runs, Claim(r)
      PROVE  G
  BY <1>4, <1>a, <1>b DEF Claim
<1>5. ASSUME NEW r \in Runs, Finish(r)
      PROVE  G
  BY <1>5, <1>a, <1>b DEF Finish
<1>6. ASSUME NEW r \in Runs, Cancel(r)
      PROVE  G
  BY <1>6, <1>a, <1>b DEF Cancel
<1>7. ASSUME NEW r \in Runs, NEW closer \in {"reaper", "retry"}, Reap(r, closer)
      PROVE  G
  BY <1>7, <1>a, <1>b DEF Reap
<1>7a. ASSUME NEW r \in Runs, ListRunning(r)
      PROVE  G
  BY <1>7a, <1>a, <1>b DEF ListRunning
<1>7b. ASSUME NEW r \in Runs, Detach(r)
      PROVE  G
  BY <1>7b, <1>a, <1>b DEF Detach
<1>8. ASSUME NEW r \in Runs, Exit(r)
      PROVE  G
  BY <1>8, <1>a, <1>b DEF Exit
<1>9. ASSUME NEW r \in Runs, NEW closer \in Closer, Release(r, closer)
      PROVE  G
  <2>0. Terminal(r) \/ r \in revived
    BY <1>0, <1>9 DEF Release, SettledAreTerminal
  <2>1. CASE UNCHANGED <<runs, nRuns, lockVars>>
    BY <1>a, <2>1
  <2>2. ASSUME NEW i \in HeldBy(r), NEW w \in deferred, Promote(i, w)
        PROVE  G
    <3>1. executionRunId[i] = r /\ tx[i] = NoTx /\ i \in Issues
      BY <1>9, <2>2 DEF Release, HeldBy
    <3>2. runs'[nRuns + 1].status = "queued"
      BY <1>b, <2>2 DEF Promote, NewRun
    <3> QED
      BY <1>a, <1>b, <2>0, <2>2, <3>1, <3>2 DEF Promote, Terminal
  <2>3. ASSUME NEW i \in HeldBy(r), FreeLock(i)
        PROVE  G
    BY <1>9, <1>a, <1>b, <2>0, <2>3 DEF Release, FreeLock, HeldBy, Terminal
  <2> QED
    BY <1>9, <2>1, <2>2, <2>3 DEF Release
<1>10. ASSUME NEW r \in Runs, Retry(r)
       PROVE  G
  <2>0. Terminal(r) \/ r \in revived
    BY <1>0, <1>10 DEF Retry, SettledAreTerminal
  <2>1. runs'[nRuns + 1].status = "queued" /\ nRuns + 1 \in Runs
    BY <1>b, <1>10 DEF Retry, NewRun
  <2> QED
    BY <1>10, <1>a, <1>b, <2>0, <2>1 DEF Retry, Terminal
<1>11. ASSUME NEW r \in Runs, NEW i \in Issues, Checkout(r, i)
       PROVE  G
  BY <1>11, <1>a, <1>b DEF Checkout, ExecutionLockCondition
<1>12. ASSUME NEW r \in Runs, NEW i \in Issues, AdoptStaleCheckout(r, i)
       PROVE  G
  BY <1>12, <1>a, <1>b DEF AdoptStaleCheckout
<1>13. ASSUME NEW i \in Issues, EndCheckout(i)
       PROVE  G
  BY <1>13, <1>a, <1>b DEF EndCheckout
<1>14. ASSUME NEW a \in Agents, SetAgentStatus(a)
       PROVE  G
  BY <1>14, <1>a, <1>b DEF SetAgentStatus
<1>15. ASSUME NEW a \in Agents, CancelPending(a)
       PROVE  G
  BY <1>15, <1>a, <1>b DEF CancelPending
<1>16. ASSUME Crash
       PROVE  G
  BY <1>16, <1>a, <1>b DEF Crash
<1>17. CASE UNCHANGED vars
  BY <1>17, <1>a, <1>b DEF vars
<1> HIDE DEF G, LockStep
<1> QED
  BY <1>1, <1>2, <1>3, <1>4, <1>5, <1>6, <1>7, <1>7a, <1>7b, <1>8, <1>9, <1>10, <1>11,
     <1>12, <1>13, <1>14, <1>15, <1>16, <1>17 DEF Next, G

\* References to run rows stay references to rows that exist.
LEMMA RowsInUseStep ==
  ASSUME LockInv, [Next]_vars
  PROVE  RowsInUse'
<1> DEFINE G == /\ \A r \in executing' \cup alive' : runs'[r].status # "none"
                /\ \A e \in listed' : runs'[e[1]].status \in {"running", "terminal"}
                /\ \A i \in Issues : tx'[i].holder # NoRun =>
                                       runs'[tx'[i].holder].status # "none"
<1> USE DEF Runs, NoRun, NoTx
<1>0. /\ TypeOK /\ RowsInUse /\ TransactionReadsHold /\ SettledAreTerminal
      /\ \A r \in Runs : RowStep(r)
      /\ \A i \in Issues : LockStep(i)
  BY RowSteps, LockSteps DEF LockInv
<1>a. /\ \A r \in Runs : runs[r].status # "none" => runs'[r].status # "none"
      /\ \A r \in executing \cup alive : runs[r].status # "none"
      /\ \A i \in Issues : tx[i].holder # NoRun => runs[tx[i].holder].status # "none"
      /\ \A i \in Issues : executionRunId[i] # NoRun =>
                             runs[executionRunId[i]].status # "none"
  BY <1>0 DEF RowsInUse, RowStep
<1>b. /\ executionRunId \in [Issues -> Runs \cup {NoRun}] /\ tx \in [Issues -> Tx]
      /\ runs \in [Runs -> Run] /\ alive \subseteq Runs /\ executing \subseteq Runs
  BY <1>0 DEF TypeOK
<1>c. /\ \A i \in Issues : tx[i].holder \in Runs \cup {NoRun}
      /\ \A r \in executing \cup alive : runs'[r].status # "none"
      /\ \A e \in listed : runs'[e[1]].status \in {"running", "terminal"}
      /\ \A i \in Issues : tx[i].holder # NoRun => runs'[tx[i].holder].status # "none"
  <2>1. \A e \in listed : e[1] \in Runs /\ runs[e[1]].status \in {"running", "terminal"}
    BY <1>0 DEF TypeOK, RowsInUse
  <2>2. \A e \in listed : runs'[e[1]].status \in {"running", "terminal"}
    BY <1>0, <2>1 DEF RowStep
  <2> QED
    BY <1>a, <1>b, <2>2 DEF Tx
<1>1. ASSUME NEW i \in Issues, NEW a \in Agents, NEW comment \in BOOLEAN,
             EnqueueBegin(i, a, comment)
      PROVE  G
  <2>1. PICK h \in Runs \cup {NoRun} :
          /\ ActiveExecutionRun(i, h)
          /\ tx' = [tx EXCEPT ![i] = [kind |-> Outcome(i, h, a, comment),
                                      agent |-> a, holder |-> h]]
    BY <1>1 DEF EnqueueBegin
  <2>2. h # NoRun => runs[h].status # "none"
    BY <1>a, <1>b, <2>1 DEF ActiveExecutionRun, ContextRuns, Active
  <2> QED
    BY <1>1, <1>b, <1>c, <2>1, <2>2 DEF EnqueueBegin, processVars
<1>2. ASSUME NEW i \in Issues, EnqueueCommit(i)
      PROVE  G
  <2>1. tx' = [tx EXCEPT ![i] = NoTx] /\ UNCHANGED processVars /\ listed' = listed
    BY <1>2 DEF EnqueueCommit
  <2> QED
    BY <1>b, <1>c, <2>1 DEF processVars
<1>3. ASSUME NEW a \in Agents, NEW i \in UnlockedContexts, EnqueueUnlocked(a, i)
      PROVE  G
  BY <1>3, <1>b, <1>c DEF EnqueueUnlocked, processVars
<1>4. ASSUME NEW r \in Runs, Claim(r)
      PROVE  G
  <2>1. runs'[r].status = "running" /\ tx' = tx
    BY <1>4, <1>b DEF Claim
  <2> QED
    BY <1>4, <1>c, <2>1 DEF Claim
<1>5. ASSUME NEW r \in Runs, Finish(r)
      PROVE  G
  BY <1>5, <1>b, <1>c DEF Finish, processVars
<1>6. ASSUME NEW r \in Runs, Cancel(r)
      PROVE  G
  BY <1>6, <1>b, <1>c DEF Cancel, processVars
<1>7. ASSUME NEW r \in Runs, NEW closer \in {"reaper", "retry"}, Reap(r, closer)
      PROVE  G
  BY <1>7, <1>b, <1>c DEF Reap, Unlist, processVars
<1>7a. ASSUME NEW r \in Runs, ListRunning(r)
      PROVE  G
  BY <1>7a, <1>b, <1>c DEF ListRunning, processVars
<1>7b. ASSUME NEW r \in Runs, Detach(r)
      PROVE  G
  BY <1>7b, <1>b, <1>c DEF Detach, Unlist, processVars
<1>8. ASSUME NEW r \in Runs, Exit(r)
      PROVE  G
  BY <1>8, <1>b, <1>c DEF Exit, processVars
<1>9. ASSUME NEW r \in Runs, NEW closer \in Closer, Release(r, closer)
      PROVE  G
  BY <1>9, <1>b, <1>c DEF Release, processVars
<1>10. ASSUME NEW r \in Runs, Retry(r)
       PROVE  G
  BY <1>10, <1>b, <1>c DEF Retry, processVars
<1>11. ASSUME NEW r \in Runs, NEW i \in Issues, Checkout(r, i)
       PROVE  G
  BY <1>11, <1>b, <1>c DEF Checkout, processVars
<1>12. ASSUME NEW r \in Runs, NEW i \in Issues, AdoptStaleCheckout(r, i)
       PROVE  G
  BY <1>12, <1>b, <1>c DEF AdoptStaleCheckout, processVars
<1>13. ASSUME NEW i \in Issues, EndCheckout(i)
       PROVE  G
  BY <1>13, <1>b, <1>c DEF EndCheckout, processVars
<1>14. ASSUME NEW a \in Agents, SetAgentStatus(a)
       PROVE  G
  BY <1>14, <1>b, <1>c DEF SetAgentStatus, processVars
<1>15. ASSUME NEW a \in Agents, CancelPending(a)
       PROVE  G
  BY <1>15, <1>b, <1>c DEF CancelPending, processVars
<1>16. ASSUME Crash
       PROVE  G
  BY <1>16, <1>b, <1>c DEF Crash, processVars
<1>17. ASSUME UNCHANGED vars
       PROVE  G
  BY <1>17, <1>b, <1>c DEF vars, processVars
<1> HIDE DEF G
<1>18. G
  BY <1>1, <1>2, <1>3, <1>4, <1>5, <1>6, <1>7, <1>7a, <1>7b, <1>8, <1>9, <1>10, <1>11,
     <1>12, <1>13, <1>14, <1>15, <1>16, <1>17 DEF Next
<1> QED
  BY <1>0, <1>18 DEF G, RowsInUse, RowStep, LockStep

\* The history of adoptions and revivals only grows.
LEMMA HistoryGrows ==
  ASSUME TypeOK, [Next]_vars
  PROVE  stolen \subseteq stolen' /\ revived \subseteq revived'
<1> DEFINE G == stolen \subseteq stolen' /\ revived \subseteq revived'
<1> USE DEF historyVars
<1>1. ASSUME NEW i \in Issues, NEW a \in Agents, NEW comment \in BOOLEAN,
             EnqueueBegin(i, a, comment)
      PROVE  G
  BY <1>1 DEF EnqueueBegin
<1>2. ASSUME NEW i \in Issues, EnqueueCommit(i)
      PROVE  G
  BY <1>2 DEF EnqueueCommit
<1>3. ASSUME NEW a \in Agents, NEW i \in UnlockedContexts, EnqueueUnlocked(a, i)
      PROVE  G
  BY <1>3 DEF EnqueueUnlocked
<1>4. ASSUME NEW r \in Runs, Claim(r)
      PROVE  G
  BY <1>4 DEF Claim
<1>5. ASSUME NEW r \in Runs, Finish(r)
      PROVE  G
  BY <1>5 DEF Finish
<1>6. ASSUME NEW r \in Runs, Cancel(r)
      PROVE  G
  BY <1>6 DEF Cancel
<1>7. ASSUME NEW r \in Runs, NEW closer \in {"reaper", "retry"}, Reap(r, closer)
      PROVE  G
  BY <1>7 DEF Reap
<1>7a. ASSUME NEW r \in Runs, ListRunning(r)
      PROVE  G
  BY <1>7a DEF ListRunning
<1>7b. ASSUME NEW r \in Runs, Detach(r)
      PROVE  G
  BY <1>7b DEF Detach
<1>8. ASSUME NEW r \in Runs, Exit(r)
      PROVE  G
  BY <1>8 DEF Exit
<1>9. ASSUME NEW r \in Runs, NEW closer \in Closer, Release(r, closer)
      PROVE  G
  BY <1>9 DEF Release
<1>10. ASSUME NEW r \in Runs, Retry(r)
       PROVE  G
  BY <1>10 DEF Retry
<1>11. ASSUME NEW r \in Runs, NEW i \in Issues, Checkout(r, i)
       PROVE  G
  BY <1>11 DEF Checkout
<1>12. ASSUME NEW r \in Runs, NEW i \in Issues, AdoptStaleCheckout(r, i)
       PROVE  G
  BY <1>12 DEF AdoptStaleCheckout
<1>13. ASSUME NEW i \in Issues, EndCheckout(i)
       PROVE  G
  BY <1>13 DEF EndCheckout
<1>14. ASSUME NEW a \in Agents, SetAgentStatus(a)
       PROVE  G
  BY <1>14 DEF SetAgentStatus
<1>15. ASSUME NEW a \in Agents, CancelPending(a)
       PROVE  G
  BY <1>15 DEF CancelPending
<1>16. ASSUME Crash
       PROVE  G
  BY <1>16 DEF Crash
<1>17. ASSUME UNCHANGED vars
       PROVE  G
  BY <1>17 DEF vars
<1> HIDE DEF G
<1>18. G
  BY <1>1, <1>2, <1>3, <1>4, <1>5, <1>6, <1>7, <1>7a, <1>7b, <1>8, <1>9, <1>10, <1>11,
     <1>12, <1>13, <1>14, <1>15, <1>16, <1>17 DEF Next
<1> QED
  BY <1>18 DEF G

\* Whoever owes a run its release has written its terminal status, and no
\* later write of another request undoes that, but the reaper's.
LEMMA SettledStep ==
  ASSUME LockInv, [Next]_vars
  PROVE  SettledAreTerminal'
<1> DEFINE Ended(e) == runs'[e[1]].status = "terminal" \/ e[1] \in revived'
<1> DEFINE G == \A e \in settle' : Ended(e)
<1> USE DEF Runs
<1>0. /\ TypeOK /\ RowsInUse /\ TransactionReadsHold /\ SettledAreTerminal
      /\ \A r \in Runs : RowStep(r)
      /\ \A i \in Issues : LockStep(i)
  BY RowSteps, LockSteps DEF LockInv
<1>a. /\ settle \subseteq Runs \X Closer /\ runs \in [Runs -> Run]
      /\ \A e \in settle : e[1] \in Runs
      /\ \A e \in settle : runs[e[1]].status = "terminal" \/ e[1] \in revived
      /\ revived \subseteq revived'
  BY <1>0, HistoryGrows DEF TypeOK, SettledAreTerminal, Terminal
<1>b. \A r \in Runs : runs[r].status = "terminal"
                       => runs'[r].status = "terminal" \/ r \in revived'
  <2> SUFFICES ASSUME NEW r \in Runs, runs[r].status = "terminal", r \notin revived'
               PROVE  runs'[r].status = "terminal"
    OBVIOUS
  <2>1. runs'[r].status # "none" /\ ~Active(r)'
    BY <1>0 DEF RowStep, Active
  <2>2. runs'[r].status \in RunStatus
    BY <1>0, TypeStep DEF TypeOK, Run
  <2> QED
    BY <2>1, <2>2 DEF Active, RunStatus
<1>c. \A e \in settle : Ended(e)
  BY <1>a, <1>b
<1>1. ASSUME NEW i \in Issues, NEW a \in Agents, NEW comment \in BOOLEAN,
             EnqueueBegin(i, a, comment)
      PROVE  G
  BY <1>1, <1>c DEF EnqueueBegin, processVars
<1>2. ASSUME NEW i \in Issues, EnqueueCommit(i)
      PROVE  G
  BY <1>2, <1>c DEF EnqueueCommit, processVars
<1>3. ASSUME NEW a \in Agents, NEW i \in UnlockedContexts, EnqueueUnlocked(a, i)
      PROVE  G
  BY <1>3, <1>c DEF EnqueueUnlocked, processVars
<1>4. ASSUME NEW r \in Runs, Claim(r)
      PROVE  G
  BY <1>4, <1>c DEF Claim, processVars
<1>5. ASSUME NEW r \in Runs, Finish(r)
      PROVE  G
  <2>1. runs'[r].status = "terminal" /\ settle' = settle \cup {<<r, "execution">>}
    BY <1>5, <1>a DEF Finish, OwesRelease
  <2> QED
    BY <1>c, <2>1
<1>6. ASSUME NEW r \in Runs, Cancel(r)
      PROVE  G
  <2>1. runs'[r].status = "terminal" /\ settle' = settle \cup {<<r, "canceller">>}
    BY <1>6, <1>a DEF Cancel, OwesRelease
  <2> QED
    BY <1>c, <2>1
<1>7. ASSUME NEW r \in Runs, NEW closer \in {"reaper", "retry"}, Reap(r, closer)
      PROVE  G
  <2>1. runs'[r].status = "terminal" /\ settle' = settle \cup {<<r, closer>>}
    BY <1>7, <1>a DEF Reap, OwesRelease
  <2> QED
    BY <1>c, <2>1
<1>7a. ASSUME NEW r \in Runs, ListRunning(r)
      PROVE  G
  BY <1>7a, <1>c DEF ListRunning, processVars
<1>7b. ASSUME NEW r \in Runs, Detach(r)
      PROVE  G
  BY <1>7b, <1>c DEF Detach, processVars
<1>8. ASSUME NEW r \in Runs, Exit(r)
      PROVE  G
  BY <1>8, <1>c DEF Exit, processVars
<1>9. ASSUME NEW r \in Runs, NEW closer \in Closer, Release(r, closer)
      PROVE  G
  BY <1>9, <1>c DEF Release, processVars
<1>10. ASSUME NEW r \in Runs, Retry(r)
       PROVE  G
  BY <1>10, <1>c DEF Retry, processVars
<1>11. ASSUME NEW r \in Runs, NEW i \in Issues, Checkout(r, i)
       PROVE  G
  BY <1>11, <1>c DEF Checkout, processVars
<1>12. ASSUME NEW r \in Runs, NEW i \in Issues, AdoptStaleCheckout(r, i)
       PROVE  G
  BY <1>12, <1>c DEF AdoptStaleCheckout, processVars
<1>13. ASSUME NEW i \in Issues, EndCheckout(i)
       PROVE  G
  BY <1>13, <1>c DEF EndCheckout, processVars
<1>14. ASSUME NEW a \in Agents, SetAgentStatus(a)
       PROVE  G
  BY <1>14, <1>c DEF SetAgentStatus, processVars
<1>15. ASSUME NEW a \in Agents, CancelPending(a)
       PROVE  G
  BY <1>15, <1>c DEF CancelPending, processVars
<1>16. ASSUME Crash
       PROVE  G
  BY <1>16, <1>c DEF Crash, processVars
<1>17. ASSUME UNCHANGED vars
       PROVE  G
  BY <1>17, <1>c DEF vars, processVars
<1> HIDE DEF G
<1>18. G
  BY <1>1, <1>2, <1>3, <1>4, <1>5, <1>6, <1>7, <1>7a, <1>7b, <1>8, <1>9, <1>10, <1>11,
     <1>12, <1>13, <1>14, <1>15, <1>16, <1>17 DEF Next
<1> QED
  BY <1>18 DEF G, SettledAreTerminal, Terminal

\* What an open wakeup transaction decided from its reads stays justified: the
\* lock holder it found inactive stays so, the row keeps its holder.
LEMMA TransactionStep ==
  ASSUME LockInv, [Next]_vars
  PROVE  TransactionReadsHold'
<1> SUFFICES ASSUME NEW j \in Issues
             PROVE  /\ tx'[j].kind # "none" => tx'[j].agent \in Agents
                    /\ tx'[j].kind = "queued" => ~HolderActive(j)'
                    /\ tx'[j].kind \in {"coalesced", "deferred"} =>
                         /\ tx'[j].holder # NoRun
                         /\ tx'[j].holder = executionRunId'[j] \/ ~HolderActive(j)'
  BY DEF TransactionReadsHold
<1> DEFINE G == \/ tx'[j] = tx[j]
                \/ tx'[j].kind = "none"
                \/ \E i \in Issues, a \in Agents, comment \in BOOLEAN :
                     i = j /\ EnqueueBegin(i, a, comment)
<1> USE DEF Runs, NoRun, NoTx
<1>0. /\ TypeOK /\ RowsInUse /\ TransactionReadsHold /\ SettledAreTerminal
      /\ \A r \in Runs : RowStep(r)
      /\ \A i \in Issues : LockStep(i)
  BY RowSteps, LockSteps DEF LockInv
<1>a. /\ executionRunId \in [Issues -> Runs \cup {NoRun}] /\ tx \in [Issues -> Tx]
      /\ runs \in [Runs -> Run]
  BY <1>0 DEF TypeOK
<1>1. ASSUME NEW i \in Issues, NEW a \in Agents, NEW comment \in BOOLEAN,
             EnqueueBegin(i, a, comment)
      PROVE  G
  BY <1>1, <1>a DEF EnqueueBegin
<1>2. ASSUME NEW i \in Issues, EnqueueCommit(i)
      PROVE  G
  BY <1>2, <1>a DEF EnqueueCommit
<1>3. ASSUME NEW a \in Agents, NEW i \in UnlockedContexts, EnqueueUnlocked(a, i)
      PROVE  G
  BY <1>3, <1>a DEF EnqueueUnlocked
<1>4. ASSUME NEW r \in Runs, Claim(r)
      PROVE  G
  BY <1>4, <1>a DEF Claim
<1>5. ASSUME NEW r \in Runs, Finish(r)
      PROVE  G
  BY <1>5, <1>a DEF Finish, OwesRelease
<1>6. ASSUME NEW r \in Runs, Cancel(r)
      PROVE  G
  BY <1>6, <1>a DEF Cancel, OwesRelease
<1>7. ASSUME NEW r \in Runs, NEW closer \in {"reaper", "retry"}, Reap(r, closer)
      PROVE  G
  BY <1>7, <1>a DEF Reap, OwesRelease
<1>7a. ASSUME NEW r \in Runs, ListRunning(r)
      PROVE  G
  BY <1>7a, <1>a DEF ListRunning
<1>7b. ASSUME NEW r \in Runs, Detach(r)
      PROVE  G
  BY <1>7b, <1>a DEF Detach, OwesRelease
<1>8. ASSUME NEW r \in Runs, Exit(r)
      PROVE  G
  BY <1>8, <1>a DEF Exit
<1>9. ASSUME NEW r \in Runs, NEW closer \in Closer, Release(r, closer)
      PROVE  G
  BY <1>9, <1>a DEF Release
<1>10. ASSUME NEW r \in Runs, Retry(r)
       PROVE  G
  BY <1>10, <1>a DEF Retry
<1>11. ASSUME NEW r \in Runs, NEW i \in Issues, Checkout(r, i)
       PROVE  G
  BY <1>11, <1>a DEF Checkout, ExecutionLockCondition
<1>12. ASSUME NEW r \in Runs, NEW i \in Issues, AdoptStaleCheckout(r, i)
       PROVE  G
  BY <1>12, <1>a DEF AdoptStaleCheckout
<1>13. ASSUME NEW i \in Issues, EndCheckout(i)
       PROVE  G
  BY <1>13, <1>a DEF EndCheckout
<1>14. ASSUME NEW a \in Agents, SetAgentStatus(a)
       PROVE  G
  BY <1>14, <1>a DEF SetAgentStatus
<1>15. ASSUME NEW a \in Agents, CancelPending(a)
       PROVE  G
  BY <1>15, <1>a DEF CancelPending
<1>16. ASSUME Crash
       PROVE  G
  BY <1>16, <1>a DEF Crash
<1>17. ASSUME UNCHANGED vars
       PROVE  G
  BY <1>17, <1>a DEF vars
<1> HIDE DEF G
<1>18. G
  BY <1>1, <1>2, <1>3, <1>4, <1>5, <1>6, <1>7, <1>7a, <1>7b, <1>8, <1>9, <1>10, <1>11,
     <1>12, <1>13, <1>14, <1>15, <1>16, <1>17 DEF Next
<1>19. ASSUME tx'[j] = tx[j], tx[j].kind # "none"
       PROVE  /\ executionRunId'[j] = executionRunId[j]
              /\ ~HolderActive(j) => ~HolderActive(j)'
  <2>0. revived \subseteq revived'
    BY <1>0, HistoryGrows
  <2>1. executionRunId'[j] = executionRunId[j]
    BY <1>0, <1>19 DEF LockStep
  <2>2. executionRunId[j] # NoRun => runs[executionRunId[j]].status # "none"
    BY <1>0 DEF RowsInUse
  <2>3. executionRunId[j] # NoRun =>
          (Active(executionRunId[j])' => \/ Active(executionRunId[j])
                                          \/ executionRunId[j] \in revived')
    BY <1>0, <1>a, <2>1, <2>2 DEF RowStep, Active
  <2> QED
    BY <2>0, <2>1, <2>3 DEF HolderActive, Active
<1>20. ASSUME NEW a \in Agents, NEW comment \in BOOLEAN, EnqueueBegin(j, a, comment)
       PROVE  /\ tx'[j].agent \in Agents
              /\ tx'[j].kind = "queued" => ~HolderActive(j)'
              /\ tx'[j].kind \in {"coalesced", "deferred"} =>
                   /\ tx'[j].holder # NoRun
                   /\ tx'[j].holder = executionRunId'[j] \/ ~HolderActive(j)'
  <2>1. PICK h \in Runs \cup {NoRun} :
          /\ ActiveExecutionRun(j, h)
          /\ tx' = [tx EXCEPT ![j] = [kind |-> Outcome(j, h, a, comment),
                                      agent |-> a, holder |-> h]]
    BY <1>20 DEF EnqueueBegin
  <2>2. /\ tx'[j].kind = Outcome(j, h, a, comment)
        /\ tx'[j].agent = a /\ tx'[j].holder = h
    BY <1>a, <2>1
  <2>3. HolderActive(j)' = HolderActive(j) /\ executionRunId'[j] = executionRunId[j]
    BY <1>20 DEF EnqueueBegin, HolderActive, Active, lockVars, historyVars
  <2>4. HolderActive(j) => h = executionRunId[j] /\ h # NoRun
    BY <2>1 DEF ActiveExecutionRun, HolderActive
  <2>5. Outcome(j, h, a, comment) = "queued" <=> h = NoRun
    BY DEF Outcome
  <2> QED
    BY <2>2, <2>3, <2>4, <2>5
<1> QED
  BY <1>0, <1>18, <1>19, <1>20 DEF G, TransactionReadsHold

\* A run of kind "issue" is only ever created together with the lock of its
\* issue.
NewIssueRunHasLock ==
  \A r \in Runs :
    runs[r].status = "none" /\ runs'[r].status # "none" /\ runs'[r].kind = "issue"
      => /\ runs'[r].issue \in Issues
         /\ executionRunId'[runs'[r].issue] = r

LEMMA NewIssueRuns ==
  ASSUME LockInv, [Next]_vars
  PROVE  NewIssueRunHasLock
<1> DEFINE G == \A q \in Runs :
                  runs[q].status = "none" /\ runs'[q].status # "none"
                                         /\ runs'[q].kind = "issue"
                    => /\ runs'[q].issue \in Issues
                       /\ executionRunId'[runs'[q].issue] = q
<1> USE DEF Runs, NoRun, lockVars
<1>0. /\ TypeOK /\ RowsInUse /\ TransactionReadsHold /\ SettledAreTerminal
      /\ \A r \in Runs : RowStep(r)
      /\ \A i \in Issues : LockStep(i)
  BY RowSteps, LockSteps DEF LockInv
<1>a. /\ executionRunId \in [Issues -> Runs \cup {NoRun}] /\ runs \in [Runs -> Run]
      /\ executing \subseteq Runs /\ \A r \in executing : runs[r].status # "none"
  BY <1>0 DEF TypeOK, RowsInUse
<1>1. ASSUME NEW i \in Issues, NEW a \in Agents, NEW comment \in BOOLEAN,
             EnqueueBegin(i, a, comment)
      PROVE  G
  BY <1>1, <1>a DEF EnqueueBegin
<1>2. ASSUME NEW i \in Issues, EnqueueCommit(i)
      PROVE  G
  <2>1. CASE CommitQueued(i)
    BY <1>a, <2>1 DEF CommitQueued, NewRun
  <2>2. CASE runs' = runs
    BY <2>2
  <2> QED
    BY <1>2, <2>1, <2>2 DEF EnqueueCommit, CommitCoalesced, CommitDeferred
<1>3. ASSUME NEW a \in Agents, NEW i \in UnlockedContexts, EnqueueUnlocked(a, i)
      PROVE  G
  BY <1>3, <1>a DEF EnqueueUnlocked, NewRun
<1>4. ASSUME NEW r \in Runs, Claim(r)
      PROVE  G
  <2>1. runs' = [runs EXCEPT ![r].status = runs'[r].status] /\ runs[r].status # "none"
    BY <1>4, <1>a DEF Claim, Active, Run
  <2> QED
    BY <1>a, <2>1 DEF Run
<1>5. ASSUME NEW r \in Runs, Finish(r)
      PROVE  G
  <2>1. runs' = [runs EXCEPT ![r].status = runs'[r].status] /\ runs[r].status # "none"
    BY <1>5, <1>a DEF Finish, Active, Run
  <2> QED
    BY <1>a, <2>1 DEF Run
<1>6. ASSUME NEW r \in Runs, Cancel(r)
      PROVE  G
  <2>1. runs' = [runs EXCEPT ![r].status = runs'[r].status] /\ runs[r].status # "none"
    BY <1>6, <1>a DEF Cancel, Active, Run
  <2> QED
    BY <1>a, <2>1 DEF Run
<1>7. ASSUME NEW r \in Runs, NEW closer \in {"reaper", "retry"}, Reap(r, closer)
      PROVE  G
  <2>1. runs' = [runs EXCEPT ![r].status = runs'[r].status] /\ runs[r].status # "none"
    BY <1>7, <1>a, <1>0 DEF Reap, RowsInUse, Run
  <2> QED
    BY <1>a, <2>1 DEF Run
<1>7a. ASSUME NEW r \in Runs, ListRunning(r)
      PROVE  G
  BY <1>7a, <1>a DEF ListRunning
<1>7b. ASSUME NEW r \in Runs, Detach(r)
      PROVE  G
  <2>1. runs' = [runs EXCEPT ![r].status = runs'[r].status] /\ runs[r].status # "none"
    BY <1>7b, <1>a, <1>0 DEF Detach, RowsInUse, Run
  <2> QED
    BY <1>a, <2>1 DEF Run
<1>8. ASSUME NEW r \in Runs, Exit(r)
      PROVE  G
  BY <1>8, <1>a DEF Exit
<1>9. ASSUME NEW r \in Runs, NEW closer \in Closer, Release(r, closer)
      PROVE  G
  <2>1. CASE runs' = runs
    BY <2>1
  <2>2. ASSUME NEW i \in HeldBy(r), NEW w \in deferred, Promote(i, w)
        PROVE  G
    BY <1>a, <2>2 DEF Promote, NewRun, HeldBy
  <2> QED
    BY <1>9, <2>1, <2>2 DEF Release, FreeLock
<1>10. ASSUME NEW r \in Runs, Retry(r)
       PROVE  G
  BY <1>10, <1>a DEF Retry, NewRun
<1>11. ASSUME NEW r \in Runs, NEW i \in Issues, Checkout(r, i)
       PROVE  G
  BY <1>11, <1>a DEF Checkout, ExecutionLockCondition
<1>12. ASSUME NEW r \in Runs, NEW i \in Issues, AdoptStaleCheckout(r, i)
       PROVE  G
  BY <1>12, <1>a DEF AdoptStaleCheckout
<1>13. ASSUME NEW i \in Issues, EndCheckout(i)
       PROVE  G
  BY <1>13, <1>a DEF EndCheckout
<1>14. ASSUME NEW a \in Agents, SetAgentStatus(a)
       PROVE  G
  BY <1>14, <1>a DEF SetAgentStatus
<1>15. ASSUME NEW a \in Agents, CancelPending(a)
       PROVE  G
  BY <1>15, <1>a DEF CancelPending
<1>16. ASSUME Crash
       PROVE  G
  BY <1>16, <1>a DEF Crash
<1>17. ASSUME UNCHANGED vars
       PROVE  G
  BY <1>17, <1>a DEF vars
<1> HIDE DEF G
<1>18. G
  BY <1>1, <1>2, <1>3, <1>4, <1>5, <1>6, <1>7, <1>7a, <1>7b, <1>8, <1>9, <1>10, <1>11,
     <1>12, <1>13, <1>14, <1>15, <1>16, <1>17 DEF Next
<1> QED
  BY <1>18 DEF G, NewIssueRunHasLock

\* The exclusivity argument: an active run of kind "issue" either is new, and
\* was created with the lock, or held it before, and active holders keep it.
LEMMA IssueRunStep ==
  ASSUME LockInv, [Next]_vars
  PROVE  IssueRunsHaveIssue' /\ IssueRunHoldsLock'
<1> USE DEF Runs, NoRun
<1>0. /\ TypeOK /\ RowsInUse /\ TransactionReadsHold /\ SettledAreTerminal
      /\ \A r \in Runs : RowStep(r)
      /\ \A i \in Issues : LockStep(i)
  BY RowSteps, LockSteps DEF LockInv
<1>1. NewIssueRunHasLock /\ stolen \subseteq stolen' /\ revived \subseteq revived'
  BY <1>0, NewIssueRuns, HistoryGrows
<1> SUFFICES ASSUME NEW r \in Runs, runs'[r].status # "none", runs'[r].kind = "issue"
             PROVE  /\ runs'[r].issue \in Issues
                    /\ Active(r)' /\ r \notin revived' /\ runs'[r].issue \notin stolen' =>
                         executionRunId'[runs'[r].issue] = r
  BY DEF IssueRunsHaveIssue, IssueRunHoldsLock, Active
<1>2. CASE runs[r].status = "none"
  BY <1>1, <1>2 DEF NewIssueRunHasLock
<1>3. CASE runs[r].status # "none"
  <2>1. runs[r].kind = "issue" /\ runs'[r].issue = runs[r].issue
    BY <1>0, <1>3 DEF RowStep
  <2>2. runs[r].issue \in Issues
    BY <1>3, <2>1 DEF LockInv, IssueRunsHaveIssue
  <2>3. ASSUME Active(r)', r \notin revived', runs[r].issue \notin stolen'
        PROVE  executionRunId'[runs[r].issue] = r
    <3>1. Active(r) /\ r \notin revived
      BY <1>0, <1>1, <1>3, <2>3 DEF RowStep
    <3>2. executionRunId[runs[r].issue] = r
      BY <1>1, <2>1, <2>3, <3>1 DEF LockInv, IssueRunHoldsLock
    <3>3. HolderActive(runs[r].issue)
      BY <3>1, <3>2 DEF HolderActive
    <3> QED
      BY <1>0, <2>2, <2>3, <3>2, <3>3 DEF LockStep
  <2> QED
    BY <2>1, <2>2, <2>3
<1> QED
  BY <1>2, <1>3

\* Parked wakeups: whatever frees a lock leaves no wakeup parked on its issue,
\* and an agent parks a second one only by merging it into the first.
LEMMA DeferralStep ==
  ASSUME LockInv, [Next]_vars
  PROVE  DeferredHasHolder' /\ OneDeferralPerAgent'
<1> DEFINE G == /\ \A w \in deferred' : executionRunId'[w.issue] # NoRun
                /\ \A v, w \in deferred' :
                     v.issue = w.issue /\ v.agent = w.agent => v = w
<1> USE DEF Runs, NoRun, lockVars
<1>0. /\ TypeOK /\ RowsInUse /\ TransactionReadsHold /\ SettledAreTerminal
      /\ \A r \in Runs : RowStep(r)
      /\ \A i \in Issues : LockStep(i)
  BY RowSteps, LockSteps DEF LockInv
<1>a. /\ executionRunId \in [Issues -> Runs \cup {NoRun}]
      /\ nRuns \in 0 .. MaxRuns /\ nDeferrals \in 0 .. MaxDeferrals
      /\ alive \subseteq Runs
      /\ \A w \in deferred : w.issue \in Issues /\ w.agent \in Agents
      /\ \A w \in deferred : executionRunId[w.issue] # NoRun
      /\ \A v, w \in deferred : v.issue = w.issue /\ v.agent = w.agent => v = w
  BY <1>0 DEF TypeOK, Deferral, LockInv, DeferredHasHolder, OneDeferralPerAgent
<1>1. ASSUME NEW i \in Issues, NEW a \in Agents, NEW comment \in BOOLEAN,
             EnqueueBegin(i, a, comment)
      PROVE  G
  BY <1>1, <1>a DEF EnqueueBegin
<1>2. ASSUME NEW i \in Issues, EnqueueCommit(i)
      PROVE  G
  <2>1. CASE CommitQueued(i)
    <3>1. deferred' = deferred /\ executionRunId' = [executionRunId EXCEPT ![i] = nRuns + 1]
          /\ nRuns + 1 # NoRun
      BY <1>a, <2>1 DEF CommitQueued
    <3> QED
      BY <1>a, <3>1
  <2>2. ASSUME GiveLock(i, tx[i].holder), tx[i].kind \in {"coalesced", "deferred"}
        PROVE  \A j \in Issues : executionRunId[j] # NoRun \/ j = i
                                   => executionRunId'[j] # NoRun
    <3>1. tx[i].holder # NoRun
      BY <1>0, <2>2 DEF TransactionReadsHold
    <3>2. executionRunId' = [executionRunId EXCEPT ![i] = tx[i].holder]
      BY <2>2 DEF GiveLock
    <3> QED
      BY <1>a, <3>1, <3>2
  <2>3. CASE CommitCoalesced(i)
    BY <1>a, <2>2, <2>3 DEF CommitCoalesced
  <2>4. CASE CommitDeferred(i)
    <3>1. \A j \in Issues : executionRunId[j] # NoRun \/ j = i
                              => executionRunId'[j] # NoRun
      BY <2>2, <2>4 DEF CommitDeferred
    <3>2. CASE deferred' = deferred
      BY <1>a, <3>1, <3>2
    <3>3. CASE /\ ~ Parked(i, tx[i].agent)
               /\ deferred' = deferred \cup {[id |-> nDeferrals + 1,
                                              agent |-> tx[i].agent, issue |-> i]}
      BY <1>a, <3>1, <3>3 DEF Parked, DeferredOn
    <3> QED
      BY <2>4, <3>2, <3>3 DEF CommitDeferred
  <2> QED
    BY <1>2, <2>1, <2>3, <2>4 DEF EnqueueCommit
<1>3. ASSUME NEW a \in Agents, NEW i \in UnlockedContexts, EnqueueUnlocked(a, i)
      PROVE  G
  BY <1>3, <1>a DEF EnqueueUnlocked
<1>4. ASSUME NEW r \in Runs, Claim(r)
      PROVE  G
  BY <1>4, <1>a DEF Claim
<1>5. ASSUME NEW r \in Runs, Finish(r)
      PROVE  G
  BY <1>5, <1>a DEF Finish, OwesRelease
<1>6. ASSUME NEW r \in Runs, Cancel(r)
      PROVE  G
  BY <1>6, <1>a DEF Cancel, OwesRelease
<1>7. ASSUME NEW r \in Runs, NEW closer \in {"reaper", "retry"}, Reap(r, closer)
      PROVE  G
  BY <1>7, <1>a DEF Reap, OwesRelease
<1>7a. ASSUME NEW r \in Runs, ListRunning(r)
      PROVE  G
  BY <1>7a, <1>a DEF ListRunning
<1>7b. ASSUME NEW r \in Runs, Detach(r)
      PROVE  G
  BY <1>7b, <1>a DEF Detach, OwesRelease
<1>8. ASSUME NEW r \in Runs, Exit(r)
      PROVE  G
  BY <1>8, <1>a DEF Exit
<1>9. ASSUME NEW r \in Runs, NEW closer \in Closer, Release(r, closer)
      PROVE  G
  <2>1. CASE UNCHANGED <<runs, nRuns, deferred, lockVars>>
    BY <1>a, <2>1
  <2>2. ASSUME NEW i \in HeldBy(r), NEW w \in deferred, Promote(i, w)
        PROVE  G
    <3>1. /\ deferred' \subseteq deferred
          /\ executionRunId' = [executionRunId EXCEPT ![i] = nRuns + 1]
          /\ nRuns + 1 # NoRun
      BY <1>a, <2>2 DEF Promote
    <3> QED
      BY <1>a, <3>1
  <2>3. ASSUME NEW i \in HeldBy(r), FreeLock(i)
        PROVE  G
    <3>1. /\ deferred' = {w \in deferred : w.issue # i}
          /\ executionRunId' = [executionRunId EXCEPT ![i] = NoRun]
      BY <2>3 DEF FreeLock, DeferredOn
    <3> QED
      BY <1>a, <3>1
  <2> QED
    BY <1>9, <2>1, <2>2, <2>3 DEF Release
<1>10. ASSUME NEW r \in Runs, Retry(r)
       PROVE  G
  BY <1>10, <1>a DEF Retry
<1>11. ASSUME NEW r \in Runs, NEW i \in Issues, Checkout(r, i)
       PROVE  G
  BY <1>11, <1>a DEF Checkout, ExecutionLockCondition
<1>12. ASSUME NEW r \in Runs, NEW i \in Issues, AdoptStaleCheckout(r, i)
       PROVE  G
  BY <1>12, <1>a DEF AdoptStaleCheckout
<1>13. ASSUME NEW i \in Issues, EndCheckout(i)
       PROVE  G
  BY <1>13, <1>a DEF EndCheckout
<1>14. ASSUME NEW a \in Agents, SetAgentStatus(a)
       PROVE  G
  BY <1>14, <1>a DEF SetAgentStatus
<1>15. ASSUME NEW a \in Agents, CancelPending(a)
       PROVE  G
  BY <1>15, <1>a DEF CancelPending
<1>16. ASSUME Crash
       PROVE  G
  BY <1>16, <1>a DEF Crash
<1>17. ASSUME UNCHANGED vars
       PROVE  G
  BY <1>17, <1>a DEF vars
<1> HIDE DEF G
<1>18. G
  BY <1>1, <1>2, <1>3, <1>4, <1>5, <1>6, <1>7, <1>7a, <1>7b, <1>8, <1>9, <1>10, <1>11,
     <1>12, <1>13, <1>14, <1>15, <1>16, <1>17 DEF Next
<1> QED
  BY <1>18 DEF G, DeferredHasHolder, OneDeferralPerAgent

\* A wakeup is parked on the issue, or about to be behind its lock holder; and
\* what the lock invariant says of it.
Awaits(j) ==
  \/ DeferredOn(j) # {}
  \/ tx[j].kind \in {"coalesced", "deferred"} /\ tx[j].holder = executionRunId[j]
Bridged(j) == Awaits(j) => Served(j) \/ j \in orphaned

\* A run goes on to be handed on while no release of it is carried out.
LEMMA KeepsHandingOn ==
  ASSUME NEW q,
         Active(q) => Active(q)' \/ \E closer \in Closer : <<q, closer>> \in settle',
         q \in executing => q \in executing' \/ \E closer \in Closer : <<q, closer>> \in settle',
         \A closer \in Closer : <<q, closer>> \in settle => <<q, closer>> \in settle'
  PROVE  HandsOn(q) => HandsOn(q)'
  BY DEF HandsOn, Active

\* A step that leaves the issue's lock, parked wakeups and transaction alone,
\* and its holder to be handed on, leaves it served.
LEMMA StaysBridged ==
  ASSUME NEW j \in Issues, Bridged(j), NEW q, q = executionRunId[j],
         executionRunId'[j] = q, deferred' \subseteq deferred, tx'[j] = tx[j],
         j \in orphaned => j \in orphaned',
         HandsOn(q) => HandsOn(q)'
  PROVE  Bridged(j)'
<1>1. Awaits(j)' => Awaits(j)
  BY DEF Awaits, DeferredOn
<1>2. Served(j) => Served(j)'
  BY DEF Served, HandsOn, Active
<1> QED
  BY <1>1, <1>2 DEF Bridged

\* The lock of the issue goes to a new run.
LEMMA NewRunBridges ==
  ASSUME NEW j \in Issues, NEW s \in Runs, NEW a, NEW i, NEW kind,
         runs \in [Runs -> Run], runs' = [runs EXCEPT ![s] = NewRun(a, i, kind)],
         executionRunId'[j] = s
  PROVE  Bridged(j)'
  BY DEF Bridged, Served, HandsOn, Active, NewRun, Runs, NoRun

\* The lock of the issue goes to a run that will be handed on.
LEMMA BecomesBridged ==
  ASSUME NEW j \in Issues, NEW q \in Runs, executionRunId'[j] = q, HandsOn(q)'
  PROVE  Bridged(j)'
  BY DEF Bridged, Served, HandsOn, Active, Runs, NoRun

\* Passing the lock to a run that exists either keeps the issue served or
\* leaves it to a run that has ended.
LEMMA PassedOn ==
  ASSUME NEW i \in Issues, NEW h \in Runs, LockPassesTo(i, h),
         executionRunId \in [Issues -> Runs \cup {NoRun}],
         executionRunId' = [executionRunId EXCEPT ![i] = h],
         UNCHANGED <<runs, executing, settle>>,
         h = executionRunId[i] => Served(i) \/ i \in orphaned
  PROVE  Bridged(i)' /\ \A j \in Issues : j # i /\ j \in orphaned => j \in orphaned'
<1>1. HandsOn(h)' = HandsOn(h) /\ executionRunId'[i] = h
  BY DEF HandsOn, Active
<1>2. CASE HandsOn(h)
  BY <1>1, <1>2, BecomesBridged DEF LockPassesTo
<1>3. CASE ~HandsOn(h)
  <2>1. i \in orphaned'
    BY <1>3 DEF LockPassesTo, Served
  <2> QED
    BY <2>1 DEF Bridged, LockPassesTo
<1> QED
  BY <1>2, <1>3

\* Every step keeps every issue served on which a wakeup waits, or leaves its
\* lock to a run that has ended.
LEMMA BridgedStep ==
  ASSUME LockInv, [Next]_vars, NEW j \in Issues
  PROVE  Bridged(j)'
<1> DEFINE G == Bridged(j)'
<1> USE DEF Runs, NoRun, lockVars, processVars
<1>0. /\ runs \in [Runs -> Run] /\ tx \in [Issues -> Tx] /\ nRuns \in 0 .. MaxRuns
      /\ executionRunId \in [Issues -> Runs \cup {NoRun}]
      /\ executing \subseteq Runs /\ alive \subseteq Runs
      /\ settle \subseteq Runs \X Closer
      /\ \A w \in deferred : w.issue \in Issues
      /\ \A w \in deferred : executionRunId[w.issue] # NoRun
      /\ \A i \in Issues : tx[i].kind \in {"coalesced", "deferred"} => tx[i].holder \in Runs
      /\ \A r \in Runs : r > nRuns => runs[r].status = "none"
  BY DEF LockInv, TypeOK, Deferral, RowsInUse, TransactionReadsHold, DeferredHasHolder, Tx
<1>a. Bridged(j)
  BY DEF LockInv, Bridged, Awaits, DeferredOn, NoStranding, TransactionIsServed
<1>b. ASSUME NEW s \in Runs, runs[s].status = "none", NEW row,
             runs' = [runs EXCEPT ![s] = row], NEW q, Active(q), q \in Runs
      PROVE  Active(q)'
  BY <1>0, <1>b DEF Active
<1>q. PICK q \in Runs \cup {NoRun} : q = executionRunId[j]
  BY <1>0
<1> USE <1>q
<1>1. ASSUME NEW i \in Issues, NEW a \in Agents, NEW comment \in BOOLEAN,
             EnqueueBegin(i, a, comment)
      PROVE  G
  <2>1. PICK h \in Runs \cup {NoRun} :
          /\ ActiveExecutionRun(i, h)
          /\ tx' = [tx EXCEPT ![i] = [kind |-> Outcome(i, h, a, comment),
                                      agent |-> a, holder |-> h]]
    BY <1>1 DEF EnqueueBegin
  <2>2. /\ UNCHANGED <<runs, deferred, executionRunId, executing, settle, orphaned>>
        /\ Served(j)' = Served(j)
    BY <1>1 DEF EnqueueBegin, Served, HandsOn, Active
  <2>3. CASE j # i
    BY <1>0, <1>a, <2>1, <2>2, <2>3 DEF Bridged, Awaits, DeferredOn
  <2>4. CASE j = i
    <3>1. tx'[j].kind = Outcome(i, h, a, comment) /\ tx'[j].holder = h
      BY <1>0, <2>1, <2>4
    <3>2. h = NoRun => Outcome(i, h, a, comment) = "queued"
      BY DEF Outcome
    <3>3. h # NoRun => Active(h)
      BY <2>1 DEF ActiveExecutionRun, ContextRuns
    <3>4. h # NoRun /\ h = executionRunId[j] => Served(j)
      BY <3>3 DEF Served, HandsOn
    <3> QED
      BY <1>a, <2>2, <3>1, <3>2, <3>4 DEF Bridged, Awaits, DeferredOn
  <2> QED
    BY <2>3, <2>4
<1>2. ASSUME NEW i \in Issues, EnqueueCommit(i)
      PROVE  G
  <2>0. /\ tx' = [tx EXCEPT ![i] = NoTx]
        /\ UNCHANGED <<executing, settle>>
    BY <1>2 DEF EnqueueCommit
  <2>1. CASE CommitQueued(i)
    <3>1. /\ runs' = [runs EXCEPT ![nRuns + 1] = NewRun(tx[i].agent, i, "issue")]
          /\ executionRunId' = [executionRunId EXCEPT ![i] = nRuns + 1]
          /\ deferred' = deferred /\ nRuns + 1 \in Runs /\ orphaned' = orphaned \ {i}
      BY <2>1 DEF CommitQueued
    <3>2. CASE j = i
      <4>1. executionRunId'[j] = nRuns + 1
        BY <1>0, <3>1, <3>2
      <4> QED
        BY <1>0, <3>1, <4>1, NewRunBridges
    <3>3. CASE j # i
      <4>1. Active(q) => Active(q)'
        BY <1>0, <3>1 DEF Active, NewRun
      <4>2. HandsOn(q) => HandsOn(q)'
        BY <2>0, <4>1, KeepsHandingOn
      <4> QED
        BY <1>0, <1>a, <2>0, <3>1, <3>3, <4>2, StaysBridged
    <3> QED
      BY <3>2, <3>3
  <2>2. CASE CommitCoalesced(i) \/ CommitDeferred(i)
    <3> DEFINE h == tx[i].holder
    <3>1. /\ UNCHANGED <<runs, executing, settle>> /\ LockPassesTo(i, h) /\ h \in Runs
          /\ executionRunId' = [executionRunId EXCEPT ![i] = h]
          /\ tx[i].kind \in {"coalesced", "deferred"}
          /\ \A w \in deferred' : w \in deferred \/ w.issue = i
      BY <1>0, <2>0, <2>2 DEF CommitCoalesced, CommitDeferred, GiveLock
    <3>2. h = executionRunId[i] => Served(i) \/ i \in orphaned
      BY <3>1 DEF LockInv, TransactionIsServed
    <3>3. Bridged(i)' /\ \A k \in Issues : k # i /\ k \in orphaned => k \in orphaned'
      BY <1>0, <3>1, <3>2, PassedOn
    <3>4. CASE j # i
      <4>1. /\ executionRunId'[j] = executionRunId[j] /\ tx'[j] = tx[j]
            /\ j \in orphaned => j \in orphaned'
        BY <1>0, <2>0, <3>1, <3>3, <3>4
      <4>2. Served(j) => Served(j)'
        BY <3>1, <4>1 DEF Served, HandsOn, Active
      <4> QED
        BY <1>a, <3>1, <3>4, <4>1, <4>2 DEF Bridged, Awaits, DeferredOn
    <3> QED
      BY <3>3, <3>4
  <2> QED
    BY <1>2, <2>1, <2>2 DEF EnqueueCommit
<1>3. ASSUME NEW a \in Agents, NEW i \in UnlockedContexts, EnqueueUnlocked(a, i)
      PROVE  G
  <2>1. /\ runs' = [runs EXCEPT ![nRuns + 1] = NewRun(a, i, "unlocked")]
        /\ UNCHANGED <<deferred, executionRunId, tx, executing, settle, orphaned>>
    BY <1>3 DEF EnqueueUnlocked
  <2>2. Active(q) => Active(q)'
    BY <1>0, <2>1 DEF Active, NewRun
  <2>3. HandsOn(q) => HandsOn(q)'
    BY <2>1, <2>2, KeepsHandingOn
  <2> QED
    BY <1>a, <2>1, <2>3, StaysBridged
<1>4. ASSUME NEW r \in Runs,
             \/ Claim(r) \/ Finish(r) \/ Cancel(r) \/ Exit(r) \/ ListRunning(r) \/ Detach(r)
             \/ \E closer \in {"reaper", "retry"} : Reap(r, closer)
      PROVE  G
  <2>1. UNCHANGED <<deferred, executionRunId, tx, orphaned>> /\ settle \subseteq settle'
    BY <1>4 DEF Claim, Finish, Cancel, Exit, ListRunning, Detach, Reap, OwesRelease
  <2>2. ASSUME q \in Runs, Active(q)
        PROVE  Active(q)' \/ \E closer \in Closer : <<q, closer>> \in settle'
    <3>1. CASE /\ Finish(r) \/ Cancel(r) \/ \E closer \in {"reaper", "retry"} : Reap(r, closer)
      <4>1. /\ \E closer \in Closer : <<r, closer>> \in settle'
            /\ runs' = [runs EXCEPT ![r].status = "terminal"]
        BY <3>1 DEF Finish, Cancel, Reap, OwesRelease, Closer
      <4> QED
        BY <1>0, <2>2, <4>1 DEF Active
    <3>2. CASE Claim(r) \/ Detach(r)
      <4>1. runs' = [runs EXCEPT ![r].status = "running"]
        BY <3>2 DEF Claim, Detach
      <4>2. \A p \in Runs : runs'[p].status = IF p = r THEN "running" ELSE runs[p].status
        BY <1>0, <4>1 DEF Run
      <4> QED
        BY <2>2, <4>2 DEF Active
    <3>3. CASE Exit(r) \/ ListRunning(r)
      BY <2>2, <3>3 DEF Exit, ListRunning, Active
    <3> QED
      BY <1>4, <3>1, <3>2, <3>3
  <2>3. q \in executing => q \in executing' \/ \E closer \in Closer : <<q, closer>> \in settle'
    BY <1>4 DEF Claim, Finish, Cancel, Exit, ListRunning, Detach, Reap, OwesRelease, Closer
  <2>4. CASE q \in Runs
    <3>1. HandsOn(q) => HandsOn(q)'
      BY <2>1, <2>2, <2>3, <2>4, KeepsHandingOn
    <3> QED
      BY <1>a, <2>1, <3>1, StaysBridged
  <2>5. CASE q = NoRun
    BY <1>a, <2>1, <2>5 DEF Bridged, Awaits, DeferredOn, Served
  <2> QED
    BY <1>q, <2>4, <2>5
<1>9. ASSUME NEW r \in Runs, NEW closer \in Closer, Release(r, closer)
      PROVE  G
  <2>0. /\ settle' = settle \ {<<r, closer>>}
        /\ UNCHANGED <<tx, executing>>
        /\ \A i \in HeldBy(r) : tx[i] = NoTx
    BY <1>9 DEF Release
  <2>1. ASSUME q # r, Active(q) => Active(q)'
        PROVE  HandsOn(q) => HandsOn(q)'
    BY <2>0, <2>1, KeepsHandingOn
  <2>2. CASE HeldBy(r) = {} /\ UNCHANGED <<runs, nRuns, deferred, lockVars, orphaned>>
    <3>1. q # r
      BY <2>2 DEF HeldBy
    <3>2. HandsOn(q) => HandsOn(q)'
      BY <2>1, <2>2, <3>1 DEF Active
    <3> QED
      BY <1>a, <2>0, <2>2, <3>2, StaysBridged
  <2>3. ASSUME NEW i \in HeldBy(r), NEW w \in deferred, Promote(i, w),
               orphaned' = (orphaned \cup HeldBy(r)) \ {i}
        PROVE  G
    <3>1. /\ runs' = [runs EXCEPT ![nRuns + 1] = NewRun(w.agent, i, "issue")]
          /\ executionRunId' = [executionRunId EXCEPT ![i] = nRuns + 1]
          /\ nRuns + 1 \in Runs /\ deferred' \subseteq deferred
          /\ i \in Issues /\ executionRunId[i] = r
      BY <2>3 DEF Promote, HeldBy
    <3>2. CASE j = i
      <4>1. executionRunId'[j] = nRuns + 1
        BY <1>0, <3>1, <3>2
      <4> QED
        BY <1>0, <3>1, <4>1, NewRunBridges
    <3>3. CASE j # i /\ q = r
      BY <2>3, <3>3 DEF HeldBy, Bridged
    <3>4. CASE j # i /\ q # r
      <4>1. Active(q) => Active(q)'
        BY <1>0, <3>1 DEF Active, NewRun
      <4>2. HandsOn(q) => HandsOn(q)'
        BY <2>1, <3>4, <4>1
      <4> QED
        BY <1>0, <1>a, <2>0, <2>3, <3>1, <3>4, <4>2, StaysBridged
    <3> QED
      BY <3>2, <3>3, <3>4
  <2>4. ASSUME NEW i \in HeldBy(r), FreeLock(i),
               orphaned' = (orphaned \cup HeldBy(r)) \ {i}
        PROVE  G
    <3>1. /\ deferred' = {w \in deferred : w.issue # i}
          /\ executionRunId' = [executionRunId EXCEPT ![i] = NoRun]
          /\ runs' = runs
          /\ i \in Issues /\ executionRunId[i] = r
      BY <2>4 DEF FreeLock, HeldBy, DeferredOn
    <3>2. CASE j = i
      <4>1. tx'[j].kind = "none" /\ DeferredOn(j)' = {}
        BY <2>0, <3>1, <3>2 DEF NoTx, DeferredOn
      <4> QED
        BY <4>1 DEF Bridged, Awaits
    <3>3. CASE j # i /\ q = r
      BY <2>4, <3>3 DEF HeldBy, Bridged
    <3>4. CASE j # i /\ q # r
      <4>1. HandsOn(q) => HandsOn(q)'
        BY <2>1, <3>1, <3>4 DEF Active
      <4> QED
        BY <1>0, <1>a, <2>0, <2>4, <3>1, <3>4, <4>1, StaysBridged
    <3> QED
      BY <3>2, <3>3, <3>4
  <2> QED
    BY <1>9, <2>2, <2>3, <2>4 DEF Release
<1>10. ASSUME NEW r \in Runs, Retry(r)
       PROVE  G
  <2> DEFINE s == nRuns + 1
             i == runs[r].issue
             inherits == i # NoIssue /\ executionRunId[i] = r
  <2>1. /\ runs' = [runs EXCEPT ![s] = NewRun(runs[r].agent, i, "retry")]
        /\ s \in Runs /\ settle' = settle \ {<<r, "retry">>}
        /\ UNCHANGED <<deferred, tx, executing>>
        /\ orphaned' = (orphaned \cup HeldBy(r)) \ (HeldBy(r) \cap {i})
        /\ executionRunId' = IF inherits THEN [executionRunId EXCEPT ![i] = s]
                             ELSE executionRunId
    BY <1>10 DEF Retry
  <2>2. i \in Issues \cup {NoIssue}
    BY <1>0 DEF Run
  <2>3. CASE q = r /\ j = i
    <3>1. executionRunId'[j] = s
      BY <1>0, <2>1, <2>3
    <3> QED
      BY <1>0, <2>1, <3>1, NewRunBridges
  <2>4. CASE q = r /\ j # i
    <3>1. j \in orphaned'
      BY <2>1, <2>4 DEF HeldBy
    <3> QED
      BY <3>1 DEF Bridged
  <2>5. CASE q # r
    <3>1. executionRunId'[j] = q /\ (j \in orphaned => j \in orphaned')
      BY <1>0, <2>1, <2>2, <2>5 DEF HeldBy
    <3>2. Active(q) => Active(q)'
      BY <1>0, <2>1 DEF Active, NewRun
    <3>3. HandsOn(q) => HandsOn(q)'
      BY <2>1, <2>5, <3>2, KeepsHandingOn
    <3> QED
      BY <1>a, <2>1, <3>1, <3>3, StaysBridged
  <2> QED
    BY <2>3, <2>4, <2>5
<1>11. ASSUME NEW r \in Runs, NEW i \in Issues, Checkout(r, i) \/ AdoptStaleCheckout(r, i)
       PROVE  G
  <2>1. /\ executionRunId' = [executionRunId EXCEPT ![i] = r]
        /\ UNCHANGED <<runs, deferred, tx, executing, settle>>
        /\ tx[i] = NoTx /\ LockPassesTo(i, r)
    BY <1>11 DEF Checkout, AdoptStaleCheckout
  <2>2. r # executionRunId[i] \/ Bridged(i)
    BY DEF LockInv, Bridged, Awaits, DeferredOn, NoStranding, TransactionIsServed
  <2>3. CASE j = i /\ executionRunId[i] = r
    <3>1. executionRunId'[j] = q /\ orphaned' = orphaned
      BY <1>0, <2>1, <2>3 DEF LockPassesTo
    <3>2. HandsOn(q) => HandsOn(q)'
      BY <2>1 DEF HandsOn, Active
    <3> QED
      BY <1>a, <2>1, <3>1, <3>2, StaysBridged
  <2>4. CASE j = i /\ executionRunId[i] # r
    BY <1>0, <2>1, <2>4, PassedOn
  <2>5. CASE j # i
    <3>1. executionRunId'[j] = q /\ (j \in orphaned => j \in orphaned')
      BY <1>0, <2>1, <2>5 DEF LockPassesTo
    <3>2. HandsOn(q) => HandsOn(q)'
      BY <2>1 DEF HandsOn, Active
    <3> QED
      BY <1>a, <2>1, <3>1, <3>2, StaysBridged
  <2> QED
    BY <2>3, <2>4, <2>5
<1>13. ASSUME \/ \E i \in Issues : EndCheckout(i)
              \/ \E a \in Agents : SetAgentStatus(a) \/ CancelPending(a)
              \/ UNCHANGED vars
       PROVE  G
  <2>1. /\ deferred' \subseteq deferred
        /\ UNCHANGED <<runs, executionRunId, tx, executing, settle, orphaned>>
    BY <1>13 DEF EndCheckout, SetAgentStatus, CancelPending, vars
  <2>2. HandsOn(q) => HandsOn(q)'
    BY <2>1 DEF HandsOn, Active
  <2> QED
    BY <1>a, <2>1, <2>2, StaysBridged
<1>16. ASSUME Crash
       PROVE  G
  <2>1. /\ UNCHANGED <<runs, deferred, executionRunId>> /\ tx'[j] = NoTx
        /\ orphaned' = orphaned \cup
             {i \in Issues : executionRunId[i] # NoRun /\ ~Active(executionRunId[i])}
    BY <1>16 DEF Crash
  <2>2. Awaits(j)' => q # NoRun
    BY <1>0, <2>1 DEF Awaits, DeferredOn, NoTx
  <2>3. CASE Active(q)
    BY <2>1, <2>2, <2>3 DEF Bridged, Served, HandsOn, Active
  <2>4. CASE ~Active(q)
    BY <2>1, <2>2, <2>4 DEF Bridged
  <2> QED
    BY <2>3, <2>4
<1> HIDE DEF G
<1>18. G
  BY <1>1, <1>2, <1>3, <1>4, <1>9, <1>10, <1>11, <1>13, <1>16 DEF Next
<1> QED
  BY <1>18 DEF G

\* Issue by issue, that is NoStranding and what it needs.
LEMMA ServedSteps ==
  ASSUME LockInv, [Next]_vars, TypeOK'
  PROVE  NoStranding' /\ TransactionIsServed'
<1>1. \A j \in Issues : Bridged(j)'
  BY BridgedStep
<1> QED
  BY <1>1 DEF Bridged, Awaits, DeferredOn, NoStranding, TransactionIsServed, TypeOK, Deferral

\* The invariant is inductive.
THEOREM LockInvariance == Spec => []LockInv
<1>1. Init => LockInv
  BY InitLockInv
<1>2. LockInv /\ [Next]_vars => LockInv'
  BY TypeStep, RowsInUseStep, SettledStep, TransactionStep, IssueRunStep,
     DeferralStep, ServedSteps DEF LockInv
<1> QED
  BY <1>1, <1>2, PTL DEF Spec

\* The tables and the server's bookkeeping keep their shapes.
THEOREM TypeCorrect == Spec => []TypeOK
<1>1. LockInv => TypeOK
  BY DEF LockInv
<1> QED
  BY <1>1, LockInvariance, PTL

\* No wakeup ever waits on a free lock.
THEOREM NoDeferralWithoutHolder == Spec => []DeferredHasHolder
<1>1. LockInv => DeferredHasHolder
  BY DEF LockInv
<1> QED
  BY <1>1, LockInvariance, PTL

\* One parked wakeup per issue and agent.
THEOREM DeferralsAreMerged == Spec => []OneDeferralPerAgent
<1>1. LockInv => OneDeferralPerAgent
  BY DEF LockInv
<1> QED
  BY <1>1, LockInvariance, PTL

\* A run created under the issue lock holds it while it is active.
THEOREM IssueRunsHoldTheLock == Spec => []IssueRunHoldsLock
<1>1. LockInv => IssueRunHoldsLock
  BY DEF LockInv
<1> QED
  BY <1>1, LockInvariance, PTL

\* Mutual exclusion, as a consequence: two active runs created under the lock
\* of one issue are the same run, unless an adoption has interfered or the
\* reaper has brought one of them back.
THEOREM OneOwnerPerIssue ==
  Spec => [](\A r, s \in Runs \ revived :
               /\ Active(r) /\ Active(s)
               /\ runs[r].kind = "issue" /\ runs[s].kind = "issue"
               /\ runs[r].issue = runs[s].issue /\ runs[r].issue \notin stolen
               => r = s)
<1> DEFINE Exclusive ==
      \A r, s \in Runs \ revived :
        /\ Active(r) /\ Active(s)
        /\ runs[r].kind = "issue" /\ runs[s].kind = "issue"
        /\ runs[r].issue = runs[s].issue /\ runs[r].issue \notin stolen
        => r = s
<1>1. IssueRunHoldsLock => Exclusive
  BY DEF IssueRunHoldsLock
<1> HIDE DEF Exclusive
<1>2. Spec => []Exclusive
  BY <1>1, IssueRunsHoldTheLock, PTL
<1> QED
  BY <1>2 DEF Exclusive

\* An active holder that was not revived loses the lock to an adoption or not
\* at all.
THEOREM HolderKeepsLock == Spec => ActiveHolderKeepsLock
<1>1. LockInv /\ [Next]_vars =>
        [\A i \in Issues :
           LET h == executionRunId[i]
           IN h # NoRun /\ Active(h)
                => \/ executionRunId'[i] = h
                   \/ i \in stolen'
                   \/ h \in revived]_vars
  BY LockSteps DEF LockStep, HolderActive
<1> QED
  BY <1>1, LockInvariance, PTL DEF Spec, ActiveHolderKeepsLock

\* No parked wakeup is stranded, whatever order wakeups, ends, cancellations,
\* pauses, checkouts, crashes and the reaper's judgements come in, except on an
\* issue whose lock was left to a run that has ended.
THEOREM NoWakeupIsStranded == Spec => []NoStranding
<1>1. LockInv => NoStranding
  BY DEF LockInv
<1> QED
  BY <1>1, LockInvariance, PTL

=============================================================================
